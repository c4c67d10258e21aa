--------------------------- MODULE MCFifoCarrier ---------------------------
EXTENDS FifoCarrier

\* Driver (role 0) and engine (role 1) with two lanes; the answers of the engine
\* are in the other sites.
TwoLanes == [port |-> {0, 1} \X {1, 2}, flow |-> {<<0, 1>>}, deadline |-> FALSE]

\* The sensor panel: a boundary (role 2) beside the driver, and an engine that
\* sends itself a message too.
Panel(deadline) ==
  [port |-> {0, 1, 2} \X {1}, flow |-> {<<0, 1>>, <<1, 0>>, <<0, 2>>, <<2, 0>>, <<1, 1>>},
   deadline |-> deadline]

Sites == {TwoLanes, Panel(TRUE), Panel(FALSE)}
=============================================================================
