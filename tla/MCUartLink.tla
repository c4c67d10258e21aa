----------------------------- MODULE MCUartLink -----------------------------
EXTENDS UartLink

\* The M33 (role 0) and the WASI cell (role 1) at the two ends of the line.
Line == [kind |-> "uart", left |-> "nothing", port |-> {0, 1} \X {1},
         flow |-> {<<0, 1>>, <<1, 0>>}, frames |-> 2, lens |-> {1}]

\* The WASI cell between the M33 and the local LLM (role 2), with bytes of an
\* earlier session in the tty.
Shell(left) == [kind |-> "uart", left |-> left, port |-> {0, 1, 2} \X {1},
                flow |-> {<<0, 1>>, <<1, 2>>}, frames |-> 2, lens |-> {0}]

\* The proof in one process: queues only.
Loopback == [kind |-> "loopback", left |-> "nothing", port |-> {1, 2} \X {1, 2},
             flow |-> {<<1, 2>>}, frames |-> 3, lens |-> {0}]

\* The ring of the split example.
Split == [kind |-> "split", left |-> "nothing", port |-> {0, 1, 2} \X {1},
          flow |-> {<<0, 1>>, <<1, 2>>, <<2, 0>>}, frames |-> 3, lens |-> {0}]

Sites == {Line, Loopback, Split} \cup {Shell(left) : left \in {"banner", "frame", "cut"}}
=============================================================================
