---------------------------- MODULE MCSioCarrier ----------------------------
EXTENDS SioCarrier

SiteOf(ports, core0, deadline) ==
  LET roles == {p[1] : p \in ports}
  IN  [role |-> roles, port |-> ports, deadline |-> deadline,
       coreOf |-> [r \in roles |-> IF r \in core0 THEN 0 ELSE 1]]

\* The Baker placement, with and without a deadline: role 0 (driver) on core 0
\* and role 1 (engine) on core 1, both with two lanes.
BakerSites ==
  {SiteOf({0, 1} \X {1, 2}, {0}, deadline) : deadline \in BOOLEAN}

\* A boundary role 2 next to the driver on core 0, one lane.
SharedSite == SiteOf({0, 1, 2} \X {1}, {0, 2}, FALSE)

Sites == BakerSites \cup {SharedSite}

\* Two roles on core 0 with two lanes.
TwoLaneSites == {SiteOf({0, 2} \X {1, 2}, {0, 2}, FALSE)}
=============================================================================
