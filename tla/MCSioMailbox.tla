---------------------------- MODULE MCSioMailbox ----------------------------
(* Two handles on core 0 (two lanes of role 0) and one on core 1.          *)
EXTENDS SioMailbox

CONSTANTS t0, t1, t2

MCTx == {t0, t1, t2}
MCCoreOf == [t \in MCTx |-> IF t = t2 THEN 1 ELSE 0]

\* Two frames that differ in every field, one that is too long and one that
\* is addressed to its own sender.
MCFrame ==
  { [session_id |-> 1, sender_role |-> 0, peer_role |-> 1, frame_label |-> 1,
     lane |-> 1, len |-> 1, bytes |-> 1],
    [session_id |-> 2, sender_role |-> 2, peer_role |-> 3, frame_label |-> 2,
     lane |-> 2, len |-> 2, bytes |-> 2],
    [session_id |-> 3, sender_role |-> 0, peer_role |-> 1, frame_label |-> 3,
     lane |-> 1, len |-> 3, bytes |-> 3],
    [session_id |-> 4, sender_role |-> 1, peer_role |-> 1, frame_label |-> 4,
     lane |-> 1, len |-> 1, bytes |-> 4] }
=============================================================================
