---------------------------- MODULE MCSensorLink ----------------------------
(***************************************************************************)
(* Instance of SensorLink for TLC.                                         *)
(***************************************************************************)
EXTENDS SensorLink

\* The light of the samples, at the two thresholds.
MCLightRaw == [n \in Seqs |-> IF n = 0 THEN 1 ELSE 2]

\* One line of each kind, and a face that only the model's side knows.
MCModelLines ==
    {Line("ls", "none"), Line("other", "none"), Line("long", "none"), LineOf("h"), LineOf("v")}
=============================================================================
