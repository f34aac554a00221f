----------------------------- MODULE MCAmdsOpen -----------------------------
(* One line with all channels, one without.                                *)
EXTENDS AmdsOpen
MCEnabled == [l \in Lines |-> IF l = 0 THEN Channels ELSE {}]
=============================================================================
