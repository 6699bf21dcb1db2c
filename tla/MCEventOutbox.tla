--------------------------- MODULE MCEventOutbox ----------------------------
(* Instances of EventOutbox for TLC.                                       *)
EXTENDS EventOutbox, TLC

CONSTANTS a, b, d1, d2, d3, o1

MCRank == [s \in Subs |-> IF s = a THEN 1 ELSE 2]
AllSubs == [d \in Dispatchers |-> Subs]

\* a gives up at its second failure, b at its first.
MCSubMax == [s \in Subs |-> IF s = a THEN 2 ELSE 1]
=============================================================================
