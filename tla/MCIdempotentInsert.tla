------------------------ MODULE MCIdempotentInsert --------------------------
(* Instances of IdempotentInsert for TLC.                                  *)
EXTENDS IdempotentInsert

CONSTANTS c1, c2, c3, c4, k

\* Three calls share the key k, the fourth has none.
MCKeyOf == [c \in Calls |-> IF c = c4 THEN NoKey ELSE k]
=============================================================================
