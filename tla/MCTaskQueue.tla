---------------------------- MODULE MCTaskQueue -----------------------------
(* Instances of TaskQueue for TLC.                                         *)
EXTENDS TaskQueue

CONSTANTS t1, t2, w1, w2

OneQueue == {"default"}
MCQueueOf == [t \in Tasks |-> "default"]
MCServes == [w \in Workers |-> "default"]

\* t1 goes first.
RisingPriority == [t \in Tasks |-> IF t = t1 THEN 1 ELSE 0]
=============================================================================
