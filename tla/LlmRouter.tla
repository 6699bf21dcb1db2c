----------------------------- MODULE LlmRouter -----------------------------
(***************************************************************************)
(* The chain of language models behind every question: a request takes the *)
(* models that are healthy when it begins and tries them in order; a model *)
(* that fails too often in a row is left out for a while.                  *)
(***************************************************************************)
EXTENDS Naturals, Sequences, SequencesExt

CONSTANTS
    Chain,          \* the fallback chain: a sequence of models
    FailN           \* LLM_CIRCUIT_FAIL_N

Local == "ollama"   \* the emergency model
Models == Range(Chain) \cup {Local}
NoModel == "none"
AutoModel == "auto"

ASSUME RouterAssumption == Len(Chain) > 0 /\ FailN \in Nat \ {0}

VARIABLES
    circuit,        \* circuit[p]: failures in a row, up to FailN, and whether p is left out
    line,           \* the call under way: models not tried yet,
    first,          \* the model it began with,
    broke           \* and whether one of them raised

routerVars == <<circuit, line, first, broke>>

Sound == [fails |-> 0, open |-> FALSE]

RouterTypeOK ==
    /\ circuit \in [Models -> [fails : 0..FailN, open : BOOLEAN]]
    /\ Range(line) \subseteq Models /\ first \in Models \cup {NoModel} /\ broke \in BOOLEAN

RouterInit ==
    /\ circuit = [p \in Models |-> Sound]
    /\ line = <<>> /\ first = NoModel /\ broke = FALSE

\* resolve_chain: what the user asked for, then the chain; the administrator may leave the
\* emergency model out of the chain.
Resolved(model, withLocal) ==
    LET chain == IF withLocal THEN Chain ELSE SelectSeq(Chain, LAMBDA p : p # Local)
    IN  IF model = AutoModel THEN chain
        ELSE <<model>> \o SelectSeq(chain, LAMBDA p : p # model)

Healthy(p) == ~circuit[p].open

\* get_llm_provider: the healthy ones, or all of them if none is.
Candidates(model, withLocal) ==
    LET all == Resolved(model, withLocal)
        healthy == SelectSeq(all, Healthy)
    IN  IF healthy = <<>> THEN all ELSE healthy

BeginCall(model, withLocal) ==
    /\ line' = Candidates(model, withLocal)
    /\ first' = Head(line') /\ broke' = FALSE

RecordFail(p) ==
    LET n == circuit[p].fails + 1 IN
    circuit' = [circuit EXCEPT ![p] = [fails |-> IF n > FailN THEN FailN ELSE n,
                                       open |-> @.open \/ n >= FailN]]

RecordOk(p) == circuit' = [circuit EXCEPT ![p] = Sound]

EndCall == line' = <<>> /\ first' = NoModel /\ broke' = FALSE

\* The next model raises, or has nothing to say, and the one after it is tried.
TryNext(raises) ==
    /\ line # <<>>
    /\ RecordFail(Head(line))
    /\ line' = Tail(line) /\ broke' = (broke \/ raises)
    /\ UNCHANGED first

\* The next model answers; for a stream, its first token is there.
TheNextAnswers(p) ==
    /\ line # <<>> /\ p = Head(line)
    /\ RecordOk(p)
    /\ EndCall

\* No model is left: the last exception is raised, or an empty answer is returned.
Exhausted == line = <<>>

-----------------------------------------------------------------------------
\* The pause is over; the failures are not forgotten.
CloseCircuit(p) ==
    /\ circuit[p].open
    /\ circuit' = [circuit EXCEPT ![p].open = FALSE]
    /\ UNCHANGED <<line, first, broke>>

\* A probe, or another caller, finds a model well or ill; probes leave the emergency model out.
Probe(p) ==
    /\ p # Local
    /\ RecordOk(p) \/ RecordFail(p)
    /\ UNCHANGED <<line, first, broke>>

RouterEnv == \E p \in Models : CloseCircuit(p) \/ Probe(p)
=============================================================================
