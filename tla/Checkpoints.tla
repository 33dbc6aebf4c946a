---------------------------- MODULE Checkpoints ----------------------------
(***************************************************************************)
(* A trace of checkpoints (OpenZeppelin's Checkpoints.Trace208): the       *)
(* values a quantity had, each with the time it was first recorded at, in  *)
(* the order of time.  A second value recorded at the same time replaces   *)
(* the first, so a trace tells the value at the end of every past block.   *)
(***************************************************************************)
EXTENDS Integers, Sequences

TracesOf(V) == Seq([at : Nat, value : V])

Latest(trace) == IF trace = << >> THEN 0 ELSE trace[Len(trace)].value

\* Mutant: the last value of an earlier block is overwritten.
PushOverwrites(trace, at, v) ==
    IF trace # << >>
    THEN [trace EXCEPT ![Len(trace)] = [at |-> at, value |-> v]]
    ELSE Append(trace, [at |-> at, value |-> v])

Push(trace, at, v) ==
    IF trace # << >> /\ trace[Len(trace)].at = at
    THEN [trace EXCEPT ![Len(trace)] = [at |-> at, value |-> v]]
    ELSE Append(trace, [at |-> at, value |-> v])

\* The value of the last checkpoint at or before t, as a set: empty before
\* the first checkpoint, a single value after.
ValuesAt(trace, t) ==
    {trace[i].value : i \in {k \in DOMAIN trace :
        /\ trace[k].at <= t
        /\ \A j \in DOMAIN trace : trace[j].at <= t => j <= k}}

\* upperLookupRecent.
UpperLookup(trace, t) ==
    IF ValuesAt(trace, t) = {} THEN 0 ELSE CHOOSE v \in ValuesAt(trace, t) : TRUE
=============================================================================
