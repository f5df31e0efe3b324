------------------------------- MODULE Calls -------------------------------
(***************************************************************************)
(* A call of one of the program's conversions: what it was given and what  *)
(* it gave back.  The modules that model sequential code (OdbImport,       *)
(* OdbExport, Layouts, ...) state their properties over these two          *)
(* variables.  A conversion that throws gives back Thrown.                 *)
(***************************************************************************)
EXTENDS Integers, Sequences, FiniteSets, SequencesExt, TLC

VARIABLES
    call,       \* the operation and its arguments
    out         \* its outcome, Pending until the operation has run

Pending == [state |-> "pending"]
Thrown == [state |-> "thrown"]
Done(v) == [state |-> "done", val |-> v]
\* The code reads or writes past the end of an array: anything may follow.
Undefined == [state |-> "undefined"]

\* The operation op runs once, on the arguments it was called with.
Runs(op, outcome) ==
    /\ call.op = op
    /\ out = Pending
    /\ out' = outcome
    /\ UNCHANGED call

Returned(op) == call.op = op /\ out.state = "done"

\* The outcome of two conversions one after the other.
AndThen(o, Next(_)) == IF o.state = "done" THEN Next(o.val) ELSE o

Positions(s, Test(_)) == SelectSeq([i \in DOMAIN s |-> i], Test)
=============================================================================
