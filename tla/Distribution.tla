------------------------------ MODULE Distribution ------------------------------
(***************************************************************************)
(* What a Distribution (src/distribution/Distribution.h) promises, whoever *)
(* implements it.  All the ranks are offered the same records.  Each rank  *)
(* keeps or rejects a record as a whole; a record may be kept by several   *)
(* ranks.  computePatchLocs divides the locations that were kept into the  *)
(* patches of the ranks, so that global sums count each of them once.      *)
(***************************************************************************)
EXTENDS Integers, Sequences, FiniteSets, FiniteSetsExt

CONSTANTS
  NRanks,     \* comm_.size()
  NLocs       \* number of locations in the obs source

Rank == 0 .. NRanks - 1
Loc == 0 .. NLocs - 1
Rec == Loc
Call == [rec : Rec, loc : Loc]

\* The calls of assignRecord that a reader makes: every rank sees the same
\* ones, locations in file order, records numbered by first appearance.
CallSequences ==
  { c \in UNION {[1 .. n -> Call] : n \in 0 .. NLocs} :
      /\ \A i, j \in DOMAIN c : i < j => c[i].loc < c[j].loc
      /\ \A i \in DOMAIN c :
           c[i].rec = 0 \/ \E j \in 1 .. i - 1 : c[j].rec \in {c[i].rec, c[i].rec - 1} }

VARIABLES
  calls,      \* the assignRecord calls, the same on every rank
  pos,        \* calls made so far on each rank
  indx,       \* locations kept on each rank
  recnums,    \* their record numbers
  closed,     \* ranks that have returned from computePatchLocs
  patch       \* the patch locations of each rank

vars == <<calls, pos, indx, recnums, closed, patch>>

Init ==
  /\ calls \in CallSequences
  /\ pos = [r \in Rank |-> 0]
  /\ indx = [r \in Rank |-> <<>>]
  /\ recnums = [r \in Rank |-> <<>>]
  /\ closed = {}
  /\ patch = [r \in Rank |-> {}]

\* assignRecord followed by isMyRecord: only the first location of a record
\* leaves the distribution a choice
AssignRecord(r) ==
  /\ pos[r] < Len(calls)
  /\ LET c == calls[pos[r] + 1]
         known == \E i \in 1 .. pos[r] : calls[i].rec = c.rec
     IN \E isMyRecord \in BOOLEAN :
          /\ known => (isMyRecord <=> c.rec \in Range(recnums[r]))
          /\ indx' = IF isMyRecord THEN [indx EXCEPT ![r] = Append(@, c.loc)] ELSE indx
          /\ recnums' = IF isMyRecord THEN [recnums EXCEPT ![r] = Append(@, c.rec)]
                        ELSE recnums
  /\ pos' = [pos EXCEPT ![r] = @ + 1]
  /\ UNCHANGED <<calls, closed, patch>>

Held(r) == Range(indx[r])

RecordOf(l) == (CHOOSE c \in Range(calls) : c.loc = l).rec

\* p may become the patch of rank r: made of whole records, disjoint from the
\* patches so far, and leaving no location behind that only closed ranks hold
AdmissiblePatch(r, p) ==
  /\ \A l, m \in Held(r) : l \in p /\ RecordOf(m) = RecordOf(l) => m \in p
  /\ \A s \in closed : p \cap patch[s] = {}
  /\ \A l \in Held(r) \ p : \/ \E s \in closed : l \in patch[s]
                            \/ \E s \in Rank \ (closed \cup {r}) : l \in Held(s)

\* Rank r returns from computePatchLocs
ComputePatchLocs(r) ==
  /\ r \notin closed
  /\ pos[r] = Len(calls)
  /\ \E p \in SUBSET Held(r) : /\ AdmissiblePatch(r, p)
                               /\ patch' = [patch EXCEPT ![r] = p]
  /\ closed' = closed \cup {r}
  /\ UNCHANGED <<calls, pos, indx, recnums>>

Next == \E r \in Rank : AssignRecord(r) \/ ComputePatchLocs(r)

Spec == Init /\ [][Next]_vars
=============================================================================
