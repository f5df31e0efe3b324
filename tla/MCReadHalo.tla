------------------------------- MODULE MCReadHalo -------------------------------
(* A small instance of ReadHalo for TLC. *)
EXTENDS ReadHalo

\* Two records, and a location outside the window 0..1
TwoKeys ==
  { [time |-> 1, missing |-> FALSE, key |-> "a"],
    [time |-> 1, missing |-> FALSE, key |-> "b"],
    [time |-> 2, missing |-> FALSE, key |-> "a"] }

ZeroRadius == [r \in 0 .. NRanks - 1 |-> 0]
=============================================================================
