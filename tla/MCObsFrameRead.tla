----------------------------- MODULE MCObsFrameRead -----------------------------
(* Small instances of ObsFrameRead for TLC. *)
EXTENDS ObsFrameRead

\* Before, at both ends of and after the window 0..1; missing; two keys
Locations ==
  { [time |-> 1, missing |-> FALSE, key |-> "a"],
    [time |-> 1, missing |-> FALSE, key |-> "b"],
    [time |-> 0, missing |-> FALSE, key |-> "a"],
    [time |-> 2, missing |-> FALSE, key |-> "b"],
    [time |-> 1, missing |-> TRUE, key |-> "b"] }
=============================================================================
