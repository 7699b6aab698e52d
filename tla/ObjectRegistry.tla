--------------------------- MODULE ObjectRegistry ----------------------------
(***************************************************************************)
(* What the recorder promises its readers: a log of objects that only      *)
(* grows.  An object is recorded once, its place and its range never       *)
(* change, and it goes from live to released once.  An object index that   *)
(* the actuator, the monitor or an order in the pipe holds therefore names *)
(* the same object for ever.                                               *)
(***************************************************************************)
EXTENDS Naturals, Sequences

CONSTANTS Capacity

VARIABLES log

entry == [start : Nat, size : Nat, live : BOOLEAN]

Init == log = << >>

\* e is whatever the implementation appends
Record(e) ==
  /\ Len(log) < Capacity
  /\ e \in entry
  /\ e.live
  /\ log' = Append(log, e)

Released(e) == [start |-> e.start, size |-> e.size, live |-> FALSE]

Release(k) ==
  /\ log[k].live
  /\ log' = [log EXCEPT ![k] = Released(@)]

Next ==
  \/ Len(log') > Len(log) /\ Record(log'[Len(log')])
  \/ \E k \in 1 .. Len(log) : Release(k)

Spec == Init /\ [][Next]_log
=============================================================================
