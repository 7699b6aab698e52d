----------------------------- MODULE Dictionary ------------------------------
(***************************************************************************)
(* What a hash map promises when its items are told apart by their hash    *)
(* alone, as the one of the monitor does: under each hash it holds one     *)
(* item, the last that was set, until that is deleted or all are.  Only    *)
(* an operation that needs memory may fail, and then it changes nothing.   *)
(***************************************************************************)
EXTENDS Naturals

CONSTANTS Items, Hash(_), NULL

VARIABLES
  held,       \* hash -> item
  returned,   \* what the last operation returned
  oom         \* whether the last set failed

Init == held = << >> /\ returned = NULL /\ oom = FALSE

Under(item) == IF Hash(item) \in DOMAIN held THEN held[Hash(item)] ELSE NULL

Set(item) ==
  /\ held' = [h \in DOMAIN held \cup {Hash(item)} |->
                IF h = Hash(item) THEN item ELSE held[h]]
  /\ returned' = Under(item)
  /\ oom' = FALSE

SetFails == oom' = TRUE /\ returned' = NULL /\ UNCHANGED held

Get(item) == returned' = Under(item) /\ UNCHANGED <<held, oom>>

Delete(item) ==
  /\ held' = [h \in DOMAIN held \ {Hash(item)} |-> held[h]]
  /\ returned' = Under(item)
  /\ oom' = FALSE

Clear == held' = << >> /\ returned' = NULL /\ oom' \in {oom, FALSE}

Next ==
  \/ \E item \in Items : Set(item) \/ Get(item) \/ Delete(item)
  \/ SetFails
  \/ Clear

Spec == Init /\ [][Next]_<<held, returned, oom>>
=============================================================================
