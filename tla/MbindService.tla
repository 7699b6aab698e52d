---------------------------- MODULE MbindService -----------------------------
(***************************************************************************)
(* What the recorder and the actuator count on when they write an order:   *)
(* bind orders form one queue, whoever sends them; each is tried on the    *)
(* pages of its object exactly once, in the order of sending, and none     *)
(* waits for ever, whether the ones before it succeed or fail.             *)
(***************************************************************************)
EXTENDS Naturals, Sequences

CONSTANTS Objects, Nodes

VARIABLES
  queue,      \* orders not tried yet
  attempted   \* object -> node of the last order tried

vars == <<queue, attempted>>

Submit == queue' = Append(queue, queue'[Len(queue')]) /\ UNCHANGED attempted

Serve ==
  /\ queue # << >>
  /\ queue' = Tail(queue)
  /\ attempted' = [attempted EXCEPT ![Head(queue).obj_index] = Head(queue).node]

Init == queue = << >> /\ attempted \in [Objects -> Nodes]

Next ==
  \/ Len(queue') > Len(queue) /\ Submit
  \/ Serve

Safety == Init /\ [][Next]_vars

Spec == Safety /\ WF_vars(Serve)
=============================================================================
