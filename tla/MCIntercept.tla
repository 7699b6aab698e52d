----------------------------- MODULE MCIntercept -----------------------------
(***************************************************************************)
(* Bounded instances of Intercept.  Large and larger regions are reported, *)
(* small ones, arenas and regions at an address of the caller's are not.   *)
(***************************************************************************)
EXTENDS Intercept, TLC

CONSTANTS app1, app2, other

Req(addr, flags, len) == [addr |-> addr, flags |-> flags, len |-> len]

\* the two threads of the application are interchangeable
mcThreads == Permutations({app1, app2})

\* what may lie where no entry does: read as a small region, or a larger one
mcSmall    == {Req(0, 34, 1)}
mcResidues == {Req(0, 0, 0), Req(0, 34, 3)}

mcMixed == {Req(0, 34, 2), Req(0, 34, 3), Req(0, ARENA, 2)}
mcAll   == mcMixed \cup {Req(0, 34, 1), Req(1, 34, 2)}
=============================================================================
