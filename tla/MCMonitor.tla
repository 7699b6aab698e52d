------------------------------ MODULE MCMonitor ------------------------------
(***************************************************************************)
(* Bounded instances of MonitorSystem.  One region is mapped, unmapped and *)
(* mapped again, which gives two objects with the same range, one of them  *)
(* dead.                                                                   *)
(***************************************************************************)
EXTENDS MonitorSystem

R(start, size) == [start |-> start, size |-> size]
Src(op, lvl, dtlb) == [op |-> op, lvl |-> lvl, dtlb |-> dtlb]

mcOne   == {R(1, 1)}
mcNone  == {}

mcSources == {Src("LOAD", {"HIT", "LOC_RAM"}, {"MISS"}),
              Src("LOAD", {"HIT", "L1"}, {"HIT"}),
              Src("LOAD", {"HIT"}, {}),
              Src("LOAD", {"MISS", "L3"}, {"HIT"}),
              Src("STORE", {"HIT", "L1"}, {"HIT"}),
              Src("PFETCH", {"NA"}, {})}
mcRam     == {Src("LOAD", {"HIT", "LOC_RAM"}, {"MISS"}),
              Src("STORE", {"HIT", "L1"}, {"HIT"})}
=============================================================================
