----------------------------- MODULE MCScheduler -----------------------------
(***************************************************************************)
(* Bounded instances of Scheduler: a region that is cut into two objects,  *)
(* so that a whole life of the table is one or two mmaps, and pipes of one *)
(* or two orders, so that every writer meets a full pipe.                  *)
(***************************************************************************)
EXTENDS Scheduler

mcRanges == {[start |-> 0, size |-> 5]}
mcOne    == {[start |-> 0, size |-> 3]}
mcNone   == {}
mcPartials == {[start |-> 0, size |-> 3]}   \* its first object, alone
mcReadings == {[llcm |-> 0, tlbm |-> 0, stores |-> 0],
               [llcm |-> 1, tlbm |-> 1, stores |-> 0]}
mcHalves == {[dram |-> 1, pmem |-> 1]}   \* with SHARE = 2
=============================================================================
