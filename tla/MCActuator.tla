----------------------------- MODULE MCActuator ------------------------------
(***************************************************************************)
(* Bounded instance of ActuatorHistory: one object is there, a second one  *)
(* comes and goes, and both grow older.                                    *)
(***************************************************************************)
EXTENDS ActuatorHistory

mcOne == {<<1, 1>>}

M(llcm, tlbm, stores) == [llcm |-> llcm, tlbm |-> tlbm, stores |-> stores]

mcReadings == {M(1, 0, 0), M(2, 0, 0), M(4, 4, 0)}

mcPlacements == {[dram |-> 2, pmem |-> 0], [dram |-> 0, pmem |-> 2]}
=============================================================================
