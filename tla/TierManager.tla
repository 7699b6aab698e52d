----------------------------- MODULE TierManager -----------------------------
(***************************************************************************)
(* g_tier_manager (recorder.h) and migration.pipe: the state the threads   *)
(* of start_threads share without a lock, and the orders that leave it.    *)
(*                                                                         *)
(* The fields of object_t are kept in functions of the slot, grouped by    *)
(* the thread that writes them: obj_vector and obj_alloc by the recorder   *)
(* (intercept thread), birth_date by the recorder and the actuator,        *)
(* last_decision by the actuator.  Memory is counted in units; only the    *)
(* order of addresses and sizes matters.                                   *)
(***************************************************************************)
EXTENDS Integers, Sequences

CONSTANTS
  MAX_OBJECTS,   \* slots of obj_vector and obj_alloc
  CHUNK_SIZE,    \* objects larger than this are recorded in pieces
  PIPE_CAP,      \* orders the kernel buffers in migration.pipe (64 KiB / 40 B)
  MaxTime        \* bound on the clock

ASSUME TierAssumption ==
  /\ MAX_OBJECTS \in Nat \ {0}
  /\ CHUNK_SIZE \in Nat \ {0}
  /\ PIPE_CAP \in Nat \ {0}
  /\ MaxTime \in Nat \ {0}

VARIABLES
  obj_vector,    \* slot -> start_addr, end_addr, size, sliced
  obj_alloc,     \* slot -> 1 while the object is allocated, else 0
  birth_date,    \* slot -> time recorded, or last promoted; 0 from the BSS
  last_decision, \* slot -> node of the last migration order, or -1
  total_obj,     \* objects recorded so far
  pipe,          \* migration.pipe: data_bind_t records in flight
  now            \* /proc/uptime, as get_my_timestamp reads it

tierVars == <<obj_vector, obj_alloc, birth_date, last_decision, total_obj,
              pipe, now>>

Slots == 0 .. MAX_OBJECTS - 1

NODE_0_DRAM == 0
NODE_0_PMEM == 2
UNDECIDED   == -1
NO_ADDR     == -1    \* start_addr of a slot never used: (unsigned long) -1

\* bind_type_t
INITIAL_DATAPLACEMENT == 1
PROMOTION             == 2
DEMOTION              == 3

\* mbind flags: the recorder verifies, the actuator moves
MPOL_MF_STRICT == 1
MPOL_MF_MOVE   == 2

object_t == [start_addr : Nat \cup {NO_ADDR}, end_addr : Nat, size : Nat,
             sliced : {0, 1}]

data_bind_t == [start_addr : Nat, size : Nat, node : {NODE_0_DRAM, NODE_0_PMEM},
                obj_index : Slots,
                type : {INITIAL_DATAPLACEMENT, PROMOTION, DEMOTION},
                flag : {MPOL_MF_STRICT, MPOL_MF_MOVE}]

TierTypeOK ==
  /\ obj_vector \in [Slots -> object_t]
  /\ obj_alloc \in [Slots -> {0, 1}]
  /\ birth_date \in [Slots -> Nat]
  /\ last_decision \in [Slots -> {UNDECIDED, NODE_0_DRAM, NODE_0_PMEM}]
  /\ total_obj \in 0 .. MAX_OBJECTS
  /\ pipe \in Seq(data_bind_t)
  /\ now \in Nat \ {0}

(***************************************************************************)
(* initialize_recorder.  The BSS leaves size, end_addr and birth_date 0.   *)
(***************************************************************************)
initialize_recorder ==
  /\ obj_vector = [i \in Slots |-> [start_addr |-> NO_ADDR, end_addr |-> 0,
                                    size |-> 0, sliced |-> 0]]
  /\ obj_alloc = [i \in Slots |-> 0]
  /\ birth_date = [i \in Slots |-> 0]
  /\ last_decision = [i \in Slots |-> UNDECIDED]
  /\ total_obj = 0
  /\ pipe = << >>
  /\ now = 1

\* mutant: O_NONBLOCK, so that an order that finds the pipe full is lost
bind_order_Lossy(i, node, type, flag) ==
  pipe' = IF Len(pipe) < PIPE_CAP
          THEN Append(pipe, [start_addr |-> obj_vector[i].start_addr,
                             size |-> obj_vector[i].size, node |-> node,
                             obj_index |-> i, type |-> type, flag |-> flag])
          ELSE pipe

(***************************************************************************)
(* bind_order: write() of one record.  It is below PIPE_BUF, so it is      *)
(* atomic; it blocks while the pipe is full.                               *)
(***************************************************************************)
bind_order(i, node, type, flag) ==
  /\ Len(pipe) < PIPE_CAP
  /\ pipe' = Append(pipe, [start_addr |-> obj_vector[i].start_addr,
                           size |-> obj_vector[i].size, node |-> node,
                           obj_index |-> i, type |-> type, flag |-> flag])

(* Time passes. *)
Tick ==
  /\ now < MaxTime
  /\ now' = now + 1
  /\ UNCHANGED <<obj_vector, obj_alloc, birth_date, last_decision, total_obj,
                 pipe>>

=============================================================================
