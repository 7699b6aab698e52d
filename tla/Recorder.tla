------------------------------ MODULE Recorder -------------------------------
(***************************************************************************)
(* recorder.c, called by the intercept thread: every mmap it is given      *)
(* becomes one or more objects of g_tier_manager, each announced to the    *)
(* application with an INITIAL_DATAPLACEMENT order; every munmap releases  *)
(* the objects it finds with the same start and size.  Which system calls  *)
(* reach it, and in which order, is the business of Intercept; here they   *)
(* come as the application makes them.                                     *)
(*                                                                         *)
(* _insert_object is cut at the calls it makes into libc (getpagesize,     *)
(* popen, write): the other threads read g_tier_manager between any two of *)
(* these steps.  The stores of one step are ordinary stores in program     *)
(* order, and no reader can tell their intermediate states apart.          *)
(***************************************************************************)
EXTENDS TierManager, FiniteSets

CONSTANTS
  Ranges,         \* what the application may mmap: [start, size]
  PartialUnmaps   \* parts of a region it may munmap, besides whole regions

region == [start : Nat, size : Nat \ {0}]
piece  == [start : Nat, size : Nat \ {0}, sliced : {0, 1}]

ASSUME RecorderAssumption ==
  /\ Ranges \subseteq region
  /\ PartialUnmaps \subseteq region

VARIABLES
  index,    \* static int index of _insert_object
  rpc,      \* where the intercept thread is
  todo,     \* pieces the current call has still to insert or deallocate
  mapped    \* regions that are mapped, going by the calls so far

recorderVars == <<index, rpc, todo, mapped>>

Where == {"idle", "find", "publish", "count", "order", "dealloc",
          "overrun", "exited"}

RecorderTypeOK ==
  /\ TierTypeOK
  /\ index \in 0 .. MAX_OBJECTS
  /\ rpc \in Where
  /\ todo \in Seq(piece)
  /\ mapped \in SUBSET region

-----------------------------------------------------------------------------
(* The regions of the application *)

Bytes(r) == r.start .. r.start + r.size - 1

Overlap(r, s) ==
  /\ r.start < s.start + s.size
  /\ s.start < r.start + r.size

Within(r, s) ==
  /\ s.start <= r.start
  /\ r.start + r.size <= s.start + s.size

\* what munmap(r) leaves of region m
Cut(m, r) ==
  {s \in {[start |-> m.start, size |-> r.start - m.start],
          [start |-> r.start + r.size,
           size |-> m.start + m.size - (r.start + r.size)]} : s.size > 0}

-----------------------------------------------------------------------------
(***************************************************************************)
(* The slicing of insert_object, repeated in deallocate_object.  A size    *)
(* that is an exact multiple of CHUNK_SIZE gets one chunk more than it has. *)
(***************************************************************************)
Slices(start, size) ==
  LET total_chunks == size \div CHUNK_SIZE
      remnant_size == size - total_chunks * CHUNK_SIZE
  IN  IF size > CHUNK_SIZE
      THEN [i \in 1 .. total_chunks + 1 |->
              [start  |-> start + (i - 1) * CHUNK_SIZE,
               size   |-> IF i > total_chunks /\ remnant_size > 0
                          THEN remnant_size ELSE CHUNK_SIZE,
               sliced |-> 1]]
      ELSE <<[start |-> start, size |-> size, sliced |-> 0]>>

\* mutant: the remnant is forgotten
insert_object_NoRemnant(r) ==
  IF r.size > CHUNK_SIZE
  THEN SubSeq(Slices(r.start, r.size), 1, r.size \div CHUNK_SIZE)
  ELSE Slices(r.start, r.size)

\* mutant: the extra chunk of an exact multiple is only taken out here
deallocate_object_NoExtra(r) ==
  IF r.size > CHUNK_SIZE /\ r.size % CHUNK_SIZE = 0
  THEN SubSeq(Slices(r.start, r.size), 1, r.size \div CHUNK_SIZE)
  ELSE Slices(r.start, r.size)

insert_object(r)     == Slices(r.start, r.size)
deallocate_object(r) == Slices(r.start, r.size)

RecorderInit ==
  /\ initialize_recorder
  /\ index = 0
  /\ rpc = "idle"
  /\ todo = << >>
  /\ mapped = {}

(* An mmap: insert_object is called. *)
Mmap(r) ==
  /\ rpc = "idle"
  /\ \A m \in mapped : ~Overlap(r, m)
  /\ mapped' = mapped \cup {r}
  /\ rpc' = "find"
  /\ todo' = insert_object(r)
  /\ UNCHANGED <<index, tierVars>>

(* A munmap, of a whole region or of part of one: deallocate_object. *)
Munmap(m, r) ==
  /\ rpc = "idle"
  /\ mapped' = (mapped \ {m}) \cup Cut(m, r)
  /\ rpc' = "dealloc"
  /\ todo' = deallocate_object(r)
  /\ UNCHANGED <<index, tierVars>>

\* object o with the range of piece p, and with its slice mark
Placed(o, p) == [start_addr |-> p.start, end_addr |-> p.start + p.size,
                 size |-> p.size, sliced |-> o.sliced]
Marked(o, p) == [start_addr |-> o.start_addr, end_addr |-> o.end_addr,
                 size |-> o.size, sliced |-> p.sliced]

\* mutant: the commented-out `index = index % MAX_OBJECTS` put back
FindSlot_Wrap ==
  /\ rpc = "find"
  /\ \E d \in 0 .. MAX_OBJECTS - 1 :
       LET j == (index + d) % MAX_OBJECTS
       IN  /\ \A k \in 0 .. d - 1 : obj_alloc[(index + k) % MAX_OBJECTS] = 1
           /\ obj_alloc[j] = 0
           /\ index' = j
           /\ obj_vector' = [obj_vector EXCEPT
                               ![j] = Placed(obj_vector[j], Head(todo))]
  /\ rpc' = "publish"
  /\ UNCHANGED <<todo, mapped, obj_alloc, birth_date, last_decision, total_obj,
                 pipe, now>>

(***************************************************************************)
(* The search loop, and start_addr, end_addr and size of the slot it ends  *)
(* on.  The bound is tested only after an increment inside the loop: a     *)
(* call that starts with index = MAX_OBJECTS reads obj_alloc[MAX_OBJECTS], *)
(* which is pids_to_manager[0] and always 0, and goes on to write slot     *)
(* MAX_OBJECTS ("overrun").  What that write destroys is not modelled.     *)
(***************************************************************************)
FindSlot ==
  /\ rpc = "find"
  /\ \E j \in index .. MAX_OBJECTS :
       /\ \A k \in index .. j - 1 : obj_alloc[k] = 1
       /\ j < MAX_OBJECTS => obj_alloc[j] = 0
       /\ index' = j
       /\ IF j < MAX_OBJECTS
          THEN /\ obj_vector' = [obj_vector EXCEPT
                                    ![j] = Placed(obj_vector[j], Head(todo))]
               /\ rpc' = "publish"
          ELSE /\ rpc' = IF j = index THEN "overrun" ELSE "exited"
               /\ UNCHANGED obj_vector
  /\ UNCHANGED <<todo, mapped, obj_alloc, birth_date, last_decision, total_obj,
                 pipe, now>>

\* mutant: total_obj counts the object before birth_date is written
Publish_CountsEarly ==
  /\ rpc = "publish"
  /\ obj_vector' = [obj_vector EXCEPT
                      ![index] = Marked(obj_vector[index], Head(todo))]
  /\ obj_alloc' = [obj_alloc EXCEPT ![index] = 1]
  /\ total_obj' = total_obj + 1
  /\ rpc' = "count"
  /\ UNCHANGED <<index, todo, mapped, birth_date, last_decision, pipe, now>>

(* sliced, and obj_alloc: the object is visible to the monitor from here. *)
Publish ==
  /\ rpc = "publish"
  /\ obj_vector' = [obj_vector EXCEPT
                      ![index] = Marked(obj_vector[index], Head(todo))]
  /\ obj_alloc' = [obj_alloc EXCEPT ![index] = 1]
  /\ rpc' = "count"
  /\ UNCHANGED <<index, todo, mapped, birth_date, last_decision, total_obj,
                 pipe, now>>

(* birth_date and total_obj: the loops over total_obj see it from here. *)
Count ==
  /\ rpc = "count"
  /\ birth_date' = [birth_date EXCEPT ![index] = now]
  /\ total_obj' = total_obj + 1
  /\ rpc' = "order"
  /\ UNCHANGED <<index, todo, mapped, obj_vector, obj_alloc, last_decision,
                 pipe, now>>

NextPiece(more) ==
  /\ todo' = Tail(todo)
  /\ rpc' = IF Tail(todo) = << >> THEN "idle" ELSE more

\* mutant: the order names the slot by total_obj, which Count has advanced
Order_NamesTotal ==
  /\ rpc = "order"
  /\ Len(pipe) < PIPE_CAP
  /\ pipe' = Append(pipe, [start_addr |-> obj_vector[index].start_addr,
                           size |-> obj_vector[index].size,
                           node |-> NODE_0_DRAM, obj_index |-> total_obj,
                           type |-> INITIAL_DATAPLACEMENT,
                           flag |-> MPOL_MF_STRICT])
  /\ index' = index + 1
  /\ NextPiece("find")
  /\ UNCHANGED <<mapped, obj_vector, obj_alloc, birth_date, last_decision,
                 total_obj, now>>

\* mutant: the node is the recorded decision, which there is not yet
Order_Undecided ==
  /\ rpc = "order"
  /\ bind_order(index, last_decision[index], INITIAL_DATAPLACEMENT,
                MPOL_MF_STRICT)
  /\ index' = index + 1
  /\ NextPiece("find")
  /\ UNCHANGED <<mapped, obj_vector, obj_alloc, birth_date, last_decision,
                 total_obj, now>>

(* The order to place the object in DRAM; it waits while the pipe is full. *)
Order ==
  /\ rpc = "order"
  /\ bind_order(index, NODE_0_DRAM, INITIAL_DATAPLACEMENT, MPOL_MF_STRICT)
  /\ index' = index + 1
  /\ NextPiece("find")
  /\ UNCHANGED <<mapped, obj_vector, obj_alloc, birth_date, last_decision,
                 total_obj, now>>

Matches(i, p) ==
  /\ obj_vector[i].start_addr = p.start
  /\ obj_vector[i].size = p.size
  /\ obj_alloc[i] = 1

(* _deallocate_object: the first match below total_obj, if there is one. *)
Deallocate ==
  /\ rpc = "dealloc"
  /\ LET found == {i \in 0 .. total_obj - 1 : Matches(i, Head(todo))}
     IN  \/ /\ found = {}
            /\ UNCHANGED obj_alloc
         \/ \E i \in found :
              /\ \A k \in found : i <= k
              /\ obj_alloc' = [obj_alloc EXCEPT ![i] = 0]
  /\ NextPiece("dealloc")
  /\ UNCHANGED <<index, mapped, obj_vector, birth_date, last_decision,
                 total_obj, pipe, now>>

(* The intercept thread, driven by the calls of the application *)
RecorderStep ==
  \/ \E r \in Ranges : Mmap(r)
  \/ \E m \in mapped, r \in mapped \cup PartialUnmaps :
       Within(r, m) /\ Munmap(m, r)
  \/ FindSlot
  \/ Publish
  \/ Count
  \/ Order
  \/ Deallocate

(* The application takes an order from the pipe. *)
PipeRead ==
  /\ pipe # << >>
  /\ pipe' = Tail(pipe)
  /\ UNCHANGED <<recorderVars, obj_vector, obj_alloc, birth_date,
                 last_decision, total_obj, now>>

(* Nothing is left to model once the table is overrun. *)
Stopped ==
  /\ rpc \in {"overrun", "exited"}
  /\ UNCHANGED <<recorderVars, tierVars>>

RecorderNext ==
  \/ RecorderStep
  \/ PipeRead
  \/ Tick /\ UNCHANGED recorderVars
  \/ Stopped

RecorderSpec == RecorderInit /\ [][RecorderNext]_<<recorderVars, tierVars>>

-----------------------------------------------------------------------------
(***************************************************************************)
(* The loops `for(i = 0; i < total_obj; i++)` of the actuator and of       *)
(* update_metrics, which take no lock, only meet objects whose range and   *)
(* birth_date are written, and they miss a live object only while the      *)
(* recorder is between obj_alloc = 1 and total_obj++ for that object.      *)
(***************************************************************************)
ScanSeesCompleteObjects ==
  \A i \in Slots :
    /\ i < total_obj =>
         /\ obj_vector[i].start_addr # NO_ADDR
         /\ obj_vector[i].end_addr = obj_vector[i].start_addr + obj_vector[i].size
         /\ birth_date[i] > 0
    /\ obj_alloc[i] = 1 => (i < total_obj \/ (i = index /\ rpc = "count"))

(***************************************************************************)
(* An order in the pipe names, by obj_index, an object that still has the  *)
(* range the order carries: however long the application takes to read it, *)
(* _insert_object has not given the slot to another object.                *)
(***************************************************************************)
OrderNamesItsObject ==
  \A k \in 1 .. Len(pipe) :
    LET i == pipe[k].obj_index
    IN  /\ obj_vector[i].start_addr = pipe[k].start_addr
        /\ obj_vector[i].size = pipe[k].size

LiveAt(start, size) ==
  {i \in Slots : /\ obj_alloc[i] = 1
                 /\ obj_vector[i].start_addr = start
                 /\ obj_vector[i].size = size}

Owners(start, size) ==
  {m \in mapped :
     \E k \in 1 .. Len(insert_object(m)) :
       /\ insert_object(m)[k].start = start
       /\ insert_object(m)[k].size = size}

(***************************************************************************)
(* Between two calls the live objects are exactly the pieces of the       *)
(* regions still mapped: deallocate_object undoes what insert_object did,  *)
(* piece by piece, also where the extra chunk of one region has the range  *)
(* of another region.                                                      *)
(***************************************************************************)
LedgerBalanced ==
  rpc = "idle" =>
    LET recorded == {<<obj_vector[i].start_addr, obj_vector[i].size>> :
                        i \in {j \in Slots : obj_alloc[j] = 1}}
        due == UNION {{<<insert_object(m)[k].start, insert_object(m)[k].size>> :
                          k \in 1 .. Len(insert_object(m))} :
                        m \in mapped}
    IN  \A rs \in recorded \cup due :
          Cardinality(LiveAt(rs[1], rs[2])) = Cardinality(Owners(rs[1], rs[2]))

LiveBytes ==
  UNION {obj_vector[i].start_addr .. obj_vector[i].end_addr - 1 :
           i \in {j \in Slots : obj_alloc[j] = 1}}

(***************************************************************************)
(* Between two calls every byte of a mapped region belongs to a live       *)
(* object: no part of it escapes the tiering.                              *)
(***************************************************************************)
MappedBytesRecorded ==
  rpc = "idle" => \A m \in mapped : Bytes(m) \subseteq LiveBytes

(* _insert_object never goes on to write slot MAX_OBJECTS. *)
NoOverrun == rpc # "overrun"

-----------------------------------------------------------------------------
(* The recorder implements the append-only registry. *)

Published == index + (IF rpc \in {"count", "order"} THEN 1 ELSE 0)

registryLog ==
  [k \in 1 .. Published |->
     [start |-> obj_vector[k - 1].start_addr, size |-> obj_vector[k - 1].size,
      live |-> obj_alloc[k - 1] = 1]]

Registry == INSTANCE ObjectRegistry WITH Capacity <- MAX_OBJECTS,
                                         log <- registryLog

(***************************************************************************)
(* Every step of the recorder appends one object, releases one object or   *)
(* leaves the registry as it is.                                           *)
(***************************************************************************)
ImplementsRegistry == Registry!Spec
=============================================================================
