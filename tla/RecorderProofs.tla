--------------------------- MODULE RecorderProofs ----------------------------
(***************************************************************************)
(* What holds of the recorder for every table size, chunk size, pipe       *)
(* capacity and set of regions.                                            *)
(***************************************************************************)
EXTENDS Recorder, SequenceTheorems, FiniteSetTheorems, FunctionTheorems, TLAPS

vars == <<recorderVars, tierVars>>

Writing == {"publish", "count", "order"}   \* slot index is being filled

(***************************************************************************)
(* The inductive invariant.  The properties need each other: the search    *)
(* stops where it starts because no slot from index on is allocated        *)
(* (NothingBeyond); that holds because index follows total_obj             *)
(* (CountsAgree); so a slot is written once, before it is counted          *)
(* (Filled, Dated), and orders name slots that are no longer written       *)
(* (OrdersSettled).                                                        *)
(***************************************************************************)
CountsAgree == total_obj = index + (IF rpc = "order" THEN 1 ELSE 0)

NothingBeyond ==
  \A i \in Slots : obj_alloc[i] = 1 =>
    i < index \/ (i = index /\ rpc \in {"count", "order"})

Filled ==
  \A i \in Slots : i < index \/ (i = index /\ rpc \in Writing) =>
    /\ obj_vector[i].start_addr # NO_ADDR
    /\ obj_vector[i].size # 0
    /\ obj_vector[i].end_addr = obj_vector[i].start_addr + obj_vector[i].size

Dated == \A i \in Slots : i < total_obj => birth_date[i] > 0

OrdersSettled ==
  \A k \in 1 .. Len(pipe) :
    /\ pipe[k].obj_index < total_obj
    /\ obj_vector[pipe[k].obj_index].start_addr = pipe[k].start_addr
    /\ obj_vector[pipe[k].obj_index].size = pipe[k].size

Control ==
  /\ rpc \in Writing => index < MAX_OBJECTS
  /\ rpc \in Writing \cup {"find", "dealloc"} => todo # << >>
  /\ rpc # "exited"

RecorderInv ==
  /\ RecorderTypeOK
  /\ CountsAgree
  /\ NothingBeyond
  /\ Filled
  /\ Dated
  /\ OrdersSettled
  /\ Control

-----------------------------------------------------------------------------
(* A sequence may be given as a function on 1 .. n. *)
LEMMA FunctionIsSeq ==
  ASSUME NEW S, NEW n \in Nat, NEW f \in [1 .. n -> S]
  PROVE  f \in Seq(S) /\ Len(f) = n
  OBVIOUS

(* insert_object and deallocate_object work on at least one piece, and     *)
(* every piece is a range.                                                 *)
LEMMA SlicesType ==
  ASSUME NEW r \in region
  PROVE  Slices(r.start, r.size) \in Seq(piece) /\ Slices(r.start, r.size) # << >>
<1> DEFINE start == r.start
           size == r.size
           total_chunks == size \div CHUNK_SIZE
           remnant_size == size - total_chunks * CHUNK_SIZE
<1>1. start \in Nat /\ size \in Nat \ {0} /\ CHUNK_SIZE \in Nat \ {0}
  BY TierAssumption DEF region
<1>2. total_chunks \in Nat
  BY <1>1
<1>3. remnant_size \in Int
  BY <1>1, <1>2
<1>4. CASE size > CHUNK_SIZE
  <2> DEFINE f == [i \in 1 .. total_chunks + 1 |->
                     [start  |-> start + (i - 1) * CHUNK_SIZE,
                      size   |-> IF i > total_chunks /\ remnant_size > 0
                                 THEN remnant_size ELSE CHUNK_SIZE,
                      sliced |-> 1]]
  <2>1. ASSUME NEW i \in 1 .. total_chunks + 1
        PROVE  start + (i - 1) * CHUNK_SIZE \in Nat
    <3>1. i - 1 \in Nat
      BY <1>2
    <3>2. \A a, b \in Nat : a * b \in Nat
      OBVIOUS
    <3> QED BY <1>1, <3>1, <3>2
  <2>2. f \in [1 .. total_chunks + 1 -> piece]
    <3> HIDE DEF total_chunks, remnant_size
    <3> QED BY <1>1, <1>2, <1>3, <2>1 DEF piece
  <2>3. f \in Seq(piece) /\ Len(f) = total_chunks + 1
    <3>1. total_chunks + 1 \in Nat
      BY <1>2
    <3> HIDE DEF f, total_chunks
    <3> QED BY <2>2, <3>1, FunctionIsSeq
  <2>4. f # << >>
    <3> HIDE DEF f, total_chunks
    <3> QED BY <2>3, <1>2
  <2>5. Slices(r.start, r.size) = f
    BY <1>4 DEF Slices
  <2> QED BY <2>3, <2>4, <2>5
<1>5. CASE ~(size > CHUNK_SIZE)
  <2>1. Slices(r.start, r.size) = <<[start |-> start, size |-> size, sliced |-> 0]>>
    BY <1>5 DEF Slices
  <2>2. [start |-> start, size |-> size, sliced |-> 0] \in piece
    BY <1>1 DEF piece
  <2> QED BY <2>1, <2>2
<1> QED BY <1>4, <1>5

(* What a munmap leaves of a region is made of regions. *)
LEMMA CutType ==
  ASSUME NEW m \in region, NEW r \in region, Within(r, m)
  PROVE  Cut(m, r) \subseteq region
  BY DEF Cut, Within, region

-----------------------------------------------------------------------------
(* The table initialize_recorder leaves. *)
LEMMA InvInit == RecorderInit => RecorderInv
<1> SUFFICES ASSUME RecorderInit PROVE RecorderInv
  OBVIOUS
<1> USE TierAssumption DEF RecorderInit, initialize_recorder
<1>1. RecorderTypeOK
  BY DEF RecorderTypeOK, TierTypeOK, Slots, object_t, NO_ADDR, UNDECIDED,
         NODE_0_DRAM, NODE_0_PMEM, Where
<1>2. CountsAgree /\ NothingBeyond /\ Filled /\ Dated
  BY DEF CountsAgree, NothingBeyond, Filled, Dated, Slots, Writing
<1>3. OrdersSettled /\ Control
  BY DEF OrdersSettled, Control, Writing
<1> QED BY <1>1, <1>2, <1>3 DEF RecorderInv

(* A call only changes the recorder's own variables. *)
LEMMA CallKeepsInv ==
  ASSUME RecorderInv, UNCHANGED <<index, tierVars>>, rpc = "idle",
         rpc' \in {"find", "dealloc"}, mapped' \subseteq region,
         todo' \in Seq(piece), todo' # << >>
  PROVE  RecorderInv'
<1> USE DEF RecorderInv, tierVars
<1>1. RecorderTypeOK'
  BY DEF RecorderTypeOK, TierTypeOK, Where
<1>2. CountsAgree' /\ NothingBeyond' /\ Filled' /\ Dated'
  BY DEF CountsAgree, NothingBeyond, Filled, Dated, Writing
<1>3. OrdersSettled' /\ Control'
  BY DEF OrdersSettled, Control, Writing
<1> QED BY <1>1, <1>2, <1>3

(* An mmap starts an insertion. *)
LEMMA MmapKeepsInv ==
  ASSUME RecorderInv, NEW r \in Ranges, Mmap(r)
  PROVE  RecorderInv'
<1>1. r \in region
  BY RecorderAssumption
<1>2. mapped \subseteq region
  BY DEF RecorderInv, RecorderTypeOK
<1>3. insert_object(r) \in Seq(piece) /\ insert_object(r) # << >>
  BY <1>1, SlicesType DEF insert_object
<1> QED BY <1>1, <1>2, <1>3, CallKeepsInv DEF Mmap

(* A munmap starts a deallocation. *)
LEMMA MunmapKeepsInv ==
  ASSUME RecorderInv, NEW m \in mapped, NEW r \in region, Within(r, m),
         Munmap(m, r)
  PROVE  RecorderInv'
<1>1. mapped \subseteq region /\ m \in region
  BY DEF RecorderInv, RecorderTypeOK
<1>2. mapped' \subseteq region
  BY <1>1, CutType DEF Munmap
<1>3. todo' \in Seq(piece) /\ todo' # << >>
  BY SlicesType DEF Munmap, deallocate_object
<1> QED BY <1>2, <1>3, CallKeepsInv DEF Munmap

(* An order in the pipe names a slot of the table. *)
LEMMA OrdersNameSlots ==
  ASSUME RecorderInv, NEW k \in 1 .. Len(pipe)
  PROVE  pipe[k] \in data_bind_t /\ pipe[k].obj_index \in Slots
<1>1. pipe[k] \in data_bind_t
  BY DEF RecorderInv, RecorderTypeOK, TierTypeOK
<1> QED BY <1>1 DEF data_bind_t

(* The search ends on the slot it starts on, or overruns the table. *)
LEMMA SearchEndsWhereItStarts ==
  ASSUME RecorderInv, FindSlot
  PROVE  /\ index' = index
         /\ \/ index < MAX_OBJECTS /\ rpc' = "publish"
            \/ index = MAX_OBJECTS /\ rpc' = "overrun" /\ obj_vector' = obj_vector
<1>1. index \in 0 .. MAX_OBJECTS /\ MAX_OBJECTS \in Nat
  BY TierAssumption DEF RecorderInv, RecorderTypeOK
<1>2. \A i \in Slots : i >= index => obj_alloc[i] # 1
  BY <1>1 DEF RecorderInv, NothingBeyond, FindSlot, Slots
<1>3. PICK j \in index .. MAX_OBJECTS :
        /\ \A k \in index .. j - 1 : obj_alloc[k] = 1
        /\ index' = j
        /\ j < MAX_OBJECTS => rpc' = "publish"
        /\ ~(j < MAX_OBJECTS) =>
             /\ rpc' = IF j = index THEN "overrun" ELSE "exited"
             /\ obj_vector' = obj_vector
  BY DEF FindSlot
<1>4. j = index
  <2> SUFFICES ASSUME j > index PROVE FALSE
    BY <1>1, <1>3
  <2>1. index \in index .. j - 1 /\ index \in Slots
    BY <1>1, <1>3 DEF Slots
  <2> QED BY <2>1, <1>1, <1>2, <1>3
<1> QED BY <1>1, <1>3, <1>4

(* The slot found is beyond every counted slot and every order. *)
LEMMA FindSlotKeepsInv ==
  ASSUME RecorderInv, FindSlot
  PROVE  RecorderInv'
<1>1. /\ rpc = "find"
      /\ UNCHANGED <<todo, mapped, obj_alloc, birth_date, last_decision,
                     total_obj, pipe, now>>
      /\ index' = index
  BY SearchEndsWhereItStarts DEF FindSlot
<1>2. index \in 0 .. MAX_OBJECTS /\ MAX_OBJECTS \in Nat
  BY TierAssumption DEF RecorderInv, RecorderTypeOK
<1>3. CASE index = MAX_OBJECTS
  <2>1. rpc' = "overrun" /\ obj_vector' = obj_vector
    BY <1>2, <1>3, SearchEndsWhereItStarts
  <2> USE <1>1, <1>2, <2>1 DEF RecorderInv
  <2>2. RecorderTypeOK'
    BY DEF RecorderTypeOK, TierTypeOK, Where
  <2>3. CountsAgree' /\ NothingBeyond' /\ Filled' /\ Dated'
    BY DEF CountsAgree, NothingBeyond, Filled, Dated, Writing
  <2>4. OrdersSettled' /\ Control'
    BY DEF OrdersSettled, Control, Writing
  <2> QED BY <2>2, <2>3, <2>4
<1>4. CASE index < MAX_OBJECTS
  <2> DEFINE p == Head(todo)
  <2>1. rpc' = "publish"
    BY <1>2, <1>4, SearchEndsWhereItStarts
  <2>2. obj_vector' = [obj_vector EXCEPT ![index] = Placed(obj_vector[index], p)]
    BY <1>1, <1>4 DEF FindSlot
  <2>3. p \in piece
    BY <1>1 DEF RecorderInv, RecorderTypeOK, Control
  <2>4. index \in Slots /\ obj_vector \in [Slots -> object_t]
    BY <1>2, <1>4 DEF Slots, RecorderInv, RecorderTypeOK, TierTypeOK
  <2>5. /\ obj_vector' \in [Slots -> object_t]
        /\ obj_vector'[index].start_addr = p.start
        /\ obj_vector'[index].end_addr = p.start + p.size
        /\ obj_vector'[index].size = p.size
        /\ p.start \in Nat /\ p.size \in Nat \ {0}
        /\ \A i \in Slots : i # index => obj_vector'[i] = obj_vector[i]
    <3> HIDE DEF p
    <3> QED BY <2>2, <2>3, <2>4 DEF Placed, object_t, piece
  <2>6. RecorderTypeOK'
    BY <1>1, <1>2, <2>1, <2>5 DEF RecorderInv, RecorderTypeOK, TierTypeOK, Where
  <2>7. CountsAgree' /\ NothingBeyond' /\ Dated'
    BY <1>1, <2>1 DEF RecorderInv, CountsAgree, NothingBeyond, Dated
  <2>8. Filled'
    <3> HIDE DEF p
    <3> QED BY <1>1, <1>2, <2>1, <2>5
            DEF RecorderInv, Filled, Writing, NO_ADDR, Slots
  <2>9. OrdersSettled'
    <3> SUFFICES ASSUME NEW k \in 1 .. Len(pipe)
                 PROVE  /\ pipe[k].obj_index < total_obj
                        /\ obj_vector'[pipe[k].obj_index].start_addr = pipe[k].start_addr
                        /\ obj_vector'[pipe[k].obj_index].size = pipe[k].size
      BY <1>1 DEF OrdersSettled
    <3>2. /\ pipe[k].obj_index \in Slots /\ pipe[k].obj_index < index
          /\ total_obj = index
      BY <1>1, <1>2, OrdersNameSlots DEF RecorderInv, OrdersSettled, CountsAgree
    <3>3. obj_vector'[pipe[k].obj_index] = obj_vector[pipe[k].obj_index]
      BY <3>2, <2>5, <1>2 DEF Slots
    <3> QED BY <3>2, <3>3 DEF RecorderInv, OrdersSettled
  <2>10. Control'
    BY <1>1, <1>4, <2>1 DEF RecorderInv, Control, Writing
  <2> QED BY <2>6, <2>7, <2>8, <2>9, <2>10 DEF RecorderInv
<1> QED BY <1>2, <1>3, <1>4

(* The slot the recorder fills is one no order names yet. *)
LEMMA PublishKeepsInv ==
  ASSUME RecorderInv, Publish
  PROVE  RecorderInv'
<1> DEFINE p == Head(todo)
<1>1. /\ rpc = "publish" /\ rpc' = "count"
      /\ UNCHANGED <<index, todo, mapped, birth_date, last_decision, total_obj,
                     pipe, now>>
      /\ obj_vector' = [obj_vector EXCEPT ![index] = Marked(obj_vector[index], p)]
      /\ obj_alloc' = [obj_alloc EXCEPT ![index] = 1]
  BY DEF Publish
<1>2. index \in Slots /\ obj_vector \in [Slots -> object_t] /\ MAX_OBJECTS \in Nat
  BY <1>1, TierAssumption
     DEF RecorderInv, RecorderTypeOK, TierTypeOK, Control, Writing, Slots
<1>3. p \in piece
  BY <1>1 DEF RecorderInv, RecorderTypeOK, Control, Writing
<1>4. /\ obj_vector' \in [Slots -> object_t]
      /\ \A i \in Slots : /\ obj_vector'[i].start_addr = obj_vector[i].start_addr
                          /\ obj_vector'[i].end_addr = obj_vector[i].end_addr
                          /\ obj_vector'[i].size = obj_vector[i].size
  <2> HIDE DEF p
  <2>1. Marked(obj_vector[index], p) \in object_t
    BY <1>2, <1>3 DEF Marked, object_t, piece
  <2> QED BY <1>1, <1>2, <2>1 DEF Marked
<1> HIDE DEF p
<1>5. RecorderTypeOK'
  BY <1>1, <1>2, <1>4 DEF RecorderInv, RecorderTypeOK, TierTypeOK, Where
<1>6. CountsAgree' /\ Dated' /\ Control'
  BY <1>1 DEF RecorderInv, CountsAgree, Dated, Control, Writing
<1>7. NothingBeyond'
  BY <1>1, <1>2 DEF RecorderInv, RecorderTypeOK, TierTypeOK, NothingBeyond
<1>8. Filled'
  BY <1>1, <1>4 DEF RecorderInv, Filled, Writing
<1>9. OrdersSettled'
  <2>1. \A k \in 1 .. Len(pipe) : pipe[k].obj_index \in Slots
    BY OrdersNameSlots
  <2> QED BY <2>1, <1>1, <1>4 DEF RecorderInv, OrdersSettled
<1> QED BY <1>5, <1>6, <1>7, <1>8, <1>9 DEF RecorderInv

(* birth_date is written in the step that counts the object. *)
LEMMA CountKeepsInv ==
  ASSUME RecorderInv, Count
  PROVE  RecorderInv'
<1>1. /\ rpc = "count" /\ rpc' = "order"
      /\ UNCHANGED <<index, todo, mapped, obj_vector, obj_alloc, last_decision,
                     pipe, now>>
      /\ birth_date' = [birth_date EXCEPT ![index] = now]
      /\ total_obj' = total_obj + 1
  BY DEF Count
<1>2. /\ index \in Slots /\ MAX_OBJECTS \in Nat /\ total_obj = index
      /\ birth_date \in [Slots -> Nat] /\ now \in Nat \ {0}
  BY <1>1, TierAssumption
     DEF RecorderInv, RecorderTypeOK, TierTypeOK, CountsAgree, Control, Writing, Slots
<1>3. RecorderTypeOK'
  BY <1>1, <1>2 DEF RecorderInv, RecorderTypeOK, TierTypeOK, Where, Slots
<1>4. CountsAgree' /\ NothingBeyond' /\ Filled' /\ Control'
  BY <1>1, <1>2 DEF RecorderInv, CountsAgree, NothingBeyond, Filled, Control, Writing
<1>5. Dated'
  BY <1>1, <1>2 DEF RecorderInv, Dated, Slots
<1>6. OrdersSettled'
  <2>1. \A k \in 1 .. Len(pipe) : pipe[k].obj_index \in Slots
    BY OrdersNameSlots
  <2> QED BY <1>1, <1>2, <2>1 DEF RecorderInv, OrdersSettled, Slots
<1> QED BY <1>3, <1>4, <1>5, <1>6 DEF RecorderInv

(* The order is sent before index moves on, and names the slot just filled. *)
LEMMA OrderKeepsInv ==
  ASSUME RecorderInv, Order
  PROVE  RecorderInv'
<1> DEFINE d == [start_addr |-> obj_vector[index].start_addr,
                 size |-> obj_vector[index].size, node |-> NODE_0_DRAM,
                 obj_index |-> index, type |-> INITIAL_DATAPLACEMENT,
                 flag |-> MPOL_MF_STRICT]
<1>1. /\ rpc = "order" /\ index' = index + 1
      /\ rpc' = IF Tail(todo) = << >> THEN "idle" ELSE "find"
      /\ todo' = Tail(todo) /\ pipe' = Append(pipe, d)
      /\ UNCHANGED <<mapped, obj_vector, obj_alloc, birth_date, last_decision,
                     total_obj, now>>
  BY DEF Order, NextPiece, bind_order
<1>2. /\ index \in Slots /\ MAX_OBJECTS \in Nat /\ total_obj = index + 1
      /\ obj_vector \in [Slots -> object_t] /\ pipe \in Seq(data_bind_t)
      /\ todo \in Seq(piece) /\ todo # << >>
  BY <1>1, TierAssumption
     DEF RecorderInv, RecorderTypeOK, TierTypeOK, CountsAgree, Control, Writing, Slots
<1>3. obj_vector[index].start_addr # NO_ADDR
  BY <1>1, <1>2 DEF RecorderInv, Filled, Writing
<1>4. d \in data_bind_t
  BY <1>2, <1>3 DEF data_bind_t, object_t, NODE_0_DRAM, NODE_0_PMEM,
     INITIAL_DATAPLACEMENT, PROMOTION, DEMOTION, MPOL_MF_STRICT, MPOL_MF_MOVE
<1>5. pipe' \in Seq(data_bind_t) /\ Tail(todo) \in Seq(piece)
  <2> HIDE DEF d
  <2> QED BY <1>1, <1>2, <1>4
<1>6. RecorderTypeOK'
  <2> HIDE DEF d
  <2> QED BY <1>1, <1>2, <1>5 DEF RecorderInv, RecorderTypeOK, TierTypeOK, Where, Slots
<1>7. CountsAgree' /\ Dated' /\ Control'
  <2> HIDE DEF d
  <2> QED BY <1>1, <1>2 DEF RecorderInv, CountsAgree, Dated, Control, Writing, Slots
<1>8. NothingBeyond' /\ Filled'
  <2> HIDE DEF d
  <2> QED BY <1>1, <1>2 DEF RecorderInv, NothingBeyond, Filled, Writing, Slots
<1>9. OrdersSettled'
  <2> SUFFICES ASSUME NEW k \in 1 .. Len(pipe')
               PROVE  /\ pipe'[k].obj_index < total_obj
                      /\ obj_vector[pipe'[k].obj_index].start_addr = pipe'[k].start_addr
                      /\ obj_vector[pipe'[k].obj_index].size = pipe'[k].size
    BY <1>1 DEF OrdersSettled
  <2>1. CASE k = Len(pipe) + 1
    <3>1. pipe'[k] = d
      <4> HIDE DEF d
      <4> QED BY <2>1, <1>1, <1>2
    <3> QED BY <3>1, <1>2 DEF Slots
  <2>2. CASE k # Len(pipe) + 1
    <3> HIDE DEF d
    <3>1. k \in 1 .. Len(pipe) /\ pipe'[k] = pipe[k]
      BY <2>2, <1>1, <1>2
    <3>2. pipe[k].obj_index < total_obj /\ pipe[k].obj_index \in Slots
      BY <3>1, OrdersNameSlots DEF RecorderInv, OrdersSettled
    <3> QED BY <3>1, <3>2, <1>2 DEF RecorderInv, OrdersSettled, Slots
  <2> QED BY <2>1, <2>2
<1> QED BY <1>6, <1>7, <1>8, <1>9 DEF RecorderInv

(* A release clears obj_alloc of one counted slot and nothing else. *)
LEMMA DeallocateKeepsInv ==
  ASSUME RecorderInv, Deallocate
  PROVE  RecorderInv'
<1>1. /\ rpc = "dealloc"
      /\ rpc' = IF Tail(todo) = << >> THEN "idle" ELSE "dealloc"
      /\ todo' = Tail(todo)
      /\ UNCHANGED <<index, mapped, obj_vector, birth_date, last_decision,
                     total_obj, pipe, now>>
      /\ \/ obj_alloc' = obj_alloc
         \/ \E i \in 0 .. total_obj - 1 : obj_alloc' = [obj_alloc EXCEPT ![i] = 0]
  BY DEF Deallocate, NextPiece
<1>2. /\ todo \in Seq(piece) /\ todo # << >> /\ MAX_OBJECTS \in Nat
      /\ total_obj \in 0 .. MAX_OBJECTS /\ obj_alloc \in [Slots -> {0, 1}]
  BY <1>1, TierAssumption
     DEF RecorderInv, RecorderTypeOK, TierTypeOK, Control, Writing
<1>3. Tail(todo) \in Seq(piece)
  BY <1>2
<1>4. /\ obj_alloc' \in [Slots -> {0, 1}]
      /\ \A i \in Slots : obj_alloc'[i] = 1 => obj_alloc[i] = 1
  BY <1>1, <1>2 DEF Slots
<1>5. RecorderTypeOK'
  BY <1>1, <1>3, <1>4 DEF RecorderInv, RecorderTypeOK, TierTypeOK, Where
<1>6. CountsAgree' /\ Dated' /\ Control'
  BY <1>1 DEF RecorderInv, CountsAgree, Dated, Control, Writing
<1>7. NothingBeyond' /\ Filled'
  BY <1>1, <1>4 DEF RecorderInv, NothingBeyond, Filled, Writing
<1>8. OrdersSettled'
  BY <1>1 DEF RecorderInv, OrdersSettled
<1> QED BY <1>5, <1>6, <1>7, <1>8 DEF RecorderInv

(* Reading the pipe drops its first order. *)
LEMMA PipeReadKeepsInv ==
  ASSUME RecorderInv, PipeRead
  PROVE  RecorderInv'
<1>1. /\ pipe # << >> /\ pipe' = Tail(pipe)
      /\ UNCHANGED <<index, rpc, todo, mapped, obj_vector, obj_alloc,
                     birth_date, last_decision, total_obj, now>>
  BY DEF PipeRead, recorderVars
<1>2. pipe \in Seq(data_bind_t)
  BY DEF RecorderInv, RecorderTypeOK, TierTypeOK
<1>3. /\ pipe' \in Seq(data_bind_t)
      /\ \A k \in 1 .. Len(pipe') : k + 1 \in 1 .. Len(pipe) /\ pipe'[k] = pipe[k + 1]
  BY <1>1, <1>2
<1>4. RecorderTypeOK'
  BY <1>1, <1>3 DEF RecorderInv, RecorderTypeOK, TierTypeOK
<1>5. CountsAgree' /\ NothingBeyond' /\ Filled' /\ Dated' /\ Control'
  BY <1>1 DEF RecorderInv, CountsAgree, NothingBeyond, Filled, Dated, Control
<1>6. OrdersSettled'
  BY <1>1, <1>3 DEF RecorderInv, OrdersSettled
<1> QED BY <1>4, <1>5, <1>6 DEF RecorderInv

(* The clock and a stuttering step touch nothing the invariant is about. *)
LEMMA IdleKeepsInv ==
  ASSUME RecorderInv, now' \in Nat \ {0},
         UNCHANGED <<recorderVars, obj_vector, obj_alloc, birth_date,
                     last_decision, total_obj, pipe>>
  PROVE  RecorderInv'
<1> USE DEF RecorderInv, recorderVars
<1>1. RecorderTypeOK'
  BY DEF RecorderTypeOK, TierTypeOK
<1>2. CountsAgree' /\ NothingBeyond' /\ Filled' /\ Dated' /\ Control'
  BY DEF CountsAgree, NothingBeyond, Filled, Dated, Control
<1>3. OrdersSettled'
  BY DEF OrdersSettled
<1> QED BY <1>1, <1>2, <1>3

(* Every step of the intercept thread keeps the invariant. *)
LEMMA StepKeepsInv ==
  ASSUME RecorderInv, RecorderStep
  PROVE  RecorderInv'
<1>1. mapped \subseteq region
  BY DEF RecorderInv, RecorderTypeOK
<1>2. CASE \E r \in Ranges : Mmap(r)
  BY <1>2, MmapKeepsInv
<1>3. CASE \E m \in mapped, r \in mapped \cup PartialUnmaps :
              Within(r, m) /\ Munmap(m, r)
  BY <1>1, <1>3, RecorderAssumption, MunmapKeepsInv
<1>4. CASE FindSlot
  BY <1>4, FindSlotKeepsInv
<1>5. CASE Publish
  BY <1>5, PublishKeepsInv
<1>6. CASE Count
  BY <1>6, CountKeepsInv
<1>7. CASE Order
  BY <1>7, OrderKeepsInv
<1>8. CASE Deallocate
  BY <1>8, DeallocateKeepsInv
<1> QED BY <1>2, <1>3, <1>4, <1>5, <1>6, <1>7, <1>8 DEF RecorderStep

(* So does every step of the world around it. *)
LEMMA InvNext == RecorderInv /\ [RecorderNext]_vars => RecorderInv'
<1> SUFFICES ASSUME RecorderInv, [RecorderNext]_vars PROVE RecorderInv'
  OBVIOUS
<1>1. now \in Nat \ {0}
  BY DEF RecorderInv, RecorderTypeOK, TierTypeOK
<1>2. CASE RecorderStep
  BY <1>2, StepKeepsInv
<1>3. CASE PipeRead
  BY <1>3, PipeReadKeepsInv
<1>4. CASE Tick /\ UNCHANGED recorderVars
  BY <1>1, <1>4, IdleKeepsInv DEF Tick
<1>5. CASE Stopped
  BY <1>1, <1>5, IdleKeepsInv DEF Stopped, tierVars
<1>6. CASE UNCHANGED vars
  BY <1>1, <1>6, IdleKeepsInv DEF vars, tierVars
<1> QED BY <1>2, <1>3, <1>4, <1>5, <1>6 DEF RecorderNext

(* RecorderInv holds throughout: see its comment for the argument. *)
THEOREM RecorderInvariant == RecorderSpec => []RecorderInv
<1>1. RecorderSpec => RecorderInit /\ [][RecorderNext]_vars
  BY DEF RecorderSpec, vars
<1> QED BY <1>1, InvInit, InvNext, PTL

(***************************************************************************)
(* The shared table keeps its types: in particular total_obj and index     *)
(* never pass MAX_OBJECTS, although the guard against it never fires.      *)
(***************************************************************************)
THEOREM RecorderTypeCorrect == RecorderSpec => []RecorderTypeOK
<1>1. RecorderInv => RecorderTypeOK
  BY DEF RecorderInv
<1> QED BY <1>1, RecorderInvariant, PTL

(* The three safety properties follow from the invariant. *)
LEMMA InvScanSafe == RecorderInv => ScanSeesCompleteObjects
<1> SUFFICES ASSUME RecorderInv PROVE ScanSeesCompleteObjects
  OBVIOUS
<1>1. index \in 0 .. MAX_OBJECTS /\ MAX_OBJECTS \in Nat /\ CountsAgree
  BY TierAssumption DEF RecorderInv, RecorderTypeOK
<1>2. \A i \in Slots : i < total_obj =>
        i < index \/ (i = index /\ rpc \in Writing)
  BY <1>1 DEF CountsAgree, Writing, Slots
<1>3. \A i \in Slots : obj_alloc[i] = 1 =>
        i < total_obj \/ (i = index /\ rpc = "count")
  BY <1>1 DEF CountsAgree, RecorderInv, NothingBeyond, Slots
<1> QED BY <1>2, <1>3 DEF RecorderInv, Filled, Dated, ScanSeesCompleteObjects

(* Orders name slots that are no longer written. *)
LEMMA InvOrdersNamed == RecorderInv => OrderNamesItsObject
  BY DEF RecorderInv, OrdersSettled, OrderNamesItsObject

(***************************************************************************)
(* The lock-free loops over total_obj (actuator.c, monitor.c) only meet    *)
(* completely written objects.                                             *)
(***************************************************************************)
THEOREM ScanSafe == RecorderSpec => []ScanSeesCompleteObjects
  BY InvScanSafe, RecorderInvariant, PTL

(***************************************************************************)
(* However many orders are in flight, each names by obj_index the object   *)
(* whose range it carries.                                                 *)
(***************************************************************************)
THEOREM OrdersNameTheirObjects == RecorderSpec => []OrderNamesItsObject
  BY InvOrdersNamed, RecorderInvariant, PTL

-----------------------------------------------------------------------------
(* Refinement of ObjectRegistry *)

(* What the registry shows of the table is a sequence of its entries. *)
LogOK ==
  /\ Published \in 0 .. MAX_OBJECTS
  /\ registryLog \in Seq(Registry!entry)
  /\ Len(registryLog) = Published
  /\ DOMAIN registryLog = 1 .. Published

(* The invariant makes the log well typed. *)
LEMMA LogType == RecorderInv => LogOK
<1> SUFFICES ASSUME RecorderInv PROVE LogOK
  OBVIOUS
<1>1. Published \in 0 .. MAX_OBJECTS
  BY TierAssumption DEF Published, RecorderInv, RecorderTypeOK, Control, Writing
<1>2. ASSUME NEW k \in 1 .. Published
      PROVE  [start |-> obj_vector[k - 1].start_addr,
              size |-> obj_vector[k - 1].size,
              live |-> obj_alloc[k - 1] = 1] \in Registry!entry
  <2>1. k - 1 \in Slots /\ (k - 1 < index \/ (k - 1 = index /\ rpc \in Writing))
    BY <1>1, TierAssumption DEF Slots, Published, RecorderInv, RecorderTypeOK, Writing
  <2>2. obj_vector[k - 1] \in object_t /\ obj_vector[k - 1].start_addr # NO_ADDR
    BY <2>1 DEF RecorderInv, RecorderTypeOK, TierTypeOK, Filled
  <2> QED BY <2>2 DEF object_t, Registry!entry
<1>3. registryLog \in [1 .. Published -> Registry!entry]
  BY <1>2 DEF registryLog
<1>4. Published \in Nat
  BY <1>1, TierAssumption
<1>5. registryLog \in Seq(Registry!entry) /\ Len(registryLog) = Published
  <2> HIDE DEF registryLog, Published
  <2> QED BY <1>3, <1>4, FunctionIsSeq
<1> QED BY <1>1, <1>5 DEF registryLog, LogOK

(* The registry starts empty. *)
LEMMA LogInit == RecorderInit => Registry!Init
<1> SUFFICES ASSUME RecorderInit PROVE registryLog = << >>
  BY DEF Registry!Init
<1>1. Published = 0
  BY DEF RecorderInit, Published
<1> QED BY <1>1 DEF registryLog

(***************************************************************************)
(* A step that leaves the published slots and their number alone leaves    *)
(* the registry alone.                                                     *)
(***************************************************************************)
LEMMA LogSame ==
  ASSUME Published' = Published,
         \A k \in 1 .. Published :
           /\ obj_vector'[k - 1].start_addr = obj_vector[k - 1].start_addr
           /\ obj_vector'[k - 1].size = obj_vector[k - 1].size
           /\ obj_alloc'[k - 1] = obj_alloc[k - 1]
  PROVE  registryLog' = registryLog
<1> HIDE DEF Published
<1> QED BY DEF registryLog

(* Publish appends the object it publishes. *)
LEMMA PublishRecords ==
  ASSUME RecorderInv, RecorderInv', Publish
  PROVE  Registry!Next
<1> DEFINE e == registryLog'[Len(registryLog')]
<1>1. /\ Published = index /\ Published' = index + 1
      /\ index \in Nat /\ index < MAX_OBJECTS /\ index \in Slots
  BY TierAssumption DEF Publish, Published, RecorderInv, RecorderTypeOK, Control,
       Writing, Slots
<1>2. /\ Len(registryLog) = index /\ registryLog \in Seq(Registry!entry)
      /\ DOMAIN registryLog = 1 .. index
  BY <1>1, LogType DEF LogOK
<1>3. /\ registryLog' \in Seq(Registry!entry) /\ Len(registryLog') = index + 1
      /\ DOMAIN registryLog' = 1 .. index + 1
  <2>1. LogOK'
    BY LogType, PTL
  <2> QED BY <1>1, <2>1 DEF LogOK
<1>4. \A k \in 1 .. index : registryLog'[k] = registryLog[k]
  <2> SUFFICES ASSUME NEW k \in 1 .. index PROVE registryLog'[k] = registryLog[k]
    OBVIOUS
  <2>1. k - 1 # index /\ k - 1 \in Slots
    BY <1>1, TierAssumption DEF Slots
  <2>2. obj_vector'[k - 1] = obj_vector[k - 1] /\ obj_alloc'[k - 1] = obj_alloc[k - 1]
    BY <2>1 DEF Publish, RecorderInv, RecorderTypeOK, TierTypeOK
  <2>3. k \in 1 .. Published /\ k \in 1 .. Published'
    BY <1>1
  <2> HIDE DEF Published
  <2> QED BY <2>2, <2>3 DEF registryLog
<1>5. e \in Registry!entry
  BY <1>1, <1>3
<1>6. e.live = TRUE
  <2>1. obj_alloc'[index] = 1
    BY <1>1 DEF Publish, RecorderInv, RecorderTypeOK, TierTypeOK
  <2>2. index + 1 \in 1 .. Published' /\ (index + 1) - 1 = index
    BY <1>1
  <2>3. e = registryLog'[index + 1]
    BY <1>3
  <2>4. registryLog'[index + 1].live = (obj_alloc'[(index + 1) - 1] = 1)
    <3> HIDE DEF Published
    <3> QED BY <2>2 DEF registryLog
  <2> QED BY <2>1, <2>2, <2>3, <2>4
<1>7. registryLog' = Append(registryLog, e)
  <2> HIDE DEF registryLog
  <2> QED BY <1>1, <1>2, <1>3, <1>4
<1> QED BY <1>1, <1>2, <1>3, <1>5, <1>6, <1>7 DEF Registry!Next, Registry!Record

(* Deallocate releases one object, or finds none. *)
LEMMA DeallocateReleases ==
  ASSUME RecorderInv, RecorderInv', Deallocate
  PROVE  Registry!Next \/ registryLog' = registryLog
<1> DEFINE found == {i \in 0 .. total_obj - 1 : Matches(i, Head(todo))}
<1>1. /\ Published = index /\ Published' = index /\ total_obj = index
      /\ index \in Nat /\ index <= MAX_OBJECTS
  BY TierAssumption DEF Deallocate, NextPiece, Published, RecorderInv,
       RecorderTypeOK, CountsAgree
<1>2. /\ Len(registryLog) = index /\ registryLog \in Seq(Registry!entry)
      /\ DOMAIN registryLog = 1 .. index
  BY <1>1, LogType DEF LogOK
<1>3. obj_vector' = obj_vector /\ obj_alloc \in [Slots -> {0, 1}]
  BY DEF Deallocate, RecorderInv, RecorderTypeOK, TierTypeOK
<1>4. CASE UNCHANGED obj_alloc
  <2> HIDE DEF Published
  <2> QED BY <1>1, <1>3, <1>4, LogSame
<1>5. CASE \E i \in found : obj_alloc' = [obj_alloc EXCEPT ![i] = 0]
  <2>1. PICK i \in found : obj_alloc' = [obj_alloc EXCEPT ![i] = 0]
    BY <1>5
  <2>2. i \in 0 .. index - 1 /\ i \in Slots /\ i + 1 \in 1 .. index /\ obj_alloc[i] = 1
    BY <1>1, <2>1, TierAssumption DEF Slots, Matches
  <2>3. registryLog[i + 1].live = TRUE
    <3>1. registryLog[i + 1].live = (obj_alloc[(i + 1) - 1] = 1)
      <4> HIDE DEF Published
      <4> QED BY <1>1, <2>2 DEF registryLog
    <3>2. (i + 1) - 1 = i
      BY <2>2
    <3> QED BY <2>2, <3>1, <3>2
  <2>4. ASSUME NEW k \in 1 .. index
        PROVE  registryLog'[k] = IF k = i + 1
                                 THEN Registry!Released(registryLog[k])
                                 ELSE registryLog[k]
    <3>1. k - 1 \in Slots /\ (k = i + 1 <=> k - 1 = i)
      BY <1>1, <2>2, TierAssumption DEF Slots
    <3>2. obj_alloc'[k - 1] = IF k = i + 1 THEN 0 ELSE obj_alloc[k - 1]
      BY <1>3, <2>1, <3>1
    <3>3. /\ registryLog[k] = [start |-> obj_vector[k - 1].start_addr,
                               size |-> obj_vector[k - 1].size,
                               live |-> obj_alloc[k - 1] = 1]
          /\ registryLog'[k] = [start |-> obj_vector[k - 1].start_addr,
                                size |-> obj_vector[k - 1].size,
                                live |-> obj_alloc'[k - 1] = 1]
      <4> HIDE DEF Published
      <4> QED BY <1>1, <1>3 DEF registryLog
    <3>4. CASE k = i + 1
      <4>1. obj_alloc'[k - 1] = 0
        BY <3>2, <3>4
      <4>2. (obj_alloc'[k - 1] = 1) = FALSE
        BY <4>1
      <4>3. Registry!Released(registryLog[k]) =
              [start |-> obj_vector[k - 1].start_addr,
               size |-> obj_vector[k - 1].size, live |-> FALSE]
        BY <3>3 DEF Registry!Released
      <4> QED BY <3>3, <3>4, <4>2, <4>3
    <3>5. CASE k # i + 1
      BY <3>2, <3>3, <3>5
    <3> QED BY <3>4, <3>5
  <2>5. DOMAIN registryLog' = 1 .. index
    <3> HIDE DEF Published
    <3> QED BY <1>1 DEF registryLog
  <2>6. registryLog' = [registryLog EXCEPT ![i + 1] = Registry!Released(@)]
    <3>1. registryLog' = [k \in 1 .. index |-> registryLog'[k]]
      <4> HIDE DEF Published
      <4> QED BY <1>1 DEF registryLog
    <3> HIDE DEF registryLog
    <3> QED BY <1>2, <2>2, <2>4, <2>5, <3>1
  <2>7. i + 1 \in 1 .. Len(registryLog)
    BY <1>2, <2>2
  <2> QED BY <2>3, <2>6, <2>7 DEF Registry!Next, Registry!Release
<1> QED BY <1>4, <1>5 DEF Deallocate

(* No other step changes what the registry shows. *)
LEMMA OthersKeepLog ==
  ASSUME RecorderInv,
         \/ \E r \in Ranges : Mmap(r)
         \/ \E m \in mapped, r \in mapped \cup PartialUnmaps : Munmap(m, r)
         \/ FindSlot
         \/ Count
         \/ Order
         \/ PipeRead
         \/ Tick /\ UNCHANGED recorderVars
         \/ Stopped
         \/ UNCHANGED vars
  PROVE  registryLog' = registryLog
<1>1. index \in Nat /\ obj_vector \in [Slots -> object_t]
  BY TierAssumption DEF RecorderInv, RecorderTypeOK, TierTypeOK
<1>2. obj_alloc' = obj_alloc
  BY DEF Mmap, Munmap, FindSlot, Count, Order, PipeRead, Tick, Stopped, vars, tierVars
<1>3. CASE FindSlot
  <2>1. index' = index /\ rpc = "find" /\ rpc' \in {"publish", "overrun"}
    BY <1>3, SearchEndsWhereItStarts DEF FindSlot
  <2>2. Published = index /\ Published' = index
    BY <1>1, <2>1 DEF Published
  <2>3. \A k \in 1 .. index : obj_vector'[k - 1] = obj_vector[k - 1]
    <3>1. PICK j \in index .. MAX_OBJECTS :
            /\ index' = j
            /\ j < MAX_OBJECTS =>
                 obj_vector' = [obj_vector EXCEPT
                                  ![j] = Placed(obj_vector[j], Head(todo))]
            /\ ~(j < MAX_OBJECTS) => obj_vector' = obj_vector
      BY <1>3 DEF FindSlot
    <3>2. \A k \in 1 .. index : k - 1 # j
      BY <1>1, <2>1, <3>1
    <3> QED BY <1>1, <3>1, <3>2, TierAssumption DEF Slots
  <2> HIDE DEF Published
  <2> QED BY <1>2, <2>2, <2>3, LogSame
<1>4. CASE ~FindSlot
  <2>1. obj_vector' = obj_vector
    BY <1>4 DEF Mmap, Munmap, Count, Order, PipeRead, Tick, Stopped, vars, tierVars
  <2>2. Published' = Published
    <3>1. CASE Order
      BY <1>1, <3>1 DEF Order, NextPiece, Published
    <3>2. CASE ~Order
      BY <1>4, <3>2 DEF Mmap, Munmap, Count, PipeRead, Tick, Stopped, vars,
                        recorderVars, Published
    <3> QED BY <3>1, <3>2
  <2> HIDE DEF Published
  <2> QED BY <1>2, <2>1, <2>2, LogSame
<1> QED BY <1>3, <1>4

(* A step of the recorder is one of the registry, or changes nothing there. *)
LEMMA RegistryStep ==
  ASSUME RecorderInv, [RecorderNext]_vars
  PROVE  [Registry!Next]_registryLog
<1> SUFFICES Registry!Next \/ registryLog' = registryLog
  OBVIOUS
<1>1. RecorderInv'
  BY InvNext
<1>2. CASE Publish
  BY <1>1, <1>2, PublishRecords
<1>3. CASE Deallocate
  BY <1>1, <1>3, DeallocateReleases
<1> QED BY <1>2, <1>3, OthersKeepLog DEF RecorderNext, RecorderStep

(***************************************************************************)
(* The recorder implements the append-only registry, for every table and   *)
(* every sequence of mmaps and munmaps: slot numbers that other threads or *)
(* orders hold keep their meaning for ever.                                *)
(***************************************************************************)
THEOREM RecorderIsRegistry == RecorderSpec => ImplementsRegistry
<1>1. RecorderSpec => RecorderInit /\ [][RecorderNext]_vars
  BY DEF RecorderSpec, vars
<1> QED BY <1>1, RegistryStep, LogInit, RecorderInvariant, PTL
        DEF ImplementsRegistry, Registry!Spec

-----------------------------------------------------------------------------
(***************************************************************************)
(* The ledger, for an application that unmaps whole regions.               *)
(*                                                                         *)
(* Every piece that is due, a pair of a region and a number, is held by a  *)
(* live object of its own with its range, and every live object holds one  *)
(* (Holder).  Which object holds which piece is not fixed: where two       *)
(* pieces have the same range, _deallocate_object may take the one of the  *)
(* other region, and the two change places.  Due are the pieces of the     *)
(* mapped regions, without those still to be inserted and with those still *)
(* to be released.                                                         *)
(***************************************************************************)
Units(S) == {u \in region \X (Nat \ {0}) :
               u[1] \in S /\ u[2] <= Len(insert_object(u[1]))}

After(r, n) == {u \in Units({r}) : u[2] > n}

Live == {i \in Slots : obj_alloc[i] = 1}

HasRange(i, u) ==
  /\ obj_vector[i].start_addr = insert_object(u[1])[u[2]].start
  /\ obj_vector[i].size = insert_object(u[1])[u[2]].size

Holder(h, D) ==
  /\ h \in [D -> Live]
  /\ \A u, v \in D : h[u] = h[v] => u = v
  /\ \A i \in Live : \E u \in D : h[u] = i
  /\ \A u \in D : HasRange(h[u], u)

Held(D) == \E h : Holder(h, D)

(* The pieces of r after the n-th are to be inserted or released. *)
AtPiece(r, n) ==
  /\ n + Len(todo) = Len(insert_object(r))
  /\ \A i \in 1 .. Len(todo) : todo[i] = insert_object(r)[n + i]

Ledger ==
  /\ rpc = "idle" => Held(Units(mapped))
  /\ rpc \in {"find", "publish"} =>
       \E r \in mapped, n \in Nat :
         AtPiece(r, n) /\ Held(Units(mapped) \ After(r, n))
  /\ rpc \in {"count", "order"} =>
       \E r \in mapped, n \in Nat :
         AtPiece(r, n) /\ Held(Units(mapped) \ After(r, n + 1))
  /\ rpc = "dealloc" =>
       \E r \in region \ mapped, n \in Nat :
         AtPiece(r, n) /\ Held(Units(mapped) \cup After(r, n))

Apart == \A m, r \in mapped : Overlap(m, r) => m = r

\* the slot being filled has the range of the piece at hand
Fits ==
  rpc = "publish" => /\ obj_vector[index].start_addr = Head(todo).start
                     /\ obj_vector[index].size = Head(todo).size

LedgerInv == RecorderInv /\ Apart /\ Fits /\ Ledger

(* Who holds what is not touched by writes to slots that are not live. *)
LEMMA HeldSame ==
  ASSUME NEW D, Held(D), obj_alloc' = obj_alloc,
         \A i \in Live : /\ obj_vector'[i].start_addr = obj_vector[i].start_addr
                         /\ obj_vector'[i].size = obj_vector[i].size
  PROVE  Held(D)'
<1>1. PICK h : Holder(h, D)
  BY DEF Held
<1>2. Live' = Live
  BY DEF Live
<1>3. Holder(h, D)'
  BY <1>1, <1>2 DEF Holder, HasRange
<1> QED BY <1>3 DEF Held

(* A new object holds a new piece. *)
LEMMA HeldMore ==
  ASSUME NEW D, NEW u, u \notin D, Held(D), NEW i \in Slots, i \notin Live,
         Live' = Live \cup {i}, HasRange(i, u)',
         \A j \in Live : /\ obj_vector'[j].start_addr = obj_vector[j].start_addr
                         /\ obj_vector'[j].size = obj_vector[j].size
  PROVE  Held(D \cup {u})'
<1>1. PICK h : Holder(h, D)
  BY DEF Held
<1> DEFINE g == [v \in D \cup {u} |-> IF v = u THEN i ELSE h[v]]
<1>2. g[u] = i /\ \A v \in D : g[v] = h[v] /\ h[v] \in Live
  BY <1>1 DEF Holder
<1>3. g \in [D \cup {u} -> Live']
  BY <1>2
<1>4. \A v, w \in D \cup {u} : g[v] = g[w] => v = w
  <2> HIDE DEF g
  <2> QED BY <1>1, <1>2 DEF Holder
<1>5. \A j \in Live' : \E v \in D \cup {u} : g[v] = j
  <2> HIDE DEF g
  <2> QED BY <1>1, <1>2 DEF Holder
<1>6. \A v \in D \cup {u} : HasRange(g[v], v)'
  <2>1. ASSUME NEW v \in D PROVE HasRange(h[v], v)'
    BY <1>1, <1>2 DEF Holder, HasRange
  <2> HIDE DEF g
  <2> QED BY <1>2, <2>1
<1>7. Holder(g, D \cup {u})'
  <2> HIDE DEF g
  <2> QED BY <1>3, <1>4, <1>5, <1>6 DEF Holder
<1> HIDE DEF g
<1> QED BY <1>7 DEF Held

(***************************************************************************)
(* An object with the range of a piece is released, for that piece: if it  *)
(* held another, that one is from now on held by the object the piece had. *)
(***************************************************************************)
LEMMA HeldLess ==
  ASSUME NEW D, NEW u \in D, Held(D), NEW i \in Live, HasRange(i, u),
         Live' = Live \ {i}, UNCHANGED obj_vector
  PROVE  Held(D \ {u})'
<1>1. PICK h : Holder(h, D)
  BY DEF Held
<1>2. PICK v \in D : h[v] = i
  BY <1>1 DEF Holder
<1> DEFINE g == [w \in D \ {u} |-> IF w = v THEN h[u] ELSE h[w]]
<1>3. \A w \in D \ {u} : g[w] = IF w = v THEN h[u] ELSE h[w]
  OBVIOUS
<1>4. DOMAIN g = D \ {u} /\ g = [w \in D \ {u} |-> g[w]]
  OBVIOUS
<1> HIDE DEF g
<1>5. ASSUME NEW w \in D \ {u} PROVE g[w] \in Live'
  BY <1>1, <1>2, <1>3 DEF Holder
<1>6. \A w, x \in D \ {u} : g[w] = g[x] => w = x
  BY <1>1, <1>2, <1>3 DEF Holder
<1>7. ASSUME NEW j \in Live' PROVE \E w \in D \ {u} : g[w] = j
  <2>1. PICK w \in D : h[w] = j
    BY <1>1 DEF Holder
  <2>2. w # v
    BY <1>2, <2>1
  <2>3. CASE w = u
    BY <1>3, <2>1, <2>2, <2>3
  <2>4. CASE w # u
    BY <1>3, <2>1, <2>2, <2>4
  <2> QED BY <2>3, <2>4
<1>8. ASSUME NEW w \in D \ {u} PROVE HasRange(g[w], w)'
  <2>1. HasRange(h[u], u) /\ HasRange(h[w], w) /\ HasRange(h[v], v)
    BY <1>1 DEF Holder
  <2> QED BY <1>2, <1>3, <2>1 DEF HasRange
<1>9. Holder(g, D \ {u})'
  BY <1>4, <1>5, <1>6, <1>7, <1>8 DEF Holder
<1> QED BY <1>9 DEF Held

(* The pieces of a region are numbered from 1. *)
LEMMA UnitsOf ==
  ASSUME NEW r \in region, NEW n \in Nat
  PROVE  /\ Len(insert_object(r)) \in Nat \ {0}
         /\ insert_object(r) \in Seq(piece)
         /\ After(r, 0) = Units({r})
         /\ n < Len(insert_object(r)) =>
              /\ <<r, n + 1>> \in After(r, n)
              /\ After(r, n) \ {<<r, n + 1>>} = After(r, n + 1)
         /\ n = Len(insert_object(r)) => After(r, n) = {}
<1>1. insert_object(r) \in Seq(piece) /\ insert_object(r) # << >>
  BY SlicesType DEF insert_object
<1> DEFINE len == Len(insert_object(r))
<1>2. len \in Nat \ {0}
  BY <1>1
<1>3. Units({r}) = {<<r, k>> : k \in 1 .. len}
  BY <1>2 DEF Units
<1> HIDE DEF len
<1>4. ASSUME NEW m \in Nat PROVE After(r, m) = {<<r, k>> : k \in m + 1 .. len}
  <2>1. \A k \in 1 .. len : k > m <=> k \in m + 1 .. len
    BY <1>2
  <2>2. \A k \in m + 1 .. len : k \in 1 .. len
    BY <1>2
  <2>3. \A u \in Units({r}) : u[2] > m => u \in {<<r, k>> : k \in m + 1 .. len}
    BY <1>3, <2>1
  <2>4. \A k \in m + 1 .. len : <<r, k>> \in Units({r}) /\ <<r, k>>[2] > m
    BY <1>3, <2>1, <2>2
  <2> QED BY <2>3, <2>4 DEF After
<1>5. After(r, 0) = Units({r})
  <2>1. 0 + 1 = 1
    OBVIOUS
  <2> QED BY <1>3, <1>4, <2>1
<1>6. n = len => After(r, n) = {}
  BY <1>4, <1>2
<1>7. ASSUME n < len
      PROVE  /\ <<r, n + 1>> \in After(r, n)
             /\ After(r, n) \ {<<r, n + 1>>} = After(r, n + 1)
  <2>1. n + 1 \in n + 1 .. len
    BY <1>2, <1>7
  <2>2. (n + 1 .. len) \ {n + 1} = (n + 1) + 1 .. len
    BY <1>2, <1>7
  <2>3. n + 1 \in Nat
    OBVIOUS
  <2> QED BY <1>4, <2>1, <2>2, <2>3
<1> QED BY <1>1, <1>2, <1>5, <1>6, <1>7 DEF len

(* Once the piece at hand is done, the next one is. *)
LEMMA NextIsAtPiece ==
  ASSUME RecorderInv, todo # << >>, todo' = Tail(todo),
         NEW r \in region, NEW n \in Nat, AtPiece(r, n)
  PROVE  /\ n < Len(insert_object(r))
         /\ Head(todo) = insert_object(r)[n + 1]
         /\ AtPiece(r, n + 1)'
         /\ Tail(todo) = << >> => n + 1 = Len(insert_object(r))
<1>1. todo \in Seq(piece) /\ Len(todo) \in Nat \ {0}
  BY DEF RecorderInv, RecorderTypeOK
<1>2. /\ Len(todo') = Len(todo) - 1
      /\ \A i \in 1 .. Len(todo) - 1 : todo'[i] = todo[i + 1]
      /\ Head(todo) = todo[1]
  BY <1>1
<1>3. Len(insert_object(r)) \in Nat
  BY UnitsOf
<1>4. n + Len(todo) = Len(insert_object(r))
  BY DEF AtPiece
<1>5. Head(todo) = insert_object(r)[n + 1]
  BY <1>1, <1>2 DEF AtPiece
<1>6. ASSUME NEW i \in 1 .. Len(todo) - 1
      PROVE  todo'[i] = insert_object(r)[(n + 1) + i]
  <2>1. i + 1 \in 1 .. Len(todo) /\ n + (i + 1) = (n + 1) + i
    BY <1>1
  <2>2. todo[i + 1] = insert_object(r)[n + (i + 1)]
    BY <2>1 DEF AtPiece
  <2> QED BY <1>2, <2>1, <2>2
<1>7. AtPiece(r, n + 1)'
  <2>1. (n + 1) + Len(todo') = Len(insert_object(r))
    BY <1>1, <1>2, <1>3, <1>4
  <2> QED BY <1>2, <1>6, <2>1 DEF AtPiece
<1>8. ASSUME Tail(todo) = << >> PROVE Len(todo) = 1
  <2>1. Len(todo') = 0
    BY <1>8
  <2> QED BY <1>1, <1>2, <2>1
<1> QED BY <1>1, <1>3, <1>4, <1>5, <1>7, <1>8

(* Of two mapped regions that share a unit, both are the same. *)
LEMMA OverlapSelf ==
  ASSUME NEW r \in region, NEW m \in region, Within(r, m)
  PROVE  Overlap(r, m) /\ Overlap(m, r)
  BY DEF region, Within, Overlap

(* An mmap: all pieces of the new region are still to be inserted. *)
LEMMA MmapKeepsLedger ==
  ASSUME LedgerInv, NEW r \in Ranges, Mmap(r)
  PROVE  Apart' /\ Fits' /\ Ledger'
<1>1. r \in region /\ mapped \subseteq region
  BY RecorderAssumption DEF LedgerInv, RecorderInv, RecorderTypeOK
<1>2. r \notin mapped
  BY <1>1, OverlapSelf DEF Mmap, Within, region
<1>3. Apart'
  BY <1>1 DEF LedgerInv, Apart, Mmap, Overlap, region
<1>4. PICK D : D = Units(mapped)
  OBVIOUS
<1>5. D = (Units(mapped) \ After(r, 0))'
  <2>1. After(r, 0) = Units({r})
    BY <1>1, UnitsOf
  <2>2. D = Units(mapped \cup {r}) \ Units({r})
    BY <1>2, <1>4 DEF Units
  <2> QED BY <2>1, <2>2 DEF Mmap
<1>6. Held(D)'
  BY <1>4, HeldSame DEF LedgerInv, Ledger, Mmap, tierVars
<1>7. AtPiece(r, 0)'
  BY <1>1, UnitsOf DEF AtPiece, Mmap
<1> QED
  BY <1>2, <1>3, <1>5, <1>6, <1>7 DEF Mmap, Ledger, Fits

(* A munmap: all pieces of the region are still to be released. *)
LEMMA MunmapKeepsLedger ==
  ASSUME LedgerInv, NEW m \in mapped, NEW r \in mapped, Within(r, m), Munmap(m, r)
  PROVE  Apart' /\ Fits' /\ Ledger'
<1>1. m \in region /\ mapped \subseteq region
  BY DEF LedgerInv, RecorderInv, RecorderTypeOK
<1>2. r = m
  BY <1>1, OverlapSelf DEF LedgerInv, Apart
<1>3. mapped' = mapped \ {m}
  BY <1>1, <1>2 DEF Munmap, Cut, region
<1>4. PICK D : D = Units(mapped)
  OBVIOUS
<1>5. D = (Units(mapped) \cup After(m, 0))'
  <2>1. After(m, 0) = Units({m})
    BY <1>1, UnitsOf
  <2>2. D = Units(mapped \ {m}) \cup Units({m})
    BY <1>4 DEF Units
  <2> QED BY <1>3, <2>1, <2>2
<1>6. Held(D)'
  BY <1>4, HeldSame DEF LedgerInv, Ledger, Munmap, tierVars
<1>7. AtPiece(m, 0)'
  BY <1>1, <1>2, UnitsOf DEF AtPiece, Munmap, deallocate_object, insert_object
<1>8. Apart' /\ Fits'
  BY <1>3 DEF LedgerInv, Apart, Fits, Munmap
<1> QED
  BY <1>1, <1>3, <1>5, <1>6, <1>7, <1>8 DEF Munmap, Ledger

(* Steps that leave the calls, the pieces and the live ranges alone *)
LEMMA SameLedger ==
  ASSUME LedgerInv, UNCHANGED <<todo, mapped, obj_alloc>>,
         \A i \in Live : /\ obj_vector'[i].start_addr = obj_vector[i].start_addr
                         /\ obj_vector'[i].size = obj_vector[i].size,
         \/ rpc' = rpc
         \/ rpc = "find" /\ rpc' \in {"publish", "overrun", "exited"}
         \/ rpc = "count" /\ rpc' = "order"
  PROVE  Apart' /\ Ledger'
<1>1. Apart'
  BY DEF LedgerInv, Apart
<1>2. \A D : Held(D) => Held(D)'
  BY HeldSame
<1>3. \A r, n : AtPiece(r, n) => AtPiece(r, n)'
  BY DEF AtPiece
<1>4. rpc' = "idle" => Held(Units(mapped))'
  BY <1>2 DEF LedgerInv, Ledger
<1>5. ASSUME rpc' \in {"find", "publish"}
      PROVE  \E r \in mapped, n \in Nat :
               AtPiece(r, n)' /\ Held(Units(mapped) \ After(r, n))'
  <2>1. PICK r \in mapped, n \in Nat : AtPiece(r, n) /\ Held(Units(mapped) \ After(r, n))
    BY <1>5 DEF LedgerInv, Ledger
  <2> QED BY <1>2, <1>3, <2>1
<1>6. ASSUME rpc' \in {"count", "order"}
      PROVE  \E r \in mapped, n \in Nat :
               AtPiece(r, n)' /\ Held(Units(mapped) \ After(r, n + 1))'
  <2>1. PICK r \in mapped, n \in Nat :
          AtPiece(r, n) /\ Held(Units(mapped) \ After(r, n + 1))
    BY <1>6 DEF LedgerInv, Ledger
  <2> QED BY <1>2, <1>3, <2>1
<1>7. ASSUME rpc' = "dealloc"
      PROVE  \E r \in region \ mapped, n \in Nat :
               AtPiece(r, n)' /\ Held(Units(mapped) \cup After(r, n))'
  <2>1. PICK r \in region \ mapped, n \in Nat :
          AtPiece(r, n) /\ Held(Units(mapped) \cup After(r, n))
    BY <1>7 DEF LedgerInv, Ledger
  <2> QED BY <1>2, <1>3, <2>1
<1> QED BY <1>1, <1>4, <1>5, <1>6, <1>7 DEF Ledger

(* The search writes the range of the piece at hand into a slot that is    *)
(* not live.                                                               *)
LEMMA FindSlotKeepsLedger ==
  ASSUME LedgerInv, FindSlot
  PROVE  Apart' /\ Fits' /\ Ledger'
<1>1. PICK j \in index .. MAX_OBJECTS :
        /\ j < MAX_OBJECTS => obj_alloc[j] = 0
        /\ index' = j
        /\ IF j < MAX_OBJECTS
           THEN /\ obj_vector' = [obj_vector EXCEPT
                                    ![j] = Placed(obj_vector[j], Head(todo))]
                /\ rpc' = "publish"
           ELSE /\ rpc' \in {"overrun", "exited"}
                /\ UNCHANGED obj_vector
  BY DEF FindSlot
<1>2. /\ rpc = "find" /\ index \in Nat
      /\ UNCHANGED <<todo, mapped, obj_alloc>>
      /\ DOMAIN obj_vector = Slots
  BY DEF FindSlot, LedgerInv, RecorderInv, RecorderTypeOK, TierTypeOK
<1>3. \A i \in Live : obj_vector'[i] = obj_vector[i]
  BY <1>1, <1>2 DEF Live
<1>4. Apart' /\ Ledger'
  BY <1>1, <1>2, <1>3, SameLedger
<1>5. rpc' = "publish" => obj_vector'[index'] = Placed(obj_vector[index'], Head(todo))
  BY <1>1, <1>2, TierAssumption DEF Slots
<1>6. Fits'
  BY <1>2, <1>5 DEF Fits, Placed
<1> QED BY <1>4, <1>6

(* The object that is published holds the piece at hand. *)
LEMMA PublishKeepsLedger ==
  ASSUME LedgerInv, Publish
  PROVE  Apart' /\ Fits' /\ Ledger'
<1>1. /\ rpc = "publish" /\ rpc' = "count" /\ UNCHANGED <<index, todo, mapped>>
      /\ obj_vector' = [obj_vector EXCEPT ![index] = Marked(obj_vector[index], Head(todo))]
      /\ obj_alloc' = [obj_alloc EXCEPT ![index] = 1]
  BY DEF Publish
<1>2. /\ obj_vector \in [Slots -> object_t] /\ obj_alloc \in [Slots -> {0, 1}]
      /\ todo \in Seq(piece) /\ todo # << >> /\ mapped \subseteq region
      /\ index \in Slots
  BY <1>1, TierAssumption
     DEF LedgerInv, RecorderInv, RecorderTypeOK, TierTypeOK, Control, Writing, Slots
<1>3. index \notin Live
  BY <1>1, <1>2, TierAssumption DEF LedgerInv, RecorderInv, NothingBeyond, Live, Slots
<1>4. PICK r \in mapped, n \in Nat : AtPiece(r, n) /\ Held(Units(mapped) \ After(r, n))
  BY <1>1 DEF LedgerInv, Ledger
<1> DEFINE u == <<r, n + 1>>
<1>5. /\ n < Len(insert_object(r)) /\ Head(todo) = insert_object(r)[n + 1]
      /\ u \in After(r, n) /\ After(r, n) \ {u} = After(r, n + 1)
  <2>1. Len(todo) \in Nat \ {0} /\ Head(todo) = todo[1]
    BY <1>2
  <2>2. n < Len(insert_object(r)) /\ Head(todo) = insert_object(r)[n + 1]
    BY <1>4, <2>1 DEF AtPiece
  <2> QED BY <1>2, <2>2, UnitsOf
<1>6. PICK D : D = Units(mapped) \ After(r, n)
  OBVIOUS
<1>7. u \in Units(mapped)
  BY <1>5 DEF After, Units
<1>8. u \notin D /\ D \cup {u} = Units(mapped) \ After(r, n + 1)
  <2> HIDE DEF u
  <2> QED BY <1>5, <1>6, <1>7
<1>9. Live' = Live \cup {index}
  BY <1>1, <1>2 DEF Live
<1>10. \A j \in Live : obj_vector'[j] = obj_vector[j]
  BY <1>1, <1>2, <1>3 DEF Live
<1>11. PICK v, i : v = u /\ i = index
  OBVIOUS
<1>12. HasRange(i, v)'
  <2>1. /\ obj_vector'[index].start_addr = obj_vector[index].start_addr
        /\ obj_vector'[index].size = obj_vector[index].size
    BY <1>1, <1>2 DEF Marked
  <2>2. /\ obj_vector[index].start_addr = Head(todo).start
        /\ obj_vector[index].size = Head(todo).size
    BY <1>1 DEF LedgerInv, Fits
  <2> QED BY <1>5, <1>11, <2>1, <2>2 DEF HasRange
<1>13. Held(D \cup {v})'
  <2> HIDE DEF u
  <2>1. /\ i \in Slots /\ i \notin Live /\ Live' = Live \cup {i}
        /\ v \notin D /\ Held(D)
    BY <1>2, <1>3, <1>4, <1>6, <1>8, <1>9, <1>11
  <2> QED BY <1>10, <1>12, <2>1, HeldMore
<1>14. AtPiece(r, n)'
  BY <1>1, <1>4 DEF AtPiece
<1>15. Held(Units(mapped) \ After(r, n + 1))'
  BY <1>1, <1>8, <1>11, <1>13
<1>16. Apart' /\ Fits'
  BY <1>1 DEF LedgerInv, Apart, Fits
<1> QED BY <1>1, <1>14, <1>15, <1>16 DEF Ledger

(* The piece at hand was inserted when its object was published. *)
LEMMA OrderKeepsLedger ==
  ASSUME LedgerInv, Order
  PROVE  Apart' /\ Fits' /\ Ledger'
<1>1. /\ rpc = "order" /\ todo' = Tail(todo)
      /\ rpc' = IF Tail(todo) = << >> THEN "idle" ELSE "find"
      /\ UNCHANGED <<mapped, obj_alloc, obj_vector>>
  BY DEF Order, NextPiece
<1>2. todo # << >> /\ mapped \subseteq region
  BY <1>1 DEF LedgerInv, RecorderInv, RecorderTypeOK, Control, Writing
<1>3. PICK r \in mapped, n \in Nat : AtPiece(r, n) /\ Held(Units(mapped) \ After(r, n + 1))
  BY <1>1 DEF LedgerInv, Ledger
<1>4. /\ AtPiece(r, n + 1)'
      /\ Tail(todo) = << >> => n + 1 = Len(insert_object(r))
  BY <1>1, <1>2, <1>3, NextIsAtPiece DEF LedgerInv
<1>5. Held(Units(mapped) \ After(r, n + 1))'
  BY <1>1, <1>3, HeldSame
<1>6. Tail(todo) = << >> => Held(Units(mapped))'
  <2> SUFFICES ASSUME Tail(todo) = << >> PROVE Held(Units(mapped))'
    OBVIOUS
  <2>1. After(r, n + 1) = {}
    BY <1>2, <1>4, UnitsOf
  <2>2. Units(mapped) \ After(r, n + 1) = Units(mapped)
    BY <2>1
  <2> QED BY <1>1, <1>5, <2>2
<1>7. Apart' /\ Fits'
  BY <1>1 DEF LedgerInv, Apart, Fits
<1>8. n + 1 \in Nat /\ r \in mapped'
  BY <1>1
<1> QED BY <1>1, <1>4, <1>5, <1>6, <1>7, <1>8 DEF Ledger

(* The piece at hand is held by an object, so _deallocate_object finds one *)
(* with its range.                                                         *)
LEMMA DeallocateKeepsLedger ==
  ASSUME LedgerInv, Deallocate
  PROVE  Apart' /\ Fits' /\ Ledger'
<1>1. /\ rpc = "dealloc" /\ todo' = Tail(todo)
      /\ rpc' = IF Tail(todo) = << >> THEN "idle" ELSE "dealloc"
      /\ UNCHANGED <<mapped, obj_vector>>
  BY DEF Deallocate, NextPiece
<1>2. /\ todo # << >> /\ mapped \subseteq region
      /\ obj_alloc \in [Slots -> {0, 1}]
      /\ total_obj = index /\ index \in Nat /\ total_obj <= MAX_OBJECTS
  BY <1>1 DEF LedgerInv, RecorderInv, RecorderTypeOK, TierTypeOK, Control, CountsAgree
<1>3. PICK r \in region \ mapped, n \in Nat :
        AtPiece(r, n) /\ Held(Units(mapped) \cup After(r, n))
  BY <1>1 DEF LedgerInv, Ledger
<1> DEFINE u == <<r, n + 1>>
<1>4. /\ n < Len(insert_object(r)) /\ Head(todo) = insert_object(r)[n + 1]
      /\ AtPiece(r, n + 1)'
      /\ Tail(todo) = << >> => n + 1 = Len(insert_object(r))
  BY <1>1, <1>2, <1>3, NextIsAtPiece DEF LedgerInv
<1>5. u \in After(r, n) /\ After(r, n) \ {u} = After(r, n + 1)
  BY <1>4, UnitsOf
<1>6. u \notin Units(mapped)
  BY <1>3 DEF Units
<1>7. PICK D : D = Units(mapped) \cup After(r, n)
  OBVIOUS
<1>8. u \in D /\ D \ {u} = Units(mapped) \cup After(r, n + 1)
  <2> HIDE DEF u
  <2> QED BY <1>5, <1>6, <1>7
<1>9. \A i \in Live : i \in 0 .. total_obj - 1
  BY <1>1, <1>2 DEF LedgerInv, RecorderInv, NothingBeyond, Live, Slots
<1>10. \A i \in 0 .. total_obj - 1 : Matches(i, Head(todo)) <=> i \in Live /\ HasRange(i, u)
  BY <1>2, <1>4, TierAssumption DEF Matches, Live, HasRange, Slots
<1>11. \E i \in Live : HasRange(i, u)
  BY <1>3, <1>7, <1>8 DEF Held, Holder
<1>12. PICK i \in Live : HasRange(i, u) /\ obj_alloc' = [obj_alloc EXCEPT ![i] = 0]
  <2> DEFINE found == {i \in 0 .. total_obj - 1 : Matches(i, Head(todo))}
  <2>1. \A i \in found : i \in Live /\ HasRange(i, u)
    BY <1>10
  <2>2. found # {}
    BY <1>9, <1>10, <1>11
  <2>3. \E i \in found : obj_alloc' = [obj_alloc EXCEPT ![i] = 0]
    BY <2>2 DEF Deallocate
  <2> HIDE DEF found, u
  <2> QED BY <2>1, <2>3
<1>13. Live' = Live \ {i}
  BY <1>2, <1>12 DEF Live
<1>14. Held(D \ {u})'
  <2> HIDE DEF u
  <2> QED BY <1>1, <1>3, <1>7, <1>8, <1>12, <1>13, HeldLess
<1>15. Held(Units(mapped) \cup After(r, n + 1))'
  BY <1>1, <1>8, <1>14
<1>16. Tail(todo) = << >> => Held(Units(mapped))'
  <2> SUFFICES ASSUME Tail(todo) = << >> PROVE Held(Units(mapped))'
    OBVIOUS
  <2>1. After(r, n + 1) = {}
    BY <1>4, UnitsOf
  <2>2. Units(mapped) \cup After(r, n + 1) = Units(mapped)
    BY <2>1
  <2> QED BY <1>1, <1>15, <2>2
<1>17. Apart' /\ Fits'
  BY <1>1 DEF LedgerInv, Apart, Fits
<1>18. n + 1 \in Nat /\ r \in region \ mapped'
  BY <1>1
<1> QED BY <1>1, <1>4, <1>15, <1>16, <1>17, <1>18 DEF Ledger

(* The initial state: nothing is mapped and nothing is live. *)
LEMMA LedgerInvInit == RecorderInit => LedgerInv
<1> SUFFICES ASSUME RecorderInit PROVE LedgerInv
  OBVIOUS
<1>1. mapped = {} /\ rpc = "idle" /\ Live = {}
  BY DEF RecorderInit, initialize_recorder, Live
<1>2. Units(mapped) = {}
  BY <1>1 DEF Units
<1>3. Holder([u \in {} |-> 0], {})
  BY <1>1 DEF Holder
<1>4. Held(Units(mapped))
  BY <1>2, <1>3 DEF Held
<1>5. Apart /\ Fits /\ Ledger
  BY <1>1, <1>4 DEF Apart, Fits, Ledger
<1> QED BY <1>5, InvInit DEF LedgerInv

(* Every step keeps the ledger, if regions are unmapped as a whole. *)
LEMMA LedgerStep ==
  ASSUME PartialUnmaps = {}, LedgerInv, RecorderStep
  PROVE  Apart' /\ Fits' /\ Ledger'
<1>1. CASE \E r \in Ranges : Mmap(r)
  BY <1>1, MmapKeepsLedger
<1>2. CASE \E m \in mapped, r \in mapped \cup PartialUnmaps : Within(r, m) /\ Munmap(m, r)
  BY <1>2, MunmapKeepsLedger
<1>3. CASE FindSlot
  BY <1>3, FindSlotKeepsLedger
<1>4. CASE Publish
  BY <1>4, PublishKeepsLedger
<1>5. CASE Count
  <2>1. /\ rpc = "count" /\ rpc' = "order"
        /\ UNCHANGED <<todo, mapped, obj_alloc, obj_vector>>
    BY <1>5 DEF Count
  <2>2. Fits'
    BY <2>1 DEF Fits
  <2> QED BY <2>1, <2>2, SameLedger
<1>6. CASE Order
  BY <1>6, OrderKeepsLedger
<1>7. CASE Deallocate
  BY <1>7, DeallocateKeepsLedger
<1> QED BY <1>1, <1>2, <1>3, <1>4, <1>5, <1>6, <1>7 DEF RecorderStep

(* The pipe and the clock are no business of the ledger. *)
LEMMA LedgerElsewhere ==
  ASSUME LedgerInv, UNCHANGED <<recorderVars, obj_alloc, obj_vector>>
  PROVE  Apart' /\ Fits' /\ Ledger'
<1>1. UNCHANGED <<index, rpc, todo, mapped, obj_alloc, obj_vector>>
  BY DEF recorderVars
<1>2. Fits'
  BY <1>1 DEF LedgerInv, Fits
<1> QED BY <1>1, <1>2, SameLedger

(* Together *)
LEMMA LedgerInvNext ==
  ASSUME PartialUnmaps = {}
  PROVE  LedgerInv /\ [RecorderNext]_vars => LedgerInv'
<1> SUFFICES ASSUME LedgerInv, [RecorderNext]_vars PROVE LedgerInv'
  OBVIOUS
<1>1. RecorderInv'
  BY InvNext DEF LedgerInv
<1>2. CASE RecorderStep
  BY <1>1, <1>2, LedgerStep DEF LedgerInv
<1>3. CASE ~RecorderStep
  <2>1. UNCHANGED <<recorderVars, obj_alloc, obj_vector>>
    BY <1>3 DEF RecorderNext, PipeRead, Tick, Stopped, tierVars, vars
  <2> QED BY <1>1, <2>1, LedgerElsewhere DEF LedgerInv
<1> QED BY <1>2, <1>3

-----------------------------------------------------------------------------
(* No two pieces of a region start at the same address. *)
LEMMA PiecesDiffer ==
  ASSUME NEW r \in region, NEW j \in 1 .. Len(insert_object(r)),
         NEW k \in 1 .. Len(insert_object(r)),
         insert_object(r)[j].start = insert_object(r)[k].start
  PROVE  j = k
<1>1. r.start \in Nat /\ r.size \in Nat \ {0} /\ CHUNK_SIZE \in Nat \ {0}
  BY TierAssumption DEF region
<1> DEFINE total == r.size \div CHUNK_SIZE
<1>2. total \in Nat
  BY <1>1
<1>3. CASE r.size > CHUNK_SIZE
  <2> HIDE DEF total
  <2>1. /\ Len(insert_object(r)) = total + 1
        /\ \A i \in 1 .. total + 1 : insert_object(r)[i].start = r.start + (i - 1) * CHUNK_SIZE
    BY <1>2, <1>3 DEF insert_object, Slices, total
  <2>2. j - 1 \in Nat /\ k - 1 \in Nat
    BY <1>2, <2>1
  <2>3. (j - 1) * CHUNK_SIZE = (k - 1) * CHUNK_SIZE
    <3>1. \A a, c \in Nat : a * c \in Nat
      OBVIOUS
    <3>2. (j - 1) * CHUNK_SIZE \in Nat /\ (k - 1) * CHUNK_SIZE \in Nat
      BY <1>1, <2>2, <3>1
    <3>3. r.start + (j - 1) * CHUNK_SIZE = r.start + (k - 1) * CHUNK_SIZE
      BY <2>1
    <3>4. \A x, y, z \in Nat : x + y = x + z => y = z
      OBVIOUS
    <3> QED BY <1>1, <3>2, <3>3, <3>4
  <2>4. \A a, b \in Nat, c \in Nat \ {0} : a * c = b * c => a = b
    OBVIOUS
  <2>5. j - 1 = k - 1
    BY <1>1, <2>2, <2>3, <2>4
  <2> QED BY <2>2, <2>5
<1>4. CASE ~(r.size > CHUNK_SIZE)
  <2>1. Len(insert_object(r)) = 1
    BY <1>4 DEF insert_object, Slices
  <2> QED BY <2>1
<1> QED BY <1>3, <1>4

(* The pieces of a region leave no gap. *)
LEMMA PiecesCover ==
  ASSUME NEW r \in region, NEW b \in Bytes(r)
  PROVE  \E k \in 1 .. Len(insert_object(r)) :
           /\ insert_object(r)[k].start <= b
           /\ b < insert_object(r)[k].start + insert_object(r)[k].size
<1>1. /\ r.start \in Nat /\ r.size \in Nat \ {0} /\ CHUNK_SIZE \in Nat \ {0}
      /\ b \in Nat /\ r.start <= b /\ b < r.start + r.size
  BY TierAssumption DEF region, Bytes
<1> DEFINE total == r.size \div CHUNK_SIZE
           q == (b - r.start) \div CHUNK_SIZE
<1>2. /\ total \in Nat /\ q \in Nat
      /\ CHUNK_SIZE * q <= b - r.start /\ b - r.start < CHUNK_SIZE * q + CHUNK_SIZE
      /\ CHUNK_SIZE * total <= r.size /\ r.size < CHUNK_SIZE * total + CHUNK_SIZE
  <2>1. \A x \in Nat, c \in Nat \ {0} :
          /\ x \div c \in Nat
          /\ c * (x \div c) <= x /\ x < c * (x \div c) + c
    OBVIOUS
  <2>2. b - r.start \in Nat
    BY <1>1
  <2> QED BY <1>1, <2>1, <2>2
<1>3. CASE r.size > CHUNK_SIZE
  <2> HIDE DEF total, q
  <2>1. /\ Len(insert_object(r)) = total + 1
        /\ \A i \in 1 .. total + 1 :
             /\ insert_object(r)[i].start = r.start + (i - 1) * CHUNK_SIZE
             /\ insert_object(r)[i].size =
                  IF i > total /\ r.size - total * CHUNK_SIZE > 0
                  THEN r.size - total * CHUNK_SIZE ELSE CHUNK_SIZE
    BY <1>2, <1>3 DEF insert_object, Slices, total
  <2>2. \A a \in Nat, c \in Nat : a * c = c * a /\ a * c \in Nat
    OBVIOUS
  <2>3. /\ total * CHUNK_SIZE = CHUNK_SIZE * total /\ q * CHUNK_SIZE = CHUNK_SIZE * q
        /\ CHUNK_SIZE * total \in Nat /\ CHUNK_SIZE * q \in Nat
    BY <1>1, <1>2, <2>2
  <2>4. q <= total
    <3>1. \A x, y \in Nat, c \in Nat \ {0} : x >= y + 1 => c * x >= c * y + c
      OBVIOUS
    <3>2. q >= total + 1 => CHUNK_SIZE * q >= CHUNK_SIZE * total + CHUNK_SIZE
      BY <1>1, <1>2, <3>1
    <3> QED BY <1>1, <1>2, <2>3, <3>2
  <2>5. q + 1 \in 1 .. total + 1 /\ (q + 1) - 1 = q
    BY <1>2, <2>4
  <2>6. insert_object(r)[q + 1].start = r.start + q * CHUNK_SIZE
    BY <2>1, <2>5
  <2>7. insert_object(r)[q + 1].size =
          IF q + 1 > total /\ r.size - total * CHUNK_SIZE > 0
          THEN r.size - total * CHUNK_SIZE ELSE CHUNK_SIZE
    BY <2>1, <2>5
  <2>8. insert_object(r)[q + 1].start <= b
    BY <1>1, <1>2, <2>3, <2>6
  <2>9. b < insert_object(r)[q + 1].start + insert_object(r)[q + 1].size
    <3>1. CASE q + 1 > total /\ r.size - total * CHUNK_SIZE > 0
      <4>1. q = total
        BY <1>2, <2>4, <3>1
      <4> QED BY <1>1, <2>3, <2>6, <2>7, <3>1, <4>1
    <3>2. CASE ~(q + 1 > total /\ r.size - total * CHUNK_SIZE > 0)
      BY <1>1, <1>2, <2>3, <2>6, <2>7, <3>2
    <3> QED BY <3>1, <3>2
  <2> QED BY <2>1, <2>5, <2>8, <2>9
<1>4. CASE ~(r.size > CHUNK_SIZE)
  <2>1. insert_object(r) = <<[start |-> r.start, size |-> r.size, sliced |-> 0]>>
    BY <1>4 DEF insert_object, Slices
  <2> QED BY <1>1, <2>1
<1> QED BY <1>3, <1>4

(* A byte of a region is in a piece, and the piece is held by an object. *)
LEMMA LedgerCovers == LedgerInv => MappedBytesRecorded
<1> SUFFICES ASSUME LedgerInv, rpc = "idle", NEW m \in mapped, NEW b \in Bytes(m)
             PROVE  b \in LiveBytes
  BY DEF MappedBytesRecorded
<1>1. m \in region
  BY DEF LedgerInv, RecorderInv, RecorderTypeOK
<1>2. PICK h : Holder(h, Units(mapped))
  BY DEF LedgerInv, Ledger, Held
<1>3. PICK k \in 1 .. Len(insert_object(m)) :
           /\ insert_object(m)[k].start <= b
           /\ b < insert_object(m)[k].start + insert_object(m)[k].size
  BY <1>1, PiecesCover
<1>4. <<m, k>> \in Units(mapped)
  BY <1>1, UnitsOf DEF Units
<1>5. PICK i \in Live : HasRange(i, <<m, k>>)
  BY <1>2, <1>4 DEF Holder
<1>6. /\ obj_vector[i].start_addr = insert_object(m)[k].start
      /\ obj_vector[i].size = insert_object(m)[k].size
  BY <1>5 DEF HasRange
<1>7. obj_vector[i].end_addr = obj_vector[i].start_addr + obj_vector[i].size
  BY DEF LedgerInv, RecorderInv, Filled, NothingBeyond, Live
<1>8. insert_object(m)[k] \in piece
  <2>1. insert_object(m) \in Seq(piece)
    BY <1>1, UnitsOf
  <2> QED BY <2>1
<1>9. b \in obj_vector[i].start_addr .. obj_vector[i].end_addr - 1
  BY <1>1, <1>3, <1>6, <1>7, <1>8 DEF piece, Bytes, region
<1> QED BY <1>9 DEF LiveBytes, Live

(* The objects with a range are as many as the regions with such a piece.  *)
LEMMA LedgerBalances == LedgerInv => LedgerBalanced
<1> SUFFICES ASSUME LedgerInv, rpc = "idle", NEW start, NEW size
             PROVE  Cardinality(LiveAt(start, size)) = Cardinality(Owners(start, size))
  BY DEF LedgerBalanced
<1>1. mapped \subseteq region
  BY DEF LedgerInv, RecorderInv, RecorderTypeOK
<1>2. PICK h : Holder(h, Units(mapped))
  BY DEF LedgerInv, Ledger, Held
<1> DEFINE Fit(m, k) == /\ insert_object(m)[k].start = start
                        /\ insert_object(m)[k].size = size
           K(m) == 1 .. Len(insert_object(m))
           f == [m \in Owners(start, size) |-> h[<<m, CHOOSE k \in K(m) : Fit(m, k)>>]]
<1>3. ASSUME NEW m \in mapped, NEW k \in K(m) PROVE <<m, k>> \in Units(mapped)
  BY <1>1, UnitsOf DEF Units
<1>4. ASSUME NEW m \in Owners(start, size)
      PROVE  \E k \in K(m) : m \in mapped /\ Fit(m, k) /\ f[m] = h[<<m, k>>]
  BY DEF Owners
<1>5. ASSUME NEW m \in mapped, NEW k \in K(m), Fit(m, k)
      PROVE  m \in Owners(start, size) /\ f[m] = h[<<m, k>>]
  <2>1. m \in Owners(start, size)
    BY <1>5 DEF Owners
  <2>2. PICK j \in K(m) : Fit(m, j) /\ f[m] = h[<<m, j>>]
    BY <1>4, <2>1
  <2>3. j = k
    BY <1>1, <1>5, <2>2, PiecesDiffer
  <2> QED BY <2>1, <2>2, <2>3
<1>6. f \in [Owners(start, size) -> LiveAt(start, size)]
  <2>1. ASSUME NEW m \in Owners(start, size) PROVE f[m] \in LiveAt(start, size)
    <3>1. PICK k \in K(m) : m \in mapped /\ Fit(m, k) /\ f[m] = h[<<m, k>>]
      BY <1>4
    <3>2. <<m, k>> \in Units(mapped)
      BY <1>3, <3>1
    <3>3. h[<<m, k>>] \in Live /\ HasRange(h[<<m, k>>], <<m, k>>)
      BY <1>2, <3>2 DEF Holder
    <3> HIDE DEF f
    <3> QED BY <3>1, <3>3 DEF Live, HasRange, LiveAt
  <2>2. f = [m \in Owners(start, size) |-> f[m]]
    OBVIOUS
  <2> HIDE DEF f
  <2> QED BY <2>1, <2>2
<1> HIDE DEF f
<1>7. \A m, r \in Owners(start, size) : f[m] = f[r] => m = r
  <2> SUFFICES ASSUME NEW m \in Owners(start, size), NEW r \in Owners(start, size), f[m] = f[r]
               PROVE  m = r
    OBVIOUS
  <2>1. PICK k \in K(m) : m \in mapped /\ f[m] = h[<<m, k>>]
    BY <1>4
  <2>2. PICK j \in K(r) : r \in mapped /\ f[r] = h[<<r, j>>]
    BY <1>4
  <2>3. <<m, k>> \in Units(mapped) /\ <<r, j>> \in Units(mapped)
    BY <1>3, <2>1, <2>2
  <2>4. <<m, k>> = <<r, j>>
    BY <1>2, <2>1, <2>2, <2>3 DEF Holder
  <2> QED BY <2>4
<1>8. \A i \in LiveAt(start, size) : \E m \in Owners(start, size) : f[m] = i
  <2> SUFFICES ASSUME NEW i \in LiveAt(start, size)
               PROVE  \E m \in Owners(start, size) : f[m] = i
    OBVIOUS
  <2>1. i \in Live
    BY DEF LiveAt, Live
  <2>2. PICK u \in Units(mapped) : h[u] = i /\ HasRange(i, u)
    BY <1>2, <2>1 DEF Holder
  <2>3. u = <<u[1], u[2]>> /\ u[1] \in mapped /\ u[2] \in K(u[1])
    BY <1>1, UnitsOf DEF Units
  <2>4. Fit(u[1], u[2])
    BY <2>2 DEF HasRange, LiveAt
  <2> QED BY <1>5, <2>2, <2>3, <2>4
<1>9. ExistsBijection(Owners(start, size), LiveAt(start, size))
  <2>1. f \in Bijection(Owners(start, size), LiveAt(start, size))
    BY <1>6, <1>7, <1>8, Fun_IsBij
  <2> QED BY <2>1, Fun_ExistsBij
<1>10. IsFiniteSet(LiveAt(start, size))
  <2>1. IsFiniteSet(Slots)
    BY TierAssumption, FS_Interval DEF Slots
  <2> QED BY <2>1, FS_Subset DEF LiveAt
<1> QED BY <1>9, <1>10, Fun_ExistsBijSymmetric, FS_Bijection

(***************************************************************************)
(* deallocate_object undoes what insert_object did, for every set of       *)
(* regions the application maps and unmaps as a whole: between two calls   *)
(* no object is left over and none is missing, also where the extra chunk  *)
(* of one region has the range of another.                                 *)
(***************************************************************************)
THEOREM InsertionsUndone ==
  ASSUME PartialUnmaps = {}
  PROVE  RecorderSpec => []LedgerBalanced
<1>1. RecorderSpec => RecorderInit /\ [][RecorderNext]_vars
  BY DEF RecorderSpec, vars
<1> QED BY <1>1, LedgerInvInit, LedgerInvNext, LedgerBalances, PTL

(***************************************************************************)
(* Between two calls no byte of a mapped region is outside the table,      *)
(* whatever was sliced, released or mapped again before.                   *)
(***************************************************************************)
THEOREM NoByteEscapes ==
  ASSUME PartialUnmaps = {}
  PROVE  RecorderSpec => []MappedBytesRecorded
<1>1. RecorderSpec => RecorderInit /\ [][RecorderNext]_vars
  BY DEF RecorderSpec, vars
<1> QED BY <1>1, LedgerInvInit, LedgerInvNext, LedgerCovers, PTL
=============================================================================
