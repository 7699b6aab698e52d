--------------------------- MODULE SchedulerProofs ---------------------------
(***************************************************************************)
(* What holds of the running system for every table, pipe, set of regions  *)
(* and set of readings: what the recorder keeps, the actuator and the      *)
(* mbind thread do not disturb, and the actuator's decisions reach the     *)
(* pages.                                                                  *)
(***************************************************************************)
EXTENDS Scheduler, RecorderProofs, ActuatorProofs

(***************************************************************************)
(* The inductive invariant is that of the recorder and that of the         *)
(* actuator together with what relates decisions to orders.  An object     *)
(* that is not counted has no decision (NotDecided), so a demotion that    *)
(* overtakes the recorder's first order finds the object counted, hence    *)
(* dated, hence protected for its first min_lifetime_sec                   *)
(* (OvertakenOnlyWhenOld).  Of the orders for a decided object that the    *)
(* application has not tried, the last one is settled; when there is none, *)
(* the last one tried is (Decided).                                        *)
(***************************************************************************)
NotDecided == \A i \in Slots : i >= total_obj => Decision(i) = UNDECIDED

(* An order to node is the actuator's last, or the recorder's first one if *)
(* that was written later.                                                 *)
Settled(i, node) == node = IF i \in overtaken THEN NODE_0_DRAM ELSE Decision(i)

InPipe(i) == \E k \in 1 .. Len(pipe) : pipe[k].obj_index = i

LastInPipe(i, k) ==
  /\ pipe[k].obj_index = i
  /\ \A j \in k + 1 .. Len(pipe) : pipe[j].obj_index # i

Decided ==
  \A i \in Slots : Decision(i) # UNDECIDED =>
    /\ \A k \in 1 .. Len(pipe) : LastInPipe(i, k) => Settled(i, pipe[k].node)
    /\ ~InPipe(i) =>
         IF ppc = "mbind" /\ buf.obj_index = i THEN Settled(i, buf.node)
         ELSE Settled(i, attempted[i])

SchedulerInv ==
  /\ RecorderInv
  /\ ActuatorInv
  /\ PreloadTypeOK
  /\ overtaken \subseteq Slots
  /\ NotDecided
  /\ OvertakenOnlyWhenOld
  /\ Decided

-----------------------------------------------------------------------------
(* What the actuator needs of a counted object is what the recorder keeps. *)
LEMMA CountedIsRecorded == RecorderInv => Recorded
<1> SUFFICES ASSUME RecorderInv, NEW i \in Slots, i < total_obj
             PROVE  obj_vector[i].start_addr \in Nat /\ obj_vector[i].size \in Nat \ {0}
  BY DEF Recorded
<1>1. i < index \/ (i = index /\ rpc \in Writing)
  BY TierAssumption DEF RecorderInv, RecorderTypeOK, CountsAgree, Writing, Slots
<1>2. obj_vector[i].start_addr # NO_ADDR /\ obj_vector[i].size # 0
  BY <1>1 DEF RecorderInv, Filled
<1>3. obj_vector[i] \in object_t
  BY DEF RecorderInv, RecorderTypeOK, TierTypeOK
<1> QED BY <1>2, <1>3 DEF object_t

(* The initial state *)
LEMMA SchedulerInvInit == SchedulerInit => SchedulerInv
<1> SUFFICES ASSUME SchedulerInit PROVE SchedulerInv
  OBVIOUS
<1>1. RecorderInv /\ ActuatorInv
  BY InvInit, ActuatorInvInit DEF SchedulerInit
<1>2. PreloadTypeOK
  BY PreloadAssumption DEF SchedulerInit, PreloadInit, PreloadTypeOK, UNDECIDED
<1>3. \A i \in Slots : Decision(i) = UNDECIDED
  BY DEF SchedulerInit, RecorderInit, initialize_recorder, ActuatorInit, Decision
<1>4. NotDecided /\ OvertakenOnlyWhenOld /\ Decided /\ overtaken \subseteq Slots
  BY <1>3 DEF SchedulerInit, RecorderInit, NotDecided, OvertakenOnlyWhenOld, Decided
<1> QED BY <1>1, <1>2, <1>4 DEF SchedulerInv

(* A decision changes only when the actuator moves. *)
LEMMA DecisionSame ==
  ASSUME UNCHANGED <<apc, g_key_value_list, ai, last_decision>>
  PROVE  \A i : Decision(i)' = Decision(i)
  BY DEF Decision, Entry

(* No new order, no new decision: settled orders stay settled. *)
LEMMA DecidedSame ==
  ASSUME Decided, UNCHANGED <<pipe, ppc, buf, attempted, overtaken>>,
         \A i \in Slots : Decision(i)' = Decision(i)
  PROVE  Decided'
<1>1. \A i \in Slots : \A node : Settled(i, node)' <=> Settled(i, node)
  BY DEF Settled
<1> QED BY <1>1 DEF Decided, LastInPipe, InPipe

(* A settled order takes the place of those before it. *)
LEMMA DecidedAppend ==
  ASSUME TierTypeOK, Decided, NEW d \in data_bind_t, pipe' = Append(pipe, d),
         UNCHANGED <<ppc, buf, attempted>>,
         \A i \in Slots : i # d.obj_index =>
           Decision(i)' = Decision(i) /\ (i \in overtaken' <=> i \in overtaken),
         \A i \in Slots : \A node : i = d.obj_index /\ node = d.node =>
           Decision(i)' = UNDECIDED \/ Settled(i, node)'
  PROVE  Decided'
<1>1. /\ pipe \in Seq(data_bind_t) /\ Len(pipe) \in Nat /\ Len(pipe') = Len(pipe) + 1
      /\ pipe'[Len(pipe) + 1] = d
      /\ \A k \in 1 .. Len(pipe) : pipe'[k] = pipe[k]
  BY DEF TierTypeOK
<1> SUFFICES ASSUME NEW i \in Slots, Decision(i)' # UNDECIDED
             PROVE  /\ \A k \in 1 .. Len(pipe') :
                          LastInPipe(i, k)' => Settled(i, pipe[k].node)'
                    /\ ~InPipe(i)' =>
                         IF ppc = "mbind" /\ buf.obj_index = i
                         THEN Settled(i, buf.node)' ELSE Settled(i, attempted[i])'
  BY DEF Decided
<1>2. CASE i = d.obj_index
  <2>1. InPipe(i)'
    BY <1>1, <1>2 DEF InPipe
  <2>2. ASSUME NEW k \in 1 .. Len(pipe'), LastInPipe(i, k)' PROVE Settled(i, pipe[k].node)'
    <3>1. k = Len(pipe) + 1
      BY <1>1, <1>2, <2>2 DEF LastInPipe
    <3> QED BY <1>1, <1>2, <3>1 DEF Settled
  <2> QED BY <2>1, <2>2
<1>3. CASE i # d.obj_index
  <2>1. Decision(i) # UNDECIDED /\ \A node : Settled(i, node) <=> Settled(i, node)'
    BY <1>3 DEF Settled
  <2>2. InPipe(i)' <=> InPipe(i)
    BY <1>1, <1>3 DEF InPipe
  <2>3. ASSUME NEW k \in 1 .. Len(pipe'), LastInPipe(i, k)' PROVE Settled(i, pipe[k].node)'
    <3>1. k \in 1 .. Len(pipe) /\ pipe'[k] = pipe[k] /\ LastInPipe(i, k)
      BY <1>1, <1>3, <2>3 DEF LastInPipe
    <3> QED BY <2>1, <3>1 DEF Decided
  <2> QED BY <2>1, <2>2, <2>3 DEF Decided
<1> QED BY <1>2, <1>3

-----------------------------------------------------------------------------
(* The recorder moves on. *)

(* It counts an object, sends its first order, or does neither. *)
LEMMA RecorderEffect ==
  ASSUME RecorderInv, RecorderStep
  PROVE  /\ UNCHANGED <<last_decision, now>>
         /\ \/ Count \/ Order
            \/ UNCHANGED <<birth_date, total_obj, pipe>> /\ rpc' # "order"
  BY DEF RecorderStep, Mmap, Munmap, FindSlot, Publish, Deallocate, NextPiece,
         Count, Order, tierVars

(* A step of the recorder *)
LEMMA RecorderMoveKeeps ==
  ASSUME SchedulerInv, RecorderMove
  PROVE  SchedulerInv'
<1>1. /\ RecorderInv' /\ RecorderStep /\ UNCHANGED <<actuatorVars, preloadVars>>
      /\ overtaken' = IF rpc = "order" /\ Decision(index) # UNDECIDED
                      THEN overtaken \cup {index} ELSE overtaken
  BY StepKeepsInv DEF SchedulerInv, RecorderMove
<1>2. TierTypeOK /\ TierTypeOK' /\ RecorderInv
  BY <1>1 DEF SchedulerInv, RecorderInv, RecorderTypeOK
<1>3. PreloadTypeOK' /\ UNCHANGED <<ppc, buf, attempted>>
  BY <1>1 DEF SchedulerInv, PreloadTypeOK, preloadVars
<1>4. UNCHANGED <<last_decision, now>> /\ \A i : Decision(i)' = Decision(i)
  BY <1>1, <1>2, RecorderEffect, DecisionSame DEF actuatorVars, listVars
<1>5. rpc = "order" => index \in Slots
  BY <1>2, TierAssumption DEF RecorderInv, RecorderTypeOK, Control, Writing, Slots
<1>6. overtaken' \subseteq Slots
  BY <1>1, <1>5 DEF SchedulerInv
<1>7. CASE Count
  <2>1. /\ UNCHANGED <<now, pipe, index>> /\ total_obj' = total_obj + 1 /\ rpc = "count"
        /\ birth_date' = [birth_date EXCEPT ![index] = now]
        /\ index = total_obj /\ index \in Slots /\ total_obj \in Nat
    BY <1>2, <1>7, TierAssumption DEF Count, RecorderInv, RecorderTypeOK, TierTypeOK,
         CountsAgree, Control, Writing, Slots
  <2>2. \A i \in Slots : i < total_obj => birth_date'[i] = birth_date[i]
    BY <1>2, <2>1 DEF TierTypeOK, Slots
  <2>3. Decision(index) = UNDECIDED
    BY <2>1 DEF SchedulerInv, NotDecided
  <2>4. ActuatorInv'
    BY <1>1, <1>2, <2>1, <2>2, OthersKeepActuatorInv, SMTT(30)
       DEF SchedulerInv, actuatorVars, ActuatorInv, ActuatorTypeOK, TierTypeOK
  <2>5. NotDecided'
    BY <1>4, <2>1 DEF SchedulerInv, NotDecided, Slots
  <2>6. OvertakenOnlyWhenOld'
    <3>1. Decision(index)' = UNDECIDED
      BY <1>4, <2>1, <2>3, DecisionSame DEF Decision
    <3> QED BY <3>1 DEF OvertakenOnlyWhenOld, UNDECIDED, NODE_0_PMEM
  <2>7. Decided'
    BY <1>1, <1>3, <1>4, <2>1, DecidedSame DEF SchedulerInv
  <2> QED BY <1>1, <1>3, <1>6, <2>4, <2>5, <2>6, <2>7 DEF SchedulerInv
<1>8. CASE ~Count
  <2>1. /\ UNCHANGED <<now, birth_date, total_obj>>
        /\ total_obj \in Nat /\ now \in Nat
    BY <1>1, <1>2, <1>8, RecorderEffect, TierAssumption DEF Order, TierTypeOK
  <2>2. ActuatorInv'
    BY <1>1, <1>2, <2>1, OthersKeepActuatorInv
       DEF SchedulerInv, actuatorVars, ActuatorInv, ActuatorTypeOK
  <2>3. NotDecided'
    BY <1>4, <2>1 DEF SchedulerInv, NotDecided
  <2>4. OvertakenOnlyWhenOld'
    BY <1>1, <1>2, <1>8, RecorderEffect DEF OvertakenOnlyWhenOld, Order, NextPiece
  <2>5. CASE Order
    <3> DEFINE d == [start_addr |-> obj_vector[index].start_addr,
                     size |-> obj_vector[index].size, node |-> NODE_0_DRAM,
                     obj_index |-> index, type |-> INITIAL_DATAPLACEMENT,
                     flag |-> MPOL_MF_STRICT]
    <3>1. pipe' = Append(pipe, d) /\ rpc = "order"
      BY <2>5 DEF Order, bind_order
    <3>2. d.node = NODE_0_DRAM /\ d.obj_index = index
      OBVIOUS
    <3> HIDE DEF d
    <3>3. d \in data_bind_t
      <4>1. pipe' \in Seq(data_bind_t) /\ pipe \in Seq(data_bind_t)
        BY <1>2 DEF TierTypeOK
      <4>2. pipe'[Len(pipe')] = d /\ Len(pipe') \in 1 .. Len(pipe')
        BY <3>1, <4>1
      <4> QED BY <4>1, <4>2
    <3>4. \A i \in Slots : i # index =>
            Decision(i)' = Decision(i) /\ (i \in overtaken' <=> i \in overtaken)
      BY <1>1, <1>4
    <3>5. \A i \in Slots : \A node : i = index /\ node = NODE_0_DRAM =>
            Decision(i)' = UNDECIDED \/ Settled(i, node)'
      BY <1>1, <1>4, <3>1 DEF Settled
    <3>6. Decided'
      BY <1>2, <1>3, <3>1, <3>2, <3>3, <3>4, <3>5, DecidedAppend DEF SchedulerInv
    <3> QED BY <1>1, <1>3, <1>6, <2>2, <2>3, <2>4, <3>6 DEF SchedulerInv
  <2>6. CASE ~Order
    <3>1. pipe' = pipe /\ rpc # "order"
      BY <1>1, <1>2, <1>8, <2>6, RecorderEffect
         DEF RecorderStep, Mmap, Munmap, FindSlot, Publish, Count, Deallocate
    <3>2. Decided'
      BY <1>1, <1>3, <1>4, <3>1, DecidedSame DEF SchedulerInv
    <3> QED BY <1>1, <1>3, <1>6, <2>2, <2>3, <2>4, <3>2 DEF SchedulerInv
  <2> QED BY <2>5, <2>6
<1> QED BY <1>7, <1>8

-----------------------------------------------------------------------------
(* The actuator moves on. *)

(* An order of the actuator disturbs nothing the recorder relies on, *)
LEMMA SentKeepsRecorderInv ==
  ASSUME RecorderInv, TierTypeOK', UNCHANGED recorderVars,
         NEW i, NEW node, NEW type, SentFor(i, node, type)
  PROVE  RecorderInv'
<1> DEFINE d == OrderFor(i, node, type, MPOL_MF_MOVE)
<1>1. /\ UNCHANGED <<obj_vector, obj_alloc, birth_date, total_obj, now, index, rpc, todo,
                     mapped>>
      /\ pipe' = Append(pipe, d) /\ i \in Slots /\ i < total_obj
  BY DEF SentFor, recorderVars
<1>2. /\ d.obj_index = i /\ d.start_addr = obj_vector[i].start_addr
      /\ d.size = obj_vector[i].size
  BY DEF OrderFor
<1> HIDE DEF d
<1>3. pipe \in Seq(data_bind_t)
  BY DEF RecorderInv, RecorderTypeOK, TierTypeOK
<1>4. RecorderTypeOK'
  BY <1>1 DEF RecorderInv, RecorderTypeOK
<1>5. CountsAgree' /\ NothingBeyond' /\ Filled' /\ Control' /\ Dated'
  BY <1>1 DEF RecorderInv, CountsAgree, NothingBeyond, Filled, Control, Dated
<1>6. OrdersSettled'
  <2> SUFFICES ASSUME NEW k \in 1 .. Len(pipe')
               PROVE  /\ pipe'[k].obj_index < total_obj
                      /\ obj_vector[pipe'[k].obj_index].start_addr = pipe'[k].start_addr
                      /\ obj_vector[pipe'[k].obj_index].size = pipe'[k].size
    BY <1>1 DEF OrdersSettled
  <2>1. CASE k = Len(pipe) + 1
    BY <1>1, <1>2, <1>3, <2>1
  <2>2. CASE k # Len(pipe) + 1
    <3>1. k \in 1 .. Len(pipe) /\ pipe'[k] = pipe[k]
      BY <1>1, <1>3, <2>2
    <3> QED BY <3>1 DEF RecorderInv, OrdersSettled
  <2> QED BY <2>1, <2>2
<1> QED BY <1>4, <1>5, <1>6 DEF RecorderInv

(* nor does the store of its decision. *)
LEMMA StoredKeepsRecorderInv ==
  ASSUME RecorderInv, TierTypeOK', UNCHANGED recorderVars,
         NEW i, NEW node, StoredFor(i, node),
         birth_date' \in {birth_date, [birth_date EXCEPT ![i] = now]}
  PROVE  RecorderInv'
<1>1. /\ UNCHANGED <<obj_vector, obj_alloc, total_obj, pipe, now, index, rpc, todo, mapped>>
      /\ birth_date \in [Slots -> Nat] /\ now \in Nat \ {0}
  BY DEF StoredFor, recorderVars, RecorderInv, RecorderTypeOK, TierTypeOK
<1>2. RecorderTypeOK'
  BY <1>1 DEF RecorderInv, RecorderTypeOK
<1>3. CountsAgree' /\ NothingBeyond' /\ Filled' /\ Control' /\ OrdersSettled'
  BY <1>1 DEF RecorderInv, CountsAgree, NothingBeyond, Filled, Control, OrdersSettled
<1>4. Dated'
  <2>1. \A j \in Slots : birth_date'[j] \in {birth_date[j], now}
    BY <1>1
  <2> QED BY <1>1, <2>1 DEF RecorderInv, Dated
<1> QED BY <1>2, <1>3, <1>4 DEF RecorderInv

(* The decision of an object is that of the order just written for it, and *)
(* it is not changed when it is stored.                                    *)
LEMMA ActuatorDecides ==
  ASSUME TierTypeOK
  PROVE  /\ NoOrder \/ DemotionStored \/ PromotionStored =>
              \A j \in Slots : Decision(j)' = Decision(j)
         /\ Demotes => \A j \in Slots :
              Decision(j)' = IF j = Entry.key THEN NODE_0_PMEM ELSE Decision(j)
         /\ Promotes => \A j \in Slots :
              Decision(j)' = IF j = Entry.key THEN NODE_0_DRAM ELSE Decision(j)
<1>1. last_decision \in [Slots -> {UNDECIDED, NODE_0_DRAM, NODE_0_PMEM}]
  BY DEF TierTypeOK
<1>2. NoOrder => \A j \in Slots : Decision(j)' = Decision(j)
  BY DEF NoOrder, Decision, tierVars
<1>3. DemotionStored \/ PromotionStored => \A j \in Slots : Decision(j)' = Decision(j)
  BY <1>1 DEF DemotionStored, PromotionStored, StoredFor, Decision
<1>4. Demotes => \A j \in Slots :
        Decision(j)' = IF j = Entry.key THEN NODE_0_PMEM ELSE Decision(j)
  BY DEF Demotes, SentFor, Decision, Entry
<1>5. Promotes => \A j \in Slots :
        Decision(j)' = IF j = Entry.key THEN NODE_0_DRAM ELSE Decision(j)
  BY DEF Promotes, SentFor, Decision, Entry
<1> QED BY <1>2, <1>3, <1>4, <1>5

(* A step of the actuator *)
LEMMA ActuatorMoveKeeps ==
  ASSUME SchedulerInv, ActuatorMove
  PROVE  SchedulerInv'
<1>1. /\ RecorderInv /\ ActuatorInv /\ TierTypeOK /\ Recorded
      /\ ActuatorStep /\ UNCHANGED <<recorderVars, preloadVars>>
      /\ overtaken' = IF apc \in {"send_demotion", "send_promotion"}
                      THEN overtaken \ {Entry.key} ELSE overtaken
  BY CountedIsRecorded DEF SchedulerInv, RecorderInv, RecorderTypeOK, ActuatorMove
<1>2. /\ ActuatorInv' /\ TierTypeOK'
      /\ NoOrder \/ Demotes \/ Promotes \/ DemotionStored \/ PromotionStored
  BY <1>1, ActuatorStepKeepsInv
<1>3. PreloadTypeOK'
  BY <1>1 DEF SchedulerInv, PreloadTypeOK, preloadVars
<1>4. UNCHANGED <<index, rpc, ppc, buf, attempted>> /\ overtaken' \subseteq Slots
  BY <1>1 DEF SchedulerInv, preloadVars, recorderVars
<1>5. /\ UNCHANGED <<total_obj, now>> /\ total_obj \in Nat
      /\ rpc = "order" => index \in Slots
  BY <1>1, <1>2, TierAssumption
     DEF NoOrder, tierVars, Demotes, Promotes, SentFor, DemotionStored, PromotionStored,
         StoredFor, TierTypeOK, RecorderInv, RecorderTypeOK, Control, Writing, Slots
<1>6. CASE NoOrder \/ DemotionStored \/ PromotionStored
  <2>1. \A j \in Slots : Decision(j)' = Decision(j)
    BY <1>1, <1>6, ActuatorDecides
  <2>2. UNCHANGED <<pipe, overtaken>>
    BY <1>1, <1>6 DEF NoOrder, tierVars, DemotionStored, PromotionStored, StoredFor
  <2>3. RecorderInv'
    <3>1. CASE NoOrder
      BY <1>1, <3>1, IdleKeepsInv DEF NoOrder, tierVars, TierTypeOK
    <3>2. CASE DemotionStored \/ PromotionStored
      <4>1. /\ \E node : StoredFor(Entry.key, node)
            /\ birth_date' \in {birth_date, [birth_date EXCEPT ![Entry.key] = now]}
        BY <3>2 DEF DemotionStored, PromotionStored
      <4> QED BY <1>1, <1>2, <4>1, StoredKeepsRecorderInv
    <3> QED BY <1>6, <3>1, <3>2
  <2>4. NotDecided'
    BY <1>5, <2>1 DEF SchedulerInv, NotDecided
  <2>5. OvertakenOnlyWhenOld'
    <3> SUFFICES ASSUME rpc = "order", Decision(index)' = NODE_0_PMEM
                 PROVE  now - birth_date'[index] > MIN_LIFETIME
      BY <1>4, <1>5 DEF OvertakenOnlyWhenOld
    <3>1. index \in Slots /\ Decision(index) = NODE_0_PMEM
      <4>1. Decision(index)' = Decision(index)
        BY <1>4, <1>5, <2>1 DEF Decision
      <4> QED BY <1>5, <4>1
    <3>2. now - birth_date[index] > MIN_LIFETIME
      BY <3>1 DEF SchedulerInv, OvertakenOnlyWhenOld
    <3>3. birth_date'[index] = birth_date[index]
      <4>1. CASE PromotionStored
        <5>1. Entry.key # index
          BY <3>1, <4>1 DEF PromotionStored, Decision, NODE_0_DRAM, NODE_0_PMEM
        <5> QED BY <1>1, <3>1, <4>1, <5>1 DEF PromotionStored, TierTypeOK
      <4>2. CASE NoOrder \/ DemotionStored
        BY <4>2 DEF NoOrder, tierVars, DemotionStored
      <4> QED BY <1>6, <4>1, <4>2
    <3> QED BY <3>2, <3>3
  <2>6. Decided'
    BY <1>4, <2>1, <2>2, DecidedSame DEF SchedulerInv
  <2> QED BY <1>2, <1>3, <1>4, <2>3, <2>4, <2>5, <2>6 DEF SchedulerInv
<1>7. ASSUME NEW node \in {NODE_0_DRAM, NODE_0_PMEM}, NEW type,
             SentFor(Entry.key, node, type),
             apc \in {"send_demotion", "send_promotion"},
             node = NODE_0_PMEM => apc = "send_demotion",
             \A j \in Slots : Decision(j)' = IF j = Entry.key THEN node ELSE Decision(j)
      PROVE  SchedulerInv'
  <2> DEFINE i == Entry.key
             d == OrderFor(i, node, type, MPOL_MF_MOVE)
  <2>1. /\ pipe' = Append(pipe, d) /\ i \in Slots /\ i < total_obj /\ d \in data_bind_t
        /\ UNCHANGED birth_date /\ d.obj_index = i /\ d.node = node
    BY <1>7 DEF SentFor, OrderFor
  <2>2. /\ overtaken' = overtaken \ {i}
        /\ \A j \in Slots : Decision(j)' = IF j = i THEN node ELSE Decision(j)
    BY <1>1, <1>7
  <2>3. node = NODE_0_PMEM => now - birth_date[i] > MIN_LIFETIME
    BY <1>1, <1>7 DEF ActuatorInv, Aged
  <2>4. RecorderInv'
    BY <1>1, <1>2, <1>7, SentKeepsRecorderInv
  <2> HIDE DEF d, i
  <2>5. NotDecided'
    BY <1>5, <2>1, <2>2 DEF SchedulerInv, NotDecided, Slots
  <2>6. OvertakenOnlyWhenOld'
    <3> SUFFICES ASSUME rpc = "order", Decision(index)' = NODE_0_PMEM
                 PROVE  now - birth_date[index] > MIN_LIFETIME
      BY <1>4, <1>5, <2>1 DEF OvertakenOnlyWhenOld
    <3>1. \A j \in Slots : j = index => Decision(j)' = NODE_0_PMEM
      BY <1>4 DEF Decision
    <3>2. CASE index = i
      BY <2>1, <2>2, <2>3, <3>1, <3>2
    <3>3. CASE index # i
      BY <1>5, <2>2, <3>1, <3>3 DEF SchedulerInv, OvertakenOnlyWhenOld
    <3> QED BY <3>2, <3>3
  <2>7. Decided'
    <3>1. \A j \in Slots : j # d.obj_index =>
            Decision(j)' = Decision(j) /\ (j \in overtaken' <=> j \in overtaken)
      BY <2>1, <2>2
    <3>2. \A j \in Slots : \A n : j = d.obj_index /\ n = d.node =>
            Decision(j)' = UNDECIDED \/ Settled(j, n)'
      BY <2>1, <2>2 DEF Settled
    <3> QED BY <1>1, <1>4, <2>1, <3>1, <3>2, DecidedAppend DEF SchedulerInv
  <2> QED BY <1>2, <1>3, <1>4, <2>4, <2>5, <2>6, <2>7 DEF SchedulerInv
<1>8. NODE_0_PMEM # NODE_0_DRAM
  BY DEF NODE_0_DRAM, NODE_0_PMEM
<1>9. CASE Demotes
  <2>1. \A j \in Slots : Decision(j)' = IF j = Entry.key THEN NODE_0_PMEM ELSE Decision(j)
    BY <1>1, <1>9, ActuatorDecides
  <2> QED BY <1>7, <1>9, <2>1 DEF Demotes
<1>10. CASE Promotes
  <2>1. \A j \in Slots : Decision(j)' = IF j = Entry.key THEN NODE_0_DRAM ELSE Decision(j)
    BY <1>1, <1>10, ActuatorDecides
  <2> QED BY <1>7, <1>8, <1>10, <2>1 DEF Promotes
<1> QED BY <1>2, <1>6, <1>9, <1>10

-----------------------------------------------------------------------------
(* The mbind thread moves on. *)

(* The mbind thread keeps its types, *)
LEMMA PreloadTypeKept ==
  ASSUME TierTypeOK, PreloadTypeOK, PreloadStep
  PROVE  PreloadTypeOK'
<1>1. ERR_CAP \in Nat /\ MaxFail \in Nat
  BY PreloadAssumption
<1>2. CASE ReadOrder
  <2>1. pipe # << >> /\ Head(pipe) \in data_bind_t
    BY <1>2 DEF ReadOrder, TierTypeOK
  <2>2. Head(pipe) # << >>
    BY <2>1 DEF data_bind_t
  <2> QED BY <1>2, <2>1, <2>2 DEF ReadOrder, PreloadTypeOK
<1>3. CASE execute_mbind
  <2>1. buf \in data_bind_t
    BY <1>3 DEF execute_mbind, PreloadTypeOK
  <2>2. buf.obj_index \in Slots /\ buf.node \in {UNDECIDED, NODE_0_DRAM, NODE_0_PMEM}
    BY <2>1 DEF data_bind_t
  <2> QED BY <1>1, <1>3, <2>1, <2>2 DEF execute_mbind, PreloadTypeOK
<1>4. CASE ReportError
  <2>1. buf \in data_bind_t
    BY <1>4 DEF ReportError, PreloadTypeOK
  <2> QED BY <1>1, <1>4, <2>1 DEF ReportError, PreloadTypeOK
<1> QED BY <1>2, <1>3, <1>4 DEF PreloadStep

(* An order that leaves the pipe stays before those still in it; one that  *)
(* is tried was the last for its object, or a later one still waits.       *)
LEMMA PreloadKeepsDecided ==
  ASSUME TierTypeOK, PreloadTypeOK, Decided, PreloadStep,
         UNCHANGED <<actuatorVars, overtaken>>
  PROVE  Decided'
<1>1. UNCHANGED overtaken /\ \A i : Decision(i)' = Decision(i)
  BY DecisionSame DEF PreloadStep, ReadOrder, execute_mbind, ReportError, tierVars,
     actuatorVars, listVars
<1>2. pipe \in Seq(data_bind_t) /\ Len(pipe) \in Nat
  BY DEF TierTypeOK
<1> SUFFICES ASSUME NEW i \in Slots, Decision(i) # UNDECIDED
             PROVE  /\ \A k \in 1 .. Len(pipe') :
                          LastInPipe(i, k)' => Settled(i, pipe[k].node)'
                    /\ ~InPipe(i)' =>
                         IF ppc' = "mbind" /\ buf'.obj_index = i
                         THEN Settled(i, buf'.node) ELSE Settled(i, attempted'[i])
  BY <1>1 DEF Decided, Settled
<1>3. /\ \A k \in 1 .. Len(pipe) : LastInPipe(i, k) => Settled(i, pipe[k].node)
      /\ ~InPipe(i) => IF ppc = "mbind" /\ buf.obj_index = i THEN Settled(i, buf.node)
                       ELSE Settled(i, attempted[i])
  BY DEF Decided
<1>4. \A node : Settled(i, node)' <=> Settled(i, node)
  BY <1>1 DEF Settled
<1>5. CASE ReadOrder
  <2>1. /\ pipe # << >> /\ pipe' = Tail(pipe) /\ buf' = Head(pipe) /\ ppc = "read"
        /\ ppc' = "mbind" /\ attempted' = attempted
    BY <1>5 DEF ReadOrder
  <2>2. /\ Len(pipe) >= 1 /\ Len(pipe') = Len(pipe) - 1 /\ buf' = pipe[1]
        /\ \A k \in 1 .. Len(pipe') : pipe'[k] = pipe[k + 1]
    BY <1>2, <2>1
  <2>3. ASSUME NEW k \in 1 .. Len(pipe'), LastInPipe(i, k)' PROVE Settled(i, pipe[k].node)'
    <3>1. k + 1 \in 1 .. Len(pipe) /\ pipe'[k] = pipe[k + 1]
      BY <1>2, <2>2
    <3>2. LastInPipe(i, k + 1)
      <4>1. pipe[k + 1].obj_index = i
        BY <2>3, <3>1 DEF LastInPipe
      <4>2. ASSUME NEW j \in (k + 1) + 1 .. Len(pipe) PROVE pipe[j].obj_index # i
        <5>1. j - 1 \in k + 1 .. Len(pipe') /\ j - 1 \in 1 .. Len(pipe')
          BY <1>2, <2>2, <4>2
        <5>2. pipe'[j - 1] = pipe[(j - 1) + 1] /\ (j - 1) + 1 = j
          BY <1>2, <2>2, <5>1
        <5>3. pipe'[j - 1].obj_index # i
          BY <2>3, <5>1 DEF LastInPipe
        <5> QED BY <5>2, <5>3
      <4> QED BY <4>1, <4>2 DEF LastInPipe
    <3> QED BY <1>3, <1>4, <3>1, <3>2
  <2>4. ASSUME ~InPipe(i)'
        PROVE  IF buf'.obj_index = i THEN Settled(i, buf'.node) ELSE Settled(i, attempted[i])
    <3>1. \A k \in 2 .. Len(pipe) : pipe[k].obj_index # i
      <4> SUFFICES ASSUME NEW k \in 2 .. Len(pipe) PROVE pipe[k].obj_index # i
        OBVIOUS
      <4>1. k - 1 \in 1 .. Len(pipe') /\ pipe'[k - 1] = pipe[(k - 1) + 1] /\ (k - 1) + 1 = k
        BY <1>2, <2>2
      <4> QED BY <2>4, <4>1 DEF InPipe
    <3>2. CASE buf'.obj_index = i
      <4>1. LastInPipe(i, 1)
        BY <2>2, <3>1, <3>2 DEF LastInPipe
      <4>2. 1 \in 1 .. Len(pipe)
        BY <1>2, <2>2
      <4> QED BY <1>3, <2>2, <3>2, <4>1, <4>2
    <3>3. CASE buf'.obj_index # i
      <4>1. ~InPipe(i)
        <5>1. \A k \in 1 .. Len(pipe) : k = 1 \/ k \in 2 .. Len(pipe)
          BY <1>2
        <5> QED BY <2>2, <3>1, <3>3, <5>1 DEF InPipe
      <4> QED BY <1>3, <2>1, <3>3, <4>1
    <3> QED BY <3>2, <3>3
  <2> QED BY <2>1, <2>3, <2>4
<1>6. CASE execute_mbind
  <2>1. /\ UNCHANGED pipe /\ ppc = "mbind" /\ ppc' \in {"read", "report"}
        /\ attempted' = [attempted EXCEPT ![buf.obj_index] = buf.node]
    BY <1>6 DEF execute_mbind, tierVars
  <2>2. attempted'[i] = IF buf.obj_index = i THEN buf.node ELSE attempted[i]
    BY <2>1 DEF PreloadTypeOK
  <2>3. (InPipe(i)' <=> InPipe(i)) /\ \A k : LastInPipe(i, k)' <=> LastInPipe(i, k)
    BY <2>1 DEF InPipe, LastInPipe
  <2> QED BY <1>3, <1>4, <2>1, <2>2, <2>3
<1>7. CASE ReportError
  <2>1. UNCHANGED <<pipe, attempted>> /\ ppc = "report" /\ ppc' = "read"
    BY <1>7 DEF ReportError, tierVars
  <2>2. (InPipe(i)' <=> InPipe(i)) /\ \A k : LastInPipe(i, k)' <=> LastInPipe(i, k)
    BY <2>1 DEF InPipe, LastInPipe
  <2> QED BY <1>3, <1>4, <2>1, <2>2
<1> QED BY <1>5, <1>6, <1>7 DEF PreloadStep

(* and the invariant. *)
LEMMA PreloadMoveKeeps ==
  ASSUME SchedulerInv, PreloadMove
  PROVE  SchedulerInv'
<1>1. /\ RecorderInv /\ ActuatorInv /\ PreloadTypeOK /\ TierTypeOK /\ PreloadStep
      /\ UNCHANGED <<recorderVars, actuatorVars, overtaken>>
  BY DEF SchedulerInv, RecorderInv, RecorderTypeOK, PreloadMove
<1>2. UNCHANGED <<obj_vector, obj_alloc, birth_date, last_decision, total_obj, now>>
  BY <1>1 DEF PreloadStep, ReadOrder, execute_mbind, ReportError, tierVars
<1>3. RecorderInv'
  <2>1. CASE ReadOrder
    BY <1>1, <2>1, PipeReadKeepsInv DEF ReadOrder, PipeRead
  <2>2. CASE ~ReadOrder
    <3>1. UNCHANGED pipe /\ now \in Nat \ {0}
      BY <1>1, <2>2 DEF PreloadStep, execute_mbind, ReportError, tierVars, TierTypeOK
    <3> QED BY <1>1, <1>2, <3>1, IdleKeepsInv
  <2> QED BY <2>1, <2>2
<1>4. ActuatorInv'
  <2>1. TierTypeOK' /\ total_obj' >= total_obj /\ now' >= now
    BY <1>1, <1>2, <1>3 DEF RecorderInv, RecorderTypeOK, TierTypeOK
  <2> QED BY <1>1, <1>2, <2>1, OthersKeepActuatorInv
          DEF actuatorVars, ActuatorInv, ActuatorTypeOK
<1>5. PreloadTypeOK'
  BY <1>1, PreloadTypeKept
<1>6. NotDecided' /\ OvertakenOnlyWhenOld' /\ overtaken' \subseteq Slots
  BY <1>1, <1>2 DEF SchedulerInv, NotDecided, OvertakenOnlyWhenOld, recorderVars,
     Decision, Entry, actuatorVars, listVars
<1>7. Decided'
  BY <1>1, PreloadKeepsDecided DEF SchedulerInv
<1> QED BY <1>3, <1>4, <1>5, <1>6, <1>7 DEF SchedulerInv

(* The clock, the order to stop and a stuttering step *)
LEMMA RestKeeps ==
  ASSUME SchedulerInv, now' \in Nat \ {0}, now' >= now, g_running_actuator' \in BOOLEAN,
         UNCHANGED <<obj_vector, obj_alloc, birth_date, last_decision, total_obj, pipe,
                     recorderVars, preloadVars, overtaken, apc, listVars, spacingVars,
                     ai, max_migration_gb, readings>>
  PROVE  SchedulerInv'
<1>1. RecorderInv /\ ActuatorInv /\ TierTypeOK
  BY DEF SchedulerInv, RecorderInv, RecorderTypeOK
<1>2. RecorderInv'
  BY <1>1, IdleKeepsInv
<1>3. TierTypeOK' /\ total_obj' >= total_obj
  BY <1>1, <1>2 DEF RecorderInv, RecorderTypeOK, TierTypeOK
<1>4. ActuatorInv'
  BY <1>1, <1>3, OthersKeepActuatorInv
<1>5. PreloadTypeOK' /\ overtaken' \subseteq Slots
  BY DEF SchedulerInv, PreloadTypeOK, preloadVars
<1>6. OvertakenOnlyWhenOld'
  <2> SUFFICES ASSUME rpc = "order", Decision(index) = NODE_0_PMEM
               PROVE  now' - birth_date[index] > MIN_LIFETIME
    BY DEF OvertakenOnlyWhenOld, recorderVars, Decision, Entry, listVars
  <2>1. index \in Slots
    BY <1>1, TierAssumption DEF RecorderInv, RecorderTypeOK, Control, Writing, Slots
  <2>2. now \in Nat /\ birth_date[index] \in Nat /\ MIN_LIFETIME \in Nat
    BY <1>1, <2>1, ActuatorAssumption DEF TierTypeOK
  <2>3. now - birth_date[index] > MIN_LIFETIME
    BY DEF SchedulerInv, OvertakenOnlyWhenOld
  <2> QED BY <2>2, <2>3
<1>7. \A i : Decision(i)' = Decision(i)
  BY DecisionSame DEF listVars
<1>8. NotDecided' /\ Decided'
  BY <1>7, DecidedSame DEF SchedulerInv, NotDecided, preloadVars
<1> QED BY <1>2, <1>4, <1>5, <1>6, <1>8 DEF SchedulerInv

-----------------------------------------------------------------------------
(* Every step of the composition keeps the invariant. *)
LEMMA SchedulerInvNext ==
  SchedulerInv /\ [SchedulerNext]_schedulerVars => SchedulerInv'
<1> SUFFICES ASSUME SchedulerInv, [SchedulerNext]_schedulerVars PROVE SchedulerInv'
  OBVIOUS
<1>1. now \in Nat \ {0} /\ g_running_actuator \in BOOLEAN
  BY DEF SchedulerInv, RecorderInv, RecorderTypeOK, TierTypeOK, ActuatorInv,
         ActuatorTypeOK
<1>2. CASE RecorderMove
  BY <1>2, RecorderMoveKeeps
<1>3. CASE ActuatorMove
  BY <1>3, ActuatorMoveKeeps
<1>4. CASE PreloadMove
  BY <1>4, PreloadMoveKeeps
<1>5. CASE StopMove
  <2>1. /\ g_running_actuator' \in BOOLEAN /\ now' = now
        /\ UNCHANGED <<obj_vector, obj_alloc, birth_date, last_decision, total_obj, pipe,
                       recorderVars, preloadVars, overtaken, apc, listVars, spacingVars,
                       ai, max_migration_gb, readings>>
    BY <1>5 DEF StopMove, StopActuator, tierVars
  <2>2. now' \in Nat \ {0} /\ now' >= now
    BY <1>1, <2>1
  <2> QED BY <2>1, <2>2, RestKeeps
<1>6. CASE ClockMove
  BY <1>1, <1>6, RestKeeps DEF ClockMove, Tick, actuatorVars
<1>7. CASE Stopped /\ UNCHANGED <<actuatorVars, preloadVars, overtaken>>
  BY <1>1, <1>7, RestKeeps DEF Stopped, actuatorVars, tierVars
<1>8. CASE UNCHANGED schedulerVars
  BY <1>1, <1>8, RestKeeps DEF schedulerVars, actuatorVars, tierVars
<1> QED BY <1>2, <1>3, <1>4, <1>5, <1>6, <1>7, <1>8 DEF SchedulerNext

(* SchedulerInv holds throughout: see its comment for the argument. *)
THEOREM SchedulerInvariant == SchedulerSpec => []SchedulerInv
  BY SchedulerInvInit, SchedulerInvNext, PTL DEF SchedulerSpec

(***************************************************************************)
(* The table, the pipes and the variables of the three threads keep their  *)
(* types however the threads interleave: no order is written for an object *)
(* without a range, and no page count divides by an object without pages.  *)
(***************************************************************************)
THEOREM SchedulerTypeCorrect == SchedulerSpec => []SchedulerTypeOK
<1>1. SchedulerInv => SchedulerTypeOK
  BY DEF SchedulerInv, RecorderInv, ActuatorInv, SchedulerTypeOK
<1> QED BY <1>1, SchedulerInvariant, PTL

(***************************************************************************)
(* What the recorder promises alone it promises beside the actuator: scans *)
(* meet complete objects, and orders of either writer name the object      *)
(* whose range they carry.                                                 *)
(***************************************************************************)
THEOREM SharedTableSafe ==
  SchedulerSpec => [](ScanSeesCompleteObjects /\ OrderNamesItsObject)
<1>1. SchedulerInv => ScanSeesCompleteObjects /\ OrderNamesItsObject
  BY InvScanSafe, InvOrdersNamed DEF SchedulerInv
<1> QED BY <1>1, SchedulerInvariant, PTL

(***************************************************************************)
(* A demotion overtakes the recorder's first order for an object only once *)
(* birth_date is min_lifetime_sec in the past.                             *)
(***************************************************************************)
THEOREM FirstOrderProtected == SchedulerSpec => []OvertakenOnlyWhenOld
<1>1. SchedulerInv => OvertakenOnlyWhenOld
  BY DEF SchedulerInv
<1> QED BY <1>1, SchedulerInvariant, PTL

(***************************************************************************)
(* With two writers, a pipe and a reader between the decision and the      *)
(* pages, the last mbind tried on an object is the actuator's last         *)
(* decision; if the recorder's first order for the object was written      *)
(* after that decision, and only then, it is the recorder's.               *)
(***************************************************************************)
THEOREM DecisionsReachPages == SchedulerSpec => []DecisionReachesPages
<1>1. SchedulerInv => DecisionReachesPages
  <2> SUFFICES ASSUME SchedulerInv, NEW i \in 0 .. total_obj - 1,
                      Decision(i) # UNDECIDED, ~Pending(i)
               PROVE  attempted[i] = IF i \in overtaken THEN NODE_0_DRAM ELSE Decision(i)
    BY DEF DecisionReachesPages
  <2>1. i \in Slots
    BY TierAssumption DEF SchedulerInv, RecorderInv, RecorderTypeOK, TierTypeOK, Slots
  <2>2. ~InPipe(i) /\ ~(ppc = "mbind" /\ buf.obj_index = i)
    BY DEF Pending, InPipe
  <2>3. Settled(i, attempted[i])
    BY <2>1, <2>2 DEF SchedulerInv, Decided
  <2> QED BY <2>3 DEF Settled
<1> QED BY <1>1, SchedulerInvariant, PTL

-----------------------------------------------------------------------------
(* Nobody but the recorder writes obj_alloc or the ranges. *)
LEMMA OnlyRecorderWritesRanges ==
  ASSUME SchedulerInv, [SchedulerNext]_schedulerVars, ~RecorderMove
  PROVE  UNCHANGED <<recorderVars, obj_alloc, obj_vector>>
<1>1. CASE ActuatorMove
  <2>1. TierTypeOK /\ Recorded /\ ActuatorInv /\ ActuatorStep
    BY <1>1, CountedIsRecorded DEF SchedulerInv, RecorderInv, RecorderTypeOK, ActuatorMove
  <2>2. NoOrder \/ Demotes \/ Promotes \/ DemotionStored \/ PromotionStored
    BY <2>1, ActuatorStepKeepsInv
  <2> QED BY <1>1, <2>2 DEF NoOrder, tierVars, Demotes, Promotes, SentFor, DemotionStored,
          PromotionStored, StoredFor, ActuatorMove, recorderVars
<1>2. CASE ~ActuatorMove
  BY <1>2 DEF SchedulerNext, PreloadMove, PreloadStep, ReadOrder, execute_mbind, ReportError,
     StopMove, StopActuator, ClockMove, Tick, Stopped, schedulerVars, tierVars, recorderVars
<1> QED BY <1>1, <1>2

(***************************************************************************)
(* While the actuator moves objects and the application binds them, the    *)
(* live objects stay the pieces of the mapped regions, and every byte of a *)
(* region stays in the table, if the application unmaps whole regions.     *)
(***************************************************************************)
THEOREM LedgerBesideActuator ==
  ASSUME PartialUnmaps = {}
  PROVE  SchedulerSpec => [](LedgerBalanced /\ MappedBytesRecorded)
<1> DEFINE Both == SchedulerInv /\ LedgerInv
<1>1. SchedulerInit => Both
  BY SchedulerInvInit, LedgerInvInit DEF SchedulerInit
<1>2. Both /\ [SchedulerNext]_schedulerVars => Both'
  <2> SUFFICES ASSUME Both, [SchedulerNext]_schedulerVars PROVE Both'
    OBVIOUS
  <2>1. SchedulerInv' /\ RecorderInv'
    BY SchedulerInvNext DEF SchedulerInv
  <2>2. CASE RecorderMove
    BY <2>1, <2>2, LedgerStep DEF RecorderMove, LedgerInv
  <2>3. CASE ~RecorderMove
    BY <2>1, <2>3, OnlyRecorderWritesRanges, LedgerElsewhere DEF LedgerInv
  <2> QED BY <2>2, <2>3
<1>3. Both => LedgerBalanced /\ MappedBytesRecorded
  BY LedgerBalances, LedgerCovers
<1> QED BY <1>1, <1>2, <1>3, PTL DEF SchedulerSpec

-----------------------------------------------------------------------------
(* Refinement of ObjectRegistry, beside the actuator and the mbind thread *)

(***************************************************************************)
(* Neither the actuator nor the application disturbs the registry: it is   *)
(* what the actuator may take the recorder for.                            *)
(***************************************************************************)
THEOREM SchedulerKeepsRegistry == SchedulerSpec => ImplementsRegistry
<1>1. SchedulerInit => Registry!Init
  BY LogInit DEF SchedulerInit
<1>2. ASSUME SchedulerInv, [SchedulerNext]_schedulerVars
      PROVE  [Registry!Next]_registryLog
  <2>1. CASE RecorderMove
    <3>1. RecorderInv /\ [RecorderNext]_vars
      BY <1>2, <2>1 DEF SchedulerInv, RecorderMove, RecorderNext
    <3> QED BY <3>1, RegistryStep
  <2>2. CASE ~RecorderMove
    <3>1. UNCHANGED <<index, rpc, obj_vector, obj_alloc>>
      BY <1>2, <2>2, OnlyRecorderWritesRanges DEF recorderVars
    <3>2. Published' = Published
      BY <3>1 DEF Published
    <3>3. registryLog' = registryLog
      <4> HIDE DEF Published
      <4> QED BY <3>1, <3>2, LogSame
    <3> QED BY <3>3
  <2> QED BY <2>1, <2>2
<1> QED BY <1>1, <1>2, SchedulerInvariant, PTL
        DEF SchedulerSpec, ImplementsRegistry, Registry!Spec

-----------------------------------------------------------------------------
(* Refinement of MbindService, without its fairness *)

(* The orders not tried yet: the one the mbind thread holds, then the pipe *)
waiting == (IF ppc = "mbind" THEN <<buf>> ELSE << >>) \o pipe

(* A sequence with an order put before it *)
LEMMA HeldFirst ==
  ASSUME NEW S, NEW b \in S, NEW q \in Seq(S)
  PROVE  /\ <<b>> \o q \in Seq(S) /\ <<b>> \o q # << >>
         /\ Head(<<b>> \o q) = b /\ Tail(<<b>> \o q) = q
         /\ \A d \in S : <<b>> \o Append(q, d) = Append(<<b>> \o q, d)
  OBVIOUS

(* The orders that wait are records of the pipe. *)
LEMMA WaitingType ==
  ASSUME SchedulerInv
  PROVE  /\ waiting \in Seq(data_bind_t) /\ pipe \in Seq(data_bind_t)
         /\ ppc = "mbind" => waiting = <<buf>> \o pipe /\ buf \in data_bind_t
         /\ ppc # "mbind" => waiting = pipe
<1>1. pipe \in Seq(data_bind_t)
  BY DEF SchedulerInv, RecorderInv, RecorderTypeOK, TierTypeOK
<1>2. ppc = "mbind" => buf \in data_bind_t
  BY DEF SchedulerInv, PreloadTypeOK
<1>3. << >> \o pipe = pipe
  BY <1>1
<1>4. ppc = "mbind" => <<buf>> \o pipe \in Seq(data_bind_t)
  BY <1>1, <1>2, HeldFirst
<1> QED BY <1>1, <1>2, <1>3, <1>4 DEF waiting

(* Whoever writes an order, it joins the end of the queue. *)
LEMMA WriteSubmits ==
  ASSUME SchedulerInv, NEW d \in data_bind_t, pipe' = Append(pipe, d),
         UNCHANGED preloadVars
  PROVE  Service!Next
<1>1. waiting \in Seq(data_bind_t) /\ waiting' = Append(waiting, d)
  <2>1. CASE ppc = "mbind"
    BY <2>1, WaitingType, HeldFirst DEF waiting, preloadVars
  <2>2. CASE ppc # "mbind"
    <3>1. << >> \o Append(pipe, d) = Append(pipe, d)
      BY WaitingType
    <3> QED BY <2>2, <3>1, WaitingType DEF waiting, preloadVars
  <2> QED BY <2>1, <2>2
<1> HIDE DEF waiting
<1>2. /\ Len(waiting') = Len(waiting) + 1 /\ waiting'[Len(waiting')] = d
      /\ Len(waiting) \in Nat
  BY <1>1
<1>3. Len(waiting') > Len(waiting) /\ waiting' = Append(waiting, waiting'[Len(waiting')])
  BY <1>1, <1>2
<1>4. attempted' = attempted
  BY DEF preloadVars
<1> QED BY <1>3, <1>4 DEF Service!Next, Service!Submit, waiting

(* The mbind thread takes an order, tries it, and may report its failure. *)
LEMMA PreloadServes ==
  ASSUME SchedulerInv, PreloadStep
  PROVE  Service!Next \/ UNCHANGED <<waiting, attempted>>
<1>1. CASE ReadOrder
  <2>1. /\ pipe # << >> /\ pipe' = Tail(pipe) /\ buf' = Head(pipe) /\ ppc = "read"
        /\ ppc' = "mbind" /\ attempted' = attempted
    BY <1>1 DEF ReadOrder
  <2>2. <<Head(pipe)>> \o Tail(pipe) = pipe
    BY <2>1, WaitingType
  <2>3. waiting' = pipe /\ waiting = pipe
    BY <2>1, <2>2, WaitingType DEF waiting
  <2> QED BY <2>1, <2>3
<1>2. CASE execute_mbind
  <2>1. /\ ppc = "mbind" /\ ppc' # "mbind" /\ pipe' = pipe
        /\ attempted' = [attempted EXCEPT ![buf.obj_index] = buf.node]
    BY <1>2 DEF execute_mbind, tierVars
  <2>2. << >> \o pipe = pipe
    BY WaitingType
  <2>3. waiting' = pipe
    BY <2>1, <2>2 DEF waiting
  <2>4. waiting # << >> /\ Head(waiting) = buf /\ Tail(waiting) = pipe
    BY <2>1, WaitingType, HeldFirst
  <2>5. /\ waiting # << >> /\ waiting' = Tail(waiting)
        /\ attempted' = [attempted EXCEPT ![Head(waiting).obj_index] = Head(waiting).node]
    <3> HIDE DEF waiting
    <3> QED BY <2>1, <2>3, <2>4
  <2> QED BY <2>5 DEF Service!Next, Service!Serve, waiting
<1>3. CASE ReportError
  <2>1. UNCHANGED <<pipe, attempted>> /\ ppc = "report" /\ ppc' = "read"
    BY <1>3 DEF ReportError, tierVars
  <2> QED BY <2>1 DEF waiting
<1> QED BY <1>1, <1>2, <1>3 DEF PreloadStep

(***************************************************************************)
(* The recorder, the actuator, the pipe and the mbind thread form one      *)
(* first-in first-out service: every order is tried once, in the order of  *)
(* sending, and nothing else is tried.                                     *)
(***************************************************************************)
THEOREM OrdersTriedOnceInOrder == SchedulerSpec => Service!Safety
<1>1. SchedulerInit => Service!Init
  <2> SUFFICES ASSUME SchedulerInit
               PROVE  waiting = << >> /\
                      attempted \in [Slots -> {UNDECIDED, NODE_0_DRAM, NODE_0_PMEM}]
    BY DEF Service!Init, waiting
  <2>1. pipe = << >> /\ ppc = "read" /\ attempted = [i \in Slots |-> UNDECIDED]
    BY DEF SchedulerInit, RecorderInit, initialize_recorder, PreloadInit
  <2>2. << >> \o << >> = << >>
    OBVIOUS
  <2> QED BY <2>1, <2>2 DEF waiting
<1>2. ASSUME SchedulerInv, [SchedulerNext]_schedulerVars
      PROVE  [Service!Next]_(Service!vars)
  <2> SUFFICES Service!Next \/ UNCHANGED <<waiting, attempted>>
    BY DEF Service!vars, waiting
  <2>1. CASE PreloadMove
    BY <1>2, <2>1, PreloadServes DEF PreloadMove
  <2>2. CASE RecorderMove
    <3>1. UNCHANGED preloadVars /\ RecorderStep /\ RecorderInv
      BY <1>2, <2>2 DEF RecorderMove, SchedulerInv
    <3>2. CASE Order
      <4> DEFINE d == [start_addr |-> obj_vector[index].start_addr,
                       size |-> obj_vector[index].size, node |-> NODE_0_DRAM,
                       obj_index |-> index, type |-> INITIAL_DATAPLACEMENT,
                       flag |-> MPOL_MF_STRICT]
      <4>1. pipe' = Append(pipe, d)
        BY <3>2 DEF Order, bind_order
      <4> HIDE DEF d
      <4>2. pipe' \in Seq(data_bind_t) /\ pipe \in Seq(data_bind_t)
        BY <3>1, StepKeepsInv DEF RecorderInv, RecorderTypeOK, TierTypeOK
      <4>3. pipe'[Len(pipe')] = d /\ Len(pipe') \in 1 .. Len(pipe')
        BY <4>1, <4>2
      <4>4. d \in data_bind_t
        BY <4>2, <4>3
      <4> QED BY <1>2, <3>1, <4>1, <4>4, WriteSubmits
    <3>3. CASE ~Order
      <4>1. pipe' = pipe
        BY <3>1, <3>3, RecorderEffect DEF Count
      <4> QED BY <3>1, <4>1 DEF waiting, preloadVars
    <3> QED BY <3>2, <3>3
  <2>3. CASE ActuatorMove
    <3>1. /\ TierTypeOK /\ Recorded /\ ActuatorInv /\ ActuatorStep
          /\ UNCHANGED preloadVars
      BY <1>2, <2>3, CountedIsRecorded
         DEF SchedulerInv, RecorderInv, RecorderTypeOK, ActuatorMove
    <3>2. NoOrder \/ Demotes \/ Promotes \/ DemotionStored \/ PromotionStored
      BY <3>1, ActuatorStepKeepsInv
    <3>3. CASE NoOrder \/ DemotionStored \/ PromotionStored
      BY <3>1, <3>3 DEF NoOrder, tierVars, DemotionStored, PromotionStored, StoredFor,
         waiting, preloadVars
    <3>4. CASE Demotes \/ Promotes
      <4>1. \E d \in data_bind_t : pipe' = Append(pipe, d)
        BY <3>4 DEF Demotes, Promotes, SentFor
      <4> QED BY <1>2, <3>1, <4>1, WriteSubmits
    <3> QED BY <3>2, <3>3, <3>4
  <2>4. CASE \/ StopMove \/ ClockMove \/ UNCHANGED schedulerVars
             \/ Stopped /\ UNCHANGED <<actuatorVars, preloadVars, overtaken>>
    <3>1. UNCHANGED <<pipe, ppc, buf, attempted>>
      BY <2>4 DEF StopMove, StopActuator, ClockMove, Tick, Stopped, schedulerVars,
                  tierVars, preloadVars
    <3> QED BY <3>1 DEF waiting
  <2> QED BY <1>2, <2>1, <2>2, <2>3, <2>4 DEF SchedulerNext
<1> QED BY <1>1, <1>2, SchedulerInvariant, PTL DEF SchedulerSpec, Service!Safety
=============================================================================
