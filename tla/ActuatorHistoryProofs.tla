------------------------ MODULE ActuatorHistoryProofs ------------------------
(***************************************************************************)
(* What holds of the orders of the actuator, and of their history, for     *)
(* every table, every set of metrics and every speed of the reader.        *)
(***************************************************************************)
EXTENDS ActuatorHistory, ActuatorProofs

(* Where the thread is while a policy runs, and with an order in hand *)
Demoting  == {"demote", "send_demotion", "sent_demotion"}
Promoting == {"promote", "send_promotion", "sent_promotion"}
Writing   == {"send_demotion", "sent_demotion", "send_promotion", "sent_promotion"}

USE DEF Demoting, Promoting, Writing

(***************************************************************************)
(* The inductive invariant.                                                *)
(*                                                                         *)
(* Waits ties the periods that have passed to count and g_has_demotion,    *)
(* which the code keeps for that purpose; Restarted ties birth_date to the *)
(* last promotion.                                                         *)
(***************************************************************************)
Waits ==
  /\ apc = "wait" => since_demotion = 3
  /\ apc = "pressure" =>
       since_demotion >= (IF g_has_demotion = 1 THEN count + 1 ELSE 3)
  /\ apc \in Demoting =>
       since_demotion = (IF g_has_demotion = 1 THEN 0 ELSE 3)
  /\ apc \in {"loop", "flag"} \cup Promoting =>
       since_demotion >= (IF g_has_demotion = 1 THEN count ELSE 2)

Restarted ==
  \A i \in Slots : promoted_at[i] # 0 => i < total_obj /\ promoted_at[i] = birth_date[i]

(***************************************************************************)
(* The list is in order (Descending) and the orders of a burst are those   *)
(* of the positions the loop has passed (DemotedPassed, PromotedPassed),   *)
(* on either side of the threshold.                                        *)
(***************************************************************************)
Descending ==
  \A p, q \in 1 .. Len(g_key_value_list) :
    p < q => g_key_value_list[p].value >= g_key_value_list[q].value

Quiet ==
  /\ apc \in {"wait", "loop", "pressure", "done"} => demoted = << >>
  /\ apc \notin Promoting => promoted = << >>

Tested ==
  /\ apc \in {"send_demotion", "sent_demotion"} => Entry.value < HOTNESS
  /\ apc \in {"send_promotion", "sent_promotion"} =>
       Entry.value > HOTNESS /\ pmemAlloc(Entry.key) < current_free_dram

DemotedPassed ==
  \A j \in 1 .. Len(demoted) :
    /\ demoted[j].entry.value < HOTNESS
    /\ \E p \in 1 .. Len(g_key_value_list) :
         /\ demoted[j].entry = g_key_value_list[p]
         /\ apc \in Demoting => p > ai

PromotedPassed ==
  \A j \in 1 .. Len(promoted) :
    /\ promoted[j].entry.value > HOTNESS
    /\ \E p \in 1 .. Len(g_key_value_list) :
         promoted[j].entry = g_key_value_list[p] /\ p < ai

InTurn ==
  /\ \A j, k \in 1 .. Len(demoted) : j < k =>
       /\ demoted[j].entry.key # demoted[k].entry.key
       /\ demoted[j].entry.value <= demoted[k].entry.value
  /\ \A j, k \in 1 .. Len(promoted) : j < k =>
       /\ promoted[j].entry.key # promoted[k].entry.key
       /\ promoted[j].entry.value >= promoted[k].entry.value

(***************************************************************************)
(* max_migration_gb is what the burst has left of a chunk; a loop that     *)
(* goes on has not spent it.                                               *)
(***************************************************************************)
Chunk == CHUNK_SIZE * SHARE

WithinChunk(burst) ==
  burst # << >> => Total(SubSeq(burst, 1, Len(burst) - 1)) <= Chunk

Budget ==
  /\ apc \in Demoting =>
       /\ Total(demoted) + max_migration_gb = Chunk
       /\ ai > 0 => max_migration_gb >= 0
  /\ apc \in Promoting =>
       /\ Total(promoted) + max_migration_gb = Chunk
       /\ ai <= Len(g_key_value_list) => max_migration_gb >= 0
       /\ promoted # << >> => Total(promoted) < current_free_dram + Chunk
  /\ WithinChunk(demoted) /\ WithinChunk(promoted)

HistoryInv ==
  /\ TierTypeOK /\ Recorded /\ ActuatorInv /\ HistoryTypeOK
  /\ Waits /\ Restarted
  /\ Descending /\ Quiet /\ Tested
  /\ DemotedPassed /\ PromotedPassed /\ InTurn
  /\ Budget

(***************************************************************************)
(* What is known of the page counts when no object is smaller than two     *)
(* pages: what one reading leaves to the next is halved each time.         *)
(***************************************************************************)
Nodes   == {"dram", "pmem"}
Lengths == Sizes \cup {CHUNK_SIZE}

LargeObjects == \A size \in Lengths : size % PAGE = 0 => size >= 2 * PAGE

CarriedSmall ==
  \A size \in Lengths :
    size % PAGE = 0 => size * ((2 * SHARE - 1) \div (size \div PAGE)) <= MIN_SIZE

Most == (CHUNK_SIZE + 2 * PAGE) * SHARE

Sized == \A i \in Slots : i < total_obj => obj_vector[i].size \in Lengths

CarriesLittle == \A node \in Nodes : g_status_memory_pages[node] < 2 * SHARE

Measured ==
  \A node \in Nodes, i \in Slots :
    IF i < total_obj THEN obj_vector[i].size * page_status[i][node] <= Most
    ELSE page_status[i][node] = 0

Moved == Total(demoted) <= Chunk + Most /\ Total(promoted) <= Chunk + Most

Counted == Sized /\ CarriesLittle /\ Measured /\ Moved

SeenAt(p) ==
  LET i == g_key_value_list[p].key
  IN  /\ obj_alloc[i] = 1 => i \in DOMAIN placed
      /\ i \in DOMAIN placed /\ dramAlloc(i) > MIN_SIZE => placed[i].dram > 0
      /\ apc = "send_demotion" /\ p = ai => i \in DOMAIN placed /\ placed[i].dram > 0

Seen ==
  apc \in Demoting =>
    \A p \in 1 .. Len(g_key_value_list) : SeenAt(p)

PagesInv == HistoryInv /\ Counted /\ Seen

-----------------------------------------------------------------------------
(* Sums over a burst *)

(* Total is the sum its recursion says. *)
LEMMA TotalDef ==
  ASSUME NEW s, Len(s) \in Nat
  PROVE  \E sum : /\ sum = [k \in 0 .. Len(s) |->
                              IF k = 0 THEN 0 ELSE sum[k - 1] + s[k].amount]
                  /\ Total(s) = sum[Len(s)]
<1> DEFINE Def(f, m) == f = [k \in 0 .. m |-> IF k = 0 THEN 0 ELSE f[k - 1] + s[k].amount]
           S == {m \in Nat : \E f : Def(f, m)}
<1>1. 0 \in S
  <2>1. Def([k \in 0 .. 0 |-> 0], 0)
    OBVIOUS
  <2> HIDE DEF Def
  <2> QED BY <2>1
<1>2. ASSUME NEW m \in Nat, m \in S PROVE m + 1 \in S
  <2>1. PICK f : Def(f, m)
    BY <1>2
  <2> DEFINE g == [k \in 0 .. m + 1 |->
                     IF k = m + 1 THEN f[m] + s[m + 1].amount ELSE f[k]]
  <2>2. Def(g, m + 1)
    BY <2>1
  <2> HIDE DEF Def, g
  <2> QED BY <2>2
<1>3. Len(s) \in S
  <2> HIDE DEF S
  <2> QED BY <1>1, <1>2, SetInduction
<1>4. \E f : Def(f, Len(s))
  BY <1>3
<1> DEFINE sum == CHOOSE f : Def(f, Len(s))
<1>5. Def(sum, Len(s))
  <2> HIDE DEF Def
  <2> QED BY <1>4
<1>6. Total(s) = sum[Len(s)]
  BY DEF Total
<1> HIDE DEF sum
<1> QED BY <1>5, <1>6

(* The sum of an empty burst, and of one more order *)
LEMMA TotalEmpty == Total(<< >>) = 0
<1>1. Len(<< >>) = 0
  OBVIOUS
<1> QED BY <1>1, TotalDef

(* One more order adds its amount; without it the burst is what it was. *)
LEMMA TotalAppend ==
  ASSUME NEW s \in Seq(migration), NEW e \in migration
  PROVE  /\ Total(s) \in Int
         /\ Total(Append(s, e)) = Total(s) + e.amount
         /\ SubSeq(Append(s, e), 1, Len(Append(s, e)) - 1) = s
         /\ Append(s, e) # << >>
<1> DEFINE n == Len(s)
           t == Append(s, e)
<1>1. /\ n \in Nat /\ Len(t) = n + 1 /\ t[n + 1] = e
      /\ \A k \in 1 .. n : t[k] = s[k] /\ s[k].amount \in Int
  <2>1. n \in Nat /\ Len(t) = n + 1 /\ t[n + 1] = e /\ \A k \in 1 .. n : t[k] = s[k]
    OBVIOUS
  <2>2. ASSUME NEW k \in 1 .. n PROVE s[k].amount \in Int
    <3>1. s[k] \in migration
      OBVIOUS
    <3> QED BY <3>1 DEF migration
  <2> QED BY <2>1, <2>2
<1>2. PICK f : /\ f = [k \in 0 .. n |-> IF k = 0 THEN 0 ELSE f[k - 1] + s[k].amount]
               /\ Total(s) = f[n]
  BY <1>1, TotalDef
<1>3. PICK g : /\ g = [k \in 0 .. n + 1 |-> IF k = 0 THEN 0 ELSE g[k - 1] + t[k].amount]
               /\ Total(t) = g[n + 1]
  <2> HIDE DEF t
  <2> QED BY <1>1, TotalDef
<1> HIDE DEF n, t
<1> DEFINE S == {m \in Nat : m <= n => f[m] \in Int /\ g[m] = f[m]}
<1>4. 0 \in S
  BY <1>1, <1>2, <1>3
<1>5. ASSUME NEW m \in Nat, m \in S PROVE m + 1 \in S
  <2> SUFFICES ASSUME m + 1 <= n PROVE f[m + 1] \in Int /\ g[m + 1] = f[m + 1]
    BY <1>1
  <2>1. f[m + 1] = f[m] + s[m + 1].amount
    BY <1>1, <1>2
  <2>2. g[m + 1] = g[m] + t[m + 1].amount
    BY <1>1, <1>3
  <2>3. t[m + 1] = s[m + 1] /\ s[m + 1].amount \in Int
    BY <1>1
  <2> QED BY <1>1, <1>5, <2>1, <2>2, <2>3
<1>6. n \in S
  <2> HIDE DEF S
  <2> QED BY <1>1, <1>4, <1>5, SetInduction
<1>7. f[n] \in Int /\ g[n] = f[n]
  BY <1>1, <1>6
<1>8. g[n + 1] = g[n] + e.amount
  <2>1. g[n + 1] = g[(n + 1) - 1] + t[n + 1].amount /\ (n + 1) - 1 = n
    BY <1>1, <1>3
  <2> QED BY <1>1, <2>1
<1>9. SubSeq(t, 1, Len(t) - 1) = s /\ t # << >>
  BY DEF t
<1> QED BY <1>2, <1>3, <1>7, <1>8, <1>9 DEF t

-----------------------------------------------------------------------------
(* The control of the thread: which step leads where *)
LEMMA Course ==
  ASSUME ActuatorInv, ActuatorStep
  PROVE  /\ \/ apc = "wait" /\ AwaitPressure
            \/ apc = "loop" /\ (sort_objects \/ ActuatorExit)
            \/ apc = "pressure" /\ (LetPeriodPass \/ NoPressure
                                    \/ \E at \in PlacedSomehow : StartDemotion(at))
            \/ apc = "demote" /\ (TestDemotion \/ EndDemotion)
            \/ apc = "send_demotion" /\ SendDemotion
            \/ apc = "sent_demotion" /\ StoreDemotion
            \/ apc = "flag" /\ (NoPromotion \/ \E at \in PlacedSomehow : StartPromotion(at))
            \/ apc = "promote" /\ (TestPromotion \/ EndPromotion)
            \/ apc = "send_promotion" /\ SendPromotion
            \/ apc = "sent_promotion" /\ StorePromotion
         /\ apc \in {"loop", "done"} \/ apc' = "loop" \/ g_key_value_list' = g_key_value_list
         /\ apc \in APC
  BY DEF ActuatorInv, ActuatorTypeOK, ActuatorStep, ActuatorReads, ActuatorActs,
         AwaitPressure, sort_objects, ActuatorExit, LetPeriodPass, NoPressure,
         StartDemotion, TestDemotion, EndDemotion, SendDemotion, StoreDemotion, NoPromotion,
         StartPromotion, TestPromotion, EndPromotion, SendPromotion, StorePromotion,
         EndPeriod, listVars

(* The fields of a list entry *)
LEMMA EntryFields ==
  ASSUME NEW e \in key_value
  PROVE  e.key \in Slots /\ e.value \in Int
  BY DEF key_value

(* qsort leaves the values in descending order. *)
LEMMA SortDescends ==
  ASSUME TierTypeOK, ActuatorInv, sort_objects
  PROVE  Descending'
<1>1. PICK n \in {0, total_obj} :
        \E reading \in [0 .. n - 1 -> Readings] :
        \E value \in {Values(reading, n)}, order \in Orders(n) :
          /\ Sorted(order, value)
          /\ g_curr_max' = Maxima(reading, n)[n]
          /\ g_key_value_list' =
               [p \in 1 .. n |-> [key |-> order[p], value |-> value[order[p]],
                                  trace |-> reading[order[p]]]]
  BY DEF sort_objects
<1>2. PICK reading \in [0 .. n - 1 -> Readings], order \in Orders(n) :
        /\ Sorted(order, Values(reading, n))
        /\ g_key_value_list' =
             [p \in 1 .. n |->
                [key |-> order[p], value |-> Values(reading, n)[order[p]],
                 trace |-> reading[order[p]]]]
  BY <1>1
<1> DEFINE value == Values(reading, n)
<1>3. /\ Sorted(order, value)
      /\ g_key_value_list' =
           [p \in 1 .. n |-> [key |-> order[p], value |-> value[order[p]],
                              trace |-> reading[order[p]]]]
  BY <1>2
<1> HIDE DEF value
<1>4. n \in Nat /\ DOMAIN order = 1 .. n
  BY TierAssumption DEF TierTypeOK, Orders
<1>5. g_key_value_list' \in Seq(key_value) /\ Len(g_key_value_list') = n
  <2>1. g_key_value_list' \in Seq(key_value)
    BY SortKeepsInv DEF ActuatorInv, ActuatorTypeOK
  <2>2. DOMAIN g_key_value_list' = 1 .. n
    BY <1>3
  <2> QED BY <1>4, <2>1, <2>2
<1> SUFFICES ASSUME NEW p \in 1 .. n, NEW q \in 1 .. n, p < q
             PROVE  g_key_value_list'[p].value >= g_key_value_list'[q].value
  BY <1>5 DEF Descending
<1>6. g_key_value_list'[p].value \in Int /\ g_key_value_list'[q].value \in Int
  <2>1. g_key_value_list'[p] \in key_value /\ g_key_value_list'[q] \in key_value
    BY <1>5
  <2> QED BY <2>1, EntryFields
<1>7. comp(value, order[p], order[q])
  BY <1>3, <1>4 DEF Sorted
<1>8. g_key_value_list'[p].value = value[order[p]] /\ g_key_value_list'[q].value = value[order[q]]
  BY <1>3
<1> QED BY <1>6, <1>7, <1>8 DEF comp

-----------------------------------------------------------------------------
(* The tables the actuator may start on *)
LEMMA TableType ==
  ASSUME NEW n \in 0 .. MAX_OBJECTS, Table(n), now \in Nat \ {0}
  PROVE  TierTypeOK /\ Recorded
<1>1. n \in Nat /\ CHUNK_SIZE \in Nat \ {0} /\ MAX_OBJECTS \in Nat
  BY TierAssumption
<1>2. \A i \in Nat : i * CHUNK_SIZE \in Nat /\ (i + 1) * CHUNK_SIZE \in Nat
  BY <1>1
<1>3. obj_vector \in [Slots -> object_t]
  <2>1. ASSUME NEW i \in Slots
        PROVE  (IF i < n
                THEN [start_addr |-> i * CHUNK_SIZE, end_addr |-> (i + 1) * CHUNK_SIZE,
                      size |-> CHUNK_SIZE, sliced |-> 1]
                ELSE [start_addr |-> NO_ADDR, end_addr |-> 0, size |-> 0, sliced |-> 0])
               \in object_t
    <3>1. i * CHUNK_SIZE \in Nat /\ (i + 1) * CHUNK_SIZE \in Nat
      BY <1>2 DEF Slots
    <3> QED BY <1>1, <3>1 DEF object_t
  <2> QED BY <2>1 DEF Table
<1>4. obj_alloc \in [Slots -> {0, 1}] /\ birth_date \in [Slots -> Nat]
  BY DEF Table
<1>5. last_decision \in [Slots -> {UNDECIDED, NODE_0_DRAM, NODE_0_PMEM}]
  BY DEF Table
<1>6. total_obj \in 0 .. MAX_OBJECTS /\ pipe \in Seq(data_bind_t)
  BY DEF Table
<1>7. TierTypeOK
  BY <1>3, <1>4, <1>5, <1>6 DEF TierTypeOK
<1>8. ASSUME NEW i \in Slots, i < total_obj
      PROVE  obj_vector[i].start_addr \in Nat /\ obj_vector[i].size \in Nat \ {0}
  <2>1. obj_vector[i].start_addr = i * CHUNK_SIZE /\ obj_vector[i].size = CHUNK_SIZE
    BY <1>8 DEF Table
  <2> QED BY <1>1, <1>2, <2>1 DEF Slots
<1> QED BY <1>7, <1>8 DEF Recorded

(* The initial states *)
LEMMA HistoryInvInit == Init => HistoryInv
<1> SUFFICES ASSUME Init PROVE HistoryInv
  OBVIOUS
<1>1. PICK start \in Starts : Table(start[1]) /\ now = start[2]
  BY DEF Init
<1>2. start[1] \in 0 .. MAX_OBJECTS /\ start[2] \in 1 .. MaxTime /\ MaxTime \in Nat
  BY HistoryAssumption, TierAssumption
<1>3. TierTypeOK /\ Recorded
  BY <1>1, <1>2, TableType
<1>4. ActuatorInv
  BY ActuatorInvInit DEF Init
<1>5. /\ demoted = << >> /\ promoted = << >> /\ since_demotion = 3 /\ apc = "wait"
      /\ grew = FALSE /\ placed = << >> /\ promoted_at = [i \in Slots |-> 0]
      /\ g_key_value_list = << >>
  BY DEF Init, HistoryInit, ActuatorInit
<1>6. HistoryTypeOK
  <2>1. << >> \in Seq(migration) /\ DOMAIN << >> = {} /\ FALSE \in BOOLEAN
    OBVIOUS
  <2>2. promoted_at \in [Slots -> Nat] /\ since_demotion \in 0 .. 3
    BY <1>5
  <2> QED BY <1>5, <2>1, <2>2, Zenon DEF HistoryTypeOK
<1>7. Waits /\ Restarted /\ Descending /\ Quiet /\ Tested
  BY <1>5 DEF Waits, Restarted, Descending, Quiet, Tested
<1>8. DemotedPassed /\ PromotedPassed /\ InTurn /\ Budget
  BY <1>5 DEF DemotedPassed, PromotedPassed, InTurn, Budget, WithinChunk
<1> QED BY <1>3, <1>4, <1>6, <1>7, <1>8 DEF HistoryInv

(* The surroundings add objects, release them, read the pipe, let time pass. *)
LEMMA SurroundingsKeep ==
  ASSUME HistoryInv, TierTypeOK', Recorded', UNCHANGED <<actuatorVars, history>>,
         total_obj' >= total_obj, now' >= now,
         \A i \in Slots : i < total_obj =>
           birth_date'[i] = birth_date[i] /\ obj_vector'[i].size = obj_vector[i].size
  PROVE  HistoryInv'
<1>1. /\ UNCHANGED <<apc, g_running_actuator, listVars, spacingVars, ai,
                     max_migration_gb, readings>>
      /\ UNCHANGED <<g_key_value_list, g_has_demotion, count, current_free_dram,
                     page_status>>
      /\ UNCHANGED <<demoted, promoted, grew, promoted_at, since_demotion, placed>>
  BY DEF actuatorVars, history, listVars, spacingVars, readings
<1>2. ActuatorInv'
  <2>1. g_running_actuator' \in BOOLEAN
    BY <1>1 DEF HistoryInv, ActuatorInv, ActuatorTypeOK
  <2> QED BY <1>1, <2>1, OthersKeepActuatorInv DEF HistoryInv
<1>3. HistoryTypeOK' /\ Waits' /\ Descending' /\ Quiet'
  BY <1>1 DEF HistoryInv, HistoryTypeOK, Waits, Descending, Quiet
<1>4. Restarted'
  <2>1. total_obj \in Int /\ total_obj' \in Int
    BY DEF HistoryInv, TierTypeOK
  <2> QED BY <1>1, <2>1, TierAssumption DEF HistoryInv, Restarted, Slots
<1>5. Tested'
  <2>1. CASE apc \notin Writing
    BY <1>1, <2>1 DEF Tested
  <2>2. CASE apc \in Writing
    <3>1. Entry.key \in Slots /\ Entry.key < total_obj
      BY <2>2, EntryType DEF HistoryInv, ActuatorInv, Position
    <3>2. Entry' = Entry
      BY <1>1 DEF Entry
    <3> QED BY <1>1, <3>1, <3>2 DEF HistoryInv, Tested, pmemAlloc
  <2> QED BY <2>1, <2>2
<1>6. DemotedPassed' /\ PromotedPassed' /\ InTurn' /\ Budget'
  BY <1>1 DEF HistoryInv, DemotedPassed, PromotedPassed, InTurn, Budget, WithinChunk
<1> QED BY <1>2, <1>3, <1>4, <1>5, <1>6 DEF HistoryInv

(* An object that appears gets the next slot. *)
LEMMA AppearEffect ==
  ASSUME TierTypeOK, Recorded, NEW size \in Sizes, Appear(size)
  PROVE  /\ TierTypeOK' /\ Recorded' /\ total_obj' = total_obj + 1 /\ total_obj \in Slots
         /\ obj_vector'[total_obj].size = size
         /\ \A i \in Slots : i # total_obj =>
              birth_date'[i] = birth_date[i] /\ obj_vector'[i] = obj_vector[i]
              /\ obj_alloc'[i] = obj_alloc[i]
         /\ UNCHANGED <<now, actuatorVars, history>>
<1> DEFINE o == [start_addr |-> total_obj * CHUNK_SIZE,
                 end_addr |-> total_obj * CHUNK_SIZE + size, size |-> size, sliced |-> 0]
<1>1. /\ size \in Nat \ {0} /\ CHUNK_SIZE \in Nat /\ MAX_OBJECTS \in Nat
      /\ total_obj \in 0 .. MAX_OBJECTS /\ total_obj < MAX_OBJECTS
  BY TierAssumption, HistoryAssumption DEF TierTypeOK, Appear
<1>2. total_obj \in Slots /\ total_obj * CHUNK_SIZE \in Nat
  BY <1>1 DEF Slots
<1>3. o \in object_t /\ o.size = size /\ o.start_addr \in Nat
  BY <1>1, <1>2 DEF object_t
<1>4. /\ obj_vector' = [obj_vector EXCEPT ![total_obj] = o]
      /\ obj_alloc' = [obj_alloc EXCEPT ![total_obj] = 1]
      /\ birth_date' = [birth_date EXCEPT ![total_obj] = now]
      /\ total_obj' = total_obj + 1
      /\ UNCHANGED <<last_decision, pipe, now, actuatorVars, history>>
  BY DEF Appear
<1> HIDE DEF o
<1>5. /\ obj_vector'[total_obj] = o
      /\ \A i \in Slots : i # total_obj =>
           birth_date'[i] = birth_date[i] /\ obj_vector'[i] = obj_vector[i]
           /\ obj_alloc'[i] = obj_alloc[i]
  BY <1>2, <1>4 DEF TierTypeOK
<1>6. TierTypeOK'
  BY <1>1, <1>2, <1>3, <1>4 DEF TierTypeOK
<1>7. Recorded'
  BY <1>1, <1>3, <1>4, <1>5 DEF Recorded, Slots
<1> QED BY <1>2, <1>3, <1>4, <1>5, <1>6, <1>7

(* What the application and the clock leave alone *)
LEMMA SurroundingsEffect ==
  ASSUME TierTypeOK, Recorded,
         \/ \E i \in Slots : Vanish(i)
         \/ PipeRead
         \/ Tick /\ UNCHANGED <<actuatorVars, history>>
         \/ UNCHANGED <<tierVars, actuatorVars, history>>
  PROVE  /\ TierTypeOK' /\ Recorded' /\ total_obj' = total_obj /\ now' >= now
         /\ \A i \in Slots : obj_alloc'[i] = 1 => obj_alloc[i] = 1
         /\ UNCHANGED <<birth_date, obj_vector, actuatorVars, history>>
<1>1. TierTypeOK' /\ now' >= now
  <2>1. pipe # << >> => Tail(pipe) \in Seq(data_bind_t)
    BY DEF TierTypeOK
  <2>2. CASE \E i \in Slots : Vanish(i)
    BY <2>2 DEF TierTypeOK, Vanish
  <2>3. CASE PipeRead
    BY <2>1, <2>3 DEF TierTypeOK, PipeRead
  <2>4. CASE Tick
    BY <2>4 DEF TierTypeOK, Tick
  <2>5. CASE UNCHANGED tierVars
    BY <2>5 DEF TierTypeOK, tierVars
  <2> QED BY <2>2, <2>3, <2>4, <2>5
<1>2. UNCHANGED <<birth_date, obj_vector, total_obj, actuatorVars, history>>
  BY DEF Vanish, PipeRead, Tick, tierVars
<1>3. \A i \in Slots : obj_alloc'[i] = 1 => obj_alloc[i] = 1
  BY DEF TierTypeOK, Vanish, PipeRead, Tick, tierVars
<1> QED BY <1>1, <1>2, <1>3 DEF Recorded

-----------------------------------------------------------------------------
(* A step of the actuator, with its history *)
LEMMA StepBase ==
  ASSUME HistoryInv, HistoryStep
  PROVE  /\ ActuatorStep /\ ActuatorInv' /\ TierTypeOK' /\ Recorded'
         /\ NoOrder \/ Demotes \/ Promotes \/ DemotionStored \/ PromotionStored
         /\ UNCHANGED <<obj_vector, obj_alloc, total_obj, now>>
<1>1. ActuatorStep
  BY DEF HistoryStep, ActuatorStep
<1>2. /\ ActuatorInv' /\ TierTypeOK'
      /\ NoOrder \/ Demotes \/ Promotes \/ DemotionStored \/ PromotionStored
  BY <1>1, ActuatorStepKeepsInv DEF HistoryInv
<1>3. UNCHANGED <<obj_vector, obj_alloc, total_obj, now>>
  BY <1>2 DEF NoOrder, tierVars, Demotes, Promotes, SentFor, DemotionStored,
              PromotionStored, StoredFor
<1>4. Recorded'
  BY <1>3 DEF HistoryInv, Recorded
<1> QED BY <1>1, <1>2, <1>3, <1>4

(* What a burst gains by an order *)
Sent(amount) == [entry |-> Entry, amount |-> amount]

(* A demotion extends its burst by the object it was for, with what it     *)
(* takes from max_migration_gb.                                            *)
LEMMA DemotionRecorded ==
  ASSUME HistoryInv, HistoryStep, apc = "sent_demotion"
  PROVE  /\ demoted' = Append(demoted, Sent(dramAlloc(Entry.key)))
         /\ Sent(dramAlloc(Entry.key)) \in migration
         /\ dramAlloc(Entry.key) \in Int /\ max_migration_gb \in Int
         /\ max_migration_gb' = max_migration_gb - dramAlloc(Entry.key)
         /\ ai' = (IF max_migration_gb' < 0 THEN 0 ELSE ai - 1)
         /\ ai \in 1 .. Len(g_key_value_list) /\ Len(g_key_value_list) \in Nat
         /\ apc' = "demote" /\ g_key_value_list' = g_key_value_list
         /\ promoted' = promoted /\ StoreDemotion
<1> DEFINE amount == dramAlloc(Entry.key)
<1>1. StoreDemotion /\ TierTypeOK /\ ActuatorInv
  BY StepBase, Course DEF HistoryInv
<1>2. ai \in 1 .. Len(g_key_value_list) /\ Len(g_key_value_list) \in Nat
  BY <1>1 DEF ActuatorInv, ActuatorTypeOK, Position
<1>3. Entry \in key_value /\ amount \in Int
  BY <1>1, <1>2, EntryType
<1>4. /\ max_migration_gb' = max_migration_gb - amount /\ apc' = "demote"
      /\ ai' = (IF max_migration_gb' < 0 THEN 0 ELSE ai - 1)
      /\ g_key_value_list' = g_key_value_list
  BY <1>1 DEF StoreDemotion, NextColdest, listVars
<1>5. max_migration_gb \in Int
  BY <1>1 DEF ActuatorInv, ActuatorTypeOK
<1> HIDE DEF amount
<1>6. max_migration_gb - max_migration_gb' = amount
  BY <1>3, <1>4, <1>5
<1>7. demoted' = Append(demoted, [entry |-> Entry, amount |-> amount])
  BY <1>4, <1>6 DEF HistoryStep, Extended
<1>8. [entry |-> Entry, amount |-> amount] \in migration
  BY <1>3 DEF migration
<1>9. promoted' = promoted
  BY <1>4 DEF HistoryStep, Extended
<1> QED BY <1>1, <1>2, <1>3, <1>4, <1>5, <1>7, <1>8, <1>9 DEF Sent, amount

(* So does a promotion. *)
LEMMA PromotionRecorded ==
  ASSUME HistoryInv, HistoryStep, apc = "sent_promotion"
  PROVE  /\ promoted' = Append(promoted, Sent(pmemAlloc(Entry.key)))
         /\ Sent(pmemAlloc(Entry.key)) \in migration
         /\ pmemAlloc(Entry.key) \in Int /\ max_migration_gb \in Int
         /\ max_migration_gb' = max_migration_gb - pmemAlloc(Entry.key)
         /\ ai' = (IF max_migration_gb' < 0 THEN Len(g_key_value_list) + 1 ELSE ai + 1)
         /\ ai \in 1 .. Len(g_key_value_list) /\ Len(g_key_value_list) \in Nat
         /\ apc' = "promote" /\ g_key_value_list' = g_key_value_list
         /\ demoted' = demoted /\ StorePromotion
<1> DEFINE amount == pmemAlloc(Entry.key)
<1>1. StorePromotion /\ TierTypeOK /\ ActuatorInv
  BY StepBase, Course DEF HistoryInv
<1>2. ai \in 1 .. Len(g_key_value_list) /\ Len(g_key_value_list) \in Nat
  BY <1>1 DEF ActuatorInv, ActuatorTypeOK, Position
<1>3. Entry \in key_value /\ amount \in Int
  BY <1>1, <1>2, EntryType
<1>4. /\ max_migration_gb' = max_migration_gb - amount /\ apc' = "promote"
      /\ ai' = (IF max_migration_gb' < 0 THEN Len(g_key_value_list) + 1 ELSE ai + 1)
      /\ g_key_value_list' = g_key_value_list
  BY <1>1 DEF StorePromotion, NextHottest, listVars
<1>5. max_migration_gb \in Int
  BY <1>1 DEF ActuatorInv, ActuatorTypeOK
<1> HIDE DEF amount
<1>6. max_migration_gb - max_migration_gb' = amount
  BY <1>3, <1>4, <1>5
<1>7. promoted' = Append(promoted, [entry |-> Entry, amount |-> amount])
  BY <1>4, <1>6 DEF HistoryStep, Extended
<1>8. [entry |-> Entry, amount |-> amount] \in migration
  BY <1>3 DEF migration
<1>9. demoted' = demoted
  BY <1>4 DEF HistoryStep, Extended
<1> QED BY <1>1, <1>2, <1>3, <1>4, <1>5, <1>7, <1>8, <1>9 DEF Sent, amount

(* The bursts change when a decision is stored and at the end of a period. *)
LEMMA BurstsOtherwise ==
  ASSUME HistoryStep
  PROVE  /\ apc' = "loop" => demoted' = << >> /\ promoted' = << >>
         /\ apc' # "loop" /\ apc # "sent_demotion" => demoted' = demoted
         /\ apc' # "loop" /\ apc # "sent_promotion" => promoted' = promoted
  BY DEF HistoryStep, Extended

(* The history keeps its types. *)
LEMMA StepHistoryType ==
  ASSUME HistoryInv, HistoryStep
  PROVE  HistoryTypeOK'
<1>1. demoted \in Seq(migration) /\ promoted \in Seq(migration) /\ << >> \in Seq(migration)
  BY DEF HistoryInv, HistoryTypeOK
<1>2. demoted' \in Seq(migration)
  <2>1. CASE apc' = "loop" \/ apc # "sent_demotion"
    BY <1>1, <2>1, BurstsOtherwise
  <2>2. CASE apc = "sent_demotion"
    <3> DEFINE m == Sent(dramAlloc(Entry.key))
    <3>1. demoted' = Append(demoted, m) /\ m \in migration
      BY <2>2, DemotionRecorded
    <3> HIDE DEF m
    <3> QED BY <1>1, <3>1
  <2> QED BY <2>1, <2>2
<1>3. promoted' \in Seq(migration)
  <2>1. CASE apc' = "loop" \/ apc # "sent_promotion"
    BY <1>1, <2>1, BurstsOtherwise
  <2>2. CASE apc = "sent_promotion"
    <3> DEFINE m == Sent(pmemAlloc(Entry.key))
    <3>1. promoted' = Append(promoted, m) /\ m \in migration
      BY <2>2, PromotionRecorded
    <3> HIDE DEF m
    <3> QED BY <1>1, <3>1
  <2> QED BY <2>1, <2>2
<1>4. grew' \in BOOLEAN
  BY Zenon DEF HistoryInv, HistoryTypeOK, HistoryStep
<1>5. promoted_at' \in [Slots -> Nat]
  <2>1. now \in Nat /\ promoted_at \in [Slots -> Nat]
    BY DEF HistoryInv, TierTypeOK, HistoryTypeOK
  <2> QED BY <2>1 DEF HistoryStep
<1>6. since_demotion' \in 0 .. 3
  BY DEF HistoryInv, HistoryTypeOK, HistoryStep
<1>7. \A i \in DOMAIN placed' : i \in Slots /\ placed'[i] \in Placements
  <2>1. CASE \E at \in PlacedSomehow : placed' = at
    <3>1. PICK at \in PlacedSomehow : placed' = at
      BY <2>1
    <3>2. total_obj \in Nat /\ total_obj <= MAX_OBJECTS /\ MAX_OBJECTS \in Nat
      BY TierAssumption DEF HistoryInv, TierTypeOK
    <3> QED BY <3>1, <3>2 DEF PlacedSomehow, Slots
  <2>2. CASE placed' = << >>
    BY <2>2
  <2>3. CASE placed' = placed
    BY <2>3 DEF HistoryInv, HistoryTypeOK
  <2> QED BY <2>1, <2>2, <2>3 DEF HistoryStep
<1> QED BY <1>2, <1>3, <1>4, <1>5, <1>6, <1>7 DEF HistoryTypeOK

(* The wait after a demotion *)
LEMMA StepWaits ==
  ASSUME HistoryInv, HistoryStep
  PROVE  Waits'
<1>1. /\ ActuatorInv /\ ActuatorStep /\ since_demotion \in 0 .. 3 /\ count \in 0 .. 2
      /\ g_has_demotion \in {0, 1}
      /\ since_demotion' = IF apc = "send_demotion" THEN 0
                           ELSE IF apc = "loop" /\ since_demotion < 3
                           THEN since_demotion + 1 ELSE since_demotion
  BY StepBase DEF HistoryInv, HistoryTypeOK, ActuatorInv, ActuatorTypeOK, HistoryStep
<1>2. Waits /\ Spaced
  BY DEF HistoryInv, ActuatorInv
<1> USE DEF spacingVars
<1>3. CASE apc \in {"wait", "loop"}
  BY <1>1, <1>2, <1>3, Course
     DEF Waits, Spaced, AwaitPressure, sort_objects, ActuatorExit
<1>4. CASE apc = "pressure"
  BY <1>1, <1>2, <1>4, Course
     DEF Waits, Spaced, LetPeriodPass, Waited, NoPressure, StartDemotion
<1>5. CASE apc \in Demoting
  BY <1>1, <1>2, <1>5, Course
     DEF Waits, TestDemotion, EndDemotion, CountAfterDemotion, SendDemotion, StoreDemotion,
         StoreDemotion
<1>6. CASE apc \in {"flag"} \cup Promoting
  BY <1>1, <1>2, <1>6, Course
     DEF Waits, NoPromotion, EndPeriod, StartPromotion, TestPromotion, EndPromotion,
         SendPromotion, StorePromotion
<1> QED BY <1>1, <1>3, <1>4, <1>5, <1>6, Course

(* A promotion restarts birth_date. *)
LEMMA StepRestarted ==
  ASSUME HistoryInv, HistoryStep
  PROVE  Restarted'
<1>1. /\ UNCHANGED <<total_obj, now>> /\ promoted_at \in [Slots -> Nat]
      /\ birth_date \in [Slots -> Nat] /\ Restarted
  BY StepBase DEF HistoryInv, HistoryTypeOK, TierTypeOK
<1>2. CASE apc = "sent_promotion"
  <2>1. /\ StoredFor(Entry.key, NODE_0_DRAM)
        /\ birth_date' = [birth_date EXCEPT ![Entry.key] = now]
    BY <1>2, StepBase DEF NoOrder, Demotes, Promotes, DemotionStored, PromotionStored
  <2>2. /\ Entry.key \in Slots /\ Entry.key < total_obj
        /\ promoted_at' = [promoted_at EXCEPT ![Entry.key] = now]
    BY <1>2, <2>1 DEF StoredFor, HistoryStep
  <2> QED BY <1>1, <2>1, <2>2 DEF Restarted
<1>3. CASE apc # "sent_promotion"
  <2>1. promoted_at' = promoted_at
    BY <1>3 DEF HistoryStep
  <2>2. birth_date' = birth_date
    BY <1>3, StepBase DEF NoOrder, tierVars, Demotes, Promotes, SentFor, DemotionStored,
       PromotionStored
  <2> QED BY <1>1, <2>1, <2>2 DEF Restarted
<1> QED BY <1>2, <1>3

(* The list stays sorted until it is forgotten. *)
LEMMA StepDescending ==
  ASSUME HistoryInv, HistoryStep
  PROVE  Descending' /\ Quiet'
<1>1. ActuatorInv /\ ActuatorStep /\ TierTypeOK /\ Quiet /\ Descending
  BY StepBase DEF HistoryInv
<1>2. Descending'
  <2>1. CASE sort_objects
    BY <1>1, <2>1, SortDescends
  <2>2. CASE ~sort_objects
    <3>1. g_key_value_list' \in {g_key_value_list, << >>}
      BY <1>1, <2>2, Course DEF ActuatorExit, AwaitPressure, NoPromotion, EndPromotion,
           EndPeriod, listVars, TestPromotion, StartPromotion, SendPromotion, StorePromotion,
           ActuatorStep, ActuatorReads, ActuatorActs, LetPeriodPass, NoPressure,
           StartDemotion, TestDemotion, EndDemotion, SendDemotion, StoreDemotion
    <3> QED BY <1>1, <3>1 DEF Descending
  <2> QED BY <2>1, <2>2
<1>3. Quiet'
  BY <1>1, Course, BurstsOtherwise
     DEF Quiet, AwaitPressure, sort_objects, ActuatorExit, LetPeriodPass, NoPressure,
         StartDemotion, TestDemotion, EndDemotion, SendDemotion, StoreDemotion, NoPromotion,
         StartPromotion, TestPromotion, EndPromotion, SendPromotion, StorePromotion,
         EndPeriod
<1> QED BY <1>2, <1>3

(* An order that is being written has passed the test of its policy. *)
LEMMA StepTested ==
  ASSUME HistoryInv, HistoryStep
  PROVE  Tested'
<1>1. /\ ActuatorInv /\ ActuatorStep /\ UNCHANGED <<obj_vector, total_obj>>
  BY StepBase DEF HistoryInv
<1>2. CASE TestDemotion
  BY <1>2 DEF TestDemotion, Demotable, Tested, Entry, listVars
<1>3. CASE TestPromotion
  BY <1>1, <1>3 DEF TestPromotion, Promotable, Tested, Entry, listVars, readings, pmemAlloc
<1>4. CASE SendDemotion \/ SendPromotion
  BY <1>1, <1>4 DEF SendDemotion, SendPromotion, HistoryInv, Tested, Entry, listVars,
     readings, pmemAlloc
<1>5. CASE ~(TestDemotion \/ TestPromotion) /\ ~(SendDemotion \/ SendPromotion)
  BY <1>1, <1>5, Course
     DEF Tested, AwaitPressure, sort_objects, ActuatorExit, LetPeriodPass, NoPressure,
         StartDemotion, EndDemotion, StoreDemotion, NoPromotion, StartPromotion,
         EndPromotion, StorePromotion, EndPeriod
<1> QED BY <1>2, <1>3, <1>4, <1>5

(* How the loop variable moves within a policy *)
LEMMA LoopMoves ==
  ASSUME ActuatorInv, ActuatorStep
  PROVE  /\ apc' \in Demoting =>
              apc = "pressure" \/ (apc \in Demoting /\ ai' <= ai)
         /\ apc' \in Promoting =>
              apc = "flag" \/ (apc \in Promoting /\ ai' >= ai)
<1>1. ai \in Int /\ Len(g_key_value_list) \in Nat /\ ai \in 0 .. Len(g_key_value_list) + 1
  BY DEF ActuatorInv, ActuatorTypeOK
<1>2. apc = "sent_promotion" => ai <= Len(g_key_value_list)
  BY DEF ActuatorInv, Position
<1> QED BY <1>1, <1>2, Course
        DEF AwaitPressure, sort_objects, ActuatorExit, LetPeriodPass, NoPressure,
            StartDemotion, TestDemotion, EndDemotion, SendDemotion, StoreDemotion, NextColdest,
            NoPromotion, StartPromotion, TestPromotion, EndPromotion, SendPromotion,
            StorePromotion, NextHottest, EndPeriod

(* The last element of an extended burst, and those before it *)
LEMMA AppendedBurst ==
  ASSUME NEW s \in Seq(migration), NEW m \in migration
  PROVE  /\ Len(Append(s, m)) = Len(s) + 1 /\ Len(s) \in Nat
         /\ \A j \in 1 .. Len(Append(s, m)) :
              \/ j = Len(s) + 1 /\ Append(s, m)[j] = m
              \/ j \in 1 .. Len(s) /\ Append(s, m)[j] = s[j]
  OBVIOUS

(* policy_demotion goes down the list, so that its orders lie behind ai; *)
LEMMA StepDemotedPassed ==
  ASSUME HistoryInv, HistoryStep
  PROVE  DemotedPassed'
<1>1. /\ ActuatorInv /\ ActuatorStep /\ Quiet /\ DemotedPassed
      /\ demoted \in Seq(migration)
  BY StepBase DEF HistoryInv, HistoryTypeOK
<1>2. CASE apc' = "loop"
  <2>1. demoted' = << >> /\ Len(<< >>) = 0
    BY <1>2, BurstsOtherwise
  <2> QED BY <2>1 DEF DemotedPassed
<1>3. CASE apc' # "loop" /\ apc # "sent_demotion"
  <2>1. demoted' = demoted
    BY <1>3, BurstsOtherwise
  <2>2. CASE demoted = << >>
    BY <2>1, <2>2 DEF DemotedPassed
  <2>3. CASE demoted # << >>
    <3>1. apc \notin {"wait", "loop", "pressure", "done"}
      BY <1>1, <2>3 DEF Quiet
    <3>2. g_key_value_list' = g_key_value_list
      BY <1>1, <1>3, <3>1, Course
    <3>3. ai \in Int /\ ai' \in Int /\ Len(g_key_value_list) \in Nat
      BY <1>1, StepBase DEF ActuatorInv, ActuatorTypeOK
    <3>4. apc' \in Demoting => apc \in Demoting /\ ai' <= ai
      BY <1>1, <3>1, LoopMoves
    <3>5. \A p \in 1 .. Len(g_key_value_list) : p \in Int
      BY <3>3
    <3> QED BY <1>1, <2>1, <3>2, <3>3, <3>4, <3>5 DEF DemotedPassed
  <2> QED BY <2>2, <2>3
<1>4. CASE apc = "sent_demotion"
  <2> DEFINE m == Sent(dramAlloc(Entry.key))
  <2>1. /\ demoted' = Append(demoted, m) /\ m \in migration
        /\ g_key_value_list' = g_key_value_list
        /\ ai' \in {0, ai - 1} /\ ai \in 1 .. Len(g_key_value_list)
        /\ Len(g_key_value_list) \in Nat /\ apc' = "demote"
    BY <1>4, DemotionRecorded
  <2>2. m.entry = Entry
    BY DEF Sent
  <2>3. Entry.value < HOTNESS /\ Entry = g_key_value_list[ai]
    BY <1>4 DEF HistoryInv, Tested, Entry
  <2> HIDE DEF m
  <2> SUFFICES ASSUME NEW j \in 1 .. Len(demoted')
               PROVE  /\ demoted'[j].entry.value < HOTNESS
                      /\ \E p \in 1 .. Len(g_key_value_list) :
                           demoted'[j].entry = g_key_value_list[p] /\ p > ai'
    BY <2>1 DEF DemotedPassed
  <2>4. \/ j = Len(demoted) + 1 /\ demoted'[j] = m
        \/ j \in 1 .. Len(demoted) /\ demoted'[j] = demoted[j]
    BY <1>1, <2>1, AppendedBurst
  <2>5. CASE demoted'[j] = m
    BY <2>1, <2>2, <2>3, <2>5
  <2>6. CASE j \in 1 .. Len(demoted) /\ demoted'[j] = demoted[j]
    BY <1>1, <1>4, <2>1, <2>6 DEF DemotedPassed
  <2> QED BY <2>4, <2>5, <2>6
<1> QED BY <1>2, <1>3, <1>4

(* policy_promotion goes up, and they lie before it. *)
LEMMA StepPromotedPassed ==
  ASSUME HistoryInv, HistoryStep
  PROVE  PromotedPassed'
<1>1. /\ ActuatorInv /\ ActuatorStep /\ Quiet /\ PromotedPassed
      /\ promoted \in Seq(migration)
  BY StepBase DEF HistoryInv, HistoryTypeOK
<1>2. CASE apc' = "loop"
  <2>1. promoted' = << >> /\ Len(<< >>) = 0
    BY <1>2, BurstsOtherwise
  <2> QED BY <2>1 DEF PromotedPassed
<1>3. CASE apc' # "loop" /\ apc # "sent_promotion"
  <2>1. promoted' = promoted
    BY <1>3, BurstsOtherwise
  <2>2. CASE promoted = << >>
    BY <2>1, <2>2 DEF PromotedPassed
  <2>3. CASE promoted # << >>
    <3>1. apc \in {"promote", "send_promotion"}
      BY <1>1, <1>3, <2>3 DEF Quiet
    <3>2. g_key_value_list' = g_key_value_list
      BY <1>1, <1>3, <3>1, Course
    <3>3. ai \in Int /\ ai' \in Int /\ Len(g_key_value_list) \in Nat
      BY <1>1, StepBase DEF ActuatorInv, ActuatorTypeOK
    <3>4. ai' >= ai
      BY <1>1, <1>3, <3>1, <3>3, Course, LoopMoves
         DEF TestPromotion, EndPromotion, EndPeriod, SendPromotion
    <3>5. \A p \in 1 .. Len(g_key_value_list) : p \in Int
      BY <3>3
    <3> QED BY <1>1, <2>1, <3>2, <3>3, <3>4, <3>5 DEF PromotedPassed
  <2> QED BY <2>2, <2>3
<1>4. CASE apc = "sent_promotion"
  <2> DEFINE m == Sent(pmemAlloc(Entry.key))
  <2>1. /\ promoted' = Append(promoted, m) /\ m \in migration
        /\ g_key_value_list' = g_key_value_list
        /\ ai' \in {Len(g_key_value_list) + 1, ai + 1} /\ ai \in 1 .. Len(g_key_value_list)
        /\ Len(g_key_value_list) \in Nat
    BY <1>4, PromotionRecorded
  <2>2. m.entry = Entry
    BY DEF Sent
  <2>3. Entry.value > HOTNESS /\ Entry = g_key_value_list[ai]
    BY <1>4 DEF HistoryInv, Tested, Entry
  <2> HIDE DEF m
  <2> SUFFICES ASSUME NEW j \in 1 .. Len(promoted')
               PROVE  /\ promoted'[j].entry.value > HOTNESS
                      /\ \E p \in 1 .. Len(g_key_value_list) :
                           promoted'[j].entry = g_key_value_list[p] /\ p < ai'
    BY <2>1 DEF PromotedPassed
  <2>4. \/ j = Len(promoted) + 1 /\ promoted'[j] = m
        \/ j \in 1 .. Len(promoted) /\ promoted'[j] = promoted[j]
    BY <1>1, <2>1, AppendedBurst
  <2>5. CASE promoted'[j] = m
    BY <2>1, <2>2, <2>3, <2>5
  <2>6. CASE j \in 1 .. Len(promoted) /\ promoted'[j] = promoted[j]
    BY <1>1, <1>4, <2>1, <2>6 DEF PromotedPassed
  <2> QED BY <2>4, <2>5, <2>6
<1> QED BY <1>2, <1>3, <1>4

(* Two positions of the list are two objects, in the order of their values. *)
LEMMA Positions ==
  ASSUME HistoryInv,
         NEW p \in 1 .. Len(g_key_value_list), NEW q \in 1 .. Len(g_key_value_list), p < q
  PROVE  /\ g_key_value_list[p].key # g_key_value_list[q].key
         /\ g_key_value_list[p].value >= g_key_value_list[q].value
  BY DEF HistoryInv, Descending, ActuatorInv, Listed

(* The orders of a burst are therefore in the order of the list. *)
LEMMA StepInTurn ==
  ASSUME HistoryInv, HistoryStep
  PROVE  InTurn'
<1>1. /\ demoted \in Seq(migration) /\ promoted \in Seq(migration) /\ InTurn
      /\ DemotedPassed /\ PromotedPassed
  BY DEF HistoryInv, HistoryTypeOK
<1>2. ASSUME NEW j \in 1 .. Len(demoted'), NEW k \in 1 .. Len(demoted'), j < k
      PROVE  /\ demoted'[j].entry.key # demoted'[k].entry.key
             /\ demoted'[j].entry.value <= demoted'[k].entry.value
  <2>1. CASE apc' = "loop"
    BY <1>2, <2>1, BurstsOtherwise
  <2>2. CASE apc' # "loop" /\ apc # "sent_demotion"
    BY <1>1, <1>2, <2>2, BurstsOtherwise DEF InTurn
  <2>3. CASE apc = "sent_demotion"
    <3> DEFINE m == Sent(dramAlloc(Entry.key))
    <3>1. /\ demoted' = Append(demoted, m) /\ m \in migration
          /\ ai \in 1 .. Len(g_key_value_list) /\ Len(g_key_value_list) \in Nat
      BY <2>3, DemotionRecorded
    <3>2. m.entry = g_key_value_list[ai]
      BY DEF Sent, Entry
    <3> HIDE DEF m
    <3>3. /\ Len(demoted) \in Nat /\ Len(demoted') = Len(demoted) + 1
          /\ \A i \in 1 .. Len(demoted') :
               \/ i = Len(demoted) + 1 /\ demoted'[i] = m
               \/ i \in 1 .. Len(demoted) /\ demoted'[i] = demoted[i]
      BY <1>1, <3>1, AppendedBurst
    <3>4. j \in 1 .. Len(demoted) /\ demoted'[j] = demoted[j]
      BY <1>2, <3>3
    <3>5. CASE k \in 1 .. Len(demoted) /\ demoted'[k] = demoted[k]
      BY <1>1, <1>2, <3>4, <3>5 DEF InTurn
    <3>6. CASE demoted'[k] = m
      <4>1. PICK p \in 1 .. Len(g_key_value_list) :
              demoted[j].entry = g_key_value_list[p] /\ p > ai
        BY <1>1, <2>3, <3>4 DEF DemotedPassed
      <4>2. ai < p
        BY <3>1, <4>1
      <4>3. /\ g_key_value_list[ai].key # g_key_value_list[p].key
            /\ g_key_value_list[ai].value >= g_key_value_list[p].value
        BY <3>1, <4>2, Positions
      <4>4. g_key_value_list[ai].value \in Int /\ g_key_value_list[p].value \in Int
        <5>1. g_key_value_list[ai] \in key_value /\ g_key_value_list[p] \in key_value
          BY <3>1, <4>1 DEF HistoryInv, ActuatorInv, ActuatorTypeOK
        <5> QED BY <5>1, EntryFields
      <4> QED BY <3>2, <3>4, <3>6, <4>1, <4>3, <4>4
    <3> QED BY <3>3, <3>5, <3>6
  <2> QED BY <2>1, <2>2, <2>3
<1>3. ASSUME NEW j \in 1 .. Len(promoted'), NEW k \in 1 .. Len(promoted'), j < k
      PROVE  /\ promoted'[j].entry.key # promoted'[k].entry.key
             /\ promoted'[j].entry.value >= promoted'[k].entry.value
  <2>1. CASE apc' = "loop"
    BY <1>3, <2>1, BurstsOtherwise
  <2>2. CASE apc' # "loop" /\ apc # "sent_promotion"
    BY <1>1, <1>3, <2>2, BurstsOtherwise DEF InTurn
  <2>3. CASE apc = "sent_promotion"
    <3> DEFINE m == Sent(pmemAlloc(Entry.key))
    <3>1. /\ promoted' = Append(promoted, m) /\ m \in migration
          /\ ai \in 1 .. Len(g_key_value_list) /\ Len(g_key_value_list) \in Nat
      BY <2>3, PromotionRecorded
    <3>2. m.entry = g_key_value_list[ai]
      BY DEF Sent, Entry
    <3> HIDE DEF m
    <3>3. /\ Len(promoted) \in Nat /\ Len(promoted') = Len(promoted) + 1
          /\ \A i \in 1 .. Len(promoted') :
               \/ i = Len(promoted) + 1 /\ promoted'[i] = m
               \/ i \in 1 .. Len(promoted) /\ promoted'[i] = promoted[i]
      BY <1>1, <3>1, AppendedBurst
    <3>4. j \in 1 .. Len(promoted) /\ promoted'[j] = promoted[j]
      BY <1>3, <3>3
    <3>5. CASE k \in 1 .. Len(promoted) /\ promoted'[k] = promoted[k]
      BY <1>1, <1>3, <3>4, <3>5 DEF InTurn
    <3>6. CASE promoted'[k] = m
      <4>1. PICK p \in 1 .. Len(g_key_value_list) :
              promoted[j].entry = g_key_value_list[p] /\ p < ai
        BY <1>1, <3>4 DEF PromotedPassed
      <4>2. /\ g_key_value_list[p].key # g_key_value_list[ai].key
            /\ g_key_value_list[p].value >= g_key_value_list[ai].value
        BY <3>1, <4>1, Positions
      <4> QED BY <3>2, <3>4, <3>6, <4>1, <4>2
    <3> QED BY <3>3, <3>5, <3>6
  <2> QED BY <2>1, <2>2, <2>3
<1> QED BY <1>2, <1>3 DEF InTurn

(* What is left of the chunk *)
LEMMA StepBudget ==
  ASSUME HistoryInv, HistoryStep
  PROVE  Budget'
<1>1. /\ demoted \in Seq(migration) /\ promoted \in Seq(migration)
      /\ ActuatorInv /\ ActuatorStep /\ Budget /\ Quiet
  BY StepBase DEF HistoryInv, HistoryTypeOK
<1>2. /\ Chunk \in Nat /\ max_migration_gb \in Int /\ Len(g_key_value_list) \in Nat
      /\ ai \in 0 .. Len(g_key_value_list) + 1 /\ current_free_dram \in Int
  BY <1>1, TierAssumption, ActuatorAssumption DEF Chunk, ActuatorInv, ActuatorTypeOK
<1>3. CASE apc = "sent_demotion"
  <2> DEFINE m == Sent(dramAlloc(Entry.key))
  <2>1. /\ demoted' = Append(demoted, m) /\ m \in migration
        /\ dramAlloc(Entry.key) \in Int
        /\ max_migration_gb' = max_migration_gb - dramAlloc(Entry.key)
        /\ ai' = (IF max_migration_gb' < 0 THEN 0 ELSE ai - 1)
        /\ apc' = "demote" /\ promoted' = promoted /\ ai >= 1
    BY <1>2, <1>3, DemotionRecorded
  <2>2. m.amount = dramAlloc(Entry.key)
    BY DEF Sent
  <2> HIDE DEF m
  <2>3. /\ Total(demoted) \in Int /\ Total(demoted') = Total(demoted) + dramAlloc(Entry.key)
        /\ SubSeq(demoted', 1, Len(demoted') - 1) = demoted
    BY <1>1, <2>1, <2>2, TotalAppend
  <2>4. Total(demoted) + max_migration_gb = Chunk /\ max_migration_gb >= 0
    BY <1>1, <1>2, <1>3, <2>1 DEF Budget
  <2>5. WithinChunk(demoted)' /\ WithinChunk(promoted)'
    <3>1. Total(demoted) <= Chunk
      BY <1>2, <2>3, <2>4
    <3>2. WithinChunk(demoted)'
      BY <2>3, <3>1 DEF WithinChunk, Chunk
    <3>3. WithinChunk(promoted)'
      BY <1>1, <2>1 DEF Budget, WithinChunk, Chunk
    <3> QED BY <3>2, <3>3
  <2>6. Total(demoted') + max_migration_gb' = Chunk /\ (ai' > 0 => max_migration_gb' >= 0)
    BY <1>2, <2>1, <2>3, <2>4
  <2> QED BY <2>1, <2>5, <2>6 DEF Budget, Chunk
<1>4. CASE apc = "sent_promotion"
  <2> DEFINE m == Sent(pmemAlloc(Entry.key))
  <2>1. /\ promoted' = Append(promoted, m) /\ m \in migration
        /\ pmemAlloc(Entry.key) \in Int
        /\ max_migration_gb' = max_migration_gb - pmemAlloc(Entry.key)
        /\ ai' = (IF max_migration_gb' < 0 THEN Len(g_key_value_list) + 1 ELSE ai + 1)
        /\ apc' = "promote" /\ demoted' = demoted /\ ai <= Len(g_key_value_list)
        /\ g_key_value_list' = g_key_value_list /\ current_free_dram' = current_free_dram
    BY <1>2, <1>4, PromotionRecorded DEF StorePromotion, readings
  <2>2. m.amount = pmemAlloc(Entry.key) /\ pmemAlloc(Entry.key) < current_free_dram
    BY <1>4 DEF Sent, HistoryInv, Tested
  <2> HIDE DEF m
  <2>3. /\ Total(promoted) \in Int /\ Total(promoted') = Total(promoted) + pmemAlloc(Entry.key)
        /\ SubSeq(promoted', 1, Len(promoted') - 1) = promoted
    BY <1>1, <2>1, <2>2, TotalAppend
  <2>4. Total(promoted) + max_migration_gb = Chunk /\ max_migration_gb >= 0
    BY <1>1, <1>2, <1>4, <2>1 DEF Budget
  <2>5. WithinChunk(demoted)' /\ WithinChunk(promoted)'
    <3>1. Total(promoted) <= Chunk
      BY <1>2, <2>3, <2>4
    <3>2. WithinChunk(promoted)'
      BY <2>3, <3>1 DEF WithinChunk, Chunk
    <3>3. WithinChunk(demoted)'
      BY <1>1, <2>1 DEF Budget, WithinChunk, Chunk
    <3> QED BY <3>2, <3>3
  <2>6. /\ Total(promoted') + max_migration_gb' = Chunk
        /\ ai' <= Len(g_key_value_list) => max_migration_gb' >= 0
        /\ Total(promoted') < current_free_dram + Chunk
    <3> DEFINE amount == pmemAlloc(Entry.key)
               before == Total(promoted)
    <3>1. /\ amount \in Int /\ before \in Int /\ Total(promoted') = before + amount
          /\ max_migration_gb' = max_migration_gb - amount /\ amount < current_free_dram
          /\ before + max_migration_gb = Chunk
      BY <2>1, <2>2, <2>3, <2>4
    <3>2. ai' <= Len(g_key_value_list) => ~(max_migration_gb' < 0)
      BY <1>2, <2>1
    <3> HIDE DEF amount, before
    <3>3. Total(promoted') + max_migration_gb' = Chunk
      BY <1>2, <3>1
    <3>4. Total(promoted') < current_free_dram + Chunk
      BY <1>2, <2>4, <3>1
    <3>5. ai' <= Len(g_key_value_list) => max_migration_gb' >= 0
      BY <1>2, <3>1, <3>2
    <3> QED BY <3>3, <3>4, <3>5
  <2> QED BY <2>1, <2>5, <2>6 DEF Budget, Chunk
<1>5. CASE apc \notin {"sent_demotion", "sent_promotion"}
  <2>1. WithinChunk(demoted)' /\ WithinChunk(promoted)'
    BY <1>1, <1>5, BurstsOtherwise DEF Budget, WithinChunk, Chunk
  <2>2. CASE apc' \notin Demoting \cup Promoting
    BY <2>1, <2>2 DEF Budget
  <2>3. CASE \E at \in PlacedSomehow : StartDemotion(at)
    <3>1. /\ apc' = "demote" /\ max_migration_gb' = Chunk /\ demoted' = << >>
      BY <1>1, <1>5, <2>3, BurstsOtherwise DEF StartDemotion, Quiet, Chunk
    <3> QED BY <1>2, <2>1, <3>1, TotalEmpty DEF Budget, Chunk
  <2>4. CASE \E at \in PlacedSomehow : StartPromotion(at)
    <3>1. /\ apc' = "promote" /\ max_migration_gb' = Chunk /\ promoted' = << >>
      BY <1>1, <1>5, <2>4, BurstsOtherwise DEF StartPromotion, Quiet, Chunk
    <3> QED BY <1>2, <2>1, <3>1, TotalEmpty DEF Budget, Chunk
  <2>5. CASE TestDemotion \/ SendDemotion
    <3>1. /\ apc \in Demoting /\ ai > 0 /\ apc' \in Demoting
          /\ max_migration_gb' = max_migration_gb /\ demoted' = demoted
      BY <1>1, <1>2, <2>5, BurstsOtherwise
         DEF TestDemotion, SendDemotion, ActuatorInv, Position
    <3> QED BY <1>1, <2>1, <3>1 DEF Budget, Chunk
  <2>6. CASE TestPromotion \/ SendPromotion
    <3>1. /\ apc \in Promoting /\ ai <= Len(g_key_value_list)
          /\ apc' \in Promoting
          /\ max_migration_gb' = max_migration_gb /\ promoted' = promoted
          /\ current_free_dram' = current_free_dram
      BY <1>1, <1>2, <2>6, BurstsOtherwise
         DEF TestPromotion, SendPromotion, readings, ActuatorInv, Position
    <3> QED BY <1>1, <2>1, <3>1 DEF Budget, Chunk
  <2> QED BY <1>1, <1>5, <2>2, <2>3, <2>4, <2>5, <2>6, Course
          DEF AwaitPressure, sort_objects, ActuatorExit, LetPeriodPass, NoPressure,
              EndDemotion, NoPromotion, EndPromotion, EndPeriod
<1> QED BY <1>3, <1>4, <1>5

(* Every step keeps the invariant. *)
LEMMA HistoryInvNext ==
  HistoryInv /\ [Next]_<<tierVars, actuatorVars, history>> => HistoryInv'
<1> SUFFICES ASSUME HistoryInv, [Next]_<<tierVars, actuatorVars, history>>
             PROVE  HistoryInv'
  OBVIOUS
<1>1. TierTypeOK /\ Recorded
  BY DEF HistoryInv
<1>2. CASE HistoryStep
  BY <1>2, StepBase, StepHistoryType, StepWaits, StepRestarted, StepDescending,
     StepTested, StepDemotedPassed, StepPromotedPassed, StepInTurn, StepBudget
     DEF HistoryInv
<1>3. CASE \E size \in Sizes : Appear(size)
  <2>1. /\ TierTypeOK' /\ Recorded' /\ total_obj' = total_obj + 1
        /\ total_obj \in Slots /\ now' = now
        /\ \A i \in Slots : i # total_obj =>
             birth_date'[i] = birth_date[i] /\ obj_vector'[i] = obj_vector[i]
        /\ UNCHANGED <<actuatorVars, history>>
    BY <1>1, <1>3, AppearEffect
  <2>2. total_obj' >= total_obj /\ now' >= now
    BY <1>1, <2>1 DEF TierTypeOK, Slots
  <2>3. \A i \in Slots : i < total_obj => i # total_obj
    BY <2>1 DEF Slots
  <2> QED BY <2>1, <2>2, <2>3, SurroundingsKeep
<1>4. CASE ~HistoryStep /\ ~\E size \in Sizes : Appear(size)
  <2>1. /\ TierTypeOK' /\ Recorded' /\ total_obj' = total_obj /\ now' >= now
        /\ UNCHANGED <<birth_date, obj_vector, actuatorVars, history>>
    BY <1>1, <1>4, SurroundingsEffect DEF Next
  <2>2. total_obj' >= total_obj
    BY <1>1, <2>1 DEF TierTypeOK
  <2> QED BY <2>1, <2>2, SurroundingsKeep
<1> QED BY <1>2, <1>3, <1>4

-----------------------------------------------------------------------------
(* HistoryInv is an invariant of the actuator, whatever the constants. *)
THEOREM HistoryInvariant == Spec => []HistoryInv
  BY HistoryInvInit, HistoryInvNext, PTL DEF Spec

(* The variables of the actuator, of its table and of the history keep     *)
(* their types: values stay within 0 .. 300 and indexes inside the list.   *)
THEOREM HistoryTypeCorrect == Spec => []TypeOK
<1>1. HistoryInv => TypeOK
  BY DEF HistoryInv, TypeOK, ActuatorInv
<1> QED BY <1>1, HistoryInvariant, PTL

(* A period that demotes is followed by at least two that do not.          *)
THEOREM DemotionsSpaced == Spec => []DemotionSpacing
<1>1. HistoryInv => DemotionSpacing
  BY DEF HistoryInv, Waits, DemotionSpacing
<1> QED BY <1>1, HistoryInvariant, PTL

(* What was promoted is not demoted for more than MIN_LIFETIME.            *)
THEOREM PromotedStays == Spec => []NoEarlyDemotion
<1>1. HistoryInv => NoEarlyDemotion
  <2> SUFFICES ASSUME HistoryInv, apc = "send_demotion", promoted_at[Entry.key] # 0
               PROVE  now - promoted_at[Entry.key] > MIN_LIFETIME
    BY DEF NoEarlyDemotion
  <2>1. ai \in 1 .. Len(g_key_value_list)
    BY DEF HistoryInv, ActuatorInv, ActuatorTypeOK, Position
  <2>2. Entry.key \in Slots
    BY <2>1, EntryType DEF HistoryInv
  <2>3. now - birth_date[Entry.key] > MIN_LIFETIME
    BY DEF HistoryInv, ActuatorInv, Aged
  <2> QED BY <2>2, <2>3 DEF HistoryInv, Restarted
<1> QED BY <1>1, HistoryInvariant, PTL

(* No object is ordered twice in a period, by one policy or by both.       *)
THEOREM OneOrderEach == Spec => []OneOrderPerPeriod
<1>1. HistoryInv => OneOrderPerPeriod
  <2> DEFINE sent == demoted \o promoted
             m == Len(demoted)
  <2> SUFFICES ASSUME HistoryInv,
                      NEW j \in 1 .. Len(sent), NEW k \in 1 .. Len(sent), j < k
               PROVE  sent[j].entry.key # sent[k].entry.key
    <3>1. Len(sent) \in Nat
      BY DEF HistoryInv, HistoryTypeOK
    <3> HIDE DEF sent
    <3>2. \A j, k \in 1 .. Len(sent) : j # k => j < k \/ k < j
      BY <3>1
    <3> QED BY <3>1, <3>2 DEF OneOrderPerPeriod, sent
  <2>1. /\ demoted \in Seq(migration) /\ promoted \in Seq(migration)
        /\ DemotedPassed /\ PromotedPassed /\ InTurn
        /\ g_key_value_list \in Seq(key_value)
    BY DEF HistoryInv, HistoryTypeOK, ActuatorInv, ActuatorTypeOK
  <2>2. /\ m \in Nat /\ Len(promoted) \in Nat /\ Len(sent) = m + Len(promoted)
        /\ \A i \in 1 .. Len(sent) :
             sent[i] = IF i <= m THEN demoted[i] ELSE promoted[i - m]
    BY <2>1
  <2> HIDE DEF sent
  <2>3. CASE k <= m
    <3>1. j \in 1 .. m /\ k \in 1 .. m /\ sent[j] = demoted[j] /\ sent[k] = demoted[k]
      BY <2>2, <2>3
    <3> QED BY <2>1, <3>1 DEF InTurn
  <2>4. CASE j > m
    <3>1. /\ j - m \in 1 .. Len(promoted) /\ k - m \in 1 .. Len(promoted) /\ j - m < k - m
          /\ sent[j] = promoted[j - m] /\ sent[k] = promoted[k - m]
      BY <2>2, <2>4
    <3> QED BY <2>1, <3>1 DEF InTurn
  <2>5. CASE j <= m /\ k > m
    <3>1. /\ j \in 1 .. m /\ k - m \in 1 .. Len(promoted)
          /\ sent[j] = demoted[j] /\ sent[k] = promoted[k - m]
      BY <2>2, <2>5
    <3>2. PICK p \in 1 .. Len(g_key_value_list) :
            /\ sent[j].entry.key = g_key_value_list[p].key
            /\ g_key_value_list[p].value < HOTNESS
      BY <2>1, <3>1 DEF DemotedPassed
    <3>3. PICK q \in 1 .. Len(g_key_value_list) :
            /\ sent[k].entry.key = g_key_value_list[q].key
            /\ g_key_value_list[q].value > HOTNESS
      BY <2>1, <3>1 DEF PromotedPassed
    <3>4. g_key_value_list[p].value \in Int
      <4>1. g_key_value_list[p] \in key_value
        BY <2>1
      <4> QED BY <4>1, EntryFields
    <3>5. p # q
      BY <3>2, <3>3, <3>4, ActuatorAssumption
    <3>6. p < q \/ q < p
      BY <2>1, <3>5
    <3> QED BY <3>2, <3>3, <3>6, Positions
  <2> QED BY <2>2, <2>3, <2>4, <2>5
<1> QED BY <1>1, HistoryInvariant, PTL

(* "from hottest to least hot", by the values the list is sorted by: the   *)
(* promotions of a period in descending order, the demotions in ascending. *)
THEOREM OrdersByValue == Spec => []InTurn
<1>1. HistoryInv => InTurn
  BY DEF HistoryInv
<1> QED BY <1>1, HistoryInvariant, PTL

(* Without its last order, a burst of either policy moves at most a chunk. *)
THEOREM OneChunkAndOneObject == Spec => [](WithinChunk(demoted) /\ WithinChunk(promoted))
<1>1. HistoryInv => WithinChunk(demoted) /\ WithinChunk(promoted)
  BY DEF HistoryInv, Budget
<1> QED BY <1>1, HistoryInvariant, PTL

(* A burst of promotions exceeds the free DRAM by less than a chunk.       *)
THEOREM PromotionsNearFree == Spec => []PromotionNearFree
<1>1. HistoryInv => PromotionNearFree
  BY DEF HistoryInv, Budget, PromotionNearFree, Chunk
<1> QED BY <1>1, HistoryInvariant, PTL

-----------------------------------------------------------------------------
(***************************************************************************)
(* The page counts.  g_status_memory_pages is not cleared between two      *)
(* objects; a count that is carried over is divided by the pages of the    *)
(* next object, and the pages of an object that is counted at all are its  *)
(* size over PAGE.                                                         *)
(***************************************************************************)

(* Division, by its remainder *)
LEMMA Quotient ==
  ASSUME NEW x \in Nat, NEW pages \in Nat \ {0}
  PROVE  /\ x \div pages \in Nat
         /\ pages * (x \div pages) <= x
         /\ x < pages * (x \div pages) + pages
<1> DEFINE q == x \div pages
<1>1. q \in Nat /\ pages * q <= x
  OBVIOUS
<1>2. x < pages * q + pages
  OBVIOUS
<1> QED BY <1>1, <1>2

(* Division is monotonic. *)
LEMMA QuotientMonotonic ==
  ASSUME NEW x \in Nat, NEW top \in Nat, x <= top, NEW pages \in Nat \ {0}
  PROVE  x \div pages <= top \div pages
<1> DEFINE q == x \div pages
           r == top \div pages
<1>1. q \in Nat /\ pages * q <= x
  BY Quotient
<1>2. r \in Nat /\ top < pages * r + pages
  BY Quotient
<1> HIDE DEF q, r
<1>3. ASSUME q >= r + 1 PROVE FALSE
  <2>1. pages * q >= pages * (r + 1)
    BY <1>1, <1>2, <1>3
  <2>2. pages * (r + 1) = pages * r + pages
    BY <1>2
  <2>3. pages * q \in Int /\ pages * r \in Int
    BY <1>1, <1>2
  <2> QED BY <1>1, <1>2, <2>1, <2>2, <2>3
<1>4. q <= r
  BY <1>1, <1>2, <1>3
<1> QED BY <1>4 DEF q, r

Carried(x, pages) == IF x < 0 THEN -(-x \div pages) ELSE x \div pages

(* What is carried over is at most a quotient of the largest count, *)
LEMMA CarriedBound ==
  ASSUME NEW x \in Int, NEW top \in Nat, x <= top, NEW pages \in Nat \ {0}
  PROVE  /\ Carried(x, pages) \in Int
         /\ Carried(x, pages) <= top \div pages
         /\ pages * Carried(x, pages) <= top
         /\ pages >= 2 => 2 * Carried(x, pages) <= top
<1>1. CASE x < 0
  <2> DEFINE q == -x \div pages
  <2>1. q \in Nat /\ top \div pages \in Nat
    <3>1. -x \in Nat
      BY <1>1
    <3> QED BY <3>1, Quotient
  <2>2. Carried(x, pages) = -q
    BY <1>1 DEF Carried
  <2> HIDE DEF q
  <2>3. pages * (-q) <= 0
    BY <2>1
  <2>4. pages * (-q) \in Int
    BY <2>1
  <2> QED BY <2>1, <2>2, <2>3, <2>4
<1>2. CASE x >= 0
  <2> DEFINE q == x \div pages
             r == top \div pages
  <2>1. x \in Nat
    BY <1>2
  <2>2. q \in Nat /\ pages * q <= x /\ q <= r /\ r \in Nat
    BY <2>1, Quotient, QuotientMonotonic
  <2>3. Carried(x, pages) = q
    BY <1>2 DEF Carried
  <2> HIDE DEF q, r
  <2>4. pages * q \in Int /\ (pages >= 2 => pages * q >= 2 * q)
    BY <2>2
  <2> QED BY <2>2, <2>3, <2>4 DEF r
<1> QED BY <1>1, <1>2

(* One object: the count stays below 2 * SHARE and the amount below Most;  *)
(* with CarriedSmall, an amount above MIN_SIZE has pages on the node.      *)
LEMMA QueryBound ==
  ASSUME LargeObjects, NEW before \in shares, NEW at \in Placements, NEW size \in Lengths,
         NEW node \in Nodes, before[node] < 2 * SHARE
  PROVE  LET read == query_status_memory_pages(before, at, size)[node]
         IN  /\ read \in Int /\ read < 2 * SHARE
             /\ size * read <= Most
             /\ CarriedSmall /\ size * read > MIN_SIZE => at[node] > 0
<1> DEFINE pages == size \div PAGE
           read == query_status_memory_pages(before, at, size)[node]
<1>1. /\ SHARE \in Nat \ {0} /\ PAGE \in Nat \ {0} /\ MIN_SIZE \in Nat /\ CHUNK_SIZE \in Nat
      /\ before[node] \in Int /\ at[node] \in 0 .. SHARE /\ size \in 1 .. CHUNK_SIZE
  <2>1. /\ SHARE \in Nat \ {0} /\ PAGE \in Nat \ {0} /\ MIN_SIZE \in Nat
        /\ CHUNK_SIZE \in Nat \ {0}
    BY ActuatorAssumption, TierAssumption
  <2>2. before[node] \in Int
    BY DEF shares, Nodes
  <2>3. at[node] \in 0 .. SHARE
    BY ActuatorAssumption DEF Nodes
  <2>4. size \in 1 .. CHUNK_SIZE
    BY <2>1, HistoryAssumption DEF Lengths
  <2> QED BY <2>1, <2>2, <2>3, <2>4
<1>2. Most \in Nat /\ Most = CHUNK_SIZE * SHARE + PAGE * (2 * SHARE)
  BY <1>1 DEF Most
<1>3. CASE size % PAGE # 0
  <2>1. read = -SHARE
    BY <1>3 DEF query_status_memory_pages, Nodes
  <2> HIDE DEF read
  <2>2. size * (-SHARE) \in Int /\ size * (-SHARE) <= 0
    BY <1>1
  <2>3. read \in Int /\ read < 2 * SHARE
    BY <1>1, <2>1
  <2>4. size * read <= Most /\ ~(size * read > MIN_SIZE)
    BY <1>1, <1>2, <2>1, <2>2
  <2> QED BY <2>3, <2>4 DEF read
<1>4. CASE size % PAGE = 0
  <2> DEFINE c == Carried(before[node], pages)
  <2>1. read = at[node] + c
    BY <1>4 DEF query_status_memory_pages, Nodes, Carried
  <2>2. size >= 2 * PAGE
    BY <1>4 DEF LargeObjects
  <2>3. pages \in Nat /\ size = PAGE * pages
    BY <1>1, <1>4
  <2> HIDE DEF pages
  <2>4. pages >= 2
    <3>1. ASSUME pages <= 1 PROVE FALSE
      <4>1. PAGE * pages <= PAGE
        BY <1>1, <2>3, <3>1
      <4> QED BY <1>1, <2>2, <2>3, <4>1
    <3> QED BY <2>3, <3>1
  <2> DEFINE top == 2 * SHARE - 1
  <2>5. /\ c \in Int /\ c <= top \div pages /\ pages * c <= top /\ 2 * c <= top
    <3>1. top \in Nat /\ before[node] <= top /\ pages \in Nat \ {0}
      BY <1>1, <2>3, <2>4
    <3> HIDE DEF top
    <3> QED BY <1>1, <2>4, <3>1, CarriedBound
  <2> HIDE DEF c, read
  <2>6. read \in Int /\ read < 2 * SHARE
    BY <1>1, <2>1, <2>5
  <2>7. size * read = size * at[node] + PAGE * (pages * c)
    <3>1. size * read = size * at[node] + size * c
      BY <1>1, <2>1, <2>5
    <3>2. size * c = PAGE * (pages * c)
      BY <1>1, <2>3, <2>5
    <3> QED BY <3>1, <3>2
  <2>8. size * at[node] \in Int /\ size * at[node] <= CHUNK_SIZE * SHARE
    <3>1. size * at[node] <= CHUNK_SIZE * at[node]
      BY <1>1
    <3>2. CHUNK_SIZE * at[node] <= CHUNK_SIZE * SHARE
      BY <1>1
    <3>3. size * at[node] \in Int /\ CHUNK_SIZE * at[node] \in Int /\ CHUNK_SIZE * SHARE \in Int
      BY <1>1
    <3> QED BY <3>1, <3>2, <3>3
  <2>9. PAGE * (pages * c) \in Int /\ PAGE * (pages * c) <= PAGE * (2 * SHARE)
    <3> DEFINE a == pages * c
               b == 2 * SHARE
    <3>1. a \in Int /\ b \in Int /\ a <= b
      BY <1>1, <2>3, <2>5
    <3> HIDE DEF a, b
    <3>2. PAGE * a \in Int /\ PAGE * a <= PAGE * b
      BY <1>1, <3>1
    <3> QED BY <3>2 DEF a, b
  <2>10. size * read <= Most
    <3>1. CHUNK_SIZE * SHARE \in Int /\ PAGE * (2 * SHARE) \in Int
      BY <1>1
    <3> QED BY <1>2, <2>7, <2>8, <2>9, <3>1
  <2>11. ASSUME CarriedSmall, size * read > MIN_SIZE PROVE at[node] > 0
    <3> SUFFICES ASSUME at[node] = 0 PROVE FALSE
      BY <1>1
    <3>1. size * (top \div pages) <= MIN_SIZE
      BY <1>4, <2>11 DEF CarriedSmall, pages
    <3> DEFINE d == top \div pages
    <3>2. d \in Int /\ c <= d
      <4>1. top \in Nat /\ pages \in Nat \ {0}
        BY <1>1, <2>3, <2>4
      <4> HIDE DEF top
      <4> QED BY <2>5, <4>1, Quotient
    <3> HIDE DEF d
    <3>3. size * c <= size * d /\ size * c \in Int /\ size * d \in Int
      BY <1>1, <2>5, <3>2
    <3>4. size * read = size * c
      BY <1>1, <2>1, <2>5
    <3> QED BY <1>1, <2>11, <3>1, <3>3, <3>4 DEF d
  <2> QED BY <2>6, <2>10, <2>11 DEF read
<1> QED BY <1>3, <1>4

(* The objects in their order: every count that is carried over is small,  *)
(* and so is what is read of every live object.                            *)
LEMMA PagesReadBound ==
  ASSUME LargeObjects, TierTypeOK, Recorded, ActuatorTypeOK, NEW at \in PlacedSomehow,
         \A i \in Slots : i < total_obj => obj_vector[i].size \in Lengths,
         NEW node \in Nodes, g_status_memory_pages[node] < 2 * SHARE
  PROVE  /\ \A k \in 0 .. total_obj : PagesRead(at)[k][node] < 2 * SHARE
         /\ \A i \in 0 .. total_obj - 1 : obj_alloc[i] = 1 =>
              LET read == PagesRead(at)[i + 1][node]
              IN  /\ obj_vector[i].size * read <= Most
                  /\ CarriedSmall /\ obj_vector[i].size * read > MIN_SIZE => at[i][node] > 0
<1> DEFINE reading == PagesRead(at)
           S == {m \in Nat : m <= total_obj => reading[m][node] < 2 * SHARE}
<1>1. total_obj \in Nat /\ MAX_OBJECTS \in Nat /\ total_obj <= MAX_OBJECTS
  BY TierAssumption DEF TierTypeOK
<1>2. /\ reading[0] = g_status_memory_pages
      /\ \A k \in 0 .. total_obj - 1 :
           reading[k + 1] = IF obj_alloc[k] # 1 THEN reading[k]
                            ELSE query_status_memory_pages(reading[k], at[k],
                                                           obj_vector[k].size)
  <2>1. reading = [k \in 0 .. total_obj |->
                     IF k = 0 THEN g_status_memory_pages
                     ELSE IF obj_alloc[k - 1] # 1 THEN reading[k - 1]
                     ELSE query_status_memory_pages(reading[k - 1], at[k - 1],
                                                    obj_vector[k - 1].size)]
    BY <1>1, PagesReadDef
  <2> HIDE DEF reading
  <2>2. reading[0] = g_status_memory_pages
    BY <1>1, <2>1
  <2>3. ASSUME NEW k \in 0 .. total_obj - 1
        PROVE  reading[k + 1] = IF obj_alloc[k] # 1 THEN reading[k]
                                ELSE query_status_memory_pages(reading[k], at[k],
                                                               obj_vector[k].size)
    <3>1. k + 1 \in 0 .. total_obj /\ k + 1 # 0 /\ (k + 1) - 1 = k
      BY <1>1
    <3> QED BY <2>1, <3>1
  <2> QED BY <2>2, <2>3
<1>3. \A k \in 0 .. total_obj : reading[k] \in shares
  BY PagesReadType DEF ActuatorTypeOK
<1> HIDE DEF reading
<1>4. ASSUME NEW i \in 0 .. total_obj - 1, obj_alloc[i] = 1, reading[i][node] < 2 * SHARE
      PROVE  LET read == reading[i + 1][node]
             IN  /\ read < 2 * SHARE
                 /\ obj_vector[i].size * read <= Most
                 /\ CarriedSmall /\ obj_vector[i].size * read > MIN_SIZE => at[i][node] > 0
  <2>1. reading[i] \in shares /\ obj_vector[i].size \in Lengths /\ at[i] \in Placements
    BY <1>1, <1>3, <1>4 DEF Slots, PlacedSomehow
  <2>2. reading[i + 1] = query_status_memory_pages(reading[i], at[i], obj_vector[i].size)
    BY <1>2, <1>4
  <2> QED BY <1>4, <2>1, <2>2, QueryBound
<1>5. 0 \in S
  BY <1>2
<1>6. ASSUME NEW m \in Nat, m \in S PROVE m + 1 \in S
  <2> SUFFICES ASSUME m < total_obj PROVE reading[m + 1][node] < 2 * SHARE
    BY <1>1
  <2>1. m \in 0 .. total_obj - 1 /\ reading[m][node] < 2 * SHARE
    BY <1>1, <1>6
  <2>2. CASE obj_alloc[m] # 1
    BY <1>2, <2>1, <2>2
  <2>3. CASE obj_alloc[m] = 1
    BY <1>4, <2>1, <2>3
  <2> QED BY <2>2, <2>3
<1>7. \A m \in Nat : m \in S
  <2> HIDE DEF S
  <2> QED BY <1>5, <1>6, SetInduction
<1>8. \A k \in 0 .. total_obj : reading[k][node] < 2 * SHARE
  BY <1>1, <1>7
<1>9. \A i \in 0 .. total_obj - 1 : i \in 0 .. total_obj
  BY <1>1
<1> QED BY <1>4, <1>8, <1>9 DEF reading

(* Nothing has been counted at the start. *)
LEMMA CountedInit == Init => Counted
<1> SUFFICES ASSUME Init PROVE Counted
  OBVIOUS
<1>1. PICK start \in Starts : Table(start[1])
  BY DEF Init
<1>2. /\ CHUNK_SIZE \in Nat /\ SHARE \in Nat \ {0} /\ PAGE \in Nat
      /\ Chunk \in Nat /\ Most \in Nat
  BY TierAssumption, ActuatorAssumption DEF Chunk, Most
<1>3. Sized
  BY <1>1 DEF Table, Sized, Lengths
<1>4. CarriesLittle
  BY <1>2 DEF Init, ActuatorInit, CarriesLittle, Nodes
<1>5. \A node \in Nodes, i \in Slots : page_status[i][node] = 0
  BY DEF Init, ActuatorInit, Unread, Nodes
<1>6. Measured
  <2> SUFFICES ASSUME NEW node \in Nodes, NEW i \in Slots, i < total_obj
               PROVE  obj_vector[i].size * page_status[i][node] <= Most
    BY <1>5 DEF Measured
  <2>1. obj_vector[i].size = CHUNK_SIZE
    BY <1>1 DEF Table
  <2> QED BY <1>2, <1>5, <2>1
<1>7. Moved
  BY <1>2, TotalEmpty DEF Init, HistoryInit, Moved
<1> QED BY <1>3, <1>4, <1>6, <1>7 DEF Counted

(* What the steps of the thread do to the page counts *)
LEMMA StepReadings ==
  ASSUME HistoryInv, HistoryStep
  PROVE  \/ \E at \in PlacedSomehow : ActuatorReads(at) /\ read_allocation_status(at)
         \/ page_status' \in {page_status, Unread}
            /\ g_status_memory_pages' = g_status_memory_pages
<1>1. ActuatorInv /\ ActuatorStep
  BY StepBase DEF HistoryInv
<1> QED BY <1>1
        DEF ActuatorStep, ActuatorReads, ActuatorActs, AwaitPressure, sort_objects,
            ActuatorExit, LetPeriodPass, NoPressure, StartDemotion, TestDemotion,
            EndDemotion, SendDemotion, StoreDemotion, NoPromotion, StartPromotion, TestPromotion,
            EndPromotion, SendPromotion, StorePromotion, EndPeriod, readings

(* Every reading keeps the counts small, and so do the steps between. *)
LEMMA StepMeasured ==
  ASSUME LargeObjects, HistoryInv, Counted, HistoryStep
  PROVE  Sized' /\ CarriesLittle' /\ Measured'
<1>1. /\ UNCHANGED <<obj_vector, total_obj>>
      /\ TierTypeOK /\ Recorded /\ ActuatorTypeOK
      /\ Sized /\ CarriesLittle /\ Measured
  BY StepBase DEF HistoryInv, ActuatorInv, Counted
<1>2. total_obj \in Nat /\ Most \in Nat
  BY <1>1, TierAssumption, ActuatorAssumption DEF TierTypeOK, Most
<1>3. Sized'
  BY <1>1 DEF Sized
<1>4. ASSUME NEW at \in PlacedSomehow, read_allocation_status(at)
      PROVE  CarriesLittle' /\ Measured'
  <2>1. /\ page_status' = [i \in Slots |-> IF i < total_obj /\ obj_alloc[i] = 1
                                           THEN PagesRead(at)[i + 1] ELSE page_status[i]]
        /\ g_status_memory_pages' = PagesRead(at)[total_obj]
    BY <1>4 DEF read_allocation_status
  <2>2. ASSUME NEW node \in Nodes
        PROVE  /\ \A k \in 0 .. total_obj : PagesRead(at)[k][node] < 2 * SHARE
               /\ \A i \in 0 .. total_obj - 1 : obj_alloc[i] = 1 =>
                    obj_vector[i].size * PagesRead(at)[i + 1][node] <= Most
    BY <1>1, PagesReadBound DEF Sized, CarriesLittle
  <2>3. CarriesLittle'
    BY <1>2, <2>1, <2>2 DEF CarriesLittle
  <2>4. ASSUME NEW node \in Nodes, NEW i \in Slots
        PROVE  IF i < total_obj THEN obj_vector[i].size * page_status'[i][node] <= Most
               ELSE page_status'[i][node] = 0
    <3>1. CASE i < total_obj /\ obj_alloc[i] = 1
      <4>1. i \in 0 .. total_obj - 1
        BY <1>2, <3>1 DEF Slots
      <4> QED BY <2>1, <2>2, <3>1, <4>1
    <3>2. CASE ~(i < total_obj /\ obj_alloc[i] = 1)
      BY <1>1, <2>1, <3>2 DEF Measured
    <3> QED BY <3>1, <3>2
  <2>5. Measured'
    BY <1>1, <2>4 DEF Measured, Most
  <2> QED BY <2>3, <2>5
<1>5. ASSUME page_status' \in {page_status, Unread},
             g_status_memory_pages' = g_status_memory_pages
      PROVE  CarriesLittle' /\ Measured'
  <2>1. CarriesLittle'
    BY <1>1, <1>5 DEF CarriesLittle
  <2>2. CASE page_status' = page_status
    BY <1>1, <2>1, <2>2 DEF Measured, Most
  <2>3. CASE page_status' = Unread
    <3>1. \A node \in Nodes, i \in Slots : page_status'[i][node] = 0
      BY <2>3 DEF Unread, Nodes
    <3>2. \A i \in Slots : i < total_obj => obj_vector[i].size * 0 = 0
      BY <1>1 DEF Recorded
    <3> QED BY <1>1, <1>2, <2>1, <3>1, <3>2 DEF Measured, Most
  <2> QED BY <1>5, <2>2, <2>3
<1> QED BY <1>3, <1>4, <1>5, StepReadings

(* A burst that goes on has a chunk at most, and its next order Most. *)
LEMMA StepMoved ==
  ASSUME HistoryInv, Counted, HistoryStep
  PROVE  Moved'
<1>1. /\ demoted \in Seq(migration) /\ promoted \in Seq(migration) /\ Budget
      /\ TierTypeOK /\ ActuatorInv /\ Measured /\ Moved
  BY DEF HistoryInv, HistoryTypeOK, Counted
<1>2. Chunk \in Nat /\ Most \in Nat
  BY TierAssumption, ActuatorAssumption DEF Chunk, Most
<1>3. ASSUME NEW node \in Nodes, ai \in 1 .. Len(g_key_value_list)
      PROVE  obj_vector[Entry.key].size * page_status[Entry.key][node] <= Most
  <2>1. Entry.key \in Slots /\ Entry.key < total_obj
    BY <1>1, <1>3, EntryType
  <2> QED BY <1>1, <2>1 DEF Measured
<1>4. Total(demoted') <= Chunk + Most
  <2>1. CASE apc = "sent_demotion"
    <3> DEFINE m == Sent(dramAlloc(Entry.key))
    <3>1. /\ demoted' = Append(demoted, m) /\ m \in migration
          /\ dramAlloc(Entry.key) \in Int /\ max_migration_gb \in Int
          /\ ai \in 1 .. Len(g_key_value_list)
      BY <2>1, DemotionRecorded
    <3>2. m.amount = dramAlloc(Entry.key)
      BY DEF Sent
    <3> HIDE DEF m
    <3>3. Total(demoted) \in Int /\ Total(demoted') = Total(demoted) + dramAlloc(Entry.key)
      BY <1>1, <3>1, <3>2, TotalAppend
    <3>4. dramAlloc(Entry.key) <= Most
      BY <1>3, <3>1 DEF dramAlloc, Nodes
    <3>5. Total(demoted) <= Chunk
      <4>1. Total(demoted) + max_migration_gb = Chunk /\ max_migration_gb >= 0
        BY <1>1, <2>1, <3>1 DEF Budget
      <4> QED BY <1>2, <3>1, <3>3, <4>1
    <3> QED BY <1>2, <3>1, <3>3, <3>4, <3>5
  <2>2. CASE apc # "sent_demotion"
    BY <1>1, <1>2, <2>2, BurstsOtherwise, TotalEmpty DEF Moved
  <2> QED BY <2>1, <2>2
<1>5. Total(promoted') <= Chunk + Most
  <2>1. CASE apc = "sent_promotion"
    <3> DEFINE m == Sent(pmemAlloc(Entry.key))
    <3>1. /\ promoted' = Append(promoted, m) /\ m \in migration
          /\ pmemAlloc(Entry.key) \in Int /\ max_migration_gb \in Int
          /\ ai \in 1 .. Len(g_key_value_list)
      BY <2>1, PromotionRecorded
    <3>2. m.amount = pmemAlloc(Entry.key)
      BY DEF Sent
    <3> HIDE DEF m
    <3>3. Total(promoted) \in Int /\ Total(promoted') = Total(promoted) + pmemAlloc(Entry.key)
      BY <1>1, <3>1, <3>2, TotalAppend
    <3>4. pmemAlloc(Entry.key) <= Most
      BY <1>3, <3>1 DEF pmemAlloc, Nodes
    <3>5. Total(promoted) <= Chunk
      <4>1. Total(promoted) + max_migration_gb = Chunk /\ max_migration_gb >= 0
        BY <1>1, <2>1, <3>1 DEF Budget
      <4> QED BY <1>2, <3>1, <3>3, <4>1
    <3> QED BY <1>2, <3>1, <3>3, <3>4, <3>5
  <2>2. CASE apc # "sent_promotion"
    BY <1>1, <1>2, <2>2, BurstsOtherwise, TotalEmpty DEF Moved
  <2> QED BY <2>1, <2>2
<1> QED BY <1>4, <1>5 DEF Moved, Chunk, Most

(* An object that appears has no reading yet; the rest of the surroundings *)
(* does not touch what Counted is about.                                   *)
LEMMA CountedNext ==
  ASSUME LargeObjects
  PROVE  HistoryInv /\ Counted /\ [Next]_<<tierVars, actuatorVars, history>> => Counted'
<1> SUFFICES ASSUME HistoryInv, Counted, [Next]_<<tierVars, actuatorVars, history>>
             PROVE  Counted'
  OBVIOUS
<1>1. /\ TierTypeOK /\ Recorded /\ Sized /\ CarriesLittle /\ Measured /\ Moved
      /\ total_obj \in Nat /\ Most \in Nat
  BY TierAssumption, ActuatorAssumption DEF HistoryInv, Counted, TierTypeOK, Most
<1>2. CASE HistoryStep
  BY <1>2, StepMeasured, StepMoved DEF Counted
<1>3. ASSUME UNCHANGED <<actuatorVars, history>>
      PROVE  CarriesLittle' /\ Moved' /\ page_status' = page_status
  BY <1>1, <1>3 DEF actuatorVars, history, readings, CarriesLittle, Moved, Chunk, Most
<1>4. ASSUME NEW size \in Sizes, Appear(size) PROVE Counted'
  <2>1. /\ total_obj' = total_obj + 1 /\ total_obj \in Slots
        /\ obj_vector'[total_obj].size = size
        /\ \A i \in Slots : i # total_obj => obj_vector'[i] = obj_vector[i]
        /\ UNCHANGED <<actuatorVars, history>>
    BY <1>1, <1>4, AppearEffect
  <2>2. \A i \in Slots : i < total_obj' <=> i < total_obj \/ i = total_obj
    BY <1>1, <2>1 DEF Slots
  <2>3. \A i \in Slots : i < total_obj => i # total_obj
    BY <1>1 DEF Slots
  <2>4. Sized'
    BY <1>1, <2>1, <2>2, <2>3 DEF Sized, Lengths
  <2>5. ASSUME NEW node \in Nodes, NEW i \in Slots
        PROVE  IF i < total_obj' THEN obj_vector'[i].size * page_status'[i][node] <= Most
               ELSE page_status'[i][node] = 0
    <3>1. page_status' = page_status
      BY <1>3, <2>1
    <3>2. CASE i # total_obj
      BY <1>1, <2>1, <2>2, <3>1, <3>2 DEF Measured
    <3>3. CASE i = total_obj
      <4>1. page_status[i][node] = 0
        BY <1>1, <3>3 DEF Measured
      <4>2. size * 0 <= Most
        BY <1>1, HistoryAssumption
      <4> QED BY <2>1, <2>2, <3>1, <3>3, <4>1, <4>2
    <3> QED BY <3>2, <3>3
  <2>6. Measured'
    BY <2>5 DEF Measured, Most
  <2> QED BY <1>3, <2>1, <2>4, <2>6 DEF Counted
<1>5. CASE ~HistoryStep /\ ~\E size \in Sizes : Appear(size)
  <2>1. total_obj' = total_obj /\ UNCHANGED <<obj_vector, actuatorVars, history>>
    BY <1>1, <1>5, SurroundingsEffect DEF Next
  <2>2. Sized' /\ Measured'
    BY <1>1, <1>3, <2>1 DEF Sized, Measured, Most
  <2> QED BY <1>3, <2>1, <2>2 DEF Counted
<1> QED BY <1>2, <1>4, <1>5

(* "There is a maximum transfer limit of one object after reaching a chunk *)
(* of migrated data": with objects of at least two pages, the last order   *)
(* of a burst takes it to two chunks and two pages at most.                *)
THEOREM BurstsLimited ==
  ASSUME LargeObjects
  PROVE  Spec => []BurstLimit
<1>1. Init => HistoryInv /\ Counted
  BY HistoryInvInit, CountedInit
<1>2. HistoryInv /\ Counted /\ [Next]_<<tierVars, actuatorVars, history>>
        => (HistoryInv /\ Counted)'
  BY HistoryInvNext, CountedNext
<1>3. HistoryInv /\ Counted => BurstLimit
  <2> SUFFICES ASSUME HistoryInv, Counted, NEW burst \in {demoted, promoted}, burst # << >>
               PROVE  /\ Total(SubSeq(burst, 1, Len(burst) - 1)) <= CHUNK_SIZE * SHARE
                      /\ Total(burst) <= 2 * (CHUNK_SIZE + PAGE) * SHARE
    BY DEF BurstLimit
  <2>1. 2 * (CHUNK_SIZE + PAGE) * SHARE = Chunk + Most
    BY TierAssumption, ActuatorAssumption DEF Chunk, Most
  <2>2. WithinChunk(burst)
    BY DEF HistoryInv, Budget
  <2>3. Total(burst) <= Chunk + Most
    BY DEF Counted, Moved
  <2> QED BY <2>1, <2>2, <2>3 DEF WithinChunk, Chunk
<1> QED BY <1>1, <1>2, <1>3, PTL DEF Spec

-----------------------------------------------------------------------------
(* The reading that opens policy_demotion: what is above MIN_SIZE has      *)
(* pages in DRAM, whatever was left in the count.                          *)
LEMMA ReadingSeen ==
  ASSUME LargeObjects, CarriedSmall, HistoryInv, Counted, NEW at \in PlacedSomehow,
         StartDemotion(at), placed' = at
  PROVE  Seen'
<1>1. /\ TierTypeOK /\ Recorded /\ ActuatorTypeOK /\ Listed
      /\ Sized /\ g_status_memory_pages["dram"] < 2 * SHARE
      /\ g_key_value_list \in Seq(key_value) /\ total_obj \in Nat
  BY TierAssumption
     DEF HistoryInv, ActuatorInv, ActuatorTypeOK, Counted, CarriesLittle, Nodes, TierTypeOK
<1>2. /\ apc' = "demote" /\ g_key_value_list' = g_key_value_list
      /\ UNCHANGED <<obj_vector, obj_alloc, total_obj>>
      /\ page_status' = [i \in Slots |-> IF i < total_obj /\ obj_alloc[i] = 1
                                         THEN PagesRead(at)[i + 1] ELSE page_status[i]]
  BY DEF StartDemotion, read_allocation_status, listVars, tierVars
<1>3. \A i \in 0 .. total_obj - 1 : obj_alloc[i] = 1 =>
        (obj_vector[i].size * PagesRead(at)[i + 1]["dram"] > MIN_SIZE => at[i]["dram"] > 0)
  BY <1>1, PagesReadBound DEF Sized, Nodes
<1>4. ASSUME NEW p \in 1 .. Len(g_key_value_list) PROVE SeenAt(p)'
  <2> DEFINE i == g_key_value_list[p].key
  <2>1. i \in Slots /\ i < total_obj
    <3>1. g_key_value_list[p] \in key_value
      BY <1>1
    <3> QED BY <1>1, <3>1, EntryFields DEF Listed
  <2> HIDE DEF i
  <2>2. i \in 0 .. total_obj - 1
    BY <1>1, <2>1 DEF Slots
  <2>3. i \in DOMAIN at <=> obj_alloc[i] = 1
    BY <2>2 DEF PlacedSomehow
  <2>4. ASSUME obj_alloc[i] = 1 PROVE page_status'[i] = PagesRead(at)[i + 1]
    BY <1>2, <2>1, <2>4
  <2>5. obj_alloc[i] = 1 /\ obj_vector[i].size * page_status'[i].dram > MIN_SIZE
          => at[i].dram > 0
    BY <1>3, <2>2, <2>4
  <2> QED BY <1>2, <2>3, <2>5 DEF SeenAt, i, dramAlloc
<1> QED BY <1>2, <1>4 DEF Seen

(* What policy_demotion selects has pages in DRAM. *)
LEMMA StepSeen ==
  ASSUME LargeObjects, CarriedSmall, HistoryInv, Counted, Seen, HistoryStep
  PROVE  Seen'
<1>1. ActuatorInv /\ UNCHANGED <<obj_vector, obj_alloc, total_obj>>
  BY StepBase DEF HistoryInv
<1>2. CASE apc' \notin Demoting
  BY <1>2 DEF Seen
<1>3. ASSUME NEW at \in PlacedSomehow, ActuatorReads(at), placed' = at,
             apc' \in Demoting
      PROVE  Seen'
  <2>1. StartDemotion(at)
    BY <1>3 DEF ActuatorReads, StartPromotion
  <2> QED BY <1>3, <2>1, ReadingSeen
<1>4. CASE TestDemotion /\ placed' = placed
  <2>1. /\ apc = "demote" /\ UNCHANGED <<g_key_value_list, page_status>>
        /\ apc' = "send_demotion" =>
             Demotable(Entry.key, Entry.value) /\ ai' = ai
    BY <1>4 DEF TestDemotion, listVars, readings
  <2>2. ASSUME NEW p \in 1 .. Len(g_key_value_list) PROVE SeenAt(p)'
    <3>1. SeenAt(p)
      BY <2>1 DEF Seen
    <3>2. ASSUME apc' = "send_demotion", p = ai'
          PROVE  /\ g_key_value_list[p].key \in DOMAIN placed
                 /\ placed[g_key_value_list[p].key].dram > 0
      BY <2>1, <3>1, <3>2 DEF SeenAt, Demotable, Entry
    <3> QED BY <1>1, <1>4, <2>1, <3>1, <3>2 DEF SeenAt, dramAlloc
  <2> QED BY <2>1, <2>2 DEF Seen
<1>5. CASE (SendDemotion \/ StoreDemotion) /\ placed' = placed
  <2>1. /\ apc \in Demoting /\ apc' \in {"sent_demotion", "demote"}
        /\ UNCHANGED <<g_key_value_list, page_status>>
    BY <1>5 DEF SendDemotion, StoreDemotion, listVars, readings
  <2>2. ASSUME NEW p \in 1 .. Len(g_key_value_list) PROVE SeenAt(p)'
    <3>1. SeenAt(p)
      BY <2>1 DEF Seen
    <3> QED BY <1>1, <1>5, <2>1, <3>1 DEF SeenAt, dramAlloc
  <2> QED BY <2>1, <2>2 DEF Seen
<1>6. ASSUME ActuatorActs, apc' \in Demoting
      PROVE  TestDemotion \/ SendDemotion \/ StoreDemotion
  BY <1>6 DEF ActuatorActs, AwaitPressure, sort_objects, ActuatorExit, LetPeriodPass,
         NoPressure, EndDemotion, NoPromotion, TestPromotion, EndPromotion, SendPromotion, StorePromotion,
         EndPeriod
<1>7. ASSUME apc' \in Demoting
      PROVE  \/ \E at \in PlacedSomehow : ActuatorReads(at) /\ placed' = at
             \/ ActuatorActs /\ placed' = placed
  BY <1>7 DEF HistoryStep
<1> QED BY <1>2, <1>3, <1>4, <1>5, <1>6, <1>7

(* The surroundings allocate no object that is in the list. *)
LEMMA SeenNext ==
  ASSUME LargeObjects, CarriedSmall
  PROVE  PagesInv /\ [Next]_<<tierVars, actuatorVars, history>> => Seen'
<1> SUFFICES ASSUME HistoryInv, Counted, Seen, [Next]_<<tierVars, actuatorVars, history>>
             PROVE  Seen'
  BY DEF PagesInv
<1>1. TierTypeOK /\ Recorded /\ Listed /\ g_key_value_list \in Seq(key_value)
  BY DEF HistoryInv, ActuatorInv, ActuatorTypeOK
<1>2. CASE HistoryStep
  BY <1>2, StepSeen
<1>3. ASSUME UNCHANGED <<actuatorVars, history>>,
             \A i \in Slots : i < total_obj =>
               obj_vector'[i] = obj_vector[i] /\ (obj_alloc'[i] = 1 => obj_alloc[i] = 1)
      PROVE  Seen'
  <2>1. UNCHANGED <<apc, ai, g_key_value_list, page_status, placed>>
    BY <1>3 DEF actuatorVars, history, listVars, readings
  <2>2. ASSUME NEW p \in 1 .. Len(g_key_value_list), SeenAt(p) PROVE SeenAt(p)'
    <3> DEFINE i == g_key_value_list[p].key
    <3>1. i \in Slots /\ i < total_obj
      <4>1. g_key_value_list[p] \in key_value
        BY <1>1
      <4> QED BY <1>1, <4>1, EntryFields DEF Listed
    <3>2. obj_vector'[i] = obj_vector[i] /\ (obj_alloc'[i] = 1 => obj_alloc[i] = 1)
      BY <1>3, <3>1
    <3> QED BY <2>1, <2>2, <3>2 DEF SeenAt, dramAlloc
  <2> QED BY <2>1, <2>2 DEF Seen
<1>4. ASSUME NEW size \in Sizes, Appear(size) PROVE Seen'
  <2>1. /\ UNCHANGED <<actuatorVars, history>>
        /\ \A i \in Slots : i # total_obj =>
             obj_vector'[i] = obj_vector[i] /\ obj_alloc'[i] = obj_alloc[i]
    BY <1>1, <1>4, AppearEffect
  <2>2. \A i \in Slots : i < total_obj => i # total_obj
    BY <1>1 DEF TierTypeOK, Slots
  <2> QED BY <1>3, <2>1, <2>2
<1>5. CASE ~HistoryStep /\ ~\E size \in Sizes : Appear(size)
  <2>1. /\ UNCHANGED <<obj_vector, actuatorVars, history>>
        /\ \A i \in Slots : obj_alloc'[i] = 1 => obj_alloc[i] = 1
    BY <1>1, <1>5, SurroundingsEffect DEF Next
  <2> QED BY <1>3, <2>1
<1> QED BY <1>2, <1>4, <1>5

(* Only objects with pages in DRAM are ordered out of it, although the     *)
(* count they are tested by is never cleared, as long as a carried count   *)
(* is worth at most min_size_gb.                                           *)
THEOREM DemotionsHaveDram ==
  ASSUME LargeObjects, CarriedSmall
  PROVE  Spec => []DemotedHasDram
<1>1. Init => PagesInv
  <2>1. Init => Seen
    BY DEF Init, ActuatorInit, Seen
  <2> QED BY <2>1, HistoryInvInit, CountedInit DEF PagesInv
<1>2. PagesInv /\ [Next]_<<tierVars, actuatorVars, history>> => PagesInv'
  BY HistoryInvNext, CountedNext, SeenNext DEF PagesInv
<1>3. PagesInv => DemotedHasDram
  <2> SUFFICES ASSUME PagesInv, apc = "send_demotion"
               PROVE  Entry.key \in DOMAIN placed /\ placed[Entry.key].dram > 0
    BY DEF DemotedHasDram
  <2>1. ai \in 1 .. Len(g_key_value_list)
    BY DEF PagesInv, HistoryInv, ActuatorInv, Position
  <2>2. SeenAt(ai)
    BY <2>1 DEF PagesInv, Seen
  <2> QED BY <2>2 DEF SeenAt, Entry
<1> QED BY <1>1, <1>2, <1>3, PTL DEF Spec
=============================================================================
