--------------------------- MODULE ActuatorProofs ----------------------------
(***************************************************************************)
(* What every step of the actuator keeps, whoever else writes the table    *)
(* meanwhile.                                                              *)
(***************************************************************************)
EXTENDS Actuator, WellFoundedInduction, TLAPS

-----------------------------------------------------------------------------
(***************************************************************************)
(* Induction on the naturals for a set of numbers in place of a formula,   *)
(* in which form the provers can use it: it shows that the recursive       *)
(* functions of the model exist and what they compute.                     *)
(***************************************************************************)

(* A set of naturals that is not empty has a least element. *)
LEMMA LeastNatural ==
  ASSUME NEW T \in SUBSET Nat, T # {}
  PROVE  \E n \in T : \A m \in T : n <= m
<1> DEFINE Less == OpToRel(<, Nat)
           Pairs == {ss \in Nat \X Nat : ss[1] < ss[2]}
<1>1. Less = Pairs
  BY Zenon DEF OpToRel
<1>2. \E x \in T : \A y \in T : <<y, x>> \notin Less
  BY NatLessThanWellFounded, WFMin, Zenon
<1>3. \E x \in T : \A y \in T : <<y, x>> \notin Pairs
  <2> HIDE DEF Less, Pairs
  <2> QED BY <1>1, <1>2
<1>4. PICK x \in T : \A y \in T : <<y, x>> \notin Pairs
  BY <1>3
<1>5. ASSUME NEW y \in T PROVE x <= y
  <2>1. <<y, x>> \notin Pairs
    BY <1>4
  <2> QED BY <2>1
<1> QED BY <1>5

(* A set with 0 in it, and with every number its successor, has all. *)
LEMMA SetInduction ==
  ASSUME NEW S, 0 \in S, \A n \in Nat : n \in S => n + 1 \in S
  PROVE  \A n \in Nat : n \in S
<1> DEFINE T == Nat \ S
<1> SUFFICES ASSUME T # {} PROVE FALSE
  OBVIOUS
<1>1. PICK n \in T : \A m \in T : n <= m
  BY LeastNatural
<1>2. n \in Nat /\ n # 0 /\ n - 1 \in Nat /\ n - 1 \notin T
  BY <1>1
<1>3. (n - 1) + 1 \in S
  BY <1>2
<1> QED BY <1>1, <1>2, <1>3

-----------------------------------------------------------------------------
(* The running maxima of sort_objects are what their recursion says. *)
LEMMA MaximaDef ==
  ASSUME NEW reading, NEW n \in Nat
  PROVE  Maxima(reading, n) =
           [k \in 0 .. n |-> IF k = 0 THEN g_curr_max
                             ELSE Raised(Maxima(reading, n)[k - 1], reading[k - 1])]
<1> DEFINE Def(f, m) == f = [k \in 0 .. m |-> IF k = 0 THEN g_curr_max
                                              ELSE Raised(f[k - 1], reading[k - 1])]
           S == {m \in Nat : \E f : Def(f, m)}
<1>1. 0 \in S
  <2>1. Def([k \in 0 .. 0 |-> g_curr_max], 0)
    OBVIOUS
  <2> HIDE DEF Def
  <2> QED BY <2>1
<1>2. ASSUME NEW m \in Nat, m \in S PROVE m + 1 \in S
  <2>1. PICK f : Def(f, m)
    BY <1>2
  <2> DEFINE g == [k \in 0 .. m + 1 |->
                     IF k = m + 1 THEN Raised(f[m], reading[m]) ELSE f[k]]
  <2>2. Def(g, m + 1)
    BY <2>1
  <2> HIDE DEF Def, g
  <2> QED BY <2>2
<1>3. n \in S
  <2> HIDE DEF S
  <2> QED BY <1>1, <1>2, SetInduction
<1>4. \E f : Def(f, n)
  BY <1>3
<1>5. Maxima(reading, n) = CHOOSE f : Def(f, n)
  BY DEF Maxima
<1>6. Def(Maxima(reading, n), n)
  <2> HIDE DEF Def
  <2> QED BY <1>4, <1>5
<1> QED BY <1>6

maxima == [llcm : Nat \ {0}, tlbm : Nat \ {0}, stores : Nat \ {0}]

Covers(max, r) == r.llcm <= max.llcm /\ r.tlbm <= max.tlbm /\ r.stores <= max.stores

(* A raised maximum covers the reading that raised it. *)
LEMMA RaisedType ==
  ASSUME NEW max \in maxima, NEW r \in metric
  PROVE  Raised(max, r) \in maxima /\ Covers(Raised(max, r), r)
<1>1. DOMAIN max = {"llcm", "tlbm", "stores"}
  BY DEF maxima
<1> DEFINE up == Raised(max, r)
<1>2. up = [f \in {"llcm", "tlbm", "stores"} |-> IF r[f] > max[f] THEN r[f] ELSE max[f]]
  BY <1>1 DEF Raised
<1>3. up = [llcm |-> up["llcm"], tlbm |-> up["tlbm"], stores |-> up["stores"]]
  <2> HIDE DEF up
  <2> QED BY <1>2
<1>4. /\ r.llcm \in Nat /\ r.tlbm \in Nat /\ r.stores \in Nat
      /\ max.llcm \in Nat \ {0} /\ max.tlbm \in Nat \ {0} /\ max.stores \in Nat \ {0}
  BY DEF maxima, metric
<1>5. /\ up.llcm = IF r.llcm > max.llcm THEN r.llcm ELSE max.llcm
      /\ up.tlbm = IF r.tlbm > max.tlbm THEN r.tlbm ELSE max.tlbm
      /\ up.stores = IF r.stores > max.stores THEN r.stores ELSE max.stores
  <2> HIDE DEF up
  <2> QED BY <1>2
<1>6. up \in maxima
  <2> HIDE DEF up
  <2> QED BY <1>3, <1>4, <1>5 DEF maxima
<1> QED BY <1>4, <1>5, <1>6 DEF Covers

(* A ratio in hundredths, of a number to one that is not smaller *)
LEMMA Percent ==
  ASSUME NEW a \in Nat, NEW b \in Nat \ {0}, a <= b
  PROVE  (100 * a) \div b \in 0 .. 100
<1> DEFINE q == (100 * a) \div b
<1>1. q \in Nat /\ b * q <= 100 * a
  OBVIOUS
<1>2. ASSUME q > 100 PROVE FALSE
  <2>1. b * q >= b * 101
    <3> HIDE DEF q
    <3> QED BY <1>1, <1>2
  <2> QED BY <1>1, <2>1
<1> HIDE DEF q
<1> QED BY <1>1, <1>2

(* Each of the three ratios of sort_objects is at most 1. *)
LEMMA NormalisedType ==
  ASSUME NEW max \in maxima, NEW r \in metric, Covers(max, r)
  PROVE  Normalised(r, max) \in 0 .. 300
<1>1. /\ r.llcm \in Nat /\ r.tlbm \in Nat /\ r.stores \in Nat
      /\ max.llcm \in Nat \ {0} /\ max.tlbm \in Nat \ {0} /\ max.stores \in Nat \ {0}
  BY DEF maxima, metric
<1>2. /\ (100 * r.llcm) \div max.llcm \in 0 .. 100
      /\ (100 * r.tlbm) \div max.tlbm \in 0 .. 100
      /\ (100 * r.stores) \div max.stores \in 0 .. 100
  BY <1>1, Percent DEF Covers
<1>3. \A a, b, c \in 0 .. 100 : a + b + c \in 0 .. 300
  OBVIOUS
<1> QED BY <1>2, <1>3, ZenonT(40) DEF Normalised

(* Every maximum is positive and covers the reading it is used for: no     *)
(* division by 0.                                                          *)
LEMMA MaximaType ==
  ASSUME NEW n \in Nat, NEW reading \in [0 .. n - 1 -> metric], g_curr_max \in maxima
  PROVE  /\ \A k \in 0 .. n : Maxima(reading, n)[k] \in maxima
         /\ \A k \in 0 .. n - 1 : Covers(Maxima(reading, n)[k + 1], reading[k])
<1> DEFINE max == Maxima(reading, n)
           S == {m \in Nat : m <= n => max[m] \in maxima}
<1>1. /\ max[0] = g_curr_max
      /\ \A k \in 0 .. n - 1 : max[k + 1] = Raised(max[k], reading[k])
  <2>1. max = [k \in 0 .. n |-> IF k = 0 THEN g_curr_max
                                ELSE Raised(max[k - 1], reading[k - 1])]
    BY MaximaDef
  <2> HIDE DEF max
  <2> QED BY <2>1
<1> HIDE DEF max
<1>2. 0 \in S
  BY <1>1
<1>3. ASSUME NEW m \in Nat, m \in S PROVE m + 1 \in S
  BY <1>1, <1>3, RaisedType
<1>4. \A m \in Nat : m \in S
  <2> HIDE DEF S
  <2> QED BY <1>2, <1>3, SetInduction
<1>5. \A k \in 0 .. n : max[k] \in maxima
  BY <1>4
<1>6. ASSUME NEW k \in 0 .. n - 1 PROVE Covers(max[k + 1], reading[k])
  <2>1. max[k] \in maxima /\ reading[k] \in metric
    BY <1>5
  <2> QED BY <1>1, <2>1, RaisedType
<1> QED BY <1>5, <1>6 DEF max

-----------------------------------------------------------------------------
(* So are the readings of read_allocation_status. *)
LEMMA PagesReadDef ==
  ASSUME NEW at, total_obj \in Nat
  PROVE  PagesRead(at) =
           [k \in 0 .. total_obj |->
              IF k = 0 THEN g_status_memory_pages
              ELSE IF obj_alloc[k - 1] # 1 THEN PagesRead(at)[k - 1]
              ELSE query_status_memory_pages(PagesRead(at)[k - 1], at[k - 1],
                                             obj_vector[k - 1].size)]
<1> DEFINE Def(f, m) ==
             f = [k \in 0 .. m |->
                    IF k = 0 THEN g_status_memory_pages
                    ELSE IF obj_alloc[k - 1] # 1 THEN f[k - 1]
                    ELSE query_status_memory_pages(f[k - 1], at[k - 1],
                                                   obj_vector[k - 1].size)]
           S == {m \in Nat : \E f : Def(f, m)}
<1>1. 0 \in S
  <2>1. Def([k \in 0 .. 0 |-> g_status_memory_pages], 0)
    OBVIOUS
  <2> HIDE DEF Def
  <2> QED BY <2>1
<1>2. ASSUME NEW m \in Nat, m \in S PROVE m + 1 \in S
  <2>1. PICK f : Def(f, m)
    BY <1>2
  <2> DEFINE g == [k \in 0 .. m + 1 |->
                     IF k # m + 1 THEN f[k]
                     ELSE IF obj_alloc[m] # 1 THEN f[m]
                     ELSE query_status_memory_pages(f[m], at[m],
                                                    obj_vector[m].size)]
  <2>2. Def(g, m + 1)
    BY <2>1
  <2> HIDE DEF Def, g
  <2> QED BY <2>2
<1>3. total_obj \in S
  <2> HIDE DEF S
  <2> QED BY <1>1, <1>2, SetInduction
<1>4. \E f : Def(f, total_obj)
  BY <1>3
<1>5. PagesRead(at) = CHOOSE f : Def(f, total_obj)
  BY DEF PagesRead
<1>6. Def(PagesRead(at), total_obj)
  <2> HIDE DEF Def
  <2> QED BY <1>4, <1>5
<1> QED BY <1>6

(* The division by the pages of an object has a divisor: a size that is a  *)
(* multiple of PAGE and not 0 is at least a page.                          *)
LEMMA QueryType ==
  ASSUME NEW before \in shares, NEW at \in Placements, NEW size \in Nat \ {0}
  PROVE  query_status_memory_pages(before, at, size) \in shares
<1> DEFINE pages == size \div PAGE
           read == query_status_memory_pages(before, at, size)
           carried(x) == IF x < 0 THEN -(-x \div pages) ELSE x \div pages
<1>1. /\ SHARE \in Nat /\ PAGE \in Nat \ {0}
      /\ before.dram \in Int /\ before.pmem \in Int
      /\ at.dram \in Nat /\ at.pmem \in Nat
  BY ActuatorAssumption DEF shares
<1>2. ASSUME size % PAGE = 0 PROVE pages \in Nat \ {0}
  BY <1>1, <1>2
<1>3. ASSUME size % PAGE = 0, NEW x \in Int PROVE carried(x) \in Int
  <2> HIDE DEF pages
  <2> QED BY <1>2, <1>3
<1>4. read = [node \in {"dram", "pmem"} |->
                IF size % PAGE # 0 THEN -SHARE ELSE at[node] + carried(before[node])]
  BY DEF query_status_memory_pages
<1>5. read = [dram |-> read["dram"], pmem |-> read["pmem"]]
  <2> HIDE DEF read, carried
  <2> QED BY <1>4
<1>6. /\ read.dram = IF size % PAGE # 0 THEN -SHARE ELSE at.dram + carried(before.dram)
      /\ read.pmem = IF size % PAGE # 0 THEN -SHARE ELSE at.pmem + carried(before.pmem)
  <2> HIDE DEF read, carried
  <2> QED BY <1>4
<1>7. read.dram \in Int /\ read.pmem \in Int
  <2> HIDE DEF read, carried
  <2> QED BY <1>1, <1>3, <1>6
<1> HIDE DEF read
<1> QED BY <1>5, <1>7 DEF shares, read

(* What the recorder promises of the objects it has counted *)
Recorded ==
  \A i \in Slots : i < total_obj =>
    obj_vector[i].start_addr \in Nat /\ obj_vector[i].size \in Nat \ {0}

(* The counts carried from object to object are numbers. *)
LEMMA PagesReadType ==
  ASSUME TierTypeOK, Recorded, NEW at \in PlacedSomehow,
         g_status_memory_pages \in shares
  PROVE  \A k \in 0 .. total_obj : PagesRead(at)[k] \in shares
<1> DEFINE reading == PagesRead(at)
           S == {m \in Nat : m <= total_obj => reading[m] \in shares}
<1>1. total_obj \in Nat /\ MAX_OBJECTS \in Nat /\ total_obj <= MAX_OBJECTS
  BY TierAssumption DEF TierTypeOK
<1>2. /\ reading[0] = g_status_memory_pages
      /\ \A k \in 0 .. total_obj - 1 :
           reading[k + 1] = IF obj_alloc[k] # 1 THEN reading[k]
                            ELSE query_status_memory_pages(reading[k], at[k],
                                                           obj_vector[k].size)
  <2>1. reading = [k \in 0 .. total_obj |->
                     IF k = 0 THEN g_status_memory_pages
                     ELSE IF obj_alloc[k - 1] # 1 THEN reading[k - 1]
                     ELSE query_status_memory_pages(reading[k - 1], at[k - 1],
                                                    obj_vector[k - 1].size)]
    BY <1>1, PagesReadDef
  <2> HIDE DEF reading
  <2> QED BY <1>1, <2>1
<1> HIDE DEF reading
<1>3. 0 \in S
  BY <1>2
<1>4. ASSUME NEW m \in Nat, m \in S PROVE m + 1 \in S
  <2> SUFFICES ASSUME m < total_obj PROVE reading[m + 1] \in shares
    BY <1>1
  <2>1. m \in 0 .. total_obj - 1 /\ m \in Slots /\ reading[m] \in shares
    BY <1>1, <1>4 DEF Slots
  <2>2. CASE obj_alloc[m] # 1
    BY <1>2, <2>1, <2>2
  <2>3. CASE obj_alloc[m] = 1
    <3>1. at[m] \in Placements
      BY <2>1, <2>3 DEF PlacedSomehow
    <3>2. obj_vector[m].size \in Nat \ {0}
      BY <2>1 DEF Recorded
    <3>3. query_status_memory_pages(reading[m], at[m], obj_vector[m].size) \in shares
      BY <2>1, <3>1, <3>2, QueryType
    <3> QED BY <1>2, <2>1, <2>3, <3>3
  <2> QED BY <2>2, <2>3
<1>5. \A m \in Nat : m \in S
  <2> HIDE DEF S
  <2> QED BY <1>3, <1>4, SetInduction
<1> QED BY <1>1, <1>5 DEF reading

(* So is what read_allocation_status leaves. *)
LEMMA ReadingType ==
  ASSUME TierTypeOK, Recorded, NEW at \in PlacedSomehow,
         g_status_memory_pages \in shares, page_status \in [Slots -> shares],
         read_allocation_status(at)
  PROVE  page_status' \in [Slots -> shares] /\ g_status_memory_pages' \in shares
<1>1. total_obj \in Nat
  BY TierAssumption DEF TierTypeOK
<1>2. \A k \in 0 .. total_obj : PagesRead(at)[k] \in shares
  BY PagesReadType
<1>3. /\ page_status' = [i \in Slots |-> IF i < total_obj /\ obj_alloc[i] = 1
                                         THEN PagesRead(at)[i + 1] ELSE page_status[i]]
      /\ g_status_memory_pages' = PagesRead(at)[total_obj]
  BY DEF read_allocation_status
<1>4. g_status_memory_pages' \in shares
  BY <1>1, <1>2, <1>3
<1>5. ASSUME NEW i \in Slots, i < total_obj PROVE PagesRead(at)[i + 1] \in shares
  BY <1>1, <1>2, <1>5 DEF Slots
<1> QED BY <1>3, <1>4, <1>5

-----------------------------------------------------------------------------
(***************************************************************************)
(* The inductive invariant of the actuator.  The list names objects that   *)
(* have been counted, each once (Listed), and the loop variable stays in   *)
(* it (Position).  While a demotion is being waited for, count is below    *)
(* the threshold (Spaced); an object that is being demoted has passed the  *)
(* test of policy_demotion, however long the write waits (Aged).           *)
(***************************************************************************)
Listed ==
  /\ \A p \in 1 .. Len(g_key_value_list) : g_key_value_list[p].key < total_obj
  /\ \A p, q \in 1 .. Len(g_key_value_list) :
       g_key_value_list[p].key = g_key_value_list[q].key => p = q

Position ==
  /\ apc \in {"wait", "loop", "pressure", "flag", "done"} => ai = 0
  /\ apc = "demote" => ai <= Len(g_key_value_list)
  /\ apc = "promote" => ai >= 1
  /\ apc \in {"send_demotion", "sent_demotion", "send_promotion", "sent_promotion"} =>
       ai \in 1 .. Len(g_key_value_list)

Spaced ==
  g_has_demotion = 1 /\ apc \notin {"demote", "send_demotion", "sent_demotion"} =>
    count <= 1

Aged ==
  apc \in {"send_demotion", "sent_demotion"} =>
    now - birth_date[Entry.key] > MIN_LIFETIME

ActuatorInv ==
  /\ ActuatorTypeOK
  /\ g_curr_max \in maxima
  /\ Listed
  /\ Position
  /\ Spaced
  /\ Aged

(* The initial state *)
LEMMA ActuatorInvInit == ActuatorInit => ActuatorInv
  BY ActuatorAssumption
  DEF ActuatorInit, ActuatorInv, ActuatorTypeOK, APC, maxima, metric, Unread, shares,
      Listed, Position, Spaced, Aged

(* The object at a position of the list *)
LEMMA EntryType ==
  ASSUME TierTypeOK, ActuatorInv, ai \in 1 .. Len(g_key_value_list)
  PROVE  /\ Entry \in key_value
         /\ Entry.key \in Slots /\ Entry.key < total_obj
         /\ dramAlloc(Entry.key) \in Int /\ pmemAlloc(Entry.key) \in Int
<1>1. Entry \in key_value
  BY DEF Entry, ActuatorInv, ActuatorTypeOK
<1>2. Entry.key \in Slots
  BY <1>1 DEF key_value
<1>3. Entry.key < total_obj
  BY DEF Entry, ActuatorInv, Listed
<1>4. /\ obj_vector[Entry.key].size \in Nat
      /\ page_status[Entry.key].dram \in Int /\ page_status[Entry.key].pmem \in Int
  BY <1>2 DEF TierTypeOK, object_t, ActuatorInv, ActuatorTypeOK, shares
<1>5. \A a \in Nat, b \in Int : a * b \in Int
  OBVIOUS
<1> QED BY <1>1, <1>2, <1>3, <1>4, <1>5 DEF dramAlloc, pmemAlloc

-----------------------------------------------------------------------------
(* What the others do between two steps of the actuator: objects are added *)
(* and released, orders come and go, time passes.                          *)
LEMMA OthersKeepActuatorInv ==
  ASSUME TierTypeOK, TierTypeOK', ActuatorInv,
         UNCHANGED <<apc, listVars, spacingVars, ai, max_migration_gb, readings>>,
         g_running_actuator' \in BOOLEAN,
         total_obj' >= total_obj, now' >= now,
         \A i \in Slots : i < total_obj => birth_date'[i] = birth_date[i]
  PROVE  ActuatorInv'
<1> USE DEF listVars, spacingVars, readings
<1>1. ActuatorTypeOK' /\ g_curr_max' \in maxima
  BY DEF ActuatorInv, ActuatorTypeOK
<1>2. Listed'
  <2>1. ASSUME NEW p \in 1 .. Len(g_key_value_list)
        PROVE  g_key_value_list[p].key \in Int /\ g_key_value_list[p].key < total_obj
    <3>1. g_key_value_list[p] \in key_value
      BY DEF ActuatorInv, ActuatorTypeOK
    <3> QED BY <3>1, TierAssumption DEF ActuatorInv, Listed, key_value, Slots
  <2>2. total_obj \in Int /\ total_obj' \in Int
    BY DEF TierTypeOK
  <2> QED BY <2>1, <2>2 DEF ActuatorInv, Listed
<1>3. Position' /\ Spaced'
  BY DEF ActuatorInv, Position, Spaced
<1>4. Aged'
  <2> SUFFICES ASSUME apc \in {"send_demotion", "sent_demotion"}
               PROVE  now' - birth_date'[Entry.key] > MIN_LIFETIME
    BY DEF Aged, Entry
  <2>1. Entry.key \in Slots /\ Entry.key < total_obj
    BY EntryType DEF ActuatorInv, Position
  <2>2. now - birth_date[Entry.key] > MIN_LIFETIME
    BY DEF ActuatorInv, Aged
  <2>3. birth_date[Entry.key] \in Nat /\ now \in Nat /\ now' \in Nat
    BY <2>1 DEF TierTypeOK
  <2> QED BY <2>1, <2>2, <2>3, ActuatorAssumption
<1> QED BY <1>1, <1>2, <1>3, <1>4 DEF ActuatorInv

(* The steps of the thread that move its own counters only *)
LEMMA ControlKeepsInv ==
  ASSUME TierTypeOK, ActuatorInv,
         \/ AwaitPressure \/ LetPeriodPass \/ NoPressure \/ EndDemotion
         \/ NoPromotion \/ EndPromotion \/ ActuatorExit
  PROVE  ActuatorInv' /\ UNCHANGED tierVars
<1> USE DEF tierVars, listVars, spacingVars, readings
<1>1. CASE AwaitPressure \/ NoPressure \/ ActuatorExit
  BY <1>1 DEF AwaitPressure, NoPressure, ActuatorExit, ActuatorInv, ActuatorTypeOK,
              APC, Listed, Position, Spaced, Aged
<1>2. CASE LetPeriodPass
  <2>1. count \in 0 .. 1
    BY <1>2 DEF LetPeriodPass, ActuatorInv, ActuatorTypeOK, Spaced
  <2>2. /\ apc' = "flag" /\ count' = count + 1
        /\ g_has_demotion' = IF count + 1 >= 2 THEN 0 ELSE 1
        /\ UNCHANGED <<g_running_actuator, listVars, ai, max_migration_gb, readings,
                       tierVars>>
        /\ ai = 0
    BY <1>2 DEF LetPeriodPass, Waited, ActuatorInv, Position
  <2>3. ActuatorTypeOK'
    BY <2>1, <2>2 DEF ActuatorInv, ActuatorTypeOK, APC
  <2> QED BY <2>1, <2>2, <2>3 DEF ActuatorInv, Listed, Position, Spaced, Aged
<1>3. Unread \in [Slots -> shares]
  BY DEF Unread, shares
<1>4. CASE EndDemotion
  <2>1. /\ apc' = "flag" /\ ai = 0 /\ count' = 0 /\ max_migration_gb' = 0
        /\ page_status' = Unread
        /\ UNCHANGED <<g_running_actuator, listVars, g_has_demotion, ai,
                       current_free_dram, g_status_memory_pages, tierVars>>
    BY <1>4 DEF EndDemotion, CountAfterDemotion
  <2>2. ActuatorTypeOK'
    BY <1>3, <2>1 DEF ActuatorInv, ActuatorTypeOK, APC
  <2>3. Listed' /\ Position' /\ Spaced' /\ Aged'
    BY <2>1 DEF ActuatorInv, Listed, Position, Spaced, Aged
  <2> QED BY <2>1, <2>2, <2>3 DEF ActuatorInv
<1>5. CASE NoPromotion \/ EndPromotion
  <2>1. /\ apc' = "loop" /\ ai' = 0 /\ page_status' = Unread
        /\ g_key_value_list' = << >> /\ g_promotion_flag' = 0
        /\ max_migration_gb' \in {0, max_migration_gb}
        /\ current_free_dram' \in {0, current_free_dram}
        /\ UNCHANGED <<g_running_actuator, g_curr_max, spacingVars,
                       g_status_memory_pages, tierVars>>
        /\ apc \notin {"demote", "send_demotion", "sent_demotion"}
    BY <1>5 DEF NoPromotion, EndPromotion, EndPeriod, ActuatorInv, Position
  <2>2. << >> \in Seq(key_value) /\ Len(<< >>) = 0
    OBVIOUS
  <2>3. ActuatorTypeOK'
    BY <1>3, <2>1, <2>2 DEF ActuatorInv, ActuatorTypeOK, APC
  <2>4. Listed' /\ Position' /\ Spaced' /\ Aged'
    BY <2>1, <2>2 DEF ActuatorInv, Listed, Position, Spaced, Aged
  <2> QED BY <2>1, <2>3, <2>4 DEF ActuatorInv
<1> QED BY <1>1, <1>2, <1>4, <1>5

(* A period starts with a new list. *)
LEMMA SortKeepsInv ==
  ASSUME TierTypeOK, ActuatorInv, sort_objects
  PROVE  ActuatorInv' /\ UNCHANGED tierVars
<1>1. PICK n \in {0, total_obj} :
        \E reading \in [0 .. n - 1 -> Readings] :
        \E value \in {Values(reading, n)}, order \in Orders(n) :
          /\ Sorted(order, value)
          /\ g_curr_max' = Maxima(reading, n)[n]
          /\ g_key_value_list' =
               [p \in 1 .. n |-> [key |-> order[p], value |-> value[order[p]],
                                  trace |-> reading[order[p]]]]
  BY DEF sort_objects
<1>2. PICK reading \in [0 .. n - 1 -> Readings], order \in Orders(n) :
        /\ g_curr_max' = Maxima(reading, n)[n]
        /\ g_key_value_list' =
             [p \in 1 .. n |->
                [key |-> order[p], value |-> Values(reading, n)[order[p]],
                 trace |-> reading[order[p]]]]
  BY <1>1
<1> DEFINE max == Maxima(reading, n)
           value == [i \in 0 .. n - 1 |-> Normalised(reading[i], max[i + 1])]
<1>3. /\ n \in Nat /\ n <= total_obj /\ total_obj \in Nat
      /\ total_obj <= MAX_OBJECTS /\ MAX_OBJECTS \in Nat
  BY TierAssumption DEF TierTypeOK
<1>4. reading \in [0 .. n - 1 -> metric]
  BY ActuatorAssumption
<1>5. /\ \A k \in 0 .. n : max[k] \in maxima
      /\ \A k \in 0 .. n - 1 : Covers(max[k + 1], reading[k])
  BY <1>3, <1>4, MaximaType DEF ActuatorInv
<1>6. \A i \in 0 .. n - 1 : value[i] \in 0 .. 300
  <2> SUFFICES ASSUME NEW i \in 0 .. n - 1
               PROVE  Normalised(reading[i], max[i + 1]) \in 0 .. 300
    OBVIOUS
  <2>1. i + 1 \in 0 .. n
    BY <1>3
  <2>2. max[i + 1] \in maxima /\ reading[i] \in metric /\ Covers(max[i + 1], reading[i])
    <3> HIDE DEF max
    <3> QED BY <1>4, <1>5, <2>1
  <2> HIDE DEF max
  <2> QED BY <2>2, NormalisedType
<1>7. order \in [1 .. n -> 0 .. n - 1] /\ \A p, q \in 1 .. n : order[p] = order[q] => p = q
  BY DEF Orders
<1>8. g_key_value_list' = [p \in 1 .. n |-> [key |-> order[p], value |-> value[order[p]],
                                             trace |-> reading[order[p]]]]
  BY <1>2 DEF Values
<1>9. g_curr_max' \in maxima
  <2> HIDE DEF max
  <2> QED BY <1>2, <1>3, <1>5 DEF max
<1> HIDE DEF max, value
<1>10. ASSUME NEW p \in 1 .. n
       PROVE  [key |-> order[p], value |-> value[order[p]],
               trace |-> reading[order[p]]] \in key_value
  <2>1. order[p] \in 0 .. n - 1
    BY <1>7
  <2>2. order[p] \in Slots
    BY <1>3, <2>1 DEF Slots
  <2>3. value[order[p]] \in 0 .. 300 /\ reading[order[p]] \in metric
    BY <1>4, <1>6, <2>1
  <2> QED BY <2>2, <2>3 DEF key_value
<1>11. g_key_value_list' \in Seq(key_value) /\ Len(g_key_value_list') = n
  BY <1>3, <1>8, <1>10
<1>12. Listed'
  <2>1. \A p \in 1 .. n : g_key_value_list'[p].key = order[p] /\ order[p] < total_obj
    BY <1>3, <1>7, <1>8
  <2>2. UNCHANGED total_obj
    BY DEF sort_objects, tierVars
  <2>3. \A p \in 1 .. n : g_key_value_list'[p].key < total_obj'
    BY <2>1, <2>2
  <2>4. \A p, q \in 1 .. n :
          g_key_value_list'[p].key = g_key_value_list'[q].key => p = q
    BY <1>7, <2>1
  <2> QED BY <1>11, <2>3, <2>4 DEF Listed
<1>13. ActuatorTypeOK'
  <2>1. g_curr_max' \in metric
    BY <1>9 DEF metric, maxima
  <2>2. g_promotion_flag' \in {0, 1}
    BY DEF sort_objects
  <2>3. /\ apc' = "pressure" /\ ai' = 0
        /\ UNCHANGED <<g_running_actuator, g_has_demotion, count, max_migration_gb,
                       current_free_dram, page_status, g_status_memory_pages>>
    BY DEF sort_objects, spacingVars, readings, ActuatorInv, Position
  <2> QED BY <1>3, <1>11, <2>1, <2>2, <2>3 DEF ActuatorInv, ActuatorTypeOK, APC
<1>14. Position' /\ Spaced' /\ Aged'
  BY DEF sort_objects, spacingVars, ActuatorInv, Position, Spaced, Aged
<1>15. UNCHANGED tierVars
  BY DEF sort_objects
<1> QED BY <1>9, <1>12, <1>13, <1>14, <1>15 DEF ActuatorInv

(* The page status is read before a policy runs. *)
LEMMA ReadsKeepInv ==
  ASSUME TierTypeOK, Recorded, ActuatorInv, NEW at \in PlacedSomehow, ActuatorReads(at)
  PROVE  ActuatorInv' /\ UNCHANGED tierVars
<1>1. /\ page_status' \in [Slots -> shares] /\ g_status_memory_pages' \in shares
      /\ UNCHANGED tierVars
  BY ReadingType DEF ActuatorReads, StartDemotion, StartPromotion, ActuatorInv,
     ActuatorTypeOK
<1>2. g_key_value_list \in Seq(key_value) /\ Len(g_key_value_list) \in Nat
  BY DEF ActuatorInv, ActuatorTypeOK
<1>3. CHUNK_SIZE * SHARE \in Int
  BY TierAssumption, ActuatorAssumption
<1>4. /\ \/ apc' = "demote" /\ ai' = Len(g_key_value_list)
         \/ apc' = "promote" /\ ai' = 1
      /\ max_migration_gb' = CHUNK_SIZE * SHARE
      /\ current_free_dram' \in FreeLevels \cup {current_free_dram}
      /\ apc \in {"pressure", "flag"}
      /\ UNCHANGED <<g_running_actuator, g_key_value_list, g_promotion_flag, g_curr_max,
                     g_has_demotion, count>>
  BY DEF ActuatorReads, StartDemotion, StartPromotion, listVars, spacingVars
<1>5. ActuatorTypeOK'
  <2>1. ai' \in 0 .. Len(g_key_value_list) + 1
    BY <1>2, <1>4
  <2> QED BY <1>1, <1>3, <1>4, <2>1 DEF ActuatorInv, ActuatorTypeOK, APC
<1>6. Listed' /\ Position' /\ Spaced' /\ Aged'
  BY <1>1, <1>2, <1>4 DEF ActuatorInv, Listed, Position, Spaced, Aged, tierVars
<1> QED BY <1>1, <1>4, <1>5, <1>6 DEF ActuatorInv

(* The tests of the two policies *)
LEMMA TestsKeepInv ==
  ASSUME TierTypeOK, ActuatorInv, TestDemotion \/ TestPromotion
  PROVE  ActuatorInv' /\ UNCHANGED tierVars
<1>1. Len(g_key_value_list) \in Nat /\ ai \in 0 .. Len(g_key_value_list) + 1
  BY DEF ActuatorInv, ActuatorTypeOK
<1>2. /\ UNCHANGED <<g_running_actuator, g_key_value_list, g_promotion_flag, g_curr_max,
                     g_has_demotion, count, max_migration_gb, current_free_dram,
                     page_status, g_status_memory_pages>>
      /\ UNCHANGED tierVars
  BY DEF TestDemotion, TestPromotion, listVars, spacingVars, readings
<1>3. CASE TestDemotion
  <2>1. /\ apc = "demote" /\ ai \in 1 .. Len(g_key_value_list)
        /\ \/ /\ apc' = "send_demotion" /\ ai' = ai
              /\ now - birth_date[Entry.key] > MIN_LIFETIME
           \/ apc' = "demote" /\ ai' = ai - 1
    BY <1>1, <1>3 DEF TestDemotion, Demotable, ActuatorInv, Position
  <2>2. ActuatorTypeOK'
    BY <1>1, <1>2, <2>1 DEF ActuatorInv, ActuatorTypeOK, APC
  <2>3. Listed' /\ Position' /\ Spaced'
    BY <1>1, <1>2, <2>1 DEF ActuatorInv, Listed, Position, Spaced, tierVars
  <2>4. Aged'
    BY <1>2, <2>1 DEF Aged, Entry, tierVars
  <2> QED BY <1>2, <2>2, <2>3, <2>4 DEF ActuatorInv
<1>4. CASE TestPromotion
  <2>1. /\ apc = "promote" /\ ai \in 1 .. Len(g_key_value_list)
        /\ \/ apc' = "send_promotion" /\ ai' = ai
           \/ apc' = "promote" /\ ai' \in 1 .. Len(g_key_value_list) + 1
    BY <1>1, <1>4 DEF TestPromotion, NextHottest, ActuatorInv, Position
  <2>2. ActuatorTypeOK'
    BY <1>1, <1>2, <2>1 DEF ActuatorInv, ActuatorTypeOK, APC
  <2>3. Listed' /\ Position' /\ Spaced' /\ Aged'
    BY <1>1, <1>2, <2>1 DEF ActuatorInv, Listed, Position, Spaced, Aged, tierVars
  <2> QED BY <1>2, <2>2, <2>3 DEF ActuatorInv
<1> QED BY <1>3, <1>4

(* The record bind_order writes, for an object that has been counted *)
OrderFor(i, node, type, flag) ==
  [start_addr |-> obj_vector[i].start_addr, size |-> obj_vector[i].size,
   node |-> node, obj_index |-> i, type |-> type, flag |-> flag]

(* An order that is written is a record of the pipe. *)
LEMMA BindOrderType ==
  ASSUME TierTypeOK, Recorded, NEW i \in Slots, i < total_obj,
         NEW node \in {NODE_0_DRAM, NODE_0_PMEM}, NEW type \in {PROMOTION, DEMOTION},
         bind_order(i, node, type, MPOL_MF_MOVE)
  PROVE  /\ OrderFor(i, node, type, MPOL_MF_MOVE) \in data_bind_t
         /\ pipe' = Append(pipe, OrderFor(i, node, type, MPOL_MF_MOVE))
         /\ pipe' \in Seq(data_bind_t)
<1> DEFINE d == OrderFor(i, node, type, MPOL_MF_MOVE)
<1>1. d \in data_bind_t
  BY DEF OrderFor, Recorded, data_bind_t, MPOL_MF_MOVE
<1>2. pipe' = Append(pipe, d)
  BY DEF bind_order, OrderFor
<1> HIDE DEF d
<1>3. pipe' \in Seq(data_bind_t)
  BY <1>1, <1>2 DEF TierTypeOK
<1> QED BY <1>1, <1>2, <1>3 DEF d

(***************************************************************************)
(* What a policy does for an object: it writes an order that carries the   *)
(* object's range, and then stores the decision.  The object has been      *)
(* counted.                                                                *)
(***************************************************************************)
SentFor(i, node, type) ==
  /\ i \in Slots /\ i < total_obj
  /\ OrderFor(i, node, type, MPOL_MF_MOVE) \in data_bind_t
  /\ pipe' = Append(pipe, OrderFor(i, node, type, MPOL_MF_MOVE))
  /\ UNCHANGED <<obj_vector, obj_alloc, birth_date, last_decision, total_obj, now>>

StoredFor(i, node) ==
  /\ i \in Slots /\ i < total_obj
  /\ last_decision' = [last_decision EXCEPT ![i] = node]
  /\ UNCHANGED <<obj_vector, obj_alloc, total_obj, pipe, now>>

Demotes ==
  /\ apc = "send_demotion" /\ apc' = "sent_demotion"
  /\ SentFor(Entry.key, NODE_0_PMEM, DEMOTION)
  /\ UNCHANGED <<g_key_value_list, ai>>

Promotes ==
  /\ apc = "send_promotion" /\ apc' = "sent_promotion"
  /\ SentFor(Entry.key, NODE_0_DRAM, PROMOTION)
  /\ UNCHANGED <<g_key_value_list, ai>>

DemotionStored ==
  /\ apc = "sent_demotion" /\ apc' = "demote"
  /\ StoredFor(Entry.key, NODE_0_PMEM)
  /\ UNCHANGED birth_date

PromotionStored ==
  /\ apc = "sent_promotion" /\ apc' = "promote"
  /\ StoredFor(Entry.key, NODE_0_DRAM)
  /\ birth_date' = [birth_date EXCEPT ![Entry.key] = now]

(* The other steps leave the table and the pipe alone. *)
NoOrder ==
  /\ apc \notin {"send_demotion", "sent_demotion", "send_promotion", "sent_promotion"}
  /\ apc' \notin {"sent_demotion", "sent_promotion"}
  /\ UNCHANGED tierVars

(* The writes of the two policies *)
LEMMA SendsKeepInv ==
  ASSUME TierTypeOK, Recorded, ActuatorInv, SendDemotion \/ SendPromotion
  PROVE  /\ ActuatorInv' /\ TierTypeOK'
         /\ Demotes \/ Promotes
<1> DEFINE i == Entry.key
<1>1. ai \in 1 .. Len(g_key_value_list) /\ Len(g_key_value_list) \in Nat
  BY DEF SendDemotion, SendPromotion, ActuatorInv, ActuatorTypeOK, Position
<1>2. i \in Slots /\ i < total_obj
  BY <1>1, EntryType
<1>3. /\ \/ /\ bind_order(i, NODE_0_PMEM, DEMOTION, MPOL_MF_MOVE)
            /\ apc = "send_demotion" /\ apc' = "sent_demotion"
            /\ g_has_demotion' = 1
         \/ /\ bind_order(i, NODE_0_DRAM, PROMOTION, MPOL_MF_MOVE)
            /\ apc = "send_promotion" /\ apc' = "sent_promotion"
            /\ UNCHANGED g_has_demotion
      /\ UNCHANGED <<g_running_actuator, g_key_value_list, g_promotion_flag, g_curr_max,
                     count, ai, max_migration_gb, current_free_dram, page_status,
                     g_status_memory_pages>>
      /\ UNCHANGED <<obj_vector, obj_alloc, birth_date, last_decision, total_obj, now>>
  BY DEF SendDemotion, SendPromotion, listVars, spacingVars, readings
<1> HIDE DEF i
<1>4. \/ /\ apc = "send_demotion" /\ SentFor(i, NODE_0_PMEM, DEMOTION)
      \/ /\ apc = "send_promotion" /\ SentFor(i, NODE_0_DRAM, PROMOTION)
  BY <1>2, <1>3, BindOrderType DEF SentFor
<1>5. TierTypeOK'
  <2>1. pipe' \in Seq(data_bind_t)
    BY <1>2, <1>3, BindOrderType
  <2> QED BY <1>3, <2>1 DEF TierTypeOK
<1>6. ActuatorTypeOK'
  BY <1>3 DEF ActuatorInv, ActuatorTypeOK, APC
<1>7. Listed' /\ Position' /\ Spaced'
  BY <1>1, <1>3 DEF ActuatorInv, Listed, Position, Spaced
<1>8. Aged'
  BY <1>3 DEF ActuatorInv, Aged, Entry
<1>9. Demotes \/ Promotes
  BY <1>3, <1>4 DEF Demotes, Promotes, i
<1> QED BY <1>3, <1>5, <1>6, <1>7, <1>8, <1>9 DEF ActuatorInv

(* The stores of the two policies *)
LEMMA StoresKeepInv ==
  ASSUME TierTypeOK, ActuatorInv, StoreDemotion \/ StorePromotion
  PROVE  /\ ActuatorInv' /\ TierTypeOK'
         /\ DemotionStored \/ PromotionStored
<1> DEFINE i == Entry.key
<1>1. ai \in 1 .. Len(g_key_value_list) /\ Len(g_key_value_list) \in Nat
  BY DEF StoreDemotion, StorePromotion, ActuatorInv, ActuatorTypeOK, Position
<1>2. i \in Slots /\ i < total_obj /\ dramAlloc(i) \in Int /\ pmemAlloc(i) \in Int
  BY <1>1, EntryType
<1>3. /\ \/ /\ apc = "sent_demotion" /\ apc' = "demote"
            /\ last_decision' = [last_decision EXCEPT ![i] = NODE_0_PMEM]
            /\ UNCHANGED birth_date
            /\ max_migration_gb' = max_migration_gb - dramAlloc(i)
            /\ ai' \in {0, ai - 1}
         \/ /\ apc = "sent_promotion" /\ apc' = "promote"
            /\ last_decision' = [last_decision EXCEPT ![i] = NODE_0_DRAM]
            /\ birth_date' = [birth_date EXCEPT ![i] = now]
            /\ max_migration_gb' = max_migration_gb - pmemAlloc(i)
            /\ ai' \in {Len(g_key_value_list) + 1, ai + 1}
      /\ UNCHANGED <<g_running_actuator, g_key_value_list, g_promotion_flag, g_curr_max,
                     g_has_demotion, count, current_free_dram, page_status,
                     g_status_memory_pages>>
      /\ UNCHANGED <<obj_vector, obj_alloc, total_obj, pipe, now>>
  BY DEF StoreDemotion, StorePromotion, NextColdest, NextHottest, Reborn, listVars,
         spacingVars, readings
<1> HIDE DEF i
<1>4. TierTypeOK'
  BY <1>2, <1>3 DEF TierTypeOK
<1>5. ActuatorTypeOK'
  <2>1. max_migration_gb' \in Int
    BY <1>2, <1>3 DEF ActuatorInv, ActuatorTypeOK
  <2>2. ai' \in 0 .. Len(g_key_value_list) + 1
    BY <1>1, <1>3
  <2> QED BY <1>3, <2>1, <2>2 DEF ActuatorInv, ActuatorTypeOK, APC
<1>6. Listed' /\ Position' /\ Spaced' /\ Aged'
  BY <1>1, <1>3 DEF ActuatorInv, Listed, Position, Spaced, Aged
<1>7. DemotionStored \/ PromotionStored
  BY <1>2, <1>3 DEF DemotionStored, PromotionStored, StoredFor, i
<1> QED BY <1>3, <1>4, <1>5, <1>6, <1>7 DEF ActuatorInv

(* Every step of the thread keeps its invariant. *)
LEMMA ActuatorStepKeepsInv ==
  ASSUME TierTypeOK, Recorded, ActuatorInv, ActuatorStep
  PROVE  /\ ActuatorInv' /\ TierTypeOK'
         /\ NoOrder \/ Demotes \/ Promotes \/ DemotionStored \/ PromotionStored
<1>1. CASE SendDemotion \/ SendPromotion
  BY <1>1, SendsKeepInv
<1>2. CASE StoreDemotion \/ StorePromotion
  BY <1>2, StoresKeepInv
<1>3. CASE ~(SendDemotion \/ SendPromotion) /\ ~(StoreDemotion \/ StorePromotion)
  <2>1. ActuatorInv' /\ UNCHANGED tierVars
    BY <1>3, ReadsKeepInv, TestsKeepInv, SortKeepsInv, ControlKeepsInv
       DEF ActuatorStep, ActuatorActs
  <2>2. TierTypeOK'
    BY <2>1 DEF TierTypeOK, tierVars
  <2>3. /\ apc \notin {"send_demotion", "sent_demotion", "send_promotion",
                       "sent_promotion"}
        /\ apc' \notin {"sent_demotion", "sent_promotion"}
    BY <1>3 DEF ActuatorStep, ActuatorActs, ActuatorReads, StartDemotion,
       StartPromotion, AwaitPressure, sort_objects, LetPeriodPass, NoPressure,
       TestDemotion, EndDemotion, NoPromotion, TestPromotion, EndPromotion, EndPeriod,
       ActuatorExit
  <2> QED BY <2>1, <2>2, <2>3 DEF NoOrder
<1> QED BY <1>1, <1>2, <1>3
=============================================================================
