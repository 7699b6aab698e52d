---------------------------- MODULE MonitorProofs ----------------------------
(***************************************************************************)
(* What holds of the metrics for every table, every stream of samples and  *)
(* whatever the recorder does to the table while they are charged.         *)
(***************************************************************************)
EXTENDS MonitorSystem, RecorderProofs, WellFoundedInduction

(***************************************************************************)
(* The inductive invariant.  Stores are in two places: in the copy until   *)
(* update_metrics has passed the object, and in the metrics after it.      *)
(* Counted together they are at most the addresses in the hash map.        *)
(***************************************************************************)
Pending(i) == mpc = "read" \/ (mpc = "update" /\ i >= mi)

Credit ==
  [i \in Slots |-> metrics[i].stores_count
                     + (IF Pending(i) THEN copy[i].stores_count ELSE 0)]

StoresCredited ==
  /\ IsFiniteSet(g_hashmap)
  /\ SlotSum(Credit) <= 100 * Cardinality(g_hashmap)

MonitorInv == RecorderInv /\ MonitorTypeOK /\ TlbWithinLoads /\ StoresCredited

-----------------------------------------------------------------------------
(***************************************************************************)
(* Induction on the naturals for a set of numbers in place of a formula,   *)
(* in which form the provers can use it: it shows that the recursive       *)
(* functions of the model exist and what they compute.                     *)
(***************************************************************************)

(* A set of naturals that is not empty has a least element. *)
LEMMA LeastNatural ==
  ASSUME NEW T \in SUBSET Nat, T # {}
  PROVE  \E n \in T : \A m \in T : n <= m
<1> DEFINE Less == OpToRel(<, Nat)
           Pairs == {ss \in Nat \X Nat : ss[1] < ss[2]}
<1>1. Less = Pairs
  BY Zenon DEF OpToRel
<1>2. \E x \in T : \A y \in T : <<y, x>> \notin Less
  BY NatLessThanWellFounded, WFMin, Zenon
<1>3. \E x \in T : \A y \in T : <<y, x>> \notin Pairs
  <2> HIDE DEF Less, Pairs
  <2> QED BY <1>1, <1>2
<1>4. PICK x \in T : \A y \in T : <<y, x>> \notin Pairs
  BY <1>3
<1>5. ASSUME NEW y \in T PROVE x <= y
  <2>1. <<y, x>> \notin Pairs
    BY <1>4
  <2> QED BY <2>1
<1> QED BY <1>5

(* A set with 0 in it, and with every number its successor, has all. *)
LEMMA SetInduction ==
  ASSUME NEW S, 0 \in S, \A n \in Nat : n \in S => n + 1 \in S
  PROVE  \A n \in Nat : n \in S
<1> DEFINE T == Nat \ S
<1> SUFFICES ASSUME T # {} PROVE FALSE
  OBVIOUS
<1>1. PICK n \in T : \A m \in T : n <= m
  BY LeastNatural
<1>2. n \in Nat /\ n # 0 /\ n - 1 \in Nat /\ n - 1 \notin T
  BY <1>1
<1>3. (n - 1) + 1 \in S
  BY <1>2
<1> QED BY <1>1, <1>2, <1>3

-----------------------------------------------------------------------------
(* SlotSum is the sum its recursion says. *)
LEMMA SlotSumDef ==
  ASSUME NEW f
  PROVE  \E sum : /\ sum = [k \in 0 .. MAX_OBJECTS |->
                              IF k = 0 THEN 0 ELSE sum[k - 1] + f[k - 1]]
                  /\ SlotSum(f) = sum[MAX_OBJECTS]
<1> DEFINE Def(g, m) == g = [k \in 0 .. m |-> IF k = 0 THEN 0 ELSE g[k - 1] + f[k - 1]]
           S == {m \in Nat : \E g : Def(g, m)}
<1>1. 0 \in S
  <2>1. Def([k \in 0 .. 0 |-> 0], 0)
    OBVIOUS
  <2> HIDE DEF Def
  <2> QED BY <2>1
<1>2. ASSUME NEW m \in Nat, m \in S PROVE m + 1 \in S
  <2>1. PICK g : Def(g, m)
    BY <1>2
  <2> DEFINE h == [k \in 0 .. m + 1 |-> IF k = m + 1 THEN g[m] + f[m] ELSE g[k]]
  <2>2. Def(h, m + 1)
    BY <2>1
  <2> HIDE DEF Def, h
  <2> QED BY <2>2
<1>3. MAX_OBJECTS \in S
  <2> HIDE DEF S
  <2> QED BY <1>1, <1>2, SetInduction, TierAssumption
<1>4. \E g : Def(g, MAX_OBJECTS)
  BY <1>3
<1> DEFINE sum == CHOOSE g : Def(g, MAX_OBJECTS)
<1>5. Def(sum, MAX_OBJECTS)
  <2> HIDE DEF Def
  <2> QED BY <1>4
<1>6. SlotSum(f) = sum[MAX_OBJECTS]
  BY DEF SlotSum
<1> HIDE DEF sum
<1> QED BY <1>5, <1>6

(* Where only one summand is larger, and by d at most, so is the sum. *)
LEMMA SlotSumGrows ==
  ASSUME NEW f \in [Slots -> Nat], NEW g \in [Slots -> Nat], NEW i \in Slots, NEW d \in Nat,
         \A k \in Slots : g[k] <= f[k] + (IF k = i THEN d ELSE 0)
  PROVE  SlotSum(f) \in Nat /\ SlotSum(g) \in Nat /\ SlotSum(g) <= SlotSum(f) + d
<1>1. MAX_OBJECTS \in Nat /\ i \in Nat /\ i < MAX_OBJECTS
  BY TierAssumption DEF Slots
<1>2. PICK s : /\ s = [k \in 0 .. MAX_OBJECTS |-> IF k = 0 THEN 0 ELSE s[k - 1] + f[k - 1]]
               /\ SlotSum(f) = s[MAX_OBJECTS]
  BY SlotSumDef
<1>3. PICK t : /\ t = [k \in 0 .. MAX_OBJECTS |-> IF k = 0 THEN 0 ELSE t[k - 1] + g[k - 1]]
               /\ SlotSum(g) = t[MAX_OBJECTS]
  BY SlotSumDef
<1> DEFINE S == {m \in Nat : m <= MAX_OBJECTS =>
                   /\ s[m] \in Nat /\ t[m] \in Nat
                   /\ t[m] <= s[m] + (IF m > i THEN d ELSE 0)}
<1>4. 0 \in S
  BY <1>1, <1>2, <1>3
<1>5. ASSUME NEW m \in Nat, m \in S PROVE m + 1 \in S
  <2> SUFFICES ASSUME m + 1 <= MAX_OBJECTS
               PROVE  /\ s[m + 1] \in Nat /\ t[m + 1] \in Nat
                      /\ t[m + 1] <= s[m + 1] + (IF m + 1 > i THEN d ELSE 0)
    BY <1>1
  <2>1. m \in Slots /\ m + 1 \in 0 .. MAX_OBJECTS /\ m + 1 # 0 /\ (m + 1) - 1 = m
    BY <1>1 DEF Slots
  <2>2. s[m + 1] = s[m] + f[m] /\ t[m + 1] = t[m] + g[m]
    BY <1>2, <1>3, <2>1
  <2>3. /\ s[m] \in Nat /\ t[m] \in Nat /\ t[m] <= s[m] + (IF m > i THEN d ELSE 0)
        /\ f[m] \in Nat /\ g[m] \in Nat /\ g[m] <= f[m] + (IF m = i THEN d ELSE 0)
    BY <1>1, <1>5, <2>1
  <2> QED BY <1>1, <2>2, <2>3
<1>6. MAX_OBJECTS \in S
  <2> HIDE DEF S
  <2> QED BY <1>1, <1>4, <1>5, SetInduction
<1>7. /\ s[MAX_OBJECTS] \in Nat /\ t[MAX_OBJECTS] \in Nat
      /\ t[MAX_OBJECTS] <= s[MAX_OBJECTS] + d
  BY <1>1, <1>6
<1> QED BY <1>2, <1>3, <1>7

(* A sum of zeros *)
LEMMA SlotSumZero ==
  ASSUME NEW f, \A k \in Slots : f[k] = 0
  PROVE  SlotSum(f) = 0
<1>1. MAX_OBJECTS \in Nat
  BY TierAssumption
<1>2. PICK s : /\ s = [k \in 0 .. MAX_OBJECTS |-> IF k = 0 THEN 0 ELSE s[k - 1] + f[k - 1]]
               /\ SlotSum(f) = s[MAX_OBJECTS]
  BY SlotSumDef
<1> DEFINE S == {m \in Nat : m <= MAX_OBJECTS => s[m] = 0}
<1>3. 0 \in S
  BY <1>1, <1>2
<1>4. ASSUME NEW m \in Nat, m \in S PROVE m + 1 \in S
  <2> SUFFICES ASSUME m + 1 <= MAX_OBJECTS PROVE s[m + 1] = 0
    BY <1>1
  <2>1. m \in Slots /\ m + 1 \in 0 .. MAX_OBJECTS /\ m + 1 # 0 /\ (m + 1) - 1 = m
    BY <1>1 DEF Slots
  <2>2. s[m + 1] = s[m] + f[m]
    BY <1>2, <2>1
  <2> QED BY <1>1, <1>4, <2>1, <2>2
<1>5. MAX_OBJECTS \in S
  <2> HIDE DEF S
  <2> QED BY <1>1, <1>3, <1>4, SetInduction
<1> QED BY <1>1, <1>2, <1>5

-----------------------------------------------------------------------------
(* What a sample is charged to *)

(* The level of a load is one of the five, or none. *)
LEMMA LevelType ==
  ASSUME NEW lvl
  PROVE  mem_level(lvl) \in Levels \cup {-1}
<1> DEFINE held == {k \in 1 .. 5 : served_by(<<"L1", "LFB", "L2", "L3", "LOC_RAM">>[k], lvl)}
<1>1. held \in SUBSET Nat /\ held \subseteq 1 .. 5
  OBVIOUS
<1>2. mem_level(lvl) \in {-1, 4} \/ (held # {} /\ mem_level(lvl) = Min(held) - 1)
  BY DEF mem_level
<1> HIDE DEF held
<1>3. held # {} => Min(held) \in held
  BY <1>1, LeastNatural DEF Min
<1> DEFINE least == Min(held)
<1>4. held # {} => least \in 1 .. 5
  BY <1>1, <1>3
<1>5. mem_level(lvl) \in {-1, 4} \/ (held # {} /\ mem_level(lvl) = least - 1)
  BY <1>2
<1> HIDE DEF least
<1> QED BY <1>4, <1>5 DEF Levels

(* The object of an address is a slot of the table, or none. *)
LEMMA IndexType ==
  ASSUME NEW addr
  PROVE  get_vector_index(addr) \in Slots \cup {-1}
<1> DEFINE found == {i \in Slots : Holds(i, addr)}
<1>1. found \in SUBSET Nat /\ found \subseteq Slots
  BY DEF Slots
<1>2. get_vector_index(addr) = IF found = {} THEN -1 ELSE Min(found)
  BY DEF get_vector_index
<1> HIDE DEF found
<1>3. found # {} => Min(found) \in found
  BY <1>1, LeastNatural DEF Min
<1> QED BY <1>1, <1>2, <1>3

TlbOK(c) ==
  \A j \in Levels :
    /\ c.tlb_hit[j] + c.tlb_miss[j] <= c.loads_count[j]
    /\ c.sum_latency_cost[j] > 0 => c.tlb_hit[j] + c.tlb_miss[j] > 0

(* A load keeps the outcomes of the TLB among the loads, and no store is   *)
(* charged with it.                                                        *)
LEMMA LoadKeeps ==
  ASSUME NEW m \in metric_t, TlbOK(m), NEW src, NEW weight \in Nat
  PROVE  LET c == ChargeLoad(m, src, weight)
         IN  c \in metric_t /\ TlbOK(c) /\ c.stores_count = m.stores_count
<1> DEFINE j == mem_level(src.lvl)
           hit == "HIT" \in src.dtlb
           miss == ~hit /\ "MISS" \in src.dtlb
           bump(f, by) == [f EXCEPT ![j] = @ + by]
           c == ChargeLoad(m, src, weight)
           loads == bump(m.loads_count, 100)
           hits == IF hit THEN bump(m.tlb_hit, 100) ELSE m.tlb_hit
           misses == IF miss THEN bump(m.tlb_miss, 100) ELSE m.tlb_miss
           cost == IF hit \/ miss THEN bump(m.sum_latency_cost, 100 * weight)
                   ELSE m.sum_latency_cost
<1>1. CASE j = -1
  BY <1>1 DEF ChargeLoad
<1>2. CASE j # -1
  <2>1. j \in Levels
    BY <1>2, LevelType
  <2>2. /\ m.loads_count \in [Levels -> Nat] /\ m.tlb_hit \in [Levels -> Nat]
        /\ m.tlb_miss \in [Levels -> Nat] /\ m.sum_latency_cost \in [Levels -> Nat]
        /\ m.stores_count \in Nat
    BY DEF metric_t
  <2>3. c = [m EXCEPT !.loads_count = loads, !.tlb_hit = hits, !.tlb_miss = misses,
                      !.sum_latency_cost = cost]
    BY <1>2 DEF ChargeLoad
  <2> HIDE DEF j, c
  <2>4. /\ loads \in [Levels -> Nat] /\ hits \in [Levels -> Nat]
        /\ misses \in [Levels -> Nat] /\ cost \in [Levels -> Nat]
    <3>1. 100 * weight \in Nat
      OBVIOUS
    <3>2. ASSUME NEW f \in [Levels -> Nat], NEW by \in Nat
          PROVE  bump(f, by) \in [Levels -> Nat]
      BY <2>1
    <3> HIDE DEF bump
    <3> QED BY <2>2, <3>1, <3>2
  <2>5. ASSUME NEW k \in Levels
        PROVE  /\ hits[k] + misses[k] <= loads[k]
               /\ cost[k] > 0 => hits[k] + misses[k] > 0
    <3>1. /\ m.tlb_hit[k] \in Nat /\ m.tlb_miss[k] \in Nat /\ m.loads_count[k] \in Nat
          /\ m.sum_latency_cost[k] \in Nat
          /\ m.tlb_hit[k] + m.tlb_miss[k] <= m.loads_count[k]
          /\ m.sum_latency_cost[k] > 0 => m.tlb_hit[k] + m.tlb_miss[k] > 0
      BY <2>2 DEF TlbOK
    <3>2. CASE k # j
      <4>1. /\ hits[k] = m.tlb_hit[k] /\ misses[k] = m.tlb_miss[k]
            /\ loads[k] = m.loads_count[k] /\ cost[k] = m.sum_latency_cost[k]
        BY <2>2, <3>2
      <4> QED BY <3>1, <4>1
    <3>3. CASE k = j
      <4>1. /\ loads[k] = m.loads_count[k] + 100
            /\ hits[k] = IF hit THEN m.tlb_hit[k] + 100 ELSE m.tlb_hit[k]
            /\ misses[k] = IF miss THEN m.tlb_miss[k] + 100 ELSE m.tlb_miss[k]
            /\ ~hit /\ ~miss => cost[k] = m.sum_latency_cost[k]
        BY <2>1, <2>2, <3>3
      <4> HIDE DEF loads, hits, misses, cost
      <4> QED BY <3>1, <4>1
    <3> QED BY <3>2, <3>3
  <2> HIDE DEF loads, hits, misses, cost
  <2>6. /\ c.loads_count = loads /\ c.tlb_hit = hits /\ c.tlb_miss = misses
        /\ c.sum_latency_cost = cost /\ c.stores_count = m.stores_count
    BY <2>3 DEF metric_t
  <2>7. c \in metric_t
    BY <2>3, <2>4 DEF metric_t
  <2> QED BY <2>5, <2>6, <2>7 DEF TlbOK, c
<1> QED BY <1>1, <1>2

(* A store is charged once for an address, and nothing else changes. *)
LEMMA StoreKeeps ==
  ASSUME NEW m \in metric_t, TlbOK(m), NEW addr
  PROVE  LET c == ChargeStore(m, addr)
         IN  /\ c \in metric_t /\ TlbOK(c)
             /\ c.stores_count = m.stores_count + (IF addr \in g_hashmap THEN 0 ELSE 100)
<1>1. m.stores_count \in Nat
  BY DEF metric_t
<1> DEFINE c == ChargeStore(m, addr)
<1>2. CASE addr \in g_hashmap
  BY <1>1, <1>2 DEF ChargeStore
<1>3. CASE addr \notin g_hashmap
  <2>1. c = [m EXCEPT !.stores_count = m.stores_count + 100]
    BY <1>3 DEF ChargeStore
  <2> HIDE DEF c
  <2>2. /\ c.loads_count = m.loads_count /\ c.tlb_hit = m.tlb_hit
        /\ c.tlb_miss = m.tlb_miss /\ c.sum_latency_cost = m.sum_latency_cost
        /\ c.stores_count = m.stores_count + 100
    BY <2>1 DEF metric_t
  <2>3. c \in metric_t
    BY <1>1, <2>1 DEF metric_t
  <2> QED BY <1>3, <2>2, <2>3 DEF TlbOK, c
<1> QED BY <1>2, <1>3

(* The averages are naturals, and the stores are added up. *)
LEMMA FoldKeeps ==
  ASSUME NEW m \in metric_t, NEW c \in metric_t
  PROVE  /\ Fold(m, c) \in metric_t
         /\ Fold(m, c).stores_count = m.stores_count + c.stores_count
<1>1. ASSUME NEW curr \in Nat, NEW old \in Nat PROVE Average(curr, old) \in Nat
  BY DEF Average, ALPHA
<1>2. m.sum_latency_cost \in [Levels -> Nat] /\ m.stores_count \in Nat
  BY DEF metric_t
<1> DEFINE mixed(f) == [j \in Levels |-> Average(f[j], m.sum_latency_cost[j])]
<1>3. ASSUME NEW f \in [Levels -> Nat] PROVE mixed(f) \in [Levels -> Nat]
  BY <1>1, <1>2
<1>4. /\ c.loads_count \in [Levels -> Nat] /\ c.tlb_hit \in [Levels -> Nat]
      /\ c.tlb_miss \in [Levels -> Nat] /\ c.sum_latency_cost \in [Levels -> Nat]
      /\ c.stores_count \in Nat
  BY DEF metric_t
<1>5. Fold(m, c) = [sum_latency_cost |-> mixed(c.sum_latency_cost),
                    loads_count |-> mixed(c.loads_count),
                    tlb_hit |-> mixed(c.tlb_hit), tlb_miss |-> mixed(c.tlb_miss),
                    stores_count |-> m.stores_count + c.stores_count]
  BY DEF Fold
<1> HIDE DEF mixed
<1>6. /\ mixed(c.sum_latency_cost) \in [Levels -> Nat] /\ mixed(c.loads_count) \in [Levels -> Nat]
      /\ mixed(c.tlb_hit) \in [Levels -> Nat] /\ mixed(c.tlb_miss) \in [Levels -> Nat]
      /\ m.stores_count + c.stores_count \in Nat
  BY <1>2, <1>3, <1>4
<1> QED BY <1>5, <1>6 DEF metric_t

-----------------------------------------------------------------------------
(* The invariant *)

(* TlbWithinLoads, object by object *)
LEMMA TlbByObject == TlbWithinLoads <=> \A i \in Slots : TlbOK(copy[i])
  BY DEF TlbWithinLoads, TlbOK

(* Cleared metrics, and what they are *)
LEMMA ZeroType == Zero \in metric_t /\ TlbOK(Zero) /\ Zero.stores_count = 0
  BY DEF Zero, metric_t, TlbOK, Levels

(* The stores of an object are a natural number. *)
LEMMA StoresType ==
  ASSUME NEW m \in metric_t
  PROVE  m.stores_count \in Nat
  BY DEF metric_t

(* So is its credit. *)
LEMMA CreditType ==
  ASSUME MonitorTypeOK
  PROVE  /\ Credit \in [Slots -> Nat]
         /\ \A i \in Slots : /\ metrics[i] \in metric_t /\ copy[i] \in metric_t
                             /\ metrics[i].stores_count \in Nat
                             /\ copy[i].stores_count \in Nat
<1>1. \A i \in Slots : /\ metrics[i] \in metric_t /\ copy[i] \in metric_t
                       /\ metrics[i].stores_count \in Nat /\ copy[i].stores_count \in Nat
  BY StoresType DEF MonitorTypeOK
<1>2. Credit \in [Slots -> Nat]
  BY <1>1 DEF Credit
<1> QED BY <1>1, <1>2

(* Where no credit grows, StoresCredited is kept. *)
LEMMA CreditKept ==
  ASSUME MonitorTypeOK, MonitorTypeOK', StoresCredited, g_hashmap' = g_hashmap,
         \A i \in Slots : Credit'[i] <= Credit[i]
  PROVE  StoresCredited'
<1>1. Credit \in [Slots -> Nat] /\ Credit' \in [Slots -> Nat]
  <2>1. \A i \in Slots : metrics'[i].stores_count \in Nat /\ copy'[i].stores_count \in Nat
    BY StoresType DEF MonitorTypeOK
  <2> QED BY <2>1, CreditType DEF Credit
<1>2. 0 \in Slots
  BY TierAssumption DEF Slots
<1> DEFINE old == Credit
           new == Credit'
<1>3. \A k \in Slots : new[k] <= old[k] + (IF k = 0 THEN 0 ELSE 0)
  BY <1>1
<1>4. SlotSum(old) \in Nat /\ SlotSum(new) \in Nat /\ SlotSum(new) <= SlotSum(old) + 0
  <2> HIDE DEF old, new
  <2>1. old \in [Slots -> Nat] /\ new \in [Slots -> Nat]
    BY <1>1 DEF old, new
  <2> QED BY <1>2, <1>3, <2>1, SlotSumGrows
<1>5. SlotSum(Credit)' = SlotSum(new)
  BY DEF SlotSum
<1>6. Cardinality(g_hashmap) \in Nat
  BY FS_CardinalityType DEF StoresCredited
<1> QED BY <1>4, <1>5, <1>6 DEF StoresCredited

(* The initial state *)
LEMMA MonitorInvInit == Init => MonitorInv
<1> SUFFICES ASSUME Init PROVE MonitorInv
  OBVIOUS
<1>1. RecorderInv
  BY InvInit DEF Init
<1>2. MonitorTypeOK
  BY ZeroType, TierAssumption, MonitorAssumption DEF Init, MonitorInit, MonitorTypeOK
<1>3. TlbWithinLoads
  BY ZeroType, TlbByObject DEF Init, MonitorInit
<1>4. IsFiniteSet(g_hashmap) /\ Cardinality(g_hashmap) = 0
  BY FS_EmptySet DEF Init, MonitorInit
<1>5. SlotSum(Credit) <= 0
  <2>1. \A i \in Slots : Credit[i] = 0
    BY ZeroType DEF Init, MonitorInit, Credit, Pending
  <2> DEFINE f == Credit
  <2> HIDE DEF f
  <2>2. SlotSum(f) = 0
    BY <2>1, SlotSumZero DEF f
  <2> QED BY <2>2 DEF f
<1> QED BY <1>1, <1>2, <1>3, <1>4, <1>5 DEF MonitorInv, StoresCredited

(* A new period: what is in the copy has been credited or is forgotten. *)
LEMMA ClearKeeps ==
  ASSUME MonitorInv, clear_metrics
  PROVE  MonitorTypeOK' /\ TlbWithinLoads' /\ StoresCredited'
<1>1. MonitorTypeOK /\ StoresCredited
  BY DEF MonitorInv
<1>2. /\ mpc = "sleep" /\ mpc' = "read" /\ copy' = [i \in Slots |-> Zero]
      /\ UNCHANGED <<metrics, g_hashmap, mi, samples>>
  BY DEF clear_metrics, Cleared
<1>3. MonitorTypeOK'
  BY <1>1, <1>2, ZeroType DEF MonitorTypeOK
<1>4. TlbWithinLoads'
  <2>1. \A i \in Slots : TlbOK(copy'[i])
    BY <1>2, ZeroType
  <2> QED BY <2>1 DEF TlbWithinLoads, TlbOK
<1>5. ASSUME NEW i \in Slots PROVE Credit'[i] <= Credit[i]
  <2>1. metrics[i].stores_count \in Nat
    BY <1>1, CreditType
  <2>2. Credit[i] = metrics[i].stores_count + 0 /\ Credit'[i] = metrics[i].stores_count + 0
    BY <1>2, ZeroType DEF Credit, Pending
  <2> QED BY <2>1, <2>2
<1> QED BY <1>1, <1>2, <1>3, <1>4, <1>5, CreditKept

(* A sample: a store adds to the credit what it adds to the addresses. *)
LEMMA SampleKeeps ==
  ASSUME MonitorInv, NEW addr \in Addrs, NEW src \in Sources, NEW weight \in Weights,
         ReadSample(addr, src, weight)
  PROVE  MonitorTypeOK' /\ TlbWithinLoads' /\ StoresCredited'
<1> DEFINE i == get_vector_index(addr)
<1>1. MonitorTypeOK /\ TlbWithinLoads /\ StoresCredited
  BY DEF MonitorInv
<1>2. /\ mpc = "read" /\ samples < MaxSamples /\ samples' = samples + 1
      /\ UNCHANGED <<metrics, mpc, mi>>
  BY DEF ReadSample
<1>3. samples' \in 0 .. MaxSamples
  BY <1>1, <1>2, MonitorAssumption DEF MonitorTypeOK
<1>4. weight \in Nat
  BY MonitorAssumption
<1>5. CASE UNCHANGED <<copy, g_hashmap>>
  <2>1. MonitorTypeOK' /\ TlbWithinLoads'
    BY <1>1, <1>2, <1>3, <1>5 DEF MonitorTypeOK, TlbWithinLoads
  <2>2. Credit' = Credit
    BY <1>2, <1>5 DEF Credit, Pending
  <2> QED BY <1>1, <1>5, <2>1, <2>2 DEF StoresCredited
<1>6. CASE i # -1 /\ src.op \in {"LOAD", "STORE"}
  <2>1. i \in Slots
    BY <1>6, IndexType
  <2>2. /\ copy' = [copy EXCEPT ![i] =
                      IF src.op = "LOAD" THEN ChargeLoad(copy[i], src, weight)
                                         ELSE ChargeStore(copy[i], addr)]
        /\ g_hashmap' = IF src.op = "STORE" THEN g_hashmap \cup {addr} ELSE g_hashmap
    BY <1>6 DEF ReadSample, Remembered
  <2> HIDE DEF i
  <2> DEFINE d == IF src.op = "STORE" /\ addr \notin g_hashmap THEN 100 ELSE 0
  <2>3. copy[i] \in metric_t /\ TlbOK(copy[i]) /\ copy \in [Slots -> metric_t]
    BY <1>1, <2>1, TlbByObject DEF MonitorTypeOK
  <2>4. /\ copy'[i] \in metric_t /\ TlbOK(copy'[i])
        /\ copy'[i].stores_count = copy[i].stores_count + d
        /\ \A k \in Slots : k # i => copy'[k] = copy[k]
    <3>1. \A k \in Slots : k # i => copy'[k] = copy[k]
      BY <2>2, <2>3
    <3>2. copy[i].stores_count \in Nat
      BY <2>3, StoresType
    <3>3. CASE src.op = "LOAD"
      <4>1. copy'[i] = ChargeLoad(copy[i], src, weight)
        BY <2>1, <2>2, <2>3, <3>3
      <4> QED BY <1>4, <2>3, <3>1, <3>2, <3>3, <4>1, LoadKeeps
    <3>4. CASE src.op = "STORE"
      <4>1. copy'[i] = ChargeStore(copy[i], addr)
        BY <2>1, <2>2, <2>3, <3>4
      <4> QED BY <2>3, <3>1, <3>2, <3>4, <4>1, StoreKeeps
    <3> QED BY <1>6, <3>3, <3>4
  <2>5. MonitorTypeOK'
    <3>1. copy' \in [Slots -> metric_t]
      BY <2>1, <2>2, <2>3, <2>4
    <3> QED BY <1>1, <1>2, <1>3, <2>2, <3>1 DEF MonitorTypeOK
  <2>6. TlbWithinLoads'
    <3>1. \A k \in Slots : TlbOK(copy'[k])
      BY <1>1, <2>4, TlbByObject
    <3> QED BY <3>1 DEF TlbWithinLoads, TlbOK
  <2>7. IsFiniteSet(g_hashmap') /\ 100 * Cardinality(g_hashmap') = 100 * Cardinality(g_hashmap) + d
    <3>1. IsFiniteSet(g_hashmap) /\ Cardinality(g_hashmap) \in Nat
      BY <1>1, FS_CardinalityType DEF StoresCredited
    <3>2. /\ IsFiniteSet(g_hashmap \cup {addr})
          /\ Cardinality(g_hashmap \cup {addr}) =
               IF addr \in g_hashmap THEN Cardinality(g_hashmap) ELSE Cardinality(g_hashmap) + 1
      BY <3>1, FS_AddElement
    <3> QED BY <1>6, <2>2, <3>1, <3>2
  <2>8. SlotSum(Credit)' <= SlotSum(Credit) + d /\ SlotSum(Credit) \in Nat /\ SlotSum(Credit)' \in Nat
    <3> DEFINE old == Credit
               new == Credit'
    <3>1. old \in [Slots -> Nat] /\ new \in [Slots -> Nat]
      <4>1. \A k \in Slots : metrics'[k].stores_count \in Nat /\ copy'[k].stores_count \in Nat
        BY <2>5, StoresType DEF MonitorTypeOK
      <4> QED BY <1>1, <4>1, CreditType DEF Credit
    <3>2. ASSUME NEW k \in Slots PROVE new[k] <= old[k] + (IF k = i THEN d ELSE 0)
      <4>1. metrics[k].stores_count \in Nat /\ copy[k].stores_count \in Nat
        BY <1>1, CreditType
      <4>2. /\ old[k] = metrics[k].stores_count + copy[k].stores_count
            /\ new[k] = metrics[k].stores_count + copy'[k].stores_count
        BY <1>2 DEF Credit, Pending
      <4> HIDE DEF old, new
      <4> QED BY <2>4, <4>1, <4>2
    <3>3. SlotSum(Credit)' = SlotSum(new)
      BY DEF SlotSum
    <3>4. d \in Nat
      OBVIOUS
    <3> HIDE DEF old, new, d
    <3>5. SlotSum(new) <= SlotSum(old) + d /\ SlotSum(old) \in Nat /\ SlotSum(new) \in Nat
      BY <2>1, <3>1, <3>2, <3>4, SlotSumGrows
    <3> QED BY <3>3, <3>5 DEF old
  <2>9. StoresCredited'
    <3>1. SlotSum(Credit) <= 100 * Cardinality(g_hashmap) /\ Cardinality(g_hashmap) \in Nat
      BY <1>1, FS_CardinalityType DEF StoresCredited
    <3>2. 100 * Cardinality(g_hashmap) \in Nat
      BY <3>1
    <3>3. SlotSum(Credit)' <= 100 * Cardinality(g_hashmap')
      BY <2>7, <2>8, <3>1, <3>2
    <3> QED BY <2>7, <3>3 DEF StoresCredited
  <2> QED BY <2>5, <2>6, <2>9
<1> QED BY <1>5, <1>6 DEF ReadSample

(* update_metrics moves credit from the copy to the metrics; an object     *)
(* that has been released meanwhile loses it.                              *)
LEMMA UpdateKeeps ==
  ASSUME MonitorInv, EndRead \/ UpdateObject \/ EndUpdate
  PROVE  MonitorTypeOK' /\ TlbWithinLoads' /\ StoresCredited'
<1>1. /\ MonitorTypeOK /\ TlbWithinLoads /\ StoresCredited
      /\ total_obj \in 0 .. MAX_OBJECTS /\ MAX_OBJECTS \in Nat
  BY TierAssumption DEF MonitorInv, RecorderInv, RecorderTypeOK, TierTypeOK
<1>2. UNCHANGED <<copy, g_hashmap, samples>>
  BY DEF EndRead, UpdateObject, EndUpdate
<1>3. TlbWithinLoads'
  BY <1>1, <1>2 DEF TlbWithinLoads
<1>4. \A i \in Slots : metrics[i].stores_count \in Nat /\ copy[i].stores_count \in Nat
  BY <1>1, CreditType
<1>5. CASE EndRead \/ EndUpdate
  <2>1. MonitorTypeOK'
    BY <1>1, <1>2, <1>5 DEF MonitorTypeOK, EndRead, EndUpdate
  <2>2. ASSUME NEW i \in Slots PROVE Credit'[i] <= Credit[i]
    <3>1. metrics'[i] = metrics[i] /\ copy'[i] = copy[i] /\ (Pending(i)' => Pending(i))
      BY <1>2, <1>5 DEF EndRead, EndUpdate, Pending
    <3> QED BY <1>4, <3>1 DEF Credit
  <2> QED BY <1>1, <1>2, <1>3, <2>1, <2>2, CreditKept
<1>6. CASE UpdateObject
  <2>1. /\ mpc = "update" /\ mpc' = mpc /\ mi < total_obj /\ mi' = mi + 1
        /\ metrics' = IF obj_alloc[mi] = 1
                      THEN [metrics EXCEPT ![mi] = Fold(metrics[mi], copy[mi])] ELSE metrics
    BY <1>6 DEF UpdateObject
  <2>2. mi \in Slots /\ mi \in Nat /\ mi' \in 0 .. MAX_OBJECTS
    BY <1>1, <2>1 DEF MonitorTypeOK, Slots
  <2>3. /\ metrics[mi] \in metric_t /\ copy[mi] \in metric_t
        /\ Fold(metrics[mi], copy[mi]) \in metric_t
        /\ Fold(metrics[mi], copy[mi]).stores_count =
             metrics[mi].stores_count + copy[mi].stores_count
    BY <1>1, <2>2, FoldKeeps DEF MonitorTypeOK
  <2>4. metrics' \in [Slots -> metric_t]
    BY <1>1, <2>1, <2>3 DEF MonitorTypeOK
  <2>5. MonitorTypeOK'
    BY <1>1, <1>2, <2>1, <2>2, <2>4 DEF MonitorTypeOK
  <2>6. ASSUME NEW i \in Slots PROVE Credit'[i] <= Credit[i]
    <3>1. i \in Nat
      BY DEF Slots
    <3>2. CASE i # mi
      <4>1. metrics'[i] = metrics[i]
        BY <1>1, <2>1, <3>2 DEF MonitorTypeOK
      <4>2. Pending(i)' <=> Pending(i)
        BY <2>1, <2>2, <3>1, <3>2 DEF Pending
      <4> QED BY <1>2, <1>4, <4>1, <4>2 DEF Credit
    <3>3. CASE i = mi
      <4>1. Pending(i) /\ ~Pending(i)'
        BY <2>1, <2>2, <3>3 DEF Pending
      <4>2. metrics'[i].stores_count <= metrics[i].stores_count + copy[i].stores_count
        BY <1>1, <1>4, <2>1, <2>2, <2>3, <3>3 DEF MonitorTypeOK
      <4>3. metrics'[i].stores_count \in Nat
        BY <2>4, StoresType
      <4> QED BY <1>4, <4>1, <4>2, <4>3 DEF Credit
    <3> QED BY <3>2, <3>3
  <2> QED BY <1>1, <1>2, <1>3, <2>5, <2>6, CreditKept
<1> QED BY <1>5, <1>6

(* Every step keeps the invariant, those of the recorder included. *)
LEMMA MonitorInvNext ==
  MonitorInv /\ [Next]_<<tierVars, recorderVars, monitorVars>> => MonitorInv'
<1> SUFFICES ASSUME MonitorInv, [Next]_<<tierVars, recorderVars, monitorVars>>
             PROVE  MonitorInv'
  OBVIOUS
<1>1. RecorderInv
  BY DEF MonitorInv
<1>2. CASE MonitorStep /\ UNCHANGED recorderVars
  <2>1. UNCHANGED tierVars
    BY <1>2 DEF MonitorStep, clear_metrics, ReadSample, EndRead, UpdateObject, EndUpdate
  <2>2. RecorderInv'
    BY <1>1, <1>2, <2>1, InvNext DEF vars
  <2> QED BY <1>2, <2>2, ClearKeeps, SampleKeeps, UpdateKeeps DEF MonitorStep, MonitorInv
<1>3. CASE [RecorderNext]_vars /\ UNCHANGED monitorVars
  <2>1. RecorderInv'
    BY <1>1, <1>3, InvNext
  <2>2. UNCHANGED <<metrics, copy, g_hashmap, mpc, mi, samples>>
    BY <1>3 DEF monitorVars
  <2>3. MonitorTypeOK' /\ TlbWithinLoads'
    BY <2>2 DEF MonitorInv, MonitorTypeOK, TlbWithinLoads
  <2>4. Credit' = Credit
    BY <2>2 DEF Credit, Pending
  <2>5. StoresCredited'
    BY <2>2, <2>4 DEF MonitorInv, StoresCredited
  <2> QED BY <2>1, <2>3, <2>5 DEF MonitorInv
<1> QED BY <1>2, <1>3 DEF Next, RecorderNext, vars

-----------------------------------------------------------------------------
(* MonitorInv holds throughout: see its comment for the argument. *)
THEOREM MonitorInvariant == Spec => []MonitorInv
  BY MonitorInvInit, MonitorInvNext, PTL DEF Spec

(* The metrics keep their types: no sample is charged outside the table,   *)
(* and update_metrics, which reads total_obj anew at each turn, stays in   *)
(* it too.                                                                 *)
THEOREM MonitorTypeCorrect == Spec => []TypeOK
<1>1. MonitorInv => TypeOK
  BY DEF MonitorInv, RecorderInv, TypeOK
<1> QED BY <1>1, MonitorInvariant, PTL

(* The TLB outcomes in the copy are among the loads of their level, and    *)
(* a latency comes with an outcome.                                        *)
THEOREM OutcomesAreLoads == Spec => []TlbWithinLoads
<1>1. MonitorInv => TlbWithinLoads
  BY DEF MonitorInv
<1> QED BY <1>1, MonitorInvariant, PTL

(* Over all objects and periods, no more stores are credited than there    *)
(* are addresses stored to.                                                *)
THEOREM StoresCountedOnce == Spec => []StoresOncePerAddress
<1>1. MonitorInv => StoresOncePerAddress
  <2> SUFFICES ASSUME MonitorInv PROVE StoresOncePerAddress
    OBVIOUS
  <2> DEFINE f == [i \in Slots |-> metrics[i].stores_count]
             g == Credit
  <2>1. g \in [Slots -> Nat] /\ \A i \in Slots : /\ metrics[i].stores_count \in Nat
                                                 /\ copy[i].stores_count \in Nat
    BY CreditType DEF MonitorInv
  <2>2. f \in [Slots -> Nat] /\ 0 \in Slots
    BY <2>1, TierAssumption DEF Slots
  <2>3. \A k \in Slots : f[k] <= g[k] + (IF k = 0 THEN 0 ELSE 0)
    BY <2>1 DEF Credit
  <2>4. SlotSum(g) <= 100 * Cardinality(g_hashmap) /\ Cardinality(g_hashmap) \in Nat
    BY FS_CardinalityType DEF MonitorInv, StoresCredited
  <2> HIDE DEF f, g
  <2>5. SlotSum(f) \in Nat /\ SlotSum(g) \in Nat /\ SlotSum(f) <= SlotSum(g) + 0
    BY <2>1, <2>2, <2>3, SlotSumGrows
  <2>6. SlotSum(f) <= 100 * Cardinality(g_hashmap)
    BY <2>4, <2>5
  <2> QED BY <2>6 DEF StoresOncePerAddress, f
<1> QED BY <1>1, MonitorInvariant, PTL
=============================================================================
