------------------------------- MODULE Monitor -------------------------------
(***************************************************************************)
(* monitor.c: the thread that, once per period, reads the memory samples   *)
(* of all CPUs, charges each to the object its address falls in (in        *)
(* g_tier_manager_copy), and then folds the copy into the metrics of       *)
(* g_tier_manager, where the actuator reads them.                          *)
(*                                                                         *)
(* The samples are taken without regard to the process, so an address can  *)
(* be anything.  The doubles are counted in hundredths, rounded down.      *)
(***************************************************************************)
EXTENDS TierManager, FiniteSets, FiniteSetsExt

CONSTANTS
  Addrs,       \* addresses that are sampled
  Sources,     \* data_src of the samples: [op, lvl, dtlb]
  Weights,     \* latencies
  MaxSamples   \* bound on the samples

Levels == 0 .. 4    \* L1, LFB, L2, L3, DRAM
ALPHA  == 33        \* hundredths

\* the bits of mem_lvl; PERF_MEM_LVLNUM_PMEM is a number, 14, used as a mask
LVL == {"NA", "HIT", "MISS", "L1", "LFB", "L2", "L3", "LOC_RAM", "REM_RAM1",
        "REM_RAM2", "REM_CCE1", "REM_CCE2"}
LVLNUM_PMEM == {"HIT", "MISS", "L1"}

data_src == [op : {"NA", "LOAD", "STORE", "PFETCH", "EXEC"}, lvl : SUBSET LVL,
             dtlb : SUBSET {"HIT", "MISS"}]

ASSUME MonitorAssumption ==
  /\ Addrs \subseteq Nat
  /\ Sources \subseteq data_src
  /\ Weights \subseteq Nat
  /\ MaxSamples \in Nat

VARIABLES
  metrics,     \* slot -> metric_t of g_tier_manager
  copy,        \* slot -> metric_t of g_tier_manager_copy
  g_hashmap,   \* addresses whose store was counted
  mpc,         \* where thread_monitor is
  mi,          \* loop variable of update_metrics
  samples      \* samples read so far

monitorVars == <<metrics, copy, g_hashmap, mpc, mi, samples>>

metric_t == [sum_latency_cost : [Levels -> Nat], loads_count : [Levels -> Nat],
             tlb_hit : [Levels -> Nat], tlb_miss : [Levels -> Nat],
             stores_count : Nat]

Zero ==
  LET none == [j \in Levels |-> 0]
  IN  [sum_latency_cost |-> none, loads_count |-> none, tlb_hit |-> none,
       tlb_miss |-> none, stores_count |-> 0]

MonitorTypeOK ==
  /\ metrics \in [Slots -> metric_t]
  /\ copy \in [Slots -> metric_t]
  /\ g_hashmap \in SUBSET Addrs
  /\ mpc \in {"sleep", "read", "update"}
  /\ mi \in 0 .. MAX_OBJECTS
  /\ samples \in 0 .. MaxSamples

MonitorInit ==
  /\ metrics = [i \in Slots |-> Zero]
  /\ copy = [i \in Slots |-> Zero]
  /\ g_hashmap = {}
  /\ mpc = "sleep"
  /\ mi = 0
  /\ samples = 0

-----------------------------------------------------------------------------
(* What served a load *)

served_by(bit, lvl) == "HIT" \in lvl /\ bit \in lvl

is_served_by_local_NA_miss(lvl) ==
  "NA" \in lvl \/ {"MISS", "L3"} \subseteq lvl

is_served_by_local_pmem(lvl) == "HIT" \in lvl /\ lvl \cap LVLNUM_PMEM # {}

(* The cascade of tests in thread_monitor; -1 when none of them holds *)
mem_level(lvl) ==
  LET cascade == <<"L1", "LFB", "L2", "L3", "LOC_RAM">>
      held == {k \in 1 .. 5 : served_by(cascade[k], lvl)}
  IN  CASE is_served_by_local_NA_miss(lvl) -> -1
        [] ~is_served_by_local_NA_miss(lvl) /\ held # {} -> Min(held) - 1
        [] ~is_served_by_local_NA_miss(lvl) /\ held = {} ->
             IF is_served_by_local_pmem(lvl) THEN 4 ELSE -1

(* A load: its level, and the outcome of the TLB with its latency if known *)
ChargeLoad(m, src, weight) ==
  LET j == mem_level(src.lvl)
      hit == "HIT" \in src.dtlb
      miss == ~hit /\ "MISS" \in src.dtlb
      bump(f, by) == [f EXCEPT ![j] = @ + by]
  IN  IF j = -1 THEN m
      ELSE [m EXCEPT !.loads_count = bump(@, 100),
                     !.tlb_hit = IF hit THEN bump(@, 100) ELSE @,
                     !.tlb_miss = IF miss THEN bump(@, 100) ELSE @,
                     !.sum_latency_cost = IF hit \/ miss
                                          THEN bump(@, 100 * weight) ELSE @]

(* A store counts when its address was never stored to before. *)
ChargeStore(m, addr) ==
  IF addr \in g_hashmap THEN m
  ELSE [m EXCEPT !.stores_count = @ + 100]

(***************************************************************************)
(* get_vector_index: the live objects an address falls in, of which the    *)
(* first is taken.  The end of an object is counted as part of it.         *)
(***************************************************************************)
Holds(i, addr) ==
  /\ obj_alloc[i] = 1
  /\ obj_vector[i].start_addr # NO_ADDR
  /\ obj_vector[i].start_addr <= addr
  /\ addr <= obj_vector[i].end_addr

get_vector_index(addr) ==
  LET found == {i \in Slots : Holds(i, addr)}
  IN  IF found = {} THEN -1 ELSE Min(found)

-----------------------------------------------------------------------------
\* mutant: tlb_hit is not cleared
Cleared_KeepsTlb(m) == [Zero EXCEPT !.tlb_hit = m.tlb_hit]

Cleared(m) == Zero

(* The interval is over: sampling stops and the copy is cleared. *)
clear_metrics ==
  /\ mpc = "sleep"
  /\ copy' = [i \in Slots |-> Cleared(copy[i])]
  /\ mpc' = "read"
  /\ UNCHANGED <<metrics, g_hashmap, mi, samples, tierVars>>

\* mutant: the address of a counted store is not remembered
Remembered_Not(addr) == g_hashmap

Remembered(addr) == g_hashmap \cup {addr}

(* One sample is read and charged. *)
ReadSample(addr, src, weight) ==
  LET i == get_vector_index(addr)
  IN  /\ mpc = "read"
      /\ samples < MaxSamples
      /\ samples' = samples + 1
      /\ IF i = -1 \/ src.op \notin {"LOAD", "STORE"}
         THEN UNCHANGED <<copy, g_hashmap>>
         ELSE /\ copy' = [copy EXCEPT ![i] =
                            IF src.op = "LOAD" THEN ChargeLoad(@, src, weight)
                                               ELSE ChargeStore(@, addr)]
              /\ g_hashmap' = IF src.op = "STORE" THEN Remembered(addr)
                                                  ELSE g_hashmap
      /\ UNCHANGED <<metrics, mpc, mi, tierVars>>

EndRead ==
  /\ mpc = "read"
  /\ mpc' = "update"
  /\ mi' = 0
  /\ UNCHANGED <<metrics, copy, g_hashmap, samples, tierVars>>

\* mutant: the wrong sign
Average_Minus(curr, old) == (curr * (100 - ALPHA) - old * ALPHA) \div 100

Average(curr, old) == (curr * (100 - ALPHA) + old * ALPHA) \div 100

\* mutant: the commented-out accumulation of the loads
Fold_Accumulates(m, c) ==
  LET old == m.sum_latency_cost
      mixed(f) == [j \in Levels |-> Average(f[j], old[j])]
  IN  [sum_latency_cost |-> mixed(c.sum_latency_cost),
       loads_count |-> [j \in Levels |-> m.loads_count[j] + c.loads_count[j]],
       tlb_hit |-> mixed(c.tlb_hit), tlb_miss |-> mixed(c.tlb_miss),
       stores_count |-> m.stores_count + c.stores_count]

(***************************************************************************)
(* The body of update_metrics.  old_value is set once per level, from      *)
(* sum_latency_cost, and used for all four averages.                       *)
(***************************************************************************)
Fold(m, c) ==
  LET old == m.sum_latency_cost
      mixed(f) == [j \in Levels |-> Average(f[j], old[j])]
  IN  [sum_latency_cost |-> mixed(c.sum_latency_cost),
       loads_count |-> mixed(c.loads_count),
       tlb_hit |-> mixed(c.tlb_hit), tlb_miss |-> mixed(c.tlb_miss),
       stores_count |-> m.stores_count + c.stores_count]

(* update_metrics: one object; total_obj is read anew for each *)
UpdateObject ==
  /\ mpc = "update"
  /\ mi < total_obj
  /\ metrics' = IF obj_alloc[mi] = 1
                THEN [metrics EXCEPT ![mi] = Fold(@, copy[mi])] ELSE metrics
  /\ mi' = mi + 1
  /\ UNCHANGED <<copy, g_hashmap, mpc, samples, tierVars>>

EndUpdate ==
  /\ mpc = "update"
  /\ mi >= total_obj
  /\ mpc' = "sleep"
  /\ UNCHANGED <<metrics, copy, g_hashmap, mi, samples, tierVars>>

MonitorStep ==
  \/ clear_metrics
  \/ \E addr \in Addrs, src \in Sources, weight \in Weights :
       ReadSample(addr, src, weight)
  \/ EndRead
  \/ UpdateObject
  \/ EndUpdate

-----------------------------------------------------------------------------
SlotSum(f) == LET sum[k \in 0 .. MAX_OBJECTS] ==
                    IF k = 0 THEN 0 ELSE sum[k - 1] + f[k - 1]
              IN  sum[MAX_OBJECTS]

(***************************************************************************)
(* "Store is the unique that we accumulate over time": the stores credited *)
(* to all objects together are never more than the addresses stored to,    *)
(* over every period and every object that came and went.                  *)
(***************************************************************************)
StoresOncePerAddress ==
  SlotSum([i \in Slots |-> metrics[i].stores_count]) <= 100 * Cardinality(g_hashmap)

(***************************************************************************)
(* In the copy the TLB outcomes of a level are among the loads of that     *)
(* level, and there is a latency only where there is an outcome.           *)
(***************************************************************************)
TlbWithinLoads ==
  \A i \in Slots, j \in Levels :
    LET c == copy[i]
    IN  /\ c.tlb_hit[j] + c.tlb_miss[j] <= c.loads_count[j]
        /\ c.sum_latency_cost[j] > 0 => c.tlb_hit[j] + c.tlb_miss[j] > 0

(***************************************************************************)
(* An object that is no longer sampled cools down: every averaged metric   *)
(* of a live object returns to 0.                                          *)
(***************************************************************************)
IdleObjectsCool ==
  \A i \in Slots :
    <>[](obj_alloc[i] = 1 => metrics[i] = [Zero EXCEPT !.stores_count =
                                             metrics[i].stores_count])

(***************************************************************************)
(* "All the other we update using average moving": a period without a      *)
(* sample does not raise the average.                                      *)
(***************************************************************************)
IdlePeriodLowers ==
  [][\A i \in Slots, j \in Levels :
       metrics'[i] # metrics[i] /\ copy[i] = Zero =>
         metrics'[i].loads_count[j] <= metrics[i].loads_count[j]]_metrics

=============================================================================
