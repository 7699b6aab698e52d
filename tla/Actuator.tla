------------------------------ MODULE Actuator -------------------------------
(***************************************************************************)
(* actuator.c: the thread that, once per period, sorts the objects by      *)
(* hotness, demotes cold ones to PMEM when DRAM runs low and promotes hot  *)
(* ones to DRAM, by writing orders to migration.pipe.                      *)
(*                                                                         *)
(* A policy is cut into a step that tests an object, one that writes its   *)
(* order and one that stores the decision: the test ends in a popen of     *)
(* /proc/uptime, the write may block, and the recorder and the mbind       *)
(* thread work in between, so that an order may be tried before the        *)
(* decision it stands for is stored.                                       *)
(*                                                                         *)
(* Sizes are counted in units, page_status in parts of SHARE, rounded      *)
(* towards 0, and amounts of memory (curr_alloc_size_gb, max_migration_gb) *)
(* in units times SHARE.                                                   *)
(***************************************************************************)
EXTENDS TierManager, FiniteSets

CONSTANTS
  Readings,       \* metrics an object may show: [llcm, tlbm, stores]
  HOTNESS,        \* g_hotness_threshold, in hundredths
  SHARE,          \* all the pages of an object
  PAGE,           \* units in a page
  Placements,     \* where the pages of an object may be: [dram, pmem]
  FreeLevels,     \* get_free_dram_space readings, in units times SHARE
  MIN_SIZE,       \* min_size_gb of policy_demotion, in units times SHARE
  MIN_LIFETIME    \* min_lifetime_sec of policy_demotion

metric == [llcm : Nat, tlbm : Nat, stores : Nat]

ASSUME ActuatorAssumption ==
  /\ Readings \subseteq metric
  /\ HOTNESS \in Nat
  /\ SHARE \in Nat \ {0}
  /\ PAGE \in Nat \ {0}
  /\ Placements \subseteq [dram : 0 .. SHARE, pmem : 0 .. SHARE]
  /\ FreeLevels \subseteq Int
  /\ MIN_SIZE \in Nat
  /\ MIN_LIFETIME \in Nat

VARIABLES
  apc,               \* where thread_actuator is
  g_running_actuator,
  g_key_value_list,  \* its first g_active_obj entries
  g_promotion_flag,
  g_curr_max,        \* the highest metrics seen: llcm, tlbm, stores
  g_has_demotion,
  count,             \* periods since a demotion, counted while DRAM is low
  ai,                \* loop variable of the policy that runs
  max_migration_gb,  \* what the policy may still migrate
  current_free_dram, \* reading of policy_promotion (these three are locals)
  page_status,       \* slot -> last reading
  g_status_memory_pages  \* the reading before

listVars    == <<g_key_value_list, g_promotion_flag, g_curr_max>>
spacingVars == <<g_has_demotion, count>>
readings    == <<current_free_dram, page_status, g_status_memory_pages>>

actuatorVars == <<apc, g_running_actuator, listVars, spacingVars, ai,
                  max_migration_gb, readings>>

key_value == [key : Slots, value : 0 .. 300, trace : metric]
shares    == [dram : Int, pmem : Int]

APC == {"wait", "loop", "pressure", "demote", "send_demotion",
        "sent_demotion", "flag", "promote", "send_promotion",
        "sent_promotion", "done"}

ActuatorTypeOK ==
  /\ apc \in APC
  /\ g_running_actuator \in BOOLEAN
  /\ g_key_value_list \in Seq(key_value)
  /\ g_promotion_flag \in {0, 1}
  /\ g_curr_max \in metric
  /\ g_has_demotion \in {0, 1}
  /\ count \in 0 .. 2
  /\ ai \in 0 .. Len(g_key_value_list) + 1
  /\ max_migration_gb \in Int
  /\ current_free_dram \in FreeLevels \cup {0}
  /\ page_status \in [Slots -> shares]
  /\ g_status_memory_pages \in shares

Unread == [i \in Slots |-> [dram |-> 0, pmem |-> 0]]

(* g_status_memory_pages comes from malloc and is never cleared, but it is *)
(* the first block of the thread's own arena, which the kernel hands over  *)
(* zeroed.                                                                 *)
ActuatorInit ==
  /\ apc = "wait"
  /\ g_running_actuator = TRUE
  /\ g_key_value_list = << >>
  /\ g_promotion_flag = 0
  /\ g_curr_max = [llcm |-> 1, tlbm |-> 1, stores |-> 1]
  /\ g_has_demotion = 0
  /\ count = 2
  /\ ai = 0
  /\ max_migration_gb = 0
  /\ current_free_dram = 0
  /\ page_status = Unread
  /\ g_status_memory_pages = [dram |-> 0, pmem |-> 0]

LowDram(free) == free < 2 * CHUNK_SIZE * SHARE

-----------------------------------------------------------------------------
(* The wait for pressure that precedes the loop *)
AwaitPressure ==
  /\ apc = "wait"
  /\ \E free \in FreeLevels :
       free <= 2 * CHUNK_SIZE * SHARE \/ ~g_running_actuator
  /\ apc' = "loop"
  /\ g_has_demotion' = 0
  /\ UNCHANGED <<g_running_actuator, listVars, count, ai, max_migration_gb,
                 readings, tierVars>>

(* The running maxima: they only rise, and do so in the middle of a pass. *)
Raised(max, r) ==
  [f \in DOMAIN max |-> IF r[f] > max[f] THEN r[f] ELSE max[f]]

Maxima(reading, n) ==
  LET max[k \in 0 .. n] == IF k = 0 THEN g_curr_max
                           ELSE Raised(max[k - 1], reading[k - 1])
  IN  max

(* Three ratios, each at most 1 *)
Normalised(r, max) ==
  (100 * r.llcm) \div max.llcm + (100 * r.tlbm) \div max.tlbm
    + (100 * r.stores) \div max.stores

Values(reading, n) ==
  [i \in 0 .. n - 1 |-> Normalised(reading[i], Maxima(reading, n)[i + 1])]

\* mutant: the signs of comp the other way round
comp_Ascending(value, i, j) ==
  \/ value[i] < value[j]
  \/ value[i] = value[j] /\ i < j

(* comp: the hotter entry first; the merge sort of glibc keeps ties in order *)
comp(value, i, j) ==
  \/ value[i] > value[j]
  \/ value[i] = value[j] /\ i < j

(* Ways to list the first n slots: position -> slot *)
Orders(n) ==
  {f \in [1 .. n -> 0 .. n - 1] : \A p, q \in 1 .. n : f[p] = f[q] => p = q}

(* The one qsort leaves *)
Sorted(order, value) ==
  \A p, q \in DOMAIN order : p < q => comp(value, order[p], order[q])

(***************************************************************************)
(* sort_objects.  The allocation test reads obj_alloc at an index that is  *)
(* not initialised.  In the build of run.sh (gcc -O2) obj_index is 0 and   *)
(* the test is moved out of the loop, with total_obj: obj_alloc[0] is read *)
(* once, and the test passes for every object or for none.  As the active  *)
(* entries are none or all those there are, and total_obj never falls, the *)
(* entries that an earlier pass has left are all written over; the others  *)
(* are 0 and sort behind.  The monitor may be writing a metric that is     *)
(* read, so that any mix of old and new is a reading.                      *)
(***************************************************************************)
sort_objects ==
  /\ apc = "loop"
  /\ g_running_actuator
  /\ \E n \in {0, total_obj} :
     \E reading \in [0 .. n - 1 -> Readings] :
     \E value \in {Values(reading, n)}, order \in Orders(n) :
       /\ Sorted(order, value)
       /\ g_curr_max' = Maxima(reading, n)[n]
       /\ g_key_value_list' =
            [p \in 1 .. n |-> [key |-> order[p], value |-> value[order[p]],
                               trace |-> reading[order[p]]]]
       /\ g_promotion_flag' =
            IF \E i \in DOMAIN value : value[i] > HOTNESS THEN 1 ELSE 0
  /\ apc' = "pressure"
  /\ UNCHANGED <<g_running_actuator, spacingVars, ai, max_migration_gb,
                 readings, tierVars>>

(***************************************************************************)
(* query_status_memory_pages: the pages on a node, counted on top of the   *)
(* reading before, divided by the pages of the object.  The vector is      *)
(* never cleared; it is the first block malloc gives a thread with a heap  *)
(* fresh from the kernel, hence 0 at the start (a thread that took over    *)
(* the heap of one that has ended would not be sure of it).                *)
(***************************************************************************)
query_status_memory_pages(before, at, size) ==
  LET carried(x) == IF x < 0 THEN -(-x \div (size \div PAGE))
                             ELSE x \div (size \div PAGE)
  IN  [node \in {"dram", "pmem"} |->
         IF size % PAGE # 0 THEN -SHARE ELSE at[node] + carried(before[node])]

(***************************************************************************)
(* The live objects are looked up in their order; `at` is where the kernel *)
(* has their pages.  The others keep the reading they have.                *)
(***************************************************************************)
PagesRead(at) ==
  LET reading[k \in 0 .. total_obj] ==
        IF k = 0 THEN g_status_memory_pages
        ELSE IF obj_alloc[k - 1] # 1 THEN reading[k - 1]
        ELSE query_status_memory_pages(reading[k - 1], at[k - 1],
                                       obj_vector[k - 1].size)
  IN  reading

read_allocation_status(at) ==
  LET reading == PagesRead(at)
  IN  /\ page_status' = [i \in Slots |->
                           IF i < total_obj /\ obj_alloc[i] = 1
                           THEN reading[i + 1] ELSE page_status[i]]
      /\ g_status_memory_pages' = reading[total_obj]

PlacedSomehow == [{i \in 0 .. total_obj - 1 : obj_alloc[i] = 1} -> Placements]

(***************************************************************************)
(* The pressure test of the loop body: demote at once, or let a period     *)
(* pass after a demotion.                                                  *)
(***************************************************************************)
StartDemotion(at) ==
  /\ apc = "pressure"
  /\ \E free \in FreeLevels : LowDram(free)
  /\ g_has_demotion = 0
  /\ read_allocation_status(at)
  /\ max_migration_gb' = CHUNK_SIZE * SHARE
  /\ ai' = Len(g_key_value_list)
  /\ apc' = "demote"
  /\ UNCHANGED <<g_running_actuator, listVars, spacingVars, current_free_dram,
                 tierVars>>

\* mutant: one period less
Waited_Less(periods) == periods >= 1

Waited(periods) == periods >= 2

LetPeriodPass ==
  /\ apc = "pressure"
  /\ \E free \in FreeLevels : LowDram(free)
  /\ g_has_demotion = 1
  /\ count' = count + 1
  /\ g_has_demotion' = IF Waited(count + 1) THEN 0 ELSE 1
  /\ apc' = "flag"
  /\ UNCHANGED <<g_running_actuator, listVars, ai, max_migration_gb, readings,
                 tierVars>>

NoPressure ==
  /\ apc = "pressure"
  /\ \E free \in FreeLevels : ~LowDram(free)
  /\ apc' = "flag"
  /\ UNCHANGED <<g_running_actuator, listVars, spacingVars, ai,
                 max_migration_gb, readings, tierVars>>

-----------------------------------------------------------------------------
(* policy_demotion, from the coldest entry *)

Entry == g_key_value_list[ai]
dramAlloc(i) == obj_vector[i].size * page_status[i].dram
pmemAlloc(i) == obj_vector[i].size * page_status[i].pmem

\* mutant: any amount in DRAM will do, as in policy_promotion
Demotable_AnyAmount(i, value) ==
  /\ dramAlloc(i) > 0
  /\ now - birth_date[i] > MIN_LIFETIME
  /\ value < HOTNESS
  /\ last_decision[i] # NODE_0_PMEM
  /\ obj_alloc[i] = 1

\* mutant: the lifetime of the object is not consulted
Demotable_AnyAge(i, value) ==
  /\ dramAlloc(i) > MIN_SIZE
  /\ value < HOTNESS
  /\ last_decision[i] # NODE_0_PMEM
  /\ obj_alloc[i] = 1

Demotable(i, value) ==
  /\ dramAlloc(i) > MIN_SIZE
  /\ now - birth_date[i] > MIN_LIFETIME
  /\ value < HOTNESS
  /\ last_decision[i] # NODE_0_PMEM
  /\ obj_alloc[i] = 1

TestDemotion ==
  /\ apc = "demote"
  /\ ai > 0
  /\ IF Demotable(Entry.key, Entry.value)
     THEN apc' = "send_demotion" /\ UNCHANGED ai
     ELSE ai' = ai - 1 /\ UNCHANGED apc
  /\ UNCHANGED <<g_running_actuator, listVars, spacingVars, max_migration_gb,
                 readings, tierVars>>

\* mutant: no break once the budget is spent
NextColdest_NoBreak(left) == ai - 1

(* The loop breaks once more than a chunk has been sent. *)
NextColdest(left) == IF left < 0 THEN 0 ELSE ai - 1

SendDemotion ==
  /\ apc = "send_demotion"
  /\ g_has_demotion' = 1
  /\ bind_order(Entry.key, NODE_0_PMEM, DEMOTION, MPOL_MF_MOVE)
  /\ apc' = "sent_demotion"
  /\ UNCHANGED <<g_running_actuator, listVars, count, ai, max_migration_gb,
                 readings, obj_vector, obj_alloc, birth_date, last_decision,
                 total_obj, now>>

StoreDemotion ==
  LET i == Entry.key
  IN  /\ apc = "sent_demotion"
      /\ last_decision' = [last_decision EXCEPT ![i] = NODE_0_PMEM]
      /\ max_migration_gb' = max_migration_gb - dramAlloc(i)
      /\ ai' = NextColdest(max_migration_gb')
      /\ apc' = "demote"
      /\ UNCHANGED <<g_running_actuator, listVars, spacingVars, readings,
                     obj_vector, obj_alloc, birth_date, total_obj, pipe, now>>

\* mutant: without `count = 0`, as the code was before that line was added
CountAfterDemotion_Kept == count

CountAfterDemotion == 0

EndDemotion ==
  /\ apc = "demote"
  /\ ai = 0
  /\ count' = CountAfterDemotion
  /\ max_migration_gb' = 0
  /\ page_status' = Unread
  /\ apc' = "flag"
  /\ UNCHANGED <<g_running_actuator, listVars, g_has_demotion, ai,
                 current_free_dram, g_status_memory_pages, tierVars>>

-----------------------------------------------------------------------------
(***************************************************************************)
(* policy_promotion, from the hottest entry.  The period ends with it:     *)
(* check_migration_error is commented out, so nothing reads                *)
(* migration_error.pipe.  The next period sorts and reads anew before it   *)
(* uses the list and the page status, which are therefore forgotten.       *)
(***************************************************************************)

EndPeriod ==
  /\ g_key_value_list' = << >>
  /\ g_promotion_flag' = 0
  /\ page_status' = Unread
  /\ apc' = "loop"

StartPromotion(at) ==
  /\ apc = "flag"
  /\ g_promotion_flag = 1
  /\ read_allocation_status(at)
  /\ \E free \in FreeLevels : current_free_dram' = free
  /\ max_migration_gb' = CHUNK_SIZE * SHARE
  /\ ai' = 1
  /\ apc' = "promote"
  /\ UNCHANGED <<g_running_actuator, listVars, spacingVars, tierVars>>

NoPromotion ==
  /\ apc = "flag"
  /\ g_promotion_flag = 0
  /\ EndPeriod
  /\ UNCHANGED <<g_running_actuator, g_curr_max, spacingVars, ai, max_migration_gb,
                 current_free_dram, g_status_memory_pages, tierVars>>

\* mutant: the hotness of the object is not consulted
Promotable_AnyValue(i, value) ==
  /\ pmemAlloc(i) > 0
  /\ pmemAlloc(i) < current_free_dram
  /\ last_decision[i] # NODE_0_DRAM
  /\ obj_alloc[i] = 1

\* mutant: the free DRAM is not consulted
Promotable_AnyFree(i, value) ==
  /\ pmemAlloc(i) > 0
  /\ last_decision[i] # NODE_0_DRAM
  /\ value > HOTNESS
  /\ obj_alloc[i] = 1

Promotable(i, value) ==
  /\ pmemAlloc(i) > 0
  /\ pmemAlloc(i) < current_free_dram
  /\ last_decision[i] # NODE_0_DRAM
  /\ value > HOTNESS
  /\ obj_alloc[i] = 1

\* mutant: the loop does not go on to the next object
NextHottest_Stays(left) == ai

NextHottest(left) == IF left < 0 THEN Len(g_key_value_list) + 1 ELSE ai + 1

TestPromotion ==
  /\ apc = "promote"
  /\ ai <= Len(g_key_value_list)
  /\ IF Promotable(Entry.key, Entry.value)
     THEN apc' = "send_promotion" /\ UNCHANGED ai
     ELSE ai' = NextHottest(max_migration_gb) /\ UNCHANGED apc
  /\ UNCHANGED <<g_running_actuator, listVars, spacingVars, max_migration_gb,
                 readings, tierVars>>

\* mutant: birth_date is not restarted
Reborn_Kept(i) == birth_date

Reborn(i) == [birth_date EXCEPT ![i] = now]

SendPromotion ==
  /\ apc = "send_promotion"
  /\ bind_order(Entry.key, NODE_0_DRAM, PROMOTION, MPOL_MF_MOVE)
  /\ apc' = "sent_promotion"
  /\ UNCHANGED <<g_running_actuator, listVars, spacingVars, ai,
                 max_migration_gb, readings, obj_vector, obj_alloc, birth_date,
                 last_decision, total_obj, now>>

(* No other thread reads last_decision or writes birth_date of an object   *)
(* that is counted, so the two stores are one step.  current_free_dram is  *)
(* not reduced by what the loop has promoted.                              *)
StorePromotion ==
  LET i == Entry.key
  IN  /\ apc = "sent_promotion"
      /\ last_decision' = [last_decision EXCEPT ![i] = NODE_0_DRAM]
      /\ birth_date' = Reborn(i)
      /\ max_migration_gb' = max_migration_gb - pmemAlloc(i)
      /\ ai' = NextHottest(max_migration_gb')
      /\ apc' = "promote"
      /\ UNCHANGED <<g_running_actuator, listVars, spacingVars, readings,
                     obj_vector, obj_alloc, total_obj, pipe, now>>

EndPromotion ==
  /\ apc = "promote"
  /\ ai > Len(g_key_value_list)
  /\ ai' = 0
  /\ max_migration_gb' = 0
  /\ current_free_dram' = 0
  /\ EndPeriod
  /\ UNCHANGED <<g_running_actuator, g_curr_max, spacingVars, g_status_memory_pages,
                 tierVars>>

(* The test of the loop, when the thread has been told to stop *)
ActuatorExit ==
  /\ apc = "loop"
  /\ ~g_running_actuator
  /\ apc' = "done"
  /\ UNCHANGED <<g_running_actuator, listVars, spacingVars, ai,
                 max_migration_gb, readings, tierVars>>

ActuatorReads(at) == StartDemotion(at) \/ StartPromotion(at)

ActuatorActs ==
  \/ AwaitPressure
  \/ sort_objects
  \/ LetPeriodPass
  \/ NoPressure
  \/ TestDemotion
  \/ SendDemotion
  \/ StoreDemotion
  \/ EndDemotion
  \/ NoPromotion
  \/ TestPromotion
  \/ SendPromotion
  \/ StorePromotion
  \/ EndPromotion
  \/ ActuatorExit

ActuatorStep ==
  \/ \E at \in PlacedSomehow : ActuatorReads(at)
  \/ ActuatorActs

(* SIGUSR1: the part of close_start_threads that concerns this thread *)
StopActuator ==
  /\ g_running_actuator
  /\ g_running_actuator' = FALSE
  /\ UNCHANGED <<apc, listVars, spacingVars, ai, max_migration_gb, readings,
                 tierVars>>
=============================================================================
