--------------------------- MODULE ActuatorHistory ---------------------------
(***************************************************************************)
(* The actuator with history variables, for the properties that relate an  *)
(* order to the orders sent before it.  Its surroundings are reduced to    *)
(* what they promise it: the recorder to the append-only registry          *)
(* (ImplementsRegistry), the application to a reader of the pipe.          *)
(***************************************************************************)
EXTENDS Actuator

CONSTANTS
  Starts,    \* the tables it may start on: <<objects, time>>
  Sizes,     \* sizes of the objects that appear
  MaxLive    \* bound on the objects in the table while they come and go

ASSUME HistoryAssumption ==
  /\ Starts \subseteq (0 .. MAX_OBJECTS) \X (1 .. MaxTime)
  /\ Sizes \subseteq 1 .. CHUNK_SIZE
  /\ MaxLive \in 0 .. MAX_OBJECTS

VARIABLES
  demoted,         \* demotions of this period: list entry and amount
  promoted,        \* promotions of this period, likewise
  grew,            \* the last sort raised a maximum
  promoted_at,     \* slot -> when it was last promoted, 0 if never
  since_demotion,  \* periods since the last that demoted, up to 3
  placed           \* slot -> where its pages were at the last reading

history == <<demoted, promoted, grew, promoted_at, since_demotion, placed>>

migration == [entry : key_value, amount : Int]

HistoryTypeOK ==
  /\ demoted \in Seq(migration)
  /\ promoted \in Seq(migration)
  /\ grew \in BOOLEAN
  /\ promoted_at \in [Slots -> Nat]
  /\ since_demotion \in 0 .. 3
  /\ \A i \in DOMAIN placed : i \in Slots /\ placed[i] \in Placements

HistoryInit ==
  /\ demoted = << >>
  /\ promoted = << >>
  /\ grew = FALSE
  /\ promoted_at = [i \in Slots |-> 0]
  /\ since_demotion = 3
  /\ placed = << >>

(* The bursts of a period, after this step; a new period forgets them. *)
Extended(burst, stores) ==
  IF apc' = "loop" THEN << >>
  ELSE IF stores
  THEN Append(burst, [entry  |-> Entry,
                      amount |-> max_migration_gb - max_migration_gb'])
  ELSE burst

HistoryStep ==
  /\ \/ \E at \in PlacedSomehow : ActuatorReads(at) /\ placed' = at
     \/ ActuatorActs /\ placed' = IF apc' \in {"flag", "loop"} THEN << >> ELSE placed
  /\ demoted' = Extended(demoted, apc = "sent_demotion")
  /\ promoted' = Extended(promoted, apc = "sent_promotion")
  /\ grew' = IF apc' = "loop" THEN FALSE
             ELSE (grew \/ g_curr_max' # g_curr_max)
  /\ promoted_at' = IF apc = "sent_promotion"
                    THEN [promoted_at EXCEPT ![Entry.key] = now]
                    ELSE promoted_at
  /\ since_demotion' = IF apc = "send_demotion" THEN 0
                       ELSE IF apc = "loop" /\ since_demotion < 3
                       THEN since_demotion + 1
                       ELSE since_demotion

-----------------------------------------------------------------------------
(* The surroundings *)

Appear(size) ==
  /\ total_obj < MaxLive
  /\ obj_vector' = [obj_vector EXCEPT ![total_obj] =
                      [start_addr |-> total_obj * CHUNK_SIZE,
                       end_addr |-> total_obj * CHUNK_SIZE + size,
                       size |-> size, sliced |-> 0]]
  /\ obj_alloc' = [obj_alloc EXCEPT ![total_obj] = 1]
  /\ birth_date' = [birth_date EXCEPT ![total_obj] = now]
  /\ total_obj' = total_obj + 1
  /\ UNCHANGED <<last_decision, pipe, now, actuatorVars, history>>

Vanish(i) ==
  /\ total_obj <= MaxLive
  /\ obj_alloc[i] = 1
  /\ obj_alloc' = [obj_alloc EXCEPT ![i] = 0]
  /\ UNCHANGED <<obj_vector, birth_date, last_decision, total_obj, pipe, now,
                 actuatorVars, history>>

PipeRead ==
  /\ pipe # << >>
  /\ pipe' = Tail(pipe)
  /\ UNCHANGED <<obj_vector, obj_alloc, birth_date, last_decision, total_obj,
                 now, actuatorVars, history>>

(* A table with n objects of a chunk each, the rest of it unused *)
Table(n) ==
  /\ obj_vector = [i \in Slots |->
                     IF i < n
                     THEN [start_addr |-> i * CHUNK_SIZE,
                           end_addr |-> (i + 1) * CHUNK_SIZE,
                           size |-> CHUNK_SIZE, sliced |-> 1]
                     ELSE [start_addr |-> NO_ADDR, end_addr |-> 0, size |-> 0,
                           sliced |-> 0]]
  /\ obj_alloc = [i \in Slots |-> IF i < n THEN 1 ELSE 0]
  /\ birth_date = [i \in Slots |-> IF i < n THEN 1 ELSE 0]
  /\ last_decision = [i \in Slots |-> UNDECIDED]
  /\ total_obj = n
  /\ pipe = << >>

Init ==
  /\ \E start \in Starts : Table(start[1]) /\ now = start[2]
  /\ ActuatorInit
  /\ HistoryInit

Next ==
  \/ HistoryStep
  \/ \E size \in Sizes : Appear(size)
  \/ \E i \in Slots : Vanish(i)
  \/ PipeRead
  \/ Tick /\ UNCHANGED <<actuatorVars, history>>

Spec == Init /\ [][Next]_<<tierVars, actuatorVars, history>>

TypeOK == TierTypeOK /\ ActuatorTypeOK /\ HistoryTypeOK

-----------------------------------------------------------------------------
(***************************************************************************)
(* "wait 3 periods after demotion": a period that demotes is followed by   *)
(* at least two that do not.                                               *)
(***************************************************************************)
DemotionSpacing == apc = "send_demotion" => since_demotion \in {0, 3}

(***************************************************************************)
(* An object that was promoted stays in DRAM for more than                 *)
(* min_lifetime_sec: policy_promotion restarts birth_date.                 *)
(***************************************************************************)
NoEarlyDemotion ==
  apc = "send_demotion" =>
    \/ promoted_at[Entry.key] = 0
    \/ now - promoted_at[Entry.key] > MIN_LIFETIME

(***************************************************************************)
(* In one period no object gets two orders: what policy_demotion has just  *)
(* sent away, policy_promotion does not bring back.                        *)
(***************************************************************************)
OneOrderPerPeriod ==
  LET sent == demoted \o promoted
  IN  \A j, k \in 1 .. Len(sent) :
        sent[j].entry.key = sent[k].entry.key => j = k

Hotter(a, b) ==
  \/ a.value > b.value
  \/ /\ ~grew
     /\ a.trace # b.trace
     /\ \A f \in DOMAIN a.trace : a.trace[f] >= b.trace[f]

(***************************************************************************)
(* "from hottest to least hot": no promotion goes out before a hotter one  *)
(* and no demotion before a colder one.  Hotter by the metrics themselves  *)
(* too, unless a maximum rose while they were compared: the objects sorted *)
(* before it rose were then measured against a lower one.                  *)
(***************************************************************************)
HottestFirst ==
  /\ \A j, k \in 1 .. Len(promoted) :
        j < k => ~Hotter(promoted[k].entry, promoted[j].entry)
  /\ \A j, k \in 1 .. Len(demoted) :
        j < k => ~Hotter(demoted[j].entry, demoted[k].entry)

Total(s) == LET sum[k \in 0 .. Len(s)] ==
                  IF k = 0 THEN 0 ELSE sum[k - 1] + s[k].amount
            IN  sum[Len(s)]

(***************************************************************************)
(* "There is a maximum transfer limit of one object after reaching a chunk *)
(* of migrated data": without its last order, a burst of either policy     *)
(* moves at most one chunk; with it, at most two, and two pages more that  *)
(* the reading of another object may have left in the count.               *)
(***************************************************************************)
BurstLimit ==
  \A burst \in {demoted, promoted} :
    burst # << >> =>
      /\ Total(SubSeq(burst, 1, Len(burst) - 1)) <= CHUNK_SIZE * SHARE
      /\ Total(burst) <= 2 * (CHUNK_SIZE + PAGE) * SHARE

(***************************************************************************)
(* The free DRAM is read once and not reduced by the orders of the burst,  *)
(* so a burst can promise more than there was; but by less than a chunk.   *)
(***************************************************************************)
PromotionNearFree ==
  apc = "promote" /\ promoted # << >> =>
    Total(promoted) < current_free_dram + CHUNK_SIZE * SHARE

(***************************************************************************)
(* The count of pages is not cleared between two objects, so that a share  *)
(* above 0 proves nothing; but what is left over is below min_size_gb, and *)
(* only objects with pages in DRAM are ordered out of it.                  *)
(***************************************************************************)
DemotedHasDram ==
  apc = "send_demotion" => /\ Entry.key \in DOMAIN placed
                           /\ placed[Entry.key].dram > 0
=============================================================================
