------------------------------ MODULE Scheduler ------------------------------
(***************************************************************************)
(* The running system: the recorder (intercept thread) and the actuator of *)
(* start_threads, and the mbind thread of the application, interleaved.    *)
(* They share g_tier_manager without a lock, and the two pipes.            *)
(***************************************************************************)
EXTENDS Recorder, Actuator, Preload

VARIABLE
  overtaken   \* history: objects whose first order was written after the
              \* last order of the actuator for them

schedulerVars == <<tierVars, recorderVars, actuatorVars, preloadVars, overtaken>>

SchedulerInit ==
  RecorderInit /\ ActuatorInit /\ PreloadInit /\ overtaken = {}

(***************************************************************************)
(* The node of the actuator's last order for an object.  It is stored in   *)
(* last_decision once the order is written.                                *)
(***************************************************************************)
Decision(i) ==
  IF apc \in {"sent_demotion", "sent_promotion"} /\ Entry.key = i
  THEN IF apc = "sent_demotion" THEN NODE_0_PMEM ELSE NODE_0_DRAM
  ELSE last_decision[i]

RecorderMove ==
  /\ RecorderStep
  /\ overtaken' = IF rpc = "order" /\ Decision(index) # UNDECIDED
                  THEN overtaken \cup {index} ELSE overtaken
  /\ UNCHANGED <<actuatorVars, preloadVars>>

ActuatorMove ==
  /\ ActuatorStep
  /\ overtaken' = IF apc \in {"send_demotion", "send_promotion"}
                  THEN overtaken \ {Entry.key} ELSE overtaken
  /\ UNCHANGED <<recorderVars, preloadVars>>

PreloadMove == PreloadStep /\ UNCHANGED <<recorderVars, actuatorVars, overtaken>>
ClockMove == Tick /\ UNCHANGED <<recorderVars, actuatorVars, preloadVars, overtaken>>
StopMove == StopActuator /\ UNCHANGED <<recorderVars, preloadVars, overtaken>>

(* Once the table is overrun, start_threads has corrupted itself. *)
SchedulerNext ==
  \/ rpc # "overrun" /\ (RecorderMove \/ ActuatorMove \/ StopMove)
  \/ PreloadMove
  \/ ClockMove
  \/ Stopped /\ UNCHANGED <<actuatorVars, preloadVars, overtaken>>

(***************************************************************************)
(* Fairness.  The threads run on cores of their own and every step is a    *)
(* few instructions or a call that returns, so a step that stays possible  *)
(* is taken.  A write to a full pipe is woken in the order of arrival, so  *)
(* a writer that is given room again and again gets its turn (SF).  The    *)
(* application need not mmap, munmap or advance the clock.                 *)
(***************************************************************************)
Fairness ==
  /\ WF_schedulerVars((FindSlot \/ Publish \/ Count \/ Deallocate) /\ RecorderMove)
  /\ SF_schedulerVars(Order /\ RecorderMove)
  /\ WF_schedulerVars(ActuatorMove)
  /\ SF_schedulerVars((SendDemotion \/ SendPromotion) /\ ActuatorMove)
  /\ WF_schedulerVars(PreloadMove)

SchedulerSpec ==
  SchedulerInit /\ [][SchedulerNext]_schedulerVars /\ Fairness

SchedulerTypeOK ==
  RecorderTypeOK /\ ActuatorTypeOK /\ PreloadTypeOK /\ overtaken \subseteq Slots

-----------------------------------------------------------------------------
(***************************************************************************)
(* The recorder's first order for an object can be overtaken by a demotion *)
(* of that object only if the pipe kept the recorder waiting for more than *)
(* min_lifetime_sec: until then birth_date protects it.                    *)
(***************************************************************************)
OvertakenOnlyWhenOld ==
  rpc = "order" /\ Decision(index) = NODE_0_PMEM =>
    now - birth_date[index] > MIN_LIFETIME

Pending(i) ==
  \/ \E k \in 1 .. Len(pipe) : pipe[k].obj_index = i
  \/ ppc = "mbind" /\ buf.obj_index = i

(***************************************************************************)
(* When nothing is pending for an object the actuator has decided on, the  *)
(* last mbind tried on it is that decision: no order is lost, repeated or  *)
(* put before an older one, in spite of the two writers, the pipe and the  *)
(* reader between the decision and the pages.  The one exception is an     *)
(* object whose first order the recorder has written after the decision:   *)
(* there the mbind is the recorder's, to DRAM, until the actuator decides  *)
(* again.                                                                  *)
(***************************************************************************)
DecisionReachesPages ==
  \A i \in 0 .. total_obj - 1 :
    Decision(i) # UNDECIDED /\ ~Pending(i) =>
      attempted[i] = IF i \in overtaken THEN NODE_0_DRAM ELSE Decision(i)

(***************************************************************************)
(* Every insertion comes to its end: the recorder, which waits for the     *)
(* actuator's orders to leave the pipe, is never kept waiting for ever.    *)
(***************************************************************************)
InsertionCompletes == rpc = "find" ~> rpc \in {"idle", "overrun"}

(***************************************************************************)
(* An actuator told to stop leaves its loop, also in the middle of a burst *)
(* against a full pipe.                                                    *)
(***************************************************************************)
ActuatorStops == ~g_running_actuator ~> (apc = "done" \/ rpc = "overrun")

(***************************************************************************)
(* "O atuador apenas envia os dados para que o preload realize o bind":    *)
(* the mbind thread is done with every order it takes, failed ones         *)
(* included, and comes back for the next.                                  *)
(***************************************************************************)
OrdersServed == ppc # "read" ~> ppc = "read"

(***************************************************************************)
(* The two writers, the pipe and the mbind thread are together one fair    *)
(* first-in first-out service of bind orders, as long as the failures fit  *)
(* in migration_error.pipe.                                                *)
(***************************************************************************)
Service ==
  INSTANCE MbindService
    WITH Objects <- Slots,
         Nodes <- {UNDECIDED, NODE_0_DRAM, NODE_0_PMEM},
         queue <- (IF ppc = "mbind" THEN <<buf>> ELSE << >>) \o pipe

ImplementsMbindService == Service!Spec
=============================================================================
