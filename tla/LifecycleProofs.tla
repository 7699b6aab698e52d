--------------------------- MODULE LifecycleProofs ---------------------------
(***************************************************************************)
(* The start and end of a run, for any number of children and any bound on *)
(* events and orders: its types, and the three safety invariants of        *)
(* Lifecycle.                                                              *)
(***************************************************************************)
EXTENDS Lifecycle, TLAPS

(***************************************************************************)
(* The inductive invariant.  Nothing has happened before run.sh prepares   *)
(* the run (Fresh); from then on the shared memory exists exactly when the *)
(* application is past init_lib (MemoryIsApps), which is what keeps        *)
(* children out of the FIFOs; pid.txt and g_app_pid name the application   *)
(* (PidIsApps); and a thread that writes has met the reader (MetReader).   *)
(***************************************************************************)
Fresh ==
  /\ main = "absent" =>
       /\ g_app_pid = "none"
       /\ killed = "no"
  /\ main \in {"absent", "create"} =>
       /\ icpt = "new" /\ mon = "new" /\ act = "new"
       /\ killed = "no" => \A p \in Procs : proc[p] = "absent"
  /\ main # "absent" => pid_txt # "stale"

Past == {"open", "open_error", "mbind", "plain", "gone"}

MemoryIsApps ==
  /\ main # "absent" => (shm <=> proc[App] \in Past)
  /\ proc[App] # "plain"
  /\ \A c \in Children : proc[c] # "absent" => proc[App] \in {"mbind", "gone"}
  /\ \A c \in Children : proc[c] \in {"absent", "init", "plain", "gone"}

PidIsApps ==
  /\ pid_txt = App => proc[App] # "absent"
  /\ g_app_pid # "none" => g_app_pid = App /\ proc[App] # "absent"
  /\ icpt \in {"head", "poll", "drain", "write"} => g_app_pid = App
  /\ act \in {"pressure", "loop", "write"} => g_app_pid = App

MetReader ==
  /\ icpt \in {"pid", "head", "poll", "drain", "write"} => ReaderCame
  /\ act \in {"open_error", "nodes", "pid", "pressure", "loop", "write"} => ReaderCame

LifecycleInv ==
  /\ TypeOK
  /\ events + total_obj = mmaps
  /\ Fresh
  /\ MemoryIsApps
  /\ PidIsApps
  /\ MetReader
  /\ NoSigpipeWhileAppLives

-----------------------------------------------------------------------------
(* The state run.sh starts from. *)
LEMMA InvInit == Init => LifecycleInv
  BY LifecycleAssumption
     DEF Init, LifecycleInv, TypeOK, Fresh, MemoryIsApps, PidIsApps, MetReader,
         NoSigpipeWhileAppLives, Past, Procs, ReaderCame

(* run.sh, the signal and its handler, and main *)
LEMMA ScriptKeepsInv ==
  ASSUME LifecycleInv,
         \/ Prepare \/ WritePid
         \/ killed = "no" /\ (CreateThreads \/ ReadPid \/ Join \/ Signal)
  PROVE  LifecycleInv'
<1> USE LifecycleAssumption
    DEF LifecycleInv, TypeOK, Fresh, MemoryIsApps, PidIsApps, MetReader,
        NoSigpipeWhileAppLives, Past, Procs, ReaderCame,
        threadVars, flagVars, pidVars, appVars, flowVars
<1>1. CASE Prepare
  BY <1>1 DEF Prepare, PidLeft
<1>2. CASE WritePid
  BY <1>2 DEF WritePid
<1>3. CASE CreateThreads /\ killed = "no"
  BY <1>3 DEF CreateThreads
<1>4. CASE ReadPid
  BY <1>4 DEF ReadPid
<1>5. CASE Join
  BY <1>5 DEF Join
<1>6. CASE Signal
  BY <1>6 DEF Signal
<1> QED BY <1>1, <1>2, <1>3, <1>4, <1>5, <1>6

(* The handler touches nothing but the flags. *)
LEMMA HandlerKeepsInv ==
  ASSUME LifecycleInv, close_start_threads
  PROVE  LifecycleInv'
<1>1. \E t \in {"intercept", "monitor", "actuator"} :
        running' = [running EXCEPT ![t] = FALSE]
  BY DEF close_start_threads
<1>2. running' \in [{"intercept", "monitor", "actuator"} -> BOOLEAN]
  BY <1>1, Zenon DEF LifecycleInv, TypeOK
<1>3. /\ handler' \in 0 .. 4
      /\ UNCHANGED <<main, icpt, mon, act, pid_txt, g_app_pid, shm, proc, mmaps,
                     queued, events, total_obj, killed>>
  BY DEF close_start_threads, LifecycleInv, TypeOK, threadVars, appVars, pidVars,
         flowVars
<1> QED
  BY <1>2, <1>3 DEF LifecycleInv, TypeOK, Fresh, MemoryIsApps, PidIsApps,
                    MetReader, NoSigpipeWhileAppLives, ReaderCame

(* The threads: a write finds a reader, or the application is gone. *)
LEMMA ThreadsKeepInv ==
  ASSUME LifecycleInv, ThreadsStep, killed = "no"
  PROVE  LifecycleInv'
<1> USE LifecycleAssumption
    DEF LifecycleInv, TypeOK, Fresh, MemoryIsApps, PidIsApps, MetReader,
        NoSigpipeWhileAppLives, Past, Procs, ReaderCame,
        threadVars, flagVars, pidVars, appVars, flowVars
<1>1. CASE CreateThreads \/ ReadPid \/ Join
  BY <1>1, ScriptKeepsInv
<1>2. CASE perf_Setup
  BY <1>2 DEF perf_Setup
<1>3. CASE popen_Fails \/ Setup_Exits
  BY <1>3 DEF popen_Fails, Setup_Exits
<1>4. CASE InterceptOpens
  BY <1>4 DEF InterceptOpens
<1>5. CASE InterceptLoop
  BY <1>5 DEF InterceptLoop
<1>6. CASE InterceptPoll
  BY <1>6 DEF InterceptPoll
<1>7. CASE InterceptDrain
  BY <1>7 DEF InterceptDrain
<1>8. CASE InterceptWrite
  BY <1>8 DEF InterceptWrite, Write, ReaderOpen, HasRoom
<1>9. CASE MonitorLoop
  BY <1>9 DEF MonitorLoop
<1>10. CASE ActuatorOpens
  BY <1>10 DEF ActuatorOpens
<1>11. CASE ActuatorWorks
  BY <1>11 DEF ActuatorWorks
<1>12. CASE ActuatorStops
  BY <1>12 DEF ActuatorStops
<1>13. CASE ActuatorWrite
  BY <1>13 DEF ActuatorWrite, Write, ReaderOpen, HasRoom
<1> HIDE DEF LifecycleInv
<1> QED
  BY <1>1, <1>2, <1>3, <1>4, <1>5, <1>6, <1>7, <1>8, <1>9, <1>10, <1>11, <1>12,
     <1>13
  DEF ThreadsStep

(* The application and its children: O_EXCL lets only the first of them in. *)
LEMMA ApplicationKeepsInv ==
  ASSUME LifecycleInv, ApplicationStep
  PROVE  LifecycleInv'
<1> USE LifecycleAssumption
    DEF LifecycleInv, TypeOK, Fresh, MemoryIsApps, PidIsApps, MetReader,
        NoSigpipeWhileAppLives, Past, Procs, ReaderCame,
        threadVars, flagVars, pidVars, appVars, flowVars
<1>1. ASSUME NEW p \in Procs, Start(p) PROVE LifecycleInv'
  BY <1>1 DEF Start
<1>2. ASSUME NEW p \in Procs, init_lib(p) PROVE LifecycleInv'
  BY <1>2 DEF init_lib
<1>3. ASSUME NEW p \in Procs, preload_open_pipes(p) PROVE LifecycleInv'
  BY <1>3 DEF preload_open_pipes
<1>4. ASSUME NEW p \in Procs, Exit(p) PROVE LifecycleInv'
  BY <1>4 DEF Exit
<1>5. CASE AppMmap
  BY <1>5 DEF AppMmap
<1>6. CASE Drain
  BY <1>6 DEF Drain
<1> HIDE DEF LifecycleInv
<1> QED BY <1>1, <1>2, <1>3, <1>4, <1>5, <1>6 DEF ApplicationStep

(* Every step keeps the invariant. *)
LEMMA InvNext == LifecycleInv /\ [Next]_vars => LifecycleInv'
<1> SUFFICES ASSUME LifecycleInv, [Next]_vars PROVE LifecycleInv'
  OBVIOUS
<1>1. CASE UNCHANGED vars
  BY <1>1 DEF vars, threadVars, flagVars, pidVars, appVars, flowVars, LifecycleInv,
              TypeOK, Fresh, MemoryIsApps, PidIsApps, MetReader,
              NoSigpipeWhileAppLives, ReaderCame
<1>2. CASE Next
  BY <1>1, <1>2, ScriptKeepsInv, HandlerKeepsInv, ThreadsKeepInv,
     ApplicationKeepsInv
  DEF Next, Ended
<1> QED BY <1>1, <1>2

-----------------------------------------------------------------------------
(***************************************************************************)
(* The invariant holds in every run, however many processes the            *)
(* application starts.                                                     *)
(***************************************************************************)
THEOREM LifecycleInvariant == Spec => []LifecycleInv
  BY InvInit, InvNext, PTL DEF Spec

(***************************************************************************)
(* The program counters, flags and counts of start_threads and preload.so  *)
(* keep their types; in particular the interceptor never has more events   *)
(* than there were mmaps.                                                  *)
(***************************************************************************)
THEOREM LifecycleTypeCorrect == Spec => []TypeOK
<1>1. LifecycleInv => TypeOK
  BY DEF LifecycleInv
<1> QED BY <1>1, LifecycleInvariant, PTL

(***************************************************************************)
(* shm_open with O_EXCL, and the delete_shared_memory of run.sh, give the  *)
(* mbind thread to the application and to none of its children, however    *)
(* many there are and whatever the run before left.                        *)
(***************************************************************************)
THEOREM OnlyTheAppBinds == Spec => []SingleMbindThread
<1>1. LifecycleInv => SingleMbindThread
  BY DEF LifecycleInv, MemoryIsApps, SingleMbindThread
<1> QED BY <1>1, LifecycleInvariant, PTL

(***************************************************************************)
(* The pid main reads from pid.txt is the one of the application whose     *)
(* preload.so executes the orders, also after an interrupted run.          *)
(***************************************************************************)
THEOREM PidIsTheApps == Spec => []MeasuredIsMoved
<1>1. LifecycleInv => MeasuredIsMoved
  BY DEF LifecycleInv, PidIsApps, MeasuredIsMoved
<1> QED BY <1>1, LifecycleInvariant, PTL

(***************************************************************************)
(* No write to migration.pipe raises SIGPIPE while the application lives.  *)
(***************************************************************************)
THEOREM SigpipeOnlyAfterApp == Spec => []NoSigpipeWhileAppLives
<1>1. LifecycleInv => NoSigpipeWhileAppLives
  BY DEF LifecycleInv
<1> QED BY <1>1, LifecycleInvariant, PTL
=============================================================================
