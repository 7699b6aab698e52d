------------------------------ MODULE Lifecycle ------------------------------
(***************************************************************************)
(* One run of the scheduler, after one that may have been interrupted: the *)
(* cleaning up by run.sh, the creation and opening of the two FIFOs, the   *)
(* constructor of preload.so in the application and in the processes it    *)
(* starts, pid.txt, SIGUSR1 and the joins of main, and the error paths     *)
(* that end a thread or the process.  What the threads do between start    *)
(* and end is in Recorder, Monitor, Actuator and Preload; here they only   *)
(* read events, write orders and test their flag.                          *)
(*                                                                         *)
(* run.sh starts the application three seconds after start_threads         *)
(* ("sleep 3"): here, when its threads have set perf up or failed to, and  *)
(* the writers have reached their open().  open() of a FIFO waits until    *)
(* the other side has come.                                                *)
(***************************************************************************)
EXTENDS Naturals, FiniteSets

CONSTANTS
  App,          \* the application's first process, whose pid is in pid.txt
  Children,     \* processes it starts; they inherit LD_PRELOAD
  MaxEvents,    \* bound on the application's mmaps
  QUEUE_CAP     \* orders migration.pipe holds

ASSUME LifecycleAssumption ==
  /\ App \notin Children \cup {"none", "stale"}
  /\ IsFiniteSet(Children)
  /\ MaxEvents \in Nat
  /\ QUEUE_CAP \in Nat \ {0}

Procs == {App} \cup Children

VARIABLES
  main,        \* main of start_threads; "absent" before run.sh starts it
  icpt, mon, act,   \* its threads
  running,     \* g_running_intercept, g_running_monitor, g_running_actuator
  handler,     \* next store of close_start_threads; 0 before SIGUSR1, 4 after
  pid_txt,     \* whose pid the file holds: "none", "stale" or App
  g_app_pid,   \* the pid read from it, "none" for -1
  shm,         \* MY_SHARED_MEMORY exists
  proc,        \* process -> where its constructor or main is
  queued,      \* orders in migration.pipe
  mmaps,       \* mmaps the application has made
  events,      \* those the interceptor has not read
  total_obj,
  killed       \* what ended start_threads before its joins: "no", "setup"
               \* (exit while main or a thread sets itself up), "popen"
               \* (exit when popen fails) or "sigpipe"

threadVars == <<main, icpt, mon, act>>
flagVars   == <<running, handler>>
pidVars    == <<pid_txt, g_app_pid>>
appVars    == <<pidVars, shm, proc, mmaps>>
flowVars   == <<queued, events, total_obj, killed>>
vars       == <<threadVars, flagVars, appVars, flowVars>>

TypeOK ==
  /\ main \in {"absent", "create", "pid", "join_intercept", "join_monitor",
               "join_actuator", "done"}
  /\ icpt \in {"new", "setup", "open", "pid", "head", "poll", "drain", "write", "done"}
  /\ mon \in {"new", "setup", "loop", "done"}
  /\ act \in {"new", "open", "open_error", "nodes", "pid", "pressure", "loop",
              "write", "done"}
  /\ running \in [{"intercept", "monitor", "actuator"} -> BOOLEAN]
  /\ handler \in 0 .. 4
  /\ pid_txt \in {"none", "stale", App}
  /\ g_app_pid \in {"none", "stale", App}
  /\ shm \in BOOLEAN
  /\ proc \in [Procs -> {"absent", "init", "open", "open_error", "mbind",
                         "plain", "gone"}]
  /\ queued \in 0 .. QUEUE_CAP
  /\ mmaps \in 0 .. MaxEvents
  /\ events \in 0 .. MaxEvents
  /\ total_obj \in 0 .. MaxEvents
  /\ killed \in {"no", "setup", "popen", "sigpipe"}

(* An interrupted run leaves its shared memory and may leave its pid.txt. *)
Init ==
  /\ main = "absent"
  /\ icpt = "new" /\ mon = "new" /\ act = "new"
  /\ running = [t \in {"intercept", "monitor", "actuator"} |-> TRUE]
  /\ handler = 0
  /\ pid_txt \in {"none", "stale"}
  /\ g_app_pid = "none"
  /\ shm \in BOOLEAN
  /\ proc = [p \in Procs |-> "absent"]
  /\ queued = 0 /\ mmaps = 0 /\ events = 0 /\ total_obj = 0
  /\ killed = "no"

(* Which sides of the FIFOs have come: a side that came stays counted, but *)
(* for the ends of start_threads, which its exit closes.                   *)
ReaderCame      == proc[App] \notin {"absent", "init"}
WriterCame      == act # "new" /\ killed = "no"
ErrorReaderCame == act \notin {"new", "open", "open_error"} /\ killed = "no"

(* Who holds a reading end: the application, and the processes it started, *)
(* which inherit it (it is opened without O_CLOEXEC).                      *)
ReaderOpen ==
  \/ proc[App] \in {"open", "open_error", "mbind"}
  \/ \E c \in Children : proc[c] \in {"init", "open", "open_error", "mbind", "plain"}

-----------------------------------------------------------------------------
\* mutant: the text files of the last run are not removed
PidLeft_Kept == pid_txt

(* "rm -f *.txt" *)
PidLeft == "none"

(* run.sh removes the files of the last run, runs delete_shared_memory and *)
(* starts start_threads.                                                   *)
Prepare ==
  /\ main = "absent"
  /\ main' = "create"
  /\ pid_txt' = PidLeft
  /\ shm' = FALSE
  /\ UNCHANGED <<icpt, mon, act, flagVars, g_app_pid, proc, mmaps, flowVars>>

(* main *)

(* initialize_recorder, the FIFOs, the threads *)
CreateThreads ==
  /\ main = "create"
  /\ main' = "pid"
  /\ icpt' = "setup" /\ mon' = "setup" /\ act' = "open"
  /\ UNCHANGED <<flagVars, appVars, flowVars>>

(* run.sh writes pid.txt once it has started the application. *)
WritePid ==
  /\ proc[App] # "absent"
  /\ pid_txt # App
  /\ pid_txt' = App
  /\ UNCHANGED <<threadVars, flagVars, g_app_pid, shm, proc, mmaps, flowVars>>

(* main tries the file until it holds a pid. *)
ReadPid ==
  /\ main = "pid"
  /\ pid_txt # "none"
  /\ g_app_pid' = pid_txt
  /\ main' = "join_intercept"
  /\ UNCHANGED <<icpt, mon, act, flagVars, pid_txt, shm, proc, mmaps, flowVars>>

Join ==
  /\ \/ main = "join_intercept" /\ icpt = "done" /\ main' = "join_monitor"
     \/ main = "join_monitor" /\ mon = "done" /\ main' = "join_actuator"
     \/ main = "join_actuator" /\ act = "done" /\ main' = "done"
  /\ UNCHANGED <<icpt, mon, act, flagVars, appVars, flowVars>>

(* SIGUSR1, sent by run.sh when the application has ended *)
Signal ==
  /\ proc[App] = "gone"
  /\ pid_txt = App
  /\ handler = 0
  /\ handler' = 1
  /\ UNCHANGED <<threadVars, running, appVars, flowVars>>

(* The handler's three stores, in its order *)
close_start_threads ==
  /\ \/ handler = 1 /\ running' = [running EXCEPT !["intercept"] = FALSE]
     \/ handler = 2 /\ running' = [running EXCEPT !["actuator"] = FALSE]
     \/ handler = 3 /\ running' = [running EXCEPT !["monitor"] = FALSE]
  /\ handler' = handler + 1
  /\ UNCHANGED <<threadVars, appVars, flowVars>>

-----------------------------------------------------------------------------
HasRoom == queued < QUEUE_CAP

(* write() to migration.pipe: SIGPIPE when the application is gone *)
Write ==
  \/ /\ ~ReaderOpen
     /\ killed' = "sigpipe"
     /\ UNCHANGED queued
  \/ /\ ReaderOpen
     /\ HasRoom
     /\ queued' = queued + 1
     /\ UNCHANGED killed

(* popen, in every get_my_timestamp and get_free_dram_space: the process   *)
(* exits when it fails, as it does in a long run, which is out of          *)
(* descriptors (get_my_timestamp never closes the stream).                 *)
popen_Fails ==
  /\ \/ icpt = "write"
     \/ mon = "loop" /\ total_obj > 0
     \/ act \in {"pressure", "loop", "write"}
  /\ killed' = "popen"
  /\ UNCHANGED <<threadVars, flagVars, appVars, queued, events, total_obj>>

(* The two threads that use perf set it up; after an error the thread ends. *)
perf_Setup ==
  /\ \/ /\ icpt = "setup"
        /\ icpt' \in {"open", "done"}
        /\ UNCHANGED mon
     \/ /\ mon = "setup"
        /\ mon' \in {"loop", "done"}
        /\ UNCHANGED icpt
  /\ UNCHANGED <<main, act, flagVars, appVars, flowVars>>

(* The errors of setting up that end the process: in main the popen of     *)
(* set_current_free_dram, in the threads that use perf a missing cpu map,  *)
(* in the actuator a machine of one node or no memory for the page counts. *)
Setup_Exits ==
  /\ \/ main = "create"
     \/ "setup" \in {icpt, mon}
     \/ act = "nodes"
  /\ killed' = "setup"
  /\ UNCHANGED <<threadVars, flagVars, appVars, queued, events, total_obj>>

(* The intercept thread *)

\* mutant: the open does not wait for the reader
InterceptOpens_NoWait ==
  /\ \/ icpt = "open" /\ icpt' = "pid"
     \/ icpt = "pid" /\ g_app_pid # "none" /\ icpt' = "head"
  /\ UNCHANGED <<main, mon, act, flagVars, appVars, flowVars>>

InterceptOpens ==
  /\ \/ icpt = "open" /\ ReaderCame /\ icpt' = "pid"
     \/ icpt = "pid" /\ g_app_pid # "none" /\ icpt' = "head"
  /\ UNCHANGED <<main, mon, act, flagVars, appVars, flowVars>>

\* mutant: the flag is tested once, before the loop
InterceptLoop_Forever ==
  /\ icpt = "head"
  /\ icpt' = "poll"
  /\ UNCHANGED <<main, mon, act, flagVars, appVars, flowVars>>

InterceptLoop ==
  /\ icpt = "head"
  /\ icpt' = IF running["intercept"] THEN "poll" ELSE "done"
  /\ UNCHANGED <<main, mon, act, flagVars, appVars, flowVars>>

\* mutant: the ring is read without testing that it holds a record
InterceptDrain_Unread ==
  /\ icpt = "drain"
  /\ events' = events - 1
  /\ total_obj' = total_obj + 1
  /\ icpt' = "write"
  /\ UNCHANGED <<main, mon, act, flagVars, appVars, queued, killed>>

(* poll without a timeout: an mmap anywhere in the machine wakes it. *)
InterceptPoll ==
  /\ icpt = "poll"
  /\ icpt' = "drain"
  /\ UNCHANGED <<main, mon, act, flagVars, appVars, flowVars>>

InterceptDrain ==
  /\ icpt = "drain"
  /\ \/ /\ events > 0
        /\ events' = events - 1
        /\ total_obj' = total_obj + 1
        /\ icpt' = "write"
     \/ /\ events = 0
        /\ icpt' = "head"
        /\ UNCHANGED <<events, total_obj>>
  /\ UNCHANGED <<main, mon, act, flagVars, appVars, queued, killed>>

InterceptWrite ==
  /\ icpt = "write"
  /\ Write
  /\ icpt' = "drain"
  /\ UNCHANGED <<main, mon, act, flagVars, appVars, events, total_obj>>

(* The monitor: nothing but its flag matters here. *)
MonitorLoop ==
  /\ mon = "loop"
  /\ ~running["monitor"]
  /\ mon' = "done"
  /\ UNCHANGED <<main, icpt, act, flagVars, appVars, flowVars>>

(* The actuator: its two opens, allocate_vector_status, the wait for the pid *)
ActuatorOpens ==
  /\ \/ act = "open" /\ ReaderCame /\ act' = "open_error"
     \/ act = "open_error" /\ act' = "nodes"
     \/ act = "nodes" /\ act' = "pid"
     \/ act = "pid" /\ g_app_pid # "none" /\ act' = "pressure"
  /\ UNCHANGED <<main, icpt, mon, flagVars, appVars, flowVars>>

(* DRAM is low, and from then on some periods send orders. *)
ActuatorWorks ==
  /\ \/ act = "pressure" /\ act' = "loop"
     \/ act = "loop" /\ running["actuator"] /\ act' = "write"
  /\ UNCHANGED <<main, icpt, mon, flagVars, appVars, flowVars>>

ActuatorStops ==
  /\ ~running["actuator"]
  /\ \/ act = "pressure" /\ act' = "loop"
     \/ act = "loop" /\ act' = "done"
  /\ UNCHANGED <<main, icpt, mon, flagVars, appVars, flowVars>>

ActuatorWrite ==
  /\ act = "write"
  /\ Write
  /\ act' \in {"write", "loop"}
  /\ UNCHANGED <<main, icpt, mon, flagVars, appVars, events, total_obj>>

-----------------------------------------------------------------------------
(* The application *)

(* run.sh starts it, and it may start children once it runs. *)
Start(p) ==
  /\ proc[p] = "absent"
  /\ \/ p = App /\ act # "new" /\ "setup" \notin {icpt, mon}
     \/ p = App /\ killed = "setup"
     \/ p # App /\ proc[App] \in {"mbind", "plain"}
  /\ proc' = [proc EXCEPT ![p] = "init"]
  /\ UNCHANGED <<threadVars, flagVars, pidVars, shm, mmaps, flowVars>>

\* mutant: shm_open without O_EXCL
init_lib_NotExclusive(p) ==
  /\ proc[p] = "init"
  /\ shm' = TRUE
  /\ proc' = [proc EXCEPT ![p] = "open"]
  /\ UNCHANGED <<threadVars, flagVars, pidVars, mmaps, flowVars>>

(* init_lib: the first process to create the shared memory gets the thread. *)
init_lib(p) ==
  /\ proc[p] = "init"
  /\ shm' = TRUE
  /\ proc' = [proc EXCEPT ![p] = IF shm THEN "plain" ELSE "open"]
  /\ UNCHANGED <<threadVars, flagVars, pidVars, mmaps, flowVars>>

\* mutant: the constructor takes an order before it opens migration_error.pipe
preload_open_pipes_Late(p) ==
  /\ \/ /\ proc[p] = "open"
        /\ WriterCame
        /\ proc' = [proc EXCEPT ![p] = "open_error"]
     \/ /\ proc[p] = "open_error"
        /\ queued > 0
        /\ proc' = [proc EXCEPT ![p] = "mbind"]
  /\ UNCHANGED <<threadVars, flagVars, pidVars, shm, mmaps, flowVars>>

(* preload_open_pipes: migration.pipe, then migration_error.pipe *)
preload_open_pipes(p) ==
  /\ \/ /\ proc[p] = "open"
        /\ WriterCame
        /\ proc' = [proc EXCEPT ![p] = "open_error"]
     \/ /\ proc[p] = "open_error"
        /\ ErrorReaderCame
        /\ proc' = [proc EXCEPT ![p] = "mbind"]
  /\ UNCHANGED <<threadVars, flagVars, pidVars, shm, mmaps, flowVars>>

(***************************************************************************)
(* An mmap of the application reaches the interceptor's ring; the first    *)
(* ones come from the loader, before the constructor.                      *)
(***************************************************************************)
AppMmap ==
  /\ proc[App] \notin {"absent", "gone"}
  /\ mmaps < MaxEvents
  /\ mmaps' = mmaps + 1
  /\ events' = events + 1
  /\ UNCHANGED <<threadVars, flagVars, pidVars, shm, proc, queued, total_obj,
                 killed>>

(* The mbind thread takes an order. *)
Drain ==
  /\ \E p \in Procs : proc[p] = "mbind"
  /\ queued > 0
  /\ queued' = queued - 1
  /\ UNCHANGED <<threadVars, flagVars, appVars, events, total_obj, killed>>

(* A process ends: main returns, or exit in the mbind thread when the      *)
(* machine has one node, memory is out or popen fails.  A child may outlive *)
(* the application.                                                         *)
Exit(p) ==
  /\ proc[p] \in {"mbind", "plain"}
  /\ proc' = [proc EXCEPT ![p] = "gone"]
  /\ UNCHANGED <<threadVars, flagVars, pidVars, shm, mmaps, flowVars>>

-----------------------------------------------------------------------------
ThreadsStep ==
  \/ CreateThreads \/ ReadPid \/ Join
  \/ perf_Setup \/ Setup_Exits \/ popen_Fails
  \/ InterceptOpens \/ InterceptLoop \/ InterceptPoll \/ InterceptDrain
  \/ InterceptWrite
  \/ MonitorLoop
  \/ ActuatorOpens \/ ActuatorWorks \/ ActuatorStops \/ ActuatorWrite

ApplicationStep ==
  \/ \E p \in Procs : Start(p) \/ init_lib(p) \/ preload_open_pipes(p) \/ Exit(p)
  \/ AppMmap
  \/ Drain

Ended ==
  /\ main = "done" \/ killed # "no"
  /\ UNCHANGED vars

Next ==
  \/ Prepare \/ WritePid
  \/ killed = "no" /\ (ThreadsStep \/ Signal \/ close_start_threads)
  \/ ApplicationStep
  \/ Ended

(***************************************************************************)
(* Every thread that can go on does, and mmaps keep happening somewhere in *)
(* the machine (a shell that starts a program makes dozens), so poll       *)
(* returns.  A burst of orders is finite.  The programs the application    *)
(* starts end (the shell and awk of popen); nothing obliges the            *)
(* application to, run.sh to send the signal, DRAM to run low or a period  *)
(* to send.                                                                *)
(***************************************************************************)
Fairness ==
  /\ WF_vars(Prepare \/ WritePid)
  /\ WF_vars(killed = "no" /\ (CreateThreads \/ ReadPid \/ Join))
  /\ WF_vars(killed = "no" /\ perf_Setup)
  /\ WF_vars(killed = "no" /\ (InterceptOpens \/ InterceptLoop \/ InterceptPoll
                         \/ InterceptDrain))
  /\ SF_vars(killed = "no" /\ InterceptWrite)
  /\ WF_vars(killed = "no" /\ MonitorLoop)
  /\ WF_vars(killed = "no" /\ (ActuatorOpens \/ ActuatorStops))
  /\ SF_vars(killed = "no" /\ ActuatorWrite /\ act' = "loop")
  /\ WF_vars(killed = "no" /\ close_start_threads)
  /\ \A p \in Procs : WF_vars(init_lib(p) \/ preload_open_pipes(p))
  /\ \A c \in Children : WF_vars(Exit(c))
  /\ WF_vars(Drain)

Spec == Init /\ [][Next]_vars /\ Fairness

-----------------------------------------------------------------------------
(***************************************************************************)
(* "evitar que novas instancias (novos processos) ... instancie novamente  *)
(* thread_mbind": whatever an interrupted run left behind, the process     *)
(* that reads the orders is the application that run.sh started, never a   *)
(* child of it, and there is no run in which nobody reads them.            *)
(***************************************************************************)
SingleMbindThread ==
  /\ \A c \in Children : proc[c] \notin {"open", "open_error", "mbind"}
  /\ proc[App] # "plain"

(***************************************************************************)
(* The process whose DRAM and pages the actuator measures, whose mmaps the *)
(* interceptor takes and the one that executes the orders are the same:    *)
(* g_app_pid never is a pid an earlier run left in pid.txt.                *)
(***************************************************************************)
MeasuredIsMoved ==
  /\ g_app_pid # "none" => g_app_pid = App /\ proc[App] # "absent"
  /\ icpt \in {"poll", "drain", "write"} => g_app_pid = App
  /\ act \in {"pressure", "loop", "write"} => g_app_pid = App

(***************************************************************************)
(* The opens of the FIFOs do not wait for each other in a circle, and do   *)
(* not wait for a thread whose setup failed: an application that has       *)
(* started gets past its constructor.  The exception is that start_threads *)
(* exits on an error before: then it may wait for ever.                    *)
(***************************************************************************)
StartupCompletes ==
  proc[App] = "init" ~> (proc[App] = "mbind" \/ killed \in {"setup", "popen"})

(***************************************************************************)
(* After SIGUSR1 main reaches its end, unless a write to the pipe of the   *)
(* application that has gone, or popen, ends the process first.            *)
(***************************************************************************)
SignalEndsProcess == handler = 1 ~> (main = "done" \/ killed # "no")

(***************************************************************************)
(* SIGPIPE can end start_threads only after the application is gone: no    *)
(* thread writes before the mbind thread's end of the pipe is open.        *)
(***************************************************************************)
NoSigpipeWhileAppLives == killed = "sigpipe" => proc[App] = "gone"
=============================================================================
