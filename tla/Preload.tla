------------------------------- MODULE Preload -------------------------------
(***************************************************************************)
(* preload.c: the thread that LD_PRELOAD starts inside the application.    *)
(* It takes one order at a time from migration.pipe, calls mbind on the    *)
(* range the order carries, and writes the orders that failed to           *)
(* migration_error.pipe.                                                   *)
(***************************************************************************)
EXTENDS TierManager

CONSTANTS
  ERR_CAP,    \* orders the kernel buffers in migration_error.pipe
  MaxFail     \* bound on the mbinds that fail

ASSUME PreloadAssumption == ERR_CAP \in Nat \ {0} /\ MaxFail \in Nat

VARIABLES
  ppc,          \* where thread_manager_mbind is
  buf,          \* the order it works on, a local of the loop body, or << >>
  error_pipe,
  fails,        \* mbinds that failed
  attempted     \* history: slot -> node of the last mbind tried on it

preloadVars == <<ppc, buf, error_pipe, fails, attempted>>

PreloadTypeOK ==
  /\ ppc \in {"read", "mbind", "report"}
  /\ buf \in data_bind_t \cup {<< >>}
  /\ buf = << >> <=> ppc = "read"
  /\ error_pipe \in Seq(data_bind_t)
  /\ Len(error_pipe) <= ERR_CAP
  /\ fails \in 0 .. MaxFail
  /\ attempted \in [Slots -> {UNDECIDED, NODE_0_DRAM, NODE_0_PMEM}]

PreloadInit ==
  /\ ppc = "read"
  /\ buf = << >>
  /\ error_pipe = << >>
  /\ fails = 0
  /\ attempted = [i \in Slots |-> UNDECIDED]

(* read() of one record; it waits while the pipe is empty. *)
ReadOrder ==
  /\ ppc = "read"
  /\ pipe # << >>
  /\ buf' = Head(pipe)
  /\ pipe' = Tail(pipe)
  /\ ppc' = "mbind"
  /\ UNCHANGED <<error_pipe, fails, attempted, obj_vector, obj_alloc,
                 birth_date, last_decision, total_obj, now>>

\* mutant: an mbind that fails is tried until it succeeds
execute_mbind_Insists ==
  /\ ppc = "mbind"
  /\ \/ /\ attempted' = [attempted EXCEPT ![buf.obj_index] = buf.node]
        /\ ppc' = "read"
        /\ buf' = << >>
        /\ UNCHANGED fails
     \/ /\ fails' = (fails + 1) % (MaxFail + 1)
        /\ UNCHANGED <<attempted, ppc, buf>>
  /\ UNCHANGED <<error_pipe, tierVars>>

(* mbind, which may fail: the range may be gone, or its pages elsewhere. *)
execute_mbind ==
  /\ ppc = "mbind"
  /\ attempted' = [attempted EXCEPT ![buf.obj_index] = buf.node]
  /\ \/ /\ ppc' = "read"
        /\ buf' = << >>
        /\ UNCHANGED fails
     \/ /\ fails < MaxFail
        /\ fails' = fails + 1
        /\ ppc' = "report"
        /\ UNCHANGED buf
  /\ UNCHANGED <<error_pipe, tierVars>>

\* mutant: a failed bind is tried again instead of reported
ReportError_Retries ==
  /\ ppc = "report"
  /\ fails' = fails - 1
  /\ ppc' = "mbind"
  /\ UNCHANGED <<buf, error_pipe, attempted, tierVars>>

(* The report of a failure; it waits while migration_error.pipe is full. *)
ReportError ==
  /\ ppc = "report"
  /\ Len(error_pipe) < ERR_CAP
  /\ error_pipe' = Append(error_pipe, buf)
  /\ buf' = << >>
  /\ ppc' = "read"
  /\ UNCHANGED <<fails, attempted, tierVars>>

PreloadStep ==
  \/ ReadOrder
  \/ execute_mbind
  \/ ReportError
=============================================================================
