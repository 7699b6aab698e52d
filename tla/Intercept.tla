------------------------------ MODULE Intercept ------------------------------
(***************************************************************************)
(* intercept_mmap.c: the kernel writes a record for every entry to mmap,   *)
(* exit from mmap and entry to munmap, of every task in the machine, into  *)
(* the ring of the CPU the task is on; the intercept thread goes round the *)
(* rings, pairs an exit with the entry it read last, and calls the         *)
(* recorder.  The recorder is what it promises to be, an ObjectRegistry    *)
(* (regions are no larger than a chunk, so a call makes one object).       *)
(*                                                                         *)
(* mmap_enter_args points into a ring: once the record is consumed the     *)
(* kernel may write over it, and before the first entry it points nowhere. *)
(* What is read then is one of Residues, whatever lies there (that the     *)
(* pointer of a thread that has read no entry may be no address at all is  *)
(* not modelled).                                                          *)
(***************************************************************************)
EXTENDS Integers, Sequences, FiniteSets

CONSTANTS
  NCPU,        \* rings, visited in the order 1 .. NCPU
  RING,        \* records a ring holds
  AppTasks,    \* threads of the process g_app_pid
  OtherTasks,  \* one thread of any other process
  Requests,    \* arguments of mmap: [addr, flags, len]
  Residues,    \* what mmap_enter_args reads where no entry lies
  Starts,      \* where the kernel may place a region
  MIN_LEN,     \* only longer regions are reported (1 MB)
  MaxCalls,    \* bound on the mmaps
  MaxFail      \* bound on the mmaps that fail

ARENA == 16418   \* 0x4022: MAP_PRIVATE | MAP_ANONYMOUS | MAP_NORESERVE

request == [addr : Nat, flags : Nat, len : Nat \ {0}]
residue == [addr : Nat, flags : Nat, len : Nat]

ASSUME InterceptAssumption ==
  /\ NCPU \in Nat \ {0}
  /\ RING \in Nat \ {0}
  /\ AppTasks \cap OtherTasks = {}
  /\ Requests \subseteq request
  /\ Residues \subseteq residue
  /\ Residues # {}
  /\ Starts \subseteq Nat \ {0}
  /\ MIN_LEN \in Nat
  /\ MaxCalls \in Nat
  /\ MaxFail \in Nat

Tasks == AppTasks \cup OtherTasks
CPUs  == 1 .. NCPU
FAILED == -1    \* what a failed mmap returns

(* "was it annon?", and larger than 1 MB *)
Tracked(req) == req.addr = 0 /\ req.flags # ARENA /\ req.len > MIN_LEN

VARIABLES
  cpu,       \* task -> the CPU it is on
  call,      \* task -> the system call it is in, or << >>
  mapped,    \* regions of the application: [start, size, due]
  ring,      \* cpu -> records not yet read
  cursor,    \* the ring the intercept thread reads
  mmap_enter_args,  \* [cpu, left, val]: val is lost after left more records
  log,       \* the registry, as Registry!log
  calls, fails,
  asked,     \* history: [kind, start, size] of every exit and munmap of the app
  lost,      \* history: a record of the application found its ring full
  astray     \* history: the starts a record was applied to that is not theirs

taskVars == <<cpu, call, mapped, calls, fails>>
readVars == <<cursor, log>>
historyVars == <<asked, lost, astray>>
vars     == <<taskVars, readVars, ring, mmap_enter_args, historyVars>>

(* The field due says whether a region was asked for by a request that is  *)
(* to be reported.  It is history: no condition of a reader looks at it.   *)
Registry == INSTANCE ObjectRegistry WITH Capacity <- MaxCalls

region == [start : Starts, size : Nat, due : BOOLEAN]
record == [type : {"enter_mmap"}, app : BOOLEAN, args : Requests]
          \cup [type : {"exit_mmap"}, app : BOOLEAN, ret : Starts \cup {FAILED},
                due : BOOLEAN]
          \cup [type : {"enter_munmap"}, app : BOOLEAN, addr : Starts, len : Nat,
                due : BOOLEAN]
pointer == [cpu : CPUs, left : 1 .. RING, val : Requests \cup Residues]

TypeOK ==
  /\ cpu \in [Tasks -> CPUs]
  /\ call \in [Tasks -> Requests \cup region \cup {<< >>}]
  /\ mapped \in SUBSET region
  /\ ring \in [CPUs -> Seq(record)]
  /\ \A c \in CPUs : Len(ring[c]) <= RING
  /\ cursor \in CPUs
  /\ mmap_enter_args \in pointer
  /\ calls \in 0 .. MaxCalls
  /\ fails \in 0 .. MaxFail
  /\ lost \in BOOLEAN
  /\ astray \in SUBSET (Starts \cup {FAILED})

Init ==
  /\ cpu \in [Tasks -> CPUs]
  /\ call = [t \in Tasks |-> << >>]
  /\ mapped = {}
  /\ ring = [c \in CPUs |-> << >>]
  /\ cursor = 1
  /\ mmap_enter_args \in [cpu : {1}, left : {RING}, val : Residues]
  /\ Registry!Init
  /\ calls = 0
  /\ fails = 0
  /\ asked = {}
  /\ lost = FALSE
  /\ astray = {}

-----------------------------------------------------------------------------
(* The kernel *)

(* A record is written, or lost when the ring is full. *)
Trace(t, rec) ==
  LET c == cpu[t]
  IN  IF Len(ring[c]) = RING
      THEN /\ lost' = (lost \/ t \in AppTasks)
           /\ UNCHANGED <<ring, mmap_enter_args>>
      ELSE /\ UNCHANGED lost
           /\ ring' = [ring EXCEPT ![c] = Append(@, rec)]
           /\ IF mmap_enter_args.cpu # c
              THEN UNCHANGED mmap_enter_args
              ELSE IF mmap_enter_args.left > 1
              THEN mmap_enter_args' = [mmap_enter_args EXCEPT !.left = @ - 1]
              ELSE \E val \in Residues :
                     mmap_enter_args' = [cpu |-> c, left |-> RING, val |-> val]

EnterMmap(t, req) ==
  /\ call[t] = << >>
  /\ calls < MaxCalls
  /\ calls' = calls + 1
  /\ call' = [call EXCEPT ![t] = req]
  /\ Trace(t, [type |-> "enter_mmap", app |-> t \in AppTasks, args |-> req])
  /\ UNCHANGED <<cpu, mapped, fails, readVars, asked, astray>>

Free(s, len) == \A m \in mapped : s + len <= m.start \/ m.start + m.size <= s

(* The regions of other processes are of no interest. *)
ExitMmap(t, s) ==
  LET due == t \in AppTasks /\ Tracked(call[t])
  IN
  /\ call[t] \in Requests
  /\ call' = [call EXCEPT ![t] = << >>]
  /\ IF t \in AppTasks
     THEN /\ Free(s, call[t].len)
          /\ mapped' = mapped \cup {[start |-> s, size |-> call[t].len,
                                     due |-> due]}
          /\ asked' = asked \cup {[kind |-> "mmap", start |-> s,
                                   size |-> call[t].len]}
     ELSE UNCHANGED <<mapped, asked>>
  /\ Trace(t, [type |-> "exit_mmap", app |-> t \in AppTasks, ret |-> s,
               due |-> due])
  /\ UNCHANGED <<cpu, calls, fails, readVars, astray>>

FailMmap(t) ==
  /\ call[t] \in Requests
  /\ fails < MaxFail
  /\ fails' = fails + 1
  /\ call' = [call EXCEPT ![t] = << >>]
  /\ Trace(t, [type |-> "exit_mmap", app |-> t \in AppTasks, ret |-> FAILED,
               due |-> FALSE])
  /\ UNCHANGED <<cpu, mapped, calls, readVars, asked, astray>>

(* Entry to munmap, and its effect *)
EnterMunmap(t, m) ==
  /\ call[t] = << >>
  /\ \A u \in Tasks : call[u] # m
  /\ call' = [call EXCEPT ![t] = m]
  /\ asked' = asked \cup {[kind |-> "munmap", start |-> m.start,
                           size |-> m.size]}
  /\ Trace(t, [type |-> "enter_munmap", app |-> TRUE, addr |-> m.start,
               len |-> m.size, due |-> m.due])
  /\ UNCHANGED <<cpu, mapped, calls, fails, readVars, astray>>

Unmap(t) ==
  /\ call[t] \in mapped
  /\ mapped' = mapped \ {call[t]}
  /\ call' = [call EXCEPT ![t] = << >>]
  /\ UNCHANGED <<cpu, calls, fails, readVars, ring, mmap_enter_args,
                 historyVars>>

(* Another process unmaps something. *)
ForeignMunmap(t, s) ==
  /\ call[t] = << >>
  /\ calls < MaxCalls
  /\ calls' = calls + 1
  /\ Trace(t, [type |-> "enter_munmap", app |-> FALSE, addr |-> s,
               len |-> MIN_LEN + 1, due |-> FALSE])
  /\ UNCHANGED <<cpu, call, mapped, fails, readVars, asked, astray>>

(* A task moves to another CPU, at any time. *)
Migrate(t, c) ==
  /\ c # cpu[t]
  /\ cpu' = [cpu EXCEPT ![t] = c]
  /\ UNCHANGED <<call, mapped, calls, fails, readVars, ring, mmap_enter_args,
                 historyVars>>

-----------------------------------------------------------------------------
(* The intercept thread *)

(* insert_object and deallocate_object, as the registry has them *)
insert_object(start, len) ==
  log' = Append(log, [start |-> start, size |-> len, live |-> TRUE])

\* mutant: every match is released, not only the first
deallocate_object_All(start, len) ==
  log' = [k \in 1 .. Len(log) |->
            IF log[k].start = start /\ log[k].size = len
            THEN [log[k] EXCEPT !.live = FALSE] ELSE log[k]]

deallocate_object(start, len) ==
  LET found == {k \in 1 .. Len(log) :
                  log[k].start = start /\ log[k].size = len /\ log[k].live}
  IN  \/ found = {} /\ UNCHANGED log
      \/ \E k \in found : (\A j \in found : k <= j) /\ Registry!Release(k)

ReadEnter(rec) ==
  /\ rec.type = "enter_mmap"
  /\ mmap_enter_args' = [cpu |-> cursor, left |-> RING - Len(ring[cursor]) + 1,
                         val |-> rec.args]
  /\ UNCHANGED log

(* The value returned is not tested for an error. *)
ReadExit(rec) ==
  /\ rec.type = "exit_mmap"
  /\ IF rec.app /\ Tracked(mmap_enter_args.val)
     THEN insert_object(rec.ret, mmap_enter_args.val.len)
     ELSE UNCHANGED log
  /\ UNCHANGED mmap_enter_args

\* mutant: munmaps of other processes are not filtered out
ReadMunmap_AnyProcess(rec) ==
  /\ rec.type = "enter_munmap"
  /\ IF mmap_enter_args.val.len > MIN_LEN
     THEN deallocate_object(rec.addr, rec.len)
     ELSE UNCHANGED log
  /\ UNCHANGED mmap_enter_args

(* It is the length of the last mmap, not of this munmap, that is tested. *)
ReadMunmap(rec) ==
  /\ rec.type = "enter_munmap"
  /\ IF rec.app /\ mmap_enter_args.val.len > MIN_LEN
     THEN deallocate_object(rec.addr, rec.len)
     ELSE UNCHANGED log
  /\ UNCHANGED mmap_enter_args

(* What the pairing with the entry read last costs a start: the exit of a  *)
(* request to be reported, read with an entry that is not, records         *)
(* nothing, and the munmap of a region that is not to be reported releases *)
(* an object of the same range.                                            *)
Missed(rec) ==
  CASE rec.type = "exit_mmap" /\ rec.due /\ ~Tracked(mmap_enter_args.val) -> {rec.ret}
    [] rec.type = "enter_munmap" /\ ~rec.due /\ log' # log -> {rec.addr}
    [] OTHER -> {}

ReadEvent ==
  /\ ring[cursor] # << >>
  /\ LET rec == Head(ring[cursor])
     IN  /\ ReadEnter(rec) \/ ReadExit(rec) \/ ReadMunmap(rec)
         /\ astray' = astray \cup Missed(rec)
  /\ ring' = [ring EXCEPT ![cursor] = Tail(@)]
  /\ UNCHANGED <<taskVars, cursor, asked, lost>>

\* mutant: the round of the rings does not start again
NextRing_NoWrap ==
  /\ ring[cursor] = << >>
  /\ cursor' = cursor + 1
  /\ UNCHANGED <<taskVars, log, ring, mmap_enter_args, historyVars>>

(* The ring is drained: on to the next. *)
NextRing ==
  /\ ring[cursor] = << >>
  /\ cursor' = (cursor % NCPU) + 1
  /\ UNCHANGED <<taskVars, log, ring, mmap_enter_args, historyVars>>

Next ==
  \/ \E t \in Tasks :
       \/ \E req \in Requests : EnterMmap(t, req)
       \/ \E s \in Starts : ExitMmap(t, s)
       \/ FailMmap(t)
       \/ \E c \in CPUs : Migrate(t, c)
  \/ \E t \in AppTasks : Unmap(t) \/ \E m \in mapped : EnterMunmap(t, m)
  \/ \E t \in OtherTasks, s \in Starts : ForeignMunmap(t, s)
  \/ ReadEvent
  \/ NextRing

Spec == Init /\ [][Next]_vars

-----------------------------------------------------------------------------
(* No call is going on and everything is read. *)
Quiet ==
  /\ \A t \in Tasks : call[t] = << >>
  /\ \A c \in CPUs : ring[c] = << >>

(***************************************************************************)
(* Requests of every kind at once, so that exits are paired with entries   *)
(* of other calls: once everything is read, and no record was lost, every  *)
(* region that was to be reported is recorded at its start, in whichever   *)
(* order the rings were read, unless one of the two mispairings of Missed  *)
(* hit that start.  A munmap read late releases one object, the older, one *)
(* read early releases nothing.  The length recorded may be another        *)
(* request's (run intercept_mixed); no other way of missing a region is    *)
(* left.                                                                   *)
(***************************************************************************)
MappedIsRecorded ==
  Quiet /\ ~lost =>
    \A m \in mapped :
      m.due /\ m.start \notin astray =>
        \E k \in 1 .. Len(log) : log[k].start = m.start /\ log[k].live

(***************************************************************************)
(* Whatever is read for mmap_enter_args, an object starts where an mmap of *)
(* the application did (or is its failure), and is released only for a     *)
(* munmap of the application: no other process gets at its objects.        *)
(***************************************************************************)
NothingForeign ==
  \A k \in 1 .. Len(log) :
    /\ \/ log[k].start = FAILED
       \/ \E a \in asked : a.kind = "mmap" /\ a.start = log[k].start
    /\ ~log[k].live =>
         [kind |-> "munmap", start |-> log[k].start, size |-> log[k].size] \in asked

(***************************************************************************)
(* "Intercepta os mmaps de um dado PID e registra": what is recorded is a  *)
(* region some mmap of the application made, with its length.              *)
(***************************************************************************)
RecordedWasMapped ==
  \A k \in 1 .. Len(log) :
    [kind |-> "mmap", start |-> log[k].start, size |-> log[k].size] \in asked
=============================================================================
