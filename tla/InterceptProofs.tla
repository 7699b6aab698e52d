--------------------------- MODULE InterceptProofs ---------------------------
(***************************************************************************)
(* The intercept thread, for any number of CPUs, tasks and calls and any   *)
(* size of the rings: its types, that no other process gets at the objects *)
(* of the application, and that what it maps is recorded where it starts,  *)
(* whichever entry an exit is paired with.                                 *)
(***************************************************************************)
EXTENDS Intercept, FiniteSetTheorems, FunctionTheorems, TLAPS

(***************************************************************************)
(* The inductive invariant.  What a record of the application says did     *)
(* happen (Honest), for every record in a ring (RingsHonest): a record is  *)
(* read long after the call, and asked only grows.                         *)
(***************************************************************************)
MmapAt(s, made) == s = FAILED \/ \E a \in made : a.kind = "mmap" /\ a.start = s

MunmapOf(s, size, made) ==
  [kind |-> "munmap", start |-> s, size |-> size] \in made

Honest(rec, made) ==
  /\ rec.type = "exit_mmap" /\ rec.app = TRUE => MmapAt(rec.ret, made)
  /\ rec.type = "enter_munmap" /\ rec.app = TRUE =>
       MunmapOf(rec.addr, rec.len, made)

RingsHonest ==
  \A c \in CPUs : \A k \in 1 .. Len(ring[c]) : Honest(ring[c][k], asked)

logged == [start : Starts \cup {FAILED}, size : Nat, live : BOOLEAN]

LogHonest ==
  \A k \in 1 .. Len(log) :
    /\ MmapAt(log[k].start, asked)
    /\ log[k].live \/ MunmapOf(log[k].start, log[k].size, asked)

InterceptInv ==
  /\ TypeOK
  /\ log \in Seq(logged)
  /\ RingsHonest
  /\ LogHonest

-----------------------------------------------------------------------------
(* What was honest stays so: the calls that were made are not forgotten. *)
LEMMA HonestStays ==
  ASSUME NEW rec, NEW made, NEW more, made \subseteq more, Honest(rec, made)
  PROVE  Honest(rec, more)
  BY DEF Honest, MmapAt, MunmapOf

(* A log that was honest stays so while more calls are made. *)
LEMMA LogStaysHonest ==
  ASSUME LogHonest, asked \subseteq asked', UNCHANGED log
  PROVE  LogHonest'
  BY DEF LogHonest, MmapAt, MunmapOf

(* A record goes to the end of a ring, or is lost. *)
LEMMA TraceKeepsRings ==
  ASSUME InterceptInv, NEW t \in Tasks, NEW rec \in record, Trace(t, rec),
         asked \subseteq asked', Honest(rec, asked')
  PROVE  /\ ring' \in [CPUs -> Seq(record)]
         /\ \A c \in CPUs : Len(ring'[c]) <= RING
         /\ mmap_enter_args' \in pointer
         /\ lost' \in BOOLEAN
         /\ RingsHonest'
<1>1. /\ ring \in [CPUs -> Seq(record)]
      /\ \A c \in CPUs : Len(ring[c]) <= RING
      /\ mmap_enter_args \in pointer
      /\ cpu[t] \in CPUs
      /\ RING \in Nat \ {0}
  BY InterceptAssumption DEF InterceptInv, TypeOK
<1>2. lost' \in BOOLEAN
  BY DEF Trace, InterceptInv, TypeOK
<1>3. CASE Len(ring[cpu[t]]) = RING
  <2>1. UNCHANGED <<ring, mmap_enter_args>>
    BY <1>3 DEF Trace
  <2>2. RingsHonest'
    BY <2>1, HonestStays DEF InterceptInv, RingsHonest
  <2> QED BY <1>1, <1>2, <2>1, <2>2
<1>4. CASE Len(ring[cpu[t]]) # RING
  <2>1. ring' = [ring EXCEPT ![cpu[t]] = Append(@, rec)]
    BY <1>4 DEF Trace
  <2>2. ring' \in [CPUs -> Seq(record)] /\ \A c \in CPUs : Len(ring'[c]) <= RING
    BY <1>1, <1>4, <2>1
  <2>3. mmap_enter_args' \in pointer
    <3> DEFINE p == mmap_enter_args
               c == cpu[t]
    <3>1. /\ p \in [cpu : CPUs, left : 1 .. RING, val : Requests \cup Residues]
          /\ p.left \in 1 .. RING /\ p.cpu \in CPUs
      BY <1>1 DEF pointer
    <3>2. CASE UNCHANGED mmap_enter_args
      BY <1>1, <3>2
    <3>3. CASE p.left > 1 /\ mmap_enter_args' = [mmap_enter_args EXCEPT !.left = @ - 1]
      <4>1. p.left - 1 \in 1 .. RING
        BY <1>1, <3>1, <3>3
      <4> QED BY <3>1, <3>3, <4>1 DEF pointer
    <3>4. ASSUME NEW val \in Residues,
                 mmap_enter_args' = [cpu |-> c, left |-> RING, val |-> val]
          PROVE  mmap_enter_args' \in pointer
      BY <1>1, <3>4 DEF pointer
    <3> QED BY <1>4, <3>2, <3>3, <3>4 DEF Trace
  <2>4. ASSUME NEW c \in CPUs, NEW k \in 1 .. Len(ring'[c])
        PROVE  Honest(ring'[c][k], asked')
    <3>1. CASE c # cpu[t] \/ k <= Len(ring[c])
      <4>1. k \in 1 .. Len(ring[c]) /\ ring'[c][k] = ring[c][k]
        BY <1>1, <2>1, <2>4, <3>1
      <4>2. Honest(ring[c][k], asked)
        BY <4>1 DEF InterceptInv, RingsHonest
      <4> QED BY <4>1, <4>2, HonestStays
    <3>2. CASE c = cpu[t] /\ k > Len(ring[c])
      <4>1. ring'[c][k] = rec
        BY <1>1, <2>1, <2>4, <3>2
      <4> QED BY <4>1
    <3> QED BY <1>1, <3>1, <3>2, <2>2
  <2> QED BY <1>2, <2>2, <2>3, <2>4 DEF RingsHonest
<1> QED BY <1>3, <1>4

(* The calls of a task: what it is in and what is mapped keep their types, *)
(* and the record the kernel writes is honest about what was asked.        *)
LEMMA CallKeepsInv ==
  ASSUME InterceptInv, NEW t \in Tasks, NEW rec \in record, Trace(t, rec),
         asked \subseteq asked', Honest(rec, asked'),
         call' \in [Tasks -> Requests \cup region \cup {<< >>}],
         mapped' \in SUBSET region,
         calls' \in 0 .. MaxCalls, fails' \in 0 .. MaxFail,
         UNCHANGED <<cpu, readVars, astray>>
  PROVE  InterceptInv'
<1>1. TypeOK' /\ RingsHonest'
  BY TraceKeepsRings DEF InterceptInv, TypeOK, readVars
<1>2. log' \in Seq(logged) /\ LogHonest'
  BY LogStaysHonest DEF InterceptInv, readVars
<1> QED BY <1>1, <1>2 DEF InterceptInv

(* The calls of the application and of the other process *)
LEMMA EnterMmapKeepsInv ==
  ASSUME InterceptInv, NEW t \in Tasks, NEW req \in Requests, EnterMmap(t, req)
  PROVE  InterceptInv'
<1> DEFINE rec == [type |-> "enter_mmap", app |-> t \in AppTasks, args |-> req]
<1>1. rec \in record /\ Honest(rec, asked')
  BY DEF record, Honest
<1>2. Trace(t, rec) /\ UNCHANGED <<cpu, mapped, fails, readVars, asked, astray>>
  BY DEF EnterMmap
<1>3. /\ call' \in [Tasks -> Requests \cup region \cup {<< >>}]
      /\ calls' \in 0 .. MaxCalls
  BY InterceptAssumption DEF EnterMmap, InterceptInv, TypeOK
<1> HIDE DEF rec
<1> QED BY <1>1, <1>2, <1>3, CallKeepsInv DEF InterceptInv, TypeOK

(* An mmap that returns *)
LEMMA ExitMmapKeepsInv ==
  ASSUME InterceptInv, NEW t \in Tasks, NEW s \in Starts, ExitMmap(t, s)
  PROVE  InterceptInv'
<1> DEFINE due == t \in AppTasks /\ Tracked(call[t])
           rec == [type |-> "exit_mmap", app |-> t \in AppTasks, ret |-> s,
                   due |-> due]
           new == [kind |-> "mmap", start |-> s, size |-> call[t].len]
<1>1. asked \subseteq asked' /\ (t \in AppTasks => new \in asked')
  BY DEF ExitMmap
<1>2. rec \in record /\ Honest(rec, asked')
  <2>1. rec \in record
    BY DEF record
  <2>2. ASSUME t \in AppTasks PROVE MmapAt(s, asked')
    <3>1. new \in asked' /\ new.kind = "mmap" /\ new.start = s
      BY <1>1, <2>2
    <3> QED BY <3>1, Zenon DEF MmapAt
  <2> QED BY <2>1, <2>2 DEF Honest
<1>3. Trace(t, rec) /\ UNCHANGED <<cpu, calls, fails, readVars, astray>>
  BY DEF ExitMmap
<1>4. call' \in [Tasks -> Requests \cup region \cup {<< >>}]
  BY DEF ExitMmap, InterceptInv, TypeOK
<1>5. mapped' \in SUBSET region
  <2>1. call[t] \in Requests /\ call[t].len \in Nat
    BY InterceptAssumption DEF ExitMmap, request
  <2>2. due \in BOOLEAN
    OBVIOUS
  <2>3. \/ UNCHANGED mapped
        \/ mapped' = mapped \cup {[start |-> s, size |-> call[t].len, due |-> due]}
    BY DEF ExitMmap
  <2> HIDE DEF due
  <2>4. [start |-> s, size |-> call[t].len, due |-> due] \in region
    BY <2>1, <2>2 DEF region
  <2> QED BY <2>3, <2>4 DEF InterceptInv, TypeOK
<1> HIDE DEF rec, new
<1> QED BY <1>1, <1>2, <1>3, <1>4, <1>5, CallKeepsInv DEF InterceptInv, TypeOK

(* An mmap that fails *)
LEMMA FailMmapKeepsInv ==
  ASSUME InterceptInv, NEW t \in Tasks, FailMmap(t)
  PROVE  InterceptInv'
<1> DEFINE rec == [type |-> "exit_mmap", app |-> t \in AppTasks, ret |-> FAILED,
                   due |-> FALSE]
<1>1. rec \in record /\ Honest(rec, asked')
  BY DEF record, Honest, MmapAt
<1>2. Trace(t, rec) /\ UNCHANGED <<cpu, mapped, calls, readVars, asked, astray>>
  BY DEF FailMmap
<1>3. /\ call' \in [Tasks -> Requests \cup region \cup {<< >>}]
      /\ fails' \in 0 .. MaxFail
  BY InterceptAssumption DEF FailMmap, InterceptInv, TypeOK
<1> HIDE DEF rec
<1> QED BY <1>1, <1>2, <1>3, CallKeepsInv DEF InterceptInv, TypeOK

(* A munmap of the application *)
LEMMA EnterMunmapKeepsInv ==
  ASSUME InterceptInv, NEW t \in AppTasks, NEW m \in mapped, EnterMunmap(t, m)
  PROVE  InterceptInv'
<1> DEFINE rec == [type |-> "enter_munmap", app |-> TRUE, addr |-> m.start,
                   len |-> m.size, due |-> m.due]
           new == [kind |-> "munmap", start |-> m.start, size |-> m.size]
<1>1. m \in region /\ t \in Tasks
  BY DEF InterceptInv, TypeOK, Tasks
<1>2. asked \subseteq asked' /\ new \in asked'
  BY DEF EnterMunmap
<1>3. rec \in record /\ Honest(rec, asked')
  BY <1>1, <1>2 DEF record, region, Honest, MunmapOf
<1>4. Trace(t, rec) /\ UNCHANGED <<cpu, mapped, calls, fails, readVars, astray>>
  BY DEF EnterMunmap
<1>5. call' \in [Tasks -> Requests \cup region \cup {<< >>}]
  BY <1>1 DEF EnterMunmap, InterceptInv, TypeOK
<1> HIDE DEF rec, new
<1> QED BY <1>1, <1>2, <1>3, <1>4, <1>5, CallKeepsInv DEF InterceptInv, TypeOK

(* A munmap of another process *)
LEMMA ForeignMunmapKeepsInv ==
  ASSUME InterceptInv, NEW t \in OtherTasks, NEW s \in Starts, ForeignMunmap(t, s)
  PROVE  InterceptInv'
<1> DEFINE rec == [type |-> "enter_munmap", app |-> FALSE, addr |-> s,
                   len |-> MIN_LEN + 1, due |-> FALSE]
<1>1. rec \in record /\ Honest(rec, asked') /\ t \in Tasks
  BY InterceptAssumption DEF record, Honest, Tasks
<1>2. Trace(t, rec) /\ UNCHANGED <<cpu, call, mapped, fails, readVars, asked, astray>>
  BY DEF ForeignMunmap
<1>3. calls' \in 0 .. MaxCalls
  BY InterceptAssumption DEF ForeignMunmap, InterceptInv, TypeOK
<1> HIDE DEF rec
<1> QED BY <1>1, <1>2, <1>3, CallKeepsInv DEF InterceptInv, TypeOK

(* What leaves no record *)
LEMMA SilentKeepsInv ==
  ASSUME InterceptInv,
         \/ \E t \in AppTasks : Unmap(t)
         \/ \E t \in Tasks, c \in CPUs : Migrate(t, c)
         \/ NextRing
         \/ UNCHANGED vars
  PROVE  InterceptInv'
<1>1. UNCHANGED <<log, ring, mmap_enter_args, asked, lost, astray, calls, fails>>
  BY DEF Unmap, Migrate, NextRing, vars, readVars, historyVars, taskVars
<1>2. /\ cpu' \in [Tasks -> CPUs]
      /\ call' \in [Tasks -> Requests \cup region \cup {<< >>}]
      /\ mapped' \in SUBSET region
  BY DEF Unmap, Migrate, NextRing, vars, taskVars, InterceptInv, TypeOK, Tasks
<1>3. cursor' \in CPUs
  <2>1. cursor \in CPUs
    BY DEF InterceptInv, TypeOK
  <2>2. (cursor % NCPU) + 1 \in CPUs
    BY <2>1, InterceptAssumption DEF CPUs
  <2>3. cursor' = cursor \/ cursor' = (cursor % NCPU) + 1
    BY DEF Unmap, Migrate, NextRing, vars, readVars
  <2> QED BY <2>1, <2>2, <2>3
<1> QED
  BY <1>1, <1>2, <1>3 DEF InterceptInv, TypeOK, RingsHonest, LogHonest

-----------------------------------------------------------------------------
(* The reader *)

(* Releasing an object changes its live mark, and only for a munmap that   *)
(* was asked for.                                                          *)
LEMMA ReleaseKeepsLog ==
  ASSUME log \in Seq(logged), LogHonest, NEW addr, NEW len,
         deallocate_object(addr, len), MunmapOf(addr, len, asked),
         UNCHANGED asked
  PROVE  log' \in Seq(logged) /\ LogHonest'
<1>1. CASE UNCHANGED log
  BY <1>1 DEF LogHonest
<1>2. ASSUME NEW k \in 1 .. Len(log), log[k].start = addr, log[k].size = len,
             Registry!Release(k)
      PROVE  log' \in Seq(logged) /\ LogHonest'
  <2> DEFINE e == [start |-> addr, size |-> len, live |-> FALSE]
  <2>1. log' = [log EXCEPT ![k] = e]
    BY <1>2 DEF Registry!Release, Registry!Released
  <2>2. log[k] \in logged
    BY <1>2
  <2>3. e \in logged
    BY <1>2, <2>2 DEF logged
  <2>4. log' \in Seq(logged) /\ Len(log') = Len(log)
    BY <2>1, <2>3
  <2>5. ASSUME NEW j \in 1 .. Len(log)
        PROVE  /\ MmapAt(log'[j].start, asked)
               /\ log'[j].live \/ MunmapOf(log'[j].start, log'[j].size, asked)
    <3>1. CASE j = k
      BY <1>2, <2>1, <3>1 DEF LogHonest
    <3>2. CASE j # k
      BY <2>1, <3>2 DEF LogHonest
    <3> QED BY <3>1, <3>2
  <2> QED BY <2>4, <2>5 DEF LogHonest
<1> QED BY <1>1, <1>2 DEF deallocate_object

(* Recording an object needs the exit of an mmap of the application, with  *)
(* whatever length mmap_enter_args holds by then.                          *)
LEMMA InsertKeepsLog ==
  ASSUME log \in Seq(logged), LogHonest, NEW s \in Starts \cup {FAILED},
         NEW len \in Nat, insert_object(s, len), MmapAt(s, asked),
         UNCHANGED asked
  PROVE  log' \in Seq(logged) /\ LogHonest'
<1> DEFINE e == [start |-> s, size |-> len, live |-> TRUE]
<1>1. log' = Append(log, e) /\ e \in logged
  BY DEF insert_object, logged
<1>2. log' \in Seq(logged) /\ Len(log') = Len(log) + 1
  BY <1>1
<1>3. ASSUME NEW j \in 1 .. Len(log')
      PROVE  /\ MmapAt(log'[j].start, asked)
             /\ log'[j].live \/ MunmapOf(log'[j].start, log'[j].size, asked)
  <2>1. CASE j <= Len(log)
    BY <1>1, <1>2, <2>1 DEF LogHonest
  <2>2. CASE j > Len(log)
    BY <1>1, <1>2, <2>2
  <2> QED BY <1>2, <2>1, <2>2
<1> QED BY <1>2, <1>3 DEF LogHonest

(* The intercept thread, record by record *)
LEMMA ReadEventKeepsInv ==
  ASSUME InterceptInv, ReadEvent
  PROVE  InterceptInv'
<1> DEFINE rec == Head(ring[cursor])
<1>1. /\ ring \in [CPUs -> Seq(record)] /\ cursor \in CPUs
      /\ \A c \in CPUs : Len(ring[c]) <= RING
      /\ ring[cursor] \in Seq(record) /\ ring[cursor] # << >>
      /\ ring' = [ring EXCEPT ![cursor] = Tail(@)]
      /\ UNCHANGED <<cpu, call, mapped, calls, fails, cursor, asked, lost>>
      /\ RING \in Nat \ {0}
  BY InterceptAssumption
  DEF ReadEvent, InterceptInv, TypeOK, taskVars
<1>2. rec \in record /\ Len(ring[cursor]) \in 1 .. RING
  BY <1>1
<1>3. Honest(rec, asked)
  <2>1. 1 \in 1 .. Len(ring[cursor]) /\ rec = ring[cursor][1]
    BY <1>1
  <2> QED BY <1>1, <2>1 DEF InterceptInv, RingsHonest
<1>4. ring' \in [CPUs -> Seq(record)] /\ \A c \in CPUs : Len(ring'[c]) <= RING
  BY <1>1
<1>5. RingsHonest'
  <2> SUFFICES ASSUME NEW c \in CPUs, NEW k \in 1 .. Len(ring'[c])
               PROVE  Honest(ring'[c][k], asked)
    BY <1>1 DEF RingsHonest
  <2>1. \E j \in 1 .. Len(ring[c]) : ring'[c][k] = ring[c][j]
    <3>1. CASE c = cursor
      <4>1. k + 1 \in 1 .. Len(ring[c]) /\ ring'[c][k] = ring[c][k + 1]
        BY <1>1, <3>1
      <4> QED BY <4>1
    <3>2. CASE c # cursor
      BY <1>1, <3>2
    <3> QED BY <3>1, <3>2
  <2> QED BY <2>1 DEF InterceptInv, RingsHonest
<1>6. log \in Seq(logged) /\ LogHonest
      /\ mmap_enter_args \in pointer
      /\ mmap_enter_args.val.len \in Nat
  <2>1. mmap_enter_args.val \in Requests \cup Residues
    BY DEF InterceptInv, TypeOK, pointer
  <2>2. mmap_enter_args.val.len \in Nat
    BY <2>1, InterceptAssumption DEF request, residue
  <2> QED BY <2>1, <2>2 DEF InterceptInv, TypeOK
<1>7. /\ mmap_enter_args' \in pointer
      /\ log' \in Seq(logged) /\ LogHonest'
  <2>1. CASE ReadEnter(rec)
    <3>1. rec.args \in Requests
      BY <1>2, <2>1 DEF ReadEnter, record
    <3>2. UNCHANGED log
      BY <2>1 DEF ReadEnter
    <3>3. LogHonest'
      BY <1>1, <1>6, <3>2, LogStaysHonest
    <3> QED BY <1>1, <1>2, <1>6, <2>1, <3>1, <3>2, <3>3 DEF ReadEnter, pointer
  <2>2. CASE ReadExit(rec)
    <3>1. rec.ret \in Starts \cup {FAILED} /\ UNCHANGED mmap_enter_args
      BY <1>2, <2>2 DEF ReadExit, record
    <3>2. CASE UNCHANGED log
      BY <1>1, <1>6, <3>1, <3>2, LogStaysHonest
    <3>3. CASE rec.app /\ insert_object(rec.ret, mmap_enter_args.val.len)
      <4>1. rec.app = TRUE
        BY <1>2, <3>3 DEF record
      <4>2. MmapAt(rec.ret, asked)
        BY <1>3, <2>2, <4>1 DEF Honest, ReadExit
      <4> QED BY <1>1, <1>6, <3>1, <3>3, <4>2, InsertKeepsLog
    <3> QED BY <2>2, <3>2, <3>3 DEF ReadExit
  <2>3. CASE ReadMunmap(rec)
    <3>1. UNCHANGED mmap_enter_args
      BY <2>3 DEF ReadMunmap
    <3>2. CASE UNCHANGED log
      BY <1>1, <1>6, <3>1, <3>2, LogStaysHonest
    <3>3. CASE rec.app /\ deallocate_object(rec.addr, rec.len)
      <4>1. rec.app = TRUE
        BY <1>2, <3>3 DEF record
      <4>2. MunmapOf(rec.addr, rec.len, asked)
        BY <1>3, <2>3, <4>1 DEF Honest, ReadMunmap
      <4> QED BY <1>1, <1>6, <3>1, <3>3, <4>2, ReleaseKeepsLog
    <3> QED BY <2>3, <3>2, <3>3 DEF ReadMunmap
  <2> QED BY <2>1, <2>2, <2>3 DEF ReadEvent
<1>8. astray' \in SUBSET (Starts \cup {FAILED})
  <2>1. astray' = astray \cup Missed(rec) /\ astray \in SUBSET (Starts \cup {FAILED})
    BY DEF ReadEvent, InterceptInv, TypeOK
  <2>2. /\ rec.type = "exit_mmap" => rec.ret \in Starts \cup {FAILED}
        /\ rec.type = "enter_munmap" => rec.addr \in Starts
    BY <1>2 DEF record
  <2>3. Missed(rec) \subseteq Starts \cup {FAILED}
    BY <2>2 DEF Missed
  <2> QED BY <2>1, <2>3
<1> QED
  BY <1>1, <1>4, <1>5, <1>7, <1>8 DEF InterceptInv, TypeOK

-----------------------------------------------------------------------------
(* The initial state *)
LEMMA InvInit == Init => InterceptInv
<1> SUFFICES ASSUME Init PROVE InterceptInv
  OBVIOUS
<1>1. ring = [c \in CPUs |-> << >>] /\ log = << >>
  BY DEF Init, Registry!Init
<1>2. mmap_enter_args \in pointer
  BY InterceptAssumption DEF Init, CPUs, pointer
<1>3. TypeOK
  <2>1. ring \in [CPUs -> Seq(record)] /\ \A c \in CPUs : Len(ring[c]) <= RING
    BY <1>1, InterceptAssumption
  <2>2. /\ call \in [Tasks -> Requests \cup region \cup {<< >>}]
        /\ mapped \in SUBSET region
        /\ lost \in BOOLEAN
        /\ astray \in SUBSET (Starts \cup {FAILED})
    BY DEF Init
  <2>3. cpu \in [Tasks -> CPUs] /\ cursor \in CPUs
    BY InterceptAssumption DEF Init, CPUs
  <2>4. calls \in 0 .. MaxCalls /\ fails \in 0 .. MaxFail
    BY InterceptAssumption DEF Init
  <2> QED BY <1>2, <2>1, <2>2, <2>3, <2>4 DEF TypeOK
<1>4. log \in Seq(logged) /\ RingsHonest /\ LogHonest
  BY <1>1 DEF RingsHonest, LogHonest
<1> QED BY <1>3, <1>4 DEF InterceptInv

(* Every step keeps the invariant. *)
LEMMA InvNext == InterceptInv /\ [Next]_vars => InterceptInv'
<1> SUFFICES ASSUME InterceptInv, [Next]_vars PROVE InterceptInv'
  OBVIOUS
<1>1. ASSUME NEW t \in Tasks,
             \/ \E req \in Requests : EnterMmap(t, req)
             \/ \E s \in Starts : ExitMmap(t, s)
             \/ FailMmap(t)
             \/ \E c \in CPUs : Migrate(t, c)
      PROVE  InterceptInv'
  BY <1>1, EnterMmapKeepsInv, ExitMmapKeepsInv, FailMmapKeepsInv, SilentKeepsInv
<1>2. ASSUME NEW t \in AppTasks, Unmap(t) \/ \E m \in mapped : EnterMunmap(t, m)
      PROVE  InterceptInv'
  BY <1>2, SilentKeepsInv, EnterMunmapKeepsInv
<1>3. ASSUME NEW t \in OtherTasks, NEW s \in Starts, ForeignMunmap(t, s)
      PROVE  InterceptInv'
  BY <1>3, ForeignMunmapKeepsInv
<1> QED BY <1>1, <1>2, <1>3, ReadEventKeepsInv, SilentKeepsInv DEF Next

(***************************************************************************)
(* What the records say and what is recorded from them is backed by calls  *)
(* of the application, in whichever order the rings are read.              *)
(***************************************************************************)
THEOREM InterceptInvariant == Spec => []InterceptInv
  BY InvInit, InvNext, PTL DEF Spec

(***************************************************************************)
(* The rings, the calls and mmap_enter_args keep their types; a ring never *)
(* holds more than RING records.                                           *)
(***************************************************************************)
THEOREM InterceptTypeCorrect == Spec => []TypeOK
<1>1. InterceptInv => TypeOK
  BY DEF InterceptInv
<1> QED BY <1>1, InterceptInvariant, PTL

(***************************************************************************)
(* However stale mmap_enter_args is, thread_intercept_mmap records only    *)
(* where an mmap of the application returned (or failed), and releases     *)
(* only what a munmap of the application named.                            *)
(***************************************************************************)
THEOREM NoOtherProcess == Spec => []NothingForeign
<1>1. InterceptInv => NothingForeign
  BY DEF InterceptInv, LogHonest, NothingForeign, MmapAt, MunmapOf
<1> QED BY <1>1, InterceptInvariant, PTL

-----------------------------------------------------------------------------
(***************************************************************************)
(* Every mapped region is recorded where it starts, whatever the requests: *)
(* mmap_enter_args may hold the arguments of any call.                     *)
(***************************************************************************)

(* Where the rings r have a record of R: pairs of a CPU and a position *)
Places(r, R) ==
  {p \in CPUs \X (1 .. RING) : p[2] <= Len(r[p[1]]) /\ r[p[1]][p[2]] \in R}

Unread(r, R) == Cardinality(Places(r, R))

(* What the application says of s: an mmap to be reported returned it, a   *)
(* munmap of such a region                                                 *)
Exits(s)   == [type : {"exit_mmap"}, app : {TRUE}, ret : {s}, due : {TRUE}]
Munmaps(s) == [type : {"enter_munmap"}, app : {TRUE}, addr : {s}, len : Nat,
               due : {TRUE}]

LiveOf(s) == {k \in 1 .. Len(log) : log[k].start = s /\ log[k].live = TRUE}

(* A region to be reported is mapped at s and no munmap of it has begun. *)
HeldBy(s, m) ==
  m.start = s /\ m.due = TRUE /\ \A t \in Tasks : call[t] # m

Held(s) == \E m \in mapped : HeldBy(s, m)

(***************************************************************************)
(* For every start, live objects and mmaps still to be read are as many as *)
(* munmaps still to be read, and one more while it is mapped.  The order   *)
(* of reading does not matter: a munmap that finds nothing only leaves one *)
(* object more.                                                            *)
(***************************************************************************)
Covered(s) ==
  Cardinality(LiveOf(s)) + Unread(ring, Exits(s))
    >= Unread(ring, Munmaps(s)) + (IF Held(s) THEN 1 ELSE 0)

(* Regions do not overlap, so no two of them start together. *)
Apart ==
  \A m \in mapped : m.size >= 1 /\ \A o \in mapped : m.start = o.start => m = o

CoverInv ==
  /\ Apart
  /\ lost \/ \A s \in Starts : s \in astray \/ Covered(s)

rings == {r \in [CPUs -> Seq(record)] : \A c \in CPUs : Len(r[c]) <= RING}

(* The places are finitely many. *)
LEMMA PlacesFinite ==
  ASSUME NEW r, NEW R
  PROVE  IsFiniteSet(Places(r, R)) /\ Unread(r, R) \in Nat
<1>1. IsFiniteSet(CPUs) /\ IsFiniteSet(1 .. RING)
  BY InterceptAssumption, FS_Interval DEF CPUs
<1>2. IsFiniteSet(CPUs \X (1 .. RING))
  BY <1>1, FS_Product
<1>3. Places(r, R) \in SUBSET (CPUs \X (1 .. RING))
  BY DEF Places
<1>4. IsFiniteSet(Places(r, R))
  BY <1>2, <1>3, FS_Subset
<1> QED BY <1>4, FS_CardinalityType DEF Unread

(* A record written is one to read more. *)
LEMMA UnreadAppend ==
  ASSUME NEW r \in rings, NEW c \in CPUs, NEW rec \in record, NEW R,
         Len(r[c]) < RING
  PROVE  Unread([r EXCEPT ![c] = Append(@, rec)], R)
           = Unread(r, R) + (IF rec \in R THEN 1 ELSE 0)
<1> DEFINE n == Len(r[c]) + 1
           q == [r EXCEPT ![c] = Append(@, rec)]
<1>1. /\ r \in [CPUs -> Seq(record)] /\ RING \in Nat /\ n \in 1 .. RING
      /\ \A d \in CPUs : r[d] \in Seq(record) /\ Len(r[d]) \in Nat
  BY InterceptAssumption DEF rings
<1>2. /\ \A d \in CPUs : d # c => q[d] = r[d]
      /\ Len(q[c]) = n /\ q[c][n] = rec
      /\ \A k \in 1 .. RING : k < n => q[c][k] = r[c][k]
  BY <1>1
<1> HIDE DEF q, n
<1>3. ASSUME NEW d \in CPUs, NEW k \in 1 .. RING, <<d, k>> # <<c, n>>
      PROVE  k <= Len(q[d]) /\ q[d][k] \in R <=> k <= Len(r[d]) /\ r[d][k] \in R
  <2>1. CASE d # c
    BY <1>2, <2>1
  <2>2. CASE d = c
    <3>1. k # n
      BY <1>3, <2>2
    <3>2. Len(r[c]) = n - 1
      BY <1>1 DEF n
    <3> QED BY <1>1, <1>2, <2>2, <3>1, <3>2
  <2> QED BY <2>1, <2>2
<1>4. ASSUME NEW p \in CPUs \X (1 .. RING), p # <<c, n>>
      PROVE  p \in Places(q, R) <=> p \in Places(r, R)
  <2>1. p[1] \in CPUs /\ p[2] \in 1 .. RING /\ p = <<p[1], p[2]>>
    OBVIOUS
  <2> QED BY <1>3, <1>4, <2>1 DEF Places
<1>5. <<c, n>> \notin Places(r, R)
  <2>1. ~(n <= Len(r[c]))
    BY <1>1 DEF n
  <2> QED BY <2>1 DEF Places
<1>6. <<c, n>> \in Places(q, R) <=> rec \in R
  BY <1>1, <1>2 DEF Places
<1>7. Places(q, R) = IF rec \in R THEN Places(r, R) \cup {<<c, n>>} ELSE Places(r, R)
  <2>1. \A p : p \in Places(q, R) \/ p \in Places(r, R) => p \in CPUs \X (1 .. RING)
    BY DEF Places
  <2>2. <<c, n>> \in CPUs \X (1 .. RING)
    BY <1>1
  <2>3. CASE rec \in R
    BY <1>4, <1>5, <1>6, <2>1, <2>2, <2>3
  <2>4. CASE rec \notin R
    <3>1. \A p : p \in Places(q, R) <=> p \in Places(r, R)
      BY <1>4, <1>5, <1>6, <2>1, <2>4
    <3> QED BY <2>4, <3>1
  <2> QED BY <2>3, <2>4
<1>8. Unread(q, R) = Unread(r, R) + (IF rec \in R THEN 1 ELSE 0)
  <2>1. CASE rec \in R
    BY <1>5, <1>7, <2>1, PlacesFinite, FS_AddElement DEF Unread
  <2>2. CASE rec \notin R
    BY <1>7, <2>2, PlacesFinite DEF Unread
  <2> QED BY <2>1, <2>2
<1> QED BY <1>8 DEF q

(* A record read is one to read less. *)
LEMMA UnreadTail ==
  ASSUME NEW r \in rings, NEW c \in CPUs, NEW R, r[c] # << >>
  PROVE  Unread([r EXCEPT ![c] = Tail(@)], R)
           = Unread(r, R) - (IF Head(r[c]) \in R THEN 1 ELSE 0)
<1> DEFINE q == [r EXCEPT ![c] = Tail(@)]
           first == <<c, 1>>
           rest == Places(r, R) \ {first}
           back == [p \in rest |-> <<p[1], IF p[1] = c THEN p[2] - 1 ELSE p[2]>>]
<1>1. /\ r \in [CPUs -> Seq(record)] /\ RING \in Nat
      /\ \A d \in CPUs : r[d] \in Seq(record) /\ Len(r[d]) \in Nat /\ Len(r[d]) <= RING
      /\ Len(r[c]) >= 1
  BY InterceptAssumption DEF rings
<1>2. /\ \A d \in CPUs : d # c => q[d] = r[d]
      /\ Len(q[c]) = Len(r[c]) - 1 /\ Head(r[c]) = r[c][1]
      /\ \A k \in 1 .. Len(r[c]) - 1 : q[c][k] = r[c][k + 1]
  BY <1>1
<1> HIDE DEF q
<1>3. ASSUME NEW p \in rest
      PROVE  /\ p = <<p[1], p[2]>> /\ p[1] \in CPUs /\ p[2] \in 1 .. RING
             /\ p[1] = c => p[2] > 1
             /\ back[p] \in Places(q, R)
  <2>1. p = <<p[1], p[2]>> /\ p[1] \in CPUs /\ p[2] \in 1 .. RING /\ p # first
        /\ p[2] <= Len(r[p[1]]) /\ r[p[1]][p[2]] \in R
    BY DEF Places
  <2>2. p[1] = c => p[2] > 1
    BY <2>1
  <2>3. CASE p[1] = c
    <3>1. p[2] - 1 \in 1 .. Len(r[c]) - 1
      BY <1>1, <2>1, <2>2, <2>3
    <3>2. q[c][p[2] - 1] = r[c][p[2]] /\ p[2] - 1 <= Len(q[c]) /\ p[2] - 1 \in 1 .. RING
      BY <1>1, <1>2, <2>1, <3>1
    <3>3. back[p] = <<c, p[2] - 1>>
      BY <2>3
    <3> QED BY <2>1, <2>2, <2>3, <3>2, <3>3 DEF Places
  <2>4. CASE p[1] # c
    <3>1. back[p] = p
      BY <2>1, <2>4
    <3>2. p \in Places(q, R)
      BY <1>2, <2>1, <2>4 DEF Places
    <3> QED BY <2>1, <2>4, <3>1, <3>2
  <2> QED BY <2>1, <2>2, <2>3, <2>4
<1>4. ASSUME NEW a \in rest, NEW b \in rest, back[a] = back[b]
      PROVE  a = b
  <2>1. /\ a[1] = b[1]
        /\ (IF a[1] = c THEN a[2] - 1 ELSE a[2]) = (IF b[1] = c THEN b[2] - 1 ELSE b[2])
    BY <1>4
  <2> HIDE DEF back, rest
  <2>2. a[2] \in Int /\ b[2] \in Int
    BY <1>3
  <2>3. a[2] = b[2]
    BY <2>1, <2>2
  <2> QED BY <1>3, <2>1, <2>3
<1>5. ASSUME NEW t \in Places(q, R)
      PROVE  \E p \in rest : back[p] = t
  <2>1. t = <<t[1], t[2]>> /\ t[1] \in CPUs /\ t[2] \in 1 .. RING
        /\ t[2] <= Len(q[t[1]]) /\ q[t[1]][t[2]] \in R
    BY DEF Places
  <2>2. CASE t[1] = c
    <3> DEFINE p == <<c, t[2] + 1>>
    <3>1. t[2] \in 1 .. Len(r[c]) - 1 /\ t[2] + 1 \in 1 .. RING /\ t[2] + 1 <= Len(r[c])
      BY <1>1, <1>2, <2>1, <2>2
    <3>2. r[c][t[2] + 1] \in R
      BY <1>2, <2>1, <2>2, <3>1
    <3>3. p \in rest
      BY <3>1, <3>2 DEF Places
    <3>4. back[p] = <<c, (t[2] + 1) - 1>>
      BY <3>3
    <3> QED BY <2>1, <2>2, <3>3, <3>4
  <2>3. CASE t[1] # c
    <3>1. t \in rest
      BY <1>2, <2>1, <2>3 DEF Places
    <3>2. back[t] = t
      BY <2>1, <2>3, <3>1
    <3> QED BY <3>1, <3>2
  <2> QED BY <2>2, <2>3
<1>6. Cardinality(Places(q, R)) = Cardinality(rest)
  <2>1. back \in [rest -> Places(q, R)]
    BY <1>3
  <2> HIDE DEF back, rest
  <2>2. back \in Bijection(rest, Places(q, R))
    BY <1>4, <1>5, <2>1, Fun_IsBij
  <2>3. IsFiniteSet(rest)
    BY PlacesFinite, FS_RemoveElement DEF rest
  <2>4. ExistsBijection(rest, Places(q, R))
    BY <2>2, Fun_ExistsBij
  <2> QED BY <2>3, <2>4, FS_Bijection
<1>7. first \in Places(r, R) <=> Head(r[c]) \in R
  BY <1>1, <1>2, InterceptAssumption DEF Places
<1>8. Unread(q, R) = Unread(r, R) - (IF Head(r[c]) \in R THEN 1 ELSE 0)
  <2>1. IsFiniteSet(Places(r, R)) /\ Cardinality(Places(r, R)) \in Nat
    BY PlacesFinite DEF Unread
  <2>2. Cardinality(rest) = IF first \in Places(r, R) THEN Cardinality(Places(r, R)) - 1
                                                     ELSE Cardinality(Places(r, R))
    BY <2>1, FS_RemoveElement, Zenon
  <2> HIDE DEF rest, first
  <2> QED BY <1>6, <1>7, <2>1, <2>2 DEF Unread
<1> QED BY <1>8 DEF q

One(p) == IF p THEN 1 ELSE 0

(* The rings of a state are rings. *)
LEMMA InvRings ==
  ASSUME InterceptInv
  PROVE  ring \in rings
  BY DEF InterceptInv, TypeOK, rings

(* The objects of a start are finitely many. *)
LEMMA LiveFinite ==
  ASSUME NEW s, log \in Seq(logged)
  PROVE  IsFiniteSet(LiveOf(s)) /\ Cardinality(LiveOf(s)) \in Nat
<1>1. IsFiniteSet(1 .. Len(log))
  BY FS_Interval
<1>2. LiveOf(s) \in SUBSET (1 .. Len(log))
  BY DEF LiveOf
<1> QED BY <1>1, <1>2, FS_Subset, FS_CardinalityType

(* What the kernel writes is counted, unless it is lost. *)
LEMMA TraceCounts ==
  ASSUME InterceptInv, NEW t \in Tasks, NEW rec \in record, Trace(t, rec), NEW R,
         rec \in R => t \in AppTasks
  PROVE  /\ lost => lost'
         /\ lost' \/ Unread(ring', R) = Unread(ring, R) + One(rec \in R)
<1>1. cpu[t] \in CPUs /\ ring \in rings /\ lost \in BOOLEAN
      /\ RING \in Nat /\ Unread(ring, R) \in Nat
  BY InvRings, PlacesFinite, InterceptAssumption DEF InterceptInv, TypeOK
<1>2. CASE Len(ring[cpu[t]]) = RING
  <2>1. lost' = (lost \/ t \in AppTasks) /\ UNCHANGED ring
    BY <1>2 DEF Trace
  <2>2. CASE rec \in R
    BY <2>1, <2>2
  <2>3. CASE rec \notin R
    BY <1>1, <2>1, <2>3 DEF One
  <2> QED BY <2>1, <2>2, <2>3
<1>3. CASE Len(ring[cpu[t]]) # RING
  <2>1. UNCHANGED lost /\ ring' = [ring EXCEPT ![cpu[t]] = Append(@, rec)]
    BY <1>3 DEF Trace
  <2>2. Len(ring[cpu[t]]) < RING
    BY <1>1, <1>3 DEF rings
  <2>3. Unread([ring EXCEPT ![cpu[t]] = Append(@, rec)], R)
          = Unread(ring, R) + (IF rec \in R THEN 1 ELSE 0)
    BY <1>1, <2>2, UnreadAppend, SMTT(30)
  <2>4. Unread(ring', R) = Unread(ring, R) + One(rec \in R)
    BY <2>1, <2>3 DEF One
  <2> QED BY <2>1, <2>4
<1> QED BY <1>2, <1>3

(* A call keeps a start covered when a munmap is written only where the    *)
(* region was held, and a region comes to be held only with its exit.      *)
LEMMA CallCovers ==
  ASSUME InterceptInv, NEW t \in Tasks, NEW rec \in record, Trace(t, rec),
         UNCHANGED <<log, astray>>, NEW s, lost \/ s \in astray \/ Covered(s),
         rec \in Exits(s) \cup Munmaps(s) => t \in AppTasks,
         One(rec \in Munmaps(s)) + One(Held(s)')
           <= One(rec \in Exits(s)) + One(Held(s))
  PROVE  lost' \/ s \in astray' \/ Covered(s)'
<1> SUFFICES ASSUME ~lost', s \notin astray PROVE Covered(s)'
  OBVIOUS
<1>1. /\ ~lost
      /\ Unread(ring', Exits(s)) = Unread(ring, Exits(s)) + One(rec \in Exits(s))
      /\ Unread(ring', Munmaps(s)) = Unread(ring, Munmaps(s)) + One(rec \in Munmaps(s))
  BY TraceCounts
<1>2. LiveOf(s)' = LiveOf(s) /\ Cardinality(LiveOf(s)) \in Nat
  BY LiveFinite DEF LiveOf, InterceptInv
<1>3. Covered(s)
  BY <1>1
<1>4. \A p : One(p) \in Int
  BY DEF One
<1>5. Unread(ring, Exits(s)) \in Nat /\ Unread(ring, Munmaps(s)) \in Nat
  BY PlacesFinite
<1>6. Cardinality(LiveOf(s)) + Unread(ring, Exits(s))
        >= Unread(ring, Munmaps(s)) + One(Held(s))
  BY <1>3 DEF Covered, One
<1>7. Cardinality(LiveOf(s)') + Unread(ring', Exits(s))
        >= Unread(ring', Munmaps(s)) + One(Held(s)')
  BY <1>1, <1>2, <1>4, <1>5, <1>6
<1> QED BY <1>7 DEF Covered, One

(* A region is not a request. *)
LEMMA RegionIsNoRequest ==
  ASSUME NEW m \in region
  PROVE  m \notin Requests /\ m # << >>
<1>1. m = [start |-> m.start, size |-> m.size, due |-> m.due]
  BY DEF region
<1>2. DOMAIN m = {"start", "size", "due"}
  BY <1>1
<1>3. \A req \in Requests : DOMAIN req = {"addr", "flags", "len"}
  BY InterceptAssumption DEF request
<1>4. DOMAIN << >> = {}
  OBVIOUS
<1> QED BY <1>2, <1>3, <1>4

(* Entry to mmap, a failed mmap and the calls of other processes write     *)
(* nothing that counts, and hold what was held.                            *)
LEMMA OthersCover ==
  ASSUME InterceptInv, CoverInv, NEW t \in Tasks, NEW rec \in record,
         Trace(t, rec), UNCHANGED <<mapped, log, astray>>,
         \A s \in Starts : rec \notin Exits(s) /\ rec \notin Munmaps(s),
         \/ UNCHANGED call
         \/ \E x \in Requests \cup {<< >>} : call[t] \notin region /\ call' = [call EXCEPT ![t] = x]
  PROVE  CoverInv'
<1>1. ASSUME NEW s \in Starts PROVE lost' \/ s \in astray' \/ Covered(s)'
  <2>1. Held(s)' <=> Held(s)
    <3>1. ASSUME NEW m \in mapped PROVE HeldBy(s, m)' <=> HeldBy(s, m)
      <4>1. m \in region
        BY DEF InterceptInv, TypeOK
      <4>2. m \notin Requests /\ m # << >>
        BY <4>1, RegionIsNoRequest
      <4>3. call \in [Tasks -> Requests \cup region \cup {<< >>}]
        BY DEF InterceptInv, TypeOK
      <4>4. \A u \in Tasks : call'[u] # m <=> call[u] # m
        BY <4>1, <4>2, <4>3
      <4> QED BY <4>4 DEF HeldBy
    <3> QED BY <3>1 DEF Held
  <2>2. One(Held(s)') = One(Held(s)) /\ One(Held(s)) \in Int
    BY <2>1 DEF One
  <2>3. rec \notin Exits(s) /\ rec \notin Munmaps(s)
    OBVIOUS
  <2>4. One(rec \in Exits(s)) = 0 /\ One(rec \in Munmaps(s)) = 0
    BY <2>3 DEF One
  <2>5. lost \/ s \in astray \/ Covered(s)
    BY DEF CoverInv
  <2> QED BY <2>2, <2>3, <2>4, <2>5, CallCovers
<1> QED BY <1>1 DEF CoverInv, Apart

(* An mmap of the application holds its region and writes its exit, both   *)
(* to be reported or neither.                                              *)
LEMMA ExitCovers ==
  ASSUME InterceptInv, CoverInv, NEW t \in AppTasks, NEW s \in Starts,
         ExitMmap(t, s)
  PROVE  CoverInv'
<1> DEFINE due == t \in AppTasks /\ Tracked(call[t])
           rec == [type |-> "exit_mmap", app |-> t \in AppTasks, ret |-> s,
                   due |-> due]
           new == [start |-> s, size |-> call[t].len, due |-> due]
<1>1. call[t] \in Requests /\ call[t].len \in Nat \ {0}
  BY InterceptAssumption DEF ExitMmap, request
<1>2. /\ Trace(t, rec) /\ rec \in record /\ t \in Tasks
      /\ UNCHANGED <<log, astray>>
      /\ mapped' = mapped \cup {new}
      /\ call' = [call EXCEPT ![t] = << >>]
      /\ Free(s, call[t].len)
  BY <1>1 DEF ExitMmap, record, readVars, Tasks
<1>3. /\ rec.type = "exit_mmap" /\ rec.app = TRUE /\ rec.ret = s /\ rec.due = due
      /\ rec = [type |-> "exit_mmap", app |-> TRUE, ret |-> s, due |-> due]
      /\ new.start = s /\ new.due = due /\ new.size = call[t].len
      /\ due \in BOOLEAN
  OBVIOUS
<1> HIDE DEF rec, new, due
<1>4. \A x \in Starts : (rec \in Exits(x) <=> x = s /\ due = TRUE)
                         /\ rec \notin Munmaps(x)
  BY <1>3 DEF Exits, Munmaps
<1>5. ASSUME NEW x \in Starts PROVE lost' \/ x \in astray' \/ Covered(x)'
  <2>0. lost \/ x \in astray \/ Covered(x)
    BY DEF CoverInv
  <2>1. CASE x = s /\ due = TRUE
    <3>1. One(rec \in Exits(x)) = 1 /\ One(rec \in Munmaps(x)) = 0
      BY <1>4, <2>1 DEF One
    <3>2. One(Held(x)') <= 1 /\ One(Held(x)) >= 0 /\ One(Held(x)') \in Int /\ One(Held(x)) \in Int
      BY DEF One
    <3>3. One(rec \in Munmaps(x)) + One(Held(x)')
            <= One(rec \in Exits(x)) + One(Held(x))
      BY <3>1, <3>2
    <3> QED BY <1>2, <2>0, <3>3, CallCovers
  <2>2. CASE ~(x = s /\ due = TRUE)
    <3>1. One(rec \in Exits(x)) = 0 /\ One(rec \in Munmaps(x)) = 0
      BY <1>4, <2>2 DEF One
    <3>2. Held(x)' => Held(x)
      <4> SUFFICES ASSUME Held(x)' PROVE Held(x)
        OBVIOUS
      <4>1. PICK m \in mapped' : m.start = x /\ m.due = TRUE
                                 /\ \A u \in Tasks : call'[u] # m
        BY DEF Held, HeldBy
      <4>2. m # new
        BY <1>3, <2>2, <4>1
      <4>3. m \in mapped
        BY <1>2, <4>1, <4>2
      <4>4. m \in region
        BY <4>3 DEF InterceptInv, TypeOK
      <4>5. call[t] # m
        BY <1>1, <4>4, RegionIsNoRequest
      <4>6. \A u \in Tasks : call[u] # m
        BY <1>2, <4>1, <4>5 DEF InterceptInv, TypeOK
      <4> QED BY <4>1, <4>3, <4>6 DEF Held, HeldBy
    <3>3. One(Held(x)') <= One(Held(x)) /\ One(Held(x)') \in Int /\ One(Held(x)) \in Int
      BY <3>2 DEF One
    <3>4. One(rec \in Munmaps(x)) + One(Held(x)')
            <= One(rec \in Exits(x)) + One(Held(x))
      BY <3>1, <3>3
    <3> QED BY <1>2, <2>0, <3>4, CallCovers
  <2> QED BY <2>1, <2>2
<1>6. Apart'
  <2>1. ASSUME NEW m \in mapped PROVE m.start # s
    <3>1. m.start \in Nat /\ m.size \in Nat /\ m.size >= 1 /\ s \in Nat
      BY InterceptAssumption DEF InterceptInv, TypeOK, region, CoverInv, Apart
    <3>2. s + call[t].len <= m.start \/ m.start + m.size <= s
      BY <1>2 DEF Free
    <3> QED BY <1>1, <3>1, <3>2
  <2>2. new.size >= 1
    BY <1>1, <1>3
  <2> QED BY <1>2, <1>3, <2>1, <2>2 DEF CoverInv, Apart
<1> QED BY <1>5, <1>6 DEF CoverInv

(* A munmap gives up its region and writes its record. *)
LEMMA MunmapCovers ==
  ASSUME InterceptInv, CoverInv, NEW t \in AppTasks, NEW m \in mapped,
         EnterMunmap(t, m)
  PROVE  CoverInv'
<1> DEFINE rec == [type |-> "enter_munmap", app |-> TRUE, addr |-> m.start,
                   len |-> m.size, due |-> m.due]
<1>1. /\ Trace(t, rec) /\ t \in Tasks
      /\ UNCHANGED <<log, mapped, astray>>
      /\ call' = [call EXCEPT ![t] = m]
      /\ call[t] = << >>
      /\ \A u \in Tasks : call[u] # m
      /\ call \in [Tasks -> Requests \cup region \cup {<< >>}]
  BY DEF EnterMunmap, readVars, Tasks, InterceptInv, TypeOK
<1>2. m \in region /\ m.start \in Starts /\ m.size \in Nat /\ m.due \in BOOLEAN
  BY DEF InterceptInv, TypeOK, region
<1>3. rec \in record
  BY <1>2 DEF record
<1>4. \A x \in Starts : rec \notin Exits(x) /\ (rec \in Munmaps(x) <=> x = m.start /\ m.due = TRUE)
  BY <1>2 DEF Exits, Munmaps
<1> HIDE DEF rec
<1>5. ASSUME NEW x \in Starts PROVE lost' \/ x \in astray' \/ Covered(x)'
  <2>0. lost \/ x \in astray \/ Covered(x)
    BY DEF CoverInv
  <2>1. CASE x = m.start /\ m.due = TRUE
    <3>1. One(rec \in Exits(x)) = 0 /\ One(rec \in Munmaps(x)) = 1
      BY <1>4, <2>1 DEF One
    <3>2. Held(x)
      BY <1>1, <1>2, <2>1 DEF Held, HeldBy
    <3>3. ~Held(x)'
      <4>1. call'[t] = m
        BY <1>1
      <4>2. \A o \in mapped : o.start = x => o = m
        BY <2>1 DEF CoverInv, Apart
      <4> QED BY <1>1, <2>1, <4>1, <4>2 DEF Held, HeldBy
    <3>4. One(Held(x)) = 1 /\ One(Held(x)') = 0
      BY <3>2, <3>3 DEF One
    <3>5. One(rec \in Munmaps(x)) + One(Held(x)')
            <= One(rec \in Exits(x)) + One(Held(x))
      BY <3>1, <3>4
    <3> QED BY <1>1, <1>3, <2>0, <3>5, CallCovers
  <2>2. CASE ~(x = m.start /\ m.due = TRUE)
    <3>1. One(rec \in Exits(x)) = 0 /\ One(rec \in Munmaps(x)) = 0
      BY <1>4, <2>2 DEF One
    <3>2. Held(x)' => Held(x)
      <4> SUFFICES ASSUME Held(x)' PROVE Held(x)
        OBVIOUS
      <4>1. PICK w \in mapped : w.start = x /\ w.due = TRUE
                                /\ \A u \in Tasks : call'[u] # w
        BY <1>1 DEF Held, HeldBy
      <4>2. w # << >>
        BY <4>1, RegionIsNoRequest DEF InterceptInv, TypeOK
      <4>3. \A u \in Tasks : call[u] # w
        BY <1>1, <4>1, <4>2
      <4> QED BY <4>1, <4>3 DEF Held, HeldBy
    <3>3. One(Held(x)') <= One(Held(x)) /\ One(Held(x)') \in Int /\ One(Held(x)) \in Int
      BY <3>2 DEF One
    <3>4. One(rec \in Munmaps(x)) + One(Held(x)')
            <= One(rec \in Exits(x)) + One(Held(x))
      BY <3>1, <3>3
    <3> QED BY <1>1, <1>3, <2>0, <3>4, CallCovers
  <2> QED BY <2>1, <2>2
<1> QED BY <1>1, <1>5 DEF CoverInv, Apart

(* Steps that write no record: nothing comes to be held. *)
LEMMA SilentCovers ==
  ASSUME InterceptInv, CoverInv,
         \/ \E t \in AppTasks : Unmap(t)
         \/ \E t \in Tasks, c \in CPUs : Migrate(t, c)
         \/ NextRing
         \/ UNCHANGED vars
  PROVE  CoverInv'
<1>1. UNCHANGED <<log, ring, lost, astray>> /\ mapped' \subseteq mapped
  BY DEF Unmap, Migrate, NextRing, vars, readVars, historyVars, taskVars
<1>2. ASSUME NEW s \in Starts, Held(s)' PROVE Held(s)
  <2>1. PICK m \in mapped' : m.start = s /\ m.due = TRUE
                             /\ \A u \in Tasks : call'[u] # m
    BY <1>2 DEF Held, HeldBy
  <2>2. m \in mapped
    BY <1>1, <2>1
  <2>3. CASE UNCHANGED call
    BY <2>1, <2>2, <2>3 DEF Held, HeldBy
  <2>4. ASSUME NEW t \in AppTasks, Unmap(t) PROVE Held(s)
    <3>1. mapped' = mapped \ {call[t]} /\ call' = [call EXCEPT ![t] = << >>]
      BY <2>4 DEF Unmap
    <3>2. call[t] # m
      BY <2>1, <3>1
    <3>3. \A u \in Tasks : call[u] # m
      BY <2>1, <3>1, <3>2 DEF InterceptInv, TypeOK
    <3> QED BY <2>1, <2>2, <3>3 DEF Held, HeldBy
  <2> QED BY <2>3, <2>4 DEF Migrate, NextRing, vars, taskVars
<1>3. ASSUME NEW s \in Starts PROVE lost' \/ s \in astray' \/ Covered(s)'
  <2>1. One(Held(s)') <= One(Held(s)) /\ One(Held(s)') \in Int /\ One(Held(s)) \in Int
    BY <1>2 DEF One
  <2>2. LiveOf(s)' = LiveOf(s) /\ Cardinality(LiveOf(s)) \in Nat
    BY <1>1, LiveFinite DEF LiveOf, InterceptInv
  <2>3. Unread(ring, Exits(s)) \in Nat /\ Unread(ring, Munmaps(s)) \in Nat
    BY PlacesFinite
  <2>4. CASE Covered(s)
    <3>1. Cardinality(LiveOf(s)) + Unread(ring, Exits(s))
            >= Unread(ring, Munmaps(s)) + One(Held(s))
      BY <2>4 DEF Covered, One
    <3>2. Cardinality(LiveOf(s)) + Unread(ring, Exits(s))
            >= Unread(ring, Munmaps(s)) + One(Held(s)')
      BY <2>1, <2>2, <2>3, <3>1
    <3> QED BY <1>1, <2>2, <3>2 DEF Covered, One
  <2> QED BY <1>1, <2>4 DEF CoverInv
<1> QED BY <1>1, <1>3 DEF CoverInv, Apart

(* Reading an exit records an object where it returned. *)
LEMMA InsertCounts ==
  ASSUME log \in Seq(logged), NEW a \in Starts \cup {FAILED}, NEW len \in Nat,
         insert_object(a, len), NEW s
  PROVE  Cardinality(LiveOf(s)') = Cardinality(LiveOf(s)) + One(a = s)
<1> DEFINE n == Len(log) + 1
           e == [start |-> a, size |-> len, live |-> TRUE]
<1>1. /\ log' = Append(log, e) /\ e \in logged
      /\ Len(log') = n /\ n \in Nat /\ n - 1 = Len(log)
      /\ log'[n] = e /\ e.start = a /\ e.live = TRUE
      /\ \A k \in 1 .. n - 1 : log'[k] = log[k]
  BY DEF insert_object, logged
<1> HIDE DEF n, e
<1>2. LiveOf(s)' = IF a = s THEN LiveOf(s) \cup {n} ELSE LiveOf(s)
  <2>1. \A k \in 1 .. n - 1 : k \in LiveOf(s)' <=> k \in LiveOf(s)
    BY <1>1 DEF LiveOf
  <2>2. n \in LiveOf(s)' <=> a = s
    BY <1>1 DEF LiveOf
  <2>3. LiveOf(s)' \subseteq 1 .. n /\ LiveOf(s) \subseteq 1 .. n - 1
    BY <1>1 DEF LiveOf
  <2>4. \A k \in 1 .. n : k \in 1 .. n - 1 \/ k = n
    BY <1>1
  <2>5. CASE a = s
    BY <2>1, <2>2, <2>3, <2>4, <2>5
  <2>6. CASE a # s
    <3>1. \A k : k \in LiveOf(s)' <=> k \in LiveOf(s)
      BY <1>1, <2>1, <2>2, <2>3, <2>4, <2>6
    <3> QED BY <2>6, <3>1
  <2> QED BY <2>5, <2>6
<1>3. n \notin LiveOf(s)
  BY <1>1 DEF LiveOf
<1>4. CASE a = s
  BY <1>2, <1>3, <1>4, LiveFinite, FS_AddElement DEF One
<1>5. CASE a # s
  BY <1>2, <1>5, LiveFinite DEF One
<1> QED BY <1>4, <1>5

(* Reading a munmap releases one object at most, where it was. *)
LEMMA ReleaseCounts ==
  ASSUME log \in Seq(logged), NEW a, NEW len, deallocate_object(a, len), NEW s
  PROVE  Cardinality(LiveOf(s)') >= Cardinality(LiveOf(s)) - One(a = s)
<1>0. Cardinality(LiveOf(s)) \in Nat /\ One(a = s) \in {0, 1}
  BY LiveFinite DEF One
<1>1. CASE UNCHANGED log
  <2>1. LiveOf(s)' = LiveOf(s)
    BY <1>1 DEF LiveOf
  <2> QED BY <1>0, <2>1
<1>2. ASSUME NEW k \in 1 .. Len(log), log[k].start = a, Registry!Release(k)
      PROVE  Cardinality(LiveOf(s)') >= Cardinality(LiveOf(s)) - One(a = s)
  <2>1. /\ Len(log') = Len(log)
        /\ \A j \in 1 .. Len(log) : j # k => log'[j] = log[j]
        /\ log'[k].start = log[k].start
    BY <1>2 DEF Registry!Release, Registry!Released
  <2>2. LiveOf(s) \ {k} \subseteq LiveOf(s)'
    BY <2>1 DEF LiveOf
  <2>3. a # s => LiveOf(s) \subseteq LiveOf(s)'
    BY <1>2, <2>1, <2>2 DEF LiveOf
  <2>4. IsFiniteSet(LiveOf(s)')
    <3>1. IsFiniteSet(1 .. Len(log))
      BY FS_Interval
    <3>2. LiveOf(s)' \in SUBSET (1 .. Len(log))
      BY <2>1 DEF LiveOf
    <3> QED BY <3>1, <3>2, FS_Subset
  <2>5. Cardinality(LiveOf(s)') \in Nat
    BY <2>4, FS_CardinalityType
  <2>6. CASE a # s
    BY <1>0, <2>3, <2>4, <2>5, <2>6, FS_Subset
  <2>7. CASE a = s
    <3>1. Cardinality(LiveOf(s) \ {k}) >= Cardinality(LiveOf(s)) - 1
      <4>1. IsFiniteSet(LiveOf(s))
        BY LiveFinite
      <4>2. Cardinality(LiveOf(s) \ {k}) = IF k \in LiveOf(s) THEN Cardinality(LiveOf(s)) - 1
                                                            ELSE Cardinality(LiveOf(s))
        BY <4>1, FS_RemoveElement
      <4> QED BY <1>0, <4>2
    <3>2. Cardinality(LiveOf(s) \ {k}) <= Cardinality(LiveOf(s)') /\ Cardinality(LiveOf(s) \ {k}) \in Nat
      BY <2>2, <2>4, FS_Subset, FS_CardinalityType
    <3> QED BY <1>0, <2>5, <2>7, <3>1, <3>2 DEF One
  <2> QED BY <2>6, <2>7
<1> QED BY <1>1, <1>2 DEF deallocate_object

(* Reading a record: what it counted for is in the log now. *)
LEMMA ReadCovers ==
  ASSUME InterceptInv, CoverInv, ReadEvent
  PROVE  CoverInv'
<1> DEFINE rec == Head(ring[cursor])
<1>1. /\ ring \in rings /\ cursor \in CPUs /\ ring[cursor] # << >>
      /\ ring' = [ring EXCEPT ![cursor] = Tail(@)]
      /\ UNCHANGED <<call, mapped, lost>>
      /\ astray' = astray \cup Missed(rec)
      /\ log \in Seq(logged)
      /\ rec \in record
  <2>1. ring[cursor] \in Seq(record) /\ ring[cursor] # << >>
    BY DEF ReadEvent, InterceptInv, TypeOK
  <2>2. rec \in record
    BY <2>1
  <2> QED
    BY <2>1, <2>2, InvRings DEF ReadEvent, InterceptInv, TypeOK, taskVars
<1>2. ASSUME NEW R PROVE Unread(ring', R) = Unread(ring, R) - One(rec \in R)
  <2>1. Unread([ring EXCEPT ![cursor] = Tail(@)], R)
          = Unread(ring, R) - (IF rec \in R THEN 1 ELSE 0)
    BY <1>1, UnreadTail
  <2> QED BY <1>1, <2>1 DEF One
<1>3. ASSUME NEW s \in Starts, s \notin astray'
      PROVE  Cardinality(LiveOf(s)') >= Cardinality(LiveOf(s)) + One(rec \in Exits(s))
                                          - One(rec \in Munmaps(s))
  <2>0. /\ Cardinality(LiveOf(s)) \in Nat /\ s # FAILED
        /\ One(rec \in Exits(s)) \in {0, 1} /\ One(rec \in Munmaps(s)) \in {0, 1}
        /\ mmap_enter_args.val.len \in Nat
        /\ s \notin Missed(rec)
    <3>1. mmap_enter_args.val \in Requests \cup Residues
      BY DEF InterceptInv, TypeOK, pointer
    <3>2. mmap_enter_args.val.len \in Nat
      BY <3>1, InterceptAssumption DEF request, residue
    <3>3. s # FAILED
      BY InterceptAssumption DEF FAILED
    <3> QED BY <1>1, <1>3, <3>1, <3>2, <3>3, LiveFinite DEF One
  <2>1. CASE UNCHANGED log /\ rec \notin Exits(s)
    <3>1. LiveOf(s)' = LiveOf(s) /\ One(rec \in Exits(s)) = 0
      BY <2>1 DEF LiveOf, One
    <3> QED BY <2>0, <3>1
  <2>2. CASE ReadEnter(rec)
    <3>1. rec \notin Exits(s) /\ UNCHANGED log
      BY <2>2 DEF ReadEnter, Exits
    <3> QED BY <2>1, <3>1
  <2>3. CASE ReadExit(rec)
    <3>1. rec.type = "exit_mmap" /\ rec.ret \in Starts \cup {FAILED} /\ rec.app \in BOOLEAN
          /\ rec.due \in BOOLEAN
      BY <1>1, <2>3 DEF ReadExit, record
    <3>2. rec \notin Munmaps(s)
      BY <3>1 DEF Munmaps
    <3>3. CASE rec.app = TRUE /\ Tracked(mmap_enter_args.val)
      <4>1. insert_object(rec.ret, mmap_enter_args.val.len)
        BY <2>0, <2>3, <3>3 DEF ReadExit
      <4>2. Cardinality(LiveOf(s)') = Cardinality(LiveOf(s)) + One(rec.ret = s)
        <5>1. log \in Seq(logged) /\ rec.ret \in Starts \cup {FAILED}
              /\ mmap_enter_args.val.len \in Nat
          BY <1>1, <2>0, <3>1
        <5> HIDE DEF rec
        <5> QED BY <4>1, <5>1, InsertCounts, SMTT(30)
      <4>3. rec \in Exits(s) => rec.ret = s
        BY DEF Exits
      <4>4. One(rec \in Exits(s)) <= One(rec.ret = s) /\ One(rec.ret = s) \in {0, 1}
            /\ One(rec \in Munmaps(s)) = 0
        BY <3>2, <4>3 DEF One
      <4> QED BY <2>0, <4>2, <4>4
    <3>4. CASE rec.app = FALSE
      <4>1. rec \notin Exits(s) /\ UNCHANGED log
        BY <2>3, <3>4 DEF ReadExit, Exits
      <4> QED BY <2>1, <4>1
    <3>5. CASE ~Tracked(mmap_enter_args.val)
      <4>1. UNCHANGED log
        BY <2>3, <3>5 DEF ReadExit
      <4>2. rec.due = TRUE => rec.ret # s
        BY <2>0, <3>1, <3>5 DEF Missed
      <4>3. rec \notin Exits(s)
        BY <4>2 DEF Exits
      <4> QED BY <2>1, <4>1, <4>3
    <3> QED BY <3>1, <3>3, <3>4, <3>5
  <2>4. CASE ReadMunmap(rec)
    <3>1. rec.type = "enter_munmap" /\ rec.app \in BOOLEAN
          /\ rec = [type |-> "enter_munmap", app |-> rec.app, addr |-> rec.addr,
                    len |-> rec.len, due |-> rec.due]
          /\ rec.len \in Nat /\ rec.due \in BOOLEAN
      BY <1>1, <2>4 DEF ReadMunmap, record
    <3>2. rec \notin Exits(s)
      BY <3>1 DEF Exits
    <3>3. CASE rec.app = TRUE /\ deallocate_object(rec.addr, rec.len) /\ log' # log
      <4>1. Cardinality(LiveOf(s)') >= Cardinality(LiveOf(s)) - One(rec.addr = s)
        BY <1>1, <3>3, ReleaseCounts
      <4>2. rec.addr = s => rec \in Munmaps(s)
        <5>1. rec.addr = s => rec.due = TRUE
          BY <2>0, <3>1, <3>3 DEF Missed
        <5> QED BY <3>1, <3>3, <5>1 DEF Munmaps
      <4>3. One(rec.addr = s) <= One(rec \in Munmaps(s)) /\ One(rec.addr = s) \in {0, 1}
            /\ One(rec \in Exits(s)) = 0
        BY <3>2, <4>2 DEF One
      <4>4. log' \in Seq(logged)
        BY ReadEventKeepsInv DEF InterceptInv
      <4>5. Cardinality(LiveOf(s)') \in Nat
        <5>1. IsFiniteSet(1 .. Len(log'))
          BY <4>4, FS_Interval
        <5>2. LiveOf(s)' \in SUBSET (1 .. Len(log'))
          BY DEF LiveOf
        <5> QED BY <5>1, <5>2, FS_Subset, FS_CardinalityType
      <4> QED BY <2>0, <4>1, <4>3, <4>5
    <3>4. CASE UNCHANGED log
      BY <2>1, <3>2, <3>4
    <3> QED BY <2>4, <3>1, <3>3, <3>4 DEF ReadMunmap
  <2> QED BY <2>2, <2>3, <2>4 DEF ReadEvent
<1>4. ASSUME NEW s \in Starts, s \notin astray' PROVE lost' \/ Covered(s)'
  <2>1. Held(s)' <=> Held(s)
    BY <1>1 DEF Held, HeldBy
  <2>2. CASE Covered(s)
    <3> DEFINE x == One(rec \in Exits(s))
               u == One(rec \in Munmaps(s))
               h == One(Held(s))
    <3>1. x \in Int /\ u \in Int /\ h \in Int /\ Cardinality(LiveOf(s)) \in Nat
      BY <1>1, LiveFinite DEF One
    <3>2. Unread(ring, Exits(s)) \in Nat /\ Unread(ring, Munmaps(s)) \in Nat
      BY PlacesFinite
    <3>3. Cardinality(LiveOf(s)) + Unread(ring, Exits(s)) >= Unread(ring, Munmaps(s)) + h
      BY <2>2 DEF Covered, One
    <3>4. /\ Unread(ring', Exits(s)) = Unread(ring, Exits(s)) - x
          /\ Unread(ring', Munmaps(s)) = Unread(ring, Munmaps(s)) - u
      BY <1>2
    <3>5. Cardinality(LiveOf(s)') >= Cardinality(LiveOf(s)) + x - u
      BY <1>3, <1>4
    <3>6. Cardinality(LiveOf(s)') \in Nat
      <4>1. log' \in Seq(logged)
        BY ReadEventKeepsInv DEF InterceptInv
      <4>2. IsFiniteSet(1 .. Len(log'))
        BY <4>1, FS_Interval
      <4>3. LiveOf(s)' \in SUBSET (1 .. Len(log'))
        BY DEF LiveOf
      <4> QED BY <4>2, <4>3, FS_Subset, FS_CardinalityType
    <3>7. h = One(Held(s)')
      BY <2>1 DEF One
    <3> HIDE DEF x, u, h
    <3>8. Cardinality(LiveOf(s)') + Unread(ring', Exits(s)) >= Unread(ring', Munmaps(s)) + h
      BY <3>1, <3>2, <3>3, <3>4, <3>5, <3>6
    <3> QED BY <3>7, <3>8 DEF Covered, One
  <2>3. s \notin astray
    BY <1>1, <1>4
  <2> QED BY <1>1, <2>2, <2>3 DEF CoverInv
<1> QED BY <1>1, <1>4 DEF CoverInv, Apart

(* Nothing is mapped, recorded or pending at the start. *)
LEMMA CoverInit == Init => CoverInv
<1> SUFFICES ASSUME Init PROVE CoverInv
  OBVIOUS
<1>1. log = << >> /\ mapped = {} /\ ring = [c \in CPUs |-> << >>]
  BY DEF Init, Registry!Init
<1>2. ASSUME NEW R PROVE Unread(ring, R) = 0
  <2>1. Places(ring, R) = {}
    BY <1>1 DEF Places
  <2> QED BY <2>1, FS_EmptySet DEF Unread
<1>3. ASSUME NEW s \in Starts PROVE Covered(s)
  <2>1. LiveOf(s) = {} /\ ~Held(s)
    BY <1>1 DEF LiveOf, Held
  <2> QED BY <1>2, <2>1, FS_EmptySet DEF Covered
<1> QED BY <1>1, <1>3 DEF CoverInv, Apart

(* Every step keeps the starts covered. *)
LEMMA CoverNext ==
  InterceptInv /\ CoverInv /\ [Next]_vars => CoverInv'
<1> SUFFICES ASSUME InterceptInv, CoverInv, [Next]_vars PROVE CoverInv'
  OBVIOUS
<1>0. \A t \in Tasks : call[t] = << >> \/ call[t] \in Requests => call[t] \notin region
  BY RegionIsNoRequest
<1>1. ASSUME NEW t \in Tasks, NEW req \in Requests, EnterMmap(t, req) PROVE CoverInv'
  <2> DEFINE rec == [type |-> "enter_mmap", app |-> t \in AppTasks, args |-> req]
  <2>1. /\ rec \in record /\ Trace(t, rec) /\ UNCHANGED <<mapped, log, astray>>
        /\ call[t] \notin region /\ call' = [call EXCEPT ![t] = req]
    BY <1>0, <1>1 DEF EnterMmap, record, readVars
  <2>2. \A s \in Starts : rec \notin Exits(s) /\ rec \notin Munmaps(s)
    BY DEF Exits, Munmaps
  <2> HIDE DEF rec
  <2> QED BY <2>1, <2>2, OthersCover
<1>2. ASSUME NEW t \in Tasks, NEW s \in Starts, ExitMmap(t, s) PROVE CoverInv'
  <2>1. CASE t \in AppTasks
    BY <1>2, <2>1, ExitCovers
  <2>2. CASE t \notin AppTasks
    <3> DEFINE due == t \in AppTasks /\ Tracked(call[t])
               rec == [type |-> "exit_mmap", app |-> t \in AppTasks, ret |-> s,
                       due |-> due]
    <3>1. /\ rec \in record /\ Trace(t, rec) /\ UNCHANGED <<mapped, log, astray>>
          /\ call[t] \notin region /\ call' = [call EXCEPT ![t] = << >>]
      BY <1>0, <1>2, <2>2 DEF ExitMmap, record, readVars
    <3>2. (t \in AppTasks) = FALSE
      BY <2>2
    <3>3. rec.type = "exit_mmap" /\ rec.app = FALSE
      BY <3>2
    <3>4. \A x \in Starts : rec \notin Exits(x) /\ rec \notin Munmaps(x)
      BY <3>3 DEF Exits, Munmaps
    <3> HIDE DEF rec
    <3> QED BY <3>1, <3>4, OthersCover
  <2> QED BY <2>1, <2>2
<1>3. ASSUME NEW t \in Tasks, FailMmap(t) PROVE CoverInv'
  <2> DEFINE rec == [type |-> "exit_mmap", app |-> t \in AppTasks, ret |-> FAILED,
                   due |-> FALSE]
  <2>1. /\ rec \in record /\ Trace(t, rec) /\ UNCHANGED <<mapped, log, astray>>
        /\ call[t] \notin region /\ call' = [call EXCEPT ![t] = << >>]
    BY <1>0, <1>3 DEF FailMmap, record, readVars
  <2>2. \A s \in Starts : rec \notin Exits(s) /\ rec \notin Munmaps(s)
    <3>1. \A s \in Starts : s # FAILED
      BY InterceptAssumption DEF FAILED
    <3>2. rec.ret = FAILED /\ rec.type = "exit_mmap"
      OBVIOUS
    <3> HIDE DEF rec
    <3> QED BY <3>1, <3>2 DEF Exits, Munmaps
  <2> HIDE DEF rec
  <2> QED BY <2>1, <2>2, OthersCover
<1>4. ASSUME NEW t \in OtherTasks, NEW a \in Starts, ForeignMunmap(t, a) PROVE CoverInv'
  <2> DEFINE rec == [type |-> "enter_munmap", app |-> FALSE, addr |-> a,
                     len |-> MIN_LEN + 1, due |-> FALSE]
  <2>1. /\ rec \in record /\ Trace(t, rec) /\ UNCHANGED <<mapped, log, call, astray>>
        /\ t \in Tasks
    BY <1>4, InterceptAssumption DEF ForeignMunmap, record, readVars, Tasks
  <2>2. \A s \in Starts : rec \notin Exits(s) /\ rec \notin Munmaps(s)
    BY DEF Exits, Munmaps
  <2> HIDE DEF rec
  <2> QED BY <2>1, <2>2, OthersCover
<1>5. ASSUME NEW t \in AppTasks, NEW m \in mapped, EnterMunmap(t, m) PROVE CoverInv'
  BY <1>5, MunmapCovers
<1>6. CASE ReadEvent
  BY <1>6, ReadCovers
<1> QED BY <1>1, <1>2, <1>3, <1>4, <1>5, <1>6, SilentCovers DEF Next

(***************************************************************************)
(* For requests of every kind, and while no ring overflows: whatever       *)
(* thread_intercept_mmap reads in whatever order, and whichever entry it   *)
(* pairs with an exit, when all is read every region to be reported that   *)
(* the application has mapped is recorded and live at its start, unless a  *)
(* mispaired record of that very start (Missed) was applied.               *)
(***************************************************************************)
THEOREM AllMappedRecorded == Spec => []MappedIsRecorded
<1>1. ASSUME InterceptInv, CoverInv PROVE MappedIsRecorded
  <2> SUFFICES ASSUME Quiet, ~lost, NEW m \in mapped, m.due, m.start \notin astray
               PROVE  \E k \in 1 .. Len(log) : log[k].start = m.start /\ log[k].live
    BY DEF MappedIsRecorded
  <2>1. /\ m.start \in Starts /\ m.due = TRUE
        /\ \A t \in Tasks : call[t] # m
    <3>1. m \in region
      BY <1>1 DEF InterceptInv, TypeOK
    <3> QED BY <3>1, RegionIsNoRequest DEF region, Quiet
  <2>2. Held(m.start) /\ Covered(m.start)
    BY <1>1, <2>1 DEF Held, HeldBy, CoverInv
  <2>3. ASSUME NEW R PROVE Unread(ring, R) = 0
    <3>1. \A c \in CPUs : Len(ring[c]) = 0
      BY DEF Quiet
    <3>2. Places(ring, R) = {}
      BY <3>1 DEF Places
    <3> QED BY <3>2, FS_EmptySet DEF Unread
  <2>4. LiveOf(m.start) # {}
    <3>1. Cardinality(LiveOf(m.start)) + 0 >= 0 + 1
      BY <2>2, <2>3 DEF Covered
    <3> QED BY <3>1, FS_EmptySet
  <2> QED BY <2>4 DEF LiveOf
<1>2. Spec => []CoverInv
  BY CoverInit, CoverNext, InterceptInvariant, PTL DEF Spec
<1> QED BY <1>1, <1>2, InterceptInvariant, PTL
=============================================================================
