# A TLA+ model of online_scheduler

online_scheduler watches the large memory regions of one application on a
machine with DRAM and persistent memory (PMEM), measures how hot they are, and
moves them between the two.  This directory holds a model of it: modules checked
with TLC on small instances, and proofs, checked with TLAPS, of what holds for
every size of table, pipe and ring: the invariants the threads rely on when they
share the object table without a lock, the policies of the actuator, the counting
of the monitor, the hash map, the start and end of a run, and three refinements.

Definitions keep the names of the C code.  Every definition that stands for code
is tied to its lines in `PROJECT.json` ("map").

## 1. The system

| component | state | operations | interacts through |
|---|---|---|---|
| `start_threads.c` | `g_running_*`, `g_app_pid`, the FIFOs | create FIFOs and threads, read `pid.txt`, SIGUSR1 handler, joins | flags; the FIFOs |
| `intercept_mmap.c` | one perf ring per CPU, the pointer `mmap_enter_args` | poll, read a record, pair exit with entry, call the recorder | kernel trace points; calls `recorder.c` |
| `recorder.c` | `g_tier_manager` (`obj_vector`, `obj_alloc`, `total_obj`), a static `index` | `insert_object`, `deallocate_object`, `bind_order` | writes the table; writes `migration.pipe` |
| `monitor.c` | `g_tier_manager_copy`, `g_hashmap`, the metrics | per period: clear, read samples, charge them, average | reads the table; writes the metrics |
| `hashmap.c` | buckets, `count`, `cap` | `hashmap_set`, `get`, `delete`, `clear`, resizing | called by `monitor.c` |
| `actuator.c` | sorted list, running maxima, page counts, promotion flag, demotion spacing | per period: sort, count pages, demote under pressure, promote | reads table and metrics; writes `birth_date`, `last_decision`, `migration.pipe` |
| `preload.c` | one thread in the application | constructor opens the FIFOs; read an order, `mbind`, report a failure | `migration.pipe`, `migration_error.pipe` |
| `run.sh`, `delete_shared_memory.c` | what an earlier run left: `pid.txt`, the shared memory | clean up, start `start_threads`, then the application; signal at the end | processes, files |

What is hard about it:

* intercept thread, monitor and actuator share `g_tier_manager` with no lock;
  the recorder publishes an object in several stores with a `popen` in between;
* orders refer to objects by slot number and are carried out later, by another
  process;
* two writers block on `migration.pipe`; its reader blocks on
  `migration_error.pipe`, which nobody reads;
* both ends of both FIFOs are opened with opens that wait for each other;
* entry and exit of one system call may be in the rings of two CPUs, which are
  read one after the other, and rings lose records;
* the table, the pipes, the rings and the descriptors are finite;
* the actuator works on readings that are stale or partly another object's:
  maxima that rise while they are divided by, page counts that are not cleared,
  free DRAM that is read once per burst;
* a run may follow one that was interrupted, and a thread may fail to start.

What makes each part correct: the table only grows and never changes what a slot
number means (recorder); what is mapped is recorded, and nothing of another
process is (interceptor); a sample is counted once and old heat fades (monitor);
an object does not go back and forth, a burst is bounded and ordered (actuator);
every entry is found and every probe ends (hash map);
the decision recorded for an object is the one its pages get (recorder, actuator
and mbind thread together); every order is tried once, in turn (pipes); nobody
waits for ever (pipes, start, stop); the process that is measured is the one
that is moved (life cycle).

## 2. Modules

| module | models |
|---|---|
| `TierManager` | the shared table, the pipe, `bind_order`, the clock; extended by all but Intercept and Lifecycle |
| `ObjectRegistry` | abstract: an append-only log of objects, each released at most once |
| `Recorder` | `recorder.c`, refines `ObjectRegistry` |
| `Intercept` | `intercept_mmap.c` in front of an `ObjectRegistry` |
| `Monitor` | `monitor.c` |
| `MonitorSystem` | composition of Monitor and Recorder |
| `Actuator` | `actuator.c` |
| `ActuatorHistory` | the actuator beside a table that grows, with history variables for its properties |
| `Dictionary` | abstract: one item per hash, the last that was set |
| `HashMap` | `hashmap.c` with the comparison of `monitor.c`, refines `Dictionary` |
| `Preload` | the mbind thread of `preload.c` |
| `MbindService` | abstract: a queue of orders, each tried once and in turn |
| `Scheduler` | composition of Recorder, Actuator and Preload, refines `MbindService` |
| `Lifecycle` | `start_threads.c`, the constructor of `preload.c`, `delete_shared_memory.c`, the lines of `run.sh` that prepare, start and stop |
| `MC*` | the instances TLC checks |
| `RecorderProofs`, `InterceptProofs`, `MonitorProofs`, `ActuatorProofs`, `ActuatorHistoryProofs`, `SchedulerProofs`, `HashMapProofs`, `LifecycleProofs` | the theorems of section 4 |

How state and steps correspond to the code:

* **Recorder.** The fields of `object_t` are functions of the slot, one per
  writer.  A call of `insert_object` becomes the sequence `todo` of the pieces
  it will insert; each piece takes the steps `FindSlot`, `Publish`, `Count`,
  `Order`, cut where `_insert_object` calls libc.  The stores inside one step are
  in program order and no reader distinguishes their intermediate states.
  Writing slot `MAX_OBJECTS` ends the model in `"overrun"`.
* **Intercept.** A record is in the ring of the CPU its task was on.
  `mmap_enter_args` carries the number of records after which the kernel has
  overwritten what it points at; from then on it reads as one of `Residues`,
  whatever lies there, and so it does before the first entry, when the pointer is
  not initialised (that it may be no address at all, and end the process, is not
  modelled).  A region, and each record about it, carries whether it was asked
  for by a request that is to be reported (`due`): history that no reader tests.
* **Actuator.** A policy tests an object (`TestDemotion`), writes its order
  (`SendDemotion`) and stores the decision (`StoreDemotion`) in three steps,
  between which recorder and mbind thread may run; a promotion likewise, whose
  stores to `last_decision` and `birth_date` nobody sees apart.  `sort_objects`
  reads `obj_alloc[obj_index]` with `obj_index` uninitialised (l. 142).  In the
  build of `run.sh` (gcc -O2) the index is 0 and both `obj_alloc[0]` and
  `total_obj` are read once, before the loop: either all objects enter the list
  or none.  Hence the entries in use are written anew in every pass, and those
  the `qsort` of the whole array takes along are older ones only when none is in
  use.  `g_status_memory_pages` is 0 at the start although it comes from
  `malloc`: it is the first block of the thread's own arena, which is fresh from
  the kernel.  The metrics read are any
  mixture of a small set, because the monitor may be writing them; from them
  the maxima (`Raised`), the value (`Normalised`, in hundredths) and the order
  are computed as in the code.  Where the kernel has the pages of an object is
  an input; `query_status_memory_pages` counts them on top of what the reading
  before left.  Shares are integers, parts of `SHARE`, rounded towards 0; sizes
  are units, `PAGE` units to a page.  The list and the page status are
  forgotten at the end of a period, since the next one writes them before it
  reads them.
* **HashMap.** `buckets` maps a position to hash, distance (`dib`) and item.
  `dib` has 16 bits in the code and is a natural number here: the two agree while
  the map holds fewer than 2^16 items, which is what `DibWithinCount` is for.  A
  call is one step: the map has one user.  A `hashmap_new` that gets no memory
  leaves no map, which is no step.  `Turns` and `Moved` are the
  loops of `hashmap_set` and `resize`, turn by turn; `Rounded` is the doubling
  loop of `hashmap_new`.  `SameItem` is `address_compare`: it compares the
  places of two items, which never are the same, and answers 0, which the map
  takes for equal.
* **Monitor.** Doubles are fixed-point hundredths, rounded down.  `data_src` is
  the set of the bits that are set.  `old_value` is used for all four averages,
  as in the code, where its other assignments are commented out.
* **Preload.** `mbind` may fail at any time, up to a bound.
* **MbindService.** `queue` is the order the mbind thread has in hand before it
  calls `mbind`, followed by the pipe.
* **Lifecycle.** It starts from what an interrupted run may have left, which
  `Prepare` removes.  `open` of a FIFO waits until the other side has come.  A
  write when no reading end is open is SIGPIPE; processes the application has
  started hold one as well.  `killed` says what ended `start_threads` early:
  `exit` while main or a thread was set up (`Setup_Exits`: `set_current_free_dram`
  in main, perf in interceptor and monitor, the nodes and `malloc` of
  `allocate_vector_status` in the actuator), `exit` because `popen` failed, or
  SIGPIPE.  `popen` may fail whenever a thread calls it: the streams of
  `get_my_timestamp` are never closed, so in a long run it does.  `sleep 3` in
  `run.sh` is taken to be long enough for the threads to have set perf up, and
  its `kill` to reach `start_threads`.

## 3. Runs

`tlc -workers 2 -config <cfg> <module>`; times are for two cores.

| run | question | size |
|---|---|---|
| `recorder` | do insertions and releases cancel out, is every mapped byte recorded, what can readers and orders rely on, is the table an append-only registry | 257 436 states, 20 s |
| `recorder_overrun` (violation) | is a full table detected | |
| `intercept` | what is recorded when threads migrate, rings overflow, mmaps fail and other processes run | 3.0 M states, 140 s |
| `intercept_mixed` (violation) | is what is recorded a region that was mapped, with its length | |
| `monitor` | counting once, consistency of the copy, cooling down | 70 919 states, 20 s |
| `monitor_idle` (violation) | can a period without samples raise an average | |
| `actuator` | what may a period order, how much, in which order, and when again | 2.6 M states, 70 s |
| `hashmap` | is it a dictionary, do its loops end | 10 778 states, 30 s |
| `scheduler` | does the actuator's last decision reach the pages, when may the recorder's order come after it | 978 757 states, 35 s |
| `scheduler_live` | do insertions end, is it an mbind service, does the actuator stop | 59 438 states, 30 s |
| `scheduler_errors` (violation) | are orders served when failures fill the error pipe | |
| `lifecycle` | clean-up, start, failures, stop, children, SIGPIPE | 37 987 states, 10 s |

The passing runs show:

* **LedgerBalanced, MappedBytesRecorded**: `deallocate_object` releases exactly
  what `insert_object` made, also where the extra chunk that an exact multiple of
  `CHUNK_SIZE` gets has the range of another region.
* **ScanSeesCompleteObjects**: the loops up to `total_obj` meet only complete
  objects.  **OrderNamesItsObject**: an order in flight never names a slot that
  has another range by now.  **ImplementsRegistry**: both follow from the table
  being append-only, which the recorder implements.
* **MappedIsRecorded**: with requests of several lengths and kinds, so that an
  exit is paired with the entry of another call, a region goes unrecorded only
  because a record was lost or because one of two mispairings hit its start: its
  exit was read after an entry that is not reported, or the munmap of an
  unreported region of the same range released it.  Each is a step of the code
  that `Missed` names; munmaps and mmaps of one address read in the wrong order
  do no harm.  **NothingForeign**: see `Intercept`.
* **StoresOncePerAddress, TlbWithinLoads, IdleObjectsCool**: see `Monitor`.
* **DemotionSpacing, NoEarlyDemotion, OneOrderPerPeriod, BurstLimit**: see
  `ActuatorHistory`.  **HottestFirst**: the orders of a burst go by value, and
  also by the metrics themselves unless a maximum rose in that pass; without the
  exception TLC finds a hotter object behind a colder one.
  **PromotionNearFree**: because free DRAM is not reduced within a burst, it can
  promise more than there was, but by less than a chunk.  **DemotedHasDram**:
  what the page count carries over from another object stays below
  `min_size_gb`, so an object without pages in DRAM is not demoted.
* **NoGaps, DibWithinCount, RoomLeft, ImplementsDictionary**: see `HashMap`; also
  proved.  The map tells items apart by hash alone: two addresses with one hash
  are one item to it.
* **DecisionReachesPages**: when no order for an object is under way, the last
  mbind tried on it is the actuator's last decision.  There is one exception, and
  it is exact: the first order of an object is sent after the object is visible,
  so the actuator's may overtake it, and then the last mbind is the recorder's, to
  DRAM, until the actuator decides again (`overtaken` records which objects these
  are).  **OvertakenOnlyWhenOld**: by a demotion that can happen only if the
  recorder waited for the pipe longer than `min_lifetime_sec`.
* **InsertionCompletes, ActuatorStops, ImplementsMbindService**: as long as
  failures do not fill the error pipe, nobody waits for ever and every order is
  tried once, in the order of sending, also after one that failed.
* **SingleMbindThread, MeasuredIsMoved**: after an interrupted run, too, the
  mbind thread is in the application and `g_app_pid` is its pid.
  **StartupCompletes**: a thread whose set-up fails does not keep the
  application waiting; only when `start_threads` exits on an error before the
  application is through its constructor may that wait for ever.
  **SignalEndsProcess**: after
  the signal all threads end, or SIGPIPE or a failed `popen` has ended them.

The violations are disagreements between the code and what its comments,
messages or README say (`PROJECT.json`, "findings"):

* a full table is written past its end: the check that should report it sits in
  a loop whose body never runs (`recorder.c:134`; `NothingBeyond`, a part of the
  invariant proved, is the reason);
* an exit from mmap is paired with the last entry read (`intercept_mmap.c:229`).
  In the trace a thread enters a small mmap on CPU 1, is migrated and leaves it on
  CPU 2, then enters a large one on CPU 1; the reader takes both entries of CPU 1
  before the exit, and records the small region, which is not to be recorded at
  all, with the length of the large one;
* `loads_count`, `tlb_hit` and `tlb_miss` are averaged with the old latency
  (`monitor.c:101`);
* nobody reads `migration_error.pipe`, so the mbind thread stops once it is full
  (`preload.c:195`, `actuator.c:516`).

Further places where the modelled code does something its reader may not expect,
modelled as they are and without a run of their own: a munmap of part of a
region releases nothing unless the part is an object of its own (`recorder.c:201`); a failed mmap is recorded
(`intercept_mmap.c:244`); a munmap after a small mmap is ignored
(`intercept_mmap.c:250`); the end of an object counts as part of it
(`monitor.c:157`); `PERF_MEM_LVLNUM_PMEM` is used as a mask (`monitor.c:242`);
`sort_objects` tests an uninitialised index (`actuator.c:142`); a failed
migration stays recorded in `last_decision` (`actuator.c:516`); after SIGUSR1 the
interceptor can outlive the other threads (`start_threads.c:48`); a maximum that
rises in mid-pass changes the scale for the objects after it (`actuator.c:162`);
page counts are carried from object to object (`actuator.c:396`); the descriptors
of `popen` are never closed (`actuator.c:72`, `preload.c:63`); `address_compare`
compares places, not addresses (`monitor.c:60`).  Without a model of their own:
an address that the map has no memory for is counted again (`monitor.c:667`);
`page_status` overflows on a machine with four nodes (`actuator.c:446`); a `read`
that fails is taken for an order (`preload.c:241`); `run.sh:230` gives `kill` a
name where it takes a pid.  Known, and the reason why LedgerBalanced and
MappedBytesRecorded are stated for whole unmaps: a munmap of a prefix that is a
multiple of `CHUNK_SIZE` also releases the chunk behind it, which is still mapped
(`recorder.c:184`).

### Bounds, and why they are enough

* `MAX_OBJECTS` 6 with `CHUNK_SIZE` 3 and regions of 2, 3, 4 and 6 units: every
  branch of the slicing, two regions alive at once, a table that overflows.
  The properties of the table are also proved for all sizes.
* `PIPE_CAP` 1 or 2: every writer meets a full pipe after one or two orders.
* `Intercept`: two CPUs and two threads are what a migration and a race need;
  two mmaps of one address, with the munmap between them, have their records read
  in any order; two lengths that are reported and an arena that is not give every
  mispairing; a ring of two records overflows and is overwritten.  The two
  threads are a symmetry set; only invariants are checked with it.
  `intercept_mixed` has one thread, rings that never overflow and a third mmap.
* `MCMonitor`: one region mapped twice, so that a dead and a live object share
  a range; two samples, so that one address is stored to twice.
* `MCActuator`: one object that is joined by a second, each of a size that is
  or is not a multiple of the page, over two clock values: demotion, promotion
  and demotion again, bursts of two orders, and both kinds of carried count.
  Longer bursts over larger tables are covered by the theorems.  Three readings
  make values below and above the threshold and raise the maxima twice; the two
  levels of free DRAM are below and above two chunks.
* `MCHashMap`: four buckets that grow to eight and sixteen and shrink again.
  The code starts at 16 buckets and shrinks at 10 percent: with the least
  capacity scaled to 4 and the percentage to 25 the same transitions happen with
  eight items, of which two share a hash and others share or pass over home
  buckets at every size.  The theorems cover the code's own numbers.
* `MCScheduler`: one region of two objects (five units, chunks of three) for
  safety, and a munmap of the first of them alone, after which the table has a
  hole below an object in use; one object for liveness, where it is the pipes that
  matter.  Every object has half of its pages on either node, so that
  both policies may take it: which one they may is the matter of `MCActuator`.
* `MCLifecycle`: one child suffices for a second constructor and an inherited
  pipe; two mmaps and a pipe of one order let either writer meet a full pipe.
* `MaxTime`, `MaxSamples`, `MaxCalls`, `MaxFail`, `MaxEvents` bound inputs.

### Fairness

`Scheduler`: weak fairness for each thread, whose steps are a few instructions
or a call that returns; strong fairness for the two writes to the pipe, since
the kernel wakes writers in the order of arrival.  None for the application's
calls, the clock or the stop signal.  `Lifecycle`: the same; `poll` without a
timeout returns because mmaps keep happening somewhere in the machine (the
trace points are not restricted to the application); a burst of orders is
finite; the programs the application starts (the shells of `popen`) end.
Nothing obliges the application to end, DRAM to run low or `run.sh` to signal.
`MonitorSystem`: weak fairness of the monitor thread.

## 4. Proofs

All theorems hold for every value of the constants that the modules assume
(`TierAssumption`, `RecorderAssumption`, `ActuatorAssumption`, ...: sizes and
bounds are naturals, chunks and pages are not empty).  `HashMapAssumption` asks a
little more: the least table may hold an item (`MIN_CAP * GROW_PERCENT >= 100`; in
the code 16 buckets at 75 percent) and the threshold for shrinking is at most half
of that for growing (10 percent against 75).  Each proof has the same
shape: an inductive invariant, a lemma for each action or group of actions, and
the properties as consequences.  Where a theorem states a property that a run
checks, `PROJECT.json` names it.

| module | invariant | theorems |
|---|---|---|
| `RecorderProofs` | `RecorderInv`, `LedgerInv` | RecorderTypeOK, ScanSeesCompleteObjects, OrderNamesItsObject, ImplementsRegistry; for whole unmaps LedgerBalanced and MappedBytesRecorded |
| `InterceptProofs` | `InterceptInv`, `CoverInv` | TypeOK, NothingForeign, MappedIsRecorded |
| `MonitorProofs` | `MonitorInv` | TypeOK, TlbWithinLoads, StoresOncePerAddress |
| `ActuatorHistoryProofs` | `HistoryInv`, `PagesInv` | TypeOK, DemotionSpacing, NoEarlyDemotion, OneOrderPerPeriod, the orders by value, WithinChunk, PromotionNearFree; with hypotheses BurstLimit and DemotedHasDram |
| `SchedulerProofs` | `SchedulerInv` | SchedulerTypeOK, the recorder's properties beside the actuator (the ledger for whole unmaps), OvertakenOnlyWhenOld, DecisionReachesPages, ImplementsRegistry, the safety part of MbindService |
| `HashMapProofs` | `MapInv` | MapTypeOK, NoGaps, DibWithinCount, RoomLeft, ImplementsDictionary |
| `LifecycleProofs` | `LifecycleInv` | TypeOK, SingleMbindThread, MeasuredIsMoved, NoSigpipeWhileAppLives |

**Recorder.**  None of the properties is inductive by itself.  `RecorderInv`
adds: `CountsAgree` (the static `index` and `total_obj` differ by one exactly
between `Count` and `Order`), `NothingBeyond` (no slot at or after `index` is
allocated, but for the one being inserted, so the search loop never moves and
its bound check is dead), `Filled` and `Dated` (slots below `index` have a range,
those below `total_obj` a date), `OrdersSettled` (an order in the pipe names a
slot below `index`, with its range, and such slots are not written again) and
`Control` (a thread at work has pieces left to do).

The refinement maps the table to `registryLog`: one entry for each slot that has
been published, which are those below `index` and, from `Publish` to `Order`,
`index` itself.  `PublishRecords` shows that `Publish` appends one live entry,
for which `NothingBeyond` and `CountsAgree` are needed (the slot is a new one and
the table is not full); `DeallocateReleases` that `Deallocate` releases one entry
or none; `OthersKeepLog` that every other step stutters, `FindSlot` because the
slot it writes is not yet in the log.

The ledger (`InsertionsUndone`, `NoByteEscapes`) is proved for applications that
unmap whole regions (`PartialUnmaps = {}`): a munmap of part of a region may
release a chunk that is still mapped (`recorder.c:184`), so for arbitrary partial
unmaps it is false.  Counting does not give an inductive invariant, because the
extra chunk of an exact multiple may have the range of another region's piece and
`_deallocate_object` then may release the other region's object.  `Ledger` says
instead that there is some one-to-one assignment of live objects to the pieces
due (`Holder`), those of the mapped regions without the ones still to be inserted
and with the ones still to be released; when the object released belonged to
another piece, the two change places (`HeldLess`).  `PiecesCover` (the pieces of a
region leave no gap) and `PiecesDiffer` (they start at different addresses) are
the arithmetic of the slicing.

**Intercept.**  A record is read long after its call, so the invariant is about
records in the rings: what a record of the application says, the application did
ask for (`RingsHonest`), and what is asked is never forgotten.  Every entry of
the log is then backed by a call (`LogHonest`), whatever `mmap_enter_args` reads
as meanwhile.

`AllMappedRecorded` is for requests of every kind and length.  The records of
different rings may be read in any order, so nothing can be said of a single
object; `Covered` counts instead.  For every start, the live objects and the exits
still in a ring of mmaps to be reported are at least as many as the munmaps still
in a ring of such regions, and one more while one is mapped there.  Reading an
exit moves one from the rings to the log, if the entry it is paired with is one
to be reported, of whatever length; reading a munmap takes one off either side, or
finds nothing and takes one off the right side only.  The two steps that disturb
the balance are those of `Missed`, and put the start into `astray`.  Once the
rings are empty, a mapped region outside `astray` therefore has a live object.

**Monitor.**  A store is in the copy until `update_metrics` has passed its
object, and in the metrics, where it is added once, after it.  `Credit`
counts both places; the sum over the slots is at most the number of addresses in
the hash map (`StoresCredited`).  That the recorder changes the table while
samples are charged is covered by `RecorderInv`, which is part of the invariant.

**Actuator.**  `ActuatorInv` (in `ActuatorProofs`, used by two compositions)
says what holds at each point of a period: the maxima are positive and cover the
readings they divide, so values are within 0 .. 300; the list holds each counted
object at most once; an object that is about to be demoted is old enough
(`Aged`), and so is one whose demotion is written and not yet stored.  `HistoryInv` relates this to the history: `Waits` (the spacing counter
and the periods since the last demotion), `Restarted` (a promotion sets
`birth_date`), `DemotedPassed` and `PromotedPassed` (what was ordered is behind
the position in the list; demotions have values below the threshold and
promotions above, so no object gets both), `InTurn` (orders follow the list, which
`Descending` keeps sorted), `Budget` (before its last order a burst is within a
chunk, and `max_migration_gb` is what it has left).

`PagesInv` bounds the page counts, which the code never clears.  A reading of an
object of n pages leaves a carried count that is divided by n, so with at least
two pages it stays below two shares (`CarriesLittle`) and no object is counted
for more than its size and two pages (`Measured`).  The two theorems that rest on
it have hypotheses on the sizes:

* `LargeObjects`: no size in pages is a single page.  The interceptor passes only
  mmaps above 1 MB (`intercept_mmap.c:237`), so every recorded region and every
  full chunk is larger; the last piece of a sliced region alone could be a single
  page.
* `CarriedSmall`: what is carried is worth at most `min_size_gb`, two pages
  (8 KiB) against 0.1 GB (`actuator.c:290`).

`MCActuator` satisfies both.

**Scheduler.**  `SchedulerInv` is `RecorderInv` and `ActuatorInv` together with
what relates decisions to orders.  The decision on an object (`Decision`) is what
the actuator wrote last for it, and is `last_decision` but between the write and
the store.  An object that is not counted has none (`NotDecided`), and of the
orders of a decided object that the application has not yet tried the last is
settled, or, if there is none, the last one tried is (`Decided`).  Settled means:
to the node of the decision, or, for an object in `overtaken`, to DRAM.
`OrdersTriedOnceInOrder`
is `SchedulerSpec => Service!Safety`: the steps of the three threads map to
sending, trying or stuttering of `MbindService`; its fairness stays with TLC.

**Lifecycle.**  From `Prepare` on, the shared memory exists exactly when the
application is past `init_lib` (`MemoryIsApps`), which keeps its children out of
the FIFOs; `pid.txt` and `g_app_pid` name the application (`PidIsApps`); a thread
that writes has met the reader (`MetReader`).

**Hash map.**  `MapInv` says that the table is `Sound`, its size and `cap`
doublings of `MIN_CAP`, and `count` the number of entries, at most
`growat`.  For `DibBounded` the buckets from an entry's home to its own are
different ones and occupied, so there are no more of them than entries.  `NoGaps` is not inductive by itself: a deletion moves entries back
until it meets an empty bucket or one at home, which keeps the others reachable
only because of the Robin Hood order.  `Sound` therefore has three local parts:
`Filled` (an entry is at its distance from its home), `Ordered` (the distance
grows by at most one from a bucket to the next) and `Distinct` (no two entries
with one hash).  `Trail` derives from `Ordered` that no bucket between an entry
and its home is empty.

The loops are followed turn by turn.  `StoreOver`: an item with the hash of a
stored one is met before any bucket that would give way, so nothing is displaced
and the table stays as it is but for the item.  `StoreNew`: otherwise the entries
in the table and the one in hand are always those of the beginning (`Going`), the
buckets passed are occupied, and since one is empty the loop ends within `n`
turns.  `ResizeKeeps` repeats this for every entry of the old table;
`ClosedKeeps` is the back-shift of `hashmap_delete`, across the end of the table
too.  `growatRoom`, `growatTwice` and `shrinkatHalf` are the arithmetic of the
thresholds: below `growat` a bucket is free, a doubled table has room for one
more, and what is left when the table shrinks fits into half of it.

For the refinement the table is read as a set of pairs of hash and item
(`TableHolds`), on which storing, replacing and deleting are what Dictionary does
(`HoldsAdded`, `HoldsRemoved`); there is one lemma for each operation (`SetStep`,
`DeleteStep`, ...), which shows `MapInv'` and the step of Dictionary together.

**Recursive functions.**  The library's induction takes a formula as parameter,
which the provers cannot instantiate.  The lemma `SetInduction` states it for a set of
numbers instead (from the well-foundedness of `<`), and that suffices to show that
`Maxima`, `PagesRead`, `Total`, `SlotSum`, `doubling`, `Turns` and `Moved` are what
their recursion says (`MaximaDef`, `TotalDef`, `SlotSumDef`, `TurnsDef`, ...) and
what they compute.

Only model-checked:

* liveness, and with it the fairness of MbindService: InsertionCompletes,
  ActuatorStops, StartupCompletes, SignalEndsProcess, IdleObjectsCool;
* the second half of HottestFirst, on the metrics themselves: values are rounded
  to hundredths, so for arbitrary readings two different ones may tie and it does
  not hold for every set of readings; the half on the values is `OrdersByValue`.

## 5. Not modelled

* Torn or reordered reads of single words: the build is for x86, where aligned
  words are read whole and stores are seen in order.
* End of file and errors of `read` in the mbind thread: end of file, after
  `start_threads` has died, only makes its loop spin.
* The hash functions of `hashmap.c` (a constant of `HashMap`) and its tests;
  equal hashes and lack of memory in `Monitor`, whose store filter is a set.
* The number of nodes: two are modelled, `page_status` has room for three.
* What an overrun of the table destroys.
* A `dib` that wraps, in a map of 2^16 items or more with one home bucket.
* `mmap_enter_args` that is no address: `ReadMunmap` before the first entry may
  end the process.
* Missing environment variables, with which main exits before there are FIFOs.
* `track_mapping.c` (its thread is not created), `libsyscall_intercept.c` (not
  used), `check_migration_error` (its call is commented out), `lock_memory.c`,
  the rest of the scripts, the plots.

## 6. Plan

Done: every module of section 2 with its runs; the theorems of section 4.

Next: Monitor and Actuator together, over the metrics they share.  Today each is
checked against everything the other may do.
