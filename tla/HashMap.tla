------------------------------- MODULE HashMap -------------------------------
(***************************************************************************)
(* hashmap.c: the open-addressed map with Robin Hood probing in which the  *)
(* monitor remembers the addresses whose store was counted.                *)
(*                                                                         *)
(* A loop over the buckets takes at most nbuckets steps when it ends at    *)
(* all, which is what RoomLeft is about.  An empty bucket is modelled as   *)
(* EMPTY: what is left in it is never read.  dib has 16 bits in the code   *)
(* and is a natural number here: DibWithinCount says how far they agree.   *)
(***************************************************************************)
EXTENDS Integers, FiniteSets, FiniteSetsExt

CONSTANTS
  Items,            \* what is stored: sampled addresses
  Hash(_),          \* get_hash: SipHash of the item, 48 bits of it
  MIN_CAP,          \* 16 in the code; a power of two
  GROW_PERCENT,     \* 75
  SHRINK_PERCENT,   \* 10
  Capacities        \* arguments of hashmap_new

NULL == 0

ASSUME HashMapAssumption ==
  /\ Items \subseteq Nat \ {NULL}
  /\ \A item \in Items : Hash(item) \in Nat
  /\ MIN_CAP \in Nat \ {0}
  /\ GROW_PERCENT \in 1 .. 99
  /\ MIN_CAP * GROW_PERCENT >= 100     \* the least table may hold an item
  /\ SHRINK_PERCENT \in 0 .. GROW_PERCENT \div 2
  /\ Capacities \subseteq Nat

VARIABLES
  buckets,    \* 0 .. nbuckets - 1 -> bucket; << >> when there is no map
  cap,        \* the least nbuckets it shrinks to
  count,
  oom,
  returned    \* what the last operation returned

mapVars == <<buckets, cap, count, oom, returned>>

bucket == [hash : Nat, dib : Nat, item : Items \cup {NULL}]
EMPTY  == [hash |-> 0, dib |-> 0, item |-> NULL]

Live     == buckets # << >>
nbuckets == Cardinality(DOMAIN buckets)

growat(n) == (n * GROW_PERCENT) \div 100

\* mutant: the two thresholds are the same
shrinkat_AsGrow(n) == growat(n)

shrinkat(n) == (n * SHRINK_PERCENT) \div 100

Blank(n) == [i \in 0 .. n - 1 |-> EMPTY]

MapTypeOK ==
  /\ \A i \in DOMAIN buckets : buckets[i] \in bucket
  /\ DOMAIN buckets = 0 .. nbuckets - 1
  /\ cap \in Nat
  /\ count \in Nat
  /\ oom \in BOOLEAN
  /\ returned \in Items \cup {NULL}

Init ==
  /\ buckets = << >>
  /\ cap = 0
  /\ count = 0
  /\ oom = FALSE
  /\ returned = NULL

-----------------------------------------------------------------------------
(* The capacity asked for, rounded up to a doubling of the least *)
doubling[k \in Nat] == IF k = 0 THEN MIN_CAP ELSE 2 * doubling[k - 1]

Rounded(c) == Min({n \in {doubling[k] : k \in 0 .. c} : n >= c})

(* Without memory for it there is no map, and nothing has changed. *)
hashmap_new(c) ==
  /\ ~Live
  /\ cap' = Rounded(c)
  /\ buckets' = Blank(Rounded(c))
  /\ UNCHANGED <<count, oom, returned>>

hashmap_free ==
  /\ Live
  /\ buckets' = << >>
  /\ cap' = 0
  /\ count' = 0
  /\ oom' = FALSE
  /\ returned' = NULL

\* mutant: a comparison by place, as two pointers that never are the same
SameItem_ByPlace(entry, hash) == FALSE

(***************************************************************************)
(* The test for equality.  address_compare is given two places in memory,  *)
(* never the same, and answers 0, which the map takes for equality: the    *)
(* hash alone decides.                                                     *)
(***************************************************************************)
SameItem(entry, hash) == entry.hash = hash

(***************************************************************************)
(* One turn of the loop that stores an entry: an empty bucket takes it, a  *)
(* bucket with the same item is overwritten (in the loop of hashmap_set,   *)
(* not in that of resize), a bucket nearer to its home gives way and is    *)
(* carried on in its place.                                                *)
(***************************************************************************)
Advance(s, loop) ==
  LET here == s.table[s.i]
      carry(e) == [s EXCEPT !.i = (s.i + 1) % Cardinality(DOMAIN s.table),
                            !.entry = [e EXCEPT !.dib = @ + 1]]
  IN  CASE s.stored -> s
        [] ~s.stored /\ here.dib = 0 ->
             [s EXCEPT !.table[s.i] = s.entry, !.stored = TRUE]
        [] /\ ~s.stored /\ here.dib # 0
           /\ loop = "set" /\ SameItem(here, s.entry.hash) ->
             [s EXCEPT !.table[s.i].item = s.entry.item, !.stored = TRUE,
                       !.replaced = here.item]
        [] OTHER ->
             IF here.dib < s.entry.dib
             THEN [carry(here) EXCEPT !.table[s.i] = s.entry]
             ELSE carry(s.entry)

Begin(b, hash, item) ==
  [table |-> b, i |-> hash % Cardinality(DOMAIN b), stored |-> FALSE,
   entry |-> [hash |-> hash, dib |-> 1, item |-> item], replaced |-> NULL]

Turns(b, hash, item, loop) ==
  LET turn[k \in 0 .. Cardinality(DOMAIN b)] ==
        IF k = 0 THEN Begin(b, hash, item) ELSE Advance(turn[k - 1], loop)
  IN  turn

Store(b, hash, item, loop) ==
  Turns(b, hash, item, loop)[Cardinality(DOMAIN b)]

(* resize: the entries go, in the order of the buckets, to a new table. *)
Carried(to, e) ==
  IF e.dib = 0 THEN to ELSE Store(to, e.hash, e.item, "resize").table

Moved(b, n) ==
  LET moved[i \in 0 .. Cardinality(DOMAIN b)] ==
        IF i = 0 THEN Blank(Rounded(n)) ELSE Carried(moved[i - 1], b[i - 1])
  IN  moved

resize(b, n) == Moved(b, n)[Cardinality(DOMAIN b)]

(* The probe from the home of a hash to an empty bucket or to its item *)
Find(hash) ==
  LET at(k) == (hash + k) % nbuckets
      stops == {k \in 0 .. nbuckets - 1 :
                  \/ buckets[at(k)].dib = 0
                  \/ SameItem(buckets[at(k)], hash)}
  IN  at(Min(stops))

hashmap_get(item) ==
  /\ Live
  /\ returned' = buckets[Find(Hash(item))].item
  /\ UNCHANGED <<buckets, cap, count, oom>>

(* A full map grows first, even when the item is there already. *)
hashmap_set(item) ==
  LET grown == IF count = growat(nbuckets) THEN resize(buckets, nbuckets * 2)
                                           ELSE buckets
      done == Store(grown, Hash(item), item, "set")
  IN  /\ Live
      /\ buckets' = done.table
      /\ returned' = done.replaced
      /\ count' = IF done.replaced = NULL THEN count + 1 ELSE count
      /\ oom' = FALSE
      /\ UNCHANGED cap

SetFails ==
  /\ Live
  /\ count = growat(nbuckets)
  /\ oom' = TRUE
  /\ returned' = NULL
  /\ UNCHANGED <<buckets, cap, count>>

\* mutant: the buckets behind stay where they are
Closed_LeavesHole(b, i) == [b EXCEPT ![i] = EMPTY]

\* mutant: the entries move back and are taken for as far from home as before
Closed_KeepsDib(b, i) ==
  LET n == Cardinality(DOMAIN b)
      last == Min({k \in 1 .. n : k = n \/ b[(i + k) % n].dib <= 1}) - 1
      back(k) == (k + n - i) % n
  IN  [p \in DOMAIN b |->
         IF back(p) < last THEN b[(p + 1) % n]
         ELSE IF back(p) = last THEN EMPTY
         ELSE b[p]]

(* The entries behind a deleted one, up to one at home, move back by one. *)
Closed(b, i) ==
  LET n == Cardinality(DOMAIN b)
      last == Min({k \in 1 .. n : k = n \/ b[(i + k) % n].dib <= 1}) - 1
      back(k) == (k + n - i) % n
  IN  [p \in DOMAIN b |->
         IF back(p) < last THEN [b[(p + 1) % n] EXCEPT !.dib = @ - 1]
         ELSE IF back(p) = last THEN EMPTY
         ELSE b[p]]

\* mutant: an item that is not there is counted as deleted
hashmap_delete_CountsMissing(item) ==
  LET i == Find(Hash(item))
  IN  /\ Live
      /\ returned' = buckets[i].item
      /\ oom' = FALSE
      /\ count' = count - 1
      /\ buckets' = IF buckets[i].dib = 0 THEN buckets ELSE Closed(buckets, i)
      /\ UNCHANGED cap

(* A shrink may fail for want of memory, which is ignored. *)
hashmap_delete(item) ==
  LET i == Find(Hash(item))
      closed == Closed(buckets, i)
      shrinks == nbuckets > cap /\ count - 1 <= shrinkat(nbuckets)
  IN  /\ Live
      /\ returned' = buckets[i].item
      /\ oom' = FALSE
      /\ UNCHANGED cap
      /\ IF buckets[i].dib = 0
         THEN UNCHANGED <<buckets, count>>
         ELSE /\ count' = count - 1
              /\ buckets' \in IF shrinks
                             THEN {closed, resize(closed, nbuckets \div 2)}
                             ELSE {closed}

(* A failed allocation only leaves more memory than nbuckets says. *)
hashmap_clear(update_cap) ==
  /\ Live
  /\ count' = 0
  /\ cap' = IF update_cap THEN nbuckets ELSE cap
  /\ buckets' = Blank(cap')
  /\ returned' = NULL
  /\ UNCHANGED oom

Next ==
  \/ \E c \in Capacities : hashmap_new(c)
  \/ \E item \in Items :
       hashmap_set(item) \/ hashmap_get(item) \/ hashmap_delete(item)
  \/ SetFails
  \/ \E update_cap \in BOOLEAN : hashmap_clear(update_cap)
  \/ hashmap_free

Spec == Init /\ [][Next]_mapVars

-----------------------------------------------------------------------------
(* hashmap_scan and hashmap_iter visit the buckets that are not empty. *)
Visited == {i \in DOMAIN buckets : buckets[i].dib # 0}

(***************************************************************************)
(* Every entry can be found: it is dib - 1 buckets behind its home, and    *)
(* none between is empty.                                                  *)
(***************************************************************************)
NoGaps ==
  \A i \in Visited :
    LET at(k) == (buckets[i].hash + k) % nbuckets
    IN  /\ at(buckets[i].dib - 1) = i
        /\ \A k \in 0 .. buckets[i].dib - 1 : at(k) \in Visited

(***************************************************************************)
(* An entry is no further from its home than there are entries: dib, which *)
(* has 16 bits in the code, cannot wrap while the map holds fewer than     *)
(* 2^16 items, whatever their hashes.  At 2^16 items of one home bucket it *)
(* would, which the model does not show.                                   *)
(***************************************************************************)
DibWithinCount == \A i \in Visited : buckets[i].dib <= count

(***************************************************************************)
(* The loops of hashmap_set, hashmap_get and hashmap_delete have no bound: *)
(* they end because a bucket is always empty.  hashmap_set tests growat    *)
(* for equality, so count may never pass it, not even when a grow fails or *)
(* the table shrinks.                                                      *)
(***************************************************************************)
RoomLeft ==
  Live => /\ count = Cardinality(Visited)
          /\ count <= growat(nbuckets)
          /\ count < nbuckets

(***************************************************************************)
(* Through collisions, displacements, shifts, growth and shrinking, and    *)
(* whatever allocations fail, the map behaves as a dictionary of hashes.   *)
(***************************************************************************)
Contents ==
  [h \in {buckets[i].hash : i \in Visited} |->
     buckets[CHOOSE i \in Visited : buckets[i].hash = h].item]

Abstract == INSTANCE Dictionary WITH held <- Contents

ImplementsDictionary == Abstract!Spec
=============================================================================
