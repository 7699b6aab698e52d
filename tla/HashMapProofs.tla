---------------------------- MODULE HashMapProofs ----------------------------
(***************************************************************************)
(* The hash map is a dictionary, for every capacity, every set of items    *)
(* and every hash function: what its loops do to a table, over any number  *)
(* of turns, and what every operation keeps.  The code's dib has 16 bits:  *)
(* with DibBounded the results are about it while the map holds fewer than *)
(* 2^16 items.                                                             *)
(***************************************************************************)
EXTENDS HashMap, FiniteSetTheorems, FunctionTheorems, WellFoundedInduction, TLAPS

-----------------------------------------------------------------------------
(***************************************************************************)
(* Induction on the naturals for a set of numbers in place of a formula,   *)
(* in which form the provers can use it: it shows that the recursive       *)
(* functions of the model exist and what they compute.                     *)
(***************************************************************************)

(* A set of naturals that is not empty has a least element. *)
LEMMA LeastNatural ==
  ASSUME NEW T \in SUBSET Nat, T # {}
  PROVE  \E n \in T : \A m \in T : n <= m
<1> DEFINE Less == OpToRel(<, Nat)
           Pairing == {ss \in Nat \X Nat : ss[1] < ss[2]}
<1>1. Less = Pairing
  BY Zenon DEF OpToRel
<1>2. \E x \in T : \A y \in T : <<y, x>> \notin Less
  BY NatLessThanWellFounded, WFMin, Zenon
<1>3. \E x \in T : \A y \in T : <<y, x>> \notin Pairing
  <2> HIDE DEF Less, Pairing
  <2> QED BY <1>1, <1>2
<1>4. PICK x \in T : \A y \in T : <<y, x>> \notin Pairing
  BY <1>3
<1>5. ASSUME NEW y \in T PROVE x <= y
  <2>1. <<y, x>> \notin Pairing
    BY <1>4
  <2> QED BY <2>1
<1> QED BY <1>5

(* A set with 0 in it, and with every number its successor, has all. *)
LEMMA SetInduction ==
  ASSUME NEW S, 0 \in S, \A n \in Nat : n \in S => n + 1 \in S
  PROVE  \A n \in Nat : n \in S
<1> DEFINE T == Nat \ S
<1> SUFFICES ASSUME T # {} PROVE FALSE
  OBVIOUS
<1>1. PICK n \in T : \A m \in T : n <= m
  BY LeastNatural
<1>2. n \in Nat /\ n # 0 /\ n - 1 \in Nat /\ n - 1 \notin T
  BY <1>1
<1>3. (n - 1) + 1 \in S
  BY <1>2
<1> QED BY <1>1, <1>2, <1>3

-----------------------------------------------------------------------------
(* Arithmetic.  Min is the least element. *)
LEMMA MinLeast ==
  ASSUME NEW T \in SUBSET Nat, T # {}
  PROVE  Min(T) \in T /\ \A m \in T : Min(T) <= m
  BY LeastNatural DEF Min

(* Products *)
LEMMA Monotone ==
  ASSUME NEW a \in Nat, NEW b \in Int, NEW c \in Int, b <= c
  PROVE  a * b <= a * c
  OBVIOUS

(* What division leaves *)
LEMMA DivMod ==
  ASSUME NEW a \in Nat, NEW n \in Nat, n # 0
  PROVE  /\ a \div n \in Nat
         /\ a % n \in 0 .. n - 1
         /\ a = n * (a \div n) + (a % n)
  OBVIOUS

(* A remainder is determined. *)
LEMMA ModUnique ==
  ASSUME NEW n \in Nat, n # 0, NEW q \in Int, NEW r \in 0 .. n - 1,
         NEW p \in Int, NEW s \in 0 .. n - 1, n * q + r = n * p + s
  PROVE  r = s
<1>1. CASE p = q
  BY <1>1
<1>2. CASE p >= q + 1
  <2>1. n * p >= n * (q + 1)
    BY <1>2, Monotone
  <2>2. n * (q + 1) = n * q + n
    OBVIOUS
  <2> QED BY <2>1, <2>2
<1>3. CASE q >= p + 1
  <2>1. n * q >= n * (p + 1)
    BY <1>3, Monotone
  <2>2. n * (p + 1) = n * p + n
    OBVIOUS
  <2> QED BY <2>1, <2>2
<1> QED BY <1>1, <1>2, <1>3

(* Around the table: k buckets behind another *)
LEMMA ModAdd ==
  ASSUME NEW a \in Nat, NEW n \in Nat, n # 0, NEW k \in 0 .. n
  PROVE  (a + k) % n = IF (a % n) + k < n THEN (a % n) + k ELSE (a % n) + k - n
<1> DEFINE q == a \div n
           r == a % n
           p == (a + k) \div n
           s == (a + k) % n
<1>1. q \in Nat /\ r \in 0 .. n - 1 /\ a = n * q + r
  BY DivMod
<1>2. p \in Nat /\ s \in 0 .. n - 1 /\ a + k = n * p + s
  <2>1. a + k \in Nat
    OBVIOUS
  <2> QED BY <2>1, DivMod
<1> HIDE DEF q, r, p, s
<1>3. CASE r + k < n
  <2>1. n * q + (r + k) = n * p + s /\ r + k \in 0 .. n - 1
    BY <1>1, <1>2, <1>3
  <2>2. r + k = s
    BY <1>1, <1>2, <2>1, ModUnique
  <2> QED BY <1>3, <2>2 DEF r, s
<1>4. CASE r + k >= n
  <2>1. n * (q + 1) = n * q + n
    BY <1>1
  <2>2. n * (q + 1) + (r + k - n) = n * p + s /\ r + k - n \in 0 .. n - 1
    BY <1>1, <1>2, <1>4, <2>1
  <2>3. q + 1 \in Int /\ p \in Int
    BY <1>1, <1>2
  <2>4. r + k - n = s
    BY <1>2, <2>2, <2>3, ModUnique
  <2> QED BY <1>1, <1>4, <2>4 DEF r, s
<1> QED BY <1>1, <1>3, <1>4

(* The neighbours of a bucket of n *)
After(i, n)  == IF i = n - 1 THEN 0 ELSE i + 1
Before(i, n) == IF i = 0 THEN n - 1 ELSE i - 1

LEMMA Neighbours ==
  ASSUME NEW n \in Nat, n # 0, NEW i \in 0 .. n - 1
  PROVE  /\ After(i, n) \in 0 .. n - 1 /\ Before(i, n) \in 0 .. n - 1
         /\ Before(After(i, n), n) = i /\ After(Before(i, n), n) = i
  BY DEF After, Before

(* One step of the probe *)
LEMMA ModNext ==
  ASSUME NEW a \in Nat, NEW n \in Nat, n # 0
  PROVE  (a + 1) % n = After(a % n, n)
<1>1. a % n \in 0 .. n - 1
  BY DivMod
<1>2. (a + 1) % n = IF (a % n) + 1 < n THEN (a % n) + 1 ELSE (a % n) + 1 - n
  <2>1. 1 \in 0 .. n
    OBVIOUS
  <2> QED BY <2>1, ModAdd, Zenon
<1> QED BY <1>1, <1>2 DEF After

(* A number below n is its own remainder. *)
LEMMA ModSmall ==
  ASSUME NEW n \in Nat, n # 0, NEW i \in 0 .. n - 1
  PROVE  i % n = i
<1>1. i \div n \in Nat /\ i % n \in 0 .. n - 1 /\ i = n * (i \div n) + (i % n)
  <2>1. i \in Nat
    OBVIOUS
  <2> QED BY <2>1, DivMod
<1>2. n * 0 + i = n * (i \div n) + (i % n)
  BY <1>1
<1> QED BY <1>1, <1>2, ModUnique

(* A probe of n steps meets every bucket, *)
LEMMA ProbeMeets ==
  ASSUME NEW h \in Nat, NEW n \in Nat, n # 0, NEW p \in 0 .. n - 1
  PROVE  \E k \in 0 .. n - 1 : (h + k) % n = p
<1> DEFINE r == h % n
           k == IF p >= r THEN p - r ELSE p - r + n
<1>1. r \in 0 .. n - 1
  BY DivMod
<1>2. k \in 0 .. n - 1 /\ p = IF r + k < n THEN r + k ELSE r + k - n
  BY <1>1
<1>3. (h + k) % n = IF r + k < n THEN r + k ELSE r + k - n
  <2>1. k \in 0 .. n
    BY <1>2
  <2> QED BY <2>1, ModAdd, Zenon
<1> QED BY <1>2, <1>3

(* and none twice. *)
LEMMA ProbeOnce ==
  ASSUME NEW h \in Nat, NEW n \in Nat, n # 0, NEW j \in 0 .. n - 1, NEW k \in 0 .. n - 1,
         (h + j) % n = (h + k) % n
  PROVE  j = k
<1> DEFINE r == h % n
<1>1. r \in 0 .. n - 1
  BY DivMod
<1>2. j \in 0 .. n /\ k \in 0 .. n
  OBVIOUS
<1>3. (h + j) % n = IF r + j < n THEN r + j ELSE r + j - n
  BY <1>2, ModAdd, Zenon
<1>4. (h + k) % n = IF r + k < n THEN r + k ELSE r + k - n
  BY <1>2, ModAdd, Zenon
<1> HIDE DEF r
<1> QED BY <1>1, <1>3, <1>4

-----------------------------------------------------------------------------
(***************************************************************************)
(* The invariant of a table b of n buckets.  Ordered is what Robin Hood    *)
(* probing is for: an entry is at most one step further from its home than *)
(* the one before it.  Hence a probe for a stored item never meets an      *)
(* empty bucket, nor one that would give way, before it meets the item.    *)
(***************************************************************************)
Fits(e, i, n) == (e.hash + (e.dib - 1)) % n = i

Filled(b, n) ==
  \A i \in 0 .. n - 1 :
    IF b[i].dib = 0 THEN b[i] = EMPTY
    ELSE b[i].item \in Items /\ b[i].dib <= n /\ Fits(b[i], i, n)

Ordered(b, n) ==
  \A i \in 0 .. n - 1 : b[i].dib > 1 => b[Before(i, n)].dib >= b[i].dib - 1

Distinct(b, n) ==
  \A i, j \in 0 .. n - 1 :
    b[i].dib # 0 /\ b[j].dib # 0 /\ b[i].hash = b[j].hash => i = j

Sound(b, n) ==
  /\ n \in Nat /\ n # 0
  /\ b \in [0 .. n - 1 -> bucket]
  /\ Filled(b, n)
  /\ Ordered(b, n)
  /\ Distinct(b, n)

(* Where entries are, which hashes they have, and with which items *)
Occupied(b) == {i \in DOMAIN b : b[i].dib # 0}
Hashes(b)   == {b[i].hash : i \in Occupied(b)}
Pairs(b)    == {<<b[i].hash, b[i].item>> : i \in Occupied(b)}

(* The size of a table *)
LEMMA SizeOf ==
  ASSUME NEW n \in Nat, NEW b, DOMAIN b = 0 .. n - 1
  PROVE  Cardinality(DOMAIN b) = n /\ IsFiniteSet(Occupied(b))
<1>1. Cardinality(DOMAIN b) = n /\ IsFiniteSet(DOMAIN b)
  BY FS_Interval
<1>2. Occupied(b) \in SUBSET DOMAIN b
  BY DEF Occupied
<1> QED BY <1>1, <1>2, FS_Subset

(* Up to an entry, the probe for it meets entries as far from home. *)
LEMMA Trail ==
  ASSUME NEW n, NEW b, Sound(b, n), NEW i \in 0 .. n - 1, b[i].dib # 0,
         NEW k \in 0 .. b[i].dib - 1
  PROVE  b[(b[i].hash + k) % n].dib >= k + 1
<1> DEFINE h == b[i].hash
           d == b[i].dib - 1
           S == {j \in Nat : j <= d => b[(h + (d - j)) % n].dib >= (d - j) + 1}
<1>1. h \in Nat /\ d \in Nat /\ n \in Nat /\ n # 0 /\ d <= n - 1
      /\ b \in [0 .. n - 1 -> bucket] /\ d + 1 = b[i].dib
  <2>1. b \in [0 .. n - 1 -> bucket] /\ n \in Nat /\ n # 0
    BY DEF Sound
  <2>2. b[i].hash \in Nat /\ b[i].dib \in Nat
    BY <2>1 DEF bucket
  <2>3. b[i].dib <= n
    BY DEF Sound, Filled
  <2> QED BY <2>1, <2>2, <2>3
<1>2. (h + d) % n = i
  BY DEF Sound, Filled, Fits
<1> HIDE DEF h, d
<1>3. 0 \in S
  BY <1>1, <1>2
<1>4. ASSUME NEW j \in Nat, j \in S PROVE j + 1 \in S
  <2> SUFFICES ASSUME j + 1 <= d
               PROVE  b[(h + (d - (j + 1))) % n].dib >= (d - (j + 1)) + 1
    OBVIOUS
  <2> DEFINE a == h + (d - (j + 1))
             p == a % n
  <2>1. a \in Nat /\ a + 1 = h + (d - j) /\ p \in 0 .. n - 1
    <3>1. a \in Nat /\ a + 1 = h + (d - j)
      BY <1>1
    <3> QED BY <1>1, <3>1, DivMod
  <2>2. (h + (d - j)) % n = After(p, n)
    BY <1>1, <2>1, ModNext
  <2>3. b[After(p, n)].dib >= (d - j) + 1
    BY <1>1, <1>4, <2>2
  <2>4. After(p, n) \in 0 .. n - 1 /\ Before(After(p, n), n) = p
    BY <1>1, <2>1, Neighbours
  <2> HIDE DEF a, p
  <2>5. b[After(p, n)].dib \in Nat /\ b[p].dib \in Nat
    BY <1>1, <2>1, <2>4 DEF bucket
  <2>6. b[p].dib >= b[After(p, n)].dib - 1
    BY <1>1, <2>3, <2>4, <2>5 DEF Sound, Ordered
  <2>7. b[p].dib >= (d - (j + 1)) + 1
    <3>1. \A x, y \in Nat : x >= y - 1 /\ y >= (d - j) + 1 => x >= (d - (j + 1)) + 1
      BY <1>1
    <3> QED BY <2>3, <2>5, <2>6, <3>1
  <2> QED BY <2>7 DEF a, p
<1>5. d - k \in S
  <2>1. d - k \in Nat
    BY <1>1
  <2> HIDE DEF S
  <2> QED BY <1>3, <1>4, <2>1, SetInduction
<1>6. d - (d - k) = k /\ d - k <= d
  BY <1>1
<1> QED BY <1>5, <1>6 DEF h

-----------------------------------------------------------------------------
(* The turns of a loop *)

state(n) == [table : [0 .. n - 1 -> bucket], i : 0 .. n - 1, stored : BOOLEAN,
             entry : bucket, replaced : Items \cup {NULL}]

(* What a turn does, by the bucket it meets *)
LEMMA AdvanceStored ==
  ASSUME NEW s, s.stored = TRUE, NEW loop
  PROVE  Advance(s, loop) = s
  BY DEF Advance

LEMMA AdvanceEmpty ==
  ASSUME NEW n, NEW s \in state(n), s.stored = FALSE, s.table[s.i].dib = 0, NEW loop
  PROVE  Advance(s, loop) =
           [table |-> [s.table EXCEPT ![s.i] = s.entry], i |-> s.i, stored |-> TRUE,
            entry |-> s.entry, replaced |-> s.replaced]
<1>1. Advance(s, loop) = [s EXCEPT !.table[s.i] = s.entry, !.stored = TRUE]
  BY DEF Advance
<1> QED BY <1>1 DEF state

LEMMA AdvanceSame ==
  ASSUME NEW n, NEW s \in state(n), s.stored = FALSE, s.table[s.i].dib # 0,
         s.table[s.i].hash = s.entry.hash, NEW loop, loop = "set"
  PROVE  Advance(s, loop) =
           [table |-> [s.table EXCEPT ![s.i].item = s.entry.item], i |-> s.i,
            stored |-> TRUE, entry |-> s.entry, replaced |-> s.table[s.i].item]
<1>1. Advance(s, loop) = [s EXCEPT !.table[s.i].item = s.entry.item, !.stored = TRUE,
                                      !.replaced = s.table[s.i].item]
  BY DEF Advance, SameItem
<1> QED BY <1>1 DEF state

LEMMA AdvancePast ==
  ASSUME NEW n \in Nat, NEW s \in state(n), s.stored = FALSE, s.table[s.i].dib # 0,
         NEW loop, loop # "set" \/ s.table[s.i].hash # s.entry.hash,
         s.table[s.i].dib >= s.entry.dib
  PROVE  Advance(s, loop) =
           [table |-> s.table, i |-> (s.i + 1) % n, stored |-> FALSE,
            entry |-> [s.entry EXCEPT !.dib = @ + 1], replaced |-> s.replaced]
<1>1. Cardinality(DOMAIN s.table) = n
  BY SizeOf DEF state
<1>2. ~(s.table[s.i].dib < s.entry.dib)
  <2>1. s.table[s.i] \in bucket /\ s.entry \in bucket
    BY DEF state
  <2>2. s.table[s.i].dib \in Nat /\ s.entry.dib \in Nat
    BY <2>1 DEF bucket
  <2> QED BY <2>2
<1>3. Advance(s, loop) = [s EXCEPT !.i = (s.i + 1) % n,
                                      !.entry = [s.entry EXCEPT !.dib = @ + 1]]
  BY <1>1, <1>2 DEF Advance, SameItem
<1> QED BY <1>3 DEF state

LEMMA AdvanceSwap ==
  ASSUME NEW n \in Nat, NEW s \in state(n), s.stored = FALSE, s.table[s.i].dib # 0,
         NEW loop, loop # "set" \/ s.table[s.i].hash # s.entry.hash,
         s.table[s.i].dib < s.entry.dib
  PROVE  Advance(s, loop) =
           [table |-> [s.table EXCEPT ![s.i] = s.entry], i |-> (s.i + 1) % n,
            stored |-> FALSE, entry |-> [s.table[s.i] EXCEPT !.dib = @ + 1],
            replaced |-> s.replaced]
<1>1. Cardinality(DOMAIN s.table) = n
  BY SizeOf DEF state
<1> DEFINE next == [s EXCEPT !.i = (s.i + 1) % n,
                             !.entry = [s.table[s.i] EXCEPT !.dib = @ + 1]]
<1>2. Advance(s, loop) = [next EXCEPT !.table[s.i] = s.entry]
  BY <1>1 DEF Advance, SameItem
<1> QED BY <1>2 DEF state

(* The turns are what their recursion says. *)
LEMMA TurnsDef ==
  ASSUME NEW n \in Nat, NEW b, DOMAIN b = 0 .. n - 1, NEW hash, NEW item, NEW loop
  PROVE  Turns(b, hash, item, loop) =
           [k \in 0 .. n |-> IF k = 0 THEN Begin(b, hash, item)
                             ELSE Advance(Turns(b, hash, item, loop)[k - 1], loop)]
<1> DEFINE t == Turns(b, hash, item, loop)
           Def(f, m) == f = [k \in 0 .. m |-> IF k = 0 THEN Begin(b, hash, item)
                                              ELSE Advance(f[k - 1], loop)]
           S == {m \in Nat : \E f : Def(f, m)}
<1>1. 0 \in S
  <2>1. Def([k \in 0 .. 0 |-> Begin(b, hash, item)], 0)
    OBVIOUS
  <2> HIDE DEF Def
  <2> QED BY <2>1
<1>2. ASSUME NEW m \in Nat, m \in S PROVE m + 1 \in S
  <2>1. PICK f : Def(f, m)
    BY <1>2
  <2> DEFINE g == [k \in 0 .. m + 1 |->
                     IF k = m + 1 THEN Advance(f[m], loop) ELSE f[k]]
  <2>2. Def(g, m + 1)
    BY <2>1
  <2> HIDE DEF Def, g
  <2> QED BY <2>2
<1>3. n \in S
  <2> HIDE DEF S
  <2> QED BY <1>1, <1>2, SetInduction
<1>4. \E f : Def(f, n)
  BY <1>3
<1>5. t = CHOOSE f : Def(f, n)
  BY SizeOf DEF Turns
<1>6. Def(t, n)
  <2> HIDE DEF Def, t
  <2> QED BY <1>4, <1>5
<1> QED BY <1>6

LEMMA FirstTurn ==
  ASSUME NEW n \in Nat, NEW b, DOMAIN b = 0 .. n - 1, NEW hash, NEW item, NEW loop
  PROVE  Turns(b, hash, item, loop)[0] = Begin(b, hash, item)
<1> DEFINE t == Turns(b, hash, item, loop)
<1>1. t = [k \in 0 .. n |-> IF k = 0 THEN Begin(b, hash, item)
                            ELSE Advance(t[k - 1], loop)]
  BY TurnsDef
<1> HIDE DEF t
<1> QED BY <1>1 DEF t

LEMMA NextTurn ==
  ASSUME NEW n \in Nat, NEW b, DOMAIN b = 0 .. n - 1, NEW hash, NEW item, NEW loop,
         NEW k \in 0 .. n - 1
  PROVE  Turns(b, hash, item, loop)[k + 1] =
           Advance(Turns(b, hash, item, loop)[k], loop)
<1> DEFINE t == Turns(b, hash, item, loop)
<1>1. t = [j \in 0 .. n |-> IF j = 0 THEN Begin(b, hash, item)
                            ELSE Advance(t[j - 1], loop)]
  BY TurnsDef
<1>2. k + 1 \in 0 .. n /\ k + 1 # 0 /\ (k + 1) - 1 = k
  OBVIOUS
<1> HIDE DEF t
<1>3. t[k + 1] = Advance(t[k], loop)
  BY <1>1, <1>2
<1> QED BY <1>3 DEF t

-----------------------------------------------------------------------------
(***************************************************************************)
(* hashmap_set of an item whose hash is there: the loop passes every       *)
(* bucket up to it, since none before it is empty or would give way, and   *)
(* only replaces the item.                                                 *)
(***************************************************************************)
Overwritten(b, i, item) == [b EXCEPT ![i].item = item]

LEMMA StoreOver ==
  ASSUME NEW n, NEW b, Sound(b, n), NEW i \in 0 .. n - 1, b[i].dib # 0,
         NEW item \in Items, NEW loop, loop = "set"
  PROVE  /\ Store(b, b[i].hash, item, loop).table = Overwritten(b, i, item)
         /\ Store(b, b[i].hash, item, loop).replaced = b[i].item
<1> DEFINE h == b[i].hash
           d == b[i].dib - 1
           t == Turns(b, h, item, loop)
           e(k) == [hash |-> h, dib |-> k + 1, item |-> item]
           at(k) == [table |-> b, i |-> (h + k) % n, stored |-> FALSE,
                     entry |-> e(k), replaced |-> NULL]
           end == [table |-> [b EXCEPT ![i].item = item], i |-> i, stored |-> TRUE,
                   entry |-> e(d), replaced |-> b[i].item]
           S == {k \in Nat : k <= n => t[k] = IF k <= d THEN at(k) ELSE end}
<1>1. /\ b \in [0 .. n - 1 -> bucket] /\ n \in Nat /\ n # 0 /\ DOMAIN b = 0 .. n - 1
      /\ h \in Nat /\ d \in Nat /\ d <= n - 1 /\ d + 1 = b[i].dib /\ d \in 0 .. n - 1
      /\ b[i] \in bucket /\ b[i].item \in Items
  <2>1. b \in [0 .. n - 1 -> bucket] /\ n \in Nat /\ n # 0
    BY DEF Sound
  <2>2. b[i].hash \in Nat /\ b[i].dib \in Nat
    BY <2>1 DEF bucket
  <2>3. b[i].dib <= n /\ b[i].item \in Items
    BY DEF Sound, Filled
  <2> QED BY <2>1, <2>2, <2>3
<1>2. (h + d) % n = i
  BY DEF Sound, Filled, Fits
<1>3. \A k \in 0 .. d : b[(h + k) % n].dib >= k + 1
  BY <1>1, Trail
<1> HIDE DEF h, d
<1>4. Cardinality(DOMAIN b) = n
  BY <1>1, SizeOf
<1>5. /\ t[0] = Begin(b, h, item)
      /\ \A k \in 0 .. n - 1 : t[k + 1] = Advance(t[k], loop)
  <2>1. t[0] = Begin(b, h, item)
    BY <1>1, FirstTurn
  <2>2. ASSUME NEW k \in 0 .. n - 1 PROVE t[k + 1] = Advance(t[k], loop)
    BY <1>1, NextTurn
  <2> QED BY <2>1, <2>2
<1> HIDE DEF t
<1>6. 0 \in S
  <2>1. h + 0 = h /\ 0 + 1 = 1 /\ 0 <= d
    BY <1>1
  <2>2. t[0] = at(0)
    BY <1>4, <1>5, <2>1, Zenon DEF Begin
  <2> HIDE DEF at, end
  <2> QED BY <2>1, <2>2
<1>7. ASSUME NEW k \in Nat, k \in S PROVE k + 1 \in S
  <2> SUFFICES ASSUME k + 1 <= n
               PROVE  t[k + 1] = IF k + 1 <= d THEN at(k + 1) ELSE end
    OBVIOUS
  <2>1. /\ k \in 0 .. n - 1 /\ t[k + 1] = Advance(t[k], loop)
        /\ t[k] = IF k <= d THEN at(k) ELSE end
    <3>1. k \in 0 .. n - 1 /\ k <= n
      BY <1>1
    <3> HIDE DEF at, end
    <3> QED BY <1>5, <1>7, <3>1
  <2>2. CASE k > d
    <3>1. t[k] = end /\ ~(k + 1 <= d)
      BY <1>1, <2>1, <2>2
    <3>2. Advance(end, loop) = end
      BY AdvanceStored
    <3> QED BY <2>1, <3>1, <3>2
  <2>3. CASE k <= d
    <3> DEFINE p == (h + k) % n
    <3>1. t[k] = at(k)
      BY <2>1, <2>3
    <3>2. p \in 0 .. n - 1 /\ b[p] \in bucket /\ e(k) \in bucket
      <4>1. h + k \in Nat
        BY <1>1
      <4>2. p \in 0 .. n - 1
        BY <1>1, <4>1, DivMod
      <4> QED BY <1>1, <4>2 DEF bucket
    <3>3. at(k) \in state(n)
      <4> HIDE DEF p, e
      <4> QED BY <1>1, <3>2 DEF state, p
    <3>4. b[p].dib >= k + 1
      BY <1>1, <1>3, <2>3
    <3>5. b[p].dib # 0 /\ b[p].dib \in Nat
      BY <3>2, <3>4 DEF bucket
    <3>6. CASE k = d
      <4>1. p = i /\ b[p].hash = h
        BY <1>2, <3>6 DEF h
      <4>2. /\ at(k).stored = FALSE /\ at(k).table = b /\ at(k).i = p
            /\ at(k).entry = e(k) /\ e(k).hash = h /\ e(k).item = item
        OBVIOUS
      <4>3. Advance(at(k), loop) =
              [table |-> [b EXCEPT ![p].item = item], i |-> p, stored |-> TRUE,
               entry |-> e(k), replaced |-> b[p].item]
        <5> HIDE DEF at, e, p
        <5>1. /\ at(k).table[at(k).i].dib # 0
              /\ at(k).table[at(k).i].hash = at(k).entry.hash
          BY <3>5, <4>1, <4>2
        <5> QED BY <3>3, <4>2, <5>1, AdvanceSame
      <4>4. ~(k + 1 <= d)
        BY <1>1, <3>6
      <4> QED BY <2>1, <3>1, <3>6, <4>1, <4>3, <4>4
    <3>7. CASE k < d
      <4>1. b[p].hash # h
        <5> SUFFICES ASSUME b[p].hash = h PROVE FALSE
          OBVIOUS
        <5>1. p = i
          BY <1>1, <3>2, <3>5 DEF Sound, Distinct, h
        <5>2. k = d
          BY <1>1, <1>2, <2>1, <5>1, ProbeOnce
        <5> QED BY <1>1, <3>7, <5>2
      <4>2. /\ at(k).stored = FALSE /\ at(k).table = b /\ at(k).i = p
            /\ at(k).entry = e(k) /\ e(k).hash = h /\ e(k).dib = k + 1
            /\ at(k).replaced = NULL
        OBVIOUS
      <4>3. [e(k) EXCEPT !.dib = @ + 1] = e(k + 1)
        OBVIOUS
      <4>4. (p + 1) % n = (h + (k + 1)) % n
        <5>1. h + k \in Nat /\ h + (k + 1) = (h + k) + 1 /\ p \in Nat
          BY <1>1, <3>2
        <5>2. (h + (k + 1)) % n = After(p, n)
          BY <1>1, <5>1, ModNext
        <5>3. (p + 1) % n = After(p % n, n) /\ p % n = p
          <6> HIDE DEF p
          <6> QED BY <1>1, <3>2, <5>1, ModNext, ModSmall
        <5> QED BY <5>2, <5>3
      <4>5. Advance(at(k), loop) =
              [table |-> b, i |-> (p + 1) % n, stored |-> FALSE,
               entry |-> e(k + 1), replaced |-> NULL]
        <5> HIDE DEF at, e, p
        <5>1. /\ at(k).table[at(k).i].dib # 0
              /\ at(k).table[at(k).i].hash # at(k).entry.hash
              /\ at(k).table[at(k).i].dib >= at(k).entry.dib
          BY <3>4, <3>5, <4>1, <4>2
        <5>2. Advance(at(k), loop) =
                [table |-> at(k).table, i |-> (at(k).i + 1) % n, stored |-> FALSE,
                 entry |-> [at(k).entry EXCEPT !.dib = @ + 1],
                 replaced |-> at(k).replaced]
          BY <1>1, <3>3, <4>2, <5>1, AdvancePast
        <5> QED BY <4>2, <4>3, <5>2
      <4>6. k + 1 <= d
        BY <1>1, <3>7
      <4> QED BY <2>1, <3>1, <4>4, <4>5, <4>6
    <3> QED BY <1>1, <2>3, <3>6, <3>7
  <2> QED BY <1>1, <2>2, <2>3
<1>8. t[n] = end
  <2>1. n \in S
    <3> HIDE DEF S
    <3> QED BY <1>1, <1>6, <1>7, SetInduction
  <2>2. ~(n <= d)
    BY <1>1
  <2> QED BY <1>1, <2>1, <2>2
<1>9. Store(b, h, item, loop) = end
  BY <1>4, <1>8 DEF Store, t
<1>10. end.table = Overwritten(b, i, item) /\ end.replaced = b[i].item
  BY DEF Overwritten
<1> HIDE DEF end
<1> QED BY <1>9, <1>10, Zenon DEF h

-----------------------------------------------------------------------------
(* The parts of a sound table *)
LEMMA SoundType ==
  ASSUME NEW n, NEW b, Sound(b, n)
  PROVE  /\ n \in Nat /\ n # 0
         /\ b \in [0 .. n - 1 -> bucket]
         /\ DOMAIN b = 0 .. n - 1
         /\ Cardinality(DOMAIN b) = n
         /\ \A i \in 0 .. n - 1 : /\ b[i] \in bucket
                                  /\ b[i].dib \in Nat
                                  /\ b[i].hash \in Nat
<1>1. n \in Nat /\ n # 0 /\ b \in [0 .. n - 1 -> bucket]
  BY DEF Sound
<1>2. DOMAIN b = 0 .. n - 1 /\ \A i \in 0 .. n - 1 : b[i] \in bucket
  BY <1>1
<1>3. Cardinality(DOMAIN b) = n
  BY <1>1, <1>2, SizeOf
<1> QED BY <1>1, <1>2, <1>3 DEF bucket

(***************************************************************************)
(* An entry that is further from its home than what is in its bucket may   *)
(* be put there: the table stays sound, whether the bucket was empty or    *)
(* its entry is taken out to be carried on.                                *)
(***************************************************************************)
Suits(e, i, b, n) ==
  /\ e \in bucket /\ e.item \in Items /\ e.dib \in 1 .. n
  /\ Fits(e, i, n)
  /\ e.dib > 1 => b[Before(i, n)].dib >= e.dib - 1
  /\ e.hash \notin Hashes(b)

Pair(e) == <<e.hash, e.item>>

LEMMA PutSound ==
  ASSUME NEW n, NEW b, Sound(b, n), NEW i \in 0 .. n - 1, NEW e, Suits(e, i, b, n),
         b[i].dib < e.dib
  PROVE  Sound([b EXCEPT ![i] = e], n)
<1> DEFINE c == [b EXCEPT ![i] = e]
<1>1. /\ n \in Nat /\ n # 0 /\ b \in [0 .. n - 1 -> bucket]
      /\ \A j \in 0 .. n - 1 : b[j].dib \in Nat
      /\ DOMAIN b = 0 .. n - 1
  BY SoundType
<1>2. e \in bucket /\ e.dib \in 1 .. n /\ e.dib # 0 /\ e.item \in Items
  BY DEF Suits
<1>3. /\ c \in [0 .. n - 1 -> bucket]
      /\ \A j \in 0 .. n - 1 : c[j] = IF j = i THEN e ELSE b[j]
  BY <1>1, <1>2
<1> HIDE DEF c
<1>4. Filled(c, n)
  <2> SUFFICES ASSUME NEW j \in 0 .. n - 1
               PROVE  IF c[j].dib = 0 THEN c[j] = EMPTY
                      ELSE c[j].item \in Items /\ c[j].dib <= n /\ Fits(c[j], j, n)
    BY DEF Filled
  <2>1. CASE j = i
    BY <1>2, <1>3, <2>1 DEF Suits
  <2>2. CASE j # i
    BY <1>3, <2>2 DEF Sound, Filled
  <2> QED BY <2>1, <2>2
<1>5. Ordered(c, n)
  <2> SUFFICES ASSUME NEW j \in 0 .. n - 1, c[j].dib > 1
               PROVE  c[Before(j, n)].dib >= c[j].dib - 1
    BY DEF Ordered
  <2>1. Before(j, n) \in 0 .. n - 1
    BY <1>1, Neighbours
  <2>2. CASE j = i
    <3>1. n > 1 /\ Before(i, n) # i
      BY <1>1, <1>2, <1>3, <2>2 DEF Before
    <3>2. b[Before(i, n)].dib >= e.dib - 1
      BY <1>3, <2>2 DEF Suits
    <3> QED BY <1>3, <2>1, <2>2, <3>1, <3>2
  <2>3. CASE j # i
    <3>1. b[Before(j, n)].dib >= b[j].dib - 1
      BY <1>3, <2>3 DEF Sound, Ordered
    <3>2. CASE Before(j, n) = i
      BY <1>1, <1>2, <1>3, <2>3, <3>1, <3>2
    <3>3. CASE Before(j, n) # i
      BY <1>3, <2>1, <2>3, <3>1, <3>3
    <3> QED BY <3>2, <3>3
  <2> QED BY <2>2, <2>3
<1>6. Distinct(c, n)
  <2> SUFFICES ASSUME NEW j \in 0 .. n - 1, NEW k \in 0 .. n - 1,
                      c[j].dib # 0, c[k].dib # 0, c[j].hash = c[k].hash
               PROVE  j = k
    BY DEF Distinct
  <2>1. \A m \in 0 .. n - 1 : b[m].dib # 0 => b[m].hash # e.hash
    BY <1>1 DEF Suits, Hashes, Occupied
  <2>2. CASE j # i /\ k # i
    BY <1>3, <2>2 DEF Sound, Distinct
  <2>3. CASE j = i \/ k = i
    BY <1>3, <2>1, <2>3
  <2> QED BY <2>2, <2>3
<1> QED BY <1>1, <1>3, <1>4, <1>5, <1>6 DEF Sound, c

LEMMA PutEmpty ==
  ASSUME NEW n, NEW b, Sound(b, n), NEW i \in 0 .. n - 1, NEW e, Suits(e, i, b, n),
         b[i].dib = 0
  PROVE  /\ Occupied([b EXCEPT ![i] = e]) = Occupied(b) \cup {i}
         /\ Pairs([b EXCEPT ![i] = e]) = Pairs(b) \cup {Pair(e)}
<1> DEFINE c == [b EXCEPT ![i] = e]
<1>1. DOMAIN b = 0 .. n - 1
  BY SoundType
<1>2. e.dib # 0
  BY DEF Suits
<1>3. DOMAIN c = 0 .. n - 1 /\ \A j \in 0 .. n - 1 : c[j] = IF j = i THEN e ELSE b[j]
  BY <1>1
<1> HIDE DEF c
<1>4. Occupied(c) = Occupied(b) \cup {i}
  BY <1>1, <1>2, <1>3 DEF Occupied
<1>5. i \notin Occupied(b)
  BY DEF Occupied
<1>6. \A j \in Occupied(b) : Pair(c[j]) = Pair(b[j])
  BY <1>1, <1>3, <1>5 DEF Occupied
<1>7. Pair(c[i]) = Pair(e)
  BY <1>3
<1>8. Pairs(c) = Pairs(b) \cup {Pair(e)}
  <2>1. Pairs(c) = {Pair(c[j]) : j \in Occupied(c)} /\ Pairs(b) = {Pair(b[j]) : j \in Occupied(b)}
    BY DEF Pairs, Pair
  <2> QED BY <1>4, <1>6, <1>7, <2>1
<1> QED BY <1>4, <1>8 DEF c

LEMMA PutSwap ==
  ASSUME NEW n, NEW b, Sound(b, n), NEW i \in 0 .. n - 1, NEW e, Suits(e, i, b, n),
         b[i].dib # 0
  PROVE  /\ Occupied([b EXCEPT ![i] = e]) = Occupied(b)
         /\ Pairs([b EXCEPT ![i] = e]) \cup {Pair(b[i])} = Pairs(b) \cup {Pair(e)}
         /\ b[i].hash \notin Hashes([b EXCEPT ![i] = e])
<1> DEFINE c == [b EXCEPT ![i] = e]
<1>1. DOMAIN b = 0 .. n - 1
  BY SoundType
<1>2. e.dib # 0
  BY DEF Suits
<1>3. DOMAIN c = 0 .. n - 1 /\ \A j \in 0 .. n - 1 : c[j] = IF j = i THEN e ELSE b[j]
  BY <1>1
<1> HIDE DEF c
<1>4. Occupied(c) = Occupied(b)
  BY <1>1, <1>2, <1>3 DEF Occupied
<1>5. i \in Occupied(b)
  BY <1>1 DEF Occupied
<1>6. \A j \in Occupied(b) \ {i} : Pair(c[j]) = Pair(b[j])
  BY <1>1, <1>3, <1>5 DEF Occupied
<1>7. Pair(c[i]) = Pair(e)
  BY <1>3
<1>8. Pairs(c) \cup {Pair(b[i])} = Pairs(b) \cup {Pair(e)}
  <2>1. Pairs(c) = {Pair(c[j]) : j \in Occupied(c)} /\ Pairs(b) = {Pair(b[j]) : j \in Occupied(b)}
    BY DEF Pairs, Pair
  <2> QED BY <1>4, <1>5, <1>6, <1>7, <2>1
<1>9. b[i].hash \notin Hashes(c)
  <2> SUFFICES ASSUME NEW j \in Occupied(c), c[j].hash = b[i].hash PROVE FALSE
    BY DEF Hashes
  <2>1. CASE j = i
    <3>1. e.hash = b[i].hash
      BY <1>3, <2>1
    <3> QED BY <1>5, <3>1 DEF Suits, Hashes
  <2>2. CASE j # i
    <3>1. j \in 0 .. n - 1 /\ b[j].dib # 0 /\ b[j].hash = b[i].hash
      BY <1>1, <1>3, <1>4, <2>2 DEF Occupied
    <3> QED BY <2>2, <3>1 DEF Sound, Distinct
  <2> QED BY <2>1, <2>2
<1> QED BY <1>4, <1>8, <1>9 DEF c

-----------------------------------------------------------------------------
(***************************************************************************)
(* Storing an entry whose hash is not in the table b, of n buckets.  Until *)
(* it ends the loop has passed entries only, and the table and the entry   *)
(* it carries make up what there was and what is stored.                   *)
(***************************************************************************)
Passed(k, b, n, hash) == \A j \in 0 .. k - 1 : (hash + j) % n \in Occupied(b)

Going(s, k, b, n, hash, item) ==
  /\ s \in state(n) /\ s.stored = FALSE /\ s.replaced = NULL
  /\ Sound(s.table, n)
  /\ Suits(s.entry, s.i, s.table, n) /\ s.entry.dib <= k + 1
  /\ s.i = (hash + k) % n
  /\ Passed(k, b, n, hash)
  /\ Occupied(s.table) = Occupied(b)
  /\ Pairs(s.table) \cup {Pair(s.entry)} = Pairs(b) \cup {<<hash, item>>}

Ended(s, b, n, hash, item) ==
  /\ s.stored = TRUE /\ s.replaced = NULL
  /\ Sound(s.table, n)
  /\ \E p \in 0 .. n - 1 : /\ p \notin Occupied(b)
                           /\ Occupied(s.table) = Occupied(b) \cup {p}
  /\ Pairs(s.table) = Pairs(b) \cup {<<hash, item>>}

(* What a turn has before it *)
LEMMA Turning ==
  ASSUME NEW n, NEW b, NEW hash \in Nat, NEW item, NEW k \in Nat,
         NEW s, Going(s, k, b, n, hash, item)
  PROVE  /\ n \in Nat /\ n # 0
         /\ s.i \in 0 .. n - 1 /\ s.i \in Nat
         /\ s.table[s.i] \in bucket /\ s.entry \in bucket
         /\ s.table[s.i].dib \in Nat /\ s.entry.dib \in 1 .. n
         /\ s.table[s.i].dib # 0 => s.entry.hash # s.table[s.i].hash
<1>1. n \in Nat /\ n # 0 /\ DOMAIN s.table = 0 .. n - 1
  BY SoundType DEF Going
<1>2. s \in state(n) /\ s.entry.dib \in 1 .. n
  BY DEF Going, Suits
<1>3. s.i \in 0 .. n - 1 /\ s.table[s.i] \in bucket /\ s.entry \in bucket
  BY <1>2 DEF state
<1>4. s.table[s.i].dib \in Nat
  BY <1>3 DEF bucket
<1>5. s.entry.hash \notin Hashes(s.table)
  BY DEF Going, Suits
<1>6. s.table[s.i].dib # 0 => s.entry.hash # s.table[s.i].hash
  BY <1>1, <1>3, <1>5 DEF Hashes, Occupied
<1> QED BY <1>1, <1>2, <1>3, <1>4, <1>6

(* An empty bucket ends the loop. *)
LEMMA TurnEmpty ==
  ASSUME NEW n, NEW b, NEW hash \in Nat, NEW item, NEW k \in Nat, NEW loop,
         NEW s, Going(s, k, b, n, hash, item), s.table[s.i].dib = 0
  PROVE  Ended(Advance(s, loop), b, n, hash, item)
<1> DEFINE a == Advance(s, loop)
           c == [s.table EXCEPT ![s.i] = s.entry]
<1>0. s \in state(n) /\ s.stored = FALSE /\ s.replaced = NULL
  BY DEF Going
<1>1. /\ n \in Nat /\ n # 0
      /\ s.i \in 0 .. n - 1 /\ s.entry.dib \in 1 .. n
  BY Turning, Zenon
<1>2. a.table = c /\ a.stored = TRUE /\ a.replaced = NULL
  <2>1. a = [table |-> c, i |-> s.i, stored |-> TRUE, entry |-> s.entry,
             replaced |-> s.replaced]
    BY <1>0, <1>1, AdvanceEmpty, Zenon
  <2> HIDE DEF a, c
  <2> QED BY <1>0, <2>1
<1>3. Sound(s.table, n) /\ Suits(s.entry, s.i, s.table, n)
      /\ Occupied(s.table) = Occupied(b)
      /\ Pairs(s.table) \cup {Pair(s.entry)} = Pairs(b) \cup {<<hash, item>>}
  BY DEF Going
<1>4. Sound(c, n)
  BY <1>1, <1>3, PutSound
<1>5. Occupied(c) = Occupied(b) \cup {s.i}
      /\ Pairs(c) = Pairs(b) \cup {<<hash, item>>}
  BY <1>1, <1>3, PutEmpty
<1>6. s.i \notin Occupied(b)
  BY <1>3 DEF Occupied
<1> HIDE DEF a, c
<1>7. Ended(a, b, n, hash, item)
  BY <1>1, <1>2, <1>4, <1>5, <1>6 DEF Ended
<1> QED BY <1>7 DEF a

(* The next bucket *)
LEMMA NextBucket ==
  ASSUME NEW n, NEW b, NEW hash \in Nat, NEW item, NEW k \in Nat,
         NEW s, Going(s, k, b, n, hash, item), s.table[s.i].dib # 0
  PROVE  /\ (s.i + 1) % n = After(s.i, n)
         /\ After(s.i, n) = (hash + (k + 1)) % n
         /\ After(s.i, n) \in 0 .. n - 1 /\ Before(After(s.i, n), n) = s.i
         /\ Passed(k + 1, b, n, hash)
<1>1. n \in Nat /\ n # 0 /\ s.i \in 0 .. n - 1 /\ s.i \in Nat
  BY Turning, Zenon
<1>2. s.i % n = s.i
  BY <1>1, ModSmall
<1>3. (s.i + 1) % n = After(s.i, n)
  BY <1>1, <1>2, ModNext
<1>4. hash + k \in Nat /\ (hash + k) + 1 = hash + (k + 1)
  OBVIOUS
<1>5. (hash + k) % n = s.i
  BY DEF Going
<1>6. (hash + (k + 1)) % n = After(s.i, n)
  BY <1>1, <1>4, <1>5, ModNext
<1>7. s.i \in Occupied(b)
  <2>1. DOMAIN s.table = 0 .. n - 1 /\ Occupied(s.table) = Occupied(b)
    BY SoundType DEF Going
  <2> QED BY <1>1, <2>1 DEF Occupied
<1>8. ASSUME NEW j \in 0 .. (k + 1) - 1 PROVE (hash + j) % n \in Occupied(b)
  <2>1. CASE j = k
    BY <1>5, <1>7, <2>1
  <2>2. CASE j # k
    <3>1. j \in 0 .. k - 1
      BY <2>2
    <3> QED BY <3>1 DEF Going, Passed
  <2> QED BY <2>1, <2>2
<1>9. After(s.i, n) \in 0 .. n - 1 /\ Before(After(s.i, n), n) = s.i
  BY <1>1, Neighbours
<1> QED BY <1>3, <1>6, <1>8, <1>9 DEF Passed

(* An entry one step further *)
LEMMA Stepped ==
  ASSUME NEW n \in Nat, n # 0, NEW i \in 0 .. n - 1, NEW e \in bucket, e.dib # 0,
         Fits(e, i, n)
  PROVE  LET f == [e EXCEPT !.dib = @ + 1]
         IN  /\ f \in bucket /\ f.dib = e.dib + 1 /\ f.hash = e.hash
             /\ f.item = e.item /\ Pair(f) = Pair(e)
             /\ Fits(f, After(i, n), n)
<1> DEFINE f == [e EXCEPT !.dib = @ + 1]
<1>1. e.hash \in Nat /\ e.dib \in Nat /\ e.dib - 1 \in Nat
  BY DEF bucket
<1>2. f \in bucket /\ f.dib = e.dib + 1 /\ f.hash = e.hash /\ f.item = e.item
  BY <1>1 DEF bucket
<1> HIDE DEF f
<1>3. (e.hash + (e.dib - 1)) % n = i
  BY DEF Fits
<1>4. e.hash + (e.dib - 1) \in Nat
      /\ (e.hash + (e.dib - 1)) + 1 = e.hash + ((e.dib + 1) - 1)
  BY <1>1
<1>5. (e.hash + ((e.dib + 1) - 1)) % n = After(i, n)
  BY <1>3, <1>4, ModNext
<1>6. Fits(f, After(i, n), n)
  BY <1>2, <1>5 DEF Fits
<1>7. Pair(f) = Pair(e)
  BY <1>2 DEF Pair
<1> QED BY <1>2, <1>6, <1>7 DEF f

(* A bucket as far from its home is passed, *)
LEMMA TurnPast ==
  ASSUME NEW n, NEW b, NEW hash \in Nat, NEW item, NEW k \in Nat, k + 1 < n,
         NEW loop, NEW s, Going(s, k, b, n, hash, item),
         s.table[s.i].dib # 0, s.table[s.i].dib >= s.entry.dib
  PROVE  Going(Advance(s, loop), k + 1, b, n, hash, item)
<1> DEFINE a == Advance(s, loop)
           f == [s.entry EXCEPT !.dib = @ + 1]
           x == After(s.i, n)
<1>0. s \in state(n) /\ s.stored = FALSE /\ s.replaced = NULL
  BY DEF Going
<1>1. /\ n \in Nat /\ n # 0
      /\ s.i \in 0 .. n - 1 /\ s.entry.dib \in 1 .. n /\ s.entry \in bucket
      /\ s.table[s.i].dib \in Nat
      /\ s.table[s.i].dib # 0 => s.entry.hash # s.table[s.i].hash
  BY Turning, Zenon
<1>2. /\ (s.i + 1) % n = x /\ x = (hash + (k + 1)) % n
      /\ x \in 0 .. n - 1 /\ Before(x, n) = s.i
      /\ Passed(k + 1, b, n, hash)
  BY NextBucket, SMT
<1>3. /\ Sound(s.table, n) /\ Suits(s.entry, s.i, s.table, n)
      /\ s.entry.dib <= k + 1 /\ Occupied(s.table) = Occupied(b)
      /\ Pairs(s.table) \cup {Pair(s.entry)} = Pairs(b) \cup {<<hash, item>>}
  BY DEF Going
<1>4. /\ f \in bucket /\ f.dib = s.entry.dib + 1 /\ f.hash = s.entry.hash
      /\ f.item = s.entry.item /\ Pair(f) = Pair(s.entry) /\ Fits(f, x, n)
  <2>1. Fits(s.entry, s.i, n) /\ s.entry.dib # 0
    BY <1>1, <1>3 DEF Suits
  <2> QED BY <1>1, <2>1, Stepped
<1>5. a = [table |-> s.table, i |-> x, stored |-> FALSE, entry |-> f, replaced |-> NULL]
  BY <1>0, <1>1, <1>2, AdvancePast
<1> HIDE DEF a, f, x
<1>6. a.table = s.table /\ a.i = x /\ a.stored = FALSE /\ a.entry = f /\ a.replaced = NULL
  BY <1>5
<1>7. a \in state(n)
  BY <1>0, <1>2, <1>4, <1>5 DEF state
<1>8. Suits(f, x, s.table, n) /\ f.dib <= (k + 1) + 1
  <2>1. f.dib \in 1 .. n /\ f.dib <= (k + 1) + 1
    BY <1>1, <1>3, <1>4
  <2>2. s.table[s.i].dib >= f.dib - 1
    BY <1>1, <1>4
  <2>3. f.item \in Items /\ f.hash \notin Hashes(s.table)
    BY <1>3, <1>4 DEF Suits
  <2> QED BY <1>2, <1>4, <2>1, <2>2, <2>3 DEF Suits
<1>9. Going(a, k + 1, b, n, hash, item)
  BY <1>2, <1>3, <1>4, <1>6, <1>7, <1>8 DEF Going
<1> QED BY <1>9 DEF a

(* and one nearer gives way. *)
LEMMA TurnSwap ==
  ASSUME NEW n, NEW b, NEW hash \in Nat, NEW item, NEW k \in Nat, k + 1 < n,
         NEW loop, NEW s, Going(s, k, b, n, hash, item),
         s.table[s.i].dib # 0, s.table[s.i].dib < s.entry.dib
  PROVE  Going(Advance(s, loop), k + 1, b, n, hash, item)
<1> DEFINE a == Advance(s, loop)
           e == s.table[s.i]
           c == [s.table EXCEPT ![s.i] = s.entry]
           f == [e EXCEPT !.dib = @ + 1]
           x == After(s.i, n)
<1>0. s \in state(n) /\ s.stored = FALSE /\ s.replaced = NULL
  BY DEF Going
<1>1. /\ n \in Nat /\ n # 0
      /\ s.i \in 0 .. n - 1 /\ s.entry.dib \in 1 .. n
      /\ e \in bucket /\ e.dib \in Nat
      /\ e.dib # 0 => s.entry.hash # e.hash
  BY Turning, Zenon
<1>2. /\ (s.i + 1) % n = x /\ x = (hash + (k + 1)) % n
      /\ x \in 0 .. n - 1 /\ Before(x, n) = s.i
      /\ Passed(k + 1, b, n, hash)
  BY NextBucket, SMT
<1>3. /\ Sound(s.table, n) /\ Suits(s.entry, s.i, s.table, n)
      /\ s.entry.dib <= k + 1 /\ Occupied(s.table) = Occupied(b)
      /\ Pairs(s.table) \cup {Pair(s.entry)} = Pairs(b) \cup {<<hash, item>>}
  BY DEF Going
<1>4. /\ f \in bucket /\ f.dib = e.dib + 1 /\ f.hash = e.hash
      /\ f.item = e.item /\ Pair(f) = Pair(e) /\ Fits(f, x, n)
  <2>1. Fits(e, s.i, n)
    BY <1>1, <1>3 DEF Sound, Filled
  <2> QED BY <1>1, <2>1, Stepped
<1>5. e.item \in Items
  BY <1>1, <1>3 DEF Sound, Filled
<1>6. a = [table |-> c, i |-> x, stored |-> FALSE, entry |-> f, replaced |-> NULL]
  BY <1>0, <1>1, <1>2, AdvanceSwap
<1>7. Sound(c, n)
  BY <1>1, <1>3, PutSound
<1>8. /\ Occupied(c) = Occupied(b)
      /\ Pairs(c) \cup {Pair(e)} = Pairs(b) \cup {<<hash, item>>}
      /\ e.hash \notin Hashes(c)
  BY <1>1, <1>3, PutSwap
<1>9. c[s.i] = s.entry /\ c \in [0 .. n - 1 -> bucket]
  <2>1. s.table \in [0 .. n - 1 -> bucket] /\ s.entry \in bucket
    BY <1>3 DEF Sound, Suits
  <2> QED BY <1>1, <2>1
<1> HIDE DEF a, c, e, f, x
<1>10. a.table = c /\ a.i = x /\ a.stored = FALSE /\ a.entry = f /\ a.replaced = NULL
  BY <1>6
<1>11. a \in state(n)
  BY <1>0, <1>2, <1>4, <1>6, <1>9 DEF state
<1>12. Suits(f, x, c, n) /\ f.dib <= (k + 1) + 1
  <2>1. f.dib \in 1 .. n /\ f.dib <= (k + 1) + 1
    BY <1>1, <1>3, <1>4 DEF e
  <2>2. c[s.i].dib >= f.dib - 1
    BY <1>1, <1>4, <1>9 DEF e
  <2> QED BY <1>2, <1>4, <1>5, <1>8, <2>1, <2>2 DEF Suits
<1>13. Going(a, k + 1, b, n, hash, item)
  BY <1>2, <1>4, <1>7, <1>8, <1>10, <1>11, <1>12 DEF Going
<1> QED BY <1>13 DEF a

(* Where the loop begins *)
LEMMA TurnFirst ==
  ASSUME NEW n, NEW b, Sound(b, n), NEW hash \in Nat, hash \notin Hashes(b),
         NEW item \in Items
  PROVE  Going(Begin(b, hash, item), 0, b, n, hash, item)
<1> DEFINE e == [hash |-> hash, dib |-> 1, item |-> item]
           s == Begin(b, hash, item)
           i == hash % n
<1>1. /\ n \in Nat /\ n # 0 /\ b \in [0 .. n - 1 -> bucket]
      /\ Cardinality(DOMAIN b) = n
  BY SoundType
<1>2. /\ s = [table |-> b, i |-> i, stored |-> FALSE, entry |-> e, replaced |-> NULL]
      /\ s.table = b /\ s.i = i /\ s.stored = FALSE /\ s.entry = e /\ s.replaced = NULL
  BY <1>1 DEF Begin
<1>3. i \in 0 .. n - 1 /\ hash + 0 = hash /\ hash + (1 - 1) = hash
  BY <1>1, DivMod
<1>4. e \in bucket /\ e.hash = hash /\ e.dib = 1 /\ e.item = item
  BY DEF bucket
<1>5. e.dib \in 1 .. n /\ ~(e.dib > 1) /\ e.dib <= 0 + 1
  BY <1>1, <1>4
<1> HIDE DEF s, i, e
<1>6. s \in state(n)
  BY <1>1, <1>2, <1>3, <1>4 DEF state
<1>7. Fits(e, i, n)
  BY <1>3, <1>4 DEF Fits, i
<1>8. Suits(e, i, b, n)
  BY <1>4, <1>5, <1>7 DEF Suits
<1>9. Passed(0, b, n, hash) /\ i = (hash + 0) % n
  BY <1>3 DEF Passed, i
<1>10. Pair(e) = <<hash, item>>
  BY <1>4 DEF Pair
<1>11. Going(s, 0, b, n, hash, item)
  BY <1>2, <1>5, <1>6, <1>8, <1>9, <1>10 DEF Going
<1> QED BY <1>11 DEF s

(* A loop that has passed entries only has not seen the whole table. *)
LEMMA TurnsLeft ==
  ASSUME NEW n \in Nat, n # 0, NEW b, NEW p \in 0 .. n - 1, p \notin Occupied(b),
         NEW hash \in Nat, NEW k \in 0 .. n, Passed(k, b, n, hash)
  PROVE  k < n
<1>1. PICK j \in 0 .. n - 1 : (hash + j) % n = p
  BY ProbeMeets
<1>2. j \notin 0 .. k - 1
  BY <1>1 DEF Passed
<1> QED BY <1>1, <1>2

(* The loop ends, within a turn for each bucket, with the entry stored. *)
LEMMA StoreNew ==
  ASSUME NEW n, NEW b, Sound(b, n), NEW p \in 0 .. n - 1, p \notin Occupied(b),
         NEW hash \in Nat, hash \notin Hashes(b), NEW item \in Items, NEW loop
  PROVE  Ended(Store(b, hash, item, loop), b, n, hash, item)
<1> DEFINE t == Turns(b, hash, item, loop)
           go(k) == Going(t[k], k, b, n, hash, item)
           end(k) == Ended(t[k], b, n, hash, item)
           S == {k \in Nat : k <= n => (k < n /\ go(k)) \/ end(k)}
<1>1. n \in Nat /\ n # 0 /\ DOMAIN b = 0 .. n - 1 /\ Cardinality(DOMAIN b) = n
  BY SoundType
<1>2. t[0] = Begin(b, hash, item)
  BY <1>1, FirstTurn
<1>3. \A k \in 0 .. n - 1 : t[k + 1] = Advance(t[k], loop)
  <2>1. ASSUME NEW k \in 0 .. n - 1 PROVE t[k + 1] = Advance(t[k], loop)
    BY <1>1, NextTurn
  <2> QED BY <2>1
<1>4. Store(b, hash, item, loop) = t[n]
  BY <1>1 DEF Store
<1> HIDE DEF t
<1>5. 0 \in S
  <2>1. go(0)
    BY <1>2, TurnFirst
  <2> HIDE DEF go
  <2> QED BY <1>1, <2>1
<1>6. ASSUME NEW k \in Nat, k \in S PROVE k + 1 \in S
  <2> SUFFICES ASSUME k + 1 <= n
               PROVE  (k + 1 < n /\ go(k + 1)) \/ end(k + 1)
    OBVIOUS
  <2>1. k \in 0 .. n - 1 /\ k <= n /\ k + 1 \in 0 .. n
    BY <1>1
  <2>2. t[k + 1] = Advance(t[k], loop)
    BY <1>3, <2>1
  <2>3. go(k) \/ end(k)
    <3> HIDE DEF go, end
    <3> QED BY <1>6, <2>1
  <2>4. CASE end(k)
    <3>1. Advance(t[k], loop) = t[k]
      BY <2>4, AdvanceStored DEF Ended
    <3> QED BY <2>2, <2>4, <3>1
  <2>5. CASE go(k)
    <3> DEFINE here == t[k].table[t[k].i]
    <3>1. here.dib \in Nat /\ t[k].entry.dib \in 1 .. n
      BY <2>5, Turning, SMT
    <3>2. CASE here.dib = 0
      BY <2>2, <2>5, <3>2, TurnEmpty
    <3>3. CASE here.dib # 0
      <4>1. Passed(k + 1, b, n, hash)
        BY <2>5, <3>3, NextBucket, SMT
      <4>2. k + 1 < n
        BY <1>1, <2>1, <4>1, TurnsLeft
      <4>3. go(k + 1)
        <5>1. CASE here.dib >= t[k].entry.dib
          BY <2>2, <2>5, <3>3, <4>2, <5>1, TurnPast
        <5>2. CASE here.dib < t[k].entry.dib
          BY <2>2, <2>5, <3>3, <4>2, <5>2, TurnSwap
        <5> QED BY <3>1, <5>1, <5>2
      <4> QED BY <4>2, <4>3
    <3> QED BY <3>2, <3>3
  <2> QED BY <2>3, <2>4, <2>5
<1>7. n \in S
  <2> HIDE DEF S
  <2> QED BY <1>1, <1>5, <1>6, SetInduction
<1>8. end(n)
  <2> HIDE DEF go, end
  <2> QED BY <1>1, <1>7
<1> QED BY <1>4, <1>8

-----------------------------------------------------------------------------
(* The sizes a table may have: MIN_CAP doubled k times *)
LEMMA doublingDef ==
  doubling = [k \in Nat |-> IF k = 0 THEN MIN_CAP ELSE 2 * doubling[k - 1]]
<1> DEFINE Def(f, m) == f = [k \in 0 .. m |-> IF k = 0 THEN MIN_CAP ELSE 2 * f[k - 1]]
           All(f) == f = [k \in Nat |-> IF k = 0 THEN MIN_CAP ELSE 2 * f[k - 1]]
           S == {m \in Nat : \E f : Def(f, m)}
           part == [m \in Nat |-> CHOOSE f : Def(f, m)]
           all == [m \in Nat |-> part[m][m]]
<1>1. \A m \in Nat : Def(part[m], m)
  <2>1. 0 \in S
    <3>1. Def([k \in 0 .. 0 |-> MIN_CAP], 0)
      OBVIOUS
    <3> HIDE DEF Def
    <3> QED BY <3>1
  <2>2. ASSUME NEW m \in Nat, m \in S PROVE m + 1 \in S
    <3>1. PICK f : Def(f, m)
      BY <2>2
    <3> DEFINE g == [k \in 0 .. m + 1 |-> IF k = m + 1 THEN 2 * f[m] ELSE f[k]]
    <3>2. Def(g, m + 1)
      BY <3>1
    <3> HIDE DEF Def, g
    <3> QED BY <3>2
  <2>3. \A m \in Nat : m \in S
    <3> HIDE DEF S
    <3> QED BY <2>1, <2>2, SetInduction
  <2> HIDE DEF Def
  <2> QED BY <2>3
<1> HIDE DEF part
<1>2. \A m, k \in Nat : k <= m => part[m][k] = part[k][k]
  <2> DEFINE T == {k \in Nat : \A m, j \in Nat : k <= m /\ k <= j => part[m][k] = part[j][k]}
  <2>0. ASSUME NEW m \in Nat
        PROVE  /\ part[m][0] = MIN_CAP
               /\ \A k \in 0 .. m : k # 0 => part[m][k] = 2 * part[m][k - 1]
    <3> DEFINE f == part[m]
    <3>1. f = [k \in 0 .. m |-> IF k = 0 THEN MIN_CAP ELSE 2 * f[k - 1]]
      BY <1>1
    <3> HIDE DEF f
    <3>2. f[0] = MIN_CAP /\ \A k \in 0 .. m : k # 0 => f[k] = 2 * f[k - 1]
      BY <3>1
    <3> QED BY <3>2 DEF f
  <2>1. 0 \in T
    BY <2>0
  <2>2. ASSUME NEW k \in Nat, k \in T PROVE k + 1 \in T
    <3>1. ASSUME NEW m \in Nat, k + 1 <= m PROVE part[m][k + 1] = 2 * part[m][k]
      <4>1. k + 1 \in 0 .. m /\ k + 1 # 0 /\ (k + 1) - 1 = k
        BY <3>1
      <4>2. part[m][k + 1] = 2 * part[m][(k + 1) - 1]
        BY <2>0, <4>1, Zenon
      <4> QED BY <4>1, <4>2
    <3>2. \A m, j \in Nat : k + 1 <= m /\ k + 1 <= j => part[m][k] = part[j][k]
      BY <2>2
    <3> QED BY <3>1, <3>2
  <2>3. \A k \in Nat : k \in T
    <3> HIDE DEF T
    <3> QED BY <2>1, <2>2, SetInduction
  <2> QED BY <2>3
<1>3. All(all)
  <2>1. all[0] = MIN_CAP
    <3> DEFINE f == part[0]
    <3>1. f = [k \in 0 .. 0 |-> IF k = 0 THEN MIN_CAP ELSE 2 * f[k - 1]]
      BY <1>1
    <3> HIDE DEF f
    <3>2. f[0] = MIN_CAP
      BY <3>1
    <3> QED BY <3>2 DEF f
  <2>2. ASSUME NEW k \in Nat, k # 0 PROVE all[k] = 2 * all[k - 1]
    <3>1. part[k] = [j \in 0 .. k |-> IF j = 0 THEN MIN_CAP ELSE 2 * part[k][j - 1]]
      BY <1>1
    <3>2. part[k][k] = 2 * part[k][k - 1]
      BY <2>2, <3>1
    <3>3. k - 1 \in Nat /\ k - 1 <= k
      BY <2>2
    <3>4. part[k][k - 1] = part[k - 1][k - 1]
      BY <1>2, <3>3
    <3> QED BY <3>2, <3>3, <3>4
  <2> QED BY <2>1, <2>2
<1>4. All(doubling)
  <2>1. doubling = CHOOSE f : All(f)
    BY DEF doubling
  <2> HIDE DEF All, all
  <2> QED BY <1>3, <2>1
<1> QED BY <1>4

LEMMA Doubles ==
  /\ doubling[0] = MIN_CAP
  /\ \A k \in Nat : doubling[k + 1] = 2 * doubling[k]
  BY doublingDef

LEMMA DoublingLarge ==
  \A k \in Nat : doubling[k] \in Nat /\ doubling[k] >= k + 1 /\ doubling[k] >= MIN_CAP
<1> DEFINE S == {k \in Nat : /\ doubling[k] \in Nat
                             /\ doubling[k] >= k + 1 /\ doubling[k] >= MIN_CAP}
<1>1. 0 \in S
  BY Doubles, HashMapAssumption
<1>2. ASSUME NEW k \in Nat, k \in S PROVE k + 1 \in S
  <2>1. doubling[k + 1] = 2 * doubling[k]
    BY Doubles
  <2>2. MIN_CAP \in Nat
    BY HashMapAssumption
  <2> QED BY <1>2, <2>1, <2>2
<1>3. \A k \in Nat : k \in S
  <2> HIDE DEF S
  <2> QED BY <1>1, <1>2, SetInduction
<1> QED BY <1>3

Sizes == {doubling[k] : k \in Nat}

LEMMA SizeLarge ==
  ASSUME NEW n \in Sizes
  PROVE  n \in Nat /\ n # 0 /\ n >= MIN_CAP /\ MIN_CAP \in Nat
<1>1. PICK k \in Nat : n = doubling[k]
  BY DEF Sizes
<1> QED BY <1>1, DoublingLarge, HashMapAssumption

(* A capacity is rounded up to a size, *)
LEMMA RoundedUp ==
  ASSUME NEW c \in Nat
  PROVE  Rounded(c) \in Sizes /\ Rounded(c) >= c
<1> DEFINE T == {n \in {doubling[k] : k \in 0 .. c} : n >= c}
<1>1. doubling[c] \in T
  BY DoublingLarge
<1>2. T \in SUBSET Nat
  BY DoublingLarge
<1>3. Min(T) \in T
  <2> HIDE DEF T
  <2> QED BY <1>1, <1>2, MinLeast
<1> QED BY <1>3 DEF Rounded, Sizes

(* and a size to itself. *)
LEMMA RoundedSize ==
  ASSUME NEW n \in Sizes
  PROVE  Rounded(n) = n
<1> DEFINE T == {m \in {doubling[k] : k \in 0 .. n} : m >= n}
<1>1. PICK k \in Nat : n = doubling[k]
  BY DEF Sizes
<1>2. n \in Nat /\ k \in 0 .. n
  BY <1>1, DoublingLarge
<1>3. n \in T
  BY <1>1, <1>2
<1>4. T \in SUBSET Nat /\ \A m \in T : m >= n
  BY DoublingLarge
<1>5. Min(T) \in T /\ \A m \in T : Min(T) <= m
  <2> HIDE DEF T
  <2> QED BY <1>3, <1>4, MinLeast
<1>6. Min(T) \in Nat /\ Min(T) = n
  <2> DEFINE m == Min(T)
  <2>1. m \in Nat /\ m >= n /\ m <= n
    <3>1. m \in T /\ m <= n
      BY <1>3, <1>5
    <3> HIDE DEF T, m
    <3> QED BY <1>4, <3>1
  <2> HIDE DEF m
  <2>2. m = n
    BY <1>2, <2>1
  <2> QED BY <2>1, <2>2 DEF m
<1> QED BY <1>6 DEF Rounded

(* Sizes may be doubled, and halved down to the least. *)
LEMMA SizeTwice ==
  ASSUME NEW n \in Sizes
  PROVE  n * 2 \in Sizes
<1>1. PICK k \in Nat : n = doubling[k]
  BY DEF Sizes
<1>2. doubling[k + 1] = n * 2 /\ k + 1 \in Nat
  BY <1>1, Doubles, DoublingLarge
<1> QED BY <1>2 DEF Sizes

LEMMA SizeHalf ==
  ASSUME NEW n \in Sizes, NEW c \in Sizes, c < n
  PROVE  n \div 2 \in Sizes /\ n = 2 * (n \div 2)
<1>1. PICK k \in Nat : n = doubling[k]
  BY DEF Sizes
<1>2. c \in Nat /\ c >= MIN_CAP /\ MIN_CAP \in Nat
  BY SizeLarge
<1>3. k # 0
  BY <1>1, <1>2, Doubles
<1>4. k - 1 \in Nat /\ (k - 1) + 1 = k
  BY <1>3
<1>5. doubling[k - 1] \in Nat /\ n = 2 * doubling[k - 1]
  BY <1>1, <1>4, Doubles, DoublingLarge
<1>6. n \div 2 = doubling[k - 1]
  BY <1>5
<1> QED BY <1>4, <1>5, <1>6 DEF Sizes

(***************************************************************************)
(* The thresholds: there is room for a growat(n) of the n buckets, for one *)
(* more when they are doubled, and a table that shrinks is not over its    *)
(* new threshold.                                                          *)
(***************************************************************************)
LEMMA Hundredth ==
  ASSUME NEW a \in Nat, NEW b \in Nat, a <= b
  PROVE  a \div 100 \in Nat /\ a \div 100 <= b \div 100
  OBVIOUS

LEMMA growatRoom ==
  ASSUME NEW n \in Nat, n # 0
  PROVE  growat(n) \in Nat /\ growat(n) < n
<1>1. n * GROW_PERCENT <= n * 99
  BY HashMapAssumption, Monotone
<1>2. n * GROW_PERCENT \in Nat
  BY HashMapAssumption
<1> HIDE DEF HashMapAssumption
<1> DEFINE a == n * GROW_PERCENT
<1>3. a \in Nat /\ a <= n * 99
  BY <1>1, <1>2
<1> HIDE DEF a
<1>4. a \div 100 \in Nat /\ a \div 100 < n
  BY <1>3
<1> QED BY <1>4 DEF growat, a

LEMMA growatTwice ==
  ASSUME NEW n \in Sizes
  PROVE  growat(n) + 1 <= growat(n * 2)
<1>1. n \in Nat /\ n >= MIN_CAP /\ MIN_CAP \in Nat /\ GROW_PERCENT \in Nat
  BY SizeLarge, HashMapAssumption
<1>2. GROW_PERCENT * MIN_CAP <= GROW_PERCENT * n
  BY <1>1, Monotone
<1>3. GROW_PERCENT * n = n * GROW_PERCENT /\ MIN_CAP * GROW_PERCENT = GROW_PERCENT * MIN_CAP
      /\ (n * 2) * GROW_PERCENT = n * GROW_PERCENT + n * GROW_PERCENT
  BY <1>1
<1>4. n * GROW_PERCENT >= 100
  BY <1>1, <1>2, <1>3, HashMapAssumption
<1> DEFINE a == n * GROW_PERCENT
<1>5. a \in Nat /\ a >= 100 /\ (n * 2) * GROW_PERCENT = a + a
  BY <1>1, <1>3, <1>4
<1> HIDE DEF a
<1>6. (a \div 100) + 1 <= (a + a) \div 100
  BY <1>5
<1> QED BY <1>5, <1>6 DEF growat, a

LEMMA shrinkatHalf ==
  ASSUME NEW m \in Nat
  PROVE  shrinkat(2 * m) \in Nat /\ shrinkat(2 * m) <= growat(m)
<1>1. SHRINK_PERCENT \in Nat /\ 2 * SHRINK_PERCENT <= GROW_PERCENT /\ GROW_PERCENT \in Nat
  BY HashMapAssumption
<1>2. m * (2 * SHRINK_PERCENT) <= m * GROW_PERCENT
  BY <1>1, Monotone
<1>3. (2 * m) * SHRINK_PERCENT = m * (2 * SHRINK_PERCENT)
  BY <1>1
<1>4. (2 * m) * SHRINK_PERCENT \in Nat /\ m * GROW_PERCENT \in Nat
  BY <1>1
<1>5. (2 * m) * SHRINK_PERCENT <= m * GROW_PERCENT
  BY <1>2, <1>3, <1>4
<1> QED BY <1>4, <1>5, Hundredth DEF shrinkat, growat

-----------------------------------------------------------------------------
(* resize: a new table is sound, *)
LEMMA BlankSound ==
  ASSUME NEW n \in Nat, n # 0
  PROVE  /\ Sound(Blank(n), n) /\ Occupied(Blank(n)) = {} /\ Pairs(Blank(n)) = {}
         /\ DOMAIN Blank(n) = 0 .. n - 1
<1> DEFINE b == Blank(n)
<1>1. /\ DOMAIN b = 0 .. n - 1
      /\ \A i \in 0 .. n - 1 : b[i] = EMPTY
      /\ b = [i \in 0 .. n - 1 |-> EMPTY]
  BY DEF Blank
<1>2. EMPTY \in bucket /\ EMPTY.dib = 0
  BY DEF EMPTY, bucket
<1> HIDE DEF b
<1>3. b \in [0 .. n - 1 -> bucket]
  BY <1>1, <1>2
<1>4. \A i \in 0 .. n - 1 : b[i].dib = 0 /\ b[i] = EMPTY
  BY <1>1, <1>2
<1>5. Filled(b, n)
  BY <1>4 DEF Filled
<1>6. Ordered(b, n) /\ Distinct(b, n)
  BY <1>4 DEF Ordered, Distinct
<1>7. Occupied(b) = {}
  BY <1>1, <1>4 DEF Occupied
<1>8. Pairs(b) = {}
  BY <1>7 DEF Pairs
<1> QED BY <1>1, <1>3, <1>5, <1>6, <1>7, <1>8 DEF Sound, b

LEMMA HashOfPair ==
  ASSUME NEW b, NEW h
  PROVE  h \in Hashes(b) <=> \E p \in Pairs(b) : p[1] = h
<1>1. ASSUME h \in Hashes(b) PROVE \E p \in Pairs(b) : p[1] = h
  <2>1. PICK i \in Occupied(b) : h = b[i].hash
    BY <1>1 DEF Hashes
  <2>2. Pair(b[i]) \in Pairs(b)
    BY DEF Pairs, Pair
  <2>3. Pair(b[i])[1] = h
    BY <2>1 DEF Pair
  <2> QED BY <2>2, <2>3
<1>2. ASSUME NEW p \in Pairs(b), p[1] = h PROVE h \in Hashes(b)
  <2>1. PICK i \in Occupied(b) : p = <<b[i].hash, b[i].item>>
    BY DEF Pairs
  <2> QED BY <1>2, <2>1 DEF Hashes
<1> QED BY <1>1, <1>2

(* the entries are stored one by one, *)
LEMMA MovedDef ==
  ASSUME NEW n \in Nat, NEW b, DOMAIN b = 0 .. n - 1, NEW m
  PROVE  Moved(b, m) =
           [i \in 0 .. n |-> IF i = 0 THEN Blank(Rounded(m))
                             ELSE Carried(Moved(b, m)[i - 1], b[i - 1])]
<1> DEFINE t == Moved(b, m)
           Def(f, j) == f = [i \in 0 .. j |-> IF i = 0 THEN Blank(Rounded(m))
                                              ELSE Carried(f[i - 1], b[i - 1])]
           S == {j \in Nat : \E f : Def(f, j)}
<1>1. 0 \in S
  <2>1. Def([i \in 0 .. 0 |-> Blank(Rounded(m))], 0)
    OBVIOUS
  <2> HIDE DEF Def
  <2> QED BY <2>1
<1>2. ASSUME NEW j \in Nat, j \in S PROVE j + 1 \in S
  <2>1. PICK f : Def(f, j)
    BY <1>2
  <2> DEFINE g == [i \in 0 .. j + 1 |-> IF i = j + 1 THEN Carried(f[j], b[j]) ELSE f[i]]
  <2>2. Def(g, j + 1)
    BY <2>1
  <2> HIDE DEF Def, g
  <2> QED BY <2>2
<1>3. n \in S
  <2> HIDE DEF S
  <2> QED BY <1>1, <1>2, SetInduction
<1>4. \E f : Def(f, n)
  BY <1>3
<1>5. t = CHOOSE f : Def(f, n)
  BY SizeOf DEF Moved
<1>6. Def(t, n)
  <2> HIDE DEF Def, t
  <2> QED BY <1>4, <1>5
<1> QED BY <1>6

LEMMA FirstMove ==
  ASSUME NEW n \in Nat, NEW b, DOMAIN b = 0 .. n - 1, NEW m
  PROVE  Moved(b, m)[0] = Blank(Rounded(m))
<1> DEFINE t == Moved(b, m)
<1>1. t = [i \in 0 .. n |-> IF i = 0 THEN Blank(Rounded(m))
                            ELSE Carried(t[i - 1], b[i - 1])]
  BY MovedDef
<1> HIDE DEF t
<1> QED BY <1>1 DEF t

LEMMA NextMove ==
  ASSUME NEW n \in Nat, NEW b, DOMAIN b = 0 .. n - 1, NEW m, NEW k \in 0 .. n - 1
  PROVE  Moved(b, m)[k + 1] = Carried(Moved(b, m)[k], b[k])
<1> DEFINE t == Moved(b, m)
<1>1. t = [i \in 0 .. n |-> IF i = 0 THEN Blank(Rounded(m))
                            ELSE Carried(t[i - 1], b[i - 1])]
  BY MovedDef
<1>2. k + 1 \in 0 .. n /\ k + 1 # 0 /\ (k + 1) - 1 = k
  OBVIOUS
<1> HIDE DEF t
<1>3. t[k + 1] = Carried(t[k], b[k])
  BY <1>1, <1>2
<1> QED BY <1>3 DEF t

(* What the first i buckets of b hold is what the new table holds. *)
Below(b, i) == {j \in Occupied(b) : j < i}

Taken(to, i, b, size) ==
  /\ Sound(to, size)
  /\ Pairs(to) = {Pair(b[j]) : j \in Below(b, i)}
  /\ Cardinality(Occupied(to)) = Cardinality(Below(b, i))

(* A table with fewer entries than buckets has an empty one. *)
LEMMA EmptyLeft ==
  ASSUME NEW n, NEW b, Sound(b, n), Cardinality(Occupied(b)) < n
  PROVE  \E p \in 0 .. n - 1 : p \notin Occupied(b) /\ b[p].dib = 0
<1> SUFFICES ASSUME \A p \in 0 .. n - 1 : p \in Occupied(b)
             PROVE  FALSE
  BY SoundType DEF Occupied
<1>1. DOMAIN b = 0 .. n - 1 /\ Cardinality(DOMAIN b) = n /\ n \in Nat
  BY SoundType
<1>2. Occupied(b) = DOMAIN b
  BY <1>1 DEF Occupied
<1> QED BY <1>1, <1>2

(* One more entry *)
LEMMA CountOne ==
  ASSUME NEW S, IsFiniteSet(S), NEW x, x \notin S
  PROVE  Cardinality(S \cup {x}) = Cardinality(S) + 1
  BY FS_AddElement

LEMMA TakeOne ==
  ASSUME NEW n, NEW b, Sound(b, n), NEW size, NEW to, NEW i \in 0 .. n - 1,
         Cardinality(Occupied(b)) < size, Taken(to, i, b, size)
  PROVE  Taken(Carried(to, b[i]), i + 1, b, size)
<1>1. /\ n \in Nat /\ n # 0 /\ DOMAIN b = 0 .. n - 1 /\ Cardinality(DOMAIN b) = n
      /\ b[i] \in bucket /\ b[i].dib \in Nat /\ b[i].hash \in Nat
  BY SoundType
<1>2. IsFiniteSet(Occupied(b)) /\ IsFiniteSet(Below(b, i)) /\ IsFiniteSet(Below(b, i + 1))
      /\ Cardinality(Below(b, i)) <= Cardinality(Occupied(b))
      /\ Cardinality(Below(b, i)) \in Nat /\ Cardinality(Occupied(b)) \in Nat
  <2>1. IsFiniteSet(Occupied(b))
    BY <1>1, SizeOf
  <2>2. Below(b, i) \in SUBSET Occupied(b) /\ Below(b, i + 1) \in SUBSET Occupied(b)
    BY DEF Below
  <2> QED BY <2>1, <2>2, FS_Subset, FS_CardinalityType
<1>3. CASE b[i].dib = 0
  <2>1. Carried(to, b[i]) = to
    BY <1>3 DEF Carried
  <2>2. Below(b, i + 1) = Below(b, i)
    BY <1>1, <1>3 DEF Below, Occupied
  <2> QED BY <2>1, <2>2 DEF Taken
<1>4. CASE b[i].dib # 0
  <2> DEFINE s == Store(to, b[i].hash, b[i].item, "resize")
  <2>1. Carried(to, b[i]) = s.table
    BY <1>4 DEF Carried
  <2>2. Below(b, i + 1) = Below(b, i) \cup {i} /\ i \notin Below(b, i)
    BY <1>1, <1>4 DEF Below, Occupied
  <2>3. b[i].item \in Items
    BY <1>4 DEF Sound, Filled
  <2>4. b[i].hash \notin Hashes(to)
    <3> SUFFICES ASSUME NEW p \in Pairs(to), p[1] = b[i].hash PROVE FALSE
      BY HashOfPair
    <3>1. PICK j \in Below(b, i) : p = Pair(b[j])
      BY DEF Taken
    <3>2. j \in 0 .. n - 1 /\ b[j].dib # 0 /\ j # i
      BY <1>1, <3>1 DEF Below, Occupied
    <3>3. b[j].hash = b[i].hash
      BY <3>1 DEF Pair
    <3> QED BY <1>4, <3>2, <3>3 DEF Sound, Distinct
  <2>5. Sound(to, size) /\ Cardinality(Occupied(to)) < size
    <3>1. size \in Nat /\ Sound(to, size)
      BY SoundType DEF Taken
    <3> QED BY <1>2, <3>1 DEF Taken
  <2>6. PICK p \in 0 .. size - 1 : p \notin Occupied(to)
    BY <2>5, EmptyLeft
  <2>7. Ended(s, to, size, b[i].hash, b[i].item)
    BY <1>1, <2>3, <2>4, <2>5, <2>6, StoreNew
  <2> HIDE DEF s
  <2>8. Sound(s.table, size)
    BY <2>7 DEF Ended
  <2>9. Pairs(s.table) = {Pair(b[j]) : j \in Below(b, i + 1)}
    <3>1. Pairs(s.table) = Pairs(to) \cup {Pair(b[i])}
      BY <2>7 DEF Ended, Pair
    <3> QED BY <2>2, <3>1 DEF Taken
  <2>10. Cardinality(Occupied(s.table)) = Cardinality(Below(b, i + 1))
    <3>1. PICK q \in 0 .. size - 1 : /\ q \notin Occupied(to)
                                     /\ Occupied(s.table) = Occupied(to) \cup {q}
      BY <2>7 DEF Ended
    <3>2. IsFiniteSet(Occupied(to))
      BY <2>5, SoundType, SizeOf
    <3>3. Cardinality(Occupied(s.table)) = Cardinality(Occupied(to)) + 1
      BY <3>1, <3>2, CountOne
    <3>4. Cardinality(Below(b, i + 1)) = Cardinality(Below(b, i)) + 1
      BY <1>2, <2>2, CountOne
    <3> QED BY <3>3, <3>4 DEF Taken
  <2> QED BY <2>1, <2>8, <2>9, <2>10 DEF Taken
<1> QED BY <1>3, <1>4

(***************************************************************************)
(* and in the end it holds what the old one held, if it has more buckets   *)
(* than there are entries.                                                 *)
(***************************************************************************)
LEMMA ResizeKeeps ==
  ASSUME NEW n, NEW b, Sound(b, n), NEW size \in Sizes,
         Cardinality(Occupied(b)) < size
  PROVE  /\ Sound(resize(b, size), size)
         /\ Pairs(resize(b, size)) = Pairs(b)
         /\ Cardinality(Occupied(resize(b, size))) = Cardinality(Occupied(b))
<1> DEFINE t == Moved(b, size)
           S == {i \in Nat : i <= n => Taken(t[i], i, b, size)}
<1>1. n \in Nat /\ n # 0 /\ DOMAIN b = 0 .. n - 1 /\ Cardinality(DOMAIN b) = n
  BY SoundType
<1>2. Rounded(size) = size /\ size \in Nat /\ size # 0
  BY RoundedSize, SizeLarge
<1>3. t[0] = Blank(size)
  BY <1>1, <1>2, FirstMove
<1>4. \A i \in 0 .. n - 1 : t[i + 1] = Carried(t[i], b[i])
  <2>1. ASSUME NEW i \in 0 .. n - 1 PROVE t[i + 1] = Carried(t[i], b[i])
    BY <1>1, NextMove
  <2> QED BY <2>1
<1>5. resize(b, size) = t[n]
  BY <1>1 DEF resize
<1> HIDE DEF t
<1>6. 0 \in S
  <2>1. Below(b, 0) = {}
    BY <1>1 DEF Below, Occupied
  <2>2. Sound(t[0], size) /\ Occupied(t[0]) = {} /\ Pairs(t[0]) = {}
    BY <1>2, <1>3, BlankSound
  <2>3. Taken(t[0], 0, b, size)
    BY <2>1, <2>2 DEF Taken
  <2> QED BY <2>3
<1>7. ASSUME NEW i \in Nat, i \in S PROVE i + 1 \in S
  <2> SUFFICES ASSUME i + 1 <= n PROVE Taken(t[i + 1], i + 1, b, size)
    OBVIOUS
  <2>1. i \in 0 .. n - 1 /\ i <= n
    BY <1>1
  <2>2. Taken(t[i], i, b, size)
    BY <1>7, <2>1
  <2> QED BY <1>4, <2>1, <2>2, TakeOne
<1>8. Taken(t[n], n, b, size)
  <2>1. n \in S
    <3> HIDE DEF S
    <3> QED BY <1>1, <1>6, <1>7, SetInduction
  <2> QED BY <1>1, <2>1
<1>9. Below(b, n) = Occupied(b)
  BY <1>1 DEF Below, Occupied
<1>10. Pairs(b) = {Pair(b[j]) : j \in Occupied(b)}
  BY DEF Pairs, Pair
<1> QED BY <1>5, <1>8, <1>9, <1>10 DEF Taken

-----------------------------------------------------------------------------
(* The probe of hashmap_get and hashmap_delete finds a stored hash, *)
LEMMA FindStored ==
  ASSUME Sound(buckets, nbuckets), NEW i \in 0 .. nbuckets - 1, buckets[i].dib # 0
  PROVE  Find(buckets[i].hash) = i
<1> DEFINE n == nbuckets
           h == buckets[i].hash
           d == buckets[i].dib - 1
           at(k) == (h + k) % n
           stops == {k \in 0 .. n - 1 : \/ buckets[at(k)].dib = 0
                                        \/ SameItem(buckets[at(k)], h)}
<1>1. /\ n \in Nat /\ n # 0 /\ buckets[i].dib \in Nat /\ h \in Nat
      /\ \A p \in 0 .. n - 1 : buckets[p].dib \in Nat
  BY SoundType
<1>2. buckets[i].dib <= n /\ (h + d) % n = i
  BY DEF Sound, Filled, Fits
<1>3. d \in 0 .. n - 1
  BY <1>1, <1>2
<1>4. d \in stops
  BY <1>2, <1>3 DEF SameItem
<1>5. ASSUME NEW k \in stops PROVE d <= k
  <2> SUFFICES ASSUME k < d PROVE FALSE
    BY <1>3
  <2>1. k \in 0 .. n - 1 /\ k \in 0 .. buckets[i].dib - 1 /\ k # d /\ k \in Nat
    BY <1>3
  <2>2. buckets[at(k)].dib >= k + 1
    BY <2>1, Trail
  <2>3. at(k) \in 0 .. n - 1
    <3>1. h + k \in Nat
      BY <1>1, <2>1
    <3> QED BY <1>1, <3>1, DivMod
  <2>4. buckets[at(k)].dib # 0
    BY <1>1, <2>1, <2>2, <2>3
  <2>5. buckets[at(k)].hash = h
    BY <2>4 DEF SameItem
  <2>6. at(k) = i
    BY <2>3, <2>4, <2>5 DEF Sound, Distinct
  <2> QED BY <1>1, <1>2, <1>3, <2>1, <2>6, ProbeOnce
<1>6. Min(stops) = d
  <2>1. stops \in SUBSET Nat
    OBVIOUS
  <2> HIDE DEF stops, n
  <2>2. Min(stops) \in stops /\ Min(stops) <= d
    BY <1>4, <2>1, MinLeast
  <2>3. d <= Min(stops)
    BY <1>5, <2>2
  <2> DEFINE m == Min(stops)
  <2>4. m \in Nat /\ m <= d /\ d <= m
    BY <2>1, <2>2, <2>3
  <2> HIDE DEF m
  <2>5. m = d
    BY <1>3, <2>4
  <2> QED BY <2>5 DEF m
<1> QED BY <1>2, <1>6 DEF Find

(* and stops at an empty bucket when there is none. *)
LEMMA FindMissing ==
  ASSUME Sound(buckets, nbuckets), Cardinality(Occupied(buckets)) < nbuckets,
         NEW h \in Nat, h \notin Hashes(buckets)
  PROVE  Find(h) \in 0 .. nbuckets - 1 /\ buckets[Find(h)].dib = 0
<1> DEFINE n == nbuckets
           at(k) == (h + k) % n
           stops == {k \in 0 .. n - 1 : \/ buckets[at(k)].dib = 0
                                        \/ SameItem(buckets[at(k)], h)}
<1>1. n \in Nat /\ n # 0 /\ DOMAIN buckets = 0 .. n - 1
  BY SoundType
<1>2. PICK p \in 0 .. n - 1 : buckets[p].dib = 0
  BY EmptyLeft
<1>3. PICK k \in 0 .. n - 1 : at(k) = p
  BY <1>1, ProbeMeets
<1>4. k \in stops
  BY <1>2, <1>3
<1>5. Min(stops) \in stops
  <2>1. stops \in SUBSET Nat
    OBVIOUS
  <2> HIDE DEF stops
  <2> QED BY <1>4, <2>1, MinLeast
<1> DEFINE m == Min(stops)
<1>6. /\ m \in 0 .. n - 1
      /\ buckets[at(m)].dib = 0 \/ SameItem(buckets[at(m)], h)
  BY <1>5
<1>7. Find(h) = at(m)
  BY DEF Find
<1> HIDE DEF m, stops
<1>8. at(m) \in 0 .. n - 1
  <2>1. h + m \in Nat
    BY <1>6
  <2> QED BY <1>1, <2>1, DivMod
<1>9. buckets[at(m)].dib = 0
  <2> SUFFICES ASSUME buckets[at(m)].dib # 0 PROVE FALSE
    OBVIOUS
  <2>1. at(m) \in Occupied(buckets) /\ buckets[at(m)].hash = h
    BY <1>1, <1>6, <1>8 DEF Occupied, SameItem
  <2> QED BY <2>1 DEF Hashes
<1> QED BY <1>7, <1>8, <1>9

-----------------------------------------------------------------------------
(***************************************************************************)
(* hashmap_delete: the entries behind the deleted one, up to one at its    *)
(* home or an empty bucket, move back, and nothing else changes.           *)
(***************************************************************************)
LEMMA Rotate ==
  ASSUME NEW n \in Nat, n # 0, NEW i \in 0 .. n - 1, NEW k \in 0 .. n
  PROVE  (i + k) % n = IF i + k < n THEN i + k ELSE i + k - n
<1>1. i % n = i
  BY ModSmall
<1>2. i \in Nat
  OBVIOUS
<1>3. (i + k) % n = IF (i % n) + k < n THEN (i % n) + k ELSE (i % n) + k - n
  BY <1>2, ModAdd, Zenon
<1> QED BY <1>1, <1>3

LEMMA Unrotate ==
  ASSUME NEW n \in Nat, n # 0, NEW i \in 0 .. n - 1, NEW p \in 0 .. n - 1
  PROVE  (p + n - i) % n = IF p >= i THEN p - i ELSE p + n - i
<1>1. CASE p >= i
  <2>1. p - i \in 0 .. n - 1 /\ n \in 0 .. n /\ p + n - i = (p - i) + n
    BY <1>1
  <2>2. ((p - i) + n) % n = IF (p - i) + n < n THEN (p - i) + n ELSE (p - i) + n - n
    BY <2>1, Rotate, Zenon
  <2> QED BY <1>1, <2>1, <2>2
<1>2. CASE p < i
  <2>1. p + n - i \in 0 .. n - 1
    BY <1>2
  <2>2. (p + n - i) % n = p + n - i
    BY <2>1, ModSmall
  <2> QED BY <1>2, <2>2
<1> QED BY <1>1, <1>2

(* How far the gap moves *)
Shift(b, i, n) == Min({k \in 1 .. n : k = n \/ b[(i + k) % n].dib <= 1}) - 1

LEMMA ShiftEnds ==
  ASSUME NEW n, NEW b, Sound(b, n), Cardinality(Occupied(b)) < n,
         NEW i \in 0 .. n - 1, b[i].dib # 0
  PROVE  /\ Shift(b, i, n) \in 0 .. n - 2
         /\ \A k \in 1 .. Shift(b, i, n) : b[(i + k) % n].dib > 1
         /\ b[(i + (Shift(b, i, n) + 1)) % n].dib <= 1
<1> DEFINE T == {k \in 1 .. n : k = n \/ b[(i + k) % n].dib <= 1}
           m == Min(T)
<1>1. n \in Nat /\ n # 0 /\ \A p \in 0 .. n - 1 : b[p].dib \in Nat
  BY SoundType
<1>2. \A k \in 0 .. n : (i + k) % n = IF i + k < n THEN i + k ELSE i + k - n
  BY <1>1, Rotate
<1>3. PICK p \in 0 .. n - 1 : b[p].dib = 0
  BY EmptyLeft
<1>4. PICK q \in 1 .. n - 1 : (i + q) % n = p
  <2>1. p # i
    BY <1>3
  <2> DEFINE q == IF p >= i THEN p - i ELSE p - i + n
  <2>2. q \in 1 .. n - 1 /\ (i + q) % n = p
    BY <1>1, <1>2, <2>1
  <2> QED BY <2>2
<1>5. q \in T
  BY <1>1, <1>3, <1>4
<1>6. m \in T /\ \A k \in T : m <= k
  <2>1. T \in SUBSET Nat
    OBVIOUS
  <2> HIDE DEF T
  <2> QED BY <1>5, <2>1, MinLeast
<1>7. Shift(b, i, n) = m - 1
  BY DEF Shift
<1> HIDE DEF m
<1>8. m \in 1 .. n - 1
  <2>1. m \in 1 .. n
    BY <1>6
  <2>2. m <= q
    <3> HIDE DEF T
    <3> QED BY <1>5, <1>6
  <2> QED BY <1>1, <1>4, <2>1, <2>2
<1>9. b[(i + m) % n].dib <= 1 /\ (m - 1) + 1 = m
  BY <1>1, <1>6, <1>8
<1>10. ASSUME NEW k \in 1 .. m - 1 PROVE b[(i + k) % n].dib > 1
  <2>1. k \notin T /\ k \in 1 .. n
    BY <1>1, <1>6, <1>8
  <2>2. ~(b[(i + k) % n].dib <= 1)
    BY <2>1
  <2>3. (i + k) % n \in 0 .. n - 1
    BY <1>1, <1>2, <2>1, <1>8
  <2> QED BY <1>1, <2>2, <2>3
<1> QED BY <1>1, <1>7, <1>8, <1>9, <1>10

(* The buckets, counted from the deleted one *)
LEMMA ClosedAt ==
  ASSUME NEW n \in Nat, n # 0, NEW b, DOMAIN b = 0 .. n - 1, NEW i \in 0 .. n - 1,
         NEW k \in 0 .. n - 1
  PROVE  Closed(b, i)[(i + k) % n] =
           IF k < Shift(b, i, n) THEN [b[(i + (k + 1)) % n] EXCEPT !.dib = @ - 1]
           ELSE IF k = Shift(b, i, n) THEN EMPTY
           ELSE b[(i + k) % n]
<1> DEFINE p == (i + k) % n
           last == Shift(b, i, n)
<1>1. Cardinality(DOMAIN b) = n
  BY SizeOf
<1>2. Closed(b, i) =
        [x \in DOMAIN b |->
           IF (x + n - i) % n < last THEN [b[(x + 1) % n] EXCEPT !.dib = @ - 1]
           ELSE IF (x + n - i) % n = last THEN EMPTY
           ELSE b[x]]
  BY <1>1 DEF Closed, Shift
<1>3. p = IF i + k < n THEN i + k ELSE i + k - n
  <2>1. k \in 0 .. n
    OBVIOUS
  <2> QED BY <2>1, Rotate
<1>4. (i + (k + 1)) % n = IF i + (k + 1) < n THEN i + (k + 1) ELSE i + (k + 1) - n
  <2>1. k + 1 \in 0 .. n
    OBVIOUS
  <2> QED BY <2>1, Rotate
<1> HIDE DEF p, last
<1>5. p \in 0 .. n - 1
  BY <1>3
<1>6. (p + n - i) % n = k
  <2>1. (p + n - i) % n = IF p >= i THEN p - i ELSE p + n - i
    BY <1>5, Unrotate
  <2> QED BY <1>3, <2>1
<1>7. (p + 1) % n = (i + (k + 1)) % n
  <2>1. 1 \in 0 .. n
    OBVIOUS
  <2>2. (p + 1) % n = IF p + 1 < n THEN p + 1 ELSE p + 1 - n
    BY <1>5, <2>1, Rotate
  <2> QED BY <1>3, <1>4, <2>2
<1>8. Closed(b, i)[p] =
        IF (p + n - i) % n < last THEN [b[(p + 1) % n] EXCEPT !.dib = @ - 1]
        ELSE IF (p + n - i) % n = last THEN EMPTY
        ELSE b[p]
  BY <1>2, <1>5
<1> QED BY <1>6, <1>7, <1>8 DEF p, last

(***************************************************************************)
(* What a table b and the one closed over its bucket i have in common: the *)
(* entry k buckets behind i came from where Source says, at[k] being that  *)
(* bucket.                                                                 *)
(***************************************************************************)
Source(k, last) == IF k < last THEN k + 1 ELSE k

Closing(b, c, n, i, at, last) ==
  /\ n \in Nat /\ n # 0 /\ i \in 0 .. n - 1
  /\ b \in [0 .. n - 1 -> bucket] /\ DOMAIN c = 0 .. n - 1
  /\ c = [p \in DOMAIN c |-> c[p]]
  /\ last \in 0 .. n - 2
  /\ at \in [0 .. n - 1 -> 0 .. n - 1] /\ at[0] = i
  /\ \A p \in 0 .. n - 1 : \E k \in 0 .. n - 1 : p = at[k]
  /\ \A j, k \in 0 .. n - 1 : at[j] = at[k] => j = k
  /\ \A k \in 0 .. n - 2 : at[k + 1] = After(at[k], n) /\ Before(at[k + 1], n) = at[k]
  /\ Before(at[0], n) = at[n - 1]
  /\ b[i].dib # 0
  /\ \A k \in 1 .. last : b[at[k]].dib > 1
  /\ b[at[last + 1]].dib <= 1
  /\ \A k \in 0 .. n - 1 :
       c[at[k]] = IF k < last THEN [b[at[k + 1]] EXCEPT !.dib = @ - 1]
                  ELSE IF k = last THEN EMPTY
                  ELSE b[at[k]]

LEMMA ClosingHolds ==
  ASSUME NEW n, NEW b, Sound(b, n), Cardinality(Occupied(b)) < n,
         NEW i \in 0 .. n - 1, b[i].dib # 0
  PROVE  Closing(b, Closed(b, i), n, i, [k \in 0 .. n - 1 |-> (i + k) % n],
                 Shift(b, i, n))
<1> DEFINE at == [k \in 0 .. n - 1 |-> (i + k) % n]
           last == Shift(b, i, n)
           c == Closed(b, i)
<1>1. n \in Nat /\ n # 0 /\ b \in [0 .. n - 1 -> bucket] /\ DOMAIN b = 0 .. n - 1
  BY SoundType
<1>2. \A k \in 0 .. n : (i + k) % n = IF i + k < n THEN i + k ELSE i + k - n
  BY <1>1, Rotate
<1>3. \A k \in 0 .. n - 1 : at[k] = (i + k) % n
  OBVIOUS
<1>4. \A k \in 0 .. n - 1 : at[k] = IF i + k < n THEN i + k ELSE i + k - n
  <2>1. ASSUME NEW k \in 0 .. n - 1
        PROVE  at[k] = IF i + k < n THEN i + k ELSE i + k - n
    <3>1. k \in 0 .. n
      BY <1>1
    <3> HIDE DEF at
    <3> QED BY <1>2, <1>3, <3>1
  <2> QED BY <2>1
<1>5. at \in [0 .. n - 1 -> 0 .. n - 1] /\ at[0] = i
  <2>1. ASSUME NEW k \in 0 .. n - 1 PROVE (i + k) % n \in 0 .. n - 1
    <3>1. k \in 0 .. n
      BY <1>1
    <3> QED BY <1>1, <1>2, <3>1
  <2>2. at[0] = i
    <3> HIDE DEF at
    <3>1. 0 \in 0 .. n - 1
      BY <1>1
    <3> QED BY <1>1, <1>4, <3>1
  <2> QED BY <2>1, <2>2
<1>6. /\ last \in 0 .. n - 2
      /\ \A k \in 1 .. last : b[(i + k) % n].dib > 1
      /\ b[(i + (last + 1)) % n].dib <= 1
  BY ShiftEnds
<1>7. DOMAIN c = 0 .. n - 1 /\ c = [p \in DOMAIN c |-> c[p]]
  BY <1>1 DEF Closed
<1>8. ASSUME NEW k \in 0 .. n - 1
      PROVE  c[(i + k) % n] =
               IF k < last THEN [b[(i + (k + 1)) % n] EXCEPT !.dib = @ - 1]
               ELSE IF k = last THEN EMPTY
               ELSE b[(i + k) % n]
  BY <1>1, ClosedAt
<1> HIDE DEF at, last, c
<1>9. ASSUME NEW p \in 0 .. n - 1 PROVE \E k \in 0 .. n - 1 : p = at[k]
  <2> DEFINE k == IF p >= i THEN p - i ELSE p - i + n
  <2>1. k \in 0 .. n - 1 /\ p = IF i + k < n THEN i + k ELSE i + k - n
    BY <1>1
  <2> QED BY <1>4, <2>1
<1>10. ASSUME NEW j \in 0 .. n - 1, NEW k \in 0 .. n - 1, at[j] = at[k] PROVE j = k
  BY <1>1, <1>4, <1>10
<1>11. ASSUME NEW k \in 0 .. n - 2
       PROVE  at[k + 1] = After(at[k], n) /\ Before(at[k + 1], n) = at[k]
  <2>1. k \in 0 .. n - 1 /\ k + 1 \in 0 .. n - 1
    BY <1>1
  <2>2. /\ at[k] = IF i + k < n THEN i + k ELSE i + k - n
        /\ at[k + 1] = IF i + (k + 1) < n THEN i + (k + 1) ELSE i + (k + 1) - n
    BY <1>4, <2>1
  <2> QED BY <1>1, <2>1, <2>2 DEF After, Before
<1>12. Before(at[0], n) = at[n - 1]
  <2>1. n - 1 \in 0 .. n - 1
    BY <1>1
  <2> QED BY <1>1, <1>4, <1>5, <2>1 DEF Before
<1>13. \A k \in 1 .. last : b[at[k]].dib > 1
  <2>1. ASSUME NEW k \in 1 .. last PROVE b[at[k]].dib > 1
    <3>1. k \in 0 .. n - 1
      BY <1>1, <1>6
    <3> QED BY <1>3, <1>6, <3>1
  <2> QED BY <2>1
<1>14. b[at[last + 1]].dib <= 1
  <2>1. last + 1 \in 0 .. n - 1
    BY <1>1, <1>6
  <2> QED BY <1>3, <1>6, <2>1
<1>15. ASSUME NEW k \in 0 .. n - 1
       PROVE  c[at[k]] = IF k < last THEN [b[at[k + 1]] EXCEPT !.dib = @ - 1]
                         ELSE IF k = last THEN EMPTY
                         ELSE b[at[k]]
  <2>1. k < last => k + 1 \in 0 .. n - 1
    BY <1>1, <1>6
  <2>2. at[k] = (i + k) % n /\ (k < last => at[k + 1] = (i + (k + 1)) % n)
    BY <1>3, <2>1
  <2> QED BY <1>8, <2>2
<1>16. last \in 0 .. n - 2
  BY <1>6
<1>17. Closing(b, c, n, i, at, last)
  BY <1>1, <1>5, <1>7, <1>9, <1>10, <1>11, <1>12, <1>13, <1>14, <1>15, <1>16
     DEF Closing
<1> QED BY <1>17 DEF at, last, c

(* An entry one step nearer *)
LEMMA Unstepped ==
  ASSUME NEW n \in Nat, n # 0, NEW i \in 0 .. n - 1, NEW e \in bucket, e.dib > 1,
         Fits(e, After(i, n), n)
  PROVE  LET f == [e EXCEPT !.dib = @ - 1]
         IN  /\ f \in bucket /\ f.dib = e.dib - 1 /\ f.hash = e.hash
             /\ f.item = e.item
             /\ Fits(f, i, n)
<1> DEFINE f == [e EXCEPT !.dib = @ - 1]
           a == e.hash + (e.dib - 2)
<1>1. e.hash \in Nat /\ e.dib \in Nat /\ e.dib - 1 \in Nat /\ a \in Nat
      /\ a + 1 = e.hash + (e.dib - 1)
  BY DEF bucket
<1>2. f \in bucket /\ f.dib = e.dib - 1 /\ f.hash = e.hash /\ f.item = e.item
  BY <1>1 DEF bucket
<1> HIDE DEF f, a
<1>3. (a + 1) % n = After(i, n)
  BY <1>1 DEF Fits
<1>4. (a + 1) % n = After(a % n, n) /\ a % n \in 0 .. n - 1
  BY <1>1, ModNext, DivMod
<1>5. a % n = i
  BY <1>3, <1>4 DEF After
<1>6. a = f.hash + (f.dib - 1)
  BY <1>1, <1>2 DEF a
<1> QED BY <1>2, <1>5, <1>6 DEF Fits, f

LEMMA ClosingFilled ==
  ASSUME NEW n, NEW b, Sound(b, n), NEW c, NEW i, NEW at, NEW last,
         Closing(b, c, n, i, at, last)
  PROVE  c \in [0 .. n - 1 -> bucket] /\ Filled(c, n)
<1>1. /\ n \in Nat /\ n # 0 /\ last \in 0 .. n - 2
      /\ DOMAIN c = 0 .. n - 1 /\ c = [p \in DOMAIN c |-> c[p]]
      /\ at \in [0 .. n - 1 -> 0 .. n - 1] /\ b \in [0 .. n - 1 -> bucket]
  BY DEF Closing
<1>2. EMPTY \in bucket /\ EMPTY.dib = 0
  BY DEF EMPTY, bucket
<1>3. ASSUME NEW p \in 0 .. n - 1
      PROVE  /\ c[p] \in bucket
             /\ IF c[p].dib = 0 THEN c[p] = EMPTY
                ELSE c[p].item \in Items /\ c[p].dib <= n /\ Fits(c[p], p, n)
  <2>1. PICK k \in 0 .. n - 1 : p = at[k]
    BY DEF Closing
  <2>2. CASE k < last
    <3> DEFINE q == at[k + 1]
               e == b[q]
    <3>1. k + 1 \in 1 .. last /\ k \in 0 .. n - 2 /\ k + 1 \in 0 .. n - 1
      BY <1>1, <2>2
    <3>2. q = After(p, n) /\ q \in 0 .. n - 1
      BY <1>1, <2>1, <3>1 DEF Closing
    <3>3. e.dib > 1
      BY <3>1 DEF Closing
    <3>4. e \in bucket /\ e.dib \in Nat
      BY <3>2, SoundType
    <3>5. e.item \in Items /\ e.dib <= n /\ Fits(e, q, n)
      BY <3>2, <3>3, <3>4 DEF Sound, Filled
    <3>6. c[p] = [e EXCEPT !.dib = @ - 1]
      BY <2>1, <2>2 DEF Closing
    <3> HIDE DEF e, q
    <3>7. /\ c[p] \in bucket /\ c[p].dib = e.dib - 1 /\ c[p].hash = e.hash
          /\ c[p].item = e.item /\ Fits(c[p], p, n)
      BY <1>1, <3>2, <3>3, <3>4, <3>5, <3>6, Unstepped
    <3> QED BY <1>1, <3>3, <3>4, <3>5, <3>7
  <2>3. CASE k = last
    <3>0. ~(k < last)
      BY <1>1, <2>3
    <3>1. c[p] = EMPTY
      BY <2>1, <2>3, <3>0 DEF Closing
    <3> QED BY <1>2, <3>1
  <2>4. CASE k > last
    <3>0. ~(k < last) /\ k # last
      BY <1>1, <2>4
    <3>1. c[p] = b[p]
      BY <2>1, <3>0 DEF Closing
    <3> QED BY <1>1, <3>1 DEF Sound, Filled
  <2> QED BY <1>1, <2>2, <2>3, <2>4
<1>4. c \in [0 .. n - 1 -> bucket]
  BY <1>1, <1>3
<1>5. Filled(c, n)
  BY <1>3 DEF Filled
<1> QED BY <1>4, <1>5

LEMMA ClosingOrdered ==
  ASSUME NEW n, NEW b, Sound(b, n), NEW c, NEW i, NEW at, NEW last,
         Closing(b, c, n, i, at, last)
  PROVE  Ordered(c, n)
<1> DEFINE B(k) == b[at[k]].dib
           C(k) == c[at[k]].dib
<1>1. /\ n \in Nat /\ n # 0 /\ last \in 0 .. n - 2
      /\ at \in [0 .. n - 1 -> 0 .. n - 1]
  BY DEF Closing
<1>2. \A k \in 0 .. n - 1 : B(k) \in Nat
  BY <1>1, SoundType
<1>3. ASSUME NEW k \in 0 .. n - 2, B(k + 1) > 1 PROVE B(k) >= B(k + 1) - 1
  <2>1. k + 1 \in 0 .. n - 1
    BY <1>1
  <2>2. at[k + 1] \in 0 .. n - 1 /\ Before(at[k + 1], n) = at[k]
    BY <1>1, <2>1 DEF Closing
  <2> QED BY <1>3, <2>2 DEF Sound, Ordered
<1>4. ASSUME B(0) > 1 PROVE B(n - 1) >= B(0) - 1
  <2>1. at[0] \in 0 .. n - 1 /\ Before(at[0], n) = at[n - 1]
    BY <1>1 DEF Closing
  <2> QED BY <1>4, <2>1 DEF Sound, Ordered
<1>5. ASSUME NEW k \in 0 .. n - 1, k < last PROVE C(k) = B(k + 1) - 1
  <2>1. k + 1 \in 0 .. n - 1
    BY <1>1, <1>5
  <2>2. at[k + 1] \in 0 .. n - 1
    BY <1>1, <2>1
  <2>3. b[at[k + 1]] \in bucket
    BY <2>2, SoundType
  <2>4. c[at[k]] = [b[at[k + 1]] EXCEPT !.dib = @ - 1]
    BY <1>5 DEF Closing
  <2> QED BY <2>3, <2>4 DEF bucket
<1>6. C(last) = 0
  <2>1. last \in 0 .. n - 1 /\ ~(last < last)
    BY <1>1
  <2>2. c[at[last]] = EMPTY
    BY <2>1 DEF Closing
  <2> QED BY <2>2 DEF EMPTY
<1>7. ASSUME NEW k \in 0 .. n - 1, k > last PROVE C(k) = B(k)
  <2>1. ~(k < last) /\ k # last
    BY <1>1, <1>7
  <2> QED BY <2>1 DEF Closing
<1>8. B(last + 1) <= 1
  BY DEF Closing
<1>9. ASSUME NEW k \in 1 .. last PROVE B(k) > 1
  BY DEF Closing
<1> SUFFICES ASSUME NEW p \in 0 .. n - 1, c[p].dib > 1
             PROVE  c[Before(p, n)].dib >= c[p].dib - 1
  BY DEF Ordered
<1>10. PICK k \in 0 .. n - 1 : p = at[k]
  BY DEF Closing
<1>11. CASE k = 0
  <2>1. Before(p, n) = at[n - 1]
    BY <1>10, <1>11 DEF Closing
  <2> HIDE DEF B, C
  <2>2. C(k) > 1
    BY <1>10 DEF C
  <2>3. last # 0
    BY <1>6, <1>11, <2>2
  <2>4. n - 1 \in 0 .. n - 1 /\ n - 1 > last /\ 0 < last /\ 0 \in 0 .. n - 2 /\ 1 \in 0 .. n - 1
        /\ 0 \in 0 .. n - 1 /\ 0 + 1 = 1 /\ 1 \in 1 .. last
    BY <1>1, <2>3
  <2>5. C(0) = B(0 + 1) - 1
    BY <1>5, <2>4
  <2>6. B(0) >= B(0 + 1) - 1
    BY <1>3, <1>9, <2>4
  <2>7. C(n - 1) = B(n - 1)
    BY <1>7, <2>4
  <2>8. B(0) > 1 /\ B(0) \in Nat /\ B(n - 1) \in Nat /\ B(0 + 1) \in Nat
    BY <1>2, <1>11, <2>2, <2>4, <2>5, <2>6
  <2>9. B(n - 1) >= B(0) - 1
    BY <1>4, <2>8
  <2>10. C(n - 1) >= C(0) - 1
    BY <2>5, <2>6, <2>7, <2>8, <2>9
  <2> QED BY <1>10, <1>11, <2>1, <2>10 DEF C
<1>12. CASE k # 0
  <2>1. k - 1 \in 0 .. n - 2 /\ k - 1 \in 0 .. n - 1 /\ (k - 1) + 1 = k
    BY <1>1, <1>12
  <2>2. Before(p, n) = at[k - 1]
    BY <1>10, <2>1 DEF Closing
  <2> HIDE DEF B, C
  <2>3. C(k) > 1
    BY <1>10 DEF C
  <2>4. C(k - 1) >= C(k) - 1
    <3>1. CASE k < last
      <4>1. k \in 0 .. n - 2 /\ k + 1 \in 1 .. last /\ k - 1 < last /\ k + 1 \in 0 .. n - 1
        BY <1>1, <3>1
      <4>2. C(k) = B(k + 1) - 1
        BY <1>5, <3>1
      <4>3. C(k - 1) = B(k) - 1
        BY <1>5, <2>1, <4>1
      <4>4. B(k) >= B(k + 1) - 1
        BY <1>3, <1>9, <4>1
      <4>5. B(k) \in Nat /\ B(k + 1) \in Nat
        BY <1>2, <4>1
      <4> QED BY <4>2, <4>3, <4>4, <4>5
    <3>2. CASE k = last
      BY <1>6, <2>3, <3>2
    <3>3. CASE k = last + 1
      BY <1>1, <1>2, <1>7, <1>8, <2>3, <3>3
    <3>4. CASE k > last + 1
      <4>1. k > last /\ k - 1 > last
        BY <1>1, <3>4
      <4>2. C(k) = B(k) /\ C(k - 1) = B(k - 1)
        BY <1>7, <2>1, <4>1
      <4>3. B((k - 1) + 1) > 1
        BY <2>1, <2>3, <4>2
      <4>4. B(k - 1) >= B((k - 1) + 1) - 1
        BY <1>3, <2>1, <4>3
      <4> QED BY <2>1, <4>2, <4>4
    <3> QED BY <1>1, <3>1, <3>2, <3>3, <3>4
  <2> QED BY <1>10, <2>2, <2>4 DEF C
<1> QED BY <1>11, <1>12

LEMMA Came ==
  ASSUME NEW n, NEW b, Sound(b, n), NEW c, NEW i, NEW at, NEW last,
         Closing(b, c, n, i, at, last), NEW k \in 0 .. n - 1, k # last
  PROVE  /\ Source(k, last) \in 1 .. n - 1
         /\ at[Source(k, last)] \in 0 .. n - 1
         /\ c[at[k]].hash = b[at[Source(k, last)]].hash
         /\ Pair(c[at[k]]) = Pair(b[at[Source(k, last)]])
         /\ c[at[k]].dib # 0 <=> b[at[Source(k, last)]].dib # 0
<1> DEFINE s == Source(k, last)
<1>1. /\ n \in Nat /\ n # 0 /\ last \in 0 .. n - 2
      /\ at \in [0 .. n - 1 -> 0 .. n - 1]
  BY DEF Closing
<1>2. CASE k < last
  <2>1. s = k + 1 /\ s \in 1 .. n - 1 /\ s \in 1 .. last /\ s \in 0 .. n - 1
    BY <1>1, <1>2 DEF Source
  <2>2. at[s] \in 0 .. n - 1 /\ b[at[s]] \in bucket
    BY <1>1, <2>1, SoundType
  <2>3. c[at[k]] = [b[at[s]] EXCEPT !.dib = @ - 1]
    BY <1>2, <2>1 DEF Closing
  <2>4. b[at[s]].dib > 1
    BY <2>1 DEF Closing
  <2> DEFINE e == b[at[s]]
  <2> HIDE DEF s, e
  <2>5. c[at[k]] = [e EXCEPT !.dib = @ - 1] /\ e \in bucket /\ e.dib > 1
    BY <2>2, <2>3, <2>4 DEF e
  <2>6. /\ c[at[k]].hash = e.hash /\ c[at[k]].item = e.item
        /\ c[at[k]].dib # 0 /\ e.dib # 0
    BY <2>5 DEF bucket
  <2> QED BY <2>1, <2>2, <2>6 DEF s, e, Pair
<1>3. CASE k > last
  <2>1. s = k /\ s \in 1 .. n - 1 /\ s \in 0 .. n - 1 /\ ~(k < last)
    BY <1>1, <1>3 DEF Source
  <2>2. c[at[k]] = b[at[s]]
    <3>1. ~(k < last) => c[at[k]] = b[at[k]]
      BY DEF Closing
    <3> QED BY <2>1, <3>1
  <2>3. at[s] \in 0 .. n - 1
    BY <1>1, <2>1
  <2> QED BY <2>1, <2>2, <2>3
<1> QED BY <1>1, <1>2, <1>3

LEMMA Gone ==
  ASSUME NEW n, NEW b, NEW c, NEW i, NEW at, NEW last, Closing(b, c, n, i, at, last)
  PROVE  last \in 0 .. n - 1 /\ c[at[last]].dib = 0
<1>1. n \in Nat /\ last \in 0 .. n - 2
  BY DEF Closing
<1>2. last \in 0 .. n - 1 /\ ~(last < last)
  BY <1>1
<1>3. c[at[last]] = EMPTY
  BY <1>2 DEF Closing
<1> QED BY <1>2, <1>3 DEF EMPTY

LEMMA ClosingDistinct ==
  ASSUME NEW n, NEW b, Sound(b, n), NEW c, NEW i, NEW at, NEW last,
         Closing(b, c, n, i, at, last)
  PROVE  Distinct(c, n)
<1> SUFFICES ASSUME NEW p \in 0 .. n - 1, NEW q \in 0 .. n - 1,
                    c[p].dib # 0, c[q].dib # 0, c[p].hash = c[q].hash
             PROVE  p = q
  BY DEF Distinct
<1>1. PICK j \in 0 .. n - 1 : p = at[j]
  BY DEF Closing
<1>2. PICK k \in 0 .. n - 1 : q = at[k]
  BY DEF Closing
<1>3. j # last /\ k # last
  BY <1>1, <1>2, Gone
<1> DEFINE s == Source(j, last)
           t == Source(k, last)
<1>4. /\ s \in 1 .. n - 1 /\ at[s] \in 0 .. n - 1
      /\ b[at[s]].hash = c[p].hash /\ b[at[s]].dib # 0
  BY <1>1, <1>3, Came
<1>5. /\ t \in 1 .. n - 1 /\ at[t] \in 0 .. n - 1
      /\ b[at[t]].hash = c[q].hash /\ b[at[t]].dib # 0
  BY <1>2, <1>3, Came
<1> HIDE DEF s, t
<1>6. at[s] = at[t]
  BY <1>4, <1>5 DEF Sound, Distinct
<1>7. n \in Nat /\ last \in 0 .. n - 2
  BY DEF Closing
<1>8. s \in 0 .. n - 1 /\ t \in 0 .. n - 1
  BY <1>4, <1>5, <1>7
<1>9. s = t
  BY <1>6, <1>8 DEF Closing
<1>10. j = k
  BY <1>3, <1>7, <1>9 DEF s, t, Source
<1> QED BY <1>1, <1>2, <1>10

LEMMA ClosingOccupied ==
  ASSUME NEW n, NEW b, Sound(b, n), NEW c, NEW i, NEW at, NEW last,
         Closing(b, c, n, i, at, last)
  PROVE  Occupied(c) = Occupied(b) \ {at[last]} /\ at[last] \in Occupied(b)
<1>1. /\ n \in Nat /\ n # 0 /\ last \in 0 .. n - 2 /\ last \in 0 .. n - 1
      /\ at \in [0 .. n - 1 -> 0 .. n - 1]
      /\ DOMAIN c = 0 .. n - 1 /\ DOMAIN b = 0 .. n - 1 /\ at[0] = i
  <2>1. last \in 0 .. n - 1
    BY Gone
  <2> QED BY <2>1 DEF Closing
<1>2. ASSUME NEW k \in 0 .. n - 1, k <= last
      PROVE  at[k] \in Occupied(b)
  <2>1. at[k] \in 0 .. n - 1
    BY <1>1
  <2>2. CASE k = 0
    BY <1>1, <2>1, <2>2 DEF Closing, Occupied
  <2>3. CASE k # 0
    <3>1. k \in 1 .. last
      BY <1>1, <1>2, <2>3
    <3>2. b[at[k]].dib > 1
      BY <3>1 DEF Closing
    <3>3. b[at[k]].dib # 0
      BY <2>1, <3>2, SoundType
    <3> QED BY <1>1, <2>1, <3>3 DEF Occupied
  <2> QED BY <2>2, <2>3
<1>3. ASSUME NEW p \in 0 .. n - 1
      PROVE  c[p].dib # 0 <=> b[p].dib # 0 /\ p # at[last]
  <2>1. PICK k \in 0 .. n - 1 : p = at[k]
    BY DEF Closing
  <2>2. CASE k < last
    <3>1. k <= last /\ k # last /\ Source(k, last) = k + 1 /\ k + 1 \in 1 .. last
      BY <1>1, <2>2 DEF Source
    <3>2. b[p].dib # 0
      BY <1>2, <2>1, <3>1 DEF Occupied
    <3>3. b[at[k + 1]].dib > 1
      BY <3>1 DEF Closing
    <3>4. k + 1 \in 0 .. n - 1 /\ k + 1 <= last
      BY <1>1, <3>1
    <3>5. b[at[k + 1]].dib # 0
      BY <1>2, <3>4 DEF Occupied
    <3>6. c[p].dib # 0
      BY <2>1, <3>1, <3>5, Came
    <3>7. p # at[last]
      BY <1>1, <2>1, <3>1 DEF Closing
    <3> QED BY <3>2, <3>6, <3>7
  <2>3. CASE k = last
    BY <2>1, <2>3, Gone
  <2>4. CASE k > last
    <3>1. ~(k < last) /\ k # last
      BY <1>1, <2>4
    <3>2. c[p] = b[p]
      BY <2>1, <3>1 DEF Closing
    <3>3. p # at[last]
      BY <1>1, <2>1, <3>1 DEF Closing
    <3> QED BY <3>2, <3>3
  <2> QED BY <1>1, <2>2, <2>3, <2>4
<1>4. Occupied(c) = Occupied(b) \ {at[last]}
  BY <1>1, <1>3 DEF Occupied
<1> QED BY <1>1, <1>2, <1>4

LEMMA ClosingPairs ==
  ASSUME NEW n, NEW b, Sound(b, n), NEW c, NEW i, NEW at, NEW last,
         Closing(b, c, n, i, at, last)
  PROVE  /\ Pairs(b) = Pairs(c) \cup {Pair(b[i])}
         /\ b[i].hash \notin Hashes(c)
<1>1. /\ n \in Nat /\ n # 0 /\ last \in 0 .. n - 2 /\ i \in 0 .. n - 1
      /\ at \in [0 .. n - 1 -> 0 .. n - 1] /\ b[i].dib # 0
      /\ DOMAIN c = 0 .. n - 1 /\ DOMAIN b = 0 .. n - 1 /\ at[0] = i
  BY DEF Closing
<1>2. Pairs(b) = {Pair(b[p]) : p \in Occupied(b)} /\ Pairs(c) = {Pair(c[p]) : p \in Occupied(c)}
  BY DEF Pairs, Pair
<1>3. i \in Occupied(b)
  BY <1>1 DEF Occupied
<1>4. ASSUME NEW p \in Occupied(c)
      PROVE  \E q \in Occupied(b) : Pair(c[p]) = Pair(b[q]) /\ c[p].hash = b[q].hash /\ q # i
  <2>1. p \in 0 .. n - 1 /\ c[p].dib # 0
    BY <1>1 DEF Occupied
  <2>2. PICK k \in 0 .. n - 1 : p = at[k]
    BY <2>1 DEF Closing
  <2>3. k # last
    BY <2>1, <2>2, Gone
  <2> DEFINE s == Source(k, last)
  <2>4. /\ s \in 1 .. n - 1 /\ at[s] \in 0 .. n - 1 /\ c[p].hash = b[at[s]].hash
        /\ Pair(c[p]) = Pair(b[at[s]]) /\ b[at[s]].dib # 0
    BY <2>1, <2>2, <2>3, Came
  <2> HIDE DEF s
  <2>5. s \in 0 .. n - 1 /\ 0 \in 0 .. n - 1 /\ s # 0
    BY <1>1, <2>4
  <2>6. at[s] # i
    <3>1. \A j, l \in 0 .. n - 1 : at[j] = at[l] => j = l
      BY DEF Closing
    <3> QED BY <1>1, <2>5, <3>1
  <2> QED BY <1>1, <2>4, <2>6 DEF Occupied
<1>5. ASSUME NEW q \in Occupied(b), q # i
      PROVE  \E p \in Occupied(c) : Pair(c[p]) = Pair(b[q])
  <2>1. q \in 0 .. n - 1 /\ b[q].dib # 0
    BY <1>1 DEF Occupied
  <2>2. PICK m \in 0 .. n - 1 : q = at[m]
    BY <2>1 DEF Closing
  <2>3. m # 0
    BY <1>1, <1>5, <2>2
  <2> DEFINE k == IF m <= last THEN m - 1 ELSE m
  <2>4. k \in 0 .. n - 1 /\ k # last /\ Source(k, last) = m
    BY <1>1, <2>3 DEF Source
  <2> HIDE DEF k
  <2>5. Pair(c[at[k]]) = Pair(b[q]) /\ c[at[k]].dib # 0
    BY <2>1, <2>2, <2>4, Came
  <2>6. at[k] \in Occupied(c)
    BY <1>1, <2>4, <2>5 DEF Occupied
  <2> QED BY <2>5, <2>6
<1>6. Pairs(b) = Pairs(c) \cup {Pair(b[i])}
  <2>1. \A x \in Pairs(c) : x \in Pairs(b)
    BY <1>2, <1>4
  <2>2. Pair(b[i]) \in Pairs(b)
    BY <1>2, <1>3
  <2>3. \A x \in Pairs(b) : x \in Pairs(c) \/ x = Pair(b[i])
    BY <1>2, <1>5
  <2> QED BY <2>1, <2>2, <2>3
<1>7. b[i].hash \notin Hashes(c)
  <2> SUFFICES ASSUME NEW p \in Occupied(c), c[p].hash = b[i].hash PROVE FALSE
    BY DEF Hashes
  <2>1. PICK q \in Occupied(b) : c[p].hash = b[q].hash /\ q # i
    BY <1>4
  <2>2. q \in 0 .. n - 1 /\ b[q].dib # 0
    BY <1>1 DEF Occupied
  <2> QED BY <1>1, <2>1, <2>2 DEF Sound, Distinct
<1> QED BY <1>6, <1>7

LEMMA ClosedKeeps ==
  ASSUME NEW n, NEW b, Sound(b, n), Cardinality(Occupied(b)) < n,
         NEW i \in 0 .. n - 1, b[i].dib # 0
  PROVE  /\ Sound(Closed(b, i), n)
         /\ Pairs(b) = Pairs(Closed(b, i)) \cup {Pair(b[i])}
         /\ b[i].hash \notin Hashes(Closed(b, i))
         /\ Cardinality(Occupied(Closed(b, i))) = Cardinality(Occupied(b)) - 1
<1> DEFINE c == Closed(b, i)
           at == [k \in 0 .. n - 1 |-> (i + k) % n]
           last == Shift(b, i, n)
<1>1. Closing(b, c, n, i, at, last)
  BY ClosingHolds
<1> HIDE DEF c, at, last
<1>2. Sound(c, n)
  <2>1. c \in [0 .. n - 1 -> bucket] /\ Filled(c, n)
    BY <1>1, ClosingFilled
  <2>2. Ordered(c, n) /\ Distinct(c, n)
    BY <1>1, ClosingOrdered, ClosingDistinct
  <2> QED BY <2>1, <2>2, SoundType DEF Sound
<1>3. Pairs(b) = Pairs(c) \cup {Pair(b[i])} /\ b[i].hash \notin Hashes(c)
  BY <1>1, ClosingPairs
<1>4. Cardinality(Occupied(c)) = Cardinality(Occupied(b)) - 1
  <2>1. Occupied(c) = Occupied(b) \ {at[last]} /\ at[last] \in Occupied(b)
    BY <1>1, ClosingOccupied
  <2>2. IsFiniteSet(Occupied(b))
    BY SoundType, SizeOf
  <2> QED BY <2>1, <2>2, FS_RemoveElement
<1> QED BY <1>2, <1>3, <1>4 DEF c

-----------------------------------------------------------------------------
(* The dictionary f that a set of pairs is *)
Keys(P) == {p[1] : p \in P}

Holds(P, f) ==
  /\ f = [h \in DOMAIN f |-> f[h]]
  /\ DOMAIN f = {p[1] : p \in P}
  /\ \A p \in P : f[p[1]] = p[2]

(* One with an item more or less, and what it has under a hash *)
Added(f, h, item) == [x \in DOMAIN f \cup {h} |-> IF x = h THEN item ELSE f[x]]
Removed(f, h)     == [x \in DOMAIN f \ {h} |-> f[x]]
Entry(f, h)       == IF h \in DOMAIN f THEN f[h] ELSE NULL

LEMMA HoldsOne ==
  ASSUME NEW P, NEW f, Holds(P, f), NEW g, Holds(P, g)
  PROVE  f = g
<1>1. /\ f = [h \in DOMAIN f |-> f[h]] /\ g = [h \in DOMAIN g |-> g[h]]
      /\ DOMAIN f = DOMAIN g
  BY DEF Holds
<1>2. ASSUME NEW h \in DOMAIN f PROVE f[h] = g[h]
  <2>1. PICK p \in P : h = p[1]
    BY DEF Holds
  <2> QED BY <2>1 DEF Holds
<1> QED BY <1>1, <1>2

LEMMA HoldsAdded ==
  ASSUME NEW P, NEW f, Holds(P, f), NEW h, h \notin DOMAIN f, NEW item
  PROVE  Holds(P \cup {<<h, item>>}, Added(f, h, item))
<1> DEFINE Q == P \cup {<<h, item>>}
           g == [x \in DOMAIN f \cup {h} |-> IF x = h THEN item ELSE f[x]]
<1>1. DOMAIN f = {p[1] : p \in P} /\ \A p \in P : f[p[1]] = p[2]
  BY DEF Holds
<1>2. DOMAIN g = DOMAIN f \cup {h} /\ g = [x \in DOMAIN g |-> g[x]] /\ g[h] = item
      /\ \A x \in DOMAIN f : g[x] = f[x]
  OBVIOUS
<1> HIDE DEF g
<1>3. DOMAIN g = {p[1] : p \in Q}
  <2>1. <<h, item>> \in Q /\ <<h, item>>[1] = h
    OBVIOUS
  <2>2. \A p \in Q : p \in P \/ p[1] = h
    OBVIOUS
  <2>3. \A p \in P : p \in Q
    OBVIOUS
  <2> HIDE DEF Q
  <2> QED BY <1>1, <1>2, <2>1, <2>2, <2>3
<1>4. \A p \in Q : g[p[1]] = p[2]
  BY <1>1, <1>2
<1> QED BY <1>2, <1>3, <1>4 DEF Holds, g, Added

LEMMA HoldsRemoved ==
  ASSUME NEW P, NEW Q, NEW f, Holds(Q, f), NEW h, NEW item,
         Q = P \cup {<<h, item>>}, h \notin Keys(P)
  PROVE  Holds(P, Removed(f, h)) /\ h \in DOMAIN f /\ f[h] = item
<1> DEFINE g == [x \in DOMAIN f \ {h} |-> f[x]]
<1>1. DOMAIN f = {p[1] : p \in Q} /\ \A p \in Q : f[p[1]] = p[2]
  BY DEF Holds
<1>2. DOMAIN g = DOMAIN f \ {h} /\ g = [x \in DOMAIN g |-> g[x]]
      /\ \A x \in DOMAIN g : g[x] = f[x]
  OBVIOUS
<1> HIDE DEF g
<1>0. \A p \in P : p[1] # h
  BY DEF Keys
<1>3. DOMAIN g = {p[1] : p \in P}
  BY <1>0, <1>1, <1>2
<1>4. \A p \in P : g[p[1]] = p[2]
  BY <1>1, <1>2, <1>3
<1>5. h \in DOMAIN f /\ f[h] = item
  <2>1. <<h, item>> \in Q /\ <<h, item>>[1] = h /\ <<h, item>>[2] = item
    OBVIOUS
  <2> QED BY <1>1, <2>1
<1> QED BY <1>2, <1>3, <1>4, <1>5 DEF Holds, g, Removed

(* The one a sound table is *)
ContentsOf(b) ==
  [h \in {b[i].hash : i \in Occupied(b)} |->
     b[CHOOSE i \in Occupied(b) : b[i].hash = h].item]

LEMMA TableHolds ==
  ASSUME NEW n, NEW b, Sound(b, n)
  PROVE  Holds(Pairs(b), ContentsOf(b)) /\ DOMAIN ContentsOf(b) = Hashes(b)
<1> DEFINE f == ContentsOf(b)
<1>1. DOMAIN f = Hashes(b) /\ f = [h \in DOMAIN f |-> f[h]]
  BY DEF ContentsOf, Hashes
<1>2. ASSUME NEW i \in Occupied(b) PROVE f[b[i].hash] = b[i].item
  <2> DEFINE j == CHOOSE j \in Occupied(b) : b[j].hash = b[i].hash
  <2>1. f[b[i].hash] = b[j].item
    BY DEF ContentsOf
  <2>2. j \in Occupied(b) /\ b[j].hash = b[i].hash
    OBVIOUS
  <2> HIDE DEF j
  <2>3. j = i
    BY <2>2, SoundType DEF Sound, Distinct, Occupied
  <2> QED BY <2>1, <2>3
<1> HIDE DEF f
<1>3. DOMAIN f = {p[1] : p \in Pairs(b)}
  <2>1. ASSUME NEW h PROVE h \in Hashes(b) <=> \E p \in Pairs(b) : p[1] = h
    BY HashOfPair
  <2> QED BY <1>1, <2>1
<1>4. \A p \in Pairs(b) : f[p[1]] = p[2]
  BY <1>2 DEF Pairs
<1> QED BY <1>1, <1>3, <1>4 DEF Holds, f

(* An item written over that of the same hash *)
LEMMA OverKeeps ==
  ASSUME NEW n, NEW b, Sound(b, n), NEW i \in 0 .. n - 1, b[i].dib # 0,
         NEW item \in Items, NEW f, Holds(Pairs(b), f)
  PROVE  /\ Sound(Overwritten(b, i, item), n)
         /\ Occupied(Overwritten(b, i, item)) = Occupied(b)
         /\ Holds(Pairs(Overwritten(b, i, item)), Added(f, b[i].hash, item))
<1> DEFINE c == [b EXCEPT ![i].item = item]
           H == b[i].hash
           g == [x \in DOMAIN f \cup {H} |-> IF x = H THEN item ELSE f[x]]
<1>1. /\ n \in Nat /\ n # 0 /\ b \in [0 .. n - 1 -> bucket] /\ DOMAIN b = 0 .. n - 1
      /\ \A j \in 0 .. n - 1 : b[j] \in bucket
  BY SoundType
<1>2. DOMAIN c = 0 .. n - 1 /\ c = [j \in DOMAIN c |-> c[j]]
      /\ \A j \in 0 .. n - 1 : c[j] = IF j = i THEN [b[i] EXCEPT !.item = item] ELSE b[j]
  BY <1>1
<1> HIDE DEF c
<1>3. ASSUME NEW j \in 0 .. n - 1
      PROVE  /\ c[j] \in bucket /\ c[j].hash = b[j].hash /\ c[j].dib = b[j].dib
             /\ c[j].item = (IF j = i THEN item ELSE b[j].item)
             /\ j # i => c[j] = b[j]
  <2>1. b[j] \in bucket
    BY <1>1
  <2> QED BY <1>2, <2>1 DEF bucket
<1>4. c \in [0 .. n - 1 -> bucket]
  BY <1>2, <1>3
<1>5. Filled(c, n)
  <2> SUFFICES ASSUME NEW j \in 0 .. n - 1
               PROVE  IF c[j].dib = 0 THEN c[j] = EMPTY
                      ELSE c[j].item \in Items /\ c[j].dib <= n /\ Fits(c[j], j, n)
    BY DEF Filled
  <2>1. CASE j = i
    <3>1. b[i].dib <= n /\ Fits(b[i], i, n)
      BY DEF Sound, Filled
    <3>2. Fits(c[i], i, n)
      BY <1>3, <3>1 DEF Fits
    <3> QED BY <1>3, <2>1, <3>1, <3>2
  <2>2. CASE j # i
    BY <1>3, <2>2 DEF Sound, Filled
  <2> QED BY <2>1, <2>2
<1>6. Ordered(c, n)
  <2>1. \A j \in 0 .. n - 1 : Before(j, n) \in 0 .. n - 1
    BY <1>1, Neighbours
  <2> QED BY <1>3, <2>1 DEF Sound, Ordered
<1>7. Distinct(c, n)
  BY <1>3 DEF Sound, Distinct
<1>8. Sound(c, n)
  BY <1>1, <1>4, <1>5, <1>6, <1>7 DEF Sound
<1>9. Occupied(c) = Occupied(b)
  BY <1>1, <1>2, <1>3 DEF Occupied
<1>10. Holds(Pairs(c), g)
  <2>1. i \in Occupied(b)
    BY <1>1 DEF Occupied
  <2>2. DOMAIN f = {p[1] : p \in Pairs(b)} /\ \A p \in Pairs(b) : f[p[1]] = p[2]
    BY DEF Holds
  <2>3. \A j \in Occupied(b) : b[j].hash \in DOMAIN f /\ f[b[j].hash] = b[j].item
    <3>1. ASSUME NEW j \in Occupied(b)
          PROVE  b[j].hash \in DOMAIN f /\ f[b[j].hash] = b[j].item
      <4>1. Pair(b[j]) \in Pairs(b)
        BY DEF Pairs, Pair
      <4>2. Pair(b[j])[1] = b[j].hash /\ Pair(b[j])[2] = b[j].item
        BY DEF Pair
      <4> QED BY <2>2, <4>1, <4>2
    <3> QED BY <3>1
  <2>4. \A j \in Occupied(b) : j \in 0 .. n - 1 /\ b[j].dib # 0
    BY <1>1 DEF Occupied
  <2>5. \A j \in Occupied(b) : j # i => b[j].hash # H
    BY <2>4 DEF Sound, Distinct
  <2>6. DOMAIN g = DOMAIN f \cup {H} /\ g = [x \in DOMAIN g |-> g[x]] /\ g[H] = item
        /\ \A x \in DOMAIN f : x # H => g[x] = f[x]
    OBVIOUS
  <2> HIDE DEF g, H
  <2>7. H = b[i].hash
    BY DEF H
  <2>8. DOMAIN g = {p[1] : p \in Pairs(c)}
    <3>1. DOMAIN g = Hashes(b)
      <4>1. ASSUME NEW h PROVE h \in Hashes(b) <=> \E p \in Pairs(b) : p[1] = h
        BY HashOfPair
      <4> QED BY <2>1, <2>2, <2>3, <2>6, <2>7, <4>1
    <3>2. Hashes(c) = Hashes(b)
      BY <1>3, <1>9, <2>4 DEF Hashes
    <3>3. ASSUME NEW h PROVE h \in Hashes(c) <=> \E p \in Pairs(c) : p[1] = h
      BY HashOfPair
    <3> QED BY <3>1, <3>2, <3>3
  <2>9. ASSUME NEW p \in Pairs(c) PROVE g[p[1]] = p[2]
    <3>1. PICK j \in Occupied(b) : p = <<c[j].hash, c[j].item>>
      BY <1>9 DEF Pairs
    <3>2. p[1] = b[j].hash /\ p[2] = (IF j = i THEN item ELSE b[j].item)
      BY <1>3, <2>4, <3>1
    <3>3. CASE j = i
      BY <2>6, <2>7, <3>2, <3>3
    <3>4. CASE j # i
      BY <2>3, <2>5, <2>6, <3>2, <3>4
    <3> QED BY <3>3, <3>4
  <2> QED BY <2>6, <2>8, <2>9 DEF Holds
<1> QED BY <1>8, <1>9, <1>10 DEF c, H, g, Added, Overwritten

-----------------------------------------------------------------------------
(***************************************************************************)
(* The inductive invariant: the table is sound and of a size the map may   *)
(* have, and count is the number of its entries, under the threshold.      *)
(***************************************************************************)
Kept(b, n, entries) ==
  /\ Sound(b, n) /\ n \in Sizes
  /\ entries = Cardinality(Occupied(b)) /\ entries <= growat(n)

MapInv ==
  /\ oom \in BOOLEAN
  /\ returned \in Items \cup {NULL}
  /\ count \in Nat /\ cap \in Nat
  /\ ~Live => count = 0
  /\ Live => Kept(buckets, nbuckets, count) /\ cap \in Sizes

LEMMA KeptFacts ==
  ASSUME NEW n, NEW b, NEW entries, Kept(b, n, entries)
  PROVE  /\ Sound(b, n) /\ n \in Sizes /\ n \in Nat /\ n # 0
         /\ Cardinality(DOMAIN b) = n /\ DOMAIN b = 0 .. n - 1 /\ b # << >>
         /\ IsFiniteSet(Occupied(b)) /\ entries = Cardinality(Occupied(b))
         /\ entries \in Nat /\ growat(n) \in Nat
         /\ entries <= growat(n) /\ entries < n
<1>1. Sound(b, n) /\ n \in Sizes /\ entries = Cardinality(Occupied(b)) /\ entries <= growat(n)
  BY DEF Kept
<1>2. n \in Nat /\ n # 0 /\ DOMAIN b = 0 .. n - 1 /\ Cardinality(DOMAIN b) = n
  BY <1>1, SoundType
<1>3. IsFiniteSet(Occupied(b)) /\ Cardinality(Occupied(b)) \in Nat
  BY <1>2, SizeOf, FS_CardinalityType
<1>4. growat(n) \in Nat /\ growat(n) < n
  BY <1>2, growatRoom
<1>5. entries < n
  BY <1>1, <1>2, <1>3, <1>4
<1>6. b # << >>
  BY <1>2
<1> QED BY <1>1, <1>2, <1>3, <1>4, <1>5, <1>6

(* The map of hashmap_set has room for one entry more. *)
LEMMA Grown ==
  ASSUME NEW n, NEW b, NEW entries, Kept(b, n, entries),
         NEW g, g = IF entries = growat(n) THEN resize(b, n * 2) ELSE b
  PROVE  \E size \in Sizes :
           /\ Kept(g, size, entries) /\ entries + 1 <= growat(size)
           /\ Pairs(g) = Pairs(b)
<1>1. /\ Sound(b, n) /\ n \in Sizes /\ n \in Nat /\ entries \in Nat /\ growat(n) \in Nat
      /\ entries <= growat(n) /\ entries < n /\ entries = Cardinality(Occupied(b))
  BY KeptFacts
<1>2. CASE entries = growat(n)
  <2>1. n * 2 \in Sizes /\ growat(n) + 1 <= growat(n * 2)
    BY <1>1, SizeTwice, growatTwice
  <2>2. n * 2 \in Nat /\ n * 2 # 0 /\ entries < n * 2
    BY <1>1
  <2>3. growat(n * 2) \in Nat
    BY <2>2, growatRoom
  <2>4. /\ Sound(resize(b, n * 2), n * 2) /\ Pairs(resize(b, n * 2)) = Pairs(b)
        /\ Cardinality(Occupied(resize(b, n * 2))) = entries
    BY <1>1, <2>1, <2>2, ResizeKeeps
  <2>5. g = resize(b, n * 2)
    BY <1>2
  <2>6. entries + 1 <= growat(n * 2) /\ entries <= growat(n * 2)
    BY <1>1, <1>2, <2>1, <2>3
  <2>7. Kept(g, n * 2, entries)
    BY <2>1, <2>4, <2>5, <2>6 DEF Kept
  <2> QED BY <2>1, <2>4, <2>5, <2>6, <2>7
<1>3. CASE entries # growat(n)
  BY <1>1, <1>3
<1> QED BY <1>2, <1>3

(* What hashmap_set leaves and returns *)
LEMMA SetResult ==
  ASSUME NEW n, NEW b, NEW entries, Kept(b, n, entries),
         NEW g, g = IF entries = growat(n) THEN resize(b, n * 2) ELSE b,
         NEW h \in Nat, NEW item \in Items, NEW f, Holds(Pairs(b), f),
         NEW done, done = Store(g, h, item, "set")
  PROVE  /\ \E size \in Sizes :
              Kept(done.table, size,
                   IF done.replaced = NULL THEN entries + 1 ELSE entries)
         /\ Holds(Pairs(done.table), Added(f, h, item))
         /\ done.replaced = Entry(f, h) /\ done.replaced \in Items \cup {NULL}
<1>1. PICK size \in Sizes : /\ Kept(g, size, entries) /\ entries + 1 <= growat(size)
                            /\ Pairs(g) = Pairs(b)
  BY Grown
<1>2. /\ Sound(g, size) /\ size \in Nat /\ entries \in Nat /\ DOMAIN g = 0 .. size - 1
      /\ entries = Cardinality(Occupied(g)) /\ entries < size
      /\ entries <= growat(size) /\ IsFiniteSet(Occupied(g)) /\ growat(size) \in Nat
  BY <1>1, KeptFacts
<1>3. Holds(Pairs(g), f)
  BY <1>1
<1>4. DOMAIN f = Hashes(g)
  <2>1. ASSUME NEW x PROVE x \in Hashes(g) <=> \E p \in Pairs(g) : p[1] = x
    BY HashOfPair
  <2>2. DOMAIN f = {p[1] : p \in Pairs(g)}
    BY <1>3 DEF Holds
  <2> QED BY <2>1, <2>2
<1>5. CASE h \in Hashes(g)
  <2>1. PICK i \in Occupied(g) : h = g[i].hash
    BY <1>5 DEF Hashes
  <2>2. i \in 0 .. size - 1 /\ g[i].dib # 0
    BY <1>2, <2>1 DEF Occupied
  <2> DEFINE c == Overwritten(g, i, item)
  <2>3. done.table = c /\ done.replaced = g[i].item
    <3>1. done = Store(g, g[i].hash, item, "set")
      BY <2>1
    <3>2. /\ Store(g, g[i].hash, item, "set").table = c
          /\ Store(g, g[i].hash, item, "set").replaced = g[i].item
      BY <1>2, <2>2, StoreOver, ZenonT(40)
    <3> QED BY <3>1, <3>2, Zenon
  <2>4. /\ Sound(c, size) /\ Occupied(c) = Occupied(g)
        /\ Holds(Pairs(c), Added(f, h, item))
    <3>1. /\ Sound(c, size) /\ Occupied(c) = Occupied(g)
          /\ Holds(Pairs(c), Added(f, g[i].hash, item))
      BY <1>2, <1>3, <2>2, OverKeeps, ZenonT(40)
    <3> QED BY <2>1, <3>1, Zenon
  <2>5. g[i].item \in Items
    BY <1>2, <2>2 DEF Sound, Filled
  <2>6. g[i].item # NULL
    BY <2>5, HashMapAssumption DEF NULL
  <2>7. f[h] = g[i].item
    <3>1. Pair(g[i]) \in Pairs(g)
      BY DEF Pairs, Pair
    <3>2. Pair(g[i])[1] = h /\ Pair(g[i])[2] = g[i].item
      BY <2>1 DEF Pair
    <3> QED BY <1>3, <3>1, <3>2 DEF Holds
  <2> HIDE DEF c
  <2>8. Kept(done.table, size, IF done.replaced = NULL THEN entries + 1 ELSE entries)
    BY <1>2, <2>3, <2>4, <2>6 DEF Kept
  <2> QED BY <1>4, <1>5, <2>3, <2>4, <2>5, <2>7, <2>8 DEF Entry
<1>6. CASE h \notin Hashes(g)
  <2>1. PICK p \in 0 .. size - 1 : p \notin Occupied(g)
    BY <1>2, EmptyLeft
  <2>2. Ended(done, g, size, h, item)
    BY <1>2, <1>6, <2>1, StoreNew
  <2>3. /\ done.replaced = NULL /\ Sound(done.table, size)
        /\ Pairs(done.table) = Pairs(g) \cup {<<h, item>>}
    BY <2>2 DEF Ended
  <2>4. PICK q \in 0 .. size - 1 : /\ q \notin Occupied(g)
                                   /\ Occupied(done.table) = Occupied(g) \cup {q}
    BY <2>2 DEF Ended
  <2>5. Cardinality(Occupied(done.table)) = entries + 1
    BY <1>2, <2>4, CountOne
  <2>6. Kept(done.table, size, IF done.replaced = NULL THEN entries + 1 ELSE entries)
    BY <1>1, <2>3, <2>5 DEF Kept
  <2>7. Holds(Pairs(done.table), Added(f, h, item))
    BY <1>3, <1>4, <1>6, <2>3, HoldsAdded
  <2> QED BY <1>4, <1>6, <2>3, <2>6, <2>7 DEF Entry
<1> QED BY <1>5, <1>6

(* What hashmap_delete leaves of a stored hash *)
LEMMA DeleteResult ==
  ASSUME NEW n, NEW b, NEW entries, Kept(b, n, entries), NEW f, Holds(Pairs(b), f),
         NEW i \in 0 .. n - 1, b[i].dib # 0
  PROVE  /\ Kept(Closed(b, i), n, entries - 1)
         /\ Holds(Pairs(Closed(b, i)), Removed(f, b[i].hash))
         /\ Entry(f, b[i].hash) = b[i].item
<1> DEFINE c == Closed(b, i)
<1>1. /\ Sound(b, n) /\ n \in Sizes /\ entries \in Nat /\ growat(n) \in Nat
      /\ entries <= growat(n) /\ entries < n /\ entries = Cardinality(Occupied(b))
  BY KeptFacts
<1>2. /\ Sound(c, n) /\ Pairs(b) = Pairs(c) \cup {Pair(b[i])}
      /\ b[i].hash \notin Hashes(c)
      /\ Cardinality(Occupied(c)) = Cardinality(Occupied(b)) - 1
  BY <1>1, ClosedKeeps
<1> HIDE DEF c
<1>3. Kept(c, n, entries - 1)
  BY <1>1, <1>2 DEF Kept
<1>4. b[i].hash \notin Keys(Pairs(c))
  <2>1. \A p \in Pairs(c) : p[1] # b[i].hash
    BY <1>2, HashOfPair
  <2> QED BY <2>1 DEF Keys
<1>5. Pairs(b) = Pairs(c) \cup {<<b[i].hash, b[i].item>>}
  BY <1>2 DEF Pair
<1>6. /\ Holds(Pairs(c), Removed(f, b[i].hash))
      /\ b[i].hash \in DOMAIN f /\ f[b[i].hash] = b[i].item
  <2> DEFINE x == b[i].hash
             y == b[i].item
             P == Pairs(c)
             Q == Pairs(b)
  <2>1. Q = P \cup {<<x, y>>} /\ x \notin Keys(P) /\ Holds(Q, f)
    BY <1>4, <1>5
  <2> HIDE DEF x, y, P, Q
  <2>2. Holds(P, Removed(f, x)) /\ x \in DOMAIN f /\ f[x] = y
    BY <2>1, HoldsRemoved, Zenon
  <2> QED BY <2>2 DEF x, y, P
<1> QED BY <1>3, <1>6 DEF c, Entry

(* A table that shrinks holds what it held. *)
LEMMA Shrunk ==
  ASSUME NEW n, NEW b, NEW entries, Kept(b, n, entries), NEW least \in Sizes,
         least < n, entries <= shrinkat(n)
  PROVE  /\ Kept(resize(b, n \div 2), n \div 2, entries)
         /\ Pairs(resize(b, n \div 2)) = Pairs(b)
<1> DEFINE m == n \div 2
<1>1. /\ Sound(b, n) /\ n \in Sizes /\ entries \in Nat
      /\ entries = Cardinality(Occupied(b))
  BY KeptFacts
<1>2. m \in Sizes /\ n = 2 * m
  BY <1>1, SizeHalf
<1>3. m \in Nat /\ m # 0
  BY <1>2, SizeLarge
<1>4. shrinkat(2 * m) \in Nat /\ shrinkat(2 * m) <= growat(m)
  BY <1>3, shrinkatHalf
<1>5. growat(m) \in Nat /\ growat(m) < m
  BY <1>3, growatRoom
<1> HIDE DEF m
<1>6. entries <= growat(m) /\ entries < m
  BY <1>1, <1>2, <1>3, <1>4, <1>5
<1>7. /\ Sound(resize(b, m), m) /\ Pairs(resize(b, m)) = Pairs(b)
      /\ Cardinality(Occupied(resize(b, m))) = entries
  BY <1>1, <1>2, <1>6, ResizeKeeps
<1> QED BY <1>2, <1>6, <1>7 DEF Kept, m

-----------------------------------------------------------------------------
(* The state and its next one, as dictionaries *)
LEMMA ContentsIs ==
  Contents = ContentsOf(buckets) /\ Contents' = ContentsOf(buckets')
  BY DEF Contents, ContentsOf, Visited, Occupied

LEMMA Now ==
  ASSUME MapInv, Live
  PROVE  /\ Kept(buckets, nbuckets, count) /\ cap \in Sizes
         /\ Sound(buckets, nbuckets)
         /\ Holds(Pairs(buckets), Contents) /\ DOMAIN Contents = Hashes(buckets)
<1>1. Kept(buckets, nbuckets, count) /\ cap \in Sizes
  BY DEF MapInv
<1>2. Sound(buckets, nbuckets)
  BY <1>1 DEF Kept
<1>3. Holds(Pairs(buckets), ContentsOf(buckets)) /\ DOMAIN ContentsOf(buckets) = Hashes(buckets)
  BY <1>2, TableHolds
<1> QED BY <1>1, <1>2, <1>3, ContentsIs

LEMMA Then ==
  ASSUME NEW n, NEW k, Kept(buckets', n, k), NEW f, Holds(Pairs(buckets'), f)
  PROVE  Contents' = f
<1>1. Sound(buckets', n)
  BY DEF Kept
<1>2. Holds(Pairs(buckets'), ContentsOf(buckets'))
  BY <1>1, TableHolds
<1>3. ContentsOf(buckets') = f
  BY <1>2, HoldsOne
<1> QED BY <1>3, ContentsIs

LEMMA ThenInv ==
  ASSUME NEW n, Kept(buckets', n, count'), cap' \in Sizes, oom' \in BOOLEAN,
         returned' \in Items \cup {NULL}
  PROVE  MapInv'
<1>1. Cardinality(DOMAIN buckets') = n /\ buckets' # << >> /\ count' \in Nat
  BY KeptFacts
<1>2. nbuckets' = n /\ Live'
  BY <1>1 DEF nbuckets, Live
<1>3. cap' \in Nat
  BY SizeLarge
<1> QED BY <1>1, <1>2, <1>3 DEF MapInv

LEMMA NothingHeld ==
  ASSUME NEW b, Occupied(b) = {}
  PROVE  ContentsOf(b) = << >>
<1>1. {b[i].hash : i \in Occupied(b)} = {}
  OBVIOUS
<1> QED BY <1>1 DEF ContentsOf

LEMMA BlankKept ==
  ASSUME NEW n \in Sizes
  PROVE  Kept(Blank(n), n, 0) /\ ContentsOf(Blank(n)) = << >>
<1>1. n \in Nat /\ n # 0
  BY SizeLarge
<1>2. Sound(Blank(n), n) /\ Occupied(Blank(n)) = {}
  BY <1>1, BlankSound
<1>3. Cardinality({}) = 0
  BY FS_EmptySet
<1>4. 0 <= growat(n)
  BY <1>1, growatRoom
<1> QED BY <1>2, <1>3, <1>4, NothingHeld DEF Kept

LEMMA NoMap ==
  ASSUME NEW b, b = << >>
  PROVE  ContentsOf(b) = << >> /\ DOMAIN b = {}
<1>1. DOMAIN b = {}
  OBVIOUS
<1>2. Occupied(b) = {}
  BY <1>1 DEF Occupied
<1> QED BY <1>1, <1>2, NothingHeld

-----------------------------------------------------------------------------
(* Each operation keeps the invariant and is one of the dictionary's. *)
Refined == [Abstract!Next]_<<Contents, returned, oom>>

LEMMA InitStep ==
  ASSUME Init
  PROVE  MapInv /\ Abstract!Init
<1>1. buckets = << >> /\ cap = 0 /\ count = 0 /\ oom = FALSE /\ returned = NULL
  BY DEF Init
<1>2. Contents = << >>
  BY <1>1, NoMap, ContentsIs
<1>3. Abstract!Init
  BY <1>1, <1>2 DEF Abstract!Init
<1>4. ~Live
  BY <1>1 DEF Live
<1>5. MapInv
  BY <1>1, <1>4 DEF MapInv
<1> QED BY <1>3, <1>5

LEMMA NewStep ==
  ASSUME MapInv, NEW c \in Capacities, hashmap_new(c)
  PROVE  MapInv' /\ Refined
<1> DEFINE n == Rounded(c)
<1>1. /\ ~Live /\ cap' = n /\ buckets' = Blank(n)
      /\ count' = count /\ oom' = oom /\ returned' = returned
  BY DEF hashmap_new
<1>2. n \in Sizes
  BY HashMapAssumption, RoundedUp
<1> HIDE DEF n
<1>3. Kept(buckets', n, 0) /\ Contents' = << >>
  BY <1>1, <1>2, BlankKept, ContentsIs
<1>4. count' = 0 /\ oom' \in BOOLEAN /\ returned' \in Items \cup {NULL}
  BY <1>1 DEF MapInv
<1>5. MapInv'
  BY <1>1, <1>2, <1>3, <1>4, ThenInv
<1>6. Contents = << >>
  BY <1>1, NoMap, ContentsIs DEF Live
<1> QED BY <1>1, <1>3, <1>5, <1>6 DEF Refined

LEMMA FreeStep ==
  ASSUME MapInv, hashmap_free
  PROVE  MapInv' /\ Refined
<1>1. buckets' = << >> /\ cap' = 0 /\ count' = 0 /\ oom' = FALSE /\ returned' = NULL
  BY DEF hashmap_free
<1>2. Contents' = << >>
  BY <1>1, NoMap, ContentsIs
<1>3. ~Live'
  BY <1>1 DEF Live
<1>4. MapInv'
  BY <1>1, <1>3 DEF MapInv
<1>5. Abstract!Clear
  BY <1>1, <1>2 DEF Abstract!Clear
<1> QED BY <1>4, <1>5 DEF Refined, Abstract!Next

LEMMA ClearStep ==
  ASSUME MapInv, NEW update_cap \in BOOLEAN, hashmap_clear(update_cap)
  PROVE  MapInv' /\ Refined
<1>1. /\ Live /\ count' = 0 /\ cap' = (IF update_cap THEN nbuckets ELSE cap)
      /\ buckets' = Blank(cap') /\ returned' = NULL /\ oom' = oom
  BY DEF hashmap_clear
<1>2. Kept(buckets, nbuckets, count) /\ cap \in Sizes
  BY <1>1, Now
<1>3. cap' \in Sizes
  <2>1. nbuckets \in Sizes
    BY <1>2 DEF Kept
  <2> QED BY <1>1, <1>2, <2>1
<1>4. Kept(buckets', cap', count') /\ Contents' = << >>
  BY <1>1, <1>3, BlankKept, ContentsIs
<1>5. oom' \in BOOLEAN /\ returned' \in Items \cup {NULL}
  BY <1>1 DEF MapInv
<1>6. MapInv'
  BY <1>3, <1>4, <1>5, ThenInv
<1>7. Abstract!Clear
  BY <1>1, <1>4 DEF Abstract!Clear
<1> QED BY <1>6, <1>7 DEF Refined, Abstract!Next

LEMMA SetFailsStep ==
  ASSUME MapInv, SetFails
  PROVE  MapInv' /\ Refined
<1>1. /\ Live /\ oom' = TRUE /\ returned' = NULL /\ buckets' = buckets /\ cap' = cap
      /\ count' = count
  BY DEF SetFails
<1>2. Contents' = Contents
  BY <1>1, ContentsIs
<1>3. MapInv'
  BY <1>1 DEF MapInv, Live, nbuckets
<1>4. Abstract!SetFails
  BY <1>1, <1>2 DEF Abstract!SetFails
<1> QED BY <1>3, <1>4 DEF Refined, Abstract!Next

(* What is under the hash of an item *)
LEMMA Under ==
  ASSUME MapInv, Live, NEW item \in Items
  PROVE  /\ Hash(item) \in Nat
         /\ Find(Hash(item)) \in 0 .. nbuckets - 1
         /\ buckets[Find(Hash(item))].item = Entry(Contents, Hash(item))
         /\ buckets[Find(Hash(item))].item \in Items \cup {NULL}
         /\ buckets[Find(Hash(item))].dib # 0 =>
              buckets[Find(Hash(item))].hash = Hash(item)
         /\ buckets[Find(Hash(item))].dib = 0 => Hash(item) \notin DOMAIN Contents
<1> DEFINE h == Hash(item)
           i == Find(h)
<1>1. /\ Kept(buckets, nbuckets, count) /\ Sound(buckets, nbuckets)
      /\ Holds(Pairs(buckets), Contents) /\ DOMAIN Contents = Hashes(buckets)
  BY Now
<1>2. DOMAIN buckets = 0 .. nbuckets - 1 /\ Cardinality(Occupied(buckets)) < nbuckets
  BY <1>1, KeptFacts
<1>3. h \in Nat
  BY HashMapAssumption
<1> HIDE DEF h
<1>4. CASE h \in Hashes(buckets)
  <2>1. PICK j \in Occupied(buckets) : buckets[j].hash = h
    BY <1>4 DEF Hashes
  <2>2. j \in 0 .. nbuckets - 1 /\ buckets[j].dib # 0
    BY <1>2, <2>1 DEF Occupied
  <2>3. i = j
    BY <1>1, <2>1, <2>2, FindStored
  <2>4. buckets[j].item \in Items
    BY <1>1, <2>2 DEF Sound, Filled
  <2>5. Contents[h] = buckets[j].item
    <3>1. Pair(buckets[j]) \in Pairs(buckets)
      BY DEF Pairs, Pair
    <3>2. Pair(buckets[j])[1] = h /\ Pair(buckets[j])[2] = buckets[j].item
      BY <2>1 DEF Pair
    <3> QED BY <1>1, <3>1, <3>2 DEF Holds
  <2>6. Entry(Contents, h) = buckets[j].item
    BY <1>1, <1>4, <2>5 DEF Entry
  <2> HIDE DEF i
  <2> QED BY <1>3, <2>1, <2>2, <2>3, <2>4, <2>6 DEF i, h
<1>5. CASE h \notin Hashes(buckets)
  <2>1. i \in 0 .. nbuckets - 1 /\ buckets[i].dib = 0
    BY <1>1, <1>2, <1>3, <1>5, FindMissing
  <2>2. buckets[i] = EMPTY
    BY <1>1, <2>1 DEF Sound, Filled
  <2>3. Entry(Contents, h) = NULL
    BY <1>1, <1>5 DEF Entry
  <2> HIDE DEF i
  <2>4. buckets[i].item = NULL
    BY <2>2 DEF EMPTY
  <2> QED BY <1>1, <1>3, <1>5, <2>1, <2>3, <2>4 DEF i, h
<1> QED BY <1>4, <1>5

LEMMA GetStep ==
  ASSUME MapInv, NEW item \in Items, hashmap_get(item)
  PROVE  MapInv' /\ Refined
<1>1. /\ Live /\ returned' = buckets[Find(Hash(item))].item
      /\ buckets' = buckets /\ cap' = cap /\ count' = count /\ oom' = oom
  BY DEF hashmap_get
<1>2. returned' = Entry(Contents, Hash(item)) /\ returned' \in Items \cup {NULL}
  BY <1>1, Under
<1>3. Contents' = Contents
  BY <1>1, ContentsIs
<1>4. MapInv'
  BY <1>1, <1>2 DEF MapInv, Live, nbuckets
<1>5. Abstract!Get(item)
  BY <1>1, <1>2, <1>3 DEF Abstract!Get, Abstract!Under, Entry
<1> QED BY <1>4, <1>5 DEF Refined, Abstract!Next

LEMMA SetStep ==
  ASSUME MapInv, NEW item \in Items, hashmap_set(item)
  PROVE  MapInv' /\ Refined
<1> DEFINE h == Hash(item)
           g == IF count = growat(nbuckets) THEN resize(buckets, nbuckets * 2)
                ELSE buckets
           done == Store(g, h, item, "set")
<1>1. /\ Live /\ buckets' = done.table /\ returned' = done.replaced
      /\ count' = (IF done.replaced = NULL THEN count + 1 ELSE count)
      /\ oom' = FALSE /\ cap' = cap
  BY DEF hashmap_set
<1>2. /\ Kept(buckets, nbuckets, count) /\ cap \in Sizes
      /\ Holds(Pairs(buckets), Contents)
  BY <1>1, Now
<1>3. h \in Nat
  BY HashMapAssumption
<1>4. g = (IF count = growat(nbuckets) THEN resize(buckets, nbuckets * 2) ELSE buckets)
      /\ done = Store(g, h, item, "set")
  OBVIOUS
<1> HIDE DEF g, done, h
<1>5. /\ \E size \in Sizes :
           Kept(done.table, size, IF done.replaced = NULL THEN count + 1 ELSE count)
      /\ Holds(Pairs(done.table), Added(Contents, h, item))
      /\ done.replaced = Entry(Contents, h) /\ done.replaced \in Items \cup {NULL}
  BY <1>2, <1>3, <1>4, SetResult
<1>6. PICK size \in Sizes : Kept(buckets', size, count')
  BY <1>1, <1>5
<1>7. MapInv'
  BY <1>1, <1>2, <1>5, <1>6, ThenInv
<1>8. Contents' = Added(Contents, h, item)
  BY <1>1, <1>5, <1>6, Then
<1>9. Abstract!Set(item)
  BY <1>1, <1>5, <1>8 DEF Abstract!Set, Abstract!Under, Entry, Added, h
<1> QED BY <1>7, <1>9 DEF Refined, Abstract!Next

LEMMA DeleteStep ==
  ASSUME MapInv, NEW item \in Items, hashmap_delete(item)
  PROVE  MapInv' /\ Refined
<1> DEFINE h == Hash(item)
           i == Find(h)
           c == Closed(buckets, i)
<1>1. Live /\ returned' = buckets[i].item /\ oom' = FALSE /\ cap' = cap
  BY DEF hashmap_delete
<1>2. /\ h \in Nat /\ i \in 0 .. nbuckets - 1
      /\ returned' = Entry(Contents, h) /\ returned' \in Items \cup {NULL}
      /\ buckets[i].dib # 0 => buckets[i].hash = h
      /\ buckets[i].dib = 0 => h \notin DOMAIN Contents
  BY <1>1, Under
<1>3. /\ Kept(buckets, nbuckets, count) /\ cap \in Sizes
      /\ Holds(Pairs(buckets), Contents)
  BY <1>1, Now
<1>4. CASE buckets[i].dib = 0
  <2>1. buckets' = buckets /\ count' = count
    BY <1>4 DEF hashmap_delete
  <2>2. MapInv'
    BY <1>1, <1>2, <2>1 DEF MapInv, Live, nbuckets
  <2>3. Contents' = Contents
    BY <2>1, ContentsIs
  <2>4. Contents = [x \in DOMAIN Contents |-> Contents[x]]
    BY <1>3 DEF Holds
  <2>5. Contents' = Removed(Contents, h)
    <3>1. DOMAIN Contents \ {h} = DOMAIN Contents
      BY <1>2, <1>4
    <3> QED BY <2>3, <2>4, <3>1 DEF Removed
  <2>6. Abstract!Delete(item)
    BY <1>1, <1>2, <2>5 DEF Abstract!Delete, Abstract!Under, Entry, Removed
  <2> QED BY <2>2, <2>6 DEF Refined, Abstract!Next
<1>5. CASE buckets[i].dib # 0
  <2>1. /\ count' = count - 1
        /\ \/ buckets' = c
           \/ /\ nbuckets > cap /\ count - 1 <= shrinkat(nbuckets)
              /\ buckets' = resize(c, nbuckets \div 2)
    BY <1>5 DEF hashmap_delete
  <2>2. Kept(c, nbuckets, count - 1) /\ Holds(Pairs(c), Removed(Contents, h))
    BY <1>2, <1>3, <1>5, DeleteResult
  <2> HIDE DEF c, i, h
  <2>3. PICK n : Kept(buckets', n, count') /\ Pairs(buckets') = Pairs(c)
    <3>1. CASE buckets' = c
      BY <2>1, <2>2, <3>1
    <3>2. CASE buckets' # c
      <4>1. /\ nbuckets > cap /\ count - 1 <= shrinkat(nbuckets)
            /\ buckets' = resize(c, nbuckets \div 2)
        BY <2>1, <3>2
      <4>2. cap < nbuckets
        <5>1. nbuckets \in Nat /\ cap \in Nat
          BY <1>3, KeptFacts, SizeLarge
        <5> QED BY <4>1, <5>1
      <4>3. /\ Kept(resize(c, nbuckets \div 2), nbuckets \div 2, count - 1)
            /\ Pairs(resize(c, nbuckets \div 2)) = Pairs(c)
        BY <1>3, <2>2, <4>1, <4>2, Shrunk
      <4> QED BY <2>1, <4>1, <4>3
    <3> QED BY <3>1, <3>2
  <2>4. MapInv'
    BY <1>1, <1>2, <1>3, <2>3, ThenInv
  <2>5. Contents' = Removed(Contents, h)
    BY <2>2, <2>3, Then
  <2>6. Abstract!Delete(item)
    BY <1>1, <1>2, <2>5 DEF Abstract!Delete, Abstract!Under, Entry, Removed, h
  <2> QED BY <2>4, <2>6 DEF Refined, Abstract!Next
<1> QED BY <1>4, <1>5

LEMMA MapStep ==
  ASSUME MapInv, [Next]_mapVars
  PROVE  MapInv' /\ Refined
<1>1. ASSUME NEW c \in Capacities, hashmap_new(c) PROVE MapInv' /\ Refined
  BY <1>1, NewStep
<1>2. ASSUME NEW item \in Items, hashmap_set(item) PROVE MapInv' /\ Refined
  BY <1>2, SetStep
<1>3. ASSUME NEW item \in Items, hashmap_get(item) PROVE MapInv' /\ Refined
  BY <1>3, GetStep
<1>4. ASSUME NEW item \in Items, hashmap_delete(item) PROVE MapInv' /\ Refined
  BY <1>4, DeleteStep
<1>5. ASSUME SetFails PROVE MapInv' /\ Refined
  BY <1>5, SetFailsStep
<1>6. ASSUME NEW update_cap \in BOOLEAN, hashmap_clear(update_cap)
      PROVE  MapInv' /\ Refined
  BY <1>6, ClearStep
<1>7. ASSUME hashmap_free PROVE MapInv' /\ Refined
  BY <1>7, FreeStep
<1>8. ASSUME UNCHANGED mapVars PROVE MapInv' /\ Refined
  <2>1. buckets' = buckets /\ cap' = cap /\ count' = count /\ oom' = oom
        /\ returned' = returned
    BY <1>8 DEF mapVars
  <2>2. Contents' = Contents
    BY <2>1, ContentsIs
  <2> QED BY <2>1, <2>2 DEF MapInv, Live, nbuckets, Refined
<1> QED BY <1>1, <1>2, <1>3, <1>4, <1>5, <1>6, <1>7, <1>8 DEF Next

LEMMA MapInvAlways == Spec => []MapInv
<1>1. Init => MapInv
  BY InitStep
<1>2. MapInv /\ [Next]_mapVars => MapInv'
  BY MapStep
<1> QED BY <1>1, <1>2, PTL DEF Spec

-----------------------------------------------------------------------------
(***************************************************************************)
(* The map stays well formed: buckets numbered from 0, a count, a flag and *)
(* a returned item or none, in whatever order items are set, deleted and   *)
(* cleared.                                                                *)
(***************************************************************************)
THEOREM MapTypeCorrect == Spec => []MapTypeOK
<1>1. MapInv => MapTypeOK
  <2> SUFFICES ASSUME MapInv PROVE MapTypeOK
    OBVIOUS
  <2>1. cap \in Nat /\ count \in Nat /\ oom \in BOOLEAN /\ returned \in Items \cup {NULL}
    BY DEF MapInv
  <2>2. (\A i \in DOMAIN buckets : buckets[i] \in bucket) /\ DOMAIN buckets = 0 .. nbuckets - 1
    <3>1. CASE Live
      <4>1. Sound(buckets, nbuckets)
        BY <3>1, Now
      <4> QED BY <4>1, SoundType
    <3>2. CASE ~Live
      <4>1. DOMAIN buckets = {}
        BY <3>2, NoMap DEF Live
      <4>2. nbuckets = 0
        BY <4>1, FS_EmptySet DEF nbuckets
      <4> QED BY <4>1, <4>2
    <3> QED BY <3>1, <3>2
  <2> QED BY <2>1, <2>2 DEF MapTypeOK
<1> QED BY <1>1, MapInvAlways, PTL

(***************************************************************************)
(* Every entry can be found: no sequence of displacements, shifts, grows   *)
(* and shrinks leaves an empty bucket between an entry and its home.       *)
(***************************************************************************)
THEOREM NoGapsAlways == Spec => []NoGaps
<1>1. MapInv => NoGaps
  <2> SUFFICES ASSUME MapInv, NEW i \in Visited
               PROVE  /\ (buckets[i].hash + (buckets[i].dib - 1)) % nbuckets = i
                      /\ \A k \in 0 .. buckets[i].dib - 1 :
                           (buckets[i].hash + k) % nbuckets \in Visited
    BY DEF NoGaps
  <2>1. Live
    BY NoMap DEF Live, Visited
  <2>2. Sound(buckets, nbuckets)
    BY <2>1, Now
  <2>3. /\ nbuckets \in Nat /\ nbuckets # 0 /\ DOMAIN buckets = 0 .. nbuckets - 1
        /\ \A j \in 0 .. nbuckets - 1 : buckets[j].dib \in Nat /\ buckets[j].hash \in Nat
    BY <2>2, SoundType
  <2>4. i \in 0 .. nbuckets - 1 /\ buckets[i].dib # 0
    BY <2>3 DEF Visited
  <2>5. (buckets[i].hash + (buckets[i].dib - 1)) % nbuckets = i
    BY <2>2, <2>4 DEF Sound, Filled, Fits
  <2>6. ASSUME NEW k \in 0 .. buckets[i].dib - 1
        PROVE  (buckets[i].hash + k) % nbuckets \in Visited
    <3> DEFINE p == (buckets[i].hash + k) % nbuckets
    <3>1. buckets[p].dib >= k + 1
      BY <2>2, <2>4, Trail
    <3>2. p \in 0 .. nbuckets - 1
      <4>1. buckets[i].hash + k \in Nat
        BY <2>3, <2>4
      <4> QED BY <2>3, <4>1, DivMod
    <3> HIDE DEF p
    <3>3. buckets[p].dib # 0
      BY <2>3, <2>4, <3>1, <3>2
    <3>4. p \in Visited
      BY <2>3, <3>2, <3>3 DEF Visited
    <3> QED BY <3>4 DEF p
  <2> QED BY <2>5, <2>6
<1> QED BY <1>1, MapInvAlways, PTL

(***************************************************************************)
(* dib never passes the number of entries, so its 16 bits are enough while *)
(* there are fewer than 2^16 of them: the buckets from the home of an      *)
(* entry to its own are different and all in use.                          *)
(***************************************************************************)
THEOREM DibBounded == Spec => []DibWithinCount
<1>1. MapInv => DibWithinCount
  <2> SUFFICES ASSUME MapInv, NEW i \in Visited
               PROVE  buckets[i].dib <= count
    BY DEF DibWithinCount
  <2> DEFINE n == nbuckets
             h == buckets[i].hash
             d == buckets[i].dib
             at == [k \in 0 .. d - 1 |-> (h + k) % n]
  <2>1. Live
    BY NoMap DEF Live, Visited
  <2>2. Sound(buckets, n) /\ Kept(buckets, n, count)
    BY <2>1, Now
  <2>3. /\ n \in Nat /\ n # 0 /\ DOMAIN buckets = 0 .. n - 1
        /\ \A j \in 0 .. n - 1 : buckets[j].dib \in Nat /\ buckets[j].hash \in Nat
    BY <2>2, SoundType
  <2>4. i \in 0 .. n - 1 /\ d # 0 /\ d \in Nat /\ h \in Nat
    BY <2>3 DEF Visited
  <2>5. d <= n
    BY <2>2, <2>4 DEF Sound, Filled
  <2>6. Visited = Occupied(buckets) /\ IsFiniteSet(Visited)
        /\ Cardinality(Visited) = count
    <3>1. Visited = Occupied(buckets)
      BY DEF Visited, Occupied
    <3> QED BY <2>2, <2>3, <3>1, SizeOf, KeptFacts
  <2>7. ASSUME NEW k \in 0 .. d - 1
        PROVE  (h + k) % n \in Visited
    <3> DEFINE p == (h + k) % n
    <3>1. buckets[p].dib >= k + 1
      BY <2>2, <2>4, Trail
    <3>2. p \in 0 .. n - 1
      <4>1. h + k \in Nat
        BY <2>4
      <4> QED BY <2>3, <4>1, DivMod
    <3> HIDE DEF p, n, h, d
    <3>3. buckets[p].dib # 0
      BY <2>3, <2>4, <3>1, <3>2
    <3>4. p \in Visited
      BY <2>3, <3>2, <3>3 DEF Visited
    <3> QED BY <3>4 DEF p
  <2>8. at \in Injection(0 .. d - 1, Visited)
    <3>1. at \in [0 .. d - 1 -> Visited]
      BY <2>7
    <3>2. ASSUME NEW j \in 0 .. d - 1, NEW k \in 0 .. d - 1, at[j] = at[k]
          PROVE  j = k
      <4>1. (h + j) % n = (h + k) % n
        BY <3>2
      <4> HIDE DEF n, h, d, at
      <4>2. j \in 0 .. n - 1 /\ k \in 0 .. n - 1
        BY <2>3, <2>4, <2>5
      <4> QED BY <2>3, <2>4, <4>1, <4>2, ProbeOnce
    <3> HIDE DEF n, h, d, at
    <3> QED BY <3>1, <3>2, Fun_IsInj
  <2> HIDE DEF n, h, d, at
  <2>9. IsFiniteSet(0 .. d - 1) /\ Cardinality(0 .. d - 1) = d
    BY <2>4, FS_Interval
  <2>10. Cardinality(0 .. d - 1) <= Cardinality(Visited)
    BY <2>6, <2>8, FS_Injection
  <2> QED BY <2>6, <2>9, <2>10 DEF d
<1> QED BY <1>1, MapInvAlways, PTL

(***************************************************************************)
(* The loops end: count is the number of entries and never passes the      *)
(* threshold that hashmap_set tests for equality, so a bucket is empty.    *)
(***************************************************************************)
THEOREM RoomLeftAlways == Spec => []RoomLeft
<1>1. MapInv => RoomLeft
  <2> SUFFICES ASSUME MapInv, Live
               PROVE  /\ count = Cardinality(Visited) /\ count <= growat(nbuckets)
                      /\ count < nbuckets
    BY DEF RoomLeft
  <2>1. Kept(buckets, nbuckets, count)
    BY Now
  <2>2. Visited = Occupied(buckets)
    BY DEF Visited, Occupied
  <2> QED BY <2>1, <2>2, KeptFacts
<1> QED BY <1>1, MapInvAlways, PTL

(***************************************************************************)
(* The map is a dictionary of hashes: every operation on the table returns *)
(* and leaves what the one of the dictionary does.                         *)
(***************************************************************************)
THEOREM MapIsDictionary == Spec => ImplementsDictionary
<1>1. Init => Abstract!Init
  BY InitStep
<1>2. MapInv /\ [Next]_mapVars => [Abstract!Next]_<<Contents, returned, oom>>
  BY MapStep DEF Refined
<1> QED BY <1>1, <1>2, MapInvAlways, PTL DEF Spec, ImplementsDictionary, Abstract!Spec
=============================================================================
