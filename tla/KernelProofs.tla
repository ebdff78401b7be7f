----------------------------- MODULE KernelProofs -----------------------------
(***************************************************************************)
(* Proofs about the parts of the Lunee kernel: its caches and handles, for *)
(* any number of slots, files and pictures; the desktop, for any screen,   *)
(* applications and windows; the drawing calls, for any screen, rotations  *)
(* and rectangles; the runs of modules, for any modules, limits and number *)
(* of runs; and the boot, for any volumes, media, bundles and cuts.        *)
(***************************************************************************)
EXTENDS KernelParts, FiniteSetTheorems, WellFoundedInduction, TLAPS

\* A set of numbers has a least one.
LEMMA LeastNumber ==
  ASSUME NEW S \in SUBSET Nat, S # {}
  PROVE  \E n \in S : \A m \in S : n <= m
<1>1. PICK n \in S : \A m \in S : ~(<<m, n>> \in OpToRel(<, Nat))
  BY NatLessThanWellFounded, WFMin
<1>2. \A m \in S : ~(m < n)
  BY <1>1 DEF OpToRel
<1> QED BY <1>2

\* A set that has 0, and the next of each of its numbers, has all of them.
LEMMA AllNumbers ==
  ASSUME NEW S, 0 \in S, \A n \in Nat : n \in S => n + 1 \in S
  PROVE  Nat \subseteq S
<1> DEFINE T == {n \in Nat : n \notin S}
<1> SUFFICES ASSUME T # {} PROVE FALSE
  OBVIOUS
<1>1. PICK n \in T : \A m \in T : n <= m
  BY LeastNumber
<1>2. n - 1 \in Nat /\ n - 1 \notin T
  BY <1>1
<1> QED BY <1>1, <1>2

\* The runs of a step from a first value, up to a number of steps.
Runs(n, first, step, S) ==
  {g \in [0..n -> S] : g[0] = first /\ \A k \in 0..n - 1 : g[k + 1] = step[g[k]]}

LEMMA RunExists ==
  ASSUME NEW S, NEW first \in S, NEW step \in [S -> S], NEW n \in Nat
  PROVE  Runs(n, first, step, S) # {}
<1> DEFINE T == {k \in Nat : Runs(k, first, step, S) # {}}
<1>1. 0 \in T
  <2> DEFINE g == [k \in 0..0 |-> first]
  <2>1. g \in [0..0 -> S] /\ g[0] = first
    OBVIOUS
  <2> HIDE DEF g
  <2> QED BY <2>1 DEF Runs
<1>2. ASSUME NEW k \in Nat, k \in T PROVE k + 1 \in T
  <2>1. PICK g \in [0..k -> S] : g[0] = first /\ \A j \in 0..k - 1 : g[j + 1] = step[g[j]]
    BY <1>2 DEF Runs
  <2> DEFINE h == [j \in 0..k + 1 |-> IF j = k + 1 THEN step[g[k]] ELSE g[j]]
  <2>2. h \in [0..k + 1 -> S]
    <3>1. \A j \in 0..k + 1 : j = k + 1 \/ j \in 0..k
      OBVIOUS
    <3>2. g[k] \in S
      BY <2>1
    <3> QED BY <2>1, <3>1, <3>2
  <2>3. h[k + 1] = step[g[k]] /\ \A j \in 0..k : h[j] = g[j]
    OBVIOUS
  <2> HIDE DEF h
  <2>4. \A j \in 0..(k + 1) - 1 : h[j + 1] = step[h[j]]
    <3> TAKE j \in 0..(k + 1) - 1
    <3>1. CASE j = k
      BY <2>3, <3>1
    <3>2. CASE j # k
      <4>1. j \in 0..k - 1 /\ j \in 0..k /\ j + 1 \in 0..k
        BY <3>2
      <4> QED BY <2>1, <2>3, <4>1
    <3> QED BY <3>1, <3>2
  <2>5. h[0] = first
    BY <2>1, <2>3
  <2> QED BY <2>2, <2>4, <2>5 DEF Runs
<1> HIDE DEF T
<1>3. Nat \subseteq T
  BY <1>1, <1>2, AllNumbers
<1> QED BY <1>3 DEF T

LEMMA RunsAgree ==
  ASSUME NEW S, NEW first \in S, NEW step \in [S -> S], NEW m \in Nat, NEW n \in Nat,
         NEW g \in Runs(m, first, step, S), NEW h \in Runs(n, first, step, S)
  PROVE  \A k \in 0..m : k \in 0..n => g[k] = h[k]
<1> DEFINE T == {k \in Nat : k \in 0..m /\ k \in 0..n => g[k] = h[k]}
<1>0. /\ g[0] = first /\ h[0] = first
      /\ \A k \in 0..m - 1 : g[k + 1] = step[g[k]]
      /\ \A k \in 0..n - 1 : h[k + 1] = step[h[k]]
  BY DEF Runs
<1>1. 0 \in T
  BY <1>0
<1>2. ASSUME NEW k \in Nat, k \in T PROVE k + 1 \in T
  <2> SUFFICES ASSUME k + 1 \in 0..m, k + 1 \in 0..n PROVE g[k + 1] = h[k + 1]
    OBVIOUS
  <2>1. k \in 0..m - 1 /\ k \in 0..n - 1 /\ k \in 0..m /\ k \in 0..n
    OBVIOUS
  <2> QED BY <1>0, <1>2, <2>1
<1> HIDE DEF T
<1>3. Nat \subseteq T
  BY <1>1, <1>2, AllNumbers
<1> QED BY <1>3 DEF T

\* There is a function that starts at a first value and goes on by steps.
Numbers == {Nat} \cup {0..n : n \in Nat}
Repeated(D, first, step, S) ==
  {g \in [D -> S] : \A k \in D : g[k] = IF k = 0 THEN first ELSE step[g[k - 1]]}

LEMMA Repeats ==
  ASSUME NEW S, NEW first \in S, NEW step \in [S -> S], NEW D \in Numbers
  PROVE  Repeated(D, first, step, S) # {}
<1> DEFINE run(n) == CHOOSE g \in Runs(n, first, step, S) : TRUE
           g == [k \in D |-> run(k)[k]]
<1>1. D \subseteq Nat /\ 0 \in D /\ \A k \in D : k # 0 => k - 1 \in D
  BY DEF Numbers
<1>2. \A n \in Nat : run(n) \in Runs(n, first, step, S)
  BY RunExists
<1> HIDE DEF run
<1>3. \A n \in Nat : /\ run(n) \in [0..n -> S] /\ run(n)[0] = first
                     /\ \A k \in 0..n - 1 : run(n)[k + 1] = step[run(n)[k]]
  BY <1>2 DEF Runs
<1>4. \A k \in D : g[k] \in S
  <2> TAKE k \in D
  <2>1. k \in Nat /\ k \in 0..k
    BY <1>1
  <2> QED BY <1>3, <2>1
<1>5. ASSUME NEW k \in D, k # 0 PROVE g[k] = step[g[k - 1]]
  <2>1. k \in Nat /\ k - 1 \in Nat /\ k - 1 \in D /\ (k - 1) + 1 = k
        /\ k - 1 \in 0..k - 1 /\ k - 1 \in 0..k
    BY <1>1, <1>5
  <2>2. run(k)[(k - 1) + 1] = step[run(k)[k - 1]]
    BY <1>3, <2>1
  <2>3. run(k)[k - 1] = run(k - 1)[k - 1]
    BY <1>2, <2>1, RunsAgree
  <2> QED BY <2>1, <2>2, <2>3
<1>6. g[0] = first
  BY <1>1, <1>3
<1>7. g \in [D -> S]
  BY <1>4
<1> HIDE DEF g
<1> QED BY <1>5, <1>6, <1>7 DEF Repeated

-----------------------------------------------------------------------------
(* Files: SrfsCache.                                                       *)

LEMMA SlotsAreNumbers == NSlots \in Nat
BY PathsAssumption

LEMMA FirstIsIn ==
  ASSUME NEW S \in SUBSET Slots, S # {}
  PROVE  First(S) \in S
<1>1. S \in SUBSET Nat
  BY DEF Slots
<1>2. \E i \in S : \A j \in S : i <= j
  BY <1>1, LeastNumber
<1> QED BY <1>2 DEF First

\* What a write stores goes to an empty slot, or else over a file of the chain.
LEMMA PutGoes ==
  ASSUME NEW c \in [Slots -> File \cup {None}], NEW p \in Paths,
         NEW data \in SUBSET Entries
  PROVE  /\ Put(c, p, data) \in [Slots -> File \cup {None}]
         /\ \/ Put(c, p, data) = c /\ \A i \in Slots : c[i] # None
            \/ \E i \in Slots :
                 /\ Put(c, p, data) = [c EXCEPT ![i] = [path |-> p, data |-> data]]
                 /\ c[i] = None \/ (c[i] # None /\ c[i].path \in Chain
                                    /\ \A j \in Slots : c[j] # None)
<1> DEFINE empty == {i \in Slots : c[i] = None}
           S == IF empty # {} THEN empty ELSE Overwritable(c)
<1>1. Put(c, p, data) = IF S = {} THEN c ELSE [c EXCEPT ![First(S)] = [path |-> p, data |-> data]]
  BY DEF Put
<1>2. [path |-> p, data |-> data] \in File
  BY DEF File
<1>3. CASE S = {}
  <2>1. empty = {}
    BY <1>3
  <2> QED BY <1>1, <1>3, <2>1
<1>4. CASE S # {}
  <2>1. S \in SUBSET Slots
    BY DEF Overwritable
  <2>2. First(S) \in S
    BY <1>4, <2>1, FirstIsIn
  <2>3. Put(c, p, data) = [c EXCEPT ![First(S)] = [path |-> p, data |-> data]]
    BY <1>1, <1>4
  <2>4. c[First(S)] = None \/ (c[First(S)] # None /\ c[First(S)].path \in Chain
                               /\ \A j \in Slots : c[j] # None)
    BY <2>2 DEF Overwritable
  <2> DEFINE i == First(S)
  <2>5. i \in Slots
    BY <2>1, <2>2
  <2> HIDE DEF i
  <2>6. Put(c, p, data) \in [Slots -> File \cup {None}]
    BY <1>2, <2>3, <2>5 DEF i
  <2> QED BY <2>3, <2>4, <2>5, <2>6 DEF i
<1> QED BY <1>3, <1>4

\* Ranks above one that moves to the top close the gap.
LEMMA LowerRank ==
  ASSUME NEW n \in Nat, NEW q \in 1..n, NEW r \in 1..n, q > r
  PROVE  q - 1 \in 1..n
OBVIOUS

LEMMA TouchedIsTyped ==
  ASSUME rank \in [Slots -> Slots], NEW i \in Slots
  PROVE  Touched(i) \in [Slots -> Slots]
<1>1. NSlots \in Slots
  BY SlotsAreNumbers DEF Slots
<1>2. ASSUME NEW j \in Slots, rank[j] > rank[i] PROVE rank[j] - 1 \in Slots
  BY <1>2, LowerRank, SlotsAreNumbers DEF Slots
<1> QED BY <1>1, <1>2 DEF Touched

LEMMA NoneIsNoFile == None \notin File
BY PathsAssumption DEF File, Paths

\* What is known, in a cache, of the files that are nowhere else: one that was never
\* written is in no slot, and one that was written once in one slot, as it was written.
Keeps(c, w, last, q) ==
  /\ w[q] = 0 => \A i \in Slots : c[i] # None => c[i].path # q
  /\ w[q] = 1 => \E i \in Slots :
       /\ c[i] # None /\ c[i].path = q /\ c[i].data = last[q]
       /\ \A j \in Slots : c[j] # None /\ c[j].path = q => j = i
KeepsAll(c, w, last) == \A q \in Own : Keeps(c, w, last, q)

\* A write into a cache with room keeps that.
LEMMA PutKeeps ==
  ASSUME NEW c \in [Slots -> File \cup {None}], NEW w \in [Own -> 0..2],
         NEW last \in [Own -> SUBSET Entries], NEW p \in Own, NEW data \in SUBSET Entries,
         KeepsAll(c, w, last), \E i \in Slots : c[i] = None
  PROVE  KeepsAll(Put(c, p, data), Count(w, p), [last EXCEPT ![p] = data])
<1> DEFINE d == Put(c, p, data)
           x == Count(w, p)
           l == [last EXCEPT ![p] = data]
<1>1. p \in Paths
  BY DEF Own, Paths
<1>2. PICK i \in Slots : d = [c EXCEPT ![i] = [path |-> p, data |-> data]] /\ c[i] = None
  BY <1>1, PutGoes
<1>3. /\ d \in [Slots -> File \cup {None}]
      /\ d[i] = [path |-> p, data |-> data] /\ d[i] # None
      /\ \A j \in Slots : j # i => d[j] = c[j]
  <2>1. [path |-> p, data |-> data] \in File
    BY <1>1 DEF File
  <2> QED BY <1>2, <2>1, NoneIsNoFile
<1>4. /\ x[p] = IF w[p] = 0 THEN 1 ELSE 2
      /\ \A q \in Own : q # p => x[q] = w[q] /\ l[q] = last[q]
      /\ l[p] = data
  BY DEF Count
<1> HIDE DEF d, x, l
<1>5. ASSUME NEW q \in Own PROVE Keeps(d, x, l, q)
  <2>0. Keeps(c, w, last, q)
    BY DEF KeepsAll
  <2>1. CASE q # p
    <3>1. x[q] = w[q] /\ l[q] = last[q]
      BY <1>4, <2>1
    <3>2. ASSUME w[q] = 0 PROVE \A j \in Slots : d[j] # None => d[j].path # q
      BY <1>3, <2>0, <2>1, <3>2 DEF Keeps
    <3>3. ASSUME w[q] = 1
          PROVE  \E k \in Slots :
                   /\ d[k] # None /\ d[k].path = q /\ d[k].data = last[q]
                   /\ \A j \in Slots : d[j] # None /\ d[j].path = q => j = k
      <4>1. PICK k \in Slots :
              /\ c[k] # None /\ c[k].path = q /\ c[k].data = last[q]
              /\ \A j \in Slots : c[j] # None /\ c[j].path = q => j = k
        BY <2>0, <3>3 DEF Keeps
      <4>2. k # i
        BY <1>2, <4>1
      <4> QED BY <1>3, <2>1, <4>1, <4>2
    <3> QED BY <3>1, <3>2, <3>3 DEF Keeps
  <2>2. CASE q = p /\ w[p] = 0
    <3>1. \A j \in Slots : d[j] # None /\ d[j].path = p => j = i
      BY <1>3, <2>0, <2>2 DEF Keeps
    <3> QED BY <1>3, <1>4, <2>2, <3>1 DEF Keeps
  <2>3. CASE q = p /\ w[p] # 0
    BY <1>4, <2>3 DEF Keeps
  <2> QED BY <2>1, <2>2, <2>3
<1> QED BY <1>5 DEF KeepsAll, d, x, l

SrfsInv == SrfsTypeOK /\ FontsStay /\ (~crowded => KeepsAll(cache, writes, wrote))

\* A path with one slot is read from it.
LEMMA KeptIsRead ==
  ASSUME SrfsInv
  PROVE  WrittenOnceIsRead
<1> SUFFICES ASSUME ~crowded, NEW p \in Own, writes[p] = 1 PROVE ReadFile(p) = wrote[p]
  BY DEF WrittenOnceIsRead
<1>1. PICK i \in Slots :
        /\ cache[i] # None /\ cache[i].path = p /\ cache[i].data = wrote[p]
        /\ \A j \in Slots : cache[j] # None /\ cache[j].path = p => j = i
  BY DEF SrfsInv, KeepsAll, Keeps
<1>2. Having(p) = {i}
  BY <1>1 DEF Having, Filled
<1>3. First(Having(p)) = i
  BY <1>2, FirstIsIn
<1> QED BY <1>1, <1>2, <1>3 DEF ReadFile

\* Typing of the state of the cache, at a later state.
LEMMA SrfsInvNext ==
  SrfsInv' <=>
    /\ cache' \in [Slots -> File \cup {None}] /\ rank' \in [Slots -> Slots]
    /\ held' \subseteq Slots \X Fonts /\ crowded' \in BOOLEAN
    /\ writes' \in [Own -> 0..2] /\ wrote' \in [Own -> SUBSET Entries]
    /\ \A h \in held' : cache'[h[1]] # None /\ cache'[h[1]].path = h[2]
    /\ ~crowded' => KeepsAll(cache', writes', wrote')
BY DEF SrfsInv, SrfsTypeOK, FontsStay

LEMMA HitKeepsFiles ==
  ASSUME SrfsInv, NEW p \in Fonts \cup Assets, Hit(p)
  PROVE  SrfsInv'
<1>1. PICK i \in Slots :
        /\ Having(p) # {} /\ i = First(Having(p)) /\ rank' = Touched(i)
        /\ held' = IF p \in Fonts THEN held \cup {<<i, p>>} ELSE held
        /\ UNCHANGED <<cache, writes, wrote, crowded>>
  BY DEF Hit
<1>2. i \in Having(p)
  BY <1>1, FirstIsIn DEF Having, Filled
<1>3. cache[i] # None /\ cache[i].path = p
  BY <1>2 DEF Having, Filled
<1>4. rank' \in [Slots -> Slots]
  BY <1>1, TouchedIsTyped DEF SrfsInv, SrfsTypeOK
<1> QED BY <1>1, <1>3, <1>4, SrfsInvNext DEF SrfsInv, SrfsTypeOK, FontsStay

LEMMA LoadKeepsFiles ==
  ASSUME SrfsInv, NEW p \in Fonts \cup Assets, Load(p)
  PROVE  SrfsInv'
<1> DEFINE f == [path |-> p, data |-> {}]
<1>1. PICK i \in Slots :
        /\ Registered(i) /\ cache' = [cache EXCEPT ![i] = f] /\ rank' = Touched(i)
        /\ held' = IF p \in Fonts THEN held \cup {<<i, p>>} ELSE held
        /\ crowded' = (crowded \/ Empty = {}) /\ UNCHANGED <<writes, wrote>>
  BY DEF Load
<1>2. f \in File /\ f # None /\ f.path = p
  <2>1. f \in File
    BY DEF File, Paths
  <2> QED BY <2>1, NoneIsNoFile
<1> HIDE DEF f
<1>3. cache[i] = None \/ (Empty = {} /\ cache[i] # None /\ cache[i].path \notin Fonts)
  <2>1. CASE Empty # {}
    <3>1. First(Empty) \in Empty
      BY <2>1, FirstIsIn DEF Empty
    <3> QED BY <1>1, <2>1, <3>1 DEF Registered, Empty, Filled
  <2>2. CASE Empty = {}
    BY <1>1, <2>2 DEF Registered, Evictable, Filled
  <2> QED BY <2>1, <2>2
<1>4. /\ cache' \in [Slots -> File \cup {None}] /\ cache'[i] = f
      /\ \A j \in Slots : j # i => cache'[j] = cache[j]
  BY <1>1, <1>2 DEF SrfsInv, SrfsTypeOK
<1>5. rank' \in [Slots -> Slots]
  BY <1>1, TouchedIsTyped DEF SrfsInv, SrfsTypeOK
<1>6. ASSUME NEW h \in held' PROVE cache'[h[1]] # None /\ cache'[h[1]].path = h[2]
  <2>1. CASE h \in held
    <3>1. h[1] \in Slots /\ h[2] \in Fonts /\ cache[h[1]] # None /\ cache[h[1]].path = h[2]
      BY <2>1 DEF SrfsInv, SrfsTypeOK, FontsStay
    <3>2. h[1] # i
      BY <1>3, <3>1
    <3> QED BY <1>4, <3>1, <3>2
  <2>2. CASE h = <<i, p>>
    BY <1>2, <1>4, <2>2
  <2> QED BY <1>1, <2>1, <2>2
<1>7. held' \subseteq Slots \X Fonts
  BY <1>1 DEF SrfsInv, SrfsTypeOK
<1>8. ASSUME ~crowded' PROVE KeepsAll(cache', writes', wrote')
  <2>1. ~crowded /\ cache[i] = None
    BY <1>1, <1>3, <1>8
  <2> SUFFICES ASSUME NEW q \in Own PROVE Keeps(cache', writes, wrote, q)
    BY <1>1 DEF KeepsAll
  <2>2. p # q
    BY PathsAssumption DEF Own
  <2>3. Keeps(cache, writes, wrote, q)
    BY <2>1 DEF SrfsInv, KeepsAll
  <2>4. \A j \in Slots : cache'[j] # None /\ cache'[j].path = q
          <=> cache[j] # None /\ cache[j].path = q
    BY <1>2, <1>4, <2>1, <2>2
  <2>5. \A j \in Slots : cache[j] # None => cache'[j] = cache[j]
    BY <1>4, <2>1
  <2> QED BY <2>3, <2>4, <2>5 DEF Keeps
<1> QED BY <1>1, <1>4, <1>5, <1>6, <1>7, <1>8, SrfsInvNext DEF SrfsInv, SrfsTypeOK

\* A write never takes a font's slot.
LEMMA PutKeepsFonts ==
  ASSUME NEW c \in [Slots -> File \cup {None}], NEW p \in Own, NEW data \in SUBSET Entries,
         NEW h \in Slots \X Fonts, c[h[1]] # None, c[h[1]].path = h[2]
  PROVE  Put(c, p, data)[h[1]] # None /\ Put(c, p, data)[h[1]].path = h[2]
<1>1. p \in Paths
  BY DEF Own, Paths
<1>2. h[2] \notin Chain
  BY PathsAssumption
<1>3. CASE Put(c, p, data) = c
  BY <1>3
<1>4. CASE \E i \in Slots : /\ Put(c, p, data) = [c EXCEPT ![i] = [path |-> p, data |-> data]]
                            /\ c[i] = None \/ c[i].path \in Chain
  BY <1>2, <1>4
<1> QED BY <1>1, <1>3, <1>4, PutGoes

LEMMA CountIsTyped ==
  ASSUME NEW w \in [Own -> 0..2], NEW p \in Own
  PROVE  Count(w, p) \in [Own -> 0..2]
BY DEF Count

LEMMA WriteKeepsFiles ==
  ASSUME SrfsInv, NEW p \in Own, NEW data \in SUBSET Entries, WriteFile(p, data)
  PROVE  SrfsInv'
<1>1. /\ cache' = Put(cache, p, data) /\ writes' = Count(writes, p)
      /\ wrote' = [wrote EXCEPT ![p] = data]
      /\ crowded' = (crowded \/ Empty = {}) /\ UNCHANGED <<rank, held>>
  BY DEF WriteFile
<1>2. p \in Paths
  BY DEF Own, Paths
<1>3. SrfsTypeOK /\ FontsStay /\ (~crowded => KeepsAll(cache, writes, wrote))
  BY DEF SrfsInv
<1>4. cache' \in [Slots -> File \cup {None}] /\ writes' \in [Own -> 0..2]
  BY <1>1, <1>2, <1>3, PutGoes, CountIsTyped DEF SrfsTypeOK
<1>5. \A h \in held' : cache'[h[1]] # None /\ cache'[h[1]].path = h[2]
  BY <1>1, <1>3, PutKeepsFonts DEF SrfsTypeOK, FontsStay
<1>6. ASSUME ~crowded' PROVE KeepsAll(cache', writes', wrote')
  <2>1. ~crowded /\ \E i \in Slots : cache[i] = None
    BY <1>1, <1>6 DEF Empty, Filled
  <2> QED BY <1>1, <1>3, <2>1, PutKeeps DEF SrfsTypeOK
<1> QED BY <1>1, <1>3, <1>4, <1>5, <1>6, SrfsInvNext DEF SrfsTypeOK

\* A transaction and its receipt are written into two slots, if there are two.
LEMMA QueueKeepsFiles ==
  ASSUME SrfsInv, NEW tx \in Chain, NEW receipt \in Chain, QueueTx(tx, receipt)
  PROVE  SrfsInv'
<1>1. PICK e \in Entries, hasBundle \in BOOLEAN :
        LET queued == Put(cache, tx, {e}) IN
        IF hasBundle
        THEN /\ cache' = Put(queued, receipt, {e})
             /\ writes' = Count(Count(writes, tx), receipt)
             /\ wrote' = [wrote EXCEPT ![tx] = {e}, ![receipt] = {e}]
             /\ crowded' = (crowded \/ Empty = {} \/ \A i \in Slots : queued[i] # None)
        ELSE /\ cache' = queued /\ writes' = Count(writes, tx)
             /\ wrote' = [wrote EXCEPT ![tx] = {e}]
             /\ crowded' = (crowded \/ Empty = {})
  BY DEF QueueTx
<1>2. tx \in Own /\ receipt \in Own /\ {e} \in SUBSET Entries
  BY DEF Own
<1>3. CASE ~hasBundle
  <2>1. WriteFile(tx, {e})
    BY <1>1, <1>3 DEF WriteFile, QueueTx
  <2> QED BY <1>2, <2>1, WriteKeepsFiles
<1>4. CASE hasBundle
  <2> DEFINE c == Put(cache, tx, {e})
             w == Count(writes, tx)
             l == [wrote EXCEPT ![tx] = {e}]
  <2>1. /\ cache' = Put(c, receipt, {e}) /\ writes' = Count(w, receipt)
        /\ wrote' = [l EXCEPT ![receipt] = {e}]
        /\ crowded' = (crowded \/ Empty = {} \/ \A i \in Slots : c[i] # None)
    BY <1>1, <1>4
  <2>2. SrfsTypeOK /\ FontsStay /\ (~crowded => KeepsAll(cache, writes, wrote))
    BY DEF SrfsInv
  <2>3. /\ c \in [Slots -> File \cup {None}] /\ w \in [Own -> 0..2]
        /\ l \in [Own -> SUBSET Entries]
    <3>1. tx \in Paths
      BY <1>2 DEF Own, Paths
    <3> QED BY <1>2, <2>2, <3>1, PutGoes, CountIsTyped DEF SrfsTypeOK
  <2>4. \A h \in held : c[h[1]] # None /\ c[h[1]].path = h[2]
    BY <1>2, <2>2, PutKeepsFonts DEF SrfsTypeOK, FontsStay
  <2>5. ASSUME ~crowded' PROVE KeepsAll(c, w, l) /\ \E i \in Slots : c[i] = None
    <3>1. ~crowded /\ \E i \in Slots : cache[i] = None
      BY <2>1, <2>5 DEF Empty, Filled
    <3>2. KeepsAll(c, w, l)
      BY <1>2, <2>2, <3>1, PutKeeps DEF SrfsTypeOK
    <3> QED BY <2>1, <2>5, <3>2
  <2> HIDE DEF c, w, l
  <2>6. UNCHANGED <<rank, held>>
    BY DEF QueueTx
  <2>7. /\ cache' \in [Slots -> File \cup {None}] /\ writes' \in [Own -> 0..2]
        /\ wrote' \in [Own -> SUBSET Entries]
    <3>1. receipt \in Paths
      BY <1>2 DEF Own, Paths
    <3> QED BY <1>2, <2>1, <2>3, <3>1, PutGoes, CountIsTyped
  <2>8. \A h \in held' : cache'[h[1]] # None /\ cache'[h[1]].path = h[2]
    BY <1>2, <2>1, <2>2, <2>3, <2>4, <2>6, PutKeepsFonts DEF SrfsTypeOK
  <2>9. ~crowded' => KeepsAll(cache', writes', wrote')
    BY <1>2, <2>1, <2>3, <2>5, PutKeeps
  <2>10. crowded' \in BOOLEAN /\ rank' \in [Slots -> Slots] /\ held' \subseteq Slots \X Fonts
    BY <2>1, <2>2, <2>6 DEF SrfsTypeOK
  <2> QED BY <2>7, <2>8, <2>9, <2>10, SrfsInvNext
<1> QED BY <1>3, <1>4

\* Files stay where they are read, through every load and write.
LEMMA FilesStep ==
  ASSUME SrfsInv, [SrfsNext]_srfsVars
  PROVE  SrfsInv'
<1>1. ASSUME NEW p \in Written, Write(p) \/ UpdateField(p) \/ AppendIndex(p)
      PROVE  SrfsInv'
  <2>1. p \in Own
    BY DEF Own
  <2>2. ReadFile(p) \in SUBSET Entries
    <3>1. CASE Having(p) = {}
      BY <3>1 DEF ReadFile
    <3>2. CASE Having(p) # {}
      <4>1. First(Having(p)) \in Having(p)
        BY <3>2, FirstIsIn DEF Having, Filled
      <4>2. \A i \in Having(p) : cache[i].data \in SUBSET Entries
        BY DEF SrfsInv, SrfsTypeOK, Having, Filled, File
      <4> QED BY <3>2, <4>1, <4>2 DEF ReadFile
    <3> QED BY <3>1, <3>2
  <2>3. PICK data \in SUBSET Entries : WriteFile(p, data)
    <3>1. CASE Write(p) \/ UpdateField(p)
      <4>1. PICK e \in Entries : WriteFile(p, {e})
        BY <3>1 DEF Write, UpdateField
      <4> QED BY <4>1
    <3>2. CASE AppendIndex(p)
      <4>1. PICK e \in Entries : WriteFile(p, ReadFile(p) \cup {e})
        BY <3>2 DEF AppendIndex
      <4> QED BY <2>2, <4>1
    <3> QED BY <1>1, <3>1, <3>2
  <2> QED BY <2>1, <2>3, WriteKeepsFiles
<1>2. CASE UNCHANGED srfsVars
  BY <1>2, SrfsInvNext DEF SrfsInv, SrfsTypeOK, FontsStay, srfsVars
<1> QED BY <1>1, <1>2, HitKeepsFiles, LoadKeepsFiles, QueueKeepsFiles DEF SrfsNext

LEMMA FilesStart ==
  ASSUME SrfsInit
  PROVE  SrfsInv
<1>1. SrfsTypeOK /\ FontsStay
  <2>1. cache \in [Slots -> File \cup {None}] /\ rank \in [Slots -> Slots]
    BY DEF SrfsInit
  <2>2. writes \in [Own -> 0..2] /\ wrote \in [Own -> SUBSET Entries]
    BY DEF SrfsInit
  <2>3. held = {} /\ crowded = FALSE
    BY DEF SrfsInit
  <2> QED BY <2>1, <2>2, <2>3 DEF SrfsTypeOK, FontsStay
<1>2. KeepsAll(cache, writes, wrote)
  BY DEF SrfsInit, KeepsAll, Keeps
<1> QED BY <1>1, <1>2 DEF SrfsInv

-----------------------------------------------------------------------------
(* Handles: AssetHandles.                                                  *)

ImageSlots == 1..NImages
Image == [pic : Pictures, at : 1..NImages + 1]

LEMMA ImagesAreNumbered ==
  /\ NImages \in Nat /\ NImages > 0 /\ ImageSlots = Handles!Handles
  /\ Blank \notin Image
BY HandlesAssumption DEF ImageSlots, Image, Handles!Handles

\* The slots have ages 1, 2, 3...; the youngest have the last loads, in their order,
\* and the others are blank and come in their own order.
AgesInv(n) ==
  /\ images \in [ImageSlots -> Image \cup {Blank}] /\ ages \in [ImageSlots -> ImageSlots]
  /\ recent \in Seq(ImageSlots \X Pictures) /\ n = Len(recent) /\ n <= NImages
  /\ \A r \in ImageSlots : \E h \in ImageSlots : ages[h] = r
  /\ \A g, h \in ImageSlots : ages[g] = ages[h] => g = h
  /\ \A h \in ImageSlots : images[h] = Blank <=> ages[h] <= NImages - n
  /\ \A g, h \in ImageSlots : images[g] = Blank /\ images[h] = Blank /\ g < h
       => ages[g] < ages[h]
  /\ \A k \in 1..n : /\ ages[recent[k][1]] = NImages - n + k
                     /\ images[recent[k][1]].pic = recent[k][2]

\* The slot for a load is the one of age 1.
LEMMA SlotIsOldest ==
  ASSUME NEW n \in Nat, AgesInv(n)
  PROVE  Handles!ImageSlot \in ImageSlots /\ ages[Handles!ImageSlot] = 1
<1>1. PICK h \in ImageSlots : ages[h] = 1
  BY ImagesAreNumbered DEF AgesInv, ImageSlots
<1>2. CASE n < NImages
  <2>1. images[h] = Blank
    BY <1>1, <1>2, ImagesAreNumbered DEF AgesInv
  <2>2. Handles!BlankImages = {g \in ImageSlots : images[g] = Blank} /\ h \in Handles!BlankImages
    BY <1>1, <2>1, ImagesAreNumbered DEF Handles!BlankImages
  <2>3. \A g \in Handles!BlankImages : h <= g
    <3> SUFFICES ASSUME NEW g \in ImageSlots, images[g] = Blank, g < h PROVE FALSE
      BY <1>1, <2>2 DEF ImageSlots
    <3>1. ages[g] < ages[h] /\ ages[g] \in ImageSlots
      BY <2>1 DEF AgesInv
    <3> QED BY <1>1, <3>1 DEF ImageSlots
  <2>4. Handles!LowestOf(Handles!BlankImages) = h
    <3>1. \A g \in Handles!BlankImages : (\A m \in Handles!BlankImages : g <= m) => g = h
      BY <2>2, <2>3 DEF ImageSlots
    <3> QED BY <2>2, <2>3, <3>1 DEF Handles!LowestOf
  <2> QED BY <1>1, <2>2, <2>4 DEF Handles!ImageSlot
<1>3. CASE n >= NImages
  <2>1. n = NImages
    BY <1>3, ImagesAreNumbered DEF AgesInv
  <2>2. \A g \in ImageSlots : images[g] # Blank
    BY <2>1 DEF AgesInv, ImageSlots
  <2>3. Handles!BlankImages = {}
    BY <2>2, ImagesAreNumbered DEF Handles!BlankImages
  <2>4. Handles!Victim = h
    BY <1>1, ImagesAreNumbered DEF Handles!Victim, AgesInv
  <2> QED BY <1>1, <2>3, <2>4 DEF Handles!ImageSlot
<1> QED BY <1>2, <1>3, ImagesAreNumbered

LEMMA LoadKeepsAges ==
  ASSUME NEW n \in Nat, AgesInv(n), NEW pic \in Pictures, Handles!ImageLoad(pic)
  PROVE  AgesInv(IF n < NImages THEN n + 1 ELSE n)'
<1> DEFINE s == Handles!ImageSlot
           m == IF n < NImages THEN n + 1 ELSE n
<1>1. s \in ImageSlots /\ ages[s] = 1
  BY SlotIsOldest
<1>2. PICK at \in 1..NImages + 1 : images' = [images EXCEPT ![s] = [pic |-> pic, at |-> at]]
  BY DEF Handles!ImageLoad, Handles!Addresses
<1>3. /\ ages' = [h \in ImageSlots |-> IF h = s THEN NImages
                                       ELSE IF ages[h] > ages[s] THEN ages[h] - 1 ELSE ages[h]]
      /\ recent' = LET r == Append(recent, <<s, pic>>)
                   IN IF Len(r) > NImages THEN Tail(r) ELSE r
  BY ImagesAreNumbered DEF Handles!ImageLoad
<1> HIDE DEF s
<1>4. m \in Nat /\ m <= NImages /\ NImages \in Nat /\ NImages > 0
  BY ImagesAreNumbered DEF AgesInv
<1>a. /\ ages \in [ImageSlots -> ImageSlots]
      /\ \A g, h \in ImageSlots : ages[g] = ages[h] => g = h
  BY DEF AgesInv
<1>5. \A h \in ImageSlots : h # s => ages[h] \in Nat /\ ages[h] > 1 /\ ages[h] <= NImages
  <2> SUFFICES ASSUME NEW h \in ImageSlots, h # s
               PROVE  ages[h] \in Nat /\ ages[h] > 1 /\ ages[h] <= NImages
    OBVIOUS
  <2>1. ages[h] \in 1..NImages /\ ages[h] # 1
    BY <1>1, <1>a DEF ImageSlots
  <2> QED BY <1>4, <2>1
<1>6. /\ ages' \in [ImageSlots -> Int] /\ ages'[s] = NImages
      /\ \A h \in ImageSlots : h # s => ages'[h] = ages[h] - 1
  BY <1>1, <1>3, <1>4, <1>5
<1>7. /\ images' \in [ImageSlots -> Image \cup {Blank}]
      /\ images'[s] # Blank /\ images'[s].pic = pic
      /\ \A h \in ImageSlots : h # s => images'[h] = images[h]
  <2>1. [pic |-> pic, at |-> at] \in Image
    BY DEF Image
  <2> QED BY <1>1, <1>2, <2>1, ImagesAreNumbered DEF AgesInv
<1>8. /\ recent' \in Seq(ImageSlots \X Pictures) /\ Len(recent') = m
      /\ recent'[m] = <<s, pic>>
      /\ \A k \in 1..m - 1 : k + (n + 1 - m) \in 1..n /\ recent'[k] = recent[k + (n + 1 - m)]
  <2>1. recent \in Seq(ImageSlots \X Pictures) /\ Len(recent) = n /\ n <= NImages
    BY DEF AgesInv
  <2>2. CASE n < NImages
    <3>1. recent' = Append(recent, <<s, pic>>)
      <4>1. Len(Append(recent, <<s, pic>>)) = n + 1
        BY <1>1, <2>1
      <4>2. ~(n + 1 > NImages)
        BY <1>4, <2>2
      <4> QED BY <1>3, <4>1, <4>2
    <3> QED BY <1>1, <2>1, <2>2, <3>1
  <2>3. CASE n = NImages
    <3>1. recent' = Tail(Append(recent, <<s, pic>>))
      BY <1>3, <1>4, <2>1, <2>3
    <3> DEFINE all == Append(recent, <<s, pic>>)
    <3>2. /\ all \in Seq(ImageSlots \X Pictures) /\ Len(all) = n + 1 /\ all[n + 1] = <<s, pic>>
          /\ \A k \in 1..n : all[k] = recent[k]
      BY <1>1, <2>1
    <3>3. m = n /\ n > 0 /\ n + 1 - m = 1
      BY <1>4, <2>3
    <3> HIDE DEF all, m
    <3>4. /\ Tail(all) \in Seq(ImageSlots \X Pictures) /\ Len(Tail(all)) = n
          /\ \A k \in 1..n : Tail(all)[k] = all[k + 1]
      BY <3>2
    <3>5. \A k \in 1..n - 1 : k \in 1..n /\ k + 1 \in 1..n
      OBVIOUS
    <3> QED BY <3>1, <3>2, <3>3, <3>4, <3>5 DEF all
  <2> QED BY <1>4, <2>1, <2>2, <2>3
<1> HIDE DEF m
<1>9. \A h \in ImageSlots : images[h] = Blank <=> ages[h] <= NImages - n
  BY DEF AgesInv
<1>10. ages' \in [ImageSlots -> ImageSlots]
  <2>1. ASSUME NEW h \in ImageSlots PROVE ages'[h] \in ImageSlots
    <3>1. CASE h = s
      BY <1>4, <1>6, <3>1 DEF ImageSlots
    <3>2. CASE h # s
      <4>1. ages'[h] = ages[h] - 1 /\ ages[h] \in Nat /\ ages[h] > 1 /\ ages[h] <= NImages
        BY <1>5, <1>6, <3>2
      <4> QED BY <1>4, <4>1 DEF ImageSlots
    <3> QED BY <3>1, <3>2
  <2> QED BY <1>6, <2>1
<1>11. \A r \in ImageSlots : \E h \in ImageSlots : ages'[h] = r
  <2> SUFFICES ASSUME NEW r \in ImageSlots, r # NImages PROVE \E h \in ImageSlots : ages'[h] = r
    BY <1>1, <1>6
  <2>1. r + 1 \in ImageSlots
    BY <1>4 DEF ImageSlots
  <2>2. PICK h \in ImageSlots : ages[h] = r + 1
    BY <2>1 DEF AgesInv
  <2>3. h # s
    BY <1>1, <2>2 DEF ImageSlots
  <2> QED BY <1>6, <2>2, <2>3 DEF ImageSlots
<1>12. \A g, h \in ImageSlots : ages'[g] = ages'[h] => g = h
  <2> SUFFICES ASSUME NEW g \in ImageSlots, NEW h \in ImageSlots, ages'[g] = ages'[h], g # h
               PROVE  FALSE
    OBVIOUS
  <2>1. ages[g] # ages[h] /\ (g # s => ages[g] \in Nat) /\ (h # s => ages[h] \in Nat)
    BY <1>5, <1>a
  <2> QED BY <1>4, <1>5, <1>6, <2>1
<1>13. \A h \in ImageSlots : images'[h] = Blank <=> ages'[h] <= NImages - m
  <2> SUFFICES ASSUME NEW h \in ImageSlots
               PROVE  images'[h] = Blank <=> ages'[h] <= NImages - m
    OBVIOUS
  <2>1. CASE h = s
    <3>1. m > 0
      BY <1>4 DEF m
    <3> QED BY <1>4, <1>6, <1>7, <2>1, <3>1
  <2>2. CASE h # s
    <3>1. ages[h] - 1 <= NImages - m <=> ages[h] <= NImages - n
      <4>1. n <= NImages
        BY DEF AgesInv
      <4> QED BY <1>4, <1>5, <2>2, <4>1 DEF m
    <3> QED BY <1>6, <1>7, <1>9, <2>2, <3>1
  <2> QED BY <2>1, <2>2
<1>14. \A g, h \in ImageSlots : images'[g] = Blank /\ images'[h] = Blank /\ g < h
         => ages'[g] < ages'[h]
  <2> SUFFICES ASSUME NEW g \in ImageSlots, NEW h \in ImageSlots,
                      images'[g] = Blank, images'[h] = Blank, g < h
               PROVE  ages'[g] < ages'[h]
    OBVIOUS
  <2>1. g # s /\ h # s /\ images[g] = Blank /\ images[h] = Blank
    BY <1>7
  <2>2. ages[g] < ages[h]
    BY <2>1 DEF AgesInv
  <2> QED BY <1>5, <1>6, <2>1, <2>2
<1>15. \A k \in 1..m : /\ ages'[recent'[k][1]] = NImages - m + k
                       /\ images'[recent'[k][1]].pic = recent'[k][2]
  <2> SUFFICES ASSUME NEW k \in 1..m
               PROVE  /\ ages'[recent'[k][1]] = NImages - m + k
                      /\ images'[recent'[k][1]].pic = recent'[k][2]
    OBVIOUS
  <2>1. CASE k = m
    BY <1>4, <1>6, <1>7, <1>8, <2>1
  <2>2. CASE k # m
    <3> DEFINE j == k + (n + 1 - m)
    <3>1. j \in 1..n /\ recent'[k] = recent[j]
      BY <1>4, <1>8, <2>2
    <3>2. /\ ages[recent[j][1]] = NImages - n + j
          /\ images[recent[j][1]].pic = recent[j][2] /\ recent[j][1] \in ImageSlots
      BY <3>1 DEF AgesInv
    <3>3. NImages - n + j = NImages - m + k + 1 /\ NImages - m + k > 0
      BY <1>4
    <3> HIDE DEF j
    <3>4. recent[j][1] # s
      BY <1>1, <1>4, <3>2, <3>3
    <3> QED BY <1>4, <1>6, <1>7, <3>1, <3>2, <3>3, <3>4
  <2> QED BY <2>1, <2>2
<1> QED
  BY <1>4, <1>7, <1>8, <1>10, <1>11, <1>12, <1>13, <1>14, <1>15 DEF AgesInv, m

Addresses == 1..NImages + 1
Copies == [at : Addresses, size : {"own", "fitted"}, pic : Pictures]
ScaledSlots == 0..NScaled - 1

\* No two images share their pixels' address, and an image at the address of a scaled
\* copy is the one the copy was made from, unless the address was allocated again.
ApartInv ==
  /\ \A g, h \in ImageSlots :
       g # h /\ images[g] # Blank /\ images[h] # Blank => images[g].at # images[h].at
  /\ scaled \in [ScaledSlots -> Copies \cup {Blank}] /\ reused \subseteq Addresses
  /\ reused = {} => \A k \in ScaledSlots, h \in ImageSlots :
       scaled[k] # Blank /\ images[h] # Blank /\ images[h].at = scaled[k].at
         => images[h].pic = scaled[k].pic
  /\ turn \in ScaledSlots /\ drawn \in {<<>>} \cup (Pictures \X Pictures)
  /\ Handles!DrawnAsLoaded

VectorSlots == 1..NVector
VectorInv ==
  /\ vectors \in [Handles!Kinds -> [VectorSlots -> Drawings \cup {Blank}]]
  /\ holders \subseteq Handles!Held /\ recycled \subseteq Handles!Kinds
  /\ Handles!HeldVectorsKept

HandlesInv == (\E n \in Nat : AgesInv(n)) /\ ApartInv /\ VectorInv

LEMMA CopiesAreNumbered ==
  /\ NScaled \in Nat /\ NScaled > 0 /\ Blank \notin Copies /\ Addresses = Handles!Addresses
  /\ ScaledSlots = 0..NScaled - 1
BY HandlesAssumption DEF Addresses, Copies, Handles!Addresses, ScaledSlots

LEMMA HandlesInvHolds ==
  ASSUME HandlesInv
  PROVE  Handles!HandlesTypeOK /\ Handles!HandlesDenote
<1>1. PICK n \in Nat : AgesInv(n)
  BY DEF HandlesInv
<1>2. ASSUME NEW k \in DOMAIN recent
      PROVE  images[recent[k][1]] # Blank /\ images[recent[k][1]].pic = recent[k][2]
  <2>1. k \in 1..n /\ recent[k][1] \in ImageSlots
    BY <1>1 DEF AgesInv
  <2>2. ages[recent[k][1]] = NImages - n + k /\ images[recent[k][1]].pic = recent[k][2]
    BY <1>1, <2>1 DEF AgesInv
  <2>3. ~(NImages - n + k <= NImages - n)
    BY <1>1, <2>1, ImagesAreNumbered
  <2> QED BY <1>1, <2>1, <2>2, <2>3 DEF AgesInv
<1>3. Handles!LastLoadsKept
  BY <1>2, ImagesAreNumbered DEF HandlesInv, ApartInv, Handles!LastLoadsKept
<1>4. Handles!HandlesDenote
  BY <1>3 DEF HandlesInv, ApartInv, VectorInv, Handles!HandlesDenote
<1>5. /\ images \in [Handles!Handles -> Handles!Image \cup {Blank}]
      /\ ages \in [Handles!Handles -> Handles!Handles]
      /\ recent \in Seq(Handles!Handles \X Pictures)
  BY <1>1, ImagesAreNumbered DEF AgesInv, Image, Handles!Image, Handles!Addresses
<1>6. /\ scaled \in [0..NScaled - 1 -> [at : Handles!Addresses, size : Handles!Sizes,
                                         pic : Pictures] \cup {Blank}]
      /\ turn \in 0..NScaled - 1 /\ drawn \in {<<>>} \cup (Pictures \X Pictures)
      /\ reused \subseteq Handles!Addresses
  BY DEF HandlesInv, ApartInv, Copies, ScaledSlots, Addresses, Handles!Addresses, Handles!Sizes
<1>7. /\ vectors \in [Handles!Kinds -> [Handles!VectorHandles -> Drawings \cup {Blank}]]
      /\ holders \subseteq Handles!Held /\ recycled \subseteq Handles!Kinds
  BY DEF HandlesInv, VectorInv, VectorSlots, Handles!VectorHandles
<1> QED BY <1>4, <1>5, <1>6, <1>7 DEF Handles!HandlesTypeOK

\* A load takes an address that no image has.
LEMMA LoadKeepsApart ==
  ASSUME NEW n \in Nat, AgesInv(n), ApartInv, NEW pic \in Pictures, Handles!ImageLoad(pic)
  PROVE  ApartInv'
<1> DEFINE s == Handles!ImageSlot
<1>1. s \in ImageSlots
  BY SlotIsOldest
<1>2. PICK at \in Addresses \ Handles!Live :
        /\ images' = [images EXCEPT ![s] = [pic |-> pic, at |-> at]]
        /\ reused' = IF at \in Handles!Keys THEN reused \cup {at} ELSE reused
  BY CopiesAreNumbered DEF Handles!ImageLoad
<1> HIDE DEF s
<1>3. UNCHANGED <<scaled, turn, drawn>>
  BY DEF Handles!ImageLoad
<1>4. /\ images'[s].at = at /\ images'[s].pic = pic
      /\ \A h \in ImageSlots : h # s => images'[h] = images[h]
  BY <1>1, <1>2 DEF AgesInv
<1>5. \A h \in ImageSlots : images[h] # Blank => images[h].at # at
  BY <1>2, ImagesAreNumbered DEF Handles!Live
<1>6. \A g, h \in ImageSlots :
        g # h /\ images'[g] # Blank /\ images'[h] # Blank => images'[g].at # images'[h].at
  BY <1>4, <1>5 DEF ApartInv
<1>7. ASSUME reused' = {}, NEW k \in ScaledSlots, NEW h \in ImageSlots, scaled[k] # Blank,
             images'[h] # Blank, images'[h].at = scaled[k].at
      PROVE  images'[h].pic = scaled[k].pic
  <2>1. reused = {} /\ at \notin Handles!Keys
    BY <1>2, <1>7
  <2>2. scaled[k].at # at
    <3>1. DOMAIN scaled = ScaledSlots
      BY DEF ApartInv
    <3> QED BY <1>7, <2>1, <3>1 DEF Handles!Keys
  <2>3. h # s
    BY <1>4, <1>7, <2>2
  <2> QED BY <1>4, <1>7, <2>1, <2>3 DEF ApartInv
<1>8. reused' \subseteq Addresses /\ (reused' = {} => reused = {})
  BY <1>2 DEF ApartInv
<1>9. (Handles!DrawnAsLoaded)'
  BY <1>3, <1>8 DEF ApartInv, Handles!DrawnAsLoaded
<1> QED BY <1>3, <1>6, <1>7, <1>8, <1>9 DEF ApartInv

\* A draw leaves the images, and makes a copy of the picture it draws.
LEMMA DrawKeepsApart ==
  ASSUME NEW n \in Nat, AgesInv(n), ApartInv, NEW h \in ImageSlots,
         Handles!DrawSmall(h) \/ \E size \in {"own", "fitted"} : Handles!DrawLarge(h, size)
  PROVE  ApartInv' /\ AgesInv(n)'
<1>1. AgesInv(n)'
  <2>1. UNCHANGED <<images, ages, recent>>
    <3>1. CASE Handles!DrawSmall(h)
      BY <3>1 DEF Handles!DrawSmall
    <3>2. ASSUME NEW size \in {"own", "fitted"}, Handles!DrawLarge(h, size)
          PROVE  UNCHANGED <<images, ages, recent>>
      BY <3>2 DEF Handles!DrawLarge
    <3> QED BY <3>1, <3>2
  <2> QED BY <2>1 DEF AgesInv
<1>2. images[h] # Blank /\ images[h] \in Image
  <2>1. images[h] # Blank
    <3>1. CASE Handles!DrawSmall(h)
      BY <3>1 DEF Handles!DrawSmall
    <3>2. ASSUME NEW size \in {"own", "fitted"}, Handles!DrawLarge(h, size)
          PROVE  images[h] # Blank
      BY <3>2 DEF Handles!DrawLarge
    <3> QED BY <3>1, <3>2
  <2>2. images \in [ImageSlots -> Image \cup {Blank}]
    BY DEF AgesInv
  <2> QED BY <2>1, <2>2
<1>3. images[h].pic \in Pictures /\ images[h].at \in Addresses
  BY <1>2 DEF Image, Addresses
<1>4. ASSUME Handles!DrawSmall(h)
      PROVE  ApartInv'
  <2>1. UNCHANGED <<images, scaled, turn, reused>> /\ drawn' = <<images[h].pic, images[h].pic>>
    BY <1>4 DEF Handles!DrawSmall
  <2>2. drawn' \in Pictures \X Pictures /\ (Handles!DrawnAsLoaded)'
    BY <1>3, <2>1 DEF Handles!DrawnAsLoaded
  <2> QED BY <2>1, <2>2 DEF ApartInv
<1>5. ASSUME NEW size \in {"own", "fitted"}, Handles!DrawLarge(h, size)
      PROVE  ApartInv'
  <2> DEFINE copies == Handles!CopiesFor(images[h].at, size)
             copy == [at |-> images[h].at, size |-> size, pic |-> images[h].pic]
  <2>1. UNCHANGED <<images, reused>>
    BY <1>5 DEF Handles!DrawLarge
  <2>2. CASE copies # {}
    <3>1. copies \in SUBSET ScaledSlots /\ copies \in SUBSET Nat
      BY CopiesAreNumbered DEF Handles!CopiesFor, ApartInv
    <3>2. Handles!LowestOf(copies) \in copies
      BY <2>2, <3>1, LeastNumber DEF Handles!LowestOf
    <3> DEFINE k == Handles!LowestOf(copies)
    <3>3. k \in ScaledSlots /\ scaled[k] # Blank /\ scaled[k].at = images[h].at
      BY <3>1, <3>2 DEF Handles!CopiesFor
    <3>4. drawn' = <<images[h].pic, scaled[k].pic>> /\ UNCHANGED <<scaled, turn>>
      BY <1>5, <2>2 DEF Handles!DrawLarge
    <3> HIDE DEF k
    <3>5. scaled[k].pic \in Pictures
      BY <3>3 DEF ApartInv, Copies
    <3>6. reused = {} => images[h].pic = scaled[k].pic
      BY <1>2, <3>3 DEF ApartInv
    <3>7. drawn' \in Pictures \X Pictures /\ (reused' = {} => drawn'[1] = drawn'[2])
      BY <1>3, <2>1, <3>4, <3>5, <3>6
    <3> QED BY <2>1, <3>4, <3>7 DEF ApartInv, Handles!DrawnAsLoaded
  <2>3. CASE copies = {}
    <3>1. /\ scaled' = [scaled EXCEPT ![turn] = copy] /\ turn' = (turn + 1) % NScaled
          /\ drawn' = <<images[h].pic, images[h].pic>>
      BY <1>5, <2>3 DEF Handles!DrawLarge
    <3>2. copy \in Copies /\ copy.at = images[h].at /\ copy.pic = images[h].pic
      BY <1>3 DEF Copies
    <3> HIDE DEF copy
    <3>3. /\ scaled' \in [ScaledSlots -> Copies \cup {Blank}] /\ turn \in ScaledSlots
          /\ scaled'[turn] = copy
          /\ \A k \in ScaledSlots : k # turn => scaled'[k] = scaled[k]
      BY <3>1, <3>2 DEF ApartInv
    <3>4. turn' \in ScaledSlots
      <4>1. turn + 1 \in Nat
        BY <3>3, CopiesAreNumbered
      <4> HIDE DEF copies
      <4>2. (turn + 1) % NScaled \in 0..NScaled - 1
        BY <4>1, CopiesAreNumbered
      <4> QED BY <3>1, <4>2, CopiesAreNumbered
    <3>5. ASSUME reused = {}, NEW k \in ScaledSlots, NEW g \in ImageSlots, scaled'[k] # Blank,
                 images[g] # Blank, images[g].at = scaled'[k].at
          PROVE  images[g].pic = scaled'[k].pic
      <4>1. CASE k = turn
        <5>1. g = h
          BY <1>2, <3>2, <3>3, <3>5, <4>1 DEF ApartInv
        <5> QED BY <3>2, <3>3, <4>1, <5>1
      <4>2. CASE k # turn
        BY <3>3, <3>5, <4>2 DEF ApartInv
      <4> QED BY <4>1, <4>2
    <3>6. drawn' \in Pictures \X Pictures /\ drawn'[1] = drawn'[2]
      BY <1>3, <3>1
    <3> QED BY <2>1, <3>3, <3>4, <3>5, <3>6 DEF ApartInv, Handles!DrawnAsLoaded
  <2> QED BY <2>2, <2>3
<1> QED BY <1>1, <1>4, <1>5

LEMMA VectorsAreNumbered ==
  /\ NVector \in Nat /\ NVector > 0 /\ VectorSlots = Handles!VectorHandles
  /\ 1 \in VectorSlots /\ Blank \notin Drawings
BY HandlesAssumption DEF VectorSlots, Handles!VectorHandles

\* A load takes an empty slot, or makes its kind one that has recycled.
LEMMA VectorLoadKeeps ==
  ASSUME VectorInv, NEW kind \in Handles!Kinds, NEW asset \in Drawings,
         Handles!VectorLoad(kind, asset)
  PROVE  VectorInv'
<1> DEFINE h == Handles!VectorSlot(kind)
           new == [kind |-> kind, handle |-> h, asset |-> asset]
<1>1. h \in VectorSlots /\ (Handles!BlankVectors(kind) # {} => vectors[kind][h] = Blank)
  <2>1. CASE Handles!BlankVectors(kind) # {}
    <3>1. Handles!BlankVectors(kind) \in SUBSET Nat
      BY DEF Handles!BlankVectors, Handles!VectorHandles
    <3>2. Handles!LowestOf(Handles!BlankVectors(kind)) \in Handles!BlankVectors(kind)
      BY <2>1, <3>1, LeastNumber DEF Handles!LowestOf
    <3>3. h \in Handles!BlankVectors(kind)
      BY <2>1, <3>2 DEF Handles!VectorSlot
    <3> QED BY <3>3, VectorsAreNumbered DEF Handles!BlankVectors
  <2>2. CASE Handles!BlankVectors(kind) = {}
    BY <2>2, VectorsAreNumbered DEF Handles!VectorSlot
  <2> QED BY <2>1, <2>2
<1>2. /\ vectors' = [vectors EXCEPT ![kind][h] = asset] /\ holders' = holders \cup {new}
      /\ recycled' = IF Handles!BlankVectors(kind) = {} THEN recycled \cup {kind} ELSE recycled
  BY DEF Handles!VectorLoad
<1>3. new \in Handles!Held /\ new.kind = kind /\ new.handle = h /\ new.asset = asset
  BY <1>1, VectorsAreNumbered DEF Handles!Held
<1> HIDE DEF h, new
<1>4. /\ vectors' \in [Handles!Kinds -> [VectorSlots -> Drawings \cup {Blank}]]
      /\ vectors'[kind][h] = asset
      /\ \A g \in VectorSlots : g # h => vectors'[kind][g] = vectors[kind][g]
      /\ \A k \in Handles!Kinds : k # kind => vectors'[k] = vectors[k]
  BY <1>1, <1>2 DEF VectorInv
<1>5. \A held1 \in holders : /\ held1.kind \in Handles!Kinds /\ held1.handle \in VectorSlots
                             /\ held1.asset \in Drawings
  BY VectorsAreNumbered DEF VectorInv, Handles!Held
<1>6. kind \notin recycled' => \A held1 \in holders : held1.kind = kind => held1.handle # h
  <2> SUFFICES ASSUME kind \notin recycled', NEW held1 \in holders, held1.kind = kind,
                      held1.handle = h
               PROVE  FALSE
    OBVIOUS
  <2>1. Handles!BlankVectors(kind) # {} /\ kind \notin recycled
    BY <1>2
  <2>2. vectors[kind][h] = held1.asset
    BY <2>1 DEF VectorInv, Handles!HeldVectorsKept
  <2> QED BY <1>1, <1>5, <2>1, <2>2, VectorsAreNumbered
<1>7. recycled \subseteq recycled' /\ recycled' \subseteq Handles!Kinds
  BY <1>2 DEF VectorInv
<1>8. ASSUME NEW held1 \in holders', held1.kind \notin recycled'
      PROVE  /\ vectors'[held1.kind][held1.handle] = held1.asset
             /\ \A other \in holders' :
                  other.kind = held1.kind /\ other.handle = held1.handle => other = held1
  <2>1. CASE held1 = new
    BY <1>2, <1>3, <1>4, <1>6, <1>8, <2>1
  <2>2. CASE held1 # new
    <3>1. held1 \in holders /\ held1.kind \notin recycled
      BY <1>2, <1>7, <1>8, <2>2
    <3>2. /\ vectors[held1.kind][held1.handle] = held1.asset
          /\ \A other \in holders :
               other.kind = held1.kind /\ other.handle = held1.handle => other = held1
      BY <3>1 DEF VectorInv, Handles!HeldVectorsKept
    <3>3. held1.kind = kind => held1.handle # h
      BY <1>6, <1>8, <3>1
    <3>4. vectors'[held1.kind][held1.handle] = vectors[held1.kind][held1.handle]
      BY <1>4, <1>5, <3>1, <3>3
    <3> QED BY <1>2, <1>3, <3>2, <3>3, <3>4
  <2> QED BY <2>1, <2>2
<1>9. holders' \subseteq Handles!Held
  BY <1>2, <1>3 DEF VectorInv
<1> QED BY <1>4, <1>7, <1>8, <1>9 DEF VectorInv, Handles!HeldVectorsKept

LEMMA VectorFreeKeeps ==
  ASSUME VectorInv, NEW held1 \in holders, Handles!VectorFree(held1)
  PROVE  VectorInv'
<1>1. /\ held1.kind \in Handles!Kinds /\ held1.handle \in VectorSlots
      /\ \A other \in holders : other.kind \in Handles!Kinds /\ other.handle \in VectorSlots
  BY VectorsAreNumbered DEF VectorInv, Handles!Held
<1>2. /\ vectors' = [vectors EXCEPT ![held1.kind][held1.handle] = Blank]
      /\ holders' = holders \ {held1} /\ recycled' = recycled
  BY DEF Handles!VectorFree, Handles!Freed
<1>3. /\ vectors' \in [Handles!Kinds -> [VectorSlots -> Drawings \cup {Blank}]]
      /\ \A k \in Handles!Kinds, g \in VectorSlots :
           ~(k = held1.kind /\ g = held1.handle) => vectors'[k][g] = vectors[k][g]
  BY <1>1, <1>2 DEF VectorInv
<1>4. ASSUME NEW other \in holders', other.kind \notin recycled'
      PROVE  /\ vectors'[other.kind][other.handle] = other.asset
             /\ \A third \in holders' :
                  third.kind = other.kind /\ third.handle = other.handle => third = other
  <2>1. other \in holders /\ other # held1 /\ other.kind \notin recycled
    BY <1>2, <1>4
  <2>2. /\ vectors[other.kind][other.handle] = other.asset
        /\ \A third \in holders :
             third.kind = other.kind /\ third.handle = other.handle => third = other
    BY <2>1 DEF VectorInv, Handles!HeldVectorsKept
  <2>3. ~(other.kind = held1.kind /\ other.handle = held1.handle)
    BY <2>1, <2>2
  <2> QED BY <1>1, <1>2, <1>3, <2>1, <2>2, <2>3
<1>5. holders' \subseteq Handles!Held /\ recycled' \subseteq Handles!Kinds
  BY <1>2 DEF VectorInv
<1> QED BY <1>3, <1>4, <1>5 DEF VectorInv, Handles!HeldVectorsKept

LEMMA HandlesStart ==
  ASSUME Handles!HandlesInit
  PROVE  HandlesInv
<1>1. /\ images = [h \in ImageSlots |-> Blank] /\ ages = [h \in ImageSlots |-> h]
      /\ recent = <<>> /\ scaled = [k \in ScaledSlots |-> Blank] /\ turn = 0 /\ drawn = <<>>
      /\ vectors = [kind \in Handles!Kinds |-> [h \in VectorSlots |-> Blank]]
      /\ holders = {} /\ reused = {} /\ recycled = {}
  BY ImagesAreNumbered, VectorsAreNumbered DEF Handles!HandlesInit, ScaledSlots
<1>2. AgesInv(0)
  <2>1. \A h \in ImageSlots : h \in Nat /\ h <= NImages
    BY ImagesAreNumbered DEF ImageSlots
  <2>2. Len(recent) = 0 /\ recent \in Seq(ImageSlots \X Pictures)
    BY <1>1
  <2> QED BY <1>1, <2>1, <2>2, ImagesAreNumbered DEF AgesInv
<1>3. ApartInv
  BY <1>1, CopiesAreNumbered DEF ApartInv, Handles!DrawnAsLoaded
<1>4. VectorInv
  BY <1>1 DEF VectorInv, Handles!HeldVectorsKept
<1> QED BY <1>2, <1>3, <1>4 DEF HandlesInv

\* Every step of the handles, and every step of another part, keeps the invariant.
LEMMA HandlesStep ==
  ASSUME HandlesInv, Handles!ImageNext \/ Handles!VectorNext \/ UNCHANGED handlesVars
  PROVE  HandlesInv'
<1> PICK n \in Nat : AgesInv(n)
  BY DEF HandlesInv
<1> USE DEF HandlesInv
<1>1. CASE UNCHANGED handlesVars
  <2>1. AgesInv(n)'
    BY <1>1 DEF AgesInv, handlesVars
  <2>2. ApartInv'
    BY <1>1 DEF ApartInv, handlesVars, Handles!DrawnAsLoaded
  <2>3. VectorInv'
    BY <1>1 DEF VectorInv, handlesVars, Handles!HeldVectorsKept
  <2> QED BY <2>1, <2>2, <2>3
<1>2. CASE Handles!VectorNext
  <2>1. UNCHANGED <<images, ages, scaled, turn, drawn, recent, reused>>
    BY <1>2 DEF Handles!VectorNext, Handles!VectorLoad, Handles!VectorFree
  <2>2. AgesInv(n)' /\ ApartInv'
    BY <2>1 DEF AgesInv, ApartInv, Handles!DrawnAsLoaded
  <2>3. VectorInv'
    BY <1>2, VectorLoadKeeps, VectorFreeKeeps DEF Handles!VectorNext
  <2> QED BY <2>2, <2>3
<1>3. ASSUME NEW pic \in Pictures, Handles!ImageLoad(pic)
      PROVE  HandlesInv'
  <2>1. UNCHANGED <<vectors, holders, recycled>>
    BY <1>3 DEF Handles!ImageLoad
  <2>2. VectorInv'
    BY <2>1 DEF VectorInv, Handles!HeldVectorsKept
  <2>3. (IF n < NImages THEN n + 1 ELSE n) \in Nat
    OBVIOUS
  <2>4. AgesInv(IF n < NImages THEN n + 1 ELSE n)' /\ ApartInv'
    BY <1>3, LoadKeepsAges, LoadKeepsApart
  <2> QED BY <2>2, <2>3, <2>4
<1>4. ASSUME NEW h \in ImageSlots,
             Handles!DrawSmall(h) \/ \E size \in Handles!Sizes : Handles!DrawLarge(h, size)
      PROVE  HandlesInv'
  <2>1. UNCHANGED <<vectors, holders, recycled>>
    BY <1>4 DEF Handles!DrawSmall, Handles!DrawLarge
  <2>2. VectorInv'
    BY <2>1 DEF VectorInv, Handles!HeldVectorsKept
  <2>3. Handles!DrawSmall(h) \/ \E size \in {"own", "fitted"} : Handles!DrawLarge(h, size)
    BY <1>4 DEF Handles!Sizes
  <2>4. ApartInv' /\ AgesInv(n)'
    BY <2>3, DrawKeepsApart
  <2> QED BY <2>2, <2>4
<1> QED BY <1>1, <1>2, <1>3, <1>4, ImagesAreNumbered DEF Handles!ImageNext

-----------------------------------------------------------------------------
(* The desktop: Desktop.                                                   *)

\* A press that has opened its icon's menu by its length lasts longer than that.
DesktopInv ==
  /\ Desktop!DesktopTypeOK
  /\ \A i, j \in DOMAIN windows :
       windows[i].app = windows[j].app => i = j \/ windows[i].app \in blind
  /\ \A a \in Desktop!Apps : pressed[a] <= 1 /\ (pressed[a] = 1 => hold[a] >= LongPress)
  /\ shown /\ (menu.submenu # 0 => menu.open)

LEMMA DesktopConstants ==
  /\ Width \in Nat /\ Width > 0 /\ NApps \in Nat /\ Step \in Nat /\ Throttle \in Nat
  /\ Throttle > 0 /\ LongPress \in Nat /\ LongPress > 0 /\ BootFrames \in Nat
  /\ MaxWindows \in Nat
BY DesktopAssumption

LEMMA DesktopInvHolds ==
  ASSUME DesktopInv
  PROVE  Desktop!DesktopTypeOK /\ Desktop!DesktopConsistent
<1>1. Desktop!OneWindowPerApp
  BY DEF DesktopInv, Desktop!OneWindowPerApp
<1>2. Desktop!OneMenuPerPress
  BY DEF DesktopInv, Desktop!OneMenuPerPress
<1> QED BY <1>1, <1>2 DEF DesktopInv, Desktop!DesktopConsistent, Desktop!ContentIsRecent,
                          Desktop!NoGhostSubmenu, Desktop!None0

LEMMA DesktopStart ==
  ASSUME Desktop!DesktopInit
  PROVE  DesktopInv
<1>1. Width \div 2 \in 0..Width - 1
  BY DesktopConstants
<1>2. windows \in Seq(Desktop!Window) /\ Len(windows) = 0 /\ DOMAIN windows = {}
  BY DEF Desktop!DesktopInit
<1>3. /\ frame \in 0..BootFrames /\ cursor \in Desktop!Places /\ pinned \subseteq Desktop!Apps
      /\ hold \in [Desktop!Apps -> 0..LongPress + 1] /\ dockMenu \in 0..NApps
      /\ pressed \in [Desktop!Apps -> 0..2] /\ blind \subseteq Desktop!Apps /\ shown \in BOOLEAN
  BY <1>1, DesktopConstants DEF Desktop!DesktopInit, Desktop!Places, Desktop!None0
<1>4. menu \in Desktop!Menu /\ menu.submenu = 0
  BY DesktopConstants DEF Desktop!DesktopInit, Desktop!Menu, Desktop!Closed, Desktop!None0
<1>5. \A a \in Desktop!Apps : pressed[a] = 0
  BY DEF Desktop!DesktopInit
<1> QED BY <1>2, <1>3, <1>4, <1>5, DesktopConstants
        DEF DesktopInv, Desktop!DesktopTypeOK, Desktop!DesktopInit

\* The cursor stays on the screen.
LEMMA MovesOnScreen ==
  ASSUME NEW at \in Desktop!Places, NEW dx \in Int, NEW key
  PROVE  Desktop!Moved(at, dx, key) \in Desktop!Places
<1>1. \A x \in Int : Desktop!Clamp(x) \in Desktop!Places
  BY DesktopConstants DEF Desktop!Clamp, Desktop!Places
<1>2. Desktop!Places \subseteq Int
  BY DEF Desktop!Places
<1> DEFINE from == Desktop!Clamp(at)
           relative == Desktop!Clamp(from + dx)
<1>3. relative \in Desktop!Places
  <2>1. from \in Int
    BY <1>1, <1>2
  <2> HIDE DEF from
  <2> QED BY <1>1, <2>1
<1>4. relative \in Int
  BY <1>2, <1>3
<1> HIDE DEF relative
<1>5. Desktop!Clamp(relative - Step) \in Desktop!Places
      /\ Desktop!Clamp(relative + Step) \in Desktop!Places
  BY <1>1, <1>4, DesktopConstants
<1>6. Desktop!Moved(at, dx, key) = CASE key = "arrow_left" -> Desktop!Clamp(relative - Step)
                                     [] key = "arrow_right" -> Desktop!Clamp(relative + Step)
                                     [] OTHER -> relative
  BY DEF Desktop!Moved, relative
<1> HIDE DEF from
<1> QED BY <1>3, <1>5, <1>6

\* What a frame composites are the windows it has, with content of this input or
\* younger than the throttle.
LEMMA CompositedIsRecent ==
  ASSUME NEW ws \in Seq(Desktop!Window), NEW buttons, NEW key
  PROVE  /\ Desktop!Composited(ws, buttons, key) \in Seq(Desktop!Window)
         /\ Len(Desktop!Composited(ws, buttons, key)) = Len(ws)
         /\ \A i \in 1..Len(ws) :
              LET w == Desktop!Composited(ws, buttons, key)[i]
              IN w.app = ws[i].app /\ ~w.dirty /\ w.age < Throttle
<1> DEFINE new == Desktop!Composited(ws, buttons, key)
<1>1. DOMAIN new = 1..Len(ws)
  BY DEF Desktop!Composited
<1>2. ASSUME NEW i \in 1..Len(ws)
      PROVE  /\ new[i] \in Desktop!Window /\ new[i].app = ws[i].app
             /\ ~new[i].dirty /\ new[i].age < Throttle
  <2>1. ws[i] \in Desktop!Window /\ i \in DOMAIN ws
    OBVIOUS
  <2>3. CASE Desktop!MustRender(ws[i], buttons, key)
    <3>1. new[i] = [ws[i] EXCEPT !.age = 0, !.dirty = FALSE]
      BY <2>1, <2>3, Zenon DEF Desktop!Composited
    <3>2. ws[i] = [app |-> ws[i].app, age |-> ws[i].age, dirty |-> ws[i].dirty]
          /\ ws[i].app \in Desktop!Apps
      BY <2>1 DEF Desktop!Window
    <3> HIDE DEF new
    <3>3. new[i] = [app |-> ws[i].app, age |-> 0, dirty |-> FALSE]
      BY <3>1, <3>2
    <3> QED BY <3>2, <3>3, DesktopConstants DEF Desktop!Window
  <2>4. CASE ~Desktop!MustRender(ws[i], buttons, key)
    <3>1. ~ws[i].dirty /\ ~(ws[i].age >= Throttle)
      BY <2>4 DEF Desktop!MustRender
    <3>2. new[i] = ws[i]
      BY <2>1, <2>4, Zenon DEF Desktop!Composited
    <3> HIDE DEF new
    <3> QED BY <2>1, <3>1, <3>2, DesktopConstants DEF Desktop!Window
  <2> QED BY <2>3, <2>4
<1>3. new = [i \in 1..Len(ws) |-> new[i]]
  BY DEF Desktop!Composited
<1> HIDE DEF new
<1>4. new \in Seq(Desktop!Window) /\ Len(new) = Len(ws)
  BY <1>1, <1>2, <1>3
<1> QED BY <1>2, <1>4 DEF new

\* A frame adds a window only for an application that has none.
LEMMA FrameKeepsDesktop ==
  ASSUME DesktopInv, NEW x \in Desktop!Places, NEW buttons, NEW key,
         Desktop!Frame(x, buttons, key)
  PROVE  DesktopInv'
<1>2. PICK occluded \in BOOLEAN :
        LET starts == {a \in Desktop!Apps :
                         ~occluded /\ Desktop!Launches(a, x, buttons, key)}
            opens == {a \in Desktop!Apps : ~occluded /\ Desktop!OpensDockMenu(a, x, buttons)}
        IN /\ \E new \in {<<>>} \cup {Desktop!Launched(a) : a \in starts} :
                windows' = Desktop!Composited(Desktop!Aged \o new, buttons, key)
           /\ dockMenu' = IF opens = {} THEN dockMenu ELSE CHOOSE a \in opens : TRUE
           /\ pressed' = [a \in Desktop!Apps |->
                            IF hold'[a] = 0 THEN 0
                            ELSE IF a \in opens /\ "right" \notin buttons /\ pressed[a] < 2
                                 THEN pressed[a] + 1 ELSE pressed[a]]
           /\ menu' = IF "right" \in buttons /\ ~menu.open /\ ~occluded
                         /\ ~Desktop!OverDock(x)
                      THEN [menu EXCEPT !.open = TRUE, !.items = FALSE] ELSE menu
           /\ shown' = \A i \in DOMAIN windows' :
                         ~windows'[i].dirty /\ windows'[i].age < Throttle
  BY DEF Desktop!Frame
<1>3. /\ frame = 0 /\ cursor' = x /\ hold' = Desktop!Held(x, buttons)
      /\ UNCHANGED <<frame, pinned, blind>>
  BY DEF Desktop!Frame
<1> DEFINE starts == {a \in Desktop!Apps : ~occluded /\ Desktop!Launches(a, x, buttons, key)}
           opens == {a \in Desktop!Apps : ~occluded /\ Desktop!OpensDockMenu(a, x, buttons)}
<1>4. PICK new \in {<<>>} \cup {Desktop!Launched(a) : a \in starts} :
        windows' = Desktop!Composited(Desktop!Aged \o new, buttons, key)
  BY <1>2
<1>5. windows \in Seq(Desktop!Window) /\ Len(windows) <= MaxWindows
  BY DEF DesktopInv, Desktop!DesktopTypeOK
<1>6. /\ Desktop!Aged \in Seq(Desktop!Window) /\ Len(Desktop!Aged) = Len(windows)
      /\ \A i \in 1..Len(windows) : Desktop!Aged[i].app = windows[i].app
  <2> DEFINE aged == Desktop!Aged
  <2>1. DOMAIN aged = 1..Len(windows)
    BY <1>5 DEF Desktop!Aged
  <2>2. ASSUME NEW i \in 1..Len(windows)
        PROVE  aged[i] \in Desktop!Window /\ aged[i].app = windows[i].app
    <3>1. windows[i] \in Desktop!Window /\ i \in DOMAIN windows
      BY <1>5
    <3>2. aged[i] = [windows[i] EXCEPT !.age = IF @ < Throttle THEN @ + 1 ELSE @]
      BY <3>1 DEF Desktop!Aged
    <3>3. windows[i] = [app |-> windows[i].app, age |-> windows[i].age,
                        dirty |-> windows[i].dirty]
          /\ windows[i].app \in Desktop!Apps /\ windows[i].age \in 0..Throttle
          /\ windows[i].dirty \in BOOLEAN
      BY <3>1 DEF Desktop!Window
    <3>4. (IF windows[i].age < Throttle THEN windows[i].age + 1 ELSE windows[i].age)
            \in 0..Throttle
      BY <3>3, DesktopConstants
    <3> HIDE DEF aged
    <3>5. aged[i] = [app |-> windows[i].app, dirty |-> windows[i].dirty,
                     age |-> IF windows[i].age < Throttle THEN windows[i].age + 1
                             ELSE windows[i].age]
      BY <3>2, <3>3
    <3> QED BY <3>3, <3>4, <3>5 DEF Desktop!Window
  <2>3. aged = [i \in 1..Len(windows) |-> aged[i]]
    BY <1>5 DEF Desktop!Aged
  <2> HIDE DEF aged
  <2>4. aged \in Seq(Desktop!Window) /\ Len(aged) = Len(windows)
    BY <2>1, <2>2, <2>3, <1>5
  <2> QED BY <2>2, <2>4 DEF aged
<1>7. new = <<>> \/ \E a \in starts :
        new = <<[app |-> a, age |-> 0, dirty |-> TRUE]>> /\ Len(windows) < MaxWindows
  BY <1>4 DEF Desktop!Launched
<1>8. /\ new \in Seq(Desktop!Window) /\ Len(new) \in 0..1
      /\ Len(windows) + Len(new) <= MaxWindows
      /\ Len(new) = 1 => \A i \in 1..Len(windows) : windows[i].app # new[1].app
  <2>1. CASE new = <<>>
    BY <1>5, <2>1, DesktopConstants
  <2>2. ASSUME NEW a \in starts, new = <<[app |-> a, age |-> 0, dirty |-> TRUE]>>,
               Len(windows) < MaxWindows
        PROVE  <1>8!:
    <3>1. a \in Desktop!Apps /\ ~Desktop!Open(a)
      BY DEF Desktop!Launches
    <3>2. [app |-> a, age |-> 0, dirty |-> TRUE] \in Desktop!Window
      BY <3>1, DesktopConstants DEF Desktop!Window
    <3>3. new \in Seq(Desktop!Window) /\ Len(new) = 1 /\ new[1].app = a
      BY <2>2, <3>2
    <3>4. \A i \in 1..Len(windows) : windows[i].app # a
      BY <1>5, <3>1 DEF Desktop!Open
    <3> QED BY <1>5, <2>2, <3>3, <3>4, DesktopConstants
  <2> QED BY <1>7, <2>1, <2>2
<1> DEFINE all == Desktop!Aged \o new
<1>9. /\ all \in Seq(Desktop!Window) /\ Len(all) = Len(windows) + Len(new)
      /\ \A i \in 1..Len(windows) : all[i].app = windows[i].app
      /\ Len(new) = 1 => all[Len(windows) + 1] = new[1]
  <2> DEFINE aged == Desktop!Aged
             n == Len(windows)
  <2>1. /\ aged \in Seq(Desktop!Window) /\ Len(aged) = n /\ n \in Nat
        /\ new \in Seq(Desktop!Window) /\ Len(new) \in Nat
    BY <1>5, <1>6, <1>8
  <2>2. \A i \in 1..n : aged[i].app = windows[i].app
    BY <1>6
  <2> HIDE DEF aged, n
  <2>3. /\ aged \o new \in Seq(Desktop!Window) /\ Len(aged \o new) = n + Len(new)
        /\ \A i \in 1..n : (aged \o new)[i] = aged[i]
        /\ Len(new) = 1 => (aged \o new)[n + 1] = new[1]
    BY <2>1
  <2> QED BY <2>2, <2>3 DEF aged, n
<1> HIDE DEF all
<1>10. windows' = Desktop!Composited(all, buttons, key)
  BY <1>4 DEF all
<1>11. /\ windows' \in Seq(Desktop!Window) /\ Len(windows') = Len(all)
       /\ \A i \in 1..Len(all) : /\ windows'[i].app = all[i].app /\ ~windows'[i].dirty
                                 /\ windows'[i].age < Throttle
  BY <1>9, <1>10, CompositedIsRecent
<1>12. \A i, j \in 1..Len(windows) :
         windows[i].app = windows[j].app => i = j \/ windows[i].app \in blind
  BY <1>5 DEF DesktopInv
<1>13. \A i, j \in 1..Len(all) : all[i].app = all[j].app => i = j \/ all[i].app \in blind
  <2> DEFINE n == Len(windows)
  <2>0. n \in Nat /\ Len(new) \in 0..1 /\ Len(all) = n + Len(new)
    BY <1>5, <1>8, <1>9
  <2>1. n \in Nat /\ Len(all) \in n..n + 1 /\ (Len(all) = n + 1 => Len(new) = 1)
    <3> DEFINE l == Len(new)
               m == Len(all)
    <3>1. n \in Nat /\ l \in 0..1 /\ m = n + l
      BY <2>0
    <3> HIDE DEF n, l, m
    <3>2. n \in Nat /\ m \in n..n + 1 /\ (m = n + 1 => l = 1)
      BY <3>1
    <3> QED BY <3>2 DEF l, m
  <2>2. \A i \in 1..n : all[i].app = windows[i].app
    BY <1>9
  <2>3. Len(all) = n + 1 => \A i \in 1..n : all[i].app # all[n + 1].app
    BY <1>8, <1>9, <2>1, <2>2
  <2>4. \A i, j \in 1..n : all[i].app = all[j].app => i = j \/ all[i].app \in blind
    BY <1>12, <2>2
  <2> HIDE DEF n
  <2>5. \A i \in 1..Len(all) : i \in 1..n \/ (i = n + 1 /\ Len(all) = n + 1)
    BY <2>1
  <2> QED BY <2>3, <2>4, <2>5
<1>14. /\ Len(windows') <= MaxWindows
       /\ \A i, j \in DOMAIN windows' :
            windows'[i].app = windows'[j].app => i = j \/ windows'[i].app \in blind'
  BY <1>3, <1>5, <1>8, <1>9, <1>11, <1>13
<1>15. shown'
  BY <1>2, <1>11
<1>16. dockMenu' \in 0..NApps
  <2>1. dockMenu \in 0..NApps
    BY DEF DesktopInv, Desktop!DesktopTypeOK
  <2>2. opens # {} => (CHOOSE a \in opens : TRUE) \in opens
    OBVIOUS
  <2>3. opens \subseteq 0..NApps
    BY DesktopConstants DEF Desktop!Apps
  <2>4. dockMenu' = IF opens = {} THEN dockMenu ELSE CHOOSE a \in opens : TRUE
    BY <1>2
  <2> HIDE DEF opens
  <2> QED BY <2>1, <2>2, <2>3, <2>4
<1>17. menu' \in Desktop!Menu /\ (menu'.submenu # 0 => menu'.open)
  <2>1. menu \in Desktop!Menu /\ (menu.submenu # 0 => menu.open)
    BY DEF DesktopInv, Desktop!DesktopTypeOK
  <2>2. menu' = menu \/ menu' = [menu EXCEPT !.open = TRUE, !.items = FALSE]
    BY <1>2
  <2> QED BY <2>1, <2>2 DEF Desktop!Menu
<1>18. ASSUME NEW a \in Desktop!Apps
       PROVE  /\ hold'[a] \in 0..LongPress + 1
              /\ pressed'[a] \in 0..1 /\ (pressed'[a] = 1 => hold'[a] >= LongPress)
  <2>1. /\ hold[a] \in 0..LongPress + 1 /\ pressed[a] \in 0..1
        /\ (pressed[a] = 1 => hold[a] >= LongPress)
    BY DEF DesktopInv, Desktop!DesktopTypeOK
  <2>2. hold'[a] = 0 \/ hold'[a] = IF hold[a] > LongPress THEN hold[a] ELSE hold[a] + 1
    BY <1>3 DEF Desktop!Held
  <2>3. a \in opens /\ "right" \notin buttons => hold'[a] = LongPress
    BY <1>3 DEF Desktop!OpensDockMenu, Desktop!IsLongPress
  <2>4. pressed'[a] = IF hold'[a] = 0 THEN 0
                      ELSE IF a \in opens /\ "right" \notin buttons /\ pressed[a] < 2
                           THEN pressed[a] + 1 ELSE pressed[a]
    BY <1>2
  <2> HIDE DEF opens
  <2> QED BY <2>1, <2>2, <2>3, <2>4, DesktopConstants
<1>19. hold' \in [Desktop!Apps -> 0..LongPress + 1] /\ pressed' \in [Desktop!Apps -> 0..2]
  <2>1. hold' = [a \in Desktop!Apps |-> hold'[a]] /\ pressed' = [a \in Desktop!Apps |-> pressed'[a]]
    BY <1>2, <1>3 DEF Desktop!Held
  <2>2. \A a \in Desktop!Apps : hold'[a] \in 0..LongPress + 1 /\ pressed'[a] \in 0..2
    BY <1>18, DesktopConstants
  <2> QED BY <2>1, <2>2
<1>20. /\ frame' \in 0..BootFrames /\ cursor' \in Desktop!Places
       /\ pinned' \subseteq Desktop!Apps /\ blind' \subseteq Desktop!Apps
  BY <1>3 DEF DesktopInv, Desktop!DesktopTypeOK
<1>21. \A a \in Desktop!Apps : pressed'[a] <= 1 /\ (pressed'[a] = 1 => hold'[a] >= LongPress)
  BY <1>18
<1> HIDE DEF starts, opens
<1> QED BY <1>11, <1>14, <1>15, <1>16, <1>17, <1>19, <1>20, <1>21
        DEF DesktopInv, Desktop!DesktopTypeOK

LEMMA WithoutOne ==
  ASSUME NEW S, NEW s \in Seq(S), NEW k \in 1..Len(s)
  PROVE  LET r == SubSeq(s, 1, k - 1) \o SubSeq(s, k + 1, Len(s))
         IN /\ r \in Seq(S) /\ Len(r) = Len(s) - 1
            /\ \A i \in 1..Len(r) : r[i] = s[IF i < k THEN i ELSE i + 1]
<1> DEFINE front == SubSeq(s, 1, k - 1)
           back == SubSeq(s, k + 1, Len(s))
<1>1. front \in Seq(S) /\ Len(front) = k - 1 /\ \A i \in 1..k - 1 : front[i] = s[i]
  OBVIOUS
<1>2. /\ back \in Seq(S) /\ Len(back) = Len(s) - k
      /\ \A i \in 1..Len(s) - k : back[i] = s[k + i]
  OBVIOUS
<1> HIDE DEF front, back
<1>3. front \o back \in Seq(S) /\ Len(front \o back) = Len(s) - 1
  BY <1>1, <1>2
<1>4. ASSUME NEW i \in 1..Len(s) - 1
      PROVE  (front \o back)[i] = s[IF i < k THEN i ELSE i + 1]
  <2>1. Len(s) \in Nat /\ k \in Nat /\ i \in Nat
    OBVIOUS
  <2>2. CASE i < k
    <3>1. i \in 1..k - 1
      BY <2>1, <2>2
    <3> QED BY <1>1, <1>2, <2>2, <3>1
  <2>3. CASE i >= k
    <3>1. i - (k - 1) \in 1..Len(s) - k /\ k + (i - (k - 1)) = i + 1 /\ ~(i < k)
      BY <2>1, <2>3
    <3>2. (front \o back)[i] = back[i - (k - 1)]
      BY <1>1, <1>2, <2>1, <2>3
    <3> QED BY <1>2, <3>1, <3>2
  <2>4. i < k \/ i >= k
    BY <2>1
  <2> QED BY <2>2, <2>3, <2>4, Zenon
<1> QED BY <1>3, <1>4 DEF front, back

LEMMA BetweenKeepsDesktop ==
  ASSUME DesktopInv, Desktop!Between
  PROVE  DesktopInv'
<1>1. UNCHANGED <<frame, cursor, hold, pressed, shown>>
  BY DEF Desktop!Between
<1>2. /\ windows \in Seq(Desktop!Window) /\ Len(windows) <= MaxWindows
      /\ menu \in Desktop!Menu /\ (menu.submenu # 0 => menu.open)
      /\ dockMenu \in 0..NApps /\ pinned \subseteq Desktop!Apps
      /\ \A i, j \in 1..Len(windows) :
           windows[i].app = windows[j].app => i = j \/ windows[i].app \in blind
      /\ blind \subseteq Desktop!Apps
  BY DEF DesktopInv, Desktop!DesktopTypeOK
<1>3. pinned' \subseteq Desktop!Apps /\ dockMenu' \in 0..NApps
  <2>1. pinned' \subseteq Desktop!Apps
    <3>1. pinned' = pinned \/ \E a \in Desktop!Apps :
            pinned' = (IF a \in pinned THEN pinned \ {a} ELSE pinned \cup {a})
      BY DEF Desktop!Between, Desktop!ItemsMenu, Desktop!Submenu, Desktop!CloseSubmenu,
             Desktop!CloseMenus, Desktop!CloseWindow, Desktop!Resize, Desktop!MenuLaunch,
             Desktop!Pin
    <3> QED BY <1>2, <3>1
  <2>2. dockMenu' \in {dockMenu, 0}
    BY DEF Desktop!Between, Desktop!ItemsMenu, Desktop!Submenu, Desktop!CloseSubmenu,
           Desktop!CloseMenus, Desktop!CloseWindow, Desktop!Resize, Desktop!MenuLaunch,
           Desktop!Pin, Desktop!None0
  <2> QED BY <1>2, <2>1, <2>2, DesktopConstants
<1>4. menu' \in Desktop!Menu /\ (menu'.submenu # 0 => menu'.open)
  <2>1. CASE Desktop!ItemsMenu
    BY <1>2, <2>1 DEF Desktop!ItemsMenu, Desktop!Menu
  <2>2. CASE Desktop!Submenu
    BY <1>2, <2>2, DesktopConstants DEF Desktop!Submenu, Desktop!Menu, Desktop!Apps
  <2>3. CASE Desktop!CloseSubmenu
    BY <1>2, <2>3, DesktopConstants DEF Desktop!CloseSubmenu, Desktop!Menu, Desktop!None0
  <2>4. CASE Desktop!CloseMenus
    BY <2>4, DesktopConstants DEF Desktop!CloseMenus, Desktop!ClosedMenu, Desktop!Closed,
                                  Desktop!Menu, Desktop!None0
  <2>5. CASE Desktop!CloseWindow \/ Desktop!Resize \/ Desktop!MenuLaunch \/ Desktop!Pin
    BY <1>2, <2>5 DEF Desktop!CloseWindow, Desktop!Resize, Desktop!MenuLaunch, Desktop!Pin
  <2> QED BY <2>1, <2>2, <2>3, <2>4, <2>5 DEF Desktop!Between
<1>5. /\ windows' \in Seq(Desktop!Window) /\ Len(windows') <= MaxWindows
      /\ \A i, j \in 1..Len(windows') :
           windows'[i].app = windows'[j].app => i = j \/ windows'[i].app \in blind'
      /\ blind' \subseteq Desktop!Apps
  <2>1. CASE Desktop!CloseWindow
    <3>1. PICK k \in DOMAIN windows :
            windows' = SubSeq(windows, 1, k - 1) \o SubSeq(windows, k + 1, Len(windows))
      BY <2>1 DEF Desktop!CloseWindow
    <3>2. /\ windows' \in Seq(Desktop!Window) /\ Len(windows') = Len(windows) - 1
          /\ \A i \in 1..Len(windows') : windows'[i] = windows[IF i < k THEN i ELSE i + 1]
      <4>1. windows \in Seq(Desktop!Window) /\ k \in 1..Len(windows)
        BY <1>2, <3>1
      <4> QED BY <3>1, <4>1, WithoutOne
    <3>3. \A i \in 1..Len(windows') : (IF i < k THEN i ELSE i + 1) \in 1..Len(windows)
      BY <1>2, <3>2
    <3>4. blind' = {a \in blind : Desktop!Twice(a, windows')}
      BY <2>1 DEF Desktop!CloseWindow
    <3>5. DOMAIN windows' = 1..Len(windows') /\ Len(windows') \in Nat
      BY <3>2
    <3>6. ASSUME NEW i \in 1..Len(windows'), NEW j \in 1..Len(windows'),
                 windows'[i].app = windows'[j].app, i # j
          PROVE  windows'[i].app \in blind'
      <4>1. Desktop!Twice(windows'[i].app, windows')
        <5>1. i < j \/ j < i
          BY <3>5, <3>6
        <5> QED BY <3>5, <3>6, <5>1 DEF Desktop!Twice
      <4>2. windows'[i].app \in blind
        <5> DEFINE oi == IF i < k THEN i ELSE i + 1
                   oj == IF j < k THEN j ELSE j + 1
        <5>1. oi # oj
          BY <3>5, <3>6
        <5>2. oi \in 1..Len(windows) /\ oj \in 1..Len(windows)
          BY <3>3
        <5>3. windows'[i] = windows[oi] /\ windows'[j] = windows[oj]
          BY <3>2
        <5> HIDE DEF oi, oj
        <5> QED BY <1>2, <3>6, <5>1, <5>2, <5>3
      <4> QED BY <3>4, <4>1, <4>2
    <3>7. Len(windows') <= MaxWindows
      BY <1>2, <3>2, DesktopConstants
    <3> QED BY <1>2, <3>2, <3>4, <3>6, <3>7
  <2>2. CASE Desktop!Resize
    <3>1. PICK k \in DOMAIN windows : windows' = [windows EXCEPT ![k].dirty = TRUE]
      BY <2>2 DEF Desktop!Resize
    <3>2. windows[k] \in Desktop!Window
      BY <1>2
    <3>3. [windows[k] EXCEPT !.dirty = TRUE] \in Desktop!Window
          /\ [windows[k] EXCEPT !.dirty = TRUE].app = windows[k].app
      BY <3>2 DEF Desktop!Window
    <3>4. windows' = [windows EXCEPT ![k] = [windows[k] EXCEPT !.dirty = TRUE]]
      BY <1>2, <3>1
    <3>5. /\ windows' \in Seq(Desktop!Window) /\ Len(windows') = Len(windows)
          /\ \A i \in 1..Len(windows) : windows'[i].app = windows[i].app
      BY <1>2, <3>3, <3>4
    <3>6. blind' = blind
      BY <2>2 DEF Desktop!Resize
    <3> QED BY <1>2, <3>5, <3>6
  <2>3. CASE windows' = windows /\ blind' = blind
    BY <1>2, <2>3
  <2>4. CASE Desktop!MenuLaunch
    <3>1. PICK a \in Desktop!Apps :
            /\ windows' = windows \o Desktop!Launched(a)
            /\ blind' = IF Desktop!Twice(a, windows') THEN blind \cup {a} ELSE blind
      BY <2>4 DEF Desktop!MenuLaunch
    <3>2. CASE Desktop!Launched(a) = <<>>
      <4>1. windows' = windows
        BY <1>2, <3>1, <3>2
      <4> QED BY <1>2, <3>1, <4>1
    <3>3. CASE Desktop!Launched(a) # <<>>
      <4> DEFINE new == [app |-> a, age |-> 0, dirty |-> TRUE]
                 n == Len(windows)
      <4>1. Desktop!Launched(a) = <<new>> /\ n < MaxWindows
        BY <3>3 DEF Desktop!Launched
      <4>2. new \in Desktop!Window /\ new.app = a
        BY DesktopConstants DEF Desktop!Window
      <4> HIDE DEF new
      <4>3. /\ windows' \in Seq(Desktop!Window) /\ Len(windows') = n + 1
            /\ \A i \in 1..n : windows'[i] = windows[i]
            /\ windows'[n + 1] = new
        BY <1>2, <3>1, <4>1, <4>2
      <4>4. n \in Nat /\ DOMAIN windows' = 1..n + 1 /\ 1..Len(windows') = 1..n + 1
        BY <1>2, <4>3
      <4> HIDE DEF n
      <4>5. Len(windows') <= MaxWindows
        BY <4>1, <4>3, <4>4, DesktopConstants
      <4>6. blind \subseteq blind' /\ blind' \subseteq Desktop!Apps
        BY <1>2, <3>1
      <4>7. ASSUME NEW i \in 1..n, windows'[i].app = a PROVE a \in blind'
        <5>1. i < n + 1 /\ i \in 1..n + 1 /\ n + 1 \in 1..n + 1
          BY <4>4
        <5>2. Desktop!Twice(a, windows')
          BY <4>2, <4>3, <4>4, <4>7, <5>1 DEF Desktop!Twice
        <5> QED BY <3>1, <5>2
      <4>8. ASSUME NEW i \in 1..n + 1, NEW j \in 1..n + 1,
                   windows'[i].app = windows'[j].app, i # j
            PROVE  windows'[i].app \in blind'
        <5>1. CASE i \in 1..n /\ j \in 1..n
          <6>1. windows[i].app \in blind
            BY <1>2, <4>3, <4>8, <5>1 DEF n
          <6> QED BY <4>3, <4>6, <5>1, <6>1
        <5>2. CASE j = n + 1 /\ i \in 1..n
          BY <4>2, <4>3, <4>7, <4>8, <5>2
        <5>3. CASE i = n + 1 /\ j \in 1..n
          BY <4>2, <4>3, <4>7, <4>8, <5>3
        <5>4. (i \in 1..n \/ i = n + 1) /\ (j \in 1..n \/ j = n + 1)
          BY <4>4
        <5> QED BY <4>8, <5>1, <5>2, <5>3, <5>4
      <4> QED BY <4>3, <4>4, <4>5, <4>6, <4>8
    <3> QED BY <3>2, <3>3
  <2> QED BY <2>1, <2>2, <2>3, <2>4 DEF Desktop!Between, Desktop!ItemsMenu, Desktop!Submenu,
            Desktop!CloseSubmenu, Desktop!CloseMenus, Desktop!Pin
<1>6. DOMAIN windows' = 1..Len(windows')
  BY <1>5
<1>7. \A i, j \in DOMAIN windows' :
        windows'[i].app = windows'[j].app => i = j \/ windows'[i].app \in blind'
  BY <1>5, <1>6
<1>8. Desktop!DesktopTypeOK'
  BY <1>1, <1>3, <1>4, <1>5 DEF DesktopInv, Desktop!DesktopTypeOK
<1> QED BY <1>1, <1>4, <1>7, <1>8 DEF DesktopInv

LEMMA DesktopStep ==
  ASSUME DesktopInv, Desktop!DesktopNext \/ UNCHANGED screenVars
  PROVE  DesktopInv'
<1>1. CASE Desktop!BootFrame
  <2>1. UNCHANGED <<cursor, pinned, windows, hold, dockMenu, menu, pressed, blind, shown>>
    BY <1>1 DEF Desktop!BootFrame
  <2>2. frame' \in 0..BootFrames
    BY <1>1, DesktopConstants DEF Desktop!BootFrame, DesktopInv, Desktop!DesktopTypeOK
  <2> QED BY <2>1, <2>2 DEF DesktopInv, Desktop!DesktopTypeOK
<1>2. ASSUME NEW key \in Desktop!Keys, NEW buttons \in Desktop!Buttons,
             NEW x \in Desktop!Reached(key), Desktop!Frame(x, buttons, key)
      PROVE  DesktopInv'
  <2>1. x \in Desktop!Places
    <3>1. PICK at \in {cursor} \cup Desktop!Places, dx \in {-1, 0, 1} :
            x = Desktop!Moved(at, dx, key)
      BY DEF Desktop!Reached
    <3>2. at \in Desktop!Places /\ dx \in Int
      BY DEF DesktopInv, Desktop!DesktopTypeOK
    <3> QED BY <3>1, <3>2, MovesOnScreen
  <2> QED BY <1>2, <2>1, FrameKeepsDesktop
<1>3. CASE UNCHANGED screenVars
  BY <1>3 DEF DesktopInv, Desktop!DesktopTypeOK, screenVars
<1> QED BY <1>1, <1>2, <1>3, BetweenKeepsDesktop DEF Desktop!DesktopNext

-----------------------------------------------------------------------------
(* The drawing calls: GpuCanvas.                                           *)

CanvasInv == Canvas!CanvasTypeOK /\ Canvas!InsideScreen

LEMMA CanvasConstants ==
  /\ ScreenW \in Nat /\ ScreenH \in Nat /\ Unit \in Nat /\ Unit > 0 /\ MaxClips \in Nat
  /\ Rotations \subseteq Int \X Int /\ Pivots \subseteq Int \X Int
BY CanvasAssumption

LEMMA RectsAreNumbers ==
  ASSUME NEW r \in Canvas!Rects
  PROVE  r.x \in Int /\ r.y \in Int /\ r.w \in Nat /\ r.h \in Nat /\ r.radius \in Nat
<1>1. \A c \in Corners : c[1] \in Int /\ c[2] \in Int
  BY CanvasAssumption
<1>2. Sides \subseteq Nat /\ Radii \subseteq Nat
  BY CanvasAssumption
<1> QED BY <1>1, <1>2 DEF Canvas!Rects

LEMMA ScreenIsNumbers == Canvas!Screen \subseteq Int \X Int
BY DEF Canvas!Screen

LEMMA OverIsWhole ==
  ASSUME NEW n \in Int
  PROVE  Canvas!Over(n, Unit) \in Int
<1>1. n >= 0 => n \div Unit \in Int
  BY CanvasConstants
<1>2. n < 0 => (-n) \div Unit \in Int
  BY CanvasConstants
<1> QED BY <1>1, <1>2 DEF Canvas!Over

\* A point is turned to a point, rounded, wherever it is.
LEMMA TurnedIsPoint ==
  ASSUME Canvas!CanvasTypeOK, NEW p \in Int \X Int
  PROVE  Canvas!Turned(p)[1] \in Int /\ Canvas!Turned(p)[2] \in Int
<1>1. /\ transform.cos \in Int /\ transform.sin \in Int
      /\ transform.tx \in Int /\ transform.ty \in Int
  BY DEF Canvas!CanvasTypeOK
<1>2. \A a, b \in Int : a * b \in Int
  OBVIOUS
<1>3. /\ transform.cos * p[1] \in Int /\ -transform.sin * p[2] \in Int
      /\ transform.sin * p[1] \in Int /\ transform.cos * p[2] \in Int
  BY <1>1, <1>2
<1>4. /\ Canvas!Over(transform.cos * p[1], Unit) \in Int
      /\ Canvas!Over(-transform.sin * p[2], Unit) \in Int
      /\ Canvas!Over(transform.sin * p[1], Unit) \in Int
      /\ Canvas!Over(transform.cos * p[2], Unit) \in Int
  BY <1>3, OverIsWhole
<1> QED BY <1>1, <1>4 DEF Canvas!Turned

LEMMA EndsOfFour ==
  ASSUME NEW a \in Int, NEW b \in Int, NEW c \in Int, NEW d \in Int
  PROVE  Canvas!Least({a, b, c, d}) \in Int /\ Canvas!Most({a, b, c, d}) \in Int
<1>1. \E n \in {a, b, c, d} : \A m \in {a, b, c, d} : n <= m
  OBVIOUS
<1>2. \E n \in {a, b, c, d} : \A m \in {a, b, c, d} : n >= m
  OBVIOUS
<1>3. Canvas!Least({a, b, c, d}) \in {a, b, c, d}
  BY <1>1 DEF Canvas!Least
<1>4. Canvas!Most({a, b, c, d}) \in {a, b, c, d}
  BY <1>2 DEF Canvas!Most
<1> QED BY <1>3, <1>4

\* The box of a turned rectangle is cut to the screen.
LEMMA BoxOnScreen ==
  ASSUME Canvas!CanvasTypeOK, NEW r \in Canvas!Rects
  PROVE  Canvas!Box(r) \subseteq Canvas!Screen
<1> DEFINE a == Canvas!Turned(<<r.x, r.y>>)
           b == Canvas!Turned(<<r.x, r.y + r.h>>)
           c == Canvas!Turned(<<r.x + r.w, r.y>>)
           d == Canvas!Turned(<<r.x + r.w, r.y + r.h>>)
<1>1. /\ r.x \in Int /\ r.y \in Int /\ r.x + r.w \in Int /\ r.y + r.h \in Int
  BY RectsAreNumbers
<1>2. /\ a[1] \in Int /\ a[2] \in Int /\ b[1] \in Int /\ b[2] \in Int
      /\ c[1] \in Int /\ c[2] \in Int /\ d[1] \in Int /\ d[2] \in Int
  <2>1. \A x, y \in Int : /\ Canvas!Turned(<<x, y>>)[1] \in Int
                          /\ Canvas!Turned(<<x, y>>)[2] \in Int
    BY TurnedIsPoint
  <2> QED BY <1>1, <2>1
<1>3. Canvas!Ends(r) = {a, b, c, d}
  <2>1. {r.x, r.x + r.w} \X {r.y, r.y + r.h} =
          {<<r.x, r.y>>, <<r.x, r.y + r.h>>, <<r.x + r.w, r.y>>, <<r.x + r.w, r.y + r.h>>}
    OBVIOUS
  <2>2. Canvas!Ends(r) = {Canvas!Turned(p) : p \in {<<r.x, r.y>>, <<r.x, r.y + r.h>>,
                                       <<r.x + r.w, r.y>>, <<r.x + r.w, r.y + r.h>>}}
    BY <2>1 DEF Canvas!Ends
  <2> QED BY <2>2, Zenon
<1> HIDE DEF a, b, c, d
<1>4. /\ {p[1] : p \in Canvas!Ends(r)} = {a[1], b[1], c[1], d[1]}
      /\ {p[2] : p \in Canvas!Ends(r)} = {a[2], b[2], c[2], d[2]}
  BY <1>3
<1>5. /\ Canvas!Least({p[1] : p \in Canvas!Ends(r)}) \in Int
      /\ Canvas!Most({p[1] : p \in Canvas!Ends(r)}) \in Int
      /\ Canvas!Least({p[2] : p \in Canvas!Ends(r)}) \in Int
      /\ Canvas!Most({p[2] : p \in Canvas!Ends(r)}) \in Int
  <2>1. /\ Canvas!Least({a[1], b[1], c[1], d[1]}) \in Int
        /\ Canvas!Most({a[1], b[1], c[1], d[1]}) \in Int
    BY <1>2, EndsOfFour
  <2>2. /\ Canvas!Least({a[2], b[2], c[2], d[2]}) \in Int
        /\ Canvas!Most({a[2], b[2], c[2], d[2]}) \in Int
    BY <1>2, EndsOfFour
  <2> QED BY <1>4, <2>1, <2>2, Zenon
<1>6. ASSUME NEW low \in Int, NEW high \in Int, NEW limit \in Nat
      PROVE  Canvas!AtLeast(low, 0)..Canvas!AtMost(high, limit - 1) \subseteq 0..limit - 1
  BY DEF Canvas!AtLeast, Canvas!AtMost
<1>7. /\ Canvas!AtLeast(Canvas!Least({p[1] : p \in Canvas!Ends(r)}), 0)
           ..Canvas!AtMost(Canvas!Most({p[1] : p \in Canvas!Ends(r)}), ScreenW - 1)
         \subseteq 0..ScreenW - 1
      /\ Canvas!AtLeast(Canvas!Least({p[2] : p \in Canvas!Ends(r)}), 0)
           ..Canvas!AtMost(Canvas!Most({p[2] : p \in Canvas!Ends(r)}), ScreenH - 1)
         \subseteq 0..ScreenH - 1
  BY <1>5, <1>6, CanvasConstants
<1>8. ASSUME NEW A, NEW B, NEW C, NEW D, A \subseteq C, B \subseteq D
      PROVE  A \X B \subseteq C \X D
  BY <1>8
<1> QED BY <1>7, <1>8 DEF Canvas!Box, Canvas!Screen

LEMMA FrostedOnScreen ==
  ASSUME NEW r \in Canvas!Rects
  PROVE  Canvas!Frosted(r) \subseteq Canvas!Screen
<1> DEFINE x0 == Canvas!AtLeast(r.x, 0)
           y0 == Canvas!AtLeast(r.y, 0)
           x1 == Canvas!AtMost(r.x + r.w, ScreenW)
           y1 == Canvas!AtMost(r.y + r.h, ScreenH)
           half == Canvas!AtMost(x1 - x0, y1 - y0) \div 2
           cut == [x |-> x0, y |-> y0, w |-> x1 - x0, h |-> y1 - y0,
                   radius |-> Canvas!AtMost(r.radius, half)]
<1>1. /\ x0 \in Nat /\ y0 \in Nat /\ x1 \in Int /\ y1 \in Int
      /\ x1 <= ScreenW /\ y1 <= ScreenH
  BY RectsAreNumbers, CanvasConstants DEF Canvas!AtLeast, Canvas!AtMost
<1>2. Canvas!Frosted(r) = {} \/ Canvas!Frosted(r) = Canvas!Round(cut)
  BY Zenon DEF Canvas!Frosted
<1>3. Canvas!Round(cut) \subseteq (x0..x0 + (x1 - x0) - 1) \X (y0..y0 + (y1 - y0) - 1)
  BY DEF Canvas!Round
<1> HIDE DEF x0, y0, x1, y1, cut
<1>4. x0..x0 + (x1 - x0) - 1 \subseteq 0..ScreenW - 1
      /\ y0..y0 + (y1 - y0) - 1 \subseteq 0..ScreenH - 1
  BY <1>1, CanvasConstants
<1> QED BY <1>2, <1>3, <1>4 DEF Canvas!Screen

\* Everything but a plain blur and a text is drawn on the screen, and those write their
\* rectangle.
LEMMA DrawnOnScreen ==
  ASSUME Canvas!CanvasTypeOK, NEW r \in Canvas!Rects,
         \/ Canvas!DrawRect(r) \/ Canvas!DrawRounded(r) \/ Canvas!DrawFlat(r)
         \/ Canvas!DrawAround(r) \/ Canvas!DrawFrosted(r) \/ Canvas!BackgroundBlur(r)
         \/ Canvas!DrawText(r) \/ Canvas!DrawLine(r)
  PROVE  /\ UNCHANGED <<transform, opaque, clips>> /\ shape' = r
         /\ \/ painted' \subseteq Canvas!Screen
            \/ call' \in {"plain blur", "text"} /\ painted' = Canvas!Whole(r)
<1> USE DEF Canvas!Draw
<1>1. \A pixels : Canvas!Seen(pixels) \subseteq pixels
  BY DEF Canvas!Seen
<1>2. Canvas!Inverse(r) \subseteq Canvas!Screen
  BY BoxOnScreen DEF Canvas!Inverse
<1>3. CASE Canvas!DrawRect(r)
  BY <1>1, <1>3 DEF Canvas!DrawRect, Canvas!Forward
<1>4. CASE Canvas!DrawRounded(r)
  BY <1>1, <1>2, <1>4 DEF Canvas!DrawRounded, Canvas!Forward
<1>5. CASE Canvas!DrawFlat(r) \/ Canvas!DrawAround(r)
  BY <1>5 DEF Canvas!DrawFlat, Canvas!Flat, Canvas!DrawAround, Canvas!Around
<1>6. CASE Canvas!DrawFrosted(r)
  BY <1>6, FrostedOnScreen DEF Canvas!DrawFrosted
<1>7. CASE Canvas!BackgroundBlur(r)
  <2>1. Canvas!RotatedBlur(r) \subseteq Canvas!Screen
    BY <1>2 DEF Canvas!RotatedBlur
  <2>2. Canvas!PlainBlur(r) \in {{}, Canvas!Whole(r)}
    BY DEF Canvas!PlainBlur
  <2> QED BY <1>7, <2>1, <2>2 DEF Canvas!BackgroundBlur
<1>8. CASE Canvas!DrawLine(r)
  BY <1>1, <1>8 DEF Canvas!DrawLine, Canvas!Line
<1>9. CASE Canvas!DrawText(r)
  BY <1>9 DEF Canvas!DrawText, Canvas!TextCells
<1> QED BY <1>3, <1>4, <1>5, <1>6, <1>7, <1>8, <1>9

LEMMA CanvasStart ==
  ASSUME Canvas!CanvasInit
  PROVE  CanvasInv
<1>1. transform \in [cos : Int, sin : Int, tx : Int, ty : Int, active : BOOLEAN]
  BY CanvasConstants DEF Canvas!CanvasInit, Canvas!Identity
<1> QED BY <1>1, CanvasConstants
        DEF CanvasInv, Canvas!CanvasTypeOK, Canvas!InsideScreen, Canvas!CanvasInit

LEMMA SetTransformTyped ==
  ASSUME Canvas!SetTransform
  PROVE  transform' \in [cos : Int, sin : Int, tx : Int, ty : Int, active : BOOLEAN]
<1>1. PICK q \in Rotations, p \in Pivots :
        transform' = Canvas!Rotation(q[1], q[2], p[1], p[2])
  BY DEF Canvas!SetTransform
<1>2. q[1] \in Int /\ q[2] \in Int /\ p[1] \in Int /\ p[2] \in Int
  BY CanvasConstants
<1>3. \A a, b \in Int : a * b \in Int
  OBVIOUS
<1>4. Unit - q[1] \in Int
  BY <1>2, CanvasConstants
<1>5. /\ p[1] * (Unit - q[1]) \in Int /\ p[2] * q[2] \in Int
      /\ p[2] * (Unit - q[1]) \in Int /\ p[1] * q[2] \in Int
  BY <1>2, <1>3, <1>4
<1>6. /\ p[1] * (Unit - q[1]) + p[2] * q[2] \in Int
      /\ p[2] * (Unit - q[1]) - p[1] * q[2] \in Int
  BY <1>5
<1>7. /\ Canvas!Over(p[1] * (Unit - q[1]) + p[2] * q[2], Unit) \in Int
      /\ Canvas!Over(p[2] * (Unit - q[1]) - p[1] * q[2], Unit) \in Int
  BY <1>6, OverIsWhole
<1> QED BY <1>1, <1>2, <1>7 DEF Canvas!Rotation

LEMMA CanvasStep ==
  ASSUME CanvasInv, Canvas!CanvasNext \/ UNCHANGED canvasVars
  PROVE  CanvasInv'
<1> USE DEF CanvasInv
<1>1. ASSUME NEW r \in Canvas!Rects,
             \/ Canvas!DrawRect(r) \/ Canvas!DrawRounded(r) \/ Canvas!DrawFlat(r)
             \/ Canvas!DrawAround(r) \/ Canvas!DrawFrosted(r) \/ Canvas!BackgroundBlur(r)
             \/ Canvas!DrawText(r) \/ Canvas!DrawLine(r)
      PROVE  CanvasInv'
  <2>1. /\ UNCHANGED <<transform, opaque, clips>> /\ shape' = r
        /\ \/ painted' \subseteq Canvas!Screen
           \/ call' \in {"plain blur", "text"} /\ painted' = Canvas!Whole(r)
    BY <1>1, DrawnOnScreen
  <2>2. painted' \subseteq Int \X Int
    <3>1. Canvas!Whole(r) \subseteq Int \X Int
      BY DEF Canvas!Whole
    <3> QED BY <2>1, <3>1, ScreenIsNumbers, Zenon
  <2>3. Canvas!CanvasTypeOK'
    BY <2>1, <2>2 DEF Canvas!CanvasTypeOK
  <2>4. Canvas!InsideScreen'
    BY <2>1 DEF Canvas!InsideScreen, Canvas!Screen, Canvas!Whole
  <2> QED BY <2>3, <2>4
<1>2. ASSUME UNCHANGED <<call, shape, painted>>
      PROVE  Canvas!InsideScreen'
  BY <1>2 DEF Canvas!InsideScreen, Canvas!Screen, Canvas!Whole
<1>3. CASE Canvas!SetTransform
  <2>1. UNCHANGED <<opaque, clips, call, shape, painted>>
    BY <1>3 DEF Canvas!SetTransform
  <2> QED BY <1>2, <1>3, <2>1, SetTransformTyped DEF Canvas!CanvasTypeOK
<1>4. CASE Canvas!SetOpacity
  <2>1. UNCHANGED <<transform, clips, call, shape, painted>> /\ opaque' \in BOOLEAN
    BY <1>4 DEF Canvas!SetOpacity
  <2> QED BY <1>2, <2>1 DEF Canvas!CanvasTypeOK
<1>5. CASE Canvas!PushClip \/ Canvas!PopClip
  <2>1. UNCHANGED <<transform, opaque, call, shape, painted>>
    BY <1>5 DEF Canvas!PushClip, Canvas!PopClip
  <2>2. clips' \in 0..MaxClips
    BY <1>5, CanvasConstants DEF Canvas!PushClip, Canvas!PopClip, Canvas!CanvasTypeOK,
                                 Canvas!AtLeast, Canvas!AtMost
  <2> QED BY <1>2, <2>1, <2>2 DEF Canvas!CanvasTypeOK
<1>6. CASE Canvas!Reset
  <2>1. UNCHANGED <<call, shape, painted>> /\ transform' = Canvas!Identity
    BY <1>6 DEF Canvas!Reset
  <2>2. opaque' \in BOOLEAN /\ clips' \in 0..MaxClips
    <3>1. UNCHANGED <<opaque, clips>> \/ (opaque' = TRUE /\ clips' = 0)
      BY <1>6 DEF Canvas!Reset
    <3>2. opaque \in BOOLEAN /\ clips \in 0..MaxClips /\ 0 \in 0..MaxClips
      BY CanvasConstants DEF Canvas!CanvasTypeOK
    <3> QED BY <3>1, <3>2, Zenon
  <2>3. transform' \in [cos : Int, sin : Int, tx : Int, ty : Int, active : BOOLEAN]
    BY <2>1, CanvasConstants DEF Canvas!Identity
  <2> QED BY <1>2, <2>1, <2>2, <2>3 DEF Canvas!CanvasTypeOK
<1>7. CASE Canvas!NextCall
  <2>1. UNCHANGED <<transform, opaque, clips>> /\ shape' = Canvas!Nothing /\ painted' = {}
    BY <1>7 DEF Canvas!NextCall
  <2> QED BY <2>1 DEF Canvas!CanvasTypeOK, Canvas!InsideScreen
<1>8. CASE UNCHANGED canvasVars
  BY <1>2, <1>8 DEF Canvas!CanvasTypeOK, canvasVars
<1> QED BY <1>1, <1>3, <1>4, <1>5, <1>6, <1>7, <1>8 DEF Canvas!CanvasNext

-----------------------------------------------------------------------------
(* The runs of modules: OvcRun.                                            *)

\* Constants in a slot were parsed once, and others only when no slot was left.
CacheInv ==
  /\ consts \subseteq Run!Modules /\ parsed \in [Run!Modules -> 0..2]
  /\ \A m \in Run!Modules :
       /\ m \in consts => parsed[m] = 1
       /\ m \notin consts /\ parsed[m] > 0 => Cardinality(consts) >= NConsts

\* OEntry is called last, when every component with a constructor is built or still to be
\* called.
QueueHolds(h, q, b) ==
  \A i \in 1..Len(q) : q[i][1] = "OEntry" =>
    /\ i = Len(q)
    /\ \A m \in Run!Listed : "own" \in h[m] =>
         m \in b \/ \E j \in 1..Len(q) : q[j] = <<m, "own">>

\* Under OEntry every such component was built.
BuiltHolds(h, f, b) ==
  f # <<>> /\ f[1].module = "OEntry" => \A m \in Run!Listed : "own" \in h[m] => m \in b

\* Both hold of the run under way and of each that waits for it.
Waiting(h) ==
  {r \in Run!Suspended :
     /\ r.frames # <<>> /\ Len(r.frames) <= MaxDepth + 1
     /\ r.cross => QueueHolds(h, r.queue, r.built) /\ BuiltHolds(h, r.frames, r.built)}
OrderInv ==
  /\ cross => QueueHolds(has, queue, built) /\ BuiltHolds(has, frames, built)
  /\ below \in Seq(Waiting(has))

RunInv == Run!RunTypeOK /\ CacheInv /\ OrderInv

LEMMA RunConstants ==
  /\ Components \in Seq(Run!Listed) /\ "OEntry" \notin Run!Listed
  /\ MaxDepth \in Nat /\ MaxBlocks \in Nat /\ MaxBlocks > 0 /\ NConsts \in Nat
  /\ MaxCalls \in Nat /\ MaxNested \in Nat /\ MaxRuns \in Nat
<1>1. Components \in Seq(STRING) /\ \A i \in DOMAIN Components : Components[i] # "OEntry"
  BY RunAssumption
<1>2. Components \in Seq(Run!Listed)
  BY <1>1 DEF Run!Listed
<1> QED BY <1>1, <1>2, RunAssumption DEF Run!Listed

LEMMA ModulesAreFinite == IsFiniteSet(Run!Modules)
<1>1. Components \in Seq(Run!Listed)
      /\ \A m \in Run!Listed : \E i \in 1..Len(Components) : Components[i] = m
  BY RunConstants DEF Run!Listed
<1>2. IsFiniteSet(Run!Listed)
  BY <1>1 DEF IsFiniteSet
<1> QED BY <1>2, FS_AddElement DEF Run!Modules

LEMMA SameCardinality == \A S : Run!Cardinality(S) = Cardinality(S)
BY Zenon DEF Run!Cardinality, Cardinality

LEMMA ConstsAreCounted ==
  ASSUME NEW S \in SUBSET Run!Modules, NEW T \in SUBSET Run!Modules, S \subseteq T
  PROVE  Cardinality(S) \in Nat /\ Cardinality(T) \in Nat /\ Cardinality(S) <= Cardinality(T)
BY ModulesAreFinite, FS_Subset, FS_CardinalityType

\* Parsing keeps them so: the slots go to the first of the modules.
LEMMA ParseKeepsCache ==
  ASSUME CacheInv, NEW modules \in Seq(Run!Modules), Run!Parse(modules)
  PROVE  CacheInv'
<1> DEFINE all == Run!Upto(modules, Len(modules))
           before(i) == consts \cup Run!Upto(modules, i - 1)
           slots == {i \in 1..Len(modules) : Cardinality(before(i)) < NConsts}
<1>1. \A i \in 1..Len(modules) : /\ modules[i] \in Run!Modules
                                 /\ before(i) \subseteq Run!Modules
  <2>1. \A i \in 1..Len(modules) : modules[i] \in Run!Modules
    OBVIOUS
  <2>2. ASSUME NEW i \in 1..Len(modules)
        PROVE  Run!Upto(modules, i - 1) \subseteq Run!Modules
    BY <2>1 DEF Run!Upto
  <2> QED BY <2>1, <2>2 DEF CacheInv
<1>2. consts' = consts \cup {modules[i] : i \in slots}
  <2>1. DOMAIN modules = 1..Len(modules)
    OBVIOUS
  <2>2. slots = {k \in DOMAIN modules : Run!Cardinality(before(k)) < NConsts}
    BY <2>1, SameCardinality, Zenon
  <2> QED BY <2>2, Zenon DEF Run!Parse, Run!Cached
<1>3. all = {modules[i] : i \in 1..Len(modules)}
  BY DEF Run!Upto
<1>4. parsed' = [m \in Run!Modules |->
                   IF m \in consts \/ m \notin all \/ parsed[m] = 2
                   THEN parsed[m] ELSE parsed[m] + 1]
  BY DEF Run!Parse
<1>5. consts \subseteq consts' /\ consts' \subseteq Run!Modules
  BY <1>1, <1>2 DEF CacheInv
<1>6. \A i \in 1..Len(modules) : Cardinality(before(i)) \in Nat
  BY <1>1, ConstsAreCounted
<1>7. \A i \in slots : Cardinality(consts) < NConsts
  <2> SUFFICES ASSUME NEW i \in 1..Len(modules), Cardinality(before(i)) < NConsts
               PROVE  Cardinality(consts) < NConsts
    OBVIOUS
  <2>1. consts \subseteq before(i)
    OBVIOUS
  <2> HIDE DEF before
  <2>2. /\ Cardinality(consts) \in Nat /\ Cardinality(before(i)) \in Nat
        /\ Cardinality(consts) <= Cardinality(before(i))
    BY <1>1, <2>1, ConstsAreCounted DEF CacheInv
  <2> QED BY <2>2, RunConstants
<1>8. ASSUME NEW i \in (1..Len(modules)) \ slots
      PROVE  Cardinality(consts') >= NConsts
  <2> DEFINE late == (1..Len(modules)) \ slots
  <2>1. late \in SUBSET Nat /\ late # {}
    <3>1. 1..Len(modules) \subseteq Nat
      OBVIOUS
    <3> HIDE DEF slots
    <3> QED BY <3>1
  <2>2. PICK k \in late : \A j \in late : k <= j
    BY <2>1, LeastNumber
  <2>3. \A j \in 1..k - 1 : j \in slots
    <3> SUFFICES ASSUME NEW j \in 1..k - 1, j \notin slots PROVE FALSE
      OBVIOUS
    <3>1. k \in 1..Len(modules)
      BY <2>2
    <3>2. j \in 1..Len(modules) /\ j < k
      BY <3>1
    <3>3. j \in late
      BY <3>2
    <3> HIDE DEF late
    <3>4. k <= j
      BY <2>2, <3>3
    <3> QED BY <3>1, <3>2, <3>4
  <2>4. Run!Upto(modules, k - 1) \subseteq {modules[j] : j \in slots}
    BY <2>3 DEF Run!Upto
  <2>5. before(k) \subseteq consts'
    BY <1>2, <2>4
  <2>6. k \in 1..Len(modules) /\ ~(Cardinality(before(k)) < NConsts)
    BY <2>2
  <2> HIDE DEF before, slots, late
  <2>7. /\ Cardinality(before(k)) \in Nat /\ Cardinality(consts') \in Nat
        /\ Cardinality(before(k)) <= Cardinality(consts')
    BY <1>1, <1>5, <2>5, <2>6, ConstsAreCounted
  <2> QED BY <2>6, <2>7, RunConstants
<1>9. Cardinality(consts) \in Nat /\ Cardinality(consts') \in Nat
      /\ Cardinality(consts) <= Cardinality(consts')
  BY <1>5, ConstsAreCounted DEF CacheInv
<1> HIDE DEF slots, before, all
<1>10. ASSUME NEW m \in Run!Modules
       PROVE  /\ parsed'[m] \in 0..2 /\ (m \in consts' => parsed'[m] = 1)
              /\ (m \notin consts' /\ parsed'[m] > 0 => Cardinality(consts') >= NConsts)
  <2>1. /\ parsed[m] \in 0..2 /\ (m \in consts => parsed[m] = 1)
        /\ (m \notin consts /\ parsed[m] > 0 => Cardinality(consts) >= NConsts)
    BY DEF CacheInv
  <2>2. parsed'[m] = IF m \in consts \/ m \notin all \/ parsed[m] = 2
                     THEN parsed[m] ELSE parsed[m] + 1
    BY <1>4
  <2>3. CASE m \in consts
    BY <1>5, <2>1, <2>2, <2>3
  <2>4. CASE m \notin consts /\ m \in consts'
    <3>1. PICK i \in slots : m = modules[i]
      BY <1>2, <2>4
    <3>2. m \in all
      BY <1>3, <3>1 DEF slots
    <3>3. parsed[m] = 0
      BY <1>7, <1>9, <2>1, <2>4, RunConstants
    <3> QED BY <2>2, <2>4, <3>2, <3>3
  <2>5. CASE m \notin consts'
    <3>1. m \notin consts
      BY <1>5, <2>5
    <3>2. m \in all => Cardinality(consts') >= NConsts
      <4> SUFFICES ASSUME NEW i \in 1..Len(modules), m = modules[i]
                   PROVE  Cardinality(consts') >= NConsts
        BY <1>3
      <4>1. i \notin slots
        BY <1>2, <2>5
      <4> QED BY <1>8, <4>1
    <3>3. m \notin all => parsed'[m] = parsed[m]
      BY <2>2
    <3>4. parsed'[m] \in 0..2
      BY <2>1, <2>2
    <3> QED BY <1>9, <2>1, <2>5, <3>1, <3>2, <3>3, <3>4, RunConstants
  <2> QED BY <2>3, <2>4, <2>5
<1>11. parsed' \in [Run!Modules -> 0..2]
  BY <1>4, <1>10
<1> QED BY <1>5, <1>10, <1>11 DEF CacheInv

\* A call enters its function below the callers, or not at all.
LEMMA EnterGoes ==
  ASSUME CacheInv, blocks \subseteq Run!CacheKey, built \subseteq Run!Modules,
         NEW callers \in Seq(Run!Frame), Len(callers) <= MaxDepth + 1,
         NEW module \in Run!Modules, NEW fn \in Run!Functions,
         Run!Enter(callers, module, fn)
  PROVE  /\ CacheInv' /\ blocks' \subseteq Run!CacheKey
         /\ frames' \in Seq(Run!Frame) /\ Len(frames') <= MaxDepth + 1
         /\ callers # <<>> => frames' # <<>> /\ frames'[1] = callers[1]
         /\ callers = <<>> => frames' = <<>> \/ frames'[1].module = module
         /\ built' \in {built, built \cup {module}} /\ (frames # <<>> => built' = built)
         /\ callers = <<>> /\ frames = <<>> /\ fn = "own" /\ fn \in has[module] =>
              module \in built'
<1> DEFINE new == Run!Entered(module, fn)
<1>1. new \in Run!Frame /\ new.module = module
  BY RunConstants DEF Run!Entered, Run!Frame
<1> HIDE DEF new
<1>2. /\ Append(callers, new) \in Seq(Run!Frame)
      /\ Len(Append(callers, new)) = Len(callers) + 1
      /\ Append(callers, new) # <<>>
      /\ callers # <<>> => Append(callers, new)[1] = callers[1]
      /\ callers = <<>> => Append(callers, new)[1].module = module
  BY <1>1
<1>3. CASE Len(callers) > MaxDepth
  <2>1. frames' = callers /\ UNCHANGED <<consts, blocks, parsed, built>>
    BY <1>3 DEF Run!Enter, Run!cacheVars
  <2>2. callers # <<>>
    BY <1>3, RunConstants
  <2> QED BY <2>1, <2>2 DEF CacheInv
<1>4. CASE ~(Len(callers) > MaxDepth)
  <2>1. /\ Run!Parse(IF cross THEN <<module>> ELSE <<>>)
        /\ IF fn \notin has[module] THEN frames' = callers /\ UNCHANGED <<blocks, built>>
           ELSE /\ frames' = Append(callers, new)
                /\ blocks' = Run!Stored(blocks, NBlocks, <<module, fn>>)
                /\ built' = IF fn = "own" /\ frames = <<>> THEN built \cup {module} ELSE built
    BY <1>4 DEF Run!Enter, new
  <2>2. (IF cross THEN <<module>> ELSE <<>>) \in Seq(Run!Modules)
    OBVIOUS
  <2>3. CacheInv'
    BY <2>1, <2>2, ParseKeepsCache
  <2>4. <<module, fn>> \in Run!CacheKey
    BY DEF Run!CacheKey
  <2>5. blocks' \subseteq Run!CacheKey
    BY <2>1, <2>4 DEF Run!Stored
  <2>6. frames' = callers \/ frames' = Append(callers, new)
    BY <2>1
  <2>7. frames' \in Seq(Run!Frame) /\ Len(frames') <= MaxDepth + 1
    BY <1>2, <1>4, <2>6, RunConstants
  <2>8. /\ callers # <<>> => frames' # <<>> /\ frames'[1] = callers[1]
        /\ callers = <<>> => frames' = <<>> \/ frames'[1].module = module
    BY <1>2, <2>6
  <2> QED BY <2>1, <2>3, <2>5, <2>7, <2>8
<1> QED BY <1>3, <1>4

LEMMA RunStart ==
  ASSUME Run!RunInit
  PROVE  RunInv
<1>1. Run!Listed \subseteq Run!Modules
  BY DEF Run!Modules
<1>2. /\ loaded \subseteq Run!Modules /\ has \in [Run!Modules -> SUBSET Run!Functions]
      /\ filled \in BOOLEAN /\ fonts \subseteq Run!Listed
      /\ cross = TRUE /\ queue = <<>> /\ frames = <<>> /\ below = <<>> /\ overrun = FALSE
      /\ consts = {} /\ blocks = {} /\ parsed = [m \in Run!Modules |-> 0] /\ built = {}
      /\ runs = 0
  BY <1>1 DEF Run!RunInit
<1>3. CacheInv
  BY <1>2 DEF CacheInv
<1>4. OrderInv
  <2>1. QueueHolds(has, <<>>, built) /\ BuiltHolds(has, <<>>, built)
    BY DEF QueueHolds, BuiltHolds
  <2> QED BY <1>2, <2>1 DEF OrderInv
<1>5. Run!RunTypeOK
  <2>1. /\ <<>> \in Seq(Run!CacheKey) /\ <<>> \in Seq(Run!Frame) /\ <<>> \in Seq(Run!Suspended)
        /\ Len(<<>>) = 0 /\ DOMAIN <<>> = {}
    OBVIOUS
  <2>2. \A i \in DOMAIN below : Len(below[i].frames) <= MaxDepth + 1
    BY <1>2, <2>1
  <2>3. 0 <= MaxDepth + 1 /\ 0 <= MaxNested /\ 0 \in 0..MaxRuns
    BY RunConstants
  <2>4. /\ queue \in Seq(Run!CacheKey) /\ frames \in Seq(Run!Frame)
        /\ below \in Seq(Run!Suspended) /\ Len(frames) <= MaxDepth + 1
        /\ Len(below) <= MaxNested
    BY <1>2, <2>1, <2>3
  <2>5. /\ parsed \in [Run!Modules -> 0..2] /\ consts \subseteq Run!Modules
        /\ blocks \subseteq Run!CacheKey /\ built \subseteq Run!Modules
        /\ cross \in BOOLEAN /\ overrun \in BOOLEAN /\ runs \in 0..MaxRuns
    <3>1. parsed \in [Run!Modules -> 0..2]
      BY <1>2
    <3>2. cross \in BOOLEAN /\ overrun \in BOOLEAN
      BY <1>2
    <3>3. consts \subseteq Run!Modules /\ blocks \subseteq Run!CacheKey /\ built \subseteq Run!Modules
      BY <1>2
    <3> QED BY <1>2, <2>3, <3>1, <3>2, <3>3
  <2> QED BY <1>2, <2>2, <2>4, <2>5 DEF Run!RunTypeOK
<1> QED BY <1>3, <1>4, <1>5 DEF RunInv

LEMMA RunInvHolds ==
  ASSUME RunInv
  PROVE  Run!RunTypeOK /\ Run!RunSound
<1>1. Run!BuiltBeforeOEntry
  BY DEF RunInv, OrderInv, BuiltHolds, Run!BuiltBeforeOEntry, Run!Running, Run!OEntry,
         Run!Listed
<1>2. Run!CachedParsedOnce
  BY DEF RunInv, CacheInv, Run!RunTypeOK, Run!CachedParsedOnce
<1> QED BY <1>1, <1>2 DEF RunInv, Run!RunSound

\* What a step of a program has to leave true, for the invariant to hold after it.
Kept ==
  /\ UNCHANGED <<loaded, has, filled, fonts>>
  /\ cross' \in BOOLEAN /\ overrun' \in BOOLEAN /\ queue' \in Seq(Run!CacheKey)
  /\ frames' \in Seq(Run!Frame) /\ Len(frames') <= MaxDepth + 1
  /\ below' \in Seq(Waiting(has)) /\ Len(below') <= MaxNested
  /\ CacheInv' /\ blocks' \subseteq Run!CacheKey /\ built' \subseteq Run!Modules
  /\ runs' \in 0..MaxRuns
  /\ cross' => QueueHolds(has, queue', built') /\ BuiltHolds(has, frames', built')

LEMMA KeptHolds ==
  ASSUME RunInv, Kept
  PROVE  RunInv'
<1>1. below' \in Seq(Run!Suspended) /\ \A i \in DOMAIN below' : Len(below'[i].frames) <= MaxDepth + 1
  <2>1. Waiting(has) \subseteq Run!Suspended
        /\ \A r \in Waiting(has) : Len(r.frames) <= MaxDepth + 1
    BY DEF Waiting
  <2>2. below' \in Seq(Waiting(has))
    BY DEF Kept
  <2> QED BY <2>1, <2>2
<1>2. Run!RunTypeOK'
  BY <1>1 DEF Kept, RunInv, Run!RunTypeOK, CacheInv
<1>3. OrderInv'
  <2>1. has' = has
    BY DEF Kept
  <2>2. below' \in Seq(Waiting(has'))
    BY <2>1 DEF Kept
  <2>3. cross' => QueueHolds(has', queue', built') /\ BuiltHolds(has', frames', built')
    BY <2>1 DEF Kept
  <2> QED BY <2>2, <2>3 DEF OrderInv
<1> QED BY <1>2, <1>3 DEF Kept, RunInv

\* What is given of a run under way.
LEMMA RunGiven ==
  ASSUME RunInv
  PROVE  /\ cross \in BOOLEAN /\ overrun \in BOOLEAN /\ queue \in Seq(Run!CacheKey)
         /\ frames \in Seq(Run!Frame) /\ Len(frames) <= MaxDepth + 1
         /\ below \in Seq(Waiting(has)) /\ Len(below) <= MaxNested /\ Len(below) \in Nat
         /\ CacheInv /\ blocks \subseteq Run!CacheKey /\ built \subseteq Run!Modules
         /\ runs \in 0..MaxRuns
         /\ cross => QueueHolds(has, queue, built) /\ BuiltHolds(has, frames, built)
         /\ has \in [Run!Modules -> SUBSET Run!Functions] /\ loaded \subseteq Run!Modules
         /\ fonts \subseteq Run!Listed
BY DEF RunInv, OrderInv, Run!RunTypeOK

\* exec_marep calls the components in their order, and then OEntry.
LEMMA MarepGoes ==
  ASSUME RunInv, Run!Marep
  PROVE  /\ cross' = TRUE /\ built' = {} /\ queue' \in Seq(Run!CacheKey)
         /\ QueueHolds(has, queue', {}) /\ CacheInv' /\ blocks' \subseteq Run!CacheKey
<1> DEFINE calls == Run!Calls
           q == IF "OEntry" \in loaded THEN Append(calls, <<"OEntry", "own">>) ELSE calls
           modules == IF "OEntry" \in loaded THEN Run!Order ELSE Components
<1>1. /\ cross' = TRUE /\ built' = {} /\ queue' = q /\ Run!Parse(modules)
      /\ UNCHANGED blocks
  BY DEF Run!Marep, Run!OEntry
<1>2. CacheInv /\ blocks \subseteq Run!CacheKey
  BY RunGiven
<1>3. calls \in Seq(Run!CacheKey) /\ Len(calls) = Len(Components)
      /\ \A i \in 1..Len(Components) : calls[i] = <<Components[i], "own">>
  <2>1. calls = [i \in 1..Len(Components) |-> <<Components[i], "own">>]
    BY RunConstants DEF Run!Calls
  <2>2. \A i \in 1..Len(Components) : Components[i] \in Run!Modules
    BY RunConstants DEF Run!Modules
  <2>3. \A i \in 1..Len(Components) : <<Components[i], "own">> \in Run!CacheKey
    BY <2>2 DEF Run!CacheKey, Run!Functions
  <2> HIDE DEF calls
  <2> QED BY <2>1, <2>3, RunConstants
<1>4. modules \in Seq(Run!Modules)
  <2>1. Components \in Seq(Run!Modules) /\ "OEntry" \in Run!Modules
    BY RunConstants DEF Run!Modules, Run!OEntry
  <2> QED BY <2>1 DEF Run!Order, Run!OEntry
<1>5. <<"OEntry", "own">> \in Run!CacheKey
  BY DEF Run!CacheKey, Run!Modules, Run!Functions, Run!OEntry
<1> HIDE DEF calls, modules
<1>6. /\ q \in Seq(Run!CacheKey) /\ Len(q) \in {Len(Components), Len(Components) + 1}
      /\ \A i \in 1..Len(Components) : q[i] = <<Components[i], "own">>
  BY <1>3, <1>5
<1> HIDE DEF q
<1>7. CacheInv'
  BY <1>1, <1>2, <1>4, ParseKeepsCache
<1>8. QueueHolds(has, q, {})
  <2>1. Len(Components) \in Nat /\ \A i \in 1..Len(Components) : Components[i] # "OEntry"
    BY RunConstants DEF Run!Listed
  <2>2. \A m \in Run!Listed : \E i \in 1..Len(Components) : m = Components[i]
    BY RunConstants DEF Run!Listed
  <2>3. \A m \in Run!Listed : \E i \in 1..Len(q) : q[i] = <<m, "own">>
    <3> TAKE m \in Run!Listed
    <3>1. PICK i \in 1..Len(Components) : m = Components[i]
      BY <2>2
    <3>2. i \in 1..Len(q) /\ q[i] = <<Components[i], "own">>
      BY <1>6, <2>1
    <3> QED BY <3>1, <3>2
  <2>4. \A i \in 1..Len(q) : q[i][1] = "OEntry" => i = Len(q)
    <3> SUFFICES ASSUME NEW i \in 1..Len(q), q[i][1] = "OEntry", i # Len(q) PROVE FALSE
      OBVIOUS
    <3>1. i \in 1..Len(Components)
      BY <1>6, <2>1
    <3> QED BY <1>6, <2>1, <3>1
  <2> QED BY <2>3, <2>4 DEF QueueHolds
<1> QED BY <1>1, <1>2, <1>6, <1>7, <1>8

LEMMA NoFramesHold ==
  ASSUME NEW h, NEW b
  PROVE  BuiltHolds(h, <<>>, b)
BY DEF BuiltHolds

LEMMA StartKeepsRun ==
  ASSUME RunInv, Run!StartMarep
  PROVE  RunInv'
<1>1. /\ frames = <<>> /\ runs < MaxRuns /\ runs' = runs + 1 /\ Run!Marep
      /\ UNCHANGED <<loaded, has, filled, fonts, frames, below, overrun>>
  BY DEF Run!StartMarep, Run!Idle, Run!Over, Run!program
<1>2. runs' \in 0..MaxRuns
  BY <1>1, RunGiven, RunConstants
<1>3. /\ cross' = TRUE /\ built' = {} /\ queue' \in Seq(Run!CacheKey)
      /\ QueueHolds(has, queue', {}) /\ CacheInv' /\ blocks' \subseteq Run!CacheKey
  BY <1>1, MarepGoes
<1>4. BuiltHolds(has, frames', {})
  BY <1>1, NoFramesHold
<1> QED BY <1>1, <1>2, <1>3, <1>4, RunGiven, KeptHolds DEF Kept

LEMMA ModuleKeepsRun ==
  ASSUME RunInv, NEW m \in Run!Modules, Run!StartModule(m)
  PROVE  RunInv'
<1>1. /\ frames = <<>> /\ runs < MaxRuns /\ cross' = FALSE /\ runs' = runs + 1 /\ built' = {}
      /\ queue' = <<<<m, "own">>, <<m, "other">>>> /\ Run!Parse(<<m>>)
      /\ UNCHANGED <<loaded, has, filled, fonts, frames, below, overrun, blocks>>
  BY DEF Run!StartModule, Run!Idle, Run!Over, Run!program
<1>2. CacheInv'
  <2>1. <<m>> \in Seq(Run!Modules)
    OBVIOUS
  <2> QED BY <1>1, <2>1, RunGiven, ParseKeepsCache
<1>3. queue' \in Seq(Run!CacheKey)
  BY <1>1 DEF Run!CacheKey, Run!Functions
<1>4. runs' \in 0..MaxRuns
  BY <1>1, RunGiven, RunConstants
<1> QED BY <1>1, <1>2, <1>3, <1>4, RunGiven, KeptHolds DEF Kept

\* When OEntry is called nothing is left in the queue, so that all were built.
LEMMA TopKeepsRun ==
  ASSUME RunInv, Run!TopCall
  PROVE  RunInv'
<1> DEFINE module == queue[1][1]
           fn == queue[1][2]
<1>1. /\ frames = <<>> /\ queue # <<>> /\ queue' = Tail(queue)
      /\ UNCHANGED <<loaded, has, filled, fonts, cross, below, overrun, runs>>
      /\ IF Run!Skipped(module, fn) THEN UNCHANGED <<frames, consts, blocks, parsed, built>>
         ELSE Run!Enter(frames, module, fn)
  BY DEF Run!TopCall, Run!program, Run!cacheVars
<1>3. queue \in Seq(Run!CacheKey) /\ frames \in Seq(Run!Frame) /\ Len(frames) <= MaxDepth + 1
      /\ blocks \subseteq Run!CacheKey /\ built \subseteq Run!Modules /\ CacheInv
  BY RunGiven
<1>4. /\ Len(queue) \in Nat /\ Len(queue) >= 1 /\ queue[1] \in Run!CacheKey
      /\ Tail(queue) \in Seq(Run!CacheKey) /\ Len(Tail(queue)) = Len(queue) - 1
      /\ \A i \in 1..Len(queue) - 1 : Tail(queue)[i] = queue[i + 1]
  BY <1>1, <1>3
<1>5. module \in Run!Modules /\ fn \in Run!Functions /\ queue[1] = <<module, fn>>
  BY <1>4 DEF Run!CacheKey
<1> HIDE DEF module, fn
<1>6. /\ CacheInv' /\ blocks' \subseteq Run!CacheKey /\ frames' \in Seq(Run!Frame)
      /\ Len(frames') <= MaxDepth + 1 /\ built \subseteq built' /\ built' \subseteq Run!Modules
      /\ frames' = <<>> \/ frames'[1].module = module
      /\ fn = "own" /\ fn \in has[module] => module \in built'
  <2>1. CASE Run!Skipped(module, fn)
    BY <1>1, <1>3, <2>1 DEF CacheInv, Run!Skipped
  <2>2. CASE ~Run!Skipped(module, fn)
    <3>1. Run!Enter(frames, module, fn)
      BY <1>1, <2>2
    <3>2. /\ CacheInv' /\ blocks' \subseteq Run!CacheKey /\ frames' \in Seq(Run!Frame)
          /\ Len(frames') <= MaxDepth + 1
          /\ frames' = <<>> \/ frames'[1].module = module
          /\ built' \in {built, built \cup {module}}
          /\ fn = "own" /\ fn \in has[module] => module \in built'
      BY <1>1, <1>3, <1>5, <3>1, EnterGoes
    <3> QED BY <1>3, <1>5, <3>2
  <2> QED BY <2>1, <2>2
<1>7. ASSUME cross PROVE QueueHolds(has, queue', built')
  <2> SUFFICES ASSUME NEW i \in 1..Len(queue'), queue'[i][1] = "OEntry"
               PROVE  /\ i = Len(queue')
                      /\ \A m \in Run!Listed : "own" \in has[m] =>
                           m \in built' \/ \E j \in 1..Len(queue') : queue'[j] = <<m, "own">>
    BY DEF QueueHolds
  <2>1. i \in 1..Len(queue) - 1 /\ queue'[i] = queue[i + 1] /\ i + 1 \in 1..Len(queue)
    BY <1>1, <1>4
  <2>0. QueueHolds(has, queue, built)
    BY <1>7, RunGiven
  <2>2. /\ i + 1 = Len(queue)
        /\ \A m \in Run!Listed : "own" \in has[m] =>
             m \in built \/ \E j \in 1..Len(queue) : queue[j] = <<m, "own">>
    <3>1. queue[i + 1][1] = "OEntry"
      BY <2>1
    <3> QED BY <2>0, <2>1, <3>1 DEF QueueHolds
  <2>3. i = Len(queue')
    <3>1. Len(queue') = Len(queue) - 1 /\ Len(queue) \in Nat /\ i \in Nat
      BY <1>1, <1>4, <2>1
    <3> QED BY <2>2, <3>1
  <2>4. ASSUME NEW m \in Run!Listed, "own" \in has[m], m \notin built'
        PROVE  \E j \in 1..Len(queue') : queue'[j] = <<m, "own">>
    <3>1. m \notin built
      BY <1>6, <2>4
    <3>2. PICK j \in 1..Len(queue) : queue[j] = <<m, "own">>
      BY <2>2, <2>4, <3>1
    <3>3. j # 1
      <4> SUFFICES ASSUME j = 1 PROVE FALSE
        OBVIOUS
      <4>1. module = m /\ fn = "own"
        BY <1>5, <3>2
      <4> QED BY <1>1, <1>6, <2>4, <4>1
    <3>4. j - 1 \in 1..Len(queue) - 1 /\ queue'[j - 1] = queue[(j - 1) + 1]
      BY <1>1, <1>4, <3>3
    <3>5. (j - 1) + 1 = j
      OBVIOUS
    <3> QED BY <1>1, <1>4, <3>2, <3>4, <3>5
  <2> QED BY <2>3, <2>4
<1>8. ASSUME cross PROVE BuiltHolds(has, frames', built')
  <2> SUFFICES ASSUME frames' # <<>>, frames'[1].module = "OEntry",
                      NEW m \in Run!Listed, "own" \in has[m]
               PROVE  m \in built'
    BY DEF BuiltHolds
  <2>1. module = "OEntry"
    BY <1>6
  <2>2. /\ Len(queue) = 1
        /\ m \in built \/ \E j \in 1..Len(queue) : queue[j] = <<m, "own">>
    <3>1. 1 \in 1..Len(queue) /\ queue[1][1] = "OEntry"
      BY <1>4, <1>5, <2>1
    <3>2. QueueHolds(has, queue, built)
      BY <1>8, RunGiven
    <3> QED BY <3>1, <3>2 DEF QueueHolds
  <2>3. \A i \in 1..Len(queue) : queue[i] # <<m, "own">>
    BY <1>5, <2>1, <2>2, RunConstants
  <2> QED BY <1>6, <2>2, <2>3
<1>9. /\ CacheInv' /\ blocks' \subseteq Run!CacheKey /\ frames' \in Seq(Run!Frame)
      /\ Len(frames') <= MaxDepth + 1 /\ built' \subseteq Run!Modules
      /\ queue' \in Seq(Run!CacheKey)
  BY <1>1, <1>4, <1>6
<1> QED BY <1>1, <1>7, <1>8, <1>9, RunGiven, KeptHolds DEF Kept

\* What a run does below its first call leaves the queue, what was built and whose
\* call it is.
LEMMA BelowKeepsRun ==
  ASSUME RunInv, UNCHANGED <<loaded, has, filled, fonts, cross, queue, below, runs, built>>,
         frames # <<>>, overrun' \in BOOLEAN,
         CacheInv', blocks' \subseteq Run!CacheKey, frames' \in Seq(Run!Frame),
         Len(frames') <= MaxDepth + 1,
         frames' = <<>> \/ frames'[1].module = frames[1].module
  PROVE  RunInv'
<1>1. cross => BuiltHolds(has, frames', built)
  <2>1. cross => BuiltHolds(has, frames, built)
    BY RunGiven
  <2> QED BY <2>1 DEF BuiltHolds
<1> QED BY <1>1, RunGiven, KeptHolds DEF Kept

\* A call takes one from the calls its block may still make.
LEMMA SpentGoes ==
  ASSUME RunInv, frames # <<>>, Run!Now.calls > 0
  PROVE  /\ Run!Spent \in Seq(Run!Frame) /\ Len(Run!Spent) <= MaxDepth + 1
         /\ Run!Spent # <<>> /\ Run!Spent[1].module = frames[1].module
<1> DEFINE n == Len(frames)
           callers == [frames EXCEPT ![n].calls = @ - 1]
<1>1. frames[n].calls > 0 /\ Run!Spent = callers
  BY DEF Run!Now, Run!Spent
<1>2. frames \in Seq(Run!Frame) /\ n <= MaxDepth + 1 /\ n \in 1..n
  BY RunGiven
<1>3. frames[n] \in Run!Frame
  BY <1>2
<1>4. [frames[n] EXCEPT !.calls = @ - 1] \in Run!Frame
      /\ [frames[n] EXCEPT !.calls = @ - 1].module = frames[n].module
  <2> DEFINE e == frames[n]
  <2>1. /\ e \in [module : Run!Modules, fn : Run!Functions, blocks : 1..MaxBlocks,
                  calls : 0..MaxCalls]
        /\ e.calls > 0 /\ MaxCalls \in Nat
    BY <1>1, <1>3, RunConstants DEF Run!Frame
  <2> HIDE DEF e
  <2>2. e.calls - 1 \in 0..MaxCalls
    BY <2>1
  <2> DEFINE k == e.calls - 1
  <2> HIDE DEF k
  <2>3. /\ [e EXCEPT !.calls = k] \in [module : Run!Modules, fn : Run!Functions,
                                       blocks : 1..MaxBlocks, calls : 0..MaxCalls]
        /\ [e EXCEPT !.calls = k].module = e.module
    BY <2>1, <2>2 DEF k
  <2>4. [e EXCEPT !.calls = @ - 1] = [e EXCEPT !.calls = k]
    BY DEF k
  <2> QED BY <2>3, <2>4 DEF e, Run!Frame
<1>5. callers = [frames EXCEPT ![n] = [frames[n] EXCEPT !.calls = @ - 1]]
  BY <1>2
<1>6. /\ callers \in Seq(Run!Frame) /\ Len(callers) = n /\ callers # <<>>
      /\ callers[1].module = frames[1].module
  BY <1>2, <1>4, <1>5
<1> HIDE DEF callers
<1> QED BY <1>1, <1>2, <1>6

LEMMA CallKeepsRun ==
  ASSUME RunInv, NEW m \in Run!Modules, NEW fn \in Run!Functions, Run!Call(m, fn)
  PROVE  RunInv'
<1> DEFINE callers == Run!Spent
<1>1. /\ frames # <<>> /\ Run!Now.calls > 0 /\ Run!Enter(callers, m, fn)
      /\ UNCHANGED <<loaded, has, filled, fonts, cross, queue, below, overrun, runs>>
  BY DEF Run!Call, Run!Running, Run!program
<1>2. /\ callers \in Seq(Run!Frame) /\ Len(callers) <= MaxDepth + 1 /\ callers # <<>>
      /\ callers[1].module = frames[1].module
  BY <1>1, SpentGoes
<1> HIDE DEF callers
<1>3. blocks \subseteq Run!CacheKey /\ built \subseteq Run!Modules /\ CacheInv
  BY RunGiven
<1>4. /\ CacheInv' /\ blocks' \subseteq Run!CacheKey
      /\ frames' \in Seq(Run!Frame) /\ Len(frames') <= MaxDepth + 1
      /\ frames' # <<>> /\ frames'[1] = callers[1] /\ built' = built
  BY <1>1, <1>2, <1>3, EnterGoes
<1>5. overrun' \in BOOLEAN
  BY <1>1, RunGiven
<1> QED BY <1>1, <1>2, <1>4, <1>5, BelowKeepsRun

\* A run that another is started in waits with its calls, its queue and what was built.
LEMMA SuspendGoes ==
  ASSUME RunInv, frames # <<>>, Run!Now.calls > 0, Len(below) # MaxNested, Run!Suspend
  PROVE  /\ below' \in Seq(Waiting(has)) /\ Len(below') <= MaxNested
         /\ frames' = <<>> /\ overrun' = overrun
<1> DEFINE f == Run!Spent
           r == [cross |-> cross, queue |-> queue, frames |-> f, built |-> built]
<1>1. below' = Append(below, r) /\ frames' = <<>> /\ overrun' = overrun
  BY DEF Run!Suspend
<1>2. /\ f \in Seq(Run!Frame) /\ Len(f) <= MaxDepth + 1 /\ f # <<>>
      /\ f[1].module = frames[1].module
  BY SpentGoes
<1>3. /\ cross \in BOOLEAN /\ queue \in Seq(Run!CacheKey) /\ built \subseteq Run!Modules
      /\ cross => QueueHolds(has, queue, built) /\ BuiltHolds(has, frames, built)
  BY RunGiven
<1> HIDE DEF f
<1>4. BuiltHolds(has, frames, built) => BuiltHolds(has, f, built)
  BY <1>2 DEF BuiltHolds
<1>5. r \in Waiting(has)
  BY <1>2, <1>3, <1>4 DEF Waiting, Run!Suspended
<1> HIDE DEF r
<1>6. below \in Seq(Waiting(has)) /\ Len(below) <= MaxNested /\ Len(below) \in Nat
  BY RunGiven
<1>7. Append(below, r) \in Seq(Waiting(has)) /\ Len(Append(below, r)) = Len(below) + 1
  BY <1>5, <1>6
<1>8. Len(below') <= MaxNested
  BY <1>1, <1>6, <1>7, RunConstants
<1> QED BY <1>1, <1>7, <1>8

LEMMA OverrunKeepsRun ==
  ASSUME RunInv, frames # <<>>, UNCHANGED <<loaded, has, filled, fonts, runs>>, Run!Overrun
  PROVE  RunInv'
<1>1. /\ overrun' \in BOOLEAN
      /\ UNCHANGED <<cross, queue, frames, below, consts, blocks, parsed, built>>
  BY DEF Run!Overrun, Run!cacheVars
<1>2. CacheInv'
  BY <1>1, RunGiven DEF CacheInv
<1>3. /\ blocks' \subseteq Run!CacheKey /\ frames' \in Seq(Run!Frame)
      /\ Len(frames') <= MaxDepth + 1
  BY <1>1, RunGiven
<1> QED BY <1>1, <1>2, <1>3, BelowKeepsRun

LEMMA NothingKeepsRun ==
  ASSUME RunInv, frames # <<>>, Run!Now.calls > 0,
         UNCHANGED <<loaded, has, filled, fonts, runs, blocks>>, CacheInv', Run!Nothing
  PROVE  RunInv'
<1>1. frames' = Run!Spent /\ UNCHANGED <<cross, queue, below, overrun, built>>
  BY DEF Run!Nothing
<1>2. /\ frames' \in Seq(Run!Frame) /\ Len(frames') <= MaxDepth + 1
      /\ frames'[1].module = frames[1].module
  BY <1>1, SpentGoes
<1>3. overrun' \in BOOLEAN /\ blocks' \subseteq Run!CacheKey
  BY <1>1, RunGiven
<1> QED BY <1>1, <1>2, <1>3, BelowKeepsRun

LEMMA CompositeKeepsRun ==
  ASSUME RunInv, Run!Composite
  PROVE  RunInv'
<1>1. frames # <<>> /\ Run!Now.calls > 0 /\ UNCHANGED <<loaded, has, filled, fonts, runs>>
  BY DEF Run!Composite, Run!Running, Run!program
<1>2. CASE Run!Nothing /\ UNCHANGED <<consts, blocks, parsed>>
  <2>1. CacheInv'
    BY <1>2, RunGiven DEF CacheInv
  <2> QED BY <1>1, <1>2, <2>1, NothingKeepsRun
<1>3. CASE Run!Overrun
  BY <1>1, <1>3, OverrunKeepsRun
<1>4. CASE Len(below) # MaxNested /\ Run!Suspend /\ Run!Marep
  <2>1. /\ below' \in Seq(Waiting(has)) /\ Len(below') <= MaxNested
        /\ frames' = <<>> /\ overrun' = overrun
    BY <1>1, <1>4, SuspendGoes
  <2>2. /\ cross' = TRUE /\ built' = {} /\ queue' \in Seq(Run!CacheKey)
        /\ QueueHolds(has, queue', {}) /\ CacheInv' /\ blocks' \subseteq Run!CacheKey
    BY <1>4, MarepGoes
  <2>3. BuiltHolds(has, frames', {}) /\ frames' \in Seq(Run!Frame) /\ Len(frames') <= MaxDepth + 1
    BY <2>1, NoFramesHold, RunConstants
  <2> QED BY <1>1, <2>1, <2>2, <2>3, RunGiven, KeptHolds DEF Kept
<1> QED BY <1>2, <1>3, <1>4 DEF Run!Composite, Run!cacheVars

\* A font's function is called from a top of its own, and is not OEntry.
LEMMA DrawTextKeepsRun ==
  ASSUME RunInv, Run!DrawText
  PROVE  RunInv'
<1>1. frames # <<>> /\ Run!Now.calls > 0 /\ UNCHANGED <<loaded, has, filled, fonts, runs>>
  BY DEF Run!DrawText, Run!Running, Run!program
<1>2. PICK m \in fonts, fn \in Run!Functions :
        IF fn \notin has[m] THEN Run!Nothing /\ Run!Parse(<<m>>) /\ UNCHANGED blocks
        ELSE IF Len(below) = MaxNested THEN Run!Overrun
        ELSE /\ Run!Suspend /\ cross' = TRUE /\ built' = {}
             /\ queue' = <<<<m, fn>>>> /\ UNCHANGED <<consts, blocks, parsed>>
  BY DEF Run!DrawText, Run!cacheVars
<1>3. m \in Run!Modules /\ m # "OEntry"
  BY RunGiven, RunConstants DEF Run!Modules
<1>4. CASE Run!Nothing /\ Run!Parse(<<m>>) /\ UNCHANGED blocks
  <2>1. <<m>> \in Seq(Run!Modules)
    BY <1>3
  <2>2. CacheInv'
    BY <1>4, <2>1, RunGiven, ParseKeepsCache
  <2> QED BY <1>1, <1>4, <2>2, NothingKeepsRun
<1>5. CASE Run!Overrun
  BY <1>1, <1>5, OverrunKeepsRun
<1>6. CASE /\ Len(below) # MaxNested /\ Run!Suspend /\ cross' = TRUE /\ built' = {}
           /\ queue' = <<<<m, fn>>>> /\ UNCHANGED <<consts, blocks, parsed>>
  <2>1. /\ below' \in Seq(Waiting(has)) /\ Len(below') <= MaxNested
        /\ frames' = <<>> /\ overrun' = overrun
    BY <1>1, <1>6, SuspendGoes
  <2>2. CacheInv' /\ blocks' \subseteq Run!CacheKey
    BY <1>6, RunGiven DEF CacheInv
  <2>3. queue' \in Seq(Run!CacheKey)
    BY <1>3, <1>6 DEF Run!CacheKey
  <2>4. QueueHolds(has, queue', {})
    BY <1>3, <1>6 DEF QueueHolds
  <2>5. BuiltHolds(has, frames', {}) /\ frames' \in Seq(Run!Frame) /\ Len(frames') <= MaxDepth + 1
    BY <2>1, NoFramesHold, RunConstants
  <2> QED BY <1>1, <1>6, <2>1, <2>2, <2>3, <2>4, <2>5, RunGiven, KeptHolds DEF Kept
<1> QED BY <1>2, <1>4, <1>5, <1>6

LEMMA FrontOf ==
  ASSUME NEW S, NEW s \in Seq(S), NEW k \in 1..Len(s)
  PROVE  /\ SubSeq(s, 1, k - 1) \in Seq(S) /\ Len(SubSeq(s, 1, k - 1)) = k - 1
         /\ \A i \in 1..k - 1 : SubSeq(s, 1, k - 1)[i] = s[i]
OBVIOUS

\* A run goes on as it was when another was started in it.
LEMMA ResumeKeepsRun ==
  ASSUME RunInv, Run!Resume
  PROVE  RunInv'
<1> DEFINE n == Len(below)
           r == below[n]
<1>1. /\ below # <<>> /\ cross' = r.cross /\ queue' = r.queue /\ frames' = r.frames
      /\ built' = r.built /\ below' = SubSeq(below, 1, n - 1)
      /\ UNCHANGED <<loaded, has, filled, fonts, overrun, consts, blocks, parsed, runs>>
  BY DEF Run!Resume, Run!program, Run!cacheVars
<1>2. below \in Seq(Waiting(has)) /\ n <= MaxNested /\ n \in Nat
  BY RunGiven
<1>3. n \in 1..Len(below)
  BY <1>1, <1>2
<1>4. r \in Waiting(has)
  BY <1>2, <1>3
<1>5. SubSeq(below, 1, n - 1) \in Seq(Waiting(has)) /\ Len(SubSeq(below, 1, n - 1)) = n - 1
  BY <1>2, <1>3, FrontOf
<1> HIDE DEF r
<1>6. /\ r.cross \in BOOLEAN /\ r.queue \in Seq(Run!CacheKey) /\ r.frames \in Seq(Run!Frame)
      /\ r.built \subseteq Run!Modules /\ Len(r.frames) <= MaxDepth + 1
      /\ r.cross => QueueHolds(has, r.queue, r.built) /\ BuiltHolds(has, r.frames, r.built)
  BY <1>4 DEF Waiting, Run!Suspended
<1> HIDE DEF n
<1>7. Len(below') <= MaxNested
  BY <1>1, <1>2, <1>5, RunConstants
<1>8. CacheInv'
  BY <1>1, RunGiven DEF CacheInv
<1>9. cross' => QueueHolds(has, queue', built') /\ BuiltHolds(has, frames', built')
  BY <1>1, <1>6
<1> QED BY <1>1, <1>5, <1>6, <1>7, <1>8, <1>9, RunGiven, KeptHolds DEF Kept

LEMMA FinishKeepsRun ==
  ASSUME RunInv, frames # <<>>, Run!Finish
  PROVE  RunInv'
<1>1. /\ frames' = SubSeq(frames, 1, Len(frames) - 1)
      /\ UNCHANGED <<loaded, has, filled, fonts, cross, queue, below, overrun, consts, blocks,
                    parsed, built, runs>>
  BY DEF Run!Finish, Run!program, Run!cacheVars
<1>2. frames \in Seq(Run!Frame) /\ Len(frames) <= MaxDepth + 1 /\ blocks \subseteq Run!CacheKey
  BY RunGiven
<1>3. /\ frames' \in Seq(Run!Frame) /\ Len(frames') = Len(frames) - 1
      /\ frames' = <<>> \/ frames'[1] = frames[1]
  <2> DEFINE n == Len(frames)
  <2>1. n \in Nat /\ n \in 1..n
    BY <1>2
  <2>2. /\ frames' \in Seq(Run!Frame) /\ Len(frames') = n - 1
        /\ \A i \in 1..n - 1 : frames'[i] = frames[i]
    BY <1>1, <1>2, <2>1, FrontOf
  <2> HIDE DEF n
  <2>3. n - 1 = 0 => frames' = <<>>
    BY <2>2
  <2>4. n - 1 # 0 => 1 \in 1..n - 1
    BY <2>1
  <2> QED BY <2>2, <2>3, <2>4 DEF n
<1>4. CacheInv'
  BY <1>1 DEF RunInv, CacheInv
<1>5. Len(frames') <= MaxDepth + 1
  BY <1>2, <1>3, RunConstants
<1>6. overrun' \in BOOLEAN
  BY <1>1, RunGiven
<1> QED BY <1>1, <1>2, <1>3, <1>4, <1>5, <1>6, BelowKeepsRun

LEMMA NextBlock ==
  ASSUME NEW f \in Run!Frame, NEW b \in 1..MaxBlocks
  PROVE  /\ [f EXCEPT !.blocks = b, !.calls = MaxCalls] \in Run!Frame
         /\ [f EXCEPT !.blocks = b, !.calls = MaxCalls].module = f.module
<1> DEFINE g == [f EXCEPT !.blocks = b]
<1>1. g \in Run!Frame /\ g.module = f.module
  BY DEF Run!Frame
<1> HIDE DEF g
<1>2. [g EXCEPT !.calls = MaxCalls] \in Run!Frame /\ [g EXCEPT !.calls = MaxCalls].module = g.module
  BY <1>1, RunConstants DEF Run!Frame
<1> QED BY <1>1, <1>2 DEF g

LEMMA BranchKeepsRun ==
  ASSUME RunInv, Run!Branch
  PROVE  RunInv'
<1> DEFINE n == Len(frames)
           f == frames[n]
           next == [f EXCEPT !.blocks = IF @ < MaxBlocks THEN @ + 1 ELSE @, !.calls = MaxCalls]
<1>1. frames # <<>>
  BY DEF Run!Branch, Run!Running
<1>2. CASE Run!Finish
  BY <1>1, <1>2, FinishKeepsRun
<1>3. CASE ~Run!Finish
  <2>1. /\ frames' = [frames EXCEPT ![n].blocks = IF @ < MaxBlocks THEN @ + 1 ELSE @,
                                    ![n].calls = MaxCalls]
        /\ UNCHANGED <<loaded, has, filled, fonts, cross, queue, below, overrun, consts, blocks,
                      parsed, built, runs>>
    BY <1>3 DEF Run!Branch, Run!program, Run!cacheVars
  <2>2. /\ frames \in Seq(Run!Frame) /\ n <= MaxDepth + 1 /\ n \in 1..n
        /\ blocks \subseteq Run!CacheKey
    BY <1>1, RunGiven
  <2>3. f \in Run!Frame
    BY <2>2
  <2>4. next \in Run!Frame /\ next.module = f.module
    <3>1. (IF f.blocks < MaxBlocks THEN f.blocks + 1 ELSE f.blocks) \in 1..MaxBlocks
      BY <2>3, RunConstants DEF Run!Frame
    <3> QED BY <2>3, <3>1, NextBlock
  <2>5. frames' = [frames EXCEPT ![n] = next]
    BY <2>1, <2>2
  <2> HIDE DEF next
  <2>6. /\ frames' \in Seq(Run!Frame) /\ Len(frames') = n
        /\ frames'[1].module = frames[1].module
    BY <1>1, <2>2, <2>4, <2>5
  <2>7. CacheInv'
    BY <2>1 DEF RunInv, CacheInv
  <2>8. overrun' \in BOOLEAN
    BY <2>1, RunGiven
  <2> QED BY <1>1, <2>1, <2>2, <2>6, <2>7, <2>8, BelowKeepsRun
<1> QED BY <1>2, <1>3

LEMMA RunStep ==
  ASSUME RunInv, Run!RunNext \/ UNCHANGED runVars
  PROVE  RunInv'
<1>1. loaded \subseteq Run!Modules /\ has \in [Run!Modules -> SUBSET Run!Functions]
  BY DEF RunInv, Run!RunTypeOK
<1>2. CASE Run!CallSelf
  <2>0. PICK fn \in Run!Functions : \E m \in Run!Target(fn) : Run!Call(m, fn)
    BY <1>2 DEF Run!CallSelf
  <2>1. PICK m \in Run!Target(fn) : Run!Call(m, fn)
    BY <2>0
  <2>2. m \in Run!Modules
    BY <1>1 DEF Run!Target, Run!SelfTargets
  <2> QED BY <2>1, <2>2, CallKeepsRun
<1>3. CASE Run!CallNamed
  BY <1>1, <1>3, CallKeepsRun DEF Run!CallNamed
<1>4. CASE Run!CallOwn
  <2>1. frames # <<>> /\ frames \in Seq(Run!Frame)
    BY <1>4 DEF Run!CallOwn, Run!Running, RunInv, Run!RunTypeOK
  <2>2. frames[Len(frames)] \in Run!Frame
    BY <2>1
  <2>3. Run!Now.module \in Run!Modules
    BY <2>2 DEF Run!Frame, Run!Now
  <2>4. PICK fn \in has[Run!Now.module] : Run!Call(Run!Now.module, fn)
    BY <1>4 DEF Run!CallOwn
  <2>5. fn \in Run!Functions
    BY <1>1, <2>3
  <2> QED BY <2>3, <2>4, <2>5, CallKeepsRun
<1>5. CASE Run!Return
  BY <1>5, FinishKeepsRun DEF Run!Return, Run!Running
<1>6. CASE UNCHANGED runVars
  <2>1. UNCHANGED <<loaded, has, filled, fonts, cross, queue, frames, below, overrun, consts,
                    blocks, parsed, built, runs>>
    BY <1>6 DEF runVars
  <2>2. CacheInv'
    BY <2>1, RunGiven DEF CacheInv
  <2> QED BY <2>1, <2>2, RunGiven, KeptHolds DEF Kept
<1> QED BY <1>2, <1>3, <1>4, <1>5, <1>6, StartKeepsRun, ModuleKeepsRun, TopKeepsRun,
           BranchKeepsRun, CompositeKeepsRun, DrawTextKeepsRun, ResumeKeepsRun
        DEF Run!RunNext, Run!RunStep

-----------------------------------------------------------------------------
(* The boot: KernelBoot.                                                   *)

Progress == [app : Boot!Apps, volume : Boot!Volumes, file : 1..Len(Boot!Items),
             chunk : Nat, wrote : Nat]
Chunks == Seq(Boot!Versions)

BootTyped ==
  /\ Boot!BootTypeOK
  /\ install \in Progress /\ install.wrote <= install.file - 1
  /\ files \in [Boot!Volumes -> [Boot!Apps -> [Boot!Names -> Chunks]]]

\* A file that begins with n chunks of a version, and a volume's files that all do.
Begins(file, n, ver) == n <= Len(file) /\ \A i \in 1..n : file[i] = ver
Whole(home, ver) == \A j \in 1..Len(Boot!Items) : Begins(home[Boot!Items[j]], Size[ver], ver)

\* While the desktop's assets are installed nothing was taken before the first volume
\* that can be written; what was written there is of this boot's bundle.
Installs(st, inst, home, ver) ==
  /\ st = "install home" =>
       /\ inst.app = "ShiLauncher"
       /\ inst.volume < Boot!First => inst.wrote = 0
       /\ inst.volume = Boot!First =>
            /\ \A j \in 1..inst.file - 1 : Begins(home[Boot!Items[j]], Size[ver], ver)
            /\ Begins(home[Boot!Items[inst.file]], inst.chunk, ver)
       /\ inst.volume > Boot!First => Whole(home, ver)
  /\ st \in {"render", "screen", "install screen", "desktop"} => Whole(home, ver)

HomeInv ==
  writable # {} /\ ~failed => Installs(stage, install, files[Boot!First]["ShiLauncher"], version)

\* A volume with a file has the directory, and before the first cut the boot screen's
\* assets are on no volume until they are installed.
PlacesInv ==
  /\ stage = "install home" => install.app = "ShiLauncher"
  /\ stage = "install screen" => install.app = "ShiBoot"
  /\ \A v \in Boot!Volumes, a \in Boot!Apps, n \in Boot!Names :
       files[v][a][n] # <<>> => v \in dirs
  /\ cuts = 0 /\ stage \in {"whesere", "drivers", "home", "install home", "render"} =>
       \A v \in Boot!Volumes, n \in Boot!Names : files[v]["ShiBoot"][n] = <<>>
  /\ "ShiBoot" \in scanned => cuts > 0

ScanInv ==
  /\ stage \in {"screen", "install screen", "desktop"} /\ writable # {} /\ ~failed
  /\ \A v \in dirs : v >= Boot!First
  => "ShiLauncher" \in scanned

BootInv == BootTyped /\ HomeInv /\ PlacesInv /\ ScanInv

LEMMA BootConstants ==
  /\ NVolumes \in Nat /\ NVolumes > 0 /\ MaxCuts \in Nat
  /\ Size \in Seq(Nat \ {0}) /\ Size # <<>> /\ AppAssets \in Seq(STRING)
BY BootAssumption

LEMMA Appended ==
  ASSUME NEW S, NEW s \in Seq(S), NEW e \in S
  PROVE  LET t == Append(s, e)
         IN /\ Len(t) = Len(s) + 1 /\ Len(s) \in Nat
            /\ t[Len(s) + 1] = e /\ DOMAIN t = 1..Len(t)
            /\ t = [i \in 1..Len(t) |-> t[i]]
<1> DEFINE t == Append(s, e)
<1>1. t \in Seq(S) /\ Len(t) = Len(s) + 1 /\ Len(s) \in Nat /\ t[Len(s) + 1] = e
  OBVIOUS
<1> HIDE DEF t
<1>2. DOMAIN t = 1..Len(t) /\ t = [i \in 1..Len(t) |-> t[i]]
  BY <1>1
<1> QED BY <1>1, <1>2 DEF t

LEMMA ItemsAreNamed ==
  /\ Boot!Items \in Seq(Boot!Names) /\ Len(Boot!Items) = Len(AppAssets) + 1
  /\ Len(AppAssets) \in Nat /\ Boot!Items[Len(Boot!Items)] = "Maraset.yaml"
  /\ "Maraset.yaml" \in Boot!Names
  /\ \A n \in Boot!Names : \E j \in 1..Len(Boot!Items) : n = Boot!Items[j]
<1> DEFINE items == Append(AppAssets, "Maraset.yaml")
           strings == STRING \cup {"Maraset.yaml"}
<1>0. AppAssets \in Seq(strings) /\ "Maraset.yaml" \in strings
  <2>1. /\ AppAssets = [i \in 1..Len(AppAssets) |-> AppAssets[i]] /\ Len(AppAssets) \in Nat
        /\ \A i \in 1..Len(AppAssets) : AppAssets[i] \in STRING
    BY BootConstants
  <2>2. \A i \in 1..Len(AppAssets) : AppAssets[i] \in strings
    BY <2>1
  <2> HIDE DEF strings
  <2>3. AppAssets \in Seq(strings)
    BY <2>1, <2>2
  <2> QED BY <2>3 DEF strings
<1> HIDE DEF strings
<1>1. /\ Len(items) = Len(AppAssets) + 1 /\ Len(AppAssets) \in Nat
      /\ items[Len(AppAssets) + 1] = "Maraset.yaml" /\ DOMAIN items = 1..Len(items)
      /\ items = [i \in 1..Len(items) |-> items[i]]
  BY <1>0, Appended
<1>2. Boot!Items = items
  BY DEF Boot!Items, Boot!Manifest
<1> HIDE DEF items
<1>3. Boot!Names = {items[i] : i \in 1..Len(items)}
  BY <1>1, <1>2 DEF Boot!Names
<1>4. \A i \in 1..Len(items) : items[i] \in Boot!Names
  BY <1>3
<1>5. items \in Seq(Boot!Names)
  BY <1>1, <1>4
<1>6. Len(items) \in 1..Len(items)
  BY <1>1
<1> QED BY <1>1, <1>2, <1>3, <1>4, <1>5, <1>6

LEMMA ItemsAreCounted ==
  /\ Len(Boot!Items) = Len(AppAssets) + 1 /\ Len(AppAssets) \in Nat
  /\ DOMAIN Boot!Items = 1..Len(Boot!Items) /\ Len(Boot!Items) \in Nat
<1>1. Boot!Items \in Seq(Boot!Names)
  BY ItemsAreNamed
<1>2. ASSUME NEW S, NEW s \in Seq(S) PROVE DOMAIN s = 1..Len(s)
  OBVIOUS
<1>3. DOMAIN Boot!Items = 1..Len(Boot!Items)
  BY <1>1, <1>2
<1>4. Len(Boot!Items) = Len(AppAssets) + 1 /\ Len(AppAssets) \in Nat
  BY ItemsAreNamed
<1> QED BY <1>3, <1>4

LEMMA VolumesAreNumbers == Boot!Volumes \subseteq Nat
BY DEF Boot!Volumes

LEMMA CutsAreCounted ==
  ASSUME BootTyped
  PROVE  cuts \in Nat /\ cuts <= MaxCuts
<1>1. cuts \in 0..MaxCuts
  BY DEF BootTyped, Boot!BootTypeOK
<1>2. MaxCuts \in Nat
  BY BootConstants
<1> QED BY <1>1, <1>2

LEMMA WithinLength ==
  ASSUME NEW c \in Nat, NEW size \in Nat, NEW w \in Nat, NEW items \in Nat,
         NEW file \in 1..items, NEW assets \in Nat, items = assets + 1,
         c <= size, w <= file - 1
  PROVE  c \in 0..size /\ w \in 0..assets
OBVIOUS

LEMMA ItemIsNamed == \A j \in 1..Len(Boot!Items) : Boot!Items[j] \in Boot!Names
BY ItemsAreNamed

LEMMA FilesAreCounted == \A f \in 1..Len(Boot!Items) : f \in Nat
BY ItemsAreCounted

LEMMA NoneBegins ==
  ASSUME NEW file \in Chunks, NEW ver
  PROVE  Begins(file, 0, ver)
BY DEF Begins, Chunks

LEMMA UpToFile ==
  ASSUME NEW f \in Nat
  PROVE  (f + 1) - 1 = f /\ \A j \in 1..f : j = f \/ j \in 1..f - 1
OBVIOUS

LEMMA SmallerIsCounted ==
  ASSUME NEW items \in Nat, NEW f \in 1..items
  PROVE  \A j \in 1..f - 1 : j \in 1..items
OBVIOUS

LEMMA NextIsCounted ==
  \A k \in Nat : 0 <= k /\ k + 1 \in Nat /\ k + 1 > 0 /\ (k + 1) - 1 = k
OBVIOUS

LEMMA ChunkGoes ==
  ASSUME NEW at \in Progress
  PROVE  LET next == [at EXCEPT !.chunk = @ + 1] IN
         /\ next \in Progress /\ next.app = at.app /\ next.volume = at.volume
         /\ next.file = at.file /\ next.chunk = at.chunk + 1 /\ next.wrote = at.wrote
BY DEF Progress

LEMMA VolumesInOrder ==
  ASSUME NEW v \in Nat, NEW first \in Nat, NEW n \in Nat, first <= n
  PROVE  /\ v < first => v < n
         /\ ~(v < first) => v = first \/ v > first
         /\ v + 1 > first => v = first \/ v > first
OBVIOUS

LEMMA SizesArePositive ==
  ASSUME NEW v \in Boot!Versions
  PROVE  Size[v] \in Nat /\ Size[v] > 0
BY BootConstants DEF Boot!Versions

LEMMA FirstIsWritable ==
  ASSUME writable \subseteq Boot!Volumes, writable # {}
  PROVE  Boot!First \in writable /\ Boot!First \in Boot!Volumes
         /\ \A v \in writable : Boot!First <= v
<1>1. writable \in SUBSET Nat
  BY DEF Boot!Volumes
<1>2. \E v \in writable : \A u \in writable : v <= u
  BY <1>1, LeastNumber
<1> QED BY <1>2 DEF Boot!First, Boot!Lowest

LEMMA NoInstallIsTyped ==
  ASSUME NEW a \in Boot!Apps, NEW v \in Boot!Volumes
  PROVE  /\ [app |-> a, volume |-> v, file |-> 1, chunk |-> 0, wrote |-> 0] \in Progress
         /\ Boot!NoInstall \in Progress
         /\ Boot!NoInstall.file = 1 /\ Boot!NoInstall.chunk = 0 /\ Boot!NoInstall.wrote = 0
         /\ [Boot!NoInstall EXCEPT !.app = a] =
              [app |-> a, volume |-> 1, file |-> 1, chunk |-> 0, wrote |-> 0]
         /\ [Boot!NoInstall EXCEPT !.app = a, !.volume = v] =
              [app |-> a, volume |-> v, file |-> 1, chunk |-> 0, wrote |-> 0]
         /\ 1 \in Boot!Volumes
<1>1. 1 \in 1..Len(Boot!Items) /\ 1 \in Boot!Volumes /\ "ShiLauncher" \in Boot!Apps
  BY ItemsAreNamed, BootConstants DEF Boot!Volumes, Boot!Apps, Boot!Home
<1>2. Boot!NoInstall = [app |-> "ShiLauncher", volume |-> 1, file |-> 1, chunk |-> 0, wrote |-> 0]
  BY DEF Boot!NoInstall, Boot!Home
<1>3. /\ [Boot!NoInstall EXCEPT !.app = a] =
           [app |-> a, volume |-> 1, file |-> 1, chunk |-> 0, wrote |-> 0]
  BY <1>2
<1>4. [Boot!NoInstall EXCEPT !.app = a, !.volume = v] =
        [app |-> a, volume |-> v, file |-> 1, chunk |-> 0, wrote |-> 0]
  <2> DEFINE at1 == [app |-> a, volume |-> 1, file |-> 1, chunk |-> 0, wrote |-> 0]
  <2>1. [at1 EXCEPT !.volume = v] =
          [app |-> a, volume |-> v, file |-> 1, chunk |-> 0, wrote |-> 0]
    OBVIOUS
  <2> QED BY <1>3, <2>1, Zenon
<1>5. \A b \in Boot!Apps, u \in Boot!Volumes :
        [app |-> b, volume |-> u, file |-> 1, chunk |-> 0, wrote |-> 0] \in Progress
  BY <1>1 DEF Progress
<1>6. Boot!NoInstall \in Progress
  BY <1>1, <1>2, <1>5
<1>7. Boot!NoInstall.file = 1 /\ Boot!NoInstall.chunk = 0 /\ Boot!NoInstall.wrote = 0
  BY <1>2
<1> QED BY <1>1, <1>3, <1>4, <1>5, <1>6, <1>7

\* What comes after a file: the next one, the next volume, or the end.
LEMMA FollowingGoes ==
  ASSUME BootTyped, NEW w \in 0..install.file, Boot!Following(w)
  PROVE  /\ install' \in Progress /\ install'.wrote <= install'.file - 1 /\ install'.chunk = 0
         /\ \/ /\ install.file < Len(Boot!Items) /\ stage' = stage
               /\ install'.app = install.app /\ install'.volume = install.volume
               /\ install'.file = install.file + 1 /\ install'.wrote = w
            \/ /\ install.file = Len(Boot!Items) /\ stage' = stage
               /\ w = 0 /\ install.volume < NVolumes
               /\ install'.app = install.app /\ install'.volume = install.volume + 1
               /\ install'.file = 1 /\ install'.wrote = 0
            \/ /\ install.file = Len(Boot!Items)
               /\ ~(w = 0 /\ install.volume < NVolumes)
               /\ stage' = IF stage = "install home" THEN "render" ELSE "desktop"
<1>1. /\ install.app \in Boot!Apps /\ install.volume \in Boot!Volumes
      /\ install.file \in 1..Len(Boot!Items) /\ install.chunk \in Nat /\ install.wrote \in Nat
      /\ install \in Progress
  BY DEF BootTyped, Progress
<1>2. CASE install.file < Len(Boot!Items)
  <2>1. /\ stage' = stage
        /\ install' = [install EXCEPT !.file = @ + 1, !.chunk = 0, !.wrote = w]
    BY <1>2 DEF Boot!Following
  <2>2. install.file + 1 \in 1..Len(Boot!Items) /\ w \in Nat
    BY <1>1, <1>2, ItemsAreNamed
  <2>3. install' = [app |-> install.app, volume |-> install.volume, file |-> install.file + 1,
                    chunk |-> 0, wrote |-> w]
    BY <1>1, <2>1 DEF Progress
  <2>4. install' \in Progress
    BY <1>1, <2>2, <2>3 DEF Progress
  <2>5. /\ install'.app = install.app /\ install'.volume = install.volume
        /\ install'.file = install.file + 1 /\ install'.chunk = 0 /\ install'.wrote = w
    BY <2>3
  <2>6. w <= (install.file + 1) - 1
    BY <1>1
  <2> QED BY <1>2, <2>1, <2>4, <2>5, <2>6
<1>3. CASE ~(install.file < Len(Boot!Items))
  <2>1. install.file = Len(Boot!Items)
    BY <1>1, <1>3, ItemsAreNamed
  <2>2. CASE w = 0 /\ install.volume < NVolumes
    <3>1. /\ stage' = stage
          /\ install' = [Boot!NoInstall EXCEPT !.app = install.app,
                                               !.volume = install.volume + 1]
      BY <1>3, <2>2 DEF Boot!Following, Boot!NextVolume
    <3>2. install.volume + 1 \in Boot!Volumes
      BY <1>1, <2>2, BootConstants DEF Boot!Volumes
    <3>3. /\ install' = [app |-> install.app, volume |-> install.volume + 1, file |-> 1,
                         chunk |-> 0, wrote |-> 0]
          /\ install' \in Progress
      <4>1. /\ [Boot!NoInstall EXCEPT !.app = install.app, !.volume = install.volume + 1] =
                 [app |-> install.app, volume |-> install.volume + 1, file |-> 1,
                  chunk |-> 0, wrote |-> 0]
            /\ [app |-> install.app, volume |-> install.volume + 1, file |-> 1,
                chunk |-> 0, wrote |-> 0] \in Progress
        BY <1>1, <3>2, NoInstallIsTyped
      <4> QED BY <3>1, <4>1
    <3>4. /\ install'.app = install.app /\ install'.volume = install.volume + 1
          /\ install'.file = 1 /\ install'.chunk = 0 /\ install'.wrote = 0
      BY <3>3
    <3>5. install'.wrote <= install'.file - 1
      BY <3>4
    <3> QED BY <2>1, <2>2, <3>1, <3>3, <3>4, <3>5
  <2>3. CASE ~(w = 0 /\ install.volume < NVolumes)
    <3>1. install' = Boot!NoInstall /\ Boot!Installed
      BY <1>3, <2>3 DEF Boot!Following
    <3>2. /\ install' \in Progress /\ install'.file = 1 /\ install'.chunk = 0
          /\ install'.wrote = 0
      BY <1>1, <3>1, NoInstallIsTyped
    <3>3. install'.wrote <= install'.file - 1
      BY <3>2
    <3>4. stage' = IF stage = "install home" THEN "render" ELSE "desktop"
      BY <3>1 DEF Boot!Installed
    <3> QED BY <2>1, <2>3, <3>2, <3>3, <3>4
  <2> QED BY <2>2, <2>3
<1> QED BY <1>2, <1>3

\* A chunk that is written keeps the others, and what the file begins with.
LEMMA OverGoes ==
  ASSUME NEW old \in Chunks, NEW i \in Nat, NEW v \in Boot!Versions, i > 0
  PROVE  LET new == Boot!Rewritten(old, i, v) IN
         /\ new \in Chunks /\ new # <<>> /\ Len(old) <= Len(new)
         /\ \A n \in Nat : Begins(old, n, v) => Begins(new, n, v)
         /\ Begins(old, i - 1, v) => Begins(new, i, v)
<1> DEFINE new == Boot!Rewritten(old, i, v)
<1>1. CASE i > Len(old)
  <2>1. new = Append(old, v)
    BY <1>1 DEF Boot!Rewritten
  <2>2. /\ new \in Chunks /\ new # <<>> /\ Len(new) = Len(old) + 1 /\ new[Len(old) + 1] = v
        /\ \A j \in 1..Len(old) : new[j] = old[j]
    BY <2>1 DEF Chunks
  <2> HIDE DEF new
  <2>3. \A n \in Nat : Begins(old, n, v) => Begins(new, n, v)
    BY <2>2 DEF Begins, Chunks
  <2>4. Begins(old, i - 1, v) => Begins(new, i, v)
    BY <1>1, <2>2 DEF Begins, Chunks
  <2> QED BY <2>2, <2>3, <2>4 DEF new, Chunks
<1>2. CASE ~(i > Len(old))
  <2>1. new = [old EXCEPT ![i] = v] /\ i \in 1..Len(old)
    BY <1>2 DEF Boot!Rewritten, Chunks
  <2>2. /\ new \in Chunks /\ Len(new) = Len(old) /\ new[i] = v
        /\ \A j \in 1..Len(old) : j # i => new[j] = old[j]
    BY <2>1 DEF Chunks
  <2> HIDE DEF new
  <2>3. new # <<>>
    BY <2>1, <2>2 DEF Chunks
  <2>4. \A n \in Nat : Begins(old, n, v) => Begins(new, n, v)
    BY <2>2 DEF Begins, Chunks
  <2>5. Begins(old, i - 1, v) => Begins(new, i, v)
    BY <2>1, <2>2 DEF Begins, Chunks
  <2> QED BY <2>2, <2>3, <2>4, <2>5 DEF new, Chunks
<1> QED BY <1>1, <1>2

LEMMA HomeInvNext ==
  ASSUME UNCHANGED writable
  PROVE  HomeInv' <=> (writable # {} /\ ~failed' =>
           Installs(stage', install', files'[Boot!First]["ShiLauncher"], version'))
BY DEF HomeInv, Installs, Whole, Begins, Boot!First, Boot!Lowest, Boot!Items, Boot!Manifest

LEMMA ScanInvNext ==
  ASSUME UNCHANGED writable
  PROVE  ScanInv' <=>
           (/\ stage' \in {"screen", "install screen", "desktop"} /\ writable # {} /\ ~failed'
            /\ \A v \in dirs' : v >= Boot!First
            => "ShiLauncher" \in scanned')
BY DEF ScanInv, Boot!First, Boot!Lowest

LEMMA BootStart ==
  ASSUME Boot!BootInit
  PROVE  BootInv
<1>1. /\ stage = "whesere" /\ media \in Media /\ writable \in SUBSET Boot!Volumes
      /\ version \in Boot!Versions /\ bsdLoaded = FALSE /\ started = [d \in Drivers |-> 0]
      /\ install = Boot!NoInstall
      /\ files = [v \in Boot!Volumes |-> [a \in Boot!Apps |-> [n \in Boot!Names |-> <<>>]]]
      /\ dirs \in SUBSET (Boot!Volumes \ writable) /\ scanned = {} /\ failed = FALSE /\ cuts = 0
  BY DEF Boot!BootInit
<1>2. files \in [Boot!Volumes -> [Boot!Apps -> [Boot!Names -> Chunks]]]
  <2>1. <<>> \in Chunks
    BY DEF Chunks
  <2> QED BY <1>1, <2>1
<1>3. /\ "ShiLauncher" \in Boot!Apps /\ "ShiBoot" \in Boot!Apps
  BY DEF Boot!Apps, Boot!Home, Boot!Screen
<1>4. /\ install \in Progress /\ install.file = 1 /\ install.chunk = 0 /\ install.wrote = 0
      /\ 1 \in Boot!Volumes
  <2>1. 1 \in Boot!Volumes
    BY BootConstants DEF Boot!Volumes
  <2>2. /\ Boot!NoInstall \in Progress /\ Boot!NoInstall.file = 1
        /\ Boot!NoInstall.chunk = 0 /\ Boot!NoInstall.wrote = 0
    BY <1>3, <2>1, NoInstallIsTyped
  <2> QED BY <1>1, <2>1, <2>2
<1>5. Boot!BootTypeOK
  <2>1. started \in [Drivers -> 0..NVolumes] /\ cuts \in 0..MaxCuts
    BY <1>1, BootConstants
  <2>2. install.volume \in Boot!Volumes /\ install.file \in DOMAIN Boot!Items
        /\ install.chunk \in 0..Size[version] /\ install.wrote \in 0..Len(AppAssets)
    BY <1>1, <1>4, ItemsAreNamed, SizesArePositive DEF Progress
  <2> QED BY <1>1, <2>1, <2>2 DEF Boot!BootTypeOK
<1>6. BootTyped
  BY <1>2, <1>4, <1>5 DEF BootTyped
<1>7. \A v \in Boot!Volumes, a \in Boot!Apps, n \in Boot!Names : files[v][a][n] = <<>>
  BY <1>1
<1>8. PlacesInv
  BY <1>1, <1>3, <1>7 DEF PlacesInv
<1>9. HomeInv /\ ScanInv
  BY <1>1 DEF HomeInv, Installs, ScanInv
<1> QED BY <1>6, <1>8, <1>9 DEF BootInv

LEMMA BeginsIsFound ==
  ASSUME NEW file \in Chunks, NEW n \in Nat, NEW ver, Begins(file, n, ver), NEW i \in 1..n
  PROVE  i \in DOMAIN file /\ file[i] = ver
BY DEF Begins, Chunks

\* An installation that is over has all assets on the first volume that takes them, and
\* the scan finds them.
LEMMA BootInvHolds ==
  ASSUME BootInv
  PROVE  Boot!BootTypeOK /\ Boot!BootSound
<1>1. Boot!BootTypeOK
  BY DEF BootInv, BootTyped
<1>2. ASSUME stage \in {"render", "screen", "install screen", "desktop"}, writable # {}, ~failed
      PROVE  \A n \in Boot!Names : \A i \in 1..Size[version] :
               /\ i \in DOMAIN files[Boot!First]["ShiLauncher"][n]
               /\ files[Boot!First]["ShiLauncher"][n][i] = version
  <2> DEFINE home == files[Boot!First]["ShiLauncher"]
  <2>1. Whole(home, version)
    BY <1>2 DEF BootInv, HomeInv, Installs
  <2>2. \A n \in Boot!Names : Begins(home[n], Size[version], version)
    BY <2>1, ItemsAreNamed DEF Whole
  <2>3. home \in [Boot!Names -> Chunks]
    <3>1. Boot!First \in Boot!Volumes /\ "ShiLauncher" \in Boot!Apps
      BY <1>1, <1>2, FirstIsWritable DEF Boot!BootTypeOK, Boot!Apps, Boot!Home
    <3>2. files \in [Boot!Volumes -> [Boot!Apps -> [Boot!Names -> Chunks]]]
      BY DEF BootInv, BootTyped
    <3> QED BY <3>1, <3>2
  <2>4. Size[version] \in Nat
    BY <1>1, SizesArePositive DEF Boot!BootTypeOK
  <2> HIDE DEF home
  <2>5. \A n \in Boot!Names : \A i \in 1..Size[version] :
          i \in DOMAIN home[n] /\ home[n][i] = version
    BY <2>2, <2>3, <2>4, BeginsIsFound
  <2> QED BY <2>5 DEF home
<1>3. Boot!ScanFindsInstall
  BY DEF BootInv, ScanInv, PlacesInv, Boot!ScanFindsInstall, Boot!Home, Boot!Screen
<1>4. Boot!InstalledIsBundle
  BY <1>2 DEF Boot!InstalledIsBundle, Boot!HomeInstalled, Boot!Home
<1> QED BY <1>1, <1>3, <1>4 DEF Boot!BootSound

\* The steps that write no file and leave the installation.
LEMMA StartsKeepBoot ==
  ASSUME BootInv, Boot!Whesere \/ Boot!StartDrivers \/ UNCHANGED bootVars
  PROVE  BootInv'
<1>1. /\ UNCHANGED <<media, writable, version, install, files, dirs, scanned, failed, cuts>>
      /\ \/ stage \in {"whesere", "drivers"} /\ stage' \in {"drivers", "home", "halted"}
         \/ stage' = stage
  BY DEF Boot!Whesere, Boot!StartDrivers, bootVars
<1>2. bsdLoaded' \in BOOLEAN /\ started' \in [Drivers -> 0..NVolumes]
  <2>1. bsdLoaded \in BOOLEAN /\ started \in [Drivers -> 0..NVolumes]
    BY DEF BootInv, BootTyped, Boot!BootTypeOK
  <2>2. CASE Boot!Whesere
    BY <2>1, <2>2 DEF Boot!Whesere
  <2>3. CASE Boot!StartDrivers
    <3>1. ASSUME NEW d \in Drivers
          PROVE  Cardinality({v \in Boot!Volumes : media[v][d] = "good"}) \in 0..NVolumes
      <4> DEFINE S == {v \in Boot!Volumes : media[v][d] = "good"}
      <4>1. S \subseteq 1..NVolumes
        BY DEF Boot!Volumes
      <4>2. IsFiniteSet(1..NVolumes) /\ Cardinality(1..NVolumes) = NVolumes
        <5>1. 1 \in Int /\ NVolumes \in Int
          BY BootConstants
        <5>2. /\ IsFiniteSet(1..NVolumes)
              /\ Cardinality(1..NVolumes) = IF 1 > NVolumes THEN 0 ELSE NVolumes - 1 + 1
          BY <5>1, FS_Interval, Zenon
        <5> QED BY <5>2, BootConstants
      <4> HIDE DEF S
      <4>3. IsFiniteSet(S) /\ Cardinality(S) <= NVolumes
        BY <4>1, <4>2, FS_Subset
      <4>4. Cardinality(S) \in Nat
        BY <4>3, FS_CardinalityType
      <4>5. Cardinality(S) \in 0..NVolumes
        BY <4>3, <4>4, BootConstants
      <4> QED BY <4>5 DEF S
    <3>2. started' = [d \in Drivers |-> Cardinality({v \in Boot!Volumes : media[v][d] = "good"})]
      <4>1. \A S : Boot!Cardinality(S) = Cardinality(S)
        BY Zenon DEF Boot!Cardinality, Cardinality
      <4>2. started' = [d \in Drivers |->
                          Boot!Cardinality({v \in Boot!Volumes : media[v][d] = "good"})]
        BY <2>3 DEF Boot!StartDrivers
      <4> QED BY <4>1, <4>2, Zenon
    <3>3. bsdLoaded' = bsdLoaded
      BY <2>3 DEF Boot!StartDrivers
    <3> QED BY <2>1, <3>1, <3>2, <3>3
  <2>4. CASE UNCHANGED bootVars
    BY <2>1, <2>4 DEF bootVars
  <2> QED BY <2>2, <2>3, <2>4
<1>3. BootTyped'
  BY <1>1, <1>2 DEF BootInv, BootTyped, Boot!BootTypeOK, Boot!Final
<1>4. HomeInv'
  <2>1. HomeInv /\ UNCHANGED writable
    BY <1>1 DEF BootInv
  <2> QED BY <1>1, <2>1, HomeInvNext DEF HomeInv, Installs
<1>5. PlacesInv'
  BY <1>1 DEF BootInv, PlacesInv
<1>6. ScanInv'
  <2>1. ScanInv /\ UNCHANGED writable
    BY <1>1 DEF BootInv
  <2> QED BY <1>1, <2>1, ScanInvNext DEF ScanInv
<1> QED BY <1>3, <1>4, <1>5, <1>6 DEF BootInv

\* The types of what most steps leave alone.
LEMMA TypedNext ==
  ASSUME BootTyped, UNCHANGED <<media, writable, version, bsdLoaded, started, cuts>>,
         files' = files \/ files' \in [Boot!Volumes -> [Boot!Apps -> [Boot!Names -> Chunks]]],
         install' \in Progress, install'.wrote <= install'.file - 1,
         install'.chunk <= Size[version], failed' \in BOOLEAN,
         dirs' \subseteq Boot!Volumes, scanned' \subseteq Boot!Apps,
         stage' \in {"halted", "idle", "desktop", "whesere", "drivers", "home", "install home",
                     "install screen", "render", "screen"}
  PROVE  BootTyped'
<1>1. /\ media \in Media /\ writable \subseteq Boot!Volumes /\ version \in Boot!Versions
      /\ bsdLoaded \in BOOLEAN /\ started \in [Drivers -> 0..NVolumes] /\ cuts \in 0..MaxCuts
      /\ files' \in [Boot!Volumes -> [Boot!Apps -> [Boot!Names -> Chunks]]]
  BY DEF BootTyped, Boot!BootTypeOK
<1>2. Size[version] \in Nat
  BY <1>1, SizesArePositive
<1>3. /\ install'.volume \in Boot!Volumes /\ install'.file \in 1..Len(Boot!Items)
      /\ install'.chunk \in Nat /\ install'.wrote \in Nat
  BY DEF Progress
<1>4. /\ Len(Boot!Items) = Len(AppAssets) + 1 /\ Len(AppAssets) \in Nat
      /\ DOMAIN Boot!Items = 1..Len(Boot!Items) /\ Len(Boot!Items) \in Nat
  BY ItemsAreCounted
<1>5. install'.chunk \in 0..Size[version] /\ install'.wrote \in 0..Len(AppAssets)
  BY <1>2, <1>3, <1>4, WithinLength
<1>6. Boot!BootTypeOK'
  <2>1. install'.file \in DOMAIN Boot!Items
    BY <1>3, <1>4
  <2> QED BY <1>1, <1>3, <1>5, <2>1 DEF Boot!BootTypeOK, Boot!Final
<1> QED BY <1>1, <1>6 DEF BootTyped

LEMMA LoadKeepsBoot ==
  ASSUME BootInv, Boot!LoadHome \/ Boot!LoadScreen
  PROVE  BootInv'
<1>0. PICK a \in {"ShiLauncher", "ShiBoot"} :
        /\ \/ stage = "home" /\ a = "ShiLauncher" /\ stage' \in {"install home", "idle"}
           \/ stage = "screen" /\ a = "ShiBoot" /\ stage' \in {"install screen", "desktop"}
        /\ install' = [Boot!NoInstall EXCEPT !.app = a]
  BY DEF Boot!LoadHome, Boot!LoadScreen, Boot!LoadBundle, Boot!Home, Boot!Screen
<1>1. UNCHANGED <<media, writable, version, bsdLoaded, started, files, dirs, scanned, failed, cuts>>
  BY DEF Boot!LoadHome, Boot!LoadScreen, Boot!LoadBundle
<1>2. /\ install' = [app |-> a, volume |-> 1, file |-> 1, chunk |-> 0, wrote |-> 0]
      /\ install' \in Progress
  <2>1. a \in Boot!Apps /\ 1 \in Boot!Volumes
    BY BootConstants DEF Boot!Apps, Boot!Home, Boot!Screen, Boot!Volumes
  <2>2. /\ [Boot!NoInstall EXCEPT !.app = a] =
             [app |-> a, volume |-> 1, file |-> 1, chunk |-> 0, wrote |-> 0]
        /\ [app |-> a, volume |-> 1, file |-> 1, chunk |-> 0, wrote |-> 0] \in Progress
    BY <2>1, NoInstallIsTyped
  <2> QED BY <1>0, <2>2
<1>3. /\ install'.app = a /\ install'.volume = 1 /\ install'.file = 1 /\ install'.chunk = 0
      /\ install'.wrote = 0
  BY <1>2
<1>4. /\ BootTyped /\ HomeInv /\ PlacesInv /\ ScanInv /\ writable \subseteq Boot!Volumes
      /\ version \in Boot!Versions /\ dirs \subseteq Boot!Volumes /\ scanned \subseteq Boot!Apps
      /\ failed \in BOOLEAN
  BY DEF BootInv, BootTyped, Boot!BootTypeOK
<1>5. BootTyped'
  <2>1. install'.chunk <= Size[version] /\ install'.wrote <= install'.file - 1
    BY <1>3, <1>4, SizesArePositive
  <2> QED BY <1>0, <1>1, <1>2, <1>4, <2>1, TypedNext
<1>6. HomeInv'
  <2> SUFFICES ASSUME writable # {}, ~failed
               PROVE  Installs(stage', install', files[Boot!First]["ShiLauncher"], version)
    BY <1>1, HomeInvNext
  <2> DEFINE home == files[Boot!First]["ShiLauncher"]
  <2>1. Boot!First \in Nat /\ Boot!First >= 1
    BY <1>4, FirstIsWritable DEF Boot!Volumes
  <2>2. CASE stage' = "install home"
    <3>1. a = "ShiLauncher"
      BY <1>0, <2>2
    <3>2. home[Boot!Items[1]] \in Chunks
      <4>1. Boot!First \in Boot!Volumes /\ "ShiLauncher" \in Boot!Apps
            /\ Boot!Items[1] \in Boot!Names
        BY <1>4, FirstIsWritable, ItemsAreNamed DEF Boot!Apps, Boot!Home
      <4>2. files \in [Boot!Volumes -> [Boot!Apps -> [Boot!Names -> Chunks]]]
        BY <1>4 DEF BootTyped
      <4> QED BY <4>1, <4>2
    <3> HIDE DEF home
    <3>3. Begins(home[Boot!Items[1]], 0, version)
      BY <3>2 DEF Begins, Chunks
    <3>4. \A j \in 1..install'.file - 1 : FALSE
      BY <1>3
    <3>5. /\ install'.app = "ShiLauncher"
          /\ install'.volume < Boot!First => install'.wrote = 0
          /\ Begins(home[Boot!Items[install'.file]], install'.chunk, version)
      BY <1>3, <3>1, <3>3
    <3>6. ~(install'.volume > Boot!First)
      BY <1>3, <2>1
    <3>7. Installs(stage', install', home, version)
      BY <2>2, <3>4, <3>5, <3>6, Zenon DEF Installs
    <3> QED BY <3>7 DEF home
  <2>3. CASE stage' # "install home"
    <3>1. stage' = "idle" \/ Whole(home, version)
      BY <1>0, <1>4, <2>3 DEF HomeInv, Installs
    <3> HIDE DEF home
    <3>2. Installs(stage', install', home, version)
      BY <2>3, <3>1 DEF Installs
    <3> QED BY <3>2 DEF home
  <2> QED BY <2>2, <2>3
<1>7. PlacesInv'
  BY <1>0, <1>1, <1>3, <1>4 DEF PlacesInv
<1>8. ScanInv'
  <2>1. stage' \in {"screen", "install screen", "desktop"} =>
          stage \in {"screen", "install screen", "desktop"}
    BY <1>0
  <2> QED BY <1>1, <1>4, <2>1, ScanInvNext DEF ScanInv
<1> QED BY <1>5, <1>6, <1>7, <1>8 DEF BootInv

LEMMA RenderKeepsBoot ==
  ASSUME BootInv, Boot!Render
  PROVE  BootInv'
<1>1. /\ UNCHANGED <<media, writable, version, bsdLoaded, started, install, files, dirs, failed,
                     cuts>>
      /\ stage = "render"
      /\ \/ stage' = "idle" /\ scanned' = scanned
         \/ stage' = "screen" /\ scanned' = Boot!Scanned
  BY DEF Boot!Render
<1>2. /\ BootTyped /\ HomeInv /\ PlacesInv /\ ScanInv /\ writable \subseteq Boot!Volumes
      /\ version \in Boot!Versions /\ dirs \subseteq Boot!Volumes /\ scanned \subseteq Boot!Apps
      /\ failed \in BOOLEAN /\ install.chunk <= Size[version] /\ install \in Progress
      /\ install.wrote <= install.file - 1
  <2>1. BootTyped /\ version \in Boot!Versions /\ install.chunk \in 0..Size[version]
    BY DEF BootInv, BootTyped, Boot!BootTypeOK
  <2>2. install.chunk <= Size[version]
    BY <2>1, SizesArePositive
  <2> QED BY <2>1, <2>2 DEF BootInv, BootTyped, Boot!BootTypeOK
<1>3. Boot!Scanned \subseteq Boot!Apps
  BY DEF Boot!Scanned
<1>4. BootTyped'
  BY <1>1, <1>2, <1>3, TypedNext
<1>5. HomeInv'
  BY <1>1, <1>2, HomeInvNext DEF HomeInv, Installs
<1>6. dirs # {} => Boot!Lowest(dirs) \in dirs /\ \A v \in dirs : Boot!Lowest(dirs) <= v
  <2>1. dirs \in SUBSET Nat
    BY <1>2 DEF Boot!Volumes
  <2> QED BY <2>1, LeastNumber DEF Boot!Lowest
<1>7. PlacesInv'
  <2>1. "ShiBoot" \in scanned' => cuts > 0
    <3>1. CASE scanned' = scanned
      BY <1>2, <3>1 DEF PlacesInv
    <3>2. CASE scanned' = Boot!Scanned
      <4> SUFFICES ASSUME "ShiBoot" \in Boot!Scanned PROVE cuts > 0
        BY <3>2
      <4>1. dirs # {} /\ files[Boot!Lowest(dirs)]["ShiBoot"]["Maraset.yaml"] # <<>>
        BY DEF Boot!Scanned, Boot!Manifest
      <4>2. Boot!Lowest(dirs) \in Boot!Volumes /\ "Maraset.yaml" \in Boot!Names
        BY <1>2, <1>6, <4>1, ItemsAreNamed
      <4>3. cuts # 0
        BY <1>1, <1>2, <4>1, <4>2 DEF PlacesInv
      <4>4. cuts \in Nat
        BY <1>2, CutsAreCounted
      <4> QED BY <4>3, <4>4
    <3> QED BY <1>1, <3>1, <3>2
  <2> QED BY <1>1, <1>2, <2>1 DEF PlacesInv
<1>8. ScanInv'
  <2> SUFFICES ASSUME stage' = "screen", writable # {}, ~failed,
                      \A v \in dirs : v >= Boot!First
               PROVE  "ShiLauncher" \in scanned'
    BY <1>1, ScanInvNext
  <2> DEFINE file == files[Boot!First]["ShiLauncher"]["Maraset.yaml"]
  <2>1. /\ Boot!First \in Boot!Volumes /\ "Maraset.yaml" \in Boot!Names
        /\ "ShiLauncher" \in Boot!Apps
    BY <1>2, FirstIsWritable, ItemsAreNamed DEF Boot!Apps, Boot!Home
  <2>2. file \in Chunks
    <3>1. files \in [Boot!Volumes -> [Boot!Apps -> [Boot!Names -> Chunks]]]
      BY <1>2 DEF BootTyped
    <3> QED BY <2>1, <3>1
  <2>3. Begins(file, Size[version], version)
    <3>1. Whole(files[Boot!First]["ShiLauncher"], version)
      BY <1>1, <1>2 DEF HomeInv, Installs
    <3>2. Len(Boot!Items) \in 1..Len(Boot!Items) /\ Boot!Items[Len(Boot!Items)] = "Maraset.yaml"
      BY ItemsAreNamed
    <3> QED BY <3>1, <3>2 DEF Whole
  <2>4. file # <<>>
    <3> HIDE DEF file
    <3> QED BY <1>2, <2>2, <2>3, SizesArePositive DEF Begins, Chunks
  <2>5. Boot!First \in dirs
    BY <1>2, <2>1, <2>4 DEF PlacesInv
  <2>6. Boot!Lowest(dirs) = Boot!First
    <3>1. Boot!Lowest(dirs) \in dirs /\ Boot!Lowest(dirs) <= Boot!First
      BY <1>6, <2>5
    <3>2. Boot!Lowest(dirs) >= Boot!First
      BY <3>1
    <3>3. Boot!Lowest(dirs) \in Nat /\ Boot!First \in Nat
      <4>1. dirs \subseteq Boot!Volumes
        BY <1>2
      <4> QED BY <2>1, <3>1, <4>1, VolumesAreNumbers
    <3> QED BY <3>1, <3>2, <3>3
  <2> HIDE DEF file
  <2>7. "ShiLauncher" \in Boot!Scanned
    BY <2>1, <2>4, <2>5, <2>6 DEF Boot!Scanned, Boot!Manifest, file
  <2> QED BY <1>1, <2>7
<1> QED BY <1>4, <1>5, <1>7, <1>8 DEF BootInv

LEMMA CutKeepsBoot ==
  ASSUME BootInv, Boot!PowerCut
  PROVE  BootInv'
<1>1. /\ cuts < MaxCuts /\ cuts' = cuts + 1 /\ stage' = "whesere" /\ version' \in Boot!Versions
      /\ bsdLoaded' = FALSE /\ started' = [d \in Drivers |-> 0] /\ install' = Boot!NoInstall
      /\ scanned' = {} /\ failed' = FALSE /\ UNCHANGED <<media, writable, files, dirs>>
  BY DEF Boot!PowerCut
<1>2. BootTyped /\ HomeInv /\ PlacesInv /\ ScanInv
  BY DEF BootInv
<1>3. cuts' \in 0..MaxCuts /\ cuts' > 0 /\ cuts' # 0
  <2>1. cuts \in Nat /\ MaxCuts \in Nat /\ cuts < MaxCuts /\ cuts' = cuts + 1
    BY <1>1, <1>2, CutsAreCounted, BootConstants
  <2> QED BY <2>1
<1>4. /\ install' \in Progress /\ install'.file = 1 /\ install'.chunk = 0 /\ install'.wrote = 0
      /\ install'.volume \in Boot!Volumes
  <2>1. "ShiLauncher" \in Boot!Apps /\ 1 \in Boot!Volumes
    BY BootConstants DEF Boot!Apps, Boot!Home, Boot!Volumes
  <2>2. /\ Boot!NoInstall \in Progress /\ Boot!NoInstall.file = 1
        /\ Boot!NoInstall.chunk = 0 /\ Boot!NoInstall.wrote = 0
    BY <2>1, NoInstallIsTyped
  <2>3. install'.volume \in Boot!Volumes
    BY <1>1, <2>2 DEF Progress
  <2> QED BY <1>1, <2>2, <2>3
<1>5. BootTyped'
  <2>1. install'.file \in DOMAIN Boot!Items /\ install'.chunk \in 0..Size[version']
        /\ install'.wrote \in 0..Len(AppAssets) /\ install'.wrote <= install'.file - 1
    BY <1>1, <1>4, ItemsAreNamed, SizesArePositive
  <2>2. started' \in [Drivers -> 0..NVolumes]
    BY <1>1, BootConstants
  <2>3. Boot!BootTypeOK'
    BY <1>1, <1>2, <1>3, <1>4, <2>1, <2>2 DEF BootTyped, Boot!BootTypeOK
  <2> QED BY <1>1, <1>2, <1>4, <2>1, <2>3 DEF BootTyped
<1>6. HomeInv' /\ ScanInv'
  BY <1>1, HomeInvNext, ScanInvNext DEF Installs
<1>7. PlacesInv'
  BY <1>1, <1>2, <1>3 DEF PlacesInv
<1> QED BY <1>5, <1>6, <1>7 DEF BootInv

LEMMA FilePut ==
  ASSUME NEW V, NEW A, NEW N, NEW C, NEW f \in [V -> [A -> [N -> C]]],
         NEW v \in V, NEW a \in A, NEW n \in N, NEW c \in C
  PROVE  LET g == [f EXCEPT ![v][a][n] = c] IN
         /\ g \in [V -> [A -> [N -> C]]] /\ g[v][a][n] = c
         /\ \A u \in V, b \in A, m \in N :
              ~(u = v /\ b = a /\ m = n) => g[u][b][m] = f[u][b][m]
OBVIOUS

LEMMA HomeIsTyped ==
  ASSUME BootTyped, writable # {}
  PROVE  /\ files[Boot!First]["ShiLauncher"] \in [Boot!Names -> Chunks]
         /\ Boot!First \in writable /\ Boot!First \in Boot!Volumes
         /\ Boot!First \in Nat /\ Boot!First <= NVolumes
         /\ \A v \in writable : Boot!First <= v
<1>1. /\ writable \subseteq Boot!Volumes
      /\ files \in [Boot!Volumes -> [Boot!Apps -> [Boot!Names -> Chunks]]]
  BY DEF BootTyped, Boot!BootTypeOK
<1>2. /\ Boot!First \in writable /\ Boot!First \in Boot!Volumes
      /\ \A v \in writable : Boot!First <= v
  BY <1>1, FirstIsWritable
<1>3. "ShiLauncher" \in Boot!Apps
  BY DEF Boot!Apps, Boot!Home
<1>4. files[Boot!First]["ShiLauncher"] \in [Boot!Names -> Chunks]
  BY <1>1, <1>2, <1>3
<1>5. Boot!First \in Nat /\ Boot!First <= NVolumes
  BY <1>2, BootConstants DEF Boot!Volumes
<1> QED BY <1>2, <1>4, <1>5

\* The installation goes on with what is written as its invariant says.
LEMMA FollowingKeepsHome ==
  ASSUME BootTyped, Boot!Installing, NEW w \in 0..install.file, Boot!Following(w),
         writable # {}, NEW home \in [Boot!Names -> Chunks],
         Installs(stage, install, home, version),
         install.volume = Boot!First =>
           Begins(home[Boot!Items[install.file]], Size[version], version),
         stage = "install home" /\ install.volume < Boot!First => w = 0
  PROVE  Installs(stage', install', home, version)
<1>1. /\ install.volume \in Boot!Volumes /\ install.file \in 1..Len(Boot!Items)
  BY DEF BootTyped, Progress
<1>2. /\ Boot!First \in Nat /\ Boot!First <= NVolumes /\ install.volume \in Nat
      /\ NVolumes \in Nat /\ install.file \in Nat
  <2>1. Boot!First \in Nat /\ Boot!First <= NVolumes
    BY HomeIsTyped, Zenon
  <2>2. install.volume \in Nat
    BY <1>1, VolumesAreNumbers, Zenon
  <2>3. install.file \in Nat
    BY <1>1, FilesAreCounted, Zenon
  <2> QED BY <2>1, <2>2, <2>3, BootConstants, Zenon
<1>3. /\ Len(Boot!Items) \in Nat
      /\ \A j \in 1..Len(Boot!Items) : Boot!Items[j] \in Boot!Names
  BY ItemIsNamed, ItemsAreCounted
<1>4. install' \in Progress /\ install'.chunk = 0
  BY FollowingGoes
<1>5. /\ install'.file \in 1..Len(Boot!Items)
      /\ Begins(home[Boot!Items[install'.file]], 0, version)
  <2>1. install'.file \in 1..Len(Boot!Items)
    BY <1>4 DEF Progress
  <2>2. home[Boot!Items[install'.file]] \in Chunks
    BY <1>3, <2>1
  <2> QED BY <2>1, <2>2, NoneBegins
<1>6. CASE stage = "install screen"
  <2>1. Whole(home, version)
    BY <1>6 DEF Installs
  <2>2. stage' = stage \/ stage' = "desktop"
    BY <1>6, FollowingGoes
  <2>3. stage' # "install home"
    BY <1>6, <2>2
  <2> QED BY <2>1, <2>3, Zenon DEF Installs
<1>7. CASE stage = "install home"
  <2>1. /\ install.app = "ShiLauncher"
        /\ install.volume = Boot!First =>
             \A j \in 1..install.file - 1 : Begins(home[Boot!Items[j]], Size[version], version)
        /\ install.volume > Boot!First => Whole(home, version)
    BY <1>7 DEF Installs
  <2>2. install.volume = Boot!First =>
          \A j \in 1..install.file : Begins(home[Boot!Items[j]], Size[version], version)
    BY <1>2, <2>1, UpToFile, Zenon
  <2>3. install.volume = Boot!First /\ install.file = Len(Boot!Items) => Whole(home, version)
    BY <2>2 DEF Whole
  <2>4. CASE /\ install.file < Len(Boot!Items) /\ stage' = stage
             /\ install'.app = install.app /\ install'.volume = install.volume
             /\ install'.file = install.file + 1 /\ install'.wrote = w
    <3>1. install.volume = Boot!First =>
            \A j \in 1..install'.file - 1 : Begins(home[Boot!Items[j]], Size[version], version)
      <4>1. install'.file - 1 = install.file
        BY <1>2, <2>4, UpToFile, Zenon
      <4> QED BY <2>2, <4>1
    <3>2. install'.volume < Boot!First => install'.wrote = 0
      BY <1>7, <2>4
    <3>3. stage' = "install home" /\ install'.app = "ShiLauncher"
      BY <1>7, <2>1, <2>4
    <3>4. Begins(home[Boot!Items[install'.file]], install'.chunk, version)
      BY <1>4, <1>5
    <3> QED BY <2>1, <2>4, <3>1, <3>2, <3>3, <3>4, Zenon DEF Installs
  <2>5. CASE /\ install.file = Len(Boot!Items) /\ stage' = stage
             /\ w = 0 /\ install.volume < NVolumes
             /\ install'.app = install.app /\ install'.volume = install.volume + 1
             /\ install'.file = 1 /\ install'.wrote = 0
    <3>1. install'.volume > Boot!First => Whole(home, version)
      <4>1. install'.volume > Boot!First =>
              install.volume = Boot!First \/ install.volume > Boot!First
        BY <1>2, <2>5, VolumesInOrder, Zenon
      <4> QED BY <2>1, <2>3, <2>5, <4>1
    <3>2. stage' = "install home" /\ install'.app = "ShiLauncher" /\ install'.wrote = 0
      BY <1>7, <2>1, <2>5
    <3>3. \A j \in 1..install'.file - 1 : FALSE
      BY <2>5
    <3>4. Begins(home[Boot!Items[install'.file]], install'.chunk, version)
      BY <1>4, <1>5
    <3> QED BY <3>1, <3>2, <3>3, <3>4, Zenon DEF Installs
  <2>6. CASE /\ install.file = Len(Boot!Items)
             /\ ~(w = 0 /\ install.volume < NVolumes)
             /\ stage' = IF stage = "install home" THEN "render" ELSE "desktop"
    <3>1. ~(install.volume < Boot!First)
      <4>1. install.volume < Boot!First => install.volume < NVolumes
        BY <1>2, VolumesInOrder, Zenon
      <4> QED BY <1>7, <2>6, <4>1
    <3>2. install.volume = Boot!First \/ install.volume > Boot!First
      BY <1>2, <3>1, VolumesInOrder, Zenon
    <3>3. Whole(home, version)
      BY <2>1, <2>3, <2>6, <3>2
    <3>4. stage' # "install home"
      BY <1>7, <2>6
    <3> QED BY <3>3, <3>4, Zenon DEF Installs
  <2> QED BY <2>4, <2>5, <2>6, FollowingGoes
<1> QED BY <1>6, <1>7 DEF Boot!Installing

\* What is installed and where.
LEMMA InstallIsTyped ==
  ASSUME BootTyped
  PROVE  /\ install \in Progress /\ install.app \in Boot!Apps
         /\ install.volume \in Boot!Volumes /\ install.volume \in Nat
         /\ install.file \in 1..Len(Boot!Items) /\ install.file \in Nat
         /\ Boot!Now \in Boot!Names /\ Boot!Now = Boot!Items[install.file]
         /\ install.chunk \in Nat /\ install.chunk <= Size[version]
         /\ install.wrote \in Nat /\ install.wrote <= install.file - 1
         /\ version \in Boot!Versions /\ Size[version] \in Nat /\ writable \subseteq Boot!Volumes
         /\ files \in [Boot!Volumes -> [Boot!Apps -> [Boot!Names -> Chunks]]]
<1>1. /\ install \in Progress /\ install.wrote <= install.file - 1
      /\ files \in [Boot!Volumes -> [Boot!Apps -> [Boot!Names -> Chunks]]]
      /\ version \in Boot!Versions /\ install.chunk \in 0..Size[version]
      /\ writable \subseteq Boot!Volumes
  BY DEF BootTyped, Boot!BootTypeOK
<1>2. /\ install.app \in Boot!Apps /\ install.volume \in Boot!Volumes
      /\ install.file \in 1..Len(Boot!Items) /\ install.chunk \in Nat /\ install.wrote \in Nat
  BY <1>1 DEF Progress
<1>3. Boot!Now = Boot!Items[install.file] /\ Boot!Now \in Boot!Names
  BY <1>2, ItemIsNamed DEF Boot!Now
<1>4. Size[version] \in Nat
  BY <1>1, SizesArePositive
<1>5. install.chunk <= Size[version]
  BY <1>1, <1>4
<1>6. install.file \in Nat /\ install.volume \in Nat
  BY <1>2, FilesAreCounted, VolumesAreNumbers, Zenon
<1> QED BY <1>1, <1>2, <1>3, <1>4, <1>5, <1>6, Zenon

LEMMA WriteKeepsBoot ==
  ASSUME BootInv, Boot!WriteChunk
  PROVE  BootInv'
<1> DEFINE a == install.app
           v == install.volume
           n == Boot!Now
           old == files[v][a][n]
           new == Boot!Rewritten(old, install.chunk + 1, version)
<1>1. /\ Boot!Installing /\ v \in writable /\ install.chunk < Size[version]
      /\ dirs' = dirs \cup {v}
      /\ files' = [files EXCEPT ![v][a][n] = new]
      /\ install' = [install EXCEPT !.chunk = @ + 1]
      /\ UNCHANGED <<stage, media, writable, version, bsdLoaded, started, scanned, failed, cuts>>
  BY DEF Boot!WriteChunk
<1>2. BootTyped /\ HomeInv /\ PlacesInv /\ ScanInv
  BY DEF BootInv
<1>3. /\ install \in Progress /\ a \in Boot!Apps /\ v \in Boot!Volumes /\ n \in Boot!Names
      /\ n = Boot!Items[install.file] /\ install.chunk \in Nat /\ Size[version] \in Nat
      /\ files \in [Boot!Volumes -> [Boot!Apps -> [Boot!Names -> Chunks]]]
      /\ install.wrote <= install.file - 1 /\ version \in Boot!Versions
  BY <1>2, InstallIsTyped
<1>4. /\ old \in Chunks
  BY <1>3
<1>5. /\ new \in Chunks /\ new # <<>>
      /\ \A k \in Nat : Begins(old, k, version) => Begins(new, k, version)
      /\ Begins(old, install.chunk, version) => Begins(new, install.chunk + 1, version)
  <2> HIDE DEF old
  <2>1. install.chunk + 1 \in Nat /\ install.chunk + 1 > 0 /\ (install.chunk + 1) - 1 = install.chunk
    BY <1>3, NextIsCounted, Zenon
  <2> QED BY <1>3, <1>4, <2>1, OverGoes
<1> HIDE DEF new, old, n, a, v
<1>6. /\ files' \in [Boot!Volumes -> [Boot!Apps -> [Boot!Names -> Chunks]]]
      /\ files'[v][a][n] = new
      /\ \A u \in Boot!Volumes, b \in Boot!Apps, m \in Boot!Names :
           ~(u = v /\ b = a /\ m = n) => files'[u][b][m] = files[u][b][m]
  BY <1>1, <1>3, <1>5, FilePut
<1>7. /\ install'.app = install.app /\ install'.volume = install.volume
      /\ install'.file = install.file /\ install'.chunk = install.chunk + 1
      /\ install'.wrote = install.wrote /\ install' \in Progress
  <2>1. install' = [install EXCEPT !.chunk = @ + 1] /\ install \in Progress
    BY <1>1, <1>3
  <2> QED BY <2>1, ChunkGoes
<1>8. BootTyped'
  <2>1. /\ dirs \subseteq Boot!Volumes /\ scanned \subseteq Boot!Apps /\ failed \in BOOLEAN
        /\ stage \in {"halted", "idle", "desktop", "whesere", "drivers", "home", "install home",
                      "install screen", "render", "screen"}
    BY <1>2 DEF BootTyped, Boot!BootTypeOK, Boot!Final
  <2>2. install'.chunk <= Size[version]
    BY <1>1, <1>3, <1>7
  <2>3. dirs' \subseteq Boot!Volumes
    BY <1>1, <1>3, <2>1
  <2>4. install'.wrote <= install'.file - 1
    BY <1>3, <1>7
  <2> QED BY <1>1, <1>2, <1>6, <1>7, <2>1, <2>2, <2>3, <2>4, TypedNext
<1>9. HomeInv'
  <2> SUFFICES ASSUME writable # {}, ~failed
               PROVE  Installs(stage, install', files'[Boot!First]["ShiLauncher"], version)
    BY <1>1, HomeInvNext
  <2> DEFINE home == files[Boot!First]["ShiLauncher"]
             next == files'[Boot!First]["ShiLauncher"]
  <2>1. Installs(stage, install, home, version)
    BY <1>2 DEF HomeInv
  <2>2. Boot!First \in Boot!Volumes /\ "ShiLauncher" \in Boot!Apps
    BY <1>2, HomeIsTyped DEF Boot!Apps, Boot!Home
  <2>3. \A m \in Boot!Names, k \in Nat : Begins(home[m], k, version) => Begins(next[m], k, version)
    <3> SUFFICES ASSUME NEW m \in Boot!Names, NEW k \in Nat, Begins(home[m], k, version)
                 PROVE  Begins(next[m], k, version)
      OBVIOUS
    <3>1. CASE Boot!First = v /\ "ShiLauncher" = a /\ m = n
      BY <1>5, <1>6, <3>1 DEF old
    <3>2. CASE ~(Boot!First = v /\ "ShiLauncher" = a /\ m = n)
      <4>1. next[m] = home[m]
        BY <1>6, <2>2, <3>2
      <4> QED BY <4>1
    <3> QED BY <3>1, <3>2
  <2>4. v = Boot!First /\ a = "ShiLauncher" /\ Begins(home[n], install.chunk, version) =>
          Begins(next[n], install.chunk + 1, version)
    BY <1>5, <1>6 DEF old
  <2> HIDE DEF home, next
  <2>5. Whole(home, version) => Whole(next, version)
    BY <1>3, <2>3, ItemIsNamed DEF Whole
  <2>6. CASE stage = "install home"
    <3>1. /\ a = "ShiLauncher"
          /\ install.volume < Boot!First => install.wrote = 0
          /\ install.volume = Boot!First =>
               /\ \A j \in 1..install.file - 1 : Begins(home[Boot!Items[j]], Size[version], version)
               /\ Begins(home[n], install.chunk, version)
          /\ install.volume > Boot!First => Whole(home, version)
      BY <1>3, <2>1, <2>6 DEF Installs, a
    <3>2. ASSUME install.volume = Boot!First
          PROVE  /\ \A j \in 1..install.file - 1 : Begins(next[Boot!Items[j]], Size[version], version)
                 /\ Begins(next[Boot!Items[install.file]], install.chunk + 1, version)
      <4>1. \A j \in 1..install.file - 1 : Boot!Items[j] \in Boot!Names
        <5>1. \A j \in 1..install.file - 1 : j \in 1..Len(Boot!Items)
          <6>1. install.file \in 1..Len(Boot!Items) /\ Len(Boot!Items) \in Nat
            BY <1>2, InstallIsTyped, ItemsAreCounted
          <6> QED BY <6>1, SmallerIsCounted
        <5> QED BY <5>1, ItemIsNamed
      <4>2. \A j \in 1..install.file - 1 : Begins(next[Boot!Items[j]], Size[version], version)
        BY <1>3, <2>3, <3>1, <3>2, <4>1
      <4>3. v = Boot!First
        BY <3>2 DEF v
      <4> QED BY <1>3, <2>4, <3>1, <3>2, <4>2, <4>3
    <3>3. install.volume > Boot!First => Whole(next, version)
      BY <2>5, <3>1
    <3>4. install'.app = "ShiLauncher"
      BY <1>7, <3>1 DEF a
    <3>5. Installs(stage, install', next, version)
      BY <1>7, <2>6, <3>1, <3>2, <3>3, <3>4, Zenon DEF Installs
    <3> QED BY <3>5 DEF next
  <2>7. CASE stage = "install screen"
    <3>1. Whole(next, version)
      BY <2>1, <2>5, <2>7 DEF Installs
    <3>2. Installs(stage, install', next, version)
      BY <2>7, <3>1, Zenon DEF Installs
    <3> QED BY <3>2 DEF next
  <2> QED BY <1>1, <2>6, <2>7 DEF Boot!Installing
<1>10. PlacesInv'
  <2>1. \A u \in Boot!Volumes, b \in Boot!Apps, m \in Boot!Names :
          files'[u][b][m] # <<>> => u \in dirs'
    <3> SUFFICES ASSUME NEW u \in Boot!Volumes, NEW b \in Boot!Apps, NEW m \in Boot!Names,
                        files'[u][b][m] # <<>>, u # v
                 PROVE  u \in dirs
      BY <1>1
    <3>1. files[u][b][m] # <<>>
      BY <1>6
    <3> QED BY <1>2, <3>1 DEF PlacesInv
  <2>2. ASSUME cuts = 0, stage \in {"whesere", "drivers", "home", "install home", "render"}
        PROVE  \A u \in Boot!Volumes, m \in Boot!Names : files'[u]["ShiBoot"][m] = <<>>
    <3>1. a = "ShiLauncher" /\ "ShiBoot" \in Boot!Apps
      BY <1>1, <1>2, <2>2 DEF PlacesInv, Boot!Installing, Boot!Apps, Boot!Screen, a
    <3>2. \A u \in Boot!Volumes, m \in Boot!Names : files[u]["ShiBoot"][m] = <<>>
      BY <1>2, <2>2 DEF PlacesInv
    <3> QED BY <1>6, <3>1, <3>2
  <2>3. /\ stage = "install home" => install.app = "ShiLauncher"
        /\ stage = "install screen" => install.app = "ShiBoot"
        /\ "ShiBoot" \in scanned => cuts > 0
    BY <1>2 DEF PlacesInv
  <2> QED BY <1>1, <1>7, <2>1, <2>2, <2>3 DEF PlacesInv
<1>11. ScanInv'
  <2>1. dirs \subseteq dirs'
    BY <1>1
  <2> QED BY <1>1, <1>2, <2>1, ScanInvNext DEF ScanInv
<1> QED BY <1>8, <1>9, <1>10, <1>11 DEF BootInv

\* The end of a file, written or not.
LEMMA FileEnds ==
  ASSUME BootInv, Boot!Installing, NEW w \in 0..install.file, Boot!Following(w),
         UNCHANGED <<media, writable, version, bsdLoaded, started, files, scanned, cuts>>,
         failed' \in BOOLEAN, failed => failed',
         dirs \subseteq dirs', dirs' \subseteq Boot!Volumes,
         writable # {} /\ ~failed' /\ install.volume = Boot!First => install.chunk = Size[version],
         writable # {} /\ ~failed' /\ install.volume < Boot!First => w = install.wrote
  PROVE  BootInv'
<1>1. BootTyped /\ HomeInv /\ PlacesInv /\ ScanInv
  BY DEF BootInv
<1>2. /\ install' \in Progress /\ install'.wrote <= install'.file - 1 /\ install'.chunk = 0
      /\ \/ stage' = stage /\ install'.app = install.app
         \/ stage = "install home" /\ stage' = "render"
         \/ stage = "install screen" /\ stage' = "desktop"
  BY <1>1, FollowingGoes, Zenon DEF Boot!Installing
<1>3. stage \in {"install home", "install screen"}
  BY DEF Boot!Installing
<1>4. BootTyped'
  <2>1. install'.chunk <= Size[version]
    <3>1. Size[version] \in Nat
      BY <1>1, InstallIsTyped
    <3> QED BY <1>2, <3>1, NextIsCounted, Zenon
  <2>2. scanned' \subseteq Boot!Apps
    BY <1>1 DEF BootTyped, Boot!BootTypeOK
  <2>3. stage' \in {"halted", "idle", "desktop", "whesere", "drivers", "home", "install home",
                   "install screen", "render", "screen"}
    BY <1>2, <1>3
  <2> QED BY <1>1, <1>2, <2>1, <2>2, <2>3, TypedNext
<1>5. HomeInv'
  <2> SUFFICES ASSUME writable # {}, ~failed'
               PROVE  Installs(stage', install', files[Boot!First]["ShiLauncher"], version)
    BY HomeInvNext
  <2> DEFINE home == files[Boot!First]["ShiLauncher"]
  <2>1. Installs(stage, install, home, version)
    BY <1>1 DEF HomeInv
  <2>2. home \in [Boot!Names -> Chunks]
    BY <1>1, HomeIsTyped
  <2> HIDE DEF home
  <2>3. ASSUME install.volume = Boot!First
        PROVE  Begins(home[Boot!Items[install.file]], Size[version], version)
    <3>1. CASE stage = "install home"
      BY <2>1, <2>3, <3>1 DEF Installs
    <3>2. CASE stage = "install screen"
      <4>1. Whole(home, version)
        BY <2>1, <3>2 DEF Installs
      <4>2. install.file \in 1..Len(Boot!Items)
        BY <1>1, InstallIsTyped
      <4> QED BY <4>1, <4>2 DEF Whole
    <3> QED BY <1>3, <3>1, <3>2
  <2>4. stage = "install home" /\ install.volume < Boot!First => w = 0
    BY <2>1 DEF Installs
  <2>5. Installs(stage', install', home, version)
    BY <1>1, <2>1, <2>2, <2>3, <2>4, FollowingKeepsHome
  <2> QED BY <2>5 DEF home
<1>6. PlacesInv'
  BY <1>1, <1>2 DEF PlacesInv
<1>7. ScanInv'
  BY <1>1, <1>2, <1>3, ScanInvNext DEF ScanInv
<1> QED BY <1>4, <1>5, <1>6, <1>7 DEF BootInv

LEMMA CountsInOrder ==
  ASSUME NEW w \in Nat, NEW f \in Nat, w <= f - 1
  PROVE  w \in 0..f /\ w + 1 \in 0..f
OBVIOUS

LEMMA CloseKeepsBoot ==
  ASSUME BootInv, Boot!CloseFile
  PROVE  BootInv'
<1> DEFINE w == IF Boot!Now = Boot!Manifest THEN install.wrote ELSE install.wrote + 1
<1>1. /\ Boot!Installing /\ install.volume \in writable /\ install.chunk = Size[version]
      /\ Boot!Following(w)
      /\ UNCHANGED <<media, writable, version, bsdLoaded, started, files, dirs, scanned, failed,
                     cuts>>
  BY DEF Boot!CloseFile
<1>2. BootTyped
  BY DEF BootInv
<1>3. w \in 0..install.file
  <2>1. /\ install.wrote \in Nat /\ install.file \in Nat /\ install.wrote <= install.file - 1
    BY <1>2, InstallIsTyped
  <2>2. install.wrote \in 0..install.file /\ install.wrote + 1 \in 0..install.file
    BY <2>1, CountsInOrder
  <2> QED BY <2>2
<1> HIDE DEF w
<1>4. failed \in BOOLEAN /\ dirs \subseteq Boot!Volumes
  BY <1>2 DEF BootTyped, Boot!BootTypeOK
<1>5. ~(install.volume < Boot!First)
  <2>1. Boot!First <= install.volume /\ Boot!First \in Nat /\ install.volume \in Nat
    BY <1>1, <1>2, HomeIsTyped, InstallIsTyped, Zenon
  <2> QED BY <2>1
<1>6. failed' \in BOOLEAN /\ (failed => failed') /\ dirs \subseteq dirs'
      /\ dirs' \subseteq Boot!Volumes
  BY <1>1, <1>4
<1> QED BY <1>1, <1>3, <1>5, <1>6, FileEnds

LEMMA SkipKeepsBoot ==
  ASSUME BootInv, Boot!SkipFile
  PROVE  BootInv'
<1>1. /\ Boot!Installing /\ Boot!Following(install.wrote)
      /\ \/ install.volume \notin writable /\ UNCHANGED <<failed, dirs>>
         \/ failed' = TRUE /\ dirs' = dirs \cup {install.volume}
      /\ UNCHANGED <<media, writable, version, bsdLoaded, started, files, scanned, cuts>>
  BY DEF Boot!SkipFile
<1>2. BootTyped
  BY DEF BootInv
<1>3. /\ install.volume \in Boot!Volumes /\ install.wrote \in 0..install.file
  <2>1. /\ install.wrote \in Nat /\ install.file \in Nat /\ install.wrote <= install.file - 1
        /\ install.volume \in Boot!Volumes
    BY <1>2, InstallIsTyped
  <2> QED BY <2>1, CountsInOrder
<1>4. failed \in BOOLEAN /\ dirs \subseteq Boot!Volumes
  BY <1>2 DEF BootTyped, Boot!BootTypeOK
<1>5. writable # {} /\ ~failed' => install.volume # Boot!First
  BY <1>1, <1>2, HomeIsTyped
<1>6. failed' \in BOOLEAN /\ (failed => failed') /\ dirs \subseteq dirs'
      /\ dirs' \subseteq Boot!Volumes
  BY <1>1, <1>3, <1>4
<1> QED BY <1>1, <1>3, <1>5, <1>6, FileEnds

LEMMA BootStep ==
  ASSUME BootInv, Boot!BootNext \/ UNCHANGED bootVars
  PROVE  BootInv'
BY StartsKeepBoot, LoadKeepsBoot, WriteKeepsBoot, CloseKeepsBoot, SkipKeepsBoot, RenderKeepsBoot,
   CutKeepsBoot DEF Boot!BootNext, Boot!BootStep

-----------------------------------------------------------------------------
(* Lines: Bresenham's steps of GpuCanvas.                                  *)

\* The arithmetic of a step of a line of l pixels by s, the shorter side: after k
\* steps the line is j pixels along the shorter side, and e is how far it is off.
OnCourse(l, s, k, j, e) ==
  /\ e = (j + 1) * l - (k + 1) * s
  /\ l - 2 * s < 2 * e /\ 2 * e <= 3 * l - 2 * s

LEMMA StaysOnCourse ==
  ASSUME NEW l \in Nat, NEW s \in Nat, NEW k \in Nat, NEW j \in Nat, NEW e \in Int,
         s <= l, k < l, OnCourse(l, s, k, j, e)
  PROVE  /\ 2 * e >= -s
         /\ 2 * e <= l => j < s /\ OnCourse(l, s, k + 1, j + 1, e - s + l)
         /\ 2 * e > l => OnCourse(l, s, k + 1, j, e - s)
<1>1. e = (j + 1) * l - (k + 1) * s /\ l - 2 * s < 2 * e /\ 2 * e <= 3 * l - 2 * s
  BY DEF OnCourse
<1>2. 2 * e >= -s
  BY <1>1
<1>3. /\ ((j + 1) + 1) * l = (j + 1) * l + l
      /\ ((k + 1) + 1) * s = (k + 1) * s + s
  OBVIOUS
<1>4. ASSUME 2 * e <= l PROVE j < s
  <2> SUFFICES ASSUME s <= j PROVE FALSE
    OBVIOUS
  <2>1. (k + 1) * s <= l * s
    <3>1. k + 1 <= l /\ k + 1 \in Nat
      OBVIOUS
    <3>2. \A x \in Nat, y \in Nat : x <= y => x * s <= y * s
      OBVIOUS
    <3> QED BY <3>1, <3>2
  <2>2. (s + 1) * l <= (j + 1) * l
    OBVIOUS
  <2>3. (s + 1) * l = s * l + l /\ s * l = l * s
    OBVIOUS
  <2>4. s * l \in Nat /\ (j + 1) * l \in Nat /\ (k + 1) * s \in Nat /\ l > 0
    OBVIOUS
  <2> QED BY <1>1, <1>4, <2>1, <2>2, <2>3, <2>4
<1>5. (j + 1) * l \in Int /\ (k + 1) * s \in Int
  OBVIOUS
<1>6. ASSUME 2 * e <= l PROVE OnCourse(l, s, k + 1, j + 1, e - s + l)
  BY <1>1, <1>3, <1>5, <1>6 DEF OnCourse
<1>7. ASSUME 2 * e > l PROVE OnCourse(l, s, k + 1, j, e - s)
  BY <1>1, <1>3, <1>5, <1>7 DEF OnCourse
<1> QED BY <1>2, <1>4, <1>6, <1>7

\* At the end of the longer side it is at the end of the shorter one.
LEMMA CourseEnds ==
  ASSUME NEW l \in Nat, NEW s \in Nat, NEW j \in Nat, NEW e \in Int, l > 0,
         OnCourse(l, s, l, j, e)
  PROVE  j = s
<1>1. e = (j + 1) * l - (l + 1) * s /\ l - 2 * s < 2 * e /\ 2 * e <= 3 * l - 2 * s
  BY DEF OnCourse
<1>2. (j + 1) * l = j * l + l /\ (l + 1) * s = s * l + s /\ j * l \in Int /\ s * l \in Int
  OBVIOUS
<1>3. 2 * (j * l) + l > 2 * (s * l) /\ 2 * (j * l) <= 2 * (s * l) + l
  BY <1>1, <1>2
<1>4. CASE j < s
  <2>1. (j + 1) * l <= s * l
    BY <1>4
  <2> QED BY <1>2, <1>3, <2>1
<1>5. CASE j > s
  <2>1. (s + 1) * l <= j * l
    BY <1>5
  <2>2. (s + 1) * l = s * l + l
    OBVIOUS
  <2> QED BY <1>2, <1>3, <2>1, <2>2
<1> QED BY <1>4, <1>5

State == [at : Int \X Int, err : Int, done : BOOLEAN]

LEMMA StepsAreStates ==
  ASSUME NEW q \in Int \X Int, NEW dx \in Nat, NEW dy \in Nat, NEW s \in State
  PROVE  Canvas!Bresenham(s, q, dx, dy) \in State
<1> DEFINE sx == IF s.at[1] < q[1] THEN 1 ELSE -1
           sy == IF s.at[2] < q[2] THEN 1 ELSE -1
           right == 2 * s.err >= -dy
           down == 2 * s.err <= dx
           a == IF right THEN s.at[1] + sx ELSE s.at[1]
           b == IF down THEN s.at[2] + sy ELSE s.at[2]
           e == s.err + (IF right THEN -dy ELSE 0) + (IF down THEN dx ELSE 0)
<1>1. /\ s.at \in Int \X Int /\ s.err \in Int /\ s.done \in BOOLEAN
  BY DEF State
<1>2. a \in Int /\ b \in Int /\ e \in Int
  BY <1>1
<1>3. Canvas!Bresenham(s, q, dx, dy) = [s EXCEPT !.done = TRUE]
        \/ Canvas!Bresenham(s, q, dx, dy) = [at |-> <<a, b>>, err |-> e, done |-> FALSE]
  BY DEF Canvas!Bresenham
<1> HIDE DEF a, b, e
<1>4. [s EXCEPT !.done = TRUE] \in State
  BY DEF State
<1>5. [at |-> <<a, b>>, err |-> e, done |-> FALSE] \in State
  BY <1>2 DEF State
<1> QED BY <1>3, <1>4, <1>5

\* A line's pixels are those of a walk of its steps.
Spans(p, q, dx, dy) ==
  /\ p \in Int \X Int /\ q \in Int \X Int /\ dx \in Nat /\ dy \in Nat
  /\ dx = Canvas!Distance(p[1], q[1]) /\ dy = Canvas!Distance(p[2], q[2])
Traces(walk, p, q, dx, dy) ==
  /\ walk \in [0..dx + dy -> State]
  /\ walk[0] = [at |-> p, err |-> dx - dy, done |-> FALSE]
  /\ \A n \in 0..dx + dy : n # 0 => walk[n] = Canvas!Bresenham(walk[n - 1], q, dx, dy)
  /\ Canvas!Points(p, q) = {walk[n].at : n \in 0..dx + dy}

LEMMA LineIsWalk ==
  ASSUME NEW p, NEW q, NEW dx, NEW dy, Spans(p, q, dx, dy)
  PROVE  \E walk : Traces(walk, p, q, dx, dy)
<1> DEFINE D == 0..dx + dy
           first == [at |-> p, err |-> dx - dy, done |-> FALSE]
           step == [s \in State |-> Canvas!Bresenham(s, q, dx, dy)]
           walk == CHOOSE g : g = [n \in D |-> IF n = 0 THEN first
                                               ELSE Canvas!Bresenham(g[n - 1], q, dx, dy)]
<1>0. /\ p \in Int \X Int /\ q \in Int \X Int /\ dx \in Nat /\ dy \in Nat
      /\ dx = Canvas!Distance(p[1], q[1]) /\ dy = Canvas!Distance(p[2], q[2])
  BY DEF Spans
<1>1. first \in State
  BY <1>0 DEF State
<1>2. step \in [State -> State] /\ \A s \in State : step[s] = Canvas!Bresenham(s, q, dx, dy)
  BY <1>0, StepsAreStates
<1>3. D \in Numbers
  <2>1. dx + dy \in Nat
    BY <1>0
  <2> QED BY <2>1 DEF Numbers
<1>p. Canvas!Points(p, q) = {walk[n].at : n \in D}
  BY <1>0 DEF Canvas!Points
<1> HIDE DEF D, first, step
<1>4. PICK f \in [D -> State] : \A n \in D : f[n] = IF n = 0 THEN first ELSE step[f[n - 1]]
  <2>1. Repeated(D, first, step, State) # {}
    BY <1>1, <1>2, <1>3, Repeats
  <2> QED BY <2>1 DEF Repeated
<1>5. 0 \in D /\ \A n \in D : n # 0 => n - 1 \in D
  BY <1>0 DEF D
<1>6. \A n \in D : f[n] = IF n = 0 THEN first ELSE Canvas!Bresenham(f[n - 1], q, dx, dy)
  BY <1>2, <1>4, <1>5
<1>7. f = [n \in D |-> IF n = 0 THEN first ELSE Canvas!Bresenham(f[n - 1], q, dx, dy)]
  <2>1. f = [n \in D |-> f[n]]
    BY <1>4
  <2> QED BY <1>6, <2>1
<1>8. walk = [n \in D |-> IF n = 0 THEN first ELSE Canvas!Bresenham(walk[n - 1], q, dx, dy)]
  BY <1>7, Zenon
<1> HIDE DEF walk
<1>9. \A n \in D : walk[n] \in State
  <2> DEFINE T == {n \in Nat : n \in D => walk[n] \in State}
  <2>1. 0 \in T
    BY <1>1, <1>5, <1>8
  <2>2. ASSUME NEW n \in Nat, n \in T PROVE n + 1 \in T
    <3> SUFFICES ASSUME n + 1 \in D PROVE walk[n + 1] \in State
      OBVIOUS
    <3>1. n \in D /\ n + 1 # 0 /\ (n + 1) - 1 = n
      BY <1>0 DEF D
    <3>2. walk[n + 1] = Canvas!Bresenham(walk[n], q, dx, dy) /\ walk[n] \in State
      BY <1>8, <2>2, <3>1
    <3> QED BY <1>0, <3>2, StepsAreStates
  <2> HIDE DEF T
  <2>3. Nat \subseteq T
    BY <2>1, <2>2, AllNumbers
  <2> QED BY <2>3 DEF T, D
<1>10. walk \in [D -> State]
  BY <1>8, <1>9
<1>11. walk[0] = first /\ \A n \in D : n # 0 => walk[n] = Canvas!Bresenham(walk[n - 1], q, dx, dy)
  BY <1>5, <1>8
<1>12. Traces(walk, p, q, dx, dy)
  BY <1>10, <1>11, <1>p DEF D, first, Traces
<1> QED BY <1>12

\* At its end a line stays there.
LEMMA StaysAtEnd ==
  ASSUME NEW q \in Int \X Int, NEW dx \in Nat, NEW dy \in Nat, NEW s \in State, s.at = q
  PROVE  Canvas!Bresenham(s, q, dx, dy).at = q
<1>1. Canvas!Bresenham(s, q, dx, dy) = [s EXCEPT !.done = TRUE]
  BY DEF Canvas!Bresenham
<1>2. [s EXCEPT !.done = TRUE].at = s.at
  BY DEF State
<1> QED BY <1>1, <1>2

\* The places of a line of w pixels by h, upwards from x and y.
Place(x, y, i, j, e) == [at |-> <<x + i, y - j>>, err |-> e, done |-> FALSE]

\* A step does not leave the line's rectangle.
Free(w, h, i, j, e) ==
  (i # w \/ j # h) /\ (2 * e >= -h => i < w) /\ (2 * e <= w => j < h)

LEMMA StepFrom ==
  ASSUME NEW x \in Int, NEW y \in Int, NEW w \in Nat, NEW h \in Nat,
         NEW i \in Nat, NEW j \in Nat, NEW e \in Int, Free(w, h, i, j, e)
  PROVE  Canvas!Bresenham(Place(x, y, i, j, e), <<x + w, y - h>>, w, h) =
           Place(x, y, IF 2 * e >= -h THEN i + 1 ELSE i, IF 2 * e <= w THEN j + 1 ELSE j,
                 e + (IF 2 * e >= -h THEN -h ELSE 0) + (IF 2 * e <= w THEN w ELSE 0))
<1> DEFINE s == Place(x, y, i, j, e)
           q == <<x + w, y - h>>
<1>f. (i # w \/ j # h) /\ (2 * e >= -h => i < w) /\ (2 * e <= w => j < h)
  BY DEF Free
<1>1. s.at[1] = x + i /\ s.at[2] = y - j /\ s.err = e /\ s.done = FALSE
      /\ q[1] = x + w /\ q[2] = y - h /\ s.at = <<x + i, y - j>>
  BY DEF Place
<1>2. s.at # q
  <2> SUFFICES ASSUME s.at = q PROVE FALSE
    OBVIOUS
  <2>1. s.at[1] = q[1] /\ s.at[2] = q[2]
    OBVIOUS
  <2> HIDE DEF s, q
  <2> QED BY <1>1, <1>f, <2>1
<1> HIDE DEF s, q
<1>3. ~(2 * e >= -h /\ s.at[1] = q[1]) /\ ~(2 * e <= w /\ s.at[2] = q[2])
  BY <1>1, <1>f
<1>4. Canvas!Bresenham(s, q, w, h) =
        [at |-> <<IF 2 * e >= -h THEN s.at[1] + (IF s.at[1] < q[1] THEN 1 ELSE -1) ELSE s.at[1],
                  IF 2 * e <= w THEN s.at[2] + (IF s.at[2] < q[2] THEN 1 ELSE -1) ELSE s.at[2]>>,
         err |-> e + (IF 2 * e >= -h THEN -h ELSE 0) + (IF 2 * e <= w THEN w ELSE 0),
         done |-> FALSE]
  BY <1>1, <1>2, <1>3 DEF Canvas!Bresenham
<1>5. (IF 2 * e >= -h THEN s.at[1] + (IF s.at[1] < q[1] THEN 1 ELSE -1) ELSE s.at[1])
        = x + (IF 2 * e >= -h THEN i + 1 ELSE i)
  BY <1>1, <1>f
<1>6. (IF 2 * e <= w THEN s.at[2] + (IF s.at[2] < q[2] THEN 1 ELSE -1) ELSE s.at[2])
        = y - (IF 2 * e <= w THEN j + 1 ELSE j)
  BY <1>1, <1>f
<1> QED BY <1>4, <1>5, <1>6 DEF Place, s, q

\* A walk of the steps of a line of w pixels by h.
Walk(walk, x, y, w, h) ==
  /\ walk \in [0..w + h -> State] /\ walk[0] = Place(x, y, 0, 0, w - h)
  /\ \A n \in 0..w + h :
       n # 0 => walk[n] = Canvas!Bresenham(walk[n - 1], <<x + w, y - h>>, w, h)

\* It is in the place of a step, and then at its end.
WideAt(walk, x, y, w, h, n) ==
  IF n <= w THEN \E j \in Nat, e \in Int : walk[n] = Place(x, y, n, j, e) /\ OnCourse(w, h, n, j, e)
  ELSE walk[n].at = <<x + w, y - h>>
TallAt(walk, x, y, w, h, n) ==
  IF n <= h THEN \E i \in Nat, e \in Int : walk[n] = Place(x, y, i, n, e) /\ OnCourse(h, w, n, i, -e)
  ELSE walk[n].at = <<x + w, y - h>>

LEMMA WideWalk ==
  ASSUME NEW x \in Int, NEW y \in Int, NEW w \in Nat, NEW h \in Nat, h <= w, w > 0,
         NEW walk, Walk(walk, x, y, w, h)
  PROVE  \A n \in 0..w + h : WideAt(walk, x, y, w, h, n)
<1> DEFINE q == <<x + w, y - h>>
           T == {n \in Nat : n <= w + h => WideAt(walk, x, y, w, h, n)}
<1>w. /\ walk \in [0..w + h -> State] /\ walk[0] = Place(x, y, 0, 0, w - h)
      /\ \A n \in 0..w + h : n # 0 => walk[n] = Canvas!Bresenham(walk[n - 1], q, w, h)
  BY DEF Walk
<1>1. 0 \in T
  <2>1. OnCourse(w, h, 0, 0, w - h)
    BY DEF OnCourse
  <2>2. 0 \in Nat /\ w - h \in Int
    OBVIOUS
  <2> QED BY <1>w, <2>1, <2>2 DEF WideAt
<1>2. ASSUME NEW n \in Nat, n \in T PROVE n + 1 \in T
  <2> SUFFICES ASSUME n + 1 <= w + h PROVE WideAt(walk, x, y, w, h, n + 1)
    OBVIOUS
  <2>1. /\ n \in 0..w + h /\ n + 1 \in 0..w + h /\ n + 1 # 0 /\ (n + 1) - 1 = n
        /\ WideAt(walk, x, y, w, h, n)
    BY <1>2
  <2>2. walk[n + 1] = Canvas!Bresenham(walk[n], q, w, h) /\ walk[n] \in State
    BY <1>w, <2>1
  <2>3. CASE n < w
    <3>1. PICK j \in Nat, e \in Int : walk[n] = Place(x, y, n, j, e) /\ OnCourse(w, h, n, j, e)
      BY <2>1, <2>3 DEF WideAt
    <3>2. /\ 2 * e >= -h
          /\ 2 * e <= w => j < h /\ OnCourse(w, h, n + 1, j + 1, e - h + w)
          /\ 2 * e > w => OnCourse(w, h, n + 1, j, e - h)
      BY <2>3, <3>1, StaysOnCourse
    <3>3. walk[n + 1] =
            Place(x, y, IF 2 * e >= -h THEN n + 1 ELSE n, IF 2 * e <= w THEN j + 1 ELSE j,
                  e + (IF 2 * e >= -h THEN -h ELSE 0) + (IF 2 * e <= w THEN w ELSE 0))
      <4>1. Free(w, h, n, j, e)
        BY <2>3, <3>2 DEF Free
      <4> QED BY <2>2, <3>1, <4>1, StepFrom
    <3>4. CASE 2 * e <= w
      <4>1. e + -h + w = e - h + w /\ j + 1 \in Nat /\ e - h + w \in Int
        OBVIOUS
      <4>2. walk[n + 1] = Place(x, y, n + 1, j + 1, e - h + w)
        BY <3>2, <3>3, <3>4, <4>1
      <4> QED BY <2>3, <3>2, <3>4, <4>1, <4>2 DEF WideAt
    <3>5. CASE 2 * e > w
      <4>1. e + -h + 0 = e - h /\ e - h \in Int /\ ~(2 * e <= w)
        BY <3>5
      <4>2. walk[n + 1] = Place(x, y, n + 1, j, e - h)
        BY <3>2, <3>3, <4>1
      <4> QED BY <2>3, <3>2, <3>5, <4>1, <4>2 DEF WideAt
    <3> QED BY <3>4, <3>5
  <2>4. CASE n >= w
    <3>1. walk[n].at = q
      <4>1. CASE n = w
        <5>1. PICK j \in Nat, e \in Int : walk[n] = Place(x, y, n, j, e) /\ OnCourse(w, h, n, j, e)
          BY <2>1, <4>1 DEF WideAt
        <5>2. j = h
          BY <4>1, <5>1, CourseEnds
        <5> QED BY <4>1, <5>1, <5>2 DEF Place
      <4>2. CASE n > w
        BY <2>1, <4>2 DEF WideAt
      <4> QED BY <2>4, <4>1, <4>2
    <3>2. q \in Int \X Int
      OBVIOUS
    <3>3. walk[n + 1].at = q
      BY <2>2, <3>1, <3>2, StaysAtEnd
    <3> QED BY <2>4, <3>3 DEF WideAt
  <2> QED BY <2>3, <2>4
<1> HIDE DEF T
<1>3. Nat \subseteq T
  BY <1>1, <1>2, AllNumbers
<1>4. ASSUME NEW n \in 0..w + h PROVE WideAt(walk, x, y, w, h, n)
  BY <1>3 DEF T
<1> QED BY <1>4
LEMMA TallWalk ==
  ASSUME NEW x \in Int, NEW y \in Int, NEW w \in Nat, NEW h \in Nat, w < h,
         NEW walk, Walk(walk, x, y, w, h)
  PROVE  \A n \in 0..w + h : TallAt(walk, x, y, w, h, n)
<1> DEFINE q == <<x + w, y - h>>
           T == {n \in Nat : n <= w + h => TallAt(walk, x, y, w, h, n)}
<1>w. /\ walk \in [0..w + h -> State] /\ walk[0] = Place(x, y, 0, 0, w - h)
      /\ \A n \in 0..w + h : n # 0 => walk[n] = Canvas!Bresenham(walk[n - 1], q, w, h)
  BY DEF Walk
<1>1. 0 \in T
  <2>1. OnCourse(h, w, 0, 0, -(w - h))
    BY DEF OnCourse
  <2>2. 0 \in Nat /\ w - h \in Int
    OBVIOUS
  <2> QED BY <1>w, <2>1, <2>2 DEF TallAt
<1>2. ASSUME NEW n \in Nat, n \in T PROVE n + 1 \in T
  <2> SUFFICES ASSUME n + 1 <= w + h PROVE TallAt(walk, x, y, w, h, n + 1)
    OBVIOUS
  <2>1. /\ n \in 0..w + h /\ n + 1 \in 0..w + h /\ n + 1 # 0 /\ (n + 1) - 1 = n
        /\ TallAt(walk, x, y, w, h, n)
    BY <1>2
  <2>2. walk[n + 1] = Canvas!Bresenham(walk[n], q, w, h) /\ walk[n] \in State
    BY <1>w, <2>1
  <2>3. CASE n < h
    <3>1. PICK i \in Nat, e \in Int : walk[n] = Place(x, y, i, n, e) /\ OnCourse(h, w, n, i, -e)
      BY <2>1, <2>3 DEF TallAt
    <3>2. /\ 2 * (-e) >= -w
          /\ 2 * (-e) <= h => i < w /\ OnCourse(h, w, n + 1, i + 1, -e - w + h)
          /\ 2 * (-e) > h => OnCourse(h, w, n + 1, i, -e - w)
      <4>1. -e \in Int /\ w <= h
        OBVIOUS
      <4> QED BY <2>3, <3>1, <4>1, StaysOnCourse
    <3>3. walk[n + 1] =
            Place(x, y, IF 2 * e >= -h THEN i + 1 ELSE i, IF 2 * e <= w THEN n + 1 ELSE n,
                  e + (IF 2 * e >= -h THEN -h ELSE 0) + (IF 2 * e <= w THEN w ELSE 0))
      <4>1. Free(w, h, i, n, e)
        BY <2>3, <3>2 DEF Free
      <4> QED BY <2>2, <3>1, <4>1, StepFrom
    <3>4. CASE 2 * e >= -h
      <4>1. /\ e + -h + w \in Int /\ i + 1 \in Nat /\ 2 * e <= w /\ 2 * (-e) <= h
            /\ -e - w + h = -(e + -h + w)
        BY <3>2, <3>4
      <4>2. walk[n + 1] = Place(x, y, i + 1, n + 1, e + -h + w)
        BY <3>3, <3>4, <4>1
      <4> QED BY <2>3, <3>2, <4>1, <4>2 DEF TallAt
    <3>5. CASE ~(2 * e >= -h)
      <4>1. e + 0 + w \in Int /\ 2 * e <= w /\ 2 * (-e) > h /\ -e - w = -(e + 0 + w)
        BY <3>2, <3>5
      <4>2. walk[n + 1] = Place(x, y, i, n + 1, e + 0 + w)
        BY <3>3, <3>5, <4>1
      <4> QED BY <2>3, <3>2, <4>1, <4>2 DEF TallAt
    <3> QED BY <3>4, <3>5
  <2>4. CASE n >= h
    <3>1. walk[n].at = q
      <4>1. CASE n = h
        <5>1. PICK i \in Nat, e \in Int : walk[n] = Place(x, y, i, n, e) /\ OnCourse(h, w, n, i, -e)
          BY <2>1, <4>1 DEF TallAt
        <5>2. i = w
          <6>1. -e \in Int /\ h > 0
            OBVIOUS
          <6> QED BY <4>1, <5>1, <6>1, CourseEnds
        <5> QED BY <4>1, <5>1, <5>2 DEF Place
      <4>2. CASE n > h
        BY <2>1, <4>2 DEF TallAt
      <4> QED BY <2>4, <4>1, <4>2
    <3>2. q \in Int \X Int
      OBVIOUS
    <3>3. walk[n + 1].at = q
      BY <2>2, <3>1, <3>2, StaysAtEnd
    <3> QED BY <2>4, <3>3 DEF TallAt
  <2> QED BY <2>3, <2>4
<1> HIDE DEF T
<1>3. Nat \subseteq T
  BY <1>1, <1>2, AllNumbers
<1>4. ASSUME NEW n \in 0..w + h PROVE TallAt(walk, x, y, w, h, n)
  BY <1>3 DEF T
<1> QED BY <1>4
\* The values of a function that changes with each number, up to n, and then stays.
LEMMA CountUpTo ==
  ASSUME NEW n \in Nat, NEW m \in Nat, n <= m, NEW f, DOMAIN f = 0..m,
         \A i \in 0..n, j \in 0..n : f[i] = f[j] => i = j,
         \A i \in n..m : f[i] = f[n]
  PROVE  Cardinality({f[i] : i \in 0..m}) = n + 1
<1> DEFINE V == {f[i] : i \in 0..m}
           g == [i \in 0..n |-> f[i]]
<1>1. \A i \in 0..m : i \in 0..n \/ i \in n..m
  OBVIOUS
<1>2. n \in 0..n /\ n \in 0..m /\ \A i \in 0..n : i \in 0..m
  OBVIOUS
<1>3. V = {f[i] : i \in 0..n}
  BY <1>1, <1>2
<1>4. g \in Bijection(0..n, V)
  <2>1. /\ \A v \in V : \E i \in 0..n : f[i] = v
        /\ \A i \in 0..n : f[i] \in V
    BY <1>3
  <2>2. \A i \in 0..n : g[i] = f[i]
    OBVIOUS
  <2> HIDE DEF V
  <2>3. g \in [0..n -> V]
    BY <2>1
  <2> HIDE DEF g
  <2>4. \A i \in 0..n, j \in 0..n : g[i] = g[j] => i = j
    BY <2>2
  <2>5. \A v \in V : \E i \in 0..n : g[i] = v
    BY <2>1, <2>2
  <2> QED BY <2>3, <2>4, <2>5 DEF Bijection, Injection, Surjection, IsInjective
<1>5. IsFiniteSet(0..n) /\ Cardinality(0..n) = n + 1
  <2>1. 0 \in Int /\ n \in Int /\ ~(0 > n) /\ n - 0 + 1 = n + 1
    OBVIOUS
  <2> QED BY <2>1, FS_Interval
<1>6. ExistsBijection(0..n, V)
  BY <1>4 DEF ExistsBijection
<1> HIDE DEF V
<1>7. Cardinality(V) = Cardinality(0..n)
  BY <1>5, <1>6, FS_Bijection
<1> QED BY <1>5, <1>7 DEF V

\* A line's pixels: one for each step of its longer side, the last one its end.
Reaches(x, y, w, h) ==
  /\ <<x + w, y - h>> \in Canvas!Points(<<x, y>>, <<x + w, y - h>>)
  /\ Cardinality(Canvas!Points(<<x, y>>, <<x + w, y - h>>)) = Canvas!AtLeast(w, h) + 1

LEMMA LineOfPixels ==
  ASSUME NEW x \in Int, NEW y \in Int, NEW w \in Nat, NEW h \in Nat
  PROVE  Reaches(x, y, w, h)
<1> DEFINE p == <<x, y>>
           q == <<x + w, y - h>>
           L == Canvas!AtLeast(w, h)
<1>1. p \in Int \X Int /\ q \in Int \X Int /\ p[1] = x /\ p[2] = y
      /\ q[1] = x + w /\ q[2] = y - h
  OBVIOUS
<1>2. w = Canvas!Distance(p[1], q[1]) /\ h = Canvas!Distance(p[2], q[2])
  BY <1>1 DEF Canvas!Distance
<1>3. L \in Nat /\ L <= w + h /\ w <= L /\ h <= L /\ (h <= w => L = w) /\ (w < h => L = h)
  BY DEF Canvas!AtLeast
<1>p. Place(x, y, 0, 0, w - h) = [at |-> p, err |-> w - h, done |-> FALSE]
  BY DEF Place
<1> HIDE DEF p, q, L
<1>s. Spans(p, q, w, h)
  BY <1>1, <1>2 DEF Spans
<1>t. PICK walk : Traces(walk, p, q, w, h)
  BY <1>s, LineIsWalk
<1>4. /\ walk \in [0..w + h -> State]
      /\ walk[0] = [at |-> p, err |-> w - h, done |-> FALSE]
      /\ \A n \in 0..w + h : n # 0 => walk[n] = Canvas!Bresenham(walk[n - 1], q, w, h)
      /\ Canvas!Points(p, q) = {walk[n].at : n \in 0..w + h}
  BY <1>t DEF Traces
<1>5. Walk(walk, x, y, w, h)
  BY <1>p, <1>4 DEF Walk, q
<1> DEFINE f == [n \in 0..w + h |-> walk[n].at]
\* each step of the longer side is a pixel further, and those after it stay
<1>6. /\ \A i \in 0..L, j \in 0..L : f[i] = f[j] => i = j
      /\ \A i \in L..w + h : f[i] = q
  <2>1. CASE h <= w /\ w > 0
    <3>1. \A n \in 0..w + h : WideAt(walk, x, y, w, h, n)
      BY <1>5, <2>1, WideWalk
    <3>2. ASSUME NEW n \in 0..w PROVE f[n][1] = x + n /\ (n = w => f[n] = q)
      <4>1. n \in 0..w + h /\ n <= w /\ n \in Nat
        OBVIOUS
      <4>2. PICK j \in Nat, e \in Int : walk[n] = Place(x, y, n, j, e) /\ OnCourse(w, h, n, j, e)
        BY <3>1, <4>1 DEF WideAt
      <4>3. f[n] = <<x + n, y - j>>
        BY <4>1, <4>2 DEF Place
      <4>4. n = w => j = h
        BY <2>1, <4>2, CourseEnds
      <4> HIDE DEF f
      <4> QED BY <4>3, <4>4 DEF q
    <3>3. ASSUME NEW n \in w + 1..w + h PROVE f[n] = q
      <4>1. n \in 0..w + h /\ ~(n <= w)
        OBVIOUS
      <4> QED BY <3>1, <4>1 DEF WideAt, q
    <3>4. L = w /\ \A i \in w..w + h : i = w \/ i \in w + 1..w + h
      BY <1>3, <2>1
    <3>5. w \in 0..w
      OBVIOUS
    <3> HIDE DEF f
    <3>6. ASSUME NEW i \in 0..w, NEW j \in 0..w, f[i] = f[j] PROVE i = j
      <4>1. x + i = x + j
        BY <3>2, <3>6
      <4> QED BY <4>1
    <3> QED BY <3>2, <3>3, <3>4, <3>5, <3>6
  <2>2. CASE w < h
    <3>1. \A n \in 0..w + h : TallAt(walk, x, y, w, h, n)
      BY <1>5, <2>2, TallWalk
    <3>2. ASSUME NEW n \in 0..h PROVE f[n][2] = y - n /\ (n = h => f[n] = q)
      <4>1. n \in 0..w + h /\ n <= h /\ n \in Nat /\ h > 0
        BY <2>2
      <4>2. PICK i \in Nat, e \in Int : walk[n] = Place(x, y, i, n, e) /\ OnCourse(h, w, n, i, -e)
        BY <3>1, <4>1 DEF TallAt
      <4>3. f[n] = <<x + i, y - n>>
        BY <4>1, <4>2 DEF Place
      <4>4. n = h => i = w
        <5>1. -e \in Int
          OBVIOUS
        <5> QED BY <4>1, <4>2, <5>1, CourseEnds
      <4> HIDE DEF f
      <4> QED BY <4>3, <4>4 DEF q
    <3>3. ASSUME NEW n \in h + 1..w + h PROVE f[n] = q
      <4>1. n \in 0..w + h /\ ~(n <= h)
        OBVIOUS
      <4> QED BY <3>1, <4>1 DEF TallAt, q
    <3>4. L = h /\ \A i \in h..w + h : i = h \/ i \in h + 1..w + h
      BY <1>3, <2>2
    <3>5. h \in 0..h
      OBVIOUS
    <3> HIDE DEF f
    <3>6. ASSUME NEW i \in 0..h, NEW j \in 0..h, f[i] = f[j] PROVE i = j
      <4>1. y - i = y - j
        BY <3>2, <3>6
      <4> QED BY <4>1
    <3> QED BY <3>2, <3>3, <3>4, <3>5, <3>6
  <2>3. CASE w = 0 /\ h = 0
    <3>1. L = 0 /\ p = q
      BY <1>3, <2>3 DEF p, q
    <3>2. \A n \in 0..w + h : n = 0 /\ f[n] = p
      BY <1>4, <2>3
    <3>3. /\ \A n \in 0..L : n = 0
          /\ \A n \in L..w + h : n \in 0..w + h
      BY <2>3, <3>1
    <3> HIDE DEF f
    <3>4. \A i \in 0..L, j \in 0..L : i = j
      BY <3>3
    <3>5. \A i \in L..w + h : f[i] = q
      BY <3>1, <3>2, <3>3
    <3> HIDE <3>1, <3>2, <3>3
    <3> QED BY <3>4, <3>5, Zenon
  <2>4. (h <= w /\ w > 0) \/ w < h \/ (w = 0 /\ h = 0)
    OBVIOUS
  <2> HIDE DEF f
  <2> QED BY <2>1, <2>2, <2>3, <2>4, Zenon
<1>7. L \in 0..w + h /\ L \in L..w + h
  BY <1>3
<1>8. DOMAIN f = 0..w + h /\ Canvas!Points(p, q) = {f[n] : n \in 0..w + h}
  BY <1>4
<1> HIDE DEF f
<1>9. q \in Canvas!Points(p, q)
  BY <1>6, <1>7, <1>8
<1>10. Cardinality({f[n] : n \in 0..w + h}) = L + 1
  <2>1. w + h \in Nat /\ \A i \in L..w + h : f[i] = f[L]
    BY <1>6, <1>7
  <2> QED BY <1>3, <1>6, <1>8, <2>1, CountUpTo
<1> QED BY <1>8, <1>9, <1>10 DEF p, q, L, Reaches

LEMMA CanvasCounts == \A S : Canvas!Cardinality(S) = Cardinality(S)
BY Zenon DEF Canvas!Cardinality, Cardinality

\* A line of any ends has them both.
LEMMA LinesReach ==
  ASSUME Canvas!CanvasTypeOK
  PROVE  Canvas!LineReaches
<1>1. shape.x \in Int /\ shape.y \in Int /\ shape.w \in Nat /\ shape.h \in Nat
  <2>1. CASE shape \in Canvas!Rects
    BY <2>1, RectsAreNumbers
  <2>2. CASE shape = Canvas!Nothing
    BY <2>2 DEF Canvas!Nothing
  <2> QED BY <2>1, <2>2 DEF Canvas!CanvasTypeOK
<1>2. Reaches(shape.x, shape.y, shape.w, shape.h)
  BY <1>1, LineOfPixels
<1> QED BY <1>2, CanvasCounts DEF Canvas!LineReaches, Reaches

-----------------------------------------------------------------------------
(* The parts together.                                                     *)

KernelInv == SrfsInv /\ HandlesInv /\ DesktopInv /\ CanvasInv /\ RunInv /\ BootInv

LEMMA PartsStart ==
  ASSUME PartsInit
  PROVE  KernelInv
<1>1. /\ SrfsInit /\ Handles!HandlesInit /\ Desktop!DesktopInit
      /\ Run!RunInit /\ Canvas!CanvasInit /\ Boot!BootInit
  BY DEF PartsInit
<1> QED BY <1>1, FilesStart, HandlesStart, DesktopStart, CanvasStart, RunStart, BootStart
        DEF KernelInv

LEMMA PartsStep ==
  ASSUME KernelInv, PartsNext \/ UNCHANGED partsVars
  PROVE  KernelInv'
<1>1. SrfsInv /\ HandlesInv /\ DesktopInv /\ CanvasInv /\ RunInv /\ BootInv
  BY DEF KernelInv
<1>2. SrfsNext \/ UNCHANGED srfsVars
  BY DEF PartsNext, FilesNext, ImagesNext, VectorsNext, DesktopNext, CanvasNext, RunNext, BootNext,
         partsVars, assetVars
<1>3. Handles!ImageNext \/ Handles!VectorNext \/ UNCHANGED handlesVars
  BY DEF PartsNext, FilesNext, ImagesNext, VectorsNext, DesktopNext, CanvasNext, RunNext, BootNext,
         partsVars, assetVars
<1>4. Desktop!DesktopNext \/ UNCHANGED screenVars
  BY DEF PartsNext, FilesNext, ImagesNext, VectorsNext, DesktopNext, CanvasNext, RunNext, BootNext,
         partsVars, lookVars
<1>5. Canvas!CanvasNext \/ UNCHANGED canvasVars
  BY DEF PartsNext, FilesNext, ImagesNext, VectorsNext, DesktopNext, CanvasNext, RunNext, BootNext,
         partsVars, lookVars
<1>6. Run!RunNext \/ UNCHANGED runVars
  BY DEF PartsNext, FilesNext, ImagesNext, VectorsNext, DesktopNext, CanvasNext, RunNext, BootNext,
         partsVars
<1>7. Boot!BootNext \/ UNCHANGED bootVars
  BY DEF PartsNext, FilesNext, ImagesNext, VectorsNext, DesktopNext, CanvasNext, RunNext, BootNext,
         partsVars
<1> QED BY <1>1, <1>2, <1>3, <1>4, <1>5, <1>6, <1>7, FilesStep, HandlesStep, DesktopStep,
           CanvasStep, RunStep, BootStep DEF KernelInv

LEMMA PartsInvariant == PartsSpec => []KernelInv
<1>1. PartsInit => KernelInv
  BY PartsStart
<1>2. KernelInv /\ [PartsNext]_partsVars => KernelInv'
  BY PartsStep
<1> QED BY <1>1, <1>2, PTL DEF PartsSpec

\* Every part of the kernel keeps to its types: the boot's counters stay within the
\* bundle it installs (KernelBoot), the pointer on the screen (Desktop), the open frames
\* within the depth (OvcRun).
THEOREM KernelTypes == PartsSpec => []KernelTypeOK
<1>1. KernelInv => KernelTypeOK
  BY HandlesInvHolds, DesktopInvHolds, RunInvHolds, BootInvHolds
     DEF KernelInv, KernelTypeOK, SrfsInv, CanvasInv
<1> QED BY <1>1, PartsInvariant, PTL

\* A font that the renderer holds stays in its slot and a file that was written once is
\* read as it was written while no file came to a full cache (SrfsCache); the last
\* NImages images are those loaded, no two with the same address, an image is drawn as it
\* was loaded unless its address was given again, and a vector's handle has its holder's
\* asset as long as no load found the cache of its kind full (AssetHandles).
THEOREM AssetsAreHeld == PartsSpec => []AssetsHold
<1>1. KernelInv => AssetsHold
  BY KeptIsRead, HandlesInvHolds DEF KernelInv, AssetsHold, SrfsInv
<1> QED BY <1>1, PartsInvariant, PTL

\* The windows and menus of the desktop fit what was clicked, but for the windows that a
\* menu or a program launches beside another; of the drawing calls of GpuCanvas two write
\* off the screen, the blur that is not turned and the text in the built-in font, and only
\* when their rectangle is partly outside; and a line of GpuDrawLine has its end and a
\* pixel in each step of its longer side.
THEOREM ScreenIsSound == PartsSpec => []ScreenSound
<1>1. KernelInv => Desktop!DesktopConsistent /\ Canvas!InsideScreen
  BY DesktopInvHolds DEF KernelInv, CanvasInv
<1>2. KernelInv => Canvas!LineReaches
  BY LinesReach DEF KernelInv, CanvasInv
<1>3. KernelInv => ScreenSound
  BY <1>1, <1>2 DEF ScreenSound
<1> QED BY <1>3, PartsInvariant, PTL

\* Modules are built before the application's OEntry runs, in a run and in each run that
\* the kernel starts inside one (OvcRun), and the assets of a boot are installed whole
\* before they are scanned, whatever power cuts came before (KernelBoot).
THEOREM StartsAreSound == PartsSpec => []StartsSound
<1>1. KernelInv => StartsSound
  BY RunInvHolds, BootInvHolds DEF KernelInv, StartsSound
<1> QED BY <1>1, PartsInvariant, PTL

====
