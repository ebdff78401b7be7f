------------------------------- MODULE VmProofs -------------------------------
(***************************************************************************)
(* Five parts of the VM crate.  The parallel engine leaves in RocksDB what *)
(* the transactions leave when they run one after the other, for every     *)
(* number of slots, transactions and batches.  The stack of a frame stays  *)
(* within its limit and only the instructions that do not look where the   *)
(* memory ends bring the process down, for every depth, reach and size of  *)
(* memory and all operands.  The interpreter's modular and signed          *)
(* operations, shifts and sign extension are those of the integers, for    *)
(* every width of a word.  Every program the eBPF verifier accepts,        *)
(* however long, compiles and runs inside its own code but for the named   *)
(* exceptions, and a machine holds only such programs, whatever calls      *)
(* changed it.                                                             *)
(***************************************************************************)
EXTENDS VmParts, Sequences, FiniteSetTheorems, WellFoundedInduction, TLAPS

-----------------------------------------------------------------------------
(* The parallel engine.                                                     *)

\* a slot of the cache that RocksDB does not replace was never written
ReloadsAll == \A s \in Slots : db[s] = {} => cached[s] = {}

\* a transaction writes a slot once, and the value depends at least on itself
WritesOnce ==
  \A i \in Ids : \A w \in active[i] :
    /\ w.value # {}
    /\ \A v \in active[i] : v.slot = w.slot => v = w

Entries ==
  /\ todo \subseteq entered
  /\ \A i \in Ids : active[i] # {} => i \in entered

\* what was executed, or committed, comes before what was not
InOrder ==
  /\ \A j \in todo : \A k \in entered \ todo : k < j \/ active[k] = {}
  /\ pc = "run" => \A i \in todo : active[i] = {}

\* the write set of the highest id that wrote a slot has its last value
LastWriter ==
  \A i \in Ids : \A w \in active[i] :
    (\A k \in Ids : k > i => ~Written(w.slot, k)) => w.value = ref[w.slot]

\* a slot that was set back to an earlier value is still to be committed again
SetBack(s) == \E i \in todo : \E j \in entered \ todo : Written(s, i)
Stored ==
  /\ pc # "commit" => db = ref
  /\ pc = "commit" => \A s \in Slots : db[s] = ref[s] \/ SetBack(s)

EngineInv ==
  /\ TypeOK /\ ReloadsAll /\ WritesOnce /\ Entries
  /\ ordered => InOrder /\ LastWriter /\ Stored

-----------------------------------------------------------------------------
(* Lemmas.                                                                 *)

LEMMA IdsAreNumbers == Ids \subseteq Nat
  BY BoundsAssumption DEF Ids

\* The slots are reloaded from what RocksDB has and, where it has nothing, were empty.
LEMMA ReloadIsDb ==
  ASSUME TypeOK, ReloadsAll
  PROVE  Reload = db
  BY DEF TypeOK, ReloadsAll, Reload, Storage

\* The value of a slot that a transaction wrote is the one in its write set.
LEMMA WrittenHasValue ==
  ASSUME TypeOK, WritesOnce, NEW i \in Ids, NEW s \in Slots, Written(s, i)
  PROVE  \E w \in active[i] : w.slot = s /\ ValueOf(s, i) = w.value
         /\ w.value \in Values
<1>1. PICK w \in active[i] : w.slot = s
  BY DEF Written
<1>2. active[i] \subseteq [slot : Slots, value : Values]
  BY DEF TypeOK, WriteSets
<1>3. w = [slot |-> s, value |-> w.value] /\ w.value \in Values
  BY <1>1, <1>2
<1>4. [slot |-> s, value |-> ValueOf(s, i)] \in active[i] /\ ValueOf(s, i) \in Values
  BY <1>1, <1>3 DEF ValueOf
<1>5. [slot |-> s, value |-> ValueOf(s, i)].slot = w.slot
  BY <1>1
<1>6. [slot |-> s, value |-> ValueOf(s, i)] = w
  BY <1>1, <1>4, <1>5 DEF WritesOnce
<1>7. ValueOf(s, i) = w.value
  <2>1. [slot |-> s, value |-> ValueOf(s, i)].value = ValueOf(s, i)
    OBVIOUS
  <2> QED BY <2>1, <1>6
<1> QED BY <1>1, <1>3, <1>7

-----------------------------------------------------------------------------
(* Every step keeps the invariant.                                         *)

LEMMA EngineInitially == Init => EngineInv
<1> SUFFICES ASSUME Init PROVE EngineInv
  OBVIOUS
<1>1. TypeOK
  BY BoundsAssumption DEF Init, TypeOK, Storage, Unwritten, WriteSets, Values
<1>2. ReloadsAll /\ WritesOnce /\ Entries
  BY DEF Init, ReloadsAll, WritesOnce, Entries, Unwritten
<1>3. InOrder /\ LastWriter /\ Stored
  BY DEF Init, InOrder, LastWriter, Stored
<1> QED BY <1>1, <1>2, <1>3 DEF EngineInv

LEMMA SubmitKeeps == EngineInv /\ Submit => EngineInv'
<1> SUFFICES ASSUME EngineInv, Submit PROVE EngineInv'
  OBVIOUS
<1>t. TypeOK /\ ReloadsAll /\ WritesOnce /\ Entries
  BY DEF EngineInv
<1>1. PICK n \in 1..MaxBatch :
        /\ size' = n /\ todo' = 0 .. n - 1
        /\ active' = [i \in Ids |-> IF i < n THEN {} ELSE active[i]]
        /\ entered' = entered \cup 0 .. n - 1
        /\ ordered' = (ordered /\ entered \subseteq 0 .. n - 1)
  BY DEF Submit, Entered
<1>2. pc = "idle" /\ pc' = "run" /\ UNCHANGED <<db, cached, count, ref>>
  BY DEF Submit
<1>3. 0 .. n - 1 \subseteq Ids
  BY BoundsAssumption DEF Ids
<1>4. TypeOK'
  <2>1. active' \in [Ids -> WriteSets]
    BY <1>t, <1>1 DEF TypeOK, WriteSets
  <2>2. ordered' \in BOOLEAN /\ size' \in 0..MaxBatch /\ todo' \in SUBSET Ids
        /\ entered' \in SUBSET Ids
    BY <1>t, <1>1, <1>3, BoundsAssumption DEF TypeOK
  <2> QED BY <1>t, <1>2, <2>1, <2>2 DEF TypeOK
<1>5. ReloadsAll'
  BY <1>t, <1>2 DEF ReloadsAll
<1>6. WritesOnce'
  BY <1>t, <1>1 DEF WritesOnce
<1>7. Entries'
  BY <1>t, <1>1 DEF Entries
<1>8. ASSUME ordered' PROVE InOrder' /\ LastWriter' /\ Stored'
  <2>1. \A i \in Ids : active'[i] = {}
    <3> SUFFICES ASSUME NEW i \in Ids, ~(i < n) PROVE active[i] = {}
      BY <1>1
    <3>1. i \notin 0 .. n - 1
      BY IdsAreNumbers
    <3> QED BY <3>1, <1>8, <1>1, <1>t DEF Entries
  <2>2. InOrder'
    BY <2>1, <1>1, <1>3, <1>4 DEF InOrder, TypeOK
  <2>3. LastWriter'
    BY <2>1 DEF LastWriter
  <2>4. Stored'
    BY <1>2, <1>1, <1>8 DEF Stored, EngineInv
  <2> QED BY <2>2, <2>3, <2>4
<1> QED BY <1>4, <1>5, <1>6, <1>7, <1>8 DEF EngineInv

LEMMA ExecuteKeeps == ASSUME NEW i \in Ids PROVE EngineInv /\ Execute(i) => EngineInv'
<1> SUFFICES ASSUME EngineInv, Execute(i) PROVE EngineInv'
  OBVIOUS
<1>t. TypeOK /\ ReloadsAll /\ WritesOnce /\ Entries
  BY DEF EngineInv
<1>r. Reload = db
  BY <1>t, ReloadIsDb
<1> DEFINE c == count + 1
<1>1. PICK from \in Slots, to \in Slots :
        /\ db' = [db EXCEPT ![to] = Reload[from] \cup {c}]
        /\ active' = [active EXCEPT ![i] = {[slot |-> to, value |-> Reload[from] \cup {c}]}]
        /\ ref' = [ref EXCEPT ![to] = ref[from] \cup {c}]
  BY DEF Execute
<1> DEFINE value == db[from] \cup {c}
           entry == [slot |-> to, value |-> value]
<1>2. /\ db' = [db EXCEPT ![to] = value]
      /\ active' = [active EXCEPT ![i] = {entry}]
  BY <1>1, <1>r
<1>3. /\ pc = "run" /\ i \in todo /\ count < MaxTx /\ count' = c
      /\ cached' = db /\ todo' = todo \ {i} /\ UNCHANGED <<entered, pc, size>>
      /\ ordered' = (ordered /\ \A j \in todo : i <= j)
  BY <1>r DEF Execute
<1>4. c \in Txs /\ c \in 0..MaxTx /\ value \in Values /\ value # {}
  BY <1>t, <1>3, BoundsAssumption DEF TypeOK, Txs, Storage, Values
<1>5. entry.slot = to /\ entry.value = value /\ entry \in [slot : Slots, value : Values]
  BY <1>4
<1>6. active'[i] = {entry} /\ \A k \in Ids \ {i} : active'[k] = active[k]
  BY <1>t, <1>2 DEF TypeOK
<1> HIDE DEF value, entry, c
<1>7. TypeOK'
  <2>1. db' \in Storage /\ cached' \in Storage
    BY <1>t, <1>2, <1>3, <1>4 DEF TypeOK, Storage
  <2>2. ref' \in Storage
    BY <1>t, <1>1, <1>4 DEF TypeOK, Storage, Values
  <2>3. active' \in [Ids -> WriteSets]
    BY <1>t, <1>2, <1>5 DEF TypeOK, WriteSets
  <2>4. ordered' \in BOOLEAN /\ count' \in 0..MaxTx /\ todo' \in SUBSET Ids
    BY <1>t, <1>3, <1>4 DEF TypeOK
  <2> QED BY <1>t, <1>3, <2>1, <2>2, <2>3, <2>4 DEF TypeOK
<1>8. ReloadsAll'
  BY <1>t, <1>2, <1>3, <1>4 DEF ReloadsAll, TypeOK, Storage
<1>9. WritesOnce'
  <2> SUFFICES ASSUME NEW k \in Ids, NEW w \in active'[k]
               PROVE w.value # {} /\ \A v \in active'[k] : v.slot = w.slot => v = w
    BY DEF WritesOnce
  <2>1. CASE k = i
    BY <2>1, <1>4, <1>5, <1>6
  <2>2. CASE k # i
    BY <2>2, <1>6, <1>t DEF WritesOnce
  <2> QED BY <2>1, <2>2
<1>10. Entries'
  BY <1>t, <1>3, <1>6 DEF Entries
<1>11. ASSUME ordered' PROVE InOrder' /\ LastWriter' /\ Stored'
  <2>o. ordered /\ (\A j \in todo : i <= j) /\ InOrder /\ LastWriter /\ db = ref
    BY <1>11, <1>3 DEF EngineInv, Stored
  <2>n. todo \subseteq Nat /\ entered \subseteq Nat /\ i \in Nat
    BY <1>t, IdsAreNumbers DEF TypeOK
  <2>1. InOrder'
    <3>1. ASSUME NEW j \in todo', NEW k \in entered' \ todo' PROVE k < j \/ active'[k] = {}
      <4>1. CASE k = i
        <5>1. j \in todo /\ j # i /\ j \in Nat
          BY <3>1, <2>n, <1>3
        <5>2. i <= j
          BY <5>1, <2>o
        <5>3. i < j
          BY <5>1, <5>2, <2>n
        <5> QED BY <5>3, <4>1
      <4>2. CASE k # i
        BY <4>2, <3>1, <2>o, <1>3, <1>6, <1>t DEF InOrder, TypeOK
      <4> QED BY <4>1, <4>2
    <3>2. \A k \in todo' : active'[k] = {}
      BY <2>o, <1>3, <1>6, <1>t DEF InOrder, TypeOK
    <3> QED BY <3>1, <3>2 DEF InOrder
  <2>2. Stored'
    <3>1. db' = ref'
      BY <2>o, <1>1, <1>r
    <3> QED BY <3>1, <1>3 DEF Stored
  <2>3. LastWriter'
    <3> SUFFICES ASSUME NEW k \in Ids, NEW w \in active'[k],
                        \A m \in Ids : m > k => ~Written(w.slot, m)'
                 PROVE w.value = ref'[w.slot]
      BY DEF LastWriter
    <3>0. ref = db /\ ref' = db' /\ db' = [db EXCEPT ![to] = value] /\ db \in Storage
      BY <2>o, <1>1, <1>2, <1>r, <1>t DEF TypeOK
    <3>1. CASE k = i
      <4>1. w = entry
        BY <3>1, <1>6
      <4> QED BY <4>1, <3>0, <1>5 DEF Storage
    <3>2. CASE k # i
      <4>1. w \in active[k] /\ w.slot \in Slots
        BY <3>2, <1>6, <1>t DEF TypeOK, WriteSets
      <4>2. k < i
        <5>1. k \in entered
          BY <4>1, <1>t DEF Entries
        <5>2. k \notin todo
          BY <4>1, <2>o, <1>3 DEF InOrder
        <5> QED BY <5>1, <5>2, <4>1, <2>o, <1>3 DEF InOrder
      <4>3. w.slot # to
        <5>1. i > k
          BY <4>2, IdsAreNumbers
        <5>2. ~Written(w.slot, i)'
          BY <5>1
        <5> QED BY <5>2, <1>5, <1>6 DEF Written
      <4>4. \A m \in Ids : m > k => ~Written(w.slot, m)
        <5> SUFFICES ASSUME NEW m \in Ids, m > k, Written(w.slot, m) PROVE FALSE
          OBVIOUS
        <5>1. m # i => active'[m] = active[m]
          BY <1>6
        <5>2. m # i
          BY <2>o, <1>3 DEF InOrder, Written
        <5> QED BY <5>1, <5>2 DEF Written
      <4>5. w.value = ref[w.slot]
        BY <4>1, <4>4, <2>o DEF LastWriter
      <4> QED BY <4>1, <4>3, <4>5, <3>0 DEF Storage
    <3> QED BY <3>1, <3>2
  <2> QED BY <2>1, <2>2, <2>3
<1> QED BY <1>7, <1>8, <1>9, <1>10, <1>11 DEF EngineInv

LEMMA ExecuteNothingKeeps == ASSUME NEW i \in Ids PROVE EngineInv /\ ExecuteNothing(i) => EngineInv'
<1> SUFFICES ASSUME EngineInv, ExecuteNothing(i) PROVE EngineInv'
  OBVIOUS
<1>t. TypeOK /\ ReloadsAll /\ WritesOnce /\ Entries
  BY DEF EngineInv
<1>1. /\ pc = "run" /\ i \in todo /\ cached' = db /\ todo' = todo \ {i}
      /\ UNCHANGED <<db, active, entered, pc, size, count, ref, ordered>>
  BY <1>t, ReloadIsDb DEF ExecuteNothing
<1>2. TypeOK'
  BY <1>t, <1>1 DEF TypeOK
<1>3. ReloadsAll' /\ WritesOnce' /\ Entries'
  BY <1>t, <1>1 DEF ReloadsAll, WritesOnce, Entries
<1>4. ASSUME ordered' PROVE InOrder' /\ LastWriter' /\ Stored'
  <2>1. InOrder /\ LastWriter /\ Stored
    BY <1>4, <1>1 DEF EngineInv
  <2>2. active[i] = {}
    BY <2>1, <1>1 DEF InOrder
  <2>3. InOrder'
    BY <2>1, <2>2, <1>1 DEF InOrder
  <2>4. LastWriter'
    BY <2>1, <1>1 DEF LastWriter, Written
  <2>5. Stored'
    BY <2>1, <1>1 DEF Stored
  <2> QED BY <2>3, <2>4, <2>5
<1> QED BY <1>2, <1>3, <1>4 DEF EngineInv

LEMMA StartValidationKeeps == EngineInv /\ StartValidation => EngineInv'
<1> SUFFICES ASSUME EngineInv, StartValidation PROVE EngineInv'
  OBVIOUS
<1>t. TypeOK /\ ReloadsAll /\ WritesOnce /\ Entries
  BY DEF EngineInv
<1>1. /\ pc = "run" /\ todo = {} /\ pc' = "commit" /\ todo' = entered
      /\ UNCHANGED <<db, cached, active, entered, size, count, ref, ordered>>
  BY DEF StartValidation
<1>2. TypeOK'
  BY <1>t, <1>1 DEF TypeOK
<1>3. ReloadsAll' /\ WritesOnce' /\ Entries'
  BY <1>t, <1>1 DEF ReloadsAll, WritesOnce, Entries
<1>4. ASSUME ordered' PROVE InOrder' /\ LastWriter' /\ Stored'
  <2>1. InOrder /\ LastWriter /\ Stored
    BY <1>4, <1>1 DEF EngineInv
  <2>2. InOrder'
    BY <1>1 DEF InOrder
  <2>3. LastWriter'
    BY <2>1, <1>1 DEF LastWriter, Written
  <2>4. Stored'
    BY <2>1, <1>1 DEF Stored
  <2> QED BY <2>2, <2>3, <2>4
<1> QED BY <1>2, <1>3, <1>4 DEF EngineInv

LEMMA CommitKeeps == ASSUME NEW i \in Ids PROVE EngineInv /\ ValidateAndCommit(i) => EngineInv'
<1> SUFFICES ASSUME EngineInv, ValidateAndCommit(i) PROVE EngineInv'
  OBVIOUS
<1>t. TypeOK /\ ReloadsAll /\ WritesOnce /\ Entries
  BY DEF EngineInv
<1>1. /\ pc = "commit" /\ i \in todo /\ \A j \in todo : i <= j
      /\ todo' = todo \ {i}
      /\ UNCHANGED <<cached, active, entered, pc, size, count, ref, ordered>>
      /\ db' = [s \in Slots |-> IF Written(s, i) THEN ValueOf(s, i) ELSE db[s]]
  BY DEF ValidateAndCommit, Committed
<1>v. ASSUME NEW s \in Slots, Written(s, i)
      PROVE  \E w \in active[i] : w.slot = s /\ db'[s] = w.value /\ w.value \in Values
  <2>1. db'[s] = ValueOf(s, i)
    BY <1>v, <1>1
  <2> QED BY <1>v, <1>t, <2>1, WrittenHasValue
<1>u. ASSUME NEW s \in Slots, ~Written(s, i) PROVE db'[s] = db[s]
  BY <1>u, <1>1
<1>2. TypeOK'
  <2>1. \A s \in Slots : db'[s] \in Values
    BY <1>t, <1>v, <1>u DEF TypeOK, Storage
  <2>2. db' = [s \in Slots |-> db'[s]]
    BY <1>1
  <2>3. db' \in Storage
    BY <2>1, <2>2 DEF Storage
  <2> QED BY <1>t, <1>1, <2>3 DEF TypeOK
<1>3. ReloadsAll'
  <2> SUFFICES ASSUME NEW s \in Slots, db'[s] = {} PROVE cached[s] = {}
    BY <1>1 DEF ReloadsAll
  <2>1. ~Written(s, i)
    BY <1>v, <1>t DEF WritesOnce
  <2> QED BY <2>1, <1>u, <1>t DEF ReloadsAll
<1>4. WritesOnce' /\ Entries'
  BY <1>t, <1>1 DEF WritesOnce, Entries
<1>5. ASSUME ordered' PROVE InOrder' /\ LastWriter' /\ Stored'
  <2>o. InOrder /\ LastWriter /\ Stored
    BY <1>5, <1>1 DEF EngineInv
  <2>n. i \in Nat /\ todo \subseteq Nat /\ todo \subseteq Ids
    BY <1>t, IdsAreNumbers DEF TypeOK
  <2>1. InOrder'
    <3> SUFFICES ASSUME NEW j \in todo', NEW k \in entered \ todo'
                 PROVE k < j \/ active[k] = {}
      BY <1>1 DEF InOrder
    <3>1. CASE k = i
      <4>1. j \in todo /\ j # i /\ j \in Nat
        BY <2>n, <1>1
      <4>2. i <= j
        BY <4>1, <1>1
      <4>3. i < j
        BY <4>1, <4>2, <2>n
      <4> QED BY <4>3, <3>1
    <3>2. CASE k # i
      BY <3>2, <2>o, <1>1 DEF InOrder
    <3> QED BY <3>1, <3>2
  <2>2. LastWriter'
    BY <2>o, <1>1 DEF LastWriter, Written
  <2>3. Stored'
    <3> SUFFICES ASSUME NEW s \in Slots, db'[s] # ref[s]
                 PROVE \E k \in todo' : \E j \in entered \ todo' : Written(s, k)
      BY <1>1 DEF Stored, SetBack, Written
    <3>e. i \in entered \ todo'
      BY <1>1, <1>t DEF Entries
    <3>1. CASE Written(s, i)
      <4>1. PICK w \in active[i] : w.slot = s /\ db'[s] = w.value
        BY <3>1, <1>v
      <4>2. PICK k \in Ids : k > i /\ Written(s, k)
        BY <4>1, <2>o DEF LastWriter
      <4>3. k \in entered
        BY <4>2, <1>t DEF Entries, Written
      <4>4. k \in todo
        <5> SUFFICES ASSUME k \notin todo PROVE FALSE
          OBVIOUS
        <5>1. k < i \/ active[k] = {}
          BY <4>3, <2>o, <1>1 DEF InOrder
        <5>2. ~(k < i)
          BY <4>2, <2>n, IdsAreNumbers
        <5> QED BY <5>1, <5>2, <4>2 DEF Written
      <4>5. k \in todo'
        BY <4>2, <4>4, <2>n, <1>1
      <4> QED BY <4>2, <4>5, <3>e
    <3>2. CASE ~Written(s, i)
      <4>1. SetBack(s)
        BY <3>2, <1>u, <1>1, <2>o DEF Stored
      <4> QED BY <4>1, <3>2, <3>e, <1>1 DEF SetBack
    <3> QED BY <3>1, <3>2
  <2> QED BY <2>1, <2>2, <2>3
<1> QED BY <1>2, <1>3, <1>4, <1>5 DEF EngineInv

LEMMA AnswerKeeps == EngineInv /\ Answer => EngineInv'
<1> SUFFICES ASSUME EngineInv, Answer PROVE EngineInv'
  OBVIOUS
<1>t. TypeOK /\ ReloadsAll /\ WritesOnce /\ Entries
  BY DEF EngineInv
<1>1. /\ pc = "commit" /\ todo = {} /\ pc' = "idle"
      /\ UNCHANGED <<db, cached, active, entered, size, todo, count, ref, ordered>>
  BY DEF Answer
<1>2. TypeOK'
  BY <1>t, <1>1 DEF TypeOK
<1>3. ReloadsAll' /\ WritesOnce' /\ Entries'
  BY <1>t, <1>1 DEF ReloadsAll, WritesOnce, Entries
<1>4. ASSUME ordered' PROVE InOrder' /\ LastWriter' /\ Stored'
  <2>1. InOrder /\ LastWriter /\ Stored
    BY <1>4, <1>1 DEF EngineInv
  <2>2. InOrder'
    BY <1>1 DEF InOrder
  <2>3. LastWriter'
    BY <2>1, <1>1 DEF LastWriter, Written
  <2>4. \A s \in Slots : db[s] = ref[s]
    BY <2>1, <1>1 DEF Stored, SetBack
  <2>5. db = ref
    BY <2>4, <1>t DEF TypeOK, Storage
  <2>6. Stored'
    BY <2>5, <1>1 DEF Stored
  <2> QED BY <2>2, <2>3, <2>6
<1> QED BY <1>2, <1>3, <1>4 DEF EngineInv

\* A crash among the commits of one transaction finds its values stored: it was
\* executed last, and nothing was set back.
LEMMA CrashKeeps == EngineInv /\ Crash => EngineInv'
<1> SUFFICES ASSUME EngineInv, Crash PROVE EngineInv'
  OBVIOUS
<1>t. TypeOK /\ ReloadsAll /\ WritesOnce /\ Entries
  BY DEF EngineInv
<1>1. /\ pc' = "idle" /\ todo' = {} /\ size' = 0
      /\ active' = [i \in Ids |-> {}] /\ entered' = {} /\ cached' = Unwritten
      /\ ordered' = (ordered /\ (pc = "commit" => Cardinality(entered) = 1))
      /\ UNCHANGED <<db, count, ref>>
  BY DEF Crash
<1>2. TypeOK'
  <2>1. cached' \in Storage
    BY <1>1 DEF Unwritten, Storage, Values
  <2>2. active' \in [Ids -> WriteSets]
    BY <1>1 DEF WriteSets
  <2>3. ordered' \in BOOLEAN /\ size' \in 0..MaxBatch
    BY <1>1, <1>t, BoundsAssumption DEF TypeOK
  <2> QED BY <1>t, <1>1, <2>1, <2>2, <2>3 DEF TypeOK
<1>3. ReloadsAll' /\ WritesOnce' /\ Entries'
  BY <1>1 DEF ReloadsAll, WritesOnce, Entries, Unwritten
<1>4. ASSUME ordered' PROVE InOrder' /\ LastWriter' /\ Stored'
  <2>o. ordered /\ Stored
    BY <1>4, <1>1 DEF EngineInv
  <2>1. InOrder' /\ LastWriter'
    BY <1>1 DEF InOrder, LastWriter
  <2>2. db = ref
    <3>1. CASE pc # "commit"
      BY <3>1, <2>o DEF Stored
    <3>2. CASE pc = "commit"
      <4>1. Cardinality(entered) = 1
        BY <3>2, <1>1, <1>4
      <4>2. IsFiniteSet(entered)
        <5>1. entered \subseteq 0 .. MaxBatch - 1
          BY <1>t DEF TypeOK, Ids
        <5>2. 0 \in Int /\ MaxBatch - 1 \in Int
          BY BoundsAssumption
        <5>3. IsFiniteSet(0 .. MaxBatch - 1)
          BY <5>2, FS_Interval
        <5> QED BY <5>1, <5>3, FS_Subset
      <4>3. \E x : entered = {x}
        BY <4>1, <4>2, FS_Singleton
      <4>4. \A s \in Slots : ~SetBack(s)
        BY <4>3, <1>t DEF SetBack, Entries
      <4>5. \A s \in Slots : db[s] = ref[s]
        BY <4>4, <3>2, <2>o DEF Stored
      <4> QED BY <4>5, <1>t DEF TypeOK, Storage
    <3> QED BY <3>1, <3>2
  <2>3. Stored'
    BY <2>2, <1>1 DEF Stored
  <2> QED BY <2>1, <2>3
<1> QED BY <1>2, <1>3, <1>4 DEF EngineInv

-----------------------------------------------------------------------------

LEMMA EngineStep == EngineInv /\ [Next]_vars => EngineInv'
<1> SUFFICES ASSUME EngineInv, [Next]_vars PROVE EngineInv'
  OBVIOUS
<1>1. CASE Submit
  BY <1>1, SubmitKeeps
<1>2. CASE StartValidation
  BY <1>2, StartValidationKeeps
<1>3. CASE Answer
  BY <1>3, AnswerKeeps
<1>4. CASE Crash
  BY <1>4, CrashKeeps
<1>5. CASE \E i \in Ids : Execute(i)
  BY <1>5, ExecuteKeeps
<1>6. CASE \E i \in Ids : ExecuteNothing(i)
  BY <1>6, ExecuteNothingKeeps
<1>7. CASE \E i \in Ids : ValidateAndCommit(i)
  BY <1>7, CommitKeeps
<1>8. CASE UNCHANGED vars
  BY <1>8 DEF vars, EngineInv, TypeOK, ReloadsAll, WritesOnce, Entries, InOrder, LastWriter,
    Stored, SetBack, Written
<1> QED BY <1>1, <1>2, <1>3, <1>4, <1>5, <1>6, <1>7, <1>8 DEF Next

\* Every variable of the engine keeps the type its Rust declaration gives it.
THEOREM EngineTypes == Spec => []TypeOK
<1>1. EngineInv => TypeOK
  BY DEF EngineInv
<1> QED BY EngineInitially, EngineStep, <1>1, PTL DEF Spec

\* Committing the write sets of a batch a second time, after they were stored when
\* each transaction returned, leaves RocksDB as if they had run one after the other:
\* for every batch that ran in the order of its ids, and with crashes among the
\* commits of one transaction.
THEOREM BatchesAreSerial == Spec => []Serializable
<1>1. EngineInv => Serializable
  BY DEF EngineInv, Stored, Serializable
<1> QED BY EngineInitially, EngineStep, <1>1, PTL DEF Spec

-----------------------------------------------------------------------------
(* A frame.                                                                 *)

Places == {"next", "same", "skipped", "target"}
Results == {"running", "stop", "return", "revert", "halt", "null", "abort"}

FrameInv == FrameTypeOK /\ StackLimited /\ OnlyTheseAbort

-----------------------------------------------------------------------------
(* Lemmas on operands.                                                     *)

\* An instruction takes a number of words; a call, and any that is not a source
\* or an end, takes at least one.
LEMMA TakesSome ==
  ASSUME NEW o \in Ops, NEW k \in Takes(o)
  PROVE  k \in Nat /\ (o \notin Sources \cup {"STOP", "JUMPDEST", "INVALID", "UNKNOWN"} => k > 0)
<1>1. CASE o \in Sources \cup {"STOP", "JUMPDEST", "INVALID", "UNKNOWN"}
  BY <1>1 DEF Takes, Sources
<1>2. CASE o \in {"ALU1", "POP", "JUMP", "MLOAD"}
  BY <1>2 DEF Takes, Sources
<1>3. CASE o \in {"ALU2", "JUMPI", "KECCAK256", "MSTORE", "MSTORE8", "SSTORE", "AUTH",
                  "RETURN", "REVERT"}
  BY <1>3 DEF Takes, Sources
<1>4. CASE o \in {"ALU3", "CALLDATACOPY", "CODECOPY", "RETURNDATACOPY", "MCOPY", "SS7_SEND",
                  "CREATE"}
  BY <1>4 DEF Takes, Sources
<1>5. CASE o \in {"EXTCODECOPY", "CREATE2", "DELEGATECALL", "STATICCALL"}
  BY <1>5 DEF Takes, Sources
<1>6. CASE o \in {"CALL", "CALLCODE", "AUTHCALL", "FFI_CALL"}
  BY <1>6 DEF Takes, Sources
<1>7. CASE o \in {"DUP", "SWAP", "LOG"}
  BY <1>7, LimitsAssumption DEF Takes, Sources
<1> QED BY <1>1, <1>2, <1>3, <1>4, <1>5, <1>6, <1>7 DEF Ops, Alu, Copies, Calls

LEMMA UsizeIsNat == ASSUME NEW w \in Operands PROVE AsUsize(w) \in Nat
  BY LimitsAssumption, WordsAssumption DEF AsUsize

\* Growing never shrinks the memory nor goes past its limit.
LEMMA GrownWithin ==
  ASSUME mem \in StartMem .. MaxMem, NEW offset \in Nat, NEW amount \in Nat
  PROVE  Grown(offset, amount) \in StartMem .. MaxMem
  BY LimitsAssumption DEF Grown

-----------------------------------------------------------------------------
(* The three ways an instruction ends.                                     *)

LEMMA EndKeeps ==
  ASSUME FrameInv, NEW o \in Ops \cup {"none"}, NEW r \in Results \ {"running"},
         r = "abort" => o \in Unchecked, End(o, r)
  PROVE  FrameInv'
  BY DEF FrameInv, FrameTypeOK, StackLimited, OnlyTheseAbort, End, Results

LEMMA FinishKeeps ==
  ASSUME FrameInv, NEW o \in Ops, NEW d \in Nat, NEW where \in Places, Finish(o, d, where),
         mem' \in StartMem .. MaxMem, auth' \in BOOLEAN
  PROVE  FrameInv'
<1>1. FrameTypeOK'
  BY DEF FrameInv, FrameTypeOK, Finish, Places
<1>2. StackLimited' /\ OnlyTheseAbort'
  BY LimitsAssumption DEF StackLimited, OnlyTheseAbort, Finish, Overflows
<1> QED BY <1>1, <1>2 DEF FrameInv

LEMMA ContinueKeeps ==
  ASSUME FrameInv, result = "running", NEW o \in Ops, NEW d \in Nat, d <= depth,
         NEW where \in Places, Continue(o, d, where),
         mem' \in StartMem .. MaxMem, auth' \in BOOLEAN
  PROVE  FrameInv'
<1>1. FrameTypeOK'
  BY DEF FrameInv, FrameTypeOK, Continue, Places
<1>2. StackLimited' /\ OnlyTheseAbort'
  BY LimitsAssumption DEF FrameInv, FrameTypeOK, StackLimited, OnlyTheseAbort, Continue
<1> QED BY <1>1, <1>2 DEF FrameInv

\* what an instruction that takes its operands may rely on
LEMMA TakenFacts ==
  ASSUME FrameInv, NEW o \in Ops, NEW k \in Takes(o), Taken(o, k)
  PROVE  /\ result = "running" /\ k \in Nat /\ depth \in Nat
         /\ depth - k \in Nat /\ depth - k + 1 \in Nat
         /\ mem \in StartMem .. MaxMem /\ auth \in BOOLEAN
<1>1. k \in Nat
  BY TakesSome
<1>2. depth \in Nat /\ mem \in StartMem .. MaxMem /\ auth \in BOOLEAN
  BY DEF FrameInv, FrameTypeOK
<1>3. result = "running" /\ depth >= k
  BY DEF Taken, Fetched
<1> QED BY <1>1, <1>2, <1>3

-----------------------------------------------------------------------------
(* Every instruction keeps the invariant.                                  *)

LEMMA PlainKeeps ==
  ASSUME FrameInv,
         Refused \/ (\E o \in Ops : Underflow(o) \/ Source(o)) \/ Authorise \/ Phone
           \/ Ss7Send \/ Stop \/ Invalid \/ Unknown \/ Return \/ Revert \/ RunOff
  PROVE  FrameInv'
<1>1. CASE Refused
  BY <1>1, EndKeeps DEF Refused, Results
<1>2. ASSUME NEW o \in Ops, Underflow(o) PROVE FrameInv'
  BY <1>2, EndKeeps DEF Underflow, Results
<1>3. ASSUME NEW o \in Ops, Source(o) PROVE FrameInv'
  <2>1. o \in Sources /\ Taken(o, 0) /\ Finish(o, depth + 1, "next") /\ UNCHANGED <<mem, auth>>
    BY <1>3 DEF Source
  <2>2. depth + 1 \in Nat /\ mem' \in StartMem .. MaxMem /\ auth' \in BOOLEAN
    BY <2>1 DEF FrameInv, FrameTypeOK
  <2> QED BY <2>1, <2>2, FinishKeeps DEF Places
<1>4. CASE Authorise
  <2>1. Taken("AUTH", 2) /\ auth' \in BOOLEAN /\ Finish("AUTH", depth - 1, "next") /\ mem' = mem
    BY <1>4 DEF Authorise
  <2>2. depth - 1 \in Nat /\ mem' \in StartMem .. MaxMem
    BY <2>1 DEF FrameInv, FrameTypeOK, Taken
  <2> QED BY <2>1, <2>2, FinishKeeps DEF Places, Ops
<1>5. CASE Phone
  <2>1. Taken("FFI_CALL", 7)
    BY <1>5 DEF Phone
  <2>2. \/ End("FFI_CALL", "abort")
        \/ Finish("FFI_CALL", depth - 6, "next") /\ UNCHANGED <<mem, auth>>
    BY <1>5 DEF Phone
  <2>3. depth - 6 \in Nat /\ mem \in StartMem .. MaxMem /\ auth \in BOOLEAN
    BY <2>1 DEF FrameInv, FrameTypeOK, Taken
  <2>4. CASE End("FFI_CALL", "abort")
    BY <2>4, EndKeeps DEF Results, Ops, Unchecked
  <2>5. CASE Finish("FFI_CALL", depth - 6, "next") /\ UNCHANGED <<mem, auth>>
    BY <2>3, <2>5, FinishKeeps DEF Places, Ops
  <2> QED BY <2>2, <2>4, <2>5
<1>6. CASE Ss7Send
  <2>1. Taken("SS7_SEND", 3)
    BY <1>6 DEF Ss7Send
  <2>2. \/ End("SS7_SEND", "abort")
        \/ Finish("SS7_SEND", depth - 2, "next") /\ UNCHANGED <<mem, auth>>
    BY <1>6 DEF Ss7Send
  <2>3. depth - 2 \in Nat /\ mem \in StartMem .. MaxMem /\ auth \in BOOLEAN
    BY <2>1 DEF FrameInv, FrameTypeOK, Taken
  <2>4. CASE End("SS7_SEND", "abort")
    BY <2>4, EndKeeps DEF Results, Ops, Unchecked
  <2>5. CASE Finish("SS7_SEND", depth - 2, "next") /\ UNCHANGED <<mem, auth>>
    BY <2>3, <2>5, FinishKeeps DEF Places, Ops
  <2> QED BY <2>2, <2>4, <2>5
<1>7. CASE Stop \/ Invalid \/ Unknown
  BY <1>7, EndKeeps DEF Stop, Invalid, Unknown, Results, Ops
<1>8. CASE Return
  <2>1. End("RETURN", "abort") \/ End("RETURN", "halt") \/ End("RETURN", "return")
    BY <1>8 DEF Return
  <2> QED BY <2>1, EndKeeps DEF Results, Ops, Unchecked
<1>9. CASE Revert
  <2>1. \E r \in {"abort", "revert"} : End("REVERT", r)
    BY <1>9 DEF Revert
  <2> QED BY <2>1, EndKeeps DEF Results, Ops, Unchecked
<1>10. CASE RunOff
  <2>1. End(op, "null") /\ op \in Ops \cup {"none"}
    BY <1>10 DEF RunOff, FrameInv, FrameTypeOK
  <2> QED BY <2>1, EndKeeps DEF Results
<1> QED BY <1>1, <1>2, <1>3, <1>4, <1>5, <1>6, <1>7, <1>8, <1>9, <1>10

LEMMA StackKeeps ==
  ASSUME FrameInv, NEW o \in Ops, NEW k \in Takes(o),
         Compute(o, k) \/ Discard(o, k) \/ Jump(o, k) \/ (o = "DUP" /\ Dup(k))
           \/ (o = "SWAP" /\ Swap(k))
  PROVE  FrameInv'
<1>1. Taken(o, k)
  BY DEF Compute, Discard, Jump, Dup, Swap
<1>2. depth - k \in Nat /\ depth - k + 1 \in Nat /\ depth \in Nat /\ depth + 1 \in Nat
      /\ mem \in StartMem .. MaxMem /\ auth \in BOOLEAN
  BY <1>1, TakenFacts
<1>3. CASE Compute(o, k)
  <2>1. CASE Finish(o, depth - k + 1, "next") /\ UNCHANGED <<mem, auth>>
    BY <1>2, <2>1, FinishKeeps DEF Places
  <2>2. CASE o = "ALU2" /\ End(o, "abort")
    BY <2>2, EndKeeps DEF Results, Unchecked
  <2> QED BY <1>3, <2>1, <2>2 DEF Compute
<1>4. CASE Discard(o, k)
  BY <1>2, <1>4, FinishKeeps DEF Places, Discard
<1>5. CASE Jump(o, k)
  BY <1>2, <1>5, FinishKeeps DEF Places, Jump
<1>6. CASE o = "DUP" /\ Dup(k)
  BY <1>2, <1>6, FinishKeeps DEF Places, Dup
<1>7. CASE o = "SWAP" /\ Swap(k)
  BY <1>2, <1>7, FinishKeeps DEF Places, Swap
<1> QED BY <1>3, <1>4, <1>5, <1>6, <1>7

LEMMA AccessKeeps ==
  ASSUME FrameInv, NEW o \in Ops, NEW k \in Takes(o), NEW leaves \in Nat,
         NEW offset \in Nat, NEW amount \in Nat, Access(o, k, leaves, offset, amount)
  PROVE  FrameInv'
<1>1. Taken(o, k)
  BY DEF Access
<1>2. depth - k \in Nat /\ mem \in StartMem .. MaxMem /\ auth \in BOOLEAN
  BY <1>1, TakenFacts
<1>3. CASE End(o, "halt")
  BY <1>3, EndKeeps DEF Results
<1>4. CASE mem' = Grown(offset, amount) /\ Finish(o, depth - k + leaves, "next") /\ UNCHANGED auth
  <2>1. mem' \in StartMem .. MaxMem /\ auth' \in BOOLEAN
    BY <1>2, <1>4, GrownWithin
  <2>2. depth - k + leaves \in Nat
    BY <1>2
  <2> QED BY <1>4, <2>1, <2>2, FinishKeeps DEF Places
<1> QED BY <1>3, <1>4 DEF Access

LEMMA MemoryKeeps == ASSUME FrameInv, Memory PROVE FrameInv'
<1>1. PICK offset, amount \in Operands :
        LET from == AsUsize(offset)
            length == AsUsize(amount)
        IN \/ Access("KECCAK256", 2, 1, from, length)
           \/ Access("MLOAD", 1, 1, from, WordSize)
           \/ Access("MSTORE", 2, 0, from, WordSize)
           \/ Access("MSTORE8", 2, 0, from, 1)
           \/ \E k \in Takes("LOG") : Access("LOG", k, 0, from, length)
           \/ Access("CREATE", 3, 1, from, length)
           \/ Access("CREATE2", 4, 1, from, length)
  BY DEF Memory
<1>2. AsUsize(offset) \in Nat /\ AsUsize(amount) \in Nat /\ WordSize \in Nat
  BY UsizeIsNat, LimitsAssumption
<1>3. \E o \in Ops : \E k \in Takes(o) : \E leaves, offs, sz \in Nat :
        Access(o, k, leaves, offs, sz)
  <2>1. 2 \in Takes("KECCAK256") /\ 1 \in Takes("MLOAD") /\ 2 \in Takes("MSTORE")
        /\ 2 \in Takes("MSTORE8") /\ 3 \in Takes("CREATE") /\ 4 \in Takes("CREATE2")
    BY DEF Takes, Sources
  <2>2. {"KECCAK256", "MLOAD", "MSTORE", "MSTORE8", "LOG", "CREATE", "CREATE2"} \subseteq Ops
    BY DEF Ops
  <2> QED BY <1>1, <1>2, <2>1, <2>2
<1> QED BY <1>3, AccessKeeps

LEMMA CopyKeeps == ASSUME FrameInv, NEW o \in Ops, NEW k \in Takes(o), Copy(o, k) PROVE FrameInv'
<1>1. PICK to, from, amount \in Operands :
       \/ Access(o, k, 0, AsUsize(to), AsUsize(amount))
       \/ o \in Copies /\ End(o, "abort")
  BY DEF Copy
<1>2. CASE Access(o, k, 0, AsUsize(to), AsUsize(amount))
  BY <1>2, UsizeIsNat, AccessKeeps
<1>3. CASE o \in Copies /\ End(o, "abort")
  BY <1>3, EndKeeps DEF Results, Unchecked
<1> QED BY <1>1, <1>2, <1>3

LEMMA McopyKeeps == ASSUME FrameInv, Mcopy PROVE FrameInv'
<1>1. PICK length, from, to \in Operands :
       LET l == AsUsize(length)
           far == l + (IF AsUsize(from) > AsUsize(to) THEN AsUsize(from) ELSE AsUsize(to))
       IN IF l = 0 THEN Continue("MCOPY", depth - 3, "same") /\ UNCHANGED <<mem, auth>>
          ELSE IF ~Fits(far, 0) THEN End("MCOPY", "halt")
          ELSE /\ mem' = Grown(far, 0) /\ Finish("MCOPY", depth - 3, "next")
               /\ UNCHANGED auth
  BY DEF Mcopy
<1> DEFINE far == AsUsize(length) + (IF AsUsize(from) > AsUsize(to) THEN AsUsize(from)
                                     ELSE AsUsize(to))
<1>2. far \in Nat
  BY UsizeIsNat
<1>3. \/ Continue("MCOPY", depth - 3, "same") /\ UNCHANGED <<mem, auth>>
      \/ End("MCOPY", "halt")
      \/ mem' = Grown(far, 0) /\ Finish("MCOPY", depth - 3, "next") /\ UNCHANGED auth
  BY <1>1
<1> HIDE DEF far
<1>4. result = "running" /\ depth \in Nat /\ depth - 3 \in Nat
      /\ mem \in StartMem .. MaxMem /\ auth \in BOOLEAN
  BY DEF Mcopy, Taken, Fetched, FrameInv, FrameTypeOK
<1>5. "MCOPY" \in Ops
  BY DEF Ops
<1>6. CASE Continue("MCOPY", depth - 3, "same") /\ UNCHANGED <<mem, auth>>
  <2>1. depth - 3 <= depth
    BY <1>4
  <2> QED BY <1>4, <1>5, <1>6, <2>1, ContinueKeeps DEF Places
<1>7. CASE End("MCOPY", "halt")
  BY <1>5, <1>7, EndKeeps DEF Results
<1>8. CASE mem' = Grown(far, 0) /\ Finish("MCOPY", depth - 3, "next") /\ UNCHANGED auth
  <2>1. mem' \in StartMem .. MaxMem
    BY <1>2, <1>4, <1>8, GrownWithin
  <2> QED BY <1>4, <1>5, <1>8, <2>1, FinishKeeps DEF Places
<1> QED BY <1>3, <1>6, <1>7, <1>8

LEMMA CallKeeps ==
  ASSUME FrameInv, NEW o \in Ops, NEW k \in Takes(o),
         NotCalled(o, k) \/ InputRefused(o, k) \/ Returned(o, k) \/ OutputRefused(o, k)
  PROVE  FrameInv'
<1>1. Taken(o, k)
  BY DEF NotCalled, InputRefused, Returned, OutputRefused
<1>2. o \in Calls
  BY DEF NotCalled, InputRefused, Returned, OutputRefused, Calls
<1>3. result = "running" /\ k \in Nat /\ depth \in Nat /\ depth - k + 1 \in Nat
      /\ mem \in StartMem .. MaxMem /\ auth \in BOOLEAN
  BY <1>1, TakenFacts
<1>4. depth - k + 1 <= depth
  <2>1. k > 0
    BY <1>2, TakesSome DEF Calls, Sources
  <2> QED BY <1>3, <2>1
<1>5. CASE NotCalled(o, k)
  <2>1. mem' \in StartMem .. MaxMem
    BY <1>3, <1>5, UsizeIsNat, GrownWithin DEF NotCalled
  <2>2. Continue(o, depth - k + 1, "next") /\ auth' = auth
    BY <1>5 DEF NotCalled
  <2> QED BY <1>3, <1>4, <2>1, <2>2, ContinueKeeps DEF Places
<1>6. CASE InputRefused(o, k)
  <2>1. CASE Continue(o, depth - k + 1, "next") /\ UNCHANGED <<mem, auth>>
    BY <1>3, <1>4, <2>1, ContinueKeeps DEF Places
  <2>2. CASE End(o, "halt")
    BY <2>2, EndKeeps DEF Results
  <2> QED BY <1>6, <2>1, <2>2 DEF InputRefused
<1>7. CASE Returned(o, k)
  <2>1. mem' \in StartMem .. MaxMem
    BY <1>3, <1>7, UsizeIsNat, GrownWithin DEF Returned
  <2>2. Finish(o, depth - k + 1, IF o = "STATICCALL" THEN "skipped" ELSE "next") /\ auth' = auth
    BY <1>7 DEF Returned
  <2> QED BY <1>3, <2>1, <2>2, FinishKeeps DEF Places
<1>8. CASE OutputRefused(o, k)
  BY <1>8, EndKeeps DEF OutputRefused, Results
<1> QED BY <1>5, <1>6, <1>7, <1>8

LEMMA OutsideKeeps ==
  ASSUME FrameInv, ClearsOutside \/ CopiesOutside \/ NotAuthorised PROVE FrameInv'
<1>1. CASE ClearsOutside
  BY <1>1, EndKeeps DEF ClearsOutside, Results, Ops, Calls, Unchecked
<1>2. CASE CopiesOutside
  <2>1. End("STATICCALL", "abort")
    BY <1>2 DEF CopiesOutside
  <2> QED BY <2>1, EndKeeps DEF Results, Ops, Calls, Unchecked
<1>3. CASE NotAuthorised
  <2>1. Continue("AUTHCALL", depth - 6, "same") /\ UNCHANGED <<mem, auth>>
    BY <1>3 DEF NotAuthorised
  <2>2. result = "running" /\ depth - 6 \in Nat /\ depth - 6 <= depth
        /\ mem \in StartMem .. MaxMem /\ auth \in BOOLEAN
    BY <1>3 DEF NotAuthorised, Taken, Fetched, FrameInv, FrameTypeOK
  <2> QED BY <2>1, <2>2, ContinueKeeps DEF Places, Ops, Calls
<1> QED BY <1>1, <1>2, <1>3

-----------------------------------------------------------------------------

LEMMA FrameInitially == FrameInit => FrameInv
<1> SUFFICES ASSUME FrameInit PROVE FrameInv
  OBVIOUS
<1>1. FrameTypeOK
  <2>1. StartMem \in StartMem .. MaxMem
    BY LimitsAssumption
  <2> QED BY <2>1 DEF FrameInit, FrameTypeOK
<1>2. StackLimited /\ OnlyTheseAbort
  BY LimitsAssumption DEF FrameInit, StackLimited, OnlyTheseAbort
<1> QED BY <1>1, <1>2 DEF FrameInv

LEMMA FrameStep == FrameInv /\ [Step]_frameVars => FrameInv'
<1> SUFFICES ASSUME FrameInv, [Step]_frameVars PROVE FrameInv'
  OBVIOUS
<1>1. CASE \/ Refused \/ (\E o \in Ops : Underflow(o) \/ Source(o)) \/ Authorise \/ Phone
           \/ Ss7Send \/ Stop \/ Invalid \/ Unknown \/ Return \/ Revert \/ RunOff
  BY <1>1, PlainKeeps
<1>2. ASSUME NEW o \in Ops, NEW k \in Takes(o),
             Compute(o, k) \/ Discard(o, k) \/ Jump(o, k) PROVE FrameInv'
  BY <1>2, StackKeeps
<1>3. CASE (\E k \in Takes("DUP") : Dup(k)) \/ (\E k \in Takes("SWAP") : Swap(k))
  BY <1>3, StackKeeps DEF Ops
<1>4. ASSUME NEW o \in Ops, NEW k \in Takes(o), Copy(o, k) PROVE FrameInv'
  BY <1>4, CopyKeeps
<1>5. ASSUME NEW o \in Ops, NEW k \in Takes(o),
             NotCalled(o, k) \/ InputRefused(o, k) \/ Returned(o, k) \/ OutputRefused(o, k)
      PROVE  FrameInv'
  BY <1>5, CallKeeps
<1>6. CASE Memory \/ Mcopy
  BY <1>6, MemoryKeeps, McopyKeeps
<1>7. CASE ClearsOutside \/ CopiesOutside \/ NotAuthorised
  BY <1>7, OutsideKeeps
<1>8. CASE UNCHANGED frameVars
  BY <1>8 DEF frameVars, FrameInv, FrameTypeOK, StackLimited, OnlyTheseAbort
<1> QED BY <1>1, <1>2, <1>3, <1>4, <1>5, <1>6, <1>7, <1>8 DEF Step

\* Every variable of a frame keeps its type, and the memory its bounds.
THEOREM FrameTypes == FrameSpec => []FrameTypeOK
<1>1. FrameInv => FrameTypeOK
  BY DEF FrameInv
<1> QED BY FrameInitially, FrameStep, <1>1, PTL DEF FrameSpec

\* No instruction finds more words on the stack than its limit, although some turns
\* of the loop skip the check: these take more than they leave.
THEOREM StackStaysLimited == FrameSpec => []StackLimited
<1>1. FrameInv => StackLimited
  BY DEF FrameInv
<1> QED BY FrameInitially, FrameStep, <1>1, PTL DEF FrameSpec

\* In the release build a program brings the process down with the listed instructions
\* and no other.
THEOREM AbortsAreKnown == FrameSpec => []OnlyTheseAbort
<1>1. FrameInv => OnlyTheseAbort
  BY DEF FrameInv
<1> QED BY FrameInitially, FrameStep, <1>1, PTL DEF FrameSpec

-----------------------------------------------------------------------------
(* Tables that a function makes of its own earlier values.                 *)

\* f is such a table of n + 1 values
Iterates(f, n, base, step) ==
  \A k \in 0 .. n : f[k] = IF k = 0 THEN base ELSE step[<<k, f[k - 1]>>]

\* What a step makes of each value and its place has a table of any length.
LEMMA Recursion ==
  ASSUME NEW V, NEW n \in Nat, NEW base \in V, NEW step \in [Nat \X V -> V]
  PROVE  \E f \in [0 .. n -> V] : Iterates(f, n, base, step)
<1> DEFINE Upto(m) == \E f \in [0 .. m -> V] :
             \A k \in 0 .. m : f[k] = IF k = 0 THEN base ELSE step[<<k, f[k - 1]>>]
           Bad == {m \in Nat : ~Upto(m)}
<1>1. SUFFICES Bad = {}
  BY DEF Iterates
<1>2. SUFFICES ASSUME Bad # {} PROVE FALSE
  OBVIOUS
<1>3. PICK m \in Bad : \A y \in Bad : ~(<<y, m>> \in OpToRel(<, Nat))
  BY <1>2, NatLessThanWellFounded, WFMin
<1>4. m \in Nat /\ ~Upto(m) /\ \A y \in Nat : y < m => Upto(y)
  BY <1>3 DEF OpToRel
<1>5. m # 0
  <2> SUFFICES ASSUME m = 0 PROVE FALSE
    OBVIOUS
  <2> DEFINE f == [k \in 0 .. 0 |-> base]
  <2>1. f \in [0 .. 0 -> V]
    OBVIOUS
  <2>2. \A k \in 0 .. 0 : f[k] = IF k = 0 THEN base ELSE step[<<k, f[k - 1]>>]
    OBVIOUS
  <2> QED BY <2>1, <2>2, <1>4
<1>6. PICK f \in [0 .. m - 1 -> V] :
        \A k \in 0 .. m - 1 : f[k] = IF k = 0 THEN base ELSE step[<<k, f[k - 1]>>]
  <2>1. m - 1 \in Nat /\ m - 1 < m
    BY <1>4, <1>5
  <2> QED BY <2>1, <1>4
<1> DEFINE g == [k \in 0 .. m |-> IF k = m THEN step[<<m, f[m - 1]>>] ELSE f[k]]
<1>7. f[m - 1] \in V /\ step[<<m, f[m - 1]>>] \in V
  BY <1>4, <1>5, <1>6
<1>8. g \in [0 .. m -> V]
  BY <1>4, <1>6, <1>7
<1>9. ASSUME NEW k \in 0 .. m PROVE g[k] = IF k = 0 THEN base ELSE step[<<k, g[k - 1]>>]
  <2>1. CASE k = m
    <3>1. g[k] = step[<<m, f[m - 1]>>]
      BY <2>1
    <3>2. k # 0 /\ k - 1 \in 0 .. m /\ k - 1 # m
      BY <2>1, <1>4, <1>5
    <3>3. g[k - 1] = f[m - 1]
      BY <2>1, <3>2
    <3> QED BY <2>1, <3>1, <3>2, <3>3
  <2>2. CASE k # m
    <3>1. k \in 0 .. m - 1 /\ g[k] = f[k]
      BY <2>2, <1>4
    <3>2. f[k] = IF k = 0 THEN base ELSE step[<<k, f[k - 1]>>]
      BY <1>6, <3>1
    <3>3. k # 0 => g[k - 1] = f[k - 1]
      BY <2>2, <1>4
    <3> QED BY <3>1, <3>2, <3>3
  <2> QED BY <2>1, <2>2
<1> QED BY <1>4, <1>8, <1>9

\* A function that grows with every step is largest at its last argument.
LEMMA GrowsToTheEnd ==
  ASSUME NEW n \in Nat, NEW g, \A k \in 0 .. n : g[k] \in Nat,
         \A k \in 1 .. n : g[k - 1] <= g[k], NEW i \in 0 .. n
  PROVE  g[i] <= g[n]
<1> DEFINE Bad == {d \in Nat : d <= n /\ ~(g[n - d] <= g[n])}
<1>1. Bad = {}
  <2> SUFFICES ASSUME Bad # {} PROVE FALSE
    OBVIOUS
  <2>1. PICK d \in Bad : \A e \in Bad : ~(<<e, d>> \in OpToRel(<, Nat))
    BY NatLessThanWellFounded, WFMin
  <2>2. d \in Nat /\ d <= n /\ ~(g[n - d] <= g[n])
        /\ \A e \in Nat : e < d /\ e <= n => g[n - e] <= g[n]
    BY <2>1 DEF OpToRel
  <2>3. d # 0
    BY <2>2
  <2>4. d - 1 \in Nat /\ d - 1 < d /\ d - 1 <= n
    BY <2>2, <2>3
  <2>5. g[n - (d - 1)] <= g[n]
    BY <2>2, <2>4
  <2>6. n - (d - 1) \in 1 .. n /\ (n - (d - 1)) - 1 = n - d /\ n - d \in 0 .. n
    BY <2>2, <2>3
  <2>7. g[n - d] <= g[n - (d - 1)]
    BY <2>6
  <2>8. g[n - d] \in Nat /\ g[n - (d - 1)] \in Nat /\ g[n] \in Nat
    BY <2>6
  <2> QED BY <2>2, <2>5, <2>7, <2>8
<1>2. n - i \in Nat /\ n - i <= n /\ n - (n - i) = i
  OBVIOUS
<1> QED BY <1>1, <1>2

\* What is a number at first and stays one is one throughout.
LEMMA StaysNumber ==
  ASSUME NEW n \in Nat, NEW g, g[0] \in Nat, \A k \in 1 .. n : g[k - 1] \in Nat => g[k] \in Nat,
         NEW i \in 0 .. n
  PROVE  g[i] \in Nat
<1> DEFINE Bad == {k \in Nat : k <= n /\ g[k] \notin Nat}
<1>1. Bad = {}
  <2> SUFFICES ASSUME Bad # {} PROVE FALSE
    OBVIOUS
  <2>1. PICK k \in Bad : \A e \in Bad : ~(<<e, k>> \in OpToRel(<, Nat))
    BY NatLessThanWellFounded, WFMin
  <2>2. k \in Nat /\ k <= n /\ g[k] \notin Nat
        /\ \A e \in Nat : e < k /\ e <= n => g[e] \in Nat
    BY <2>1 DEF OpToRel
  <2>3. k \in 1 .. n
    BY <2>2
  <2>4. k - 1 \in Nat /\ k - 1 < k /\ k - 1 <= n
    BY <2>2, <2>3
  <2> QED BY <2>2, <2>3, <2>4
<1> QED BY <1>1

-----------------------------------------------------------------------------
(* Lemmas on programs.                                                     *)

\* An instruction is the second half of a lddw if the one before it is a lddw
\* that is not itself such a half.
LEMMA HalfFollows ==
  ASSUME NEW p \in Seq(Code!Insns), Len(p) > 0, NEW i \in 0 .. Len(p) - 1
  PROVE  i \in Code!Halves(p) <=>
           i > 0 /\ Code!At(p, i - 1).opc = "lddw" /\ i - 1 \notin Code!Halves(p)
<1> DEFINE n == Len(p) - 1
           step == [x \in Nat \X BOOLEAN |-> Code!At(p, x[1] - 1).opc = "lddw" /\ ~x[2]]
           Def(f) == f = [j \in 0 .. Len(p) - 1 |->
                            j > 0 /\ Code!At(p, j - 1).opc = "lddw" /\ ~f[j - 1]]
           half == CHOOSE f : Def(f)
<1>1. n \in Nat
  OBVIOUS
<1>2. step \in [Nat \X BOOLEAN -> BOOLEAN]
  OBVIOUS
<1> DEFINE B == BOOLEAN
           no == FALSE
<1>n. no \in B /\ step \in [Nat \X B -> B]
  BY <1>2
<1> HIDE DEF step, n, B, no
<1>3. PICK f \in [0 .. n -> B] : Iterates(f, n, no, step)
  BY <1>1, <1>n, Recursion, Zenon
<1>4. ASSUME NEW k \in 0 .. n
      PROVE  f[k] = (k > 0 /\ Code!At(p, k - 1).opc = "lddw" /\ ~f[k - 1])
  <2>1. f[k] = IF k = 0 THEN no ELSE step[<<k, f[k - 1]>>]
    BY <1>3 DEF Iterates
  <2>2. CASE k = 0
    <3>1. f[k] = FALSE
      BY <2>1, <2>2 DEF no
    <3>2. ~(k > 0)
      BY <2>2
    <3> QED BY <3>1, <3>2, Zenon
  <2>3. CASE k # 0
    <3>1. k > 0 /\ k \in Nat /\ f[k - 1] \in BOOLEAN
      BY <1>1, <1>3, <2>3 DEF B
    <3>2. step[<<k, f[k - 1]>>] = (Code!At(p, k - 1).opc = "lddw" /\ ~f[k - 1])
      BY <3>1 DEF step
    <3>3. f[k] = step[<<k, f[k - 1]>>]
      BY <2>1, <2>3
    <3> QED BY <3>1, <3>2, <3>3, Zenon
  <2> QED BY <2>2, <2>3
<1>5. f = [j \in 0 .. n |-> f[j]]
  BY <1>3
<1>6. Def(f)
  BY <1>4, <1>5 DEF n
<1>7. Def(half)
  BY <1>6
<1>8. Code!Halves(p) = {j \in 0 .. Len(p) - 1 : half[j]}
  BY DEF Code!Halves
<1> HIDE DEF half
<1>9. ASSUME NEW k \in 0 .. n
      PROVE  half[k] = (k > 0 /\ Code!At(p, k - 1).opc = "lddw" /\ ~half[k - 1])
  BY <1>7, <1>9 DEF n
<1>10. i > 0 => i - 1 \in 0 .. n
  BY <1>1 DEF n
<1> QED BY <1>8, <1>9, <1>10 DEF n
\* The code of the first instructions takes no more space than that of all.
LEMMA SpaceGrows ==
  ASSUME NEW p \in Seq(Code!Insns), Len(p) > 0, NEW i \in 0 .. Len(p) - 1
  PROVE  /\ Code!SpaceTo(p, i) \in Nat /\ Code!SpaceTo(p, Len(p) - 1) \in Nat
         /\ Code!SpaceTo(p, i) <= Code!SpaceTo(p, Len(p) - 1)
<1> DEFINE n == Len(p)
           Own(k) == IF k - 1 \in Code!Halves(p) THEN 0 ELSE Code!Space(Code!At(p, k - 1).opc)
           step == [x \in Nat \X Nat |-> x[2] + Own(x[1])]
           Def(f) == f = [k \in 0 .. Len(p) |-> IF k = 0 THEN 0 ELSE f[k - 1] + Own(k)]
           sum == CHOOSE f : Def(f)
<1>1. n \in Nat /\ n > 0 /\ n = Len(p)
  OBVIOUS
<1>2. \A k : Own(k) \in Nat
  BY DEF Code!Space
<1>3. /\ Code!SpaceTo(p, i) = sum[i + 1]
      /\ Code!SpaceTo(p, Len(p) - 1) = sum[(Len(p) - 1) + 1]
  BY DEF Code!SpaceTo
<1> HIDE DEF n, Own
<1>4. step \in [Nat \X Nat -> Nat]
  BY <1>2
<1> HIDE DEF step
<1>5. PICK f \in [0 .. n -> Nat] : Iterates(f, n, 0, step)
  BY <1>1, <1>4, Recursion
<1>6. ASSUME NEW k \in 0 .. n PROVE f[k] = IF k = 0 THEN 0 ELSE f[k - 1] + Own(k)
  <2>1. f[k] = IF k = 0 THEN 0 ELSE step[<<k, f[k - 1]>>]
    BY <1>5 DEF Iterates
  <2>2. k # 0 => k \in Nat /\ f[k - 1] \in Nat
    BY <1>1, <1>5
  <2>3. k # 0 => step[<<k, f[k - 1]>>] = f[k - 1] + Own(k)
    BY <2>2 DEF step
  <2> QED BY <2>1, <2>3
<1>7. f = [k \in 0 .. n |-> f[k]]
  BY <1>5
<1>8. Def(f)
  BY <1>6, <1>7 DEF n
<1>9. Def(sum)
  BY <1>8
<1> HIDE DEF sum
<1>10. ASSUME NEW k \in 0 .. n PROVE sum[k] = IF k = 0 THEN 0 ELSE sum[k - 1] + Own(k)
  BY <1>9, <1>10 DEF n
<1>11. sum[0] \in Nat /\ \A k \in 1 .. n : sum[k - 1] \in Nat => sum[k] \in Nat
  BY <1>1, <1>2, <1>10
<1>12. \A k \in 0 .. n : sum[k] \in Nat
  BY <1>1, <1>11, StaysNumber
<1>13. ASSUME NEW k \in 1 .. n PROVE sum[k - 1] <= sum[k]
  <2>1. k - 1 \in 0 .. n /\ k \in 0 .. n /\ k # 0
    BY <1>1
  <2>2. sum[k] = sum[k - 1] + Own(k)
    BY <2>1, <1>10
  <2>3. sum[k - 1] \in Nat /\ Own(k) \in Nat
    BY <2>1, <1>2, <1>12
  <2> QED BY <2>2, <2>3
<1>14. i + 1 \in 0 .. n /\ (Len(p) - 1) + 1 = n
  BY <1>1
<1>15. \A k \in 1 .. n : sum[k - 1] <= sum[k]
  BY <1>13
<1>16. n \in 0 .. n
  BY <1>1
<1>17. sum[i + 1] \in Nat /\ sum[n] \in Nat
  BY <1>12, <1>14, <1>16
<1>18. sum[i + 1] <= sum[n]
  BY <1>1, <1>12, <1>14, <1>15, GrowsToTheEnd
<1> QED BY <1>3, <1>14, <1>17, <1>18

Opcodes ==
  {"alu", "access", "lddw", "zero", "other", "helper", "nohelper", "ja", "jcc", "local", "exit"}

\* a program a machine may hold
Held(p) == p \in Seq(Code!Insns) /\ Len(p) \in 1 .. MaxInsns /\ Code!Accepted(p)

\* What an instruction of a program is.
LEMMA InsnFields ==
  ASSUME NEW p \in Seq(Code!Insns), NEW i \in 0 .. Len(p) - 1
  PROVE  /\ i + 1 \in 1 .. Len(p) /\ Code!At(p, i) \in Code!Insns
         /\ Code!At(p, i).opc \in Opcodes /\ Code!At(p, i).off \in Int
         /\ Code!Target(p, i) \in Int
<1>1. i + 1 \in 1 .. Len(p)
  OBVIOUS
<1>2. Code!At(p, i) \in Code!Insns
  BY <1>1 DEF Code!At
<1>3. ASSUME NEW x \in Code!Insns PROVE x.opc \in Opcodes /\ x.off \in Int
  BY ProgramsAssumption DEF Code!Insns, Opcodes
<1> QED BY <1>1, <1>2, <1>3 DEF Code!Target

\* The verifier lets no program end in the middle of a lddw, and in none it accepts
\* is the second half of one anything else.
LEMMA HalvesAreZero ==
  ASSUME NEW p, Held(p)
  PROVE  /\ Code!Halves(p) \subseteq 0 .. Len(p) - 1
         /\ \A i \in Code!Halves(p) : Code!At(p, i).opc = "zero"
         /\ 0 \in Code!Visited(p) /\ Len(p) - 1 \in Code!Visited(p)
         /\ Code!At(p, Len(p) - 1) = Code!Last(p)
<1>1. p \in Seq(Code!Insns) /\ Len(p) > 0 /\ Len(p) \in Nat
  BY DEF Held
<1>2. Code!Halves(p) \subseteq 0 .. Len(p) - 1
  BY DEF Code!Halves
<1>3. ASSUME NEW i \in Code!Halves(p) PROVE Code!At(p, i).opc = "zero"
  <2>1. i \in 0 .. Len(p) - 1
    BY <1>2
  <2>2. i > 0 /\ Code!At(p, i - 1).opc = "lddw" /\ i - 1 \notin Code!Halves(p)
    BY <1>1, <2>1, HalfFollows
  <2>3. i - 1 \in Code!Visited(p) /\ (i - 1) + 1 = i
    BY <2>1, <2>2 DEF Code!Visited
  <2>4. Code!Passes(p, i - 1)
    BY <2>3 DEF Held, Code!Accepted
  <2> QED BY <2>2, <2>3, <2>4 DEF Code!Passes
<1>4. 0 \in Code!Visited(p)
  <2>1. 0 \in 0 .. Len(p) - 1
    BY <1>1
  <2>2. 0 \notin Code!Halves(p)
    BY <1>1, <2>1, HalfFollows
  <2> QED BY <2>1, <2>2 DEF Code!Visited
<1>5. Code!At(p, Len(p) - 1) = Code!Last(p)
  BY <1>1 DEF Code!At, Code!Last
<1>6. Len(p) - 1 \in Code!Visited(p)
  <2>1. Len(p) - 1 \in 0 .. Len(p) - 1
    BY <1>1
  <2>2. Code!At(p, Len(p) - 1).opc # "zero"
    BY <1>5 DEF Held, Code!Accepted, Code!EndsInJump
  <2> QED BY <2>1, <2>2, <1>3 DEF Code!Visited
<1> QED BY <1>2, <1>3, <1>4, <1>5, <1>6

\* What follows an instruction that is no lddw is no second half of one.
LEMMA NextIsVisited ==
  ASSUME NEW p, Held(p), NEW i \in Code!Visited(p), Code!At(p, i).opc # "lddw"
  PROVE  \/ i + 1 \in Code!Visited(p)
         \/ i + 1 = Len(p) /\ Code!At(p, i) = Code!Last(p)
<1>1. p \in Seq(Code!Insns) /\ Len(p) > 0 /\ Len(p) \in Nat /\ i \in 0 .. Len(p) - 1
  BY DEF Held, Code!Visited
<1>2. CASE i + 1 = Len(p)
  <2>1. i = Len(p) - 1
    BY <1>1, <1>2
  <2> QED BY <2>1, <1>2, HalvesAreZero
<1>3. CASE i + 1 # Len(p)
  <2>1. i + 1 \in 0 .. Len(p) - 1 /\ (i + 1) - 1 = i
    BY <1>1, <1>3
  <2>2. i + 1 \notin Code!Halves(p)
    BY <1>1, <2>1, HalfFollows
  <2> QED BY <2>1, <2>2 DEF Code!Visited
<1> QED BY <1>2, <1>3

\* An instruction is followed by one the loops visit, or was the last.
LEMMA AfterIsInside ==
  ASSUME NEW p, Held(p), NEW i \in Code!Visited(p),
         Code!At(p, i).opc \in {"alu", "access", "lddw", "jcc"}
  PROVE  \/ Code!After(p, i) \in Code!Visited(p)
         \/ Code!After(p, i) = Len(p) /\ Code!Last(p).opc = "jcc"
<1>1. p \in Seq(Code!Insns) /\ Len(p) > 0 /\ Len(p) \in Nat /\ i \in 0 .. Len(p) - 1
      /\ i \notin Code!Halves(p)
  BY DEF Held, Code!Visited
<1>2. Code!Last(p).opc \notin {"lddw", "zero", "alu", "access"}
  BY DEF Held, Code!Accepted, Code!EndsInJump
<1>3. CASE Code!At(p, i).opc = "lddw"
  <2>1. Code!At(p, i + 1).opc = "zero" /\ Code!After(p, i) = i + 2
    BY <1>3 DEF Held, Code!Accepted, Code!Passes, Code!After
  <2>2. i # Len(p) - 1
    BY <1>2, <1>3, HalvesAreZero
  <2>3. i + 1 # Len(p) - 1
    BY <1>2, <2>1, HalvesAreZero
  <2>4. i + 1 \in 0 .. Len(p) - 1 /\ (i + 1) - 1 = i
    BY <1>1, <2>2
  <2>5. i + 2 \in 0 .. Len(p) - 1 /\ (i + 2) - 1 = i + 1
    BY <1>1, <2>2, <2>3
  <2>6. i + 2 \notin Code!Halves(p)
    <3>1. Code!At(p, (i + 2) - 1).opc # "lddw"
      BY <2>1, <2>5
    <3> QED BY <1>1, <2>5, <3>1, HalfFollows
  <2> QED BY <2>1, <2>5, <2>6 DEF Code!Visited
<1>4. CASE Code!At(p, i).opc # "lddw"
  <2>1. Code!After(p, i) = i + 1
    BY <1>4 DEF Code!After
  <2> QED BY <1>2, <1>4, <2>1, NextIsVisited
<1> QED BY <1>3, <1>4

\* A jump leads to an instruction the loops visit.
LEMMA JumpsAreInside ==
  ASSUME NEW p, Held(p), NEW i \in Code!Visited(p), Code!At(p, i).opc \in {"ja", "jcc"}
  PROVE  Code!Target(p, i) \in Code!Visited(p)
<1>1. Code!JumpChecked(p, i)
  BY DEF Held, Code!Accepted, Code!Passes
<1> QED BY <1>1, HalvesAreZero DEF Code!JumpChecked, Code!Within, Code!Visited

\* The JIT panics on an accepted program only when its code does not fit.
LEMMA JitPanics ==
  ASSUME NEW p, Held(p), Code!JitOutcome(p) = "panic"
  PROVE  Code!SpaceTo(p, Len(p) - 1) > Page
<1>1. p \in Seq(Code!Insns) /\ Len(p) > 0 /\ Len(p) \in Nat
  BY DEF Held
<1>2. ASSUME NEW i \in Code!Visited(p), Code!At(p, i).opc \in {"ja", "jcc", "local"}
      PROVE  Code!Target(p, i) \in 0 .. Len(p)
  <2>1. Code!JumpChecked(p, i) \/ Code!Within(p, Code!Target(p, i))
    BY <1>2 DEF Held, Code!Accepted, Code!Passes
  <2>2. Code!Within(p, Code!Target(p, i))
    BY <2>1 DEF Code!JumpChecked
  <2> QED BY <1>1, <2>2 DEF Code!Within
<1>3. PICK i \in Code!Visited(p) : Code!SpaceTo(p, i) > Page
  BY <1>2 DEF Code!JitOutcome
<1>4. i \in 0 .. Len(p) - 1
  BY DEF Code!Visited
<1>5. /\ Code!SpaceTo(p, i) \in Nat /\ Code!SpaceTo(p, Len(p) - 1) \in Nat
      /\ Code!SpaceTo(p, i) <= Code!SpaceTo(p, Len(p) - 1)
  BY <1>1, <1>4, SpaceGrows
<1> QED BY <1>3, <1>5, ProgramsAssumption

\* The other compiler fails on an accepted program only in the named ways.
LEMMA CraneBreaks ==
  ASSUME NEW p, Held(p), "broken" \in Code!CraneOutcomes(p)
  PROVE  \/ \E i \in Code!Visited(p) : Code!At(p, i).opc = "exit" /\ Code!Target(p, i) < 0
         \/ \E i \in Code!Visited(p) : Code!At(p, i).opc \in {"ja", "jcc"} /\ Code!Target(p, i) = 0
         \/ Code!Last(p).opc \in {"jcc", "helper", "local"}
<1>1. p \in Seq(Code!Insns) /\ Len(p) > 0 /\ Len(p) \in Nat
  BY DEF Held
<1>2. CASE \E i \in Code!Jumping(p) : Code!Target(p, i) < 0
  <2>1. PICK i \in Code!Visited(p) : Code!At(p, i).opc \in {"ja", "jcc", "exit"} /\ Code!Target(p, i) < 0
    BY <1>2 DEF Code!Jumping
  <2>2. Code!At(p, i).opc \notin {"ja", "jcc"}
    <3> SUFFICES ASSUME Code!At(p, i).opc \in {"ja", "jcc"} PROVE FALSE
      OBVIOUS
    <3>1. Code!Target(p, i) \in 0 .. Len(p) - 1
      BY JumpsAreInside DEF Code!Visited
    <3> QED BY <1>1, <2>1, <3>1
  <2> QED BY <2>1, <2>2
<1>3. CASE ~\E i \in Code!Jumping(p) : Code!Target(p, i) < 0
  <2>1. /\ ~(Code!Jumped(p) \subseteq Code!Switched(p) /\ Code!Terminated(p))
        /\ "nohelper" \notin {Code!At(p, i).opc : i \in Code!Visited(p)}
    BY <1>3 DEF Code!CraneOutcomes
  <2>2. CASE ~Code!Terminated(p)
    <3>1. Code!Last(p).opc # "nohelper"
      BY <2>1, HalvesAreZero
    <3> QED BY <2>2, <3>1 DEF Code!Terminated, Held, Code!Accepted, Code!EndsInJump
  <2>3. ASSUME NEW t \in Code!Jumped(p), t \notin Code!Switched(p)
        PROVE  \/ \E i \in Code!Visited(p) : Code!At(p, i).opc \in {"ja", "jcc"} /\ Code!Target(p, i) = 0
               \/ Code!Last(p).opc = "jcc"
    <3>1. CASE \E i \in Code!Jumping(p) : Code!At(p, i).opc # "exit" /\ t = Code!Target(p, i)
      <4>1. PICK i \in Code!Jumping(p) : Code!At(p, i).opc # "exit" /\ t = Code!Target(p, i)
        BY <3>1
      <4>2. i \in Code!Visited(p) /\ Code!At(p, i).opc \in {"ja", "jcc"}
        BY <4>1 DEF Code!Jumping
      <4>3. t \in Code!Visited(p)
        BY <4>1, <4>2, JumpsAreInside
      <4>4. t \in Code!Prepared(p)
        BY <4>1 DEF Code!Prepared
      <4>5. t = 0
        BY <2>3, <4>3, <4>4 DEF Code!Switched
      <4> QED BY <4>1, <4>2, <4>5
    <3>2. CASE \E i \in Code!Jumping(p) : Code!At(p, i).opc = "jcc" /\ t = i + 1
      <4>1. PICK i \in Code!Jumping(p) : Code!At(p, i).opc = "jcc" /\ t = i + 1
        BY <3>2
      <4>2. i \in Code!Visited(p) /\ i \in Nat
        BY DEF Code!Jumping, Code!Visited
      <4>3. t \in Code!Prepared(p) /\ t # 0
        BY <4>1, <4>2 DEF Code!Prepared
      <4>4. t \notin Code!Visited(p)
        BY <2>3, <4>3 DEF Code!Switched
      <4>5. Code!At(p, i) = Code!Last(p)
        BY <4>1, <4>2, <4>4, NextIsVisited
      <4> QED BY <4>1, <4>5
    <3> QED BY <3>1, <3>2 DEF Code!Jumped
  <2> QED BY <2>1, <2>2, <2>3
<1> QED BY <1>2, <1>3

-----------------------------------------------------------------------------
(* A program from the verifier to its code.                                *)

\* where the code may stand, and what may follow it
Reached(p) == Code!Visited(p) \cup {Len(p)}

CodeInv ==
  /\ Code!TypeOK /\ Code!RunsInside /\ Code!CompilersSurvive
  /\ progress # "none" => Held(prog)
  /\ progress \in {"none", "accepted"} => insnAt = 0 /\ returns = <<>>
  /\ progress = "running" =>
       /\ insnAt \in Reached(prog)
       /\ insnAt = Len(prog) => Code!Last(prog).opc \in {"jcc", "local"}
       /\ \A k \in 1 .. Len(returns) :
            /\ returns[k] \in Reached(prog)
            /\ returns[k] = Len(prog) => Code!Last(prog).opc = "local"

LEMMA CodeInitially == Code!Init => CodeInv
  BY ProgramsAssumption DEF Code!Init, CodeInv, Code!TypeOK, Code!RunsInside, Code!CompilersSurvive

LEMMA LoadKeeps == CodeInv /\ Code!Load => CodeInv'
<1> SUFFICES ASSUME CodeInv, Code!Load PROVE CodeInv'
  OBVIOUS
<1>1. PICK n \in 1 .. MaxInsns : \E p \in [1 .. n -> Code!Insns] : Code!Accepted(p) /\ prog' = p
  BY DEF Code!Load
<1>2. prog' \in [1 .. n -> Code!Insns] /\ Code!Accepted(prog')
  BY <1>1
<1>3. n \in Nat /\ n >= 1 /\ n <= MaxInsns
  BY ProgramsAssumption
<1>4. prog' \in Seq(Code!Insns) /\ Len(prog') = n
  BY <1>2, <1>3
<1>5. progress = "none" /\ progress' = "accepted" /\ UNCHANGED <<insnAt, returns, restarts>>
  BY DEF Code!Load
<1>6. Code!TypeOK'
  BY <1>3, <1>4, <1>5 DEF CodeInv, Code!TypeOK
<1>7. Held(prog')
  BY <1>2, <1>3, <1>4 DEF Held
<1> QED BY <1>5, <1>6, <1>7 DEF CodeInv, Code!RunsInside, Code!CompilersSurvive

LEMMA JitKeeps == CodeInv /\ Code!JitCompile => CodeInv'
<1> SUFFICES ASSUME CodeInv, Code!JitCompile PROVE CodeInv'
  OBVIOUS
<1>1. /\ progress = "accepted" /\ progress' = Code!JitOutcome(prog)
      /\ UNCHANGED <<prog, insnAt, returns, restarts>>
  BY DEF Code!JitCompile
<1>2. progress' \in {"panic", "error", "running"}
  BY <1>1 DEF Code!JitOutcome
<1>3. Held(prog) /\ insnAt = 0 /\ returns = <<>>
  BY <1>1 DEF CodeInv
<1>4. Code!TypeOK'
  BY <1>1, <1>2 DEF CodeInv, Code!TypeOK
<1>5. progress' = "panic" => Code!SpaceTo(prog, Len(prog) - 1) > Page
  BY <1>1, <1>3, JitPanics
<1>6. Code!RunsInside' /\ Code!CompilersSurvive'
  BY <1>1, <1>2, <1>5 DEF CodeInv, Code!RunsInside, Code!CompilersSurvive
<1>7. insnAt \in Reached(prog) /\ insnAt # Len(prog)
  BY <1>3, HalvesAreZero DEF Reached, Held
<1> QED BY <1>1, <1>2, <1>3, <1>4, <1>6, <1>7 DEF CodeInv

LEMMA CraneliftKeeps == CodeInv /\ Code!CraneliftCompile => CodeInv'
<1> SUFFICES ASSUME CodeInv, Code!CraneliftCompile PROVE CodeInv'
  OBVIOUS
<1>1. /\ progress = "accepted" /\ progress' \in Code!CraneOutcomes(prog)
      /\ UNCHANGED <<prog, insnAt, returns, restarts>>
  BY DEF Code!CraneliftCompile
<1>2. progress' \in {"broken", "error", "compiled"}
  BY <1>1 DEF Code!CraneOutcomes
<1>3. Held(prog)
  BY <1>1 DEF CodeInv
<1>4. Code!TypeOK'
  BY <1>1, <1>2 DEF CodeInv, Code!TypeOK
<1>5. Code!RunsInside'
  BY <1>1, <1>2 DEF CodeInv, Code!RunsInside
<1>6. Code!CompilersSurvive'
  <2> SUFFICES ASSUME progress' = "broken"
               PROVE  Code!CompilersSurvive'
    BY <1>2 DEF Code!CompilersSurvive
  <2>1. "broken" \in Code!CraneOutcomes(prog)
    BY <1>1
  <2> QED BY <1>1, <1>3, <2>1, CraneBreaks DEF Code!CompilersSurvive
<1> QED BY <1>1, <1>2, <1>3, <1>4, <1>5, <1>6 DEF CodeInv

\* Where the code is when it executes an instruction.
LEMMA RunningFacts ==
  ASSUME CodeInv, NEW opcs, Code!Running(opcs)
  PROVE  /\ progress = "running" /\ Held(prog) /\ insnAt \in Code!Visited(prog)
         /\ insnAt \in Nat /\ Code!At(prog, insnAt).opc \in opcs
         /\ Len(prog) \in 1 .. MaxInsns
<1>1. progress = "running" /\ Code!At(prog, insnAt).opc \in opcs /\ insnAt < Len(prog)
  BY DEF Code!Running
<1>2. Held(prog) /\ insnAt \in Reached(prog) /\ insnAt \in 0 .. MaxInsns
  BY <1>1 DEF CodeInv, Code!TypeOK
<1>3. Len(prog) \in 1 .. MaxInsns
  BY <1>2 DEF Held
<1> QED BY <1>1, <1>2, <1>3 DEF Reached

LEMMA PlainCodeKeeps == CodeInv /\ Code!Plain => CodeInv'
<1> SUFFICES ASSUME CodeInv, Code!Plain PROVE CodeInv'
  OBVIOUS
<1>1. /\ progress = "running" /\ Held(prog) /\ insnAt \in Code!Visited(prog)
      /\ Code!At(prog, insnAt).opc \in {"alu", "access", "lddw", "jcc"}
      /\ Len(prog) \in 1 .. MaxInsns
  BY RunningFacts DEF Code!Plain
<1>2. insnAt' = Code!After(prog, insnAt) /\ UNCHANGED <<prog, progress, returns, restarts>>
  BY DEF Code!Plain
<1>3. \/ insnAt' \in Code!Visited(prog)
      \/ insnAt' = Len(prog) /\ Code!Last(prog).opc = "jcc"
  BY <1>1, <1>2, AfterIsInside
<1>4. insnAt' \in 0 .. MaxInsns /\ (insnAt' \in Code!Visited(prog) => insnAt' # Len(prog))
  BY <1>1, <1>3, ProgramsAssumption DEF Code!Visited
<1>5. Code!TypeOK'
  BY <1>2, <1>4 DEF CodeInv, Code!TypeOK
<1>6. Code!RunsInside' /\ Code!CompilersSurvive'
  BY <1>1, <1>2 DEF CodeInv, Code!RunsInside, Code!CompilersSurvive
<1>7. insnAt' \in Reached(prog)
      /\ (insnAt' = Len(prog) => Code!Last(prog).opc \in {"jcc", "local"})
  BY <1>3, <1>4 DEF Reached
<1> QED BY <1>1, <1>2, <1>5, <1>6, <1>7 DEF CodeInv

LEMMA JumpKeeps == CodeInv /\ Code!Jump => CodeInv'
<1> SUFFICES ASSUME CodeInv, Code!Jump PROVE CodeInv'
  OBVIOUS
<1>1. /\ progress = "running" /\ Held(prog) /\ insnAt \in Code!Visited(prog)
      /\ Code!At(prog, insnAt).opc \in {"ja", "jcc"} /\ Len(prog) \in 1 .. MaxInsns
  BY RunningFacts DEF Code!Jump
<1>2. Code!Target(prog, insnAt) \in Code!Visited(prog)
  BY <1>1, JumpsAreInside
<1>3. /\ insnAt' = Code!Target(prog, insnAt)
      /\ UNCHANGED <<prog, progress, returns, restarts>>
  BY <1>2 DEF Code!Jump, Code!GoTo, Code!HasLocation
<1>4. insnAt' \in Code!Visited(prog) /\ insnAt' \in 0 .. MaxInsns /\ insnAt' # Len(prog)
  BY <1>1, <1>2, <1>3, ProgramsAssumption DEF Code!Visited
<1>5. Code!TypeOK'
  BY <1>3, <1>4 DEF CodeInv, Code!TypeOK
<1>6. Code!RunsInside' /\ Code!CompilersSurvive'
  BY <1>1, <1>3 DEF CodeInv, Code!RunsInside, Code!CompilersSurvive
<1> QED BY <1>1, <1>3, <1>4, <1>5, <1>6 DEF CodeInv, Reached

LEMMA LocalCallKeeps == CodeInv /\ Code!LocalCall => CodeInv'
<1> SUFFICES ASSUME CodeInv, Code!LocalCall PROVE CodeInv'
  OBVIOUS
<1>1. /\ progress = "running" /\ Held(prog) /\ insnAt \in Code!Visited(prog)
      /\ insnAt \in Nat /\ Code!At(prog, insnAt).opc = "local" /\ Len(prog) \in 1 .. MaxInsns
  BY RunningFacts DEF Code!LocalCall
<1> DEFINE there == Code!Target(prog, insnAt)
<1>2. /\ insnAt' = IF there \in Code!Visited(prog) THEN there ELSE 0
      /\ restarts' = IF there \in Code!Visited(prog) THEN restarts ELSE restarts \cup {"local"}
      /\ returns' = <<insnAt + 1>> \o returns /\ Len(returns) < MaxCalls
      /\ UNCHANGED <<prog, progress>>
  BY <1>1 DEF Code!LocalCall, Code!GoTo, Code!HasLocation
<1>3. insnAt' \in Code!Visited(prog)
  BY <1>1, <1>2, HalvesAreZero
<1>4. insnAt' \in 0 .. MaxInsns /\ insnAt' # Len(prog)
  BY <1>1, <1>3, ProgramsAssumption DEF Code!Visited
<1>5. insnAt + 1 \in 1 .. MaxInsns
  BY <1>1, ProgramsAssumption DEF Code!Visited
<1>6. /\ returns \in Seq(1 .. MaxInsns) /\ Len(returns) \in Nat
      /\ \A k \in 1 .. Len(returns) :
           /\ returns[k] \in Reached(prog)
           /\ returns[k] = Len(prog) => Code!Last(prog).opc = "local"
  BY <1>1 DEF CodeInv, Code!TypeOK
<1>7. /\ returns' \in Seq(1 .. MaxInsns) /\ Len(returns') = Len(returns) + 1
      /\ \A k \in 1 .. Len(returns) + 1 :
           returns'[k] = IF k = 1 THEN insnAt + 1 ELSE returns[k - 1]
  BY <1>2, <1>5, <1>6
<1>8. Len(returns') <= MaxCalls
  BY <1>2, <1>6, <1>7, ProgramsAssumption
<1>9. "local" \in {i.opc : i \in Code!Insns}
  <2>1. Code!At(prog, insnAt) \in Code!Insns
    BY <1>1, InsnFields DEF Held, Code!Visited
  <2> QED BY <1>1, <2>1
<1>10. Code!TypeOK'
  BY <1>2, <1>4, <1>7, <1>8, <1>9 DEF CodeInv, Code!TypeOK
<1>11. Code!RunsInside' /\ Code!CompilersSurvive'
  BY <1>1, <1>2 DEF CodeInv, Code!RunsInside, Code!CompilersSurvive
<1>12. /\ insnAt + 1 \in Reached(prog)
       /\ insnAt + 1 = Len(prog) => Code!Last(prog).opc = "local"
  <2>1. \/ insnAt + 1 \in Code!Visited(prog)
        \/ insnAt + 1 = Len(prog) /\ Code!At(prog, insnAt) = Code!Last(prog)
    BY <1>1, NextIsVisited
  <2>2. insnAt + 1 \in Code!Visited(prog) => insnAt + 1 # Len(prog)
    BY <1>1 DEF Code!Visited
  <2> QED BY <1>1, <2>1, <2>2 DEF Reached
<1>13. ASSUME NEW k \in 1 .. Len(returns')
       PROVE  /\ returns'[k] \in Reached(prog)
              /\ returns'[k] = Len(prog) => Code!Last(prog).opc = "local"
  <2>1. CASE k = 1
    BY <2>1, <1>6, <1>7, <1>12
  <2>2. CASE k # 1
    <3>1. k - 1 \in 1 .. Len(returns) /\ returns'[k] = returns[k - 1]
      BY <2>2, <1>6, <1>7
    <3> QED BY <3>1, <1>6
  <2> QED BY <2>1, <2>2
<1> QED BY <1>1, <1>2, <1>3, <1>4, <1>10, <1>11, <1>13 DEF CodeInv, Reached

\* The first element of a sequence that has one.
LEMMA FirstElement ==
  ASSUME NEW S, NEW s \in Seq(S), Len(s) >= 1
  PROVE  Head(s) = s[1] /\ s[1] \in S
  OBVIOUS

LEMMA ExitKeeps == CodeInv /\ Code!Exit => CodeInv'
<1> SUFFICES ASSUME CodeInv, Code!Exit PROVE CodeInv'
  OBVIOUS
<1>1. progress = "running" /\ Held(prog) /\ UNCHANGED <<prog, restarts>>
  BY RunningFacts DEF Code!Exit
<1>2. CASE returns = <<>>
  <2>1. progress' = "returned" /\ UNCHANGED <<insnAt, returns>>
    BY <1>2 DEF Code!Exit
  <2> QED BY <1>1, <2>1 DEF CodeInv, Code!TypeOK, Code!RunsInside, Code!CompilersSurvive
<1>3. CASE returns # <<>>
  <2>1. insnAt' = Head(returns) /\ returns' = Tail(returns) /\ progress' = progress
    BY <1>3 DEF Code!Exit
  <2>2. /\ returns \in Seq(1 .. MaxInsns) /\ Len(returns) \in Nat /\ Len(returns) <= MaxCalls
        /\ \A k \in 1 .. Len(returns) :
             /\ returns[k] \in Reached(prog)
             /\ returns[k] = Len(prog) => Code!Last(prog).opc = "local"
    BY <1>1 DEF CodeInv, Code!TypeOK
  <2>3. /\ 1 \in 1 .. Len(returns) /\ insnAt' = returns[1] /\ insnAt' \in 1 .. MaxInsns
        /\ returns' \in Seq(1 .. MaxInsns) /\ Len(returns') = Len(returns) - 1
        /\ \A k \in 1 .. Len(returns) - 1 : returns'[k] = returns[k + 1]
    <3>1. Len(returns) >= 1
      BY <1>3, <2>2
    <3> DEFINE places == 1 .. MaxInsns
    <3>p. returns \in Seq(places)
      BY <2>2
    <3> HIDE DEF places
    <3>2. Head(returns) = returns[1] /\ returns[1] \in places
      BY <3>1, <3>p, FirstElement
    <3>5. 1 \in 1 .. Len(returns)
      BY <2>2, <3>1
    <3>3. Tail(returns) \in Seq(1 .. MaxInsns) /\ Len(Tail(returns)) = Len(returns) - 1
      BY <1>3, <2>2
    <3>4. \A k \in 1 .. Len(returns) - 1 : Tail(returns)[k] = returns[k + 1]
      BY <1>3, <2>2, <3>1
    <3> QED BY <2>1, <3>2, <3>3, <3>4, <3>5 DEF places
  <2>4. insnAt' \in 0 .. MaxInsns /\ Len(returns') <= MaxCalls
    BY <2>2, <2>3, ProgramsAssumption
  <2>5. Code!TypeOK'
    BY <1>1, <2>1, <2>3, <2>4 DEF CodeInv, Code!TypeOK
  <2>6. Code!RunsInside' /\ Code!CompilersSurvive'
    BY <1>1, <2>1 DEF CodeInv, Code!RunsInside, Code!CompilersSurvive
  <2>7. ASSUME NEW k \in 1 .. Len(returns')
        PROVE  /\ returns'[k] \in Reached(prog)
               /\ returns'[k] = Len(prog) => Code!Last(prog).opc = "local"
    <3>1. k + 1 \in 1 .. Len(returns) /\ returns'[k] = returns[k + 1]
      BY <2>2, <2>3
    <3> QED BY <3>1, <2>2
  <2>8. /\ insnAt' \in Reached(prog)
        /\ insnAt' = Len(prog) => Code!Last(prog).opc \in {"jcc", "local"}
    BY <2>2, <2>3
  <2> QED BY <1>1, <2>1, <2>5, <2>6, <2>7, <2>8 DEF CodeInv
<1> QED BY <1>2, <1>3

\* The code is lost only where the property says.
LEMMA LostKeeps ==
  ASSUME CodeInv,
         Code!FallOff \/ Code!AccessOutside \/ Code!HelperCall \/ Code!StackFull
  PROVE  CodeInv'
<1>1. progress = "running" /\ progress' = "lost" /\ UNCHANGED <<prog, insnAt, returns, restarts>>
  BY DEF Code!FallOff, Code!AccessOutside, Code!HelperCall, Code!StackFull, Code!Running, Code!Lost
<1>2. \/ insnAt = Len(prog) /\ Code!Last(prog).opc \in {"jcc", "local"}
      \/ insnAt < Len(prog) /\ Code!At(prog, insnAt).opc \in {"helper", "access"}
      \/ /\ insnAt < Len(prog) /\ Code!At(prog, insnAt).opc = "local"
         /\ Len(returns) = MaxCalls
  BY <1>1 DEF CodeInv, Code!FallOff, Code!AccessOutside, Code!HelperCall, Code!StackFull,
    Code!Running
<1>3. Code!RunsInside'
  BY <1>1, <1>2 DEF CodeInv, Code!RunsInside, Code!At, Code!Last
<1> QED BY <1>1, <1>3 DEF CodeInv, Code!TypeOK, Code!CompilersSurvive

LEMMA CodeStep == CodeInv /\ [Code!Next]_codeVars => CodeInv'
<1> SUFFICES ASSUME CodeInv, [Code!Next]_codeVars PROVE CodeInv'
  OBVIOUS
<1>1. CASE Code!FallOff \/ Code!AccessOutside \/ Code!HelperCall \/ Code!StackFull
  BY <1>1, LostKeeps
<1>2. CASE UNCHANGED codeVars
  BY <1>2 DEF codeVars, CodeInv, Code!TypeOK, Code!RunsInside, Code!CompilersSurvive
<1> QED BY <1>1, <1>2, LoadKeeps, JitKeeps, CraneliftKeeps, PlainCodeKeeps, JumpKeeps,
    LocalCallKeeps, ExitKeeps DEF Code!Next

-----------------------------------------------------------------------------
(* A machine of the runtime.                                               *)

\* code of a program that is not the one held was followed by set_program
CodeReplaced ==
  vm # None /\ vm.jit # None =>
    vm.jit.prog # None /\ (vm.jit.prog # vm.prog => "replaced" \in past)

MachineInv ==
  /\ Machine!TypeOK /\ Machine!HeldChecked /\ Machine!LaidOut /\ Machine!CodeCurrent
  /\ CodeReplaced

Machines ==
  [kind : Machine!Kinds, std : BOOLEAN, prog : Programs \cup {None},
   verifier : Verifiers \cup {Programs}, calculator : Calculators \cup {None},
   usage : ((Programs \X (Calculators \cup {None}))) \cup {None},
   helpers : BOOLEAN, memory : BOOLEAN,
   jit : [prog : Programs, layout : Machine!Layouts] \cup {None},
   layout : Machine!Layouts, buffer : 8 .. MaxOffset + 8]

\* Both pointers fit the buffer that is made for their offsets.
LEMMA BufferHolds ==
  ASSUME NEW l \in Machine!Layouts
  PROVE  /\ Machine!BuffLen(l) \in 8 .. MaxOffset + 8
         /\ l[1] + 8 <= Machine!BuffLen(l) /\ l[2] + 8 <= Machine!BuffLen(l)
<1>1. l[1] \in 0 .. MaxOffset /\ l[2] \in 0 .. MaxOffset
  BY DEF Machine!Layouts
<1> QED BY <1>1, ProgramsAssumption DEF Machine!BuffLen

LEMMA MachineInitially == Machine!Init => MachineInv
  BY ProgramsAssumption DEF Machine!Init, MachineInv, Machine!TypeOK, Machine!HeldChecked,
    Machine!LaidOut, Machine!CodeCurrent, Machine!NoLayout, Machine!Layouts, CodeReplaced

LEMMA NewKeeps == MachineInv /\ Machine!New => MachineInv'
<1> SUFFICES ASSUME MachineInv, Machine!New PROVE MachineInv'
  OBVIOUS
<1>1. PICK k \in Machine!Kinds, s \in BOOLEAN, p \in Programs \cup {None}, l \in Machine!Layouts :
        /\ vm' = [kind |-> k, std |-> s, prog |-> p, verifier |-> Programs,
                  calculator |-> None, usage |-> Machine!Usage(p, None), helpers |-> FALSE,
                  memory |-> FALSE, jit |-> None, layout |-> l,
                  buffer |-> Machine!BuffLen(l)]
        /\ laid' = l
  BY DEF Machine!New
<1>2. past' = past
  BY DEF Machine!New
<1>3. /\ Machine!Usage(p, None) \in (Programs \X (Calculators \cup {None})) \cup {None}
      /\ p # None => Machine!Usage(p, None) = <<p, None>>
  BY DEF Machine!Usage
<1>4. /\ Machine!BuffLen(l) \in 8 .. MaxOffset + 8
      /\ l[1] + 8 <= Machine!BuffLen(l) /\ l[2] + 8 <= Machine!BuffLen(l)
  BY BufferHolds
<1>5. vm' \in Machines
  BY <1>1, <1>3, <1>4 DEF Machines
<1>6. Machine!TypeOK'
  BY <1>1, <1>2, <1>5 DEF MachineInv, Machine!TypeOK, Machines
<1>7. Machine!HeldChecked'
  BY <1>1, <1>3 DEF Machine!HeldChecked
<1>8. Machine!LaidOut'
  BY <1>1, <1>4 DEF Machine!LaidOut
<1>9. Machine!CodeCurrent' /\ CodeReplaced'
  BY <1>1 DEF Machine!CodeCurrent, CodeReplaced
<1> QED BY <1>6, <1>7, <1>8, <1>9 DEF MachineInv

LEMMA SetProgramKeeps ==
  ASSUME NEW p \in Programs, NEW l \in Machine!Layouts, MachineInv, Machine!SetProgram(p, l)
  PROVE  MachineInv'
<1>1. vm # None /\ vm \in Machines
  BY DEF Machine!SetProgram, MachineInv, Machine!TypeOK, Machines
<1>2. /\ Machine!BuffLen(l) \in 8 .. MaxOffset + 8
      /\ l[1] + 8 <= Machine!BuffLen(l) /\ l[2] + 8 <= Machine!BuffLen(l)
  BY BufferHolds
<1>3. CASE p \in vm.verifier
  <2> DEFINE u == Machine!Usage(p, vm.calculator)
  <2>1. /\ vm' = [vm EXCEPT !.prog = p, !.usage = u, !.layout = l, !.buffer = Machine!BuffLen(l)]
        /\ past' = (past \ {"refused"}) \cup {"replaced"} /\ laid' = l
    BY <1>3 DEF Machine!SetProgram, Machine!Taken
  <2>2. u \in (Programs \X (Calculators \cup {None})) \cup {None} /\ (p # None => u = <<p, vm.calculator>>)
    BY <1>1 DEF Machine!Usage, Machines
  <2> HIDE DEF u
  <2>3. vm' \in Machines
    BY <1>1, <1>2, <2>1, <2>2 DEF Machines
  <2>4. /\ vm'.prog = p /\ vm'.usage = u /\ vm'.layout = l /\ vm'.buffer = Machine!BuffLen(l)
        /\ vm'.verifier = vm.verifier /\ vm'.calculator = vm.calculator /\ vm'.jit = vm.jit
    BY <1>1, <2>1 DEF Machines
  <2>5. Machine!TypeOK'
    BY <2>1, <2>3 DEF MachineInv, Machine!TypeOK, Machines
  <2>6. Machine!HeldChecked'
    BY <1>3, <2>2, <2>4 DEF Machine!HeldChecked
  <2>7. Machine!LaidOut'
    BY <1>2, <2>1, <2>4 DEF Machine!LaidOut
  <2>8. Machine!CodeCurrent' /\ CodeReplaced'
    BY <1>1, <2>1, <2>4 DEF MachineInv, Machine!CodeCurrent, CodeReplaced
  <2> QED BY <2>5, <2>6, <2>7, <2>8 DEF MachineInv
<1>4. CASE p \notin vm.verifier
  <2>1. /\ vm' = [vm EXCEPT !.layout = l, !.buffer = Machine!BuffLen(l)]
        /\ past' = past \cup {"refused"} /\ laid' = laid
    BY <1>4 DEF Machine!SetProgram, Machine!Refused
  <2>2. vm' \in Machines
    BY <1>1, <1>2, <2>1 DEF Machines
  <2>3. /\ vm'.layout = l /\ vm'.buffer = Machine!BuffLen(l) /\ vm'.prog = vm.prog
        /\ vm'.usage = vm.usage /\ vm'.verifier = vm.verifier
        /\ vm'.calculator = vm.calculator /\ vm'.jit = vm.jit
    BY <1>1, <2>1 DEF Machines
  <2>4. Machine!TypeOK'
    BY <2>1, <2>2 DEF MachineInv, Machine!TypeOK, Machines
  <2>5. Machine!HeldChecked'
    BY <1>1, <2>3 DEF MachineInv, Machine!HeldChecked
  <2>6. Machine!LaidOut'
    BY <1>2, <2>1, <2>3 DEF Machine!LaidOut
  <2>7. Machine!CodeCurrent' /\ CodeReplaced'
    BY <1>1, <2>1, <2>3 DEF MachineInv, Machine!CodeCurrent, CodeReplaced
  <2> QED BY <2>4, <2>5, <2>6, <2>7 DEF MachineInv
<1> QED BY <1>3, <1>4

LEMMA SetVerifierKeeps ==
  ASSUME NEW v \in Verifiers, MachineInv, Machine!SetVerifier(v)
  PROVE  MachineInv'
<1>1. vm # None /\ vm \in Machines /\ vm.prog \in v \cup {None}
  BY DEF Machine!SetVerifier, MachineInv, Machine!TypeOK, Machines
<1>2. vm' = [vm EXCEPT !.verifier = v] /\ past' = past /\ laid' = laid
  BY DEF Machine!SetVerifier
<1>3. vm' \in Machines
  BY <1>1, <1>2 DEF Machines
<1>4. /\ vm'.verifier = v /\ vm'.layout = vm.layout /\ vm'.buffer = vm.buffer
      /\ vm'.prog = vm.prog /\ vm'.usage = vm.usage
      /\ vm'.calculator = vm.calculator /\ vm'.jit = vm.jit
  BY <1>1, <1>2 DEF Machines
<1>5. Machine!TypeOK'
  BY <1>2, <1>3 DEF MachineInv, Machine!TypeOK, Machines
<1>6. Machine!HeldChecked'
  BY <1>1, <1>4 DEF MachineInv, Machine!HeldChecked
<1>7. Machine!LaidOut'
  BY <1>1, <1>2, <1>4 DEF MachineInv, Machine!LaidOut
<1>8. CodeReplaced'
  BY <1>1, <1>2, <1>4 DEF MachineInv, CodeReplaced
<1>9. Machine!CodeCurrent'
  BY <1>1, <1>2, <1>4 DEF MachineInv, Machine!CodeCurrent, CodeReplaced
<1> QED BY <1>5, <1>6, <1>7, <1>8, <1>9 DEF MachineInv

LEMMA SetCalculatorKeeps ==
  ASSUME NEW c \in Calculators, MachineInv, Machine!SetStackUsageCalculator(c)
  PROVE  MachineInv'
<1>1. vm # None /\ vm \in Machines
  BY DEF Machine!SetStackUsageCalculator, MachineInv, Machine!TypeOK, Machines
<1> DEFINE u == Machine!Usage(vm.prog, c)
<1>2. vm' = [vm EXCEPT !.calculator = c, !.usage = u] /\ past' = past /\ laid' = laid
  BY DEF Machine!SetStackUsageCalculator
<1>3. u \in (Programs \X (Calculators \cup {None})) \cup {None} /\ (vm.prog # None => u = <<vm.prog, c>>)
  BY <1>1 DEF Machine!Usage, Machines
<1> HIDE DEF u
<1>4. vm' \in Machines
  BY <1>1, <1>2, <1>3 DEF Machines
<1>5. /\ vm'.calculator = c /\ vm'.usage = u /\ vm'.layout = vm.layout
      /\ vm'.buffer = vm.buffer /\ vm'.prog = vm.prog /\ vm'.verifier = vm.verifier
      /\ vm'.jit = vm.jit
  BY <1>1, <1>2 DEF Machines
<1>6. Machine!TypeOK'
  BY <1>2, <1>4 DEF MachineInv, Machine!TypeOK, Machines
<1>7. Machine!HeldChecked'
  BY <1>1, <1>3, <1>5 DEF MachineInv, Machine!HeldChecked
<1>8. Machine!LaidOut'
  BY <1>1, <1>2, <1>5 DEF MachineInv, Machine!LaidOut
<1>9. Machine!CodeCurrent' /\ CodeReplaced'
  BY <1>1, <1>2, <1>5 DEF MachineInv, Machine!CodeCurrent, CodeReplaced
<1> QED BY <1>6, <1>7, <1>8, <1>9 DEF MachineInv

\* Helpers, the memory for the code and a compilation that fails change nothing
\* the invariant is about.
LEMMA FlagsKeep ==
  ASSUME MachineInv, vm # None, UNCHANGED <<past, laid>>,
         \E b \in BOOLEAN : vm' = [vm EXCEPT !.helpers = b] \/ vm' = [vm EXCEPT !.memory = b]
  PROVE  MachineInv'
<1>1. vm \in Machines
  BY DEF MachineInv, Machine!TypeOK, Machines
<1>2. vm' \in Machines
  BY <1>1 DEF Machines
<1>3. /\ vm'.layout = vm.layout /\ vm'.buffer = vm.buffer /\ vm'.prog = vm.prog
      /\ vm'.usage = vm.usage /\ vm'.verifier = vm.verifier
      /\ vm'.calculator = vm.calculator /\ vm'.jit = vm.jit
  BY <1>1 DEF Machines
<1>4. Machine!TypeOK'
  BY <1>2 DEF MachineInv, Machine!TypeOK, Machines
<1>5. Machine!HeldChecked' /\ Machine!LaidOut'
  BY <1>3 DEF MachineInv, Machine!HeldChecked, Machine!LaidOut
<1>6. Machine!CodeCurrent' /\ CodeReplaced'
  BY <1>3 DEF MachineInv, Machine!CodeCurrent, CodeReplaced
<1> QED BY <1>4, <1>5, <1>6 DEF MachineInv

LEMMA CompileKeeps == MachineInv /\ Machine!JitCompile => MachineInv'
<1> SUFFICES ASSUME MachineInv, Machine!JitCompile PROVE MachineInv'
  OBVIOUS
<1>1. vm # None /\ vm \in Machines /\ vm.prog # None /\ laid' = laid
  BY DEF Machine!JitCompile, MachineInv, Machine!TypeOK, Machines
<1>2. CASE vm' = [vm EXCEPT !.memory = FALSE] /\ past' = past
  BY <1>1, <1>2, FlagsKeep
<1> DEFINE code == [prog |-> vm.prog, layout |-> vm.layout]
<1>3. CASE vm' = [vm EXCEPT !.memory = FALSE, !.jit = code] /\ past' = past \ {"replaced"}
  <2>1. code \in [prog : Programs, layout : Machine!Layouts] /\ code.prog = vm.prog
    BY <1>1 DEF Machines
  <2>2. vm' \in Machines
    BY <1>1, <1>3, <2>1 DEF Machines
  <2>3. /\ vm'.layout = vm.layout /\ vm'.buffer = vm.buffer /\ vm'.prog = vm.prog
        /\ vm'.usage = vm.usage /\ vm'.verifier = vm.verifier
        /\ vm'.calculator = vm.calculator /\ vm'.jit = code
    BY <1>1, <1>3 DEF Machines
  <2>4. Machine!TypeOK'
    BY <1>1, <1>3, <2>2 DEF MachineInv, Machine!TypeOK, Machines
  <2>5. Machine!HeldChecked' /\ Machine!LaidOut'
    BY <1>1, <1>3, <2>3 DEF MachineInv, Machine!HeldChecked, Machine!LaidOut
  <2>6. vm.prog \in vm.verifier
    BY <1>1 DEF MachineInv, Machine!HeldChecked
  <2>7. Machine!CodeCurrent' /\ CodeReplaced'
    BY <1>1, <2>1, <2>3, <2>6 DEF Machine!CodeCurrent, CodeReplaced
  <2> QED BY <2>4, <2>5, <2>7 DEF MachineInv
<1> QED BY <1>2, <1>3 DEF Machine!JitCompile

LEMMA MachineStep == MachineInv /\ [Machine!Next]_vmVars => MachineInv'
<1> SUFFICES ASSUME MachineInv, [Machine!Next]_vmVars PROVE MachineInv'
  OBVIOUS
<1>1. CASE Machine!New
  BY <1>1, NewKeeps
<1>2. ASSUME NEW p \in Programs, NEW l \in Machine!Layouts, Machine!SetProgram(p, l) PROVE MachineInv'
  BY <1>2, SetProgramKeeps
<1>3. ASSUME NEW v \in Verifiers, Machine!SetVerifier(v) PROVE MachineInv'
  BY <1>3, SetVerifierKeeps
<1>4. ASSUME NEW c \in Calculators, Machine!SetStackUsageCalculator(c) PROVE MachineInv'
  BY <1>4, SetCalculatorKeeps
<1>5. CASE Machine!RegisterHelper \/ Machine!SetJitExecMemory
  BY <1>5, FlagsKeep DEF Machine!RegisterHelper, Machine!SetJitExecMemory
<1>6. CASE Machine!JitCompile
  BY <1>6, CompileKeeps
<1>7. CASE UNCHANGED vmVars
  BY <1>7 DEF vmVars, MachineInv, Machine!TypeOK, Machine!HeldChecked, Machine!LaidOut,
    Machine!CodeCurrent, CodeReplaced
<1> QED BY <1>1, <1>2, <1>3, <1>4, <1>5, <1>6, <1>7 DEF Machine!Next

-----------------------------------------------------------------------------
(* The powers of two.                                                      *)

\* A set that has 0, and the next of each of its numbers, has all of them.
LEMMA AllNumbers ==
  ASSUME NEW S, 0 \in S, \A n \in Nat : n \in S => n + 1 \in S
  PROVE  Nat \subseteq S
<1> DEFINE T == {n \in Nat : n \notin S}
<1> SUFFICES ASSUME T # {} PROVE FALSE
  OBVIOUS
<1>1. PICK n \in T : \A m \in T : ~(<<m, n>> \in OpToRel(<, Nat))
  BY NatLessThanWellFounded, WFMin
<1>2. n \in Nat /\ n \notin S /\ \A m \in Nat : m < n => m \in S
  BY <1>1 DEF OpToRel
<1>3. n # 0
  BY <1>2
<1>4. n - 1 \in Nat /\ n - 1 < n /\ (n - 1) + 1 = n
  BY <1>2, <1>3
<1> QED BY <1>2, <1>4

LEMMA Widths ==
  /\ Bits \in Nat /\ ByteBits \in Nat /\ ByteBits > 0 /\ LowBits \in Nat
  /\ 2 <= LowBits /\ LowBits <= Bits /\ Bits % ByteBits = 0
BY WidthsAssumption

LEMMA SamePower == Words!Power = Power
BY Zenon DEF Words!Power, Power

LEMMA PowerIs ==
  /\ \A n \in 0 .. Bits : Power[n] \in Nat \ {0}
  /\ Power[0] = 1
  /\ \A n \in 1 .. Bits : Power[n] = 2 * Power[n - 1]
<1> DEFINE S == Nat \ {0}
           D == 0 .. Bits
           step == [p \in Nat \X S |-> 2 * p[2]]
<1>1. step \in [Nat \X S -> S] /\ \A k \in Nat, x \in S : step[<<k, x>>] = 2 * x
  OBVIOUS
<1>0. 1 \in S /\ Bits \in Nat
  BY Widths
<1>2. /\ \A k \in D : k # 0 => k - 1 \in D /\ k \in Nat
      /\ 0 \in D
  BY <1>0
<1>p. Power = CHOOSE g : g = [n \in D |-> IF n = 0 THEN 1 ELSE 2 * g[n - 1]]
  BY DEF Power
<1>3. PICK f \in [D -> S] : Iterates(f, Bits, 1, step)
  <2> HIDE DEF S, step
  <2> QED BY <1>0, <1>1, Recursion
<1>4. \A k \in D : f[k] = IF k = 0 THEN 1 ELSE step[<<k, f[k - 1]>>]
  BY <1>3 DEF Iterates
<1> HIDE DEF S, D, step
<1>5. \A k \in D : f[k] = IF k = 0 THEN 1 ELSE 2 * f[k - 1]
  BY <1>1, <1>2, <1>3, <1>4
<1>6. f = [k \in D |-> IF k = 0 THEN 1 ELSE 2 * f[k - 1]]
  <2>1. f = [k \in D |-> f[k]]
    BY <1>3
  <2> QED BY <1>5, <2>1
<1>7. Power = [k \in D |-> IF k = 0 THEN 1 ELSE 2 * Power[k - 1]]
  BY <1>6, <1>p, Zenon
<1>8. Power[0] = 1 /\ \A k \in D : k # 0 => Power[k] = 2 * Power[k - 1]
  BY <1>2, <1>7
<1>9. \A k \in D : Power[k] \in S
  <2> DEFINE T == {n \in Nat : n \in D => Power[n] \in S}
  <2>1. 0 \in T
    BY <1>0, <1>8
  <2>2. ASSUME NEW n \in Nat, n \in T PROVE n + 1 \in T
    <3> SUFFICES ASSUME n + 1 \in D PROVE Power[n + 1] \in S
      OBVIOUS
    <3>1. n \in D /\ n + 1 # 0 /\ (n + 1) - 1 = n
      BY <1>0 DEF D
    <3>2. Power[n + 1] = 2 * Power[n] /\ Power[n] \in S
      BY <1>8, <2>2, <3>1
    <3> QED BY <3>2 DEF S
  <2> HIDE DEF T
  <2>3. Nat \subseteq T
    BY <2>1, <2>2, AllNumbers
  <2> QED BY <1>2, <2>3 DEF T
<1>10. \A n \in 1 .. Bits : n \in D /\ n # 0
  BY <1>0 DEF D
<1> QED BY <1>8, <1>9, <1>10 DEF D, S

\* A power is a product of two, wherever its exponent is parted.
LEMMA PowerAdds ==
  ASSUME NEW m \in 0 .. Bits, NEW n \in 0 .. m
  PROVE  Power[m] = Power[n] * Power[m - n] /\ Power[n] <= Power[m]
<1> DEFINE T == {k \in Nat : n + k <= Bits => Power[n + k] = Power[n] * Power[k]}
<1>0. m \in Nat /\ n \in Nat /\ m <= Bits /\ Bits \in Nat /\ n <= m
  BY Widths
<1>1. 0 \in T
  <2>1. n + 0 = n /\ n \in 0 .. Bits
    BY <1>0
  <2> QED BY <2>1, PowerIs
<1>2. ASSUME NEW k \in Nat, k \in T PROVE k + 1 \in T
  <2> SUFFICES ASSUME n + (k + 1) <= Bits PROVE Power[n + (k + 1)] = Power[n] * Power[k + 1]
    OBVIOUS
  <2>1. /\ n + (k + 1) \in 1 .. Bits /\ (n + (k + 1)) - 1 = n + k
        /\ k + 1 \in 1 .. Bits /\ (k + 1) - 1 = k /\ n + k <= Bits
        /\ n \in 0 .. Bits /\ k \in 0 .. Bits
    BY <1>0
  <2>2. Power[n + (k + 1)] = 2 * Power[n + k] /\ Power[k + 1] = 2 * Power[k]
    BY <2>1, PowerIs
  <2>3. Power[n + k] = Power[n] * Power[k]
    BY <1>2, <2>1
  <2>4. Power[n] \in Nat /\ Power[k] \in Nat
    BY <2>1, PowerIs
  <2>5. \A x \in Nat, y \in Nat : 2 * (x * y) = x * (2 * y)
    OBVIOUS
  <2> QED BY <2>2, <2>3, <2>4, <2>5
<1> HIDE DEF T
<1>3. Nat \subseteq T
  BY <1>1, <1>2, AllNumbers
<1>4. m - n \in Nat /\ n + (m - n) = m /\ n \in 0 .. Bits /\ m - n \in 0 .. Bits
  BY <1>0
<1>5. Power[m] = Power[n] * Power[m - n]
  BY <1>0, <1>3, <1>4 DEF T
<1>6. Power[n] \in Nat /\ Power[m - n] \in Nat \ {0}
  BY <1>4, PowerIs
<1>7. \A x \in Nat, y \in Nat \ {0} : x <= x * y
  OBVIOUS
<1> QED BY <1>5, <1>6, <1>7

LEMMA Sizes ==
  /\ Modulus \in Nat /\ Modulus = Power[Bits] /\ Low = Power[LowBits] /\ Low \in Nat
  /\ Modulus = 2 * Power[Bits - 1] /\ Power[Bits - 1] \in Nat
  /\ Low = 2 * Power[LowBits - 1] /\ Power[LowBits - 1] \in Nat
  /\ 4 <= Low /\ Low <= Modulus
  /\ Modulus \div 2 = Power[Bits - 1] /\ Low \div 2 = Power[LowBits - 1]
<1>1. /\ Bits \in 1 .. Bits /\ LowBits \in 1 .. Bits /\ LowBits \in 0 .. Bits
      /\ Bits - 1 \in 0 .. Bits /\ LowBits - 1 \in 0 .. Bits /\ LowBits - 1 \in 1 .. Bits
      /\ (LowBits - 1) - 1 \in 0 .. Bits /\ Bits \in 0 .. Bits /\ LowBits \in 0 .. Bits
  BY Widths
<1>2. Modulus = Power[Bits] /\ Low = Power[LowBits]
  BY ModulusAssumption
<1>3. Power[Bits] = 2 * Power[Bits - 1] /\ Power[LowBits] = 2 * Power[LowBits - 1]
      /\ Power[LowBits - 1] = 2 * Power[(LowBits - 1) - 1]
  BY <1>1, PowerIs
<1>4. Power[Bits - 1] \in Nat \ {0} /\ Power[LowBits - 1] \in Nat \ {0}
      /\ Power[(LowBits - 1) - 1] \in Nat \ {0}
  BY <1>1, PowerIs
<1>5. Power[LowBits] <= Power[Bits]
  BY <1>1, PowerAdds
<1> QED BY <1>2, <1>3, <1>4, <1>5

-----------------------------------------------------------------------------
(* Divisions with a remainder.                                             *)

LEMMA Divided ==
  ASSUME NEW a \in Int, NEW n \in Nat, n > 0
  PROVE  /\ a = n * (a \div n) + (a % n) /\ a \div n \in Int
         /\ a % n \in Nat /\ a % n < n
OBVIOUS

LEMMA DividesAs ==
  ASSUME NEW n \in Nat, n > 0, NEW q \in Int, NEW r \in Nat, r < n
  PROVE  (n * q + r) % n = r /\ (n * q + r) \div n = q
<1> DEFINE a == n * q + r
           p == a \div n
           s == a % n
<1>1. a \in Int
  OBVIOUS
<1>2. a = n * p + s /\ p \in Int /\ s \in Nat /\ s < n
  BY <1>1, Divided
<1>3. n * (q - p) = s - r
  <2>1. n * (q - p) = n * q - n * p
    BY <1>2
  <2> QED BY <1>2, <2>1
<1>4. q = p
  <2>1. CASE q - p >= 1
    <3>1. n * (q - p) >= n
      BY <1>2, <2>1
    <3> QED BY <1>2, <1>3, <3>1
  <2>2. CASE q - p <= -1
    <3>1. n * (q - p) <= -n
      BY <1>2, <2>2
    <3> QED BY <1>2, <1>3, <3>1
  <2> QED BY <1>2, <2>1, <2>2
<1> QED BY <1>2, <1>3, <1>4

\* Two numbers with the same remainders differ by a multiple.
Congruent(a, b, n) == \E q \in Int : a = b + n * q

LEMMA Remainder ==
  ASSUME NEW a \in Int, NEW b \in Int, NEW n \in Nat, n > 0, Congruent(a, b, n)
  PROVE  a % n = b % n
<1>1. PICK q \in Int : a = b + n * q
  BY DEF Congruent
<1>2. b = n * (b \div n) + (b % n) /\ b \div n \in Int /\ b % n \in Nat /\ b % n < n
  BY Divided
<1>3. a = n * ((b \div n) + q) + (b % n)
  <2>1. n * ((b \div n) + q) = n * (b \div n) + n * q
    BY <1>2
  <2> QED BY <1>1, <1>2, <2>1
<1>4. (b \div n) + q \in Int
  BY <1>2
<1> QED BY <1>2, <1>3, <1>4, DividesAs

LEMMA ItsRemainder ==
  ASSUME NEW a \in Int, NEW n \in Nat, n > 0
  PROVE  Congruent(a % n, a, n) /\ Congruent(a, a % n, n) /\ a % n \in Nat /\ a % n < n
<1>1. a = n * (a \div n) + (a % n) /\ a \div n \in Int /\ a % n \in Nat /\ a % n < n
  BY Divided
<1>2. -(a \div n) \in Int /\ n * (-(a \div n)) = -(n * (a \div n))
  BY <1>1
<1>3. a % n = a + n * (-(a \div n))
  BY <1>1, <1>2
<1>4. Congruent(a % n, a, n)
  BY <1>2, <1>3 DEF Congruent
<1>5. a = (a % n) + n * (a \div n)
  BY <1>1
<1>6. Congruent(a, a % n, n)
  BY <1>1, <1>5 DEF Congruent
<1> QED BY <1>1, <1>4, <1>6

LEMMA CongruentAgain ==
  ASSUME NEW a \in Int, NEW b \in Int, NEW c \in Int, NEW n \in Nat,
         Congruent(a, b, n), Congruent(b, c, n)
  PROVE  Congruent(a, c, n)
<1>1. PICK q \in Int : a = b + n * q
  BY DEF Congruent
<1>2. PICK p \in Int : b = c + n * p
  BY DEF Congruent
<1>3. q + p \in Int /\ n * (q + p) = n * q + n * p
  OBVIOUS
<1>4. a = c + n * (q + p)
  BY <1>1, <1>2, <1>3
<1> QED BY <1>3, <1>4 DEF Congruent

LEMMA CongruentSum ==
  ASSUME NEW a \in Int, NEW b \in Int, NEW c \in Int, NEW d \in Int, NEW n \in Nat,
         Congruent(a, b, n), Congruent(c, d, n)
  PROVE  Congruent(a + c, b + d, n)
<1>1. PICK q \in Int : a = b + n * q
  BY DEF Congruent
<1>2. PICK p \in Int : c = d + n * p
  BY DEF Congruent
<1>3. q + p \in Int /\ n * (q + p) = n * q + n * p
  OBVIOUS
<1>4. a + c = (b + d) + n * (q + p)
  BY <1>1, <1>2, <1>3
<1> QED BY <1>3, <1>4 DEF Congruent

LEMMA CongruentProduct ==
  ASSUME NEW a \in Int, NEW b \in Int, NEW c \in Int, NEW d \in Int, NEW n \in Nat,
         Congruent(a, b, n), Congruent(c, d, n)
  PROVE  Congruent(a * c, b * d, n)
<1>1. PICK q \in Int : a = b + n * q
  BY DEF Congruent
<1>2. PICK p \in Int : c = d + n * p
  BY DEF Congruent
<1> DEFINE r == b * p + d * q + n * (q * p)
<1>3. r \in Int
  <2>1. b * p \in Int /\ d * q \in Int /\ q * p \in Int
    OBVIOUS
  <2>2. n * (q * p) \in Int
    BY <2>1
  <2> QED BY <2>1, <2>2
<1>4. (b + n * q) * (d + n * p) = b * d + n * r
  OBVIOUS
<1> QED BY <1>1, <1>2, <1>3, <1>4 DEF Congruent

LEMMA CongruentSelf ==
  ASSUME NEW a \in Int, NEW n \in Nat
  PROVE  Congruent(a, a, n)
<1>1. a = a + n * 0
  OBVIOUS
<1> QED BY <1>1 DEF Congruent

-----------------------------------------------------------------------------
(* Sums and products modulo a word.                                        *)

Modulo(n) == n \in Nat /\ 1 < n /\ n < Modulus

LEMMA SumIsExact ==
  ASSUME NEW a \in Nat, NEW b \in Nat, NEW n \in Nat, n > 0, n < Modulus
  PROVE  Words!AddModSafe(a, b, n) = (a + b) % n
<1> DEFINE am == a % n
           bm == b % n
<1>1. /\ Congruent(am, a, n) /\ Congruent(bm, b, n) /\ am \in Nat /\ bm \in Nat
      /\ am < n /\ bm < n
  <2>1. a \in Int /\ b \in Int
    OBVIOUS
  <2> QED BY <2>1, ItsRemainder
<1>2. Words!AddModSafe(a, b, n) =
        IF am > Modulus - 1 - bm THEN (am - (n - bm)) % n ELSE (am + bm) % n
  BY DEF Words!AddModSafe
<1> HIDE DEF am, bm
<1>3. Congruent(am + bm, a + b, n)
  BY <1>1, CongruentSum
<1>4. (am + bm) % n = (a + b) % n
  <2>1. am + bm \in Int /\ a + b \in Int
    BY <1>1
  <2> QED BY <1>3, <2>1, Remainder
<1>5. (am - (n - bm)) % n = (am + bm) % n
  <2>1. am - (n - bm) \in Int /\ am + bm \in Int /\ am - (n - bm) = (am + bm) + n * (-1)
    BY <1>1
  <2>2. Congruent(am - (n - bm), am + bm, n)
    BY <2>1 DEF Congruent
  <2> QED BY <2>1, <2>2, Remainder
<1> QED BY <1>2, <1>4, <1>5

\* A round of the multiplication: what is left to add stays the same, modulo n.
LEMMA RoundKeeps ==
  ASSUME NEW n \in Nat, n > 0, NEW r \in Nat, NEW b \in Nat, NEW e \in Nat
  PROVE  Congruent((IF e % 2 = 1 THEN (r + b) % n ELSE r) + ((b + b) % n) * (e \div 2), r + b * e, n)
<1> DEFINE q == e \div 2
           d == (b + b) % n
           s == (r + b) % n
<1>1. e = 2 * q + (e % 2) /\ q \in Nat /\ e % 2 \in 0 .. 1
  OBVIOUS
<1>2. Congruent(d, b + b, n) /\ d \in Nat /\ Congruent(s, r + b, n) /\ s \in Nat
  <2>1. b + b \in Int /\ r + b \in Int
    OBVIOUS
  <2> QED BY <2>1, ItsRemainder
<1> HIDE DEF q, d, s
<1>3. Congruent(d * q, (b + b) * q, n)
  <2>1. Congruent(q, q, n)
    BY <1>1, CongruentSelf
  <2>2. d \in Int /\ q \in Int /\ b + b \in Int
    BY <1>1, <1>2
  <2> QED BY <1>2, <2>1, <2>2, CongruentProduct
<1>4. d * q \in Int /\ (b + b) * q \in Int /\ r \in Int /\ r + b \in Int
  BY <1>1, <1>2
<1>5. CASE e % 2 = 1
  <2>1. Congruent(s + d * q, (r + b) + (b + b) * q, n)
    BY <1>2, <1>3, <1>4, CongruentSum
  <2>2. (r + b) + (b + b) * q = r + b * e
    <3>1. e = 2 * q + 1
      BY <1>1, <1>5
    <3>2. b * (2 * q + 1) = (b + b) * q + b
      BY <1>1
    <3> QED BY <1>4, <3>1, <3>2
  <2> QED BY <1>5, <2>1, <2>2 DEF q, d, s
<1>6. CASE e % 2 # 1
  <2>1. Congruent(r, r, n)
    BY CongruentSelf
  <2>2. Congruent(r + d * q, r + (b + b) * q, n)
    BY <1>3, <1>4, <2>1, CongruentSum
  <2>3. r + (b + b) * q = r + b * e
    <3>1. e = 2 * q
      BY <1>1, <1>6
    <3>2. b * (2 * q) = (b + b) * q
      BY <1>1
    <3> QED BY <3>1, <3>2
  <2> QED BY <1>6, <2>2, <2>3 DEF q, d, s
<1> QED BY <1>5, <1>6

\* What is left of the multiplication of x and y after k rounds.
Left(p, x, y, n, k) ==
  /\ p \in [result : Nat, base : Nat, exp : Nat]
  /\ p.result < n /\ p.base < n /\ p.exp < Power[Bits - k]
  /\ Congruent(p.result + p.base * p.exp, x * y, n)

Round(p, n) ==
  [result |-> IF p.exp % 2 = 1 THEN Words!AddModSafe(p.result, p.base, n) ELSE p.result,
   base |-> Words!AddModSafe(p.base, p.base, n), exp |-> p.exp \div 2]

LEMMA LeftAfterRound ==
  ASSUME NEW n \in Nat, n > 0, n < Modulus, NEW x \in Nat, NEW y \in Nat,
         NEW k \in 0 .. Bits - 1, NEW p, Left(p, x, y, n, k)
  PROVE  Left(Round(p, n), x, y, n, k + 1)
<1> DEFINE r == p.result
           b == p.base
           e == p.exp
           s == IF e % 2 = 1 THEN (r + b) % n ELSE r
           d == (b + b) % n
           q == e \div 2
<1>1. /\ r \in Nat /\ b \in Nat /\ e \in Nat /\ r < n /\ b < n /\ e < Power[Bits - k]
      /\ Congruent(r + b * e, x * y, n)
  BY DEF Left
<1> HIDE DEF r, b, e
<1>2. Congruent(s + d * q, r + b * e, n)
  BY <1>1, RoundKeeps
<1>3. /\ s \in Nat /\ s < n /\ d \in Nat /\ d < n /\ q \in Nat
      /\ (r + b) % n \in Nat /\ (r + b) % n < n
  <2>1. r + b \in Int /\ b + b \in Int
    BY <1>1
  <2>2. (r + b) % n \in Nat /\ (r + b) % n < n /\ d \in Nat /\ d < n
    BY <2>1, ItsRemainder
  <2>3. q \in Nat
    BY <1>1
  <2> QED BY <1>1, <2>2, <2>3
<1>4. q < Power[Bits - (k + 1)]
  <2>1. Bits - k \in 1 .. Bits /\ (Bits - k) - 1 = Bits - (k + 1) /\ Bits - (k + 1) \in 0 .. Bits
    BY Widths
  <2>2. Power[Bits - k] = 2 * Power[Bits - (k + 1)] /\ Power[Bits - (k + 1)] \in Nat
    BY <2>1, PowerIs
  <2> QED BY <1>1, <2>2
<1>5. Round(p, n) = [result |-> s, base |-> d, exp |-> q]
  <2>1. Words!AddModSafe(r, b, n) = (r + b) % n /\ Words!AddModSafe(b, b, n) = d
    BY <1>1, SumIsExact
  <2>2. s = IF e % 2 = 1 THEN Words!AddModSafe(r, b, n) ELSE r
    BY <2>1
  <2> HIDE DEF s, d
  <2> QED BY <2>1, <2>2 DEF Round, r, b, e
<1> HIDE DEF s, d, q
<1>6. Congruent(s + d * q, x * y, n)
  <2>1. s + d * q \in Int /\ r + b * e \in Int /\ x * y \in Int
    <3>1. \A i \in Nat, j \in Nat, m \in Nat : m + i * j \in Int
      OBVIOUS
    <3> QED BY <1>1, <1>3, <3>1
  <2> QED BY <1>1, <1>2, <2>1, CongruentAgain
<1> QED BY <1>3, <1>4, <1>5, <1>6 DEF Left

LEMMA ProductIsExact ==
  ASSUME NEW a \in Words!Words, NEW b \in Words!Words, NEW n \in Words!Words, n > 0
  PROVE  Words!MulModSafe(a, b, n) = (a * b) % n
<1> DEFINE am == a % n
           bm == b % n
           first == [result |-> 0, base |-> am, exp |-> bm]
           D == 0 .. Bits
           V == [result : Nat, base : Nat, exp : Nat]
           R == {p \in V : p.result < n /\ p.base < n}
           step == [z \in Nat \X R |-> Round(z[2], n)]
           loop == CHOOSE g : g = [k \in D |-> IF k = 0 THEN first ELSE Round(g[k - 1], n)]
<1>0. a \in Nat /\ b \in Nat /\ n \in Nat /\ a < Modulus /\ b < Modulus /\ n < Modulus
      /\ Modulus \in Nat /\ Bits \in Nat
  BY Sizes, Widths DEF Words!Words
<1>1. /\ Congruent(am, a, n) /\ Congruent(bm, b, n) /\ am \in Nat /\ bm \in Nat
      /\ am < n /\ bm < n
  BY <1>0, ItsRemainder
<1>d. Words!MulModSafe(a, b, n) =
        IF n <= 1 \/ a = 0 \/ b = 0 THEN 0
        ELSE IF am * bm < Modulus THEN (am * bm) % n ELSE loop[Bits].result
  BY DEF Words!MulModSafe, Round
<1>l. loop = CHOOSE g : g = [k \in D |-> IF k = 0 THEN first ELSE Round(g[k - 1], n)]
  OBVIOUS
<1> HIDE DEF am, bm, loop
<1>2. am * bm \in Int /\ a * b \in Int /\ (am * bm) % n = (a * b) % n
  <2>1. am * bm \in Int /\ a * b \in Int
    BY <1>0, <1>1
  <2>2. Congruent(am * bm, a * b, n)
    BY <1>0, <1>1, CongruentProduct
  <2> QED BY <1>0, <2>1, <2>2, Remainder
<1>3. ASSUME n <= 1 \/ a = 0 \/ b = 0 PROVE (a * b) % n = 0
  <2>1. CASE n <= 1
    <3>1. n = 1
      BY <1>0, <2>1
    <3>2. (a * b) % n \in Nat /\ (a * b) % n < n
      BY <1>0, <1>2, ItsRemainder
    <3> QED BY <3>1, <3>2
  <2>2. CASE a = 0 \/ b = 0
    <3>1. a * b = n * 0 + 0
      BY <1>0, <2>2
    <3> QED BY <1>0, <3>1, DividesAs
  <2> QED BY <1>3, <2>1, <2>2
<1>4. loop[Bits].result = (a * b) % n
  <2>1. first \in R
    BY <1>0, <1>1
  <2>2. \A p \in R : Round(p, n) \in R
    <3> TAKE p \in R
    <3>1. p.result \in Nat /\ p.base \in Nat /\ p.exp \in Nat /\ p.result < n /\ p.base < n
      OBVIOUS
    <3>0. n \in Nat /\ n > 0 /\ n < Modulus
      BY <1>0
    <3> HIDE DEF R
    <3>2. /\ Words!AddModSafe(p.result, p.base, n) = (p.result + p.base) % n
          /\ Words!AddModSafe(p.base, p.base, n) = (p.base + p.base) % n
      BY <3>0, <3>1, SumIsExact
    <3>3. p.result + p.base \in Int /\ p.base + p.base \in Int /\ p.exp \div 2 \in Nat
      BY <3>1
    <3>4. /\ (p.result + p.base) % n \in Nat /\ (p.result + p.base) % n < n
          /\ (p.base + p.base) % n \in Nat /\ (p.base + p.base) % n < n
      BY <1>0, <3>3, ItsRemainder
    <3> QED BY <3>1, <3>2, <3>3, <3>4 DEF Round, R
  <2> HIDE DEF R
  <2>3. step \in [Nat \X R -> R] /\ \A k \in Nat, p \in R : step[<<k, p>>] = Round(p, n)
    BY <2>2
  <2>f. first = [result |-> 0, base |-> am, exp |-> bm]
    OBVIOUS
  <2>g. 0 \in D /\ \A k \in D : k \in Nat /\ (k # 0 => k - 1 \in D)
    BY <1>0
  <2> HIDE DEF step, first
  <2>4. PICK f \in [D -> R] : Iterates(f, Bits, first, step)
    BY <1>0, <2>1, <2>3, Recursion
  <2>5. \A k \in D : f[k] = IF k = 0 THEN first ELSE step[<<k, f[k - 1]>>]
    BY <2>4 DEF Iterates
  <2> HIDE DEF D
  <2>6. \A k \in D : f[k] = IF k = 0 THEN first ELSE Round(f[k - 1], n)
    BY <2>3, <2>4, <2>5, <2>g
  <2>7. f = [k \in D |-> IF k = 0 THEN first ELSE Round(f[k - 1], n)]
    <3>1. f = [k \in D |-> f[k]]
      BY <2>4
    <3> QED BY <2>6, <3>1
  <2>8. loop = [k \in D |-> IF k = 0 THEN first ELSE Round(loop[k - 1], n)]
    BY <1>l, <2>7, Zenon
  <2>9. loop[0] = first /\ \A k \in D : k # 0 => loop[k] = Round(loop[k - 1], n)
    BY <2>8, <2>g
  <2> DEFINE T == {k \in Nat : k \in D => Left(loop[k], am, bm, n, k)}
  <2>10. 0 \in T
    <3>1. bm < Power[Bits - 0]
      <4>1. Bits - 0 = Bits /\ bm < Modulus
        BY <1>0, <1>1
      <4>2. Modulus = Power[Bits]
        BY Sizes
      <4> QED BY <4>1, <4>2
    <3>2. Congruent(0 + am * bm, am * bm, n)
      <4>1. 0 + am * bm = am * bm
        BY <1>2
      <4> QED BY <1>0, <1>2, <4>1, CongruentSelf
    <3> QED BY <1>0, <1>1, <2>9, <2>f, <3>1, <3>2 DEF Left
  <2>11. ASSUME NEW k \in Nat, k \in T PROVE k + 1 \in T
    <3> SUFFICES ASSUME k + 1 \in D PROVE Left(loop[k + 1], am, bm, n, k + 1)
      OBVIOUS
    <3>1. k \in D /\ k + 1 # 0 /\ (k + 1) - 1 = k /\ k \in 0 .. Bits - 1
      BY <1>0 DEF D
    <3>2. loop[k + 1] = Round(loop[k], n)
      BY <2>9, <3>1
    <3>3. Left(loop[k], am, bm, n, k)
      BY <2>11, <3>1
    <3>4. Left(Round(loop[k], n), am, bm, n, k + 1)
      BY <1>0, <1>1, <3>1, <3>3, LeftAfterRound
    <3> QED BY <3>2, <3>4
  <2> HIDE DEF T
  <2>12. Nat \subseteq T
    BY <2>10, <2>11, AllNumbers
  <2>13. Left(loop[Bits], am, bm, n, Bits)
    BY <1>0, <2>12 DEF T, D
  <2> DEFINE p == loop[Bits]
  <2>14. /\ p.result \in Nat /\ p.base \in Nat /\ p.exp \in Nat /\ p.result < n
         /\ p.exp < Power[Bits - Bits] /\ Congruent(p.result + p.base * p.exp, am * bm, n)
    BY <2>13 DEF Left
  <2> HIDE DEF p
  <2>15. p.exp = 0
    <3>1. Bits - Bits = 0
      BY <1>0
    <3> QED BY <2>14, <3>1, PowerIs
  <2>16. p.result + p.base * p.exp = p.result
    BY <2>14, <2>15
  <2>17. p.result % n = (am * bm) % n
    <3>1. Congruent(p.result, am * bm, n)
      BY <2>14, <2>16
    <3> QED BY <1>0, <1>2, <2>14, <3>1, Remainder
  <2>18. p.result % n = p.result
    <3>1. n * 0 + p.result = p.result
      BY <1>0, <2>14
    <3> QED BY <1>0, <2>14, <3>1, DividesAs
  <2> QED BY <1>2, <2>17, <2>18 DEF p
<1> QED BY <1>2, <1>3, <1>4, <1>d

-----------------------------------------------------------------------------
(* Signed words.                                                           *)

\* The remainder and the quotient of a number that is smaller than the divisor.
LEMMA Smaller ==
  ASSUME NEW a \in Nat, NEW n \in Nat, a < n
  PROVE  a % n = a /\ a \div n = 0
<1>1. n * 0 + a = a /\ n > 0
  OBVIOUS
<1> QED BY <1>1, DividesAs

\* The bit of h tells in which half of 2 * h the remainder is.
LEMMA UpperHalf ==
  ASSUME NEW h \in Nat, h > 0, NEW x \in Nat
  PROVE  (x \div h) % 2 = 1 <=> x % (2 * h) >= h
<1> DEFINE q == x \div (2 * h)
           r == x % (2 * h)
<1>1. x = (2 * h) * q + r /\ q \in Nat /\ r \in Nat /\ r < 2 * h
  <2>1. 2 * h \in Nat /\ 2 * h > 0 /\ x \in Int
    OBVIOUS
  <2>2. x = (2 * h) * q + r /\ q \in Int /\ r \in Nat /\ r < 2 * h
    BY <2>1, Divided
  <2>3. q >= 0
    <3>1. ASSUME q <= -1 PROVE FALSE
      <4>1. (2 * h) * q <= -(2 * h)
        BY <2>2, <3>1
      <4>2. (2 * h) * q \in Int
        BY <2>2
      <4> QED BY <2>2, <4>1, <4>2
    <3> QED BY <2>2, <3>1
  <2> QED BY <2>2, <2>3
<1> HIDE DEF q, r
<1>2. (2 * h) * q = h * (2 * q) /\ h * (2 * q + 1) = h * (2 * q) + h /\ h * (2 * q) \in Int
  BY <1>1
<1>3. CASE r < h
  <2>1. x = h * (2 * q) + r /\ 2 * q \in Int
    BY <1>1, <1>2
  <2>2. x \div h = 2 * q
    BY <1>1, <1>3, <2>1, DividesAs
  <2>3. (2 * q) % 2 = 0
    BY <1>1
  <2> QED BY <1>1, <1>3, <2>2, <2>3 DEF r
<1>4. CASE r >= h
  <2>1. x = h * (2 * q + 1) + (r - h) /\ 2 * q + 1 \in Int /\ r - h \in Nat /\ r - h < h
    BY <1>1, <1>2, <1>4
  <2>2. x \div h = 2 * q + 1
    BY <2>1, DividesAs
  <2>3. (2 * q + 1) % 2 = 1
    BY <1>1
  <2> QED BY <1>4, <2>2, <2>3 DEF r
<1> QED BY <1>1, <1>3, <1>4

LEMMA IsWord ==
  ASSUME NEW w \in Words!Words
  PROVE  w \in Nat /\ w < Modulus
BY Sizes DEF Words!Words

LEMMA NegativeIs ==
  ASSUME NEW w \in Words!Words
  PROVE  Words!IsNegative(w) <=> w >= Modulus \div 2
<1> DEFINE h == Power[Bits - 1]
<1>1. h \in Nat /\ h > 0 /\ Modulus = 2 * h /\ Modulus \div 2 = h
  <2>1. Bits - 1 \in 0 .. Bits
    BY Widths
  <2> QED BY <2>1, PowerIs, Sizes
<1>2. Words!IsNegative(w) <=> (w \div h) % 2 = 1
  BY SamePower DEF Words!IsNegative, Words!Bit
<1> HIDE DEF h
<1>3. w \in Nat /\ w % (2 * h) = w
  <2>1. w \in Nat /\ w < 2 * h /\ 2 * h \in Nat
    BY <1>1, IsWord
  <2> QED BY <2>1, Smaller
<1> QED BY <1>1, <1>2, <1>3, UpperHalf

\* The range of the i64, in numbers.
I64 == -(Low \div 2) .. (Low \div 2) - 1

LEMMA SignedRange ==
  ASSUME NEW w \in Words!Words
  PROVE  /\ Words!ToSigned(w) \in I64
         /\ Words!InI64(w) => Words!ToSigned(w) = Words!TwosComplement(w)
<1> DEFINE l == Low \div 2
           m == Modulus - w
<1>0. w \in Nat /\ w < Modulus /\ Modulus \in Nat /\ Low \in Nat /\ Low = 2 * l /\ l \in Nat
      /\ l >= 2 /\ Low <= Modulus /\ Low > 0 /\ Modulus \div 2 \in Nat /\ Modulus = 2 * (Modulus \div 2)
  BY IsWord, Sizes
<1>n. Words!IsNegative(w) <=> w >= Modulus \div 2
  BY NegativeIs
<1>1. w % Low \in Nat /\ w % Low < Low /\ m \in Nat /\ m % Low \in Nat /\ m % Low < Low
  BY <1>0, ItsRemainder
<1>2. \A i \in 0 .. Low - 1 : Words!AsI64(i) = (IF i >= l THEN i - Low ELSE i)
  BY DEF Words!AsI64
<1>3. /\ Words!AsI64(w % Low) = (IF w % Low >= l THEN (w % Low) - Low ELSE w % Low)
      /\ Words!AsI64(m % Low) = (IF m % Low >= l THEN (m % Low) - Low ELSE m % Low)
  BY <1>0, <1>1, <1>2
<1>4. Words!ToSigned(w) =
        IF w >= Modulus \div 2
        THEN IF Words!AsI64(m % Low) = -l THEN Words!AsI64(m % Low) ELSE -Words!AsI64(m % Low)
        ELSE Words!AsI64(w % Low)
  BY <1>n DEF Words!ToSigned
<1> HIDE DEF l, m
<1>5. Words!ToSigned(w) \in -l .. l - 1
  BY <1>0, <1>1, <1>3, <1>4
<1>6. ASSUME Words!InI64(w) PROVE Words!ToSigned(w) = Words!TwosComplement(w)
  <2>1. Words!TwosComplement(w) \in -l .. l - 1
    BY <1>6 DEF Words!InI64, l
  <2>2. CASE w >= Modulus \div 2
    <3>1. Words!TwosComplement(w) = w - Modulus
      BY <2>2 DEF Words!TwosComplement
    <3>2. m = Modulus - w /\ m > 0 /\ m <= l
      BY <1>0, <2>1, <3>1 DEF m
    <3>3. m % Low = m
      BY <1>0, <1>1, <3>2, Smaller
    <3> QED BY <1>0, <1>1, <1>3, <1>4, <2>2, <3>1, <3>2, <3>3
  <2>3. CASE w < Modulus \div 2
    <3>1. Words!TwosComplement(w) = w
      BY <1>0, <2>3 DEF Words!TwosComplement
    <3>2. w < l
      BY <1>0, <2>1, <3>1
    <3>3. w % Low = w
      BY <1>0, <3>2, Smaller
    <3> QED BY <1>0, <1>3, <1>4, <2>3, <3>1, <3>2, <3>3
  <2> QED BY <1>0, <2>2, <2>3
<1> QED BY <1>5, <1>6 DEF I64, l

\* The quotient towards zero and what it leaves are in the range of the i64, but for the
\* one quotient that panics.
LEMMA QuotientRange ==
  ASSUME NEW i \in I64, NEW j \in I64, j # 0
  PROVE  /\ Words!Quotient(i, j) \in Int /\ i - j * Words!Quotient(i, j) \in I64
         /\ ~Words!DividePanics(i, j) => Words!Quotient(i, j) \in I64
<1> DEFINE l == Low \div 2
           a == Words!Abs(i)
           b == Words!Abs(j)
           q == a \div b
           r == a % b
           Q == Words!Quotient(i, j)
<1>0. l \in Nat /\ l > 0 /\ i \in -l .. l - 1 /\ j \in -l .. l - 1
  BY Sizes DEF I64
<1>1. /\ a \in Nat /\ b \in Nat /\ b > 0 /\ a = (IF i < 0 THEN -i ELSE i)
      /\ b = (IF j < 0 THEN -j ELSE j)
  BY <1>0 DEF Words!Abs
<1>2. Q = IF (i < 0) = (j < 0) THEN q ELSE -q
  BY DEF Words!Quotient
<1>p. Words!DividePanics(i, j) <=> i = -l /\ j = -1
  BY DEF Words!DividePanics
<1>i. I64 = -l .. l - 1
  BY DEF I64
<1> HIDE DEF a, b, l
<1>3. a = b * q + r /\ q \in Int /\ r \in Nat /\ r < b
  <2>1. a \in Int
    BY <1>1
  <2> QED BY <1>1, <2>1, Divided
<1> HIDE DEF q, r, Q
<1>4. q \in Nat
  <2>1. ASSUME q <= -1 PROVE FALSE
    <3>1. b * q <= -b
      BY <1>1, <1>3, <2>1
    <3> QED BY <1>1, <1>3, <3>1
  <2> QED BY <1>3, <2>1
<1>5. b * q \in Nat /\ q <= b * q
  BY <1>1, <1>4
<1>6. q <= a /\ r <= a
  BY <1>1, <1>3, <1>5
<1>7. b >= 2 => 2 * q <= a
  <2> SUFFICES ASSUME b >= 2 PROVE 2 * q <= a
    OBVIOUS
  <2>1. 2 * q <= b * q
    BY <1>1, <1>4
  <2> QED BY <1>1, <1>3, <1>4, <1>5, <2>1
<1>8. j * q = (IF j < 0 THEN -(b * q) ELSE b * q) /\ j * (-q) = -(j * q) /\ j * q \in Int
  <2>1. j = (IF j < 0 THEN -b ELSE b)
    BY <1>0, <1>1
  <2>2. (-b) * q = -(b * q)
    BY <1>1, <1>4
  <2>3. j * q = (IF j < 0 THEN -(b * q) ELSE b * q)
    BY <2>1, <2>2
  <2>4. j * (-q) = -(j * q) /\ j * q \in Int
    BY <1>0, <1>4
  <2> QED BY <2>3, <2>4
<1>9. i - j * Q = (IF i < 0 THEN -r ELSE r)
  <2>1. CASE (i < 0) = (j < 0)
    BY <1>0, <1>1, <1>2, <1>3, <1>5, <1>8, <2>1
  <2>2. CASE (i < 0) # (j < 0)
    BY <1>0, <1>1, <1>2, <1>3, <1>5, <1>8, <2>2
  <2> QED BY <2>1, <2>2
<1>10. i - j * Q \in -l .. l - 1
  BY <1>0, <1>1, <1>3, <1>6, <1>9
<1>11. Q \in Int
  BY <1>2, <1>4
<1>12. ~(i = -l /\ j = -1) => Q \in -l .. l - 1
  BY <1>0, <1>1, <1>2, <1>3, <1>4, <1>6, <1>7
<1> QED BY <1>10, <1>11, <1>12, <1>p, <1>i DEF Q

\* As a word, a number of that range is itself modulo the words.
LEMMA FromSignedIs ==
  ASSUME NEW i \in I64
  PROVE  /\ Words!FromSigned(i) = i % Modulus
         /\ Words!FromSigned(i) \in Nat /\ Words!FromSigned(i) < Modulus
<1>0. i \in Int /\ Modulus \in Nat /\ -Modulus < i /\ i < Modulus
  BY Sizes DEF I64
<1>1. CASE i < 0
  <2>1. i = Modulus * (-1) + (Modulus + i) /\ Modulus + i \in Nat /\ Modulus + i < Modulus
    BY <1>0, <1>1
  <2>2. i % Modulus = Modulus + i
    BY <1>0, <2>1, DividesAs
  <2> QED BY <1>1, <2>1, <2>2 DEF Words!FromSigned
<1>2. CASE i >= 0
  <2>1. i \in Nat /\ i % Modulus = i
    BY <1>0, <1>2, Smaller
  <2> QED BY <1>0, <1>2, <2>1 DEF Words!FromSigned
<1> QED BY <1>0, <1>1, <1>2

IsResult(w) == w \in Nat /\ w <= Modulus

DivisionIs(o, i, j, w) ==
  /\ Words!DividePanics(i, j) => w = Modulus
  /\ ~Words!DividePanics(i, j) => w = Words!SignedExact(o, i, j) /\ w \in Nat /\ w < Modulus

LEMMA DivisionsAre ==
  ASSUME NEW x \in Words!Words, NEW y \in Words!Words, y # 0, NEW o \in {"SDIV", "SMOD"}
  PROVE  DivisionIs(o, Words!ToSigned(x), Words!ToSigned(y), Words!Result2(o, x, y))
<1> DEFINE i == Words!ToSigned(x)
           j == Words!ToSigned(y)
           w == Words!Result2(o, x, y)
           Q == Words!Quotient(i, j)
<1>0. i \in I64 /\ j \in I64
  BY SignedRange
<1>1. w = IF Words!DividePanics(i, j) THEN Modulus
          ELSE Words!FromSigned(IF o = "SDIV" THEN Q ELSE i - j * Q)
  BY DEF Words!Result2, Words!SDiv, Words!SMod, Words!Panic
<1>e. Words!SignedExact(o, i, j) = IF j = 0 THEN 0
                             ELSE (IF o = "SDIV" THEN Q ELSE i - j * Q) % Modulus
  BY DEF Words!SignedExact
<1>z. Words!DividePanics(i, j) \/ j # 0
  BY DEF Words!DividePanics
<1> HIDE DEF i, j, w
<1>2. ASSUME ~Words!DividePanics(i, j) PROVE w = Words!SignedExact(o, i, j) /\ w \in Nat /\ w < Modulus
  <2>1. j # 0
    BY <1>2, <1>z
  <2>2. Q \in I64 /\ i - j * Q \in I64
    BY <1>0, <1>2, <2>1, QuotientRange
  <2> DEFINE v == IF o = "SDIV" THEN Q ELSE i - j * Q
  <2>3. v \in I64
    BY <2>2
  <2>4. w = Words!FromSigned(v) /\ Words!SignedExact(o, i, j) = v % Modulus
    BY <1>1, <1>2, <1>e, <2>1
  <2> HIDE DEF v
  <2> QED BY <2>3, <2>4, FromSignedIs
<1> QED BY <1>1, <1>2 DEF i, j, w, DivisionIs

LEMMA SignedAre ==
  ASSUME NEW x \in Words!Words, NEW y \in Words!Words, NEW o \in Words!Signed
  PROVE  /\ IsResult(Words!Result2(o, x, y))
         /\ Words!InI64(x) /\ Words!InI64(y) =>
              LET i == Words!TwosComplement(x)
                  j == Words!TwosComplement(y)
              IN Words!Result2(o, x, y) = IF Words!SignedPanics(o, i, j) THEN Modulus
                                          ELSE Words!SignedExact(o, i, j)
         /\ Words!InI64(x) /\ Words!InI64(y) /\ Words!Result2(o, x, y) = Modulus =>
              Words!SignedPanics(o, Words!TwosComplement(x), Words!TwosComplement(y))
<1> DEFINE i == Words!ToSigned(x)
           j == Words!ToSigned(y)
           w == Words!Result2(o, x, y)
<1>0. x \in Nat /\ x < Modulus /\ y \in Nat /\ y < Modulus /\ Modulus \in Nat /\ Modulus > 0
      /\ Modulus \div 2 \in Nat /\ Modulus = 2 * (Modulus \div 2) /\ 0 \in Words!Words
  BY IsWord, Sizes DEF Words!Words
<1>1. /\ Words!InI64(x) => i = Words!TwosComplement(x)
      /\ Words!InI64(y) => j = Words!TwosComplement(y)
  BY SignedRange
<1>2. i \in Int /\ j \in Int
  BY SignedRange DEF I64
<1>3. Words!TwosComplement(y) = 0 <=> y = 0
  BY <1>0 DEF Words!TwosComplement
<1>4. CASE o \in {"SLT", "SGT"}
  <2>1. w = Words!SignedExact(o, i, j)
    BY <1>4 DEF Words!Result2, Words!SignedExact
  <2>2. ~Words!SignedPanics(o, i, j)
    BY <1>4 DEF Words!SignedPanics
  <2>3. w \in Nat /\ w < Modulus
    BY <1>4, <2>1, Sizes DEF Words!SignedExact, Words!Truth
  <2> HIDE DEF i, j, w
  <2> QED BY <1>0, <1>1, <2>1, <2>2, <2>3 DEF IsResult, w
<1>5. CASE o \in {"SDIV", "SMOD"} /\ y = 0
  <2>1. w = 0
    BY <1>5 DEF Words!Result2, Words!SDiv, Words!SMod
  <2>2. Words!SignedExact(o, i, 0) = 0 /\ ~Words!SignedPanics(o, i, 0)
    BY <1>5 DEF Words!SignedExact, Words!SignedPanics
  <2>3. Words!InI64(y) => j = 0
    BY <1>1, <1>3, <1>5
  <2> HIDE DEF i, j, w
  <2> QED BY <1>0, <1>1, <2>1, <2>2, <2>3 DEF IsResult, w
<1>6. CASE o \in {"SDIV", "SMOD"} /\ y # 0
  <2>1. /\ Words!DividePanics(i, j) => w = Modulus
        /\ ~Words!DividePanics(i, j) => w = Words!SignedExact(o, i, j) /\ w \in Nat /\ w < Modulus
    BY <1>6, DivisionsAre DEF DivisionIs
  <2>2. Words!InI64(y) => j # 0
    BY <1>1, <1>3, <1>6
  <2>3. j # 0 => (Words!SignedPanics(o, i, j) <=> Words!DividePanics(i, j))
    BY <1>6 DEF Words!SignedPanics
  <2> HIDE DEF i, j, w
  <2> QED BY <1>0, <1>1, <2>1, <2>2, <2>3 DEF IsResult, w
<1> QED BY <1>4, <1>5, <1>6 DEF Words!Signed

-----------------------------------------------------------------------------
(* Shifts, and the extension of a sign.                                    *)

\* A power by which a word is shifted, and what is left of the word.
LEMMA ShiftParts ==
  ASSUME NEW s \in 0 .. Bits
  PROVE  /\ Power[s] \in Nat /\ Power[s] > 0 /\ Power[Bits - s] \in Nat /\ Power[Bits - s] > 0
         /\ Modulus = Power[s] * Power[Bits - s]
         /\ Power[s] <= Modulus /\ Power[Bits - s] <= Modulus
<1>1. Bits \in 0 .. Bits /\ Bits - s \in 0 .. Bits /\ s \in 0 .. Bits
      /\ s \in 0 .. Bits /\ Bits - s \in Nat
  BY Widths
<1>2. Modulus = Power[Bits] /\ Power[Bits] = Power[s] * Power[Bits - s] /\ Power[s] <= Power[Bits]
  BY <1>1, PowerAdds, Sizes
<1>3. Power[Bits - s] <= Power[Bits]
  BY <1>1, PowerAdds
<1> QED BY <1>1, <1>2, <1>3, PowerIs

LEMMA ShiftedDown ==
  ASSUME NEW s \in 0 .. Bits, NEW v \in Words!Words
  PROVE  /\ v \div Power[s] \in Nat /\ v \div Power[s] < Power[Bits - s]
         /\ (v - Modulus) \div Power[s] = (v \div Power[s]) - Power[Bits - s]
<1> DEFINE p == Power[s]
           r == Power[Bits - s]
           q == v \div p
<1>0. p \in Nat /\ p > 0 /\ r \in Nat /\ r > 0 /\ Modulus = p * r
  BY ShiftParts
<1>1. v \in Nat /\ v < Modulus
  BY IsWord
<1> HIDE DEF p, r
<1>2. v = p * q + (v % p) /\ q \in Int /\ v % p \in Nat /\ v % p < p
  BY <1>0, <1>1, Divided
<1> DEFINE t == v % p
<1> HIDE DEF q, t
<1>3. v = p * q + t /\ q \in Int /\ t \in Nat /\ t < p
  BY <1>2 DEF t
<1>4. q \in Nat
  <2>1. ASSUME q <= -1 PROVE FALSE
    <3>1. p * q <= -p
      BY <1>0, <1>3, <2>1
    <3> QED BY <1>0, <1>1, <1>3, <3>1
  <2> QED BY <1>3, <2>1
<1>5. q < r
  <2>1. ASSUME q >= r PROVE FALSE
    <3>1. p * q >= p * r
      BY <1>0, <1>4, <2>1
    <3> QED BY <1>0, <1>1, <1>3, <3>1
  <2> QED BY <1>0, <1>4, <2>1
<1>6. (v - Modulus) \div p = q - r
  <2>1. p * (q - r) = p * q - p * r /\ q - r \in Int /\ p * q \in Int /\ p * r \in Int
    BY <1>0, <1>4
  <2>2. v - Modulus = p * (q - r) + t
    BY <1>0, <1>3, <2>1
  <2> QED BY <1>0, <1>3, <2>1, <2>2, DividesAs
<1> QED BY <1>4, <1>5, <1>6 DEF p, q, r

LEMMA ShlIs ==
  ASSUME NEW s \in Words!Words, NEW v \in Words!Words
  PROVE  /\ Words!Shl(s, v) = (v * Power[Words!Shift(s)]) % Modulus
         /\ Words!Shl(s, v) \in Nat /\ Words!Shl(s, v) < Modulus
<1>0. s \in Nat /\ v \in Nat /\ Bits \in Nat /\ Modulus \in Nat /\ Modulus > 0
  BY IsWord, Widths, Sizes
<1>1. CASE s >= Bits
  <2>1. Words!Shift(s) = Bits /\ Words!Shl(s, v) = 0
    BY <1>0, <1>1 DEF Words!Shift, Words!Shl
  <2>2. v * Power[Bits] = Modulus * v + 0
    BY <1>0, Sizes
  <2>3. (v * Power[Bits]) % Modulus = 0
    BY <1>0, <2>2, DividesAs
  <2> QED BY <1>0, <2>1, <2>3
<1>2. CASE s < Bits
  <2>1. Words!Shift(s) = s /\ Words!Shl(s, v) = (v * Power[s]) % Modulus /\ s \in 0 .. Bits
    BY <1>0, <1>2, SamePower DEF Words!Shift, Words!Shl
  <2>2. v * Power[s] \in Int
    BY <1>0, <2>1, PowerIs
  <2> QED BY <1>0, <2>1, <2>2, ItsRemainder
<1> QED BY <1>0, <1>1, <1>2

LEMMA SarIs ==
  ASSUME NEW s \in Words!Words, NEW v \in Words!Words
  PROVE  /\ Words!Sar(s, v) = (Words!TwosComplement(v) \div Power[Words!Shift(s)]) % Modulus
         /\ Words!Sar(s, v) \in Nat /\ Words!Sar(s, v) < Modulus
<1> DEFINE n == Words!Shift(s)
           q == v \div Power[n]
           r == Power[Bits - n]
<1>0. s \in Nat /\ v \in Nat /\ v < Modulus /\ Bits \in Nat /\ Modulus \in Nat /\ Modulus > 0
  BY IsWord, Widths, Sizes
<1>1. n \in 0 .. Bits
  BY <1>0 DEF Words!Shift
<1>2. q \in Nat /\ q < r /\ (v - Modulus) \div Power[n] = q - r /\ r \in Nat /\ r <= Modulus
  BY <1>1, ShiftedDown, ShiftParts
<1>3. Words!TwosComplement(v) = IF Words!IsNegative(v) THEN v - Modulus ELSE v
  BY NegativeIs DEF Words!TwosComplement
<1>4. Words!Sar(s, v) = IF Words!IsNegative(v) THEN Modulus - r + q ELSE q
  <2>1. CASE s >= Bits
    <3>0. n = Bits
      BY <1>0, <2>1 DEF Words!Shift
    <3>1. n = Bits /\ Bits - n = 0 /\ Power[Bits - n] = 1 /\ Power[n] = Modulus
      <4>1. Bits - n = 0
        BY <1>0, <3>0
      <4> HIDE DEF n
      <4> QED BY <3>0, <4>1, PowerIs, Sizes
    <3>2. q = 0
      <4> HIDE DEF n
      <4> QED BY <1>0, <3>1, Smaller
    <3>3. Words!Sar(s, v) = IF Words!IsNegative(v) THEN Modulus - 1 ELSE 0
      BY <2>1 DEF Words!Sar
    <3> HIDE DEF q, n
    <3> QED BY <1>0, <3>1, <3>2, <3>3
  <2>2. CASE s < Bits
    <3>1. n = s /\ Words!Shr(s, v) = q
      BY <1>0, <2>2, SamePower DEF Words!Shift, Words!Shr
    <3>2. Words!Sar(s, v) = q + (IF Words!IsNegative(v) /\ s > 0 THEN Modulus - r ELSE 0)
      BY <1>0, <2>2, <3>1, SamePower DEF Words!Sar
    <3>3. s = 0 => r = Modulus
      <4>1. s = 0 => Bits - n = Bits
        BY <1>0, <3>1
      <4> QED BY <4>1, Sizes
    <3> HIDE DEF q, r, n
    <3> QED BY <1>0, <1>2, <3>2, <3>3
  <2> QED BY <1>0, <2>1, <2>2
<1> HIDE DEF q, r, n
<1>5. CASE Words!IsNegative(v)
  <2>1. q - r = Modulus * (-1) + (Modulus - r + q) /\ Modulus - r + q \in Nat
        /\ Modulus - r + q < Modulus
    BY <1>0, <1>2
  <2>2. (q - r) % Modulus = Modulus - r + q
    BY <1>0, <2>1, DividesAs
  <2> QED BY <1>2, <1>3, <1>4, <1>5, <2>1, <2>2 DEF n
<1>6. CASE ~Words!IsNegative(v)
  <2>1. q < Modulus
    BY <1>0, <1>2
  <2>2. q % Modulus = q
    BY <1>0, <1>2, <2>1, Smaller
  <2> QED BY <1>2, <1>3, <1>4, <1>6, <2>1, <2>2 DEF n, q
<1> QED BY <1>5, <1>6

LEMMA BytesFit ==
  /\ Words!Bytes \in Nat /\ Bits = ByteBits * Words!Bytes
  /\ \A b \in Nat : b < Words!Bytes =>
       /\ b * ByteBits + ByteBits \in 1 .. Bits /\ (b + 1) * ByteBits = b * ByteBits + ByteBits
       /\ (Words!Bytes - 1 - b) * ByteBits \in 0 .. Bits /\ ByteBits <= Bits
<1> DEFINE c == Words!Bytes
<1>0. Bits \in Nat /\ ByteBits \in Nat /\ ByteBits > 0
  BY Widths
<1>1. Bits = ByteBits * c + (Bits % ByteBits) /\ c \in Int
  BY <1>0, Divided DEF Words!Bytes
<1>2. Bits = ByteBits * c
  <2>1. ByteBits * c \in Int
    BY <1>0, <1>1
  <2> QED BY <1>1, <2>1, Widths
<1> HIDE DEF c
<1>3. c \in Nat
  <2>1. ASSUME c <= -1 PROVE FALSE
    <3>1. ByteBits * c <= -ByteBits
      BY <1>0, <1>1, <2>1
    <3> QED BY <1>0, <1>2, <3>1
  <2> QED BY <1>1, <2>1
<1>4. ASSUME NEW b \in Nat, b < c
      PROVE  /\ b * ByteBits + ByteBits \in 1 .. Bits /\ (b + 1) * ByteBits = b * ByteBits + ByteBits
             /\ (c - 1 - b) * ByteBits \in 0 .. Bits /\ ByteBits <= Bits
  <2>1. (b + 1) * ByteBits = b * ByteBits + ByteBits /\ b * ByteBits \in Nat
    BY <1>0
  <2>2. ByteBits * c = c * ByteBits /\ c * ByteBits \in Nat
    BY <1>0, <1>3
  <2>3. (b + 1) * ByteBits <= c * ByteBits
    BY <1>0, <1>3, <1>4
  <2>4. c - 1 - b \in Nat /\ c - 1 - b <= c
    BY <1>3, <1>4
  <2>5. (c - 1 - b) * ByteBits \in Nat /\ (c - 1 - b) * ByteBits <= c * ByteBits
    BY <1>0, <1>3, <2>4
  <2> QED BY <1>0, <1>2, <2>1, <2>2, <2>3, <2>5
<1> QED BY <1>2, <1>3, <1>4 DEF c

LEMMA ExtensionIs ==
  ASSUME NEW b \in Words!Words, NEW x \in Words!Words, b < Words!Bytes - 1
  PROVE  /\ \E v \in -Modulus .. Modulus :
              Words!Extends(v, Words!SignExtend(b, x), x, Power[(b + 1) * ByteBits])
         /\ Words!SignExtend(b, x) \in Nat /\ Words!SignExtend(b, x) < Modulus
<1> DEFINE k == b * ByteBits + ByteBits
           span == Power[k]
           h == Power[k - 1]
           r == x % span
           w == Words!SignExtend(b, x)
<1>0. b \in Nat /\ x \in Nat /\ x < Modulus /\ Modulus \in Nat
  BY IsWord, Sizes
<1>1. k \in 1 .. Bits /\ k \in 0 .. Bits /\ k - 1 \in 0 .. Bits /\ (b + 1) * ByteBits = k
  <2>1. b < Words!Bytes /\ Bits \in Nat
    BY <1>0, BytesFit, Widths
  <2>2. k \in 1 .. Bits /\ (b + 1) * ByteBits = k
    BY <1>0, <2>1, BytesFit
  <2> HIDE DEF k
  <2> QED BY <2>1, <2>2
<1>2. w = r + (IF Words!Bit(x, k - 1) THEN Modulus - span ELSE 0)
  <2>1. ~(b >= Words!Bytes) /\ b # Words!Bytes - 1
    BY <1>0, BytesFit
  <2>2. w = (x % Words!Power[k])
             + (IF Words!Bit(x, k - 1) THEN Modulus - Words!Power[k] ELSE 0)
    <3>1. b * ByteBits + ByteBits - 1 = k - 1
      <4>1. b * ByteBits \in Int /\ ByteBits \in Int
        BY <1>0, Widths
      <4> QED BY <4>1
    <3> QED BY <2>1, <3>1 DEF Words!SignExtend
  <2> HIDE DEF k, w
  <2> QED BY <2>2, SamePower
<1> HIDE DEF k, w
<1>3. /\ span \in Nat /\ span > 0 /\ h \in Nat /\ h > 0 /\ span = 2 * h
      /\ span <= Modulus
  BY <1>1, PowerIs, ShiftParts
<1>4. Words!Bit(x, k - 1) <=> r >= h
  <2>1. Words!Bit(x, k - 1) <=> (x \div h) % 2 = 1
    BY SamePower DEF Words!Bit
  <2> HIDE DEF h, span
  <2>2. (x \div h) % 2 = 1 <=> x % (2 * h) >= h
    BY <1>0, <1>3, UpperHalf
  <2> QED BY <1>3, <2>1, <2>2
<1> HIDE DEF span, h
<1>5. r \in Nat /\ r < span /\ Congruent(r, x, span)
  <2>1. x \in Int
    BY <1>0
  <2> QED BY <1>3, <2>1, ItsRemainder
<1> HIDE DEF r
<1> DEFINE v == IF r >= h THEN r - span ELSE r
<1>6. v \in Int /\ v \in -Modulus .. Modulus /\ 2 * v \in -span .. span - 1
  BY <1>0, <1>3, <1>5
<1>7. w = IF r >= h THEN Modulus + v ELSE v
  BY <1>0, <1>2, <1>3, <1>4, <1>5
<1>8. w \in Nat /\ w < Modulus /\ w = v % Modulus
  <2>1. CASE r >= h
    <3>1. v = Modulus * (-1) + w /\ w \in Nat /\ w < Modulus
      BY <1>0, <1>3, <1>5, <1>7, <2>1
    <3> HIDE DEF v
    <3>2. v % Modulus = w
      BY <1>0, <3>1, DividesAs
    <3> QED BY <3>1, <3>2
  <2>2. CASE r < h
    <3>1. w = v /\ w \in Nat /\ w < Modulus
      BY <1>0, <1>3, <1>5, <1>7, <2>2
    <3> HIDE DEF v
    <3>2. v % Modulus = w
      BY <1>0, <3>1, Smaller
    <3> QED BY <3>1, <3>2
  <2> QED BY <1>3, <1>5, <2>1, <2>2
<1>9. (v - x) % span = 0
  <2>1. PICK q \in Int : r = x + span * q
    BY <1>5 DEF Congruent
  <2>2. v - x = span * (IF r >= h THEN q - 1 ELSE q) + 0
    <3>1. span * (q - 1) = span * q - span /\ span * q \in Int
      BY <1>3
    <3> QED BY <1>0, <1>3, <1>5, <2>1, <3>1
  <2> DEFINE p == IF r >= h THEN q - 1 ELSE q
  <2>3. p \in Int /\ v - x = span * p + 0
    BY <2>2
  <2> HIDE DEF p, v
  <2> QED BY <1>3, <2>3, DividesAs
<1> HIDE DEF v
<1>10. Words!Extends(v, w, x, span)
  BY <1>6, <1>8, <1>9 DEF Words!Extends
<1> QED BY <1>1, <1>6, <1>8, <1>10 DEF w, span

LEMMA ByteIsWord ==
  ASSUME NEW i \in Words!Words, NEW x \in Words!Words
  PROVE  Words!ByteAt(i, x) \in Nat /\ Words!ByteAt(i, x) < Modulus
<1>0. i \in Nat /\ x \in Nat /\ Modulus \in Nat /\ Modulus > 0 /\ ByteBits \in Nat
  BY IsWord, Sizes, Widths
<1>1. CASE i >= Words!Bytes
  BY <1>0, <1>1 DEF Words!ByteAt
<1>2. CASE i < Words!Bytes
  <2>1. (Words!Bytes - 1 - i) * ByteBits \in 0 .. Bits /\ ByteBits \in 0 .. Bits
    BY <1>0, <1>2, BytesFit
  <2> DEFINE p == Power[(Words!Bytes - 1 - i) * ByteBits]
             m == Power[ByteBits]
  <2>2. p \in Nat /\ p > 0 /\ m \in Nat /\ m > 0 /\ m <= Modulus
    BY <2>1, ShiftParts
  <2>3. Words!ByteAt(i, x) = (x \div p) % m
    BY <1>0, <1>2, BytesFit, SamePower DEF Words!ByteAt
  <2> HIDE DEF p, m
  <2>4. x \div p \in Int
    BY <1>0, <2>2, Divided
  <2>5. (x \div p) % m \in Nat /\ (x \div p) % m < m
    BY <2>2, <2>4, ItsRemainder
  <2> QED BY <1>0, <2>2, <2>3, <2>5
<1> QED BY <1>0, <1>1, <1>2, BytesFit

-----------------------------------------------------------------------------
(* What the operations leave.                                              *)

LEMMA Modular ==
  ASSUME NEW a \in Int
  PROVE  a % Modulus \in Nat /\ a % Modulus < Modulus
<1>1. Modulus \in Nat /\ Modulus > 0
  BY Sizes
<1> QED BY <1>1, ItsRemainder

LEMMA TernaryAre ==
  ASSUME NEW o \in Words!Ternary, NEW a \in Words!Words, NEW b \in Words!Words,
         NEW n \in Words!Words
  PROVE  /\ Words!Result3(o, a, b, n) =
              IF n = 0 THEN 0 ELSE (IF o = "ADDMOD" THEN a + b ELSE a * b) % n
         /\ Words!Result3(o, a, b, n) \in Nat /\ Words!Result3(o, a, b, n) < Modulus
<1>0. a \in Nat /\ b \in Nat /\ n \in Nat /\ n < Modulus /\ Modulus \in Nat /\ Modulus > 0
  BY IsWord, Sizes
<1>1. CASE n = 0
  BY <1>0, <1>1 DEF Words!Result3
<1>2. CASE n # 0
  <2> DEFINE e == IF o = "ADDMOD" THEN a + b ELSE a * b
  <2>1. n > 0
    BY <1>0, <1>2
  <2>2. Words!AddModSafe(a, b, n) = (a + b) % n /\ Words!MulModSafe(a, b, n) = (a * b) % n
    BY <1>0, <2>1, SumIsExact, ProductIsExact
  <2>3. Words!Result3(o, a, b, n) = e % n
    BY <1>2, <2>2 DEF Words!Result3, Words!Ternary
  <2>4. e \in Int
    BY <1>0
  <2> HIDE DEF e
  <2>5. e % n \in Nat /\ e % n < n
    BY <1>0, <2>1, <2>4, ItsRemainder
  <2>6. Words!Result3(o, a, b, n) \in Nat /\ Words!Result3(o, a, b, n) < Modulus
    BY <1>0, <2>3, <2>5
  <2> QED BY <1>2, <2>3, <2>6 DEF e
<1> QED BY <1>1, <1>2

LEMMA QuotientIsWord ==
  ASSUME NEW a \in Nat, NEW b \in Nat, b > 0
  PROVE  a \div b \in Nat /\ a \div b <= a
<1> DEFINE q == a \div b
<1>1. a = b * q + (a % b) /\ q \in Int /\ a % b \in Nat /\ a % b < b
  <2>1. a \in Int
    OBVIOUS
  <2> QED BY <2>1, Divided
<1> DEFINE r == a % b
<1> HIDE DEF q, r
<1>2. a = b * q + r /\ q \in Int /\ r \in Nat /\ r < b
  BY <1>1 DEF r
<1>3. q \in Nat
  <2>1. ASSUME q <= -1 PROVE FALSE
    <3>1. b * q <= -b
      BY <1>2, <2>1
    <3> QED BY <1>2, <3>1
  <2> QED BY <1>2, <2>1
<1>4. q <= b * q
  BY <1>3
<1> QED BY <1>2, <1>3, <1>4 DEF q

LEMMA ShrIsWord ==
  ASSUME NEW s \in Words!Words, NEW v \in Words!Words
  PROVE  Words!Shr(s, v) \in Nat /\ Words!Shr(s, v) < Modulus
<1>0. s \in Nat /\ v \in Nat /\ v < Modulus /\ Bits \in Nat /\ Modulus \in Nat /\ Modulus > 0
  BY IsWord, Widths, Sizes
<1>1. CASE s >= Bits
  BY <1>0, <1>1 DEF Words!Shr
<1>2. CASE s < Bits
  <2>1. s \in 0 .. Bits
    BY <1>0, <1>2
  <2>2. Power[s] \in Nat /\ Power[s] > 0
    BY <2>1, ShiftParts
  <2>3. Words!Shr(s, v) = v \div Power[s]
    BY <1>0, <1>2, SamePower DEF Words!Shr
  <2>4. v \div Power[s] \in Nat /\ v \div Power[s] <= v
    BY <1>0, <2>2, QuotientIsWord
  <2> QED BY <1>0, <2>3, <2>4
<1> QED BY <1>0, <1>1, <1>2

LEMMA BinaryAre ==
  ASSUME NEW o \in Words!Binary, NEW a \in Words!Words, NEW b \in Words!Words
  PROVE  IsResult(Words!Result2(o, a, b))
<1> DEFINE w == Words!Result2(o, a, b)
<1>0. a \in Nat /\ a < Modulus /\ b \in Nat /\ b < Modulus /\ Modulus \in Nat /\ Modulus > 1
  BY IsWord, Sizes
<1>1. CASE o \in {"ADD", "MUL", "SUB"}
  <2>1. a + b \in Int /\ a * b \in Int /\ a - b \in Int
    BY <1>0
  <2>2. /\ (a + b) % Modulus \in Nat /\ (a + b) % Modulus < Modulus
        /\ (a * b) % Modulus \in Nat /\ (a * b) % Modulus < Modulus
        /\ (a - b) % Modulus \in Nat /\ (a - b) % Modulus < Modulus
    BY <2>1, Modular
  <2>3. w = (a + b) % Modulus \/ w = (a * b) % Modulus \/ w = (a - b) % Modulus
    BY <1>1 DEF Words!Result2
  <2> HIDE DEF w
  <2>4. w \in Nat /\ w <= Modulus
    BY <1>0, <2>2, <2>3
  <2> QED BY <2>4 DEF IsResult, w
<1>2. CASE o \in {"DIV", "MOD"}
  <2>1. w = IF b = 0 THEN 0 ELSE IF o = "DIV" THEN a \div b ELSE a % b
    BY <1>2 DEF Words!Result2, Words!Div, Words!Mod
  <2>2. b > 0 => a \div b \in Nat /\ a \div b <= a /\ a % b \in Nat /\ a % b < b
    <3> SUFFICES ASSUME b > 0
                 PROVE  a \div b \in Nat /\ a \div b <= a /\ a % b \in Nat /\ a % b < b
      OBVIOUS
    <3>1. a \in Int
      BY <1>0
    <3> QED BY <1>0, <3>1, QuotientIsWord, ItsRemainder
  <2> HIDE DEF w
  <2>3. w \in Nat /\ w <= Modulus
    BY <1>0, <2>1, <2>2
  <2> QED BY <2>3 DEF IsResult, w
<1>3. CASE o \in {"LT", "GT", "EQ"}
  <2>1. w \in 0 .. 1
    BY <1>3 DEF Words!Result2, Words!Truth
  <2> HIDE DEF w
  <2>2. w \in Nat /\ w <= Modulus
    BY <1>0, <2>1
  <2> QED BY <2>2 DEF IsResult, w
<1>4. CASE o \in Words!Signed
  BY <1>4, SignedAre
<1>5. CASE o = "SIGNEXTEND"
  <2>1. w = Words!SignExtend(a, b)
    BY <1>5 DEF Words!Result2
  <2>2. a >= Words!Bytes => w = b
    <3> SUFFICES ASSUME a >= Words!Bytes PROVE Words!SignExtend(a, b) = b
      BY <2>1
    <3>1. a # Words!Bytes - 1
      BY <1>0, BytesFit
    <3> QED BY <3>1 DEF Words!SignExtend
  <2>3. a = Words!Bytes - 1 => w = Modulus
    <3>1. a = Words!Bytes - 1 => ~(a >= Words!Bytes)
      BY <1>0, BytesFit
    <3> QED BY <2>1, <3>1 DEF Words!SignExtend, Words!Panic
  <2>4. a < Words!Bytes - 1 => w \in Nat /\ w < Modulus
    BY <2>1, ExtensionIs
  <2> HIDE DEF w
  <2>5. w \in Nat /\ w <= Modulus
    BY <1>0, <2>2, <2>3, <2>4, BytesFit
  <2> QED BY <2>5 DEF IsResult, w
<1>6. CASE o \in {"BYTE", "SHL", "SHR", "SAR"}
  <2>1. w = Words!ByteAt(a, b) \/ w = Words!Shl(a, b) \/ w = Words!Shr(a, b) \/ w = Words!Sar(a, b)
    BY <1>6 DEF Words!Result2
  <2> HIDE DEF w
  <2>2. /\ Words!ByteAt(a, b) \in Nat /\ Words!ByteAt(a, b) < Modulus
        /\ Words!Shl(a, b) \in Nat /\ Words!Shl(a, b) < Modulus
        /\ Words!Shr(a, b) \in Nat /\ Words!Shr(a, b) < Modulus
        /\ Words!Sar(a, b) \in Nat /\ Words!Sar(a, b) < Modulus
    BY ByteIsWord, ShlIs, ShrIsWord, SarIs
  <2>3. w \in Nat /\ w <= Modulus
    BY <1>0, <2>1, <2>2
  <2> QED BY <2>3 DEF IsResult, w
<1> QED BY <1>1, <1>2, <1>3, <1>4, <1>5, <1>6 DEF Words!Binary

LEMMA UnaryAre ==
  ASSUME NEW o \in Words!Unary, NEW a \in Words!Words
  PROVE  IsResult(Words!Result1(o, a))
<1>0. a \in Nat /\ a < Modulus /\ Modulus \in Nat /\ Modulus > 1
  BY IsWord, Sizes
<1> QED BY <1>0 DEF Words!Result1, Words!Truth, IsResult

-----------------------------------------------------------------------------
(* The steps of the interpreter's arithmetic.                              *)

Operators == Words!Unary \cup Words!Binary \cup Words!Ternary

LEMMA StackIsWords ==
  ASSUME Words!TypeOK
  PROVE  Len(stack) \in Nat /\ Len(stack) <= MaxStack /\ \A k \in 1 .. Len(stack) : stack[k] \in Words!Words
BY DEF Words!TypeOK

\* What an operation leaves is on top of the stack, if it is a word.
LEMMA LeaveKeeps ==
  ASSUME Words!TypeOK, NEW o \in Operators, NEW k \in 1 .. 3, Len(stack) >= k, NEW w,
         IsResult(w), Words!Leave(o, k, w)
  PROVE  /\ Words!TypeOK'
         /\ IF w = Modulus THEN aborted' ELSE stack'[1] = w
<1>0. stack \in Seq(Words!Words) /\ Len(stack) \in Nat /\ Len(stack) <= MaxStack /\ MaxStack \in Nat
  BY SizesAssumption DEF Words!TypeOK
<1>1. /\ operation' = o /\ aborted' = (w = Modulus)
      /\ stack' = IF w = Modulus THEN <<>> ELSE <<w>> \o SubSeq(stack, k + 1, Len(stack))
  BY DEF Words!Leave, Words!Panic
<1>2. w \in Nat /\ w <= Modulus
  BY DEF IsResult
<1>3. operation' \in Operators \cup {"none", "PUSH"} /\ aborted' \in BOOLEAN
  BY <1>1
<1>4. CASE w = Modulus
  <2>1. stack' \in Seq(Words!Words) /\ Len(stack') <= MaxStack
    BY <1>0, <1>1, <1>4
  <2> QED BY <1>1, <1>3, <1>4, <2>1 DEF Words!TypeOK, Operators
<1>5. CASE w # Modulus
  <2>1. w \in Words!Words
    BY <1>2, <1>5, Sizes DEF Words!Words
  <2> DEFINE rest == SubSeq(stack, k + 1, Len(stack))
  <2>2. rest \in Seq(Words!Words) /\ Len(rest) = Len(stack) - k
    BY <1>0
  <2> HIDE DEF rest
  <2>3. stack' = <<w>> \o rest
    BY <1>1, <1>5 DEF rest
  <2>4. <<w>> \o rest \in Seq(Words!Words) /\ Len(<<w>> \o rest) = 1 + Len(rest)
        /\ (<<w>> \o rest)[1] = w
    BY <2>1, <2>2
  <2>5. Len(stack') <= MaxStack
    BY <1>0, <2>2, <2>3, <2>4
  <2> QED BY <1>1, <1>3, <1>5, <2>3, <2>4, <2>5 DEF Words!TypeOK, Operators
<1> QED BY <1>4, <1>5

LEMMA ShrIs ==
  ASSUME NEW s \in Words!Words, NEW v \in Words!Words
  PROVE  Words!Shr(s, v) = v \div Power[Words!Shift(s)]
<1>0. s \in Nat /\ v \in Nat /\ v < Modulus /\ Bits \in Nat /\ Modulus \in Nat
  BY IsWord, Widths, Sizes
<1>1. CASE s >= Bits
  <2>1. Words!Shift(s) = Bits /\ Words!Shr(s, v) = 0 /\ Modulus = Power[Bits]
    BY <1>0, <1>1, Sizes DEF Words!Shift, Words!Shr
  <2>2. v \div Modulus = 0
    BY <1>0, Smaller
  <2> QED BY <2>1, <2>2
<1>2. CASE s < Bits
  BY <1>0, <1>2, SamePower DEF Words!Shift, Words!Shr
<1> QED BY <1>0, <1>1, <1>2

AluStep == Words!ModularStep /\ Words!SignedStep /\ Words!ShiftsStep

LEMMA PushIsSound ==
  ASSUME Words!TypeOK, Words!PushWord
  PROVE  Words!TypeOK' /\ AluStep
<1>1. PICK w \in Words!Words : stack' = <<w>> \o stack
  BY DEF Words!PushWord
<1>2. operation' = "PUSH" /\ aborted' = aborted /\ Len(stack) < MaxStack
      /\ stack \in Seq(Words!Words) /\ aborted \in BOOLEAN /\ MaxStack \in Nat
  BY SizesAssumption DEF Words!PushWord, Words!TypeOK
<1>3. stack' \in Seq(Words!Words) /\ Len(stack') <= MaxStack
  BY <1>1, <1>2
<1>4. Words!TypeOK'
  BY <1>2, <1>3 DEF Words!TypeOK
<1>5. AluStep
  BY <1>2 DEF AluStep, Words!ModularStep, Words!SignedStep, Words!ShiftsStep, Words!Ternary,
              Words!Signed
<1> QED BY <1>4, <1>5

LEMMA UnaryIsSound ==
  ASSUME Words!TypeOK, NEW o \in Words!Unary, Words!Execute1(o)
  PROVE  Words!TypeOK' /\ AluStep
<1>1. Len(stack) >= 1 /\ Words!Leave(o, 1, Words!Result1(o, stack[1])) /\ operation' = o
  BY DEF Words!Execute1, Words!Leave
<1>2. stack[1] \in Words!Words
  BY <1>1, StackIsWords
<1>3. IsResult(Words!Result1(o, stack[1]))
  BY <1>2, UnaryAre
<1>4. Words!TypeOK'
  <2>1. o \in Operators /\ 1 \in 1 .. 3
    BY DEF Operators
  <2> QED BY <1>1, <1>3, <2>1, LeaveKeeps
<1>5. AluStep
  BY <1>1 DEF AluStep, Words!ModularStep, Words!SignedStep, Words!ShiftsStep, Words!Ternary,
              Words!Signed, Words!Unary
<1> QED BY <1>4, <1>5

LEMMA TernaryIsSound ==
  ASSUME Words!TypeOK, NEW o \in Words!Ternary, Words!Execute3(o)
  PROVE  Words!TypeOK' /\ AluStep
<1> DEFINE w == Words!Result3(o, stack[1], stack[2], stack[3])
<1>1. Len(stack) >= 3 /\ Words!Leave(o, 3, w) /\ operation' = o
  BY DEF Words!Execute3, Words!Leave
<1>2. stack[1] \in Words!Words /\ stack[2] \in Words!Words /\ stack[3] \in Words!Words
  BY <1>1, StackIsWords
<1>3. /\ w = IF stack[3] = 0 THEN 0
             ELSE (IF o = "ADDMOD" THEN stack[1] + stack[2] ELSE stack[1] * stack[2]) % stack[3]
      /\ w \in Nat /\ w < Modulus
  BY <1>2, TernaryAre
<1> HIDE DEF w
<1>4. IsResult(w) /\ w # Modulus /\ o \in Operators /\ 3 \in 1 .. 3
  BY <1>3, Sizes DEF IsResult, Operators
<1>5. Words!TypeOK' /\ stack'[1] = w
  BY <1>1, <1>4, LeaveKeeps
<1>6. AluStep
  BY <1>1, <1>3, <1>5 DEF AluStep, Words!ModularStep, Words!SignedStep, Words!ShiftsStep,
                          Words!Ternary, Words!Signed
<1> QED BY <1>5, <1>6

LEMMA BinaryIsSound ==
  ASSUME Words!TypeOK, NEW o \in Words!Binary, Words!Execute2(o)
  PROVE  Words!TypeOK' /\ AluStep
<1> DEFINE x == stack[1]
           y == stack[2]
           w == Words!Result2(o, x, y)
<1>1. Len(stack) >= 2 /\ Words!Leave(o, 2, w) /\ operation' = o
  BY DEF Words!Execute2, Words!Leave
<1>2. x \in Words!Words /\ y \in Words!Words
  BY <1>1, StackIsWords
<1>3. IsResult(w)
  BY <1>2, BinaryAre
<1>4. Words!TypeOK' /\ IF w = Modulus THEN aborted' ELSE stack'[1] = w
  <2>1. o \in Operators /\ 2 \in 1 .. 3
    BY DEF Operators
  <2> HIDE DEF w
  <2> QED BY <1>1, <1>3, <2>1, LeaveKeeps
<1>5. Words!ModularStep
  BY <1>1 DEF Words!ModularStep, Words!Ternary, Words!Binary, Words!Signed
<1>6. Words!SignedStep
  <2> DEFINE i == Words!TwosComplement(x)
             j == Words!TwosComplement(y)
  <2> SUFFICES ASSUME o \in Words!Signed, Words!InI64(x), Words!InI64(y)
               PROVE  IF Words!SignedPanics(o, i, j) THEN aborted'
                      ELSE stack'[1] = Words!SignedExact(o, i, j)
    BY <1>1 DEF Words!SignedStep
  <2>1. /\ w = IF Words!SignedPanics(o, i, j) THEN Modulus ELSE Words!SignedExact(o, i, j)
        /\ w = Modulus => Words!SignedPanics(o, i, j)
    BY <1>2, SignedAre
  <2> HIDE DEF i, j, w, x, y
  <2> QED BY <1>4, <2>1
<1>7. Words!ShiftsStep
  <2>0. x \in Nat /\ y \in Nat /\ Words!Bytes \in Nat
    BY <1>2, IsWord, BytesFit
  <2>1. ASSUME o = "SAR"
        PROVE  stack'[1] = (Words!TwosComplement(y) \div Power[Words!Shift(x)]) % Modulus
    <3>1. w = Words!Sar(x, y)
      BY <2>1 DEF Words!Result2
    <3> HIDE DEF w
    <3> QED BY <1>2, <1>4, <3>1, SarIs
  <2>2. ASSUME o = "SHL" PROVE stack'[1] = (y * Power[Words!Shift(x)]) % Modulus
    <3>1. w = Words!Shl(x, y)
      BY <2>2 DEF Words!Result2
    <3> HIDE DEF w
    <3> QED BY <1>2, <1>4, <3>1, ShlIs
  <2>3. ASSUME o = "SHR" PROVE stack'[1] = y \div Power[Words!Shift(x)]
    <3>1. w = Words!Shr(x, y)
      BY <2>3 DEF Words!Result2
    <3>2. w # Modulus
      BY <1>2, <3>1, ShrIsWord
    <3> HIDE DEF w
    <3> QED BY <1>2, <1>4, <3>1, <3>2, ShrIs
  <2>4. ASSUME o = "SIGNEXTEND", x < Words!Bytes - 1
        PROVE  \E v \in -Modulus .. Modulus :
                 Words!Extends(v, stack'[1], y, Power[(x + 1) * ByteBits])
    <3>1. w = Words!SignExtend(x, y)
      BY <2>4 DEF Words!Result2
    <3>2. w < Modulus /\ w \in Nat
          /\ \E v \in -Modulus .. Modulus : Words!Extends(v, w, y, Power[(x + 1) * ByteBits])
      BY <1>2, <2>4, <3>1, ExtensionIs
    <3> HIDE DEF w
    <3>3. stack'[1] = w
      BY <1>4, <3>2, Sizes
    <3> QED BY <3>2, <3>3
  <2>5. ASSUME o = "SIGNEXTEND", x >= Words!Bytes PROVE stack'[1] = y
    <3>1. x # Words!Bytes - 1
      BY <2>0, <2>5
    <3>2. Words!SignExtend(x, y) = y
      BY <2>5, <3>1 DEF Words!SignExtend
    <3>3. w = y
      BY <2>5, <3>2 DEF Words!Result2
    <3>4. y < Modulus /\ Modulus \in Nat
      BY <1>2, IsWord, Sizes
    <3> HIDE DEF w
    <3> QED BY <1>4, <2>0, <3>3, <3>4
  <2> HIDE DEF w
  <2> QED BY <1>1, <2>1, <2>2, <2>3, <2>4, <2>5, SamePower DEF Words!ShiftsStep
<1> QED BY <1>4, <1>5, <1>6, <1>7 DEF AluStep

LEMMA AluInitially == Words!Init => Words!TypeOK
<1> SUFFICES ASSUME Words!Init PROVE Words!TypeOK
  OBVIOUS
<1>1. stack = <<>> /\ operation = "none" /\ aborted = FALSE
  BY DEF Words!Init
<1>2. stack \in Seq(Words!Words)
  BY <1>1
<1>3. Len(stack) <= MaxStack
  BY <1>1, SizesAssumption
<1> QED BY <1>1, <1>2, <1>3 DEF Words!TypeOK

LEMMA AluKeeps == Words!TypeOK /\ [Words!Next]_aluVars => Words!TypeOK' /\ [AluStep]_aluVars
<1> SUFFICES ASSUME Words!TypeOK, [Words!Next]_aluVars
             PROVE  Words!TypeOK' /\ [AluStep]_aluVars
  OBVIOUS
<1>1. CASE Words!Next
  <2>1. CASE Words!PushWord
    BY <2>1, PushIsSound
  <2>2. ASSUME NEW o \in Words!Unary, Words!Execute1(o) PROVE Words!TypeOK' /\ AluStep
    BY <2>2, UnaryIsSound
  <2>3. ASSUME NEW o \in Words!Binary, Words!Execute2(o) PROVE Words!TypeOK' /\ AluStep
    BY <2>3, BinaryIsSound
  <2>4. ASSUME NEW o \in Words!Ternary, Words!Execute3(o) PROVE Words!TypeOK' /\ AluStep
    BY <2>4, TernaryIsSound
  <2> QED BY <1>1, <2>1, <2>2, <2>3, <2>4 DEF Words!Next
<1>2. CASE UNCHANGED aluVars
  BY <1>2 DEF aluVars, Words!TypeOK
<1> QED BY <1>1, <1>2

-----------------------------------------------------------------------------
(* All parts.                                                              *)

PartsInv == EngineInv /\ FrameInv /\ Words!TypeOK /\ CodeInv /\ MachineInv

LEMMA PartsInitially == PartsInit => PartsInv
  BY EngineInitially, FrameInitially, AluInitially, CodeInitially, MachineInitially
    DEF PartsInit, PartsInv

LEMMA PartsStep == PartsInv /\ [PartsNext]_partsVars => PartsInv' /\ [AluStep]_aluVars
<1> SUFFICES ASSUME PartsInv, [PartsNext]_partsVars PROVE PartsInv' /\ [AluStep]_aluVars
  OBVIOUS
<1>1. /\ [Next]_vars /\ [Step]_frameVars /\ [Words!Next]_aluVars
      /\ [Code!Next]_codeVars /\ [Machine!Next]_vmVars
  BY DEF PartsNext, EngineNext, FrameNext, WordsNext, CodeNext, MachineNext, partsVars
<1>2. Words!TypeOK' /\ [AluStep]_aluVars
  BY <1>1, AluKeeps DEF PartsInv
<1> QED BY <1>1, <1>2, EngineStep, FrameStep, CodeStep, MachineStep DEF PartsInv

\* Every variable of the five parts keeps its type: the engine's and a frame's as above,
\* the interpreter's stack is of words and within its limit, and of the runtime the
\* program, the place of its code, the return addresses that local calls push, and the
\* fields of a machine.
THEOREM PartsTypes == PartsSpec => []PartsTypeOK
<1>1. PartsInv => PartsTypeOK
  BY DEF PartsInv, PartsTypeOK, EngineInv, FrameInv, CodeInv, MachineInv
<1> QED BY PartsInitially, PartsStep, <1>1, PTL DEF PartsSpec

\* For every width of a word, the interpreter's operations leave what the Ethereum
\* specification says of the integers: ADDMOD and MULMOD although the sum or the product
\* fits no word, the signed ones if both operands fit an i64, SHL, SHR and SAR by any
\* word, and SIGNEXTEND from any place but the last byte of the word.
THEOREM ArithmeticIsExact == PartsSpec => ArithmeticAgrees
<1>1. AluStep => Words!ModularStep /\ Words!SignedStep /\ Words!ShiftsStep
  BY DEF AluStep
<1>2. PartsInv /\ [PartsNext]_partsVars =>
        /\ [Words!ModularStep]_(Words!vars)
        /\ [Words!SignedStep]_(Words!vars)
        /\ [Words!ShiftsStep]_(Words!vars)
  BY <1>1, PartsStep DEF aluVars, Words!vars
<1> QED
  BY PartsInitially, PartsStep, <1>2, PTL
    DEF PartsSpec, ArithmeticAgrees, Words!ModularAgree, Words!SignedAgree, Words!ShiftsAgree

\* A program the verifier of the eBPF runtime accepts, of any length and with jumps of
\* any reach, makes neither compiler fail nor its code leave it but in the named ways;
\* and a machine, whatever calls changed it, holds a program its verifier accepts.
THEOREM RuntimeIsSound == PartsSpec => []EbpfSound
<1>1. PartsInv => EbpfSound
  BY DEF PartsInv, EbpfSound, CodeInv, MachineInv
<1> QED BY PartsInitially, PartsStep, <1>1, PTL DEF PartsSpec

===============================================================================
