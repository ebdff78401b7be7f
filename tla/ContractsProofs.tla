---------------------------- MODULE ContractsProofs ----------------------------
(***************************************************************************)
(* Proofs about transactions and the contracts they call: the receipts,    *)
(* nonces and deployments of TxPipeline, for any clients, senders,         *)
(* contracts and bounds; and that calls find the code that the last        *)
(* constructor gave an address, for any programs and bytes, selectors,     *)
(* deployments and number of restarts.                                     *)
(***************************************************************************)
EXTENDS MCContracts, FiniteSetTheorems, SequenceTheorems, TLAPS

-----------------------------------------------------------------------------
(* Type correctness.                                                       *)

\* The tasks start with typed local states.
LEMMA InitialLocals ==
  /\ Idle \in Locals /\ DeployVez \in Locals /\ Started \in [Procs -> Locals]
  /\ \A p \in Procs : Started[p].pc \in {"idle", "check"} /\ Started[p].mine = {}
<1>1. NoTx \in Txs /\ VezTx \in Txs
  BY DataAssumption DEF NoTx, VezTx, Txs
<1>2. Idle \in Locals /\ DeployVez \in Locals
  BY <1>1 DEF Idle, DeployVez, Locals, Steps
<1> QED
  BY <1>2 DEF Started, Idle, DeployVez

\* A task that moves keeps the types, and the locks follow the tasks that hold them.
LEMMA MovedIsTyped ==
  ASSUME TypeOK, NEW p \in Procs, NEW l \in Locals, procs' = [procs EXCEPT ![p] = l],
         \/ vm' = vm /\ (l.pc = "construct" <=> At(p, "construct"))
         \/ vm = NoOne /\ vm' = p /\ l.pc = "construct"
         \/ vm = p /\ vm' = NoOne /\ l.pc # "construct",
         \/ writing' = writing /\ (l.pc = "persist" <=> At(p, "persist"))
         \/ writing = NoOne /\ writing' = p /\ l.pc = "persist"
         \/ writing = p /\ writing' = NoOne /\ l.pc # "persist"
  PROVE  /\ procs' \in [Procs -> Locals] /\ vm' \in Procs \cup {NoOne}
         /\ writing' \in Procs \cup {NoOne}
         /\ \A q \in Procs : (vm' = q <=> At(q, "construct")')
                             /\ (writing' = q <=> At(q, "persist")')
<1>1. /\ procs \in [Procs -> Locals] /\ vm \in Procs \cup {NoOne}
      /\ writing \in Procs \cup {NoOne}
      /\ \A q \in Procs : (vm = q <=> At(q, "construct")) /\ (writing = q <=> At(q, "persist"))
  BY DEF TypeOK
<1>2. \A q \in Procs : procs'[q] = IF q = p THEN l ELSE procs[q]
  BY <1>1
<1>3. procs' \in [Procs -> Locals] /\ vm' \in Procs \cup {NoOne} /\ writing' \in Procs \cup {NoOne}
  BY <1>1
<1>4. \A q \in Procs : vm' = q <=> At(q, "construct")'
  BY <1>1, <1>2, ProcsAssumption DEF At
<1>5. \A q \in Procs : writing' = q <=> At(q, "persist")'
  BY <1>1, <1>2, ProcsAssumption DEF At
<1> QED
  BY <1>3, <1>4, <1>5

\* The initial state is typed.
LEMMA InitIsTyped == Init => TypeOK
<1> SUFFICES ASSUME Init PROVE TypeOK
  OBVIOUS
<1>1. code \in [Contracts -> Codes] /\ dcode \in [Contracts -> Codes \ {"empty"}]
  BY DEF Init, Codes
<1>2. \A p \in Procs : ~At(p, "construct") /\ ~At(p, "persist")
  BY InitialLocals DEF Init, At
<1> QED
  BY <1>1, <1>2, InitialLocals, ProcsAssumption, DataAssumption DEF Init, TypeOK

\* A number for a transaction is a number.
LEMMA NumberedIsTyped ==
  ASSUME NEW tx \in Txs, NEW n \in Nat
  PROVE  /\ Numbered(tx, n) \in Txs /\ Numbered(tx, n).kind = tx.kind
         /\ Numbered(tx, n).from = tx.from /\ Numbered(tx, n).addr = tx.addr
         /\ ~Numbered(tx, n).ahead => Numbered(tx, n).nonce = n
<1> DEFINE most == IF tx.nonce > n THEN tx.nonce ELSE n
           past == tx.nonce > n
<1>1. Numbered(tx, n) = [tx EXCEPT !.nonce = most, !.ahead = past]
  BY DEF Numbered
<1>2. most \in Nat /\ past \in BOOLEAN /\ (~past => most = n)
  BY DEF Txs
<1> HIDE DEF most, past
<1>3. /\ Numbered(tx, n) \in Txs /\ Numbered(tx, n).kind = tx.kind
      /\ Numbered(tx, n).from = tx.from /\ Numbered(tx, n).addr = tx.addr
      /\ Numbered(tx, n).nonce = most
  BY <1>1, <1>2 DEF Txs
<1>4. Numbered(tx, n).ahead = past
  BY <1>1 DEF Txs
<1> QED
  BY <1>2, <1>3, <1>4, Zenon

\* The receipts are finitely many, so that a sender's can be counted.
Finite == IsFiniteSet(receipts) /\ IsFiniteSet(stored)
          /\ \A p \in Procs : IsFiniteSet(procs[p].mine)

\* Every step keeps the types, when the receipts can be counted.
LEMMA StepIsTyped == TypeOK /\ Finite /\ [Next]_vars => TypeOK'
<1> SUFFICES ASSUME TypeOK, Finite, [Next]_vars
             PROVE  TypeOK'
  OBVIOUS
<1>t. /\ code \in [Contracts -> Codes] /\ dcode \in [Contracts -> Codes \ {"empty"}]
      /\ record \subseteq Contracts /\ receipts \subseteq Receipts /\ stored \subseteq Receipts
      /\ procs \in [Procs -> Locals] /\ vm \in Procs \cup {NoOne}
      /\ writing \in Procs \cup {NoOne}
      /\ hashes \in Nat /\ crashes \in 0..MaxCrashes
      /\ answered \subseteq Receipts /\ early \subseteq Contracts /\ again \subseteq Contracts
  BY DEF TypeOK
<1>h. \A q \in Procs : (vm = q <=> At(q, "construct")) /\ (writing = q <=> At(q, "persist"))
  BY DEF TypeOK
<1>p. \A p \in Procs : /\ procs[p] \in Locals /\ procs[p].tx \in Txs /\ procs[p].pc \in Steps
                       /\ procs[p].mine \in SUBSET Receipts
                       /\ procs[p].tx.addr \in Contracts
                       /\ procs[p].todo \in SUBSET [addr : Contracts, deployed : BOOLEAN]
  BY <1>t DEF Locals, Txs
<1>c. \A p \in Clients : p \in Procs
  BY DEF Procs
<1>d. Deployer \in Procs /\ Saver \in Procs
  BY DEF Procs
<1>m. ASSUME NEW p \in Procs, NEW l \in Locals, procs' = [procs EXCEPT ![p] = l],
             \/ vm' = vm /\ (l.pc = "construct" <=> At(p, "construct"))
             \/ vm = NoOne /\ vm' = p /\ l.pc = "construct"
             \/ vm = p /\ vm' = NoOne /\ l.pc # "construct",
             \/ writing' = writing /\ (l.pc = "persist" <=> At(p, "persist"))
             \/ writing = NoOne /\ writing' = p /\ l.pc = "persist"
             \/ writing = p /\ writing' = NoOne /\ l.pc # "persist",
             code' \in [Contracts -> Codes], dcode' \in [Contracts -> Codes \ {"empty"}],
             record' \subseteq Contracts, receipts' \subseteq Receipts, stored' \subseteq Receipts,
             hashes' \in Nat, crashes' \in 0..MaxCrashes, answered' \subseteq Receipts,
             early' \subseteq Contracts, again' \subseteq Contracts
      PROVE  TypeOK'
  BY <1>m, MovedIsTyped DEF TypeOK
<1>1. ASSUME NEW c \in Clients, Begin(c) PROVE TypeOK'
  <2>1. PICK kind \in {"call", "raw", "fixed"}, u \in Users, a \in Contracts, n \in Provided :
          procs' = [procs EXCEPT ![c] =
            [Idle EXCEPT !.pc = IF kind = "fixed" THEN "check" ELSE "count",
               !.tx = [kind |-> kind, from |-> u, addr |-> a, nonce |-> n, ahead |-> FALSE]]]
    BY <1>1 DEF Begin
  <2> DEFINE l == [Idle EXCEPT !.pc = IF kind = "fixed" THEN "check" ELSE "count",
               !.tx = [kind |-> kind, from |-> u, addr |-> a, nonce |-> n, ahead |-> FALSE]]
  <2>2. l \in Locals /\ l.pc \in {"check", "count"}
    BY InitialLocals, DataAssumption, ZenonT(30) DEF Locals, Txs, Steps, Idle
  <2>3. procs' = [procs EXCEPT ![c] = l]
    BY <2>1
  <2> HIDE DEF l
  <2> QED
    BY <1>1, <1>c, <1>m, <1>t, <2>2, <2>3
       DEF Begin, At, memory, disk, locks, bounds, history
<1>2. ASSUME NEW p \in Procs, AlreadyDeployed(p) PROVE TypeOK'
  <2> DEFINE l == [Idle EXCEPT !.pc = IF p = Deployer THEN "done" ELSE "idle"]
  <2>1. l \in Locals /\ l.pc \in {"done", "idle"} /\ procs' = [procs EXCEPT ![p] = l]
    BY <1>2, InitialLocals DEF AlreadyDeployed, Locals, Steps, Idle
  <2> HIDE DEF l
  <2> QED
    BY <1>2, <1>m, <1>t, <2>1 DEF AlreadyDeployed, At, memory, disk, locks, bounds, history
<1>g. ASSUME NEW p \in Procs, NEW pc \in Steps, Goto(p, pc)
      PROVE  \E l \in Locals : l.pc = pc /\ procs' = [procs EXCEPT ![p] = l]
  <2>1. [procs[p] EXCEPT !.pc = pc] \in Locals
    BY <1>p DEF Locals
  <2> QED
    BY <1>g, <1>t, <2>1 DEF Goto, Locals
<1>f. ASSUME NEW p \in Procs, Failed(p)
      PROVE  \E l \in Locals : l.pc \in {"check", "idle"} /\ procs' = [procs EXCEPT ![p] = l]
  BY <1>f, InitialLocals DEF Failed, Idle, DeployVez
<1>3. ASSUME NEW p \in Procs, NotDeployed(p) PROVE TypeOK'
  <2>1. PICK l \in Locals : l.pc = "insert" /\ procs' = [procs EXCEPT ![p] = l]
    BY <1>3, <1>g DEF NotDeployed, Steps
  <2> QED
    BY <1>3, <1>m, <1>t, <2>1 DEF NotDeployed, At, memory, disk, locks, bounds, history
<1>4. ASSUME NEW p \in Procs, PreInsert(p) PROVE TypeOK'
  <2>1. PICK l \in Locals : l.pc = "count" /\ procs' = [procs EXCEPT ![p] = l]
    BY <1>4, <1>g DEF PreInsert, Steps
  <2>2. code' \in [Contracts -> Codes]
    BY <1>4, <1>t DEF PreInsert, Codes
  <2> QED
    BY <1>4, <1>m, <1>t, <2>1, <2>2 DEF PreInsert, At, disk, locks, bounds, history
<1>5. ASSUME NEW p \in Procs, ReadCount(p) PROVE TypeOK'
  <2> DEFINE tx == Numbered(procs[p].tx, Cardinality(Of(receipts, procs[p].tx.from)))
             l == [procs[p] EXCEPT !.pc = "fees", !.tx = tx]
  <2>1. Cardinality(Of(receipts, procs[p].tx.from)) \in Nat
    BY FS_Subset, FS_CardinalityType DEF Finite, Of
  <2>2. tx \in Txs
    BY <1>p, <2>1, NumberedIsTyped
  <2>3. procs' = [procs EXCEPT ![p] = l]
    BY <1>5, <1>t, <1>p DEF ReadCount, Locals
  <2> HIDE DEF tx
  <2>4. l \in Locals /\ l.pc = "fees"
    BY <1>p, <2>2 DEF Locals, Steps
  <2> HIDE DEF l
  <2> QED
    BY <1>5, <1>m, <1>t, <2>3, <2>4 DEF ReadCount, At, memory, disk, locks, bounds, history
<1>6. ASSUME NEW p \in Procs, PayFees(p) PROVE TypeOK'
  <2>1. PICK l \in Locals : l.pc \in {"nonce", "install"} /\ procs' = [procs EXCEPT ![p] = l]
    BY <1>6, <1>g DEF PayFees, Steps
  <2> QED
    BY <1>6, <1>m, <1>t, <2>1 DEF PayFees, At, memory, disk, locks, bounds, history
<1>7. ASSUME NEW p \in Procs, CannotPay(p) PROVE TypeOK'
  <2>1. PICK l \in Locals : l.pc \in {"check", "idle"} /\ procs' = [procs EXCEPT ![p] = l]
    BY <1>7, <1>f DEF CannotPay
  <2> QED
    BY <1>7, <1>m, <1>t, <2>1 DEF CannotPay, At, memory, disk, locks, bounds, history
<1>8. ASSUME NEW p \in Procs, Install(p) PROVE TypeOK'
  <2>1. PICK a \in Contracts :
          /\ code' = [code EXCEPT ![a] = "creation"]
          /\ dcode' = [dcode EXCEPT ![a] = "creation"]
          /\ again' = again \cup {d \in {a} : dcode[d] = "runtime"}
          /\ procs' = [procs EXCEPT ![p].pc = "construct", ![p].tx.addr = a]
    BY <1>8 DEF Install
  <2> DEFINE l == [procs[p] EXCEPT !.pc = "construct", !.tx = [procs[p].tx EXCEPT !.addr = a]]
  <2>2. l \in Locals /\ l.pc = "construct"
    BY <1>p, ZenonT(30) DEF Locals, Txs, Steps
  <2>3. procs' = [procs EXCEPT ![p] = l]
    BY <1>t, <1>p, <2>1 DEF Locals
  <2> HIDE DEF l
  <2>4. code' \in [Contracts -> Codes] /\ dcode' \in [Contracts -> Codes \ {"empty"}]
        /\ again' \subseteq Contracts
    BY <1>t, <2>1 DEF Codes
  <2> QED
    BY <1>8, <1>m, <1>t, <2>2, <2>3, <2>4 DEF Install, At, bounds
<1>9. ASSUME NEW p \in Procs, ConstructorReturns(p) PROVE TypeOK'
  <2>1. PICK l \in Locals : l.pc = "nonce" /\ procs' = [procs EXCEPT ![p] = l]
    BY <1>9, <1>g DEF ConstructorReturns, Steps
  <2>2. code' \in [Contracts -> Codes] /\ dcode' \in [Contracts -> Codes \ {"empty"}]
    BY <1>9, <1>t DEF ConstructorReturns, Codes
  <2>3. vm = p
    BY <1>9, <1>h DEF ConstructorReturns
  <2> QED
    BY <1>9, <1>m, <1>t, <2>1, <2>2, <2>3 DEF ConstructorReturns, At, bounds, history
<1>10. ASSUME NEW p \in Procs, ConstructorFails(p) PROVE TypeOK'
  <2>1. PICK l \in Locals : l.pc \in {"check", "idle"} /\ procs' = [procs EXCEPT ![p] = l]
    BY <1>10, <1>f DEF ConstructorFails
  <2>2. vm = p
    BY <1>10, <1>h DEF ConstructorFails
  <2> QED
    BY <1>10, <1>m, <1>t, <2>1, <2>2
       DEF ConstructorFails, At, memory, disk, locks, bounds, history
<1>11. ASSUME NEW p \in Procs, AdvanceNonce(p) PROVE TypeOK'
  <2>1. PICK l \in Locals : l.pc = "receipt" /\ procs' = [procs EXCEPT ![p] = l]
    BY <1>11, <1>g DEF AdvanceNonce, Steps
  <2> QED
    BY <1>11, <1>m, <1>t, <2>1 DEF AdvanceNonce, At, memory, disk, locks, bounds, history
<1>12. ASSUME NEW p \in Procs, InsertReceipt(p) PROVE TypeOK'
  <2> DEFINE l == [procs[p] EXCEPT !.pc = "persist", !.mine = {Receipt(p)}]
  <2>1. Receipt(p) \in Receipts
    BY <1>p, <1>t DEF Receipt, Receipts, Txs
  <2>2. l \in Locals /\ l.pc = "persist"
    BY <1>p, <2>1 DEF Locals, Steps
  <2>3. procs' = [procs EXCEPT ![p] = l]
    BY <1>12, <1>t, <1>p DEF InsertReceipt, Locals
  <2> HIDE DEF l
  <2>4. receipts' \subseteq Receipts /\ hashes' \in Nat
    BY <1>12, <1>t, <2>1 DEF InsertReceipt
  <2> QED
    BY <1>12, <1>m, <1>t, <2>2, <2>3, <2>4 DEF InsertReceipt, At, disk, history
<1>13. ASSUME NEW p \in Procs, PersistReceipt(p) PROVE TypeOK'
  <2>1. writing = p
    BY <1>13, <1>h DEF PersistReceipt
  <2>2. stored' \subseteq Receipts
    BY <1>13, <1>t, <1>p DEF PersistReceipt
  <2>3. \E l \in Locals : l.pc \in {"save", "idle"} /\ procs' = [procs EXCEPT ![p] = l]
    <3>1. CASE procs' = [procs EXCEPT ![p] = Idle]
      BY <3>1, InitialLocals DEF Idle
    <3>2. CASE Goto(p, "save")
      <4>1. PICK l \in Locals : l.pc = "save" /\ procs' = [procs EXCEPT ![p] = l]
        BY <3>2, <1>g DEF Steps
      <4> QED
        BY <4>1
    <3> QED
      BY <1>13, <3>1, <3>2 DEF PersistReceipt
  <2>4. answered' \subseteq Receipts
    BY <1>13, <1>t, <1>p DEF PersistReceipt
  <2> QED
    BY <1>13, <1>m, <1>t, <2>1, <2>2, <2>3, <2>4 DEF PersistReceipt, At, memory, bounds
<1>14. CASE StartSave
  <2>1. PICK l \in Locals : l.pc = "save" /\ procs' = [procs EXCEPT ![Saver] = l]
    BY <1>14, <1>g, <1>d DEF StartSave, Steps
  <2> QED
    BY <1>14, <1>d, <1>m, <1>t, <2>1 DEF StartSave, At, memory, disk, locks, bounds, history
<1>15. ASSUME NEW p \in Procs, Snapshot(p) PROVE TypeOK'
  <2> DEFINE todo == {[addr |-> a, deployed |-> code[a] = "runtime"] : a \in Unrecorded}
             l == [procs[p] EXCEPT !.pc = "write", !.todo = todo]
  <2>1. todo \in SUBSET [addr : Contracts, deployed : BOOLEAN]
    <3> SUFFICES ASSUME NEW a \in Unrecorded
                 PROVE  [addr |-> a, deployed |-> code[a] = "runtime"]
                          \in [addr : Contracts, deployed : BOOLEAN]
      OBVIOUS
    <3>1. a \in Contracts /\ (code[a] = "runtime") \in BOOLEAN
      BY DEF Unrecorded
    <3> HIDE DEF Unrecorded
    <3> QED
      BY <3>1
  <2>2. procs' = [procs EXCEPT ![p] = l]
    BY <1>15, <1>t, <1>p DEF Snapshot, Locals
  <2> HIDE DEF todo
  <2>3. l \in Locals /\ l.pc = "write"
    BY <1>p, <2>1 DEF Locals, Steps
  <2> HIDE DEF l
  <2> QED
    BY <1>15, <1>m, <1>t, <2>2, <2>3 DEF Snapshot, At, memory, disk, locks, bounds, history
<1>s. ASSUME NEW p \in Procs, Saved(p)
      PROVE  /\ \E l \in Locals : l.pc \in {"done", "idle"} /\ procs' = [procs EXCEPT ![p] = l]
             /\ answered' \subseteq Receipts
  <2>1. [Idle EXCEPT !.pc = IF p = Deployer THEN "done" ELSE "idle"] \in Locals
    BY InitialLocals DEF Locals, Steps, Idle
  <2> QED
    BY <1>s, <1>t, <1>p, <2>1 DEF Saved, Idle
<1>16. ASSUME NEW p \in Procs, SkipSave(p) PROVE TypeOK'
  <2>1. PICK l \in Locals : l.pc \in {"done", "idle"} /\ procs' = [procs EXCEPT ![p] = l]
    BY <1>16, <1>s DEF SkipSave
  <2> QED
    BY <1>16, <1>s, <1>m, <1>t, <2>1 DEF SkipSave, At, memory, disk, locks, bounds
<1>17. ASSUME NEW p \in Procs, SaveAccount(p) PROVE TypeOK'
  <2>1. PICK s \in procs[p].todo :
          /\ record' = record \cup {s.addr}
          /\ early' = early \cup {a \in {s.addr} : ~s.deployed /\ a \notin record}
          /\ procs' = [procs EXCEPT ![p].todo = @ \ {s}]
    BY <1>17 DEF SaveAccount
  <2> DEFINE l == [procs[p] EXCEPT !.todo = procs[p].todo \ {s}]
  <2>2. l \in Locals /\ l.pc = procs[p].pc /\ procs' = [procs EXCEPT ![p] = l]
    BY <1>t, <1>p, <2>1 DEF Locals
  <2> HIDE DEF l
  <2>3. record' \subseteq Contracts /\ early' \subseteq Contracts
    BY <1>t, <1>p, <2>1
  <2> QED
    BY <1>17, <1>m, <1>t, <2>2, <2>3 DEF SaveAccount, At, memory, locks, bounds
<1>18. ASSUME NEW p \in Procs, EndSave(p) PROVE TypeOK'
  <2>1. PICK l \in Locals : l.pc \in {"done", "idle"} /\ procs' = [procs EXCEPT ![p] = l]
    BY <1>18, <1>s DEF EndSave
  <2> QED
    BY <1>18, <1>s, <1>m, <1>t, <2>1 DEF EndSave, At, memory, disk, locks, bounds
<1>r. ASSUME NEW saved \in SUBSET Contracts, Restart(saved),
             record' \subseteq Contracts, early' \subseteq Contracts
      PROVE  TypeOK'
  <2>1. code' \in [Contracts -> Codes] /\ crashes' \in 0..MaxCrashes
    BY <1>r, <1>t, DataAssumption DEF Restart, Loaded, Codes
  <2>2. \A p \in Procs : ~At(p, "construct")' /\ ~At(p, "persist")'
    BY <1>r, InitialLocals DEF Restart, At
  <2> QED
    BY <1>r, <1>t, <2>1, <2>2, InitialLocals, ProcsAssumption DEF Restart, TypeOK
<1>19. CASE Crash
  BY <1>19, <1>r, <1>t DEF Crash
<1>20. CASE Shutdown
  BY <1>20, <1>r, <1>t DEF Shutdown, Unrecorded
<1>21. CASE UNCHANGED vars
  BY <1>21 DEF vars, memory, disk, locks, bounds, history, TypeOK, At
<1> QED
  BY <1>1, <1>2, <1>3, <1>4, <1>5, <1>6, <1>7, <1>8, <1>9, <1>10, <1>11, <1>12, <1>13,
     <1>14, <1>15, <1>16, <1>17, <1>18, <1>19, <1>20, <1>21 DEF Next, Run

-----------------------------------------------------------------------------
(* The steps that neither insert nor persist a receipt.                    *)

\* between reading the count and inserting the receipt
Counted == {"fees", "install", "construct", "nonce", "receipt"}

SameNumber(tx, old) == tx.from = old.from /\ tx.nonce = old.nonce /\ tx.ahead = old.ahead

\* What such a step of p does to the receipts, the locks and the numbers.
Quiet(p) ==
  /\ UNCHANGED <<receipts, stored, writing, hashes>>
  /\ ~At(p, "persist") /\ procs'[p].pc # "persist"
  /\ \A q \in Procs : q # p => procs'[q] = procs[q]
  /\ procs'[p].mine \in {procs[p].mine, {}}
  /\ answered' \in {answered, answered \cup procs[p].mine}
  /\ procs'[p].pc \in Counted =>
       \/ procs[p].pc \in Counted /\ SameNumber(procs'[p].tx, procs[p].tx)
       \/ /\ writing = NoOne
          /\ ~procs'[p].tx.ahead =>
               procs'[p].tx.nonce = Cardinality(Of(receipts, procs'[p].tx.from))

\* A step is an insertion, a write, a restart, or quiet.
LEMMA StepKinds ==
  TypeOK /\ Finite /\ [Next]_vars =>
    \/ \E p \in Procs : InsertReceipt(p) \/ PersistReceipt(p) \/ Quiet(p)
    \/ Crash \/ Shutdown \/ UNCHANGED vars
<1> SUFFICES ASSUME TypeOK, Finite, [Next]_vars,
                    ~ \E p \in Procs : InsertReceipt(p) \/ PersistReceipt(p),
                    ~Crash, ~Shutdown, ~ UNCHANGED vars
             PROVE  \E p \in Procs : Quiet(p)
  OBVIOUS
<1>t. procs \in [Procs -> Locals]
  BY DEF TypeOK
<1>p. \A p \in Procs : procs[p] \in Locals /\ procs[p].tx \in Txs
  BY <1>t DEF Locals
<1>i. /\ Idle.mine = {} /\ Idle.pc = "idle" /\ DeployVez.mine = {} /\ DeployVez.pc = "check"
      /\ [Idle EXCEPT !.pc = "done"].mine = {} /\ [Idle EXCEPT !.pc = "done"].pc = "done"
      /\ [Idle EXCEPT !.pc = "idle"] = Idle
  BY DEF Idle, DeployVez
<1>e. ASSUME NEW p \in Procs, NEW l, procs' = [procs EXCEPT ![p] = l]
      PROVE  procs'[p] = l /\ \A q \in Procs : q # p => procs'[q] = procs[q]
  BY <1>e, <1>t
<1>g. ASSUME NEW p \in Procs, NEW pc, Goto(p, pc)
      PROVE  /\ procs'[p].pc = pc /\ procs'[p].tx = procs[p].tx /\ procs'[p].mine = procs[p].mine
             /\ \A q \in Procs : q # p => procs'[q] = procs[q]
  BY <1>g, <1>t DEF Goto, Locals
<1>f. ASSUME NEW p \in Procs, Failed(p)
      PROVE  /\ procs'[p].pc \in {"idle", "check"} /\ procs'[p].mine = {}
             /\ \A q \in Procs : q # p => procs'[q] = procs[q]
  BY <1>f, <1>e, <1>i DEF Failed
<1>s. ASSUME NEW p \in Procs, procs' = [procs EXCEPT ![p] =
                [Idle EXCEPT !.pc = IF p = Deployer THEN "done" ELSE "idle"]]
      PROVE  /\ procs'[p].pc \in {"idle", "done"} /\ procs'[p].mine = {}
             /\ \A q \in Procs : q # p => procs'[q] = procs[q]
  <2>1. procs'[p] = [Idle EXCEPT !.pc = IF p = Deployer THEN "done" ELSE "idle"]
    BY <1>s, <1>e
  <2> QED
    BY <1>s, <1>e, <1>i, <2>1
<1>1. ASSUME NEW c \in Clients, Begin(c) PROVE Quiet(c)
  <2>1. PICK kind, tx : procs' = [procs EXCEPT ![c] =
            [Idle EXCEPT !.pc = IF kind = "fixed" THEN "check" ELSE "count", !.tx = tx]]
    BY <1>1 DEF Begin
  <2>2. /\ procs'[c].pc \in {"check", "count"} /\ procs'[c].mine = {}
        /\ \A q \in Procs : q # c => procs'[q] = procs[q]
    BY <1>t, <2>1 DEF Procs, Idle
  <2> QED
    BY <1>1, <2>2 DEF Begin, Quiet, Counted, At, memory, disk, locks, bounds, history
<1>2. ASSUME NEW p \in Procs, AlreadyDeployed(p) PROVE Quiet(p)
  BY <1>2, <1>s DEF AlreadyDeployed, Quiet, Counted, At, memory, disk, locks, bounds, history
<1>3. ASSUME NEW p \in Procs, NotDeployed(p) PROVE Quiet(p)
  BY <1>3, <1>g DEF NotDeployed, Quiet, Counted, At, memory, disk, locks, bounds, history
<1>4. ASSUME NEW p \in Procs, PreInsert(p) PROVE Quiet(p)
  BY <1>4, <1>g DEF PreInsert, Quiet, Counted, At, disk, locks, bounds, history
<1>5. ASSUME NEW p \in Procs, ReadCount(p) PROVE Quiet(p)
  <2> DEFINE n == Cardinality(Of(receipts, procs[p].tx.from))
             tx == Numbered(procs[p].tx, n)
  <2>1. n \in Nat
    BY FS_Subset, FS_CardinalityType DEF Finite, Of
  <2>2. tx.from = procs[p].tx.from /\ (~tx.ahead => tx.nonce = n)
    <3> HIDE DEF n
    <3> QED
      BY <1>p, <2>1, NumberedIsTyped
  <2>3. procs' = [procs EXCEPT ![p].pc = "fees", ![p].tx = tx]
    BY <1>5, <1>t DEF ReadCount, Locals
  <2> HIDE DEF tx
  <2>4. /\ procs'[p].pc = "fees" /\ procs'[p].tx = tx /\ procs'[p].mine = procs[p].mine
        /\ \A q \in Procs : q # p => procs'[q] = procs[q]
    BY <1>t, <2>3 DEF Locals
  <2>5. ~procs'[p].tx.ahead =>
           procs'[p].tx.nonce = Cardinality(Of(receipts, procs'[p].tx.from))
    BY <2>2, <2>4
  <2> QED
    BY <1>5, <2>4, <2>5 DEF ReadCount, Quiet, At, memory, disk, locks, bounds, history
<1>6. ASSUME NEW p \in Procs, PayFees(p) PROVE Quiet(p)
  BY <1>6, <1>g
     DEF PayFees, Quiet, Counted, SameNumber, At, memory, disk, locks, bounds, history
<1>7. ASSUME NEW p \in Procs, CannotPay(p) PROVE Quiet(p)
  BY <1>7, <1>f DEF CannotPay, Quiet, Counted, At, memory, disk, locks, bounds, history
<1>8. ASSUME NEW p \in Procs, Install(p) PROVE Quiet(p)
  <2>1. PICK a \in Contracts : procs' = [procs EXCEPT ![p].pc = "construct", ![p].tx.addr = a]
    BY <1>8 DEF Install
  <2>2. /\ procs'[p].pc = "construct" /\ procs'[p].mine = procs[p].mine
        /\ SameNumber(procs'[p].tx, procs[p].tx)
        /\ \A q \in Procs : q # p => procs'[q] = procs[q]
    BY <1>t, <1>p, <2>1 DEF Locals, Txs, SameNumber
  <2> QED
    BY <1>8, <2>2 DEF Install, Quiet, Counted, At, bounds
<1>9. ASSUME NEW p \in Procs, ConstructorReturns(p) PROVE Quiet(p)
  BY <1>9, <1>g DEF ConstructorReturns, Quiet, Counted, SameNumber, At, bounds, history
<1>10. ASSUME NEW p \in Procs, ConstructorFails(p) PROVE Quiet(p)
  BY <1>10, <1>f DEF ConstructorFails, Quiet, Counted, At, memory, disk, bounds, history
<1>11. ASSUME NEW p \in Procs, AdvanceNonce(p) PROVE Quiet(p)
  BY <1>11, <1>g
     DEF AdvanceNonce, Quiet, Counted, SameNumber, At, memory, disk, locks, bounds, history
<1>12. CASE StartSave
  BY <1>12, <1>g DEF StartSave, Quiet, Counted, At, memory, disk, locks, bounds, history, Procs
<1>13. ASSUME NEW p \in Procs, Snapshot(p) PROVE Quiet(p)
  <2>1. PICK todo : procs' = [procs EXCEPT ![p].pc = "write", ![p].todo = todo]
    BY <1>13 DEF Snapshot
  <2>2. /\ procs'[p].pc = "write" /\ procs'[p].mine = procs[p].mine
        /\ \A q \in Procs : q # p => procs'[q] = procs[q]
    BY <1>t, <2>1 DEF Locals
  <2> QED
    BY <1>13, <2>2 DEF Snapshot, Quiet, Counted, At, memory, disk, locks, bounds, history
<1>14. ASSUME NEW p \in Procs, SkipSave(p) PROVE Quiet(p)
  BY <1>14, <1>s DEF SkipSave, Saved, Quiet, Counted, At, memory, disk, locks, bounds
<1>15. ASSUME NEW p \in Procs, SaveAccount(p) PROVE Quiet(p)
  <2>1. PICK s : procs' = [procs EXCEPT ![p].todo = @ \ {s}]
    BY <1>15 DEF SaveAccount
  <2>2. /\ procs'[p].pc = procs[p].pc /\ procs'[p].mine = procs[p].mine
        /\ \A q \in Procs : q # p => procs'[q] = procs[q]
    BY <1>t, <2>1 DEF Locals
  <2> QED
    BY <1>15, <2>2 DEF SaveAccount, Quiet, Counted, At, memory, locks, bounds
<1>16. ASSUME NEW p \in Procs, EndSave(p) PROVE Quiet(p)
  BY <1>16, <1>s DEF EndSave, Saved, Quiet, Counted, At, memory, disk, locks, bounds
<1> QED
  BY <1>1, <1>2, <1>3, <1>4, <1>5, <1>6, <1>7, <1>8, <1>9, <1>10, <1>11, <1>12, <1>13,
     <1>14, <1>15, <1>16 DEF Next, Run, Procs

-----------------------------------------------------------------------------
(* Answered receipts, and the numbers of transactions.                     *)

\* Memory and RocksDB hold the same receipts but for the one between its two writes,
\* and whoever is past them has written its own.
Kept ==
  /\ receipts = stored \cup (IF writing = NoOne THEN {} ELSE procs[writing].mine)
  /\ answered \subseteq stored
  /\ \A p \in Procs : At(p, "persist") \/ procs[p].mine \subseteq stored

\* A number is below the count of what RocksDB holds, or just at it while the
\* receipt is on its way.
Numbering ==
  /\ \A r \in stored : r.id < hashes /\ (~r.ahead => r.nonce < Cardinality(Of(stored, r.from)))
  /\ \A p \in Procs : procs[p].pc \in Counted =>
        (~procs[p].tx.ahead => procs[p].tx.nonce <= Cardinality(Of(stored, procs[p].tx.from)))
  /\ \A p \in Procs : At(p, "persist") => \A r \in procs[p].mine :
        r \notin stored /\ r.id < hashes /\ (~r.ahead => r.nonce <= Cardinality(Of(stored, r.from)))

\* Every step keeps the receipts finite.
LEMMA StepIsFinite == TypeOK /\ Finite /\ [Next]_vars => Finite'
<1> SUFFICES ASSUME TypeOK, Finite, [Next]_vars
             PROVE  Finite'
  OBVIOUS
<1>t. procs \in [Procs -> Locals]
  BY DEF TypeOK
<1>1. ASSUME NEW p \in Procs, InsertReceipt(p) PROVE Finite'
  <2>1. IsFiniteSet(receipts') /\ stored' = stored
    BY <1>1, FS_AddElement DEF InsertReceipt, Finite, disk
  <2>2. IsFiniteSet({Receipt(p)})
    BY FS_Singleton
  <2>3. \A q \in Procs : procs'[q].mine = IF q = p THEN {Receipt(p)} ELSE procs[q].mine
    BY <1>1, <1>t DEF InsertReceipt, Locals
  <2> QED
    BY <2>1, <2>2, <2>3 DEF Finite
<1>2. ASSUME NEW p \in Procs, PersistReceipt(p) PROVE Finite'
  <2>1. IsFiniteSet(stored') /\ receipts' = receipts
    BY <1>2, FS_Union DEF PersistReceipt, Finite, memory
  <2>2. \A q \in Procs : procs'[q].mine = procs[q].mine \/ (q = p /\ procs'[q].mine = {})
    BY <1>2, <1>t DEF PersistReceipt, Goto, Idle, Locals
  <2> QED
    BY <2>1, <2>2, FS_EmptySet DEF Finite
<1>3. ASSUME NEW p \in Procs, Quiet(p) PROVE Finite'
  BY <1>3, FS_EmptySet DEF Quiet, Finite
<1>4. CASE Crash \/ Shutdown
  <2>1. receipts' = stored /\ stored' = stored /\ procs' = Started
    BY <1>4 DEF Crash, Shutdown, Restart
  <2> QED
    BY <2>1, InitialLocals, FS_EmptySet DEF Finite
<1>5. CASE UNCHANGED vars
  BY <1>5 DEF vars, memory, disk, Finite
<1> QED
  BY <1>1, <1>2, <1>3, <1>4, <1>5, StepKinds

\* What inserting a receipt and writing it do.
LEMMA Writing ==
  ASSUME TypeOK, NEW p \in Procs
  PROVE  /\ InsertReceipt(p) =>
              /\ At(p, "receipt") /\ writing = NoOne /\ writing' = p
              /\ receipts' = receipts \cup {Receipt(p)} /\ hashes' = hashes + 1
              /\ UNCHANGED <<stored, answered>>
              /\ procs'[p].pc = "persist" /\ procs'[p].mine = {Receipt(p)}
              /\ \A q \in Procs : q # p => procs'[q] = procs[q]
         /\ PersistReceipt(p) =>
              /\ At(p, "persist") /\ writing = p /\ writing' = NoOne
              /\ stored' = stored \cup procs[p].mine /\ UNCHANGED <<receipts, hashes>>
              /\ answered' \in {answered, answered \cup procs[p].mine}
              /\ procs'[p].pc \in {"idle", "save"}
              /\ procs'[p].mine \in {procs[p].mine, {}}
              /\ \A q \in Procs : q # p => procs'[q] = procs[q] /\ ~At(q, "persist")
<1>t. procs \in [Procs -> Locals]
  BY DEF TypeOK
<1>h. \A q \in Procs : writing = q <=> At(q, "persist")
  BY DEF TypeOK
<1>1. ASSUME InsertReceipt(p)
      PROVE  /\ procs'[p].pc = "persist" /\ procs'[p].mine = {Receipt(p)}
             /\ \A q \in Procs : q # p => procs'[q] = procs[q]
  BY <1>1, <1>t DEF InsertReceipt, Locals
<1>2. ASSUME PersistReceipt(p)
      PROVE  /\ procs'[p].pc \in {"idle", "save"} /\ procs'[p].mine \in {procs[p].mine, {}}
             /\ \A q \in Procs : q # p => procs'[q] = procs[q]
  BY <1>2, <1>t DEF PersistReceipt, Goto, Idle, Locals
<1> QED
  BY <1>1, <1>2, <1>h DEF InsertReceipt, PersistReceipt, At, memory, disk, bounds, history

\* Every step keeps Kept.
LEMMA StepKeeps == TypeOK /\ Finite /\ Kept /\ [Next]_vars => Kept'
<1> SUFFICES ASSUME TypeOK, Finite, Kept, [Next]_vars
             PROVE  Kept'
  OBVIOUS
<1>t. writing \in Procs \cup {NoOne} /\ NoOne \notin Procs
  BY ProcsAssumption DEF TypeOK
<1>h. \A q \in Procs : writing = q <=> At(q, "persist")
  BY DEF TypeOK
<1>1. ASSUME NEW p \in Procs, InsertReceipt(p) PROVE Kept'
  BY <1>1, <1>t, Writing DEF Kept, At
<1>2. ASSUME NEW p \in Procs, PersistReceipt(p) PROVE Kept'
  <2>1. receipts = stored \cup procs[p].mine
    BY <1>2, <1>t, Writing DEF Kept
  <2> QED
    BY <1>2, <1>t, <2>1, Writing DEF Kept, At
<1>3. ASSUME NEW p \in Procs, Quiet(p) PROVE Kept'
  <2>1. procs[p].mine \subseteq stored /\ writing # p
    BY <1>3, <1>h DEF Quiet, Kept
  <2>2. receipts' = stored' \cup (IF writing' = NoOne THEN {} ELSE procs'[writing'].mine)
    BY <1>3, <1>t, <2>1 DEF Quiet, Kept
  <2> QED
    BY <1>3, <2>1, <2>2 DEF Quiet, Kept, At
<1>4. CASE Crash \/ Shutdown
  <2>1. /\ receipts' = stored /\ stored' = stored /\ procs' = Started /\ writing' = NoOne
        /\ answered' = answered
    BY <1>4 DEF Crash, Shutdown, Restart
  <2> QED
    BY <2>1, InitialLocals DEF Kept
<1>5. CASE UNCHANGED vars
  BY <1>5 DEF vars, memory, disk, locks, history, Kept, At
<1> QED
  BY <1>1, <1>2, <1>3, <1>4, <1>5, StepKinds

\* A receipt that comes in addition raises its sender's count and lowers no other.
LEMMA CountsGrow ==
  ASSUME NEW S, NEW T, IsFiniteSet(T), S \subseteq T
  PROVE  /\ \A u : /\ Cardinality(Of(S, u)) \in Nat /\ Cardinality(Of(T, u)) \in Nat
                   /\ Cardinality(Of(S, u)) <= Cardinality(Of(T, u))
         /\ \A r \in T \ S : Cardinality(Of(S, r.from)) < Cardinality(Of(T, r.from))
<1>1. ASSUME NEW u
      PROVE  /\ IsFiniteSet(Of(T, u)) /\ Of(S, u) \in SUBSET Of(T, u)
             /\ Cardinality(Of(S, u)) \in Nat /\ Cardinality(Of(T, u)) \in Nat
             /\ Cardinality(Of(S, u)) <= Cardinality(Of(T, u))
             /\ Cardinality(Of(T, u)) = Cardinality(Of(S, u)) => Of(T, u) = Of(S, u)
  <2>1. IsFiniteSet(Of(T, u)) /\ Of(S, u) \in SUBSET Of(T, u)
    BY FS_Subset DEF Of
  <2> QED
    BY <2>1, FS_Subset, FS_CardinalityType
<1>2. ASSUME NEW r \in T \ S
      PROVE  Cardinality(Of(S, r.from)) < Cardinality(Of(T, r.from))
  <2>1. Of(T, r.from) # Of(S, r.from)
    BY DEF Of
  <2> QED
    BY <1>1, <2>1
<1> QED
  BY <1>1, <1>2

\* Every step keeps Numbering.
LEMMA StepNumbers == TypeOK /\ Finite /\ Kept /\ Numbering /\ [Next]_vars => Numbering'
<1> SUFFICES ASSUME TypeOK, Finite, Kept, Numbering, [Next]_vars
             PROVE  Numbering'
  OBVIOUS
<1>t. /\ hashes \in Nat /\ stored \subseteq Receipts
      /\ \A p \in Procs : procs[p].mine \subseteq Receipts /\ procs[p].tx \in Txs
  BY DEF TypeOK, Locals
<1>i. \A r \in Receipts : r.id \in Nat /\ r.nonce \in Nat
  BY DEF Receipts
<1>c. \A u : Cardinality(Of(stored, u)) \in Nat
  BY CountsGrow DEF Finite
<1>1. ASSUME NEW p \in Procs, InsertReceipt(p) PROVE Numbering'
  <2>1. /\ Receipt(p).id = hashes /\ Receipt(p).from = procs[p].tx.from
        /\ Receipt(p).nonce = procs[p].tx.nonce
    BY DEF Receipt
  <2>2. Receipt(p).ahead = procs[p].tx.ahead
    BY DEF Receipt
  <2>3. ~Receipt(p).ahead => Receipt(p).nonce <= Cardinality(Of(stored, Receipt(p).from))
    BY <1>1, <2>1, <2>2, Writing DEF Numbering, Counted, At
  <2>4. Receipt(p) \notin stored
    BY <1>t, <1>i, <2>1 DEF Numbering
  <2>5. \A r \in stored : r.id < hashes'
                         /\ (~r.ahead => r.nonce < Cardinality(Of(stored, r.from)))
    BY <1>1, <1>t, <1>i, Writing DEF Numbering
  <2>6. \A q \in Procs : At(q, "persist")' => \A r \in procs'[q].mine :
          r \notin stored /\ r.id < hashes' /\ (~r.ahead => r.nonce <= Cardinality(Of(stored, r.from)))
    <3> SUFFICES ASSUME NEW q \in Procs, At(q, "persist")', NEW r \in procs'[q].mine
                 PROVE  /\ r \notin stored /\ r.id < hashes'
                        /\ ~r.ahead => r.nonce <= Cardinality(Of(stored, r.from))
      OBVIOUS
    <3>1. CASE q = p
      BY <1>1, <1>t, <2>1, <2>3, <2>4, <3>1, Writing
    <3>2. CASE q # p
      BY <1>1, <1>t, <1>i, <3>2, Writing DEF Numbering, At
    <3> QED
      BY <3>1, <3>2
  <2>7. \A q \in Procs : procs'[q].pc \in Counted =>
          (~procs'[q].tx.ahead => procs'[q].tx.nonce <= Cardinality(Of(stored, procs'[q].tx.from)))
    BY <1>1, Writing DEF Numbering, Counted
  <2> QED
    BY <1>1, <2>5, <2>6, <2>7, Writing DEF Numbering
<1>2. ASSUME NEW p \in Procs, PersistReceipt(p) PROVE Numbering'
  <2>1. stored' = stored \cup procs[p].mine /\ hashes' = hashes /\ At(p, "persist")
    BY <1>2, Writing
  <2>2. /\ \A u : /\ Cardinality(Of(stored', u)) \in Nat
                  /\ Cardinality(Of(stored, u)) <= Cardinality(Of(stored', u))
        /\ \A r \in stored' \ stored :
              Cardinality(Of(stored, r.from)) < Cardinality(Of(stored', r.from))
    BY <2>1, FS_Union, CountsGrow DEF Finite
  <2>3. \A r \in stored' : r.id < hashes'
                          /\ (~r.ahead => r.nonce < Cardinality(Of(stored', r.from)))
    <3> SUFFICES ASSUME NEW r \in stored'
                 PROVE  r.id < hashes' /\ (~r.ahead => r.nonce < Cardinality(Of(stored', r.from)))
      OBVIOUS
    <3>0. r.nonce \in Nat /\ Cardinality(Of(stored, r.from)) \in Nat
          /\ Cardinality(Of(stored', r.from)) \in Nat
      BY <1>c, <1>t, <1>i, <2>1, <2>2
    <3>1. CASE r \in stored
      <4>1. r.id < hashes /\ (~r.ahead => r.nonce < Cardinality(Of(stored, r.from)))
        BY <3>1 DEF Numbering
      <4>2. Cardinality(Of(stored, r.from)) <= Cardinality(Of(stored', r.from))
        BY <2>2
      <4> QED
        BY <2>1, <3>0, <4>1, <4>2
    <3>2. CASE r \in stored' \ stored
      <4>1. r \in procs[p].mine
        BY <2>1, <3>2
      <4>2. r.id < hashes /\ (~r.ahead => r.nonce <= Cardinality(Of(stored, r.from)))
        BY <2>1, <4>1 DEF Numbering
      <4>3. Cardinality(Of(stored, r.from)) < Cardinality(Of(stored', r.from))
        BY <2>2, <3>2
      <4> QED
        BY <2>1, <3>0, <4>2, <4>3
    <3> QED
      BY <3>1, <3>2
  <2>4. \A q \in Procs : procs'[q].pc \in Counted =>
          (~procs'[q].tx.ahead => procs'[q].tx.nonce <= Cardinality(Of(stored', procs'[q].tx.from)))
    <3> SUFFICES ASSUME NEW q \in Procs, procs'[q].pc \in Counted, ~procs'[q].tx.ahead
                 PROVE  procs'[q].tx.nonce <= Cardinality(Of(stored', procs'[q].tx.from))
      OBVIOUS
    <3>1. procs'[q] = procs[q]
      BY <1>2, Writing DEF Counted
    <3>2. procs[q].tx.nonce <= Cardinality(Of(stored, procs[q].tx.from)) /\ procs[q].tx.nonce \in Nat
      BY <1>t, <3>1 DEF Numbering, Txs
    <3> QED
      BY <1>c, <2>2, <3>1, <3>2
  <2>5. \A q \in Procs : ~At(q, "persist")'
    BY <1>2, Writing DEF At
  <2> QED
    BY <2>3, <2>4, <2>5 DEF Numbering
<1>3. ASSUME NEW p \in Procs, Quiet(p) PROVE Numbering'
  <2>1. procs'[p].pc \in Counted => (~procs'[p].tx.ahead =>
           procs'[p].tx.nonce <= Cardinality(Of(stored, procs'[p].tx.from)))
    <3>1. CASE procs[p].pc \in Counted /\ SameNumber(procs'[p].tx, procs[p].tx)
      BY <3>1 DEF SameNumber, Numbering
    <3>2. CASE writing = NoOne /\ (~procs'[p].tx.ahead =>
                 procs'[p].tx.nonce = Cardinality(Of(receipts, procs'[p].tx.from)))
      BY <1>c, <3>2 DEF Kept
    <3> QED
      BY <1>3, <3>1, <3>2 DEF Quiet
  <2> QED
    BY <1>3, <2>1 DEF Quiet, Numbering, At
<1>4. CASE Crash \/ Shutdown
  <2>1. stored' = stored /\ procs' = Started /\ hashes' = hashes
    BY <1>4 DEF Crash, Shutdown, Restart
  <2> QED
    BY <2>1, InitialLocals DEF Numbering, Counted, At
<1>5. CASE UNCHANGED vars
  BY <1>5 DEF vars, memory, disk, bounds, Numbering, At
<1> QED
  BY <1>1, <1>2, <1>3, <1>4, <1>5, StepKinds

-----------------------------------------------------------------------------
(* The deployment of VEZ.                                                  *)

\* VEZ is deployed, or one of the ways out was taken.
VezSettled == (code[Vez] = "runtime" /\ dcode[Vez] = "runtime") \/ Vez \in early \cup again

\* where the VEZ task is past the constructor
Past == {"nonce", "receipt", "persist", "save", "write", "done"}

\* A record of VEZ, a save that is about to write one, and a VEZ task past the
\* constructor are found only when VEZ is settled.
Deployment ==
  /\ code[Vez] = "runtime" => dcode[Vez] = "runtime"
  /\ Vez \in record => VezSettled
  /\ \A p \in Procs : \A s \in procs[p].todo : s.addr = Vez /\ s.deployed => VezSettled
  /\ procs[Deployer].pc \in Past => VezSettled
  /\ ~At(Deployer, "done") => procs[Deployer].tx.kind = "fixed" /\ procs[Deployer].tx.addr = Vez

\* Every step keeps Deployment.
LEMMA StepDeploys == TypeOK /\ Deployment /\ [Next]_vars => Deployment'
<1> SUFFICES ASSUME TypeOK, Deployment, [Next]_vars
             PROVE  Deployment'
  OBVIOUS
<1>t. /\ procs \in [Procs -> Locals] /\ Vez \in Contracts
      /\ code \in [Contracts -> Codes] /\ dcode \in [Contracts -> Codes \ {"empty"}]
  BY DataAssumption DEF TypeOK
<1>p. \A p \in Procs : procs[p] \in Locals /\ procs[p].tx \in Txs
  BY <1>t DEF Locals
<1>c. /\ \A c \in Clients : c \in Procs /\ c # Deployer
      /\ Deployer \in Procs /\ Saver \in Procs /\ Saver # Deployer
  BY ProcsAssumption DEF Procs
<1>i. /\ Idle.todo = {} /\ DeployVez.todo = {} /\ DeployVez.pc = "check" /\ Idle.pc = "idle"
      /\ DeployVez.tx.kind = "fixed" /\ DeployVez.tx.addr = Vez
      /\ [Idle EXCEPT !.pc = "done"].todo = {} /\ [Idle EXCEPT !.pc = "done"].pc = "done"
      /\ [Idle EXCEPT !.pc = "idle"] = Idle
  <2>1. DeployVez.tx = VezTx /\ VezTx.kind = "fixed" /\ VezTx.addr = Vez
    BY DEF Idle, DeployVez, VezTx, NoTx
  <2>2. /\ Idle.todo = {} /\ DeployVez.todo = {} /\ DeployVez.pc = "check" /\ Idle.pc = "idle"
        /\ [Idle EXCEPT !.pc = "done"].todo = {} /\ [Idle EXCEPT !.pc = "done"].pc = "done"
        /\ [Idle EXCEPT !.pc = "idle"] = Idle
    BY DEF Idle, DeployVez
  <2> QED
    BY <2>1, <2>2
<1>m. ASSUME VezSettled => VezSettled',
             code'[Vez] = "runtime" => dcode'[Vez] = "runtime",
             Vez \in record' => VezSettled',
             NEW p \in Procs, \A q \in Procs : q # p => procs'[q] = procs[q],
             \A s \in procs'[p].todo : s \in procs[p].todo \/ (s.addr = Vez /\ s.deployed => VezSettled'),
             p = Deployer =>
               /\ procs'[p].pc \in Past => procs[p].pc \in Past \/ VezSettled'
               /\ procs'[p].pc # "done" =>
                    procs'[p].tx.kind = "fixed" /\ procs'[p].tx.addr = Vez
      PROVE  Deployment'
  <2>1. \A q \in Procs : \A s \in procs'[q].todo : s.addr = Vez /\ s.deployed => VezSettled'
    <3> SUFFICES ASSUME NEW q \in Procs, NEW s \in procs'[q].todo, s.addr = Vez, s.deployed
                 PROVE  VezSettled'
      OBVIOUS
    <3>1. CASE s \in procs[q].todo
      BY <1>m, <3>1 DEF Deployment
    <3>2. CASE s \notin procs[q].todo
      BY <1>m, <3>2
    <3> QED
      BY <3>1, <3>2
  <2>2. procs'[Deployer].pc \in Past => VezSettled'
    BY <1>m, <1>c DEF Deployment
  <2>3. procs'[Deployer].pc # "done" => procs'[Deployer].tx.kind = "fixed" /\ procs'[Deployer].tx.addr = Vez
    BY <1>m, <1>c DEF Deployment, At
  <2> QED
    BY <1>m, <2>1, <2>2, <2>3 DEF Deployment, At
<1>u. ASSUME UNCHANGED <<code, dcode, record, early, again>>
      PROVE  /\ VezSettled' <=> VezSettled
             /\ code'[Vez] = "runtime" => dcode'[Vez] = "runtime"
             /\ Vez \in record' => VezSettled'
  BY <1>u DEF Deployment, VezSettled
<1>g. ASSUME NEW p \in Procs, NEW pc, Goto(p, pc)
      PROVE  /\ procs'[p].pc = pc /\ procs'[p].tx = procs[p].tx /\ procs'[p].todo = procs[p].todo
             /\ \A q \in Procs : q # p => procs'[q] = procs[q]
  BY <1>g, <1>t DEF Goto, Locals
<1>f. ASSUME NEW p \in Procs, Failed(p)
      PROVE  /\ procs'[p].todo = {}
             /\ p = Deployer => procs'[p].pc = "check" /\ procs'[p].tx.kind = "fixed"
                                /\ procs'[p].tx.addr = Vez
             /\ \A q \in Procs : q # p => procs'[q] = procs[q]
  BY <1>f, <1>t, <1>i DEF Failed
<1>s. ASSUME NEW p \in Procs, procs' = [procs EXCEPT ![p] =
                [Idle EXCEPT !.pc = IF p = Deployer THEN "done" ELSE "idle"]]
      PROVE  /\ procs'[p].todo = {} /\ (p = Deployer => procs'[p].pc = "done")
             /\ \A q \in Procs : q # p => procs'[q] = procs[q]
  BY <1>s, <1>t, <1>i
<1>k. ASSUME NEW p \in Procs, NEW pc, At(p, pc), p = Deployer, pc # "done"
      PROVE  procs[p].tx.kind = "fixed" /\ procs[p].tx.addr = Vez
  BY <1>k DEF Deployment, At
<1>1. ASSUME NEW c \in Clients, Begin(c) PROVE Deployment'
  <2>1. PICK kind, tx : procs' = [procs EXCEPT ![c] =
            [Idle EXCEPT !.pc = IF kind = "fixed" THEN "check" ELSE "count", !.tx = tx]]
    BY <1>1 DEF Begin
  <2>2. procs'[c].todo = {} /\ \A q \in Procs : q # c => procs'[q] = procs[q]
    BY <1>t, <1>c, <2>1 DEF Idle
  <2> QED
    BY <1>1, <1>c, <1>m, <1>u, <2>2 DEF Begin, memory, disk, history
<1>2. ASSUME NEW p \in Procs, AlreadyDeployed(p) PROVE Deployment'
  <2>1. p = Deployer => VezSettled
    BY <1>2, <1>k DEF AlreadyDeployed, Exists, Deployment
  <2> QED
    BY <1>2, <1>m, <1>s, <1>u, <2>1 DEF AlreadyDeployed, memory, disk, history
<1>3. ASSUME NEW p \in Procs, NotDeployed(p) PROVE Deployment'
  BY <1>3, <1>m, <1>g, <1>u, <1>k DEF NotDeployed, Past, memory, disk, history
<1>4. ASSUME NEW p \in Procs, PreInsert(p) PROVE Deployment'
  <2>1. /\ code'[Vez] = code[Vez] \/ (code[Vez] = "none" /\ code'[Vez] = "creation")
        /\ UNCHANGED <<dcode, record, early, again>>
    BY <1>4, <1>t DEF PreInsert, disk, history
  <2>2. /\ VezSettled => VezSettled'
        /\ code'[Vez] = "runtime" => dcode'[Vez] = "runtime"
        /\ Vez \in record' => VezSettled'
    BY <2>1 DEF VezSettled, Deployment
  <2> QED
    BY <1>4, <1>m, <1>g, <1>k, <2>2 DEF PreInsert, Past
<1>5. ASSUME NEW p \in Procs, ReadCount(p) PROVE Deployment'
  <2> DEFINE tx == Numbered(procs[p].tx, Cardinality(Of(receipts, procs[p].tx.from)))
  <2>1. procs' = [procs EXCEPT ![p].pc = "fees", ![p].tx = tx]
    BY <1>5, <1>t DEF ReadCount, Locals
  <2>2. tx.kind = procs[p].tx.kind /\ tx.addr = procs[p].tx.addr
    BY <1>p DEF Numbered, Txs
  <2> HIDE DEF tx
  <2>3. /\ procs'[p].pc = "fees" /\ procs'[p].tx = tx /\ procs'[p].todo = procs[p].todo
        /\ \A q \in Procs : q # p => procs'[q] = procs[q]
    BY <1>t, <2>1 DEF Locals
  <2> QED
    BY <1>5, <1>m, <1>u, <1>k, <2>2, <2>3 DEF ReadCount, Past, memory, disk, history
<1>6. ASSUME NEW p \in Procs, PayFees(p) PROVE Deployment'
  BY <1>6, <1>m, <1>g, <1>u, <1>k DEF PayFees, Past, memory, disk, history
<1>7. ASSUME NEW p \in Procs, CannotPay(p) PROVE Deployment'
  BY <1>7, <1>m, <1>f, <1>u DEF CannotPay, Past, memory, disk, history
<1>8. ASSUME NEW p \in Procs, Install(p) PROVE Deployment'
  <2>1. PICK a \in Contracts :
          /\ procs[p].tx.kind = "fixed" => a = procs[p].tx.addr
          /\ code' = [code EXCEPT ![a] = "creation"]
          /\ dcode' = [dcode EXCEPT ![a] = "creation"]
          /\ again' = again \cup {d \in {a} : dcode[d] = "runtime"}
          /\ procs' = [procs EXCEPT ![p].pc = "construct", ![p].tx.addr = a]
    BY <1>8 DEF Install
  <2>2. record' = record /\ early' = early
    BY <1>8 DEF Install
  <2>3. /\ VezSettled => VezSettled'
        /\ code'[Vez] = "runtime" => dcode'[Vez] = "runtime"
    BY <1>t, <2>1, <2>2 DEF VezSettled, Deployment
  <2>4. /\ procs'[p].pc = "construct" /\ procs'[p].todo = procs[p].todo
        /\ procs'[p].tx.kind = procs[p].tx.kind /\ procs'[p].tx.addr = a
        /\ \A q \in Procs : q # p => procs'[q] = procs[q]
    BY <1>t, <1>p, <2>1 DEF Locals, Txs
  <2>5. At(p, "install")
    BY <1>8 DEF Install
  <2>6. Vez \in record' => VezSettled'
    BY <2>2, <2>3 DEF Deployment
  <2> QED
    <3>1. p = Deployer => procs'[p].tx.kind = "fixed" /\ procs'[p].tx.addr = Vez
      BY <1>k, <2>1, <2>4, <2>5
    <3>2. procs'[p].pc \notin Past
      BY <2>4 DEF Past
    <3> QED
      BY <1>m, <2>3, <2>4, <2>6, <3>1, <3>2
<1>9. ASSUME NEW p \in Procs, ConstructorReturns(p) PROVE Deployment'
  <2>1. /\ code' = [code EXCEPT ![procs[p].tx.addr] = "runtime"]
        /\ dcode' = [dcode EXCEPT ![procs[p].tx.addr] = "runtime"]
        /\ UNCHANGED <<record, early, again>> /\ At(p, "construct") /\ Goto(p, "nonce")
    BY <1>9 DEF ConstructorReturns, history
  <2>2. /\ VezSettled => VezSettled'
        /\ code'[Vez] = "runtime" => dcode'[Vez] = "runtime"
        /\ procs[p].tx.addr = Vez => VezSettled'
    BY <1>t, <2>1 DEF VezSettled, Deployment
  <2>3. Vez \in record' => VezSettled'
    BY <2>1, <2>2 DEF Deployment
  <2> QED
    BY <1>m, <1>g, <1>k, <2>1, <2>2, <2>3
<1>10. ASSUME NEW p \in Procs, ConstructorFails(p) PROVE Deployment'
  BY <1>10, <1>m, <1>f, <1>u DEF ConstructorFails, Past, memory, disk, history
<1>11. ASSUME NEW p \in Procs, AdvanceNonce(p) PROVE Deployment'
  BY <1>11, <1>m, <1>g, <1>u, <1>k DEF AdvanceNonce, At, Past, memory, disk, history
<1>12. ASSUME NEW p \in Procs, InsertReceipt(p) PROVE Deployment'
  <2>1. /\ procs'[p].pc = "persist" /\ procs'[p].todo = procs[p].todo
        /\ procs'[p].tx = procs[p].tx
        /\ \A q \in Procs : q # p => procs'[q] = procs[q]
    BY <1>12, <1>t DEF InsertReceipt, Locals
  <2> QED
    BY <1>12, <1>m, <1>u, <1>k, <2>1 DEF InsertReceipt, At, Past, disk, history
<1>13. ASSUME NEW p \in Procs, PersistReceipt(p) PROVE Deployment'
  <2>1. At(p, "persist") /\ UNCHANGED <<code, dcode, record, early, again>>
    BY <1>13 DEF PersistReceipt, memory
  <2>2. CASE procs[p].tx.kind \in {"call", "raw"}
    <3>1. procs' = [procs EXCEPT ![p] = Idle] /\ p # Deployer
      BY <1>13, <1>k, <2>1, <2>2 DEF PersistReceipt
    <3>2. procs'[p].todo = {} /\ \A q \in Procs : q # p => procs'[q] = procs[q]
      BY <1>t, <1>i, <3>1
    <3> QED
      BY <1>m, <1>u, <2>1, <3>1, <3>2
  <2>3. CASE procs[p].tx.kind \notin {"call", "raw"}
    <3>1. Goto(p, "save")
      BY <1>13, <2>3 DEF PersistReceipt
    <3> QED
      BY <1>m, <1>g, <1>u, <1>k, <2>1, <3>1 DEF At, Past
  <2> QED
    BY <2>2, <2>3
<1>14. CASE StartSave
  BY <1>14, <1>c, <1>m, <1>g, <1>u DEF StartSave, memory, disk, history
<1>15. ASSUME NEW p \in Procs, Snapshot(p) PROVE Deployment'
  <2> DEFINE todo == {[addr |-> a, deployed |-> code[a] = "runtime"] : a \in Unrecorded}
  <2>1. procs' = [procs EXCEPT ![p].pc = "write", ![p].todo = todo]
    BY <1>15, <1>t DEF Snapshot
  <2>2. ASSUME NEW s \in todo, s.addr = Vez, s.deployed PROVE VezSettled
    <3>1. PICK a \in Unrecorded : s = [addr |-> a, deployed |-> code[a] = "runtime"]
      BY <2>2
    <3>2. a = Vez
      BY <2>2, <3>1
    <3>3. s.deployed = (code[a] = "runtime")
      BY <3>1
    <3>4. code[Vez] = "runtime"
      BY <2>2, <3>2, <3>3, Zenon
    <3> QED
      BY <3>4 DEF VezSettled, Deployment
  <2> HIDE DEF todo
  <2>3. /\ procs'[p].pc = "write" /\ procs'[p].todo = todo /\ procs'[p].tx = procs[p].tx
        /\ \A q \in Procs : q # p => procs'[q] = procs[q]
    BY <1>t, <2>1 DEF Locals
  <2> QED
    BY <1>15, <1>m, <1>u, <1>k, <2>2, <2>3 DEF Snapshot, At, Past, memory, disk, history
<1>16. ASSUME NEW p \in Procs, SkipSave(p) \/ EndSave(p) PROVE Deployment'
  <2>1. /\ UNCHANGED <<code, dcode, record, early, again>> /\ Saved(p)
        /\ At(p, "save") \/ At(p, "write")
    BY <1>16 DEF SkipSave, EndSave, memory, disk
  <2> QED
    BY <1>m, <1>s, <1>u, <2>1 DEF Saved, At, Past
<1>17. ASSUME NEW p \in Procs, SaveAccount(p) PROVE Deployment'
  <2>1. PICK s \in procs[p].todo :
          /\ record' = record \cup {s.addr}
          /\ early' = early \cup {a \in {s.addr} : ~s.deployed /\ a \notin record}
          /\ procs' = [procs EXCEPT ![p].todo = @ \ {s}]
    BY <1>17 DEF SaveAccount
  <2>2. UNCHANGED <<code, dcode, again>> /\ At(p, "write")
    BY <1>17 DEF SaveAccount, memory
  <2>3. /\ procs'[p].pc = "write" /\ procs'[p].todo = procs[p].todo \ {s}
        /\ procs'[p].tx = procs[p].tx
        /\ \A q \in Procs : q # p => procs'[q] = procs[q]
    BY <1>t, <2>1, <2>2 DEF Locals, At
  <2>4. /\ VezSettled => VezSettled'
        /\ code'[Vez] = "runtime" => dcode'[Vez] = "runtime"
    BY <2>1, <2>2 DEF VezSettled, Deployment
  <2>5. Vez \in record' => VezSettled'
    <3>1. CASE Vez \in record
      BY <2>4, <3>1 DEF Deployment
    <3>2. CASE Vez \notin record /\ s.addr = Vez /\ s.deployed
      BY <2>4, <3>2 DEF Deployment
    <3>3. CASE Vez \notin record /\ s.addr = Vez /\ ~s.deployed
      BY <2>1, <3>3 DEF VezSettled
    <3> QED
      BY <2>1, <3>1, <3>2, <3>3
  <2> QED
    BY <1>m, <1>k, <2>2, <2>3, <2>4, <2>5 DEF At, Past
<1>r. ASSUME NEW saved, Restart(saved), Vez \in record' <=> Vez \in saved,
             Vez \in saved => VezSettled \/ Vez \in early', early \subseteq early'
      PROVE  Deployment'
  <2>1. /\ code'[Vez] = Loaded(Vez, saved) /\ UNCHANGED <<dcode, again>> /\ procs' = Started
    BY <1>r, <1>t DEF Restart
  <2>2. code'[Vez] = "runtime" => dcode'[Vez] = "runtime"
    BY <2>1 DEF Loaded
  <2>3. Vez \in record' => VezSettled'
    BY <1>r, <2>1 DEF Loaded, VezSettled
  <2>4. \A p \in Procs : procs'[p].todo = {}
    BY <2>1, <1>i DEF Started
  <2>5. procs'[Deployer].pc = "check" /\ procs'[Deployer].tx.kind = "fixed"
        /\ procs'[Deployer].tx.addr = Vez
    BY <2>1, <1>i, <1>c DEF Started
  <2> QED
    BY <2>2, <2>3, <2>4, <2>5 DEF Deployment, Past, At
<1>18. CASE Crash
  BY <1>18, <1>r DEF Crash, Deployment
<1>19. CASE Shutdown
  <2>1. /\ record' = record \cup {a \in Contracts : code[a] # "none"}
        /\ early' = early \cup {a \in Unrecorded : code[a] # "runtime"}
        /\ Restart(record')
    BY <1>19 DEF Shutdown
  <2>2. Vez \in record' => VezSettled \/ Vez \in early'
    BY <1>t, <2>1 DEF Unrecorded, VezSettled, Deployment
  <2> QED
    BY <1>r, <2>1, <2>2
<1>20. CASE UNCHANGED vars
  BY <1>20 DEF vars, memory, disk, locks, history, Deployment, VezSettled, At
<1> QED
  BY <1>1, <1>2, <1>3, <1>4, <1>5, <1>6, <1>7, <1>8, <1>9, <1>10, <1>11, <1>12, <1>13,
     <1>14, <1>15, <1>16, <1>17, <1>18, <1>19, <1>20 DEF Next, Run

-----------------------------------------------------------------------------
(* The theorems.                                                           *)

TxInv == TypeOK /\ Finite /\ Kept /\ Numbering /\ Deployment

\* The inductive invariant holds initially.
LEMMA InitTxInv == Init => TxInv
<1> SUFFICES ASSUME Init PROVE TxInv
  OBVIOUS
<1>1. Finite /\ Kept
  BY InitialLocals, FS_EmptySet DEF Init, Finite, Kept
<1>2. Numbering
  BY InitialLocals DEF Init, Numbering, Counted, At
<1>3. Deployment
  <2>1. /\ procs[Deployer].pc = "check" /\ procs[Deployer].tx = VezTx
        /\ \A p \in Procs : procs[p].todo = {}
    BY DEF Init, Started, DeployVez, Idle, Procs
  <2>2. code[Vez] = "none" /\ record = {} /\ VezTx.kind = "fixed" /\ VezTx.addr = Vez
    BY DataAssumption DEF Init, VezTx, NoTx
  <2> QED
    BY <2>1, <2>2 DEF Deployment, Past
<1> QED
  BY <1>1, <1>2, <1>3, InitIsTyped DEF TxInv

\* The invariant holds in every reachable state.
LEMMA Invariant == Spec => []TxInv
<1>1. TxInv /\ [Next]_vars => TxInv'
  BY StepIsTyped, StepIsFinite, StepKeeps, StepNumbers, StepDeploys DEF TxInv
<1> QED
  BY InitTxInv, <1>1, PTL DEF Spec

\* The variables keep their types and each lock is held exactly at the steps that
\* await under it, across every interleaving, failure and restart.
THEOREM TxTypeCorrect == Spec => []TypeOK
<1>1. TxInv => TypeOK
  BY DEF TxInv
<1> QED
  BY Invariant, <1>1, PTL

\* No crash or shutdown, at any step of any task, loses the receipt of a transaction
\* whose hash send_transaction has returned.
THEOREM AnsweredReceiptsKept == Spec => []AnsweredIsKept
<1>1. TxInv => AnsweredIsKept
  BY DEF TxInv, Kept, AnsweredIsKept
<1> QED
  BY Invariant, <1>1, PTL

\* A sender's count is past the nonces of its answered transactions whenever it can
\* be read.
THEOREM NoncesAreNew == Spec => []NextNonceIsNew
<1>1. TxInv => NextNonceIsNew
  <2> SUFFICES ASSUME TxInv, writing = NoOne, NEW u \in Users \cup {Validator},
                      NEW r \in Of(answered, u), ~r.ahead
               PROVE  r.nonce < Cardinality(Of(receipts, u))
    BY DEF NextNonceIsNew
  <2>1. receipts = stored /\ r \in stored /\ r.from = u
    BY DEF TxInv, Kept, Of
  <2> QED
    BY <2>1 DEF TxInv, Numbering
<1> QED
  BY Invariant, <1>1, PTL

\* The VEZ task ends only with VEZ deployed, but for a save that recorded the account
\* before its constructor had run and a deployment over an earlier one.
THEOREM VezIsDeployed == Spec => []VezDeployed
<1>1. TxInv => VezDeployed
  BY DEF TxInv, Deployment, VezSettled, VezDeployed, Past, At
<1> QED
  BY Invariant, <1>1, PTL

-----------------------------------------------------------------------------
(* Calls and the code they find.                                           *)

USE BytesAssumption, SelectorsAssumption, DeploymentsAssumption, DispatchBounds

MaybeProgram == Programs \cup {NoProgram}
AllFunctions == UNION {Functions[p] : p \in Programs}

-----------------------------------------------------------------------------
(* Lemmas on what the VM sees in a program.                                *)

\* A name in a module's functions is that of a selector, or of no dispatcher.
LEMMA FunctionNames ==
  ASSUME NEW p \in Programs, NEW name \in Functions[p]
  PROVE  name = Fallback \/ \E s : name = Function(s)
BY DEF Functions, Detected

\* The entry of no dispatcher is found in a program of ten bytes or more.
LEMMA ZeroResolves ==
  ASSUME NEW p \in Programs, Length(p) >= 10
  PROVE  Zero \in ResolvedIn[p]
BY DEF ResolvedIn, Resolves, AllSelectors

\* A selector that a program dispatches as solc does is found in it, but for those
\* that start with a zero byte.
LEMMA DispatchedResolves ==
  ASSUME NEW p \in Programs, NEW s \in DispatchedIn[p], s[1] # 0
  PROVE  s \in ResolvedIn[p] /\ Length(p) >= 10
<1> DEFINE n == Length(p)
<1>1. Bytes[p] \in Seq(Nat) /\ n = Len(Bytes[p]) /\ n \in Nat
  BY DEF Length
<1>2. s \in Selectors /\ Dispatches(p, s)
  BY DEF DispatchedIn
<1>3. PICK i \in 0 .. n - 11 : Four(p, i + 2) = s /\ Branches(p, i + 6)
  BY <1>2 DEF Dispatches
<1> DEFINE pos == i + 2
           at == i + 6
<1>4. Compared(p, pos)
  <2>1. at \in pos + 4 .. pos + 19 /\ at + 4 < Length(p)
    BY <1>1, <1>3
  <2>2. Target(p, at + 2) < Length(p) /\ Target(p, at + 2) > 0
    <3>1. Target(p, at + 2) \in 1 .. Length(p) - 1
      BY <1>3 DEF Branches
    <3> HIDE DEF at
    <3> QED BY <1>1, <3>1
  <2>3. Byte(p, at) = EQ /\ Byte(p, at + 1) = PUSH2 /\ Byte(p, at + 4) = JUMPI
    BY <1>3 DEF Branches
  <2> HIDE DEF at, pos
  <2> QED BY <2>1, <2>2, <2>3 DEF Compared
<1>5. pos \in 0 .. n - 5 /\ n >= 10
  BY <1>1, <1>3
<1>6. Resolves(p, s)
  BY <1>3, <1>4, <1>5 DEF Resolves
<1> QED BY <1>2, <1>5, <1>6 DEF ResolvedIn, AllSelectors

-----------------------------------------------------------------------------
(* One execution.                                                          *)

Modules == [code : MaybeProgram, functions : SUBSET AllFunctions]

\* What is known of the engine's module when it has looked at those programs.
EngineOK(m, past) ==
  /\ m \in Modules
  /\ m.functions \subseteq UNION {Functions[q] : q \in past}
  /\ m = NoModule \/ m.code \in past

\* A module that is brought up to date has the program's length, if not its bytes.
LEMMA UpToDateIsOK ==
  ASSUME NEW p \in Programs, NEW past \in SUBSET Programs, NEW m, EngineOK(m, past)
  PROVE  /\ EngineOK(UpToDate(m, p), past \cup {p})
         /\ UpToDate(m, p) # NoModule
         /\ UpToDate(m, p).code = p \/ Length(UpToDate(m, p).code) = Length(p)
<1>1. Functions[p] \subseteq AllFunctions
  BY DEF AllFunctions
<1>2. m \in Modules
  BY DEF EngineOK
<1>3. CASE m = NoModule \/ Length(m.code) # Length(p)
  <2>1. UpToDate(m, p) = [code |-> p, functions |-> m.functions \cup Functions[p]]
    BY <1>2, <1>3 DEF UpToDate, WithFunctions, Modules
  <2>2. m.functions \cup Functions[p] \subseteq UNION {Functions[q] : q \in past \cup {p}}
    BY DEF EngineOK
  <2>3. [code |-> p, functions |-> m.functions \cup Functions[p]] \in Modules
    BY <1>1, <1>2 DEF Modules, MaybeProgram
  <2> QED BY <2>1, <2>2, <2>3, BytesAssumption DEF EngineOK, NoModule
<1>4. CASE ~(m = NoModule \/ Length(m.code) # Length(p))
  BY <1>4 DEF UpToDate, EngineOK
<1> QED BY <1>3, <1>4

\* What an execution leaves as a request or a deployment is of their type.
LEMMA RanIsTyped ==
  ASSUME DispatchTypeOK, NEW p \in Programs, NEW name \in Names
  PROVE  Ran(p, name) \in Requests
<1>1. Outcome(p, UpToDate(engineModule, p), name) \in {"refused", "ran", "panicked"}
  BY DEF Outcome
<1>2. Owed \in Programs \cup {NoProgram}
  BY DEF Owed, DispatchTypeOK
<1> QED BY <1>1, <1>2 DEF Ran, Requests, Names

\* An execution by a function that the program dispatches runs, if the engine holds the
\* program itself.
LEMMA DispatchedIsRun ==
  ASSUME NEW p \in Programs, NEW m, m.code = p, NEW name,
         SelectorOf(name) \in DispatchedIn[p], SelectorOf(name)[1] # 0
  PROVE  Outcome(p, m, name) = "ran"
<1> DEFINE s == SelectorOf(name)
<1>1. s \in ResolvedIn[p] /\ Zero \in ResolvedIn[p]
  BY DispatchedResolves, ZeroResolves
<1>2. Metadata(m, name) # {} /\ Metadata(m, name) \subseteq {Zero, s}
  <2>1. CASE name = Nameless
    BY <2>1 DEF Metadata
  <2>2. CASE name # Nameless /\ name \in m.functions
    <3>1. name.selector \in {Zero, s}
      BY DEF SelectorOf, Fallback
    <3> QED BY <2>2, <3>1 DEF Metadata
  <2>3. CASE name # Nameless /\ name \notin m.functions
    BY <1>1, <2>3 DEF Metadata
  <2> QED BY <2>1, <2>2, <2>3
<1> QED BY <1>1, <1>2 DEF Outcome

\* A panic is over a selector that some program the engine has looked at had.
LEMMA PanicIsSeen ==
  ASSUME NEW p \in Programs, NEW past \in SUBSET Programs, NEW m, EngineOK(m, past),
         m # NoModule, NEW name, Outcome(p, m, name) = "panicked"
  PROVE  \/ Length(p) < 10
         \/ \E q \in past : \/ Function(SelectorOf(name)) \in Functions[q]
                            \/ SelectorOf(name) \in ResolvedIn[q]
<1> DEFINE s == SelectorOf(name)
<1> SUFFICES ASSUME ~(Length(p) < 10)
             PROVE  \E q \in past : Function(s) \in Functions[q] \/ s \in ResolvedIn[q]
  OBVIOUS
<1>1. Zero \in ResolvedIn[p]
  <2>1. Length(p) >= 10
    BY DEF Length
  <2> QED BY <2>1, ZeroResolves
<1>2. Metadata(m, name) # {} /\ ~(Metadata(m, name) \subseteq ResolvedIn[p])
  BY DEF Outcome
<1>3. name # Nameless
  BY <1>1, <1>2 DEF Metadata
<1>4. CASE name \in m.functions
  <2>1. PICK q \in past : name \in Functions[q]
    BY <1>4 DEF EngineOK
  <2>2. name # Fallback
    BY <1>1, <1>2, <1>3, <1>4 DEF Metadata, Fallback
  <2>3. PICK u : name = Function(u)
    BY <2>1, <2>2, FunctionNames
  <2>4. name = Function(s)
    BY <2>2, <2>3 DEF SelectorOf, Function
  <2> QED BY <2>1, <2>4
<1>5. CASE name \notin m.functions
  <2>1. Function(s) \in m.functions \/ s \in ResolvedIn[m.code]
    BY <1>2, <1>3, <1>5 DEF Metadata
  <2> QED BY <2>1 DEF EngineOK
<1> QED BY <1>4, <1>5

\* The constructor of a creation code that is not text is run, from ten bytes on.
LEMMA ConstructorIsRun ==
  ASSUME NEW p \in Programs, NEW m, ~IsText(p), Length(p) >= 10
  PROVE  Outcome(p, m, ConstructorName(p)) = "ran"
BY ZeroResolves DEF Outcome, Metadata, ConstructorName

-----------------------------------------------------------------------------
(* The inductive invariant.                                                *)

\* The address: its account and its copy on disk differ only while the account is
\* missing, and then no constructor has settled it; the node's module is of the account.
AddressInv ==
  /\ nodeModule \in Modules
  /\ nodeModule # NoModule => account \in Programs
  /\ account # NoProgram => kept = account
  /\ recorded => account # NoProgram
  /\ Owed # NoProgram =>
       /\ account # NoProgram /\ nodeModule.code = account
       /\ account = intended \/ Length(intended) <= 32

\* A call that has its name has not run.
RequestInv ==
  request.at = "named" => request.name \in Names

CallsInv ==
  /\ DispatchTypeOK
  /\ AddressInv
  /\ EngineOK(engineModule, seen)
  /\ RequestInv
  /\ DispatchSound

LEMMA CallsInitially == DispatchInit => CallsInv
<1> SUFFICES ASSUME DispatchInit PROVE CallsInv
  OBVIOUS
<1>1. NoModule \in Modules
  BY DEF NoModule, Modules, MaybeProgram
<1>2. NoCall \in Requests
  <2>1. Nameless \in Names
    <3>1. Zero \in AllSelectors
      BY DEF AllSelectors
    <3> QED BY <3>1 DEF Nameless, Names
  <2> QED BY <2>1 DEF NoCall, Requests, Names
<1>3. DispatchTypeOK
  <2>1. nodeModule.code = NoProgram /\ engineModule.code = NoProgram
    BY DEF DispatchInit, NoModule
  <2>2. nodeModule.functions = {} /\ engineModule.functions = {}
    BY DEF DispatchInit, NoModule
  <2>3. deploys \in 0..MaxDeploys /\ reboots \in 0..MaxReboots
    BY DEF DispatchInit
  <2> QED BY <1>2, <2>1, <2>2, <2>3 DEF DispatchInit, DispatchTypeOK
<1>4. AddressInv /\ RequestInv /\ EngineOK(engineModule, seen)
  <2>1. Owed = NoProgram
    BY DEF DispatchInit, Owed
  <2>2. AddressInv
    BY <1>1, <2>1 DEF DispatchInit, AddressInv
  <2>3. RequestInv
    BY DEF DispatchInit, RequestInv, NoCall
  <2>4. EngineOK(engineModule, seen)
    BY <1>1 DEF DispatchInit, EngineOK, NoModule
  <2> QED BY <2>2, <2>3, <2>4
<1>5. DispatchSound
  BY DEF DispatchInit, DispatchSound, DispatchedRun, PanicsSeen, RunsWhatWasMeant,
         ReachesItsContract, ConstructorsRun, NoCall
<1> QED BY <1>3, <1>4, <1>5 DEF CallsInv

\* What an execution leaves does not contradict what has been seen.
LEMMA RanIsSound ==
  ASSUME CallsInv, NEW p \in Programs, NEW name \in Names
  PROVE  LET run == Ran(p, name) IN
         /\ run \in Requests
         /\ run.outcome \in {"refused", "panicked"} /\ ~run.stale =>
              \/ SelectorOf(run.name) \notin DispatchedIn[run.program]
              \/ SelectorOf(run.name)[1] = 0
         /\ run.outcome = "panicked" =>
              \/ Length(run.program) < 10
              \/ \E q \in seen \cup {p} :
                   \/ Function(SelectorOf(run.name)) \in Functions[q]
                   \/ SelectorOf(run.name) \in ResolvedIn[q]
         /\ run.outcome # "native"
<1> DEFINE m == UpToDate(engineModule, p)
           run == Ran(p, name)
<1>1. /\ run.name = name /\ run.program = p /\ run.outcome = Outcome(p, m, name)
      /\ run.stale = (m.code # p /\ Length(m.code) = Length(p))
  BY DEF Ran
<1>2. seen \in SUBSET Programs /\ EngineOK(engineModule, seen)
  BY DEF CallsInv, DispatchTypeOK
<1>3. /\ EngineOK(m, seen \cup {p}) /\ m # NoModule
      /\ m.code = p \/ Length(m.code) = Length(p)
  BY <1>2, UpToDateIsOK
<1>4. run \in Requests
  BY RanIsTyped DEF CallsInv
<1>5. run.outcome # "native" /\ run.outcome \in {"refused", "ran", "panicked"}
  BY <1>1 DEF Outcome
<1> HIDE DEF m, run
<1>6. ASSUME run.outcome \in {"refused", "panicked"}, ~run.stale,
             SelectorOf(name) \in DispatchedIn[p], SelectorOf(name)[1] # 0
      PROVE  FALSE
  <2>1. m.code = p
    BY <1>1, <1>3, <1>6
  <2> QED BY <1>1, <1>6, <2>1, DispatchedIsRun
<1>7. ASSUME run.outcome = "panicked"
      PROVE  \/ Length(p) < 10
             \/ \E q \in seen \cup {p} : \/ Function(SelectorOf(name)) \in Functions[q]
                                         \/ SelectorOf(name) \in ResolvedIn[q]
  <2> DEFINE past == seen \cup {p}
  <2>1. past \in SUBSET Programs /\ EngineOK(m, past)
    BY <1>2, <1>3
  <2>2. Outcome(p, m, name) = "panicked"
    BY <1>1, <1>7
  <2> HIDE DEF past
  <2>3. \/ Length(p) < 10
        \/ \E q \in past : \/ Function(SelectorOf(name)) \in Functions[q]
                           \/ SelectorOf(name) \in ResolvedIn[q]
    BY <1>3, <2>1, <2>2, PanicIsSeen
  <2> QED BY <2>3 DEF past
<1>8. run = Ran(p, name)
  BY DEF run
<1> QED BY <1>1, <1>4, <1>5, <1>6, <1>7, <1>8

\* An execution by the engine keeps what is known of its module.
LEMMA EngineStays ==
  ASSUME CallsInv, NEW p \in Programs, EngineSees(p)
  PROVE  /\ EngineOK(engineModule', seen') /\ seen' \in SUBSET Programs
         /\ seen \subseteq seen'
         /\ engineModule'.code \in MaybeProgram /\ engineModule'.functions \subseteq AllFunctions
<1>1. seen \in SUBSET Programs /\ EngineOK(engineModule, seen)
  BY DEF CallsInv, DispatchTypeOK
<1>2. EngineOK(UpToDate(engineModule, p), seen \cup {p})
  BY <1>1, UpToDateIsOK
<1>3. EngineOK(engineModule', seen')
  BY <1>2 DEF EngineSees
<1> QED BY <1>1, <1>3 DEF EngineSees, EngineOK, Modules

\* A request that is replaced by one of which the parts of DispatchSound hold.
RequestSound(r) ==
  /\ r.outcome \in {"refused", "panicked"} /\ ~r.stale =>
       SelectorOf(r.name) \notin DispatchedIn[r.program] \/ SelectorOf(r.name)[1] = 0
  /\ r.outcome = "ran" /\ r.owed # NoProgram =>
       r.program = r.owed \/ Length(r.owed) <= 32
  /\ r.outcome = "native" => r.owed = NoProgram
PanicSound(r, past) ==
  r.outcome = "panicked" =>
    \/ Length(r.program) < 10
    \/ \E q \in past : \/ Function(SelectorOf(r.name)) \in Functions[q]
                       \/ SelectorOf(r.name) \in ResolvedIn[q]
ConstructorSound(r) ==
  r.outcome \in {"refused", "panicked"} => IsText(r.program) \/ Length(r.program) < 10

LEMMA SoundParts ==
  DispatchSound <=> /\ RequestSound(request) /\ ConstructorSound(deployed)
                    /\ PanicSound(request, seen) /\ PanicSound(deployed, seen)
BY DEF DispatchSound, DispatchedRun, PanicsSeen, RunsWhatWasMeant, ReachesItsContract,
       ConstructorsRun, RequestSound, PanicSound, ConstructorSound

LEMMA PanicStays ==
  ASSUME NEW r, NEW past, NEW more, past \subseteq more, PanicSound(r, past)
  PROVE  PanicSound(r, more)
BY DEF PanicSound

\* The selectors of the calls, and the names made of them.
LEMMA SelectorNames ==
  ASSUME NEW s \in AllSelectors
  PROVE  Function(s) \in Names /\ Text(s) \in Names
BY DEF Function, Text, Names

LEMMA NameStep == CallsInv /\ NameCall => CallsInv'
<1> SUFFICES ASSUME CallsInv, NameCall PROVE CallsInv'
  OBVIOUS
<1> USE DEF CallsInv
<1>s. PICK s \in Selectors \cup {Zero} : \E name \in NamesFor(s) \cup {Text(UnknownHash)} :
        request' = [NoCall EXCEPT !.at = "named", !.name = name]
  BY DEF NameCall
<1>1. PICK name \in NamesFor(s) \cup {Text(UnknownHash)} :
        request' = [NoCall EXCEPT !.at = "named", !.name = name]
  BY <1>s
<1>2. name \in Names
  <2>1. s \in AllSelectors /\ UnknownHash \in AllSelectors
    BY DEF AllSelectors
  <2>2. CASE name \in nodeModule.functions /\ name.selector = s
    <3>1. PICK p \in Programs : name \in Functions[p]
      BY <2>2 DEF DispatchTypeOK
    <3>2. name = Fallback \/ \E u : name = Function(u)
      BY <3>1, FunctionNames
    <3>3. Fallback.selector = s => Fallback = [of |-> "fallback", selector |-> s]
      BY DEF Fallback
    <3> QED BY <2>1, <2>2, <3>2, <3>3 DEF Function, Names, Fallback
  <2>3. CASE name = Function(s) \/ name = Text(UnknownHash)
    BY <2>1, <2>3, SelectorNames
  <2> QED BY <2>2, <2>3 DEF NamesFor
<1>3. request' = [at |-> "named", name |-> name, outcome |-> "none", program |-> NoProgram,
                  owed |-> NoProgram, stale |-> FALSE]
  BY <1>1 DEF NoCall
<1>4. request' \in Requests
  BY <1>2, <1>3 DEF Requests
<1>5. UNCHANGED <<account, kept, recorded, nodeModule, engineModule, deployed, intended, seen,
                  unfinished, deploys, reboots>>
  BY DEF NameCall, accountVars
<1>6. DispatchTypeOK'
  BY <1>4, <1>5 DEF DispatchTypeOK
<1>7. AddressInv' /\ EngineOK(engineModule, seen)'
  BY <1>5 DEF AddressInv, Owed, EngineOK
<1>8. RequestInv'
  BY <1>2, <1>3 DEF RequestInv
<1>9. DispatchSound'
  BY <1>3, <1>5 DEF DispatchSound, DispatchedRun, PanicsSeen, RunsWhatWasMeant,
                    ReachesItsContract, ConstructorsRun
<1> QED BY <1>6, <1>7, <1>8, <1>9

\* The program of an account that a constructor has settled.
LEMMA OwedIsHeld ==
  ASSUME CallsInv, Owed # NoProgram
  PROVE  account \in Programs /\ nodeModule # NoModule
         /\ (account = Owed \/ Length(Owed) <= 32)
<1>1. ~unfinished /\ Owed = intended
  BY DEF Owed
<1>2. account \in Programs \cup {NoProgram}
  BY DEF CallsInv, DispatchTypeOK
<1>3. /\ account # NoProgram /\ nodeModule.code = account
      /\ account = intended \/ Length(intended) <= 32
  BY DEF CallsInv, AddressInv
<1> QED BY <1>1, <1>2, <1>3 DEF NoModule

\* The account's program is executed for a request.
LEMMA ExecutionStep ==
  ASSUME CallsInv, NEW name \in Names, account \in Programs,
         request' = Ran(account, name), EngineSees(account),
         UNCHANGED <<account, kept, recorded, nodeModule, deployed, intended, unfinished,
                     deploys, reboots>>
  PROVE  CallsInv'
<1> DEFINE run == Ran(account, name)
<1>1. /\ EngineOK(engineModule', seen') /\ seen' \in SUBSET Programs /\ seen \subseteq seen'
      /\ engineModule'.code \in MaybeProgram /\ engineModule'.functions \subseteq AllFunctions
  BY EngineStays
<1>2. seen' = seen \cup {account}
  BY DEF EngineSees
<1>3. /\ run \in Requests /\ run.outcome # "native"
      /\ run.outcome \in {"refused", "panicked"} /\ ~run.stale =>
           \/ SelectorOf(run.name) \notin DispatchedIn[run.program]
           \/ SelectorOf(run.name)[1] = 0
      /\ PanicSound(run, seen')
  BY <1>2, RanIsSound DEF PanicSound
<1>4. run.at = "done" /\ run.program = account /\ run.owed = Owed
  BY DEF Ran
<1> HIDE DEF run
<1>5. RequestSound(run)
  BY <1>3, <1>4, OwedIsHeld DEF RequestSound
<1>6. request' = run
  BY DEF run
<1>7. DispatchTypeOK'
  BY <1>1, <1>3, <1>6 DEF CallsInv, DispatchTypeOK, MaybeProgram, AllFunctions
<1>8. AddressInv' /\ RequestInv'
  BY <1>4, <1>6 DEF CallsInv, AddressInv, Owed, RequestInv
<1>9. DispatchSound'
  <2>1. /\ RequestSound(request') /\ ConstructorSound(deployed')
        /\ PanicSound(request', seen') /\ PanicSound(deployed', seen')
    BY <1>1, <1>3, <1>5, <1>6, SoundParts, PanicStays DEF CallsInv
  <2> QED BY <2>1 DEF DispatchSound, DispatchedRun, PanicsSeen, RunsWhatWasMeant,
             ReachesItsContract, ConstructorsRun, RequestSound, PanicSound, ConstructorSound
<1> QED BY <1>1, <1>7, <1>8, <1>9 DEF CallsInv, EngineOK

LEMMA RunStep == CallsInv /\ RunCall => CallsInv'
<1> SUFFICES ASSUME CallsInv, RunCall PROVE CallsInv'
  OBVIOUS
<1>1. request.at = "named" /\ request.name \in Names
  BY DEF RunCall, CallsInv, RequestInv
<1>2. UNCHANGED <<account, kept, recorded, nodeModule, deployed, intended, unfinished,
                  deploys, reboots>>
  BY DEF RunCall
<1>3. CASE Native
  <2>1. /\ request' = [request EXCEPT !.at = "done", !.outcome = "native", !.owed = Owed]
        /\ UNCHANGED <<engineModule, seen>>
    BY <1>3 DEF RunCall
  <2>2. Owed = NoProgram
    BY <1>3, OwedIsHeld DEF Native
  <2>3. /\ request \in Requests
        /\ request'.at = "done" /\ request'.outcome = "native" /\ request'.owed = NoProgram
    BY <2>1, <2>2 DEF CallsInv, DispatchTypeOK, Requests
  <2>4. request' \in Requests
    BY <2>1, <2>2, <2>3 DEF Requests
  <2>5. DispatchTypeOK'
    BY <1>2, <2>1, <2>4 DEF CallsInv, DispatchTypeOK
  <2>6. AddressInv' /\ EngineOK(engineModule, seen)' /\ RequestInv'
    BY <1>2, <2>1, <2>3 DEF CallsInv, AddressInv, Owed, EngineOK, RequestInv
  <2>7. DispatchSound'
    BY <1>2, <2>1, <2>3 DEF CallsInv, DispatchSound, DispatchedRun, PanicsSeen,
       RunsWhatWasMeant, ReachesItsContract, ConstructorsRun
  <2> QED BY <2>5, <2>6, <2>7 DEF CallsInv
<1>4. CASE ~Native
  <2>1. request' = Ran(account, request.name) /\ EngineSees(account)
    BY <1>4 DEF RunCall
  <2>2. account \in Programs
    BY <1>4 DEF Native, CallsInv, AddressInv
  <2> QED BY <1>1, <1>2, <2>1, <2>2, ExecutionStep
<1> QED BY <1>3, <1>4

LEMMA ByNameStep == CallsInv /\ CallByName => CallsInv'
<1> SUFFICES ASSUME CallsInv, CallByName PROVE CallsInv'
  OBVIOUS
<1>1. UNCHANGED <<account, kept, recorded, nodeModule, deployed, intended, unfinished,
                  deploys, reboots>>
  BY DEF CallByName
<1>s. PICK s \in Selectors : \E name \in {Text(s), Function(s)} :
        IF account = NoProgram
        THEN /\ request' = [NoCall EXCEPT !.at = "done", !.name = name, !.outcome = "absent"]
             /\ UNCHANGED <<engineModule, seen>>
        ELSE request' = Ran(account, name) /\ EngineSees(account)
  BY DEF CallByName
<1>2. PICK name \in {Text(s), Function(s)} :
        IF account = NoProgram
        THEN /\ request' = [NoCall EXCEPT !.at = "done", !.name = name, !.outcome = "absent"]
             /\ UNCHANGED <<engineModule, seen>>
        ELSE request' = Ran(account, name) /\ EngineSees(account)
  BY <1>s
<1>3. name \in Names
  BY SelectorNames DEF AllSelectors
<1>4. CASE account = NoProgram
  <2>1. /\ request' = [at |-> "done", name |-> name, outcome |-> "absent",
                       program |-> NoProgram, owed |-> NoProgram, stale |-> FALSE]
        /\ UNCHANGED <<engineModule, seen>>
    BY <1>2, <1>4 DEF NoCall
  <2>2. request' \in Requests
    BY <1>3, <2>1 DEF Requests
  <2>3. DispatchTypeOK'
    BY <1>1, <2>1, <2>2 DEF CallsInv, DispatchTypeOK
  <2>4. AddressInv' /\ EngineOK(engineModule, seen)' /\ RequestInv'
    BY <1>1, <2>1 DEF CallsInv, AddressInv, Owed, EngineOK, RequestInv
  <2>5. DispatchSound'
    BY <1>1, <2>1 DEF CallsInv, DispatchSound, DispatchedRun, PanicsSeen,
       RunsWhatWasMeant, ReachesItsContract, ConstructorsRun
  <2> QED BY <2>3, <2>4, <2>5 DEF CallsInv
<1>5. CASE account # NoProgram
  <2>1. account \in Programs
    BY <1>5 DEF CallsInv, DispatchTypeOK
  <2> QED BY <1>1, <1>2, <1>3, <1>5, <2>1, ExecutionStep
<1> QED BY <1>4, <1>5

LEMMA RecordStep == CallsInv /\ RecordAccount => CallsInv'
<1> SUFFICES ASSUME CallsInv, RecordAccount PROVE CallsInv'
  OBVIOUS
<1>1. /\ account # NoProgram /\ recorded' = TRUE
      /\ UNCHANGED <<account, kept, nodeModule, engineModule, request, deployed, intended,
                     seen, unfinished, deploys, reboots>>
  BY DEF RecordAccount
<1> QED BY <1>1 DEF CallsInv, DispatchTypeOK, AddressInv, Owed, EngineOK, RequestInv,
     DispatchSound, DispatchedRun, PanicsSeen, RunsWhatWasMeant, ReachesItsContract,
     ConstructorsRun

\* What is kept of a deployment is a program, and the one that was meant unless that
\* fits a word.
LEMMA RuntimeIsMeant ==
  ASSUME NEW d \in Deployments
  PROVE  /\ d.creation \in Programs /\ RuntimeOf(d) \in Programs
         /\ d.meant \in MaybeProgram
         /\ d.meant # NoProgram => RuntimeOf(d) = d.meant \/ Length(d.meant) <= 32
<1>1. d \in [creation : Programs, answer : Programs \cup {NoProgram},
             finish : {"return", "revert", "error"}, meant : Programs \cup {NoProgram}]
  OBVIOUS
<1>2. d.meant = IF d.finish # "return" THEN NoProgram
                ELSE IF d.answer = NoProgram THEN d.creation ELSE d.answer
  OBVIOUS
<1>3. d.answer # NoProgram => d.answer \in Programs /\ Length(d.answer) \in Nat
  BY <1>1 DEF Length
<1> QED BY <1>1, <1>2, <1>3 DEF RuntimeOf, MaybeProgram

LEMMA DeployStep ==
  ASSUME CallsInv, NEW d \in Deployments, Deploy(d)
  PROVE  CallsInv'
<1> DEFINE run == Ran(d.creation, ConstructorName(d.creation))
           done == run.outcome = "ran" /\ d.finish # "error"
           runtime == RuntimeOf(d)
<1>1. /\ d.creation \in Programs /\ runtime \in Programs /\ d.meant \in MaybeProgram
      /\ d.meant # NoProgram => runtime = d.meant \/ Length(d.meant) <= 32
  BY RuntimeIsMeant
<1>2. /\ deploys < MaxDeploys /\ deploys' = deploys + 1
      /\ EngineSees(d.creation) /\ deployed' = run
      /\ UNCHANGED <<recorded, request, reboots>>
  BY DEF Deploy
<1>3. /\ EngineOK(engineModule', seen') /\ seen' \in SUBSET Programs /\ seen \subseteq seen'
      /\ engineModule'.code \in MaybeProgram /\ engineModule'.functions \subseteq AllFunctions
  BY <1>1, <1>2, EngineStays
<1>4. ConstructorName(d.creation) \in Names
  <2>1. TextHash \in AllSelectors /\ Zero \in AllSelectors
    BY DEF AllSelectors
  <2> QED BY <2>1, SelectorNames DEF ConstructorName, Nameless, Names
<1>5. run \in Requests /\ PanicSound(run, seen')
  BY <1>1, <1>2, <1>4, RanIsSound DEF PanicSound, EngineSees
<1>6. ConstructorSound(run)
  <2>1. /\ run.program = d.creation
        /\ run.outcome = Outcome(d.creation, UpToDate(engineModule, d.creation),
                                 ConstructorName(d.creation))
    BY DEF Ran
  <2>2. ~(Length(d.creation) < 10) => Length(d.creation) >= 10
    BY <1>1 DEF Length
  <2> QED BY <1>1, <2>1, <2>2, ConstructorIsRun DEF ConstructorSound
<1>7. /\ account' \in Programs /\ kept' = account'
      /\ nodeModule' \in Modules /\ intended' \in MaybeProgram /\ unfinished' \in BOOLEAN
      /\ Owed' # NoProgram =>
           /\ nodeModule'.code = account'
           /\ account' = intended' \/ Length(intended') <= 32
  <2>1. nodeModule \in Modules /\ intended \in MaybeProgram
    BY DEF CallsInv, AddressInv, DispatchTypeOK, MaybeProgram
  <2>2. CASE done
    <3>1. /\ account' = runtime /\ kept' = runtime
          /\ nodeModule' = WithFunctions([nodeModule EXCEPT !.code = runtime], runtime)
          /\ intended' = d.meant /\ unfinished' = (d.meant = NoProgram)
      BY <2>2 DEF Deploy
    <3>2. nodeModule' = [code |-> runtime, functions |-> nodeModule.functions \cup Functions[runtime]]
      BY <2>1, <3>1 DEF WithFunctions, Modules
    <3>3. Functions[runtime] \subseteq AllFunctions
      BY <1>1 DEF AllFunctions
    <3>4. nodeModule' \in Modules /\ nodeModule'.code = runtime
      BY <1>1, <2>1, <3>2, <3>3 DEF Modules, MaybeProgram
    <3>5. Owed' # NoProgram => d.meant # NoProgram
      BY <3>1 DEF Owed
    <3> HIDE DEF runtime
    <3> QED BY <1>1, <3>1, <3>4, <3>5
  <2>3. CASE ~done
    <3>1. /\ account' = d.creation /\ kept' = d.creation /\ unfinished' = TRUE
          /\ nodeModule' = nodeModule /\ intended' = intended
      BY <2>3 DEF Deploy
    <3>2. Owed' = NoProgram
      BY <3>1 DEF Owed
    <3> QED BY <1>1, <2>1, <3>1, <3>2
  <2> QED BY <2>2, <2>3
<1> HIDE DEF run, done, runtime
<1>8. DispatchTypeOK'
  <2>1. deploys' \in 0..MaxDeploys
    BY <1>2 DEF CallsInv, DispatchTypeOK
  <2>2. nodeModule'.code \in MaybeProgram /\ nodeModule'.functions \subseteq AllFunctions
    BY <1>7 DEF Modules
  <2> QED BY <1>2, <1>3, <1>5, <1>7, <2>1, <2>2
          DEF CallsInv, DispatchTypeOK, MaybeProgram, AllFunctions
<1>9. AddressInv' /\ RequestInv'
  <2>1. account' # NoProgram
    BY <1>7
  <2> QED BY <1>2, <1>7, <2>1 DEF CallsInv, AddressInv, RequestInv
<1>10. DispatchSound'
  <2>1. /\ RequestSound(request') /\ ConstructorSound(deployed')
        /\ PanicSound(request', seen') /\ PanicSound(deployed', seen')
    BY <1>2, <1>3, <1>5, <1>6, SoundParts, PanicStays DEF CallsInv
  <2> QED BY <2>1 DEF DispatchSound, DispatchedRun, PanicsSeen, RunsWhatWasMeant,
             ReachesItsContract, ConstructorsRun, RequestSound, PanicSound, ConstructorSound
<1> QED BY <1>3, <1>8, <1>9, <1>10 DEF CallsInv, EngineOK

\* After a restart, whatever record of the account there is on disk.
LEMMA RestartedIsSound ==
  ASSUME CallsInv, NEW program \in MaybeProgram, Restarted(program),
         recorded => program # NoProgram, intended' \in MaybeProgram, unfinished' \in BOOLEAN,
         deploys' \in 0..MaxDeploys,
         Owed' # NoProgram =>
           recorded /\ (program = intended' \/ Length(intended') <= 32)
  PROVE  CallsInv'
<1>1. /\ reboots < MaxReboots /\ reboots' = reboots + 1
      /\ kept' = program /\ account' = IF recorded THEN program ELSE NoProgram
      /\ nodeModule' = [code |-> account', functions |-> {}]
      /\ engineModule' = NoModule /\ seen' = {}
      /\ request' = NoCall /\ deployed' = NoCall /\ recorded' = recorded
  BY DEF Restarted
<1>2. account' \in MaybeProgram /\ nodeModule' \in Modules
  BY <1>1 DEF Modules, MaybeProgram
<1>3. NoCall \in Requests
  <2>1. Nameless \in Names
    <3>1. Zero \in AllSelectors
      BY DEF AllSelectors
    <3> QED BY <3>1 DEF Nameless, Names
  <2> QED BY <2>1 DEF NoCall, Requests
<1>4. DispatchTypeOK'
  <2>1. reboots' \in 0..MaxReboots
    BY <1>1 DEF CallsInv, DispatchTypeOK
  <2>2. nodeModule'.code = account' /\ nodeModule'.functions = {}
    BY <1>1
  <2>3. engineModule'.code = NoProgram /\ engineModule'.functions = {}
    BY <1>1 DEF NoModule
  <2>4. recorded' \in BOOLEAN
    BY <1>1 DEF CallsInv, DispatchTypeOK
  <2> QED BY <1>1, <1>2, <1>3, <2>1, <2>2, <2>3, <2>4 DEF DispatchTypeOK, MaybeProgram
<1>5. AddressInv'
  <2>1. nodeModule' # NoModule => account' \in Programs
    BY <1>1, <1>2 DEF NoModule, MaybeProgram
  <2> QED BY <1>1, <1>2, <2>1 DEF AddressInv
<1>6. EngineOK(engineModule', seen') /\ RequestInv'
  BY <1>1 DEF EngineOK, NoModule, Modules, MaybeProgram, RequestInv, NoCall
<1>7. DispatchSound'
  BY <1>1 DEF DispatchSound, DispatchedRun, PanicsSeen, RunsWhatWasMeant, ReachesItsContract,
              ConstructorsRun, NoCall
<1> QED BY <1>4, <1>5, <1>6, <1>7 DEF CallsInv, EngineOK

LEMMA RestartStep == CallsInv /\ RestartVm => CallsInv'
<1> SUFFICES ASSUME CallsInv, RestartVm PROVE CallsInv'
  OBVIOUS
<1>1. /\ Restarted(kept) /\ deploys' = deploys
      /\ intended' = IF recorded THEN intended ELSE NoProgram
      /\ unfinished' = (recorded /\ unfinished)
  BY DEF RestartVm
<1>2. /\ kept \in MaybeProgram /\ deploys' \in 0..MaxDeploys
      /\ intended' \in MaybeProgram /\ unfinished' \in BOOLEAN
  BY <1>1 DEF CallsInv, DispatchTypeOK, MaybeProgram
<1>3. recorded => kept # NoProgram /\ kept = account
  BY DEF CallsInv, AddressInv
<1>4. ASSUME Owed' # NoProgram
      PROVE  recorded /\ (kept = intended' \/ Length(intended') <= 32)
  <2>1. recorded /\ ~unfinished /\ intended' = intended
    BY <1>1, <1>4 DEF Owed
  <2>2. Owed # NoProgram
    BY <1>4, <2>1 DEF Owed
  <2> QED BY <1>3, <2>1, <2>2, OwedIsHeld DEF Owed
<1> QED BY <1>1, <1>2, <1>3, <1>4, RestartedIsSound

LEMMA CutStep ==
  ASSUME CallsInv, NEW d \in Deployments, CutDeploy(d)
  PROVE  CallsInv'
<1>1. /\ Restarted(d.creation) /\ deploys < MaxDeploys /\ deploys' = deploys + 1
      /\ intended' = IF recorded THEN intended ELSE NoProgram
      /\ unfinished' = recorded
  BY DEF CutDeploy
<1>2. /\ d.creation \in Programs /\ deploys' \in 0..MaxDeploys
      /\ intended' \in MaybeProgram /\ unfinished' \in BOOLEAN
  BY <1>1, RuntimeIsMeant DEF CallsInv, DispatchTypeOK, MaybeProgram
<1>3. Owed' = NoProgram
  BY <1>1 DEF CallsInv, DispatchTypeOK, Owed
<1> QED BY <1>1, <1>2, <1>3, RestartedIsSound DEF MaybeProgram

LEMMA CallsStep == CallsInv /\ [DispatchNext]_dispatchVars => CallsInv'
<1> SUFFICES ASSUME CallsInv, [DispatchNext]_dispatchVars PROVE CallsInv'
  OBVIOUS
<1>1. CASE NameCall
  BY <1>1, NameStep
<1>2. CASE RunCall
  BY <1>2, RunStep
<1>3. CASE CallByName
  BY <1>3, ByNameStep
<1>4. CASE RecordAccount
  BY <1>4, RecordStep
<1>5. CASE RestartVm
  BY <1>5, RestartStep
<1>6. ASSUME NEW d \in Deployments, Deploy(d) \/ CutDeploy(d)
      PROVE  CallsInv'
  BY <1>6, DeployStep, CutStep
<1>7. CASE UNCHANGED dispatchVars
  BY <1>7 DEF dispatchVars, accountVars, CallsInv, DispatchTypeOK, AddressInv, Owed, EngineOK,
     RequestInv, DispatchSound, DispatchedRun, PanicsSeen, RunsWhatWasMeant,
     ReachesItsContract, ConstructorsRun
<1> QED BY <1>1, <1>2, <1>3, <1>4, <1>5, <1>6, <1>7 DEF DispatchNext

\* Whatever the programs and the deployments, and after any restarts: a function that
\* the program of an account dispatches as solc does is run; nothing panics but over what
\* some program of the address had; what runs is what the last constructor gave, unless
\* that fits a word; no call of a contract becomes a transfer; and constructors run.
THEOREM DispatchIsSound == DispatchSpec => [](DispatchTypeOK /\ DispatchSound)
<1>1. CallsInv => DispatchTypeOK /\ DispatchSound
  BY DEF CallsInv
<1> QED BY CallsInitially, CallsStep, <1>1, PTL DEF DispatchSpec

\* The same beside the pipeline of transactions, whose steps leave the calls alone.
THEOREM CallsAreFound == PartsSpec => []CallsFindCode
<1> DEFINE Inv == part = "calls" => CallsInv
<1>1. PartsInit => Inv
  BY CallsInitially DEF PartsInit
<1>2. Inv /\ [PartsNext]_partsVars => Inv'
  <2> SUFFICES ASSUME Inv, [PartsNext]_partsVars, part' = "calls" PROVE CallsInv'
    OBVIOUS
  <2>1. part = "calls" /\ [DispatchNext]_dispatchVars
    BY DEF PartsNext, PipelineNext, CallsNext, partsVars
  <2> QED BY <2>1, CallsStep
<1>3. Inv => CallsFindCode
  BY DEF CallsFindCode, CallsInv
<1> QED BY <1>1, <1>2, <1>3, PTL DEF PartsSpec

=============================================================================
