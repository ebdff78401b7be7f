------------------------------- MODULE EvmCalls -------------------------------
(***************************************************************************)
(* One transaction in the EVM interpreter: nested calls over four layers   *)
(* of contract storage.                                                    *)
(*                                                                         *)
(*   db      RocksDB, keys storage:{contract}:{slot}                       *)
(*   ws      each frame's own copy of world_state.storage, inherited from  *)
(*           the caller when the frame is created                          *)
(*   writes  each frame's temp_storage_writes, the slots it has stored     *)
(*   account.resources, which every transaction refreshes from RocksDB and *)
(*           hands to its first frame                                      *)
(*                                                                         *)
(* A sub-call that succeeds is written to RocksDB at once; the outermost   *)
(* frame is written after the transaction, slot by slot.  storage is what  *)
(* the EVM prescribes: each frame works on the latest values, and a frame  *)
(* that fails leaves none of what it or its callees stored.                *)
(*                                                                         *)
(* Transactions run one at a time: their callers hold vm.write().  Calls   *)
(* to an address without code, and calls beyond the depth limit, store     *)
(* nothing and are left out; gas is counted but never runs out.            *)
(***************************************************************************)
EXTENDS Integers, Sequences, SequencesExt

CONSTANTS
  Contracts,     \* addresses with code
  Slots,         \* storage slots
  OwnerSlot,     \* slot 0, where the interpreter expects an owner
  Values,        \* the words other than zero that programs store
  User,          \* sender of the transactions
  MaxDepth,      \* bound: nesting of calls
  MaxSteps       \* bound: loads, stores and calls of one transaction

ASSUME ValuesAssumption == 0 \notin Values
ASSUME AddressAssumption == 0 \notin Contracts \cup {User}
ASSUME DepthAssumption == MaxDepth \in Nat \ {0} /\ MaxSteps \in Nat

VARIABLES
  db,          \* RocksDB: 0 for a slot without an entry
  frames,      \* the active calls, outermost first
  storage,     \* reference: the storage the EVM prescribes
  broken,      \* history: what RocksDB holds is past repair by this transaction
  entered,     \* history: contracts called by this transaction
  again,       \* history: some contract was called twice
  zeroed,      \* history: some slot was set to zero
  seen,        \* history: what the last SLOAD got and what it should have got
  steps        \* loads, stores and calls so far

history == <<broken, entered, again, zeroed, seen>>
vars == <<db, frames, storage, history, steps>>

Words == {0} \cup Values \cup Contracts \cup {User}
Store == [Contracts -> [Slots -> Words]]
Kinds == {"tx", "call", "delegate", "static", "done"}
Writes == UNION {[dom -> Words] : dom \in SUBSET Slots}

NoWrites == [s \in {} |-> 0]
NothingSeen == [slot |-> OwnerSlot, got |-> 0, want |-> 0]

Top == frames[Len(frames)]
Below == frames[Len(frames) - 1]
Running == frames # <<>> /\ Top.kind # "done"

Init ==
  /\ db \in [Contracts -> [Slots -> {0} \cup Values]]
  /\ frames = <<>> /\ storage = db /\ steps = 0
  /\ broken = FALSE /\ entered = {} /\ again = FALSE /\ zeroed = FALSE
  /\ seen = NothingSeen

\* the frames when the top one has become f, and when it has left and the one
\* below it has become f
Edited(f) == [frames EXCEPT ![Len(frames)] = f]
Popped(f) == [k \in 1..(Len(frames) - 1) |-> IF k = Len(frames) - 1 THEN f ELSE frames[k]]

\* f laid over g (f @@ g, which the provers do not expand)
Laid(f, g) == [x \in DOMAIN f \cup DOMAIN g |-> IF x \in DOMAIN f THEN f[x] ELSE g[x]]

\* the slots of contract c take the values written
Over(store, c, written) == [store EXCEPT ![c] = Laid(written, @)]

\* one more instruction of the transaction
Step == steps < MaxSteps /\ steps' = steps + 1

-----------------------------------------------------------------------------
(* Entering a call.                                                        *)

\* ensure_contract_owner_initialized: where the copy of the storage has no owner
\* the caller becomes the owner
WithOwner(ws, c, who) ==
  IF OwnerSlot \in Slots /\ ws[c][OwnerSlot] = 0
  THEN [ws EXCEPT ![c][OwnerSlot] = who]
  ELSE ws

\* execute_program builds a context for the contract c called by who
Frame(kind, c, who, ws) ==
  [kind |-> kind, self |-> c, caller |-> who, ws |-> WithOwner(ws, c, who),
   writes |-> NoWrites, before |-> storage, flushed |-> {}]

\* execute_speculative_transaction reloads the contract's slots from RocksDB; the
\* frame starts from them and knows no other contract
Reloaded(c) == [d \in Contracts |-> IF d = c THEN db[c] ELSE [s \in Slots |-> 0]]

StartTransaction ==
  /\ frames = <<>>
  /\ \E c \in Contracts :
       /\ frames' = <<[Frame("tx", c, User, Reloaded(c)) EXCEPT !.before = db]>>
       /\ entered' = {c}
  /\ storage' = db /\ broken' = FALSE /\ again' = FALSE /\ zeroed' = FALSE
  /\ seen' = NothingSeen /\ steps' = 0
  /\ UNCHANGED db

\* CALL, and STATICCALL and CALLCODE whose stores are dropped on return
Call(kind) ==
  /\ Running /\ Len(frames) < MaxDepth /\ Step
  /\ \E c \in Contracts :
       /\ frames' = Append(frames, Frame(kind, c, Top.self, Top.ws))
       /\ again' = (again \/ c \in entered)
       /\ entered' = entered \cup {c}
  /\ UNCHANGED <<db, storage, broken, zeroed, seen>>

\* DELEGATECALL runs other code on the same storage for the same caller
DelegateCall_Target ==
  /\ Running /\ Len(frames) < MaxDepth /\ Step
  /\ \E c \in Contracts : frames' = Append(frames, Frame("delegate", c, Top.caller, Top.ws))
  /\ UNCHANGED <<db, storage, history>>
DelegateCall ==
  /\ Running /\ Len(frames) < MaxDepth /\ Step
  /\ frames' = Append(frames, Frame("delegate", Top.self, Top.caller, Top.ws))
  /\ UNCHANGED <<db, storage, history>>

-----------------------------------------------------------------------------
(* SLOAD and SSTORE.                                                       *)

\* get_storage, then RocksDB when the copy holds zero; a hit there is cached
Sload_NoFallback(s) ==
  LET c == Top.self IN
  /\ Running /\ Step
  /\ seen' = [slot |-> s, got |-> Top.ws[c][s], want |-> storage[c][s]]
  /\ UNCHANGED <<db, frames, storage, broken, entered, again, zeroed>>
Sload(s) ==
  LET c == Top.self
      got == IF Top.ws[c][s] # 0 THEN Top.ws[c][s] ELSE db[c][s]
  IN
  /\ Running /\ Step
  /\ frames' = Edited([Top EXCEPT !.ws[c][s] = got])
  /\ seen' = [slot |-> s, got |-> got, want |-> storage[c][s]]
  /\ UNCHANGED <<db, storage, broken, entered, again, zeroed>>

Sstore(s, v) ==
  LET c == Top.self IN
  /\ Running /\ Step
  /\ frames' = Edited([Top EXCEPT !.ws[c][s] = v, !.writes = Laid([t \in {s} |-> v], @)])
  /\ storage' = [storage EXCEPT ![c][s] = v]
  /\ zeroed' = (zeroed \/ v = 0)
  /\ UNCHANGED <<db, broken, entered, again, seen>>

-----------------------------------------------------------------------------
(* Leaving a call.                                                         *)

\* a frame below holds a store to one of these slots that it has not yet written
Pending(c, slots) ==
  \E k \in 1..(Len(frames) - 1) :
    frames[k].self = c /\ DOMAIN frames[k].writes \cap slots # {}

\* CALL that succeeds: its stores go into the caller's copy and into RocksDB.  A
\* store still pending below for the same slot will later overwrite them.
ReturnCall ==
  /\ Running /\ Top.kind = "call"
  /\ LET c == Top.self  written == Top.writes IN
       /\ db' = Over(db, c, written)
       /\ frames' = Popped([Below EXCEPT !.ws = Over(@, c, written),
                              !.flushed = @ \cup Top.flushed \cup {d \in {c} : DOMAIN written # {}}])
       /\ broken' = (broken \/ Pending(c, DOMAIN written))
  /\ UNCHANGED <<storage, entered, again, zeroed, seen, steps>>

\* DELEGATECALL that succeeds: its stores become the caller's
ReturnDelegate ==
  /\ Running /\ Top.kind = "delegate"
  /\ frames' = Popped([Below EXCEPT !.ws = Over(@, Top.self, Top.writes),
                         !.writes = Laid(Top.writes, @),
                         !.flushed = @ \cup Top.flushed])
  /\ UNCHANGED <<db, storage, history, steps>>

\* STATICCALL that succeeds: its stores are dropped, but not those of the calls
\* it made
ReturnStatic ==
  /\ Running /\ Top.kind = "static"
  /\ frames' = Popped([Below EXCEPT !.flushed = @ \cup Top.flushed])
  /\ storage' = Top.before
  /\ broken' = (broken \/ Top.flushed # {})
  /\ UNCHANGED <<db, entered, again, zeroed, seen, steps>>

\* The transaction succeeds: process_execution_result_generically will write its
\* stores.  The commit of the parallel engine then writes the same values again.
ReturnTransaction ==
  /\ Running /\ Top.kind = "tx"
  /\ frames' = Edited([Top EXCEPT !.kind = "done"])
  /\ UNCHANGED <<db, storage, history, steps>>

PersistSlot ==
  /\ frames # <<>> /\ Top.kind = "done"
  /\ \E s \in DOMAIN Top.writes :
       /\ db' = [db EXCEPT ![Top.self][s] = Top.writes[s]]
       /\ frames' = Edited([Top EXCEPT !.flushed = {Top.self},
                                !.writes = [t \in DOMAIN @ \ {s} |-> @[t]]])
  /\ UNCHANGED <<storage, history, steps>>

EndTransaction ==
  /\ frames # <<>> /\ Top.kind = "done" /\ DOMAIN Top.writes = {}
  /\ frames' = <<>>
  /\ UNCHANGED <<db, storage, history, steps>>

\* REVERT, INVALID, a halt or an error: the result carries no "storage" entry, so
\* nobody writes what this frame stored.  What its callees stored is in RocksDB.
Fail_Keeps ==
  /\ Running
  /\ IF Top.kind = "tx"
     THEN frames' = Edited([Top EXCEPT !.kind = "done"])
     ELSE frames' = Popped([Below EXCEPT !.flushed = @ \cup Top.flushed])
  /\ storage' = Top.before
  /\ broken' = (broken \/ Top.flushed # {})
  /\ UNCHANGED <<db, entered, again, zeroed, seen, steps>>
Fail ==
  /\ Running
  /\ frames' = IF Top.kind = "tx" THEN <<>>
               ELSE Popped([Below EXCEPT !.flushed = @ \cup Top.flushed])
  /\ storage' = Top.before
  /\ broken' = (broken \/ Top.flushed # {})
  /\ UNCHANGED <<db, entered, again, zeroed, seen, steps>>

\* The process dies: the transaction did not happen, unless some of it is already
\* in RocksDB.
Crash ==
  /\ frames # <<>>
  /\ frames' = <<>>
  /\ storage' = frames[1].before
  /\ broken' = (broken \/ \E k \in 1..Len(frames) : frames[k].flushed # {})
  /\ UNCHANGED <<db, entered, again, zeroed, seen, steps>>

-----------------------------------------------------------------------------
Next ==
  \/ StartTransaction
  \/ \E kind \in {"call", "static"} : Call(kind)
  \/ DelegateCall
  \/ \E s \in Slots : Sload(s) \/ \E v \in {0} \cup Values : Sstore(s, v)
  \/ ReturnCall \/ ReturnDelegate \/ ReturnStatic
  \/ ReturnTransaction \/ PersistSlot \/ EndTransaction
  \/ Fail \/ Crash

Spec == Init /\ [][Next]_vars

-----------------------------------------------------------------------------
(* Properties.                                                             *)

Frames ==
  [kind : Kinds, self : Contracts, caller : Contracts \cup {User}, ws : Store,
   writes : Writes, before : Store, flushed : SUBSET Contracts]

\* Every variable has its type; the outermost frame is the transaction, the others
\* are calls, a delegate runs on its caller's storage, and only a transaction that
\* has returned is being written.
TypeOK ==
  /\ db \in Store /\ storage \in Store /\ frames \in Seq(Frames)
  /\ broken \in BOOLEAN /\ again \in BOOLEAN /\ zeroed \in BOOLEAN
  /\ entered \subseteq Contracts /\ steps \in Nat
  /\ seen \in [slot : Slots \cup {OwnerSlot}, got : Words, want : Words]
  /\ \A k \in 1..Len(frames) :
       /\ frames[k].kind \in {"tx", "done"} <=> k = 1
       /\ frames[k].kind = "delegate" => frames[k].self = frames[k - 1].self
       /\ frames[k].kind = "done" => Len(frames) = 1

\* the frame k stores the slot s of contract c itself
Stores(k, c, s) == frames[k].self = c /\ s \in DOMAIN frames[k].writes

\* v is the value of the slot in RocksDB once the first n frames are written over it
Effective(n, c, s, v) ==
  \/ /\ \A k \in 1..n : ~Stores(k, c, s)
     /\ v = db[c][s]
  \/ \E k \in 1..n :
       /\ Stores(k, c, s) /\ v = frames[k].writes[s]
       /\ \A j \in (k + 1)..n : ~Stores(j, c, s)

\* RocksDB, with the stores of the active frames over it, is what the EVM prescribes
\* at every step, so that a finished, reverted or crashed transaction leaves RocksDB
\* right: all of its stores or none.  broken names the only ways out: a frame that
\* fails, is static or is lost in a crash after part of it was written, and a
\* re-entrant call whose caller holds a pending store to the slot it writes.
StorageIsEvm ==
  ~broken => \A c \in Contracts, s \in Slots : Effective(Len(frames), c, s, storage[c][s])

\* The strengthening that makes StorageIsEvm inductive: what a frame would be rolled
\* back to is RocksDB under the frames below, while nothing was written since it began.
Untouched(k) == \A j \in k..Len(frames) : frames[j].flushed = {}
BeforeIsEvm ==
  ~broken => \A k \in 1..Len(frames) :
    Untouched(k) => \A c \in Contracts, s \in Slots :
                      Effective(k - 1, c, s, frames[k].before[c][s])

\* An SLOAD gets the value last stored, by whichever frame, for a transaction that
\* calls no contract twice and sets no slot to zero.
ReadsLastStore ==
  (~again /\ ~zeroed /\ seen.slot # OwnerSlot) => seen.got = seen.want

=============================================================================
