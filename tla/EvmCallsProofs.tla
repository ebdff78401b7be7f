---------------------------- MODULE EvmCallsProofs ----------------------------
(***************************************************************************)
(* Proofs about EvmCalls, for any contracts, slots, words and bounds.      *)
(***************************************************************************)
EXTENDS EvmCalls, TLAPS

-----------------------------------------------------------------------------
(* The two ways of changing the stack of calls below its top.              *)

\* Replacing the top frame keeps the depth and the frames below.
LEMMA EditedIsStack ==
  ASSUME NEW f \in Frames, frames \in Seq(Frames), Len(frames) > 0
  PROVE  /\ Edited(f) \in Seq(Frames) /\ Len(Edited(f)) = Len(frames)
         /\ Edited(f)[Len(frames)] = f
         /\ \A k \in 1..(Len(frames) - 1) : Edited(f)[k] = frames[k]
  BY DEF Edited

\* Leaving a call removes one frame and changes the one below it.
LEMMA PoppedIsStack ==
  ASSUME NEW f \in Frames, frames \in Seq(Frames), Len(frames) > 1
  PROVE  /\ Popped(f) \in Seq(Frames) /\ Len(Popped(f)) = Len(frames) - 1
         /\ Popped(f)[Len(frames) - 1] = f
         /\ \A k \in 1..(Len(frames) - 2) : Popped(f)[k] = frames[k]
<1>1. Len(frames) - 1 \in Nat
  BY DEF Frames
<1>2. \A k \in 1..(Len(frames) - 1) : Popped(f)[k] \in Frames
  BY DEF Popped
<1> QED
  BY <1>1, <1>2 DEF Popped

\* Stores laid over a storage give a storage.
LEMMA OverIsStore ==
  ASSUME NEW store \in Store, NEW c \in Contracts, NEW written \in Writes
  PROVE  /\ Over(store, c, written) \in Store
         /\ \A d \in Contracts, s \in Slots :
              Over(store, c, written)[d][s] =
                IF d = c /\ s \in DOMAIN written THEN written[s] ELSE store[d][s]
<1>1. PICK dom \in SUBSET Slots : written \in [dom -> Words]
  BY DEF Writes
<1>2. Laid(written, store[c]) \in [Slots -> Words]
  BY <1>1 DEF Store, Laid
<1> QED
  BY <1>1, <1>2 DEF Over, Store, Laid

\* One set of stores laid over another is a set of stores.
LEMMA LaidIsWrites ==
  ASSUME NEW f \in Writes, NEW g \in Writes
  PROVE  Laid(f, g) \in Writes /\ DOMAIN Laid(f, g) = DOMAIN f \cup DOMAIN g
<1>1. PICK df \in SUBSET Slots : f \in [df -> Words]
  BY DEF Writes
<1>2. PICK dg \in SUBSET Slots : g \in [dg -> Words]
  BY DEF Writes
<1>3. Laid(f, g) \in [df \cup dg -> Words]
  BY <1>1, <1>2 DEF Laid
<1> QED
  BY <1>1, <1>2, <1>3 DEF Writes, Laid

\* A frame that is entered is a frame.
LEMMA FrameIsFrame ==
  ASSUME NEW kind \in Kinds, NEW c \in Contracts, NEW who \in Contracts \cup {User},
         NEW ws \in Store, storage \in Store
  PROVE  Frame(kind, c, who, ws) \in Frames
<1>1. WithOwner(ws, c, who) \in Store
  BY DEF WithOwner, Store, Words
<1>2. NoWrites \in [{} -> Words] /\ {} \in SUBSET Slots
  BY DEF NoWrites
<1>3. NoWrites \in Writes /\ DOMAIN NoWrites = {}
  BY <1>2 DEF Writes
<1> QED
  BY <1>1, <1>3 DEF Frame, Frames

-----------------------------------------------------------------------------
(* Type correctness.                                                       *)

\* The initial state is typed.
LEMMA InitIsTyped == Init => TypeOK
<1> SUFFICES ASSUME Init PROVE TypeOK
  OBVIOUS
<1>1. db \in Store /\ storage \in Store
  BY DEF Init, Store, Words
<1>2. frames \in Seq(Frames) /\ Len(frames) = 0 /\ steps \in Nat
  BY DEF Init
<1>3. /\ broken \in BOOLEAN /\ again \in BOOLEAN /\ zeroed \in BOOLEAN
      /\ entered \subseteq Contracts
      /\ seen \in [slot : Slots \cup {OwnerSlot}, got : Words, want : Words]
  BY DEF Init, NothingSeen, Words
<1> QED
  BY <1>1, <1>2, <1>3 DEF TypeOK

\* Every step keeps the types and the shape of the stack of calls.
LEMMA StepIsTyped == TypeOK /\ [Next]_vars => TypeOK'
<1> SUFFICES ASSUME TypeOK, [Next]_vars
             PROVE  TypeOK'
  OBVIOUS
<1>t. /\ db \in Store /\ storage \in Store /\ frames \in Seq(Frames) /\ steps \in Nat
      /\ broken \in BOOLEAN /\ again \in BOOLEAN /\ zeroed \in BOOLEAN
      /\ entered \subseteq Contracts
      /\ seen \in [slot : Slots \cup {OwnerSlot}, got : Words, want : Words]
  BY DEF TypeOK
<1>k. ASSUME NEW k \in 1..Len(frames)
      PROVE  /\ frames[k] \in Frames
             /\ frames[k].kind \in {"tx", "done"} <=> k = 1
             /\ frames[k].kind = "delegate" => frames[k].self = frames[k - 1].self
             /\ frames[k].kind = "done" => Len(frames) = 1
  BY DEF TypeOK
<1>a. ASSUME frames # <<>>
      PROVE  /\ Len(frames) \in Nat \ {0} /\ Top \in Frames
             /\ Top = frames[Len(frames)]
             /\ Top.kind \notin {"tx", "done"} => Len(frames) > 1 /\ Below \in Frames
                                   /\ Below = frames[Len(frames) - 1]
  BY <1>a, <1>t, <1>k DEF Top, Below
<1>b. ASSUME NEW f \in Frames, frames # <<>>, frames' = Edited(f),
             f.kind = Top.kind \/ (f.kind = "done" /\ Top.kind = "tx"), f.self = Top.self,
             db' \in Store, storage' \in Store, UNCHANGED <<broken, entered, again>>, steps' \in Nat,
             zeroed' \in BOOLEAN, seen' \in [slot : Slots \cup {OwnerSlot}, got : Words, want : Words]
      PROVE  TypeOK'
  <2>1. /\ frames' \in Seq(Frames) /\ Len(frames') = Len(frames)
        /\ frames'[Len(frames)] = f
        /\ \A k \in 1..(Len(frames) - 1) : frames'[k] = frames[k]
    <3>1. /\ Edited(f) \in Seq(Frames) /\ Len(Edited(f)) = Len(frames)
          /\ Edited(f)[Len(frames)] = f
          /\ \A k \in 1..(Len(frames) - 1) : Edited(f)[k] = frames[k]
      BY <1>a, <1>b, <1>t, EditedIsStack
    <3> QED BY <1>b, <3>1
  <2>2. /\ frames[Len(frames)].self = f.self
        /\ \/ f.kind = frames[Len(frames)].kind
           \/ f.kind = "done" /\ frames[Len(frames)].kind = "tx"
        /\ f.kind = "done" => Len(frames) = 1
    <3>1. Len(frames) \in 1..Len(frames) /\ Top = frames[Len(frames)]
      BY <1>a, <1>b
    <3>2. /\ frames[Len(frames)].kind \in {"tx", "done"} <=> Len(frames) = 1
          /\ frames[Len(frames)].kind = "done" => Len(frames) = 1
      BY <1>k, <3>1
    <3> QED
      BY <1>b, <3>1, <3>2
  <2>3. \A k \in 1..Len(frames') :
          /\ frames'[k].kind \in {"tx", "done"} <=> k = 1
          /\ frames'[k].kind = "delegate" => frames'[k].self = frames'[k - 1].self
          /\ frames'[k].kind = "done" => Len(frames') = 1
    <3> TAKE k \in 1..Len(frames')
    <3>1. /\ frames'[k].self = frames[k].self
          /\ \/ frames'[k].kind = frames[k].kind
             \/ frames'[k].kind = "done" /\ frames[k].kind = "tx"
      BY <2>1, <2>2
    <3>2. k > 1 => frames'[k - 1].self = frames[k - 1].self
      BY <1>t, <2>1
    <3>3. frames'[k].kind = "done" => Len(frames') = 1
      BY <1>k, <2>1, <2>2
    <3> QED
      BY <1>k, <2>1, <3>1, <3>2, <3>3
  <2> QED
    BY <1>b, <1>t, <2>1, <2>3 DEF TypeOK
<1>1. CASE StartTransaction
  <2>1. PICK c \in Contracts :
          /\ frames' = <<[Frame("tx", c, User, Reloaded(c)) EXCEPT !.before = db]>>
          /\ entered' = {c}
    BY <1>1 DEF StartTransaction
  <2> DEFINE f == [Frame("tx", c, User, Reloaded(c)) EXCEPT !.before = db]
  <2>2. Reloaded(c) \in Store
    BY <1>t DEF Reloaded, Store, Words
  <2>3. Frame("tx", c, User, Reloaded(c)) \in Frames
    BY <1>t, <2>2, FrameIsFrame DEF Kinds
  <2>4. f \in Frames /\ f.kind = "tx"
    BY <1>t, <2>3 DEF Frames, Frame
  <2>a. frames' = <<f>>
    BY <2>1
  <2> HIDE DEF f
  <2>5. /\ frames' \in Seq(Frames) /\ Len(frames') = 1 /\ frames'[1].kind = "tx"
        /\ entered' \subseteq Contracts
    BY <2>1, <2>4, <2>a
  <2>6. /\ storage' \in Store /\ db' \in Store /\ steps' \in Nat
        /\ broken' \in BOOLEAN /\ again' \in BOOLEAN /\ zeroed' \in BOOLEAN
        /\ seen' \in [slot : Slots \cup {OwnerSlot}, got : Words, want : Words]
    BY <1>1, <1>t DEF StartTransaction, NothingSeen, Words
  <2>7. \A k \in 1..Len(frames') :
          /\ k = 1 /\ frames'[k].kind = "tx"
          /\ frames'[k].kind # "delegate"
    BY <2>5
  <2> QED
    BY <2>5, <2>6, <2>7 DEF TypeOK
<1>2. ASSUME NEW kind \in {"call", "static"}, Call(kind)
      PROVE  TypeOK'
  <2>1. PICK c \in Contracts :
          /\ frames' = Append(frames, Frame(kind, c, Top.self, Top.ws))
          /\ again' = (again \/ c \in entered) /\ entered' = entered \cup {c}
    BY <1>2 DEF Call
  <2>2. Top \in Frames /\ Top.kind # "done" /\ Len(frames) > 0
    BY <1>2, <1>a DEF Call, Running
  <2>a. Top.self \in Contracts \cup {User} /\ Top.ws \in Store /\ kind \in Kinds
    BY <2>2 DEF Frames, Kinds
  <2>3. /\ Frame(kind, c, Top.self, Top.ws) \in Frames
        /\ Frame(kind, c, Top.self, Top.ws).kind = kind
    BY <1>t, <2>a, FrameIsFrame DEF Frame
  <2>5. frames' \in Seq(Frames) /\ Len(frames') = Len(frames) + 1
        /\ frames'[Len(frames')] = Frame(kind, c, Top.self, Top.ws)
        /\ \A k \in 1..Len(frames) : frames'[k] = frames[k]
    BY <1>t, <2>1, <2>3
  <2>6. \A k \in 1..Len(frames) : frames[k].kind # "done"
    BY <1>k, <2>2 DEF Top
  <2> QED
    BY <1>t, <1>k, <1>2, <2>1, <2>2, <2>3, <2>5, <2>6 DEF Call, Step, TypeOK
<1>3. CASE DelegateCall
  <2> DEFINE f == Frame("delegate", Top.self, Top.caller, Top.ws)
  <2>2. Top \in Frames /\ Top.kind # "done" /\ Len(frames) > 0 /\ Top = frames[Len(frames)]
    BY <1>3, <1>a DEF DelegateCall, Running
  <2>a. /\ Top.self \in Contracts /\ Top.caller \in Contracts \cup {User}
        /\ Top.ws \in Store /\ "delegate" \in Kinds
    BY <2>2 DEF Frames, Kinds
  <2>3. f \in Frames /\ f.kind = "delegate" /\ f.self = Top.self
    BY <1>t, <2>a, FrameIsFrame DEF Frame
  <2>4. frames' = Append(frames, f)
    BY <1>3 DEF DelegateCall
  <2>5. frames' \in Seq(Frames) /\ Len(frames') = Len(frames) + 1
        /\ frames'[Len(frames')] = f
        /\ \A k \in 1..Len(frames) : frames'[k] = frames[k]
    BY <1>t, <2>3, <2>4
  <2>6. \A k \in 1..Len(frames) : frames[k].kind # "done"
    BY <1>k, <2>2 DEF Top
  <2> HIDE DEF f
  <2> QED
    BY <1>t, <1>k, <1>3, <2>2, <2>3, <2>5, <2>6 DEF DelegateCall, Step, TypeOK, history
<1>4. ASSUME NEW s \in Slots, Sload(s)
      PROVE  TypeOK'
  <2> DEFINE got == IF Top.ws[Top.self][s] # 0 THEN Top.ws[Top.self][s] ELSE db[Top.self][s]
             f == [Top EXCEPT !.ws[Top.self][s] = got]
  <2>1. frames # <<>> /\ Top \in Frames /\ frames' = Edited(f)
    BY <1>4, <1>a DEF Sload, Running
  <2>2. Top.self \in Contracts /\ got \in Words /\ storage[Top.self][s] \in Words
    BY <1>t, <2>1 DEF Frames, Store
  <2>3. f \in Frames /\ f.kind = Top.kind /\ f.self = Top.self
    BY <2>1, <2>2 DEF Frames, Store
  <2>4. /\ db' \in Store /\ storage' \in Store /\ zeroed' \in BOOLEAN /\ steps' \in Nat
        /\ UNCHANGED <<broken, entered, again>>
        /\ seen' \in [slot : Slots \cup {OwnerSlot}, got : Words, want : Words]
    BY <1>4, <1>t, <2>2 DEF Sload, Step
  <2> HIDE DEF f
  <2> QED
    BY <1>b, <2>1, <2>3, <2>4
<1>5. ASSUME NEW s \in Slots, NEW v \in {0} \cup Values, Sstore(s, v)
      PROVE  TypeOK'
  <2> DEFINE w == Laid([t \in {s} |-> v], Top.writes)
             f == [Top EXCEPT !.ws[Top.self][s] = v, !.writes = w]
  <2>1. frames # <<>> /\ Top \in Frames /\ frames' = Edited(f)
    BY <1>5, <1>a DEF Sstore, Running
  <2>2. Top.self \in Contracts /\ v \in Words /\ Top.writes \in Writes
    BY <2>1 DEF Frames, Words
  <2>3. [t \in {s} |-> v] \in Writes
    <3>1. [t \in {s} |-> v] \in [{s} -> Words] /\ {s} \in SUBSET Slots
      BY <2>2
    <3> QED
      BY <3>1 DEF Writes
  <2>4. w \in Writes
    BY <2>2, <2>3, LaidIsWrites
  <2> HIDE DEF w
  <2>5. f \in Frames /\ f.kind = Top.kind /\ f.self = Top.self
    BY <2>1, <2>2, <2>4 DEF Frames, Store
  <2>6. /\ db' \in Store /\ storage' \in Store /\ zeroed' \in BOOLEAN /\ steps' \in Nat
        /\ UNCHANGED <<broken, entered, again, seen>>
    BY <1>5, <1>t, <2>2 DEF Sstore, Step, Store
  <2> HIDE DEF f
  <2> QED
    BY <1>b, <1>t, <2>1, <2>5, <2>6
<1>c. ASSUME NEW f \in Frames, Running, Top.kind \notin {"tx", "done"},
             frames' = Popped(f), f.kind = Below.kind, f.self = Below.self,
             db' \in Store, storage' \in Store, broken' \in BOOLEAN,
             UNCHANGED <<entered, again, zeroed, seen, steps>>
      PROVE  TypeOK'
  <2>1. Len(frames) > 1 /\ Below \in Frames /\ Below = frames[Len(frames) - 1]
    BY <1>a, <1>c DEF Running
  <2>2. /\ frames' \in Seq(Frames) /\ Len(frames') = Len(frames) - 1
        /\ frames'[Len(frames) - 1] = f
        /\ \A k \in 1..(Len(frames) - 2) : frames'[k] = frames[k]
    BY <1>c, <1>t, <2>1, PoppedIsStack
  <2>3. \A k \in 1..Len(frames') :
          /\ frames'[k].kind = frames[k].kind /\ frames'[k].self = frames[k].self
          /\ k \in 1..Len(frames)
    <3> TAKE k \in 1..Len(frames')
    <3>1. Len(frames) \in Nat /\ k \in 1..Len(frames)
      BY <1>t, <2>1, <2>2
    <3>2. CASE k = Len(frames) - 1
      BY <1>c, <2>1, <2>2, <3>1, <3>2
    <3>3. CASE k # Len(frames) - 1
      <4>1. k \in 1..(Len(frames) - 2)
        BY <2>2, <3>1, <3>3
      <4> QED
        BY <2>2, <3>1, <4>1
    <3> QED
      BY <3>2, <3>3
  <2>4. \A k \in 1..Len(frames') :
          /\ frames'[k].kind \in {"tx", "done"} <=> k = 1
          /\ frames'[k].kind = "delegate" => frames'[k].self = frames'[k - 1].self
          /\ frames'[k].kind = "done" => Len(frames') = 1
    <3> TAKE k \in 1..Len(frames')
    <3>1. k > 1 => frames'[k - 1].self = frames[k - 1].self
      BY <1>t, <2>2, <2>3
    <3>2. k \in 1..Len(frames) /\ frames'[k].kind = frames[k].kind /\ frames'[k].self = frames[k].self
      BY <2>3
    <3>3. /\ frames[k].kind \in {"tx", "done"} <=> k = 1
          /\ frames[k].kind = "delegate" => frames[k].self = frames[k - 1].self
          /\ frames[k].kind # "done"
      BY <1>k, <2>1, <3>2
    <3> QED
      BY <3>1, <3>2, <3>3
  <2> QED
    BY <1>c, <1>t, <2>2, <2>4 DEF TypeOK
<1>6. CASE ReturnCall
  <2> DEFINE f == [Below EXCEPT !.ws = Over(@, Top.self, Top.writes),
                     !.flushed = @ \cup Top.flushed
                                   \cup {d \in {Top.self} : DOMAIN Top.writes # {}}]
  <2>1. Running /\ frames # <<>> /\ Top.kind = "call" /\ frames' = Popped(f)
    BY <1>6 DEF ReturnCall, Running
  <2>2. Top \in Frames /\ Below \in Frames
    BY <1>a, <2>1
  <2>3. Top.self \in Contracts /\ Top.writes \in Writes /\ Below.ws \in Store
    BY <2>2 DEF Frames
  <2>4. Over(Below.ws, Top.self, Top.writes) \in Store /\ Over(db, Top.self, Top.writes) \in Store
    BY <1>t, <2>3, OverIsStore
  <2>5. f \in Frames /\ f.kind = Below.kind /\ f.self = Below.self
    BY <2>2, <2>4 DEF Frames
  <2>6. db' \in Store /\ storage' \in Store /\ broken' \in BOOLEAN
        /\ UNCHANGED <<entered, again, zeroed, seen, steps>>
    BY <1>6, <1>t, <2>4 DEF ReturnCall, Pending
  <2> HIDE DEF f
  <2> QED
    BY <1>c, <2>1, <2>5, <2>6
<1>7. CASE ReturnDelegate
  <2> DEFINE f == [Below EXCEPT !.ws = Over(@, Top.self, Top.writes),
                     !.writes = Laid(Top.writes, @), !.flushed = @ \cup Top.flushed]
  <2>1. Running /\ frames # <<>> /\ Top.kind = "delegate" /\ frames' = Popped(f)
    BY <1>7 DEF ReturnDelegate, Running
  <2>2. Top \in Frames /\ Below \in Frames
    BY <1>a, <2>1
  <2>3. /\ Top.self \in Contracts /\ Top.writes \in Writes
        /\ Below.ws \in Store /\ Below.writes \in Writes
    BY <2>2 DEF Frames
  <2>4. Over(Below.ws, Top.self, Top.writes) \in Store /\ Laid(Top.writes, Below.writes) \in Writes
    BY <2>3, OverIsStore, LaidIsWrites
  <2>5. f \in Frames /\ f.kind = Below.kind /\ f.self = Below.self
    BY <2>2, <2>4 DEF Frames
  <2>6. db' \in Store /\ storage' \in Store /\ broken' \in BOOLEAN
        /\ UNCHANGED <<entered, again, zeroed, seen, steps>>
    BY <1>7, <1>t DEF ReturnDelegate, history
  <2> HIDE DEF f
  <2> QED
    BY <1>c, <2>1, <2>5, <2>6
<1>r. ASSUME frames # <<>>, Top.kind \notin {"tx", "done"}, Running, storage' = Top.before,
             broken' = (broken \/ Top.flushed # {}), UNCHANGED <<db, entered, again, zeroed, seen, steps>>,
             frames' = Popped([Below EXCEPT !.flushed = @ \cup Top.flushed])
      PROVE  TypeOK'
  <2> DEFINE f == [Below EXCEPT !.flushed = @ \cup Top.flushed]
  <2>1. Top \in Frames /\ Below \in Frames
    BY <1>a, <1>r
  <2>2. f \in Frames /\ f.kind = Below.kind /\ f.self = Below.self /\ Top.before \in Store
    BY <2>1 DEF Frames
  <2>3. frames' = Popped(f) /\ db' \in Store /\ storage' \in Store /\ broken' \in BOOLEAN
    BY <1>r, <1>t, <2>2
  <2> HIDE DEF f
  <2> QED
    BY <1>c, <1>r, <2>2, <2>3
<1>8. CASE ReturnStatic
  BY <1>8, <1>r DEF ReturnStatic, Running
<1>9. CASE ReturnTransaction
  <2> DEFINE f == [Top EXCEPT !.kind = "done"]
  <2>1. frames # <<>> /\ Top.kind = "tx" /\ Top \in Frames /\ frames' = Edited(f)
    BY <1>9, <1>a DEF ReturnTransaction, Running
  <2>2. f \in Frames /\ f.kind = "done" /\ f.self = Top.self
    BY <2>1 DEF Frames, Kinds
  <2> HIDE DEF f
  <2> QED
    BY <1>9, <1>b, <1>t, <2>1, <2>2 DEF ReturnTransaction, history
<1>10. CASE PersistSlot
  <2>1. PICK s \in DOMAIN Top.writes :
          /\ db' = [db EXCEPT ![Top.self][s] = Top.writes[s]]
          /\ frames' = Edited([Top EXCEPT !.flushed = {Top.self},
                                  !.writes = [t \in DOMAIN @ \ {s} |-> @[t]]])
    BY <1>10 DEF PersistSlot
  <2> DEFINE w == [t \in DOMAIN Top.writes \ {s} |-> Top.writes[t]]
             f == [Top EXCEPT !.flushed = {Top.self}, !.writes = w]
  <2>2. frames # <<>> /\ Top \in Frames
    BY <1>10, <1>a DEF PersistSlot
  <2>3. Top.self \in Contracts /\ Top.writes \in Writes
    BY <2>2 DEF Frames
  <2>4. PICK dom \in SUBSET Slots : Top.writes \in [dom -> Words]
    BY <2>3 DEF Writes
  <2>5. w \in [dom \ {s} -> Words] /\ s \in Slots /\ Top.writes[s] \in Words
    BY <2>1, <2>4
  <2>6. w \in Writes
    BY <2>5 DEF Writes
  <2>7. db' \in Store
    BY <1>t, <2>1, <2>3, <2>5 DEF Store
  <2> HIDE DEF w
  <2>8. f \in Frames /\ f.kind = Top.kind /\ f.self = Top.self
    BY <2>2, <2>3, <2>6 DEF Frames
  <2>9. frames' = Edited(f)
    BY <2>1 DEF w
  <2> HIDE DEF f
  <2> QED
    BY <1>10, <1>b, <1>t, <2>2, <2>7, <2>8, <2>9 DEF PersistSlot, history
<1>e. ASSUME frames' = <<>>, UNCHANGED <<db, entered, again, zeroed, seen, steps>>,
             storage' \in Store, broken' \in BOOLEAN
      PROVE  TypeOK'
  <2>1. frames' \in Seq(Frames) /\ Len(frames') = 0
    BY <1>e
  <2> QED
    BY <1>e, <1>t, <2>1 DEF TypeOK
<1>11. CASE EndTransaction
  BY <1>11, <1>e, <1>t DEF EndTransaction, history
<1>12. CASE Fail
  <2>1. frames # <<>> /\ Running /\ Top \in Frames /\ Top.kind # "done"
    BY <1>12, <1>a DEF Fail, Running
  <2>2. CASE Top.kind = "tx"
    <3>1. Top.before \in Store
      BY <2>1 DEF Frames
    <3> QED
      BY <1>12, <1>e, <1>t, <2>2, <3>1 DEF Fail
  <2>3. CASE Top.kind # "tx"
    BY <1>12, <1>r, <2>1, <2>3 DEF Fail
  <2> QED
    BY <2>2, <2>3
<1>13. CASE Crash
  <2>1. frames[1] \in Frames
    BY <1>13, <1>t DEF Crash
  <2>2. frames[1].before \in Store
    BY <2>1 DEF Frames
  <2> QED
    BY <1>13, <1>e, <1>t, <2>2 DEF Crash
<1>14. CASE UNCHANGED vars
  BY <1>14, <1>t DEF vars, history, TypeOK
<1> QED
  BY <1>1, <1>2, <1>3, <1>4, <1>5, <1>6, <1>7, <1>8, <1>9, <1>10, <1>11, <1>12, <1>13,
     <1>14 DEF Next

\* The storage layers, the stack of calls and the history are typed for any number of
\* contracts, slots and words and any depth.
THEOREM EvmTypeCorrect == Spec => []TypeOK
  BY InitIsTyped, StepIsTyped, PTL DEF Spec

-----------------------------------------------------------------------------
(* RocksDB with the pending stores over it is the storage of the EVM.      *)

\* StorageIsEvm and its strengthening, for a transaction that is not broken, slot
\* by slot: the stack's stores over RocksDB give the storage, and those of the
\* frames below a frame give what it would be rolled back to.
Slotwise ==
  ~broken => \A c \in Contracts, s \in Slots :
    /\ Effective(Len(frames), c, s, storage[c][s])
    /\ \A k \in 1..Len(frames) :
         Untouched(k) => Effective(k - 1, c, s, frames[k].before[c][s])

\* The slotwise form is the conjunction of the two properties.
LEMMA SlotwiseIsBoth == Slotwise <=> StorageIsEvm /\ BeforeIsEvm
  BY DEF Slotwise, StorageIsEvm, BeforeIsEvm

\* A new innermost frame, with no stores, starts from the current storage.
LEMMA PushKeepsSlotwise ==
  ASSUME TypeOK, Slotwise, NEW f \in Frames, DOMAIN f.writes = {}, f.before = storage,
         f.flushed = {}, frames' = Append(frames, f), UNCHANGED <<db, storage, broken>>
  PROVE  Slotwise'
<1>0. frames \in Seq(Frames) /\ Len(frames) \in Nat
  BY DEF TypeOK
<1>1. PICK n \in Nat : n = Len(frames)
  BY <1>0
<1>2. /\ Len(frames') = n + 1 /\ frames'[n + 1] = f
      /\ \A k \in 1..n : frames'[k] = frames[k]
  BY <1>0, <1>1
<1> SUFFICES ASSUME ~broken, NEW c \in Contracts, NEW s \in Slots
             PROVE  /\ Effective(Len(frames), c, s, storage[c][s])'
                    /\ \A k \in 1..Len(frames') :
                         Untouched(k)' => Effective(k - 1, c, s, frames[k].before[c][s])'
  BY DEF Slotwise
<1>3. Effective(n, c, s, storage[c][s])
  BY <1>1 DEF Slotwise
<1>4. ~Stores(n + 1, c, s)'
  BY <1>2 DEF Stores
<1>5. \A k \in 1..n : Stores(k, c, s)' <=> Stores(k, c, s)
  BY <1>2 DEF Stores
<1>6. Effective(Len(frames), c, s, storage[c][s])'
  BY <1>1, <1>2, <1>3, <1>4, <1>5 DEF Effective
<1>7. ASSUME NEW k \in 1..Len(frames'), Untouched(k)'
      PROVE  Effective(k - 1, c, s, frames[k].before[c][s])'
  <2>1. CASE k = n + 1
    BY <1>1, <1>2, <1>3, <1>5, <2>1 DEF Effective
  <2>2. CASE k # n + 1
    <3>1. k \in 1..n /\ frames'[k] = frames[k]
      BY <1>1, <1>2, <2>2
    <3>2. Untouched(k)
      BY <1>1, <1>2, <1>7, <3>1 DEF Untouched
    <3>3. Effective(k - 1, c, s, frames[k].before[c][s])
      BY <1>1, <3>1, <3>2 DEF Slotwise
    <3> QED
      BY <1>1, <1>2, <1>5, <3>1, <3>3 DEF Effective
  <2> QED
    BY <2>1, <2>2
<1> QED
  BY <1>6, <1>7

\* Leaving a call keeps what the frames below would be rolled back to, as long as
\* nothing was written to RocksDB since they began.
LEMMA PopKeepsBefore ==
  ASSUME TypeOK, Slotwise, ~broken, Len(frames) > 1, NEW f \in Frames, frames' = Popped(f),
         f.before = Below.before, Below.flushed \subseteq f.flushed,
         NEW c \in Contracts, NEW s \in Slots,
         f.flushed = {} => Top.flushed = {} /\ db'[c][s] = db[c][s],
         NEW k \in 1..Len(frames'), Untouched(k)'
  PROVE  Effective(k - 1, c, s, frames[k].before[c][s])'
<1>0. frames \in Seq(Frames) /\ Len(frames) \in Nat
  BY DEF TypeOK
<1>1. PICK N \in Nat : /\ N = Len(frames) /\ N > 1
                       /\ Top = frames[N] /\ Below = frames[N - 1]
  BY <1>0 DEF Top, Below
<1>2. /\ Len(frames') = N - 1 /\ frames'[N - 1] = f
      /\ \A j \in 1..(N - 2) : frames'[j] = frames[j]
  BY <1>0, <1>1, PoppedIsStack
<1>3. k \in 1..(N - 1) /\ k \in 1..N
  BY <1>1, <1>2
<1>4. f.flushed = {} /\ Top.flushed = {} /\ Below.flushed = {} /\ db'[c][s] = db[c][s]
  <2>1. f.flushed = {}
    BY <1>1, <1>2, <1>3 DEF Untouched
  <2> QED
    BY <2>1
<1>5. Untouched(k)
  <2> SUFFICES ASSUME NEW j \in k..N PROVE frames[j].flushed = {}
    BY <1>1 DEF Untouched
  <2>1. CASE j = N \/ j = N - 1
    BY <1>1, <1>4, <2>1
  <2>2. CASE j # N /\ j # N - 1
    <3>1. j \in 1..(N - 2) /\ j \in k..(N - 1)
      BY <1>3, <2>2
    <3>2. frames'[j].flushed = {}
      BY <1>2, <3>1 DEF Untouched
    <3> QED
      BY <1>2, <3>1, <3>2
  <2> QED
    BY <2>1, <2>2
<1>6. Effective(k - 1, c, s, frames[k].before[c][s])
  BY <1>1, <1>3, <1>5 DEF Slotwise
<1>7. frames'[k].before = frames[k].before
  <2>1. CASE k = N - 1
    BY <1>1, <1>2, <2>1
  <2>2. CASE k # N - 1
    <3>1. k \in 1..(N - 2)
      BY <1>3, <2>2
    <3> QED
      BY <1>2, <3>1
  <2> QED
    BY <2>1, <2>2
<1>8. ASSUME NEW i \in 1..(k - 1)
      PROVE  (Stores(i, c, s)' <=> Stores(i, c, s)) /\ frames'[i].writes = frames[i].writes
  <2>1. i \in 1..(N - 2)
    BY <1>3
  <2> QED
    BY <1>2, <2>1 DEF Stores
<1> QED
  BY <1>3, <1>4, <1>6, <1>7, <1>8 DEF Effective

\* Leaving a call that stores nothing below it, with the storage rolled back to
\* what it was when the call began.
LEMMA RollbackKeepsSlotwise ==
  ASSUME TypeOK, Slotwise, Len(frames) > 1, storage' = Top.before, db' = db,
         NEW f \in Frames, frames' = Popped(f), f.self = Below.self,
         f.writes = Below.writes, f.before = Below.before,
         f.flushed = Below.flushed \cup Top.flushed,
         ~broken' => ~broken /\ Top.flushed = {}
  PROVE  Slotwise'
<1>0. frames \in Seq(Frames) /\ Len(frames) \in Nat
  BY DEF TypeOK
<1>1. PICK N \in Nat : /\ N = Len(frames) /\ N > 1
                       /\ Top = frames[N] /\ Below = frames[N - 1]
  BY <1>0 DEF Top, Below
<1>2. /\ Len(frames') = N - 1 /\ frames'[N - 1] = f
      /\ \A k \in 1..(N - 2) : frames'[k] = frames[k]
  BY <1>0, <1>1, PoppedIsStack
<1> SUFFICES ASSUME ~broken', NEW c \in Contracts, NEW s \in Slots
             PROVE  /\ Effective(Len(frames), c, s, storage[c][s])'
                    /\ \A k \in 1..Len(frames') :
                         Untouched(k)' => Effective(k - 1, c, s, frames[k].before[c][s])'
  BY DEF Slotwise
<1>3. ASSUME NEW k \in 1..(N - 1)
      PROVE  (Stores(k, c, s)' <=> Stores(k, c, s)) /\ frames'[k].writes = frames[k].writes
  <2>1. CASE k = N - 1
    BY <1>1, <1>2, <2>1 DEF Stores
  <2>2. CASE k # N - 1
    <3>1. k \in 1..(N - 2)
      BY <2>2
    <3> QED
      BY <1>2, <3>1 DEF Stores
  <2> QED
    BY <2>1, <2>2
<1>4. Untouched(N)
  BY <1>1 DEF Untouched
<1>5. Effective(N - 1, c, s, Top.before[c][s])
  BY <1>1, <1>4 DEF Slotwise
<1>6. Effective(Len(frames), c, s, storage[c][s])'
  BY <1>1, <1>2, <1>3, <1>5 DEF Effective
<1> QED
  BY <1>6, PopKeepsBefore

\* A call other than the outermost one has a frame below it, and a delegate runs on
\* the storage of that frame.
LEMMA InnerFrame ==
  ASSUME TypeOK, Running, Top.kind \notin {"tx", "done"}
  PROVE  /\ Len(frames) \in Nat /\ Len(frames) > 1
         /\ Top = frames[Len(frames)] /\ Below = frames[Len(frames) - 1]
         /\ Top \in Frames /\ Below \in Frames
         /\ Top.kind = "delegate" => Top.self = Below.self
<1>1. frames \in Seq(Frames) /\ Len(frames) \in Nat
  BY DEF TypeOK
<1>2. frames # <<>>
  BY DEF Running
<1>3. Len(frames) \in 1..Len(frames)
  BY <1>1, <1>2
<1>4. Top = frames[Len(frames)] /\ Below = frames[Len(frames) - 1]
  BY DEF Top, Below
<1>5. /\ frames[Len(frames)].kind \in {"tx", "done"} <=> Len(frames) = 1
      /\ frames[Len(frames)].kind = "delegate" =>
           frames[Len(frames)].self = frames[Len(frames) - 1].self
  BY <1>3 DEF TypeOK
<1>6. Len(frames) # 1
  BY <1>4, <1>5
<1>7. Len(frames) > 1
  BY <1>1, <1>3, <1>6
<1> QED
  BY <1>1, <1>4, <1>5, <1>7

\* Leaving a DELEGATECALL, whose stores become those of the frame below.
LEMMA DelegateKeepsSlotwise ==
  ASSUME TypeOK, Slotwise, ReturnDelegate
  PROVE  Slotwise'
<1> DEFINE f == [Below EXCEPT !.ws = Over(@, Top.self, Top.writes),
                   !.writes = Laid(Top.writes, @), !.flushed = @ \cup Top.flushed]
<1>0. frames \in Seq(Frames) /\ Len(frames) \in Nat
  BY DEF TypeOK
<1>1. PICK N \in Nat : /\ N = Len(frames) /\ N > 1 /\ Top = frames[N]
                       /\ Below = frames[N - 1] /\ Top.self = Below.self
  BY <1>0, InnerFrame DEF ReturnDelegate
<1>2. Top \in Frames /\ Below \in Frames
  BY <1>0, <1>1
<1>3. /\ f \in Frames /\ f.self = Below.self /\ f.before = Below.before
      /\ f.flushed = Below.flushed \cup Top.flushed
      /\ f.writes = Laid(Top.writes, Below.writes)
  <2>1. /\ Top.self \in Contracts /\ Top.writes \in Writes
        /\ Below.ws \in Store /\ Below.writes \in Writes
    BY <1>2 DEF Frames
  <2>2. Over(Below.ws, Top.self, Top.writes) \in Store /\ Laid(Top.writes, Below.writes) \in Writes
    BY <2>1, OverIsStore, LaidIsWrites
  <2> QED
    BY <1>2, <2>2 DEF Frames
<1>4. frames' = Popped(f) /\ db' = db /\ storage' = storage /\ broken' = broken
  BY DEF ReturnDelegate, history
<1> HIDE DEF f
<1>5. /\ Len(frames') = N - 1 /\ frames'[N - 1] = f
      /\ \A k \in 1..(N - 2) : frames'[k] = frames[k]
  BY <1>0, <1>1, <1>3, <1>4, PoppedIsStack
<1> SUFFICES ASSUME ~broken, NEW c \in Contracts, NEW s \in Slots
             PROVE  /\ Effective(Len(frames), c, s, storage[c][s])'
                    /\ \A k \in 1..Len(frames') :
                         Untouched(k)' => Effective(k - 1, c, s, frames[k].before[c][s])'
  BY <1>4 DEF Slotwise
<1>6. Effective(N, c, s, storage[c][s])
  BY <1>1 DEF Slotwise
<1>7. ASSUME NEW k \in 1..(N - 2)
      PROVE  (Stores(k, c, s)' <=> Stores(k, c, s)) /\ frames'[k].writes = frames[k].writes
  BY <1>5, <1>7 DEF Stores
<1>8. /\ Stores(N - 1, c, s)' <=> Stores(N, c, s) \/ Stores(N - 1, c, s)
      /\ Stores(N, c, s) => frames'[N - 1].writes[s] = frames[N].writes[s]
      /\ Stores(N - 1, c, s) /\ ~Stores(N, c, s) =>
           frames'[N - 1].writes[s] = frames[N - 1].writes[s]
  BY <1>1, <1>3, <1>5 DEF Stores, Laid
<1>9. Effective(Len(frames), c, s, storage[c][s])'
  <2>1. CASE Stores(N, c, s)
    <3>1. storage[c][s] = frames[N].writes[s]
      BY <1>1, <1>6, <2>1 DEF Effective
    <3> QED
      BY <1>1, <1>4, <1>5, <1>8, <2>1, <3>1 DEF Effective
  <2>2. CASE ~Stores(N, c, s) /\ Stores(N - 1, c, s)
    <3>1. storage[c][s] = frames[N - 1].writes[s]
      BY <1>1, <1>6, <2>2 DEF Effective
    <3> QED
      BY <1>1, <1>4, <1>5, <1>8, <2>2, <3>1 DEF Effective
  <2>3. CASE ~Stores(N, c, s) /\ ~Stores(N - 1, c, s)
    <3>1. Effective(N - 2, c, s, storage[c][s])
      BY <1>1, <1>6, <2>3 DEF Effective
    <3>2. ~Stores(N - 1, c, s)'
      BY <1>8, <2>3
    <3>3. Effective(N - 2, c, s, storage[c][s])'
      <4>1. CASE (\A k \in 1..(N - 2) : ~Stores(k, c, s)) /\ storage[c][s] = db[c][s]
        BY <1>4, <1>7, <4>1 DEF Effective
      <4>2. ASSUME NEW k \in 1..(N - 2), Stores(k, c, s), storage[c][s] = frames[k].writes[s],
                   \A j \in (k + 1)..(N - 2) : ~Stores(j, c, s)
            PROVE  Effective(N - 2, c, s, storage[c][s])'
        <5>1. Stores(k, c, s)' /\ storage'[c][s] = frames'[k].writes[s]
          BY <1>4, <1>7, <4>2
        <5>2. \A j \in (k + 1)..(N - 2) : j \in 1..(N - 2)
          BY <1>1
        <5>3. \A j \in (k + 1)..(N - 2) : ~Stores(j, c, s)'
          BY <1>7, <4>2, <5>2
        <5> QED
          BY <5>1, <5>3 DEF Effective
      <4> QED
        BY <3>1, <4>1, <4>2 DEF Effective
    <3> QED
      BY <1>1, <1>4, <1>5, <3>2, <3>3 DEF Effective
  <2> QED
    BY <2>1, <2>2, <2>3
<1> QED
  BY <1>1, <1>3, <1>4, <1>9, PopKeepsBefore

\* Changing the top frame without entering or leaving a call, when the frames below
\* and what they were rolled back to are left alone.
LEMMA EditKeepsSlotwise ==
  ASSUME TypeOK, Slotwise, frames # <<>>, NEW f \in Frames, frames' = Edited(f),
         f.self = Top.self, f.before = Top.before,
         db' = db, f.flushed = Top.flushed,
         ~broken' => ~broken,
         ~broken' => \A c \in Contracts, s \in Slots :
                       Effective(Len(frames), c, s, storage[c][s])'
  PROVE  Slotwise'
<1>0. frames \in Seq(Frames) /\ Len(frames) \in Nat
  BY DEF TypeOK
<1>1. PICK N \in Nat : N = Len(frames) /\ N > 0 /\ Top = frames[N]
  BY <1>0 DEF Top
<1>2. /\ Len(frames') = N /\ frames'[N] = f
      /\ \A k \in 1..(N - 1) : frames'[k] = frames[k]
  BY <1>0, <1>1, EditedIsStack
<1> SUFFICES ASSUME ~broken', NEW c \in Contracts, NEW s \in Slots,
                    NEW k \in 1..Len(frames'), Untouched(k)'
             PROVE  Effective(k - 1, c, s, frames[k].before[c][s])'
  BY DEF Slotwise
<1>3. /\ k \in 1..N /\ frames'[k].before = frames[k].before
      /\ \A j \in 1..N : frames'[j].flushed = frames[j].flushed
  <2>1. k \in 1..N
    BY <1>2
  <2>2. \A j \in 1..N : j = N \/ j \in 1..(N - 1)
    OBVIOUS
  <2> QED
    BY <1>1, <1>2, <2>1, <2>2
<1>4. Untouched(k)
  <2> SUFFICES ASSUME NEW j \in k..N PROVE frames[j].flushed = {}
    BY <1>1 DEF Untouched
  <2>1. j \in 1..N /\ j \in k..Len(frames')
    BY <1>2, <1>3
  <2> QED
    BY <1>3, <2>1 DEF Untouched
<1>5. Effective(k - 1, c, s, frames[k].before[c][s])
  BY <1>1, <1>3, <1>4 DEF Slotwise
<1>6. ASSUME NEW i \in 1..(k - 1)
      PROVE  (Stores(i, c, s)' <=> Stores(i, c, s)) /\ frames'[i].writes = frames[i].writes
  <2>1. i \in 1..(N - 1)
    BY <1>3
  <2> QED
    BY <1>2, <2>1 DEF Stores
<1> QED
  BY <1>3, <1>5, <1>6 DEF Effective

\* Leaving a CALL, whose stores are written to RocksDB, when no frame below still
\* holds a store to one of the slots written.
LEMMA CallKeepsSlotwise ==
  ASSUME TypeOK, Slotwise, ReturnCall
  PROVE  Slotwise'
<1> DEFINE f == [Below EXCEPT !.ws = Over(@, Top.self, Top.writes),
                   !.flushed = @ \cup Top.flushed
                                 \cup {d \in {Top.self} : DOMAIN Top.writes # {}}]
<1>0. frames \in Seq(Frames) /\ Len(frames) \in Nat
  BY DEF TypeOK
<1>1. PICK N \in Nat : /\ N = Len(frames) /\ N > 1 /\ Top = frames[N]
                       /\ Below = frames[N - 1]
  BY <1>0, InnerFrame DEF ReturnCall
<1>2. Top \in Frames /\ Below \in Frames
  BY <1>0, <1>1
<1>a. /\ Top.self \in Contracts /\ Top.writes \in Writes /\ Below.ws \in Store
  BY <1>2 DEF Frames
<1>3. /\ f \in Frames /\ f.self = Below.self /\ f.before = Below.before
      /\ Below.flushed \subseteq f.flushed /\ f.writes = Below.writes
      /\ f.flushed = {} => Top.flushed = {} /\ DOMAIN Top.writes = {}
  <2>1. Over(Below.ws, Top.self, Top.writes) \in Store
    BY <1>a, OverIsStore
  <2> QED
    BY <1>2, <1>a, <2>1 DEF Frames
<1>4. /\ frames' = Popped(f) /\ db' = Over(db, Top.self, Top.writes) /\ storage' = storage
      /\ broken' = (broken \/ Pending(Top.self, DOMAIN Top.writes))
  BY DEF ReturnCall
<1> HIDE DEF f
<1>5. /\ Len(frames') = N - 1 /\ frames'[N - 1] = f
      /\ \A k \in 1..(N - 2) : frames'[k] = frames[k]
  BY <1>0, <1>1, <1>3, <1>4, PoppedIsStack
<1> SUFFICES ASSUME ~broken', NEW c \in Contracts, NEW s \in Slots
             PROVE  /\ Effective(Len(frames), c, s, storage[c][s])'
                    /\ \A k \in 1..Len(frames') :
                         Untouched(k)' => Effective(k - 1, c, s, frames[k].before[c][s])'
  BY DEF Slotwise
<1>6. ~broken /\ ~Pending(Top.self, DOMAIN Top.writes)
  BY <1>4
<1>7. Effective(N, c, s, storage[c][s])
  BY <1>1, <1>6 DEF Slotwise
<1>8. db'[c][s] = IF Stores(N, c, s) THEN frames[N].writes[s] ELSE db[c][s]
  <2>1. db \in Store
    BY DEF TypeOK
  <2>2. Over(db, Top.self, Top.writes)[c][s] =
          IF c = Top.self /\ s \in DOMAIN Top.writes THEN Top.writes[s] ELSE db[c][s]
    BY <1>a, <2>1, OverIsStore
  <2> QED
    BY <1>1, <1>4, <2>2 DEF Stores
<1>9. ASSUME NEW k \in 1..(N - 1)
      PROVE  (Stores(k, c, s)' <=> Stores(k, c, s)) /\ frames'[k].writes = frames[k].writes
  <2>1. CASE k = N - 1
    BY <1>1, <1>3, <1>5, <2>1 DEF Stores
  <2>2. CASE k # N - 1
    <3>1. k \in 1..(N - 2)
      BY <2>2
    <3> QED
      BY <1>5, <3>1 DEF Stores
  <2> QED
    BY <2>1, <2>2
<1>10. Effective(Len(frames), c, s, storage[c][s])'
  <2>1. CASE Stores(N, c, s)
    <3>1. storage[c][s] = frames[N].writes[s]
      BY <1>1, <1>7, <2>1 DEF Effective
    <3>2. \A k \in 1..(N - 1) : ~Stores(k, c, s)
      BY <1>1, <1>6, <2>1 DEF Pending, Stores
    <3>3. storage'[c][s] = db'[c][s]
      BY <1>4, <1>8, <2>1, <3>1
    <3> QED
      BY <1>1, <1>5, <1>9, <3>2, <3>3 DEF Effective
  <2>2. CASE ~Stores(N, c, s)
    <3>1. Effective(N - 1, c, s, storage[c][s])
      BY <1>1, <1>7, <2>2 DEF Effective
    <3>2. db'[c][s] = db[c][s] /\ storage' = storage
      BY <1>4, <1>8, <2>2
    <3>3. Effective(N - 1, c, s, storage[c][s])'
      BY <1>9, <3>1, <3>2 DEF Effective
    <3> QED
      BY <1>1, <1>5, <3>3
  <2> QED
    BY <2>1, <2>2
<1>11. f.flushed = {} => Top.flushed = {} /\ db'[c][s] = db[c][s]
  BY <1>1, <1>3, <1>8 DEF Stores
<1> QED
  BY <1>1, <1>3, <1>4, <1>6, <1>10, <1>11, PopKeepsBefore

\* Changing the top frame but not its stores.
LEMMA SameStoresKeepSlotwise ==
  ASSUME TypeOK, Slotwise, frames # <<>>, NEW f \in Frames, frames' = Edited(f),
         f.self = Top.self, f.before = Top.before, f.writes = Top.writes,
         f.flushed = Top.flushed, UNCHANGED <<db, storage, broken>>
  PROVE  Slotwise'
<1>0. frames \in Seq(Frames) /\ Len(frames) \in Nat
  BY DEF TypeOK
<1>1. PICK N \in Nat : N = Len(frames) /\ N > 0 /\ Top = frames[N]
  BY <1>0 DEF Top
<1>2. /\ Len(frames') = N /\ frames'[N] = f
      /\ \A k \in 1..(N - 1) : frames'[k] = frames[k]
  BY <1>0, <1>1, EditedIsStack
<1>3. ASSUME ~broken', NEW c \in Contracts, NEW s \in Slots
      PROVE  Effective(Len(frames), c, s, storage[c][s])'
  <2>1. Effective(N, c, s, storage[c][s])
    BY <1>1, <1>3 DEF Slotwise
  <2>2. ASSUME NEW k \in 1..N
        PROVE  (Stores(k, c, s)' <=> Stores(k, c, s)) /\ frames'[k].writes = frames[k].writes
    <3>1. k = N \/ k \in 1..(N - 1)
      BY <1>1
    <3> QED
      BY <1>1, <1>2, <3>1 DEF Stores
  <2> QED
    BY <1>2, <2>1, <2>2 DEF Effective
<1> QED
  BY <1>3, EditKeepsSlotwise

\* A frame with one word of its copy, and its stores, changed.
StoresIn(f, e, c, t, v, w) == f = [e EXCEPT !.ws[c][t] = v, !.writes = w]

LEMMA StoredFrame ==
  ASSUME NEW e \in Frames, NEW c \in Contracts, NEW t \in Slots, NEW v \in Words,
         NEW w \in Writes, NEW f, StoresIn(f, e, c, t, v, w)
  PROVE  /\ f \in Frames /\ f.self = e.self /\ f.before = e.before
         /\ f.flushed = e.flushed /\ f.writes = w
<1> DEFINE ws == [e.ws EXCEPT ![c][t] = v]
<1>1. e.ws \in Store
  BY DEF Frames
<1>2. ws \in Store
  BY <1>1 DEF Store
<1>3. f = [e EXCEPT !.ws = ws, !.writes = w]
  BY DEF StoresIn
<1> HIDE DEF ws
<1>4. [e EXCEPT !.ws = ws, !.writes = w] \in Frames
  BY <1>2 DEF Frames
<1>5. /\ [e EXCEPT !.ws = ws, !.writes = w].self = e.self
      /\ [e EXCEPT !.ws = ws, !.writes = w].before = e.before
      /\ [e EXCEPT !.ws = ws, !.writes = w].flushed = e.flushed
      /\ [e EXCEPT !.ws = ws, !.writes = w].writes = w
  BY DEF Frames
<1> QED BY <1>3, <1>4, <1>5

\* A store is the latest one of its slot.
LEMMA SstoreKeepsSlotwise ==
  ASSUME TypeOK, Slotwise, NEW t \in Slots, NEW v \in {0} \cup Values, Sstore(t, v)
  PROVE  Slotwise'
<1> DEFINE w == Laid([u \in {t} |-> v], Top.writes)
           f == [Top EXCEPT !.ws[Top.self][t] = v, !.writes = w]
<1>0. frames \in Seq(Frames) /\ Len(frames) \in Nat /\ storage \in Store /\ frames # <<>>
  BY DEF TypeOK, Sstore, Running
<1>1. PICK N \in Nat : N = Len(frames) /\ N > 0 /\ Top = frames[N] /\ Top \in Frames
  BY <1>0 DEF Top
<1>2. Top.self \in Contracts /\ v \in Words /\ Top.writes \in Writes
  BY <1>1 DEF Frames, Words
<1>3. [u \in {t} |-> v] \in Writes
  <2>1. [u \in {t} |-> v] \in [{t} -> Words] /\ {t} \in SUBSET Slots
    BY <1>2
  <2> QED
    BY <2>1 DEF Writes
<1>4. /\ w \in Writes /\ DOMAIN w = {t} \cup DOMAIN Top.writes /\ w[t] = v
      /\ \A s \in DOMAIN Top.writes \ {t} : w[s] = Top.writes[s]
  BY <1>2, <1>3, LaidIsWrites DEF Laid
<1> HIDE DEF w
<1>5. /\ f \in Frames /\ f.self = Top.self /\ f.before = Top.before
      /\ f.flushed = Top.flushed /\ f.writes = w
  <2> DEFINE e == Top
             c == Top.self
  <2>1. e \in Frames /\ c \in Contracts /\ v \in Words /\ w \in Writes
    BY <1>1, <1>2, <1>4
  <2>2. StoresIn(f, e, c, t, v, w)
    BY DEF StoresIn
  <2> HIDE DEF e, c, f
  <2>3. /\ f \in Frames /\ f.self = e.self /\ f.before = e.before
        /\ f.flushed = e.flushed /\ f.writes = w
    BY <2>1, <2>2, StoredFrame
  <2> QED BY <2>3 DEF e
<1>6. /\ frames' = Edited(f) /\ db' = db /\ broken' = broken
      /\ storage' = [storage EXCEPT ![Top.self][t] = v]
  BY DEF Sstore, w
<1> HIDE DEF f
<1>7. /\ Len(frames') = N /\ frames'[N] = f
      /\ \A k \in 1..(N - 1) : frames'[k] = frames[k]
  BY <1>0, <1>1, <1>5, <1>6, EditedIsStack
<1>8. ASSUME ~broken', NEW c \in Contracts, NEW s \in Slots
      PROVE  Effective(Len(frames), c, s, storage[c][s])'
  <2>1. Effective(N, c, s, storage[c][s])
    BY <1>1, <1>6, <1>8 DEF Slotwise
  <2>2. CASE c = Top.self /\ s = t
    <3>1. storage'[c][s] = v /\ Stores(N, c, s)' /\ frames'[N].writes[s] = v
      BY <1>0, <1>2, <1>4, <1>5, <1>6, <1>7, <2>2 DEF Stores, Store
    <3> QED
      BY <1>1, <1>7, <3>1 DEF Effective
  <2>3. CASE ~(c = Top.self /\ s = t)
    <3>1. storage'[c][s] = storage[c][s]
      BY <1>0, <1>2, <1>6, <2>3 DEF Store
    <3>2. ASSUME NEW k \in 1..N
          PROVE  /\ Stores(k, c, s)' <=> Stores(k, c, s)
                 /\ Stores(k, c, s) => frames'[k].writes[s] = frames[k].writes[s]
      <4>1. CASE k = N
        BY <1>1, <1>4, <1>5, <1>7, <2>3, <4>1 DEF Stores
      <4>2. CASE k # N
        <5>1. k \in 1..(N - 1)
          BY <4>2
        <5> QED
          BY <1>7, <5>1 DEF Stores
      <4> QED
        BY <4>1, <4>2
    <3> QED
      BY <1>6, <1>7, <2>1, <3>1, <3>2 DEF Effective
  <2> QED
    BY <2>2, <2>3
<1> QED
  BY <1>0, <1>5, <1>6, <1>8, EditKeepsSlotwise

-----------------------------------------------------------------------------
(* The transaction's own frame.                                            *)

\* A transaction starts with nothing stored.
LEMMA StartKeepsSlotwise ==
  ASSUME TypeOK, StartTransaction
  PROVE  Slotwise'
<1>1. PICK x \in Contracts :
        frames' = <<[Frame("tx", x, User, Reloaded(x)) EXCEPT !.before = db]>>
  BY DEF StartTransaction
<1> DEFINE f == [Frame("tx", x, User, Reloaded(x)) EXCEPT !.before = db]
<1>2. DOMAIN f.writes = {} /\ f.before = db
  BY DEF Frame, NoWrites
<1>3. frames' = <<f>> /\ storage' = db /\ db' = db
  BY <1>1 DEF StartTransaction
<1> HIDE DEF f
<1>4. Len(frames') = 1 /\ frames'[1] = f
  BY <1>3
<1> SUFFICES ASSUME NEW c \in Contracts, NEW s \in Slots
             PROVE  /\ Effective(Len(frames), c, s, storage[c][s])'
                    /\ \A k \in 1..Len(frames') :
                         Untouched(k)' => Effective(k - 1, c, s, frames[k].before[c][s])'
  BY DEF Slotwise
<1>5. ~Stores(1, c, s)'
  BY <1>2, <1>4 DEF Stores
<1>6. Effective(Len(frames), c, s, storage[c][s])'
  BY <1>3, <1>4, <1>5 DEF Effective
<1>7. ASSUME NEW k \in 1..Len(frames')
      PROVE  Effective(k - 1, c, s, frames[k].before[c][s])'
  <2>1. k = 1
    BY <1>4
  <2> QED
    BY <1>2, <1>3, <1>4, <2>1 DEF Effective
<1> QED
  BY <1>6, <1>7

\* Writing one slot of a transaction that has returned.
LEMMA PersistKeepsSlotwise ==
  ASSUME TypeOK, Slotwise, PersistSlot
  PROVE  Slotwise'
<1>1. PICK t \in DOMAIN Top.writes :
        /\ db' = [db EXCEPT ![Top.self][t] = Top.writes[t]]
        /\ frames' = Edited([Top EXCEPT !.flushed = {Top.self},
                               !.writes = [u \in DOMAIN @ \ {t} |-> @[u]]])
  BY DEF PersistSlot
<1> DEFINE w == [u \in DOMAIN Top.writes \ {t} |-> Top.writes[u]]
           f == [Top EXCEPT !.flushed = {Top.self}, !.writes = w]
<1>0. frames \in Seq(Frames) /\ Len(frames) \in Nat /\ db \in Store
  BY DEF TypeOK
<1>2. Len(frames) = 1 /\ Top = frames[1] /\ Top \in Frames
  <2>1. frames # <<>> /\ Top = frames[Len(frames)] /\ Top.kind = "done"
    BY DEF PersistSlot, Top
  <2>2. Len(frames) \in 1..Len(frames)
    BY <1>0, <2>1
  <2>3. frames[Len(frames)].kind = "done" => Len(frames) = 1
    BY <2>2 DEF TypeOK
  <2>4. Len(frames) = 1
    BY <2>1, <2>3
  <2> QED
    BY <1>0, <2>1, <2>4
<1>3. w \in Writes
  <2>1. PICK dom \in SUBSET Slots : Top.writes \in [dom -> Words]
    BY <1>2 DEF Frames, Writes
  <2>2. w \in [dom \ {t} -> Words] /\ dom \ {t} \in SUBSET Slots
    BY <2>1
  <2> QED
    BY <2>2 DEF Writes
<1>4. /\ DOMAIN w = DOMAIN Top.writes \ {t} /\ \A u \in DOMAIN w : w[u] = Top.writes[u]
  OBVIOUS
<1>5. frames' = Edited(f) /\ storage' = storage /\ broken' = broken
  BY <1>1 DEF PersistSlot, history
<1> HIDE DEF w
<1>6. f \in Frames /\ f.self = Top.self /\ f.writes = w /\ f.flushed = {Top.self}
  BY <1>2, <1>3 DEF Frames
<1> HIDE DEF f
<1>7. Len(frames') = 1 /\ frames'[1] = f
  BY <1>0, <1>2, <1>5, <1>6, EditedIsStack
<1> SUFFICES ASSUME ~broken, NEW c \in Contracts, NEW s \in Slots
             PROVE  /\ Effective(Len(frames), c, s, storage[c][s])'
                    /\ \A k \in 1..Len(frames') :
                         Untouched(k)' => Effective(k - 1, c, s, frames[k].before[c][s])'
  BY <1>5 DEF Slotwise
<1>8. \A k \in 1..Len(frames') : ~Untouched(k)'
  BY <1>6, <1>7 DEF Untouched
<1>9. Effective(1, c, s, storage[c][s])
  BY <1>2 DEF Slotwise
<1>10. IF Stores(1, c, s) THEN storage[c][s] = Top.writes[s] ELSE storage[c][s] = db[c][s]
  BY <1>2, <1>9 DEF Effective
<1>11. Top.self \in Contracts /\ t \in Slots
  <2>1. PICK dom \in SUBSET Slots : Top.writes \in [dom -> Words]
    BY <1>2 DEF Frames, Writes
  <2> QED
    BY <1>2, <2>1 DEF Frames
<1>12. Stores(1, c, s)' <=> Stores(1, c, s) /\ ~(c = Top.self /\ s = t)
  BY <1>2, <1>4, <1>6, <1>7 DEF Stores
<1>13. db'[c][s] = IF c = Top.self /\ s = t THEN Top.writes[s] ELSE db[c][s]
  BY <1>0, <1>1, <1>11 DEF Store
<1>14. Effective(Len(frames), c, s, storage[c][s])'
  <2>1. CASE c = Top.self /\ s = t
    <3>1. Stores(1, c, s)
      BY <1>2, <2>1 DEF Stores
    <3>2. storage'[c][s] = db'[c][s] /\ ~Stores(1, c, s)'
      BY <1>5, <1>10, <1>12, <1>13, <2>1, <3>1
    <3> QED
      BY <1>7, <3>2 DEF Effective
  <2>2. CASE ~(c = Top.self /\ s = t) /\ Stores(1, c, s)
    <3>1. storage'[c][s] = frames'[1].writes[s] /\ Stores(1, c, s)'
      BY <1>2, <1>4, <1>5, <1>6, <1>7, <1>10, <1>12, <2>2 DEF Stores
    <3> QED
      BY <1>7, <3>1 DEF Effective
  <2>3. CASE ~(c = Top.self /\ s = t) /\ ~Stores(1, c, s)
    <3>1. storage'[c][s] = db'[c][s] /\ ~Stores(1, c, s)'
      BY <1>5, <1>10, <1>12, <1>13, <2>3
    <3> QED
      BY <1>7, <3>1 DEF Effective
  <2> QED
    BY <2>1, <2>2, <2>3
<1> QED
  BY <1>8, <1>14

\* When no call is active the storage is RocksDB's.
LEMMA IdleKeepsSlotwise ==
  ASSUME frames' = <<>>,
         ~broken' => \A c \in Contracts, s \in Slots : storage'[c][s] = db'[c][s]
  PROVE  Slotwise'
<1> SUFFICES ASSUME ~broken', NEW c \in Contracts, NEW s \in Slots
             PROVE  Effective(Len(frames), c, s, storage[c][s])'
  BY DEF Slotwise
<1> QED
  BY DEF Effective

\* The outermost frame is left once all it stored is written.
LEMMA EndKeepsSlotwise ==
  ASSUME TypeOK, Slotwise, EndTransaction
  PROVE  Slotwise'
<1>0. frames \in Seq(Frames) /\ Len(frames) \in Nat
  BY DEF TypeOK
<1>1. frames # <<>> /\ Top = frames[Len(frames)] /\ Top.kind = "done" /\ DOMAIN Top.writes = {}
  BY DEF EndTransaction, Top
<1>2. Len(frames) \in 1..Len(frames)
  BY <1>0, <1>1
<1>3. frames[Len(frames)].kind = "done" => Len(frames) = 1
  BY <1>2 DEF TypeOK
<1>4. Len(frames) = 1 /\ DOMAIN frames[1].writes = {}
  BY <1>1, <1>3
<1>5. ASSUME ~broken, NEW c \in Contracts, NEW s \in Slots
      PROVE  storage[c][s] = db[c][s]
  <2>1. Effective(1, c, s, storage[c][s])
    BY <1>4, <1>5 DEF Slotwise
  <2>2. ~Stores(1, c, s)
    BY <1>4 DEF Stores
  <2> QED
    BY <2>1, <2>2 DEF Effective
<1> QED
  BY <1>5, IdleKeepsSlotwise DEF EndTransaction, history

\* A transaction lost as a whole, before any of it was written, leaves RocksDB as
\* it was when the transaction began.
LEMMA LostKeepsSlotwise ==
  ASSUME TypeOK, Slotwise, frames # <<>>, frames' = <<>>, db' = db,
         storage' = frames[1].before, ~broken' => ~broken /\ Untouched(1)
  PROVE  Slotwise'
<1>0. Len(frames) \in Nat /\ 1 \in 1..Len(frames)
  BY DEF TypeOK
<1>1. ASSUME ~broken', NEW c \in Contracts, NEW s \in Slots
      PROVE  storage'[c][s] = db'[c][s]
  <2>1. Effective(1 - 1, c, s, frames[1].before[c][s])
    BY <1>0, <1>1 DEF Slotwise
  <2>2. frames[1].before[c][s] = db[c][s]
    BY <2>1 DEF Effective
  <2> QED
    BY <2>2
<1> QED
  BY <1>1, IdleKeepsSlotwise

-----------------------------------------------------------------------------
(* RocksDB under the active frames is the EVM's storage.                   *)

\* Every step keeps the slotwise form.
LEMMA StepKeepsSlotwise == TypeOK /\ Slotwise /\ [Next]_vars => Slotwise'
<1> SUFFICES ASSUME TypeOK, Slotwise, [Next]_vars
             PROVE  Slotwise'
  OBVIOUS
<1>t. frames \in Seq(Frames) /\ Len(frames) \in Nat /\ storage \in Store
  BY DEF TypeOK
<1>a. ASSUME frames # <<>>
      PROVE  Top \in Frames /\ Top = frames[Len(frames)] /\ Len(frames) > 0
  BY <1>a, <1>t DEF Top
<1>1. CASE StartTransaction
  BY <1>1, StartKeepsSlotwise
<1>2. ASSUME NEW kind \in {"call", "static"}, Call(kind)
      PROVE  Slotwise'
  <2>1. PICK c \in Contracts : frames' = Append(frames, Frame(kind, c, Top.self, Top.ws))
    BY <1>2 DEF Call
  <2> DEFINE f == Frame(kind, c, Top.self, Top.ws)
  <2>2. Top.self \in Contracts \cup {User} /\ Top.ws \in Store /\ kind \in Kinds
    BY <1>2, <1>a DEF Call, Running, Frames, Kinds
  <2>3. /\ f \in Frames /\ DOMAIN f.writes = {} /\ f.before = storage /\ f.flushed = {}
    BY <1>t, <2>2, FrameIsFrame DEF Frame, NoWrites
  <2>4. frames' = Append(frames, f) /\ UNCHANGED <<db, storage, broken>>
    BY <1>2, <2>1 DEF Call
  <2> HIDE DEF f
  <2> QED
    BY <2>3, <2>4, PushKeepsSlotwise
<1>3. CASE DelegateCall
  <2> DEFINE f == Frame("delegate", Top.self, Top.caller, Top.ws)
  <2>2. /\ Top.self \in Contracts /\ Top.caller \in Contracts \cup {User}
        /\ Top.ws \in Store /\ "delegate" \in Kinds
    BY <1>3, <1>a DEF DelegateCall, Running, Frames, Kinds
  <2>3. /\ f \in Frames /\ DOMAIN f.writes = {} /\ f.before = storage /\ f.flushed = {}
    BY <1>t, <2>2, FrameIsFrame DEF Frame, NoWrites
  <2>4. frames' = Append(frames, f) /\ UNCHANGED <<db, storage, broken>>
    BY <1>3 DEF DelegateCall, history
  <2> HIDE DEF f
  <2> QED
    BY <2>3, <2>4, PushKeepsSlotwise
<1>4. ASSUME NEW s \in Slots, Sload(s)
      PROVE  Slotwise'
  <2> DEFINE got == IF Top.ws[Top.self][s] # 0 THEN Top.ws[Top.self][s] ELSE db[Top.self][s]
             f == [Top EXCEPT !.ws[Top.self][s] = got]
  <2>1. frames # <<>> /\ Top \in Frames
    BY <1>4, <1>a DEF Sload, Running
  <2>2. Top.self \in Contracts /\ got \in Words
    BY <2>1 DEF Frames, Store, TypeOK
  <2>3. /\ f \in Frames /\ f.self = Top.self /\ f.before = Top.before
        /\ f.writes = Top.writes /\ f.flushed = Top.flushed
    BY <2>1, <2>2 DEF Frames, Store
  <2>4. frames' = Edited(f) /\ UNCHANGED <<db, storage, broken>>
    BY <1>4 DEF Sload
  <2> HIDE DEF f
  <2> QED
    BY <2>1, <2>3, <2>4, SameStoresKeepSlotwise
<1>5. ASSUME NEW s \in Slots, NEW v \in {0} \cup Values, Sstore(s, v)
      PROVE  Slotwise'
  BY <1>5, SstoreKeepsSlotwise
<1>6. CASE ReturnCall
  BY <1>6, CallKeepsSlotwise
<1>7. CASE ReturnDelegate
  BY <1>7, DelegateKeepsSlotwise
<1>r. ASSUME Running, Top.kind \notin {"tx", "done"}, storage' = Top.before, db' = db,
             frames' = Popped([Below EXCEPT !.flushed = @ \cup Top.flushed]),
             broken' = (broken \/ Top.flushed # {})
      PROVE  Slotwise'
  <2> DEFINE f == [Below EXCEPT !.flushed = @ \cup Top.flushed]
  <2>1. Len(frames) > 1 /\ Top \in Frames /\ Below \in Frames
    BY <1>r, InnerFrame
  <2>2. /\ f \in Frames /\ f.self = Below.self /\ f.writes = Below.writes
        /\ f.before = Below.before /\ f.flushed = Below.flushed \cup Top.flushed
    BY <2>1 DEF Frames
  <2>3. frames' = Popped(f)
    BY <1>r
  <2> HIDE DEF f
  <2> QED
    BY <1>r, <2>1, <2>2, <2>3, RollbackKeepsSlotwise
<1>8. CASE ReturnStatic
  <2>1. Top.kind \notin {"tx", "done"}
    BY <1>8 DEF ReturnStatic
  <2> QED
    BY <1>8, <1>r, <2>1 DEF ReturnStatic
<1>9. CASE ReturnTransaction
  <2> DEFINE f == [Top EXCEPT !.kind = "done"]
  <2>1. frames # <<>> /\ Top \in Frames
    BY <1>9, <1>a DEF ReturnTransaction, Running
  <2>2. /\ f \in Frames /\ f.self = Top.self /\ f.before = Top.before
        /\ f.writes = Top.writes /\ f.flushed = Top.flushed
    BY <2>1 DEF Frames, Kinds
  <2>3. frames' = Edited(f) /\ UNCHANGED <<db, storage, broken>>
    BY <1>9 DEF ReturnTransaction, history
  <2> HIDE DEF f
  <2> QED
    BY <2>1, <2>2, <2>3, SameStoresKeepSlotwise
<1>10. CASE PersistSlot
  BY <1>10, PersistKeepsSlotwise
<1>11. CASE EndTransaction
  BY <1>11, EndKeepsSlotwise
<1>12. CASE Fail
  <2>1. CASE Top.kind = "tx"
    <3>1. frames # <<>> /\ frames' = <<>>
      BY <1>12, <2>1 DEF Fail, Running
    <3>2. Len(frames) \in 1..Len(frames) /\ Top = frames[Len(frames)]
      BY <1>a, <1>t, <3>1
    <3>3. frames[Len(frames)].kind \in {"tx", "done"} <=> Len(frames) = 1
      BY <3>2 DEF TypeOK
    <3>4. Len(frames) = 1 /\ Top = frames[1]
      BY <2>1, <3>2, <3>3
    <3>5. storage' = frames[1].before /\ db' = db /\ (~broken' => ~broken /\ Top.flushed = {})
      BY <1>12, <3>4 DEF Fail
    <3>6. Top.flushed = {} => Untouched(1)
      BY <3>4 DEF Untouched
    <3> QED
      BY <3>1, <3>5, <3>6, LostKeepsSlotwise
  <2>2. CASE Top.kind # "tx"
    <3>1. Running /\ Top.kind \notin {"tx", "done"}
      BY <1>12, <2>2 DEF Fail, Running
    <3> QED
      BY <1>12, <1>r, <2>2, <3>1 DEF Fail
  <2> QED
    BY <2>1, <2>2
<1>13. CASE Crash
  <2>1. /\ frames # <<>> /\ frames' = <<>> /\ db' = db /\ storage' = frames[1].before
        /\ ~broken' => ~broken /\ \A k \in 1..Len(frames) : frames[k].flushed = {}
    BY <1>13 DEF Crash
  <2>2. (\A k \in 1..Len(frames) : frames[k].flushed = {}) => Untouched(1)
    BY DEF Untouched
  <2> QED
    BY <2>1, <2>2, LostKeepsSlotwise
<1>14. CASE UNCHANGED vars
  BY <1>14 DEF vars, history, Slotwise, Effective, Stores, Untouched
<1> QED
  BY <1>1, <1>2, <1>3, <1>4, <1>5, <1>6, <1>7, <1>8, <1>9, <1>10, <1>11, <1>12, <1>13,
     <1>14 DEF Next

\* RocksDB with the stores of the active calls over it is what the EVM prescribes,
\* for any contracts, slots, words, depth of calls and length of transaction: a
\* transaction that ends, reverts or is lost in a crash leaves RocksDB right, except
\* in the ways broken names.
THEOREM EvmStorage == Spec => []StorageIsEvm
<1>1. Init => Slotwise
  <2> SUFFICES ASSUME Init PROVE Slotwise
    OBVIOUS
  <2>1. frames = <<>> /\ storage = db
    BY DEF Init
  <2> QED
    BY <2>1 DEF Slotwise, Effective
<1>2. Slotwise => StorageIsEvm
  BY SlotwiseIsBoth
<1> QED
  BY InitIsTyped, StepIsTyped, StepKeepsSlotwise, <1>1, <1>2, PTL DEF Spec

-----------------------------------------------------------------------------
(* Loads.                                                                   *)

\* What the EVM prescribes when frame k of the stack g is on top again.
Then(g, st, k) == IF k = Len(g) THEN st ELSE g[k + 1].before

\* What a load of slot s gets in frame k.
Got(g, D, k, s) ==
  LET w == g[k].ws[g[k].self][s] IN IF w # 0 THEN w ELSE D[g[k].self][s]

Others == Slots \ {OwnerSlot}

\* Contracts that were not called have their values in RocksDB, and in no copy.
Fresh(g, D, st, ent) ==
  \A d \in Contracts \ ent, s \in Others :
    /\ st[d][s] = D[d][s]
    /\ \A k \in 1..Len(g) : g[k].ws[d][s] = 0 /\ g[k].before[d][s] = D[d][s]

\* A contract is called once: only the delegates on top of it run on its storage.
Apart(g, ent) ==
  \A k \in 1..Len(g) :
    /\ g[k].self \in ent
    /\ g[k].kind # "delegate" => \A j \in 1..(k - 1) : g[j].self # g[k].self

\* A load gets what the EVM prescribes.
Viewed(g, D, st) ==
  \A k \in 1..Len(g) : \A s \in Others : Then(g, st, k)[g[k].self][s] = Got(g, D, k, s)

\* A frame changes only what it stores itself, of all the contracts below it.
Keeping(g, st) ==
  \A k \in 1..Len(g) : \A j \in 1..k : \A s \in Others :
    (g[j].self = g[k].self => s \notin DOMAIN g[k].writes)
      => Then(g, st, k)[g[j].self][s] = g[k].before[g[j].self][s]

\* A copy has the stores of its frame, none of them zero.
Copied(g) ==
  \A k \in 1..Len(g) : \A s \in DOMAIN g[k].writes \ {OwnerSlot} :
    g[k].writes[s] # 0 /\ g[k].ws[g[k].self][s] = g[k].writes[s]

Reading(g, D, st, ent) ==
  Fresh(g, D, st, ent) /\ Apart(g, ent) /\ Viewed(g, D, st) /\ Keeping(g, st) /\ Copied(g)

ReadInv == ~again /\ ~zeroed /\ Running => Reading(frames, db, storage, entered)

\* A frame with the same contract, stores and values to fall back on.
Alike(f, e) ==
  f.kind = e.kind /\ f.self = e.self /\ f.writes = e.writes /\ f.before = e.before

\* The stack h is g with frame f on top: of a contract not yet called, or a
\* delegate of the contract on top.
Pushes(g, h, f, st, ent, more) ==
  /\ g \in Seq(Frames) /\ Len(g) > 0
  /\ h \in Seq(Frames) /\ Len(h) = Len(g) + 1 /\ h[Len(h)] = f
  /\ \A k \in 1..Len(g) : h[k] = g[k]
  /\ f.self \in Contracts /\ f.writes = NoWrites /\ f.before = st
  /\ \A d \in Contracts, s \in Others : f.ws[d][s] = g[Len(g)].ws[d][s]
  /\ \/ f.kind # "delegate" /\ f.self \notin ent /\ more = ent \cup {f.self}
     \/ f.kind = "delegate" /\ f.self = g[Len(g)].self /\ more = ent

LEMMA PushKeepsReading ==
  ASSUME NEW g, NEW D, NEW st, NEW ent, NEW more, NEW h, NEW f,
         Reading(g, D, st, ent), Pushes(g, h, f, st, ent, more)
  PROVE  Reading(h, D, st, more)
<1> DEFINE n == Len(g)
<1>0. /\ g \in Seq(Frames) /\ Len(g) > 0 /\ h \in Seq(Frames)
      /\ Len(h) = Len(g) + 1 /\ h[Len(h)] = f /\ \A k \in 1..Len(g) : h[k] = g[k]
      /\ f.self \in Contracts /\ f.writes = NoWrites /\ f.before = st
      /\ \A d \in Contracts, s \in Others : f.ws[d][s] = g[Len(g)].ws[d][s]
      /\ \/ f.kind # "delegate" /\ f.self \notin ent /\ more = ent \cup {f.self}
         \/ f.kind = "delegate" /\ f.self = g[Len(g)].self /\ more = ent
  BY DEF Pushes
<1> USE <1>0
<1>1. n \in Nat /\ n > 0 /\ Len(h) = n + 1 /\ h[n + 1] = f /\ \A k \in 1..n : h[k] = g[k]
  OBVIOUS
<1> HIDE DEF n
<1>2. \A k \in 1 .. n + 1 : k \in 1..n \/ k = n + 1
  BY <1>1
<1>3. /\ \A k \in 1..n : Then(h, st, k) = Then(g, st, k)
      /\ Then(h, st, n + 1) = st
  <2>1. \A k \in 1..n : k # n => k + 1 \in 1..n /\ k # n + 1 /\ k + 1 # n + 1
    BY <1>1
  <2>2. Then(h, st, n) = st /\ Then(g, st, n) = st
    BY <1>1 DEF Then, n
  <2>3. \A k \in 1..n : k # n => Then(h, st, k) = Then(g, st, k)
    BY <1>1, <2>1 DEF Then, n
  <2> QED BY <1>1, <2>2, <2>3 DEF Then
<1>4. Fresh(g, D, st, ent) /\ Apart(g, ent) /\ Viewed(g, D, st) /\ Keeping(g, st) /\ Copied(g)
  BY DEF Reading
<1>5. Fresh(h, D, st, more)
  BY <1>1, <1>2, <1>4 DEF Fresh, n
<1>6. Apart(h, more)
  <2>1. \A k \in 1..n : \A j \in 1..(k - 1) : j \in 1..n
    BY <1>1
  <2>2. \A j \in 1 .. (n + 1) - 1 : j \in 1..n
    BY <1>1
  <2>3. n \in 1..n
    BY <1>1
  <2> QED BY <1>1, <1>2, <1>4, <2>1, <2>2, <2>3 DEF Apart, n
<1>7. Viewed(h, D, st)
  <2>1. \A k \in 1..n, s \in Others : Got(h, D, k, s) = Got(g, D, k, s)
    BY <1>1 DEF Got
  <2>2. \A s \in Others : Got(h, D, n + 1, s) = st[f.self][s]
    <3>1. CASE f.self \notin ent
      BY <1>1, <1>4, <3>1 DEF Fresh, Got, n
    <3>2. CASE f.self = g[n].self
      <4>1. \A s \in Others : Got(h, D, n + 1, s) = Got(g, D, n, s)
        BY <1>1, <3>2 DEF Got, n
      <4>2. \A s \in Others : Got(g, D, n, s) = st[f.self][s]
        BY <1>1, <1>4, <3>2 DEF Viewed, Then, n
      <4> QED BY <4>1, <4>2
    <3> QED BY <3>1, <3>2 DEF n
  <2> SUFFICES ASSUME NEW k \in 1 .. n + 1, NEW s \in Others
               PROVE  Then(h, st, k)[h[k].self][s] = Got(h, D, k, s)
    BY <1>1 DEF Viewed
  <2>3. CASE k \in 1..n
    <3>1. Then(g, st, k)[g[k].self][s] = Got(g, D, k, s)
      BY <1>4, <2>3 DEF Viewed, n
    <3>2. Then(h, st, k) = Then(g, st, k) /\ h[k] = g[k]
      BY <1>1, <1>3, <2>3
    <3> QED BY <2>1, <2>3, <3>1, <3>2
  <2>4. CASE k = n + 1
    BY <1>1, <1>3, <2>2, <2>4
  <2> QED BY <1>2, <2>3, <2>4
<1>8. Keeping(h, st)
  <2> SUFFICES ASSUME NEW k \in 1 .. n + 1, NEW j \in 1..k, NEW s \in Others,
                      h[j].self = h[k].self => s \notin DOMAIN h[k].writes
               PROVE  Then(h, st, k)[h[j].self][s] = h[k].before[h[j].self][s]
    BY <1>1 DEF Keeping
  <2>1. CASE k \in 1..n
    <3>1. j \in 1..n
      BY <1>1, <2>1
    <3>2. h[k] = g[k] /\ h[j] = g[j] /\ Then(h, st, k) = Then(g, st, k)
      BY <1>1, <1>3, <2>1, <3>1
    <3>3. (g[j].self = g[k].self => s \notin DOMAIN g[k].writes)
            => Then(g, st, k)[g[j].self][s] = g[k].before[g[j].self][s]
      BY <1>4, <2>1 DEF Keeping, n
    <3> QED BY <3>2, <3>3
  <2>2. CASE k = n + 1
    BY <1>1, <1>3, <2>2
  <2> QED BY <1>2, <2>1, <2>2
<1>9. Copied(h)
  BY <1>1, <1>2, <1>4 DEF Copied, NoWrites, n
<1> QED BY <1>5, <1>6, <1>7, <1>8, <1>9 DEF Reading

\* Leaving a frame that failed: what it would be rolled back to is prescribed again.
LEMMA RollbackKeepsReading ==
  ASSUME NEW g \in Seq(Frames), NEW D, NEW st, NEW ent, NEW h \in Seq(Frames),
         Reading(g, D, st, ent), Len(g) > 1, Len(h) = Len(g) - 1,
         \A k \in 1..Len(h) : Alike(h[k], g[k]) /\ h[k].ws = g[k].ws
  PROVE  Reading(h, D, g[Len(g)].before, ent)
<1> DEFINE n == Len(h)
           back == g[n + 1].before
<1>1. /\ n \in Nat /\ n > 0 /\ Len(g) = n + 1 /\ \A k \in 1..n : k \in 1..Len(g)
      /\ \A k \in 1..n : /\ h[k].kind = g[k].kind /\ h[k].self = g[k].self
                         /\ h[k].writes = g[k].writes /\ h[k].before = g[k].before
                         /\ h[k].ws = g[k].ws
  BY DEF Alike
<1>2. Fresh(g, D, st, ent) /\ Apart(g, ent) /\ Viewed(g, D, st) /\ Keeping(g, st) /\ Copied(g)
  BY DEF Reading
<1> HIDE DEF n
<1>3. \A k \in 1..n : Then(h, back, k) = Then(g, st, k)
  <2>1. \A k \in 1..n : k # n => k + 1 \in 1..n /\ k # n + 1
    BY <1>1
  <2>2. n # n + 1
    BY <1>1
  <2> QED BY <1>1, <2>1, <2>2 DEF Then, n
<1>4. Fresh(h, D, back, ent)
  <2> SUFFICES ASSUME NEW d \in Contracts \ ent, NEW s \in Others
               PROVE  /\ back[d][s] = D[d][s]
                      /\ \A k \in 1..n : h[k].ws[d][s] = 0 /\ h[k].before[d][s] = D[d][s]
    BY DEF Fresh, n
  <2>1. /\ st[d][s] = D[d][s]
        /\ \A k \in 1..Len(g) : g[k].ws[d][s] = 0 /\ g[k].before[d][s] = D[d][s]
    BY <1>2 DEF Fresh
  <2>2. back[d][s] = D[d][s]
    <3>1. n + 1 \in 1..Len(g)
      BY <1>1
    <3> QED BY <2>1, <3>1
  <2> QED BY <1>1, <2>1, <2>2
<1>5. Apart(h, ent)
  <2> SUFFICES ASSUME NEW k \in 1..n
               PROVE  /\ h[k].self \in ent
                      /\ h[k].kind # "delegate" => \A j \in 1..(k - 1) : h[j].self # h[k].self
    BY DEF Apart, n
  <2>1. \A j \in 1..(k - 1) : j \in 1..n
    BY <1>1
  <2> QED BY <1>1, <1>2, <2>1 DEF Apart
<1>6. Viewed(h, D, back)
  BY <1>1, <1>2, <1>3 DEF Viewed, Got, n
<1>7. Keeping(h, back)
  <2> SUFFICES ASSUME NEW k \in 1..n, NEW j \in 1..k, NEW s \in Others,
                      h[j].self = h[k].self => s \notin DOMAIN h[k].writes
               PROVE  Then(h, back, k)[h[j].self][s] = h[k].before[h[j].self][s]
    BY DEF Keeping, n
  <2>1. j \in 1..n
    BY <1>1
  <2>2. /\ h[j].self = g[j].self /\ h[k].self = g[k].self
        /\ h[k].writes = g[k].writes /\ h[k].before = g[k].before
        /\ Then(h, back, k) = Then(g, st, k) /\ k \in 1..Len(g)
    BY <1>1, <1>3, <2>1
  <2>3. Then(g, st, k)[g[j].self][s] = g[k].before[g[j].self][s]
    BY <1>2, <2>2 DEF Keeping
  <2> QED BY <2>2, <2>3
<1>8. Copied(h)
  <2> SUFFICES ASSUME NEW k \in 1..n, NEW s \in DOMAIN h[k].writes \ {OwnerSlot}
               PROVE  h[k].writes[s] # 0 /\ h[k].ws[h[k].self][s] = h[k].writes[s]
    BY DEF Copied, n
  <2> QED BY <1>1, <1>2 DEF Copied
<1>9. g[Len(g)].before = back
  BY <1>1
<1> QED BY <1>4, <1>5, <1>6, <1>7, <1>8, <1>9 DEF Reading

\* A call that returns: its stores are in RocksDB and in the caller's copy, which
\* has another contract.
LEMMA ReturnKeepsReading ==
  ASSUME NEW g \in Seq(Frames), NEW D, NEW E, NEW st, NEW ent, NEW h \in Seq(Frames),
         Reading(g, D, st, ent), Len(g) > 1, Len(h) = Len(g) - 1,
         g[Len(g)].kind # "delegate", \A k \in 1..Len(g) : g[k].self \in Contracts,
         \A k \in 1..Len(h) : Alike(h[k], g[k]),
         \A k \in 1..Len(h), d \in Contracts, s \in Others :
           d # g[Len(g)].self => h[k].ws[d][s] = g[k].ws[d][s],
         \A d \in Contracts, s \in Others : d # g[Len(g)].self => E[d][s] = D[d][s]
  PROVE  Reading(h, E, st, ent)
<1> DEFINE n == Len(h)
           c == g[n + 1].self
<1>1. /\ n \in Nat /\ n > 0 /\ Len(g) = n + 1 /\ \A k \in 1..n : k \in 1..Len(g)
      /\ \A k \in 1..n : /\ h[k].kind = g[k].kind /\ h[k].self = g[k].self
                         /\ h[k].writes = g[k].writes /\ h[k].before = g[k].before
      /\ \A k \in 1..n, d \in Contracts, s \in Others :
           d # c => h[k].ws[d][s] = g[k].ws[d][s]
      /\ \A d \in Contracts, s \in Others : d # c => E[d][s] = D[d][s]
  BY DEF Alike
<1>2. Fresh(g, D, st, ent) /\ Apart(g, ent) /\ Viewed(g, D, st) /\ Keeping(g, st) /\ Copied(g)
  BY DEF Reading
<1>c. c \in ent /\ \A k \in 1..n : g[k].self \in Contracts /\ g[k].self # c
  <2>1. \A k \in 1..n : k \in 1 .. (n + 1) - 1
    BY <1>1
  <2>2. n + 1 \in 1..Len(g)
    BY <1>1
  <2> QED BY <1>1, <1>2, <2>1, <2>2 DEF Apart
<1> HIDE DEF n, c
<1>3. \A k \in 1..n : \A j \in 1..n : \A s \in Others :
        Then(h, st, k)[g[j].self][s] = Then(g, st, k)[g[j].self][s]
  <2>1. \A k \in 1..n : k # n => k + 1 \in 1..n /\ k # n + 1
    BY <1>1
  <2>2. \A k \in 1..n : k # n => Then(h, st, k) = Then(g, st, k)
    BY <1>1, <2>1 DEF Then, n
  <2>3. Then(h, st, n) = st /\ Then(g, st, n) = g[n + 1].before
    BY <1>1 DEF Then, n
  <2>4. \A j \in 1..n : \A s \in Others : st[g[j].self][s] = g[n + 1].before[g[j].self][s]
    <3>1. Then(g, st, n + 1) = st
      BY <1>1 DEF Then
    <3>2. n + 1 \in 1..Len(g)
      BY <1>1
    <3> QED BY <1>1, <1>2, <1>c, <3>1, <3>2 DEF Keeping, c
  <2> QED BY <2>2, <2>3, <2>4
<1>4. Fresh(h, E, st, ent)
  <2> SUFFICES ASSUME NEW d \in Contracts \ ent, NEW s \in Others
               PROVE  /\ st[d][s] = E[d][s]
                      /\ \A k \in 1..n : h[k].ws[d][s] = 0 /\ h[k].before[d][s] = E[d][s]
    BY DEF Fresh, n
  <2>1. /\ st[d][s] = D[d][s]
        /\ \A k \in 1..Len(g) : g[k].ws[d][s] = 0 /\ g[k].before[d][s] = D[d][s]
    BY <1>2 DEF Fresh
  <2>2. d # c /\ E[d][s] = D[d][s]
    BY <1>1, <1>c
  <2>3. \A k \in 1..n : h[k].ws[d][s] = g[k].ws[d][s] /\ h[k].before = g[k].before
    BY <1>1, <2>2
  <2>4. \A k \in 1..n : g[k].ws[d][s] = 0 /\ g[k].before[d][s] = D[d][s]
    BY <1>1, <2>1
  <2> QED BY <2>1, <2>2, <2>3, <2>4
<1>5. Apart(h, ent)
  <2> SUFFICES ASSUME NEW k \in 1..n
               PROVE  /\ h[k].self \in ent
                      /\ h[k].kind # "delegate" => \A j \in 1..(k - 1) : h[j].self # h[k].self
    BY DEF Apart, n
  <2>1. \A j \in 1..(k - 1) : j \in 1..n
    BY <1>1
  <2> QED BY <1>1, <1>2, <2>1 DEF Apart
<1>6. Viewed(h, E, st)
  <2>1. \A k \in 1..n, s \in Others : Got(h, E, k, s) = Got(g, D, k, s)
    BY <1>1, <1>c DEF Got
  <2> SUFFICES ASSUME NEW k \in 1..n, NEW s \in Others
               PROVE  Then(h, st, k)[h[k].self][s] = Got(h, E, k, s)
    BY DEF Viewed, n
  <2>2. Then(g, st, k)[g[k].self][s] = Got(g, D, k, s)
    BY <1>1, <1>2 DEF Viewed
  <2>3. Then(h, st, k)[g[k].self][s] = Then(g, st, k)[g[k].self][s] /\ h[k].self = g[k].self
    BY <1>1, <1>3
  <2> QED BY <2>1, <2>2, <2>3
<1>7. Keeping(h, st)
  <2> SUFFICES ASSUME NEW k \in 1..n, NEW j \in 1..k, NEW s \in Others,
                      h[j].self = h[k].self => s \notin DOMAIN h[k].writes
               PROVE  Then(h, st, k)[h[j].self][s] = h[k].before[h[j].self][s]
    BY DEF Keeping, n
  <2>1. j \in 1..n
    BY <1>1
  <2>2. h[k].self = g[k].self /\ h[j].self = g[j].self
        /\ h[k].writes = g[k].writes /\ h[k].before = g[k].before
    BY <1>1, <2>1
  <2>3. Then(h, st, k)[g[j].self][s] = Then(g, st, k)[g[j].self][s]
    BY <1>3, <2>1
  <2>4. (g[j].self = g[k].self => s \notin DOMAIN g[k].writes)
          => Then(g, st, k)[g[j].self][s] = g[k].before[g[j].self][s]
    BY <1>1, <1>2 DEF Keeping
  <2> QED BY <2>2, <2>3, <2>4
<1>8. Copied(h)
  <2> SUFFICES ASSUME NEW k \in 1..n, NEW s \in DOMAIN h[k].writes \ {OwnerSlot}
               PROVE  h[k].writes[s] # 0 /\ h[k].ws[h[k].self][s] = h[k].writes[s]
    BY DEF Copied, n
  <2>1. /\ k \in 1..Len(g) /\ h[k].self = g[k].self /\ h[k].writes = g[k].writes
        /\ g[k].self \in Contracts /\ g[k].self # c
    BY <1>1, <1>c
  <2>2. s \in Others
    <3>1. g[k] \in Frames
      BY <2>1
    <3>2. g[k].writes \in Writes
      BY <3>1 DEF Frames
    <3>3. DOMAIN g[k].writes \subseteq Slots
      BY <3>2 DEF Writes
    <3> QED BY <2>1, <3>3 DEF Others
  <2>3. h[k].ws[g[k].self][s] = g[k].ws[g[k].self][s]
    BY <1>1, <2>1, <2>2
  <2>4. g[k].writes[s] # 0 /\ g[k].ws[g[k].self][s] = g[k].writes[s]
    BY <1>2, <2>1 DEF Copied
  <2> QED BY <2>1, <2>3, <2>4
<1> QED BY <1>4, <1>5, <1>6, <1>7, <1>8 DEF Reading

\* A delegate that returns: its stores are its caller's, who has the same contract.
LEMMA DelegateKeepsReading ==
  ASSUME NEW g \in Seq(Frames), NEW D, NEW st, NEW ent, NEW h \in Seq(Frames),
         Reading(g, D, st, ent), Len(g) > 1, Len(h) = Len(g) - 1,
         g[Len(g)].self = g[Len(h)].self, g[Len(g)].self \in Contracts,
         \A k \in 1..Len(h) :
           h[k].kind = g[k].kind /\ h[k].self = g[k].self /\ h[k].before = g[k].before,
         \A k \in 1 .. Len(h) - 1 : h[k].writes = g[k].writes /\ h[k].ws = g[k].ws,
         h[Len(h)].writes = Laid(g[Len(g)].writes, g[Len(h)].writes),
         \A d \in Contracts, s \in Others :
           h[Len(h)].ws[d][s] = IF d = g[Len(g)].self /\ s \in DOMAIN g[Len(g)].writes
                                THEN g[Len(g)].writes[s] ELSE g[Len(h)].ws[d][s]
  PROVE  Reading(h, D, st, ent)
<1> DEFINE n == Len(h)
           c == g[n + 1].self
           W == g[n + 1].writes
<1>1. /\ n \in Nat /\ n > 0 /\ Len(g) = n + 1 /\ \A k \in 1..n : k \in 1..Len(g)
      /\ n \in 1..n /\ n + 1 \in 1..Len(g)
      /\ \A k \in 1..n : k = n \/ k \in 1 .. n - 1
      /\ \A k \in 1..n : /\ h[k].kind = g[k].kind /\ h[k].self = g[k].self
                         /\ h[k].before = g[k].before
      /\ \A k \in 1 .. n - 1 : h[k].writes = g[k].writes /\ h[k].ws = g[k].ws
      /\ h[n].writes = Laid(W, g[n].writes)
      /\ \A d \in Contracts, s \in Others :
           h[n].ws[d][s] = IF d = c /\ s \in DOMAIN W THEN W[s] ELSE g[n].ws[d][s]
      /\ c = g[n].self /\ c \in Contracts
  OBVIOUS
<1>2. Fresh(g, D, st, ent) /\ Apart(g, ent) /\ Viewed(g, D, st) /\ Keeping(g, st) /\ Copied(g)
  BY DEF Reading
<1>c. c \in ent
  BY <1>1, <1>2 DEF Apart
<1>w. DOMAIN W \subseteq Slots /\ DOMAIN g[n].writes \subseteq Slots
  <2>1. g[n + 1] \in Frames /\ g[n] \in Frames
    BY <1>1
  <2> QED BY <2>1 DEF Frames, Writes
<1>l. /\ DOMAIN h[n].writes = DOMAIN W \cup DOMAIN g[n].writes
      /\ \A s \in DOMAIN h[n].writes :
           h[n].writes[s] = IF s \in DOMAIN W THEN W[s] ELSE g[n].writes[s]
  BY <1>1 DEF Laid
<1> HIDE DEF n, c, W
<1>t. /\ Then(h, st, n) = st /\ Then(g, st, n) = g[n + 1].before /\ Then(g, st, n + 1) = st
      /\ \A k \in 1 .. n - 1 : Then(h, st, k) = Then(g, st, k)
  <2>1. \A k \in 1 .. n - 1 : k + 1 \in 1..n /\ k # n /\ k # n + 1
    BY <1>1
  <2> QED BY <1>1, <2>1 DEF Then, n
\* the delegate kept what it did not store, on its contract and on those below
<1>k. \A j \in 1..n : \A s \in Others :
        (g[j].self = c => s \notin DOMAIN W)
          => st[g[j].self][s] = g[n + 1].before[g[j].self][s]
  <2>1. \A j \in 1..n : j \in 1 .. n + 1
    BY <1>1
  <2> QED BY <1>1, <1>2, <1>t, <2>1 DEF Keeping, c, W
<1>4. Fresh(h, D, st, ent)
  <2> SUFFICES ASSUME NEW d \in Contracts \ ent, NEW s \in Others
               PROVE  /\ st[d][s] = D[d][s]
                      /\ \A k \in 1..n : h[k].ws[d][s] = 0 /\ h[k].before[d][s] = D[d][s]
    BY DEF Fresh, n
  <2>1. /\ st[d][s] = D[d][s]
        /\ \A k \in 1..Len(g) : g[k].ws[d][s] = 0 /\ g[k].before[d][s] = D[d][s]
    BY <1>2 DEF Fresh
  <2>2. \A k \in 1..n : h[k].ws[d][s] = g[k].ws[d][s]
    <3>1. d # c
      BY <1>c
    <3>2. h[n].ws[d][s] = g[n].ws[d][s]
      BY <1>1, <3>1
    <3> QED BY <1>1, <3>2
  <2>3. \A k \in 1..n : g[k].ws[d][s] = 0 /\ g[k].before[d][s] = D[d][s]
    BY <1>1, <2>1
  <2> QED BY <1>1, <2>1, <2>2, <2>3
<1>5. Apart(h, ent)
  <2> SUFFICES ASSUME NEW k \in 1..n
               PROVE  /\ h[k].self \in ent
                      /\ h[k].kind # "delegate" => \A j \in 1..(k - 1) : h[j].self # h[k].self
    BY DEF Apart, n
  <2>1. \A j \in 1..(k - 1) : j \in 1..n
    BY <1>1
  <2> QED BY <1>1, <1>2, <2>1 DEF Apart
<1>6. Viewed(h, D, st)
  <2> SUFFICES ASSUME NEW k \in 1..n, NEW s \in Others
               PROVE  Then(h, st, k)[h[k].self][s] = Got(h, D, k, s)
    BY DEF Viewed, n
  <2>1. CASE k \in 1 .. n - 1
    <3>1. Got(h, D, k, s) = Got(g, D, k, s)
      BY <1>1, <2>1 DEF Got
    <3> QED BY <1>1, <1>2, <1>t, <2>1, <3>1 DEF Viewed
  <2>2. CASE k = n
    <3>1. CASE s \in DOMAIN W
      <4>1. W[s] # 0 /\ g[n + 1].ws[c][s] = W[s]
        BY <1>1, <1>2, <3>1 DEF Copied, W, c, Others
      <4>2. h[n].ws[c][s] = W[s]
        BY <1>1, <3>1
      <4>3. st[c][s] = W[s]
        <5>1. Then(g, st, n + 1)[c][s] = Got(g, D, n + 1, s)
          BY <1>1, <1>2 DEF Viewed, c
        <5> QED BY <1>t, <4>1, <5>1 DEF Got, c
      <4> QED BY <1>1, <1>t, <2>2, <4>1, <4>2, <4>3 DEF Got
    <3>2. CASE s \notin DOMAIN W
      <4>1. st[c][s] = g[n + 1].before[c][s]
        BY <1>1, <1>k, <3>2
      <4>2. g[n + 1].before[c][s] = Got(g, D, n, s)
        BY <1>1, <1>2, <1>t DEF Viewed
      <4>3. h[n].ws[c][s] = g[n].ws[c][s]
        BY <1>1, <3>2
      <4>4. Got(h, D, n, s) = Got(g, D, n, s)
        BY <1>1, <4>3 DEF Got
      <4> QED BY <1>1, <1>t, <2>2, <4>1, <4>2, <4>4
    <3> QED BY <3>1, <3>2
  <2> QED BY <1>1, <2>1, <2>2
<1>7. Keeping(h, st)
  <2> SUFFICES ASSUME NEW k \in 1..n, NEW j \in 1..k, NEW s \in Others,
                      h[j].self = h[k].self => s \notin DOMAIN h[k].writes
               PROVE  Then(h, st, k)[h[j].self][s] = h[k].before[h[j].self][s]
    BY DEF Keeping, n
  <2>1. j \in 1..n
    BY <1>1
  <2>2. g[j].self = g[k].self => s \notin DOMAIN g[k].writes
    BY <1>1, <1>l, <2>1
  <2>3. Then(g, st, k)[g[j].self][s] = g[k].before[g[j].self][s]
    BY <1>1, <1>2, <2>2 DEF Keeping
  <2>4. CASE k \in 1 .. n - 1
    BY <1>1, <1>t, <2>1, <2>3, <2>4
  <2>5. CASE k = n
    <3>1. g[j].self = c => s \notin DOMAIN W
      BY <1>1, <1>l, <2>1, <2>5
    <3>2. st[g[j].self][s] = g[n + 1].before[g[j].self][s]
      BY <1>k, <2>1, <3>1
    <3> QED BY <1>1, <1>t, <2>1, <2>3, <2>5, <3>2
  <2> QED BY <1>1, <2>4, <2>5
<1>8. Copied(h)
  <2> SUFFICES ASSUME NEW k \in 1..n, NEW s \in DOMAIN h[k].writes \ {OwnerSlot}
               PROVE  h[k].writes[s] # 0 /\ h[k].ws[h[k].self][s] = h[k].writes[s]
    BY DEF Copied, n
  <2>1. CASE k \in 1 .. n - 1
    BY <1>1, <1>2, <2>1 DEF Copied
  <2>2. CASE k = n
    <3>1. s \in Others /\ s \in DOMAIN W \cup DOMAIN g[n].writes
      BY <1>l, <1>w, <2>2 DEF Others
    <3>2. s \in DOMAIN W => W[s] # 0
      BY <1>1, <1>2, <3>1 DEF Copied, W, Others
    <3>3. s \in DOMAIN g[n].writes => g[n].writes[s] # 0 /\ g[n].ws[c][s] = g[n].writes[s]
      BY <1>1, <1>2, <3>1 DEF Copied, Others
    <3>4. h[n].ws[c][s] = IF s \in DOMAIN W THEN W[s] ELSE g[n].ws[c][s]
      BY <1>1, <3>1
    <3>5. h[n].writes[s] = IF s \in DOMAIN W THEN W[s] ELSE g[n].writes[s]
      BY <1>l, <2>2
    <3> QED BY <1>1, <2>2, <3>1, <3>2, <3>3, <3>4, <3>5
  <2> QED BY <1>1, <2>1, <2>2
<1> QED BY <1>4, <1>5, <1>6, <1>7, <1>8 DEF Reading

\* A load leaves what it got in the copy.
LEMMA LoadKeepsReading ==
  ASSUME NEW g \in Seq(Frames), NEW D, NEW st, NEW ent, NEW h \in Seq(Frames), NEW x,
         Reading(g, D, st, ent), Len(g) > 0, Len(h) = Len(g), g[Len(g)].self \in Contracts,
         \A k \in 1 .. Len(g) - 1 : h[k] = g[k], Alike(h[Len(g)], g[Len(g)]),
         \A d \in Contracts, s \in Others :
           h[Len(g)].ws[d][s] = IF d = g[Len(g)].self /\ s = x THEN Got(g, D, Len(g), x)
                                ELSE g[Len(g)].ws[d][s]
  PROVE  Reading(h, D, st, ent)
<1> DEFINE n == Len(g)
           c == g[n].self
<1>1. /\ n \in Nat /\ n > 0 /\ Len(h) = n /\ n \in 1..n
      /\ \A k \in 1..n : k = n \/ k \in 1 .. n - 1
      /\ \A k \in 1 .. n - 1 : h[k] = g[k]
      /\ \A d \in Contracts, s \in Others :
           h[n].ws[d][s] = IF d = c /\ s = x THEN Got(g, D, n, x) ELSE g[n].ws[d][s]
      /\ c \in Contracts
  OBVIOUS
<1>2. Fresh(g, D, st, ent) /\ Apart(g, ent) /\ Viewed(g, D, st) /\ Keeping(g, st) /\ Copied(g)
  BY DEF Reading
<1>c. c \in ent
  BY <1>1, <1>2 DEF Apart
<1>w. DOMAIN g[n].writes \subseteq Slots
  <2>1. g[n] \in Frames
    BY <1>1
  <2> QED BY <2>1 DEF Frames, Writes
<1>a. \A k \in 1..n : /\ h[k].kind = g[k].kind /\ h[k].self = g[k].self
                      /\ h[k].writes = g[k].writes /\ h[k].before = g[k].before
  <2>1. Alike(h[n], g[n])
    OBVIOUS
  <2> QED BY <1>1, <2>1 DEF Alike
<1>g. \A k \in 1..n, s \in Others : Got(h, D, k, s) = Got(g, D, k, s)
  <2> SUFFICES ASSUME NEW k \in 1..n, NEW s \in Others PROVE Got(h, D, k, s) = Got(g, D, k, s)
    OBVIOUS
  <2>1. CASE k \in 1 .. n - 1
    BY <1>1, <2>1 DEF Got
  <2>2. CASE k = n /\ s # x
    BY <1>1, <1>a, <2>2 DEF Got
  <2>3. CASE k = n /\ s = x
    <3>1. h[n].ws[c][x] = Got(g, D, n, x)
      BY <1>1, <2>3
    <3>2. h[n].self = c
      BY <1>1, <1>a
    <3> QED BY <2>3, <3>1, <3>2 DEF Got
  <2> QED BY <1>1, <2>1, <2>2, <2>3
<1> HIDE DEF n, c
<1>t. \A k \in 1..n : Then(h, st, k) = Then(g, st, k)
  <2>1. \A k \in 1..n : k # n => k + 1 \in 1..n
    BY <1>1
  <2> QED BY <1>1, <1>a, <2>1 DEF Then, n
<1>4. Fresh(h, D, st, ent)
  <2> SUFFICES ASSUME NEW d \in Contracts \ ent, NEW s \in Others
               PROVE  /\ st[d][s] = D[d][s]
                      /\ \A k \in 1..n : h[k].ws[d][s] = 0 /\ h[k].before[d][s] = D[d][s]
    BY <1>1 DEF Fresh
  <2>1. /\ st[d][s] = D[d][s]
        /\ \A k \in 1..n : g[k].ws[d][s] = 0 /\ g[k].before[d][s] = D[d][s]
    BY <1>2 DEF Fresh, n
  <2>2. h[n].ws[d][s] = g[n].ws[d][s]
    BY <1>1, <1>c
  <2> QED BY <1>1, <1>a, <2>1, <2>2
<1>5. Apart(h, ent)
  <2>1. \A k \in 1..n : \A j \in 1..(k - 1) : j \in 1..n
    BY <1>1
  <2> QED BY <1>1, <1>2, <1>a, <2>1 DEF Apart, n
<1>6. Viewed(h, D, st)
  BY <1>1, <1>2, <1>a, <1>g, <1>t DEF Viewed, n
<1>7. Keeping(h, st)
  <2>1. \A k \in 1..n : \A j \in 1..k : j \in 1..n
    BY <1>1
  <2> QED BY <1>1, <1>2, <1>a, <1>t, <2>1 DEF Keeping, n
<1>8. Copied(h)
  <2> SUFFICES ASSUME NEW k \in 1..n, NEW s \in DOMAIN h[k].writes \ {OwnerSlot}
               PROVE  h[k].writes[s] # 0 /\ h[k].ws[h[k].self][s] = h[k].writes[s]
    BY <1>1 DEF Copied
  <2>1. g[k].writes[s] # 0 /\ g[k].ws[g[k].self][s] = g[k].writes[s]
    BY <1>2, <1>a DEF Copied, n
  <2>2. CASE k \in 1 .. n - 1
    BY <1>1, <2>1, <2>2
  <2>3. CASE k = n
    <3>1. s \in Others
      BY <1>a, <1>w, <2>3 DEF Others
    <3>2. h[n].ws[c][s] = IF s = x THEN Got(g, D, n, x) ELSE g[n].ws[c][s]
      BY <1>1, <3>1
    <3>3. Got(g, D, n, s) = g[n].ws[c][s]
      BY <2>1, <2>3 DEF Got, c
    <3> QED BY <1>a, <2>1, <2>3, <3>2, <3>3 DEF c
  <2> QED BY <1>1, <2>2, <2>3
<1> QED BY <1>4, <1>5, <1>6, <1>7, <1>8 DEF Reading

\* The stack h is g after its top frame stored v in slot x, and su is what the EVM then
\* prescribes.
Storing(g, h, st, su, x, v) ==
  LET top == g[Len(g)]  new == h[Len(g)] IN
  /\ new.kind = top.kind /\ new.self = top.self /\ new.before = top.before
  /\ new.writes = Laid([t \in {x} |-> v], top.writes)
  /\ \A d \in Contracts, s \in Others :
       /\ new.ws[d][s] = IF d = top.self /\ s = x THEN v ELSE top.ws[d][s]
       /\ su[d][s] = IF d = top.self /\ s = x THEN v ELSE st[d][s]

\* A store changes the copy, the stores of its frame and what is prescribed alike.
LEMMA StoreKeepsReading ==
  ASSUME NEW g \in Seq(Frames), NEW D, NEW st, NEW ent, NEW h \in Seq(Frames), NEW x, NEW v,
         NEW su,
         Reading(g, D, st, ent), Len(g) > 0, Len(h) = Len(g), g[Len(g)].self \in Contracts,
         v # 0, \A k \in 1 .. Len(g) - 1 : h[k] = g[k], Storing(g, h, st, su, x, v)
  PROVE  Reading(h, D, su, ent)
<1>0. LET top == g[Len(g)]  new == h[Len(g)] IN
      /\ new.kind = top.kind /\ new.self = top.self /\ new.before = top.before
      /\ new.writes = Laid([t \in {x} |-> v], top.writes)
      /\ \A d \in Contracts, s \in Others :
           /\ new.ws[d][s] = IF d = top.self /\ s = x THEN v ELSE top.ws[d][s]
           /\ su[d][s] = IF d = top.self /\ s = x THEN v ELSE st[d][s]
  BY DEF Storing
<1> DEFINE n == Len(g)
           c == g[n].self
<1>1. /\ n \in Nat /\ n > 0 /\ Len(h) = n /\ n \in 1..n
      /\ \A k \in 1..n : k = n \/ k \in 1 .. n - 1
      /\ \A k \in 1 .. n - 1 : h[k] = g[k]
      /\ \A d \in Contracts, s \in Others :
           h[n].ws[d][s] = IF d = c /\ s = x THEN v ELSE g[n].ws[d][s]
      /\ \A d \in Contracts, s \in Others :
           su[d][s] = IF d = c /\ s = x THEN v ELSE st[d][s]
      /\ c \in Contracts
  BY <1>0
<1>2. Fresh(g, D, st, ent) /\ Apart(g, ent) /\ Viewed(g, D, st) /\ Keeping(g, st) /\ Copied(g)
  BY DEF Reading
<1>c. c \in ent
  BY <1>1, <1>2 DEF Apart
<1>a. /\ \A k \in 1..n : /\ h[k].kind = g[k].kind /\ h[k].self = g[k].self
                         /\ h[k].before = g[k].before
      /\ \A k \in 1 .. n - 1 : h[k].writes = g[k].writes
  BY <1>0, <1>1
<1>w. /\ DOMAIN h[n].writes = {x} \cup DOMAIN g[n].writes
      /\ \A s \in DOMAIN h[n].writes : h[n].writes[s] = IF s = x THEN v ELSE g[n].writes[s]
      /\ DOMAIN h[n].writes \subseteq Slots
  <2>1. h[n] \in Frames
    BY <1>1
  <2>2. DOMAIN h[n].writes \subseteq Slots
    BY <2>1 DEF Frames, Writes
  <2> QED BY <1>0, <2>2 DEF Laid
<1>i. \A k \in 1..n : g[k].self \in Contracts
  <2>1. \A k \in 1..n : g[k] \in Frames
    BY <1>1
  <2> QED BY <2>1 DEF Frames
<1> HIDE DEF n, c
<1>t. /\ Then(h, su, n) = su /\ Then(g, st, n) = st
      /\ \A k \in 1 .. n - 1 : Then(h, su, k) = Then(g, st, k)
  <2>1. \A k \in 1 .. n - 1 : k + 1 \in 1..n /\ k # n
    BY <1>1
  <2> QED BY <1>1, <1>a, <2>1 DEF Then, n
<1>4. Fresh(h, D, su, ent)
  <2> SUFFICES ASSUME NEW d \in Contracts \ ent, NEW s \in Others
               PROVE  /\ su[d][s] = D[d][s]
                      /\ \A k \in 1..n : h[k].ws[d][s] = 0 /\ h[k].before[d][s] = D[d][s]
    BY <1>1 DEF Fresh
  <2>1. /\ st[d][s] = D[d][s]
        /\ \A k \in 1..n : g[k].ws[d][s] = 0 /\ g[k].before[d][s] = D[d][s]
    BY <1>2 DEF Fresh, n
  <2>2. h[n].ws[d][s] = g[n].ws[d][s] /\ su[d][s] = st[d][s]
    BY <1>1, <1>c
  <2> QED BY <1>1, <1>a, <2>1, <2>2
<1>5. Apart(h, ent)
  <2>1. \A k \in 1..n : \A j \in 1..(k - 1) : j \in 1..n
    BY <1>1
  <2> QED BY <1>1, <1>2, <1>a, <2>1 DEF Apart, n
<1>6. Viewed(h, D, su)
  <2> SUFFICES ASSUME NEW k \in 1..n, NEW s \in Others
               PROVE  Then(h, su, k)[h[k].self][s] = Got(h, D, k, s)
    BY <1>1 DEF Viewed
  <2>0. Then(g, st, k)[g[k].self][s] = Got(g, D, k, s)
    BY <1>2 DEF Viewed, n
  <2>1. CASE k \in 1 .. n - 1
    <3>1. Got(h, D, k, s) = Got(g, D, k, s)
      BY <1>1, <2>1 DEF Got
    <3> QED BY <1>a, <1>t, <2>0, <2>1, <3>1
  <2>2. CASE k = n
    <3>1. h[n].self = c /\ g[n].self = c
      BY <1>1, <1>a DEF c
    <3>2. CASE s = x
      BY <1>1, <1>t, <2>2, <3>1, <3>2 DEF Got
    <3>3. CASE s # x
      <4>1. h[n].ws[c][s] = g[n].ws[c][s] /\ su[c][s] = st[c][s]
        BY <1>1, <3>3
      <4>2. Got(h, D, n, s) = Got(g, D, n, s)
        BY <3>1, <4>1 DEF Got
      <4> QED BY <1>t, <2>0, <2>2, <3>1, <4>1, <4>2
    <3> QED BY <3>2, <3>3
  <2> QED BY <1>1, <2>1, <2>2
<1>7. Keeping(h, su)
  <2> SUFFICES ASSUME NEW k \in 1..n, NEW j \in 1..k, NEW s \in Others,
                      h[j].self = h[k].self => s \notin DOMAIN h[k].writes
               PROVE  Then(h, su, k)[h[j].self][s] = h[k].before[h[j].self][s]
    BY <1>1 DEF Keeping
  <2>1. j \in 1..n
    BY <1>1
  <2>2. g[j].self = g[k].self => s \notin DOMAIN g[k].writes
    BY <1>1, <1>a, <1>w, <2>1
  <2>3. Then(g, st, k)[g[j].self][s] = g[k].before[g[j].self][s]
    BY <1>2, <2>2 DEF Keeping, n
  <2>4. CASE k \in 1 .. n - 1
    BY <1>a, <1>t, <2>1, <2>3, <2>4
  <2>5. CASE k = n
    <3>1. g[j].self = c => s # x
      BY <1>1, <1>a, <1>w, <2>1, <2>5 DEF c
    <3>2. su[g[j].self][s] = st[g[j].self][s]
      BY <1>1, <1>i, <2>1, <3>1
    <3> QED BY <1>a, <1>t, <2>1, <2>3, <2>5, <3>2
  <2> QED BY <1>1, <2>4, <2>5
<1>8. Copied(h)
  <2> SUFFICES ASSUME NEW k \in 1..n, NEW s \in DOMAIN h[k].writes \ {OwnerSlot}
               PROVE  h[k].writes[s] # 0 /\ h[k].ws[h[k].self][s] = h[k].writes[s]
    BY <1>1 DEF Copied
  <2>1. CASE k \in 1 .. n - 1
    BY <1>1, <1>2, <2>1 DEF Copied, n
  <2>2. CASE k = n
    <3>1. s \in Others /\ h[n].self = c /\ g[n].self = c
      BY <1>1, <1>a, <1>w, <2>2 DEF Others, c
    <3>2. h[n].ws[c][s] = IF s = x THEN v ELSE g[n].ws[c][s]
      BY <1>1, <3>1
    <3>3. s # x => g[n].writes[s] # 0 /\ g[n].ws[c][s] = g[n].writes[s]
      <4>1. s # x => s \in DOMAIN g[n].writes \ {OwnerSlot}
        BY <1>w, <2>2
      <4> QED BY <1>1, <1>2, <3>1, <4>1 DEF Copied, n
    <3> QED BY <1>w, <2>2, <3>1, <3>2, <3>3
  <2> QED BY <1>1, <2>1, <2>2
<1> QED BY <1>4, <1>5, <1>6, <1>7, <1>8 DEF Reading

\* The next state's invariant is about the next state's variables.
LEMMA ReadingNext ==
  Reading(frames', db', storage', entered') => Reading(frames, db, storage, entered)'
BY DEF Reading, Fresh, Apart, Viewed, Keeping, Copied, Then, Got, Others

\* A transaction starts from RocksDB.
LEMMA StartReads ==
  ASSUME TypeOK, StartTransaction
  PROVE  Reading(frames', db', storage', entered')
<1>t. db \in Store /\ storage \in Store
  BY DEF TypeOK
<1>1. PICK c \in Contracts :
        /\ frames' = <<[Frame("tx", c, User, Reloaded(c)) EXCEPT !.before = db]>>
        /\ entered' = {c}
  BY DEF StartTransaction
<1>2. storage' = db /\ db' = db
  BY DEF StartTransaction
<1> DEFINE f == [Frame("tx", c, User, Reloaded(c)) EXCEPT !.before = db]
<1>3. Reloaded(c) \in Store
  BY <1>t DEF Reloaded, Store, Words
<1>4. /\ f.kind = "tx" /\ f.self = c /\ f.before = db /\ f.writes = NoWrites
      /\ f.ws = WithOwner(Reloaded(c), c, User)
  BY DEF Frame
<1>5. \A d \in Contracts, s \in Others : f.ws[d][s] = IF d = c THEN db[c][s] ELSE 0
  <2>1. \A d \in Contracts, s \in Others :
          WithOwner(Reloaded(c), c, User)[d][s] = Reloaded(c)[d][s]
    BY <1>3 DEF WithOwner, Others, Store
  <2>2. \A d \in Contracts, s \in Others :
          Reloaded(c)[d][s] = IF d = c THEN db[c][s] ELSE 0
    BY DEF Reloaded, Others
  <2> QED BY <1>4, <2>1, <2>2
<1>6. frames' = <<f>>
  BY <1>1
<1> HIDE DEF f
<1>7. Len(frames') = 1 /\ frames'[1] = f
  BY <1>6
<1>8. DOMAIN f.writes = {}
  BY <1>4 DEF NoWrites
<1>9. \A k \in 1..Len(frames') : k = 1
  BY <1>7
<1>f. Fresh(frames', db', storage', entered')
  BY <1>1, <1>2, <1>4, <1>5, <1>7, <1>9 DEF Fresh
<1>a. Apart(frames', entered')
  <2>1. \A j \in 1..(1 - 1) : FALSE
    OBVIOUS
  <2> QED BY <1>1, <1>4, <1>7, <1>9, <2>1 DEF Apart
<1>v. Viewed(frames', db', storage')
  BY <1>1, <1>2, <1>4, <1>5, <1>7, <1>9 DEF Viewed, Then, Got
<1>k. Keeping(frames', storage')
  <2>1. \A j \in 1..1 : j = 1
    OBVIOUS
  <2> QED BY <1>2, <1>4, <1>7, <1>9, <2>1 DEF Keeping, Then
<1>c. Copied(frames')
  BY <1>7, <1>8, <1>9 DEF Copied
<1> QED BY <1>f, <1>a, <1>v, <1>k, <1>c DEF Reading

\* Entering a call of another contract, or a delegate of the same.
LEMMA CallReads ==
  ASSUME NEW kind \in {"call", "static"}, TypeOK, ReadInv, Call(kind), ~again', ~zeroed'
  PROVE  Reading(frames', db', storage', entered')
<1>t. db \in Store /\ storage \in Store /\ frames \in Seq(Frames)
  BY DEF TypeOK
<1>0. /\ Running /\ frames # <<>> /\ Len(frames) > 0 /\ Len(frames) \in Nat
      /\ Top \in Frames /\ Top = frames[Len(frames)]
  BY <1>t DEF Call, Running, Top
<1>1. PICK c \in Contracts :
        /\ frames' = Append(frames, Frame(kind, c, Top.self, Top.ws))
        /\ again' = (again \/ c \in entered)
        /\ entered' = entered \cup {c}
  BY DEF Call
<1>2. UNCHANGED <<db, storage, zeroed>>
  BY DEF Call
<1>3. c \notin entered /\ Reading(frames, db, storage, entered)
  BY <1>0, <1>1, <1>2 DEF ReadInv
<1> DEFINE f == Frame(kind, c, Top.self, Top.ws)
<1>4. /\ Top.self \in Contracts \cup {User} /\ Top.ws \in Store /\ kind \in Kinds
      /\ kind # "delegate"
  BY <1>0 DEF Frames, Kinds
<1>5. f \in Frames
  BY <1>t, <1>4, FrameIsFrame
<1>6. /\ f.kind = kind /\ f.self = c /\ f.before = storage /\ f.writes = NoWrites
      /\ f.ws = WithOwner(Top.ws, c, Top.self)
  BY DEF Frame
<1>7. \A d \in Contracts, s \in Others : f.ws[d][s] = frames[Len(frames)].ws[d][s]
  BY <1>0, <1>4, <1>6 DEF WithOwner, Others, Store
<1> HIDE DEF f
<1>8. /\ frames' \in Seq(Frames) /\ Len(frames') = Len(frames) + 1
      /\ \A k \in 1..Len(frames) : frames'[k] = frames[k]
      /\ frames'[Len(frames')] = f
  BY <1>t, <1>1, <1>5 DEF f
<1>9. Reading(frames', db, storage, entered')
  <2>1. f.kind # "delegate" /\ f.self \notin entered /\ entered' = entered \cup {f.self}
    BY <1>1, <1>3, <1>4, <1>6
  <2>2. f.self \in Contracts /\ f.writes = NoWrites /\ f.before = storage
    BY <1>6
  <2>3. Pushes(frames, frames', f, storage, entered, entered')
    BY <1>t, <1>0, <1>7, <1>8, <2>1, <2>2 DEF Pushes
  <2> QED BY <1>3, <2>3, PushKeepsReading
<1> QED BY <1>2, <1>9

LEMMA DelegateCallReads ==
  ASSUME TypeOK, ReadInv, DelegateCall, ~again', ~zeroed'
  PROVE  Reading(frames', db', storage', entered')
<1>t. db \in Store /\ storage \in Store /\ frames \in Seq(Frames)
  BY DEF TypeOK
<1>0. /\ Running /\ frames # <<>> /\ Len(frames) > 0 /\ Len(frames) \in Nat
      /\ Top \in Frames /\ Top = frames[Len(frames)]
  BY <1>t DEF DelegateCall, Running, Top
<1> DEFINE f == Frame("delegate", Top.self, Top.caller, Top.ws)
<1>1. frames' = Append(frames, f)
  BY DEF DelegateCall
<1>2. UNCHANGED <<db, storage, zeroed, again, entered>>
  BY DEF DelegateCall, history
<1>3. Reading(frames, db, storage, entered)
  BY <1>0, <1>2 DEF ReadInv
<1>4. /\ Top.self \in Contracts /\ Top.caller \in Contracts \cup {User} /\ Top.ws \in Store
      /\ "delegate" \in Kinds
  BY <1>0 DEF Frames, Kinds
<1>5. f \in Frames
  BY <1>t, <1>4, FrameIsFrame
<1>6. /\ f.kind = "delegate" /\ f.self = Top.self /\ f.before = storage /\ f.writes = NoWrites
      /\ f.ws = WithOwner(Top.ws, Top.self, Top.caller)
  BY DEF Frame
<1>7. \A d \in Contracts, s \in Others : f.ws[d][s] = frames[Len(frames)].ws[d][s]
  BY <1>0, <1>4, <1>6 DEF WithOwner, Others, Store
<1> HIDE DEF f
<1>8. /\ frames' \in Seq(Frames) /\ Len(frames') = Len(frames) + 1
      /\ \A k \in 1..Len(frames) : frames'[k] = frames[k]
      /\ frames'[Len(frames')] = f
  BY <1>t, <1>1, <1>5
<1>9. Reading(frames', db, storage, entered)
  <2>1. f.kind = "delegate" /\ f.self = frames[Len(frames)].self /\ f.self \in Contracts
    BY <1>0, <1>4, <1>6
  <2>2. Pushes(frames, frames', f, storage, entered, entered)
    BY <1>t, <1>0, <1>6, <1>7, <1>8, <2>1 DEF Pushes
  <2> QED BY <1>3, <2>2, PushKeepsReading
<1> QED BY <1>2, <1>9

\* A load gets what the EVM prescribes, and its copy keeps it.
LEMMA SloadReads ==
  ASSUME NEW s \in Slots, TypeOK, ReadInv, Sload(s), ~again', ~zeroed'
  PROVE  Reading(frames', db', storage', entered') /\ ReadsLastStore'
<1>t. db \in Store /\ storage \in Store /\ frames \in Seq(Frames)
  BY DEF TypeOK
<1>0. /\ Running /\ frames # <<>> /\ Len(frames) > 0 /\ Len(frames) \in Nat
      /\ Top \in Frames /\ Top = frames[Len(frames)]
  BY <1>t DEF Sload, Running, Top
<1> DEFINE n == Len(frames)
           c == Top.self
           got == IF Top.ws[c][s] # 0 THEN Top.ws[c][s] ELSE db[c][s]
           f == [Top EXCEPT !.ws[c][s] = got]
<1>1. frames' = Edited(f) /\ seen' = [slot |-> s, got |-> got, want |-> storage[c][s]]
  BY DEF Sload
<1>2. UNCHANGED <<db, storage, zeroed, again, entered>>
  BY DEF Sload
<1>3. Reading(frames, db, storage, entered)
  BY <1>0, <1>2 DEF ReadInv
<1>4. c \in Contracts /\ Top.ws \in Store /\ got \in Words
  BY <1>t, <1>0 DEF Frames, Store
<1>5. f \in Frames /\ Alike(f, Top)
  <2>1. f = [Top EXCEPT !.ws = [Top.ws EXCEPT ![c][s] = got]]
    OBVIOUS
  <2> DEFINE ws == [Top.ws EXCEPT ![c][s] = got]
  <2>2. ws \in Store
    BY <1>4 DEF Store
  <2> HIDE DEF ws
  <2>3. [Top EXCEPT !.ws = ws] \in Frames /\ Alike([Top EXCEPT !.ws = ws], Top)
    BY <1>0, <2>2 DEF Frames, Alike
  <2> QED BY <2>1, <2>3 DEF ws
<1>6. got = Got(frames, db, n, s)
  BY <1>0 DEF Got
<1>7. \A d \in Contracts, t \in Others :
        f.ws[d][t] = IF d = c /\ t = s THEN got ELSE Top.ws[d][t]
  BY <1>0, <1>4 DEF Frames, Store, Others
<1> HIDE DEF f, got
<1>8. /\ frames' \in Seq(Frames) /\ Len(frames') = Len(frames) /\ frames'[Len(frames)] = f
      /\ \A k \in 1 .. Len(frames) - 1 : frames'[k] = frames[k]
  BY <1>t, <1>0, <1>1, <1>5, EditedIsStack
<1>9. Reading(frames', db, storage, entered)
  BY <1>t, <1>0, <1>3, <1>4, <1>5, <1>6, <1>7, <1>8, LoadKeepsReading
<1>10. s # OwnerSlot => got = storage[c][s]
  <2>1. n \in 1..Len(frames) /\ Viewed(frames, db, storage)
    BY <1>0, <1>3 DEF Reading
  <2>2. s # OwnerSlot => Then(frames, storage, n)[frames[n].self][s] = Got(frames, db, n, s)
    BY <2>1 DEF Viewed, Others
  <2> QED BY <1>0, <1>6, <2>2 DEF Then
<1>11. ReadsLastStore'
  BY <1>1, <1>10 DEF ReadsLastStore
<1> QED BY <1>2, <1>9, <1>11

\* A store changes the copy and what the EVM prescribes alike.
LEMMA SstoreReads ==
  ASSUME NEW s \in Slots, NEW v \in {0} \cup Values, TypeOK, ReadInv, Sstore(s, v),
         ~again', ~zeroed'
  PROVE  Reading(frames', db', storage', entered')
<1>t. db \in Store /\ storage \in Store /\ frames \in Seq(Frames)
  BY DEF TypeOK
<1>0. /\ Running /\ frames # <<>> /\ Len(frames) > 0 /\ Len(frames) \in Nat
      /\ Top \in Frames /\ Top = frames[Len(frames)]
  BY <1>t DEF Sstore, Running, Top
<1> DEFINE c == Top.self
           w == Laid([t \in {s} |-> v], Top.writes)
           f == [Top EXCEPT !.ws[c][s] = v, !.writes = w]
<1>1. frames' = Edited(f) /\ storage' = [storage EXCEPT ![c][s] = v] /\ v # 0
  BY DEF Sstore
<1>2. UNCHANGED <<db, again, entered>> /\ ~zeroed
  BY DEF Sstore
<1>3. Reading(frames, db, storage, entered)
  BY <1>0, <1>2 DEF ReadInv
<1>4. c \in Contracts /\ Top.ws \in Store /\ Top.writes \in Writes /\ v \in Words
  BY <1>t, <1>0 DEF Frames, Store, Words
<1>w. w \in Writes
  <2>1. [t \in {s} |-> v] \in [{s} -> Words] /\ {s} \in SUBSET Slots
    BY <1>4
  <2>2. [t \in {s} |-> v] \in Writes
    BY <2>1 DEF Writes
  <2> QED BY <1>4, <2>2, LaidIsWrites
<1> HIDE DEF w
<1>5. /\ f \in Frames /\ f.kind = Top.kind /\ f.self = c /\ f.before = Top.before
      /\ f.writes = w
  BY <1>0, <1>4, <1>w DEF Frames, Store
<1>7. \A d \in Contracts, t \in Others :
        f.ws[d][t] = IF d = c /\ t = s THEN v ELSE Top.ws[d][t]
  BY <1>0, <1>4 DEF Frames, Store, Others
<1>s. \A d \in Contracts, t \in Others :
        storage'[d][t] = IF d = c /\ t = s THEN v ELSE storage[d][t]
  BY <1>t, <1>1, <1>4 DEF Store, Others
<1> HIDE DEF f
<1>8. /\ frames' \in Seq(Frames) /\ Len(frames') = Len(frames) /\ frames'[Len(frames)] = f
      /\ \A k \in 1 .. Len(frames) - 1 : frames'[k] = frames[k]
  BY <1>t, <1>0, <1>1, <1>5, EditedIsStack
<1>9. Reading(frames', db, storage', entered)
  <2>1. Storing(frames, frames', storage, storage', s, v)
    BY <1>0, <1>4, <1>5, <1>7, <1>s, <1>8 DEF Storing, w
  <2>2. frames[Len(frames)].self \in Contracts
    BY <1>0, <1>4
  <2> QED BY <1>t, <1>0, <1>1, <1>3, <1>8, <2>1, <2>2, StoreKeepsReading
<1> QED BY <1>2, <1>9

\* A call whose stores go into the copy below and into RocksDB.
LEMMA ReturnReads ==
  ASSUME TypeOK, ReadInv, ReturnCall, ~again', ~zeroed'
  PROVE  Reading(frames', db', storage', entered')
<1>t. db \in Store /\ storage \in Store /\ frames \in Seq(Frames)
  BY DEF TypeOK
<1>0. Running /\ Top.kind = "call"
  BY DEF ReturnCall
<1>1. /\ Len(frames) \in Nat /\ Len(frames) > 1
      /\ Top = frames[Len(frames)] /\ Below = frames[Len(frames) - 1]
      /\ Top \in Frames /\ Below \in Frames
  BY <1>0, InnerFrame
<1> DEFINE c == Top.self
           f == [Below EXCEPT !.ws = Over(@, Top.self, Top.writes),
                   !.flushed = @ \cup Top.flushed
                                 \cup {d \in {Top.self} : DOMAIN Top.writes # {}}]
<1>2. frames' = Popped(f) /\ db' = Over(db, c, Top.writes)
  BY DEF ReturnCall
<1>3. UNCHANGED <<storage, entered, again, zeroed>>
  BY DEF ReturnCall
<1>4. Reading(frames, db, storage, entered)
  BY <1>0, <1>3 DEF ReadInv
<1>5. c \in Contracts /\ Top.writes \in Writes /\ Below.ws \in Store
  BY <1>1 DEF Frames
<1>6. /\ Over(Below.ws, c, Top.writes) \in Store
      /\ \A d \in Contracts, s \in Slots :
           d # c => /\ Over(Below.ws, c, Top.writes)[d][s] = Below.ws[d][s]
                    /\ Over(db, c, Top.writes)[d][s] = db[d][s]
  BY <1>t, <1>5, OverIsStore
<1>7. f \in Frames /\ Alike(f, Below) /\ f.ws = Over(Below.ws, c, Top.writes)
  BY <1>1, <1>6 DEF Frames, Alike
<1> HIDE DEF f
<1>8. /\ frames' \in Seq(Frames) /\ Len(frames') = Len(frames) - 1
      /\ frames'[Len(frames) - 1] = f
      /\ \A k \in 1..(Len(frames) - 2) : frames'[k] = frames[k]
  BY <1>t, <1>1, <1>2, <1>7, PoppedIsStack
<1>a. \A k \in 1..Len(frames') : k = Len(frames) - 1 \/ k \in 1..(Len(frames) - 2)
  BY <1>1, <1>8
<1>9. \A k \in 1..Len(frames') : Alike(frames'[k], frames[k])
  BY <1>1, <1>7, <1>8, <1>a DEF Alike
<1>10. \A k \in 1..Len(frames'), d \in Contracts, s \in Others :
         d # frames[Len(frames)].self => frames'[k].ws[d][s] = frames[k].ws[d][s]
  BY <1>1, <1>6, <1>7, <1>8, <1>a DEF Others
<1>11. \A d \in Contracts, s \in Others :
         d # frames[Len(frames)].self => db'[d][s] = db[d][s]
  BY <1>1, <1>2, <1>6 DEF Others
<1>12. \A k \in 1..Len(frames) : frames[k].self \in Contracts
  <2>1. \A k \in 1..Len(frames) : frames[k] \in Frames
    BY <1>t
  <2> QED BY <2>1 DEF Frames
<1>13. Reading(frames', db', storage, entered)
  BY <1>t, <1>0, <1>1, <1>4, <1>8, <1>9, <1>10, <1>11, <1>12, ReturnKeepsReading
<1> QED BY <1>3, <1>13

\* A delegate whose stores become those of the frame below.
LEMMA ReturnDelegateReads ==
  ASSUME TypeOK, ReadInv, ReturnDelegate, ~again', ~zeroed'
  PROVE  Reading(frames', db', storage', entered')
<1>t. db \in Store /\ storage \in Store /\ frames \in Seq(Frames)
  BY DEF TypeOK
<1>0. Running /\ Top.kind = "delegate"
  BY DEF ReturnDelegate
<1>1. /\ Len(frames) \in Nat /\ Len(frames) > 1
      /\ Top = frames[Len(frames)] /\ Below = frames[Len(frames) - 1]
      /\ Top \in Frames /\ Below \in Frames /\ Top.self = Below.self
  BY <1>0, InnerFrame
<1> DEFINE f == [Below EXCEPT !.ws = Over(@, Top.self, Top.writes),
                   !.writes = Laid(Top.writes, @), !.flushed = @ \cup Top.flushed]
<1>2. frames' = Popped(f)
  BY DEF ReturnDelegate
<1>3. UNCHANGED <<db, storage, entered, again, zeroed>>
  BY DEF ReturnDelegate, history
<1>4. Reading(frames, db, storage, entered)
  BY <1>0, <1>3 DEF ReadInv
<1>5. /\ Top.self \in Contracts /\ Top.writes \in Writes
      /\ Below.ws \in Store /\ Below.writes \in Writes
  BY <1>1 DEF Frames
<1>6. /\ Over(Below.ws, Top.self, Top.writes) \in Store
      /\ \A d \in Contracts, s \in Slots :
           Over(Below.ws, Top.self, Top.writes)[d][s] =
             IF d = Top.self /\ s \in DOMAIN Top.writes THEN Top.writes[s] ELSE Below.ws[d][s]
  BY <1>5, OverIsStore
<1>w. Laid(Top.writes, Below.writes) \in Writes
  BY <1>5, LaidIsWrites
<1>7. /\ f \in Frames /\ f.ws = Over(Below.ws, Top.self, Top.writes)
      /\ f.writes = Laid(Top.writes, Below.writes)
      /\ f.kind = Below.kind /\ f.self = Below.self /\ f.before = Below.before
  BY <1>1, <1>6, <1>w DEF Frames
<1> HIDE DEF f
<1>8. /\ frames' \in Seq(Frames) /\ Len(frames') = Len(frames) - 1
      /\ frames'[Len(frames) - 1] = f
      /\ \A k \in 1..(Len(frames) - 2) : frames'[k] = frames[k]
  BY <1>t, <1>1, <1>2, <1>7, PoppedIsStack
<1>a. \A k \in 1..Len(frames') : k = Len(frames) - 1 \/ k \in 1..(Len(frames) - 2)
  BY <1>1, <1>8
<1>9. \A k \in 1..Len(frames') :
        /\ frames'[k].kind = frames[k].kind /\ frames'[k].self = frames[k].self
        /\ frames'[k].before = frames[k].before
  BY <1>1, <1>7, <1>8, <1>a
<1>10. \A k \in 1 .. Len(frames') - 1 :
         frames'[k].writes = frames[k].writes /\ frames'[k].ws = frames[k].ws
  <2>1. \A k \in 1 .. Len(frames') - 1 : k \in 1..(Len(frames) - 2)
    BY <1>1, <1>8
  <2> QED BY <1>8, <2>1
<1>11. /\ frames'[Len(frames')].writes =
            Laid(frames[Len(frames)].writes, frames[Len(frames')].writes)
       /\ \A d \in Contracts, s \in Others :
            frames'[Len(frames')].ws[d][s] =
              IF d = frames[Len(frames)].self /\ s \in DOMAIN frames[Len(frames)].writes
              THEN frames[Len(frames)].writes[s] ELSE frames[Len(frames')].ws[d][s]
  BY <1>1, <1>6, <1>7, <1>8 DEF Others
<1>12. /\ frames[Len(frames)].self = frames[Len(frames')].self
       /\ frames[Len(frames)].self \in Contracts
  BY <1>1, <1>5, <1>8
<1>13. Reading(frames', db, storage, entered)
  BY <1>t, <1>1, <1>4, <1>8, <1>9, <1>10, <1>11, <1>12, DelegateKeepsReading
<1> QED BY <1>3, <1>13

\* A call that fails, or whose stores are dropped.
LEMMA RollbackReads ==
  ASSUME TypeOK, ReadInv, Running, Top.kind \notin {"tx", "done"}, storage' = Top.before,
         frames' = Popped([Below EXCEPT !.flushed = @ \cup Top.flushed]),
         UNCHANGED <<db, entered, again, zeroed>>, ~again', ~zeroed'
  PROVE  Reading(frames', db', storage', entered')
<1>t. db \in Store /\ storage \in Store /\ frames \in Seq(Frames)
  BY DEF TypeOK
<1>1. /\ Len(frames) \in Nat /\ Len(frames) > 1
      /\ Top = frames[Len(frames)] /\ Below = frames[Len(frames) - 1]
      /\ Top \in Frames /\ Below \in Frames
  BY InnerFrame
<1> DEFINE f == [Below EXCEPT !.flushed = @ \cup Top.flushed]
<1>2. frames' = Popped(f)
  OBVIOUS
<1>4. Reading(frames, db, storage, entered)
  BY DEF ReadInv
<1>7. f \in Frames /\ Alike(f, Below) /\ f.ws = Below.ws
  BY <1>1 DEF Frames, Alike
<1> HIDE DEF f
<1>8. /\ frames' \in Seq(Frames) /\ Len(frames') = Len(frames) - 1
      /\ frames'[Len(frames) - 1] = f
      /\ \A k \in 1..(Len(frames) - 2) : frames'[k] = frames[k]
  BY ONLY <1>t, <1>1, <1>2, <1>7, PoppedIsStack
<1>a. \A k \in 1..Len(frames') : k = Len(frames) - 1 \/ k \in 1..(Len(frames) - 2)
  BY <1>1, <1>8
<1>9. \A k \in 1..Len(frames') : Alike(frames'[k], frames[k]) /\ frames'[k].ws = frames[k].ws
  BY <1>1, <1>7, <1>8, <1>a DEF Alike
<1>10. Reading(frames', db, frames[Len(frames)].before, entered)
  BY <1>t, <1>1, <1>4, <1>8, <1>9, RollbackKeepsReading
<1> QED BY <1>1, <1>10

-----------------------------------------------------------------------------
(* A load gets the value last stored.                                      *)

\* Every step keeps what a load relies on, and a load gets it right.
LEMMA StepKeepsReads ==
  TypeOK /\ ReadInv /\ ReadsLastStore /\ [Next]_vars => ReadInv' /\ ReadsLastStore'
<1> SUFFICES ASSUME TypeOK, ReadInv, ReadsLastStore, [Next]_vars
             PROVE  ReadInv' /\ ReadsLastStore'
  OBVIOUS
<1>z. seen' = seen /\ (again => again') /\ (zeroed => zeroed') => ReadsLastStore'
  BY DEF ReadsLastStore
<1>r. (~again' /\ ~zeroed' => Reading(frames', db', storage', entered')) => ReadInv'
  BY ReadingNext DEF ReadInv
<1>i. ~Running' => ReadInv'
  BY DEF ReadInv
<1>1. CASE StartTransaction
  <2>1. Reading(frames', db', storage', entered')
    BY <1>1, StartReads
  <2>2. ReadsLastStore'
    BY <1>1 DEF StartTransaction, ReadsLastStore, NothingSeen
  <2> QED BY <1>r, <2>1, <2>2
<1>2. ASSUME NEW kind \in {"call", "static"}, Call(kind)
      PROVE  ReadInv' /\ ReadsLastStore'
  <2>1. seen' = seen /\ (again => again') /\ (zeroed => zeroed')
    BY <1>2 DEF Call
  <2>2. ~again' /\ ~zeroed' => Reading(frames', db', storage', entered')
    BY <1>2, CallReads
  <2> QED BY <1>r, <1>z, <2>1, <2>2
<1>3. CASE DelegateCall
  <2>1. seen' = seen /\ (again => again') /\ (zeroed => zeroed')
    BY <1>3 DEF DelegateCall, history
  <2>2. ~again' /\ ~zeroed' => Reading(frames', db', storage', entered')
    BY <1>3, DelegateCallReads
  <2> QED BY <1>r, <1>z, <2>1, <2>2
<1>4. ASSUME NEW s \in Slots, Sload(s)
      PROVE  ReadInv' /\ ReadsLastStore'
  <2>1. ~again' /\ ~zeroed' => Reading(frames', db', storage', entered') /\ ReadsLastStore'
    BY <1>4, SloadReads
  <2>2. again' \/ zeroed' => ReadsLastStore'
    BY DEF ReadsLastStore
  <2> QED BY <1>r, <2>1, <2>2
<1>5. ASSUME NEW s \in Slots, NEW v \in {0} \cup Values, Sstore(s, v)
      PROVE  ReadInv' /\ ReadsLastStore'
  <2>1. seen' = seen /\ (again => again') /\ (zeroed => zeroed')
    BY <1>5 DEF Sstore
  <2>2. ~again' /\ ~zeroed' => Reading(frames', db', storage', entered')
    BY <1>5, SstoreReads
  <2> QED BY <1>r, <1>z, <2>1, <2>2
<1>6. CASE ReturnCall
  <2>1. seen' = seen /\ (again => again') /\ (zeroed => zeroed')
    BY <1>6 DEF ReturnCall
  <2>2. ~again' /\ ~zeroed' => Reading(frames', db', storage', entered')
    BY <1>6, ReturnReads
  <2> QED BY <1>r, <1>z, <2>1, <2>2
<1>7. CASE ReturnDelegate
  <2>1. seen' = seen /\ (again => again') /\ (zeroed => zeroed')
    BY <1>7 DEF ReturnDelegate, history
  <2>2. ~again' /\ ~zeroed' => Reading(frames', db', storage', entered')
    BY <1>7, ReturnDelegateReads
  <2> QED BY <1>r, <1>z, <2>1, <2>2
<1>8. CASE ReturnStatic
  <2>1. seen' = seen /\ (again => again') /\ (zeroed => zeroed')
    BY <1>8 DEF ReturnStatic
  <2>2. ~again' /\ ~zeroed' => Reading(frames', db', storage', entered')
    <3>1. Running /\ Top.kind \notin {"tx", "done"} /\ storage' = Top.before
      BY <1>8 DEF ReturnStatic
    <3>2. frames' = Popped([Below EXCEPT !.flushed = @ \cup Top.flushed])
      BY <1>8 DEF ReturnStatic
    <3>3. UNCHANGED <<db, entered, again, zeroed>>
      BY <1>8 DEF ReturnStatic
    <3> QED BY <3>1, <3>2, <3>3, RollbackReads
  <2> QED BY <1>r, <1>z, <2>1, <2>2
<1>9. CASE ReturnTransaction
  <2>1. seen' = seen /\ (again => again') /\ (zeroed => zeroed')
    BY <1>9 DEF ReturnTransaction, history
  <2>2. ~Running'
    <3>1. frames \in Seq(Frames) /\ frames # <<>> /\ Top \in Frames
      BY <1>9 DEF ReturnTransaction, Running, TypeOK, Top
    <3>2. [Top EXCEPT !.kind = "done"] \in Frames
      BY <3>1 DEF Frames, Kinds
    <3>3. frames' = Edited([Top EXCEPT !.kind = "done"])
      BY <1>9 DEF ReturnTransaction
    <3>4. /\ Len(frames') = Len(frames)
          /\ frames'[Len(frames)] = [Top EXCEPT !.kind = "done"]
      BY <3>1, <3>2, <3>3, EditedIsStack
    <3>5. frames'[Len(frames)].kind = "done"
      BY <3>1, <3>4 DEF Frames
    <3> QED BY <3>4, <3>5 DEF Running, Top
  <2> QED BY <1>i, <1>z, <2>1, <2>2
<1>10. CASE PersistSlot
  <2>1. seen' = seen /\ (again => again') /\ (zeroed => zeroed')
    BY <1>10 DEF PersistSlot, history
  <2>2. ~Running'
    <3>1. frames \in Seq(Frames) /\ frames # <<>> /\ Top \in Frames /\ Top.kind = "done"
      BY <1>10 DEF PersistSlot, TypeOK, Top
    <3>2. PICK s \in DOMAIN Top.writes :
            frames' = Edited([Top EXCEPT !.flushed = {Top.self},
                                !.writes = [t \in DOMAIN @ \ {s} |-> @[t]]])
      BY <1>10 DEF PersistSlot
    <3>3. /\ Len(frames') = Len(frames)
          /\ frames'[Len(frames)] = [Top EXCEPT !.flushed = {Top.self},
                                       !.writes = [t \in DOMAIN @ \ {s} |-> @[t]]]
      BY <3>1, <3>2 DEF Edited
    <3>4. frames'[Len(frames)].kind = "done"
      BY <3>1, <3>3 DEF Frames
    <3> QED BY <3>3, <3>4 DEF Running, Top
  <2> QED BY <1>i, <1>z, <2>1, <2>2
<1>11. CASE EndTransaction
  <2>1. seen' = seen /\ (again => again') /\ (zeroed => zeroed') /\ ~Running'
    BY <1>11 DEF EndTransaction, history, Running
  <2> QED BY <1>i, <1>z, <2>1
<1>12. CASE Fail
  <2>1. seen' = seen /\ (again => again') /\ (zeroed => zeroed')
    BY <1>12 DEF Fail
  <2>2. Top.kind = "tx" => ~Running'
    BY <1>12 DEF Fail, Running
  <2>3. Top.kind # "tx" /\ ~again' /\ ~zeroed' => Reading(frames', db', storage', entered')
    <3> SUFFICES ASSUME Top.kind # "tx", ~again', ~zeroed'
                 PROVE  Reading(frames', db', storage', entered')
      OBVIOUS
    <3>1. Running /\ Top.kind \notin {"tx", "done"} /\ storage' = Top.before
      BY <1>12 DEF Fail, Running
    <3>2. frames' = Popped([Below EXCEPT !.flushed = @ \cup Top.flushed])
      BY <1>12 DEF Fail
    <3>3. UNCHANGED <<db, entered, again, zeroed>>
      BY <1>12 DEF Fail
    <3> QED BY <3>1, <3>2, <3>3, RollbackReads
  <2> QED BY <1>i, <1>r, <1>z, <2>1, <2>2, <2>3
<1>13. CASE Crash
  <2>1. seen' = seen /\ (again => again') /\ (zeroed => zeroed') /\ ~Running'
    BY <1>13 DEF Crash, Running
  <2> QED BY <1>i, <1>z, <2>1
<1>14. CASE UNCHANGED vars
  <2>1. UNCHANGED <<frames, db, storage, entered, again, zeroed, seen>>
    BY <1>14 DEF vars, history
  <2>2. Running' <=> Running
    BY <2>1 DEF Running, Top
  <2>3. ~again' /\ ~zeroed' /\ Running' => Reading(frames', db', storage', entered')
    BY <2>1, <2>2 DEF ReadInv
  <2>4. ReadInv'
    BY <2>3, ReadingNext DEF ReadInv
  <2> QED BY <1>z, <2>1, <2>4
<1> QED
  BY <1>1, <1>2, <1>3, <1>4, <1>5, <1>6, <1>7, <1>8, <1>9, <1>10, <1>11, <1>12, <1>13,
     <1>14 DEF Next

\* An SLOAD gets the value that was last stored in the slot, by whichever frame and
\* however deep the calls, in a transaction that calls no contract twice and sets no
\* slot to zero: whatever mixture of calls, delegates, static calls and failures lies
\* between the store and the load.
THEOREM LoadsAreFresh == Spec => []ReadsLastStore
<1>1. Init => ReadInv /\ ReadsLastStore
  BY DEF Init, ReadInv, ReadsLastStore, Running, NothingSeen
<1> QED
  BY InitIsTyped, StepIsTyped, StepKeepsReads, <1>1, PTL DEF Spec

===============================================================================
