------------------------------ MODULE SrfsCache ------------------------------
(***************************************************************************)
(* SRFS_CACHE of ovc_exec: one fixed array of slots which keeps both the   *)
(* files read from the ESP on demand (fonts, images, cursors) and the      *)
(* files the applications write (pending transactions, receipts, the       *)
(* environment's index, the files of the desktop), which are nowhere else. *)
(*                                                                         *)
(* SRFS_AGE is modelled by the rank of each slot's last touch among all:   *)
(* a slot never touched has age 0, and the first of those is the oldest.   *)
(***************************************************************************)
EXTENDS Naturals, Sequences

CONSTANTS
  NSlots,   \* slots of the cache, 32 in the code
  Fonts,    \* paths that end in .ttf
  Assets,   \* other paths that are on the ESP
  Chain,    \* paths that contain "chain": pending transactions, receipts, balances
  Written,  \* other paths the applications write
  Entries,  \* what an update adds to a file: a field's value, a line of the index
  None      \* an empty slot

\* what the applications write is not on the ESP
ASSUME PathsAssumption ==
  /\ NSlots \in Nat /\ Fonts \cap (Assets \cup Chain \cup Written) = {}
  /\ Assets \cap (Chain \cup Written) = {}
  /\ None \notin [path : Fonts \cup Assets \cup Chain \cup Written, data : SUBSET Entries]

VARIABLES
  cache,    \* SRFS_CACHE
  rank,     \* 1 for the slot touched longest ago, NSlots for the last one
  held,     \* <<slot, path>> of the font pointers the renderer has
  writes,   \* history: times a path was written, 2 for more
  wrote,    \* history: what the last write of a path had
  crowded   \* history: has a file come when no slot was empty

srfsVars == <<cache, rank, held, writes, wrote, crowded>>

Slots == 1..NSlots
Paths == Fonts \cup Assets \cup Chain \cup Written
Own == Chain \cup Written
File == [path : Paths, data : SUBSET Entries]

SrfsInit ==
  /\ cache = [i \in Slots |-> None] /\ rank = [i \in Slots |-> i]
  /\ held = {} /\ crowded = FALSE
  /\ writes = [p \in Own |-> 0] /\ wrote = [p \in Own |-> {}]

Filled == {i \in Slots : cache[i] # None}
Empty == Slots \ Filled
First(S) == CHOOSE i \in S : \A j \in S : i <= j
Touched(i) ==
  [j \in Slots |-> IF j = i THEN NSlots ELSE IF rank[j] > rank[i] THEN rank[j] - 1 ELSE rank[j]]

\* srfs_find and srfs_read_chain_file: the first slot with the path
Having(p) == {i \in Filled : cache[i].path = p}
ReadFile(p) == IF Having(p) = {} THEN {} ELSE cache[First(Having(p))].data

\* srfs_register_file: an empty slot, else the slot touched longest ago whose
\* path is no font's, else nothing is stored
Evictable_Any == Filled
Evictable == {i \in Filled : cache[i].path \notin Fonts}
Registered(i) ==
  IF Empty # {} THEN i = First(Empty)
  ELSE i \in Evictable /\ \A j \in Evictable : rank[i] <= rank[j]

\* srfs_load_on_demand of a path that is in the cache, and FontLoad before it
Hit(p) ==
  \E i \in Slots :
    /\ Having(p) # {} /\ i = First(Having(p))
    /\ rank' = Touched(i)
    /\ held' = IF p \in Fonts THEN held \cup {<<i, p>>} ELSE held
    /\ UNCHANGED <<cache, writes, wrote, crowded>>

\* ... and of one that srfs_uefi_read finds on a volume of the firmware
Load(p) ==
  /\ Having(p) = {} /\ p \in Fonts \cup Assets
  /\ \E i \in Slots :
       /\ Registered(i)
       /\ cache' = [cache EXCEPT ![i] = [path |-> p, data |-> {}]]
       /\ rank' = Touched(i)
       /\ held' = IF p \in Fonts THEN held \cup {<<i, p>>} ELSE held
  /\ crowded' = (crowded \/ Empty = {})
  /\ UNCHANGED <<writes, wrote>>

\* srfs_write_chain_file: an empty slot, whatever the path, else the first slot
\* whose path contains "chain", whoever wrote it; the slot's age is not touched
Overwritable(c) == {i \in Slots : c[i] # None /\ c[i].path \in Chain}
Put_OverChain(c, p, data) ==
  LET S == Overwritable(c) \cup {i \in Slots : c[i] = None}
  IN IF S = {} THEN c ELSE [c EXCEPT ![First(S)] = [path |-> p, data |-> data]]
Put(c, p, data) ==
  LET empty == {i \in Slots : c[i] = None}
      S == IF empty # {} THEN empty ELSE Overwritable(c)
  IN IF S = {} THEN c ELSE [c EXCEPT ![First(S)] = [path |-> p, data |-> data]]

Count(w, p) == [w EXCEPT ![p] = IF @ = 0 THEN 1 ELSE 2]

WriteFile(p, data) ==
  /\ cache' = Put(cache, p, data)
  /\ writes' = Count(writes, p) /\ wrote' = [wrote EXCEPT ![p] = data]
  /\ crowded' = (crowded \/ Empty = {})
  /\ UNCHANGED <<rank, held>>

\* CaWriteFile, BlockchainQueueCall, BlockchainQueueDeploy, create_entry
Write(p) == \E e \in Entries : WriteFile(p, {e})

\* CaUpdateField and CaUpdateNestedField: the field's value replaces the old one
UpdateField(p) ==
  /\ Having(p) # {} /\ ReadFile(p) # {}
  /\ \E e \in Entries : WriteFile(p, {e})

\* EnvAppendIndex: the index that is read, with one more line
AppendIndex(p) == \E e \in Entries : WriteFile(p, ReadFile(p) \cup {e})

\* BlockchainQueueTx: the transaction is written, then executed at once against
\* the ABI of the bundle when the ESP has it, and its receipt written
QueueTx(tx, receipt) ==
  /\ tx # receipt
  /\ \E e \in Entries, hasBundle \in BOOLEAN :
       LET queued == Put(cache, tx, {e}) IN
       IF hasBundle
       THEN /\ cache' = Put(queued, receipt, {e})
            /\ writes' = Count(Count(writes, tx), receipt)
            /\ wrote' = [wrote EXCEPT ![tx] = {e}, ![receipt] = {e}]
            /\ crowded' = (crowded \/ Empty = {} \/ \A i \in Slots : queued[i] # None)
       ELSE /\ cache' = queued /\ writes' = Count(writes, tx)
            /\ wrote' = [wrote EXCEPT ![tx] = {e}]
            /\ crowded' = (crowded \/ Empty = {})
  /\ UNCHANGED <<rank, held>>

\* the counter of BlockchainGenTxId makes the paths of a transaction new
SrfsNext ==
  \/ \E p \in Fonts \cup Assets : Hit(p) \/ Load(p)
  \/ \E p \in Written : Write(p) \/ UpdateField(p) \/ AppendIndex(p)
  \/ \E tx, receipt \in Chain : writes[tx] = 0 /\ writes[receipt] = 0 /\ QueueTx(tx, receipt)

SrfsSpec == SrfsInit /\ [][SrfsNext]_srfsVars

-----------------------------------------------------------------------------
(* Properties.                                                             *)

SrfsTypeOK ==
  /\ cache \in [Slots -> File \cup {None}] /\ rank \in [Slots -> Slots]
  /\ held \subseteq Slots \X Fonts /\ crowded \in BOOLEAN
  /\ writes \in [Own -> 0..2] /\ wrote \in [Own -> SUBSET Entries]

\* A font that the renderer holds by its pointer stays in its slot, however many
\* files are loaded and written after it.
FontsStay == \A h \in held : cache[h[1]] # None /\ cache[h[1]].path = h[2]

\* A file that was written once is read as it was written as long as no file ever
\* came to a full cache: a transaction's receipt does not replace the transaction,
\* and an asset replaces neither.  A file written twice is read as it was at first.
WrittenOnceIsRead ==
  ~crowded => \A p \in Own : writes[p] = 1 => ReadFile(p) = wrote[p]
=============================================================================
