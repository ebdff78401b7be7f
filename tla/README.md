# slura-chain: specification, model checking and proofs

slura-chain is a sidechain of Bitcoin written in Rust: a task that makes one
Slura block for each Bitcoin height, a bridge that watches Bitcoin for
deposits, an EVM interpreter over a key/value store, a JSON-RPC node that
sends transactions, deploys contracts and keeps receipts, and a small kernel,
Lunée, that boots from UEFI and runs the chain's desktop. This directory holds
TLA+ models of these parts, the TLC configurations that check them, and TLAPS
proofs about most of them. Paths below are relative to `src/crates/`; line
numbers are those of the modelled commit and are listed per definition in
`PROJECT.json`.

## 1. Inventory

The node (`vuc-platform/src/engine_platform.rs`, `main` at 4217) is one tokio
process. Its tasks share objects behind `Arc<RwLock<..>>` and one RocksDB. The
kernel (`vuc-core/lunee-ker`) is another program with a single thread and no
heap worth the name: fixed arrays, caches and files on the boot volumes.

| Part | Where | State | Operations | Hard because |
|---|---|---|---|---|
| Block sequencer | `vuc-platform/src/consensus/lurosonie_manager.rs` 202-556 | chain, last hash, mempool, last Bitcoin height (local and in RocksDB), block channel | poll the head, produce, publish, push, store, send, clear the mempool, check, save the height | a dozen awaits between reading the number and parent of a block and appending it; each step can fail or be the last before a crash; the channel is never drained |
| Validator power, delegation, rotation | same, 299-350, 558-831, 923-984 | relay power, delegated stake, validator states | stake, delegate, rotate | nine locks that seventeen functions take in different orders; answers of the VM read as numbers |
| Bitcoin bridge, deposits | `vuc-bridge/src/lib.rs` 120-307 | deposits by txid, VEZ contract | watch blocks, register deposits, mint | three dependent calls to a node whose chain is reorganised and whose backends lag; a lock taken twice |
| Bitcoin bridge, anchors | same, 188-222 | none | `get_block_anchor` | one record from three calls |
| EVM interpreter | `vuc-reader/src/uvm/runtime/src/interpreter.rs` 1025-4300 | per call: stack, memory, a copy of all storage, a write set | some 150 opcodes; CALL, DELEGATECALL and STATICCALL recurse | four layers of storage that have to agree; signed arithmetic through an i64; sizes taken from 256-bit words |
| VM and optimistic engine | `vuc-tx/src/slurachain_vm.rs` | accounts, modules, world state, versions, active transactions | load storage, execute, validate, commit, persist | versions and write sets that outlive their batch |
| Calls and deployments | `slurachain_vm.rs` 1044-1830, `engine_platform.rs` 161-278 | an account's code, and a module for it in each of two VMs | deploy, restore, name a function, execute it | the second VM learns of a contract when it first runs it; functions are found by searching bytes |
| Transaction pipeline | `engine_platform.rs` 161-278, 926-949, 1124-1319, 1407-2000, 4467-4480, 5110-5245 | accounts, receipts, nonces | send, deploy, receipts, periodic save, shutdown, restart | three kinds of durable entries written by different tasks at different times, saves skipped when a lock is busy |
| P2P synchronisation | `engine_platform.rs` 4518-4885 | peers, accounts | discovery, handshake, rounds, merge of state deltas | a read guard alive while the write lock is awaited (4648); datagrams that are lost, peers that stay silent |
| eBPF runtime | `vuc-reader/src/uvm/runtime/src/` (other files) | a machine's program, verifier, metadata buffer, compiled code | verify, compile in two ways, build, disassemble, assemble | two compilers, a verifier and three text forms that have to mean the same instruction |
| Lunée kernel | `vuc-core/lunee-ker/src/` | caches of files and of decoded assets, windows, dock and menus, modules and their queues, the screen | boot, install, run a module, draw | fixed caches behind handles that nobody invalidates; state that outlives a frame; power cuts |
| JSON-RPC | `engine_platform.rs` 2346-3840, `slurachain_rpc_service.rs` | none | about sixty handlers | mostly read, parse and format; some ask the consensus manager several times while blocks are appended, and a block has four hashes |
| Storage | `vuc-storage/src/storing_access.rs` | RocksDB | put, get, delete, list | single-key atomicity only |
| Merkle tree | `vuc-tx/src/slura_merkle.rs` | none | root of the accounts | pure |
| Governance, shared types, crypto | `slurachain_gov.rs`, `vuc-types`, `vuc-events`, `vuc-core/src/service`, `operator` | counters | small | no callers, or pure |

How they interact. The consensus task polls Bitcoin through `getblockcount`,
asks the bridge for an anchor per block, reads the VM to find VEZ, and shares
its chain and mempool with RPC handlers. RPC handlers, the deployment tasks and
the peer listener share the VM's lock; handlers and the saver share the
receipts' lock, and the periodic save takes both with `try_read` and skips when
it cannot. The interpreter runs under `vm.write()` and writes to RocksDB
directly. Everything a crash leaves is single keys in RocksDB. The kernel shares
no state with the node: its applications write transactions to files.

What makes each part correct: the chain is linked, ordered and never repeats
a height, a height once reported is handled, and no operation is lost
(sequencer); deposits called confirmed stay on the chain, the watcher follows
and answers (bridge); what the handlers tell of blocks and operations fits together,
and no task waits for ever for a lock (manager); a call runs the code its contract was
given (calls); an anchor describes one block (anchors); a transaction's
stores happen all or not at all, and loads see the last store (EVM calls); words
agree with the integers, limits are kept, no program brings the process down
(instructions); a batch leaves what a serial execution would (engine); an answered
transaction survives, nonces are not given twice, VEZ is deployed exactly once,
a restart finds what was deployed (pipeline); the VM serves its users and rounds
end whatever peers do (peers); a verified program stays inside itself and both
compilers compute what the instruction set says (eBPF); a handle denotes what it
was given for, what is drawn is where it belongs, and every boot and run ends
(kernel). `PROJECT.json` lists the hazards, each at its line with the properties
that cover it or why none does.

## 2. Modules

| Module | Models | Checked by | Proofs |
|---|---|---|---|
| `SidechainLedger` | abstract: a ledger that extends, saves a watermark and restarts | `ImplementsLedger` | refinement |
| `Sequencer` | the consensus task, mempool, chain, RocksDB, readers | `MCSequencer`, `MCManager` | `SequencerProofs` |
| `RpcReads` | the handlers that look for blocks, operations and receipts while the chain grows | `MCManager` | `ManagerProofs` |
| `ManagerLocks`, `NodeLocks` | the guards each function awaits and drops; the node's tasks and handlers over fair locks | `MCManager` | |
| `BitcoinNode` | external: best chain, reorganisations, lagging and failing calls | through the two below | `BitcoinProofs` |
| `BitcoinBridge` | the deposit watcher and its callers; extends `BitcoinNode` | `MCBitcoinBridge` | `BitcoinProofs` |
| `BlockAnchor` | `get_block_anchor`; extends `BitcoinNode` | `MCBitcoinBridge` | `BitcoinProofs` |
| `EvmCalls` | frames, copies of storage, RocksDB, one transaction at a time | `MCEvmCalls` | `EvmCallsProofs` |
| `TxPipeline` | senders, VEZ task, periodic save, receipts, restart | `MCTxPipeline`, `MCContracts` | `ContractsProofs` |
| `VmDispatch` | deployments at one address, the modules of two VMs, and how a call finds its code | `MCContracts` | `ContractsProofs` |
| `PeerSync` | discovery, listener, rounds, the start of the consensus, the VM's lock | `MCPeerSync` | `PeerSyncProofs` |
| `ParallelEngine` | batches executed by clones of the VM, write sets, commit | `MCVm` | `VmProofs` |
| `EvmLimits`, `EvmAlu`, `EvmFrame` | limits and widths; the arithmetic; stack, memory and program counter of a frame | `MCVm` | `VmProofs` |
| `EbpfProgram`, `EbpfVm`, `EbpfWords`, `EbpfText` | the verifier and the control flow of compiled code; the calls that change a machine; both compilers' instructions; the forms of one instruction | `MCVm` | `VmProofs`: `EbpfProgram`, `EbpfVm` |
| `VmParts` | of the VM's modules all but `EbpfWords` and `EbpfText`, one at a time | `MCVm` | `VmProofs` |
| `SrfsCache`, `AssetHandles` | the kernel's cache of files, and the caches behind handles | `MCKernel` | `KernelProofs` |
| `Desktop`, `GpuCanvas` | the frame loop with windows, dock and menus; the pixels of the drawing calls | `MCKernel` | `KernelProofs` |
| `OvcRun`, `OvcIr` | how an application's modules are run; the instructions they consist of | `MCKernel` | `KernelProofs`: `OvcRun` |
| `KernelBoot` | the boot, the bundles and their installation | `MCKernel` | `KernelProofs` |
| `KernelParts` | the kernel's modules but `OvcIr`, one at a time | `MCKernel` | `KernelProofs` |

`MCManager`, `MCBitcoinBridge`, `MCContracts`, `MCVm` and `MCKernel` check several
parts that share no state: a variable `part` chooses one at the start and the others
keep their initial state, so a behaviour is one of a single part. The parts do not
interact in the code either, or only through what each model already leaves to choice:
what the consensus does to the handlers' answers, say, `RpcReads` has as steps of its
own. The kernel's composition is `KernelParts`, which `MCKernel` extends by `OvcIr`; the
VM's is `VmParts`, which `MCVm` extends by `EbpfWords` and `EbpfText`.

### Sequencer

`pc` is the await the consensus task is at: `boot` (system validator), `load`
and `calibrate` (persisted height, first `getblockcount`), `poll`, `next`
(per height), `publish`, `push`, `store`, `send`, `remove`, `bft`, `save`. Each
action is the code from one await that another task can observe to the next.
`cursor` and `target` are `last_processed_btc_height + i` and
`current_btc_height`; `draft` is `block_data`. `dbHeight` and `dbBlocks` are the
RocksDB keys `lurosonie:last_btc_height` and `lurosonie_block:N`; `Crash` keeps
them and resets all else, which is what `new_with_storage` does. A digest is the pair of
the block and the fields serialised, so the code's two ways of hashing a block
differ exactly where their field lists do. `Faults` selects which failures
occur: `rpc` (getblockcount), `store` and `read` (RocksDB), `vm` (a call
to the VEZ contract), `crash`. Operations are members of `Txs` with a `Sender`; the
two keys the mempool uses are modelled as what they depend on.
`SidechainLedger` states what all this is for; the refinement maps `blocks` to
`chain`, `root` to this process's genesis hash and `watermark` to `dbHeight`.

The VM answers `balanceOf` with a member of `Answers`: numbers, or the `Object` that the
interpreter of today's code returns and `as_u64` does not read. With the `Object` alone
every block is refused, and what follows an accepted block is not reached; what the runs
say of it is of the code as it is written, once the answer is a number.

### RpcReads, ManagerLocks, NodeLocks

`RpcReads` has the handlers that ask the consensus manager several questions and hold no
lock between two of them: `eth_getBlockByNumber` and `ByHash`, the status of operations,
the receipts that `send_transaction` and `eth_sendUserOperation` leave. `calls` is one
record per RPC call in flight: what it does, the question it is at, and what it was told.
A hash is the name of the list of fields that were hashed and the stamp of the block:
the one published when the block is appended, the one the manager searches by, and
those told by number and by hash are four names. The block's own steps and restarts
are those of `Sequencer`, cut down to what a reader sees.

`ManagerLocks` writes each function of the manager as the sequence of the guards it
awaits, each with the guards that are dropped before the next await; `NodeLocks` adds the
node's handlers and runs the tasks: the consensus, the metrics, the announcer of new
operations, `main`, and the RPC handlers. A function is cut into segments between
points where it holds nothing; a task runs its segments in any order (`Call`), asks
(`Ask`), is granted (`Grant`), skips an optional await (`Skip`) or gives up at a timeout
(`GiveUp`). A lock is tokio's: fair, a reader behind a waiting writer. TLC runs it with
one handler, and `LocksAreGranted` (section 4) is of any number of them. Of the locks, the receipts, the VM, the accounts, the history, the leader, the
balances and the last hash lie on no cycle of who waits for whom, so a circle can only
go through validators, delegations, chain, mempool and its channel, where the tasks of
the manager itself stand. `dormant_calls` are functions without callers: with
`sync_from_database` among them, the chain's writer between `get_lurosonie_stats` and
`get_network_metrics`, and the consensus's writer of the validators, would close one.

### BitcoinNode, BitcoinBridge, BlockAnchor

A Bitcoin block is the sequence of branch choices that leads to it, so its
height is its length, its parent its `Front`, and a reorganisation replaces a
suffix of `best` of at most `MaxReorg` blocks. `Counts` are the answers
`getblockcount` may give: up to `MaxLag` behind the head. The bridge's watcher
goes through `poll`, `hash`, `txs`, `check`, one RPC call each; `check` handles
one output per step, under the deposits' write lock. `mint` is where
`mint_vez_for_deposit` waits for the lock its caller holds: no action leaves it.
The source's six confirmations are `MinConf`. `BlockAnchor` has one action per
call of `get_block_anchor` and keeps the anchors of the last two Slura blocks.
The Merkle root, obtained by a fourth call by hash, is left out.

### EvmCalls

A frame is a recursive call of `execute_program`: its `kind`, the contract whose
storage it uses, its caller, `ws` (its copy of `world_state.storage`), `writes`
(`temp_storage_writes`), and two history fields: `before`, the reference storage
when it began, and `flushed`, the contracts written to RocksDB since. `storage`
is a reference: what the EVM prescribes after the operations performed so far,
with the failed frames undone. The program is nondeterministic: at every step the
top frame may load, store, call, return or fail. `Fail` stands for REVERT and for
every error exit; `Crash` may fall between any two writes of `PersistSlot`. `WithOwner`
is `ensure_contract_owner_initialized`, which every frame starts with.

### TxPipeline

`procs` holds one record per task: where it is, its transaction, and for the
saver what it has yet to write. `vm` and `writing` name the holder of the VM's
and receipts' locks across awaits. RocksDB is `dcode`
(`account:{a}:contract_state`), `record` (`account:{a}`) and `stored`
(`receipt:{hash}`). Locks held only between two awaits that nothing else can
observe are part of one action. A receipt keeps its sender, its nonce and
whether the client had provided that nonce ahead of the count.

### VmDispatch

One address, any deployments to it. `account` is the code of the account in memory,
`kept` in RocksDB, and `recorded` whether a save wrote the account; `nodeModule` is what
the node's VM has parsed, `engineModule` what the engine's clone has. `Deploy` is a
deployment as `send_transaction` makes it; `CutDeploy` one that the end of the process
falls into; `RecordAccount` the periodic save; `RestartVm` a restart; `NameCall` the
`eth_call` that names a function, `RunCall` the engine that executes it, `CallByName`
the manager's own calls by a function's name. Programs are sequences of bytes (`Bytes`),
and the searches that find selectors, entries and dispatchers in them are those of the
code: what a compiler means by its bytes (`Dispatches`) is stated apart, from solc's
dispatcher.

### PeerSync

Each node has a table `known` of addresses, the place of its proactive task (`sync`:
idle, between peers, waiting for a pulse or for the reply to a request), the place of
the synchronisation `main` makes before it starts the consensus (`start`), and the lock
on its VM (`asked`, `vmHeld`). `talks` are the exchanges of datagrams: one discovery
starts one, which lives on in its last datagram. Foreign peers speak what no code here
sends: they answer pulses and requests and push blocks and state deltas. `ApplyDelta`
is the handler that still holds the read guard when it asks for the write guard: no
action gives the VM to anybody afterwards. Every wait has a timeout, which may elapse
at any moment.

### ParallelEngine

`execute_parallel_batch` with its clones: `db` is RocksDB, `cached` the world state the
clones work on, `active` the write sets of all transactions ever entered, `ref` what a
serial execution leaves. A value is the set of transactions it depends on, so that two
histories of a slot never look alike. Transactions of a batch run in any order under
the engine's mutex; the commit walks all of `active` in the order of their ids.
`execute_module`, the only caller, makes batches of one; the model also has larger
ones, and `ordered` says whether a batch ran in the order of its ids.

### EvmLimits, EvmAlu, EvmFrame

`EvmAlu` executes operations on a stack of words of `Bits` bits, of which the signed
ones see the `LowBits` low bits as an i64 does; properties compare the results with the
integers. `MulModSafe` is the code's loop, its rounds a function of their number; `Power`
has the powers of two of a word. `EvmFrame` abstracts the words: an operand may be any of `Operands`,
some above `SizeTop` (`usize::MAX`), and what matters is the depth of the stack, the
length of the memory, and where the instruction leaves the counter (`at`: "next",
"same" after a `continue`, "skipped", "target"). Instructions with one shape are
one action over a set of names. A frame may run any program: the next instruction is
any, but after "same" it is the same again. A sum of 64 bits wraps, as in the release
build that the `Dockerfile` makes, and one of 256 bits panics in every build. What the
FFI_CALL reads at an address that an operand gives may be there or end the process.

### EbpfProgram, EbpfVm, EbpfWords, EbpfText

`EbpfProgram` keeps the kind and offset of each instruction. A program grows, the
verifier takes or refuses it, the JIT lays it out in a page, and its machine code runs
with local calls. `status` "lost" is where the processor may execute anything: a helper
was called (`HelperCall`: the address in the code is that of the closure's data), a load
or store met what is not the program's (`AccessOutside`), the native stack was full, or
the code ran off its end. `EbpfVm` has the calls that change a machine, in any order: which
program, verifier and calculator, which offsets, and what `jit` and `usage` were made
from. `EbpfWords` is one instruction, on words of `2 * Half` bits, under each compiler:
`jitted` is what the emitted x86 does to registers, flags and memory, `craned` what the
built Cranelift code does. `EbpfText` takes one instruction from its builder to bytes,
fields, text, and through the assembler back to fields.

### SrfsCache, AssetHandles

The kernel has one array of files. `cache` and `rank` are the slots and the order of
their last touches, `held` the fonts that the renderer points at, `crowded` is set
once a file came to a full cache. `AssetHandles` has the caches whose slot numbers are
handed out: images (the oldest load gives way), scaled copies (found by the address of
the pixels they were made from; an allocator may give an address out again), and
vector drawings and cursors (freed by their holders, the first slot recycled when
full).

### Desktop, GpuCanvas

One frame of the desktop is one action: pointer and keyboard, one run of the launcher
with the calls it makes, the copy. The screen of the desktop is a row of places, the
icon of an application a place. `blind` remembers the applications that a menu or a
program launched beside their own window (`MenuLaunch`). `GpuCanvas` computes the set of pixels of one drawing
call on a small screen, in the fixed point of the code (rotations are in tenths, chosen
exact), with the transform, the opacity and the clips that outlive a call. The calls
that test each pixel are written with that test; the turned ones, the blurs, the frosted
panels and the built-in text (`TextCells`) are the pixels they walk over.

### OvcRun, OvcIr

`OvcRun` is a run: the queue of constructors, `OEntry`, `frames` with how many blocks
and calls each has used, the caches of parsed constants and blocks. What the program
does is left to choice. A run may start another inside itself, whose calls count from 0:
`Composite` runs a window's modules when there are any (`filled`), `DrawText` a function
of the fonts' modules (`fonts`); `below` holds the runs that wait, and `overrun` says
that the kernel's stack, which has room for `MaxNested` of them, is used up. `OvcIr` executes one instruction of LLVM's text on registers
wider than its type, next to LLVM's meaning, and a pair of phis.

### KernelBoot

`stage` is where the boot is. `media` says what each volume holds of each bundle,
`files` what was installed where, as the sequence of chunks each file consists of, each
with the version of the bundle it came from; `dirs` are directories that exist.
Power may go before any action; the next boot may bring another version of the
medium.

## 3. Runs

"Violation" runs show that something a comment or doc says is not what the code
does; each is a finding in `PROJECT.json`.

| Run | Question | Result |
|---|---|---|
| `seq_chain` | is the chain linked, ordered, never repeating a saved height, and an implementation of the ledger, under a crash and every fault but failed reads; are the handlers' answers linked, complete and never behind, whatever is appended meanwhile; does every task get the locks it asks for? | holds, within the exits below |
| `seq_durable` | with operations arriving at any moment and a crash at any point: does the saved height cover all heights, do memory and RocksDB agree, is any operation lost, is each height eventually handled while the channel has room? | holds |
| `seq_x_mempool` | once `balanceOf` is answered with a number: do a block's operations leave the mempool (471)? | violated: inserted by hash, removed by `from:to:value:nonce`. Latent at this commit, where no block is accepted (`seq_x_stake`) |
| `seq_x_stall` | once `balanceOf` is answered with a number: does production go on (`SEQUENCEUR_SIDECHAIN.md:10`)? | violated: the channel's receiver is never received from. Latent at this commit in the same way |
| `seq_x_stake` | does the stake count (`lurosonie_manager.rs` 326)? | violated: the interpreter answers with an object, which is read as no number, so the validator's power is 0 and every height is refused. The other runs also take a VM that answers a number |
| `bridge_parts` | do confirmed deposits stay, does the watcher follow the head and are readers answered; is an anchor one block, and are successive anchors linked but for reorganisations at their seam? | holds, until a contract is set |
| `evm_calls` | are a transaction's stores all or nothing, and do loads see the last store? | holds, within the exits below |
| `tx_sends` | do answered receipts survive, are nonces new, is VEZ deployed once, are the locks always releasable; does a call run the code its contract was given, over two deployments, a crash in a constructor and a restart? | holds, within the exits below |
| `tx_x_restore` | are all deployed contracts restored (1176)? | violated by a crash before the next save |
| `peers` | is the VM served, do rounds end and the consensus start, whatever peers send or do not send; what ends an exchange of pongs? | holds until a state delta arrives; only a loss |
| `vm_parts` | does a batch leave what a serial execution would; do the operations agree with the integers; does a frame stay in its limits, end only by what is named, and get past what it repeats; does a verified eBPF program stay inside itself, is what runs what was checked, do the compilers agree with the instruction set and the forms of an instruction with each other? | holds, within the exits below |
| `kernel` | do handles, fonts and files denote what they were given for; are windows, menus and pixels where they belong; do modules run in order and their instructions mean what LLVM says; does an installation survive power cuts; does every run and boot end, or use up the stack? | holds, within the exits below |

`AnswersHold`, `CallsFindCode`, `NodesGoOn`, `BridgeGoesOn`, `EbpfSound`, `AssetsHold`,
`ScreenSound`, `StartsSound` (runs and boots), `WordsAgree` (what is computed from words)
and `ValuesAgree` (instructions and turned rectangles) are conjunctions of properties that
are stated, each with its comment, in the modules of the parts.

Exits. Some properties hold only outside cases in which the code itself
does not keep them (each is listed as a hazard); the cases are history variables or
fields, so that the model contains them and the property says where it stops:

- `EvmCalls.broken`: a frame failed, or the process died, after part of what it
  did was in RocksDB (a returned sub-call writes at once, interpreter.rs 3043),
  or a re-entered contract wrote below its caller's pending store of the same
  slot. From then on storage is not what the EVM prescribes.
- `EvmCalls.again`, `zeroed`: a contract was called twice (the outer frame keeps
  its stale copy), or a slot was set to zero (SLOAD looks it up in RocksDB again,
  2308).
- `TxPipeline.early`: a save recorded VEZ after its account was inserted and
  before its constructor had returned; if the deployment does not complete, the
  VEZ task sees the record and never deploys it again.
- `TxPipeline.again`: VEZ was deployed a second time because no save had recorded the first.
- a receipt's `ahead`: the client provided a nonce above the count.
- `NodeLocks`: the mempool's channel is full (its sender keeps the mempool's lock, a call
  that keeps the chain's may await that, and the task that empties the channel awaits the
  chain's); or a task asks to write what it reads itself (`validate_transaction`, the
  import of a state delta).
- `VmDispatch`: the engine holds another program of the same length (it compares
  lengths only); a selector starts with a zero byte; a deployment that failed left its
  creation code, or a reverted constructor its data, as the contract's code; a runtime
  of at most 32 bytes is taken for a word, and the creation code kept instead; a creation
  code that is text, or shorter than ten bytes, is taken for something else.
- `BitcoinBridge.vezContract`: once a contract is set, the first confirmed deposit
  stops the watcher for ever. No code in the program calls `set_vez_contract`.
- `PeerSync`: a state delta leaves the VM waiting for itself (4648).
- `ParallelEngine.ordered`: a batch of several transactions ran out of order, or
  a crash fell among its commits. Batches of one, which are what the program makes, never clear it.
- `EvmAlu.InI64`: signed operands outside the i64 they go through change; a division
  whose quotient leaves it ends the process. `EvmFrame.Unchecked` names the
  instructions that may end the process: by an index outside the memory, by a sum of two
  words (the four copies print one, CODECOPY at 1894), or by an address (FFI_CALL).
- eBPF: code compiled before `set_program` or before new offsets is stale; the JIT's
  32-bit move and Cranelift's jumps on 64-bit words differ from the
  instruction set; the properties name these operations. A call of a helper, a load or a
  store, a local call on a full native stack, and a last conditional jump or local call
  may leave the program's code (`EbpfProgram!RunsInside`). A local call into the second
  half of a `lddw` restarts the program. Texts with negative numbers, names the
  assembler does not have and a jump offset of the smallest i16 do not read back.
- `SrfsCache.crowded`, `AssetHandles.reused`, `recycled`: a file came to a full cache;
  an address was allocated again; a kind of vector handle was recycled. A file written
  twice is read as first written.
- `GpuCanvas`: a blur that is not turned, and a text in the built-in font, of a rectangle
  partly outside the screen, write outside it.
- `Desktop.blind`: `WindowManLaunch` (7603) looks for no window of the application; the
  launcher looks before it launches an icon, a menu's item or a program need not.
- `OvcRun.overrun`: runs started inside runs are counted by no limit. A window that
  composites itself is dirty until the run inside has ended (7695), so it never stops;
  a font's function that draws text likewise.
- `OvcIr`: unsigned division, logical shift and zero extension of a negative i32, a
  comparison with `samesign`, and a phi that reads the one before it.
- `KernelBoot.failed`: a write failed.

### Divergences noticed without a run

Where the code differs from a comment, a doc or its own names, and no run is spent on it:

- Node: a block's hash is recomputed from four of its eight fields
  (`lurosonie_manager.rs` 506); when two Bitcoin blocks arrive between polls only the
  higher is watched (`vuc-bridge/src/lib.rs` 127), and a lagging backend makes the last height go
  back (126); a CALL to a contract whose owner is only in RocksDB replaces its owner
  (`interpreter.rs` 367); the first synchronisation reports success with nobody
  reached (`engine_platform.rs` 4935).
- Handlers: "Hash réel du bloc (déterministe)" names one of four different hashes of a
  block, and none of those told finds the block again; the receipt made up for an unknown
  transaction says success (`engine_platform.rs` 2055); `eth_blockNumber` and tags up to 1
  answer a fixed block 1; receipts of user operations stay "pending"; `eth_getStorageAt`
  reads `storage_{slot}` resources that nothing writes; `sync_from_database` is never
  called, and would start at `lurosonie_block:0`, which is never written.
- Calls: the markers of solc's metadata are compared as ASCII and never match;
  `expect("REASON")` panics under `vm.write()`; an `eth_call` whose contract has no module
  in the node's VM becomes a transfer of VEZ; `find_function_offset_in_bytecode` takes GT
  and LT the other way round than solc's dispatcher has them.
- Interpreter: MCOPY of nothing executes the same instruction again (`interpreter.rs`
  2539), and a STATICCALL's stores are made and then dropped, where a comment says that
  there are none (4122).
- Kernel: "each module parsed once" (`ovc_exec.rs` 3427) ends with the eighth module;
  clips are stacked and never used;
  `mod_refs` gives no modules (`main.rs` 77), so no window's content is run and
  `WindowManRenderAndComposite` says of the run inside that it is "sans risque" (7658); `esp_write_file` ("Crée ou écrase le fichier") keeps
  the tail of a longer file; the boot screen's application appears in the dock from
  the second boot; an application without assets gets its manifest on every volume;
  bundles without an asset list share the folder "App"; an invalid bundle on the first
  volume hides a good one on the second, and an image that cannot be read ends the
  search for it; `bsd_acpi_scan` checks no signature of the table it follows.
- eBPF: "EXIT" is required as the last instruction and any jump is accepted; the
  verifier and the compilers panic (`unimplemented!`) at tail calls; the JIT
  panics on programs longer than a page (TODO at `jit.rs` 20), ignores the stack that functions use, and gives a local function
  its caller's stack; `stack_validate` counts helper calls as local ones; `insn()` tests
  `dst < 0` where it means `src`; registers above 15 leak into the other nibble. The `cranelift` feature does not appear
  to compile at this commit (`cranelift.rs` 80, `lib.rs` 903): its part is read as it is
  written. Builds for other systems than unix do not make the JIT's page executable
  (`jit.rs` 1044).

### Bounds

| Constants | Values | Why enough |
|---|---|---|
| `MaxHead`, `MaxCrashes` | 2-4, 0-1 | three heights give a first, middle and last block, two heights behind one poll, and a crash between any two steps |
| `ChannelCap` | 4, 8; 1 in `seq_x_stall` | the code's 100 scaled: enough for all blocks, or too little |
| `Txs` | none, 1 or 2, of one sender | two operations with one composite key; empty where the question is not about the mempool |
| `Ops`, `Sent`, `Asking`, `MaxBlocks`, `MaxRestarts` (reads) | 1, 1, 1, 3, 1 | an operation and a transaction of each kind, one call that asks: calls do not change what others see. Three blocks: the fixed one, its child, and one appended meanwhile |
| `Handlers`, `Room` | 1, 1 | see above; a channel with room and without |
| `MaxHeight`, `MaxReorg`, `MaxLag`, `Branches` | 4, 2, 1, 2 | heights before, at and after a fork; a reorganisation of a whole anchored pair |
| `MinConf` | 3 | the code's 6 scaled, kept above `MaxReorg`: a reorganisation deeper than the required confirmations defeats any bridge |
| `MaxDepth`, `MaxSteps`, `Contracts`, `Slots`, `Values` (EvmCalls) | 3, 6, 3, 1, 2 | a caller, a callee and the callee's callee, each with a store and a load after a return; slots do not interact. Contracts are interchangeable, hence the symmetry |
| `MaxTx`, `Clients`, `Contracts`, `Provided`, `MaxCrashes` | 2, 1, 2, {none, 1}, 1 | a second task already sends as the same validator; two senders race for one count |
| `MaxDeploys`, `MaxReboots`, `Deployments` (calls) | 2, 1, 10 | a program after another of the same or another length, with and without a restart; every way a constructor ends, and the creation codes that are taken for something else |
| `Nodes`, `Foreign`, `MaxTalks` | 2, 1, 1 | two nodes of this program that find each other, and one that says anything; exchanges do not interact |
| `MaxBatch`, `MaxTx`, `Slots` (engine) | 2, 4, 2 | a batch in both orders after one whose write sets it commits again |
| `Bits`, `ByteBits`, `LowBits`, `MaxStack` | 5, 1, 3, 3 | the widths 256, 8 and 64 keep their order and words exceed the i64 in both directions; every triple of words |
| `MaxDepth`, `MaxReach`, `WordSize`, `StartMem`, `MaxMem`, `SizeTop`, `Operands` | 8, 2, 2, 1, 3, 7, {0, 1, 3, 7, 8} | a word longer than the memory at its start and shorter than at its limit; operands at 0, at both limits and above each. The proofs have any |
| `MaxInsns`, `Back`, `Ahead`, `MaxCalls`, `Page` | 4, 2, 1, 2, 9 | a loop, a forward jump, a `lddw` and a call in one program; some fit the page |
| `Half`, `MaxOffset`, `ImmBits`, `OffBits` | 2, 1, 3, 2 | a word has a high and a low half; every pair of words and immediates, of both signs |
| `NSlots`, images, scaled, vectors | 3, 2, 2, 2 | seven paths for three slots; each cache is filled and overflows |
| `Width`, `NApps`, `Throttle`, `LongPress`, `MaxWindows` | 3 places, 2, 2, 2, 2 | every click, a long press with a frame to spare |
| `MaxDepth`, `MaxBlocks`, `NConsts`, `NBlocks`, `MaxCalls`, `MaxNested`, `MaxRuns` | 1, 2, 2, 2, 1, 1, 2 | two modules beside `OEntry`, a call below the first, a run inside the run and one too many, and a second run with the first one's caches |
| `Bits`, `Narrow` (`OvcIr`) | 8, 3 | every pair of canonical values; a register with room above its type, as i64 has above i32 |
| screen, `MaxBlur`, `MaxClips` | 6 by 5, 12, 1 | rectangles inside, at and across each edge, under five rotations |
| `NVolumes`, `MaxCuts` | 2, 2 | a cut in an installation and one in the next |

`MaxSteps`, `MaxTx`, `MaxHead`, `MaxHeight`, `MaxCrashes` bound the exploration and
nothing in the code. The proofs hold for all their values.

### Fairness

- `Sequencer!FairSpec`: weak fairness of the consensus task. tokio polls a task
  that is ready, and a request that fails is retried.
- `BitcoinBridge!FairSpec`: weak fairness of the watcher and of a waiting reader, and
  strong fairness of a poll that returns the head: a backend may answer late any
  number of times but not for ever.
- `PeerSync!FairSpec`: per node, weak fairness of the proactive task, of the start, and
  of the lock's grant: every wait of theirs has a timeout. Nothing is assumed of the
  network, the peers and whoever else uses the VM.
- `MCVm!VmSpec`: weak fairness of a frame's next instruction: the thread does
  nothing else.
- `MCKernel!KernelSpec`: weak fairness of the run and of the boot: there is one
  processor and no other task.

Crashes, power cuts, failures, refusals, callers and users have none.

## 4. Proofs

TLAPS checks these theorems for all values of the constants that satisfy the named
assumptions of the modules.

One proof module per subject; each says what a step of the specification does to its
invariant, action by action.

**The chain** (`SequencerProofs`): `TypeCorrect`, `ChainIsLinked`, `HeightsAreOrdered`,
`NoRepeat`, `SavedHeightIsCovered`, `Refinement`, `ChainIsDurable`, `AcceptedStays`,
`LatestInfoIsCurrent`. The chain invariants are not inductive: between assembling and
pushing, `draft` has to fit the chain. `LinkInv` says that the draft's number and parent
fit the end of the chain while it is being built, and that `lastHash` is the tip's hash,
or the draft's once published; `HeightInv` that the chain is at or below the cursor, and
strictly below it until the cursor's block is pushed; `WatermarkInv` that the saved
height never passes the cursor. `CoverInv` adds that every height up to the cursor, but
the one being built, is accounted for. Durability needs the place of the loop besides:
only the block between its push and its store may be missing from RocksDB. A failed read
restarts at 0, so `NoRepeat`, `SavedHeightIsCovered` and `Refinement` assume
`ReadsSucceed`; the cover and `ChainIsDurable` assume `StoresSucceed`. The other
theorems hold under every fault.

**What handlers tell** (`ManagerProofs`): `AnswersAreSound` and, of the typing of all
that `MCManager` composes, `ManagerTypes`, for any operations and
callers and any interleaving with the consensus, from `ReadsAssumption` (finite sets and
a bound). Each call in flight carries what it was told; the invariant says of every such
field that it was true when told and, since the chain only grows until a restart and a
restart ends the calls, still is: `BlocksInv` for the block a handler found and told,
`SearchInv` that what could be found when a search began can still be found in the places
it has not looked into, `StatusInv` the same of a status. They rest on `WaitingInv` (a
block's operations stay in the mempool) and `ReceiptsInv` (there is no receipt of a
transaction before it is sent).

**The locks of the node** (`ManagerProofs`): `LocksAreGranted`, for any number of handlers
and any capacity of the mempool's channel (`LocksAssumption`: it is a number). The locks
are ranked (`Rank`: receipts, vm, validators, chain, pending, ..., accounts, ..., room),
and `Nested` says that what a task awaits while it keeps a guard is of a higher rank, or
of the same lock and then hindered by the guard itself, but for `get_lurosonie_stats`,
which reads the validators with the chain; and that nobody keeps anything when it asks to
write the chain. The consensus task besides reads the validators with the delegations
(`ConsensusNested`), and it alone writes the chain and the validators (`Quiet`).

- `Fits` states this of a function, with what it takes and what it keeps at its end, and
  has a lemma for each way a function is put together (`\o`, `Block`, `MayLeave`,
  `MaySkip`, `Timed`, a cut into segments), so that every function the tasks call is
  shown to fit, part by part (`ConsensusFits`, `ManagerFits`, `RpcFits`).
- `LocksInv` is inductive: what is left of each task's segment fits, what the task holds
  is in order with it and is dropped before its end (`Keeps`), and who stands in the line
  of a lock awaits that lock and stands there once (`LineInv`).
- In a circle, the first of it in the line of a lock waits for a holder (`FirstInLine`).
  At the lock of the highest rank that holder can only be one of the two exceptions, a
  reader of the validators; and then the consensus task would have to await the chain,
  or read the validators, and keep the validators from others at the same time
  (`NoCircle`).

**Storage in calls** (`EvmCallsProofs`): `EvmTypeCorrect`, `EvmStorage`, `LoadsAreFresh`.
`StorageIsEvm` says that RocksDB with the frames' stores over it, outermost first, is
the reference. It needs `BeforeIsEvm`: the same for each frame's rollback point under
the frames below it, while nothing has been flushed since. The proof is slot by slot:
`Effective` as a relation replaces a recursive overlay, so each action only has to say
which layer it changes. `ReadsLastStore` speaks of the top frame's load only; its
invariant `Reading` is about every frame of the stack, since each will be on top again:
`Fresh` (contracts that were not called have RocksDB's values, and no copy has any of
theirs), `Apart` (a contract is called once; only the delegates above it share its
storage), `Viewed` (what a load gets in any frame is what the EVM prescribes at the
moment that frame is on top), `Keeping` (between a frame's call and its return nothing
changes but what the frame stores) and `Copied` (a copy has its frame's stores).

**Transactions** (`ContractsProofs`): `TxTypeCorrect`, `AnsweredReceiptsKept`,
`NoncesAreNew`, `VezIsDeployed`. `TxInv` joins typing, finiteness of the receipts,
`Kept` (memory and RocksDB hold the same receipts but for the one between its two
writes, and whoever is past them has written its own), `Numbering` (a stored nonce that
is not ahead is below the sender's count of stored receipts, one on its way at most at
it) and `Deployment` (a record of VEZ, a save about to write one, or a VEZ task past the
constructor means that VEZ is deployed or one of the ways out was taken). `StepKinds`
shows that every step inserts a receipt, writes one, restarts, or is quiet for these
variables.

**Calls and their code** (`ContractsProofs`): `DispatchIsSound`, and `CallsAreFound` for
the composition. `CallsInv` joins `AddressInv` (the account is the copy in RocksDB unless
it is missing, the node's module is of the account's code, and what the last constructor
settled is what is there), `EngineOK` (the engine's module is of a program it has looked
at, and its functions are of such programs) and `RequestInv` (a call that has its name
carries one of the names there are). Assumed of the constants: programs, selectors and
deployments are over finite ranges of bytes (`BytesAssumption`, `SelectorsAssumption`,
`DeploymentsAssumption`), and the bounds are numbers (`DispatchBounds`).

**The bridge** (`BitcoinProofs`): `BridgeTypes`, `ConfirmedDepositsStay`, `AnchorTypes`,
`AnchorsAlwaysHold`, `BitcoinTypes`. `ConfirmedStays` is strengthened to `DepositsSettled`
and, for the transaction in hand, `CheckedSettled`: it is in a block so far below the tip
that no reorganisation reaches it, since confirmations were counted at some time before
and the chain never gets shorter. The theorem's hypothesis is `MaxReorg < MinConf`. For
anchors, `InProgress` says of the one being fetched what each of its calls has
established, `Recorded` the same of the last two. The lemmas about chains come first.

**Batches and frames** (`VmProofs`): `EngineTypes`, `BatchesAreSerial`, `FrameTypes`,
`StackStaysLimited`, `AbortsAreKnown`. `ReloadsAll` (a slot that RocksDB does not have
is unwritten in the cache), `WritesOnce` and `Entries` always hold; while batches are
ordered, `InOrder` (what ran comes before what did not), `LastWriter` (the highest id
that wrote a slot wrote its last value) and `Stored` make committing the old write sets
again harmless: during a commit each slot has its value or is `SetBack`, and a write set
still to come will put it right. The frame's invariant is inductive as it stands; `AbortsAreKnown`
is of every instruction, for the release build. The proof has a lemma for each of the three ways an instruction ends (the frame ends, the
bottom of the loop with its check of the depth, a `continue` past it), then one step per
instruction.

**The interpreter's arithmetic** (`VmProofs`): `ArithmeticIsExact`, for every `Bits` that is
a whole number of bytes and every `LowBits` from 2 up to it; the code's are 256, 8 and 64.

- `PowerIs` gives the powers of two their equation, by `Recursion` below, and `PowerAdds`
  that a power of a sum is a product. A quotient or remainder is shown by `DividesAs`: it
  is the one pair that multiplies out, below the divisor.
- MULMOD's loop is shown round by round: what it has added up, plus the product of base
  and exponent that are left, stays congruent to the whole product (`RoundKeeps`), and
  the exponent's bits run out after `Bits` rounds (`LeftAfterRound`), so `ProductIsExact`.
- For the signed operations, an operand of the i64's range is its own low word
  (`SignedRange`), the quotient towards zero is in that range or the division panics
  (`QuotientRange`), and `FromSignedIs` brings it back to a word.
- A shift splits the word at a power of two (`ShiftParts`), the sign bit is the upper half
  of what is kept (`UpperHalf`); `SarIs`, `ShlIs`, `ShrIs` and `ExtensionIs` follow.
- `Words!TypeOK` is the inductive invariant: words on the stack are below `Modulus`.

**The eBPF runtime** (`VmProofs`): `RuntimeIsSound`, and `PartsTypes` for all that
`VmParts` composes: programs of any length, with jumps and local calls of any reach, a
page of any size, and a machine with any programs, verifiers and calculators.

- Which instructions are second halves of a `lddw` (`Halves`), and how much space those
  up to one take (`SpaceTo`), are tables the code fills from the start. `Recursion` shows
  that such a table exists, by its shortest length without one, so that its equation
  holds: `HalfFollows`, and `SpaceGrows` for the space.
- What the verifier's pass over the visited instructions amounts to: in an accepted
  program only a second half has opcode 0 (`HalvesAreZero`), what follows an instruction
  is visited or behind the last (`AfterIsInside`), and a jump's target is visited
  (`JumpsAreInside`). From these, `JitPanics` and `CraneBreaks` for the two compilers.
- `CodeInv` is inductive: where the code stands, and every return address on its stack,
  is a visited instruction or the end, and the end only behind a last instruction that
  lets it go on there, behind a local call in the case of a return address; where the
  code is lost, it stands at one of the instructions the property names.
- `MachineInv` adds to the three properties of a machine that code of another program
  than the one held was followed by `set_program` (`CodeReplaced`): without it a verifier
  may come that refuses the code's program only.

**Peers** (`PeerSyncProofs`): `PeersTypeCorrect`, `TalksGoOn`. That no exchange of
datagrams ends but by a loss is an action property: every answer that an acceptance leads
to is itself one that is accepted, so a step either leaves a datagram under way, or lost it.

**The kernel** (`KernelProofs`): `KernelTypes`, `AssetsAreHeld`, `ScreenIsSound` and
`StartsAreSound`, of `KernelParts`: any slots, files, applications, windows, screens,
rotations, rectangles, modules, volumes, bundles and cuts. Each part has its invariant,
and a step is one part's while the others' are left alone:

- `SrfsInv`: while no file came to a full cache, a path that was never written has no slot
  and one that was written once has exactly one, with what was written (`KeepsAll`).
- `HandlesInv`: there is a number of loads of which the images' ages are the last ones in
  order, so that the victim is the oldest (`AgesInv`); every scaled copy is of the image
  at its address, unless that address was given again (`ApartInv`).
- `DesktopInv`: a press that has opened its icon's menu by its length lasts as long; two
  windows of an application are those of one that is `blind`.
- The canvas' invariant is inductive as it stands; what it needs are lemmas about the
  rectangle that holds four turned corners, clamped to the screen, and, for
  `LineReaches`, about Bresenham's walk over any extent: after each step the error
  says how far it is along the longer side and that the other coordinate is the rounded
  one (`StaysOnCourse`), so it neither stops early nor misses the end (`LineOfPixels`).
- `RunInv`: constants that were parsed and are in no slot found none free (`CacheInv`);
  every component with a constructor was built or is in the queue, and `OEntry` is at
  its end (`OrderInv`), in the run at hand and in each of those that wait for it (`Waiting`).
- `BootInv`: while the desktop's assets are installed, no volume before the first that
  can be written has taken any, the files before the present one begin on that volume
  with all of the bundle's chunks, and the present one with those written so far
  (`HomeInv`); a volume with a file has the directory, and before the first cut the boot
  screen's assets are nowhere (`PlacesInv`).

Assumed of the constants: that they are numbers, sets and sequences of their kinds, that
caches and screens have room for one, that the mark of an empty slot is no asset, that
`OEntry` is no component, and that an asset has a chunk. TLC's bounds (`MaxCalls`,
`MaxRuns`, `MaxWindows`, `MaxCuts`) have any value.

Only model-checked, and why:

- liveness (`EveryHeightHandled`, `BridgeGoesOn`, `NodesGoOn`, `RepeatsEnd`,
  `KernelGoesOn`) and `LocksReleasable`, which uses ENABLED;
- of `WordsAgree`, what concerns the eBPF compilers and the forms of an instruction: it is
  about the bits of a word and about a text that is read recursively, of which the provers
  know nothing (`ArithmeticIsExact` proves the rest of it);
- `ValuesAgree`: of `OvcIr` the same holds, and `NoHoles` is a fact of the five rotations.

## 5. Not modelled

Block contents beyond number, height, parent and operations; rewards; the contents of
the EVM's memory, logs and gas, which is counted and compared with nothing; amounts of
VEZ and bitcoin; balances; deployments at random addresses through
`eth_sendTransaction`; the VEZCUR set of contracts and the proof-of-reserve task,
which repeat the VEZ task at other addresses; failing RocksDB writes in
`TxPipeline` and `EvmCalls`; the account's own nonce and `module:{a}` entries, which
nothing reads back. Of the eBPF runtime the entry points, which pass raw pointers, and
what the helpers do. Of the kernel the fonts' own modules and the glyphs they draw, which
are not in the repository, sound, file browsing, colours, `MemWrite32` and `PtrWrite32At`,
which write wherever a program says, the handoff to BSD, which nothing calls, and port
I/O. `draw_text_bitmap` (4275) has no callers; it writes as `DrawText` does. The slots of
parsed constants have the address and the length of a text as their key and are never
emptied (`ovc_exec.rs` 3389); `OvcRun` has one application, whose texts stay where they
are, so that its key is the module. A launch by a window's own program would move
`RUNNING_APPS` under the reference that 7667 keeps: undefined, and latent, since no
window's content is run. Not at all, with reasons in
`PROJECT.json`: the parts marked `not_modelled` (code without callers, pure functions,
parsing and formatting, firmware calls, third-party code).

## 6. Plan

Done: every part marked modelled or partly in `PROJECT.json`, with proofs of the node,
the interpreter's calls and frames, the eBPF runtime, the peers and the kernel. Next, by
importance:

1. Composition of `TxPipeline` with `EvmCalls` through what one execution leaves in
   RocksDB; `eth_sendTransaction` deployments at random addresses.
2. Delegation, should it get a caller: conservation of delegated stake and the threshold
   (`lurosonie_manager.rs` 299-350, 558-831, 923-984). Its locks are in `ManagerLocks`.
3. The kernel's text layout and file browser; the Merkle tree against a reference.
