------------------------------ MODULE VmDispatch ------------------------------
(***************************************************************************)
(* How a call finds its code: deployments at one address (send_transaction, *)
(* with create2 any number of them), eth_call and the manager's own calls,  *)
(* and what the VM takes from a program's bytes.                            *)
(*                                                                          *)
(* A contract has an account, shared by all, and a module in each of two    *)
(* VMs: the node's, which names the function of an eth_call, and the clone  *)
(* inside the parallel engine, which executes it.  The second learns of a   *)
(* contract when it first runs it.  An entry of a module's functions is a   *)
(* name with a selector; the offset kept with it is read by nothing.        *)
(*                                                                          *)
(* Positions in a program count from 0, as in the code.  What a run of the  *)
(* interpreter does is in EvmCalls and EvmFrame.  The path for proxies is   *)
(* left out: nothing writes the resource that would take it.                *)
(***************************************************************************)
EXTENDS Integers, Sequences

CONSTANTS
  Programs,      \* names of programs
  Bytes,         \* the bytes of each
  Selectors,     \* of the calls, four bytes each
  FallbackHash,  \* selector that "fallback" hashes to
  UnknownHash,   \* selector that "unknown" hashes to, the name of a short call
  TextHash,      \* selector of a creation code taken for a name
  Deployments,   \* [creation, answer, finish, meant]: a creation code, the bytes its
                 \* constructor answers (or NoProgram), how it ends, and the program
                 \* the contract should have (NoProgram if the constructor reverts)
  NoProgram,
  MaxDeploys,    \* bound: deployments
  MaxReboots     \* bound: restarts

Quads == {s \in Seq(Nat) : Len(s) = 4}

ASSUME BytesAssumption == Bytes \in [Programs -> Seq(Nat)] /\ NoProgram \notin Programs
ASSUME SelectorsAssumption ==
  Selectors \subseteq Quads /\ {FallbackHash, UnknownHash, TextHash} \subseteq Quads
\* a contract should have what its constructor answers, and the bytes it was given if
\* they construct nothing
ASSUME DeploymentsAssumption ==
  \A d \in Deployments :
    /\ d \in [creation : Programs, answer : Programs \cup {NoProgram},
              finish : {"return", "revert", "error"}, meant : Programs \cup {NoProgram}]
    /\ d.meant = IF d.finish # "return" THEN NoProgram
                 ELSE IF d.answer = NoProgram THEN d.creation ELSE d.answer
ASSUME DispatchBounds == MaxDeploys \in Nat /\ MaxReboots \in Nat

VARIABLES
  account,       \* accounts[address].contract_state
  kept,          \* account:{address}:contract_state in RocksDB
  recorded,      \* has a save written account:{address}
  nodeModule,    \* modules[address] of the node's VM
  engineModule,  \* and of the engine's
  request,       \* a call and what became of it
  deployed,      \* the last deployment and what became of it
  intended,      \* history: the program the address should have
  seen,          \* history: programs the engine has looked at since the restart
  unfinished,    \* history: is the account's code not a constructor's answer
  deploys, reboots

accountVars == <<account, kept, recorded, nodeModule, engineModule>>
dispatchVars == <<accountVars, request, deployed, intended, seen, unfinished, deploys, reboots>>

-----------------------------------------------------------------------------
(* What the VM sees in the bytes of a program.                              *)

LT == 16
GT == 17
EQ == 20
JUMPI == 87
JUMPDEST == 91
PUSH2 == 97
PUSH3 == 98
PUSH4 == 99
DUP1 == 128

Length(p) == Len(Bytes[p])
Byte(p, i) == Bytes[p][i + 1]
Four(p, i) == SubSeq(Bytes[p], i + 1, i + 4)
Target(p, i) == 256 * Byte(p, i) + Byte(p, i + 1)

Zero == <<0, 0, 0, 0>>
Below(s, t) ==
  \E k \in 1..4 : s[k] < t[k] /\ \A j \in 1 .. k - 1 : s[j] = t[j]

Function(s) == [of |-> "function", selector |-> s]   \* "function_xxxxxxxx"
Text(s) == [of |-> "text", selector |-> s]           \* any other name, which hashes to s
Fallback == [of |-> "fallback", selector |-> Zero]   \* the entry of no dispatcher
Nameless == [of |-> "empty", selector |-> Zero]

\* PUSH4 with a PUSH2 and a JUMPI up to 14 bytes on, to a place far enough
InDispatcher(p) ==
  {Four(p, i + 1) : i \in {i \in 0 .. Length(p) - 11 :
     /\ Byte(p, i) = PUSH4
     /\ \E j \in 5..14 :
          /\ i + j < Length(p) /\ Byte(p, i + j) = JUMPI /\ Byte(p, i + j - 3) = PUSH2
          /\ Target(p, i + j - 2) > i + 50 /\ Target(p, i + j - 2) < Length(p)}}

\* heuristic_function_detection: any PUSH4
Anywhere(p) ==
  {s \in {Four(p, i + 1) : i \in {i \in 0 .. Length(p) - 5 : Byte(p, i) = PUSH4}} :
     Below(<<0, 0, 1, 0>>, s) /\ s # <<255, 255, 255, 255>>}

Detected(p) ==
  IF InDispatcher(p) # {} THEN {Function(s) : s \in InDispatcher(p)}
  ELSE IF Anywhere(p) # {} THEN {Function(s) : s \in Anywhere(p)}
  ELSE {Fallback}

\* find_function_offset_in_bytecode, from a place where the selector's bytes are:
\* EQ PUSH2 JUMPI after it
Compared(p, pos) ==
  \E i \in pos + 4 .. pos + 19 :
    /\ i + 4 < Length(p)
    /\ Byte(p, i) = EQ /\ Byte(p, i + 1) = PUSH2 /\ Byte(p, i + 4) = JUMPI
    /\ Target(p, i + 2) < Length(p) /\ Target(p, i + 2) > 0

\* a comparison with another selector before it, taken as the code takes it
BranchTaken(op, s, other) ==
  \/ op = GT /\ Below(other, s)
  \/ op = LT /\ Below(s, other)
  \/ op = EQ /\ s = other

Split(p, pos, s) ==
  \E back \in 1..29 : LET at == pos - back IN
    /\ at >= 0 /\ at + 10 < Length(p)
    /\ Byte(p, at) = DUP1 /\ Byte(p, at + 1) = PUSH4
    /\ \E k \in 6..15 :
         /\ at + k < Length(p) /\ BranchTaken(Byte(p, at + k), s, Four(p, at + 2))
         /\ \E i \in at + k + 1 .. at + k + 9 :
              /\ i + 3 < Length(p) /\ Byte(p, i) = PUSH2 /\ Byte(p, i + 3) = JUMPI
              /\ Target(p, i + 1) < Length(p) /\ Target(p, i + 1) > 0

\* a JUMPDEST after it that no PUSH of the 32 bytes before covers
Near(p, pos) ==
  \E i \in pos + 10 .. pos + 99 :
    /\ i < Length(p) /\ Byte(p, i) = JUMPDEST
    /\ \A q \in i - 32 .. i - 1 :
         q >= 0 /\ Byte(p, q) \in 96..127 => q + Byte(p, q) - 95 < i

Resolves(p, s) ==
  /\ Length(p) >= 10
  /\ \/ s = Zero
     \/ \E pos \in 0 .. Length(p) - 5 :
          Four(p, pos) = s /\ (Compared(p, pos) \/ Split(p, pos, s) \/ Near(p, pos))

\* TLC computes these once
Functions == [p \in Programs |-> Detected(p)]
AllSelectors == Selectors \cup {Zero, FallbackHash, UnknownHash, TextHash}
ResolvedIn == [p \in Programs |-> {s \in AllSelectors : Resolves(p, s)}]

-----------------------------------------------------------------------------
(* One execution, execute_program.                                          *)

NoModule == [code |-> NoProgram, functions |-> {}]

\* auto_detect_contract_functions for a module that has a code: the functions it
\* had stay
WithFunctions(m, p) == [m EXCEPT !.functions = @ \cup Functions[p]]

\* a module is brought up to date when the length of the code has changed
UpToDate_Never(m, p) == IF m = NoModule THEN WithFunctions([m EXCEPT !.code = p], p) ELSE m
UpToDate(m, p) ==
  IF m = NoModule \/ Length(m.code) # Length(p)
  THEN WithFunctions([m EXCEPT !.code = p], p) ELSE m

\* calculate_function_selector_from_signature
SelectorOf(name) == IF name = Fallback THEN FallbackHash ELSE name.selector

\* find_or_create_function_metadata: the selector of the function found, if any
Metadata(m, name) ==
  LET s == SelectorOf(name) IN
  IF name = Nameless THEN {Zero}
  ELSE IF name \in m.functions THEN {name.selector}
  ELSE IF Function(s) \in m.functions \/ s \in ResolvedIn[m.code] THEN {s}
  ELSE {}

\* the offset is expected to be there: a panic where it is not
Outcome(p, m, name) ==
  IF Metadata(m, name) = {} THEN "refused"
  ELSE IF Metadata(m, name) \subseteq ResolvedIn[p] THEN "ran"
  ELSE "panicked"

-----------------------------------------------------------------------------
\* what the address should run, if a constructor has settled it
Owed == IF unfinished THEN NoProgram ELSE intended

NoCall == [at |-> "idle", name |-> Nameless, outcome |-> "none", program |-> NoProgram,
         owed |-> NoProgram, stale |-> FALSE]

DispatchInit ==
  /\ account = NoProgram /\ kept = NoProgram /\ recorded = FALSE
  /\ nodeModule = NoModule /\ engineModule = NoModule
  /\ request = NoCall /\ deployed = NoCall
  /\ intended = NoProgram /\ seen = {} /\ unfinished = FALSE
  /\ deploys = 0 /\ reboots = 0

\* The engine runs program p, which is the account's, by that name.
Ran(p, name) ==
  LET m == UpToDate(engineModule, p) IN
  [at |-> "done", name |-> name, outcome |-> Outcome(p, m, name), program |-> p,
   owed |-> Owed, stale |-> m.code # p /\ Length(m.code) = Length(p)]
EngineSees(p) == engineModule' = UpToDate(engineModule, p) /\ seen' = seen \cup {p}

\* eth_call under vm.read(): the name the node's module has for the selector; less
\* than four bytes have none
NamesFor(s) ==
  LET known == {f \in nodeModule.functions : f.selector = s} IN
  IF known = {} THEN {Function(s)} ELSE known

NameCall ==
  /\ request.at # "named"
  /\ \E s \in Selectors \cup {Zero} : \E name \in NamesFor(s) \cup {Text(UnknownHash)} :
       request' = [NoCall EXCEPT !.at = "named", !.name = name]
  /\ UNCHANGED <<accountVars, deployed, intended, seen, unfinished, deploys, reboots>>

\* and then under vm.write(): without a module of the node it becomes a transfer of VEZ
Native_NoEngine == engineModule = NoModule
Native == nodeModule = NoModule
RunCall ==
  /\ request.at = "named"
  /\ IF Native
     THEN /\ request' = [request EXCEPT !.at = "done", !.outcome = "native", !.owed = Owed]
          /\ UNCHANGED <<engineModule, seen>>
     ELSE /\ request' = Ran(account, request.name)
          /\ EngineSees(account)
  /\ UNCHANGED <<account, kept, recorded, nodeModule, deployed, intended, unfinished, deploys, reboots>>

\* The manager and the payment of fees ask the engine by a function's own name, or by
\* "function_xxxxxxxx".
CallByName ==
  /\ request.at # "named"
  /\ \E s \in Selectors : \E name \in {Text(s), Function(s)} :
       IF account = NoProgram
       THEN /\ request' = [NoCall EXCEPT !.at = "done", !.name = name, !.outcome = "absent"]
            /\ UNCHANGED <<engineModule, seen>>
       ELSE request' = Ran(account, name) /\ EngineSees(account)
  /\ UNCHANGED <<account, kept, recorded, nodeModule, deployed, intended, unfinished, deploys, reboots>>

-----------------------------------------------------------------------------
(* Deployment, under vm.write() from the creation code in the account to the *)
(* module of the node.                                                       *)

\* the creation code itself is the name, if it is text
IsText(p) == \A i \in 1 .. Length(p) : Bytes[p][i] < 128
ConstructorName_Always(p) == Text(TextHash)
ConstructorName(p) == IF IsText(p) THEN Text(TextHash) ELSE Nameless

\* what the constructor answered if it is longer than a word, with a revert or not;
\* the metadata that is cut off is looked for as text and not found
RuntimeOf_Creation(d) == d.creation
RuntimeOf(d) ==
  IF d.answer # NoProgram /\ Length(d.answer) > 32 THEN d.answer ELSE d.creation

Deploy(d) ==
  LET run == Ran(d.creation, ConstructorName(d.creation))
      done == run.outcome = "ran" /\ d.finish # "error"
      runtime == RuntimeOf(d) IN
  /\ deploys < MaxDeploys /\ deploys' = deploys + 1
  /\ EngineSees(d.creation)
  /\ deployed' = run
  /\ IF done
     THEN /\ account' = runtime /\ kept' = runtime
          /\ nodeModule' = WithFunctions([nodeModule EXCEPT !.code = runtime], runtime)
          /\ intended' = d.meant /\ unfinished' = (d.meant = NoProgram)
     ELSE /\ account' = d.creation /\ kept' = d.creation
          /\ unfinished' = TRUE
          /\ UNCHANGED <<nodeModule, intended>>
  /\ UNCHANGED <<recorded, request, reboots>>

\* persist_all_state writes the account's record
RecordAccount ==
  /\ account # NoProgram /\ ~recorded /\ recorded' = TRUE
  /\ UNCHANGED <<account, kept, nodeModule, engineModule, request, deployed, intended, seen,
                 unfinished, deploys, reboots>>

\* load_persisted_contracts: modules come without functions, and the engine's VM was
\* cloned before
Restarted(code) ==
  /\ reboots < MaxReboots /\ reboots' = reboots + 1
  /\ kept' = code /\ account' = IF recorded THEN code ELSE NoProgram
  /\ nodeModule' = [code |-> account', functions |-> {}]
  /\ engineModule' = NoModule /\ seen' = {}
  /\ request' = NoCall /\ deployed' = NoCall
  /\ UNCHANGED recorded

RestartVm ==
  /\ Restarted(kept)
  /\ intended' = IF recorded THEN intended ELSE NoProgram
  /\ unfinished' = (recorded /\ unfinished)
  /\ UNCHANGED deploys

\* the process dies while the constructor runs
CutDeploy(d) ==
  /\ deploys < MaxDeploys /\ deploys' = deploys + 1
  /\ Restarted(d.creation)
  /\ intended' = IF recorded THEN intended ELSE NoProgram
  /\ unfinished' = recorded

DispatchNext ==
  \/ NameCall \/ RunCall \/ CallByName \/ RecordAccount \/ RestartVm
  \/ \E d \in Deployments : Deploy(d) \/ CutDeploy(d)

DispatchSpec == DispatchInit /\ [][DispatchNext]_dispatchVars

-----------------------------------------------------------------------------
(* Properties.                                                              *)

Names == [of : {"function", "text", "fallback", "empty"}, selector : AllSelectors]
Requests == [at : {"idle", "named", "done"}, name : Names,
             outcome : {"none", "native", "absent", "refused", "ran", "panicked"},
             program : Programs \cup {NoProgram}, owed : Programs \cup {NoProgram},
             stale : BOOLEAN]

DispatchTypeOK ==
  /\ {account, kept, intended, nodeModule.code, engineModule.code} \subseteq Programs \cup {NoProgram}
  /\ nodeModule.functions \cup engineModule.functions \subseteq UNION {Functions[p] : p \in Programs}
  /\ request \in Requests /\ deployed \in Requests
  /\ seen \subseteq Programs /\ recorded \in BOOLEAN /\ unfinished \in BOOLEAN
  /\ deploys \in 0..MaxDeploys /\ reboots \in 0..MaxReboots

\* solc's dispatcher: DUP1 PUSH4 selector EQ PUSH2 target JUMPI, or PUSH3 for a selector
\* that starts with a zero byte
Branches(p, i) ==
  /\ Byte(p, i) = EQ /\ Byte(p, i + 1) = PUSH2 /\ Byte(p, i + 4) = JUMPI
  /\ Target(p, i + 2) \in 1 .. Length(p) - 1 /\ Byte(p, Target(p, i + 2)) = JUMPDEST
Dispatches(p, s) ==
  \E i \in 0 .. Length(p) - 11 :
    /\ Byte(p, i) = DUP1
    /\ \/ Byte(p, i + 1) = PUSH4 /\ Four(p, i + 2) = s /\ Branches(p, i + 6)
       \/ /\ s[1] = 0 /\ Byte(p, i + 1) = PUSH3
          /\ SubSeq(Bytes[p], i + 3, i + 5) = Tail(s) /\ Branches(p, i + 5)
DispatchedIn == [p \in Programs |-> {s \in Selectors : Dispatches(p, s)}]

\* A call of a function that the account's program dispatches as solc does is run,
\* whatever programs the address had before and either VM has seen: it is neither
\* refused nor does it panic, unless the engine holds another program of the same
\* length, or the selector starts with a zero byte.
DispatchedRun ==
  request.outcome \in {"refused", "panicked"} /\ ~request.stale =>
    LET s == SelectorOf(request.name) IN
    s \notin DispatchedIn[request.program] \/ s[1] = 0

\* A panic, which is the end of the task that called, needs a selector that some
\* program of the address had: what none of them had is refused.
PanicsSeen ==
  \A r \in {request, deployed} : r.outcome = "panicked" =>
    \/ Length(r.program) < 10
    \/ \E p \in seen : LET s == SelectorOf(r.name) IN
         Function(s) \in Functions[p] \/ s \in ResolvedIn[p]

\* What runs is the program that the last constructor gave the address, also after
\* restarts: a deployment that fails, and leaves its creation code, is the exception,
\* and so is a program of at most a word, instead of which its creation code is kept.
RunsWhatWasMeant ==
  request.outcome = "ran" /\ request.owed # NoProgram =>
    request.program = request.owed \/ Length(request.owed) <= 32

\* An eth_call of a contract is not turned into a transfer of VEZ, whatever deployment or
\* restart falls before it.
ReachesItsContract == request.outcome = "native" => request.owed = NoProgram

\* A constructor is run but for creation codes that are text, or shorter than ten bytes.
ConstructorsRun ==
  deployed.outcome \in {"refused", "panicked"} =>
    IsText(deployed.program) \/ Length(deployed.program) < 10

\* All of them
DispatchSound ==
  DispatchedRun /\ PanicsSeen /\ RunsWhatWasMeant /\ ReachesItsContract /\ ConstructorsRun
=============================================================================
