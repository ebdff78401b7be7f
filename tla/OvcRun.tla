-------------------------------- MODULE OvcRun --------------------------------
(***************************************************************************)
(* How ovc_exec runs the OVC modules of an application, once per frame of  *)
(* the screen: the constructors, OEntry, calls between modules, the runs   *)
(* that the kernel starts inside a run (a window's content, a text in a    *)
(* font), and the caches of parsed text, which outlive a run.  What the    *)
(* instructions do is left to choice: a block may call any function and    *)
(* may end in any way, so the behaviours are those of every program over   *)
(* these modules.  A run inside a run is one of the same modules.          *)
(***************************************************************************)
EXTENDS Naturals, Sequences, FiniteSets

CONSTANTS
  Components, \* the modules of the application in their order, without OEntry
  MaxDepth,   \* calls below the first, 32 in the code
  MaxBlocks,  \* blocks a call may run, 200 000
  NConsts,    \* slots of CONSTS_CACHE, 8
  NBlocks,    \* slots of BLOCKS_CACHE, 32
  MaxCalls,   \* bound: calls in one block, which has finitely many instructions
  MaxNested,  \* runs inside runs that the kernel's stack has room for
  MaxRuns     \* bound: runs of the application

VARIABLES
  loaded,     \* the modules of the run, OEntry among them unless it is missing
  has,        \* the functions of each module: its own name's, another one
  filled,     \* does mod_refs give a window's modules?  the placeholder gives none
  fonts,      \* modules of the fonts: FONT_TTF_OVC and FONT_RAST_OVC, or none
  cross,      \* exec_marep, or exec_module, which calls no function of a module
  queue,      \* calls the run has still to make from its top
  frames,     \* run_blocks of the calls under way: module, function, blocks, last
  below,      \* the runs that wait for the one inside them
  overrun,    \* is the kernel's stack used up
  consts,     \* keys of CONSTS_CACHE
  blocks,     \* keys of BLOCKS_CACHE
  parsed,     \* history: times the constants of a module were parsed, 2 for more
  built,      \* history: constructors this run has entered
  runs        \* runs so far

runVars ==
  <<loaded, has, filled, fonts, cross, queue, frames, below, overrun, consts, blocks, parsed,
    built, runs>>
cacheVars == <<consts, blocks, parsed>>
program == <<loaded, has, filled, fonts>>

OEntry == "OEntry"
Listed == {Components[i] : i \in DOMAIN Components}
Modules == Listed \cup {OEntry}
Order == Append(Components, OEntry)
Functions == {"own", "other"}
CacheKey == Modules \X Functions

RunInit ==
  /\ loaded \in {Listed, Modules}
  /\ has \in [Modules -> SUBSET Functions]
  /\ filled \in BOOLEAN /\ fonts \in SUBSET Listed
  /\ cross = TRUE /\ queue = <<>> /\ frames = <<>> /\ below = <<>> /\ overrun = FALSE
  /\ consts = {} /\ blocks = {}
  /\ parsed = [m \in Modules |-> 0] /\ built = {} /\ runs = 0

Over == frames = <<>> /\ queue = <<>>
Idle == Over /\ below = <<>>

\* parse_string_consts, parse_blocks: what was parsed stays in a slot for ever; once
\* there is no slot it is parsed again at every call.  The key of a slot is the address
\* and the length of the text: the model's modules are those of one application, which
\* stay where they were loaded
Upto(modules, n) == {modules[i] : i \in 1..n}
Cached_Anew(modules) ==
  LET all == consts \cup Upto(modules, Len(modules))
  IN IF Cardinality(all) <= NConsts THEN all ELSE Upto(modules, Len(modules))
Cached(modules) ==
  consts \cup {modules[i] : i \in {k \in DOMAIN modules :
                  Cardinality(consts \cup Upto(modules, k - 1)) < NConsts}}
Stored(cache, slots, key) ==
  IF Cardinality(cache) < slots THEN cache \cup {key} ELSE cache

Parse(modules) ==
  /\ consts' = Cached(modules)
  /\ parsed' = [m \in Modules |->
                  IF m \in consts \/ m \notin Upto(modules, Len(modules)) \/ parsed[m] = 2
                  THEN parsed[m] ELSE parsed[m] + 1]

\* exec_marep: all constants are parsed, then the constructors run of the components
\* that have one, then OEntry
Calls == [i \in DOMAIN Components |-> <<Components[i], "own">>]

Marep ==
  /\ cross' = TRUE /\ built' = {}
  /\ queue' = IF OEntry \in loaded THEN Append(Calls, <<OEntry, "own">>) ELSE Calls
  /\ Parse(IF OEntry \in loaded THEN Order ELSE Components)
  /\ UNCHANGED blocks

StartMarep ==
  /\ Idle /\ runs < MaxRuns
  /\ runs' = runs + 1
  /\ Marep
  /\ UNCHANGED <<program, frames, below, overrun>>

\* exec_module and exec_fn: functions of one module, whose constants are parsed once
StartModule(module) ==
  /\ Idle /\ runs < MaxRuns
  /\ cross' = FALSE /\ runs' = runs + 1 /\ built' = {}
  /\ queue' = <<<<module, "own">>, <<module, "other">>>>
  /\ Parse(<<module>>)
  /\ UNCHANGED <<program, frames, below, overrun, blocks>>

\* exec_marep_fn: nothing runs below MaxDepth, nor when the module has no such
\* function; the blocks of the function are parsed when they are in no slot
Entered(module, fn) == [module |-> module, fn |-> fn, blocks |-> 1, calls |-> MaxCalls]
Enter(callers, module, fn) ==
  IF Len(callers) > MaxDepth
  THEN frames' = callers /\ UNCHANGED <<cacheVars, built>>
  ELSE /\ Parse(IF cross THEN <<module>> ELSE <<>>)
       /\ IF fn \notin has[module] THEN frames' = callers /\ UNCHANGED <<blocks, built>>
          ELSE /\ frames' = Append(callers, Entered(module, fn))
               /\ blocks' = Stored(blocks, NBlocks, <<module, fn>>)
               /\ built' = IF fn = "own" /\ frames = <<>> THEN built \cup {module} ELSE built

\* a function that its module has not is skipped, but OEntry's is looked for by
\* exec_marep_fn
Skipped(module, fn) == fn \notin has[module] /\ ~(cross /\ module = OEntry)
TopCall ==
  /\ frames = <<>> /\ queue # <<>>
  /\ queue' = Tail(queue)
  /\ LET module == Head(queue)[1]
         fn == Head(queue)[2]
     IN IF Skipped(module, fn) THEN UNCHANGED <<frames, cacheVars, built>>
        ELSE Enter(frames, module, fn)
  /\ UNCHANGED <<program, cross, below, overrun, runs>>

Now == frames[Len(frames)]
Running == frames # <<>> /\ ~overrun
Spent == [frames EXCEPT ![Len(frames)].calls = @ - 1]

\* a call `self___f` runs in the first other module that has f, `m___f` in m, f in
\* the module itself; what no module has is dispatched to the kernel
SelfTargets(fn) == {m \in loaded \ {Now.module} : fn \in has[m]}
Target(fn) ==
  {Order[i] : i \in {k \in DOMAIN Order :
     Order[k] \in SelfTargets(fn) /\ \A j \in 1..k - 1 : Order[j] \notin SelfTargets(fn)}}

Call(module, fn) ==
  /\ Running /\ Now.calls > 0 /\ cross
  /\ Enter(Spent, module, fn)
  /\ UNCHANGED <<program, cross, queue, below, overrun, runs>>

CallSelf == Running /\ \E fn \in Functions : \E m \in Target(fn) : Call(m, fn)
CallNamed == Running /\ \E m \in loaded, fn \in Functions : Call(m, fn)
CallOwn == Running /\ \E fn \in has[Now.module] : Call(Now.module, fn)

\* a call of the kernel starts a run inside this one, whose calls count from 0 again:
\* MaxDepth knows of neither, and when the stack has no room the processor faults
Suspend ==
  /\ below' = Append(below, [cross |-> cross, queue |-> queue, frames |-> Spent,
                             built |-> built])
  /\ frames' = <<>> /\ UNCHANGED overrun
Overrun == overrun' = TRUE /\ UNCHANGED <<cross, queue, frames, below, cacheVars, built>>
Nothing == frames' = Spent /\ UNCHANGED <<cross, queue, below, overrun, built>>

\* WindowManRenderAndComposite runs exec_marep on a window, the application's own among
\* them, which is dirty until that has returned; of no modules nothing is run
Composite ==
  /\ Running /\ Now.calls > 0
  /\ IF ~filled THEN Nothing /\ UNCHANGED cacheVars
     ELSE IF Len(below) = MaxNested THEN Overrun ELSE Suspend /\ Marep
  /\ UNCHANGED <<program, runs>>

\* the text calls run a function of the fonts' modules with exec_fn_raw_with_mods
DrawText ==
  /\ Running /\ Now.calls > 0
  /\ \E m \in fonts, fn \in Functions :
       IF fn \notin has[m] THEN Nothing /\ Parse(<<m>>) /\ UNCHANGED blocks
       ELSE IF Len(below) = MaxNested THEN Overrun
       ELSE /\ Suspend /\ cross' = TRUE /\ built' = {}
            /\ queue' = <<<<m, fn>>>> /\ UNCHANGED cacheVars
  /\ UNCHANGED <<program, runs>>

\* a run that has ended gives way to the one it was started in
Resume ==
  /\ Over /\ below # <<>>
  /\ LET r == below[Len(below)]
     IN cross' = r.cross /\ queue' = r.queue /\ frames' = r.frames /\ built' = r.built
  /\ below' = SubSeq(below, 1, Len(below) - 1)
  /\ UNCHANGED <<program, overrun, cacheVars, runs>>

\* the run of blocks ends: ret, a block that ends in no branch, a branch to a block
\* the function has not, and the limit
Finish ==
  /\ frames' = SubSeq(frames, 1, Len(frames) - 1)
  /\ UNCHANGED <<program, cross, queue, below, overrun, cacheVars, built, runs>>

Unlimited(n) == TRUE
MayGoOn(n) == n < MaxBlocks

Return == Running /\ Finish
Branch ==
  /\ Running
  /\ IF MayGoOn(Now.blocks)
     THEN /\ frames' = [frames EXCEPT ![Len(frames)].blocks = IF @ < MaxBlocks THEN @ + 1 ELSE @,
                                      ![Len(frames)].calls = MaxCalls]
          /\ UNCHANGED <<program, cross, queue, below, overrun, cacheVars, built, runs>>
     ELSE Finish

\* a step of a run under way: the processor executes nothing else
RunStep ==
  TopCall \/ CallSelf \/ CallNamed \/ CallOwn \/ Return \/ Branch
  \/ Composite \/ DrawText \/ Resume

RunNext == StartMarep \/ (\E m \in Modules : StartModule(m)) \/ RunStep

RunSpec == RunInit /\ [][RunNext]_runVars /\ WF_runVars(RunStep)

-----------------------------------------------------------------------------
(* Properties.                                                             *)

Frame == [module : Modules, fn : Functions, blocks : 1..MaxBlocks, calls : 0..MaxCalls]
Suspended ==
  [cross : BOOLEAN, queue : Seq(CacheKey), frames : Seq(Frame), built : SUBSET Modules]
RunTypeOK ==
  /\ loaded \subseteq Modules /\ has \in [Modules -> SUBSET Functions] /\ cross \in BOOLEAN
  /\ filled \in BOOLEAN /\ fonts \subseteq Listed /\ overrun \in BOOLEAN
  /\ queue \in Seq(CacheKey) /\ frames \in Seq(Frame) /\ Len(frames) <= MaxDepth + 1
  /\ below \in Seq(Suspended) /\ Len(below) <= MaxNested
  /\ \A i \in DOMAIN below : Len(below[i].frames) <= MaxDepth + 1
  /\ consts \subseteq Modules /\ blocks \subseteq CacheKey
  /\ parsed \in [Modules -> 0..2] /\ built \subseteq Modules /\ runs \in 0..MaxRuns

\* OEntry starts when every component that has a constructor was built.
BuiltBeforeOEntry ==
  cross /\ Running /\ frames[1].module = OEntry =>
    {m \in Listed : "own" \in has[m]} \subseteq built

\* The constants of a module in CONSTS_CACHE were parsed once, so that the pointers
\* a program has to them and those the next call resolves are the same.
CachedParsedOnce == \A m \in consts : parsed[m] = 1

RunSound == BuiltBeforeOEntry /\ CachedParsedOnce

\* Every run ends, whatever the program does: loops are cut off, and recursion, but for
\* one that no limit sees: runs started inside runs (a window that composites a window, a
\* font's function that draws text) until the kernel's stack is used up.
RunEnds == []<>(Idle \/ overrun)
=============================================================================
