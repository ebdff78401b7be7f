------------------------------- MODULE EvmFrame -------------------------------
(***************************************************************************)
(* One frame of execute_program: the depth of the stack, the length of the *)
(* memory, and where each instruction leaves the program counter.  A frame *)
(* runs any program: an instruction may be any, but one that did not       *)
(* advance the counter is run again, and an operand may be any word.       *)
(*                                                                         *)
(* The unit of memory stands for 16 bytes of a word of 32 and for larger   *)
(* blocks of memory: only the order of the limits matters.  EvmAlu has the *)
(* arithmetic, EvmCalls the storage and the sub-calls.                     *)
(*                                                                         *)
(* Sums of 64 bits wrap, as in the release build that the Dockerfile makes;*)
(* those of words panic in every build, and a panic ends the process.  The *)
(* native stack and heap are taken to be large enough.                     *)
(***************************************************************************)
EXTENDS EvmLimits

VARIABLES
  depth,   \* evm_stack.len()
  mem,     \* global_mem.len()
  auth,    \* is there an auth_context
  op,      \* the instruction run last
  at,      \* the program counter: on the instruction that follows op, on op
           \* itself, one byte too far, or where a jump has put it
  result   \* of the frame: running, or how it ended

frameVars == <<depth, mem, auth, op, at, result>>

FrameInit ==
  /\ depth = 0 /\ mem = StartMem /\ auth = FALSE
  /\ op = "none" /\ at = "next" /\ result = "running"

Sources == {"ADDRESS", "CALLER", "PC", "MSIZE", "PUSH"}  \* and all that push a number
Alu == {"ALU1", "ALU2", "ALU3"}                          \* by what they take
Copies == {"CALLDATACOPY", "CODECOPY", "RETURNDATACOPY", "EXTCODECOPY"}
Calls == {"CALL", "CALLCODE", "DELEGATECALL", "AUTHCALL", "STATICCALL"}
Ops == Sources \cup Alu \cup Copies \cup Calls \cup
  {"STOP", "POP", "DUP", "SWAP", "JUMP", "JUMPI", "JUMPDEST", "KECCAK256", "MLOAD",
   "MSTORE", "MSTORE8", "SSTORE", "MCOPY", "LOG", "SS7_SEND", "FFI_CALL", "CREATE",
   "CREATE2", "AUTH", "RETURN", "REVERT", "INVALID", "UNKNOWN"}

Takes(o) ==
  CASE o \in Sources \cup {"STOP", "JUMPDEST", "INVALID", "UNKNOWN"} -> {0}
    [] o \in {"ALU1", "POP", "JUMP", "MLOAD"} -> {1}
    [] o \in {"ALU2", "JUMPI", "KECCAK256", "MSTORE", "MSTORE8", "SSTORE", "AUTH",
              "RETURN", "REVERT"} -> {2}
    [] o \in {"ALU3", "CALLDATACOPY", "CODECOPY", "RETURNDATACOPY", "MCOPY", "SS7_SEND",
              "CREATE"} -> {3}
    [] o \in {"EXTCODECOPY", "CREATE2"} -> {4}
    [] o \in {"DELEGATECALL", "STATICCALL"} -> {6}
    [] o \in {"CALL", "CALLCODE", "AUTHCALL", "FFI_CALL"} -> {7}
    [] o = "DUP" -> 1 .. MaxReach
    [] o = "SWAP" -> 2 .. MaxReach + 1
    [] o = "LOG" -> 2 .. 6

Fetched(o) == result = "running" /\ (at = "same" => op = o)
Taken(o, k) == Fetched(o) /\ k \in Takes(o) /\ depth >= k

\* the frame returns with the instruction o, or brings the process down
End(o, r) == op' = o /\ result' = r /\ UNCHANGED <<depth, mem, auth, at>>

\* the bottom of the loop: the counter moves on and the stack is looked at
Overflows_Never(d) == FALSE
Overflows(d) == d > MaxDepth
Finish(o, d, where) ==
  /\ op' = o /\ depth' = d /\ at' = where
  /\ result' = IF Overflows(d) THEN "halt" ELSE "running"

\* `continue` goes straight to the next turn
Continue(o, d, where) ==
  op' = o /\ depth' = d /\ at' = where /\ UNCHANGED result

\* conversions of an operand: saturating, or its low 64 bits
AsUsize(w) == IF w > SizeTop THEN SizeTop ELSE w
Low64(w) == IF w > SizeTop THEN {x \in Operands : x <= SizeTop} ELSE {w}

\* resize_memory_ebpf: true, and without effect, where only the end is too far
Fits(offset, size) == offset <= MaxMem /\ size <= MaxMem
Grown(offset, size) ==
  IF offset + size > mem /\ offset + size <= MaxMem THEN offset + size ELSE mem
Inside(offset, size) == offset + size <= Grown(offset, size)

-----------------------------------------------------------------------------
(* Instructions that leave the memory alone.                               *)

\* before the first: the caller may not call a function of the owner's
Refused == result = "running" /\ op = "none" /\ End("none", "revert")

Underflow(o) == \E k \in Takes(o) : Fetched(o) /\ depth < k /\ End(o, "halt")

Source(o) ==
  /\ o \in Sources /\ Taken(o, 0) /\ Finish(o, depth + 1, "next")
  /\ UNCHANGED <<mem, auth>>

\* signed division and sign extension may panic: see EvmAlu
Compute(o, k) ==
  /\ o \in Alu /\ Taken(o, k)
  /\ \/ Finish(o, depth - k + 1, "next") /\ UNCHANGED <<mem, auth>>
     \/ o = "ALU2" /\ End(o, "abort")

Discard(o, k) ==
  /\ o \in {"POP", "JUMPDEST", "SSTORE"} /\ Taken(o, k)
  /\ Finish(o, depth - k, "next") /\ UNCHANGED <<mem, auth>>

Dup(k) == Taken("DUP", k) /\ Finish("DUP", depth + 1, "next") /\ UNCHANGED <<mem, auth>>
Swap(k) == Taken("SWAP", k) /\ Finish("SWAP", depth, "next") /\ UNCHANGED <<mem, auth>>

\* the target is not looked at
Jump(o, k) ==
  /\ o \in {"JUMP", "JUMPI"} /\ Taken(o, k)
  /\ Finish(o, depth - k, "target") \/ (o = "JUMPI" /\ Finish(o, depth - k, "next"))
  /\ UNCHANGED <<mem, auth>>

Authorise ==
  /\ Taken("AUTH", 2) /\ auth' \in BOOLEAN
  /\ Finish("AUTH", depth - 1, "next") /\ UNCHANGED mem

\* FFI_CALL_PHONE_EMULATOR: ss7_metadata_process takes an operand for an address of the
\* process and reads there, as many bytes as another says, which are not too many
Phone ==
  /\ Taken("FFI_CALL", 7)
  /\ \/ Finish("FFI_CALL", depth - 6, "next") /\ UNCHANGED <<mem, auth>>
     \/ /\ \E length \in Operands : \E l \in Low64(length) : l > 0 /\ l <= MaxMem
        /\ End("FFI_CALL", "abort")

\* a slice of memory from payload_ptr to an end that is cut at the memory's
Ss7Send ==
  /\ Taken("SS7_SEND", 3)
  /\ \E pointer, length \in Operands : \E p \in Low64(pointer), l \in Low64(length) :
       IF l > 0 /\ p > 0 /\ l <= MaxMem /\ p > mem THEN End("SS7_SEND", "abort")
       ELSE Finish("SS7_SEND", depth - 2, "next") /\ UNCHANGED <<mem, auth>>

-----------------------------------------------------------------------------
(* Instructions that use the memory: past the end of what could not be     *)
(* grown they read less, or write nothing.                                 *)

Access_Unguarded(o, k, leaves, offset, size) ==
  /\ Taken(o, k)
  /\ IF ~Fits(offset, size) THEN End(o, "halt")
     ELSE IF ~Inside(offset, size) THEN End(o, "abort")
     ELSE /\ mem' = Grown(offset, size) /\ Finish(o, depth - k + leaves, "next")
          /\ UNCHANGED auth
Access(o, k, leaves, offset, size) ==
  /\ Taken(o, k)
  /\ IF ~Fits(offset, size) THEN End(o, "halt")
     ELSE /\ mem' = Grown(offset, size) /\ Finish(o, depth - k + leaves, "next")
          /\ UNCHANGED auth

Memory ==
  \E offset, size \in Operands :
    LET from == AsUsize(offset)
        length == AsUsize(size)
    IN \/ Access("KECCAK256", 2, 1, from, length)
       \/ Access("MLOAD", 1, 1, from, WordSize)
       \/ Access("MSTORE", 2, 0, from, WordSize)
       \/ Access("MSTORE8", 2, 0, from, 1)
       \/ \E k \in Takes("LOG") : Access("LOG", k, 0, from, length)
       \/ Access("CREATE", 3, 1, from, length)
       \/ Access("CREATE2", 4, 1, from, length)

\* the message of a copy adds offset and size as words: a panic near the last word
Copy(o, k) ==
  /\ o \in Copies
  /\ \E to, from, size \in Operands :
       \/ Access(o, k, 0, AsUsize(to), AsUsize(size))
       \/ /\ from > SizeTop /\ size > 0 /\ Fits(AsUsize(to), AsUsize(size))
          /\ Taken(o, k) /\ End(o, "abort")

\* nothing to copy: `continue`, and the counter is still on the MCOPY
Mcopy ==
  /\ Taken("MCOPY", 3)
  /\ \E length, from, to \in Operands :
       LET l == AsUsize(length)
           far == l + (IF AsUsize(from) > AsUsize(to) THEN AsUsize(from) ELSE AsUsize(to))
       IN IF l = 0 THEN Continue("MCOPY", depth - 3, "same") /\ UNCHANGED <<mem, auth>>
          ELSE IF ~Fits(far, 0) THEN End("MCOPY", "halt")
          ELSE /\ mem' = Grown(far, 0) /\ Finish("MCOPY", depth - 3, "next")
               /\ UNCHANGED auth

-----------------------------------------------------------------------------
(* Calls: what the callee does is in EvmCalls; here it returns some data.  *)

\* no code at the address, or 1024 calls deep: no frame, and the counter is
\* moved before `continue`
NotCalled(o, k) ==
  /\ o \in Calls /\ Taken(o, k) /\ (o = "AUTHCALL" => auth)
  /\ \E offset, size \in Operands :
       /\ Fits(AsUsize(offset), AsUsize(size)) /\ mem' = Grown(AsUsize(offset), AsUsize(size))
       /\ Continue(o, depth - k + 1, "next")
  /\ UNCHANGED auth

\* the input does not fit: STATICCALL answers a success
InputRefused(o, k) ==
  /\ o \in Calls /\ Taken(o, k) /\ (o = "AUTHCALL" => auth)
  /\ \E offset, size \in Operands : ~Fits(AsUsize(offset), AsUsize(size))
  /\ IF o = "STATICCALL"
     THEN Continue(o, depth - k + 1, "next") /\ UNCHANGED <<mem, auth>>
     ELSE End(o, "halt")

\* CALLCODE clears its output without looking where the memory ends, with a
\* callee or without; STATICCALL copies to it what there is to copy
ClearsOutside ==
  /\ Taken("CALLCODE", 7)
  /\ \E out, size \in Operands :
       /\ Fits(AsUsize(out), AsUsize(size)) /\ size > 0 /\ ~Inside(AsUsize(out), AsUsize(size))
       /\ End("CALLCODE", "abort")

CopiesOutside ==
  /\ Taken("STATICCALL", 6)
  /\ \E out, size \in Operands : \E data \in Operands \ {0} :
       LET end == (AsUsize(out) + AsUsize(size)) % (SizeTop + 1)
           copied == IF data < AsUsize(size) THEN data ELSE AsUsize(size)
       IN /\ copied > 0 /\ AsUsize(out) + copied > (IF Fits(end, 0) THEN Grown(end, 0) ELSE mem)
          /\ End("STATICCALL", "abort")

\* the output is written where there is memory for it; STATICCALL moves the
\* counter, and so does the bottom of the loop
Returned(o, k) ==
  /\ o \in Calls /\ Taken(o, k) /\ (o = "AUTHCALL" => auth)
  /\ \E out, size \in Operands :
       \/ Fits(AsUsize(out), AsUsize(size)) /\ mem' = Grown(AsUsize(out), AsUsize(size))
       \/ (size = 0 \/ o \in {"CALLCODE", "STATICCALL"}) /\ mem' = mem
  /\ Finish(o, depth - k + 1, IF o = "STATICCALL" THEN "skipped" ELSE "next")
  /\ UNCHANGED auth

OutputRefused(o, k) ==
  /\ o \in {"CALL", "DELEGATECALL", "AUTHCALL"} /\ Taken(o, k) /\ (o = "AUTHCALL" => auth)
  /\ \E out, size \in Operands : size > 0 /\ ~Fits(AsUsize(out), AsUsize(size))
  /\ End(o, "halt")

\* AUTHCALL before AUTH: `continue`, and the counter is still on it
NotAuthorised_First ==
  /\ Taken("AUTHCALL", 7) /\ ~auth
  /\ Continue("AUTHCALL", depth, "same") /\ UNCHANGED <<mem, auth>>
NotAuthorised ==
  /\ Taken("AUTHCALL", 7) /\ ~auth
  /\ Continue("AUTHCALL", depth - 6, "same") /\ UNCHANGED <<mem, auth>>

-----------------------------------------------------------------------------
(* The end of a frame.                                                     *)

Stop == Taken("STOP", 0) /\ End("STOP", "stop")
Invalid == Taken("INVALID", 0) /\ End("INVALID", "revert")
Unknown == Taken("UNKNOWN", 0) /\ End("UNKNOWN", "halt") \* a byte that is no opcode

\* the output is allocated before its size is compared with anything
Return ==
  /\ Taken("RETURN", 2)
  /\ \E offset, size \in Operands :
       \/ AsUsize(size) > MaxMem /\ End("RETURN", "abort")
       \/ size > 0 /\ ~Fits(AsUsize(offset), AsUsize(size)) /\ End("RETURN", "halt")
       \/ (size = 0 \/ Fits(AsUsize(offset), AsUsize(size))) /\ End("RETURN", "return")

\* the memory is not grown: the slice from offset on is cut at its end, which
\* may come before; the sum may wrap to an end before the offset
Revert ==
  /\ Taken("REVERT", 2)
  /\ \E offset, size \in Operands : \E f \in Low64(offset), l \in Low64(size) :
       IF f > mem THEN End("REVERT", "abort")
       ELSE End("REVERT", IF f + l > SizeTop THEN "abort" ELSE "revert")

\* past the last instruction the loop ends, and the result is null
RunOff == result = "running" /\ at # "same" /\ End(op, "null")

Step ==
  \/ \E o \in Ops : Underflow(o) \/ Source(o)
  \/ \E o \in Ops : \E k \in Takes(o) :
       \/ Compute(o, k) \/ Discard(o, k) \/ Jump(o, k) \/ Copy(o, k) \/ NotCalled(o, k)
       \/ InputRefused(o, k) \/ Returned(o, k) \/ OutputRefused(o, k)
  \/ \E k \in Takes("DUP") : Dup(k)
  \/ \E k \in Takes("SWAP") : Swap(k)
  \/ Refused \/ Authorise \/ Phone \/ Ss7Send \/ Memory \/ Mcopy \/ ClearsOutside \/ CopiesOutside
  \/ NotAuthorised \/ Stop \/ Invalid \/ Unknown \/ Return \/ Revert \/ RunOff

FrameSpec == FrameInit /\ [][Step]_frameVars

\* the thread that executes a transaction does nothing else
FrameFairSpec == FrameSpec /\ WF_frameVars(Step)

-----------------------------------------------------------------------------
(* Properties.                                                             *)

FrameTypeOK ==
  /\ depth \in Nat /\ mem \in StartMem .. MaxMem
  /\ auth \in BOOLEAN /\ op \in Ops \cup {"none"}
  /\ at \in {"next", "same", "skipped", "target"}
  /\ result \in {"running", "stop", "return", "revert", "halt", "null", "abort"}

\* No instruction finds more than 1024 words, though the turns that end with
\* `continue` are not followed by the check: these have all taken more than they left.
StackLimited == result = "running" => depth <= MaxDepth

\* A frame of the release build ends the process with these instructions and no other:
\* by a word that overflows, an index outside the memory, an address that is not
\* mapped.  Reads, stores, logs, creations and the other calls look where the memory
\* ends although it may not have been grown for them.
Unchecked ==
  {"ALU2", "SS7_SEND", "FFI_CALL", "CALLCODE", "STATICCALL", "RETURN", "REVERT"} \cup Copies
OnlyTheseAbort == result = "abort" => op \in Unchecked

\* An MCOPY of nothing and an AUTHCALL without AUTH are run again and again, and
\* still get the frame somewhere: they take words until there are too few.
RepeatsEnd == at = "same" ~> at # "same" \/ result # "running"
=============================================================================
