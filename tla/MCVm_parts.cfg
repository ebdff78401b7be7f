\* Batches of one and two transactions over two slots with a crash at any point, words
\* of five bits, a stack of three words, operands on both sides of the limits of the
\* memory, eBPF programs of up to four instructions that one page holds or not, a
\* machine with two programs, eBPF words of four bits, and instructions with
\* immediates of three bits and offsets of two
CONSTANTS
  Parts = {"engine", "frame", "code", "machine", "words", "compilers", "forms"}
  Programs <- MCPrograms
  Calling <- MCCalling
  Verifiers <- MCVerifiers
  Calculators = {c1}
  s1 = s1
  s2 = s2
  Slots <- MCSlots
  MaxBatch = 2
  MaxTx = 4
  Bits = 5
  ByteBits = 1
  LowBits = 3
  Modulus = 32
  Low = 8
  MaxStack = 3
  MaxDepth = 8
  MaxReach = 2
  WordSize = 2
  StartMem = 1
  MaxMem = 3
  SizeTop = 7
  Operands = {0, 1, 3, 7, 8}
  MaxInsns = 4
  Back = 2
  Ahead = 1
  MaxCalls = 2
  Page = 9
  p1 = p1
  p2 = p2
  c1 = c1
  MaxOffset = 1
  None = None
  Half = 2
  ImmBits = 3
  OffBits = 2
SPECIFICATION VmSpec
INVARIANT PartsTypeOK Serializable StackLimited OnlyTheseAbort EbpfSound
PROPERTY WordsAgree RepeatsEnd
\* a frame ends, and so does each of the others at its bound
CHECK_DEADLOCK FALSE
