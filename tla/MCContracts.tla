------------------------------ MODULE MCContracts ------------------------------
(***************************************************************************)
(* Small instances of TxPipeline and of VmDispatch, which share no state    *)
(* here: each behaviour is one of a single part, chosen at the start, while *)
(* the other keeps its initial state.                                       *)
(***************************************************************************)
EXTENDS MCTxPipeline, VmDispatch

\* Programs: two of one length, solc's dispatchers both; one with a short dispatcher and
\* the selector of an error; one that fits a word; their creation codes; a creation code
\* that is text, one of three bytes, and the reason of a revert.
sA == <<169, 5, 156, 187>>
sB == <<1, 2, 3, 4>>
sC == <<222, 173, 190, 1>>
sE == <<8, 195, 121, 160>>
sL == <<0, 7, 7, 7>>
MCSelectors == {sA, sB, sC, sE, sL}
MCFallbackHash == <<85, 36, 16, 7>>
MCUnknownHash == <<44, 33, 22, 11>>
MCTextHash == <<99, 88, 77, 66>>
Start == <<96, 128, 96, 64>>
Stops(n) == [i \in 1..n |-> 0]
Initcode == <<96, 60, 96, 12, 96, 0, 57, 96, 60, 96, 0, 243>>
Entry4(s, to) == <<DUP1, PUSH4>> \o s \o <<EQ, PUSH2, to \div 256, to % 256, JUMPI>>
Entry3(s, to) == <<DUP1, PUSH3>> \o Tail(s) \o <<EQ, PUSH2, to \div 256, to % 256, JUMPI>>
Token == Start \o Entry4(sA, 71) \o Entry4(sB, 72) \o Stops(45) \o <<JUMPDEST, JUMPDEST, 0>>
Other == Start \o Entry4(sC, 71) \o Entry3(sL, 72) \o Stops(46) \o <<JUMPDEST, JUMPDEST, 0>>
Coin == Start \o Entry4(sA, 36) \o <<PUSH4>> \o sE \o Stops(16) \o <<JUMPDEST>> \o Stops(3)
Word == Start \o Entry4(sB, 15) \o <<JUMPDEST, 0>>
MCBytes == [
  token |-> Token, other |-> Other, coin |-> Coin, word |-> Word,
  newToken |-> Initcode \o Token, newOther |-> Initcode \o Other,
  newCoin |-> Initcode \o Coin, newWord |-> Initcode \o Word,
  plain |-> <<96, 1, 96, 1, 1, 80, 96, 0, 96, 0, 80, 0>>, tiny |-> <<96, 255, 0>>,
  reason |-> sE \o Stops(32)]
MCBytecodes == DOMAIN MCBytes

Made(creation, answer, finish, program) ==
  [creation |-> creation, answer |-> answer, finish |-> finish, meant |-> program]
MCDeployments == {
  Made("newToken", "token", "return", "token"), Made("newOther", "other", "return", "other"),
  Made("newCoin", "coin", "return", "coin"), Made("newWord", "word", "return", "word"),
  Made("token", NoProgram, "return", "token"), Made("other", NoProgram, "return", "other"),
  Made("newToken", "reason", "revert", NoProgram),
  Made("newToken", NoProgram, "error", NoProgram),
  Made("plain", NoProgram, "return", "plain"), Made("tiny", NoProgram, "return", "tiny")}

VARIABLE part
partsVars == <<part, vars, dispatchVars>>

PartsInit == part \in {"pipeline", "calls"} /\ Init /\ DispatchInit

PipelineNext == part = "pipeline" /\ Next /\ UNCHANGED <<part, dispatchVars>>
CallsNext == part = "calls" /\ DispatchNext /\ UNCHANGED <<part, vars>>
PartsNext == PipelineNext \/ CallsNext

PartsSpec == PartsInit /\ [][PartsNext]_partsVars

\* Calls: a function that the contract dispatches is run and nothing panics but for
\* what some program of the address had; what runs is what the last constructor gave;
\* no call of a contract becomes a transfer, and constructors run
CallsFindCode == part = "calls" => DispatchTypeOK /\ DispatchSound
=============================================================================
