---------------------------- MODULE MCSequencer ----------------------------
(* Small instances of Sequencer for TLC.                                   *)
EXTENDS Sequencer

CONSTANTS t1, t2, alice, r1

MCTxs      == {t1, t2}
MCAccounts == {alice}
\* both operations come from one sender: their composite keys collide
MCSender   == [t \in MCTxs |-> alice]
MCReaders  == {r1}
NoReaders  == {}
OneTx      == {t1}
OneSender  == [t \in OneTx |-> alice]
NoTxs      == {}
NoSender   == <<>>

AnyButRead  == {"rpc", "store", "vm", "crash"}
NoStoreRead == {"rpc", "vm", "crash"}
NoFaults    == {}

=============================================================================
