----------------------------- MODULE MCTxPipeline -----------------------------
(* A small instance of TxPipeline: a client that sends as the validator does. *)
EXTENDS TxPipeline

CONSTANTS client, validator, vez, x

OneClient == {client}
OnlyValidator == {validator}
VezAndOne == {vez, x}
NoneOrOne == {0, 1}

=============================================================================
