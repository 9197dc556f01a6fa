----------------------------- MODULE MCTransfers ----------------------------
(* CheckTx of every handler and GetTransfersByHash of those that have it,  *)
(* with two endpoints and one fork.                                        *)
EXTENDS TonTrace

MCChains == AllChains
=============================================================================
