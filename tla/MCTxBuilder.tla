----------------------------- MODULE MCTxBuilder ----------------------------
(* Every builder, with two ingredients that it accepts and two that it     *)
(* refuses.  The first spends two inputs.                                  *)
EXTENDS TxBuilder

Draft(fate, inputs, psbt, again) ==
    [fate |-> fate, inputs |-> inputs, psbt |-> psbt, prepared |-> again = "a", again |-> again]

MCDrafts == {Draft("built", 2, FALSE, "a"), Draft("built", 1, TRUE, "b"),
             Draft("invalid", 1, FALSE, "a"), Draft("unbuildable", 1, TRUE, "a")}
MCChains == {"evm", "tron", "algorand", "aptos", "filecoin", "multiversx", "near", "stellar",
             "substrate", "ton", "kaspa", "sui", "starknet", "solana", "btc", "sys", "cosmos"}
MCCosmos == {"cosmos"}
MCFacades == {"go", "mobile"}
=============================================================================
