-------------------------------- MODULE Wallet --------------------------------
(***************************************************************************)
(* A wallet from its backup to its transactions: the phrase is backed up   *)
(* and recovered (SeedBackup), and once the recovered one is the phrase of *)
(* the account expected, its key signs what a builder builds (TxBuilder).  *)
(***************************************************************************)
EXTENDS SeedBackup, TxBuilder

CONSTANT Own    \* the phrase of the account, generated by the wallet

ASSUME OwnAssumption == \E words \in {12, 24} : Own = GenerateMnemonic(words, Own.entropy)

VARIABLE unlocked

walletVars == <<backupVars, vars, unlocked>>

(* There is no builder yet: what Unlock sets is any.                       *)
WalletInit ==
    /\ BackupInit /\ Init /\ unlocked = FALSE
    /\ <<chain, facade, ingredient>> = CHOOSE b \in Chains \X Facades \X Drafts : TRUE

(* The caller compares the account of what was recovered with the one that *)
(* it expects, drops the backup and creates a builder for one of its chains.*)
Unlock ==
    /\ ~unlocked /\ answer # Nothing /\ answer.got = Own
    /\ unlocked' = TRUE
    /\ splits' = <<>> /\ document' = Nothing /\ answer' = Nothing
    /\ chain' \in Chains /\ facade' \in Facades /\ ingredient' \in Drafts
    /\ UNCHANGED <<imported, restored, builder, builds, attempt, key, outside, result>>

WalletNext ==
    \/ ~unlocked /\ BackupNext /\ UNCHANGED <<vars, unlocked>>
    \/ Unlock
    \/ unlocked /\ Next /\ UNCHANGED <<backupVars, unlocked>>

WalletSpec == WalletInit /\ [][WalletNext]_walletVars
=============================================================================
