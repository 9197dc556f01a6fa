------------------------------ MODULE TxBuilder ------------------------------
(***************************************************************************)
(* The transaction builders of signing/*: Build -> Sign -> ConcatSignature *)
(* of one builder, whose caller may sign in place or send what GetSigHash  *)
(* returns to a signer elsewhere, may change the ingredient and build      *)
(* again while the signer works, may go on after a Build that failed, and  *)
(* may go on in another process with the exported unsigned transaction.    *)
(* The chains share the interface and differ in what they reset and when,  *)
(* and in what ConcatSignature takes from where.                           *)
(***************************************************************************)
EXTENDS Naturals, Sequences, FiniteSets

CONSTANTS
    Chains,     \* the builders of this instance
    Facades,    \* subset of {"go", "mobile"}: signing/* or mobile/tx
    Drafts,     \* the ingredients that the caller may set
    MaxBuilds,  \* bound: calls of Build
    MaxHeld,    \* bound: signatures that the caller holds
    None        \* nothing

(* A draft: what Build makes of it, the number of inputs that it spends,   *)
(* IsPSBT, whether NewTxBuilderFromUnsignedHex reads it, and all that      *)
(* ConcatSignature would read again.                                       *)
AllDrafts == [fate : {"built", "invalid", "unbuildable"}, inputs : {1, 2}, psbt : BOOLEAN,
              prepared : BOOLEAN, again : {"a", "b"}]

(* A transaction is what one Build, the n-th, made of a draft.             *)
Tx == [draft : AllDrafts, n : Nat]
Attempt == [tx : Tx, ok : BOOLEAN]

ASSUME NoneAssumption == None \notin Tx \union Attempt
ASSUME DraftsAssumption == Drafts # {} /\ Drafts \subseteq AllDrafts
ASSUME BoundsAssumption == MaxBuilds \in Nat /\ MaxHeld \in Nat
ASSUME FacadesAssumption == Facades \subseteq {"go", "mobile"}

-----------------------------------------------------------------------------
(* How a builder treats what it built.  "btc" stands for LTC and DOGE too: *)
(*   first    reset as Build starts, before it looks at the ingredient     *)
(*   checked  reset once the ingredient is validated                       *)
(*   last     replaced, not extended, when Build succeeds                  *)
(*   each     a digest for each input, instead of one                      *)
(*   ownKey   Sign compares the key with the sender                        *)
(*   again    ConcatSignature reads the ingredient again                   *)
(*   checks   ConcatSignature refuses what the sender did not sign         *)
(*   reads    NewTxBuilderFromUnsignedHex reads: nothing, psbt, prepared   *)
(*            transactions, or every transaction                           *)
(*   hash     txHash: of the built transaction or of the digest when       *)
(*            concatenating, of the ingredient then, or when building      *)
Fields == {"sigHash", "unsignedHex", "txHash"}
Usual == [first |-> Fields, checked |-> {}, last |-> {}, each |-> FALSE, ownKey |-> FALSE,
          again |-> FALSE, checks |-> FALSE, reads |-> "nothing", hash |-> "built"]

Evm        == [Usual EXCEPT !.ownKey = TRUE]
Tron       == [Usual EXCEPT !.reads = "prepared"]
Algorand   == [Usual EXCEPT !.hash = "digest"]
Aptos      == [Usual EXCEPT !.again = TRUE]
Filecoin   == Usual
Multiversx == [Usual EXCEPT !.hash = "ingredient"]
Near       == [Usual EXCEPT !.hash = "digest"]
Stellar    == [Usual EXCEPT !.hash = "digest"]
Substrate  == [Usual EXCEPT !.again = TRUE]
Ton        == [Usual EXCEPT !.again = TRUE]
Kaspa      == [Usual EXCEPT !.each = TRUE, !.again = TRUE]
Sui        == [Usual EXCEPT !.reads = "every", !.hash = "building"]
Starknet   == [Usual EXCEPT !.first = {}, !.last = Fields, !.hash = "building"]

(* Mutant: the digest of the last Build is kept as well.                   *)
SolanaKeeping == [Usual EXCEPT !.first = {"txHash"}, !.again = TRUE, !.checks = TRUE, !.reads = "every"]

Solana     == [Usual EXCEPT !.first = {"sigHash", "txHash"}, !.again = TRUE, !.checks = TRUE,
                            !.reads = "every"]
Utxo       == [Usual EXCEPT !.first = {}, !.checked = Fields, !.each = TRUE, !.again = TRUE,
                            !.reads = "psbt"]
Cosmos     == [Usual EXCEPT !.first = {}]

Trait(c) ==
    CASE c = "evm" -> Evm               [] c = "tron" -> Tron
      [] c = "algorand" -> Algorand     [] c = "aptos" -> Aptos
      [] c = "filecoin" -> Filecoin     [] c = "multiversx" -> Multiversx
      [] c = "near" -> Near             [] c = "stellar" -> Stellar
      [] c = "substrate" -> Substrate   [] c = "ton" -> Ton
      [] c = "kaspa" -> Kaspa           [] c = "sui" -> Sui
      [] c = "starknet" -> Starknet     [] c = "solana" -> Solana
      [] c \in {"btc", "sys"} -> Utxo   [] c = "cosmos" -> Cosmos

ASSUME ChainsAssumption ==
    Chains \subseteq {"evm", "tron", "algorand", "aptos", "filecoin", "multiversx", "near",
                      "stellar", "substrate", "ton", "kaspa", "sui", "starknet", "solana",
                      "btc", "sys", "cosmos"}

-----------------------------------------------------------------------------
VARIABLES
    chain, facade,  \* of this behaviour
    ingredient,     \* of the builder
    imported,       \* the builder is one of NewTxBuilderFromUnsignedHex
    restored,       \* what was set by hand: "no", "hex", or "all" with the digests
    builder,        \* what it built: sigHash, unsignedHex, txHash
    builds,         \* the number of calls of Build
    attempt,        \* ghost: the last Build and whether it succeeded, None if the
                    \* caller changed the ingredient since
    key,            \* the caller's copy of the key: the owner's, or wiped
    exports,        \* unsigned transactions handed to another process
    asked,          \* digests sent to the signer
    held,           \* signatures
    result          \* what ConcatSignature returned of this builder

vars == <<chain, facade, ingredient, imported, restored, builder, builds, attempt, key, exports,
          asked, held, result>>
whole == <<chain, facade>>
outside == <<exports, asked, held>>

trait == Trait(chain)

(* What is signed of a transaction.                                        *)
Digests(tx) == [i \in 1 .. (IF trait.each THEN tx.draft.inputs ELSE 1) |-> <<tx, i>>]

Blank == [sigHash |-> <<>>, unsignedHex |-> None, txHash |-> None]
Reset(b, fields) == [f \in Fields |-> IF f \in fields THEN Blank[f] ELSE b[f]]

Signed(digests, k) == [i \in DOMAIN digests |-> [over |-> digests[i], key |-> k]]

Init ==
    /\ chain \in Chains /\ facade \in Facades
    /\ ingredient \in Drafts
    /\ imported = FALSE /\ restored = "no"
    /\ builder = Blank /\ builds = 0 /\ attempt = None
    /\ key = "owner"
    /\ exports = {} /\ asked = {} /\ held = {}
    /\ result = None

(* The caller changes the ingredient.                                      *)
SetIngredient(d) ==
    /\ ~imported /\ d # ingredient
    /\ ingredient' = d
    /\ attempt' = None /\ result' = None
    /\ UNCHANGED <<whole, imported, restored, builder, builds, key, outside>>

(* Build of a draft that the chain refuses, while it validates it or       *)
(* while it assembles the transaction.                                     *)
BuildRefused ==
    /\ builds < MaxBuilds /\ ~(imported /\ chain = "solana")
    /\ ingredient.fate # "built"
    /\ builder' = Reset(builder, trait.first \union
                                 IF ingredient.fate = "invalid" THEN {} ELSE trait.checked)
    /\ ingredient' = [ingredient EXCEPT !.psbt = @ \/ (chain = "sys" /\ ingredient.fate # "invalid")]
    /\ builds' = builds + 1
    /\ attempt' = [tx |-> [draft |-> ingredient, n |-> builds'], ok |-> FALSE]
    /\ result' = None
    /\ UNCHANGED <<whole, imported, restored, key, outside>>

(* Build of a draft that it accepts.  SYS always builds a PSBT.            *)
BuildAccepted ==
    /\ builds < MaxBuilds /\ ~imported
    /\ ingredient.fate = "built"
    /\ LET tx == [draft |-> ingredient, n |-> builds + 1]
           kept == Reset(builder, trait.first \union trait.checked \union trait.last)
       IN  /\ builder' = [sigHash     |-> kept.sigHash \o Digests(tx),
                          unsignedHex |-> tx,
                          txHash      |-> IF trait.hash = "building" THEN tx ELSE kept.txHash]
           /\ attempt' = [tx |-> tx, ok |-> TRUE]
    /\ ingredient' = [ingredient EXCEPT !.psbt = @ \/ chain = "sys"]
    /\ builds' = builds + 1
    /\ restored' = "no" /\ result' = None
    /\ UNCHANGED <<whole, imported, key, outside>>

(* Solana builds an imported transaction from its own unsignedHex.         *)
BuildImported ==
    /\ builds < MaxBuilds /\ imported /\ chain = "solana"
    /\ builder' = [builder EXCEPT !.sigHash = Digests(builder.unsignedHex), !.txHash = None]
    /\ builds' = builds + 1 /\ result' = None
    /\ UNCHANGED <<whole, ingredient, imported, restored, attempt, key, outside>>

-----------------------------------------------------------------------------
(* Mutant: one digest, also of the builders that have one for each input.  *)
CanSignOne(b, k) == Len(b.sigHash) = 1 /\ (trait.ownKey => k = "owner")

(* Sign: of as many digests as the builder of one transaction has.         *)
CanSign(b, k) ==
    /\ IF trait.each THEN Len(b.sigHash) >= 1 ELSE Len(b.sigHash) = 1
    /\ trait.ownKey => k = "owner"

(* The mobile facade wipes the key once it signed.                         *)
Sign ==
    /\ CanSign(builder, key) /\ Cardinality(held) < MaxHeld
    /\ held' = held \union {[sigs    |-> Signed(builder.sigHash, key),
                             attempt |-> IF key = "owner" THEN attempt ELSE None]}
    /\ key' = IF facade = "mobile" THEN "wiped" ELSE key
    /\ UNCHANGED <<whole, ingredient, imported, restored, builder, builds, attempt, exports,
                   asked, result>>

LoadKey ==
    /\ key # "owner" /\ key' = "owner"
    /\ UNCHANGED <<whole, ingredient, imported, restored, builder, builds, attempt, outside, result>>

(* The digests go to a signer elsewhere: all of them, the mobile facade    *)
(* shows the first one.                                                    *)
Shown == IF facade = "mobile" THEN SubSeq(builder.sigHash, 1, 1) ELSE builder.sigHash

AskSigner ==
    /\ builder.sigHash # <<>>
    /\ asked' = asked \union {[digests |-> Shown, attempt |-> attempt]}
    /\ UNCHANGED <<whole, ingredient, imported, restored, builder, builds, attempt, key, exports,
                   held, result>>

(* The signer answers when it likes, more than once if it is asked again.  *)
SignerAnswers(r) ==
    /\ r \in asked /\ Cardinality(held) < MaxHeld
    /\ held' = held \union {[sigs |-> Signed(r.digests, "owner"), attempt |-> r.attempt]}
    /\ UNCHANGED <<whole, ingredient, imported, restored, builder, builds, attempt, key, exports,
                   asked, result>>

-----------------------------------------------------------------------------
(* Mutant: any number of signatures.                                       *)
AcceptsAnyNumber(b, s) ==
    /\ b.unsignedHex # None
    /\ trait = Utxo => /\ b.sigHash # <<>>
                       /\ ingredient.psbt = (chain = "sys")
    /\ trait.checks => s = Signed(Digests(b.unsignedHex), "owner")

(* ConcatSignature accepts the signatures s.                               *)
Accepts(b, s) ==
    /\ b.unsignedHex # None
    /\ Len(s) = Len(Digests(b.unsignedHex))
    /\ trait = Utxo => /\ b.sigHash # <<>>
                       /\ ingredient.psbt = (chain = "sys")
    /\ trait.checks => s = Signed(Digests(b.unsignedHex), "owner")

(* It takes the first digest without looking whether there is one: always  *)
(* for its hash, or for a second signature (Solana, account activation).   *)
Panics(b) ==
    /\ b.unsignedHex # None /\ b.sigHash = <<>>
    /\ trait.hash = "digest" \/ (chain = "solana" /\ ingredient.again = "b")

Assembled(b, s) ==
    [tx |-> b.unsignedHex, sigs |-> s,
     again |-> IF trait.again THEN ingredient.again ELSE b.unsignedHex.draft.again]

HashAfter(b) ==
    CASE trait.hash = "built"      -> b.unsignedHex
      [] trait.hash = "digest"     -> b.sigHash[1][1]
      [] trait.hash = "ingredient" -> [b.unsignedHex EXCEPT !.draft = ingredient]
      [] trait.hash = "building"   -> b.txHash

ConcatSignature(s) ==
    /\ s \in held
    /\ Accepts(builder, s.sigs) /\ ~Panics(builder)
    /\ result' = [of |-> Assembled(builder, s.sigs), attempt |-> s.attempt]
    /\ builder' = [builder EXCEPT !.txHash = HashAfter(builder)]
    /\ UNCHANGED <<whole, ingredient, imported, restored, builds, attempt, key, outside>>

-----------------------------------------------------------------------------
(* GetUnsignedHex, given to another process.                               *)
Export ==
    /\ builder.unsignedHex # None
    /\ exports' = exports \union {builder.unsignedHex}
    /\ UNCHANGED <<whole, ingredient, imported, restored, builder, builds, attempt, key, asked,
                   held, result>>

(* UTXO reads PSBTs, which only SYS builds; Tron a prepared contract call. *)
Readable(tx) ==
    CASE trait.reads = "nothing"  -> FALSE
      [] trait.reads = "every"    -> TRUE
      [] trait.reads = "psbt"     -> chain = "sys"
      [] trait.reads = "prepared" -> tx.draft.prepared

(* NewTxBuilderFromUnsignedHex, in the other process.  It has no           *)
(* ingredient but, for UTXO, the public key and IsPSBT.                    *)
Import(tx) ==
    /\ tx \in exports /\ Readable(tx)
    /\ imported' = TRUE /\ restored' = "no"
    /\ builder' = [sigHash |-> Digests(tx), unsignedHex |-> tx,
                   txHash |-> IF trait.hash = "building" THEN tx ELSE None]
    /\ ingredient' = [tx.draft EXCEPT !.fate = "invalid", !.psbt = TRUE,
                                      !.again = IF trait = Utxo THEN @ ELSE "a"]
    /\ attempt' = [tx |-> tx, ok |-> TRUE] /\ result' = None
    /\ UNCHANGED <<whole, builds, key, outside>>

(* Another builder with the same ingredient, given what was built by       *)
(* SetUnsignedHex and, maybe, SetSigHash.                                  *)
Restore(what) ==
    /\ facade = "go" /\ ~imported /\ restored # "hex" /\ builder.unsignedHex # None
    /\ builder' = [builder EXCEPT !.txHash = None, !.sigHash = IF what = "all" THEN @ ELSE <<>>]
    /\ restored' = what /\ result' = None
    /\ UNCHANGED <<whole, ingredient, imported, builds, attempt, key, outside>>

Next ==
    \/ \E d \in Drafts : SetIngredient(d)
    \/ BuildRefused \/ BuildAccepted \/ BuildImported
    \/ Sign \/ LoadKey \/ AskSigner \/ Export
    \/ \E r \in asked : SignerAnswers(r)
    \/ \E s \in held : ConcatSignature(s)
    \/ \E tx \in exports : Import(tx)
    \/ \E what \in {"hex", "all"} : Restore(what)

Spec == Init /\ [][Next]_vars

-----------------------------------------------------------------------------
TypeOK ==
    /\ chain \in Chains /\ facade \in Facades /\ ingredient \in AllDrafts
    /\ imported \in BOOLEAN /\ restored \in {"no", "hex", "all"}
    /\ builds \in 0 .. MaxBuilds
    /\ builder.unsignedHex # None => \A i \in DOMAIN builder.sigHash : builder.sigHash[i][2] \in {1, 2}
    /\ key \in {"owner", "wiped"}
    /\ Cardinality(held) <= MaxHeld

(* What the network accepts: the owner's signatures over this transaction, *)
(* and what goes with them as it was when the transaction was built.       *)
Valid(r) == r.sigs = Signed(Digests(r.tx), "owner") /\ r.again = r.tx.draft.again

(* What the code leaves to its caller: the Cosmos builder, which adds a    *)
(* digest with each Build, builds once; a raw BTC transaction is not built *)
(* from an ingredient that says PSBT; an account activation of Solana is   *)
(* completed where it was built.                                           *)
OneBuild == chain = "cosmos" => builds <= 1
RawOfRaw(tx) == chain = "btc" => ~tx.draft.psbt
AtHome(tx) == chain = "solana" /\ imported => tx.draft.again = "a"

(* Built: the last Build succeeded, and the caller changed nothing since.  *)
Built == attempt # None /\ attempt.ok

(* What Build built can be completed: Sign with the owner's key works, and *)
(* ConcatSignature takes the result and returns a valid transaction, the   *)
(* one that was built, also in another process.  Every TxBuilder promises  *)
(* this: signing.TxBuilderHandler, Build, Sign, ConcatSignature.           *)
Completes ==
    LET s == Signed(builder.sigHash, "owner")
    IN  /\ CanSign(builder, "owner")
        /\ Accepts(builder, s) /\ ~Panics(builder)
        /\ builder.unsignedHex = attempt.tx
        /\ Valid(Assembled(builder, s))

BuiltCompletes ==
    /\ TypeOK
    /\ Built /\ OneBuild /\ RawOfRaw(attempt.tx) /\ AtHome(attempt.tx) /\ restored # "hex" => Completes

(* The same without the exception of Cosmos: README.md says that all       *)
(* builders keep one contract, so a transaction built again, with another  *)
(* fee, can be signed like the first one.                                  *)
RebuiltCompletes == Built /\ RawOfRaw(attempt.tx) /\ AtHome(attempt.tx) /\ restored # "hex" => Completes

(* ConcatSignature with the answer of a signer that was asked for what is  *)
(* built now returns that transaction, valid, however many other answers,  *)
(* builds, failed builds, exports and imports there were before, and       *)
(* however late the answer came (Build, Sign, ConcatSignature).  And       *)
(* GetTxHash, with which the caller polls CheckTx, names the transaction   *)
(* that the builder has, or none, and then the one that was returned,      *)
(* unless the builder was restored and knows the hash from Build only.     *)
SignedIsBuilt ==
    /\ result # None /\ Built /\ result.attempt = attempt /\ OneBuild /\ AtHome(attempt.tx)
         => result.of.tx = attempt.tx /\ Valid(result.of)
    /\ attempt # None /\ OneBuild =>
         /\ builder.txHash \in {None, builder.unsignedHex}
         /\ result # None => builder.txHash = result.of.tx \/ (restored # "no" /\ trait.hash = "building")

(* After a Build that failed nothing new can be signed: a caller who       *)
(* ignores the error, like the quick start of README.md, gets no           *)
(* transaction that the ingredient does not describe.  Of the builders     *)
(* that reset their digests first: UTXO, Starknet and Cosmos do not.       *)
RefusedIsNotSigned ==
    /\ chain \notin {"btc", "sys", "starknet", "cosmos"}
    /\ result # None /\ attempt # None /\ result.attempt = attempt
    => attempt.ok
=============================================================================
