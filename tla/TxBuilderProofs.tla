--------------------------- MODULE TxBuilderProofs ---------------------------
(***************************************************************************)
(* The protocol of the transaction builders, for every set of chains and   *)
(* drafts and any number of Builds and signatures: what can be signed and  *)
(* what is returned is the transaction that was built.                     *)
(*                                                                         *)
(* Then the amounts of the builders that spend coins, for any lists of     *)
(* coins and ingredients: the estimate is no less than the size that the   *)
(* network counts and little above it, and sorting a list or taking some   *)
(* of it is adding up the same coins in another order.                     *)
(***************************************************************************)
EXTENDS TxBuilder, UtxoBuild, FiniteFacts, SequenceTheorems

ResetOnBuild == trait.first \union trait.checked \union trait.last

(* What the proofs use of the table of traits: what Build resets.          *)
LEMMA ResetTraits ==
    ASSUME chain \in Chains
    PROVE  /\ chain # "cosmos" => "sigHash" \in ResetOnBuild /\ "txHash" \in ResetOnBuild
           /\ chain \notin {"btc", "sys", "starknet", "cosmos"} => "sigHash" \in trait.first
           /\ chain \in {"multiversx", "sui"} => trait.first = Fields
           /\ chain = "starknet" => trait.first = {} /\ trait.checked = {}
           /\ "unsignedHex" \in trait.first => {"sigHash", "txHash"} \subseteq trait.first
           /\ "unsignedHex" \in trait.checked => {"sigHash", "txHash"} \subseteq trait.checked
<1>. USE DEF ResetOnBuild, trait, Trait, Usual, Fields
<1>1. CASE chain = "evm"
  BY <1>1 DEF Evm, Utxo
<1>2. CASE chain = "tron"
  BY <1>2 DEF Tron, Utxo
<1>3. CASE chain = "algorand"
  BY <1>3 DEF Algorand, Utxo
<1>4. CASE chain = "aptos"
  BY <1>4 DEF Aptos, Utxo
<1>5. CASE chain = "filecoin"
  BY <1>5 DEF Filecoin, Utxo
<1>6. CASE chain = "multiversx"
  BY <1>6 DEF Multiversx, Utxo
<1>7. CASE chain = "near"
  BY <1>7 DEF Near, Utxo
<1>8. CASE chain = "stellar"
  BY <1>8 DEF Stellar, Utxo
<1>9. CASE chain = "substrate"
  BY <1>9 DEF Substrate, Utxo
<1>10. CASE chain = "ton"
  BY <1>10 DEF Ton, Utxo
<1>11. CASE chain = "kaspa"
  BY <1>11 DEF Kaspa, Utxo
<1>12. CASE chain = "sui"
  BY <1>12 DEF Sui, Utxo
<1>13. CASE chain = "starknet"
  BY <1>13 DEF Starknet, Utxo
<1>14. CASE chain = "solana"
  BY <1>14 DEF Solana, Utxo
<1>15. CASE chain \in {"btc", "sys"}
  BY <1>15 DEF Utxo
<1>16. CASE chain = "cosmos"
  BY <1>16 DEF Cosmos, Utxo
<1>. QED
  BY ChainsAssumption, <1>1, <1>2, <1>3, <1>4, <1>5, <1>6, <1>7, <1>8, <1>9, <1>10,
     <1>11, <1>12, <1>13, <1>14, <1>15, <1>16

(* And what the other operations do.                                       *)
LEMMA Traits ==
    ASSUME chain \in Chains
    PROVE  /\ trait = Utxo <=> chain \in {"btc", "sys"}
           /\ trait.each \in BOOLEAN
           /\ trait.again => chain \in {"aptos", "substrate", "ton", "kaspa", "solana", "btc", "sys"}
           /\ trait.checks => chain = "solana"
           /\ trait.reads = "every" => chain \in {"sui", "solana"}
           /\ trait.reads = "psbt" => chain \in {"btc", "sys"}
           /\ trait.reads = "prepared" => chain = "tron"
           /\ trait.reads \in {"nothing", "every", "psbt", "prepared"}
           /\ trait.hash \in {"built", "digest", "ingredient", "building"}
           /\ trait.hash = "ingredient" => chain = "multiversx"
           /\ trait.hash = "digest" => chain \in {"algorand", "near", "stellar"}
           /\ trait.hash = "building" => chain \in {"sui", "starknet"}
<1>. USE DEF ResetOnBuild, trait, Trait, Usual, Fields
<1>1. CASE chain = "evm"
  BY <1>1 DEF Evm, Utxo
<1>2. CASE chain = "tron"
  BY <1>2 DEF Tron, Utxo
<1>3. CASE chain = "algorand"
  BY <1>3 DEF Algorand, Utxo
<1>4. CASE chain = "aptos"
  BY <1>4 DEF Aptos, Utxo
<1>5. CASE chain = "filecoin"
  BY <1>5 DEF Filecoin, Utxo
<1>6. CASE chain = "multiversx"
  BY <1>6 DEF Multiversx, Utxo
<1>7. CASE chain = "near"
  BY <1>7 DEF Near, Utxo
<1>8. CASE chain = "stellar"
  BY <1>8 DEF Stellar, Utxo
<1>9. CASE chain = "substrate"
  BY <1>9 DEF Substrate, Utxo
<1>10. CASE chain = "ton"
  BY <1>10 DEF Ton, Utxo
<1>11. CASE chain = "kaspa"
  BY <1>11 DEF Kaspa, Utxo
<1>12. CASE chain = "sui"
  BY <1>12 DEF Sui, Utxo
<1>13. CASE chain = "starknet"
  BY <1>13 DEF Starknet, Utxo
<1>14. CASE chain = "solana"
  BY <1>14 DEF Solana, Utxo
<1>15. CASE chain \in {"btc", "sys"}
  BY <1>15 DEF Utxo
<1>16. CASE chain = "cosmos"
  BY <1>16 DEF Cosmos, Utxo
<1>. QED
  BY ChainsAssumption, <1>1, <1>2, <1>3, <1>4, <1>5, <1>6, <1>7, <1>8, <1>9, <1>10,
     <1>11, <1>12, <1>13, <1>14, <1>15, <1>16

-----------------------------------------------------------------------------
(* The variables stay within their types, and what was tried so far is     *)
(* numbered by the Builds so far.                                          *)
Recorded(a) == a = None \/ (a \in Attempt /\ a.tx.n <= builds)

TypeInv ==
    /\ chain \in Chains /\ facade \in Facades /\ ingredient \in AllDrafts
    /\ imported \in BOOLEAN /\ restored \in {"no", "hex", "all"}
    /\ builds \in 0 .. MaxBuilds
    /\ key \in {"owner", "wiped"}
    /\ DOMAIN builder = Fields /\ builder.unsignedHex \in Tx \union {None}
    /\ builder.unsignedHex # None => builder.unsignedHex.n <= builds
    /\ builder.sigHash \in Seq(Tx \X {1, 2})
    /\ exports \subseteq Tx /\ \A tx \in exports : tx.n <= builds
    /\ Recorded(attempt) /\ \A r \in asked \union held : Recorded(r.attempt)
    /\ IsFiniteSet(held) /\ Cardinality(held) <= MaxHeld

(* What the builder holds: the digests of its transaction or none, and of  *)
(* the transaction of the last Build if that succeeded.                    *)
BuilderInv ==
    /\ builder.sigHash = <<>> \/ builder.unsignedHex # None
    /\ OneBuild => builder.sigHash = <<>> \/ builder.sigHash = Digests(builder.unsignedHex)
    /\ Built => builder.unsignedHex = attempt.tx
    /\ Built /\ OneBuild /\ restored # "hex" => builder.sigHash = Digests(attempt.tx)
    /\ chain = "cosmos" /\ builds = 0 => builder.sigHash = <<>> /\ builder.unsignedHex = None

(* What the builder reads of the ingredient again is as it was.            *)
IngredientInv ==
    /\ imported => trait.reads # "nothing" /\ chain # "btc"
    /\ chain = "solana" /\ imported => Built /\ builder.unsignedHex # None
    /\ Built /\ trait.again /\ AtHome(attempt.tx) => ingredient.again = attempt.tx.draft.again
    /\ Built /\ chain = "btc" => ingredient.psbt = attempt.tx.draft.psbt
    /\ Built /\ chain = "sys" => ingredient.psbt
    /\ chain = "multiversx" /\ attempt # None /\ builder.unsignedHex # None
         => builder.unsignedHex.draft = ingredient

(* A signer was shown the digests of what was built, or the first of them. *)
ShownOf(tx) == {Digests(tx), SubSeq(Digests(tx), 1, 1)}
GoodAttempt(a) == a # None /\ a.ok

SignerInv ==
    OneBuild =>
      /\ \A r \in asked : GoodAttempt(r.attempt) => r.digests \in ShownOf(r.attempt.tx)
      /\ \A r \in held : GoodAttempt(r.attempt) =>
             \E ds \in ShownOf(r.attempt.tx) : r.sigs = Signed(ds, "owner")

(* Nothing was asked for, or signed, of a Build that failed.               *)
ResetsFirst == chain \notin {"btc", "sys", "starknet", "cosmos"}

RefusedInv ==
    ResetsFirst /\ attempt # None /\ ~attempt.ok =>
      /\ builder.sigHash = <<>>
      /\ \A r \in asked \union held : r.attempt # attempt

(* What was returned is still what the builder holds, with one of the      *)
(* signatures.                                                             *)
ResultInv ==
    result # None =>
      /\ builder.unsignedHex # None
      /\ \E s \in held : /\ result = [of |-> Assembled(builder, s.sigs), attempt |-> s.attempt]
                         /\ Len(s.sigs) = Len(Digests(builder.unsignedHex))

(* The hash is that of the transaction the builder holds; MultiversX, which*)
(* hashes the ingredient, only while that is what was built.               *)
HashInv ==
    OneBuild /\ (chain = "multiversx" => attempt # None) =>
      /\ builder.txHash \in {None, builder.unsignedHex}
      /\ trait.hash = "building" /\ builder.unsignedHex # None /\ restored = "no"
           => builder.txHash = builder.unsignedHex
      /\ result # None => \/ builder.txHash = builder.unsignedHex
                          \/ restored # "no" /\ trait.hash = "building"

ProtocolInv ==
    /\ TypeInv /\ BuilderInv /\ IngredientInv /\ SignerInv /\ RefusedInv /\ ResultInv /\ HashInv

-----------------------------------------------------------------------------
(* The digests of a transaction: one, or one for each of its inputs.       *)
LEMMA DigestsType ==
    ASSUME TypeInv, NEW tx \in Tx
    PROVE  /\ Digests(tx) \in Seq(Tx \X {1, 2})
           /\ Len(Digests(tx)) \in {1, 2}
           /\ ~trait.each => Len(Digests(tx)) = 1
           /\ Digests(tx)[1] = <<tx, 1>>
           /\ Digests(tx) # <<>>
<1>. DEFINE n == IF trait.each THEN tx.draft.inputs ELSE 1
<1>1. n \in {1, 2}
  BY DEF Tx, AllDrafts
<1>2. Digests(tx) = [i \in 1 .. n |-> <<tx, i>>]
  BY DEF Digests
<1>3. \A i \in 1 .. n : <<tx, i>> \in Tx \X {1, 2}
  BY <1>1
<1>4. Digests(tx) \in Seq(Tx \X {1, 2}) /\ Len(Digests(tx)) = n
  BY <1>1, <1>2, <1>3
<1>5. Digests(tx)[1] = <<tx, 1>>
  BY <1>1, <1>2
<1>. QED BY <1>1, <1>4, <1>5

(* As many signatures as digests are those of all of them.                 *)
LEMMA SignedWhole ==
    ASSUME TypeInv, NEW tx \in Tx, NEW ds \in ShownOf(tx), NEW s, s = Signed(ds, "owner"),
           Len(s) = Len(Digests(tx))
    PROVE  s = Signed(Digests(tx), "owner")
<1>1. Digests(tx) \in Seq(Tx \X {1, 2}) /\ Len(Digests(tx)) \in {1, 2}
  BY DigestsType
<1>2. CASE ds = Digests(tx)
  BY <1>2
<1>3. CASE ds = SubSeq(Digests(tx), 1, 1)
  <2>1. Len(ds) = 1 /\ ds \in Seq(Tx \X {1, 2})
    BY <1>1, <1>3
  <2>2. Len(s) = 1
    BY <2>1 DEF Signed
  <2>3. Len(Digests(tx)) = 1
    BY <2>2
  <2>4. SubSeq(Digests(tx), 1, Len(Digests(tx))) = Digests(tx)
    BY <1>1, SubSeqFull
  <2>5. ds = Digests(tx)
    BY <1>3, <2>3, <2>4
  <2>. QED BY <2>5
<1>. QED BY <1>2, <1>3 DEF ShownOf

(* There are as many signatures as digests (Sign).                         *)
LEMMA SignedLength ==
    ASSUME TypeInv, NEW tx \in Tx, NEW k
    PROVE  Len(Signed(Digests(tx), k)) = Len(Digests(tx))
<1>1. Digests(tx) \in Seq(Tx \X {1, 2})
  BY DigestsType
<1>. QED BY <1>1 DEF Signed

(* What Build resets is blank, and the rest is as before.                  *)
LEMMA ResetFields ==
    ASSUME NEW b, NEW fields
    PROVE  /\ DOMAIN Reset(b, fields) = Fields
           /\ Reset(b, fields).sigHash = IF "sigHash" \in fields THEN <<>> ELSE b.sigHash
           /\ Reset(b, fields).unsignedHex = IF "unsignedHex" \in fields THEN None ELSE b.unsignedHex
           /\ Reset(b, fields).txHash = IF "txHash" \in fields THEN None ELSE b.txHash
BY DEF Reset, Blank, Fields

(* Another Build: what was numbered by the Builds before still is.         *)
LEMMA StillNumbered ==
    ASSUME TypeInv, builds' = builds + 1
    PROVE  /\ builds \in Nat
           /\ \A x \in Tx : x.n <= builds => x.n <= builds'
           /\ \A a : Recorded(a) => Recorded(a)'
<1>1. builds \in Nat
  BY BoundsAssumption DEF TypeInv
<1>2. \A x \in Tx : x.n \in Nat
  BY DEF Tx
<1>3. \A x \in Tx : x.n <= builds => x.n <= builds'
  BY <1>1, <1>2
<1>4. \A a \in Attempt : a.tx \in Tx
  BY DEF Attempt
<1>. QED BY <1>1, <1>3, <1>4 DEF Recorded

(* One signature more, within the bound.                                   *)
LEMMA OneMoreHeld ==
    ASSUME TypeInv, NEW r, Cardinality(held) < MaxHeld, held' = held \union {r}
    PROVE  IsFiniteSet(held') /\ Cardinality(held') <= MaxHeld
<1>1. IsFiniteSet(held)
  BY DEF TypeInv
<1>2. Cardinality(held) \in Nat
  BY <1>1, FS_CardinalityType
<1>3. /\ IsFiniteSet(held \union {r})
      /\ Cardinality(held \union {r}) = IF r \in held THEN Cardinality(held) ELSE Cardinality(held) + 1
  BY <1>1, FS_AddElement
<1>. DEFINE before == Cardinality(held)
            after == Cardinality(held \union {r})
<1>4. before \in Nat /\ after \in {before, before + 1} /\ before < MaxHeld
  BY <1>2, <1>3
<1>5. Cardinality(held') = after
  OBVIOUS
<1>. HIDE DEF before, after
<1>6. after <= MaxHeld
  BY <1>4, BoundsAssumption
<1>. QED BY <1>3, <1>5, <1>6

-----------------------------------------------------------------------------
(* A new builder.                                                          *)
LEMMA InitProtocol == Init => ProtocolInv
<1>. SUFFICES ASSUME Init PROVE ProtocolInv
  OBVIOUS
<1>1. /\ DOMAIN builder = Fields /\ builder.sigHash = <<>>
      /\ builder.unsignedHex = None /\ builder.txHash = None
  BY DEF Init, Blank, Fields
<1>2. IsFiniteSet(held) /\ Cardinality(held) = 0
  BY FS_EmptySet DEF Init
<1>3. TypeInv
  <2>1. /\ chain \in Chains /\ facade \in Facades /\ ingredient \in AllDrafts
        /\ imported \in BOOLEAN /\ restored \in {"no", "hex", "all"}
        /\ key \in {"owner", "wiped"} /\ exports \subseteq Tx /\ \A tx \in exports : tx.n <= builds
        /\ Recorded(attempt) /\ \A r \in asked \union held : Recorded(r.attempt)
    BY DraftsAssumption DEF Init, Recorded
  <2>2. builds \in 0 .. MaxBuilds /\ Cardinality(held) <= MaxHeld
    BY <1>2, BoundsAssumption DEF Init
  <2>3. builder.sigHash \in Seq(Tx \X {1, 2})
    BY <1>1
  <2>. QED BY <1>1, <1>2, <2>1, <2>2, <2>3 DEF TypeInv
<1>4. BuilderInv /\ IngredientInv /\ SignerInv /\ RefusedInv /\ ResultInv /\ HashInv
  BY <1>1 DEF Init, BuilderInv, IngredientInv, SignerInv, RefusedInv, ResultInv, HashInv, Built
<1>. QED BY <1>3, <1>4 DEF ProtocolInv

(* The caller changes the ingredient: nothing was built of this one.       *)
LEMMA SetStep ==
    ASSUME ProtocolInv, NEW d \in Drafts, SetIngredient(d)
    PROVE  ProtocolInv'
<1>. USE DEF ProtocolInv, whole, outside
<1>1. /\ attempt' = None /\ result' = None /\ ingredient' = d /\ ~imported
      /\ chain' = chain /\ facade' = facade /\ imported' = imported /\ restored' = restored
      /\ builder' = builder /\ builds' = builds /\ key' = key
      /\ exports' = exports /\ asked' = asked /\ held' = held
  BY DEF SetIngredient
<1>2. TypeInv'
  BY <1>1, DraftsAssumption DEF TypeInv, Recorded
<1>3. BuilderInv' /\ IngredientInv'
  BY <1>1 DEF BuilderInv, IngredientInv, Built, OneBuild, Digests, trait, AtHome, TypeInv
<1>4. SignerInv' /\ RefusedInv' /\ ResultInv'
  BY <1>1 DEF SignerInv, RefusedInv, ResultInv, OneBuild, GoodAttempt, ShownOf, Digests, trait, Signed
<1>5. HashInv'
  BY <1>1 DEF HashInv, OneBuild, trait
<1>. QED BY <1>2, <1>3, <1>4, <1>5

(* A Build that fails resets first what it resets, and nothing was ever    *)
(* signed of it.                                                           *)
LEMMA RefusedStep ==
    ASSUME ProtocolInv, BuildRefused
    PROVE  ProtocolInv'
<1>. USE DEF ProtocolInv, whole, outside
<1>. DEFINE fields == trait.first \union IF ingredient.fate = "invalid" THEN {} ELSE trait.checked
<1>1. /\ builder' = Reset(builder, fields)
      /\ chain' = chain /\ facade' = facade /\ imported' = imported /\ restored' = restored
      /\ builds < MaxBuilds /\ builds' = builds + 1 /\ result' = None /\ key' = key
      /\ ~(imported /\ chain = "solana")
      /\ ingredient' = [ingredient EXCEPT !.psbt = @ \/ (chain = "sys" /\ ingredient.fate # "invalid")]
      /\ attempt' = [tx |-> [draft |-> ingredient, n |-> builds'], ok |-> FALSE]
      /\ exports' = exports /\ asked' = asked /\ held' = held
  BY DEF BuildRefused
<1>2. /\ DOMAIN builder' = Fields
      /\ builder'.sigHash = IF "sigHash" \in fields THEN <<>> ELSE builder.sigHash
      /\ builder'.unsignedHex = IF "unsignedHex" \in fields THEN None ELSE builder.unsignedHex
      /\ builder'.txHash = IF "txHash" \in fields THEN None ELSE builder.txHash
  BY <1>1, ResetFields
<1>3. /\ "unsignedHex" \in fields => {"sigHash", "txHash"} \subseteq fields
      /\ ResetsFirst => "sigHash" \in fields
      /\ chain \in {"multiversx", "sui"} => "unsignedHex" \in fields
      /\ trait.hash = "building" /\ "txHash" \in fields => "unsignedHex" \in fields
  BY ResetTraits, Traits DEF TypeInv, ResetsFirst, Fields
<1>. HIDE DEF fields
<1>4. /\ attempt' \in Attempt /\ attempt'.tx.n = builds + 1 /\ ~attempt'.ok /\ attempt' # None
      /\ builds \in Nat
  <2>1. builds \in Nat /\ builds + 1 \in Nat
    BY BoundsAssumption DEF TypeInv
  <2>2. attempt' \in Attempt
    BY <1>1, <2>1 DEF TypeInv, Attempt, Tx
  <2>. QED BY <1>1, <2>1, <2>2, NoneAssumption
<1>5. TypeInv'
  <2>1. ingredient' \in AllDrafts
    BY <1>1 DEF TypeInv, AllDrafts
  <2>2. builds' \in 0 .. MaxBuilds
    BY <1>1, <1>4, BoundsAssumption
  <2>3. Recorded(attempt)' /\ \A r \in asked' \union held' : Recorded(r.attempt)'
    BY <1>1, <1>4, StillNumbered DEF TypeInv, Recorded
  <2>4. /\ builder'.unsignedHex \in Tx \union {None}
        /\ builder'.unsignedHex # None => builder'.unsignedHex.n <= builds'
        /\ \A x \in exports : x.n <= builds'
    BY <1>1, <1>2, StillNumbered DEF TypeInv
  <2>5. builder'.sigHash \in Seq(Tx \X {1, 2})
    BY <1>2 DEF TypeInv
  <2>. QED BY <1>1, <1>2, <2>1, <2>2, <2>3, <2>4, <2>5 DEF TypeInv
<1>6. OneBuild' => OneBuild
  BY <1>1, <1>4 DEF OneBuild
<1>7. \A tx : Digests(tx)' = Digests(tx)
  BY <1>1 DEF Digests, trait
<1>8. BuilderInv'
  <2>1. builder'.sigHash = <<>> \/ builder'.unsignedHex # None
    BY <1>2, <1>3 DEF BuilderInv
  <2>2. OneBuild => builder'.sigHash = <<>> \/ builder'.sigHash = Digests(builder'.unsignedHex)
    BY <1>2, <1>3 DEF BuilderInv
  <2>3. ~Built' /\ builds' # 0
    BY <1>1, <1>4 DEF Built
  <2>. QED BY <1>6, <1>7, <2>1, <2>2, <2>3 DEF BuilderInv
<1>9. IngredientInv'
  BY <1>1, <1>2, <1>3, <1>4 DEF IngredientInv, Built, trait
<1>10. SignerInv'
  BY <1>1, <1>6, <1>7 DEF SignerInv, GoodAttempt, ShownOf, Signed
<1>11. RefusedInv'
  <2>1. \A r \in asked \union held : r.attempt # attempt'
    BY <1>1, <1>4 DEF TypeInv, Recorded, Attempt, Tx
  <2>. QED BY <1>1, <1>2, <1>3, <2>1 DEF RefusedInv, ResetsFirst
<1>12. ResultInv'
  BY <1>1 DEF ResultInv
<1>13. HashInv'
  <2>1. CASE "unsignedHex" \in fields
    BY <1>1, <1>2, <1>3, <2>1 DEF HashInv
  <2>2. CASE "unsignedHex" \notin fields
    <3>1. chain # "multiversx" /\ OneBuild' => OneBuild
      BY <1>1, <1>3, <1>4, <2>2 DEF OneBuild
    <3>2. trait' = trait
      BY <1>1 DEF trait
    <3>3. "unsignedHex" \notin fields /\ chain # "multiversx"
      BY <1>3, <2>2
    <3>4. builder'.unsignedHex = builder.unsignedHex /\ builder'.txHash \in {None, builder.txHash}
          /\ (trait.hash = "building" => builder'.txHash = builder.txHash)
      BY <1>2, <1>3, <3>3
    <3>. QED BY <1>1, <3>1, <3>2, <3>3, <3>4 DEF HashInv
  <2>. QED BY <2>1, <2>2
<1>. QED BY <1>5, <1>8, <1>9, <1>10, <1>11, <1>12, <1>13

(* A Build that succeeds leaves the digests of its transaction alone.      *)
LEMMA AcceptedStep ==
    ASSUME ProtocolInv, BuildAccepted
    PROVE  ProtocolInv'
<1>. USE DEF ProtocolInv, whole, outside
<1>0. chain # "cosmos" => "sigHash" \in ResetOnBuild /\ "txHash" \in ResetOnBuild
  <2>1. chain \in Chains
    BY DEF TypeInv
  <2>. QED BY <2>1, ResetTraits
<1>. DEFINE tx == [draft |-> ingredient, n |-> builds + 1]
            kept == Reset(builder, ResetOnBuild)
<1>1. /\ builder' = [sigHash |-> kept.sigHash \o Digests(tx), unsignedHex |-> tx,
                     txHash |-> IF trait.hash = "building" THEN tx ELSE kept.txHash]
      /\ attempt' = [tx |-> tx, ok |-> TRUE]
      /\ chain' = chain /\ facade' = facade /\ imported' = imported /\ restored' = "no"
      /\ builds < MaxBuilds /\ builds' = builds + 1 /\ result' = None /\ key' = key
      /\ ~imported
      /\ ingredient' = [ingredient EXCEPT !.psbt = @ \/ chain = "sys"]
      /\ exports' = exports /\ asked' = asked /\ held' = held
  BY DEF BuildAccepted, ResetOnBuild
<1>2. builds \in Nat /\ tx \in Tx /\ tx # None /\ attempt' \in Attempt /\ attempt' # None
  <2>1. builds \in Nat /\ builds + 1 \in Nat
    BY BoundsAssumption DEF TypeInv
  <2>2. tx \in Tx
    BY <2>1 DEF TypeInv, Tx
  <2>3. attempt' \in Attempt
    BY <1>1, <2>2 DEF Attempt
  <2>. QED BY <2>1, <2>2, <2>3, NoneAssumption
<1>3. /\ DOMAIN builder' = Fields /\ builder'.unsignedHex = tx
      /\ builder'.sigHash = kept.sigHash \o Digests(tx)
      /\ builder'.txHash = IF trait.hash = "building" THEN tx ELSE kept.txHash
  BY <1>1 DEF Fields
<1>4. OneBuild' => kept.sigHash = <<>>
  <2>1. CASE "sigHash" \in ResetOnBuild
    BY <2>1, ResetFields
  <2>2. CASE "sigHash" \notin ResetOnBuild
    <3>1. chain = "cosmos"
      BY <1>0, <2>2
    <3>2. OneBuild' => builds = 0
      BY <1>1, <1>2, <3>1 DEF OneBuild
    <3>3. builds = 0 => builder.sigHash = <<>>
      BY <3>1 DEF BuilderInv
    <3>. QED BY <2>2, <3>2, <3>3, ResetFields
  <2>. QED BY <2>1, <2>2
<1>5. OneBuild' => kept.txHash = None
  <2>1. CASE "txHash" \in ResetOnBuild
    BY <2>1, ResetFields
  <2>2. CASE "txHash" \notin ResetOnBuild
    <3>1. chain = "cosmos"
      BY <1>0, <2>2
    <3>2. OneBuild' => builds = 0 /\ OneBuild
      BY <1>1, <1>2, <3>1 DEF OneBuild
    <3>3. OneBuild' => builder.txHash = None
      BY <3>1, <3>2 DEF BuilderInv, HashInv
    <3>. QED BY <2>2, <3>3, ResetFields
  <2>. QED BY <2>1, <2>2
<1>6. Digests(tx) \in Seq(Tx \X {1, 2}) /\ Digests(tx) # <<>>
  BY <1>2, DigestsType
<1>7. OneBuild' => builder'.sigHash = Digests(tx)
  BY <1>3, <1>4, <1>6, ConcatEmptySeq
<1>8. \A x : Digests(x)' = Digests(x)
  BY <1>1 DEF Digests, trait
<1>9. OneBuild' => OneBuild
  BY <1>1, <1>2 DEF OneBuild
<1>10. attempt'.tx = tx /\ attempt'.ok
  BY <1>1
<1>11. ingredient.psbt \in BOOLEAN /\ ingredient' = [ingredient EXCEPT !.psbt = ingredient'.psbt]
       /\ ingredient'.psbt \in BOOLEAN /\ (chain # "sys" => ingredient' = ingredient)
       /\ (chain = "sys" => ingredient'.psbt) /\ ingredient'.again = ingredient.again
  BY <1>1 DEF TypeInv, AllDrafts
<1>12. tx.draft = ingredient /\ tx.n = builds + 1 /\ \A x \in exports : x.n <= builds'
  <2>1. \A x \in exports : x.n <= builds'
    BY <1>1, StillNumbered DEF TypeInv
  <2>. QED BY <2>1
<1>. HIDE DEF tx, kept
<1>13. TypeInv'
  <2>1. ingredient' \in AllDrafts
    BY <1>11 DEF TypeInv, AllDrafts
  <2>2. builds' \in 0 .. MaxBuilds
    BY <1>1, <1>2, BoundsAssumption
  <2>3. Recorded(attempt)' /\ \A r \in asked' \union held' : Recorded(r.attempt)'
    BY <1>1, <1>2, <1>10, <1>12 DEF TypeInv, Recorded, Attempt, Tx
  <2>4. builder'.sigHash \in Seq(Tx \X {1, 2})
    <3>1. kept.sigHash \in Seq(Tx \X {1, 2})
      <4>1. kept.sigHash \in {<<>>, builder.sigHash}
        BY ResetFields DEF kept
      <4>2. <<>> \in Seq(Tx \X {1, 2}) /\ builder.sigHash \in Seq(Tx \X {1, 2})
        BY DEF TypeInv
      <4>. QED BY <4>1, <4>2
    <3>. QED BY <1>3, <1>6, <3>1
  <2>. QED BY <1>1, <1>2, <1>3, <1>12, <2>1, <2>2, <2>3, <2>4 DEF TypeInv
<1>14. BuilderInv'
  BY <1>1, <1>2, <1>3, <1>7, <1>8, <1>10 DEF BuilderInv
<1>15. IngredientInv'
  <2>1. trait' = trait
    BY <1>1 DEF trait
  <2>. QED BY <1>1, <1>3, <1>10, <1>11, <1>12, <2>1 DEF IngredientInv
<1>16. SignerInv'
  BY <1>1, <1>8, <1>9 DEF SignerInv, GoodAttempt, ShownOf, Signed
<1>17. RefusedInv' /\ ResultInv'
  BY <1>1, <1>10 DEF RefusedInv, ResultInv
<1>18. HashInv'
  <2>2. trait' = trait
    BY <1>1 DEF trait
  <2>. QED BY <1>1, <1>3, <1>5, <2>2 DEF HashInv
<1>. QED BY <1>13, <1>14, <1>15, <1>16, <1>17, <1>18

(* Solana's Build of an imported transaction makes its digest again.       *)
LEMMA ImportedStep ==
    ASSUME ProtocolInv, BuildImported
    PROVE  ProtocolInv'
<1>. USE DEF ProtocolInv, whole, outside
<1>1. /\ builder' = [builder EXCEPT !.sigHash = Digests(builder.unsignedHex), !.txHash = None]
      /\ chain = "solana" /\ imported /\ builds < MaxBuilds /\ builds' = builds + 1
      /\ result' = None /\ chain' = chain /\ facade' = facade /\ ingredient' = ingredient
      /\ imported' = imported /\ restored' = restored /\ attempt' = attempt /\ key' = key
      /\ exports' = exports /\ asked' = asked /\ held' = held
  BY DEF BuildImported
<1>2. Built /\ builder.unsignedHex # None /\ builder.unsignedHex = attempt.tx
  BY <1>1 DEF IngredientInv, BuilderInv
<1>3. /\ DOMAIN builder' = Fields /\ builder'.sigHash = Digests(builder.unsignedHex)
      /\ builder'.unsignedHex = builder.unsignedHex /\ builder'.txHash = None
  BY <1>1 DEF TypeInv, Fields
<1>4. /\ \A x : Digests(x)' = Digests(x)
      /\ trait' = trait /\ OneBuild /\ OneBuild' /\ Built'
  BY <1>1, <1>2 DEF Digests, trait, OneBuild, Built
<1>5. TypeInv'
  <2>1. builds \in Nat /\ builds' \in 0 .. MaxBuilds /\ builds <= builds'
    BY <1>1, BoundsAssumption DEF TypeInv
  <2>2. Recorded(attempt)' /\ \A r \in asked' \union held' : Recorded(r.attempt)'
    BY <1>1, StillNumbered DEF TypeInv, Recorded
  <2>3. /\ builder.unsignedHex # None => builder.unsignedHex.n <= builds'
        /\ \A x \in exports : x.n <= builds'
    BY <1>1, StillNumbered DEF TypeInv
  <2>4. builder'.sigHash \in Seq(Tx \X {1, 2})
    <3>1. builder.unsignedHex \in Tx
      BY <1>2 DEF TypeInv
    <3>. QED BY <1>3, <3>1, DigestsType
  <2>. QED BY <1>1, <1>3, <2>1, <2>2, <2>3, <2>4 DEF TypeInv
<1>6. BuilderInv' /\ IngredientInv'
  BY <1>1, <1>2, <1>3, <1>4 DEF BuilderInv, IngredientInv, AtHome
<1>7. SignerInv'
  BY <1>1, <1>4 DEF SignerInv, GoodAttempt, ShownOf, Signed
<1>8. RefusedInv' /\ ResultInv'
  BY <1>1, <1>2 DEF RefusedInv, ResultInv, Built
<1>9. HashInv'
  <2>1. trait.hash # "building"
    <3>1. chain \in Chains
      BY DEF TypeInv
    <3>. QED BY <1>1, <3>1, Traits
  <2>. QED BY <1>1, <1>3, <1>4, <2>1 DEF HashInv
<1>. QED BY <1>5, <1>6, <1>7, <1>8, <1>9

(* Steps that leave the builder, its ingredient and the result alone.      *)
SameBuilder ==
    /\ UNCHANGED <<chain, facade, ingredient, imported, restored, builder, builds, attempt, result>>
    /\ key' \in {"owner", "wiped"}
    /\ held \subseteq held'

(* Their part of the invariant, but for what was signed.                   *)
LEMMA SameBuilderStep ==
    ASSUME ProtocolInv, SameBuilder
    PROVE  BuilderInv' /\ IngredientInv' /\ ResultInv' /\ HashInv'
<1>1. /\ \A x : Digests(x)' = Digests(x)
      /\ trait' = trait /\ OneBuild' = OneBuild /\ Built' = Built
  BY DEF SameBuilder, Digests, trait, OneBuild, Built
<1>2. BuilderInv' /\ IngredientInv' /\ HashInv'
  BY <1>1 DEF ProtocolInv, SameBuilder, BuilderInv, IngredientInv, HashInv, AtHome
<1>3. ResultInv'
  BY <1>1 DEF ProtocolInv, SameBuilder, ResultInv, Assembled
<1>. QED BY <1>2, <1>3

(* What a signature of the digests of the builder is.                      *)
LEMMA SignStep ==
    ASSUME ProtocolInv, Sign
    PROVE  ProtocolInv'
<1>. USE DEF ProtocolInv, whole
<1>. DEFINE r == [sigs |-> Signed(builder.sigHash, key),
                  attempt |-> IF key = "owner" THEN attempt ELSE None]
<1>1. /\ CanSign(builder, key) /\ Cardinality(held) < MaxHeld /\ held' = held \union {r}
      /\ key' \in {"owner", "wiped"} /\ asked' = asked /\ exports' = exports
      /\ SameBuilder
  BY DEF Sign, SameBuilder, TypeInv
<1>2. r.attempt = (IF key = "owner" THEN attempt ELSE None) /\ r.sigs = Signed(builder.sigHash, key)
  OBVIOUS
<1>. HIDE DEF r
<1>3. builder.sigHash # <<>>
  BY <1>1 DEF CanSign
<1>4. TypeInv'
  <2>1. IsFiniteSet(held') /\ Cardinality(held') <= MaxHeld
    BY <1>1, OneMoreHeld
  <2>2. Recorded(attempt)' /\ \A s \in asked' \union held' : Recorded(s.attempt)'
    BY <1>1, <1>2 DEF TypeInv, Recorded, SameBuilder
  <2>. QED BY <1>1, <2>1, <2>2 DEF TypeInv, SameBuilder
<1>5. SignerInv'
  <2>1. SUFFICES ASSUME OneBuild
                 PROVE  /\ \A s \in asked : GoodAttempt(s.attempt) => s.digests \in ShownOf(s.attempt.tx)
                        /\ \A s \in held \union {r} : GoodAttempt(s.attempt) =>
                               \E ds \in ShownOf(s.attempt.tx) : s.sigs = Signed(ds, "owner")
    BY <1>1 DEF SignerInv, SameBuilder, GoodAttempt, ShownOf, Digests, trait, Signed, OneBuild
  <2>2. ASSUME GoodAttempt(r.attempt)
        PROVE  r.sigs = Signed(Digests(r.attempt.tx), "owner")
    <3>1. key = "owner" /\ r.attempt = attempt /\ Built
      BY <1>2, <2>2 DEF GoodAttempt, Built
    <3>2. builder.sigHash = Digests(attempt.tx)
      BY <1>3, <2>1, <3>1 DEF BuilderInv
    <3>. QED BY <1>2, <3>1, <3>2
  <2>. QED BY <2>1, <2>2 DEF SignerInv, ShownOf
<1>6. RefusedInv'
  BY <1>1, <1>2, <1>3 DEF RefusedInv, SameBuilder, ResetsFirst
<1>. QED BY <1>1, <1>4, <1>5, <1>6, SameBuilderStep

(* The caller loads the key again, or exports what was built.              *)
LEMMA LoadStep ==
    ASSUME ProtocolInv, LoadKey \/ Export \/ UNCHANGED vars
    PROVE  ProtocolInv'
<1>. USE DEF ProtocolInv, whole, outside
<1>1. SameBuilder /\ held' = held /\ asked' = asked
  BY DEF LoadKey, Export, vars, SameBuilder, TypeInv
<1>2. exports' \subseteq Tx /\ \A tx \in exports' : tx.n <= builds
  BY DEF LoadKey, Export, vars, TypeInv
<1>3. TypeInv'
  BY <1>1, <1>2 DEF TypeInv, SameBuilder, Recorded
<1>4. SignerInv' /\ RefusedInv'
  BY <1>1 DEF SignerInv, RefusedInv, SameBuilder, GoodAttempt, ShownOf, Digests, trait, Signed,
              OneBuild, ResetsFirst
<1>. QED BY <1>1, <1>3, <1>4, SameBuilderStep

(* The digests that go to a signer are of what is built.                   *)
LEMMA AskStep ==
    ASSUME ProtocolInv, AskSigner
    PROVE  ProtocolInv'
<1>. USE DEF ProtocolInv, whole
<1>. DEFINE r == [digests |-> Shown, attempt |-> attempt]
<1>1. /\ builder.sigHash # <<>> /\ asked' = asked \union {r}
      /\ SameBuilder /\ held' = held /\ exports' = exports
  BY DEF AskSigner, SameBuilder, TypeInv
<1>2. r.attempt = attempt /\ r.digests = Shown
  OBVIOUS
<1>. HIDE DEF r
<1>3. TypeInv'
  BY <1>1, <1>2 DEF TypeInv, SameBuilder, Recorded
<1>4. SignerInv'
  <2>1. SUFFICES ASSUME OneBuild
                 PROVE  /\ \A s \in asked \union {r} : GoodAttempt(s.attempt) => s.digests \in ShownOf(s.attempt.tx)
                        /\ \A s \in held : GoodAttempt(s.attempt) =>
                               \E ds \in ShownOf(s.attempt.tx) : s.sigs = Signed(ds, "owner")
    BY <1>1 DEF SignerInv, SameBuilder, GoodAttempt, ShownOf, Digests, trait, Signed, OneBuild
  <2>2. ASSUME GoodAttempt(r.attempt)
        PROVE  r.digests \in ShownOf(r.attempt.tx)
    <3>1. builder.sigHash = Digests(attempt.tx)
      <4>1. Built
        BY <1>2, <2>2 DEF GoodAttempt, Built
      <4>. QED BY <1>1, <2>1, <4>1 DEF BuilderInv
    <3>. QED BY <1>2, <3>1 DEF ShownOf, Shown
  <2>. QED BY <2>1, <2>2 DEF SignerInv
<1>5. RefusedInv'
  BY <1>1, <1>2 DEF RefusedInv, SameBuilder, ResetsFirst
<1>. QED BY <1>1, <1>3, <1>4, <1>5, SameBuilderStep

(* Its answer is over the digests that it was asked for.                   *)
LEMMA AnswerStep ==
    ASSUME ProtocolInv, NEW q \in asked, SignerAnswers(q)
    PROVE  ProtocolInv'
<1>. USE DEF ProtocolInv, whole
<1>. DEFINE r == [sigs |-> Signed(q.digests, "owner"), attempt |-> q.attempt]
<1>1. /\ Cardinality(held) < MaxHeld /\ held' = held \union {r}
      /\ SameBuilder /\ asked' = asked /\ exports' = exports
  BY DEF SignerAnswers, SameBuilder, TypeInv
<1>2. r.attempt = q.attempt /\ r.sigs = Signed(q.digests, "owner")
  OBVIOUS
<1>. HIDE DEF r
<1>3. TypeInv'
  <2>1. IsFiniteSet(held') /\ Cardinality(held') <= MaxHeld
    BY <1>1, OneMoreHeld
  <2>2. Recorded(attempt)' /\ \A s \in asked' \union held' : Recorded(s.attempt)'
    BY <1>1, <1>2 DEF TypeInv, Recorded, SameBuilder
  <2>. QED BY <1>1, <2>1, <2>2 DEF TypeInv, SameBuilder
<1>4. SignerInv'
  <2>1. SUFFICES ASSUME OneBuild
                 PROVE  /\ \A s \in asked : GoodAttempt(s.attempt) => s.digests \in ShownOf(s.attempt.tx)
                        /\ \A s \in held \union {r} : GoodAttempt(s.attempt) =>
                               \E ds \in ShownOf(s.attempt.tx) : s.sigs = Signed(ds, "owner")
    BY <1>1 DEF SignerInv, SameBuilder, GoodAttempt, ShownOf, Digests, trait, Signed, OneBuild
  <2>2. GoodAttempt(r.attempt) => q.digests \in ShownOf(r.attempt.tx)
    BY <1>2, <2>1 DEF SignerInv
  <2>. QED BY <1>2, <2>1, <2>2 DEF SignerInv
<1>5. RefusedInv'
  BY <1>1, <1>2 DEF RefusedInv, SameBuilder, ResetsFirst
<1>. QED BY <1>1, <1>3, <1>4, <1>5, SameBuilderStep

(* What is returned is of the transaction that the builder holds.          *)
LEMMA ConcatStep ==
    ASSUME ProtocolInv, NEW s \in held, ConcatSignature(s)
    PROVE  ProtocolInv'
<1>. USE DEF ProtocolInv, whole, outside
<1>1. /\ Accepts(builder, s.sigs) /\ ~Panics(builder)
      /\ result' = [of |-> Assembled(builder, s.sigs), attempt |-> s.attempt]
      /\ builder' = [builder EXCEPT !.txHash = HashAfter(builder)]
      /\ chain' = chain /\ facade' = facade /\ ingredient' = ingredient /\ imported' = imported
      /\ restored' = restored /\ builds' = builds /\ attempt' = attempt /\ key' = key
      /\ exports' = exports /\ asked' = asked /\ held' = held
  BY DEF ConcatSignature
<1>2. /\ DOMAIN builder' = Fields /\ builder'.txHash = HashAfter(builder)
      /\ builder'.sigHash = builder.sigHash /\ builder'.unsignedHex = builder.unsignedHex
  BY <1>1 DEF TypeInv, Fields
<1>3. builder.unsignedHex # None /\ builder.unsignedHex \in Tx
      /\ Len(s.sigs) = Len(Digests(builder.unsignedHex))
  BY <1>1 DEF Accepts, TypeInv
<1>4. /\ \A x : Digests(x)' = Digests(x)
      /\ trait' = trait /\ OneBuild' = OneBuild /\ Built' = Built
  BY <1>1 DEF Digests, trait, OneBuild, Built
<1>5. TypeInv'
  BY <1>1, <1>2 DEF TypeInv, Recorded
<1>6. BuilderInv' /\ IngredientInv'
  BY <1>1, <1>2, <1>4 DEF BuilderInv, IngredientInv, AtHome
<1>7. SignerInv' /\ RefusedInv'
  BY <1>1, <1>2, <1>4 DEF SignerInv, RefusedInv, GoodAttempt, ShownOf, Signed, ResetsFirst
<1>8. ResultInv'
  BY <1>1, <1>2, <1>3, <1>4 DEF ResultInv, Assembled
<1>9. HashInv'
  <2>1. SUFFICES ASSUME OneBuild, chain = "multiversx" => attempt # None
                 PROVE  /\ HashAfter(builder) \in {None, builder.unsignedHex}
                        /\ HashAfter(builder) = builder.unsignedHex
                             \/ (trait.hash = "building" /\ restored # "no")
    BY <1>1, <1>2, <1>4 DEF HashInv
  <2>2. chain \in Chains
    BY DEF TypeInv
  <2>3. trait.hash \in {"built", "digest", "ingredient", "building"}
    BY <2>2, Traits
  <2>4. CASE trait.hash = "built"
    BY <2>4 DEF HashAfter
  <2>5. CASE trait.hash = "digest"
    <3>1. builder.sigHash # <<>>
      BY <1>1, <1>3, <2>5 DEF Panics
    <3>2. builder.sigHash[1] = <<builder.unsignedHex, 1>>
      BY <1>3, <2>1, <3>1, DigestsType DEF BuilderInv
    <3>. QED BY <2>5, <3>2 DEF HashAfter
  <2>6. CASE trait.hash = "ingredient"
    <3>1. chain = "multiversx"
      BY <2>2, <2>6, Traits
    <3>2. builder.unsignedHex.draft = ingredient
      BY <1>3, <2>1, <3>1 DEF IngredientInv
    <3>3. [builder.unsignedHex EXCEPT !.draft = ingredient] = builder.unsignedHex
      BY <1>3, <3>2 DEF Tx
    <3>. QED BY <2>6, <3>3 DEF HashAfter
  <2>7. CASE trait.hash = "building"
    <3>1. HashAfter(builder) = builder.txHash
      BY <2>7 DEF HashAfter
    <3>2. restored = "no" => builder.txHash = builder.unsignedHex
      BY <1>3, <2>1, <2>7 DEF HashInv
    <3>. QED BY <2>1, <2>7, <3>1, <3>2 DEF HashInv
  <2>. QED BY <2>3, <2>4, <2>5, <2>6, <2>7
<1>. QED BY <1>5, <1>6, <1>7, <1>8, <1>9

(* In the other process the transaction is what the first one exported.    *)
LEMMA ImportStep ==
    ASSUME ProtocolInv, NEW tx \in exports, Import(tx)
    PROVE  ProtocolInv'
<1>. USE DEF ProtocolInv, whole, outside
<1>1. /\ Readable(tx)
      /\ builder' = [sigHash |-> Digests(tx), unsignedHex |-> tx,
                     txHash |-> IF trait.hash = "building" THEN tx ELSE None]
      /\ ingredient' = [tx.draft EXCEPT !.fate = "invalid", !.psbt = TRUE,
                                        !.again = IF trait = Utxo THEN @ ELSE "a"]
      /\ attempt' = [tx |-> tx, ok |-> TRUE] /\ result' = None
      /\ imported' = TRUE /\ restored' = "no"
      /\ chain' = chain /\ facade' = facade /\ builds' = builds /\ key' = key
      /\ exports' = exports /\ asked' = asked /\ held' = held
  BY DEF Import
<1>2. /\ DOMAIN builder' = Fields /\ builder'.sigHash = Digests(tx) /\ builder'.unsignedHex = tx
      /\ builder'.txHash = IF trait.hash = "building" THEN tx ELSE None
  BY <1>1 DEF Fields
<1>3. tx \in Tx /\ tx.n <= builds /\ tx.draft \in AllDrafts /\ tx # None
  BY NoneAssumption DEF TypeInv, Tx
<1>4. attempt' \in Attempt /\ attempt' # None /\ attempt'.tx = tx /\ attempt'.ok
  <2>1. attempt' = [tx |-> tx, ok |-> TRUE]
    BY <1>1
  <2>2. attempt' \in Attempt
    BY <1>3, <2>1 DEF Attempt
  <2>3. attempt'.tx = tx /\ attempt'.ok
    BY <2>1
  <2>. QED BY <2>2, <2>3, NoneAssumption
<1>5. /\ ingredient' \in AllDrafts /\ ingredient'.psbt
      /\ ingredient'.again = IF trait = Utxo THEN tx.draft.again ELSE "a"
  BY <1>1, <1>3 DEF AllDrafts
<1>6. chain \in Chains /\ chain \in {"sys", "sui", "solana", "tron"} /\ trait.reads # "nothing"
  <2>1. chain \in Chains
    BY DEF TypeInv
  <2>2. /\ trait.reads \in {"nothing", "every", "psbt", "prepared"}
        /\ trait.reads = "every" => chain \in {"sui", "solana"}
        /\ trait.reads = "prepared" => chain = "tron"
    BY <2>1, Traits
  <2>. QED BY <1>1, <2>1, <2>2 DEF Readable
<1>7. trait.again => chain \in {"solana", "sys"}
  BY <1>6, Traits
<1>8. chain = "sys" => trait = Utxo
  BY <1>6, Traits
<1>9. /\ \A x : Digests(x)' = Digests(x)
      /\ trait' = trait /\ OneBuild' = OneBuild /\ Built'
  BY <1>1, <1>4 DEF Digests, trait, OneBuild, Built
<1>10. TypeInv'
  <2>1. Recorded(attempt)' /\ \A r \in asked' \union held' : Recorded(r.attempt)'
    BY <1>1, <1>3, <1>4 DEF TypeInv, Recorded
  <2>2. builder'.sigHash \in Seq(Tx \X {1, 2})
    BY <1>2, <1>3, DigestsType
  <2>. QED BY <1>1, <1>2, <1>3, <1>5, <2>1, <2>2 DEF TypeInv
<1>11. BuilderInv'
  BY <1>1, <1>2, <1>3, <1>4, <1>6, <1>9 DEF BuilderInv
<1>12. IngredientInv'
  <2>1. AtHome(tx)' /\ chain = "solana" => tx.draft.again = "a"
    BY <1>1 DEF AtHome
  <2>2. trait.again /\ AtHome(tx)' => ingredient'.again = tx.draft.again
    BY <1>5, <1>7, <1>8, <2>1, <1>6, Traits
  <2>3. AtHome(attempt.tx)' = AtHome(tx)'
    BY <1>4 DEF AtHome
  <2>. QED BY <1>1, <1>2, <1>3, <1>4, <1>5, <1>6, <1>9, <2>2, <2>3 DEF IngredientInv
<1>13. SignerInv'
  BY <1>1, <1>9 DEF SignerInv, GoodAttempt, ShownOf, Signed
<1>14. RefusedInv' /\ ResultInv'
  BY <1>1, <1>4 DEF RefusedInv, ResultInv
<1>15. HashInv'
  BY <1>1, <1>2, <1>9 DEF HashInv
<1>. QED BY <1>10, <1>11, <1>12, <1>13, <1>14, <1>15

(* SetUnsignedHex and SetSigHash bring back what was built, or less.       *)
LEMMA RestoreStep ==
    ASSUME ProtocolInv, NEW what \in {"hex", "all"}, Restore(what)
    PROVE  ProtocolInv'
<1>. USE DEF ProtocolInv, whole, outside
<1>1. /\ ~imported /\ restored # "hex" /\ builder.unsignedHex # None
      /\ builder' = [builder EXCEPT !.txHash = None, !.sigHash = IF what = "all" THEN @ ELSE <<>>]
      /\ restored' = what /\ result' = None
      /\ chain' = chain /\ facade' = facade /\ ingredient' = ingredient /\ imported' = imported
      /\ builds' = builds /\ attempt' = attempt /\ key' = key
      /\ exports' = exports /\ asked' = asked /\ held' = held
  BY DEF Restore
<1>2. /\ DOMAIN builder' = Fields /\ builder'.txHash = None
      /\ builder'.sigHash = (IF what = "all" THEN builder.sigHash ELSE <<>>)
      /\ builder'.unsignedHex = builder.unsignedHex
  BY <1>1 DEF TypeInv, Fields
<1>3. /\ \A x : Digests(x)' = Digests(x)
      /\ trait' = trait /\ OneBuild' = OneBuild /\ Built' = Built
  BY <1>1 DEF Digests, trait, OneBuild, Built
<1>4. TypeInv'
  <2>1. builder'.sigHash \in Seq(Tx \X {1, 2})
    BY <1>2 DEF TypeInv
  <2>. QED BY <1>1, <1>2, <2>1 DEF TypeInv, Recorded
<1>5. BuilderInv'
  BY <1>1, <1>2, <1>3 DEF BuilderInv
<1>6. IngredientInv'
  BY <1>1, <1>2, <1>3 DEF IngredientInv, AtHome
<1>7. SignerInv' /\ RefusedInv' /\ ResultInv'
  BY <1>1, <1>2, <1>3 DEF SignerInv, RefusedInv, ResultInv, GoodAttempt, ShownOf, Signed, ResetsFirst
<1>8. HashInv'
  BY <1>1, <1>2, <1>3 DEF HashInv
<1>. QED BY <1>4, <1>5, <1>6, <1>7, <1>8

(* Every call of a builder, and of its signer.                             *)
LEMMA StepProtocol == ProtocolInv /\ [Next]_vars => ProtocolInv'
BY SetStep, RefusedStep, AcceptedStep, ImportedStep, SignStep, LoadStep, AskStep, AnswerStep,
   ConcatStep, ImportStep, RestoreStep
   DEF Next

(* Everything below is a consequence of this invariant, which ties the     *)
(* builder, its ingredient, what the signer was shown and what came back   *)
(* to the last Build (signing.TxBuilderHandler).                           *)
THEOREM Protocol == Spec => []ProtocolInv
BY InitProtocol, StepProtocol, PTL DEF Spec

-----------------------------------------------------------------------------
(* A signature that ConcatSignature took for what is built now, asked for  *)
(* when it was built, is the owner's over all its digests.                 *)
LEMMA ReturnedSigned ==
    ASSUME ProtocolInv, result # None, Built, OneBuild, result.attempt = attempt
    PROVE  /\ attempt.tx \in Tx /\ result.of = Assembled(builder, result.of.sigs)
           /\ builder.unsignedHex = attempt.tx
           /\ result.of.sigs = Signed(Digests(attempt.tx), "owner")
<1>. USE DEF ProtocolInv
<1>1. attempt \in Attempt /\ attempt.tx \in Tx
  BY DEF Built, TypeInv, Recorded, Attempt
<1>2. builder.unsignedHex = attempt.tx
  BY DEF BuilderInv
<1>3. PICK s \in held : /\ result = [of |-> Assembled(builder, s.sigs), attempt |-> s.attempt]
                        /\ Len(s.sigs) = Len(Digests(builder.unsignedHex))
  BY DEF ResultInv
<1>4. result.of = Assembled(builder, s.sigs) /\ s.attempt = attempt
  BY <1>3
<1>5. result.of.sigs = s.sigs
  BY <1>4 DEF Assembled
<1>6. PICK ds \in ShownOf(attempt.tx) : s.sigs = Signed(ds, "owner")
  BY <1>4 DEF SignerInv, GoodAttempt, Built
<1>7. s.sigs = Signed(Digests(attempt.tx), "owner")
  BY <1>1, <1>2, <1>3, <1>6, SignedWhole
<1>. QED BY <1>1, <1>2, <1>4, <1>5, <1>7

(* What goes with the signatures is as it was when the last Build looked.  *)
LEMMA AgainAsBuilt ==
    ASSUME ProtocolInv, Built, AtHome(attempt.tx), NEW s, s = Signed(Digests(attempt.tx), "owner")
    PROVE  Assembled(builder, s).tx = attempt.tx /\ Valid(Assembled(builder, s))
<1>1. builder.unsignedHex = attempt.tx
  BY DEF ProtocolInv, BuilderInv
<1>2. trait.again => ingredient.again = attempt.tx.draft.again
  BY DEF ProtocolInv, IngredientInv
<1>3. Assembled(builder, s) = [tx |-> attempt.tx, sigs |-> s, again |-> attempt.tx.draft.again]
  BY <1>1, <1>2 DEF Assembled
<1>. QED BY <1>3 DEF Valid

(* ConcatSignature with the answer of a signer that was asked for what is  *)
(* built now returns that transaction, valid, and the hash names it        *)
(* (Build, Sign, ConcatSignature, GetTxHash).                              *)
THEOREM SignedSound == Spec => []SignedIsBuilt
<1>1. ProtocolInv => SignedIsBuilt
  <2>. SUFFICES ASSUME ProtocolInv PROVE SignedIsBuilt
    OBVIOUS
  <2>1. ASSUME result # None, Built, result.attempt = attempt, OneBuild, AtHome(attempt.tx)
        PROVE  result.of.tx = attempt.tx /\ Valid(result.of)
    BY <2>1, ReturnedSigned, AgainAsBuilt
  <2>2. ASSUME attempt # None, OneBuild
        PROVE  /\ builder.txHash \in {None, builder.unsignedHex}
               /\ result # None => builder.txHash = result.of.tx \/ (restored # "no" /\ trait.hash = "building")
    <3>1. result # None => result.of.tx = builder.unsignedHex
      BY DEF ProtocolInv, ResultInv, Assembled
    <3>. QED BY <2>2, <3>1 DEF ProtocolInv, HashInv
  <2>. QED BY <2>1, <2>2 DEF SignedIsBuilt
<1>. QED BY <1>1, Protocol, PTL

(* After a Build that failed nothing new can be signed, in the builders    *)
(* that reset their digests first (Build of signing/*, README.md).         *)
THEOREM RefusedSafe == Spec => []RefusedIsNotSigned
<1>1. ProtocolInv => RefusedIsNotSigned
  <2>. SUFFICES ASSUME ProtocolInv, ResetsFirst, result # None, attempt # None,
                       result.attempt = attempt
                PROVE  attempt.ok
    BY DEF RefusedIsNotSigned, ResetsFirst
  <2>1. PICK s \in held : result.attempt = s.attempt
    BY DEF ProtocolInv, ResultInv
  <2>. QED BY <2>1 DEF ProtocolInv, RefusedInv
<1>. QED BY <1>1, Protocol, PTL

(* What Build built can be signed and completed, whatever the caller did   *)
(* before, and in another process (signing.TxBuilderHandler).              *)
THEOREM BuiltSound == Spec => []BuiltCompletes
<1>1. ProtocolInv => BuiltCompletes
  <2>. SUFFICES ASSUME ProtocolInv PROVE BuiltCompletes
    OBVIOUS
  <2>. USE DEF ProtocolInv
  <2>1. TypeOK
    <3>1. \A i \in DOMAIN builder.sigHash : builder.sigHash[i] \in Tx \X {1, 2}
      BY DEF TypeInv
    <3>2. \A x \in Tx \X {1, 2} : x[2] \in {1, 2}
      OBVIOUS
    <3>. QED BY <3>1, <3>2 DEF TypeOK, TypeInv
  <2>2. ASSUME Built, OneBuild, RawOfRaw(attempt.tx), AtHome(attempt.tx), restored # "hex"
        PROVE  Completes
    <3>. DEFINE s == Signed(builder.sigHash, "owner")
    <3>1. attempt.tx \in Tx /\ attempt.tx # None
      BY <2>2, NoneAssumption DEF Built, TypeInv, Recorded, Attempt
    <3>2. builder.unsignedHex = attempt.tx /\ builder.sigHash = Digests(attempt.tx)
      BY <2>2 DEF BuilderInv
    <3>3. /\ Len(builder.sigHash) \in {1, 2}
          /\ ~trait.each => Len(builder.sigHash) = 1
          /\ builder.sigHash # <<>> /\ Len(s) = Len(builder.sigHash)
      BY <3>1, <3>2, DigestsType, SignedLength
    <3>4. trait = Utxo => ingredient.psbt = (chain = "sys")
      <4>1. trait = Utxo => chain \in {"btc", "sys"}
        BY Traits DEF TypeInv
      <4>2. ingredient.psbt \in BOOLEAN
        BY DEF TypeInv, AllDrafts
      <4>3. chain = "btc" => ~ingredient.psbt
        BY <2>2 DEF IngredientInv, RawOfRaw
      <4>4. chain = "sys" => ingredient.psbt
        BY <2>2 DEF IngredientInv
      <4>. QED BY <4>1, <4>2, <4>3, <4>4
    <3>5. CanSign(builder, "owner")
      <4>1. Len(builder.sigHash) >= 1
        BY <3>3
      <4>. QED BY <3>3, <4>1, Zenon DEF CanSign
    <3>6. Accepts(builder, s)
      BY <3>1, <3>2, <3>3, <3>4 DEF Accepts
    <3>7. ~Panics(builder)
      BY <3>3 DEF Panics
    <3>8. Valid(Assembled(builder, s))
      BY <2>2, <3>2, AgainAsBuilt
    <3>. QED BY <3>2, <3>5, <3>6, <3>7, <3>8 DEF Completes
  <2>. QED BY <2>1, <2>2 DEF BuiltCompletes
<1>. QED BY <1>1, Protocol, PTL

-----------------------------------------------------------------------------
(* The coins of a list.                                                    *)
Coins == Seq(Nat \ {0})

(* The value of coins is a sum over their places.                          *)
LEMMA TotalIs ==
    ASSUME NEW coins \in Coins
    PROVE  /\ DOMAIN coins = 1 .. Len(coins) /\ Len(coins) \in Nat /\ IsFiniteSet(1 .. Len(coins))
           /\ \A i \in 1 .. Len(coins) : coins[i] \in Nat \ {0}
           /\ Total(coins) = Sum(coins, 1 .. Len(coins)) /\ Total(coins) \in Nat
<1>1. DOMAIN coins = 1 .. Len(coins) /\ Len(coins) \in Nat
  BY DEF Coins
<1>2. \A i \in 1 .. Len(coins) : coins[i] \in Nat \ {0}
  BY DEF Coins
<1>3. IsFiniteSet(1 .. Len(coins))
  BY <1>1, FS_Interval
<1>4. Total(coins) = Sum(coins, 1 .. Len(coins))
  BY <1>1, SumOfFunction DEF Total
<1>5. Sum(coins, 1 .. Len(coins)) \in Nat
  BY <1>2, <1>3, SumNat
<1>. QED BY <1>1, <1>2, <1>3, <1>4, <1>5

LEMMA TotalAppend ==
    ASSUME NEW coins \in Coins, NEW coin \in Nat \ {0}
    PROVE  Append(coins, coin) \in Coins /\ Total(Append(coins, coin)) = Total(coins) + coin
<1>. DEFINE n == Len(coins)
            more == Append(coins, coin)
<1>1. more \in Coins /\ Len(more) = n + 1 /\ more[n + 1] = coin /\ \A i \in 1 .. n : more[i] = coins[i]
  BY DEF Coins
<1>2. n \in Nat /\ IsFiniteSet(1 .. n) /\ Total(coins) = Sum(coins, 1 .. n) /\ Total(coins) \in Nat
      /\ \A i \in 1 .. n : coins[i] \in Nat
  BY TotalIs
<1>. HIDE DEF more, n
<1>3. Total(more) = Sum(more, 1 .. n + 1)
  BY <1>1, TotalIs
<1>4. 1 .. n + 1 = (1 .. n) \union {n + 1} /\ n + 1 \notin 1 .. n
  BY <1>2
<1>5. Sum(more, (1 .. n) \union {n + 1}) = more[n + 1] + Sum(more, 1 .. n)
  <2>1. \A i \in (1 .. n) \union {n + 1} : more[i] \in Int
    BY <1>1, <1>2
  <2>. QED BY <1>2, <1>4, <2>1, SumAdd
<1>6. Sum(more, 1 .. n) = Sum(coins, 1 .. n)
  <2>1. \A i \in 1 .. n : coins[i] \in Int /\ more[i] = coins[i]
    BY <1>1, <1>2
  <2>. QED BY <1>2, <2>1, SumSame
<1>7. Total(more) = Total(coins) + coin
  <2>1. Total(more) = more[n + 1] + Sum(more, 1 .. n)
    BY <1>3, <1>4, <1>5, Zenon
  <2>. QED BY <1>1, <1>2, <1>6, <2>1
<1>. QED BY <1>1, <1>7 DEF more

(* Some coins of a list, next to each other.                               *)
LEMMA TotalPart ==
    ASSUME NEW coins \in Coins, NEW a \in Nat \ {0}, NEW b \in 0 .. Len(coins), a <= b + 1
    PROVE  /\ SubSeq(coins, a, b) \in Coins /\ Len(SubSeq(coins, a, b)) = b - a + 1
           /\ \A i \in 1 .. b - a + 1 : SubSeq(coins, a, b)[i] = coins[i + a - 1]
           /\ IsFiniteSet(a .. b) /\ a .. b \subseteq 1 .. Len(coins)
           /\ Total(SubSeq(coins, a, b)) = Sum(coins, a .. b)
<1>. DEFINE m == b - a + 1
            part == SubSeq(coins, a, b)
            p == [i \in 1 .. m |-> i + a - 1]
<1>0. Len(coins) \in Nat /\ b \in Nat /\ m \in Nat
  BY TotalIs
<1>1. part \in Coins /\ Len(part) = m /\ \A i \in 1 .. m : part[i] = coins[i + a - 1]
  BY <1>0 DEF Coins
<1>2. a .. b \subseteq 1 .. Len(coins) /\ \A i \in a .. b : coins[i] \in Int
  <2>1. a .. b \subseteq 1 .. Len(coins)
    BY <1>0
  <2>. QED BY <2>1, TotalIs
<1>3. Renames(p, 1 .. m, a .. b)
  <2>1. p \in [1 .. m -> a .. b]
    BY <1>0
  <2>2. \A x, y \in 1 .. m : p[x] = p[y] => x = y
    BY <1>0
  <2>3. ASSUME NEW z \in a .. b PROVE \E x \in 1 .. m : p[x] = z
    <3>1. z - a + 1 \in 1 .. m
      BY <1>0
    <3>2. p[z - a + 1] = z
      BY <1>0, <3>1
    <3>. QED BY <3>1, <3>2
  <2>. QED BY <2>1, <2>2, <2>3 DEF Renames
<1>4. \A x \in 1 .. m : part[x] = coins[p[x]]
  BY <1>1
<1>5. IsFiniteSet(1 .. m)
  BY <1>0, FS_Interval
<1>6. Total(part) = Sum(part, 1 .. m)
  <2>. HIDE DEF part, m
  <2>. QED BY <1>1, TotalIs
<1>. HIDE DEF p, part
<1>7. IsFiniteSet(a .. b) /\ Sum(coins, a .. b) = Sum(part, 1 .. m)
  BY <1>2, <1>3, <1>4, <1>5, SumRenamed
<1>. QED BY <1>1, <1>2, <1>6, <1>7 DEF part
-----------------------------------------------------------------------------
(* The sorted list: the same coins, smallest first.                        *)
LEMMA SortedIs ==
    ASSUME list \in Coins
    PROVE  /\ Sorted \in Coins /\ Len(Sorted) = Len(list)
           /\ \A a, b \in 1 .. Len(list) : a <= b => Sorted[a] <= Sorted[b]
           /\ \E p : /\ Renames(p, 1 .. Len(list), 1 .. Len(list))
                     /\ \A k \in 1 .. Len(list) : Sorted[k] = list[p[k]]
<1>. DEFINE n == Len(list)
            R == {ij \in (DOMAIN list) \X (DOMAIN list) :
                    \/ list[ij[1]] < list[ij[2]]
                    \/ list[ij[1]] = list[ij[2]] /\ ij[1] < ij[2]}
            order == InOrder(DOMAIN list, R)
<1>1. DOMAIN list = 1 .. n /\ n \in Nat /\ IsFiniteSet(1 .. n) /\ \A i \in 1 .. n : list[i] \in Nat \ {0}
  BY TotalIs
<1>2. ASSUME NEW i \in 1 .. n, NEW j \in 1 .. n
      PROVE  <<i, j>> \in R <=> list[i] < list[j] \/ (list[i] = list[j] /\ i < j)
  <2>1. PICK ij : ij = <<i, j>>
    OBVIOUS
  <2>2. ij \in (DOMAIN list) \X (DOMAIN list) /\ ij[1] = i /\ ij[2] = j
    BY <1>1, <2>1
  <2>3. ij \in R <=> ij \in (DOMAIN list) \X (DOMAIN list)
                     /\ (list[ij[1]] < list[ij[2]] \/ (list[ij[1]] = list[ij[2]] /\ ij[1] < ij[2]))
    OBVIOUS
  <2>. HIDE DEF R
  <2>. QED BY <2>1, <2>2, <2>3, Zenon
<1>3. StrictOrder(1 .. n, R)
  <2>. HIDE DEF R
  <2>1. \A i \in 1 .. n : <<i, i>> \notin R
    <3>1. ASSUME NEW i \in 1 .. n PROVE <<i, i>> \notin R
      <4>1. <<i, i>> \in R <=> list[i] < list[i] \/ (list[i] = list[i] /\ i < i)
        BY <1>2
      <4>2. list[i] \in Nat /\ i \in Nat
        BY <1>1
      <4>. QED BY <4>1, <4>2
    <3>. QED BY <3>1
  <2>2. ASSUME NEW i \in 1 .. n, NEW j \in 1 .. n, i # j PROVE <<i, j>> \in R \/ <<j, i>> \in R
    <3>1. list[i] \in Nat /\ list[j] \in Nat /\ i \in Nat /\ j \in Nat
      BY <1>1
    <3>2. \/ list[i] < list[j] \/ (list[i] = list[j] /\ i < j)
          \/ list[j] < list[i] \/ (list[j] = list[i] /\ j < i)
      <4>1. PICK x \in Nat, y \in Nat : x = list[i] /\ y = list[j]
        BY <3>1
      <4>2. x < y \/ (x = y /\ i < j) \/ y < x \/ (y = x /\ j < i)
        BY <2>2, <3>1
      <4>. QED BY <4>1, <4>2, Zenon
    <3>. QED BY <3>2, <1>2
  <2>3. \A i, j, k \in 1 .. n : <<i, j>> \in R /\ <<j, k>> \in R => <<i, k>> \in R
    BY <1>1, <1>2
  <2>. QED BY <2>1, <2>2, <2>3 DEF StrictOrder
<1>4. Cardinality(1 .. n) = n
  BY <1>1, FS_Interval
<1>5. /\ order \in [1 .. n -> 1 .. n]
      /\ \A i \in 1 .. n : \E a \in 1 .. n : order[a] = i
      /\ \A a, b \in 1 .. n : a < b => <<order[a], order[b]>> \in R
  <2>. HIDE DEF R
  <2>1. PICK S : S = 1 .. n
    OBVIOUS
  <2>2. IsFiniteSet(S) /\ StrictOrder(S, R) /\ Cardinality(S) = n /\ DOMAIN list = S
    BY <1>1, <1>3, <1>4, <2>1
  <2>3. /\ InOrder(S, R) \in [1 .. n -> S]
        /\ \A i \in S : \E a \in 1 .. n : InOrder(S, R)[a] = i
        /\ \A a, b \in 1 .. n : a < b => <<InOrder(S, R)[a], InOrder(S, R)[b]>> \in R
    <3>1. /\ InOrder(S, R) \in [1 .. Cardinality(S) -> S]
          /\ \A i \in S : \E a \in 1 .. Cardinality(S) : InOrder(S, R)[a] = i
          /\ \A a, b \in 1 .. Cardinality(S) :
                a < b => <<InOrder(S, R)[a], InOrder(S, R)[b]>> \in R
      BY <2>2, InOrderIs
    <3>. QED BY <2>2, <3>1
  <2>. QED BY <2>1, <2>2, <2>3, Zenon
<1>6. Sorted = [k \in 1 .. n |-> list[order[k]]]
  BY <1>1 DEF Sorted
<1>. HIDE DEF R, order
<1>7. \A k \in 1 .. n : Sorted[k] = list[order[k]] /\ Sorted[k] \in Nat \ {0}
  BY <1>1, <1>5, <1>6
<1>8. Sorted \in Coins /\ Len(Sorted) = n
  BY <1>1, <1>6, <1>7 DEF Coins
<1>9. ASSUME NEW a \in 1 .. n, NEW b \in 1 .. n, a <= b PROVE Sorted[a] <= Sorted[b]
  <2>1. CASE a = b
    BY <2>1, <1>7
  <2>2. CASE a < b
    <3>1. order[a] \in 1 .. n /\ order[b] \in 1 .. n /\ <<order[a], order[b]>> \in R
      BY <2>2, <1>5
    <3>2. list[order[a]] <= list[order[b]]
      <4>1. PICK i \in 1 .. n, j \in 1 .. n : i = order[a] /\ j = order[b] /\ <<i, j>> \in R
        BY <3>1
      <4>2. list[i] < list[j] \/ (list[i] = list[j] /\ i < j)
        BY <4>1, <1>2
      <4>3. list[i] <= list[j]
        <5>1. list[i] \in Nat /\ list[j] \in Nat
          BY <1>1
        <5>. QED BY <4>2, <5>1
      <4>. QED BY <4>1, <4>3
    <3>. QED BY <3>2, <1>7
  <2>. QED BY <1>1, <1>9, <2>1, <2>2
<1>10. Renames(order, 1 .. n, 1 .. n)
  <2>1. ASSUME NEW x \in 1 .. n, NEW y \in 1 .. n, order[x] = order[y], x < y PROVE FALSE
    <3>1. <<order[x], order[x]>> \in R /\ order[x] \in 1 .. n
      BY <2>1, <1>5
    <3>. QED BY <3>1, <1>3 DEF StrictOrder
  <2>2. \A x, y \in 1 .. n : order[x] = order[y] => x = y
    BY <2>1, <1>1
  <2>. QED BY <2>2, <1>5 DEF Renames
<1>. QED BY <1>7, <1>8, <1>9, <1>10

LEMMA SortedKeeps ==
    ASSUME list \in Coins
    PROVE  Total(Sorted) = Total(list)
<1>. DEFINE n == Len(list)
<1>1. Sorted \in Coins /\ Len(Sorted) = n
  BY SortedIs
<1>2. PICK p : Renames(p, 1 .. n, 1 .. n) /\ \A k \in 1 .. n : Sorted[k] = list[p[k]]
  BY SortedIs
<1>3. n \in Nat /\ IsFiniteSet(1 .. n) /\ \A i \in 1 .. n : list[i] \in Int
  BY TotalIs
<1>4. Total(list) = Sum(list, 1 .. n) /\ Total(Sorted) = Sum(Sorted, 1 .. n)
  <2>1. Total(list) = Sum(list, 1 .. n)
    BY TotalIs
  <2>2. Total(Sorted) = Sum(Sorted, 1 .. n)
    <3>. HIDE DEF n
    <3>. QED BY <1>1, TotalIs
  <2>. QED BY <2>1, <2>2
<1>5. Sum(list, 1 .. n) = Sum(Sorted, 1 .. n)
  BY <1>2, <1>3, SumRenamed
<1>. QED BY <1>4, <1>5

(* The coins that may be spent are the last ones of the sorted list.       *)
LEMMA SpendableIs ==
    ASSUME list \in Coins
    PROVE  LET first == Len(list) - Cardinality(Spendable(list)) + 1
           IN  /\ Cardinality(Spendable(list)) \in 0 .. Len(list)
               /\ first \in Nat \ {0} /\ first <= Len(list) + 1
               /\ \A i \in first .. Len(list) : Sorted[i] > KaspaDust
               /\ SubSeq(Sorted, first, Len(list)) \in Coins
               /\ Total(SubSeq(Sorted, first, Len(list)))
                    = SumFunction([i \in Spendable(list) |-> list[i]])
<1>. DEFINE n == Len(list)
            S == Spendable(list)
            T == {i \in 1 .. n : Sorted[i] > KaspaDust}
            c == Cardinality(S)
            first == n - c + 1
<1>1. Sorted \in Coins /\ Len(Sorted) = n /\ \A a, b \in 1 .. n : a <= b => Sorted[a] <= Sorted[b]
  BY SortedIs
<1>2. PICK p : Renames(p, 1 .. n, 1 .. n) /\ \A k \in 1 .. n : Sorted[k] = list[p[k]]
  BY SortedIs
<1>3. DOMAIN list = 1 .. n /\ n \in Nat /\ IsFiniteSet(1 .. n) /\ \A i \in 1 .. n : list[i] \in Nat \ {0}
  BY TotalIs
<1>4. \A i \in 1 .. n : Sorted[i] \in Nat \ {0}
  BY <1>2, <1>3 DEF Renames
<1>5. S = {i \in 1 .. n : list[i] > KaspaDust}
  BY <1>3 DEF Spendable
<1>. HIDE DEF S
<1>6. IsFiniteSet(S) /\ IsFiniteSet(T) /\ c \in 0 .. n
  <2>1. S \subseteq 1 .. n /\ T \subseteq 1 .. n
    BY <1>5
  <2>2. IsFiniteSet(S) /\ IsFiniteSet(T) /\ Cardinality(S) <= Cardinality(1 .. n)
    BY <1>3, <2>1, FS_Subset
  <2>3. Cardinality(1 .. n) = n
    BY <1>3, FS_Interval
  <2>4. Cardinality(S) \in Nat
    BY <2>2, FS_CardinalityType
  <2>. QED BY <1>3, <2>2, <2>3, <2>4
<1>. DEFINE q == [i \in T |-> p[i]]
<1>7. Renames(q, T, S)
  <2>1. q \in [T -> S]
    BY <1>2, <1>5 DEF Renames
  <2>2. \A x, y \in T : q[x] = q[y] => x = y
    BY <1>2 DEF Renames
  <2>3. \A z \in S : \E x \in T : q[x] = z
    BY <1>2, <1>5 DEF Renames
  <2>. HIDE DEF q, T
  <2>. QED BY <2>1, <2>2, <2>3 DEF Renames
<1>8. Cardinality(T) = c /\ Sum(list, S) = Sum(Sorted, T)
  <2>1. \A z \in S : list[z] \in Int
    BY <1>3, <1>5
  <2>2. \A x \in T : Sorted[x] = list[q[x]]
    BY <1>2
  <2>. HIDE DEF T, q
  <2>. QED BY <1>6, <1>7, <2>1, <2>2, SumRenamed
<1>9. T = first .. n
  <2>1. CASE T = {}
    <3>1. c = 0
      BY <2>1, <1>8, FS_EmptySet
    <3>. QED BY <2>1, <3>1, <1>3
  <2>2. CASE T # {}
    <3>1. T \subseteq Nat
      BY <1>3
    <3>2. PICK m \in T : \A k \in T : m <= k
      <4>. HIDE DEF T
      <4>. QED BY <2>2, <3>1, LeastNat
    <3>3. T = m .. n
      <4>1. \A k \in m .. n : k \in 1 .. n /\ Sorted[m] <= Sorted[k] /\ Sorted[m] > KaspaDust
        BY <1>1, <1>3, <3>2
      <4>2. \A k \in m .. n : k \in T
        BY <4>1, <1>4, <3>2 DEF KaspaDust
      <4>. QED BY <4>2, <1>3, <3>2
    <3>4. Cardinality(m .. n) = n - m + 1
      <4>1. m \in Nat /\ m <= n
        BY <1>3, <3>2
      <4>. QED BY <4>1, <1>3, FS_Interval
    <3>5. c = n - m + 1
      BY <1>8, <3>3, <3>4
    <3>6. m = first
      <4>1. m \in Nat
        BY <3>1, <3>2
      <4>. QED BY <3>5, <4>1, <1>3
    <3>. QED BY <3>3, <3>6
  <2>. QED BY <2>1, <2>2
<1>10. first \in Nat \ {0} /\ first <= n + 1
  BY <1>3, <1>6
<1>11. SubSeq(Sorted, first, n) \in Coins /\ Total(SubSeq(Sorted, first, n)) = Sum(Sorted, first .. n)
  <2>. HIDE DEF first, n
  <2>. QED BY <1>1, <1>3, <1>10, TotalPart
<1>12. SumFunction([i \in S |-> list[i]]) = Sum(list, S)
  <2>. DEFINE f == [i \in S |-> list[i]]
  <2>1. DOMAIN f = S /\ \A i \in S : list[i] \in Int /\ f[i] = list[i]
    BY <1>3, <1>5
  <2>. HIDE DEF f
  <2>2. SumFunction(f) = Sum(f, S)
    BY <2>1, SumOfFunction
  <2>3. Sum(list, S) = Sum(f, S)
    BY <2>1, <1>6, SumSame
  <2>. QED BY <2>2, <2>3 DEF f
<1>13. \A i \in first .. n : Sorted[i] > KaspaDust
  <2>. HIDE DEF first
  <2>. QED BY <1>9
<1>14. Total(SubSeq(Sorted, first, n)) = SumFunction([i \in S |-> list[i]])
  BY <1>8, <1>9, <1>11, <1>12
<1>. QED BY <1>6, <1>10, <1>11, <1>13, <1>14 DEF S
-----------------------------------------------------------------------------
LEMMA WithoutOne ==
    ASSUME NEW coins \in Coins, NEW i \in 1 .. Len(coins)
    PROVE  Total(RemoveAt(coins, i)) = Total(coins) - coins[i]
<1>. DEFINE n == Len(coins)
            rest == RemoveAt(coins, i)
            S == (1 .. n) \ {i}
            p == [k \in 1 .. n - 1 |-> IF k < i THEN k ELSE k + 1]
<1>1. /\ n \in Nat /\ IsFiniteSet(1 .. n) /\ Total(coins) = Sum(coins, 1 .. n)
      /\ \A k \in 1 .. n : coins[k] \in Nat \ {0}
  BY TotalIs
<1>2. rest \in Coins /\ Len(rest) = n - 1 /\ \A k \in 1 .. n - 1 : rest[k] = IF k < i THEN coins[k] ELSE coins[k + 1]
  <2>1. PICK head, tail : head = SubSeq(coins, 1, i - 1) /\ tail = SubSeq(coins, i + 1, n)
    OBVIOUS
  <2>2. head \in Coins /\ Len(head) = i - 1 /\ \A k \in 1 .. i - 1 : head[k] = coins[k]
    BY <1>1, <2>1 DEF Coins
  <2>3. tail \in Coins /\ Len(tail) = n - i /\ \A k \in 1 .. n - i : tail[k] = coins[k + i]
    BY <1>1, <2>1 DEF Coins
  <2>4. rest = head \o tail
    BY <2>1 DEF RemoveAt
  <2>5. /\ head \o tail \in Coins /\ Len(head \o tail) = n - 1
        /\ \A k \in 1 .. n - 1 : (head \o tail)[k] = IF k <= i - 1 THEN head[k] ELSE tail[k - (i - 1)]
    <3>1. /\ head \o tail \in Seq(Nat \ {0}) /\ Len(head \o tail) = Len(head) + Len(tail)
          /\ \A k \in 1 .. Len(head) + Len(tail) :
                (head \o tail)[k] = IF k <= Len(head) THEN head[k] ELSE tail[k - Len(head)]
      BY <2>2, <2>3, ConcatProperties DEF Coins
    <3>2. Len(head) + Len(tail) = n - 1
      BY <1>1, <2>2, <2>3
    <3>. QED BY <2>2, <3>1, <3>2 DEF Coins
  <2>6. ASSUME NEW k \in 1 .. n - 1 PROVE (head \o tail)[k] = IF k < i THEN coins[k] ELSE coins[k + 1]
    <3>1. CASE k < i
      BY <1>1, <2>2, <2>5, <3>1
    <3>2. CASE ~(k < i)
      <4>1. k - (i - 1) \in 1 .. n - i /\ k - (i - 1) + i = k + 1
        BY <1>1, <3>2
      <4>. QED BY <1>1, <2>3, <2>5, <3>2, <4>1
    <3>. QED BY <3>1, <3>2
  <2>. QED BY <2>4, <2>5, <2>6
<1>. HIDE DEF rest
<1>3. Renames(p, 1 .. n - 1, S)
  <2>1. p \in [1 .. n - 1 -> S]
    BY <1>1
  <2>2. \A x, y \in 1 .. n - 1 : p[x] = p[y] => x = y
    BY <1>1
  <2>3. ASSUME NEW z \in S PROVE \E x \in 1 .. n - 1 : p[x] = z
    <3>1. CASE z < i
      BY <1>1, <3>1
    <3>2. CASE z > i
      <4>1. z - 1 \in 1 .. n - 1 /\ p[z - 1] = z
        BY <1>1, <3>2
      <4>. QED BY <4>1
    <3>. QED BY <1>1, <3>1, <3>2
  <2>. QED BY <2>1, <2>2, <2>3 DEF Renames
<1>4. \A x \in 1 .. n - 1 : rest[x] = coins[p[x]]
  BY <1>1, <1>2
<1>5. Total(rest) = Sum(rest, 1 .. n - 1) /\ IsFiniteSet(1 .. n - 1)
  <2>. HIDE DEF n
  <2>. QED BY <1>1, <1>2, TotalIs, FS_Interval
<1>6. Sum(coins, S) = Sum(rest, 1 .. n - 1)
  <2>1. \A z \in S : coins[z] \in Int
    BY <1>1
  <2>2. PICK T : T = 1 .. n - 1
    OBVIOUS
  <2>. HIDE DEF p, S
  <2>3. Renames(p, T, S) /\ IsFiniteSet(T) /\ \A x \in T : rest[x] = coins[p[x]]
    BY <1>3, <1>4, <1>5, <2>2
  <2>4. Sum(coins, S) = Sum(rest, T)
    BY <2>1, <2>3, SumRenamed
  <2>. QED BY <2>2, <2>4
<1>7. Sum(coins, 1 .. n) = coins[i] + Sum(coins, S)
  <2>1. \A z \in 1 .. n : coins[z] \in Int
    BY <1>1
  <2>2. PICK T : T = 1 .. n
    OBVIOUS
  <2>3. IsFiniteSet(T) /\ i \in T /\ \A z \in T : coins[z] \in Int
    BY <1>1, <2>1, <2>2
  <2>4. Sum(coins, T) = coins[i] + Sum(coins, T \ {i})
    BY <2>3, SumIs
  <2>. QED BY <2>2, <2>4
<1>8. Sum(coins, S) \in Int
  <2>1. IsFiniteSet(S) /\ \A z \in S : coins[z] \in Int
    BY <1>1, FS_Subset
  <2>. HIDE DEF S
  <2>. QED BY <2>1, SumIs
<1>9. Total(rest) = Total(coins) - coins[i]
  <2>. HIDE DEF S, n
  <2>1. Total(coins) = coins[i] + Total(rest)
    BY <1>1, <1>5, <1>6, <1>7, Zenon
  <2>2. coins[i] \in Int /\ Total(rest) \in Int
    <3>1. Total(rest) = Sum(coins, S)
      BY <1>5, <1>6, Zenon
    <3>2. coins[i] \in Int
      BY <1>1 DEF n
    <3>. QED BY <1>8, <3>1, <3>2
  <2>. QED BY <2>1, <2>2
<1>. QED BY <1>9 DEF rest

(* The shortest prefix that is enough.                                     *)
LEMMA EnoughIs ==
    ASSUME NEW coins \in Coins, NEW target \in Nat, NEW S \in SUBSET Enough(coins, target), S # {}
    PROVE  /\ Min(S) \in S /\ Min(S) \in 0 .. Len(coins) /\ \A k \in S : Min(S) <= k
           /\ SubSeq(coins, 1, Min(S)) \in Coins /\ Len(SubSeq(coins, 1, Min(S))) = Min(S)
           /\ \A i \in 1 .. Min(S) : SubSeq(coins, 1, Min(S))[i] = coins[i]
           /\ Total(SubSeq(coins, 1, Min(S))) >= target
<1>1. Len(coins) \in Nat
  BY TotalIs
<1>2. S \subseteq 0 .. Len(coins) /\ \A k \in S : Total(SubSeq(coins, 1, k)) >= target
  BY DEF Enough
<1>3. S \subseteq Nat
  BY <1>1, <1>2
<1>4. PICK m \in S : \A k \in S : m <= k
  BY <1>3, LeastNat
<1>5. Min(S) \in S /\ \A k \in S : Min(S) <= k
  BY <1>4 DEF Min
<1>6. PICK least : least = Min(S)
  OBVIOUS
<1>7. least \in 0 .. Len(coins) /\ least \in Nat /\ least - 1 + 1 = least
  <2>1. least \in S
    BY <1>5, <1>6
  <2>2. least \in 0 .. Len(coins)
    BY <1>2, <2>1
  <2>. QED BY <1>1, <2>2
<1>8. /\ SubSeq(coins, 1, least) \in Coins /\ Len(SubSeq(coins, 1, least)) = least - 1 + 1
      /\ \A i \in 1 .. least - 1 + 1 : SubSeq(coins, 1, least)[i] = coins[i + 1 - 1]
  BY <1>7, TotalPart
<1>9. Len(SubSeq(coins, 1, least)) = least /\ \A i \in 1 .. least : SubSeq(coins, 1, least)[i] = coins[i]
  BY <1>7, <1>8
<1>10. Total(SubSeq(coins, 1, least)) >= target
  <2>1. least \in S
    BY <1>5, <1>6
  <2>. QED BY <1>2, <2>1, Zenon
<1>. QED BY <1>5, <1>6, <1>7, <1>8, <1>9, <1>10, Zenon

LEMMA KaspaInputsAre ==
    ASSUME list \in Coins, NEW need \in Nat
    PROVE  LET inputs == KaspaInputs(need)
           IN  /\ inputs \in Coins
               /\ \A i \in 1 .. Len(inputs) : inputs[i] > KaspaDust
               /\ Total(inputs) < need => SumFunction([i \in Spendable(list) |-> list[i]]) < need
               /\ Total(inputs) >= need =>
                    \A i \in 1 .. Len(inputs) :
                        \/ Total(RemoveAt(inputs, i)) < need
                        \/ Len(inputs) = 1
                        \/ \E j \in 1 .. Len(inputs) : inputs[j] > inputs[i]
<1>. DEFINE n == Len(list)
            first == n - Cardinality(Spendable(list)) + 1
            spendable == SubSeq(Sorted, first, n)
            enough == Enough(spendable, need) \ {0}
            inputs == KaspaInputs(need)
<1>1. /\ Sorted \in Coins /\ Len(Sorted) = n /\ n \in Nat
      /\ \A a, b \in 1 .. n : a <= b => Sorted[a] <= Sorted[b]
  BY SortedIs, TotalIs
<1>2. /\ first \in Nat \ {0} /\ first <= n + 1 /\ spendable \in Coins
      /\ \A i \in first .. n : Sorted[i] > KaspaDust
      /\ Total(spendable) = SumFunction([i \in Spendable(list) |-> list[i]])
  BY SpendableIs
<1>3. inputs = IF enough = {} THEN spendable ELSE SubSeq(spendable, 1, Min(enough))
  BY DEF KaspaInputs
<1>. HIDE DEF first, inputs
<1>4. Len(spendable) = n - first + 1 /\ \A i \in 1 .. n - first + 1 : spendable[i] = Sorted[i + first - 1]
  <2>. HIDE DEF n
  <2>. QED BY <1>1, <1>2, TotalPart
<1>. DEFINE c == n - first + 1
<1>5. c \in Nat /\ Len(spendable) = c /\ Total(spendable) \in Nat
  BY <1>1, <1>2, <1>4, TotalIs
<1>6. \A i \in 1 .. c : spendable[i] > KaspaDust /\ spendable[i] \in Nat
  <2>1. ASSUME NEW i \in 1 .. c PROVE spendable[i] > KaspaDust
    <3>1. i + first - 1 \in first .. n
      BY <1>1, <1>2
    <3>2. Sorted[i + first - 1] > KaspaDust
      BY <1>2, <3>1
    <3>. QED BY <3>2, <1>4
  <2>2. \A i \in 1 .. c : spendable[i] \in Nat
    <3>1. \A i \in 1 .. Len(spendable) : spendable[i] \in Nat
      <4>. HIDE DEF spendable
      <4>. QED BY <1>2, TotalIs
    <3>. QED BY <3>1, <1>5
  <2>. QED BY <2>1, <2>2
<1>7. ASSUME NEW i \in 1 .. c, NEW j \in 1 .. c, i <= j PROVE spendable[i] <= spendable[j]
  <2>1. i + first - 1 \in 1 .. n /\ j + first - 1 \in 1 .. n /\ i + first - 1 <= j + first - 1
    BY <1>1, <1>2, <1>7
  <2>2. Sorted[i + first - 1] <= Sorted[j + first - 1]
    BY <2>1, <1>1
  <2>. QED BY <2>2, <1>4
<1>. HIDE DEF spendable, c
<1>8. CASE enough = {}
  <2>1. inputs = spendable
    BY <1>3, <1>8
  <2>2. CASE c = 0
    BY <1>2, <1>5, <2>1, <2>2 DEF inputs
  <2>3. CASE c # 0
    <3>1. SubSeq(spendable, 1, c) = spendable
      BY <1>2, <1>5 DEF Coins
    <3>2. ~(Total(spendable) >= need)
      <4>1. c \in 0 .. Len(spendable)
        BY <1>5
      <4>. QED BY <1>8, <2>3, <3>1, <4>1 DEF Enough
    <3>3. Total(spendable) < need
      BY <1>5, <3>2
    <3>. QED BY <1>2, <1>5, <1>6, <2>1, <3>2, <3>3 DEF inputs
  <2>. QED BY <2>2, <2>3
<1>9. CASE enough # {}
  <2>. DEFINE m == Min(enough)
  <2>1. /\ m \in enough /\ m \in 0 .. c /\ \A k \in enough : m <= k
        /\ SubSeq(spendable, 1, m) \in Coins /\ Len(SubSeq(spendable, 1, m)) = m
        /\ \A i \in 1 .. m : SubSeq(spendable, 1, m)[i] = spendable[i]
        /\ Total(SubSeq(spendable, 1, m)) >= need
    <3>1. enough \in SUBSET Enough(spendable, need)
      OBVIOUS
    <3>. HIDE DEF enough
    <3>. QED BY <1>2, <1>5, <1>9, <3>1, EnoughIs
  <2>2. inputs = SubSeq(spendable, 1, m)
    BY <1>3, <1>9
  <2>3. m \in Nat \ {0} /\ m <= c
    BY <1>5, <2>1
  <2>. HIDE DEF m
  <2>4. inputs \in Coins /\ Len(inputs) = m /\ Total(inputs) >= need /\ \A i \in 1 .. m : inputs[i] = spendable[i]
    BY <2>1, <2>2
  <2>5. Total(inputs) \in Nat
    BY <2>4, TotalIs
  <2>6. \A i \in 1 .. m : i \in 1 .. c /\ inputs[i] > KaspaDust
    BY <1>5, <1>6, <2>3, <2>4
  <2>7. ASSUME NEW i \in 1 .. m, m # 1, ~ \E j \in 1 .. m : inputs[j] > inputs[i]
        PROVE  Total(RemoveAt(inputs, i)) < need
    <3>1. inputs[i] = inputs[m]
      <4>1. i \in 1 .. c /\ m \in 1 .. c /\ i <= m /\ m \in 1 .. m
        BY <1>5, <2>3
      <4>2. spendable[i] <= spendable[m]
        BY <1>7, <4>1
      <4>3. inputs[i] <= inputs[m] /\ ~(inputs[m] > inputs[i])
        BY <2>4, <2>7, <4>1, <4>2
      <4>4. inputs[i] \in Nat /\ inputs[m] \in Nat
        BY <1>6, <2>4, <4>1
      <4>. QED BY <4>3, <4>4
    <3>2. Total(RemoveAt(inputs, i)) = Total(inputs) - inputs[i]
      BY <2>4, WithoutOne
    <3>3. Total(RemoveAt(inputs, m)) = Total(inputs) - inputs[m]
      BY <2>3, <2>4, WithoutOne
    <3>4. RemoveAt(inputs, m) = SubSeq(spendable, 1, m - 1)
      <4>1. RemoveAt(inputs, m) = SubSeq(inputs, 1, m - 1) \o SubSeq(inputs, m + 1, m)
        BY <2>4 DEF RemoveAt
      <4>2. SubSeq(inputs, m + 1, m) = <<>>
        BY <2>3, <2>4 DEF Coins
      <4>3. SubSeq(inputs, 1, m - 1) = SubSeq(spendable, 1, m - 1)
        <5>1. \A k \in 1 .. m - 1 : inputs[k] = spendable[k]
          BY <2>3, <2>4
        <5>2. /\ SubSeq(inputs, 1, m - 1) = [k \in 1 .. m - 1 |-> inputs[k]]
              /\ SubSeq(spendable, 1, m - 1) = [k \in 1 .. m - 1 |-> spendable[k]]
          BY <1>2, <1>5, <2>3, <2>4 DEF Coins
        <5>. QED BY <5>1, <5>2
      <4>4. SubSeq(spendable, 1, m - 1) \in Coins
        BY <1>2, <1>5, <2>3, TotalPart
      <4>5. SubSeq(spendable, 1, m - 1) \o <<>> = SubSeq(spendable, 1, m - 1)
        BY <4>4, ConcatEmptySeq DEF Coins
      <4>. QED BY <4>1, <4>2, <4>3, <4>5, Zenon
    <3>5. ~(Total(SubSeq(spendable, 1, m - 1)) >= need)
      <4>1. m - 1 \in 0 .. Len(spendable) /\ m - 1 # 0 /\ ~(m <= m - 1)
        BY <1>5, <2>3, <2>7
      <4>2. m - 1 \notin enough
        <5>1. \A k \in enough : m <= k
          BY <2>1
        <5>. QED BY <4>1, <5>1, Zenon
      <4>. QED BY <4>1, <4>2 DEF Enough
    <3>6. Total(inputs) - inputs[i] \in Int
      <4>1. inputs[i] \in Nat
        BY <1>6, <2>4, <2>6
      <4>. QED BY <2>5, <4>1
    <3>7. Total(RemoveAt(inputs, i)) = Total(SubSeq(spendable, 1, m - 1))
      BY <3>1, <3>2, <3>3, <3>4, Zenon
    <3>. QED BY <3>2, <3>5, <3>6, <3>7
  <2>8. ~(Total(inputs) < need)
    BY <2>4, <2>5
  <2>. QED BY <2>4, <2>6, <2>7, <2>8 DEF inputs
<1>. QED BY <1>8, <1>9 DEF inputs
-----------------------------------------------------------------------------
(* The estimates of the builder against what the network counts.           *)
LEMMA RulesAre ==
    ASSUME network \in Networks, network # "KAS"
    PROVE  /\ Rules.least \in Nat /\ Rules.dust \in Nat \ {0} /\ Rules.input \in Nat
           /\ (Rules.flat <=> network = "DOGE")
           /\ InputWeight \in Nat /\ 4 * Rules.input >= InputWeight /\ 4 * Rules.input <= InputWeight + 2
<1>1. network \in {"BTC", "P2TR", "LTC", "DOGE", "SYS"}
  BY NetworkAssumption
<1>2. CASE network = "BTC"
  <2>1. Rules = BTC
    BY <1>2 DEF Rules
  <2>2. BTC.least = 0 /\ BTC.dust = 546 /\ BTC.input = 68 /\ BTC.flat = FALSE
    BY DEF BTC, Segwit
  <2>3. InputWeight = 272
    BY <1>2 DEF InputWeight
  <2>. QED BY <1>2, <2>1, <2>2, <2>3
<1>3. CASE network = "P2TR"
  <2>1. Rules = P2TR
    BY <1>3 DEF Rules
  <2>2. P2TR.least = 0 /\ P2TR.dust = 546 /\ P2TR.input = 58 /\ P2TR.flat = FALSE
    BY DEF P2TR, Segwit
  <2>3. InputWeight = 230
    BY <1>3 DEF InputWeight
  <2>. QED BY <1>3, <2>1, <2>2, <2>3
<1>4. CASE network = "LTC"
  <2>1. Rules = LTC
    BY <1>4 DEF Rules
  <2>2. LTC.least = 0 /\ LTC.dust = 546 /\ LTC.input = 68 /\ LTC.flat = FALSE
    BY DEF LTC, Segwit
  <2>3. InputWeight = 272
    BY <1>4 DEF InputWeight
  <2>. QED BY <1>4, <2>1, <2>2, <2>3
<1>5. CASE network = "SYS"
  <2>1. Rules = SYS
    BY <1>5 DEF Rules
  <2>2. SYS.least = 0 /\ SYS.dust = 546 /\ SYS.input = 68 /\ SYS.flat = FALSE
    BY DEF SYS, Segwit
  <2>3. InputWeight = 272
    BY <1>5 DEF InputWeight
  <2>. QED BY <1>5, <2>1, <2>2, <2>3
<1>6. CASE network = "DOGE"
  <2>1. Rules = DOGE
    BY <1>6 DEF Rules
  <2>2. DOGE.least = 5000000 /\ DOGE.dust = 100000 /\ DOGE.input = 148 /\ DOGE.flat = TRUE
    BY DEF DOGE
  <2>3. InputWeight = 592
    BY <1>6 DEF InputWeight
  <2>. QED BY <1>6, <2>1, <2>2, <2>3
<1>. QED BY <1>1, <1>2, <1>3, <1>4, <1>5, <1>6

LEMMA IngredientIs ==
    ASSUME network \in Networks, network # "KAS", NEW draft \in Ingredients[network], draft.readable
    PROVE  /\ draft.sweep \in BOOLEAN /\ draft.amount \in Nat /\ draft.byteFee \in Nat
           /\ draft.to \in Nat /\ draft.from \in Nat
           /\ draft.memo # Nothing => draft.memo \in Nat
           /\ network = "DOGE" => draft.to \in 23 .. 25 /\ draft.from \in 23 .. 25
BY IngredientAssumption

(* A size in virtual bytes is between a quarter of the weight and that     *)
(* with the slack.                                                         *)
LEMMA SizeIs ==
    ASSUME network \in Networks, network # "KAS", NEW draft \in Ingredients[network], draft.readable,
           NEW n \in Nat, NEW change \in BOOLEAN
    PROVE  LET size == n * Rules.input + 11 + PayeeVBytes(draft.to)
                          + (IF change THEN PayeeVBytes(draft.from) ELSE 0)
                          + MemoVBytes(draft)
               weight == Weight(draft, n, change, HasMemo(draft))
           IN  /\ size \in Nat /\ weight \in Nat
               /\ weight <= 4 * size /\ 4 * size <= weight + Slack(n)
               /\ weight <= Weight(draft, n, TRUE, HasMemo(draft))
               /\ Weight(draft, n, TRUE, HasMemo(draft)) \in Nat
<1>1. PICK to \in Nat, from \in Nat :
        /\ to = draft.to /\ from = draft.from
        /\ network = "DOGE" => to \in 23 .. 25 /\ from \in 23 .. 25
  BY IngredientIs
<1>2. PICK input \in Nat, counted \in Nat :
        /\ input = Rules.input /\ counted = InputWeight /\ 4 * input >= counted /\ 4 * input <= counted + 2
  BY RulesAre
<1>3. PICK all \in Nat, real \in Nat :
        /\ all = n * input /\ real = n * counted /\ 4 * all >= real /\ 4 * all <= real + 2 * n
  <2>1. n * input \in Nat /\ n * counted \in Nat /\ n * (4 * input) = 4 * (n * input)
    BY TimesNat
  <2>2. counted * n <= (4 * input) * n /\ (4 * input) * n <= (counted + 2) * n
    <3>1. 4 * input \in Nat /\ counted + 2 \in Nat /\ counted <= 4 * input /\ 4 * input <= counted + 2
      BY <1>2
    <3>. QED BY <3>1, TimesLe
  <2>3. (counted + 2) * n = n * counted + 2 * n /\ (4 * input) * n = 4 * (n * input) /\ counted * n = n * counted
    OBVIOUS
  <2>. QED BY <2>1, <2>2, <2>3
<1>4. PICK memo \in Nat :
        /\ memo = MemoVBytes(draft)
        /\ (IF HasMemo(draft) THEN OutputWeight(MemoScript(draft.memo)) ELSE 0) = 4 * memo
  <2>1. CASE HasMemo(draft)
    <3>1. draft.memo \in Nat
      BY <2>1, IngredientIs DEF HasMemo
    <3>. QED BY <2>1, <3>1 DEF MemoVBytes, OutputWeight, OutputVBytes, MemoScript
  <2>2. CASE ~HasMemo(draft)
    BY <2>2 DEF MemoVBytes
  <2>. QED BY <2>1, <2>2
<1>5. PICK paid \in Nat, back \in Nat :
        /\ paid = PayeeVBytes(to) /\ back = PayeeVBytes(from)
        /\ 4 * (9 + to) <= 4 * paid /\ 4 * paid <= 4 * (9 + to) + 8
        /\ 4 * (9 + from) <= 4 * back /\ 4 * back <= 4 * (9 + from) + 8
        /\ network # "DOGE" => paid = 9 + to /\ back = 9 + from
  <2>1. CASE network = "DOGE"
    <3>1. Rules.flat
      BY <2>1, RulesAre
    <3>. QED BY <1>1, <2>1, <3>1 DEF PayeeVBytes
  <2>2. CASE network # "DOGE"
    <3>1. ~Rules.flat
      BY <2>2, RulesAre
    <3>. QED BY <1>1, <2>2, <3>1 DEF PayeeVBytes, OutputVBytes
  <2>. QED BY <2>1, <2>2
<1>6. PICK base \in {40, 42} :
        /\ base = IF network = "DOGE" THEN 40 ELSE 42
        /\ \A c \in BOOLEAN : Weight(draft, n, c, HasMemo(draft))
                = base + real + 4 * (9 + to) + (IF c THEN 4 * (9 + from) ELSE 0) + 4 * memo
  <2>1. PICK base \in {40, 42} : base = IF network = "DOGE" THEN 40 ELSE 42
    OBVIOUS
  <2>2. ASSUME NEW c \in BOOLEAN
        PROVE  Weight(draft, n, c, HasMemo(draft))
                = base + real + 4 * (9 + to) + (IF c THEN 4 * (9 + from) ELSE 0) + 4 * memo
    <3>1. OutputWeight(draft.to) = 4 * (9 + to) /\ OutputWeight(draft.from) = 4 * (9 + from)
      BY <1>1 DEF OutputWeight
    <3>2. n * InputWeight = real
      BY <1>2, <1>3
    <3>3. Weight(draft, n, c, HasMemo(draft))
            = (IF network = "DOGE" THEN 40 ELSE 42) + n * InputWeight + OutputWeight(draft.to)
                + (IF c THEN OutputWeight(draft.from) ELSE 0)
                + (IF HasMemo(draft) THEN OutputWeight(MemoScript(draft.memo)) ELSE 0)
      BY DEF Weight
    <3>4. (IF c THEN OutputWeight(draft.from) ELSE 0) = IF c THEN 4 * (9 + from) ELSE 0
      BY <3>1
    <3>. QED BY <2>1, <3>1, <3>2, <3>3, <3>4, <1>4, Zenon
  <2>. QED BY <2>1, <2>2
<1>7. PICK extra \in Nat, more \in Nat :
        /\ extra = (IF change THEN PayeeVBytes(draft.from) ELSE 0)
        /\ more = (IF change THEN 4 * (9 + from) ELSE 0)
        /\ more <= 4 * extra /\ 4 * extra <= more + 8 /\ more <= 4 * (9 + from)
        /\ network # "DOGE" => 4 * extra = more
  BY <1>1, <1>5
<1>8. n * Rules.input + 11 + PayeeVBytes(draft.to) + (IF change THEN PayeeVBytes(draft.from) ELSE 0)
            + MemoVBytes(draft) = all + 11 + paid + extra + memo
  BY <1>1, <1>2, <1>3, <1>4, <1>5, <1>7, Zenon
<1>9. /\ Weight(draft, n, change, HasMemo(draft)) = base + real + 4 * (9 + to) + more + 4 * memo
      /\ Weight(draft, n, TRUE, HasMemo(draft)) = base + real + 4 * (9 + to) + 4 * (9 + from) + 4 * memo
  BY <1>6, <1>7, Zenon
<1>10. /\ base + real + 4 * (9 + to) + more + 4 * memo \in Nat
       /\ base + real + 4 * (9 + to) + 4 * (9 + from) + 4 * memo \in Nat
       /\ all + 11 + paid + extra + memo \in Nat
       /\ base + real + 4 * (9 + to) + more + 4 * memo
            <= base + real + 4 * (9 + to) + 4 * (9 + from) + 4 * memo
       /\ base + real + 4 * (9 + to) + more + 4 * memo <= 4 * (all + 11 + paid + extra + memo)
  BY <1>3, <1>5, <1>7
<1>11. 4 * (all + 11 + paid + extra + memo) <= base + real + 4 * (9 + to) + more + 4 * memo + (2 * n + 20)
  <2>1. CASE network = "DOGE"
    <3>1. base = 40
      BY <1>6, <2>1
    <3>. QED BY <1>3, <1>5, <1>7, <3>1
  <2>2. CASE network # "DOGE"
    <3>1. base = 42 /\ paid = 9 + to /\ 4 * extra = more
      BY <1>5, <1>6, <1>7, <2>2
    <3>. QED BY <1>3, <3>1
  <2>. QED BY <2>1, <2>2
<1>. QED BY <1>8, <1>9, <1>10, <1>11, Zenon DEF Slack
LEMMA TimesSum == \A a, b, c \in Nat : a <= b => c * a <= c * b /\ c * a \in Nat /\ c * b \in Nat
<1>. SUFFICES ASSUME NEW a \in Nat, NEW b \in Nat, NEW c \in Nat, a <= b
              PROVE  c * a <= c * b /\ c * a \in Nat /\ c * b \in Nat
  OBVIOUS
<1>1. a * c <= b * c /\ a * c \in Nat /\ b * c \in Nat
  BY TimesLe, TimesNat
<1>2. a * c = c * a /\ b * c = c * b
  OBVIOUS
<1>. QED BY <1>1, <1>2

LEMMA FeeIs ==
    ASSUME network \in Networks, network # "KAS", list \in Coins,
           NEW draft \in Ingredients[network], draft.readable, NEW change \in BOOLEAN
    PROVE  LET most(c) == draft.byteFee * (Weight(draft, Len(list), c, HasMemo(draft)) + Slack(Len(list)))
           IN  /\ Fee(draft, change) \in Nat /\ Fee(draft, change) >= Rules.least
               /\ draft.byteFee * Weight(draft, Len(list), change, HasMemo(draft)) \in Nat
               /\ most(change) \in Nat /\ most(TRUE) \in Nat /\ most(change) <= most(TRUE)
               /\ draft.byteFee * Weight(draft, Len(list), change, HasMemo(draft)) <= 4 * Fee(draft, change)
               /\ Fee(draft, change) = Rules.least \/ 4 * Fee(draft, change) <= most(change)
<1>. DEFINE n == Len(list)
            size == n * Rules.input + 11 + PayeeVBytes(draft.to)
                      + (IF change THEN PayeeVBytes(draft.from) ELSE 0) + MemoVBytes(draft)
            weight == Weight(draft, n, change, HasMemo(draft))
            largest == Weight(draft, n, TRUE, HasMemo(draft))
            b == draft.byteFee
<1>1. n \in Nat
  BY TotalIs
<1>2. /\ size \in Nat /\ weight \in Nat /\ weight <= 4 * size /\ 4 * size <= weight + Slack(n)
      /\ weight <= largest /\ largest \in Nat
  <2>. HIDE DEF n
  <2>. QED BY <1>1, SizeIs
<1>3. b \in Nat /\ Rules.least \in Nat
  BY IngredientIs, RulesAre
<1>4. Fee(draft, change) = Max2(Rules.least, b * size)
  BY DEF Fee
<1>5. PICK slack \in Nat : slack = Slack(n)
  BY <1>1 DEF Slack
<1>. HIDE DEF size, weight, largest, b, n
<1>6. /\ b * weight <= b * (4 * size) /\ b * (4 * size) <= b * (weight + slack)
      /\ b * (weight + slack) <= b * (largest + slack)
      /\ b * weight \in Nat /\ b * (4 * size) \in Nat /\ b * (weight + slack) \in Nat /\ b * (largest + slack) \in Nat
  <2>1. 4 * size \in Nat /\ weight + slack \in Nat /\ largest + slack \in Nat /\ weight + slack <= largest + slack
    BY <1>2, <1>5
  <2>2. weight <= 4 * size /\ 4 * size <= weight + slack
    BY <1>2, <1>5
  <2>. QED BY <1>2, <1>3, <2>1, <2>2, TimesSum
<1>7. b * size \in Nat /\ b * (4 * size) = 4 * (b * size)
  BY <1>2, <1>3, TimesNat
<1>8. PICK paid \in Nat, counted \in Nat, most \in Nat, greatest \in Nat :
        /\ paid = b * size /\ counted = b * weight /\ most = b * (weight + slack) /\ greatest = b * (largest + slack)
        /\ counted <= 4 * paid /\ 4 * paid <= most /\ most <= greatest
  BY <1>6, <1>7
<1>9. PICK least \in Nat, fee \in Nat : /\ least = Rules.least /\ fee = Fee(draft, change)
                                        /\ fee = IF least < paid THEN paid ELSE least
  BY <1>3, <1>4, <1>8 DEF Max2
<1>10. fee >= least /\ counted <= 4 * fee /\ (fee = least \/ 4 * fee <= most)
  BY <1>8, <1>9
<1>. QED BY <1>5, <1>8, <1>9, <1>10 DEF b, weight, largest, n
-----------------------------------------------------------------------------
(* A Build of the Bitcoin-like networks.                                   *)
LEMMA RefusedIs ==
    ASSUME network # "KAS", network' = network, NEW draft, Refuses(draft),
           draft.readable /\ list # <<>> => Short(draft, list)
    PROVE  /\ made' = Nothing
           /\ refused' # Nothing /\ refused'.draft.readable /\ refused'.coins # <<>> =>
                Short(refused'.draft, refused'.coins)
<1>1. made' = Nothing /\ refused'.draft = draft /\ refused'.coins = list
  BY DEF Refuses
<1>. QED BY <1>1

LEMMA MakesIs ==
    ASSUME NEW draft, NEW inputs, NEW paid, NEW change, Makes(draft, inputs, paid, change)
    PROVE  /\ refused' = Nothing
           /\ made'.draft = draft /\ made'.inputs = inputs
           /\ made'.paid = paid /\ made'.change = change
           /\ network # "KAS" => made'.memo = HasMemo(draft)
<1>1. made' = [draft |-> draft, inputs |-> inputs, paid |-> paid, change |-> change,
               memo |-> network # "KAS" /\ HasMemo(draft)]
  BY DEF Makes
<1>2. /\ made'.draft = draft /\ made'.inputs = inputs
      /\ made'.paid = paid /\ made'.change = change
  BY <1>1, Zenon
<1>3. ASSUME network # "KAS" PROVE made'.memo = HasMemo(draft)
  <2>1. made'.memo = (network # "KAS" /\ HasMemo(draft))
    BY <1>1, Zenon
  <2>2. (network # "KAS" /\ HasMemo(draft)) = HasMemo(draft)
    BY <1>3 DEF HasMemo
  <2>. QED BY <2>1, <2>2
<1>. QED BY <1>2, <1>3 DEF Makes

(* A fee between the two estimates is fair.                                *)
LEMMA FairIs ==
    ASSUME network \in Networks, network # "KAS", list \in Coins,
           NEW draft \in Ingredients[network], draft.readable,
           NEW paid \in Nat, NEW change \in Nat, NEW c \in BOOLEAN, c = (change > 0), NEW d \in BOOLEAN,
           Total(list) - paid - change >= Fee(draft, c),
           Total(list) - paid - change - Rules.dust < Fee(draft, d),
           paid >= Rules.dust, change = 0 \/ change >= Rules.dust,
           IF draft.sweep THEN change = 0 ELSE paid = draft.amount,
           NEW tx, tx.draft = draft, tx.inputs = list, tx.paid = paid, tx.change = change,
           tx.memo = HasMemo(draft)
    PROVE  PaysFairly(tx)
<1>. DEFINE n == Len(list)
            W(x) == Weight(draft, n, x, HasMemo(draft))
            b == draft.byteFee
<1>1. PICK least \in Nat, dust \in Nat \ {0}, total \in Nat :
        /\ least = Rules.least /\ dust = Rules.dust /\ total = Total(list)
  BY RulesAre, TotalIs
<1>2. PICK low \in Nat, counted \in Nat :
        /\ low = Fee(draft, c) /\ counted = b * W(c) /\ low >= least /\ counted <= 4 * low
  BY FeeIs, <1>1
<1>3. PICK high \in Nat, most \in Nat, greatest \in Nat :
        /\ high = Fee(draft, d) /\ most = b * (W(d) + Slack(n)) /\ greatest = b * (W(TRUE) + Slack(n))
        /\ (high = least \/ 4 * high <= most) /\ most <= greatest
  <2>. DEFINE h == Fee(draft, d)
              m == b * (W(d) + Slack(n))
              g == b * (W(TRUE) + Slack(n))
  <2>1. h \in Nat /\ m \in Nat /\ g \in Nat /\ m <= g /\ (h = Rules.least \/ 4 * h <= m)
    BY FeeIs
  <2>. HIDE DEF h, m, g
  <2>2. h = h /\ m = m /\ g = g /\ (h = least \/ 4 * h <= m) /\ m <= g
    BY <2>1, <1>1, Zenon
  <2>. QED BY <2>1, <2>2, Zenon DEF h, m, g
<1>4. PICK fee \in Int : fee = total - paid - change
  OBVIOUS
<1>5. low >= least /\ counted <= 4 * low /\ (high = least \/ 4 * high <= most) /\ most <= greatest
  BY <1>2, <1>3, Zenon
<1>6. fee >= low /\ fee - dust < high
  BY <1>1, <1>2, <1>3, <1>4
<1>7. 4 * fee >= counted /\ fee >= least /\ 4 * (fee - dust) < IF 4 * least < greatest THEN greatest ELSE 4 * least
  BY <1>5, <1>6
<1>8. /\ Total(tx.inputs) - tx.paid - tx.change = fee
      /\ tx.draft.byteFee = b /\ Len(tx.inputs) = n
      /\ Weight(tx.draft, Len(tx.inputs), tx.change > 0, tx.memo) = W(c)
      /\ Weight(tx.draft, Len(tx.inputs), TRUE, tx.memo) = W(TRUE)
  BY <1>1, <1>4, Zenon
<1>. HIDE DEF W, n, b
<1>9. 4 * fee >= tx.draft.byteFee * Weight(tx.draft, Len(tx.inputs), tx.change > 0, tx.memo)
  BY <1>2, <1>7, <1>8, Zenon
<1>10. 4 * (fee - Rules.dust) <
            Max2(4 * Rules.least,
                 tx.draft.byteFee * (Weight(tx.draft, Len(tx.inputs), TRUE, tx.memo) + Slack(Len(tx.inputs))))
  <2>1. Max2(4 * Rules.least,
             tx.draft.byteFee * (Weight(tx.draft, Len(tx.inputs), TRUE, tx.memo) + Slack(Len(tx.inputs))))
          = IF 4 * least < greatest THEN greatest ELSE 4 * least
    BY <1>1, <1>3, <1>8, Zenon DEF Max2
  <2>. QED BY <1>1, <1>7, <2>1, Zenon
<1>11. fee >= Rules.least
  BY <1>1, <1>7, Zenon
<1>. QED BY <1>8, <1>9, <1>10, <1>11, Zenon DEF PaysFairly

(* Coins that do not pay the estimate without change are short.            *)
LEMMA ShortIs ==
    ASSUME network \in Networks, network # "KAS", list \in Coins,
           NEW draft \in Ingredients[network], draft.readable, NEW amount \in Nat,
           amount = IF draft.sweep THEN Rules.dust ELSE draft.amount,
           Total(list) - amount < Fee(draft, FALSE)
    PROVE  Short(draft, list)
<1>. DEFINE n == Len(list)
            W(x) == Weight(draft, n, x, HasMemo(draft))
            b == draft.byteFee
<1>1. PICK least \in Nat, total \in Nat : least = Rules.least /\ total = Total(list)
  BY RulesAre, TotalIs
<1>2. PICK fee \in Nat, most \in Nat :
        /\ fee = Fee(draft, FALSE) /\ most = b * (W(FALSE) + Slack(n)) /\ (fee = least \/ 4 * fee <= most)
  BY FeeIs, <1>1
<1>3. fee = least \/ 4 * fee <= most
  BY <1>2, Zenon
<1>4. total - amount < fee
  BY <1>1, <1>2, Zenon
<1>5. total - amount < least \/ 4 * (total - amount) < most
  BY <1>3, <1>4
<1>6. Total(list) - amount < Rules.least \/ 4 * (Total(list) - amount) < b * (W(FALSE) + Slack(n))
  BY <1>1, <1>2, <1>5, Zenon
<1>. QED BY <1>6, Zenon DEF Short

LEMMA SweepIs ==
    ASSUME network \in Networks, network # "KAS", list \in Coins,
           NEW draft \in Ingredients[network], draft.readable, draft.sweep, Sweep(draft)
    PROVE  \/ Refuses(draft) /\ Short(draft, list)
           \/ \E paid \in Nat : Makes(draft, list, paid, 0) /\
                \A tx : tx.draft = draft /\ tx.inputs = list /\ tx.paid = paid /\ tx.change = 0
                        /\ tx.memo = HasMemo(draft) => PaysFairly(tx)
<1>1. PICK fee \in Nat, dust \in Nat \ {0}, total \in Nat :
        fee = Fee(draft, FALSE) /\ dust = Rules.dust /\ total = Total(list)
  BY FeeIs, RulesAre, TotalIs
<1>2. CASE total - fee < dust
  <2>1. Refuses(draft)
    BY <1>1, <1>2 DEF Sweep
  <2>2. total - dust < fee /\ dust \in Nat
    BY <1>2
  <2>3. Total(list) - dust < Fee(draft, FALSE)
    BY <1>1, <2>2, Zenon
  <2>4. dust = IF draft.sweep THEN Rules.dust ELSE draft.amount
    BY <1>1
  <2>. QED BY <2>1, <2>2, <2>3, <2>4, ShortIs
<1>3. CASE ~(total - fee < dust)
  <2>1. Makes(draft, list, total - fee, 0)
    BY <1>1, <1>3 DEF Sweep
  <2>2. PICK paid \in Nat : paid = total - fee /\ paid >= dust
    BY <1>3
  <2>3. total - paid - 0 >= fee /\ total - paid - 0 - dust < fee /\ FALSE = (0 > 0)
    BY <2>2
  <2>4. ASSUME NEW tx, tx.draft = draft, tx.inputs = list, tx.paid = paid, tx.change = 0,
               tx.memo = HasMemo(draft)
        PROVE  PaysFairly(tx)
    <3>1. /\ Total(list) - paid - 0 >= Fee(draft, FALSE) /\ Total(list) - paid - 0 - Rules.dust < Fee(draft, FALSE)
          /\ paid >= Rules.dust
      BY <1>1, <2>2, <2>3, Zenon
    <3>2. IF draft.sweep THEN 0 = 0 ELSE paid = draft.amount
      OBVIOUS
    <3>3. 0 \in Nat /\ FALSE \in BOOLEAN
      OBVIOUS
    <3>. QED BY <2>3, <2>4, <3>1, <3>2, <3>3, FairIs
  <2>. QED BY <2>1, <2>2, <2>4
<1>. QED BY <1>2, <1>3

LEMMA PayIs ==
    ASSUME network \in Networks, network # "KAS", list \in Coins,
           NEW draft \in Ingredients[network], draft.readable, ~draft.sweep, Pay(draft)
    PROVE  \/ Refuses(draft) /\ Short(draft, list)
           \/ \E paid \in Nat, change \in Nat : Makes(draft, list, paid, change) /\
                \A tx : tx.draft = draft /\ tx.inputs = list /\ tx.paid = paid /\ tx.change = change
                        /\ tx.memo = HasMemo(draft) => PaysFairly(tx)
<1>1. PICK fee \in Nat, more \in Nat, dust \in Nat \ {0}, total \in Nat, amount \in Nat :
        /\ fee = Fee(draft, FALSE) /\ more = Fee(draft, TRUE)
        /\ dust = Rules.dust /\ total = Total(list) /\ amount = draft.amount
  BY FeeIs, RulesAre, TotalIs, IngredientIs
<1>6. /\ amount < dust => Refuses(draft)
      /\ ~(amount < dust) /\ total - more - amount >= dust =>
            Makes(draft, list, amount, total - more - amount)
      /\ ~(amount < dust) /\ ~(total - more - amount >= dust) =>
            IF total - fee - amount < 0 THEN Refuses(draft) ELSE Makes(draft, list, amount, 0)
  <2>. DEFINE P == draft.amount < Rules.dust
              P1 == draft.amount >= Rules.dust
              change == Total(list) - Fee(draft, TRUE) - draft.amount
              Q == change >= Rules.dust
              Q1 == change < Rules.dust
              E == Total(list) - Fee(draft, FALSE) - draft.amount < 0
              M == Makes(draft, list, draft.amount, change)
              Z == Makes(draft, list, draft.amount, 0)
  <2>1. (CASE P -> Refuses(draft) [] P1 /\ Q -> M [] P1 /\ Q1 -> IF E THEN Refuses(draft) ELSE Z)
    BY DEF Pay
  <2>2. /\ P <=> amount < dust
        /\ P1 <=> amount >= dust
        /\ Q <=> total - more - amount >= dust
        /\ Q1 <=> total - more - amount < dust
        /\ E <=> total - fee - amount < 0
        /\ M <=> Makes(draft, list, amount, total - more - amount)
        /\ Z <=> Makes(draft, list, amount, 0)
    BY <1>1, Zenon
  <2>3. (P1 <=> ~P) /\ (Q1 <=> ~Q)
    <3>1. (amount >= dust <=> ~(amount < dust)) /\ (total - more - amount < dust <=> ~(total - more - amount >= dust))
      OBVIOUS
    <3>. HIDE DEF P, P1, Q, Q1
    <3>. QED BY <2>2, <3>1
  <2>. HIDE DEF P, P1, Q, Q1, E, M, Z
  <2>4. /\ P => Refuses(draft)
        /\ ~P /\ Q => M
        /\ ~P /\ ~Q => IF E THEN Refuses(draft) ELSE Z
    BY <2>1, <2>3
  <2>. QED BY <2>2, <2>4
<1>2. CASE amount < dust
  <2>1. Refuses(draft)
    BY <1>2, <1>6
  <2>2. draft.amount < Rules.dust
    BY <1>1, <1>2, Zenon
  <2>. QED BY <2>1, <2>2 DEF Short
<1>3. CASE ~(amount < dust) /\ total - more - amount >= dust
  <2>1. PICK change \in Nat : change = total - more - amount /\ change >= dust
    BY <1>3
  <2>2. Makes(draft, list, amount, change)
    BY <1>3, <1>6, <2>1, Zenon
  <2>3. /\ total - amount - change >= more /\ total - amount - change - dust < more
        /\ amount >= dust /\ (change > 0) = TRUE
    BY <1>3, <2>1
  <2>4. ASSUME NEW tx, tx.draft = draft, tx.inputs = list, tx.paid = amount, tx.change = change,
               tx.memo = HasMemo(draft)
        PROVE  PaysFairly(tx)
    <3>1. /\ Total(list) - amount - change >= Fee(draft, TRUE)
          /\ Total(list) - amount - change - Rules.dust < Fee(draft, TRUE)
          /\ amount >= Rules.dust /\ change >= Rules.dust
      BY <1>1, <2>1, <2>3, Zenon
    <3>2. IF draft.sweep THEN change = 0 ELSE amount = draft.amount
      BY <1>1
    <3>3. TRUE \in BOOLEAN
      OBVIOUS
    <3>. QED BY <2>3, <2>4, <3>1, <3>2, <3>3, FairIs
  <2>. QED BY <2>2, <2>4
<1>4. CASE ~(amount < dust) /\ ~(total - more - amount >= dust) /\ total - fee - amount < 0
  <2>1. Refuses(draft)
    BY <1>4, <1>6
  <2>2. total - amount < fee
    BY <1>4
  <2>3. Total(list) - amount < Fee(draft, FALSE) /\ amount = IF draft.sweep THEN Rules.dust ELSE draft.amount
    BY <1>1, <2>2, Zenon
  <2>. QED BY <2>1, <2>3, ShortIs
<1>5. CASE ~(amount < dust) /\ ~(total - more - amount >= dust) /\ ~(total - fee - amount < 0)
  <2>1. Makes(draft, list, amount, 0)
    BY <1>5, <1>6
  <2>2. /\ total - amount - 0 >= fee /\ total - amount - 0 - dust < more
        /\ amount >= dust /\ FALSE = (0 > 0)
    BY <1>5
  <2>3. ASSUME NEW tx, tx.draft = draft, tx.inputs = list, tx.paid = amount, tx.change = 0,
               tx.memo = HasMemo(draft)
        PROVE  PaysFairly(tx)
    <3>1. /\ Total(list) - amount - 0 >= Fee(draft, FALSE)
          /\ Total(list) - amount - 0 - Rules.dust < Fee(draft, TRUE)
          /\ amount >= Rules.dust
      BY <1>1, <2>2, Zenon
    <3>2. IF draft.sweep THEN 0 = 0 ELSE amount = draft.amount
      BY <1>1
    <3>3. TRUE \in BOOLEAN /\ FALSE \in BOOLEAN /\ 0 \in Nat
      OBVIOUS
    <3>. QED BY <2>2, <2>3, <3>1, <3>2, <3>3, FairIs
  <2>. QED BY <2>1, <2>3
<1>. QED BY <1>2, <1>3, <1>4, <1>5
-----------------------------------------------------------------------------
(* A Build of Kaspa.                                                       *)
LEMMA KaspaSendIs ==
    ASSUME network \in Networks, network = "KAS", list \in Coins,
           NEW draft \in Ingredients[network], draft.readable, ~KaspaRefuses(draft)
    PROVE  /\ draft.kind \in {"pay", "reveal", "other"} /\ draft.fee \in Nat /\ draft.amount \in Nat
           /\ KaspaSend(draft) \in Nat
           /\ draft.kind # "other" => KaspaSend(draft) > KaspaDust
           /\ draft.kind = "reveal" => Len(list) = 1 /\ KaspaSend(draft) = list[1] - draft.fee
           /\ draft.kind = "pay" => KaspaSend(draft) = draft.amount
           /\ draft.kind = "other" => KaspaSend(draft) = 0
<1>1. draft.kind \in {"pay", "reveal", "other"} /\ draft.fee \in Nat /\ draft.amount \in Nat
  BY IngredientAssumption
<1>2. CASE draft.kind = "reveal"
  <2>1. Len(list) = 1 /\ ~(draft.fee >= list[1])
    BY <1>2 DEF KaspaRefuses
  <2>2. list[1] \in Nat
    <3>1. \A i \in 1 .. Len(list) : list[i] \in Nat \ {0}
      BY TotalIs
    <3>. QED BY <2>1, <3>1
  <2>3. KaspaSend(draft) = list[1] - draft.fee
    BY <1>2 DEF KaspaSend
  <2>4. ~(KaspaSend(draft) <= KaspaDust)
    BY <1>2 DEF KaspaRefuses
  <2>5. KaspaSend(draft) \in Nat
    BY <1>1, <2>1, <2>2, <2>3
  <2>6. KaspaSend(draft) > KaspaDust
    BY <2>4, <2>5 DEF KaspaDust
  <2>. QED BY <1>1, <1>2, <2>1, <2>3, <2>5, <2>6
<1>3. CASE draft.kind = "pay"
  <2>1. KaspaSend(draft) = draft.amount
    BY <1>3 DEF KaspaSend
  <2>2. ~(KaspaSend(draft) <= KaspaDust)
    BY <1>3 DEF KaspaRefuses
  <2>3. KaspaSend(draft) > KaspaDust
    BY <1>1, <2>1, <2>2 DEF KaspaDust
  <2>. QED BY <1>1, <1>3, <2>1, <2>3
<1>4. CASE draft.kind = "other"
  <2>1. KaspaSend(draft) = 0
    BY <1>4 DEF KaspaSend
  <2>. QED BY <1>1, <1>4, <2>1
<1>. QED BY <1>1, <1>2, <1>3, <1>4

LEMMA KaspaRefusedIs ==
    ASSUME network \in Networks, network = "KAS", list \in Coins, list # <<>>,
           NEW draft \in Ingredients[network], draft.readable, KaspaRefuses(draft)
    PROVE  KaspaShort(draft, list)
<1>1. draft.kind \in {"pay", "reveal", "other"} /\ draft.fee \in Nat /\ draft.amount \in Nat
  BY IngredientAssumption
<1>2. CASE draft.kind = "reveal"
  <2>1. CASE Len(list) # 1
    BY <1>2, <2>1 DEF KaspaShort
  <2>2. CASE Len(list) = 1
    <3>1. list[1] \in Nat
      BY <2>2, TotalIs
    <3>2. draft.fee >= list[1] \/ KaspaSend(draft) <= KaspaDust
      BY <1>2, <2>2 DEF KaspaRefuses
    <3>3. KaspaSend(draft) = list[1] - draft.fee
      BY <1>2 DEF KaspaSend
    <3>4. list[1] - draft.fee <= KaspaDust
      BY <1>1, <3>1, <3>2, <3>3 DEF KaspaDust
    <3>. QED BY <1>2, <3>4 DEF KaspaShort
  <2>. QED BY <2>1, <2>2
<1>3. CASE draft.kind = "pay"
  <2>1. KaspaSend(draft) = draft.amount
    BY <1>3 DEF KaspaSend
  <2>2. KaspaSend(draft) <= KaspaDust
    BY <1>3 DEF KaspaRefuses
  <2>. QED BY <1>3, <2>1, <2>2 DEF KaspaShort
<1>4. draft.kind # "other"
  BY DEF KaspaRefuses
<1>. QED BY <1>1, <1>2, <1>3, <1>4

LEMMA KaspaMadeIs ==
    ASSUME network \in Networks, network = "KAS", list \in Coins,
           NEW draft \in Ingredients[network], draft.readable, ~KaspaRefuses(draft),
           NEW inputs, inputs = KaspaInputs(KaspaSend(draft) + draft.fee)
    PROVE  /\ inputs \in Coins /\ Total(inputs) \in Nat
           /\ KaspaSend(draft) + draft.fee \in Nat
           /\ Total(inputs) < KaspaSend(draft) + draft.fee => KaspaShort(draft, list)
           /\ Total(inputs) >= KaspaSend(draft) + draft.fee =>
                LET left == Total(inputs) - (KaspaSend(draft) + draft.fee)
                IN  \A tx : /\ tx.draft = draft /\ tx.inputs = inputs /\ tx.paid = KaspaSend(draft)
                            /\ tx.change = IF left >= KaspaDust THEN left ELSE 0
                            => KaspaPaysFairly(tx)
<1>1. PICK send \in Nat, fee \in Nat : send = KaspaSend(draft) /\ fee = draft.fee
  BY KaspaSendIs
<1>2. PICK need \in Nat : need = send + fee /\ need = KaspaSend(draft) + draft.fee
  BY <1>1
<1>3. inputs = KaspaInputs(need)
  BY <1>2
<1>4. /\ inputs \in Coins
      /\ \A i \in 1 .. Len(inputs) : inputs[i] > KaspaDust
      /\ Total(inputs) < need => SumFunction([i \in Spendable(list) |-> list[i]]) < need
      /\ Total(inputs) >= need =>
           \A i \in 1 .. Len(inputs) :
               \/ Total(RemoveAt(inputs, i)) < need
               \/ Len(inputs) = 1
               \/ \E j \in 1 .. Len(inputs) : inputs[j] > inputs[i]
  BY <1>3, KaspaInputsAre
<1>5. PICK total \in Nat : total = Total(inputs)
  BY <1>4, TotalIs
<1>6. ASSUME total < need PROVE KaspaShort(draft, list)
  <2>1. SumFunction([i \in Spendable(list) |-> list[i]]) < need
    BY <1>4, <1>5, <1>6
  <2>2. CASE draft.kind = "reveal"
    <3>1. Len(list) = 1 /\ send = list[1] - fee /\ send > KaspaDust
      BY <1>1, <2>2, KaspaSendIs
    <3>2. DOMAIN list = 1 .. 1 /\ list[1] \in Nat
      <4>1. DOMAIN list = 1 .. Len(list) /\ \A i \in 1 .. Len(list) : list[i] \in Nat \ {0}
        BY TotalIs
      <4>. QED BY <3>1, <4>1
    <3>3. list[1] > KaspaDust /\ need = list[1]
      BY <1>2, <3>1, <3>2 DEF KaspaDust
    <3>4. Spendable(list) = {1}
      BY <3>2, <3>3 DEF Spendable
    <3>. DEFINE f == [i \in Spendable(list) |-> list[i]]
    <3>5. DOMAIN f = {1} /\ f[1] = list[1]
      BY <3>4
    <3>. HIDE DEF f
    <3>6. SumFunction(f) = Sum(f, {1})
      BY <3>5, SumOfFunction
    <3>7. Sum(f, {} \union {1}) = f[1] + Sum(f, {}) /\ Sum(f, {}) = 0
      <4>1. IsFiniteSet({}) /\ 1 \notin {} /\ \A y \in {} \union {1} : f[y] \in Int
        BY <3>2, <3>5, FS_EmptySet
      <4>. QED BY <4>1, SumAdd, SumIs
    <3>8. {} \union {1} = {1}
      OBVIOUS
    <3>9. SumFunction(f) = list[1]
      BY <3>2, <3>5, <3>6, <3>7, <3>8
    <3>. QED BY <2>1, <3>2, <3>3, <3>9 DEF f
  <2>3. CASE draft.kind = "pay"
    <3>1. need = draft.amount + draft.fee
      BY <1>2, <2>3, KaspaSendIs
    <3>. QED BY <2>1, <2>3, <3>1 DEF KaspaShort
  <2>4. CASE draft.kind = "other"
    <3>1. need = 0 + draft.fee
      BY <1>2, <2>4, KaspaSendIs
    <3>. QED BY <2>1, <2>4, <3>1 DEF KaspaShort
  <2>. QED BY <2>2, <2>3, <2>4, KaspaSendIs
<1>7. ASSUME total >= need,
             NEW tx, tx.draft = draft, tx.inputs = inputs, tx.paid = send,
             tx.change = IF total - need >= KaspaDust THEN total - need ELSE 0
      PROVE  KaspaPaysFairly(tx)
  <2>1. PICK change \in Nat, paid \in Int :
          /\ change = tx.change /\ (change = 0 \/ change >= KaspaDust)
          /\ paid = total - send - change /\ paid >= fee /\ paid < fee + KaspaDust
    <3>1. PICK change \in Nat : change = IF total - need >= KaspaDust THEN total - need ELSE 0
      BY <1>7
    <3>2. /\ change = 0 \/ change >= KaspaDust
          /\ total - send - change >= fee /\ total - send - change < fee + KaspaDust
      BY <1>2, <1>7, <3>1 DEF KaspaDust
    <3>. QED BY <1>7, <3>1, <3>2
  <2>2. /\ Total(tx.inputs) - tx.paid - tx.change = paid
        /\ tx.paid = send /\ tx.draft.fee = fee /\ Len(tx.inputs) = Len(inputs)
        /\ tx.paid + tx.draft.fee = need
    BY <1>1, <1>2, <1>5, <1>7, <2>1, Zenon
  <2>3. /\ tx.draft.kind # "other" => tx.paid > KaspaDust
        /\ tx.draft.kind = "pay" => tx.paid = tx.draft.amount
    BY <1>1, <1>7, KaspaSendIs
  <2>4. \A i \in 1 .. Len(tx.inputs) :
          /\ tx.inputs[i] > KaspaDust
          /\ \/ Total(RemoveAt(tx.inputs, i)) < tx.paid + tx.draft.fee
             \/ Len(tx.inputs) = 1
             \/ \E j \in 1 .. Len(tx.inputs) : tx.inputs[j] > tx.inputs[i]
    <3>1. Total(inputs) >= need
      BY <1>5, <1>7
    <3>. QED BY <1>4, <1>7, <2>2, <3>1, Zenon
  <2>. QED BY <2>1, <2>2, <2>3, <2>4, Zenon DEF KaspaPaysFairly
<1>. QED BY <1>1, <1>2, <1>4, <1>5, <1>6, <1>7
-----------------------------------------------------------------------------
(* What was made and what was refused stay judged as they were.            *)
ListOK == Total(list) = worth \/ Total(list) >= promise

MadeOK == made # Nothing => IF network = "KAS" THEN KaspaPaysFairly(made) ELSE PaysFairly(made)

RefusedOK ==
    refused # Nothing /\ refused.draft.readable /\ refused.coins # <<>> =>
        IF network = "KAS" THEN KaspaShort(refused.draft, refused.coins)
        ELSE Short(refused.draft, refused.coins)

UtxoInv == UtxoTypeOK /\ ListOK /\ MadeOK /\ RefusedOK

LEMMA MadeStays ==
    ASSUME network' = network, made' = made, MadeOK
    PROVE  MadeOK'
BY DEF MadeOK, KaspaPaysFairly, PaysFairly, Weight, OutputWeight, InputWeight, Rules

LEMMA RefusedStays ==
    ASSUME network' = network, refused' = refused, RefusedOK
    PROVE  RefusedOK'
BY DEF RefusedOK, KaspaShort, Short, Weight, OutputWeight, InputWeight, Rules, HasMemo

LEMMA FairStays ==
    ASSUME network' = network, NEW tx, tx = made', PaysFairly(tx)
    PROVE  PaysFairly(made)'
BY DEF PaysFairly, Weight, OutputWeight, InputWeight, Rules

LEMMA ShortStays ==
    ASSUME network' = network, NEW draft, NEW coins, draft = refused'.draft, coins = refused'.coins,
           Short(draft, coins)
    PROVE  Short(refused.draft, refused.coins)'
BY DEF Short, Weight, OutputWeight, InputWeight, Rules, HasMemo

LEMMA UtxoStart == UtxoInit => UtxoInv
<1>. SUFFICES ASSUME UtxoInit PROVE UtxoInv
  OBVIOUS
<1>1. network \in Networks /\ list \in Coins /\ made = Nothing /\ refused = Nothing
      /\ worth = Total(list) /\ promise = 0 /\ calls = 0
  BY WalletAssumption DEF UtxoInit, Coins
<1>2. Total(list) \in Nat
  BY <1>1, TotalIs
<1>3. UtxoTypeOK
  BY <1>1, <1>2, WalletAssumption DEF UtxoTypeOK, Coins
<1>. QED BY <1>1, <1>3 DEF UtxoInv, ListOK, MadeOK, RefusedOK

LEMMA RefusesKeeps ==
    ASSUME UtxoInv, Call, NEW draft, Refuses(draft), list' \in Coins, Total(list') = Total(list),
           UNCHANGED <<worth, promise>>,
           draft.readable /\ list # <<>> =>
                IF network = "KAS" THEN KaspaShort(draft, list) ELSE Short(draft, list)
    PROVE  UtxoInv'
<1>1. /\ network' = network /\ made' = Nothing /\ refused'.draft = draft /\ refused'.coins = list
      /\ calls' = calls + 1 /\ calls < MaxCalls /\ worth' = worth /\ promise' = promise
  BY DEF Call, Refuses
<1>2. UtxoTypeOK'
  BY <1>1, WalletAssumption DEF UtxoInv, UtxoTypeOK, Coins
<1>3. ListOK'
  BY <1>1 DEF UtxoInv, ListOK, Total
<1>4. MadeOK'
  BY <1>1 DEF MadeOK
<1>5. RefusedOK'
  <2>. SUFFICES ASSUME refused'.draft.readable, refused'.coins # <<>>
                PROVE  IF network' = "KAS" THEN KaspaShort(refused.draft, refused.coins)'
                       ELSE Short(refused.draft, refused.coins)'
    BY DEF RefusedOK
  <2>1. IF network = "KAS" THEN KaspaShort(draft, list) ELSE Short(draft, list)
    BY <1>1
  <2>2. CASE network = "KAS"
    <3>1. KaspaShort(refused.draft, refused.coins)'
      BY <1>1, <2>1, <2>2 DEF KaspaShort, Spendable
    <3>. QED BY <1>1, <2>2, <3>1
  <2>3. CASE network # "KAS"
    <3>1. Short(refused.draft, refused.coins)'
      BY <1>1, <2>1, <2>3, ShortStays
    <3>. QED BY <1>1, <2>3, <3>1
  <2>. QED BY <2>2, <2>3
<1>. QED BY <1>2, <1>3, <1>4, <1>5 DEF UtxoInv

LEMMA MakesKeeps ==
    ASSUME UtxoInv, Call, NEW draft, NEW inputs \in Coins, NEW paid \in Nat, NEW change \in Nat,
           Makes(draft, inputs, paid, change), list' \in Coins, Total(list') = Total(list),
           UNCHANGED <<worth, promise>>,
           \A tx : tx.draft = draft /\ tx.inputs = inputs /\ tx.paid = paid /\ tx.change = change
                   /\ (network # "KAS" => tx.memo = HasMemo(draft)) =>
                        IF network = "KAS" THEN KaspaPaysFairly(tx) ELSE PaysFairly(tx)
    PROVE  UtxoInv'
<1>1. /\ network' = network /\ refused' = Nothing
      /\ calls' = calls + 1 /\ calls < MaxCalls /\ worth' = worth /\ promise' = promise
  BY DEF Call, Makes
<1>2. /\ made'.draft = draft /\ made'.inputs = inputs /\ made'.paid = paid /\ made'.change = change
      /\ network # "KAS" => made'.memo = HasMemo(draft)
  BY MakesIs
<1>3. UtxoTypeOK'
  <2>1. made'.inputs \in Seq(Nat \ {0}) /\ {made'.paid, made'.change} \subseteq Nat
    BY <1>2 DEF Coins
  <2>. QED BY <1>1, <2>1, WalletAssumption DEF UtxoInv, UtxoTypeOK, Coins
<1>4. ListOK'
  BY <1>1 DEF UtxoInv, ListOK, Total
<1>5. RefusedOK'
  BY <1>1 DEF RefusedOK
<1>6. MadeOK'
  <2>1. PICK tx : tx = made'
    OBVIOUS
  <2>2. IF network = "KAS" THEN KaspaPaysFairly(tx) ELSE PaysFairly(tx)
    BY <1>2, <2>1
  <2>3. CASE network = "KAS"
    <3>1. KaspaPaysFairly(made)'
      BY <2>1, <2>2, <2>3 DEF KaspaPaysFairly
    <3>. QED BY <1>1, <2>3, <3>1 DEF MadeOK
  <2>4. CASE network # "KAS"
    <3>1. PaysFairly(made)'
      BY <1>1, <2>1, <2>2, <2>4, FairStays
    <3>. QED BY <1>1, <2>4, <3>1 DEF MadeOK
  <2>. QED BY <2>3, <2>4
<1>. QED BY <1>3, <1>4, <1>5, <1>6 DEF UtxoInv
LEMMA ListKeeps ==
    ASSUME UtxoInv, Call, UNCHANGED <<made, refused>>, list' \in Coins, worth' \in Nat, promise' \in Nat, ListOK'
    PROVE  UtxoInv'
<1>1. network' = network /\ calls' = calls + 1 /\ calls < MaxCalls /\ made' = made /\ refused' = refused
  BY DEF Call
<1>2. UtxoTypeOK'
  BY <1>1, WalletAssumption DEF UtxoInv, UtxoTypeOK, Coins
<1>3. MadeOK' /\ RefusedOK'
  BY <1>1, MadeStays, RefusedStays DEF UtxoInv
<1>. QED BY <1>2, <1>3 DEF UtxoInv

LEMMA UtxoStep == UtxoInv /\ [UtxoNext]_utxoVars => UtxoInv'
<1>. SUFFICES ASSUME UtxoInv, [UtxoNext]_utxoVars PROVE UtxoInv'
  OBVIOUS
<1>1. network \in Networks /\ list \in Coins /\ worth \in Nat /\ promise \in Nat
      /\ Total(list) \in Nat /\ (Total(list) = worth \/ Total(list) >= promise)
  <2>1. network \in Networks /\ list \in Coins /\ worth \in Nat /\ promise \in Nat
    BY DEF UtxoInv, UtxoTypeOK, Coins
  <2>. QED BY <2>1, TotalIs DEF UtxoInv, ListOK
<1>2. ASSUME NEW coin \in UNION {ToSet(w) : w \in Wallets[network]}, AddUtxoInfo(coin) PROVE UtxoInv'
  <2>1. coin \in Nat \ {0}
    <3>1. PICK w \in Wallets[network] : coin \in ToSet(w)
      OBVIOUS
    <3>2. w \in Seq(Nat \ {0})
      BY <1>1, WalletAssumption
    <3>. QED BY <3>1, <3>2 DEF ToSet
  <2>2. list' = Append(list, coin) /\ worth' = worth + coin /\ promise' = promise
    BY <1>2 DEF AddUtxoInfo
  <2>3. list' \in Coins /\ Total(list)' = Total(list) + coin
    <3>1. Append(list, coin) \in Coins /\ Total(Append(list, coin)) = Total(list) + coin
      BY <1>1, <2>1, TotalAppend
    <3>. QED BY <2>2, <3>1 DEF Total
  <2>4. ListOK' /\ worth' \in Nat /\ promise' \in Nat
    BY <1>1, <2>1, <2>2, <2>3 DEF ListOK
  <2>. QED BY <1>2, <2>3, <2>4, ListKeeps DEF AddUtxoInfo
<1>3. ASSUME NEW coins \in Wallets[network], SerializeFromStr(coins) PROVE UtxoInv'
  <2>1. list' = coins /\ worth' = Total(coins) /\ promise' = 0
    BY <1>3 DEF SerializeFromStr
  <2>2. coins \in Coins
    BY <1>1, WalletAssumption DEF Coins
  <2>3. Total(coins) \in Nat
    BY <2>2, TotalIs
  <2>4. ListOK' /\ worth' \in Nat /\ promise' \in Nat
    BY <2>1, <2>3 DEF ListOK, Total
  <2>. QED BY <1>3, <2>1, <2>2, <2>4, ListKeeps DEF SerializeFromStr
<1>4. ASSUME NEW target \in Targets[network], SelectUtxo(target) PROVE UtxoInv'
  <2>1. target \in Nat
    BY <1>1, WalletAssumption
  <2>. DEFINE enough == Enough(Sorted, target)
  <2>2. Sorted \in Coins /\ Total(Sorted) = Total(list)
    BY <1>1, SortedIs, SortedKeeps
  <2>3. worth' = worth
    BY <1>4 DEF SelectUtxo
  <2>4. CASE enough = {}
    <3>1. list' = Sorted /\ promise' = promise
      BY <1>4, <2>4 DEF SelectUtxo
    <3>2. Total(list)' = Total(Sorted)
      BY <3>1 DEF Total
    <3>3. ListOK' /\ worth' \in Nat /\ promise' \in Nat
      BY <1>1, <2>2, <2>3, <3>1, <3>2 DEF ListOK
    <3>. QED BY <1>4, <2>2, <3>1, <3>3, ListKeeps DEF SelectUtxo
  <2>5. CASE enough # {}
    <3>1. list' = SubSeq(Sorted, 1, Min(enough)) /\ promise' = target
      BY <1>4, <2>5 DEF SelectUtxo
    <3>2. SubSeq(Sorted, 1, Min(enough)) \in Coins /\ Total(SubSeq(Sorted, 1, Min(enough))) >= target
      <4>1. enough \in SUBSET Enough(Sorted, target)
        OBVIOUS
      <4>. HIDE DEF enough
      <4>. QED BY <2>1, <2>2, <2>5, <4>1, EnoughIs
    <3>3. Total(list)' = Total(SubSeq(Sorted, 1, Min(enough)))
      BY <3>1 DEF Total
    <3>4. ListOK' /\ worth' \in Nat /\ promise' \in Nat
      <4>. HIDE DEF enough
      <4>1. Total(list)' >= promise'
        BY <3>1, <3>2, <3>3, Zenon
      <4>. QED BY <1>1, <2>1, <2>3, <3>1, <4>1 DEF ListOK
    <3>. QED BY <1>4, <3>1, <3>2, <3>4, ListKeeps DEF SelectUtxo
  <2>. QED BY <2>4, <2>5
<1>5. ASSUME NEW draft \in Ingredients[network], Build(draft) PROVE UtxoInv'
  <2>1. Call /\ network # "KAS" /\ list' = list /\ UNCHANGED <<worth, promise>>
    BY <1>5 DEF Build
  <2>2. list' \in Coins /\ Total(list') = Total(list)
    BY <1>1, <2>1
  <2>3. CASE list = <<>> \/ ~draft.readable
    <3>1. Refuses(draft)
      BY <1>5, <2>3 DEF Build
    <3>. QED BY <2>1, <2>2, <2>3, <3>1, RefusesKeeps
  <2>4. CASE list # <<>> /\ draft.readable /\ draft.sweep
    <3>1. Sweep(draft)
      BY <1>5, <2>4 DEF Build
    <3>2. CASE Refuses(draft) /\ Short(draft, list)
      BY <2>1, <2>2, <3>2, RefusesKeeps
    <3>3. CASE \E paid \in Nat : Makes(draft, list, paid, 0) /\
                \A tx : tx.draft = draft /\ tx.inputs = list /\ tx.paid = paid /\ tx.change = 0
                        /\ tx.memo = HasMemo(draft) => PaysFairly(tx)
      <4>1. PICK paid \in Nat : Makes(draft, list, paid, 0) /\
                \A tx : tx.draft = draft /\ tx.inputs = list /\ tx.paid = paid /\ tx.change = 0
                        /\ tx.memo = HasMemo(draft) => PaysFairly(tx)
        BY <3>3
      <4>2. 0 \in Nat /\
              \A tx : tx.draft = draft /\ tx.inputs = list /\ tx.paid = paid /\ tx.change = 0
                      /\ (network # "KAS" => tx.memo = HasMemo(draft)) =>
                           IF network = "KAS" THEN KaspaPaysFairly(tx) ELSE PaysFairly(tx)
        BY <2>1, <4>1
      <4>. QED BY <1>1, <2>1, <2>2, <4>1, <4>2, MakesKeeps
    <3>. QED BY <1>1, <2>1, <2>4, <3>1, <3>2, <3>3, SweepIs
  <2>5. CASE list # <<>> /\ draft.readable /\ ~draft.sweep
    <3>1. Pay(draft)
      BY <1>5, <2>5 DEF Build
    <3>2. CASE Refuses(draft) /\ Short(draft, list)
      BY <2>1, <2>2, <3>2, RefusesKeeps
    <3>3. CASE \E paid \in Nat, change \in Nat : Makes(draft, list, paid, change) /\
                \A tx : tx.draft = draft /\ tx.inputs = list /\ tx.paid = paid /\ tx.change = change
                        /\ tx.memo = HasMemo(draft) => PaysFairly(tx)
      <4>1. PICK paid \in Nat, change \in Nat : Makes(draft, list, paid, change) /\
                \A tx : tx.draft = draft /\ tx.inputs = list /\ tx.paid = paid /\ tx.change = change
                        /\ tx.memo = HasMemo(draft) => PaysFairly(tx)
        BY <3>3
      <4>2. \A tx : tx.draft = draft /\ tx.inputs = list /\ tx.paid = paid /\ tx.change = change
                    /\ (network # "KAS" => tx.memo = HasMemo(draft)) =>
                         IF network = "KAS" THEN KaspaPaysFairly(tx) ELSE PaysFairly(tx)
        BY <2>1, <4>1
      <4>. QED BY <1>1, <2>1, <2>2, <4>1, <4>2, MakesKeeps
    <3>. QED BY <1>1, <2>1, <2>5, <3>1, <3>2, <3>3, PayIs
  <2>. QED BY <2>3, <2>4, <2>5
<1>6. ASSUME NEW draft \in Ingredients[network], KaspaBuild(draft) PROVE UtxoInv'
  <2>1. Call /\ network = "KAS" /\ UNCHANGED <<worth, promise>>
    BY <1>6 DEF KaspaBuild
  <2>2. CASE KaspaRefuses(draft)
    <3>1. Refuses(draft) /\ list' = list
      BY <1>6, <2>2 DEF KaspaBuild
    <3>2. list' \in Coins /\ Total(list') = Total(list)
      BY <1>1, <3>1
    <3>3. draft.readable /\ list # <<>> => KaspaShort(draft, list)
      BY <1>1, <2>1, <2>2, KaspaRefusedIs
    <3>. QED BY <2>1, <3>1, <3>2, <3>3, RefusesKeeps
  <2>3. CASE ~KaspaRefuses(draft)
    <3>. DEFINE need == KaspaSend(draft) + draft.fee
                inputs == KaspaInputs(need)
                left == Total(inputs) - need
                change == IF left >= KaspaDust THEN left ELSE 0
    <3>1. list' = Sorted /\ IF left < 0 THEN Refuses(draft) ELSE Makes(draft, inputs, KaspaSend(draft), change)
      BY <1>6, <2>3 DEF KaspaBuild
    <3>2. Sorted \in Coins /\ Total(Sorted) = Total(list)
      BY <1>1, SortedIs, SortedKeeps
    <3>3. list' \in Coins /\ Total(list') = Total(list)
      BY <3>1, <3>2
    <3>4. draft.readable
      BY <2>3 DEF KaspaRefuses
    <3>5. /\ inputs \in Coins /\ Total(inputs) \in Nat /\ need \in Nat
          /\ Total(inputs) < need => KaspaShort(draft, list)
          /\ Total(inputs) >= need =>
                \A tx : /\ tx.draft = draft /\ tx.inputs = inputs /\ tx.paid = KaspaSend(draft)
                        /\ tx.change = change
                        => KaspaPaysFairly(tx)
      BY <1>1, <2>1, <2>3, <3>4, KaspaMadeIs
    <3>6. KaspaSend(draft) \in Nat
      BY <1>1, <2>1, <2>3, <3>4, KaspaSendIs
    <3>. HIDE DEF inputs, need
    <3>7. CASE left < 0
      <4>1. Total(inputs) < need
        BY <3>5, <3>7
      <4>. QED BY <2>1, <3>1, <3>3, <3>5, <3>7, <4>1, RefusesKeeps
    <3>8. CASE ~(left < 0)
      <4>1. Total(inputs) >= need /\ left \in Nat /\ change \in Nat
        BY <3>5, <3>8
      <4>. HIDE DEF left, change
      <4>2. \A tx : tx.draft = draft /\ tx.inputs = inputs /\ tx.paid = KaspaSend(draft) /\ tx.change = change
                    /\ (network # "KAS" => tx.memo = HasMemo(draft)) =>
                         IF network = "KAS" THEN KaspaPaysFairly(tx) ELSE PaysFairly(tx)
        BY <2>1, <3>5, <4>1
      <4>3. Makes(draft, inputs, KaspaSend(draft), change)
        BY <3>1, <3>8
      <4>. QED BY <2>1, <3>3, <3>5, <3>6, <4>1, <4>2, <4>3, MakesKeeps
    <3>. QED BY <3>7, <3>8
  <2>. QED BY <2>2, <2>3
<1>7. CASE UNCHANGED utxoVars
  <2>1. /\ network' = network /\ list' = list /\ made' = made /\ refused' = refused
        /\ worth' = worth /\ promise' = promise /\ calls' = calls
    BY <1>7 DEF utxoVars
  <2>2. UtxoTypeOK' /\ ListOK'
    BY <2>1 DEF UtxoInv, UtxoTypeOK, ListOK, Total
  <2>3. MadeOK' /\ RefusedOK'
    BY <2>1, MadeStays, RefusedStays DEF UtxoInv
  <2>. QED BY <2>2, <2>3 DEF UtxoInv
<1>. QED BY <1>2, <1>3, <1>4, <1>5, <1>6, <1>7 DEF UtxoNext

LEMMA UtxoAlways == UtxoSpec => []UtxoInv
BY UtxoStart, UtxoStep, PTL DEF UtxoSpec

(* Of every transaction the Builds make, for all lists of coins and all    *)
(* ingredients, the fee reaches the rate for the size the network counts   *)
(* and is above it by at most dust and a change output; Kaspa cannot do    *)
(* without the largest coin that it spends.                                *)
THEOREM FeesFair == UtxoSpec => []FeeIsFair
<1>1. UtxoInv => FeeIsFair
  BY DEF UtxoInv, MadeOK, FeeIsFair
<1>. QED BY <1>1, UtxoAlways, PTL

(* A readable ingredient is refused only for dust or for want of coins,    *)
(* and the list that the caller shares with the builder loses coins only   *)
(* to a SelectUtxo that found enough.                                      *)
THEOREM RefusalsFair == UtxoSpec => []RefusedOnlyWhenShort
<1>1. UtxoInv => RefusedOnlyWhenShort
  BY DEF UtxoInv, ListOK, RefusedOK, RefusedOnlyWhenShort
<1>. QED BY <1>1, UtxoAlways, PTL

=============================================================================
