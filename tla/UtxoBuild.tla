----------------------------- MODULE UtxoBuild ------------------------------
(***************************************************************************)
(* The amounts of a transaction that spends unspent outputs: the Builds of *)
(* the Bitcoin-like networks and of Kaspa, and the list of coins they      *)
(* spend, which the caller fills, narrows with SelectUtxo and shares with  *)
(* the builder (SetUtxos keeps the pointer).                               *)
(*                                                                         *)
(* A coin is its value and a script its length.  draft.readable stands for *)
(* what is decided before an amount is looked at: the addresses decode and *)
(* are of a kind the network signs, the memo is hex of at most 80 bytes,   *)
(* the numbers are numbers above zero, a taproot Build is not asked for a  *)
(* PSBT.  Amounts, fees and sums fit their 64 bits.                        *)
(***************************************************************************)
EXTENDS Ranking, Integers, FiniteSetsExt, SequencesExt

CONSTANTS
    Networks,
    Wallets,    \* network -> the lists of coins a node may answer
    Targets,    \* network -> what SelectUtxo may be asked for
    Ingredients,  \* network -> the ingredients that may be built
    Nothing,
    MaxCalls    \* bound: calls of the list and of the builder

ASSUME NetworkAssumption ==
    Networks \subseteq {"BTC", "P2TR", "LTC", "DOGE", "SYS", "KAS"}
ASSUME WalletAssumption ==
    MaxCalls \in Nat /\ \A n \in Networks : Wallets[n] \subseteq Seq(Nat \ {0}) /\ Targets[n] \subseteq Nat
ASSUME IngredientAssumption ==
    \A n \in Networks : \A d \in Ingredients[n] : d.readable =>
        IF n = "KAS" THEN d.kind \in {"pay", "reveal", "other"} /\ {d.amount, d.fee} \subseteq Nat
        ELSE /\ d.sweep \in BOOLEAN /\ {d.amount, d.byteFee, d.to, d.from} \subseteq Nat
             /\ d.memo # Nothing => d.memo \in 0 .. 80
             /\ n = "DOGE" => {d.to, d.from} \subseteq 23 .. 25

VARIABLES
    network,
    list,       \* UtxoList.List, shared by the caller and the builder
    made,       \* the amounts of what the last Build made, or Nothing
    refused,    \* ghost: the draft and the coins of a Build that failed, or Nothing
    worth,      \* ghost: the value of all coins ever put on the list
    promise,    \* ghost: what the last successful SelectUtxo was asked for
    calls

utxoVars == <<network, list, made, refused, worth, promise, calls>>

Total(coins) == SumFunction(coins)

Max2(a, b) == IF a < b THEN b ELSE a

-----------------------------------------------------------------------------
(* What the Builds differ in: the virtual bytes of an input, the dust      *)
(* limit, a least fee, whether a memo is an output (buildForLTC and        *)
(* buildForSYS leave it out), and whether an output counts 34 bytes        *)
(* whatever its script.                                                    *)
Segwit(input, memo) ==
    [input |-> input, dust |-> 546, least |-> 0, memo |-> memo, flat |-> FALSE]

BTC  == Segwit(68, TRUE)
P2TR == Segwit(58, TRUE)
LTC  == Segwit(68, FALSE)
SYS  == Segwit(68, FALSE)
DOGE == [input |-> 148, dust |-> 100000, least |-> 5000000, memo |-> TRUE, flat |-> TRUE]

Rules == [BTC |-> BTC, P2TR |-> P2TR, LTC |-> LTC, DOGE |-> DOGE, SYS |-> SYS][network]

\* The script of a memo: the opcode, a push of one or two bytes, the data.
MemoScript(bytes) == bytes + IF bytes <= 75 THEN 2 ELSE 3

\* The size of an output with a script of that length (below 253 bytes).
OutputVBytes(script) == 8 + 1 + script

HasMemo(draft) == Rules.memo /\ draft.memo # Nothing

\* Mutant: the bytes of the memo without what its script adds to them.
MemoVBytesBare(draft) == IF HasMemo(draft) THEN OutputVBytes(draft.memo) ELSE 0

MemoVBytes(draft) == IF HasMemo(draft) THEN OutputVBytes(MemoScript(draft.memo)) ELSE 0

PayeeVBytes(script) == IF Rules.flat THEN 34 ELSE OutputVBytes(script)

\* The fee of a transaction that spends the list, to the recipient alone or
\* with change for the sender.
Fee(draft, change) ==
    Max2(Rules.least,
         draft.byteFee * (Len(list) * Rules.input + 11 + PayeeVBytes(draft.to)
                          + (IF change THEN PayeeVBytes(draft.from) ELSE 0)
                          + MemoVBytes(draft)))

-----------------------------------------------------------------------------
UtxoInit ==
    /\ network \in Networks
    /\ list \in Wallets[network]
    /\ made = Nothing /\ refused = Nothing
    /\ worth = Total(list) /\ promise = 0
    /\ calls = 0

Call == calls < MaxCalls /\ calls' = calls + 1 /\ UNCHANGED network

AddUtxoInfo(coin) ==
    /\ Call
    /\ list' = Append(list, coin)
    /\ worth' = worth + coin
    /\ UNCHANGED <<made, refused, promise>>

\* The list is read from JSON again.
SerializeFromStr(coins) ==
    /\ Call
    /\ list' = coins /\ worth' = Total(coins) /\ promise' = 0
    /\ UNCHANGED <<made, refused>>

\* The lengths of the prefixes of the sorted list that reach the target.
Enough(coins, target) == {n \in 0..Len(coins) : Total(SubSeq(coins, 1, n)) >= target}

Sorted ==
    LET order == InOrder(DOMAIN list, {ij \in (DOMAIN list) \X (DOMAIN list) :
                                         \/ list[ij[1]] < list[ij[2]]
                                         \/ list[ij[1]] = list[ij[2]] /\ ij[1] < ij[2]})
    IN  [k \in DOMAIN list |-> list[order[k]]]

\* Smallest coins first.  A list that does not reach the target stays, in
\* its new order.
SelectUtxo(target) ==
    /\ Call
    /\ list # <<>>
    /\ IF Enough(Sorted, target) = {}
       THEN list' = Sorted /\ UNCHANGED promise
       ELSE /\ list' = SubSeq(Sorted, 1, Min(Enough(Sorted, target)))
            /\ promise' = target
    /\ UNCHANGED <<made, refused, worth>>

-----------------------------------------------------------------------------
Makes(draft, inputs, paid, change) ==
    /\ made' = [draft |-> draft, inputs |-> inputs, paid |-> paid, change |-> change,
                memo |-> network # "KAS" /\ HasMemo(draft)]
    /\ refused' = Nothing

\* What a builder keeps of an earlier Build is the subject of TxBuilder.
Refuses(draft) == made' = Nothing /\ refused' = [draft |-> draft, coins |-> list]

\* Everything goes to the recipient, the fee comes out of it.
Sweep(draft) ==
    LET send == Total(list) - Fee(draft, FALSE)
    IN  IF send < Rules.dust THEN Refuses(draft) ELSE Makes(draft, list, send, 0)

\* Mutant: what is dust with the fee of a change output is not looked at
\* again.
PayUnchecked(draft) ==
    LET change == Total(list) - Fee(draft, TRUE) - draft.amount
    IN  CASE draft.amount < Rules.dust -> Refuses(draft)
          [] draft.amount >= Rules.dust /\ change >= Rules.dust ->
                Makes(draft, list, draft.amount, change)
          [] draft.amount >= Rules.dust /\ change < Rules.dust ->
                IF change < 0 THEN Refuses(draft) ELSE Makes(draft, list, draft.amount, 0)

\* What is left above the fee goes back to the sender, or to the miner when
\* it is dust.
Pay(draft) ==
    LET change == Total(list) - Fee(draft, TRUE) - draft.amount
    IN  CASE draft.amount < Rules.dust -> Refuses(draft)
          [] draft.amount >= Rules.dust /\ change >= Rules.dust ->
                Makes(draft, list, draft.amount, change)
          [] draft.amount >= Rules.dust /\ change < Rules.dust ->
                IF Total(list) - Fee(draft, FALSE) - draft.amount < 0
                THEN Refuses(draft)
                ELSE Makes(draft, list, draft.amount, 0)

Build(draft) ==
    /\ Call /\ network # "KAS"
    /\ CASE list = <<>> \/ ~draft.readable      -> Refuses(draft)
         [] list # <<>> /\ draft.readable /\ draft.sweep  -> Sweep(draft)
         [] list # <<>> /\ draft.readable /\ ~draft.sweep -> Pay(draft)
    /\ UNCHANGED <<list, worth, promise>>

-----------------------------------------------------------------------------
KaspaDust == 2000000

Spendable(coins) == {i \in DOMAIN coins : coins[i] > KaspaDust}

\* The coins above the dust limit, smallest first, until they reach the need:
\* all of them when they do not.
KaspaInputs(need) ==
    LET spendable == SubSeq(Sorted, Len(list) - Cardinality(Spendable(list)) + 1, Len(list))
        enough    == Enough(spendable, need) \ {0}
    IN  IF enough = {} THEN spendable ELSE SubSeq(spendable, 1, Min(enough))

\* A reveal spends the one output of its commit, a transfer and a commit pay
\* an amount, and a transaction of another type pays nothing to nobody.
KaspaSend(draft) ==
    CASE draft.kind = "reveal" -> list[1] - draft.fee
      [] draft.kind = "pay"    -> draft.amount
      [] draft.kind = "other"  -> 0

KaspaRefuses(draft) ==
    \/ ~draft.readable
    \/ draft.kind = "reveal" /\ (Len(list) # 1 \/ draft.fee >= list[1])
    \/ draft.kind # "other" /\ KaspaSend(draft) <= KaspaDust

\* The list of the caller is sorted and keeps its coins.
KaspaBuild(draft) ==
    /\ Call /\ network = "KAS"
    /\ IF KaspaRefuses(draft)
       THEN Refuses(draft) /\ UNCHANGED list
       ELSE LET need   == KaspaSend(draft) + draft.fee
                inputs == KaspaInputs(need)
                change == Total(inputs) - need
            IN  /\ list' = Sorted
                /\ IF change < 0
                   THEN Refuses(draft)
                   ELSE Makes(draft, inputs, KaspaSend(draft),
                              IF change >= KaspaDust THEN change ELSE 0)
    /\ UNCHANGED <<worth, promise>>

UtxoNext ==
    \/ \E coin \in UNION {ToSet(w) : w \in Wallets[network]} : AddUtxoInfo(coin)
    \/ \E coins \in Wallets[network] : SerializeFromStr(coins)
    \/ \E target \in Targets[network] : SelectUtxo(target)
    \/ \E draft \in Ingredients[network] : Build(draft) \/ KaspaBuild(draft)

UtxoSpec == UtxoInit /\ [][UtxoNext]_utxoVars

-----------------------------------------------------------------------------
UtxoTypeOK ==
    /\ network \in Networks /\ list \in Seq(Nat \ {0})
    /\ made # Nothing => made.inputs \in Seq(Nat \ {0}) /\ {made.paid, made.change} \subseteq Nat
    /\ {worth, promise} \subseteq Nat /\ calls \in 0..MaxCalls

\* What the network counts, apart from what the builder estimates: four
\* units for a byte, one for a byte of a witness.  A signature and a public
\* key in a witness, a Schnorr signature alone, or both in the script of the
\* input; fewer than 253 inputs.
InputWeight ==
    CASE network = "P2TR" -> 4 * 41 + 66
      [] network = "DOGE" -> 4 * 148
      [] network \in {"BTC", "LTC", "SYS"} -> 4 * 41 + 108

OutputWeight(script) == 4 * (8 + 1 + script)

Weight(draft, inputs, change, memo) ==
    (IF network = "DOGE" THEN 40 ELSE 42) + inputs * InputWeight + OutputWeight(draft.to)
    + (IF change THEN OutputWeight(draft.from) ELSE 0)
    + (IF memo THEN OutputWeight(MemoScript(draft.memo)) ELSE 0)

\* How far the estimates may be above it: half a virtual byte for an input,
\* the overhead, and DOGE outputs shorter than 34 bytes.
Slack(inputs) == 2 * inputs + 20

\* A transaction of the Bitcoin-like networks, and one of Kaspa, pays fairly.
PaysFairly(tx) ==
    LET draft == tx.draft
        n     == Len(tx.inputs)
        fee   == Total(tx.inputs) - tx.paid - tx.change
    IN  /\ 4 * fee >= draft.byteFee * Weight(draft, n, tx.change > 0, tx.memo)
        /\ fee >= Rules.least
        /\ 4 * (fee - Rules.dust) <
               Max2(4 * Rules.least, draft.byteFee * (Weight(draft, n, TRUE, tx.memo) + Slack(n)))
        /\ tx.paid >= Rules.dust /\ (tx.change = 0 \/ tx.change >= Rules.dust)
        /\ IF draft.sweep THEN tx.change = 0 ELSE tx.paid = draft.amount

KaspaPaysFairly(tx) ==
    LET draft == tx.draft
        n     == Len(tx.inputs)
        fee   == Total(tx.inputs) - tx.paid - tx.change
    IN  /\ fee >= draft.fee /\ fee < draft.fee + KaspaDust
        /\ draft.kind # "other" => tx.paid > KaspaDust
        /\ draft.kind = "pay" => tx.paid = draft.amount
        /\ tx.change = 0 \/ tx.change >= KaspaDust
        /\ \A i \in 1..n : /\ tx.inputs[i] > KaspaDust
                           /\ Total(RemoveAt(tx.inputs, i)) < tx.paid + draft.fee
                              \/ n = 1
                              \/ \E j \in 1..n : tx.inputs[j] > tx.inputs[i]

\* The coins cannot pay for the draft without a change output.
Short(draft, coins) ==
    LET amount == IF draft.sweep THEN Rules.dust ELSE draft.amount
        left   == Total(coins) - amount
        n      == Len(coins)
    IN  \/ amount < Rules.dust
        \/ left < Rules.least
        \/ 4 * left < draft.byteFee * (Weight(draft, n, FALSE, HasMemo(draft)) + Slack(n))

KaspaShort(draft, coins) ==
    LET amount == IF draft.kind = "other" THEN 0 ELSE draft.amount
    IN  IF draft.kind = "reveal"
        THEN Len(coins) # 1 \/ coins[1] - draft.fee <= KaspaDust
        ELSE \/ draft.kind = "pay" /\ amount <= KaspaDust
             \/ SumFunction([i \in Spendable(coins) |-> coins[i]]) < amount + draft.fee

(* The fee of what was built is at least the rate of the caller for the    *)
(* size that the network will count, so that the transaction is relayed    *)
(* and mined, and above it there is at most dust and the cost of a change  *)
(* output: the Builds decide on change with one estimate and on refusal    *)
(* with another.  No output is dust, the recipient gets the amount or, in  *)
(* a sweep, everything.  Kaspa pays the fee of the caller and at most dust *)
(* above it, spends no coin that is dust, and could not do without the     *)
(* largest of those that it spends.                                        *)
FeeIsFair ==
    /\ UtxoTypeOK
    /\ made # Nothing => IF network = "KAS" THEN KaspaPaysFairly(made) ELSE PaysFairly(made)

(* A Build of an ingredient that reads well is refused only because an     *)
(* amount is dust or because the coins on the list cannot pay the amount   *)
(* and the fee of a transaction without change.  The list, which the       *)
(* caller shares with the builder, loses coins only when SelectUtxo found  *)
(* enough of them: after a selection that failed, and after any Build,     *)
(* nothing is missing, and what a selection left covers what was asked for.*)
RefusedOnlyWhenShort ==
    /\ Total(list) = worth \/ Total(list) >= promise
    /\ refused # Nothing /\ refused.draft.readable /\ refused.coins # <<>> =>
        IF network = "KAS" THEN KaspaShort(refused.draft, refused.coins)
        ELSE Short(refused.draft, refused.coins)

=============================================================================
