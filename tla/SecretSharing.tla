---------------------------- MODULE SecretSharing ----------------------------
(***************************************************************************)
(* Mnemonics and their shares: crypto/bip/bip39.go, the field GF(256) and  *)
(* the polynomials of crypto/internal/shamir, crypto/sss.go and            *)
(* mobile/util/mnSss.go.                                                   *)
(*                                                                         *)
(* A byte is the set of the bits that are set, that is the powers of its   *)
(* polynomial over GF(2).  The code treats every byte of a payload on its  *)
(* own, so that one byte stands for an entropy and one for the four bytes  *)
(* of SHA-256 that are both checksum and fingerprint.                      *)
(***************************************************************************)
EXTENDS Naturals, Sequences, FiniteSets

CONSTANTS
    Hash,       \* of an entropy: the first bytes of SHA-256
    Nothing        \* an error

Byte == SUBSET (0 .. 7)
Zero == {}
One == {0}

(* No two entropies share the first bytes of their hash.                   *)
ASSUME HashAssumption == Hash \in [Byte -> Byte] /\ \A a, b \in Byte : Hash[a] = Hash[b] => a = b

-----------------------------------------------------------------------------
(* The field.  x^8 = x^4 + x^3 + x + 1.                                    *)
Plus(a, b) == (a \ b) \cup (b \ a)
SumOf(f) == {bit \in 0 .. 7 : Cardinality({i \in DOMAIN f : bit \in f[i]}) % 2 = 1}

Twice(a) ==
    LET shifted == {bit + 1 : bit \in a}
    IN  IF 8 \in shifted THEN Plus(shifted \ {8}, {0, 1, 3, 4}) ELSE shifted

Multiply(left, right) ==
    LET doubled[i \in 0 .. 7] == IF i = 0 THEN left ELSE Twice(doubled[i - 1])
    IN  SumOf([i \in right |-> doubled[i]])

Power(value, exponent) ==
    LET power[e \in 0 .. exponent] ==
            IF e = 0 THEN One
            ELSE LET half == power[e \div 2]
                     square == Multiply(half, half)
                 IN  IF e % 2 = 1 THEN Multiply(square, value) ELSE square
    IN  power[exponent]

Reciprocal == [divisor \in Byte |-> Power(divisor, 254)]
Divide(value, divisor) == Multiply(value, Reciprocal[divisor])

(* The product of f[j] over the j other than i.                            *)
ProductBut(f, i) ==
    LET product[j \in 0 .. Len(f)] ==
            IF j = 0 THEN One
            ELSE IF j = i THEN product[j - 1] ELSE Multiply(product[j - 1], f[j])
    IN  product[Len(f)]

Evaluate(coefficients, x) ==
    LET n == Len(coefficients)
        tail[i \in 1 .. n] == IF i = n THEN coefficients[n]
                              ELSE Plus(Multiply(tail[i + 1], x), coefficients[i])
    IN  tail[1]

InterpolateAtZero(coordinates, values) ==
    LET Weight(i) ==
            Divide(ProductBut(coordinates, i),
                   ProductBut([j \in DOMAIN coordinates |-> Plus(coordinates[i], coordinates[j])], i))
    IN  SumOf([i \in DOMAIN coordinates |-> Multiply(values[i], Weight(i))])

-----------------------------------------------------------------------------
(* The shares of a secret: a polynomial for each byte of it, whose other   *)
(* coefficients are read from the random source in turn, taken at the      *)
(* first coordinates of a shuffle of 1 .. 255.  <<>> is an error.          *)
Split(secret, total, threshold, shuffle, random) ==
    IF \/ secret = <<>>
       \/ threshold \notin 2 .. 255
       \/ total \notin threshold .. 255
    THEN <<>>
    ELSE [i \in 1 .. total |->
            [bytes |-> [offset \in DOMAIN secret |->
                          Evaluate(<<secret[offset]>> \o SubSeq(random[offset], 1, threshold - 1),
                                   shuffle[i])],
             coordinate |-> shuffle[i]]]

Combine(shares) ==
    IF \/ Len(shares) \notin 2 .. 255
       \/ \E i \in DOMAIN shares : shares[i].coordinate = Zero
       \/ \E i, j \in DOMAIN shares : i # j /\ shares[i].coordinate = shares[j].coordinate
    THEN Nothing
    ELSE [offset \in DOMAIN shares[1].bytes |->
            InterpolateAtZero([i \in DOMAIN shares |-> shares[i].coordinate],
                              [i \in DOMAIN shares |-> shares[i].bytes[offset]])]

SSSSplit(entropy, total, threshold, shuffle, random) ==
    Split(<<entropy, Hash[entropy]>>, total, threshold, shuffle, random)

SSSCombine(shares) ==
    LET combined == Combine(shares)
    IN  IF combined = Nothing THEN Nothing
        ELSE IF combined[2] # Hash[combined[1]] THEN Nothing ELSE combined[1]

-----------------------------------------------------------------------------
(* A text that may be a mnemonic: how many words, whether all are of the   *)
(* list, and the entropy and checksum that they spell.                     *)
Text(words, known, entropy, checksum) ==
    [words |-> words, known |-> known, entropy |-> entropy, checksum |-> checksum]

EntropyFromMnemonic(text) ==
    IF \/ text.words % 3 # 0 \/ text.words \notin 12 .. 24
       \/ ~text.known
       \/ text.checksum # Hash[text.entropy]
    THEN Nothing
    ELSE [size |-> (text.words \div 3) * 4, entropy |-> text.entropy]

NewMnemonic(size, entropy) ==
    IF size % 4 # 0 \/ size \notin 16 .. 32 THEN Nothing
    ELSE Text((size \div 4) * 3, TRUE, entropy, Hash[entropy])

GenerateMnemonic(words, entropy) ==
    IF words \notin {12, 24} THEN Nothing ELSE NewMnemonic((words \div 3) * 4, entropy)

IsValidMnemonic(text) == EntropyFromMnemonic(text) # Nothing

(* A share as it is written down: fingerprint-index-hex.                   *)
PerformSplit(text, total, threshold, shuffle, random) ==
    LET e == EntropyFromMnemonic(text)
        shares == SSSSplit(e.entropy, total, threshold, shuffle, random)
    IN  IF e = Nothing THEN <<>>
        ELSE [i \in DOMAIN shares |->
                [form |-> "share", fingerprint |-> Hash[e.entropy], index |-> i - 1,
                 size |-> e.size + 5, share |-> shares[i]]]

WellFormed(s) ==
    /\ s.form = "share"
    /\ s.index \in 0 .. 254
    /\ s.size \in {21, 25, 29, 33, 37}
    /\ s.share.coordinate # Zero

(* The shares are not of one set: another fingerprint or length, an index  *)
(* or a coordinate twice.                                                  *)
Mixed(given) ==
    \E i, j \in DOMAIN given :
       \/ given[i].fingerprint # given[j].fingerprint
       \/ given[i].size # given[j].size
       \/ i # j /\ (\/ given[i].index = given[j].index
                    \/ given[i].share.coordinate = given[j].share.coordinate)

(* Mutant: the entropy is not compared with the fingerprint.               *)
RecoverUnbound(given) ==
    IF Len(given) \notin 2 .. 255 \/ Mixed(given) \/ \E i \in DOMAIN given : ~WellFormed(given[i])
    THEN Nothing
    ELSE LET entropy == SSSCombine([i \in DOMAIN given |-> given[i].share])
         IN  IF entropy = Nothing THEN Nothing ELSE NewMnemonic(given[1].size - 5, entropy)

PerformRecover(given) ==
    IF Len(given) \notin 2 .. 255 \/ Mixed(given) \/ \E i \in DOMAIN given : ~WellFormed(given[i])
    THEN Nothing
    ELSE LET entropy == SSSCombine([i \in DOMAIN given |-> given[i].share])
         IN  IF entropy = Nothing THEN Nothing
             ELSE IF Hash[entropy] # given[1].fingerprint THEN Nothing
                  ELSE NewMnemonic(given[1].size - 5, entropy)

(* The facade of the mobile SDK splits in three, of which two recover, and *)
(* takes two or three (in the legacy form two) from a list.                *)
TotalShares == 3
ThresholdShares == 2

SssSplit(text, shuffle, random) ==
    PerformSplit(text, TotalShares, ThresholdShares, shuffle, random)

recoverShares(list, maxShares) ==
    IF \/ \E i \in DOMAIN list : list[i].form = "empty"
       \/ Len(list) \notin 2 .. maxShares
    THEN Nothing
    ELSE PerformRecover(list)

SssRecover(list) == recoverShares(list, TotalShares)
SssRecoverLegacy(list) == recoverShares(list, 2)
=============================================================================
