------------------------------ MODULE SeedBackup ------------------------------
(***************************************************************************)
(* A wallet whose phrase is backed up and recovered: as shares that the    *)
(* user keeps apart, perhaps of several splits (crypto/sss.go), or as one  *)
(* document sealed with a password or for a public key                     *)
(* (crypto/keystore.go, crypto/cipher.go).  A document or a share may be   *)
(* altered where it is kept.                                               *)
(*                                                                         *)
(* Keys and ciphers are symbolic: a derived key is what it is derived from,*)
(* a ciphertext what it seals, and nothing opens it but the same key.      *)
(***************************************************************************)
EXTENDS SecretSharing

CONSTANTS
    Texts,      \* what the user may give as the phrase
    Shapes,     \* pairs of total and threshold
    Shuffles,   \* orders of coordinates that randomCoordinates returns
    Draws,      \* random bytes, for each byte of a payload
    Passwords   \* strings; those of ShortPasswords have under 8 characters

CONSTANTS
    ShortPasswords,
    Keys        \* RSA keys: id, type, bits, exponent, password or Nothing

ASSUME PasswordsAssumption == ShortPasswords \subseteq Passwords
ASSUME ShufflesAssumption ==
    \A s \in Shuffles : \A i, j \in DOMAIN s : s[i] \in Byte \ {Zero} /\ (i # j => s[i] # s[j])

-----------------------------------------------------------------------------
(* scrypt and AES-CTR.  What another initialization vector or key decrypts *)
(* to is no text.                                                          *)
Garbage == Text(1, FALSE, Zero, Zero)
DerivedKey(password, doc) == <<password, doc.salt, doc.n, doc.r, doc.p>>
AesEncryptCTR(text, key, iv) == [text |-> text, key |-> key, iv |-> iv]
AesDecryptCTR(ciphertext, key, iv) ==
    IF ciphertext.key = key /\ ciphertext.iv = iv THEN ciphertext.text ELSE Garbage
Mac(key, ciphertext) == <<key, ciphertext>>

WriteToKeyStore(text, password, isMn) ==
    IF \/ isMn /\ ~IsValidMnemonic(text)
       \/ password \in ShortPasswords
    THEN Nothing
    ELSE LET params == [kdf |-> "scrypt", cipher |-> "aes-128-ctr", dklen |-> 32, n |-> 262144,
                        r |-> 8, p |-> 1, salt |-> "salt", iv |-> "iv"]
             key == DerivedKey(password, params)
             ciphertext == AesEncryptCTR(text, key, "iv")
         IN  [form |-> "keystore", params |-> params, ciphertext |-> ciphertext,
              mac |-> Mac(key, ciphertext)]

PowersOfTwo == {2 ^ k : k \in 1 .. 20}
checkScryptParams(n, r, p) == n \in PowersOfTwo /\ r \in 1 .. 16 /\ p \in 1 .. 16

(* What both readers share, once the password is accepted.                 *)
Unseal(doc, password) ==
    LET params == doc.params
        key == DerivedKey(password, params)
    IN  IF \/ params.kdf # "scrypt" \/ params.cipher # "aes-128-ctr" \/ params.dklen # 32
           \/ ~checkScryptParams(params.n, params.r, params.p)
           \/ doc.mac # Mac(key, doc.ciphertext)
        THEN Nothing
        ELSE AesDecryptCTR(doc.ciphertext, key, params.iv)

ReadFromKeyStore(doc, password, isMn) ==
    IF password \in ShortPasswords THEN Nothing
    ELSE LET text == Unseal(doc, password)
         IN  IF text = Nothing THEN Nothing
             ELSE IF isMn /\ ~IsValidMnemonic(text) THEN Nothing ELSE text

(* The bytes are returned in hex: here the text that they are.             *)
ReadFromGethKeyStore(doc, password) == Unseal(doc, password)

(* AES-GCM under a key that scrypt derives with fixed parameters.          *)
EncryptText(text, password) ==
    LET params == [salt |-> "salt", n |-> 32768, r |-> 8, p |-> 1]
    IN  IF password = "" THEN Nothing
        ELSE [form |-> "text", salt |-> "salt", nonce |-> "nonce",
              sealed |-> [text |-> text, key |-> DerivedKey(password, params), nonce |-> "nonce"]]

DecryptText(doc, password) ==
    LET params == [salt |-> doc.salt, n |-> 32768, r |-> 8, p |-> 1]
    IN  IF \/ password = ""
           \/ doc.sealed.key # DerivedKey(password, params) \/ doc.sealed.nonce # doc.nonce
        THEN Nothing ELSE doc.sealed.text

(* A compact JWE.  A key is an RSA pair with its size, and whether the     *)
(* private one is kept under a password.                                   *)
AcceptsKey(k) == k.type = "RSA" /\ k.bits \in 3072 .. 8192 /\ k.exponent = 65537

EncryptJWE(text, public) ==
    IF ~AcceptsKey(public) THEN Nothing
    ELSE [form |-> "jwe", header |-> "plain", sealed |-> [text |-> text, key |-> public.id]]

DecryptJWE(doc, private, password) ==
    IF \/ private.password # Nothing /\ password # private.password
       \/ ~AcceptsKey(private)
       \/ doc.header = "zip"
       \/ doc.sealed.key # private.id
    THEN Nothing
    ELSE doc.sealed.text

-----------------------------------------------------------------------------
VARIABLES
    splits,     \* what was split: the text, the threshold and the shares
    document,   \* what is kept sealed: the text, how, and the document
    answer      \* of the last call, Nothing before

backupVars == <<splits, document, answer>>

BackupInit == splits = <<>> /\ document = Nothing /\ answer = Nothing

Answer(op, given, got) == [op |-> op, given |-> given, got |-> got]
Refused(op) == answer' = Answer(op, <<>>, Nothing)

(* A second split is of the same phrase, after some of the shares were     *)
(* lost, or of another one of the user's.                                  *)
SplitPhrase ==
    /\ answer = Nothing /\ document = Nothing /\ Len(splits) < 2
    /\ \E text \in Texts, shape \in Shapes, shuffle \in Shuffles, random \in Draws :
         LET shares == IF shape = <<TotalShares, ThresholdShares>> THEN SssSplit(text, shuffle, random)
                       ELSE PerformSplit(text, shape[1], shape[2], shuffle, random)
         IN  IF shares = <<>> THEN Refused("split") /\ UNCHANGED <<splits, document>>
             ELSE /\ splits' = Append(splits, [text |-> text, threshold |-> shape[2], shares |-> shares])
                  /\ UNCHANGED <<document, answer>>

(* What may become of a share where it is kept.  Another index is the one  *)
(* change that does not matter.                                            *)
Altered(s) ==
    {[s EXCEPT !.index = 7],
     [s EXCEPT !.index = 255],
     [s EXCEPT !.size = 22],
     [s EXCEPT !.size = IF @ = 21 THEN 37 ELSE 21],
     [s EXCEPT !.fingerprint = Plus(@, One)],
     [s EXCEPT !.share.bytes[1] = Plus(@, One)],
     [s EXCEPT !.share.coordinate = Zero],
     [s EXCEPT !.share.coordinate = Plus(@, {7})],
     [s EXCEPT !.form = "unreadable"],
     [s EXCEPT !.form = "empty"]}

MostGiven == [SssRecover |-> TotalShares, SssRecoverLegacy |-> 2, PerformRecover |-> 255]

Recovered(op, list) ==
    CASE op = "SssRecover" -> SssRecover(list)
      [] op = "SssRecoverLegacy" -> SssRecoverLegacy(list)
      [] op = "PerformRecover" -> PerformRecover(list)

(* The shares that were made: the split and the position in it.            *)
Made == UNION {{k} \X DOMAIN splits[k].shares : k \in DOMAIN splits}
ShareAt(at) == splits[at[1]].shares[at[2]]
InOrder(picks) ==
    \A i, j \in DOMAIN picks :
       i < j => \/ picks[i][1] < picks[j][1]
                \/ picks[i][1] = picks[j][1] /\ picks[i][2] <= picks[j][2]

(* Up to three of them, perhaps one twice, perhaps the first one altered.  *)
RecoverPhrase ==
    /\ answer = Nothing /\ splits # <<>>
    /\ \E n \in 1 .. 3 : \E picks \in {s \in [1 .. n -> Made] : InOrder(s)} :
       \E first \in {ShareAt(picks[1])} \cup (IF Len(splits) = 1 THEN Altered(ShareAt(picks[1])) ELSE {}),
          op \in DOMAIN MostGiven :
         LET list == [i \in 1 .. n |-> IF i = 1 THEN first ELSE ShareAt(picks[i])]
         IN  answer' = Answer(op, [picks |-> picks, first |-> first], Recovered(op, list))
    /\ UNCHANGED <<splits, document>>

-----------------------------------------------------------------------------
(* One document, with a password or for a key.                             *)
SealPhrase ==
    /\ answer = Nothing /\ document = Nothing /\ splits = <<>>
    /\ \E text \in Texts, password \in Passwords, key \in Keys, isMn \in BOOLEAN,
          form \in {"keystore", "text", "jwe"} :
         LET sealed == CASE form = "keystore" -> WriteToKeyStore(text, password, isMn)
                         [] form = "text" -> EncryptText(text, password)
                         [] form = "jwe" -> EncryptJWE(text, key)
         IN  IF sealed = Nothing THEN Refused("seal") /\ UNCHANGED document
             ELSE /\ document' = [text |-> text, isMn |-> isMn, sealed |-> sealed,
                                  secret |-> IF form = "jwe" THEN key ELSE password]
                  /\ UNCHANGED answer
    /\ UNCHANGED splits

(* A field of the document is another one.                                 *)
Tampered(doc) ==
    CASE doc.form = "keystore" ->
           {[doc EXCEPT !.params.kdf = "pbkdf2"], [doc EXCEPT !.params.cipher = "aes-256-gcm"],
            [doc EXCEPT !.params.dklen = 16], [doc EXCEPT !.params.n = 3],
            [doc EXCEPT !.params.n = 2 ^ 21], [doc EXCEPT !.params.n = 2 ^ 17],
            [doc EXCEPT !.params.r = 0], [doc EXCEPT !.params.p = 17],
            [doc EXCEPT !.params.salt = "other"], [doc EXCEPT !.params.iv = "other"],
            [doc EXCEPT !.ciphertext.text = Garbage], [doc EXCEPT !.mac = <<>>]}
      [] doc.form = "text" -> {[doc EXCEPT !.salt = "other"], [doc EXCEPT !.nonce = "other"],
                               [doc EXCEPT !.sealed.key = <<>>]}
      [] doc.form = "jwe" -> {[doc EXCEPT !.header = "zip"], [doc EXCEPT !.sealed.key = Nothing]}

Opened(form, doc, password, key, isMn) ==
    CASE form = "keystore" -> ReadFromKeyStore(doc, password, isMn)
      [] form = "geth" -> ReadFromGethKeyStore(doc, password)
      [] form = "text" -> DecryptText(doc, password)
      [] form = "jwe" -> DecryptJWE(doc, key, password)

OpenDocument ==
    /\ answer = Nothing /\ document # Nothing
    /\ \E form \in (IF document.sealed.form = "keystore" THEN {"keystore", "geth"}
                     ELSE {document.sealed.form}),
          doc \in {document.sealed} \cup Tampered(document.sealed),
          password \in Passwords, key \in Keys, isMn \in BOOLEAN :
         answer' = Answer(form, [doc |-> doc, password |-> password, key |-> key, isMn |-> isMn],
                          Opened(form, doc, password, key, isMn))
    /\ UNCHANGED <<splits, document>>

(* The caller has seen the answer, and may call again.                     *)
NextCall == answer # Nothing /\ answer' = Nothing /\ UNCHANGED <<splits, document>>

BackupNext == SplitPhrase \/ RecoverPhrase \/ SealPhrase \/ OpenDocument \/ NextCall

-----------------------------------------------------------------------------
(* Shares give back the phrase that they are of or nothing, also when they *)
(* are of several splits of it, too few, or one was altered; and as many   *)
(* shares of one split as its threshold, with whatever indices, always     *)
(* give it back.                                                           *)
FromShares ==
    LET picks == answer.given.picks
        first == answer.given.first
        own == \A i \in DOMAIN picks : picks[i][1] = picks[1][1]
        distinct == \A i, j \in DOMAIN picks : i # j => picks[i] # picks[j]
        intact == first = [ShareAt(picks[1]) EXCEPT !.index = first.index] /\ first.index <= 254
    IN  /\ answer.got # Nothing => \A i \in DOMAIN picks : splits[picks[i][1]].text = answer.got
        /\ own /\ distinct /\ intact /\ Len(picks) \in splits[picks[1][1]].threshold .. MostGiven[answer.op]
           => answer.got = splits[picks[1][1]].text

(* A document opens with its own secret, to what was sealed.  The MAC of a *)
(* keystore does not cover the initialization vector: with another one a   *)
(* phrase is refused and a private key is read as other bytes.             *)
FromDocument ==
    LET given == answer.given
        own == IF answer.op = "jwe" THEN given.key.id = document.secret.id
               ELSE given.password = document.secret
        another == answer.op \in {"keystore", "geth"} /\ given.doc.params.iv # "iv"
        asked == answer.op = "keystore" /\ given.isMn
    IN  /\ answer.got # Nothing => own /\ ((another /\ ~asked) \/ answer.got = document.text)
        /\ (/\ own /\ given.doc = document.sealed
            /\ answer.op = "jwe" => given.key.password \in {Nothing, given.password}
            /\ asked => document.isMn)
           => answer.got = document.text

(* Recovery never makes up a wallet: PerformRecover (crypto/sss.go) and    *)
(* the readers of keystore.go and cipher.go return what was backed up or   *)
(* an error, and an intact backup with its secret is never refused.        *)
RecoveredIsBackedUp ==
    answer # Nothing =>
       /\ answer.op \in DOMAIN MostGiven => FromShares
       /\ answer.op \in {"keystore", "geth", "text", "jwe"} => FromDocument
=============================================================================
