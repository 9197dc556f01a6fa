------------------------------- MODULE MCWallet -------------------------------
(* Two phrases and texts that are none; splits in three of which two or    *)
(* three recover, and shapes that are refused; two orders of coordinates   *)
(* and three outcomes of the random source, such that shares of different  *)
(* splits may combine to what passes the checksum.                         *)
EXTENDS Wallet, MCTxBuilder

MCHash == [b \in Byte |-> (0 .. 7) \ b]
MCOwn == Text(12, TRUE, {0, 6}, MCHash[{0, 6}])
MCTexts == {MCOwn, Text(24, TRUE, {3}, MCHash[{3}]), Text(12, TRUE, {3}, {}),
            Text(12, FALSE, {3}, MCHash[{3}]), Text(13, TRUE, {3}, MCHash[{3}])}
MCShapes == {<<3, 2>>, <<3, 3>>, <<2, 3>>, <<2, 1>>}
MCShuffles == {<<{0}, {1, 5}, {0, 7}>>, <<{0, 7}, {0}, {2}>>}
MCDraws == {<<<<{1}, {4, 5}>>, <<{1}, {4, 5}>>>>,
            <<<<{0, 2}, {1}>>, <<{0, 2}, {1}>>>>,
            <<<<{}, {3}>>, <<{6, 7}, {}>>>>}
MCKey(id, type, bits, password) ==
    [id |-> id, type |-> type, bits |-> bits, exponent |-> 65537, password |-> password]
MCPasswords == {"", "short", "long", "other"}
MCShort == {"", "short"}
MCKeys == {MCKey("a", "RSA", 3072, Nothing), MCKey("b", "RSA", 8192, "long"),
           MCKey("c", "RSA", 2048, Nothing), MCKey("d", "EC", 256, Nothing)}
=============================================================================
