---------------------------- MODULE MCSmartMoney ----------------------------
(* Small instance of SmartMoney for TLC. *)
EXTENDS SmartMoney

CONSTANTS a, b

Entry(tx, w, dir, side, usd, row) ==
    [tx |-> tx, wallet |-> w, dir |-> dir, side |-> side, usd |-> usd, row |-> row]

MCWallets == {a, b}
MCTape == <<Entry(1, a, "YES", "BUY", 2, "ok"), Entry(2, b, "NO", "BUY", 2, "raise"),
            Entry(3, b, "YES", "BUY", 2, "ok"), Entry(4, a, "YES", "BUY", 2, "ok"),
            Entry(5, b, "YES", "SELL", 2, "ok")>>
MCVolume == <<4, 2>>
MCCount == <<2, 1>>
MCMinCluster == <<2, 2>>
=============================================================================
