----------------------------- MODULE MCTradeLoop -----------------------------
(* Small instances of the engine session against its broker and feed.       *)
EXTENDS TradeLoop

\* Equal balances at 1x: the target is the master's net, in whole shares.
MCEqual == [clientBalance |-> 1, masterBalance |-> 1, multiplier |-> 10,
            forceMinOne |-> TRUE]
\* The client has half the master's balance, and a balance nobody knows yet.
MCHalf == [MCEqual EXCEPT !.masterBalance = 2]
MCUnknown == [MCEqual EXCEPT !.masterBalance = 0]

MCOneParams == {MCEqual}
MCAllParams == {MCEqual, MCHalf, MCUnknown}

MCAllFaults == AllFaults
MCNoFaults == {}
MCNoButtons == {}
MCBothButtons == {"START", "CLOSE ALL"}
MCCloseAll == {"CLOSE ALL"}

\* Long, flat and short masters.
MCFlip == {-1, 0, 2}
MCLong == {0, 2}
MCTurn == {-1, 1}
MCOne == {1}
MCFlat == {0}

\* Half shares: the client starts with one and a half.
MCHalfFlip == {-2, 0, 4}
MCHalfInit == {0, 3}

MCLoTwo == -2
MCLoOne == -1
MCLoZero == 0

\* Faults that disturb the order bookkeeping and the ledger file.
MCOrderFaults == {"place", "reject", "reconnect", "panic", "crash", "torn", "save"}

\* Every fault but those of the ledger file.
MCDiskWorks == AllFaults \ {"torn", "save"}

MCLiveRead == {"live_read"}
MCReconnect == {"reconnect"}

\* Every fault but a lost link.
MCHolds == AllFaults \ {"reconnect", "panic", "crash"}
=============================================================================
