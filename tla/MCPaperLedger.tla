--------------------------- MODULE MCPaperLedger ----------------------------
(* A small ledger: one token, a purchase, an addition to it and a sale,      *)
(* attempted and booked in any order.                                        *)
EXTENDS PaperLedger

CONSTANTS m1, b1, b2, s1

Intent(key, mint, side, notional) ==
    [key |-> key, mint |-> mint, side |-> side, notional |-> notional,
     asOf |-> 0, maxSlippage |-> 5000]

Quote(mint, observed, price, avail, state) ==
    [mint |-> mint, observed |-> observed, ref |-> 1, price |-> price,
     avail |-> avail, state |-> state]

OneTokenIntents ==
    { Intent(b1, m1, "BUY", 4), Intent(b2, m1, "BUY", 2),
      Intent(s1, m1, "SELL", 4) }

OneTokenQuotes ==
    { Quote(m1, 1, 1, 4, "EXECUTABLE"),
      Quote(m1, 1, 1, 2, "EXECUTABLE"),
      Quote(m1, 1, 1, 4, "FAILED_AFTER_SUBMISSION") }
=============================================================================
