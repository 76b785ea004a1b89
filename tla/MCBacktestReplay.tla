--------------------------- MODULE MCBacktestReplay ---------------------------
(***************************************************************************)
(* Small windows: an account for a few lots, prices that make a purchase   *)
(* leave a rest, a bar without a price, three months of which one may have *)
(* no bar, and intents that ask for more than there is.                    *)
(***************************************************************************)
EXTENDS BacktestReplay

Seed(dead, floating, cold) ==
  [type \in LotTypes |-> CASE type = "DEAD_STACK" -> dead [] type = "FLOATING" -> floating
                           [] type = "COLD_SEALED" -> cold]
MCSeeds == {Seed(0, 0, 0), Seed(4, 2, 2)}

MCTerms == {[direction |-> "long", leverage |-> 1], [direction |-> "long", leverage |-> 2],
            [direction |-> "short", leverage |-> 1], [direction |-> "long_short", leverage |-> 2]}

BuyOf(type, amount) == [action |-> "BUY", type |-> type, amount |-> amount, qty |-> 0]
SaleOf(type, qty) == [action |-> "SELL", type |-> type, amount |-> 0, qty |-> qty]
Conversion(from, to, amount) == [from |-> from, to |-> to, amount |-> amount]

MCMicro == {<<>>, <<BuyOf("FLOATING", 30)>>, <<SaleOf("FLOATING", 5)>>, <<SaleOf("DEAD_STACK", 2)>>}

MCSpotOutputs ==
  [conversions : {<<>>, <<Conversion("DEAD_STACK", "FLOATING", 3)>>,
                  <<Conversion("FLOATING", "COLD_SEALED", 3),
                    Conversion("COLD_SEALED", "FLOATING", 2)>>},
   macro : {<<>>}, micro : MCMicro]
  \cup [conversions : {<<>>}, macro : {<<BuyOf("DEAD_STACK", 14)>>}, micro : MCMicro]

MarginIntent(action, side, offset, amount, qty, leverage) ==
  [action |-> action, side |-> side, offset |-> offset, amount |-> amount, qty |-> qty,
   leverage |-> leverage]

MCMarginOutputs ==
  [conversions : {<<>>},
   macro : {<<>>, <<MarginIntent("BUY", "", "", 20, 0, 0)>>,
            <<MarginIntent("SELL", "SHORT", "OPEN", 0, 4, 1)>>},
   micro : {<<>>, <<MarginIntent("SELL", "", "", 0, 3, 0)>>,
            <<MarginIntent("BUY", "LONG", "OPEN", 40, 0, 0)>>,
            <<MarginIntent("BUY", "SHORT", "CLOSE", 0, 0, 0),
              MarginIntent("SELL", "LONG", "CLOSE", 12, 0, 0)>>}]
=============================================================================
