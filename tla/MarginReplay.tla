----------------------------- MODULE MarginReplay -----------------------------
(***************************************************************************)
(* The margin ledger of a backtest (adapters/backtest/run.go): what        *)
(* runMarginBacktest does with one bar when a leverage or a direction      *)
(* other than long is asked for.  Long and short are two positions; there  *)
(* is no liquidation, so the balance may become negative, and then it      *)
(* counts as nothing available.                                            *)
(*                                                                         *)
(* The conventions are those of SpotReplay.  FeePct is such that the       *)
(* margins and fees of the prices and leverages are integers; average      *)
(* entries and released margins are rounded down.                          *)
(***************************************************************************)
EXTENDS ReplayConstraints, Sequences, FiniteSetsExt, SequencesExt

Sides == {"LONG", "SHORT"}
Directions == {"long", "short", "long_short"}
Offsets == {"OPEN", "CLOSE"}

\* What an intent may ask for.
MarginIntents ==
  [action : {"BUY", "SELL"}, side : Sides \cup {""}, offset : Offsets \cup {""},
   amount : Int, qty : Int, leverage : Int]

VARIABLES
  account,    \* balance, frozen, realized, positions, and the fees of its
              \* orders by offset
  terms       \* what was asked for: direction, leverage, and the deposit

mvars == <<account, terms>>

NoPosition == [qty |-> 0, entry |-> 0, margin |-> 0, leverage |-> 1]

\* A position that is closed has no row.
Positions ==
  {p \in [qty : Nat, entry : Nat, margin : Nat, leverage : Nat \ {0}] : p.qty = 0 => p = NoPosition}

MarginTypeOK ==
  /\ account \in [balance : Int, frozen : Nat, realized : Int,
                  positions : [Sides -> Positions], fees : [Offsets -> Nat]]
  /\ terms \in [direction : Directions, leverage : Nat \ {0}, deposit : Nat]

\* asked is a direction and a leverage; the account is opened with a deposit.
MarginInit(asked, deposit) ==
  /\ terms = [direction |-> asked.direction, leverage |-> asked.leverage, deposit |-> deposit]
  /\ account = [balance |-> deposit, frozen |-> 0, realized |-> 0,
                positions |-> [side \in Sides |-> NoPosition],
                fees |-> [offset \in Offsets |-> 0]]

-----------------------------------------------------------------------------

\* availableBalance
Available(a) == Max({a.balance, 0})

Fee(notional) == (notional * FeePct) \div 100

Profit(side, entry, exit, qty) ==
  IF side = "SHORT" THEN (entry - exit) * qty ELSE (exit - entry) * qty

\* inferMarginIntent: what an intent without a side or an offset means.
SideOf(intent) ==
  IF intent.side # "" THEN intent.side
  ELSE IF terms.direction = "short" THEN "SHORT" ELSE "LONG"

OffsetOf(intent) ==
  IF intent.offset # "" THEN intent.offset
  ELSE IF (SideOf(intent) = "LONG") = (intent.action = "BUY") THEN "OPEN" ELSE "CLOSE"

\* Sides that the direction does not trade are refused.
Accepted(side) ==
  /\ terms.direction = "long" => side = "LONG"
  /\ terms.direction = "short" => side = "SHORT"

LeverageOf(intent) == IF intent.leverage > 0 THEN intent.leverage ELSE terms.leverage

\* openPosition when the order is made: margin and fee leave the balance.
Opened(a, side, lev, qty, price) ==
  LET margin == (qty * price) \div lev
      fee == Fee(qty * price)
      p == a.positions[side]
      new == [qty |-> p.qty + qty, margin |-> p.margin + margin, leverage |-> lev,
              entry |-> (p.entry * p.qty + price * qty) \div (p.qty + qty)]
  IN [a EXCEPT !.balance = @ - margin - fee, !.frozen = @ + margin,
               !.fees["OPEN"] = @ + fee, !.positions[side] = new]

\* openPosition: as much of the intent as the available balance pays for.
Open(a, intent, side, price) ==
  LET lev == LeverageOf(intent)
      wanted == IF intent.qty > 0 THEN intent.qty * price ELSE intent.amount * lev
      maxNotional == (Available(a) * lev * 100) \div (100 + FeePct * lev)
      qty == FloorToStep(Min({wanted, maxNotional}) \div price)
  IN IF wanted < MinOrder \/ maxNotional <= 0 \/ qty < LotMin \/ qty <= 0
        \/ (qty * price) \div lev + Fee(qty * price) > Available(a)
     THEN a
     ELSE Opened(a, side, lev, qty, price)

\* Mutant: the released margin is taken from the position only.
CloseUnfrozen(a, intent, side, price) ==
  LET p == a.positions[side] IN
  IF p.qty = 0 THEN a
  ELSE [a EXCEPT !.balance = @ + p.margin + Profit(side, p.entry, price, p.qty),
                 !.realized = @ + Profit(side, p.entry, price, p.qty),
                 !.positions[side] = NoPosition]

\* Mutant: a position that is closed in full keeps its row.
CloseKeepsRow(a, intent, side, price) ==
  LET p == a.positions[side] IN
  IF p.qty = 0 THEN a
  ELSE [a EXCEPT !.balance = @ + p.margin, !.frozen = @ - p.margin,
                 !.positions[side] = [p EXCEPT !.qty = 0, !.margin = 0]]

\* closePosition when the order is made: the margin is released in
\* proportion, profit or loss goes to the balance.
Closed(a, side, qty, price) ==
  LET p == a.positions[side]
      released == (p.margin * qty) \div p.qty
      fee == Fee(qty * price)
      net == Profit(side, p.entry, price, qty) - fee
      rest == IF qty = p.qty THEN NoPosition
              ELSE [p EXCEPT !.qty = @ - qty, !.margin = @ - released]
  IN [a EXCEPT !.balance = @ + released + net, !.frozen = @ - released,
               !.realized = @ + net, !.fees["CLOSE"] = @ + fee, !.positions[side] = rest]

\* closePosition: no quantity means all of it.
Close(a, intent, side, price) ==
  LET held == a.positions[side].qty
      wanted == IF intent.qty > 0 THEN intent.qty
                ELSE IF intent.amount > 0 THEN intent.amount \div price ELSE held
      qty == FloorToStep(Min({wanted, held}))
  IN IF held = 0 \/ qty < LotMin \/ qty <= 0 \/ qty * price < MinOrder THEN a
     ELSE Closed(a, side, qty, price)

\* applyMarginIntents for one intent.
ApplyMargin(a, intent, price) ==
  LET side == SideOf(intent) IN
  IF ~Accepted(side) THEN a
  ELSE IF OffsetOf(intent) = "OPEN" THEN Open(a, intent, side, price)
  ELSE Close(a, intent, side, price)

\* One bar of runMarginBacktest's loop: the macro intents, then the micro ones.
MarginBar(price, output) ==
  /\ terms' = terms
  /\ account' = IF price <= 0 THEN account
                ELSE FoldLeft(LAMBDA a, intent : ApplyMargin(a, intent, price),
                              account, output.macro \o output.micro)
=============================================================================
