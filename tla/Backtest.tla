------------------------------- MODULE Backtest -------------------------------
(***************************************************************************)
(* run_one of crates/engine/src/executor.rs: the bar loop of one backtest, *)
(* with the intent book (intent.rs), the fill model (fill_model.rs), the   *)
(* position book (position_book.rs), the trade log (trade_log.rs) and the  *)
(* equity recorder (equity_recorder.rs).  The strategy is any program that *)
(* submits orders from its callbacks or returns an error from one; the     *)
(* bars are any series in the order of time.                               *)
(*                                                                         *)
(* Prices, fees and profits are integers in units fine enough for every    *)
(* pro-rata division of an instance to be exact.  An average price is kept *)
(* as the entry cost, average price times size held, in both books.        *)
(***************************************************************************)
EXTENDS Integers, Sequences, FiniteSets

CONSTANTS
    Symbols,            \* the symbols of the dataset
    Quotes,             \* the (open, close) pairs a bar may have
    Tickets,            \* the (side, size, limit) a strategy may order
    Commission,         \* engine.commission_per_fill
    SlippagePercent,    \* engine.slippage_bps, in percent of the price
    InitialCapital,     \* engine.initial_capital
    MaxOrders,          \* bound: orders one strategy submits
    MaxBars             \* bound: bars of the slice

NoLimit == -1
Sides == {"long", "short"}
Models == {"NextBarOpen", "CurrentBarClose"}

ASSUME SymbolsAssumption == IsFiniteSet(Symbols)
\* check_intent_size lets only finite positive sizes pass.
ASSUME TicketsAssumption ==
    Tickets \subseteq [side : Sides, size : Nat \ {0}, limit : Nat \union {NoLimit}]
ASSUME QuotesAssumption == Quotes \subseteq (Nat \ {0}) \X (Nat \ {0})
ASSUME FeeAssumption == Commission \in Nat /\ SlippagePercent \in Nat
ASSUME CapitalAssumption == InitialCapital \in Int
ASSUME BoundsAssumption == MaxOrders \in Nat /\ MaxBars \in Nat

VARIABLES
    model,      \* engine.fill_model
    stage,      \* where run_one is; a callback of the strategy or a step between two
    now,        \* the timestamp the callbacks see
    bar,        \* the bar being processed
    barCount,   \* bars of the slice processed so far
    marks,      \* last_marks: the last close of each symbol, 0 before its first bar
    intents,    \* the intent book, in submission order
    fills,      \* the orders try_fill has filled and the loop has not delivered yet
    book,       \* positions: per symbol the signed size, entry cost, profit and fees
    open,       \* the trade log's open trade per symbol, size 0 when there is none
    closed,     \* per symbol the pnl and fees of the closed trades, summed
    realized,   \* realized_pnl_running
    equity      \* the equity of the last recorded point

vars == <<model, stage, now, bar, barCount, marks, intents, fills, book, open,
          closed, realized, equity>>

Callbacks == {"on_init", "on_fill", "on_bar", "on_end"}
Stages == Callbacks \union {"next_bar", "fills", "done", "failed"}

Orders == [symbol : Symbols, side : Sides, size : Nat \ {0}, limit : Nat \union {NoLimit},
           submitted : Nat, status : {"pending", "filled", "expired"},
           price : Nat, filled : Nat, against : Symbols]
Bars == [symbol : Symbols, ts : Nat, open : Nat, close : Nat]
NoBar == [symbol |-> "none", ts |-> 0, open |-> 0, close |-> 0]
Positions == [size : Int, cost : Int, gross : Int, fees : Int]
OpenTrades == [side : Sides, size : Nat, cost : Int, fees : Int]
Totals == [pnl : Int, fees : Int]

TypeOK ==
    /\ model \in Models
    /\ stage \in Stages
    /\ now \in Nat
    /\ bar \in Bars \union {NoBar}
    /\ barCount \in 0..MaxBars
    /\ marks \in [Symbols -> Nat]
    /\ intents \in Seq(Orders)
    /\ fills \subseteq DOMAIN intents
    /\ book \in [Symbols -> Positions]
    /\ open \in [Symbols -> OpenTrades]
    /\ closed \in [Symbols -> Totals]

Flat == [size |-> 0, cost |-> 0, gross |-> 0, fees |-> 0]
NoTrade == [side |-> "long", size |-> 0, cost |-> 0, fees |-> 0]

\* bars[0] carries timestamp 0; the slice may begin later.
Init ==
    /\ model \in Models
    /\ stage = "on_init"
    /\ now = 0
    /\ bar = NoBar
    /\ barCount = 0
    /\ marks = [s \in Symbols |-> 0]
    /\ intents = <<>>
    /\ fills = {}
    /\ book = [s \in Symbols |-> Flat]
    /\ open = [s \in Symbols |-> NoTrade]
    /\ closed = [s \in Symbols |-> [pnl |-> 0, fees |-> 0]]
    /\ realized = 0
    /\ equity = InitialCapital

(***************************************************************************)
(* The fill model                                                          *)
(***************************************************************************)
Low(b) == IF b.open <= b.close THEN b.open ELSE b.close
High(b) == IF b.open >= b.close THEN b.open ELSE b.close

\* The price the model trades at: the next bar's open or this bar's close.
Reference(b) == IF model = "NextBarOpen" THEN b.open ELSE b.close

\* limit_fill_price: the reference when it is at least as good as the limit, the
\* limit itself when the bar reached it, and no fill otherwise.
CanFill(o, b) ==
    \/ o.limit = NoLimit
    \/ o.side = "long" /\ Low(b) <= o.limit
    \/ o.side = "short" /\ High(b) >= o.limit

FillPrice(o, b) ==
    IF \/ o.limit = NoLimit
       \/ o.side = "long" /\ Reference(b) <= o.limit
       \/ o.side = "short" /\ Reference(b) >= o.limit
    THEN Reference(b) ELSE o.limit

FeeOf(price) == Commission + (price * SlippagePercent) \div 100

\* A slip of the guard below: an order submitted on this bar fills on it.
FillableAtOnce(o, b) == o.status = "pending" /\ CanFill(o, b)

\* IntentBook::try_fill. The symbol of the order is not compared with the bar's.
Fillable(o, b) ==
    /\ o.status = "pending"
    /\ ~(model = "NextBarOpen" /\ o.submitted = b.ts)
    /\ CanFill(o, b)

\* A slip of the step below: the status of a filled order is not flipped.
TryFillAgain(b) ==
    /\ intents' = [k \in DOMAIN intents |->
                      IF Fillable(intents[k], b)
                      THEN [intents[k] EXCEPT !.filled = b.ts, !.price = FillPrice(intents[k], b),
                               !.against = b.symbol]
                      ELSE intents[k]]
    /\ fills' = {k \in DOMAIN intents : Fillable(intents[k], b)}

TryFill(b) ==
    /\ intents' = [k \in DOMAIN intents |->
                      IF Fillable(intents[k], b)
                      THEN [intents[k] EXCEPT !.status = "filled", !.filled = b.ts,
                               !.price = FillPrice(intents[k], b), !.against = b.symbol]
                      ELSE intents[k]]
    /\ fills' = {k \in DOMAIN intents : Fillable(intents[k], b)}

(***************************************************************************)
(* The two books                                                           *)
(***************************************************************************)
Abs(n) == IF n < 0 THEN -n ELSE n
Least(a, b) == IF a <= b THEN a ELSE b
Signed(side, n) == IF side = "long" THEN n ELSE -n
\* part/whole of an amount.
Share(amount, part, whole) == (amount * part) \div whole

SameSign(a, b) == (a > 0 /\ b > 0) \/ (a < 0 /\ b < 0)

PnlPerSide(side, bought, sold) == IF side = "long" THEN sold - bought ELSE bought - sold
Facing(p) == IF p.size > 0 THEN "long" ELSE "short"

\* A slip of the step below: a reversed position keeps its old average price.
ApplyFillStalePrice(p, d, price, fee) ==
    LET adds == p.size = 0 \/ SameSign(p.size, d)
        closing == Least(Abs(d), Abs(p.size))
        released == Share(p.cost, closing, Abs(p.size))
    IN  [size |-> p.size + d,
         cost |-> IF adds THEN p.cost + price * Abs(d)
                  ELSE Share(p.cost, Abs(p.size + d), Abs(p.size)),
         gross |-> IF adds THEN p.gross
                   ELSE p.gross + PnlPerSide(Facing(p), released, price * closing),
         fees |-> p.fees + fee]

\* PositionBook::apply_fill on one symbol's entry, d being the signed size.
ApplyFill(p, d, price, fee) ==
    LET adds == p.size = 0 \/ SameSign(p.size, d)
        new == p.size + d
        closing == Least(Abs(d), Abs(p.size))
        released == Share(p.cost, closing, Abs(p.size))
    IN  [size |-> new,
         cost |-> IF adds THEN p.cost + price * Abs(d)
                  ELSE IF new = 0 THEN 0
                  ELSE IF SameSign(p.size, new) THEN p.cost - released
                  ELSE price * Abs(new),
         gross |-> IF adds THEN p.gross
                   ELSE p.gross + PnlPerSide(Facing(p), released, price * closing),
         fees |-> p.fees + fee]

\* TradeLog::record_fill on one symbol: the open trade after the fill ...
TradeAfter(t, side, n, price, fee) ==
    IF t.size = 0 THEN [side |-> side, size |-> n, cost |-> price * n, fees |-> fee]
    ELSE IF t.side = side
    THEN [side |-> side, size |-> t.size + n, cost |-> t.cost + price * n, fees |-> t.fees + fee]
    ELSE IF n > t.size
    THEN [side |-> side, size |-> n - t.size, cost |-> price * (n - t.size),
          fees |-> Share(fee, n - t.size, n)]
    ELSE IF n < t.size
    THEN [side |-> t.side, size |-> t.size - n, cost |-> t.cost - Share(t.cost, n, t.size),
          fees |-> Share(t.fees, t.size - n, t.size)]
    ELSE NoTrade

\* ... and the profit of the trade it closes: the closed part is charged the
\* whole of the entry fees and its share of the exit fee.
CloseTotals(c, t, side, n, price, fee) ==
    IF t.size = 0 \/ t.side = side THEN c
    ELSE LET closing == Least(n, t.size)
             charged == t.fees + Share(fee, closing, n)
             profit == PnlPerSide(t.side, Share(t.cost, closing, t.size), price * closing)
         IN  [pnl |-> c.pnl + profit - charged, fees |-> c.fees + charged]

(***************************************************************************)
(* The strategy                                                            *)
(***************************************************************************)
NewOrder(s, ticket) ==
    [symbol |-> s, side |-> ticket.side, size |-> ticket.size, limit |-> ticket.limit,
     submitted |-> now, status |-> "pending", price |-> 0, filled |-> 0, against |-> s]

\* Context::submit_order from any callback; a size out of bounds is refused and
\* changes nothing.  The stop price of an order is stored and never read.
Submit(s, ticket) ==
    /\ stage \in Callbacks
    /\ Len(intents) < MaxOrders
    /\ intents' = Append(intents, NewOrder(s, ticket))
    /\ UNCHANGED <<model, stage, now, bar, barCount, marks, fills, book, open, closed,
                   realized, equity>>

\* A callback returns an error, which ends run_one.
StrategyFails ==
    /\ stage \in Callbacks
    /\ stage' = "failed"
    /\ UNCHANGED <<model, now, bar, barCount, marks, intents, fills, book, open, closed,
                   realized, equity>>

(***************************************************************************)
(* The bar loop                                                            *)
(***************************************************************************)
\* symbol_set: the symbols of the bars seen so far.
Seen(m) == {s \in Symbols : m[s] # 0}

\* The sum of the function f over a finite set S.
SumOver(S, f) ==
    LET sum[T \in SUBSET S] ==
            IF T = {} THEN 0 ELSE LET x == CHOOSE x \in T : TRUE IN f[x] + sum[T \ {x}]
    IN  sum[S]

\* positions_realized_total
Net(p) == p.gross - p.fees
RealizedTotal(bk, S) == SumOver(S, [s \in S |-> Net(bk[s])])

\* EquityRecorder::record
Unrealized(s) == PnlPerSide(Facing(book[s]), book[s].cost, marks[s] * Abs(book[s].size))
EquityNow ==
    InitialCapital + realized + SumOver(Seen(marks), [s \in Seen(marks) |-> Unrealized(s)])

EndOnInit ==
    /\ stage = "on_init"
    /\ stage' = "next_bar"
    /\ UNCHANGED <<model, now, bar, barCount, marks, intents, fills, book, open, closed,
                   realized, equity>>

\* The head of the loop and phase 1.
NextBar(b) ==
    /\ stage = "next_bar"
    /\ barCount < MaxBars
    /\ bar' = b
    /\ now' = b.ts
    /\ barCount' = barCount + 1
    /\ marks' = [marks EXCEPT ![b.symbol] = b.close]
    /\ IF model = "NextBarOpen"
       THEN TryFill(b) /\ stage' = "fills"
       ELSE stage' = "on_bar" /\ UNCHANGED <<intents, fills>>
    /\ UNCHANGED <<model, book, open, closed, realized, equity>>

\* One round of the loop over the fills, in the order of submission: the position
\* book, the realized total, the trade log, and then the strategy's on_fill.
DeliverFill(k) ==
    LET o == intents[k]
        s == o.symbol
        fee == FeeOf(o.price)
    IN
    /\ stage = "fills"
    /\ \A j \in fills : k <= j
    /\ fills' = fills \ {k}
    /\ book' = [book EXCEPT ![s] = ApplyFill(@, Signed(o.side, o.size), o.price, fee)]
    /\ realized' = RealizedTotal(book', Seen(marks))
    /\ open' = [open EXCEPT ![s] = TradeAfter(@, o.side, o.size, o.price, fee)]
    /\ closed' = [closed EXCEPT ![s] = CloseTotals(@, open[s], o.side, o.size, o.price, fee)]
    /\ stage' = "on_fill"
    /\ UNCHANGED <<model, now, bar, barCount, marks, intents, equity>>

EndOnFill ==
    /\ stage = "on_fill"
    /\ stage' = "fills"
    /\ UNCHANGED <<model, now, bar, barCount, marks, intents, fills, book, open, closed,
                   realized, equity>>

\* Every fill is delivered: phase 2 under NextBarOpen, phase 4 otherwise.
FillsDone ==
    /\ stage = "fills"
    /\ fills = {}
    /\ IF model = "NextBarOpen" THEN stage' = "on_bar" /\ UNCHANGED equity
       ELSE stage' = "next_bar" /\ equity' = EquityNow
    /\ UNCHANGED <<model, now, bar, barCount, marks, intents, fills, book, open, closed,
                   realized>>

\* The end of phase 2: phase 3 under CurrentBarClose, phase 4 otherwise.
EndOnBar ==
    /\ stage = "on_bar"
    /\ IF model = "CurrentBarClose"
       THEN TryFill(bar) /\ stage' = "fills" /\ UNCHANGED equity
       ELSE stage' = "next_bar" /\ equity' = EquityNow /\ UNCHANGED <<intents, fills>>
    /\ UNCHANGED <<model, now, bar, barCount, marks, book, open, closed, realized>>

\* A slip of the step below: every order is expired, whatever its status.
ExpireAll ==
    /\ stage = "next_bar"
    /\ stage' = "on_end"
    /\ intents' = [k \in DOMAIN intents |-> [intents[k] EXCEPT !.status = "expired"]]
    /\ UNCHANGED <<model, now, bar, barCount, marks, fills, book, open, closed, realized, equity>>

\* expire_all_pending and close_remaining, then on_end (whose clock, the last bar
\* of the dataset, no property looks at: nothing fills any more).
EndOfBars ==
    /\ stage = "next_bar"
    /\ stage' = "on_end"
    /\ intents' = [k \in DOMAIN intents |->
                      IF intents[k].status = "pending"
                      THEN [intents[k] EXCEPT !.status = "expired"] ELSE intents[k]]
    /\ closed' = [s \in Symbols |->
                     LET t == open[s]
                         last == IF s \in Seen(marks) THEN marks[s] * t.size ELSE t.cost
                     IN  IF t.size = 0 THEN closed[s]
                         ELSE [pnl |-> closed[s].pnl + PnlPerSide(t.side, t.cost, last) - t.fees,
                               fees |-> closed[s].fees + t.fees]]
    /\ open' = [s \in Symbols |-> NoTrade]
    /\ UNCHANGED <<model, now, bar, barCount, marks, fills, book, realized, equity>>

EndOnEnd ==
    /\ stage = "on_end"
    /\ stage' = "done"
    /\ UNCHANGED <<model, now, bar, barCount, marks, intents, fills, book, open, closed,
                   realized, equity>>

Next ==
    \/ \E s \in Symbols, ticket \in Tickets : Submit(s, ticket)
    \/ StrategyFails
    \/ EndOnInit
    \/ \E s \in Symbols, ts \in {bar.ts, bar.ts + 1}, prices \in Quotes :
          NextBar([symbol |-> s, ts |-> ts, open |-> prices[1], close |-> prices[2]])
    \/ \E k \in fills : DeliverFill(k)
    \/ EndOnFill \/ FillsDone
    \/ EndOnBar \/ EndOfBars \/ EndOnEnd

Spec == Init /\ [][Next]_vars

(***************************************************************************)
(* Safety                                                                  *)
(***************************************************************************)
OrderIds == DOMAIN intents
\* The orders whose fill has reached the books and the strategy.
Delivered(s) ==
    {k \in OrderIds : /\ intents[k].status = "filled"
                      /\ intents[k].symbol = s
                      /\ k \notin fills}

Running == stage \notin {"on_end", "done", "failed"}

\* Until the run is closed the position book and the trade log, which do the
\* same sums in two different ways, agree on every symbol: side, size, entry
\* cost, and the profit before fees of everything closed so far.
BooksAgree ==
    Running => \A s \in Symbols :
        /\ book[s].size = Signed(open[s].side, open[s].size)
        /\ book[s].cost = open[s].cost
        /\ book[s].gross = closed[s].pnl + closed[s].fees

SignedSize(k) == Signed(intents[k].side, intents[k].size)
Outlay(k) == intents[k].price * SignedSize(k) + FeeOf(intents[k].price)
Spent(s) == SumOver(Delivered(s), [k \in Delivered(s) |-> Outlay(k)])
Worth(s) == marks[s] * book[s].size
OnOwnBars == \A k \in OrderIds : intents[k].against = intents[k].symbol

\* A position is the sum of the fills the strategy was told of (no fill is
\* applied twice, lost, or applied before its turn, also when on_fill submits),
\* and the recorded equity is the money: initial capital, less what those fills
\* cost and their fees, plus the positions at the last close; provided every
\* order was filled on a bar of its own symbol.
BooksAreFills ==
    /\ \A s \in Symbols :
          book[s].size = SumOver(Delivered(s), [k \in Delivered(s) |-> SignedSize(k)])
    /\ stage = "next_bar" /\ OnOwnBars =>
          equity = InitialCapital - SumOver(Symbols, [s \in Symbols |-> Spent(s)])
                                  + SumOver(Symbols, [s \in Symbols |-> Worth(s)])

\* No order is filled at a price known when it was submitted: under NextBarOpen
\* on a strictly later bar, even when several symbols share a timestamp.
NoLookahead ==
    \A k \in OrderIds : intents[k].status = "filled" =>
        /\ intents[k].filled >= intents[k].submitted
        /\ model = "NextBarOpen" => intents[k].filled > intents[k].submitted

(***************************************************************************)
(* Action property                                                         *)
(***************************************************************************)
\* An order's fate is sealed once: a filled or expired order never changes.
FateSealed ==
    [][\A k \in OrderIds : intents[k].status # "pending" => intents'[k] = intents[k]]_vars

(***************************************************************************)
(* A claim of the repository that the code does not keep                   *)
(***************************************************************************)
\* equity_recorder.rs calls the running total "the cumulative realized P&L
\* across all closed trades so far".  With no position open, the closed trades
\* must add up to it; the entry fees of a trade closed in parts do not.
TradesExplainRealized ==
    Running /\ (\A s \in Symbols : open[s].size = 0)
        => realized = SumOver(Seen(marks), [s \in Seen(marks) |-> closed[s].pnl])
=============================================================================
