---------------------------- MODULE Backtest_proofs ----------------------------
(***************************************************************************)
(* What holds of every backtest, whatever the symbols, the bars, the       *)
(* strategy, the fees and the number of orders: the two books agree,       *)
(* positions are the fills delivered and the equity is the money, no order *)
(* sees the future, and a decided order stays decided.                     *)
(***************************************************************************)
EXTENDS Backtest, FiniteSetTheorems, WellFoundedInduction, TLAPS

\* A trade without size has no cost, so that the next fill starts afresh.
FlatIsFree == \A s \in Symbols : open[s].size = 0 => open[s].cost = 0

\* The clock is the last bar's, no order is younger than it.
ClockIsBar ==
    /\ now = bar.ts
    /\ \A k \in OrderIds : intents[k].submitted <= now

\* A callback of the loop has a bar before it.
BarAtHand == stage \in {"fills", "on_fill", "on_bar"} => bar \in Bars

IInv == TypeOK /\ FlatIsFree /\ ClockIsBar /\ BarAtHand /\ NoLookahead /\ BooksAgree

\* Fills are undelivered only between a bar's open or close and the end of its
\* round, and an order is filled on a bar that has left its mark.
FillsInTurn ==
    /\ \A k \in fills : intents[k].status = "filled"
    /\ fills # {} => stage \in {"fills", "on_fill", "failed"}
    /\ stage \in {"fills", "on_fill", "on_bar"} => marks[bar.symbol] # 0
    /\ \A k \in OrderIds :
          /\ intents[k].status = "filled" => marks[intents[k].against] # 0
          /\ intents[k].status = "pending" => intents[k].against = intents[k].symbol

PositionIsFills(s) ==
    book[s].size = SumOver(Delivered(s), [k \in Delivered(s) |-> SignedSize(k)])

\* What was spent on a symbol is in its book: fees, and an entry cost or a profit.
SignedCost(p) == Signed(Facing(p), p.cost)
CashIsBooked(s) == Spent(s) = book[s].fees + SignedCost(book[s]) - book[s].gross

PositionsAreFills ==
    \A s \in Symbols : /\ PositionIsFills(s) /\ CashIsBooked(s)
                       /\ Delivered(s) = {} => book[s] = Flat

RealizedIsNet ==
    OnOwnBars => realized = SumOver(Symbols, [s \in Symbols |-> Net(book[s])])

EquityIsWorth ==
    stage \in {"on_init", "next_bar"} /\ OnOwnBars =>
        equity = InitialCapital - SumOver(Symbols, [s \in Symbols |-> Spent(s)])
                                + SumOver(Symbols, [s \in Symbols |-> Worth(s)])

Ledger == FillsInTurn /\ PositionsAreFills /\ RealizedIsNet /\ EquityIsWorth

(***************************************************************************)
(* Sums over finite sets                                                   *)
(***************************************************************************)
First(T) == CHOOSE x \in T : TRUE

\* What SumOver recurs on: h holds the sum of f over every subset of S.
Sums(h, S, f) ==
    h = [T \in SUBSET S |-> IF T = {} THEN 0 ELSE f[First(T)] + h[T \ {First(T)}]]

\* A nonempty set of numbers has a least one: every induction below starts
\* from the smallest counterexample.
LEMMA LeastExists ==
    ASSUME NEW N \in SUBSET Nat, N # {}
    PROVE  \E n \in N : \A k \in N : n <= k
<1>1. PICK n \in N : \A k \in N : ~(<<k, n>> \in OpToRel(<, Nat))
  BY NatLessThanWellFounded, WFMin
<1>2. \A k \in N : ~(k < n)
  BY <1>1 DEF OpToRel
<1> QED
  BY <1>2

\* Taking an element out of a finite set leaves a smaller one.
LEMMA Smaller ==
    ASSUME NEW T, IsFiniteSet(T), NEW x \in T
    PROVE  /\ IsFiniteSet(T \ {x})
           /\ Cardinality(T) \in Nat /\ Cardinality(T \ {x}) \in Nat
           /\ Cardinality(T \ {x}) = Cardinality(T) - 1
<1>1. IsFiniteSet(T \ {x}) /\ Cardinality(T \ {x}) = Cardinality(T) - 1
  BY FS_RemoveElement
<1> QED
  BY <1>1, FS_CardinalityType

\* A family of subsets of a finite set has one from which no element can be
\* taken without leaving the family.
LEMMA MinimalExists ==
    ASSUME NEW S, IsFiniteSet(S), NEW F \in SUBSET SUBSET S, F # {}
    PROVE  \E T \in F : \A x \in T : T \ {x} \notin F
<1> DEFINE N == {Cardinality(T) : T \in F}
<1>1. \A T \in F : IsFiniteSet(T) /\ Cardinality(T) \in Nat
  BY FS_Subset, FS_CardinalityType
<1>2. N \in SUBSET Nat /\ N # {}
  BY <1>1
<1> HIDE DEF N
<1>3. PICK n \in N : \A k \in N : n <= k
  BY <1>2, LeastExists
<1>4. PICK T \in F : Cardinality(T) = n
  BY DEF N
<1>5. ASSUME NEW x \in T, T \ {x} \in F PROVE FALSE
  <2>1. Cardinality(T \ {x}) \in N
    BY <1>5 DEF N
  <2>2. Cardinality(T \ {x}) = n - 1 /\ n \in Nat
    BY <1>1, <1>4, Smaller
  <2> QED
    BY <1>3, <2>1, <2>2
<1> QED
  BY <1>5

\* The recursion of SumOver has a solution: on the sets of at most n elements for
\* every n, by the least n for which it has none.
LEMMA SumsExist == ASSUME NEW S, IsFiniteSet(S), NEW f PROVE \E h : Sums(h, S, f)
<1> DEFINE Upto(n) == {T \in SUBSET S : Cardinality(T) <= n}
           Step(h, T) == IF T = {} THEN 0 ELSE f[First(T)] + h[T \ {First(T)}]
           Known(n) == \E h : h = [T \in Upto(n) |-> Step(h, T)]
           Bad == {n \in Nat : ~Known(n)}
<1>1. ASSUME NEW n \in Nat PROVE Known(n)
  <2> SUFFICES ASSUME Bad # {} PROVE FALSE
    OBVIOUS
  <2>1. PICK m \in Bad : \A k \in Bad : m <= k
    BY LeastExists
  <2>2. m # 0
    <3> DEFINE h == [T \in Upto(0) |-> 0]
    <3>1. \A T \in Upto(0) : T = {}
      <4> TAKE T \in Upto(0)
      <4>1. IsFiniteSet(T) /\ Cardinality(T) \in Nat
        BY FS_Subset, FS_CardinalityType
      <4> QED
        BY <4>1, FS_EmptySet
    <3>2. h = [T \in Upto(0) |-> Step(h, T)]
      BY <3>1
    <3> QED
      BY <3>2
  <2>3. PICK h : h = [T \in Upto(m - 1) |-> Step(h, T)]
    <3>1. m - 1 \in Nat /\ ~(m <= m - 1)
      BY <2>2
    <3> HIDE DEF Known
    <3>2. Known(m - 1)
      BY <2>1, <3>1
    <3> QED
      BY <3>2 DEF Known
  <2> DEFINE g == [T \in Upto(m) |-> Step(h, T)]
  <2>4. \A U \in Upto(m - 1) : U \in Upto(m) /\ g[U] = h[U]
    <3> TAKE U \in Upto(m - 1)
    <3>1. U \in Upto(m)
      BY FS_Subset, FS_CardinalityType
    <3>2. h[U] = Step(h, U)
      BY <2>3
    <3> QED
      BY <3>1, <3>2
  <2>5. ASSUME NEW T \in Upto(m) PROVE Step(h, T) = Step(g, T)
    <3>1. CASE T = {}
      BY <3>1
    <3>2. CASE T # {}
      <4>1. First(T) \in T
        BY <3>2 DEF First
      <4>2. T \ {First(T)} \in Upto(m - 1)
        <5>1. IsFiniteSet(T) /\ Cardinality(T) <= m
          BY FS_Subset
        <5>2. Cardinality(T) \in Nat /\ Cardinality(T \ {First(T)}) = Cardinality(T) - 1
          BY <4>1, <5>1, Smaller
        <5> QED
          BY <5>1, <5>2
      <4> QED
        BY <2>4, <4>2
    <3> QED
      BY <3>1, <3>2
  <2>6. g = [T \in Upto(m) |-> Step(g, T)]
    <3> DEFINE e == [T \in Upto(m) |-> Step(g, T)]
    <3>1. \A T \in Upto(m) : g[T] = e[T]
      BY <2>5
    <3> QED
      BY <3>1
  <2> QED
    BY <2>1, <2>6
<1>2. Cardinality(S) \in Nat
  BY FS_CardinalityType
<1>3. Upto(Cardinality(S)) = SUBSET S
  BY FS_Subset
<1> QED
  BY <1>1, <1>2, <1>3 DEF Sums

\* SumOver is the value of such a solution at the whole set.
LEMMA SumOverIs ==
    ASSUME NEW S, IsFiniteSet(S), NEW f
    PROVE  \E h : Sums(h, S, f) /\ SumOver(S, f) = h[S]
<1> DEFINE h == CHOOSE h : Sums(h, S, f)
<1>1. Sums(h, S, f)
  BY SumsExist
<1>2. SumOver(S, f) = h[S]
  BY DEF SumOver, Sums, First
<1> QED
  BY <1>1, <1>2

\* Equal terms, equal sums.
LEMMA SumsAgree ==
    ASSUME NEW S, IsFiniteSet(S), NEW f, NEW h, Sums(h, S, f),
           NEW R, NEW e, NEW g, Sums(g, R, e),
           NEW T \in SUBSET S, T \in SUBSET R, \A x \in T : f[x] = e[x]
    PROVE  h[T] = g[T]
<1> DEFINE Bad == {U \in SUBSET T : h[U] # g[U]}
<1> SUFFICES ASSUME Bad # {} PROVE FALSE
  OBVIOUS
<1>1. PICK U \in Bad : \A y \in U : U \ {y} \notin Bad
  <2>1. Bad \in SUBSET SUBSET S
    OBVIOUS
  <2> HIDE DEF Bad
  <2> QED
    BY <2>1, MinimalExists
<1>2. U \in SUBSET S /\ U \in SUBSET R /\ h[U] # g[U]
  BY <1>1
<1>3. U # {}
  BY <1>2 DEF Sums
<1> DEFINE x == First(U)
<1>4. x \in U
  BY <1>3 DEF First
<1>5. h[U] = f[x] + h[U \ {x}] /\ g[U] = e[x] + g[U \ {x}]
  BY <1>2, <1>3 DEF Sums
<1>6. U \ {x} \in SUBSET T /\ U \ {x} \notin Bad
  BY <1>1, <1>4
<1>7. h[U \ {x}] = g[U \ {x}]
  BY <1>6
<1>8. f[x] = e[x]
  BY <1>1, <1>4
<1> QED
  BY <1>2, <1>5, <1>7, <1>8

\* A sum of integers is one.
LEMMA SumsType ==
    ASSUME NEW S, IsFiniteSet(S), NEW f, \A x \in S : f[x] \in Int, NEW h, Sums(h, S, f),
           NEW T \in SUBSET S
    PROVE  h[T] \in Int
<1> DEFINE Bad == {U \in SUBSET S : h[U] \notin Int}
<1> SUFFICES ASSUME Bad # {} PROVE FALSE
  OBVIOUS
<1>1. PICK U \in Bad : \A y \in U : U \ {y} \notin Bad
  <2>1. Bad \in SUBSET SUBSET S
    OBVIOUS
  <2> HIDE DEF Bad
  <2> QED
    BY <2>1, MinimalExists
<1>2. U # {}
  BY <1>1 DEF Sums
<1> DEFINE x == First(U)
<1>3. x \in U
  BY <1>2 DEF First
<1>4. h[U] = f[x] + h[U \ {x}]
  BY <1>2 DEF Sums
<1>5. h[U \ {x}] \in Int
  BY <1>1, <1>3
<1> QED
  BY <1>1, <1>3, <1>4, <1>5

\* Whatever element is taken out, a sum is that term and the sum of the others.
LEMMA SumsSplit ==
    ASSUME NEW S, IsFiniteSet(S), NEW f, \A x \in S : f[x] \in Int, NEW h, Sums(h, S, f),
           NEW T \in SUBSET S, NEW x \in T
    PROVE  h[T] = f[x] + h[T \ {x}]
<1> DEFINE Bad == {U \in SUBSET S : \E y \in U : h[U] # f[y] + h[U \ {y}]}
<1> SUFFICES ASSUME Bad # {} PROVE FALSE
  OBVIOUS
<1>1. PICK U \in Bad : \A y \in U : U \ {y} \notin Bad
  <2>1. Bad \in SUBSET SUBSET S
    OBVIOUS
  <2> HIDE DEF Bad
  <2> QED
    BY <2>1, MinimalExists
<1>2. PICK y \in U : h[U] # f[y] + h[U \ {y}]
  BY <1>1
<1> DEFINE z == First(U)
<1>3. z \in U
  BY <1>2 DEF First
<1>4. h[U] = f[z] + h[U \ {z}]
  BY <1>2 DEF Sums
<1>5. y # z
  BY <1>2, <1>4
<1> HIDE DEF z
<1>6. U \ {z} \notin Bad /\ U \ {y} \notin Bad
  BY <1>1, <1>3
<1>7. h[U \ {z}] = f[y] + h[(U \ {z}) \ {y}]
  BY <1>5, <1>6
<1>8. h[U \ {y}] = f[z] + h[(U \ {y}) \ {z}]
  BY <1>3, <1>5, <1>6
<1>9. (U \ {z}) \ {y} = (U \ {y}) \ {z}
  OBVIOUS
<1> DEFINE rest == h[(U \ {z}) \ {y}]
<1>10. rest \in Int /\ f[y] \in Int /\ f[z] \in Int
  BY <1>3, SumsType
<1>11. h[U \ {z}] = f[y] + rest /\ h[U \ {y}] = f[z] + rest
  BY <1>7, <1>8, <1>9
<1> HIDE DEF rest
<1> QED
  BY <1>2, <1>4, <1>10, <1>11

\* The same facts of SumOver itself.
LEMMA SumEmpty == ASSUME NEW f PROVE SumOver({}, f) = 0
  BY SumOverIs, FS_EmptySet DEF Sums

\* ... a sum of integers is one ...
LEMMA SumType ==
    ASSUME NEW S, IsFiniteSet(S), NEW f, \A x \in S : f[x] \in Int
    PROVE  SumOver(S, f) \in Int
  BY SumOverIs, SumsType

\* ... equal terms make equal sums ...
LEMMA SumSame ==
    ASSUME NEW S, IsFiniteSet(S), NEW f, NEW g, \A x \in S : f[x] = g[x]
    PROVE  SumOver(S, f) = SumOver(S, g)
<1>1. PICK h : Sums(h, S, f) /\ SumOver(S, f) = h[S]
  BY SumOverIs
<1>2. PICK e : Sums(e, S, g) /\ SumOver(S, g) = e[S]
  BY SumOverIs
<1> QED
  BY <1>1, <1>2, SumsAgree

\* ... and any term can be taken out.
LEMMA SumSplit ==
    ASSUME NEW S, IsFiniteSet(S), NEW f, \A x \in S : f[x] \in Int, NEW x \in S
    PROVE  SumOver(S, f) = f[x] + SumOver(S \ {x}, f)
<1> DEFINE R == S \ {x}
<1>1. IsFiniteSet(R) /\ R \in SUBSET S
  BY FS_Subset
<1>2. PICK h : Sums(h, S, f) /\ SumOver(S, f) = h[S]
  BY SumOverIs
<1> HIDE DEF R
<1>3. PICK g : Sums(g, R, f) /\ SumOver(R, f) = g[R]
  BY <1>1, SumOverIs
<1>4. h[R] = g[R]
  BY <1>1, <1>2, <1>3, SumsAgree
<1>5. \A T \in SUBSET S : \A y \in T : h[T] = f[y] + h[T \ {y}]
  <2> TAKE T \in SUBSET S
  <2> TAKE y \in T
  <2> QED
    BY <1>2, SumsSplit
<1>6. h[S] = f[x] + h[S \ {x}]
  BY <1>5
<1> QED
  BY <1>2, <1>3, <1>4, <1>6 DEF R

\* A sum with one term more.
LEMMA SumAdd ==
    ASSUME NEW S, NEW T, IsFiniteSet(S), NEW k \in S, S \ {k} = T, IsFiniteSet(T), NEW f, NEW e,
           \A x \in T : e[x] \in Int /\ f[x] = e[x], f[k] \in Int
    PROVE  SumOver(S, f) = SumOver(T, e) + f[k]
<1>1. \A x \in S : f[x] \in Int
  OBVIOUS
<1>2. SumOver(S, f) = f[k] + SumOver(S \ {k}, f)
  BY <1>1, SumSplit
<1>3. SumOver(T, f) = SumOver(T, e) /\ SumOver(T, e) \in Int
  BY SumSame, SumType
<1>4. SumOver(S \ {k}, f) = SumOver(T, f)
  BY Zenon
<1> QED
  BY <1>2, <1>3, <1>4

\* Terms that add up, sums that add up.
LEMMA SumPlus ==
    ASSUME NEW S, IsFiniteSet(S), NEW f, NEW g, NEW e,
           \A x \in S : f[x] \in Int /\ g[x] \in Int /\ e[x] = f[x] + g[x]
    PROVE  SumOver(S, e) = SumOver(S, f) + SumOver(S, g)
<1> DEFINE Bad == {T \in SUBSET S : SumOver(T, e) # SumOver(T, f) + SumOver(T, g)}
<1> SUFFICES ASSUME Bad # {} PROVE FALSE
  OBVIOUS
<1>1. PICK T \in Bad : \A y \in T : T \ {y} \notin Bad
  <2>1. Bad \in SUBSET SUBSET S
    OBVIOUS
  <2> HIDE DEF Bad
  <2> QED
    BY <2>1, MinimalExists
<1>2. T # {}
  <2>1. SumOver({}, e) = 0 /\ SumOver({}, f) = 0 /\ SumOver({}, g) = 0
    BY SumEmpty
  <2>2. SumOver(T, e) # SumOver(T, f) + SumOver(T, g)
    BY <1>1
  <2>3. ASSUME T = {} PROVE FALSE
    <3>1. SumOver(T, e) = 0 /\ SumOver(T, f) = 0 /\ SumOver(T, g) = 0
      BY <2>1, <2>3, Zenon
    <3> QED
      BY <2>2, <3>1
  <2> QED
    BY <2>3
<1>3. PICK x \in T : TRUE
  BY <1>2
<1>4. IsFiniteSet(T) /\ IsFiniteSet(T \ {x}) /\ T \ {x} \notin Bad
  BY <1>1, <1>3, FS_Subset
<1>5. SumOver(T, e) = e[x] + SumOver(T \ {x}, e)
  BY <1>4, SumSplit
<1>6. SumOver(T, f) = f[x] + SumOver(T \ {x}, f)
  BY <1>4, SumSplit
<1>7. SumOver(T, g) = g[x] + SumOver(T \ {x}, g)
  BY <1>4, SumSplit
<1>8. SumOver(T \ {x}, f) \in Int /\ SumOver(T \ {x}, g) \in Int
  BY <1>4, SumType
<1>9. SumOver(T \ {x}, e) = SumOver(T \ {x}, f) + SumOver(T \ {x}, g)
  BY <1>4
<1>10. f[x] \in Int /\ g[x] \in Int /\ e[x] = f[x] + g[x]
  OBVIOUS
<1> QED
  BY <1>1, <1>5, <1>6, <1>7, <1>8, <1>9, <1>10

\* Zeroes add nothing.
LEMMA SumZeroes ==
    ASSUME NEW S, IsFiniteSet(S), NEW f, \A x \in S : f[x] \in Int,
           NEW T \in SUBSET S, \A x \in S \ T : f[x] = 0
    PROVE  SumOver(S, f) = SumOver(T, f)
<1> DEFINE Bad == {U \in SUBSET S : T \subseteq U /\ SumOver(U, f) # SumOver(T, f)}
<1> SUFFICES ASSUME Bad # {} PROVE FALSE
  OBVIOUS
<1>1. PICK U \in Bad : \A y \in U : U \ {y} \notin Bad
  <2>1. Bad \in SUBSET SUBSET S
    OBVIOUS
  <2> HIDE DEF Bad
  <2> QED
    BY <2>1, MinimalExists
<1>2. PICK x \in U : x \notin T
  BY <1>1
<1>3. IsFiniteSet(U) /\ IsFiniteSet(U \ {x}) /\ U \ {x} \notin Bad
  BY <1>1, <1>2, FS_Subset
<1>4. SumOver(U, f) = f[x] + SumOver(U \ {x}, f)
  BY <1>3, SumSplit
<1>5. SumOver(U \ {x}, f) \in Int /\ f[x] = 0
  BY <1>2, <1>3, SumType
<1>6. SumOver(U \ {x}, f) = SumOver(T, f)
  BY <1>2, <1>3
<1> QED
  BY <1>1, <1>4, <1>5, <1>6

USE TicketsAssumption, FeeAssumption, QuotesAssumption, BoundsAssumption

(***************************************************************************)
(* The fill model and the arithmetic of the books                          *)
(***************************************************************************)
\* What a model can fill, it fills at a price.
LEMMA FillPriceType == \A o \in Orders, b \in Bars : CanFill(o, b) => FillPrice(o, b) \in Nat
  BY DEF Orders, Bars, CanFill, FillPrice, Reference, NoLimit, Low, High, Sides

\* The fee of a fill is a natural number.
LEMMA FeeType == \A price \in Nat : FeeOf(price) \in Nat
<1> SUFFICES ASSUME NEW price \in Nat PROVE FeeOf(price) \in Nat
  OBVIOUS
<1>1. price * SlippagePercent \in Nat
  OBVIOUS
<1> QED
  BY <1>1 DEF FeeOf

\* A share of an amount is a whole number of units.
LEMMA ShareType ==
    ASSUME NEW a \in Int, NEW part \in Int, NEW whole \in Nat \ {0}
    PROVE  Share(a, part, whole) \in Int
<1>1. a * part \in Int
  OBVIOUS
<1> QED
  BY <1>1 DEF Share

\* One fill keeps both books in shape and in agreement.
LEMMA FillKeepsBooks ==
    ASSUME NEW p \in Positions, NEW t \in OpenTrades, NEW c \in Totals,
           NEW side \in Sides, NEW n \in Nat \ {0}, NEW price \in Nat, NEW fee \in Nat,
           p.size = Signed(t.side, t.size), p.cost = t.cost,
           p.gross = c.pnl + c.fees, t.size = 0 => t.cost = 0
    PROVE  LET p2 == ApplyFill(p, Signed(side, n), price, fee)
               t2 == TradeAfter(t, side, n, price, fee)
               c2 == CloseTotals(c, t, side, n, price, fee)
           IN  /\ p2 \in Positions /\ t2 \in OpenTrades /\ c2 \in Totals
               /\ p2.size = Signed(t2.side, t2.size) /\ p2.cost = t2.cost
               /\ p2.gross = c2.pnl + c2.fees /\ (t2.size = 0 => t2.cost = 0)
<1> DEFINE d == Signed(side, n)
           p2 == ApplyFill(p, d, price, fee)
           t2 == TradeAfter(t, side, n, price, fee)
           c2 == CloseTotals(c, t, side, n, price, fee)
<1> USE DEF Positions, OpenTrades, Totals, Sides
<1>0. /\ d \in Int /\ d # 0 /\ Abs(d) = n /\ (d > 0 <=> side = "long")
      /\ p.size \in Int /\ Abs(p.size) = t.size /\ t.size \in Nat
  BY DEF Signed, Abs
<1> HIDE DEF d, p2, t2, c2
<1>1. price * n \in Int
  OBVIOUS
<1>2. CASE t.size = 0 \/ t.side = side
  <2>1. p2 = [size |-> p.size + d, cost |-> p.cost + price * n, gross |-> p.gross,
              fees |-> p.fees + fee]
    <3>1. p.size = 0 \/ SameSign(p.size, d)
      BY <1>0, <1>2 DEF SameSign, Signed
    <3> QED
      BY <1>0, <3>1 DEF p2, ApplyFill
  <2>2. /\ t2 = [side |-> side, size |-> t.size + n, cost |-> t.cost + price * n,
                 fees |-> IF t.size = 0 THEN fee ELSE t.fees + fee]
        /\ c2 = c
    BY <1>0, <1>1, <1>2 DEF t2, c2, TradeAfter, CloseTotals
  <2>3. p.size + d = Signed(side, t.size + n)
    BY <1>0, <1>2 DEF d, Signed
  <2> QED
    BY <1>0, <1>1, <2>1, <2>2, <2>3 DEF d, p2, t2, c2
<1>3. CASE t.size # 0 /\ t.side # side
  <2> DEFINE closing == Least(n, t.size)
             released == Share(t.cost, closing, t.size)
             charged == t.fees + Share(fee, closing, n)
             profit == PnlPerSide(t.side, released, price * closing)
  <2>1. closing \in Nat /\ (n >= t.size => closing = t.size) /\ (n <= t.size => closing = n)
    BY <1>0 DEF Least
  <2> HIDE DEF closing
  <2>2. /\ released \in Int /\ Share(fee, closing, n) \in Int /\ price * closing \in Int
    <3>1. t.cost \in Int /\ t.size \in Nat \ {0} /\ closing \in Int
      BY <1>0, <1>3, <2>1
    <3>2. released \in Int
      BY <3>1, ShareType
    <3>3. Share(fee, closing, n) \in Int
      <4>1. fee \in Int /\ n \in Nat \ {0}
        OBVIOUS
      <4> QED
        BY <3>1, <4>1, ShareType
    <3> QED
      BY <2>1, <3>2, <3>3
  <2>3. profit \in Int /\ charged \in Int
    BY <2>2 DEF PnlPerSide
  <2>4. c2 = [pnl |-> c.pnl + profit - charged, fees |-> c.fees + charged]
    BY <1>3 DEF c2, closing, CloseTotals
  <2>5. Facing(p) = t.side /\ p.size # 0 /\ ~SameSign(p.size, d)
    BY <1>0, <1>3 DEF Facing, Signed, SameSign
  <2>6. p2 = [size |-> p.size + d,
              cost |-> IF p.size + d = 0 THEN 0
                       ELSE IF SameSign(p.size, p.size + d) THEN t.cost - released
                       ELSE price * Abs(p.size + d),
              gross |-> p.gross + profit, fees |-> p.fees + fee]
    BY <1>0, <2>5 DEF p2, closing, ApplyFill
  <2> HIDE DEF released, charged, profit
  <2>7. c2 \in Totals /\ p2.gross = c2.pnl + c2.fees /\ p2.gross \in Int
    BY <2>2, <2>3, <2>4, <2>6
  <2>8. p2.size = p.size + d /\ p2.fees = p.fees + fee
    BY <2>6
  <2>9. /\ t2 \in OpenTrades /\ p2.cost \in Int
        /\ p2.size = Signed(t2.side, t2.size) /\ p2.cost = t2.cost /\ (t2.size = 0 => t2.cost = 0)
    <3>1. CASE n = t.size
      <4>1. t2 = NoTrade
        BY <1>0, <1>3, <3>1 DEF t2, TradeAfter
      <4>2. p.size + d = 0
        BY <1>0, <1>3, <3>1 DEF d, Signed
      <4> QED
        BY <2>6, <4>1, <4>2 DEF NoTrade, Signed
    <3>2. CASE n < t.size
      <4>1. t2 = [side |-> t.side, size |-> t.size - n, cost |-> t.cost - released,
                  fees |-> Share(t.fees, t.size - n, t.size)]
        BY <1>0, <1>3, <2>1, <3>2 DEF t2, TradeAfter, released
      <4>2. Share(t.fees, t.size - n, t.size) \in Int
        <5>1. t.fees \in Int /\ t.size \in Nat \ {0} /\ t.size - n \in Int
          BY <1>0, <1>3
        <5> HIDE DEF Positions, OpenTrades, Totals, Sides
        <5> QED
          BY <5>1, ShareType
      <4>3. /\ SameSign(p.size, p.size + d) /\ p.size + d # 0
            /\ p.size + d = Signed(t.side, t.size - n)
        BY <1>0, <1>3, <3>2 DEF d, Signed, SameSign
      <4>4. p2.cost = t.cost - released /\ t.cost - released \in Int
        BY <2>2, <2>6, <4>3
      <4> QED
        BY <1>0, <2>8, <3>2, <4>1, <4>2, <4>3, <4>4
    <3>3. CASE n > t.size
      <4>1. t2 = [side |-> side, size |-> n - t.size, cost |-> price * (n - t.size),
                  fees |-> Share(fee, n - t.size, n)]
        BY <1>0, <1>3, <3>3 DEF t2, TradeAfter
      <4>2. Share(fee, n - t.size, n) \in Int
        <5>1. fee \in Int /\ n \in Nat \ {0} /\ n - t.size \in Int
          BY <1>0
        <5> HIDE DEF Positions, OpenTrades, Totals, Sides
        <5> QED
          BY <5>1, ShareType
      <4>3. /\ ~SameSign(p.size, p.size + d) /\ p.size + d # 0
            /\ Abs(p.size + d) = n - t.size /\ p.size + d = Signed(side, n - t.size)
        <5>1. p.size + d = Signed(side, n - t.size)
          BY <1>0, <1>3, <3>3 DEF d, Signed
        <5>2. IF side = "long" THEN p.size < 0 /\ p.size + d > 0 ELSE p.size > 0 /\ p.size + d < 0
          BY <1>0, <1>3, <3>3, <5>1 DEF Signed
        <5>3. ~SameSign(p.size, p.size + d) /\ p.size + d # 0
          BY <1>0, <5>2 DEF SameSign
        <5>4. Abs(p.size + d) = n - t.size
          BY <1>0, <3>3, <5>1 DEF Signed, Abs
        <5> QED
          BY <5>1, <5>3, <5>4
      <4>4. p2.cost = price * (n - t.size) /\ price * (n - t.size) \in Int
        BY <1>0, <2>6, <4>3
      <4> QED
        BY <1>0, <2>8, <3>3, <4>1, <4>2, <4>3, <4>4
    <3> QED
      BY <1>0, <3>1, <3>2, <3>3
  <2>10. p2 \in Positions
    BY <1>0, <2>6, <2>7, <2>8, <2>9
  <2> QED
    BY <2>7, <2>9, <2>10 DEF d, p2, t2, c2
<1> QED
  BY <1>2, <1>3

(***************************************************************************)
(* Every step preserves the invariant                                      *)
(***************************************************************************)
\* try_fill rewrites pending orders only, and none of the bar's own under NextBarOpen.
LEMMA TryFillKeeps ==
    ASSUME IInv, NEW b \in Bars, b.ts >= now, TryFill(b), model' = model
    PROVE  /\ intents' \in Seq(Orders) /\ DOMAIN intents' = DOMAIN intents
           /\ fills' \subseteq DOMAIN intents'
           /\ \A k \in OrderIds : /\ intents'[k].submitted = intents[k].submitted
                                  /\ intents[k].status # "pending" => intents'[k] = intents[k]
           /\ NoLookahead'
<1> DEFINE new(k) == [intents[k] EXCEPT !.status = "filled", !.filled = b.ts,
                               !.price = FillPrice(intents[k], b), !.against = b.symbol]
<1>1. \A k \in OrderIds : intents[k] \in Orders
  BY DEF IInv, TypeOK, OrderIds
<1>2. \A k \in OrderIds : Fillable(intents[k], b) => new(k) \in Orders
  BY <1>1, FillPriceType DEF Fillable, Orders, Bars
<1>3. /\ intents' = [k \in DOMAIN intents |->
                        IF Fillable(intents[k], b) THEN new(k) ELSE intents[k]]
      /\ fills' = {k \in DOMAIN intents : Fillable(intents[k], b)}
  BY DEF TryFill
<1>4. intents' \in Seq(Orders) /\ DOMAIN intents' = DOMAIN intents
  <2>1. DOMAIN intents = 1..Len(intents) /\ Len(intents) \in Nat
    BY DEF IInv, TypeOK
  <2>2. intents' \in [1..Len(intents) -> Orders]
    BY <1>1, <1>2, <1>3, <2>1 DEF OrderIds
  <2> QED
    BY <2>1, <2>2
<1>5. \A k \in OrderIds : /\ intents'[k].submitted = intents[k].submitted
                          /\ intents[k].status # "pending" => intents'[k] = intents[k]
  BY <1>1, <1>3 DEF OrderIds, Orders, Fillable
<1>6. NoLookahead'
  <2> SUFFICES ASSUME NEW k \in OrderIds, intents'[k].status = "filled"
               PROVE  /\ intents'[k].filled >= intents'[k].submitted
                      /\ model' = "NextBarOpen" => intents'[k].filled > intents'[k].submitted
    BY <1>4 DEF NoLookahead, OrderIds
  <2>1. CASE Fillable(intents[k], b)
    <3>1. intents'[k].filled = b.ts /\ intents'[k].submitted = intents[k].submitted
      BY <1>1, <1>3, <2>1 DEF OrderIds, Orders
    <3>2. b.ts \in Nat /\ intents[k].submitted \in Nat /\ now \in Nat
          /\ intents[k].submitted <= now
      BY <1>1 DEF IInv, TypeOK, ClockIsBar, Bars, Orders
    <3> QED
      BY <2>1, <3>1, <3>2 DEF Fillable
  <2>2. CASE ~Fillable(intents[k], b)
    BY <1>3, <2>2 DEF IInv, NoLookahead, OrderIds
  <2> QED
    BY <2>1, <2>2
<1> QED
  BY <1>3, <1>4, <1>5, <1>6

\* The invariant holds before on_init.
LEMMA InitInv == Init => IInv
<1> SUFFICES ASSUME Init PROVE IInv
  OBVIOUS
<1> USE DEF Init
<1>1. TypeOK
  BY DEF TypeOK, Stages, Callbacks, NoBar, Flat, NoTrade, Orders, Positions, OpenTrades,
         Totals, Sides
<1>2. FlatIsFree /\ ClockIsBar /\ BarAtHand /\ NoLookahead
  BY DEF FlatIsFree, BarAtHand, ClockIsBar, NoLookahead, OrderIds, NoTrade, NoBar
<1>3. BooksAgree
  BY DEF BooksAgree, Flat, NoTrade, Signed
<1> QED
  BY <1>1, <1>2, <1>3 DEF IInv

\* A submitted order joins the end of the book, with this bar's time on it.
LEMMA SubmitInv ==
    ASSUME IInv, NEW s \in Symbols, NEW ticket \in Tickets, Submit(s, ticket)
    PROVE  IInv'
<1> USE DEF Submit
<1> DEFINE o == NewOrder(s, ticket)
<1>1. o \in Orders /\ o.submitted = now /\ o.status = "pending"
  BY DEF IInv, TypeOK, NewOrder, Orders
<1>2. /\ intents' \in Seq(Orders) /\ Len(intents') = Len(intents) + 1
      /\ \A k \in OrderIds : k \in DOMAIN intents' /\ intents'[k] = intents[k]
      /\ \A k \in DOMAIN intents' : k \in OrderIds \/ intents'[k] = o
  BY <1>1 DEF IInv, TypeOK, OrderIds
<1>3. TypeOK'
  BY <1>2 DEF IInv, TypeOK, OrderIds
<1>4. ClockIsBar' /\ NoLookahead'
  BY <1>1, <1>2 DEF IInv, TypeOK, ClockIsBar, NoLookahead, OrderIds
<1>5. FlatIsFree' /\ BooksAgree' /\ BarAtHand'
  BY DEF IInv, FlatIsFree, BooksAgree, Running, BarAtHand
<1> QED
  BY <1>3, <1>4, <1>5 DEF IInv

\* A step that only moves the run to another stage it may move to.
LEMMA StageInv ==
    ASSUME IInv, stage' \in Stages, Running' => Running,
           stage' \in {"fills", "on_fill", "on_bar"} => stage \in {"fills", "on_fill", "on_bar"},
           UNCHANGED <<model, now, bar, barCount, marks, intents, fills, book, open, closed>>
    PROVE  IInv'
<1>1. TypeOK' /\ FlatIsFree' /\ ClockIsBar' /\ NoLookahead'
  BY DEF IInv, TypeOK, FlatIsFree, ClockIsBar, NoLookahead, OrderIds
<1>2. BooksAgree' /\ BarAtHand'
  BY DEF IInv, BooksAgree, BarAtHand
<1> QED
  BY <1>1, <1>2 DEF IInv

\* A new bar moves the clock and the mark, and may fill orders at its open.
LEMMA NextBarInv ==
    ASSUME IInv, NEW b \in Bars, b.ts >= now, NextBar(b)
    PROVE  IInv'
<1> USE DEF NextBar
<1>1. /\ intents' \in Seq(Orders) /\ DOMAIN intents' = DOMAIN intents
      /\ fills' \subseteq DOMAIN intents' /\ NoLookahead'
      /\ \A k \in OrderIds : intents'[k].submitted = intents[k].submitted
  <2>1. CASE model = "NextBarOpen"
    BY <2>1, TryFillKeeps
  <2>2. CASE model # "NextBarOpen"
    BY <2>2 DEF IInv, TypeOK, NoLookahead, OrderIds
  <2> QED
    BY <2>1, <2>2
<1>2. /\ b.ts \in Nat /\ b.close \in Nat /\ now \in Nat /\ barCount \in Nat
      /\ \A k \in OrderIds : intents[k].submitted \in Nat
  <2>1. \A k \in OrderIds : intents[k] \in Orders
    BY DEF IInv, TypeOK, OrderIds
  <2> QED
    BY <2>1, BoundsAssumption DEF IInv, TypeOK, Bars, Orders
<1>3. TypeOK'
  <2>1. barCount' \in 0..MaxBars
    BY <1>2, BoundsAssumption DEF IInv, TypeOK
  <2>3. marks' \in [Symbols -> Nat]
    BY <1>2 DEF IInv, TypeOK
  <2>2. stage' \in Stages
    BY DEF Stages, Callbacks
  <2> QED
    BY <1>1, <1>2, <2>1, <2>2, <2>3 DEF IInv, TypeOK
<1>4. ClockIsBar'
  BY <1>1, <1>2, SMTT(30) DEF IInv, ClockIsBar, OrderIds
<1>5. FlatIsFree' /\ BooksAgree' /\ BarAtHand'
  BY DEF IInv, FlatIsFree, BooksAgree, Running, BarAtHand
<1> QED
  BY <1>1, <1>3, <1>4, <1>5 DEF IInv

\* A delivered fill reaches both books at once.
LEMMA DeliverFillInv == ASSUME IInv, NEW k \in fills, DeliverFill(k) PROVE IInv'
<1> DEFINE o == intents[k]
           s == o.symbol
           fee == FeeOf(o.price)
<1>1. o \in Orders /\ s \in Symbols /\ fee \in Nat /\ o.price \in Nat /\ o.size \in Nat \ {0}
      /\ o.side \in Sides
  <2>1. o \in Orders
    BY DEF IInv, TypeOK
  <2>2. o.price \in Nat
    BY <2>1 DEF Orders
  <2> QED
    BY <2>1, <2>2, FeeType DEF Orders
<1>2. /\ book[s] \in Positions /\ open[s] \in OpenTrades /\ closed[s] \in Totals
  BY <1>1 DEF IInv, TypeOK
<1>3. Running
  BY DEF DeliverFill, Running
<1>4. /\ book[s].size = Signed(open[s].side, open[s].size) /\ book[s].cost = open[s].cost
      /\ book[s].gross = closed[s].pnl + closed[s].fees
      /\ open[s].size = 0 => open[s].cost = 0
  BY <1>1, <1>3 DEF IInv, BooksAgree, FlatIsFree
<1>5. /\ book' = [book EXCEPT ![s] = ApplyFill(@, Signed(o.side, o.size), o.price, fee)]
      /\ open' = [open EXCEPT ![s] = TradeAfter(@, o.side, o.size, o.price, fee)]
      /\ closed' = [closed EXCEPT ![s] = CloseTotals(@, open[s], o.side, o.size, o.price, fee)]
      /\ fills' = fills \ {k} /\ stage' = "on_fill"
      /\ UNCHANGED <<model, now, bar, barCount, marks, intents>>
  BY DEF DeliverFill
<1> HIDE DEF o, s, fee
<1>6. /\ book'[s] = ApplyFill(book[s], Signed(o.side, o.size), o.price, fee)
      /\ open'[s] = TradeAfter(open[s], o.side, o.size, o.price, fee)
      /\ closed'[s] = CloseTotals(closed[s], open[s], o.side, o.size, o.price, fee)
      /\ \A z \in Symbols \ {s} : /\ book'[z] = book[z] /\ open'[z] = open[z]
                                  /\ closed'[z] = closed[z]
  BY <1>1, <1>5 DEF IInv, TypeOK
<1>7. /\ book'[s] \in Positions /\ open'[s] \in OpenTrades /\ closed'[s] \in Totals
      /\ book'[s].size = Signed(open'[s].side, open'[s].size)
      /\ book'[s].cost = open'[s].cost
      /\ book'[s].gross = closed'[s].pnl + closed'[s].fees
      /\ open'[s].size = 0 => open'[s].cost = 0
  <2>1. LET p2 == ApplyFill(book[s], Signed(o.side, o.size), o.price, fee)
            t2 == TradeAfter(open[s], o.side, o.size, o.price, fee)
            c2 == CloseTotals(closed[s], open[s], o.side, o.size, o.price, fee)
        IN  /\ p2 \in Positions /\ t2 \in OpenTrades /\ c2 \in Totals
            /\ p2.size = Signed(t2.side, t2.size) /\ p2.cost = t2.cost
            /\ p2.gross = c2.pnl + c2.fees /\ (t2.size = 0 => t2.cost = 0)
    <3> DEFINE p == book[s]
               t == open[s]
               c == closed[s]
               side == o.side
               n == o.size
               price == o.price
    <3>1. /\ p \in Positions /\ t \in OpenTrades /\ c \in Totals
          /\ side \in Sides /\ n \in Nat \ {0} /\ price \in Nat /\ fee \in Nat
          /\ p.size = Signed(t.side, t.size) /\ p.cost = t.cost
          /\ p.gross = c.pnl + c.fees
      BY <1>1, <1>2, <1>4
    <3>2. t.size = 0 => t.cost = 0
      BY <1>4
    <3> HIDE DEF p, t, c, side, n, price
    <3>3. LET p2 == ApplyFill(p, Signed(side, n), price, fee)
              t2 == TradeAfter(t, side, n, price, fee)
              c2 == CloseTotals(c, t, side, n, price, fee)
          IN  /\ p2 \in Positions /\ t2 \in OpenTrades /\ c2 \in Totals
              /\ p2.size = Signed(t2.side, t2.size) /\ p2.cost = t2.cost
              /\ p2.gross = c2.pnl + c2.fees /\ (t2.size = 0 => t2.cost = 0)
      BY <3>1, <3>2, FillKeepsBooks
    <3> QED
      BY <3>3 DEF p, t, c, side, n, price
  <2> QED
    BY <1>6, <2>1
<1>8. TypeOK'
  <2>1. /\ book' \in [Symbols -> Positions] /\ open' \in [Symbols -> OpenTrades]
        /\ closed' \in [Symbols -> Totals]
    BY <1>5, <1>6, <1>7 DEF IInv, TypeOK
  <2> QED
    BY <1>5, <2>1 DEF IInv, TypeOK, Stages, Callbacks
<1>9. FlatIsFree' /\ BooksAgree'
  BY <1>3, <1>6, <1>7 DEF IInv, FlatIsFree, BooksAgree
<1>10. ClockIsBar' /\ NoLookahead' /\ BarAtHand'
  BY <1>3, <1>5 DEF IInv, ClockIsBar, NoLookahead, OrderIds, BarAtHand, DeliverFill
<1> QED
  BY <1>8, <1>9, <1>10 DEF IInv

\* Under CurrentBarClose the end of on_bar fills orders at this bar's close.
LEMMA EndOnBarInv == ASSUME IInv, EndOnBar PROVE IInv'
<1> USE DEF EndOnBar
<1>1. CASE model # "CurrentBarClose"
  BY <1>1, StageInv DEF Stages, Running
<1>2. CASE model = "CurrentBarClose" /\ bar \in Bars
  <2>1. /\ intents' \in Seq(Orders) /\ DOMAIN intents' = DOMAIN intents
        /\ fills' \subseteq DOMAIN intents' /\ NoLookahead'
        /\ \A k \in OrderIds : intents'[k].submitted = intents[k].submitted
    <3>1. bar.ts >= now
      BY DEF IInv, ClockIsBar, TypeOK
    <3> QED
      BY <1>2, <3>1, TryFillKeeps
  <2>2. TypeOK'
    BY <1>2, <2>1 DEF IInv, TypeOK, Stages
  <2>3. ClockIsBar'
    BY <1>2, <2>1 DEF IInv, ClockIsBar, OrderIds
  <2>4. FlatIsFree' /\ BooksAgree' /\ BarAtHand'
    BY <1>2 DEF IInv, FlatIsFree, BooksAgree, Running, BarAtHand
  <2> QED
    BY <2>1, <2>2, <2>3, <2>4 DEF IInv
<1>3. bar \in Bars
  BY DEF IInv, BarAtHand
<1> QED
  BY <1>1, <1>2, <1>3

\* The end of the bars expires what is pending and closes what is open.
LEMMA EndOfBarsInv == ASSUME IInv, EndOfBars PROVE IInv'
<1> USE DEF EndOfBars
<1>1. DOMAIN intents = 1..Len(intents) /\ Len(intents) \in Nat
      /\ \A k \in OrderIds : intents[k] \in Orders
  BY DEF IInv, TypeOK, OrderIds
<1>2. \A k \in OrderIds : /\ intents'[k] \in Orders
                          /\ intents'[k].submitted = intents[k].submitted
                          /\ intents'[k].status = "filled" => intents'[k] = intents[k]
  BY <1>1 DEF OrderIds, Orders
<1>3. intents' \in [1..Len(intents) -> Orders]
  BY <1>1, <1>2 DEF OrderIds
<1>4. intents' \in Seq(Orders) /\ DOMAIN intents' = DOMAIN intents
  BY <1>1, <1>3
<1>5. open' \in [Symbols -> OpenTrades]
  BY DEF NoTrade, OpenTrades, Sides
<1>6. closed' \in [Symbols -> Totals]
  <2> SUFFICES ASSUME NEW s \in Symbols PROVE closed'[s] \in Totals
    OBVIOUS
  <2> DEFINE t == open[s]
             last == IF s \in Seen(marks) THEN marks[s] * t.size ELSE t.cost
  <2>1. t \in OpenTrades /\ closed[s] \in Totals /\ marks[s] \in Nat
    BY DEF IInv, TypeOK
  <2>2. marks[s] * t.size \in Int
    BY <2>1 DEF OpenTrades
  <2>3. PnlPerSide(t.side, t.cost, last) \in Int
    BY <2>1, <2>2 DEF OpenTrades, PnlPerSide
  <2>4. closed'[s] = IF t.size = 0 THEN closed[s]
                     ELSE [pnl |-> closed[s].pnl + PnlPerSide(t.side, t.cost, last) - t.fees,
                           fees |-> closed[s].fees + t.fees]
    OBVIOUS
  <2> HIDE DEF last, t
  <2>5. CASE t.size = 0
    BY <2>1, <2>4, <2>5
  <2>6. CASE t.size # 0
    BY <2>1, <2>3, <2>4, <2>6 DEF OpenTrades, Totals
  <2> QED
    BY <2>5, <2>6
<1>7. TypeOK'
  BY <1>4, <1>5, <1>6 DEF IInv, TypeOK, Stages, Callbacks
<1>8. ClockIsBar' /\ NoLookahead'
  BY <1>2, <1>4 DEF IInv, ClockIsBar, NoLookahead, OrderIds
<1>9. FlatIsFree' /\ BooksAgree' /\ BarAtHand'
  BY DEF FlatIsFree, NoTrade, BooksAgree, Running, BarAtHand
<1> QED
  BY <1>7, <1>8, <1>9 DEF IInv

\* Every step of the run, and every stutter, preserves the invariant.
LEMMA NextInv == IInv /\ [Next]_vars => IInv'
<1> SUFFICES ASSUME IInv, [Next]_vars PROVE IInv'
  OBVIOUS
<1>1. CASE \E s \in Symbols, ticket \in Tickets : Submit(s, ticket)
  BY <1>1, SubmitInv
<1>2. CASE StrategyFails
  BY <1>2, StageInv DEF StrategyFails, Stages, Running
<1>3. CASE EndOnInit
  BY <1>3, StageInv DEF EndOnInit, Stages, Running
<1>4. ASSUME NEW s \in Symbols, NEW ts \in {bar.ts, bar.ts + 1}, NEW prices \in Quotes,
             NextBar([symbol |-> s, ts |-> ts, open |-> prices[1], close |-> prices[2]])
      PROVE  IInv'
  <2> DEFINE b == [symbol |-> s, ts |-> ts, open |-> prices[1], close |-> prices[2]]
  <2>1. now \in Nat /\ bar.ts = now
    BY DEF IInv, TypeOK, ClockIsBar
  <2>2. b \in Bars /\ b.ts >= now
    BY <2>1 DEF Bars
  <2> HIDE DEF b
  <2> QED
    BY <1>4, <2>2, NextBarInv DEF b
<1>5. CASE \E k \in fills : DeliverFill(k)
  BY <1>5, DeliverFillInv
<1>6. CASE EndOnFill
  BY <1>6, StageInv DEF EndOnFill, Stages, Running
<1>7. CASE FillsDone
  BY <1>7, StageInv DEF FillsDone, Stages, Callbacks, Running
<1>8. CASE EndOnBar
  BY <1>8, EndOnBarInv
<1>9. CASE EndOfBars
  BY <1>9, EndOfBarsInv
<1>10. CASE EndOnEnd
  BY <1>10, StageInv DEF EndOnEnd, Stages, Running
<1>11. CASE UNCHANGED vars
  BY <1>11, StageInv DEF vars, IInv, TypeOK, Running
<1> QED
  BY <1>1, <1>2, <1>3, <1>4, <1>5, <1>6, <1>7, <1>8, <1>9, <1>10, <1>11 DEF Next

(***************************************************************************)
(* The books and the money                                                 *)
(***************************************************************************)
\* A price times a size is the price times each of its parts.
LEMMA Parts == \A a, b, c \in Int : a * (b + c) = a * b + a * c /\ a * (-b) = -(a * b)
  OBVIOUS

\* Nothing, owed, is nothing.
LEMMA NoDebt == \A n \in Int : n <= 0 /\ n >= 0 => -n = 0
  OBVIOUS

\* The whole of an amount is that amount.
LEMMA WholeShare == ASSUME NEW a \in Int, NEW n \in Nat \ {0} PROVE Share(a, n, n) = a
<1> DEFINE x == a * n
<1>1. x \in Int /\ n * a = x /\ a = x \div n
  OBVIOUS
<1> QED
  BY <1>1 DEF Share

\* One fill books what it spends: the change of a position's fees, cost and
\* profit is price times size, and the fee, however the shares are rounded.
LEMMA FillBooksCash ==
    ASSUME NEW p \in Positions, NEW d \in Int, d # 0, NEW price \in Nat, NEW fee \in Nat,
           p.size = 0 => p.cost = 0
    PROVE  LET q == ApplyFill(p, d, price, fee)
           IN  /\ q.size = p.size + d
               /\ q.fees + SignedCost(q) - q.gross
                    = p.fees + SignedCost(p) - p.gross + price * d + fee
<1> USE DEF Positions
<1> DEFINE q == ApplyFill(p, d, price, fee)
           closing == Least(Abs(d), Abs(p.size))
           released == Share(p.cost, closing, Abs(p.size))
<1>1. /\ p.size \in Int /\ p.cost \in Int /\ p.gross \in Int /\ p.fees \in Int
  OBVIOUS
<1>2. q.size = p.size + d /\ q.fees = p.fees + fee
  BY DEF ApplyFill
<1>3. CASE p.size = 0 \/ SameSign(p.size, d)
  <2>1. q.cost = p.cost + price * Abs(d) /\ q.gross = p.gross
    BY <1>3 DEF ApplyFill
  <2> HIDE DEF q
  <2>2. CASE d > 0
    <3>1. Abs(d) = d /\ p.size >= 0 /\ q.size > 0
      BY <1>1, <1>2, <1>3, <2>2 DEF Abs, SameSign
    <3>2. SignedCost(q) = q.cost /\ SignedCost(p) = p.cost
      BY <1>1, <1>2, <3>1 DEF SignedCost, Facing, Signed
    <3>3. price * d \in Int
      OBVIOUS
    <3> QED
      BY <1>1, <1>2, <2>1, <3>1, <3>2, <3>3 DEF q
  <2>3. CASE d < 0
    <3>1. Abs(d) = -d /\ ~(p.size > 0) /\ ~(q.size > 0)
      BY <1>1, <1>2, <1>3, <2>3 DEF Abs, SameSign
    <3>2. SignedCost(q) = -q.cost /\ SignedCost(p) = -p.cost
      BY <1>1, <1>2, <3>1 DEF SignedCost, Facing, Signed
    <3>3. price * d \in Int /\ price * (-d) = -(price * d)
      BY Parts
    <3> QED
      BY <1>1, <1>2, <2>1, <3>1, <3>2, <3>3 DEF q
  <2> QED
    BY <2>2, <2>3
<1>4. CASE ~(p.size = 0 \/ SameSign(p.size, d))
  <2>1. /\ q.gross = p.gross + PnlPerSide(Facing(p), released, price * closing)
        /\ q.cost = IF p.size + d = 0 THEN 0
                    ELSE IF SameSign(p.size, p.size + d) THEN p.cost - released
                    ELSE price * Abs(p.size + d)
    BY <1>4 DEF ApplyFill
  <2>2. closing \in Nat \ {0} /\ Abs(p.size) \in Nat \ {0}
    BY <1>1, <1>4 DEF Least, Abs
  <2>3. released \in Int
    <3>1. closing \in Int /\ Abs(p.size) \in Nat \ {0} /\ p.cost \in Int
      BY <1>1, <2>2
    <3> HIDE DEF closing
    <3> QED
      BY <3>1, ShareType
  <2>4. closing = Abs(p.size) => released = p.cost
    <3>1. ASSUME closing = Abs(p.size) PROVE released = p.cost
      BY <1>1, <2>2, <3>1, WholeShare
    <3> QED
      BY <3>1
  <2>5. /\ Abs(p.size) <= Abs(d) => closing = Abs(p.size)
        /\ Abs(d) <= Abs(p.size) => closing = Abs(d)
    BY <1>1 DEF Least, Abs
  <2>6. price * closing \in Int /\ price * d \in Int /\ price * Abs(p.size + d) \in Int
    BY <1>1, <2>2 DEF Abs
  <2> HIDE DEF q, closing, released
  <2>7. CASE p.size > 0
    <3>1. d < 0 /\ Abs(d) = -d /\ Abs(p.size) = p.size
      BY <1>1, <1>4, <2>7 DEF SameSign, Abs
    <3>2. SignedCost(p) = p.cost /\ q.gross = p.gross + (price * closing - released)
      BY <1>1, <2>1, <2>7 DEF SignedCost, Facing, Signed, PnlPerSide
    <3>3. SignedCost(q) - (price * closing - released) = p.cost + price * d
      <4>1. CASE p.size + d = 0
        <5>1. q.cost = 0 /\ released = p.cost /\ closing = -d
          BY <1>1, <2>1, <2>4, <2>5, <3>1, <4>1
        <5>2. SignedCost(q) = 0
          <6>1. Facing(q) = "short"
            BY <1>2, <4>1 DEF Facing
          <6>2. SignedCost(q) = -q.cost
            BY <6>1 DEF SignedCost, Signed
          <6>3. q.cost \in Int /\ q.cost <= 0 /\ q.cost >= 0
            BY <5>1
          <6>4. -q.cost = 0
            BY <6>3, NoDebt
          <6> QED
            BY <6>2, <6>4
        <5>3. price * closing = -(price * d)
          BY <5>1, Parts
        <5> QED
          BY <1>1, <2>6, <5>1, <5>2, <5>3
      <4>2. CASE p.size + d > 0
        <5>1. q.cost = p.cost - released /\ closing = -d
          BY <1>1, <2>1, <2>5, <2>7, <3>1, <4>2 DEF SameSign
        <5>2. SignedCost(q) = q.cost
          BY <1>2, <4>2 DEF SignedCost, Facing, Signed
        <5>3. price * closing = -(price * d)
          BY <5>1, Parts
        <5> QED
          BY <1>1, <2>3, <2>6, <5>1, <5>2, <5>3
      <4>3. CASE p.size + d < 0
        <5>1. /\ q.cost = price * Abs(p.size + d) /\ Abs(p.size + d) = -(p.size + d)
              /\ released = p.cost /\ closing = p.size
          BY <1>1, <2>1, <2>4, <2>5, <2>7, <3>1, <4>3 DEF SameSign, Abs
        <5>2. SignedCost(q) = -q.cost
          BY <1>2, <1>1, <2>6, <4>3, <5>1 DEF SignedCost, Facing, Signed
        <5>3. q.cost = -(price * p.size + price * d)
          BY <1>1, <5>1, Parts
        <5>4. price * p.size \in Int
          BY <1>1
        <5> QED
          BY <1>1, <2>6, <5>1, <5>2, <5>3, <5>4
      <4> QED
        BY <1>1, <4>1, <4>2, <4>3
    <3>4. SignedCost(q) \in Int /\ q.gross \in Int
      <4>1. q.cost \in Int
        BY <1>1, <2>1, <2>3, <2>6
      <4> QED
        BY <1>1, <2>3, <2>6, <3>2, <4>1 DEF SignedCost, Signed
    <3> QED
      BY <1>1, <1>2, <2>3, <2>6, <3>2, <3>3, <3>4 DEF q
  <2>8. CASE p.size < 0
    <3>1. d > 0 /\ Abs(d) = d /\ Abs(p.size) = -p.size
      BY <1>1, <1>4, <2>8 DEF SameSign, Abs
    <3>2. SignedCost(p) = -p.cost /\ q.gross = p.gross + (released - price * closing)
      BY <1>1, <2>1, <2>8 DEF SignedCost, Facing, Signed, PnlPerSide
    <3>3. SignedCost(q) - (released - price * closing) = -p.cost + price * d
      <4>1. CASE p.size + d = 0
        <5>1. q.cost = 0 /\ released = p.cost /\ closing = d
          BY <1>1, <2>1, <2>4, <2>5, <3>1, <4>1
        <5>2. SignedCost(q) = 0
          <6>1. Facing(q) = "short"
            BY <1>2, <4>1 DEF Facing
          <6>2. SignedCost(q) = -q.cost
            BY <6>1 DEF SignedCost, Signed
          <6>3. q.cost \in Int /\ q.cost <= 0 /\ q.cost >= 0
            BY <5>1
          <6>4. -q.cost = 0
            BY <6>3, NoDebt
          <6> QED
            BY <6>2, <6>4
        <5> QED
          BY <1>1, <2>6, <5>1, <5>2
      <4>2. CASE p.size + d < 0
        <5>1. q.cost = p.cost - released /\ closing = d
          BY <1>1, <2>1, <2>5, <2>8, <3>1, <4>2 DEF SameSign
        <5>2. SignedCost(q) = -q.cost
          BY <1>2, <1>1, <4>2 DEF SignedCost, Facing, Signed
        <5> QED
          BY <1>1, <2>3, <2>6, <5>1, <5>2
      <4>3. CASE p.size + d > 0
        <5>1. /\ q.cost = price * (p.size + d)
              /\ released = p.cost /\ closing = -p.size
          BY <1>1, <2>1, <2>4, <2>5, <2>8, <3>1, <4>3 DEF SameSign, Abs
        <5>2. SignedCost(q) = q.cost
          BY <1>2, <4>3 DEF SignedCost, Facing, Signed
        <5>3. q.cost = price * p.size + price * d /\ price * closing = -(price * p.size)
          BY <1>1, <5>1, Parts
        <5>4. price * p.size \in Int
          BY <1>1
        <5> QED
          BY <1>1, <2>6, <5>1, <5>2, <5>3, <5>4
      <4> QED
        BY <1>1, <4>1, <4>2, <4>3
    <3>4. SignedCost(q) \in Int /\ q.gross \in Int
      <4>1. q.cost \in Int
        BY <1>1, <2>1, <2>3, <2>6
      <4> QED
        BY <1>1, <2>3, <2>6, <3>2, <4>1 DEF SignedCost, Signed
    <3> QED
      BY <1>1, <1>2, <2>3, <2>6, <3>2, <3>3, <3>4 DEF q
  <2> QED
    BY <1>1, <1>4, <2>7, <2>8
<1> QED
  BY <1>3, <1>4

(***************************************************************************)
(* Every step keeps the ledger                                             *)
(***************************************************************************)
\* The orders of a symbol form a finite set, and their amounts are integers.
LEMMA DeliveredType ==
    ASSUME IInv
    PROVE  /\ \A s : IsFiniteSet(Delivered(s)) /\ Delivered(s) \subseteq OrderIds
           /\ \A k \in OrderIds : SignedSize(k) \in Int /\ Outlay(k) \in Int
<1>1. DOMAIN intents = 1..Len(intents) /\ Len(intents) \in Nat
  BY DEF IInv, TypeOK
<1>2. IsFiniteSet(OrderIds)
  BY <1>1, FS_Interval DEF OrderIds
<1>3. ASSUME NEW s PROVE IsFiniteSet(Delivered(s)) /\ Delivered(s) \subseteq OrderIds
  BY <1>2, FS_Subset DEF Delivered
<1>4. ASSUME NEW k \in OrderIds PROVE SignedSize(k) \in Int /\ Outlay(k) \in Int
  <2>1. intents[k] \in Orders
    BY DEF IInv, TypeOK, OrderIds
  <2>2. SignedSize(k) \in Int /\ intents[k].price \in Nat
    BY <2>1 DEF SignedSize, Signed, Orders
  <2>3. intents[k].price * SignedSize(k) \in Int /\ FeeOf(intents[k].price) \in Int
    BY <2>2, FeeType
  <2> QED
    BY <2>2, <2>3 DEF Outlay
<1> QED
  BY <1>3, <1>4

\* What was spent, what a position is worth, its profit and its cost are integers.
LEMMA MoneyType ==
    ASSUME IInv, NEW s \in Symbols
    PROVE  /\ Spent(s) \in Int /\ Worth(s) \in Int /\ Net(book[s]) \in Int
           /\ Unrealized(s) \in Int /\ SignedCost(book[s]) \in Int
<1>1. book[s] \in Positions /\ marks[s] \in Nat
  BY DEF IInv, TypeOK
<1>2. /\ book[s].size \in Int /\ book[s].cost \in Int
      /\ book[s].gross \in Int /\ book[s].fees \in Int /\ Abs(book[s].size) \in Int
  BY <1>1 DEF Positions, Abs
<1>3. Worth(s) \in Int /\ marks[s] * Abs(book[s].size) \in Int
  BY <1>1, <1>2 DEF Worth
<1>4. Spent(s) \in Int
  <2>1. IsFiniteSet(Delivered(s)) /\ \A k \in Delivered(s) : Outlay(k) \in Int
    BY DeliveredType
  <2> DEFINE f == [k \in Delivered(s) |-> Outlay(k)]
  <2>2. \A k \in Delivered(s) : f[k] \in Int
    BY <2>1
  <2> HIDE DEF f
  <2>3. SumOver(Delivered(s), f) \in Int
    BY <2>1, <2>2, SumType
  <2> QED
    BY <2>3 DEF Spent, f
<1> QED
  BY <1>2, <1>3, <1>4 DEF Net, Unrealized, PnlPerSide, SignedCost, Signed

\* A step that touches no delivered order moves no sum of fills.
LEMMA SameFills ==
    ASSUME IInv, NEW s \in Symbols, Delivered(s)' = Delivered(s),
           \A k \in Delivered(s) : intents'[k] = intents[k]
    PROVE  /\ SumOver(Delivered(s), [k \in Delivered(s) |-> SignedSize(k)])'
                = SumOver(Delivered(s), [k \in Delivered(s) |-> SignedSize(k)])
           /\ Spent(s)' = Spent(s)
<1>1. \A k \in Delivered(s) : SignedSize(k)' = SignedSize(k) /\ Outlay(k)' = Outlay(k)
  BY DEF SignedSize, Outlay
<1>2. [k \in Delivered(s) |-> SignedSize(k)]' = [k \in Delivered(s) |-> SignedSize(k)]
  BY <1>1
<1>3. [k \in Delivered(s) |-> Outlay(k)]' = [k \in Delivered(s) |-> Outlay(k)]
  BY <1>1
<1>4. Spent(s)' = SumOver(Delivered(s), [k \in Delivered(s) |-> Outlay(k)])'
  BY DEF Spent
<1>5. /\ SumOver(Delivered(s), [k \in Delivered(s) |-> SignedSize(k)])'
           = SumOver(Delivered(s)', [k \in Delivered(s) |-> SignedSize(k)]')
      /\ SumOver(Delivered(s), [k \in Delivered(s) |-> Outlay(k)])'
           = SumOver(Delivered(s)', [k \in Delivered(s) |-> Outlay(k)]')
  OBVIOUS
<1> QED
  BY <1>2, <1>3, <1>4, <1>5 DEF Spent

\* Such a step, if it also leaves the books alone, keeps the positions.
LEMMA SamePositions ==
    ASSUME IInv, PositionsAreFills, book' = book,
           \A s \in Symbols : /\ Delivered(s)' = Delivered(s)
                              /\ \A k \in Delivered(s) : intents'[k] = intents[k]
    PROVE  /\ PositionsAreFills'
           /\ SumOver(Symbols, [s \in Symbols |-> Spent(s)])'
                = SumOver(Symbols, [s \in Symbols |-> Spent(s)])
<1>1. ASSUME NEW s \in Symbols
      PROVE  /\ SumOver(Delivered(s), [k \in Delivered(s) |-> SignedSize(k)])'
                  = SumOver(Delivered(s), [k \in Delivered(s) |-> SignedSize(k)])
             /\ Spent(s)' = Spent(s)
  BY <1>1, SameFills
<1>2. ASSUME NEW s \in Symbols
      PROVE  /\ PositionIsFills(s)' /\ CashIsBooked(s)'
             /\ Delivered(s)' = {} => book'[s] = Flat
  <2>1. PositionIsFills(s) /\ CashIsBooked(s) /\ (Delivered(s) = {} => book[s] = Flat)
    BY DEF PositionsAreFills
  <2>2. PositionIsFills(s)'
    BY <1>1, <2>1 DEF PositionIsFills
  <2>3. CashIsBooked(s)'
    BY <1>1, <2>1 DEF CashIsBooked
  <2> QED
    BY <2>1, <2>2, <2>3
<1>3. PositionsAreFills'
  BY <1>2 DEF PositionsAreFills
<1>4. [s \in Symbols |-> Spent(s)]' = [s \in Symbols |-> Spent(s)]
  BY <1>1
<1>5. SumOver(Symbols, [s \in Symbols |-> Spent(s)])'
        = SumOver(Symbols, [s \in Symbols |-> Spent(s)]')
  OBVIOUS
<1> QED
  BY <1>3, <1>4, <1>5

\* With every order on its own bars, a symbol without a mark has no book.
LEMMA UnseenIsFlat ==
    ASSUME IInv, Ledger, OnOwnBars, NEW s \in Symbols, marks[s] = 0
    PROVE  book[s] = Flat
<1>1. Delivered(s) = {}
  BY DEF Ledger, FillsInTurn, Delivered, OnOwnBars
<1> QED
  BY <1>1 DEF Ledger, PositionsAreFills

\* At the end of a round the equity recorded is what the positions are worth
\* and what was not spent.
LEMMA EquityNowIsWorth ==
    ASSUME IInv, Ledger, OnOwnBars
    PROVE  EquityNow = InitialCapital - SumOver(Symbols, [s \in Symbols |-> Spent(s)])
                                      + SumOver(Symbols, [s \in Symbols |-> Worth(s)])
<1> DEFINE net == [s \in Symbols |-> Net(book[s])]
           gain == [s \in Symbols |-> Unrealized(s)]
           both == [s \in Symbols |-> Net(book[s]) + Unrealized(s)]
           spent == [s \in Symbols |-> Spent(s)]
           worth == [s \in Symbols |-> Worth(s)]
           seen == [s \in Seen(marks) |-> Unrealized(s)]
<1>1. IsFiniteSet(Symbols) /\ Seen(marks) \subseteq Symbols /\ IsFiniteSet(Seen(marks))
  BY SymbolsAssumption, FS_Subset DEF Seen
<1>2. \A s \in Symbols : /\ net[s] \in Int /\ gain[s] \in Int /\ both[s] = net[s] + gain[s]
                         /\ spent[s] \in Int /\ worth[s] \in Int
  BY MoneyType
<1>3. \A s \in Symbols : worth[s] = both[s] + spent[s] /\ both[s] \in Int
  <2> SUFFICES ASSUME NEW s \in Symbols
               PROVE  Worth(s) = Net(book[s]) + Unrealized(s) + Spent(s)
    BY MoneyType
  <2> DEFINE p == book[s]
             m == marks[s]
  <2>1. p.size \in Int /\ p.cost \in Int /\ p.gross \in Int /\ p.fees \in Int /\ m \in Nat
    BY DEF IInv, TypeOK, Positions
  <2>2. Spent(s) = p.fees + SignedCost(p) - p.gross
    BY DEF Ledger, PositionsAreFills, CashIsBooked
  <2>3. Unrealized(s) = Worth(s) - SignedCost(p)
    <3>1. m * p.size \in Int /\ m * (-p.size) = -(m * p.size)
      BY <2>1, Parts
    <3>2. CASE p.size > 0
      BY <2>1, <3>1, <3>2 DEF Unrealized, Worth, SignedCost, Signed, PnlPerSide, Facing, Abs
    <3>3. CASE ~(p.size > 0)
      <4>1. m * Abs(p.size) = -(m * p.size)
        BY <2>1, <3>1, <3>3 DEF Abs
      <4>2. Facing(p) = "short"
        BY <3>3 DEF Facing
      <4>3. Unrealized(s) = p.cost - m * Abs(p.size) /\ SignedCost(p) = -p.cost
        BY <4>2 DEF Unrealized, SignedCost, Signed, PnlPerSide
      <4> QED
        BY <2>1, <3>1, <4>1, <4>3 DEF Worth
    <3> QED
      BY <3>2, <3>3
  <2>4. Worth(s) \in Int /\ SignedCost(p) \in Int
    BY MoneyType
  <2> QED
    BY <2>1, <2>2, <2>3, <2>4 DEF Net
<1>4. SumOver(Seen(marks), seen) = SumOver(Symbols, gain)
  <2>1. \A s \in Symbols \ Seen(marks) : gain[s] = 0
    <3> SUFFICES ASSUME NEW s \in Symbols, marks[s] = 0 PROVE Unrealized(s) = 0
      BY DEF Seen
    <3>1. book[s].size = 0 /\ book[s].cost = 0
      BY UnseenIsFlat DEF Flat
    <3>2. Abs(book[s].size) = 0 /\ Facing(book[s]) = "short"
      BY <3>1 DEF Abs, Facing
    <3> QED
      BY <3>1, <3>2 DEF Unrealized, PnlPerSide
  <2>2. \A s \in Seen(marks) : seen[s] = gain[s]
    BY <1>1
  <2> HIDE DEF gain, seen
  <2>3. SumOver(Symbols, gain) = SumOver(Seen(marks), gain)
    BY <1>1, <1>2, <2>1, SumZeroes
  <2> QED
    BY <1>1, <2>2, <2>3, SumSame
<1>5. realized = SumOver(Symbols, net)
  BY DEF Ledger, RealizedIsNet
<1>6. EquityNow = InitialCapital + realized + SumOver(Seen(marks), seen)
  BY DEF EquityNow
<1> HIDE DEF net, gain, both, spent, worth, seen
<1>7. SumOver(Symbols, both) = SumOver(Symbols, net) + SumOver(Symbols, gain)
  BY <1>1, <1>2, SumPlus
<1>8. SumOver(Symbols, worth) = SumOver(Symbols, both) + SumOver(Symbols, spent)
  BY <1>1, <1>2, <1>3, SumPlus
<1>9. /\ SumOver(Symbols, net) \in Int /\ SumOver(Symbols, gain) \in Int
      /\ SumOver(Symbols, spent) \in Int
  BY <1>1, <1>2, SumType
<1>10. EquityNow = InitialCapital - SumOver(Symbols, spent) + SumOver(Symbols, worth)
  BY <1>4, <1>5, <1>6, <1>7, <1>8, <1>9, CapitalAssumption
<1> QED
  BY <1>10 DEF spent, worth

\* Before on_init nothing is held, spent or earned.
LEMMA LedgerInit == Init => Ledger
<1> SUFFICES ASSUME Init PROVE Ledger
  OBVIOUS
<1> USE DEF Init
<1>1. IInv
  BY InitInv
<1>2. OrderIds = {} /\ \A s : Delivered(s) = {}
  BY DEF OrderIds, Delivered
<1>3. FillsInTurn
  BY <1>2 DEF FillsInTurn
<1>4. ASSUME NEW s \in Symbols PROVE Spent(s) = 0 /\ PositionIsFills(s)
  <2>1. Delivered(s) = {} /\ book[s].size = 0
    BY <1>2 DEF Flat
  <2> DEFINE f == [k \in Delivered(s) |-> SignedSize(k)]
             e == [k \in Delivered(s) |-> Outlay(k)]
  <2> HIDE DEF f, e
  <2>2. SumOver({}, f) = 0 /\ SumOver({}, e) = 0
    BY SumEmpty
  <2>3. SumOver(Delivered(s), f) = 0 /\ SumOver(Delivered(s), e) = 0
    BY <2>1, <2>2, Zenon
  <2> QED
    BY <2>1, <2>3 DEF Spent, PositionIsFills, f, e
<1>5. ASSUME NEW s \in Symbols
      PROVE  CashIsBooked(s) /\ Worth(s) = 0 /\ Net(book[s]) = 0
  <2>1. /\ book[s].size = 0 /\ book[s].cost = 0 /\ book[s].fees = 0 /\ book[s].gross = 0
        /\ marks[s] = 0
    BY DEF Flat
  <2>2. Facing(book[s]) = "short"
    BY <2>1 DEF Facing
  <2>3. SignedCost(book[s]) = 0
    <3>1. SignedCost(book[s]) = -book[s].cost
      BY <2>2 DEF SignedCost, Signed
    <3> QED
      BY <2>1, <3>1, NoDebt
  <2> QED
    BY <1>4, <2>1, <2>3 DEF CashIsBooked, Worth, Net
<1>6. PositionsAreFills
  BY <1>4, <1>5 DEF PositionsAreFills
<1>7. ASSUME NEW f, \A s \in Symbols : f[s] = 0 PROVE SumOver(Symbols, f) = 0
  <2>1. SumOver(Symbols, f) = SumOver({}, f)
    <3>1. /\ {} \in SUBSET Symbols /\ \A s \in Symbols : f[s] \in Int
          /\ \A s \in Symbols \ {} : f[s] = 0
      BY <1>7
    <3> QED
      BY <3>1, SymbolsAssumption, SumZeroes
  <2> QED
    BY <2>1, SumEmpty
<1> DEFINE net == [s \in Symbols |-> Net(book[s])]
           spent == [s \in Symbols |-> Spent(s)]
           worth == [s \in Symbols |-> Worth(s)]
<1>8. /\ \A s \in Symbols : net[s] = 0
      /\ \A s \in Symbols : spent[s] = 0
      /\ \A s \in Symbols : worth[s] = 0
  BY <1>4, <1>5
<1> HIDE DEF net, spent, worth
<1>9. SumOver(Symbols, net) = 0 /\ SumOver(Symbols, spent) = 0 /\ SumOver(Symbols, worth) = 0
  BY <1>7, <1>8
<1>10. RealizedIsNet
  BY <1>9 DEF RealizedIsNet, net
<1>11. EquityIsWorth
  BY <1>9, CapitalAssumption DEF EquityIsWorth, spent, worth
<1> QED
  BY <1>3, <1>6, <1>10, <1>11 DEF Ledger

\* A step that delivers nothing keeps the ledger, if what it records on the way
\* to the next bar is the equity of the moment.
LEMMA QuietLedger ==
    ASSUME IInv, Ledger, book' = book, realized' = realized, FillsInTurn',
           \A s \in Symbols : /\ Delivered(s)' = Delivered(s)
                              /\ \A k \in Delivered(s) : intents'[k] = intents[k],
           OnOwnBars' => OnOwnBars,
           stage' \in {"on_init", "next_bar"} =>
               /\ marks' = marks
               /\ \/ stage \in {"on_init", "next_bar"} /\ equity' = equity
                  \/ equity' = EquityNow
    PROVE  Ledger'
<1>1. /\ PositionsAreFills'
      /\ SumOver(Symbols, [s \in Symbols |-> Spent(s)])'
           = SumOver(Symbols, [s \in Symbols |-> Spent(s)])
  BY SamePositions DEF Ledger
<1>2. RealizedIsNet'
  BY DEF Ledger, RealizedIsNet
<1>3. EquityIsWorth'
  <2> SUFFICES ASSUME stage' \in {"on_init", "next_bar"}, OnOwnBars'
               PROVE  equity' = InitialCapital
                                  - SumOver(Symbols, [s \in Symbols |-> Spent(s)])'
                                  + SumOver(Symbols, [s \in Symbols |-> Worth(s)])'
    BY DEF EquityIsWorth
  <2>1. SumOver(Symbols, [s \in Symbols |-> Worth(s)])'
          = SumOver(Symbols, [s \in Symbols |-> Worth(s)])
    BY DEF Worth
  <2>2. equity' = InitialCapital - SumOver(Symbols, [s \in Symbols |-> Spent(s)])
                                 + SumOver(Symbols, [s \in Symbols |-> Worth(s)])
    BY EquityNowIsWorth DEF Ledger, EquityIsWorth
  <2> QED
    BY <1>1, <2>1, <2>2
<1> QED
  BY <1>1, <1>2, <1>3 DEF Ledger

\* try_fill after everything is delivered: what it fills is undelivered.
LEMMA TryFillLedger ==
    ASSUME IInv, Ledger, fills = {}, NEW b \in Bars, TryFill(b)
    PROVE  /\ DOMAIN intents' = DOMAIN intents
           /\ \A s \in Symbols : /\ Delivered(s)' = Delivered(s)
                                 /\ \A k \in Delivered(s) : intents'[k] = intents[k]
           /\ OnOwnBars' => OnOwnBars
           /\ \A k \in fills' : intents'[k].status = "filled"
           /\ \A k \in OrderIds :
                 /\ intents'[k].status = "filled" =>
                        \/ intents'[k].against = b.symbol
                        \/ intents[k].status = "filled" /\ intents'[k] = intents[k]
                 /\ intents'[k].status = "pending" => intents'[k] = intents[k]
<1>1. \A k \in OrderIds : intents[k] \in Orders
  BY DEF IInv, TypeOK, OrderIds
<1>2. DOMAIN intents' = OrderIds
  BY DEF TryFill, OrderIds
<1>3. ASSUME NEW k \in OrderIds, Fillable(intents[k], b)
      PROVE  /\ intents'[k].status = "filled" /\ intents'[k].against = b.symbol
             /\ intents'[k].symbol = intents[k].symbol /\ k \in fills'
             /\ intents[k].status = "pending"
  BY <1>1, <1>3 DEF TryFill, OrderIds, Orders, Fillable
<1>4. ASSUME NEW k \in OrderIds, ~Fillable(intents[k], b)
      PROVE  intents'[k] = intents[k] /\ k \notin fills'
  BY <1>4 DEF TryFill, OrderIds
<1>5. fills' \subseteq OrderIds
  BY DEF TryFill, OrderIds
<1>6. ASSUME NEW s \in Symbols
      PROVE  Delivered(s)' = Delivered(s) /\ \A k \in Delivered(s) : intents'[k] = intents[k]
  <2>1. \A k \in OrderIds : k \in Delivered(s)' <=> k \in Delivered(s)
    BY <1>2, <1>3, <1>4 DEF Delivered, OrderIds
  <2>2. Delivered(s) \subseteq OrderIds /\ Delivered(s)' \subseteq OrderIds
    BY <1>2 DEF Delivered, OrderIds
  <2> QED
    BY <1>3, <1>4, <2>1, <2>2 DEF Delivered
<1>7. ASSUME OnOwnBars', NEW k \in OrderIds PROVE intents[k].against = intents[k].symbol
  <2>1. intents'[k].against = intents'[k].symbol
    BY <1>2, <1>7 DEF OnOwnBars, OrderIds
  <2> QED
    BY <1>3, <1>4, <2>1 DEF Ledger, FillsInTurn
<1> QED
  BY <1>2, <1>3, <1>4, <1>5, <1>6, <1>7 DEF OnOwnBars, OrderIds

\* A submitted order is pending and its own symbol's.
LEMMA SubmitLedger ==
    ASSUME IInv, Ledger, NEW s \in Symbols, NEW ticket \in Tickets, Submit(s, ticket)
    PROVE  Ledger'
<1> DEFINE o == NewOrder(s, ticket)
<1>1. o.status = "pending" /\ o.against = o.symbol
  BY DEF NewOrder
<1>2. /\ \A k \in OrderIds : k \in DOMAIN intents' /\ intents'[k] = intents[k]
      /\ \A k \in DOMAIN intents' : k \in OrderIds \/ intents'[k] = o
  BY DEF Submit, IInv, TypeOK, OrderIds
<1>3. UNCHANGED <<stage, bar, marks, fills, book, realized, equity>>
  BY DEF Submit
<1> HIDE DEF o
<1>4. fills \subseteq OrderIds
  BY DEF IInv, TypeOK, OrderIds
<1>5. FillsInTurn'
  BY <1>1, <1>2, <1>3, <1>4 DEF Ledger, FillsInTurn, OrderIds
<1>6. ASSUME NEW r \in Symbols
      PROVE  Delivered(r)' = Delivered(r) /\ \A k \in Delivered(r) : intents'[k] = intents[k]
  BY <1>1, <1>2, <1>3 DEF Delivered, OrderIds
<1>7. OnOwnBars' => OnOwnBars
  BY <1>2 DEF OnOwnBars, OrderIds
<1> QED
  BY <1>3, <1>5, <1>6, <1>7, QuietLedger

\* A step that leaves orders, fills, books and marks alone.
LEMMA StageLedger ==
    ASSUME IInv, Ledger, UNCHANGED <<bar, marks, intents, fills, book, realized>>,
           fills # {} => stage' \in {"fills", "on_fill", "failed"},
           stage' \in {"fills", "on_fill", "on_bar"} => stage \in {"fills", "on_fill", "on_bar"},
           stage' \in {"on_init", "next_bar"} =>
               \/ stage \in {"on_init", "next_bar"} /\ equity' = equity
               \/ equity' = EquityNow
    PROVE  Ledger'
<1>1. FillsInTurn'
  BY DEF Ledger, FillsInTurn, OrderIds
<1>2. \A s \in Symbols : /\ Delivered(s)' = Delivered(s)
                         /\ \A k \in Delivered(s) : intents'[k] = intents[k]
  BY DEF Delivered, OrderIds
<1>3. OnOwnBars' => OnOwnBars
  BY DEF OnOwnBars, OrderIds
<1> QED
  BY <1>1, <1>2, <1>3, QuietLedger

\* A new bar marks its symbol, and what it fills has still to be delivered.
LEMMA NextBarLedger ==
    ASSUME IInv, Ledger, NEW b \in Bars, b.close # 0, NextBar(b)
    PROVE  Ledger'
<1> USE DEF NextBar
<1>1. fills = {}
  BY DEF Ledger, FillsInTurn
<1>2. /\ marks'[b.symbol] # 0 /\ bar' = b
      /\ \A s \in Symbols : marks[s] # 0 => marks'[s] # 0
  <2>1. b.symbol \in Symbols /\ marks \in [Symbols -> Nat]
    BY DEF Bars, IInv, TypeOK
  <2> QED
    BY <2>1
<1>3. \A k \in OrderIds : intents[k].against \in Symbols
  <2>1. \A k \in OrderIds : intents[k] \in Orders
    BY DEF IInv, TypeOK, OrderIds
  <2> QED
    BY <2>1 DEF Orders
<1>4. CASE model = "NextBarOpen"
  <2>1. TryFill(b) /\ stage' = "fills"
    BY <1>4
  <2>2. FillsInTurn'
    <3>1. \A k \in fills' : intents'[k].status = "filled"
      BY <1>1, <2>1, TryFillLedger
    <3>2. ASSUME NEW k \in OrderIds'
          PROVE  /\ intents'[k].status = "filled" => marks'[intents'[k].against] # 0
                 /\ intents'[k].status = "pending" => intents'[k].against = intents'[k].symbol
      <4>1. /\ k \in OrderIds
            /\ intents'[k].status = "filled" =>
                   \/ intents'[k].against = b.symbol
                   \/ intents[k].status = "filled" /\ intents'[k] = intents[k]
            /\ intents'[k].status = "pending" => intents'[k] = intents[k]
        BY <1>1, <2>1, TryFillLedger DEF OrderIds
      <4> QED
        BY <1>2, <1>3, <4>1 DEF Ledger, FillsInTurn
    <3> QED
      BY <1>2, <2>1, <3>1, <3>2 DEF FillsInTurn
  <2> QED
    BY <1>1, <2>1, <2>2, TryFillLedger, QuietLedger
<1>5. CASE model # "NextBarOpen"
  <2>1. stage' = "on_bar" /\ UNCHANGED <<intents, fills>>
    BY <1>5
  <2>2. FillsInTurn'
    BY <1>1, <1>2, <1>3, <2>1 DEF Ledger, FillsInTurn, OrderIds
  <2>3. \A s \in Symbols : /\ Delivered(s)' = Delivered(s)
                           /\ \A k \in Delivered(s) : intents'[k] = intents[k]
    BY <2>1 DEF Delivered, OrderIds
  <2>4. OnOwnBars' => OnOwnBars
    BY <2>1 DEF OnOwnBars, OrderIds
  <2> QED
    BY <2>1, <2>2, <2>3, <2>4, QuietLedger
<1> QED
  BY <1>4, <1>5

\* The end of on_bar records the equity or fills at the bar's close.
LEMMA EndOnBarLedger == ASSUME IInv, Ledger, EndOnBar PROVE Ledger'
<1> USE DEF EndOnBar
<1>1. fills = {}
  BY DEF Ledger, FillsInTurn
<1>2. CASE model = "CurrentBarClose"
  <2>1. TryFill(bar) /\ stage' = "fills" /\ bar \in Bars
    BY <1>2 DEF IInv, BarAtHand
  <2>2. FillsInTurn'
    <3>1. \A k \in fills' : intents'[k].status = "filled"
      BY <1>1, <2>1, TryFillLedger
    <3>2. ASSUME NEW k \in OrderIds'
          PROVE  /\ intents'[k].status = "filled" => marks'[intents'[k].against] # 0
                 /\ intents'[k].status = "pending" => intents'[k].against = intents'[k].symbol
      <4>1. /\ k \in OrderIds
            /\ intents'[k].status = "filled" =>
                   \/ intents'[k].against = bar.symbol
                   \/ intents[k].status = "filled" /\ intents'[k] = intents[k]
            /\ intents'[k].status = "pending" => intents'[k] = intents[k]
        BY <1>1, <2>1, TryFillLedger DEF OrderIds
      <4> QED
        BY <4>1 DEF Ledger, FillsInTurn
    <3>3. marks'[bar'.symbol] # 0
      BY DEF Ledger, FillsInTurn
    <3> QED
      BY <2>1, <3>1, <3>2, <3>3 DEF FillsInTurn
  <2> QED
    BY <1>1, <2>1, <2>2, TryFillLedger, QuietLedger
<1>3. CASE model # "CurrentBarClose"
  BY <1>1, <1>3, StageLedger
<1> QED
  BY <1>2, <1>3

\* Expiry takes the orders that never filled.
LEMMA EndOfBarsLedger == ASSUME IInv, Ledger, EndOfBars PROVE Ledger'
<1> USE DEF EndOfBars
<1>1. /\ fills = {} /\ OrderIds' = OrderIds /\ stage' = "on_end"
      /\ UNCHANGED <<marks, fills, book, realized>>
  BY DEF Ledger, FillsInTurn, OrderIds
<1>2. ASSUME NEW k \in OrderIds
      PROVE  /\ intents[k].status # "pending" => intents'[k] = intents[k]
             /\ intents[k].status = "pending" =>
                   intents'[k].status = "expired" /\ intents'[k].against = intents[k].against
                   /\ intents'[k].symbol = intents[k].symbol
  <2>1. intents[k] \in Orders
    BY DEF IInv, TypeOK, OrderIds
  <2> QED
    BY <2>1 DEF OrderIds, Orders
<1>3. FillsInTurn'
  <2>1. ASSUME NEW k \in OrderIds
        PROVE  /\ intents'[k].status = "filled" => marks[intents'[k].against] # 0
               /\ intents'[k].status = "pending" => intents'[k].against = intents'[k].symbol
    <3>1. /\ intents[k].status = "filled" => marks[intents[k].against] # 0
          /\ intents[k].status = "pending" => intents[k].against = intents[k].symbol
      BY DEF Ledger, FillsInTurn
    <3>2. CASE intents[k].status = "pending"
      BY <1>2, <3>2
    <3>3. CASE intents[k].status # "pending"
      <4>1. intents'[k] = intents[k]
        BY <1>2, <3>3
      <4> QED
        BY <3>1, <3>3, <4>1
    <3> QED
      BY <3>2, <3>3
  <2> QED
    BY <1>1, <2>1 DEF FillsInTurn
<1>4. ASSUME NEW s \in Symbols
      PROVE  Delivered(s)' = Delivered(s) /\ \A k \in Delivered(s) : intents'[k] = intents[k]
  <2>1. \A k \in OrderIds : k \in Delivered(s)' <=> k \in Delivered(s)
    BY <1>1, <1>2 DEF Delivered
  <2>2. Delivered(s) \subseteq OrderIds /\ Delivered(s)' \subseteq OrderIds
    BY <1>1 DEF Delivered
  <2> QED
    BY <1>2, <2>1, <2>2 DEF Delivered
<1>5. OnOwnBars' => OnOwnBars
  BY <1>1, <1>2 DEF OnOwnBars
<1> QED
  BY <1>1, <1>3, <1>4, <1>5, QuietLedger

\* A delivered fill moves one position by its size and one book by its money.
LEMMA DeliverFillLedger ==
    ASSUME IInv, IInv', Ledger, NEW k \in fills, DeliverFill(k),
           NEW s \in Symbols, s = intents[k].symbol
    PROVE  Ledger'
<1> DEFINE o == intents[k]
           d == SignedSize(k)
           fee == FeeOf(o.price)
<1>1. /\ k \in OrderIds /\ o \in Orders /\ o.symbol = s /\ o.status = "filled"
      /\ stage = "fills" /\ stage' = "on_fill"
      /\ UNCHANGED <<marks, bar, intents>> /\ fills' = fills \ {k}
  <2>1. k \in OrderIds
    BY DEF IInv, TypeOK, OrderIds
  <2>2. o \in Orders
    BY <2>1 DEF IInv, TypeOK, OrderIds
  <2> QED
    BY <2>1, <2>2 DEF DeliverFill, Ledger, FillsInTurn
<1>2. o.price \in Nat /\ fee \in Nat /\ d \in Int /\ d # 0 /\ d = Signed(o.side, o.size)
  <2>1. o.price \in Nat
    BY <1>1 DEF Orders
  <2> QED
    BY <1>1, <2>1, FeeType DEF SignedSize, Signed, Orders, Sides
<1>3. /\ book' = [book EXCEPT ![s] = ApplyFill(book[s], d, o.price, fee)]
      /\ realized' = RealizedTotal(book', Seen(marks))
      /\ book \in [Symbols -> Positions] /\ book' \in [Symbols -> Positions]
  BY <1>2 DEF DeliverFill, IInv, TypeOK
<1>4. book[s] \in Positions /\ (book[s].size = 0 => book[s].cost = 0)
  <2>1. /\ book[s].size = Signed(open[s].side, open[s].size) /\ book[s].cost = open[s].cost
        /\ open[s].size = 0 => open[s].cost = 0
    BY <1>1 DEF IInv, BooksAgree, FlatIsFree, Running
  <2>2. open[s].size \in Nat
    BY <1>1 DEF IInv, TypeOK, OpenTrades
  <2> QED
    BY <1>1, <1>3, <2>1, <2>2 DEF Signed
<1>5. FillsInTurn'
  BY <1>1 DEF Ledger, FillsInTurn, OrderIds
<1>6. /\ Delivered(s)' = Delivered(s) \union {k} /\ k \notin Delivered(s)
      /\ \A r \in Symbols : r # s => Delivered(r)' = Delivered(r)
  BY <1>1 DEF Delivered, OrderIds
<1>7. \A j \in OrderIds : SignedSize(j)' = SignedSize(j) /\ Outlay(j)' = Outlay(j)
  BY <1>1 DEF SignedSize, Outlay
<1>8. ASSUME NEW r \in Symbols, r # s
      PROVE  PositionIsFills(r)' /\ CashIsBooked(r)' /\ (Delivered(r)' = {} => book'[r] = Flat)
  <2>1. book'[r] = book[r]
    BY <1>3, <1>8
  <2>2. /\ SumOver(Delivered(r), [j \in Delivered(r) |-> SignedSize(j)])'
             = SumOver(Delivered(r), [j \in Delivered(r) |-> SignedSize(j)])
        /\ Spent(r)' = Spent(r)
    <3>1. Delivered(r)' = Delivered(r) /\ \A j \in Delivered(r) : intents'[j] = intents[j]
      BY <1>1, <1>6, <1>8
    <3> QED
      BY <3>1, SameFills
  <2>3. PositionIsFills(r) /\ CashIsBooked(r) /\ (Delivered(r) = {} => book[r] = Flat)
    BY DEF Ledger, PositionsAreFills
  <2> QED
    BY <1>6, <1>8, <2>1, <2>2, <2>3 DEF PositionIsFills, CashIsBooked
<1>9. /\ SumOver(Delivered(s), [j \in Delivered(s) |-> SignedSize(j)])'
           = SumOver(Delivered(s), [j \in Delivered(s) |-> SignedSize(j)]) + d
      /\ Spent(s)' = Spent(s) + Outlay(k)
  <2>1. /\ IsFiniteSet(Delivered(s)) /\ Delivered(s) \subseteq OrderIds
        /\ IsFiniteSet(Delivered(s)') /\ Delivered(s)' \subseteq OrderIds
        /\ k \in Delivered(s)' /\ Delivered(s)' \ {k} = Delivered(s)
    <3>1. IsFiniteSet(Delivered(s)) /\ Delivered(s) \subseteq OrderIds
      BY DeliveredType
    <3> QED
      BY <1>1, <1>6, <3>1, FS_AddElement
  <2> DEFINE f == [j \in Delivered(s) |-> SignedSize(j)]
             e == [j \in Delivered(s) |-> Outlay(j)]
             f2 == [j \in Delivered(s)' |-> SignedSize(j)']
             e2 == [j \in Delivered(s)' |-> Outlay(j)']
  <2>2. /\ \A j \in Delivered(s) : f[j] \in Int /\ e[j] \in Int /\ f2[j] = f[j] /\ e2[j] = e[j]
        /\ f2[k] = d /\ e2[k] = Outlay(k) /\ d \in Int /\ Outlay(k) \in Int
    BY <1>1, <1>7, <2>1, DeliveredType
  <2>3. /\ SumOver(Delivered(s), [j \in Delivered(s) |-> SignedSize(j)])'
             = SumOver(Delivered(s)', f2)
        /\ Spent(s)' = SumOver(Delivered(s)', e2)
    BY DEF Spent
  <2> HIDE DEF f, e, f2, e2, d
  <2>4. SumOver(Delivered(s)', f2) = SumOver(Delivered(s), f) + d
    BY <1>6, <2>1, <2>2, SumAdd
  <2>5. SumOver(Delivered(s)', e2) = SumOver(Delivered(s), e) + Outlay(k)
    BY <1>6, <2>1, <2>2, SumAdd
  <2> QED
    BY <2>3, <2>4, <2>5 DEF f, e, Spent
<1>10. /\ book'[s] = ApplyFill(book[s], d, o.price, fee)
       /\ book'[s].size = book[s].size + d
       /\ book'[s].fees + SignedCost(book'[s]) - book'[s].gross
            = book[s].fees + SignedCost(book[s]) - book[s].gross + o.price * d + fee
  <2>1. book'[s] = ApplyFill(book[s], d, o.price, fee)
    BY <1>1, <1>3
  <2>2. o.price \in Nat /\ fee \in Nat /\ d \in Int /\ d # 0
    BY <1>2
  <2>3. book[s] \in Positions /\ (book[s].size = 0 => book[s].cost = 0)
    BY <1>4
  <2> DEFINE q == ApplyFill(book[s], d, o.price, fee)
  <2>4. /\ q.size = book[s].size + d
        /\ q.fees + SignedCost(q) - q.gross
             = book[s].fees + SignedCost(book[s]) - book[s].gross + o.price * d + fee
    <3> HIDE DEF d, fee, o
    <3> QED
      BY <2>2, <2>3, FillBooksCash
  <2> HIDE DEF q
  <2> QED
    BY <2>1, <2>4 DEF q
<1>11. PositionIsFills(s)' /\ CashIsBooked(s)' /\ Delivered(s)' # {}
  <2>1. PositionIsFills(s) /\ CashIsBooked(s)
    BY <1>1 DEF Ledger, PositionsAreFills
  <2>2. Outlay(k) = o.price * d + fee
    BY DEF Outlay
  <2>3. Spent(s) \in Int /\ SignedCost(book[s]) \in Int
    BY <1>1, MoneyType
  <2>4. book[s].size \in Int /\ book[s].fees \in Int /\ book[s].gross \in Int
    BY <1>4 DEF Positions
  <2>5. o.price * d \in Int
    BY <1>2
  <2>6. PositionIsFills(s)'
    BY <1>9, <1>10, <2>1 DEF PositionIsFills
  <2>7. Spent(s)' = book'[s].fees + SignedCost(book'[s]) - book'[s].gross
    <3> HIDE DEF fee, d
    <3> QED
      BY <1>2, <1>9, <1>10, <2>1, <2>2, <2>3, <2>4, <2>5 DEF CashIsBooked
  <2>8. CashIsBooked(s)'
    BY <2>7 DEF CashIsBooked
  <2> QED
    BY <1>6, <2>6, <2>8
<1>12. PositionsAreFills'
  <2> SUFFICES ASSUME NEW r \in Symbols
               PROVE  /\ PositionIsFills(r)' /\ CashIsBooked(r)'
                      /\ Delivered(r)' = {} => book'[r] = Flat
    BY DEF PositionsAreFills
  <2>1. CASE r = s
    BY <1>11, <2>1
  <2>2. CASE r # s
    BY <1>8, <2>2
  <2> QED
    BY <2>1, <2>2
<1>13. RealizedIsNet'
  <2> SUFFICES ASSUME OnOwnBars'
               PROVE  realized' = SumOver(Symbols, [r \in Symbols |-> Net(book'[r])])
    BY DEF RealizedIsNet
  <2>1. OnOwnBars
    BY <1>1 DEF OnOwnBars, OrderIds
  <2>2. marks[s] # 0
    BY <1>1, <2>1 DEF Ledger, FillsInTurn, OnOwnBars
  <2> DEFINE net == [r \in Symbols |-> Net(book'[r])]
             seen == [r \in Seen(marks) |-> Net(book'[r])]
  <2>3. \A r \in Symbols : net[r] \in Int
    BY <1>3 DEF Net, Positions
  <2>4. \A r \in Symbols \ Seen(marks) : net[r] = 0
    <3> SUFFICES ASSUME NEW r \in Symbols, marks[r] = 0 PROVE Net(book'[r]) = 0
      BY DEF Seen
    <3>1. book[r] = Flat
      BY <2>1, UnseenIsFlat
    <3>2. book'[r] = book[r]
      BY <1>3, <2>2
    <3> QED
      BY <3>1, <3>2 DEF Net, Flat
  <2>5. IsFiniteSet(Symbols) /\ Seen(marks) \in SUBSET Symbols /\ IsFiniteSet(Seen(marks))
    BY SymbolsAssumption, FS_Subset DEF Seen
  <2>6. \A r \in Seen(marks) : seen[r] = net[r]
    BY <2>5
  <2>7. realized' = SumOver(Seen(marks), seen)
    BY <1>3 DEF RealizedTotal
  <2> HIDE DEF net, seen
  <2>8. SumOver(Symbols, net) = SumOver(Seen(marks), net)
    BY <2>3, <2>4, <2>5, SumZeroes
  <2>9. SumOver(Seen(marks), seen) = SumOver(Seen(marks), net)
    BY <2>5, <2>6, SumSame
  <2> QED
    BY <2>7, <2>8, <2>9 DEF net
<1>14. EquityIsWorth'
  BY <1>1 DEF EquityIsWorth
<1> QED
  BY <1>5, <1>12, <1>13, <1>14 DEF Ledger

\* Every step of a backtest, and every stutter, keeps the ledger.
LEMMA LedgerNext == IInv /\ IInv' /\ Ledger /\ [Next]_vars => Ledger'
<1> SUFFICES ASSUME IInv, IInv', Ledger, [Next]_vars PROVE Ledger'
  OBVIOUS
<1>0. fills # {} => stage \in {"fills", "on_fill", "failed"}
  BY DEF Ledger, FillsInTurn
<1>1. CASE \E s \in Symbols, ticket \in Tickets : Submit(s, ticket)
  BY <1>1, SubmitLedger
<1>2. CASE StrategyFails
  BY <1>2, StageLedger DEF StrategyFails
<1>3. CASE EndOnInit
  BY <1>0, <1>3, StageLedger DEF EndOnInit
<1>4. ASSUME NEW s \in Symbols, NEW ts \in {bar.ts, bar.ts + 1}, NEW prices \in Quotes,
             NextBar([symbol |-> s, ts |-> ts, open |-> prices[1], close |-> prices[2]])
      PROVE  Ledger'
  <2> DEFINE b == [symbol |-> s, ts |-> ts, open |-> prices[1], close |-> prices[2]]
  <2>1. now \in Nat /\ bar.ts = now
    BY DEF IInv, TypeOK, ClockIsBar
  <2>2. b \in Bars /\ b.close # 0
    BY <2>1 DEF Bars
  <2> HIDE DEF b
  <2> QED
    BY <1>4, <2>2, NextBarLedger DEF b
<1>5. CASE \E k \in fills : DeliverFill(k)
  <2>1. PICK k \in fills : DeliverFill(k)
    BY <1>5
  <2>2. intents[k] \in Orders
    BY DEF IInv, TypeOK
  <2>3. intents[k].symbol \in Symbols
    BY <2>2 DEF Orders
  <2> QED
    BY <2>1, <2>3, DeliverFillLedger
<1>6. CASE EndOnFill
  BY <1>6, StageLedger DEF EndOnFill
<1>7. CASE FillsDone
  BY <1>7, StageLedger DEF FillsDone
<1>8. CASE EndOnBar
  BY <1>8, EndOnBarLedger
<1>9. CASE EndOfBars
  BY <1>9, EndOfBarsLedger
<1>10. CASE EndOnEnd
  BY <1>0, <1>10, StageLedger DEF EndOnEnd
<1>11. CASE UNCHANGED vars
  BY <1>0, <1>11, StageLedger DEF vars
<1> QED
  BY <1>1, <1>2, <1>3, <1>4, <1>5, <1>6, <1>7, <1>8, <1>9, <1>10, <1>11 DEF Next

(***************************************************************************)
(* Theorems                                                                *)
(***************************************************************************)
\* The inductive invariant holds throughout a backtest.
THEOREM InductiveInvariant == Spec => []IInv
  BY InitInv, NextInv, PTL DEF Spec

\* The position book and the trade log agree on every symbol until the run is
\* closed, for any prices, sizes and fees and however the shares are rounded.
THEOREM BooksAlwaysAgree == Spec => []BooksAgree
<1>1. IInv => BooksAgree
  BY DEF IInv
<1> QED
  BY <1>1, InductiveInvariant, PTL

\* Every position is the sum of the fills delivered, and the recorded equity is
\* the initial capital, less the money spent, plus the worth of the positions.
THEOREM BooksAlwaysAreFills == Spec => []BooksAreFills
<1>1. Init => Ledger
  BY LedgerInit
<1>2. IInv /\ IInv' /\ Ledger /\ [Next]_vars => Ledger'
  BY LedgerNext
<1>3. Ledger => BooksAreFills
  BY DEF Ledger, PositionsAreFills, PositionIsFills, EquityIsWorth, BooksAreFills
<1> QED
  BY <1>1, <1>2, <1>3, InductiveInvariant, PTL DEF Spec

\* No order is ever filled on a bar older than itself, nor under NextBarOpen on
\* a bar of its own timestamp.
THEOREM NeverLooksAhead == Spec => []NoLookahead
<1>1. IInv => NoLookahead
  BY DEF IInv
<1> QED
  BY <1>1, InductiveInvariant, PTL

\* A filled or expired order never changes again.
THEOREM FateIsSealed == Spec => FateSealed
<1> DEFINE Sealed == \A k \in OrderIds : intents[k].status # "pending" => intents'[k] = intents[k]
<1>1. IInv /\ [Next]_vars => [Sealed]_vars
  <2> SUFFICES ASSUME IInv, Next PROVE Sealed
    BY DEF vars
  <2>1. CASE \E s \in Symbols, ticket \in Tickets : Submit(s, ticket)
    <3>1. PICK s \in Symbols, ticket \in Tickets : intents' = Append(intents, NewOrder(s, ticket))
      BY <2>1 DEF Submit
    <3> QED
      BY <3>1 DEF IInv, TypeOK, OrderIds
  <2>2. ASSUME NEW s \in Symbols, NEW ts \in {bar.ts, bar.ts + 1}, NEW prices \in Quotes,
               NextBar([symbol |-> s, ts |-> ts, open |-> prices[1], close |-> prices[2]])
        PROVE  Sealed
    BY <2>2 DEF NextBar, TryFill, Fillable, OrderIds
  <2>3. CASE EndOnBar
    BY <2>3 DEF EndOnBar, TryFill, Fillable, OrderIds
  <2>4. CASE EndOfBars
    BY <2>4 DEF EndOfBars, OrderIds
  <2>5. CASE (\E k \in fills : DeliverFill(k)) \/ EndOnFill \/ FillsDone \/ EndOnInit \/ EndOnEnd
             \/ StrategyFails
    BY <2>5 DEF DeliverFill, EndOnFill, FillsDone, EndOnInit, EndOnEnd, StrategyFails
  <2> QED
    BY <2>1, <2>2, <2>3, <2>4, <2>5 DEF Next
<1> QED
  BY <1>1, InductiveInvariant, PTL DEF Spec, FateSealed
=============================================================================
