--------------------------- MODULE CustodyProofs ---------------------------
(***************************************************************************)
(* Where the money is, for any number of traders, books and orders: what   *)
(* a mint's vault holds, what the supplies of a question count, what a     *)
(* trader's locked balance is for and what a question keeps in reserve.    *)
(***************************************************************************)
EXTENDS SharedProofs

\* Balances on the way through an instruction; they are claims again at its end.
Balances == [Traders -> [Assets -> [free : Int, locked : Int]]]

\* The four changes of a fill: taker t pays `pay` of p for `get` of g, maker o
\* receives fp of p, and of g unlocks kg of which fg comes back.
Traded(c, t, o, p, g, pay, get, fp, fg, kg) ==
    Change(Change(Change(Change(c, t, p, -pay, 0), t, g, get, 0),
                  o, p, fp, 0), o, g, fg, -kg)

-----------------------------------------------------------------------------
(* What instructions do to the sum of an asset *)

\* The sum of an asset is a number.
LEMMA HeldType ==
    ASSUME SharedTradingAssumption, NEW c \in Balances, NEW a \in Assets
    PROVE  Held(c, a) \in Int
<1>1. IsFiniteSet(Traders) /\ c \in BalancesOf(Traders, Assets)
  BY DEF SharedTradingAssumption, Balances, BalancesOf
<1>2. HeldOf(Traders, c, a) \in Int
  BY <1>1, BalanceSum
<1> QED
  BY <1>2 DEF Held, HeldOf

\* Claims are balances.
LEMMA ClaimsAreBalances == Claims \subseteq Balances
BY DEF Claims, Balances

\* One change of one balance: the sum of its asset moves by as much, and a lock
\* by what was added to it.
LEMMA ChangeMoves ==
    ASSUME SharedTradingAssumption, NEW c \in Balances,
           NEW t \in Traders, NEW a \in Assets, NEW f \in Int, NEW k \in Int
    PROVE  /\ Change(c, t, a, f, k) \in Balances
           /\ \A x \in Assets :
                  Held(Change(c, t, a, f, k), x) = Held(c, x) + At(x, a, f + k)
           /\ \A u \in Traders, x \in Assets :
                  Change(c, t, a, f, k)[u][x].locked =
                      c[u][x].locked + AtBalance(u, x, t, a, k)
<1> DEFINE n == Changed(c, t, a, f, k)
<1>1. IsFiniteSet(Traders) /\ c \in BalancesOf(Traders, Assets)
  BY DEF SharedTradingAssumption, Balances, BalancesOf
<1>2. /\ n \in BalancesOf(Traders, Assets)
      /\ \A x \in Assets :
             HeldOf(Traders, n, x) = HeldOf(Traders, c, x) + At(x, a, f + k)
      /\ \A u \in Traders, x \in Assets :
             n[u][x].locked = c[u][x].locked + AtBalance(u, x, t, a, k)
  BY <1>1, BalanceChanged
<1>3. n = Change(c, t, a, f, k)
  BY DEF Changed, Change
<1> HIDE DEF n
<1>4. \A b, x : Held(b, x) = HeldOf(Traders, b, x)
  BY DEF Held, HeldOf
<1>5. Balances = BalancesOf(Traders, Assets)
  BY DEF Balances, BalancesOf
<1>6. /\ n \in Balances
      /\ \A x \in Assets : Held(n, x) = Held(c, x) + At(x, a, f + k)
      /\ \A u \in Traders, x \in Assets :
             n[u][x].locked = c[u][x].locked + AtBalance(u, x, t, a, k)
  BY ONLY <1>2, <1>4, <1>5
<1> QED
  BY ONLY <1>3, <1>6

\* Locking and unlocking keep every sum.
LEMMA LockMoves ==
    ASSUME SharedTradingAssumption, NEW c \in Balances, NEW t \in Traders,
           NEW a \in Assets, NEW k \in Int
    PROVE  \A x \in Assets : Held(Change(c, t, a, -k, k), x) = Held(c, x)
<1> TAKE x \in Assets
<1>1. Held(Change(c, t, a, -k, k), x) = Held(c, x) + At(x, a, -k + k)
  BY ChangeMoves
<1>2. Held(c, x) \in Int
  BY HeldType
<1> QED
  BY <1>1, <1>2 DEF At

\* A fill moves what was paid and what was bought, and unlocks kg.
LEMMA FillMoves ==
    ASSUME SharedTradingAssumption, NEW c \in Balances,
           NEW t \in Traders, NEW o \in Traders, NEW p \in Assets, NEW g \in Assets,
           NEW pay \in Int, NEW get \in Int, NEW fp \in Int, NEW fg \in Int, NEW kg \in Int
    PROVE  /\ \A x \in Assets : Held(Traded(c, t, o, p, g, pay, get, fp, fg, kg), x) =
                  Held(c, x) + At(x, p, fp - pay) + At(x, g, get + fg - kg)
           /\ \A u \in Traders, x \in Assets :
                  Traded(c, t, o, p, g, pay, get, fp, fg, kg)[u][x].locked =
                      c[u][x].locked - AtBalance(u, x, o, g, kg)
<1> DEFINE c1 == Change(c, t, p, -pay, 0)
           c2 == Change(c1, t, g, get, 0)
           c3 == Change(c2, o, p, fp, 0)
           c4 == Change(c3, o, g, fg, -kg)
<1>1. /\ c1 \in Balances
      /\ \A x \in Assets : Held(c1, x) = Held(c, x) + At(x, p, -pay + 0)
      /\ \A u \in Traders, x \in Assets :
             c1[u][x].locked = c[u][x].locked + AtBalance(u, x, t, p, 0)
  BY ChangeMoves
<1> HIDE DEF c1
<1>2. /\ c2 \in Balances
      /\ \A x \in Assets : Held(c2, x) = Held(c1, x) + At(x, g, get + 0)
      /\ \A u \in Traders, x \in Assets :
             c2[u][x].locked = c1[u][x].locked + AtBalance(u, x, t, g, 0)
  BY <1>1, ChangeMoves
<1> HIDE DEF c2
<1>3. /\ c3 \in Balances
      /\ \A x \in Assets : Held(c3, x) = Held(c2, x) + At(x, p, fp + 0)
      /\ \A u \in Traders, x \in Assets :
             c3[u][x].locked = c2[u][x].locked + AtBalance(u, x, o, p, 0)
  BY <1>2, ChangeMoves
<1> HIDE DEF c3
<1>4. /\ c4 \in Balances
      /\ \A x \in Assets : Held(c4, x) = Held(c3, x) + At(x, g, fg + (-kg))
      /\ \A u \in Traders, x \in Assets :
             c4[u][x].locked = c3[u][x].locked + AtBalance(u, x, o, g, -kg)
  BY <1>3, ChangeMoves
<1> HIDE DEF c4
<1>5. \A x \in Assets : Held(c, x) \in Int
  BY HeldType
<1>6. \A u \in Traders, x \in Assets : c[u][x].locked \in Int
  BY DEF Balances
<1>7. \A x \in Assets : Held(c4, x) =
          Held(c, x) + At(x, p, fp - pay) + At(x, g, get + fg - kg)
  BY <1>1, <1>2, <1>3, <1>4, <1>5 DEF At
<1>8. \A u \in Traders, x \in Assets :
          c4[u][x].locked = c[u][x].locked - AtBalance(u, x, o, g, kg)
  BY <1>1, <1>2, <1>3, <1>4, <1>6 DEF AtBalance
<1>9. c4 = Traded(c, t, o, p, g, pay, get, fp, fg, kg)
  BY DEF c1, c2, c3, c4, Traded
<1> QED
  BY <1>7, <1>8, <1>9

\* Cash and the contracts of one question.
LEMMA SetMoves ==
    ASSUME SharedTradingAssumption, claim \in Balances,
           NEW t \in Traders, NEW b \in PredictionBooks,
           NEW cash \in Int, NEW yes \in Int, NEW no \in Int
    PROVE  LET n == ChangeSet(t, b, cash, yes, no)
           IN  /\ \A x \in Assets : Held(n, x) =
                      Held(claim, x) + At(x, QuoteOf[b], cash)
                    + At(x, ClaimOf[b]["Yes"], yes) + At(x, ClaimOf[b]["No"], no)
               /\ \A u \in Traders, x \in Assets : n[u][x].locked = claim[u][x].locked
<1> DEFINE q == QuoteOf[b]
           y == ClaimOf[b]["Yes"]
           z == ClaimOf[b]["No"]
           c1 == Change(claim, t, q, cash, 0)
           c2 == Change(c1, t, y, yes, 0)
           c3 == Change(c2, t, z, no, 0)
<1>0. q \in Assets /\ y \in Assets /\ z \in Assets
  BY DEF SharedTradingAssumption, Books
<1> HIDE DEF q, y, z
<1>1. /\ c1 \in Balances
      /\ \A x \in Assets : Held(c1, x) = Held(claim, x) + At(x, q, cash + 0)
      /\ \A u \in Traders, x \in Assets :
             c1[u][x].locked = claim[u][x].locked + AtBalance(u, x, t, q, 0)
  BY <1>0, ChangeMoves
<1> HIDE DEF c1
<1>2. /\ c2 \in Balances
      /\ \A x \in Assets : Held(c2, x) = Held(c1, x) + At(x, y, yes + 0)
      /\ \A u \in Traders, x \in Assets :
             c2[u][x].locked = c1[u][x].locked + AtBalance(u, x, t, y, 0)
  BY <1>0, <1>1, ChangeMoves
<1> HIDE DEF c2
<1>3. /\ c3 \in Balances
      /\ \A x \in Assets : Held(c3, x) = Held(c2, x) + At(x, z, no + 0)
      /\ \A u \in Traders, x \in Assets :
             c3[u][x].locked = c2[u][x].locked + AtBalance(u, x, t, z, 0)
  BY <1>0, <1>2, ChangeMoves
<1>4. c3 = ChangeSet(t, b, cash, yes, no)
  BY DEF ChangeSet, c1, c2, q, y, z
<1> HIDE DEF c3
<1>5. \A x \in Assets : Held(claim, x) \in Int
  BY HeldType
<1>6. \A u \in Traders, x \in Assets : claim[u][x].locked \in Int
  BY DEF Balances
<1>7. \A x \in Assets : Held(c3, x) =
          Held(claim, x) + At(x, q, cash) + At(x, y, yes) + At(x, z, no)
  BY <1>1, <1>2, <1>3, <1>5 DEF At
<1>8. \A u \in Traders, x \in Assets : c3[u][x].locked = claim[u][x].locked
  BY <1>1, <1>2, <1>3, <1>6 DEF AtBalance
<1> QED
  BY <1>4, <1>7, <1>8 DEF q, y, z

-----------------------------------------------------------------------------
(* What the books owe *)

\* The sum of the fees is a number.
LEMMA OwedType ==
    ASSUME SharedTradingAssumption, NEW books \in [Books -> BookRecord], NEW m \in Mints
    PROVE  FeesOwed(books, m) \in Int
<1> DEFINE f == [b \in Books |-> IF QuoteOf[b] = m THEN books[b].accrued_quote_fees ELSE 0]
<1>1. f \in [Books -> Int]
  BY DEF BookRecord
<1>2. IsFiniteSet(Books)
  BY DEF SharedTradingAssumption
<1> HIDE DEF f
<1>3. SumFunction(f) \in Int
  BY <1>1, <1>2, SumFunctionType
<1> QED
  BY <1>3 DEF f, FeesOwed

\* A fee charged or withdrawn changes what is owed in the book's quote mint.
LEMMA FeesMove ==
    ASSUME SharedTradingAssumption,
           NEW old \in [Books -> BookRecord], NEW new \in [Books -> BookRecord],
           NEW b \in Books,
           \A c \in Books : c # b => new[c].accrued_quote_fees = old[c].accrued_quote_fees
    PROVE  \A m \in Mints : FeesOwed(new, m) = FeesOwed(old, m)
               + At(m, QuoteOf[b], new[b].accrued_quote_fees - old[b].accrued_quote_fees)
<1> DEFINE d == new[b].accrued_quote_fees - old[b].accrued_quote_fees
<1> TAKE m \in Mints
<1> DEFINE f == [c \in Books |-> IF QuoteOf[c] = m THEN old[c].accrued_quote_fees ELSE 0]
           g == [c \in Books |-> IF QuoteOf[c] = m THEN new[c].accrued_quote_fees ELSE 0]
<1>1. f \in [Books -> Int] /\ g \in [Books -> Int]
  BY DEF BookRecord
<1>2. \A c \in Books : c # b => g[c] = f[c]
  OBVIOUS
<1>3. g[b] - f[b] = At(m, QuoteOf[b], d)
  <2>1. old[b].accrued_quote_fees \in Int /\ new[b].accrued_quote_fees \in Int
    BY DEF BookRecord
  <2>2. CASE m = QuoteOf[b]
    BY <2>1, <2>2 DEF At
  <2>3. CASE m # QuoteOf[b]
    BY <2>1, <2>3 DEF At
  <2> QED
    BY <2>2, <2>3
<1>4. FeesOwed(new, m) = SumFunction(g) /\ FeesOwed(old, m) = SumFunction(f)
  BY DEF FeesOwed
<1>5. IsFiniteSet(Books)
  BY DEF SharedTradingAssumption
<1> HIDE DEF f, g
<1>6. SumFunction(g) = SumFunction(f) + (g[b] - f[b])
  <2>1. \A f1, g1 \in [Books -> Int], x1 \in Books :
            (\A y1 \in Books : y1 # x1 => g1[y1] = f1[y1])
                => SumFunction(g1) = SumFunction(f1) + (g1[x1] - f1[x1])
    BY <1>5, SumOneChanged
  <2>2. (\A y1 \in Books : y1 # b => g[y1] = f[y1])
            => SumFunction(g) = SumFunction(f) + (g[b] - f[b])
    BY <1>1, <2>1
  <2> QED
    BY <1>2, <2>2
<1> QED
  BY <1>3, <1>4, <1>6

\* No fee moves, whatever else happens to the roots.
LEMMA FeesStay ==
    ASSUME SharedTradingAssumption,
           NEW old \in [Books -> BookRecord], NEW new \in [Books -> BookRecord],
           \A c \in Books : new[c].accrued_quote_fees = old[c].accrued_quote_fees
    PROVE  \A m \in Mints : FeesOwed(new, m) = FeesOwed(old, m)
<1> TAKE m \in Mints
<1>1. [c \in Books |-> IF QuoteOf[c] = m THEN new[c].accrued_quote_fees ELSE 0]
      = [c \in Books |-> IF QuoteOf[c] = m THEN old[c].accrued_quote_fees ELSE 0]
  OBVIOUS
<1> QED
  BY <1>1, Zenon DEF FeesOwed

-----------------------------------------------------------------------------
(* Trading *)

\* What trading does to the money: a fee of some book leaves the traders and is
\* owed by the book instead; nothing else changes hands but between traders.
TradeStep ==
    \E b \in Books, fee \in Nat :
        /\ \A x \in Assets : Held(claim', x) = Held(claim, x) + At(x, QuoteOf[b], -fee)
        /\ \A m \in Mints : FeesOwed(book', m) = FeesOwed(book, m) + At(m, QuoteOf[b], fee)
        /\ market' = market /\ vault' = vault
        /\ book[b].live
        /\ \A c \in Books : /\ book'[c].live = book[c].live
                            /\ c # b => book'[c].accrued_quote_fees = book[c].accrued_quote_fees

\* Placing an order, in either branch, and canceling one only move a lock.
LEMMA LockStep ==
    ASSUME SharedTradingAssumption, TypeOK, TypeOK',
           NEW t \in Traders, NEW b \in Books, NEW a \in Assets, NEW k \in Int,
           claim' = Change(claim, t, a, -k, k), book[b].live,
           \A c \in Books : /\ book'[c].accrued_quote_fees = book[c].accrued_quote_fees
                            /\ book'[c].live = book[c].live,
           market' = market, vault' = vault
    PROVE  TradeStep
<1>1. claim \in Balances
  BY TypeParts, ClaimsAreBalances
<1>2. \A x \in Assets : Held(claim', x) = Held(claim, x) /\ Held(claim, x) \in Int
  BY <1>1, LockMoves, HeldType
<1>3. /\ book \in [Books -> BookRecord] /\ book' \in [Books -> BookRecord]
  BY DEF TypeOK
<1>4. \A m \in Mints : FeesOwed(book', m) = FeesOwed(book, m) /\ FeesOwed(book, m) \in Int
  <2>1. \A c \in Books : book'[c].accrued_quote_fees = book[c].accrued_quote_fees
    OBVIOUS
  <2>2. ASSUME NEW m \in Mints
        PROVE  FeesOwed(book', m) = FeesOwed(book, m)
    <3>1. [c \in Books |-> IF QuoteOf[c] = m THEN book'[c].accrued_quote_fees ELSE 0]
          = [c \in Books |-> IF QuoteOf[c] = m THEN book[c].accrued_quote_fees ELSE 0]
      BY <2>1
    <3> QED
      BY <3>1 DEF FeesOwed
  <2>3. \A m \in Mints : FeesOwed(book, m) \in Int
    BY <1>3, OwedType
  <2> QED
    BY <2>2, <2>3
<1>5. /\ \A x \in Assets : Held(claim', x) = Held(claim, x) + At(x, QuoteOf[b], -0)
      /\ \A m \in Mints : FeesOwed(book', m) = FeesOwed(book, m) + At(m, QuoteOf[b], 0)
  BY <1>2, <1>4 DEF At
<1>6. 0 \in Nat
  OBVIOUS
<1> QED
  BY <1>5, <1>6 DEF TradeStep

\* Placing: the funds of a new order are locked.
LEMMA PlaceStep ==
    ASSUME SharedTradingAssumption, TypeOK, TypeOK', NEW b \in Books, Place(b)
    PROVE  TradeStep
<1>1. ASSUME NEW t \in Traders, NEW l \in ListsOf(b), NEW p \in Prices,
             NEW q \in Quantities, NEW previous, Placing(t, b, l, p, q, previous),
             \A c \in Books : /\ book'[c].accrued_quote_fees = book[c].accrued_quote_fees
                              /\ book'[c].live = book[c].live
      PROVE  TradeStep
  <2> DEFINE amount == Collateral(Scale[b], l[2], p, q)
             asset  == LockedAsset(b, l)
  <2>1. /\ claim' = Change(claim, t, asset, -amount, amount)
        /\ book[b].live /\ market' = market /\ vault' = vault
    BY <1>1 DEF Placing, TradingOpen
  <2>2. asset \in Assets /\ l[2] \in Sides /\ Scale[b] \in Nat \ {0}
    BY AssetTypes
  <2>3. amount \in Int
    <3>1. p \in Nat
      BY PriceType
    <3>2. q \in Nat
      BY DEF SharedTradingAssumption
    <3>3. Scale[b] \in Nat \ {0}
      BY <2>2
    <3>4. amount \in Nat
      BY <3>1, <3>2, <3>3, QuoteAmountType DEF Collateral
    <3> QED
      BY <3>4
  <2> HIDE DEF amount, asset
  <2> QED
    BY <1>1, <2>1, <2>2, <2>3, LockStep
<1>2. ASSUME NEW t \in Traders, NEW l \in ListsOf(b), NEW p \in Prices,
             NEW q \in Quantities, PlaceAppend(t, b, l, p, q)
      PROVE  TradeStep
  <2>1. \A c \in Books : /\ book'[c].accrued_quote_fees = book[c].accrued_quote_fees
                         /\ book'[c].live = book[c].live
    BY <1>2 DEF PlaceAppend, TypeOK, BookRecord
  <2> QED
    BY <1>1, <1>2, <2>1 DEF PlaceAppend
<1>3. ASSUME NEW t \in Traders, NEW l \in ListsOf(b), NEW p \in Prices,
             NEW q \in Quantities, NEW better \in LevelHints,
             PlaceNewLevel(t, b, l, p, q, better)
      PROVE  TradeStep
  <2>1. \A c \in Books : /\ book'[c].accrued_quote_fees = book[c].accrued_quote_fees
                         /\ book'[c].live = book[c].live
    BY <1>3 DEF PlaceNewLevel, TypeOK, BookRecord
  <2> QED
    BY <1>1, <1>3, <2>1 DEF PlaceNewLevel
<1> QED
  BY <1>2, <1>3 DEF Place

\* Canceling: the lock of the order is free again.
LEMMA CancelStep ==
    ASSUME SharedTradingAssumption, TypeOK, TypeOK', NEW b \in Books, CancelOrder(b)
    PROVE  TradeStep
<1>1. PICK t \in Traders, i \in Ids : Cancel(t, b, i)
  BY DEF CancelOrder
<1> DEFINE o     == order[b][i]
           asset == LockedAsset(b, o.list)
           lock  == o.locked_collateral
<1>2. ValidOrder(b, i) /\ Removable(b, i)
  BY <1>1 DEF Cancel, Removable
<1>3. lock \in Nat /\ asset \in Assets
  <2>1. o.list \in ListsOf(b) /\ lock \in Nat
    BY <1>2, ValidOrderFunded
  <2> QED
    BY <2>1, AssetTypes
<1>4. /\ claim' = Change(claim, t, asset, lock, -lock)
      /\ book' = [book EXCEPT ![b] = BookWithout(b, i)]
      /\ book[b].live /\ market' = market /\ vault' = vault
  BY <1>1 DEF Cancel
<1>5. BookWithout(b, i).accrued_quote_fees = book[b].accrued_quote_fees
  BY <1>2, TypeParts, BookWithoutType
<1>6. BookWithout(b, i).live = book[b].live
  BY DEF BookWithout, TypeOK, BookRecord
<1>7. \A c \in Books : /\ book'[c].accrued_quote_fees = book[c].accrued_quote_fees
                       /\ book'[c].live = book[c].live
  BY <1>4, <1>5, <1>6 DEF TypeOK
<1> HIDE DEF asset, lock
<1>8. -lock \in Int /\ claim' = Change(claim, t, asset, -(-lock), -lock)
  <2>1. -(-lock) = lock /\ -lock \in Int
    BY <1>3
  <2> QED
    BY <1>4, <2>1
<1> QED
  BY <1>3, <1>4, <1>7, <1>8, LockStep

\* A settlement hands base from one trader to the other and quote the other way,
\* less the fee; of the locks it touches only the maker's, by the debit.
LEMMA SettleMoves ==
    ASSUME SharedTradingAssumption, claim \in Balances, NEW b \in Books,
           NEW t \in Traders, NEW o, o.owner \in Traders, o.list \in ListsOf(b),
           NEW fee \in Nat, NEW plan,
           plan.base \in Nat, plan.quote \in Nat, plan.debit \in Nat, plan.refund \in Nat,
           \/ /\ o.list[2] = "Ask" /\ plan.debit = plan.base
              /\ SettleBuy(t, b, o, plan, fee)
           \/ /\ o.list[2] = "Bid" /\ plan.debit = plan.quote + plan.refund
              /\ SettleSell(t, b, o, plan, fee)
    PROVE  /\ \A x \in Assets : Held(claim', x) = Held(claim, x) + At(x, QuoteOf[b], -fee)
           /\ \A u \in Traders, x \in Assets :
                  claim'[u][x].locked = claim[u][x].locked
                      - AtBalance(u, x, o.owner, LockedAsset(b, o.list), plan.debit)
<1> DEFINE quote == QuoteOf[b]
           base  == ClaimOf[b][o.list[1]]
           u0    == o.owner
           B     == plan.base
           Q     == plan.quote
           D     == plan.debit
           R     == plan.refund
<1>1. quote \in Assets /\ base \in Assets /\ quote # base /\ u0 \in Traders
  BY AssetTypes
<1>2. /\ B \in Int /\ Q \in Int /\ D \in Int /\ R \in Int /\ fee \in Int
      /\ Q + fee \in Int /\ Q - fee \in Int /\ 0 \in Int
  OBVIOUS
<1>3. \A x \in Assets : Held(claim, x) \in Int
  BY HeldType
<1>4. CASE o.list[2] = "Ask" /\ D = B /\ SettleBuy(t, b, o, plan, fee)
  <2> DEFINE pay == Q + fee
  <2>1. claim' = Traded(claim, t, u0, quote, base, pay, B, Q, 0, D)
    BY <1>4 DEF SettleBuy, Traded
  <2>2. LockedAsset(b, o.list) = base
    BY <1>4 DEF LockedAsset
  <2>3. pay \in Int /\ D = B
    BY <1>2, <1>4
  <2>4. Q - pay = -fee
    BY <1>2
  <2> HIDE DEF quote, base, u0, B, Q, D, R, pay
  <2>5. /\ \A x \in Assets : Held(claim', x) =
               Held(claim, x) + At(x, quote, Q - pay) + At(x, base, B + 0 - D)
        /\ \A u \in Traders, x \in Assets :
               claim'[u][x].locked = claim[u][x].locked - AtBalance(u, x, u0, base, D)
    BY <1>1, <1>2, <2>1, <2>3, FillMoves
  <2>6. B + 0 - D = 0
    BY <1>2, <2>3
  <2>7. \A x \in Assets : Held(claim', x) = Held(claim, x) + At(x, quote, -fee)
    BY <1>2, <1>3, <2>4, <2>5, <2>6 DEF At
  <2> QED
    BY <2>2, <2>5, <2>7 DEF quote, u0, D
<1>5. CASE o.list[2] = "Bid" /\ D = Q + R /\ SettleSell(t, b, o, plan, fee)
  <2> DEFINE get == Q - fee
  <2>1. claim' = Traded(claim, t, u0, base, quote, B, get, B, R, D)
    BY <1>5 DEF SettleSell, Traded
  <2>2. LockedAsset(b, o.list) = quote
    BY <1>5 DEF LockedAsset
  <2>3. get \in Int /\ D = Q + R
    BY <1>2, <1>5
  <2>4. get + R - D = -fee
    BY <1>2, <2>3
  <2> HIDE DEF quote, base, u0, B, Q, D, R, get
  <2>5. /\ \A x \in Assets : Held(claim', x) =
               Held(claim, x) + At(x, base, B - B) + At(x, quote, get + R - D)
        /\ \A u \in Traders, x \in Assets :
               claim'[u][x].locked = claim[u][x].locked - AtBalance(u, x, u0, quote, D)
    BY <1>1, <1>2, <2>1, <2>3, FillMoves
  <2>6. B - B = 0
    BY <1>2
  <2>7. \A x \in Assets : Held(claim', x) = Held(claim, x) + At(x, quote, -fee)
    BY <1>2, <1>3, <2>4, <2>5, <2>6 DEF At
  <2> QED
    BY <2>2, <2>5, <2>7 DEF quote, u0, D
<1> QED
  BY <1>4, <1>5

\* What a fill takes from its maker is what the other trader gets for it and
\* what comes back: of an ask the base, of a bid the quote and the remainder,
\* and all that was locked when the order is filled.
LEMMA DebitSplits ==
    ASSUME SharedTradingAssumption, TypeOK, NEW b \in Books, NEW i \in Ids,
           ValidOrder(b, i), NEW q \in Quantities, NEW o, o = order[b][i], NEW plan,
           plan = Settlement(Scale[b], o.list[2], o.price, q,
                             o.remaining_quantity, o.locked_collateral),
           plan.debit \in Nat, plan.quote \in Nat
    PROVE  /\ o.list[2] = "Ask" => plan.debit = plan.base
           /\ o.list[2] = "Bid" => plan.debit = plan.quote + plan.refund
           /\ plan.fully_filled => plan.debit = o.locked_collateral
<1> DEFINE base  == FillBase(q, o.remaining_quantity)
           quote == QuoteAmount(Scale[b], o.price, base)
           full  == base = o.remaining_quantity
           debit == MakerDebit(o.list[2], base, quote, full, o.locked_collateral)
<1>1. /\ plan.base = base /\ plan.quote = quote /\ plan.debit = debit
      /\ plan.refund = IF o.list[2] = "Ask" THEN 0 ELSE debit - quote
      /\ plan.fully_filled = full
  BY DEF Settlement
<1>2. o.list[2] \in Sides
  BY ValidOrderFunded, AssetTypes
<1>3. CASE o.list[2] = "Ask"
  <2>1. debit = base
    BY <1>3 DEF MakerDebit
  <2>2. o.locked_collateral = o.remaining_quantity
    BY <1>3 DEF ValidOrder, Collateral
  <2> HIDE DEF base, quote, debit
  <2> QED
    BY <1>1, <1>3, <2>1, <2>2
<1>4. CASE o.list[2] = "Bid"
  <2>1. full => debit = o.locked_collateral
    BY <1>4 DEF MakerDebit
  <2> HIDE DEF base, quote, debit, full
  <2>2. plan.refund = plan.debit - plan.quote
    BY <1>1, <1>4
  <2>3. plan.debit = plan.quote + plan.refund
    BY <2>2
  <2> QED
    BY <1>1, <1>4, <2>1, <2>3
<1> QED
  BY <1>2, <1>3, <1>4 DEF Sides

\* A fill moves the fee out of the claims, and its debit out of the maker's lock.
LEMMA FillClaims ==
    ASSUME SharedTradingAssumption, TypeOK,
           NEW t \in Traders, NEW b \in Books, NEW l \in ListsOf(b), NEW limit \in Prices,
           NEW q \in Quantities, NEW bps \in FeeRates, NEW i \in Ids,
           Match(t, b, l, limit, q, bps, i)
    PROVE  LET o    == order[b][i]
               plan == Settlement(Scale[b], o.list[2], o.price, q,
                                  o.remaining_quantity, o.locked_collateral)
               fee  == TakerFee(plan.quote, bps)
           IN  /\ fee \in Nat /\ plan.debit \in Nat /\ o.locked_collateral - plan.debit \in Nat
               /\ o.owner \in Traders /\ o.list \in ListsOf(b)
               /\ plan.fully_filled => plan.debit = o.locked_collateral
               /\ \A x \in Assets : Held(claim', x) = Held(claim, x) + At(x, QuoteOf[b], -fee)
               /\ \A u \in Traders, x \in Assets :
                      claim'[u][x].locked = claim[u][x].locked
                          - AtBalance(u, x, o.owner, LockedAsset(b, o.list), plan.debit)
<1> DEFINE o    == order[b][i]
           plan == Settlement(Scale[b], o.list[2], o.price, q,
                              o.remaining_quantity, o.locked_collateral)
           fee  == TakerFee(plan.quote, bps)
<1>1. ValidOrder(b, i)
  BY DEF Match, MatchableMaker
<1>2. o.owner \in Traders /\ o.list \in ListsOf(b)
  BY <1>1, ValidOrderFunded
<1>3. /\ plan.base \in Nat /\ plan.quote \in Nat /\ plan.debit \in Nat /\ plan.refund \in Nat
      /\ fee \in Nat /\ o.locked_collateral - plan.debit \in Nat
  BY <1>1, FillPlan
<1>4. /\ o.list[2] = "Ask" => plan.debit = plan.base
      /\ o.list[2] = "Bid" => plan.debit = plan.quote + plan.refund
      /\ plan.fully_filled => plan.debit = o.locked_collateral
  BY <1>1, <1>3, DebitSplits
<1>5. /\ l[2] # o.list[2]
      /\ IF l[2] = "Bid" THEN SettleBuy(t, b, o, plan, fee) ELSE SettleSell(t, b, o, plan, fee)
  BY DEF Match, Settles
<1> HIDE DEF o, plan, fee
<1>6. o.list[2] \in Sides /\ l[2] \in Sides
  BY <1>2, AssetTypes
<1>7. \/ /\ o.list[2] = "Ask" /\ plan.debit = plan.base
         /\ SettleBuy(t, b, o, plan, fee)
      \/ /\ o.list[2] = "Bid" /\ plan.debit = plan.quote + plan.refund
         /\ SettleSell(t, b, o, plan, fee)
  BY <1>4, <1>5, <1>6 DEF Sides
<1>8. /\ \A x \in Assets : Held(claim', x) = Held(claim, x) + At(x, QuoteOf[b], -fee)
      /\ \A u \in Traders, x \in Assets :
             claim'[u][x].locked = claim[u][x].locked
                 - AtBalance(u, x, o.owner, LockedAsset(b, o.list), plan.debit)
  <2>1. claim \in Balances
    BY TypeParts, ClaimsAreBalances
  <2> QED
    BY <1>2, <1>3, <1>7, <2>1, SettleMoves
<1> QED
  BY <1>2, <1>3, <1>4, <1>8 DEF o, plan, fee

\* Matching: the fee is owed by the book from then on.
LEMMA FillStep ==
    ASSUME SharedTradingAssumption, TypeOK, TypeOK', NEW b \in Books, MatchOrder(b)
    PROVE  TradeStep
<1>1. PICK i \in Ids, t \in Traders, l \in ListsOf(b), limit \in Prices,
           q \in Quantities, bps \in FeeRates : Match(t, b, l, limit, q, bps, i)
  BY DEF MatchOrder
<1> DEFINE o    == order[b][i]
           plan == Settlement(Scale[b], o.list[2], o.price, q,
                              o.remaining_quantity, o.locked_collateral)
           fee  == TakerFee(plan.quote, bps)
<1>2. /\ fee \in Nat
      /\ \A x \in Assets : Held(claim', x) = Held(claim, x) + At(x, QuoteOf[b], -fee)
  <2>1. Match(t, b, l, limit, q, bps, i) =>
            /\ fee \in Nat
            /\ \A x \in Assets : Held(claim', x) = Held(claim, x) + At(x, QuoteOf[b], -fee)
    BY FillClaims
  <2> QED
    BY <1>1, <2>1
<1>3. /\ market' = market /\ vault' = vault /\ book[b].live
      /\ \/ /\ Removable(b, i)
            /\ book' = [book EXCEPT ![b] = [BookWithout(b, i) EXCEPT
                           !.accrued_quote_fees = book[b].accrued_quote_fees + fee]]
         \/ book' = [book EXCEPT ![b].accrued_quote_fees = @ + fee]
  BY <1>1 DEF Match, TradingOpen
<1> HIDE DEF fee
<1>4. /\ book \in [Books -> BookRecord] /\ book' \in [Books -> BookRecord]
      /\ book[b].accrued_quote_fees \in Nat
  BY DEF TypeOK, BookRecord
<1>5. /\ book'[b].accrued_quote_fees = book[b].accrued_quote_fees + fee
      /\ book'[b].live = book[b].live
      /\ \A c \in Books : c # b => book'[c] = book[c]
  <2>1. CASE Removable(b, i) /\ book' = [book EXCEPT ![b] = [BookWithout(b, i) EXCEPT
                           !.accrued_quote_fees = book[b].accrued_quote_fees + fee]]
    <3>1. BookWithout(b, i) \in BookRecord /\ BookWithout(b, i).live = book[b].live
      <4>1. BookWithout(b, i) \in BookRecord
        BY <2>1, TypeParts, BookWithoutType
      <4> QED
        BY <1>4, <4>1 DEF BookWithout, BookRecord
    <3>2. /\ book'[b] = [BookWithout(b, i) EXCEPT
                           !.accrued_quote_fees = book[b].accrued_quote_fees + fee]
          /\ \A c \in Books : c # b => book'[c] = book[c]
      BY <1>4, <2>1
    <3> QED
      BY <3>1, <3>2 DEF BookRecord
  <2>2. CASE book' = [book EXCEPT ![b].accrued_quote_fees = @ + fee]
    BY <1>4, <2>2 DEF BookRecord
  <2> QED
    BY <1>3, <2>1, <2>2
<1>6. \A m \in Mints : FeesOwed(book', m) = FeesOwed(book, m) + At(m, QuoteOf[b], fee)
  <2>1. book'[b].accrued_quote_fees - book[b].accrued_quote_fees = fee
    BY <1>2, <1>4, <1>5
  <2>2. \A c \in Books : c # b => book'[c].accrued_quote_fees = book[c].accrued_quote_fees
    BY <1>5
  <2>3. \A m \in Mints : FeesOwed(book', m) = FeesOwed(book, m)
            + At(m, QuoteOf[b], book'[b].accrued_quote_fees - book[b].accrued_quote_fees)
    <3>1. \A f, g \in [Books -> BookRecord] : \A c \in Books :
              (\A d \in Books : d # c => g[d].accrued_quote_fees = f[d].accrued_quote_fees)
              => \A m \in Mints : FeesOwed(g, m) = FeesOwed(f, m)
                    + At(m, QuoteOf[c], g[c].accrued_quote_fees - f[c].accrued_quote_fees)
      BY FeesMove
    <3> QED
      BY <1>4, <2>2, <3>1
  <2> QED
    BY <2>1, <2>3
<1>7. \A c \in Books : /\ book'[c].live = book[c].live
                       /\ c # b => book'[c].accrued_quote_fees = book[c].accrued_quote_fees
  BY <1>5
<1> QED
  BY <1>2, <1>3, <1>6, <1>7 DEF TradeStep

-----------------------------------------------------------------------------
(* Everything else *)

\* Real tokens in or out of a vault, and the claim with them.
TransferStep ==
    \E t \in Traders, m \in Mints, d \in Int :
        /\ claim' = Change(claim, t, m, d, 0)
        /\ \A n \in Mints : vault'[n] = vault[n] + At(n, m, d)
        /\ book' = book /\ order' = order /\ market' = market

\* Cash into or out of a question, and its contracts with it.
SetStep ==
    \E t \in Traders, b \in PredictionBooks, cash, yes, no \in Int :
        /\ claim' = ChangeSet(t, b, cash, yes, no)
        /\ \A n \in Mints : vault'[n] = vault[n] + At(n, QuoteOf[b], cash)
        /\ \A c \in PredictionBooks :
               /\ market'[c].yes_supply = market[c].yes_supply + At(c, b, yes)
               /\ market'[c].no_supply = market[c].no_supply + At(c, b, no)
        /\ book' = book /\ order' = order

\* Fees go to the administrators.
FeeStep ==
    \E b \in Books, amount \in Int :
        /\ book[b].live
        /\ \A c \in Books :
               /\ book'[c].live = book[c].live
               /\ book'[c].accrued_quote_fees = book[c].accrued_quote_fees + At(c, b, -amount)
        /\ \A n \in Mints : vault'[n] = vault[n] + At(n, QuoteOf[b], -amount)
        /\ claim' = claim /\ order' = order /\ market' = market

\* No money moves.  A root that closes has no fees, and neither has a new one.
QuietStep ==
    /\ claim' = claim /\ vault' = vault /\ order' = order
    /\ \A b \in Books :
           \/ /\ book'[b].accrued_quote_fees = book[b].accrued_quote_fees
              /\ book'[b].live = book[b].live
           \/ /\ book'[b].accrued_quote_fees = 0
              /\ ~book[b].live \/ book[b].accrued_quote_fees = 0
    /\ \A b \in PredictionBooks : /\ market'[b].yes_supply = market[b].yes_supply
                                  /\ market'[b].no_supply = market[b].no_supply

\* Deposits and withdrawals.
LEMMA TransferIs ==
    ASSUME SharedTradingAssumption, TypeOK, Custody
    PROVE  TransferStep
<1>1. PICK t \in Traders, m \in Mints, amount \in TransferAmounts :
          Deposit(t, m, amount) \/ Withdraw(t, m, amount)
  BY DEF Custody
<1>2. amount \in Nat /\ vault \in [Mints -> Nat]
  BY DEF SharedTradingAssumption, TypeOK
<1>3. CASE Deposit(t, m, amount)
  <2>1. /\ claim' = Change(claim, t, m, amount, 0)
        /\ \A n \in Mints : vault'[n] = vault[n] + At(n, m, amount)
        /\ book' = book /\ order' = order /\ market' = market
    BY <1>2, <1>3 DEF Deposit, At
  <2>2. amount \in Int
    BY <1>2
  <2> QED
    BY <2>1, <2>2 DEF TransferStep
<1>4. CASE Withdraw(t, m, amount)
  <2> DEFINE d == -amount
  <2>1. /\ claim' = Change(claim, t, m, d, 0)
        /\ \A n \in Mints : vault'[n] = vault[n] + At(n, m, d)
        /\ book' = book /\ order' = order /\ market' = market
    BY <1>2, <1>4 DEF Withdraw, At
  <2>2. d \in Int
    BY <1>2
  <2> HIDE DEF d
  <2> QED
    BY <2>1, <2>2 DEF TransferStep
<1> QED
  BY <1>1, <1>3, <1>4

\* Splitting, merging and redeeming.
LEMMA SetIs ==
    ASSUME SharedTradingAssumption, TypeOK, NEW b \in PredictionBooks, CompleteSets(b)
    PROVE  SetStep
<1>1. /\ b \in Books /\ QuoteOf[b] \in Mints /\ Payout[b] \in Nat
      /\ market[b] \in MarketRecord /\ market \in [Books -> MarketRecord]
      /\ PredictionBooks \subseteq Books
  BY DEF SharedTradingAssumption, Books, TypeOK
<1>2. ASSUME NEW t \in Traders, NEW cash \in Int, NEW yes \in Int, NEW no \in Int,
             NEW back \in Int,
             vault' = [vault EXCEPT ![QuoteOf[b]] = @ + cash],
             claim' = ChangeSet(t, b, cash, yes, no),
             market' = [market EXCEPT ![b] = ChangeReserve(market[b], back, yes, no)],
             book' = book, order' = order
      PROVE  SetStep
  <2>1. \A n \in Mints : vault'[n] = vault[n] + At(n, QuoteOf[b], cash)
    BY <1>1, <1>2 DEF TypeOK, At
  <2>2. ASSUME NEW c \in PredictionBooks
        PROVE  /\ market'[c].yes_supply = market[c].yes_supply + At(c, b, yes)
               /\ market'[c].no_supply = market[c].no_supply + At(c, b, no)
    <3>1. market[c].yes_supply \in Nat /\ market[c].no_supply \in Nat
      BY <1>1 DEF MarketRecord
    <3>2. CASE c = b
      <4>1. market'[c] = ChangeReserve(market[b], back, yes, no)
        BY <1>1, <1>2, <3>2
      <4>2. /\ market'[c].yes_supply = market[b].yes_supply + yes
            /\ market'[c].no_supply = market[b].no_supply + no
        BY <1>1, <4>1 DEF ChangeReserve, MarketRecord
      <4> QED
        BY <3>2, <4>2 DEF At
    <3>3. CASE c # b
      <4>1. market'[c] = market[c]
        BY <1>1, <1>2, <3>3
      <4> QED
        BY <3>1, <3>3, <4>1 DEF At
    <3> QED
      BY <3>2, <3>3
  <2> QED
    BY <1>2, <2>1, <2>2 DEF SetStep
<1>3. ASSUME NEW q \in Quantities PROVE q \in Int /\ q * Payout[b] \in Int /\ q \in Nat
  <2>1. q \in Nat
    BY DEF SharedTradingAssumption
  <2> QED
    BY <1>1, <2>1
<1>4. ASSUME NEW t \in Traders, NEW q \in Quantities, Split(t, b, q) PROVE SetStep
  <2> DEFINE cost == q * Payout[b]
             moved == -cost
  <2>1. /\ vault' = [vault EXCEPT ![QuoteOf[b]] = @ - cost]
        /\ claim' = ChangeSet(t, b, moved, q, q)
        /\ market' = [market EXCEPT ![b] = ChangeReserve(market[b], cost, q, q)]
        /\ book' = book /\ order' = order
    BY <1>4 DEF Split
  <2>2. cost \in Int /\ moved \in Int /\ q \in Int
    BY <1>3
  <2>3. vault[QuoteOf[b]] - cost = vault[QuoteOf[b]] + moved
    BY <1>1, <2>2 DEF TypeOK
  <2> HIDE DEF cost, moved
  <2> QED
    BY <1>2, <2>1, <2>2, <2>3
<1>5. ASSUME NEW t \in Traders, NEW q \in Quantities, Merge(t, b, q) PROVE SetStep
  <2> DEFINE cost == q * Payout[b]
             back == -cost
             less == -q
  <2>1. /\ vault' = [vault EXCEPT ![QuoteOf[b]] = @ + cost]
        /\ claim' = ChangeSet(t, b, cost, less, less)
        /\ market' = [market EXCEPT ![b] = ChangeReserve(market[b], back, less, less)]
        /\ book' = book /\ order' = order
    BY <1>5 DEF Merge
  <2>2. cost \in Int /\ back \in Int /\ less \in Int
    BY <1>3
  <2> HIDE DEF cost, back, less
  <2> QED
    BY <1>2, <2>1, <2>2
<1>6. ASSUME NEW t \in Traders, NEW yes \in Quantities \cup {0},
             NEW no \in Quantities \cup {0}, Redeem(t, b, yes, no)
      PROVE  SetStep
  <2> DEFINE amount == PayoutOf(b, market[b].final_outcome, yes, no)
             back   == -amount
             y      == -yes
             n      == -no
  <2>1. /\ vault' = [vault EXCEPT ![QuoteOf[b]] = @ + amount]
        /\ claim' = ChangeSet(t, b, amount, y, n)
        /\ market' = [market EXCEPT ![b] = ChangeReserve(market[b], back, y, n)]
        /\ book' = book /\ order' = order
    BY <1>6 DEF Redeem
  <2>2. yes \in Nat /\ no \in Nat
    BY <1>3
  <2>3. market[b].final_outcome \in Outcomes
    <3>1. market[b].status = "Resolved"
      BY <1>6 DEF Redeem
    <3> QED
      BY <1>1, <3>1 DEF TypeOK, MarketRecord
  <2>4. amount \in Nat
    BY <2>2, <2>3, PayoutType
  <2> HIDE DEF amount
  <2>5. amount \in Int /\ back \in Int /\ y \in Int /\ n \in Int
    BY <2>2, <2>4
  <2> HIDE DEF back, y, n
  <2> QED
    BY <1>2, <2>1, <2>5
<1> QED
  BY <1>4, <1>5, <1>6 DEF CompleteSets

\* Roots created, closed, and asked for their fees.
LEMMA AdministrationIs ==
    ASSUME SharedTradingAssumption, TypeOK, NEW b \in Books, Administration(b)
    PROVE  FeeStep \/ QuietStep
<1>1. /\ book \in [Books -> BookRecord] /\ book[b] \in BookRecord
      /\ \A c \in Books : book[c].accrued_quote_fees \in Nat
      /\ QuoteOf[b] \in Mints /\ vault \in [Mints -> Nat]
  BY DEF TypeOK, BookRecord, SharedTradingAssumption
<1>2. CASE InitializeBook(b)
  <2>1. /\ \A c \in Books : c # b => book'[c] = book[c]
        /\ book'[b].accrued_quote_fees = 0 /\ ~book[b].live
    BY <1>1, <1>2 DEF InitializeBook, EmptyBook
  <2> QED
    BY <1>2, <2>1 DEF InitializeBook, QuietStep
<1>3. CASE CloseBook(b)
  <2>1. /\ \A c \in Books : c # b => book'[c] = book[c]
        /\ book[b].accrued_quote_fees = 0 /\ book'[b].accrued_quote_fees = 0
    BY <1>1, <1>3 DEF CloseBook, BookRecord
  <2> QED
    BY <1>3, <2>1 DEF CloseBook, QuietStep
<1>4. ASSUME NEW amount \in 1 .. book[b].accrued_quote_fees, WithdrawFees(b, amount)
      PROVE  FeeStep
  <2>1. amount \in Int
    OBVIOUS
  <2>2. /\ \A c \in Books : c # b => book'[c] = book[c]
        /\ book'[b].accrued_quote_fees = book[b].accrued_quote_fees - amount
        /\ book'[b].live = book[b].live
    BY <1>1, <1>4 DEF WithdrawFees, BookRecord
  <2>3. \A c \in Books :
            /\ book'[c].live = book[c].live
            /\ book'[c].accrued_quote_fees = book[c].accrued_quote_fees + At(c, b, -amount)
    BY <1>1, <2>1, <2>2 DEF At
  <2>4. \A n \in Mints : vault'[n] = vault[n] + At(n, QuoteOf[b], -amount)
    BY <1>1, <1>4, <2>1 DEF WithdrawFees, At
  <2> QED
    BY <1>4, <2>1, <2>3, <2>4 DEF FeeStep, WithdrawFees
<1> QED
  BY <1>2, <1>3, <1>4 DEF Administration

\* A change of a market's status moves nothing.
LEMMA StatusIs ==
    ASSUME TypeOK, NEW b \in Books,
           \/ PauseMarket(b) \/ UnpauseMarket(b)
           \/ \E phase \in Phases, final \in Outcomes \cup {Undecided} :
                  AdvanceMarket(b, phase, final)
    PROVE  QuietStep
<1>1. \A c \in Books : /\ market'[c].yes_supply = market[c].yes_supply
                       /\ market'[c].no_supply = market[c].no_supply
  <2>1. market[b] \in MarketRecord /\ market \in [Books -> MarketRecord]
    BY DEF TypeOK
  <2>2. CASE PauseMarket(b) \/ UnpauseMarket(b)
    BY <2>1, <2>2 DEF PauseMarket, UnpauseMarket, MarketRecord
  <2>3. ASSUME NEW phase, NEW final, AdvanceMarket(b, phase, final)
        PROVE  \A c \in Books : /\ market'[c].yes_supply = market[c].yes_supply
                                /\ market'[c].no_supply = market[c].no_supply
    <3>1. market' = [market EXCEPT ![b].status = phase, ![b].final_outcome = final]
      BY <2>3 DEF AdvanceMarket
    <3>2. market'[b] = [market[b] EXCEPT !.status = phase, !.final_outcome = final]
      BY <2>1, <3>1
    <3>3. \A c \in Books : c # b => market'[c] = market[c]
      BY <2>1, <3>1
    <3>4. market'[b].yes_supply = market[b].yes_supply /\ market'[b].no_supply = market[b].no_supply
      BY <2>1, <3>2 DEF MarketRecord
    <3> QED
      BY <3>3, <3>4
  <2> QED
    BY <2>2, <2>3
<1>2. claim' = claim /\ vault' = vault /\ order' = order /\ book' = book
  BY DEF PauseMarket, UnpauseMarket, AdvanceMarket
<1> QED
  BY <1>1, <1>2 DEF QuietStep, Books

\* Every step is one of the five.
LEMMA StepIs ==
    ASSUME SharedTradingAssumption, TypeOK, [Next]_vars
    PROVE  \/ TradeStep /\ \E b \in Books : Place(b) \/ CancelOrder(b) \/ MatchOrder(b)
           \/ TransferStep \/ SetStep \/ FeeStep \/ QuietStep
<1>1. TypeOK'
  BY NextType
<1>2. ASSUME NEW b \in Books, Place(b) \/ CancelOrder(b) \/ MatchOrder(b)
      PROVE  TradeStep
  BY <1>1, <1>2, PlaceStep, CancelStep, FillStep
<1>3. PredictionBooks \subseteq Books /\ SpotBooks \subseteq Books
  BY DEF Books
<1>4. CASE UNCHANGED vars
  BY <1>4 DEF vars, QuietStep
<1>5. CASE Custody
  BY <1>5, TransferIs
<1>6. ASSUME NEW b \in Books, Administration(b) PROVE FeeStep \/ QuietStep
  BY <1>6, AdministrationIs
<1>7. ASSUME NEW b \in PredictionBooks, CompleteSets(b) PROVE SetStep
  BY <1>7, SetIs
<1>8. ASSUME NEW b \in SpotBooks, PauseMarket(b) \/ UnpauseMarket(b) PROVE QuietStep
  BY <1>3, <1>8, StatusIs
<1>9. ASSUME NEW b \in PredictionBooks,
             \E phase \in Phases, final \in Outcomes \cup {Undecided} :
                 AdvanceMarket(b, phase, final)
      PROVE  QuietStep
  BY <1>3, <1>9, StatusIs
<1> QED
  BY <1>2, <1>4, <1>5, <1>6, <1>7, <1>8, <1>9 DEF Next

-----------------------------------------------------------------------------
(* The vaults *)

\* A root that is closed owes no fees: it is closed only without them.
ClosedOwesNoFees == \A b \in Books : ~book[b].live => book[b].accrued_quote_fees = 0

CustodyInv == CustodyBacked /\ ClosedOwesNoFees

\* The custody invariant survives each kind of step.
LEMMA TradeBacked ==
    ASSUME SharedTradingAssumption, TypeOK, CustodyInv, TradeStep
    PROVE  CustodyInv'
<1>1. PICK b \in Books, fee \in Nat :
        /\ \A x \in Assets : Held(claim', x) = Held(claim, x) + At(x, QuoteOf[b], -fee)
        /\ \A m \in Mints : FeesOwed(book', m) = FeesOwed(book, m) + At(m, QuoteOf[b], fee)
        /\ market' = market /\ vault' = vault
        /\ book[b].live
        /\ \A c \in Books : /\ book'[c].live = book[c].live
                            /\ c # b => book'[c].accrued_quote_fees = book[c].accrued_quote_fees
  BY Zenon DEF TradeStep
<1>2. ASSUME NEW m \in Mints
      PROVE  vault'[m] = Held(claim', m) + FeesOwed(book', m)
  <2>1. m \in Assets
    BY DEF SharedTradingAssumption
  <2>2. /\ Held(claim, m) \in Int /\ FeesOwed(book, m) \in Int
        /\ vault[m] = Held(claim, m) + FeesOwed(book, m)
    <3>1. claim \in Balances /\ book \in [Books -> BookRecord]
      BY TypeParts, ClaimsAreBalances DEF TypeOK
    <3> QED
      BY <2>1, <3>1, HeldType, OwedType DEF CustodyInv, CustodyBacked
  <2>3. At(m, QuoteOf[b], -fee) + At(m, QuoteOf[b], fee) = 0
    BY DEF At
  <2>4. At(m, QuoteOf[b], -fee) \in Int /\ At(m, QuoteOf[b], fee) \in Int
    BY DEF At
  <2>5. /\ Held(claim', m) = Held(claim, m) + At(m, QuoteOf[b], -fee)
        /\ FeesOwed(book', m) = FeesOwed(book, m) + At(m, QuoteOf[b], fee)
        /\ vault'[m] = vault[m]
    BY <1>1, <2>1
  <2> QED
    BY <2>2, <2>3, <2>4, <2>5
<1>3. ASSUME NEW c \in Books, ~book'[c].live
      PROVE  book'[c].accrued_quote_fees = 0
  <2>0. /\ book'[c].live = book[c].live /\ book[b].live
        /\ c # b => book'[c].accrued_quote_fees = book[c].accrued_quote_fees
    BY <1>1
  <2>1. c # b /\ ~book[c].live
    BY <1>3, <2>0
  <2>2. book[c].accrued_quote_fees = 0
    BY <2>1, Zenon DEF CustodyInv, ClosedOwesNoFees
  <2> QED
    BY <2>0, <2>1, <2>2
<1> QED
  BY <1>2, <1>3 DEF CustodyInv, CustodyBacked, ClosedOwesNoFees

\* A deposit or a withdrawal keeps custody backed.
LEMMA TransferBacked ==
    ASSUME SharedTradingAssumption, TypeOK, CustodyInv, TransferStep
    PROVE  CustodyInv'
<1>1. PICK t \in Traders, n \in Mints, d \in Int :
        /\ claim' = Change(claim, t, n, d, 0)
        /\ \A m \in Mints : vault'[m] = vault[m] + At(m, n, d)
        /\ book' = book /\ order' = order /\ market' = market
  BY Zenon DEF TransferStep
<1>2. claim \in Balances /\ book \in [Books -> BookRecord] /\ Mints \subseteq Assets
  BY TypeParts, ClaimsAreBalances DEF TypeOK, SharedTradingAssumption
<1>3. \A x \in Assets : Held(claim', x) = Held(claim, x) + At(x, n, d + 0)
  BY <1>1, <1>2, ChangeMoves
<1>4. ASSUME NEW m \in Mints
      PROVE  vault'[m] = Held(claim', m) + FeesOwed(book', m)
  <2>1. /\ Held(claim, m) \in Int /\ FeesOwed(book, m) \in Int
        /\ vault[m] = Held(claim, m) + FeesOwed(book, m)
    BY <1>2, HeldType, OwedType DEF CustodyInv, CustodyBacked
  <2>2. /\ Held(claim', m) = Held(claim, m) + At(m, n, d + 0)
        /\ vault'[m] = vault[m] + At(m, n, d)
        /\ FeesOwed(book', m) = FeesOwed(book, m)
    BY <1>1, <1>2, <1>3
  <2>3. At(m, n, d + 0) = At(m, n, d) /\ At(m, n, d) \in Int
    BY DEF At
  <2> QED
    BY <2>1, <2>2, <2>3
<1>5. ClosedOwesNoFees'
  BY <1>1 DEF CustodyInv, ClosedOwesNoFees
<1> QED
  BY <1>4, <1>5 DEF CustodyInv, CustodyBacked

\* Complete sets and redemption keep custody backed.
LEMMA SetBacked ==
    ASSUME SharedTradingAssumption, TypeOK, CustodyInv, SetStep
    PROVE  CustodyInv'
<1>1. PICK t \in Traders, b \in PredictionBooks, cash, yes, no \in Int :
        /\ claim' = ChangeSet(t, b, cash, yes, no)
        /\ \A m \in Mints : vault'[m] = vault[m] + At(m, QuoteOf[b], cash)
        /\ book' = book
  BY DEF SetStep
<1>2. claim \in Balances /\ book \in [Books -> BookRecord] /\ Mints \subseteq Assets
  BY TypeParts, ClaimsAreBalances DEF TypeOK, SharedTradingAssumption
<1>3. \A x \in Assets : Held(claim', x) = Held(claim, x) + At(x, QuoteOf[b], cash)
                + At(x, ClaimOf[b]["Yes"], yes) + At(x, ClaimOf[b]["No"], no)
  BY <1>1, <1>2, SetMoves
<1>4. ASSUME NEW m \in Mints
      PROVE  vault'[m] = Held(claim', m) + FeesOwed(book', m)
  <2>1. /\ Held(claim, m) \in Int /\ FeesOwed(book, m) \in Int
        /\ vault[m] = Held(claim, m) + FeesOwed(book, m)
    BY <1>2, HeldType, OwedType DEF CustodyInv, CustodyBacked
  <2>2. At(m, ClaimOf[b]["Yes"], yes) = 0 /\ At(m, ClaimOf[b]["No"], no) = 0
    BY DEF At, SharedTradingAssumption
  <2>3. /\ vault'[m] = vault[m] + At(m, QuoteOf[b], cash)
        /\ Held(claim', m) = Held(claim, m) + At(m, QuoteOf[b], cash) + 0 + 0
        /\ FeesOwed(book', m) = FeesOwed(book, m)
    BY <1>1, <1>2, <1>3, <2>2
  <2>4. At(m, QuoteOf[b], cash) \in Int
    BY DEF At
  <2> QED
    BY <2>1, <2>3, <2>4
<1>5. ClosedOwesNoFees'
  BY <1>1 DEF CustodyInv, ClosedOwesNoFees
<1> QED
  BY <1>4, <1>5 DEF CustodyInv, CustodyBacked

\* Fees taken by an administrator keep custody backed.
LEMMA FeeBacked ==
    ASSUME SharedTradingAssumption, TypeOK, TypeOK', CustodyInv, FeeStep
    PROVE  CustodyInv'
<1>1. PICK b \in Books, amount \in Int :
        /\ book[b].live
        /\ \A c \in Books :
               /\ book'[c].live = book[c].live
               /\ book'[c].accrued_quote_fees = book[c].accrued_quote_fees + At(c, b, -amount)
        /\ \A n \in Mints : vault'[n] = vault[n] + At(n, QuoteOf[b], -amount)
        /\ claim' = claim
  BY DEF FeeStep
<1>2. /\ claim \in Balances /\ Mints \subseteq Assets
      /\ book \in [Books -> BookRecord] /\ book' \in [Books -> BookRecord]
      /\ \A c \in Books : book[c].accrued_quote_fees \in Int
  BY TypeParts, ClaimsAreBalances DEF TypeOK, SharedTradingAssumption, BookRecord
<1>3. /\ \A c \in Books : c # b => book'[c].accrued_quote_fees = book[c].accrued_quote_fees
      /\ book'[b].accrued_quote_fees - book[b].accrued_quote_fees = -amount
  BY <1>1, <1>2 DEF At
<1>4. \A m \in Mints : FeesOwed(book', m) = FeesOwed(book, m)
          + At(m, QuoteOf[b], book'[b].accrued_quote_fees - book[b].accrued_quote_fees)
  <2>1. \A f, g \in [Books -> BookRecord] : \A c \in Books :
            (\A d \in Books : d # c => g[d].accrued_quote_fees = f[d].accrued_quote_fees)
            => \A m \in Mints : FeesOwed(g, m) = FeesOwed(f, m)
                  + At(m, QuoteOf[c], g[c].accrued_quote_fees - f[c].accrued_quote_fees)
    BY FeesMove
  <2> QED
    BY <1>2, <1>3, <2>1
<1>5. ASSUME NEW m \in Mints
      PROVE  vault'[m] = Held(claim', m) + FeesOwed(book', m)
  <2>1. /\ Held(claim, m) \in Int /\ FeesOwed(book, m) \in Int
        /\ vault[m] = Held(claim, m) + FeesOwed(book, m)
    BY <1>2, HeldType, OwedType DEF CustodyInv, CustodyBacked
  <2>2. /\ vault'[m] = vault[m] + At(m, QuoteOf[b], -amount)
        /\ FeesOwed(book', m) = FeesOwed(book, m) + At(m, QuoteOf[b], -amount)
        /\ Held(claim', m) = Held(claim, m)
    BY <1>1, <1>3, <1>4
  <2>3. At(m, QuoteOf[b], -amount) \in Int
    BY DEF At
  <2> QED
    BY <2>1, <2>2, <2>3
<1>6. ClosedOwesNoFees'
  BY <1>1, <1>3 DEF CustodyInv, ClosedOwesNoFees
<1> QED
  BY <1>5, <1>6 DEF CustodyInv, CustodyBacked

\* What moves no amount keeps custody backed.
LEMMA QuietBacked ==
    ASSUME SharedTradingAssumption, TypeOK, TypeOK', CustodyInv, QuietStep
    PROVE  CustodyInv'
<1>1. \A b \in Books : book'[b].accrued_quote_fees = book[b].accrued_quote_fees
  BY DEF QuietStep, CustodyInv, ClosedOwesNoFees
<1>2. book \in [Books -> BookRecord] /\ book' \in [Books -> BookRecord]
  BY DEF TypeOK
<1>3. \A m \in Mints : FeesOwed(book', m) = FeesOwed(book, m)
  BY <1>1, <1>2, FeesStay
<1>4. CustodyBacked'
  BY <1>3 DEF CustodyInv, CustodyBacked, QuietStep
<1>5. ClosedOwesNoFees'
  BY <1>1 DEF QuietStep, CustodyInv, ClosedOwesNoFees
<1> QED
  BY <1>4, <1>5 DEF CustodyInv

\* The vaults start empty and nothing is owed.
LEMMA InitBacked ==
    ASSUME SharedTradingAssumption, Init
    PROVE  CustodyInv
<1>1. ASSUME NEW m \in Mints
      PROVE  Held(claim, m) = 0 /\ FeesOwed(book, m) = 0 /\ vault[m] = 0
  <2> DEFINE f == [t \in Traders |-> claim[t][m].free + claim[t][m].locked]
             g == [b \in Books |-> IF QuoteOf[b] = m THEN book[b].accrued_quote_fees ELSE 0]
  <2>1. f \in [Traders -> Int] /\ \A t \in Traders : f[t] = 0
    <3>1. \A t \in Traders : claim[t][m].free = 0 /\ claim[t][m].locked = 0
      BY DEF Init, SharedTradingAssumption
    <3> QED
      BY <3>1
  <2>2. g \in [Books -> Int] /\ \A b \in Books : g[b] = 0
    <3>1. \A b \in Books : book[b].accrued_quote_fees = 0
      BY DEF Init, EmptyBook
    <3> QED
      BY <3>1
  <2>3. IsFiniteSet(Traders) /\ IsFiniteSet(Books)
    BY DEF SharedTradingAssumption
  <2>4. Held(claim, m) = SumFunction(f) /\ FeesOwed(book, m) = SumFunction(g)
    BY DEF Held, FeesOwed
  <2> HIDE DEF f, g
  <2>5. SumFunction(f) = 0
    BY <2>1, <2>3, SumAllZero
  <2>6. SumFunction(g) = 0
    BY <2>2, <2>3, SumAllZero
  <2> QED
    BY <2>4, <2>5, <2>6 DEF Init
<1>2. \A b \in Books : book[b].accrued_quote_fees = 0
  BY DEF Init, EmptyBook
<1> QED
  BY <1>1, <1>2 DEF CustodyInv, CustodyBacked, ClosedOwesNoFees

\* The vault of every mint holds exactly the claims on it and the fees owed from
\* it, for any number of traders and books and any trade, transfer, split or
\* redemption (docs/shared-balances-resolution.md, "Conservation").
THEOREM CustodyStaysBacked == Spec => []CustodyBacked
<1>1. Init => CustodyInv
  BY SharedTradingAssumption, InitBacked
<1>2. TypeOK /\ CustodyInv /\ [Next]_vars => CustodyInv'
  <2> SUFFICES ASSUME TypeOK, CustodyInv, [Next]_vars
               PROVE  CustodyInv'
    OBVIOUS
  <2>1. TypeOK'
    BY SharedTradingAssumption, NextType
  <2>2. TradeStep \/ TransferStep \/ SetStep \/ FeeStep \/ QuietStep
    BY SharedTradingAssumption, StepIs
  <2> QED
    BY SharedTradingAssumption, <2>1, <2>2, TradeBacked, TransferBacked, SetBacked,
       FeeBacked, QuietBacked
<1>3. CustodyInv => CustodyBacked
  BY DEF CustodyInv
<1> QED
  BY <1>1, <1>2, <1>3, TypeCorrect, PTL DEF Spec
-----------------------------------------------------------------------------
(* The supplies *)

\* A position is not real cash, and belongs to one side of one question.
LEMMA Positions ==
    ASSUME SharedTradingAssumption, NEW c \in PredictionBooks, NEW o \in {"Yes", "No"}
    PROVE  /\ ClaimOf[c][o] \in Assets
           /\ \A m \in Mints, d \in Int : At(ClaimOf[c][o], m, d) = 0
           /\ \A b \in PredictionBooks, r \in {"Yes", "No"}, d \in Int :
                  /\ r = o => At(ClaimOf[c][o], ClaimOf[b][r], d) = At(c, b, d)
                  /\ r # o => At(ClaimOf[c][o], ClaimOf[b][r], d) = 0
<1>1. /\ ClaimOf[c]["Yes"] \in Assets \ Mints /\ ClaimOf[c]["No"] \in Assets \ Mints
      /\ \A b \in PredictionBooks, r \in {"Yes", "No"} :
             ClaimOf[c][o] = ClaimOf[b][r] => c = b /\ o = r
  BY DEF SharedTradingAssumption
<1>2. ClaimOf[c][o] \in Assets \ Mints
  BY <1>1
<1>3. ASSUME NEW m \in Mints, NEW d \in Int PROVE At(ClaimOf[c][o], m, d) = 0
  BY <1>2 DEF At
<1>4. ASSUME NEW b \in PredictionBooks, NEW r \in {"Yes", "No"}, NEW d \in Int
      PROVE  /\ r = o => At(ClaimOf[c][o], ClaimOf[b][r], d) = At(c, b, d)
             /\ r # o => At(ClaimOf[c][o], ClaimOf[b][r], d) = 0
  BY <1>1 DEF At
<1> QED
  BY <1>2, <1>3, <1>4

\* Every step changes what is held of a position as it changes the supply.
LEMMA SuppliesMove ==
    ASSUME SharedTradingAssumption, TypeOK, [Next]_vars, NEW c \in PredictionBooks
    PROVE  /\ Held(claim', ClaimOf[c]["Yes"]) - Held(claim, ClaimOf[c]["Yes"])
                  = market'[c].yes_supply - market[c].yes_supply
           /\ Held(claim', ClaimOf[c]["No"]) - Held(claim, ClaimOf[c]["No"])
                  = market'[c].no_supply - market[c].no_supply
<1> DEFINE y == ClaimOf[c]["Yes"]
           n == ClaimOf[c]["No"]
<1>1. /\ y \in Assets /\ n \in Assets
      /\ \A m \in Mints, d \in Int : At(y, m, d) = 0 /\ At(n, m, d) = 0
      /\ \A b \in PredictionBooks, d \in Int :
             /\ At(y, ClaimOf[b]["Yes"], d) = At(c, b, d) /\ At(y, ClaimOf[b]["No"], d) = 0
             /\ At(n, ClaimOf[b]["Yes"], d) = 0 /\ At(n, ClaimOf[b]["No"], d) = At(c, b, d)
  <2>1. "Yes" # "No" /\ "Yes" \in {"Yes", "No"} /\ "No" \in {"Yes", "No"}
    OBVIOUS
  <2>2. ClaimOf[c]["Yes"] \in Assets /\ ClaimOf[c]["No"] \in Assets
    BY <2>1, Positions
  <2>3. \A m \in Mints, d \in Int : At(ClaimOf[c]["Yes"], m, d) = 0 /\ At(ClaimOf[c]["No"], m, d) = 0
    BY <2>1, Positions
  <2>4. \A b \in PredictionBooks, d \in Int :
            /\ At(ClaimOf[c]["Yes"], ClaimOf[b]["Yes"], d) = At(c, b, d)
            /\ At(ClaimOf[c]["Yes"], ClaimOf[b]["No"], d) = 0
    BY <2>1, Positions
  <2>5. \A b \in PredictionBooks, d \in Int :
            /\ At(ClaimOf[c]["No"], ClaimOf[b]["Yes"], d) = 0
            /\ At(ClaimOf[c]["No"], ClaimOf[b]["No"], d) = At(c, b, d)
    BY <2>1, Positions
  <2> QED
    BY <2>2, <2>3, <2>4, <2>5
<1>2. \A b \in Books : QuoteOf[b] \in Mints
  BY DEF SharedTradingAssumption
<1>3. /\ claim \in Balances /\ Mints \subseteq Assets /\ PredictionBooks \subseteq Books
      /\ market[c].yes_supply \in Int /\ market[c].no_supply \in Int
  BY TypeParts, ClaimsAreBalances DEF TypeOK, SharedTradingAssumption, Books, MarketRecord
<1>4. Held(claim, y) \in Int /\ Held(claim, n) \in Int
  BY <1>1, <1>3, HeldType
<1> HIDE DEF y, n
<1>5. CASE TradeStep
  <2>1. PICK b \in Books, fee \in Nat :
            /\ \A x \in Assets : Held(claim', x) = Held(claim, x) + At(x, QuoteOf[b], -fee)
            /\ market' = market
    BY <1>5 DEF TradeStep
  <2>2. Held(claim', y) = Held(claim, y) + 0 /\ Held(claim', n) = Held(claim, n) + 0
    <3>1. -fee \in Int
      OBVIOUS
    <3> QED
      BY <1>1, <1>2, <2>1, <3>1
  <2> QED
    BY <1>3, <1>4, <2>1, <2>2 DEF y, n
<1>6. CASE TransferStep
  <2>1. PICK t \in Traders, m \in Mints, d \in Int :
            claim' = Change(claim, t, m, d, 0) /\ market' = market
    BY <1>6 DEF TransferStep
  <2>2. \A x \in Assets : Held(claim', x) = Held(claim, x) + At(x, m, d + 0)
    BY <1>3, <2>1, ChangeMoves
  <2>3. Held(claim', y) = Held(claim, y) + 0 /\ Held(claim', n) = Held(claim, n) + 0
    <3>1. d + 0 \in Int
      OBVIOUS
    <3> QED
      BY <1>1, <2>2, <3>1
  <2> QED
    BY <1>3, <1>4, <2>1, <2>3 DEF y, n
<1>7. CASE SetStep
  <2>1. PICK t \in Traders, b \in PredictionBooks, cash, yes, no \in Int :
            /\ claim' = ChangeSet(t, b, cash, yes, no)
            /\ \A d \in PredictionBooks :
                   /\ market'[d].yes_supply = market[d].yes_supply + At(d, b, yes)
                   /\ market'[d].no_supply = market[d].no_supply + At(d, b, no)
    BY <1>7 DEF SetStep
  <2>2. \A x \in Assets : Held(claim', x) = Held(claim, x) + At(x, QuoteOf[b], cash)
                + At(x, ClaimOf[b]["Yes"], yes) + At(x, ClaimOf[b]["No"], no)
    BY <1>3, <2>1, SetMoves
  <2>3. /\ At(y, QuoteOf[b], cash) = 0 /\ At(n, QuoteOf[b], cash) = 0
        /\ At(c, b, yes) \in Int /\ At(c, b, no) \in Int
    <3>1. QuoteOf[b] \in Mints
      BY <1>2, <1>3
    <3>2. At(c, b, yes) \in Int /\ At(c, b, no) \in Int
      BY DEF At
    <3> QED
      BY <1>1, <3>1, <3>2
  <2>4. /\ Held(claim', y) = Held(claim, y) + 0 + At(c, b, yes) + 0
        /\ Held(claim', n) = Held(claim, n) + 0 + 0 + At(c, b, no)
    BY <1>1, <2>2, <2>3
  <2>5. /\ market'[c].yes_supply = market[c].yes_supply + At(c, b, yes)
        /\ market'[c].no_supply = market[c].no_supply + At(c, b, no)
    BY <2>1
  <2> QED
    BY <1>3, <1>4, <2>3, <2>4, <2>5 DEF y, n
<1>8. CASE FeeStep
  BY <1>3, <1>4, <1>8 DEF FeeStep, y, n
<1>9. CASE QuietStep
  BY <1>3, <1>4, <1>9 DEF QuietStep, y, n
<1> QED
  BY <1>5, <1>6, <1>7, <1>8, <1>9, StepIs

\* The supplies of a question are what its traders hold, free or in asks: no
\* order, fill or transfer makes or loses a contract (split_shared_position,
\* merge_shared_position, redeem_shared_position and every fill).
THEOREM SuppliesStayHeld == Spec => []SuppliesHeld
<1>1. Init => SuppliesHeld
  <2> SUFFICES ASSUME Init, NEW b \in PredictionBooks
               PROVE  /\ market[b].yes_supply = Held(claim, ClaimOf[b]["Yes"])
                      /\ market[b].no_supply = Held(claim, ClaimOf[b]["No"])
    BY DEF SuppliesHeld
  <2>1. b \in Books /\ IsFiniteSet(Traders)
    BY SharedTradingAssumption DEF SharedTradingAssumption, Books
  <2>2. ClaimOf[b]["Yes"] \in Assets /\ ClaimOf[b]["No"] \in Assets
    BY SharedTradingAssumption DEF SharedTradingAssumption
  <2>3. market[b].yes_supply = 0 /\ market[b].no_supply = 0
    BY <2>1 DEF Init
  <2>4. ASSUME NEW a \in Assets PROVE Held(claim, a) = 0
    <3> DEFINE f == [t \in Traders |-> claim[t][a].free + claim[t][a].locked]
    <3>1. \A t \in Traders : claim[t][a].free = 0 /\ claim[t][a].locked = 0
      BY DEF Init
    <3>2. f \in [Traders -> Int] /\ \A t \in Traders : f[t] = 0
      BY <3>1
    <3>3. Held(claim, a) = SumFunction(f)
      BY DEF Held
    <3> HIDE DEF f
    <3> QED
      BY <2>1, <3>2, <3>3, SumAllZero
  <2> QED
    BY <2>2, <2>3, <2>4
<1>2. TypeOK /\ SuppliesHeld /\ [Next]_vars => SuppliesHeld'
  <2> SUFFICES ASSUME TypeOK, SuppliesHeld, [Next]_vars, NEW b \in PredictionBooks
               PROVE  /\ market'[b].yes_supply = Held(claim', ClaimOf[b]["Yes"])
                      /\ market'[b].no_supply = Held(claim', ClaimOf[b]["No"])
    BY DEF SuppliesHeld
  <2> DEFINE y == ClaimOf[b]["Yes"]
             n == ClaimOf[b]["No"]
  <2>1. TypeOK' /\ b \in Books /\ y \in Assets /\ n \in Assets
    BY SharedTradingAssumption, NextType DEF Books, SharedTradingAssumption
  <2>2. claim \in Balances /\ claim' \in Balances
    <3>1. claim \in Claims /\ claim' \in Claims
      BY <2>1 DEF TypeOK, Claims
    <3> QED
      BY <3>1, ClaimsAreBalances
  <2>3. /\ Held(claim, y) \in Int /\ Held(claim, n) \in Int
        /\ Held(claim', y) \in Int /\ Held(claim', n) \in Int
    BY SharedTradingAssumption, <2>1, <2>2, HeldType
  <2>4. /\ market[b].yes_supply \in Int /\ market[b].no_supply \in Int
        /\ market'[b].yes_supply \in Int /\ market'[b].no_supply \in Int
    BY <2>1 DEF TypeOK, MarketRecord
  <2>5. /\ Held(claim', y) - Held(claim, y) = market'[b].yes_supply - market[b].yes_supply
        /\ Held(claim', n) - Held(claim, n) = market'[b].no_supply - market[b].no_supply
    BY SharedTradingAssumption, SuppliesMove
  <2>6. market[b].yes_supply = Held(claim, y) /\ market[b].no_supply = Held(claim, n)
    BY DEF SuppliesHeld
  <2> QED
    BY <2>3, <2>4, <2>5, <2>6
<1> QED
  BY <1>1, <1>2, TypeCorrect, PTL DEF Spec
-----------------------------------------------------------------------------
(* The locks *)

\* Order i of book b takes d more of u's asset a, his locked balance follows, and
\* no other order's lock moves.
LockMovesBy(b, i, u, a, d) ==
    /\ \A t \in Traders, x \in Assets :
           /\ claim'[t][x].locked = claim[t][x].locked + AtBalance(t, x, u, a, d)
           /\ LockOf(b, order'[b][i], t, x) =
                  LockOf(b, order[b][i], t, x) + AtBalance(t, x, u, a, d)
    /\ \A c \in Books, j \in Ids :
           c # b \/ j # i =>
               \A t \in Traders, x \in Assets :
                   LockOf(c, order'[c][j], t, x) = LockOf(c, order[c][j], t, x)

LocksMove ==
    \E b \in Books, i \in Ids, u \in Traders, a \in Assets, d \in Int : LockMovesBy(b, i, u, a, d)

\* Of the locked balances only that of an order's owner falls, by k.
Unlocks(b, i, k) ==
    \A t \in Traders, x \in Assets :
        claim'[t][x].locked = claim[t][x].locked
            - AtBalance(t, x, order[b][i].owner, LockedAsset(b, order[b][i].list), k)

\* What an order locks is a number.
LEMMA LockType ==
    ASSUME NEW b \in Books, NEW o \in OrderRecord, NEW t \in Traders, NEW a \in Assets
    PROVE  LockOf(b, o, t, a) \in Int
<1>1. o.locked_collateral \in Int
  BY DEF OrderRecord
<1> QED
  BY <1>1 DEF LockOf

\* Relinking an order moves no lock.
LEMMA LockSame ==
    ASSUME NEW b, NEW o, NEW n, n.status = o.status, n.owner = o.owner, n.list = o.list,
           n.locked_collateral = o.locked_collateral
    PROVE  \A t \in Traders, a \in Assets : LockOf(b, n, t, a) = LockOf(b, o, t, a)
BY DEF LockOf

\* An open order locks its collateral in its owner's balance of its asset.
LEMMA LockOpen ==
    ASSUME NEW b, NEW o, o.status = "Open"
    PROVE  \A t \in Traders, a \in Assets :
               LockOf(b, o, t, a) =
                   AtBalance(t, a, o.owner, LockedAsset(b, o.list), o.locked_collateral)
BY DEF LockOf, AtBalance

\* Any other order locks nothing.
LEMMA LockClosed ==
    ASSUME NEW b, NEW o, o.status # "Open"
    PROVE  \A t \in Traders, a \in Assets : LockOf(b, o, t, a) = 0
BY DEF LockOf

\* The sum of the locks follows the order that moved.
LEMMA LocksMoveBacked ==
    ASSUME SharedTradingAssumption, TypeOK, TypeOK', LocksBacked, LocksMove
    PROVE  LocksBacked'
<1>0. PICK b \in Books, i \in Ids, u \in Traders, a \in Assets, d \in Int :
          LockMovesBy(b, i, u, a, d)
  BY DEF LocksMove
<1>1. /\ \A t \in Traders, x \in Assets :
             /\ claim'[t][x].locked = claim[t][x].locked + AtBalance(t, x, u, a, d)
             /\ LockOf(b, order'[b][i], t, x) =
                    LockOf(b, order[b][i], t, x) + AtBalance(t, x, u, a, d)
      /\ \A c \in Books, j \in Ids :
             c # b \/ j # i =>
                 \A t \in Traders, x \in Assets :
                     LockOf(c, order'[c][j], t, x) = LockOf(c, order[c][j], t, x)
  BY <1>0, Zenon DEF LockMovesBy
<1> SUFFICES ASSUME NEW t \in Traders, NEW x \in Assets
             PROVE  claim'[t][x].locked = SumFunction([bi \in Books \X Ids |->
                        LockOf(bi[1], order'[bi[1]][bi[2]], t, x)])
  BY DEF LocksBacked
<1> DEFINE S == Books \X Ids
           f == [bi \in S |-> LockOf(bi[1], order[bi[1]][bi[2]], t, x)]
           g == [bi \in S |-> LockOf(bi[1], order'[bi[1]][bi[2]], t, x)]
           k == <<b, i>>
<1>2. f \in [S -> Int] /\ g \in [S -> Int]
  <2>1. \A c \in Books, j \in Ids : order[c][j] \in OrderRecord /\ order'[c][j] \in OrderRecord
    BY DEF TypeOK
  <2> QED
    BY <2>1, LockType
<1>3. IsFiniteSet(S)
  <2>1. IsFiniteSet(Ids)
    BY FS_Interval DEF Ids, SharedTradingAssumption
  <2> QED
    BY <2>1, FS_Product DEF SharedTradingAssumption
<1>4. k \in S /\ \A bi \in S : bi # k => g[bi] = f[bi]
  BY <1>1
<1>5. g[k] - f[k] = AtBalance(t, x, u, a, d) /\ AtBalance(t, x, u, a, d) \in Int
  <2>1. f[k] = LockOf(b, order[b][i], t, x) /\ g[k] = LockOf(b, order'[b][i], t, x)
    BY <1>4
  <2>2. AtBalance(t, x, u, a, d) \in Int /\ f[k] \in Int
    BY <1>2, <1>4 DEF AtBalance
  <2>3. g[k] = f[k] + AtBalance(t, x, u, a, d)
    BY <1>1, <2>1
  <2> HIDE DEF f, g, k
  <2> QED
    BY <2>2, <2>3
<1>6. claim[t][x].locked = SumFunction(f)
  BY DEF LocksBacked
<1> HIDE DEF S, f, g, k
<1>7. SumFunction(g) = SumFunction(f) + (g[k] - f[k])
  <2>1. \A f1, g1 \in [S -> Int], x1 \in S :
            (\A y1 \in S : y1 # x1 => g1[y1] = f1[y1])
                => SumFunction(g1) = SumFunction(f1) + (g1[x1] - f1[x1])
    BY <1>3, SumOneChanged
  <2>2. (\A y1 \in S : y1 # k => g[y1] = f[y1])
            => SumFunction(g) = SumFunction(f) + (g[k] - f[k])
    BY <1>2, <1>4, <2>1
  <2> QED
    BY <1>4, <2>2
<1>8. claim'[t][x].locked = claim[t][x].locked + AtBalance(t, x, u, a, d)
  BY <1>1
<1>9. claim'[t][x].locked = SumFunction(g)
  BY <1>5, <1>6, <1>7, <1>8
<1> QED
  BY <1>9 DEF g, S

\* Orders and locked balances that stay, stay backed.
LEMMA LocksUntouched ==
    ASSUME LocksBacked, order' = order,
           \A t \in Traders, x \in Assets : claim'[t][x].locked = claim[t][x].locked
    PROVE  LocksBacked'
BY DEF LocksBacked
\* Placing: the new order locks what was taken.
LEMMA PlacingLocks ==
    ASSUME SharedTradingAssumption, TypeOK,
           NEW t \in Traders, NEW b \in Books, NEW l \in ListsOf(b),
           NEW p \in Prices, NEW q \in Quantities, NEW previous,
           Placing(t, b, l, p, q, previous)
    PROVE  LocksMove
<1> DEFINE id     == book[b].next_order_id
           amount == Collateral(Scale[b], l[2], p, q)
           asset  == LockedAsset(b, l)
           new    == [owner |-> t, list |-> l, price |-> p,
                      previous_order |-> previous, next_order |-> None,
                      quantity |-> q, remaining_quantity |-> q,
                      locked_collateral |-> amount, status |-> "Open"]
           orders == [j \in Ids |-> IF j = id THEN new
                                    ELSE IF j = previous
                                         THEN [order[b][j] EXCEPT !.next_order = id]
                                         ELSE order[b][j]]
<1>1. /\ id \in Ids /\ order[b][id].status = "Absent"
      /\ order' = [order EXCEPT ![b] = orders]
      /\ claim' = Change(claim, t, asset, -amount, amount)
  BY DEF Placing, NewAccount
<1>2. asset \in Assets
  BY AssetTypes
<1>3. amount \in Int
  <2>1. p \in Nat /\ q \in Nat /\ Scale[b] \in Nat \ {0}
    BY PriceType, AssetTypes DEF SharedTradingAssumption
  <2>2. amount \in Nat
    BY <2>1, QuoteAmountType DEF Collateral
  <2> QED
    BY <2>2
<1>4. new.status = "Open" /\ new.owner = t /\ new.list = l /\ new.locked_collateral = amount
  OBVIOUS
<1>5. order'[b][id] = new /\ \A c \in Books : c # b => order'[c] = order[c]
  BY <1>1 DEF TypeOK
<1>6. \A j \in Ids : j # id =>
          /\ order'[b][j].status = order[b][j].status
          /\ order'[b][j].owner = order[b][j].owner
          /\ order'[b][j].list = order[b][j].list
          /\ order'[b][j].locked_collateral = order[b][j].locked_collateral
  <2> TAKE j \in Ids
  <2> HAVE j # id
  <2>1. order[b][j] \in OrderRecord
    BY DEF TypeOK
  <2>2. order'[b][j] = IF j = previous THEN [order[b][j] EXCEPT !.next_order = id]
                                       ELSE order[b][j]
    BY <1>1 DEF TypeOK
  <2> QED
    BY <2>1, <2>2 DEF OrderRecord
<1>7. -amount \in Int
  BY <1>3
<1> HIDE DEF id, amount, asset, new
<1>8. ASSUME NEW u \in Traders, NEW x \in Assets
      PROVE  /\ claim'[u][x].locked = claim[u][x].locked + AtBalance(u, x, t, asset, amount)
             /\ LockOf(b, order'[b][id], u, x) =
                    LockOf(b, order[b][id], u, x) + AtBalance(u, x, t, asset, amount)
  <2>1. claim \in Balances
    BY TypeParts, ClaimsAreBalances
  <2>2. claim'[u][x].locked = claim[u][x].locked + AtBalance(u, x, t, asset, amount)
    <3>1. \A f, k \in Int : \A u1 \in Traders, x1 \in Assets :
              Change(claim, t, asset, f, k)[u1][x1].locked =
                  claim[u1][x1].locked + AtBalance(u1, x1, t, asset, k)
      BY <1>2, <2>1, ChangeMoves
    <3> QED
      BY <1>1, <1>3, <1>7, <3>1
  <2>3. LockOf(b, order[b][id], u, x) = 0
    BY <1>1, LockClosed
  <2>4. LockOf(b, order'[b][id], u, x) = AtBalance(u, x, t, asset, amount)
    BY <1>4, <1>5, LockOpen DEF asset
  <2>5. AtBalance(u, x, t, asset, amount) \in Int
    BY <1>3 DEF AtBalance
  <2> QED
    BY <2>2, <2>3, <2>4, <2>5
<1>9. ASSUME NEW c \in Books, NEW j \in Ids, c # b \/ j # id
      PROVE  \A u \in Traders, x \in Assets :
                 LockOf(c, order'[c][j], u, x) = LockOf(c, order[c][j], u, x)
  <2>1. CASE c # b
    BY <1>5, <2>1
  <2>2. CASE c = b
    BY <1>6, <1>9, <2>2, LockSame
  <2> QED
    BY <2>1, <2>2
<1> QED
  <2>1. LockMovesBy(b, id, t, asset, amount)
    BY <1>8, <1>9, Zenon DEF LockMovesBy
  <2> QED
    BY <1>1, <1>2, <1>3, <2>1 DEF LocksMove

\* Closing an order that held all it still had locked.
LEMMA RemovalLocks ==
    ASSUME SharedTradingAssumption, TypeOK, NEW b \in Books, NEW i \in Ids,
           ValidOrder(b, i), NEW final, final.status # "Open",
           order' = [order EXCEPT ![b] = OrdersWithout(b, i, final)],
           Unlocks(b, i, order[b][i].locked_collateral)
    PROVE  LocksMove
<1> DEFINE o     == order[b][i]
           asset == LockedAsset(b, o.list)
           lock  == o.locked_collateral
           d     == -lock
<1>1. o.owner \in Traders /\ o.list \in ListsOf(b) /\ lock \in Nat /\ o.status = "Open"
  BY ValidOrderFunded DEF ValidOrder
<1>2. asset \in Assets
  BY <1>1, AssetTypes
<1>3. d \in Int
  BY <1>1
<1>4. order'[b] = OrdersWithout(b, i, final) /\ \A c \in Books : c # b => order'[c] = order[c]
  BY DEF TypeOK
<1>5. /\ order'[b][i] = final
      /\ \A j \in Ids \ {i} :
             /\ order'[b][j].status = order[b][j].status
             /\ order'[b][j].owner = order[b][j].owner
             /\ order'[b][j].list = order[b][j].list
             /\ order'[b][j].locked_collateral = order[b][j].locked_collateral
  BY <1>4, TypeParts, OrdersWithoutAt
<1>6. ASSUME NEW t \in Traders, NEW x \in Assets
      PROVE  /\ claim'[t][x].locked = claim[t][x].locked + AtBalance(t, x, o.owner, asset, d)
             /\ LockOf(b, order'[b][i], t, x) =
                    LockOf(b, order[b][i], t, x) + AtBalance(t, x, o.owner, asset, d)
  <2>1. /\ claim'[t][x].locked = claim[t][x].locked - AtBalance(t, x, o.owner, asset, lock)
        /\ LockOf(b, o, t, x) = AtBalance(t, x, o.owner, asset, lock)
    BY <1>1, LockOpen DEF Unlocks
  <2>2. LockOf(b, order'[b][i], t, x) = 0
    BY <1>5, LockClosed
  <2>3. claim[t][x].locked \in Int
    BY DEF TypeOK
  <2> HIDE DEF o, asset, lock
  <2>4. /\ AtBalance(t, x, o.owner, asset, lock) \in Int
        /\ AtBalance(t, x, o.owner, asset, d) \in Int
        /\ AtBalance(t, x, o.owner, asset, d) = -AtBalance(t, x, o.owner, asset, lock)
    BY <1>1 DEF AtBalance
  <2> HIDE DEF d
  <2> QED
    BY <2>1, <2>2, <2>3, <2>4 DEF o
<1>7. ASSUME NEW c \in Books, NEW j \in Ids, c # b \/ j # i
      PROVE  \A u \in Traders, x \in Assets :
                 LockOf(c, order'[c][j], u, x) = LockOf(c, order[c][j], u, x)
  <2>1. CASE c # b
    BY <1>4, <2>1
  <2>2. CASE c = b
    BY <1>5, <1>7, <2>2, LockSame
  <2> QED
    BY <2>1, <2>2
<1> HIDE DEF o, asset, d
<1> QED
  <2>1. LockMovesBy(b, i, o.owner, asset, d)
    BY <1>6, <1>7, Zenon DEF LockMovesBy
  <2> QED
    BY <1>1, <1>2, <1>3, <2>1 DEF LocksMove

\* A partial fill takes its debit out of the maker's lock.
LEMMA PartialLocks ==
    ASSUME SharedTradingAssumption, TypeOK, NEW b \in Books, NEW i \in Ids,
           ValidOrder(b, i), NEW debit \in Nat, NEW left,
           left.status = order[b][i].status, left.owner = order[b][i].owner,
           left.list = order[b][i].list,
           left.locked_collateral = order[b][i].locked_collateral - debit,
           order' = [order EXCEPT ![b][i] = left],
           Unlocks(b, i, debit)
    PROVE  LocksMove
<1> DEFINE o     == order[b][i]
           asset == LockedAsset(b, o.list)
           d     == -debit
<1>1. /\ o.owner \in Traders /\ o.list \in ListsOf(b) /\ o.locked_collateral \in Nat
      /\ o.status = "Open"
  BY ValidOrderFunded DEF ValidOrder
<1>2. asset \in Assets
  BY <1>1, AssetTypes
<1>3. d \in Int
  OBVIOUS
<1>4. /\ order'[b][i] = left
      /\ \A c \in Books, j \in Ids : c # b \/ j # i => order'[c][j] = order[c][j]
  BY DEF TypeOK
<1>5. ASSUME NEW t \in Traders, NEW x \in Assets
      PROVE  /\ claim'[t][x].locked = claim[t][x].locked + AtBalance(t, x, o.owner, asset, d)
             /\ LockOf(b, order'[b][i], t, x) =
                    LockOf(b, order[b][i], t, x) + AtBalance(t, x, o.owner, asset, d)
  <2>1. /\ claim'[t][x].locked = claim[t][x].locked - AtBalance(t, x, o.owner, asset, debit)
        /\ LockOf(b, o, t, x) = AtBalance(t, x, o.owner, asset, o.locked_collateral)
    BY <1>1, LockOpen DEF Unlocks
  <2>2. LockOf(b, order'[b][i], t, x) =
            AtBalance(t, x, o.owner, asset, o.locked_collateral - debit)
    <3>1. \A u \in Traders, y \in Assets : LockOf(b, left, u, y) =
              AtBalance(u, y, left.owner, LockedAsset(b, left.list), left.locked_collateral)
      BY <1>1, LockOpen
    <3> QED
      BY <1>4, <3>1
  <2>3. claim[t][x].locked \in Int
    BY DEF TypeOK
  <2> DEFINE lock == o.locked_collateral
  <2>4. lock \in Nat
    BY <1>1
  <2>5. LockOf(b, o, t, x) = AtBalance(t, x, o.owner, asset, lock)
    BY <2>1
  <2>6. LockOf(b, order'[b][i], t, x) = AtBalance(t, x, o.owner, asset, lock - debit)
    BY <2>2
  <2> HIDE DEF o, asset, lock
  <2>7. /\ AtBalance(t, x, o.owner, asset, debit) \in Int
        /\ AtBalance(t, x, o.owner, asset, lock) \in Int
        /\ AtBalance(t, x, o.owner, asset, d) = -AtBalance(t, x, o.owner, asset, debit)
        /\ AtBalance(t, x, o.owner, asset, lock - debit) =
               AtBalance(t, x, o.owner, asset, lock) - AtBalance(t, x, o.owner, asset, debit)
    BY <2>4 DEF AtBalance
  <2> HIDE DEF d
  <2> QED
    BY <2>1, <2>3, <2>5, <2>6, <2>7 DEF o
<1> HIDE DEF o, asset, d
<1> QED
  <2>1. \A c \in Books, j \in Ids : c # b \/ j # i =>
            \A t \in Traders, x \in Assets :
                LockOf(c, order'[c][j], t, x) = LockOf(c, order[c][j], t, x)
    BY <1>4
  <2>2. LockMovesBy(b, i, o.owner, asset, d)
    BY <1>5, <2>1, Zenon DEF LockMovesBy
  <2> QED
    BY <1>1, <1>2, <1>3, <2>2 DEF LocksMove
\* A cancellation gives the whole lock back.
LEMMA CancelLocks ==
    ASSUME SharedTradingAssumption, TypeOK,
           NEW t \in Traders, NEW b \in Books, NEW i \in Ids, Cancel(t, b, i)
    PROVE  LocksMove
<1> DEFINE o     == order[b][i]
           asset == LockedAsset(b, o.list)
           lock  == o.locked_collateral
           final == [o EXCEPT !.status = "Canceled", !.locked_collateral = 0,
                              !.previous_order = None, !.next_order = None]
           back  == -lock
<1>1. /\ ValidOrder(b, i) /\ o.owner = t
      /\ claim' = Change(claim, t, asset, lock, back)
      /\ order' = [order EXCEPT ![b] = OrdersWithout(b, i, final)]
  BY DEF Cancel, Removable
<1>2. o.list \in ListsOf(b) /\ lock \in Nat
  BY <1>1, ValidOrderFunded
<1>3. asset \in Assets /\ lock \in Int /\ back \in Int
  BY <1>2, AssetTypes
<1>4. final.status # "Open"
  BY DEF TypeOK, OrderRecord
<1>5. \A u \in Traders, x \in Assets :
          claim'[u][x].locked = claim[u][x].locked - AtBalance(u, x, t, asset, lock)
  <2>1. claim \in Balances
    BY TypeParts, ClaimsAreBalances
  <2>2. \A f, k \in Int : \A u \in Traders, x \in Assets :
            Change(claim, t, asset, f, k)[u][x].locked =
                claim[u][x].locked + AtBalance(u, x, t, asset, k)
    BY <1>3, <2>1, ChangeMoves
  <2>3. \A u \in Traders, x \in Assets :
            claim'[u][x].locked = claim[u][x].locked + AtBalance(u, x, t, asset, back)
    BY <1>1, <1>3, <2>2
  <2>4. \A u \in Traders, x \in Assets :
            /\ AtBalance(u, x, t, asset, back) = -AtBalance(u, x, t, asset, lock)
            /\ AtBalance(u, x, t, asset, lock) \in Int /\ claim[u][x].locked \in Int
    <3> HIDE DEF lock, asset
    <3> QED
      BY <1>3, <2>1 DEF AtBalance, Balances
  <2> HIDE DEF lock, back, asset
  <2> QED
    BY <2>3, <2>4
<1>6. Unlocks(b, i, order[b][i].locked_collateral)
  BY <1>1, <1>5 DEF Unlocks
<1> HIDE DEF final
<1> QED
  BY <1>1, <1>4, <1>6, RemovalLocks

\* A fill takes its debit out of the maker's lock: all of it when it is the last.
LEMMA FillLocks ==
    ASSUME SharedTradingAssumption, TypeOK,
           NEW t \in Traders, NEW b \in Books, NEW l \in ListsOf(b), NEW limit \in Prices,
           NEW q \in Quantities, NEW bps \in FeeRates, NEW i \in Ids,
           Match(t, b, l, limit, q, bps, i)
    PROVE  LocksMove
<1> DEFINE o     == order[b][i]
           plan  == Settlement(Scale[b], o.list[2], o.price, q,
                               o.remaining_quantity, o.locked_collateral)
           left  == [o EXCEPT !.remaining_quantity = o.remaining_quantity - plan.base,
                              !.locked_collateral = o.locked_collateral - plan.debit]
           final == [left EXCEPT !.status = "Filled",
                                 !.previous_order = None, !.next_order = None]
<1>1. ValidOrder(b, i)
  BY DEF Match, MatchableMaker
<1>2. /\ plan.debit \in Nat
      /\ plan.fully_filled => plan.debit = o.locked_collateral
      /\ Unlocks(b, i, plan.debit)
  <2>1. Match(t, b, l, limit, q, bps, i) =>
            /\ plan.debit \in Nat
            /\ plan.fully_filled => plan.debit = o.locked_collateral
            /\ \A u \in Traders, x \in Assets :
                   claim'[u][x].locked = claim[u][x].locked
                       - AtBalance(u, x, o.owner, LockedAsset(b, o.list), plan.debit)
    BY FillClaims
  <2> HIDE DEF plan
  <2> QED
    BY <2>1 DEF Unlocks
<1>3. \/ plan.fully_filled /\ order' = [order EXCEPT ![b] = OrdersWithout(b, i, final)]
      \/ order' = [order EXCEPT ![b][i] = left]
  BY DEF Match
<1>4. o \in OrderRecord
  BY DEF TypeOK
<1> HIDE DEF plan
<1>5. /\ left.status = o.status /\ left.owner = o.owner /\ left.list = o.list
      /\ left.locked_collateral = o.locked_collateral - plan.debit
      /\ final.status = "Filled"
  BY <1>4 DEF OrderRecord
<1> HIDE DEF left, final
<1>6. CASE plan.fully_filled /\ order' = [order EXCEPT ![b] = OrdersWithout(b, i, final)]
  <2>1. plan.debit = o.locked_collateral /\ final.status # "Open"
    BY <1>2, <1>5, <1>6
  <2>2. Unlocks(b, i, order[b][i].locked_collateral)
    BY <1>2, <2>1 DEF Unlocks
  <2> QED
    BY <1>1, <1>6, <2>1, <2>2, RemovalLocks
<1>7. CASE order' = [order EXCEPT ![b][i] = left]
  BY <1>1, <1>2, <1>5, <1>7, PartialLocks
<1> QED
  BY <1>3, <1>6, <1>7

\* Every step that trades moves one lock.
LEMMA TradeLocks ==
    ASSUME SharedTradingAssumption, TypeOK, NEW b \in Books,
           Place(b) \/ CancelOrder(b) \/ MatchOrder(b)
    PROVE  LocksMove
<1>1. CASE Place(b)
  <2>1. PICK t \in Traders, l \in ListsOf(b), p \in Prices, q \in Quantities :
            \/ PlaceAppend(t, b, l, p, q)
            \/ \E better \in LevelHints : PlaceNewLevel(t, b, l, p, q, better)
    BY <1>1 DEF Place
  <2>2. \E previous : Placing(t, b, l, p, q, previous)
    BY <2>1 DEF PlaceAppend, PlaceNewLevel
  <2> QED
    BY <2>2, PlacingLocks
<1>2. CASE CancelOrder(b)
  BY <1>2, CancelLocks DEF CancelOrder
<1>3. CASE MatchOrder(b)
  BY <1>3, FillLocks DEF MatchOrder
<1> QED
  BY <1>1, <1>2, <1>3

\* No other step touches an order or a locked balance.
LEMMA OtherLocks ==
    ASSUME SharedTradingAssumption, TypeOK,
           TransferStep \/ SetStep \/ FeeStep \/ QuietStep
    PROVE  /\ order' = order
           /\ \A t \in Traders, x \in Assets : claim'[t][x].locked = claim[t][x].locked
<1>1. claim \in Balances /\ Mints \subseteq Assets
  BY TypeParts, ClaimsAreBalances DEF SharedTradingAssumption
<1>2. CASE TransferStep
  <2>1. PICK u \in Traders, m \in Mints, d \in Int :
            claim' = Change(claim, u, m, d, 0) /\ order' = order
    BY <1>2 DEF TransferStep
  <2>2. \A t \in Traders, x \in Assets :
            /\ claim'[t][x].locked = claim[t][x].locked + AtBalance(t, x, u, m, 0)
            /\ AtBalance(t, x, u, m, 0) = 0 /\ claim[t][x].locked \in Int
    <3>1. \A f, k \in Int : \A t \in Traders, x \in Assets :
              Change(claim, u, m, f, k)[t][x].locked =
                  claim[t][x].locked + AtBalance(t, x, u, m, k)
      BY <1>1, ChangeMoves
    <3>2. 0 \in Int /\ \A t \in Traders, x \in Assets : claim[t][x].locked \in Int
      BY <1>1 DEF Balances
    <3>3. \A t \in Traders, x \in Assets : AtBalance(t, x, u, m, 0) = 0
      BY DEF AtBalance
    <3> QED
      BY <2>1, <3>1, <3>2, <3>3
  <2> QED
    BY <2>1, <2>2
<1>3. CASE SetStep
  <2>1. PICK u \in Traders, b \in PredictionBooks, cash, yes, no \in Int :
            claim' = ChangeSet(u, b, cash, yes, no) /\ order' = order
    BY <1>3 DEF SetStep
  <2> QED
    BY <1>1, <2>1, SetMoves
<1>4. CASE FeeStep \/ QuietStep
  BY <1>4 DEF FeeStep, QuietStep
<1> QED
  BY <1>2, <1>3, <1>4

\* A trader's locked balance of an asset is exactly what his open orders hold of
\* it in all books: no fill leaves dust behind, no cancellation frees another's
\* lock, for any number of traders, books and partial fills (calculate_settlement,
\* cancel_shared_order, match_shared_order).
THEOREM LocksStayBacked == Spec => []LocksBacked
<1>1. Init => LocksBacked
  <2> SUFFICES ASSUME Init, NEW t \in Traders, NEW a \in Assets
               PROVE  claim[t][a].locked = SumFunction([bi \in Books \X Ids |->
                          LockOf(bi[1], order[bi[1]][bi[2]], t, a)])
    BY DEF LocksBacked
  <2> DEFINE S == Books \X Ids
             f == [bi \in S |-> LockOf(bi[1], order[bi[1]][bi[2]], t, a)]
  <2>1. IsFiniteSet(S)
    <3>1. IsFiniteSet(Ids)
      BY SharedTradingAssumption, FS_Interval DEF Ids, SharedTradingAssumption
    <3> QED
      BY SharedTradingAssumption, <3>1, FS_Product DEF SharedTradingAssumption
  <2>2. \A b \in Books, i \in Ids : order[b][i].status # "Open"
    BY DEF Init, AbsentOrder
  <2>3. f \in [S -> Int] /\ \A bi \in S : f[bi] = 0
    <3>1. \A b \in Books, i \in Ids : LockOf(b, order[b][i], t, a) = 0
      BY <2>2, LockClosed
    <3> QED
      BY <3>1
  <2>4. claim[t][a].locked = 0
    BY DEF Init
  <2> HIDE DEF f
  <2>5. SumFunction(f) = 0
    BY <2>1, <2>3, SumAllZero
  <2> QED
    BY <2>4, <2>5 DEF f, S
<1>2. TypeOK /\ LocksBacked /\ [Next]_vars => LocksBacked'
  <2> SUFFICES ASSUME TypeOK, LocksBacked, [Next]_vars
               PROVE  LocksBacked'
    OBVIOUS
  <2>1. TypeOK'
    BY SharedTradingAssumption, NextType
  <2>2. CASE \E b \in Books : Place(b) \/ CancelOrder(b) \/ MatchOrder(b)
    <3>1. LocksMove
      BY SharedTradingAssumption, <2>2, TradeLocks
    <3> QED
      BY SharedTradingAssumption, <2>1, <3>1, LocksMoveBacked
  <2>3. CASE TransferStep \/ SetStep \/ FeeStep \/ QuietStep
    <3>1. /\ order' = order
          /\ \A t \in Traders, x \in Assets : claim'[t][x].locked = claim[t][x].locked
      BY SharedTradingAssumption, <2>3, OtherLocks
    <3> QED
      BY <3>1, LocksUntouched
  <2> QED
    BY SharedTradingAssumption, <2>2, <2>3, StepIs
<1> QED
  BY <1>1, <1>2, TypeCorrect, PTL DEF Spec

-----------------------------------------------------------------------------
(* The reserves: a question is never over- or under-reserved *)


\* What the contracts of a question are worth, before and after resolution.
Backed(b, m) ==
    /\ m.vault = m.backing_reserve
    /\ IF m.status = "Resolved"
       THEN m.backing_reserve = PayoutOf(b, m.final_outcome, m.yes_supply, m.no_supply)
       ELSE /\ m.backing_reserve = m.yes_supply * Payout[b]
            /\ m.yes_supply = m.no_supply

\* Adding or removing a quantity of claims moves their worth by its own worth.
LEMMA Distributes ==
    ASSUME NEW x \in Nat, NEW y \in Nat, NEW p \in Nat
    PROVE  /\ x * p + y * p = (x + y) * p
           /\ x * p + (-(y * p)) = (x + (-y)) * p
  OBVIOUS

\* The payout of a pair is an even number, so that its half is exact.
LEMMA PayoutEven ==
    ASSUME SharedTradingAssumption, NEW b \in PredictionBooks
    PROVE  /\ Payout[b] \in Nat /\ Payout[b] \div 2 \in Nat
           /\ 2 * (Payout[b] \div 2) = Payout[b]
  BY DEF SharedTradingAssumption

\* When an outcome becomes final it is worth a full payout per pair, whichever
\* outcome it is: both sides of an Invalid market get half of an even payout.
LEMMA OutcomeWorth ==
    ASSUME SharedTradingAssumption, NEW b \in PredictionBooks, NEW n \in Nat,
           NEW final \in Outcomes
    PROVE  PayoutOf(b, final, n, n) = n * Payout[b]
<1> DEFINE half == Payout[b] \div 2
<1>1. Payout[b] \in Nat /\ half \in Nat /\ 2 * half = Payout[b]
  BY PayoutEven
<1> HIDE DEF half
<1>2. (n + n) * half = n * Payout[b]
  <2>1. (n + n) * half = n * (2 * half)
    BY <1>1
  <2> QED
    BY <1>1, <2>1
<1> QED
  BY <1>2 DEF PayoutOf, Outcomes, half

\* Redeeming some contracts leaves what the rest is worth.
LEMMA PayoutSplits ==
    ASSUME SharedTradingAssumption, NEW b \in PredictionBooks, NEW final \in Outcomes,
           NEW Y \in Nat, NEW N \in Nat, NEW y \in 0 .. Y, NEW n \in 0 .. N
    PROVE  PayoutOf(b, final, Y, N) - PayoutOf(b, final, y, n)
               = PayoutOf(b, final, Y - y, N - n)
<1> DEFINE P    == Payout[b]
           half == Payout[b] \div 2
<1>1. P \in Nat /\ half \in Nat
  BY PayoutEven
<1>2. y \in Nat /\ n \in Nat /\ Y - y \in Nat /\ N - n \in Nat
  OBVIOUS
<1> HIDE DEF P, half
<1>3. /\ Y * P - y * P = (Y - y) * P
      /\ N * P - n * P = (N - n) * P
      /\ (Y + N) * half - (y + n) * half = ((Y - y) + (N - n)) * half
  BY <1>1, <1>2
<1> QED
  BY <1>3 DEF PayoutOf, Outcomes, P, half

\* Splitting, merging and redeeming keep the reserve exact.
LEMMA SetsKeepReserve ==
    ASSUME SharedTradingAssumption, TypeOK, NEW b \in PredictionBooks,
           Backed(b, market[b]), CompleteSets(b)
    PROVE  Backed(b, market'[b])
<1> DEFINE m == market[b]
           n == market'[b]
           P == Payout[b]
           Y == m.yes_supply
           N == m.no_supply
<1>1. /\ m \in MarketRecord /\ b \in Books
      /\ Y \in Nat /\ N \in Nat /\ m.backing_reserve \in Nat /\ m.vault \in Nat
  BY DEF TypeOK, MarketRecord, Books
<1>2. P \in Nat
  BY PayoutEven
<1>3. ASSUME NEW q \in Quantities PROVE q \in Nat /\ q * P \in Nat
  <2>1. q \in Nat
    BY DEF SharedTradingAssumption
  <2> QED
    BY <1>2, <2>1
<1>4. ASSUME NEW t \in Traders, NEW q \in Quantities, Split(t, b, q)
      PROVE  Backed(b, n)
  <2> DEFINE cost == q * P
  <2>1. cost \in Nat /\ q \in Nat
    BY <1>3
  <2>2. m.status = "Open" /\ market' = [market EXCEPT ![b] = ChangeReserve(m, cost, q, q)]
    BY <1>4 DEF Split
  <2>3. Y * P + cost = (Y + q) * P
    <3> HIDE DEF P, Y, N
    <3> QED
      BY <1>1, <1>2, <2>1, Distributes
  <2> HIDE DEF cost
  <2>4. /\ n.status = m.status /\ n.yes_supply = Y + q /\ n.no_supply = N + q
        /\ n.backing_reserve = m.backing_reserve + cost /\ n.vault = m.vault + cost
    <3>1. n = ChangeReserve(m, cost, q, q)
      BY <1>1, <2>2 DEF TypeOK
    <3>2. /\ m.backing_reserve + cost >= 0 /\ m.vault + cost >= 0
          /\ m.yes_supply + q >= 0 /\ m.no_supply + q >= 0
      BY <1>1, <2>1
    <3> QED
      BY <1>1, <2>1, <3>1, <3>2, ReserveType
  <2>5. m.vault = m.backing_reserve /\ m.backing_reserve = Y * P /\ Y = N
    BY <2>2 DEF Backed
  <2> HIDE DEF m, n
  <2>6. /\ n.vault = n.backing_reserve /\ n.yes_supply = n.no_supply
        /\ n.backing_reserve = n.yes_supply * P /\ n.status # "Resolved"
    BY <2>2, <2>3, <2>4, <2>5
  <2> QED
    BY <2>6 DEF Backed
<1>5. ASSUME NEW t \in Traders, NEW q \in Quantities, Merge(t, b, q)
      PROVE  Backed(b, n)
  <2> DEFINE cost == q * P
  <2>1. cost \in Nat /\ q \in Nat /\ -cost \in Int /\ -q \in Int
    BY <1>3
  <2>2. /\ m.status # "Resolved"
        /\ m.vault >= cost /\ m.backing_reserve >= cost /\ Y >= q /\ N >= q
        /\ market' = [market EXCEPT ![b] = ChangeReserve(m, -cost, -q, -q)]
    BY <1>5 DEF Merge
  <2>3. Y * P + (-cost) = (Y + (-q)) * P
    <3> HIDE DEF P, Y, N
    <3> QED
      BY <1>1, <1>2, <2>1, Distributes
  <2> HIDE DEF cost
  <2>4. /\ n.status = m.status /\ n.yes_supply = Y + (-q) /\ n.no_supply = N + (-q)
        /\ n.backing_reserve = m.backing_reserve + (-cost) /\ n.vault = m.vault + (-cost)
    <3>1. n = ChangeReserve(m, -cost, -q, -q)
      BY <1>1, <2>2 DEF TypeOK
    <3>2. /\ m.backing_reserve + (-cost) >= 0 /\ m.vault + (-cost) >= 0
          /\ m.yes_supply + (-q) >= 0 /\ m.no_supply + (-q) >= 0
      BY <1>1, <2>1, <2>2
    <3> QED
      BY <1>1, <2>1, <3>1, <3>2, ReserveType
  <2>5. m.vault = m.backing_reserve /\ m.backing_reserve = Y * P /\ Y = N
    BY <2>2 DEF Backed
  <2> HIDE DEF m, n
  <2>6. /\ n.vault = n.backing_reserve /\ n.yes_supply = n.no_supply
        /\ n.backing_reserve = n.yes_supply * P /\ n.status # "Resolved"
    BY <2>2, <2>3, <2>4, <2>5
  <2> QED
    BY <2>6 DEF Backed
<1>6. ASSUME NEW t \in Traders, NEW yes \in Quantities \cup {0},
             NEW no \in Quantities \cup {0}, Redeem(t, b, yes, no)
      PROVE  Backed(b, n)
  <2> DEFINE f      == m.final_outcome
             amount == PayoutOf(b, f, yes, no)
  <2>1. /\ m.status = "Resolved"
        /\ m.vault >= amount /\ m.backing_reserve >= amount /\ Y >= yes /\ N >= no
        /\ market' = [market EXCEPT ![b] = ChangeReserve(m, -amount, -yes, -no)]
    BY <1>6 DEF Redeem
  <2>2. yes \in 0 .. Y /\ no \in 0 .. N /\ yes \in Nat /\ no \in Nat
    BY <1>1, <1>3, <2>1
  <2>3. f \in Outcomes
    <3>1. f \in Outcomes \cup {Undecided} /\ f # Undecided
      BY <1>1, <2>1 DEF TypeOK, MarketRecord
    <3> QED
      BY <3>1
  <2>4. amount \in Nat
    BY <2>2, <2>3, PayoutType
  <2>5. PayoutOf(b, f, Y, N) - amount = PayoutOf(b, f, Y - yes, N - no)
    <3> HIDE DEF f, Y, N
    <3> QED
      BY <1>1, <2>2, <2>3, PayoutSplits DEF amount
  <2>6. m.vault = m.backing_reserve /\ m.backing_reserve = PayoutOf(b, f, Y, N)
    BY <2>1 DEF Backed
  <2> HIDE DEF amount
  <2>7. /\ n.status = m.status /\ n.final_outcome = f
        /\ n.yes_supply = Y + (-yes) /\ n.no_supply = N + (-no)
        /\ n.backing_reserve = m.backing_reserve + (-amount)
        /\ n.vault = m.vault + (-amount)
    <3>1. n = ChangeReserve(m, -amount, -yes, -no)
      BY <1>1, <2>1 DEF TypeOK
    <3>2. /\ m.backing_reserve + (-amount) >= 0 /\ m.vault + (-amount) >= 0
          /\ m.yes_supply + (-yes) >= 0 /\ m.no_supply + (-no) >= 0
          /\ -amount \in Int /\ -yes \in Int /\ -no \in Int
      BY <1>1, <2>1, <2>2, <2>4
    <3> HIDE DEF m, n
    <3>3. /\ n.status = m.status /\ n.final_outcome = m.final_outcome
          /\ n.yes_supply = m.yes_supply + (-yes) /\ n.no_supply = m.no_supply + (-no)
          /\ n.backing_reserve = m.backing_reserve + (-amount)
          /\ n.vault = m.vault + (-amount)
      BY <1>1, <3>1, <3>2, ReserveType
    <3> QED
      BY <3>3
  <2>8. /\ n.yes_supply = Y - yes /\ n.no_supply = N - no
        /\ n.backing_reserve = m.backing_reserve - amount /\ n.vault = m.vault - amount
    BY <1>1, <2>2, <2>4, <2>7
  <2> HIDE DEF m, n, f
  <2> QED
    BY <2>1, <2>5, <2>7, <2>8, <2>6 DEF Backed
<1> QED
  BY <1>4, <1>5, <1>6 DEF CompleteSets

\* The market's own life, its final outcome above all, keeps the reserve exact.
LEMMA AdvanceKeepsReserve ==
    ASSUME SharedTradingAssumption, TypeOK, NEW b \in PredictionBooks,
           Backed(b, market[b]), NEW phase \in Phases,
           NEW final \in Outcomes \cup {Undecided}, AdvanceMarket(b, phase, final)
    PROVE  Backed(b, market'[b])
<1> DEFINE m == market[b]
           n == market'[b]
<1>1. /\ m \in MarketRecord /\ m.yes_supply \in Nat
  BY DEF TypeOK, MarketRecord, Books
<1>2. /\ m.status # "Resolved"
      /\ phase = "Resolved" => final \in Outcomes
  BY DEF AdvanceMarket, CanMove, Outcomes
<1>3. /\ n.status = phase /\ n.final_outcome = final
      /\ n.yes_supply = m.yes_supply /\ n.no_supply = m.no_supply
      /\ n.backing_reserve = m.backing_reserve /\ n.vault = m.vault
  <2>1. n = [m EXCEPT !.status = phase, !.final_outcome = final]
    BY DEF AdvanceMarket, TypeOK, Books
  <2> QED
    BY <1>1, <2>1 DEF MarketRecord
<1>4. phase = "Resolved" =>
          PayoutOf(b, final, m.yes_supply, m.yes_supply) = m.yes_supply * Payout[b]
  BY <1>1, <1>2, OutcomeWorth
<1>5. /\ m.vault = m.backing_reserve
      /\ m.backing_reserve = m.yes_supply * Payout[b]
      /\ m.yes_supply = m.no_supply
  BY <1>2 DEF Backed
<1> HIDE DEF m, n
<1>6. Backed(b, n)
  BY <1>3, <1>4, <1>5 DEF Backed
<1> QED
  BY <1>6 DEF n

-----------------------------------------------------------------------------

\* The reserve is exactly what the outstanding contracts are worth, for every
\* payout and supply (complete_set, redeem, and the steps that resolve).
THEOREM ReserveStaysExact == Spec => []ReserveExact
<1> DEFINE Inv == \A b \in PredictionBooks : Backed(b, market[b])
<1>1. Init => Inv
  <2> SUFFICES ASSUME Init, NEW b \in PredictionBooks
               PROVE  Backed(b, market[b])
    OBVIOUS
  <2>1. b \in Books /\ b \notin SpotBooks /\ 0 * Payout[b] = 0
    BY SharedTradingAssumption, PayoutEven DEF SharedTradingAssumption, Books
  <2> QED
    BY <2>1 DEF Init, Backed, IsSpot
<1>2. TypeOK /\ Inv /\ [Next]_vars => Inv'
  <2> SUFFICES ASSUME TypeOK, Inv, [Next]_vars, NEW b \in PredictionBooks
               PROVE  Backed(b, market'[b])
    OBVIOUS
  <2>1. Backed(b, market[b]) /\ SharedTradingAssumption /\ b \in Books /\ b \notin SpotBooks
    BY SharedTradingAssumption DEF SharedTradingAssumption, Books
  <2>2. CASE market'[b] = market[b]
    BY <2>1, <2>2
  <2>3. CASE CompleteSets(b)
    BY <2>1, <2>3, SetsKeepReserve
  <2>4. CASE \E phase \in Phases, final \in Outcomes \cup {Undecided} :
                 AdvanceMarket(b, phase, final)
    BY <2>1, <2>4, AdvanceKeepsReserve
  <2>5. \/ market'[b] = market[b]
        \/ CompleteSets(b)
        \/ \E phase \in Phases, final \in Outcomes \cup {Undecided} :
               AdvanceMarket(b, phase, final)
    <3>1. \A c, d \in Books : d # c => \A new : [market EXCEPT ![c] = new][d] = market[d]
      BY DEF TypeOK
    <3>2. Custody => market' = market
      BY DEF Custody, Deposit, Withdraw
    <3>3. \A c : Place(c) => market' = market
      BY DEF Place, PlaceAppend, PlaceNewLevel, Placing
    <3>4. \A c : CancelOrder(c) \/ MatchOrder(c) => market' = market
      <4>1. ASSUME NEW c, NEW t, NEW i, Cancel(t, c, i)
            PROVE  market' = market
        <5>1. UNCHANGED <<market, wallet, vault>>
          BY <4>1, Zenon DEF Cancel
        <5> QED
          BY <5>1
      <4>2. ASSUME NEW c, NEW t, NEW l, NEW limit, NEW q, NEW bps, NEW i,
                   Match(t, c, l, limit, q, bps, i)
            PROVE  market' = market
        <5>1. UNCHANGED <<market, wallet, vault>>
          BY <4>2, Zenon DEF Match
        <5> QED
          BY <5>1
      <4> QED
        BY <4>1, <4>2, Zenon DEF CancelOrder, MatchOrder
    <3>5. \A c : Administration(c) => market' = market
      BY DEF Administration, InitializeBook, CloseBook, WithdrawFees
    <3>6. \A c \in SpotBooks : PauseMarket(c) \/ UnpauseMarket(c) => market'[b] = market[b]
      BY <2>1 DEF PauseMarket, UnpauseMarket, TypeOK
    <3>7. \A c \in PredictionBooks \ {b} : CompleteSets(c) => market'[b] = market[b]
      BY <2>1 DEF CompleteSets, Split, Merge, Redeem, TypeOK
    <3>8. \A c \in PredictionBooks \ {b} : \A phase, final :
              AdvanceMarket(c, phase, final) => market'[b] = market[b]
      BY <2>1 DEF AdvanceMarket, TypeOK
    <3> QED
      BY <3>2, <3>3, <3>4, <3>5, <3>6, <3>7, <3>8, Zenon DEF Next, vars
  <2> QED
    BY <2>2, <2>3, <2>4, <2>5
<1>3. Inv => ReserveExact
  BY DEF ReserveExact, Backed
<1> QED
  BY <1>1, <1>2, <1>3, TypeCorrect, PTL DEF Spec
=============================================================================
