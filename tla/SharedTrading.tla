--------------------------- MODULE SharedTrading ---------------------------
(***************************************************************************)
(* The shared-wallet exchange: one AssetBalance per owner and mint backs   *)
(* the orders of every book, each book is four sorted lists of price       *)
(* levels, each level a FIFO queue, both doubly linked through accounts.   *)
(* One action is one instruction: the runtime makes an instruction atomic, *)
(* and a failed require! or checked operation undoes it, so a check is a   *)
(* conjunct of the guard.                                                  *)
(*                                                                         *)
(* The neighbouring accounts an instruction needs are inputs chosen by the *)
(* client (hints).  Where the code compares a hint with a stored link the  *)
(* link itself stands for it, any other hint being rejected; where the     *)
(* code only checks relations (the better neighbour of a new level) every  *)
(* hint is tried.                                                          *)
(***************************************************************************)
EXTENDS Matching, PredictionLifecycle, FiniteSets

CONSTANTS
    Traders,
    Mints,          \* SPL mints with a global vault
    Assets,         \* Mints, and the YES/NO positions of prediction markets
    SpotBooks,
    PredictionBooks,
    QuoteOf,        \* [Books -> Mints]
    ClaimOf,        \* [Books -> [Outcome -> Assets]]: base claim of an outcome
    Scale,          \* [Books -> Nat]: 10^base_decimals, 1 for a prediction
    Tick, Lot,      \* [Books -> Nat]
    Payout,         \* [Books -> Nat]: collateral atoms per winning contract
    WalletTokens,   \* [Traders -> [Mints -> Nat]]: tokens before any deposit
    Prices,         \* bound: the prices orders are placed at
    Quantities,     \* bound: the quantities placed, taken, split and redeemed
    TransferAmounts,\* bound: the amounts deposited and withdrawn
    FeeRates,       \* bound: the taker fee rates (bps) a fill may find
    MaxOrders       \* bound: order ids a book may use

Books == SpotBooks \cup PredictionBooks
Lists == {"Spot", "Yes", "No"} \X Sides     \* best_prices slots
Ids   == 1 .. MaxOrders
None  == 0                                  \* an absent price, order or hint

ASSUME SharedTradingAssumption ==
    /\ SpotBooks \cap PredictionBooks = {}
    /\ IsFiniteSet(Traders) /\ IsFiniteSet(Books) /\ IsFiniteSet(Prices)
    /\ Mints \subseteq Assets
    /\ MaxOrders \in Nat
    /\ Prices \subseteq Nat \ {0}
    /\ Quantities \subseteq Nat \ {0}
    /\ TransferAmounts \subseteq Nat \ {0}
    /\ FeeRates \subseteq 0 .. MAX_TAKER_FEE_BPS
    /\ \A b \in Books : /\ Scale[b] \in Nat \ {0}
                        /\ Tick[b] \in Nat \ {0}
                        /\ Lot[b] \in Nat \ {0}
                        /\ QuoteOf[b] \in Mints
    /\ \A b \in SpotBooks : ClaimOf[b]["Spot"] \in Mints \ {QuoteOf[b]}
    /\ WalletTokens \in [Traders -> [Mints -> Nat]]
    /\ \A b \in PredictionBooks : /\ Payout[b] \in Nat \ {0}
                                  /\ Payout[b] % 2 = 0
                                  /\ Scale[b] = 1 /\ Lot[b] = 1
                                  /\ ClaimOf[b]["Yes"] \in Assets \ Mints
                                  /\ ClaimOf[b]["No"] \in Assets \ Mints
    \* a position account belongs to one side of one question
    /\ \A b, c \in PredictionBooks : \A o, r \in {"Yes", "No"} :
           ClaimOf[b][o] = ClaimOf[c][r] => b = c /\ o = r

VARIABLES
    market, \* [b]: status and, for a prediction, supplies, reserve and vault
    book,   \* [b]: the SharedBook root; live is whether its account exists
    order,  \* [b][id]: SharedOrder accounts, kept for ever once created
    level,  \* [b][list][price]: SharedPriceLevel accounts, count 0 if absent
    claim,  \* [t][asset]: free and locked
    wallet, \* [t][mint]: the trader's own token account
    vault   \* [mint]: the global asset vault

vars == <<market, book, order, level, claim, wallet, vault>>

-----------------------------------------------------------------------------
(* Records *)

AbsentOrder ==
    [owner |-> "none", list |-> <<"Spot", "Bid">>, price |-> None,
     previous_order |-> None, next_order |-> None, quantity |-> 0,
     remaining_quantity |-> 0, locked_collateral |-> 0, status |-> "Absent"]

AbsentLevel ==
    [better_price |-> None, worse_price |-> None, first_order |-> None,
     last_order |-> None, total_remaining_quantity |-> 0, order_count |-> 0]

EmptyBook ==
    [best_prices |-> [l \in Lists |-> None], next_order_id |-> 1,
     open_order_count |-> 0, accrued_quote_fees |-> 0, live |-> TRUE]

IsSpot(b) == b \in SpotBooks
OutcomesOf(b) == IF IsSpot(b) THEN {"Spot"} ELSE {"Yes", "No"}
ListsOf(b) == OutcomesOf(b) \X Sides
OppositeList(l) == <<l[1], OppositeSide(l[2])>>

\* terms(.., trading = true)
TradingOpen(b) ==
    /\ book[b].live
    /\ market[b].status = IF IsSpot(b) THEN "Active" ELSE "Open"

\* The balances c after t's balance of asset a changed by these amounts.
Change(c, t, a, free, locked) ==
    [c EXCEPT ![t][a] = [free |-> @.free + free, locked |-> @.locked + locked]]

\* What a resting order of list l locks, and in which asset.
LockedAsset(b, l) == IF l[2] = "Bid" THEN QuoteOf[b] ELSE ClaimOf[b][l[1]]

\* order_terms
OrderTerms(b, l, price, quantity) ==
    /\ l \in ListsOf(b)
    /\ price > 0 /\ price % Tick[b] = 0
    /\ quantity > 0 /\ quantity % Lot[b] = 0
    /\ ~IsSpot(b) => price < Payout[b]
    /\ QuoteAmount(Scale[b], price, quantity) > 0

\* order(): the checks every handler repeats on an order account it is given.
ValidOrder(b, i) ==
    /\ i \in Ids
    /\ i < book[b].next_order_id
    /\ order[b][i].status = "Open"
    /\ order[b][i].remaining_quantity > 0
    /\ order[b][i].remaining_quantity <= order[b][i].quantity
    /\ order[b][i].price > 0
    /\ order[b][i].locked_collateral > 0
    /\ LET min == Collateral(Scale[b], order[b][i].list[2], order[b][i].price,
                             order[b][i].remaining_quantity)
       IN  IF order[b][i].list[2] = "Bid"
           THEN order[b][i].locked_collateral >= min
           ELSE order[b][i].locked_collateral = min

\* level()
ValidLevel(b, l, p) ==
    /\ p \in Prices
    /\ level[b][l][p].order_count > 0
    /\ level[b][l][p].total_remaining_quantity > 0
    /\ level[b][l][p].first_order # None
    /\ level[b][l][p].last_order # None

AtLevel(b, i, l, p) == order[b][i].list = l /\ order[b][i].price = p

Best(b, l) == book[b].best_prices[l]

\* better_price is absent exactly at the head, and nothing precedes the head.
HeadConsistent(b, l, p) ==
    /\ Best(b, l) # None
    /\ (Best(b, l) = p) <=> (level[b][l][p].better_price = None)
    /\ ~BetterPrice(l[2], p, Best(b, l))

-----------------------------------------------------------------------------
(* place_shared_order *)

\* Mutant: a price equal to the opposite best is let in.
RestingOrTouching(b, l, p) ==
    LET opposite == Best(b, OppositeList(l))
    IN  opposite # None => ~BetterPrice(l[2], p, opposite)

\* The opposite best of the same outcome must not be reached.
Resting(b, l, p) ==
    LET opposite == Best(b, OppositeList(l))
    IN  opposite # None => ~PricesCross(l[2], p, opposite)

\* Checks for appending to an existing level behind its last order.
Appendable(b, l, p) ==
    LET lv   == level[b][l][p]
        tail == lv.last_order
    IN  /\ ValidLevel(b, l, p)
        /\ HeadConsistent(b, l, p)
        /\ ValidOrder(b, tail)
        /\ AtLevel(b, tail, l, p)
        /\ order[b][tail].next_order = None
        /\ IF lv.order_count = 1
           THEN /\ lv.first_order = tail
                /\ order[b][tail].previous_order = None
                /\ lv.total_remaining_quantity = order[b][tail].remaining_quantity
           ELSE /\ lv.first_order # tail
                /\ order[b][tail].previous_order # None
                /\ lv.total_remaining_quantity > order[b][tail].remaining_quantity

\* Level lv with order id of quantity q behind its queue.
Appended(lv, id, q) ==
    [lv EXCEPT !.last_order = id, !.order_count = @ + 1,
               !.total_remaining_quantity = @ + q]

\* The worse neighbour that goes with `better`: what follows it, or the head.
WorseOf(b, l, better) ==
    IF better = None THEN Best(b, l) ELSE level[b][l][better].worse_price

\* Checks for a new level behind `better`, or in front of the whole list.
Insertable(b, l, p, better) ==
    LET worse == WorseOf(b, l, better)
    IN  /\ level[b][l][p].order_count = 0
        /\ better # None =>
               /\ Best(b, l) # None
               /\ ValidLevel(b, l, better)
               /\ BetterPrice(l[2], better, p)
               /\ ~BetterPrice(l[2], better, Best(b, l))
               /\ (level[b][l][better].better_price = None) <=> (better = Best(b, l))
        /\ worse # None =>
               /\ ValidLevel(b, l, worse)
               /\ level[b][l][worse].better_price = better
               /\ BetterPrice(l[2], p, worse)

\* The list with a new level p of one order, id next_order_id, behind better.
LevelsWith(b, l, p, q, better) ==
    LET old   == level[b][l]
        worse == WorseOf(b, l, better)
        id    == book[b].next_order_id
    IN  [x \in Prices |->
            IF x = p
            THEN [better_price |-> better, worse_price |-> worse,
                  first_order |-> id, last_order |-> id,
                  total_remaining_quantity |-> q, order_count |-> 1]
            ELSE [old[x] EXCEPT !.worse_price  = IF x = better THEN p ELSE @,
                                !.better_price = IF x = worse THEN p ELSE @]]

\* Mutant: init_if_needed, the account of an earlier root is taken over.
InitIfNeeded(b, id) == TRUE

\* init: the account of this id was never created.
NewAccount(b, id) == order[b][id].status = "Absent"

\* The part both branches share: identity, funds, the lock and the new order.
Placing(t, b, l, p, q, previous) ==
    LET id     == book[b].next_order_id
        amount == Collateral(Scale[b], l[2], p, q)
        asset  == LockedAsset(b, l)
    IN  /\ TradingOpen(b)
        /\ OrderTerms(b, l, p, q)
        /\ id \in Ids                           \* bound
        /\ NewAccount(b, id)
        /\ Resting(b, l, p)
        /\ claim[t][asset].free >= amount
        /\ claim' = Change(claim, t, asset, -amount, amount)
        /\ order' = [order EXCEPT ![b] =
               [j \in Ids |->
                    IF j = id
                    THEN [owner |-> t, list |-> l, price |-> p,
                          previous_order |-> previous, next_order |-> None,
                          quantity |-> q, remaining_quantity |-> q,
                          locked_collateral |-> amount, status |-> "Open"]
                    ELSE IF j = previous
                    THEN [order[b][j] EXCEPT !.next_order = id]
                    ELSE order[b][j]]]
        /\ UNCHANGED <<market, wallet, vault>>

PlaceAppend(t, b, l, p, q) ==
    /\ Appendable(b, l, p)
    /\ Placing(t, b, l, p, q, level[b][l][p].last_order)
    /\ level' = [level EXCEPT ![b][l][p] = Appended(level[b][l][p],
                                                    book[b].next_order_id, q)]
    /\ book' = [book EXCEPT ![b].next_order_id = @ + 1,
                            ![b].open_order_count = @ + 1]

PlaceNewLevel(t, b, l, p, q, better) ==
    /\ Insertable(b, l, p, better)
    /\ Placing(t, b, l, p, q, None)
    /\ level' = [level EXCEPT ![b][l] = LevelsWith(b, l, p, q, better)]
    /\ book' = [book EXCEPT ![b].next_order_id = @ + 1,
                            ![b].open_order_count = @ + 1,
                            ![b].best_prices[l] = IF better = None THEN p ELSE @]

-----------------------------------------------------------------------------
(* remove_order, shared by cancellation and by a complete fill *)

\* remove_order's checks on the order, its level and their neighbours.
Removable(b, i) ==
    LET o  == order[b][i]
        l  == o.list
        lv == level[b][l][o.price]
        previous == o.previous_order
        next     == o.next_order
    IN  /\ ValidOrder(b, i)
        /\ ValidLevel(b, l, o.price)
        /\ HeadConsistent(b, l, o.price)
        /\ (lv.first_order = i) <=> (previous = None)
        /\ (lv.last_order = i) <=> (next = None)
        /\ previous # None => /\ ValidOrder(b, previous)
                              /\ AtLevel(b, previous, l, o.price)
                              /\ order[b][previous].next_order = i
                              /\ previous < i
        /\ next # None => /\ ValidOrder(b, next)
                          /\ AtLevel(b, next, l, o.price)
                          /\ order[b][next].previous_order = i
                          /\ next > i
        /\ book[b].open_order_count >= 1
        /\ IF lv.order_count > 1
           THEN /\ lv.total_remaining_quantity > o.remaining_quantity
                /\ previous # None \/ next # None
           ELSE /\ lv.total_remaining_quantity = o.remaining_quantity
                /\ previous = None /\ next = None
                /\ lv.better_price # None =>
                       /\ ValidLevel(b, l, lv.better_price)
                       /\ level[b][l][lv.better_price].worse_price = o.price
                       /\ BetterPrice(l[2], lv.better_price, o.price)
                /\ lv.worse_price # None =>
                       /\ ValidLevel(b, l, lv.worse_price)
                       /\ level[b][l][lv.worse_price].better_price = o.price
                       /\ BetterPrice(l[2], o.price, lv.worse_price)

\* Mutant: only the order in front is relinked.
OrdersWithoutForward(b, i, final) ==
    LET o == order[b][i]
    IN  [j \in Ids |->
            IF j = i THEN final
            ELSE [order[b][j] EXCEPT
                     !.next_order = IF j = o.previous_order THEN o.next_order ELSE @]]

\* The orders of b with i replaced by `final` and its neighbours relinked.
OrdersWithout(b, i, final) ==
    LET o == order[b][i]
    IN  [j \in Ids |->
            IF j = i THEN final
            ELSE [order[b][j] EXCEPT
                     !.next_order     = IF j = o.previous_order THEN o.next_order ELSE @,
                     !.previous_order = IF j = o.next_order THEN o.previous_order ELSE @]]

OnlyOrderOfLevel(b, i) == level[b][order[b][i].list][order[b][i].price].order_count = 1

\* The list of the order: its queue shrinks, a level left empty is closed and
\* the levels around it become neighbours.
LevelsWithout(b, i) ==
    LET o   == order[b][i]
        old == level[b][o.list]
        lv  == old[o.price]
    IN  IF OnlyOrderOfLevel(b, i)
        THEN [x \in Prices |->
                IF x = o.price THEN AbsentLevel
                ELSE [old[x] EXCEPT
                         !.worse_price  = IF x = lv.better_price THEN lv.worse_price ELSE @,
                         !.better_price = IF x = lv.worse_price THEN lv.better_price ELSE @]]
        ELSE [old EXCEPT ![o.price] =
                [lv EXCEPT !.first_order = IF o.previous_order = None THEN o.next_order ELSE @,
                           !.last_order  = IF o.next_order = None THEN o.previous_order ELSE @,
                           !.order_count = @ - 1,
                           !.total_remaining_quantity = @ - o.remaining_quantity]]

\* Mutant: the best price is not moved when its level closes.
BookWithoutNewBest(b, i) == [book[b] EXCEPT !.open_order_count = @ - 1]

BookWithout(b, i) ==
    LET o  == order[b][i]
        lv == level[b][o.list][o.price]
    IN  [book[b] EXCEPT !.open_order_count = @ - 1,
                        !.best_prices[o.list] =
                            IF OnlyOrderOfLevel(b, i) /\ lv.better_price = None
                            THEN lv.worse_price ELSE @]

\* cancel_shared_order: the owner takes back the whole remaining lock, whatever
\* the state of the market.
Cancel(t, b, i) ==
    LET o     == order[b][i]
        asset == LockedAsset(b, o.list)
    IN  /\ book[b].live
        /\ o.owner = t
        /\ Removable(b, i)
        /\ claim[t][asset].locked >= o.locked_collateral
        /\ claim' = Change(claim, t, asset, o.locked_collateral, -o.locked_collateral)
        /\ order' = [order EXCEPT ![b] = OrdersWithout(b, i,
                        [o EXCEPT !.status = "Canceled", !.locked_collateral = 0,
                                  !.previous_order = None, !.next_order = None])]
        /\ level' = [level EXCEPT ![b][o.list] = LevelsWithout(b, i)]
        /\ book' = [book EXCEPT ![b] = BookWithout(b, i)]
        /\ UNCHANGED <<market, wallet, vault>>

-----------------------------------------------------------------------------
(* match_shared_order *)

\* The maker is the oldest order of the best opposite price, and not the taker's.
MatchableMaker(t, b, l, i) ==
    LET o  == order[b][i]
        lv == level[b][o.list][o.price]
    IN  /\ ValidOrder(b, i)
        /\ ValidLevel(b, o.list, o.price)
        /\ o.owner # t
        /\ o.list[1] = l[1]
        /\ Best(b, OppositeList(l)) = o.price
        /\ lv.better_price = None
        /\ lv.first_order = i
        /\ o.previous_order = None

\* Mutant: the fee is not asked of the buyer's balance.
BuyWithoutFee(t, b, o, plan, fee) ==
    LET quote == QuoteOf[b]
        base  == ClaimOf[b][o.list[1]]
    IN  /\ claim[t][quote].free >= plan.quote
        /\ claim[o.owner][base].locked >= plan.debit
        /\ LET taker == Change(Change(claim, t, quote, -(plan.quote + fee), 0),
                                t, base, plan.base, 0)
           IN  claim' = Change(Change(taker, o.owner, quote, plan.quote, 0),
                               o.owner, base, 0, -plan.debit)

\* Taker t buys: pays the price and the fee from free quote, the maker's locked
\* base becomes the taker's.
SettleBuy(t, b, o, plan, fee) ==
    LET quote == QuoteOf[b]
        base  == ClaimOf[b][o.list[1]]
    IN  /\ claim[t][quote].free >= plan.quote + fee
        /\ claim[o.owner][base].locked >= plan.debit
        /\ LET taker == Change(Change(claim, t, quote, -(plan.quote + fee), 0),
                                t, base, plan.base, 0)
           IN  claim' = Change(Change(taker, o.owner, quote, plan.quote, 0),
                               o.owner, base, 0, -plan.debit)

\* Taker t sells: free base goes to the maker, the maker's locked quote pays the
\* taker less the fee and returns the rounding remainder of a finished bid.
SettleSell(t, b, o, plan, fee) ==
    LET quote == QuoteOf[b]
        base  == ClaimOf[b][o.list[1]]
    IN  /\ plan.quote >= fee
        /\ claim[t][base].free >= plan.base
        /\ claim[o.owner][quote].locked >= plan.debit
        /\ LET taker == Change(Change(claim, t, base, -plan.base, 0),
                                t, quote, plan.quote - fee, 0)
           IN  claim' = Change(Change(taker, o.owner, base, plan.base, 0),
                               o.owner, quote, plan.refund, -plan.debit)

Match(t, b, l, limit, q, bps, i) ==
    LET o    == order[b][i]
        plan == Settlement(Scale[b], o.list[2], o.price, q,
                           o.remaining_quantity, o.locked_collateral)
        fee  == TakerFee(plan.quote, bps)
        left == [o EXCEPT !.remaining_quantity = @ - plan.base,
                          !.locked_collateral  = @ - plan.debit]
    IN  /\ TradingOpen(b)
        /\ OrderTerms(b, l, limit, q)
        /\ MatchableMaker(t, b, l, i)
        /\ Settles(Scale[b], l[2], limit, o.list[2], o.price, q,
                   o.remaining_quantity, o.locked_collateral)
        /\ level[b][o.list][o.price].total_remaining_quantity >= plan.base
        /\ IF l[2] = "Bid" THEN SettleBuy(t, b, o, plan, fee)
                           ELSE SettleSell(t, b, o, plan, fee)
        /\ \/ /\ plan.fully_filled
              /\ Removable(b, i)
              /\ order' = [order EXCEPT ![b] = OrdersWithout(b, i,
                              [left EXCEPT !.status = "Filled",
                                           !.previous_order = None, !.next_order = None])]
              /\ level' = [level EXCEPT ![b][o.list] = LevelsWithout(b, i)]
              /\ book' = [book EXCEPT ![b] = [BookWithout(b, i) EXCEPT
                              !.accrued_quote_fees = book[b].accrued_quote_fees + fee]]
           \/ /\ ~plan.fully_filled
              /\ order' = [order EXCEPT ![b][i] = left]
              /\ level' = [level EXCEPT
                     ![b][o.list][o.price].total_remaining_quantity = @ - plan.base]
              /\ book' = [book EXCEPT ![b].accrued_quote_fees = @ + fee]
        /\ UNCHANGED <<market, wallet, vault>>

-----------------------------------------------------------------------------
(* asset_wallet.rs: real tokens in and out of the global vault *)

Deposit(t, m, amount) ==
    /\ wallet[t][m] >= amount
    /\ wallet' = [wallet EXCEPT ![t][m] = @ - amount]
    /\ vault' = [vault EXCEPT ![m] = @ + amount]
    /\ claim' = Change(claim, t, m, amount, 0)
    /\ UNCHANGED <<market, book, order, level>>

Withdraw(t, m, amount) ==
    /\ claim[t][m].free >= amount
    /\ vault[m] >= amount
    /\ wallet' = [wallet EXCEPT ![t][m] = @ + amount]
    /\ vault' = [vault EXCEPT ![m] = @ - amount]
    /\ claim' = Change(claim, t, m, -amount, 0)
    /\ UNCHANGED <<market, book, order, level>>

-----------------------------------------------------------------------------
(* shared_prediction.rs: complete sets and redemption *)

\* Mutant: the NO side of a set is forgotten.
ChangeYesOnly(t, b, cash, yes, no) ==
    Change(Change(claim, t, QuoteOf[b], cash, 0), t, ClaimOf[b]["Yes"], yes, 0)

\* A trader's cash and contracts of one question change together.
ChangeSet(t, b, cash, yes, no) ==
    Change(Change(Change(claim, t, QuoteOf[b], cash, 0),
                  t, ClaimOf[b]["Yes"], yes, 0),
           t, ClaimOf[b]["No"], no, 0)

\* The question m after cash moved to its vault and contracts were issued.
ChangeReserve(m, cash, yes, no) ==
    [m EXCEPT !.yes_supply = @ + yes, !.no_supply = @ + no,
              !.backing_reserve = @ + cash, !.vault = @ + cash]

\* Cash leaves the global vault for the question's vault; one YES and one NO
\* are issued for each payout set aside.
Split(t, b, q) ==
    LET cost == q * Payout[b]
        cash == QuoteOf[b]
    IN  /\ market[b].status = "Open"
        /\ vault[cash] >= cost
        /\ claim[t][cash].free >= cost
        /\ vault' = [vault EXCEPT ![cash] = @ - cost]
        /\ claim' = ChangeSet(t, b, -cost, q, q)
        /\ market' = [market EXCEPT ![b] = ChangeReserve(market[b], cost, q, q)]
        /\ UNCHANGED <<book, order, level, wallet>>

Merge(t, b, q) ==
    LET cost == q * Payout[b]
        cash == QuoteOf[b]
    IN  /\ market[b].status \in {"Open", "Expired", "Frozen", "Proposed"}
        /\ market[b].vault >= cost
        /\ claim[t][ClaimOf[b]["Yes"]].free >= q
        /\ claim[t][ClaimOf[b]["No"]].free >= q
        /\ market[b].yes_supply >= q /\ market[b].no_supply >= q
        /\ market[b].backing_reserve >= cost
        /\ vault' = [vault EXCEPT ![cash] = @ + cost]
        /\ claim' = ChangeSet(t, b, cost, -q, -q)
        /\ market' = [market EXCEPT ![b] = ChangeReserve(market[b], -cost, -q, -q)]
        /\ UNCHANGED <<book, order, level, wallet>>

\* Mutant: an Invalid contract is paid like a winning one.
PayoutInFull(b, final, yes, no) ==
    CASE final = "Yes"     -> yes * Payout[b]
      [] final = "No"      -> no * Payout[b]
      [] final = "Invalid" -> (yes + no) * Payout[b]

\* What yes + no contracts are worth once the outcome is final.
PayoutOf(b, final, yes, no) ==
    CASE final = "Yes"     -> yes * Payout[b]
      [] final = "No"      -> no * Payout[b]
      [] final = "Invalid" -> (yes + no) * (Payout[b] \div 2)

Redeem(t, b, yes, no) ==
    LET amount == PayoutOf(b, market[b].final_outcome, yes, no)
        cash   == QuoteOf[b]
    IN  /\ yes > 0 \/ no > 0
        /\ market[b].status = "Resolved"
        /\ market[b].vault >= amount
        /\ claim[t][ClaimOf[b]["Yes"]].free >= yes
        /\ claim[t][ClaimOf[b]["No"]].free >= no
        /\ market[b].yes_supply >= yes /\ market[b].no_supply >= no
        /\ market[b].backing_reserve >= amount
        /\ vault' = [vault EXCEPT ![cash] = @ + amount]
        /\ claim' = ChangeSet(t, b, amount, -yes, -no)
        /\ market' = [market EXCEPT ![b] = ChangeReserve(market[b], -amount, -yes, -no)]
        /\ UNCHANGED <<book, order, level, wallet>>

-----------------------------------------------------------------------------
(* shared_book.rs and the markets underneath *)

\* Order accounts of an earlier root under the same market are still there.
InitializeBook(b) ==
    /\ ~book[b].live
    /\ book' = [book EXCEPT ![b] = EmptyBook]
    /\ UNCHANGED <<market, order, level, claim, wallet, vault>>

\* Mutant: a root closes with fees still owed to it.
CloseWithFees(b) ==
    /\ book[b].live
    /\ book[b].open_order_count = 0
    /\ \A l \in Lists : Best(b, l) = None
    /\ market[b].status = IF IsSpot(b) THEN "Paused" ELSE "Resolved"
    /\ book' = [book EXCEPT ![b].live = FALSE]
    /\ UNCHANGED <<market, order, level, claim, wallet, vault>>

\* Mutant: a root closes under its orders.
CloseWithOrders(b) ==
    /\ book[b].live
    /\ book[b].accrued_quote_fees = 0
    /\ market[b].status = IF IsSpot(b) THEN "Paused" ELSE "Resolved"
    /\ book' = [book EXCEPT ![b].live = FALSE]
    /\ UNCHANGED <<market, order, level, claim, wallet, vault>>

CloseBook(b) ==
    /\ book[b].live
    /\ book[b].open_order_count = 0
    /\ book[b].accrued_quote_fees = 0
    /\ \A l \in Lists : Best(b, l) = None
    /\ market[b].status = IF IsSpot(b) THEN "Paused" ELSE "Resolved"
    /\ book' = [book EXCEPT ![b].live = FALSE]
    /\ UNCHANGED <<market, order, level, claim, wallet, vault>>

WithdrawFees(b, amount) ==
    /\ book[b].live
    /\ book[b].accrued_quote_fees >= amount
    /\ vault[QuoteOf[b]] >= amount
    /\ book' = [book EXCEPT ![b].accrued_quote_fees = @ - amount]
    /\ vault' = [vault EXCEPT ![QuoteOf[b]] = @ - amount]
    /\ UNCHANGED <<market, order, level, claim, wallet>>

PauseMarket(b) ==
    /\ market[b].status = "Active"
    /\ market' = [market EXCEPT ![b].status = "Paused"]
    /\ UNCHANGED <<book, order, level, claim, wallet, vault>>

UnpauseMarket(b) ==
    /\ market[b].status = "Paused"
    /\ market' = [market EXCEPT ![b].status = "Active"]
    /\ UNCHANGED <<book, order, level, claim, wallet, vault>>

\* Any lifecycle step of the question, decided elsewhere (see Resolution).
AdvanceMarket(b, phase, final) ==
    /\ CanMove(market[b].status, market[b].final_outcome, phase, final)
    /\ market' = [market EXCEPT ![b].status = phase, ![b].final_outcome = final]
    /\ UNCHANGED <<book, order, level, claim, wallet, vault>>

-----------------------------------------------------------------------------

Init ==
    /\ market = [b \in Books |->
           [status |-> IF IsSpot(b) THEN "Active" ELSE "Draft",
            final_outcome |-> Undecided, yes_supply |-> 0, no_supply |-> 0,
            backing_reserve |-> 0, vault |-> 0]]
    /\ book = [b \in Books |-> [EmptyBook EXCEPT !.live = FALSE]]
    /\ order = [b \in Books |-> [i \in Ids |-> AbsentOrder]]
    /\ level = [b \in Books |-> [l \in Lists |-> [p \in Prices |-> AbsentLevel]]]
    /\ claim = [t \in Traders |-> [a \in Assets |-> [free |-> 0, locked |-> 0]]]
    /\ wallet = WalletTokens
    /\ vault = [m \in Mints |-> 0]

OrderHints == Ids \cup {None}
LevelHints == Prices \cup {None}

Place(b) ==
    \E t \in Traders, l \in ListsOf(b), p \in Prices, q \in Quantities :
        \/ PlaceAppend(t, b, l, p, q)
        \/ \E better \in LevelHints : PlaceNewLevel(t, b, l, p, q, better)

CancelOrder(b) == \E t \in Traders, i \in Ids : Cancel(t, b, i)

MatchOrder(b) ==
    \E i \in Ids, t \in Traders, l \in ListsOf(b), limit \in Prices,
       q \in Quantities, bps \in FeeRates : Match(t, b, l, limit, q, bps, i)

Custody ==
    \E t \in Traders, m \in Mints, amount \in TransferAmounts :
        Deposit(t, m, amount) \/ Withdraw(t, m, amount)

CompleteSets(b) ==
    \E t \in Traders :
        \/ \E q \in Quantities : Split(t, b, q) \/ Merge(t, b, q)
        \/ \E yes, no \in Quantities \cup {0} : Redeem(t, b, yes, no)

Administration(b) ==
    \/ InitializeBook(b)
    \/ CloseBook(b)
    \/ \E amount \in 1 .. book[b].accrued_quote_fees : WithdrawFees(b, amount)

Next ==
    \/ Custody
    \/ \E b \in Books : \/ Place(b) \/ CancelOrder(b) \/ MatchOrder(b)
                        \/ Administration(b)
    \/ \E b \in SpotBooks : PauseMarket(b) \/ UnpauseMarket(b)
    \/ \E b \in PredictionBooks :
           \/ CompleteSets(b)
           \/ \E phase \in Phases, final \in Outcomes \cup {Undecided} :
                  AdvanceMarket(b, phase, final)

Spec == Init /\ [][Next]_vars

=============================================================================
