-------------------------- MODULE LegacyPrediction --------------------------
(***************************************************************************)
(* One question of the per-market design: its own vault, one position per  *)
(* trader with cash, YES and NO, and one book of four sorted lists (bids   *)
(* and asks of each outcome).  The same market account, positions and      *)
(* vault are what shared_prediction.rs works on, so its complete sets and  *)
(* its redemption, the only one there is, are actions here: they move cash *)
(* between the question's vault and the shared wallet.  Orders of the      *)
(* shared book are SharedTrading's.                                        *)
(*                                                                         *)
(* One action is one instruction.  Contracts are whole and prices are      *)
(* atoms per contract, so no amount is ever rounded except the fee.        *)
(***************************************************************************)
EXTENDS Matching, PredictionLifecycle, FiniteSets

CONSTANTS
    Traders,
    Tick,
    Payout,         \* payout_per_contract, an even number of atoms
    WalletTokens,   \* [Traders -> Nat]: tokens before any deposit
    Tradable,       \* bound: the outcomes orders are placed on
    Prices,         \* bound: the prices orders are placed at
    Quantities,     \* bound: the contracts placed, taken, split and redeemed
    TransferAmounts,\* bound: the amounts deposited, withdrawn and migrated
    FeeRates,       \* bound: the taker fee rates (bps) a fill may find
    MaxOrders       \* bound: order ids the book may use

Contracts == {"Yes", "No"}
Buckets   == {"cash"} \cup Contracts    \* what a position holds
Lists     == Contracts \X Sides
Ids       == 1 .. MaxOrders
None      == 0                          \* an absent price, order or hint

ASSUME LegacyPredictionAssumption ==
    /\ Tick \in Nat \ {0}
    /\ Payout \in Nat \ {0} /\ Payout % 2 = 0
    /\ IsFiniteSet(Traders)
    /\ WalletTokens \in [Traders -> Nat]
    /\ Tradable \subseteq Contracts
    /\ Prices \subseteq Nat \ {0} /\ IsFiniteSet(Prices)
    /\ Quantities \subseteq Nat \ {0}
    /\ TransferAmounts \subseteq Nat \ {0}
    /\ FeeRates \subseteq 0 .. MAX_TAKER_FEE_BPS
    /\ MaxOrders \in Nat

VARIABLES
    market,      \* PredictionMarket: phase, outcome, supplies, reserve, counter
    book,        \* PredictionOrderBook: next_order_id and the four heads
    order,       \* [id]: PredictionOrder accounts, kept for ever once created
    level,       \* [list][price]: PredictionPriceLevel, order_count 0 if absent
    fees,        \* MarketFees.accrued_quote_fees of the question
    positions,   \* the traders whose PredictionPosition account exists
    position,    \* [t][bucket]: free and locked
    wallet,      \* [t]: the trader's own token account
    vault,       \* the question's collateral vault
    shared,      \* [t]: free cash in the shared wallet
    asset_vault  \* what the shared wallet's vault holds of it

vars == <<market, book, order, level, fees, positions, position, wallet, vault,
          shared, asset_vault>>
orders  == <<book, order, level>>
outside == <<positions, wallet, vault, shared, asset_vault>>

-----------------------------------------------------------------------------
(* Records *)

AbsentOrder ==
    [owner |-> "none", list |-> <<"Yes", "Bid">>, price |-> None,
     previous_order |-> None, next_order |-> None, quantity |-> 0,
     remaining_quantity |-> 0, locked_collateral |-> 0, status |-> "Absent"]

AbsentLevel ==
    [better_price |-> None, worse_price |-> None, first_order |-> None,
     last_order |-> None, total_remaining_quantity |-> 0, order_count |-> 0]

\* Status Open before close_ts; every trading handler asks for both.
Open == market.phase = "Open"

Best(l) == book.best[l]
Opposite(l) == <<l[1], OppositeSide(l[2])>>

\* The bucket an order of list l locks, and how much of it a quantity needs.
LockedBucket(l) == IF l[2] = "Bid" THEN "cash" ELSE l[1]
Backing(l, price, quantity) == IF l[2] = "Bid" THEN price * quantity ELSE quantity

\* The positions c after t's bucket changed by these amounts.
Change(c, t, bucket, free, locked) ==
    [c EXCEPT ![t][bucket] = [free |-> @.free + free, locked |-> @.locked + locked]]

LiveLevel(l, p) ==
    /\ p \in Prices
    /\ level[l][p].order_count > 0 /\ level[l][p].total_remaining_quantity > 0
    /\ level[l][p].first_order # None /\ level[l][p].last_order # None

\* An absent better_price marks the head of the list, and nothing precedes it.
HeadMarked(l, p) == (Best(l) = p) <=> (level[l][p].better_price = None)

HeadConsistent(l, p) ==
    /\ Best(l) # None
    /\ HeadMarked(l, p)
    /\ ~BetterPrice(l[2], p, Best(l))

OpenAt(i, l, p) ==
    /\ i \in Ids
    /\ order[i].status = "Open"
    /\ order[i].list = l /\ order[i].price = p
    /\ order[i].remaining_quantity \in 1 .. order[i].quantity

-----------------------------------------------------------------------------
(* Resting orders: what place, append and insert share *)

\* Mutant: the head of the other outcome is asked.
RestingAcrossOutcomes(l, p) ==
    LET other == Best(<<IF l[1] = "Yes" THEN "No" ELSE "Yes", OppositeSide(l[2])>>)
    IN  other # None => ~PricesCross(l[2], p, other)

\* The opposite best of the same outcome must not be reached.
Resting(l, p) == Best(Opposite(l)) # None => ~PricesCross(l[2], p, Best(Opposite(l)))

\* A price of the grid below the payout.
OnGrid(p) == p < Payout /\ p % Tick = 0

\* validate_resting_order, lock_resting_funds, and the account of the new order
\* behind `previous`.
Placing(t, l, p, q, previous) ==
    LET id     == book.next_order_id
        bucket == LockedBucket(l)
        amount == Backing(l, p, q)
    IN  /\ Open
        /\ OnGrid(p)
        /\ Resting(l, p)
        /\ t \in positions
        /\ position[t][bucket].free >= amount
        /\ position' = Change(position, t, bucket, -amount, amount)
        /\ order' = [j \in Ids |->
               IF j = id
               THEN [owner |-> t, list |-> l, price |-> p,
                     previous_order |-> previous, next_order |-> None,
                     quantity |-> q, remaining_quantity |-> q,
                     locked_collateral |-> amount, status |-> "Open"]
               ELSE IF j = previous THEN [order[j] EXCEPT !.next_order = id]
               ELSE order[j]]
        /\ market' = [market EXCEPT !.open_order_count = @ + 1]
        /\ UNCHANGED <<fees, outside>>

\* A level of one order, the next id, between two neighbours or none.
NewLevel(t, l, p, q, better, worse) ==
    LET id  == book.next_order_id
        old == level[l]
        new == [x \in Prices |->
                   IF x = p
                   THEN [better_price |-> better, worse_price |-> worse,
                         first_order |-> id, last_order |-> id,
                         total_remaining_quantity |-> q, order_count |-> 1]
                   ELSE [old[x] EXCEPT !.worse_price  = IF x = better THEN p ELSE @,
                                       !.better_price = IF x = worse THEN p ELSE @]]
    IN  /\ old[p].order_count = 0
        /\ Placing(t, l, p, q, None)
        /\ level' = [level EXCEPT ![l] = new]
        /\ book' = [book EXCEPT !.next_order_id = @ + 1,
                                !.best[l] = IF better = None THEN p ELSE @]

\* place_prediction_order: the side is empty.
PlacePredictionOrder(t, l, p, q) ==
    /\ Best(l) = None
    /\ NewLevel(t, l, p, q, None, None)

AppendPredictionOrder(t, l, p, q) ==
    LET lv   == level[l][p]
        tail == lv.last_order
    IN  /\ LiveLevel(l, p)
        /\ HeadConsistent(l, p)
        /\ OpenAt(tail, l, p)
        /\ tail < book.next_order_id
        /\ order[tail].next_order = None
        /\ IF lv.order_count = 1
           THEN /\ lv.first_order = tail
                /\ order[tail].previous_order = None
                /\ lv.total_remaining_quantity = order[tail].remaining_quantity
           ELSE /\ lv.first_order # tail
                /\ order[tail].previous_order \notin {None, tail}
                /\ lv.total_remaining_quantity >= order[tail].remaining_quantity
        /\ Placing(t, l, p, q, tail)
        /\ level' = [level EXCEPT ![l][p] =
               [lv EXCEPT !.last_order = book.next_order_id,
                          !.total_remaining_quantity = @ + q,
                          !.order_count = @ + 1]]
        /\ book' = [book EXCEPT !.next_order_id = @ + 1]

\* Mutant: the neighbours need only lie on either side of the price.
Surrounding(l, p, better, worse) ==
    /\ better # None \/ worse # None
    /\ better # None => LiveLevel(l, better) /\ BetterPrice(l[2], better, p)
    /\ worse # None => LiveLevel(l, worse) /\ BetterPrice(l[2], p, worse)

\* The neighbours of a new price: both links of an adjacent pair, the head of
\* the list behind a new best, the end of the list in front of a new worst.
Adjacent(l, p, better, worse) ==
    /\ better # None \/ worse # None
    /\ better # None => /\ LiveLevel(l, better) /\ HeadConsistent(l, better)
                        /\ level[l][better].worse_price = worse
                        /\ BetterPrice(l[2], better, p)
    /\ worse # None => /\ LiveLevel(l, worse) /\ HeadConsistent(l, worse)
                       /\ level[l][worse].better_price = better
                       /\ BetterPrice(l[2], p, worse)

InsertPredictionOrder(t, l, p, q, better, worse) ==
    /\ Best(l) # None
    /\ Adjacent(l, p, better, worse)
    /\ NewLevel(t, l, p, q, better, worse)

-----------------------------------------------------------------------------
(* Unlinking: the same in cancel and after a complete fill *)

OnlyOrderOfLevel(i) == level[order[i].list][order[i].price].order_count = 1

\* The lock is exactly what the remainder needs.
ExactlyBacked(i) ==
    order[i].locked_collateral =
        Backing(order[i].list, order[i].price, order[i].remaining_quantity)

\* Mutant: cancellation waits for trading, as placement does.
LinkedWhileOpen(i) == Open /\ OpenAt(i, order[i].list, order[i].price)

\* What cancellation asks of the order, its FIFO neighbours, its level and, when
\* the level closes, of the levels around it.
Linked(i) ==
    LET o  == order[i]
        l  == o.list
        lv == level[l][o.price]
    IN  /\ OpenAt(i, l, o.price)
        /\ i < book.next_order_id
        /\ ExactlyBacked(i)
        /\ LiveLevel(l, o.price)
        /\ HeadConsistent(l, o.price)
        /\ (lv.first_order = i) <=> (o.previous_order = None)
        /\ (lv.last_order = i) <=> (o.next_order = None)
        /\ o.previous_order # None => /\ OpenAt(o.previous_order, l, o.price)
                                      /\ order[o.previous_order].next_order = i
                                      /\ o.previous_order < i
        /\ o.next_order # None => /\ OpenAt(o.next_order, l, o.price)
                                  /\ order[o.next_order].previous_order = i
                                  /\ o.next_order > i
        /\ market.open_order_count >= 1
        /\ IF OnlyOrderOfLevel(i)
           THEN /\ o.previous_order = None /\ o.next_order = None
                /\ lv.total_remaining_quantity = o.remaining_quantity
                /\ lv.better_price # None =>
                       /\ LiveLevel(l, lv.better_price)
                       /\ HeadMarked(l, lv.better_price)
                       /\ level[l][lv.better_price].worse_price = o.price
                       /\ BetterPrice(l[2], lv.better_price, o.price)
                /\ lv.worse_price # None =>
                       /\ LiveLevel(l, lv.worse_price)
                       /\ HeadMarked(l, lv.worse_price)
                       /\ level[l][lv.worse_price].better_price = o.price
                       /\ BetterPrice(l[2], o.price, lv.worse_price)
           ELSE /\ lv.total_remaining_quantity > o.remaining_quantity
                /\ o.previous_order # None \/ o.next_order # None

\* The orders without i, which ended in this status; its neighbours relinked.
OrdersWithout(i, status) ==
    LET o == order[i]
    IN  [j \in Ids |->
            IF j = i
            THEN [o EXCEPT !.remaining_quantity = 0, !.locked_collateral = 0,
                           !.previous_order = None, !.next_order = None,
                           !.status = status]
            ELSE [order[j] EXCEPT
                     !.next_order     = IF j = o.previous_order THEN o.next_order ELSE @,
                     !.previous_order = IF j = o.next_order THEN o.previous_order ELSE @]]

\* The queue shrinks; a level left empty closes, its neighbours become adjacent.
LevelsWithout(i) ==
    LET o   == order[i]
        old == level[o.list]
        lv  == old[o.price]
    IN  IF OnlyOrderOfLevel(i)
        THEN [x \in Prices |->
                IF x = o.price THEN AbsentLevel
                ELSE [old[x] EXCEPT
                         !.worse_price  = IF x = lv.better_price THEN lv.worse_price ELSE @,
                         !.better_price = IF x = lv.worse_price THEN lv.better_price ELSE @]]
        ELSE [old EXCEPT ![o.price] =
                [lv EXCEPT !.first_order = IF o.previous_order = None THEN o.next_order ELSE @,
                           !.last_order  = IF o.next_order = None THEN o.previous_order ELSE @,
                           !.order_count = @ - 1,
                           !.total_remaining_quantity = @ - o.remaining_quantity]]

BookWithout(i) ==
    LET o  == order[i]
        lv == level[o.list][o.price]
    IN  [book EXCEPT !.best[o.list] = IF OnlyOrderOfLevel(i) /\ lv.better_price = None
                                      THEN lv.worse_price ELSE @]

Unlink(i, status) ==
    /\ order' = OrdersWithout(i, status)
    /\ level' = [level EXCEPT ![order[i].list] = LevelsWithout(i)]
    /\ book' = BookWithout(i)
    /\ market' = [market EXCEPT !.open_order_count = @ - 1]

\* Mutant: the order ends, its lock stays with the position.
CancelWithoutRefund(t, i) ==
    /\ order[i].owner = t
    /\ Linked(i)
    /\ Unlink(i, "Canceled")
    /\ UNCHANGED <<position, fees, outside>>

\* No status and no clock is asked: the owner gets the remainder's backing back.
CancelPredictionOrder(t, i) ==
    LET o      == order[i]
        bucket == LockedBucket(o.list)
    IN  /\ o.owner = t
        /\ Linked(i)
        /\ t \in positions
        /\ position[t][bucket].locked >= o.locked_collateral
        /\ position' = Change(position, t, bucket, o.locked_collateral,
                                                   -o.locked_collateral)
        /\ Unlink(i, "Canceled")
        /\ UNCHANGED <<fees, outside>>

-----------------------------------------------------------------------------
(* match_prediction_order *)

\* The maker heads the best level of the opposite side and is not the taker's;
\* both ends of its queue agree with the counts.
FifoMaker(t, l, i) ==
    LET o  == order[i]
        lv == level[o.list][o.price]
    IN  /\ OpenAt(i, Opposite(l), o.price)
        /\ o.owner # t
        /\ Best(o.list) = o.price /\ lv.better_price = None
        /\ lv.first_order = i /\ o.previous_order = None
        /\ i < book.next_order_id
        /\ OnGrid(o.price)
        /\ ExactlyBacked(i)
        /\ LiveLevel(o.list, o.price)
        /\ IF lv.order_count = 1
           THEN /\ lv.last_order = i /\ o.next_order = None
                /\ lv.total_remaining_quantity = o.remaining_quantity
           ELSE /\ lv.last_order # i /\ o.next_order \notin {None, i}
                /\ lv.total_remaining_quantity > o.remaining_quantity

\* What a complete fill asks of the order or the level that takes its place.
Promotes(i) ==
    LET o  == order[i]
        lv == level[o.list][o.price]
    IN  /\ market.open_order_count >= 1
        /\ IF OnlyOrderOfLevel(i)
           THEN lv.worse_price # None =>
                    /\ LiveLevel(o.list, lv.worse_price)
                    /\ level[o.list][lv.worse_price].better_price = o.price
                    /\ BetterPrice(o.list[2], o.price, lv.worse_price)
           ELSE /\ OpenAt(o.next_order, o.list, o.price)
                /\ order[o.next_order].previous_order = i
                /\ o.next_order > i

\* A buying taker pays the maker's price and the fee; the maker's locked
\* contracts are his.
SettleBuy(t, o, fill, notional, fee) ==
    /\ position[o.owner][o.list[1]].locked >= o.locked_collateral
    /\ position[t]["cash"].free >= notional + fee
    /\ position' = Change(Change(Change(Change(position,
                       t, "cash", -(notional + fee), 0),
                       t, o.list[1], fill, 0),
                       o.owner, "cash", notional, 0),
                       o.owner, o.list[1], 0, -fill)

\* A selling taker gives free contracts for the maker's locked cash less the fee.
SettleSell(t, o, fill, notional, fee) ==
    /\ position[o.owner]["cash"].locked >= o.locked_collateral
    /\ position[t][o.list[1]].free >= fill
    /\ notional >= fee
    /\ position' = Change(Change(Change(Change(position,
                       t, o.list[1], -fill, 0),
                       t, "cash", notional - fee, 0),
                       o.owner, "cash", 0, -notional),
                       o.owner, o.list[1], fill, 0)

\* Mutant: the lock of a bid shrinks by contracts, not by their price.
DebitContracts(o, fill) == fill

\* What a partial fill takes off the lock.
Debit(o, fill) == Backing(o.list, o.price, fill)

MatchPredictionOrder(t, l, limit, q, bps, i) ==
    LET o        == order[i]
        fill     == FillBase(q, o.remaining_quantity)
        notional == o.price * fill
        fee      == TakerFee(notional, bps)
    IN  /\ Open
        /\ OnGrid(limit)
        /\ FifoMaker(t, l, i)
        /\ PricesCross(l[2], limit, o.price)
        /\ {t, o.owner} \subseteq positions
        /\ IF l[2] = "Bid" THEN SettleBuy(t, o, fill, notional, fee)
                           ELSE SettleSell(t, o, fill, notional, fee)
        /\ fees' = fees + fee
        /\ \/ /\ fill = o.remaining_quantity
              /\ Promotes(i)
              /\ Unlink(i, "Filled")
           \/ /\ fill < o.remaining_quantity
              /\ order' = [order EXCEPT ![i].remaining_quantity = @ - fill,
                                        ![i].locked_collateral = @ - Debit(o, fill)]
              /\ level' = [level EXCEPT
                     ![o.list][o.price].total_remaining_quantity = @ - fill]
              /\ UNCHANGED <<book, market>>
        /\ UNCHANGED outside

-----------------------------------------------------------------------------
(* Positions and custody: initialize_prediction_position, deposit and       *)
(* withdraw of collateral, migrate_prediction_asset                         *)

InitializePosition(t) ==
    /\ t \notin positions
    /\ positions' = positions \cup {t}
    /\ UNCHANGED <<market, orders, fees, position, wallet, vault, shared, asset_vault>>

\* Cash may come in until the market is resolved.
DepositCollateral(t, amount) ==
    /\ market.phase # "Resolved"
    /\ t \in positions
    /\ wallet[t] >= amount
    /\ wallet' = [wallet EXCEPT ![t] = @ - amount]
    /\ vault' = vault + amount
    /\ position' = Change(position, t, "cash", amount, 0)
    /\ UNCHANGED <<market, orders, fees, positions, shared, asset_vault>>

\* No lifecycle gate.
WithdrawCollateral(t, amount) ==
    /\ t \in positions
    /\ position[t]["cash"].free >= amount
    /\ vault >= amount
    /\ wallet' = [wallet EXCEPT ![t] = @ + amount]
    /\ vault' = vault - amount
    /\ position' = Change(position, t, "cash", -amount, 0)
    /\ UNCHANGED <<market, orders, fees, positions, shared, asset_vault>>

\* Mutant: the claim moves, the tokens stay.
MigrateClaimOnly(t, amount) ==
    /\ t \in positions
    /\ position[t]["cash"].free >= amount
    /\ position' = Change(position, t, "cash", -amount, 0)
    /\ shared' = [shared EXCEPT ![t] = @ + amount]
    /\ UNCHANGED <<market, orders, fees, positions, wallet, vault, asset_vault>>

\* Free cash and its tokens move to the owner's shared wallet together.
MigratePredictionAsset(t, amount) ==
    /\ t \in positions
    /\ position[t]["cash"].free >= amount
    /\ vault >= amount                          \* the token transfer
    /\ position' = Change(position, t, "cash", -amount, 0)
    /\ shared' = [shared EXCEPT ![t] = @ + amount]
    /\ vault' = vault - amount
    /\ asset_vault' = asset_vault + amount
    /\ UNCHANGED <<market, orders, fees, positions, wallet>>

-----------------------------------------------------------------------------
(* Complete sets, in cash of the position or of the shared wallet *)

\* The question after contracts were issued (or, negative, burned) and cash was
\* set aside for them; the trader's contracts change with the supplies.
Reserve(m, cash, yes, no) ==
    [m EXCEPT !.yes_supply = @ + yes, !.no_supply = @ + no, !.backing_reserve = @ + cash]

\* Mutant: NO contracts are counted by the YES amount.
HoldYesTwice(c, t, yes, no) == Change(Change(c, t, "Yes", yes, 0), t, "No", yes, 0)

Hold(c, t, yes, no) == Change(Change(c, t, "Yes", yes, 0), t, "No", no, 0)

\* Mutant: contracts locked in an ask are burned as well.
BurnableLocked(t, cash, yes, no) ==
    /\ t \in positions
    /\ position[t]["Yes"].free + position[t]["Yes"].locked >= yes
    /\ position[t]["No"].free + position[t]["No"].locked >= no
    /\ market.yes_supply >= yes /\ market.no_supply >= no
    /\ market.backing_reserve >= cash

\* Free contracts only, within the supplies and the reserve.
Burnable(t, cash, yes, no) ==
    /\ t \in positions
    /\ position[t]["Yes"].free >= yes /\ position[t]["No"].free >= no
    /\ market.yes_supply >= yes /\ market.no_supply >= no
    /\ market.backing_reserve >= cash

Unwindable == market.phase \in {"Open", "Expired", "Frozen", "Proposed"}

\* split_prediction_complete_set: free cash becomes reserve, the vault keeps it.
SplitLegacy(t, q) ==
    /\ Open
    /\ t \in positions
    /\ position[t]["cash"].free >= q * Payout
    /\ position' = Hold(Change(position, t, "cash", -(q * Payout), 0), t, q, q)
    /\ market' = Reserve(market, q * Payout, q, q)
    /\ UNCHANGED <<orders, fees, outside>>

MergeLegacy(t, q) ==
    /\ Unwindable
    /\ Burnable(t, q * Payout, q, q)
    /\ position' = Hold(Change(position, t, "cash", q * Payout, 0), t, -q, -q)
    /\ market' = Reserve(market, -(q * Payout), -q, -q)
    /\ UNCHANGED <<orders, fees, outside>>

\* shared_complete_set: the cash comes out of the shared wallet's vault.
SplitShared(t, q) ==
    /\ Open
    /\ t \in positions
    /\ asset_vault >= q * Payout
    /\ shared[t] >= q * Payout
    /\ shared' = [shared EXCEPT ![t] = @ - q * Payout]
    /\ asset_vault' = asset_vault - q * Payout
    /\ vault' = vault + q * Payout
    /\ position' = Hold(position, t, q, q)
    /\ market' = Reserve(market, q * Payout, q, q)
    /\ UNCHANGED <<orders, fees, positions, wallet>>

\* Contracts leave for cash in the shared wallet.
PayOut(t, cash, yes, no) ==
    /\ vault >= cash
    /\ Burnable(t, cash, yes, no)
    /\ shared' = [shared EXCEPT ![t] = @ + cash]
    /\ asset_vault' = asset_vault + cash
    /\ vault' = vault - cash
    /\ position' = Hold(position, t, -yes, -no)
    /\ market' = Reserve(market, -cash, -yes, -no)
    /\ UNCHANGED <<orders, fees, positions, wallet>>

MergeShared(t, q) == Unwindable /\ PayOut(t, q * Payout, q, q)

\* Mutant: an Invalid contract is paid like a winning one.
PayoutInFull(final, yes, no) ==
    CASE final = "Yes"     -> yes * Payout
      [] final = "No"      -> no * Payout
      [] final = "Invalid" -> (yes + no) * Payout

\* What yes and no contracts are worth once the outcome is final.
PayoutOf(final, yes, no) ==
    CASE final = "Yes"     -> yes * Payout
      [] final = "No"      -> no * Payout
      [] final = "Invalid" -> (yes + no) * (Payout \div 2)

\* redeem_prediction, for contracts of either design
Redeem(t, yes, no) ==
    /\ yes > 0 \/ no > 0
    /\ market.phase = "Resolved"
    /\ PayOut(t, PayoutOf(market.final_outcome, yes, no), yes, no)

-----------------------------------------------------------------------------

\* Any lifecycle step of the question, decided elsewhere (see Resolution).
AdvanceMarket(phase, final) ==
    /\ CanMove(market.phase, market.final_outcome, phase, final)
    /\ market' = [market EXCEPT !.phase = phase, !.final_outcome = final]
    /\ UNCHANGED <<orders, fees, position, outside>>

\* initialize_prediction_market and initialize_prediction_book
Init ==
    /\ market = [phase |-> "Draft", final_outcome |-> Undecided, yes_supply |-> 0,
                 no_supply |-> 0, backing_reserve |-> 0, open_order_count |-> 0]
    /\ book = [next_order_id |-> 1, best |-> [l \in Lists |-> None]]
    /\ order = [i \in Ids |-> AbsentOrder]
    /\ level = [l \in Lists |-> [p \in Prices |-> AbsentLevel]]
    /\ fees = 0
    /\ positions = {}
    /\ position = [t \in Traders |-> [x \in Buckets |-> [free |-> 0, locked |-> 0]]]
    /\ wallet = WalletTokens
    /\ vault = 0
    /\ shared = [t \in Traders |-> 0]
    /\ asset_vault = 0

OrderHints == Ids \cup {None}
LevelHints == Prices \cup {None}

PlaceOrder ==
    /\ book.next_order_id \in Ids               \* bound
    /\ Open
    /\ \E t \in Traders, l \in Tradable \X Sides, p \in Prices, q \in Quantities :
        \/ PlacePredictionOrder(t, l, p, q)
        \/ AppendPredictionOrder(t, l, p, q)
        \/ \E better, worse \in LevelHints :
               InsertPredictionOrder(t, l, p, q, better, worse)

CancelOrder == \E t \in Traders, i \in Ids : CancelPredictionOrder(t, i)

MatchOrder ==
    \E i \in Ids, t \in Traders, l \in Lists, limit \in Prices, q \in Quantities,
       bps \in FeeRates : MatchPredictionOrder(t, l, limit, q, bps, i)

Custody ==
    \E t \in Traders :
        \/ InitializePosition(t)
        \/ \E amount \in TransferAmounts : \/ DepositCollateral(t, amount)
                                           \/ WithdrawCollateral(t, amount)
                                           \/ MigratePredictionAsset(t, amount)

CompleteSets ==
    \E t \in Traders :
        \/ \E q \in Quantities : \/ SplitLegacy(t, q) \/ MergeLegacy(t, q)
                                 \/ SplitShared(t, q) \/ MergeShared(t, q)
        \/ \E yes, no \in Quantities \cup {0} : Redeem(t, yes, no)

Lifecycle ==
    \E phase \in Phases, final \in Outcomes \cup {Undecided} : AdvanceMarket(phase, final)

Next == PlaceOrder \/ CancelOrder \/ MatchOrder \/ Custody \/ CompleteSets \/ Lifecycle

Spec == Init /\ [][Next]_vars
=============================================================================
