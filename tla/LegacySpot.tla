----------------------------- MODULE LegacySpot -----------------------------
(***************************************************************************)
(* The per-market spot exchange that preceded the shared wallet: one       *)
(* market with its own vaults, its own TraderBalance ledgers and its own   *)
(* sorted lists of price levels.  Its rules differ from SharedTrading in   *)
(* more than the accounts: an order may rest across the opposite best, a   *)
(* lock of nothing can still be canceled, and the client names both        *)
(* neighbours of a new level.  Free claims may move to the shared wallet.  *)
(*                                                                         *)
(* One action is one instruction.  Ledgers and order accounts outlive the  *)
(* market account, which may be closed and created again.                  *)
(***************************************************************************)
EXTENDS Matching, FiniteSets

CONSTANTS
    Traders,
    Scale,          \* 10^base_decimals
    Tick, Lot,
    WalletTokens,   \* [Traders -> [Assets -> Nat]]: tokens before any deposit
    Prices,         \* bound: the prices orders are placed at
    Quantities,     \* bound: the quantities placed and taken
    TransferAmounts,\* bound: the amounts deposited, withdrawn and migrated
    FeeRates,       \* bound: the taker fee rates (bps) a fill may find
    MaxOrders       \* bound: order ids the market may use

Assets == {"base", "quote"}
Ids    == 1 .. MaxOrders
None   == 0                             \* an absent price, order or hint

ASSUME LegacySpotAssumption ==
    /\ Scale \in Nat \ {0} /\ Tick \in Nat \ {0} /\ Lot \in Nat \ {0}
    /\ WalletTokens \in [Traders -> [Assets -> Nat]]
    /\ Prices \subseteq Nat \ {0}
    /\ Quantities \subseteq Nat \ {0}
    /\ TransferAmounts \subseteq Nat \ {0}
    /\ FeeRates \subseteq 0 .. MAX_TAKER_FEE_BPS
    /\ MaxOrders \in Nat
    /\ IsFiniteSet(Traders) /\ IsFiniteSet(Prices)

VARIABLES
    market,      \* the Market account; live is whether it exists
    fees,        \* MarketFees.accrued_quote_fees
    order,       \* [id]: Order accounts, kept for ever once created
    level,       \* [side][price]: PriceLevel accounts, order_count 0 if absent
    ledgers,     \* the traders whose TraderBalance account exists
    balance,     \* [t][asset]: free and locked
    wallet,      \* [t][asset]: the trader's own token account
    vault,       \* [asset]: the market's vaults
    migrated,    \* [t][asset]: what migration added to the AssetBalance
    asset_vault  \* [asset]: what migration added to the global vault

vars == <<market, fees, order, level, ledgers, balance, wallet, vault,
          migrated, asset_vault>>
books == <<market, order, level>>
cash  == <<fees, ledgers, balance, wallet, vault, migrated, asset_vault>>

-----------------------------------------------------------------------------
(* Records *)

AbsentOrder ==
    [owner |-> "none", side |-> "Bid", price |-> None,
     previous_order |-> None, next_order |-> None, quantity |-> 0,
     remaining_quantity |-> 0, locked_collateral |-> 0, status |-> "Absent"]

AbsentLevel ==
    [better_price |-> None, worse_price |-> None, first_order |-> None,
     last_order |-> None, total_remaining_quantity |-> 0, order_count |-> 0]

NewMarket ==
    [live |-> TRUE, status |-> "Active", next_order_id |-> 1,
     best |-> [s \in Sides |-> None], open_order_count |-> 0]

Active == market.live /\ market.status = "Active"

LockedAsset(side) == IF side = "Bid" THEN "quote" ELSE "base"

\* The balances c after t's balance of asset a changed by these amounts.
Change(c, t, a, free, locked) ==
    [c EXCEPT ![t][a] = [free |-> @.free + free, locked |-> @.locked + locked]]

LevelExists(s, p) == p \in Prices /\ level[s][p].order_count > 0

OpenAt(i, s, p) ==
    i \in Ids /\ order[i].status = "Open" /\ order[i].side = s /\ order[i].price = p

-----------------------------------------------------------------------------
(* append_limit_order, insert_limit_order *)

OnGrid(price, quantity) == price % Tick = 0 /\ quantity % Lot = 0

\* Mutant: init_if_needed, the account of an earlier market is taken over.
InitIfNeeded(id) == TRUE

\* init: the account of this id was never created.
NewAccount(id) == order[id].status = "Absent"

\* The part both instructions share: grid, notional, funds, lock and new order.
Placing(t, s, p, q, previous) ==
    LET id     == market.next_order_id
        amount == Collateral(Scale, s, p, q)
        asset  == LockedAsset(s)
    IN  /\ Active
        /\ t \in ledgers
        /\ OnGrid(p, q)
        /\ QuoteAmount(Scale, p, q) > 0
        /\ NewAccount(id)
        /\ balance[t][asset].free >= amount
        /\ balance' = Change(balance, t, asset, -amount, amount)
        /\ order' = [j \in Ids |->
               IF j = id
               THEN [owner |-> t, side |-> s, price |-> p,
                     previous_order |-> previous, next_order |-> None,
                     quantity |-> q, remaining_quantity |-> q,
                     locked_collateral |-> amount, status |-> "Open"]
               ELSE IF j = previous THEN [order[j] EXCEPT !.next_order = id]
               ELSE order[j]]
        /\ UNCHANGED <<fees, ledgers, wallet, vault, migrated, asset_vault>>

AppendLimitOrder(t, s, p, q) ==
    LET tail == level[s][p].last_order
    IN  /\ LevelExists(s, p)
        /\ OpenAt(tail, s, p)
        /\ order[tail].next_order = None
        /\ Placing(t, s, p, q, tail)
        /\ level' = [level EXCEPT ![s][p] =
               [level[s][p] EXCEPT !.last_order = market.next_order_id,
                                   !.total_remaining_quantity = @ + q,
                                   !.order_count = @ + 1]]
        /\ market' = [market EXCEPT !.next_order_id = @ + 1, !.open_order_count = @ + 1]

\* Mutant: a lone worse neighbour need not be the best level.
AdjacentOnly(s, p, better, worse) ==
    /\ (market.best[s] = None) <=> (better = None /\ worse = None)
    /\ better # None => /\ LevelExists(s, better)
                        /\ BetterPrice(s, better, p)
                        /\ worse # None => level[s][better].worse_price = worse
    /\ worse # None => /\ LevelExists(s, worse)
                       /\ BetterPrice(s, p, worse)

\* The four shapes the code accepts: an empty side without neighbours, a new
\* best in front of the old one, a middle between adjacent levels, a new worst
\* behind the terminal level.
Insertable(s, p, better, worse) ==
    /\ (market.best[s] = None) <=> (better = None /\ worse = None)
    /\ better # None => /\ LevelExists(s, better)
                        /\ level[s][better].worse_price = worse
                        /\ BetterPrice(s, better, p)
    /\ worse # None => /\ LevelExists(s, worse)
                       /\ level[s][worse].better_price = better
                       /\ BetterPrice(s, p, worse)
    /\ better = None => worse = market.best[s]

InsertLimitOrder(t, s, p, q, better, worse) ==
    LET id  == market.next_order_id
        old == level[s]
        new == [x \in Prices |->
                   IF x = p
                   THEN [better_price |-> better, worse_price |-> worse,
                         first_order |-> id, last_order |-> id,
                         total_remaining_quantity |-> q, order_count |-> 1]
                   ELSE [old[x] EXCEPT !.worse_price  = IF x = better THEN p ELSE @,
                                       !.better_price = IF x = worse THEN p ELSE @]]
    IN  /\ ~LevelExists(s, p)
        /\ Insertable(s, p, better, worse)
        /\ Placing(t, s, p, q, None)
        /\ level' = [level EXCEPT ![s] = new]
        /\ market' = [market EXCEPT !.next_order_id = @ + 1, !.open_order_count = @ + 1,
                                    !.best[s] = IF better = None THEN p ELSE @]

-----------------------------------------------------------------------------
(* Unlinking: the same in cancel_limit_order and after a complete fill *)

OnlyOrderOfLevel(i) == level[order[i].side][order[i].price].order_count = 1

\* Mutant: the rule of the shared book, an order that locks nothing is refused.
LinkedIfFunded(i) ==
    /\ order[i].status = "Open"
    /\ order[i].locked_collateral > 0

\* The order is where its links say: neighbours in the queue point back, and
\* around a level to be closed the levels do.
Linked(i) ==
    LET o  == order[i]
        lv == level[o.side][o.price]
    IN  /\ o.status = "Open"
        /\ LevelExists(o.side, o.price)
        /\ o.previous_order # None => /\ OpenAt(o.previous_order, o.side, o.price)
                                      /\ order[o.previous_order].next_order = i
        /\ o.next_order # None => /\ OpenAt(o.next_order, o.side, o.price)
                                  /\ order[o.next_order].previous_order = i
        /\ market.open_order_count >= 1
        /\ lv.total_remaining_quantity >= o.remaining_quantity
        /\ OnlyOrderOfLevel(i) =>
               /\ o.previous_order = None /\ o.next_order = None
               /\ lv.first_order = i /\ lv.last_order = i
               /\ lv.total_remaining_quantity = o.remaining_quantity
               /\ IF lv.better_price = None
                  THEN market.best[o.side] = o.price
                  ELSE /\ LevelExists(o.side, lv.better_price)
                       /\ level[o.side][lv.better_price].worse_price = o.price
               /\ lv.worse_price # None =>
                      /\ LevelExists(o.side, lv.worse_price)
                      /\ level[o.side][lv.worse_price].better_price = o.price

\* The orders with i replaced by `final` and its neighbours relinked.
OrdersWithout(i, final) ==
    LET o == order[i]
    IN  [j \in Ids |->
            IF j = i THEN final
            ELSE [order[j] EXCEPT
                     !.next_order     = IF j = o.previous_order THEN o.next_order ELSE @,
                     !.previous_order = IF j = o.next_order THEN o.previous_order ELSE @]]

\* The queue shrinks; a level left empty is closed, its neighbours become adjacent.
LevelsWithout(i) ==
    LET o   == order[i]
        old == level[o.side]
        lv  == old[o.price]
    IN  IF OnlyOrderOfLevel(i)
        THEN [x \in Prices |->
                IF x = o.price THEN AbsentLevel
                ELSE [old[x] EXCEPT
                         !.worse_price  = IF x = lv.better_price THEN lv.worse_price ELSE @,
                         !.better_price = IF x = lv.worse_price THEN lv.better_price ELSE @]]
        ELSE [old EXCEPT ![o.price] =
                [lv EXCEPT !.first_order = IF o.previous_order = None THEN o.next_order ELSE @,
                           !.last_order  = IF o.next_order = None THEN o.previous_order ELSE @,
                           !.order_count = @ - 1,
                           !.total_remaining_quantity = @ - o.remaining_quantity]]

MarketWithout(i) ==
    LET o  == order[i]
        lv == level[o.side][o.price]
    IN  [market EXCEPT !.open_order_count = @ - 1,
                       !.best[o.side] = IF OnlyOrderOfLevel(i) /\ lv.better_price = None
                                        THEN lv.worse_price ELSE @]

\* What is left of an order that ended; partially filled or not, nothing.
Ended(o, status) ==
    [o EXCEPT !.remaining_quantity = 0, !.locked_collateral = 0,
              !.previous_order = None, !.next_order = None, !.status = status]

\* Mutant: the refund is computed from what is left to trade.
RefundRecomputed(o) == Collateral(Scale, o.side, o.price, o.remaining_quantity)

\* cancel returns the recorded lock, whatever price and quantity would give.
Refund(o) == o.locked_collateral

CancelLimitOrder(t, i) ==
    LET o     == order[i]
        asset == LockedAsset(o.side)
    IN  /\ market.live
        /\ o.owner = t
        /\ Linked(i)
        /\ t \in ledgers
        /\ balance[t][asset].locked >= Refund(o)
        /\ balance' = Change(balance, t, asset, Refund(o), -Refund(o))
        /\ order' = OrdersWithout(i, Ended(o, "Canceled"))
        /\ level' = [level EXCEPT ![o.side] = LevelsWithout(i)]
        /\ market' = MarketWithout(i)
        /\ UNCHANGED <<fees, ledgers, wallet, vault, migrated, asset_vault>>

-----------------------------------------------------------------------------
(* match_limit_order *)

\* Mutant: any order of the best level will do.
BestMaker(t, i) ==
    LET o == order[i]
    IN  o.status = "Open" /\ o.owner # t /\ market.best[o.side] = o.price

\* The maker heads the best level of its side and is not the taker's.
FifoMaker(t, i) ==
    LET o == order[i]
    IN  /\ o.status = "Open"
        /\ o.owner # t
        /\ LevelExists(o.side, o.price)
        /\ level[o.side][o.price].first_order = i
        /\ market.best[o.side] = o.price

\* Mutant: the fee is forgotten when the taker's funds are checked.
BuyWithoutFee(t, o, plan, fee) ==
    /\ balance[t]["quote"].free >= plan.quote
    /\ balance[o.owner]["base"].locked >= plan.debit
    /\ balance' = Change(Change(Change(Change(balance,
                      t, "quote", -(plan.quote + fee), 0),
                      t, "base", plan.base, 0),
                      o.owner, "base", 0, -plan.debit),
                      o.owner, "quote", plan.quote, 0)

\* A bid taker pays the maker's price and the fee; the maker's locked base is his.
SettleBuy(t, o, plan, fee) ==
    /\ balance[t]["quote"].free >= plan.quote + fee
    /\ balance[o.owner]["base"].locked >= plan.debit
    /\ balance' = Change(Change(Change(Change(balance,
                      t, "quote", -(plan.quote + fee), 0),
                      t, "base", plan.base, 0),
                      o.owner, "base", 0, -plan.debit),
                      o.owner, "quote", plan.quote, 0)

\* An ask taker gives base for the maker's locked quote less the fee; a finished
\* bid gets its rounding remainder back.
SettleSell(t, o, plan, fee) ==
    /\ plan.quote >= fee
    /\ balance[t]["base"].free >= plan.base
    /\ balance[o.owner]["quote"].locked >= plan.debit
    /\ balance' = Change(Change(Change(Change(balance,
                      t, "base", -plan.base, 0),
                      t, "quote", plan.quote - fee, 0),
                      o.owner, "quote", plan.refund, -plan.debit),
                      o.owner, "base", plan.base, 0)

MatchLimitOrder(t, s, limit, q, bps, i) ==
    LET o    == order[i]
        plan == Settlement(Scale, o.side, o.price, q,
                           o.remaining_quantity, o.locked_collateral)
        fee  == TakerFee(plan.quote, bps)
    IN  /\ Active
        /\ OnGrid(limit, q)
        /\ FifoMaker(t, i)
        /\ Settles(Scale, s, limit, o.side, o.price, q,
                   o.remaining_quantity, o.locked_collateral)
        /\ {t, o.owner} \subseteq ledgers
        /\ level[o.side][o.price].total_remaining_quantity >= plan.base
        /\ IF s = "Bid" THEN SettleBuy(t, o, plan, fee) ELSE SettleSell(t, o, plan, fee)
        /\ fees' = fees + fee
        /\ \/ /\ plan.fully_filled
              /\ o.previous_order = None
              /\ Linked(i)
              /\ OnlyOrderOfLevel(i) =>
                     level[o.side][o.price].better_price = None
              /\ ~OnlyOrderOfLevel(i) =>
                     /\ o.next_order # None
                     /\ level[o.side][o.price].total_remaining_quantity > plan.base
              /\ order' = OrdersWithout(i, Ended(o, "Filled"))
              /\ level' = [level EXCEPT ![o.side] = LevelsWithout(i)]
              /\ market' = MarketWithout(i)
           \/ /\ ~plan.fully_filled
              /\ order' = [order EXCEPT
                     ![i].remaining_quantity = @ - plan.base,
                     ![i].locked_collateral  = @ - plan.debit]
              /\ level' = [level EXCEPT
                     ![o.side][o.price].total_remaining_quantity = @ - plan.base]
              /\ UNCHANGED market
        /\ UNCHANGED <<ledgers, wallet, vault, migrated, asset_vault>>

-----------------------------------------------------------------------------
(* Ledgers and custody: initialize_trader_balance, deposit, withdraw,      *)
(* migrate_spot_asset, withdraw_protocol_fees; all of them work on a       *)
(* paused market.                                                          *)

InitializeTraderBalance(t) ==
    /\ market.live
    /\ t \notin ledgers
    /\ ledgers' = ledgers \cup {t}
    /\ balance' = [balance EXCEPT ![t] = [a \in Assets |-> [free |-> 0, locked |-> 0]]]
    /\ UNCHANGED <<books, fees, wallet, vault, migrated, asset_vault>>

Deposit(t, a, amount) ==
    /\ market.live
    /\ t \in ledgers
    /\ wallet[t][a] >= amount
    /\ wallet' = [wallet EXCEPT ![t][a] = @ - amount]
    /\ vault' = [vault EXCEPT ![a] = @ + amount]
    /\ balance' = Change(balance, t, a, amount, 0)
    /\ UNCHANGED <<books, fees, ledgers, migrated, asset_vault>>

Withdraw(t, a, amount) ==
    /\ market.live
    /\ t \in ledgers
    /\ balance[t][a].free >= amount
    /\ vault[a] >= amount
    /\ wallet' = [wallet EXCEPT ![t][a] = @ + amount]
    /\ vault' = [vault EXCEPT ![a] = @ - amount]
    /\ balance' = Change(balance, t, a, -amount, 0)
    /\ UNCHANGED <<books, fees, ledgers, migrated, asset_vault>>

\* Mutant: the claim moves, the tokens stay.
MigrateClaimOnly(t, a, amount) ==
    /\ market.live
    /\ t \in ledgers
    /\ balance[t][a].free >= amount
    /\ balance' = Change(balance, t, a, -amount, 0)
    /\ migrated' = [migrated EXCEPT ![t][a] = @ + amount]
    /\ UNCHANGED <<books, fees, ledgers, wallet, vault, asset_vault>>

\* A free claim and its tokens move to the owner's AssetBalance together.
MigrateSpotAsset(t, a, amount) ==
    /\ market.live
    /\ t \in ledgers
    /\ balance[t][a].free >= amount
    /\ vault[a] >= amount                       \* the token transfer
    /\ balance' = Change(balance, t, a, -amount, 0)
    /\ vault' = [vault EXCEPT ![a] = @ - amount]
    /\ migrated' = [migrated EXCEPT ![t][a] = @ + amount]
    /\ asset_vault' = [asset_vault EXCEPT ![a] = @ + amount]
    /\ UNCHANGED <<books, fees, ledgers, wallet>>

WithdrawProtocolFees(amount) ==
    /\ market.live
    /\ fees >= amount
    /\ vault["quote"] >= amount
    /\ fees' = fees - amount
    /\ vault' = [vault EXCEPT !["quote"] = @ - amount]
    /\ UNCHANGED <<books, ledgers, balance, wallet, migrated, asset_vault>>

-----------------------------------------------------------------------------
(* The market account: initialize, pause, unpause, close *)

\* The market, its fee account and both vaults are new; ledgers are not touched.
InitializeMarket ==
    /\ ~market.live
    /\ market' = NewMarket
    /\ fees' = 0
    /\ vault' = [a \in Assets |-> 0]
    /\ UNCHANGED <<order, level, ledgers, balance, wallet, migrated, asset_vault>>

PauseMarket ==
    /\ market.live /\ market.status = "Active"
    /\ market' = [market EXCEPT !.status = "Paused"]
    /\ UNCHANGED <<order, level, cash>>

UnpauseMarket ==
    /\ market.live /\ market.status = "Paused"
    /\ market' = [market EXCEPT !.status = "Active"]
    /\ UNCHANGED <<order, level, cash>>

\* Mutant: only the order count is asked.
CloseWithoutOrders ==
    /\ market.live /\ market.status = "Paused"
    /\ market.open_order_count = 0
    /\ fees = 0
    /\ market' = [market EXCEPT !.live = FALSE]
    /\ UNCHANGED <<order, level, cash>>

\* The faucet and the shared book of this market are taken to be closed before.
CloseMarket ==
    /\ market.live /\ market.status = "Paused"
    /\ market.open_order_count = 0
    /\ fees = 0
    /\ \A a \in Assets : vault[a] = 0
    /\ market' = [market EXCEPT !.live = FALSE]
    /\ UNCHANGED <<order, level, cash>>

-----------------------------------------------------------------------------

Init ==
    /\ market = [NewMarket EXCEPT !.live = FALSE]
    /\ fees = 0
    /\ order = [i \in Ids |-> AbsentOrder]
    /\ level = [s \in Sides |-> [p \in Prices |-> AbsentLevel]]
    /\ ledgers = {}
    /\ balance = [t \in Traders |-> [a \in Assets |-> [free |-> 0, locked |-> 0]]]
    /\ wallet = WalletTokens
    /\ vault = [a \in Assets |-> 0]
    /\ migrated = [t \in Traders |-> [a \in Assets |-> 0]]
    /\ asset_vault = [a \in Assets |-> 0]

OrderHints == Ids \cup {None}
LevelHints == Prices \cup {None}

PlaceOrder ==
    /\ market.next_order_id \in Ids             \* bound
    /\ \E t \in Traders, s \in Sides, p \in Prices, q \in Quantities :
        \/ AppendLimitOrder(t, s, p, q)
        \/ \E better, worse \in LevelHints :
               InsertLimitOrder(t, s, p, q, better, worse)

CancelOrder == \E t \in Traders, i \in Ids : CancelLimitOrder(t, i)

MatchOrder ==
    \E i \in Ids, t \in Traders, s \in Sides, limit \in Prices, q \in Quantities,
       bps \in FeeRates : MatchLimitOrder(t, s, limit, q, bps, i)

Custody ==
    \/ \E t \in Traders : InitializeTraderBalance(t)
    \/ \E t \in Traders, a \in Assets, amount \in TransferAmounts :
           \/ Deposit(t, a, amount)
           \/ Withdraw(t, a, amount)
           \/ MigrateSpotAsset(t, a, amount)
    \/ \E amount \in 1 .. fees : WithdrawProtocolFees(amount)

Administration == InitializeMarket \/ PauseMarket \/ UnpauseMarket \/ CloseMarket

Next == PlaceOrder \/ CancelOrder \/ MatchOrder \/ Custody \/ Administration

Spec == Init /\ [][Next]_vars
=============================================================================
