-------------------------- MODULE SharedProperties --------------------------
(***************************************************************************)
(* What SharedTrading has to guarantee, and the map from its linked        *)
(* accounts to the queues of PriorityBook.                                 *)
(***************************************************************************)
EXTENDS SharedTrading, LinkedLists, FiniteSetsExt, Sequences

OpenOrders(b) == {i \in Ids : order[b][i].status = "Open"}

-----------------------------------------------------------------------------
(* The linked accounts as queues *)

\* The ids met by following next_order from first_order; the walk is as long
\* as the level says it is.
Queue(b, l, p) ==
    Walk(level[b][l][p].first_order, [i \in Ids |-> order[b][i].next_order],
         level[b][l][p].order_count)

\* The prices met by following worse_price from the best price.
PriceList(b, l) ==
    Walk(Best(b, l), [p \in Prices |-> level[b][l][p].worse_price], Cardinality(Prices) + 1)

Precedes(l, p, q) == BetterPrice(l[2], p, q)
Crosses(l, p, x)  == PricesCross(l[2], p, x)

\* The slots some book of the instance uses: Spot, or Yes and No
UsedLists == UNION {ListsOf(b) : b \in Books}

Priority == INSTANCE PriorityBook
    WITH Lists <- UsedLists,
         OppositeOf <- OppositeList,
         Better <- Precedes,
         Blocks <- Crosses,
         queue <- [b \in Books |-> [l \in UsedLists |-> [p \in Prices |-> Queue(b, l, p)]]],
         left  <- [b \in Books |-> [i \in Ids |->
                      IF order[b][i].status = "Absent" THEN -1
                      ELSE order[b][i].remaining_quantity]]

\* Price-time priority: whatever hints a client passes, the linked lists behave
\* as PriorityBook's queues (place, cancel and match of shared_orders.rs and
\* shared_match.rs, with remove_order).
PriceTimePriority == Priority!PSpec

-----------------------------------------------------------------------------
(* Type *)

OrderRecord ==
    [owner : Traders \cup {"none"}, list : Lists, price : Prices \cup {None},
     previous_order : OrderHints, next_order : OrderHints, quantity : Nat,
     remaining_quantity : Nat, locked_collateral : Nat,
     status : {"Absent", "Open", "Filled", "Canceled"}]

LevelRecord ==
    [better_price : LevelHints, worse_price : LevelHints, first_order : OrderHints,
     last_order : OrderHints, total_remaining_quantity : Nat, order_count : Nat]

BookRecord ==
    [best_prices : [Lists -> LevelHints], next_order_id : Nat \ {0},
     open_order_count : Nat, accrued_quote_fees : Nat, live : BOOLEAN]

MarketRecord ==
    [status : Phases \cup {"Active", "Paused"}, final_outcome : Outcomes \cup {Undecided},
     yes_supply : Nat, no_supply : Nat, backing_reserve : Nat, vault : Nat]

\* The shape of every account of shared.rs and of the balances: no checked
\* subtraction ever lets a claim, a counter, a supply or a vault go below zero,
\* an order that was placed is a trader's in a list of its own book, and a
\* question has an outcome exactly when it is resolved.
TypeOK ==
    /\ market \in [Books -> MarketRecord]
    /\ book \in [Books -> BookRecord]
    /\ order \in [Books -> [Ids -> OrderRecord]]
    /\ level \in [Books -> [Lists -> [Prices -> LevelRecord]]]
    /\ claim \in [Traders -> [Assets -> [free : Nat, locked : Nat]]]
    /\ wallet \in [Traders -> [Mints -> Nat]]
    /\ vault \in [Mints -> Nat]
    /\ \A b \in Books, i \in Ids :
           order[b][i].status # "Absent" => /\ order[b][i].owner \in Traders
                                            /\ order[b][i].list \in ListsOf(b)
    /\ \A b \in Books :
           (market[b].status = "Resolved") <=> (market[b].final_outcome # Undecided)

-----------------------------------------------------------------------------
(* The links *)

\* Walking worse_price from best_prices meets exactly the levels that exist, in
\* strict price order, and better_price is the way back (insert and remove_order).
PricesLinked ==
    \A b \in Books : \A l \in ListsOf(b) :
        LET list   == PriceList(b, l)
            length == Cardinality({p \in Prices : level[b][l][p].order_count > 0})
        IN  /\ list[length + 1] = None
            /\ \A n \in 1 .. length :
                   /\ list[n] # None
                   /\ level[b][l][list[n]].order_count > 0
                   /\ level[b][l][list[n]].better_price = IF n = 1 THEN None ELSE list[n-1]
                   /\ n > 1 => BetterPrice(l[2], list[n-1], list[n])

\* The queue of a level is exactly its open orders in the order they were
\* placed, linked both ways, and count and total describe it; the book counts
\* all of them (append, remove_order, partial fills).
QueuesLinked ==
    \A b \in Books :
        /\ book[b].open_order_count = Cardinality(OpenOrders(b))
        /\ \A l \in ListsOf(b), p \in Prices :
            LET ids == {i \in OpenOrders(b) : AtLevel(b, i, l, p)}
                q   == Queue(b, l, p)
                n   == level[b][l][p].order_count
            IN  /\ n = Cardinality(ids)
                /\ {q[k] : k \in 1 .. n} = ids
                /\ \A k \in 1 .. n :
                       /\ order[b][q[k]].previous_order = IF k = 1 THEN None ELSE q[k-1]
                       /\ k > 1 => q[k-1] < q[k]
                /\ n > 0 => /\ level[b][l][p].last_order = q[n]
                            /\ order[b][q[n]].next_order = None
                /\ level[b][l][p].total_remaining_quantity =
                       SumFunctionOnSet([i \in Ids |-> order[b][i].remaining_quantity], ids)

-----------------------------------------------------------------------------
(* Money *)

\* What the traders hold of an asset in the balances c, free or locked.
Held(c, a) == SumFunction([t \in Traders |-> c[t][a].free + c[t][a].locked])

\* The fees that the books quoting in a mint still owe the administrators.
FeesOwed(books, m) ==
    SumFunction([b \in Books |-> IF QuoteOf[b] = m THEN books[b].accrued_quote_fees ELSE 0])

\* docs/shared-balances-resolution.md, "Conservation": a mint's vault holds
\* exactly the traders' claims and the fees of the books that quote in it.
CustodyBacked == \A m \in Mints : vault[m] = Held(claim, m) + FeesOwed(book, m)

\* What order o of book b keeps locked of trader t's asset a.
LockOf(b, o, t, a) ==
    IF o.status = "Open" /\ o.owner = t /\ LockedAsset(b, o.list) = a
    THEN o.locked_collateral ELSE 0

\* A trader's locked balance is exactly what his open orders, in all books,
\* still hold: a finished order leaves no remainder locked, and no fill or
\* cancellation releases the lock of another order.
LocksBacked ==
    \A t \in Traders, a \in Assets :
        claim[t][a].locked = SumFunction([bi \in Books \X Ids |->
                                 LockOf(bi[1], order[bi[1]][bi[2]], t, a)])

\* Every open order can pay for what is left of it at its own price, whatever
\* the sizes of the partial fills before (calculate_settlement's rounding).
OrdersFunded ==
    \A b \in Books : \A i \in OpenOrders(b) :
        LET o == order[b][i]
        IN  /\ o.remaining_quantity \in 1 .. o.quantity
            /\ IF o.list[2] = "Bid"
               THEN o.locked_collateral >= QuoteAmount(Scale[b], o.price, o.remaining_quantity)
               ELSE o.locked_collateral = o.remaining_quantity

\* A question's reserve is what its outstanding contracts are worth: a full
\* payout per pair before resolution, the payout of the outcome after it
\* (complete sets, redemption and the moment the outcome becomes final).
ReserveExact ==
    \A b \in PredictionBooks :
        LET m == market[b]
        IN  /\ m.vault = m.backing_reserve
            /\ IF m.status = "Resolved"
               THEN m.backing_reserve = PayoutOf(b, m.final_outcome, m.yes_supply, m.no_supply)
               ELSE /\ m.backing_reserve = m.yes_supply * Payout[b]
                    /\ m.yes_supply = m.no_supply

\* The supplies are the contracts the traders hold, free or locked in asks, so
\* the reserve pays every holder (fills move contracts, they never make any).
SuppliesHeld ==
    \A b \in PredictionBooks : /\ market[b].yes_supply = Held(claim, ClaimOf[b]["Yes"])
                               /\ market[b].no_supply = Held(claim, ClaimOf[b]["No"])

-----------------------------------------------------------------------------
(* Steps *)

\* An order that was filled or canceled stays exactly as it was: ids restart
\* when a root is created again, and the accounts already there must win.
HistoryNeverOverwritten ==
    [][\A b \in Books, i \in Ids :
          order[b][i].status \in {"Filled", "Canceled"} => order'[b][i] = order[b][i]]_vars

\* All that cancel_shared_order and remove_order ask of an order whose owner signs:
\* its own account, its queue, its level and the levels beside it, and the lock.
Cancelable(b, i) ==
    LET o == order[b][i]
    IN  /\ book[b].live
        /\ Removable(b, i)
        /\ claim[o.owner][LockedAsset(b, o.list)].locked >= o.locked_collateral

\* The comment of handle_cancel_shared_order, "Releases only the owner's remaining
\* lock, including after close/pause/resolution": in every state every open order
\* passes all checks of its cancellation, so its owner can take that lock back.
OpenOrdersRecoverable ==
    \A b \in Books : \A i \in OpenOrders(b) : Cancelable(b, i)
=============================================================================
