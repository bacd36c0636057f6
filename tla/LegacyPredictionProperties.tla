--------------------- MODULE LegacyPredictionProperties ---------------------
(***************************************************************************)
(* What LegacyPrediction has to guarantee, and the map from its linked     *)
(* accounts to the queues of PriorityBook.                                 *)
(***************************************************************************)
EXTENDS LegacyPrediction, LinkedLists, FiniteSetsExt, Sequences

OpenOrders == {i \in Ids : order[i].status = "Open"}

-----------------------------------------------------------------------------
(* The linked accounts as lists *)

\* The ids met by following next_order from first_order.
Queue(l, p) ==
    Walk(level[l][p].first_order, [i \in Ids |-> order[i].next_order],
         level[l][p].order_count)

\* The prices met by following worse_price from the best price.
PriceList(l) ==
    Walk(Best(l), [p \in Prices |-> level[l][p].worse_price], Cardinality(Prices) + 1)

Precedes(l, p, q) == BetterPrice(l[2], p, q)
Crosses(l, p, x)  == PricesCross(l[2], p, x)

\* All queues of the one book, and what every order ever placed has left.
QueuesOf ==
    [b \in {"question"} |-> [l \in Lists |-> [p \in Prices |-> Queue(l, p)]]]

LeftOf ==
    [b \in {"question"} |-> [i \in Ids |->
        IF order[i].status = "Absent" THEN -1 ELSE order[i].remaining_quantity]]

Priority == INSTANCE PriorityBook
    WITH Books <- {"question"},
         OppositeOf <- Opposite,
         Better <- Precedes,
         Blocks <- Crosses,
         queue <- QueuesOf,
         left <- LeftOf

\* docs/prediction-market-design.md, the order book: whatever neighbours a client
\* names, the four lists of a question behave as PriorityBook's queues, each
\* apart from the other outcome's, and no list ever crosses its opposite (place,
\* append, insert, cancel, match).
PriceTimePriority == Priority!PSpec

-----------------------------------------------------------------------------
(* Type *)

OrderRecord ==
    [owner : Traders \cup {"none"}, list : Lists, price : LevelHints,
     previous_order : OrderHints, next_order : OrderHints, quantity : Nat,
     remaining_quantity : Nat, locked_collateral : Nat,
     status : {"Absent", "Open", "Filled", "Canceled"}]

LevelRecord ==
    [better_price : LevelHints, worse_price : LevelHints, first_order : OrderHints,
     last_order : OrderHints, total_remaining_quantity : Nat, order_count : Nat]

MarketRecord ==
    [phase : Phases, final_outcome : Outcomes \cup {Undecided}, yes_supply : Nat,
     no_supply : Nat, backing_reserve : Nat, open_order_count : Nat]

\* The shape of the accounts of state/prediction.rs and prediction_book.rs: no
\* checked subtraction lets a bucket, a supply, the reserve or a vault go below
\* zero, and a question has an outcome exactly when it is resolved.
TypeOK ==
    /\ market \in MarketRecord
    /\ (market.phase = "Resolved") <=> (market.final_outcome # Undecided)
    /\ book \in [next_order_id : Nat \ {0}, best : [Lists -> LevelHints]]
    /\ order \in [Ids -> OrderRecord]
    /\ level \in [Lists -> [Prices -> LevelRecord]]
    /\ fees \in Nat
    /\ positions \subseteq Traders
    /\ position \in [Traders -> [Buckets -> [free : Nat, locked : Nat]]]
    /\ wallet \in [Traders -> Nat]
    /\ vault \in Nat
    /\ shared \in [Traders -> Nat]
    /\ asset_vault \in Nat

-----------------------------------------------------------------------------
(* The index *)

\* Every open order is in the queue of its price, in the order of the ids and
\* linked both ways; every level that exists is in the sorted list of its
\* outcome and side; counts and totals describe them.
IndexMatchesOrders ==
    /\ market.open_order_count = Cardinality(OpenOrders)
    /\ \A l \in Lists :
        LET list   == PriceList(l)
            length == Cardinality({p \in Prices : level[l][p].order_count > 0})
        IN  /\ list[length + 1] = None
            /\ \A n \in 1 .. length :
                   /\ list[n] # None
                   /\ LiveLevel(l, list[n])
                   /\ level[l][list[n]].better_price = IF n = 1 THEN None ELSE list[n-1]
                   /\ n > 1 => BetterPrice(l[2], list[n-1], list[n])
    /\ \A l \in Lists, p \in Prices :
        LET ids == {i \in Ids : OpenAt(i, l, p)}
            q   == Queue(l, p)
            n   == level[l][p].order_count
        IN  /\ n = Cardinality(ids)
            /\ {q[k] : k \in 1 .. n} = ids
            /\ \A k \in 1 .. n :
                   /\ order[q[k]].previous_order = IF k = 1 THEN None ELSE q[k-1]
                   /\ k > 1 => q[k-1] < q[k]
            /\ n > 0 => /\ level[l][p].last_order = q[n]
                        /\ order[q[n]].next_order = None
            /\ level[l][p].total_remaining_quantity =
                   SumFunctionOnSet([i \in Ids |-> order[i].remaining_quantity], ids)

-----------------------------------------------------------------------------
(* Money *)

\* What the traders hold in a bucket of the positions c, free or locked.
Held(c, bucket) == SumFunction([t \in Traders |-> c[t][bucket].free + c[t][bucket].locked])

\* The question's vault holds its reserve, the positions' cash and the fees, and
\* the shared vault what the shared wallets were credited: no withdrawal,
\* migration, merge or redemption is paid with another claim's tokens.
VaultsBacked ==
    /\ vault = market.backing_reserve + fees + Held(position, "cash")
    /\ asset_vault = SumFunction(shared)

\* The contracts in the positions, free or locked, are the supplies, whichever
\* design issued, traded or burned them.
SuppliesHeld ==
    /\ market.yes_supply = Held(position, "Yes")
    /\ market.no_supply = Held(position, "No")

\* The reserve is what the supplies are worth: a payout per pair before resolution
\* and the outcome's value after it, whichever design splits, merges or redeems.
ReserveExact ==
    IF market.phase = "Resolved"
    THEN market.backing_reserve =
             PayoutOf(market.final_outcome, market.yes_supply, market.no_supply)
    ELSE /\ market.yes_supply = market.no_supply
         /\ market.backing_reserve = market.yes_supply * Payout

\* PredictionOrder.locked_collateral, "Bid: exactly price * remaining_quantity":
\* whatever fills an open order has seen, it holds exactly what its remainder
\* needs, which the next match and the cancellation both insist on.
OrdersBacked == \A i \in OpenOrders : ExactlyBacked(i)

\* What order o locks in a bucket of trader t.
LockOf(o, t, bucket) ==
    IF o.status = "Open" /\ o.owner = t /\ LockedBucket(o.list) = bucket
    THEN o.locked_collateral ELSE 0

\* A position locks exactly what its owner's open orders record (place, append,
\* insert, cancel, match).
LocksBacked ==
    \A t \in Traders, bucket \in Buckets :
        position[t][bucket].locked = SumFunction([i \in Ids |-> LockOf(order[i], t, bucket)])

\* The comment of cancel_prediction_order.rs: stopping trading must never trap an
\* owner's unfilled claims.  In every phase, every open order passes the checks
\* of its cancellation.
OpenOrdersCancelable ==
    \A i \in OpenOrders :
        LET o == order[i]
        IN  /\ o.owner \in positions
            /\ Linked(i)
            /\ position[o.owner][LockedBucket(o.list)].locked >= o.locked_collateral
=============================================================================
