-------------------------- MODULE LegacyProperties --------------------------
(***************************************************************************)
(* What LegacySpot has to guarantee, and the map from its linked accounts  *)
(* to the queues of PriorityBook.                                          *)
(***************************************************************************)
EXTENDS LegacySpot, LinkedLists, FiniteSetsExt, Sequences

OpenOrders == {i \in Ids : order[i].status = "Open"}

-----------------------------------------------------------------------------
(* The linked accounts as lists *)

\* The ids met by following next_order from first_order.
Queue(s, p) ==
    Walk(level[s][p].first_order, [i \in Ids |-> order[i].next_order],
         level[s][p].order_count)

\* The prices met by following worse_price from the best price.
PriceList(s) ==
    Walk(market.best[s], [p \in Prices |-> level[s][p].worse_price], Cardinality(Prices) + 1)

\* No price is refused for the opposite best: the side may cross.
Nothing(s, p, x) == FALSE

Priority == INSTANCE PriorityBook
    WITH Books <- {"market"},
         Lists <- Sides,
         OppositeOf <- OppositeSide,
         Better <- BetterPrice,
         Blocks <- Nothing,
         queue <- [b \in {"market"} |-> [s \in Sides |-> [p \in Prices |-> Queue(s, p)]]],
         left  <- [b \in {"market"} |-> [i \in Ids |->
                      IF order[i].status = "Absent" THEN -1
                      ELSE order[i].remaining_quantity]]

\* docs/architecture.md, invariants 35 to 48: whatever neighbours a client names
\* and whatever he leaves out, the linked lists behave as PriorityBook's queues
\* (append, insert, cancel, match).
PriceTimePriority == Priority!PSpec

-----------------------------------------------------------------------------
(* Type *)

OrderRecord ==
    [owner : Traders \cup {"none"}, side : Sides, price : LevelHints,
     previous_order : OrderHints, next_order : OrderHints, quantity : Nat,
     remaining_quantity : Nat, locked_collateral : Nat,
     status : {"Absent", "Open", "Filled", "Canceled"}]

LevelRecord ==
    [better_price : LevelHints, worse_price : LevelHints, first_order : OrderHints,
     last_order : OrderHints, total_remaining_quantity : Nat, order_count : Nat]

MarketRecord ==
    [live : BOOLEAN, status : {"Active", "Paused"}, next_order_id : Nat \ {0},
     best : [Sides -> LevelHints], open_order_count : Nat]

\* The shape of the accounts of state.rs: no checked subtraction lets a balance,
\* a counter, the fees or a vault go below zero.
TypeOK ==
    /\ market \in MarketRecord
    /\ fees \in Nat
    /\ order \in [Ids -> OrderRecord]
    /\ level \in [Sides -> [Prices -> LevelRecord]]
    /\ ledgers \subseteq Traders
    /\ balance \in [Traders -> [Assets -> [free : Nat, locked : Nat]]]
    /\ wallet \in [Traders -> [Assets -> Nat]]
    /\ vault \in [Assets -> Nat]
    /\ migrated \in [Traders -> [Assets -> Nat]]
    /\ asset_vault \in [Assets -> Nat]

-----------------------------------------------------------------------------
(* The index *)

\* Every open order is in the queue of its price, in the order of the ids and
\* linked both ways; every level that exists is in the sorted list of its side,
\* linked both ways; counts and totals describe them; nothing else is linked
\* (insert's four shapes, append, cancel, match).
IndexMatchesOrders ==
    /\ market.live => market.open_order_count = Cardinality(OpenOrders)
    /\ \A s \in Sides :
        LET list   == PriceList(s)
            length == Cardinality({p \in Prices : LevelExists(s, p)})
        IN  /\ list[length + 1] = None
            /\ \A n \in 1 .. length :
                   /\ list[n] # None
                   /\ LevelExists(s, list[n])
                   /\ level[s][list[n]].better_price = IF n = 1 THEN None ELSE list[n-1]
                   /\ n > 1 => BetterPrice(s, list[n-1], list[n])
    /\ \A s \in Sides, p \in Prices :
        LET ids == {i \in Ids : OpenAt(i, s, p)}
            q   == Queue(s, p)
            n   == level[s][p].order_count
        IN  /\ n = Cardinality(ids)
            /\ {q[k] : k \in 1 .. n} = ids
            /\ \A k \in 1 .. n :
                   /\ order[q[k]].previous_order = IF k = 1 THEN None ELSE q[k-1]
                   /\ k > 1 => q[k-1] < q[k]
            /\ n > 0 => /\ level[s][p].last_order = q[n]
                        /\ order[q[n]].next_order = None
            /\ level[s][p].total_remaining_quantity =
                   SumFunctionOnSet([i \in Ids |-> order[i].remaining_quantity], ids)

-----------------------------------------------------------------------------
(* Money *)

\* What the ledgers c claim of an asset, free or locked.
Held(c, a) == SumFunction([t \in Traders |-> c[t][a].free + c[t][a].locked])

\* docs/architecture.md, invariant 57, and migrate_spot_asset: the market's
\* vaults hold exactly the ledgers' claims and the fees, and the global vault
\* received exactly what migration credited.
VaultsBacked ==
    \A a \in Assets :
        /\ vault[a] = Held(balance, a) + (IF a = "quote" THEN fees ELSE 0)
        /\ asset_vault[a] = SumFunction([t \in Traders |-> migrated[t][a]])

\* What order o locks in trader t's balance of an asset.
LockOf(o, t, a) ==
    IF o.status = "Open" /\ o.owner = t /\ LockedAsset(o.side) = a
    THEN o.locked_collateral ELSE 0

\* A ledger locks exactly what its owner's open orders record, so neither dust
\* nor another order's lock is ever released or left behind (placement, partial
\* fills, the last fill of a bid, cancellation).
LocksBacked ==
    \A t \in Traders, a \in Assets :
        balance[t][a].locked = SumFunction([i \in Ids |-> LockOf(order[i], t, a)])

\* The comment of handle_cancel_limit_order: owners retain an exit path.  In
\* whatever state the market is, every open order passes the checks of its
\* cancellation, also one whose lock was rounded to nothing.
OpenOrdersCancelable ==
    \A i \in OpenOrders :
        LET o == order[i]
        IN  /\ market.live
            /\ o.owner \in ledgers
            /\ Linked(i)
            /\ balance[o.owner][LockedAsset(o.side)].locked >= o.locked_collateral

\* close_market deletes the market account the withdrawals need: nobody may
\* have a claim on it then, and no price level may survive into a market that is
\* created again under the same mints.
ClosedOwesNothing ==
    ~market.live =>
        /\ fees = 0
        /\ \A t \in Traders, a \in Assets :
               balance[t][a].free = 0 /\ balance[t][a].locked = 0
        /\ \A s \in Sides, p \in Prices : ~LevelExists(s, p)

-----------------------------------------------------------------------------
(* Steps *)

\* A filled or canceled order stays as it is: ids restart when the market is
\* created again, and the accounts already there must win.
HistoryNeverOverwritten ==
    [][\A i \in Ids : order[i].status \in {"Filled", "Canceled"} => order'[i] = order[i]]_vars
=============================================================================
