-------------------------- MODULE LegacySpotProofs --------------------------
(***************************************************************************)
(* Theorems about LegacySpot for any traders, prices and bounds.           *)
(***************************************************************************)
EXTENDS LegacyProperties, DataProofs

USE LegacySpotAssumption DEF None

Claims == [Traders -> [Assets -> [free : Nat, locked : Nat]]]
Levels == [Prices -> LevelRecord]

-----------------------------------------------------------------------------
(* Balances *)

\* What Change does to ledgers that can afford it.
LEMMA ChangeType ==
    ASSUME NEW c \in Claims, NEW t \in Traders, NEW a \in Assets,
           NEW f \in Int, NEW k \in Int,
           c[t][a].free + f >= 0, c[t][a].locked + k >= 0
    PROVE  /\ Change(c, t, a, f, k) \in Claims
           /\ \A x \in Traders, y \in Assets :
                  x # t \/ y # a => Change(c, t, a, f, k)[x][y] = c[x][y]
  BY DEF Change, Claims

\* Every balance is two naturals.
LEMMA ClaimParts ==
    ASSUME NEW c \in Claims, NEW t \in Traders, NEW a \in Assets
    PROVE  c[t][a].free \in Nat /\ c[t][a].locked \in Nat
  BY DEF Claims

\* Both balances of a trader change, and nothing is locked in the second.
LEMMA TwoChangesType ==
    ASSUME NEW c \in Claims, NEW t \in Traders,
           NEW a \in Assets, NEW b \in Assets, a # b,
           NEW f \in Int, NEW k \in Int, NEW g \in Int,
           c[t][a].free + f >= 0, c[t][a].locked + k >= 0, c[t][b].free + g >= 0
    PROVE  /\ Change(Change(c, t, a, f, k), t, b, g, 0) \in Claims
           /\ \A x \in Traders, y \in Assets :
                  x # t => Change(Change(c, t, a, f, k), t, b, g, 0)[x][y] = c[x][y]
<1> DEFINE n == Change(c, t, a, f, k)
<1>1. n \in Claims /\ \A x \in Traders, y \in Assets : x # t \/ y # a => n[x][y] = c[x][y]
  BY ChangeType
<1>2. n[t][b].free + g >= 0 /\ n[t][b].locked + 0 >= 0
  BY <1>1, ClaimParts
<1> HIDE DEF n
<1>3. /\ Change(n, t, b, g, 0) \in Claims
      /\ \A x \in Traders, y \in Assets :
             x # t \/ y # b => Change(n, t, b, g, 0)[x][y] = n[x][y]
  BY <1>1, <1>2, ChangeType
<1> QED
  BY <1>1, <1>3 DEF n

-----------------------------------------------------------------------------
(* Links *)

\* The part of TypeOK the links live in.
LinksType ==
    /\ market \in MarketRecord
    /\ order \in [Ids -> OrderRecord]
    /\ level \in [Sides -> Levels]

\* TypeOK, one variable at a time.
LEMMA TypeParts ==
    ASSUME TypeOK
    PROVE  LinksType /\ balance \in Claims /\ fees \in Nat
  BY DEF TypeOK, LinksType, Levels, Claims

\* Of an order that can leave, and of its level.
LEMMA LinkedParts ==
    ASSUME LinksType, NEW i \in Ids, Linked(i)
    PROVE  LET o  == order[i]
               lv == level[o.side][o.price]
           IN  /\ o \in OrderRecord /\ o.side \in Sides /\ o.price \in Prices
               /\ o.status = "Open" /\ o.remaining_quantity \in Nat
               /\ level[o.side] \in Levels /\ lv \in LevelRecord
               /\ lv.order_count \in Nat /\ lv.order_count > 0
               /\ lv.total_remaining_quantity \in Nat
               /\ lv.total_remaining_quantity >= o.remaining_quantity
               /\ market.open_order_count \in Nat /\ market.open_order_count >= 1
<1> DEFINE o  == order[i]
           lv == level[o.side][o.price]
<1>1. o \in OrderRecord
  BY DEF LinksType
<1>2. o.side \in Sides /\ o.price \in Prices /\ o.remaining_quantity \in Nat
  BY <1>1 DEF OrderRecord, Linked, LevelExists
<1>3. level[o.side] \in Levels
  BY <1>2 DEF LinksType
<1>4. lv \in LevelRecord
  BY <1>2, <1>3 DEF Levels
<1>5. lv.order_count \in Nat /\ lv.total_remaining_quantity \in Nat
  BY <1>4 DEF LevelRecord
<1>6. market.open_order_count \in Nat
  BY DEF LinksType, MarketRecord
<1> QED
  BY <1>1, <1>2, <1>3, <1>4, <1>5, <1>6 DEF Linked, LevelExists

\* What an order that ended keeps is an order record.
LEMMA EndedType ==
    ASSUME NEW o \in OrderRecord, NEW status \in {"Filled", "Canceled"}
    PROVE  Ended(o, status) \in OrderRecord /\ Ended(o, status).status = status
  BY DEF Ended, OrderRecord, OrderHints

\* Unlinking an order leaves order records.
LEMMA OrdersWithoutType ==
    ASSUME LinksType, NEW i \in Ids, NEW final \in OrderRecord
    PROVE  OrdersWithout(i, final) \in [Ids -> OrderRecord]
<1> DEFINE o == order[i]
           relinked(j) == [order[j] EXCEPT
               !.next_order     = IF j = o.previous_order THEN o.next_order ELSE order[j].next_order,
               !.previous_order = IF j = o.next_order THEN o.previous_order ELSE order[j].previous_order]
<1>1. \A j \in Ids : order[j] \in OrderRecord
  BY DEF LinksType
<1>2. o.next_order \in OrderHints /\ o.previous_order \in OrderHints
  BY <1>1 DEF OrderRecord
<1>3. ASSUME NEW j \in Ids PROVE relinked(j) \in OrderRecord
  BY <1>1, <1>2 DEF OrderRecord
<1> QED
  BY <1>1, <1>3 DEF OrdersWithout

\* The level an order leaves shrinks or disappears, its neighbours stay levels.
LEMMA LevelsWithoutType ==
    ASSUME LinksType, NEW i \in Ids, Linked(i)
    PROVE  LevelsWithout(i) \in Levels
<1> DEFINE o   == order[i]
           old == level[o.side]
           lv  == old[o.price]
<1>1. /\ o \in OrderRecord /\ o.price \in Prices /\ old \in Levels /\ lv \in LevelRecord
      /\ lv.order_count \in Nat /\ lv.order_count > 0
      /\ lv.total_remaining_quantity \in Nat /\ o.remaining_quantity \in Nat
      /\ lv.total_remaining_quantity >= o.remaining_quantity
  BY LinkedParts
<1>2. \A x \in Prices : old[x] \in LevelRecord
  BY <1>1 DEF Levels
<1>3. CASE OnlyOrderOfLevel(i)
  <2> DEFINE relinked(x) == [old[x] EXCEPT
                 !.worse_price  = IF x = lv.better_price THEN lv.worse_price ELSE old[x].worse_price,
                 !.better_price = IF x = lv.worse_price THEN lv.better_price ELSE old[x].better_price]
  <2>1. lv.worse_price \in LevelHints /\ lv.better_price \in LevelHints
    BY <1>1 DEF LevelRecord
  <2>2. ASSUME NEW x \in Prices PROVE relinked(x) \in LevelRecord
    BY <1>2, <2>1 DEF LevelRecord
  <2>3. AbsentLevel \in LevelRecord
    BY DEF AbsentLevel, LevelRecord, LevelHints, OrderHints
  <2> QED
    BY <1>2, <1>3, <2>2, <2>3 DEF LevelsWithout, Levels
<1>4. CASE ~OnlyOrderOfLevel(i)
  <2> DEFINE first == IF o.previous_order = None THEN o.next_order ELSE lv.first_order
             last  == IF o.next_order = None THEN o.previous_order ELSE lv.last_order
             new   == [lv EXCEPT !.first_order = first, !.last_order = last,
                                 !.order_count = lv.order_count - 1,
                                 !.total_remaining_quantity =
                                     lv.total_remaining_quantity - o.remaining_quantity]
  <2>1. lv.order_count - 1 \in Nat /\ lv.total_remaining_quantity - o.remaining_quantity \in Nat
    BY <1>1
  <2>2. first \in OrderHints /\ last \in OrderHints
    BY <1>1 DEF LevelRecord, OrderRecord
  <2> HIDE DEF first, last
  <2>3. new \in LevelRecord
    BY <1>1, <2>1, <2>2 DEF LevelRecord
  <2>4. LevelsWithout(i) = [old EXCEPT ![o.price] = new]
    BY <1>4 DEF LevelsWithout, first, last
  <2> QED
    BY <1>1, <1>2, <2>3, <2>4 DEF Levels
<1> QED
  BY <1>3, <1>4

\* The market without an order: one fewer is open, one best price may move.
LEMMA MarketWithoutType ==
    ASSUME LinksType, NEW i \in Ids, Linked(i)
    PROVE  LET o == order[i]
           IN  /\ MarketWithout(i) \in MarketRecord
               /\ MarketWithout(i).open_order_count = market.open_order_count - 1
               /\ MarketWithout(i).live = market.live
               /\ MarketWithout(i).next_order_id = market.next_order_id
               /\ MarketWithout(i).best =
                      [market.best EXCEPT ![o.side] =
                          IF OnlyOrderOfLevel(i) /\ level[o.side][o.price].better_price = None
                          THEN level[o.side][o.price].worse_price ELSE market.best[o.side]]
<1> DEFINE o    == order[i]
           lv   == level[o.side][o.price]
           best == IF OnlyOrderOfLevel(i) /\ lv.better_price = None
                   THEN lv.worse_price ELSE market.best[o.side]
<1>1. /\ o.side \in Sides /\ lv \in LevelRecord
      /\ market.open_order_count \in Nat /\ market.open_order_count >= 1
  BY LinkedParts
<1>2. market \in MarketRecord
  BY DEF LinksType
<1>3. market.best \in [Sides -> LevelHints]
  BY <1>2 DEF MarketRecord
<1>4. best \in LevelHints
  BY <1>1, <1>3 DEF LevelRecord
<1>5. MarketWithout(i) = [market EXCEPT !.open_order_count = market.open_order_count - 1,
                                        !.best = [market.best EXCEPT ![o.side] = best]]
  BY <1>2 DEF MarketWithout, MarketRecord
<1> HIDE DEF best
<1>6. [market.best EXCEPT ![o.side] = best] \in [Sides -> LevelHints]
  BY <1>3, <1>4
<1>7. market.open_order_count - 1 \in Nat
  BY <1>1
<1> QED
  BY <1>2, <1>5, <1>6, <1>7 DEF MarketRecord, best

-----------------------------------------------------------------------------
(* Placement *)

\* The asset an order locks and what it locks of it.
LEMMA CollateralType ==
    ASSUME NEW s \in Sides, NEW p \in Nat, NEW q \in Nat
    PROVE  LockedAsset(s) \in Assets /\ Collateral(Scale, s, p, q) \in Nat
<1>1. QuoteAmount(Scale, p, q) \in Nat
  BY QuoteAmountType
<1> QED
  BY <1>1 DEF LockedAsset, Assets, Collateral

\* A new order takes its lock out of a free balance.
LEMMA PlacingType ==
    ASSUME TypeOK, NEW t \in Traders, NEW s \in Sides, NEW p \in Prices,
           NEW q \in Quantities, NEW previous \in OrderHints,
           market.next_order_id \in Ids, Placing(t, s, p, q, previous)
    PROVE  /\ balance' \in Claims
           /\ order' \in [Ids -> OrderRecord]
           /\ UNCHANGED <<fees, ledgers, wallet, vault, migrated, asset_vault>>
<1> DEFINE id     == market.next_order_id
           asset  == LockedAsset(s)
           amount == Collateral(Scale, s, p, q)
           new == [owner |-> t, side |-> s, price |-> p,
                   previous_order |-> previous, next_order |-> None,
                   quantity |-> q, remaining_quantity |-> q,
                   locked_collateral |-> amount, status |-> "Open"]
           relinked(j) == [order[j] EXCEPT !.next_order = id]
<1>1. LinksType /\ balance \in Claims
  BY TypeParts
<1>2. p \in Nat /\ q \in Nat
  OBVIOUS
<1>3. asset \in Assets /\ amount \in Nat
  BY <1>2, CollateralType
<1>4. balance[t][asset].free >= amount /\ balance' = Change(balance, t, asset, -amount, amount)
  BY DEF Placing
<1>5. balance' \in Claims
  <2>1. balance[t][asset].free \in Nat /\ balance[t][asset].locked \in Nat
    BY <1>1, <1>3, ClaimParts
  <2> HIDE DEF asset, amount
  <2>2. /\ -amount \in Int /\ amount \in Int
        /\ balance[t][asset].free + (-amount) >= 0
        /\ balance[t][asset].locked + amount >= 0
    BY <1>3, <1>4, <2>1
  <2> QED
    BY <1>1, <1>3, <1>4, <2>2, ChangeType
<1>6. order' \in [Ids -> OrderRecord]
  <2>1. \A j \in Ids : order[j] \in OrderRecord
    BY <1>1 DEF LinksType
  <2>2. \A j \in Ids : relinked(j) \in OrderRecord
    BY <2>1 DEF OrderRecord, OrderHints
  <2>3. new \in OrderRecord
    <3> HIDE DEF amount
    <3> QED
      BY <1>2, <1>3 DEF OrderRecord, OrderHints, LevelHints
  <2>4. order' = [j \in Ids |-> IF j = id THEN new
                                ELSE IF j = previous THEN relinked(j) ELSE order[j]]
    BY DEF Placing
  <2> HIDE DEF new, relinked
  <2> QED
    BY <2>1, <2>2, <2>3, <2>4
<1> QED
  BY <1>5, <1>6 DEF Placing

\* What counts an order into the market.
LEMMA MarketWithType ==
    ASSUME LinksType, NEW s \in Sides, NEW best \in LevelHints
    PROVE  LET m == [market EXCEPT !.next_order_id = market.next_order_id + 1,
                                   !.open_order_count = market.open_order_count + 1,
                                   !.best = [market.best EXCEPT ![s] = best]]
           IN  m \in MarketRecord
<1>1. market \in MarketRecord
  BY DEF LinksType
<1>2. market.best \in [Sides -> LevelHints]
  BY <1>1 DEF MarketRecord
<1>3. [market.best EXCEPT ![s] = best] \in [Sides -> LevelHints]
  BY <1>2
<1>4. market.next_order_id + 1 \in Nat \ {0} /\ market.open_order_count + 1 \in Nat
  BY <1>1 DEF MarketRecord
<1> QED
  BY <1>1, <1>3, <1>4 DEF MarketRecord

\* A new level between its neighbours.
LEMMA InsertType ==
    ASSUME TypeOK, NEW t \in Traders, NEW s \in Sides, NEW p \in Prices,
           NEW q \in Quantities, NEW better \in LevelHints, NEW worse \in LevelHints,
           market.next_order_id \in Ids, InsertLimitOrder(t, s, p, q, better, worse)
    PROVE  TypeOK'
<1> DEFINE id  == market.next_order_id
           old == level[s]
           new == [better_price |-> better, worse_price |-> worse,
                   first_order |-> id, last_order |-> id,
                   total_remaining_quantity |-> q, order_count |-> 1]
           relinked(x) == [old[x] EXCEPT
               !.worse_price  = IF x = better THEN p ELSE old[x].worse_price,
               !.better_price = IF x = worse THEN p ELSE old[x].better_price]
           row  == [x \in Prices |-> IF x = p THEN new ELSE relinked(x)]
           best == IF better = None THEN p ELSE market.best[s]
<1>1. LinksType
  BY TypeParts
<1>2. None \in OrderHints /\ p \in LevelHints
  BY DEF OrderHints, LevelHints
<1>3. /\ balance' \in Claims
      /\ order' \in [Ids -> OrderRecord]
      /\ UNCHANGED <<fees, ledgers, wallet, vault, migrated, asset_vault>>
  BY <1>2, PlacingType DEF InsertLimitOrder
<1>4. row \in Levels
  <2>1. \A x \in Prices : old[x] \in LevelRecord
    BY <1>1 DEF LinksType, Levels
  <2>2. new \in LevelRecord
    BY DEF LevelRecord, OrderHints
  <2>3. \A x \in Prices : relinked(x) \in LevelRecord
    BY <1>2, <2>1 DEF LevelRecord
  <2> HIDE DEF new, relinked
  <2> QED
    BY <2>2, <2>3 DEF Levels
<1>5. level' = [level EXCEPT ![s] = row]
  BY DEF InsertLimitOrder
<1>6. best \in LevelHints
  <2>1. market.best \in [Sides -> LevelHints]
    BY <1>1 DEF LinksType, MarketRecord
  <2> QED
    BY <1>2, <2>1
<1>7. market' = [market EXCEPT !.next_order_id = market.next_order_id + 1,
                               !.open_order_count = market.open_order_count + 1,
                               !.best = [market.best EXCEPT ![s] = best]]
  BY <1>1 DEF InsertLimitOrder, LinksType, MarketRecord
<1> HIDE DEF row, best
<1>8. level' \in [Sides -> Levels]
  BY <1>1, <1>4, <1>5 DEF LinksType
<1>9. market' \in MarketRecord
  BY <1>1, <1>6, <1>7, MarketWithType
<1> QED
  BY <1>3, <1>8, <1>9 DEF TypeOK, Levels, Claims

\* Behind the last order of its level.
LEMMA AppendType ==
    ASSUME TypeOK, NEW t \in Traders, NEW s \in Sides, NEW p \in Prices,
           NEW q \in Quantities,
           market.next_order_id \in Ids, AppendLimitOrder(t, s, p, q)
    PROVE  TypeOK'
<1> DEFINE id   == market.next_order_id
           lv   == level[s][p]
           new  == [lv EXCEPT !.last_order = id,
                              !.total_remaining_quantity = lv.total_remaining_quantity + q,
                              !.order_count = lv.order_count + 1]
<1>1. LinksType
  BY TypeParts
<1>2. lv \in LevelRecord /\ level[s] \in Levels
  BY <1>1 DEF LinksType, Levels
<1>3. lv.last_order \in OrderHints
  BY <1>2 DEF LevelRecord
<1>4. /\ balance' \in Claims
      /\ order' \in [Ids -> OrderRecord]
      /\ UNCHANGED <<fees, ledgers, wallet, vault, migrated, asset_vault>>
  BY <1>3, PlacingType DEF AppendLimitOrder
<1>5. new \in LevelRecord
  <2>1. lv.total_remaining_quantity + q \in Nat /\ lv.order_count + 1 \in Nat
    BY <1>2 DEF LevelRecord
  <2>2. id \in OrderHints
    BY DEF OrderHints
  <2> QED
    BY <1>2, <2>1, <2>2 DEF LevelRecord
<1>6. level' = [level EXCEPT ![s] = [level[s] EXCEPT ![p] = new]]
  BY <1>1 DEF AppendLimitOrder, LinksType
<1> HIDE DEF new
<1>7. level' \in [Sides -> Levels]
  BY <1>1, <1>2, <1>5, <1>6 DEF LinksType, Levels
<1>8. market' \in MarketRecord
  <2>1. market \in MarketRecord
    BY <1>1 DEF LinksType
  <2>2. market.next_order_id + 1 \in Nat \ {0} /\ market.open_order_count + 1 \in Nat
    BY <2>1 DEF MarketRecord
  <2>3. market' = [market EXCEPT !.next_order_id = market.next_order_id + 1,
                                 !.open_order_count = market.open_order_count + 1]
    BY DEF AppendLimitOrder
  <2> QED
    BY <2>1, <2>2, <2>3 DEF MarketRecord
<1> QED
  BY <1>4, <1>7, <1>8 DEF TypeOK, Levels, Claims

-----------------------------------------------------------------------------
(* Cancellation *)

\* A canceled order gives its lock back and leaves its queue.
LEMMA CancelType ==
    ASSUME TypeOK, NEW t \in Traders, NEW i \in Ids, CancelLimitOrder(t, i)
    PROVE  TypeOK'
<1> DEFINE o     == order[i]
           asset == LockedAsset(o.side)
           lock  == o.locked_collateral
<1>1. LinksType /\ balance \in Claims /\ Linked(i)
  BY TypeParts DEF CancelLimitOrder
<1>2. o \in OrderRecord /\ o.side \in Sides
  BY <1>1, LinkedParts
<1>3. asset \in Assets /\ lock \in Nat
  BY <1>2 DEF LockedAsset, Assets, OrderRecord
<1>4. balance[t][asset].locked >= lock /\ balance' = Change(balance, t, asset, lock, -lock)
  BY DEF CancelLimitOrder, Refund
<1>5. balance' \in Claims
  <2>1. balance[t][asset].free \in Nat /\ balance[t][asset].locked \in Nat
    BY <1>1, <1>3, ClaimParts
  <2> HIDE DEF asset, lock
  <2>2. /\ lock \in Int /\ -lock \in Int
        /\ balance[t][asset].free + lock >= 0
        /\ balance[t][asset].locked + (-lock) >= 0
    BY <1>3, <1>4, <2>1
  <2> QED
    BY <1>1, <1>3, <1>4, <2>2, ChangeType
<1>6. order' \in [Ids -> OrderRecord]
  BY <1>1, <1>2, EndedType, OrdersWithoutType DEF CancelLimitOrder
<1>7. level' \in [Sides -> Levels]
  <2>1. LevelsWithout(i) \in Levels
    BY <1>1, LevelsWithoutType
  <2> QED
    BY <1>1, <2>1 DEF CancelLimitOrder, LinksType
<1>8. market' \in MarketRecord
  BY <1>1, MarketWithoutType DEF CancelLimitOrder
<1>9. UNCHANGED <<fees, ledgers, wallet, vault, migrated, asset_vault>>
  BY DEF CancelLimitOrder
<1> QED
  BY <1>5, <1>6, <1>7, <1>8, <1>9 DEF TypeOK, Levels, Claims

-----------------------------------------------------------------------------
(* Matching *)

\* What a fill is made of.
LEMMA MatchParts ==
    ASSUME TypeOK, NEW t \in Traders, NEW s \in Sides, NEW limit \in Prices,
           NEW q \in Quantities, NEW bps \in FeeRates, NEW i \in Ids,
           MatchLimitOrder(t, s, limit, q, bps, i)
    PROVE  LET o    == order[i]
               lv   == level[o.side][o.price]
               plan == Settlement(Scale, o.side, o.price, q,
                                  o.remaining_quantity, o.locked_collateral)
               fee  == TakerFee(plan.quote, bps)
           IN  /\ o \in OrderRecord /\ o.side \in Sides /\ o.side # s
               /\ o.price \in Prices /\ o.price \in Nat
               /\ o.owner \in Traders /\ o.owner # t /\ o.status = "Open"
               /\ level[o.side] \in Levels /\ lv \in LevelRecord
               /\ o.remaining_quantity \in Nat /\ o.locked_collateral \in Nat
               /\ plan.base \in Nat /\ plan.base > 0 /\ plan.base <= o.remaining_quantity
               /\ plan.fully_filled <=> plan.base = o.remaining_quantity
               /\ plan.quote \in Nat /\ plan.quote = QuoteAmount(Scale, o.price, plan.base)
               /\ plan.debit \in Nat /\ plan.debit <= o.locked_collateral
               /\ plan.refund \in Nat
               /\ o.side = "Ask" => plan.debit = plan.base /\ plan.refund = 0
               /\ o.side = "Bid" => plan.debit = plan.quote + plan.refund
               /\ fee \in Nat
<1> DEFINE o    == order[i]
           lv   == level[o.side][o.price]
           plan == Settlement(Scale, o.side, o.price, q,
                              o.remaining_quantity, o.locked_collateral)
           fee  == TakerFee(plan.quote, bps)
<1>1. LinksType
  BY TypeParts
<1>2. FifoMaker(t, i) /\ Settles(Scale, s, limit, o.side, o.price, q,
                                 o.remaining_quantity, o.locked_collateral)
  BY DEF MatchLimitOrder
<1>3. o \in OrderRecord
  BY <1>1 DEF LinksType
<1>4. /\ o.side \in Sides /\ o.price \in Prices
      /\ o.remaining_quantity \in Nat /\ o.locked_collateral \in Nat
  BY <1>2, <1>3 DEF OrderRecord, FifoMaker, LevelExists
<1>5. o.price \in Nat /\ q \in Nat
  BY <1>4
<1>6. level[o.side] \in Levels
  BY <1>1, <1>4 DEF LinksType
<1>7. lv \in LevelRecord
  BY <1>4, <1>6 DEF Levels
<1>8. o.owner \in Traders
  <2>1. {t, o.owner} \subseteq ledgers /\ ledgers \subseteq Traders
    BY DEF MatchLimitOrder, TypeOK
  <2> QED
    BY <2>1
<1>9. o.side # s
  BY <1>2 DEF Settles
<1> DEFINE B == plan.base
           D == plan.debit
<1>10. /\ B = FillBase(q, o.remaining_quantity)
       /\ plan.quote = QuoteAmount(Scale, o.price, B)
       /\ plan.fully_filled <=> B = o.remaining_quantity
       /\ D = MakerDebit(o.side, B, plan.quote, B = o.remaining_quantity, o.locked_collateral)
       /\ plan.refund = IF o.side = "Ask" THEN 0 ELSE D - plan.quote
  BY DEF Settlement
<1>11. /\ B > 0
       /\ IF o.side = "Ask" THEN o.locked_collateral = o.remaining_quantity
                            ELSE D >= plan.quote /\ o.locked_collateral >= D
  BY <1>2 DEF Settles
<1> HIDE DEF plan
<1>12. B \in Nat /\ B <= o.remaining_quantity
  BY <1>4, <1>5, <1>10 DEF FillBase
<1>13. plan.quote \in Nat
  <2>1. Scale \in Nat \ {0}
    OBVIOUS
  <2>2. QuoteAmount(Scale, o.price, B) \in Nat
    BY ONLY <1>5, <1>12, <2>1, QuoteAmountType
  <2> QED
    BY <1>10, <2>2
<1>14. o.side = "Ask" \/ o.side = "Bid"
  BY <1>4 DEF Sides
<1>15. D \in Nat /\ D <= o.locked_collateral
  <2>1. CASE o.side = "Ask"
    BY <1>4, <1>10, <1>11, <1>12, <2>1 DEF MakerDebit
  <2>2. CASE o.side = "Bid"
    BY <1>4, <1>10, <1>11, <1>13, <2>2 DEF MakerDebit
  <2> QED
    BY <1>14, <2>1, <2>2
<1>16. /\ o.side = "Ask" => D = B /\ plan.refund = 0
       /\ o.side = "Bid" => D = plan.quote + plan.refund
       /\ plan.refund \in Nat
  <2>1. CASE o.side = "Ask"
    BY <1>10, <2>1 DEF MakerDebit
  <2>2. CASE o.side = "Bid"
    BY <1>10, <1>11, <1>13, <1>15, <2>2
  <2> QED
    BY <1>14, <2>1, <2>2
<1>17. fee \in Nat
  <2>1. bps \in 0 .. MAX_TAKER_FEE_BPS
    OBVIOUS
  <2>2. fee \in 0 .. plan.quote
    BY <1>13, <2>1, FeeWithinQuote
  <2> QED
    BY <2>2
<1>18. o.owner # t /\ o.status = "Open"
  BY <1>2 DEF FifoMaker
<1> HIDE DEF B, D, fee, lv, o
<1> QED
  BY <1>3, <1>4, <1>5, <1>6, <1>7, <1>8, <1>9, <1>10, <1>11, <1>12, <1>13, <1>15,
     <1>16, <1>17, <1>18 DEF o, lv, fee, plan, B, D

\* A fill leaves naturals in both ledgers.
LEMMA SettleType ==
    ASSUME TypeOK, NEW t \in Traders, NEW s \in Sides, NEW limit \in Prices,
           NEW q \in Quantities, NEW bps \in FeeRates, NEW i \in Ids,
           MatchLimitOrder(t, s, limit, q, bps, i)
    PROVE  balance' \in Claims
<1> DEFINE o    == order[i]
           plan == Settlement(Scale, o.side, o.price, q,
                              o.remaining_quantity, o.locked_collateral)
           fee  == TakerFee(plan.quote, bps)
           m    == o.owner
           B    == plan.base
           Q    == plan.quote
           D    == plan.debit
           R    == plan.refund
<1>1. /\ m \in Traders /\ m # t
      /\ B \in Nat /\ Q \in Nat /\ D \in Nat /\ R \in Nat /\ fee \in Nat
  BY MatchParts
<1>2. balance \in Claims
  BY TypeParts
<1>3. "base" \in Assets /\ "quote" \in Assets
  BY DEF Assets
<1>4. \A x \in Traders, a \in Assets :
          balance[x][a].free \in Nat /\ balance[x][a].locked \in Nat
  BY <1>2, ClaimParts
<1>5. CASE s = "Bid"
  <2> DEFINE n == Change(Change(balance, t, "quote", -(Q + fee), 0), t, "base", B, 0)
  <2>1. /\ balance[t]["quote"].free >= Q + fee
        /\ balance[m]["base"].locked >= D
        /\ balance' = Change(Change(n, m, "base", 0, -D), m, "quote", Q, 0)
    BY <1>5 DEF MatchLimitOrder, SettleBuy
  <2> HIDE DEF o, plan, fee, m, B, Q, D, R
  <2>2. /\ -(Q + fee) \in Int /\ -D \in Int /\ B \in Int /\ 0 \in Int /\ Q \in Int
        /\ balance[t]["quote"].free + (-(Q + fee)) >= 0
        /\ balance[t]["quote"].locked + 0 >= 0 /\ balance[t]["base"].free + B >= 0
        /\ balance[m]["base"].free + 0 >= 0 /\ balance[m]["base"].locked + (-D) >= 0
        /\ balance[m]["quote"].free + Q >= 0
    BY <1>1, <1>3, <1>4, <2>1
  <2>3. /\ n \in Claims
        /\ \A x \in Traders, y \in Assets : x # t => n[x][y] = balance[x][y]
    BY ONLY <1>2, <1>3, <2>2, t \in Traders, TwoChangesType
  <2> HIDE DEF n
  <2>4. n[m]["base"] = balance[m]["base"] /\ n[m]["quote"] = balance[m]["quote"]
    BY <1>1, <1>3, <2>3
  <2>5. Change(Change(n, m, "base", 0, -D), m, "quote", Q, 0) \in Claims
    BY <1>1, <1>3, <2>2, <2>3, <2>4, TwoChangesType
  <2> QED
    BY <2>1, <2>5
<1>6. CASE s # "Bid"
  <2> DEFINE n == Change(Change(balance, t, "base", -B, 0), t, "quote", Q - fee, 0)
  <2>1. /\ Q >= fee
        /\ balance[t]["base"].free >= B
        /\ balance[m]["quote"].locked >= D
        /\ balance' = Change(Change(n, m, "quote", R, -D), m, "base", B, 0)
    BY <1>6 DEF MatchLimitOrder, SettleSell
  <2> HIDE DEF o, plan, fee, m, B, Q, D, R
  <2>2. /\ -B \in Int /\ -D \in Int /\ B \in Int /\ 0 \in Int /\ Q - fee \in Int /\ R \in Int
        /\ balance[t]["base"].free + (-B) >= 0
        /\ balance[t]["base"].locked + 0 >= 0 /\ balance[t]["quote"].free + (Q - fee) >= 0
        /\ balance[m]["quote"].free + R >= 0 /\ balance[m]["quote"].locked + (-D) >= 0
        /\ balance[m]["base"].free + B >= 0
    BY <1>1, <1>3, <1>4, <2>1
  <2>3. /\ n \in Claims
        /\ \A x \in Traders, y \in Assets : x # t => n[x][y] = balance[x][y]
    BY ONLY <1>2, <1>3, <2>2, t \in Traders, TwoChangesType
  <2> HIDE DEF n
  <2>4. n[m]["base"] = balance[m]["base"] /\ n[m]["quote"] = balance[m]["quote"]
    BY <1>1, <1>3, <2>3
  <2>5. Change(Change(n, m, "quote", R, -D), m, "base", B, 0) \in Claims
    BY <1>1, <1>3, <2>2, <2>3, <2>4, TwoChangesType
  <2> QED
    BY <2>1, <2>5
<1> QED
  BY <1>5, <1>6

\* A fill, complete or not.
LEMMA MatchType ==
    ASSUME TypeOK, NEW t \in Traders, NEW s \in Sides, NEW limit \in Prices,
           NEW q \in Quantities, NEW bps \in FeeRates, NEW i \in Ids,
           MatchLimitOrder(t, s, limit, q, bps, i)
    PROVE  TypeOK'
<1> DEFINE o    == order[i]
           lv   == level[o.side][o.price]
           plan == Settlement(Scale, o.side, o.price, q,
                              o.remaining_quantity, o.locked_collateral)
           fee  == TakerFee(plan.quote, bps)
           B    == plan.base
           D    == plan.debit
<1>1. /\ o \in OrderRecord /\ o.side \in Sides /\ o.price \in Prices
      /\ level[o.side] \in Levels /\ lv \in LevelRecord
      /\ o.remaining_quantity \in Nat /\ o.locked_collateral \in Nat
      /\ B \in Nat /\ B <= o.remaining_quantity
      /\ D \in Nat /\ D <= o.locked_collateral /\ fee \in Nat
  BY MatchParts
<1>2. LinksType /\ fees \in Nat
  BY TypeParts
<1>3. balance' \in Claims
  BY SettleType
<1>4. fees' \in Nat
  <2>1. fees' = fees + fee
    BY DEF MatchLimitOrder
  <2> HIDE DEF fee
  <2> QED
    BY <1>1, <1>2, <2>1
<1>5. lv.total_remaining_quantity >= B
  BY DEF MatchLimitOrder
<1>6. UNCHANGED <<ledgers, wallet, vault, migrated, asset_vault>>
  BY DEF MatchLimitOrder
<1>7. CASE /\ Linked(i)
           /\ order' = OrdersWithout(i, Ended(o, "Filled"))
           /\ level' = [level EXCEPT ![o.side] = LevelsWithout(i)]
           /\ market' = MarketWithout(i)
  <2>1. order' \in [Ids -> OrderRecord]
    BY <1>1, <1>2, <1>7, EndedType, OrdersWithoutType
  <2>2. level' \in [Sides -> Levels]
    <3>1. LevelsWithout(i) \in Levels
      BY <1>2, <1>7, LevelsWithoutType
    <3> QED
      BY <1>2, <1>7, <3>1 DEF LinksType
  <2>3. market' \in MarketRecord
    BY <1>2, <1>7, MarketWithoutType
  <2> QED
    BY <1>3, <1>4, <1>6, <2>1, <2>2, <2>3 DEF TypeOK, Levels, Claims
<1>8. CASE /\ order' = [order EXCEPT
                  ![i].remaining_quantity = o.remaining_quantity - B,
                  ![i].locked_collateral  = o.locked_collateral - D]
           /\ level' = [level EXCEPT
                  ![o.side][o.price].total_remaining_quantity = lv.total_remaining_quantity - B]
           /\ UNCHANGED market
  <2> DEFINE less  == [o EXCEPT !.remaining_quantity = o.remaining_quantity - B,
                                !.locked_collateral = o.locked_collateral - D]
             short == [lv EXCEPT !.total_remaining_quantity = lv.total_remaining_quantity - B]
  <2>1. lv.total_remaining_quantity \in Nat
    BY <1>1 DEF LevelRecord
  <2>2. order \in [Ids -> OrderRecord] /\ level \in [Sides -> Levels] /\ market \in MarketRecord
    BY <1>2 DEF LinksType
  <2>3. order' = [order EXCEPT ![i] = less]
    BY <1>8, <2>2
  <2>4. level' = [level EXCEPT ![o.side] = [level[o.side] EXCEPT ![o.price] = short]]
    BY <1>1, <1>8, <2>2 DEF Levels
  <2> HIDE DEF B, D, plan, fee
  <2>5. less \in OrderRecord
    <3>1. o.remaining_quantity - B \in Nat /\ o.locked_collateral - D \in Nat
      BY <1>1
    <3> HIDE DEF o
    <3> QED
      BY <1>1, <3>1 DEF OrderRecord
  <2>6. short \in LevelRecord
    <3>1. lv.total_remaining_quantity - B \in Nat
      BY <1>1, <1>5, <2>1
    <3> HIDE DEF lv
    <3> QED
      BY <1>1, <3>1 DEF LevelRecord
  <2> HIDE DEF less, short
  <2>7. order' \in [Ids -> OrderRecord]
    BY <2>2, <2>3, <2>5
  <2>8. level' \in [Sides -> Levels]
    BY <1>1, <2>2, <2>4, <2>6 DEF Levels
  <2> QED
    BY <1>3, <1>4, <1>6, <1>8, <2>2, <2>7, <2>8 DEF TypeOK, Levels, Claims
<1> QED
  BY <1>7, <1>8 DEF MatchLimitOrder

-----------------------------------------------------------------------------
(* Custody and administration *)

\* Deposits, withdrawals, migration, new ledgers and the fees.
LEMMA CustodyType ==
    ASSUME TypeOK, Custody
    PROVE  TypeOK'
<1>1. balance \in Claims /\ fees \in Nat
  BY TypeParts
<1>2. /\ wallet \in [Traders -> [Assets -> Nat]] /\ migrated \in [Traders -> [Assets -> Nat]]
      /\ vault \in [Assets -> Nat] /\ asset_vault \in [Assets -> Nat]
  BY DEF TypeOK
<1>3. ASSUME NEW t \in Traders, InitializeTraderBalance(t)
      PROVE  TypeOK'
  <2>1. balance' \in Claims
    BY <1>1, <1>3 DEF InitializeTraderBalance, Claims
  <2>2. ledgers' \subseteq Traders
    BY <1>3 DEF InitializeTraderBalance, TypeOK
  <2> QED
    BY <1>3, <2>1, <2>2 DEF InitializeTraderBalance, TypeOK, books, Claims
<1>4. ASSUME NEW t \in Traders, NEW a \in Assets, NEW amount \in TransferAmounts
      PROVE  /\ Deposit(t, a, amount) => TypeOK'
             /\ Withdraw(t, a, amount) => TypeOK'
             /\ MigrateSpotAsset(t, a, amount) => TypeOK'
  <2>1. /\ amount \in Nat /\ -amount \in Int
        /\ balance[t][a].free \in Nat /\ balance[t][a].locked \in Nat
        /\ wallet[t][a] \in Nat /\ vault[a] \in Nat
    <3>1. amount \in Nat
      OBVIOUS
    <3>2. balance[t][a].free \in Nat /\ balance[t][a].locked \in Nat
      BY <1>1, ClaimParts
    <3> QED
      BY <1>2, <3>1, <3>2
  <2>2. ASSUME Deposit(t, a, amount) PROVE TypeOK'
    <3>1. balance[t][a].free + amount >= 0 /\ balance[t][a].locked + 0 >= 0
      BY <2>1
    <3>2. balance' \in Claims
      BY <1>1, <2>1, <2>2, <3>1, ChangeType DEF Deposit
    <3>3. wallet' \in [Traders -> [Assets -> Nat]] /\ vault' \in [Assets -> Nat]
      BY <1>2, <2>1, <2>2 DEF Deposit
    <3> QED
      BY <2>2, <3>2, <3>3 DEF Deposit, TypeOK, books, Claims
  <2>3. ASSUME Withdraw(t, a, amount) PROVE TypeOK'
    <3>1. balance[t][a].free + (-amount) >= 0 /\ balance[t][a].locked + 0 >= 0
      BY <2>1, <2>3 DEF Withdraw
    <3>2. balance' \in Claims
      BY <1>1, <2>1, <2>3, <3>1, ChangeType DEF Withdraw
    <3>3. wallet' \in [Traders -> [Assets -> Nat]] /\ vault' \in [Assets -> Nat]
      BY <1>2, <2>1, <2>3 DEF Withdraw
    <3> QED
      BY <2>3, <3>2, <3>3 DEF Withdraw, TypeOK, books, Claims
  <2>4. ASSUME MigrateSpotAsset(t, a, amount) PROVE TypeOK'
    <3>1. balance[t][a].free + (-amount) >= 0 /\ balance[t][a].locked + 0 >= 0
      BY <2>1, <2>4 DEF MigrateSpotAsset
    <3>2. balance' \in Claims
      BY <1>1, <2>1, <2>4, <3>1, ChangeType DEF MigrateSpotAsset
    <3>3. /\ migrated' \in [Traders -> [Assets -> Nat]] /\ vault' \in [Assets -> Nat]
          /\ asset_vault' \in [Assets -> Nat]
      BY <1>2, <2>1, <2>4 DEF MigrateSpotAsset
    <3> QED
      BY <2>4, <3>2, <3>3 DEF MigrateSpotAsset, TypeOK, books, Claims
  <2> QED
    BY <2>2, <2>3, <2>4
<1>5. ASSUME NEW amount \in 1 .. fees, WithdrawProtocolFees(amount)
      PROVE  TypeOK'
  <2>1. fees' \in Nat /\ vault' \in [Assets -> Nat]
    BY <1>1, <1>2, <1>5 DEF WithdrawProtocolFees, Assets
  <2> QED
    BY <1>5, <2>1 DEF WithdrawProtocolFees, TypeOK, books
<1> QED
  BY <1>3, <1>4, <1>5 DEF Custody

\* The market account comes, stops, resumes and goes.
LEMMA AdministrationType ==
    ASSUME TypeOK, Administration
    PROVE  TypeOK'
<1>1. market \in MarketRecord
  BY DEF TypeOK
<1>2. CASE InitializeMarket
  <2>1. NewMarket \in MarketRecord
    BY DEF NewMarket, MarketRecord, LevelHints
  <2> QED
    BY <1>2, <2>1 DEF InitializeMarket, TypeOK
<1>3. CASE PauseMarket
  <2>1. market' \in MarketRecord
    BY <1>1, <1>3 DEF PauseMarket, MarketRecord
  <2> QED
    BY <1>3, <2>1 DEF PauseMarket, TypeOK, cash
<1>4. CASE UnpauseMarket
  <2>1. market' \in MarketRecord
    BY <1>1, <1>4 DEF UnpauseMarket, MarketRecord
  <2> QED
    BY <1>4, <2>1 DEF UnpauseMarket, TypeOK, cash
<1>5. CASE CloseMarket
  <2>1. market' \in MarketRecord
    BY <1>1, <1>5 DEF CloseMarket, MarketRecord
  <2> QED
    BY <1>5, <2>1 DEF CloseMarket, TypeOK, cash
<1> QED
  BY <1>2, <1>3, <1>4, <1>5 DEF Administration

-----------------------------------------------------------------------------
(* The types *)

\* Nothing exists at first.
LEMMA InitType == Init => TypeOK
<1> SUFFICES ASSUME Init PROVE TypeOK
  OBVIOUS
<1>1. market \in MarketRecord
  <2>1. NewMarket \in MarketRecord
    BY DEF NewMarket, MarketRecord, LevelHints
  <2>2. [NewMarket EXCEPT !.live = FALSE] \in MarketRecord
    BY <2>1 DEF MarketRecord
  <2> QED
    BY <2>2 DEF Init
<1>2. AbsentOrder \in OrderRecord /\ AbsentLevel \in LevelRecord
  BY DEF AbsentOrder, AbsentLevel, OrderRecord, LevelRecord, OrderHints, LevelHints, Sides
<1> QED
  BY <1>1, <1>2 DEF Init, TypeOK

\* Every instruction keeps the types.
LEMMA NextType == TypeOK /\ [Next]_vars => TypeOK'
<1> SUFFICES ASSUME TypeOK, [Next]_vars PROVE TypeOK'
  OBVIOUS
<1>1. CASE PlaceOrder
  BY <1>1, AppendType, InsertType DEF PlaceOrder
<1>2. CASE CancelOrder
  BY <1>2, CancelType DEF CancelOrder
<1>3. CASE MatchOrder
  BY <1>3, MatchType DEF MatchOrder
<1>4. CASE UNCHANGED vars
  BY <1>4 DEF vars, TypeOK
<1> QED
  BY <1>1, <1>2, <1>3, <1>4, CustodyType, AdministrationType DEF Next

\* No instruction of the legacy market lets a balance, a counter, the fees or a
\* vault go below zero, or an account take another shape.
THEOREM TypeCorrect == Spec => []TypeOK
<1> QED
  BY InitType, NextType, PTL DEF Spec

-----------------------------------------------------------------------------
(* History *)

\* Unlinking an open order leaves the orders that ended as they are, provided
\* its links lead to open orders.
LEMMA UnlinkKeepsHistory ==
    ASSUME TypeOK, NEW i \in Ids, Linked(i), NEW final,
           NEW j \in Ids, order[j].status \in {"Filled", "Canceled"}
    PROVE  OrdersWithout(i, final)[j] = order[j]
<1> DEFINE o == order[i]
<1>1. order[j] \in OrderRecord
  BY DEF TypeOK
<1>2. j # i /\ j # 0
  <2>1. j # 0
    BY DEF Ids
  <2> QED
    BY <2>1 DEF Linked
<1>3. o.previous_order # j /\ o.next_order # j
  BY <1>2 DEF Linked, OpenAt
<1>4. [order[j] EXCEPT !.next_order = order[j].next_order,
                       !.previous_order = order[j].previous_order] = order[j]
  BY <1>1 DEF OrderRecord
<1> QED
  BY <1>2, <1>3, <1>4 DEF OrdersWithout

\* Every instruction leaves the orders that ended as they are.
LEMMA NextKeepsHistory ==
    ASSUME TypeOK, [Next]_vars, NEW j \in Ids, order[j].status \in {"Filled", "Canceled"}
    PROVE  order'[j] = order[j]
<1>1. ASSUME NEW t \in Traders, NEW s \in Sides, NEW p \in Prices, NEW q \in Quantities,
             NEW previous, Placing(t, s, p, q, previous), j # previous
      PROVE  order'[j] = order[j]
  <2>1. j # market.next_order_id
    BY <1>1 DEF Placing, NewAccount
  <2> QED
    BY <1>1, <2>1 DEF Placing
<1>2. CASE PlaceOrder
  <2> PICK t \in Traders, s \in Sides, p \in Prices, q \in Quantities :
             \/ AppendLimitOrder(t, s, p, q)
             \/ \E better, worse \in LevelHints :
                    InsertLimitOrder(t, s, p, q, better, worse)
    BY <1>2 DEF PlaceOrder
  <2>1. CASE AppendLimitOrder(t, s, p, q)
    <3>1. j # level[s][p].last_order
      BY <2>1 DEF AppendLimitOrder, OpenAt
    <3> QED
      BY <1>1, <2>1, <3>1 DEF AppendLimitOrder
  <2>2. CASE \E better, worse \in LevelHints : InsertLimitOrder(t, s, p, q, better, worse)
    <3>1. j # 0
      BY DEF Ids
    <3>2. Placing(t, s, p, q, 0)
      BY <2>2 DEF InsertLimitOrder
    <3> QED
      BY <1>1, <3>1, <3>2
  <2> QED
    BY <2>1, <2>2
<1>3. CASE CancelOrder
  BY <1>3, UnlinkKeepsHistory DEF CancelOrder, CancelLimitOrder
<1>4. CASE MatchOrder
  <2> PICK i \in Ids, t \in Traders, s \in Sides, limit \in Prices, q \in Quantities,
           bps \in FeeRates : MatchLimitOrder(t, s, limit, q, bps, i)
    BY <1>4 DEF MatchOrder
  <2>1. i # j
    BY DEF MatchLimitOrder, FifoMaker
  <2>2. CASE Linked(i) /\ order' = OrdersWithout(i, Ended(order[i], "Filled"))
    BY <2>2, UnlinkKeepsHistory
  <2>3. CASE \E r, k : order' = [order EXCEPT ![i].remaining_quantity = r,
                                             ![i].locked_collateral = k]
    BY <2>1, <2>3 DEF TypeOK
  <2> QED
    BY <2>2, <2>3 DEF MatchLimitOrder
<1>5. CASE Custody
  BY <1>5 DEF Custody, InitializeTraderBalance, Deposit, Withdraw, MigrateSpotAsset,
              WithdrawProtocolFees, books
<1>6. CASE Administration
  BY <1>6 DEF Administration, InitializeMarket, PauseMarket, UnpauseMarket, CloseMarket
<1>7. CASE UNCHANGED vars
  BY <1>7 DEF vars
<1> QED
  BY <1>2, <1>3, <1>4, <1>5, <1>6, <1>7 DEF Next

\* A filled or canceled order account is never written again, not even by the
\* order of a market created again under the same mints whose id it has.
THEOREM HistoryStays == Spec => HistoryNeverOverwritten
<1>1. TypeOK /\ [Next]_vars =>
          [\A i \in Ids : order[i].status \in {"Filled", "Canceled"} => order'[i] = order[i]]_vars
  BY NextKeepsHistory
<1> QED
  BY <1>1, TypeCorrect, PTL DEF Spec, HistoryNeverOverwritten

-----------------------------------------------------------------------------
(* The links of the book *)

SideOf == [s \in Sides |-> s]

\* The accounts of the book: its orders, its levels and its best prices.
BookIndex == IndexOf("side", order, level, market.best)

\* Each side is linked as its prices rank, every queue as its ids.
LinksInv == IndexIs(Sides, SideOf, BookIndex)

\* An open order rests at a price of the book under an id already given away,
\* its owner has a ledger, and something is left to trade.
OrdersResting ==
    \A i \in OpenOrders : /\ i < market.next_order_id
                          /\ order[i].price \in Prices /\ order[i].owner \in ledgers
                          /\ order[i].remaining_quantity > 0

\* The market counts the open orders, and there are none without it.
OrdersCounted ==
    /\ market.open_order_count = Cardinality(OpenOrders)
    /\ ~market.live => OpenOrders = {}

\* Whatever they say, they are accounts of the right form.
LEMMA BookAccounts ==
    ASSUME TypeOK
    PROVE  Accounts(Sides, SideOf, "side", order, level, market.best)
<1>1. /\ order \in [Ids -> OrderRecord] /\ level \in [Sides -> [Prices -> LevelRecord]]
      /\ market \in MarketRecord
  BY DEF TypeOK
<1>2. OrderAccounts("side", order)
  <2>1. Ids \subseteq Nat \ {0}
    BY DEF Ids
  <2>2. \A o \in OrderRecord : OrderFields \cup {"side"} \subseteq DOMAIN o
    BY DEF OrderRecord, OrderFields
  <2> QED
    BY <1>1, <2>1, <2>2 DEF OrderAccounts
<1>3. ASSUME NEW s \in Sides
      PROVE  /\ SideOf[s] \in Sides
             /\ LevelAccounts(level[s]) /\ DOMAIN level[s] \subseteq Nat \ {0}
  <2>1. \A lv \in LevelRecord : LevelFields \subseteq DOMAIN lv
    BY DEF LevelRecord, LevelFields
  <2>2. level[s] \in [Prices -> LevelRecord]
    BY <1>1
  <2>3. LevelAccounts(level[s]) /\ DOMAIN level[s] = Prices
    BY <2>1, <2>2 DEF LevelAccounts
  <2> QED
    BY <2>3 DEF SideOf
<1>4. DOMAIN market.best = Sides
  BY <1>1 DEF MarketRecord
<1> QED
  BY <1>1, <1>2, <1>3, <1>4 DEF Accounts

\* ... and a book they form.
LEMMA BookLinked ==
    ASSUME TypeOK, LinksInv
    PROVE  BookIs(Sides, SideOf, "side", order, level, market.best)
  BY BookAccounts DEF BookIs, LinksInv, BookIndex

\* Two neighbours the instruction accepts are neighbours of the new level.
LEMMA InsertableFits ==
    ASSUME TypeOK, NEW s \in Sides, NEW p \in Prices, NEW better, NEW worse,
           Insertable(s, p, better, worse)
    PROVE  FitsLevel(PricesIn(level[s]), s, level[s], market.best[s], p, better, worse)
<1>1. DOMAIN level[s] = Prices
  BY DEF TypeOK
<1> QED
  BY <1>1 DEF Insertable, LevelExists, FitsLevel, PricesIn

\* The new order, and the account in front of it.
LEMMA PlacingFits ==
    ASSUME TypeOK, OrdersResting, market.next_order_id \in Ids,
           NEW t \in Traders, NEW s \in Sides, NEW p \in Prices, NEW q \in Quantities,
           NEW previous, Placing(t, s, p, q, previous)
    PROVE  \E new : /\ order' = Placed(order, market.next_order_id, new, previous)
                    /\ FitsQueue("side", order, s, p, market.next_order_id, new, previous, q)
<1> DEFINE id  == market.next_order_id
           new == [owner |-> t, side |-> s, price |-> p,
                   previous_order |-> previous, next_order |-> None,
                   quantity |-> q, remaining_quantity |-> q,
                   locked_collateral |-> Collateral(Scale, s, p, q), status |-> "Open"]
<1>1. DOMAIN order = Ids
  BY DEF TypeOK
<1>2. order' = Placed(order, id, new, previous)
  BY <1>1 DEF Placing, Placed
<1>3. \A i \in Ids : order[i].status = "Open" => i < id
  BY DEF OrdersResting, OpenOrders
<1>4. /\ new.status = "Open" /\ new["side"] = s /\ new.price = p
      /\ new.previous_order = previous /\ new.next_order = 0
      /\ new.remaining_quantity = q /\ q \in Nat
  OBVIOUS
<1>5. order[id].status # "Open"
  BY DEF Placing, NewAccount
<1>6. FitsQueue("side", order, s, p, id, new, previous, q)
  <2> HIDE DEF new
  <2> QED
    BY <1>1, <1>3, <1>4, <1>5 DEF FitsQueue
<1> QED
  BY <1>2, <1>6

\* A new order behind the last one of its level.
LEMMA AppendLinks ==
    ASSUME TypeOK, LinksInv, OrdersResting, market.next_order_id \in Ids,
           NEW t \in Traders, NEW s \in Sides, NEW p \in Prices, NEW q \in Quantities,
           AppendLimitOrder(t, s, p, q)
    PROVE  LinksInv'
<1> DEFINE levels  == level[s]
           lv      == levels[p]
           best    == market.best
           id      == market.next_order_id
           lv2     == [lv EXCEPT !.last_order = id,
                                 !.total_remaining_quantity = @ + q,
                                 !.order_count = @ + 1]
           levels2 == [levels EXCEPT ![p] = lv2]
<1>1. BookIs(Sides, SideOf, "side", order, level, best)
  BY BookLinked
<1>2. /\ market \in MarketRecord
      /\ DOMAIN levels = Prices /\ level \in [Sides -> [Prices -> LevelRecord]]
      /\ lv \in LevelRecord
  BY DEF TypeOK
<1>3. best \in [Sides -> LevelHints]
  BY <1>2 DEF MarketRecord
<1>4. /\ Placing(t, s, p, q, lv.last_order) /\ lv.order_count > 0
      /\ level' = [level EXCEPT ![s] = levels2]
      /\ market' = [market EXCEPT !.next_order_id = @ + 1, !.open_order_count = @ + 1]
  BY <1>2 DEF AppendLimitOrder, LevelExists
<1>5. /\ Gains(lv, lv2, id, q) /\ lv.order_count # 0
      /\ lv2.better_price = lv.better_price /\ lv2.worse_price = lv.worse_price
  <2>1. lv.last_order # 0
    BY DEF AppendLimitOrder, OpenAt, Ids
  <2> QED
    BY <1>2, <1>4, <2>1 DEF Gains, LevelRecord
<1>6. market'.best = [best EXCEPT ![s] = best[s]]
  BY <1>2, <1>3, <1>4 DEF MarketRecord
<1>7. PICK new : /\ order' = Placed(order, id, new, lv.last_order)
                 /\ FitsQueue("side", order, s, p, id, new, lv.last_order, q)
  BY <1>4, PlacingFits
<1>8. p \in DOMAIN level[s]
  BY <1>2
<1> HIDE DEF lv2, id, best
<1>9. IndexIs(Sides, SideOf,
              IndexOf("side", Placed(order, id, new, lv.last_order),
                      [level EXCEPT ![s] = [level[s] EXCEPT ![p] = lv2]],
                      [best EXCEPT ![s] = best[s]]))
  BY <1>1, <1>5, <1>7, <1>8, OrderAppended
<1> QED
  BY <1>4, <1>6, <1>7, <1>9 DEF LinksInv, BookIndex

\* A new order at a new level.
LEMMA InsertLinks ==
    ASSUME TypeOK, LinksInv, OrdersResting, market.next_order_id \in Ids,
           NEW t \in Traders, NEW s \in Sides, NEW p \in Prices, NEW q \in Quantities,
           NEW better \in LevelHints, NEW worse \in LevelHints,
           InsertLimitOrder(t, s, p, q, better, worse)
    PROVE  LinksInv'
<1> DEFINE levels  == level[s]
           lv      == levels[p]
           best    == market.best
           id      == market.next_order_id
           lv2     == [better_price |-> better, worse_price |-> worse,
                       first_order |-> id, last_order |-> id,
                       total_remaining_quantity |-> q, order_count |-> 1]
           levels2 == Inserted(levels, p, lv2, better, worse)
           best2   == IF better = 0 THEN p ELSE best[s]
<1>1. BookIs(Sides, SideOf, "side", order, level, best)
  BY BookLinked
<1>2. /\ market \in MarketRecord
      /\ DOMAIN levels = Prices /\ level \in [Sides -> [Prices -> LevelRecord]]
      /\ lv \in LevelRecord
  BY DEF TypeOK
<1>3. best \in [Sides -> LevelHints]
  BY <1>2 DEF MarketRecord
<1>4. lv.order_count = 0
  <2>1. lv.order_count \in Nat
    BY <1>2 DEF LevelRecord
  <2>2. ~LevelExists(s, p)
    BY DEF InsertLimitOrder
  <2> QED
    BY <2>1, <2>2 DEF LevelExists
<1>5. /\ Placing(t, s, p, q, 0) /\ Insertable(s, p, better, worse)
      /\ market' = [market EXCEPT !.next_order_id = @ + 1, !.open_order_count = @ + 1,
                                  !.best[s] = IF better = 0 THEN p ELSE @]
  BY DEF InsertLimitOrder
<1>6. level' = [level EXCEPT ![s] = levels2]
  BY <1>2 DEF InsertLimitOrder, Inserted
<1>7. LevelOf(lv2, id, q, better, worse)
  BY DEF LevelOf
<1>8. market'.best = [best EXCEPT ![s] = best2]
  BY <1>2, <1>3, <1>5 DEF MarketRecord
<1>9. PICK new : /\ order' = Placed(order, id, new, 0)
                 /\ FitsQueue("side", order, s, p, id, new, 0, q)
  BY <1>5, PlacingFits
<1>10. /\ p \in DOMAIN level[s] /\ level[s][p].order_count = 0
       /\ FitsLevel(PricesIn(level[s]), SideOf[s], level[s], best[s], p, better, worse)
  BY <1>2, <1>4, <1>5, InsertableFits DEF SideOf
<1> HIDE DEF lv2, id, best
<1>11. IndexIs(Sides, SideOf,
               IndexOf("side", Placed(order, id, new, 0),
                       [level EXCEPT ![s] = Inserted(level[s], p, lv2, better, worse)],
                       [best EXCEPT ![s] = IF better = 0 THEN p ELSE best[s]]))
  BY ONLY <1>1, s \in Sides, <1>7, <1>9, <1>10, LevelInserted
<1> QED
  BY <1>6, <1>8, <1>9, <1>11 DEF LinksInv, BookIndex

\* What leaves is open and rests at a level of the book.
LEMMA UnlinkLinks ==
    ASSUME TypeOK, LinksInv, NEW i \in Ids, Linked(i),
           NEW status \in {"Filled", "Canceled"},
           order' = OrdersWithout(i, Ended(order[i], status)),
           level' = [level EXCEPT ![order[i].side] = LevelsWithout(i)],
           market' = MarketWithout(i)
    PROVE  LinksInv'
<1> DEFINE o      == order[i]
           s      == o.side
           p      == o.price
           levels == level[s]
           best   == market.best
           final  == Ended(o, status)
<1>1. LinksType
  BY TypeParts
<1>2. /\ o \in OrderRecord /\ o.status = "Open" /\ s \in Sides /\ p \in Prices
  BY <1>1, LinkedParts
<1>3. DOMAIN order = Ids /\ DOMAIN levels = Prices
  BY <1>2 DEF TypeOK
<1>4. final.status # "Open" /\ Absent(AbsentLevel)
  BY <1>2, EndedType DEF Absent, AbsentLevel
<1>5. order' = Unlinked(order, i, final)
  BY <1>3 DEF OrdersWithout, Unlinked
<1>6. level' = [level EXCEPT ![s] = Without(levels, p, o, AbsentLevel)]
  BY <1>3 DEF LevelsWithout, Without, OnlyOrderOfLevel
<1>7. market'.best = [best EXCEPT ![s] = IF /\ level[s][p].order_count = 1
                                            /\ level[s][p].better_price = 0
                                         THEN level[s][p].worse_price ELSE best[s]]
  BY <1>1, MarketWithoutType DEF OnlyOrderOfLevel
<1>8. BookIs(Sides, SideOf, "side", order, level, best)
  BY BookLinked
<1>9. /\ i \in DOMAIN order /\ order[i].status = "Open" /\ s \in Sides
      /\ s = order[i]["side"] /\ p \in DOMAIN level[s] /\ p = order[i].price
  BY <1>2, <1>3
<1> HIDE DEF final, s, p, best
<1>10. IndexIs(Sides, SideOf,
               IndexOf("side", Unlinked(order, i, final),
                       [level EXCEPT ![s] = Without(level[s], p, order[i], AbsentLevel)],
                       [best EXCEPT ![s] = IF /\ level[s][p].order_count = 1
                                              /\ level[s][p].better_price = 0
                                           THEN level[s][p].worse_price ELSE best[s]]))
  BY ONLY <1>4, <1>8, <1>9, OrderTaken
<1> QED
  BY <1>5, <1>6, <1>7, <1>10 DEF LinksInv, BookIndex

\* A fill leaves the order or takes it out of the book.
MakerLeaves(i) ==
    /\ Linked(i)
    /\ order' = OrdersWithout(i, Ended(order[i], "Filled"))
    /\ level' = [level EXCEPT ![order[i].side] = LevelsWithout(i)]
    /\ market' = MarketWithout(i)

MakerShrinks(i, left, lv2) ==
    /\ order' = [order EXCEPT ![i] = left]
    /\ level' = [level EXCEPT ![order[i].side] =
                    [level[order[i].side] EXCEPT ![order[i].price] = lv2]]
    /\ market' = market

LEMMA MatchBook ==
    ASSUME TypeOK, NEW t \in Traders, NEW s \in Sides, NEW limit \in Prices,
           NEW q \in Quantities, NEW bps \in FeeRates, NEW i \in Ids,
           MatchLimitOrder(t, s, limit, q, bps, i)
    PROVE  LET o    == order[i]
               lv   == level[o.side][o.price]
               plan == Settlement(Scale, o.side, o.price, q,
                                  o.remaining_quantity, o.locked_collateral)
           IN  \/ /\ plan.base = o.remaining_quantity
                  /\ MakerLeaves(i)
               \/ /\ plan.base < o.remaining_quantity
                  /\ MakerShrinks(i,
                        [o EXCEPT !.remaining_quantity = o.remaining_quantity - plan.base,
                                  !.locked_collateral = o.locked_collateral - plan.debit],
                        [lv EXCEPT !.total_remaining_quantity =
                                       lv.total_remaining_quantity - plan.base])
<1> DEFINE o    == order[i]
           lv   == level[o.side][o.price]
           plan == Settlement(Scale, o.side, o.price, q,
                              o.remaining_quantity, o.locked_collateral)
           B    == plan.base
           D    == plan.debit
           left == [o EXCEPT !.remaining_quantity = o.remaining_quantity - B,
                             !.locked_collateral = o.locked_collateral - D]
           lv2  == [lv EXCEPT !.total_remaining_quantity = lv.total_remaining_quantity - B]
<1>1. /\ o \in OrderRecord /\ o.side \in Sides /\ o.price \in Prices
      /\ o.remaining_quantity \in Nat /\ B \in Nat /\ B <= o.remaining_quantity
      /\ plan.fully_filled <=> B = o.remaining_quantity
  BY MatchParts
<1>2. order \in [Ids -> OrderRecord] /\ level \in [Sides -> [Prices -> LevelRecord]]
  BY DEF TypeOK
<1>3. \/ plan.fully_filled /\ MakerLeaves(i)
      \/ /\ ~plan.fully_filled
         /\ order' = [order EXCEPT
                ![i].remaining_quantity = o.remaining_quantity - B,
                ![i].locked_collateral  = o.locked_collateral - D]
         /\ level' = [level EXCEPT
                ![o.side][o.price].total_remaining_quantity = lv.total_remaining_quantity - B]
         /\ market' = market
  BY DEF MatchLimitOrder, MakerLeaves
<1>4. CASE plan.fully_filled /\ MakerLeaves(i)
  BY <1>1, <1>4
<1>5. CASE /\ ~plan.fully_filled
           /\ order' = [order EXCEPT
                  ![i].remaining_quantity = o.remaining_quantity - B,
                  ![i].locked_collateral  = o.locked_collateral - D]
           /\ level' = [level EXCEPT
                  ![o.side][o.price].total_remaining_quantity = lv.total_remaining_quantity - B]
           /\ market' = market
  <2>1. order' = [order EXCEPT ![i] = left]
    BY <1>2, <1>5
  <2>2. level' = [level EXCEPT ![o.side] = [level[o.side] EXCEPT ![o.price] = lv2]]
    BY <1>5
  <2> HIDE DEF plan, B, D
  <2>3. B < o.remaining_quantity
    <3>1. B # o.remaining_quantity
      BY <1>1, <1>5, Zenon
    <3> QED
      BY <1>1, <3>1
  <2>4. MakerShrinks(i, left, lv2)
    BY <1>5, <2>1, <2>2 DEF MakerShrinks
  <2> HIDE DEF left, lv2
  <2>5. B < o.remaining_quantity /\ MakerShrinks(i, left, lv2)
    BY <2>3, <2>4
  <2> QED
    BY <2>5 DEF B, D, plan, left, lv2
<1> QED
  BY <1>3, <1>4, <1>5

LEMMA MatchLinks ==
    ASSUME TypeOK, LinksInv, NEW t \in Traders, NEW s \in Sides, NEW limit \in Prices,
           NEW q \in Quantities, NEW bps \in FeeRates, NEW i \in Ids,
           MatchLimitOrder(t, s, limit, q, bps, i)
    PROVE  LinksInv'
<1> DEFINE o    == order[i]
           r    == o.side
           p    == o.price
           lv   == level[r][p]
           best == market.best
           plan == Settlement(Scale, o.side, o.price, q,
                              o.remaining_quantity, o.locked_collateral)
           d    == plan.base
           lock == o.locked_collateral - plan.debit
           left == [o EXCEPT !.remaining_quantity = o.remaining_quantity - d,
                             !.locked_collateral = lock]
           lv2  == [lv EXCEPT !.total_remaining_quantity = lv.total_remaining_quantity - d]
<1>1. /\ o \in OrderRecord /\ o.status = "Open" /\ r \in Sides /\ p \in Prices
      /\ level[r] \in Levels /\ lv \in LevelRecord
      /\ o.remaining_quantity \in Nat /\ d \in Nat
  BY MatchParts
<1>2. /\ DOMAIN order = Ids /\ order \in [Ids -> OrderRecord] /\ market \in MarketRecord
  BY DEF TypeOK
<1>3. \/ MakerLeaves(i)
      \/ d < o.remaining_quantity /\ MakerShrinks(i, left, lv2)
  BY MatchBook
<1>4. CASE MakerLeaves(i)
  BY <1>4, UnlinkLinks DEF MakerLeaves
<1>5. CASE d < o.remaining_quantity /\ MakerShrinks(i, left, lv2)
  <2> HIDE DEF lock, d, plan
  <2>1. /\ order' = [order EXCEPT ![i] = left] /\ market' = market
        /\ level' = [level EXCEPT ![r] = [level[r] EXCEPT ![p] = lv2]]
    BY <1>5 DEF MakerShrinks
  <2>2. market'.best = [best EXCEPT ![r] = best[r]]
    BY <1>1, <1>2, <2>1 DEF MarketRecord
  <2>3. /\ left.status = "Open" /\ left.side = o.side /\ left.price = o.price
        /\ left.next_order = o.next_order /\ left.previous_order = o.previous_order
        /\ left.remaining_quantity = o.remaining_quantity - d
    BY <1>1 DEF OrderRecord
  <2>4. /\ lv2.first_order = lv.first_order /\ lv2.last_order = lv.last_order
        /\ lv2.order_count = lv.order_count
        /\ lv2.total_remaining_quantity = lv.total_remaining_quantity - d
        /\ lv2.better_price = lv.better_price /\ lv2.worse_price = lv.worse_price
    BY <1>1 DEF LevelRecord
  <2>5. d \in Int /\ o.remaining_quantity - d \in Nat
    BY <1>1, <1>5
  <2> HIDE DEF left, lv2
  <2>6. Fills("side", order[i], left, level[r][p], lv2, d)
    BY <2>3, <2>4, <2>5 DEF Fills
  <2>7. /\ i \in DOMAIN order /\ order[i].status = "Open" /\ r \in Sides
        /\ r = order[i]["side"] /\ p \in DOMAIN level[r] /\ p = order[i].price
        /\ lv2.better_price = level[r][p].better_price
        /\ lv2.worse_price = level[r][p].worse_price
    BY <1>1, <1>2, <2>4 DEF Levels
  <2>8. BookIs(Sides, SideOf, "side", order, level, best)
    BY BookLinked
  <2> HIDE DEF r, p, best
  <2>9. IndexIs(Sides, SideOf,
                IndexOf("side", [order EXCEPT ![i] = left],
                        [level EXCEPT ![r] = [level[r] EXCEPT ![p] = lv2]],
                        [best EXCEPT ![r] = best[r]]))
    BY ONLY <2>6, <2>7, <2>8, OrderReduced
  <2> QED
    BY <2>1, <2>2, <2>9 DEF LinksInv, BookIndex
<1> QED
  BY <1>3, <1>4, <1>5

\* No other step touches an order or a level, and the market keeps its book.
BookUntouched ==
    /\ order' = order /\ level' = level
    /\ market'.best = market.best
    /\ market'.next_order_id = market.next_order_id
    /\ market'.open_order_count = market.open_order_count

\* ... unless it is new.
LEMMA OtherSteps ==
    ASSUME TypeOK, [Next]_vars
    PROVE  \/ PlaceOrder \/ CancelOrder \/ MatchOrder \/ InitializeMarket
           \/ /\ BookUntouched /\ ledgers \subseteq ledgers'
              /\ market'.live = market.live \/ market.open_order_count = 0
<1>1. market \in MarketRecord
  BY DEF TypeOK
<1>2. CASE Custody
  BY <1>2 DEF Custody, InitializeTraderBalance, Deposit, Withdraw, MigrateSpotAsset,
              WithdrawProtocolFees, books, BookUntouched
<1>3. CASE PauseMarket \/ UnpauseMarket \/ CloseMarket
  <2>1. /\ order' = order /\ level' = level /\ ledgers' = ledgers
        /\ market'.live = market.live \/ market.open_order_count = 0
    BY <1>1, <1>3 DEF PauseMarket, UnpauseMarket, CloseMarket, cash, MarketRecord
  <2>2. /\ market'.best = market.best /\ market'.next_order_id = market.next_order_id
        /\ market'.open_order_count = market.open_order_count
    BY <1>1, <1>3 DEF PauseMarket, UnpauseMarket, CloseMarket, MarketRecord
  <2> QED
    BY <2>1, <2>2 DEF BookUntouched
<1>4. CASE UNCHANGED vars
  BY <1>4 DEF vars, BookUntouched
<1> QED
  BY <1>2, <1>3, <1>4 DEF Next, Administration

\* Before the first step there is nothing to link.
LEMMA InitLinks == Init => LinksInv
<1> SUFFICES ASSUME Init PROVE IndexIs(Sides, SideOf, BookIndex)
  BY DEF LinksInv
<1> DEFINE x == BookIndex
<1>1. /\ x.open = {} /\ x.level = [s \in Sides |-> [p \in Prices |-> AbsentLevel]]
      /\ x.best = [s \in Sides |-> 0]
  BY DEF Init, AbsentOrder, NewMarket, BookIndex, IndexOf
<1>2. /\ AbsentLevel.first_order = 0 /\ AbsentLevel.last_order = 0
      /\ AbsentLevel.order_count = 0 /\ AbsentLevel.total_remaining_quantity = 0
  BY DEF AbsentLevel
<1> HIDE DEF x
<1>3. \A s \in Sides :
          /\ x.best[s] = 0
          /\ \A p \in DOMAIN x.level[s] :
                 /\ x.level[s][p].first_order = 0 /\ x.level[s][p].last_order = 0
                 /\ x.level[s][p].order_count = 0
                 /\ x.level[s][p].total_remaining_quantity = 0
  <2> SUFFICES ASSUME NEW s \in Sides
               PROVE  /\ x.best[s] = 0
                      /\ \A p \in DOMAIN x.level[s] :
                             /\ x.level[s][p].first_order = 0 /\ x.level[s][p].last_order = 0
                             /\ x.level[s][p].order_count = 0
                             /\ x.level[s][p].total_remaining_quantity = 0
    OBVIOUS
  <2>1. x.best[s] = 0 /\ x.level[s] = [p \in Prices |-> AbsentLevel]
    BY <1>1
  <2> QED
    BY <1>2, <2>1
<1>4. IndexIs(Sides, SideOf, x)
  BY ONLY <1>1, <1>3, IndexEmpty
<1> QED
  BY <1>4 DEF x

\* A market created again finds no level of the one before it.
LEMMA NewMarketLinks ==
    ASSUME TypeOK, LinksInv, OrdersCounted, InitializeMarket
    PROVE  LinksInv'
<1> DEFINE x == BookIndex
           y == IndexOf("side", order, level, NewMarket.best)
<1>1. order' = order /\ level' = level /\ market' = NewMarket /\ OpenOrders = {}
  BY DEF InitializeMarket, OrdersCounted
<1>2. x.open = {}
  BY <1>1 DEF BookIndex, IndexOf, OpenOrders, TypeOK
<1>3. IndexIs(Sides, SideOf, x) /\ x.level = level
  BY DEF LinksInv, BookIndex, IndexOf
<1>4. y.open = x.open /\ y.level = level /\ y.best = [s \in Sides |-> 0]
  BY DEF BookIndex, IndexOf, NewMarket
<1> HIDE DEF x
<1>5. \A s \in Sides :
          \A p \in DOMAIN level[s] :
              /\ level[s][p].first_order = 0 /\ level[s][p].last_order = 0
              /\ level[s][p].order_count = 0
              /\ level[s][p].total_remaining_quantity = 0
  BY <1>2, <1>3, IndexOfNone
<1> HIDE DEF y
<1>6. IndexIs(Sides, SideOf, y)
  <2>1. \A s \in Sides :
            /\ y.best[s] = 0
            /\ \A p \in DOMAIN y.level[s] :
                   /\ y.level[s][p].first_order = 0 /\ y.level[s][p].last_order = 0
                   /\ y.level[s][p].order_count = 0
                   /\ y.level[s][p].total_remaining_quantity = 0
    BY <1>4, <1>5
  <2>2. y.open = {}
    BY <1>2, <1>4
  <2> QED
    BY ONLY <2>1, <2>2, IndexEmpty
<1>7. BookIndex' = y
  BY <1>1 DEF BookIndex, y
<1> QED
  BY <1>6, <1>7 DEF LinksInv

\* Every step keeps the links.
LEMMA NextLinks ==
    ASSUME TypeOK, LinksInv, OrdersResting, OrdersCounted, [Next]_vars
    PROVE  LinksInv'
<1>1. CASE PlaceOrder
  BY <1>1, AppendLinks, InsertLinks DEF PlaceOrder
<1>2. CASE CancelOrder
  BY <1>2, UnlinkLinks DEF CancelOrder, CancelLimitOrder
<1>3. CASE MatchOrder
  BY <1>3, MatchLinks DEF MatchOrder
<1>4. CASE BookUntouched
  BY <1>4 DEF BookUntouched, LinksInv, BookIndex
<1> QED
  BY <1>1, <1>2, <1>3, <1>4, NewMarketLinks, OtherSteps

-----------------------------------------------------------------------------
(* The open orders *)

\* An open order rests at a price, for a trader with a ledger.
Rests(i) == /\ order[i].price \in Prices /\ order[i].owner \in ledgers
            /\ order[i].remaining_quantity > 0

\* What a step does to the open orders and to what counts them: a new one, one
\* less, or the same, and what was open before rests where it did.
OpenStep ==
    LET open == OpenOrders
    IN  /\ \/ /\ OpenOrders' = open \cup {market.next_order_id}
              /\ market.next_order_id \notin open
              /\ market'.open_order_count = market.open_order_count + 1
              /\ market'.next_order_id = market.next_order_id + 1
              /\ market'.live
           \/ /\ \E i \in open : OpenOrders' = open \ {i}
              /\ market'.open_order_count = market.open_order_count - 1
              /\ market'.next_order_id = market.next_order_id
              /\ market'.live
           \/ /\ OpenOrders' = open
              /\ market'.open_order_count = market.open_order_count
              /\ market'.next_order_id = market.next_order_id
              /\ market'.live = market.live \/ market.open_order_count = 0
        /\ \A i \in OpenOrders' : Rests(i)'

\* The open orders are finitely many.
LEMMA OpenFinite == IsFiniteSet(OpenOrders) /\ OpenOrders \subseteq Ids
<1>1. IsFiniteSet(Ids)
  BY FS_Interval DEF Ids
<1> QED
  BY <1>1, FS_Subset DEF OpenOrders

\* The count follows, and so do the ids.
LEMMA CountedStep ==
    ASSUME TypeOK, OrdersResting, OrdersCounted, OpenStep
    PROVE  OrdersCounted' /\ OrdersResting'
<1> DEFINE open == OpenOrders
           id   == market.next_order_id
           n    == market.open_order_count
<1>1. IsFiniteSet(open)
  BY OpenFinite
<1>2. n = Cardinality(open) /\ id \in Nat /\ \A i \in open : i \in Nat /\ i < id
  <2>1. open \subseteq Nat
    BY OpenFinite DEF Ids
  <2>2. id \in Nat
    BY DEF TypeOK, MarketRecord
  <2> QED
    BY <2>1, <2>2 DEF OrdersCounted, OrdersResting
<1>3. Cardinality(open) \in Nat /\ (Cardinality(open) = 0 <=> open = {})
  BY <1>1, FS_CardinalityType, FS_EmptySet
<1>4. ~market.live => open = {}
  BY DEF OrdersCounted
<1> HIDE DEF open, id, n
<1>5. /\ market'.open_order_count = Cardinality(OpenOrders')
      /\ ~market'.live => OpenOrders' = {}
      /\ \A i \in OpenOrders' : i < market'.next_order_id
  <2>1. CASE /\ OpenOrders' = open \cup {id} /\ id \notin open
             /\ market'.open_order_count = n + 1
             /\ market'.next_order_id = id + 1 /\ market'.live
    <3>1. Cardinality(open \cup {id}) = Cardinality(open) + 1
      BY <1>1, <2>1, FS_AddElement
    <3> QED
      BY <1>2, <2>1, <3>1
  <2>2. CASE /\ \E i \in open : OpenOrders' = open \ {i}
             /\ market'.open_order_count = n - 1
             /\ market'.next_order_id = id /\ market'.live
    <3>1. PICK i \in open : OpenOrders' = open \ {i}
      BY <2>2
    <3>2. Cardinality(open \ {i}) = Cardinality(open) - 1
      BY <1>1, FS_RemoveElement
    <3> QED
      BY <1>2, <2>2, <3>1, <3>2
  <2>3. CASE /\ OpenOrders' = open
             /\ market'.open_order_count = n
             /\ market'.next_order_id = id
             /\ market'.live = market.live \/ n = 0
    BY <1>2, <1>3, <1>4, <2>3
  <2> QED
    BY <2>1, <2>2, <2>3 DEF OpenStep, open, id, n
<1>6. \A i \in OpenOrders' : Rests(i)'
  BY DEF OpenStep
<1> QED
  BY <1>5, <1>6 DEF OrdersCounted, OrdersResting, Rests

\* A placement opens the next id.
LEMMA OpenPlacing ==
    ASSUME TypeOK, OrdersResting, market.next_order_id \in Ids,
           NEW t \in Traders, NEW s \in Sides, NEW p \in Prices, NEW q \in Quantities,
           NEW previous, Placing(t, s, p, q, previous),
           market'.next_order_id = market.next_order_id + 1,
           market'.open_order_count = market.open_order_count + 1,
           market'.live = market.live
    PROVE  OpenStep
<1> DEFINE id  == market.next_order_id
           new == [owner |-> t, side |-> s, price |-> p,
                   previous_order |-> previous, next_order |-> None,
                   quantity |-> q, remaining_quantity |-> q,
                   locked_collateral |-> Collateral(Scale, s, p, q), status |-> "Open"]
<1>1. /\ order' = [j \in Ids |-> IF j = id THEN new
                                 ELSE IF j = previous THEN [order[j] EXCEPT !.next_order = id]
                                 ELSE order[j]]
      /\ ledgers' = ledgers /\ t \in ledgers /\ market.live
      /\ order[id].status = "Absent"
  BY DEF Placing, Active, NewAccount
<1>2. order \in [Ids -> OrderRecord]
  BY DEF TypeOK
<1>3. /\ order'[id].status = "Open" /\ order'[id].price \in Prices
      /\ order'[id].owner \in ledgers' /\ order'[id].remaining_quantity > 0
  <2>1. q > 0
    OBVIOUS
  <2> QED
    BY <1>1, <2>1
<1>4. ASSUME NEW j \in Ids \ {id}
      PROVE  /\ order'[j].status = order[j].status
             /\ order'[j].price = order[j].price /\ order'[j].owner = order[j].owner
             /\ order'[j].remaining_quantity = order[j].remaining_quantity
  <2>1. order[j] \in OrderRecord
    BY <1>2
  <2>2. order'[j] = IF j = previous THEN [order[j] EXCEPT !.next_order = id] ELSE order[j]
    BY <1>1
  <2> QED
    BY <2>1, <2>2 DEF OrderRecord
<1>5. id \notin OpenOrders
  BY <1>1 DEF OpenOrders
<1>6. OpenOrders' = OpenOrders \cup {id}
  BY <1>3, <1>4 DEF OpenOrders
<1>7. ASSUME NEW i \in OpenOrders' PROVE Rests(i)'
  <2>1. CASE i = id
    BY <1>3, <2>1 DEF Rests
  <2>2. CASE i # id
    <3>1. i \in OpenOrders /\ i \in Ids \ {id}
      BY <1>6, <1>7, <2>2 DEF OpenOrders
    <3> QED
      BY <1>1, <1>4, <3>1 DEF Rests, OrdersResting
  <2> QED
    BY <2>1, <2>2
<1> QED
  BY <1>1, <1>5, <1>6, <1>7 DEF OpenStep

\* Whatever leaves is closed, and no other order is.
LEMMA OpenUnlink ==
    ASSUME TypeOK, OrdersResting, ledgers' = ledgers, market.live, NEW i \in Ids, Linked(i),
           NEW status \in {"Filled", "Canceled"},
           order' = OrdersWithout(i, Ended(order[i], status)), market' = MarketWithout(i)
    PROVE  OpenStep
<1>1. order \in [Ids -> OrderRecord] /\ order[i].status = "Open"
  BY DEF TypeOK, Linked
<1>2. order'[i].status # "Open"
  <2>1. order'[i] = Ended(order[i], status)
    BY DEF OrdersWithout
  <2> QED
    BY <1>1, <2>1, EndedType
<1>3. ASSUME NEW j \in Ids \ {i}
      PROVE  /\ order'[j].status = order[j].status
             /\ order'[j].price = order[j].price /\ order'[j].owner = order[j].owner
             /\ order'[j].remaining_quantity = order[j].remaining_quantity
  <2>1. order[j] \in OrderRecord
    BY <1>1
  <2>2. \E next, previous :
            order'[j] = [order[j] EXCEPT !.next_order = next, !.previous_order = previous]
    BY DEF OrdersWithout
  <2> QED
    BY <2>1, <2>2 DEF OrderRecord
<1>4. i \in OpenOrders /\ OpenOrders' = OpenOrders \ {i}
  BY <1>1, <1>2, <1>3 DEF OpenOrders
<1>5. ASSUME NEW j \in OpenOrders' PROVE Rests(j)'
  <2>1. j \in OpenOrders /\ j \in Ids \ {i}
    BY <1>4, <1>5 DEF OpenOrders
  <2> QED
    BY <1>3, <2>1 DEF Rests, OrdersResting
<1>6. /\ market'.open_order_count = market.open_order_count - 1
      /\ market'.next_order_id = market.next_order_id /\ market'.live = market.live
  BY TypeParts, MarketWithoutType
<1> QED
  BY <1>4, <1>5, <1>6 DEF OpenStep

\* A fill closes the maker or leaves it with less.
LEMMA OpenMatch ==
    ASSUME TypeOK, OrdersResting, NEW t \in Traders, NEW s \in Sides, NEW limit \in Prices,
           NEW q \in Quantities, NEW bps \in FeeRates, NEW i \in Ids,
           MatchLimitOrder(t, s, limit, q, bps, i)
    PROVE  OpenStep
<1> DEFINE o == order[i]
<1>1. /\ o \in OrderRecord /\ o.status = "Open" /\ ledgers' = ledgers /\ market.live
      /\ order \in [Ids -> OrderRecord]
  BY DEF MatchLimitOrder, FifoMaker, Active, TypeOK
<1>2. \/ MakerLeaves(i)
      \/ \E r, k, lv2 :
             r > 0 /\ MakerShrinks(i, [o EXCEPT !.remaining_quantity = r,
                                                !.locked_collateral = k], lv2)
  <2> DEFINE plan == Settlement(Scale, o.side, o.price, q,
                                o.remaining_quantity, o.locked_collateral)
             r    == o.remaining_quantity - plan.base
             k    == o.locked_collateral - plan.debit
             lv   == level[o.side][o.price]
             lv2  == [lv EXCEPT !.total_remaining_quantity =
                                    lv.total_remaining_quantity - plan.base]
  <2>1. \/ MakerLeaves(i)
        \/ /\ plan.base < o.remaining_quantity
           /\ MakerShrinks(i, [o EXCEPT !.remaining_quantity = r, !.locked_collateral = k], lv2)
    BY MatchBook
  <2>2. plan.base \in Nat /\ o.remaining_quantity \in Nat
    BY MatchParts
  <2> HIDE DEF plan, k, lv2
  <2>3. plan.base < o.remaining_quantity => r > 0
    BY <2>2
  <2> HIDE DEF r
  <2> QED
    BY <2>1, <2>3
<1>3. CASE MakerLeaves(i)
  BY <1>1, <1>3, OpenUnlink DEF MakerLeaves
<1>4. ASSUME NEW r, NEW k, NEW lv2, r > 0,
             MakerShrinks(i, [o EXCEPT !.remaining_quantity = r, !.locked_collateral = k], lv2)
      PROVE  OpenStep
  <2>1. market' = market
    BY <1>4 DEF MakerShrinks
  <2>2. ASSUME NEW j \in Ids
        PROVE  /\ order'[j].status = order[j].status
               /\ order'[j].price = order[j].price /\ order'[j].owner = order[j].owner
               /\ \/ order'[j].remaining_quantity = order[j].remaining_quantity
                  \/ order'[j].remaining_quantity = r
    <3>1. order'[j] = IF j = i THEN [o EXCEPT !.remaining_quantity = r, !.locked_collateral = k]
                               ELSE order[j]
      BY <1>1, <1>4 DEF MakerShrinks
    <3> QED
      BY <1>1, <3>1 DEF OrderRecord
  <2>3. OpenOrders' = OpenOrders
    BY <2>2 DEF OpenOrders
  <2>4. ASSUME NEW j \in OpenOrders' PROVE Rests(j)'
    <3>1. j \in OpenOrders /\ j \in Ids
      BY <2>3, <2>4 DEF OpenOrders
    <3> QED
      BY <1>1, <1>4, <2>2, <3>1 DEF Rests, OrdersResting
  <2> QED
    BY <2>1, <2>3, <2>4 DEF OpenStep
<1> QED
  BY <1>2, <1>3, <1>4

\* Every step keeps count.
LEMMA NextOpen ==
    ASSUME TypeOK, OrdersResting, OrdersCounted, [Next]_vars
    PROVE  OrdersCounted' /\ OrdersResting'
<1>1. market \in MarketRecord
  BY DEF TypeOK
<1>2. CASE PlaceOrder
  <2>1. PICK t \in Traders, s \in Sides, p \in Prices, q \in Quantities :
                 \/ AppendLimitOrder(t, s, p, q)
                 \/ \E better, worse \in LevelHints :
                        InsertLimitOrder(t, s, p, q, better, worse)
    BY <1>2 DEF PlaceOrder
  <2>2. \E previous : Placing(t, s, p, q, previous)
    BY <2>1 DEF AppendLimitOrder, InsertLimitOrder
  <2>3. /\ market'.next_order_id = market.next_order_id + 1
        /\ market'.open_order_count = market.open_order_count + 1
        /\ market'.live = market.live
    BY <1>1, <2>1 DEF AppendLimitOrder, InsertLimitOrder, MarketRecord
  <2>4. OpenStep
    BY <1>2, <2>2, <2>3, OpenPlacing DEF PlaceOrder
  <2> QED
    BY <2>4, CountedStep
<1>3. CASE CancelOrder
  <2>1. OpenStep
    BY <1>3, OpenUnlink DEF CancelOrder, CancelLimitOrder
  <2> QED
    BY <2>1, CountedStep
<1>4. CASE MatchOrder
  <2>1. OpenStep
    BY <1>4, OpenMatch DEF MatchOrder
  <2> QED
    BY <2>1, CountedStep
<1>5. CASE InitializeMarket
  <2>1. OpenOrders' = {} /\ market'.open_order_count = 0
    BY <1>5 DEF InitializeMarket, OrdersCounted, OpenOrders, NewMarket
  <2> QED
    BY <2>1, FS_EmptySet DEF OrdersCounted, OrdersResting
<1>6. CASE /\ BookUntouched /\ ledgers \subseteq ledgers'
           /\ market'.live = market.live \/ market.open_order_count = 0
  <2>1. OpenOrders' = OpenOrders
    BY <1>6 DEF BookUntouched, OpenOrders
  <2>2. \A i \in OpenOrders : Rests(i)'
    BY <1>6 DEF BookUntouched, OrdersResting, Rests
  <2>3. OpenStep
    BY <1>6, <2>1, <2>2 DEF OpenStep, BookUntouched
  <2> QED
    BY <2>3, CountedStep
<1> QED
  BY <1>2, <1>3, <1>4, <1>5, <1>6, OtherSteps

\* The book in every state of every run: linked, counted and resting.
BookInv == LinksInv /\ OrdersResting /\ OrdersCounted

LEMMA BookHolds == Spec => []BookInv
<1>1. Init => BookInv
  <2>1. Init => OpenOrders = {}
    BY DEF Init, OpenOrders, AbsentOrder
  <2>2. Init => market.open_order_count = 0
    BY DEF Init, NewMarket
  <2>3. Init => OrdersResting /\ OrdersCounted
    BY <2>1, <2>2, FS_EmptySet DEF OrdersResting, OrdersCounted
  <2> QED
    BY <2>3, InitLinks DEF BookInv
<1>2. TypeOK /\ BookInv /\ [Next]_vars => BookInv'
  BY NextLinks, NextOpen DEF BookInv
<1> QED
  BY <1>1, <1>2, TypeCorrect, PTL DEF Spec

-----------------------------------------------------------------------------
(* What the index says *)

\* The open orders of a level are those that say so.
OrdersAt(s, p) == {i \in Ids : OpenAt(i, s, p)}

\* What the invariant says of a side and of a level of it.
LEMMA BookLists ==
    ASSUME TypeOK, LinksInv, OrdersResting, NEW s \in Sides
    PROVE  /\ DOMAIN level[s] = Prices
           /\ ListIs(PricesIn(level[s]), s, level[s], market.best[s])
           /\ \A p \in Prices : /\ QueueIs(OrdersAt(s, p), order, level[s][p])
                                /\ \A i \in OrdersAt(s, p) : order[i].remaining_quantity > 0
<1>1. SideOf[s] = s /\ DOMAIN level[s] = Prices /\ DOMAIN order = Ids
  BY DEF TypeOK, SideOf
<1> DEFINE x == BookIndex
<1>2. /\ x.open = OpenOrders /\ x.orders = order
      /\ x.level = level /\ x.best = market.best
      /\ \A i \in Ids : x.place[i] = <<order[i].side, order[i].price>>
  BY <1>1 DEF BookIndex, IndexOf, OpenOrders
<1>3. IndexIs(Sides, SideOf, x)
  BY DEF LinksInv
<1> HIDE DEF x
<1>4. \A p \in Prices : IdsAt(x, s, p) = OrdersAt(s, p)
  BY <1>2 DEF IdsAt, OpenOrders, OrdersAt, OpenAt
<1>5. /\ ListIs(PricesIn(x.level[s]), SideOf[s], x.level[s], x.best[s])
      /\ \A p \in DOMAIN x.level[s] : QueueIs(IdsAt(x, s, p), x.orders, x.level[s][p])
  BY <1>3 DEF IndexIs
<1>6. \A p \in Prices : QueueIs(OrdersAt(s, p), order, level[s][p])
  BY <1>1, <1>2, <1>4, <1>5
<1>7. ListIs(PricesIn(level[s]), s, level[s], market.best[s])
  BY <1>1, <1>2, <1>5
<1>8. \A p \in Prices : \A i \in OrdersAt(s, p) : order[i].remaining_quantity > 0
  BY DEF OrdersAt, OpenAt, OrdersResting, OpenOrders
<1> QED
  BY <1>1, <1>6, <1>7, <1>8

\* The sides and their queues (append, insert, cancel and match): following
\* worse_price from the best price meets the levels that exist from best to worst,
\* following next_order from the first order of a level its open orders from
\* oldest to newest, both linked the other way too; the counts and totals are
\* theirs, whatever neighbours a client names and however often the market is
\* closed and created again.
THEOREM IndexStays == Spec => []IndexMatchesOrders
<1>1. ASSUME TypeOK, LinksInv, OrdersResting, NEW s \in Sides
      PROVE  LET list   == PriceList(s)
                 length == Cardinality({p \in Prices : LevelExists(s, p)})
             IN  /\ list[length + 1] = None
                 /\ \A n \in 1 .. length :
                        /\ list[n] # None
                        /\ LevelExists(s, list[n])
                        /\ level[s][list[n]].better_price = IF n = 1 THEN None ELSE list[n-1]
                        /\ n > 1 => BetterPrice(s, list[n-1], list[n])
  <2> DEFINE levels == level[s]
             P      == PricesIn(levels)
             list   == PriceList(s)
             length == Cardinality(P)
             best   == market.best[s]
             m      == Cardinality(Prices) + 1
             walk   == Walk(best, [p \in Prices |-> levels[p].worse_price], m)
  <2>1. P = {p \in Prices : LevelExists(s, p)} /\ list = walk
    BY <1>1, BookLists DEF PricesIn, PriceList, LevelExists
  <2>2. ListIs(P, s, levels, best)
    BY <1>1, BookLists
  <2>3. IsFiniteSet(Prices) /\ P \subseteq Prices
    BY <1>1, <2>1
  <2>4. \A p \in P : LevelExists(s, p)
    BY <2>1
  <2> HIDE DEF levels, best, P, list
  <2>5. ListMet(P, s, levels, walk)
    BY <2>2, <2>3, ListWalk
  <2> HIDE DEF walk
  <2> QED
    BY <2>1, <2>4, <2>5 DEF ListMet, levels, None, list
<1>2. ASSUME TypeOK, LinksInv, OrdersResting, NEW s \in Sides, NEW p \in Prices
      PROVE  LET ids == {i \in Ids : OpenAt(i, s, p)}
                 q   == Queue(s, p)
                 n   == level[s][p].order_count
             IN  /\ n = Cardinality(ids)
                 /\ {q[k] : k \in 1 .. n} = ids
                 /\ \A k \in 1 .. n :
                        /\ order[q[k]].previous_order = IF k = 1 THEN None ELSE q[k-1]
                        /\ k > 1 => q[k-1] < q[k]
                 /\ n > 0 => /\ level[s][p].last_order = q[n]
                             /\ order[q[n]].next_order = None
                 /\ level[s][p].total_remaining_quantity =
                        SumFunctionOnSet([i \in Ids |-> order[i].remaining_quantity], ids)
  <2> DEFINE lv   == level[s][p]
             S    == OrdersAt(s, p)
             q    == Queue(s, p)
             n    == lv.order_count
             walk == Walk(lv.first_order, [i \in Ids |-> order[i].next_order], n)
             f    == [i \in S |-> order[i].remaining_quantity]
             g    == [i \in Ids |-> order[i].remaining_quantity]
  <2>1. S = {i \in Ids : OpenAt(i, s, p)} /\ q = walk
    BY DEF Queue, OrdersAt
  <2>2. QueueIs(S, order, lv) /\ S \subseteq Ids
    BY <1>2, BookLists DEF OrdersAt
  <2>3. SumFunctionOnSet(g, S) = SumFunctionOnSet(f, S)
    <3>1. IsFiniteSet(S) /\ \A i \in S : f[i] \in Int /\ g[i] = f[i]
      BY <2>2 DEF QueueIs
    <3> HIDE DEF f, g, S
    <3> QED
      BY ONLY <3>1, SumSame
  <2>4. lv.total_remaining_quantity = SumFunctionOnSet(f, S)
    BY <2>2 DEF QueueIs
  <2> HIDE DEF lv, S, q, f
  <2>5. QueueMet(S, order, lv, walk)
    BY ONLY <2>2, QueueWalk
  <2> HIDE DEF walk, g, n
  <2>6. /\ n = Cardinality(S)
        /\ {q[k] : k \in 1 .. n} = S
        /\ \A k \in 1 .. n :
               /\ order[q[k]].previous_order = IF k = 1 THEN None ELSE q[k-1]
               /\ k > 1 => q[k-1] < q[k]
        /\ n > 0 => lv.last_order = q[n] /\ order[q[n]].next_order = 0
        /\ lv.total_remaining_quantity = SumFunctionOnSet(g, S)
    BY <2>1, <2>3, <2>4, <2>5 DEF QueueMet, None, n
  <2> QED
    BY <2>1, <2>6 DEF lv, n, g, q
<1>3. TypeOK /\ BookInv => IndexMatchesOrders
  BY <1>1, <1>2 DEF IndexMatchesOrders, BookInv, OrdersCounted
<1> QED
  BY <1>3, BookHolds, TypeCorrect, PTL

-----------------------------------------------------------------------------
(* Where the money is *)

Balances == BalancesOf(Traders, Assets)

LEMMA ClaimsAreBalances == Claims \subseteq Balances
BY DEF Claims, Balances, BalancesOf

LEMMA HeldType ==
    ASSUME NEW c \in Balances, NEW x \in Assets
    PROVE  Held(c, x) \in Int
<1>1. HeldOf(Traders, c, x) \in Int
  BY BalanceSum DEF Balances
<1> QED
  BY <1>1 DEF Held, HeldOf

\* One change of one balance.
LEMMA ChangeMoves ==
    ASSUME NEW c \in Balances, NEW t \in Traders, NEW a \in Assets,
           NEW f \in Int, NEW k \in Int
    PROVE  /\ Change(c, t, a, f, k) \in Balances
           /\ \A x \in Assets : Held(Change(c, t, a, f, k), x) = Held(c, x) + At(x, a, f + k)
           /\ \A u \in Traders, x \in Assets :
                  Change(c, t, a, f, k)[u][x].locked = c[u][x].locked + AtBalance(u, x, t, a, k)
           /\ \A u \in Traders \ {t} : Change(c, t, a, f, k)[u] = c[u]
<1> DEFINE n == Changed(c, t, a, f, k)
<1>1. /\ n \in Balances
      /\ \A x \in Assets : HeldOf(Traders, n, x) = HeldOf(Traders, c, x) + At(x, a, f + k)
      /\ \A u \in Traders, x \in Assets :
             n[u][x].locked = c[u][x].locked + AtBalance(u, x, t, a, k)
  <2>1. IsFiniteSet(Traders) /\ c \in BalancesOf(Traders, Assets)
    BY DEF Balances
  <2> QED
    BY ONLY <2>1, t \in Traders, a \in Assets, f \in Int, k \in Int, BalanceChanged DEF Balances
<1>2. n = Change(c, t, a, f, k)
  BY DEF Changed, Change
<1>3. \A u \in Traders \ {t} : n[u] = c[u]
  BY DEF Changed, Balances, BalancesOf
<1> HIDE DEF n
<1> QED
  BY <1>1, <1>2, <1>3 DEF Held, HeldOf

\* A lock moves an asset from free to locked, or back.
LEMMA LockMoves ==
    ASSUME NEW c \in Balances, NEW t \in Traders, NEW a \in Assets,
           NEW f \in Int, NEW k \in Int, f + k = 0
    PROVE  \A x \in Assets : Held(Change(c, t, a, f, k), x) = Held(c, x)
<1>1. \A x \in Assets : Held(Change(c, t, a, f, k), x) = Held(c, x) + At(x, a, f + k)
  BY ChangeMoves
<1>2. \A x \in Assets : Held(c, x) \in Int /\ At(x, a, f + k) = 0
  BY HeldType DEF At
<1> QED
  BY <1>1, <1>2

\* n is c after a and then b of t changed: what is held of them by f + k and
\* g + m, and the locks by k and m.
MovedTwice(n, c, t, a, f, k, b, g, m) ==
    /\ n \in Balances
    /\ \A x \in Assets : Held(n, x) = Held(c, x) + At(x, a, f + k) + At(x, b, g + m)
    /\ \A u \in Traders, x \in Assets :
           n[u][x].locked =
               c[u][x].locked + AtBalance(u, x, t, a, k) + AtBalance(u, x, t, b, m)
    /\ \A u \in Traders \ {t} : n[u] = c[u]

\* Two changes of one trader's balances.
LEMMA TwoMoves ==
    ASSUME NEW c \in Balances, NEW t \in Traders,
           NEW a \in Assets, NEW f \in Int, NEW k \in Int,
           NEW b \in Assets, NEW g \in Int, NEW m \in Int,
           NEW n, n = Change(Change(c, t, a, f, k), t, b, g, m)
    PROVE  MovedTwice(n, c, t, a, f, k, b, g, m)
<1> DEFINE c1 == Change(c, t, a, f, k)
           c2 == Change(c1, t, b, g, m)
<1>1. /\ c1 \in Balances
      /\ \A x \in Assets : Held(c1, x) = Held(c, x) + At(x, a, f + k)
      /\ \A u \in Traders, x \in Assets :
             c1[u][x].locked = c[u][x].locked + AtBalance(u, x, t, a, k)
      /\ \A u \in Traders \ {t} : c1[u] = c[u]
  BY ChangeMoves
<1> HIDE DEF c1
<1>2. /\ c2 \in Balances
      /\ \A x \in Assets : Held(c2, x) = Held(c1, x) + At(x, b, g + m)
      /\ \A u \in Traders, x \in Assets :
             c2[u][x].locked = c1[u][x].locked + AtBalance(u, x, t, b, m)
      /\ \A u \in Traders \ {t} : c2[u] = c1[u]
  BY <1>1, ChangeMoves
<1>3. c2 = n
  BY DEF c1
<1> HIDE DEF c2
<1> QED
  BY <1>1, <1>2, <1>3 DEF MovedTwice

\* The fees are held in quote.
FeesIn(f, a) == IF a = "quote" THEN f ELSE 0

\* What migration credited of an asset.
Credited(m, a) == SumFunction([t \in Traders |-> m[t][a]])

\* What a vault holds beyond the claims on it stays what it was.
VaultsKept ==
    \A a \in Assets :
        /\ vault'[a] - FeesIn(fees', a) - Held(balance', a)
               = vault[a] - FeesIn(fees, a) - Held(balance, a)
        /\ asset_vault'[a] - Credited(migrated', a) = asset_vault[a] - Credited(migrated, a)

\* Order i alone gains or loses a lock, and so does its owner's balance.
LocksMove(i) ==
    /\ \A j \in Ids \ {i}, u \in Traders, x \in Assets :
           LockOf(order'[j], u, x) = LockOf(order[j], u, x)
    /\ \A u \in Traders, x \in Assets :
           balance'[u][x].locked =
               balance[u][x].locked + (LockOf(order'[i], u, x) - LockOf(order[i], u, x))

\* No lock changes.
LocksStand ==
    /\ order' = order
    /\ \A u \in Traders, x \in Assets : balance'[u][x].locked = balance[u][x].locked

\* Nothing changes for a trader without a ledger.
OthersStand == \A u \in Traders \ ledgers' : u \notin ledgers /\ balance'[u] = balance[u]

MoneyStep == /\ VaultsKept
             /\ LocksStand \/ \E i \in Ids : LocksMove(i)
             /\ OthersStand

\* The numbers VaultsKept is about.
LEMMA MoneyNumbers ==
    ASSUME TypeOK
    PROVE  /\ balance \in Balances
           /\ market \in MarketRecord
           /\ fees \in Int
           /\ \A x \in Assets : /\ vault[x] \in Int /\ asset_vault[x] \in Int
                                /\ FeesIn(fees, x) \in Int
                                /\ Held(balance, x) \in Int
                                /\ Credited(migrated, x) \in Int
           /\ \A u \in Traders, x \in Assets : balance[u][x].locked \in Int
<1>1. balance \in Balances
  BY TypeParts, ClaimsAreBalances
<1>2. /\ fees \in Int /\ market \in MarketRecord
      /\ \A x \in Assets : vault[x] \in Int /\ asset_vault[x] \in Int
  BY DEF TypeOK
<1>3. \A x \in Assets : Held(balance, x) \in Int
  BY <1>1, HeldType
<1>4. ASSUME NEW x \in Assets
      PROVE  Credited(migrated, x) \in Int
  <2> DEFINE f == [t \in Traders |-> migrated[t][x]]
  <2>1. f \in [Traders -> Int]
    BY DEF TypeOK
  <2>2. IsFiniteSet(Traders)
    OBVIOUS
  <2> HIDE DEF f
  <2>3. SumFunction(f) \in Int
    BY ONLY <2>1, <2>2, SumFunctionType
  <2> QED
    BY <2>3 DEF Credited, f
<1>5. \A u \in Traders, x \in Assets : balance[u][x].locked \in Int
  BY <1>1 DEF Balances, BalancesOf
<1> QED
  BY <1>1, <1>2, <1>3, <1>4, <1>5 DEF FeesIn

\* An open order's lock is in one balance of its owner's, a closed one has none.
LEMMA LockIs ==
    ASSUME NEW o, NEW u, NEW x
    PROVE  /\ o.status = "Open" =>
                  LockOf(o, u, x) =
                      AtBalance(u, x, o.owner, LockedAsset(o.side), o.locked_collateral)
           /\ o.status # "Open" => LockOf(o, u, x) = 0
BY DEF LockOf, AtBalance

\* A placement takes its lock out of the free balance.
LEMMA PlacingMoney ==
    ASSUME TypeOK, OrdersResting, market.next_order_id \in Ids,
           NEW t \in Traders, NEW s \in Sides, NEW p \in Prices, NEW q \in Quantities,
           NEW previous, Placing(t, s, p, q, previous)
    PROVE  MoneyStep
<1> DEFINE id     == market.next_order_id
           asset  == LockedAsset(s)
           amount == Collateral(Scale, s, p, q)
           new    == [owner |-> t, side |-> s, price |-> p,
                      previous_order |-> previous, next_order |-> None,
                      quantity |-> q, remaining_quantity |-> q,
                      locked_collateral |-> amount, status |-> "Open"]
<1>1. /\ order' = [j \in Ids |-> IF j = id THEN new
                                 ELSE IF j = previous THEN [order[j] EXCEPT !.next_order = id]
                                 ELSE order[j]]
      /\ balance' = Change(balance, t, asset, -amount, amount)
      /\ t \in ledgers /\ ledgers' = ledgers
      /\ fees' = fees /\ vault' = vault /\ migrated' = migrated /\ asset_vault' = asset_vault
  BY DEF Placing
<1>2. asset \in Assets /\ amount \in Nat
  <2>1. p \in Nat /\ q \in Nat
    OBVIOUS
  <2> QED
    BY <2>1, CollateralType
<1>3. new.status = "Open" /\ order'[id] = new /\ order \in [Ids -> OrderRecord]
  BY <1>1 DEF TypeOK
<1>4. \A u \in Traders, x \in Assets : LockOf(new, u, x) = AtBalance(u, x, t, asset, amount)
  BY DEF LockOf, AtBalance
<1>5. order[id].status # "Open"
  <2>1. id \in Ids /\ id \in Nat
    BY DEF Ids
  <2>2. order[id].status = "Open" => id < id
    BY <2>1 DEF OrdersResting, OpenOrders
  <2> HIDE DEF id
  <2> QED
    BY <2>1, <2>2
<1> HIDE DEF asset, amount, new
<1>6. -amount \in Int /\ amount \in Int /\ -amount + amount = 0
  BY <1>2
<1>7. /\ \A x \in Assets : Held(balance', x) = Held(balance, x)
      /\ \A u \in Traders, x \in Assets :
             balance'[u][x].locked = balance[u][x].locked + AtBalance(u, x, t, asset, amount)
      /\ \A u \in Traders \ {t} : balance'[u] = balance[u]
  <2>1. balance \in Balances
    BY MoneyNumbers
  <2>2. \A x \in Assets : Held(Change(balance, t, asset, -amount, amount), x) = Held(balance, x)
    BY ONLY <1>2, <1>6, <2>1, t \in Traders, LockMoves
  <2>3. /\ \A u \in Traders, x \in Assets :
               Change(balance, t, asset, -amount, amount)[u][x].locked =
                   balance[u][x].locked + AtBalance(u, x, t, asset, amount)
        /\ \A u \in Traders \ {t} :
               Change(balance, t, asset, -amount, amount)[u] = balance[u]
    BY ONLY <1>2, <1>6, <2>1, t \in Traders, ChangeMoves
  <2> QED
    BY ONLY <1>1, <2>2, <2>3
<1>8. VaultsKept /\ OthersStand
  BY <1>1, <1>7 DEF VaultsKept, OthersStand
<1>9. LocksMove(id)
  <2>1. ASSUME NEW j \in Ids \ {id}, NEW u \in Traders, NEW x \in Assets
        PROVE  LockOf(order'[j], u, x) = LockOf(order[j], u, x)
    <3>1. order[j] \in OrderRecord
      BY <1>3
    <3>2. order'[j] = IF j = previous THEN [order[j] EXCEPT !.next_order = id] ELSE order[j]
      BY <1>1
    <3>3. /\ order'[j].status = order[j].status /\ order'[j].owner = order[j].owner
          /\ order'[j].side = order[j].side
          /\ order'[j].locked_collateral = order[j].locked_collateral
      BY <3>1, <3>2 DEF OrderRecord
    <3> QED
      BY <3>3 DEF LockOf
  <2>2. ASSUME NEW u \in Traders, NEW x \in Assets
        PROVE  balance'[u][x].locked =
                   balance[u][x].locked + (LockOf(order'[id], u, x) - LockOf(order[id], u, x))
    <3>1. /\ LockOf(order[id], u, x) = 0
          /\ LockOf(order'[id], u, x) = AtBalance(u, x, t, asset, amount)
      BY <1>3, <1>4, <1>5, LockIs
    <3>2. AtBalance(u, x, t, asset, amount) \in Int
      BY <1>6 DEF AtBalance
    <3> QED
      BY <1>7, <3>1, <3>2
  <2> QED
    BY <2>1, <2>2 DEF LocksMove
<1> QED
  BY <1>8, <1>9 DEF MoneyStep

\* What unlinking leaves of the locks.
LEMMA UnlinkLocks ==
    ASSUME TypeOK, NEW i \in Ids, NEW status \in {"Filled", "Canceled"},
           order' = OrdersWithout(i, Ended(order[i], status))
    PROVE  /\ \A j \in Ids \ {i}, u \in Traders, x \in Assets :
                  LockOf(order'[j], u, x) = LockOf(order[j], u, x)
           /\ \A u \in Traders, x \in Assets : LockOf(order'[i], u, x) = 0
<1>1. order \in [Ids -> OrderRecord]
  BY DEF TypeOK
<1>2. order'[i].status # "Open"
  <2>1. order'[i] = Ended(order[i], status) /\ order[i] \in OrderRecord
    BY <1>1 DEF OrdersWithout
  <2> QED
    BY <2>1 DEF Ended, OrderRecord
<1>3. ASSUME NEW j \in Ids \ {i}, NEW u \in Traders, NEW x \in Assets
      PROVE  LockOf(order'[j], u, x) = LockOf(order[j], u, x)
  <2>1. order[j] \in OrderRecord
    BY <1>1
  <2>2. \E next, previous :
            order'[j] = [order[j] EXCEPT !.next_order = next, !.previous_order = previous]
    BY DEF OrdersWithout
  <2>3. /\ order'[j].status = order[j].status /\ order'[j].owner = order[j].owner
        /\ order'[j].side = order[j].side
        /\ order'[j].locked_collateral = order[j].locked_collateral
    BY <2>1, <2>2 DEF OrderRecord
  <2> QED
    BY <2>3 DEF LockOf
<1> QED
  BY <1>2, <1>3, LockIs

\* A cancellation gives the lock back.
LEMMA CancelMoney ==
    ASSUME TypeOK, NEW t \in Traders, NEW i \in Ids, CancelLimitOrder(t, i)
    PROVE  MoneyStep
<1> DEFINE o      == order[i]
           asset  == LockedAsset(o.side)
           amount == o.locked_collateral
<1>1. asset \in Assets /\ amount \in Nat
  <2>1. o \in OrderRecord
    BY DEF TypeOK
  <2> QED
    BY <2>1 DEF OrderRecord, LockedAsset, Assets
<1>2. /\ o.owner = t /\ o.status = "Open"
      /\ order' = OrdersWithout(i, Ended(o, "Canceled"))
      /\ balance' = Change(balance, t, asset, amount, -amount)
      /\ t \in ledgers /\ ledgers' = ledgers
      /\ fees' = fees /\ vault' = vault /\ migrated' = migrated /\ asset_vault' = asset_vault
  BY DEF CancelLimitOrder, Linked, Refund
<1>3. \A u \in Traders, x \in Assets : LockOf(o, u, x) = AtBalance(u, x, t, asset, amount)
  BY <1>2, LockIs
<1> HIDE DEF asset, amount
<1>4. -amount \in Int /\ amount \in Int /\ amount + (-amount) = 0
  BY <1>1
<1>5. /\ \A x \in Assets : Held(balance', x) = Held(balance, x)
      /\ \A u \in Traders, x \in Assets :
             balance'[u][x].locked = balance[u][x].locked + AtBalance(u, x, t, asset, -amount)
      /\ \A u \in Traders \ {t} : balance'[u] = balance[u]
  <2>1. balance \in Balances
    BY MoneyNumbers
  <2>2. \A x \in Assets : Held(Change(balance, t, asset, amount, -amount), x) = Held(balance, x)
    BY ONLY <1>1, <1>4, <2>1, t \in Traders, LockMoves
  <2>3. /\ \A u \in Traders, x \in Assets :
               Change(balance, t, asset, amount, -amount)[u][x].locked =
                   balance[u][x].locked + AtBalance(u, x, t, asset, -amount)
        /\ \A u \in Traders \ {t} :
               Change(balance, t, asset, amount, -amount)[u] = balance[u]
    BY ONLY <1>1, <1>4, <2>1, t \in Traders, ChangeMoves
  <2> QED
    BY ONLY <1>2, <2>2, <2>3
<1>6. /\ \A j \in Ids \ {i}, u \in Traders, x \in Assets :
             LockOf(order'[j], u, x) = LockOf(order[j], u, x)
      /\ \A u \in Traders, x \in Assets : LockOf(order'[i], u, x) = 0
  BY <1>2, UnlinkLocks
<1>7. VaultsKept /\ OthersStand
  BY <1>2, <1>5 DEF VaultsKept, OthersStand
<1>8. ASSUME NEW u \in Traders, NEW x \in Assets
      PROVE  balance'[u][x].locked =
                 balance[u][x].locked + (LockOf(order'[i], u, x) - LockOf(o, u, x))
  <2>1. AtBalance(u, x, t, asset, -amount) = 0 - AtBalance(u, x, t, asset, amount)
    BY <1>4 DEF AtBalance
  <2> QED
    BY <1>3, <1>5, <1>6, <2>1
<1>9. LocksMove(i)
  BY <1>6, <1>8 DEF LocksMove
<1> QED
  BY <1>7, <1>9 DEF MoneyStep

\* The last fill of an order takes its whole lock.
LEMMA LastFill ==
    ASSUME NEW o, NEW q, NEW s, NEW limit,
           Settles(Scale, s, limit, o.side, o.price, q,
                   o.remaining_quantity, o.locked_collateral),
           o.side \in Sides
    PROVE  LET plan == Settlement(Scale, o.side, o.price, q,
                                  o.remaining_quantity, o.locked_collateral)
           IN  plan.base = o.remaining_quantity => plan.debit = o.locked_collateral
<1> DEFINE plan == Settlement(Scale, o.side, o.price, q,
                              o.remaining_quantity, o.locked_collateral)
<1>1. plan.debit = MakerDebit(o.side, plan.base, plan.quote,
                              plan.base = o.remaining_quantity, o.locked_collateral)
  BY DEF Settlement
<1>2. o.side = "Ask" => o.locked_collateral = o.remaining_quantity
  BY DEF Settles
<1> DEFINE B == plan.base
           D == plan.debit
<1> HIDE DEF plan, B, D
<1>3. o.side = "Ask" => (B = o.remaining_quantity => D = o.locked_collateral)
  BY <1>1, <1>2 DEF MakerDebit, B, D
<1>4. o.side = "Bid" => (B = o.remaining_quantity => D = o.locked_collateral)
  BY <1>1 DEF MakerDebit, B, D
<1> QED
  BY <1>3, <1>4 DEF Sides, plan, B, D

\* A fill takes the fee off what is held of quote, the debit off the maker's lock,
\* and touches nobody else.
FillMoved(t, o, fee, debit) ==
    /\ \A x \in Assets : Held(balance', x) = Held(balance, x) + At(x, "quote", -fee)
    /\ \A u \in Traders, x \in Assets :
           balance'[u][x].locked =
               balance[u][x].locked + AtBalance(u, x, o.owner, LockedAsset(o.side), -debit)
    /\ \A u \in Traders \ {t, o.owner} : balance'[u] = balance[u]

LEMMA FillMoves ==
    ASSUME TypeOK, NEW t \in Traders, NEW s \in Sides, NEW limit \in Prices,
           NEW q \in Quantities, NEW bps \in FeeRates, NEW i \in Ids,
           MatchLimitOrder(t, s, limit, q, bps, i)
    PROVE  LET o    == order[i]
               plan == Settlement(Scale, o.side, o.price, q,
                                  o.remaining_quantity, o.locked_collateral)
           IN  FillMoved(t, o, TakerFee(plan.quote, bps), plan.debit)
<1> DEFINE o    == order[i]
           plan == Settlement(Scale, o.side, o.price, q,
                              o.remaining_quantity, o.locked_collateral)
           fee  == TakerFee(plan.quote, bps)
           m    == o.owner
           B    == plan.base
           Q    == plan.quote
           D    == plan.debit
           R    == plan.refund
           asset == LockedAsset(o.side)
<1>1. /\ m \in Traders /\ m # t
      /\ B \in Int /\ Q \in Int /\ D \in Int /\ R \in Int /\ fee \in Int
      /\ o.side = "Ask" => D = B /\ R = 0
      /\ o.side = "Bid" => D = Q + R
      /\ o.side \in Sides /\ o.side # s
  BY MatchParts
<1>2. balance \in Balances /\ "base" \in Assets /\ "quote" \in Assets
  BY MoneyNumbers DEF Assets
<1>3. /\ \A x \in Assets : Held(balance, x) \in Int
      /\ \A u \in Traders, x \in Assets : balance[u][x].locked \in Int
  BY MoneyNumbers
<1>4. CASE s = "Bid"
  <2>1. /\ balance' = Change(Change(Change(Change(balance, t, "quote", -(Q + fee), 0),
                                           t, "base", B, 0),
                                    m, "base", 0, -D), m, "quote", Q, 0)
    BY <1>4 DEF MatchLimitOrder, SettleBuy
  <2>2. asset = "base" /\ D = B
    BY <1>1, <1>4 DEF Sides, LockedAsset
  <2> DEFINE taken == Change(Change(balance, t, "quote", -(Q + fee), 0), t, "base", B, 0)
             after == Change(Change(taken, m, "base", 0, -D), m, "quote", Q, 0)
  <2>3. balance' = after
    BY <2>1
  <2> HIDE DEF o, plan, fee, m, B, Q, D, R, asset
  <2>4. -(Q + fee) \in Int /\ -D \in Int /\ 0 \in Int
    BY <1>1
  <2>5. MovedTwice(taken, balance, t, "quote", -(Q + fee), 0, "base", B, 0)
    BY ONLY <1>1, <1>2, <2>4, t \in Traders, TwoMoves
  <2> HIDE DEF taken
  <2>6. MovedTwice(after, taken, m, "base", 0, -D, "quote", Q, 0)
    <3>1. taken \in Balances
      BY <2>5 DEF MovedTwice
    <3> QED
      BY ONLY <1>1, <1>2, <2>4, <3>1, TwoMoves
  <2> HIDE DEF after
  <2>7. \A x \in Assets : Held(balance', x) = Held(balance, x) + At(x, "quote", -fee)
    BY <1>1, <1>2, <1>3, <2>2, <2>3, <2>5, <2>6 DEF At, MovedTwice, Assets
  <2>8. \A u \in Traders, x \in Assets :
            balance'[u][x].locked = balance[u][x].locked + AtBalance(u, x, m, asset, -D)
    BY <1>1, <1>3, <2>2, <2>3, <2>5, <2>6 DEF AtBalance, MovedTwice
  <2>9. \A u \in Traders \ {t, m} : balance'[u] = balance[u]
    BY <2>3, <2>5, <2>6 DEF MovedTwice
  <2> QED
    BY <2>7, <2>8, <2>9 DEF FillMoved, fee, m, asset, D, o, plan, Q
<1>5. CASE s # "Bid"
  <2>1. /\ balance' = Change(Change(Change(Change(balance, t, "base", -B, 0),
                                           t, "quote", Q - fee, 0),
                                    m, "quote", R, -D), m, "base", B, 0)
    BY <1>5 DEF MatchLimitOrder, SettleSell
  <2>2. asset = "quote" /\ D = Q + R
    BY <1>1, <1>5 DEF Sides, LockedAsset
  <2> DEFINE taken == Change(Change(balance, t, "base", -B, 0), t, "quote", Q - fee, 0)
             after == Change(Change(taken, m, "quote", R, -D), m, "base", B, 0)
  <2>3. balance' = after
    BY <2>1
  <2> HIDE DEF o, plan, fee, m, B, Q, D, R, asset
  <2>4. Q - fee \in Int /\ -D \in Int /\ -B \in Int /\ 0 \in Int
    BY <1>1
  <2>5. MovedTwice(taken, balance, t, "base", -B, 0, "quote", Q - fee, 0)
    BY ONLY <1>1, <1>2, <2>4, t \in Traders, TwoMoves
  <2> HIDE DEF taken
  <2>6. MovedTwice(after, taken, m, "quote", R, -D, "base", B, 0)
    <3>1. taken \in Balances
      BY <2>5 DEF MovedTwice
    <3> QED
      BY ONLY <1>1, <1>2, <2>4, <3>1, TwoMoves
  <2> HIDE DEF after
  <2>7. \A x \in Assets : Held(balance', x) = Held(balance, x) + At(x, "quote", -fee)
    BY <1>1, <1>2, <1>3, <2>2, <2>3, <2>5, <2>6 DEF At, MovedTwice, Assets
  <2>8. \A u \in Traders, x \in Assets :
            balance'[u][x].locked = balance[u][x].locked + AtBalance(u, x, m, asset, -D)
    BY <1>1, <1>3, <2>2, <2>3, <2>5, <2>6 DEF AtBalance, MovedTwice
  <2>9. \A u \in Traders \ {t, m} : balance'[u] = balance[u]
    BY <2>3, <2>5, <2>6 DEF MovedTwice
  <2> QED
    BY <2>7, <2>8, <2>9 DEF FillMoved, fee, m, asset, D, o, plan, Q
<1> QED
  BY <1>4, <1>5

\* A fill: the fee goes to the fees of the market, the maker's lock shrinks by
\* what it was debited.
LEMMA MatchMoney ==
    ASSUME TypeOK, NEW t \in Traders, NEW s \in Sides, NEW limit \in Prices,
           NEW q \in Quantities, NEW bps \in FeeRates, NEW i \in Ids,
           MatchLimitOrder(t, s, limit, q, bps, i)
    PROVE  MoneyStep
<1> DEFINE o     == order[i]
           lv    == level[o.side][o.price]
           plan  == Settlement(Scale, o.side, o.price, q,
                               o.remaining_quantity, o.locked_collateral)
           fee   == TakerFee(plan.quote, bps)
           asset == LockedAsset(o.side)
           D     == plan.debit
           rest  == o.remaining_quantity - plan.base
           lock  == o.locked_collateral
           left  == [o EXCEPT !.remaining_quantity = rest, !.locked_collateral = lock - D]
           lv2   == [lv EXCEPT !.total_remaining_quantity =
                                   lv.total_remaining_quantity - plan.base]
<1>1. /\ o \in OrderRecord /\ o.side \in Sides /\ o.owner \in Traders /\ o.status = "Open"
      /\ D \in Int /\ lock \in Int /\ fee \in Int
  BY MatchParts
<1>2. /\ fees' = fees + fee /\ {t, o.owner} \subseteq ledgers /\ ledgers' = ledgers
      /\ vault' = vault /\ migrated' = migrated /\ asset_vault' = asset_vault
  BY DEF MatchLimitOrder
<1>3. FillMoved(t, o, fee, D)
  BY FillMoves
<1>4. plan.base = o.remaining_quantity => D = lock
  <2>1. Settles(Scale, s, limit, o.side, o.price, q,
                o.remaining_quantity, o.locked_collateral)
    BY DEF MatchLimitOrder
  <2> QED
    BY <1>1, <2>1, LastFill
<1>5. \/ plan.base = o.remaining_quantity /\ MakerLeaves(i)
      \/ MakerShrinks(i, left, lv2)
  BY MatchBook
<1> HIDE DEF plan, fee, D, rest, lv2
<1>6. /\ \A j \in Ids \ {i}, u \in Traders, x \in Assets :
             LockOf(order'[j], u, x) = LockOf(order[j], u, x)
      /\ \A u \in Traders, x \in Assets :
             LockOf(order'[i], u, x) = AtBalance(u, x, o.owner, asset, lock - D)
  <2>1. CASE plan.base = o.remaining_quantity /\ MakerLeaves(i)
    <3>1. lock - D = 0
      BY <1>1, <1>4, <2>1
    <3>2. order' = OrdersWithout(i, Ended(order[i], "Filled"))
      BY <2>1 DEF MakerLeaves
    <3> QED
      BY <3>1, <3>2, UnlinkLocks DEF AtBalance
  <2>2. CASE MakerShrinks(i, left, lv2)
    <3>1. /\ left.status = "Open" /\ left.owner = o.owner /\ left.side = o.side
          /\ left.locked_collateral = lock - D
      BY <1>1 DEF OrderRecord
    <3>2. order \in [Ids -> OrderRecord] /\ order' = [order EXCEPT ![i] = left]
      BY <2>2 DEF TypeOK, MakerShrinks
    <3> HIDE DEF left
    <3>3. order'[i] = left /\ \A j \in Ids \ {i} : order'[j] = order[j]
      BY <3>2
    <3> QED
      BY <3>1, <3>3, LockIs
  <2> QED
    BY <1>5, <2>1, <2>2
<1>7. \A u \in Traders, x \in Assets : LockOf(o, u, x) = AtBalance(u, x, o.owner, asset, lock)
  BY <1>1, LockIs
<1> HIDE DEF left, lock, asset
<1>8. VaultsKept
  <2>1. \A x \in Assets : FeesIn(fees', x) = FeesIn(fees, x) + At(x, "quote", fee)
    BY <1>1, <1>2, MoneyNumbers DEF FeesIn, At
  <2>2. \A x \in Assets : /\ At(x, "quote", -fee) = 0 - At(x, "quote", fee)
                          /\ At(x, "quote", fee) \in Int
    BY <1>1 DEF At
  <2>3. \A x \in Assets : Held(balance', x) = Held(balance, x) + At(x, "quote", -fee)
    BY <1>3 DEF FillMoved
  <2> QED
    BY <1>2, <2>1, <2>2, <2>3, MoneyNumbers DEF VaultsKept
<1>9. OthersStand
  BY <1>2, <1>3 DEF OthersStand, FillMoved
<1>10. ASSUME NEW u \in Traders, NEW x \in Assets
       PROVE  balance'[u][x].locked =
                  balance[u][x].locked + (LockOf(order'[i], u, x) - LockOf(o, u, x))
  <2>1. AtBalance(u, x, o.owner, asset, -D) =
            AtBalance(u, x, o.owner, asset, lock - D) - AtBalance(u, x, o.owner, asset, lock)
    BY <1>1 DEF AtBalance
  <2>2. balance'[u][x].locked = balance[u][x].locked + AtBalance(u, x, o.owner, asset, -D)
    BY <1>3 DEF FillMoved, asset
  <2> QED
    BY <1>6, <1>7, <2>1, <2>2
<1>11. LocksMove(i)
  BY <1>6, <1>10 DEF LocksMove
<1> QED
  BY <1>8, <1>9, <1>11 DEF MoneyStep

\* Without a market nothing is owed, without a ledger nothing is held.
MoneyAtRest ==
    /\ ~market.live => fees = 0 /\ \A a \in Assets : vault[a] = 0
    /\ \A u \in Traders \ ledgers, a \in Assets :
           balance[u][a].free = 0 /\ balance[u][a].locked = 0

\* One free balance changes with a vault, and what migration credited with the
\* global one.
LEMMA TransferMoney ==
    ASSUME TypeOK, NEW t \in Traders, NEW a \in Assets, NEW d \in Int,
           t \in ledgers, ledgers' = ledgers, order' = order, fees' = fees,
           balance' = Change(balance, t, a, d, 0),
           vault' = [vault EXCEPT ![a] = vault[a] + d],
           \/ migrated' = migrated /\ asset_vault' = asset_vault
           \/ /\ migrated' = [migrated EXCEPT ![t][a] = migrated[t][a] + (-d)]
              /\ asset_vault' = [asset_vault EXCEPT ![a] = asset_vault[a] + (-d)]
    PROVE  MoneyStep
<1>1. /\ balance \in Balances
      /\ \A x \in Assets : vault[x] \in Int /\ asset_vault[x] \in Int
      /\ vault \in [Assets -> Nat] /\ asset_vault \in [Assets -> Nat]
      /\ migrated \in [Traders -> [Assets -> Nat]]
  BY MoneyNumbers DEF TypeOK
<1>2. /\ \A x \in Assets : Held(balance', x) = Held(balance, x) + At(x, a, d + 0)
      /\ \A u \in Traders, x \in Assets :
             balance'[u][x].locked = balance[u][x].locked + AtBalance(u, x, t, a, 0)
      /\ \A u \in Traders \ {t} : balance'[u] = balance[u]
  <2>1. 0 \in Int
    OBVIOUS
  <2> QED
    BY <1>1, <2>1, ChangeMoves
<1>3. LocksStand /\ OthersStand
  BY <1>2, MoneyNumbers DEF LocksStand, OthersStand, AtBalance
<1>4. \A x \in Assets : vault'[x] = vault[x] + At(x, a, d)
  BY <1>1 DEF At
<1>5. ASSUME NEW x \in Assets
      PROVE  asset_vault'[x] - Credited(migrated', x) = asset_vault[x] - Credited(migrated, x)
  <2>1. CASE migrated' = migrated /\ asset_vault' = asset_vault
    BY <2>1
  <2>2. CASE /\ migrated' = [migrated EXCEPT ![t][a] = migrated[t][a] + (-d)]
             /\ asset_vault' = [asset_vault EXCEPT ![a] = asset_vault[a] + (-d)]
    <3> DEFINE f == [u \in Traders |-> migrated[u][x]]
               g == [u \in Traders |-> migrated'[u][x]]
               e == At(x, a, -d)
    <3>1. asset_vault'[x] = asset_vault[x] + e /\ e \in Int
      BY <1>1, <2>2 DEF At
    <3>2. \A u \in Traders : migrated[u][x] \in Int
      BY <1>1
    <3>3. /\ migrated'[t][x] = migrated[t][x] + e
          /\ \A u \in Traders : u # t => migrated'[u][x] = migrated[u][x]
      BY <1>1, <2>2, <3>2 DEF At
    <3>4. f \in [Traders -> Int] /\ g \in [Traders -> Int] /\ IsFiniteSet(Traders)
      BY <3>1, <3>2, <3>3
    <3>5. g[t] = f[t] + e /\ \A u \in Traders : u # t => g[u] = f[u]
      BY <3>3
    <3>6. Credited(migrated, x) = SumFunction(f) /\ Credited(migrated', x) = SumFunction(g)
      BY DEF Credited
    <3> HIDE DEF f, g, e
    <3>7. SumFunction(g) = SumFunction(f) + e
      BY ONLY <3>1, <3>4, <3>5, t \in Traders, SumMoved
    <3> QED
      BY <3>1, <3>6, <3>7, MoneyNumbers
  <2> QED
    BY <2>1, <2>2
<1>6. VaultsKept
  <2>1. \A x \in Assets : At(x, a, d) \in Int /\ At(x, a, d + 0) = At(x, a, d)
    BY DEF At
  <2>2. \A x \in Assets : FeesIn(fees', x) = FeesIn(fees, x)
    OBVIOUS
  <2>3. \A x \in Assets :
            /\ vault[x] \in Int /\ FeesIn(fees, x) \in Int /\ Held(balance, x) \in Int
            /\ Held(balance', x) = Held(balance, x) + At(x, a, d)
    BY <1>2, <2>1, MoneyNumbers
  <2>4. \A x \in Assets :
            vault'[x] - FeesIn(fees', x) - Held(balance', x)
                = vault[x] - FeesIn(fees, x) - Held(balance, x)
    BY ONLY <1>4, <2>1, <2>2, <2>3
  <2> QED
    BY <1>5, <2>4 DEF VaultsKept
<1> QED
  BY <1>3, <1>6 DEF MoneyStep

\* Deposits, withdrawals, migration, fees withdrawn and new ledgers.
LEMMA CustodyMoney ==
    ASSUME TypeOK, MoneyAtRest, Custody
    PROVE  MoneyStep
<1>1. /\ \A amount \in TransferAmounts : amount \in Int
      /\ \A a \in Assets : vault[a] \in Int
  BY MoneyNumbers
<1>2. ASSUME NEW t \in Traders, InitializeTraderBalance(t)
      PROVE  MoneyStep
  <2>1. balance[t] = [a \in Assets |-> [free |-> 0, locked |-> 0]]
    <3>1. balance[t] \in [Assets -> [free : Int, locked : Int]]
      BY MoneyNumbers DEF Balances, BalancesOf
    <3>2. \A a \in Assets : balance[t][a].free = 0 /\ balance[t][a].locked = 0
      BY <1>2 DEF InitializeTraderBalance, MoneyAtRest
    <3>3. \A a \in Assets : balance[t][a] = [free |-> 0, locked |-> 0]
      BY <3>1, <3>2
    <3> QED
      BY <3>1, <3>3
  <2>2. balance' = balance
    <3>1. balance \in [Traders -> [Assets -> [free : Int, locked : Int]]]
      BY MoneyNumbers DEF Balances, BalancesOf
    <3> QED
      BY <1>2, <2>1, <3>1 DEF InitializeTraderBalance
  <2>3. /\ order' = order /\ fees' = fees /\ vault' = vault /\ migrated' = migrated
        /\ asset_vault' = asset_vault /\ ledgers \subseteq ledgers'
    BY <1>2 DEF InitializeTraderBalance, books
  <2> QED
    BY <2>2, <2>3 DEF MoneyStep, VaultsKept, LocksStand, OthersStand
<1>3. ASSUME NEW t \in Traders, NEW a \in Assets, NEW amount \in TransferAmounts,
             Deposit(t, a, amount)
      PROVE  MoneyStep
  <2>1. amount \in Int
    BY <1>1
  <2>2. /\ t \in ledgers /\ ledgers' = ledgers /\ order' = order /\ fees' = fees
        /\ balance' = Change(balance, t, a, amount, 0)
        /\ vault' = [vault EXCEPT ![a] = vault[a] + amount]
        /\ migrated' = migrated /\ asset_vault' = asset_vault
    BY <1>3 DEF Deposit, books
  <2> QED
    BY <2>1, <2>2, TransferMoney
<1>4. ASSUME NEW t \in Traders, NEW a \in Assets, NEW amount \in TransferAmounts,
             Withdraw(t, a, amount)
      PROVE  MoneyStep
  <2>1. -amount \in Int /\ vault[a] - amount = vault[a] + (-amount)
    BY <1>1
  <2>2. /\ t \in ledgers /\ ledgers' = ledgers /\ order' = order /\ fees' = fees
        /\ balance' = Change(balance, t, a, -amount, 0)
        /\ vault' = [vault EXCEPT ![a] = vault[a] + (-amount)]
        /\ migrated' = migrated /\ asset_vault' = asset_vault
    BY <1>4, <2>1 DEF Withdraw, books
  <2> QED
    BY <2>1, <2>2, TransferMoney
<1>5. ASSUME NEW t \in Traders, NEW a \in Assets, NEW amount \in TransferAmounts,
             MigrateSpotAsset(t, a, amount)
      PROVE  MoneyStep
  <2> DEFINE d == -amount
  <2>1. d \in Int /\ vault[a] - amount = vault[a] + d /\ amount = -d
    BY <1>1
  <2>2. /\ t \in ledgers /\ ledgers' = ledgers /\ order' = order /\ fees' = fees
        /\ balance' = Change(balance, t, a, d, 0)
        /\ vault' = [vault EXCEPT ![a] = vault[a] + d]
        /\ migrated' = [migrated EXCEPT ![t][a] = migrated[t][a] + amount]
        /\ asset_vault' = [asset_vault EXCEPT ![a] = asset_vault[a] + amount]
    BY <1>5, <2>1 DEF MigrateSpotAsset, books
  <2> HIDE DEF d
  <2> QED
    BY <2>1, <2>2, TransferMoney
<1>6. ASSUME NEW amount \in 1 .. fees, WithdrawProtocolFees(amount)
      PROVE  MoneyStep
  <2>1. /\ fees' = fees - amount /\ vault' = [vault EXCEPT !["quote"] = vault["quote"] - amount]
        /\ balance' = balance /\ order' = order /\ ledgers' = ledgers
        /\ migrated' = migrated /\ asset_vault' = asset_vault
    BY <1>6 DEF WithdrawProtocolFees, books
  <2>2. amount \in Int /\ vault \in [Assets -> Nat] /\ fees \in Int
    BY DEF TypeOK
  <2>3. \A x \in Assets : vault'[x] - FeesIn(fees', x) = vault[x] - FeesIn(fees, x)
    BY <1>1, <2>1, <2>2 DEF FeesIn
  <2>4. \A x \in Assets : /\ vault'[x] \in Int /\ FeesIn(fees', x) \in Int
                          /\ vault[x] \in Int /\ FeesIn(fees, x) \in Int
                          /\ Held(balance, x) \in Int
    BY <1>1, <2>1, <2>2, MoneyNumbers DEF FeesIn
  <2>5. VaultsKept
    BY <2>1, <2>3, <2>4 DEF VaultsKept
  <2> QED
    BY <2>1, <2>5 DEF MoneyStep, LocksStand, OthersStand
<1> QED
  BY <1>2, <1>3, <1>4, <1>5, <1>6 DEF Custody

\* The money of a step.
LEMMA NextMoney ==
    ASSUME TypeOK, OrdersResting, MoneyAtRest, [Next]_vars
    PROVE  MoneyStep
<1>1. CASE PlaceOrder
  <2>1. PICK t \in Traders, s \in Sides, p \in Prices, q \in Quantities :
                 \/ AppendLimitOrder(t, s, p, q)
                 \/ \E better, worse \in LevelHints :
                        InsertLimitOrder(t, s, p, q, better, worse)
    BY <1>1 DEF PlaceOrder
  <2>2. \E previous : Placing(t, s, p, q, previous)
    BY <2>1 DEF AppendLimitOrder, InsertLimitOrder
  <2> QED
    BY <1>1, <2>2, PlacingMoney DEF PlaceOrder
<1>2. CASE CancelOrder
  BY <1>2, CancelMoney DEF CancelOrder
<1>3. CASE MatchOrder
  BY <1>3, MatchMoney DEF MatchOrder
<1>4. CASE Custody
  BY <1>4, CustodyMoney
<1>5. CASE InitializeMarket
  <2>1. /\ fees' = fees /\ \A a \in Assets : vault'[a] = vault[a]
        /\ order' = order /\ balance' = balance /\ ledgers' = ledgers
        /\ migrated' = migrated /\ asset_vault' = asset_vault
    BY <1>5 DEF InitializeMarket, MoneyAtRest
  <2> QED
    BY <2>1 DEF MoneyStep, VaultsKept, LocksStand, OthersStand
<1>6. CASE PauseMarket \/ UnpauseMarket \/ CloseMarket \/ UNCHANGED vars
  <2>1. UNCHANGED <<order, cash>>
    BY <1>6 DEF PauseMarket, UnpauseMarket, CloseMarket, cash, vars
  <2> QED
    BY <2>1 DEF cash, MoneyStep, VaultsKept, LocksStand, OthersStand
<1> QED
  BY <1>1, <1>2, <1>3, <1>4, <1>5, <1>6 DEF Next, Administration

\* A market that is gone after a step left nothing behind.
LEMMA NextAtRest ==
    ASSUME TypeOK, OrdersResting, MoneyAtRest, [Next]_vars
    PROVE  MoneyAtRest'
<1>1. market \in MarketRecord
  BY DEF TypeOK
<1>2. ~market'.live => fees' = 0 /\ \A a \in Assets : vault'[a] = 0
  <2>1. CASE PlaceOrder
    <3>1. PICK t \in Traders, s \in Sides, p \in Prices, q \in Quantities :
                   \/ AppendLimitOrder(t, s, p, q)
                   \/ \E better, worse \in LevelHints :
                          InsertLimitOrder(t, s, p, q, better, worse)
      BY <2>1 DEF PlaceOrder
    <3>2. market'.live = market.live
      BY <1>1, <3>1 DEF AppendLimitOrder, InsertLimitOrder, MarketRecord
    <3>3. market.live
      BY <3>1 DEF AppendLimitOrder, InsertLimitOrder, Placing, Active
    <3> QED
      BY <3>2, <3>3
  <2>2. CASE CancelOrder
    <3>1. PICK i \in Ids : market.live /\ market' = MarketWithout(i)
      BY <2>2 DEF CancelOrder, CancelLimitOrder
    <3>2. market'.live
      BY <1>1, <3>1 DEF MarketWithout, MarketRecord
    <3> QED
      BY <3>2
  <2>3. CASE MatchOrder
    <3>1. PICK i \in Ids : market.live /\ (market' = MarketWithout(i) \/ market' = market)
      BY <2>3 DEF MatchOrder, MatchLimitOrder, Active
    <3>2. market'.live
      BY <1>1, <3>1 DEF MarketWithout, MarketRecord
    <3> QED
      BY <3>2
  <2>4. CASE Custody
    BY <2>4 DEF Custody, InitializeTraderBalance, Deposit, Withdraw, MigrateSpotAsset,
                WithdrawProtocolFees, books
  <2>5. CASE InitializeMarket
    BY <2>5 DEF InitializeMarket, NewMarket
  <2>6. CASE PauseMarket \/ UnpauseMarket
    <3>1. market'.live
      BY <1>1, <2>6 DEF PauseMarket, UnpauseMarket, MarketRecord
    <3> QED
      BY <3>1
  <2>7. CASE CloseMarket
    BY <2>7 DEF CloseMarket, cash
  <2>8. CASE UNCHANGED vars
    BY <2>8 DEF vars, MoneyAtRest
  <2> QED
    BY <2>1, <2>2, <2>3, <2>4, <2>5, <2>6, <2>7, <2>8 DEF Next, Administration
<1>3. OthersStand
  BY NextMoney DEF MoneyStep
<1>4. \A u \in Traders \ ledgers', a \in Assets :
          balance'[u][a].free = 0 /\ balance'[u][a].locked = 0
  BY <1>3 DEF OthersStand, MoneyAtRest
<1> QED
  BY <1>2, <1>4 DEF MoneyAtRest

LEMMA RestHolds == Spec => []MoneyAtRest
<1>1. Init => MoneyAtRest
  BY DEF Init, MoneyAtRest, NewMarket
<1>2. TypeOK /\ BookInv /\ MoneyAtRest /\ [Next]_vars => MoneyAtRest'
  BY NextAtRest DEF BookInv
<1> QED
  BY <1>1, <1>2, TypeCorrect, BookHolds, PTL DEF Spec

\* Nobody holds anything at first.
LEMMA InitMoney ==
    ASSUME Init
    PROVE  \A x \in Assets : Held(balance, x) = 0 /\ Credited(migrated, x) = 0
<1> SUFFICES ASSUME NEW x \in Assets
             PROVE  Held(balance, x) = 0 /\ Credited(migrated, x) = 0
  OBVIOUS
<1> DEFINE f == [t \in Traders |-> balance[t][x].free + balance[t][x].locked]
           g == [t \in Traders |-> migrated[t][x]]
<1>1. f \in [Traders -> Int] /\ \A t \in Traders : f[t] = 0
  BY DEF Init
<1>2. g \in [Traders -> Int] /\ \A t \in Traders : g[t] = 0
  BY DEF Init
<1>3. IsFiniteSet(Traders)
  OBVIOUS
<1> HIDE DEF f, g
<1>4. SumFunction(f) = 0
  BY ONLY <1>1, <1>3, SumAllZero
<1>5. SumFunction(g) = 0
  BY ONLY <1>2, <1>3, SumAllZero
<1> QED
  BY <1>4, <1>5 DEF Held, Credited, f, g

\* The vaults in the terms of VaultsKept.
LEMMA VaultsAre ==
    VaultsBacked <=> \A a \in Assets : /\ vault[a] = Held(balance, a) + FeesIn(fees, a)
                                       /\ asset_vault[a] = Credited(migrated, a)
BY DEF VaultsBacked, FeesIn, Credited

\* Custody of a market (deposit, withdraw, match, migrate_spot_asset and
\* withdraw_protocol_fees): its vaults hold exactly the claims of the ledgers and
\* the fees, and the global vaults exactly what migration credited, for all
\* traders, prices, amounts and fee rates and across every closing.
THEOREM VaultsStayBacked == Spec => []VaultsBacked
<1>1. Init => VaultsBacked
  <2> SUFFICES ASSUME Init PROVE VaultsBacked
    OBVIOUS
  <2>1. \A a \in Assets : vault[a] = 0 /\ asset_vault[a] = 0 /\ FeesIn(fees, a) = 0
    BY DEF Init, FeesIn
  <2> QED
    BY <2>1, InitMoney, VaultsAre
<1>2. TypeOK /\ TypeOK' /\ OrdersResting /\ MoneyAtRest /\ VaultsBacked /\ [Next]_vars
          => VaultsBacked'
  <2> SUFFICES ASSUME TypeOK, TypeOK', OrdersResting, MoneyAtRest, VaultsBacked, [Next]_vars
               PROVE  VaultsBacked'
    OBVIOUS
  <2>1. VaultsKept
    BY NextMoney DEF MoneyStep
  <2>2. /\ \A a \in Assets : vault'[a] \in Int /\ asset_vault'[a] \in Int
        /\ \A a \in Assets : FeesIn(fees', a) \in Int
    BY DEF TypeOK, FeesIn
  <2>3. \A a \in Assets : Held(balance', a) \in Int
    <3>1. balance' \in Balances
      BY ClaimsAreBalances DEF TypeOK, Claims
    <3> QED
      BY <3>1, HeldType
  <2>4. ASSUME NEW a \in Assets
        PROVE  Credited(migrated', a) \in Int
    <3> DEFINE f == [t \in Traders |-> migrated'[t][a]]
    <3>1. f \in [Traders -> Int] /\ IsFiniteSet(Traders)
      BY DEF TypeOK
    <3> HIDE DEF f
    <3>2. SumFunction(f) \in Int
      BY ONLY <3>1, SumFunctionType
    <3> QED
      BY <3>2 DEF Credited, f
  <2>5. \A a \in Assets : /\ vault[a] = Held(balance, a) + FeesIn(fees, a)
                          /\ asset_vault[a] = Credited(migrated, a)
    BY VaultsAre
  <2>6. \A a \in Assets : /\ vault'[a] = Held(balance', a) + FeesIn(fees', a)
                          /\ asset_vault'[a] = Credited(migrated', a)
    <3> SUFFICES ASSUME NEW a \in Assets
                 PROVE  /\ vault'[a] = Held(balance', a) + FeesIn(fees', a)
                        /\ asset_vault'[a] = Credited(migrated', a)
      OBVIOUS
    <3>1. /\ vault'[a] - FeesIn(fees', a) - Held(balance', a)
                 = vault[a] - FeesIn(fees, a) - Held(balance, a)
          /\ asset_vault'[a] - Credited(migrated', a)
                 = asset_vault[a] - Credited(migrated, a)
      BY <2>1 DEF VaultsKept
    <3>2. /\ vault[a] \in Int /\ FeesIn(fees, a) \in Int /\ Held(balance, a) \in Int
          /\ asset_vault[a] \in Int /\ Credited(migrated, a) \in Int
      BY MoneyNumbers
    <3>3. /\ vault'[a] \in Int /\ FeesIn(fees', a) \in Int /\ Held(balance', a) \in Int
          /\ asset_vault'[a] \in Int /\ Credited(migrated', a) \in Int
      BY <2>2, <2>3, <2>4
    <3> QED
      BY ONLY <2>5, <3>1, <3>2, <3>3, a \in Assets
  <2> QED
    BY <2>6 DEF VaultsBacked, FeesIn, Credited
<1> QED
  BY <1>1, <1>2, TypeCorrect, BookHolds, RestHolds, PTL DEF Spec, BookInv

\* Locked amounts that move with one order's lock stay the sums of the locks.
LEMMA LocksFollow ==
    ASSUME TypeOK, TypeOK', LocksBacked, NEW i \in Ids, LocksMove(i)
    PROVE  LocksBacked'
<1> SUFFICES ASSUME NEW t \in Traders, NEW x \in Assets
             PROVE  balance'[t][x].locked =
                        SumFunction([j \in Ids |-> LockOf(order'[j], t, x)])
  BY DEF LocksBacked
<1> DEFINE f == [j \in Ids |-> LockOf(order[j], t, x)]
           g == [j \in Ids |-> LockOf(order'[j], t, x)]
           d == LockOf(order'[i], t, x) - LockOf(order[i], t, x)
<1>1. f \in [Ids -> Int] /\ g \in [Ids -> Int]
  <2>1. \A j \in Ids : order[j] \in OrderRecord /\ order'[j] \in OrderRecord
    BY DEF TypeOK
  <2>2. \A o \in OrderRecord : LockOf(o, t, x) \in Int
    BY DEF LockOf, OrderRecord
  <2> QED
    BY <2>1, <2>2
<1>2. IsFiniteSet(Ids)
  BY FS_Interval DEF Ids
<1>3. /\ d \in Int /\ g[i] = f[i] + d
      /\ \A j \in Ids : j # i => g[j] = f[j]
  <2>1. /\ f[i] = LockOf(order[i], t, x) /\ g[i] = LockOf(order'[i], t, x)
        /\ f[i] \in Int /\ g[i] \in Int
    BY <1>1
  <2>2. \A j \in Ids : j # i => g[j] = f[j]
    BY DEF LocksMove
  <2> QED
    BY <2>1, <2>2
<1>4. balance[t][x].locked = SumFunction(f) /\ balance'[t][x].locked = balance[t][x].locked + d
  BY DEF LocksBacked, LocksMove
<1> HIDE DEF f, g, d
<1>5. SumFunction(g) = SumFunction(f) + d
  BY ONLY <1>1, <1>2, <1>3, i \in Ids, SumMoved
<1> QED
  BY <1>4, <1>5 DEF g

\* Locked balances (append, insert, match, cancel): a ledger locks of each asset
\* exactly the sum of what its owner's open orders record, so rounding neither
\* leaves a lock behind nor takes one of another order.
THEOREM LocksStayBacked == Spec => []LocksBacked
<1>1. Init => LocksBacked
  <2> SUFFICES ASSUME Init, NEW t \in Traders, NEW x \in Assets
               PROVE  balance[t][x].locked =
                          SumFunction([j \in Ids |-> LockOf(order[j], t, x)])
    BY DEF LocksBacked
  <2> DEFINE f == [j \in Ids |-> LockOf(order[j], t, x)]
  <2>1. f \in [Ids -> Int] /\ \A j \in Ids : f[j] = 0
    BY DEF Init, AbsentOrder, LockOf
  <2>2. IsFiniteSet(Ids)
    BY FS_Interval DEF Ids
  <2> HIDE DEF f
  <2>3. SumFunction(f) = 0
    BY ONLY <2>1, <2>2, SumAllZero
  <2>4. balance[t][x].locked = 0
    BY DEF Init
  <2> QED
    BY <2>3, <2>4 DEF f
<1>2. TypeOK /\ TypeOK' /\ OrdersResting /\ MoneyAtRest /\ LocksBacked /\ [Next]_vars
          => LocksBacked'
  <2> SUFFICES ASSUME TypeOK, TypeOK', OrdersResting, MoneyAtRest, LocksBacked, [Next]_vars
               PROVE  LocksBacked'
    OBVIOUS
  <2>1. CASE LocksStand
    BY <2>1 DEF LocksStand, LocksBacked
  <2>2. CASE \E i \in Ids : LocksMove(i)
    BY <2>2, LocksFollow
  <2> QED
    BY <2>1, <2>2, NextMoney DEF MoneyStep
<1> QED
  BY <1>1, <1>2, TypeCorrect, BookHolds, RestHolds, PTL DEF Spec, BookInv

-----------------------------------------------------------------------------
(* The way out, and what is left when the market is gone *)

\* The index leaves an open order linked as its cancellation asks.
LEMMA OpenIsLinked ==
    ASSUME TypeOK, BookInv, NEW i \in OpenOrders
    PROVE  Linked(i)
<1> DEFINE o      == order[i]
           s      == o.side
           p      == o.price
           levels == level[s]
           lv     == levels[p]
           best   == market.best[s]
           S      == OrdersAt(s, p)
           P      == PricesIn(levels)
<1>1. /\ LinksInv /\ OrdersResting /\ OrdersCounted
      /\ i \in Ids /\ o.status = "Open" /\ s \in Sides /\ p \in Prices
  BY DEF BookInv, OrdersResting, OpenOrders, TypeOK, OrderRecord
<1>2. i \in S
  BY <1>1 DEF OpenAt, OrdersAt
<1>3. /\ DOMAIN levels = Prices
      /\ ListIs(P, s, levels, best) /\ QueueIs(S, order, lv)
      /\ \A j \in S : order[j].remaining_quantity > 0
  BY <1>1, BookLists
<1>4. \A j \in S : OpenAt(j, s, p)
  BY DEF OrdersAt
<1>5. InQueue(S, order, lv, i)
  <2> HIDE DEF S, lv
  <2> QED
    BY ONLY <1>2, <1>3, QueueShape
<1>6. p \in P /\ \A x \in P : LevelExists(s, x)
  <2>1. lv.order_count > 0
    <3> HIDE DEF S, lv
    <3> QED
      BY <1>5 DEF InQueue
  <2> QED
    BY <1>1, <1>3, <2>1 DEF PricesIn, LevelExists
<1>7. InList(P, s, levels, best, p)
  <2> HIDE DEF P, levels, best, s, p
  <2> QED
    BY ONLY <1>1, <1>3, <1>6, ListShape
<1>8. market.open_order_count >= 1
  <2>1. IsFiniteSet(OpenOrders)
    BY OpenFinite
  <2>2. Cardinality(OpenOrders) \in Nat /\ Cardinality(OpenOrders) # 0
    BY <2>1, FS_CardinalityType, FS_EmptySet
  <2> QED
    BY <1>1, <2>2 DEF OrdersCounted
<1>9. /\ lv.total_remaining_quantity >= o.remaining_quantity
      /\ (lv.first_order = i) <=> (o.previous_order = 0)
      /\ (lv.last_order = i) <=> (o.next_order = 0)
      /\ o.previous_order # 0 => /\ OpenAt(o.previous_order, s, p)
                                 /\ order[o.previous_order].next_order = i
      /\ o.next_order # 0 => /\ OpenAt(o.next_order, s, p)
                             /\ order[o.next_order].previous_order = i
      /\ lv.order_count = 1 => /\ o.previous_order = 0 /\ o.next_order = 0
                               /\ lv.total_remaining_quantity = o.remaining_quantity
  <2> HIDE DEF S, lv, s, p
  <2> QED
    BY <1>4, <1>5 DEF InQueue
<1>10. /\ (best = p) <=> (lv.better_price = 0)
       /\ lv.better_price # 0 => /\ LevelExists(s, lv.better_price)
                                 /\ levels[lv.better_price].worse_price = p
       /\ lv.worse_price # 0 => /\ LevelExists(s, lv.worse_price)
                                /\ levels[lv.worse_price].better_price = p
  <2> HIDE DEF P
  <2> QED
    BY <1>6, <1>7 DEF InList
<1> QED
  BY <1>1, <1>6, <1>8, <1>9, <1>10 DEF Linked, OnlyOrderOfLevel

\* Cancellation (handle_cancel_limit_order, "owners retain an exit path"):
\* whether the market is active or paused, every open order passes all checks of
\* its cancellation, which is as much as its links, its lock, its level and the
\* counter agreeing; an order that locks nothing is no exception.
THEOREM OpenOrdersStayCancelable == Spec => []OpenOrdersCancelable
<1>1. TypeOK /\ BookInv /\ LocksBacked => OpenOrdersCancelable
  <2> SUFFICES ASSUME TypeOK, BookInv, LocksBacked, NEW i \in OpenOrders
               PROVE  LET o == order[i]
                      IN  /\ market.live
                          /\ o.owner \in ledgers
                          /\ Linked(i)
                          /\ balance[o.owner][LockedAsset(o.side)].locked
                                 >= o.locked_collateral
    BY DEF OpenOrdersCancelable
  <2> DEFINE o == order[i]
             t == o.owner
             x == LockedAsset(o.side)
             f == [j \in Ids |-> LockOf(order[j], t, x)]
  <2>1. i \in Ids /\ o.status = "Open" /\ t \in ledgers /\ t \in Traders
    BY DEF OpenOrders, BookInv, OrdersResting, TypeOK
  <2>2. x \in Assets
    BY DEF LockedAsset, Assets
  <2>3. IsFiniteSet(Ids) /\ \A j \in Ids : f[j] \in Nat
    <3>1. \A j \in Ids : order[j] \in OrderRecord
      BY DEF TypeOK
    <3>2. \A j \in Ids : f[j] \in Nat
      BY <3>1 DEF LockOf, OrderRecord
    <3> QED
      BY <3>2, FS_Interval DEF Ids
  <2>4. f[i] = o.locked_collateral /\ f \in [Ids -> Int]
    BY <2>1, <2>3 DEF LockOf
  <2>5. balance[t][x].locked = SumFunction(f)
    BY <2>1, <2>2 DEF LocksBacked
  <2> HIDE DEF f
  <2>6. SumFunctionOnSet(f, Ids) >= f[i]
    BY ONLY <2>1, <2>3, SumExceeds
  <2>7. SumFunction(f) = SumFunctionOnSet(f, Ids)
    BY ONLY <2>3, <2>4, SumFunctionType
  <2>8. balance[t][x].locked >= o.locked_collateral
    BY <2>4, <2>5, <2>6, <2>7
  <2>9. market.live
    BY DEF BookInv, OrdersCounted
  <2> QED
    BY <2>1, <2>8, <2>9, OpenIsLinked
<1> QED
  BY <1>1, TypeCorrect, BookHolds, LocksStayBacked, PTL

\* A sum of nothing is made of nothing.
LEMMA NothingHeld ==
    ASSUME TypeOK, NEW a \in Assets, Held(balance, a) = 0, NEW t \in Traders
    PROVE  balance[t][a].free = 0 /\ balance[t][a].locked = 0
<1> DEFINE f == [u \in Traders |-> balance[u][a].free + balance[u][a].locked]
<1>1. \A u \in Traders : balance[u][a].free \in Nat /\ balance[u][a].locked \in Nat
  BY TypeParts, ClaimParts
<1>2. /\ IsFiniteSet(Traders) /\ \A u \in Traders : f[u] \in Nat
      /\ f \in [Traders -> Int]
  BY <1>1
<1>3. SumFunction(f) = 0 /\ f[t] = balance[t][a].free + balance[t][a].locked
  BY DEF Held
<1> HIDE DEF f
<1>4. SumFunctionOnSet(f, Traders) >= f[t]
  BY ONLY <1>2, t \in Traders, SumExceeds
<1>5. SumFunction(f) = SumFunctionOnSet(f, Traders)
  BY ONLY <1>2, SumFunctionType
<1> QED
  BY <1>1, <1>2, <1>3, <1>4, <1>5

\* Closing (close_market): when the market account is gone no ledger holds
\* anything, no fee is owed and no price level survives, so a market created
\* again under the same mints starts with an empty book and nobody's claim was
\* cut off; close_market itself asks only for its count, its fees and its vaults.
THEOREM ClosedStaysEmpty == Spec => []ClosedOwesNothing
<1>1. TypeOK /\ BookInv /\ MoneyAtRest /\ VaultsBacked => ClosedOwesNothing
  <2> SUFFICES ASSUME TypeOK, BookInv, MoneyAtRest, VaultsBacked, ~market.live
               PROVE  /\ fees = 0
                      /\ \A t \in Traders, a \in Assets :
                             balance[t][a].free = 0 /\ balance[t][a].locked = 0
                      /\ \A s \in Sides, p \in Prices : ~LevelExists(s, p)
    BY DEF ClosedOwesNothing
  <2>1. fees = 0 /\ \A a \in Assets : vault[a] = 0
    BY DEF MoneyAtRest
  <2>2. ASSUME NEW a \in Assets
        PROVE  Held(balance, a) = 0
    <3>1. vault[a] = Held(balance, a) + FeesIn(fees, a)
      BY VaultsAre
    <3>2. FeesIn(fees, a) = 0 /\ vault[a] = 0 /\ Held(balance, a) \in Int
      BY <2>1, MoneyNumbers DEF FeesIn
    <3> QED
      BY <3>1, <3>2
  <2>3. ASSUME NEW s \in Sides, NEW p \in Prices
        PROVE  ~LevelExists(s, p)
    <3>1. OrdersAt(s, p) = {}
      BY DEF BookInv, OrdersCounted, OrdersAt, OpenOrders, OpenAt
    <3>2. QueueIs(OrdersAt(s, p), order, level[s][p])
      BY BookLists DEF BookInv
    <3>3. level[s][p].order_count = 0
      BY <3>1, <3>2, FS_EmptySet DEF QueueIs
    <3> QED
      BY <3>3 DEF LevelExists
  <2> QED
    BY <2>1, <2>2, <2>3, NothingHeld
<1> QED
  BY <1>1, TypeCorrect, BookHolds, RestHolds, VaultsStayBacked, PTL
=============================================================================
