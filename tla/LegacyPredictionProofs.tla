----------------------- MODULE LegacyPredictionProofs -----------------------
(***************************************************************************)
(* Theorems about LegacyPrediction for any traders, prices and bounds.     *)
(***************************************************************************)
EXTENDS LegacyPredictionProperties, DataProofs

USE LegacyPredictionAssumption DEF None, outside, orders

Claims == [Traders -> [Buckets -> [free : Nat, locked : Nat]]]
Levels == [Prices -> LevelRecord]

-----------------------------------------------------------------------------
(* Positions *)

\* What Change does to positions that can afford it.
LEMMA ChangeType ==
    ASSUME NEW c \in Claims, NEW t \in Traders, NEW a \in Buckets,
           NEW f \in Int, NEW k \in Int,
           c[t][a].free + f >= 0, c[t][a].locked + k >= 0
    PROVE  /\ Change(c, t, a, f, k) \in Claims
           /\ \A x \in Traders, y \in Buckets :
                  x # t \/ y # a => Change(c, t, a, f, k)[x][y] = c[x][y]
  BY DEF Change, Claims

\* Two changes of one position, in two of its buckets.
LEMMA TwoChangesType ==
    ASSUME NEW c \in Claims, NEW t \in Traders,
           NEW a \in Buckets, NEW b \in Buckets, a # b,
           NEW f \in Int, NEW k \in Int, NEW g \in Int, NEW h \in Int,
           c[t][a].free + f >= 0, c[t][a].locked + k >= 0,
           c[t][b].free + g >= 0, c[t][b].locked + h >= 0
    PROVE  /\ Change(Change(c, t, a, f, k), t, b, g, h) \in Claims
           /\ \A x \in Traders, y \in Buckets : x # t \/ y \notin {a, b} =>
                  Change(Change(c, t, a, f, k), t, b, g, h)[x][y] = c[x][y]
<1> DEFINE c1 == Change(c, t, a, f, k)
<1>1. c1 \in Claims /\ \A x \in Traders, y \in Buckets : x # t \/ y # a => c1[x][y] = c[x][y]
  BY ChangeType
<1>2. c1[t][b].free + g >= 0 /\ c1[t][b].locked + h >= 0
  BY <1>1
<1> HIDE DEF c1
<1>3. /\ Change(c1, t, b, g, h) \in Claims
      /\ \A x \in Traders, y \in Buckets :
             x # t \/ y # b => Change(c1, t, b, g, h)[x][y] = c1[x][y]
  BY <1>1, <1>2, ChangeType
<1> QED
  BY <1>1, <1>3 DEF c1

\* Every bucket of a position holds naturals.
LEMMA ClaimParts ==
    ASSUME NEW c \in Claims, NEW t \in Traders, NEW a \in Buckets
    PROVE  c[t][a].free \in Nat /\ c[t][a].locked \in Nat
  BY DEF Claims

\* Contracts gained or given up.
LEMMA HoldType ==
    ASSUME NEW c \in Claims, NEW t \in Traders, NEW yes \in Int, NEW no \in Int,
           c[t]["Yes"].free + yes >= 0, c[t]["No"].free + no >= 0
    PROVE  Hold(c, t, yes, no) \in Claims
<1>1. {"Yes", "No"} \subseteq Buckets
  BY DEF Buckets, Contracts
<1>2. c[t]["Yes"].locked + 0 >= 0 /\ c[t]["No"].locked + 0 >= 0
  BY <1>1, ClaimParts
<1> QED
  BY <1>1, <1>2, TwoChangesType DEF Hold

\* ... with what cash of the position that takes.
LEMMA HoldForCashType ==
    ASSUME NEW c \in Claims, NEW t \in Traders,
           NEW cash \in Int, NEW yes \in Int, NEW no \in Int,
           c[t]["cash"].free + cash >= 0,
           c[t]["Yes"].free + yes >= 0, c[t]["No"].free + no >= 0
    PROVE  Hold(Change(c, t, "cash", cash, 0), t, yes, no) \in Claims
<1> DEFINE d == Change(c, t, "cash", cash, 0)
<1>1. {"cash", "Yes", "No"} \subseteq Buckets
  BY DEF Buckets, Contracts
<1>2. c[t]["cash"].locked + 0 >= 0
  BY <1>1, ClaimParts
<1>3. d \in Claims /\ d[t]["Yes"] = c[t]["Yes"] /\ d[t]["No"] = c[t]["No"]
  BY <1>1, <1>2, ChangeType
<1> HIDE DEF d
<1>4. Hold(d, t, yes, no) \in Claims
  BY <1>3, HoldType
<1> QED
  BY <1>4 DEF d

-----------------------------------------------------------------------------
(* Links *)

\* The part of TypeOK the links live in.
LinksType ==
    /\ book \in [next_order_id : Nat \ {0}, best : [Lists -> LevelHints]]
    /\ order \in [Ids -> OrderRecord]
    /\ level \in [Lists -> Levels]

\* TypeOK, one variable at a time.
LEMMA TypeParts ==
    ASSUME TypeOK
    PROVE  LinksType /\ position \in Claims /\ market \in MarketRecord
  BY DEF TypeOK, LinksType, Levels, Claims

\* Unlinking an order leaves order records.
LEMMA OrdersWithoutType ==
    ASSUME LinksType, NEW i \in Ids, NEW status \in {"Filled", "Canceled"}
    PROVE  OrdersWithout(i, status) \in [Ids -> OrderRecord]
<1> DEFINE o == order[i]
           final == [o EXCEPT !.remaining_quantity = 0, !.locked_collateral = 0,
                              !.previous_order = None, !.next_order = None,
                              !.status = status]
           relinked(j) == [order[j] EXCEPT
               !.next_order     = IF j = o.previous_order THEN o.next_order ELSE order[j].next_order,
               !.previous_order = IF j = o.next_order THEN o.previous_order ELSE order[j].previous_order]
<1>1. \A j \in Ids : order[j] \in OrderRecord
  BY DEF LinksType
<1>2. o.next_order \in OrderHints /\ o.previous_order \in OrderHints
  BY <1>1 DEF OrderRecord
<1>3. ASSUME NEW j \in Ids PROVE relinked(j) \in OrderRecord
  BY <1>1, <1>2 DEF OrderRecord
<1>4. final \in OrderRecord
  BY <1>1 DEF OrderRecord, OrderHints
<1> QED
  BY <1>1, <1>3, <1>4 DEF OrdersWithout

\* What leaving asks of an order and its level, in a cancellation or a fill.
Leavable(i) ==
    LET o == order[i]
    IN  /\ OpenAt(i, o.list, o.price)
        /\ LiveLevel(o.list, o.price)
        /\ ~OnlyOrderOfLevel(i) =>
               level[o.list][o.price].total_remaining_quantity > o.remaining_quantity
        /\ market.open_order_count >= 1

\* The level an order leaves shrinks or disappears, its neighbours stay levels.
LEMMA LevelsWithoutType ==
    ASSUME LinksType, NEW i \in Ids, Leavable(i)
    PROVE  LevelsWithout(i) \in Levels
<1> DEFINE o   == order[i]
           old == level[o.list]
           lv  == old[o.price]
<1>1. o \in OrderRecord /\ o.list \in Lists /\ o.price \in Prices
  BY DEF LinksType, OrderRecord, Leavable, LiveLevel
<1>2. old \in Levels /\ \A x \in Prices : old[x] \in LevelRecord
  BY <1>1 DEF LinksType, Levels
<1>3. /\ lv \in LevelRecord
      /\ lv.order_count \in Nat /\ lv.order_count > 0
      /\ lv.total_remaining_quantity \in Nat /\ o.remaining_quantity \in Nat
  BY <1>1, <1>2 DEF LevelRecord, OrderRecord, Leavable, LiveLevel
<1>4. CASE OnlyOrderOfLevel(i)
  <2> DEFINE relinked(x) == [old[x] EXCEPT
                 !.worse_price  = IF x = lv.better_price THEN lv.worse_price ELSE old[x].worse_price,
                 !.better_price = IF x = lv.worse_price THEN lv.better_price ELSE old[x].better_price]
  <2>1. lv.worse_price \in LevelHints /\ lv.better_price \in LevelHints
    BY <1>3 DEF LevelRecord
  <2>2. ASSUME NEW x \in Prices PROVE relinked(x) \in LevelRecord
    BY <1>2, <2>1 DEF LevelRecord
  <2>3. AbsentLevel \in LevelRecord
    BY DEF AbsentLevel, LevelRecord, LevelHints, OrderHints
  <2> QED
    BY <1>2, <1>4, <2>2, <2>3 DEF LevelsWithout, Levels
<1>5. CASE ~OnlyOrderOfLevel(i)
  <2> DEFINE first == IF o.previous_order = None THEN o.next_order ELSE lv.first_order
             last  == IF o.next_order = None THEN o.previous_order ELSE lv.last_order
             new   == [lv EXCEPT !.first_order = first, !.last_order = last,
                                 !.order_count = lv.order_count - 1,
                                 !.total_remaining_quantity =
                                     lv.total_remaining_quantity - o.remaining_quantity]
  <2>1. lv.order_count - 1 \in Nat /\ lv.total_remaining_quantity - o.remaining_quantity \in Nat
    BY <1>3, <1>5 DEF Leavable
  <2>2. first \in OrderHints /\ last \in OrderHints
    BY <1>1, <1>3 DEF LevelRecord, OrderRecord
  <2> HIDE DEF first, last
  <2>3. new \in LevelRecord
    BY <1>3, <2>1, <2>2 DEF LevelRecord
  <2>4. LevelsWithout(i) = [old EXCEPT ![o.price] = new]
    BY <1>5 DEF LevelsWithout, first, last
  <2> QED
    BY <1>1, <1>2, <2>3, <2>4 DEF Levels
<1> QED
  BY <1>4, <1>5

\* An order that leaves takes nothing with it but its links and its count.
LEMMA UnlinkType ==
    ASSUME TypeOK, NEW i \in Ids, Leavable(i), NEW status \in {"Filled", "Canceled"},
           Unlink(i, status)
    PROVE  /\ LinksType'
           /\ market' = [market EXCEPT !.open_order_count = market.open_order_count - 1]
           /\ market.open_order_count - 1 \in Nat
<1> DEFINE o    == order[i]
           lv   == level[o.list][o.price]
           best == IF OnlyOrderOfLevel(i) /\ lv.better_price = None
                   THEN lv.worse_price ELSE book.best[o.list]
<1>1. LinksType /\ market \in MarketRecord
  BY TypeParts
<1>2. o.list \in Lists /\ o.price \in Prices
  BY <1>1 DEF LinksType, OrderRecord, Leavable, LiveLevel
<1>3. order' \in [Ids -> OrderRecord]
  BY <1>1, OrdersWithoutType DEF Unlink
<1>4. level' \in [Lists -> Levels]
  BY <1>1, <1>2, LevelsWithoutType DEF Unlink, LinksType
<1>5. best \in LevelHints
  <2>1. lv \in LevelRecord
    <3>1. level[o.list] \in Levels
      BY <1>1, <1>2 DEF LinksType
    <3> QED
      BY <1>2, <3>1 DEF Levels
  <2>2. lv.worse_price \in LevelHints
    BY <2>1 DEF LevelRecord
  <2>3. book.best[o.list] \in LevelHints
    BY <1>1, <1>2 DEF LinksType
  <2> QED
    BY <2>2, <2>3
<1>6. book' = [book EXCEPT !.best = [book.best EXCEPT ![o.list] = best]]
  BY <1>1 DEF Unlink, BookWithout, LinksType
<1> HIDE DEF best
<1>7. book' \in [next_order_id : Nat \ {0}, best : [Lists -> LevelHints]]
  BY <1>1, <1>5, <1>6 DEF LinksType
<1> QED
  BY <1>1, <1>3, <1>4, <1>7 DEF LinksType, Unlink, MarketRecord, Leavable
-----------------------------------------------------------------------------
(* Placement *)

\* The bucket an order locks and what it locks there.
LEMMA BackingType ==
    ASSUME NEW l \in Lists, NEW p \in Nat, NEW q \in Nat
    PROVE  LockedBucket(l) \in Buckets /\ Backing(l, p, q) \in Nat
<1>1. p * q \in Nat
  OBVIOUS
<1>2. l[1] \in Contracts
  BY DEF Lists
<1> QED
  BY <1>1, <1>2 DEF LockedBucket, Backing, Buckets

\* A new order takes its lock out of a free bucket, and one counter goes up.
LEMMA PlacingType ==
    ASSUME TypeOK, NEW t \in Traders, NEW l \in Lists, NEW p \in Prices,
           NEW q \in Quantities, NEW previous \in OrderHints,
           book.next_order_id \in Ids, Placing(t, l, p, q, previous)
    PROVE  /\ position' \in Claims
           /\ order' \in [Ids -> OrderRecord]
           /\ market' \in MarketRecord
           /\ market'.phase = market.phase
           /\ market'.final_outcome = market.final_outcome
           /\ UNCHANGED <<fees, outside>>
<1> DEFINE id     == book.next_order_id
           bucket == LockedBucket(l)
           amount == Backing(l, p, q)
           new == [owner |-> t, list |-> l, price |-> p,
                   previous_order |-> previous, next_order |-> None,
                   quantity |-> q, remaining_quantity |-> q,
                   locked_collateral |-> amount, status |-> "Open"]
           relinked(j) == [order[j] EXCEPT !.next_order = id]
<1>1. LinksType /\ position \in Claims /\ market \in MarketRecord
  BY TypeParts
<1>2. p \in Nat /\ q \in Nat
  OBVIOUS
<1>3. bucket \in Buckets /\ amount \in Nat
  BY <1>2, BackingType
<1>4. position[t][bucket].free >= amount /\ position' = Change(position, t, bucket, -amount, amount)
  BY DEF Placing
<1>5. position' \in Claims
  <2>1. position[t][bucket].free \in Nat /\ position[t][bucket].locked \in Nat
    BY <1>1, <1>3, ClaimParts
  <2> HIDE DEF bucket, amount
  <2>2. /\ -amount \in Int /\ amount \in Int
        /\ position[t][bucket].free + (-amount) >= 0
        /\ position[t][bucket].locked + amount >= 0
    BY <1>3, <1>4, <2>1
  <2> QED
    BY <1>1, <1>3, <1>4, <2>2, ChangeType
<1>6. order' \in [Ids -> OrderRecord]
  <2>1. \A j \in Ids : order[j] \in OrderRecord
    BY <1>1 DEF LinksType
  <2>2. \A j \in Ids : relinked(j) \in OrderRecord
    BY <2>1 DEF OrderRecord, OrderHints
  <2>3. new \in OrderRecord
    <3> HIDE DEF amount
    <3> QED
      BY <1>2, <1>3 DEF OrderRecord, OrderHints, LevelHints
  <2>4. order' = [j \in Ids |-> IF j = id THEN new
                                ELSE IF j = previous THEN relinked(j) ELSE order[j]]
    BY DEF Placing
  <2> HIDE DEF new, relinked
  <2> QED
    BY <2>1, <2>2, <2>3, <2>4
<1>7. market' = [market EXCEPT !.open_order_count = market.open_order_count + 1]
  BY DEF Placing
<1>8. UNCHANGED <<fees, outside>>
  BY DEF Placing
<1>9. /\ market' \in MarketRecord
      /\ market'.phase = market.phase /\ market'.final_outcome = market.final_outcome
  BY <1>1, <1>7 DEF MarketRecord
<1> QED
  BY <1>5, <1>6, <1>8, <1>9

\* A new level between its neighbours.
LEMMA NewLevelType ==
    ASSUME TypeOK, NEW t \in Traders, NEW l \in Lists, NEW p \in Prices,
           NEW q \in Quantities, NEW better \in LevelHints, NEW worse \in LevelHints,
           book.next_order_id \in Ids, NewLevel(t, l, p, q, better, worse)
    PROVE  TypeOK'
<1> DEFINE id  == book.next_order_id
           old == level[l]
           new == [better_price |-> better, worse_price |-> worse,
                   first_order |-> id, last_order |-> id,
                   total_remaining_quantity |-> q, order_count |-> 1]
           relinked(x) == [old[x] EXCEPT
               !.worse_price  = IF x = better THEN p ELSE old[x].worse_price,
               !.better_price = IF x = worse THEN p ELSE old[x].better_price]
           row  == [x \in Prices |-> IF x = p THEN new ELSE relinked(x)]
           best == IF better = None THEN p ELSE book.best[l]
<1>1. LinksType
  BY TypeParts
<1>2. None \in OrderHints /\ p \in LevelHints
  BY DEF OrderHints, LevelHints
<1>3. /\ position' \in Claims
      /\ order' \in [Ids -> OrderRecord]
      /\ market' \in MarketRecord
      /\ market'.phase = market.phase
      /\ market'.final_outcome = market.final_outcome
      /\ UNCHANGED <<fees, outside>>
  BY <1>2, PlacingType DEF NewLevel
<1>4. row \in Levels
  <2>1. \A x \in Prices : old[x] \in LevelRecord
    BY <1>1 DEF LinksType, Levels
  <2>2. new \in LevelRecord
    BY DEF LevelRecord, OrderHints
  <2>3. \A x \in Prices : relinked(x) \in LevelRecord
    BY <1>2, <2>1 DEF LevelRecord
  <2> HIDE DEF new, relinked
  <2> QED
    BY <2>2, <2>3 DEF Levels
<1>5. level' = [level EXCEPT ![l] = row]
  BY DEF NewLevel
<1>6. book' = [book EXCEPT !.next_order_id = id + 1, !.best = [book.best EXCEPT ![l] = best]]
  BY <1>1 DEF NewLevel, LinksType
<1>7. best \in LevelHints
  BY <1>1, <1>2 DEF LinksType
<1> HIDE DEF row, best
<1>8. level' \in [Lists -> Levels]
  BY <1>1, <1>4, <1>5 DEF LinksType
<1>9. book' \in [next_order_id : Nat \ {0}, best : [Lists -> LevelHints]]
  <2>1. [book.best EXCEPT ![l] = best] \in [Lists -> LevelHints]
    BY <1>1, <1>7 DEF LinksType
  <2>2. id + 1 \in Nat \ {0}
    BY DEF Ids
  <2> QED
    BY <1>1, <1>6, <2>1, <2>2 DEF LinksType
<1> QED
  BY <1>3, <1>8, <1>9 DEF TypeOK, Levels, Claims

\* A place at the tail of a level.
LEMMA AppendType ==
    ASSUME TypeOK, NEW t \in Traders, NEW l \in Lists, NEW p \in Prices,
           NEW q \in Quantities, book.next_order_id \in Ids,
           AppendPredictionOrder(t, l, p, q)
    PROVE  TypeOK'
<1> DEFINE id  == book.next_order_id
           lv  == level[l][p]
           new == [lv EXCEPT !.last_order = id,
                             !.total_remaining_quantity = lv.total_remaining_quantity + q,
                             !.order_count = lv.order_count + 1]
<1>1. LinksType
  BY TypeParts
<1>2. lv.last_order \in OrderHints
  BY DEF AppendPredictionOrder, OpenAt, OrderHints
<1>3. /\ position' \in Claims
      /\ order' \in [Ids -> OrderRecord]
      /\ market' \in MarketRecord
      /\ market'.phase = market.phase
      /\ market'.final_outcome = market.final_outcome
      /\ UNCHANGED <<fees, outside>>
  BY <1>2, PlacingType DEF AppendPredictionOrder
<1>4. level[l] \in Levels
  BY <1>1 DEF LinksType
<1>5. new \in LevelRecord
  <2>1. lv \in LevelRecord
    BY <1>4 DEF Levels
  <2>2. lv.total_remaining_quantity + q \in Nat /\ lv.order_count + 1 \in Nat
    BY <2>1 DEF LevelRecord
  <2>3. id \in OrderHints
    BY DEF OrderHints
  <2> QED
    BY <2>1, <2>2, <2>3 DEF LevelRecord
<1>6. level' = [level EXCEPT ![l] = [level[l] EXCEPT ![p] = new]]
  BY DEF AppendPredictionOrder
<1>7. book' = [book EXCEPT !.next_order_id = id + 1]
  BY DEF AppendPredictionOrder
<1> HIDE DEF new
<1>8. level' \in [Lists -> Levels]
  BY <1>1, <1>4, <1>5, <1>6 DEF LinksType, Levels
<1>9. book' \in [next_order_id : Nat \ {0}, best : [Lists -> LevelHints]]
  BY <1>1, <1>7 DEF LinksType
<1> QED
  BY <1>3, <1>8, <1>9 DEF TypeOK, Levels, Claims

-----------------------------------------------------------------------------
(* Cancellation *)

LEMMA CancelType ==
    ASSUME TypeOK, NEW t \in Traders, NEW i \in Ids, CancelPredictionOrder(t, i)
    PROVE  TypeOK'
<1> DEFINE o      == order[i]
           bucket == LockedBucket(o.list)
           amount == o.locked_collateral
<1>1. LinksType /\ position \in Claims /\ market \in MarketRecord
  BY TypeParts
<1>2. Leavable(i)
  BY DEF CancelPredictionOrder, Linked, Leavable
<1>3. Unlink(i, "Canceled") /\ UNCHANGED <<fees, outside>>
  BY DEF CancelPredictionOrder
<1>4. /\ LinksType'
      /\ market' = [market EXCEPT !.open_order_count = market.open_order_count - 1]
      /\ market.open_order_count - 1 \in Nat
  BY <1>2, <1>3, UnlinkType
<1>5. o.list \in Lists /\ amount \in Nat
  BY <1>1 DEF LinksType, OrderRecord
<1>6. bucket \in Buckets
  BY <1>5, BackingType
<1>7. /\ position[t][bucket].locked >= amount
      /\ position' = Change(position, t, bucket, amount, -amount)
  BY DEF CancelPredictionOrder
<1>8. position[t][bucket].free \in Nat /\ position[t][bucket].locked \in Nat
  BY <1>1, <1>6, ClaimParts
<1> HIDE DEF bucket, amount
<1>9. position' \in Claims
  <2>1. /\ -amount \in Int /\ amount \in Int
        /\ position[t][bucket].free + amount >= 0
        /\ position[t][bucket].locked + (-amount) >= 0
    BY <1>5, <1>7, <1>8
  <2> QED
    BY <1>1, <1>6, <1>7, <2>1, ChangeType
<1>10. /\ market' \in MarketRecord
       /\ market'.phase = market.phase /\ market'.final_outcome = market.final_outcome
  BY <1>1, <1>4 DEF MarketRecord
<1> QED
  BY <1>3, <1>4, <1>9, <1>10 DEF TypeOK, LinksType, Levels, Claims
-----------------------------------------------------------------------------
(* Matching *)

\* Two buckets of the taker's, then two of the maker's.
LEMMA FourChangesType ==
    ASSUME NEW c \in Claims, NEW t \in Traders, NEW u \in Traders, t # u,
           NEW a \in Buckets, NEW b \in Buckets, a # b,
           NEW d \in Buckets, NEW e \in Buckets, d # e,
           NEW f \in Int, NEW g \in Int, NEW h \in Int, NEW k \in Int,
           NEW m \in Int, NEW n \in Int,
           c[t][a].free + f >= 0, c[t][b].free + g >= 0,
           c[u][d].free + h >= 0, c[u][d].locked + k >= 0,
           c[u][e].free + m >= 0, c[u][e].locked + n >= 0
    PROVE  Change(Change(Change(Change(c, t, a, f, 0), t, b, g, 0),
                         u, d, h, k), u, e, m, n) \in Claims
<1> DEFINE taken == Change(Change(c, t, a, f, 0), t, b, g, 0)
<1>1. c[t][a].locked + 0 >= 0 /\ c[t][b].locked + 0 >= 0
  BY ClaimParts
<1>2. taken \in Claims /\ taken[u][d] = c[u][d] /\ taken[u][e] = c[u][e]
  BY <1>1, TwoChangesType
<1> HIDE DEF taken
<1>3. Change(Change(taken, u, d, h, k), u, e, m, n) \in Claims
  BY <1>2, TwoChangesType
<1> QED
  BY <1>3 DEF taken

\* A part of what is left needs no more than all of it.
LEMMA BackingSplits ==
    ASSUME NEW l \in Lists, NEW p \in Nat, NEW r \in Nat, NEW f \in 0 .. r
    PROVE  /\ Backing(l, p, f) \in Nat
           /\ Backing(l, p, r) = Backing(l, p, f) + Backing(l, p, r - f)
           /\ Backing(l, p, r - f) \in Nat
<1>1. p * r = p * f + p * (r - f) /\ p * f \in Nat /\ p * (r - f) \in Nat
  OBVIOUS
<1> QED
  BY <1>1 DEF Backing

\* What a fill is, by the checks of the handler.
LEMMA MatchParts ==
    ASSUME TypeOK, NEW t \in Traders, NEW l \in Lists, NEW limit \in Prices,
           NEW q \in Quantities, NEW bps \in FeeRates, NEW i \in Ids,
           MatchPredictionOrder(t, l, limit, q, bps, i)
    PROVE  LET o        == order[i]
               fill     == FillBase(q, o.remaining_quantity)
               notional == o.price * fill
               fee      == TakerFee(notional, bps)
           IN  /\ o.price \in Prices /\ o.list \in Lists
               /\ o.list[1] \in Contracts
               /\ (o.list[2] = "Ask") <=> (l[2] = "Bid")
               /\ o.owner \in Traders /\ o.owner # t
               /\ o.remaining_quantity \in Nat
               /\ fill \in 1 .. o.remaining_quantity
               /\ notional \in Nat
               /\ fee \in 0 .. notional
               /\ o.locked_collateral = Backing(o.list, o.price, o.remaining_quantity)
               /\ o.locked_collateral \in Nat
               /\ Backing(o.list, o.price, fill) \in 0 .. o.locked_collateral
<1> DEFINE o        == order[i]
           fill     == FillBase(q, o.remaining_quantity)
           notional == o.price * fill
           fee      == TakerFee(notional, bps)
<1>1. o \in OrderRecord
  BY TypeParts DEF LinksType
<1>2. FifoMaker(t, l, i) /\ o.owner \in positions
  BY DEF MatchPredictionOrder
<1>3. /\ OpenAt(i, Opposite(l), o.price) /\ LiveLevel(o.list, o.price)
      /\ ExactlyBacked(i) /\ o.owner # t
  BY <1>2 DEF FifoMaker
<1>4. o.price \in Prices /\ o.list \in Lists /\ o.list = Opposite(l)
  BY <1>1, <1>3 DEF OpenAt, LiveLevel, OrderRecord
<1>5. /\ o.list[1] \in Contracts
      /\ (o.list[2] = "Ask") <=> (l[2] = "Bid")
  BY <1>4 DEF Lists, Opposite, OppositeSide, Sides
<1>6. o.owner \in Traders
  BY <1>2 DEF TypeOK
<1>7. o.remaining_quantity \in Nat /\ fill \in 1 .. o.remaining_quantity
  BY <1>1, <1>3 DEF OpenAt, OrderRecord, FillBase
<1>8. notional \in Nat
  <2>1. o.price \in Nat
    BY <1>4
  <2>2. fill \in Nat
    BY <1>7
  <2> HIDE DEF fill
  <2> QED
    BY <2>1, <2>2
<1>9. fee \in 0 .. notional
  BY <1>8, FeeWithinQuote
<1>10. /\ o.locked_collateral = Backing(o.list, o.price, o.remaining_quantity)
       /\ o.locked_collateral \in Nat
  BY <1>1, <1>3 DEF ExactlyBacked, OrderRecord
<1>11. Backing(o.list, o.price, fill) \in 0 .. o.locked_collateral
  <2>1. o.price \in Nat
    BY <1>4
  <2> HIDE DEF fill
  <2>2. fill \in 0 .. o.remaining_quantity
    BY <1>7
  <2>3. /\ Backing(o.list, o.price, fill) \in Nat
        /\ Backing(o.list, o.price, o.remaining_quantity) =
               Backing(o.list, o.price, fill)
               + Backing(o.list, o.price, o.remaining_quantity - fill)
        /\ Backing(o.list, o.price, o.remaining_quantity - fill) \in Nat
    BY <1>4, <1>7, <2>1, <2>2, BackingSplits
  <2> QED
    BY <1>10, <2>3
<1> QED
  BY <1>3, <1>4, <1>5, <1>6, <1>7, <1>8, <1>9, <1>10, <1>11

\* A fill moves only what taker and maker can give.
LEMMA SettleType ==
    ASSUME TypeOK, NEW t \in Traders, NEW l \in Lists, NEW limit \in Prices,
           NEW q \in Quantities, NEW bps \in FeeRates, NEW i \in Ids,
           MatchPredictionOrder(t, l, limit, q, bps, i)
    PROVE  position' \in Claims
<1> DEFINE o        == order[i]
           owner    == o.owner
           c        == o.list[1]
           fill     == FillBase(q, o.remaining_quantity)
           notional == o.price * fill
           fee      == TakerFee(notional, bps)
<1>1. /\ o.price \in Prices /\ o.list \in Lists
      /\ c \in Contracts
      /\ (o.list[2] = "Ask") <=> (l[2] = "Bid")
      /\ owner \in Traders /\ owner # t
      /\ o.remaining_quantity \in Nat
      /\ fill \in 1 .. o.remaining_quantity
      /\ notional \in Nat
      /\ fee \in 0 .. notional
      /\ o.locked_collateral \in Nat
      /\ Backing(o.list, o.price, fill) \in 0 .. o.locked_collateral
  BY MatchParts
<1>2. position \in Claims /\ {c, "cash"} \subseteq Buckets /\ c # "cash"
  BY <1>1, TypeParts DEF Buckets, Contracts
<1>3. /\ position[t][c].free \in Nat /\ position[t]["cash"].free \in Nat
      /\ position[owner][c].free \in Nat /\ position[owner][c].locked \in Nat
      /\ position[owner]["cash"].free \in Nat /\ position[owner]["cash"].locked \in Nat
  BY <1>1, <1>2, ClaimParts
<1>4. IF l[2] = "Bid" THEN SettleBuy(t, o, fill, notional, fee)
                      ELSE SettleSell(t, o, fill, notional, fee)
  BY DEF MatchPredictionOrder
<1>5. CASE l[2] = "Bid"
  <2>1. /\ position[owner][c].locked >= o.locked_collateral
        /\ position[t]["cash"].free >= notional + fee
        /\ position' = Change(Change(Change(Change(position,
                           t, "cash", -(notional + fee), 0),
                           t, c, fill, 0),
                           owner, "cash", notional, 0),
                           owner, c, 0, -fill)
    BY <1>4, <1>5 DEF SettleBuy
  <2>2. fill <= o.locked_collateral /\ o.locked_collateral \in Nat
    BY <1>1, <1>5 DEF Backing
  <2> HIDE DEF owner, c, fill, notional, fee
  <2>3. /\ -(notional + fee) \in Int /\ fill \in Int /\ notional \in Int /\ -fill \in Int
        /\ position[t]["cash"].free + (-(notional + fee)) >= 0
        /\ position[t][c].free + fill >= 0
        /\ position[owner]["cash"].free + notional >= 0
        /\ position[owner]["cash"].locked + 0 >= 0
        /\ position[owner][c].free + 0 >= 0
        /\ position[owner][c].locked + (-fill) >= 0
    BY <1>1, <1>3, <2>1, <2>2
  <2> QED
    BY <1>1, <1>2, <2>1, <2>3, FourChangesType
<1>6. CASE l[2] # "Bid"
  <2>1. /\ position[owner]["cash"].locked >= o.locked_collateral
        /\ position[t][c].free >= fill
        /\ position' = Change(Change(Change(Change(position,
                           t, c, -fill, 0),
                           t, "cash", notional - fee, 0),
                           owner, "cash", 0, -notional),
                           owner, c, fill, 0)
    BY <1>4, <1>6 DEF SettleSell
  <2>2. notional <= o.locked_collateral /\ o.locked_collateral \in Nat
    <3>1. o.list[2] = "Bid"
      BY <1>1, <1>6 DEF Lists, Sides
    <3> QED
      BY <1>1, <3>1 DEF Backing
  <2> HIDE DEF owner, c, fill, notional, fee
  <2>3. /\ -fill \in Int /\ notional - fee \in Int /\ -notional \in Int /\ fill \in Int
        /\ position[t][c].free + (-fill) >= 0
        /\ position[t]["cash"].free + (notional - fee) >= 0
        /\ position[owner]["cash"].free + 0 >= 0
        /\ position[owner]["cash"].locked + (-notional) >= 0
        /\ position[owner][c].free + fill >= 0
        /\ position[owner][c].locked + 0 >= 0
    BY <1>1, <1>3, <2>1, <2>2
  <2> QED
    BY <1>1, <1>2, <2>1, <2>3, FourChangesType
<1> QED
  BY <1>5, <1>6

LEMMA MatchType ==
    ASSUME TypeOK, NEW t \in Traders, NEW l \in Lists, NEW limit \in Prices,
           NEW q \in Quantities, NEW bps \in FeeRates, NEW i \in Ids,
           MatchPredictionOrder(t, l, limit, q, bps, i)
    PROVE  TypeOK'
<1> DEFINE o        == order[i]
           fill     == FillBase(q, o.remaining_quantity)
           notional == o.price * fill
           fee      == TakerFee(notional, bps)
<1>1. /\ o.price \in Prices /\ o.list \in Lists
      /\ o.remaining_quantity \in Nat
      /\ fill \in 1 .. o.remaining_quantity
      /\ notional \in Nat
      /\ fee \in 0 .. notional
      /\ o.locked_collateral \in Nat
      /\ Backing(o.list, o.price, fill) \in 0 .. o.locked_collateral
  BY MatchParts
<1>2. LinksType /\ market \in MarketRecord /\ o \in OrderRecord
  BY TypeParts DEF LinksType
<1>3. position' \in Claims
  BY SettleType
<1>4. /\ fees' = fees + fee
      /\ UNCHANGED outside
      /\ FifoMaker(t, l, i)
      /\ \/ /\ fill = o.remaining_quantity
            /\ Promotes(i)
            /\ Unlink(i, "Filled")
         \/ /\ fill < o.remaining_quantity
            /\ order' = [order EXCEPT ![i].remaining_quantity = o.remaining_quantity - fill,
                                      ![i].locked_collateral = o.locked_collateral - Debit(o, fill)]
            /\ level' = [level EXCEPT
                   ![o.list][o.price].total_remaining_quantity =
                       level[o.list][o.price].total_remaining_quantity - fill]
            /\ UNCHANGED <<book, market>>
  BY DEF MatchPredictionOrder
<1>5. fees' \in Nat
  BY <1>1, <1>4 DEF TypeOK
<1>6. /\ OpenAt(i, o.list, o.price) /\ LiveLevel(o.list, o.price)
      /\ level[o.list][o.price].total_remaining_quantity >= o.remaining_quantity
      /\ level[o.list][o.price].order_count # 1 =>
             level[o.list][o.price].total_remaining_quantity > o.remaining_quantity
  <2>1. /\ OpenAt(i, Opposite(l), o.price) /\ LiveLevel(o.list, o.price)
        /\ IF level[o.list][o.price].order_count = 1
           THEN level[o.list][o.price].total_remaining_quantity = o.remaining_quantity
           ELSE level[o.list][o.price].total_remaining_quantity > o.remaining_quantity
    BY <1>4 DEF FifoMaker
  <2>2. level[o.list][o.price].total_remaining_quantity \in Nat
    <3>1. level[o.list] \in Levels
      BY <1>1, <1>2 DEF LinksType
    <3>2. level[o.list][o.price] \in LevelRecord
      BY <1>1, <3>1 DEF Levels
    <3> QED
      BY <3>2 DEF LevelRecord
  <2> QED
    BY <1>1, <2>1, <2>2 DEF OpenAt
<1> HIDE DEF fill, notional, fee
<1>7. /\ LinksType' /\ market' \in MarketRecord
      /\ market'.phase = market.phase /\ market'.final_outcome = market.final_outcome
  <2>1. CASE /\ fill = o.remaining_quantity
             /\ Promotes(i)
             /\ Unlink(i, "Filled")
    <3>1. Leavable(i)
      BY <1>6, <2>1 DEF Leavable, Promotes, OnlyOrderOfLevel
    <3>2. /\ LinksType'
          /\ market' = [market EXCEPT !.open_order_count = market.open_order_count - 1]
          /\ market.open_order_count - 1 \in Nat
      BY <2>1, <3>1, UnlinkType
    <3> QED
      BY <1>2, <3>2 DEF MarketRecord
  <2>2. CASE /\ fill < o.remaining_quantity
             /\ order' = [order EXCEPT ![i].remaining_quantity = o.remaining_quantity - fill,
                                       ![i].locked_collateral = o.locked_collateral - Debit(o, fill)]
             /\ level' = [level EXCEPT
                    ![o.list][o.price].total_remaining_quantity =
                        level[o.list][o.price].total_remaining_quantity - fill]
             /\ UNCHANGED <<book, market>>
    <3> DEFINE rest == o.remaining_quantity - fill
               lock == o.locked_collateral - Debit(o, fill)
               total == level[o.list][o.price].total_remaining_quantity - fill
    <3>1. rest \in Nat
      BY <1>1
    <3>2. lock \in Nat
      BY <1>1 DEF Debit
    <3>3. total \in Nat
      <4>1. level[o.list] \in Levels
        BY <1>1, <1>2 DEF LinksType
      <4>2. level[o.list][o.price] \in LevelRecord
        BY <1>1, <4>1 DEF Levels
      <4>3. level[o.list][o.price].total_remaining_quantity \in Nat
        BY <4>2 DEF LevelRecord
      <4> QED
        BY <1>1, <1>6, <4>3
    <3> HIDE DEF rest, lock, total
    <3>4. order' \in [Ids -> OrderRecord]
      <4>1. order' = [order EXCEPT ![i].remaining_quantity = rest, ![i].locked_collateral = lock]
        BY <2>2 DEF rest, lock
      <4>2. [o EXCEPT !.remaining_quantity = rest, !.locked_collateral = lock] \in OrderRecord
        BY <1>2, <3>1, <3>2 DEF OrderRecord
      <4>3. order' = [order EXCEPT ![i] = [o EXCEPT !.remaining_quantity = rest,
                                                    !.locked_collateral = lock]]
        BY <1>2, <4>1 DEF LinksType, OrderRecord
      <4> QED
        BY <1>2, <4>2, <4>3 DEF LinksType
    <3>5. level' \in [Lists -> Levels]
      <4>1. level' = [level EXCEPT ![o.list][o.price].total_remaining_quantity = total]
        BY <2>2 DEF total
      <4>2. \A x \in Lists : level[x] \in Levels
        BY <1>2 DEF LinksType
      <4>3. [level[o.list] EXCEPT ![o.price].total_remaining_quantity = total] \in Levels
        <5>1. level[o.list] \in [Prices -> LevelRecord] /\ o.price \in Prices /\ total \in Nat
          BY <1>1, <3>3, <4>2 DEF Levels
        <5> QED
          BY ONLY <5>1 DEF Levels, LevelRecord
      <4> QED
        BY <1>2, <4>1, <4>3 DEF LinksType
    <3> QED
      BY <1>2, <2>2, <3>4, <3>5 DEF LinksType
  <2> QED
    BY <1>4, <2>1, <2>2
<1> QED
  BY <1>3, <1>4, <1>5, <1>7 DEF TypeOK, LinksType, Levels, Claims
-----------------------------------------------------------------------------
(* Custody *)

\* One bucket of cash changes, and what else changes stays a natural.
LEMMA CashType ==
    ASSUME TypeOK, NEW t \in Traders, NEW amount \in Int,
           position[t]["cash"].free + amount >= 0
    PROVE  Change(position, t, "cash", amount, 0) \in Claims
<1>1. position \in Claims /\ "cash" \in Buckets
  BY TypeParts DEF Buckets
<1>2. position[t]["cash"].locked + 0 >= 0
  BY <1>1, ClaimParts
<1> QED
  BY <1>1, <1>2, ChangeType

LEMMA CustodyType ==
    ASSUME TypeOK, Custody
    PROVE  TypeOK'
<1>1. PICK t \in Traders : \/ InitializePosition(t)
                           \/ \E amount \in TransferAmounts :
                                  \/ DepositCollateral(t, amount)
                                  \/ WithdrawCollateral(t, amount)
                                  \/ MigratePredictionAsset(t, amount)
  BY DEF Custody
<1>2. /\ position[t]["cash"].free \in Nat
      /\ wallet[t] \in Nat /\ shared[t] \in Nat /\ vault \in Nat /\ asset_vault \in Nat
  BY TypeParts, ClaimParts DEF TypeOK, Buckets
<1>3. CASE InitializePosition(t)
  BY <1>3 DEF TypeOK, InitializePosition
<1>4. ASSUME NEW amount \in TransferAmounts, DepositCollateral(t, amount)
      PROVE  TypeOK'
  <2>1. position' \in Claims
    <3>1. amount \in Nat
      OBVIOUS
    <3>2. amount \in Int /\ position[t]["cash"].free + amount >= 0
      BY <1>2, <3>1
    <3> QED
      BY <1>4, <3>2, CashType DEF DepositCollateral
  <2>2. wallet' \in [Traders -> Nat] /\ vault' \in Nat
    BY <1>2, <1>4 DEF TypeOK, DepositCollateral
  <2>3. UNCHANGED <<market, orders, fees, positions, shared, asset_vault>>
    BY <1>4 DEF DepositCollateral
  <2> QED
    BY <2>1, <2>2, <2>3 DEF TypeOK, Claims
<1>5. ASSUME NEW amount \in TransferAmounts, WithdrawCollateral(t, amount)
      PROVE  TypeOK'
  <2>1. position[t]["cash"].free >= amount /\ vault >= amount
    BY <1>5 DEF WithdrawCollateral
  <2>2. position' \in Claims
    <3>1. amount \in Nat
      OBVIOUS
    <3>2. -amount \in Int /\ position[t]["cash"].free + (-amount) >= 0
      BY <1>2, <2>1, <3>1
    <3> QED
      BY <1>5, <3>2, CashType DEF WithdrawCollateral
  <2>3. wallet' \in [Traders -> Nat] /\ vault' \in Nat
    BY <1>2, <1>5, <2>1 DEF TypeOK, WithdrawCollateral
  <2>4. UNCHANGED <<market, orders, fees, positions, shared, asset_vault>>
    BY <1>5 DEF WithdrawCollateral
  <2> QED
    BY <2>2, <2>3, <2>4 DEF TypeOK, Claims
<1>6. ASSUME NEW amount \in TransferAmounts, MigratePredictionAsset(t, amount)
      PROVE  TypeOK'
  <2>1. position[t]["cash"].free >= amount /\ vault >= amount
    BY <1>6 DEF MigratePredictionAsset
  <2>2. position' \in Claims
    <3>1. amount \in Nat
      OBVIOUS
    <3>2. -amount \in Int /\ position[t]["cash"].free + (-amount) >= 0
      BY <1>2, <2>1, <3>1
    <3> QED
      BY <1>6, <3>2, CashType DEF MigratePredictionAsset
  <2>3. shared' \in [Traders -> Nat] /\ vault' \in Nat /\ asset_vault' \in Nat
    BY <1>2, <1>6, <2>1 DEF TypeOK, MigratePredictionAsset
  <2>4. UNCHANGED <<market, orders, fees, positions, wallet>>
    BY <1>6 DEF MigratePredictionAsset
  <2> QED
    BY <2>2, <2>3, <2>4 DEF TypeOK, Claims
<1> QED
  BY <1>1, <1>3, <1>4, <1>5, <1>6

-----------------------------------------------------------------------------
(* Complete sets and redemption *)

\* The question after an issue or a burn it can afford.
LEMMA ReserveType ==
    ASSUME market \in MarketRecord, NEW cash \in Int, NEW yes \in Int, NEW no \in Int,
           market.backing_reserve + cash >= 0, market.yes_supply + yes >= 0,
           market.no_supply + no >= 0, market' = Reserve(market, cash, yes, no)
    PROVE  /\ market' \in MarketRecord
           /\ market'.phase = market.phase /\ market'.final_outcome = market.final_outcome
           /\ market'.backing_reserve = market.backing_reserve + cash
           /\ market'.yes_supply = market.yes_supply + yes
           /\ market'.no_supply = market.no_supply + no
<1> DEFINE reserve    == market.backing_reserve + cash
           yes_supply == market.yes_supply + yes
           no_supply  == market.no_supply + no
<1>1. reserve \in Nat /\ yes_supply \in Nat /\ no_supply \in Nat
  BY DEF MarketRecord
<1>2. market' = [market EXCEPT !.yes_supply = yes_supply, !.no_supply = no_supply,
                               !.backing_reserve = reserve]
  BY DEF Reserve
<1> HIDE DEF reserve, yes_supply, no_supply
<1>3. /\ market' \in MarketRecord
      /\ market'.phase = market.phase /\ market'.final_outcome = market.final_outcome
      /\ market'.backing_reserve = reserve
      /\ market'.yes_supply = yes_supply /\ market'.no_supply = no_supply
  BY <1>1, <1>2 DEF MarketRecord
<1> QED
  BY <1>3 DEF reserve, yes_supply, no_supply

\* The naturals a complete set is checked against.
LEMMA SetParts ==
    ASSUME TypeOK, NEW t \in Traders
    PROVE  /\ position \in Claims /\ market \in MarketRecord
           /\ position[t]["cash"].free \in Nat /\ position[t]["Yes"].free \in Nat
           /\ position[t]["No"].free \in Nat
           /\ shared[t] \in Nat /\ vault \in Nat /\ asset_vault \in Nat
           /\ market.backing_reserve \in Nat
           /\ market.yes_supply \in Nat /\ market.no_supply \in Nat
<1>1. position \in Claims /\ market \in MarketRecord
  BY TypeParts
<1>2. {"cash", "Yes", "No"} \subseteq Buckets
  BY DEF Buckets, Contracts
<1>3. /\ position[t]["cash"].free \in Nat /\ position[t]["Yes"].free \in Nat
      /\ position[t]["No"].free \in Nat
  BY <1>1, <1>2, ClaimParts
<1>4. shared[t] \in Nat /\ vault \in Nat /\ asset_vault \in Nat
  BY DEF TypeOK
<1>5. /\ market.backing_reserve \in Nat
      /\ market.yes_supply \in Nat /\ market.no_supply \in Nat
  BY <1>1 DEF MarketRecord
<1> QED
  BY <1>1, <1>3, <1>4, <1>5

LEMMA SplitLegacyType ==
    ASSUME TypeOK, NEW t \in Traders, NEW q \in Quantities, SplitLegacy(t, q)
    PROVE  TypeOK'
<1> DEFINE cash == q * Payout
<1>1. cash \in Nat /\ q \in Nat
  OBVIOUS
<1>2. /\ position[t]["cash"].free >= cash
      /\ position' = Hold(Change(position, t, "cash", -cash, 0), t, q, q)
      /\ market' = Reserve(market, cash, q, q)
      /\ UNCHANGED <<orders, fees, outside>>
  BY DEF SplitLegacy
<1> HIDE DEF cash
<1>3. /\ -cash \in Int /\ position[t]["cash"].free + (-cash) >= 0
      /\ position[t]["Yes"].free + q >= 0 /\ position[t]["No"].free + q >= 0
  BY <1>1, <1>2, SetParts
<1>4. position' \in Claims
  BY <1>1, <1>2, <1>3, SetParts, HoldForCashType
<1>5. /\ market' \in MarketRecord
      /\ market'.phase = market.phase /\ market'.final_outcome = market.final_outcome
  BY <1>1, <1>2, SetParts, ReserveType
<1> QED
  BY <1>2, <1>4, <1>5 DEF TypeOK, Claims

LEMMA MergeLegacyType ==
    ASSUME TypeOK, NEW t \in Traders, NEW q \in Quantities, MergeLegacy(t, q)
    PROVE  TypeOK'
<1> DEFINE cash == q * Payout
<1>1. cash \in Nat /\ q \in Nat
  OBVIOUS
<1>2. /\ Burnable(t, cash, q, q)
      /\ position' = Hold(Change(position, t, "cash", cash, 0), t, -q, -q)
      /\ market' = Reserve(market, -cash, -q, -q)
      /\ UNCHANGED <<orders, fees, outside>>
  BY DEF MergeLegacy
<1> HIDE DEF cash
<1>3. /\ position[t]["Yes"].free >= q /\ position[t]["No"].free >= q
      /\ market.yes_supply >= q /\ market.no_supply >= q
      /\ market.backing_reserve >= cash
  BY <1>2 DEF Burnable
<1>4. /\ -cash \in Int /\ -q \in Int
      /\ position[t]["cash"].free + cash >= 0
      /\ position[t]["Yes"].free + (-q) >= 0 /\ position[t]["No"].free + (-q) >= 0
      /\ market.yes_supply + (-q) >= 0 /\ market.no_supply + (-q) >= 0
      /\ market.backing_reserve + (-cash) >= 0
  BY <1>1, <1>3, SetParts
<1>5. position' \in Claims
  BY <1>1, <1>2, <1>4, SetParts, HoldForCashType
<1>6. /\ market' \in MarketRecord
      /\ market'.phase = market.phase /\ market'.final_outcome = market.final_outcome
  BY <1>2, <1>4, SetParts, ReserveType
<1> QED
  BY <1>2, <1>5, <1>6 DEF TypeOK, Claims

LEMMA SplitSharedType ==
    ASSUME TypeOK, NEW t \in Traders, NEW q \in Quantities, SplitShared(t, q)
    PROVE  TypeOK'
<1> DEFINE cash == q * Payout
<1>1. cash \in Nat /\ q \in Nat
  OBVIOUS
<1>2. /\ asset_vault >= cash /\ shared[t] >= cash
      /\ shared' = [shared EXCEPT ![t] = shared[t] - cash]
      /\ asset_vault' = asset_vault - cash
      /\ vault' = vault + cash
      /\ position' = Hold(position, t, q, q)
      /\ market' = Reserve(market, cash, q, q)
      /\ UNCHANGED <<orders, fees, positions, wallet>>
  BY DEF SplitShared
<1> HIDE DEF cash
<1>3. /\ position[t]["Yes"].free + q >= 0 /\ position[t]["No"].free + q >= 0
  BY <1>1, SetParts
<1>4. position' \in Claims
  BY <1>1, <1>2, <1>3, SetParts, HoldType
<1>5. /\ market' \in MarketRecord
      /\ market'.phase = market.phase /\ market'.final_outcome = market.final_outcome
  BY <1>1, <1>2, SetParts, ReserveType, SMTT(20)
<1>6. shared' \in [Traders -> Nat] /\ vault' \in Nat /\ asset_vault' \in Nat
  <2>1. shared[t] - cash \in Nat
    BY <1>1, <1>2, SetParts
  <2> QED
    BY <1>1, <1>2, <2>1, SetParts DEF TypeOK
<1> QED
  BY <1>2, <1>4, <1>5, <1>6 DEF TypeOK, Claims

LEMMA PayOutType ==
    ASSUME TypeOK, NEW t \in Traders, NEW cash \in Nat, NEW yes \in Nat, NEW no \in Nat,
           PayOut(t, cash, yes, no)
    PROVE  TypeOK'
<1>1. /\ vault >= cash /\ Burnable(t, cash, yes, no)
      /\ shared' = [shared EXCEPT ![t] = shared[t] + cash]
      /\ asset_vault' = asset_vault + cash
      /\ vault' = vault - cash
      /\ position' = Hold(position, t, -yes, -no)
      /\ market' = Reserve(market, -cash, -yes, -no)
      /\ UNCHANGED <<orders, fees, positions, wallet>>
  BY DEF PayOut
<1>2. /\ position[t]["Yes"].free >= yes /\ position[t]["No"].free >= no
      /\ market.yes_supply >= yes /\ market.no_supply >= no
      /\ market.backing_reserve >= cash
  BY <1>1 DEF Burnable
<1>3. /\ -cash \in Int /\ -yes \in Int /\ -no \in Int
      /\ position[t]["Yes"].free + (-yes) >= 0 /\ position[t]["No"].free + (-no) >= 0
      /\ market.yes_supply + (-yes) >= 0 /\ market.no_supply + (-no) >= 0
      /\ market.backing_reserve + (-cash) >= 0
  BY <1>2, SetParts
<1>4. position' \in Claims
  BY <1>1, <1>3, SetParts, HoldType
<1>5. /\ market' \in MarketRecord
      /\ market'.phase = market.phase /\ market'.final_outcome = market.final_outcome
  BY <1>1, <1>3, SetParts, ReserveType
<1>6. shared' \in [Traders -> Nat] /\ vault' \in Nat /\ asset_vault' \in Nat
  BY <1>1, SetParts DEF TypeOK
<1> QED
  BY <1>1, <1>4, <1>5, <1>6 DEF TypeOK, Claims

\* What contracts are worth is a number of atoms.
LEMMA PayoutType ==
    ASSUME NEW final \in Outcomes, NEW yes \in Nat, NEW no \in Nat
    PROVE  PayoutOf(final, yes, no) \in Nat
<1>1. yes * Payout \in Nat /\ no * Payout \in Nat /\ Payout \div 2 \in Nat
  OBVIOUS
<1>2. (yes + no) * (Payout \div 2) \in Nat
  BY <1>1
<1> QED
  BY <1>1, <1>2 DEF PayoutOf, Outcomes

LEMMA RedeemType ==
    ASSUME TypeOK, NEW t \in Traders, NEW yes \in Quantities \cup {0},
           NEW no \in Quantities \cup {0}, Redeem(t, yes, no)
    PROVE  TypeOK'
<1>1. yes \in Nat /\ no \in Nat
  OBVIOUS
<1>2. market.final_outcome \in Outcomes
  BY DEF Redeem, TypeOK, MarketRecord
<1>3. PayoutOf(market.final_outcome, yes, no) \in Nat
  BY <1>1, <1>2, PayoutType
<1> QED
  BY <1>1, <1>3, PayOutType DEF Redeem

LEMMA CompleteSetsType ==
    ASSUME TypeOK, CompleteSets
    PROVE  TypeOK'
<1>1. PICK t \in Traders :
          \/ \E q \in Quantities : \/ SplitLegacy(t, q) \/ MergeLegacy(t, q)
                                   \/ SplitShared(t, q) \/ MergeShared(t, q)
          \/ \E yes, no \in Quantities \cup {0} : Redeem(t, yes, no)
  BY DEF CompleteSets
<1>2. ASSUME NEW q \in Quantities, MergeShared(t, q)
      PROVE  TypeOK'
  <2>1. q \in Nat /\ q * Payout \in Nat
    OBVIOUS
  <2>2. PayOut(t, q * Payout, q, q)
    BY <1>2 DEF MergeShared
  <2> QED
    BY <2>1, <2>2, PayOutType
<1> QED
  BY <1>1, <1>2, SplitLegacyType, MergeLegacyType, SplitSharedType, RedeemType

-----------------------------------------------------------------------------
(* The theorem *)

LEMMA LifecycleType ==
    ASSUME TypeOK, Lifecycle
    PROVE  TypeOK'
<1>1. PICK phase \in Phases, final \in Outcomes \cup {Undecided} :
          AdvanceMarket(phase, final)
  BY DEF Lifecycle
<1>2. (phase = "Resolved") <=> (final # Undecided)
  BY <1>1 DEF AdvanceMarket, CanMove, Outcomes, Undecided, TypeOK
<1>3. market' = [market EXCEPT !.phase = phase, !.final_outcome = final]
  BY <1>1 DEF AdvanceMarket
<1>4. market' \in MarketRecord /\ market'.phase = phase /\ market'.final_outcome = final
  BY <1>3 DEF TypeOK, MarketRecord
<1>5. UNCHANGED <<orders, fees, position, outside>>
  BY <1>1 DEF AdvanceMarket
<1> QED
  BY <1>2, <1>4, <1>5 DEF TypeOK

LEMMA PlaceType ==
    ASSUME TypeOK, PlaceOrder
    PROVE  TypeOK'
<1>1. PICK t \in Traders, l \in Tradable \X Sides, p \in Prices, q \in Quantities :
          \/ PlacePredictionOrder(t, l, p, q)
          \/ AppendPredictionOrder(t, l, p, q)
          \/ \E better, worse \in LevelHints :
                 InsertPredictionOrder(t, l, p, q, better, worse)
  BY DEF PlaceOrder
<1>2. book.next_order_id \in Ids
  BY DEF PlaceOrder
<1>3. l \in Lists /\ None \in LevelHints
  BY DEF Lists, LevelHints
<1>4. CASE PlacePredictionOrder(t, l, p, q)
  BY <1>2, <1>3, <1>4, NewLevelType DEF PlacePredictionOrder
<1>5. CASE AppendPredictionOrder(t, l, p, q)
  BY <1>2, <1>3, <1>5, AppendType
<1>6. ASSUME NEW better \in LevelHints, NEW worse \in LevelHints,
             InsertPredictionOrder(t, l, p, q, better, worse)
      PROVE  TypeOK'
  BY <1>2, <1>3, <1>6, NewLevelType DEF InsertPredictionOrder
<1> QED
  BY <1>1, <1>4, <1>5, <1>6

LEMMA InitType ==
    ASSUME Init
    PROVE  TypeOK
<1>1. market \in MarketRecord /\ market.phase # "Resolved" /\ market.final_outcome = Undecided
  BY DEF Init, MarketRecord, Phases
<1>2. AbsentOrder \in OrderRecord /\ AbsentLevel \in LevelRecord
  BY DEF AbsentOrder, OrderRecord, AbsentLevel, LevelRecord, OrderHints, LevelHints,
         Lists, Contracts, Sides
<1>3. order \in [Ids -> OrderRecord] /\ level \in [Lists -> [Prices -> LevelRecord]]
  BY <1>2 DEF Init
<1>4. book \in [next_order_id : Nat \ {0}, best : [Lists -> LevelHints]]
  BY DEF Init, LevelHints
<1>5. /\ fees \in Nat /\ positions \subseteq Traders
      /\ position \in [Traders -> [Buckets -> [free : Nat, locked : Nat]]]
      /\ wallet \in [Traders -> Nat] /\ vault \in Nat
      /\ shared \in [Traders -> Nat] /\ asset_vault \in Nat
  BY DEF Init
<1> QED
  BY <1>1, <1>3, <1>4, <1>5 DEF TypeOK

LEMMA NextType ==
    ASSUME TypeOK, [Next]_vars
    PROVE  TypeOK'
<1>1. CASE PlaceOrder
  BY <1>1, PlaceType
<1>2. CASE CancelOrder
  BY <1>2, CancelType DEF CancelOrder
<1>3. CASE MatchOrder
  BY <1>3, MatchType DEF MatchOrder
<1>4. CASE Custody
  BY <1>4, CustodyType
<1>5. CASE CompleteSets
  BY <1>5, CompleteSetsType
<1>6. CASE Lifecycle
  BY <1>6, LifecycleType
<1>7. CASE UNCHANGED vars
  BY <1>7 DEF vars, TypeOK
<1> QED
  BY <1>1, <1>2, <1>3, <1>4, <1>5, <1>6, <1>7 DEF Next

\* Type correctness (state/prediction.rs, state/prediction_book.rs): no bucket,
\* supply, reserve, vault, total or counter of a question goes below zero, and
\* every link names a price or an order of the book or nothing.
THEOREM TypeCorrect == Spec => []TypeOK
<1>1. Init => TypeOK
  BY InitType
<1>2. TypeOK /\ [Next]_vars => TypeOK'
  BY NextType
<1> QED
  BY <1>1, <1>2, PTL DEF Spec
-----------------------------------------------------------------------------
(* The reserve *)

\* What a quantity costs distributes over issues and burns.
LEMMA Distributes ==
    ASSUME NEW x \in Nat, NEW y \in Nat, NEW p \in Nat
    PROVE  /\ x * p + y * p = (x + y) * p
           /\ x * p + (-(y * p)) = (x + (-y)) * p
  OBVIOUS

\* Any outcome of a question with as many YES as NO contracts is worth a full
\* payout per pair: an invalid one pays half of an even payout to either side.
LEMMA PairWorth ==
    ASSUME NEW n \in Nat, NEW final \in Outcomes
    PROVE  PayoutOf(final, n, n) = n * Payout
<1> DEFINE half == Payout \div 2
<1>1. half \in Nat /\ 2 * half = Payout
  OBVIOUS
<1> HIDE DEF half
<1>2. (n + n) * half = n * (2 * half)
  BY <1>1
<1>3. (n + n) * half = n * Payout
  BY <1>1, <1>2
<1> QED
  BY <1>3 DEF PayoutOf, Outcomes, half

\* Paying a holder leaves exactly what the other contracts are worth.
LEMMA WorthSplits ==
    ASSUME NEW final \in Outcomes, NEW Y \in Nat, NEW N \in Nat,
           NEW y \in 0 .. Y, NEW n \in 0 .. N
    PROVE  PayoutOf(final, Y, N) + (-PayoutOf(final, y, n))
               = PayoutOf(final, Y + (-y), N + (-n))
<1> DEFINE P    == Payout
           half == Payout \div 2
<1>1. P \in Nat /\ half \in Nat
  OBVIOUS
<1> HIDE DEF P, half
<1>2. /\ Y * P + (-(y * P)) = (Y + (-y)) * P
      /\ N * P + (-(n * P)) = (N + (-n)) * P
      /\ (Y + N) * half + (-((y + n) * half)) = ((Y + (-y)) + (N + (-n))) * half
  BY <1>1
<1> QED
  BY <1>2 DEF PayoutOf, Outcomes, P, half

\* Orders and transfers leave the money of the question alone.
LEMMA ReserveKept ==
    ASSUME ReserveExact,
           market'.phase = market.phase, market'.final_outcome = market.final_outcome,
           market'.yes_supply = market.yes_supply, market'.no_supply = market.no_supply,
           market'.backing_reserve = market.backing_reserve
    PROVE  ReserveExact'
  BY DEF ReserveExact, PayoutOf

LEMMA TradingKeepsReserve ==
    ASSUME TypeOK, ReserveExact, PlaceOrder \/ CancelOrder \/ MatchOrder \/ Custody
    PROVE  ReserveExact'
<1> DEFINE Counted == \/ \E n \in Nat : market' = [market EXCEPT !.open_order_count = n]
                      \/ market' = market
<1>1. market \in MarketRecord /\ market.open_order_count \in Nat
  BY TypeParts DEF MarketRecord
<1>2. ASSUME PlaceOrder PROVE Counted
  <2>1. PICK t \in Traders, l \in Tradable \X Sides, p \in Prices, q \in Quantities :
            \/ PlacePredictionOrder(t, l, p, q)
            \/ AppendPredictionOrder(t, l, p, q)
            \/ \E better, worse \in LevelHints :
                   InsertPredictionOrder(t, l, p, q, better, worse)
    BY <1>2 DEF PlaceOrder
  <2>2. \E previous \in {None, level[l][p].last_order} :
            Placing(t, l, p, q, previous)
    BY <2>1 DEF PlacePredictionOrder, AppendPredictionOrder,
                InsertPredictionOrder, NewLevel
  <2>3. market' = [market EXCEPT !.open_order_count = market.open_order_count + 1]
    BY <2>2 DEF Placing
  <2>4. market.open_order_count + 1 \in Nat
    BY <1>1
  <2> QED
    BY <2>3, <2>4
<1>3. ASSUME CancelOrder PROVE Counted
  <2>1. PICK t \in Traders, i \in Ids : CancelPredictionOrder(t, i)
    BY <1>3 DEF CancelOrder
  <2>2. market' = [market EXCEPT !.open_order_count = market.open_order_count - 1]
    BY <2>1 DEF CancelPredictionOrder, Unlink
  <2>3. market.open_order_count >= 1
    BY <2>1 DEF CancelPredictionOrder, Linked
  <2>4. market.open_order_count - 1 \in Nat
    BY <1>1, <2>3
  <2> QED
    BY <2>2, <2>4
<1>4. ASSUME MatchOrder PROVE Counted
  <2>1. PICK i \in Ids, t \in Traders, l \in Lists, limit \in Prices, q \in Quantities,
             bps \in FeeRates : MatchPredictionOrder(t, l, limit, q, bps, i)
    BY <1>4 DEF MatchOrder
  <2>2. \/ Promotes(i) /\ Unlink(i, "Filled")
        \/ market' = market
    BY <2>1 DEF MatchPredictionOrder
  <2>3. CASE Promotes(i) /\ Unlink(i, "Filled")
    <3>1. market' = [market EXCEPT !.open_order_count = market.open_order_count - 1]
      BY <2>3 DEF Unlink
    <3>2. market.open_order_count - 1 \in Nat
      BY <1>1, <2>3 DEF Promotes
    <3> QED
      BY <3>1, <3>2
  <2> QED
    BY <2>2, <2>3
<1>5. ASSUME Custody PROVE Counted
  BY <1>5 DEF Custody, InitializePosition, DepositCollateral, WithdrawCollateral,
              MigratePredictionAsset
<1>6. Counted
  BY <1>2, <1>3, <1>4, <1>5
<1>7. /\ market'.phase = market.phase /\ market'.final_outcome = market.final_outcome
      /\ market'.yes_supply = market.yes_supply /\ market'.no_supply = market.no_supply
      /\ market'.backing_reserve = market.backing_reserve
  BY <1>1, <1>6 DEF MarketRecord
<1> QED
  BY <1>7, ReserveKept

\* A set is issued and burned at a payout per pair while the outcome is open.
LEMMA SetsKeepReserve ==
    ASSUME TypeOK, ReserveExact, NEW t \in Traders, NEW q \in Quantities,
           \/ SplitLegacy(t, q) \/ MergeLegacy(t, q)
           \/ SplitShared(t, q) \/ MergeShared(t, q)
    PROVE  ReserveExact'
<1> DEFINE n == market.yes_supply
<1>1. q \in Nat /\ q * Payout \in Nat
  OBVIOUS
<1>2. market.phase # "Resolved"
  BY DEF SplitLegacy, MergeLegacy, SplitShared, MergeShared, Open, Unwindable
<1>3. /\ market \in MarketRecord
      /\ n \in Nat /\ market.no_supply = n /\ market.backing_reserve = n * Payout
  BY <1>2, TypeParts DEF ReserveExact, MarketRecord
<1>4. n * Payout \in Nat
  BY <1>3
<1>5. CASE SplitLegacy(t, q) \/ SplitShared(t, q)
  <2>1. market' = Reserve(market, q * Payout, q, q)
    BY <1>5 DEF SplitLegacy, SplitShared
  <2>2. n * Payout + q * Payout = (n + q) * Payout
    BY <1>1, <1>3, Distributes
  <2>3. /\ q * Payout \in Int /\ n + q >= 0
        /\ n * Payout + q * Payout >= 0
    BY <1>1, <1>3, <1>4
  <2>4. /\ market'.phase = market.phase
        /\ market'.backing_reserve = n * Payout + q * Payout
        /\ market'.yes_supply = n + q /\ market'.no_supply = n + q
    BY <1>1, <1>3, <2>1, <2>3, ReserveType
  <2> QED
    BY <1>2, <2>2, <2>4 DEF ReserveExact
<1>6. CASE MergeLegacy(t, q) \/ MergeShared(t, q)
  <2>1. /\ market' = Reserve(market, -(q * Payout), -q, -q)
        /\ market.yes_supply >= q /\ market.backing_reserve >= q * Payout
    BY <1>6 DEF MergeLegacy, MergeShared, PayOut, Burnable
  <2>2. n * Payout + (-(q * Payout)) = (n + (-q)) * Payout
    BY <1>1, <1>3, Distributes
  <2>3. /\ -(q * Payout) \in Int /\ -q \in Int /\ n + (-q) >= 0
        /\ n * Payout + (-(q * Payout)) >= 0
    BY <1>1, <1>3, <1>4, <2>1
  <2>4. /\ market'.phase = market.phase
        /\ market'.backing_reserve = n * Payout + (-(q * Payout))
        /\ market'.yes_supply = n + (-q) /\ market'.no_supply = n + (-q)
    BY <1>3, <2>1, <2>3, ReserveType
  <2> QED
    BY <1>2, <2>2, <2>4 DEF ReserveExact
<1> QED
  BY <1>5, <1>6

\* A redemption takes out exactly what its contracts are worth.
LEMMA RedeemKeepsReserve ==
    ASSUME TypeOK, ReserveExact, NEW t \in Traders, NEW yes \in Quantities \cup {0},
           NEW no \in Quantities \cup {0}, Redeem(t, yes, no)
    PROVE  ReserveExact'
<1> DEFINE final == market.final_outcome
           Y     == market.yes_supply
           N     == market.no_supply
           cash  == PayoutOf(final, yes, no)
<1>1. yes \in Nat /\ no \in Nat
  OBVIOUS
<1>2. market.phase = "Resolved" /\ PayOut(t, cash, yes, no)
  BY DEF Redeem
<1>3. /\ market \in MarketRecord /\ final \in Outcomes
      /\ Y \in Nat /\ N \in Nat /\ market.backing_reserve \in Nat
  BY <1>2 DEF TypeOK, MarketRecord
<1>4. /\ market' = Reserve(market, -cash, -yes, -no)
      /\ Y >= yes /\ N >= no /\ market.backing_reserve >= cash
  BY <1>2 DEF PayOut, Burnable
<1>5. cash \in Nat
  BY <1>1, <1>3, PayoutType
<1>6. market.backing_reserve = PayoutOf(final, Y, N)
  BY <1>2 DEF ReserveExact
<1>7. yes \in 0 .. Y /\ no \in 0 .. N
  BY <1>1, <1>3, <1>4
<1>8. PayoutOf(final, Y, N) + (-cash) = PayoutOf(final, Y + (-yes), N + (-no))
  BY <1>3, <1>7, WorthSplits
<1> HIDE DEF cash
<1>9. /\ -cash \in Int /\ -yes \in Int /\ -no \in Int
      /\ market.backing_reserve + (-cash) >= 0
      /\ Y + (-yes) >= 0 /\ N + (-no) >= 0
  BY <1>1, <1>3, <1>4, <1>5
<1>10. /\ market'.phase = market.phase /\ market'.final_outcome = final
       /\ market'.backing_reserve = market.backing_reserve + (-cash)
       /\ market'.yes_supply = Y + (-yes) /\ market'.no_supply = N + (-no)
  BY <1>3, <1>4, <1>9, ReserveType
<1>11. market'.backing_reserve =
           PayoutOf(market'.final_outcome, market'.yes_supply, market'.no_supply)
  BY <1>6, <1>8, <1>10
<1> QED
  BY <1>2, <1>10, <1>11 DEF ReserveExact, PayoutOf

\* The moment of resolution: equal supplies are worth a payout per pair.
LEMMA ResolutionKeepsReserve ==
    ASSUME TypeOK, ReserveExact, Lifecycle
    PROVE  ReserveExact'
<1>1. PICK phase \in Phases, final \in Outcomes \cup {Undecided} :
          AdvanceMarket(phase, final)
  BY DEF Lifecycle
<1>2. /\ market \in MarketRecord /\ market.yes_supply \in Nat
      /\ market' = [market EXCEPT !.phase = phase, !.final_outcome = final]
  BY <1>1, TypeParts DEF AdvanceMarket, MarketRecord
<1>3. /\ market'.phase = phase /\ market'.final_outcome = final
      /\ market'.yes_supply = market.yes_supply /\ market'.no_supply = market.no_supply
      /\ market'.backing_reserve = market.backing_reserve
  BY <1>2 DEF MarketRecord
<1>4. market.phase # "Resolved" /\ (phase = "Resolved" => final \in Outcomes)
  BY <1>1 DEF AdvanceMarket, CanMove, Outcomes, Undecided, TypeOK
<1>5. /\ market.no_supply = market.yes_supply
      /\ market.backing_reserve = market.yes_supply * Payout
  BY <1>4 DEF ReserveExact
<1>6. phase = "Resolved" =>
          PayoutOf(final, market.yes_supply, market.yes_supply) = market.yes_supply * Payout
  BY <1>2, <1>4, PairWorth
<1>7. phase = "Resolved" =>
          market'.backing_reserve =
              PayoutOf(market'.final_outcome, market'.yes_supply, market'.no_supply)
  BY <1>3, <1>5, <1>6
<1> QED
  BY <1>3, <1>5, <1>7 DEF ReserveExact, PayoutOf

\* The reserve of a question (shared_prediction.rs, prediction_complete_set.rs):
\* before resolution it is a payout per outstanding pair, after it what the
\* contracts still out are worth, so every holder can be paid in full, whether
\* the sets were made and redeemed through a position or the shared wallet.
THEOREM ReserveStaysExact == Spec => []ReserveExact
<1>1. Init => ReserveExact
  BY DEF Init, ReserveExact
<1>2. ASSUME TypeOK, ReserveExact, [Next]_vars
      PROVE  ReserveExact'
  <2>1. CASE PlaceOrder \/ CancelOrder \/ MatchOrder \/ Custody
    BY <1>2, <2>1, TradingKeepsReserve
  <2>2. CASE CompleteSets
    BY <1>2, <2>2, SetsKeepReserve, RedeemKeepsReserve DEF CompleteSets
  <2>3. CASE Lifecycle
    BY <1>2, <2>3, ResolutionKeepsReserve
  <2>4. CASE UNCHANGED vars
    BY <1>2, <2>4, ReserveKept DEF vars
  <2> QED
    BY <1>2, <2>1, <2>2, <2>3, <2>4 DEF Next
<1> QED
  BY <1>1, <1>2, TypeCorrect, PTL DEF Spec
-----------------------------------------------------------------------------
(* What open orders hold *)

\* An order that keeps its terms, its remainder and its lock stays backed.
LEMMA BackingKept ==
    ASSUME OrdersBacked, NEW i \in Ids, order'[i].status = "Open",
           order[i].status = "Open", order'[i].list = order[i].list,
           order'[i].price = order[i].price,
           order'[i].remaining_quantity = order[i].remaining_quantity,
           order'[i].locked_collateral = order[i].locked_collateral
    PROVE  ExactlyBacked(i)'
  BY DEF OrdersBacked, OpenOrders, ExactlyBacked, Backing

LEMMA PlacingKeepsBacked ==
    ASSUME TypeOK, OrdersBacked, NEW t \in Traders, NEW l \in Lists, NEW p \in Prices,
           NEW q \in Quantities, NEW previous, Placing(t, l, p, q, previous)
    PROVE  OrdersBacked'
<1> DEFINE id  == book.next_order_id
           new == [owner |-> t, list |-> l, price |-> p,
                   previous_order |-> previous, next_order |-> None,
                   quantity |-> q, remaining_quantity |-> q,
                   locked_collateral |-> Backing(l, p, q), status |-> "Open"]
<1>1. order' = [j \in Ids |-> IF j = id THEN new
                              ELSE IF j = previous THEN [order[j] EXCEPT !.next_order = id]
                              ELSE order[j]]
  BY DEF Placing
<1>2. \A j \in Ids : order[j] \in OrderRecord
  BY TypeParts DEF LinksType
<1>3. ASSUME NEW i \in Ids, order'[i].status = "Open" PROVE ExactlyBacked(i)'
  <2>1. CASE i = id
    BY <1>1, <2>1 DEF ExactlyBacked, Backing
  <2>2. CASE i # id
    <3>1. /\ order'[i].status = order[i].status /\ order'[i].list = order[i].list
          /\ order'[i].price = order[i].price
          /\ order'[i].remaining_quantity = order[i].remaining_quantity
          /\ order'[i].locked_collateral = order[i].locked_collateral
      BY <1>1, <1>2, <2>2 DEF OrderRecord
    <3> QED
      BY <1>3, <3>1, BackingKept
  <2> QED
    BY <2>1, <2>2
<1> QED
  BY <1>3 DEF OrdersBacked, OpenOrders

LEMMA UnlinkKeepsBacked ==
    ASSUME TypeOK, OrdersBacked, NEW i \in Ids, NEW status \in {"Filled", "Canceled"},
           Unlink(i, status)
    PROVE  OrdersBacked'
<1>1. order' = OrdersWithout(i, status)
  BY DEF Unlink
<1>2. \A j \in Ids : order[j] \in OrderRecord
  BY TypeParts DEF LinksType
<1>3. ASSUME NEW j \in Ids, order'[j].status = "Open" PROVE ExactlyBacked(j)'
  <2>1. j # i
    BY <1>1, <1>2, <1>3 DEF OrdersWithout, OrderRecord
  <2>2. /\ order'[j].status = order[j].status /\ order'[j].list = order[j].list
        /\ order'[j].price = order[j].price
        /\ order'[j].remaining_quantity = order[j].remaining_quantity
        /\ order'[j].locked_collateral = order[j].locked_collateral
    BY <1>1, <1>2, <2>1 DEF OrdersWithout, OrderRecord
  <2> QED
    BY <1>3, <2>2, BackingKept
<1> QED
  BY <1>3 DEF OrdersBacked, OpenOrders

LEMMA MatchKeepsBacked ==
    ASSUME TypeOK, OrdersBacked, NEW t \in Traders, NEW l \in Lists, NEW limit \in Prices,
           NEW q \in Quantities, NEW bps \in FeeRates, NEW i \in Ids,
           MatchPredictionOrder(t, l, limit, q, bps, i)
    PROVE  OrdersBacked'
<1> DEFINE o    == order[i]
           fill == FillBase(q, o.remaining_quantity)
<1>1. /\ o.price \in Prices /\ o.list \in Lists
      /\ o.remaining_quantity \in Nat
      /\ fill \in 1 .. o.remaining_quantity
      /\ o.locked_collateral = Backing(o.list, o.price, o.remaining_quantity)
  BY MatchParts
<1>2. \/ Unlink(i, "Filled")
      \/ order' = [order EXCEPT ![i].remaining_quantity = o.remaining_quantity - fill,
                                ![i].locked_collateral = o.locked_collateral - Debit(o, fill)]
  BY DEF MatchPredictionOrder
<1>3. \A j \in Ids : order[j] \in OrderRecord
  BY TypeParts DEF LinksType
<1> DEFINE rest == o.remaining_quantity - fill
           lock == o.locked_collateral - Debit(o, fill)
<1>4. lock = Backing(o.list, o.price, rest)
  <2>1. o.price \in Nat
    BY <1>1
  <2> HIDE DEF fill
  <2>2. fill \in 0 .. o.remaining_quantity
    BY <1>1
  <2>3. /\ Backing(o.list, o.price, fill) \in Nat
        /\ Backing(o.list, o.price, o.remaining_quantity) =
               Backing(o.list, o.price, fill)
               + Backing(o.list, o.price, o.remaining_quantity - fill)
        /\ Backing(o.list, o.price, o.remaining_quantity - fill) \in Nat
    BY <1>1, <2>1, <2>2, BackingSplits
  <2> QED
    BY <1>1, <2>3 DEF Debit
<1> HIDE DEF fill, rest, lock
<1>5. CASE order' = [order EXCEPT ![i].remaining_quantity = rest, ![i].locked_collateral = lock]
  <2>1. ASSUME NEW j \in Ids, order'[j].status = "Open" PROVE ExactlyBacked(j)'
    <3>1. CASE j = i
      <4>1. /\ order'[i].list = o.list /\ order'[i].price = o.price
            /\ order'[i].remaining_quantity = rest /\ order'[i].locked_collateral = lock
        BY <1>3, <1>5 DEF OrderRecord, LinksType, TypeOK
      <4> QED
        BY <1>4, <3>1, <4>1 DEF ExactlyBacked, Backing
    <3>2. CASE j # i
      <4>1. order'[j] = order[j]
        BY <1>5, <3>2 DEF TypeOK
      <4> QED
        BY <2>1, <4>1, BackingKept
    <3> QED
      BY <3>1, <3>2
  <2> QED
    BY <2>1 DEF OrdersBacked, OpenOrders
<1>6. CASE Unlink(i, "Filled")
  BY <1>6, UnlinkKeepsBacked
<1> QED
  BY <1>2, <1>5, <1>6 DEF rest, lock

\* The lock of a prediction order (match_prediction_order.rs, the debit of a
\* partial fill; cancel_prediction_order.rs, expected_lock): after any sequence of
\* fills it is exactly what the remainder needs, so that no exact-backing check
\* ever refuses the owner or the next taker.
THEOREM OrdersStayBacked == Spec => []OrdersBacked
<1>1. Init => OrdersBacked
  BY DEF Init, OrdersBacked, OpenOrders, AbsentOrder
<1>2. ASSUME TypeOK, OrdersBacked, [Next]_vars
      PROVE  OrdersBacked'
  <2>1. ASSUME order' = order PROVE OrdersBacked'
    BY <1>2, <2>1 DEF OrdersBacked, OpenOrders, ExactlyBacked, Backing
  <2>2. CASE PlaceOrder
    <3>1. PICK t \in Traders, l \in Tradable \X Sides, p \in Prices, q \in Quantities :
              \/ PlacePredictionOrder(t, l, p, q)
              \/ AppendPredictionOrder(t, l, p, q)
              \/ \E better, worse \in LevelHints :
                     InsertPredictionOrder(t, l, p, q, better, worse)
      BY <2>2 DEF PlaceOrder
    <3>2. \E previous \in {None, level[l][p].last_order} : Placing(t, l, p, q, previous)
      BY <3>1 DEF PlacePredictionOrder, AppendPredictionOrder, InsertPredictionOrder, NewLevel
    <3>3. l \in Lists
      BY DEF Lists
    <3> QED
      BY <1>2, <3>2, <3>3, PlacingKeepsBacked
  <2>3. CASE CancelOrder
    BY <1>2, <2>3, UnlinkKeepsBacked DEF CancelOrder, CancelPredictionOrder
  <2>4. CASE MatchOrder
    BY <1>2, <2>4, MatchKeepsBacked DEF MatchOrder
  <2>5. CASE Custody
    BY <2>1, <2>5 DEF Custody, InitializePosition, DepositCollateral, WithdrawCollateral,
                      MigratePredictionAsset
  <2>6. CASE CompleteSets
    BY <2>1, <2>6 DEF CompleteSets, SplitLegacy, MergeLegacy, SplitShared, MergeShared,
                      Redeem, PayOut
  <2>7. CASE Lifecycle
    BY <2>1, <2>7 DEF Lifecycle, AdvanceMarket
  <2>8. CASE UNCHANGED vars
    BY <2>1, <2>8 DEF vars
  <2> QED
    BY <1>2, <2>2, <2>3, <2>4, <2>5, <2>6, <2>7, <2>8 DEF Next
<1> QED
  BY <1>1, <1>2, TypeCorrect, PTL DEF Spec

-----------------------------------------------------------------------------
(* The links of the book *)

SideOf == [l \in Lists |-> l[2]]

\* The accounts of the book: its orders, its levels and its best prices.
BookIndex == IndexOf("list", order, level, book.best)

\* Each of the four lists is linked as its prices rank, every queue as its ids.
LinksInv == IndexIs(Lists, SideOf, BookIndex)

\* An open order rests at a price of the book under an id already given away and
\* has something left of what it was placed for.
OrdersResting ==
    \A i \in OpenOrders : /\ i < book.next_order_id
                          /\ order[i].price \in Prices /\ order[i].owner \in positions
                          /\ order[i].remaining_quantity \in 1 .. order[i].quantity

\* Whatever they say, they are accounts of the right form.
LEMMA BookAccounts ==
    ASSUME TypeOK
    PROVE  Accounts(Lists, SideOf, "list", order, level, book.best)
<1>1. /\ order \in [Ids -> OrderRecord] /\ level \in [Lists -> [Prices -> LevelRecord]]
      /\ DOMAIN book.best = Lists
  BY DEF TypeOK
<1>2. OrderAccounts("list", order)
  <2>1. Ids \subseteq Nat \ {0}
    BY DEF Ids
  <2>2. \A o \in OrderRecord : OrderFields \cup {"list"} \subseteq DOMAIN o
    BY DEF OrderRecord, OrderFields
  <2> QED
    BY <1>1, <2>1, <2>2 DEF OrderAccounts
<1>3. ASSUME NEW l \in Lists
      PROVE  /\ SideOf[l] \in Sides
             /\ LevelAccounts(level[l]) /\ DOMAIN level[l] \subseteq Nat \ {0}
  <2>1. SideOf[l] \in Sides
    BY DEF SideOf, Lists
  <2>2. \A lv \in LevelRecord : LevelFields \subseteq DOMAIN lv
    BY DEF LevelRecord, LevelFields
  <2>3. level[l] \in [Prices -> LevelRecord]
    BY <1>1
  <2>4. LevelAccounts(level[l]) /\ DOMAIN level[l] = Prices
    BY <2>2, <2>3 DEF LevelAccounts
  <2> QED
    BY <2>1, <2>4
<1> QED
  BY <1>1, <1>2, <1>3 DEF Accounts

\* ... and a book they form.
LEMMA BookLinked ==
    ASSUME TypeOK, LinksInv
    PROVE  BookIs(Lists, SideOf, "list", order, level, book.best)
  BY BookAccounts DEF BookIs, LinksInv, BookIndex

\* What a placement is: an order behind the last one of a level that exists, or
\* the only one of a level that fits between its neighbours.
Placement(t, l, p, q) ==
    \/ AppendPredictionOrder(t, l, p, q)
    \/ \E better, worse \in LevelHints :
           /\ NewLevel(t, l, p, q, better, worse)
           /\ FitsLevel(PricesIn(level[l]), l[2], level[l], Best(l), p, better, worse)

LEMMA Placements ==
    ASSUME TypeOK, PlaceOrder
    PROVE  /\ book.next_order_id \in Ids
           /\ \E t \in Traders, l \in Lists, p \in Prices, q \in Quantities :
                  Placement(t, l, p, q)
<1>1. PICK t \in Traders, l \in Tradable \X Sides, p \in Prices, q \in Quantities :
          \/ PlacePredictionOrder(t, l, p, q)
          \/ AppendPredictionOrder(t, l, p, q)
          \/ \E better, worse \in LevelHints :
                 InsertPredictionOrder(t, l, p, q, better, worse)
  BY DEF PlaceOrder
<1>2. l \in Lists /\ 0 \in LevelHints /\ DOMAIN level[l] = Prices
  BY DEF Lists, LevelHints, TypeOK
<1>3. ASSUME PlacePredictionOrder(t, l, p, q) PROVE Placement(t, l, p, q)
  BY <1>2, <1>3 DEF PlacePredictionOrder, Placement, FitsLevel
<1>4. ASSUME NEW better \in LevelHints, NEW worse \in LevelHints,
             InsertPredictionOrder(t, l, p, q, better, worse)
      PROVE  Placement(t, l, p, q)
  <2>1. NewLevel(t, l, p, q, better, worse) /\ Adjacent(l, p, better, worse)
    BY <1>4 DEF InsertPredictionOrder
  <2>2. FitsLevel(PricesIn(level[l]), l[2], level[l], Best(l), p, better, worse)
    BY <1>2, <2>1 DEF Adjacent, LiveLevel, HeadConsistent, HeadMarked, FitsLevel, PricesIn
  <2> QED
    BY <2>1, <2>2 DEF Placement
<1> QED
  BY <1>1, <1>2, <1>3, <1>4 DEF PlaceOrder, Placement

\* The new order, and the accounts behind and in front of it.
LEMMA PlacingFits ==
    ASSUME TypeOK, OrdersResting, book.next_order_id \in Ids,
           order[book.next_order_id].status # "Open",
           NEW t \in Traders, NEW l \in Lists, NEW p \in Prices, NEW q \in Quantities,
           NEW previous, Placing(t, l, p, q, previous)
    PROVE  \E new : /\ order' = Placed(order, book.next_order_id, new, previous)
                    /\ FitsQueue("list", order, l, p, book.next_order_id, new, previous, q)
<1> DEFINE id  == book.next_order_id
           new == [owner |-> t, list |-> l, price |-> p,
                   previous_order |-> previous, next_order |-> None,
                   quantity |-> q, remaining_quantity |-> q,
                   locked_collateral |-> Backing(l, p, q), status |-> "Open"]
<1>1. DOMAIN order = Ids
  BY DEF TypeOK
<1>2. order' = Placed(order, id, new, previous)
  BY <1>1 DEF Placing, Placed
<1>3. \A i \in Ids : order[i].status = "Open" => i < id
  BY DEF OrdersResting, OpenOrders
<1>4. /\ new.status = "Open" /\ new["list"] = l /\ new.price = p
      /\ new.previous_order = previous /\ new.next_order = 0
      /\ new.remaining_quantity = q /\ q \in Nat
  OBVIOUS
<1>5. FitsQueue("list", order, l, p, id, new, previous, q)
  <2> HIDE DEF new
  <2> QED
    BY <1>1, <1>3, <1>4 DEF FitsQueue
<1> QED
  BY <1>2, <1>5

\* A placement keeps the links.
LEMMA PlaceLinks ==
    ASSUME TypeOK, LinksInv, OrdersResting, book.next_order_id \in Ids,
           NEW t \in Traders, NEW l \in Lists, NEW p \in Prices, NEW q \in Quantities,
           Placement(t, l, p, q)
    PROVE  LinksInv'
<1> DEFINE levels == level[l]
           lv     == levels[p]
           best   == book.best
           id     == book.next_order_id
<1>1. BookIs(Lists, SideOf, "list", order, level, best)
  BY BookLinked
<1>2. /\ SideOf[l] = l[2] /\ q \in Nat /\ best[l] = Best(l)
      /\ book \in [next_order_id : Nat \ {0}, best : [Lists -> LevelHints]]
      /\ DOMAIN levels = Prices /\ level \in [Lists -> [Prices -> LevelRecord]]
      /\ lv \in LevelRecord
  BY DEF TypeOK, SideOf, Best
<1>3. order[id].status # "Open"
  <2>1. id \in Int /\ (order[id].status = "Open" => id < id)
    BY <1>2 DEF OrdersResting, OpenOrders
  <2> HIDE DEF id
  <2> QED
    BY <2>1
<1>4. CASE AppendPredictionOrder(t, l, p, q)
  <2> DEFINE lv2     == [lv EXCEPT !.last_order = id,
                                   !.total_remaining_quantity = @ + q,
                                   !.order_count = @ + 1]
             levels2 == [levels EXCEPT ![p] = lv2]
  <2>1. /\ Placing(t, l, p, q, lv.last_order) /\ lv.order_count > 0 /\ lv.last_order # 0
        /\ level' = [level EXCEPT ![l] = levels2]
        /\ book' = [book EXCEPT !.next_order_id = @ + 1]
    BY <1>2, <1>4 DEF AppendPredictionOrder, LiveLevel
  <2>2. /\ Gains(lv, lv2, id, q) /\ lv.order_count # 0
        /\ lv2.better_price = lv.better_price /\ lv2.worse_price = lv.worse_price
    BY <1>2, <2>1 DEF Gains, LevelRecord
  <2>3. book'.best = [best EXCEPT ![l] = best[l]]
    BY <1>2, <2>1
  <2>4. PICK new : /\ order' = Placed(order, id, new, lv.last_order)
                   /\ FitsQueue("list", order, l, p, id, new, lv.last_order, q)
    BY <1>3, <2>1, PlacingFits
  <2>5. p \in DOMAIN level[l]
    BY <1>2
  <2> HIDE DEF lv2, id, best
  <2>6. IndexIs(Lists, SideOf,
                IndexOf("list", Placed(order, id, new, lv.last_order),
                        [level EXCEPT ![l] = [level[l] EXCEPT ![p] = lv2]],
                        [best EXCEPT ![l] = best[l]]))
    BY <1>1, <2>2, <2>4, <2>5, OrderAppended
  <2> QED
    BY <2>1, <2>3, <2>4, <2>6 DEF LinksInv, BookIndex
<1>5. ASSUME NEW better \in LevelHints, NEW worse \in LevelHints,
             NewLevel(t, l, p, q, better, worse),
             FitsLevel(PricesIn(level[l]), l[2], level[l], Best(l), p, better, worse)
      PROVE  LinksInv'
  <2> DEFINE lv2     == [better_price |-> better, worse_price |-> worse,
                         first_order |-> id, last_order |-> id,
                         total_remaining_quantity |-> q, order_count |-> 1]
             levels2 == Inserted(levels, p, lv2, better, worse)
             best2   == IF better = 0 THEN p ELSE best[l]
  <2>1. /\ Placing(t, l, p, q, 0) /\ lv.order_count = 0
        /\ level' = [level EXCEPT ![l] = levels2]
        /\ book' = [book EXCEPT !.next_order_id = @ + 1,
                                !.best[l] = IF better = 0 THEN p ELSE @]
    BY <1>2, <1>5 DEF NewLevel, Inserted
  <2>2. LevelOf(lv2, id, q, better, worse)
    BY DEF LevelOf
  <2>3. book'.best = [best EXCEPT ![l] = best2]
    BY <1>2, <2>1
  <2>4. PICK new : /\ order' = Placed(order, id, new, 0)
                   /\ FitsQueue("list", order, l, p, id, new, 0, q)
    BY <1>3, <2>1, PlacingFits
  <2>5. /\ p \in DOMAIN level[l] /\ level[l][p].order_count = 0
        /\ FitsLevel(PricesIn(level[l]), SideOf[l], level[l], best[l], p, better, worse)
    BY <1>2, <1>5, <2>1
  <2> HIDE DEF lv2, id, best
  <2>6. IndexIs(Lists, SideOf,
                IndexOf("list", Placed(order, id, new, 0),
                        [level EXCEPT ![l] = Inserted(level[l], p, lv2, better, worse)],
                        [best EXCEPT ![l] = IF better = 0 THEN p ELSE best[l]]))
    BY ONLY <1>1, l \in Lists, <2>2, <2>4, <2>5, LevelInserted
  <2> QED
    BY <2>1, <2>3, <2>4, <2>6 DEF LinksInv, BookIndex
<1> QED
  BY <1>4, <1>5 DEF Placement

\* What leaves is open and rests at a level of the book.
LEMMA UnlinkLinks ==
    ASSUME TypeOK, LinksInv, NEW i \in Ids, Leavable(i),
           NEW status \in {"Filled", "Canceled"}, Unlink(i, status)
    PROVE  LinksInv'
<1> DEFINE o      == order[i]
           l      == o.list
           p      == o.price
           levels == level[l]
           lv     == levels[p]
           best   == book.best
           final  == [o EXCEPT !.remaining_quantity = 0, !.locked_collateral = 0,
                               !.previous_order = 0, !.next_order = 0, !.status = status]
           best2  == IF lv.order_count = 1 /\ lv.better_price = 0 THEN lv.worse_price ELSE best[l]
<1>1. /\ o \in OrderRecord /\ o.status = "Open" /\ l \in Lists /\ p \in Prices
      /\ DOMAIN order = Ids /\ DOMAIN levels = Prices
      /\ book \in [next_order_id : Nat \ {0}, best : [Lists -> LevelHints]]
  BY DEF TypeOK, Leavable, OpenAt, LiveLevel, OrderRecord
<1>2. final.status # "Open" /\ Absent(AbsentLevel)
  BY <1>1 DEF OrderRecord, Absent, AbsentLevel
<1>3. order' = Unlinked(order, i, final)
  BY <1>1 DEF Unlink, OrdersWithout, Unlinked
<1>4. level' = [level EXCEPT ![l] = Without(levels, p, o, AbsentLevel)]
  BY <1>1 DEF Unlink, LevelsWithout, Without, OnlyOrderOfLevel
<1>5. book'.best = [best EXCEPT ![l] = best2]
  BY <1>1 DEF Unlink, BookWithout, OnlyOrderOfLevel
<1>6. BookIs(Lists, SideOf, "list", order, level, best)
  BY BookLinked
<1>7. /\ i \in DOMAIN order /\ order[i].status = "Open" /\ l \in Lists
      /\ l = order[i]["list"] /\ p \in DOMAIN level[l] /\ p = order[i].price
  BY <1>1
<1> HIDE DEF final, l, p, best
<1>8. IndexIs(Lists, SideOf,
              IndexOf("list", Unlinked(order, i, final),
                      [level EXCEPT ![l] = Without(level[l], p, order[i], AbsentLevel)],
                      [best EXCEPT ![l] = IF /\ level[l][p].order_count = 1
                                             /\ level[l][p].better_price = 0
                                          THEN level[l][p].worse_price ELSE best[l]]))
  BY ONLY <1>2, <1>6, <1>7, OrderTaken
<1> QED
  BY <1>3, <1>4, <1>5, <1>8 DEF LinksInv, BookIndex

\* A fill leaves the order or takes it out of the book.
LEMMA MatchLinks ==
    ASSUME TypeOK, LinksInv, NEW t \in Traders, NEW l \in Lists, NEW limit \in Prices,
           NEW q \in Quantities, NEW bps \in FeeRates, NEW i \in Ids,
           MatchPredictionOrder(t, l, limit, q, bps, i)
    PROVE  LinksInv'
<1> DEFINE o    == order[i]
           s    == o.list
           p    == o.price
           lv   == level[s][p]
           d    == FillBase(q, o.remaining_quantity)
           best == book.best
           lock == o.locked_collateral - Debit(o, d)
           left == [o EXCEPT !.remaining_quantity = o.remaining_quantity - d,
                             !.locked_collateral = lock]
           lv2  == [lv EXCEPT !.total_remaining_quantity = lv.total_remaining_quantity - d]
<1>1. /\ p \in Prices /\ s \in Lists
      /\ o.remaining_quantity \in Nat /\ d \in 1 .. o.remaining_quantity
  BY MatchParts
<1>2. /\ o \in OrderRecord /\ DOMAIN order = Ids
      /\ book \in [next_order_id : Nat \ {0}, best : [Lists -> LevelHints]]
      /\ DOMAIN level[s] = Prices /\ lv \in LevelRecord
  <2>1. /\ order \in [Ids -> OrderRecord] /\ level \in [Lists -> [Prices -> LevelRecord]]
        /\ book \in [next_order_id : Nat \ {0}, best : [Lists -> LevelHints]]
    BY DEF TypeOK
  <2>2. o \in OrderRecord /\ DOMAIN order = Ids
    BY <2>1
  <2> HIDE DEF s, p
  <2>3. level[s] \in [Prices -> LevelRecord]
    BY <1>1, <2>1
  <2> QED
    BY <1>1, <2>1, <2>2, <2>3
<1>3. FifoMaker(t, l, i)
  BY DEF MatchPredictionOrder
<1>4. /\ o.status = "Open" /\ OpenAt(i, s, p) /\ LiveLevel(s, p)
      /\ level[s][p].order_count # 1 =>
             level[s][p].total_remaining_quantity > o.remaining_quantity
  BY <1>3 DEF FifoMaker, OpenAt
<1>5. \/ Promotes(i) /\ Unlink(i, "Filled")
      \/ /\ order' = [order EXCEPT ![i].remaining_quantity = o.remaining_quantity - d,
                                   ![i].locked_collateral = lock]
         /\ level' = [level EXCEPT
                ![s][p].total_remaining_quantity = lv.total_remaining_quantity - d]
         /\ UNCHANGED <<book, market>>
  BY DEF MatchPredictionOrder
<1>6. CASE Promotes(i) /\ Unlink(i, "Filled")
  <2>1. Leavable(i)
    BY <1>4, <1>6 DEF Leavable, Promotes, OnlyOrderOfLevel
  <2> QED
    BY <1>6, <2>1, UnlinkLinks
<1>7. CASE /\ order' = [order EXCEPT ![i].remaining_quantity = o.remaining_quantity - d,
                                     ![i].locked_collateral = lock]
           /\ level' = [level EXCEPT
                  ![s][p].total_remaining_quantity = lv.total_remaining_quantity - d]
           /\ UNCHANGED <<book, market>>
  <2> HIDE DEF lock, d
  <2>1. order' = [order EXCEPT ![i] = left]
    BY <1>2, <1>7
  <2>2. level' = [level EXCEPT ![s] = [level[s] EXCEPT ![p] = lv2]]
    BY <1>7
  <2>3. book'.best = [best EXCEPT ![s] = best[s]]
    BY <1>1, <1>2, <1>7
  <2>4. /\ left.status = "Open" /\ left.list = o.list /\ left.price = o.price
        /\ left.next_order = o.next_order /\ left.previous_order = o.previous_order
        /\ left.remaining_quantity = o.remaining_quantity - d
    BY <1>2, <1>4 DEF OrderRecord
  <2>5. /\ lv2.first_order = lv.first_order /\ lv2.last_order = lv.last_order
        /\ lv2.order_count = lv.order_count
        /\ lv2.total_remaining_quantity = lv.total_remaining_quantity - d
        /\ lv2.better_price = lv.better_price /\ lv2.worse_price = lv.worse_price
    BY <1>2 DEF LevelRecord
  <2>6. d \in Int /\ o.remaining_quantity - d \in Nat
    BY <1>1
  <2> HIDE DEF left, lv2
  <2>7. Fills("list", order[i], left, level[s][p], lv2, d)
    BY <2>4, <2>5, <2>6 DEF Fills
  <2>8. /\ i \in DOMAIN order /\ order[i].status = "Open" /\ s \in Lists
        /\ s = order[i]["list"] /\ p \in DOMAIN level[s] /\ p = order[i].price
        /\ lv2.better_price = level[s][p].better_price
        /\ lv2.worse_price = level[s][p].worse_price
    BY <1>1, <1>2, <1>4, <2>5
  <2>9. BookIs(Lists, SideOf, "list", order, level, best)
    BY BookLinked
  <2> HIDE DEF s, p, best
  <2>10. IndexIs(Lists, SideOf,
                 IndexOf("list", [order EXCEPT ![i] = left],
                         [level EXCEPT ![s] = [level[s] EXCEPT ![p] = lv2]],
                         [best EXCEPT ![s] = best[s]]))
    BY ONLY <2>7, <2>8, <2>9, OrderReduced
  <2> QED
    BY <2>1, <2>2, <2>3, <2>10 DEF LinksInv, BookIndex
<1> QED
  BY <1>5, <1>6, <1>7

\* No other step touches an order, a level or a best price.
BookUntouched == order' = order /\ level' = level /\ book' = book

LEMMA OtherSteps ==
    ASSUME [Next]_vars
    PROVE  \/ PlaceOrder \/ CancelOrder \/ MatchOrder
           \/ /\ BookUntouched
              /\ position' = position \/ Custody \/ CompleteSets
<1>1. Custody => BookUntouched
  BY DEF Custody, InitializePosition, DepositCollateral, WithdrawCollateral,
         MigratePredictionAsset, BookUntouched
<1>2. CompleteSets => BookUntouched
  BY DEF CompleteSets, SplitLegacy, MergeLegacy, SplitShared, MergeShared, Redeem, PayOut,
         BookUntouched
<1>3. Lifecycle => BookUntouched /\ position' = position
  BY DEF Lifecycle, AdvanceMarket, BookUntouched
<1>4. UNCHANGED vars => BookUntouched /\ position' = position
  BY DEF vars, BookUntouched
<1> QED
  BY <1>1, <1>2, <1>3, <1>4 DEF Next

\* Before the first step there is nothing to link.
LEMMA InitLinks == Init => LinksInv
<1> SUFFICES ASSUME Init PROVE IndexIs(Lists, SideOf, BookIndex)
  BY DEF LinksInv
<1> DEFINE x == BookIndex
<1>1. /\ x.open = {} /\ x.level = [l \in Lists |-> [p \in Prices |-> AbsentLevel]]
      /\ x.best = [l \in Lists |-> 0]
  BY DEF Init, AbsentOrder, BookIndex, IndexOf
<1>2. /\ AbsentLevel.first_order = 0 /\ AbsentLevel.last_order = 0
      /\ AbsentLevel.order_count = 0 /\ AbsentLevel.total_remaining_quantity = 0
  BY DEF AbsentLevel
<1> HIDE DEF x
<1>3. \A l \in Lists :
          /\ x.best[l] = 0
          /\ \A p \in DOMAIN x.level[l] :
                 /\ x.level[l][p].first_order = 0 /\ x.level[l][p].last_order = 0
                 /\ x.level[l][p].order_count = 0
                 /\ x.level[l][p].total_remaining_quantity = 0
  BY <1>1, <1>2
<1>4. IndexIs(Lists, SideOf, x)
  BY ONLY <1>1, <1>3, IndexEmpty
<1> QED
  BY <1>4 DEF x

\* Every step keeps the links.
LEMMA NextLinks ==
    ASSUME TypeOK, LinksInv, OrdersResting, [Next]_vars
    PROVE  LinksInv'
<1>1. CASE PlaceOrder
  <2>1. /\ book.next_order_id \in Ids
        /\ \E t \in Traders, l \in Lists, p \in Prices, q \in Quantities :
               Placement(t, l, p, q)
    BY <1>1, Placements
  <2> QED
    BY <2>1, PlaceLinks
<1>2. CASE CancelOrder
  <2>1. PICK t \in Traders, i \in Ids : CancelPredictionOrder(t, i)
    BY <1>2 DEF CancelOrder
  <2>2. Leavable(i) /\ Unlink(i, "Canceled")
    BY <2>1 DEF CancelPredictionOrder, Linked, Leavable
  <2> QED
    BY <2>2, UnlinkLinks
<1>3. CASE MatchOrder
  BY <1>3, MatchLinks DEF MatchOrder
<1>4. CASE BookUntouched
  BY <1>4 DEF BookUntouched, LinksInv, BookIndex
<1> QED
  BY <1>1, <1>2, <1>3, <1>4, OtherSteps

-----------------------------------------------------------------------------
(* The open orders *)

\* The market counts them.
OrdersCounted == market.open_order_count = Cardinality(OpenOrders)

\* An open order with what it was placed for.
Rests(i) == /\ order[i].price \in Prices /\ order[i].owner \in positions
            /\ order[i].remaining_quantity \in 1 .. order[i].quantity

\* What a step does to the open orders and to what counts them: a new one, one
\* less, or the same, and what was open before rests where it did.
OpenStep ==
    LET open == OpenOrders
    IN  /\ \/ /\ OpenOrders' = open \cup {book.next_order_id}
              /\ book.next_order_id \notin open
              /\ market'.open_order_count = market.open_order_count + 1
              /\ book'.next_order_id = book.next_order_id + 1
           \/ /\ \E i \in open : OpenOrders' = open \ {i}
              /\ market'.open_order_count = market.open_order_count - 1
              /\ book'.next_order_id = book.next_order_id
           \/ /\ OpenOrders' = open
              /\ market'.open_order_count = market.open_order_count
              /\ book'.next_order_id = book.next_order_id
        /\ \A i \in OpenOrders' : Rests(i)'

\* The count follows, and so do the ids.
LEMMA CountedStep ==
    ASSUME TypeOK, OrdersResting, OrdersCounted, OpenStep
    PROVE  OrdersCounted' /\ OrdersResting'
<1> DEFINE open == OpenOrders
           id   == book.next_order_id
           n    == market.open_order_count
<1>1. IsFiniteSet(open)
  <2>1. IsFiniteSet(Ids)
    BY FS_Interval DEF Ids
  <2> QED
    BY <2>1, FS_Subset DEF OpenOrders
<1>2. n = Cardinality(open) /\ id \in Nat /\ \A i \in open : i \in Nat /\ i < id
  BY DEF OrdersCounted, OrdersResting, OpenOrders, Ids, TypeOK
<1>3. Cardinality(open) \in Nat
  BY <1>1, FS_CardinalityType
<1> HIDE DEF open, id, n
<1>4. /\ market'.open_order_count = Cardinality(OpenOrders')
      /\ \A i \in OpenOrders' : i < book'.next_order_id
  <2>1. CASE /\ OpenOrders' = open \cup {id} /\ id \notin open
             /\ market'.open_order_count = n + 1
             /\ book'.next_order_id = id + 1
    <3>1. Cardinality(open \cup {id}) = Cardinality(open) + 1
      BY <1>1, <2>1, FS_AddElement
    <3> QED
      BY <1>2, <2>1, <3>1
  <2>2. CASE /\ \E i \in open : OpenOrders' = open \ {i}
             /\ market'.open_order_count = n - 1
             /\ book'.next_order_id = id
    <3>1. PICK i \in open : OpenOrders' = open \ {i}
      BY <2>2
    <3>2. Cardinality(open \ {i}) = Cardinality(open) - 1
      BY <1>1, FS_RemoveElement
    <3> QED
      BY <1>2, <2>2, <3>1, <3>2
  <2>3. CASE /\ OpenOrders' = open
             /\ market'.open_order_count = n
             /\ book'.next_order_id = id
    BY <1>2, <2>3
  <2> QED
    BY <2>1, <2>2, <2>3 DEF OpenStep, open, id, n
<1>5. \A i \in OpenOrders' : Rests(i)'
  BY DEF OpenStep
<1> QED
  BY <1>4, <1>5 DEF OrdersCounted, OrdersResting, Rests

\* An account that is the same, or linked anew, rests where it did.
LEMMA StillRests ==
    ASSUME OrdersResting, NEW i \in OpenOrders, positions' = positions,
           order'[i].price = order[i].price, order'[i].owner = order[i].owner,
           order'[i].quantity = order[i].quantity,
           order'[i].remaining_quantity = order[i].remaining_quantity
    PROVE  Rests(i)'
  BY DEF OrdersResting, Rests

\* A placement opens the next id.
LEMMA OpenPlacing ==
    ASSUME TypeOK, OrdersResting, book.next_order_id \in Ids,
           NEW t \in Traders, NEW l \in Lists, NEW p \in Prices, NEW q \in Quantities,
           NEW previous, Placing(t, l, p, q, previous),
           book'.next_order_id = book.next_order_id + 1
    PROVE  OpenStep
<1> DEFINE id  == book.next_order_id
           new == [owner |-> t, list |-> l, price |-> p,
                   previous_order |-> previous, next_order |-> None,
                   quantity |-> q, remaining_quantity |-> q,
                   locked_collateral |-> Backing(l, p, q), status |-> "Open"]
<1>1. /\ order' = [j \in Ids |-> IF j = id THEN new
                                 ELSE IF j = previous THEN [order[j] EXCEPT !.next_order = id]
                                 ELSE order[j]]
      /\ positions' = positions /\ t \in positions
      /\ market' = [market EXCEPT !.open_order_count = market.open_order_count + 1]
  BY DEF Placing
<1>2. order \in [Ids -> OrderRecord] /\ market \in MarketRecord /\ id \in Nat
  BY DEF TypeOK
<1>3. order'[id] = new
  BY <1>1
<1>4. ASSUME NEW j \in Ids \ {id}
      PROVE  /\ order'[j].status = order[j].status
             /\ order'[j].price = order[j].price /\ order'[j].owner = order[j].owner
             /\ order'[j].quantity = order[j].quantity
             /\ order'[j].remaining_quantity = order[j].remaining_quantity
  <2>1. order[j] \in OrderRecord
    BY <1>2
  <2>2. order'[j] = IF j = previous THEN [order[j] EXCEPT !.next_order = id] ELSE order[j]
    BY <1>1
  <2> QED
    BY <2>1, <2>2 DEF OrderRecord
<1>5. id \notin OpenOrders
  <2>1. id \in OpenOrders => id < id
    BY DEF OrdersResting
  <2> HIDE DEF id
  <2> QED
    BY <1>2, <2>1
<1>6. OpenOrders' = OpenOrders \cup {id}
  <2>1. new.status = "Open"
    OBVIOUS
  <2> HIDE DEF new
  <2> QED
    BY <1>3, <1>4, <2>1 DEF OpenOrders
<1>7. /\ new.price \in Prices /\ new.owner \in positions
      /\ new.remaining_quantity \in 1 .. new.quantity
  <2>1. q \in Nat \ {0}
    OBVIOUS
  <2> QED
    BY <1>1, <2>1
<1>8. ASSUME NEW i \in OpenOrders' PROVE Rests(i)'
  <2>1. CASE i = id
    <3>1. order'[i] = new /\ positions' = positions
      BY <1>1, <1>3, <2>1
    <3> HIDE DEF new
    <3> QED
      BY <1>7, <3>1 DEF Rests
  <2>2. CASE i # id
    <3>1. i \in OpenOrders /\ i \in Ids \ {id}
      BY <1>6, <1>8, <2>2 DEF OpenOrders
    <3> QED
      BY <1>1, <1>4, <3>1, StillRests
  <2> QED
    BY <2>1, <2>2
<1>9. market'.open_order_count = market.open_order_count + 1
  BY <1>1, <1>2 DEF MarketRecord
<1> QED
  BY <1>5, <1>6, <1>8, <1>9 DEF OpenStep

\* Whatever leaves is closed, and no other order is.
LEMMA OpenUnlink ==
    ASSUME TypeOK, OrdersResting, positions' = positions, NEW i \in Ids,
           order[i].status = "Open", NEW status \in {"Filled", "Canceled"}, Unlink(i, status)
    PROVE  OpenStep
<1>1. /\ order \in [Ids -> OrderRecord] /\ market \in MarketRecord
      /\ book \in [next_order_id : Nat \ {0}, best : [Lists -> LevelHints]]
  BY DEF TypeOK
<1>2. /\ order' = OrdersWithout(i, status) /\ book' = BookWithout(i)
      /\ market' = [market EXCEPT !.open_order_count = market.open_order_count - 1]
  BY DEF Unlink
<1>3. order'[i].status # "Open"
  BY <1>1, <1>2 DEF OrdersWithout, OrderRecord
<1>4. ASSUME NEW j \in Ids \ {i}
      PROVE  /\ order'[j].status = order[j].status
             /\ order'[j].price = order[j].price /\ order'[j].owner = order[j].owner
             /\ order'[j].quantity = order[j].quantity
             /\ order'[j].remaining_quantity = order[j].remaining_quantity
  <2>1. order[j] \in OrderRecord
    BY <1>1
  <2>2. \E next, previous :
            order'[j] = [order[j] EXCEPT !.next_order = next, !.previous_order = previous]
    BY <1>2 DEF OrdersWithout
  <2> QED
    BY <2>1, <2>2 DEF OrderRecord
<1>5. i \in OpenOrders /\ OpenOrders' = OpenOrders \ {i}
  BY <1>3, <1>4 DEF OpenOrders
<1>6. ASSUME NEW j \in OpenOrders' PROVE Rests(j)'
  <2>1. j \in OpenOrders /\ j \in Ids \ {i}
    BY <1>5, <1>6 DEF OpenOrders
  <2> QED
    BY <1>4, <2>1, StillRests
<1>7. market'.open_order_count = market.open_order_count - 1
  BY <1>1, <1>2 DEF MarketRecord
<1>8. book'.next_order_id = book.next_order_id
  BY <1>1, <1>2 DEF BookWithout
<1> QED
  BY <1>5, <1>6, <1>7, <1>8 DEF OpenStep

\* A fill closes the maker or leaves it with less.
LEMMA OpenMatch ==
    ASSUME TypeOK, OrdersResting, NEW t \in Traders, NEW l \in Lists, NEW limit \in Prices,
           NEW q \in Quantities, NEW bps \in FeeRates, NEW i \in Ids,
           MatchPredictionOrder(t, l, limit, q, bps, i)
    PROVE  OpenStep
<1> DEFINE o    == order[i]
           d    == FillBase(q, o.remaining_quantity)
           lock == o.locked_collateral - Debit(o, d)
           left == [o EXCEPT !.remaining_quantity = o.remaining_quantity - d,
                             !.locked_collateral = lock]
<1>1. o.remaining_quantity \in Nat /\ d \in 1 .. o.remaining_quantity
  BY MatchParts
<1>2. /\ o.status = "Open" /\ o.remaining_quantity \in 1 .. o.quantity
      /\ positions' = positions
  BY DEF MatchPredictionOrder, FifoMaker, OpenAt
<1>3. \/ Unlink(i, "Filled")
      \/ /\ d < o.remaining_quantity
         /\ order' = [order EXCEPT ![i].remaining_quantity = o.remaining_quantity - d,
                                   ![i].locked_collateral = lock]
         /\ UNCHANGED <<book, market>>
  BY DEF MatchPredictionOrder
<1>4. CASE /\ d < o.remaining_quantity
           /\ order' = [order EXCEPT ![i].remaining_quantity = o.remaining_quantity - d,
                                     ![i].locked_collateral = lock]
           /\ UNCHANGED <<book, market>>
  <2> HIDE DEF d, lock
  <2>1. order \in [Ids -> OrderRecord] /\ o \in OrderRecord
    BY DEF TypeOK
  <2>2. order' = [order EXCEPT ![i] = left]
    BY <1>4, <2>1
  <2>3. /\ left.status = "Open" /\ left.price = o.price /\ left.owner = o.owner
        /\ left.quantity = o.quantity
        /\ left.remaining_quantity = o.remaining_quantity - d
    BY <1>2, <2>1 DEF OrderRecord
  <2>4. o.remaining_quantity - d \in 1 .. o.quantity
    <3> DEFINE r == o.remaining_quantity
               n == o.quantity
    <3>1. r \in Nat /\ n \in Nat /\ r \in 1 .. n /\ d \in 1 .. r /\ d < r
      BY <1>1, <1>2, <1>4, <2>1 DEF OrderRecord
    <3> HIDE DEF r, n
    <3>2. r - d \in 1 .. n
      BY <3>1
    <3> QED
      BY <3>2 DEF r, n
  <2> HIDE DEF left
  <2>5. order'[i] = left /\ \A j \in Ids \ {i} : order'[j] = order[j]
    BY <2>1, <2>2
  <2>6. OpenOrders' = OpenOrders /\ i \in OpenOrders
    BY <1>2, <2>3, <2>5 DEF OpenOrders
  <2>7. Rests(i)'
    BY <1>2, <2>3, <2>4, <2>5, <2>6 DEF Rests, OrdersResting
  <2>8. ASSUME NEW j \in OpenOrders' PROVE Rests(j)'
    <3>1. CASE j = i
      BY <2>7, <3>1
    <3>2. CASE j # i
      <4>1. j \in OpenOrders /\ order'[j] = order[j]
        BY <2>5, <2>6, <2>8, <3>2 DEF OpenOrders
      <4> QED
        BY <1>2, <4>1, StillRests
    <3> QED
      BY <3>1, <3>2
  <2> QED
    BY <1>4, <2>6, <2>8 DEF OpenStep
<1> QED
  BY <1>2, <1>3, <1>4, OpenUnlink

LEMMA NextOpen ==
    ASSUME TypeOK, OrdersResting, [Next]_vars
    PROVE  OpenStep
<1>1. CASE PlaceOrder
  <2>1. PICK t \in Traders, l \in Lists, p \in Prices, q \in Quantities :
            Placement(t, l, p, q)
    BY <1>1, Placements
  <2>2. book \in [next_order_id : Nat \ {0}, best : [Lists -> LevelHints]]
    BY DEF TypeOK
  <2>3. book'.next_order_id = book.next_order_id + 1
    BY <2>1, <2>2 DEF Placement, AppendPredictionOrder, NewLevel
  <2>4. \E previous : Placing(t, l, p, q, previous)
    BY <2>1 DEF Placement, AppendPredictionOrder, NewLevel
  <2> QED
    BY <1>1, <2>3, <2>4, OpenPlacing DEF PlaceOrder
<1>2. CASE CancelOrder
  <2>1. PICK t \in Traders, i \in Ids : CancelPredictionOrder(t, i)
    BY <1>2 DEF CancelOrder
  <2>2. order[i].status = "Open" /\ Unlink(i, "Canceled") /\ positions' = positions
    BY <2>1 DEF CancelPredictionOrder, Linked, OpenAt
  <2> QED
    BY <2>2, OpenUnlink
<1>3. CASE MatchOrder
  BY <1>3, OpenMatch DEF MatchOrder
<1>4. ASSUME BookUntouched,
             market'.open_order_count = market.open_order_count,
             positions \subseteq positions'
      PROVE  OpenStep
  <2>1. OpenOrders' = OpenOrders
    BY <1>4 DEF BookUntouched, OpenOrders
  <2>2. \A i \in OpenOrders : Rests(i)'
    BY <1>4 DEF BookUntouched, OrdersResting, Rests
  <2> QED
    BY <1>4, <2>1, <2>2 DEF OpenStep, BookUntouched
<1>5. market \in MarketRecord
  BY DEF TypeOK
<1>6. CASE Custody
  BY <1>4, <1>6 DEF Custody, InitializePosition, DepositCollateral, WithdrawCollateral,
                    MigratePredictionAsset, BookUntouched
<1>7. CASE CompleteSets
  <2>1. market'.open_order_count = market.open_order_count /\ positions' = positions
    <3>1. positions' = positions /\ \E cash, yes, no : market' = Reserve(market, cash, yes, no)
      BY <1>7, Zenon DEF CompleteSets, SplitLegacy, MergeLegacy, SplitShared, MergeShared,
                         Redeem, PayOut
    <3> QED
      BY <1>5, <3>1 DEF Reserve, MarketRecord
  <2>2. BookUntouched
    BY <1>7 DEF CompleteSets, SplitLegacy, MergeLegacy, SplitShared, MergeShared,
                Redeem, PayOut, BookUntouched
  <2> QED
    BY <1>4, <2>1, <2>2
<1>8. CASE Lifecycle
  BY <1>4, <1>5, <1>8 DEF Lifecycle, AdvanceMarket, BookUntouched, MarketRecord
<1>9. CASE UNCHANGED vars
  BY <1>4, <1>9 DEF vars, BookUntouched
<1> QED
  BY <1>1, <1>2, <1>3, <1>6, <1>7, <1>8, <1>9 DEF Next

\* The book in every state of every run: linked, counted and resting.
BookInv == LinksInv /\ OrdersResting /\ OrdersCounted

LEMMA BookHolds == Spec => []BookInv
<1>1. Init => BookInv
  <2>1. Init => OpenOrders = {}
    BY DEF Init, OpenOrders, AbsentOrder
  <2>2. Init => OrdersResting /\ OrdersCounted
    <3>1. Init => market.open_order_count = 0
      BY DEF Init
    <3> QED
      BY <2>1, <3>1, FS_EmptySet DEF OrdersResting, OrdersCounted
  <2> QED
    BY <2>2, InitLinks DEF BookInv
<1>2. TypeOK /\ BookInv /\ [Next]_vars => BookInv'
  BY NextLinks, NextOpen, CountedStep DEF BookInv
<1> QED
  BY <1>1, <1>2, TypeCorrect, PTL DEF Spec

-----------------------------------------------------------------------------
(* What the index says *)

\* The open orders of a level are those that say so.
OrdersAt(l, p) == {i \in Ids : OpenAt(i, l, p)}

\* What the invariant says of a list and of a level of it.
LEMMA BookLists ==
    ASSUME TypeOK, LinksInv, OrdersResting, NEW l \in Lists
    PROVE  /\ DOMAIN level[l] = Prices
           /\ ListIs(PricesIn(level[l]), l[2], level[l], Best(l))
           /\ \A p \in Prices : QueueIs(OrdersAt(l, p), order, level[l][p])
<1>1. SideOf[l] = l[2] /\ DOMAIN level[l] = Prices /\ DOMAIN order = Ids
  BY DEF TypeOK, SideOf
<1> DEFINE x == BookIndex
<1>2. /\ x.open = OpenOrders /\ x.orders = order
      /\ x.level = level /\ x.best = book.best
      /\ \A i \in Ids : x.place[i] = <<order[i].list, order[i].price>>
  BY <1>1 DEF BookIndex, IndexOf, OpenOrders
<1>3. IndexIs(Lists, SideOf, x)
  BY DEF LinksInv
<1> HIDE DEF x
<1>4. \A p \in Prices : IdsAt(x, l, p) = OrdersAt(l, p)
  BY <1>2 DEF IdsAt, OpenOrders, OrdersAt, OpenAt, OrdersResting
<1>5. /\ ListIs(PricesIn(x.level[l]), SideOf[l], x.level[l], x.best[l])
      /\ \A p \in DOMAIN x.level[l] : QueueIs(IdsAt(x, l, p), x.orders, x.level[l][p])
  BY <1>3 DEF IndexIs
<1>6. \A p \in Prices : QueueIs(OrdersAt(l, p), order, level[l][p])
  BY <1>1, <1>2, <1>4, <1>5
<1>7. ListIs(PricesIn(level[l]), l[2], level[l], Best(l))
  BY <1>1, <1>2, <1>5 DEF Best
<1> QED
  BY <1>1, <1>6, <1>7

\* A level with orders has all that LiveLevel asks of one.
LEMMA LevelsLive ==
    ASSUME TypeOK, LinksInv, OrdersResting, NEW l \in Lists, NEW p \in PricesIn(level[l])
    PROVE  LiveLevel(l, p)
<1>1. p \in Prices /\ level[l][p].order_count > 0 /\ QueueIs(OrdersAt(l, p), order, level[l][p])
  BY BookLists DEF PricesIn
<1>2. OrdersAt(l, p) # {}
  BY <1>1, FS_EmptySet DEF QueueIs
<1>3. PICK i \in OrdersAt(l, p) : TRUE
  BY <1>2
<1>4. \A j \in OrdersAt(l, p) : order[j].remaining_quantity > 0
  BY DEF OrdersAt, OpenAt
<1>5. InQueue(OrdersAt(l, p), order, level[l][p], i)
  BY ONLY <1>1, <1>3, <1>4, QueueShape
<1>6. level[l][p].total_remaining_quantity \in Nat /\ order[i].remaining_quantity \in Nat
  <2>1. level[l] \in [Prices -> LevelRecord] /\ order[i] \in OrderRecord
    BY DEF TypeOK, OrdersAt
  <2> QED
    BY <1>1, <2>1 DEF LevelRecord, OrderRecord
<1>7. level[l][p].total_remaining_quantity > 0
  BY <1>4, <1>5, <1>6 DEF InQueue
<1> QED
  BY <1>1, <1>5, <1>7 DEF InQueue, LiveLevel

\* The four lists and their queues (insert_prediction_order.rs, append, cancel and
\* match): following worse_price from the best price meets the levels that exist
\* from best to worst, following next_order from the first order of a level its
\* open orders from oldest to newest, both linked the other way too; the counts
\* and totals are theirs, for all prices, ids and hints.
THEOREM IndexStays == Spec => []IndexMatchesOrders
<1>1. ASSUME TypeOK, LinksInv, OrdersResting, NEW l \in Lists
      PROVE  LET list   == PriceList(l)
                 length == Cardinality({p \in Prices : level[l][p].order_count > 0})
             IN  /\ list[length + 1] = None
                 /\ \A n \in 1 .. length :
                        /\ list[n] # None
                        /\ LiveLevel(l, list[n])
                        /\ level[l][list[n]].better_price = IF n = 1 THEN None ELSE list[n-1]
                        /\ n > 1 => BetterPrice(l[2], list[n-1], list[n])
  <2> DEFINE levels == level[l]
             P      == PricesIn(levels)
             list   == PriceList(l)
             length == Cardinality(P)
             best   == Best(l)
             side   == l[2]
             m      == Cardinality(Prices) + 1
             walk   == Walk(best, [p \in Prices |-> levels[p].worse_price], m)
  <2>1. P = {p \in Prices : level[l][p].order_count > 0} /\ list = walk
    BY <1>1, BookLists DEF PricesIn, PriceList
  <2>2. ListIs(P, side, levels, best) /\ side \in Sides
    BY <1>1, BookLists DEF Lists
  <2>3. IsFiniteSet(Prices) /\ P \subseteq Prices
    BY <1>1, <2>1
  <2>4. \A p \in P : LiveLevel(l, p)
    BY <1>1, LevelsLive
  <2> HIDE DEF levels, best, side, P, list
  <2>5. ListMet(P, side, levels, walk)
    BY <2>2, <2>3, ListWalk
  <2> HIDE DEF walk
  <2> QED
    BY <2>1, <2>4, <2>5 DEF ListMet, levels, side, None, list
<1>2. ASSUME TypeOK, LinksInv, OrdersResting, NEW l \in Lists, NEW p \in Prices
      PROVE  LET ids == {i \in Ids : OpenAt(i, l, p)}
                 q   == Queue(l, p)
                 n   == level[l][p].order_count
             IN  /\ n = Cardinality(ids)
                 /\ {q[k] : k \in 1 .. n} = ids
                 /\ \A k \in 1 .. n :
                        /\ order[q[k]].previous_order = IF k = 1 THEN None ELSE q[k-1]
                        /\ k > 1 => q[k-1] < q[k]
                 /\ n > 0 => /\ level[l][p].last_order = q[n]
                             /\ order[q[n]].next_order = None
                 /\ level[l][p].total_remaining_quantity =
                        SumFunctionOnSet([i \in Ids |-> order[i].remaining_quantity], ids)
  <2> DEFINE lv   == level[l][p]
             S    == OrdersAt(l, p)
             q    == Queue(l, p)
             n    == lv.order_count
             walk == Walk(lv.first_order, [i \in Ids |-> order[i].next_order], n)
             f    == [i \in S |-> order[i].remaining_quantity]
             g    == [i \in Ids |-> order[i].remaining_quantity]
  <2>1. S = {i \in Ids : OpenAt(i, l, p)} /\ q = walk
    BY DEF Queue, OrdersAt
  <2>2. QueueIs(S, order, lv) /\ S \subseteq Ids
    BY <1>2, BookLists DEF OrdersAt
  <2>3. SumFunctionOnSet(g, S) = SumFunctionOnSet(f, S)
    <3>1. IsFiniteSet(S) /\ \A i \in S : f[i] \in Int /\ g[i] = f[i]
      BY <2>2 DEF QueueIs
    <3> HIDE DEF f, g, S
    <3> QED
      BY ONLY <3>1, SumSame
  <2>4. lv.total_remaining_quantity = SumFunctionOnSet(f, S)
    BY <2>2 DEF QueueIs
  <2> HIDE DEF lv, S, q, f
  <2>5. QueueMet(S, order, lv, walk)
    BY ONLY <2>2, QueueWalk
  <2> HIDE DEF walk, g, n
  <2>6. /\ n = Cardinality(S)
        /\ {q[k] : k \in 1 .. n} = S
        /\ \A k \in 1 .. n :
               /\ order[q[k]].previous_order = IF k = 1 THEN None ELSE q[k-1]
               /\ k > 1 => q[k-1] < q[k]
        /\ n > 0 => lv.last_order = q[n] /\ order[q[n]].next_order = 0
        /\ lv.total_remaining_quantity = SumFunctionOnSet(g, S)
    BY <2>1, <2>3, <2>4, <2>5 DEF QueueMet, None, n
  <2> QED
    BY <2>1, <2>6 DEF lv, n, g, q
<1>3. TypeOK /\ BookInv => IndexMatchesOrders
  BY <1>1, <1>2 DEF IndexMatchesOrders, BookInv, OrdersCounted
<1> QED
  BY <1>3, BookHolds, TypeCorrect, PTL

-----------------------------------------------------------------------------
(* Where the money is *)

Balances == BalancesOf(Traders, Buckets)

LEMMA ClaimsAreBalances == Claims \subseteq Balances
BY DEF Claims, Balances, BalancesOf

LEMMA HeldType ==
    ASSUME NEW c \in Balances, NEW x \in Buckets
    PROVE  Held(c, x) \in Int
<1>1. HeldOf(Traders, c, x) \in Int
  BY BalanceSum DEF Balances
<1> QED
  BY <1>1 DEF Held, HeldOf

\* One change of one position.
LEMMA ChangeMoves ==
    ASSUME NEW c \in Balances, NEW t \in Traders, NEW a \in Buckets,
           NEW f \in Int, NEW k \in Int
    PROVE  /\ Change(c, t, a, f, k) \in Balances
           /\ \A x \in Buckets : Held(Change(c, t, a, f, k), x) = Held(c, x) + At(x, a, f + k)
           /\ \A u \in Traders, x \in Buckets :
                  Change(c, t, a, f, k)[u][x].locked = c[u][x].locked + AtBalance(u, x, t, a, k)
<1> DEFINE n == Changed(c, t, a, f, k)
<1>1. /\ n \in Balances
      /\ \A x \in Buckets : HeldOf(Traders, n, x) = HeldOf(Traders, c, x) + At(x, a, f + k)
      /\ \A u \in Traders, x \in Buckets :
             n[u][x].locked = c[u][x].locked + AtBalance(u, x, t, a, k)
  BY BalanceChanged DEF Balances
<1>2. n = Change(c, t, a, f, k)
  BY DEF Changed, Change
<1> HIDE DEF n
<1> QED
  BY <1>1, <1>2 DEF Held, HeldOf

\* A lock moves cash or contracts from free to locked, or back.
LEMMA LockMoves ==
    ASSUME NEW c \in Balances, NEW t \in Traders, NEW a \in Buckets,
           NEW f \in Int, NEW k \in Int, f + k = 0
    PROVE  \A x \in Buckets : Held(Change(c, t, a, f, k), x) = Held(c, x)
<1>1. \A x \in Buckets : Held(Change(c, t, a, f, k), x) = Held(c, x) + At(x, a, f + k)
  BY ChangeMoves
<1>2. \A x \in Buckets : Held(c, x) \in Int /\ At(x, a, f + k) = 0
  BY HeldType DEF At
<1> QED
  BY <1>1, <1>2

\* Contracts gained or given up, and the cash they take.
LEMMA HoldMoves ==
    ASSUME NEW c \in Balances, NEW t \in Traders,
           NEW cash \in Int, NEW yes \in Int, NEW no \in Int
    PROVE  /\ LET n == Hold(c, t, yes, no)
              IN  /\ Held(n, "cash") = Held(c, "cash")
                  /\ Held(n, "Yes") = Held(c, "Yes") + yes /\ Held(n, "No") = Held(c, "No") + no
                  /\ \A u \in Traders, x \in Buckets : n[u][x].locked = c[u][x].locked
           /\ LET n == Hold(Change(c, t, "cash", cash, 0), t, yes, no)
              IN  /\ Held(n, "cash") = Held(c, "cash") + cash
                  /\ Held(n, "Yes") = Held(c, "Yes") + yes /\ Held(n, "No") = Held(c, "No") + no
                  /\ \A u \in Traders, x \in Buckets : n[u][x].locked = c[u][x].locked
<1>1. /\ "cash" \in Buckets /\ "Yes" \in Buckets /\ "No" \in Buckets
      /\ \A x \in Buckets : x = "cash" \/ x = "Yes" \/ x = "No"
  BY DEF Buckets, Contracts
<1>2. ASSUME NEW d \in Balances
      PROVE  LET n == Hold(d, t, yes, no)
             IN  /\ Held(n, "cash") = Held(d, "cash")
                 /\ Held(n, "Yes") = Held(d, "Yes") + yes /\ Held(n, "No") = Held(d, "No") + no
                 /\ \A u \in Traders, x \in Buckets : n[u][x].locked = d[u][x].locked
  <2> DEFINE c1 == Change(d, t, "Yes", yes, 0)
             c2 == Change(c1, t, "No", no, 0)
  <2>1. /\ c1 \in Balances
        /\ \A x \in Buckets : Held(c1, x) = Held(d, x) + At(x, "Yes", yes + 0)
        /\ \A u \in Traders, x \in Buckets :
               c1[u][x].locked = d[u][x].locked + AtBalance(u, x, t, "Yes", 0)
    BY <1>1, ChangeMoves
  <2> HIDE DEF c1
  <2>2. /\ c2 \in Balances
        /\ \A x \in Buckets : Held(c2, x) = Held(c1, x) + At(x, "No", no + 0)
        /\ \A u \in Traders, x \in Buckets :
               c2[u][x].locked = c1[u][x].locked + AtBalance(u, x, t, "No", 0)
    BY <1>1, <2>1, ChangeMoves
  <2>3. c2 = Hold(d, t, yes, no)
    BY DEF Hold, c1
  <2> HIDE DEF c2
  <2>4. \A x \in Buckets : Held(d, x) \in Int
    BY HeldType
  <2>5. \A u \in Traders, x \in Buckets : d[u][x].locked \in Int
    BY DEF Balances, BalancesOf
  <2>6. \A u \in Traders, x \in Buckets : c2[u][x].locked = d[u][x].locked
    BY <2>1, <2>2, <2>5 DEF AtBalance
  <2>7. /\ Held(c2, "cash") = Held(d, "cash")
        /\ Held(c2, "Yes") = Held(d, "Yes") + yes /\ Held(c2, "No") = Held(d, "No") + no
    BY <1>1, <2>1, <2>2, <2>4 DEF At
  <2> QED
    BY <2>3, <2>6, <2>7
<1> DEFINE d == Change(c, t, "cash", cash, 0)
<1>3. /\ d \in Balances
      /\ \A x \in Buckets : Held(d, x) = Held(c, x) + At(x, "cash", cash + 0)
      /\ \A u \in Traders, x \in Buckets :
             d[u][x].locked = c[u][x].locked + AtBalance(u, x, t, "cash", 0)
  BY <1>1, ChangeMoves
<1> HIDE DEF d
<1>4. \A x \in Buckets : Held(c, x) \in Int
  BY HeldType
<1>5. \A u \in Traders, x \in Buckets : c[u][x].locked \in Int
  BY DEF Balances, BalancesOf
<1>6. /\ Held(d, "cash") = Held(c, "cash") + cash
      /\ Held(d, "Yes") = Held(c, "Yes") /\ Held(d, "No") = Held(c, "No")
  BY <1>1, <1>3, <1>4 DEF At
<1>7. \A u \in Traders, x \in Buckets : d[u][x].locked = c[u][x].locked
  BY <1>3, <1>5 DEF AtBalance
<1>8. LET n == Hold(d, t, yes, no)
      IN  /\ Held(n, "cash") = Held(c, "cash") + cash
          /\ Held(n, "Yes") = Held(c, "Yes") + yes /\ Held(n, "No") = Held(c, "No") + no
          /\ \A u \in Traders, x \in Buckets : n[u][x].locked = c[u][x].locked
  BY <1>2, <1>3, <1>6, <1>7
<1> QED
  BY <1>2, <1>8 DEF d

\* What the vaults hold beyond the claims on them, and what the supplies count
\* beyond the contracts in the positions, stay what they were.
MoneyKept ==
    /\ vault' - market'.backing_reserve - fees' - Held(position', "cash")
           = vault - market.backing_reserve - fees - Held(position, "cash")
    /\ market'.yes_supply - Held(position', "Yes") = market.yes_supply - Held(position, "Yes")
    /\ market'.no_supply - Held(position', "No") = market.no_supply - Held(position, "No")
    /\ asset_vault' - SumFunction(shared') = asset_vault - SumFunction(shared)

\* Order i alone gains or loses a lock, and so does its owner's bucket.
LocksMove(i) ==
    /\ \A j \in Ids \ {i}, u \in Traders, x \in Buckets :
           LockOf(order'[j], u, x) = LockOf(order[j], u, x)
    /\ \A u \in Traders, x \in Buckets :
           position'[u][x].locked =
               position[u][x].locked + (LockOf(order'[i], u, x) - LockOf(order[i], u, x))

\* No lock changes.
LocksStand ==
    /\ order' = order
    /\ \A u \in Traders, x \in Buckets : position'[u][x].locked = position[u][x].locked

MoneyStep == MoneyKept /\ (LocksStand \/ \E i \in Ids : LocksMove(i))

\* The numbers MoneyKept is about.
LEMMA MoneyNumbers ==
    ASSUME TypeOK
    PROVE  /\ position \in Balances /\ market \in MarketRecord
           /\ vault \in Int /\ fees \in Int /\ asset_vault \in Int
           /\ market.backing_reserve \in Int /\ market.yes_supply \in Int
           /\ market.no_supply \in Int
           /\ \A x \in Buckets : Held(position, x) \in Int
           /\ Held(position, "cash") \in Int /\ Held(position, "Yes") \in Int
           /\ Held(position, "No") \in Int
           /\ SumFunction(shared) \in Int
<1>1. position \in Balances /\ market \in MarketRecord
  BY TypeParts, ClaimsAreBalances
<1>2. vault \in Int /\ fees \in Int /\ asset_vault \in Int /\ shared \in [Traders -> Int]
  BY DEF TypeOK
<1>3. SumFunction(shared) \in Int
  BY <1>2, SumFunctionType
<1>4. {"cash", "Yes", "No"} \subseteq Buckets
  BY DEF Buckets, Contracts
<1>5. \A x \in Buckets : Held(position, x) \in Int
  BY <1>1, HeldType
<1>6. /\ market.backing_reserve \in Int /\ market.yes_supply \in Int
      /\ market.no_supply \in Int
  BY <1>1 DEF MarketRecord
<1> QED
  BY <1>1, <1>2, <1>3, <1>4, <1>5, <1>6

\* An open order's lock is in one bucket of its owner's, a closed one has none.
LEMMA LockIs ==
    ASSUME NEW o, NEW u, NEW x
    PROVE  /\ o.status = "Open" =>
                  LockOf(o, u, x) =
                      AtBalance(u, x, o.owner, LockedBucket(o.list), o.locked_collateral)
           /\ o.status # "Open" => LockOf(o, u, x) = 0
BY DEF LockOf, AtBalance

\* A placement takes its lock out of the free balance.
LEMMA PlacingMoney ==
    ASSUME TypeOK, OrdersResting, book.next_order_id \in Ids,
           NEW t \in Traders, NEW l \in Lists, NEW p \in Prices, NEW q \in Quantities,
           NEW previous, Placing(t, l, p, q, previous)
    PROVE  MoneyStep
<1> DEFINE id     == book.next_order_id
           bucket == LockedBucket(l)
           amount == Backing(l, p, q)
           new    == [owner |-> t, list |-> l, price |-> p,
                      previous_order |-> previous, next_order |-> None,
                      quantity |-> q, remaining_quantity |-> q,
                      locked_collateral |-> amount, status |-> "Open"]
<1>1. /\ order' = [j \in Ids |-> IF j = id THEN new
                                 ELSE IF j = previous THEN [order[j] EXCEPT !.next_order = id]
                                 ELSE order[j]]
      /\ position' = Change(position, t, bucket, -amount, amount)
      /\ market' = [market EXCEPT !.open_order_count = market.open_order_count + 1]
      /\ UNCHANGED <<fees, outside>>
  BY DEF Placing
<1>2. bucket \in Buckets /\ amount \in Nat
  BY BackingType
<1>3. new.status = "Open" /\ order'[id] = new /\ order \in [Ids -> OrderRecord]
  BY <1>1 DEF TypeOK
<1>4. \A u \in Traders, x \in Buckets : LockOf(new, u, x) = AtBalance(u, x, t, bucket, amount)
  BY DEF LockOf, AtBalance
<1>5. order[id].status # "Open"
  <2>1. id \in Nat /\ (order[id].status = "Open" => id < id)
    BY DEF OrdersResting, OpenOrders, TypeOK
  <2> HIDE DEF id
  <2> QED
    BY <2>1
<1> HIDE DEF bucket, amount, new
<1>6. -amount \in Int /\ amount \in Int /\ -amount + amount = 0
  BY <1>2
<1>7. /\ \A x \in Buckets : Held(position', x) = Held(position, x)
      /\ \A u \in Traders, x \in Buckets :
             position'[u][x].locked = position[u][x].locked + AtBalance(u, x, t, bucket, amount)
  <2>1. position \in Balances
    BY MoneyNumbers
  <2>2. \A x \in Buckets : Held(Change(position, t, bucket, -amount, amount), x) = Held(position, x)
    BY ONLY <1>2, <1>6, <2>1, t \in Traders, LockMoves
  <2>3. \A u \in Traders, x \in Buckets :
            Change(position, t, bucket, -amount, amount)[u][x].locked =
                position[u][x].locked + AtBalance(u, x, t, bucket, amount)
    BY ONLY <1>2, <1>6, <2>1, t \in Traders, ChangeMoves
  <2> QED
    BY ONLY <1>1, <2>2, <2>3
<1>8. MoneyKept
  <2>1. /\ market'.backing_reserve = market.backing_reserve
        /\ market'.yes_supply = market.yes_supply /\ market'.no_supply = market.no_supply
    BY <1>1, MoneyNumbers DEF MarketRecord
  <2> QED
    BY <1>1, <1>7, <2>1 DEF MoneyKept, Buckets, Contracts
<1>9. LocksMove(id)
  <2>1. ASSUME NEW j \in Ids \ {id}, NEW u \in Traders, NEW x \in Buckets
        PROVE  LockOf(order'[j], u, x) = LockOf(order[j], u, x)
    <3>1. order[j] \in OrderRecord
      BY <1>3
    <3>2. order'[j] = IF j = previous THEN [order[j] EXCEPT !.next_order = id] ELSE order[j]
      BY <1>1
    <3>3. /\ order'[j].status = order[j].status /\ order'[j].owner = order[j].owner
          /\ order'[j].list = order[j].list
          /\ order'[j].locked_collateral = order[j].locked_collateral
      BY <3>1, <3>2 DEF OrderRecord
    <3> QED
      BY <3>3 DEF LockOf
  <2>2. ASSUME NEW u \in Traders, NEW x \in Buckets
        PROVE  position'[u][x].locked =
                   position[u][x].locked + (LockOf(order'[id], u, x) - LockOf(order[id], u, x))
    <3>1. LockOf(order[id], u, x) = 0 /\ LockOf(order'[id], u, x) = AtBalance(u, x, t, bucket, amount)
      BY <1>3, <1>4, <1>5, LockIs
    <3>2. AtBalance(u, x, t, bucket, amount) \in Int
      BY <1>6 DEF AtBalance
    <3> QED
      BY <1>7, <3>1, <3>2
  <2> QED
    BY <2>1, <2>2 DEF LocksMove
<1> QED
  BY <1>8, <1>9 DEF MoneyStep

\* What unlinking leaves of the locks and of the money.
LEMMA UnlinkMoney ==
    ASSUME TypeOK, NEW i \in Ids, NEW status \in {"Filled", "Canceled"}, Unlink(i, status)
    PROVE  /\ market'.backing_reserve = market.backing_reserve
           /\ market'.yes_supply = market.yes_supply /\ market'.no_supply = market.no_supply
           /\ \A j \in Ids \ {i}, u \in Traders, x \in Buckets :
                  LockOf(order'[j], u, x) = LockOf(order[j], u, x)
           /\ \A u \in Traders, x \in Buckets : LockOf(order'[i], u, x) = 0
<1>1. order \in [Ids -> OrderRecord] /\ market \in MarketRecord
  BY DEF TypeOK
<1>2. /\ order' = OrdersWithout(i, status)
      /\ market' = [market EXCEPT !.open_order_count = market.open_order_count - 1]
  BY DEF Unlink
<1>3. order'[i].status # "Open"
  BY <1>1, <1>2 DEF OrdersWithout, OrderRecord
<1>4. ASSUME NEW j \in Ids \ {i}, NEW u \in Traders, NEW x \in Buckets
      PROVE  LockOf(order'[j], u, x) = LockOf(order[j], u, x)
  <2>1. order[j] \in OrderRecord
    BY <1>1
  <2>2. \E next, previous :
            order'[j] = [order[j] EXCEPT !.next_order = next, !.previous_order = previous]
    BY <1>2 DEF OrdersWithout
  <2>3. /\ order'[j].status = order[j].status /\ order'[j].owner = order[j].owner
        /\ order'[j].list = order[j].list
        /\ order'[j].locked_collateral = order[j].locked_collateral
    BY <2>1, <2>2 DEF OrderRecord
  <2> QED
    BY <2>3 DEF LockOf
<1>5. /\ market'.backing_reserve = market.backing_reserve
      /\ market'.yes_supply = market.yes_supply /\ market'.no_supply = market.no_supply
  BY <1>1, <1>2 DEF MarketRecord
<1> QED
  BY <1>3, <1>4, <1>5, LockIs

\* A cancellation gives the lock back.
LEMMA CancelMoney ==
    ASSUME TypeOK, NEW t \in Traders, NEW i \in Ids, CancelPredictionOrder(t, i)
    PROVE  MoneyStep
<1> DEFINE o      == order[i]
           bucket == LockedBucket(o.list)
           amount == o.locked_collateral
<1>1. o.list \in Lists /\ amount \in Nat
  BY DEF TypeOK, OrderRecord
<1>2. bucket \in Buckets
  BY <1>1 DEF LockedBucket, Lists, Buckets
<1>3. /\ o.owner = t /\ o.status = "Open" /\ Unlink(i, "Canceled")
      /\ position' = Change(position, t, bucket, amount, -amount)
      /\ UNCHANGED <<fees, outside>>
  BY DEF CancelPredictionOrder, Linked, OpenAt
<1>4. \A u \in Traders, x \in Buckets : LockOf(o, u, x) = AtBalance(u, x, t, bucket, amount)
  BY <1>3, LockIs
<1> HIDE DEF bucket, amount
<1>5. -amount \in Int /\ amount \in Int /\ amount + (-amount) = 0
  BY <1>1
<1>6. /\ \A x \in Buckets : Held(position', x) = Held(position, x)
      /\ \A u \in Traders, x \in Buckets :
             position'[u][x].locked = position[u][x].locked + AtBalance(u, x, t, bucket, -amount)
  <2>1. position \in Balances
    BY MoneyNumbers
  <2>2. \A x \in Buckets : Held(Change(position, t, bucket, amount, -amount), x) = Held(position, x)
    BY ONLY <1>2, <1>5, <2>1, t \in Traders, LockMoves
  <2>3. \A u \in Traders, x \in Buckets :
            Change(position, t, bucket, amount, -amount)[u][x].locked =
                position[u][x].locked + AtBalance(u, x, t, bucket, -amount)
    BY ONLY <1>2, <1>5, <2>1, t \in Traders, ChangeMoves
  <2> QED
    BY ONLY <1>3, <2>2, <2>3
<1>7. /\ market'.backing_reserve = market.backing_reserve
      /\ market'.yes_supply = market.yes_supply /\ market'.no_supply = market.no_supply
      /\ \A j \in Ids \ {i}, u \in Traders, x \in Buckets :
             LockOf(order'[j], u, x) = LockOf(order[j], u, x)
      /\ \A u \in Traders, x \in Buckets : LockOf(order'[i], u, x) = 0
  BY <1>3, UnlinkMoney
<1>8. MoneyKept
  BY <1>3, <1>6, <1>7 DEF MoneyKept, Buckets, Contracts
<1>9. ASSUME NEW u \in Traders, NEW x \in Buckets
      PROVE  position'[u][x].locked =
                 position[u][x].locked + (LockOf(order'[i], u, x) - LockOf(o, u, x))
  <2>1. AtBalance(u, x, t, bucket, -amount) = 0 - AtBalance(u, x, t, bucket, amount)
    BY <1>5 DEF AtBalance
  <2> QED
    BY <1>4, <1>6, <1>7, <2>1
<1>10. LocksMove(i)
  BY <1>7, <1>9 DEF LocksMove
<1> QED
  BY <1>8, <1>10 DEF MoneyStep

\* n is c after a and then b of t changed: what they hold together by f + k and
\* g + m, and the locks by k and m.
MovedTwice(n, c, t, a, f, k, b, g, m) ==
    /\ n \in Balances
    /\ \A x \in Buckets : Held(n, x) = Held(c, x) + At(x, a, f + k) + At(x, b, g + m)
    /\ \A u \in Traders, x \in Buckets :
           n[u][x].locked =
               c[u][x].locked + AtBalance(u, x, t, a, k) + AtBalance(u, x, t, b, m)

\* Two changes of one position.
LEMMA TwoMoves ==
    ASSUME NEW c \in Balances, NEW t \in Traders,
           NEW a \in Buckets, NEW f \in Int, NEW k \in Int,
           NEW b \in Buckets, NEW g \in Int, NEW m \in Int,
           NEW n, n = Change(Change(c, t, a, f, k), t, b, g, m)
    PROVE  MovedTwice(n, c, t, a, f, k, b, g, m)
<1> DEFINE c1 == Change(c, t, a, f, k)
           c2 == Change(c1, t, b, g, m)
<1>1. /\ c1 \in Balances
      /\ \A x \in Buckets : Held(c1, x) = Held(c, x) + At(x, a, f + k)
      /\ \A u \in Traders, x \in Buckets :
             c1[u][x].locked = c[u][x].locked + AtBalance(u, x, t, a, k)
  BY ChangeMoves
<1> HIDE DEF c1
<1>2. /\ c2 \in Balances
      /\ \A x \in Buckets : Held(c2, x) = Held(c1, x) + At(x, b, g + m)
      /\ \A u \in Traders, x \in Buckets :
             c2[u][x].locked = c1[u][x].locked + AtBalance(u, x, t, b, m)
  BY <1>1, ChangeMoves
<1>3. c2 = n
  BY DEF c1
<1> HIDE DEF c2
<1> QED
  BY <1>1, <1>2, <1>3 DEF MovedTwice

\* A fill takes the fee off what the two positions hold together and its backing
\* off the maker's lock.
LEMMA FillMoves ==
    ASSUME TypeOK, NEW t \in Traders, NEW l \in Lists, NEW limit \in Prices,
           NEW q \in Quantities, NEW bps \in FeeRates, NEW i \in Ids,
           MatchPredictionOrder(t, l, limit, q, bps, i)
    PROVE  LET o    == order[i]
               fill == FillBase(q, o.remaining_quantity)
               fee  == TakerFee(o.price * fill, bps)
           IN  /\ \A x \in Buckets : Held(position', x) = Held(position, x) + At(x, "cash", -fee)
               /\ \A u \in Traders, x \in Buckets :
                      position'[u][x].locked =
                          position[u][x].locked
                          + AtBalance(u, x, o.owner, LockedBucket(o.list), -Debit(o, fill))
<1> DEFINE o        == order[i]
           owner    == o.owner
           c        == o.list[1]
           fill     == FillBase(q, o.remaining_quantity)
           notional == o.price * fill
           fee      == TakerFee(notional, bps)
           bucket   == LockedBucket(o.list)
           debit    == Debit(o, fill)
<1>1. /\ o.list \in Lists /\ c \in Contracts
      /\ (o.list[2] = "Ask") <=> (l[2] = "Bid")
      /\ owner \in Traders /\ owner # t
      /\ fill \in Int /\ notional \in Int /\ fee \in Int
  BY MatchParts
<1>2. position \in Balances /\ c \in Buckets /\ "cash" \in Buckets /\ c # "cash"
  BY <1>1, MoneyNumbers DEF Buckets, Contracts
<1>3. /\ \A x \in Buckets : Held(position, x) \in Int
      /\ \A u \in Traders, x \in Buckets : position[u][x].locked \in Int
  BY <1>2, HeldType DEF Balances, BalancesOf
<1>4. IF l[2] = "Bid" THEN SettleBuy(t, o, fill, notional, fee)
                      ELSE SettleSell(t, o, fill, notional, fee)
  BY DEF MatchPredictionOrder
<1>5. CASE l[2] = "Bid"
  <2>1. bucket = c /\ debit = fill
    BY <1>1, <1>5 DEF LockedBucket, Debit, Backing
  <2> DEFINE taken == Change(Change(position, t, "cash", -(notional + fee), 0), t, c, fill, 0)
             after == Change(Change(taken, owner, "cash", notional, 0), owner, c, 0, -fill)
  <2>2. position' = after
    BY <1>4, <1>5 DEF SettleBuy
  <2> HIDE DEF owner, c, fill, notional, fee, bucket, debit
  <2>3. -(notional + fee) \in Int /\ -fill \in Int /\ 0 \in Int
    BY <1>1
  <2>4. MovedTwice(taken, position, t, "cash", -(notional + fee), 0, c, fill, 0)
    BY ONLY <1>1, <1>2, <2>3, t \in Traders, TwoMoves
  <2> HIDE DEF taken
  <2>5. MovedTwice(after, taken, owner, "cash", notional, 0, c, 0, -fill)
    <3>1. taken \in Balances
      BY <2>4 DEF MovedTwice
    <3> QED
      BY ONLY <1>1, <1>2, <2>3, <3>1, TwoMoves
  <2> HIDE DEF after
  <2>6. \A x \in Buckets : Held(position', x) = Held(position, x) + At(x, "cash", -fee)
    BY <1>1, <1>2, <1>3, <2>2, <2>4, <2>5 DEF At, MovedTwice
  <2>7. \A u \in Traders, x \in Buckets :
            position'[u][x].locked = position[u][x].locked + AtBalance(u, x, owner, c, -fill)
    BY <1>1, <1>3, <2>2, <2>4, <2>5 DEF AtBalance, MovedTwice
  <2> QED
    BY <2>1, <2>6, <2>7 DEF owner, fill, notional, fee, bucket, debit
<1>6. CASE l[2] # "Bid"
  <2>1. bucket = "cash" /\ debit = notional
    <3>1. o.list[2] = "Bid"
      BY <1>1, <1>6 DEF Lists, Sides
    <3> QED
      BY <3>1 DEF LockedBucket, Debit, Backing
  <2> DEFINE taken == Change(Change(position, t, c, -fill, 0), t, "cash", notional - fee, 0)
             after == Change(Change(taken, owner, "cash", 0, -notional), owner, c, fill, 0)
  <2>2. position' = after
    BY <1>4, <1>6 DEF SettleSell
  <2> HIDE DEF owner, c, fill, notional, fee, bucket, debit
  <2>3. notional - fee \in Int /\ -notional \in Int /\ -fill \in Int /\ 0 \in Int
    BY <1>1
  <2>4. MovedTwice(taken, position, t, c, -fill, 0, "cash", notional - fee, 0)
    BY ONLY <1>1, <1>2, <2>3, t \in Traders, TwoMoves
  <2> HIDE DEF taken
  <2>5. MovedTwice(after, taken, owner, "cash", 0, -notional, c, fill, 0)
    <3>1. taken \in Balances
      BY <2>4 DEF MovedTwice
    <3> QED
      BY ONLY <1>1, <1>2, <2>3, <3>1, TwoMoves
  <2> HIDE DEF after
  <2>6. \A x \in Buckets : Held(position', x) = Held(position, x) + At(x, "cash", -fee)
    BY <1>1, <1>2, <1>3, <2>2, <2>4, <2>5 DEF At, MovedTwice
  <2>7. \A u \in Traders, x \in Buckets :
            position'[u][x].locked =
                position[u][x].locked + AtBalance(u, x, owner, "cash", -notional)
    BY <1>1, <1>3, <2>2, <2>4, <2>5 DEF AtBalance, MovedTwice
  <2> QED
    BY <2>1, <2>6, <2>7 DEF owner, fill, notional, fee, bucket, debit
<1> QED
  BY <1>5, <1>6

\* A fill: the fee goes to the fees of the question, the maker's lock shrinks by
\* what the fill was backed with.
LEMMA MatchMoney ==
    ASSUME TypeOK, NEW t \in Traders, NEW l \in Lists, NEW limit \in Prices,
           NEW q \in Quantities, NEW bps \in FeeRates, NEW i \in Ids,
           MatchPredictionOrder(t, l, limit, q, bps, i)
    PROVE  MoneyStep
<1> DEFINE o      == order[i]
           fill   == FillBase(q, o.remaining_quantity)
           fee    == TakerFee(o.price * fill, bps)
           bucket == LockedBucket(o.list)
           debit  == Debit(o, fill)
           lock   == o.locked_collateral
<1>1. /\ o.list \in Lists /\ o.owner \in Traders
      /\ o.remaining_quantity \in Nat /\ fill \in Int /\ fee \in Int
      /\ lock = Backing(o.list, o.price, o.remaining_quantity)
      /\ lock \in Nat /\ debit \in Int
  BY MatchParts DEF Debit
<1>2. /\ order \in [Ids -> OrderRecord] /\ o.status = "Open"
      /\ fees' = fees + fee /\ UNCHANGED outside
      /\ \/ fill = o.remaining_quantity /\ Unlink(i, "Filled")
         \/ /\ order' = [order EXCEPT ![i].remaining_quantity = o.remaining_quantity - fill,
                                      ![i].locked_collateral = lock - debit]
            /\ market' = market
  BY DEF MatchPredictionOrder, FifoMaker, OpenAt, TypeOK
<1>3. /\ \A x \in Buckets : Held(position', x) = Held(position, x) + At(x, "cash", -fee)
      /\ \A u \in Traders, x \in Buckets :
             position'[u][x].locked =
                 position[u][x].locked + AtBalance(u, x, o.owner, bucket, -debit)
  BY FillMoves
<1>4. fill = o.remaining_quantity => debit = lock
  BY <1>1 DEF Debit
<1> HIDE DEF fill, fee, bucket, debit, lock
<1>5. \A u \in Traders, x \in Buckets :
          LockOf(o, u, x) = AtBalance(u, x, o.owner, bucket, lock)
  BY <1>2, LockIs DEF bucket, lock
<1>6. /\ market'.backing_reserve = market.backing_reserve
      /\ market'.yes_supply = market.yes_supply /\ market'.no_supply = market.no_supply
  BY <1>2, UnlinkMoney
<1>7. MoneyKept
  <2>1. /\ Held(position', "cash") = Held(position, "cash") + (-fee)
        /\ Held(position', "Yes") = Held(position, "Yes") + 0
        /\ Held(position', "No") = Held(position, "No") + 0
    BY <1>3 DEF At, Buckets, Contracts
  <2> QED
    BY <1>1, <1>2, <1>6, <2>1, MoneyNumbers DEF MoneyKept
<1>8. /\ \A j \in Ids \ {i}, u \in Traders, x \in Buckets :
             LockOf(order'[j], u, x) = LockOf(order[j], u, x)
      /\ \A u \in Traders, x \in Buckets :
             LockOf(order'[i], u, x) = AtBalance(u, x, o.owner, bucket, lock - debit)
  <2>1. CASE fill = o.remaining_quantity /\ Unlink(i, "Filled")
    <3>1. lock - debit = 0
      BY <1>1, <1>4, <2>1
    <3> QED
      BY <2>1, <3>1, UnlinkMoney DEF AtBalance
  <2>2. CASE order' = [order EXCEPT ![i].remaining_quantity = o.remaining_quantity - fill,
                                    ![i].locked_collateral = lock - debit]
    <3> DEFINE left == [o EXCEPT !.remaining_quantity = o.remaining_quantity - fill,
                                 !.locked_collateral = lock - debit]
    <3>1. o \in OrderRecord /\ order' = [order EXCEPT ![i] = left]
      BY <1>2, <2>2
    <3>2. /\ left.status = "Open" /\ left.owner = o.owner /\ left.list = o.list
          /\ left.locked_collateral = lock - debit
      BY <1>2, <3>1 DEF OrderRecord
    <3> HIDE DEF left
    <3>3. order'[i] = left /\ \A j \in Ids \ {i} : order'[j] = order[j]
      BY <1>2, <3>1
    <3> QED
      BY <3>2, <3>3, LockIs DEF bucket
  <2> QED
    BY <1>2, <2>1, <2>2
<1>9. ASSUME NEW u \in Traders, NEW x \in Buckets
      PROVE  position'[u][x].locked =
                 position[u][x].locked + (LockOf(order'[i], u, x) - LockOf(o, u, x))
  <2>1. AtBalance(u, x, o.owner, bucket, -debit) =
            AtBalance(u, x, o.owner, bucket, lock - debit) - AtBalance(u, x, o.owner, bucket, lock)
    BY <1>1 DEF AtBalance
  <2> QED
    BY <1>3, <1>5, <1>8, <2>1
<1>10. LocksMove(i)
  BY <1>8, <1>9 DEF LocksMove
<1> QED
  BY <1>7, <1>10 DEF MoneyStep

\* Cash into or out of one trader's shared wallet.
LEMMA SharedMoves ==
    ASSUME TypeOK, NEW t \in Traders, NEW d \in Int,
           shared' = [shared EXCEPT ![t] = shared[t] + d]
    PROVE  SumFunction(shared') = SumFunction(shared) + d
<1>1. shared \in [Traders -> Int] /\ shared' \in [Traders -> Int]
  BY DEF TypeOK
<1>2. /\ shared'[t] = shared[t] + d
      /\ \A u \in Traders : u # t => shared'[u] = shared[u]
  BY <1>1
<1>3. IsFiniteSet(Traders)
  OBVIOUS
<1> QED
  BY ONLY <1>1, <1>2, <1>3, t \in Traders, d \in Int, SumMoved

\* An issue (or a burn) of contracts against the reserve, for cash of the
\* position or of the shared wallet.
LEMMA SetMoney ==
    ASSUME TypeOK, NEW t \in Traders,
           NEW cash \in Int, NEW d \in Int, cash + d = 0, NEW yes \in Int, NEW no \in Int,
           market' = Reserve(market, cash, yes, no), order' = order, fees' = fees,
           \/ /\ position' = Hold(Change(position, t, "cash", d, 0), t, yes, no)
              /\ vault' = vault /\ shared' = shared /\ asset_vault' = asset_vault
           \/ /\ position' = Hold(position, t, yes, no)
              /\ shared' = [shared EXCEPT ![t] = shared[t] + d]
              /\ asset_vault' = asset_vault + d /\ vault' = vault - d
    PROVE  MoneyStep
<1>1. /\ position \in Balances /\ market \in MarketRecord
      /\ \A u \in Traders, x \in Buckets : position[u][x].locked \in Int
  BY MoneyNumbers DEF Balances, BalancesOf
<1>2. /\ market'.backing_reserve = market.backing_reserve + cash
      /\ market'.yes_supply = market.yes_supply + yes
      /\ market'.no_supply = market.no_supply + no
  BY <1>1 DEF Reserve, MarketRecord
<1>3. /\ \/ /\ Held(position', "cash") = Held(position, "cash") + d
            /\ vault' = vault /\ shared' = shared /\ asset_vault' = asset_vault
         \/ /\ Held(position', "cash") = Held(position, "cash")
            /\ shared' = [shared EXCEPT ![t] = shared[t] + d]
            /\ asset_vault' = asset_vault + d /\ vault' = vault - d
      /\ Held(position', "Yes") = Held(position, "Yes") + yes
      /\ Held(position', "No") = Held(position, "No") + no
      /\ \A u \in Traders, x \in Buckets : position'[u][x].locked = position[u][x].locked
  <2>1. CASE /\ position' = Hold(Change(position, t, "cash", d, 0), t, yes, no)
             /\ vault' = vault /\ shared' = shared /\ asset_vault' = asset_vault
    <3> DEFINE n == Hold(Change(position, t, "cash", d, 0), t, yes, no)
    <3>1. /\ Held(n, "cash") = Held(position, "cash") + d
          /\ Held(n, "Yes") = Held(position, "Yes") + yes
          /\ Held(n, "No") = Held(position, "No") + no
          /\ \A u \in Traders, x \in Buckets : n[u][x].locked = position[u][x].locked
      BY <1>1, HoldMoves
    <3> HIDE DEF n
    <3> QED
      BY <2>1, <3>1 DEF n
  <2>2. CASE /\ position' = Hold(position, t, yes, no)
             /\ shared' = [shared EXCEPT ![t] = shared[t] + d]
             /\ asset_vault' = asset_vault + d /\ vault' = vault - d
    <3> DEFINE n == Hold(position, t, yes, no)
    <3>1. /\ Held(n, "cash") = Held(position, "cash")
          /\ Held(n, "Yes") = Held(position, "Yes") + yes
          /\ Held(n, "No") = Held(position, "No") + no
          /\ \A u \in Traders, x \in Buckets : n[u][x].locked = position[u][x].locked
      BY <1>1, HoldMoves
    <3> HIDE DEF n
    <3> QED
      BY <2>2, <3>1 DEF n
  <2> QED
    BY <2>1, <2>2
<1>4. MoneyKept
  <2> DEFINE held  == Held(position', "cash")
             total == SumFunction(shared')
  <2>1. \/ /\ held = Held(position, "cash") + d
           /\ vault' = vault /\ total = SumFunction(shared) /\ asset_vault' = asset_vault
        \/ /\ held = Held(position, "cash")
           /\ total = SumFunction(shared) + d
           /\ asset_vault' = asset_vault + d /\ vault' = vault - d
    BY <1>3, SharedMoves
  <2>2. /\ vault' - market'.backing_reserve - fees' - held
               = vault - market.backing_reserve - fees - Held(position, "cash")
        /\ asset_vault' - total = asset_vault - SumFunction(shared)
    <3> HIDE DEF held, total
    <3> QED
      BY <1>2, <2>1, MoneyNumbers
  <2> QED
    BY <1>2, <1>3, <2>2, MoneyNumbers DEF MoneyKept
<1> QED
  BY <1>3, <1>4 DEF MoneyStep, LocksStand

LEMMA CompleteSetsMoney ==
    ASSUME TypeOK, CompleteSets
    PROVE  MoneyStep
<1>1. PICK t \in Traders :
          \/ \E q \in Quantities : \/ SplitLegacy(t, q) \/ MergeLegacy(t, q)
                                   \/ SplitShared(t, q) \/ MergeShared(t, q)
          \/ \E yes, no \in Quantities \cup {0} : Redeem(t, yes, no)
  BY DEF CompleteSets
<1>2. /\ \A q \in Quantities : q \in Nat /\ q * Payout \in Nat
      /\ asset_vault \in Int /\ vault \in Int /\ shared[t] \in Int
  BY MoneyNumbers DEF TypeOK
<1>3. ASSUME NEW q \in Quantities, SplitLegacy(t, q)
      PROVE  MoneyStep
  <2> DEFINE cash == q * Payout
  <2>1. /\ position' = Hold(Change(position, t, "cash", -cash, 0), t, q, q)
        /\ market' = Reserve(market, cash, q, q)
        /\ order' = order /\ fees' = fees
        /\ vault' = vault /\ shared' = shared /\ asset_vault' = asset_vault
    BY <1>3 DEF SplitLegacy
  <2>2. cash \in Int /\ q \in Int
    BY <1>2
  <2> HIDE DEF cash
  <2>3. -cash \in Int /\ cash + (-cash) = 0
    BY <2>2
  <2> QED
    BY <2>1, <2>2, <2>3, SetMoney
<1>4. ASSUME NEW q \in Quantities, MergeLegacy(t, q)
      PROVE  MoneyStep
  <2> DEFINE cash == q * Payout
  <2>1. /\ position' = Hold(Change(position, t, "cash", cash, 0), t, -q, -q)
        /\ market' = Reserve(market, -cash, -q, -q)
        /\ order' = order /\ fees' = fees
        /\ vault' = vault /\ shared' = shared /\ asset_vault' = asset_vault
    BY <1>4 DEF MergeLegacy
  <2>2. cash \in Int /\ -q \in Int
    BY <1>2
  <2> HIDE DEF cash
  <2>3. -cash \in Int /\ -cash + cash = 0
    BY <2>2
  <2> QED
    BY <2>1, <2>2, <2>3, SetMoney
<1>5. ASSUME NEW q \in Quantities, SplitShared(t, q)
      PROVE  MoneyStep
  <2> DEFINE cash == q * Payout
             d    == -cash
  <2>1. /\ shared' = [shared EXCEPT ![t] = shared[t] - cash]
        /\ asset_vault' = asset_vault - cash /\ vault' = vault + cash
        /\ position' = Hold(position, t, q, q)
        /\ market' = Reserve(market, cash, q, q)
        /\ order' = order /\ fees' = fees
    BY <1>5 DEF SplitShared
  <2>2. cash \in Int /\ q \in Int
    BY <1>2
  <2> HIDE DEF cash
  <2>3. /\ d \in Int /\ cash + d = 0
        /\ shared[t] - cash = shared[t] + d
        /\ asset_vault' = asset_vault + d /\ vault' = vault - d
    BY <1>2, <2>1, <2>2
  <2> HIDE DEF d
  <2> QED
    BY <2>1, <2>2, <2>3, SetMoney
<1>6. ASSUME NEW cash \in Nat, NEW yes \in Nat, NEW no \in Nat, PayOut(t, cash, yes, no)
      PROVE  MoneyStep
  <2>1. /\ shared' = [shared EXCEPT ![t] = shared[t] + cash]
        /\ asset_vault' = asset_vault + cash /\ vault' = vault - cash
        /\ position' = Hold(position, t, -yes, -no)
        /\ market' = Reserve(market, -cash, -yes, -no)
        /\ order' = order /\ fees' = fees
    BY <1>6 DEF PayOut
  <2>2. -cash \in Int /\ cash \in Int /\ -cash + cash = 0 /\ -yes \in Int /\ -no \in Int
    OBVIOUS
  <2> QED
    BY <2>1, <2>2, SetMoney
<1>7. ASSUME NEW q \in Quantities, MergeShared(t, q)
      PROVE  MoneyStep
  <2>1. PayOut(t, q * Payout, q, q)
    BY <1>7 DEF MergeShared
  <2> QED
    BY <1>2, <1>6, <2>1
<1>8. ASSUME NEW yes \in Quantities \cup {0}, NEW no \in Quantities \cup {0}, Redeem(t, yes, no)
      PROVE  MoneyStep
  <2>1. yes \in Nat /\ no \in Nat
    OBVIOUS
  <2>2. market.final_outcome \in Outcomes
    BY <1>8 DEF Redeem, TypeOK, MarketRecord
  <2>3. PayoutOf(market.final_outcome, yes, no) \in Nat
    BY <2>1, <2>2, PayoutType
  <2> QED
    BY <1>6, <1>8, <2>1, <2>3 DEF Redeem
<1> QED
  BY <1>1, <1>3, <1>4, <1>5, <1>7, <1>8

\* Free cash that comes in, goes out or moves to the shared wallet.
LEMMA CustodyMoney ==
    ASSUME TypeOK, Custody
    PROVE  MoneyStep
<1>1. PICK t \in Traders : \/ InitializePosition(t)
                           \/ \E amount \in TransferAmounts :
                                  \/ DepositCollateral(t, amount)
                                  \/ WithdrawCollateral(t, amount)
                                  \/ MigratePredictionAsset(t, amount)
  BY DEF Custody
<1>2. /\ position \in Balances
      /\ \A u \in Traders, x \in Buckets : position[u][x].locked \in Int
  BY MoneyNumbers DEF Balances, BalancesOf
<1>3. ASSUME NEW d \in Int, order' = order, fees' = fees, market' = market,
             position' = Change(position, t, "cash", d, 0), vault' = vault + d,
             \/ shared' = shared /\ asset_vault' = asset_vault
             \/ /\ shared' = [shared EXCEPT ![t] = shared[t] + (-d)]
                /\ asset_vault' = asset_vault + (-d)
      PROVE  MoneyStep
  <2>1. "cash" \in Buckets /\ "Yes" \in Buckets /\ "No" \in Buckets
    BY DEF Buckets, Contracts
  <2>2. /\ \A x \in Buckets : Held(position', x) = Held(position, x) + At(x, "cash", d + 0)
        /\ \A u \in Traders, x \in Buckets :
               position'[u][x].locked = position[u][x].locked + AtBalance(u, x, t, "cash", 0)
    BY <1>2, <1>3, <2>1, ChangeMoves
  <2>3. /\ Held(position', "cash") = Held(position, "cash") + d
        /\ Held(position', "Yes") = Held(position, "Yes")
        /\ Held(position', "No") = Held(position, "No")
    BY <1>3, <2>1, <2>2, MoneyNumbers DEF At
  <2>4. \A u \in Traders, x \in Buckets : position'[u][x].locked = position[u][x].locked
    BY <1>2, <2>2 DEF AtBalance
  <2>5. MoneyKept
    <3>1. CASE shared' = shared /\ asset_vault' = asset_vault
      BY <1>3, <2>3, <3>1, MoneyNumbers DEF MoneyKept
    <3>2. CASE /\ shared' = [shared EXCEPT ![t] = shared[t] + (-d)]
               /\ asset_vault' = asset_vault + (-d)
      <4>1. -d \in Int
        BY <1>3
      <4>2. SumFunction(shared') = SumFunction(shared) + (-d)
        BY <3>2, <4>1, SharedMoves
      <4> QED
        BY <1>3, <2>3, <3>2, <4>2, MoneyNumbers DEF MoneyKept
    <3> QED
      BY <1>3, <3>1, <3>2
  <2> QED
    BY <1>3, <2>4, <2>5 DEF MoneyStep, LocksStand
<1>4. CASE InitializePosition(t)
  BY <1>4 DEF InitializePosition, MoneyStep, MoneyKept, LocksStand
<1>5. ASSUME NEW amount \in TransferAmounts, DepositCollateral(t, amount)
      PROVE  MoneyStep
  <2>1. amount \in Int
    OBVIOUS
  <2> QED
    BY <1>3, <1>5, <2>1 DEF DepositCollateral
<1>6. ASSUME NEW amount \in TransferAmounts, WithdrawCollateral(t, amount)
      PROVE  MoneyStep
  <2>1. /\ position' = Change(position, t, "cash", -amount, 0) /\ vault' = vault - amount
        /\ order' = order /\ fees' = fees /\ market' = market
        /\ shared' = shared /\ asset_vault' = asset_vault
    BY <1>6 DEF WithdrawCollateral
  <2>2. -amount \in Int /\ vault' = vault + (-amount)
    BY <2>1, MoneyNumbers
  <2> QED
    BY <1>3, <2>1, <2>2
<1>7. ASSUME NEW amount \in TransferAmounts, MigratePredictionAsset(t, amount)
      PROVE  MoneyStep
  <2> DEFINE d == -amount
  <2>1. /\ position' = Change(position, t, "cash", d, 0) /\ vault' = vault - amount
        /\ order' = order /\ fees' = fees /\ market' = market
        /\ shared' = [shared EXCEPT ![t] = shared[t] + amount]
        /\ asset_vault' = asset_vault + amount
    BY <1>7 DEF MigratePredictionAsset
  <2>2. d \in Int /\ vault' = vault + d /\ amount = -d
    BY <2>1, MoneyNumbers
  <2> HIDE DEF d
  <2> QED
    BY <1>3, <2>1, <2>2
<1> QED
  BY <1>1, <1>4, <1>5, <1>6, <1>7

LEMMA NextMoney ==
    ASSUME TypeOK, OrdersResting, [Next]_vars
    PROVE  MoneyStep
<1>1. CASE PlaceOrder
  <2>1. PICK t \in Traders, l \in Lists, p \in Prices, q \in Quantities :
            Placement(t, l, p, q)
    BY <1>1, Placements
  <2>2. \E previous : Placing(t, l, p, q, previous)
    BY <2>1 DEF Placement, AppendPredictionOrder, NewLevel
  <2> QED
    BY <1>1, <2>2, PlacingMoney DEF PlaceOrder
<1>2. CASE CancelOrder
  BY <1>2, CancelMoney DEF CancelOrder
<1>3. CASE MatchOrder
  BY <1>3, MatchMoney DEF MatchOrder
<1>4. CASE Custody
  BY <1>4, CustodyMoney
<1>5. CASE CompleteSets
  BY <1>5, CompleteSetsMoney
<1>6. CASE Lifecycle
  BY <1>6, MoneyNumbers DEF Lifecycle, AdvanceMarket, MoneyStep, MoneyKept, LocksStand, MarketRecord
<1>7. CASE UNCHANGED vars
  BY <1>7 DEF vars, MoneyStep, MoneyKept, LocksStand
<1> QED
  BY <1>1, <1>2, <1>3, <1>4, <1>5, <1>6, <1>7 DEF Next

\* Nobody holds anything at first.
LEMMA InitMoney ==
    ASSUME Init
    PROVE  /\ \A x \in Buckets : Held(position, x) = 0
           /\ SumFunction(shared) = 0
<1>1. ASSUME NEW x \in Buckets PROVE Held(position, x) = 0
  <2> DEFINE f == [t \in Traders |-> position[t][x].free + position[t][x].locked]
  <2>1. f \in [Traders -> Int] /\ \A t \in Traders : f[t] = 0
    BY DEF Init
  <2> HIDE DEF f
  <2>2. SumFunction(f) = 0
    BY <2>1, SumAllZero
  <2> QED
    BY <2>2 DEF Held, f
<1>2. SumFunction(shared) = 0
  <2>1. shared \in [Traders -> Int] /\ \A t \in Traders : shared[t] = 0
    BY DEF Init
  <2> QED
    BY <2>1, SumAllZero
<1> QED
  BY <1>1, <1>2

\* Custody of a question (withdraw_prediction_collateral.rs, match, split, merge,
\* redeem, migrate): the question's vault holds exactly its reserve, the cash of
\* its positions and its fees, and the shared vault exactly what the shared
\* wallets were credited, for all traders, payouts, prices and amounts.
THEOREM VaultsStayBacked == Spec => []VaultsBacked
<1>1. Init => VaultsBacked
  <2> SUFFICES ASSUME Init PROVE VaultsBacked
    OBVIOUS
  <2>1. Held(position, "cash") = 0 /\ SumFunction(shared) = 0
    BY InitMoney DEF Buckets
  <2> QED
    BY <2>1 DEF Init, VaultsBacked
<1>2. TypeOK /\ TypeOK' /\ OrdersResting /\ VaultsBacked /\ [Next]_vars => VaultsBacked'
  <2> SUFFICES ASSUME TypeOK, TypeOK', OrdersResting, VaultsBacked, [Next]_vars
               PROVE  VaultsBacked'
    OBVIOUS
  <2>1. MoneyKept
    BY NextMoney DEF MoneyStep
  <2>2. /\ Held(position', "cash") \in Int /\ SumFunction(shared') \in Int
        /\ vault' \in Int /\ fees' \in Int /\ asset_vault' \in Int
        /\ market'.backing_reserve \in Int
    <3>1. position' \in Balances /\ "cash" \in Buckets
      BY ClaimsAreBalances DEF TypeOK, Claims, Buckets
    <3>2. Held(position', "cash") \in Int
      BY <3>1, HeldType
    <3>3. shared' \in [Traders -> Int] /\ IsFiniteSet(Traders)
      BY DEF TypeOK
    <3>4. SumFunction(shared') \in Int
      BY ONLY <3>3, SumFunctionType
    <3> QED
      BY <3>2, <3>4 DEF TypeOK, MarketRecord
  <2> QED
    BY <2>1, <2>2, MoneyNumbers DEF MoneyKept, VaultsBacked
<1> QED
  BY <1>1, <1>2, TypeCorrect, BookHolds, PTL DEF Spec, BookInv

\* Contracts of a question (split, merge, redeem and match of both designs): the
\* YES and NO contracts in the positions, free or locked, are exactly the supplies
\* the question counts.
THEOREM SuppliesStayHeld == Spec => []SuppliesHeld
<1>1. Init => SuppliesHeld
  BY InitMoney DEF Init, SuppliesHeld, Buckets, Contracts
<1>2. TypeOK /\ TypeOK' /\ OrdersResting /\ SuppliesHeld /\ [Next]_vars => SuppliesHeld'
  <2> SUFFICES ASSUME TypeOK, TypeOK', OrdersResting, SuppliesHeld, [Next]_vars
               PROVE  SuppliesHeld'
    OBVIOUS
  <2>1. MoneyKept
    BY NextMoney DEF MoneyStep
  <2>2. /\ Held(position', "Yes") \in Int /\ Held(position', "No") \in Int
        /\ market'.yes_supply \in Int /\ market'.no_supply \in Int
    <3>1. position' \in Balances /\ "Yes" \in Buckets /\ "No" \in Buckets
      BY ClaimsAreBalances DEF TypeOK, Claims, Buckets, Contracts
    <3>2. Held(position', "Yes") \in Int /\ Held(position', "No") \in Int
      BY <3>1, HeldType
    <3> QED
      BY <3>2 DEF TypeOK, MarketRecord
  <2> QED
    BY <2>1, <2>2, MoneyNumbers DEF MoneyKept, SuppliesHeld
<1> QED
  BY <1>1, <1>2, TypeCorrect, BookHolds, PTL DEF Spec, BookInv

\* Locked amounts that move with one order's lock stay the sums of the locks.
LEMMA LocksFollow ==
    ASSUME TypeOK, TypeOK', LocksBacked, NEW i \in Ids, LocksMove(i)
    PROVE  LocksBacked'
<1> SUFFICES ASSUME NEW t \in Traders, NEW x \in Buckets
             PROVE  position'[t][x].locked =
                        SumFunction([j \in Ids |-> LockOf(order'[j], t, x)])
  BY DEF LocksBacked
<1> DEFINE f == [j \in Ids |-> LockOf(order[j], t, x)]
           g == [j \in Ids |-> LockOf(order'[j], t, x)]
           d == LockOf(order'[i], t, x) - LockOf(order[i], t, x)
<1>1. f \in [Ids -> Int] /\ g \in [Ids -> Int]
  <2>1. \A j \in Ids : order[j] \in OrderRecord /\ order'[j] \in OrderRecord
    BY DEF TypeOK
  <2>2. \A o \in OrderRecord : LockOf(o, t, x) \in Int
    BY DEF LockOf, OrderRecord
  <2> QED
    BY <2>1, <2>2
<1>2. IsFiniteSet(Ids)
  BY FS_Interval DEF Ids
<1>3. /\ d \in Int /\ g[i] = f[i] + d
      /\ \A j \in Ids : j # i => g[j] = f[j]
  <2>1. /\ f[i] = LockOf(order[i], t, x) /\ g[i] = LockOf(order'[i], t, x)
        /\ f[i] \in Int /\ g[i] \in Int
    BY <1>1
  <2>2. \A j \in Ids : j # i => g[j] = f[j]
    BY DEF LocksMove
  <2> QED
    BY <2>1, <2>2
<1>4. position[t][x].locked = SumFunction(f) /\ position'[t][x].locked = position[t][x].locked + d
  BY DEF LocksBacked, LocksMove
<1> HIDE DEF f, g, d
<1>5. SumFunction(g) = SumFunction(f) + d
  BY ONLY <1>1, <1>2, <1>3, i \in Ids, SumMoved
<1> QED
  BY <1>4, <1>5 DEF g

\* Locked balances (place, append, insert, cancel, match): in every bucket a
\* position locks exactly the sum of what its owner's open orders record, so no
\* fill and no cancellation ever finds less locked than the order it handles.
THEOREM LocksStayBacked == Spec => []LocksBacked
<1>1. Init => LocksBacked
  <2> SUFFICES ASSUME Init, NEW t \in Traders, NEW x \in Buckets
               PROVE  position[t][x].locked =
                          SumFunction([j \in Ids |-> LockOf(order[j], t, x)])
    BY DEF LocksBacked
  <2> DEFINE f == [j \in Ids |-> LockOf(order[j], t, x)]
  <2>1. f \in [Ids -> Int] /\ \A j \in Ids : f[j] = 0
    BY DEF Init, AbsentOrder, LockOf
  <2>2. IsFiniteSet(Ids)
    BY FS_Interval DEF Ids
  <2> HIDE DEF f
  <2>3. SumFunction(f) = 0
    BY <2>1, <2>2, SumAllZero
  <2>4. position[t][x].locked = 0
    BY DEF Init
  <2> QED
    BY <2>3, <2>4 DEF f
<1>2. TypeOK /\ TypeOK' /\ OrdersResting /\ LocksBacked /\ [Next]_vars => LocksBacked'
  <2> SUFFICES ASSUME TypeOK, TypeOK', OrdersResting, LocksBacked, [Next]_vars
               PROVE  LocksBacked'
    OBVIOUS
  <2>1. CASE LocksStand
    BY <2>1 DEF LocksStand, LocksBacked
  <2>2. CASE \E i \in Ids : LocksMove(i)
    BY <2>2, LocksFollow
  <2> QED
    BY <2>1, <2>2, NextMoney DEF MoneyStep
<1> QED
  BY <1>1, <1>2, TypeCorrect, BookHolds, PTL DEF Spec, BookInv

-----------------------------------------------------------------------------
(* The way out *)

\* The index leaves an open order linked as its cancellation asks.
LEMMA OpenIsLinked ==
    ASSUME TypeOK, BookInv, OrdersBacked, NEW i \in OpenOrders
    PROVE  Linked(i)
<1> DEFINE o      == order[i]
           l      == o.list
           p      == o.price
           levels == level[l]
           lv     == levels[p]
           S      == OrdersAt(l, p)
           P      == PricesIn(levels)
<1>1. /\ LinksInv /\ OrdersResting /\ OrdersCounted
      /\ i \in Ids /\ o.status = "Open" /\ l \in Lists
      /\ i < book.next_order_id /\ p \in Prices
      /\ o.remaining_quantity \in 1 .. o.quantity
  BY DEF BookInv, OrdersResting, OpenOrders, TypeOK, OrderRecord
<1>2. OpenAt(i, l, p) /\ i \in S
  BY <1>1 DEF OpenAt, OrdersAt
<1>3. /\ DOMAIN levels = Prices
      /\ ListIs(P, l[2], levels, Best(l)) /\ QueueIs(S, order, lv)
  BY <1>1, BookLists
<1>4. \A j \in S : OpenAt(j, l, p) /\ order[j].remaining_quantity > 0
  BY DEF OrdersAt, OpenAt
<1>5. InQueue(S, order, lv, i)
  <2> HIDE DEF S, lv
  <2> QED
    BY ONLY <1>2, <1>3, <1>4, QueueShape
<1>6. p \in P
  <2>1. lv.order_count > 0
    <3> HIDE DEF S, lv
    <3> QED
      BY <1>5 DEF InQueue
  <2> QED
    BY <1>1, <1>3, <2>1 DEF PricesIn
<1>7. l[2] \in Sides
  BY <1>1 DEF Lists
<1>8. \A x \in P : LiveLevel(l, x) /\ HeadMarked(l, x) /\ InList(P, l[2], levels, Best(l), x)
  <2>1. \A x \in P : LiveLevel(l, x)
    BY <1>1, LevelsLive
  <2>2. \A x \in P : InList(P, l[2], levels, Best(l), x)
    <3> HIDE DEF P, levels
    <3> QED
      BY ONLY <1>3, <1>7, ListShape
  <2>3. \A x \in P : HeadMarked(l, x)
    BY <2>2 DEF InList, HeadMarked
  <2> QED
    BY <2>1, <2>2, <2>3
<1>9. LiveLevel(l, p) /\ HeadConsistent(l, p)
  BY <1>6, <1>8 DEF InList, HeadConsistent
<1>10. ExactlyBacked(i)
  BY DEF OrdersBacked
<1>11. market.open_order_count >= 1
  <2>1. IsFiniteSet(OpenOrders)
    <3>1. IsFiniteSet(Ids)
      BY FS_Interval DEF Ids
    <3> QED
      BY <3>1, FS_Subset DEF OpenOrders
  <2>2. Cardinality(OpenOrders) \in Nat /\ Cardinality(OpenOrders) # 0
    BY <2>1, FS_CardinalityType, FS_EmptySet
  <2> QED
    BY <1>1, <2>2 DEF OrdersCounted
<1>12. /\ (lv.first_order = i) <=> (o.previous_order = 0)
       /\ (lv.last_order = i) <=> (o.next_order = 0)
       /\ o.previous_order # 0 => /\ OpenAt(o.previous_order, l, p)
                                  /\ order[o.previous_order].next_order = i
                                  /\ o.previous_order < i
       /\ o.next_order # 0 => /\ OpenAt(o.next_order, l, p)
                              /\ order[o.next_order].previous_order = i
                              /\ o.next_order > i
       /\ lv.order_count = 1 => /\ o.previous_order = 0 /\ o.next_order = 0
                                /\ lv.total_remaining_quantity = o.remaining_quantity
       /\ lv.order_count # 1 => /\ o.previous_order # 0 \/ o.next_order # 0
                                /\ lv.total_remaining_quantity > o.remaining_quantity
  <2> HIDE DEF S, lv
  <2> QED
    BY <1>4, <1>5 DEF InQueue
<1>13. /\ lv.better_price # 0 =>
              /\ LiveLevel(l, lv.better_price) /\ HeadMarked(l, lv.better_price)
              /\ levels[lv.better_price].worse_price = p
              /\ BetterPrice(l[2], lv.better_price, p)
       /\ lv.worse_price # 0 =>
              /\ LiveLevel(l, lv.worse_price) /\ HeadMarked(l, lv.worse_price)
              /\ levels[lv.worse_price].better_price = p
              /\ BetterPrice(l[2], p, lv.worse_price)
  <2> HIDE DEF P
  <2> QED
    BY <1>6, <1>8 DEF InList
<1> QED
  BY <1>1, <1>2, <1>9, <1>10, <1>11, <1>12, <1>13 DEF Linked, OnlyOrderOfLevel

\* Cancellation (cancel_prediction_order.rs, "must never trap"): in every phase of
\* the question every open order passes all checks of its cancellation, which is
\* as much as its links, its lock, its level and the counter agreeing.
THEOREM OpenOrdersStayCancelable == Spec => []OpenOrdersCancelable
<1>1. TypeOK /\ BookInv /\ OrdersBacked /\ LocksBacked => OpenOrdersCancelable
  <2> SUFFICES ASSUME TypeOK, BookInv, OrdersBacked, LocksBacked, NEW i \in OpenOrders
               PROVE  LET o == order[i]
                      IN  /\ o.owner \in positions
                          /\ Linked(i)
                          /\ position[o.owner][LockedBucket(o.list)].locked >= o.locked_collateral
    BY DEF OpenOrdersCancelable
  <2> DEFINE o == order[i]
             t == o.owner
             x == LockedBucket(o.list)
             f == [j \in Ids |-> LockOf(order[j], t, x)]
  <2>1. /\ i \in Ids /\ o.status = "Open" /\ t \in positions /\ t \in Traders
        /\ o.list \in Lists
    BY DEF OpenOrders, BookInv, OrdersResting, TypeOK, OrderRecord
  <2>2. x \in Buckets
    BY <2>1 DEF LockedBucket, Lists, Buckets
  <2>3. IsFiniteSet(Ids) /\ \A j \in Ids : f[j] \in Nat
    <3>1. \A j \in Ids : order[j] \in OrderRecord
      BY DEF TypeOK
    <3>2. \A j \in Ids : f[j] \in Nat
      BY <3>1 DEF LockOf, OrderRecord
    <3> QED
      BY <3>2, FS_Interval DEF Ids
  <2>4. f[i] = o.locked_collateral /\ DOMAIN f = Ids
    BY <2>1 DEF LockOf
  <2>5. position[t][x].locked = SumFunction(f)
    BY <2>1, <2>2 DEF LocksBacked
  <2> HIDE DEF f
  <2>6. SumFunctionOnSet(f, Ids) >= f[i]
    BY <2>1, <2>3, SumExceeds
  <2>7. SumFunction(f) = SumFunctionOnSet(f, Ids)
    BY <2>4 DEF SumFunction, SumFunctionOnSet, FoldFunction, FoldFunctionOnSet
  <2>8. position[t][x].locked >= o.locked_collateral
    BY <2>4, <2>5, <2>6, <2>7
  <2> QED
    BY <2>1, <2>8, OpenIsLinked
<1> QED
  BY <1>1, TypeCorrect, BookHolds, OrdersStayBacked, LocksStayBacked, PTL

-----------------------------------------------------------------------------
(* Priority *)

\* The open ids of every level, for the one book PriorityBook sees here.
IdsOf ==
    [b \in {"question"} |-> [l \in Lists |-> [p \in Prices |-> OrdersAt(l, p)]]]

QueueOf(l, p) == QueuesOf["question"][l][p]

\* The queues hold exactly these ids, smallest first.
Queues == QueuesAre(QueuesOf, IdsOf, {"question"}, Lists, Prices)

LEMMA QueuesFromLinks ==
    ASSUME TypeOK, LinksInv, OrdersResting
    PROVE  Queues
<1>1. ByLevel(QueuesOf, {"question"}, Lists, Prices)
  BY DEF ByLevel, QueuesOf
<1>2. ASSUME NEW l \in Lists, NEW p \in Prices
      PROVE  Enumerates(Queue(l, p), OrdersAt(l, p))
  <2>1. QueueIs(OrdersAt(l, p), order, level[l][p]) /\ OrdersAt(l, p) \subseteq Ids
    BY <1>2, BookLists DEF OrdersAt
  <2> QED
    BY <2>1, QueueEnumerates DEF Queue
<1>3. \A b \in {"question"}, l \in Lists, p \in Prices :
          Enumerates(QueuesOf[b][l][p], IdsOf[b][l][p])
  BY <1>2 DEF QueuesOf, IdsOf
<1> QED
  BY <1>1, <1>3 DEF Queues, QueuesAre

\* Every queue but an empty one starts at the first order of its level, and no
\* price with a queue goes before the best one.
LEMMA QueueHeads ==
    ASSUME TypeOK, LinksInv, OrdersResting, NEW l \in Lists, NEW p \in Prices
    PROVE  /\ QueueOf(l, p) # <<>> <=> OrdersAt(l, p) # {}
           /\ OrdersAt(l, p) # {} => /\ QueueOf(l, p)[1] = level[l][p].first_order
                                     /\ Best(l) # 0 /\ Best(l) \in Nat
                                     /\ ~BetterPrice(l[2], p, Best(l))
<1>1. /\ DOMAIN level[l] = Prices /\ QueueIs(OrdersAt(l, p), order, level[l][p])
      /\ ListIs(PricesIn(level[l]), l[2], level[l], Best(l))
  BY BookLists
<1>2. QueueOf(l, p) = Queue(l, p) /\ OrdersAt(l, p) \subseteq Ids
  BY DEF QueueOf, QueuesOf, OrdersAt
<1>3. /\ Enumerates(Queue(l, p), OrdersAt(l, p))
      /\ OrdersAt(l, p) # {} => Queue(l, p)[1] = level[l][p].first_order
  BY <1>1, <1>2, QueueEnumerates DEF Queue
<1>4. QueueOf(l, p) # <<>> <=> OrdersAt(l, p) # {}
  BY <1>2, <1>3, EnumerationEmpty
<1>5. ASSUME OrdersAt(l, p) # {}
      PROVE  Best(l) # 0 /\ Best(l) \in Nat /\ ~BetterPrice(l[2], p, Best(l))
  <2>1. /\ IsFiniteSet(OrdersAt(l, p))
        /\ level[l][p].order_count = Cardinality(OrdersAt(l, p))
    BY <1>1 DEF QueueIs
  <2>2. Cardinality(OrdersAt(l, p)) \in Nat /\ Cardinality(OrdersAt(l, p)) # 0
    BY <1>5, <2>1, FS_CardinalityType, FS_EmptySet
  <2>3. p \in PricesIn(level[l]) /\ l[2] \in Sides
    BY <1>1, <2>1, <2>2 DEF PricesIn, Lists
  <2>4. InList(PricesIn(level[l]), l[2], level[l], Best(l), p)
    BY ONLY <1>1, <2>3, ListShape
  <2>5. PricesIn(level[l]) \subseteq Nat
    BY <1>1 DEF PricesIn
  <2> QED
    BY <2>4, <2>5 DEF InList
<1> QED
  BY <1>2, <1>3, <1>4, <1>5

\* What a step leaves of an order as far as its queue goes.
SameRest(j) ==
    /\ order'[j].status = order[j].status
    /\ order'[j].list = order[j].list /\ order'[j].price = order[j].price
    /\ order'[j].quantity = order[j].quantity
    /\ order'[j].remaining_quantity = order[j].remaining_quantity

\* The next id opens for q at a price of a list; nothing else changes.
OrderEnters(l, p, q) ==
    LET id == book.next_order_id
    IN  /\ id \in Ids /\ q \in Nat \ {0}
        /\ order'[id].status = "Open"
        /\ order'[id].list = l /\ order'[id].price = p
        /\ order'[id].quantity = q /\ order'[id].remaining_quantity = q
        /\ \A j \in Ids \ {id} : SameRest(j)
        /\ book'.next_order_id = id + 1

\* An open order at this price of a list ends with nothing left.
OrderLeaves(i, l, p) ==
    /\ OpenAt(i, l, p)
    /\ order'[i].status \in {"Filled", "Canceled"} /\ order'[i].remaining_quantity = 0
    /\ \A j \in Ids \ {i} : SameRest(j)
    /\ book'.next_order_id = book.next_order_id

\* It keeps less, but something.
OrderShrinks(i, l, p) ==
    /\ OpenAt(i, l, p)
    /\ order'[i].status = "Open"
    /\ order'[i].list = l /\ order'[i].price = p
    /\ order'[i].quantity = order[i].quantity
    /\ order'[i].remaining_quantity \in 1 .. order[i].remaining_quantity - 1
    /\ \A j \in Ids \ {i} : SameRest(j)
    /\ book'.next_order_id = book.next_order_id

LEMMA PlacingEnters ==
    ASSUME TypeOK, book.next_order_id \in Ids,
           NEW t \in Traders, NEW l \in Lists, NEW p \in Prices, NEW q \in Quantities,
           NEW previous, Placing(t, l, p, q, previous),
           book'.next_order_id = book.next_order_id + 1
    PROVE  OrderEnters(l, p, q)
<1> DEFINE id  == book.next_order_id
           new == [owner |-> t, list |-> l, price |-> p,
                   previous_order |-> previous, next_order |-> None,
                   quantity |-> q, remaining_quantity |-> q,
                   locked_collateral |-> Backing(l, p, q), status |-> "Open"]
<1>1. order' = [j \in Ids |-> IF j = id THEN new
                              ELSE IF j = previous THEN [order[j] EXCEPT !.next_order = id]
                              ELSE order[j]]
  BY DEF Placing
<1>2. order \in [Ids -> OrderRecord] /\ q \in Nat \ {0}
  BY DEF TypeOK
<1>3. order'[id] = new
  BY <1>1
<1>4. ASSUME NEW j \in Ids \ {id} PROVE SameRest(j)
  <2>1. order[j] \in OrderRecord
    BY <1>2
  <2>2. order'[j] = IF j = previous THEN [order[j] EXCEPT !.next_order = id] ELSE order[j]
    BY <1>1
  <2> QED
    BY <2>1, <2>2 DEF OrderRecord, SameRest
<1> QED
  BY <1>2, <1>3, <1>4 DEF OrderEnters

LEMMA UnlinkLeaves ==
    ASSUME TypeOK, NEW i \in Ids, OpenAt(i, order[i].list, order[i].price),
           NEW status \in {"Filled", "Canceled"}, Unlink(i, status)
    PROVE  OrderLeaves(i, order[i].list, order[i].price)
<1>1. /\ order \in [Ids -> OrderRecord]
      /\ book \in [next_order_id : Nat \ {0}, best : [Lists -> LevelHints]]
  BY DEF TypeOK
<1>2. order' = OrdersWithout(i, status) /\ book' = BookWithout(i)
  BY DEF Unlink
<1>3. order'[i].status = status /\ order'[i].remaining_quantity = 0
  BY <1>1, <1>2 DEF OrdersWithout, OrderRecord
<1>4. ASSUME NEW j \in Ids \ {i} PROVE SameRest(j)
  <2>1. order[j] \in OrderRecord
    BY <1>1
  <2>2. \E next, previous :
            order'[j] = [order[j] EXCEPT !.next_order = next, !.previous_order = previous]
    BY <1>2 DEF OrdersWithout
  <2> QED
    BY <2>1, <2>2 DEF OrderRecord, SameRest
<1>5. book'.next_order_id = book.next_order_id
  BY <1>1, <1>2 DEF BookWithout
<1> QED
  BY <1>3, <1>4, <1>5 DEF OrderLeaves

\* A fill takes from the head of the best price of the other side.
LEMMA MatchTakes ==
    ASSUME TypeOK, NEW t \in Traders, NEW l \in Lists, NEW limit \in Prices,
           NEW q \in Quantities, NEW bps \in FeeRates, NEW i \in Ids,
           MatchPredictionOrder(t, l, limit, q, bps, i)
    PROVE  \E k \in Lists, p \in Prices :
               /\ OrderLeaves(i, k, p) \/ OrderShrinks(i, k, p)
               /\ Best(k) = p /\ level[k][p].first_order = i
<1> DEFINE o    == order[i]
           d    == FillBase(q, o.remaining_quantity)
           lock == o.locked_collateral - Debit(o, d)
<1>1. /\ o.remaining_quantity \in Nat /\ d \in 1 .. o.remaining_quantity
      /\ o.price \in Prices /\ o.list \in Lists
  BY MatchParts
<1>2. FifoMaker(t, l, i)
  BY DEF MatchPredictionOrder
<1>3. OpenAt(i, o.list, o.price)
  BY <1>2 DEF FifoMaker, OpenAt
<1>4. Best(o.list) = o.price /\ level[o.list][o.price].first_order = i
  BY <1>2 DEF FifoMaker
<1>5. \/ Unlink(i, "Filled")
      \/ /\ d < o.remaining_quantity
         /\ order' = [order EXCEPT ![i].remaining_quantity = o.remaining_quantity - d,
                                   ![i].locked_collateral = lock]
         /\ UNCHANGED <<book, market>>
  BY DEF MatchPredictionOrder
<1>6. CASE /\ d < o.remaining_quantity
           /\ order' = [order EXCEPT ![i].remaining_quantity = o.remaining_quantity - d,
                                     ![i].locked_collateral = lock]
           /\ UNCHANGED <<book, market>>
  <2> DEFINE r == o.remaining_quantity - d
  <2>1. r \in 1 .. o.remaining_quantity - 1
    <3> HIDE DEF d
    <3> QED
      BY <1>1, <1>6
  <2> HIDE DEF d, lock, r
  <2>2. order \in [Ids -> OrderRecord] /\ o \in OrderRecord
    BY DEF TypeOK
  <2>3. order' = [order EXCEPT ![i] = [o EXCEPT !.remaining_quantity = r,
                                                !.locked_collateral = lock]]
    BY <1>6, <2>2 DEF r
  <2>4. \A j \in Ids \ {i} : SameRest(j)
    BY <2>2, <2>3 DEF SameRest
  <2>5. /\ order'[i].status = o.status /\ order'[i].list = o.list
        /\ order'[i].price = o.price /\ order'[i].quantity = o.quantity
        /\ order'[i].remaining_quantity = r
    BY <2>2, <2>3 DEF OrderRecord
  <2> QED
    BY <1>1, <1>3, <1>4, <1>6, <2>1, <2>4, <2>5 DEF OrderShrinks, OpenAt
<1> QED
  BY <1>1, <1>3, <1>4, <1>5, <1>6, UnlinkLeaves

LEMMA PlaceEnters ==
    ASSUME TypeOK, OrdersResting, LinksInv, PlaceOrder
    PROVE  \E l \in Lists, p \in Prices, q \in Quantities :
               /\ OrderEnters(l, p, q)
               /\ Resting(l, p)
<1>1. PICK t \in Traders, l \in Lists, p \in Prices, q \in Quantities :
          Placement(t, l, p, q)
  BY Placements
<1>2. book \in [next_order_id : Nat \ {0}, best : [Lists -> LevelHints]]
  BY DEF TypeOK
<1>3. book'.next_order_id = book.next_order_id + 1
  BY <1>1, <1>2 DEF Placement, AppendPredictionOrder, NewLevel
<1>4. PICK previous : Placing(t, l, p, q, previous)
  BY <1>1 DEF Placement, AppendPredictionOrder, NewLevel
<1>5. OrderEnters(l, p, q)
  BY <1>3, <1>4, PlacingEnters DEF PlaceOrder
<1>6. Resting(l, p)
  BY <1>4 DEF Placing
<1> QED
  BY <1>5, <1>6

\* What a step is for the queues.
QueueStep ==
    \/ \E l \in Lists, p \in Prices, q \in Quantities : OrderEnters(l, p, q) /\ Resting(l, p)
    \/ \E i \in Ids, l \in Lists, p \in Prices : OrderLeaves(i, l, p)
    \/ \E i \in Ids, l \in Lists, p \in Prices :
           /\ OrderLeaves(i, l, p) \/ OrderShrinks(i, l, p)
           /\ Best(l) = p /\ level[l][p].first_order = i
    \/ BookUntouched

LEMMA NextQueues ==
    ASSUME TypeOK, OrdersResting, LinksInv, [Next]_vars
    PROVE  QueueStep
<1>1. CASE PlaceOrder
  BY <1>1, PlaceEnters DEF QueueStep
<1>2. CASE CancelOrder
  <2>1. PICK t \in Traders, i \in Ids : CancelPredictionOrder(t, i)
    BY <1>2 DEF CancelOrder
  <2>2. /\ OpenAt(i, order[i].list, order[i].price) /\ Unlink(i, "Canceled")
        /\ order[i].price \in Prices
    BY <2>1 DEF CancelPredictionOrder, Linked, LiveLevel
  <2>3. order[i].list \in Lists
    BY DEF TypeOK, OrderRecord
  <2> QED
    BY <2>2, <2>3, UnlinkLeaves DEF QueueStep
<1>3. CASE MatchOrder
  BY <1>3, MatchTakes DEF MatchOrder, QueueStep
<1> QED
  BY <1>1, <1>2, <1>3, OtherSteps DEF QueueStep

\* No account exists under an id that was not given away.
Unplaced == \A i \in Ids : i >= book.next_order_id => order[i].status = "Absent"

LEMMA NextUnplaced ==
    ASSUME TypeOK, OrdersResting, Unplaced, QueueStep
    PROVE  Unplaced'
<1>1. book.next_order_id \in Nat /\ Ids \subseteq Nat
  BY DEF TypeOK, Ids
<1>2. ASSUME NEW l, NEW p, NEW q, OrderEnters(l, p, q)
      PROVE  Unplaced'
  BY <1>1, <1>2 DEF OrderEnters, SameRest, Unplaced
<1>3. ASSUME NEW i \in Ids, NEW l, NEW p, OrderLeaves(i, l, p) \/ OrderShrinks(i, l, p)
      PROVE  Unplaced'
  <2>1. /\ i \in OpenOrders /\ book'.next_order_id = book.next_order_id
        /\ \A j \in Ids \ {i} : order'[j].status = order[j].status
    BY <1>3 DEF OrderLeaves, OrderShrinks, OpenAt, OpenOrders, SameRest
  <2>2. i < book.next_order_id
    BY <2>1 DEF OrdersResting
  <2> QED
    BY <1>1, <2>1, <2>2 DEF Unplaced
<1>4. BookUntouched => Unplaced'
  BY DEF BookUntouched, Unplaced
<1> QED
  BY <1>2, <1>3, <1>4 DEF QueueStep

LEMMA QueuesHold == Spec => [](Queues /\ Unplaced)
<1>1. Init => Unplaced
  BY DEF Init, Unplaced, AbsentOrder
<1>2. TypeOK /\ BookInv /\ Unplaced /\ [Next]_vars => Unplaced'
  BY NextQueues, NextUnplaced DEF BookInv
<1>3. TypeOK /\ BookInv => Queues
  BY QueuesFromLinks DEF BookInv
<1> QED
  BY <1>1, <1>2, <1>3, TypeCorrect, BookHolds, PTL DEF Spec

\* Sets that agree apart from x.
LEMMA OneElement ==
    ASSUME NEW A, NEW B, NEW x, A \ {x} = B \ {x}
    PROVE  /\ (x \in A <=> x \in B) => A = B
           /\ x \in A => A = B \cup {x}
           /\ x \notin A => A = B \ {x}
  OBVIOUS

\* Orders elsewhere are where they were.
LEMMA IdsElsewhere ==
    ASSUME NEW i \in Ids, \A j \in Ids \ {i} : SameRest(j), NEW l \in Lists, NEW p \in Prices
    PROVE  OrdersAt(l, p)' \ {i} = OrdersAt(l, p) \ {i}
  BY DEF OrdersAt, OpenAt, SameRest

\* One level's ids, before and after the step.
LEMMA IdsAre ==
    ASSUME NEW l \in Lists, NEW p \in Prices
    PROVE  /\ IdsOf["question"][l][p] = OrdersAt(l, p)
           /\ IdsOf'["question"][l][p] = OrdersAt(l, p)'
  BY DEF IdsOf

\* What the ids of the levels are after the step.
LEMMA IdsEnter ==
    ASSUME TypeOK, OrdersResting, NEW l \in Lists, NEW p \in Prices, NEW q, OrderEnters(l, p, q)
    PROVE  LET id == book.next_order_id
           IN  /\ OthersStay(IdsOf, IdsOf', {"question"}, Lists, Prices, "question", l, p)
               /\ IdsOf'["question"][l][p] = IdsOf["question"][l][p] \cup {id}
               /\ \A i \in IdsOf["question"][l][p] : i < id
<1> DEFINE id == book.next_order_id
<1>1. id \in Ids /\ id \in Nat
  BY DEF OrderEnters, Ids
<1>2. ASSUME NEW k \in Lists, NEW r \in Prices, NEW i \in OrdersAt(k, r)
      PROVE  i \in Nat /\ i < id
  BY <1>2 DEF OrdersAt, OpenAt, OrdersResting, OpenOrders, Ids
<1>3. \A k \in Lists, r \in Prices : id \notin OrdersAt(k, r)
  <2> HIDE DEF id
  <2> QED
    BY <1>1, <1>2
<1>4. \A k \in Lists, r \in Prices : OrdersAt(k, r)' \ {id} = OrdersAt(k, r) \ {id}
  BY <1>1, IdsElsewhere DEF OrderEnters
<1>5. \A k \in Lists, r \in Prices : id \in OrdersAt(k, r)' <=> k = l /\ r = p
  BY <1>1 DEF OrderEnters, OrdersAt, OpenAt
<1> HIDE DEF id
<1>6. ASSUME NEW k \in Lists, NEW r \in Prices, k # l \/ r # p
      PROVE  OrdersAt(k, r)' = OrdersAt(k, r)
  <2>1. id \notin OrdersAt(k, r)' /\ id \notin OrdersAt(k, r)
    BY <1>3, <1>5, <1>6
  <2> QED
    BY <1>4, <2>1, OneElement
<1>7. OrdersAt(l, p)' = OrdersAt(l, p) \cup {id}
  BY <1>4, <1>5, OneElement
<1> QED
  BY <1>2, <1>6, <1>7, IdsAre DEF OthersStay, id

LEMMA IdsLeave ==
    ASSUME NEW l \in Lists, NEW p \in Prices, NEW i \in Ids, OrderLeaves(i, l, p)
    PROVE  /\ OthersStay(IdsOf, IdsOf', {"question"}, Lists, Prices, "question", l, p)
           /\ IdsOf'["question"][l][p] = IdsOf["question"][l][p] \ {i}
           /\ i \in IdsOf["question"][l][p]
<1>1. \A k \in Lists, r \in Prices : OrdersAt(k, r)' \ {i} = OrdersAt(k, r) \ {i}
  BY IdsElsewhere DEF OrderLeaves
<1>2. \A k \in Lists, r \in Prices : i \in OrdersAt(k, r) <=> k = l /\ r = p
  BY DEF OrderLeaves, OrdersAt, OpenAt
<1>3. \A k \in Lists, r \in Prices : i \notin OrdersAt(k, r)'
  BY DEF OrderLeaves, OrdersAt, OpenAt
<1>4. ASSUME NEW k \in Lists, NEW r \in Prices, k # l \/ r # p
      PROVE  OrdersAt(k, r)' = OrdersAt(k, r)
  <2>1. i \notin OrdersAt(k, r)' /\ i \notin OrdersAt(k, r)
    BY <1>2, <1>3, <1>4
  <2> QED
    BY <1>1, <2>1, OneElement
<1>5. OrdersAt(l, p)' = OrdersAt(l, p) \ {i} /\ i \in OrdersAt(l, p)
  BY <1>1, <1>2, <1>3, OneElement
<1>6. OthersStay(IdsOf, IdsOf', {"question"}, Lists, Prices, "question", l, p)
  BY <1>4, IdsAre DEF OthersStay
<1>7. IdsOf["question"][l][p] = OrdersAt(l, p) /\ IdsOf'["question"][l][p] = OrdersAt(l, p)'
  BY IdsAre
<1> QED
  BY <1>5, <1>6, <1>7

LEMMA IdsShrink ==
    ASSUME TypeOK, NEW i \in Ids, NEW l, NEW p, OrderShrinks(i, l, p)
    PROVE  \A b \in {"question"}, k \in Lists, r \in Prices : IdsOf'[b][k][r] = IdsOf[b][k][r]
<1>1. \A k \in Lists, r \in Prices : OrdersAt(k, r)' \ {i} = OrdersAt(k, r) \ {i}
  BY IdsElsewhere DEF OrderShrinks
<1>2. /\ order[i].remaining_quantity \in Nat /\ order[i].quantity \in Nat
      /\ order'[i].remaining_quantity \in 1 .. order[i].quantity
  <2>1. order[i] \in OrderRecord
    BY DEF TypeOK
  <2> QED
    BY <2>1 DEF OrderRecord, OrderShrinks, OpenAt
<1>3. \A k \in Lists, r \in Prices : i \in OrdersAt(k, r)' <=> i \in OrdersAt(k, r)
  BY <1>2 DEF OrderShrinks, OrdersAt, OpenAt
<1>4. ASSUME NEW k \in Lists, NEW r \in Prices PROVE OrdersAt(k, r)' = OrdersAt(k, r)
  BY <1>1, <1>3, OneElement
<1> QED
  BY <1>4 DEF IdsOf

\* What is left of the order the step is about is all that changes there.
LEMMA LeftChanges ==
    ASSUME NEW i \in Ids, \A j \in Ids \ {i} : SameRest(j), order'[i].status # "Absent"
    PROVE  /\ LeftOf'["question"][i] = order'[i].remaining_quantity
           /\ LeftOf' = [LeftOf EXCEPT !["question"][i] = LeftOf'["question"][i]]
<1>1. /\ LeftOf = [b \in {"question"} |-> [j \in Ids |-> LeftOf[b][j]]]
      /\ LeftOf' = [b \in {"question"} |-> [j \in Ids |-> LeftOf'[b][j]]]
  BY DEF LeftOf
<1>2. \A b \in {"question"}, j \in Ids : b # "question" \/ j # i => LeftOf'[b][j] = LeftOf[b][j]
  BY DEF LeftOf, SameRest
<1>3. LeftOf' = [LeftOf EXCEPT !["question"][i] = LeftOf'["question"][i]]
  BY <1>1, <1>2, OneLeftChanged
<1>4. LeftOf'["question"][i] = order'[i].remaining_quantity
  BY DEF LeftOf
<1> QED
  BY <1>3, <1>4

\* No price with a queue on a side goes before its best price.
LEMMA BestIsBest ==
    ASSUME TypeOK, LinksInv, OrdersResting, NEW l \in Lists, NEW p \in Prices,
           Best(l) = p, QueueOf(l, p) # <<>>
    PROVE  Priority!IsBest("question", l, p)
<1>1. \A x \in Prices : QueueOf(l, x) # <<>> => ~BetterPrice(l[2], x, p)
  BY QueueHeads
<1> QED
  BY <1>1 DEF Priority!IsBest, QueueOf, Precedes

\* Nothing that rests on the other side is reached.
LEMMA NothingReached ==
    ASSUME TypeOK, LinksInv, OrdersResting, NEW l \in Lists, NEW p \in Prices,
           Resting(l, p), NEW x \in Prices, QueueOf(Opposite(l), x) # <<>>
    PROVE  ~Crosses(l, p, x)
<1> DEFINE k == Opposite(l)
           y == Best(k)
<1>1. k \in Lists /\ l[2] \in Sides /\ k[2] = OppositeSide(l[2])
  BY DEF Opposite, OppositeSide, Lists, Sides
<1>2. y # 0 /\ y \in Nat /\ ~BetterPrice(k[2], x, y)
  BY <1>1, QueueHeads
<1>3. ~PricesCross(l[2], p, y)
  BY <1>2 DEF Resting
<1>4. p \in Nat /\ x \in Nat
  OBVIOUS
<1> HIDE DEF y, k
<1> QED
  BY <1>1, <1>2, <1>3, <1>4 DEF Crosses, PricesCross, BetterPrice, OppositeSide, Sides

LEMMA EnterIsEnter ==
    ASSUME TypeOK, LinksInv, OrdersResting, Unplaced, Queues, Queues',
           NEW l \in Lists, NEW p \in Prices, NEW q, OrderEnters(l, p, q), Resting(l, p)
    PROVE  Priority!Enter("question", l, p)
<1> DEFINE id == book.next_order_id
<1>1. /\ id \in Ids /\ id \in Nat /\ q > 0
      /\ \A j \in Ids \ {id} : SameRest(j)
      /\ order'[id].status = "Open" /\ order'[id].remaining_quantity = q
  BY DEF OrderEnters, Ids
<1>2. /\ QueueOf(l, p)' = Append(QueueOf(l, p), id)
      /\ OneQueueChanges(QueuesOf, QueuesOf', "question", l, p)
  <2>1. /\ OthersStay(IdsOf, IdsOf', {"question"}, Lists, Prices, "question", l, p)
        /\ IdsOf'["question"][l][p] = IdsOf["question"][l][p] \cup {id}
        /\ \A i \in IdsOf["question"][l][p] : i < id
    BY IdsEnter
  <2> HIDE DEF id
  <2>2. /\ QueuesOf'["question"][l][p] = Append(QueuesOf["question"][l][p], id)
        /\ OneQueueChanges(QueuesOf, QueuesOf', "question", l, p)
    <3>1. /\ QueuesAre(QueuesOf, IdsOf, {"question"}, Lists, Prices)
          /\ QueuesAre(QueuesOf', IdsOf', {"question"}, Lists, Prices)
          /\ "question" \in {"question"}
      BY DEF Queues
    <3> QED
      BY ONLY <1>1, <2>1, <3>1, l \in Lists, p \in Prices, QueuesAppend, SMTT(30)
  <2> QED
    BY <2>2 DEF QueueOf
<1>3. /\ LeftOf'["question"][id] > 0
      /\ LeftOf' = [LeftOf EXCEPT !["question"][id] = LeftOf'["question"][id]]
  BY <1>1, LeftChanges
<1>4. LeftOf["question"][id] = -1
  BY <1>1 DEF Unplaced, LeftOf
<1>5. \A x \in Prices : QueuesOf["question"][Opposite(l)][x] # <<>> => ~Crosses(l, p, x)
  BY NothingReached DEF QueueOf
<1> HIDE DEF id
<1> QED
  BY <1>1, <1>2, <1>3, <1>4, <1>5
     DEF Priority!Enter, Priority!Unused, QueueOf, OneQueueChanges

LEMMA QueueLoses ==
    ASSUME Queues, Queues', NEW l \in Lists, NEW p \in Prices, NEW i \in Ids, OrderLeaves(i, l, p)
    PROVE  LET s == QueuesOf["question"][l][p]
           IN  /\ TakenOut(s, QueuesOf'["question"][l][p], i)
               /\ OneQueueChanges(QueuesOf, QueuesOf', "question", l, p)
               /\ s[1] = i => Head(s) = i /\ QueuesOf'["question"][l][p] = Tail(s)
<1>1. /\ OthersStay(IdsOf, IdsOf', {"question"}, Lists, Prices, "question", l, p)
      /\ IdsOf'["question"][l][p] = IdsOf["question"][l][p] \ {i}
      /\ i \in IdsOf["question"][l][p]
  BY IdsLeave
<1>2. /\ QueuesAre(QueuesOf, IdsOf, {"question"}, Lists, Prices)
      /\ QueuesAre(QueuesOf', IdsOf', {"question"}, Lists, Prices)
      /\ "question" \in {"question"}
  BY DEF Queues
<1> QED
  BY ONLY <1>1, <1>2, l \in Lists, p \in Prices, QueuesRemove

\* An order that leaves, from whatever place.
LEMMA LeaveIsLeave ==
    ASSUME Queues, Queues', NEW i \in Ids, NEW l \in Lists, NEW p \in Prices, OrderLeaves(i, l, p)
    PROVE  Priority!Leave("question", l, p)
<1> DEFINE s == QueuesOf["question"][l][p]
<1>1. PICK n \in DOMAIN s :
          /\ s[n] = i
          /\ QueuesOf'["question"][l][p] = SubSeq(s, 1, n - 1) \o SubSeq(s, n + 1, Len(s))
  <2>1. TakenOut(s, QueuesOf'["question"][l][p], i)
    BY QueueLoses
  <2> HIDE DEF s
  <2> QED
    BY <2>1 DEF TakenOut
<1>2. QueuesOf' = [QueuesOf EXCEPT !["question"][l][p] = QueuesOf'["question"][l][p]]
  BY QueueLoses DEF OneQueueChanges
<1>3. LeftOf' = [LeftOf EXCEPT !["question"][s[n]] = 0]
  BY <1>1, LeftChanges DEF OrderLeaves
<1>4. QueuesOf'["question"][l][p] = Priority!RemoveAt(s, n)
  BY <1>1 DEF Priority!RemoveAt
<1> QED
  BY <1>2, <1>3, <1>4 DEF Priority!Leave

\* A fill of the first order of the best price, complete or not.
LEMMA FillIsFill ==
    ASSUME TypeOK, LinksInv, OrdersResting, Queues, Queues',
           NEW i \in Ids, NEW l \in Lists, NEW p \in Prices,
           OrderLeaves(i, l, p) \/ OrderShrinks(i, l, p), Best(l) = p, level[l][p].first_order = i
    PROVE  Priority!Fill("question", l, p)
<1> DEFINE s == QueuesOf["question"][l][p]
           r == order'[i].remaining_quantity
<1>1. /\ OpenAt(i, l, p) /\ order'[i].status # "Absent"
      /\ \A j \in Ids \ {i} : SameRest(j)
  BY DEF OrderLeaves, OrderShrinks
<1>2. i \in OrdersAt(l, p) /\ QueueOf(l, p) = s
  BY <1>1 DEF OrdersAt, QueueOf
<1>3. s # <<>> /\ s[1] = i
  <2>1. OrdersAt(l, p) # {}
    BY <1>2
  <2>2. QueueOf(l, p) # <<>> /\ QueueOf(l, p)[1] = level[l][p].first_order
    BY <2>1, QueueHeads
  <2> QED
    BY <1>2, <2>2
<1>4. Priority!IsBest("question", l, p)
  BY <1>2, <1>3, BestIsBest
<1>5. /\ LeftOf'["question"][i] = r
      /\ LeftOf' = [LeftOf EXCEPT !["question"][i] = LeftOf'["question"][i]]
      /\ LeftOf["question"][i] = order[i].remaining_quantity
  BY <1>1, LeftChanges DEF LeftOf, OpenAt
<1>6. order[i].remaining_quantity \in Nat \ {0}
  <2>1. order[i] \in OrderRecord
    BY DEF TypeOK
  <2> QED
    BY <1>1, <2>1 DEF OpenAt, OrderRecord
<1>7. r \in 0 .. order[i].remaining_quantity - 1
  BY <1>6 DEF OrderLeaves, OrderShrinks
<1>8. Head(s) = i
  BY <1>3
<1>9. QueuesOf' = IF r = 0 THEN [QueuesOf EXCEPT !["question"][l][p] = Tail(s)] ELSE QueuesOf
  <2>1. CASE OrderLeaves(i, l, p)
    <3>1. /\ QueuesOf' = [QueuesOf EXCEPT !["question"][l][p] = QueuesOf'["question"][l][p]]
          /\ QueuesOf'["question"][l][p] = Tail(s)
      BY <1>3, <2>1, QueueLoses DEF OneQueueChanges
    <3>2. r = 0
      BY <2>1 DEF OrderLeaves
    <3> QED
      BY <3>1, <3>2
  <2>2. CASE OrderShrinks(i, l, p)
    <3>1. \A b \in {"question"}, k \in Lists, x \in Prices : IdsOf'[b][k][x] = IdsOf[b][k][x]
      BY <2>2, IdsShrink
    <3>3. QueuesOf' = QueuesOf
      BY ONLY <3>1, Queues, Queues', QueuesSame DEF Queues
    <3>2. r # 0
      BY <1>6, <2>2 DEF OrderShrinks
    <3> QED
      BY <3>2, <3>3
  <2> QED
    BY <2>1, <2>2
<1> HIDE DEF r
<1> QED
  BY <1>4, <1>5, <1>7, <1>8, <1>9 DEF Priority!Fill

\* Price-time priority (place, append, insert, cancel and match of the question's
\* book): whatever neighbours a client names, each of the four lists behaves as
\* PriorityBook's queues, apart from the other outcome's, for all prices, ids,
\* quantities and traders.  An order enters behind all others of its price and
\* only where it meets none of the opposite list; a fill, complete or partial, is
\* of the oldest order of the best price; an order that leaves disturbs no other.
THEOREM PriorityKept == Spec => PriceTimePriority
<1>1. Init => Priority!PInit
  <2> SUFFICES ASSUME Init PROVE Priority!PInit
    OBVIOUS
  <2>1. \A l \in Lists, p \in Prices : Queue(l, p) = <<>>
    BY DEF Init, AbsentLevel, Queue, Walk
  <2>2. \A i \in Ids : order[i].status = "Absent"
    BY DEF Init, AbsentOrder
  <2> QED
    BY <2>1, <2>2 DEF Priority!PInit, Priority!Unused, QueuesOf, LeftOf
<1>2. TypeOK /\ BookInv /\ Unplaced /\ Queues /\ Queues' /\ [Next]_vars
          => [Priority!PNext]_<<QueuesOf, LeftOf>>
  <2> SUFFICES ASSUME TypeOK, BookInv, Unplaced, Queues, Queues', [Next]_vars
               PROVE  Priority!PNext \/ UNCHANGED <<QueuesOf, LeftOf>>
    OBVIOUS
  <2>1. LinksInv /\ OrdersResting
    BY DEF BookInv
  <2>2. ASSUME NEW l \in Lists, NEW p \in Prices, NEW q, OrderEnters(l, p, q), Resting(l, p)
        PROVE  Priority!PNext
    BY <2>1, <2>2, EnterIsEnter DEF Priority!PNext
  <2>3. ASSUME NEW i \in Ids, NEW l \in Lists, NEW p \in Prices, OrderLeaves(i, l, p)
        PROVE  Priority!PNext
    BY <2>3, LeaveIsLeave DEF Priority!PNext
  <2>4. ASSUME NEW i \in Ids, NEW l \in Lists, NEW p \in Prices,
               OrderLeaves(i, l, p) \/ OrderShrinks(i, l, p), Best(l) = p, level[l][p].first_order = i
        PROVE  Priority!PNext
    BY <2>1, <2>4, FillIsFill DEF Priority!PNext
  <2>5. BookUntouched => UNCHANGED <<QueuesOf, LeftOf>>
    BY DEF BookUntouched, QueuesOf, LeftOf, Queue
  <2> QED
    BY <2>1, <2>2, <2>3, <2>4, <2>5, NextQueues DEF QueueStep
<1> QED
  BY <1>1, <1>2, TypeCorrect, BookHolds, QueuesHold, PTL
     DEF Spec, PriceTimePriority, Priority!PSpec
=============================================================================
