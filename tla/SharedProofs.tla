---------------------------- MODULE SharedProofs ----------------------------
(***************************************************************************)
(* Theorems about SharedTrading for any traders, books, prices and bounds. *)
(***************************************************************************)
EXTENDS SharedProperties, DataProofs

Claims == [Traders -> [Assets -> [free : Nat, locked : Nat]]]
Levels == [Prices -> LevelRecord]

-----------------------------------------------------------------------------
(* Balances *)

\* What Change does to balances that can afford it.
LEMMA ChangeType ==
    ASSUME NEW c \in Claims, NEW t \in Traders, NEW a \in Assets,
           NEW f \in Int, NEW k \in Int,
           c[t][a].free + f >= 0, c[t][a].locked + k >= 0
    PROVE  /\ Change(c, t, a, f, k) \in Claims
           /\ Change(c, t, a, f, k)[t][a].free = c[t][a].free + f
           /\ Change(c, t, a, f, k)[t][a].locked = c[t][a].locked + k
           /\ \A x \in Traders, y \in Assets :
                  x # t \/ y # a => Change(c, t, a, f, k)[x][y] = c[x][y]
  BY DEF Change, Claims

\* The four changes of a fill: what the taker and then the maker pay and get.
LEMMA FillType ==
    ASSUME NEW c \in Claims, NEW t \in Traders, NEW o \in Traders, t # o,
           NEW p \in Assets, NEW g \in Assets, p # g,
           NEW pay \in Nat, NEW get \in Nat, c[t][p].free >= pay,
           NEW fp \in Nat, NEW fg \in Nat, NEW kg \in Nat, c[o][g].locked >= kg
    PROVE  Change(Change(Change(Change(c, t, p, -pay, 0), t, g, get, 0),
                         o, p, fp, 0), o, g, fg, -kg) \in Claims
<1> DEFINE c1 == Change(c, t, p, -pay, 0)
           c2 == Change(c1, t, g, get, 0)
           c3 == Change(c2, o, p, fp, 0)
<1>0. /\ \A x \in Traders, y \in Assets : c[x][y].free \in Nat /\ c[x][y].locked \in Nat
  BY DEF Claims
<1>1. c1 \in Claims /\ c1[t][g] = c[t][g] /\ c1[o][p] = c[o][p] /\ c1[o][g] = c[o][g]
  <2>0. -pay \in Int /\ 0 \in Int
    OBVIOUS
  <2>1. c[t][p].free + (-pay) >= 0 /\ c[t][p].locked + 0 >= 0
    BY <1>0
  <2> QED
    BY <2>0, <2>1, ChangeType
<1> HIDE DEF c1
<1>2. c2 \in Claims /\ c2[o][p] = c[o][p] /\ c2[o][g] = c[o][g]
  <2>1. c1[t][g].free + get >= 0 /\ c1[t][g].locked + 0 >= 0
    BY <1>0, <1>1
  <2> QED
    BY <1>1, <2>1, ChangeType
<1> HIDE DEF c2
<1>3. c3 \in Claims /\ c3[o][g] = c[o][g]
  <2>1. c2[o][p].free + fp >= 0 /\ c2[o][p].locked + 0 >= 0
    BY <1>0, <1>2
  <2> QED
    BY <1>2, <2>1, ChangeType
<1> HIDE DEF c3
<1>4. c3[o][g].free + fg >= 0 /\ c3[o][g].locked + (-kg) >= 0
  BY <1>0, <1>3
<1>5. Change(c3, o, g, fg, -kg) \in Claims
  BY <1>3, <1>4, ChangeType
<1> QED
  BY <1>5 DEF c1, c2, c3

\* The three changes of a complete set, spent or received.
LEMMA ChangeSetType ==
    ASSUME claim \in Claims, SharedTradingAssumption,
           NEW t \in Traders, NEW b \in PredictionBooks,
           NEW cash \in Int, NEW yes \in Int, NEW no \in Int,
           claim[t][QuoteOf[b]].free + cash >= 0,
           claim[t][ClaimOf[b]["Yes"]].free + yes >= 0,
           claim[t][ClaimOf[b]["No"]].free + no >= 0
    PROVE  ChangeSet(t, b, cash, yes, no) \in Claims
<1> DEFINE m  == QuoteOf[b]
           y  == ClaimOf[b]["Yes"]
           n  == ClaimOf[b]["No"]
           c1 == Change(claim, t, m, cash, 0)
           c2 == Change(c1, t, y, yes, 0)
<1>0. m \in Assets /\ y \in Assets /\ n \in Assets /\ m # y /\ m # n /\ y # n
  BY DEF SharedTradingAssumption, Books
<1>1. \A x \in Assets : claim[t][x].free \in Nat /\ claim[t][x].locked \in Nat
  BY DEF Claims
<1> HIDE DEF m, y, n
<1>2. c1 \in Claims /\ c1[t][y] = claim[t][y] /\ c1[t][n] = claim[t][n]
  <2>1. claim[t][m].free + cash >= 0 /\ claim[t][m].locked + 0 >= 0
    BY <1>0, <1>1 DEF m
  <2> QED
    BY <1>0, <2>1, ChangeType
<1> HIDE DEF c1
<1>3. c2 \in Claims /\ c2[t][n] = claim[t][n]
  <2>1. c1[t][y].free + yes >= 0 /\ c1[t][y].locked + 0 >= 0
    BY <1>0, <1>1, <1>2 DEF y
  <2> QED
    BY <1>0, <1>2, <2>1, ChangeType
<1> HIDE DEF c2
<1>4. c2[t][n].free + no >= 0 /\ c2[t][n].locked + 0 >= 0
  BY <1>0, <1>1, <1>3 DEF n
<1>5. Change(c2, t, n, no, 0) \in Claims
  BY <1>0, <1>3, <1>4, ChangeType
<1> QED
  BY <1>5 DEF ChangeSet, c1, c2, m, y, n

-----------------------------------------------------------------------------
(* Links *)

\* The part of TypeOK the links live in, with the domain facts it needs.
LinksType ==
    /\ book \in [Books -> BookRecord]
    /\ order \in [Books -> [Ids -> OrderRecord]]
    /\ level \in [Books -> [Lists -> Levels]]

\* TypeOK, one variable at a time.
LEMMA TypeParts ==
    ASSUME TypeOK
    PROVE  /\ LinksType
           /\ claim \in Claims
  BY DEF TypeOK, LinksType, Levels, Claims

\* Unlinking an order leaves order records.
LEMMA OrdersWithoutType ==
    ASSUME LinksType, NEW b \in Books, NEW i \in Ids, NEW final \in OrderRecord
    PROVE  OrdersWithout(b, i, final) \in [Ids -> OrderRecord]
<1>1. \A j \in Ids : order[b][j] \in OrderRecord
  BY DEF LinksType
<1>2. /\ order[b][i].next_order \in OrderHints
      /\ order[b][i].previous_order \in OrderHints
  BY <1>1 DEF OrderRecord
<1> DEFINE o == order[b][i]
           relinked(j) == [order[b][j] EXCEPT
               !.next_order     = IF j = o.previous_order THEN o.next_order ELSE order[b][j].next_order,
               !.previous_order = IF j = o.next_order THEN o.previous_order ELSE order[b][j].previous_order]
<1>3. ASSUME NEW j \in Ids PROVE relinked(j) \in OrderRecord
  BY <1>1, <1>2 DEF OrderRecord
<1> QED
  BY <1>1, <1>3 DEF OrdersWithout

\* Unlinking an order changes nothing of the others but their links, and only
\* the links of its two neighbours.
LEMMA OrdersWithoutAt ==
    ASSUME LinksType, NEW b \in Books, NEW i \in Ids, NEW final
    PROVE  /\ OrdersWithout(b, i, final)[i] = final
           /\ \A j \in Ids \ {i} :
                  LET new == OrdersWithout(b, i, final)[j]
                      old == order[b][j]
                  IN  /\ new.owner = old.owner
                      /\ new.list = old.list
                      /\ new.price = old.price
                      /\ new.quantity = old.quantity
                      /\ new.remaining_quantity = old.remaining_quantity
                      /\ new.locked_collateral = old.locked_collateral
                      /\ new.status = old.status
                      /\ j # order[b][i].previous_order /\ j # order[b][i].next_order
                             => new = old
<1>1. \A j \in Ids : order[b][j] \in OrderRecord
  BY DEF LinksType
<1>2. OrdersWithout(b, i, final)[i] = final
  BY DEF OrdersWithout
<1> QED
  BY <1>1, <1>2 DEF OrdersWithout, OrderRecord

\* The level an order leaves shrinks or disappears, its neighbours stay levels.
LEMMA LevelsWithoutType ==
    ASSUME LinksType, NEW b \in Books, NEW i \in Ids, Removable(b, i)
    PROVE  LevelsWithout(b, i) \in Levels
<1> DEFINE o   == order[b][i]
           old == level[b][o.list]
           lv  == old[o.price]
<1>1. o \in OrderRecord /\ o.list \in Lists /\ o.price \in Prices
  BY DEF LinksType, OrderRecord, Removable, ValidLevel
<1>2. old \in Levels /\ \A x \in Prices : old[x] \in LevelRecord
  BY <1>1 DEF LinksType, Levels
<1>3. /\ lv.order_count \in Nat \ {0}
      /\ lv.total_remaining_quantity \in Nat
      /\ o.remaining_quantity \in Nat
      /\ lv.order_count > 1 => lv.total_remaining_quantity > o.remaining_quantity
  <2>1. lv \in LevelRecord /\ ValidLevel(b, o.list, o.price)
    BY <1>1, <1>2 DEF Removable
  <2>2. lv.order_count > 1 => lv.total_remaining_quantity > o.remaining_quantity
    BY DEF Removable
  <2>3. /\ lv.order_count \in Nat
        /\ lv.total_remaining_quantity \in Nat
        /\ o.remaining_quantity \in Nat
    BY <1>1, <2>1 DEF LevelRecord, OrderRecord
  <2>4. lv.order_count > 0
    BY <2>1 DEF ValidLevel
  <2> QED
    BY <2>2, <2>3, <2>4
<1>4. CASE OnlyOrderOfLevel(b, i)
  <2> DEFINE relinked(x) == [old[x] EXCEPT
                 !.worse_price  = IF x = lv.better_price THEN lv.worse_price ELSE old[x].worse_price,
                 !.better_price = IF x = lv.worse_price THEN lv.better_price ELSE old[x].better_price]
  <2>1. lv.worse_price \in LevelHints /\ lv.better_price \in LevelHints
    BY <1>1, <1>2 DEF LevelRecord
  <2>2. ASSUME NEW x \in Prices PROVE relinked(x) \in LevelRecord
    BY <1>2, <2>1 DEF LevelRecord
  <2>3. AbsentLevel \in LevelRecord
    BY DEF AbsentLevel, LevelRecord, LevelHints, OrderHints
  <2> QED
    BY <1>2, <1>4, <2>2, <2>3 DEF LevelsWithout, Levels
<1>5. CASE ~OnlyOrderOfLevel(b, i)
  <2> DEFINE first == IF o.previous_order = None THEN o.next_order ELSE lv.first_order
             last  == IF o.next_order = None THEN o.previous_order ELSE lv.last_order
             new   == [lv EXCEPT !.first_order = first, !.last_order = last,
                                 !.order_count = lv.order_count - 1,
                                 !.total_remaining_quantity =
                                     lv.total_remaining_quantity - o.remaining_quantity]
  <2>1. lv.order_count - 1 \in Nat /\ lv.total_remaining_quantity - o.remaining_quantity \in Nat
    BY <1>3, <1>5 DEF OnlyOrderOfLevel
  <2>2. first \in OrderHints /\ last \in OrderHints
    BY <1>1, <1>2 DEF LevelRecord, OrderRecord
  <2>3. lv \in LevelRecord
    BY <1>1, <1>2
  <2> HIDE DEF first, last
  <2>4. new \in LevelRecord
    BY <2>1, <2>2, <2>3 DEF LevelRecord
  <2>5. LevelsWithout(b, i) = [old EXCEPT ![o.price] = new]
    BY <1>5 DEF LevelsWithout, first, last
  <2> QED
    BY <1>1, <1>2, <2>4, <2>5 DEF Levels
<1> QED
  BY <1>4, <1>5

\* The root after an order left: one open order fewer, perhaps another head.
LEMMA BookWithoutType ==
    ASSUME LinksType, NEW b \in Books, NEW i \in Ids, Removable(b, i)
    PROVE  /\ BookWithout(b, i) \in BookRecord
           /\ BookWithout(b, i).accrued_quote_fees = book[b].accrued_quote_fees
<1> DEFINE o    == order[b][i]
           lv   == level[b][o.list][o.price]
           best == IF OnlyOrderOfLevel(b, i) /\ lv.better_price = None
                   THEN lv.worse_price ELSE book[b].best_prices[o.list]
<1>1. o.list \in Lists /\ o.price \in Prices
  BY DEF LinksType, OrderRecord, Removable, ValidLevel
<1>2. lv.worse_price \in LevelHints
  BY <1>1 DEF LinksType, Levels, LevelRecord
<1>3. book[b] \in BookRecord /\ book[b].open_order_count >= 1
  BY DEF LinksType, Removable
<1>4. book[b].open_order_count - 1 \in Nat
  BY <1>3 DEF BookRecord
<1>5. best \in LevelHints
  BY <1>1, <1>2, <1>3 DEF BookRecord
<1> HIDE DEF best
<1>6. [book[b].best_prices EXCEPT ![o.list] = best] \in [Lists -> LevelHints]
  BY <1>3, <1>5 DEF BookRecord
<1>7. BookWithout(b, i) =
        [book[b] EXCEPT !.open_order_count = book[b].open_order_count - 1,
                        !.best_prices = [book[b].best_prices EXCEPT ![o.list] = best]]
  BY <1>3 DEF BookWithout, best, BookRecord
<1> QED
  BY <1>3, <1>4, <1>6, <1>7 DEF BookRecord

-----------------------------------------------------------------------------
(* Types of what an instruction computes *)

\* The asset an order locks and the two assets of a trade are assets, and differ.
LEMMA AssetTypes ==
    ASSUME SharedTradingAssumption, NEW b \in Books, NEW l \in ListsOf(b)
    PROVE  /\ l \in Lists /\ l[2] \in Sides
           /\ QuoteOf[b] \in Assets /\ ClaimOf[b][l[1]] \in Assets
           /\ QuoteOf[b] # ClaimOf[b][l[1]]
           /\ LockedAsset(b, l) \in Assets
           /\ Scale[b] \in Nat \ {0}
  BY DEF SharedTradingAssumption, Books, ListsOf, OutcomesOf, IsSpot, LockedAsset, Lists, Sides

\* A price, or the absence of one, is a number.
LEMMA PriceType ==
    ASSUME SharedTradingAssumption
    PROVE  \A p \in Prices \cup {0} : p \in Nat
<1>1. ASSUME NEW p \in Prices PROVE p \in Nat
  BY DEF SharedTradingAssumption
<1> QED
  BY <1>1

\* A valid order is funded for what is left of it, at a price of the book.
LEMMA ValidOrderFunded ==
    ASSUME NEW b \in Books, NEW i \in Ids, ValidOrder(b, i), TypeOK,
           SharedTradingAssumption
    PROVE  LET o == order[b][i]
           IN  /\ o \in OrderRecord
               /\ o.owner \in Traders /\ o.list \in ListsOf(b)
               /\ o.remaining_quantity \in Nat \ {0}
               /\ o.locked_collateral \in Nat
               /\ o.price \in Nat
               /\ Funded(Scale[b], o.list[2], o.price, o.remaining_quantity,
                         o.locked_collateral)
<1> DEFINE o == order[b][i]
<1>1. o \in OrderRecord
  BY DEF TypeOK
<1>2. o.owner \in Traders /\ o.list \in ListsOf(b)
  BY DEF TypeOK, ValidOrder
<1>3. /\ o.remaining_quantity \in Nat
      /\ o.locked_collateral \in Nat
      /\ o.price \in Prices \cup {0}
  BY <1>1 DEF OrderRecord, None
<1>4. o.price \in Nat
  BY <1>3, PriceType
<1>5. o.remaining_quantity > 0
  BY DEF ValidOrder
<1>6. Funded(Scale[b], o.list[2], o.price, o.remaining_quantity, o.locked_collateral)
  <2>1. o.list[2] \in Sides
    BY <1>2, AssetTypes
  <2> QED
    BY <2>1 DEF ValidOrder, Funded, Collateral, Sides
<1> QED
  BY <1>1, <1>2, <1>3, <1>4, <1>5, <1>6

-----------------------------------------------------------------------------
(* Every instruction keeps the types *)

USE DEF None

\* The root and the lists after a placement, in either branch.
LEMMA PlacingType ==
    ASSUME TypeOK, SharedTradingAssumption,
           NEW t \in Traders, NEW b \in Books, NEW l \in ListsOf(b),
           NEW p \in Prices, NEW q \in Quantities, NEW previous \in OrderHints,
           Placing(t, b, l, p, q, previous)
    PROVE  /\ order' \in [Books -> [Ids -> OrderRecord]]
           /\ claim' \in Claims
           /\ \A c \in Books, i \in Ids :
                  order'[c][i].status # "Absent" => /\ order'[c][i].owner \in Traders
                                                    /\ order'[c][i].list \in ListsOf(c)
           /\ market' = market /\ wallet' = wallet /\ vault' = vault
<1> DEFINE id     == book[b].next_order_id
           amount == Collateral(Scale[b], l[2], p, q)
           asset  == LockedAsset(b, l)
           new    == [owner |-> t, list |-> l, price |-> p,
                      previous_order |-> previous, next_order |-> None,
                      quantity |-> q, remaining_quantity |-> q,
                      locked_collateral |-> amount, status |-> "Open"]
           linked(j) == [order[b][j] EXCEPT !.next_order = id]
<1>1. p \in Nat /\ q \in Nat /\ amount \in Nat /\ asset \in Assets /\ l \in Lists
  BY AssetTypes, QuoteAmountType DEF SharedTradingAssumption, Collateral
<1>2. id \in Ids /\ id \in OrderHints
  BY DEF Placing, OrderHints
<1>3. new \in OrderRecord
  BY <1>1 DEF OrderRecord, OrderHints
<1>4. \A c \in Books, j \in Ids : order[c][j] \in OrderRecord
  BY DEF TypeOK
<1>5. ASSUME NEW j \in Ids PROVE linked(j) \in OrderRecord
  BY <1>2, <1>4 DEF OrderRecord
<1> DEFINE orders == [j \in Ids |-> IF j = id THEN new
                                    ELSE IF j = previous THEN linked(j) ELSE order[b][j]]
<1>6. orders \in [Ids -> OrderRecord]
  BY <1>3, <1>4, <1>5
<1>7. order' = [order EXCEPT ![b] = orders]
  BY DEF Placing
<1>8. order' \in [Books -> [Ids -> OrderRecord]]
  BY <1>6, <1>7 DEF TypeOK
<1>9. claim' \in Claims
  <2>1. claim \in Claims /\ claim[t][asset].free \in Nat /\ claim[t][asset].locked \in Nat
    BY <1>1, TypeParts DEF Claims
  <2>2. claim[t][asset].free >= amount /\ claim' = Change(claim, t, asset, -amount, amount)
    BY DEF Placing
  <2> HIDE DEF amount, asset
  <2>3. claim[t][asset].free + (-amount) >= 0 /\ claim[t][asset].locked + amount >= 0
    BY <1>1, <2>1, <2>2
  <2> QED
    BY <1>1, <2>1, <2>2, <2>3, ChangeType
<1>10. ASSUME NEW c \in Books, NEW i \in Ids, order'[c][i].status # "Absent"
       PROVE  order'[c][i].owner \in Traders /\ order'[c][i].list \in ListsOf(c)
  <2>1. CASE c # b
    BY <1>7, <1>10, <2>1 DEF TypeOK
  <2>2. CASE c = b /\ i = id
    BY <1>7, <2>2 DEF TypeOK
  <2>3. CASE c = b /\ i # id
    <3>1. order'[c][i] = orders[i]
      BY <1>7, <2>3 DEF TypeOK
    <3>2. /\ orders[i].status = order[b][i].status
          /\ orders[i].owner = order[b][i].owner
          /\ orders[i].list = order[b][i].list
      BY <1>4, <2>3 DEF OrderRecord
    <3> QED
      BY <1>10, <2>3, <3>1, <3>2 DEF TypeOK
  <2> QED
    BY <2>1, <2>2, <2>3
<1> QED
  BY <1>8, <1>9, <1>10 DEF Placing

\* A level extended by an order at its tail stays a level.
LEMMA AppendedType ==
    ASSUME NEW lv \in LevelRecord, NEW id \in OrderHints, NEW q \in Nat
    PROVE  Appended(lv, id, q) \in LevelRecord
<1>1. lv.order_count + 1 \in Nat /\ lv.total_remaining_quantity + q \in Nat
  BY DEF LevelRecord
<1> QED
  BY <1>1 DEF Appended, LevelRecord

\* Placing behind the tail of an existing level keeps the types.
LEMMA PlaceAppendType ==
    ASSUME TypeOK, SharedTradingAssumption,
           NEW t \in Traders, NEW b \in Books, NEW l \in ListsOf(b),
           NEW p \in Prices, NEW q \in Quantities, PlaceAppend(t, b, l, p, q)
    PROVE  TypeOK'
<1> DEFINE id == book[b].next_order_id
           lv == level[b][l][p]
<1>1. l \in Lists /\ q \in Nat
  BY AssetTypes DEF SharedTradingAssumption
<1>2. lv \in LevelRecord /\ book[b] \in BookRecord
  BY <1>1 DEF TypeOK
<1>3. lv.last_order \in OrderHints
  BY <1>2 DEF LevelRecord
<1>4. /\ order' \in [Books -> [Ids -> OrderRecord]]
      /\ claim' \in Claims
      /\ \A c \in Books, i \in Ids :
             order'[c][i].status # "Absent" => /\ order'[c][i].owner \in Traders
                                               /\ order'[c][i].list \in ListsOf(c)
      /\ market' = market /\ wallet' = wallet /\ vault' = vault
  <2>1. Placing(t, b, l, p, q, lv.last_order)
    BY DEF PlaceAppend
  <2> QED
    BY <1>3, <2>1, PlacingType
<1>5. level' \in [Books -> [Lists -> [Prices -> LevelRecord]]]
  <2>1. id \in OrderHints
    BY DEF PlaceAppend, Placing, OrderHints
  <2>2. Appended(lv, id, q) \in LevelRecord
    BY <1>1, <1>2, <2>1, AppendedType
  <2>3. level' = [level EXCEPT ![b][l][p] = Appended(lv, id, q)]
    BY DEF PlaceAppend
  <2> QED
    BY <1>1, <2>2, <2>3 DEF TypeOK
<1>6. book' \in [Books -> BookRecord]
  BY <1>2 DEF PlaceAppend, TypeOK, BookRecord
<1> QED
  BY <1>4, <1>5, <1>6 DEF TypeOK, Claims

\* Changing the links of a level leaves a level.
LEMMA RelinkedLevelType ==
    ASSUME NEW lv \in LevelRecord, NEW worse \in LevelHints, NEW better \in LevelHints
    PROVE  [lv EXCEPT !.worse_price = worse, !.better_price = better] \in LevelRecord
  BY DEF LevelRecord

\* A new level between better and worse is a level, and so are they.
LEMMA PlaceNewLevelType ==
    ASSUME TypeOK, SharedTradingAssumption,
           NEW t \in Traders, NEW b \in Books, NEW l \in ListsOf(b),
           NEW p \in Prices, NEW q \in Quantities, NEW better \in LevelHints,
           PlaceNewLevel(t, b, l, p, q, better)
    PROVE  TypeOK'
<1> DEFINE id    == book[b].next_order_id
           old   == level[b][l]
           worse == WorseOf(b, l, better)
           new   == [better_price |-> better, worse_price |-> worse,
                     first_order |-> id, last_order |-> id,
                     total_remaining_quantity |-> q, order_count |-> 1]
           relinked(x) == [old[x] EXCEPT
               !.worse_price  = IF x = better THEN p ELSE old[x].worse_price,
               !.better_price = IF x = worse THEN p ELSE old[x].better_price]
<1>1. l \in Lists /\ q \in Nat
  BY AssetTypes DEF SharedTradingAssumption
<1>2. /\ book[b] \in BookRecord
      /\ \A x \in Prices : old[x] \in LevelRecord
      /\ old \in Levels
  BY <1>1 DEF TypeOK, Levels
<1>3. worse \in LevelHints
  BY <1>1, <1>2 DEF WorseOf, Best, LevelRecord, BookRecord, LevelHints
<1>4. /\ order' \in [Books -> [Ids -> OrderRecord]]
      /\ claim' \in Claims
      /\ \A c \in Books, i \in Ids :
             order'[c][i].status # "Absent" => /\ order'[c][i].owner \in Traders
                                               /\ order'[c][i].list \in ListsOf(c)
      /\ market' = market /\ wallet' = wallet /\ vault' = vault
  <2>1. Placing(t, b, l, p, q, None)
    BY DEF PlaceNewLevel
  <2>2. None \in OrderHints
    BY DEF OrderHints
  <2> QED
    BY <2>1, <2>2, PlacingType
<1>5. level' \in [Books -> [Lists -> [Prices -> LevelRecord]]]
  <2>1. id \in OrderHints
    BY DEF PlaceNewLevel, Placing, OrderHints
  <2> HIDE DEF worse
  <2>2. new \in LevelRecord
    BY <1>1, <1>3, <2>1 DEF LevelRecord
  <2>3. ASSUME NEW x \in Prices PROVE relinked(x) \in LevelRecord
    <3> DEFINE w == IF x = better THEN p ELSE old[x].worse_price
               d == IF x = worse THEN p ELSE old[x].better_price
    <3>1. w \in LevelHints /\ d \in LevelHints
      BY <1>2 DEF LevelHints, LevelRecord
    <3> HIDE DEF w, d
    <3>2. [old[x] EXCEPT !.worse_price = w, !.better_price = d] \in LevelRecord
      BY <1>2, <3>1, RelinkedLevelType
    <3> QED
      BY <3>2 DEF w, d
  <2>4. LevelsWith(b, l, p, q, better) \in Levels
    BY <1>2, <2>2, <2>3 DEF LevelsWith, Levels, worse
  <2>5. level' = [level EXCEPT ![b][l] = LevelsWith(b, l, p, q, better)]
    BY DEF PlaceNewLevel
  <2> QED
    BY <1>1, <2>4, <2>5 DEF TypeOK, Levels
<1>6. book' \in [Books -> BookRecord]
  <2>1. /\ book[b].next_order_id + 1 \in Nat \ {0}
        /\ book[b].open_order_count + 1 \in Nat
        /\ [book[b].best_prices EXCEPT ![l] =
               IF better = None THEN p ELSE book[b].best_prices[l]] \in [Lists -> LevelHints]
    BY <1>1, <1>2 DEF BookRecord, LevelHints
  <2> QED
    BY <1>1, <1>2, <2>1 DEF PlaceNewLevel, TypeOK, BookRecord
<1> QED
  BY <1>4, <1>5, <1>6 DEF TypeOK, Claims

\* Orders of all books that were placed stay in lists of theirs when one is
\* replaced by its final record and its neighbours are relinked.
LEMMA UnlinkedOrdersType ==
    ASSUME TypeOK, NEW b \in Books, NEW i \in Ids, ValidOrder(b, i),
           NEW final \in OrderRecord,
           final.owner = order[b][i].owner, final.list = order[b][i].list,
           order' = [order EXCEPT ![b] = OrdersWithout(b, i, final)]
    PROVE  /\ order' \in [Books -> [Ids -> OrderRecord]]
           /\ \A c \in Books, j \in Ids :
                  order'[c][j].status # "Absent" => /\ order'[c][j].owner \in Traders
                                                    /\ order'[c][j].list \in ListsOf(c)
<1>1. OrdersWithout(b, i, final) \in [Ids -> OrderRecord]
  BY TypeParts, OrdersWithoutType
<1>2. order' \in [Books -> [Ids -> OrderRecord]]
  BY <1>1 DEF TypeOK
<1>3. order'[b] = OrdersWithout(b, i, final)
  BY DEF TypeOK
<1>4. ASSUME NEW c \in Books, NEW j \in Ids, order'[c][j].status # "Absent"
      PROVE  order'[c][j].owner \in Traders /\ order'[c][j].list \in ListsOf(c)
  <2>1. CASE c # b
    BY <1>4, <2>1 DEF TypeOK
  <2>2. CASE c = b /\ j = i
    <3>1. order'[c][j] = final
      BY <1>3, <2>2, TypeParts, OrdersWithoutAt
    <3>2. order[b][i].owner \in Traders /\ order[b][i].list \in ListsOf(b)
      BY DEF TypeOK, ValidOrder
    <3> QED
      BY <2>2, <3>1, <3>2
  <2>3. CASE c = b /\ j # i
    <3>1. /\ order'[c][j].status = order[b][j].status
          /\ order'[c][j].owner = order[b][j].owner
          /\ order'[c][j].list = order[b][j].list
      BY <1>3, <2>3, TypeParts, OrdersWithoutAt
    <3> QED
      BY <1>4, <2>3, <3>1 DEF TypeOK
  <2> QED
    BY <2>1, <2>2, <2>3
<1> QED
  BY <1>2, <1>4

\* Canceling releases a lock and unlinks the order without leaving the types.
LEMMA CancelType ==
    ASSUME TypeOK, SharedTradingAssumption,
           NEW t \in Traders, NEW b \in Books, NEW i \in Ids, Cancel(t, b, i)
    PROVE  TypeOK'
<1> DEFINE o     == order[b][i]
           asset == LockedAsset(b, o.list)
           final == [o EXCEPT !.status = "Canceled", !.locked_collateral = 0,
                              !.previous_order = None, !.next_order = None]
<1>1. ValidOrder(b, i) /\ Removable(b, i)
  BY DEF Cancel, Removable
<1>2. o \in OrderRecord /\ o.list \in ListsOf(b) /\ o.locked_collateral \in Nat
  BY <1>1, ValidOrderFunded
<1>3. asset \in Assets /\ o.list \in Lists
  BY <1>2, AssetTypes
<1>4. final \in OrderRecord /\ final.owner = o.owner /\ final.list = o.list
  BY <1>2 DEF OrderRecord, OrderHints
<1>5. claim' \in Claims
  <2>1. claim \in Claims /\ claim[t][asset].free \in Nat /\ claim[t][asset].locked \in Nat
    BY <1>3, TypeParts DEF Claims
  <2>2. /\ claim[t][asset].locked >= o.locked_collateral
        /\ claim' = Change(claim, t, asset, o.locked_collateral, -o.locked_collateral)
    BY DEF Cancel
  <2> DEFINE lock == o.locked_collateral
  <2> HIDE DEF asset, lock
  <2>3. claim[t][asset].free + lock >= 0 /\ claim[t][asset].locked + (-lock) >= 0
    BY <1>2, <2>1, <2>2 DEF lock
  <2>4. lock \in Int /\ -lock \in Int
    BY <1>2 DEF lock
  <2>5. Change(claim, t, asset, lock, -lock) \in Claims
    BY <1>3, <2>1, <2>3, <2>4, ChangeType
  <2> QED
    BY <2>2, <2>5 DEF lock
<1>6. /\ order' \in [Books -> [Ids -> OrderRecord]]
      /\ \A c \in Books, j \in Ids :
             order'[c][j].status # "Absent" => /\ order'[c][j].owner \in Traders
                                               /\ order'[c][j].list \in ListsOf(c)
  BY <1>1, <1>4, UnlinkedOrdersType DEF Cancel
<1>7. level' \in [Books -> [Lists -> [Prices -> LevelRecord]]]
  BY <1>1, <1>3, TypeParts, LevelsWithoutType DEF Cancel, TypeOK, Levels
<1>8. book' \in [Books -> BookRecord]
  BY <1>1, TypeParts, BookWithoutType DEF Cancel, TypeOK
<1>9. market' = market /\ wallet' = wallet /\ vault' = vault
  BY DEF Cancel
<1> QED
  BY <1>5, <1>6, <1>7, <1>8, <1>9 DEF TypeOK, Claims

\* A fill of a valid maker: the plan's amounts, the fee, and the order it leaves.
LEMMA FillPlan ==
    ASSUME TypeOK, SharedTradingAssumption,
           NEW b \in Books, NEW i \in Ids, ValidOrder(b, i), NEW q \in Quantities,
           NEW bps \in FeeRates, NEW o, o = order[b][i], NEW plan,
           plan = Settlement(Scale[b], o.list[2], o.price, q,
                             o.remaining_quantity, o.locked_collateral)
    PROVE  /\ plan.base \in 1 .. o.remaining_quantity
           /\ plan.base \in Nat /\ plan.quote \in Nat
           /\ plan.debit \in Nat /\ plan.refund \in Nat
           /\ TakerFee(plan.quote, bps) \in 0 .. plan.quote
           /\ o.remaining_quantity - plan.base \in Nat
           /\ o.locked_collateral - plan.debit \in Nat
           /\ Funded(Scale[b], o.list[2], o.price, o.remaining_quantity - plan.base,
                     o.locked_collateral - plan.debit)
<1>1. /\ o.list \in ListsOf(b)
      /\ o.remaining_quantity \in Nat \ {0}
      /\ o.locked_collateral \in Nat
      /\ o.price \in Nat
      /\ Funded(Scale[b], o.list[2], o.price, o.remaining_quantity, o.locked_collateral)
  BY ValidOrderFunded
<1>2. o.list[2] \in Sides /\ Scale[b] \in Nat \ {0} /\ q \in Nat \ {0}
  BY <1>1, AssetTypes DEF SharedTradingAssumption
<1>3. bps \in 0 .. MAX_TAKER_FEE_BPS
  BY DEF SharedTradingAssumption
<1> DEFINE S == Scale[b]
           side == o.list[2]
           price == o.price
           r == o.remaining_quantity
           k == o.locked_collateral
<1>4. /\ S \in Nat \ {0} /\ side \in Sides /\ price \in Nat /\ r \in Nat \ {0} /\ k \in Nat
      /\ Funded(S, side, price, r, k)
      /\ plan = Settlement(S, side, price, q, r, k)
  BY <1>1, <1>2
<1> HIDE DEF S, side, price, r, k
<1>5. /\ plan.base \in 1 .. r
      /\ plan.quote \in Nat
      /\ plan.debit \in 0 .. k
      /\ plan.refund \in Nat
      /\ Funded(S, side, price, r - plan.base, k - plan.debit)
  <2> DEFINE P == Settlement(S, side, price, q, r, k)
  <2>1. S \in Nat \ {0} /\ side \in Sides /\ price \in Nat
    BY <1>4
  <2>2. q \in Nat \ {0} /\ r \in Nat \ {0} /\ k \in Nat
    BY <1>2, <1>4
  <2>3. /\ P.base \in 1 .. r
        /\ P.quote \in Nat
        /\ P.debit \in 0 .. k
        /\ P.refund \in Nat
        /\ Funded(S, side, price, r - P.base, k - P.debit)
    BY <1>4, <2>1, <2>2, SettlementKeepsFunded
  <2> QED
    BY <1>4, <2>3
<1>6. TakerFee(plan.quote, bps) \in 0 .. plan.quote
  BY <1>3, <1>5, FeeWithinQuote
<1>7. /\ plan.base \in Nat /\ r - plan.base \in Nat
      /\ plan.debit \in Nat /\ k - plan.debit \in Nat
  BY <1>4, <1>5
<1> QED
  BY <1>5, <1>6, <1>7 DEF S, side, price, r, k

\* The settlement of a fill moves no balance below zero.
LEMMA SettleType ==
    ASSUME claim \in Claims, SharedTradingAssumption, NEW t \in Traders,
           NEW b \in Books, NEW o, o.owner \in Traders, o.owner # t, o.list \in ListsOf(b),
           NEW fee \in Nat, NEW plan,
           plan.base \in Nat, plan.quote \in Nat, plan.debit \in Nat, plan.refund \in Nat,
           \/ SettleBuy(t, b, o, plan, fee)
           \/ SettleSell(t, b, o, plan, fee)
    PROVE  claim' \in Claims
<1> DEFINE quote == QuoteOf[b]
           base  == ClaimOf[b][o.list[1]]
<1>1. quote \in Assets /\ base \in Assets /\ quote # base
  BY AssetTypes
<1>2. CASE SettleBuy(t, b, o, plan, fee)
  <2>1. plan.quote + fee \in Nat /\ 0 \in Nat
    OBVIOUS
  <2>2. /\ claim[t][quote].free >= plan.quote + fee
        /\ claim[o.owner][base].locked >= plan.debit
        /\ claim' = Change(Change(Change(Change(claim, t, quote, -(plan.quote + fee), 0),
                                         t, base, plan.base, 0),
                                  o.owner, quote, plan.quote, 0), o.owner, base, 0, -plan.debit)
    BY <1>2 DEF SettleBuy
  <2> DEFINE pay == plan.quote + fee
  <2> HIDE DEF quote, base, pay
  <2>3. pay \in Nat /\ claim[t][quote].free >= pay
    BY <2>1, <2>2 DEF pay
  <2>4. Change(Change(Change(Change(claim, t, quote, -pay, 0), t, base, plan.base, 0),
                      o.owner, quote, plan.quote, 0), o.owner, base, 0, -plan.debit) \in Claims
    BY <1>1, <2>1, <2>2, <2>3, FillType
  <2> QED
    BY <2>2, <2>4 DEF pay
<1>3. CASE SettleSell(t, b, o, plan, fee)
  <2>1. /\ plan.quote >= fee
        /\ claim[t][base].free >= plan.base
        /\ claim[o.owner][quote].locked >= plan.debit
        /\ claim' = Change(Change(Change(Change(claim, t, base, -plan.base, 0),
                                         t, quote, plan.quote - fee, 0),
                                  o.owner, base, plan.base, 0),
                           o.owner, quote, plan.refund, -plan.debit)
    BY <1>3 DEF SettleSell
  <2> DEFINE get == plan.quote - fee
  <2>2. get \in Nat
    BY <2>1
  <2> HIDE DEF quote, base, get
  <2>3. Change(Change(Change(Change(claim, t, base, -plan.base, 0), t, quote, get, 0),
                      o.owner, base, plan.base, 0),
               o.owner, quote, plan.refund, -plan.debit) \in Claims
    BY <1>1, <2>1, <2>2, FillType
  <2> QED
    BY <2>1, <2>3 DEF get
<1> QED
  BY <1>2, <1>3

\* A match, of either side, filled in part or in full, keeps the types.
LEMMA MatchType ==
    ASSUME TypeOK, SharedTradingAssumption,
           NEW t \in Traders, NEW b \in Books, NEW l \in ListsOf(b), NEW limit \in Prices,
           NEW q \in Quantities, NEW bps \in FeeRates, NEW i \in Ids,
           Match(t, b, l, limit, q, bps, i)
    PROVE  TypeOK'
<1> DEFINE o    == order[b][i]
           plan == Settlement(Scale[b], o.list[2], o.price, q,
                              o.remaining_quantity, o.locked_collateral)
           fee  == TakerFee(plan.quote, bps)
           left == [o EXCEPT !.remaining_quantity = o.remaining_quantity - plan.base,
                             !.locked_collateral = o.locked_collateral - plan.debit]
           lv   == level[b][o.list][o.price]
<1>1. ValidOrder(b, i) /\ ValidLevel(b, o.list, o.price) /\ o.owner # t
  BY DEF Match, MatchableMaker
<1>2. o \in OrderRecord /\ o.owner \in Traders /\ o.list \in ListsOf(b)
  BY <1>1, ValidOrderFunded
<1>3. o.list \in Lists /\ o.price \in Prices
  BY <1>1, <1>2, AssetTypes DEF ValidLevel
<1>4. /\ plan.base \in Nat /\ plan.quote \in Nat
      /\ plan.debit \in Nat /\ plan.refund \in Nat
      /\ fee \in Nat
      /\ o.remaining_quantity - plan.base \in Nat
      /\ o.locked_collateral - plan.debit \in Nat
  BY <1>1, FillPlan
<1>5. /\ SettleBuy(t, b, o, plan, fee) \/ SettleSell(t, b, o, plan, fee)
      /\ lv.total_remaining_quantity >= plan.base
      /\ market' = market /\ wallet' = wallet /\ vault' = vault
  BY DEF Match
<1>6. \/ /\ Removable(b, i)
         /\ order' = [order EXCEPT ![b] = OrdersWithout(b, i,
                         [left EXCEPT !.status = "Filled",
                                      !.previous_order = None, !.next_order = None])]
         /\ level' = [level EXCEPT ![b][o.list] = LevelsWithout(b, i)]
         /\ book' = [book EXCEPT ![b] = [BookWithout(b, i) EXCEPT
                         !.accrued_quote_fees = book[b].accrued_quote_fees + fee]]
      \/ /\ order' = [order EXCEPT ![b][i] = left]
         /\ level' = [level EXCEPT ![b][o.list][o.price].total_remaining_quantity =
                         lv.total_remaining_quantity - plan.base]
         /\ book' = [book EXCEPT ![b].accrued_quote_fees =
                         book[b].accrued_quote_fees + fee]
  BY DEF Match
<1> HIDE DEF plan, fee
<1>7. left \in OrderRecord /\ left.owner = o.owner /\ left.list = o.list
  BY <1>2, <1>4 DEF OrderRecord
<1>8. claim' \in Claims
  BY <1>1, <1>2, <1>4, <1>5, TypeParts, SettleType
<1>9. /\ book[b] \in BookRecord
      /\ book[b].accrued_quote_fees + fee \in Nat
  BY <1>4 DEF TypeOK, BookRecord
<1> HIDE DEF left
<1>10. CASE /\ Removable(b, i)
            /\ order' = [order EXCEPT ![b] = OrdersWithout(b, i,
                         [left EXCEPT !.status = "Filled",
                                      !.previous_order = None, !.next_order = None])]
            /\ level' = [level EXCEPT ![b][o.list] = LevelsWithout(b, i)]
            /\ book' = [book EXCEPT ![b] = [BookWithout(b, i) EXCEPT
                         !.accrued_quote_fees = book[b].accrued_quote_fees + fee]]
  <2> DEFINE final == [left EXCEPT !.status = "Filled",
                                   !.previous_order = None, !.next_order = None]
  <2>1. final \in OrderRecord /\ final.owner = o.owner /\ final.list = o.list
    BY <1>7 DEF OrderRecord, OrderHints
  <2> HIDE DEF final
  <2>2. /\ order' \in [Books -> [Ids -> OrderRecord]]
        /\ \A c \in Books, j \in Ids :
               order'[c][j].status # "Absent" => /\ order'[c][j].owner \in Traders
                                                 /\ order'[c][j].list \in ListsOf(c)
    BY <1>1, <1>10, <2>1, UnlinkedOrdersType DEF final
  <2>3. level' \in [Books -> [Lists -> [Prices -> LevelRecord]]]
    BY <1>3, <1>10, TypeParts, LevelsWithoutType DEF TypeOK, Levels
  <2>4. [BookWithout(b, i) EXCEPT
            !.accrued_quote_fees = book[b].accrued_quote_fees + fee] \in BookRecord
    BY <1>9, <1>10, TypeParts, BookWithoutType DEF BookRecord
  <2>5. book' \in [Books -> BookRecord]
    BY <1>10, <2>4 DEF TypeOK
  <2> QED
    BY <1>5, <1>8, <2>2, <2>3, <2>5 DEF TypeOK, Claims
<1>11. CASE /\ order' = [order EXCEPT ![b][i] = left]
            /\ level' = [level EXCEPT ![b][o.list][o.price].total_remaining_quantity =
                            lv.total_remaining_quantity - plan.base]
            /\ book' = [book EXCEPT ![b].accrued_quote_fees =
                            book[b].accrued_quote_fees + fee]
  <2>1. order' \in [Books -> [Ids -> OrderRecord]]
    BY <1>7, <1>11 DEF TypeOK
  <2>2. ASSUME NEW c \in Books, NEW j \in Ids, order'[c][j].status # "Absent"
        PROVE  order'[c][j].owner \in Traders /\ order'[c][j].list \in ListsOf(c)
    <3>1. CASE c = b /\ j = i
      <4>1. order'[c][j] = left
        BY <1>11, <3>1 DEF TypeOK
      <4> QED
        BY <1>2, <1>7, <3>1, <4>1
    <3>2. CASE c # b \/ j # i
      <4>1. order'[c][j] = order[c][j]
        BY <1>11, <3>2 DEF TypeOK
      <4> QED
        BY <2>2, <4>1 DEF TypeOK
    <3> QED
      BY <3>1, <3>2
  <2>3. level' \in [Books -> [Lists -> [Prices -> LevelRecord]]]
    <3>1. lv \in LevelRecord
      <4>1. level[b][o.list] \in Levels
        BY <1>3, TypeParts DEF LinksType
      <4> QED
        BY <1>3, <4>1 DEF Levels
    <3>2. lv.total_remaining_quantity \in Nat
      BY <3>1 DEF LevelRecord
    <3> DEFINE rest == lv.total_remaining_quantity - plan.base
    <3>3. rest \in Nat
      BY <1>4, <1>5, <3>2
    <3> HIDE DEF rest
    <3>4. [lv EXCEPT !.total_remaining_quantity = rest] \in LevelRecord
      BY <3>1, <3>3 DEF LevelRecord
    <3>5. level' = [level EXCEPT ![b][o.list][o.price] =
                                     [lv EXCEPT !.total_remaining_quantity = rest]]
      BY <1>3, <1>11 DEF rest, TypeOK
    <3> QED
      BY <1>3, <3>4, <3>5 DEF TypeOK
  <2>4. book' \in [Books -> BookRecord]
    BY <1>9, <1>11 DEF TypeOK, BookRecord
  <2> QED
    BY <1>5, <1>8, <2>1, <2>2, <2>3, <2>4 DEF TypeOK, Claims
<1> QED
  BY <1>6, <1>10, <1>11

\* Deposits and withdrawals keep the types.
LEMMA CustodyType ==
    ASSUME TypeOK, SharedTradingAssumption, NEW t \in Traders, NEW m \in Mints,
           NEW amount \in TransferAmounts, Deposit(t, m, amount) \/ Withdraw(t, m, amount)
    PROVE  TypeOK'
<1>1. amount \in Nat /\ m \in Assets
  BY DEF SharedTradingAssumption
<1>2. claim \in Claims /\ claim[t][m].free \in Nat /\ claim[t][m].locked \in Nat
  BY <1>1, TypeParts DEF Claims
<1>3. /\ wallet \in [Traders -> [Mints -> Nat]] /\ vault \in [Mints -> Nat]
      /\ wallet[t][m] \in Nat /\ vault[m] \in Nat
  BY DEF TypeOK
<1>4. CASE Deposit(t, m, amount)
  <2>1. claim[t][m].free + amount >= 0 /\ claim[t][m].locked + 0 >= 0
    BY <1>1, <1>2
  <2>2. claim' \in Claims
    BY <1>1, <1>2, <1>4, <2>1, ChangeType DEF Deposit
  <2>3. wallet' \in [Traders -> [Mints -> Nat]] /\ vault' \in [Mints -> Nat]
    BY <1>1, <1>3, <1>4 DEF Deposit
  <2> QED
    BY <1>4, <2>2, <2>3 DEF Deposit, TypeOK, Claims
<1>5. CASE Withdraw(t, m, amount)
  <2>0. claim[t][m].free >= amount /\ claim' = Change(claim, t, m, -amount, 0)
    BY <1>5 DEF Withdraw
  <2>1. /\ claim[t][m].free + (-amount) >= 0 /\ claim[t][m].locked + 0 >= 0
        /\ -amount \in Int /\ 0 \in Int
    BY <1>1, <1>2, <2>0
  <2>2. claim' \in Claims
    BY <1>1, <1>2, <2>0, <2>1, ChangeType
  <2>3. /\ wallet[t][m] + amount \in Nat /\ vault[m] - amount \in Nat
        /\ wallet' = [wallet EXCEPT ![t][m] = wallet[t][m] + amount]
        /\ vault' = [vault EXCEPT ![m] = vault[m] - amount]
    BY <1>1, <1>3, <1>5 DEF Withdraw
  <2>4. wallet' \in [Traders -> [Mints -> Nat]] /\ vault' \in [Mints -> Nat]
    BY <1>3, <2>3
  <2> QED
    BY <1>5, <2>2, <2>4 DEF Withdraw, TypeOK, Claims
<1> QED
  BY <1>4, <1>5

\* What an outcome pays for any contracts is a number of atoms.
LEMMA PayoutType ==
    ASSUME SharedTradingAssumption, NEW b \in PredictionBooks, NEW final \in Outcomes,
           NEW yes \in Nat, NEW no \in Nat
    PROVE  PayoutOf(b, final, yes, no) \in Nat
<1>1. Payout[b] \in Nat /\ Payout[b] \div 2 \in Nat
  BY DEF SharedTradingAssumption
<1>2. yes * Payout[b] \in Nat /\ no * Payout[b] \in Nat /\ (yes + no) * (Payout[b] \div 2) \in Nat
  BY <1>1
<1> QED
  BY <1>2 DEF PayoutOf, Outcomes

\* What enters or leaves a reserve leaves it a natural number.
LEMMA ReserveType ==
    ASSUME NEW m \in MarketRecord, NEW cash \in Int, NEW yes \in Int, NEW no \in Int,
           m.backing_reserve + cash >= 0, m.vault + cash >= 0,
           m.yes_supply + yes >= 0, m.no_supply + no >= 0
    PROVE  /\ ChangeReserve(m, cash, yes, no) \in MarketRecord
           /\ ChangeReserve(m, cash, yes, no).status = m.status
           /\ ChangeReserve(m, cash, yes, no).final_outcome = m.final_outcome
           /\ ChangeReserve(m, cash, yes, no).yes_supply = m.yes_supply + yes
           /\ ChangeReserve(m, cash, yes, no).no_supply = m.no_supply + no
           /\ ChangeReserve(m, cash, yes, no).backing_reserve = m.backing_reserve + cash
           /\ ChangeReserve(m, cash, yes, no).vault = m.vault + cash
<1>1. /\ m.backing_reserve + cash \in Nat /\ m.vault + cash \in Nat
      /\ m.yes_supply + yes \in Nat /\ m.no_supply + no \in Nat
  BY DEF MarketRecord
<1> QED
  BY <1>1 DEF ChangeReserve, MarketRecord

\* What Split, Merge and Redeem have in common: cash moves between the vault of
\* the question and the global one, and the trader's contracts follow.
LEMMA SetType ==
    ASSUME TypeOK, SharedTradingAssumption, NEW t \in Traders, NEW b \in PredictionBooks,
           NEW cash \in Int, NEW yes \in Int, NEW no \in Int,
           vault[QuoteOf[b]] + cash >= 0,
           claim[t][QuoteOf[b]].free + cash >= 0,
           claim[t][ClaimOf[b]["Yes"]].free + yes >= 0,
           claim[t][ClaimOf[b]["No"]].free + no >= 0,
           market[b].backing_reserve + (-cash) >= 0, market[b].vault + (-cash) >= 0,
           market[b].yes_supply + yes >= 0, market[b].no_supply + no >= 0,
           vault' = [vault EXCEPT ![QuoteOf[b]] = vault[QuoteOf[b]] + cash],
           claim' = ChangeSet(t, b, cash, yes, no),
           market' = [market EXCEPT ![b] = ChangeReserve(market[b], -cash, yes, no)],
           UNCHANGED <<book, order, level, wallet>>
    PROVE  TypeOK'
<1>1. b \in Books /\ QuoteOf[b] \in Mints
  BY DEF SharedTradingAssumption, Books
<1>2. claim' \in Claims
  BY TypeParts, ChangeSetType
<1>3. vault' \in [Mints -> Nat]
  BY <1>1 DEF TypeOK
<1>4. market[b] \in MarketRecord /\ -cash \in Int
  BY <1>1 DEF TypeOK
<1> DEFINE new == ChangeReserve(market[b], -cash, yes, no)
<1>5. /\ new \in MarketRecord
      /\ new.status = market[b].status /\ new.final_outcome = market[b].final_outcome
  BY <1>4, ReserveType
<1> HIDE DEF new
<1>6. market' = [market EXCEPT ![b] = new]
  BY DEF new
<1>7. market' \in [Books -> MarketRecord]
  BY <1>1, <1>5, <1>6 DEF TypeOK
<1>8. \A c \in Books :
          (market'[c].status = "Resolved") <=> (market'[c].final_outcome # Undecided)
  BY <1>1, <1>5, <1>6 DEF TypeOK
<1> QED
  BY <1>2, <1>3, <1>7, <1>8 DEF TypeOK, Claims

\* Splitting, merging and redeeming keep the types.
LEMMA CompleteSetsType ==
    ASSUME TypeOK, SharedTradingAssumption, NEW b \in PredictionBooks, CompleteSets(b)
    PROVE  TypeOK'
<1> DEFINE cash == QuoteOf[b]
           y    == ClaimOf[b]["Yes"]
           n    == ClaimOf[b]["No"]
           m    == market[b]
<1>1. b \in Books /\ cash \in Mints /\ cash \in Assets /\ y \in Assets /\ n \in Assets
  BY DEF SharedTradingAssumption, Books
<1>2. /\ vault[cash] \in Nat
      /\ m.yes_supply \in Nat /\ m.no_supply \in Nat
      /\ m.backing_reserve \in Nat /\ m.vault \in Nat
  BY <1>1 DEF TypeOK, MarketRecord
<1>3. \A t \in Traders, a \in Assets : claim[t][a].free \in Nat
  BY TypeParts DEF Claims
<1>4. ASSUME NEW q \in Quantities PROVE q \in Nat /\ q * Payout[b] \in Nat
  <2>1. q \in Nat /\ Payout[b] \in Nat
    BY DEF SharedTradingAssumption
  <2> QED
    BY <2>1
<1>5. ASSUME NEW t \in Traders, NEW q \in Quantities, Split(t, b, q)
      PROVE  TypeOK'
  <2> DEFINE cost == q * Payout[b]
  <2>1. /\ vault[cash] >= cost /\ claim[t][cash].free >= cost
        /\ vault' = [vault EXCEPT ![cash] = vault[cash] - cost]
        /\ claim' = ChangeSet(t, b, -cost, q, q)
        /\ market' = [market EXCEPT ![b] = ChangeReserve(m, cost, q, q)]
        /\ UNCHANGED <<book, order, level, wallet>>
    BY <1>5 DEF Split
  <2>2. cost \in Nat /\ q \in Nat
    BY <1>4
  <2>3. claim[t][cash].free \in Nat /\ claim[t][y].free \in Nat /\ claim[t][n].free \in Nat
    BY <1>1, <1>3
  <2> DEFINE moved == -cost
  <2> HIDE DEF cost
  <2>4. /\ moved \in Int /\ -moved = cost /\ q \in Int
        /\ vault[cash] - cost = vault[cash] + moved
        /\ vault[cash] + moved >= 0
        /\ claim[t][cash].free + moved >= 0
        /\ claim[t][y].free + q >= 0 /\ claim[t][n].free + q >= 0
        /\ m.backing_reserve + cost >= 0 /\ m.vault + cost >= 0
        /\ m.yes_supply + q >= 0 /\ m.no_supply + q >= 0
    BY <1>2, <2>1, <2>2, <2>3
  <2> HIDE DEF moved
  <2> QED
    BY <2>1, <2>4, SetType DEF moved
<1>6. ASSUME NEW t \in Traders, NEW q \in Quantities, Merge(t, b, q)
      PROVE  TypeOK'
  <2> DEFINE cost == q * Payout[b]
  <2>1. /\ m.vault >= cost /\ m.backing_reserve >= cost
        /\ claim[t][y].free >= q /\ claim[t][n].free >= q
        /\ m.yes_supply >= q /\ m.no_supply >= q
        /\ vault' = [vault EXCEPT ![cash] = vault[cash] + cost]
        /\ claim' = ChangeSet(t, b, cost, -q, -q)
        /\ market' = [market EXCEPT ![b] = ChangeReserve(m, -cost, -q, -q)]
        /\ UNCHANGED <<book, order, level, wallet>>
    BY <1>6 DEF Merge
  <2>2. cost \in Nat /\ q \in Nat
    BY <1>4
  <2>3. claim[t][cash].free \in Nat /\ claim[t][y].free \in Nat /\ claim[t][n].free \in Nat
    BY <1>1, <1>3
  <2> HIDE DEF cost
  <2>4. /\ cost \in Int /\ -q \in Int
        /\ vault[cash] + cost >= 0
        /\ claim[t][cash].free + cost >= 0
        /\ claim[t][y].free + (-q) >= 0 /\ claim[t][n].free + (-q) >= 0
        /\ m.backing_reserve + (-cost) >= 0 /\ m.vault + (-cost) >= 0
        /\ m.yes_supply + (-q) >= 0 /\ m.no_supply + (-q) >= 0
    BY <1>2, <2>1, <2>2, <2>3
  <2> QED
    BY <2>1, <2>4, SetType
<1>7. ASSUME NEW t \in Traders, NEW yes \in Quantities \cup {0},
             NEW no \in Quantities \cup {0}, Redeem(t, b, yes, no)
      PROVE  TypeOK'
  <2> DEFINE amount == PayoutOf(b, m.final_outcome, yes, no)
  <2>1. /\ m.vault >= amount /\ m.backing_reserve >= amount
        /\ claim[t][y].free >= yes /\ claim[t][n].free >= no
        /\ m.yes_supply >= yes /\ m.no_supply >= no
        /\ vault' = [vault EXCEPT ![cash] = vault[cash] + amount]
        /\ claim' = ChangeSet(t, b, amount, -yes, -no)
        /\ market' = [market EXCEPT ![b] = ChangeReserve(m, -amount, -yes, -no)]
        /\ UNCHANGED <<book, order, level, wallet>>
    BY <1>7 DEF Redeem
  <2>2. yes \in Nat /\ no \in Nat
    BY <1>4
  <2>3. m.final_outcome \in Outcomes
    <3>1. m.status = "Resolved"
      BY <1>7 DEF Redeem
    <3>2. m.final_outcome \in Outcomes \cup {Undecided} /\ m.final_outcome # Undecided
      BY <1>1, <3>1 DEF TypeOK, MarketRecord
    <3> QED
      BY <3>2
  <2>4. amount \in Nat
    BY <2>2, <2>3, PayoutType
  <2>5. claim[t][cash].free \in Nat /\ claim[t][y].free \in Nat /\ claim[t][n].free \in Nat
    BY <1>1, <1>3
  <2> HIDE DEF amount
  <2>6. /\ amount \in Int /\ -yes \in Int /\ -no \in Int
        /\ vault[cash] + amount >= 0
        /\ claim[t][cash].free + amount >= 0
        /\ claim[t][y].free + (-yes) >= 0 /\ claim[t][n].free + (-no) >= 0
        /\ m.backing_reserve + (-amount) >= 0 /\ m.vault + (-amount) >= 0
        /\ m.yes_supply + (-yes) >= 0 /\ m.no_supply + (-no) >= 0
    BY <1>2, <2>1, <2>2, <2>4, <2>5
  <2> QED
    BY <2>1, <2>6, SetType
<1> QED
  BY <1>5, <1>6, <1>7 DEF CompleteSets

\* Creating a book, taking its fees and closing it keep the types.
LEMMA AdministrationType ==
    ASSUME TypeOK, NEW b \in Books, SharedTradingAssumption, Administration(b)
    PROVE  TypeOK'
<1>1. book[b] \in BookRecord /\ QuoteOf[b] \in Mints
  BY DEF TypeOK, SharedTradingAssumption
<1>2. ASSUME InitializeBook(b) PROVE TypeOK'
  <2>1. EmptyBook \in BookRecord
    BY DEF EmptyBook, BookRecord, LevelHints
  <2> QED
    BY <1>2, <2>1 DEF InitializeBook, TypeOK
<1>3. ASSUME CloseBook(b) PROVE TypeOK'
  <2>1. [book[b] EXCEPT !.live = FALSE] \in BookRecord
    BY <1>1 DEF BookRecord
  <2>2. book' = [book EXCEPT ![b] = [book[b] EXCEPT !.live = FALSE]]
    BY <1>3 DEF CloseBook, TypeOK
  <2> QED
    BY <1>3, <2>1, <2>2 DEF CloseBook, TypeOK
<1>4. ASSUME NEW amount \in 1 .. book[b].accrued_quote_fees, WithdrawFees(b, amount)
      PROVE  TypeOK'
  <2> DEFINE fees == book[b].accrued_quote_fees - amount
             rest == vault[QuoteOf[b]] - amount
  <2>1. book[b].accrued_quote_fees \in Nat /\ vault[QuoteOf[b]] \in Nat
    BY <1>1 DEF BookRecord, TypeOK
  <2>2. vault[QuoteOf[b]] >= amount /\ book[b].accrued_quote_fees >= amount
    BY <1>4 DEF WithdrawFees
  <2>3. fees \in Nat /\ rest \in Nat
    BY <2>1, <2>2
  <2>4. /\ book' = [book EXCEPT ![b].accrued_quote_fees = fees]
        /\ vault' = [vault EXCEPT ![QuoteOf[b]] = rest]
        /\ UNCHANGED <<market, order, level, claim, wallet>>
    BY <1>4 DEF WithdrawFees
  <2> HIDE DEF fees, rest
  <2>5. book' \in [Books -> BookRecord]
    BY <1>1, <2>3, <2>4 DEF TypeOK, BookRecord
  <2>6. vault' \in [Mints -> Nat]
    BY <1>1, <2>3, <2>4 DEF TypeOK
  <2> QED
    BY <2>4, <2>5, <2>6 DEF TypeOK
<1> QED
  BY <1>2, <1>3, <1>4 DEF Administration

\* Pausing, resuming and any lifecycle step change status and outcome together.
LEMMA MarketType ==
    ASSUME TypeOK, NEW b \in Books,
           \/ PauseMarket(b) \/ UnpauseMarket(b)
           \/ \E phase \in Phases, final \in Outcomes \cup {Undecided} :
                  AdvanceMarket(b, phase, final)
    PROVE  TypeOK'
<1>1. PICK phase \in Phases \cup {"Active", "Paused"}, final \in Outcomes \cup {Undecided} :
          /\ market' = [market EXCEPT ![b].status = phase, ![b].final_outcome = final]
          /\ (phase = "Resolved") <=> (final # Undecided)
          /\ UNCHANGED <<book, order, level, claim, wallet, vault>>
  <2>1. market[b] \in MarketRecord /\ market \in [Books -> MarketRecord]
    BY DEF TypeOK
  <2>2. CASE PauseMarket(b) \/ UnpauseMarket(b)
    <3> DEFINE phase == IF market[b].status = "Active" THEN "Paused" ELSE "Active"
    <3>1. /\ market' = [market EXCEPT ![b].status = phase]
          /\ market[b].status # "Resolved"
          /\ UNCHANGED <<book, order, level, claim, wallet, vault>>
      BY <2>2 DEF PauseMarket, UnpauseMarket
    <3>2. market[b].final_outcome = Undecided
      BY <3>1 DEF TypeOK
    <3>3. market' = [market EXCEPT ![b].status = phase, ![b].final_outcome = Undecided]
      BY <2>1, <3>1, <3>2 DEF MarketRecord
    <3>4. phase \in {"Active", "Paused"}
      OBVIOUS
    <3> HIDE DEF phase
    <3>5. phase \in Phases \cup {"Active", "Paused"} /\ phase # "Resolved"
      BY <3>4
    <3> QED
      BY <3>1, <3>3, <3>5
  <2>3. CASE \E phase \in Phases, final \in Outcomes \cup {Undecided} :
                 AdvanceMarket(b, phase, final)
    <3>1. PICK phase \in Phases, final \in Outcomes \cup {Undecided} :
              AdvanceMarket(b, phase, final)
      BY <2>3
    <3>2. (phase = "Resolved") <=> (final # Undecided)
      BY <3>1 DEF AdvanceMarket, CanMove, Outcomes, Undecided
    <3> QED
      BY <3>1, <3>2 DEF AdvanceMarket
  <2> QED
    BY <2>2, <2>3
<1>2. market' \in [Books -> MarketRecord]
  <2> DEFINE new == [market[b] EXCEPT !.status = phase, !.final_outcome = final]
  <2>1. market[b] \in MarketRecord /\ new \in MarketRecord
    BY DEF TypeOK, MarketRecord
  <2>2. market' = [market EXCEPT ![b] = new]
    BY <1>1 DEF TypeOK
  <2> HIDE DEF new
  <2> QED
    BY <2>1, <2>2 DEF TypeOK
<1>3. \A c \in Books :
          (market'[c].status = "Resolved") <=> (market'[c].final_outcome # Undecided)
  BY <1>1 DEF TypeOK, MarketRecord
<1> QED
  BY <1>1, <1>2, <1>3 DEF TypeOK

\* The initial state has its types.
LEMMA InitType ==
    ASSUME SharedTradingAssumption, Init
    PROVE  TypeOK
<1>1. market \in [Books -> MarketRecord]
  BY DEF Init, MarketRecord, Phases, Undecided
<1>2. book \in [Books -> BookRecord]
  <2> DEFINE closed == [EmptyBook EXCEPT !.live = FALSE]
  <2>1. EmptyBook \in BookRecord
    BY DEF EmptyBook, BookRecord, LevelHints
  <2>2. closed \in BookRecord
    BY <2>1 DEF BookRecord
  <2>3. book = [b \in Books |-> closed]
    BY DEF Init
  <2> HIDE DEF closed
  <2> QED
    BY <2>2, <2>3
<1>3. order \in [Books -> [Ids -> OrderRecord]]
  <2>1. AbsentOrder \in OrderRecord
    BY DEF AbsentOrder, OrderRecord, Lists, Sides, OrderHints
  <2> QED
    BY <2>1 DEF Init
<1>4. level \in [Books -> [Lists -> [Prices -> LevelRecord]]]
  <2>1. AbsentLevel \in LevelRecord
    BY DEF AbsentLevel, LevelRecord, LevelHints, OrderHints
  <2> QED
    BY <2>1 DEF Init
<1>5. /\ claim \in [Traders -> [Assets -> [free : Nat, locked : Nat]]]
      /\ wallet \in [Traders -> [Mints -> Nat]]
      /\ vault \in [Mints -> Nat]
  BY DEF Init, SharedTradingAssumption
<1>6. \A b \in Books, i \in Ids : order[b][i].status = "Absent"
  BY DEF Init, AbsentOrder
<1>7. \A b \in Books :
          (market[b].status = "Resolved") <=> (market[b].final_outcome # Undecided)
  BY DEF Init
<1> QED
  BY <1>1, <1>2, <1>3, <1>4, <1>5, <1>6, <1>7 DEF TypeOK

\* Every step keeps the types.
LEMMA NextType ==
    ASSUME SharedTradingAssumption, TypeOK, [Next]_vars
    PROVE  TypeOK'
<1>1. CASE Custody
  BY <1>1, CustodyType DEF Custody
<1>2. ASSUME NEW b \in Books, Place(b) PROVE TypeOK'
  BY <1>2, PlaceAppendType, PlaceNewLevelType DEF Place
<1>3. ASSUME NEW b \in Books, CancelOrder(b) PROVE TypeOK'
  BY <1>3, CancelType DEF CancelOrder
<1>4. ASSUME NEW b \in Books, MatchOrder(b) PROVE TypeOK'
  BY <1>4, MatchType DEF MatchOrder
<1>5. ASSUME NEW b \in Books, Administration(b) PROVE TypeOK'
  BY <1>5, AdministrationType
<1>6. ASSUME NEW b \in SpotBooks, PauseMarket(b) \/ UnpauseMarket(b) PROVE TypeOK'
  BY <1>6, MarketType DEF Books
<1>7. ASSUME NEW b \in PredictionBooks, CompleteSets(b) PROVE TypeOK'
  BY <1>7, CompleteSetsType
<1>8. ASSUME NEW b \in PredictionBooks,
             \E phase \in Phases, final \in Outcomes \cup {Undecided} :
                 AdvanceMarket(b, phase, final)
      PROVE  TypeOK'
  BY <1>8, MarketType DEF Books
<1>9. CASE UNCHANGED vars
  BY <1>9 DEF vars, TypeOK
<1> QED
  BY <1>1, <1>2, <1>3, <1>4, <1>5, <1>6, <1>7, <1>8, <1>9 DEF Next

\* Type correctness of the exchange: whatever clients send, every balance, vault,
\* counter and supply stays a number of its type (the checked subtractions of
\* shared_trading.rs, shared_match.rs and asset_wallet.rs never go below zero),
\* orders stay in lists of their book, outcomes go with Resolved.
THEOREM TypeCorrect == Spec => []TypeOK
<1>1. Init => TypeOK
  BY SharedTradingAssumption, InitType
<1>2. TypeOK /\ [Next]_vars => TypeOK'
  BY SharedTradingAssumption, NextType
<1> QED
  BY <1>1, <1>2, PTL DEF Spec
=============================================================================
