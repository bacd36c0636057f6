----------------------------- MODULE OrderProofs -----------------------------
(***************************************************************************)
(* What one instruction can do to any order account, and the properties    *)
(* that follow for every run: an order stays funded while it is open and   *)
(* is history once it is closed, the links of the accounts are the lists   *)
(* and queues they stand for, and what its cancellation then lacks.        *)
(***************************************************************************)
EXTENDS CustodyProofs

USE DEF None

\* Only the links of the order change, and not even they once it is closed.
Relinked(o, n) ==
    /\ n.status = o.status /\ n.list = o.list /\ n.price = o.price
    /\ n.quantity = o.quantity
    /\ n.remaining_quantity = o.remaining_quantity
    /\ n.locked_collateral = o.locked_collateral
    /\ o.status \in {"Filled", "Canceled"} => n = o

\* An open order: what is left of it is some of its quantity, and is funded.
FundedOrder(b, o) ==
    /\ o.price \in Prices
    /\ o.remaining_quantity \in 1 .. o.quantity
    /\ Funded(Scale[b], o.list[2], o.price, o.remaining_quantity, o.locked_collateral)

\* What an instruction does to the account o of book b: links, a new order, a
\* closed one, or a partial fill.
OrderStep(b, o, n) ==
    \/ Relinked(o, n)
    \/ o.status = "Absent" /\ n.status = "Open" /\ FundedOrder(b, n)
    \/ o.status = "Open" /\ n.status \in {"Filled", "Canceled"}
    \/ /\ o.status = "Open" /\ n.status = "Open"
       /\ n.price = o.price /\ n.quantity = o.quantity
       /\ n.remaining_quantity \in 1 .. o.remaining_quantity
       /\ Funded(Scale[b], n.list[2], n.price, n.remaining_quantity, n.locked_collateral)

OrdersStep == \A b \in Books, i \in Ids : OrderStep(b, order[b][i], order'[b][i])

\* A placement creates its order and relinks at most the tail it was put behind.
LEMMA PlacingStep ==
    ASSUME TypeOK, SharedTradingAssumption,
           NEW t \in Traders, NEW b \in Books, NEW l \in ListsOf(b),
           NEW p \in Prices, NEW q \in Quantities, NEW previous \in OrderHints,
           Placing(t, b, l, p, q, previous),
           previous # None => ValidOrder(b, previous)
    PROVE  OrdersStep
<1> DEFINE id     == book[b].next_order_id
           amount == Collateral(Scale[b], l[2], p, q)
           new    == [owner |-> t, list |-> l, price |-> p,
                      previous_order |-> previous, next_order |-> None,
                      quantity |-> q, remaining_quantity |-> q,
                      locked_collateral |-> amount, status |-> "Open"]
           orders == [j \in Ids |-> IF j = id THEN new
                                    ELSE IF j = previous
                                         THEN [order[b][j] EXCEPT !.next_order = id]
                                         ELSE order[b][j]]
<1>1. id \in Ids /\ order[b][id].status = "Absent" /\ order' = [order EXCEPT ![b] = orders]
  BY DEF Placing, NewAccount
<1>2. ASSUME NEW c \in Books, NEW i \in Ids
      PROVE  OrderStep(c, order[c][i], order'[c][i])
  <2>1. order[c][i] \in OrderRecord
    BY DEF TypeOK
  <2>2. CASE c # b
    <3>1. order'[c][i] = order[c][i]
      BY <1>1, <2>2 DEF TypeOK
    <3> QED
      BY <3>1 DEF OrderStep, Relinked
  <2>3. CASE c = b /\ i = id
    <3>1. order'[c][i] = new
      BY <1>1, <2>3 DEF TypeOK
    <3>2. q \in Nat \ {0} /\ l[2] \in Sides
      BY AssetTypes DEF SharedTradingAssumption
    <3>3. FundedOrder(b, new)
      <4>1. q \in 1 .. q
        BY <3>2
      <4>2. Funded(Scale[b], l[2], p, q, amount)
        <5>1. amount \in Nat
          <6>1. p \in Nat /\ q \in Nat /\ Scale[b] \in Nat \ {0}
            BY <3>2, PriceType, AssetTypes
          <6> QED
            BY <6>1, QuoteAmountType DEF Collateral
        <5>2. /\ l[2] = "Bid" => amount = QuoteAmount(Scale[b], p, q)
              /\ l[2] # "Bid" => amount = q
          BY DEF Collateral
        <5> HIDE DEF amount
        <5>3. l[2] = "Bid" => amount >= QuoteAmount(Scale[b], p, q)
          BY <5>1, <5>2
        <5> QED
          BY <5>2, <5>3 DEF Funded
      <4> QED
        BY <4>1, <4>2 DEF FundedOrder
    <3> QED
      BY <1>1, <2>3, <3>1, <3>3, SMTT(20) DEF OrderStep
  <2>4. CASE c = b /\ i # id
    <3>1. order'[c][i] = orders[i]
      BY <1>1, <2>4 DEF TypeOK
    <3>2. CASE i = previous
      <4>1. order[b][i].status = "Open"
        BY <3>2 DEF ValidOrder, Ids
      <4>2. order'[c][i] = [order[b][i] EXCEPT !.next_order = id]
        BY <2>4, <3>1, <3>2
      <4> QED
        BY <2>1, <2>4, <4>1, <4>2 DEF OrderStep, Relinked, OrderRecord
    <3>3. CASE i # previous
      BY <2>4, <3>1, <3>3 DEF OrderStep, Relinked
    <3> QED
      BY <3>2, <3>3
  <2> QED
    BY <2>2, <2>3, <2>4
<1> QED
  BY <1>2 DEF OrdersStep

\* A removal closes its order and relinks its neighbours, which are open.
LEMMA RemovalStep ==
    ASSUME TypeOK, NEW b \in Books, NEW i \in Ids, Removable(b, i),
           NEW final \in OrderRecord, final.status \in {"Filled", "Canceled"},
           order' = [order EXCEPT ![b] = OrdersWithout(b, i, final)]
    PROVE  OrdersStep
<1> DEFINE orders == OrdersWithout(b, i, final)
           o      == order[b][i]
<1>1. order'[b] = orders
  BY DEF TypeOK
<1>2. /\ orders[i] = final
      /\ \A j \in Ids \ {i} :
             /\ orders[j].list = order[b][j].list
             /\ orders[j].price = order[b][j].price
             /\ orders[j].quantity = order[b][j].quantity
             /\ orders[j].remaining_quantity = order[b][j].remaining_quantity
             /\ orders[j].locked_collateral = order[b][j].locked_collateral
             /\ orders[j].status = order[b][j].status
             /\ j # o.previous_order /\ j # o.next_order => orders[j] = order[b][j]
  BY TypeParts, OrdersWithoutAt
<1>3. /\ o.status = "Open"
      /\ o.previous_order # None => order[b][o.previous_order].status = "Open"
      /\ o.next_order # None => order[b][o.next_order].status = "Open"
  BY DEF Removable, ValidOrder
<1> HIDE DEF orders, o
<1>4. ASSUME NEW c \in Books, NEW j \in Ids
      PROVE  OrderStep(c, order[c][j], order'[c][j])
  <2>1. CASE c # b
    <3>1. order'[c][j] = order[c][j]
      BY <2>1 DEF TypeOK
    <3> QED
      BY <3>1 DEF OrderStep, Relinked
  <2>2. CASE c = b /\ j = i
    BY <1>1, <1>2, <1>3, <2>2 DEF OrderStep, o
  <2>3. CASE c = b /\ j # i
    <3>1. j # None
      BY DEF Ids
    <3>2. order[b][j].status \in {"Filled", "Canceled"} => orders[j] = order[b][j]
      BY <1>2, <1>3, <2>3, <3>1
    <3>3. Relinked(order[b][j], orders[j])
      BY <1>2, <2>3, <3>2, Zenon DEF Relinked
    <3> QED
      BY <1>1, <2>3, <3>3 DEF OrderStep
  <2> QED
    BY <2>1, <2>2, <2>3
<1> QED
  BY <1>4 DEF OrdersStep

\* A fill closes the maker or leaves it with less and still funded.
LEMMA MatchStep ==
    ASSUME TypeOK, SharedTradingAssumption,
           NEW t \in Traders, NEW b \in Books, NEW l \in ListsOf(b), NEW limit \in Prices,
           NEW q \in Quantities, NEW bps \in FeeRates, NEW i \in Ids,
           Match(t, b, l, limit, q, bps, i)
    PROVE  OrdersStep
<1> DEFINE o     == order[b][i]
           plan  == Settlement(Scale[b], o.list[2], o.price, q,
                               o.remaining_quantity, o.locked_collateral)
           left  == [o EXCEPT !.remaining_quantity = o.remaining_quantity - plan.base,
                              !.locked_collateral = o.locked_collateral - plan.debit]
           final == [left EXCEPT !.status = "Filled",
                                 !.previous_order = None, !.next_order = None]
<1>1. ValidOrder(b, i)
  BY DEF Match, MatchableMaker
<1>2. o \in OrderRecord /\ o.remaining_quantity \in Nat \ {0}
  BY <1>1, ValidOrderFunded
<1>3. /\ plan.base \in 1 .. o.remaining_quantity
      /\ Funded(Scale[b], o.list[2], o.price, o.remaining_quantity - plan.base,
                o.locked_collateral - plan.debit)
  BY <1>1, FillPlan
<1>4. \/ Removable(b, i) /\ order' = [order EXCEPT ![b] = OrdersWithout(b, i, final)]
      \/ ~plan.fully_filled /\ order' = [order EXCEPT ![b][i] = left]
  BY DEF Match
<1>5. ~plan.fully_filled => plan.base # o.remaining_quantity
  BY DEF Settlement
<1> HIDE DEF plan
<1>6. CASE Removable(b, i) /\ order' = [order EXCEPT ![b] = OrdersWithout(b, i, final)]
  <2>1. final \in OrderRecord /\ final.status = "Filled"
    <3>1. left \in OrderRecord
      BY <1>2, <1>3, FillPlan, <1>1 DEF OrderRecord, plan
    <3> HIDE DEF left
    <3> QED
      BY <3>1 DEF OrderRecord, OrderHints
  <2> HIDE DEF final
  <2> QED
    BY <1>6, <2>1, RemovalStep
<1>7. CASE ~plan.fully_filled /\ order' = [order EXCEPT ![b][i] = left]
  <2>1. /\ left.status = o.status /\ left.list = o.list /\ left.price = o.price
        /\ left.quantity = o.quantity
        /\ left.remaining_quantity = o.remaining_quantity - plan.base
        /\ left.locked_collateral = o.locked_collateral - plan.debit
    BY <1>2 DEF OrderRecord
  <2>2. o.remaining_quantity - plan.base \in 1 .. o.remaining_quantity
    <3> DEFINE r == o.remaining_quantity
               B == plan.base
    <3>1. r \in Nat \ {0} /\ B \in 1 .. r /\ B # r
      BY <1>2, <1>3, <1>5, <1>7
    <3> HIDE DEF r, B
    <3>2. r - B \in 1 .. r
      BY <3>1
    <3> QED
      BY <3>2 DEF r, B
  <2>3. o.status = "Open"
    BY <1>1 DEF ValidOrder
  <2> HIDE DEF left
  <2>4. OrderStep(b, o, left)
    BY <1>3, <2>1, <2>2, <2>3 DEF OrderStep
  <2>5. ASSUME NEW c \in Books, NEW j \in Ids
        PROVE  OrderStep(c, order[c][j], order'[c][j])
    <3>1. CASE c = b /\ j = i
      <4>1. order'[c][j] = left
        BY <1>7, <3>1 DEF TypeOK
      <4> QED
        BY <2>4, <3>1, <4>1
    <3>2. CASE c # b \/ j # i
      <4>1. order'[c][j] = order[c][j]
        BY <1>7, <3>2 DEF TypeOK
      <4> QED
        BY <4>1 DEF OrderStep, Relinked
    <3> QED
      BY <3>1, <3>2
  <2> QED
    BY <2>5 DEF OrdersStep
<1> QED
  BY <1>4, <1>6, <1>7

\* Every step keeps the orders funded and their accounts unrepeated.
LEMMA NextStep ==
    ASSUME TypeOK, SharedTradingAssumption, [Next]_vars
    PROVE  OrdersStep
<1>1. CASE order' = order
  BY <1>1 DEF OrdersStep, OrderStep, Relinked
<1>2. ASSUME NEW b \in Books, Place(b) PROVE OrdersStep
  <2>1. ASSUME NEW t \in Traders, NEW l \in ListsOf(b), NEW p \in Prices, NEW q \in Quantities,
               PlaceAppend(t, b, l, p, q)
        PROVE  OrdersStep
    <3> DEFINE tail == level[b][l][p].last_order
    <3>1. Placing(t, b, l, p, q, tail) /\ ValidOrder(b, tail)
      BY <2>1 DEF PlaceAppend, Appendable
    <3>2. tail \in OrderHints
      BY <3>1 DEF ValidOrder, OrderHints
    <3> QED
      BY <3>1, <3>2, PlacingStep
  <2>2. ASSUME NEW t \in Traders, NEW l \in ListsOf(b), NEW p \in Prices, NEW q \in Quantities,
               NEW better \in LevelHints, PlaceNewLevel(t, b, l, p, q, better)
        PROVE  OrdersStep
    <3>1. Placing(t, b, l, p, q, None)
      BY <2>2 DEF PlaceNewLevel
    <3>2. None \in OrderHints
      BY DEF OrderHints
    <3> QED
      BY <3>1, <3>2, PlacingStep
  <2> QED
    BY <1>2, <2>1, <2>2 DEF Place
<1>3. ASSUME NEW b \in Books, CancelOrder(b) PROVE OrdersStep
  <2>1. PICK t \in Traders, i \in Ids : Cancel(t, b, i)
    BY <1>3 DEF CancelOrder
  <2> DEFINE final == [order[b][i] EXCEPT !.status = "Canceled", !.locked_collateral = 0,
                                          !.previous_order = None, !.next_order = None]
  <2>2. Removable(b, i) /\ order' = [order EXCEPT ![b] = OrdersWithout(b, i, final)]
    BY <2>1 DEF Cancel
  <2>3. final \in OrderRecord /\ final.status = "Canceled"
    <3>1. order[b][i] \in OrderRecord
      BY DEF TypeOK
    <3> QED
      BY <3>1 DEF OrderRecord, OrderHints
  <2> HIDE DEF final
  <2> QED
    BY <2>2, <2>3, RemovalStep
<1>4. ASSUME NEW b \in Books, MatchOrder(b) PROVE OrdersStep
  BY <1>4, MatchStep DEF MatchOrder
<1>5. Next => \/ order' = order
              \/ \E b \in Books : Place(b) \/ CancelOrder(b) \/ MatchOrder(b)
  <2>1. Custody => order' = order
    BY DEF Custody, Deposit, Withdraw
  <2>2. \A b : Administration(b) => order' = order
    BY DEF Administration, InitializeBook, CloseBook, WithdrawFees
  <2>3. \A b : CompleteSets(b) => order' = order
    BY DEF CompleteSets, Split, Merge, Redeem
  <2>4. \A b : PauseMarket(b) \/ UnpauseMarket(b) => order' = order
    BY DEF PauseMarket, UnpauseMarket
  <2>5. \A b, phase, final : AdvanceMarket(b, phase, final) => order' = order
    BY DEF AdvanceMarket
  <2> QED
    BY <2>1, <2>2, <2>3, <2>4, <2>5, Zenon DEF Next
<1> QED
  BY <1>1, <1>2, <1>3, <1>4, <1>5 DEF vars

-----------------------------------------------------------------------------

\* An order that was filled or canceled stays as it was, even when its book is
\* closed and created again with ids from 1 (PlaceSharedOrder's account init).
THEOREM HistoryStands == Spec => HistoryNeverOverwritten
<1>1. TypeOK /\ [Next]_vars =>
          [\A b \in Books, i \in Ids :
               order[b][i].status \in {"Filled", "Canceled"} => order'[b][i] = order[b][i]]_vars
  <2> SUFFICES ASSUME TypeOK, [Next]_vars, NEW b \in Books, NEW i \in Ids,
                      order[b][i].status \in {"Filled", "Canceled"}
               PROVE  order'[b][i] = order[b][i]
    OBVIOUS
  <2>1. OrderStep(b, order[b][i], order'[b][i])
    BY SharedTradingAssumption, NextStep DEF OrdersStep
  <2> QED
    BY <2>1 DEF OrderStep, Relinked
<1> QED
  BY <1>1, TypeCorrect, PTL DEF Spec, HistoryNeverOverwritten

\* Every open order is funded, in all books.
FundedOrders ==
    \A b \in Books, i \in Ids :
        order[b][i].status = "Open" => FundedOrder(b, order[b][i])

\* No instruction leaves an open order that is not.
LEMMA NextFunded ==
    ASSUME SharedTradingAssumption, TypeOK, FundedOrders, [Next]_vars
    PROVE  FundedOrders'
<1> SUFFICES ASSUME NEW b \in Books, NEW i \in Ids, order'[b][i].status = "Open"
             PROVE  FundedOrder(b, order'[b][i])
  BY DEF FundedOrders
<1> DEFINE o == order[b][i]
           n == order'[b][i]
<1>1. OrderStep(b, o, n)
  BY NextStep DEF OrdersStep
<1>2. o.status = "Open" => FundedOrder(b, o)
  BY DEF FundedOrders
<1>3. o.remaining_quantity \in Nat /\ o.quantity \in Nat
  <2>1. o \in OrderRecord
    BY DEF TypeOK
  <2> QED
    BY <2>1 DEF OrderRecord
<1> HIDE DEF o
<1>4. CASE Relinked(o, n)
  BY <1>2, <1>4 DEF Relinked, FundedOrder
<1>5. CASE ~Relinked(o, n)
  BY <1>1, <1>2, <1>3, <1>5 DEF OrderStep, FundedOrder
<1> QED
  BY <1>4, <1>5

\* Every run keeps them funded.
LEMMA FundedOrdersHold == Spec => []FundedOrders
<1>1. Init => FundedOrders
  BY DEF Init, AbsentOrder, FundedOrders
<1>2. TypeOK /\ FundedOrders /\ [Next]_vars => FundedOrders'
  BY SharedTradingAssumption, NextFunded
<1> QED
  BY <1>1, <1>2, TypeCorrect, PTL DEF Spec

\* Every open order can pay for what is left of it, for all prices, scales and
\* sequences of partial fills (calculate_settlement rounds down each time).
THEOREM OrdersStayFunded == Spec => []OrdersFunded
<1>1. FundedOrders => OrdersFunded
  BY DEF FundedOrders, OrdersFunded, OpenOrders, FundedOrder, Funded
<1> QED
  BY <1>1, FundedOrdersHold, PTL

-----------------------------------------------------------------------------
(* The open orders of a book, counted *)

\* The root counts the open orders, all with ids it gave out, and is closed only
\* without any.
OrdersCounted(b) ==
    /\ book[b].open_order_count = Cardinality(OpenOrders(b))
    /\ ~book[b].live => OpenOrders(b) = {}
    /\ \A i \in OpenOrders(b) : i < book[b].next_order_id

\* What a step does to the open orders of b and to the root that counts them.
OpenStep(b) ==
    LET open == OpenOrders(b)
        old  == book[b]
        new  == book'[b]
    IN  \/ /\ OpenOrders(b)' = open
           /\ new.open_order_count = old.open_order_count
           /\ new.live = old.live /\ new.next_order_id = old.next_order_id
        \/ /\ OpenOrders(b)' = open \cup {old.next_order_id}
           /\ old.next_order_id \notin open
           /\ new.open_order_count = old.open_order_count + 1
           /\ old.live /\ new.live = old.live
           /\ new.next_order_id = old.next_order_id + 1
        \/ \E i \in open :
               /\ OpenOrders(b)' = open \ {i}
               /\ new.open_order_count = old.open_order_count - 1
               /\ old.live /\ new.live = old.live
               /\ new.next_order_id = old.next_order_id
        \/ /\ OpenOrders(b)' = open
           /\ old.open_order_count = 0 /\ new.open_order_count = 0
           /\ new.next_order_id = old.next_order_id
        \/ /\ OpenOrders(b)' = open
           /\ ~old.live /\ new.open_order_count = 0

\* A set of open orders is finite.
LEMMA OpenFinite ==
    ASSUME SharedTradingAssumption, NEW b \in Books
    PROVE  IsFiniteSet(OpenOrders(b))
<1>1. IsFiniteSet(Ids)
  BY FS_Interval DEF Ids, SharedTradingAssumption
<1> QED
  BY <1>1, FS_Subset DEF OpenOrders

\* The count follows every such step.
LEMMA CountedStep ==
    ASSUME SharedTradingAssumption, TypeOK, NEW b \in Books, OrdersCounted(b), OpenStep(b)
    PROVE  OrdersCounted(b)'
<1> DEFINE open == OpenOrders(b)
           next == book[b].next_order_id
<1>1. IsFiniteSet(open) /\ Cardinality(open) \in Nat
  BY OpenFinite, FS_CardinalityType
<1>2. /\ book[b].open_order_count = Cardinality(open)
      /\ ~book[b].live => open = {}
      /\ \A i \in open : i \in Nat /\ i < next
      /\ next \in Nat
  BY DEF OrdersCounted, OpenOrders, Ids, TypeOK, BookRecord
<1> HIDE DEF open, next
<1>3. CASE /\ OpenOrders(b)' = open
           /\ book'[b].open_order_count = book[b].open_order_count
           /\ book'[b].live = book[b].live /\ book'[b].next_order_id = next
  BY <1>2, <1>3 DEF OrdersCounted
<1>4. CASE /\ OpenOrders(b)' = open \cup {next} /\ next \notin open
           /\ book'[b].open_order_count = book[b].open_order_count + 1
           /\ book[b].live /\ book'[b].live = book[b].live
           /\ book'[b].next_order_id = next + 1
  <2>1. Cardinality(open \cup {next}) = Cardinality(open) + 1
    BY <1>1, <1>4, FS_AddElement
  <2>2. \A i \in open \cup {next} : i < next + 1
    BY <1>2
  <2> QED
    BY <1>2, <1>4, <2>1, <2>2 DEF OrdersCounted
<1>5. ASSUME NEW i \in open,
             OpenOrders(b)' = open \ {i},
             book'[b].open_order_count = book[b].open_order_count - 1,
             book[b].live, book'[b].live = book[b].live,
             book'[b].next_order_id = next
      PROVE  OrdersCounted(b)'
  <2>1. Cardinality(open \ {i}) = Cardinality(open) - 1
    BY <1>1, FS_RemoveElement
  <2> QED
    BY <1>2, <1>5, <2>1 DEF OrdersCounted
<1>6. CASE /\ OpenOrders(b)' = open
           /\ book[b].open_order_count = 0 /\ book'[b].open_order_count = 0
  <2>1. open = {}
    BY <1>1, <1>2, <1>6, FS_EmptySet
  <2> QED
    BY <1>6, <2>1, FS_EmptySet DEF OrdersCounted
<1>7. CASE OpenOrders(b)' = open /\ ~book[b].live /\ book'[b].open_order_count = 0
  BY <1>2, <1>7, FS_EmptySet DEF OrdersCounted
<1> QED
  BY <1>3, <1>4, <1>5, <1>6, <1>7 DEF OpenStep, open, next

\* A book whose orders keep their status and whose root keeps its counters.
LEMMA OpenSame ==
    ASSUME NEW b \in Books,
           \A i \in Ids : order'[b][i].status = order[b][i].status,
           book'[b].open_order_count = book[b].open_order_count,
           book'[b].live = book[b].live, book'[b].next_order_id = book[b].next_order_id
    PROVE  OpenStep(b)
<1>1. OpenOrders(b)' = OpenOrders(b)
  BY DEF OpenOrders
<1> QED
  BY <1>1 DEF OpenStep

\* A placement opens the next id of its book, and nothing else anywhere.
LEMMA OpenPlacing ==
    ASSUME TypeOK, NEW t, NEW b \in Books, NEW l, NEW p, NEW q, NEW previous,
           Placing(t, b, l, p, q, previous),
           \A c \in Books \ {b} : book'[c] = book[c],
           book'[b].open_order_count = book[b].open_order_count + 1,
           book'[b].live = book[b].live,
           book'[b].next_order_id = book[b].next_order_id + 1
    PROVE  \A c \in Books : OpenStep(c)
<1> DEFINE id     == book[b].next_order_id
           new    == [owner |-> t, list |-> l, price |-> p,
                      previous_order |-> previous, next_order |-> None,
                      quantity |-> q, remaining_quantity |-> q,
                      locked_collateral |-> Collateral(Scale[b], l[2], p, q),
                      status |-> "Open"]
           orders == [j \in Ids |-> IF j = id THEN new
                                    ELSE IF j = previous
                                         THEN [order[b][j] EXCEPT !.next_order = id]
                                         ELSE order[b][j]]
<1>1. /\ id \in Ids /\ order[b][id].status = "Absent" /\ order' = [order EXCEPT ![b] = orders]
      /\ book[b].live
  BY DEF Placing, NewAccount, TradingOpen
<1>2. /\ order'[b] = orders
      /\ \A c \in Books \ {b} : order'[c] = order[c]
  BY <1>1 DEF TypeOK
<1>3. /\ order'[b][id].status = "Open"
      /\ \A j \in Ids \ {id} : order'[b][j].status = order[b][j].status
  <2>1. order'[b][id].status = "Open"
    BY <1>1, <1>2
  <2>2. ASSUME NEW j \in Ids \ {id} PROVE order'[b][j].status = order[b][j].status
    <3>1. order[b][j] \in OrderRecord
      BY DEF TypeOK
    <3>2. order'[b][j] = IF j = previous THEN [order[b][j] EXCEPT !.next_order = id]
                                         ELSE order[b][j]
      BY <1>2
    <3> QED
      BY <3>1, <3>2 DEF OrderRecord
  <2> QED
    BY <2>1, <2>2
<1>4. OpenOrders(b)' = OpenOrders(b) \cup {id} /\ id \notin OpenOrders(b)
  BY <1>1, <1>3 DEF OpenOrders
<1>5. OpenStep(b)
  BY <1>1, <1>4 DEF OpenStep
<1>6. ASSUME NEW c \in Books, c # b PROVE OpenStep(c)
  BY <1>2, <1>6, OpenSame
<1> QED
  BY <1>5, <1>6

\* A removal closes one order and counts it out.
LEMMA OpenRemoval ==
    ASSUME TypeOK, NEW b \in Books, NEW i \in Ids, Removable(b, i), book[b].live,
           NEW final, final.status # "Open",
           order' = [order EXCEPT ![b] = OrdersWithout(b, i, final)],
           \A c \in Books \ {b} : book'[c] = book[c],
           book'[b].open_order_count = BookWithout(b, i).open_order_count,
           book'[b].live = BookWithout(b, i).live,
           book'[b].next_order_id = BookWithout(b, i).next_order_id
    PROVE  \A c \in Books : OpenStep(c)
<1>1. /\ order'[b] = OrdersWithout(b, i, final)
      /\ \A c \in Books \ {b} : order'[c] = order[c]
  BY DEF TypeOK
<1>2. /\ order'[b][i].status # "Open" /\ order[b][i].status = "Open"
      /\ \A j \in Ids \ {i} : order'[b][j].status = order[b][j].status
  <2> DEFINE orders == OrdersWithout(b, i, final)
  <2>1. /\ orders[i] = final
        /\ \A j \in Ids \ {i} : orders[j].status = order[b][j].status
    BY TypeParts, OrdersWithoutAt
  <2>2. order[b][i].status = "Open"
    BY DEF Removable, ValidOrder
  <2> HIDE DEF orders
  <2> QED
    BY <1>1, <2>1, <2>2 DEF orders
<1>3. i \in OpenOrders(b) /\ OpenOrders(b)' = OpenOrders(b) \ {i}
  BY <1>2 DEF OpenOrders
<1>4. /\ book'[b].open_order_count = book[b].open_order_count - 1
      /\ book'[b].live = book[b].live
      /\ book'[b].next_order_id = book[b].next_order_id
  <2>1. book[b] \in BookRecord
    BY DEF TypeOK
  <2> QED
    BY <2>1 DEF BookWithout, BookRecord
<1>5. OpenStep(b)
  BY <1>3, <1>4 DEF OpenStep
<1>6. ASSUME NEW c \in Books, c # b PROVE OpenStep(c)
  BY <1>1, <1>6, OpenSame
<1> QED
  BY <1>5, <1>6

\* Placing in either branch.
LEMMA OpenPlace ==
    ASSUME TypeOK, NEW b \in Books, Place(b)
    PROVE  \A c \in Books : OpenStep(c)
<1>1. PICK t \in Traders, l \in ListsOf(b), p \in Prices, q \in Quantities :
          \/ PlaceAppend(t, b, l, p, q)
          \/ \E better \in LevelHints : PlaceNewLevel(t, b, l, p, q, better)
  BY DEF Place
<1>2. book[b] \in BookRecord /\ book \in [Books -> BookRecord]
  BY DEF TypeOK
<1>3. CASE PlaceAppend(t, b, l, p, q)
  <2>1. /\ \A c \in Books \ {b} : book'[c] = book[c]
        /\ book'[b].open_order_count = book[b].open_order_count + 1
        /\ book'[b].live = book[b].live
        /\ book'[b].next_order_id = book[b].next_order_id + 1
    BY <1>2, <1>3 DEF PlaceAppend, BookRecord
  <2> QED
    BY <1>3, <2>1, OpenPlacing DEF PlaceAppend
<1>4. ASSUME NEW better \in LevelHints, PlaceNewLevel(t, b, l, p, q, better)
      PROVE  \A c \in Books : OpenStep(c)
  <2>1. /\ \A c \in Books \ {b} : book'[c] = book[c]
        /\ book'[b].open_order_count = book[b].open_order_count + 1
        /\ book'[b].live = book[b].live
        /\ book'[b].next_order_id = book[b].next_order_id + 1
    BY <1>2, <1>4 DEF PlaceNewLevel, BookRecord
  <2> QED
    BY <1>4, <2>1, OpenPlacing DEF PlaceNewLevel
<1> QED
  BY <1>1, <1>3, <1>4

\* Canceling.
LEMMA OpenCancel ==
    ASSUME TypeOK, NEW b \in Books, CancelOrder(b)
    PROVE  \A c \in Books : OpenStep(c)
<1>1. PICK t \in Traders, i \in Ids : Cancel(t, b, i)
  BY DEF CancelOrder
<1> DEFINE final == [order[b][i] EXCEPT !.status = "Canceled", !.locked_collateral = 0,
                                        !.previous_order = None, !.next_order = None]
<1>2. /\ Removable(b, i) /\ book[b].live
      /\ order' = [order EXCEPT ![b] = OrdersWithout(b, i, final)]
      /\ book' = [book EXCEPT ![b] = BookWithout(b, i)]
  BY <1>1 DEF Cancel
<1>3. final.status # "Open"
  BY DEF TypeOK, OrderRecord
<1> HIDE DEF final
<1>4. /\ \A c \in Books \ {b} : book'[c] = book[c]
      /\ book'[b] = BookWithout(b, i)
  BY <1>2 DEF TypeOK
<1> QED
  BY <1>2, <1>3, <1>4, OpenRemoval

\* Matching: a full fill closes the maker, a partial one closes nothing.
LEMMA OpenMatch ==
    ASSUME TypeOK, NEW b \in Books, MatchOrder(b)
    PROVE  \A c \in Books : OpenStep(c)
<1>1. PICK i \in Ids, t \in Traders, l \in ListsOf(b), limit \in Prices,
           q \in Quantities, bps \in FeeRates : Match(t, b, l, limit, q, bps, i)
  BY DEF MatchOrder
<1> DEFINE o     == order[b][i]
           plan  == Settlement(Scale[b], o.list[2], o.price, q,
                               o.remaining_quantity, o.locked_collateral)
           fee   == TakerFee(plan.quote, bps)
           left  == [o EXCEPT !.remaining_quantity = o.remaining_quantity - plan.base,
                              !.locked_collateral = o.locked_collateral - plan.debit]
           final == [left EXCEPT !.status = "Filled",
                                 !.previous_order = None, !.next_order = None]
           fees  == book[b].accrued_quote_fees + fee
<1>2. /\ book[b].live
      /\ \/ /\ Removable(b, i)
            /\ order' = [order EXCEPT ![b] = OrdersWithout(b, i, final)]
            /\ book' = [book EXCEPT ![b] = [BookWithout(b, i) EXCEPT !.accrued_quote_fees = fees]]
         \/ /\ order' = [order EXCEPT ![b][i] = left]
            /\ book' = [book EXCEPT ![b].accrued_quote_fees = fees]
  BY <1>1 DEF Match, TradingOpen
<1>3. o \in OrderRecord /\ book[b] \in BookRecord
  BY DEF TypeOK
<1> HIDE DEF plan, fee, fees
<1>4. left.status = o.status /\ final.status = "Filled"
  BY <1>3 DEF OrderRecord
<1> HIDE DEF left, final
<1>5. CASE /\ Removable(b, i)
           /\ order' = [order EXCEPT ![b] = OrdersWithout(b, i, final)]
           /\ book' = [book EXCEPT ![b] = [BookWithout(b, i) EXCEPT !.accrued_quote_fees = fees]]
  <2>1. BookWithout(b, i) \in BookRecord
    BY <1>5, TypeParts, BookWithoutType
  <2>2. /\ \A c \in Books \ {b} : book'[c] = book[c]
        /\ book'[b] = [BookWithout(b, i) EXCEPT !.accrued_quote_fees = fees]
    BY <1>5 DEF TypeOK
  <2>3. /\ book'[b].open_order_count = BookWithout(b, i).open_order_count
        /\ book'[b].live = BookWithout(b, i).live
        /\ book'[b].next_order_id = BookWithout(b, i).next_order_id
    BY <2>1, <2>2 DEF BookRecord
  <2>4. final.status # "Open"
    BY <1>4
  <2> QED
    BY <1>2, <1>5, <2>2, <2>3, <2>4, OpenRemoval
<1>6. CASE /\ order' = [order EXCEPT ![b][i] = left]
           /\ book' = [book EXCEPT ![b].accrued_quote_fees = fees]
  <2>1. ASSUME NEW c \in Books PROVE OpenStep(c)
    <3>1. \A j \in Ids : order'[c][j].status = order[c][j].status
      BY <1>4, <1>6 DEF TypeOK
    <3>2. /\ book'[c].open_order_count = book[c].open_order_count
          /\ book'[c].live = book[c].live /\ book'[c].next_order_id = book[c].next_order_id
      BY <1>3, <1>6 DEF TypeOK, BookRecord
    <3> QED
      BY <3>1, <3>2, OpenSame
  <2> QED
    BY <2>1
<1> QED
  BY <1>2, <1>5, <1>6

\* Creating a root, closing one, and taking fees leave the open orders alone.
LEMMA OpenAdministration ==
    ASSUME TypeOK, NEW b \in Books, Administration(b)
    PROVE  \A c \in Books : OpenStep(c)
<1> SUFFICES ASSUME NEW c \in Books PROVE OpenStep(c)
  OBVIOUS
<1>1. book[b] \in BookRecord /\ book \in [Books -> BookRecord]
  BY DEF TypeOK
<1>2. OpenOrders(c)' = OpenOrders(c) /\ \A i \in Ids : order'[c][i].status = order[c][i].status
  BY DEF Administration, InitializeBook, CloseBook, WithdrawFees, OpenOrders
<1>3. CASE InitializeBook(b)
  <2>1. CASE c = b
    <3>1. book'[b].open_order_count = 0 /\ ~book[b].live
      BY <1>1, <1>3 DEF InitializeBook, EmptyBook
    <3> QED
      BY <1>2, <2>1, <3>1 DEF OpenStep
  <2>2. CASE c # b
    <3>1. book'[c] = book[c]
      BY <1>1, <1>3, <2>2 DEF InitializeBook
    <3> QED
      BY <1>2, <3>1, OpenSame
  <2> QED
    BY <2>1, <2>2
<1>4. CASE CloseBook(b)
  <2>1. CASE c = b
    <3>1. /\ book[b].open_order_count = 0 /\ book'[b].open_order_count = 0
          /\ book'[b].next_order_id = book[b].next_order_id
      BY <1>1, <1>4 DEF CloseBook, BookRecord
    <3> QED
      BY <1>2, <2>1, <3>1 DEF OpenStep
  <2>2. CASE c # b
    <3>1. book'[c] = book[c]
      BY <1>1, <1>4, <2>2 DEF CloseBook
    <3> QED
      BY <1>2, <3>1, OpenSame
  <2> QED
    BY <2>1, <2>2
<1>5. ASSUME NEW amount, WithdrawFees(b, amount) PROVE OpenStep(c)
  <2>1. /\ book'[c].open_order_count = book[c].open_order_count
        /\ book'[c].live = book[c].live /\ book'[c].next_order_id = book[c].next_order_id
    BY <1>1, <1>5 DEF WithdrawFees, BookRecord
  <2> QED
    BY <1>2, <2>1, OpenSame
<1> QED
  BY <1>3, <1>4, <1>5 DEF Administration

\* Every instruction is such a step in every book.
LEMMA NextOpen ==
    ASSUME TypeOK, [Next]_vars
    PROVE  \A c \in Books : OpenStep(c)
<1> DEFINE Quiet == order' = order /\ book' = book
<1>1. CASE Quiet
  <2> SUFFICES ASSUME NEW c \in Books PROVE OpenStep(c)
    OBVIOUS
  <2> QED
    BY <1>1, OpenSame
<1>2. Next => \/ Quiet
              \/ \E b \in Books : Place(b) \/ CancelOrder(b) \/ MatchOrder(b) \/ Administration(b)
  <2>1. Custody => Quiet
    BY DEF Custody, Deposit, Withdraw
  <2>2. \A b : CompleteSets(b) => Quiet
    BY DEF CompleteSets, Split, Merge, Redeem
  <2>3. \A b : PauseMarket(b) \/ UnpauseMarket(b) => Quiet
    BY DEF PauseMarket, UnpauseMarket
  <2>4. \A b, phase, final : AdvanceMarket(b, phase, final) => Quiet
    BY DEF AdvanceMarket
  <2> QED
    BY <2>1, <2>2, <2>3, <2>4, Zenon DEF Next
<1>3. ASSUME NEW b \in Books, Place(b) \/ CancelOrder(b) \/ MatchOrder(b) \/ Administration(b)
      PROVE  \A c \in Books : OpenStep(c)
  BY <1>3, OpenPlace, OpenCancel, OpenMatch, OpenAdministration
<1> QED
  BY <1>1, <1>2, <1>3 DEF vars

\* The root of every book counts its open orders.
AllCounted == \A b \in Books : OrdersCounted(b)

\* The counts are right in every state of every run.
LEMMA CountsHold == Spec => []AllCounted
<1>1. Init => AllCounted
  <2> SUFFICES ASSUME Init PROVE AllCounted
    OBVIOUS
  <2>1. \A b \in Books : OpenOrders(b) = {} /\ book[b].open_order_count = 0
    BY DEF Init, OpenOrders, AbsentOrder, EmptyBook
  <2> QED
    BY <2>1, FS_EmptySet DEF AllCounted, OrdersCounted
<1>2. TypeOK /\ AllCounted /\ [Next]_vars => AllCounted'
  BY SharedTradingAssumption, NextOpen, CountedStep DEF AllCounted
<1> QED
  BY <1>1, <1>2, TypeCorrect, PTL DEF Spec

\* What is known of an open order.
LEMMA OpenNumbers ==
    ASSUME SharedTradingAssumption, TypeOK, FundedOrders,
           NEW b \in Books, NEW i \in OpenOrders(b)
    PROVE  /\ i \in Ids /\ order[b][i].status = "Open"
           /\ order[b][i].list[2] \in Sides
           /\ order[b][i].price \in Prices /\ order[b][i].price \in Nat \ {0}
           /\ order[b][i].remaining_quantity \in Nat \ {0}
           /\ order[b][i].remaining_quantity <= order[b][i].quantity
           /\ order[b][i].locked_collateral \in Nat
           /\ Funded(Scale[b], order[b][i].list[2], order[b][i].price,
                     order[b][i].remaining_quantity, order[b][i].locked_collateral)
<1>1. i \in Ids /\ order[b][i].status = "Open"
  BY DEF OpenOrders
<1>2. order[b][i] \in OrderRecord /\ FundedOrder(b, order[b][i])
  BY <1>1 DEF TypeOK, FundedOrders
<1> DEFINE o == order[b][i]
<1>3. /\ o.list \in Lists /\ o.quantity \in Nat /\ o.remaining_quantity \in Nat
      /\ o.locked_collateral \in Nat
  BY <1>2 DEF OrderRecord
<1>4. /\ o.price \in Prices /\ o.remaining_quantity > 0
      /\ o.remaining_quantity <= o.quantity
      /\ Funded(Scale[b], o.list[2], o.price, o.remaining_quantity, o.locked_collateral)
  BY <1>2, <1>3 DEF FundedOrder
<1>5. o.list[2] \in Sides
  BY <1>3 DEF Lists
<1>6. o.price \in Nat \ {0}
  BY <1>4, SharedTradingAssumption
<1> QED
  BY <1>1, <1>3, <1>4, <1>5, <1>6

-----------------------------------------------------------------------------
(* The linked accounts of a book stay what they stand for: sorted lists of *)
(* prices and queues of orders in the order of their ids, in every state   *)
(* and for all the hints clients pass.  The invariant is local: it says of *)
(* each account that its links name its neighbours among the accounts that *)
(* are open, so that a step disturbs it only at the accounts the step      *)
(* writes.  That a walk along the links then meets every account, in       *)
(* order, is a fact about data.                                            *)

SideOf == [l \in Lists |-> l[2]]

\* The accounts of a book: its orders, its levels and its best prices.
BookIndex(b) == IndexOf("list", order[b], level[b], book[b].best_prices)

\* Every list of every book is linked as its prices rank, every queue as its ids.
LinksInv == \A b \in Books : IndexIs(ListsOf(b), SideOf, BookIndex(b))

\* Whatever they say, they are accounts of the right form.
LEMMA BookAccounts ==
    ASSUME SharedTradingAssumption, TypeOK, NEW b \in Books
    PROVE  Accounts(ListsOf(b), SideOf, "list", order[b], level[b], book[b].best_prices)
<1>1. /\ order[b] \in [Ids -> OrderRecord] /\ book[b] \in BookRecord
      /\ level[b] \in [Lists -> [Prices -> LevelRecord]]
  BY DEF TypeOK
<1>2. OrderAccounts("list", order[b])
  <2>1. Ids \subseteq Nat \ {0}
    BY DEF Ids
  <2>2. \A o \in OrderRecord : OrderFields \cup {"list"} \subseteq DOMAIN o
    BY DEF OrderRecord, OrderFields
  <2> QED
    BY <1>1, <2>1, <2>2 DEF OrderAccounts
<1>3. ASSUME NEW l \in ListsOf(b)
      PROVE  /\ l \in Lists /\ SideOf[l] \in Sides
             /\ LevelAccounts(level[b][l]) /\ DOMAIN level[b][l] \subseteq Nat \ {0}
  <2>1. l \in Lists /\ l[2] \in Sides
    BY AssetTypes
  <2>2. Prices \subseteq Nat \ {0}
    BY DEF SharedTradingAssumption
  <2>3. \A lv \in LevelRecord : LevelFields \subseteq DOMAIN lv
    BY DEF LevelRecord, LevelFields
  <2>4. level[b][l] \in [Prices -> LevelRecord] /\ SideOf[l] = l[2]
    BY <1>1, <2>1 DEF SideOf
  <2>5. LevelAccounts(level[b][l]) /\ DOMAIN level[b][l] = Prices
    BY <2>3, <2>4 DEF LevelAccounts
  <2> QED
    BY <2>1, <2>2, <2>4, <2>5
<1>4. DOMAIN book[b].best_prices = Lists
  BY <1>1 DEF BookRecord
<1> QED
  BY <1>1, <1>2, <1>3, <1>4 DEF Accounts

\* ... and a book they form.
LEMMA BookLinked ==
    ASSUME SharedTradingAssumption, TypeOK, LinksInv, NEW b \in Books
    PROVE  BookIs(ListsOf(b), SideOf, "list", order[b], level[b], book[b].best_prices)
  BY BookAccounts DEF BookIs, LinksInv, BookIndex

-----------------------------------------------------------------------------
(* Steps *)

\* One book changes, in list l only.
BookStep(b, l, orders2, levels2, best2) ==
    /\ order' = [order EXCEPT ![b] = orders2]
    /\ level' = [level EXCEPT ![b][l] = levels2]
    /\ book'[b].best_prices = [book[b].best_prices EXCEPT ![l] = best2]
    /\ \A c \in Books \ {b} : book'[c].best_prices = book[c].best_prices

\* Such a step keeps the links when they are what they should be there.
LEMMA OneBookStep ==
    ASSUME TypeOK, LinksInv, NEW b \in Books, NEW l, NEW orders2, NEW levels2, NEW best2,
           BookStep(b, l, orders2, levels2, best2),
           IndexIs(ListsOf(b), SideOf,
                   IndexOf("list", orders2, [level[b] EXCEPT ![l] = levels2],
                           [book[b].best_prices EXCEPT ![l] = best2]))
    PROVE  LinksInv'
<1>1. /\ order'[b] = orders2 /\ level'[b] = [level[b] EXCEPT ![l] = levels2]
      /\ book'[b].best_prices = [book[b].best_prices EXCEPT ![l] = best2]
  BY DEF BookStep, TypeOK
<1>2. \A c \in Books \ {b} : /\ order'[c] = order[c] /\ level'[c] = level[c]
                             /\ book'[c].best_prices = book[c].best_prices
  BY DEF BookStep, TypeOK
<1>3. IndexIs(ListsOf(b), SideOf, BookIndex(b)')
  BY <1>1 DEF BookIndex
<1>4. \A c \in Books \ {b} : BookIndex(c)' = BookIndex(c)
  BY <1>2 DEF BookIndex
<1> QED
  BY <1>3, <1>4 DEF LinksInv

\* A placement, in either branch.
LEMMA PlaceLinks ==
    ASSUME SharedTradingAssumption, TypeOK, AllCounted, LinksInv, NEW b \in Books, Place(b)
    PROVE  LinksInv'
<1>1. PICK t \in Traders, l \in ListsOf(b), p \in Prices, q \in Quantities :
          \/ PlaceAppend(t, b, l, p, q)
          \/ \E better \in LevelHints : PlaceNewLevel(t, b, l, p, q, better)
  BY DEF Place
<1> DEFINE orders == order[b]
           levels == level[b][l]
           lv     == levels[p]
           best   == book[b].best_prices
           id     == book[b].next_order_id
           new(previous) == [owner |-> t, list |-> l, price |-> p,
                             previous_order |-> previous, next_order |-> None,
                             quantity |-> q, remaining_quantity |-> q,
                             locked_collateral |-> Collateral(Scale[b], l[2], p, q),
                             status |-> "Open"]
<1>2. BookIs(ListsOf(b), SideOf, "list", orders, level[b], best)
  BY BookLinked
<1>3. /\ l \in Lists /\ SideOf[l] = l[2] /\ q \in Nat
      /\ book \in [Books -> BookRecord] /\ book[b] \in BookRecord
      /\ DOMAIN orders = Ids /\ DOMAIN levels = Prices
      /\ lv \in LevelRecord /\ best[l] = Best(b, l)
  BY AssetTypes DEF TypeOK, SharedTradingAssumption, SideOf, Best
<1>4. ASSUME NEW previous, Placing(t, b, l, p, q, previous)
      PROVE  /\ order' = [order EXCEPT ![b] = Placed(orders, id, new(previous), previous)]
             /\ FitsQueue("list", orders, l, p, id, new(previous), previous, q)
  <2>1. /\ id \in Ids /\ orders[id].status = "Absent"
        /\ order' = [order EXCEPT ![b] = Placed(orders, id, new(previous), previous)]
    BY <1>3, <1>4 DEF Placing, NewAccount, Placed
  <2>2. \A i \in Ids : orders[i].status = "Open" => i < id
    BY DEF AllCounted, OrdersCounted, OpenOrders
  <2>3. /\ new(previous).status = "Open" /\ new(previous)["list"] = l
        /\ new(previous).price = p
        /\ new(previous).previous_order = previous /\ new(previous).next_order = 0
        /\ new(previous).remaining_quantity = q
    BY DEF None
  <2> HIDE DEF new, orders
  <2> QED
    BY <1>3, <2>1, <2>2, <2>3 DEF FitsQueue
<1> HIDE DEF new, orders
<1>5. CASE PlaceAppend(t, b, l, p, q)
  <2> DEFINE lv2     == Appended(lv, id, q)
             levels2 == [levels EXCEPT ![p] = lv2]
             orders2 == Placed(orders, id, new(lv.last_order), lv.last_order)
  <2>1. /\ Placing(t, b, l, p, q, lv.last_order)
        /\ lv.order_count > 0 /\ lv.last_order # 0
        /\ level' = [level EXCEPT ![b][l] = levels2]
        /\ book' = [book EXCEPT ![b].next_order_id = @ + 1, ![b].open_order_count = @ + 1]
    BY <1>5 DEF PlaceAppend, Appendable, ValidLevel, None
  <2>2. /\ Gains(lv, lv2, id, q) /\ lv.order_count # 0
        /\ lv2.better_price = lv.better_price /\ lv2.worse_price = lv.worse_price
    BY <1>3, <2>1 DEF Appended, Gains, LevelRecord
  <2>3. /\ book'[b].best_prices = [best EXCEPT ![l] = best[l]]
        /\ \A c \in Books \ {b} : book'[c].best_prices = book[c].best_prices
    BY <1>3, <2>1 DEF BookRecord
  <2>4. /\ order' = [order EXCEPT ![b] = orders2]
        /\ FitsQueue("list", orders, l, p, id, new(lv.last_order), lv.last_order, q)
    BY <1>4, <2>1
  <2> HIDE DEF lv2, id, best
  <2>5. IndexIs(ListsOf(b), SideOf,
                IndexOf("list", orders2, [level[b] EXCEPT ![l] = levels2],
                        [best EXCEPT ![l] = best[l]]))
    <3>1. p \in DOMAIN level[b][l]
      BY <1>3
    <3> QED
      BY <1>2, <2>2, <2>4, <3>1, OrderAppended
  <2> HIDE DEF orders2, levels2
  <2>6. BookStep(b, l, orders2, levels2, best[l])
    BY <2>1, <2>3, <2>4 DEF BookStep, best
  <2> QED
    BY <2>5, <2>6, OneBookStep DEF best
<1>6. ASSUME NEW better \in LevelHints, PlaceNewLevel(t, b, l, p, q, better)
      PROVE  LinksInv'
  <2> DEFINE worse   == WorseOf(b, l, better)
             lv2     == [better_price |-> better, worse_price |-> worse,
                         first_order |-> id, last_order |-> id,
                         total_remaining_quantity |-> q, order_count |-> 1]
             levels2 == Inserted(levels, p, lv2, better, worse)
             best2   == IF better = 0 THEN p ELSE best[l]
             orders2 == Placed(orders, id, new(0), 0)
  <2>1. /\ Insertable(b, l, p, better) /\ Placing(t, b, l, p, q, 0)
        /\ level' = [level EXCEPT ![b][l] = levels2]
        /\ book' = [book EXCEPT ![b].next_order_id = @ + 1, ![b].open_order_count = @ + 1,
                                ![b].best_prices[l] = IF better = 0 THEN p ELSE @]
    BY <1>3, <1>6 DEF PlaceNewLevel, LevelsWith, Inserted, None
  <2>2. lv.order_count = 0
    BY <2>1 DEF Insertable
  <2>3. LevelOf(lv2, id, q, better, worse)
    BY DEF LevelOf
  <2>4. /\ book'[b].best_prices = [best EXCEPT ![l] = best2]
        /\ \A c \in Books \ {b} : book'[c].best_prices = book[c].best_prices
    BY <1>3, <2>1 DEF BookRecord
  <2>5. FitsLevel(PricesIn(levels), SideOf[l], levels, best[l], p, better, worse)
    BY <1>3, <2>1 DEF Insertable, WorseOf, FitsLevel, PricesIn, ValidLevel, None
  <2>6. /\ order' = [order EXCEPT ![b] = orders2]
        /\ FitsQueue("list", orders, l, p, id, new(0), 0, q)
    BY <1>4, <2>1
  <2> HIDE DEF lv2, id, worse, best
  <2>7. IndexIs(ListsOf(b), SideOf,
                IndexOf("list", orders2, [level[b] EXCEPT ![l] = levels2],
                        [best EXCEPT ![l] = best2]))
    <3>1. /\ p \in DOMAIN level[b][l] /\ level[b][l][p].order_count = 0
          /\ FitsLevel(PricesIn(level[b][l]), SideOf[l], level[b][l], best[l], p, better, worse)
      BY <1>3, <2>2, <2>5
    <3> DEFINE fresh == new(0)
    <3>2. FitsQueue("list", orders, l, p, id, fresh, 0, q)
      BY <2>6
    <3> HIDE DEF fresh
    <3>3. IndexIs(ListsOf(b), SideOf,
                  IndexOf("list", Placed(orders, id, fresh, 0),
                          [level[b] EXCEPT ![l] = Inserted(level[b][l], p, lv2, better, worse)],
                          [best EXCEPT ![l] = IF better = 0 THEN p ELSE best[l]]))
      BY ONLY <1>2, l \in ListsOf(b), <2>3, <3>1, <3>2, LevelInserted
    <3> QED
      BY <3>3 DEF fresh
  <2> HIDE DEF orders2, levels2, best2
  <2>8. BookStep(b, l, orders2, levels2, best2)
    BY <2>1, <2>4, <2>6 DEF BookStep, best
  <2> QED
    BY <2>7, <2>8, OneBookStep DEF best
<1> QED
  BY <1>1, <1>5, <1>6

\* Order i is removed and leaves the account `final`.
Removal(b, i, final) ==
    /\ Removable(b, i) /\ final.status # "Open"
    /\ order' = [order EXCEPT ![b] = OrdersWithout(b, i, final)]
    /\ level' = [level EXCEPT ![b][order[b][i].list] = LevelsWithout(b, i)]
    /\ \A c \in Books \ {b} : book'[c] = book[c]
    /\ book'[b].best_prices = BookWithout(b, i).best_prices

\* A removal: the cancellation of an order or its complete fill.
LEMMA RemovalLinks ==
    ASSUME SharedTradingAssumption, TypeOK, LinksInv,
           NEW b \in Books, NEW i \in Ids, NEW final, Removal(b, i, final)
    PROVE  LinksInv'
<1> DEFINE o       == order[b][i]
           l       == o.list
           p       == o.price
           orders  == order[b]
           levels  == level[b][l]
           lv      == levels[p]
           best    == book[b].best_prices
           orders2 == Unlinked(orders, i, final)
           levels2 == Without(levels, p, o, AbsentLevel)
           best2   == IF lv.order_count = 1 /\ lv.better_price = 0
                      THEN lv.worse_price ELSE best[l]
<1>1. /\ o.status = "Open" /\ l \in ListsOf(b) /\ p \in Prices /\ l \in Lists
  <2>1. o.status = "Open" /\ p \in Prices
    BY DEF Removal, Removable, ValidOrder, ValidLevel
  <2>2. l \in ListsOf(b)
    BY <2>1 DEF TypeOK
  <2> QED
    BY <2>1, <2>2, AssetTypes
<1>2. /\ book[b] \in BookRecord /\ DOMAIN orders = Ids /\ DOMAIN levels = Prices
  BY <1>1 DEF TypeOK
<1>3. BookIs(ListsOf(b), SideOf, "list", orders, level[b], best)
  BY BookLinked
<1>4. OrdersWithout(b, i, final) = orders2
  BY <1>2 DEF OrdersWithout, Unlinked
<1>5. LevelsWithout(b, i) = levels2
  BY <1>2 DEF LevelsWithout, Without, OnlyOrderOfLevel
<1>6. BookWithout(b, i).best_prices = [best EXCEPT ![l] = best2]
  BY <1>2 DEF BookWithout, BookRecord, OnlyOrderOfLevel
<1>7. Absent(AbsentLevel)
  BY DEF Absent, AbsentLevel
<1>8. BookStep(b, l, orders2, levels2, best2)
  <2> HIDE DEF orders2, levels2, best2
  <2> QED
    BY <1>4, <1>5, <1>6 DEF BookStep, Removal
<1>9. IndexIs(ListsOf(b), SideOf,
              IndexOf("list", orders2, [level[b] EXCEPT ![l] = levels2],
                      [best EXCEPT ![l] = best2]))
  <2>1. /\ i \in DOMAIN orders /\ orders[i].status = "Open" /\ l \in ListsOf(b)
        /\ l = orders[i]["list"] /\ p \in DOMAIN level[b][l] /\ p = orders[i].price
        /\ final.status # "Open"
    BY <1>1, <1>2 DEF Removal
  <2> HIDE DEF orders, l, p, best
  <2>2. IndexIs(ListsOf(b), SideOf,
                IndexOf("list", Unlinked(orders, i, final),
                        [level[b] EXCEPT ![l] = Without(level[b][l], p, orders[i], AbsentLevel)],
                        [best EXCEPT ![l] = IF /\ level[b][l][p].order_count = 1
                                               /\ level[b][l][p].better_price = 0
                                            THEN level[b][l][p].worse_price ELSE best[l]]))
    BY ONLY <1>3, <1>7, <2>1, OrderTaken
  <2> QED
    BY <2>2 DEF orders
<1> HIDE DEF orders2, levels2, best2, l
<1> QED
  BY <1>8, <1>9, OneBookStep

\* A cancellation.
LEMMA CancelLinks ==
    ASSUME SharedTradingAssumption, TypeOK, LinksInv, NEW b \in Books, CancelOrder(b)
    PROVE  LinksInv'
<1>1. PICK t \in Traders, i \in Ids : Cancel(t, b, i)
  BY DEF CancelOrder
<1> DEFINE final == [order[b][i] EXCEPT !.status = "Canceled", !.locked_collateral = 0,
                                        !.previous_order = None, !.next_order = None]
<1>2. /\ Removable(b, i)
      /\ order' = [order EXCEPT ![b] = OrdersWithout(b, i, final)]
      /\ level' = [level EXCEPT ![b][order[b][i].list] = LevelsWithout(b, i)]
      /\ book' = [book EXCEPT ![b] = BookWithout(b, i)]
  BY <1>1 DEF Cancel
<1>3. final.status # "Open"
  BY DEF TypeOK, OrderRecord
<1>4. /\ \A c \in Books \ {b} : book'[c] = book[c]
      /\ book'[b].best_prices = BookWithout(b, i).best_prices
  BY <1>2 DEF TypeOK
<1> HIDE DEF final
<1>5. Removal(b, i, final)
  BY <1>2, <1>3, <1>4 DEF Removal
<1> QED
  BY <1>5, RemovalLinks

\* A fill: a complete one removes the maker, a partial one leaves it less.
LEMMA MatchLinks ==
    ASSUME SharedTradingAssumption, TypeOK, LinksInv, NEW b \in Books, MatchOrder(b)
    PROVE  LinksInv'
<1>1. PICK i \in Ids, t \in Traders, l \in ListsOf(b), limit \in Prices,
           q \in Quantities, bps \in FeeRates : Match(t, b, l, limit, q, bps, i)
  BY DEF MatchOrder
<1> DEFINE o     == order[b][i]
           plan  == Settlement(Scale[b], o.list[2], o.price, q,
                               o.remaining_quantity, o.locked_collateral)
           fee   == TakerFee(plan.quote, bps)
           left  == [o EXCEPT !.remaining_quantity = o.remaining_quantity - plan.base,
                              !.locked_collateral = o.locked_collateral - plan.debit]
           final == [left EXCEPT !.status = "Filled",
                                 !.previous_order = None, !.next_order = None]
           fees  == book[b].accrued_quote_fees + fee
           lv    == level[b][o.list][o.price]
           lv2   == [lv EXCEPT !.total_remaining_quantity = @ - plan.base]
<1>2. /\ ValidOrder(b, i) /\ ValidLevel(b, o.list, o.price)
      /\ \/ /\ Removable(b, i)
            /\ order' = [order EXCEPT ![b] = OrdersWithout(b, i, final)]
            /\ level' = [level EXCEPT ![b][o.list] = LevelsWithout(b, i)]
            /\ book' = [book EXCEPT ![b] = [BookWithout(b, i) EXCEPT !.accrued_quote_fees = fees]]
         \/ /\ order' = [order EXCEPT ![b][i] = left]
            /\ level' = [level EXCEPT ![b][o.list][o.price].total_remaining_quantity =
                            @ - plan.base]
            /\ book' = [book EXCEPT ![b].accrued_quote_fees = fees]
  BY <1>1 DEF Match, MatchableMaker
<1>3. /\ plan.base \in Nat /\ o.remaining_quantity - plan.base \in Nat
  BY <1>2, FillPlan
<1>4. /\ o \in OrderRecord /\ book[b] \in BookRecord /\ o.status = "Open"
      /\ o.list \in ListsOf(b) /\ o.price \in Prices
  <2>1. o \in OrderRecord /\ book[b] \in BookRecord
    BY DEF TypeOK
  <2>2. o.status = "Open" /\ o.price \in Prices
    BY <1>2 DEF ValidOrder, ValidLevel
  <2>3. o.list \in ListsOf(b)
    BY <2>2 DEF TypeOK
  <2> QED
    BY <2>1, <2>2, <2>3
<1>5. o.list \in Lists /\ o.list[2] \in Sides
  BY <1>4, AssetTypes
<1> HIDE DEF plan, fee, fees
<1>6. /\ left.status = "Open" /\ left.list = o.list /\ left.price = o.price
      /\ left.next_order = o.next_order /\ left.previous_order = o.previous_order
      /\ left.remaining_quantity = o.remaining_quantity - plan.base
      /\ final.status = "Filled"
  BY <1>4 DEF OrderRecord
<1> HIDE DEF left, final
<1>7. CASE /\ Removable(b, i)
           /\ order' = [order EXCEPT ![b] = OrdersWithout(b, i, final)]
           /\ level' = [level EXCEPT ![b][o.list] = LevelsWithout(b, i)]
           /\ book' = [book EXCEPT ![b] = [BookWithout(b, i) EXCEPT !.accrued_quote_fees = fees]]
  <2>1. BookWithout(b, i) \in BookRecord
    BY <1>7, TypeParts, BookWithoutType
  <2>2. /\ \A c \in Books \ {b} : book'[c] = book[c]
        /\ book'[b] = [BookWithout(b, i) EXCEPT !.accrued_quote_fees = fees]
    BY <1>7 DEF TypeOK
  <2>3. book'[b].best_prices = BookWithout(b, i).best_prices
    BY <2>1, <2>2 DEF BookRecord
  <2>4. final.status # "Open"
    BY <1>6
  <2>5. Removal(b, i, final)
    BY <1>7, <2>2, <2>3, <2>4 DEF Removal
  <2> QED
    BY <2>5, RemovalLinks
<1>8. CASE /\ order' = [order EXCEPT ![b][i] = left]
           /\ level' = [level EXCEPT ![b][o.list][o.price].total_remaining_quantity =
                            @ - plan.base]
           /\ book' = [book EXCEPT ![b].accrued_quote_fees = fees]
  <2> DEFINE side    == o.list
             p       == o.price
             orders  == order[b]
             levels  == level[b][side]
             best    == book[b].best_prices
             orders2 == [orders EXCEPT ![i] = left]
             levels2 == [levels EXCEPT ![p] = lv2]
             d       == plan.base
  <2>1. /\ DOMAIN orders = Ids /\ DOMAIN levels = Prices /\ lv \in LevelRecord
    <3>1. order[b] \in [Ids -> OrderRecord]
      BY DEF TypeOK
    <3>2. level[b][side] \in [Prices -> LevelRecord]
      BY <1>5 DEF TypeOK
    <3> QED
      BY <1>4, <3>1, <3>2
  <2>2. /\ order' = [order EXCEPT ![b] = orders2]
        /\ level' = [level EXCEPT ![b][side] = levels2]
    BY <1>8
  <2>3. /\ book'[b].best_prices = [best EXCEPT ![side] = best[side]]
        /\ \A c \in Books \ {b} : book'[c].best_prices = book[c].best_prices
    <3>1. book \in [Books -> BookRecord]
      BY DEF TypeOK
    <3>2. /\ book'[b] = [book[b] EXCEPT !.accrued_quote_fees = fees]
          /\ \A c \in Books \ {b} : book'[c] = book[c]
      BY <1>8, <3>1
    <3>3. book'[b].best_prices = best /\ best \in [Lists -> LevelHints]
      BY <1>4, <3>2 DEF BookRecord
    <3>4. \A c \in Books \ {b} : book'[c].best_prices = book[c].best_prices
      BY <3>2
    <3> HIDE DEF best
    <3>5. [best EXCEPT ![side] = best[side]] = best
      BY <3>3
    <3> QED
      BY <3>3, <3>4, <3>5
  <2>4. BookStep(b, side, orders2, levels2, best[side])
    <3> HIDE DEF orders2, levels2
    <3> QED
      BY <2>2, <2>3 DEF BookStep
  <2>5. /\ lv2.first_order = lv.first_order /\ lv2.last_order = lv.last_order
        /\ lv2.order_count = lv.order_count
        /\ lv2.total_remaining_quantity = lv.total_remaining_quantity - d
        /\ lv2.better_price = lv.better_price /\ lv2.worse_price = lv.worse_price
    BY <2>1 DEF LevelRecord
  <2> HIDE DEF lv2, d
  <2>6. Fills("list", o, left, lv, lv2, d)
    <3>1. /\ d \in Int /\ left.remaining_quantity = o.remaining_quantity - d
          /\ left.remaining_quantity \in Nat
      BY <1>3, <1>6 DEF d
    <3> HIDE DEF o, lv
    <3> QED
      BY <1>6, <2>5, <3>1 DEF Fills
  <2>7. /\ i \in DOMAIN orders /\ orders[i].status = "Open" /\ side \in ListsOf(b)
        /\ side = orders[i]["list"] /\ p \in DOMAIN level[b][side] /\ p = orders[i].price
    BY <1>4, <2>1
  <2>8. /\ Fills("list", orders[i], left, level[b][side][p], lv2, d)
        /\ lv2.better_price = level[b][side][p].better_price
        /\ lv2.worse_price = level[b][side][p].worse_price
    BY <2>5, <2>6
  <2>9. BookIs(ListsOf(b), SideOf, "list", orders, level[b], best)
    BY BookLinked
  <2> HIDE DEF orders, side, p, best
  <2>10. IndexIs(ListsOf(b), SideOf,
                 IndexOf("list", [orders EXCEPT ![i] = left],
                         [level[b] EXCEPT ![side] = [level[b][side] EXCEPT ![p] = lv2]],
                         [best EXCEPT ![side] = best[side]]))
    BY ONLY <2>7, <2>8, <2>9, OrderReduced
  <2> HIDE DEF o
  <2> QED
    BY <2>4, <2>10, OneBookStep DEF best
<1> QED
  BY <1>2, <1>7, <1>8

\* Creating a root, closing one, and taking fees.
LEMMA AdministrationLinks ==
    ASSUME SharedTradingAssumption, TypeOK, AllCounted, LinksInv,
           NEW b \in Books, Administration(b)
    PROVE  LinksInv'
<1>1. order' = order /\ level' = level /\ book \in [Books -> BookRecord]
  BY DEF Administration, InitializeBook, CloseBook, WithdrawFees, TypeOK
<1>2. ASSUME NEW c \in Books, book'[c].best_prices = book[c].best_prices
      PROVE  IndexIs(ListsOf(c), SideOf, BookIndex(c)')
  BY <1>1, <1>2 DEF LinksInv, BookIndex
<1>3. CASE InitializeBook(b)
  <2>1. /\ ~book[b].live /\ book'[b].best_prices = [l \in Lists |-> 0]
        /\ \A c \in Books : c # b => book'[c].best_prices = book[c].best_prices
    BY <1>1, <1>3 DEF InitializeBook, EmptyBook, None
  <2>2. \A i \in Ids : order[b][i].status # "Open"
    BY <2>1 DEF AllCounted, OrdersCounted, OpenOrders
  <2>3. IndexIs(ListsOf(b), SideOf, BookIndex(b)')
    <3> DEFINE x == BookIndex(b)
               y == BookIndex(b)'
    <3>1. x.open = {} /\ x.level = level[b]
      BY <2>2 DEF BookIndex, IndexOf, TypeOK
    <3>2. IndexIs(ListsOf(b), SideOf, x)
      BY DEF LinksInv
    <3>3. y.open = x.open /\ y.level = x.level /\ y.best = [l \in Lists |-> 0]
      BY <1>1, <2>1 DEF BookIndex, IndexOf
    <3>4. ListsOf(b) \subseteq Lists
      BY DEF ListsOf, OutcomesOf, Lists
    <3> HIDE DEF x, y
    <3>5. ASSUME NEW l \in ListsOf(b)
          PROVE  /\ y.best[l] = 0
                 /\ \A p \in DOMAIN y.level[l] :
                        /\ y.level[l][p].first_order = 0 /\ y.level[l][p].last_order = 0
                        /\ y.level[l][p].order_count = 0
                        /\ y.level[l][p].total_remaining_quantity = 0
      <4>1. \A p \in DOMAIN x.level[l] :
                /\ x.level[l][p].first_order = 0 /\ x.level[l][p].last_order = 0
                /\ x.level[l][p].order_count = 0
                /\ x.level[l][p].total_remaining_quantity = 0
        BY <3>1, <3>2, IndexOfNone
      <4> QED
        BY <3>3, <3>4, <4>1
    <3>6. IndexIs(ListsOf(b), SideOf, y)
      BY ONLY <3>1, <3>3, <3>5, IndexEmpty
    <3> QED
      BY <3>6 DEF y
  <2> QED
    BY <1>2, <2>1, <2>3 DEF LinksInv
<1>4. CASE CloseBook(b) \/ \E amount \in 1 .. book[b].accrued_quote_fees : WithdrawFees(b, amount)
  <2>1. \A c \in Books : book'[c].best_prices = book[c].best_prices
    <3>1. CASE CloseBook(b)
      BY <1>1, <3>1 DEF CloseBook, BookRecord
    <3>2. ASSUME NEW amount, WithdrawFees(b, amount)
          PROVE  \A c \in Books : book'[c].best_prices = book[c].best_prices
      BY <1>1, <3>2 DEF WithdrawFees, BookRecord
    <3> QED
      BY <1>4, <3>1, <3>2
  <2> QED
    BY <1>2, <2>1 DEF LinksInv
<1> QED
  BY <1>3, <1>4 DEF Administration

\* Before the first step there is nothing to link.
LEMMA InitLinks == Init => LinksInv
<1> SUFFICES ASSUME Init, NEW b \in Books
             PROVE  IndexIs(ListsOf(b), SideOf, BookIndex(b))
  BY DEF LinksInv
<1> DEFINE x == BookIndex(b)
<1>1. ListsOf(b) \subseteq Lists
  BY DEF ListsOf, OutcomesOf, Lists
<1>2. /\ x.open = {} /\ x.level = [l \in Lists |-> [p \in Prices |-> AbsentLevel]]
      /\ x.best = [l \in Lists |-> 0]
  BY DEF Init, EmptyBook, AbsentOrder, BookIndex, IndexOf, None
<1>3. /\ AbsentLevel.first_order = 0 /\ AbsentLevel.last_order = 0
      /\ AbsentLevel.order_count = 0 /\ AbsentLevel.total_remaining_quantity = 0
  BY DEF AbsentLevel, None
<1> HIDE DEF x
<1>4. IndexIs(ListsOf(b), SideOf, x)
  <2>1. \A l \in ListsOf(b) :
            /\ x.best[l] = 0
            /\ \A p \in DOMAIN x.level[l] :
                   /\ x.level[l][p].first_order = 0 /\ x.level[l][p].last_order = 0
                   /\ x.level[l][p].order_count = 0
                   /\ x.level[l][p].total_remaining_quantity = 0
    BY <1>1, <1>2, <1>3
  <2> QED
    BY ONLY <1>2, <2>1, IndexEmpty
<1> QED
  BY <1>4 DEF x

\* Every step keeps the links.
LEMMA NextLinks ==
    ASSUME SharedTradingAssumption, TypeOK, AllCounted, LinksInv, [Next]_vars
    PROVE  LinksInv'
<1> DEFINE Quiet == order' = order /\ level' = level /\ book' = book
<1>1. CASE Quiet
  BY <1>1 DEF LinksInv, BookIndex
<1>2. Next => \/ Quiet
              \/ \E b \in Books : Place(b) \/ CancelOrder(b) \/ MatchOrder(b) \/ Administration(b)
  <2>1. Custody => Quiet
    BY DEF Custody, Deposit, Withdraw
  <2>2. \A b : CompleteSets(b) => Quiet
    BY DEF CompleteSets, Split, Merge, Redeem
  <2>3. \A b : PauseMarket(b) \/ UnpauseMarket(b) => Quiet
    BY DEF PauseMarket, UnpauseMarket
  <2>4. \A b, phase, final : AdvanceMarket(b, phase, final) => Quiet
    BY DEF AdvanceMarket
  <2> QED
    BY <2>1, <2>2, <2>3, <2>4, Zenon DEF Next
<1>3. ASSUME NEW b \in Books, Place(b) \/ CancelOrder(b) \/ MatchOrder(b) \/ Administration(b)
      PROVE  LinksInv'
  BY <1>3, PlaceLinks, CancelLinks, MatchLinks, AdministrationLinks
<1> QED
  BY <1>1, <1>2, <1>3 DEF vars

\* The lists and queues are linked in every state of every run.
LEMMA LinksHold == Spec => []LinksInv
<1>1. TypeOK /\ AllCounted /\ LinksInv /\ [Next]_vars => LinksInv'
  BY SharedTradingAssumption, NextLinks
<1> QED
  BY <1>1, InitLinks, TypeCorrect, CountsHold, PTL DEF Spec

-----------------------------------------------------------------------------
(* Walks *)

\* What the invariant says of a list and of a level of it.
LEMMA BookLists ==
    ASSUME SharedTradingAssumption, TypeOK, LinksInv, NEW b \in Books, NEW l \in ListsOf(b)
    PROVE  /\ DOMAIN level[b][l] = Prices
           /\ ListIs(PricesIn(level[b][l]), l[2], level[b][l], Best(b, l))
           /\ \A p \in Prices :
                  QueueIs({i \in OpenOrders(b) : AtLevel(b, i, l, p)}, order[b], level[b][l][p])
<1>1. /\ l \in Lists /\ SideOf[l] = l[2]
      /\ DOMAIN level[b][l] = Prices /\ DOMAIN order[b] = Ids
  BY AssetTypes DEF TypeOK, SideOf
<1> DEFINE x == BookIndex(b)
<1>2. /\ x.open = OpenOrders(b) /\ x.orders = order[b]
      /\ x.level = level[b] /\ x.best = book[b].best_prices
      /\ \A i \in Ids : x.place[i] = <<order[b][i].list, order[b][i].price>>
  BY <1>1 DEF BookIndex, IndexOf, OpenOrders
<1>3. IndexIs(ListsOf(b), SideOf, x)
  BY DEF LinksInv
<1> HIDE DEF x
<1>4. \A p \in Prices : IdsAt(x, l, p) = {i \in OpenOrders(b) : AtLevel(b, i, l, p)}
  BY <1>2 DEF IdsAt, OpenOrders, AtLevel
<1>5. /\ ListIs(PricesIn(x.level[l]), SideOf[l], x.level[l], x.best[l])
      /\ \A p \in DOMAIN x.level[l] : QueueIs(IdsAt(x, l, p), x.orders, x.level[l][p])
  BY <1>3 DEF IndexIs
<1>6. \A p \in Prices : QueueIs(IdsAt(x, l, p), order[b], level[b][l][p])
  BY <1>1, <1>2, <1>5
<1>7. ListIs(PricesIn(level[b][l]), l[2], level[b][l], Best(b, l))
  BY <1>1, <1>2, <1>5 DEF Best
<1>8. \A p \in Prices :
         QueueIs({i \in OpenOrders(b) : AtLevel(b, i, l, p)}, order[b], level[b][l][p])
  BY <1>4, <1>6
<1> QED
  BY <1>1, <1>7, <1>8

\* Following worse_price from the best price meets the levels that exist, from
\* the best to the worst, and better_price is the way back: in every state and
\* for all the hints a client may pass (insert and remove_order).
THEOREM PricesStayLinked == Spec => []PricesLinked
<1>1. ASSUME SharedTradingAssumption, TypeOK, LinksInv, NEW b \in Books, NEW l \in ListsOf(b)
      PROVE  LET list   == PriceList(b, l)
                 length == Cardinality({p \in Prices : level[b][l][p].order_count > 0})
             IN  /\ list[length + 1] = None
                 /\ \A n \in 1 .. length :
                        /\ list[n] # None
                        /\ level[b][l][list[n]].order_count > 0
                        /\ level[b][l][list[n]].better_price = IF n = 1 THEN None ELSE list[n-1]
                        /\ n > 1 => BetterPrice(l[2], list[n-1], list[n])
  <2> DEFINE levels == level[b][l]
             P      == PricesIn(levels)
             list   == PriceList(b, l)
             length == Cardinality(P)
             best   == Best(b, l)
             side   == l[2]
             m      == Cardinality(Prices) + 1
             walk   == Walk(best, [p \in Prices |-> levels[p].worse_price], m)
  <2>1. P = {p \in Prices : level[b][l][p].order_count > 0} /\ list = walk
    BY <1>1, BookLists DEF PricesIn, PriceList
  <2>2. ListIs(P, side, levels, best) /\ side \in Sides
    BY <1>1, AssetTypes, BookLists
  <2>3. IsFiniteSet(Prices) /\ P \subseteq Prices
    BY <1>1, <2>1 DEF SharedTradingAssumption
  <2> HIDE DEF levels, best, side, P, list
  <2>4. ListMet(P, side, levels, walk)
    BY <2>2, <2>3, ListWalk
  <2>5. \A p \in P : levels[p].order_count > 0
    BY DEF P, PricesIn
  <2> HIDE DEF walk
  <2> QED
    BY <2>1, <2>4, <2>5 DEF ListMet, levels, side, None, list
<1>2. TypeOK /\ LinksInv => PricesLinked
  BY <1>1, SharedTradingAssumption DEF PricesLinked
<1> QED
  BY <1>2, LinksHold, TypeCorrect, PTL

\* The queue of every level is its open orders in the order they were placed,
\* linked both ways, its count and its total are theirs, and the root counts
\* every open order of the book (append, remove_order and partial fills).
THEOREM QueuesStayLinked == Spec => []QueuesLinked
<1>1. ASSUME SharedTradingAssumption, TypeOK, LinksInv,
             NEW b \in Books, NEW l \in ListsOf(b), NEW p \in Prices
      PROVE  LET ids == {i \in OpenOrders(b) : AtLevel(b, i, l, p)}
                 q   == Queue(b, l, p)
                 n   == level[b][l][p].order_count
             IN  /\ n = Cardinality(ids)
                 /\ {q[k] : k \in 1 .. n} = ids
                 /\ \A k \in 1 .. n :
                        /\ order[b][q[k]].previous_order = IF k = 1 THEN None ELSE q[k-1]
                        /\ k > 1 => q[k-1] < q[k]
                 /\ n > 0 => /\ level[b][l][p].last_order = q[n]
                             /\ order[b][q[n]].next_order = None
                 /\ level[b][l][p].total_remaining_quantity =
                        SumFunctionOnSet([i \in Ids |-> order[b][i].remaining_quantity], ids)
  <2> DEFINE lv     == level[b][l][p]
             orders == order[b]
             S      == {i \in OpenOrders(b) : AtLevel(b, i, l, p)}
             q      == Queue(b, l, p)
             n      == lv.order_count
             walk   == Walk(lv.first_order, [i \in Ids |-> orders[i].next_order], n)
             f      == [i \in S |-> orders[i].remaining_quantity]
             g      == [i \in Ids |-> orders[i].remaining_quantity]
  <2>1. S = {i \in OpenOrders(b) : AtLevel(b, i, l, p)} /\ q = walk
    BY DEF Queue
  <2>2. QueueIs(S, orders, lv) /\ S \subseteq Ids
    BY <1>1, BookLists DEF OpenOrders
  <2>3. SumFunctionOnSet(g, S) = SumFunctionOnSet(f, S)
    <3>1. IsFiniteSet(S) /\ \A i \in S : f[i] \in Int /\ g[i] = f[i]
      BY <2>2 DEF QueueIs
    <3> HIDE DEF f, g, S
    <3> QED
      BY ONLY <3>1, SumSame
  <2>4. lv.total_remaining_quantity = SumFunctionOnSet(f, S)
    BY <2>2 DEF QueueIs
  <2> HIDE DEF lv, orders, S, q, f
  <2>5. QueueMet(S, orders, lv, walk)
    BY ONLY <2>2, QueueWalk
  <2> HIDE DEF walk, g, n
  <2>6. /\ n = Cardinality(S)
        /\ {q[k] : k \in 1 .. n} = S
        /\ \A k \in 1 .. n :
               /\ orders[q[k]].previous_order = IF k = 1 THEN None ELSE q[k-1]
               /\ k > 1 => q[k-1] < q[k]
        /\ n > 0 => lv.last_order = q[n] /\ orders[q[n]].next_order = None
        /\ lv.total_remaining_quantity = SumFunctionOnSet(g, S)
    BY <2>1, <2>3, <2>4, <2>5 DEF QueueMet, None, n
  <2> QED
    BY <2>1, <2>6 DEF lv, orders, n, g, q
<1>2. TypeOK /\ LinksInv /\ AllCounted => QueuesLinked
  BY <1>1, SharedTradingAssumption DEF QueuesLinked, AllCounted, OrdersCounted
<1> QED
  BY <1>2, LinksHold, TypeCorrect, CountsHold, PTL

-----------------------------------------------------------------------------
(* The way out *)

\* order() accepts every open order with a lock, in a book that exists.
LEMMA OpenAccepted ==
    ASSUME SharedTradingAssumption, TypeOK, FundedOrders, AllCounted,
           NEW b \in Books, NEW i \in OpenOrders(b)
    PROVE  /\ book[b].live
           /\ order[b][i].locked_collateral > 0 => ValidOrder(b, i)
<1>1. book[b].live /\ i < book[b].next_order_id
  BY DEF AllCounted, OrdersCounted
<1> DEFINE o == order[b][i]
<1>2. /\ i \in Ids /\ o.status = "Open" /\ o.list[2] \in Sides
      /\ o.remaining_quantity \in Nat \ {0} /\ o.locked_collateral \in Nat
      /\ o.price \in Nat \ {0} /\ o.remaining_quantity <= o.quantity
      /\ Funded(Scale[b], o.list[2], o.price, o.remaining_quantity, o.locked_collateral)
  BY SharedTradingAssumption, OpenNumbers
<1> QED
  BY <1>1, <1>2 DEF ValidOrder, Funded, Collateral

\* level() accepts every level that has orders.
LEMMA LevelsValid ==
    ASSUME SharedTradingAssumption, TypeOK, LinksInv, FundedOrders,
           NEW b \in Books, NEW l \in ListsOf(b), NEW p \in PricesIn(level[b][l])
    PROVE  ValidLevel(b, l, p)
<1> DEFINE lv == level[b][l][p]
           S  == {i \in OpenOrders(b) : AtLevel(b, i, l, p)}
<1>1. p \in Prices /\ lv.order_count > 0 /\ QueueIs(S, order[b], lv)
  BY BookLists DEF PricesIn
<1>2. S # {}
  BY <1>1, FS_EmptySet DEF QueueIs
<1>3. PICK i \in S : TRUE
  BY <1>2
<1>4. \A j \in S : order[b][j].remaining_quantity \in Nat \ {0}
  BY OpenNumbers
<1>5. lv.total_remaining_quantity \in Nat
  BY <1>1, AssetTypes DEF TypeOK, LevelRecord
<1> HIDE DEF S, lv
<1>6. InQueue(S, order[b], lv, i)
  BY ONLY <1>1, <1>3, <1>4, QueueShape
<1>7. lv.total_remaining_quantity > 0
  BY <1>3, <1>4, <1>5, <1>6 DEF InQueue
<1> QED
  BY <1>1, <1>6, <1>7 DEF InQueue, ValidLevel, lv

\* The orders that remove_order reads with order i: its neighbours and itself.
BesideIt(b, i) == {i, order[b][i].previous_order, order[b][i].next_order} \ {None}

\* Their locks are not zero.
NoDust(b, i) == \A j \in BesideIt(b, i) : order[b][j].locked_collateral > 0

\* remove_order accepts an open order when none of the orders it reads is dust.
LEMMA OpenIsRemovable ==
    ASSUME SharedTradingAssumption, TypeOK, FundedOrders, AllCounted, LinksInv,
           NEW b \in Books, NEW i \in OpenOrders(b), NoDust(b, i)
    PROVE  Removable(b, i)
<1> DEFINE o      == order[b][i]
           l      == o.list
           p      == o.price
           levels == level[b][l]
           lv     == levels[p]
           S      == {j \in OpenOrders(b) : AtLevel(b, j, l, p)}
           P      == PricesIn(levels)
<1>1. i \in Ids /\ o.status = "Open" /\ p \in Prices
  BY OpenNumbers
<1>2. l \in ListsOf(b) /\ l[2] \in Sides
  BY <1>1, AssetTypes DEF TypeOK
<1>3. /\ DOMAIN levels = Prices
      /\ ListIs(P, l[2], levels, Best(b, l)) /\ QueueIs(S, order[b], lv)
  BY <1>1, <1>2, BookLists
<1>4. i \in S /\ S \subseteq OpenOrders(b)
  BY DEF AtLevel
<1>5. \A j \in S : AtLevel(b, j, l, p) /\ order[b][j].remaining_quantity > 0
  BY OpenNumbers
<1>6. InQueue(S, order[b], lv, i)
  <2> HIDE DEF S, lv
  <2> QED
    BY ONLY <1>3, <1>4, <1>5, QueueShape
<1>7. p \in P
  <2>1. lv.order_count > 0
    <3> HIDE DEF S, lv
    <3> QED
      BY <1>6 DEF InQueue
  <2> QED
    BY <1>1, <1>3, <2>1 DEF PricesIn
<1>8. \A x \in P : ValidLevel(b, l, x) /\ InList(P, l[2], levels, Best(b, l), x)
  <2>1. \A x \in P : ValidLevel(b, l, x)
    BY <1>2, LevelsValid
  <2>2. \A x \in P : InList(P, l[2], levels, Best(b, l), x)
    <3> HIDE DEF P, levels
    <3> QED
      BY ONLY <1>2, <1>3, ListShape
  <2> QED
    BY <2>1, <2>2
<1>9. ValidLevel(b, l, p) /\ HeadConsistent(b, l, p)
  BY <1>7, <1>8 DEF InList, HeadConsistent, None
<1>10. \A j \in S : j \in BesideIt(b, i) => ValidOrder(b, j) /\ AtLevel(b, j, l, p)
  BY <1>4, <1>5, OpenAccepted DEF NoDust
<1>11. book[b].open_order_count >= 1
  <2>1. Cardinality(OpenOrders(b)) \in Nat /\ Cardinality(OpenOrders(b)) # 0
    BY OpenFinite, FS_CardinalityType, FS_EmptySet
  <2> QED
    BY <2>1 DEF AllCounted, OrdersCounted
<1>12. i \in BesideIt(b, i)
  BY <1>1 DEF BesideIt, Ids, None
<1>13. /\ (lv.first_order = i) <=> (o.previous_order = None)
       /\ (lv.last_order = i) <=> (o.next_order = None)
       /\ o.previous_order # None => /\ ValidOrder(b, o.previous_order)
                                     /\ AtLevel(b, o.previous_order, l, p)
                                     /\ order[b][o.previous_order].next_order = i
                                     /\ o.previous_order < i
       /\ o.next_order # None => /\ ValidOrder(b, o.next_order)
                                 /\ AtLevel(b, o.next_order, l, p)
                                 /\ order[b][o.next_order].previous_order = i
                                 /\ o.next_order > i
       /\ lv.order_count = 1 => /\ o.previous_order = None /\ o.next_order = None
                                /\ lv.total_remaining_quantity = o.remaining_quantity
       /\ lv.order_count # 1 => /\ o.previous_order # None \/ o.next_order # None
                                /\ lv.total_remaining_quantity > o.remaining_quantity
  <2> HIDE DEF S, lv
  <2> QED
    BY <1>6, <1>10 DEF InQueue, BesideIt, None
<1>14. /\ lv.better_price # None =>
              /\ ValidLevel(b, l, lv.better_price)
              /\ levels[lv.better_price].worse_price = p
              /\ BetterPrice(l[2], lv.better_price, p)
       /\ lv.worse_price # None =>
              /\ ValidLevel(b, l, lv.worse_price)
              /\ levels[lv.worse_price].better_price = p
              /\ BetterPrice(l[2], p, lv.worse_price)
  <2> HIDE DEF P
  <2> QED
    BY <1>7, <1>8 DEF InList, None
<1>15. lv.order_count \in Nat \ {0} /\ ValidOrder(b, i)
  BY <1>4, <1>6, <1>10, <1>12 DEF InQueue
<1>16. IF lv.order_count > 1
       THEN /\ lv.total_remaining_quantity > o.remaining_quantity
            /\ o.previous_order # None \/ o.next_order # None
       ELSE /\ lv.total_remaining_quantity = o.remaining_quantity
            /\ o.previous_order = None /\ o.next_order = None
            /\ lv.better_price # None =>
                   /\ ValidLevel(b, l, lv.better_price)
                   /\ levels[lv.better_price].worse_price = p
                   /\ BetterPrice(l[2], lv.better_price, p)
            /\ lv.worse_price # None =>
                   /\ ValidLevel(b, l, lv.worse_price)
                   /\ levels[lv.worse_price].better_price = p
                   /\ BetterPrice(l[2], p, lv.worse_price)
  <2> HIDE DEF lv, S, P
  <2>1. CASE lv.order_count = 1
    BY <1>13, <1>14, <2>1, SMTT(20)
  <2>2. CASE lv.order_count > 1
    BY <1>13, <2>2
  <2> QED
    BY <1>15, <2>1, <2>2
<1> HIDE DEF S, P
<1> QED
  BY <1>9, <1>11, <1>13, <1>15, <1>16, Zenon DEF Removable

\* What it unlocks is locked.
LEMMA LockIsThere ==
    ASSUME SharedTradingAssumption, TypeOK, LocksBacked, NEW b \in Books, NEW i \in OpenOrders(b)
    PROVE  LET o == order[b][i]
           IN  claim[o.owner][LockedAsset(b, o.list)].locked >= o.locked_collateral
<1> DEFINE o == order[b][i]
           t == o.owner
           a == LockedAsset(b, o.list)
           D == Books \X Ids
           Locks(u, x) == [bi \in Books \X Ids |-> LockOf(bi[1], order[bi[1]][bi[2]], u, x)]
           f == Locks(t, a)
<1>1. i \in Ids /\ o.status = "Open"
  BY DEF OpenOrders
<1>2. t \in Traders /\ a \in Assets /\ <<b, i>> \in D
  BY <1>1, AssetTypes DEF TypeOK
<1>3. claim[t][a].locked = SumFunction(f)
  <2>1. \A u \in Traders, x \in Assets : claim[u][x].locked = SumFunction(Locks(u, x))
    BY DEF LocksBacked
  <2> HIDE DEF Locks, t, a
  <2> QED
    BY <1>2, <2>1
<1>4. IsFiniteSet(D)
  <2>1. IsFiniteSet(Ids)
    BY FS_Interval DEF Ids, SharedTradingAssumption
  <2> QED
    BY <2>1, FS_Product DEF SharedTradingAssumption
<1>5. \A bi \in D : f[bi] \in Nat
  <2>1. \A bi \in D : order[bi[1]][bi[2]] \in OrderRecord
    BY DEF TypeOK
  <2> QED
    BY <2>1 DEF LockOf, OrderRecord
<1>6. f[<<b, i>>] = o.locked_collateral /\ DOMAIN f = D
  BY <1>1, <1>2 DEF LockOf
<1> HIDE DEF f, D
<1>7. SumFunctionOnSet(f, D) >= f[<<b, i>>]
  BY ONLY <1>2, <1>4, <1>5, SumExceeds
<1>8. SumFunction(f) = SumFunctionOnSet(f, D)
  BY <1>6 DEF SumFunction, SumFunctionOnSet, FoldFunction, FoldFunctionOnSet
<1> QED
  BY <1>3, <1>6, <1>7, <1>8

\* The way out (cancel_shared_order and remove_order): in every state every open
\* order passes every check of its cancellation, unless it or an order beside it in
\* its queue is dust, a bid whose lock the fills have rounded down to nothing.
THEOREM OnlyDustIsStuck ==
    Spec => [](\A b \in Books : \A i \in OpenOrders(b) : NoDust(b, i) => Cancelable(b, i))
<1>1. TypeOK /\ FundedOrders /\ AllCounted /\ LinksInv /\ LocksBacked =>
          \A b \in Books : \A i \in OpenOrders(b) : NoDust(b, i) => Cancelable(b, i)
  BY SharedTradingAssumption, OpenAccepted, OpenIsRemovable, LockIsThere DEF Cancelable
<1> QED
  BY <1>1, TypeCorrect, FundedOrdersHold, CountsHold, LinksHold, LocksStayBacked, PTL

\* At a price of at least the scale no quantity is worth nothing.
LEMMA WholeQuote ==
    ASSUME NEW s \in Nat \ {0}, NEW p \in Nat, p >= s, NEW r \in Nat \ {0}
    PROVE  QuoteAmount(s, p, r) \in Nat \ {0}
<1>1. p * r \in Nat /\ p * r >= s
  <2>1. p * r = p + p * (r - 1) /\ p * (r - 1) \in Nat
    OBVIOUS
  <2> QED
    BY <2>1
<1> DEFINE n == p * r
<1>2. n \in Nat /\ n >= s
  BY <1>1
<1> HIDE DEF n
<1>3. n \div s >= 1 /\ n \div s \in Nat
  BY <1>2
<1> QED
  BY <1>3 DEF QuoteAmount, n

\* Where one atom of the base costs at least one atom of the quote at every
\* price (every question: its scale is 1), no lock ever is rounded to nothing, so
\* every open order passes every check of its cancellation.
THEOREM WholePricesRecoverable ==
    ASSUME \A b \in Books, p \in Prices : p >= Scale[b]
    PROVE  Spec => []OpenOrdersRecoverable
<1>1. ASSUME TypeOK, FundedOrders, NEW b \in Books, NEW i \in OpenOrders(b)
      PROVE  order[b][i].locked_collateral > 0
  <2> DEFINE o == order[b][i]
  <2>1. /\ o.price \in Prices /\ o.price \in Nat \ {0}
        /\ o.remaining_quantity \in Nat \ {0} /\ o.locked_collateral \in Nat
        /\ Funded(Scale[b], o.list[2], o.price, o.remaining_quantity, o.locked_collateral)
    BY <1>1, SharedTradingAssumption, OpenNumbers
  <2>2. Scale[b] \in Nat \ {0} /\ o.price >= Scale[b]
    BY <2>1, SharedTradingAssumption
  <2> HIDE DEF o
  <2>3. QuoteAmount(Scale[b], o.price, o.remaining_quantity) \in Nat \ {0}
    BY <2>1, <2>2, WholeQuote
  <2>4. o.locked_collateral > 0
    BY <2>1, <2>3 DEF Funded
  <2> QED
    BY <2>4 DEF o
<1>2. ASSUME TypeOK, FundedOrders, LinksInv, NEW b \in Books, NEW i \in OpenOrders(b)
      PROVE  BesideIt(b, i) \subseteq OpenOrders(b)
  <2> DEFINE o  == order[b][i]
             l  == o.list
             p  == o.price
             S  == {j \in OpenOrders(b) : AtLevel(b, j, l, p)}
             lv == level[b][l][p]
  <2>1. p \in Prices /\ l \in ListsOf(b)
    BY <1>2, SharedTradingAssumption, OpenNumbers DEF TypeOK
  <2>2. QueueIs(S, order[b], lv) /\ i \in S /\ S \subseteq OpenOrders(b)
    BY <1>2, <2>1, SharedTradingAssumption, BookLists DEF AtLevel
  <2>3. \A j \in S : order[b][j].remaining_quantity > 0
    BY <1>2, SharedTradingAssumption, OpenNumbers
  <2> HIDE DEF S, lv
  <2>4. InQueue(S, order[b], lv, i)
    BY ONLY <2>2, <2>3, QueueShape
  <2> QED
    BY <2>2, <2>4 DEF InQueue, BesideIt, None
<1>3. TypeOK /\ FundedOrders /\ LinksInv
          /\ (\A b \in Books : \A i \in OpenOrders(b) : NoDust(b, i) => Cancelable(b, i))
          => OpenOrdersRecoverable
  BY <1>1, <1>2 DEF NoDust, OpenOrdersRecoverable
<1> QED
  BY <1>3, OnlyDustIsStuck, TypeCorrect, FundedOrdersHold, LinksHold, PTL

=============================================================================
