------------------------- MODULE MCLegacyPrediction -------------------------
(***************************************************************************)
(* Two traders, each with the same tokens, in one legacy question.         *)
(* MCLegacyPredictionMoney.cfg has both outcomes at one price, fees and    *)
(* partial fills, and every action from Init on.                           *)
(*                                                                         *)
(* MCLegacyPredictionLinks.cfg starts where both traders have deposited    *)
(* all their tokens and made three complete sets, in a market just opened, *)
(* and looks at its orders, at three prices: enough cash and contracts for *)
(* queues of several bids or asks, and for fills in parts.  TradingInit is *)
(* a state that Spec reaches by deposits, sets and the market's opening,   *)
(* and what TradingSpec leaves out never touches an order.                 *)
(* Nothing tells the traders apart.                                        *)
(***************************************************************************)
EXTENDS LegacyPredictionProperties, TLC

MoneyWallet == [t \in Traders |-> 6]
TradingWallet == [t \in Traders |-> 16]
Symmetry == Permutations(Traders)

TradingSets == 3
NoPrice == 2             \* bound, see FewNoOrders
TradingCash(t) == WalletTokens[t] - TradingSets * Payout

TradingInit ==
    LET sets == TradingSets * Cardinality(Traders)
    IN  /\ market = [phase |-> "Open", final_outcome |-> Undecided,
                     yes_supply |-> sets, no_supply |-> sets,
                     backing_reserve |-> sets * Payout, open_order_count |-> 0]
        /\ book = [next_order_id |-> 1, best |-> [l \in Lists |-> None]]
        /\ order = [i \in Ids |-> AbsentOrder]
        /\ level = [l \in Lists |-> [p \in Prices |-> AbsentLevel]]
        /\ fees = 0
        /\ positions = Traders
        /\ position = [t \in Traders |-> [x \in Buckets |->
               [free |-> IF x = "cash" THEN TradingCash(t) ELSE TradingSets, locked |-> 0]]]
        /\ wallet = [t \in Traders |-> 0]
        /\ vault = SumFunction(WalletTokens)
        /\ shared = [t \in Traders |-> 0]
        /\ asset_vault = 0

\* Bound: NO orders are placed at one price and for one contract.
FewNoOrders ==
    \A i \in Ids : order[i].list[1] = "No" => order[i].price = NoPrice /\ order[i].quantity = 1

TradingSpec ==
    TradingInit /\ [][(PlaceOrder /\ FewNoOrders') \/ CancelOrder \/ MatchOrder]_vars
=============================================================================
