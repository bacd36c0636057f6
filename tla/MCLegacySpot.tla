---------------------------- MODULE MCLegacySpot ----------------------------
(***************************************************************************)
(* Two traders in one legacy market.  MCLegacySpotLinks.cfg has three      *)
(* prices and no decimals, MCLegacySpotMoney.cfg one base decimal and the  *)
(* price 5, where a base atom is worth half a quote atom and an order can  *)
(* be left with a lock of nothing.                                         *)
(***************************************************************************)
EXTENDS LegacyProperties

MCTraders   == {"ann", "bob"}
LinksWallet == [ann |-> [base |-> 0, quote |-> 3], bob |-> [base |-> 3, quote |-> 0]]
MoneyWallet == [ann |-> [base |-> 0, quote |-> 3], bob |-> [base |-> 2, quote |-> 0]]
=============================================================================
