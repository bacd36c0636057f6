---------------------------- MODULE MCSharedSpot ----------------------------
(***************************************************************************)
(* One spot book between two traders.  MCSharedSpotLinks.cfg takes three   *)
(* prices and as many atoms to offer at them, so that a level can be       *)
(* inserted and removed in the middle, and no decimals, so that every      *)
(* amount is whole.  MCSharedSpotExit.cfg takes one base decimal and the   *)
(* price 5, where one base atom is worth half a quote atom, so that        *)
(* remainders worth nothing occur with small numbers.                      *)
(***************************************************************************)
EXTENDS SharedProperties

MCTraders == {"ann", "bob"}
MCMints   == {"SOL", "USDC"}
MCSpot    == {"sol"}
MCQuoteOf == [b \in MCSpot |-> "USDC"]
MCClaimOf == [b \in MCSpot |-> [Spot |-> "SOL"]]
MCTick    == [b \in MCSpot |-> 5]
MCLot     == [b \in MCSpot |-> 1]
MCPayout  == [b \in {} |-> 2]
MCScale   == [b \in MCSpot |-> 10]
LinksOne  == [b \in MCSpot |-> 1]

\* ann buys first and bob sells first; what they get they may trade again
LinksWallet == [ann |-> [SOL |-> 0, USDC |-> 3], bob |-> [SOL |-> 3, USDC |-> 0]]
ExitWallet  == [ann |-> [SOL |-> 0, USDC |-> 4], bob |-> [SOL |-> 3, USDC |-> 0]]
=============================================================================
