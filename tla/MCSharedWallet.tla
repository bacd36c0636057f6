--------------------------- MODULE MCSharedWallet ---------------------------
(***************************************************************************)
(* Two spot books that quote in the same mint: ann's USDC is one balance   *)
(* and its lock backs her bids in both books.  One base atom is worth half *)
(* a quote atom at price 5 and one and a half at 15: floors, dust and      *)
(* fills worth nothing occur with quantities of at most 3.                 *)
(***************************************************************************)
EXTENDS SharedProperties

MCTraders == {"ann", "bob"}
MCMints   == {"SOL", "BTC", "USDC"}
MCSpot    == {"sol", "btc"}
MCQuoteOf == [b \in MCSpot |-> "USDC"]
MCClaimOf == [sol |-> [Spot |-> "SOL"], btc |-> [Spot |-> "BTC"]]
MCOne     == [b \in MCSpot |-> 1]
MCScale   == [b \in MCSpot |-> 10]
MCPayout  == [b \in {} |-> 2]
MCWallet  == [ann |-> [SOL |-> 0, BTC |-> 0, USDC |-> 3],
              bob |-> [SOL |-> 3, BTC |-> 3, USDC |-> 0]]
=============================================================================
