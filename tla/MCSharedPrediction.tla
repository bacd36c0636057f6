------------------------- MODULE MCSharedPrediction -------------------------
(***************************************************************************)
(* One question with its YES and NO books.  The payout is 10 atoms (a      *)
(* collateral of one decimal, the least that is even), the only price is   *)
(* half of it: bids lock 5 atoms a contract.                               *)
(***************************************************************************)
EXTENDS SharedProperties

MCTraders == {"ann", "bob"}
MCMints   == {"USDC"}
MCAssets  == {"USDC", "rain-yes", "rain-no"}
MCBooks   == {"rain"}
MCQuoteOf == [b \in MCBooks |-> "USDC"]
MCClaimOf == [b \in MCBooks |-> [Yes |-> "rain-yes", No |-> "rain-no"]]
MCOne     == [b \in MCBooks |-> 1]
MCTick    == [b \in MCBooks |-> 5]
MCPayout  == [b \in MCBooks |-> 10]
MCWallet  == [ann |-> [USDC |-> 20], bob |-> [USDC |-> 10]]
=============================================================================
