------------------------ MODULE PredictionLifecycle ------------------------
(***************************************************************************)
(* What the life of a prediction market promises, as seen by the trading   *)
(* code.  A phase is the stored PredictionStatus, except that an Open      *)
(* market whose close_ts has passed is "Expired": its status still says    *)
(* Open, but every trading handler rejects it.  CanMove is the whole       *)
(* contract: Resolution is checked against it and SharedTrading relies on  *)
(* nothing else.                                                           *)
(***************************************************************************)

Outcomes == {"Yes", "No", "Invalid"}
Undecided == "Undecided"

Phases == {"Draft", "Open", "Expired", "Frozen", "Proposed", "Resolved"}

\* A step keeps the outcome open unless it resolves the market.  Resolving out
\* of Proposed may give any outcome, resolving without a proposal only Invalid.
CanMove(phase, final, phase2, final2) ==
    /\ final = Undecided
    /\ \/ /\ <<phase, phase2>> \in {<<"Draft", "Open">>,
                                    <<"Open", "Expired">>,
                                    <<"Open", "Frozen">>,
                                    <<"Expired", "Frozen">>,
                                    <<"Expired", "Proposed">>,
                                    <<"Frozen", "Proposed">>}
          /\ final2 = Undecided
       \/ /\ phase = "Proposed"
          /\ phase2 = "Resolved"
          /\ final2 \in Outcomes
       \/ /\ phase \in {"Expired", "Frozen"}
          /\ phase2 = "Resolved"
          /\ final2 = "Invalid"
=============================================================================
