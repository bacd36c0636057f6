----------------------------- MODULE Resolution -----------------------------
(***************************************************************************)
(* The life of one prediction market on the chain's clock: creation terms, *)
(* opening, early and timed freezing, proposals and corrections by the     *)
(* resolver whose window it is, the permissionless clock transitions and   *)
(* the administrators' records that gate the resolvers.  Each action is    *)
(* one instruction, atomic and guarded by every require! of its handler.   *)
(***************************************************************************)
EXTENDS Integers, PredictionLifecycle

CONSTANTS
    MaxTs,      \* i64::MAX: the last second a timestamp can express
    Terms       \* bound: the creation terms tried (the invalid ones are refused)

Absent == 0     \* an optional timestamp that is not set

ASSUME ResolutionAssumption ==
    /\ MaxTs \in Nat \ {0}
    /\ \A c \in Terms : /\ c.close \in Int
                        /\ c.earliest \in Int
                        /\ c.delay \in Int
                        /\ c.available \in Int
                        /\ c.deadline \in Int

VARIABLES
    now,        \* Clock::unix_timestamp
    terms,      \* the immutable part of PredictionMarket
    status,     \* PredictionStatus
    phase,      \* PredictionResolutionPhase
    proposal,   \* outcome and proposed_at; outcome Undecided while there is none
    final,      \* final_outcome, Undecided while None
    role,       \* AdminStatus of the creator and of the fallback resolver
    super       \* ProtocolConfig.super_admin: one of them, or somebody else

vars == <<now, terms, status, phase, proposal, final, role, super>>
marketVars == <<terms, status, phase, proposal, final>>
adminVars  == <<role, super>>

Statuses == {"Draft", "Open", "Frozen", "Proposed", "Resolved"}
Admins   == {"creator", "fallback"}
NoProposal == [outcome |-> Undecided, at |-> 0]

HasProposal == proposal.outcome # Undecided
HasFallback == terms.available # Absent
HasDeadline == terms.deadline # Absent

Earliest(c) == IF c.earliest = Absent THEN c.close ELSE c.earliest

\* checked_add on an i64
Fits(ts) == ts <= MaxTs

\* validate_prediction_market_config, the part about time.  The deadline sits
\* inside the fallback group, so it is never set without one.
ValidTerms(c, ts) ==
    /\ c.close > ts
    /\ Earliest(c) >= c.close
    /\ c.delay > 0
    /\ Fits(Earliest(c) + c.delay)
    /\ c.available = Absent => c.deadline = Absent
    /\ c.available # Absent =>
           /\ c.available > Earliest(c)
           /\ Fits(c.available + c.delay)
           /\ c.deadline # Absent =>
                  /\ c.deadline > c.available
                  /\ Fits(c.deadline - 1 + c.delay)

\* initialize_prediction_market by the creator, at second 0.
Init ==
    /\ now = 0
    /\ terms \in {c \in Terms : ValidTerms(c, 0)}
    /\ status = "Draft"
    /\ phase = "Primary"
    /\ proposal = NoProposal
    /\ final = Undecided
    /\ role \in [Admins -> {"Active", "Disabled", "Removed"}]
    /\ super \in Admins \cup {"other"}
    /\ \A a \in {"creator", super} \cap Admins : role[a] = "Active"

-----------------------------------------------------------------------------
(* The clock and the administrators *)

Tick ==
    /\ now < MaxTs
    /\ now' = now + 1
    /\ UNCHANGED <<marketVars, adminVars>>

\* add_admin, disable_admin, enable_admin and remove_admin by the super-admin.
SetRole(a, from, to) ==
    /\ role[a] = from
    /\ role' = [role EXCEPT ![a] = to]
    /\ UNCHANGED <<now, marketVars, super>>

AddAdmin(a)     == SetRole(a, "Removed", "Active")
EnableAdmin(a)  == SetRole(a, "Disabled", "Active")

\* Mutant: the super-admin may disable himself as well.
DisableAnyAdmin(a) == SetRole(a, "Active", "Disabled")

\* target_admin != protocol_config.super_admin, in both
DisableAdmin(a) == a # super /\ SetRole(a, "Active", "Disabled")
RemoveAdmin(a)  == a # super /\ SetRole(a, "Disabled", "Removed")

-----------------------------------------------------------------------------
(* The creator *)

\* Mutant: trading may open after its end.
OpenAnyTime ==
    /\ role["creator"] = "Active"
    /\ status = "Draft"
    /\ status' = "Open"
    /\ UNCHANGED <<now, terms, phase, proposal, final, adminVars>>

OpenMarket ==
    /\ role["creator"] = "Active"
    /\ status = "Draft"
    /\ now < terms.close
    /\ status' = "Open"
    /\ UNCHANGED <<now, terms, phase, proposal, final, adminVars>>

\* close_prediction_trading
CloseTrading ==
    /\ role["creator"] = "Active"
    /\ status = "Open"
    /\ status' = "Frozen"
    /\ UNCHANGED <<now, terms, phase, proposal, final, adminVars>>

-----------------------------------------------------------------------------
(* The resolvers *)

PrimaryWindow == HasFallback => now < terms.available

\* Mutant: the fallback may still propose in the second of the deadline.
FallbackWindowClosed ==
    HasFallback /\ now >= terms.available /\ (HasDeadline => now <= terms.deadline)

FallbackWindow ==
    HasFallback /\ now >= terms.available /\ (HasDeadline => now < terms.deadline)

\* resolver_window: whose proposals the published clocks admit now.
ResolverWindow(a) ==
    /\ now >= terms.close
    /\ now >= Earliest(terms)
    /\ \/ phase = "Primary" /\ PrimaryWindow /\ a = "creator"
       \/ phase = "Fallback" /\ FallbackWindow /\ a = "fallback"

Maturity == proposal.at + terms.delay

\* Mutant: the administrator's record is not asked for.
PublishUnchecked(a, outcome) ==
    /\ ResolverWindow(a)
    /\ final = Undecided
    /\ Fits(now + terms.delay)
    /\ proposal' = [outcome |-> outcome, at |-> now]
    /\ status' = "Proposed"
    /\ UNCHANGED <<now, terms, phase, final, adminVars>>

\* What a proposal and a correction share; the new maturity must be expressible.
Publish(a, outcome) ==
    /\ role[a] = "Active"
    /\ ResolverWindow(a)
    /\ final = Undecided
    /\ Fits(now + terms.delay)
    /\ proposal' = [outcome |-> outcome, at |-> now]
    /\ status' = "Proposed"
    /\ UNCHANGED <<now, terms, phase, final, adminVars>>

Propose(a, outcome) ==
    /\ status \in {"Open", "Frozen"}
    /\ ~HasProposal
    /\ Publish(a, outcome)

\* Mutant: a mature proposal may still be corrected.
CorrectAnyTime(a, outcome) ==
    /\ status = "Proposed"
    /\ Publish(a, outcome)

Correct(a, outcome) ==
    /\ status = "Proposed"
    /\ now < Maturity
    /\ Publish(a, outcome)

-----------------------------------------------------------------------------
(* advance_prediction: anyone may send it *)

\* Mutant: the clock alone freezes a market in any status.
FreezeAny ==
    /\ final = Undecided
    /\ now >= terms.close
    /\ status' = "Frozen"
    /\ UNCHANGED <<now, terms, phase, proposal, final, adminVars>>

\* action 0
FreezeAtClose ==
    /\ final = Undecided
    /\ status = "Open"
    /\ now >= terms.close
    /\ status' = "Frozen"
    /\ UNCHANGED <<now, terms, phase, proposal, final, adminVars>>

\* action 1
ActivateFallback ==
    /\ final = Undecided
    /\ HasFallback
    /\ status \in {"Open", "Frozen"}
    /\ ~HasProposal
    /\ phase = "Primary"
    /\ now >= terms.available
    /\ HasDeadline => now < terms.deadline
    /\ status' = "Frozen"
    /\ phase' = "Fallback"
    /\ UNCHANGED <<now, terms, proposal, final, adminVars>>

\* Mutant: a proposal becomes final before its review ends.
FinalizeEarly ==
    /\ final = Undecided
    /\ status = "Proposed"
    /\ HasProposal
    /\ final' = proposal.outcome
    /\ status' = "Resolved"
    /\ UNCHANGED <<now, terms, phase, proposal, adminVars>>

\* action 2
Finalize ==
    /\ final = Undecided
    /\ status = "Proposed"
    /\ HasProposal
    /\ now >= Maturity
    /\ final' = proposal.outcome
    /\ status' = "Resolved"
    /\ UNCHANGED <<now, terms, phase, proposal, adminVars>>

\* Mutant: the timeout waits for a fallback that nobody has activated.
TimeOutAfterFallback ==
    /\ final = Undecided
    /\ HasDeadline
    /\ phase = "Fallback"
    /\ status \in {"Open", "Frozen"}
    /\ ~HasProposal
    /\ now >= terms.deadline
    /\ final' = "Invalid"
    /\ status' = "Resolved"
    /\ UNCHANGED <<now, terms, phase, proposal, adminVars>>

\* action 3
TimeOutInvalid ==
    /\ final = Undecided
    /\ HasDeadline
    /\ status \in {"Open", "Frozen"}
    /\ ~HasProposal
    /\ now >= terms.deadline
    /\ phase' = "Fallback"
    /\ final' = "Invalid"
    /\ status' = "Resolved"
    /\ UNCHANGED <<now, terms, proposal, adminVars>>

-----------------------------------------------------------------------------

Advance == FreezeAtClose \/ ActivateFallback \/ Finalize \/ TimeOutInvalid

Next ==
    \/ Tick
    \/ OpenMarket
    \/ CloseTrading
    \/ Advance
    \/ \E a \in Admins :
           \/ AddAdmin(a) \/ DisableAdmin(a) \/ EnableAdmin(a) \/ RemoveAdmin(a)
           \/ \E outcome \in Outcomes : Propose(a, outcome) \/ Correct(a, outcome)

Spec == Init /\ [][Next]_vars

\* Time passes, and a claimant who can finalize or time the market out does so:
\* those two instructions take no authority.  Nothing is assumed of the
\* creator, the resolvers or the super-admin.
FairSpec == Spec /\ WF_vars(Tick) /\ WF_vars(Finalize) /\ WF_vars(TimeOutInvalid)

-----------------------------------------------------------------------------
(* Properties *)

\* The shape of PredictionMarket: a proposal exists from Proposed on unless the
\* timeout resolved the market, and the outcome is final exactly in Resolved.
TypeOK ==
    /\ now \in 0 .. MaxTs
    /\ terms \in Terms /\ ValidTerms(terms, 0)
    /\ status \in Statuses
    /\ phase \in {"Primary", "Fallback"}
    /\ proposal \in [outcome : Outcomes \cup {Undecided}, at : 0 .. MaxTs]
    /\ final \in Outcomes \cup {Undecided}
    /\ role \in [Admins -> {"Active", "Disabled", "Removed"}]
    /\ super \in Admins \cup {"other"}
    /\ (status = "Resolved") <=> (final # Undecided)
    /\ (status = "Proposed") => HasProposal
    /\ HasProposal => status \in {"Proposed", "Resolved"}

\* A recorded proposal was made inside the window of the phase the market is
\* in: no earlier than the published earliest time, the primary's strictly
\* before the fallback becomes available, the fallback's from then on and
\* strictly before the deadline (resolver_window and its callers).
ProposalInWindow ==
    HasProposal =>
        /\ proposal.at >= Earliest(terms)
        /\ proposal.at <= now
        /\ phase = "Primary" /\ HasFallback => proposal.at < terms.available
        /\ phase = "Fallback" => /\ HasFallback
                                 /\ proposal.at >= terms.available
                                 /\ HasDeadline => proposal.at < terms.deadline

\* A final outcome is the recorded proposal's after its whole review delay, or
\* the committed Invalid after a deadline that passed without any proposal.
FinalJustified ==
    final # Undecided =>
        IF HasProposal
        THEN final = proposal.outcome /\ now >= Maturity
        ELSE final = "Invalid" /\ HasDeadline /\ now >= terms.deadline

\* A super-admin who is the market's resolver is never locked out of a window
\* that ends: his record stays Active through every change the other records
\* undergo (docs/architecture.md, invariants 13 to 15; initialize_protocol: "the
\* protocol never exists without an administrator able to operate it"), nothing
\* has been recorded in his place, and the terms admitted at creation leave the
\* new maturity expressible.
WindowEnds == IF phase = "Primary" THEN HasFallback ELSE HasDeadline

SuperAdminCanResolve ==
    /\ super \in Admins => role[super] = "Active"
    /\ super \in Admins /\ status \in {"Open", "Frozen"} /\ ResolverWindow(super) =>
           /\ ~HasProposal
           /\ final = Undecided
           /\ WindowEnds => Fits(now + terms.delay)

\* The administrator whose turn it is in the phase the market is in.
PhaseResolver == IF phase = "Primary" THEN "creator" ELSE "fallback"

\* docs/shared-balances-resolution.md: a timely proposal cannot be replaced by
\* the fallback, corrections stop at maturity and restart the whole delay, only
\* while the resolver of the phase is an active administrator does a proposal
\* appear or change, and a final outcome never changes.
ProposalStands ==
    [][/\ HasProposal => phase' = phase
       /\ HasProposal /\ now >= Maturity => proposal' = proposal
       /\ HasProposal => proposal'.outcome # Undecided
       /\ proposal' # proposal => proposal'.at = now /\ role[PhaseResolver] = "Active"
       /\ final # Undecided => final' = final]_vars

\* The phase SharedTrading sees.
TradingPhase == IF status = "Open" /\ now >= terms.close THEN "Expired" ELSE status

\* The market implements the lifecycle that trading relies on: every step is one
\* of CanMove's or leaves phase and outcome alone.
ImplementsLifecycle ==
    [][CanMove(TradingPhase, final, TradingPhase', final')]_<<TradingPhase, final>>

\* An opened market whose proposal windows end is resolved in the end, whatever
\* the administrators do: the deadline or the last correction is followed by a
\* maturity the clock can express (the overflow checks of the terms).
WindowsEnd ==
    \/ HasDeadline
    \/ status = "Proposed" /\ phase = "Primary" /\ HasFallback

OpenedMarketsResolve ==
    (status # "Draft" /\ WindowsEnd) ~> (status = "Resolved")
=============================================================================
