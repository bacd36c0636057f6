-------------------------- MODULE ResolutionProofs --------------------------
(***************************************************************************)
(* Resolution's invariants and step properties for every set of terms and  *)
(* every clock range.                                                      *)
(***************************************************************************)
EXTENDS Resolution, TLAPS

\* The three invariants support each other: that a final outcome is justified
\* needs the shape of the market, and that shape needs the windows.
IInv == TypeOK /\ ProposalInWindow /\ FinalJustified

USE DEF adminVars

\* The recorded terms are integers, and undecided is not an outcome.
LEMMA TermsAreIntegers ==
    ASSUME TypeOK
    PROVE  /\ terms.close \in Int /\ terms.earliest \in Int /\ terms.delay \in Int
           /\ terms.available \in Int /\ terms.deadline \in Int
           /\ Earliest(terms) \in Int
           /\ terms.close > 0 /\ terms.delay > 0
           /\ Earliest(terms) >= terms.close
BY ResolutionAssumption DEF TypeOK, ValidTerms, Earliest, Absent

\* The mark of a market without an outcome is not an outcome.
LEMMA UndecidedIsNoOutcome == Undecided \notin Outcomes
BY DEF Undecided, Outcomes

\* A freshly initialized market satisfies the invariant.
LEMMA InitInv == Init => IInv
<1> SUFFICES ASSUME Init PROVE IInv
  OBVIOUS
<1>1. TypeOK
  BY ResolutionAssumption, UndecidedIsNoOutcome
     DEF Init, TypeOK, Statuses, HasProposal, NoProposal
<1>2. ~HasProposal /\ final = Undecided
  BY DEF Init, HasProposal, NoProposal
<1> QED
  BY <1>1, <1>2 DEF IInv, ProposalInWindow, FinalJustified

\* A proposal or a correction keeps the invariant.
LEMMA PublishInv ==
    ASSUME IInv, NEW a \in Admins, NEW outcome \in Outcomes,
           status \in {"Open", "Frozen", "Proposed"}, Publish(a, outcome)
    PROVE  IInv'
<1> USE UndecidedIsNoOutcome
<1>1. now \in 0 .. MaxTs /\ MaxTs \in Nat
  BY ResolutionAssumption DEF IInv, TypeOK
<1>2. TypeOK'
  BY <1>1 DEF IInv, TypeOK, Publish, Statuses, HasProposal
<1>3. ProposalInWindow'
  BY <1>1, TermsAreIntegers
     DEF IInv, ProposalInWindow, Publish, ResolverWindow, PrimaryWindow,
         FallbackWindow, HasFallback, HasDeadline, Earliest, Absent
<1>4. FinalJustified'
  BY DEF FinalJustified, Publish
<1> QED
  BY <1>2, <1>3, <1>4 DEF IInv

\* No step breaks the invariant.
LEMMA NextInv == IInv /\ [Next]_vars => IInv'
<1> SUFFICES ASSUME IInv, [Next]_vars PROVE IInv'
  OBVIOUS
<1> USE DEF IInv
<1>0. MaxTs \in Nat /\ now \in 0 .. MaxTs
  BY ResolutionAssumption DEF TypeOK
<1>1. CASE Tick
  <2>1. TypeOK'
    BY <1>0, <1>1 DEF Tick, TypeOK, marketVars, HasProposal
  <2>2. ProposalInWindow'
    BY <1>0, <1>1
       DEF Tick, marketVars, TypeOK, ProposalInWindow, HasProposal, HasFallback, HasDeadline
  <2>3. FinalJustified'
    BY <1>0, <1>1, TermsAreIntegers
       DEF Tick, marketVars, TypeOK, FinalJustified, HasProposal, HasDeadline, Maturity
  <2> QED
    BY <2>1, <2>2, <2>3
<1>2. ASSUME NEW a \in Admins,
             AddAdmin(a) \/ DisableAdmin(a) \/ EnableAdmin(a) \/ RemoveAdmin(a)
      PROVE  IInv'
  <2>1. PICK from \in {"Active", "Disabled", "Removed"},
             to \in {"Active", "Disabled", "Removed"} : SetRole(a, from, to)
    BY <1>2 DEF AddAdmin, DisableAdmin, EnableAdmin, RemoveAdmin
  <2>2. TypeOK'
    BY <2>1 DEF SetRole, TypeOK, marketVars, HasProposal
  <2>3. ProposalInWindow' /\ FinalJustified'
    BY <2>1 DEF SetRole, marketVars, ProposalInWindow, FinalJustified, HasProposal,
                HasFallback, HasDeadline, Maturity
  <2> QED
    BY <2>2, <2>3
<1>3. CASE OpenMarket
  BY <1>3 DEF OpenMarket, TypeOK, Statuses, ProposalInWindow, FinalJustified, HasProposal,
              HasFallback, HasDeadline, Maturity
<1>4. CASE CloseTrading \/ FreezeAtClose
  BY <1>4 DEF CloseTrading, FreezeAtClose, TypeOK, Statuses, ProposalInWindow,
              FinalJustified, HasProposal, HasFallback, HasDeadline, Maturity
<1>5. CASE ActivateFallback
  BY <1>5 DEF ActivateFallback, TypeOK, Statuses, ProposalInWindow, FinalJustified,
              HasProposal, HasFallback, HasDeadline
<1>6. CASE Finalize
  BY <1>6, UndecidedIsNoOutcome
     DEF Finalize, TypeOK, Statuses, ProposalInWindow, FinalJustified, HasProposal,
         HasFallback, HasDeadline, Maturity
<1>7. CASE TimeOutInvalid
  BY <1>7, UndecidedIsNoOutcome
     DEF TimeOutInvalid, TypeOK, Statuses, Outcomes, ProposalInWindow, FinalJustified,
         HasProposal, HasDeadline
<1>8. ASSUME NEW a \in Admins, NEW outcome \in Outcomes,
             Propose(a, outcome) \/ Correct(a, outcome)
      PROVE  IInv'
  <2>1. status \in {"Open", "Frozen", "Proposed"} /\ Publish(a, outcome)
    BY <1>8 DEF Propose, Correct
  <2> QED
    BY <2>1, PublishInv
<1>9. CASE UNCHANGED vars
  BY <1>9 DEF vars, TypeOK, ProposalInWindow, FinalJustified, HasProposal, HasFallback,
              HasDeadline, Maturity
<1> QED
  BY <1>1, <1>2, <1>3, <1>4, <1>5, <1>6, <1>7, <1>8, <1>9 DEF Next, Advance

\* The invariant holds throughout.
LEMMA Invariance == Spec => []IInv
BY InitInv, NextInv, PTL DEF Spec

\* The type invariant of the market, for all terms and clock ranges.
THEOREM TypeCorrect == Spec => []TypeOK
BY Invariance, PTL DEF IInv

\* Every recorded proposal was published inside its resolver's window.
THEOREM ProposalsKeepTheirWindow == Spec => []ProposalInWindow
BY Invariance, PTL DEF IInv

\* Nothing is finalized before a full review delay or the agreed deadline.
THEOREM FinalOutcomesJustified == Spec => []FinalJustified
BY Invariance, PTL DEF IInv

-----------------------------------------------------------------------------
(* The protected administrator *)

\* The super-admin's own record, where he is one of the resolvers.
SuperActive == super \in Admins => role[super] = "Active"

\* No instruction takes the super-admin's record out of Active.
LEMMA SuperStaysActive == TypeOK /\ SuperActive /\ [Next]_vars => SuperActive'
<1> SUFFICES ASSUME TypeOK, SuperActive, [Next]_vars PROVE SuperActive'
  OBVIOUS
<1>1. ASSUME NEW a \in Admins, DisableAdmin(a) \/ RemoveAdmin(a)
      PROVE  SuperActive'
  BY <1>1 DEF DisableAdmin, RemoveAdmin, SetRole, SuperActive, TypeOK
<1>2. ASSUME NEW a \in Admins, AddAdmin(a) \/ EnableAdmin(a)
      PROVE  SuperActive'
  BY <1>2 DEF AddAdmin, EnableAdmin, SetRole, SuperActive, TypeOK
<1>3. ASSUME NEW a \in Admins, NEW outcome \in Outcomes,
             Propose(a, outcome) \/ Correct(a, outcome)
      PROVE  UNCHANGED adminVars
  BY <1>3 DEF Propose, Correct, Publish
<1>4. CASE Tick \/ OpenMarket \/ CloseTrading \/ Advance \/ UNCHANGED vars
  BY <1>4 DEF Tick, OpenMarket, CloseTrading, Advance, FreezeAtClose, ActivateFallback,
              Finalize, TimeOutInvalid, vars, SuperActive
<1> QED
  BY <1>1, <1>2, <1>3, <1>4 DEF Next, SuperActive

\* A window that ends leaves room for the whole review on the chain's clock.
LEMMA WindowLeavesReview ==
    ASSUME TypeOK, NEW a \in Admins, ResolverWindow(a), WindowEnds
    PROVE  Fits(now + terms.delay)
<1>1. now \in Int /\ MaxTs \in Int
  BY ResolutionAssumption DEF TypeOK
<1>2. CASE phase = "Primary"
  BY <1>1, <1>2, TermsAreIntegers
     DEF TypeOK, ValidTerms, ResolverWindow, WindowEnds, PrimaryWindow, HasFallback, Fits
<1>3. CASE phase # "Primary"
  BY <1>1, <1>3, TermsAreIntegers
     DEF TypeOK, ValidTerms, ResolverWindow, WindowEnds, FallbackWindow, HasFallback,
         HasDeadline, Fits
<1> QED
  BY <1>2, <1>3

\* A super-admin whose turn it is to resolve is barred neither by his record,
\* nor by an earlier proposal, nor by the range of the clock.
THEOREM SuperAdminNeverLockedOut == Spec => []SuperAdminCanResolve
<1>1. Init => SuperActive
  BY DEF Init, SuperActive
<1>2. TypeOK /\ SuperActive => SuperAdminCanResolve
  <2> SUFFICES ASSUME TypeOK, SuperActive PROVE SuperAdminCanResolve
    OBVIOUS
  <2>1. status \in {"Open", "Frozen"} => ~HasProposal /\ final = Undecided
    BY DEF TypeOK
  <2>2. super \in Admins /\ ResolverWindow(super) /\ WindowEnds => Fits(now + terms.delay)
    BY WindowLeavesReview
  <2> QED
    BY <2>1, <2>2 DEF SuperAdminCanResolve, SuperActive
<1> QED
  BY <1>1, <1>2, SuperStaysActive, TypeCorrect, PTL DEF Spec

-----------------------------------------------------------------------------

\* One step under the invariant: proposals stand, and final outcomes are final.
LEMMA StepStands ==
    ASSUME IInv, [Next]_vars
    PROVE  /\ HasProposal => phase' = phase
           /\ HasProposal /\ now >= Maturity => proposal' = proposal
           /\ HasProposal => proposal'.outcome # Undecided
           /\ proposal' # proposal => proposal'.at = now /\ role[PhaseResolver] = "Active"
           /\ final # Undecided => final' = final
<1>1. ASSUME NEW a \in Admins, NEW outcome \in Outcomes, Propose(a, outcome)
      PROVE  /\ ~HasProposal
             /\ proposal'.at = now /\ role[PhaseResolver] = "Active"
             /\ final = Undecided
  BY <1>1 DEF Propose, Publish, ResolverWindow, PhaseResolver
<1>2. ASSUME NEW a \in Admins, NEW outcome \in Outcomes, Correct(a, outcome)
      PROVE  /\ ~(now >= Maturity)
             /\ proposal'.outcome # Undecided
             /\ proposal'.at = now /\ role[PhaseResolver] = "Active"
             /\ phase' = phase
             /\ final = Undecided
  <2>1. now \in Int /\ Maturity \in Int
    BY ResolutionAssumption, TermsAreIntegers DEF IInv, TypeOK, Maturity
  <2> QED
    BY <1>2, <2>1, UndecidedIsNoOutcome
       DEF Correct, Publish, ResolverWindow, PhaseResolver
<1>3. CASE \/ Tick \/ OpenMarket \/ CloseTrading \/ Advance \/ UNCHANGED vars
           \/ \E a \in Admins : AddAdmin(a) \/ DisableAdmin(a) \/ EnableAdmin(a) \/ RemoveAdmin(a)
  BY <1>3
     DEF Tick, OpenMarket, CloseTrading, Advance, FreezeAtClose, ActivateFallback, Finalize,
         TimeOutInvalid, AddAdmin, DisableAdmin, EnableAdmin, RemoveAdmin, SetRole,
         vars, marketVars, HasProposal
<1> QED
  BY <1>1, <1>2, <1>3 DEF Next

\* A proposal is never displaced by the fallback, appears and changes only while
\* the resolver of the phase is an active administrator, a change only before
\* maturity and with its delay restarted, and a final outcome never changes.
THEOREM ProposalsStand == Spec => ProposalStands
<1>1. IInv /\ [Next]_vars => [/\ HasProposal => phase' = phase
                              /\ HasProposal /\ now >= Maturity => proposal' = proposal
                              /\ HasProposal => proposal'.outcome # Undecided
                              /\ proposal' # proposal => proposal'.at = now /\ role[PhaseResolver] = "Active"
                              /\ final # Undecided => final' = final]_vars
  BY StepStands
<1> QED
  BY <1>1, Invariance, PTL DEF Spec, ProposalStands

\* One step under the invariant is a lifecycle move or leaves the phase alone.
LEMMA StepMoves ==
    ASSUME IInv, [Next]_vars
    PROVE  \/ CanMove(TradingPhase, final, TradingPhase', final')
           \/ UNCHANGED <<TradingPhase, final>>
<1> USE DEF IInv, TradingPhase, CanMove
<1>0. now \in Int /\ terms.close \in Int
  BY ResolutionAssumption, TermsAreIntegers DEF TypeOK
<1>1. CASE Tick
  BY <1>0, <1>1 DEF Tick, marketVars, TypeOK
<1>2. ASSUME NEW a \in Admins,
             AddAdmin(a) \/ DisableAdmin(a) \/ EnableAdmin(a) \/ RemoveAdmin(a)
      PROVE  UNCHANGED <<TradingPhase, final>>
  BY <1>2 DEF AddAdmin, DisableAdmin, EnableAdmin, RemoveAdmin, SetRole, marketVars
<1>3. CASE OpenMarket
  BY <1>0, <1>3 DEF OpenMarket, TypeOK
<1>4. CASE CloseTrading \/ FreezeAtClose
  BY <1>0, <1>4 DEF CloseTrading, FreezeAtClose, TypeOK
<1>5. CASE ActivateFallback
  <2>1. now >= terms.close
    BY <1>0, <1>5, TermsAreIntegers DEF ActivateFallback, TypeOK, ValidTerms, HasFallback
  <2> QED
    BY <1>5, <2>1 DEF ActivateFallback, TypeOK
<1>6. CASE Finalize
  BY <1>6 DEF Finalize, TypeOK, HasProposal
<1>7. CASE TimeOutInvalid
  <2>1. now >= terms.close
    BY <1>0, <1>7, TermsAreIntegers
       DEF TimeOutInvalid, TypeOK, ValidTerms, HasDeadline
  <2> QED
    BY <1>7, <2>1 DEF TimeOutInvalid, TypeOK
<1>8. ASSUME NEW a \in Admins, NEW outcome \in Outcomes,
             Propose(a, outcome) \/ Correct(a, outcome)
      PROVE  \/ CanMove(TradingPhase, final, TradingPhase', final')
             \/ UNCHANGED <<TradingPhase, final>>
  BY <1>8 DEF Propose, Correct, Publish, ResolverWindow
<1>9. CASE UNCHANGED vars
  BY <1>9 DEF vars
<1> QED
  BY <1>1, <1>2, <1>3, <1>4, <1>5, <1>6, <1>7, <1>8, <1>9 DEF Next, Advance

\* The timed market with its resolvers implements the lifecycle that the
\* trading model is built on.
THEOREM LifecycleImplemented == Spec => ImplementsLifecycle
<1>1. IInv /\ [Next]_vars =>
          [CanMove(TradingPhase, final, TradingPhase', final')]_<<TradingPhase, final>>
  BY StepMoves
<1> QED
  BY <1>1, Invariance, PTL DEF Spec, ImplementsLifecycle
=============================================================================
