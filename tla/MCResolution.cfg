SPECIFICATION FairSpec
CONSTANTS
    MaxTs = 7
    Terms <- MCTerms
INVARIANTS TypeOK ProposalInWindow FinalJustified SuperAdminCanResolve
PROPERTIES ProposalStands ImplementsLifecycle OpenedMarketsResolve
