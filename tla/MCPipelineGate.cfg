CONSTANTS
    Patches = {p1, p2}
    MaxRedeliveries = 2
SPECIFICATION FairSpec
INVARIANTS TypeOK PostmortemsHaveCauses ApprovalsUsePausesUp OnlyOverlapFiresTwice RunsAreClosed
PROPERTIES EveryResolveIsAnswered EveryApprovalIsResumed
