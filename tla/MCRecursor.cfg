SPECIFICATION RecursionFairSpec
CONSTANTS
    Names <- SmallNames
    Questions <- MCQuestions
    NsLists <- SmallNs
    MaxReferrals = 2
    MaxDepth = 1
    MaxNested = 0
INVARIANTS RecursionTypeOK DsAskedAtParent DelegationsInBailiwick
PROPERTY EveryResolutionEnds
