SPECIFICATION FairSpec
CONSTANT Plans <- AllPlans
INVARIANTS TypeOK LayoutSound SidesMatch
PROPERTY Termination
