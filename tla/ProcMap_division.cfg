SPECIFICATION Spec
CONSTANT Plans <- MixedPlans
INVARIANT LayoutSound
