SPECIFICATION Spec
INVARIANT CountIsHolders
INVARIANT MutualExclusion
INVARIANT TokensConserved
