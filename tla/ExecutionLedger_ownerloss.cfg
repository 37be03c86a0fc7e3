\* The comment of reconcileOwnerLoss on a transcript that moved, against the code.
CONSTANT
  N <- MCN
SPECIFICATION Spec
INVARIANT
  OwnerLossIsRetained
