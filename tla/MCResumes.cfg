\* Two signals whose commits are read in the other order.
SPECIFICATION Spec
CONSTANTS
  Names <- MCNames
  Functions <- MCApproval
  MaxArrivals = 3
INVARIANT ResumesWhereItLeftOff
