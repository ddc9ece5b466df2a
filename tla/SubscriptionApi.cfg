SPECIFICATION Spec
CONSTANTS
  Requests = {r1, r2, r3}
  Names = {n1, n2}
  NoName = NoName
  MaxRenames = 1
  MaxFaults = 1
INVARIANTS
  ApiInv
  OneSubscriptionPerRepository
  NotFoundIsTrue
  ClientErrorLeavesNothing
  LinksActOnTheirRow
SYMMETRY Symmetry
