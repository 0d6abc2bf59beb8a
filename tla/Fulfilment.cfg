CONSTANTS
  Staff = {s1, s2}
  Workers = {w1, w2}
  Disputes = {d1}
  Verdicts = {"lost"}
  Returns = {t1, t2}
  Units = 2
  MaxFaults = 1
  Nobody = Nobody
SPECIFICATION Spec
SYMMETRY MCSymmetry
INVARIANTS
  TypeOK
  DisputeFollowsStripe
  OneFreezePerDispute
  ReturnMatchesMoney
PROPERTIES
  NoFrozenShipment
