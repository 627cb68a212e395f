CONSTANTS
  ApiLimit <- MCApiLimit
  MaxTime <- MCMaxTime
  MaxInFlight <- MCMaxInFlight
  Me = me
  u1 = u1
  u2 = u2
  Others <- MCOthers
  SendFails = TRUE
SYMMETRY MCSymmetry
SPECIFICATION Spec
INVARIANT
  ProducerUsesLiveSender
