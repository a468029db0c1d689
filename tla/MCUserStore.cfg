\* Three requests of two users; one failed statement or dropped request.
CONSTANTS
  Requests = {r1, r2, r3}
  Subjects = {"ann", "bob"}
  Columns = {"region", "density"}
  Values = {0, 1}
  NoRow = NoRow
  NoItem = NoItem
  MaxFaults = 1
  Items <- MCItems
  Owner <- MCOwner
  Kind <- MCKind
  Label <- MCLabel
  Inputs <- MCInputs
SPECIFICATION Spec
SYMMETRY MCSymmetry
CHECK_DEADLOCK FALSE
INVARIANTS TypeOK FailuresExplained MarkedMeansMarked
PROPERTY ImplementsUserLedger
