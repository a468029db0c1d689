\* Safety: two tabs of one browser, two tokens, one authenticator.
CONSTANTS
  Tabs = {t1, t2}
  Tokens = {a1, a2}
  Factors = {f1}
  None = none
  Keep = keep
SPECIFICATION Spec
SYMMETRY MCSymmetry
INVARIANTS TypeOK SingleFactorOnlyWithoutMfa NoNeedlessStepUp
PROPERTY ImplementsCustody
