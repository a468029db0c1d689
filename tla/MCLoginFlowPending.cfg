\* The comment on the pending cookie: cleared when the aal2 session is issued.
CONSTANTS
  Tabs = {t1}
  Tokens = {a1, a2, a3, a4}
  Factors = {f1}
  None = none
  Keep = keep
SPECIFICATION Spec
SYMMETRY MCSymmetry
PROPERTY PendingClearedAtIssue
