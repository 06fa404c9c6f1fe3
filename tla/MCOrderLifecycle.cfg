SPECIFICATION Spec
CONSTANTS
  h1 = h1
  h2 = h2
  r1 = r1
  None = None
  Handler <- MCHandler
  Rider = {r1}
  Kinds = {"vendor", "request"}
  Fault = {"crash", "catalogError"}
SYMMETRY MCSymmetry
CONSTRAINT OneConcern
INVARIANTS
  AbortIsSettled
  WaitIsTimed
  AnnouncedOnce
PROPERTY LegalUnlessOverwritten
CHECK_DEADLOCK FALSE
