CONSTANTS
  r1 = r1
  r2 = r2
  Runner = {r1, r2}
  Path = {"token", "hash", "armed"}
  Content <- MCContent
  Missing = Missing
  Torn = Torn
  MaxGen = 1
  Bad = Bad
  None = None
  Setting <- MCSetting
SPECIFICATION Spec
INVARIANTS TypeOK TamperIsSeen SmoothAlertMeansTamper
PROPERTY FilesAreAtomic
SYMMETRY Symmetry
