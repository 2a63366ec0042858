SPECIFICATION Spec
CONSTANTS
  p1 = p1
  p2 = p2
  p3 = p3
  bin = bin
  conf = conf
  v1 = v1
  v2 = v2
  Absent = Absent
  Torn = Torn
  Nobody = Nobody
  Procs <- ThreeProcs
  Files <- TwoFiles
  Texts <- TwoTexts
INVARIANT TypeOK
INVARIANT NothingMissing
INVARIANT MarkedIsOneTree
PROPERTY PublishedOnce
SYMMETRY Symmetry
