SPECIFICATION Spec
CONSTANTS
  m1 = m1
  m2 = m2
  v100 = v100
  v101 = v101
  v200 = v200
  v1 = v1
  v2 = v2
  sha = sha
  NoTag = NoTag
  Absent = Absent
  Torn = Torn
  Machines <- TwoMachines
  Tags <- ThreeTags
  Majors <- TwoMajors
  Shas <- OneSha
  MajorOf <- MajorOfThree
INVARIANT TypeOK
INVARIANT RunsWholeBinary
INVARIANT OwnDownloadFollowsRef
PROPERTY FirstBinaryStays
SYMMETRY Symmetry
