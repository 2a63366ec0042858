SPECIFICATION Spec
CONSTANTS
  t1 = t1
  t2 = t2
  Testers <- MCTesters
  Fixtures <- MCFixtures
  Requests <- MCRequests
  FirstImages <- MCFirstImages
  Builds <- MCBuilds
  Unset = Unset
  SharedOpcache <- MCVersions
  MaxImages = 2
  MaxFaults = 1
  Versions <- MCVersions
  Names <- MCNames
  Bundled <- MCBundled
  Catalog <- MCCatalog
  IniValues <- MCIniValues
  Digests <- MCDigests
SYMMETRY TesterSymmetry
CHECK_DEADLOCK FALSE
INVARIANTS TypeOK NothingWasSkipped TestedAreCurrent
