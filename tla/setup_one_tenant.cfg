SPECIFICATION FairSpec
CONSTANTS
  Versions <- MCVersions
  Names <- MCNames
  Bundled <- MCBundled
  Catalog <- MCCatalog
  IniValues <- MCIniValues
  Digests <- MCDigests
  MetaOf <- MCMeta
  Templated <- MCTemplated
  SharedOpcache <- MCSharedOpcache
  Absent = Absent
  Torn = Torn
  Requests <- OneRequests
  MaxTenants = 1
  Containers = FALSE
INVARIANT TypeOK
INVARIANT EnvironmentAsResolved
PROPERTY KeepsContract
PROPERTY RunEnds
