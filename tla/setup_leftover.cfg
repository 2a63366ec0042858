SPECIFICATION Spec
CONSTANTS
  Versions <- MCVersions
  Names <- MCNames
  Bundled <- MCBundled
  Catalog <- MCCatalog
  IniValues <- MCIniValues
  Digests <- MCDigests
  MetaOf <- MCMeta
  Templated <- MCTemplated
  SharedOpcache <- MCSharedOpcache
  Absent = Absent
  Torn = Torn
  Requests <- RedisAndNot
  MaxTenants = 2
  Containers = FALSE
INVARIANT DisabledIsNotLoaded
