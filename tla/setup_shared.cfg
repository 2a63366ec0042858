SPECIFICATION Spec
CONSTANTS
  Versions <- MCVersions
  Names <- MCNames
  Bundled <- MCBundled
  Catalog <- MCCatalog
  IniValues <- MCIniValues
  Digests <- MCDigests
  MetaOf <- MCMeta
  Templated <- MCTemplated
  SharedOpcache <- MCSharedOpcache
  Absent = Absent
  Torn = Torn
  Requests <- SharedRequests
  MaxTenants = 2
  Containers = TRUE
INVARIANT InstallReplacesCore
INVARIANT HitServesOwnPlan
INVARIANT RequestedExtensionsLoaded
INVARIANT CompleteEntriesAreWhole
INVARIANT SchemaCheckCoversTemplates
PROPERTY MarkedEntriesAreFinal
