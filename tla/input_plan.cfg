SPECIFICATION Spec
CONSTANTS
  Versions <- MCVersions
  Names <- MCNames
  Bundled <- MCBundled
  Catalog <- MCCatalog
  IniValues <- MCIniValues
  Digests <- MCDigests
  DefaultVersion = 84
  Unset = Unset
  Missing = Missing
  Invalid = Invalid
  MaxTokens = 3
CHECK_DEADLOCK FALSE
INVARIANT TypeOK
INVARIANT ListAsWritten
INVARIANT DriverFollowsCoverage
INVARIANT OpcacheAsWritten
