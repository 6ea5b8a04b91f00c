SPECIFICATION ServicesSpec
CONSTANTS
  Threads = {t1, t2}
  Clients = {t1, t2}
  MaxMethods = 2
  MaxFields = 1
  MethodNames = {country, event}
  FieldNames = {window, sdk}
  CountryCode = country
  WindowService = window
  SdkInt = sdk
  Null = null
  Unknown = unknown
  Names = {save, level}
  Contents = {new}
  Asset = asset
  Nothing = nothing
  Dir = dir
  Empty = empty
  Shipped = {level}
  Local = {save, level}
  GuestDirs = {"sd", "abs"}
  MaxCalls = 3
SYMMETRY ThreadSymmetry
INVARIANTS
  IdsNameTheirMembers
  ScansFindNames
PROPERTIES
  RefinesFileStore
  AssetsSurvive
  OpensWhatIsThere
CHECK_DEADLOCK FALSE
