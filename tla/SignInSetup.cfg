CONSTANTS
  Methods <- MCMethods
  Files <- MCFiles
  Overlays <- MCOverlays
  ProviderIds = {"p", "q", "r"}
  HandMade <- MCHandMade
  Fetches <- MCFetches
  KeyValues <- MCKeyValues
  MaxI64 = 15
  MinI64 <- MinOf5Bits
  Lifetimes <- AllLifetimes
SPECIFICATION SetupSpec
INVARIANTS
  TypeOK
  WellFormed
  MergeIsOverlay
  OnlyReservedExtrasStop
  DiscoveredIsLoadable
  NothingAddedTwice
  OnlyPrefixDiffers
  ExpiryIsExact
CHECK_DEADLOCK FALSE
