SPECIFICATION PartsSpec
CONSTANTS
  Parts     = {"results", "soak", "mem", "machine", "screens", "disk"}
  Log       <- MCLog
  Shares    = 6
  Trials    <- MCTrials
  Reference <- MCReference
  Profiles  = {"server"}
  Curves    = {10}
  Models    <- MCModels
  CpuSpecs  <- MCCpuSpecs
  MaxFiles  = 2
  Rates     = {20, 19, 12, 2}
  Step      = 2
  Late      = 1
  MinDt     = 2
  DefaultSoak = 8
  MinSoak   = 5
  MaxSoak   = 9
  Asked     = {0, 1, 20}
  Processes = 3
  Programs  <- MCPrograms
  SharedKb  = 7
  MaxMoves  = 2
  Machines   <- MCMachines
  Situations <- MCSituations
  Outcomes   <- MCOutcomes
  Comparisons <- MCComparisons
  Sizes      <- MCSizes
  LastMonth  = 24301
  Word       = 1000000
  ScrollMax  = 47
  Wide       <- MCWide
  Tallest    = 3
  Series     <- MCSeries
  Platforms  = {"linux disk", "linux ram", "elsewhere"}
INVARIANTS
  ThermalNeverHigh
  RescoreForgetsNothing
  FleetBaselineCentred
  WhyExplainsGrade
  FileOrderDoesNotMatter
  ReferencesAgree
  OnsetIffThrottled
  ScanAccountsForEveryone
  IdentityFollowsTheMachine
  BlamesWhatWasInForce
  AgeIsOfTheRun
  BothReportsCaution
  OnlyWrappingHidesRows
  CachedReadsOwnedUp
CHECK_DEADLOCK FALSE
