SPECIFICATION FixturesSpec
CONSTANTS
  Pools = {swarm, reask}
  Guarded = {swarm, reask}
  LastAddress = 4
  Preassigned = {1}
  Count = 2
  OriginalDad = 3
  MaxFailures = 1
  MaxCrashes = 1
  Parents = {a, b}
  Routable = TRUE
  Targets = {mfc, rust}
  MaxHellos = 5
  Searches = {first, second}
  Live = {h1, h2, h3}
  Waves = 2
  MaxConcurrent = 2
  Synthetic = {"link"}
  PerSearch = 2
  MaxActive = 2
  BatchSize = 1
  RemoveCount = 1
  MaxMissing = 5
  Target = 1
  Window = 4
INVARIANTS
  OwnOnly
  InterfaceRestored
  PublisherSound
  CallbackSound
  StressSound
SYMMETRY StressSymmetry
CHECK_DEADLOCK FALSE
