CONSTANTS
  Reloads = {"command", "watcher"}
  MaxChanges = 2
  MaxSeconds = 1
  MaxIncidents = 2
SPECIFICATION FairSpec
INVARIANTS TypeOK FlagOwned RecoveryRepeatable
PROPERTIES RecoversLastSaved EventuallyDurable OperationsEnd
