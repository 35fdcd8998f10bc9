\* The collectors of Proxmox Backup Server, a Proxmox cluster and Docker.
SPECIFICATION FairSpec
CONSTANTS
  ServerTasks = 3
  JobRuns <- CJobRuns
  ServerListLimit = 3
  ClusterTasks = 3
  Backups <- CBackups
  ClusterListLimit = 3
  MaxEvents = 2
  Nameless <- CNameless
  Stores <- CStores
  Namespaces <- CNamespaces
  MaxGroups = 1
  GroupLimit = 2
  Nodes <- CNodes
  NodeID <- CNodeID
  NameRank <- CNameRank
  MaxEpochs = 2
  Guests <- CGuests
  Jobs <- CJobs
  Storages <- CStorages
  Services <- CServices
  Workers <- CWorkers
  Containers <- CContainers
  Images <- CImages
  Keys <- CKeys
  Fleets <- CFleets
  Refs <- CRefs
  Hub = "hub"
  Digests <- CDigests
  MaxLocal = 2
INVARIANTS
  EventsOnce
  NothingInvented
  OneReporter
  CephCurrent
  ResultsComplete
  OneSeries
PROPERTIES
  CatchesUp
  TakesOver
  PoolReturns
\* A scan, a phase and a collection end.
CHECK_DEADLOCK FALSE
