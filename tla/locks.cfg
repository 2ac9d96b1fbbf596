SPECIFICATION FairSpec
CONSTANTS
  Threads <- Roles
  Locks <- DaemonLocks
  Nobody = nobody
  NoLock = nolock
  Programs <- Daemon
  Runs <- DaemonRuns
INVARIANTS TypeOK NoDeadlock SectionsExclude
PROPERTY OperationsEnd
