SPECIFICATION FairSpec
CONSTANTS
  Requests = {r1, r2}
  Members = {self, away}
  Unreachable = {away}
  Updater = updater
  QueueCap = 1
INVARIANTS TypeOK NoHandlerAtLeave QuietRequestsAnswered
PROPERTIES EndsWhenCancelled QueuedAreTried
CHECK_DEADLOCK FALSE
