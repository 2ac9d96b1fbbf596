SPECIFICATION Spec
CONSTANTS
  Requests = {r1, r2}
  Members = {self, away}
  Unreachable = {away}
  Updater = updater
  QueueCap = 1
INVARIANT PostsAddJobs
CHECK_DEADLOCK FALSE
