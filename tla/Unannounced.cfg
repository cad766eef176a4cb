SPECIFICATION Spec
CONSTANTS
  r1 = r1
  r2 = r2
  done = done
  late = late
  backlog = backlog
  Units = {1, 2}
  Starts <- MCQueued
  Requests = {r1, r2}
  Hooks = {done, late, backlog}
  EventOf <- MCEventOf
  Registered = {done, backlog}
  Threshold = 2
  Attempts = 2
  MaxEvents = 0
  Flaky = {}
  None = None
CHECK_DEADLOCK FALSE
INVARIANTS
  CompletionAnnounced
