SPECIFICATION STASpec
CONSTANTS
  Callers = {c1, c2, c3}
INVARIANTS
  RunsLiveTask
