CONSTANTS
  CaptureSees = {"before", "after"}
  Depth = 16
  Jobs <- MCJobs
SPECIFICATION Spec
INVARIANT RaceConfined
