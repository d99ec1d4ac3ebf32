CONSTANTS
  CaptureSees = {"after"}
  Depth = 16
  Jobs <- MCJobs
SPECIFICATION Spec
INVARIANTS TypeOK Lockstep NoOverrun Drained ProductStored
PROPERTY ImplementsMatMul
