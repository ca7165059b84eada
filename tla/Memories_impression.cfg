SPECIFICATION Spec
CONSTANTS
  Workers = {w1}
  FactTypes = {project, job_progress}
  Impression = relationship_state
  acme = acme
  friday = friday
  both = both
  Topics = {acme, friday, both}
  Similar <- Alike
  Related <- Alike
  Keep = keep
  MaxId = 2
SYMMETRY MemorySymmetry
PROPERTIES ImpressionNeverArchived
CHECK_DEADLOCK FALSE
