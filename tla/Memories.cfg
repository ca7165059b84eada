SPECIFICATION Spec
CONSTANTS
  Workers = {w1, w2}
  FactTypes = {project, job_progress}
  Impression = relationship_state
  acme = acme
  friday = friday
  both = both
  Topics = {acme, friday, both}
  Similar <- Alike
  Related <- Alike
  Keep = keep
  MaxId = 2
SYMMETRY MemorySymmetry
INVARIANTS LinksClean
PROPERTIES NewFactsUnlikeOldUnlessStale WordsStayCloseUnlessStale JobsLeaveFactsUnlessStale
CHECK_DEADLOCK FALSE
