SPECIFICATION Spec
CONSTANTS
  Procs = {p1, p2}
  MaxVersion = 2
  Variants = {va, vb}
  Representable = {va}
  Jobs <- Polls
  NoJob = NoJob
  Outputs = {out}
  NoBundle = NoBundle
INVARIANTS
  TypeOK
  PathNamesCapturedVersion
  ReadyBundlesAreEvidence
PROPERTIES
  ReportsAreTrue
  ImplementsWriteOnceStore
  ExactPollsAreIdempotent
SYMMETRY Symmetry
