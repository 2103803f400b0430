SPECIFICATION Spec
CONSTANTS
  Procs = {p1}
  MaxVersion = 2
  Variants = {va, vb}
  Representable = {va}
  Outputs = {out}
  Jobs <- ByHand
  NoJob = NoJob
  NoBundle = NoBundle
INVARIANTS
  ReadyBundlesAreEvidence
PROPERTIES
  EveryCommandEnds
