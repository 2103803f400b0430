SPECIFICATION Spec
CONSTANTS
  Procs = {p1, p2, p3}
  Archives = {whole, cut}
  Sound = {whole}
  NoArchive = NoArchive
  NoManifest = NoManifest
INVARIANTS
  TypeOK
  ServedIsWhole
PROPERTIES
  ImplementsWriteOnceStore
  EveryDownloadEnds
