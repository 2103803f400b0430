SPECIFICATION Spec
CONSTANTS
  MaxVersion = 2
  Families = {"chrome", "safari"}
  DeveloperTargets <- Written
  Variants = {va}
  Handmade = Handmade
  Legacy <- FirstProfiles
  PatchedTargets <- Patched
  MaxCommits = 3
  MaxTags = 0
INVARIANTS
  TypeOK
  CommittedAsReplayed
  ChromeSetsAreWhole
  TagsAreOrdered
PROPERTIES
  HarvestsOnlyAdd
