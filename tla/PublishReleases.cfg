SPECIFICATION Spec
CONSTANTS
  MaxVersion = 2
  Families = {"android"}
  DeveloperTargets <- WrittenOne
  Variants = {va}
  Handmade = Handmade
  Legacy <- FirstProfiles
  PatchedTargets <- Patched
  MaxCommits = 3
  MaxTags = 1
INVARIANTS
  TagsAreOrdered
PROPERTIES
  EveryProfileIsReleased
