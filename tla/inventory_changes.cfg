CONSTANTS
  Order <- MCOrder
  Top = "root"
  Roots <- MCRoots
  Parent <- MCParent
  Kind <- MCKind
  Git <- MCGit
  Extension <- MCExtension
  Content <- MCContent
  Barriers <- MCBarriers
  MaxChanges = 2
SPECIFICATION FairSpec
INVARIANTS
  TypeOK
  CountsWhatStays
  FailsOnlyWhenDisturbed
PROPERTY WalkEnds
