SPECIFICATION Spec
CONSTANTS
  MaxId = 3
  MaxBefore = 1
  MaxHovered = 2
  TreeSizes = {2, 3}
INVARIANT LinksJoinNodes
INVARIANT SavedAsDrawn
INVARIANT VerifiedFilesWork
