SPECIFICATION Spec
CONSTANTS
  up = up
  down = down
  rare = rare
  Modes <- AllModes
  HandledModes <- TwoModes
  CycleMs = 6
  SegmentChoices <- AtMostTwoSegments
  PatternChoices <- Patterns
  Horizon = 13
INVARIANTS
  StateMatchesLayout
  NextMatchesLayout
  AwakeInOwnWindowOnly
  RefusedOnlyAtCut
CHECK_DEADLOCK FALSE
