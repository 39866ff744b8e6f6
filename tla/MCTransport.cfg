SPECIFICATION Spec
CONSTANTS
  MaxMessages = 2
  MaxStale = 1
INVARIANTS TypeOK NothingSkipped OneTurnAtRisk
PROPERTIES TurnsInOrder NeverBackwards EveryTurnTaken
