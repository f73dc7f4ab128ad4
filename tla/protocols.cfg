SPECIFICATION MCSpec
CONSTANT Designs = {"rev", "slot", "round"}
INVARIANTS
  RevNothingLeftBehind RevWitnessedHistory RevProposesForBetterTop
  SlotAppendedByVotes RoundElectsBest
PROPERTIES  RoundsProgress
CHECK_DEADLOCK FALSE
