SPECIFICATION MCSpec
CONSTANT Designs = {"slow"}
INVARIANT SlotNeverStuck
CHECK_DEADLOCK FALSE
