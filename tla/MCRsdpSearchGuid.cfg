SPECIFICATION Spec
CONSTANT MaxEntries = 5
INVARIANT FindsAcpi20
CHECK_DEADLOCK FALSE
