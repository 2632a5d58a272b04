\* The process ends, and no step follows.
SPECIFICATION Spec
CHECK_DEADLOCK FALSE
INVARIANT NothingFreedInUse
PROPERTY RunEnds
