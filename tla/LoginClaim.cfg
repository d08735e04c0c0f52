SPECIFICATION Spec
INVARIANT AllNineBecomeNull
CHECK_DEADLOCK FALSE
