SPECIFICATION Spec
CONSTANT N = 5
INVARIANTS SessionInv NoLostWakeup
PROPERTY SessionCompletes
CHECK_DEADLOCK FALSE
