SPECIFICATION Spec
CONSTANTS
    MaxLost = 1
    MaxFaults = 2
INVARIANTS MediaIsKeyed ControllersAgree
PROPERTIES MediaStarts
CHECK_DEADLOCK FALSE
