SPECIFICATION Spec
CONSTANTS
    Instance = {a, b}
    Null = Null
PROPERTIES
    RequestConnects
\* Each instance asks once.
CHECK_DEADLOCK FALSE
