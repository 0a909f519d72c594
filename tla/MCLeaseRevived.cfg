SPECIFICATION Spec
CONSTANTS
    i1 = i1
    i2 = i2
    NoOne = NoOne
    Instance = {i1, i2}
    MaxGeneration = 2
    MaxLog = 1
PROPERTIES
    NoRevival
CHECK_DEADLOCK FALSE
