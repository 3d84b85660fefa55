CONSTANT MaxPn = 5
SPECIFICATION FateSpec
PROPERTY AckedAreNotLost
CHECK_DEADLOCK FALSE
