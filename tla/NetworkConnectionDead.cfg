CONSTANT MaxPosts = 1
SPECIFICATION Spec
PROPERTY DeadIsForever
CHECK_DEADLOCK FALSE
