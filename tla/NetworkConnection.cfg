CONSTANT MaxPosts = 2
SPECIFICATION FairSpec
INVARIANTS SetStateOneShot StopIsClean
PROPERTIES DeadUnlessStopped StopEnds LossEndsBoth
CHECK_DEADLOCK FALSE
