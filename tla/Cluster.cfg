SPECIFICATION ClusterFairSpec
CONSTANTS
    Worker = {w1, w2, w3}
INVARIANTS CountsNoGhost ReadyMeansAll ExitsStop
PROPERTIES ReadyOnce DeathReported
CHECK_DEADLOCK FALSE
