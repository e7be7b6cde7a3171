CONSTANT Components = {arm}
SPECIFICATION FairSpec
PROPERTY LoopDeathEndsNode
CHECK_DEADLOCK FALSE
