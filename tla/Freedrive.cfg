CONSTANTS
  shoulder = shoulder
  trajectory = trajectory
  forward = forward
  Joints = {shoulder}
  FirstJoint = shoulder
  Freedriver = freedrive
  Controllers = {trajectory, forward, freedrive}
  ModeOf <- MCModeOf
  JointsOf <- MCJointsOf
SPECIFICATION FreedriveSpec
INVARIANTS
  ArmFollows
PROPERTIES
  RefinesModes
  StopObeyed
