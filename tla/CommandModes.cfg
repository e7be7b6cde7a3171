CONSTANTS
  shoulder = shoulder
  elbow = elbow
  trajectory = trajectory
  forward = forward
  freedrive = freedrive
  shoulderOnly = shoulderOnly
  elbowOnly = elbowOnly
  Joints <- MCJoints
  FirstJoint = shoulder
  Controllers = {trajectory, forward, freedrive, shoulderOnly, elbowOnly}
  ModeOf <- MCModeOf
  JointsOf <- MCJointsOf
SPECIFICATION Spec
INVARIANTS
  ModesInv
  NoAbandonedTarget
