SPECIFICATION Spec
CONSTANTS
  math = math
  explore = explore
  front = front
  general1 = general1
  general2 = general2
  coding = coding
  Call <- MCLightCall
  RoleOf <- MCLightRoleOf
  PriorityOf <- MCLightPriorityOf
  WorkerOf <- MCLightWorkerOf
  PrimitivesOf <- MCLightWorkerOf
  Asked <- MCLightAsked
  Threshold = 1
  BaseCooldown = 1
  MaxCooldown = 1
PROPERTIES
  EraseSparesOthers
