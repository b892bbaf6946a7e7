SPECIFICATION Spec
CONSTANTS
  math = math
  explore = explore
  front = front
  general1 = general1
  general2 = general2
  coding = coding
  Call <- MCCall
  RoleOf <- MCRoleOf
  PriorityOf <- MCPriorityOf
  WorkerOf <- MCWorkerOf
  PrimitivesOf <- MCWorkerOf
  Asked <- MCAsked
  Threshold = 1
  BaseCooldown = 1
  MaxCooldown = 1
INVARIANTS
  HeavyHasTheCPU
