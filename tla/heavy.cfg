SPECIFICATION LiveSpec
CONSTANTS
  r1 = r1
  r2 = r2
  r3 = r3
  q1 = q1
  alice = alice
  bob = bob
  Requests = {r1, r2, r3, q1}
  Users = {alice, bob}
  Free = {alice}
  UserOf <- MCUserOf
  KindOf <- MCKindOf
  Model = Model
  Nobody = Nobody
  ModelSlots = 1
  UserQueue = 2
  ModelQueue = 1
  Allowance = 1
  MaxDay = 1
INVARIANTS GatesAreSound OneAtATime MeterIsHonest
PROPERTIES EveryoneServed
CHECK_DEADLOCK FALSE
