CONSTANTS
  t1 = t1  t2 = t2
  NoFile = NoFile
  Trigger = {t1, t2}
  Delivery = {1, 2}
  Of <- MCOf
  MaxAttempts = 2
  BatchSize = 2
  MaxFaults = 3
SPECIFICATION TriggerFairSpec
INVARIANTS OneCopy TurnsBounded
PROPERTIES ImplementsQueue DeliverySettles
CHECK_DEADLOCK FALSE
