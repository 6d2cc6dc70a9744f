SPECIFICATION Spec
CONSTANTS
  Sync0 = 9
  Sync1 = 8
  MinLen = 1
  MaxLen = 3
  Payloads <- MCTricky
  Chatter = {0, 8}
  MaxBytes = 11
INVARIANTS
  ReadersAgree
  LossBounded
CHECK_DEADLOCK FALSE
