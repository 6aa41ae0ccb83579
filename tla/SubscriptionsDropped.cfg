SPECIFICATION Spec
CONSTANTS
  None = None
  Users = {u1}
  Subs = {s1}
  Hooks = {h1}
  MaxChanges = 1
  MaxOutages = 1
INVARIANT PaymentsReachAccount
CHECK_DEADLOCK FALSE
