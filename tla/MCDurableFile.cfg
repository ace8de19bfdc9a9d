CONSTANTS
  empty = empty
  one = one
  two = two
  Values <- Arrays
  Empty = empty
  MaxDamages = 1
SPECIFICATION Spec
INVARIANTS TypeOK TornIsRecoverable FileInvariant
PROPERTIES IsAtomic RecoveryCopyKept RecoveryKeepsContent
