CONSTANTS
  Files = {f1, f2}
  Twice = f1
  Spelling = Spelling
  Names <- MCNames
  FileOf <- MCFileOf
  Outside = Outside
  Readers = {r1, r2}
  Capacity = 2
  MaxLength = 2
  MaxChanges = 1
  MaxNodes = 5
SPECIFICATION Spec
INVARIANT NoNullWrite
CHECK_DEADLOCK FALSE
