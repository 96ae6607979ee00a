CONSTANTS
  Files = {f1, f2}
  Twice = f1
  Spelling = Spelling
  Names <- MCNames
  FileOf <- MCFileOf
  Outside = Outside
  Readers = {r1}
  Capacity = 2
  MaxLength = 3
  MaxChanges = 2
  MaxNodes = 5
SPECIFICATION Spec
INVARIANTS TypeOK ListWhole SizeIsSum MapMatchesEntries CachedIsCurrent NullOnlyWhenGrown
PROPERTY ImplementsRecency
CHECK_DEADLOCK FALSE
