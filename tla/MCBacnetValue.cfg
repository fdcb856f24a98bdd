CONSTANTS
  a = a
  Callers = {c1, c2}
  Batcher = c2
  AppValues <- MCAppValues
  Inputs <- MCInputs
  NUL = NUL
  Characters = {NUL, a}
  WordBits = 3
  ByteBits = 2
  FlagBits = 1
  StringLimit = 3
  NULL = NULL
  Unset = Unset
  Garbage = Garbage
  Nothing = Nothing
  MaxChanges = 2
  MaxBuffers = 2
SPECIFICATION Spec
INVARIANTS
  HeldStringIsSent
  ReadBackIsWritten
  FieldIsProperty
