\* The cheats: three bytes; values of one and of two bytes, signed and unsigned.
\* find(): up to four bytes from 0 or from 1 on, every content, searched from
\* the first addresses and from behind the end.
SPECIFICATION SearchesSpec
CONSTANTS
  Base = 5
  Size = 3
  Byte = {1, 255}
  Operand <- Operands
  Setting <- Settings
  Operator = {"<", ">=", "=="}
  Octet = {0, 1}
  Bases = {0, 1}
  MaxSize = 4
  Limit = 5
  Sought <- Patterns
  Starts = {0, 1, 3, 6}
INVARIANTS
  WindowExact
  FoundAscends
  FindExact
PROPERTIES
  NextNarrows
  AlgebraHolds
