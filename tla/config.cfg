\* Two keys, up to five options with up to three values, a script's index one
\* too large; words of three bits, regions of up to three blocks.
SPECIFICATION Spec
CONSTANTS
  k1 = k1
  k2 = k2
  low = low
  high = high
  Key = {k1, k2}
  Value = {low, high}
  Unread = Unread
  Announcement <- Announcements
  MaxOptions = 5
  MaxIndex = 3
  Word = 8
  Host = {10, 20, 30}
  Null = Null
  Table <- Tables
  MaxBlocks = 3
INVARIANTS
  TypeOK
  KeysFindOptions
  Informed
  AccessExact
