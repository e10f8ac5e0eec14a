\* One controller plugged in, unplugged, and another one after it.
SPECIFICATION Spec
CONSTANTS
  Name = {1}
  VirtualName = 2
  Plugs = 2
  Port = {0}
  Announcement <- Announcements
  MaxTypes = 2
INVARIANTS
  HotPlugExact
