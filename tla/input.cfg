\* Two controllers plugged in; two ports; two names, the virtual controller
\* sorts after one of them and with the other.
SPECIFICATION Spec
CONSTANTS
  Name = {1, 2}
  VirtualName = 2
  Plugs = 2
  Port = {0, 1}
  Announcement <- Announcements
  MaxTypes = 3
INVARIANTS
  PortsAlive
  PortsCoherent
  ExactUntilReplugged
PROPERTIES
  KeepsController
