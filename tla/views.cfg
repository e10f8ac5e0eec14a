\* Two windows or Lua objects, two games, every order of drawing.
SPECIFICATION Spec
CONSTANTS
  Selector = selector
  Debugger = debugger
  Pool = {v1, v2}
  MaxGames = 2
  CoreTicks = TRUE
INVARIANTS
  NoStaleReads
PROPERTIES
  UsesHandleTable
  DrawingEnds
  DeadWatchesGo
