\* A core that sends HC_EVENT_TICK.
SPECIFICATION Spec
CONSTANTS
  Selector = selector
  Debugger = debugger
  Pool = {v1}
  MaxGames = 1
  CoreTicks = TRUE
PROPERTY FrontEndResponds
