\* Clicks, Lua prompt and window close; console callbacks call the state
\* machine back, three calls deep; every front-end call but unload() may fail.
\* The views exercise one part each; a pad has both sticks and a trigger.
SPECIFICATION SessionSpec
CONSTANTS
  ReplMethods <- LuaNoQuit
  ScriptCalls <- SafeScriptCalls
  MayFail <- Refusable
  BurstQuits = FALSE
  MaxQuits = 2
  MaxDepth = 3
  Axis = {"LEFTX", "RIGHTX", "TRIGGERLEFT"}
  Button = {"LEFT", "RIGHT"}
  Level <- Levels
  Sensitivity = {0, 50}
  Key = {"LSHIFT"}
  Lockable = {"LSHIFT"}
  Locks = {"None", "LSHIFT"}
  Console = {1, 2}
  Initial = {2}
  MaxLists = 2
  MaxPile = 2
  Size = {1, 2}
  Ident = {"cpu"}
  MaxLeds = 1
  Parts = {"pad", "keyboard", "consoles", "audio", "video", "gauges"}
INVARIANTS
  Consistent
  NoGhostButtons
  ConsoleCalled
  MuteIsUsers
  DoneWhenQuit
  FrameFits
  NothingLeft
PROPERTIES
  CallsInProtocol
  EventsInOrder
  ImplementsLifeCycle
  QuitAllOrNothing
  QuitEndsLoop
  KeysHeard
