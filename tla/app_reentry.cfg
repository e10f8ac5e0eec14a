\* A callback that ejects the game it has just seen start.
SPECIFICATION Spec
CONSTANTS
  ReplMethods <- LuaNoQuit
  ScriptCalls <- EjectOnStart
  MayFail <- NoCalls
  BurstQuits = FALSE
  MaxQuits = 1
  MaxDepth = 2
INVARIANT Consistent
