\* hc.control:quit() from the Lua prompt.
SPECIFICATION Spec
CONSTANTS
  ReplMethods <- LuaMethods
  ScriptCalls <- NoCalls
  MayFail <- NoCalls
  BurstQuits = FALSE
  MaxQuits = 1
  MaxDepth = 1
PROPERTY QuitEndsLoop
