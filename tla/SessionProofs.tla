--------------------------- MODULE SessionProofs ---------------------------
(***************************************************************************)
(* Proofs about Session, for any controllers, keys, consoles, sizes and    *)
(* names, whatever the user, the core and the scripts do.                  *)
(*                                                                         *)
(* A session is a behaviour of Application, so that what is proved of its  *)
(* steps holds here: Chain, the shape of the call stack, tells which core  *)
(* a handler finds when its event reaches the views.                       *)
(***************************************************************************)
EXTENDS Session, ApplicationProofs, FiniteSetTheorems

-----------------------------------------------------------------------------
(* Every step of a session is a step of the application.                   *)
LEMMA SessionMove ==
  ASSUME SessionNext
  PROVE  Next
<1>0. "loadCore" \in LC!Method
  BY DEF LC!Method
<1>1. CASE PollInput \/ LoopFrame \/ StepFrame
  BY <1>1 DEF PollInput, LoopFrame, StepFrame, Next, LoopStep, LifeCycleStep
<1>2. CASE LoadsCore \/ LoadsGame \/ Unloads \/ HandlerEnds
  BY <1>2 DEF LoadsCore, LoadsGame, Unloads, HandlerEnds, Next, LifeCycleStep
<1>3. CASE Draws
  BY <1>0, <1>3 DEF Draws, Clicks, Next, LoopStep
<1>4. CASE Others
  BY <1>4 DEF Others, Next, LoopStep, LifeCycleStep
<1> QED BY <1>1, <1>2, <1>3, <1>4 DEF SessionNext

LEMMA SessionStep ==
  ASSUME [SessionNext]_sessionVars
  PROVE  [Next]_vars
BY SessionMove DEF sessionVars

(* A session does nothing that the application alone does not: the views   *)
(* listen to it, and what they add to its state never moves it.            *)
THEOREM SessionIsApplication == SessionSpec => Runs
<1>1. SessionInit => Init
  BY DEF SessionInit
<1> QED BY <1>1, SessionStep, PTL DEF SessionSpec, Runs

LEMMA SessionChain ==
  ASSUME ConsiderateScripts
  PROVE  SessionSpec => [](TypeOK /\ Chain)
BY SessionIsApplication, RunsChain, PTL

(* What is proved of the application holds of it in a session: the machine *)
(* and the loop agree about the core and the timer, a quit() ends where it *)
(* must, the views hear of every change in order, and every assignment to  *)
(* the state is one the diagram has.                                       *)
THEOREM SessionInherits ==
  ASSUME ConsiderateScripts, CoreUnloads
  PROVE  SessionSpec => /\ []Consistent /\ CallsInProtocol /\ QuitAllOrNothing
                        /\ ImplementsLifeCycle /\ EventsInOrder /\ AssignmentsAllowed
BY SessionIsApplication, RunsConsistent, RunsCallsInProtocol, RunsQuitAllOrNothing,
   RunsImplementsLifeCycle, RunsEventsInOrder, RunsAssignmentsAllowed, PTL

-----------------------------------------------------------------------------
(* What a step of a session is to each of the views.                       *)
LEMMA StepOfPads ==
  ASSUME [SessionNext]_sessionVars
  PROVE  [PadsNext]_padsVars
BY DEF SessionNext, sessionVars, partsVars, Quiet, PollInput, LoopFrame, StepFrame,
       CoreRuns, LoadsCore, LoadsGame, Unloads, HandlerEnds, Draws, Clicks,
       Widget, Close, Others, PadsOnly, KeyboardOnly, ConsolesOnly, AudioOnly,
       VideoOnly, GaugesOnly, PadsNext

KeyboardNext ==
  \/ KeyboardEvent \/ KeyboardWidget
  \/ SetKeyboardCallback \/ CallbackOutlives \/ Poll

LEMMA StepOfKeyboard ==
  ASSUME [SessionNext]_sessionVars
  PROVE  [KeyboardNext]_keyboardVars
BY DEF SessionNext, sessionVars, partsVars, Quiet, PollInput, LoopFrame, StepFrame,
       CoreRuns, LoadsCore, LoadsGame, Unloads, HandlerEnds, Draws, Clicks,
       Widget, Close, Others, PadsOnly, KeyboardOnly, ConsolesOnly, AudioOnly,
       VideoOnly, GaugesOnly, KeyboardNext

-----------------------------------------------------------------------------
LEMMA Int16Is ==
  /\ Int16 \subseteq Int /\ 0 \in Int16 /\ 32767 \in Int16 /\ -32767 \in Int16
BY DEF Int16

(* What the handler of an axis event presses is a button of that axis, and *)
(* the axis is off its centre toward it.                                   *)
LEMMA PointedIs ==
  ASSUME PadsTypeOK, NEW a \in Axis, NEW v \in Level, a \in Trigger => v >= 0
  PROVE  /\ Pointed(a, v) \in Ends \union {None}
         /\ Beyond(v) => /\ Pointed(a, v) \in Ends
                         /\ \/ v > 0 /\ Pointed(a, v) = Positive[a]
                            \/ v < 0 /\ Pointed(a, v) = Negative[a]
<1>1. sensitivity \in 0..100
  BY PadsAssumption DEF PadsTypeOK
<1>2. (32767 * (100 - sensitivity)) \div 100 \in Nat
  <2>1. 32767 * (100 - sensitivity) \in Nat
    BY <1>1
  <2> QED BY <2>1
<1>3. Threshold \in Nat
  BY <1>2 DEF Threshold
<1>4. Positive[a] \in Ends /\ Negative[a] \in Ends
  BY DEF Ends
<1>5. v \in Int
  BY PadsAssumption, Int16Is
<1>6. ASSUME Beyond(v)
      PROVE  (v > 0 /\ Pointed(a, v) = Positive[a]) \/ (v < 0 /\ Pointed(a, v) = Negative[a])
  BY <1>3, <1>5, <1>6 DEF Beyond, Pointed
<1> QED BY <1>4, <1>6 DEF Pointed

(* What the virtual controller holds of the axes the arrows do not move.   *)
Arrows == {"LEFTX", "LEFTY"}

LEMMA ArrowEnds ==
  ASSUME NEW a \in Arrows
  PROVE  Positive[a] # Negative[a]
BY DEF Arrows, Positive, Negative

(* A button that is pressed has a switch that is down, or an axis that     *)
(* wrote it last and has not been looked at since or is still off centre.  *)
Supported(b) ==
  \/ b \in held
  \/ \E a \in Axis : lastDir[a] = b /\ (a \in unheard \/ Toward(a, b))

Played ==
  /\ pressed = held
  /\ unheard = {}
  /\ \A a \in Axis : a \notin Arrows => analogs[a] = 0
  /\ \A a \in Axis, b \in Ends : Toward(a, b) => b \in held

PInv ==
  /\ PadsTypeOK
  /\ IF virtual THEN Played ELSE \A b \in pressed : Supported(b)

LEMMA PadsInitInv == PadsInit => PInv
<1> SUFFICES ASSUME PadsInit PROVE PInv
  OBVIOUS
<1>1. /\ \A a \in Axis : analogs[a] = 0
      /\ pressed = {} /\ held = {} /\ unheard = {}
  BY DEF PadsInit
<1>2. /\ analogs \in [Axis -> Int16]
      /\ lastDir \in [Axis -> Ends \union {None}]
      /\ sensitivity \in Sensitivity
  BY PadsAssumption, Int16Is DEF PadsInit
<1>3. PadsTypeOK
  BY <1>1, <1>2 DEF PadsInit, PadsTypeOK
<1>4. Played
  BY <1>1 DEF Played, Toward
<1> QED BY <1>1, <1>3, <1>4 DEF PInv

LEMMA ButtonEventInv ==
  ASSUME PInv, NEW b \in Button, ButtonEvent(b)
  PROVE  PInv'
<1>1. PadsTypeOK'
  BY DEF PInv, PadsTypeOK, ButtonEvent
<1>2. ASSUME NEW c \in pressed'
      PROVE  Supported(c)'
  <2>1. c \in held' \/ (c \in pressed /\ c \notin held)
    BY <1>2 DEF ButtonEvent, PInv
  <2> QED BY <2>1 DEF ButtonEvent, PInv, Supported, Toward
<1> QED BY <1>1, <1>2 DEF PInv, ButtonEvent

LEMMA AxisEventInv ==
  ASSUME PInv, NEW a \in Axis, NEW v \in Level, AxisEvent(a, v)
  PROVE  PInv'
<1>1. /\ v \in Int16 /\ v \in Int
      /\ analogs' = [analogs EXCEPT ![a] = v]
      /\ ~virtual /\ UNCHANGED <<virtual, digital, sensitivity, held>>
      /\ a \in Trigger => v >= 0
      /\ PadsTypeOK
  BY PadsAssumption, Int16Is DEF AxisEvent, PInv
<1>2. analogs'[a] = v /\ \A c \in Axis \ {a} : analogs'[c] = analogs[c]
  BY <1>1 DEF PadsTypeOK
<1>3. CASE digital
  <2> DEFINE p == Pointed(a, v)
  <2>1. /\ p \in Ends \union {None}
        /\ Beyond(v) => /\ p \in Ends
                        /\ \/ v > 0 /\ p = Positive[a]
                           \/ v < 0 /\ p = Negative[a]
    BY <1>1, PointedIs
  <2>2. /\ pressed' = (pressed \ {lastDir[a]}) \union (IF Beyond(v) THEN {p} ELSE {})
        /\ lastDir' = [lastDir EXCEPT ![a] = p]
        /\ unheard' = unheard \ {a}
    BY <1>3 DEF AxisEvent
  <2> HIDE DEF p
  <2>3. lastDir'[a] = p /\ \A c \in Axis \ {a} : lastDir'[c] = lastDir[c]
    BY <1>1, <2>2 DEF PadsTypeOK
  <2>4. PadsTypeOK'
    <3>1. analogs' \in [Axis -> Int16] /\ lastDir' \in [Axis -> Ends \union {None}]
      BY <1>1, <2>1, <2>2 DEF PadsTypeOK
    <3>2. pressed' \subseteq Button \union Ends
      BY <1>1, <2>1, <2>2 DEF PadsTypeOK
    <3> QED BY <1>1, <2>2, <3>1, <3>2 DEF PadsTypeOK
  <2>5. ASSUME NEW b \in pressed'
        PROVE  Supported(b)'
    <3>1. CASE Beyond(v) /\ b = p
      BY <1>2, <2>1, <2>3, <3>1 DEF Supported, Toward
    <3>2. CASE b \in pressed /\ b # lastDir[a]
      <4>1. Supported(b)
        BY <1>1, <3>2 DEF PInv
      <4> QED BY <1>1, <1>2, <2>2, <2>3, <3>2, <4>1 DEF Supported, Toward
    <3> QED BY <2>2, <2>5, <3>1, <3>2
  <2> QED BY <1>1, <2>4, <2>5 DEF PInv
<1>4. CASE ~digital
  <2>1. unheard' = unheard \union {a} /\ UNCHANGED <<pressed, lastDir>>
    BY <1>4 DEF AxisEvent
  <2>2. PadsTypeOK'
    BY <1>1, <2>1 DEF PadsTypeOK
  <2>3. ASSUME NEW b \in pressed'
        PROVE  Supported(b)'
    <3>1. Supported(b)
      BY <1>1, <2>1, <2>3 DEF PInv
    <3> QED BY <1>1, <1>2, <2>1, <3>1 DEF Supported, Toward
  <2> QED BY <1>1, <2>2, <2>3 DEF PInv
<1> QED BY <1>3, <1>4

LEMMA VirtualKeyInv ==
  ASSUME PInv, NEW b \in Button, VirtualKey(b)
  PROVE  PInv'
<1> DEFINE down == b \notin held
<1>1. /\ virtual /\ Played /\ PadsTypeOK
      /\ held' = (IF down THEN held \union {b} ELSE held \ {b})
      /\ pressed' = (IF down THEN pressed \union {b} ELSE pressed \ {b})
      /\ UNCHANGED <<virtual, lastDir, digital, sensitivity, unheard>>
      /\ DOMAIN analogs' = Axis
      /\ \A a \in Axis :
           analogs'[a] = IF a \in Arrows /\ b \in {Positive[a], Negative[a]}
                         THEN ArrowValue(a, b, down) ELSE analogs[a]
  BY DEF VirtualKey, PInv, Arrows
<1> HIDE DEF down
<1>2. analogs' \in [Axis -> Int16]
  <2>1. ASSUME NEW a \in Axis
        PROVE  analogs'[a] \in Int16
    BY <1>1, Int16Is DEF PadsTypeOK, ArrowValue
  <2>2. analogs' = [a \in Axis |-> analogs'[a]]
    BY DEF VirtualKey
  <2> QED BY <2>1, <2>2
<1>3. PadsTypeOK'
  BY <1>1, <1>2 DEF PadsTypeOK
<1>4. ASSUME NEW a \in Axis, a \notin Arrows
      PROVE  analogs'[a] = 0
  BY <1>1, <1>4 DEF Played
<1>5. ASSUME NEW a \in Axis, NEW c \in Ends, Toward(a, c)'
      PROVE  c \in held'
  <2>1. a \in Arrows
    BY <1>4, <1>5 DEF Toward
  <2>2. c \in {Positive[a], Negative[a]}
    BY <1>5 DEF Toward
  <2>3. CASE b \in {Positive[a], Negative[a]}
    <3>1. analogs'[a] = ArrowValue(a, b, down)
      BY <1>1, <2>1, <2>3
    <3>2. down /\ c = b
      BY <1>5, <2>1, <2>3, <3>1, ArrowEnds DEF ArrowValue, Toward
    <3> QED BY <1>1, <3>2
  <2>4. CASE b \notin {Positive[a], Negative[a]}
    <3>1. analogs'[a] = analogs[a]
      BY <1>1, <2>4
    <3>2. c \in held /\ c # b
      BY <1>1, <1>5, <2>2, <2>4, <3>1 DEF Played, Toward
    <3> QED BY <1>1, <3>2
  <2> QED BY <2>3, <2>4
<1>6. pressed' = held' /\ unheard' = {}
  BY <1>1 DEF Played
<1> QED BY <1>1, <1>3, <1>4, <1>5, <1>6 DEF PInv, Played

LEMMA PadsNextInv == PInv /\ [PadsNext]_padsVars => PInv'
<1> SUFFICES ASSUME PInv, [PadsNext]_padsVars PROVE PInv'
  OBVIOUS
<1>1. CASE PadWidget \/ UNCHANGED padsVars
  <2>1. /\ sensitivity' \in Sensitivity /\ digital' \in BOOLEAN
        /\ UNCHANGED <<virtual, pressed, analogs, lastDir, held, unheard>>
    BY <1>1 DEF PadWidget, CheckDigital, SlideSensitivity, padsVars, PInv, PadsTypeOK
  <2> QED BY <2>1 DEF PInv, PadsTypeOK, Played, Supported, Toward
<1>2. CASE PadEvent
  BY <1>2, ButtonEventInv, AxisEventInv, VirtualKeyInv DEF PadEvent
<1> QED BY <1>1, <1>2 DEF PadsNext

LEMMA SessionPads == SessionSpec => []PInv
<1>1. SessionInit => PInv
  BY PadsInitInv DEF SessionInit
<1> QED BY <1>1, PadsNextInv, StepOfPads, PTL DEF SessionSpec

(* The core never sees a button that nobody presses, for any controller,   *)
(* sensitivity and order of events and clicks.                             *)
THEOREM SessionNoGhostButtons == SessionSpec => []NoGhostButtons
<1>1. PInv => NoGhostButtons
  <2> SUFFICES ASSUME PInv PROVE NoGhostButtons
    OBVIOUS
  <2>1. ASSUME NEW b \in Button \union Ends, JoypadState(b) # 0
        PROVE  \/ b \in held
               \/ \E a \in Axis : Toward(a, b) \/ (a \in unheard /\ lastDir[a] = b)
    <3>1. b \in pressed
      BY <2>1 DEF JoypadState
    <3> QED BY <3>1 DEF PInv, Played, Supported
  <2> QED BY <2>1 DEF PInv, Played, NoGhostButtons
<1> QED BY <1>1, SessionPads, PTL

-----------------------------------------------------------------------------
(* What a core was told is what Input::poll() noted, but for the keys that *)
(* were noted before it gave its callback.                                 *)
KInv == KeyboardTypeOK /\ HeardKnown

LEMMA KeyboardInitInv == KeyboardInit => KInv
<1> SUFFICES ASSUME KeyboardInit PROVE KInv
  OBVIOUS
<1>1. lock \in [1..2 -> Locks]
  BY KeyboardAssumption DEF KeyboardInit
<1> QED BY <1>1 DEF KeyboardInit, KInv, KeyboardTypeOK, HeardKnown, Callback

LEMMA PollHears ==
  ASSUME KInv, Poll
  PROVE  /\ KInv'
         /\ callback = "live" => heard' = keyState' \ carried'
BY DEF KInv, Poll, Changed, KeyboardTypeOK, HeardKnown

LEMMA KeyboardNextInv == KInv /\ [KeyboardNext]_keyboardVars => KInv'
<1> SUFFICES ASSUME KInv, [KeyboardNext]_keyboardVars PROVE KInv'
  OBVIOUS
<1>1. CASE KeyboardEvent \/ KeyboardWidget \/ UNCHANGED keyboardVars
  <2>1. /\ keyState' \subseteq Key /\ clicked' \subseteq Key
        /\ UNCHANGED <<known, callback, heard, carried>>
    BY <1>1 DEF KeyboardEvent, KeyEvent, ClickEnds, KeyboardWidget, ClickKey,
                SetLock, keyboardVars, KInv, KeyboardTypeOK
  <2>2. lock' \in [1..2 -> Locks]
    BY <1>1 DEF KeyboardEvent, KeyEvent, ClickEnds, KeyboardWidget, ClickKey,
                SetLock, keyboardVars, KInv, KeyboardTypeOK
  <2> QED BY <2>1, <2>2 DEF KInv, KeyboardTypeOK, HeardKnown
<1>2. CASE SetKeyboardCallback \/ CallbackOutlives
  BY <1>2 DEF SetKeyboardCallback, CallbackOutlives, KInv, KeyboardTypeOK,
              HeardKnown, Callback
<1>3. CASE Poll
  BY <1>3, PollHears
<1> QED BY <1>1, <1>2, <1>3 DEF KeyboardNext

LEMMA SessionKeyboard == SessionSpec => []KInv
<1>1. SessionInit => KInv
  BY KeyboardInitInv DEF SessionInit
<1> QED BY <1>1, KeyboardNextInv, StepOfKeyboard, PTL DEF SessionSpec

(* The loop runs a frame in LoopFrame only.                                *)
LEMMA FrameStep ==
  ASSUME [SessionNext]_sessionVars, phase = "frame", phase' = "running"
  PROVE  LoopFrame
<1>1. ~LifeCycleStep
  BY PhaseOfLifeCycleStep
<1>2. ~UNCHANGED phase
  OBVIOUS
<1>3. ~PollInput /\ ~StepFrame /\ ~LoadsCore /\ ~LoadsGame /\ ~Unloads /\ ~HandlerEnds
  BY <1>1 DEF PollInput, EndPoll, StepFrame, LoadsCore, LoadsGame, Unloads,
              HandlerEnds, LifeCycleStep
<1>4. ~Draws
  BY DEF Draws, Clicks, UserCall, EndDraw
<1>5. ~Others
  BY <1>1 DEF Others, PollQuit, QuitPolled, FrameRun, NoFrame, Exited, vars,
              LifeCycleStep
<1> QED BY <1>2, <1>3, <1>4, <1>5 DEF SessionNext, sessionVars, vars

(* A core that gave a callback knows after each of its frames which keys   *)
(* are down, whatever was pressed, clicked and locked in between.          *)
THEOREM SessionKeysHeard == SessionSpec => KeysHeard
<1> DEFINE P == (phase = "frame" /\ phase' = "running" /\ part = "keyboard" /\ callback = "live")
                => /\ heard' = keyState' \ carried'
                   /\ \A k \in heard' : KeyboardState(k) # 0
<1>1. ASSUME KInv, [SessionNext]_sessionVars
      PROVE  P
  <2> SUFFICES ASSUME phase = "frame", phase' = "running", part = "keyboard",
                      callback = "live"
               PROVE  /\ heard' = keyState' \ carried'
                      /\ \A k \in heard' : KeyboardState(k) # 0
    OBVIOUS
  <2>1. Poll
    BY <1>1, FrameStep DEF LoopFrame, CoreRuns, KeyboardOnly
  <2>2. heard' = keyState' \ carried' /\ keyState' = keyState
    BY <1>1, <2>1, PollHears DEF Poll
  <2> QED BY <2>2 DEF KeyboardState, GetKey
<1>2. KInv /\ [SessionNext]_sessionVars => [P]_sessionVars
  BY <1>1
<1> QED BY <1>2, SessionKeyboard, PTL DEF SessionSpec, KeysHeard

-----------------------------------------------------------------------------
(* The types of the other views' state.                                    *)
ConsolesNext ==
  \/ AppendExtensions \/ CloseConsole
  \/ \E c \in Console : AddConsole(c) \/ ChooseConsole(c) \/ OpenConsole(c)

LEMMA StepOfConsoles ==
  ASSUME [SessionNext]_sessionVars
  PROVE  [ConsolesNext]_consolesVars
BY DEF SessionNext, sessionVars, partsVars, Quiet, PollInput, LoopFrame, StepFrame,
       CoreRuns, LoadsCore, LoadsGame, Unloads, HandlerEnds, ControlHears, Draws,
       Clicks, Widget, Close, Others, PadsOnly, KeyboardOnly, ConsolesOnly,
       AudioOnly, VideoOnly, GaugesOnly, ConsolesNext

LEMMA PositionType ==
  ASSUME consoles \subseteq Console, NEW c
  PROVE  Position(c) \in Nat
<1>1. {d \in consoles : d < c} \subseteq Console
  OBVIOUS
<1> QED BY <1>1, ConsolesAssumption, FS_Subset, FS_CardinalityType DEF Position

LEMMA ConsolesType == ConsolesTypeOK /\ [ConsolesNext]_consolesVars => ConsolesTypeOK'
<1> SUFFICES ASSUME ConsolesTypeOK, [ConsolesNext]_consolesVars PROVE ConsolesTypeOK'
  OBVIOUS
<1>1. CASE AppendExtensions
  <2>1. extensions' \in 0..MaxLists
    BY <1>1, ConsolesAssumption DEF AppendExtensions, ConsolesTypeOK
  <2>2. prompted' \in BOOLEAN
    BY <1>1, Zenon DEF AppendExtensions
  <2> QED BY <1>1, <2>1, <2>2, Zenon DEF AppendExtensions, ConsolesTypeOK
<1>3. CASE CloseConsole
  <2>1. 0 \in 0..MaxLists
    BY ConsolesAssumption
  <2> QED BY <1>3, <2>1, Zenon DEF CloseConsole, ConsolesTypeOK
<1>4. CASE UNCHANGED consolesVars
  BY <1>4 DEF consolesVars, ConsolesTypeOK
<1>2. ASSUME NEW c \in Console, AddConsole(c) \/ ChooseConsole(c) \/ OpenConsole(c)
      PROVE  ConsolesTypeOK'
  BY <1>2, PositionType DEF AddConsole, ChooseConsole, OpenConsole, ConsolesTypeOK
<1> QED BY <1>1, <1>2, <1>3, <1>4 DEF ConsolesNext

AudioViewNext ==
  \/ CreateResampler \/ MuteForPause \/ Unmute \/ ClearSamples
  \/ \E paused \in BOOLEAN : DestroyResampler(paused) \/ ClickMute(paused)
  \/ SampleAndFlush \/ SampleOnly

LEMMA StepOfAudioView ==
  ASSUME [SessionNext]_sessionVars
  PROVE  [AudioViewNext]_audioViewVars
BY DEF SessionNext, sessionVars, partsVars, Quiet, PollInput, LoopFrame, StepFrame,
       CoreRuns, LoadsCore, LoadsGame, Unloads, HandlerEnds, AudioHears, Draws,
       Clicks, Widget, Close, Others, PadsOnly, KeyboardOnly, ConsolesOnly,
       AudioOnly, VideoOnly, GaugesOnly, AudioViewNext

LEMMA AudioViewType == AudioViewTypeOK /\ [AudioViewNext]_audioViewVars => AudioViewTypeOK'
<1> SUFFICES ASSUME AudioViewTypeOK, [AudioViewNext]_audioViewVars
             PROVE  AudioViewTypeOK'
  OBVIOUS
<1>1. pile' \in 0..MaxPile
  BY AudioViewAssumption
     DEF AudioViewNext, audioViewVars, AudioViewTypeOK, CreateResampler, MuteForPause,
         Unmute, ClearSamples, DestroyResampler, ClickMute, SampleAndFlush, SampleOnly,
         Batches
<1>2. /\ mute' \in BOOLEAN /\ wasMuted' \in BOOLEAN /\ resampler' \in BOOLEAN
      /\ wants' \in BOOLEAN /\ ejected' \in BOOLEAN
  BY DEF AudioViewNext, audioViewVars, AudioViewTypeOK, CreateResampler, MuteForPause,
         Unmute, ClearSamples, DestroyResampler, ClickMute, SampleAndFlush, SampleOnly
<1> QED BY <1>1, <1>2 DEF AudioViewTypeOK

VideoNext ==
  \/ \E w, h \in Size :
       \/ SetGeometry([w |-> w, h |-> h]) \/ Refresh([w |-> w, h |-> h])
       \/ \E f \in {format, "RGB565"} : SetAvInfo(f, [w |-> w, h |-> h])
  \/ DeleteTexture \/ ForgetFormat

LEMMA StepOfVideo ==
  ASSUME [SessionNext]_sessionVars
  PROVE  [VideoNext]_videoVars
BY DEF SessionNext, sessionVars, partsVars, Quiet, PollInput, LoopFrame, StepFrame,
       CoreRuns, LoadsCore, LoadsGame, Unloads, HandlerEnds, VideoHears, Draws,
       Clicks, Widget, Close, Others, PadsOnly, KeyboardOnly, ConsolesOnly,
       AudioOnly, VideoOnly, GaugesOnly, VideoNext

LEMMA VideoType == VideoTypeOK /\ [VideoNext]_videoVars => VideoTypeOK'
<1> SUFFICES ASSUME VideoTypeOK, [VideoNext]_videoVars PROVE VideoTypeOK'
  OBVIOUS
<1>0. Nil \in Extent
  BY DEF Nil, Extent
<1>1. ASSUME NEW w \in Size, NEW h \in Size, NEW g, g = [w |-> w, h |-> h],
             \/ SetGeometry(g) \/ Refresh(g)
             \/ \E f \in {format, "RGB565"} : SetAvInfo(f, g)
      PROVE  VideoTypeOK'
  <2>1. g \in Extent
    BY <1>1 DEF Extent
  <2> QED BY <1>1, <2>1 DEF VideoTypeOK, SetGeometry, FitTexture, Refresh, SetAvInfo,
                            Format
<1>2. CASE DeleteTexture \/ ForgetFormat \/ UNCHANGED videoVars
  BY <1>0, <1>2 DEF VideoTypeOK, DeleteTexture, ForgetFormat, videoVars, Format
<1> QED BY <1>1, <1>2 DEF VideoNext

GaugesNext ==
  \/ RegisterRun \/ DropCounters \/ LedsOff \/ ClearLeds
  \/ \E x \in Ident : RegisterAtLoad(x) \/ RegisterScript(x)
  \/ \E n \in 0..MaxLeds, on \in BOOLEAN, byScript \in BOOLEAN : SetLed(n, on, byScript)

LEMMA StepOfGauges ==
  ASSUME [SessionNext]_sessionVars
  PROVE  [GaugesNext]_gaugesVars
<1>1. ASSUME NEW n \in 1..MaxLeds
      PROVE  n \in 0..MaxLeds
  BY GaugesAssumption
<1> QED
  BY <1>1
  DEF SessionNext, sessionVars, partsVars, Quiet, PollInput, LoopFrame, StepFrame,
      CoreRuns, LoadsCore, LoadsGame, Unloads, HandlerEnds, GaugesHear, Draws,
      Clicks, Widget, Close, Others, PadsOnly, KeyboardOnly, ConsolesOnly,
      AudioOnly, VideoOnly, GaugesOnly, GaugesNext

LEMMA WithType ==
  ASSUME NEW r, NEW o \in Owner, NEW x,
         \A y \in DOMAIN r : r[y] \in Owner
  PROVE  /\ DOMAIN With(r, o, x) = DOMAIN r \union {x}
         /\ \A y \in DOMAIN With(r, o, x) : With(r, o, x)[y] \in Owner
BY DEF With

LEMMA GaugesType == GaugesTypeOK /\ [GaugesNext]_gaugesVars => GaugesTypeOK'
<1> SUFFICES ASSUME GaugesTypeOK, [GaugesNext]_gaugesVars PROVE GaugesTypeOK'
  OBVIOUS
<1>0. {"app", "core", "script"} = Owner /\ <<>> \in Seq(BOOLEAN)
  BY EmptySeq DEF Owner
<1>1. ASSUME NEW r, NEW o \in Owner, NEW x \in Ident \union {RunCounter},
             DOMAIN r \subseteq Ident \union {RunCounter},
             \A y \in DOMAIN r : r[y] \in Owner,
             counters' = With(r, o, x), UNCHANGED <<leds, scripted>>
      PROVE  GaugesTypeOK'
  <2>1. /\ DOMAIN counters' = DOMAIN r \union {x}
        /\ \A y \in DOMAIN counters' : counters'[y] \in Owner
    BY <1>1, WithType
  <2>2. leds' \in Seq(BOOLEAN) /\ scripted' \in BOOLEAN
    BY <1>1, Zenon DEF GaugesTypeOK
  <2> QED BY <1>1, <2>1, <2>2 DEF GaugesTypeOK
<1>5. DOMAIN counters \subseteq Ident \union {RunCounter}
      /\ \A y \in DOMAIN counters : counters[y] \in Owner
  BY DEF GaugesTypeOK
<1>6. CASE RegisterRun \/ \E x \in Ident : RegisterScript(x)
  BY <1>0, <1>1, <1>5, <1>6 DEF RegisterRun, RegisterScript
<1>7. ASSUME NEW x \in Ident, RegisterAtLoad(x)
      PROVE  GaugesTypeOK'
  <2> DEFINE r == With(counters, "core", x)
  <2>1. "core" \in Owner
    BY <1>0
  <2>2. DOMAIN r = DOMAIN counters \union {x} /\ \A y \in DOMAIN r : r[y] \in Owner
    BY <1>5, <2>1, WithType
  <2>3. counters' = With(r, "app", RunCounter) /\ UNCHANGED <<leds, scripted>>
    BY <1>7 DEF RegisterAtLoad
  <2> HIDE DEF r
  <2> QED BY <1>0, <1>1, <1>5, <2>2, <2>3
<1>2. CASE DropCounters \/ ClearLeds \/ UNCHANGED gaugesVars
  BY <1>0, <1>2 DEF DropCounters, ClearLeds, NoCounter, gaugesVars, GaugesTypeOK
<1>3. CASE LedsOff
  <2>1. leds' \in [1..Len(leds) -> BOOLEAN] /\ Len(leds) \in Nat
    BY <1>3 DEF LedsOff, GaugesTypeOK
  <2> QED BY <1>3, <2>1, SeqDef DEF LedsOff, GaugesTypeOK
<1>4. ASSUME NEW n \in 0..MaxLeds, NEW on \in BOOLEAN, NEW byScript \in BOOLEAN,
             SetLed(n, on, byScript)
      PROVE  GaugesTypeOK'
  <2>1. \A i \in DOMAIN leds : leds[i] \in BOOLEAN
    BY DEF GaugesTypeOK
  <2>2. PICK k : k = n + 1
    OBVIOUS
  <2>3. k \in Nat
    BY <2>2, GaugesAssumption
  <2>4. leds' = [i \in 1..k |-> IF i = k THEN on
                                 ELSE IF i \in DOMAIN leds THEN leds[i] ELSE FALSE]
    BY <1>4, <2>2 DEF SetLed
  <2>5. leds' \in [1..k -> BOOLEAN]
    BY <2>1, <2>4, Zenon
  <2>6. leds' \in Seq(BOOLEAN)
    BY <2>3, <2>5, SeqDef
  <2>7. scripted' \in BOOLEAN
    BY <1>4 DEF SetLed, GaugesTypeOK
  <2> QED BY <1>4, <2>6, <2>7 DEF SetLed, GaugesTypeOK
<1> QED BY <1>2, <1>3, <1>4, <1>6, <1>7 DEF GaugesNext

LEMMA PartsInitType ==
  SessionInit => ConsolesTypeOK /\ AudioViewTypeOK /\ VideoTypeOK /\ GaugesTypeOK
<1> SUFFICES ASSUME SessionInit
             PROVE  ConsolesTypeOK /\ AudioViewTypeOK /\ VideoTypeOK /\ GaugesTypeOK
  OBVIOUS
<1>1. ConsolesTypeOK
  <2>1. 0 \in Nat /\ 0 \in 0..MaxLists /\ Initial \subseteq Console
    BY ConsolesAssumption
  <2> QED BY <2>1, Zenon DEF SessionInit, ConsolesInit, ConsolesTypeOK
<1>2. AudioViewTypeOK
  <2>1. pile \in 0..MaxPile
    BY AudioViewAssumption DEF SessionInit, AudioViewInit
  <2> QED BY <2>1, Zenon DEF SessionInit, AudioViewInit, AudioViewTypeOK
<1>3. VideoTypeOK
  BY DEF SessionInit, VideoInit, VideoTypeOK, Extent, Nil, Format
<1>4. GaugesTypeOK
  BY EmptySeq DEF SessionInit, GaugesInit, GaugesTypeOK, NoCounter
<1> QED BY <1>1, <1>2, <1>3, <1>4

LEMMA ClosedGrows ==
  ASSUME [SessionNext]_sessionVars
  PROVE  /\ part' = part
         /\ \/ closed' = closed
            \/ \E view \in {"audio", "video", "perf", "led", "control"} :
                 Draws /\ part # "pad" /\ Close(view)
BY DEF SessionNext, sessionVars, partsVars, Quiet, PollInput, LoopFrame, StepFrame,
       CoreRuns, LoadsCore, LoadsGame, Unloads, HandlerEnds, Draws, Clicks,
       Widget, Close, Others, PadsOnly, KeyboardOnly, ConsolesOnly, AudioOnly,
       VideoOnly, GaugesOnly

(* Every part of the state stays in its type, whatever the user, the core  *)
(* and the scripts do in whatever order.                                   *)
THEOREM SessionSpecTypeOK == SessionSpec => []SessionTypeOK
<1> DEFINE Views == /\ ConsolesTypeOK /\ AudioViewTypeOK /\ VideoTypeOK /\ GaugesTypeOK
                    /\ part \in Parts
                    /\ closed \subseteq {"audio", "video", "perf", "led", "control"}
<1>1. SessionInit => Views
  BY PartsInitType DEF SessionInit
<1>2. Views /\ [SessionNext]_sessionVars => Views'
  <2> SUFFICES ASSUME Views, [SessionNext]_sessionVars PROVE Views'
    OBVIOUS
  <2>1. part' \in Parts /\ closed' \subseteq {"audio", "video", "perf", "led", "control"}
    BY ClosedGrows DEF Close
  <2> QED BY <2>1, StepOfConsoles, ConsolesType, StepOfAudioView, AudioViewType,
             StepOfVideo, VideoType, StepOfGauges, GaugesType
<1>3. SessionSpec => []Views
  BY <1>1, <1>2, PTL DEF SessionSpec
<1>4. SessionSpec => []TypeOK
  BY InitType, NextType, SessionIsApplication, PTL DEF Runs
<1>5. TypeOK /\ PInv /\ KInv /\ Views => SessionTypeOK
  BY DEF PInv, KInv, SessionTypeOK
<1> QED BY <1>3, <1>4, <1>5, SessionPads, SessionKeyboard, PTL

-----------------------------------------------------------------------------
(* While an event is broadcast, its callback's call included; what its     *)
(* handler found and leaves.                                               *)
Pending(m) == Broadcast /\ Top.m = m

LEMMA EventFinds ==
  ASSUME TypeOK, Chain, Broadcast, Top.m # "run"
  PROVE  /\ Top.m \in LC!Method \ {"quit"} /\ state = Top.from
         /\ LC!Handles(Top.m, Top.from)
         /\ CoreUnloads =>
              /\ Top.m = "unloadGame" => core = "loaded"
              /\ Top.m = "unloadCore" => core = "none"
              /\ Top.m \in {"loadGame", "startGame", "pauseGame", "resumeGame",
                            "resetGame", "step"} => core = "game"
<1>1. /\ Shape(Top) /\ Found(Top) /\ Top \in Frame /\ Top.pc \in Told
  BY TopShape DEF Broadcast, At, Told
<1>2. Top.m \in LC!Method \ {"quit"} /\ LC!Handles(Top.m, Top.from)
  BY <1>1 DEF Shape, Frame, Told, CallsCoreFirst
<1>3. CASE Top.m \in CallsCoreFirst
  <2>1. state = Top.from /\ (CoreUnloads => core = Leaves[Top.m])
    BY <1>1, <1>3 DEF Found, Agree, Told, CallsCoreFirst
  <2> DEFINE m == Top.m
  <2>2. /\ m = "unloadGame" => Leaves[m] = "loaded"
        /\ m = "unloadCore" => Leaves[m] = "none"
        /\ m \in {"loadGame", "step", "resetGame"} => Leaves[m] = "game"
    BY DEF Leaves
  <2>3. m \notin {"startGame", "pauseGame", "resumeGame", "resetGame"}
    BY <1>3 DEF CallsCoreFirst
  <2> HIDE DEF m
  <2>4. CoreUnloads =>
          /\ m = "unloadGame" => core = "loaded"
          /\ m = "unloadCore" => core = "none"
          /\ m \in {"loadGame", "startGame", "pauseGame", "resumeGame",
                    "resetGame", "step"} => core = "game"
    <3>1. CoreUnloads => core = Leaves[m]
      BY <2>1 DEF m
    <3> QED BY <2>2, <2>3, <3>1
  <2> QED BY <1>2, <2>1, <2>4 DEF m
<1>4. CASE Top.m \notin CallsCoreFirst
  <2>1. Agree(Top.from) /\ Top.m \in {"startGame", "pauseGame", "resumeGame", "resetGame"}
    BY <1>1, <1>4 DEF Found, Shape, Told
  <2>2. Top.from \in LC!InGame
    BY <1>2, <2>1 DEF LC!Handles, LC!Sources, LC!InGame
  <2> QED BY <1>2, <2>1, <2>2 DEF Agree, CoreOf, CallsCoreFirst, LC!InGame
<1> QED BY <1>2, <1>3, <1>4

(* A frame below the top waits in a chain of quit() calls, or for what a   *)
(* callback called.                                                        *)
LEMMA ReturnFinds ==
  ASSUME TypeOK, Chain, stack # <<>>, stack' = Callers,
         NEW m \in {"unloadGame", "unloadCore"}
  PROVE  ~Pending(m)'
<1>1. /\ Len(stack) \in Nat \ {0} /\ Len(Callers) = Len(stack) - 1
      /\ \A i \in 1..(Len(stack) - 1) : Callers[i] = stack[i]
  BY StackOperations DEF TypeOK
<1>2. ASSUME stack' # <<>>
      PROVE  Top'.pc \in Told => Top'.m # m
  <2>1. Len(Callers) \in Nat \ {0}
    <3>1. Callers \in Seq(Frame)
      BY StackOperations DEF TypeOK
    <3> QED BY <1>2, <3>1, EmptySeq
  <2> DEFINE n == Len(stack)
  <2>2. n - 1 \in 1..(n - 1) /\ Top' = stack[n - 1] /\ n \in Nat
    BY <1>1, <2>1 DEF Top
  <2> HIDE DEF n
  <2>3. Calls(stack[n - 1], stack[(n - 1) + 1])
    BY <2>2 DEF Chain, n
  <2> QED BY <2>2, <2>3 DEF Calls, Told
<1> QED BY <1>2 DEF Pending, Broadcast, At, Told

LEMMA CallFinds ==
  ASSUME TypeOK, NEW c \in LC!Method, NEW base \in Seq(Frame), Call(c, base),
         NEW m, Pending(m)'
  PROVE  \/ Entry(c) = "event" /\ c = m
         \/ stack' = base /\ base # <<>> /\ base[Len(base)].m = m
            /\ base[Len(base)].pc \in Told
<1>1. PICK g \in Frame : g = [m |-> c, from |-> state, pc |-> Entry(c)]
  BY EntryType DEF Frame, TypeOK
<1>2. CASE stack' = Append(base, g)
  <2>1. Append(base, g)[Len(Append(base, g))] = g
    OBVIOUS
  <2>2. Entry(c) # "called"
    BY DEF Entry
  <2> QED BY <1>1, <1>2, <2>1, <2>2 DEF Pending, Broadcast, At, Top
<1>3. CASE stack' = base
  BY <1>3 DEF Pending, Broadcast, At, Top, Told
<1> QED BY <1>1, <1>2, <1>3 DEF Call

(* The events of the end of a game and of a core come after the call that  *)
(* unloads it.                                                             *)
LEMMA EventArrives ==
  ASSUME ConsiderateScripts, CoreUnloads, TypeOK, Chain, [Next]_vars,
         NEW m \in {"unloadGame", "unloadCore"}, Pending(m)', ~Pending(m)
  PROVE  CoreAccepts /\ Top.m = m
<1>0. /\ {"event", "called", "assign", "quit", "return"} \subseteq PC \ {"ctx"}
      /\ {"quit", "unloadCore", "unloadGame"} \subseteq LC!Method
      /\ <<>> \in Seq(Frame)
  BY EmptySeq DEF PC, LC!Method
<1>1. stack' # stack
  BY DEF Pending, Broadcast, At, Top
<1>2. ASSUME stack # <<>>, NEW p \in PC \ {"ctx"}, stack' = Go(p)
      PROVE  p \in Told /\ Top.m = m
  <2>1. Top' = [Top EXCEPT !.pc = p] /\ Top \in Frame
    <3>1. Go(p) \in Seq(Frame) /\ Len(Go(p)) = Len(stack)
          /\ Go(p)[Len(stack)] = [Top EXCEPT !.pc = p]
      BY <1>2, GoOperations DEF TypeOK
    <3> QED BY <1>2, <3>1, StackOperations DEF Top, TypeOK
  <2> QED BY <2>1 DEF Pending, Broadcast, At, Frame, Told
<1>3. ASSUME stack # <<>>, NEW p \in PC \ {"ctx"}, NEW c \in LC!Method,
             Call(c, Go(p)), Entry(c) # "event" \/ c # m
      PROVE  p \in Told /\ Top.m = m
  <2>1. Go(p) \in Seq(Frame)
    BY <1>3, GoOperations DEF TypeOK
  <2>2. stack' = Go(p)
    BY <1>3, <2>1, CallFinds
  <2> QED BY <1>2, <1>3, <2>2
<1>4. \A c \in {m, "quit", "unloadCore", "unloadGame"} : Entry(c) # "event"
  BY DEF Entry, CallsCoreFirst
<1>5. ASSUME NEW c \in LC!Method, Call(c, <<>>)
      PROVE  FALSE
  BY <1>0, <1>4, <1>5, CallFinds
<1>6. ASSUME NEW r, stack # <<>>, Return(r)
      PROVE  FALSE
  BY <1>6, ReturnFinds DEF Return
<1>7. CASE CoreAccepts
  BY <1>0, <1>2, <1>7 DEF CoreAccepts, At
<1>8. CASE CoreRefuses
  <2>1. /\ stack # <<>> /\ Top.pc = "ctx" /\ Shape(Top) /\ Found(Top)
    BY <1>8, TopShape DEF CoreRefuses, At
  <2>2. ~\E r : Return(r)
    BY <1>6, <2>1
  <2>3. Top.m = "step" \/ Top.m = "unloadCore"
    BY <1>8, <2>2 DEF CoreRefuses
  <2>4. CASE Top.m = "step"
    BY <1>0, <1>2, <1>8, <2>1, <2>4 DEF CoreRefuses
  <2>5. CASE Top.m = "unloadCore"
    BY <1>0, <1>2, <1>8, <2>1, <2>5 DEF CoreRefuses, Told
  <2> QED BY <2>3, <2>4, <2>5
<1>9. CASE Finish \/ ResetRefused \/ QuitReturns
  BY <1>6, <1>9 DEF Finish, ResetRefused, QuitReturns, Broadcast, At
<1>10. CASE QuitUnloads
  <2>1. PICK c \in {"unloadCore", "unloadGame"} : Call(c, Go("quit"))
    BY <1>10 DEF QuitUnloads
  <2> QED BY <1>0, <1>3, <1>4, <1>10, <2>1 DEF QuitUnloads, At, Told
<1>11. CASE QuitAgain
  BY <1>0, <1>3, <1>4, <1>6, <1>11 DEF QuitAgain, At, Told
<1>12. CASE PollQuit \/ \E c \in LC!Method : UserCall(c)
  BY <1>0, <1>5, <1>12 DEF PollQuit, UserCall
<1>13. CASE RunFrame
  <2>1. Top' = [m |-> "run", from |-> state, pc |-> "event"]
    BY <1>13 DEF RunFrame, Top
  <2> QED BY <2>1 DEF Pending
<1>14. CASE FrameRun
  BY <1>14 DEF FrameRun, Pending, Broadcast, At
<1>15. CASE QuitPolled \/ EndPoll \/ NoFrame \/ EndDraw \/ Exited \/ UNCHANGED vars
  BY <1>1, <1>15 DEF QuitPolled, EndPoll, NoFrame, EndDraw, Exited, vars
<1>16. ASSUME NEW c \in LC!Method, ScriptCall(c)
       PROVE  FALSE
  <2>1. stack # <<>> /\ At("event") /\ Call(c, Go("called"))
    BY <1>16 DEF ScriptCall, At
  <2>2. Entry(c) # "event" \/ c # m
    BY <1>4
  <2>3. Top.m = m
    BY <1>0, <1>3, <2>1, <2>2
  <2> QED BY <2>1, <2>3 DEF Pending, Broadcast
<1> QED BY <1>7, <1>8, <1>9, <1>10, <1>11, <1>12, <1>13, <1>14, <1>15, <1>16
        DEF Next, LifeCycleStep, LoopStep

(* ... and end with the handler, as their callbacks only call what is      *)
(* refused at once.                                                        *)
LEMMA EventEnds ==
  ASSUME ConsiderateScripts, TypeOK, Chain, SessionNext,
         NEW m \in {"unloadGame", "unloadCore"}, Pending(m), ~Pending(m)'
  PROVE  HandlerEnds /\ Finish
<1>1. stack # <<>> /\ Top.pc \in Told /\ Top.m = m /\ Top \in Frame
  BY StackOperations DEF Pending, Broadcast, At, Told, TypeOK
<1>2. phase \notin {"poll", "frame", "draw", "exit"}
  BY <1>1 DEF Chain
<1>3. ~PollInput /\ ~LoopFrame /\ ~StepFrame /\ ~LoadsCore /\ ~LoadsGame /\ ~Unloads
  BY <1>1, <1>2 DEF PollInput, EndPoll, LoopFrame, RunFrame, StepFrame, LoadsCore,
                    LoadsGame, Unloads, CoreAccepts, At, Told
<1>4. ~Draws
  BY <1>1, <1>2 DEF Draws, Clicks, UserCall, EndDraw
<1>5. ASSUME NEW c \in LC!Method, ScriptCall(c)
      PROVE  FALSE
  <2>1. /\ At("event") /\ <<EventOf(Top.m), c>> \in ScriptCalls
        /\ Call(c, Go("called"))
    BY <1>5 DEF ScriptCall
  <2>2. ~LC!Handles(c, state)
    BY <1>1, <2>1, CallbackCalls
  <2>3. stack' = Go("called")
    BY <2>1, <2>2 DEF Call
  <2>4. "called" \in PC \ {"ctx"}
    BY DEF PC
  <2>5. /\ Go("called") \in Seq(Frame) /\ Len(Go("called")) = Len(stack)
        /\ Go("called")[Len(stack)] = [Top EXCEPT !.pc = "called"]
        /\ Len(stack) \in Nat \ {0}
    BY <1>1, <2>4, GoOperations, StackOperations DEF TypeOK
  <2>6. stack' # <<>> /\ Top' = [Top EXCEPT !.pc = "called"]
    BY <2>3, <2>5, EmptySeq DEF Top
  <2> QED BY <1>1, <2>6 DEF Pending, Broadcast, At, Frame
<1>6. ~Others
  BY <1>1, <1>2, <1>5
     DEF Others, CoreRefuses, QuitUnloads, QuitAgain, QuitReturns, PollQuit,
         QuitPolled, FrameRun, NoFrame, Exited, At, Told
<1> QED BY <1>1, <1>3, <1>4, <1>6 DEF SessionNext, HandlerEnds, ResetRefused

LEMMA CoreChanges ==
  ASSUME [Next]_vars, core' # core
  PROVE  CoreAccepts /\ core = Needs[Top.m] /\ core' = Leaves[Top.m]
BY DEF Next, LifeCycleStep, LoopStep, CoreAccepts, Accepts, CoreRefuses, ScriptCall,
       Finish, ResetRefused, QuitUnloads, QuitAgain, QuitReturns, PollQuit,
       QuitPolled, EndPoll, RunFrame, FrameRun, NoFrame, UserCall, EndDraw, Exited,
       vars

LEMMA Accepted ==
  ASSUME TypeOK, Chain, CoreAccepts, NEW m, Top.m = m
  PROVE  /\ m \in CallsCoreFirst /\ core = Needs[m] /\ core' = Leaves[m]
         /\ Pending(m)'
<1>1. stack # <<>> /\ Top.pc = "ctx" /\ Top \in Frame /\ stack' = Go("event")
  BY StackOperations DEF CoreAccepts, At, TypeOK
<1>2. m \in CallsCoreFirst
  BY <1>1 DEF Frame
<1>3. Go("event") \in Seq(Frame) /\ Len(Go("event")) = Len(stack)
      /\ Go("event")[Len(stack)] = [Top EXCEPT !.pc = "event"]
  BY <1>1, GoOperations DEF TypeOK, PC
<1>4. Top' = [Top EXCEPT !.pc = "event"] /\ stack' # <<>>
  <2>1. Len(stack) \in Nat \ {0}
    BY <1>1, StackOperations DEF TypeOK
  <2> QED BY <1>1, <1>3, <2>1, EmptySeq DEF Top
<1>5. Pending(m)'
  BY <1>1, <1>4 DEF Pending, Broadcast, At, Frame
<1> QED BY <1>2, <1>5 DEF CoreAccepts, Accepts

(* The core comes and goes with the events of the methods that load and    *)
(* unload it.                                                              *)
LEMMA CoreGoes ==
  ASSUME ConsiderateScripts, CoreUnloads, TypeOK, Chain, [Next]_vars
  PROVE  /\ (core = "game" /\ core' # "game") => Pending("unloadGame")'
         /\ (core # "none" /\ core' = "none") => Pending("unloadCore")'
         /\ (core = "none" /\ core' # "none") => CoreAccepts /\ Top.m = "loadCore"
         /\ (core # "game" /\ core' = "game") => CoreAccepts /\ Top.m = "loadGame"
<1> SUFFICES ASSUME core' # core
             PROVE  /\ (core = "game" /\ core' # "game") => Pending("unloadGame")'
                    /\ (core # "none" /\ core' = "none") => Pending("unloadCore")'
                    /\ (core = "none" /\ core' # "none") => Top.m = "loadCore"
                    /\ (core # "game" /\ core' = "game") => Top.m = "loadGame"
  BY CoreChanges
<1>1. CoreAccepts
  BY CoreChanges
<1>2. PICK m : m = Top.m
  OBVIOUS
<1>3. m \in CallsCoreFirst /\ core = Needs[m] /\ core' = Leaves[m] /\ Pending(m)'
  BY <1>1, <1>2, Accepted
<1> QED BY <1>2, <1>3 DEF CallsCoreFirst, Needs, Leaves

-----------------------------------------------------------------------------
LEMMA CoreSteps ==
  ASSUME SessionNext, core' # core
  PROVE  LoadsCore \/ LoadsGame \/ Unloads \/ StepFrame
<1>1. ~PollInput /\ ~LoopFrame /\ ~HandlerEnds /\ ~Draws
  BY DEF PollInput, EndPoll, LoopFrame, RunFrame, HandlerEnds, Finish, ResetRefused,
         Draws, Clicks, UserCall, EndDraw
<1>2. ~Others
  BY DEF Others, CoreRefuses, ScriptCall, QuitUnloads, QuitAgain, QuitReturns, PollQuit,
         QuitPolled, FrameRun, NoFrame, Exited, vars
<1> QED BY <1>1, <1>2 DEF SessionNext

(* The console a core was loaded for is the one whose index is kept, but   *)
(* for one that is registered before it.                                   *)
CInv ==
  /\ ConsolesTypeOK
  /\ console = -1 <=> wanted = Nobody
  /\ (wanted # Nobody /\ ~shifted) => Indexed(wanted)
  /\ (~prompted /\ (core # "none" \/ Pending("unloadCore"))) => wanted # Nobody

LEMMA SessionInitConsoles == SessionInit => CInv
<1> SUFFICES ASSUME SessionInit PROVE CInv
  OBVIOUS
<1>1. ConsolesTypeOK
  BY PartsInitType
<1>2. console = -1 /\ wanted = Nobody /\ core = "none" /\ ~Pending("unloadCore")
  BY DEF SessionInit, ConsolesInit, Init, Pending, Broadcast, At
<1> QED BY <1>1, <1>2 DEF CInv

(* A console registered after c leaves c where it is.                      *)
LEMMA AddConsoleKeeps ==
  ASSUME ConsolesTypeOK, NEW c \in Console, AddConsole(c), NEW d \in Console,
         Indexed(d), ~(c < d)
  PROVE  Indexed(d)'
<1>1. consoles' = consoles \union {c} /\ console' = console
  BY DEF AddConsole
<1>2. {e \in consoles' : e < d} = {e \in consoles : e < d}
  BY <1>1
<1>3. Position(d)' = Position(d)
  BY <1>2 DEF Position
<1> QED BY <1>1, <1>3 DEF Indexed

LEMMA OpenConsoleIndexes ==
  ASSUME ConsolesTypeOK, NEW c \in Console, OpenConsole(c)
  PROVE  /\ Indexed(c)' /\ console' # -1 /\ wanted' = c /\ c # Nobody
         /\ prompted' = prompted
<1>1. Position(c) \in Nat
  BY PositionType DEF ConsolesTypeOK
<1>2. Position(c)' = Position(c)
  BY DEF OpenConsole, Position
<1>3. c # Nobody
  BY ConsolesAssumption DEF Nobody
<1> QED BY <1>1, <1>2, <1>3 DEF OpenConsole, Indexed

(* Which steps of the application go with those of the console list.       *)
LEMMA ConsoleSteps ==
  ASSUME [SessionNext]_sessionVars
  PROVE  \/ UNCHANGED consolesVars /\ ~LoadsCore
         \/ LoadsCore /\ AppendExtensions
         \/ HandlerEnds /\ Broadcast /\ EventOf(Top.m) = "onCoreUnloaded" /\ CloseConsole
         \/ /\ Draws
            /\ \E c \in Console : AddConsole(c) \/ ChooseConsole(c) \/ OpenConsole(c)
<1>2. CASE LoadsCore
  BY <1>2 DEF LoadsCore
<1>3. CASE HandlerEnds
  <2>1. ~LoadsCore
    BY <1>3 DEF LoadsCore, CoreAccepts, HandlerEnds, Finish, ResetRefused,
                Broadcast, At
  <2> QED BY <1>3, <2>1 DEF HandlerEnds, ControlHears, Quiet, partsVars
<1>4. CASE Draws /\ ~LoadsCore /\ ~HandlerEnds
  BY <1>4 DEF Draws, Clicks, Widget, Close, Quiet, partsVars, PadsOnly, KeyboardOnly,
              ConsolesOnly, AudioOnly, VideoOnly, GaugesOnly
<1>5. CASE ~LoadsCore /\ ~HandlerEnds /\ ~Draws
  BY <1>5 DEF SessionNext, sessionVars, partsVars, Quiet, PollInput, LoopFrame,
              StepFrame, CoreRuns, LoadsGame, Unloads, Others, PadsOnly, KeyboardOnly,
              ConsolesOnly, AudioOnly, VideoOnly, GaugesOnly
<1> QED BY <1>2, <1>3, <1>4, <1>5

LEMMA UnloadedIs ==
  ASSUME TypeOK, Chain, stack # <<>>, Broadcast, Top.m # "run", EventOf(Top.m) = "onCoreUnloaded"
  PROVE  Pending("unloadCore")
<1>1. Top.m \in LC!Method \ {"quit"}
  BY EventFinds
<1>2. Top.m = "unloadCore"
  BY <1>1 DEF EventOf, LC!Method
<1> QED BY <1>2 DEF Pending

LEMMA ConsolesInv ==
  ASSUME ConsiderateScripts, CoreUnloads, TypeOK, Chain, Chain', TypeOK', CInv, [SessionNext]_sessionVars
  PROVE  CInv'
<1>0. ConsolesTypeOK' /\ [Next]_vars
  BY StepOfConsoles, ConsolesType, SessionStep DEF CInv
<1>1. ASSUME prompted' = prompted, wanted' = wanted, ~LoadsCore
      PROVE  (~prompted' /\ (core' # "none" \/ Pending("unloadCore")')) => wanted' # Nobody
  <2> SUFFICES ASSUME ~prompted', core' # "none" \/ Pending("unloadCore")'
               PROVE  core # "none" \/ Pending("unloadCore")
    BY <1>1 DEF CInv
  <2> SUFFICES ASSUME core = "none", ~Pending("unloadCore")
               PROVE  FALSE
    OBVIOUS
  <2>1. CASE core' # "none"
    <3>1. CoreAccepts /\ Top.m = "loadCore"
      BY <1>0, <2>1, CoreGoes
    <3>2. SessionNext
      BY <2>1 DEF sessionVars, vars
    <3> QED BY <1>1, <2>1, <3>1, <3>2, CoreSteps DEF LoadsGame, Unloads, StepFrame
  <2>2. CASE Pending("unloadCore")'
    <3>1. CoreAccepts /\ Top.m = "unloadCore"
      BY <1>0, <2>2, EventArrives
    <3> QED BY <3>1 DEF CoreAccepts, Accepts, Needs
  <2> QED BY <2>1, <2>2
<1>2. CASE UNCHANGED consolesVars /\ ~LoadsCore
  <2>1. Indexed(wanted) => Indexed(wanted)'
    BY <1>2 DEF consolesVars, Indexed, Position
  <2> QED BY <1>0, <1>1, <1>2, <2>1 DEF CInv, consolesVars
<1>3. CASE AppendExtensions
  <2>1. UNCHANGED <<consoles, chosen, console, wanted, shifted>>
    BY <1>3 DEF AppendExtensions
  <2>2. Indexed(wanted) => Indexed(wanted)'
    BY <2>1 DEF Indexed, Position
  <2>3. ~prompted' => wanted # Nobody
    BY <1>3 DEF AppendExtensions, CInv
  <2> QED BY <1>0, <2>1, <2>2, <2>3 DEF CInv
<1>4. CASE HandlerEnds /\ Broadcast /\ EventOf(Top.m) = "onCoreUnloaded" /\ CloseConsole
  <2>1. stack # <<>> /\ Top.m # "run"
    BY <1>4 DEF HandlerEnds, Finish, ResetRefused, Broadcast, At
  <2>2. Pending("unloadCore")
    BY <1>4, <2>1, UnloadedIs
  <2>3. core = "none" /\ core' = core
    BY <1>4, <2>1, <2>2, EventFinds DEF HandlerEnds, Finish, ResetRefused, Pending
  <2>4. ~Pending("unloadCore")'
    BY <1>4, <2>1, ReturnFinds DEF HandlerEnds, Finish, ResetRefused, Return
  <2> QED BY <1>0, <1>4, <2>3, <2>4 DEF CInv, CloseConsole
<1>5. ASSUME NEW c \in Console, Draws, AddConsole(c)
      PROVE  CInv'
  <2>1. ~LoadsCore /\ prompted' = prompted /\ wanted' = wanted /\ console' = console
    BY <1>5 DEF AddConsole, Draws, Clicks, UserCall, EndDraw, LoadsCore, CoreAccepts,
                Chain, At
  <2>2. ASSUME wanted # Nobody, ~shifted'
        PROVE  Indexed(wanted)'
    <3>1. wanted \in Console /\ ~shifted /\ ~(c < wanted)
      BY <1>5, <2>2 DEF AddConsole, CInv, ConsolesTypeOK
    <3>2. Indexed(wanted)
      BY <2>2, <3>1 DEF CInv
    <3>3. PICK d \in Console : d = wanted
      BY <3>1
    <3>4. Indexed(d)'
      BY <1>5, <3>1, <3>2, <3>3, AddConsoleKeeps DEF CInv
    <3> QED BY <2>1, <3>3, <3>4 DEF Indexed, Position
  <2> QED BY <1>0, <1>1, <2>1, <2>2 DEF CInv
<1>6. ASSUME NEW c \in Console, Draws, ChooseConsole(c)
      PROVE  CInv'
  <2>1. /\ ~LoadsCore
        /\ UNCHANGED <<consoles, console, wanted, prompted, shifted>>
    BY <1>6 DEF ChooseConsole, Draws, Clicks, UserCall, EndDraw, LoadsCore,
                CoreAccepts, Chain, At
  <2>2. Indexed(wanted) => Indexed(wanted)'
    BY <2>1 DEF Indexed, Position
  <2> QED BY <1>0, <1>1, <2>1, <2>2 DEF CInv
<1>7. ASSUME NEW c \in Console, OpenConsole(c)
      PROVE  CInv'
  <2>1. /\ Indexed(c)' /\ console' # -1 /\ wanted' = c /\ c # Nobody
    BY <1>7, OpenConsoleIndexes DEF CInv
  <2>2. Indexed(wanted)'
    BY <2>1 DEF Indexed, Position
  <2> QED BY <1>0, <2>1, <2>2 DEF CInv
<1> QED BY <1>2, <1>3, <1>4, <1>5, <1>6, <1>7, ConsoleSteps

LEMMA SessionConsoles ==
  ASSUME ConsiderateScripts, CoreUnloads
  PROVE  SessionSpec => []CInv
<1>1. /\ TypeOK /\ Chain /\ (TypeOK /\ Chain)' /\ CInv /\ [SessionNext]_sessionVars
      => CInv'
  BY ConsolesInv
<1> QED BY <1>1, SessionInitConsoles, SessionChain, PTL DEF SessionSpec

(* Every callback goes to the console the user loaded, for any number of   *)
(* consoles that are registered, chosen and loaded in any order, while the *)
(* Control window is there.                                                *)
THEOREM SessionConsoleCalled ==
  ASSUME ConsiderateScripts, CoreUnloads
  PROVE  SessionSpec => []ConsoleCalled
<1>1. ASSUME TypeOK, Chain, CInv
      PROVE  ConsoleCalled
  <2> SUFFICES ASSUME At("event"), Top.m # "run", ~prompted, ~shifted,
                      "control" \notin closed
               PROVE  Indexed(wanted)
    BY DEF ConsoleCalled
  <2>1. core # "none" \/ Pending("unloadCore")
    <3>1. Top.m # "unloadCore" => core # "none"
      <4>1. Shape(Top) /\ Found(Top) /\ stack # <<>> /\ Top.pc = "event" /\ Broadcast
        BY <1>1, TopShape DEF At, Broadcast
      <4> QED BY <1>1, <4>1, EventFinds
              DEF Shape, Found, Leaves, CallsCoreFirst, Told
    <3> QED BY <3>1 DEF Pending, Broadcast
  <2> QED BY <1>1, <2>1 DEF CInv
<1>2. TypeOK /\ Chain /\ CInv => ConsoleCalled
  BY <1>1
<1> QED BY <1>2, SessionConsoles, SessionChain, PTL

-----------------------------------------------------------------------------
(* What the user wants of the Mute box is in _wasMuted exactly while the   *)
(* game is paused.                                                         *)
AInv ==
  /\ AudioViewTypeOK
  /\ ("audio" \notin closed /\ ~ejected) =>
       IF state = "GamePaused" THEN wasMuted = wants ELSE mute = wants

LEMMA StateSteps ==
  ASSUME SessionNext, state' # state
  PROVE  HandlerEnds /\ Finish
<1>1. ~PollInput /\ ~LoopFrame /\ ~StepFrame /\ ~LoadsCore /\ ~LoadsGame /\ ~Unloads /\ ~Draws
  BY DEF PollInput, EndPoll, LoopFrame, RunFrame, StepFrame, LoadsCore, LoadsGame,
         Unloads, CoreAccepts, Draws, Clicks, UserCall, EndDraw
<1>2. ~Others
  BY DEF Others, CoreRefuses, ScriptCall, QuitUnloads, QuitAgain, QuitReturns, PollQuit,
         QuitPolled, FrameRun, NoFrame, Exited, vars
<1> QED BY <1>1, <1>2 DEF SessionNext, HandlerEnds, ResetRefused

LEMMA AudioSteps ==
  ASSUME [SessionNext]_sessionVars
  PROVE  \/ UNCHANGED audioViewVars /\ ~HandlerEnds
         \/ SampleAndFlush \/ SampleOnly
         \/ HandlerEnds
         \/ ClickMute(state = "GamePaused") /\ UNCHANGED closed
BY DEF SessionNext, sessionVars, partsVars, Quiet, PollInput, LoopFrame, StepFrame,
       CoreRuns, LoadsCore, LoadsGame, Unloads, Draws, Clicks, Widget, Close, Others,
       PadsOnly, KeyboardOnly, ConsolesOnly, AudioOnly, VideoOnly, GaugesOnly

LEMMA Events ==
  /\ EventOf("loadCore") = "onCoreLoaded"     /\ EventOf("loadGame") = "onGameLoaded"
  /\ EventOf("startGame") = "onGameStarted"   /\ EventOf("pauseGame") = "onGamePaused"
  /\ EventOf("resumeGame") = "onGameResumed"  /\ EventOf("resetGame") = "onGameReset"
  /\ EventOf("step") = "onFrame"              /\ EventOf("unloadGame") = "onGameUnloaded"
  /\ EventOf("unloadCore") = "onCoreUnloaded"
BY DEF EventOf

(* A handler that ends, and what the machine was and is then.              *)
LEMMA EndsFind ==
  ASSUME TypeOK, Chain, HandlerEnds
  PROVE  \/ /\ ~Broadcast /\ state \in {"Start", "ConsoleLoaded"}
            /\ state' \in {"Start", "Quit"}
         \/ /\ Broadcast /\ Top.m # "run"
            /\ Top.m \in LC!Method \ {"quit"} /\ state = Top.from
            /\ LC!Handles(Top.m, Top.from)
            /\ \/ state' = LC!Target(Top.m, Top.from)
               \/ Top.m = "resetGame" /\ state' = state
<1>1. stack # <<>>
  BY DEF HandlerEnds, Finish, ResetRefused, Broadcast, At
<1>2. Shape(Top) /\ Found(Top)
  BY <1>1, TopShape
<1>3. Top.m # "run"
  BY DEF HandlerEnds, Finish, ResetRefused
<1>4. CASE Broadcast
  BY <1>3, <1>4, EventFinds DEF HandlerEnds, Finish, ResetRefused
<1>5. CASE ~Broadcast
  <2>1. At("assign") /\ Finish
    BY <1>5 DEF HandlerEnds, Finish, ResetRefused
  <2>2. \/ Top.m = "quit" /\ Top.from = "Start"
        \/ Top.m = "unloadCore" /\ Top.from = "ConsoleLoaded"
    BY <1>2, <2>1 DEF At, Shape, CallsCoreFirst, Told
  <2>3. state = Top.from
    BY <1>2, <2>1, <2>2 DEF At, Found, Agree, Told
  <2> QED BY <1>5, <2>1, <2>2, <2>3 DEF Finish, LC!Target
<1> QED BY <1>4, <1>5

LEMMA AudioEnds ==
  ASSUME TypeOK, Chain, AInv, HandlerEnds, "audio" \notin closed', ~ejected'
  PROVE  IF state' = "GamePaused" THEN wasMuted' = wants' ELSE mute' = wants'
<1>1. closed' = closed
  BY DEF HandlerEnds, Quiet, partsVars
<1>2. CASE ~Broadcast
  <2>1. UNCHANGED audioViewVars /\ state # "GamePaused" /\ state' # "GamePaused"
    BY <1>2, EndsFind DEF HandlerEnds, Quiet, partsVars
  <2> QED BY <1>1, <2>1 DEF AInv, audioViewVars
<1>3. CASE Broadcast
  <2>1. /\ Top.m \in LC!Method \ {"quit"} /\ state = Top.from
        /\ LC!Handles(Top.m, Top.from)
        /\ \/ state' = LC!Target(Top.m, Top.from)
           \/ Top.m = "resetGame" /\ state' = state
    BY <1>3, EndsFind
  <2>2. AudioHears(EventOf(Top.m), Top.from = "GamePaused")
    BY <1>3 DEF HandlerEnds
  <2>3. CASE Top.m = "pauseGame"
    <3>1. MuteForPause /\ state = "GameRunning" /\ state' = "GamePaused"
      BY <1>1, <2>1, <2>2, <2>3, Events
         DEF AudioHears, LC!Handles, LC!Sources, LC!Target
    <3> QED BY <1>1, <3>1 DEF MuteForPause, AInv
  <2>4. CASE Top.m = "resumeGame"
    <3>1. Unmute /\ state = "GamePaused" /\ state' = "GameRunning"
      BY <1>1, <2>1, <2>2, <2>4, Events
         DEF AudioHears, LC!Handles, LC!Sources, LC!Target
    <3> QED BY <1>1, <3>1 DEF Unmute, AInv
  <2>5. CASE Top.m = "unloadGame"
    <3>1. DestroyResampler(state = "GamePaused") /\ state' = "ConsoleLoaded"
      BY <1>1, <2>1, <2>2, <2>5, Events DEF AudioHears, LC!Target
    <3> QED BY <1>1, <3>1 DEF DestroyResampler, AInv
  <2>6. CASE Top.m \notin {"pauseGame", "resumeGame", "unloadGame"}
    <3>1. UNCHANGED <<mute, wasMuted, wants, ejected>>
      BY <1>1, <2>1, <2>2, <2>6, Events
         DEF AudioHears, CreateResampler, ClearSamples, audioViewVars, LC!Method
    <3>2. state' = "GamePaused" <=> state = "GamePaused"
      BY <2>1, <2>6 DEF LC!Handles, LC!Sources, LC!Target, LC!Method
    <3> QED BY <1>1, <3>1, <3>2 DEF AInv
  <2> QED BY <2>3, <2>4, <2>5, <2>6
<1> QED BY <1>2, <1>3

LEMMA AudioInv ==
  ASSUME TypeOK, Chain, AInv, [SessionNext]_sessionVars
  PROVE  AInv'
<1>0. AudioViewTypeOK' /\ (closed \subseteq closed')
  BY StepOfAudioView, AudioViewType, ClosedGrows DEF AInv, Close
<1>1. CASE HandlerEnds
  BY <1>0, <1>1, AudioEnds DEF AInv
<1>2. CASE ~HandlerEnds
  <2>1. state' = state
    BY <1>2, StateSteps DEF sessionVars, vars
  <2>2. CASE UNCHANGED audioViewVars \/ SampleAndFlush \/ SampleOnly
    <3>1. UNCHANGED <<mute, wasMuted, wants, ejected>>
      BY <2>2 DEF audioViewVars, SampleAndFlush, SampleOnly
    <3> QED BY <1>0, <2>1, <3>1 DEF AInv
  <2>3. CASE ClickMute(state = "GamePaused") /\ UNCHANGED closed
    <3>1. CASE state = "GamePaused"
      BY <1>0, <2>1, <2>3, <3>1 DEF AInv, ClickMute
    <3>2. CASE state # "GamePaused"
      BY <1>0, <2>1, <2>3, <3>2 DEF AInv, ClickMute
    <3> QED BY <3>1, <3>2
  <2> QED BY <1>2, <2>2, <2>3, AudioSteps
<1> QED BY <1>1, <1>2

(* A game plays muted when the user wants it, for any sequence of pauses,  *)
(* resets, steps, ejections and clicks.                                    *)
THEOREM SessionMuteIsUsers ==
  ASSUME ConsiderateScripts
  PROVE  SessionSpec => []MuteIsUsers
<1>1. SessionInit => AInv
  <2> SUFFICES ASSUME SessionInit PROVE AInv
    OBVIOUS
  <2>1. AudioViewTypeOK
    BY PartsInitType
  <2>2. mute = FALSE /\ wants = FALSE /\ state = "Start"
    BY DEF SessionInit, AudioViewInit, Init
  <2> QED BY <2>1, <2>2 DEF AInv
<1>2. TypeOK /\ Chain /\ AInv /\ [SessionNext]_sessionVars => AInv'
  BY AudioInv
<1>3. AInv => MuteIsUsers
  BY DEF AInv, MuteIsUsers
<1> QED BY <1>1, <1>2, <1>3, SessionChain, PTL DEF SessionSpec

-----------------------------------------------------------------------------
(* The texture of a game that runs has room for the frames the core may    *)
(* draw, and the part of it that is drawn lies within it.                  *)
VInv ==
  /\ VideoTypeOK
  /\ (core = "game" /\ part = "video") => Fits(geometry, texture)
  /\ ~replaced => Fits(image, texture)

LEMMA ExtentOfNats ==
  ASSUME NEW g \in Extent
  PROVE  g.w \in Nat /\ g.h \in Nat
<1>1. Size \union {0} \subseteq Nat
  BY VideoAssumption
<1>2. g.w \in Size \union {0} /\ g.h \in Size \union {0}
  BY DEF Extent
<1> QED BY <1>1, <1>2

LEMMA FitsItself ==
  ASSUME NEW g \in Extent
  PROVE  Fits(g, g) /\ Fits(Nil, Nil)
<1>1. g.w \in Nat /\ g.h \in Nat
  BY ExtentOfNats
<1> QED BY <1>1 DEF Fits, Nil

LEMMA FitTextureFits ==
  ASSUME VideoTypeOK, NEW g \in Extent, FitTexture(g), ~replaced => Fits(image, texture)
  PROVE  Fits(geometry, texture)' /\ (~replaced' => Fits(image, texture)')
<1>1. CASE Fits(g, texture)
  BY <1>1 DEF FitTexture, Fits
<1>2. CASE ~Fits(g, texture)
  <2>1. geometry' = g /\ texture' = g /\ replaced'
    BY <1>2 DEF FitTexture
  <2> QED BY <2>1, FitsItself DEF Fits
<1> QED BY <1>1, <1>2

LEMMA FramesFit ==
  ASSUME VInv, core = "game", part = "video", CoreRuns
  PROVE  Fits(geometry, texture)' /\ (~replaced' => Fits(image, texture)')
<1>1. CASE UNCHANGED videoVars
  BY <1>1 DEF VInv, videoVars, Fits
<1>2. ASSUME NEW w \in Size, NEW h \in Size, NEW g, g = [w |-> w, h |-> h], SetGeometry(g)
      PROVE  Fits(geometry, texture)' /\ (~replaced' => Fits(image, texture)')
  <2>1. g \in Extent
    BY <1>2 DEF Extent
  <2> QED BY <1>2, <2>1, FitTextureFits DEF SetGeometry, VInv
<1>3. ASSUME NEW w \in Size, NEW h \in Size, NEW g, g = [w |-> w, h |-> h], Refresh(g)
      PROVE  Fits(geometry, texture)' /\ (~replaced' => Fits(image, texture)')
  <2>1. /\ g \in Extent /\ geometry \in Extent /\ texture \in Extent
        /\ Fits(g, geometry) /\ Fits(geometry, texture)
    BY <1>3 DEF Extent, Refresh, VInv, VideoTypeOK
  <2>2. /\ g.w \in Nat /\ geometry.w \in Nat /\ texture.w \in Nat
        /\ g.h \in Nat /\ geometry.h \in Nat /\ texture.h \in Nat
    BY <2>1, ExtentOfNats
  <2>3. Fits(g, texture)
    BY <2>1, <2>2 DEF Fits
  <2> QED BY <1>3, <2>1, <2>3 DEF Refresh, Fits
<1> QED BY <1>1, <1>2, <1>3 DEF CoreRuns, VideoOnly, Quiet, partsVars

LEMMA VideoSteps ==
  ASSUME [SessionNext]_sessionVars
  PROVE  \/ UNCHANGED videoVars /\ ~(LoadsGame /\ part = "video")
         \/ /\ LoadsGame /\ part = "video"
            /\ \E f \in {format, "RGB565"}, w, h \in Size :
                 SetAvInfo(f, [w |-> w, h |-> h])
         \/ (LoopFrame \/ StepFrame) /\ CoreRuns /\ part = "video"
         \/ HandlerEnds /\ Broadcast /\ VideoHears(EventOf(Top.m))
<1>1. CASE LoadsGame
  BY <1>1 DEF LoadsGame, VideoOnly, KeyboardOnly, Quiet, partsVars
<1>2. CASE HandlerEnds
  BY <1>2 DEF HandlerEnds, Quiet, partsVars, LoadsGame, CoreAccepts, Finish,
              ResetRefused, Broadcast, At
<1>3. CASE ~LoadsGame /\ ~HandlerEnds
  BY <1>3 DEF SessionNext, sessionVars, partsVars, Quiet, PollInput, LoopFrame,
              StepFrame, CoreRuns, LoadsCore, Unloads, Draws, Clicks, Widget, Close,
              Others, PadsOnly, KeyboardOnly, ConsolesOnly, AudioOnly, VideoOnly,
              GaugesOnly
<1> QED BY <1>1, <1>2, <1>3

(* A frame of the core is run with its game there.                         *)
LEMMA RunsGame ==
  ASSUME CoreUnloads, TypeOK, Chain, LoopFrame \/ StepFrame
  PROVE  core = "game" /\ core' = "game"
<1>1. CASE LoopFrame
  BY <1>1 DEF LoopFrame, RunFrame, Chain, Agree, CoreOf, LC!InGame
<1>2. CASE StepFrame
  BY <1>2 DEF StepFrame, CoreAccepts, Accepts, Needs, Leaves
<1> QED BY <1>1, <1>2

LEMMA VideoInv ==
  ASSUME ConsiderateScripts, CoreUnloads, TypeOK, Chain, VInv, [SessionNext]_sessionVars
  PROVE  VInv'
<1>0. VideoTypeOK' /\ [Next]_vars /\ part' = part
  BY StepOfVideo, VideoType, SessionStep, ClosedGrows DEF VInv
<1>1. CASE UNCHANGED videoVars /\ ~(LoadsGame /\ part = "video")
  <2>1. (core' = "game" /\ part = "video") => core = "game"
    <3> SUFFICES ASSUME core' = "game", part = "video", core # "game" PROVE FALSE
      OBVIOUS
    <3>1. CoreAccepts /\ Top.m = "loadGame" /\ SessionNext
      BY <1>0, CoreGoes DEF sessionVars, vars
    <3> QED BY <1>1, <3>1, CoreSteps DEF LoadsCore, Unloads, StepFrame
  <2> QED BY <1>0, <1>1, <2>1 DEF VInv, videoVars, Fits
<1>2. ASSUME NEW f, NEW w \in Size, NEW h \in Size, NEW g, g = [w |-> w, h |-> h],
             SetAvInfo(f, g)
      PROVE  VInv'
  <2>1. g \in Extent
    BY <1>2 DEF Extent
  <2> QED BY <1>0, <1>2, <2>1, FitTextureFits DEF SetAvInfo, VInv
<1>3. CASE (LoopFrame \/ StepFrame) /\ CoreRuns /\ part = "video"
  BY <1>0, <1>3, RunsGame, FramesFit DEF VInv
<1>4. CASE HandlerEnds /\ Broadcast /\ VideoHears(EventOf(Top.m))
  <2>1. core' = core /\ Nil \in Extent
    BY <1>4 DEF HandlerEnds, Finish, ResetRefused, Nil, Extent
  <2>2. CASE ForgetFormat \/ UNCHANGED videoVars
    BY <1>0, <2>1, <2>2 DEF ForgetFormat, videoVars, VInv, Fits
  <2>3. CASE DeleteTexture /\ EventOf(Top.m) = "onGameUnloaded"
    <3>1. Top.m \in LC!Method \ {"quit"} /\ Top.m # "run"
      BY <1>4, EndsFind
    <3>2. Top.m = "unloadGame"
      BY <2>3, <3>1, Events DEF LC!Method
    <3>3. core = "loaded"
      BY <1>4, <3>1, <3>2, EventFinds
    <3> QED BY <1>0, <2>1, <2>3, <3>3, FitsItself DEF DeleteTexture, VInv, Fits
  <2> QED BY <1>4, <2>2, <2>3 DEF VideoHears
<1> QED BY <1>1, <1>2, <1>3, <1>4, VideoSteps

(* No frame reaches beyond the texture, for any sizes and any order of     *)
(* geometries and frames.                                                  *)
THEOREM SessionFrameFits ==
  ASSUME ConsiderateScripts, CoreUnloads
  PROVE  SessionSpec => []FrameFits
<1>1. SessionInit => VInv
  <2> SUFFICES ASSUME SessionInit PROVE VInv
    OBVIOUS
  <2>1. VideoTypeOK /\ core = "none" /\ image = Nil /\ texture = Nil /\ Nil \in Extent
    BY PartsInitType DEF SessionInit, VideoInit, Init, Nil, Extent
  <2> QED BY <2>1, FitsItself DEF VInv
<1>2. TypeOK /\ Chain /\ VInv /\ [SessionNext]_sessionVars => VInv'
  BY VideoInv
<1>3. VInv => FrameFits
  BY DEF VInv, FrameFits
<1> QED BY <1>1, <1>2, <1>3, SessionChain, PTL DEF SessionSpec

-----------------------------------------------------------------------------
(* Once the views have heard of the end of a game, or of a core, nothing   *)
(* of it is left, until another is loaded.                                 *)
LInv ==
  /\ (core # "game" /\ ~Pending("unloadGame")) => GameLeft
  /\ (core = "none" /\ ~Pending("unloadCore")) => CoreLeft

LEMMA Unended ==
  ASSUME ConsiderateScripts, TypeOK, Chain, [SessionNext]_sessionVars,
         NEW m \in {"unloadGame", "unloadCore"}, Pending(m), ~Pending(m)'
  PROVE  HandlerEnds /\ Broadcast /\ EventOf(Top.m) = EventOf(m) /\ Top.m = m
<1>1. SessionNext
  BY DEF sessionVars, vars, Pending, Broadcast, At, Top
<1> QED BY <1>1, EventEnds DEF Pending

(* What a step without a game, or without a core, may be.                  *)
LEMMA IdleSteps ==
  ASSUME CoreUnloads, TypeOK, Chain, SessionNext, core # "game", core' # "game"
  PROVE  PollInput \/ LoadsCore \/ Unloads \/ HandlerEnds \/ Draws \/ Others
<1>1. ~LoadsGame
  BY DEF LoadsGame, CoreAccepts, Leaves
<1> QED BY <1>1, RunsGame DEF SessionNext

LEMMA GameLeftKept ==
  ASSUME CoreUnloads, TypeOK, Chain, SessionNext, core # "game", core' # "game", GameLeft
  PROVE  GameLeft'
<1>0. "audio" \in closed => "audio" \in closed'
  BY ClosedGrows DEF Close
<1>1. CASE PollInput \/ LoadsCore \/ Unloads \/ Others
  <2>1. /\ UNCHANGED <<audioViewVars, videoVars, leds, scripted, closed>>
    BY <1>1 DEF PollInput, LoadsCore, RegisterRun, RegisterAtLoad, Unloads, Others,
                Quiet, partsVars, PadsOnly, KeyboardOnly, gaugesVars
  <2> QED BY <2>1 DEF GameLeft, audioViewVars, videoVars
<1>2. CASE Draws
  <2>1. UNCHANGED <<resampler, pile, texture, image>> /\ closed \subseteq closed'
    BY <1>2 DEF Draws, Clicks, Widget, Close, Quiet, partsVars, PadsOnly,
                KeyboardOnly, ConsolesOnly, AudioOnly, GaugesOnly, ClickMute,
                audioViewVars, videoVars
  <2>2. UNCHANGED <<leds, scripted>> \/ scripted'
    BY <1>2 DEF Draws, Clicks, Widget, Close, Quiet, partsVars, PadsOnly,
                KeyboardOnly, ConsolesOnly, AudioOnly, GaugesOnly, gaugesVars,
                SetLed, RegisterScript
  <2> QED BY <2>1, <2>2 DEF GameLeft
<1>3. CASE HandlerEnds
  <2>1. CASE ~Broadcast
    BY <1>3, <2>1 DEF HandlerEnds, Quiet, partsVars, GameLeft, audioViewVars,
                      videoVars, gaugesVars
  <2>2. CASE Broadcast
    <3>1. /\ Top.m \in LC!Method \ {"quit"} /\ Top.m # "run"
          /\ Top.m # "loadGame" /\ Top.m # "resetGame"
      BY <1>3, <2>2, EndsFind, EventFinds
    <3>2. EventOf(Top.m) \notin {"onGameLoaded", "onGameReset"}
      BY <3>1, Events DEF LC!Method
    <3>3. /\ closed' = closed
          /\ AudioHears(EventOf(Top.m), Top.from = "GamePaused")
          /\ VideoHears(EventOf(Top.m)) /\ GaugesHear(EventOf(Top.m))
      BY <1>3, <2>2 DEF HandlerEnds
    <3>4. "audio" \in closed' \/ (~resampler' /\ pile' = 0)
      BY <3>2, <3>3 DEF GameLeft, AudioHears, MuteForPause, Unmute, DestroyResampler,
                        audioViewVars
    <3>5. "video" \in closed' \/ (texture' = Nil /\ image' = Nil)
      BY <3>3 DEF GameLeft, VideoHears, DeleteTexture, ForgetFormat, videoVars
    <3>6. "led" \in closed' \/ scripted' \/ leds' = <<>>
      BY <3>2, <3>3 DEF GameLeft, GaugesHear, ClearLeds, DropCounters, gaugesVars
    <3> QED BY <3>4, <3>5, <3>6 DEF GameLeft, Nil
  <2> QED BY <2>1, <2>2
<1> QED BY <1>1, <1>2, <1>3, IdleSteps

LEMMA CoreLeftKept ==
  ASSUME CoreUnloads, TypeOK, Chain, SessionNext, core = "none", core' = "none", CoreLeft
  PROVE  CoreLeft'
<1>1. CASE PollInput \/ Others
  <2>1. UNCHANGED <<videoVars, consolesVars, gaugesVars, closed>>
    BY <1>1 DEF PollInput, Others, Quiet, partsVars, PadsOnly, KeyboardOnly
  <2> QED BY <2>1 DEF CoreLeft, videoVars, consolesVars, gaugesVars
<1>2. ~LoadsCore /\ ~Unloads
  BY DEF LoadsCore, Unloads, CoreAccepts, Accepts, Needs, Leaves
<1>3. CASE Draws
  <2>1. UNCHANGED <<format, extensions>> /\ closed \subseteq closed'
    BY <1>3 DEF Draws, Clicks, Widget, Close, Quiet, partsVars, PadsOnly,
                KeyboardOnly, ConsolesOnly, AudioOnly, GaugesOnly, AddConsole,
                ChooseConsole, OpenConsole, videoVars, consolesVars
  <2>2. counters' = counters \/ \E x \in Ident : RegisterScript(x)
    BY <1>3 DEF Draws, Clicks, Widget, Close, Quiet, partsVars, PadsOnly,
                KeyboardOnly, ConsolesOnly, AudioOnly, GaugesOnly, gaugesVars, SetLed
  <2>3. (\A x \in DOMAIN counters : counters[x] = "script")
          => \A x \in DOMAIN counters' : counters'[x] = "script"
    BY <2>2 DEF RegisterScript, With
  <2> QED BY <2>1, <2>3 DEF CoreLeft
<1>4. CASE HandlerEnds
  <2>1. CASE ~Broadcast
    BY <1>4, <2>1 DEF HandlerEnds, Quiet, partsVars, CoreLeft, consolesVars,
                      videoVars, gaugesVars
  <2>2. CASE Broadcast
    <3>1. /\ closed' = closed /\ VideoHears(EventOf(Top.m))
          /\ GaugesHear(EventOf(Top.m)) /\ ControlHears(EventOf(Top.m))
      BY <1>4, <2>2 DEF HandlerEnds
    <3>2. counters' = counters \/ counters' = NoCounter
      BY <3>1 DEF GaugesHear, LedsOff, ClearLeds, DropCounters, gaugesVars
    <3>3. format' = format \/ format' = "UNKNOWN"
      BY <3>1 DEF VideoHears, DeleteTexture, ForgetFormat, videoVars
    <3>4. extensions' = extensions \/ extensions' = 0
      BY <3>1 DEF ControlHears, CloseConsole, consolesVars
    <3> QED BY <3>1, <3>2, <3>3, <3>4 DEF CoreLeft, NoCounter
  <2> QED BY <2>1, <2>2
<1> QED BY <1>1, <1>2, <1>3, <1>4, IdleSteps

LEMMA LeftInv ==
  ASSUME ConsiderateScripts, CoreUnloads, TypeOK, Chain, LInv, [SessionNext]_sessionVars
  PROVE  LInv'
<1>0. [Next]_vars
  BY SessionStep
<1>1. ASSUME core' # "game", ~Pending("unloadGame")'
      PROVE  GameLeft'
  <2>1. CASE Pending("unloadGame")
    <3>1. /\ HandlerEnds /\ Broadcast /\ EventOf(Top.m) = "onGameUnloaded"
      BY <1>1, <2>1, Unended, Events
    <3>2. /\ AudioHears("onGameUnloaded", Top.from = "GamePaused")
          /\ VideoHears("onGameUnloaded") /\ GaugesHear("onGameUnloaded")
          /\ closed' = closed
      BY <3>1 DEF HandlerEnds
    <3>3. "audio" \in closed' \/ (~resampler' /\ pile' = 0)
      BY <3>2 DEF AudioHears, DestroyResampler
    <3>4. "video" \in closed' \/ (texture' = Nil /\ image' = Nil)
      BY <3>2 DEF VideoHears, DeleteTexture
    <3>5. "led" \in closed' \/ scripted' \/ leds' = <<>>
      BY <3>2 DEF GaugesHear, ClearLeds
    <3> QED BY <3>3, <3>4, <3>5 DEF GameLeft, Nil
  <2>2. CASE ~Pending("unloadGame")
    <3>1. core # "game"
      BY <1>0, <1>1, CoreGoes
    <3>2. GameLeft
      BY <2>2, <3>1 DEF LInv
    <3>3. CASE UNCHANGED sessionVars
      BY <3>2, <3>3 DEF GameLeft, sessionVars, partsVars, audioViewVars, videoVars,
                        gaugesVars
    <3> QED BY <1>1, <3>1, <3>2, <3>3, GameLeftKept
  <2> QED BY <2>1, <2>2
<1>2. ASSUME core' = "none", ~Pending("unloadCore")'
      PROVE  CoreLeft'
  <2>1. CASE Pending("unloadCore")
    <3>1. /\ HandlerEnds /\ Broadcast /\ EventOf(Top.m) = "onCoreUnloaded"
      BY <1>2, <2>1, Unended, Events
    <3>2. /\ VideoHears("onCoreUnloaded") /\ GaugesHear("onCoreUnloaded")
          /\ ControlHears("onCoreUnloaded") /\ closed' = closed
      BY <3>1 DEF HandlerEnds
    <3>3. "perf" \in closed' \/ counters' = NoCounter
      BY <3>2 DEF GaugesHear, DropCounters
    <3>4. "video" \in closed' \/ format' = "UNKNOWN"
      BY <3>2 DEF VideoHears, ForgetFormat
    <3>5. "control" \in closed' \/ extensions' = 0
      BY <3>2 DEF ControlHears, CloseConsole
    <3> QED BY <3>3, <3>4, <3>5 DEF CoreLeft, NoCounter
  <2>2. CASE ~Pending("unloadCore")
    <3>1. core = "none"
      BY <1>0, <1>2, CoreGoes
    <3>2. CoreLeft
      BY <2>2, <3>1 DEF LInv
    <3>3. CASE UNCHANGED sessionVars
      BY <3>2, <3>3 DEF CoreLeft, sessionVars, partsVars, consolesVars, videoVars,
                        gaugesVars
    <3> QED BY <1>2, <3>1, <3>2, <3>3, CoreLeftKept
  <2> QED BY <2>1, <2>2
<1> QED BY <1>1, <1>2 DEF LInv

(* A game and a core leave nothing behind in the views that hear of their  *)
(* end, whatever was loaded, drawn, registered and closed before.          *)
THEOREM SessionNothingLeft ==
  ASSUME ConsiderateScripts, CoreUnloads
  PROVE  SessionSpec => []NothingLeft
<1>1. SessionInit => LInv
  BY DEF SessionInit, AudioViewInit, VideoInit, GaugesInit, ConsolesInit, LInv,
         GameLeft, CoreLeft, NoCounter
<1>2. TypeOK /\ Chain /\ LInv /\ [SessionNext]_sessionVars => LInv'
  BY LeftInv
<1>3. LInv => NothingLeft
  BY DEF LInv, NothingLeft, Pending, Broadcast, At
<1> QED BY <1>1, <1>2, <1>3, SessionChain, PTL DEF SessionSpec

-----------------------------------------------------------------------------
LEMMA SessionEndInStep ==
  ASSUME ConsiderateScripts, BurstQuits = FALSE, "quit" \notin ReplMethods
  PROVE  SessionSpec => [](TypeOK /\ Chain /\ EndInStep)
BY SessionIsApplication, RunsEndInStep, PTL

(* run() has been told of the end exactly in the final state.              *)
THEOREM SessionDoneWhenQuit ==
  ASSUME ConsiderateScripts, BurstQuits = FALSE, "quit" \notin ReplMethods
  PROVE  SessionSpec => []DoneWhenQuit
BY SessionIsApplication, RunsDoneWhenQuit, PTL

(* That a step can be taken until run() has ended, which is ENABLED and so *)
(* nothing the prover can work out.                                        *)
NeverStuck == phase # "exit" => ENABLED <<SessionNext>>_sessionVars

(* Once the machine is in its final state run() ends: in at most six steps *)
(* the quit()s return, the loop's turn is finished and the program leaves, *)
(* since in Quit no method has a case left.                                *)
THEOREM SessionQuitEndsLoop ==
  ASSUME ConsiderateScripts, BurstQuits = FALSE, "quit" \notin ReplMethods
  PROVE  SessionSpec /\ []NeverStuck => QuitEndsLoop
<1> DEFINE Inv == TypeOK /\ Chain /\ EndInStep
<1>1. ASSUME NEW n \in 1..6, Inv, Leaving(n), [SessionNext]_sessionVars
      PROVE  Leaving(n)' /\ (SessionNext => Leaving(n - 1)')
  <2>1. SessionNext => Leaving(n - 1)'
    BY <1>1, LeavingSteps, SessionMove
  <2>2. Leaving(n - 1)' => Leaving(n)'
    BY DEF Leaving
  <2>3. UNCHANGED sessionVars => Leaving(n)'
    BY <1>1 DEF Leaving, Ahead, vars, sessionVars
  <2> QED BY <1>1, <2>1, <2>2, <2>3
<1>2. /\ Inv /\ Leaving(6) /\ [SessionNext]_sessionVars => Leaving(6)'
      /\ Inv /\ Leaving(6) /\ <<SessionNext>>_sessionVars => Leaving(5)'
  BY <1>1 DEF Leaving
<1>3. /\ Inv /\ Leaving(5) /\ [SessionNext]_sessionVars => Leaving(5)'
      /\ Inv /\ Leaving(5) /\ <<SessionNext>>_sessionVars => Leaving(4)'
  BY <1>1 DEF Leaving
<1>4. /\ Inv /\ Leaving(4) /\ [SessionNext]_sessionVars => Leaving(4)'
      /\ Inv /\ Leaving(4) /\ <<SessionNext>>_sessionVars => Leaving(3)'
  BY <1>1 DEF Leaving
<1>5. /\ Inv /\ Leaving(3) /\ [SessionNext]_sessionVars => Leaving(3)'
      /\ Inv /\ Leaving(3) /\ <<SessionNext>>_sessionVars => Leaving(2)'
  BY <1>1 DEF Leaving
<1>6. /\ Inv /\ Leaving(2) /\ [SessionNext]_sessionVars => Leaving(2)'
      /\ Inv /\ Leaving(2) /\ <<SessionNext>>_sessionVars => Leaving(1)'
  BY <1>1 DEF Leaving
<1>7. /\ Inv /\ Leaving(1) /\ [SessionNext]_sessionVars => Leaving(1)'
      /\ Inv /\ Leaving(1) /\ <<SessionNext>>_sessionVars => Leaving(0)'
  BY <1>1 DEF Leaving
<1>8. Inv /\ state = "Quit" => Leaving(6)
  BY LeavingStarts
<1>9. Inv /\ Leaving(0) => phase = "exit"
  BY LeavingStarts DEF Leaving
<1>10. Inv /\ NeverStuck => phase = "exit" \/ ENABLED <<SessionNext>>_sessionVars
  BY DEF NeverStuck
<1> HIDE DEF Inv
<1>11. SessionSpec => []Inv
  BY SessionEndInStep DEF Inv
<1> QED BY <1>2, <1>3, <1>4, <1>5, <1>6, <1>7, <1>8, <1>9, <1>10, <1>11, PTL
       DEF SessionSpec, QuitEndsLoop
=============================================================================
