# Hackable Console: a TLA+ verification

Hackable Console (`hc`) is a libretro front-end for people who take games
apart: it loads *cores* (emulators as shared libraries), runs their games, and
lets the user look at and change the game's memory, step the emulated CPUs and
script everything in Lua. This directory holds TLA+ models of its parts, the
TLC runs that check them and TLAPS proofs about them.

Contents

1. The system, part by part
2. The modules
3. The runs, their bounds and what they show
4. Fairness
5. The proofs
6. What goes wrong in the code
7. What is not modelled, and what the models leave out
8. Plan

Paths are relative to the repository; `X.cpp` is `src/X.cpp`. To repeat a check:
`tlc -config app.cfg MCSession`, `tlapm SessionProofs.tla`.

## 1. The system, part by part

There are two threads. The main thread polls SDL, runs the core's frames, draws
the ImGui windows and runs all Lua code; SDL's audio thread calls
`Application::audioCallback`. All else that interleaves does so on the one
stack of the main thread: a core calls the front-end back while the front-end
is calling it, Lua callbacks call methods whose callers have not finished, and
windows create windows while the set of windows is being iterated.

| Part | State | Operations | What must hold |
|---|---|---|---|
| **Life cycle** (`LifeCycle.fsm`, `.cpp`) | `__state`, one of six | `loadCore`, `loadGame`, `startGame`, `pauseGame`, `resumeGame`, `resetGame`, `step`, `unloadGame`, `unloadCore`, `quit` | the state says what is loaded; `quit()` is all or nothing; assignments follow the table the GUI is offered |
| **Application** (`Application.cpp`, `Timer.h`) | main loop, `_runningTime`, front-end | `init`, `run`, `destroy`, the ten handlers of the state machine | core is called in the order of the libretro protocol; timer follows the state; quitting ends the loop |
| **Control** (`Control.cpp`) | consoles, selected and opened index | buttons, `hc.control`, `onXxx` callbacks of the console | a callback may call the state machine and finds it consistent |
| **Audio** (`Audio.cpp`, `Fifo.cpp`) | ring buffer, device | `flush`, `audioCallback`, allocation and teardown | no overrun, a queue of whole frames, the callback never copies from a buffer that is gone |
| **Handle allocator** (`Handle.h`) | slots, counters, free list | `allocate`, `translate`, `free`, `reset` | a dead handle never names anything again |
| **Desktop** (`Desktop.cpp`) | set of views, their `opened` flags | `addView`, `onDraw`, the sweep, the broadcasts | views are told of a game's end before they read it again |
| **Memory** (`Memory.cpp`) | regions, handles, watches | `add`, `hc.memory.xxx`, watch windows, `find` | no access to memory of a game that is gone; a search finds the first match and stays in its region |
| **Debugger** (`Debugger.cpp`, `Cpu.cpp`, `cpus/`) | the core's debugger interface, `_paused` | `onGameLoaded`, `tick`, Cpu and Disasm windows | windows are invalidated with the game; the front-end answers |
| **Devices, Input** (`Devices.cpp`, `Input.cpp`) | controllers, ports, types, combos | hot-plugging, combos, `setControllerInfo`, `poll`, `state` | the list is what is plugged in; a port keeps its controller and never a deleted one |
| **Config** (`Config.cpp`) | core options, regions made by scripts, memory map, paths | the libretro environment calls, combos, `hc.config` | a key finds its option; a core knows the values the user sees; addresses find their byte |
| **Cheats** (`cheats/`) | snapshots, address sets, the search | `start`, `next`, filters, set operators | the search keeps exactly the addresses that passed every filter |
| **Controller, Keyboard** (`Devices.cpp`, `Input.cpp`) | buttons, axes, emulation settings; keys, locks, the core's callback | SDL events, widgets, `state`, `poll` | no button the user does not press; the core knows the keys that are down |
| **Audio view** (`Audio.cpp`) | Mute box, resampler, samples that wait | the box, reactions to a game's life | the box is the user's, what a pause makes of it ends with the pause |
| **Video** (`Video.cpp`) | texture, its size, the part drawn, pixel format | `setGeometry`, `setSystemAvInfo`, `refresh` | frames and what is drawn lie within the texture |
| **Perf, Led** (`Perf.cpp`, `Led.cpp`) | counters by name, LED states | `register`, `setState`, drawing | no counter of a core that is gone |
| **Logger, Lua prompt** | text | drawing and formatting | nothing beyond I/O |

How they interact. `Application` is a `Desktop` and owns everything. A click, a
line in the Lua prompt, a console's callback or a closed window calls a method
of the life cycle; its handler calls the lrcpp front-end, which calls the core,
which calls `Config`, `Input`, `Audio`, `Video` back; then the handler
broadcasts an event over the desktop's views, each of which ends or begins what
it keeps for a core or a game, and `Control` passes it to the Lua callback of
the opened console, found by an index in a list that scripts add to. `Devices` tells `Input` of every controller.
`Config` and the debugger put regions in `MemorySelector`, whose handles the
watches, the Lua handles and the cheat search keep. The audio FIFO is the only
thing that both threads share.

What is hard: an event that is broadcast in the middle of a transition; failing
in the middle of a chain; two critical sections where one is meant; views and
handles that outlive their game; a window that is closed, and with it what its view would have done later; a box
that two owners set; several sources for
one button; things a core leaves in four views; hot-plugging, where SDL numbers controllers in
two ways; announcements that a core may make early, late or twice; unsigned
arithmetic around the ends of things. `PROJECT.json` lists these hazards, each
at its line and with the property that would catch it.

## 2. The modules

| Module | Models | State and actions in the code's terms |
|---|---|---|
| `LifeCycle` | what `LifeCycle.fsm` declares | one atomic step per method; `Handles` and `Target` are the table of cases, `CanTransitionTo` that of `canTransitionTo()` |
| `Application` | `LifeCycle.cpp` called by, and calling, `Application.cpp` | `stack` is the C++ call stack, a frame per active method with the step it is at; `state` is `__state`, assigned in `Finish`, *after* the handler; `phase` is the place in `run()` |
| `SampleQueue` | what the audio FIFO promises: a bounded queue | `Put`, `Get` |
| `Fifo` | `Fifo.cpp` | `buffer`, `first`, `last`, `avail`; `Write` and `Read` with their two `memcpy`s |
| `AudioPath` | `Audio::flush`, `audioCallback`, the audio part of `init`, its Undo list and `destroy` | `main` and `thread` are the program counters, `room` and `ready` the sizes each read before it acts |
| `HandleTable` | what handles promise: names used once | `Allocate`, `Free`, `Reset` |
| `HandleAllocator` | `Handle.h` | `element` is the union of an object and the next index; `issued` is every handle somebody may still hold |
| `Views` | the sets and windows of `Desktop.cpp`, `Memory.cpp`, `Debugger.cpp`, `Cpu.cpp` | `todo` is the rest of the draw loop's iteration, which `AddView` may rehash; `table` stands for the handle allocator by `HandleTable`'s promise; a region is known by its game, or as `Kept` when it is made of a pointer of an earlier one |
| `MemoryFind` | `Memory::find` | `address`, `offset` are `i` and `j` of its loops, and a step is one comparison, so that each `peek()` is seen; `begin` is `*start` as it came in (history) |
| `CheatSets` | `cheats/Set.cpp` | the four cases of every operation |
| `CheatSearch` | `cheats/Filter.cpp`, `Snapshot.cpp`, `Cheats.lua` | `value1`, `value2` are the rolling windows, `found` the `result`; `set` and `current` are the Lua table's fields |
| `Searches` | a script that uses either of the two | `part` is the one it uses |
| `Devices` | `Devices.cpp` and the SDL queue as it uses it (external) | `connected` is in the order of device indices and holds instance ids; `opened` is history |
| `Input` | `Input.cpp`, composed with `Devices`, whose handlers call it | `types`, `ports`, `sorted` are `_controllerTypes`, `_ports`, `_controllers`; `told` is what the core knows (external); `managed` says that the window was not closed (`Desktop::_views` has the view), `heard` and `missed` what the view heard of the cores (history) |
| `CoreOptions` | options in `Config.cpp` | `coreOptions`, `coreMap`, `optionsUpdated`; `known` is what the core last read (external), `quiet` the keys scripts set since, `announced` what the core announced and `missed` whether a core went unheard (history); `managed` as in `Input` |
| `CoreMemory` | `CoreMemory` of `Config.cpp` | the region's members; `rest`, `at`, `found` are the loop's locals |
| `Config` | both, with a game's life | the regions go with the game as long as the memory selector's window is there (`selector`) |
| `Pads` | `Controller` and `VirtualController` | `pressed`, `analogs`, `lastDir` are `_state`, `_analogs`, `_lastDir`; `held` is the switches themselves (external), `unheard` the axes that moved unseen (history) |
| `Keyboard` | `Keyboard`, and `poll()` and the keyboard's `state()` of `Input` | `keyState`, `clicked`, `lock`; `known` is `_keyboardState`; `callback` says whose `_keyboardCallback` is; `heard` is what the core was told (external) |
| `Consoles` | the console list of `Control` | `consoles` is the vector that is always sorted, as a set, and `Position` the index an element has; `chosen`, `console` are the two indices; `wanted`, `prompted`, `shifted` are history, `MaxLists` bounds `extensions` |
| `AudioView` | `Audio` as a view | `mute`, `wasMuted`, `resampler`; `pile` counts the batches in `_samples`; `wants` is the box as the user left it (history) |
| `Video` | `Video.cpp` | `texture`, `image` are the two pairs of sizes, `geometry` what the core announced last |
| `Gauges` | `Perf.cpp`, `Led.cpp` | `counters` maps each name to the owner of its memory; `leds` is `_states` |
| `Session` | `Application` with the six modules above | every step is a step of `Application` and what the views do in it: `PollInput`, `LoopFrame`, `StepFrame`, `LoadsCore`, `LoadsGame`, `Unloads`, `HandlerEnds` (the broadcast), `Draws` (the widgets); `closed` has the views whose windows were closed |
| `MC...` | the values of constants of the runs | |
| `...Proofs` | the theorems | see section 5 |

Definitions whose comment begins with "Mutant:" are a plausible mistake in the
definition they precede. They are used to see that a property notices it: with
the mutant in the definition's place its run must fail. They are in no
specification.

Abstract specifications and what implements them: `LifeCycle` by `Application`
(with `state` mapped to the state that the outermost call found, for the time
it lasts), `SampleQueue` by `AudioPath` (`queue` is the ring's contents),
`HandleTable` by `HandleAllocator` (`table` is the handles that translate) and,
from the other side, by `Views`: what the one promises to those who hold handles
is what the windows and the Lua objects of the other make of them. `Session`'s
steps are steps of `Application`.

## 3. The runs, their bounds and what they show

Seven runs pass and four end in a counterexample. States are distinct states of
the finished searches; each run takes seconds, `app`, `input` and `config` a
minute or two.

**`app`** (`MCSession`, 1,129,336 states). Every click, prompt line and window
close in every state, two window closes, and console callbacks that call
`resetGame` and `step` from all events but `onGameUnloaded`, and `pauseGame`
from `onFrame`, while fewer than three frames are on the stack. The core may
refuse every call but `unload()`. Of the machine: `Consistent` (state, core and
running time), `CallsInProtocol`, `EventsInOrder` (each event of the machine
comes in a state in which a view may expect it, also out of nested calls, and but
for the end nothing happens that the views are not told), `ImplementsLifeCycle` (seen from outside, each call is one step of the atomic
machine), `QuitAllOrNothing`, and of the end `DoneWhenQuit` (outside of a
`quit()` that is under way, `done` is set exactly in Quit) and `QuitEndsLoop`. Three frames are the longest
chain the code itself makes (an unload in `quit` in `quit`). Callbacks add
nothing deeper down: what a frame does depends on its method, the state it was
entered in and how it was returned to.
The calls callbacks make are those that return to the state they came from, or
come after the last use of the state: the next run shows why. `MCSession`
assumes that the scripts are `ConsiderateScripts` and that the core
`CoreUnloads`, so that TLC checks that the theorems speak of this run. `BurstQuits` is
off: one poll delivers one `SDL_QUIT` (see section 6).

Of the views, in these sessions: `NoGhostButtons` (two sticks that share left
and right with two buttons, a trigger, the value at one end, the centre and one
between the thresholds of two sensitivities), `KeysHeard` (one lockable key;
callbacks given at load of a core or a game), `ConsoleCalled` (two consoles, one of them registered
later, in front), `MuteIsUsers`, `FrameFits` (sizes one and two, so that a
geometry may grow in one dimension and shrink in the other), `NothingLeft` (a
name both the core and a script may take, two LEDs).

A behaviour exercises one of these parts (`part`): the parts share no state but
the application's, so that a state of two of them is a pair of states that are
reached apart, and no property speaks of two at once except `NothingLeft`, whose
conjuncts do not. The proofs have the same structure. Input events, one per turn
of the loop, do not lose a case either: the turns without a frame are steps too.
A pad is looked at without a core, as its state depends on no event. Views that
the user closed (`closed`) hear no more events, because the desktop erases them:
`NothingLeft` speaks of the others, and with Control's window gone its buttons
and the console's callbacks are, so that `ConsoleCalled` has nothing to say.
Two lists of extensions (`MaxLists`) are told apart from none and from one.

**`app_reentry`** (counterexample to `Consistent`). The console's
`onGameStarted` callback calls `unloadGame()`.

**`app_lua_quit`** (counterexample to `QuitEndsLoop`). `hc.control:quit()` from
the Lua prompt.

**`handles`** (`HandleAllocator`, 16,884 states). Three slots, counters up to
three, two objects; `free` of every handle ever given out, dead ones included,
and `reset` at any time. Three slots make free lists with a head, a middle and
an end; three counts let a slot be freed, reused, reset and freed again. The
run stops when the counters are used up (no deadlock check). `FreeListSound`
(the list, and that what a live handle names is an object), `DeadStaysDead`,
`ImplementsTable`. The
counters are bounded rather than wrapped: the code's wrap after 2^32 frees of
one slot, which is out of scope.

**`audio_path`** (`AudioPath`, 16,664 states). A FIFO of two periods, as in the
code (a period is four samples instead of 2048), batches from nothing to one
more than the FIFO holds, frames numbered modulo five so that four buffered
frames differ. `NoOverrun` is the check-then-act pair, `StereoAligned` that a cut
batch is cut between frames, `DestroyAfterCallback` the order of teardown
(the callback copies from no buffer that is gone; `init()` may fail with the
device running, and its Undo list frees the FIFO first, but nothing was written
by then), `ImplementsQueue` the ring, `TeardownEnds` that closing does not wait
for ever.

**`views`** (`Views`, 135,641 states). Two windows or Lua objects made on the
fly, two games, top views closed and reopened, all orders of drawing, the set
rehashed by every insertion. Two windows are enough for one that outlives the
other (a Disasm and its Cpu) and for a window of each of two games.
Scripts add regions in
any state, of the loaded game or of a pointer kept from an earlier one, as
`addMemory()` checks neither. `NoStaleReads` (but for those, and until the memory
selector's window is closed); `UsesHandleTable` (the table of the memory selector, seen by
those it gave a handle, is `HandleTable`: one region for each handle, then
nothing for ever); `DrawingEnds` (a drawing that windows add windows to ends all
the same); `DeadWatchesGo` (a watch without its game goes, if it is drawn again
and again or closed).

**`views_tick`** (counterexample to `FrontEndResponds`). A core that sends
`HC_EVENT_TICK`.

**`searches`** (`MCSearches`, 553,344 states). A behaviour has one of the two
searches, which share nothing. The cheats: a region of three bytes at
address five, all contents over {1, 255} (a byte whose sign bit is set and one
whose is not), the game writing between any two calls and ending; values of one
byte, and of two in both orders, signed and unsigned; two operands, one
negative and one too wide for a byte; three operators. Two-byte values in three
bytes have a first address, a rolled one and an end that differs from the
region's. `WindowExact`, `FoundAscends`, `NextNarrows`, `AlgebraHolds`. Four and
eight bytes are beyond TLC's 32-bit integers, and covered by the proofs.

`find()`: regions of up to four bytes that begin at 0 or 1, every content over
two bytes, and six patterns: nothing, one byte, two pairs and two triples, with
and without an overlap with themselves; searched from the first two addresses,
from the last and from behind the end. In four bytes a match can begin inside a
false start and end with the region. `FindExact`: in a region that begins at 0
the result is the first match from the start on, and none only when there is
none; a search that starts at or above the base of its region, wherever that is,
reads nothing else. Regions with a base are excepted from the one and starts
below it from the other, as the code looks at neither (section 6).

**`input`** (`MCInput`, 3,502,296 states). Two controllers plugged in and out
again in every order with polling, two names of which one ties with the
keyboard's virtual controller, two ports, a core that announces a subclassed
joypad, and an analog pad behind a `NONE`, before and after the two standard
types were put in front; Input's window closed at any time, before the first core
too. `PortsAlive` (from the first core on that Input heard of, window closed or
not), `PortsCoherent` (type, combo and what the core was told agree, until a core
comes or goes unheard), `ExactUntilReplugged`, `KeepsController`.

**`input_hotplug`** (counterexample to `HotPlugExact`). One port, one name, two
plugs.

**`config`** (`MCConfig`, 7,484,930 states). Two keys; announcements that repeat
a key in one call and in several, with other values and in another order; up to
five options, which is both announcements and one of them again; Config's and the
memory selector's windows closed at any time; users
and scripts changing values between any two calls, scripts' indices up to one
too large; regions of up to three blocks in words of three bits, so that bases,
sizes and addresses meet the end of the address space, and one block goes around
it. `KeysFindOptions` (a key never leads past the list or to another key's
option; its option is what this core announced, unless a core went unheard),
`Informed`, `AccessExact` (the byte found, and the bounds that Lua's `peek` checks).

Every module has a type invariant, which its proofs use and prove for all
constants (`SpecTypeOK`, `SessionSpecTypeOK`; `SpecFindExact` proves
`FindTypeOK` on its way). A run checks it of `config`, where an index into a table
can leave it. Where a property excepts a
case (`ejected`, `shifted`, `carried`, `closed`, `heard`, `missed`, `unheard`,
`Kept`), the case is one in
which the code does otherwise; section 6 lists them.

## 4. Fairness

Where no liveness is stated none is assumed.

- `Application`, `Session`: `WF_vars(Next)`, `WF_sessionVars(SessionNext)`. The main thread never blocks: while some step
  is possible one is taken. Nothing is assumed of the user, the core or scripts:
  `QuitEndsLoop` speaks only of what happens once the machine is in Quit.
- `AudioPath`: `WF_vars(Main)` and `WF_vars(CallbackReads)`. Both threads are
  scheduled; a callback that has begun ends. The device need not call back, and
  the user need not quit.
- `Views`: `WF_vars(Draw)`. `run()` draws in every turn of its loop. That a
  given window is looked at (not collapsed), or closed, is a hypothesis of
  `DeadWatchesGo`, not an assumption.

The counterexamples to `QuitEndsLoop` and `FrontEndResponds` are under these
specifications; each ends in a state or cycle the code cannot leave.

## 5. The proofs

TLAPS proves the following for every value of the constants. A run's bound
(`MaxSlots`, `Plugs`, `Announcement`...) is a constant like the others there: a
theorem holds for each value, however large.

| Module | Theorems | Inductive invariant |
|---|---|---|
| `HandleProofs` | `SpecTypeOK`, `SpecFreeListSound`, `SpecDeadStaysDead`, `SpecImplementsTable` | `TypeOK`, `FreeListSound`, `IssuedBehind`: an issued handle is never ahead of its slot's counter and is behind it on a free slot, hence `free()` of a dead handle does nothing and each `<<slot, counter>>` is given out once |
| `AudioProofs` | `SpecTypeOK`, `SpecNoOverrun`, `SpecDestroyAfterCallback`, `SpecStereoAligned`, `SpecImplementsQueue`, `SpecTeardownEnds` | `FifoInv` adds `Placed` (the write index is the read index plus what is occupied); `Lifetimes` relates the main thread's place to device and buffer, and says that nothing is written before the loop; `Aligned` says that counts are even and samples on their side |
| `ApplicationProofs` | `SpecTypeOK`; with considerate scripts `SpecQuitAllOrNothing`, `SpecImplementsLifeCycle`, `SpecAssignmentsAllowed` (each raw assignment is one of `canTransitionTo()`'s) and, when `quit()` comes from the window only, `SpecDoneWhenQuit`; if besides the core unloads, `SpecConsistent`, `SpecCallsInProtocol`, `SpecEventsInOrder` | `Chain`: each frame on the stack has the shape of its method, each was called by the one below, either a step of `quit()`'s chain or a callback, which calls from the state its method was entered in and comes back to it, and the top frame finds the core, the timer and the last result as its place says (a callback of `onFrame` in the loop may pause and reset besides, as nothing comes after it). `EndInStep`: who is in a `quit()`, and what `done` will be told. `Lone`: at most one frame on the stack has told the views of a state that it has yet to assign, for only a pause or a resumption lets its callback call, and only what comes back to the state it came from (`resetGame`, `step`); so what the views have heard is `__state` or that frame's target |
| `ViewsProofs` | `SpecTypeOK`, `SpecNoStaleReads`, `SpecUsesHandleTable`, `SpecDeadWatchesGo` | `Readers`, one conjunct per kind of reader; `Swept`: between two drawings all views are open |
| `CheatProofs` | `SpecTypeOK`, `SpecWindowExact`, `SpecFoundAscends`, `SpecNextNarrows`, `SpecAlgebraHolds`; `SpecFindExact`, `SearchesAreBoth` | adds `FoundSoFar`: what is found are the addresses below the loop's that pass. The rolling step is a lemma on integers per width (1, 2, 4, 8) and byte order. `FindInv`: no match begins between `*start` and `i`, the first `j` bytes at `i` are the pattern's, and the bytes compared lie before the loop's end |
| `InputProofs` | `SpecTypeOK`, `SpecPortsAlive`, `SpecPortsCoherent`, `SpecExactUntilReplugged`, `SpecKeepsController` | `Facts` (queue, SDL's numbers and what is open), `Lists` (the two lists have the same members), `PortFacts`, `Exact`; `Alive`: from the first core that was heard of on, also between two cores |
| `ConfigProofs` | `SpecTypeOK`, `SpecKeysFindOptions`, `SpecInformed`, `SpecAccessExact` | `Mapped` and `Faithful` (the map against the list, and the list against what the core announced); `Knowing` (what the core read, while it starts a game too); `Placed` and `Looking` (the blocks follow one another, and what the loop subtracted is where its block starts) |
| `SessionProofs` | `SessionSpecTypeOK`, `SessionIsApplication`, `SessionNoGhostButtons`, `SessionKeysHeard`; with considerate scripts `SessionMuteIsUsers` and, when `quit()` comes from the window only, `SessionDoneWhenQuit`, `SessionQuitEndsLoop`; if besides the core unloads, `SessionInherits`, `SessionConsoleCalled`, `SessionFrameFits`, `SessionNothingLeft` | `SessionIsApplication`: a session's behaviour is one of `Application`, so that `Chain` holds of it and tells which core an event's handler has found. Then one per part: `PInv` (a pressed button is held or some axis wrote it last), `KInv` (what a core was told is `_keyboardState` but for what was in it before), `CInv` (a loaded core has its console, and the index finds it), `AInv` (`wasMuted` is the user's while a game is paused, `mute` else), `VInv`, `LInv` (what is left, except while the event that ends it is on its way) |

The invariants in use are not inductive by themselves. `NoOverrun`, for one,
needs that only the other thread can change the count in between and only to
the better; `Consistent` speaks of an empty stack only and needs to know what
every stack is about to do; `AccessExact` speaks of the loop's end only;
`NoGhostButtons` does not say which axis will release a button; `MuteIsUsers` is
silent while a game is paused, when the value that counts is `wasMuted`.

Assumptions. The `ASSUME`s of the modules type the constants and no more, so
every theorem holds for any values of the right type. What a theorem asks of the
world besides is a hypothesis it states:

- `ConsiderateScripts`: a console's callback may call any method of the state
  machine that has no case in the state it is called in (it returns false), and
  any that returns to that state; it keeps its hands off while a game is being
  ejected. Callbacks that call back, and theirs, three deep or any deep, are
  covered. Without it, `app_reentry` is a counterexample to `Consistent`.
- `CoreUnloads`: the front-end never refuses to unload a core. Without it,
  `LifeCycle.cpp:756` assigns `Start` with the core still there, and with no
  event that says so.
- `BurstQuits = FALSE` and no `quit()` from the prompt, for `DoneWhenQuit` and
  `QuitEndsLoop`: `app_lua_quit` is the counterexample without the latter.

TLC evaluates the first two for `app`'s constants; the last is in `app.cfg`.

Data. What a loop or a recursive definition finds in a sequence is proved by
the least element of a set of positions, for which the library's well-founded
induction on numbers suffices when the formula is a set: that among the options
with a key there is a first one (`ConfigProofs`), and what `Kept`, the recursive
function that builds a port's types, gives for announcements of any length
(`InputProofs`, from `KeptUpTo` to `KeptIs`).

Refinements. `SpecImplementsTable` and `SpecUsesHandleTable` meet in
`HandleTable`: the one says that slots, counters and the free list keep the
table's promise, the other that the desktop needs no more than that promise,
for no window or Lua object changes its handle or gets another one. That no
stale region is read (`SpecNoStaleReads`) then holds of `Views` with the real
allocator.

Liveness, up to `ENABLED`. The prover's temporal logic does not know when an
action is enabled. That part of each argument is a hypothesis of its theorem,
which proves the rest for all constants. `NeverStuck` and `ThreadsGoOn`, defined
beside the theorems, follow from the shape of the definitions (their guards split
the cases, as no C++ call waits but in a join), and the runs check the whole
properties; `DrawingEnds` says more and a run checks it:

- `SessionQuitEndsLoop` from `[]NeverStuck`: in Quit no method has a case left,
  so the frames on the stack can only return; `Leaving(n)` says that at most n
  steps are ahead, n is at most six, and every step of a session takes one off.
- `SpecTeardownEnds` from `[]ThreadsGoOn`: once the main thread waits in
  `SDL_CloseAudioDevice`, the callback, if it has begun, ends; no other begins.
- `SpecDeadWatchesGo` from `DrawingEnds`: a dead watch stays dead, the drawing
  that finds it closes it, nothing opens it again, and the drawing's end sweeps it.

Only model-checked: `DrawingEnds`, which takes an induction over temporal
formulas, on the number of windows that can still be made, and for an endless
supply of them is false.

## 6. What goes wrong in the code

Shown by runs, each contradicting a line of the repository's `README.md`:

1. `LifeCycle.cpp:660` (`app_reentry`): `__state` is assigned after the handler
   has called the Lua callbacks, so a callback that ejects the game leaves
   GameRunning without a game. `README.md:276` promises a consistent status.
2. `Control.cpp:319` (`app_lua_quit`): a `quit()` from Lua reaches Quit while
   only `Application.cpp:411` sets `done`; the loop never ends (`README.md:305`).
3. `Debugger.cpp:214` (`views_tick`): `tick()` waits on the only thread for a
   flag nobody clears (`README.md:174`).
4. `Devices.cpp:59` (`input_hotplug`): an instance id is compared with a device
   index; after one removal the wrong controller goes, or none (`README.md:316`).

Seen while modelling, and without a run of their own, mostly as no line of the
repository promises otherwise or the outcome is outside of C++'s guarantees:

- `Application.cpp:411`: of several `SDL_QUIT` in one poll the last one's result
  wins; the second `quit()` returns false and the loop goes on (`BurstQuits`).
- `LifeCycle.cpp:756`: `unloadCore()` ignores its handler's result.
- `Application.cpp:188`: the Undo list of a failed `init()` frees the FIFO before
  it closes the device that is playing. A callback in between copies nothing, as
  nothing was written yet.
- `Desktop.cpp:203`: a top view whose window is closed is erased from the set at
  the end of the drawing, so that its Open button and its events are gone, while
  the core, the devices and the scripts go on calling it. What then stays:
  - Input's types and ports. Closed before the first core, the ports are
    never initialised and `state()` follows them (`Input.cpp:16`); closed later,
    the next core's types come behind the old one's and its ports are what they
    were (`heard`, `missed`).
  - Config's options, their map and whether they changed: `emplace` keeps the old
    core's index for a key the next one has too (`Config.cpp:452`, `missed`). The
    memory map stays, and `_getCoreProc`, a function of the unloaded library.
  - Control's list of extensions and its opened console; its callbacks end.
  - The memory selector's regions and handles, of a game that is gone.
  - The counters of an unloaded core in Perf, pointers into its memory, and what
    Audio, Video and Led end on a game's end (`closed`).
- `Desktop.cpp:205`, `Debugger.cpp:64`: a Disasm window keeps a pointer to a Cpu
  view whose window may be closed first.
- `cheats/Cheats.cpp:89`: `next()` against the previous snapshot, after the game
  was unloaded, calls a method of a null pointer (state `crashed` of `CheatSearch`).
- `Input.cpp:180`: the keyboard callback outlives its core. `Input.cpp:118`: a
  port's combo may name another controller after the list was sorted, the port
  itself keeping its own. The core is not told of a port that loses its
  controller, nor at its start of ports that are all on None while it assumes a
  RetroPad in each.
- `Devices.cpp:279`: a button that an axis pressed stays pressed when "Analog to
  digital" is switched off before the axis moves again (`unheard`).
  `Devices.cpp:281`: the d-pad and the sticks write the same elements, so that
  one that lets go releases what another holds.
- `Devices.cpp:355`: the menus offer the two Alt keys as locks, `getKey()` does
  not look for them. Keys clicked on the screen, and locks, are in `state()`
  and never in the keyboard callback.
- `Input.cpp:298`: `_keyboardState` survives its core: a key that is down while
  cores change is not announced to the second one (`carried`). `Input.cpp:264`:
  `_lastX` and `_lastY` are not initialised.
- `Audio.cpp:104`: a game ejected while paused leaves the box checked: the next
  one plays muted (`ejected`). `Audio.cpp:34`, `Application.cpp:561`: samples pile
  up while a game is stepped, or runs without a resampler.
- `Application.cpp:606`: the pace of frames, and `Audio`'s ratio, are computed
  when a game was loaded and not when the core changes its timing.
- `Perf.cpp:94`: `stop()` without `start()` adds the time since the epoch.
- `Led.cpp:48`: setting an LED drops the higher ones.
- `Config.cpp:591`: a value set by a script is not announced to the core
  (`quiet` excepts it from `Informed`). A key announced twice shows a second
  combo that the core never reads. `Config.cpp:376`: the memory map of a game is
  kept, with its pointers, until the core is unloaded, and `l_addMemory()` makes a
  region of whatever pointer it gets, game or no game (`Kept`).
- `Memory.cpp:167`: `find()` compares no address with its region's base, as `peek`
  and `poke` of Lua do. A start below it is passed on to the core, of whose `peek`
  `README.md:207` says otherwise; and as the loop's end does not know of the base
  either, a search from the base of such a region ends too early (for both cases
  `FindExact` makes an exception). `Memory.cpp:288`: the bytes of a table that is
  looked for are freed only when they are found.
  `Memory.cpp:417`: each `hc.memory.xxx` allocates a handle that nothing frees
  before the game is unloaded. `Debugger.cpp:193`: the combo's count is that of
  all CPUs, its list that of the supported ones.
- `Control.cpp:238`: `_opened` is -1 until a console was opened, so that a core
  loaded from the prompt calls `_consoles[-1]` (`prompted`); after `addConsole()`
  sorted the vector it may be another console's (`shifted`), and the reference
  that `callConsoleMethod` holds dangles when the callback adds one.

## 7. What is not modelled, and what the models leave out

Not modelled: `Logger` and `LuaRepl` (text), `LuaUtil`, `Bitcast.h`,
`Scriptable.h` (bindings without state), and third-party code (`speex`,
`fnkdat`, `dynlib`).

External, modelled from how the code uses it: lrcpp's front-end (`Needs`,
`Leaves`), SDL's audio device (closing it waits for the callback), SDL's
controllers and event queue, and the core: that it reads options, polls the input
in each `retro_run` and draws no frame larger than its geometry, as libretro asks.

Left out of what is modelled, and why it does not matter to the properties:

- `Application`: the arithmetic of `_nextFrameTime` (a frame may or may not be
  due), paths, the rest of `init()`. A click and a prompt
  line per drawing stand for any number.
- `AudioPath`: the resampler is any number of samples; muting and volume; the
  wave form. Two lines of `init()` between starting the device and the end that
  may fail are one.
- `Views`: frames, titles and layout; what pointers a script invents; the broadcasts are atomic, the front-end
  having freed the game before. Which view hears first matters to callbacks only
  (`Desktop.cpp:220`, in the plan).
- `MemoryFind`: how Lua's values become bytes; a region of a core is any function
  from addresses to bytes, which does not change during a search (nothing runs in
  between on the one thread).
- `CheatSearch`: set iteration and printing; the unused `onFrame` list; the
  snapshots' storage. `Set`'s sorted vectors are sets, `FoundAscends` being what
  makes that sound.
- `Devices`, `Input`: the mouse. A name stands for what `strcmp` sees.
- `Pads`: the sensitivity is in hundredths; the buttons that no axis writes are
  alike, and one is enough.
- `Keyboard`: a click's 100 ms may end at any event.
- `Consoles`: no two consoles have one name, since `std::sort` leaves those in any
  order; `extensions` counts what the string lists.
- `AudioView`: what `flush()` writes is in `AudioPath`; `_previousSamples` and
  `_drawSamples` are the wave form's.
- `Video`: pixels, rotation, the aspect ratio and where the mouse is.
- `Gauges`: times; an LED a script sets without a game (`scripted`) is not the
  game's to leave behind.
- `Session`: a broadcast is one step, as no callback reads what a view changes in
  it. A prompt line that changes a widget's state is the widget.
- `CoreOptions`: labels. The core reads every option at the beginning of
  `retro_load_game` and when it is told of an update; a core that never reads
  an option is `Unread`.
- `CoreMemory`: regions of sizes that fit the address space; a block's offset,
  which the code stores and never reads.
- `Config`: memory map, subsystems, paths, pixel format, disk control.

## 8. Plan

The order was by importance: what holds the program together first.

Done: 1. `LifeCycle`, `Application` and their proofs. 2. The audio path, the
only concurrency, with its queue. 3. Handles and their promise. 4. Views over
that promise. 5. The cheat search. 6. Devices and Input. 7. Options and memory,
and the search in a region. 8. The views whose state a session changes (`Pads`, `Keyboard`, `Consoles`,
`AudioView`, `Video`, `Gauges`), composed with the application in `Session`.

To come:

- Broadcasts taken apart view by view, in the set's order, with the callbacks of
  a script that reads memory through handles and adds regions (`Desktop.cpp:220`;
  composes with `Views`).
- The memory map and its two indices, and `getVariable`'s pointer, which is good
  until the options' vector grows (composes with `Config`).
- The address digits and the preview of `Memory.cpp` as functions with reference
  definitions.
- The frame pacing of `_runningTime` (composes with `Application`).

Theorems worth proving next: that `app_reentry` shows the only way, a callback
that leaves the state it was called in, in which `Consistent` fails;
`NoStaleReads` for broadcasts taken apart.
