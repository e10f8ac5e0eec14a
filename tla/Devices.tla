------------------------------ MODULE Devices ------------------------------
(***************************************************************************)
(* hc::Devices: the game controllers that are plugged in, as SDL announces *)
(* them and as the front-end lists them.                                   *)
(*                                                                         *)
(* SDL names a controller in two ways.  An ADDED event has a device index, *)
(* the controller's place among those connected when the event is polled;  *)
(* a REMOVED event has an instance id, a number never used again.  SDL     *)
(* keeps a waiting ADDED event's index up to date, and drops the event     *)
(* when the controller is gone before it is polled, so that the event is   *)
(* modelled by the controller it is about.  A REMOVED event is only sent   *)
(* for a controller that is open.                                          *)
(***************************************************************************)
EXTENDS Integers, SequencesExt

CONSTANTS
  Name,         \* the names of controllers; strcmp's order is that of Int
  VirtualName,  \* the name of the controller the keyboard plays
  Plugs         \* bound: how often a controller is plugged in

ASSUME DevicesAssumption ==
  /\ Name \subseteq Int
  /\ VirtualName \in Int
  /\ Plugs \in Nat

VARIABLES
  connected,    \* SDL's controllers, by instance id, in the order of indices
  plugged,      \* SDL's next instance id
  events,       \* SDL's queue
  controllers,  \* Devices::_controllers
  selected,     \* Devices::_selected: keyboard, mouse, controllers
  opened        \* history: every controller that was ever opened

devicesVars == <<connected, plugged, events, controllers, selected, opened>>

(* A Controller never changes its names.                                   *)
Controller == [_id : Nat, _deviceIndex : Nat, _controllerName : Name]
Virtual    == [_id |-> -1, _deviceIndex |-> -1, _controllerName |-> VirtualName]

Added(id)   == [type |-> "added", which |-> id]
Removed(id) == [type |-> "removed", which |-> id]

Ids(s)   == {s[i]._id : i \in DOMAIN s}
Open(id) == id \in Ids(controllers)

(* Devices::Devices().                                                     *)
DevicesInit ==
  /\ connected = <<>>
  /\ plugged = 0
  /\ events = <<>>
  /\ controllers = <<Virtual>>
  /\ selected = 0
  /\ opened = {}

-----------------------------------------------------------------------------
(* SDL.                                                                    *)
PlugIn ==
  /\ plugged < Plugs
  /\ connected' = Append(connected, plugged)
  /\ events' = Append(events, Added(plugged))
  /\ plugged' = plugged + 1
  /\ UNCHANGED <<controllers, selected, opened>>

Unplug(k) ==
  /\ k \in DOMAIN connected
  /\ connected' = RemoveAt(connected, k)
  /\ \/ Open(connected[k]) /\ events' = Append(events, Removed(connected[k]))
     \/ /\ ~Open(connected[k])
        /\ Added(connected[k]) \notin Range(events)
        /\ events' = events
     \/ \E i \in DOMAIN events :
          /\ ~Open(connected[k])
          /\ events[i] = Added(connected[k])
          /\ events' = RemoveAt(events, i)
  /\ UNCHANGED <<plugged, controllers, selected, opened>>

DeviceIndex(id) == (CHOOSE k \in DOMAIN connected : connected[k] = id) - 1

Polled(type) ==
  /\ events # <<>>
  /\ Head(events).type = type
  /\ events' = Tail(events)

-----------------------------------------------------------------------------
(* addController() and Controller::init(): the controller is opened by its *)
(* device index.                                                           *)
NewController(name) ==
  [_id             |-> Head(events).which,
   _deviceIndex    |-> DeviceIndex(Head(events).which),
   _controllerName |-> name]

AddController(name) ==
  /\ Polled("added")
  /\ controllers' = Append(controllers, NewController(name))
  /\ opened' = opened \union {NewController(name)}
  /\ UNCHANGED <<connected, plugged, selected>>

(* SDL_GameControllerOpen() fails.                                         *)
AddControllerFails ==
  /\ Polled("added")
  /\ UNCHANGED <<connected, plugged, controllers, selected, opened>>

(* Mutant: the event is not compared.                                      *)
DestroysAny(which, controller) == controller._deviceIndex # -1

(* Controller::destroy().                                                  *)
Destroys(which, controller) == which = controller._deviceIndex

(* removeController(): the first controller that lets itself be destroyed. *)
RemoveController(i) ==
  /\ Polled("removed")
  /\ Destroys(Head(events).which, controllers[i])
  /\ \A j \in 1..(i - 1) : ~Destroys(Head(events).which, controllers[j])
  /\ controllers' = RemoveAt(controllers, i)
  /\ selected' = IF selected = Len(controllers) + 1 THEN selected - 1 ELSE selected
  /\ UNCHANGED <<connected, plugged, opened>>

RemoveNothing ==
  /\ Polled("removed")
  /\ \A i \in DOMAIN controllers : ~Destroys(Head(events).which, controllers[i])
  /\ UNCHANGED <<connected, plugged, controllers, selected, opened>>

(* onDraw(): the combo.                                                    *)
SelectDevice(k) ==
  /\ k \in 0..(Len(controllers) + 1)
  /\ selected' = k
  /\ UNCHANGED <<connected, plugged, events, controllers, opened>>

-----------------------------------------------------------------------------
DevicesTypeOK ==
  /\ plugged \in 0..Plugs
  /\ connected \in Seq(Nat)
  /\ events \in Seq([type : {"added", "removed"}, which : Nat])
  /\ controllers \in Seq(Controller \union {Virtual})
  /\ opened \subseteq Controller
  /\ selected \in 0..(Len(controllers) + 1)

(* Everything that is open and has not announced its end is listed, and    *)
(* nothing else.                                                           *)
HotPlugExact ==
  Ids(controllers) \ {-1} =
    {c._id : c \in {o \in opened : o._id \in Range(connected)
                                     \/ Removed(o._id) \in Range(events)}}

(* As long as every index was also an instance id: no controller was added *)
(* after another one was removed.                                          *)
ExactUntilReplugged ==
  (\A c \in opened : c._deviceIndex = c._id) => HotPlugExact
=============================================================================
