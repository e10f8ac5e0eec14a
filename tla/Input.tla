------------------------------- MODULE Input -------------------------------
(***************************************************************************)
(* hc::Input, which assigns controllers to the core's ports, listening to  *)
(* hc::Devices: every Devices handler calls its listener before it ends.   *)
(*                                                                         *)
(* A port has a type, chosen in a combo among "None", "RetroPad" and those *)
(* the core announces, and, when the type is a joypad, a controller chosen *)
(* in a second combo.  Both combos keep the index they show.               *)
(*                                                                         *)
(* Input's window can be closed like any other, for good: Desktop then     *)
(* drops the view, which hears of no core any more, while the ports stay   *)
(* the ones state() reads, Devices goes on calling and so does the core.   *)
(***************************************************************************)
EXTENDS Devices

CONSTANTS
  Port,          \* 0..(MaxPorts - 1)
  Announcement,  \* bound: what setControllerInfo() is called with
  MaxTypes       \* bound: the types of a port for which it still is

NONE   == 0
JOYPAD == 1

(* id & RETRO_DEVICE_MASK.                                                 *)
Masked(id) == id % 256

(* The loop over the types of a port: all but RETRO_DEVICE_NONE are added.  *)
Kept(ids) ==
  LET kept[n \in 0..Len(ids)] == IF n = 0 THEN <<>>
                                 ELSE IF ids[n] # NONE THEN Append(kept[n - 1], ids[n])
                                 ELSE kept[n - 1]
  IN  kept[Len(ids)]

ASSUME InputAssumption ==
  /\ Announcement \subseteq [Port -> Seq(Nat)]
  /\ MaxTypes \in Nat

VARIABLES
  core,    \* no core, frontend.load() has not returned, loaded
  types,   \* _controllerTypes: for every port, a sequence of ids
  ports,   \* _ports
  sorted,  \* Input::_controllers
  told,    \* external: the id the core knows for every port
  managed, \* Desktop::_views has Input
  heard,   \* history: Input heard of a core before its window was closed
  missed   \* history: a core came or went after it was

viewVars == <<managed, heard, missed>>
inputVars == <<core, types, ports, sorted, told, viewVars>>
vars == <<devicesVars, inputVars>>

Nobody == [_id |-> -2, _deviceIndex |-> -2, _controllerName |-> 0]
Wild   == [_id |-> -3, _deviceIndex |-> -3, _controllerName |-> 0]

Disconnected ==
  [selectedType |-> 0, selectedDevice |-> -1, type |-> NONE, controller |-> Nobody]

(* The constructor leaves the ports uninitialised.                         *)
Uninitialised ==
  [selectedType |-> 1, selectedDevice |-> 1, type |-> JOYPAD, controller |-> Wild]

Init ==
  /\ DevicesInit
  /\ core = "none"
  /\ types = [p \in Port |-> <<>>]
  /\ ports \in [Port -> {Disconnected, Uninitialised}]
  /\ sorted = <<Virtual>>
  /\ told = [p \in Port |-> JOYPAD]
  /\ managed = TRUE
  /\ heard = FALSE
  /\ missed = FALSE

-----------------------------------------------------------------------------
(* Two different controllers, in an order std::sort() may leave them in.   *)
NotAfter(a, b) == a # b /\ a._controllerName <= b._controllerName

(* Mutant: the ports follow the indices their combos show.                 *)
DeviceInsertedByIndex(controller) ==
  /\ \E s \in [1..(Len(sorted) + 1) -> Range(sorted) \union {controller}] :
       /\ Range(s) = Range(sorted) \union {controller}
       /\ \A i, j \in DOMAIN s : i < j => NotAfter(s[i], s[j])
       /\ sorted' = s
       /\ ports' = [p \in Port |->
                      IF ports[p].controller \in Range(sorted)
                      THEN [ports[p] EXCEPT !.controller = s[ports[p].selectedDevice + 1]]
                      ELSE ports[p]]
  /\ UNCHANGED <<core, types, told, viewVars>>

(* deviceInserted(): std::sort() by name, with ties in any order.          *)
DeviceInserted(controller) ==
  /\ \E s \in [1..(Len(sorted) + 1) -> Range(sorted) \union {controller}] :
       /\ Range(s) = Range(sorted) \union {controller}
       /\ \A i, j \in DOMAIN s : i < j => NotAfter(s[i], s[j])
       /\ sorted' = s
  /\ UNCHANGED <<core, types, ports, told, viewVars>>

(* Mutant: the ports are not looked at.                                    *)
DeviceRemovedListOnly(controller) ==
  /\ \E i \in DOMAIN sorted : sorted[i] = controller /\ sorted' = RemoveAt(sorted, i)
  /\ UNCHANGED <<core, types, ports, told, viewVars>>

(* deviceRemoved().                                                        *)
DeviceRemoved(controller) ==
  /\ ports' = [p \in Port |->
                 IF ports[p].controller = controller THEN Disconnected ELSE ports[p]]
  /\ \E i \in DOMAIN sorted : sorted[i] = controller /\ sorted' = RemoveAt(sorted, i)
  /\ UNCHANGED <<core, types, told, viewVars>>

(* Application::run() polls events between two drawings, loadCore() does   *)
(* not return to it.                                                       *)
Polls == core # "loading"

ProcessAdded   == Polls /\ \E name \in Name :
                    AddController(name) /\ DeviceInserted(NewController(name))
ProcessRemoved == Polls /\ \E i \in DOMAIN controllers :
                    RemoveController(i) /\ DeviceRemoved(controllers[i])

ProcessOther ==
  /\ Polls
  /\ AddControllerFails \/ RemoveNothing
  /\ UNCHANGED inputVars

-----------------------------------------------------------------------------
(* The core.                                                               *)
LoadCore ==
  /\ core = "none"
  /\ core' = "loading"
  /\ told' = [p \in Port |-> JOYPAD]
  /\ UNCHANGED <<devicesVars, types, ports, sorted, viewVars>>

(* Mutant: the types are put first, as RetroPad and None are.              *)
SetControllerInfoInFront(info) ==
  /\ core # "none"
  /\ \A p \in Port : Len(types[p]) < MaxTypes
  /\ types' = [p \in Port |-> Kept(info[p]) \o types[p]]
  /\ UNCHANGED <<devicesVars, core, ports, sorted, told, viewVars>>

(* While it is loaded, and whenever it runs later.                         *)
SetControllerInfo(info) ==
  /\ core # "none"
  /\ \A p \in Port : Len(types[p]) < MaxTypes
  /\ types' = [p \in Port |-> types[p] \o Kept(info[p])]
  /\ UNCHANGED <<devicesVars, core, ports, sorted, told, viewVars>>

(* Desktop::onCoreLoaded() and onCoreUnloaded() call the views they have.  *)
Notified == heard' = (heard \/ managed) /\ missed' = (missed \/ ~managed)

OnCoreLoaded ==
  /\ core = "loading"
  /\ core' = "loaded"
  /\ \/ /\ managed
        /\ ports' = [p \in Port |-> Disconnected]
        /\ types' = [p \in Port |-> <<NONE, JOYPAD>> \o types[p]]
     \/ ~managed /\ UNCHANGED <<ports, types>>
  /\ Notified
  /\ UNCHANGED <<devicesVars, sorted, told, managed>>

OnCoreUnloaded ==
  /\ core = "loaded"
  /\ core' = "none"
  /\ \/ /\ managed
        /\ ports' = [p \in Port |-> Disconnected]
        /\ types' = [p \in Port |-> <<>>]
     \/ ~managed /\ UNCHANGED <<ports, types>>
  /\ Notified
  /\ UNCHANGED <<devicesVars, sorted, told, managed>>

(* Desktop::onDraw() drops the views whose windows were closed.            *)
CloseView ==
  /\ core # "loading"
  /\ managed
  /\ managed' = FALSE
  /\ UNCHANGED <<devicesVars, core, types, ports, sorted, told, heard, missed>>

-----------------------------------------------------------------------------
(* onDraw(): the two combos of a port.                                     *)
ChooseType(p, k) ==
  /\ core # "loading"
  /\ managed
  /\ k \in DOMAIN types[p]
  /\ k - 1 # ports[p].selectedType
  /\ ports' = [ports EXCEPT ![p] =
                 [selectedType   |-> k - 1,
                  selectedDevice |-> -1,
                  type           |-> Masked(types[p][k]),
                  controller     |-> Nobody]]
  /\ told' = [told EXCEPT ![p] = types[p][k]]
  /\ UNCHANGED <<devicesVars, core, types, sorted, viewVars>>

ChooseDevice(p, k) ==
  /\ core # "loading"
  /\ managed
  /\ ports[p].type = JOYPAD
  /\ k \in DOMAIN sorted
  /\ k - 1 # ports[p].selectedDevice
  /\ ports' = [ports EXCEPT ![p].selectedDevice = k - 1,
                            ![p].controller = sorted[k]]
  /\ UNCHANGED <<devicesVars, core, types, sorted, told, viewVars>>

Next ==
  \/ PlugIn /\ UNCHANGED inputVars
  \/ (\E k \in DOMAIN connected : Unplug(k)) /\ UNCHANGED inputVars
  \/ (\E k \in 0..(Len(controllers) + 1) : SelectDevice(k)) /\ UNCHANGED inputVars
  \/ ProcessAdded \/ ProcessRemoved \/ ProcessOther
  \/ LoadCore \/ OnCoreLoaded \/ OnCoreUnloaded \/ CloseView
  \/ \E info \in Announcement : SetControllerInfo(info)
  \/ \E p \in Port :
       \/ \E k \in DOMAIN types[p] : ChooseType(p, k)
       \/ \E k \in DOMAIN sorted : ChooseDevice(p, k)

Spec == Init /\ [][Next]_vars

-----------------------------------------------------------------------------
TypeOK ==
  /\ DevicesTypeOK
  /\ core \in {"none", "loading", "loaded"}
  /\ types \in [Port -> Seq(Nat)]
  /\ sorted \in Seq(Controller \union {Virtual})
  /\ told \in [Port -> Nat]
  /\ managed \in BOOLEAN /\ heard \in BOOLEAN /\ missed \in BOOLEAN
  /\ ports \in [Port -> [selectedType : Nat, selectedDevice : Nat \union {-1},
                         type : Nat,
                         controller : Controller \union {Virtual, Nobody, Wild}]]

(* state() goes through the port's controller on behalf of the core: it    *)
(* must be one that Devices still lists, and the two lists must agree.     *)
(* The exception is a window closed before the first core was loaded: the  *)
(* ports are then what the constructor left, for ever.                     *)
PortsAlive ==
  /\ Range(sorted) = Range(controllers)
  /\ core = "loaded" /\ heard =>
       \A p \in Port : ports[p].controller \in Range(controllers) \union {Nobody}

(* What a port's combo shows, what the port is and what the core was told  *)
(* are the same, whenever the core announces its types.  A port that shows *)
(* None is the exception: a core starts with every port a RetroPad, and is *)
(* not told when a port loses its controller.  With the window closed this *)
(* lasts until the core goes; nothing tells the next one of the ports.     *)
PortsCoherent ==
  core = "loaded" /\ ~missed =>
    \A p \in Port :
      LET shown == ports[p].selectedType + 1 IN
      /\ shown \in DOMAIN types[p]
      /\ ports[p].type = Masked(types[p][shown])
      /\ ports[p].type # NONE => told[p] = types[p][shown]
      /\ ports[p].controller # Nobody => ports[p].type = JOYPAD

(* Controllers that come and go, and the sorting, never change which       *)
(* controller a port has, unless it is the one that goes.                  *)
KeepsController ==
  [][ controllers' # controllers =>
        \A p \in Port : LET held == ports[p].controller IN
          ports'[p].controller
            = IF held \in Range(controllers) \ Range(controllers')
              THEN Nobody ELSE held ]_vars
=============================================================================
