------------------------------- MODULE UsbTree -------------------------------
(***************************************************************************)
(* USB plug and play: the objects of the hubs and of the devices behind    *)
(* them, CUSBStandardHub, CUSBDevice and CUSBHostController::              *)
(* UpdatePlugAndPlay of circle/lib/usb, with the pools of device numbers   *)
(* and addresses (CNumberPool), the names (CDeviceNameService) and the     *)
(* keyboard the console takes.  It is the build for the Raspberry Pi 1 to  *)
(* 3, where CUSBDevice gives the addresses.                                *)
(*                                                                         *)
(* A place in the tree is the sequence of port numbers that leads to it    *)
(* from the on-board hub, which is <<>> and never goes.  An external hub   *)
(* carries its sockets with it, whatever port it is plugged into.          *)
(*                                                                         *)
(* Task level takes a step for each port it looks at; the user and the     *)
(* interrupts of the hubs come between any two.  stack is where it is:     *)
(*   "ports"      in HandlePortStatusChange, the ports todo still to come  *)
(*   "detect"     in EnumeratePorts of hub, port at in the first loop,     *)
(*   "configure"  the same in the second loop                              *)
(*   "end"        about to return ok                                       *)
(***************************************************************************)
EXTENDS Integers, Sequences, FiniteSets, SequencesExt

CONSTANTS
    NULL,
    Board,        \* the on-board hub
    Hubs,         \* external hubs
    Keyboards,
    BoardPorts,   \* the number of ports of the on-board hub
    HubPorts,     \* and of an external one
    MaxMoves,     \* bound: pluggings and unpluggings
    MaxFaults     \* bound: transfers that fail for another reason

Devices == Hubs \union Keyboards
Sockets == ({Board} \X (1 .. BoardPorts)) \union (Hubs \X (1 .. HubPorts))
Places  == {<<i>> : i \in 1 .. BoardPorts}
               \union ((1 .. BoardPorts) \X (1 .. HubPorts))
Tree    == Places \union {<<>>}
Numbers == 1 .. Cardinality(Places) + 1
Objects == [dev : Devices, addr : Numbers,
            state : {"initialised", "configuring", "configured"}]

ASSUME UsbAssumption ==
    /\ BoardPorts \in Nat \ {0} /\ HubPorts \in Nat \ {0}
    /\ MaxMoves \in Nat /\ MaxFaults \in Nat
    /\ Hubs \intersect Keyboards = {} /\ Board \notin Devices
    /\ NULL \notin Devices \union {Board} /\ NULL \notin Nat /\ NULL \notin Objects

VARIABLES
    plugged,     \* the device in each socket
    answers,     \* the address a device answers at; NULL: its port is disabled
    change,      \* sockets with C_PORT_CONNECTION
    m_pDevice, m_bPortConfigured,   \* CUSBStandardHub, by place
    request,     \* hubs with an outstanding status change request
    m_HubList,   \* the events: the hub, its status bitmap, and whether the
                 \* object of the hub has been deleted since
    pools,       \* s_DeviceAddressPool and the two s_DeviceNumberPool
    names,       \* CDeviceNameService: prefix, number and place of the object
    m_pInputDevice,   \* CConsole: its keyboard, the set of one place or none
    stack, updating,  \* updating: UpdatePlugAndPlay will return TRUE
    failed,      \* "none", or why the system has stopped
    moves, faults,    \* what the bounds count
    deaf,        \* history: hubs whose last status change request failed
    spoiled      \* history: places where something failed, or a device was
                 \* put in while the object of another one was still there

physical == <<plugged, answers, change>>
objects  == <<m_pDevice, m_bPortConfigured, pools, names, m_pInputDevice>>
bounds   == <<moves, faults>>
vars     == <<physical, objects, request, deaf, m_HubList, stack, updating, failed,
              bounds, spoiled>>

NamePrefixes == {"uhub", "ukbd"}
Frames  == [loop : {"ports", "detect", "configure", "end"}, hub : Tree,
            at : Nat, todo : SUBSET Nat, ok : BOOLEAN]

TypeOK ==
    /\ plugged \in [Sockets -> Devices \union {NULL}]
    /\ answers \in [Devices -> Numbers \union {0, NULL}]
    /\ change \subseteq Sockets
    /\ m_pDevice \in [Places -> Objects \union {NULL}]
    /\ m_bPortConfigured \in [Places -> BOOLEAN]
    /\ request \subseteq Tree
    /\ m_HubList \in Seq([hub : Tree, bits : SUBSET Nat, deleted : BOOLEAN])
    /\ pools \in [NamePrefixes \union {"addr"} -> SUBSET Numbers]
    /\ names \subseteq [prefix : NamePrefixes, number : Numbers, place : Tree]
    /\ m_pInputDevice \subseteq Places
    /\ stack \in Seq(Frames) /\ updating \in BOOLEAN
    /\ failed \in {"none", "boot", "panic", "freed", "collision"}
    /\ moves \in 0 .. MaxMoves /\ faults \in 0 .. MaxFaults
    /\ deaf \subseteq Tree /\ spoiled \subseteq Places

-----------------------------------------------------------------------------
(* Sockets and places                                                      *)

Parent(s) == Front(s)
NPorts(s) == IF s = <<>> THEN BoardPorts ELSE HubPorts
PortsOf(s) == {x \in Places : Len(x) = Len(s) + 1 /\ IsPrefix(s, x)}
Below(s)  == {x \in Places : IsPrefix(s, x)}
SocketsOf(d) == {k \in Sockets : k[1] = d}

\* The device that is at place s of the tree now, if there is one.
AtPort(d, i) == IF <<d, i>> \in Sockets THEN plugged[<<d, i>>] ELSE NULL
At(s)   == IF Len(s) = 1 THEN AtPort(Board, s[1])
           ELSE AtPort(AtPort(Board, s[1]), s[2])
Socket(s) == <<IF Len(s) = 1 THEN Board ELSE At(Parent(s)), Last(s)>>
Filled(d) == {k \in SocketsOf(d) : plugged[k] # NULL}
Behind(d) == {plugged[k] : k \in Filled(d)}

IsHub(s) ==
    IF s = <<>> THEN TRUE ELSE m_pDevice[s] # NULL /\ m_pDevice[s].dev \in Hubs

\* Transfers to the object at s reach a device that answers.
Reaches(s) ==
    IF s = <<>> THEN TRUE
    ELSE m_pDevice[s] # NULL /\ answers[m_pDevice[s].dev] = m_pDevice[s].addr

Configured(s) ==
    IF s = <<>> THEN TRUE
    ELSE m_pDevice[s] # NULL /\ m_pDevice[s].state = "configured"

Works(s) ==
    /\ Configured(s) /\ Configured(Parent(s))
    /\ m_pDevice[s].dev = At(s) /\ Reaches(s)

\* A transfer fails although nobody has touched the device.
Fault   == faults < MaxFaults /\ faults' = faults + 1 /\ UNCHANGED moves
NoFault == UNCHANGED bounds

-----------------------------------------------------------------------------
(* Numbers and objects                                                     *)

\* A plausible slip: the pool counts instead of looking for a free number.
AllocateCounting(pool) == Cardinality(pools[pool]) + 1

\* A plausible slip: numbers from 0 on, also for addresses.
AllocateFromZero(pool) ==
    CHOOSE n \in 0 .. Cardinality(Numbers) :
        n \notin pools[pool] /\ \A k \in 0 .. n - 1 : k \in pools[pool]

\* The lowest number that is free.
AllocateNumber(pool) ==
    CHOOSE n \in Numbers :
        n \notin pools[pool] /\ \A k \in 1 .. n - 1 : k \in pools[pool]

\* The number and the name of a device that is configured.
Register(s, prefix) ==
    LET n == AllocateNumber(prefix)
    IN  /\ pools' = [pools EXCEPT ![prefix] = @ \union {n}]
        /\ names' = names \union {[prefix |-> prefix, number |-> n, place |-> s]}

Gone(s) == {x \in Below(s) : m_pDevice[x] # NULL}

\* The events keep their pointers to the hubs that are deleted.
Orphaned(s) ==
    [i \in 1 .. Len(m_HubList) |->
        [m_HubList[i] EXCEPT !.deleted = @ \/ m_HubList[i].hub \in Gone(s)]]

DeleteObjects(s, mark) ==
    /\ m_pDevice' = [x \in Places |-> IF x \in Below(s) THEN NULL ELSE m_pDevice[x]]
    /\ m_bPortConfigured' = [x \in Places |->
           IF x = s THEN mark ELSE m_bPortConfigured[x] /\ x \notin Below(s)]
    /\ m_HubList' = Orphaned(s)

NamesOf(s) == {n \in names : n.place \in Gone(s)}

\* A plausible slip: the address outlives the device.
FreeNamesOnly(s) ==
    /\ pools' = [p \in DOMAIN pools |->
           pools[p] \ {n.number : n \in {m \in NamesOf(s) : m.prefix = p}}]
    /\ names' = names \ NamesOf(s)

FreeNumbers(s) ==
    /\ pools' = [p \in DOMAIN pools |-> pools[p] \
           (IF p = "addr" THEN {m_pDevice[x].addr : x \in Gone(s)}
            ELSE {n.number : n \in {m \in NamesOf(s) : m.prefix = p}})]
    /\ names' = names \ NamesOf(s)

\* A plausible slip: ~CDevice without the removed handler.
TellNobody(s) == UNCHANGED m_pInputDevice

\* CConsole::KeyboardRemovedHandler, if the console has this keyboard.
TellConsole(s) == m_pInputDevice' = m_pInputDevice \ Gone(s)

\* delete of a device: its functions and, for a hub, all that is behind it,
\* with names, numbers and addresses.  mark is what the port's
\* m_bPortConfigured is left at.  The request of a hub has ended before.
Delete(s, mark) == DeleteObjects(s, mark) /\ FreeNumbers(s) /\ TellConsole(s)

-----------------------------------------------------------------------------
(* The user and the interrupt                                              *)

Move == failed = "none" /\ moves < MaxMoves /\ moves' = moves + 1 /\ UNCHANGED faults

Plug(d, k) ==
    /\ Move
    /\ \A x \in Sockets : plugged[x] # d
    /\ plugged[k] = NULL /\ (d \in Hubs => k[1] = Board)
    /\ plugged' = [plugged EXCEPT ![k] = d]
    /\ change' = change \union {k}
    /\ spoiled' = spoiled \union {s \in Places : Socket(s) = k /\ m_pDevice[s] # NULL}
    /\ UNCHANGED <<answers, objects, request, deaf, m_HubList, stack, updating, failed>>

\* What hangs behind a hub goes with it; the request of a hub that is gone
\* ends with an error and is not made again.
Unplug(k) ==
    LET gone == {plugged[k]} \union Behind(plugged[k]) IN
    /\ Move
    /\ plugged[k] # NULL
    /\ plugged' = [plugged EXCEPT ![k] = NULL]
    /\ answers' = [d \in Devices |-> IF d \in gone THEN NULL ELSE answers[d]]
    /\ change' = (change \ SocketsOf(plugged[k])) \union {k}
    /\ request' = {s \in request : s = <<>> \/ m_pDevice[s].dev \notin gone}
    /\ UNCHANGED <<objects, deaf, m_HubList, stack, updating, failed, spoiled>>

\* CompletionRoutine: a hub reports the ports with a change.
Bits(s) == {Last(x) : x \in {y \in PortsOf(s) : Socket(y) \in change}}

StatusChange(s) ==
    /\ failed = "none"
    /\ s \in request /\ Bits(s) # {}
    /\ request' = request \ {s}
    /\ m_HubList' = Append(m_HubList,
           [hub |-> s, bits |-> Bits(s), deleted |-> FALSE])
    /\ UNCHANGED <<physical, objects, deaf, stack, updating, failed, bounds, spoiled>>

\* The request ends with an error, or with FrameOverrun and cannot be made
\* again: CompletionRoutine leaves it at that, and nobody else makes a new one
\* as long as the object of the hub is there.
RequestFails(s) ==
    /\ failed = "none" /\ Fault
    /\ s \in request
    /\ request' = request \ {s}
    /\ deaf' = deaf \union {s}
    /\ UNCHANGED <<physical, objects, m_HubList, stack, updating, failed, spoiled>>

-----------------------------------------------------------------------------
(* Task level: EnumeratePorts                                              *)

Enumerate(s) == [loop |-> "detect", hub |-> s, at |-> 1, todo |-> {}, ok |-> TRUE]

Frame  == Last(stack)
Top(f) == stack' = Append(Front(stack), f)
InLoop(loop) == failed = "none" /\ stack # <<>> /\ Frame.loop = loop
NextPort == Top([Frame EXCEPT !.at = @ + 1])
Here     == Append(Frame.hub, Frame.at)

LoopOver ==
    /\ failed = "none" /\ stack # <<>> /\ Frame.at > NPorts(Frame.hub)
    /\ \/ /\ Frame.loop = "detect"
          /\ Top([Frame EXCEPT !.loop = "configure", !.at = 1])
          /\ NoFault
       \/ /\ Frame.loop = "configure"
          /\ Top([Frame EXCEPT !.loop = "end", !.ok = Reaches(Frame.hub)])
          /\ NoFault
       \/ \* "Cannot get hub status"
          /\ Frame.loop = "configure"
          /\ Top([Frame EXCEPT !.loop = "end", !.ok = FALSE])
          /\ Fault
    /\ UNCHANGED <<physical, objects, request, deaf, m_HubList, updating, failed, spoiled>>

\* A port with an object is left to its ReScanDevices, which does something if
\* it is a hub with m_bPowerIsOn.
Rescan ==
    /\ InLoop("detect") /\ Frame.at <= NPorts(Frame.hub)
    /\ m_pDevice[Here] # NULL
    /\ IF IsHub(Here) /\ m_pDevice[Here].state = "configured"
       THEN stack' = Append(stack, Enumerate(Here))
       ELSE NextPort
    /\ UNCHANGED <<physical, objects, request, deaf, m_HubList, updating, failed, bounds,
                   spoiled>>

\* Nothing there, or no status to be had.
EmptyPort ==
    /\ InLoop("detect") /\ Frame.at <= NPorts(Frame.hub)
    /\ m_pDevice[Here] = NULL
    /\ ~Reaches(Frame.hub) \/ At(Here) = NULL
    /\ NextPort
    /\ UNCHANGED <<physical, objects, request, deaf, m_HubList, updating, failed, bounds,
                   spoiled>>

NewDevice ==
    /\ InLoop("detect") /\ Frame.at <= NPorts(Frame.hub)
    /\ m_pDevice[Here] = NULL
    /\ Reaches(Frame.hub) /\ At(Here) # NULL

\* The port is reset: the device answers at address 0, what hangs behind a hub
\* is out of power.
AfterReset ==
    [d \in Devices |-> IF d = At(Here) THEN 0
                       ELSE IF d \in Behind(At(Here)) THEN NULL ELSE answers[d]]

\* SET_ADDRESS reaches every device at address 0.
AfterSetAddress(n) ==
    [d \in Devices |-> IF AfterReset[d] = 0 THEN n ELSE AfterReset[d]]

Collide(a) == \E d, e \in Devices : d # e /\ a[d] # NULL /\ a[d] = a[e]

\* Two devices that answer at one address: what follows is undefined.
Addressed(a) ==
    /\ answers' = a
    /\ change' = change \ SocketsOf(At(Here))
    /\ failed' = IF Collide(a) THEN "collision" ELSE failed
    /\ UNCHANGED <<plugged, request, deaf, m_HubList, updating>>

\* Port reset and CUSBDevice::Initialize.
Initialize ==
    /\ NewDevice /\ NextPort
    /\ LET n == AllocateNumber("addr") IN
       /\ Addressed(AfterSetAddress(n))
       /\ pools' = [pools EXCEPT !["addr"] = @ \union {n}]
       /\ m_pDevice' = [m_pDevice EXCEPT ![Here] =
              [dev |-> At(Here), addr |-> n, state |-> "initialised"]]
    /\ UNCHANGED <<m_bPortConfigured, names, m_pInputDevice, bounds, spoiled>>

\* It fails before the reset of the port, before the device has its address, or
\* behind that, as with "Device has no supported function": the object, if it
\* was made, is deleted; the port is not disabled.
InitializeFails ==
    /\ NewDevice /\ NextPort /\ Fault
    /\ \/ Addressed(answers)
       \/ Addressed(AfterReset)
       \/ Addressed(AfterSetAddress(AllocateNumber("addr")))
    /\ spoiled' = spoiled \union {Here}
    /\ UNCHANGED objects

\* The second GET_STATUS fails: EnumeratePorts returns, and the devices found
\* at earlier ports are not configured.
DetectAborts ==
    /\ NewDevice /\ Fault
    /\ Addressed(AfterReset)
    /\ Top([Frame EXCEPT !.loop = "end", !.ok = FALSE])
    /\ spoiled' = spoiled \union PortsOf(Frame.hub)
    /\ UNCHANGED objects

ToConfigure ==
    /\ InLoop("configure") /\ Frame.at <= NPorts(Frame.hub)
    /\ m_pDevice[Here] # NULL /\ ~m_bPortConfigured[Here]

SkipPort ==
    /\ InLoop("configure") /\ Frame.at <= NPorts(Frame.hub)
    /\ m_pDevice[Here] = NULL \/ m_bPortConfigured[Here]
    /\ NextPort
    /\ UNCHANGED <<physical, objects, request, deaf, m_HubList, updating, failed, bounds,
                   spoiled>>

ConfigureKeyboard ==
    /\ ToConfigure /\ ~IsHub(Here) /\ Reaches(Here)
    /\ NextPort
    /\ Register(Here, "ukbd")
    /\ m_pDevice' = [m_pDevice EXCEPT ![Here].state = "configured"]
    /\ m_bPortConfigured' = [m_bPortConfigured EXCEPT ![Here] = TRUE]
    /\ UNCHANGED <<physical, m_pInputDevice, request, deaf, m_HubList, updating, failed,
                   bounds, spoiled>>

\* A hub gets its name, powers its ports and looks at them.
ConfigureHub ==
    /\ ToConfigure /\ IsHub(Here) /\ Reaches(Here)
    /\ stack' = Append(stack, Enumerate(Here))
    /\ Register(Here, "uhub")
    /\ m_pDevice' = [m_pDevice EXCEPT ![Here].state = "configuring"]
    /\ m_bPortConfigured' = [m_bPortConfigured EXCEPT ![Here] = TRUE]
    /\ change' = change \union Filled(m_pDevice[Here].dev)
    /\ UNCHANGED <<plugged, answers, m_pInputDevice, request, deaf, m_HubList, updating,
                   failed, bounds, spoiled>>

\* The object is deleted; the port stays marked.
ConfigureFails ==
    /\ ToConfigure /\ NextPort
    /\ (~Reaches(Here) /\ NoFault) \/ Fault
    /\ Delete(Here, TRUE)
    /\ spoiled' = spoiled \union {Here}
    /\ UNCHANGED <<physical, request, deaf, updating, failed>>

\* EnumeratePorts returns to the loop of the hub above, which ignores the
\* result in the first loop, ...
ReturnToHandler ==
    /\ InLoop("end") /\ Len(stack) > 1
    /\ LET caller == stack[Len(stack) - 1]
           Back(f) == stack' = Append(SubSeq(stack, 1, Len(stack) - 2), f)
       IN  \/ caller.loop = "detect" /\ Back([caller EXCEPT !.at = @ + 1])
           \/ caller.loop = "ports" /\ Back(caller)
    /\ UNCHANGED <<physical, objects, request, deaf, m_HubList, updating, failed, bounds,
                   spoiled>>

\* ... or to Configure of the hub, ...
BackToConfigure ==
    /\ InLoop("end") /\ Len(stack) > 1
    /\ LET caller == stack[Len(stack) - 1]
       IN  /\ caller.loop = "configure"
           /\ stack' = Append(SubSeq(stack, 1, Len(stack) - 2),
                              [caller EXCEPT !.at = @ + 1])
    /\ UNCHANGED <<physical, updating, failed>>

\* ... which starts the request for status changes ...
HubStarts ==
    /\ BackToConfigure /\ Frame.ok /\ NoFault
    /\ m_pDevice' = [m_pDevice EXCEPT ![Frame.hub].state = "configured"]
    /\ request' = IF Reaches(Frame.hub) THEN request \union {Frame.hub} ELSE request
    /\ deaf' = deaf \ {Frame.hub}
    /\ UNCHANGED <<m_bPortConfigured, pools, names, m_pInputDevice, m_HubList, spoiled>>

\* ... or fails, as it does if the request cannot be made: the object is deleted.
HubFails ==
    /\ BackToConfigure
    /\ (~Frame.ok /\ NoFault) \/ Fault
    /\ Delete(Frame.hub, TRUE)
    /\ spoiled' = spoiled \union {Frame.hub}
    /\ UNCHANGED <<request, deaf>>

ReturnToConfigure == HubStarts \/ HubFails

\* The start of the system: without the on-board hub there is no USB.
BootEnds ==
    /\ InLoop("end") /\ Len(stack) = 1
    /\ stack' = <<>>
    /\ \/ /\ Frame.ok /\ NoFault
          /\ request' = request \union {<<>>} /\ UNCHANGED failed
       \/ /\ (~Frame.ok /\ NoFault) \/ Fault
          /\ failed' = "boot" /\ UNCHANGED request
    /\ UNCHANGED <<physical, objects, deaf, m_HubList, updating, spoiled>>

-----------------------------------------------------------------------------
(* Task level: UpdatePlugAndPlay and HandlePortStatusChange                *)

HandleEvent ==
    /\ failed = "none" /\ stack = <<>> /\ m_HubList # <<>>
    /\ LET e == Head(m_HubList) IN
       /\ stack' = <<[loop |-> "ports", hub |-> e.hub, at |-> 0, todo |-> e.bits,
                      ok |-> TRUE]>>
       /\ failed' = IF e.deleted THEN "freed" ELSE "none"
    /\ m_HubList' = Tail(m_HubList)
    /\ updating' = TRUE
    /\ UNCHANGED <<physical, objects, request, deaf, bounds, spoiled>>

Due == CHOOSE i \in Frame.todo : \A j \in Frame.todo : i <= j
Port == Append(Frame.hub, Due)
PortDone == [Frame EXCEPT !.todo = @ \ {Due}]

\* LogPanic: "Cannot get port status", of a hub that has gone or of one that
\* stays; the same with the transfers that clear a change.
StatusFails ==
    /\ InLoop("ports") /\ Frame.todo # {}
    /\ (~Reaches(Frame.hub) /\ NoFault) \/ Fault
    /\ failed' = "panic"
    /\ UNCHANGED <<physical, objects, request, deaf, m_HubList, stack, updating, spoiled>>

\* A plausible slip: the change is cleared for all ports of the bitmap.
PortStatusAll ==
    /\ InLoop("ports") /\ Frame.todo # {} /\ Reaches(Frame.hub)
    /\ change' = change \ {Socket(Append(Frame.hub, i)) : i \in Frame.todo}
    /\ UNCHANGED <<plugged, answers, updating, request, deaf, failed>>

\* The connection change of the next port, cleared.
PortStatus ==
    /\ InLoop("ports") /\ Frame.todo # {} /\ Reaches(Frame.hub)
    /\ change' = change \ {Socket(Port)}
    /\ UNCHANGED <<plugged, answers, updating, request, deaf, failed>>

\* A plausible slip: the devices at the other ports are made anew as well.
PortConnectedAfresh ==
    /\ PortStatus
    /\ At(Port) # NULL
    /\ LET others == {x \in PortsOf(Frame.hub) \ {Port} : m_pDevice[x] # NULL} IN
       IF Socket(Port) \in change /\ m_pDevice[Port] = NULL
       THEN /\ stack' = Front(stack) \o <<PortDone, Enumerate(Frame.hub)>>
            /\ IF others # {} THEN Delete(CHOOSE x \in others : TRUE, FALSE)
               ELSE UNCHANGED <<objects, m_HubList>>
       ELSE Top(PortDone) /\ UNCHANGED <<objects, m_HubList>>
    /\ UNCHANGED <<bounds, spoiled>>

\* A device where there is no object makes the hub look at all its ports; where
\* there is one, the device is taken for the one the object was made for.
PortConnected ==
    /\ PortStatus
    /\ At(Port) # NULL
    /\ IF Socket(Port) \in change /\ m_pDevice[Port] = NULL
       THEN stack' = Front(stack) \o <<PortDone, Enumerate(Frame.hub)>>
       ELSE Top(PortDone)
    /\ UNCHANGED <<objects, m_HubList, bounds, spoiled>>

\* RemoveDevice: the port is disabled, its mark taken back, the object deleted.
PortRemoved ==
    /\ PortStatus
    /\ At(Port) = NULL /\ m_pDevice[Port] # NULL /\ Socket(Port) \in change
    /\ Top(PortDone)
    /\ Delete(Port, FALSE)
    /\ spoiled' = spoiled \ Below(Port)
    /\ UNCHANGED bounds

\* DisablePort fails, or there is nothing to remove.
PortKept ==
    /\ PortStatus
    /\ At(Port) = NULL
    /\ Top(PortDone)
    /\ IF m_pDevice[Port] = NULL \/ Socket(Port) \notin change
       THEN NoFault /\ UNCHANGED spoiled
       ELSE Fault /\ spoiled' = spoiled \union {Port}
    /\ UNCHANGED <<objects, m_HubList>>

\* A plausible slip: no new request while other events are waiting.
PortsDoneIdle ==
    /\ InLoop("ports") /\ Frame.todo = {}
    /\ stack' = <<>>
    /\ request' = IF Reaches(Frame.hub) /\ m_HubList = <<>>
                  THEN request \union {Frame.hub} ELSE request
    /\ UNCHANGED <<physical, objects, deaf, m_HubList, updating, failed, bounds, spoiled>>

\* All ports done: the next request, or "Cannot restart request".
PortsDone ==
    /\ InLoop("ports") /\ Frame.todo = {}
    /\ stack' = <<>>
    /\ \/ /\ NoFault /\ UNCHANGED deaf
          /\ request' = IF Reaches(Frame.hub) THEN request \union {Frame.hub} ELSE request
       \/ /\ Fault /\ UNCHANGED request
          /\ deaf' = deaf \union {Frame.hub}
    /\ UNCHANGED <<physical, objects, m_HubList, updating, failed, spoiled>>

Ukbd1 == {n.place : n \in {m \in names : m.prefix = "ukbd" /\ m.number = 1}}

\* UpdatePlugAndPlay returns TRUE and CConsole::UpdatePlugAndPlay takes
\* "ukbd1" if the console has no keyboard.
UpdateEnd ==
    /\ failed = "none" /\ stack = <<>> /\ m_HubList = <<>> /\ updating
    /\ updating' = FALSE
    /\ m_pInputDevice' = IF m_pInputDevice = {} THEN Ukbd1 ELSE m_pInputDevice
    /\ UNCHANGED <<physical, m_pDevice, m_bPortConfigured, pools, names, request, deaf,
                   m_HubList, stack, failed, bounds, spoiled>>

-----------------------------------------------------------------------------
\* The boot begins to configure the on-board hub, which has the first address
\* and the name "uhub1"; m_bFirstUpdateCall makes the first update count.
Init ==
    /\ plugged \in [Sockets -> Devices \union {NULL}]
    /\ \A k, x \in Sockets : k # x /\ plugged[k] # NULL => plugged[k] # plugged[x]
    /\ \A k \in Sockets : plugged[k] \in Hubs => k[1] = Board
    /\ answers = [d \in Devices |-> NULL]
    /\ change = Filled(Board)
    /\ m_pDevice = [s \in Places |-> NULL]
    /\ m_bPortConfigured = [s \in Places |-> FALSE]
    /\ request = {} /\ m_HubList = <<>>
    /\ pools = [p \in NamePrefixes \union {"addr"} |-> IF p = "ukbd" THEN {} ELSE {1}]
    /\ names = {[prefix |-> "uhub", number |-> 1, place |-> <<>>]}
    /\ m_pInputDevice = {}
    /\ stack = <<Enumerate(<<>>)>> /\ updating = TRUE /\ failed = "none"
    /\ moves = 0 /\ faults = 0 /\ deaf = {} /\ spoiled = {}

Task ==
    \/ LoopOver \/ Rescan \/ EmptyPort \/ Initialize \/ InitializeFails \/ DetectAborts
    \/ SkipPort \/ ConfigureKeyboard \/ ConfigureHub \/ ConfigureFails
    \/ ReturnToHandler \/ ReturnToConfigure \/ BootEnds
    \/ HandleEvent \/ StatusFails \/ PortConnected \/ PortRemoved \/ PortKept
    \/ PortsDone \/ UpdateEnd

Next ==
    \/ Task
    \/ \E d \in Devices, k \in Sockets : Plug(d, k)
    \/ \E k \in Sockets : Unplug(k)
    \/ \E s \in Tree : StatusChange(s) \/ RequestFails(s)

\* A hub reports a change in time; CGlueConsole::Read calls UpdatePlugAndPlay
\* as long as it has no input.  Nothing is assumed of the user.
Fairness == WF_vars(Task) /\ \A s \in Tree : WF_vars(StatusChange(s))

Spec == Init /\ [][Next]_vars /\ Fairness

-----------------------------------------------------------------------------
(* Properties                                                              *)

\* The numbers, addresses and names in use are those of the objects there are,
\* no two alike, whatever came and went and whatever failed (CNumberPool and
\* CDeviceNameService, freed by destructors only).
PoolsExact ==
    LET Present == {s \in Places : m_pDevice[s] # NULL}
        Named   == {s \in Present : m_pDevice[s].state # "initialised"} \union {<<>>}
        NumberOf(n) == [prefix |-> n.prefix, number |-> n.number]
    IN  /\ pools["addr"] = {1} \union {m_pDevice[s].addr : s \in Present}
        /\ Cardinality(pools["addr"]) = Cardinality(Present) + 1
        /\ {n.place : n \in names} = Named
        /\ \A n \in names : n.prefix = (IF IsHub(n.place) THEN "uhub" ELSE "ukbd")
        /\ \A n, o \in names :
               n.place = o.place \/ NumberOf(n) = NumberOf(o) => n = o
        /\ \A p \in NamePrefixes :
               pools[p] = {n.number : n \in {o \in names : o.prefix = p}}

\* A hub that works has exactly one request outstanding, or one event in the
\* list or in work: it stops being watched only by the failure of a request of
\* its own, and the one status buffer of the hub is never written while it is
\* read (StartStatusChangeRequest, CompletionRoutine, HandlePortStatusChange).
\* A hub whose request has failed has none of the three until it is plugged in
\* anew.
Watched ==
    LET Events(s) == {i \in 1 .. Len(m_HubList) :
                          m_HubList[i].hub = s /\ ~m_HubList[i].deleted}
        InWork(s) == \E i \in 1 .. Len(stack) :
            stack[i].hub = s /\ (stack[i].loop = "ports" \/ (i = 1 /\ s = <<>>))
    IN  failed = "none" => \A s \in Tree :
            IsHub(s) /\ Configured(s) /\ Reaches(s) =>
                Cardinality(Events(s)) + (IF s \in request THEN 1 ELSE 0)
                    + (IF InWork(s) THEN 1 ELSE 0) = (IF s \in deaf THEN 0 ELSE 1)

\* Pulling out a hub does no harm to the system, but for messages of failed
\* transfers: no event is handled by the object of a hub that has been deleted
\* (pHub of TPortStatusEvent).
NoEventOfDeletedHub == failed # "freed"

\* CConsole never holds a keyboard that has been deleted, and outside of an
\* update it has "ukbd1" if there is one.
ConsoleTrue ==
    /\ m_pInputDevice \subseteq Ukbd1
    /\ failed = "none" /\ ~updating /\ m_pInputDevice = {} => Ukbd1 = {}

\* As long as no transfer fails but to devices that were pulled out, no two
\* devices answer at one address (CUSBDevice::Initialize, ~CUSBDevice).
AddressesApart == faults = 0 => failed # "collision" /\ ~Collide(answers)

\* What happens at other ports, failures included, never touches a device that
\* works and stays where it is: it keeps its object, its address and its name
\* (HandlePortStatusChange enumerates all ports of the hub for one new device).
Undisturbed ==
    [][\A s \in Places : Works(s) /\ At(s)' = At(s) =>
           /\ m_pDevice'[s] = m_pDevice[s]
           /\ \A n \in names : n.place = s => n \in names']_vars

\* When the pluggings are over, every device works, behind a hub too, but for
\* the places where something failed or where a device replaced another one
\* before the hub had heard of it, the ports of hubs whose status request has
\* failed, and unless the system has stopped.
Served ==
    <>[](failed = "none" => \A s \in Places :
            /\ At(s) # NULL
            /\ \A x \in spoiled : ~IsPrefix(x, s)
            /\ \A x \in deaf : ~IsStrictPrefix(x, s)
            => Works(s))
=============================================================================
