---------------------------- MODULE UsbTreeProofs ----------------------------
(***************************************************************************)
(* Plug and play for any tree of hubs and keyboards, any number of moves   *)
(* and any failures: numbers and names, the watch over the hubs, the       *)
(* addresses, the devices that are left alone, and the console's keyboard. *)
(***************************************************************************)
EXTENDS UsbTree, FiniteSetTheorems, SequenceTheorems, WellFoundedInduction, TLAPS
-----------------------------------------------------------------------------
(* Places                                                                  *)

\* The hubs a loop can be about: the on-board one and those at its ports.
HubPlaces == {s \in Tree : Len(s) <= 1}

LEMMA Ports == BoardPorts \in Nat \ {0} /\ HubPorts \in Nat \ {0}
  BY UsbAssumption

\* Sequences of one and of two ports.
LEMMA OnePort ==
    ASSUME NEW a \in Nat
    PROVE  /\ <<a>> \in Seq(Nat) /\ Len(<<a>>) = 1 /\ <<a>>[1] = a
           /\ Append(<<>>, a) = <<a>>
           /\ SubSeq(<<a>>, 1, 0) = <<>> /\ SubSeq(<<a>>, 1, 1) = <<a>>
  <1>1. <<a>> \in Seq(Nat) /\ Len(<<a>>) = 1 /\ <<a>>[1] = a
    OBVIOUS
  <1>2. Append(<<>>, a) = <<a>>
    OBVIOUS
  <1>3. SubSeq(<<a>>, 1, 0) = <<>>
    BY SubSeqEmpty
  <1>4. SubSeq(<<a>>, 1, 1) = <<a>>
    BY <1>1, SubSeqFull
  <1> QED
    BY <1>1, <1>2, <1>3, <1>4

LEMMA TwoPorts ==
    ASSUME NEW a \in Nat, NEW b \in Nat
    PROVE  /\ <<a, b>> \in Seq(Nat) /\ Len(<<a, b>>) = 2
           /\ <<a, b>>[1] = a /\ <<a, b>>[2] = b
           /\ Append(<<a>>, b) = <<a, b>>
           /\ SubSeq(<<a, b>>, 1, 1) = <<a>> /\ SubSeq(<<a, b>>, 1, 2) = <<a, b>>
  <1>1. /\ <<a, b>> \in Seq(Nat) /\ Len(<<a, b>>) = 2
        /\ <<a, b>>[1] = a /\ <<a, b>>[2] = b
    OBVIOUS
  <1>2. SubSeq(<<a, b>>, 1, 2) = <<a, b>>
    BY <1>1, SubSeqFull
  <1>3. <<a>> \in Seq(Nat) /\ Len(<<a>>) = 1 /\ <<a>>[1] = a
    BY OnePort
  <1>4. Append(<<a>>, b) = <<a, b>>
    <2>1. /\ Append(<<a>>, b) \in Seq(Nat) /\ Len(Append(<<a>>, b)) = 2
          /\ Append(<<a>>, b)[1] = a /\ Append(<<a>>, b)[2] = b
      BY <1>3, AppendProperties
    <2>2. \A i \in 1 .. 2 : Append(<<a>>, b)[i] = <<a, b>>[i]
      BY <1>1, <2>1
    <2> QED
      BY <1>1, <2>1, <2>2, SeqEqual
  <1>5. SubSeq(<<a, b>>, 1, 1) = <<a>>
    <2>1. \A i \in 1 .. 1 : <<a, b>>[i] \in Nat
      BY <1>1
    <2>2. /\ SubSeq(<<a, b>>, 1, 1) \in Seq(Nat) /\ Len(SubSeq(<<a, b>>, 1, 1)) = 1
          /\ SubSeq(<<a, b>>, 1, 1)[1] = a
      BY <1>1, <2>1, SubSeqProperties
    <2>3. \A i \in 1 .. 1 : SubSeq(<<a, b>>, 1, 1)[i] = <<a>>[i]
      BY <1>3, <2>2
    <2> QED
      BY <1>3, <2>2, <2>3, SeqEqual
  <1> QED
    BY <1>1, <1>2, <1>4, <1>5

\* A place is a port of the on-board hub or a port of a hub there.
LEMMA PlaceCases ==
    ASSUME NEW x \in Places
    PROVE  \/ Len(x) = 1 /\ x[1] \in 1 .. BoardPorts /\ x = <<x[1]>>
           \/ /\ Len(x) = 2 /\ x[1] \in 1 .. BoardPorts /\ x[2] \in 1 .. HubPorts
              /\ x = <<x[1], x[2]>>
  BY DEF Places

LEMMA PlaceSeq == ASSUME NEW x \in Tree PROVE x \in Seq(Nat)
  <1>1. CASE x = <<>>
    BY <1>1, EmptySeq
  <1>2. CASE x \in Places
    <2>1. CASE Len(x) = 1
      <3>1. x[1] \in Nat /\ x = <<x[1]>>
        BY <1>2, <2>1, PlaceCases, Ports
      <3>2. <<x[1]>> \in Seq(Nat)
        BY <3>1, OnePort
      <3> QED
        BY <3>1, <3>2
    <2>2. CASE Len(x) = 2
      <3>1. x[1] \in Nat /\ x[2] \in Nat /\ x = <<x[1], x[2]>>
        BY <1>2, <2>2, PlaceCases, Ports
      <3>2. <<x[1], x[2]>> \in Seq(Nat)
        BY <3>1, TwoPorts
      <3> QED
        BY <3>1, <3>2
    <2> QED
      BY <1>2, <2>1, <2>2, PlaceCases
  <1> QED
    BY <1>1, <1>2 DEF Tree

LEMMA PlaceNotBoard == ASSUME NEW x \in Places PROVE x # <<>>
  BY DEF Places

LEMMA PlaceOne == ASSUME NEW i \in 1 .. BoardPorts PROVE <<i>> \in Places
  BY DEF Places

LEMMA PlaceTwo ==
    ASSUME NEW i \in 1 .. BoardPorts, NEW j \in 1 .. HubPorts
    PROVE  <<i, j>> \in Places
  BY DEF Places

LEMMA HubCases ==
    ASSUME NEW s \in HubPlaces
    PROVE  \/ s = <<>>
           \/ s \in Places /\ Len(s) = 1 /\ s[1] \in 1 .. BoardPorts /\ s = <<s[1]>>
  <1>1. (s = <<>> \/ s \in Places) /\ Len(s) <= 1
    BY DEF HubPlaces, Tree
  <1> QED
    BY <1>1, PlaceCases

\* The hub a place belongs to.
LEMMA ParentOf ==
    ASSUME NEW x \in Places
    PROVE  /\ Len(x) = 1 => Parent(x) = <<>>
           /\ Len(x) = 2 => Parent(x) = <<x[1]>> /\ Parent(x) \in Places
           /\ Parent(x) \in HubPlaces
  <1>1. CASE Len(x) = 1
    <2>1. Parent(x) = <<>>
      BY <1>1, PlaceCases, OnePort, Ports DEF Parent, Front
    <2> QED
      BY <1>1, <2>1 DEF HubPlaces, Tree
  <1>2. CASE Len(x) = 2
    <2>1. x[1] \in 1 .. BoardPorts /\ x = <<x[1], x[2]>>
      BY <1>2, PlaceCases
    <2>2. SubSeq(x, 1, 1) = <<x[1]>>
      <3>1. x[1] \in Nat /\ x[2] \in Nat
        BY <1>2, PlaceCases, Ports
      <3>2. SubSeq(<<x[1], x[2]>>, 1, 1) = <<x[1]>>
        BY <3>1, TwoPorts
      <3> QED
        BY <2>1, <3>2
    <2>3. Parent(x) = <<x[1]>>
      BY <1>2, <2>2 DEF Parent, Front
    <2>4. <<x[1]>> \in Places
      BY <2>1, PlaceOne
    <2> QED
      BY <1>2, <2>3, <2>4 DEF HubPlaces, Tree
  <1> QED
    BY <1>1, <1>2, PlaceCases

\* A port of a hub is a place, and the hub's own.
LEMMA PortPlace ==
    ASSUME NEW s \in HubPlaces, NEW i \in 1 .. NPorts(s)
    PROVE  /\ Append(s, i) \in Places
           /\ Parent(Append(s, i)) = s
           /\ Len(Append(s, i)) = Len(s) + 1 /\ Append(s, i)[Len(s) + 1] = i
           /\ Append(s, i) = IF s = <<>> THEN <<i>> ELSE <<s[1], i>>
  <1>1. CASE s = <<>>
    <2>1. Append(s, i) = <<i>> /\ i \in 1 .. BoardPorts
      BY <1>1, OnePort, Ports DEF NPorts
    <2>2. <<i>> \in Places
      BY <2>1, PlaceOne
    <2>3. Len(<<i>>) = 1 /\ <<i>>[1] = i /\ Len(s) = 0
      BY <1>1, <2>1, OnePort, Ports, EmptySeq
    <2>4. Parent(<<i>>) = <<>>
      BY <2>2, <2>3, ParentOf
    <2> QED
      BY <1>1, <2>1, <2>2, <2>3, <2>4
  <1>2. CASE s # <<>>
    <2>1. Len(s) = 1 /\ s[1] \in 1 .. BoardPorts /\ s = <<s[1]>>
      BY <1>2, HubCases
    <2>2. i \in 1 .. HubPorts
      BY <1>2 DEF NPorts
    <2>3. /\ Append(<<s[1]>>, i) = <<s[1], i>> /\ Len(<<s[1], i>>) = 2
          /\ <<s[1], i>>[1] = s[1] /\ <<s[1], i>>[2] = i
      <3>1. s[1] \in Nat /\ i \in Nat
        BY <2>1, <2>2, Ports
      <3> QED
        BY <3>1, TwoPorts
    <2>4. <<s[1], i>> \in Places
      BY <2>1, <2>2, PlaceTwo
    <2>5. Parent(<<s[1], i>>) = <<s[1]>>
      BY <2>3, <2>4, ParentOf
    <2>6. Append(s, i) = <<s[1], i>>
      BY <2>1, <2>3
    <2>7. Len(s) = 1 /\ <<s[1]>> = s
      BY <2>1
    <2> QED
      BY <1>2, <2>3, <2>4, <2>5, <2>6, <2>7
  <1> QED
    BY <1>1, <1>2

LEMMA PortsAre ==
    ASSUME NEW s \in HubPlaces, NEW x \in PortsOf(s)
    PROVE  /\ x \in Places /\ Parent(x) = s /\ Last(x) \in 1 .. NPorts(s)
           /\ x = Append(s, Last(x))
  <1>1. x \in Places /\ Len(x) = Len(s) + 1 /\ SubSeq(s, 1, Len(s)) = SubSeq(x, 1, Len(s))
    BY DEF PortsOf, IsPrefix
  <1>2. CASE s = <<>>
    <2>1. Len(x) = 1 /\ x[1] \in 1 .. BoardPorts /\ x = <<x[1]>>
      BY <1>1, <1>2, PlaceCases, EmptySeq
    <2>2. Last(x) = x[1] /\ Append(s, x[1]) = <<x[1]>>
      BY <1>2, <2>1, Ports, OnePort DEF Last
    <2> QED
      BY <1>1, <1>2, <2>1, <2>2, ParentOf DEF NPorts
  <1>3. CASE s # <<>>
    <2>1. Len(s) = 1 /\ s = <<s[1]>>
      BY <1>3, HubCases
    <2>2. Len(x) = 2 /\ x[1] \in 1 .. BoardPorts /\ x[2] \in 1 .. HubPorts /\ x = <<x[1], x[2]>>
      BY <1>1, <2>1, PlaceCases
    <2>3. s[1] \in Nat /\ x[1] \in Nat /\ x[2] \in Nat
      BY <1>3, <2>2, HubCases, Ports
    <2>4. s[1] = x[1]
      <3>1. SubSeq(s, 1, 1) = <<s[1]>>
        BY <2>1, <2>3, OnePort
      <3>2. SubSeq(x, 1, 1) = <<x[1]>>
        BY <2>2, <2>3, TwoPorts
      <3>3. <<s[1]>>[1] = <<x[1]>>[1]
        BY <1>1, <2>1, <3>1, <3>2
      <3> QED
        BY <2>3, <3>3, OnePort
    <2>5. Last(x) = x[2] /\ Append(s, x[2]) = <<x[1], x[2]>>
      BY <2>1, <2>2, <2>3, <2>4, TwoPorts DEF Last
    <2> QED
      BY <1>1, <1>3, <2>1, <2>2, <2>4, <2>5, ParentOf DEF NPorts
  <1> QED
    BY <1>2, <1>3

\* What is behind a place: itself and the ports of the hub that is there.
LEMMA BelowIs ==
    ASSUME NEW s \in Places, NEW x \in Places
    PROVE  x \in Below(s) <=> x = s \/ (Len(x) = 2 /\ Parent(x) = s)
  <1>1. x \in Below(s) <=> Len(s) <= Len(x) /\ SubSeq(s, 1, Len(s)) = SubSeq(x, 1, Len(s))
    BY DEF Below, IsPrefix
  <1>2. s \in Seq(Nat) /\ x \in Seq(Nat)
    BY PlaceSeq DEF Tree
  <1>3. SubSeq(s, 1, Len(s)) = s /\ SubSeq(x, 1, Len(x)) = x
    BY <1>2, SubSeqFull
  <1>4. CASE Len(s) = 2
    <2>1. Len(Parent(x)) <= 1
      BY ParentOf DEF HubPlaces
    <2>2. Len(x) \in 1 .. 2
      BY PlaceCases
    <2> QED
      BY <1>1, <1>3, <1>4, <2>1, <2>2
  <1>5. CASE Len(s) = 1 /\ Len(x) = 1
    BY <1>1, <1>3, <1>5
  <1>6. CASE Len(s) = 1 /\ Len(x) = 2
    <2>1. Parent(x) = SubSeq(x, 1, 1)
      BY <1>6 DEF Parent, Front
    <2> QED
      BY <1>1, <1>3, <1>6, <2>1
  <1> QED
    BY <1>4, <1>5, <1>6, PlaceCases

-----------------------------------------------------------------------------
(* Devices in sockets                                                      *)

\* A device is in one socket at most, and external hubs hang at the on-board
\* hub only.
Wired ==
    /\ plugged \in [Sockets -> Devices \union {NULL}]
    /\ \A k, x \in Sockets : k # x /\ plugged[k] # NULL => plugged[k] # plugged[x]
    /\ \A k \in Sockets : plugged[k] \in Hubs => k[1] = Board

LEMMA Distinct == Board \notin Devices /\ NULL \notin Devices /\ NULL # Board
                      /\ Hubs \subseteq Devices
  BY UsbAssumption DEF Devices

LEMMA SocketForms ==
    /\ \A i : <<Board, i>> \in Sockets <=> i \in 1 .. BoardPorts
    /\ \A d \in Hubs : \A i : <<d, i>> \in Sockets <=> i \in 1 .. HubPorts
    /\ \A d, i : <<d, i>> \in Sockets => d = Board \/ d \in Hubs
    /\ \A k \in Sockets : k = <<k[1], k[2]>>
  BY Distinct DEF Sockets

\* Where At looks.
LEMMA AtOne ==
    ASSUME NEW i \in 1 .. BoardPorts
    PROVE  At(<<i>>) = plugged[<<Board, i>>] /\ <<Board, i>> \in Sockets
  <1>1. Len(<<i>>) = 1 /\ <<i>>[1] = i
    BY Ports, OnePort
  <1> QED
    BY <1>1, SocketForms DEF At, AtPort

LEMMA AtTwo ==
    ASSUME NEW i \in 1 .. BoardPorts, NEW j \in 1 .. HubPorts, Wired
    PROVE  /\ At(<<i, j>>) = IF At(<<i>>) \in Hubs THEN plugged[<<At(<<i>>), j>>] ELSE NULL
           /\ At(<<i>>) \in Hubs => <<At(<<i>>), j>> \in Sockets
  <1>1. Len(<<i, j>>) = 2 /\ <<i, j>>[1] = i /\ <<i, j>>[2] = j
    BY Ports, TwoPorts
  <1>2. At(<<i, j>>) = AtPort(At(<<i>>), j)
    BY <1>1, AtOne, SocketForms DEF At, AtPort
  <1>3. At(<<i>>) \in Devices \union {NULL}
    BY AtOne DEF Wired
  <1> QED
    BY <1>2, <1>3, SocketForms, Distinct DEF AtPort

LEMMA AtType ==
    ASSUME Wired, NEW x \in Places
    PROVE  At(x) \in Devices \union {NULL}
  <1>1. CASE Len(x) = 1
    <2>1. PICK i \in 1 .. BoardPorts : x = <<i>>
      BY <1>1, PlaceCases
    <2> QED
      BY <2>1, AtOne DEF Wired
  <1>2. CASE Len(x) = 2
    <2>1. PICK i \in 1 .. BoardPorts, j \in 1 .. HubPorts : x = <<i, j>>
      BY <1>2, PlaceCases
    <2> QED
      BY <2>1, AtTwo DEF Wired
  <1> QED
    BY <1>1, <1>2, PlaceCases

\* Only at the on-board hub there are hubs.
LEMMA HubAtBoard ==
    ASSUME Wired, NEW x \in Places, At(x) \in Hubs
    PROVE  Len(x) = 1
  <1>1. SUFFICES ASSUME Len(x) # 1 PROVE FALSE
    OBVIOUS
  <1>2. PICK i \in 1 .. BoardPorts, j \in 1 .. HubPorts : x = <<i, j>>
    BY <1>1, PlaceCases
  <1>3. At(<<i>>) \in Hubs /\ plugged[<<At(<<i>>), j>>] \in Hubs
        /\ <<At(<<i>>), j>> \in Sockets
    BY <1>2, AtTwo, Distinct
  <1>4. <<At(<<i>>), j>>[1] = Board
    BY <1>3 DEF Wired
  <1> QED
    BY <1>3, <1>4, Distinct

\* What is at a port of an external hub comes and goes with the hub.
LEMMA AtChild ==
    ASSUME Wired, NEW x \in Places, Len(x) = 2, At(x) # NULL
    PROVE  /\ At(Parent(x)) \in Hubs /\ At(x) \in Behind(At(Parent(x)))
           /\ <<At(Parent(x)), x[2]>> \in Sockets
           /\ At(x) = plugged[<<At(Parent(x)), x[2]>>]
  <1>1. PICK i \in 1 .. BoardPorts, j \in 1 .. HubPorts : x = <<i, j>>
    BY PlaceCases
  <1>2. x[1] = i /\ x[2] = j
    BY <1>1, Ports, TwoPorts
  <1>3. Parent(x) = <<i>>
    BY <1>2, ParentOf
  <1>4. At(<<i>>) \in Hubs /\ At(x) = plugged[<<At(<<i>>), j>>] /\ <<At(<<i>>), j>> \in Sockets
    BY <1>1, AtTwo
  <1>5. <<At(<<i>>), j>> \in Filled(At(<<i>>))
    BY <1>4 DEF Filled, SocketsOf
  <1> QED
    BY <1>2, <1>3, <1>4, <1>5 DEF Behind

\* A device is at one place.
LEMMA AtUnique ==
    ASSUME Wired, NEW x \in Places, NEW y \in Places, At(x) # NULL, At(x) = At(y)
    PROVE  x = y
  <1>1. ASSUME NEW i \in 1 .. BoardPorts, NEW j \in 1 .. BoardPorts,
               At(<<i>>) # NULL, At(<<i>>) = At(<<j>>)
        PROVE  i = j
    <2>1. <<Board, i>> = <<Board, j>>
      BY <1>1, AtOne DEF Wired
    <2> QED
      BY <2>1
  <1>2. ASSUME NEW z \in Places, NEW i \in 1 .. BoardPorts, Len(z) = 2, At(z) # NULL
        PROVE  At(z) # At(<<i>>)
    <2>1. /\ At(Parent(z)) \in Hubs /\ <<At(Parent(z)), z[2]>> \in Sockets
          /\ At(z) = plugged[<<At(Parent(z)), z[2]>>]
      BY <1>2, AtChild
    <2>2. At(<<i>>) = plugged[<<Board, i>>] /\ <<Board, i>> \in Sockets
      BY AtOne
    <2>3. <<At(Parent(z)), z[2]>> # <<Board, i>>
      BY <2>1, Distinct
    <2> QED
      BY <1>2, <2>1, <2>2, <2>3 DEF Wired
  <1>3. CASE Len(x) = 1 /\ Len(y) = 1
    <2>1. PICK i \in 1 .. BoardPorts, j \in 1 .. BoardPorts : x = <<i>> /\ y = <<j>>
      BY <1>3, PlaceCases
    <2> QED
      BY <1>1, <2>1
  <1>4. CASE Len(x) = 1 /\ Len(y) = 2
    <2>1. PICK i \in 1 .. BoardPorts : x = <<i>>
      BY <1>4, PlaceCases
    <2> QED
      BY <1>2, <1>4, <2>1
  <1>5. CASE Len(x) = 2 /\ Len(y) = 1
    <2>1. PICK i \in 1 .. BoardPorts : y = <<i>>
      BY <1>5, PlaceCases
    <2> QED
      BY <1>2, <1>5, <2>1
  <1>6. CASE Len(x) = 2 /\ Len(y) = 2
    <2>1. /\ At(Parent(x)) \in Hubs /\ <<At(Parent(x)), x[2]>> \in Sockets
          /\ At(x) = plugged[<<At(Parent(x)), x[2]>>]
      BY <1>6, AtChild
    <2>2. /\ At(Parent(y)) \in Hubs /\ <<At(Parent(y)), y[2]>> \in Sockets
          /\ At(y) = plugged[<<At(Parent(y)), y[2]>>]
      BY <1>6, AtChild
    <2>3. <<At(Parent(x)), x[2]>> = <<At(Parent(y)), y[2]>>
      BY <2>1, <2>2 DEF Wired
    <2>4. PICK i \in 1 .. BoardPorts, k \in 1 .. HubPorts :
              x = <<i, k>> /\ x[2] = k /\ Parent(x) = <<i>>
      BY <1>6, PlaceCases, ParentOf
    <2>5. PICK j \in 1 .. BoardPorts, l \in 1 .. HubPorts :
              y = <<j, l>> /\ y[2] = l /\ Parent(y) = <<j>>
      BY <1>6, PlaceCases, ParentOf
    <2>6. i = j
      BY <1>1, <2>1, <2>3, <2>4, <2>5, Distinct
    <2> QED
      BY <2>3, <2>4, <2>5, <2>6
  <1> QED
    BY <1>3, <1>4, <1>5, <1>6, PlaceCases

\* What hangs behind the device at a place is at the ports of this place.
LEMMA BehindIs ==
    ASSUME Wired, NEW x \in Places, NEW t \in Places, At(t) \in Devices,
           At(x) \in Behind(At(t))
    PROVE  Len(x) = 2 /\ Parent(x) = t
  <1>1. PICK k \in Sockets : k[1] = At(t) /\ plugged[k] = At(x) /\ plugged[k] # NULL
    BY DEF Behind, Filled, SocketsOf
  <1>2. k = <<At(t), k[2]>>
    BY <1>1, SocketForms
  <1>3. At(t) \in Hubs /\ k[2] \in 1 .. HubPorts
    BY <1>1, <1>2, SocketForms, Distinct
  <1>4. PICK i \in 1 .. BoardPorts : t = <<i>>
    BY <1>3, HubAtBoard, PlaceCases
  <1>5. <<i, k[2]>> \in Places /\ At(<<i, k[2]>>) = At(x)
    BY <1>1, <1>2, <1>3, <1>4, AtTwo, PlaceTwo
  <1>6. x = <<i, k[2]>>
    BY <1>1, <1>5, AtUnique
  <1>7. Len(x) = 2 /\ x[1] = i
    BY <1>3, <1>6, Ports, TwoPorts
  <1> QED
    BY <1>4, <1>7, ParentOf

LEMMA BehindType == ASSUME Wired, NEW d PROVE Behind(d) \subseteq Devices
  BY DEF Behind, Filled, SocketsOf, Wired

\* The smallest number of a set, and what Due chooses.
LEMMA Smallest ==
    ASSUME NEW T \in SUBSET Nat, T # {}
    PROVE  \E i \in T : \A j \in T : i <= j
  <1>1. PICK i \in T : \A j \in T : ~(<<j, i>> \in OpToRel(<, Nat))
    BY NatLessThanWellFounded, WFMin
  <1>2. \A j \in T : ~(j < i)
    BY <1>1 DEF OpToRel
  <1> QED
    BY <1>2

LEMMA DueIn ==
    ASSUME Frame.todo \in SUBSET Nat, Frame.todo # {}
    PROVE  Due \in Frame.todo /\ \A j \in Frame.todo : Due <= j
  BY Smallest DEF Due

-----------------------------------------------------------------------------
(* Numbers                                                                 *)

LEMMA PlacesFinite ==
    /\ IsFiniteSet(Places) /\ Cardinality(Places) \in Nat
    /\ IsFiniteSet(Tree) /\ Cardinality(Tree) = Cardinality(Places) + 1
  <1> DEFINE Direct == {<<i>> : i \in 1 .. BoardPorts}
             F == [i \in 1 .. BoardPorts |-> <<i>>]
  <1>1. IsFiniteSet(1 .. BoardPorts) /\ IsFiniteSet(1 .. HubPorts)
    BY Ports, FS_Interval
  <1>2. F \in Surjection(1 .. BoardPorts, Direct)
    BY DEF Surjection
  <1>3. IsFiniteSet(Direct)
    BY <1>1, <1>2, FS_Surjection
  <1>4. IsFiniteSet((1 .. BoardPorts) \X (1 .. HubPorts))
    BY <1>1, FS_Product
  <1>5. IsFiniteSet(Places)
    BY <1>3, <1>4, FS_Union DEF Places
  <1> QED
    BY <1>5, FS_CardinalityType, FS_AddElement, PlaceNotBoard DEF Tree

LEMMA NumbersAre ==
    /\ Numbers \subseteq Nat \ {0} /\ IsFiniteSet(Numbers)
    /\ Cardinality(Numbers) = Cardinality(Places) + 1 /\ 1 \in Numbers
  <1>1. Cardinality(Places) \in Nat
    BY PlacesFinite
  <1>2. /\ IsFiniteSet(1 .. Cardinality(Places) + 1)
        /\ Cardinality(1 .. Cardinality(Places) + 1) = Cardinality(Places) + 1
    BY <1>1, FS_Interval
  <1> QED
    BY <1>1, <1>2 DEF Numbers

\* There are as many numbers as places and one more: with a place that has none
\* a number is free.
LEMMA NotFull ==
    ASSUME NEW f \in [Numbers -> Tree], NEW t \in Tree, \A n \in Numbers : f[n] # t,
           \A m, n \in Numbers : f[m] = f[n] => m = n
    PROVE  FALSE
  <1>1. IsFiniteSet(Tree \ {t}) /\ Cardinality(Tree \ {t}) = Cardinality(Tree) - 1
    BY PlacesFinite, FS_RemoveElement
  <1>2. f \in [Numbers -> Tree \ {t}]
    OBVIOUS
  <1>3. Cardinality(Tree \ {t}) < Cardinality(Numbers)
    BY <1>1, PlacesFinite, NumbersAre
  <1> DEFINE T == Tree \ {t}
  <1> HIDE DEF T
  <1>4. /\ IsFiniteSet(Numbers) /\ IsFiniteSet(T) /\ Cardinality(T) < Cardinality(Numbers)
        /\ f \in [Numbers -> T]
    BY <1>1, <1>2, <1>3, NumbersAre DEF T
  <1>5. \E m, n \in Numbers : m # n /\ f[m] = f[n]
    BY <1>4, FS_PigeonHole
  <1> QED
    BY <1>5

\* CNumberPool returns a number that was free.
LEMMA Allocated ==
    ASSUME NEW p, pools[p] # Numbers, pools[p] \subseteq Numbers
    PROVE  AllocateNumber(p) \in Numbers \ pools[p]
  <1>1. Numbers \ pools[p] \in SUBSET Nat /\ Numbers \ pools[p] # {}
    BY NumbersAre
  <1>2. PICK n \in Numbers \ pools[p] : \A k \in Numbers \ pools[p] : n <= k
    BY <1>1, Smallest
  <1>3. ASSUME NEW k \in 1 .. n - 1 PROVE k \in pools[p]
    <2>1. k \in Numbers /\ k < n
      BY PlacesFinite DEF Numbers
    <2> QED
      BY <1>2, <2>1, NumbersAre
  <1>4. \E m \in Numbers : m \notin pools[p] /\ \A k \in 1 .. m - 1 : k \in pools[p]
    BY <1>2, <1>3
  <1> QED
    BY <1>4 DEF AllocateNumber

-----------------------------------------------------------------------------
(* The loops that are being executed                                       *)

\* A loop is about a hub that can have loops, and about ports of it.
Sound(f) ==
    /\ Len(f.hub) <= 1
    /\ f.loop \in {"detect", "configure"} => f.at >= 1
    /\ f.todo \subseteq 1 .. NPorts(f.hub)

\* A loop that has called another one waits for it at one of its ports, or has
\* had the ports of its own hub enumerated.
Calls(f, g) ==
    /\ f.loop # "end" /\ g.loop # "ports"
    /\ IF f.loop = "ports" THEN g.hub = f.hub
       ELSE f.at \in 1 .. NPorts(f.hub) /\ g.hub = Append(f.hub, f.at)

Shape ==
    /\ stack \in Seq(Frames)
    /\ \A i \in 1 .. Len(stack) : Sound(stack[i])
    /\ \A i \in 1 .. Len(stack) - 1 : Calls(stack[i], stack[i + 1])
    /\ stack # <<>> => stack[1].loop = "ports" \/ stack[1].hub = <<>>

\* The first elements of a sequence.
LEMMA FirstOf ==
    ASSUME NEW S, NEW s \in Seq(S), NEW n \in 0 .. Len(s)
    PROVE  /\ SubSeq(s, 1, n) \in Seq(S) /\ Len(SubSeq(s, 1, n)) = n
           /\ \A i \in 1 .. n : SubSeq(s, 1, n)[i] = s[i]
  <1>1. Len(s) \in Nat /\ \A i \in 1 .. n : s[i] \in S
    BY LenProperties, ElementOfSeq
  <1>2. /\ SubSeq(s, 1, n) \in Seq(S)
        /\ Len(SubSeq(s, 1, n)) = IF 1 <= n THEN n - 1 + 1 ELSE 0
        /\ \A i \in 1 .. n - 1 + 1 : SubSeq(s, 1, n)[i] = s[1 + i - 1]
    BY <1>1, SubSeqProperties
  <1> QED
    BY <1>1, <1>2

LEMMA StackFacts ==
    ASSUME stack \in Seq(Frames), stack # <<>>
    PROVE  /\ Len(stack) \in Nat \ {0} /\ Frame = stack[Len(stack)] /\ Frame \in Frames
           /\ Front(stack) \in Seq(Frames) /\ Len(Front(stack)) = Len(stack) - 1
           /\ \A i \in 1 .. Len(stack) - 1 : Front(stack)[i] = stack[i]
           /\ \A i \in 1 .. Len(stack) : stack[i] \in Frames
  <1>1. Len(stack) \in Nat \ {0}
    BY EmptySeq
  <1>2. \A i \in 1 .. Len(stack) : stack[i] \in Frames
    BY <1>1, ElementOfSeq
  <1>3. /\ Front(stack) \in Seq(Frames) /\ Len(Front(stack)) = Len(stack) - 1
        /\ \A i \in 1 .. Len(stack) - 1 : Front(stack)[i] = stack[i]
    <2> DEFINE n == Len(stack) - 1
    <2>1. n \in 0 .. Len(stack) /\ Front(stack) = SubSeq(stack, 1, n)
      BY <1>1 DEF Front
    <2> HIDE DEF n
    <2>2. /\ Front(stack) \in Seq(Frames) /\ Len(Front(stack)) = n
          /\ \A i \in 1 .. n : Front(stack)[i] = stack[i]
      BY <2>1, FirstOf
    <2> QED
      BY <2>2 DEF n
  <1> QED
    BY <1>1, <1>2, <1>3 DEF Frame, Last

\* What the three ways to change the stack do to its frames.
LEMMA TopStack ==
    ASSUME stack \in Seq(Frames), stack # <<>>, NEW f \in Frames, Top(f)
    PROVE  /\ stack' \in Seq(Frames) /\ Len(stack') = Len(stack) /\ stack' # <<>>
           /\ \A i \in 1 .. Len(stack) : stack'[i] = IF i = Len(stack) THEN f ELSE stack[i]
  <1>1. stack' = Append(Front(stack), f)
    BY DEF Top
  <1> QED
    BY <1>1, StackFacts, AppendProperties

LEMMA PushStack ==
    ASSUME stack \in Seq(Frames), NEW f \in Frames, stack' = Append(stack, f)
    PROVE  /\ stack' \in Seq(Frames) /\ Len(stack') = Len(stack) + 1 /\ stack' # <<>>
           /\ Len(stack) \in Nat
           /\ \A i \in 1 .. Len(stack) + 1 :
                  stack'[i] = IF i = Len(stack) + 1 THEN f ELSE stack[i]
  BY AppendProperties, LenProperties

LEMMA PopStack ==
    ASSUME stack \in Seq(Frames), Len(stack) > 1, NEW f \in Frames,
           stack' = Append(SubSeq(stack, 1, Len(stack) - 2), f)
    PROVE  /\ stack' \in Seq(Frames) /\ Len(stack') = Len(stack) - 1 /\ stack' # <<>>
           /\ \A i \in 1 .. Len(stack) - 1 :
                  stack'[i] = IF i = Len(stack) - 1 THEN f ELSE stack[i]
  <1>1. Len(stack) \in Nat /\ stack # <<>>
    BY LenProperties, EmptySeq
  <1> DEFINE s == SubSeq(stack, 1, Len(stack) - 2)
  <1>3. /\ s \in Seq(Frames) /\ Len(s) = Len(stack) - 2
        /\ \A i \in 1 .. Len(stack) - 2 : s[i] = stack[i]
    <2> DEFINE n == Len(stack) - 2
    <2>1. n \in 0 .. Len(stack) /\ s = SubSeq(stack, 1, n)
      BY <1>1
    <2> HIDE DEF n, s
    <2>2. s \in Seq(Frames) /\ Len(s) = n /\ \A i \in 1 .. n : s[i] = stack[i]
      BY <2>1, FirstOf
    <2> QED
      BY <2>2 DEF n
  <1>4. stack' = Append(s, f)
    OBVIOUS
  <1> HIDE DEF s
  <1> QED
    BY <1>1, <1>3, <1>4, AppendProperties

LEMMA CallStack ==
    ASSUME stack \in Seq(Frames), stack # <<>>, NEW t \in Seq(Frames), Len(t) = 2,
           stack' = Front(stack) \o t
    PROVE  /\ stack' \in Seq(Frames) /\ Len(stack') = Len(stack) + 1 /\ stack' # <<>>
           /\ \A i \in 1 .. Len(stack) - 1 : stack'[i] = stack[i]
           /\ stack'[Len(stack)] = t[1] /\ stack'[Len(stack) + 1] = t[2]
  <1> DEFINE s == Front(stack)
  <1>1. /\ s \in Seq(Frames) /\ Len(s) = Len(stack) - 1 /\ Len(stack) \in Nat \ {0}
        /\ \A i \in 1 .. Len(stack) - 1 : s[i] = stack[i]
    BY StackFacts
  <1>2. stack' = s \o t
    OBVIOUS
  <1> HIDE DEF s
  <1>3. /\ s \o t \in Seq(Frames) /\ Len(s \o t) = Len(s) + Len(t)
        /\ \A i \in 1 .. Len(s) + Len(t) :
               (s \o t)[i] = IF i <= Len(s) THEN s[i] ELSE t[i - Len(s)]
    BY <1>1, ConcatProperties
  <1>4. stack' \in Seq(Frames) /\ Len(stack') = Len(stack) + 1
    BY <1>1, <1>2, <1>3
  <1>5. stack' # <<>>
    BY <1>1, <1>4, EmptySeq
  <1> QED
    BY <1>1, <1>2, <1>3, <1>4, <1>5

\* A loop goes on, keeping its hub.
LEMMA ShapeTop ==
    ASSUME Shape, stack # <<>>, NEW f \in Frames, Top(f), Sound(f), f.hub = Frame.hub,
           f.loop = "ports" <=> Frame.loop = "ports"
    PROVE  Shape'
  <1>1. /\ Len(stack) \in Nat \ {0} /\ Frame = stack[Len(stack)] /\ stack \in Seq(Frames)
    BY StackFacts DEF Shape
  <1>2. /\ stack' \in Seq(Frames) /\ Len(stack') = Len(stack)
        /\ \A i \in 1 .. Len(stack) : stack'[i] = IF i = Len(stack) THEN f ELSE stack[i]
    BY <1>1, TopStack
  <1>3. \A i \in 1 .. Len(stack') : Sound(stack'[i])
    BY <1>1, <1>2 DEF Shape
  <1>4. ASSUME NEW i \in 1 .. Len(stack') - 1 PROVE Calls(stack'[i], stack'[i + 1])
    <2>1. Calls(stack[i], stack[i + 1]) /\ stack'[i] = stack[i]
      BY <1>1, <1>2 DEF Shape
    <2>2. stack'[i + 1] = stack[i + 1] \/ (stack'[i + 1] = f /\ stack[i + 1] = Frame)
      BY <1>1, <1>2
    <2> QED
      BY <2>1, <2>2 DEF Calls
  <1>5. stack'[1].loop = "ports" \/ stack'[1].hub = <<>>
    BY <1>1, <1>2 DEF Shape
  <1> QED
    BY <1>2, <1>3, <1>4, <1>5 DEF Shape

\* A loop calls another one.
LEMMA ShapePush ==
    ASSUME Shape, stack # <<>>, NEW f \in Frames, stack' = Append(stack, f), Sound(f),
           Calls(Frame, f)
    PROVE  Shape'
  <1>1. /\ Len(stack) \in Nat \ {0} /\ Frame = stack[Len(stack)] /\ stack \in Seq(Frames)
    BY StackFacts DEF Shape
  <1>2. /\ stack' \in Seq(Frames) /\ Len(stack') = Len(stack) + 1
        /\ \A i \in 1 .. Len(stack) + 1 :
               stack'[i] = IF i = Len(stack) + 1 THEN f ELSE stack[i]
    BY <1>1, PushStack
  <1>3. \A i \in 1 .. Len(stack') : Sound(stack'[i])
    BY <1>1, <1>2 DEF Shape
  <1>4. ASSUME NEW i \in 1 .. Len(stack') - 1 PROVE Calls(stack'[i], stack'[i + 1])
    BY <1>1, <1>2 DEF Shape
  <1>5. stack'[1].loop = "ports" \/ stack'[1].hub = <<>>
    BY <1>1, <1>2 DEF Shape
  <1> QED
    BY <1>2, <1>3, <1>4, <1>5 DEF Shape

\* A loop goes on after the one it has called.
LEMMA ShapePop ==
    ASSUME Shape, Len(stack) > 1, NEW f \in Frames,
           stack' = Append(SubSeq(stack, 1, Len(stack) - 2), f), Sound(f),
           f.hub = stack[Len(stack) - 1].hub, f.loop = stack[Len(stack) - 1].loop
    PROVE  Shape'
  <1>1. Len(stack) \in Nat /\ stack \in Seq(Frames)
    BY LenProperties DEF Shape
  <1>2. /\ stack' \in Seq(Frames) /\ Len(stack') = Len(stack) - 1
        /\ \A i \in 1 .. Len(stack) - 1 :
               stack'[i] = IF i = Len(stack) - 1 THEN f ELSE stack[i]
    BY <1>1, PopStack
  <1>3. \A i \in 1 .. Len(stack') : Sound(stack'[i])
    BY <1>1, <1>2 DEF Shape
  <1>4. ASSUME NEW i \in 1 .. Len(stack') - 1 PROVE Calls(stack'[i], stack'[i + 1])
    <2>1. Calls(stack[i], stack[i + 1]) /\ stack'[i] = stack[i]
      BY <1>1, <1>2 DEF Shape
    <2>2. stack'[i + 1] = stack[i + 1]
             \/ (stack'[i + 1] = f /\ stack[i + 1] = stack[Len(stack) - 1])
      BY <1>1, <1>2
    <2> QED
      BY <2>1, <2>2 DEF Calls
  <1>5. stack'[1].loop = "ports" \/ stack'[1].hub = <<>>
    <2>1. stack[1].loop = "ports" \/ stack[1].hub = <<>>
      BY <1>1, EmptySeq DEF Shape
    <2> QED
      BY <1>1, <1>2, <2>1
  <1> QED
    BY <1>2, <1>3, <1>4, <1>5 DEF Shape

\* HandlePortStatusChange is called by UpdatePlugAndPlay only.
LEMMA PortsAlone ==
    ASSUME Shape, stack # <<>>, Frame.loop = "ports"
    PROVE  Len(stack) = 1
  <1>1. /\ Len(stack) \in Nat \ {0} /\ Frame = stack[Len(stack)]
    BY StackFacts DEF Shape
  <1>2. SUFFICES ASSUME Len(stack) # 1 PROVE FALSE
    OBVIOUS
  <1>3. ASSUME NEW n \in Nat \ {0}, n # 1
        PROVE  \E i \in 1 .. n - 1 : i + 1 = n
    <2>1. n - 1 \in 1 .. n - 1 /\ (n - 1) + 1 = n
      BY <1>3
    <2> QED
      BY <2>1
  <1>5. PICK i \in 1 .. Len(stack) - 1 : i + 1 = Len(stack)
    BY <1>1, <1>2, <1>3
  <1>4. Calls(stack[i], stack[i + 1])
    BY <1>5 DEF Shape
  <1> QED
    BY <1>1, <1>5, <1>4 DEF Calls

\* The ports of a hub are enumerated for a device at one of them.
LEMMA ShapeCall ==
    ASSUME Shape, stack # <<>>, Frame.loop = "ports", NEW t \in Seq(Frames), Len(t) = 2,
           stack' = Front(stack) \o t, Sound(t[1]), Sound(t[2]), t[1].loop = "ports",
           t[1].hub = Frame.hub, t[2].hub = Frame.hub, t[2].loop = "detect"
    PROVE  Shape' /\ Len(stack) = 1
  <1>1. /\ Len(stack) \in Nat \ {0} /\ Frame = stack[Len(stack)] /\ stack \in Seq(Frames)
    BY StackFacts DEF Shape
  <1>2. /\ stack' \in Seq(Frames) /\ Len(stack') = Len(stack) + 1
        /\ stack'[Len(stack)] = t[1] /\ stack'[Len(stack) + 1] = t[2]
    BY <1>1, CallStack
  <1>3. Len(stack) = 1
    BY PortsAlone
  <1>4. stack'[1] = t[1] /\ stack'[2] = t[2] /\ Len(stack') = 2
    BY <1>2, <1>3
  <1>5. Calls(t[1], t[2])
    BY DEF Calls
  <1> QED
    BY <1>2, <1>3, <1>4, <1>5 DEF Shape

\* The port a loop is at, or that HandlePortStatusChange comes to next.
LEMMA HubOfFrame ==
    ASSUME Shape, stack # <<>>
    PROVE  /\ Frame \in Frames /\ Sound(Frame) /\ Frame.hub \in HubPlaces
           /\ Len(stack) \in Nat \ {0}
  <1>1. Frame \in Frames /\ Sound(Frame) /\ Len(stack) \in Nat \ {0}
    BY StackFacts DEF Shape
  <1> QED
    BY <1>1 DEF Sound, Frames, HubPlaces

LEMMA HereIs ==
    ASSUME Shape, stack # <<>>, Frame.loop \in {"detect", "configure"},
           Frame.at <= NPorts(Frame.hub)
    PROVE  /\ Frame.at \in 1 .. NPorts(Frame.hub) /\ Here \in Places
           /\ Parent(Here) = Frame.hub /\ Len(Here) = Len(Frame.hub) + 1
           /\ Here = Append(Frame.hub, Frame.at) /\ Len(Frame.hub) \in Nat
  <1>1. Frame \in Frames /\ Sound(Frame) /\ Frame.hub \in HubPlaces
    BY HubOfFrame
  <1>2. NPorts(Frame.hub) \in Nat
    BY Ports DEF NPorts
  <1>3. Frame.at \in 1 .. NPorts(Frame.hub)
    BY <1>1, <1>2 DEF Frames, Sound
  <1>4. Len(Frame.hub) \in Nat
    BY <1>1, PlaceSeq, LenProperties DEF HubPlaces
  <1>5. Here = Append(Frame.hub, Frame.at)
    BY DEF Here
  <1> QED
    BY <1>1, <1>3, <1>4, <1>5, PortPlace

LEMMA PortIs ==
    ASSUME Shape, stack # <<>>, Frame.todo # {}
    PROVE  /\ Due \in 1 .. NPorts(Frame.hub) /\ Due \in Frame.todo /\ Port \in Places
           /\ Parent(Port) = Frame.hub /\ Len(Port) = Len(Frame.hub) + 1
           /\ Port = Append(Frame.hub, Due) /\ Len(Frame.hub) \in Nat
  <1>1. Frame \in Frames /\ Sound(Frame) /\ Frame.hub \in HubPlaces
    BY HubOfFrame
  <1>2. Due \in Frame.todo
    BY <1>1, DueIn DEF Frames
  <1>3. Due \in 1 .. NPorts(Frame.hub)
    BY <1>1, <1>2 DEF Sound
  <1>4. Len(Frame.hub) \in Nat
    BY <1>1, PlaceSeq, LenProperties DEF HubPlaces
  <1>5. Port = Append(Frame.hub, Due)
    BY DEF Port
  <1> QED
    BY <1>1, <1>2, <1>3, <1>4, <1>5, PortPlace

LEMMA EnumerateFrame ==
    ASSUME NEW s \in HubPlaces
    PROVE  /\ Enumerate(s) \in Frames /\ Sound(Enumerate(s)) /\ Enumerate(s).hub = s
           /\ Enumerate(s).loop = "detect" /\ Enumerate(s).at = 1
  BY DEF Enumerate, Frames, Sound, HubPlaces

LEMMA NextPortFrame ==
    ASSUME NEW f \in Frames, Sound(f)
    PROVE  /\ [f EXCEPT !.at = @ + 1] \in Frames /\ Sound([f EXCEPT !.at = @ + 1])
           /\ [f EXCEPT !.at = @ + 1].hub = f.hub /\ [f EXCEPT !.at = @ + 1].loop = f.loop
  BY DEF Frames, Sound

LEMMA SecondLoopFrame ==
    ASSUME NEW f \in Frames, Sound(f)
    PROVE  /\ [f EXCEPT !.loop = "configure", !.at = 1] \in Frames
           /\ Sound([f EXCEPT !.loop = "configure", !.at = 1])
           /\ [f EXCEPT !.loop = "configure", !.at = 1].hub = f.hub
           /\ [f EXCEPT !.loop = "configure", !.at = 1].loop = "configure"
  <1> DEFINE g == [f EXCEPT !.loop = "configure", !.at = 1]
  <1>1. g \in Frames /\ g.hub = f.hub /\ g.loop = "configure" /\ g.at = 1 /\ g.todo = f.todo
    BY DEF Frames
  <1> HIDE DEF g
  <1>2. Sound(g)
    BY <1>1 DEF Sound
  <1> QED
    BY <1>1, <1>2 DEF g

LEMMA EndFrame ==
    ASSUME NEW f \in Frames, Sound(f), NEW b \in BOOLEAN
    PROVE  /\ [f EXCEPT !.loop = "end", !.ok = b] \in Frames
           /\ Sound([f EXCEPT !.loop = "end", !.ok = b])
           /\ [f EXCEPT !.loop = "end", !.ok = b].hub = f.hub
           /\ [f EXCEPT !.loop = "end", !.ok = b].loop = "end"
           /\ [f EXCEPT !.loop = "end", !.ok = b].ok = b
  BY DEF Frames, Sound

LEMMA PortDoneFrame ==
    ASSUME Frame \in Frames, Sound(Frame)
    PROVE  /\ PortDone \in Frames /\ Sound(PortDone) /\ PortDone.hub = Frame.hub
           /\ PortDone.loop = Frame.loop
  BY DEF Frames, Sound, PortDone

-----------------------------------------------------------------------------
(* The inductive invariant                                                 *)

\* The events are about ports of hubs, and the hub of an event that has not
\* been deleted is configured.
EventsFit ==
    \A i \in 1 .. Len(m_HubList) :
        /\ Len(m_HubList[i].hub) <= 1
        /\ m_HubList[i].bits \subseteq 1 .. NPorts(m_HubList[i].hub)
        /\ ~m_HubList[i].deleted => IsHub(m_HubList[i].hub) /\ Configured(m_HubList[i].hub)

\* A device has its object at a port of a hub that has been found before.
ObjectsFit ==
    \A x \in Places : m_pDevice[x] # NULL =>
        /\ m_pDevice[x].dev \in Hubs => Len(x) = 1
        /\ m_pDevice[x].state = "configuring" => m_pDevice[x].dev \in Hubs
        /\ m_pDevice[x].state # "initialised" => m_bPortConfigured[x]
        /\ IsHub(Parent(x))
        /\ Parent(x) # <<>> => m_pDevice[Parent(x)].state # "initialised"

\* What a loop expects of the hub it has started another loop for.
Expected(f, s) ==
    IF f.loop = "configure"
    THEN s # <<>> /\ m_pDevice[s] # NULL /\ m_pDevice[s].state = "configuring"
    ELSE Configured(s)

\* No loop is about a hub whose object has been deleted.
FramesLive ==
    failed = "none" =>
        /\ \A i \in 1 .. Len(stack) : IsHub(stack[i].hub)
        /\ stack # <<>> => Configured(stack[1].hub)
        /\ \A i \in 1 .. Len(stack) - 1 : Expected(stack[i], stack[i + 1].hub)

\* Status change requests are outstanding at hubs that work.
Requests ==
    failed = "none" =>
        \A s \in request : IsHub(s) /\ Configured(s) /\ Reaches(s)

\* A device that answers to its object is where the object is.
InPlace ==
    \A x \in Places : Reaches(x) => At(x) = m_pDevice[x].dev /\ Reaches(Parent(x))

Apart == failed = "none" => ~Collide(answers)

Present == {x \in Places : m_pDevice[x] # NULL}

\* The on-board hub has the address 1, and every device one of its own.
AddressesExact ==
    /\ pools["addr"] = {1} \union {m_pDevice[x].addr : x \in Present}
    /\ \A x \in Present : m_pDevice[x].addr # 1
    /\ \A x, y \in Present : m_pDevice[x].addr = m_pDevice[y].addr => x = y

Named == {x \in Present : m_pDevice[x].state # "initialised"} \union {<<>>}

\* Every hub and keyboard that is configured has a name of its own.
NamesExact ==
    /\ {n.place : n \in names} = Named
    /\ \A n \in names : n.prefix = (IF IsHub(n.place) THEN "uhub" ELSE "ukbd")
    /\ \A n, o \in names : n.place = o.place => n = o
    /\ \A n, o \in names : n.prefix = o.prefix /\ n.number = o.number => n = o
    /\ \A p \in NamePrefixes :
           pools[p] = {n.number : n \in {o \in names : o.prefix = p}}

\* The hub is at work on its ports, or has an event in the list.
Working(s) == stack # <<>> /\ stack[1].hub = s
Reported(s) ==
    \E i \in 1 .. Len(m_HubList) : m_HubList[i].hub = s /\ ~m_HubList[i].deleted

\* Request, event and work exclude each other, and a hub that works has one,
\* unless its request has failed.
OneWatch ==
    failed = "none" =>
        /\ \A i, j \in 1 .. Len(m_HubList) :
               /\ m_HubList[i].hub = m_HubList[j].hub
               /\ ~m_HubList[i].deleted /\ ~m_HubList[j].deleted
               => i = j
        /\ \A s \in Tree :
               /\ ~(s \in request /\ Working(s))
               /\ ~(s \in request /\ Reported(s))
               /\ ~(Working(s) /\ Reported(s))
        /\ \A s \in Tree : IsHub(s) /\ Configured(s) /\ Reaches(s)
               => (s \in request \/ Working(s) \/ Reported(s) <=> s \notin deaf)

TreeInv ==
    /\ TypeOK /\ Wired /\ Shape /\ EventsFit /\ ObjectsFit /\ FramesLive /\ Requests
    /\ InPlace /\ Apart /\ AddressesExact /\ NamesExact /\ OneWatch

\* As long as nothing fails but what was pulled out, a device answers only at
\* the address that its object has, and a hub fails only when it has gone.
OwnAnswers ==
    \A d \in Devices : answers[d] # NULL =>
        \E x \in Present : m_pDevice[x].dev = d /\ m_pDevice[x].addr = answers[d]

OnlyGoneFail ==
    \A i \in 1 .. Len(stack) : stack[i].loop = "end" /\ ~stack[i].ok =>
        stack[i].hub # <<>> /\ ~Reaches(stack[i].hub)

Owned ==
    faults = 0 =>
        OwnAnswers /\ failed # "collision" /\ (failed = "none" => OnlyGoneFail)

LEMMA ObjectFacts ==
    ASSUME TypeOK, NEW x \in Places, m_pDevice[x] # NULL
    PROVE  /\ m_pDevice[x] \in Objects /\ m_pDevice[x].dev \in Devices
           /\ m_pDevice[x].addr \in Numbers
           /\ m_pDevice[x].state \in {"initialised", "configuring", "configured"}
  <1>1. m_pDevice[x] \in Objects
    BY DEF TypeOK
  <1> QED
    BY <1>1 DEF Objects

LEMMA EventFacts ==
    ASSUME TypeOK, EventsFit, NEW i \in 1 .. Len(m_HubList)
    PROVE  /\ m_HubList[i] \in [hub : Tree, bits : SUBSET Nat, deleted : BOOLEAN]
           /\ m_HubList[i].hub \in HubPlaces /\ m_HubList[i].bits \subseteq Nat
           /\ m_HubList[i].deleted \in BOOLEAN
  <1>1. m_HubList[i] \in [hub : Tree, bits : SUBSET Nat, deleted : BOOLEAN]
    BY ElementOfSeq DEF TypeOK
  <1> QED
    BY <1>1 DEF EventsFit, HubPlaces

\* An external hub with an object is at a port of the on-board hub.
LEMMA HubObject ==
    ASSUME ObjectsFit, NEW x \in Places, IsHub(x)
    PROVE  x \in HubPlaces /\ m_pDevice[x] # NULL /\ m_pDevice[x].dev \in Hubs
  <1>1. m_pDevice[x] # NULL /\ m_pDevice[x].dev \in Hubs
    BY PlaceNotBoard DEF IsHub
  <1>2. Len(x) = 1
    BY <1>1 DEF ObjectsFit
  <1>3. x \in HubPlaces
    <2>1. Len(x) \in Int /\ Len(x) <= 1
      BY <1>2
    <2> QED
      BY <2>1 DEF HubPlaces, Tree
  <1> QED
    BY <1>1, <1>3

\* What a step can do to the loops: nothing; the last one goes on; it calls
\* another one, for a hub at its port or for its own; it returns; all is done;
\* or an event is taken up.
Continues(f) ==
    /\ f \in Frames /\ Sound(f) /\ f.hub = Frame.hub
    /\ f.loop = "ports" <=> Frame.loop = "ports"
    /\ Top(f)

Returns(f) ==
    /\ f \in Frames /\ Sound(f) /\ f.hub = stack[Len(stack) - 1].hub
    /\ f.loop = stack[Len(stack) - 1].loop
    /\ stack' = Append(SubSeq(stack, 1, Len(stack) - 2), f)

Descends ==
    /\ stack # <<>> /\ Frame.loop \in {"detect", "configure"}
    /\ Frame.at <= NPorts(Frame.hub) /\ IsHub(Here)
    /\ stack' = Append(stack, Enumerate(Here))
    /\ Rescan \/ ConfigureHub

LEMMA LoopGoesOn ==
    ASSUME TreeInv,
           \/ LoopOver \/ EmptyPort \/ Initialize \/ InitializeFails \/ DetectAborts
           \/ SkipPort \/ ConfigureKeyboard \/ ConfigureFails \/ PortRemoved \/ PortKept
    PROVE  stack # <<>> /\ \E f \in Frames : Continues(f)
  <1>1. stack # <<>>
    BY DEF LoopOver, EmptyPort, Initialize, InitializeFails, DetectAborts, NewDevice,
           SkipPort, ConfigureKeyboard, ConfigureFails, ToConfigure, PortRemoved, PortKept,
           PortStatus, InLoop
  <1>2. Frame \in Frames /\ Sound(Frame)
    BY <1>1, HubOfFrame DEF TreeInv
  <1>3. CASE NextPort
    BY <1>1, <1>2, <1>3, NextPortFrame DEF Continues, NextPort
  <1>4. CASE Top(PortDone)
    BY <1>1, <1>2, <1>4, PortDoneFrame DEF Continues
  <1>5. ASSUME NEW b \in BOOLEAN, Top([Frame EXCEPT !.loop = "end", !.ok = b]),
               Frame.loop # "ports"
        PROVE  \E f \in Frames : Continues(f)
    BY <1>1, <1>2, <1>5, EndFrame DEF Continues
  <1>6. ASSUME Top([Frame EXCEPT !.loop = "configure", !.at = 1]), Frame.loop = "detect"
        PROVE  \E f \in Frames : Continues(f)
    <2>1. /\ [Frame EXCEPT !.loop = "configure", !.at = 1] \in Frames
          /\ Sound([Frame EXCEPT !.loop = "configure", !.at = 1])
          /\ [Frame EXCEPT !.loop = "configure", !.at = 1].hub = Frame.hub
          /\ [Frame EXCEPT !.loop = "configure", !.at = 1].loop = "configure"
      BY <1>2, SecondLoopFrame
    <2> QED
      BY <1>6, <2>1 DEF Continues
  <1>7. CASE LoopOver
    <2>1. Reaches(Frame.hub) \in BOOLEAN
      BY DEF Reaches
    <2>2. \/ Frame.loop = "detect" /\ Top([Frame EXCEPT !.loop = "configure", !.at = 1])
          \/ /\ Frame.loop = "configure"
             /\ Top([Frame EXCEPT !.loop = "end", !.ok = Reaches(Frame.hub)])
          \/ /\ Frame.loop = "configure"
             /\ Top([Frame EXCEPT !.loop = "end", !.ok = FALSE])
      BY <1>7 DEF LoopOver
    <2> QED
      BY <1>1, <1>5, <1>6, <2>1, <2>2
  <1>8. CASE DetectAborts
    BY <1>1, <1>5, <1>8 DEF DetectAborts, NewDevice, InLoop
  <1> QED
    BY <1>1, <1>3, <1>4, <1>7, <1>8 DEF EmptyPort, Initialize, InitializeFails, SkipPort,
       ConfigureKeyboard, ConfigureFails, PortRemoved, PortKept

LEMMA LoopReturns ==
    ASSUME TreeInv, ReturnToHandler \/ ReturnToConfigure
    PROVE  Len(stack) > 1 /\ \E f \in Frames : Returns(f)
  <1>1. /\ Len(stack) > 1 /\ Len(stack) \in Nat /\ stack # <<>> /\ stack \in Seq(Frames)
    <2>1. Len(stack) > 1
      BY DEF ReturnToHandler, ReturnToConfigure, HubStarts, HubFails, BackToConfigure
    <2>2. stack \in Seq(Frames)
      BY DEF TreeInv, Shape
    <2> QED
      BY <2>1, <2>2, EmptySeq, LenProperties
  <1> DEFINE i == Len(stack) - 1
  <1>2. i \in 1 .. Len(stack)
    BY <1>1
  <1>3. stack[i] \in Frames /\ Sound(stack[i])
    BY <1>1, <1>2, StackFacts DEF TreeInv, Shape
  <1>4. \/ stack' = Append(SubSeq(stack, 1, Len(stack) - 2), stack[i])
        \/ stack' = Append(SubSeq(stack, 1, Len(stack) - 2), [stack[i] EXCEPT !.at = @ + 1])
    <2>1. CASE ReturnToHandler
      BY <2>1 DEF ReturnToHandler
    <2>2. CASE ReturnToConfigure
      <3>1. stack' = Append(SubSeq(stack, 1, Len(stack) - 2),
                            [stack[Len(stack) - 1] EXCEPT !.at = @ + 1])
        BY <2>2 DEF ReturnToConfigure, HubStarts, HubFails, BackToConfigure
      <3> QED
        BY <3>1
    <2> QED
      BY <2>1, <2>2
  <1> HIDE DEF i
  <1>5. /\ [stack[i] EXCEPT !.at = @ + 1] \in Frames /\ Sound([stack[i] EXCEPT !.at = @ + 1])
        /\ [stack[i] EXCEPT !.at = @ + 1].hub = stack[i].hub
        /\ [stack[i] EXCEPT !.at = @ + 1].loop = stack[i].loop
    BY <1>3, NextPortFrame
  <1> QED
    BY <1>1, <1>3, <1>4, <1>5 DEF Returns, i

LEMMA StackSteps ==
    ASSUME TreeInv, [Next]_vars
    PROVE  \/ UNCHANGED stack
           \/ stack # <<>> /\ \E f \in Frames : Continues(f)
           \/ Descends
           \/ PortConnected /\ stack' = Front(stack) \o <<PortDone, Enumerate(Frame.hub)>>
           \/ Len(stack) > 1 /\ \E f \in Frames : Returns(f)
           \/ stack' = <<>> /\ (PortsDone \/ BootEnds)
           \/ HandleEvent
  <1>1. CASE \/ LoopOver \/ EmptyPort \/ Initialize \/ InitializeFails \/ DetectAborts
             \/ SkipPort \/ ConfigureKeyboard \/ ConfigureFails \/ PortRemoved \/ PortKept
    BY <1>1, LoopGoesOn
  <1>2. CASE ReturnToHandler \/ ReturnToConfigure
    BY <1>2, LoopReturns
  <1>3. CASE BootEnds \/ PortsDone
    BY <1>3 DEF BootEnds, PortsDone
  <1>4. CASE HandleEvent
    BY <1>4
  <1>5. CASE Rescan
    <2>1. CASE IsHub(Here) /\ m_pDevice[Here].state = "configured"
      BY <1>5, <2>1 DEF Rescan, InLoop, Descends
    <2>2. CASE ~(IsHub(Here) /\ m_pDevice[Here].state = "configured")
      <3>1. stack # <<>> /\ NextPort
        BY <1>5, <2>2 DEF Rescan, InLoop
      <3>2. Frame \in Frames /\ Sound(Frame)
        BY <3>1, HubOfFrame DEF TreeInv
      <3> QED
        BY <3>1, <3>2, NextPortFrame DEF Continues, NextPort
    <2> QED
      BY <2>1, <2>2
  <1>6. CASE ConfigureHub
    BY <1>6 DEF ConfigureHub, ToConfigure, InLoop, Descends
  <1>7. CASE PortConnected
    <2>1. CASE Top(PortDone)
      <3>1. stack # <<>>
        BY <1>7 DEF PortConnected, PortStatus, InLoop
      <3>2. Frame \in Frames /\ Sound(Frame)
        BY <3>1, HubOfFrame DEF TreeInv
      <3> QED
        BY <2>1, <3>1, <3>2, PortDoneFrame DEF Continues
    <2> QED
      BY <1>7, <2>1 DEF PortConnected
  <1>8. CASE StatusFails \/ UpdateEnd \/ UNCHANGED vars
    BY <1>8 DEF StatusFails, UpdateEnd, vars
  <1>9. ASSUME NEW d \in Devices, NEW k \in Sockets, Plug(d, k)
        PROVE  UNCHANGED stack
    BY <1>9 DEF Plug
  <1>10. ASSUME NEW k \in Sockets, Unplug(k)
         PROVE  UNCHANGED stack
    BY <1>10 DEF Unplug
  <1>11. ASSUME NEW s \in Tree, StatusChange(s) \/ RequestFails(s)
         PROVE  UNCHANGED stack
    BY <1>11 DEF StatusChange, RequestFails
  <1> QED
    BY <1>1, <1>2, <1>3, <1>4, <1>5, <1>6, <1>7, <1>8, <1>9, <1>10, <1>11 DEF Next, Task

LEMMA DescendsTo ==
    ASSUME TreeInv, Descends
    PROVE  /\ Here \in Places /\ Here \in HubPlaces /\ Here # <<>> /\ Len(Here) = 1
           /\ Frame.hub = <<>> /\ Calls(Frame, Enumerate(Here)) /\ stack # <<>>
           /\ Enumerate(Here) \in Frames /\ Sound(Enumerate(Here))
           /\ Enumerate(Here).hub = Here
           /\ m_pDevice[Here] # NULL /\ m_pDevice[Here].dev \in Hubs
  <1>1. /\ stack # <<>> /\ Frame.loop \in {"detect", "configure"}
        /\ Frame.at <= NPorts(Frame.hub) /\ IsHub(Here)
    BY DEF Descends
  <1>2. /\ Frame.at \in 1 .. NPorts(Frame.hub) /\ Here \in Places
        /\ Here = Append(Frame.hub, Frame.at) /\ Len(Here) = Len(Frame.hub) + 1
        /\ Parent(Here) = Frame.hub
    BY <1>1, HereIs DEF TreeInv
  <1>3. Here \in HubPlaces /\ m_pDevice[Here] # NULL /\ m_pDevice[Here].dev \in Hubs
    BY <1>1, <1>2, HubObject DEF TreeInv
  <1>4. Len(Here) = 1
    BY <1>2, <1>3 DEF TreeInv, ObjectsFit
  <1>5. Frame.hub = <<>>
    BY <1>2, <1>4, ParentOf
  <1>6. Calls(Frame, Enumerate(Here))
    BY <1>1, <1>2, <1>3, EnumerateFrame DEF Calls
  <1> QED
    BY <1>1, <1>2, <1>3, <1>4, <1>5, <1>6, EnumerateFrame, PlaceNotBoard

LEMMA CallsAgain ==
    ASSUME TreeInv, PortConnected,
           stack' = Front(stack) \o <<PortDone, Enumerate(Frame.hub)>>
    PROVE  /\ Shape' /\ Len(stack) = 1 /\ Len(stack') = 2 /\ Frame = stack[1]
           /\ stack'[1] = PortDone /\ stack'[2] = Enumerate(Frame.hub)
  <1>1. stack # <<>> /\ Frame.loop = "ports"
    BY DEF PortConnected, PortStatus, InLoop
  <1>2. Frame \in Frames /\ Sound(Frame) /\ Frame.hub \in HubPlaces
    BY <1>1, HubOfFrame DEF TreeInv
  <1>3. /\ PortDone \in Frames /\ Sound(PortDone) /\ PortDone.hub = Frame.hub
        /\ PortDone.loop = "ports"
    BY <1>1, <1>2, PortDoneFrame
  <1>4. /\ Enumerate(Frame.hub) \in Frames /\ Sound(Enumerate(Frame.hub))
        /\ Enumerate(Frame.hub).hub = Frame.hub /\ Enumerate(Frame.hub).loop = "detect"
    BY <1>2, EnumerateFrame
  <1>5. PICK t : t = <<PortDone, Enumerate(Frame.hub)>>
    OBVIOUS
  <1>6. t \in Seq(Frames) /\ Len(t) = 2 /\ t[1] = PortDone /\ t[2] = Enumerate(Frame.hub)
    BY <1>3, <1>4, <1>5
  <1>7. stack' = Front(stack) \o t
    BY <1>5
  <1>8. Shape' /\ Len(stack) = 1
    BY <1>1, <1>3, <1>4, <1>6, <1>7, ShapeCall DEF TreeInv
  <1>9. stack \in Seq(Frames) /\ Frame = stack[1]
    BY <1>1, <1>8, StackFacts DEF TreeInv, Shape
  <1>10. /\ Len(stack') = Len(stack) + 1
         /\ stack'[Len(stack)] = t[1] /\ stack'[Len(stack) + 1] = t[2]
    BY <1>1, <1>6, <1>7, <1>9, CallStack
  <1> QED
    BY <1>6, <1>8, <1>9, <1>10

LEMMA TakesEvent ==
    ASSUME TreeInv, HandleEvent
    PROVE  /\ Shape' /\ Len(stack') = 1 /\ stack'[1].loop = "ports"
           /\ stack'[1].hub = m_HubList[1].hub /\ stack = <<>>
           /\ Len(m_HubList) \in Nat \ {0}
           /\ failed' = "none" <=> ~m_HubList[1].deleted
  <1>1. m_HubList # <<>> /\ m_HubList \in Seq([hub : Tree, bits : SUBSET Nat, deleted : BOOLEAN])
    BY DEF HandleEvent, TreeInv, TypeOK
  <1>2. Len(m_HubList) \in Nat \ {0} /\ Head(m_HubList) = m_HubList[1]
    BY <1>1, EmptySeq
  <1>3. /\ m_HubList[1] \in [hub : Tree, bits : SUBSET Nat, deleted : BOOLEAN]
        /\ m_HubList[1].hub \in HubPlaces
    BY <1>2, EventFacts DEF TreeInv
  <1>4. m_HubList[1].bits \subseteq 1 .. NPorts(m_HubList[1].hub)
    BY <1>2 DEF TreeInv, EventsFit
  <1>5. PICK f : f = [loop |-> "ports", hub |-> m_HubList[1].hub, at |-> 0,
                      todo |-> m_HubList[1].bits, ok |-> TRUE]
    OBVIOUS
  <1>6. f \in Frames /\ f.loop = "ports" /\ f.hub = m_HubList[1].hub
    BY <1>3, <1>5 DEF Frames
  <1>7. Sound(f)
    BY <1>3, <1>4, <1>5 DEF Sound, HubPlaces
  <1>8. stack' = <<f>>
    BY <1>2, <1>5 DEF HandleEvent
  <1>9. stack' \in Seq(Frames) /\ Len(stack') = 1 /\ stack'[1] = f
    BY <1>6, <1>8
  <1>10. Shape'
    BY <1>6, <1>7, <1>9 DEF Shape
  <1>11. failed' = "none" <=> ~m_HubList[1].deleted
    BY <1>2, <1>3 DEF HandleEvent
  <1> QED
    BY <1>2, <1>6, <1>9, <1>10, <1>11 DEF HandleEvent

LEMMA ShapeNext == ASSUME TreeInv, [Next]_vars PROVE Shape'
  <1>1. Shape
    BY DEF TreeInv
  <1>2. CASE UNCHANGED stack
    BY <1>1, <1>2 DEF Shape
  <1>3. CASE stack # <<>> /\ \E f \in Frames : Continues(f)
    BY <1>1, <1>3, ShapeTop DEF Continues
  <1>4. CASE Descends
    <2>1. stack' = Append(stack, Enumerate(Here))
      BY <1>4 DEF Descends
    <2> QED
      BY <1>1, <1>4, <2>1, DescendsTo, ShapePush
  <1>5. CASE PortConnected /\ stack' = Front(stack) \o <<PortDone, Enumerate(Frame.hub)>>
    BY <1>5, CallsAgain
  <1>6. CASE Len(stack) > 1 /\ \E f \in Frames : Returns(f)
    BY <1>1, <1>6, ShapePop DEF Returns
  <1>7. CASE stack' = <<>>
    <2>1. Len(stack') = 0 /\ stack' \in Seq(Frames)
      BY <1>7, EmptySeq
    <2> QED
      BY <1>7, <2>1 DEF Shape
  <1>8. CASE HandleEvent
    BY <1>8, TakesEvent
  <1> QED
    BY <1>2, <1>3, <1>4, <1>5, <1>6, <1>7, <1>8, StackSteps

\* No hub is found behind an external one: the callers of a loop about an
\* external hub are about the on-board hub.
LEMMA Callers ==
    ASSUME Shape, Len(stack) > 1, Frame.hub # <<>>, stack[Len(stack) - 1].loop # "ports"
    PROVE  \A i \in 1 .. Len(stack) - 1 : stack[i].hub = <<>>
  <1>1. /\ stack \in Seq(Frames) /\ Len(stack) \in Nat /\ stack # <<>>
        /\ Frame = stack[Len(stack)]
    BY LenProperties, EmptySeq, StackFacts DEF Shape
  <1>2. ASSUME NEW i \in 1 .. Len(stack) - 1, stack[i].loop # "ports"
        PROVE  stack[i].hub = <<>>
    <2>1. /\ stack[i] \in Frames /\ Sound(stack[i]) /\ Sound(stack[i + 1])
          /\ Calls(stack[i], stack[i + 1])
      BY <1>1, StackFacts DEF Shape
    <2>2. stack[i].hub \in HubPlaces
      BY <2>1 DEF Sound, Frames, HubPlaces
    <2>3. /\ stack[i].at \in 1 .. NPorts(stack[i].hub)
          /\ stack[i + 1].hub = Append(stack[i].hub, stack[i].at)
      BY <1>2, <2>1 DEF Calls
    <2>4. Len(stack[i + 1].hub) = Len(stack[i].hub) + 1
      BY <2>2, <2>3, PortPlace
    <2>5. Len(stack[i].hub) # 1
      <3>1. SUFFICES ASSUME Len(stack[i].hub) = 1 PROVE FALSE
        OBVIOUS
      <3>2. Len(stack[i + 1].hub) <= 1
        BY <2>1 DEF Sound
      <3>3. Len(stack[i + 1].hub) = 2
        BY <2>4, <3>1
      <3> QED
        BY <3>2, <3>3
    <2> QED
      BY <2>2, <2>5, HubCases
  <1>3. ASSUME NEW i \in 2 .. Len(stack)
        PROVE  stack[i].loop # "ports"
    <2>1. PICK j \in 1 .. Len(stack) - 1 : j + 1 = i
      <3>1. i - 1 \in 1 .. Len(stack) - 1 /\ (i - 1) + 1 = i
        BY <1>1
      <3> QED
        BY <3>1
    <2>2. Calls(stack[j], stack[j + 1])
      BY DEF Shape
    <2> QED
      BY <2>1, <2>2 DEF Calls
  <1>4. ASSUME stack[1].loop = "ports" PROVE stack[1].hub = <<>>
    <2>1. Len(stack) > 2
      BY <1>1, <1>4
    <2>2. stack[2].hub = stack[1].hub
      <3>1. 1 \in 1 .. Len(stack) - 1 /\ 1 + 1 = 2
        BY <1>1, <2>1
      <3>2. Calls(stack[1], stack[1 + 1])
        BY <3>1 DEF Shape
      <3> QED
        BY <1>4, <3>1, <3>2 DEF Calls
    <2>3. 2 \in 1 .. Len(stack) - 1 /\ 2 \in 2 .. Len(stack)
      BY <1>1, <2>1
    <2> QED
      BY <1>2, <1>3, <2>2, <2>3
  <1>5. ASSUME NEW i \in 1 .. Len(stack) - 1 PROVE stack[i].hub = <<>>
    <2>1. CASE i = 1
      BY <1>1, <1>2, <1>4, <2>1
    <2>2. CASE i # 1
      BY <1>1, <1>2, <1>3, <2>2
    <2> QED
      BY <2>1, <2>2
  <1> QED
    BY <1>5

-----------------------------------------------------------------------------
(* Objects that come and go                                                *)

\* The hubs that loops are about, other than the on-board one, have objects
\* past their initialisation.
LEMMA HubStates ==
    ASSUME TreeInv, failed = "none", NEW i \in 1 .. Len(stack), stack[i].hub # <<>>
    PROVE  /\ stack[i].hub \in Places /\ stack[i].hub \in HubPlaces
           /\ m_pDevice[stack[i].hub] # NULL /\ m_pDevice[stack[i].hub].dev \in Hubs
           /\ m_pDevice[stack[i].hub].state \in {"configuring", "configured"}
  <1>1. stack \in Seq(Frames) /\ stack # <<>> /\ Len(stack) \in Nat \ {0}
    BY EmptySeq, LenProperties DEF TreeInv, Shape
  <1>2. stack[i] \in Frames
    BY <1>1, StackFacts
  <1>3. stack[i].hub \in Places
    BY <1>2 DEF Frames, Tree
  <1>4. IsHub(stack[i].hub)
    BY DEF TreeInv, FramesLive
  <1>5. /\ m_pDevice[stack[i].hub] # NULL /\ m_pDevice[stack[i].hub].dev \in Hubs
        /\ stack[i].hub \in HubPlaces
    BY <1>3, <1>4, HubObject DEF TreeInv
  <1>6. CASE i = 1
    <2>1. Configured(stack[1].hub)
      BY <1>1 DEF TreeInv, FramesLive
    <2> QED
      BY <1>3, <1>5, <1>6, <2>1 DEF Configured
  <1>7. CASE i # 1
    <2>1. PICK j \in 1 .. Len(stack) - 1 : j + 1 = i
      <3>1. i - 1 \in 1 .. Len(stack) - 1 /\ (i - 1) + 1 = i
        BY <1>1, <1>7
      <3> QED
        BY <3>1
    <2>2. Expected(stack[j], stack[i].hub)
      BY <2>1 DEF TreeInv, FramesLive
    <2> QED
      BY <1>3, <1>5, <2>2 DEF Expected, Configured
  <1> QED
    BY <1>6, <1>7

LEMMA FrameHub ==
    ASSUME TreeInv, failed = "none", stack # <<>>
    PROVE  /\ Frame.hub \in HubPlaces /\ IsHub(Frame.hub)
           /\ Frame.hub # <<>> =>
                  /\ Frame.hub \in Places /\ m_pDevice[Frame.hub] # NULL
                  /\ m_pDevice[Frame.hub].dev \in Hubs
                  /\ m_pDevice[Frame.hub].state \in {"configuring", "configured"}
  <1>1. Len(stack) \in 1 .. Len(stack) /\ Frame = stack[Len(stack)]
    BY StackFacts DEF TreeInv, Shape
  <1>2. IsHub(Frame.hub)
    BY <1>1 DEF TreeInv, FramesLive
  <1> QED
    BY <1>1, <1>2, HubStates, HubOfFrame DEF TreeInv

\* There is a number for a new device, and a name for one that is configured.
LEMMA FreeAddress ==
    ASSUME TreeInv, NEW t \in Places, m_pDevice[t] = NULL
    PROVE  AllocateNumber("addr") \in Numbers \ pools["addr"]
  <1>1. pools["addr"] \subseteq Numbers
    BY DEF TreeInv, TypeOK
  <1>2. SUFFICES ASSUME pools["addr"] = Numbers PROVE FALSE
    BY <1>1, Allocated
  <1>3. \A n \in Numbers : n # 1 => \E x \in Present : m_pDevice[x].addr = n
    BY <1>2 DEF TreeInv, AddressesExact
  <1> DEFINE f == [n \in Numbers |-> IF n = 1 THEN <<>>
                                     ELSE CHOOSE x \in Present : m_pDevice[x].addr = n]
  <1>4. \A n \in Numbers : n # 1 => f[n] \in Present /\ m_pDevice[f[n]].addr = n
    BY <1>3
  <1>5. \A n \in Numbers : n = 1 => f[n] = <<>>
    OBVIOUS
  <1>6. t \in Tree /\ t \notin Present /\ t # <<>> /\ <<>> \notin Present /\ Present \subseteq Tree
    BY PlaceNotBoard DEF Present, Tree
  <1>7. f \in [Numbers -> Tree]
    BY <1>3, <1>6 DEF Tree
  <1> HIDE DEF f
  <1>8. \A n \in Numbers : f[n] # t
    BY <1>4, <1>5, <1>6
  <1>9. \A m, n \in Numbers : f[m] = f[n] => m = n
    BY <1>4, <1>5, <1>6
  <1> QED
    BY <1>6, <1>7, <1>8, <1>9, NotFull

LEMMA FreeName ==
    ASSUME TreeInv, NEW p \in NamePrefixes, NEW t \in Places, t \notin Named
    PROVE  AllocateNumber(p) \in Numbers \ pools[p]
  <1>1. pools[p] \subseteq Numbers
    BY DEF TreeInv, TypeOK
  <1>2. SUFFICES ASSUME pools[p] = Numbers PROVE FALSE
    BY <1>1, Allocated
  <1>3. \A n \in Numbers : \E o \in names : o.prefix = p /\ o.number = n
    BY <1>2 DEF TreeInv, NamesExact
  <1> DEFINE g == [n \in Numbers |-> CHOOSE o \in names : o.prefix = p /\ o.number = n]
             f == [n \in Numbers |-> g[n].place]
  <1>4. \A n \in Numbers : g[n] \in names /\ g[n].number = n /\ f[n] = g[n].place
    BY <1>3
  <1>5. \A n \in Numbers : f[n] \in Named
    BY <1>4 DEF TreeInv, NamesExact
  <1>6. t \in Tree /\ Named \subseteq Tree
    BY DEF Named, Present, Tree
  <1>7. f \in [Numbers -> Tree]
    BY <1>5, <1>6
  <1> HIDE DEF f, g
  <1>8. \A n \in Numbers : f[n] # t
    BY <1>5
  <1>9. \A m, n \in Numbers : f[m] = f[n] => m = n
    BY <1>4 DEF TreeInv, NamesExact
  <1> QED
    BY <1>6, <1>7, <1>8, <1>9, NotFull

\* A new device: its object gets an address that was free.
LEMMA NewDeviceFacts ==
    ASSUME TreeInv, NewDevice
    PROVE  /\ failed = "none" /\ stack # <<>> /\ Here \in Places /\ m_pDevice[Here] = NULL
           /\ Parent(Here) = Frame.hub /\ IsHub(Frame.hub) /\ Reaches(Frame.hub)
           /\ At(Here) \in Devices /\ Here = Append(Frame.hub, Frame.at)
           /\ Frame.hub \in HubPlaces
           /\ Frame.hub # <<>> => /\ m_pDevice[Frame.hub] # NULL
                                  /\ m_pDevice[Frame.hub].state # "initialised"
  <1>1. /\ failed = "none" /\ stack # <<>> /\ Frame.loop = "detect"
        /\ Frame.at <= NPorts(Frame.hub) /\ m_pDevice[Here] = NULL
        /\ Reaches(Frame.hub) /\ At(Here) # NULL
    BY DEF NewDevice, InLoop
  <1>2. Here \in Places /\ Parent(Here) = Frame.hub /\ Here = Append(Frame.hub, Frame.at)
    BY <1>1, HereIs DEF TreeInv
  <1>3. At(Here) \in Devices
    BY <1>1, <1>2, AtType DEF TreeInv
  <1> QED
    BY <1>1, <1>2, <1>3, FrameHub

LEMMA InitializeFacts ==
    ASSUME TreeInv, Initialize
    PROVE  \E n \in Numbers \ pools["addr"] :
               /\ Addressed(AfterSetAddress(n))
               /\ pools' = [pools EXCEPT !["addr"] = @ \union {n}]
               /\ m_pDevice' = [m_pDevice EXCEPT ![Here] =
                      [dev |-> At(Here), addr |-> n, state |-> "initialised"]]
               /\ [dev |-> At(Here), addr |-> n, state |-> "initialised"] \in Objects
  <1>1. NewDevice
    BY DEF Initialize
  <1>2. Here \in Places /\ m_pDevice[Here] = NULL /\ At(Here) \in Devices
    BY <1>1, NewDeviceFacts
  <1>3. AllocateNumber("addr") \in Numbers \ pools["addr"]
    BY <1>2, FreeAddress
  <1>4. PICK n \in Numbers \ pools["addr"] : n = AllocateNumber("addr")
    BY <1>3
  <1>5. [dev |-> At(Here), addr |-> n, state |-> "initialised"] \in Objects
    BY <1>2, <1>4 DEF Objects
  <1> QED
    BY <1>4, <1>5 DEF Initialize

\* A device that is configured gets a name that was free.
LEMMA ToConfigureFacts ==
    ASSUME TreeInv, ToConfigure
    PROVE  /\ failed = "none" /\ stack # <<>> /\ Here \in Places /\ m_pDevice[Here] # NULL
           /\ m_pDevice[Here] \in Objects
           /\ m_pDevice[Here].state = "initialised" /\ ~m_bPortConfigured[Here]
           /\ Parent(Here) = Frame.hub /\ IsHub(Frame.hub) /\ Here \notin Named
           /\ Here = Append(Frame.hub, Frame.at) /\ Frame.loop = "configure"
           /\ Frame.at \in 1 .. NPorts(Frame.hub)
  <1>1. /\ failed = "none" /\ stack # <<>> /\ Frame.loop = "configure"
        /\ Frame.at <= NPorts(Frame.hub) /\ m_pDevice[Here] # NULL
        /\ ~m_bPortConfigured[Here]
    BY DEF ToConfigure, InLoop
  <1>2. /\ Here \in Places /\ Parent(Here) = Frame.hub /\ Here = Append(Frame.hub, Frame.at)
        /\ Frame.at \in 1 .. NPorts(Frame.hub)
    BY <1>1, HereIs DEF TreeInv
  <1>3. m_pDevice[Here].state = "initialised"
    BY <1>1, <1>2 DEF TreeInv, ObjectsFit
  <1>4. m_pDevice[Here] \in Objects
    BY <1>1, <1>2, ObjectFacts DEF TreeInv
  <1>5. Here \notin Named
    BY <1>2, <1>3, PlaceNotBoard DEF Named
  <1> QED
    BY <1>1, <1>2, <1>3, <1>4, <1>5, FrameHub

\* The object of a hub whose ports have been configured.
LEMMA ConfiguredHub ==
    ASSUME TreeInv, ReturnToConfigure
    PROVE  /\ failed = "none" /\ Frame.hub \in Places /\ m_pDevice[Frame.hub] # NULL
           /\ m_pDevice[Frame.hub] \in Objects /\ m_pDevice[Frame.hub].dev \in Hubs
           /\ m_pDevice[Frame.hub].state = "configuring"
           /\ Len(stack) > 1 /\ Len(stack) \in Nat /\ stack[Len(stack) - 1].loop = "configure"
           /\ Frame.ok \in BOOLEAN /\ Frame.loop = "end" /\ Frame = stack[Len(stack)]
           /\ Len(Frame.hub) = 1
           /\ \A i \in 1 .. Len(stack) - 1 : stack[i].hub = <<>>
  <1>1. /\ failed = "none" /\ stack # <<>> /\ Frame.loop = "end" /\ Len(stack) > 1
        /\ stack[Len(stack) - 1].loop = "configure"
    BY DEF ReturnToConfigure, HubStarts, HubFails, BackToConfigure, InLoop
  <1>2. /\ Len(stack) \in Nat /\ Frame = stack[Len(stack)] /\ Frame.ok \in BOOLEAN
        /\ Frame.hub \in Tree
    BY <1>1, StackFacts DEF TreeInv, Shape, Frames
  <1>3. PICK i \in 1 .. Len(stack) - 1 : i = Len(stack) - 1 /\ i + 1 = Len(stack)
    <2>1. Len(stack) - 1 \in 1 .. Len(stack) - 1 /\ (Len(stack) - 1) + 1 = Len(stack)
      BY <1>1, <1>2
    <2> QED
      BY <2>1
  <1>4. Expected(stack[i], Frame.hub)
    BY <1>1, <1>2, <1>3 DEF TreeInv, FramesLive
  <1>5. /\ Frame.hub # <<>> /\ m_pDevice[Frame.hub] # NULL
        /\ m_pDevice[Frame.hub].state = "configuring" /\ Frame.hub \in Places
    BY <1>1, <1>2, <1>3, <1>4 DEF Expected, Tree
  <1>6. m_pDevice[Frame.hub].dev \in Hubs /\ Len(Frame.hub) = 1
    BY <1>5 DEF TreeInv, ObjectsFit
  <1>7. m_pDevice[Frame.hub] \in Objects
    BY <1>5, ObjectFacts DEF TreeInv
  <1>8. \A k \in 1 .. Len(stack) - 1 : stack[k].hub = <<>>
    BY <1>1, <1>5, Callers DEF TreeInv
  <1> QED
    BY <1>1, <1>2, <1>5, <1>6, <1>7, <1>8

\* Which objects a step deletes: those at and below a place where there is no
\* device that works, and no hub with a request.
Spared(t) ==
    /\ t \in Places /\ m_pDevice[t] # NULL
    /\ \A x \in Below(t) : ~Works(x) /\ ~(IsHub(x) /\ Configured(x) /\ Reaches(x))
    /\ \A i \in 1 .. Len(stack') : stack'[i].hub \notin Below(t)
    /\ UNCHANGED <<plugged, answers, request, failed>>

LEMMA BelowHub ==
    ASSUME ObjectsFit, NEW t \in Places, NEW x \in Below(t), IsHub(x)
    PROVE  x = t
  <1>1. x \in Places
    BY DEF Below
  <1>2. Len(x) = 1
    BY <1>1, HubObject DEF ObjectsFit
  <1>3. Len(x) # 2
    BY <1>2
  <1> QED
    BY <1>1, <1>3, BelowIs

LEMMA BelowLong ==
    ASSUME NEW s \in HubPlaces, NEW t \in Places, Len(t) = Len(s) + 1
    PROVE  s \notin Below(t)
  <1>1. SUFFICES ASSUME s \in Below(t) PROVE FALSE
    OBVIOUS
  <1>2. Len(t) <= Len(s)
    BY <1>1 DEF Below, IsPrefix
  <1>3. Len(s) \in Nat
    BY PlaceSeq, LenProperties DEF HubPlaces
  <1> QED
    BY <1>2, <1>3

LEMMA FailureSpares ==
    ASSUME TreeInv, ConfigureFails
    PROVE  Delete(Here, TRUE) /\ Spared(Here) /\ Below(Here) \intersect Present = {Here}
  <1>1. ToConfigure /\ Delete(Here, TRUE) /\ UNCHANGED <<plugged, answers, request, failed>>
    BY DEF ConfigureFails, physical
  <1>2. /\ failed = "none" /\ stack # <<>> /\ Here \in Places /\ m_pDevice[Here] # NULL
        /\ m_pDevice[Here].state = "initialised" /\ Parent(Here) = Frame.hub
    BY <1>1, ToConfigureFacts
  <1>3. Here # <<>>
    BY <1>2, PlaceNotBoard
  <1>4. \A x \in Below(Here) : m_pDevice[x] # NULL => x = Here
    <2>1. SUFFICES ASSUME NEW x \in Places, Parent(x) = Here, m_pDevice[x] # NULL
                   PROVE  FALSE
      BY <1>2, BelowIs DEF Below
    <2> QED
      BY <1>2, <1>3, <2>1 DEF TreeInv, ObjectsFit
  <1>5. ~Configured(Here)
    BY <1>2, <1>3 DEF Configured
  <1>6. \A x \in Below(Here) : x # <<>> /\ ~Configured(x)
    <2>1. \A x \in Below(Here) : x # <<>>
      BY PlaceNotBoard DEF Below
    <2> QED
      BY <1>4, <1>5, <2>1 DEF Configured
  <1>7. stack # <<>> /\ \E f \in Frames : Continues(f)
    BY LoopGoesOn
  <1>8. PICK f \in Frames : Continues(f)
    BY <1>7
  <1>9. /\ Len(stack') = Len(stack) /\ Len(stack) \in Nat \ {0}
        /\ \A i \in 1 .. Len(stack) : stack'[i] = IF i = Len(stack) THEN f ELSE stack[i]
    BY <1>7, <1>8, TopStack, StackFacts DEF TreeInv, Shape, Continues
  <1>10. ASSUME NEW i \in 1 .. Len(stack') PROVE stack'[i].hub \notin Below(Here)
    <2>1. stack'[i].hub = stack[i].hub
      BY <1>7, <1>8, <1>9, StackFacts DEF Continues, TreeInv, Shape
    <2>2. CASE stack[i].hub = <<>>
      BY <2>1, <2>2, <1>6
    <2>3. CASE stack[i].hub # <<>>
      <3>1. /\ m_pDevice[stack[i].hub] # NULL
            /\ m_pDevice[stack[i].hub].state \in {"configuring", "configured"}
        BY <1>2, <1>9, <2>3, HubStates
      <3> QED
        BY <1>2, <1>4, <2>1, <3>1
    <2> QED
      BY <2>2, <2>3
  <1>11. Here \in Below(Here)
    BY <1>2, BelowIs
  <1>12. Below(Here) \intersect Present = {Here}
    BY <1>2, <1>4, <1>11 DEF Present
  <1>13. \A x \in Below(Here) : ~Works(x) /\ ~(IsHub(x) /\ Configured(x) /\ Reaches(x))
    BY <1>6 DEF Works
  <1> QED
    BY <1>1, <1>2, <1>10, <1>12, <1>13 DEF Spared

LEMMA RemovalSpares ==
    ASSUME TreeInv, PortRemoved
    PROVE  /\ Delete(Port, FALSE) /\ Spared(Port)
           /\ \A x \in Below(Port) : ~Reaches(x) /\ At(x) = NULL
  <1>1. /\ failed = "none" /\ stack # <<>> /\ Frame.loop = "ports" /\ Frame.todo # {}
        /\ At(Port) = NULL /\ m_pDevice[Port] # NULL /\ Delete(Port, FALSE)
        /\ UNCHANGED <<plugged, answers, request, failed>> /\ Top(PortDone)
    BY DEF PortRemoved, PortStatus, InLoop
  <1>2. /\ Port \in Places /\ Parent(Port) = Frame.hub /\ Len(Port) = Len(Frame.hub) + 1
        /\ Frame.hub \in HubPlaces /\ Frame \in Frames /\ Sound(Frame)
    BY <1>1, PortIs, HubOfFrame DEF TreeInv
  <1>3. \A x \in Below(Port) : x = Port \/ (Len(x) = 2 /\ Parent(x) = Port)
    BY <1>2, BelowIs DEF Below
  <1>4. ASSUME NEW x \in Below(Port) PROVE At(x) = NULL
    <2>1. x \in Places
      BY DEF Below
    <2>2. CASE x = Port
      BY <1>1, <2>2
    <2>3. CASE Len(x) = 2 /\ Parent(x) = Port
      <3>1. SUFFICES ASSUME At(x) # NULL PROVE FALSE
        OBVIOUS
      <3>2. At(Port) \in Hubs
        BY <2>1, <2>3, <3>1, AtChild DEF TreeInv
      <3> QED
        BY <1>1, <3>2, Distinct
    <2> QED
      BY <1>3, <2>2, <2>3
  <1>5. ASSUME NEW x \in Below(Port) PROVE ~Reaches(x)
    <2>1. SUFFICES ASSUME Reaches(x) PROVE FALSE
      OBVIOUS
    <2>2. x \in Places /\ x # <<>>
      BY PlaceNotBoard DEF Below
    <2>3. m_pDevice[x] # NULL /\ At(x) = m_pDevice[x].dev
      BY <2>1, <2>2 DEF Reaches, TreeInv, InPlace
    <2>4. m_pDevice[x].dev \in Devices
      BY <2>2, <2>3, ObjectFacts DEF TreeInv
    <2> QED
      BY <1>4, <2>3, <2>4, Distinct
  <1>6. \A x \in Below(Port) : ~Works(x) /\ ~(IsHub(x) /\ Configured(x) /\ Reaches(x))
    BY <1>5 DEF Works
  <1>7. Len(stack) = 1 /\ Frame = stack[1] /\ stack \in Seq(Frames)
    BY <1>1, PortsAlone, StackFacts DEF TreeInv, Shape
  <1>8. PortDone \in Frames /\ PortDone.hub = Frame.hub
    BY <1>2, PortDoneFrame
  <1>9. Len(stack') = 1 /\ stack'[1] = PortDone
    BY <1>1, <1>7, <1>8, TopStack
  <1>10. Frame.hub \notin Below(Port)
    BY <1>2, BelowLong
  <1>11. \A i \in 1 .. Len(stack') : stack'[i].hub \notin Below(Port)
    BY <1>8, <1>9, <1>10
  <1> QED
    BY <1>1, <1>2, <1>4, <1>5, <1>6, <1>11 DEF Spared

\* The loops that go on when the enumeration of an external hub returns.
LEMMA ReturnHubs ==
    ASSUME TreeInv, ReturnToConfigure
    PROVE  /\ Len(stack') = Len(stack) - 1
           /\ \A i \in 1 .. Len(stack') : stack'[i].hub = <<>>
  <1>1. /\ Len(stack) > 1 /\ Len(stack) \in Nat
        /\ \A i \in 1 .. Len(stack) - 1 : stack[i].hub = <<>>
    BY ConfiguredHub
  <1>2. PICK f \in Frames : Returns(f)
    BY LoopReturns
  <1>3. PICK k \in 1 .. Len(stack) - 1 : k = Len(stack) - 1
    <2>1. Len(stack) - 1 \in 1 .. Len(stack) - 1
      BY <1>1
    <2> QED
      BY <2>1
  <1>4. f.hub = <<>>
    BY <1>1, <1>2, <1>3 DEF Returns
  <1>5. /\ Len(stack') = Len(stack) - 1
        /\ \A i \in 1 .. Len(stack) - 1 :
               stack'[i] = IF i = Len(stack) - 1 THEN f ELSE stack[i]
    BY <1>1, <1>2, PopStack DEF Returns, TreeInv, Shape
  <1> QED
    BY <1>1, <1>4, <1>5

LEMMA ReturnSpares ==
    ASSUME TreeInv, ReturnToConfigure, HubFails
    PROVE  Delete(Frame.hub, TRUE) /\ Spared(Frame.hub)
  <1> DEFINE t == Frame.hub
  <1>1. Delete(t, TRUE) /\ UNCHANGED <<plugged, answers, request, failed>>
    BY DEF ReturnToConfigure, HubStarts, HubFails, BackToConfigure, physical
  <1>2. /\ t \in Places /\ m_pDevice[t] # NULL /\ m_pDevice[t].state = "configuring"
    BY ConfiguredHub
  <1>3. t # <<>> /\ ~Configured(t)
    BY <1>2, PlaceNotBoard DEF Configured
  <1>4. ASSUME NEW x \in Below(t) PROVE ~Works(x)
    <2>1. x = t \/ Parent(x) = t
      BY <1>2, BelowIs DEF Below
    <2> QED
      BY <1>3, <2>1 DEF Works
  <1>5. ASSUME NEW x \in Below(t) PROVE ~(IsHub(x) /\ Configured(x) /\ Reaches(x))
    BY <1>2, <1>3, BelowHub DEF TreeInv
  <1>6. \A i \in 1 .. Len(stack') : stack'[i].hub \notin Below(t)
    BY ReturnHubs, PlaceNotBoard DEF Below
  <1> QED
    BY <1>1, <1>2, <1>4, <1>5, <1>6 DEF Spared

\* What a step can do to the objects: nothing; a device gets its object, its
\* name, or is ready; or objects are deleted.
LEMMA ObjectActions ==
    ASSUME [Next]_vars
    PROVE  \/ UNCHANGED <<m_pDevice, m_bPortConfigured, pools, names>>
           \/ Initialize \/ ConfigureKeyboard \/ ConfigureHub
           \/ ConfigureFails \/ PortRemoved \/ ReturnToConfigure
  <1>1. CASE LoopOver \/ Rescan \/ EmptyPort \/ InitializeFails \/ DetectAborts \/ SkipPort
    BY <1>1 DEF LoopOver, Rescan, EmptyPort, InitializeFails, DetectAborts, SkipPort, objects
  <1>2. CASE ReturnToHandler \/ BootEnds \/ HandleEvent \/ StatusFails
    BY <1>2 DEF ReturnToHandler, BootEnds, HandleEvent, StatusFails, objects
  <1>3. CASE PortConnected \/ PortKept \/ PortsDone \/ UpdateEnd \/ UNCHANGED vars
    BY <1>3 DEF PortConnected, PortKept, PortsDone, UpdateEnd, vars, objects
  <1>4. ASSUME NEW d \in Devices, NEW k \in Sockets, Plug(d, k)
        PROVE  UNCHANGED <<m_pDevice, m_bPortConfigured, pools, names>>
    BY <1>4 DEF Plug, objects
  <1>5. ASSUME NEW k \in Sockets, Unplug(k)
        PROVE  UNCHANGED <<m_pDevice, m_bPortConfigured, pools, names>>
    BY <1>5 DEF Unplug, objects
  <1>6. ASSUME NEW s \in Tree, StatusChange(s) \/ RequestFails(s)
        PROVE  UNCHANGED <<m_pDevice, m_bPortConfigured, pools, names>>
    BY <1>6 DEF StatusChange, RequestFails, objects
  <1> QED
    BY <1>1, <1>2, <1>3, <1>4, <1>5, <1>6 DEF Next, Task

LEMMA ObjectSteps ==
    ASSUME TreeInv, [Next]_vars
    PROVE  \/ UNCHANGED <<m_pDevice, m_bPortConfigured, pools, names>>
           \/ Initialize \/ ConfigureKeyboard \/ ConfigureHub
           \/ ReturnToConfigure /\ HubStarts
           \/ \E t \in Places, mark \in BOOLEAN : Spared(t) /\ Delete(t, mark)
  <1>1. CASE ConfigureFails
    BY <1>1, FailureSpares DEF Spared
  <1>2. CASE PortRemoved
    BY <1>2, RemovalSpares DEF Spared
  <1>3. CASE ReturnToConfigure
    <2>1. CASE HubFails
      BY <1>3, <2>1, ReturnSpares DEF Spared
    <2> QED
      BY <1>3, <2>1 DEF ReturnToConfigure
  <1> QED
    BY <1>1, <1>2, <1>3, ObjectActions

\* What is left of the objects when those below t are deleted.
LEMMA DeleteFacts ==
    ASSUME NEW t \in Places, NEW mark \in BOOLEAN, Delete(t, mark)
    PROVE  /\ \A x \in Places :
                  m_pDevice'[x] = IF x \in Below(t) THEN NULL ELSE m_pDevice[x]
           /\ \A x \in Places : x \notin Below(t) => Parent(x) \notin Below(t)
           /\ \A x \in Places : x \notin Below(t) =>
                  (m_bPortConfigured[x] => m_bPortConfigured'[x])
           /\ names' = {n \in names : n.place \notin Gone(t)}
           /\ m_HubList' = Orphaned(t)
  <1>1. /\ m_pDevice' = [x \in Places |-> IF x \in Below(t) THEN NULL ELSE m_pDevice[x]]
        /\ m_bPortConfigured' = [x \in Places |->
               IF x = t THEN mark ELSE m_bPortConfigured[x] /\ x \notin Below(t)]
        /\ m_HubList' = Orphaned(t) /\ names' = names \ NamesOf(t)
    BY DEF Delete, DeleteObjects, FreeNumbers
  <1>2. t \in Below(t)
    BY BelowIs
  <1>3. ASSUME NEW x \in Places, x \notin Below(t) PROVE Parent(x) \notin Below(t)
    <2>1. SUFFICES ASSUME Parent(x) \in Below(t) PROVE FALSE
      OBVIOUS
    <2>2. Parent(x) \in Places /\ Parent(x) # <<>>
      BY <2>1, PlaceNotBoard DEF Below
    <2>3. Len(x) = 2 /\ Parent(x) \in HubPlaces
      BY <2>2, ParentOf, PlaceCases
    <2>4. Len(Parent(x)) = 1
      BY <2>2, <2>3, HubCases
    <2>5. Len(Parent(x)) # 2
      BY <2>4
    <2>6. Parent(x) = t
      BY <2>1, <2>2, <2>5, BelowIs
    <2> QED
      BY <1>3, <2>3, <2>6, BelowIs
  <1>4. \A x \in Places : x \notin Below(t) =>
            (m_bPortConfigured[x] => m_bPortConfigured'[x])
    BY <1>1, <1>2
  <1>5. names' = {n \in names : n.place \notin Gone(t)}
    BY <1>1 DEF NamesOf
  <1> QED
    BY <1>1, <1>2, <1>3, <1>4, <1>5

LEMMA NotNull ==
    /\ NULL \notin Objects /\ NULL \notin Nat /\ NULL \notin Numbers
  BY UsbAssumption, NumbersAre

\* A device gets its name, or is ready: its object keeps device and address.
LEMMA StateChanges ==
    ASSUME TreeInv, ConfigureKeyboard \/ ConfigureHub \/ (ReturnToConfigure /\ HubStarts)
    PROVE  \E p \in Places, st \in {"configuring", "configured"} :
               /\ m_pDevice[p] # NULL /\ ~Works(p) /\ ~Configured(p)
               /\ m_pDevice' = [m_pDevice EXCEPT ![p].state = st]
               /\ \A x \in Places : m_pDevice'[x] # NULL <=> m_pDevice[x] # NULL
               /\ \A x \in Places : x # p => m_pDevice'[x] = m_pDevice[x]
               /\ m_pDevice'[p] \in Objects /\ m_pDevice'[p].state = st
               /\ m_pDevice'[p].dev = m_pDevice[p].dev
               /\ m_pDevice'[p].addr = m_pDevice[p].addr
               /\ st = "configuring" => m_pDevice[p].dev \in Hubs
               /\ \A x \in Places : m_bPortConfigured[x] => m_bPortConfigured'[x]
               /\ m_bPortConfigured'[p]
               /\ pools'["addr"] = pools["addr"]
               /\ UNCHANGED <<plugged, answers, failed>>
               /\ \/ ToConfigure /\ p = Here /\ m_pDevice[p].state = "initialised"
                  \/ ReturnToConfigure /\ HubStarts /\ p = Frame.hub
  <1>1. m_pDevice \in [Places -> Objects \union {NULL}] /\ pools \in [NamePrefixes \union {"addr"} -> SUBSET Numbers]
        /\ m_bPortConfigured \in [Places -> BOOLEAN]
    BY DEF TreeInv, TypeOK
  <1>2. ASSUME NEW p \in Places, NEW st \in {"configuring", "configured"},
               m_pDevice[p] # NULL, m_pDevice' = [m_pDevice EXCEPT ![p].state = st]
        PROVE  /\ \A x \in Places : m_pDevice'[x] # NULL <=> m_pDevice[x] # NULL
               /\ \A x \in Places : x # p => m_pDevice'[x] = m_pDevice[x]
               /\ m_pDevice'[p] \in Objects /\ m_pDevice'[p].state = st
               /\ m_pDevice'[p].dev = m_pDevice[p].dev
               /\ m_pDevice'[p].addr = m_pDevice[p].addr
    <2>1. m_pDevice[p] \in Objects
      BY <1>1, <1>2
    <2>2. m_pDevice'[p] = [m_pDevice[p] EXCEPT !.state = st]
      BY <1>1, <1>2
    <2>3. /\ m_pDevice'[p] \in Objects /\ m_pDevice'[p].state = st
          /\ m_pDevice'[p].dev = m_pDevice[p].dev /\ m_pDevice'[p].addr = m_pDevice[p].addr
      BY <2>1, <2>2 DEF Objects
    <2>4. \A x \in Places : x # p => m_pDevice'[x] = m_pDevice[x]
      BY <1>1, <1>2
    <2> QED
      BY <1>2, <2>3, <2>4, NotNull
  <1>3. CASE ConfigureKeyboard \/ ConfigureHub
    <2>1. PICK st \in {"configuring", "configured"}, prefix \in NamePrefixes :
              /\ m_pDevice' = [m_pDevice EXCEPT ![Here].state = st]
              /\ st = "configuring" => IsHub(Here)
              /\ pools' = [pools EXCEPT ![prefix] = @ \union {AllocateNumber(prefix)}]
      BY <1>3 DEF ConfigureKeyboard, ConfigureHub, Register, NamePrefixes
    <2>2. /\ m_bPortConfigured' = [m_bPortConfigured EXCEPT ![Here] = TRUE]
          /\ ToConfigure /\ UNCHANGED <<plugged, answers, failed>>
      BY <1>3 DEF ConfigureKeyboard, ConfigureHub, physical
    <2>3. Here \in Places /\ m_pDevice[Here] # NULL /\ m_pDevice[Here].state = "initialised"
      BY <2>2, ToConfigureFacts
    <2>4. ~Configured(Here) /\ ~Works(Here) /\ Here # <<>>
      BY <2>3, PlaceNotBoard DEF Configured, Works
    <2>5. st = "configuring" => m_pDevice[Here].dev \in Hubs
      BY <2>1, <2>4 DEF IsHub
    <2>6. pools'["addr"] = pools["addr"]
      BY <1>1, <2>1 DEF NamePrefixes
    <2>7. /\ \A x \in Places : m_bPortConfigured[x] => m_bPortConfigured'[x]
          /\ m_bPortConfigured'[Here]
      BY <1>1, <2>2, <2>3
    <2> QED
      BY <1>2, <2>1, <2>2, <2>3, <2>4, <2>5, <2>6, <2>7
  <1>4. CASE ReturnToConfigure /\ HubStarts
    <2>1. /\ m_pDevice' = [m_pDevice EXCEPT ![Frame.hub].state = "configured"]
          /\ UNCHANGED <<m_bPortConfigured, pools>> /\ UNCHANGED <<plugged, answers, failed>>
      BY <1>4 DEF ReturnToConfigure, HubStarts, HubFails, BackToConfigure, physical
    <2>2. /\ Frame.hub \in Places /\ m_pDevice[Frame.hub] # NULL
          /\ m_pDevice[Frame.hub].state = "configuring"
      BY <1>4, ConfiguredHub
    <2>3. ~Configured(Frame.hub) /\ ~Works(Frame.hub)
      BY <2>2, PlaceNotBoard DEF Configured, Works
    <2>4. m_bPortConfigured[Frame.hub]
      BY <2>2 DEF TreeInv, ObjectsFit
    <2> QED
      BY <1>2, <1>4, <2>1, <2>2, <2>3, <2>4
  <1> QED
    BY <1>3, <1>4

LEMMA ObjectsFitNext == ASSUME TreeInv, [Next]_vars PROVE ObjectsFit'
  <1>0. ObjectsFit
    BY DEF TreeInv
  <1>1. SUFFICES ASSUME NEW x \in Places, m_pDevice'[x] # NULL
        PROVE  /\ m_pDevice'[x].dev \in Hubs => Len(x) = 1
               /\ m_pDevice'[x].state = "configuring" => m_pDevice'[x].dev \in Hubs
               /\ m_pDevice'[x].state # "initialised" => m_bPortConfigured'[x]
               /\ Parent(x) # <<>> => /\ m_pDevice'[Parent(x)] # NULL
                                      /\ m_pDevice'[Parent(x)].dev \in Hubs
                                      /\ m_pDevice'[Parent(x)].state # "initialised"
    BY DEF ObjectsFit, IsHub
  <1>2. m_pDevice[x] # NULL =>
            /\ m_pDevice[x].dev \in Hubs => Len(x) = 1
            /\ m_pDevice[x].state = "configuring" => m_pDevice[x].dev \in Hubs
            /\ m_pDevice[x].state # "initialised" => m_bPortConfigured[x]
            /\ Parent(x) # <<>> => /\ m_pDevice[Parent(x)] # NULL
                                   /\ m_pDevice[Parent(x)].dev \in Hubs
                                   /\ m_pDevice[Parent(x)].state # "initialised"
    BY <1>0 DEF ObjectsFit, IsHub
  <1>3. Parent(x) # <<>> => Parent(x) \in Places
    BY ParentOf, PlaceCases
  <1>4. CASE UNCHANGED <<m_pDevice, m_bPortConfigured, pools, names>>
    BY <1>1, <1>2, <1>4
  <1>5. CASE Initialize
    <2>1. NewDevice /\ UNCHANGED m_bPortConfigured
      BY <1>5 DEF Initialize
    <2>2. PICK n : /\ m_pDevice' = [m_pDevice EXCEPT ![Here] =
                          [dev |-> At(Here), addr |-> n, state |-> "initialised"]]
      BY <1>5, InitializeFacts
    <2>3. m_pDevice \in [Places -> Objects \union {NULL}]
      BY DEF TreeInv, TypeOK
    <2>4. /\ Here \in Places /\ m_pDevice[Here] = NULL /\ Parent(Here) = Frame.hub
          /\ IsHub(Frame.hub)
          /\ Frame.hub # <<>> => m_pDevice[Frame.hub].state # "initialised"
      BY <2>1, NewDeviceFacts
    <2>5. CASE x = Here
      <3>1. /\ m_pDevice'[x].dev = At(Here) /\ m_pDevice'[x].state = "initialised"
        BY <2>2, <2>3, <2>4, <2>5
      <3>2. At(Here) \in Hubs => Len(x) = 1
        BY <2>4, <2>5, HubAtBoard DEF TreeInv
      <3>3. Parent(x) # <<>> => /\ m_pDevice[Parent(x)] # NULL
                                /\ m_pDevice[Parent(x)].dev \in Hubs
                                /\ m_pDevice[Parent(x)].state # "initialised"
        BY <2>4, <2>5 DEF IsHub
      <3>4. Parent(x) # <<>> => m_pDevice'[Parent(x)] = m_pDevice[Parent(x)]
        BY <1>3, <2>2, <2>3, <2>4, <3>3
      <3> QED
        BY <3>1, <3>2, <3>3, <3>4
    <2>6. CASE x # Here
      <3>1. m_pDevice'[x] = m_pDevice[x]
        BY <2>2, <2>3, <2>6
      <3>2. Parent(x) # <<>> => m_pDevice'[Parent(x)] = m_pDevice[Parent(x)]
        BY <1>1, <1>2, <1>3, <2>2, <2>3, <2>4, <3>1
      <3> QED
        BY <1>1, <1>2, <2>1, <3>1, <3>2
    <2> QED
      BY <2>5, <2>6
  <1>6. CASE ConfigureKeyboard \/ ConfigureHub \/ (ReturnToConfigure /\ HubStarts)
    <2>1. PICK p \in Places, st \in {"configuring", "configured"} :
               /\ \A z \in Places : m_pDevice'[z] # NULL <=> m_pDevice[z] # NULL
               /\ \A z \in Places : z # p => m_pDevice'[z] = m_pDevice[z]
               /\ m_pDevice'[p].state = st
               /\ m_pDevice'[p].dev = m_pDevice[p].dev
               /\ st = "configuring" => m_pDevice[p].dev \in Hubs
               /\ \A z \in Places : m_bPortConfigured[z] => m_bPortConfigured'[z]
               /\ m_bPortConfigured'[p]
      BY <1>6, StateChanges
    <2>2. \A z \in Places : /\ m_pDevice'[z].dev = m_pDevice[z].dev
                            /\ m_pDevice'[z].state = IF z = p THEN st ELSE m_pDevice[z].state
      BY <2>1
    <2>3. st # "initialised"
      OBVIOUS
    <2> QED
      BY <1>1, <1>2, <1>3, <2>1, <2>2, <2>3
  <1>7. ASSUME NEW t \in Places, NEW mark \in BOOLEAN, Spared(t), Delete(t, mark)
        PROVE  /\ m_pDevice'[x].dev \in Hubs => Len(x) = 1
               /\ m_pDevice'[x].state = "configuring" => m_pDevice'[x].dev \in Hubs
               /\ m_pDevice'[x].state # "initialised" => m_bPortConfigured'[x]
               /\ Parent(x) # <<>> => /\ m_pDevice'[Parent(x)] # NULL
                                      /\ m_pDevice'[Parent(x)].dev \in Hubs
                                      /\ m_pDevice'[Parent(x)].state # "initialised"
    <2>1. /\ \A z \in Places : m_pDevice'[z] = IF z \in Below(t) THEN NULL ELSE m_pDevice[z]
          /\ \A z \in Places : z \notin Below(t) => Parent(z) \notin Below(t)
          /\ \A z \in Places : z \notin Below(t) =>
                  (m_bPortConfigured[z] => m_bPortConfigured'[z])
      BY <1>7, DeleteFacts
    <2>2. x \notin Below(t) /\ m_pDevice'[x] = m_pDevice[x]
      BY <1>1, <2>1
    <2>3. Parent(x) # <<>> => m_pDevice'[Parent(x)] = m_pDevice[Parent(x)]
      BY <1>3, <2>1, <2>2
    <2> QED
      BY <1>1, <1>2, <2>1, <2>2, <2>3
  <1> QED
    BY <1>4, <1>5, <1>6, <1>7, ObjectSteps

-----------------------------------------------------------------------------
(* Numbers and names stay exact                                            *)

LEMMA AddressesExactNext == ASSUME TreeInv, [Next]_vars PROVE AddressesExact'
  <1>0. /\ AddressesExact
        /\ m_pDevice \in [Places -> Objects \union {NULL}]
        /\ pools \in [NamePrefixes \union {"addr"} -> SUBSET Numbers]
    BY DEF TreeInv, TypeOK
  <1>1. CASE UNCHANGED <<m_pDevice, m_bPortConfigured, pools, names>>
    BY <1>0, <1>1 DEF AddressesExact, Present
  <1>2. CASE Initialize
    <2>1. PICK n \in Numbers \ pools["addr"] :
              /\ pools' = [pools EXCEPT !["addr"] = @ \union {n}]
              /\ m_pDevice' = [m_pDevice EXCEPT ![Here] =
                     [dev |-> At(Here), addr |-> n, state |-> "initialised"]]
              /\ [dev |-> At(Here), addr |-> n, state |-> "initialised"] \in Objects
      BY <1>2, InitializeFacts
    <2>2. Here \in Places /\ m_pDevice[Here] = NULL
      BY <1>2, NewDeviceFacts DEF Initialize
    <2>3. /\ m_pDevice'[Here] # NULL /\ m_pDevice'[Here].addr = n
          /\ \A x \in Places : x # Here => m_pDevice'[x] = m_pDevice[x]
      BY <1>0, <2>1, <2>2, NotNull
    <2>4. Present' = Present \union {Here} /\ Here \notin Present
      BY <2>2, <2>3 DEF Present
    <2>5. \A x \in Present : m_pDevice'[x] = m_pDevice[x]
      BY <2>3, <2>4 DEF Present
    <2>6. pools'["addr"] = pools["addr"] \union {n}
      BY <1>0, <2>1
    <2>7. n # 1 /\ \A x \in Present : m_pDevice[x].addr # n
      BY <1>0, <2>1 DEF AddressesExact
    <2>8. {m_pDevice'[x].addr : x \in Present'} = {m_pDevice[x].addr : x \in Present} \union {n}
      BY <2>3, <2>4, <2>5
    <2>9. pools'["addr"] = {1} \union {m_pDevice'[x].addr : x \in Present'}
      BY <1>0, <2>6, <2>8 DEF AddressesExact
    <2>10. \A x \in Present' : m_pDevice'[x].addr # 1
      BY <1>0, <2>3, <2>4, <2>5, <2>7 DEF AddressesExact
    <2>11. \A x, y \in Present' : m_pDevice'[x].addr = m_pDevice'[y].addr => x = y
      BY <1>0, <2>3, <2>4, <2>5, <2>7 DEF AddressesExact
    <2> QED
      BY <2>9, <2>10, <2>11 DEF AddressesExact
  <1>3. CASE ConfigureKeyboard \/ ConfigureHub \/ (ReturnToConfigure /\ HubStarts)
    <2>1. PICK p \in Places :
               /\ \A x \in Places : m_pDevice'[x] # NULL <=> m_pDevice[x] # NULL
               /\ \A x \in Places : x # p => m_pDevice'[x] = m_pDevice[x]
               /\ m_pDevice'[p].addr = m_pDevice[p].addr
               /\ pools'["addr"] = pools["addr"]
      BY <1>3, StateChanges
    <2>2. Present' = Present /\ \A x \in Present : m_pDevice'[x].addr = m_pDevice[x].addr
      BY <2>1 DEF Present
    <2> QED
      BY <1>0, <2>1, <2>2 DEF AddressesExact
  <1>4. ASSUME NEW t \in Places, NEW mark \in BOOLEAN, Delete(t, mark)
        PROVE  AddressesExact'
    <2>1. \A x \in Places : m_pDevice'[x] = IF x \in Below(t) THEN NULL ELSE m_pDevice[x]
      BY <1>4, DeleteFacts
    <2>2. Present' = Present \ Gone(t) /\ Gone(t) \subseteq Present
      BY <2>1 DEF Present, Gone, Below
    <2>3. \A x \in Present' : m_pDevice'[x] = m_pDevice[x]
      BY <2>1, <2>2 DEF Present
    <2>4. pools'["addr"] = pools["addr"] \ {m_pDevice[x].addr : x \in Gone(t)}
      BY <1>0, <1>4 DEF Delete, FreeNumbers
    <2>5. {m_pDevice'[x].addr : x \in Present'}
              = {m_pDevice[x].addr : x \in Present} \ {m_pDevice[x].addr : x \in Gone(t)}
      BY <1>0, <2>2, <2>3 DEF AddressesExact
    <2>6. 1 \notin {m_pDevice[x].addr : x \in Gone(t)}
      BY <1>0, <2>2 DEF AddressesExact
    <2>7. pools'["addr"] = {1} \union {m_pDevice'[x].addr : x \in Present'}
      BY <1>0, <2>4, <2>5, <2>6 DEF AddressesExact
    <2>8. \A x \in Present' : m_pDevice'[x].addr # 1
      BY <1>0, <2>2, <2>3 DEF AddressesExact
    <2>9. \A x, y \in Present' : m_pDevice'[x].addr = m_pDevice'[y].addr => x = y
      BY <1>0, <2>2, <2>3 DEF AddressesExact
    <2> QED
      BY <2>7, <2>8, <2>9 DEF AddressesExact
  <1> QED
    BY <1>1, <1>2, <1>3, <1>4, ObjectSteps

\* A name that was free goes to a device that had none.
LEMMA RegisterKeepsNames ==
    ASSUME TreeInv, ToConfigure, NEW prefix \in NamePrefixes, Register(Here, prefix),
           NEW t \in Places, t = Here, prefix = (IF IsHub(t)' THEN "uhub" ELSE "ukbd"),
           Named' = Named \union {t},
           \A x \in Tree : x # t => IsHub(x)' = IsHub(x)
    PROVE  NamesExact'
  <1>0. NamesExact /\ pools \in [NamePrefixes \union {"addr"} -> SUBSET Numbers]
    BY DEF TreeInv, TypeOK
  <1>1. t \in Places /\ t \notin Named /\ Named \subseteq Tree
    BY ToConfigureFacts DEF Named, Present, Tree
  <1>2. PICK n \in Numbers \ pools[prefix] : n = AllocateNumber(prefix)
    BY <1>1, FreeName
  <1>3. PICK r : r = [prefix |-> prefix, number |-> n, place |-> t]
    OBVIOUS
  <1>4. r.prefix = prefix /\ r.number = n /\ r.place = t
    BY <1>3
  <1>5. names' = names \union {r} /\ pools' = [pools EXCEPT ![prefix] = @ \union {n}]
    BY <1>2, <1>3 DEF Register
  <1>6. \A o \in names : o.place \in Named
    BY <1>0 DEF NamesExact
  <1>7. {o.place : o \in names'} = Named'
    BY <1>0, <1>4, <1>5 DEF NamesExact
  <1>8. ASSUME NEW o \in names'
        PROVE  o.prefix = (IF IsHub(o.place)' THEN "uhub" ELSE "ukbd")
    <2>1. CASE o = r
      BY <1>4, <2>1
    <2>2. CASE o \in names
      <3>1. o.place # t /\ o.place \in Tree
        BY <1>1, <1>6, <2>2
      <3> QED
        BY <1>0, <2>2, <3>1 DEF NamesExact
    <2> QED
      BY <1>5, <2>1, <2>2
  <1>9. \A o, q \in names' : o.place = q.place => o = q
    BY <1>0, <1>1, <1>4, <1>5, <1>6 DEF NamesExact
  <1>10. \A o \in names : ~(o.prefix = prefix /\ o.number = n)
    BY <1>0, <1>2 DEF NamesExact
  <1>11. \A o, q \in names' : o.prefix = q.prefix /\ o.number = q.number => o = q
    BY <1>0, <1>4, <1>5, <1>10 DEF NamesExact
  <1>12. ASSUME NEW p \in NamePrefixes
         PROVE  pools'[p] = {o.number : o \in {q \in names' : q.prefix = p}}
    <2>1. pools'[p] = IF p = prefix THEN pools[p] \union {n} ELSE pools[p]
      BY <1>0, <1>5
    <2>2. pools[p] = {o.number : o \in {q \in names : q.prefix = p}}
      BY <1>0 DEF NamesExact
    <2> QED
      BY <1>4, <1>5, <2>1, <2>2
  <1> QED
    BY <1>7, <1>8, <1>9, <1>11, <1>12 DEF NamesExact

LEMMA NamesExactNext == ASSUME TreeInv, [Next]_vars PROVE NamesExact'
  <1>0. /\ NamesExact
        /\ m_pDevice \in [Places -> Objects \union {NULL}]
        /\ pools \in [NamePrefixes \union {"addr"} -> SUBSET Numbers]
    BY DEF TreeInv, TypeOK
  <1>00. \A o \in names : o.place \in Named
    BY <1>0 DEF NamesExact
  <1>1. CASE UNCHANGED <<m_pDevice, m_bPortConfigured, pools, names>>
    <2>1. Named' = Named /\ \A x : IsHub(x)' = IsHub(x)
      BY <1>1 DEF Named, Present, IsHub
    <2> QED
      BY <1>0, <1>1, <2>1 DEF NamesExact
  <1>2. CASE Initialize
    <2>1. PICK n \in Numbers \ pools["addr"] :
              /\ pools' = [pools EXCEPT !["addr"] = @ \union {n}]
              /\ m_pDevice' = [m_pDevice EXCEPT ![Here] =
                     [dev |-> At(Here), addr |-> n, state |-> "initialised"]]
      BY <1>2, InitializeFacts
    <2>2. Here \in Places /\ m_pDevice[Here] = NULL /\ Here # <<>>
      BY <1>2, NewDeviceFacts, PlaceNotBoard DEF Initialize
    <2>3. /\ m_pDevice'[Here].state = "initialised"
          /\ \A x \in Places : x # Here => m_pDevice'[x] = m_pDevice[x]
      BY <1>0, <2>1, <2>2
    <2>4. Named' = Named /\ Here \notin Named
      BY <2>2, <2>3 DEF Named, Present
    <2>5. \A x \in Named : IsHub(x)' = IsHub(x)
      BY <2>3, <2>4 DEF IsHub, Named, Present
    <2>6. names' = names /\ \A p \in NamePrefixes : pools'[p] = pools[p]
      BY <1>0, <1>2, <2>1 DEF Initialize, NamePrefixes
    <2> QED
      BY <1>0, <1>00, <2>4, <2>5, <2>6 DEF NamesExact
  <1>3. CASE ConfigureKeyboard \/ ConfigureHub
    <2>1. PICK p \in Places, st \in {"configuring", "configured"} :
               /\ m_pDevice' = [m_pDevice EXCEPT ![p].state = st]
               /\ \A x \in Places : m_pDevice'[x] # NULL <=> m_pDevice[x] # NULL
               /\ \A x \in Places : x # p => m_pDevice'[x] = m_pDevice[x]
               /\ m_pDevice'[p].state = st
               /\ m_pDevice'[p].dev = m_pDevice[p].dev
               /\ m_pDevice[p] # NULL
      BY <1>3, StateChanges
    <2>2. \A x \in Tree : IsHub(x)' = IsHub(x)
      BY <2>1 DEF IsHub, Tree
    <2>3. ToConfigure
      BY <1>3 DEF ConfigureKeyboard, ConfigureHub
    <2>4. Here \in Places /\ m_pDevice[Here].state = "initialised" /\ Here # <<>>
          /\ m_pDevice[Here] \in Objects
      BY <2>3, ToConfigureFacts, PlaceNotBoard
    <2>5. m_pDevice'[Here].state # "initialised"
      <3>1. PICK s2 \in {"configuring", "configured"} :
                m_pDevice' = [m_pDevice EXCEPT ![Here].state = s2]
        BY <1>3 DEF ConfigureKeyboard, ConfigureHub
      <3>2. m_pDevice'[Here] = [m_pDevice[Here] EXCEPT !.state = s2]
        BY <1>0, <2>4, <3>1
      <3>3. m_pDevice'[Here].state = s2
        BY <2>4, <3>2 DEF Objects
      <3> QED
        BY <3>3
    <2>6. Here = p
      BY <2>1, <2>4, <2>5
    <2>7. Present' = Present /\ Here \in Present
      BY <2>1, <2>4, <2>6 DEF Present
    <2>8. Named' = Named \union {p}
      BY <2>1, <2>5, <2>6, <2>7 DEF Named
    <2>9. CASE ConfigureKeyboard
      <3>1. Register(Here, "ukbd") /\ ~IsHub(Here)
        BY <2>9 DEF ConfigureKeyboard
      <3>2. "ukbd" = (IF IsHub(p)' THEN "uhub" ELSE "ukbd")
        BY <2>2, <2>6, <3>1 DEF Tree
      <3> QED
        BY <2>2, <2>3, <2>6, <2>8, <3>1, <3>2, RegisterKeepsNames DEF NamePrefixes
    <2>10. CASE ConfigureHub
      <3>1. Register(Here, "uhub") /\ IsHub(Here)
        BY <2>10 DEF ConfigureHub
      <3>2. "uhub" = (IF IsHub(p)' THEN "uhub" ELSE "ukbd")
        BY <2>2, <2>6, <3>1 DEF Tree
      <3> QED
        BY <2>2, <2>3, <2>6, <2>8, <3>1, <3>2, RegisterKeepsNames DEF NamePrefixes
    <2> QED
      BY <1>3, <2>9, <2>10
  <1>4. CASE ReturnToConfigure /\ HubStarts
    <2>1. UNCHANGED <<pools, names>>
      BY <1>4 DEF ReturnToConfigure, HubStarts, HubFails, BackToConfigure
    <2>2. m_pDevice' = [m_pDevice EXCEPT ![Frame.hub].state = "configured"]
      BY <1>4 DEF ReturnToConfigure, HubStarts, HubFails, BackToConfigure
    <2>3. /\ Frame.hub \in Places /\ m_pDevice[Frame.hub] # NULL
          /\ m_pDevice[Frame.hub] \in Objects
          /\ m_pDevice[Frame.hub].state = "configuring" /\ Frame.hub # <<>>
      BY <1>4, ConfiguredHub, PlaceNotBoard
    <2>4. /\ m_pDevice'[Frame.hub] = [m_pDevice[Frame.hub] EXCEPT !.state = "configured"]
          /\ \A x \in Places : x # Frame.hub => m_pDevice'[x] = m_pDevice[x]
      BY <1>0, <2>2, <2>3
    <2>5. /\ m_pDevice'[Frame.hub].state = "configured"
          /\ m_pDevice'[Frame.hub].dev = m_pDevice[Frame.hub].dev
          /\ m_pDevice'[Frame.hub] \in Objects
      BY <2>3, <2>4 DEF Objects
    <2>6. \A x \in Places : m_pDevice'[x] # NULL <=> m_pDevice[x] # NULL
      BY <2>3, <2>4, <2>5, NotNull
    <2>7. Present' = Present
      BY <2>6 DEF Present
    <2>8. Named' = Named
      <3>1. \A x \in Present :
                m_pDevice'[x].state # "initialised" <=> m_pDevice[x].state # "initialised"
        BY <2>3, <2>4, <2>5 DEF Present
      <3> QED
        BY <2>7, <3>1 DEF Named
    <2>9. \A x \in Tree : IsHub(x)' = IsHub(x)
      BY <2>3, <2>4, <2>5, <2>6 DEF IsHub, Tree
    <2>10. \A o \in names : o.place \in Tree
      BY <1>00 DEF Named, Present, Tree
    <2> QED
      BY <1>0, <2>1, <2>8, <2>9, <2>10 DEF NamesExact
  <1>5. ASSUME NEW t \in Places, NEW mark \in BOOLEAN, Delete(t, mark)
        PROVE  NamesExact'
    <2>1. /\ \A x \in Places : m_pDevice'[x] = IF x \in Below(t) THEN NULL ELSE m_pDevice[x]
          /\ names' = {n \in names : n.place \notin Gone(t)}
      BY <1>5, DeleteFacts
    <2>2. /\ Present' = Present \ Gone(t) /\ Gone(t) \subseteq Places
          /\ <<>> \notin Gone(t)
      BY <2>1, PlaceNotBoard DEF Present, Gone, Below
    <2>3. \A x \in Present' : m_pDevice'[x] = m_pDevice[x]
      BY <2>1, <2>2 DEF Present
    <2>4. Named' = Named \ Gone(t)
      BY <2>2, <2>3 DEF Named
    <2>5. \A x \in Named' : IsHub(x)' = IsHub(x)
      BY <2>2, <2>3 DEF IsHub, Named, Present
    <2>6. {n.place : n \in names'} = Named'
      BY <1>0, <2>1, <2>4 DEF NamesExact
    <2>7. \A n \in names' : n.prefix = (IF IsHub(n.place)' THEN "uhub" ELSE "ukbd")
      BY <1>0, <2>1, <2>5, <2>6 DEF NamesExact
    <2>8. /\ \A n, o \in names' : n.place = o.place => n = o
          /\ \A n, o \in names' : n.prefix = o.prefix /\ n.number = o.number => n = o
      BY <1>0, <2>1 DEF NamesExact
    <2>9. ASSUME NEW p \in NamePrefixes
          PROVE  pools'[p] = {n.number : n \in {o \in names' : o.prefix = p}}
      <3>1. pools'[p] = pools[p] \ {n.number : n \in {m \in NamesOf(t) : m.prefix = p}}
        <4>1. p # "addr" /\ p \in DOMAIN pools
          BY <1>0 DEF NamePrefixes
        <4> QED
          BY <1>5, <4>1 DEF Delete, FreeNumbers
      <3>2. NamesOf(t) = {n \in names : n.place \in Gone(t)}
        BY DEF NamesOf
      <3>3. pools[p] = {n.number : n \in {o \in names : o.prefix = p}}
        BY <1>0 DEF NamesExact
      <3>4. \A n, o \in names : n.prefix = o.prefix /\ n.number = o.number => n = o
        BY <1>0 DEF NamesExact
      <3> QED
        BY <2>1, <3>1, <3>2, <3>3, <3>4
    <2> QED
      BY <2>6, <2>7, <2>8, <2>9 DEF NamesExact
  <1> QED
    BY <1>1, <1>2, <1>3, <1>4, <1>5, ObjectSteps

-----------------------------------------------------------------------------
(* Hubs and devices from one state to the next                             *)

LEMMA FailedStays == ASSUME [Next]_vars, failed' = "none" PROVE failed = "none"
  <1>1. CASE UNCHANGED vars
    BY <1>1 DEF vars
  <1>2. CASE Task
    BY <1>2 DEF Task, LoopOver, Rescan, EmptyPort, Initialize, InitializeFails, DetectAborts,
       NewDevice, SkipPort, ConfigureKeyboard, ConfigureHub, ConfigureFails, ToConfigure,
       ReturnToHandler, ReturnToConfigure, HubStarts, HubFails, BackToConfigure, BootEnds,
       HandleEvent, StatusFails,
       PortConnected, PortRemoved, PortKept, PortStatus, PortsDone, UpdateEnd, InLoop
  <1>3. ASSUME NEW d \in Devices, NEW k \in Sockets, Plug(d, k) PROVE failed = "none"
    BY <1>3 DEF Plug, Move
  <1>4. ASSUME NEW k \in Sockets, Unplug(k) PROVE failed = "none"
    BY <1>4 DEF Unplug, Move
  <1>5. ASSUME NEW s \in Tree, StatusChange(s) \/ RequestFails(s) PROVE failed = "none"
    BY <1>5 DEF StatusChange, RequestFails
  <1> QED
    BY <1>1, <1>2, <1>3, <1>4, <1>5 DEF Next

\* The object of a hub stays, with its device, its address and its state, unless
\* it is deleted or ready.
LEMMA HubKept ==
    ASSUME TreeInv, [Next]_vars, NEW s \in Tree, IsHub(s)
    PROVE  \/ /\ IsHub(s)' /\ (Configured(s) => Configured(s)')
              /\ s # <<>> => /\ m_pDevice[s] # NULL /\ m_pDevice'[s] # NULL
                             /\ m_pDevice'[s].dev = m_pDevice[s].dev
                             /\ m_pDevice'[s].addr = m_pDevice[s].addr
                             /\ m_pDevice[s].state = "configuring" =>
                                    \/ m_pDevice'[s].state = "configuring"
                                    \/ ReturnToConfigure /\ HubStarts /\ s = Frame.hub
           \/ \E t \in Places, mark \in BOOLEAN :
                  Spared(t) /\ Delete(t, mark) /\ s \in Gone(t)
  <1>1. CASE s = <<>>
    BY <1>1 DEF IsHub, Configured
  <1>2. CASE s \in Places
    <2>1. m_pDevice[s] # NULL /\ m_pDevice[s].dev \in Hubs /\ s # <<>>
      BY <1>2, HubObject, PlaceNotBoard DEF TreeInv
    <2>2. CASE m_pDevice'[s] = m_pDevice[s]
      BY <1>2, <2>1, <2>2 DEF IsHub, Configured
    <2>3. CASE UNCHANGED <<m_pDevice, m_bPortConfigured, pools, names>>
      BY <2>2, <2>3
    <2>4. CASE Initialize
      <3>1. PICK n : m_pDevice' = [m_pDevice EXCEPT ![Here] =
                          [dev |-> At(Here), addr |-> n, state |-> "initialised"]]
        BY <2>4, InitializeFacts
      <3>2. Here \in Places /\ m_pDevice[Here] = NULL
        BY <2>4, NewDeviceFacts DEF Initialize
      <3>3. m_pDevice \in [Places -> Objects \union {NULL}]
        BY DEF TreeInv, TypeOK
      <3>4. m_pDevice'[s] = m_pDevice[s]
        BY <1>2, <2>1, <3>1, <3>2, <3>3
      <3> QED
        BY <2>2, <3>4
    <2>5. CASE ConfigureKeyboard \/ ConfigureHub \/ (ReturnToConfigure /\ HubStarts)
      <3>1. PICK p \in Places, st \in {"configuring", "configured"} :
               /\ ~Configured(p)
               /\ \A x \in Places : m_pDevice'[x] # NULL <=> m_pDevice[x] # NULL
               /\ \A x \in Places : x # p => m_pDevice'[x] = m_pDevice[x]
               /\ m_pDevice'[p].dev = m_pDevice[p].dev
               /\ m_pDevice'[p].addr = m_pDevice[p].addr
               /\ \/ ToConfigure /\ p = Here /\ m_pDevice[p].state = "initialised"
                  \/ ReturnToConfigure /\ HubStarts /\ p = Frame.hub
        BY <2>5, StateChanges
      <3>2. CASE s # p
        <4>1. m_pDevice'[s] = m_pDevice[s]
          BY <1>2, <3>1, <3>2
        <4> QED
          BY <2>2, <4>1
      <3>3. CASE s = p
        <4>1. /\ m_pDevice'[s] # NULL /\ m_pDevice'[s].dev = m_pDevice[s].dev
              /\ m_pDevice'[s].addr = m_pDevice[s].addr /\ ~Configured(s)
              /\ m_pDevice[s].state = "configuring" =>
                     ReturnToConfigure /\ HubStarts /\ s = Frame.hub
          BY <1>2, <2>1, <3>1, <3>3
        <4>2. IsHub(s)'
          BY <2>1, <4>1 DEF IsHub
        <4> QED
          BY <2>1, <4>1, <4>2
      <3> QED
        BY <3>2, <3>3
    <2>6. ASSUME NEW t \in Places, NEW mark \in BOOLEAN, Spared(t), Delete(t, mark)
          PROVE  m_pDevice'[s] = m_pDevice[s] \/ s \in Gone(t)
      <3>1. \A x \in Places : m_pDevice'[x] = IF x \in Below(t) THEN NULL ELSE m_pDevice[x]
        BY <2>6, DeleteFacts
      <3> QED
        BY <1>2, <2>1, <3>1 DEF Gone
    <2> QED
      BY <2>2, <2>3, <2>4, <2>5, <2>6, ObjectSteps
  <1> QED
    BY <1>1, <1>2 DEF Tree

\* The hub that UpdatePlugAndPlay or the boot is at work on.
LEMMA FirstHub ==
    ASSUME TreeInv, [Next]_vars
    PROVE  \/ UNCHANGED stack \/ HandleEvent
           \/ stack' = <<>> /\ (PortsDone \/ BootEnds)
           \/ stack # <<>> /\ stack' # <<>> /\ stack'[1].hub = stack[1].hub
  <1>0. stack \in Seq(Frames)
    BY DEF TreeInv, Shape
  <1>1. CASE stack # <<>> /\ \E f \in Frames : Continues(f)
    <2>1. PICK f \in Frames : Continues(f)
      BY <1>1
    <2>2. /\ Len(stack) \in Nat \ {0} /\ stack' # <<>> /\ Frame = stack[Len(stack)]
          /\ stack'[1] = IF 1 = Len(stack) THEN f ELSE stack[1]
      BY <1>0, <1>1, <2>1, TopStack, StackFacts DEF Continues
    <2> QED
      BY <1>1, <2>1, <2>2 DEF Continues
  <1>2. CASE Descends
    <2>1. /\ stack # <<>> /\ stack' = Append(stack, Enumerate(Here))
          /\ Enumerate(Here) \in Frames
      BY <1>2, DescendsTo DEF Descends
    <2>2. stack' # <<>> /\ stack'[1] = stack[1]
      BY <1>0, <2>1, PushStack, StackFacts
    <2> QED
      BY <2>1, <2>2
  <1>3. CASE PortConnected /\ stack' = Front(stack) \o <<PortDone, Enumerate(Frame.hub)>>
    <2>1. stack # <<>>
      BY <1>3 DEF PortConnected, PortStatus, InLoop
    <2>2. PortDone.hub = Frame.hub
      BY <2>1, HubOfFrame, PortDoneFrame DEF TreeInv
    <2>3. Len(stack') = 2 /\ stack'[1] = PortDone /\ Frame = stack[1]
      BY <1>3, CallsAgain
    <2>4. stack' # <<>>
      BY <2>3
    <2> QED
      BY <2>1, <2>2, <2>3, <2>4
  <1>4. CASE Len(stack) > 1 /\ \E f \in Frames : Returns(f)
    <2>1. PICK f \in Frames : Returns(f)
      BY <1>4
    <2>2. Len(stack) \in Nat /\ stack # <<>>
      BY <1>0, <1>4, LenProperties, EmptySeq
    <2>3. /\ stack' # <<>>
          /\ \A i \in 1 .. Len(stack) - 1 :
                 stack'[i] = IF i = Len(stack) - 1 THEN f ELSE stack[i]
      BY <1>0, <1>4, <2>1, PopStack DEF Returns
    <2>4. 1 \in 1 .. Len(stack) - 1
      BY <1>4, <2>2
    <2> QED
      BY <2>1, <2>2, <2>3, <2>4 DEF Returns
  <1> QED
    BY <1>1, <1>2, <1>3, <1>4, StackSteps

\* What a loop expects of the hub it waits for, a step leaves alone.
LEMMA ExpectedKept ==
    ASSUME TreeInv, [Next]_vars, NEW s \in Tree, IsHub(s),
           \E j \in 1 .. Len(stack') : s = stack'[j].hub
    PROVE  /\ IsHub(s)' /\ (Configured(s) => Configured(s)')
           /\ \A f : Expected(f, s) /\ ~(ReturnToConfigure /\ HubStarts /\ s = Frame.hub)
                  => Expected(f, s)'
  <1>1. ~\E t \in Places, mark \in BOOLEAN : Spared(t) /\ Delete(t, mark) /\ s \in Gone(t)
    BY DEF Spared, Gone
  <1>2. /\ IsHub(s)' /\ (Configured(s) => Configured(s)')
        /\ s # <<>> => /\ m_pDevice[s] # NULL /\ m_pDevice'[s] # NULL
                       /\ m_pDevice[s].state = "configuring" =>
                              \/ m_pDevice'[s].state = "configuring"
                              \/ ReturnToConfigure /\ HubStarts /\ s = Frame.hub
    BY <1>1, HubKept
  <1> QED
    BY <1>2 DEF Expected

LEMMA FramesLiveNext == ASSUME TreeInv, [Next]_vars PROVE FramesLive'
  <1>0. Shape /\ stack \in Seq(Frames) /\ Shape'
    BY ShapeNext DEF TreeInv, Shape
  <1>1. PICK g : g = stack'
    OBVIOUS
  <1>2. SUFFICES ASSUME failed' = "none"
        PROVE  /\ \A i \in 1 .. Len(g) : IsHub(g[i].hub)'
               /\ g # <<>> => Configured(g[1].hub)'
               /\ \A i \in 1 .. Len(g) - 1 : Expected(g[i], g[i + 1].hub)'
    BY <1>1 DEF FramesLive, IsHub, Configured, Expected
  <1>3. /\ failed = "none"
        /\ \A i \in 1 .. Len(stack) : IsHub(stack[i].hub)
        /\ stack # <<>> => Configured(stack[1].hub)
        /\ \A i \in 1 .. Len(stack) - 1 : Expected(stack[i], stack[i + 1].hub)
    BY <1>2, FailedStays DEF TreeInv, FramesLive
  <1>4. /\ g \in Seq(Frames) /\ Len(g) \in Nat /\ (g # <<>> => Len(g) \in Nat \ {0})
        /\ \A i \in 1 .. Len(g) : g[i] \in Frames /\ g[i].hub \in Tree
    <2>1. g \in Seq(Frames)
      BY <1>0, <1>1 DEF Shape
    <2>2. \A i \in 1 .. Len(g) : g[i] \in Frames
      BY <2>1, ElementOfSeq
    <2> QED
      BY <2>1, <2>2, EmptySeq, LenProperties DEF Frames
  <1>5. ASSUME NEW i \in 1 .. Len(g), IsHub(g[i].hub)
        PROVE  /\ IsHub(g[i].hub)' /\ (Configured(g[i].hub) => Configured(g[i].hub)')
               /\ \A f : /\ Expected(f, g[i].hub)
                         /\ ~(ReturnToConfigure /\ HubStarts /\ g[i].hub = Frame.hub)
                         => Expected(f, g[i].hub)'
    <2>1. PICK s \in Tree : s = g[i].hub
      BY <1>4
    <2>2. \E j \in 1 .. Len(stack') : s = stack'[j].hub
      BY <1>1, <2>1
    <2>3. /\ IsHub(s)' /\ (Configured(s) => Configured(s)')
          /\ \A f : Expected(f, s) /\ ~(ReturnToConfigure /\ HubStarts /\ s = Frame.hub)
                  => Expected(f, s)'
      BY <1>5, <2>1, <2>2, ExpectedKept
    <2> QED
      BY <2>1, <2>3
  \* It is enough that the hubs of the new stack are hubs before, and expected.
  <1>6. ASSUME \A i \in 1 .. Len(g) : IsHub(g[i].hub),
               g # <<>> => Configured(g[1].hub),
               \A i \in 1 .. Len(g) - 1 :
                   /\ Expected(g[i], g[i + 1].hub)
                   /\ ~(ReturnToConfigure /\ HubStarts /\ g[i + 1].hub = Frame.hub)
        PROVE  /\ \A i \in 1 .. Len(g) : IsHub(g[i].hub)'
               /\ g # <<>> => Configured(g[1].hub)'
               /\ \A i \in 1 .. Len(g) - 1 : Expected(g[i], g[i + 1].hub)'
    <2>1. \A i \in 1 .. Len(g) - 1 : i + 1 \in 1 .. Len(g)
      BY <1>4
    <2>2. \A i \in 1 .. Len(g) : IsHub(g[i].hub)'
      BY <1>5, <1>6
    <2>3. g # <<>> => 1 \in 1 .. Len(g)
      BY <1>4
    <2>4. g # <<>> => Configured(g[1].hub)'
      BY <1>5, <1>6, <2>3
    <2>5. ASSUME NEW i \in 1 .. Len(g) - 1 PROVE Expected(g[i], g[i + 1].hub)'
      <3>1. PICK j \in 1 .. Len(g) : j = i + 1
        BY <2>1
      <3>2. /\ IsHub(g[j].hub) /\ Expected(g[i], g[j].hub)
            /\ ~(ReturnToConfigure /\ HubStarts /\ g[j].hub = Frame.hub)
        BY <1>6, <3>1
      <3>3. PICK f : f = g[i]
        OBVIOUS
      <3>4. Expected(f, g[j].hub)'
        BY <1>5, <3>2, <3>3
      <3> QED
        BY <3>1, <3>3, <3>4
    <2> QED
      BY <2>2, <2>4, <2>5
  <1>7. stack # <<>> => /\ Len(stack) \in Nat \ {0} /\ Frame = stack[Len(stack)]
                        /\ Frame.hub \in HubPlaces
    BY <1>0, StackFacts, HubOfFrame
  <1>8. CASE UNCHANGED stack /\ ~ReturnToConfigure
    BY <1>1, <1>3, <1>6, <1>8
  <1>9. CASE stack # <<>> /\ (\E f \in Frames : Continues(f)) /\ ~ReturnToConfigure
    <2>1. PICK f \in Frames : Continues(f)
      BY <1>9
    <2>2. /\ Len(g) = Len(stack)
          /\ \A i \in 1 .. Len(stack) : g[i] = IF i = Len(stack) THEN f ELSE stack[i]
      BY <1>0, <1>1, <1>9, <2>1, TopStack DEF Continues
    <2>3. \A i \in 1 .. Len(stack) : g[i].hub = stack[i].hub
      BY <1>7, <1>9, <2>1, <2>2 DEF Continues
    <2>4. \A i \in 1 .. Len(g) - 1 : g[i] = stack[i] /\ i \in 1 .. Len(stack)
                                         /\ i + 1 \in 1 .. Len(stack)
      BY <1>7, <1>9, <2>2
    <2>5. Configured(g[1].hub)
      BY <1>3, <1>7, <1>9, <2>3
    <2>6. \A i \in 1 .. Len(g) - 1 : Expected(g[i], g[i + 1].hub)
      BY <1>3, <2>2, <2>3, <2>4
    <2> QED
      BY <1>3, <1>6, <1>9, <2>2, <2>3, <2>5, <2>6
  <1>10. CASE Descends
    <2>1. /\ stack # <<>> /\ stack' = Append(stack, Enumerate(Here))
          /\ Enumerate(Here) \in Frames /\ Enumerate(Here).hub = Here /\ IsHub(Here)
          /\ Here \in Places /\ Here # <<>> /\ m_pDevice[Here] # NULL
          /\ m_pDevice[Here].dev \in Hubs
          /\ Frame.loop \in {"detect", "configure"}
          /\ Frame.at <= NPorts(Frame.hub)
      BY <1>10, DescendsTo DEF Descends
    <2>2. PICK h \in Places : h = Here
      BY <2>1
    <2>3. /\ Len(g) = Len(stack) + 1
          /\ \A i \in 1 .. Len(stack) + 1 :
                 g[i] = IF i = Len(stack) + 1 THEN Enumerate(Here) ELSE stack[i]
      BY <1>0, <1>1, <2>1, PushStack
    <2>4. g[Len(stack) + 1].hub = h /\ g[Len(stack)] = Frame /\ g[1] = stack[1]
      BY <1>7, <2>1, <2>2, <2>3
    <2>5. \A i \in 1 .. Len(g) : IsHub(g[i].hub)
      BY <1>3, <1>7, <2>1, <2>2, <2>3, <2>4
    <2>6. ~ReturnToConfigure
      BY <2>1 DEF ReturnToConfigure, HubStarts, HubFails, BackToConfigure, InLoop
    <2>7. \A i \in 1 .. Len(stack) - 1 : Expected(g[i], g[i + 1].hub)'
      <3>1. ASSUME NEW i \in 1 .. Len(stack) - 1
            PROVE  /\ g[i] = stack[i] /\ g[i + 1] = stack[i + 1]
                   /\ i + 1 \in 1 .. Len(g)
        BY <1>7, <2>1, <2>3
      <3> QED
        BY <1>3, <1>5, <2>5, <2>6, <3>1
    <2>8. \A f : f = Frame => Expected(f, h)'
      <3>1. CASE Rescan
        <4>1. /\ Frame.loop = "detect" /\ m_pDevice' = m_pDevice
              /\ m_pDevice[h].state = "configured"
          <5>1. Frame.loop = "detect" /\ m_pDevice' = m_pDevice
            BY <3>1 DEF Rescan, InLoop, objects
          <5>2. m_pDevice[Here].state = "configured"
            <6>1. SUFFICES ASSUME NextPort PROVE FALSE
              BY <3>1 DEF Rescan
            <6>2. Len(stack') = Len(stack)
              BY <1>0, <2>1, <6>1, TopStack, NextPortFrame, HubOfFrame DEF NextPort
            <6> QED
              BY <1>1, <1>7, <2>1, <2>3, <6>2
          <5> QED
            BY <2>2, <5>1, <5>2
        <4> QED
          BY <2>1, <2>2, <4>1 DEF Expected, Configured
      <3>2. CASE ConfigureHub
        <4>1. /\ Frame.loop = "configure"
              /\ m_pDevice' = [m_pDevice EXCEPT ![h].state = "configuring"]
          BY <2>2, <3>2 DEF ConfigureHub, ToConfigure, InLoop
        <4>2. m_pDevice \in [Places -> Objects \union {NULL}] /\ m_pDevice[h] \in Objects
          BY <2>1, <2>2, ObjectFacts DEF TreeInv, TypeOK
        <4>3. m_pDevice'[h] = [m_pDevice[h] EXCEPT !.state = "configuring"]
          BY <4>1, <4>2
        <4>4. m_pDevice'[h] \in Objects /\ m_pDevice'[h].state = "configuring"
          BY <4>2, <4>3 DEF Objects
        <4> QED
          BY <2>1, <2>2, <4>1, <4>4, NotNull DEF Expected
      <3> QED
        BY <1>10, <3>1, <3>2 DEF Descends
    <2>9. \A i \in 1 .. Len(g) - 1 : Expected(g[i], g[i + 1].hub)'
      <3>1. \A i \in 1 .. Len(g) - 1 : i \in 1 .. Len(stack) - 1 \/ i = Len(stack)
        BY <1>7, <2>1, <2>3
      <3> QED
        BY <2>4, <2>7, <2>8, <3>1
    <2>10. Configured(g[1].hub)'
      BY <1>3, <1>4, <1>5, <1>7, <2>1, <2>3, <2>4, <2>5
    <2>11. \A i \in 1 .. Len(g) : IsHub(g[i].hub)'
      BY <1>5, <2>5
    <2> QED
      BY <2>9, <2>10, <2>11
  <1>11. CASE PortConnected /\ stack' = Front(stack) \o <<PortDone, Enumerate(Frame.hub)>>
    <2>1. /\ Len(stack) = 1 /\ Len(g) = 2 /\ Frame = stack[1]
          /\ g[1] = PortDone /\ g[2] = Enumerate(Frame.hub)
      BY <1>1, <1>11, CallsAgain
    <2>2. stack # <<>> /\ Frame.loop = "ports"
      BY <1>11 DEF PortConnected, PortStatus, InLoop
    <2>3. /\ PortDone.hub = Frame.hub /\ PortDone.loop = "ports"
          /\ Enumerate(Frame.hub).hub = Frame.hub
      BY <1>0, <2>2, HubOfFrame, PortDoneFrame, EnumerateFrame
    <2>4. IsHub(Frame.hub) /\ Configured(Frame.hub)
      BY <1>3, <2>1, <2>2
    <2>5. g[1].hub = Frame.hub /\ g[2].hub = Frame.hub /\ g[1].loop = "ports"
      BY <2>1, <2>3
    <2>6. ~ReturnToConfigure
      BY <2>2 DEF ReturnToConfigure, HubStarts, HubFails, BackToConfigure, InLoop
    <2>7. Expected(g[1], g[2].hub)
      BY <2>4, <2>5 DEF Expected
    <2>8. (\A i \in 1 .. Len(g) : i = 1 \/ i = 2) /\ (\A i \in 1 .. Len(g) - 1 : i = 1)
      BY <2>1
    <2> QED
      BY <1>6, <2>4, <2>5, <2>6, <2>7, <2>8
  <1>12. CASE Len(stack) > 1 /\ \E f \in Frames : Returns(f)
    <2>1. PICK f \in Frames : Returns(f)
      BY <1>12
    <2>2. Len(stack) \in Nat /\ stack # <<>>
      BY <1>0, <1>12, LenProperties, EmptySeq
    <2>3. /\ Len(g) = Len(stack) - 1
          /\ \A i \in 1 .. Len(stack) - 1 :
                 g[i] = IF i = Len(stack) - 1 THEN f ELSE stack[i]
      BY <1>0, <1>1, <1>12, <2>1, PopStack DEF Returns
    <2>4. \A i \in 1 .. Len(g) : g[i].hub = stack[i].hub /\ i \in 1 .. Len(stack)
      BY <1>12, <2>1, <2>2, <2>3 DEF Returns
    <2>5. \A i \in 1 .. Len(g) - 1 : g[i] = stack[i] /\ i \in 1 .. Len(stack) - 1
                                         /\ i + 1 \in 1 .. Len(g)
      BY <2>2, <2>3
    <2>6. \A i \in 1 .. Len(g) - 1 : Expected(g[i], g[i + 1].hub)
      BY <1>3, <2>4, <2>5
    <2>7. ASSUME ReturnToConfigure PROVE \A i \in 1 .. Len(g) : g[i].hub # Frame.hub
      BY <2>3, <2>4, <2>7, ConfiguredHub, PlaceNotBoard
    <2>8. 1 \in 1 .. Len(g)
      BY <1>12, <2>2, <2>3
    <2>9. Configured(g[1].hub)
      BY <1>3, <2>2, <2>4, <2>8
    <2> QED
      BY <1>3, <1>6, <2>4, <2>5, <2>6, <2>7, <2>9
  <1>13. CASE g = <<>>
    <2>1. Len(g) = 0
      BY <1>13
    <2>2. (1 .. Len(g)) = {} /\ (1 .. Len(g) - 1) = {}
      BY <2>1
    <2> QED
      BY <1>13, <2>2
  <1>14. CASE HandleEvent
    <2>1. /\ Len(g) = 1 /\ g[1].hub = m_HubList[1].hub /\ Len(m_HubList) \in Nat \ {0}
          /\ ~m_HubList[1].deleted
      BY <1>1, <1>2, <1>14, TakesEvent
    <2>2. IsHub(g[1].hub) /\ Configured(g[1].hub)
      BY <2>1 DEF TreeInv, EventsFit
    <2>3. (\A i \in 1 .. Len(g) : i = 1) /\ (1 .. Len(g) - 1) = {}
      BY <2>1
    <2> QED
      BY <1>6, <2>2, <2>3
  <1>15. ReturnToConfigure => Len(stack) > 1 /\ \E f \in Frames : Returns(f)
    BY LoopReturns
  <1> QED
    BY <1>1, <1>8, <1>9, <1>10, <1>11, <1>12, <1>13, <1>14, <1>15, StackSteps

-----------------------------------------------------------------------------
(* The list of events                                                      *)

LEMMA ListSteps ==
    ASSUME TreeInv, [Next]_vars
    PROVE  \/ UNCHANGED m_HubList
           \/ \E s \in Tree : StatusChange(s)
           \/ HandleEvent
           \/ \E t \in Places, mark \in BOOLEAN : Spared(t) /\ Delete(t, mark)
  <1>1. CASE LoopOver \/ Rescan \/ EmptyPort \/ InitializeFails \/ DetectAborts \/ SkipPort
    BY <1>1 DEF LoopOver, Rescan, EmptyPort, InitializeFails, DetectAborts, SkipPort, Addressed
  <1>2. CASE ReturnToHandler \/ BootEnds \/ StatusFails
    BY <1>2 DEF ReturnToHandler, BootEnds, StatusFails
  <1>3. CASE PortConnected \/ PortKept \/ PortsDone \/ UpdateEnd \/ UNCHANGED vars
    BY <1>3 DEF PortConnected, PortKept, PortsDone, UpdateEnd, vars
  <1>4. CASE ConfigureFails
    BY <1>4, FailureSpares DEF Spared
  <1>5. CASE PortRemoved
    BY <1>5, RemovalSpares DEF Spared
  <1>6. CASE ReturnToConfigure
    <2>1. CASE HubFails
      BY <1>6, <2>1, ReturnSpares DEF Spared
    <2>2. CASE HubStarts
      BY <2>2 DEF HubStarts
    <2> QED
      BY <1>6, <2>1, <2>2 DEF ReturnToConfigure
  <1>7. CASE Initialize \/ ConfigureKeyboard \/ ConfigureHub
    BY <1>7 DEF Initialize, Addressed, ConfigureKeyboard, ConfigureHub
  <1>8. ASSUME NEW d \in Devices, NEW k \in Sockets, Plug(d, k) PROVE UNCHANGED m_HubList
    BY <1>8 DEF Plug
  <1>9. ASSUME NEW k \in Sockets, Unplug(k) PROVE UNCHANGED m_HubList
    BY <1>9 DEF Unplug
  <1>10. ASSUME NEW s \in Tree, RequestFails(s) PROVE UNCHANGED m_HubList
    BY <1>10 DEF RequestFails
  <1> QED
    BY <1>1, <1>2, <1>3, <1>4, <1>5, <1>6, <1>7, <1>8, <1>9, <1>10 DEF Next, Task

\* What becomes of an event when objects are deleted.
LEMMA OrphanedFacts ==
    ASSUME TreeInv, NEW t \in Places
    PROVE  /\ Len(Orphaned(t)) = Len(m_HubList)
           /\ Orphaned(t) \in Seq([hub : Tree, bits : SUBSET Nat, deleted : BOOLEAN])
           /\ \A i \in 1 .. Len(m_HubList) :
                  /\ Orphaned(t)[i].hub = m_HubList[i].hub
                  /\ Orphaned(t)[i].bits = m_HubList[i].bits
                  /\ Orphaned(t)[i].deleted <=>
                         m_HubList[i].deleted \/ m_HubList[i].hub \in Gone(t)
  <1> DEFINE E == [hub : Tree, bits : SUBSET Nat, deleted : BOOLEAN]
             e(i) == [m_HubList[i] EXCEPT !.deleted = @ \/ m_HubList[i].hub \in Gone(t)]
  <1>1. Len(m_HubList) \in Nat
    BY LenProperties DEF TreeInv, TypeOK
  <1>2. Orphaned(t) = [i \in 1 .. Len(m_HubList) |-> e(i)]
    BY DEF Orphaned
  <1>3. ASSUME NEW i \in 1 .. Len(m_HubList)
        PROVE  /\ e(i) \in E /\ e(i).hub = m_HubList[i].hub /\ e(i).bits = m_HubList[i].bits
               /\ e(i).deleted <=> m_HubList[i].deleted \/ m_HubList[i].hub \in Gone(t)
    <2>1. m_HubList[i] \in E /\ m_HubList[i].deleted \in BOOLEAN
      BY EventFacts DEF TreeInv
    <2> QED
      BY <2>1
  <1> HIDE DEF e, E
  <1>4. Orphaned(t) \in Seq(E) /\ Len(Orphaned(t)) = Len(m_HubList)
    BY <1>1, <1>2, <1>3
  <1>5. \A i \in 1 .. Len(m_HubList) : Orphaned(t)[i] = e(i)
    BY <1>2
  <1> QED
    BY <1>3, <1>4, <1>5 DEF E

LEMMA EventsFitNext == ASSUME TreeInv, [Next]_vars PROVE EventsFit'
  <1>0. /\ EventsFit /\ m_HubList \in Seq([hub : Tree, bits : SUBSET Nat, deleted : BOOLEAN])
        /\ Len(m_HubList) \in Nat
    BY LenProperties DEF TreeInv, TypeOK
  <1>1. PICK g : g = m_HubList'
    OBVIOUS
  <1>2. SUFFICES ASSUME NEW i \in 1 .. Len(g)
                 PROVE  /\ Len(g[i].hub) <= 1 /\ g[i].bits \subseteq 1 .. NPorts(g[i].hub)
                        /\ ~g[i].deleted => IsHub(g[i].hub)' /\ Configured(g[i].hub)'
    BY <1>1 DEF EventsFit, IsHub, Configured
  <1>3. ASSUME NEW j \in 1 .. Len(m_HubList), ~m_HubList[j].deleted,
               ~\E t \in Places, mark \in BOOLEAN :
                    Spared(t) /\ Delete(t, mark) /\ m_HubList[j].hub \in Gone(t)
        PROVE  /\ \A s : s = m_HubList[j].hub => IsHub(s)' /\ Configured(s)'
    <2>1. PICK s \in Tree : s = m_HubList[j].hub
      BY EventFacts DEF TreeInv
    <2>2. IsHub(s) /\ Configured(s)
      BY <1>0, <1>3, <2>1 DEF EventsFit
    <2>3. IsHub(s)' /\ Configured(s)'
      BY <1>3, <2>1, <2>2, HubKept
    <2> QED
      BY <2>1, <2>3
  <1>4. ASSUME NEW j \in 1 .. Len(m_HubList), g[i] = m_HubList[j],
               ~\E t \in Places, mark \in BOOLEAN : Spared(t) /\ Delete(t, mark)
        PROVE  /\ Len(g[i].hub) <= 1 /\ g[i].bits \subseteq 1 .. NPorts(g[i].hub)
               /\ ~g[i].deleted => IsHub(g[i].hub)' /\ Configured(g[i].hub)'
    BY <1>0, <1>3, <1>4 DEF EventsFit
  <1>5. ASSUME NEW t \in Places, NEW mark \in BOOLEAN, Spared(t), Delete(t, mark)
        PROVE  /\ Len(g[i].hub) <= 1 /\ g[i].bits \subseteq 1 .. NPorts(g[i].hub)
               /\ ~g[i].deleted => IsHub(g[i].hub)' /\ Configured(g[i].hub)'
    <2>1. g = Orphaned(t)
      BY <1>1, <1>5, DeleteFacts
    <2>2. /\ i \in 1 .. Len(m_HubList)
          /\ g[i].hub = m_HubList[i].hub /\ g[i].bits = m_HubList[i].bits
          /\ g[i].deleted <=> m_HubList[i].deleted \/ m_HubList[i].hub \in Gone(t)
      BY <2>1, OrphanedFacts
    <2>3. Len(g[i].hub) <= 1 /\ g[i].bits \subseteq 1 .. NPorts(g[i].hub)
      BY <1>0, <2>2 DEF EventsFit
    <2>4. ASSUME ~g[i].deleted PROVE IsHub(g[i].hub)' /\ Configured(g[i].hub)'
      <3>1. PICK s \in Tree : s = g[i].hub /\ s = m_HubList[i].hub
        BY <2>2, EventFacts DEF TreeInv
      <3>2. IsHub(s) /\ Configured(s) /\ s \notin Gone(t)
        BY <1>0, <2>2, <2>4, <3>1 DEF EventsFit
      <3>3. \A x \in Places : m_pDevice'[x] = IF x \in Below(t) THEN NULL ELSE m_pDevice[x]
        BY <1>5, DeleteFacts
      <3>4. s # <<>> => m_pDevice'[s] = m_pDevice[s]
        BY <3>2, <3>3 DEF Gone, IsHub, Tree
      <3>5. IsHub(s)' /\ Configured(s)'
        BY <3>2, <3>4 DEF IsHub, Configured
      <3> QED
        BY <3>1, <3>5
    <2> QED
      BY <2>3, <2>4
  <1>6. CASE UNCHANGED m_HubList /\ ~\E t \in Places, mark \in BOOLEAN : Spared(t) /\ Delete(t, mark)
    BY <1>1, <1>4, <1>6
  <1>7. CASE HandleEvent
    <2>1. g = Tail(m_HubList) /\ UNCHANGED m_pDevice /\ m_HubList # <<>>
      BY <1>1, <1>7 DEF HandleEvent, objects
    <2>2. g[i] = m_HubList[i + 1] /\ i + 1 \in 1 .. Len(m_HubList)
      BY <1>0, <2>1
    <2>3. PICK j \in 1 .. Len(m_HubList) : g[i] = m_HubList[j]
      BY <2>2
    <2>4. ~g[i].deleted => IsHub(g[i].hub)' /\ Configured(g[i].hub)'
      BY <1>0, <2>1, <2>3 DEF EventsFit, IsHub, Configured
    <2> QED
      BY <1>0, <2>3, <2>4 DEF EventsFit
  <1>8. ASSUME NEW s \in Tree, StatusChange(s)
        PROVE  /\ Len(g[i].hub) <= 1 /\ g[i].bits \subseteq 1 .. NPorts(g[i].hub)
               /\ ~g[i].deleted => IsHub(g[i].hub)' /\ Configured(g[i].hub)'
    <2>1. /\ failed = "none" /\ s \in request /\ UNCHANGED m_pDevice
          /\ g = Append(m_HubList, [hub |-> s, bits |-> Bits(s), deleted |-> FALSE])
      BY <1>1, <1>8 DEF StatusChange, objects
    <2>2. IsHub(s) /\ Configured(s)
      BY <2>1 DEF TreeInv, Requests
    <2>3. s \in HubPlaces
      BY <2>2, HubObject DEF TreeInv, Tree, HubPlaces
    <2>4. Bits(s) \subseteq 1 .. NPorts(s)
      BY <2>3, PortsAre DEF Bits
    <2>5. CASE i \in 1 .. Len(m_HubList)
      <3>1. g[i] = m_HubList[i]
        BY <1>0, <2>1, <2>5
      <3>2. ~g[i].deleted => IsHub(g[i].hub)' /\ Configured(g[i].hub)'
        BY <1>0, <2>1, <2>5, <3>1 DEF EventsFit, IsHub, Configured
      <3> QED
        BY <1>0, <2>5, <3>1, <3>2 DEF EventsFit
    <2>6. CASE i = Len(m_HubList) + 1
      <3>1. g[i] = [hub |-> s, bits |-> Bits(s), deleted |-> FALSE]
        BY <1>0, <2>1, <2>6
      <3>2. g[i].hub = s /\ g[i].bits = Bits(s)
        BY <3>1
      <3>3. Len(s) <= 1
        BY <2>3 DEF HubPlaces
      <3>4. IsHub(s)' /\ Configured(s)'
        BY <2>1, <2>2 DEF IsHub, Configured
      <3> QED
        BY <2>4, <3>2, <3>3, <3>4
    <2>7. i \in 1 .. Len(m_HubList) \/ i = Len(m_HubList) + 1
      BY <1>0, <2>1
    <2> QED
      BY <2>5, <2>6, <2>7
  <1> QED
    BY <1>5, <1>6, <1>7, <1>8, ListSteps

-----------------------------------------------------------------------------
(* Devices: where they are and at which address they answer                *)

\* A step changes where a device is or how it answers only when the user moves
\* it or when a new device is taken in.
LEMMA PhysicalSteps ==
    ASSUME [Next]_vars
    PROVE  \/ UNCHANGED <<plugged, answers>>
           \/ Initialize \/ InitializeFails \/ DetectAborts
           \/ \E d \in Devices, k \in Sockets : Plug(d, k)
           \/ \E k \in Sockets : Unplug(k)
  <1>1. CASE LoopOver \/ Rescan \/ EmptyPort \/ SkipPort \/ ConfigureKeyboard \/ ConfigureHub
    BY <1>1 DEF LoopOver, Rescan, EmptyPort, SkipPort, ConfigureKeyboard, ConfigureHub, physical
  <1>2. CASE ConfigureFails \/ ReturnToHandler \/ ReturnToConfigure \/ BootEnds \/ HandleEvent
    BY <1>2 DEF ConfigureFails, ReturnToHandler, ReturnToConfigure, HubStarts, HubFails,
       BackToConfigure, BootEnds, HandleEvent,
       physical
  <1>3. CASE StatusFails \/ PortConnected \/ PortRemoved \/ PortKept \/ PortsDone \/ UpdateEnd
    BY <1>3 DEF StatusFails, PortConnected, PortRemoved, PortKept, PortStatus, PortsDone,
       UpdateEnd, physical
  <1>4. CASE UNCHANGED vars
    BY <1>4 DEF vars, physical
  <1>5. ASSUME NEW s \in Tree, StatusChange(s) \/ RequestFails(s)
        PROVE  UNCHANGED <<plugged, answers>>
    BY <1>5 DEF StatusChange, RequestFails, physical
  <1> QED
    BY <1>1, <1>2, <1>3, <1>4, <1>5 DEF Next, Task

LEMMA WiredNext == ASSUME Wired, [Next]_vars PROVE Wired'
  <1>1. CASE UNCHANGED plugged
    BY <1>1 DEF Wired
  <1>2. CASE Initialize \/ InitializeFails \/ DetectAborts
    BY <1>1, <1>2 DEF Initialize, InitializeFails, DetectAborts, Addressed
  <1>3. ASSUME NEW d \in Devices, NEW k \in Sockets, Plug(d, k) PROVE Wired'
    BY <1>3 DEF Plug, Wired
  <1>4. ASSUME NEW k \in Sockets, Unplug(k) PROVE Wired'
    BY <1>4, Distinct DEF Unplug, Wired
  <1> QED
    BY <1>1, <1>2, <1>3, <1>4, PhysicalSteps

\* What At means, in a state and in the next one.
AtDefined ==
    /\ \A i \in 1 .. BoardPorts : At(<<i>>) = plugged[<<Board, i>>]
    /\ \A i \in 1 .. BoardPorts, j \in 1 .. HubPorts :
           At(<<i, j>>) = IF At(<<i>>) \in Hubs THEN plugged[<<At(<<i>>), j>>] ELSE NULL

LEMMA AtMeans == Wired => AtDefined
  BY AtOne, AtTwo DEF AtDefined

LEMMA AtMeansNext == Wired' => AtDefined'
  BY AtMeans, PTL

\* A device stays where it is when neither its own socket changes nor that of
\* the hub it is plugged into.
LEMMA AtStays ==
    ASSUME Wired, Wired', NEW x \in Places, At(x) # NULL,
           \A k \in Sockets : plugged'[k] # plugged[k] =>
               plugged[k] # At(x) /\ (Len(x) = 2 => plugged[k] # At(Parent(x)))
    PROVE  At(x)' = At(x)
  <1>1. CASE Len(x) = 1
    <2>1. PICK i \in 1 .. BoardPorts : x = <<i>>
      BY <1>1, PlaceCases
    <2>2. At(<<i>>)' = plugged'[<<Board, i>>]
      BY AtMeansNext DEF AtDefined
    <2>3. At(<<i>>) = plugged[<<Board, i>>] /\ <<Board, i>> \in Sockets
      BY AtOne
    <2> QED
      BY <2>1, <2>2, <2>3
  <1>2. CASE Len(x) = 2
    <2>1. PICK i \in 1 .. BoardPorts, j \in 1 .. HubPorts : x = <<i, j>> /\ Parent(x) = <<i>>
      BY <1>2, PlaceCases, ParentOf
    <2>2. /\ At(<<i>>) \in Hubs /\ At(x) = plugged[<<At(<<i>>), j>>]
          /\ <<At(<<i>>), j>> \in Sockets
      BY <2>1, AtTwo
    <2>3. At(<<i>>) = plugged[<<Board, i>>] /\ <<Board, i>> \in Sockets
      BY AtOne
    <2>4. /\ At(<<i>>)' = plugged'[<<Board, i>>]
          /\ At(<<i, j>>)' = IF At(<<i>>)' \in Hubs THEN plugged'[<<At(<<i>>)', j>>] ELSE NULL
      BY AtMeansNext DEF AtDefined
    <2>5. At(<<i>>)' = At(<<i>>)
      BY <1>2, <2>1, <2>3, <2>4
    <2>6. plugged'[<<At(<<i>>), j>>] = plugged[<<At(<<i>>), j>>]
      BY <2>1, <2>2
    <2>7. At(<<i, j>>)' = plugged'[<<At(<<i>>), j>>]
      BY <2>2, <2>4, <2>5
    <2> QED
      BY <2>1, <2>2, <2>6, <2>7
  <1> QED
    BY <1>1, <1>2, PlaceCases

\* A device that answers to its object, and what it hangs behind.
LEMMA ReachedFacts ==
    ASSUME TreeInv, NEW x \in Places, Reaches(x)
    PROVE  /\ m_pDevice[x] # NULL /\ At(x) = m_pDevice[x].dev /\ At(x) \in Devices
           /\ m_pDevice[x].addr \in Numbers /\ answers[At(x)] = m_pDevice[x].addr
           /\ Reaches(Parent(x)) /\ At(x) # NULL
           /\ Len(x) = 2 => /\ At(Parent(x)) \in Hubs /\ At(x) \in Behind(At(Parent(x)))
                            /\ Parent(x) \in Places
                            /\ m_pDevice[Parent(x)] # NULL
                            /\ At(Parent(x)) = m_pDevice[Parent(x)].dev
                            /\ answers[At(Parent(x))] = m_pDevice[Parent(x)].addr
  <1>1. /\ m_pDevice[x] # NULL /\ answers[m_pDevice[x].dev] = m_pDevice[x].addr
        /\ At(x) = m_pDevice[x].dev /\ Reaches(Parent(x))
    BY PlaceNotBoard DEF Reaches, TreeInv, InPlace
  <1>2. At(x) \in Devices /\ m_pDevice[x].addr \in Numbers /\ At(x) # NULL
    BY <1>1, ObjectFacts, Distinct DEF TreeInv
  <1>3. ASSUME Len(x) = 2
        PROVE  /\ At(Parent(x)) \in Hubs /\ At(x) \in Behind(At(Parent(x)))
               /\ Parent(x) \in Places
               /\ m_pDevice[Parent(x)] # NULL /\ At(Parent(x)) = m_pDevice[Parent(x)].dev
               /\ answers[At(Parent(x))] = m_pDevice[Parent(x)].addr
    <2>1. At(Parent(x)) \in Hubs /\ At(x) \in Behind(At(Parent(x)))
      BY <1>2, <1>3, AtChild DEF TreeInv
    <2>2. Parent(x) \in Places
      BY <1>3, ParentOf
    <2> QED
      BY <1>1, <2>1, <2>2, PlaceNotBoard DEF Reaches, TreeInv, InPlace
  <1> QED
    BY <1>1, <1>2, <1>3

\* A new device, whatever becomes of it: it and what hangs behind it change
\* their addresses, and devices at address 0; nobody else does.
NewAnswers(a) ==
    /\ a \in [Devices -> Numbers \union {0, NULL}]
    /\ \A d \in Devices :
           \/ a[d] = answers[d]
           \/ a[d] = NULL
           \/ a[d] = 0 /\ d = At(Here)
           \/ a[d] \in Numbers \ pools["addr"] /\ (d = At(Here) \/ answers[d] = 0)
    /\ \A d \in Devices : d # At(Here) /\ d \notin Behind(At(Here)) /\ answers[d] # 0
           => a[d] = answers[d]

LEMMA NewAnswersAre ==
    ASSUME TreeInv, NewDevice, NEW n \in Numbers \ pools["addr"]
    PROVE  /\ NewAnswers(answers) /\ NewAnswers(AfterReset) /\ NewAnswers(AfterSetAddress(n))
           /\ \A d \in Behind(At(Here)) :
                  d # At(Here) => AfterReset[d] = NULL /\ AfterSetAddress(n)[d] = NULL
           /\ AfterReset[At(Here)] = 0 /\ AfterSetAddress(n)[At(Here)] = n
  <1>1. answers \in [Devices -> Numbers \union {0, NULL}]
    BY DEF TreeInv, TypeOK
  <1>2. At(Here) \in Devices /\ Behind(At(Here)) \subseteq Devices
    BY NewDeviceFacts, BehindType DEF TreeInv
  <1>3. /\ AfterReset \in [Devices -> Numbers \union {0, NULL}]
        /\ AfterReset[At(Here)] = 0
        /\ \A d \in Devices : d # At(Here) =>
               AfterReset[d] = IF d \in Behind(At(Here)) THEN NULL ELSE answers[d]
    BY <1>1, <1>2 DEF AfterReset
  <1>4. /\ AfterSetAddress(n) \in [Devices -> Numbers \union {0, NULL}]
        /\ \A d \in Devices :
               AfterSetAddress(n)[d] = IF AfterReset[d] = 0 THEN n ELSE AfterReset[d]
    BY <1>3 DEF AfterSetAddress
  <1>5. 0 \notin Numbers /\ NULL # 0
    BY NotNull, NumbersAre
  <1>6. NewAnswers(answers)
    BY <1>1 DEF NewAnswers
  <1>7. NewAnswers(AfterReset)
    BY <1>3 DEF NewAnswers
  <1>8. NewAnswers(AfterSetAddress(n))
    BY <1>3, <1>4, <1>5 DEF NewAnswers
  <1> QED
    BY <1>2, <1>3, <1>4, <1>5, <1>6, <1>7, <1>8

\* A device that fails to start leaves the objects as they were.
LEMMA FailedStart ==
    ASSUME TreeInv, InitializeFails \/ DetectAborts
    PROVE  /\ NewDevice /\ UNCHANGED objects /\ UNCHANGED plugged
           /\ \E a : /\ Addressed(a) /\ NewAnswers(a)
                     /\ a = answers \/ \A d \in Behind(At(Here)) : d # At(Here) => a[d] = NULL
  <1>1. NewDevice /\ UNCHANGED objects
    BY DEF InitializeFails, DetectAborts
  <1>2. PICK n \in Numbers \ pools["addr"] : n = AllocateNumber("addr")
    BY <1>1, NewDeviceFacts, FreeAddress
  <1>3. PICK a : Addressed(a) /\ a \in {answers, AfterReset, AfterSetAddress(n)}
    BY <1>2 DEF InitializeFails, DetectAborts
  <1>4. /\ NewAnswers(a)
        /\ a = answers \/ \A d \in Behind(At(Here)) : d # At(Here) => a[d] = NULL
    BY <1>1, <1>3, NewAnswersAre
  <1>5. UNCHANGED plugged
    BY <1>3 DEF Addressed
  <1> QED
    BY <1>1, <1>3, <1>4, <1>5

\* A device that starts has the object at its place, and answers to it.
LEMMA Started ==
    ASSUME TreeInv, Initialize
    PROVE  \E n \in Numbers \ pools["addr"], a \in [Devices -> Numbers \union {0, NULL}] :
               /\ NewDevice /\ UNCHANGED plugged /\ Addressed(a) /\ NewAnswers(a)
               /\ a[At(Here)] = n /\ \A d \in Behind(At(Here)) : d # At(Here) => a[d] = NULL
               /\ m_pDevice'[Here] # NULL /\ m_pDevice'[Here].dev = At(Here)
               /\ m_pDevice'[Here].addr = n /\ m_pDevice'[Here].state = "initialised"
               /\ \A x \in Places : x # Here => m_pDevice'[x] = m_pDevice[x]
  <1>1. PICK n \in Numbers \ pools["addr"] :
              /\ Addressed(AfterSetAddress(n))
              /\ m_pDevice' = [m_pDevice EXCEPT ![Here] =
                     [dev |-> At(Here), addr |-> n, state |-> "initialised"]]
              /\ [dev |-> At(Here), addr |-> n, state |-> "initialised"] \in Objects
    BY InitializeFacts
  <1>2. NewDevice /\ Here \in Places
    BY NewDeviceFacts DEF Initialize
  <1>3. m_pDevice \in [Places -> Objects \union {NULL}]
    BY DEF TreeInv, TypeOK
  <1>4. /\ m_pDevice'[Here] = [dev |-> At(Here), addr |-> n, state |-> "initialised"]
        /\ \A x \in Places : x # Here => m_pDevice'[x] = m_pDevice[x]
    BY <1>1, <1>2, <1>3
  <1>5. /\ m_pDevice'[Here] # NULL /\ m_pDevice'[Here].dev = At(Here)
        /\ m_pDevice'[Here].addr = n /\ m_pDevice'[Here].state = "initialised"
    BY <1>1, <1>4, NotNull
  <1>6. UNCHANGED plugged
    BY <1>1 DEF Addressed
  <1>7. PICK a : a = AfterSetAddress(n)
    OBVIOUS
  <1>8. /\ NewAnswers(a) /\ a[At(Here)] = n
        /\ \A d \in Behind(At(Here)) : d # At(Here) => a[d] = NULL
    BY <1>2, <1>7, NewAnswersAre
  <1> QED
    BY <1>1, <1>2, <1>4, <1>5, <1>6, <1>7, <1>8 DEF NewAnswers

\* Nothing that happens at a port changes how an object below another one is
\* answered.
LEMMA AnswerKept ==
    ASSUME TreeInv, NewDevice, NEW a, NewAnswers(a), NEW x \in Places, m_pDevice[x] # NULL
    PROVE  /\ a[m_pDevice[x].dev] = m_pDevice[x].addr => Reaches(x)
           /\ Reaches(x) /\ Len(x) = 1 => a[m_pDevice[x].dev] = m_pDevice[x].addr
           /\ Reaches(x) /\ Len(x) = 2 /\ Parent(x) # Here =>
                  a[m_pDevice[x].dev] = m_pDevice[x].addr
  <1>1. m_pDevice[x].dev \in Devices /\ m_pDevice[x].addr \in Numbers
    BY ObjectFacts DEF TreeInv
  <1>2. m_pDevice[x].addr \in pools["addr"]
    BY DEF TreeInv, AddressesExact, Present
  <1>3. m_pDevice[x].addr # 0 /\ m_pDevice[x].addr # NULL
    BY <1>1, NotNull, NumbersAre
  <1>4. a[m_pDevice[x].dev] = m_pDevice[x].addr => Reaches(x)
    BY <1>1, <1>2, <1>3, PlaceNotBoard DEF NewAnswers, Reaches
  <1>5. ASSUME Reaches(x), Len(x) = 1 \/ Parent(x) # Here
        PROVE  a[m_pDevice[x].dev] = m_pDevice[x].addr
    <2>1. /\ At(x) = m_pDevice[x].dev /\ answers[At(x)] = m_pDevice[x].addr /\ At(x) # NULL
      BY <1>5, ReachedFacts
    <2>2. Here \in Places /\ m_pDevice[Here] = NULL /\ At(Here) \in Devices
      BY NewDeviceFacts
    <2>3. At(x) # At(Here)
      BY <2>1, <2>2, AtUnique DEF TreeInv
    <2>4. At(x) \notin Behind(At(Here))
      <3>1. SUFFICES ASSUME At(x) \in Behind(At(Here)) PROVE FALSE
        OBVIOUS
      <3>2. Len(x) = 2 /\ Parent(x) = Here
        BY <2>2, <3>1, BehindIs DEF TreeInv
      <3> QED
        BY <1>5, <3>2
    <2> QED
      BY <1>1, <1>3, <2>1, <2>3, <2>4 DEF NewAnswers
  <1> QED
    BY <1>4, <1>5

\* The objects there are after a step were there before, with the same device
\* and the same address, but for that of a new device.
LEMMA ObjectBack ==
    ASSUME TreeInv, [Next]_vars, NEW x \in Places, m_pDevice'[x] # NULL
    PROVE  \/ /\ m_pDevice[x] # NULL /\ m_pDevice'[x].dev = m_pDevice[x].dev
              /\ m_pDevice'[x].addr = m_pDevice[x].addr
              /\ m_pDevice'[x].state = "configured" =>
                     \/ m_pDevice[x].state = "configured"
                     \/ m_pDevice[x].dev \notin Hubs
                     \/ ReturnToConfigure /\ HubStarts /\ x = Frame.hub
           \/ Initialize /\ x = Here
  <1>1. CASE m_pDevice'[x] = m_pDevice[x]
    BY <1>1
  <1>2. CASE UNCHANGED <<m_pDevice, m_bPortConfigured, pools, names>>
    BY <1>1, <1>2
  <1>3. CASE Initialize
    BY <1>1, <1>3, Started
  <1>4. CASE ConfigureKeyboard \/ ConfigureHub \/ (ReturnToConfigure /\ HubStarts)
    <2>1. PICK p \in Places, st \in {"configuring", "configured"} :
               /\ \A y \in Places : m_pDevice'[y] # NULL <=> m_pDevice[y] # NULL
               /\ \A y \in Places : y # p => m_pDevice'[y] = m_pDevice[y]
               /\ m_pDevice'[p].state = st /\ m_pDevice'[p] \in Objects
               /\ m_pDevice'[p].dev = m_pDevice[p].dev
               /\ m_pDevice'[p].addr = m_pDevice[p].addr
               /\ m_pDevice' = [m_pDevice EXCEPT ![p].state = st]
               /\ \/ ToConfigure /\ p = Here /\ m_pDevice[p].state = "initialised"
                  \/ ReturnToConfigure /\ HubStarts /\ p = Frame.hub
      BY <1>4, StateChanges
    <2>2. CASE x # p
      BY <1>1, <2>1, <2>2
    <2>3. CASE x = p /\ ReturnToConfigure /\ HubStarts /\ p = Frame.hub
      BY <2>1, <2>3
    <2>4. CASE x = p /\ p = Here /\ m_pDevice[p].state = "initialised" /\ ~ReturnToConfigure
      <3>1. Here # <<>> /\ m_pDevice[x] # NULL
        BY <2>1, <2>4, PlaceNotBoard
      <3>2. CASE ConfigureKeyboard
        <4>1. ~IsHub(Here)
          BY <3>2 DEF ConfigureKeyboard
        <4> QED
          BY <2>1, <2>4, <3>1, <4>1 DEF IsHub
      <3>3. CASE ConfigureHub
        <4>1. m_pDevice' = [m_pDevice EXCEPT ![p].state = "configuring"]
          BY <2>4, <3>3 DEF ConfigureHub
        <4>2. m_pDevice \in [Places -> Objects \union {NULL}] /\ m_pDevice[p] \in Objects
          BY <2>4, <3>1, ObjectFacts DEF TreeInv, TypeOK
        <4>3. m_pDevice'[p] = [m_pDevice[p] EXCEPT !.state = "configuring"]
          BY <4>1, <4>2
        <4>4. m_pDevice'[p].state = "configuring"
          BY <4>2, <4>3 DEF Objects
        <4> QED
          BY <2>1, <2>4, <3>1, <4>4
      <3> QED
        BY <1>4, <2>4, <3>2, <3>3
    <2>5. ASSUME ReturnToConfigure PROVE ~ToConfigure
      BY <2>5 DEF ReturnToConfigure, HubStarts, HubFails, BackToConfigure, ToConfigure, InLoop
    <2> QED
      BY <2>1, <2>2, <2>3, <2>4, <2>5
  <1>5. ASSUME NEW t \in Places, NEW mark \in BOOLEAN, Delete(t, mark)
        PROVE  m_pDevice'[x] = m_pDevice[x]
    BY <1>5, DeleteFacts
  <1> QED
    BY <1>1, <1>2, <1>3, <1>4, <1>5, ObjectSteps

\* A device answers to its object after a step only if it did before, but for a
\* new one.
LEMMA ReachesBack ==
    ASSUME TreeInv, [Next]_vars, NEW x \in Places, Reaches(x)'
    PROVE  \/ /\ Reaches(x) /\ m_pDevice[x] # NULL /\ m_pDevice'[x].dev = m_pDevice[x].dev
              /\ m_pDevice'[x].addr = m_pDevice[x].addr
           \/ Initialize /\ x = Here
  <1>1. m_pDevice'[x] # NULL /\ answers'[m_pDevice'[x].dev] = m_pDevice'[x].addr
    BY PlaceNotBoard DEF Reaches
  <1>2. SUFFICES ASSUME /\ m_pDevice[x] # NULL /\ m_pDevice'[x].dev = m_pDevice[x].dev
                        /\ m_pDevice'[x].addr = m_pDevice[x].addr
                 PROVE  Reaches(x)
    BY <1>1, ObjectBack
  <1>3. /\ m_pDevice[x].dev \in Devices /\ m_pDevice[x].addr # NULL
        /\ answers'[m_pDevice[x].dev] = m_pDevice[x].addr
    BY <1>1, <1>2, ObjectFacts, NotNull DEF TreeInv
  <1>4. CASE answers'[m_pDevice[x].dev] = answers[m_pDevice[x].dev]
    BY <1>2, <1>3, <1>4 DEF Reaches
  <1>5. CASE UNCHANGED <<plugged, answers>>
    BY <1>4, <1>5
  <1>6. CASE Initialize
    BY <1>2, <1>3, <1>6, Started, AnswerKept DEF Addressed
  <1>7. CASE InitializeFails \/ DetectAborts
    BY <1>2, <1>3, <1>7, FailedStart, AnswerKept DEF Addressed
  <1>8. ASSUME NEW d \in Devices, NEW k \in Sockets, Plug(d, k) PROVE UNCHANGED answers
    BY <1>8 DEF Plug
  <1>9. ASSUME NEW k \in Sockets, Unplug(k)
        PROVE  answers'[m_pDevice[x].dev] = answers[m_pDevice[x].dev]
    BY <1>3, <1>9 DEF Unplug
  <1> QED
    BY <1>4, <1>5, <1>6, <1>7, <1>8, <1>9, PhysicalSteps

\* Nobody is unplugged with a device that stays, nor is the hub it hangs at.
LEMMA UnplugSpares ==
    ASSUME TreeInv, NEW k \in Sockets, Unplug(k), NEW x \in Places, Reaches(x),
           m_pDevice[x].dev \notin {plugged[k]} \union Behind(plugged[k])
    PROVE  /\ At(x)' = At(x) /\ answers'[m_pDevice[x].dev] = m_pDevice[x].addr
           /\ Len(x) = 2 => answers'[m_pDevice[Parent(x)].dev] = m_pDevice[Parent(x)].addr
  <1>1. /\ m_pDevice[x] # NULL /\ At(x) = m_pDevice[x].dev /\ At(x) \in Devices
        /\ m_pDevice[x].addr \in Numbers /\ answers[At(x)] = m_pDevice[x].addr
        /\ At(x) # NULL
        /\ Len(x) = 2 => /\ At(Parent(x)) \in Hubs /\ At(x) \in Behind(At(Parent(x)))
                         /\ At(Parent(x)) = m_pDevice[Parent(x)].dev
                         /\ answers[At(Parent(x))] = m_pDevice[Parent(x)].addr
    BY ReachedFacts
  <1>2. /\ plugged' = [plugged EXCEPT ![k] = NULL]
        /\ answers' = [d \in Devices |->
               IF d \in {plugged[k]} \union Behind(plugged[k]) THEN NULL ELSE answers[d]]
    BY DEF Unplug
  <1>3. answers'[m_pDevice[x].dev] = m_pDevice[x].addr
    BY <1>1, <1>2
  <1>4. ASSUME Len(x) = 2 PROVE At(Parent(x)) \notin {plugged[k]} \union Behind(plugged[k])
    <2>1. At(Parent(x)) # plugged[k]
      BY <1>1, <1>4
    <2>2. SUFFICES ASSUME At(Parent(x)) \in Behind(plugged[k]) PROVE FALSE
      BY <2>1
    <2>3. PICK j \in Sockets : j[1] = plugged[k] /\ plugged[j] = At(Parent(x))
      BY <2>2 DEF Behind, Filled, SocketsOf
    <2>4. j[1] = Board
      BY <1>1, <1>4, <2>3 DEF TreeInv, Wired
    <2>5. plugged[k] # Board
      BY Distinct DEF TreeInv, Wired
    <2> QED
      BY <2>3, <2>4, <2>5
  <1>5. Len(x) = 2 => answers'[m_pDevice[Parent(x)].dev] = m_pDevice[Parent(x)].addr
    BY <1>1, <1>2, <1>4, Distinct
  <1>6. Wired /\ Wired'
    <2>1. [Next]_vars
      BY DEF Next
    <2> QED
      BY <2>1, WiredNext DEF TreeInv
  <1>7. \A j \in Sockets : plugged'[j] # plugged[j] =>
               plugged[j] # At(x) /\ (Len(x) = 2 => plugged[j] # At(Parent(x)))
    <2>1. \A j \in Sockets : plugged'[j] # plugged[j] => j = k
      BY <1>2, <1>6 DEF Wired
    <2> QED
      BY <1>1, <1>4, <2>1
  <1>8. At(x)' = At(x)
    BY <1>1, <1>6, <1>7, AtStays
  <1> QED
    BY <1>3, <1>5, <1>8

LEMMA InPlaceNext == ASSUME TreeInv, [Next]_vars PROVE InPlace'
  <1>1. SUFFICES ASSUME NEW x \in Places, Reaches(x)'
                 PROVE  At(x)' = m_pDevice'[x].dev /\ Reaches(Parent(x))'
    BY DEF InPlace
  <1>2. PICK s \in HubPlaces : s = Parent(x)
    BY ParentOf
  <1>3. SUFFICES At(x)' = m_pDevice'[x].dev /\ (s # <<>> => Reaches(s)')
    BY <1>2 DEF Reaches
  <1>4. s # <<>> => /\ s \in Places /\ Len(s) = 1 /\ Len(x) = 2
    BY <1>2, ParentOf, HubCases, PlaceCases
  <1>5. s # <<>> => m_pDevice'[s] # NULL
    <2>1. ObjectsFit' /\ m_pDevice'[x] # NULL
      BY <1>1, ObjectsFitNext, PlaceNotBoard DEF Reaches
    <2>2. IsHub(Parent(x))'
      BY <2>1 DEF ObjectsFit
    <2> QED
      BY <1>2, <2>2 DEF IsHub
  <1>6. CASE Initialize /\ x = Here
    <2>1. PICK n \in Numbers \ pools["addr"], a \in [Devices -> Numbers \union {0, NULL}] :
               /\ NewDevice /\ UNCHANGED plugged /\ Addressed(a) /\ NewAnswers(a)
               /\ m_pDevice'[Here].dev = At(Here)
               /\ \A y \in Places : y # Here => m_pDevice'[y] = m_pDevice[y]
      BY <1>6, Started
    <2>2. At(x)' = At(x)
      BY <2>1 DEF At, AtPort
    <2>3. s = Frame.hub /\ Reaches(Frame.hub) /\ m_pDevice[Here] = NULL
      BY <1>2, <1>6, <2>1, NewDeviceFacts
    <2>4. ASSUME s # <<>> PROVE Reaches(s)'
      <3>1. m_pDevice[s] # NULL
        BY <2>3, <2>4 DEF Reaches
      <3>2. m_pDevice'[s] = m_pDevice[s]
        BY <1>4, <2>1, <2>3, <2>4, <3>1
      <3>3. a[m_pDevice[s].dev] = m_pDevice[s].addr
        BY <1>4, <2>1, <2>3, <2>4, <3>1, AnswerKept
      <3> QED
        BY <2>1, <3>1, <3>2, <3>3 DEF Reaches, Addressed
    <2> QED
      BY <1>6, <2>1, <2>2, <2>4
  <1>7. CASE ~(Initialize /\ x = Here)
    <2>1. /\ Reaches(x) /\ m_pDevice[x] # NULL /\ m_pDevice'[x].dev = m_pDevice[x].dev
          /\ m_pDevice'[x].addr = m_pDevice[x].addr
      BY <1>1, <1>7, ReachesBack
    <2>2. /\ At(x) = m_pDevice[x].dev /\ At(x) \in Devices /\ At(x) # NULL
          /\ s # <<>> => Reaches(s) /\ m_pDevice[s] # NULL
      BY <1>2, <1>4, <2>1, ReachedFacts
    <2>3. s # <<>> => /\ m_pDevice'[s].dev = m_pDevice[s].dev
                      /\ m_pDevice'[s].addr = m_pDevice[s].addr
      <3>1. SUFFICES ASSUME s # <<>>
                     PROVE  /\ m_pDevice'[s].dev = m_pDevice[s].dev
                            /\ m_pDevice'[s].addr = m_pDevice[s].addr
        OBVIOUS
      <3>2. ~(Initialize /\ s = Here)
        BY <2>2, <3>1, NewDeviceFacts DEF Initialize
      <3> QED
        BY <1>4, <1>5, <3>1, <3>2, ObjectBack
    <2>4. SUFFICES At(x)' = At(x)
                       /\ (s # <<>> => answers'[m_pDevice[s].dev] = m_pDevice[s].addr)
      BY <1>5, <2>1, <2>2, <2>3 DEF Reaches
    <2>5. s # <<>> => answers[m_pDevice[s].dev] = m_pDevice[s].addr
      BY <2>2 DEF Reaches
    <2>6. ASSUME UNCHANGED plugged PROVE At(x)' = At(x)
      BY <2>6 DEF At, AtPort
    <2>7. CASE UNCHANGED <<plugged, answers>>
      BY <2>5, <2>6, <2>7
    <2>8. ASSUME NewDevice, UNCHANGED plugged, NEW a, NewAnswers(a), Addressed(a)
          PROVE  /\ At(x)' = At(x)
                 /\ s # <<>> => answers'[m_pDevice[s].dev] = m_pDevice[s].addr
      <3>1. s # <<>> => a[m_pDevice[s].dev] = m_pDevice[s].addr
        BY <1>4, <2>2, <2>8, AnswerKept
      <3> QED
        BY <2>6, <2>8, <3>1 DEF Addressed
    <2>9. CASE Initialize
      BY <2>8, <2>9, Started
    <2>10. CASE InitializeFails \/ DetectAborts
      BY <2>8, <2>10, FailedStart
    <2>11. ASSUME NEW d \in Devices, NEW k \in Sockets, Plug(d, k)
           PROVE  /\ At(x)' = At(x)
                  /\ s # <<>> => answers'[m_pDevice[s].dev] = m_pDevice[s].addr
      <3>1. /\ UNCHANGED answers /\ plugged' = [plugged EXCEPT ![k] = d]
            /\ plugged[k] = NULL
        BY <2>11 DEF Plug
      <3>2. Wired /\ Wired'
        BY WiredNext DEF TreeInv
      <3>3. \A j \in Sockets : plugged'[j] # plugged[j] => plugged[j] = NULL
        BY <3>1, <3>2 DEF Wired
      <3>4. Len(x) = 2 => At(Parent(x)) # NULL
        BY <2>1, ReachedFacts, Distinct
      <3>5. At(x)' = At(x)
        BY <2>2, <3>2, <3>3, <3>4, AtStays
      <3> QED
        BY <2>5, <3>1, <3>5
    <2>12. ASSUME NEW k \in Sockets, Unplug(k)
           PROVE  /\ At(x)' = At(x)
                  /\ s # <<>> => answers'[m_pDevice[s].dev] = m_pDevice[s].addr
      <3>1. answers'[m_pDevice[x].dev] = m_pDevice[x].addr
        BY <1>1, <2>1, PlaceNotBoard DEF Reaches
      <3>2. m_pDevice[x].addr # NULL
        BY <2>1, ObjectFacts, NotNull DEF TreeInv
      <3>3. m_pDevice[x].dev \notin {plugged[k]} \union Behind(plugged[k])
        BY <2>2, <2>12, <3>1, <3>2 DEF Unplug
      <3> QED
        BY <1>2, <1>4, <2>1, <2>12, <3>3, UnplugSpares
    <2> QED
      BY <2>7, <2>9, <2>10, <2>11, <2>12, PhysicalSteps
  <1> QED
    BY <1>6, <1>7

LEMMA ApartNext == ASSUME TreeInv, [Next]_vars PROVE Apart'
  <1>1. SUFFICES ASSUME failed' = "none" PROVE ~Collide(answers')
    BY DEF Apart, Collide
  <1>2. ~Collide(answers)
    BY <1>1, FailedStays DEF TreeInv, Apart
  <1>3. CASE UNCHANGED answers
    BY <1>2, <1>3 DEF Collide
  <1>4. ASSUME NEW a, Addressed(a) PROVE ~Collide(answers')
    BY <1>1, <1>4 DEF Addressed
  <1>5. ASSUME NEW k \in Sockets, Unplug(k) PROVE ~Collide(answers')
    <2>1. \A d \in Devices : answers'[d] = NULL \/ answers'[d] = answers[d]
      BY <1>5 DEF Unplug
    <2> QED
      BY <1>2, <2>1 DEF Collide
  <1>6. ASSUME NEW d \in Devices, NEW k \in Sockets, Plug(d, k) PROVE UNCHANGED answers
    BY <1>6 DEF Plug
  <1> QED
    BY <1>3, <1>4, <1>5, <1>6, PhysicalSteps, Started, FailedStart

-----------------------------------------------------------------------------
(* The watch over the hubs                                                 *)

\* A hub that works: it is to have its changes noticed.
Monitored(s) == IsHub(s) /\ Configured(s) /\ Reaches(s)

LEMMA MonitoredKept ==
    ASSUME TreeInv, [Next]_vars, NEW s \in Tree, Monitored(s)
    PROVE  \/ Monitored(s)'
           \/ /\ s # <<>>
              /\ \E k \in Sockets : /\ Unplug(k)
                                    /\ m_pDevice[s].dev \in {plugged[k]} \union Behind(plugged[k])
  <1>1. CASE s = <<>>
    BY <1>1 DEF Monitored, IsHub, Configured, Reaches
  <1>2. CASE s # <<>>
    <2>1. s \in Places /\ m_pDevice[s] # NULL /\ Len(s) = 1
      BY <1>2, HubObject DEF Tree, Monitored, TreeInv, ObjectsFit
    <2>2. ~\E t \in Places, mark \in BOOLEAN : Spared(t) /\ Delete(t, mark) /\ s \in Gone(t)
      BY DEF Spared, Gone, Monitored
    <2>3. /\ IsHub(s)' /\ Configured(s)' /\ m_pDevice'[s] # NULL
          /\ m_pDevice'[s].dev = m_pDevice[s].dev /\ m_pDevice'[s].addr = m_pDevice[s].addr
      BY <1>2, <2>2, HubKept DEF Monitored
    <2>4. answers[m_pDevice[s].dev] = m_pDevice[s].addr /\ Reaches(s)
      BY <1>2 DEF Monitored, Reaches
    <2>5. CASE answers'[m_pDevice[s].dev] = m_pDevice[s].addr
      BY <2>3, <2>5 DEF Monitored, Reaches
    <2>6. CASE Initialize
      BY <2>1, <2>4, <2>5, <2>6, Started, AnswerKept DEF Addressed
    <2>7. CASE InitializeFails \/ DetectAborts
      BY <2>1, <2>4, <2>5, <2>7, FailedStart, AnswerKept DEF Addressed
    <2>8. ASSUME NEW d \in Devices, NEW k \in Sockets, Plug(d, k) PROVE UNCHANGED answers
      BY <2>8 DEF Plug
    <2>9. ASSUME NEW k \in Sockets, Unplug(k),
                 m_pDevice[s].dev \notin {plugged[k]} \union Behind(plugged[k])
          PROVE  answers'[m_pDevice[s].dev] = m_pDevice[s].addr
      BY <2>1, <2>4, <2>9, UnplugSpares
    <2> QED
      BY <1>2, <2>4, <2>5, <2>6, <2>7, <2>8, <2>9, PhysicalSteps
  <1> QED
    BY <1>1, <1>2

LEMMA MonitoredBack ==
    ASSUME TreeInv, [Next]_vars, NEW s \in Tree, Monitored(s)'
    PROVE  Monitored(s) \/ (ReturnToConfigure /\ HubStarts /\ s = Frame.hub /\ Reaches(s))
  <1>1. CASE s = <<>>
    BY <1>1 DEF Monitored, IsHub, Configured, Reaches
  <1>2. CASE s # <<>>
    <2>1. /\ s \in Places /\ m_pDevice'[s] # NULL /\ m_pDevice'[s].dev \in Hubs
          /\ m_pDevice'[s].state = "configured" /\ Reaches(s)'
      BY <1>2 DEF Tree, Monitored, IsHub, Configured
    <2>2. ~(Initialize /\ s = Here)
      BY <2>1, Started
    <2>3. /\ Reaches(s) /\ m_pDevice[s] # NULL /\ m_pDevice'[s].dev = m_pDevice[s].dev
      BY <2>1, <2>2, ReachesBack
    <2>4. \/ m_pDevice[s].state = "configured"
          \/ ReturnToConfigure /\ HubStarts /\ s = Frame.hub
      BY <2>1, <2>2, <2>3, ObjectBack
    <2> QED
      BY <1>2, <2>1, <2>3, <2>4 DEF Monitored, IsHub, Configured
  <1> QED
    BY <1>1, <1>2

LEMMA WorkDone ==
    ASSUME TreeInv, PortsDone \/ BootEnds
    PROVE  /\ stack # <<>> /\ Frame = stack[1] /\ stack' = <<>> /\ failed = "none"
           /\ Frame.hub \in Tree
           /\ PortsDone => IsHub(Frame.hub) /\ Configured(Frame.hub)
           /\ BootEnds => Frame.hub = <<>>
           /\ UNCHANGED <<m_HubList, m_pDevice>>
  <1>1. stack # <<>> /\ stack' = <<>> /\ failed = "none" /\ UNCHANGED <<m_HubList, m_pDevice>>
    BY DEF PortsDone, BootEnds, InLoop, objects
  <1>2. Len(stack) = 1
    BY <1>1, PortsAlone DEF PortsDone, BootEnds, InLoop, TreeInv
  <1>3. Frame = stack[1] /\ Frame \in Frames
    BY <1>1, <1>2, StackFacts DEF TreeInv, Shape
  <1>4. PortsDone => IsHub(Frame.hub) /\ Configured(Frame.hub)
    BY <1>1, <1>2, <1>3 DEF TreeInv, FramesLive
  <1>5. BootEnds => Frame.hub = <<>>
    <2>1. SUFFICES ASSUME BootEnds PROVE Frame.hub = <<>>
      OBVIOUS
    <2>2. Frame.loop = "end"
      BY <2>1 DEF BootEnds, InLoop
    <2> QED
      BY <1>1, <1>3, <2>2 DEF TreeInv, Shape
  <1> QED
    BY <1>1, <1>3, <1>4, <1>5 DEF Frames

\* Who makes a request: the configuration of a hub when it is over, the boot,
\* and HandlePortStatusChange when it has seen all ports.
LEMMA RequestSteps ==
    ASSUME [Next]_vars
    PROVE  \/ UNCHANGED request
           \/ \E k \in Sockets : Unplug(k)
           \/ \E s \in Tree : StatusChange(s) \/ RequestFails(s)
           \/ /\ ReturnToConfigure /\ HubStarts
              /\ request' = IF Reaches(Frame.hub) THEN request \union {Frame.hub} ELSE request
           \/ BootEnds /\ Frame.ok /\ request' = request \union {<<>>}
           \/ /\ PortsDone /\ UNCHANGED deaf
              /\ request' = IF Reaches(Frame.hub) THEN request \union {Frame.hub} ELSE request
  <1>1. CASE LoopOver \/ Rescan \/ EmptyPort \/ InitializeFails \/ DetectAborts \/ SkipPort
    BY <1>1 DEF LoopOver, Rescan, EmptyPort, InitializeFails, DetectAborts, SkipPort, Addressed
  <1>2. CASE ReturnToHandler \/ StatusFails \/ HandleEvent \/ UpdateEnd \/ UNCHANGED vars
    BY <1>2 DEF ReturnToHandler, StatusFails, HandleEvent, UpdateEnd, vars
  <1>3. CASE PortConnected \/ PortKept \/ PortRemoved \/ ConfigureFails
    BY <1>3 DEF PortConnected, PortKept, PortRemoved, PortStatus, ConfigureFails
  <1>4. CASE Initialize \/ ConfigureKeyboard \/ ConfigureHub
    BY <1>4 DEF Initialize, Addressed, ConfigureKeyboard, ConfigureHub
  <1>5. CASE ReturnToConfigure
    BY <1>5 DEF ReturnToConfigure, HubStarts, HubFails, BackToConfigure
  <1>6. CASE BootEnds
    BY <1>6 DEF BootEnds
  <1>7. CASE PortsDone
    BY <1>7 DEF PortsDone
  <1>8. ASSUME NEW d \in Devices, NEW k \in Sockets, Plug(d, k) PROVE UNCHANGED request
    BY <1>8 DEF Plug
  <1> QED
    BY <1>1, <1>2, <1>3, <1>4, <1>5, <1>6, <1>7, <1>8 DEF Next, Task

\* Whose request fails: one that is outstanding, or the next one of a hub that
\* HandlePortStatusChange is done with. A hub that is configured starts anew.
LEMMA DeafSteps ==
    ASSUME [Next]_vars
    PROVE  \/ UNCHANGED deaf
           \/ \E s \in Tree : RequestFails(s)
           \/ HubStarts /\ deaf' = deaf \ {Frame.hub}
           \/ PortsDone /\ UNCHANGED request /\ deaf' = deaf \union {Frame.hub}
  <1>1. CASE LoopOver \/ Rescan \/ EmptyPort \/ InitializeFails \/ DetectAborts \/ SkipPort
    BY <1>1 DEF LoopOver, Rescan, EmptyPort, InitializeFails, DetectAborts, SkipPort, Addressed
  <1>2. CASE ReturnToHandler \/ StatusFails \/ HandleEvent \/ UpdateEnd \/ UNCHANGED vars
    BY <1>2 DEF ReturnToHandler, StatusFails, HandleEvent, UpdateEnd, vars
  <1>3. CASE PortConnected \/ PortKept \/ PortRemoved \/ ConfigureFails
    BY <1>3 DEF PortConnected, PortKept, PortRemoved, PortStatus, ConfigureFails
  <1>4. CASE Initialize \/ ConfigureKeyboard \/ ConfigureHub
    BY <1>4 DEF Initialize, Addressed, ConfigureKeyboard, ConfigureHub
  <1>5. CASE ReturnToConfigure \/ BootEnds \/ PortsDone
    BY <1>5 DEF ReturnToConfigure, HubStarts, HubFails, BootEnds, PortsDone
  <1>6. ASSUME NEW d \in Devices, NEW k \in Sockets, Plug(d, k) PROVE UNCHANGED deaf
    BY <1>6 DEF Plug
  <1>7. ASSUME NEW k \in Sockets, Unplug(k) PROVE UNCHANGED deaf
    BY <1>7 DEF Unplug
  <1>8. ASSUME NEW s \in Tree, StatusChange(s) PROVE UNCHANGED deaf
    BY <1>8 DEF StatusChange
  <1> QED
    BY <1>1, <1>2, <1>3, <1>4, <1>5, <1>6, <1>7, <1>8 DEF Next, Task

\* When the enumeration of a hub is over the hub is configured.
LEMMA NowConfigured ==
    ASSUME TreeInv, ReturnToConfigure, HubStarts, NEW s \in Tree, s = Frame.hub, Reaches(s)
    PROVE  Monitored(s)'
  <1>1. /\ s \in Places /\ s # <<>> /\ m_pDevice[s] # NULL /\ m_pDevice[s].dev \in Hubs
        /\ m_pDevice[s] \in Objects /\ m_pDevice \in [Places -> Objects \union {NULL}]
    BY ConfiguredHub, PlaceNotBoard DEF TreeInv, TypeOK
  <1>2. /\ m_pDevice' = [m_pDevice EXCEPT ![s].state = "configured"] /\ UNCHANGED answers
    BY DEF ReturnToConfigure, HubStarts, HubFails, BackToConfigure, physical
  <1>3. m_pDevice'[s] = [m_pDevice[s] EXCEPT !.state = "configured"]
    BY <1>1, <1>2
  <1>4. /\ m_pDevice'[s] \in Objects /\ m_pDevice'[s].state = "configured"
        /\ m_pDevice'[s].dev = m_pDevice[s].dev /\ m_pDevice'[s].addr = m_pDevice[s].addr
    BY <1>1, <1>3 DEF Objects
  <1> QED
    BY <1>1, <1>2, <1>4, NotNull DEF Monitored, IsHub, Configured, Reaches

LEMMA RequestsNext == ASSUME TreeInv, [Next]_vars PROVE Requests'
  <1>1. SUFFICES ASSUME failed' = "none", NEW s \in request' PROVE Monitored(s)'
    BY DEF Requests, Monitored
  <1>2. failed = "none" /\ request \subseteq Tree /\ \A x \in request : Monitored(x)
    BY <1>1, FailedStays DEF TreeInv, TypeOK, Requests, Monitored
  <1>3. CASE s \in request
    <2>1. s \in Tree /\ Monitored(s)
      BY <1>2, <1>3
    <2>2. ASSUME NEW k \in Sockets, Unplug(k), s # <<>>
          PROVE  m_pDevice[s].dev \notin {plugged[k]} \union Behind(plugged[k])
      BY <1>1, <2>2 DEF Unplug
    <2> QED
      BY <2>1, <2>2, MonitoredKept
  <1>4. CASE s \notin request
    <2>1. ~\E k \in Sockets : Unplug(k)
      BY <1>1, <1>4 DEF Unplug
    <2>2. ~\E x \in Tree : StatusChange(x) \/ RequestFails(x)
      BY <1>1, <1>4 DEF StatusChange, RequestFails
    <2>3. CASE ReturnToConfigure /\ HubStarts
               /\ request' = IF Reaches(Frame.hub) THEN request \union {Frame.hub} ELSE request
      <3>1. s = Frame.hub /\ Reaches(s)
        BY <1>1, <1>4, <2>3
      <3>2. s \in Tree
        BY <2>3, <3>1, ConfiguredHub DEF Tree
      <3> QED
        BY <2>3, <3>1, <3>2, NowConfigured
    <2>4. CASE BootEnds /\ request' = request \union {<<>>}
      <3>1. s = <<>>
        BY <1>1, <1>4, <2>4
      <3> QED
        BY <3>1 DEF Monitored, IsHub, Configured, Reaches
    <2>5. CASE PortsDone
               /\ request' = IF Reaches(Frame.hub) THEN request \union {Frame.hub} ELSE request
      <3>1. s = Frame.hub /\ Reaches(s)
        BY <1>1, <1>4, <2>5
      <3>2. s \in Tree /\ Monitored(s)
        BY <2>5, <3>1, WorkDone DEF Monitored
      <3>3. ~\E k \in Sockets : Unplug(k)
        BY <2>1
      <3> QED
        BY <3>2, <3>3, MonitoredKept
    <2> QED
      BY <1>1, <1>4, <2>1, <2>2, <2>3, <2>4, <2>5, RequestSteps
  <1> QED
    BY <1>3, <1>4

-----------------------------------------------------------------------------
(* Request, event and work                                                 *)

\* A hub with an event that has not been deleted.
LEMMA ReportedHub ==
    ASSUME TreeInv, NEW s, Reported(s)
    PROVE  s \in Tree /\ IsHub(s) /\ Configured(s)
  <1>1. PICK i \in 1 .. Len(m_HubList) : m_HubList[i].hub = s /\ ~m_HubList[i].deleted
    BY DEF Reported
  <1> QED
    BY <1>1, EventFacts DEF TreeInv, EventsFit, HubPlaces

\* The events after a step are those before, but for the new one.
LEMMA ReportedBack ==
    ASSUME TreeInv, [Next]_vars, NEW s, Reported(s)'
    PROVE  Reported(s) \/ StatusChange(s)
  <1>0. Len(m_HubList) \in Nat
        /\ m_HubList \in Seq([hub : Tree, bits : SUBSET Nat, deleted : BOOLEAN])
    BY LenProperties DEF TreeInv, TypeOK
  <1>1. PICK g : g = m_HubList'
    OBVIOUS
  <1>2. PICK i \in 1 .. Len(g) : g[i].hub = s /\ ~g[i].deleted
    BY <1>1 DEF Reported
  <1>3. CASE UNCHANGED m_HubList
    BY <1>1, <1>2, <1>3 DEF Reported
  <1>4. ASSUME NEW x \in Tree, StatusChange(x) PROVE Reported(s) \/ StatusChange(s)
    <2>1. PICK e : e = [hub |-> x, bits |-> Bits(x), deleted |-> FALSE]
      OBVIOUS
    <2>2. g = Append(m_HubList, e) /\ e.hub = x
      BY <1>1, <1>4, <2>1 DEF StatusChange
    <2>3. CASE i = Len(m_HubList) + 1
      <3>1. g[i] = e
        BY <1>0, <2>2, <2>3
      <3> QED
        BY <1>2, <1>4, <2>2, <3>1
    <2>4. CASE i # Len(m_HubList) + 1
      <3>1. i \in 1 .. Len(m_HubList) /\ g[i] = m_HubList[i]
        BY <1>0, <2>2, <2>4
      <3> QED
        BY <1>2, <3>1 DEF Reported
    <2> QED
      BY <2>3, <2>4
  <1>5. CASE HandleEvent
    <2>1. g = Tail(m_HubList) /\ m_HubList # <<>>
      BY <1>1, <1>5 DEF HandleEvent
    <2>2. g[i] = m_HubList[i + 1] /\ i + 1 \in 1 .. Len(m_HubList)
      BY <1>0, <2>1
    <2> QED
      BY <1>2, <2>2 DEF Reported
  <1>6. ASSUME NEW t \in Places, NEW mark \in BOOLEAN, Delete(t, mark)
        PROVE  Reported(s)
    <2>1. g = Orphaned(t)
      BY <1>1, <1>6, DeleteFacts
    <2>2. i \in 1 .. Len(m_HubList) /\ m_HubList[i].hub = s /\ ~m_HubList[i].deleted
      BY <1>2, <2>1, OrphanedFacts
    <2> QED
      BY <2>2 DEF Reported
  <1> QED
    BY <1>3, <1>4, <1>5, <1>6, ListSteps

\* An event of a hub stays in the list until it is taken up or the hub deleted.
LEMMA ReportedKept ==
    ASSUME TreeInv, [Next]_vars, NEW s, Reported(s), failed' = "none"
    PROVE  \/ Reported(s)'
           \/ HandleEvent /\ m_HubList[1].hub = s
           \/ \E t \in Places, mark \in BOOLEAN :
                  Spared(t) /\ Delete(t, mark) /\ s \in Gone(t)
  <1>0. Len(m_HubList) \in Nat
        /\ m_HubList \in Seq([hub : Tree, bits : SUBSET Nat, deleted : BOOLEAN])
    BY LenProperties DEF TreeInv, TypeOK
  <1>1. PICK g : g = m_HubList'
    OBVIOUS
  <1>2. PICK i \in 1 .. Len(m_HubList) : m_HubList[i].hub = s /\ ~m_HubList[i].deleted
    BY DEF Reported
  <1>3. ASSUME NEW j \in 1 .. Len(g), g[j].hub = s, ~g[j].deleted PROVE Reported(s)'
    BY <1>1, <1>3 DEF Reported
  <1>4. CASE UNCHANGED m_HubList
    BY <1>1, <1>2, <1>3, <1>4
  <1>5. ASSUME NEW x \in Tree, StatusChange(x) PROVE Reported(s)'
    <2>1. PICK e : g = Append(m_HubList, e)
      BY <1>1, <1>5 DEF StatusChange
    <2>2. i \in 1 .. Len(g) /\ g[i] = m_HubList[i]
      BY <1>0, <2>1
    <2> QED
      BY <1>2, <1>3, <2>2
  <1>6. CASE HandleEvent
    <2>1. g = Tail(m_HubList) /\ m_HubList # <<>>
      BY <1>1, <1>6 DEF HandleEvent
    <2>2. CASE i = 1
      BY <1>2, <1>6, <2>2
    <2>3. CASE i # 1
      <3>1. i - 1 \in 1 .. Len(g) /\ g[i - 1] = m_HubList[i]
        BY <1>0, <2>1, <2>3
      <3> QED
        BY <1>2, <1>3, <3>1
    <2> QED
      BY <2>2, <2>3
  <1>7. ASSUME NEW t \in Places, NEW mark \in BOOLEAN, Spared(t), Delete(t, mark),
               s \notin Gone(t)
        PROVE  Reported(s)'
    <2>1. g = Orphaned(t)
      BY <1>1, <1>7, DeleteFacts
    <2>2. i \in 1 .. Len(g) /\ g[i].hub = s /\ ~g[i].deleted
      BY <1>2, <1>7, <2>1, OrphanedFacts
    <2> QED
      BY <1>3, <2>2
  <1> QED
    BY <1>4, <1>5, <1>6, <1>7, ListSteps

LEMMA WorkingBack ==
    ASSUME TreeInv, [Next]_vars, NEW s, Working(s)'
    PROVE  Working(s) \/ (HandleEvent /\ m_HubList[1].hub = s)
  <1>1. stack' # <<>> /\ stack'[1].hub = s
    BY DEF Working
  <1>2. CASE HandleEvent
    BY <1>1, <1>2, TakesEvent
  <1> QED
    BY <1>1, <1>2, FirstHub DEF Working

\* An event that is taken up is its hub's only one.
LEMMA TakenFacts ==
    ASSUME TreeInv, HandleEvent, failed' = "none", NEW s, m_HubList[1].hub = s
    PROVE  Reported(s) /\ ~Reported(s)' /\ Working(s)'
  <1>1. /\ Len(m_HubList) \in Nat \ {0} /\ ~m_HubList[1].deleted
        /\ Len(stack') = 1 /\ stack'[1].hub = s
    BY TakesEvent
  <1>2. failed = "none" /\ m_HubList' = Tail(m_HubList) /\ m_HubList # <<>>
        /\ m_HubList \in Seq([hub : Tree, bits : SUBSET Nat, deleted : BOOLEAN])
    BY DEF HandleEvent, TreeInv, TypeOK
  <1>3. 1 \in 1 .. Len(m_HubList)
    BY <1>1
  <1>4. Reported(s)
    BY <1>1, <1>3 DEF Reported
  <1>5. ASSUME Reported(s)' PROVE FALSE
    <2>1. PICK g : g = m_HubList'
      OBVIOUS
    <2>2. PICK i \in 1 .. Len(g) : g[i].hub = s /\ ~g[i].deleted
      BY <1>5, <2>1 DEF Reported
    <2>3. g[i] = m_HubList[i + 1] /\ i + 1 \in 1 .. Len(m_HubList) /\ i + 1 # 1
      BY <1>2, <2>1
    <2> QED
      BY <1>1, <1>2, <1>3, <2>2, <2>3 DEF TreeInv, OneWatch
  <1>6. Working(s)'
    <2>1. stack' # <<>>
      BY <1>1
    <2> QED
      BY <1>1, <2>1 DEF Working
  <1> QED
    BY <1>4, <1>5, <1>6

LEMMA OneEventNext ==
    ASSUME TreeInv, [Next]_vars, failed = "none", NEW g, g = m_HubList',
           NEW i \in 1 .. Len(g), NEW j \in 1 .. Len(g),
           g[i].hub = g[j].hub, ~g[i].deleted, ~g[j].deleted
    PROVE  i = j
  <1>0. Len(m_HubList) \in Nat
        /\ m_HubList \in Seq([hub : Tree, bits : SUBSET Nat, deleted : BOOLEAN])
    BY LenProperties DEF TreeInv, TypeOK
  <1>1. \A k, l \in 1 .. Len(m_HubList) :
            /\ m_HubList[k].hub = m_HubList[l].hub
            /\ ~m_HubList[k].deleted /\ ~m_HubList[l].deleted
            => k = l
    BY DEF TreeInv, OneWatch
  <1>2. CASE UNCHANGED m_HubList
    BY <1>1, <1>2
  <1>3. ASSUME NEW x \in Tree, StatusChange(x) PROVE i = j
    <2>1. PICK e : e = [hub |-> x, bits |-> Bits(x), deleted |-> FALSE]
      OBVIOUS
    <2>2. g = Append(m_HubList, e) /\ e.hub = x /\ x \in request
      BY <1>3, <2>1 DEF StatusChange
    <2>3. /\ Len(g) = Len(m_HubList) + 1 /\ g[Len(m_HubList) + 1] = e
          /\ \A k \in 1 .. Len(m_HubList) : g[k] = m_HubList[k]
      BY <1>0, <2>2
    <2>4. ASSUME NEW k \in 1 .. Len(m_HubList), ~g[k].deleted PROVE g[k].hub # x
      BY <2>2, <2>3, <2>4 DEF TreeInv, OneWatch, Reported
    <2>5. \A k \in 1 .. Len(g) : k \in 1 .. Len(m_HubList) \/ k = Len(m_HubList) + 1
      BY <1>0, <2>3
    <2>6. CASE i \in 1 .. Len(m_HubList) /\ j \in 1 .. Len(m_HubList)
      BY <1>1, <2>3, <2>6
    <2>7. CASE i \in 1 .. Len(m_HubList) /\ j = Len(m_HubList) + 1
      BY <2>2, <2>3, <2>4, <2>7
    <2>8. CASE i = Len(m_HubList) + 1 /\ j \in 1 .. Len(m_HubList)
      BY <2>2, <2>3, <2>4, <2>8
    <2> QED
      BY <2>5, <2>6, <2>7, <2>8
  <1>4. CASE HandleEvent
    <2>1. g = Tail(m_HubList) /\ m_HubList # <<>>
      BY <1>4 DEF HandleEvent
    <2>2. /\ g[i] = m_HubList[i + 1] /\ i + 1 \in 1 .. Len(m_HubList)
          /\ g[j] = m_HubList[j + 1] /\ j + 1 \in 1 .. Len(m_HubList)
      BY <1>0, <2>1
    <2>3. i + 1 = j + 1
      BY <1>1, <2>2
    <2> QED
      BY <2>3
  <1>5. ASSUME NEW t \in Places, NEW mark \in BOOLEAN, Delete(t, mark) PROVE i = j
    <2>1. g = Orphaned(t)
      BY <1>5, DeleteFacts
    <2> QED
      BY <1>1, <2>1, OrphanedFacts
  <1> QED
    BY <1>2, <1>3, <1>4, <1>5, ListSteps

\* A new request is made for a hub that nobody is at work on and that has no
\* event: by the one that was at work on it, or at its start.
LEMMA NewRequest ==
    ASSUME TreeInv, [Next]_vars, failed' = "none", NEW s, s \in request', s \notin request
    PROVE  ~Working(s)' /\ ~Reported(s)'
  <1>0. failed = "none"
    BY FailedStays
  <1>1. ~\E k \in Sockets : Unplug(k)
    BY DEF Unplug
  <1>2. ~\E x \in Tree : StatusChange(x) \/ RequestFails(x)
    BY DEF StatusChange, RequestFails
  <1>3. CASE PortsDone \/ BootEnds
    <2>1. /\ stack # <<>> /\ Frame = stack[1] /\ stack' = <<>> /\ Frame.hub \in Tree
          /\ BootEnds => Frame.hub = <<>>
          /\ UNCHANGED <<m_HubList, m_pDevice>>
      BY <1>3, WorkDone
    <2>2. s = Frame.hub
      BY <1>3, <2>1 DEF PortsDone, BootEnds
    <2>3. ~Working(s)'
      BY <2>1 DEF Working
    <2>4. Working(s) /\ s \in Tree
      BY <2>1, <2>2 DEF Working
    <2>5. ~Reported(s)
      BY <1>0, <2>4 DEF TreeInv, OneWatch
    <2>6. ~Reported(s)'
      BY <2>1, <2>5 DEF Reported
    <2> QED
      BY <2>3, <2>6
  <1>4. CASE ReturnToConfigure /\ HubStarts /\
             request' = IF Reaches(Frame.hub) THEN request \union {Frame.hub} ELSE request
    <2>1. /\ s = Frame.hub /\ s \in Places /\ s # <<>> /\ m_pDevice[s].state = "configuring"
      BY <1>4, ConfiguredHub, PlaceNotBoard
    <2>2. ~Reported(s)
      BY <2>1, ReportedHub DEF Configured
    <2>3. UNCHANGED m_HubList
      BY <1>4 DEF ReturnToConfigure, HubStarts, HubFails, BackToConfigure
    <2>4. ~Reported(s)'
      BY <2>2, <2>3 DEF Reported
    <2>5. ~Working(s)'
      <3>1. SUFFICES ASSUME stack' # <<>>, stack'[1].hub = s PROVE FALSE
        BY DEF Working
      <3>2. stack' \in Seq(Frames)
        BY ShapeNext DEF Shape
      <3>3. 1 \in 1 .. Len(stack')
        BY <3>1, <3>2, EmptySeq
      <3> QED
        BY <1>4, <2>1, <3>1, <3>3, ReturnHubs
    <2> QED
      BY <2>4, <2>5
  <1> QED
    BY <1>1, <1>2, <1>3, <1>4, RequestSteps

LEMMA WatchApartNext ==
    ASSUME TreeInv, [Next]_vars, failed' = "none", NEW s \in Tree
    PROVE  /\ ~(s \in request' /\ Working(s)')
           /\ ~(s \in request' /\ Reported(s)')
           /\ ~(Working(s)' /\ Reported(s)')
  <1>1. failed = "none"
    BY FailedStays
  <1>2. /\ ~(s \in request /\ Working(s)) /\ ~(s \in request /\ Reported(s))
        /\ ~(Working(s) /\ Reported(s))
    BY <1>1 DEF TreeInv, OneWatch
  <1>3. ASSUME s \in request', Working(s)' PROVE FALSE
    <2>1. s \in request
      BY <1>3, NewRequest
    <2>2. HandleEvent /\ m_HubList[1].hub = s
      BY <1>2, <1>3, <2>1, WorkingBack
    <2> QED
      BY <1>2, <2>1, <2>2, TakenFacts
  <1>4. ASSUME s \in request', Reported(s)' PROVE FALSE
    <2>1. s \in request
      BY <1>4, NewRequest
    <2>2. StatusChange(s)
      BY <1>2, <1>4, <2>1, ReportedBack
    <2> QED
      BY <1>4, <2>2 DEF StatusChange
  <1>5. ASSUME Working(s)', Reported(s)' PROVE FALSE
    <2>1. ~(HandleEvent /\ m_HubList[1].hub = s)
      BY <1>5, TakenFacts
    <2>2. Working(s)
      BY <1>5, <2>1, WorkingBack
    <2>3. StatusChange(s)
      BY <1>2, <1>5, <2>2, ReportedBack
    <2> QED
      BY <1>2, <2>2, <2>3 DEF StatusChange
  <1> QED
    BY <1>3, <1>4, <1>5

LEMMA WatchKeptNext ==
    ASSUME TreeInv, [Next]_vars, failed' = "none", NEW s \in Tree, Monitored(s)',
           s \notin deaf'
    PROVE  s \in request' \/ Working(s)' \/ Reported(s)'
  <1>1. failed = "none"
    BY FailedStays
  <1>2. CASE ReturnToConfigure /\ HubStarts /\ s = Frame.hub /\ Reaches(s)
    BY <1>2 DEF ReturnToConfigure, HubStarts, HubFails, BackToConfigure
  <1>3. CASE Monitored(s)
    <2>0. s \notin deaf
      <3>1. ASSUME HubStarts PROVE s # Frame.hub
        <4>1. Frame.hub \in Places /\ m_pDevice[Frame.hub].state = "configuring"
          BY <3>1, ConfiguredHub DEF ReturnToConfigure
        <4> QED
          BY <1>3, <4>1, PlaceNotBoard DEF Monitored, Configured
      <3>2. ASSUME NEW x \in Tree, RequestFails(x) PROVE deaf \subseteq deaf'
        BY <3>2 DEF RequestFails
      <3> QED
        BY <3>1, <3>2, DeafSteps
    <2>1. s \in request \/ Working(s) \/ Reported(s)
      BY <1>1, <1>3, <2>0 DEF TreeInv, OneWatch, Monitored
    <2>2. CASE s \in request /\ s \notin request'
      <3>1. ASSUME NEW k \in Sockets, Unplug(k) PROVE FALSE
        <4>1. /\ s # <<>> /\ m_pDevice[s].dev \in {plugged[k]} \union Behind(plugged[k])
              /\ UNCHANGED m_pDevice
          BY <2>2, <3>1 DEF Unplug, objects
        <4>2. s \in Places /\ m_pDevice[s] # NULL
          BY <1>3, <4>1 DEF Monitored, IsHub, Tree
        <4>3. m_pDevice[s].dev \in Devices /\ m_pDevice[s].addr # NULL
          BY <4>2, ObjectFacts, NotNull DEF TreeInv
        <4>4. answers'[m_pDevice[s].dev] = NULL
          BY <3>1, <4>1, <4>3 DEF Unplug
        <4> QED
          BY <4>1, <4>3, <4>4 DEF Monitored, Reaches
      <3>2. ASSUME NEW x \in Tree, StatusChange(x) PROVE Reported(s)'
        <4>1. PICK e : e = [hub |-> x, bits |-> Bits(x), deleted |-> FALSE]
          OBVIOUS
        <4>2. PICK g : g = m_HubList'
          OBVIOUS
        <4>3. g = Append(m_HubList, e) /\ e.hub = s /\ ~e.deleted
          BY <2>2, <3>2, <4>1, <4>2 DEF StatusChange
        <4>4. m_HubList \in Seq([hub : Tree, bits : SUBSET Nat, deleted : BOOLEAN])
              /\ Len(m_HubList) \in Nat
          BY LenProperties DEF TreeInv, TypeOK
        <4>5. /\ Len(m_HubList) + 1 \in 1 .. Len(g) /\ g[Len(m_HubList) + 1] = e
          BY <4>3, <4>4
        <4> QED
          BY <4>2, <4>3, <4>5 DEF Reported
      <3>3. ASSUME NEW x \in Tree, RequestFails(x) PROVE FALSE
        BY <2>2, <3>3 DEF RequestFails
      <3> QED
        BY <2>2, <3>1, <3>2, <3>3, RequestSteps
    <2>3. CASE Working(s)
      <3>1. stack # <<>> /\ stack[1].hub = s
        BY <2>3 DEF Working
      <3>2. CASE UNCHANGED stack \/ (stack' # <<>> /\ stack'[1].hub = stack[1].hub)
        BY <3>1, <3>2 DEF Working
      <3>3. CASE PortsDone
        <4>1. Frame.hub = s
          BY <3>1, <3>3, WorkDone
        <4> QED
          BY <1>3, <3>3, <4>1 DEF PortsDone, Monitored
      <3>4. CASE BootEnds
        <4>1. Frame.hub = s /\ s = <<>>
          BY <3>1, <3>4, WorkDone
        <4> QED
          BY <3>4, <4>1 DEF BootEnds
      <3>5. ~HandleEvent
        BY <3>1 DEF HandleEvent
      <3> QED
        BY <3>2, <3>3, <3>4, <3>5, FirstHub
    <2>4. CASE Reported(s)
      <3>1. ~\E t \in Places, mark \in BOOLEAN : Spared(t) /\ Delete(t, mark) /\ s \in Gone(t)
        BY <1>3 DEF Spared, Gone, Monitored
      <3>2. CASE HandleEvent /\ m_HubList[1].hub = s
        BY <3>2, TakenFacts
      <3> QED
        BY <2>4, <3>1, <3>2, ReportedKept
    <2> QED
      BY <2>1, <2>2, <2>3, <2>4
  <1> QED
    BY <1>2, <1>3, MonitoredBack

\* A hub whose request has failed has neither request nor event nor work.
LEMMA DeafNext ==
    ASSUME TreeInv, [Next]_vars, failed' = "none", NEW s \in Tree, Monitored(s)',
           s \in deaf'
    PROVE  s \notin request' /\ ~Working(s)' /\ ~Reported(s)'
  <1>1. failed = "none"
    BY FailedStays
  <1>2. ~(HubStarts /\ s = Frame.hub)
    BY DEF HubStarts
  <1>3. Monitored(s)
    BY <1>2, MonitoredBack
  <1>4. /\ ~(s \in request /\ Working(s)) /\ ~(s \in request /\ Reported(s))
        /\ ~(Working(s) /\ Reported(s))
        /\ s \in deaf => s \notin request /\ ~Working(s) /\ ~Reported(s)
    BY <1>1, <1>3 DEF TreeInv, OneWatch, Monitored
  <1>5. ASSUME PortsDone \/ BootEnds, s = Frame.hub PROVE Working(s)
    BY <1>5, WorkDone DEF Working
  <1>6. CASE s \in deaf
    <2>1. ASSUME s \in request' PROVE FALSE
      <3>1. ASSUME NEW x \in Tree, StatusChange(x) \/ RequestFails(x) PROVE FALSE
        BY <1>4, <1>6, <2>1, <3>1 DEF StatusChange, RequestFails
      <3>2. ASSUME NEW k \in Sockets, Unplug(k) PROVE FALSE
        BY <1>4, <1>6, <2>1, <3>2 DEF Unplug
      <3>3. BootEnds => Frame.hub = <<>>
        BY WorkDone
      <3> QED
        BY <1>2, <1>4, <1>5, <1>6, <2>1, <3>1, <3>2, <3>3, RequestSteps
    <2>2. ASSUME Working(s)' PROVE FALSE
      BY <1>4, <1>6, <2>2, WorkingBack, TakenFacts
    <2>3. ASSUME Reported(s)' PROVE FALSE
      BY <1>4, <1>6, <2>3, ReportedBack DEF StatusChange
    <2> QED
      BY <2>1, <2>2, <2>3
  <1>7. CASE s \notin deaf
    <2>1. CASE PortsDone /\ UNCHANGED request /\ s = Frame.hub
      <3>1. stack' = <<>> /\ UNCHANGED m_HubList
        BY <2>1, WorkDone
      <3>2. s \notin request /\ ~Reported(s)
        BY <1>4, <1>5, <2>1
      <3> QED
        BY <2>1, <3>1, <3>2 DEF Working, Reported
    <2>2. CASE RequestFails(s)
      <3>1. s \in request /\ s \notin request' /\ UNCHANGED <<stack, m_HubList>>
        BY <2>2 DEF RequestFails
      <3>2. ~Working(s) /\ ~Reported(s)
        BY <1>4, <3>1
      <3> QED
        BY <3>1, <3>2 DEF Working, Reported
    <2>3. ASSUME NEW x \in Tree, RequestFails(x), x # s PROVE s \notin deaf'
      BY <1>7, <2>3 DEF RequestFails
    <2> QED
      BY <1>7, <2>1, <2>2, <2>3, DeafSteps
  <1> QED
    BY <1>6, <1>7

LEMMA OneWatchNext == ASSUME TreeInv, [Next]_vars PROVE OneWatch'
  <1>1. PICK g : g = m_HubList'
    OBVIOUS
  <1>2. SUFFICES ASSUME failed' = "none"
        PROVE  /\ \A i, j \in 1 .. Len(g) :
                      g[i].hub = g[j].hub /\ ~g[i].deleted /\ ~g[j].deleted => i = j
               /\ \A s \in Tree :
                      /\ ~(s \in request' /\ Working(s)')
                      /\ ~(s \in request' /\ Reported(s)')
                      /\ ~(Working(s)' /\ Reported(s)')
               /\ \A s \in Tree : Monitored(s)' =>
                      (s \in request' \/ Working(s)' \/ Reported(s)' <=> s \notin deaf')
    BY <1>1 DEF OneWatch, Monitored
  <1>3. failed = "none"
    BY <1>2, FailedStays
  <1>4. \A i, j \in 1 .. Len(g) :
            g[i].hub = g[j].hub /\ ~g[i].deleted /\ ~g[j].deleted => i = j
    BY <1>1, <1>3, OneEventNext
  <1> QED
    BY <1>2, <1>4, WatchApartNext, WatchKeptNext, DeafNext

-----------------------------------------------------------------------------
(* Types                                                                   *)

Scalars ==
    /\ updating \in BOOLEAN /\ failed \in {"none", "boot", "panic", "freed", "collision"}
    /\ moves \in 0 .. MaxMoves /\ faults \in 0 .. MaxFaults

LEMMA ScalarsNext == ASSUME Scalars, [Next]_vars PROVE Scalars'
  <1>0. MaxMoves \in Nat /\ MaxFaults \in Nat
    BY UsbAssumption
  <1>1. Fault => /\ faults' \in 0 .. MaxFaults /\ moves' = moves
    BY <1>0 DEF Fault, Scalars
  <1>2. NoFault => UNCHANGED <<moves, faults>>
    BY DEF NoFault, bounds
  <1>3. CASE LoopOver
    BY <1>1, <1>2, <1>3 DEF LoopOver, Scalars
  <1>4. CASE Rescan \/ EmptyPort \/ SkipPort \/ ConfigureKeyboard \/ ConfigureHub
    BY <1>4 DEF Rescan, EmptyPort, SkipPort, ConfigureKeyboard, ConfigureHub, bounds, Scalars
  <1>5. ASSUME NEW a, Addressed(a)
        PROVE  /\ updating' \in BOOLEAN
               /\ failed' \in {"none", "boot", "panic", "freed", "collision"}
    BY <1>5 DEF Addressed, Scalars
  <1>6. CASE Initialize
    BY <1>5, <1>6 DEF Initialize, bounds, Scalars
  <1>7. CASE InitializeFails \/ DetectAborts
    BY <1>1, <1>5, <1>7 DEF InitializeFails, DetectAborts, Scalars
  <1>8. CASE ConfigureFails
    BY <1>1, <1>2, <1>8 DEF ConfigureFails, Scalars
  <1>9. CASE ReturnToHandler \/ ReturnToConfigure \/ BootEnds
    BY <1>1, <1>2, <1>9 DEF ReturnToHandler, ReturnToConfigure, HubStarts, HubFails,
       BackToConfigure, BootEnds, bounds, Scalars
  <1>10. CASE HandleEvent \/ StatusFails \/ PortsDone \/ UpdateEnd
    BY <1>1, <1>2, <1>10 DEF HandleEvent, StatusFails, PortsDone, UpdateEnd, bounds, Scalars
  <1>11. CASE PortConnected \/ PortRemoved
    BY <1>11 DEF PortConnected, PortRemoved, PortStatus, bounds, Scalars
  <1>12. CASE PortKept
    BY <1>1, <1>2, <1>12 DEF PortKept, PortStatus, Scalars
  <1>13. Move => /\ moves' \in 0 .. MaxMoves /\ faults' = faults
    BY <1>0 DEF Move, Scalars
  <1>14. ASSUME NEW d \in Devices, NEW k \in Sockets, Plug(d, k) PROVE Scalars'
    BY <1>13, <1>14 DEF Plug, Scalars
  <1>15. ASSUME NEW k \in Sockets, Unplug(k) PROVE Scalars'
    BY <1>13, <1>15 DEF Unplug, Scalars
  <1>16. ASSUME NEW s \in Tree, StatusChange(s) \/ RequestFails(s) PROVE Scalars'
    BY <1>1, <1>16 DEF StatusChange, RequestFails, bounds, Scalars
  <1>17. CASE UNCHANGED vars
    BY <1>17 DEF vars, bounds, Scalars
  <1> QED
    BY <1>3, <1>4, <1>6, <1>7, <1>8, <1>9, <1>10, <1>11, <1>12, <1>14, <1>15, <1>16, <1>17
       DEF Next, Task

LEMMA AnswersTypeNext ==
    ASSUME TreeInv, [Next]_vars PROVE answers' \in [Devices -> Numbers \union {0, NULL}]
  <1>0. answers \in [Devices -> Numbers \union {0, NULL}]
    BY DEF TreeInv, TypeOK
  <1>1. CASE UNCHANGED answers
    BY <1>0, <1>1
  <1>2. CASE Initialize
    BY <1>2, Started DEF Addressed, NewAnswers
  <1>3. CASE InitializeFails \/ DetectAborts
    BY <1>3, FailedStart DEF Addressed, NewAnswers
  <1>4. ASSUME NEW d \in Devices, NEW k \in Sockets, Plug(d, k) PROVE UNCHANGED answers
    BY <1>4 DEF Plug
  <1>5. ASSUME NEW k \in Sockets, Unplug(k)
        PROVE  answers' \in [Devices -> Numbers \union {0, NULL}]
    BY <1>0, <1>5 DEF Unplug
  <1> QED
    BY <1>1, <1>2, <1>3, <1>4, <1>5, PhysicalSteps

LEMMA ChangeTypeNext ==
    ASSUME TypeOK, [Next]_vars PROVE change' \subseteq Sockets
  <1>0. change \subseteq Sockets
    BY DEF TypeOK
  <1>1. CASE LoopOver \/ Rescan \/ EmptyPort \/ SkipPort \/ ConfigureKeyboard
    BY <1>0, <1>1 DEF LoopOver, Rescan, EmptyPort, SkipPort, ConfigureKeyboard, physical
  <1>2. CASE ConfigureFails \/ ReturnToHandler \/ ReturnToConfigure \/ BootEnds \/ HandleEvent
    BY <1>0, <1>2 DEF ConfigureFails, ReturnToHandler, ReturnToConfigure, HubStarts, HubFails,
       BackToConfigure, BootEnds,
       HandleEvent, physical
  <1>3. CASE StatusFails \/ PortConnected \/ PortRemoved \/ PortKept \/ PortsDone \/ UpdateEnd
    BY <1>0, <1>3 DEF StatusFails, PortConnected, PortRemoved, PortKept, PortStatus,
       PortsDone, UpdateEnd, physical
  <1>4. CASE Initialize \/ InitializeFails \/ DetectAborts
    BY <1>0, <1>4 DEF Initialize, InitializeFails, DetectAborts, Addressed
  <1>5. CASE ConfigureHub
    BY <1>0, <1>5 DEF ConfigureHub, Filled, SocketsOf
  <1>6. ASSUME NEW d \in Devices, NEW k \in Sockets, Plug(d, k) PROVE change' \subseteq Sockets
    BY <1>0, <1>6 DEF Plug
  <1>7. ASSUME NEW k \in Sockets, Unplug(k) PROVE change' \subseteq Sockets
    BY <1>0, <1>7 DEF Unplug
  <1>8. ASSUME NEW s \in Tree, StatusChange(s) \/ RequestFails(s)
        PROVE  change' \subseteq Sockets
    BY <1>0, <1>8 DEF StatusChange, RequestFails, physical
  <1>9. CASE UNCHANGED vars
    BY <1>0, <1>9 DEF vars, physical
  <1> QED
    BY <1>1, <1>2, <1>3, <1>4, <1>5, <1>6, <1>7, <1>8, <1>9 DEF Next, Task

LEMMA RegisterTypes ==
    ASSUME TreeInv, ToConfigure, NEW prefix \in NamePrefixes, Register(Here, prefix)
    PROVE  /\ pools' \in [NamePrefixes \union {"addr"} -> SUBSET Numbers]
           /\ names' \subseteq [prefix : NamePrefixes, number : Numbers, place : Tree]
  <1>1. Here \in Tree /\ Here \in Places /\ Here \notin Named
    BY ToConfigureFacts DEF Tree
  <1>2. PICK n \in Numbers : n = AllocateNumber(prefix)
    BY <1>1, FreeName
  <1>3. /\ pools' = [pools EXCEPT ![prefix] = @ \union {n}]
        /\ names' = names \union {[prefix |-> prefix, number |-> n, place |-> Here]}
    BY <1>2 DEF Register
  <1>4. /\ pools \in [NamePrefixes \union {"addr"} -> SUBSET Numbers]
        /\ names \subseteq [prefix : NamePrefixes, number : Numbers, place : Tree]
    BY DEF TreeInv, TypeOK
  <1> QED
    BY <1>1, <1>3, <1>4

ObjectTypes ==
    /\ m_pDevice \in [Places -> Objects \union {NULL}]
    /\ m_bPortConfigured \in [Places -> BOOLEAN]
    /\ pools \in [NamePrefixes \union {"addr"} -> SUBSET Numbers]
    /\ names \subseteq [prefix : NamePrefixes, number : Numbers, place : Tree]

LEMMA ObjectTypesNext == ASSUME TreeInv, [Next]_vars PROVE ObjectTypes'
  <1>0. ObjectTypes
    BY DEF TreeInv, TypeOK, ObjectTypes
  <1>1. CASE UNCHANGED <<m_pDevice, m_bPortConfigured, pools, names>>
    BY <1>0, <1>1 DEF ObjectTypes
  <1>2. CASE Initialize
    <2>1. UNCHANGED <<m_bPortConfigured, names>>
      BY <1>2 DEF Initialize
    <2>2. PICK n \in Numbers \ pools["addr"] :
               /\ pools' = [pools EXCEPT !["addr"] = @ \union {n}]
               /\ m_pDevice' = [m_pDevice EXCEPT ![Here] =
                      [dev |-> At(Here), addr |-> n, state |-> "initialised"]]
               /\ [dev |-> At(Here), addr |-> n, state |-> "initialised"] \in Objects
      BY <1>2, InitializeFacts
    <2>3. m_pDevice' \in [Places -> Objects \union {NULL}]
      BY <1>0, <2>2 DEF ObjectTypes
    <2>4. pools' \in [NamePrefixes \union {"addr"} -> SUBSET Numbers]
      BY <1>0, <2>2 DEF ObjectTypes
    <2> QED
      BY <1>0, <2>1, <2>3, <2>4 DEF ObjectTypes
  <1>3. ASSUME ConfigureKeyboard \/ ConfigureHub \/ (ReturnToConfigure /\ HubStarts)
        PROVE  m_pDevice' \in [Places -> Objects \union {NULL}]
    <2>1. PICK p \in Places, st \in {"configuring", "configured"} :
               m_pDevice' = [m_pDevice EXCEPT ![p].state = st] /\ m_pDevice'[p] \in Objects
      BY <1>3, StateChanges
    <2>2. m_pDevice'[p] = [m_pDevice[p] EXCEPT !.state = st]
      BY <1>0, <2>1 DEF ObjectTypes
    <2>3. [m_pDevice[p] EXCEPT !.state = st] \in Objects
      BY <2>1, <2>2
    <2> QED
      BY <1>0, <2>1, <2>3 DEF ObjectTypes
  <1>4. CASE ConfigureKeyboard \/ ConfigureHub
    <2>1. PICK prefix \in NamePrefixes :
              /\ ToConfigure /\ Register(Here, prefix)
              /\ m_bPortConfigured' = [m_bPortConfigured EXCEPT ![Here] = TRUE]
      BY <1>4 DEF ConfigureKeyboard, ConfigureHub, NamePrefixes
    <2>2. m_bPortConfigured' \in [Places -> BOOLEAN]
      BY <1>0, <2>1 DEF ObjectTypes
    <2> QED
      BY <1>3, <1>4, <2>1, <2>2, RegisterTypes DEF ObjectTypes
  <1>5. CASE ReturnToConfigure /\ HubStarts
    <2>1. UNCHANGED <<m_bPortConfigured, pools, names>>
      BY <1>5 DEF ReturnToConfigure, HubStarts, HubFails, BackToConfigure
    <2> QED
      BY <1>0, <1>3, <1>5, <2>1 DEF ObjectTypes
  <1>6. ASSUME NEW t \in Places, NEW mark \in BOOLEAN, Delete(t, mark) PROVE ObjectTypes'
    <2>1. /\ m_pDevice' = [x \in Places |-> IF x \in Below(t) THEN NULL ELSE m_pDevice[x]]
          /\ m_bPortConfigured' = [x \in Places |->
                 IF x = t THEN mark ELSE m_bPortConfigured[x] /\ x \notin Below(t)]
          /\ names' = names \ NamesOf(t)
      BY <1>6 DEF Delete, DeleteObjects, FreeNumbers
    <2>2. PICK taken : pools' = [p \in DOMAIN pools |-> pools[p] \ taken[p]]
      <3>1. pools' = [p \in DOMAIN pools |-> pools[p] \
              (IF p = "addr" THEN {m_pDevice[x].addr : x \in Gone(t)}
               ELSE {n.number : n \in {m \in NamesOf(t) : m.prefix = p}})]
        BY <1>6 DEF Delete, FreeNumbers
      <3>2. PICK f : f = [p \in DOMAIN pools |->
              IF p = "addr" THEN {m_pDevice[x].addr : x \in Gone(t)}
              ELSE {n.number : n \in {m \in NamesOf(t) : m.prefix = p}}]
        OBVIOUS
      <3> QED
        BY <3>1, <3>2
    <2>3. pools' \in [NamePrefixes \union {"addr"} -> SUBSET Numbers]
      BY <1>0, <2>2 DEF ObjectTypes
    <2>4. m_pDevice' \in [Places -> Objects \union {NULL}]
      BY <1>0, <2>1 DEF ObjectTypes
    <2>5. m_bPortConfigured' \in [Places -> BOOLEAN]
      BY <2>1
    <2> QED
      BY <1>0, <2>1, <2>3, <2>4, <2>5 DEF ObjectTypes
  <1> QED
    BY <1>1, <1>2, <1>4, <1>5, <1>6, ObjectSteps

LEMMA ListTypeNext ==
    ASSUME TreeInv, [Next]_vars
    PROVE  m_HubList' \in Seq([hub : Tree, bits : SUBSET Nat, deleted : BOOLEAN])
  <1>0. m_HubList \in Seq([hub : Tree, bits : SUBSET Nat, deleted : BOOLEAN])
    BY DEF TreeInv, TypeOK
  <1>1. ASSUME NEW s \in Tree, StatusChange(s)
        PROVE  m_HubList' \in Seq([hub : Tree, bits : SUBSET Nat, deleted : BOOLEAN])
    <2>1. failed = "none" /\ s \in request
      BY <1>1 DEF StatusChange
    <2>2. s \in HubPlaces
      BY <2>1, HubObject DEF TreeInv, Requests, Tree, HubPlaces
    <2>3. Bits(s) \subseteq Nat
      <3>1. NPorts(s) \in Nat
        BY Ports DEF NPorts
      <3> QED
        BY <2>2, <3>1, PortsAre DEF Bits
    <2>4. PICK e : e = [hub |-> s, bits |-> Bits(s), deleted |-> FALSE]
      OBVIOUS
    <2>5. e \in [hub : Tree, bits : SUBSET Nat, deleted : BOOLEAN]
      BY <2>3, <2>4
    <2>6. m_HubList' = Append(m_HubList, e)
      BY <1>1, <2>4 DEF StatusChange
    <2> QED
      BY <1>0, <2>5, <2>6, AppendProperties
  <1>2. CASE HandleEvent
    <2>1. m_HubList' = Tail(m_HubList) /\ m_HubList # <<>>
      BY <1>2 DEF HandleEvent
    <2> QED
      BY <1>0, <2>1, HeadTailProperties
  <1>3. ASSUME NEW t \in Places, NEW mark \in BOOLEAN, Delete(t, mark)
        PROVE  m_HubList' \in Seq([hub : Tree, bits : SUBSET Nat, deleted : BOOLEAN])
    BY <1>3, DeleteFacts, OrphanedFacts
  <1> QED
    BY <1>0, <1>1, <1>2, <1>3, ListSteps

LEMMA RequestTypeNext == ASSUME TreeInv, [Next]_vars PROVE request' \subseteq Tree
  <1>0. request \subseteq Tree
    BY DEF TreeInv, TypeOK
  <1>1. <<>> \in Tree
    BY DEF Tree
  <1>2. ReturnToConfigure => Frame.hub \in Tree
    BY ConfiguredHub DEF Tree
  <1>3. PortsDone => Frame.hub \in Tree
    BY WorkDone
  <1>4. ASSUME NEW k \in Sockets, Unplug(k) PROVE request' \subseteq request
    BY <1>4 DEF Unplug
  <1>5. ASSUME NEW s \in Tree, StatusChange(s) \/ RequestFails(s) PROVE request' \subseteq request
    BY <1>5 DEF StatusChange, RequestFails
  <1> QED
    BY <1>0, <1>1, <1>2, <1>3, <1>4, <1>5, RequestSteps

LEMMA DeafTypeNext == ASSUME TreeInv, [Next]_vars PROVE deaf' \subseteq Tree
  <1>1. deaf \subseteq Tree
    BY DEF TreeInv, TypeOK
  <1>2. PortsDone => Frame.hub \in Tree
    BY WorkDone
  <1>3. ASSUME NEW s \in Tree, RequestFails(s) PROVE deaf' \subseteq Tree
    BY <1>1, <1>3 DEF RequestFails
  <1> QED
    BY <1>1, <1>2, <1>3, DeafSteps

LEMMA InputTypeNext == ASSUME TreeInv, [Next]_vars PROVE m_pInputDevice' \subseteq Places
  <1>0. m_pInputDevice \subseteq Places
    BY DEF TreeInv, TypeOK
  <1>1. CASE UNCHANGED m_pInputDevice
    BY <1>0, <1>1
  <1>2. CASE UpdateEnd
    <2>1. ASSUME NEW n \in names, n.prefix = "ukbd" PROVE n.place \in Places
      <3>1. n.place \in Tree /\ ~IsHub(n.place)
        BY <2>1 DEF TreeInv, TypeOK, NamesExact
      <3> QED
        BY <3>1 DEF IsHub, Tree
    <2>2. Ukbd1 \subseteq Places
      BY <2>1 DEF Ukbd1
    <2> QED
      BY <1>0, <1>2, <2>2 DEF UpdateEnd
  <1>3. ASSUME NEW t, NEW mark, Delete(t, mark) PROVE m_pInputDevice' \subseteq Places
    BY <1>0, <1>3 DEF Delete, TellConsole
  <1>4. CASE LoopOver \/ Rescan \/ EmptyPort \/ InitializeFails \/ DetectAborts \/ SkipPort
    BY <1>1, <1>4 DEF LoopOver, Rescan, EmptyPort, InitializeFails, DetectAborts, SkipPort, objects
  <1>5. CASE ReturnToHandler \/ BootEnds \/ HandleEvent \/ StatusFails
    BY <1>1, <1>5 DEF ReturnToHandler, BootEnds, HandleEvent, StatusFails, objects
  <1>6. CASE PortConnected \/ PortKept \/ PortsDone \/ UNCHANGED vars
    BY <1>1, <1>6 DEF PortConnected, PortKept, PortsDone, vars, objects
  <1>7. CASE Initialize \/ ConfigureKeyboard \/ ConfigureHub
    BY <1>1, <1>7 DEF Initialize, ConfigureKeyboard, ConfigureHub
  <1>8. CASE ConfigureFails \/ PortRemoved
    BY <1>3, <1>8 DEF ConfigureFails, PortRemoved
  <1>9. CASE ReturnToConfigure
    BY <1>1, <1>3, <1>9 DEF ReturnToConfigure, HubStarts, HubFails, BackToConfigure
  <1>10. ASSUME NEW d \in Devices, NEW k \in Sockets, Plug(d, k) PROVE UNCHANGED m_pInputDevice
    BY <1>10 DEF Plug, objects
  <1>11. ASSUME NEW k \in Sockets, Unplug(k) PROVE UNCHANGED m_pInputDevice
    BY <1>11 DEF Unplug, objects
  <1>12. ASSUME NEW s \in Tree, StatusChange(s) \/ RequestFails(s)
         PROVE  UNCHANGED m_pInputDevice
    BY <1>12 DEF StatusChange, RequestFails, objects
  <1> QED
    BY <1>1, <1>2, <1>4, <1>5, <1>6, <1>7, <1>8, <1>9, <1>10, <1>11, <1>12 DEF Next, Task

LEMMA SpoiledTypeNext == ASSUME TreeInv, [Next]_vars PROVE spoiled' \subseteq Places
  <1>0. spoiled \subseteq Places
    BY DEF TreeInv, TypeOK
  <1>1. CASE UNCHANGED spoiled
    BY <1>0, <1>1
  <1>2. CASE LoopOver
    BY <1>1, <1>2 DEF LoopOver
  <1>3. CASE InitializeFails
    <2>1. Here \in Places
      BY <1>3, NewDeviceFacts DEF InitializeFails
    <2> QED
      BY <1>0, <1>3, <2>1 DEF InitializeFails
  <1>4. CASE DetectAborts
    BY <1>0, <1>4 DEF DetectAborts, PortsOf
  <1>5. CASE ConfigureFails
    <2>1. Here \in Places
      BY <1>5, ToConfigureFacts DEF ConfigureFails
    <2> QED
      BY <1>0, <1>5, <2>1 DEF ConfigureFails
  <1>6. CASE ReturnToConfigure
    <2>1. Frame.hub \in Places
      BY <1>6, ConfiguredHub
    <2> QED
      BY <1>0, <1>6, <2>1 DEF ReturnToConfigure, HubStarts, HubFails, BackToConfigure
  <1>7. CASE PortRemoved
    BY <1>0, <1>7 DEF PortRemoved
  <1>8. CASE PortKept
    <2>1. Port \in Places
      BY <1>8, PortIs DEF PortKept, PortStatus, InLoop, TreeInv
    <2> QED
      BY <1>0, <1>8, <2>1 DEF PortKept
  <1>9. CASE Rescan \/ EmptyPort \/ SkipPort \/ Initialize \/ ConfigureKeyboard \/ ConfigureHub
    BY <1>1, <1>9 DEF Rescan, EmptyPort, SkipPort, Initialize, ConfigureKeyboard, ConfigureHub
  <1>10. CASE ReturnToHandler \/ BootEnds \/ HandleEvent \/ StatusFails
    BY <1>1, <1>10 DEF ReturnToHandler, BootEnds, HandleEvent, StatusFails
  <1>11. CASE PortConnected \/ PortsDone \/ UpdateEnd \/ UNCHANGED vars
    BY <1>1, <1>11 DEF PortConnected, PortsDone, UpdateEnd, vars
  <1>12. ASSUME NEW d \in Devices, NEW k \in Sockets, Plug(d, k) PROVE spoiled' \subseteq Places
    BY <1>0, <1>12 DEF Plug
  <1>13. ASSUME NEW k \in Sockets, Unplug(k) PROVE UNCHANGED spoiled
    BY <1>13 DEF Unplug
  <1>14. ASSUME NEW s \in Tree, StatusChange(s) \/ RequestFails(s) PROVE UNCHANGED spoiled
    BY <1>14 DEF StatusChange, RequestFails
  <1> QED
    BY <1>1, <1>2, <1>3, <1>4, <1>5, <1>6, <1>7, <1>8, <1>9, <1>10, <1>11, <1>12, <1>13, <1>14
       DEF Next, Task

LEMMA TypeOKNext == ASSUME TreeInv, [Next]_vars PROVE TypeOK'
  <1>1. TypeOK /\ Scalars
    BY DEF TreeInv, TypeOK, Scalars
  <1>2. plugged' \in [Sockets -> Devices \union {NULL}]
    BY WiredNext DEF TreeInv, Wired
  <1>3. answers' \in [Devices -> Numbers \union {0, NULL}] /\ change' \subseteq Sockets
    BY <1>1, AnswersTypeNext, ChangeTypeNext
  <1>4. stack' \in Seq(Frames)
    BY ShapeNext DEF Shape
  <1>5. ObjectTypes' /\ Scalars'
    BY <1>1, ObjectTypesNext, ScalarsNext
  <1> QED
    BY <1>2, <1>3, <1>4, <1>5, ListTypeNext, RequestTypeNext, DeafTypeNext, InputTypeNext,
       SpoiledTypeNext DEF TypeOK, ObjectTypes, Scalars

LEMMA TreeNext == ASSUME TreeInv, [Next]_vars PROVE TreeInv'
  <1>1. TypeOK' /\ Wired' /\ Shape' /\ EventsFit' /\ ObjectsFit'
    BY TypeOKNext, WiredNext, ShapeNext, EventsFitNext, ObjectsFitNext DEF TreeInv
  <1>2. FramesLive' /\ Requests' /\ InPlace' /\ Apart'
    BY FramesLiveNext, RequestsNext, InPlaceNext, ApartNext
  <1>3. AddressesExact' /\ NamesExact' /\ OneWatch'
    BY AddressesExactNext, NamesExactNext, OneWatchNext
  <1> QED
    BY <1>1, <1>2, <1>3 DEF TreeInv

LEMMA TreeInit == ASSUME Init PROVE TreeInv /\ Owned
  <1>0. /\ \A x \in Places : m_pDevice[x] = NULL
        /\ \A d \in Devices : answers[d] = NULL
        /\ failed = "none" /\ request = {} /\ deaf = {} /\ m_HubList = <<>> /\ Len(m_HubList) = 0
        /\ <<>> \in Tree /\ <<>> \in HubPlaces /\ Present = {} /\ Named = {<<>>}
    <2>1. m_pDevice = [s \in Places |-> NULL] /\ answers = [d \in Devices |-> NULL]
      BY DEF Init
    <2>2. Present = {}
      BY <2>1 DEF Present
    <2>3. <<>> \in Tree /\ Len(<<>>) = 0
      BY EmptySeq DEF Tree
    <2>4. <<>> \in HubPlaces
      BY <2>3 DEF HubPlaces
    <2>5. Named = {<<>>}
      BY <2>2 DEF Named
    <2> QED
      BY <2>1, <2>2, <2>3, <2>4, <2>5 DEF Init
  <1>1. PICK f : f = Enumerate(<<>>)
    OBVIOUS
  <1>2. /\ f \in Frames /\ Sound(f) /\ f.hub = <<>> /\ f.loop = "detect"
    BY <1>0, <1>1, EnumerateFrame
  <1>3. stack = <<f>>
    BY <1>1 DEF Init
  <1>4. stack \in Seq(Frames) /\ Len(stack) = 1 /\ stack[1] = f /\ stack # <<>>
    BY <1>2, <1>3
  <1>5. Shape
    BY <1>2, <1>4 DEF Shape
  <1>6. Wired
    <2>1. /\ plugged \in [Sockets -> Devices \union {NULL}]
          /\ \A k, x \in Sockets : k # x /\ plugged[k] # NULL => plugged[k] # plugged[x]
          /\ \A k \in Sockets : plugged[k] \in Hubs => k[1] = Board
      BY DEF Init
    <2> QED
      BY <2>1 DEF Wired
  <1>7. TypeOK
    <2>1. /\ plugged \in [Sockets -> Devices \union {NULL}]
          /\ answers \in [Devices -> Numbers \union {0, NULL}]
          /\ change \subseteq Sockets
      BY DEF Init, Filled, SocketsOf
    <2>2. /\ m_pDevice \in [Places -> Objects \union {NULL}]
          /\ m_bPortConfigured \in [Places -> BOOLEAN]
          /\ request \subseteq Tree /\ m_pInputDevice \subseteq Places
          /\ updating \in BOOLEAN /\ deaf \subseteq Tree /\ spoiled \subseteq Places
          /\ failed \in {"none", "boot", "panic", "freed", "collision"}
      BY DEF Init
    <2>3. m_HubList \in Seq([hub : Tree, bits : SUBSET Nat, deleted : BOOLEAN])
      BY <1>0
    <2>4. pools \in [NamePrefixes \union {"addr"} -> SUBSET Numbers]
      <3>1. pools = [p \in NamePrefixes \union {"addr"} |-> IF p = "ukbd" THEN {} ELSE {1}]
        BY DEF Init
      <3> QED
        BY <3>1, NumbersAre
    <2>5. names \subseteq [prefix : NamePrefixes, number : Numbers, place : Tree]
      <3>1. names = {[prefix |-> "uhub", number |-> 1, place |-> <<>>]}
        BY DEF Init
      <3>2. "uhub" \in NamePrefixes /\ 1 \in Numbers
        BY NumbersAre DEF NamePrefixes
      <3> QED
        BY <1>0, <3>1, <3>2
    <2>6. moves \in 0 .. MaxMoves /\ faults \in 0 .. MaxFaults
      BY UsbAssumption DEF Init
    <2> QED
      BY <1>4, <2>1, <2>2, <2>3, <2>4, <2>5, <2>6 DEF TypeOK
  <1>8. EventsFit /\ ObjectsFit /\ Requests
    BY <1>0 DEF EventsFit, ObjectsFit, Requests
  <1>9. IsHub(<<>>) /\ Configured(<<>>)
    BY DEF IsHub, Configured
  <1>10. FramesLive
    BY <1>2, <1>4, <1>9 DEF FramesLive
  <1>11. ASSUME NEW x \in Places, IsHub(x) \/ Reaches(x) \/ Configured(x) PROVE FALSE
    BY <1>0, <1>11, PlaceNotBoard DEF IsHub, Reaches, Configured
  <1>12. InPlace
    BY <1>11 DEF InPlace
  <1>13. Apart
    BY <1>0 DEF Apart, Collide
  <1>14. AddressesExact
    <2>1. pools = [p \in NamePrefixes \union {"addr"} |-> IF p = "ukbd" THEN {} ELSE {1}]
      BY DEF Init
    <2>2. pools["addr"] = {1}
      BY <2>1
    <2> QED
      BY <1>0, <2>2 DEF AddressesExact
  <1>15. NamesExact
    <2>1. PICK o : o = [prefix |-> "uhub", number |-> 1, place |-> <<>>]
      OBVIOUS
    <2>2. names = {o} /\ o.prefix = "uhub" /\ o.number = 1 /\ o.place = <<>>
      BY <2>1 DEF Init
    <2>3. pools = [p \in NamePrefixes \union {"addr"} |-> IF p = "ukbd" THEN {} ELSE {1}]
      BY DEF Init
    <2>4. \A p \in NamePrefixes : pools[p] = {n.number : n \in {m \in names : m.prefix = p}}
      <3>1. pools["uhub"] = {1} /\ pools["ukbd"] = {}
        BY <2>3 DEF NamePrefixes
      <3>2. {n.number : n \in {m \in names : m.prefix = "uhub"}} = {1}
        BY <2>2
      <3>3. {n.number : n \in {m \in names : m.prefix = "ukbd"}} = {}
        BY <2>2
      <3> QED
        BY <3>1, <3>2, <3>3 DEF NamePrefixes
    <2>5. {n.place : n \in names} = Named
      BY <1>0, <2>2
    <2> QED
      BY <1>9, <2>2, <2>4, <2>5 DEF NamesExact
  <1>16. OneWatch
    <2>1. \A s \in Tree : ~Reported(s) /\ (Working(s) <=> s = <<>>)
      BY <1>0, <1>2, <1>4 DEF Reported, Working
    <2>2. \A s \in Tree : IsHub(s) => s = <<>>
      BY <1>11 DEF Tree
    <2> QED
      BY <1>0, <2>1, <2>2 DEF OneWatch
  <1>17. Owned
    BY <1>0, <1>2, <1>4 DEF Owned, OwnAnswers, OnlyGoneFail, Init
  <1> QED
    BY <1>5, <1>6, <1>7, <1>8, <1>10, <1>12, <1>13, <1>14, <1>15, <1>16, <1>17 DEF TreeInv

-----------------------------------------------------------------------------
(* Addresses while nothing fails but what was pulled out                   *)

\* Nothing but a stutter follows when the system has stopped.
LEMMA StoppedStays == ASSUME [Next]_vars, failed # "none" PROVE UNCHANGED vars
  <1>1. ~Task
    BY DEF Task, LoopOver, Rescan, EmptyPort, Initialize, InitializeFails, DetectAborts,
       NewDevice, SkipPort, ConfigureKeyboard, ConfigureHub, ConfigureFails, ToConfigure,
       ReturnToHandler, ReturnToConfigure, HubStarts, HubFails, BackToConfigure, BootEnds,
       HandleEvent, StatusFails,
       PortConnected, PortRemoved, PortKept, PortStatus, PortsDone, UpdateEnd, InLoop
  <1>2. ASSUME NEW d \in Devices, NEW k \in Sockets PROVE ~Plug(d, k)
    BY DEF Plug, Move
  <1>3. ASSUME NEW k \in Sockets PROVE ~Unplug(k)
    BY DEF Unplug, Move
  <1>4. ASSUME NEW s \in Tree PROVE ~StatusChange(s) /\ ~RequestFails(s)
    BY DEF StatusChange, RequestFails
  <1> QED
    BY <1>1, <1>2, <1>3, <1>4 DEF Next

\* No fault is forgotten.
LEMMA NoFaults ==
    ASSUME TypeOK, [Next]_vars, faults' = 0
    PROVE  faults = 0 /\ ~Fault
  <1>0. faults \in Nat
    BY UsbAssumption DEF TypeOK
  <1>1. Fault => faults' = faults + 1
    BY DEF Fault
  <1>2. ~Fault
    BY <1>0, <1>1
  <1>3. NoFault => faults' = faults
    BY DEF NoFault, bounds
  <1>4. CASE LoopOver \/ ConfigureFails \/ PortKept
    BY <1>2, <1>3, <1>4 DEF LoopOver, ConfigureFails, PortKept
  <1>5. CASE InitializeFails \/ DetectAborts
    BY <1>2, <1>5 DEF InitializeFails, DetectAborts
  <1>6. CASE Rescan \/ EmptyPort \/ SkipPort
    BY <1>2, <1>6 DEF Rescan, EmptyPort, SkipPort, bounds
  <1>7. CASE ConfigureKeyboard \/ ConfigureHub
    BY <1>2, <1>7 DEF ConfigureKeyboard, ConfigureHub, bounds
  <1>14. CASE Initialize
    BY <1>2, <1>14 DEF Initialize, bounds
  <1>15. CASE ReturnToHandler
    BY <1>2, <1>15 DEF ReturnToHandler, bounds
  <1>16. CASE ReturnToConfigure \/ BootEnds
    BY <1>2, <1>3, <1>16 DEF ReturnToConfigure, HubStarts, HubFails, BackToConfigure, BootEnds,
       bounds
  <1>8. CASE HandleEvent \/ StatusFails \/ PortsDone \/ UpdateEnd
    BY <1>2, <1>3, <1>8 DEF HandleEvent, StatusFails, PortsDone, UpdateEnd, bounds
  <1>9. CASE PortConnected \/ PortRemoved
    BY <1>2, <1>9 DEF PortConnected, PortRemoved, bounds
  <1>10. CASE UNCHANGED vars
    BY <1>2, <1>10 DEF vars, bounds
  <1>11. ASSUME NEW d \in Devices, NEW k \in Sockets, Plug(d, k) PROVE faults' = faults
    BY <1>11 DEF Plug, Move
  <1>12. ASSUME NEW k \in Sockets, Unplug(k) PROVE faults' = faults
    BY <1>12 DEF Unplug, Move
  <1>13. ASSUME NEW s \in Tree, StatusChange(s) \/ RequestFails(s) PROVE faults' = faults
    BY <1>2, <1>13 DEF StatusChange, RequestFails, bounds
  <1> QED
    BY <1>2, <1>4, <1>5, <1>6, <1>7, <1>8, <1>9, <1>10, <1>11, <1>12, <1>13,
       <1>14, <1>15, <1>16 DEF Next, Task

\* An object that is deleted is one of a device that has gone.
LEMMA GoneDeleted ==
    ASSUME TreeInv, Owned, faults = 0, ~Fault,
           ConfigureFails \/ PortRemoved \/ (ReturnToConfigure /\ HubFails)
    PROVE  \E t \in Places, mark \in BOOLEAN :
               Delete(t, mark) /\ \A x \in Below(t) : ~Reaches(x)
  <1>1. CASE ConfigureFails
    <2>1. Delete(Here, TRUE) /\ Spared(Here) /\ Below(Here) \intersect Present = {Here}
      BY <1>1, FailureSpares
    <2>2. ~Reaches(Here) /\ Here \in Places
      BY <1>1, <2>1 DEF ConfigureFails, Spared
    <2>3. ASSUME NEW x \in Below(Here), Reaches(x) PROVE FALSE
      <3>1. x \in Places
        BY DEF Below
      <3>2. x \in Present
        BY <2>3, <3>1, ReachedFacts DEF Present
      <3> QED
        BY <2>1, <2>2, <2>3, <3>2
    <2> QED
      BY <2>1, <2>2, <2>3
  <1>2. CASE PortRemoved
    BY <1>2, RemovalSpares DEF Spared
  <1>3. CASE ReturnToConfigure /\ HubFails
    <2>1. /\ Frame.hub \in Places /\ failed = "none" /\ Frame.loop = "end"
          /\ Frame = stack[Len(stack)] /\ Len(stack) > 1 /\ Len(stack) \in Nat
      BY <1>3, ConfiguredHub
    <2>2. ~Reaches(Frame.hub)
      <3>1. Len(stack) \in 1 .. Len(stack)
        BY <2>1
      <3> QED
        BY <1>3, <2>1, <3>1 DEF Owned, OnlyGoneFail, HubFails
    <2>3. Delete(Frame.hub, TRUE)
      BY <1>3, ReturnSpares
    <2>4. ASSUME NEW x \in Below(Frame.hub), Reaches(x) PROVE FALSE
      <3>1. x \in Places
        BY DEF Below
      <3>2. Reaches(Parent(x))
        BY <2>4, <3>1, ReachedFacts
      <3>3. x = Frame.hub \/ Parent(x) = Frame.hub
        BY <2>1, <3>1, BelowIs
      <3> QED
        BY <2>2, <2>4, <3>2, <3>3
    <2> QED
      BY <2>1, <2>3, <2>4
  <1> QED
    BY <1>1, <1>2, <1>3

LEMMA OwnAnswersNext ==
    ASSUME TreeInv, [Next]_vars, Owned, faults' = 0
    PROVE  OwnAnswers'
  <1>0. faults = 0 /\ ~Fault /\ OwnAnswers
    BY NoFaults DEF TreeInv, Owned
  <1>1. CASE Initialize
    <2>1. PICK n \in Numbers \ pools["addr"], a \in [Devices -> Numbers \union {0, NULL}] :
               /\ NewDevice /\ UNCHANGED plugged /\ Addressed(a) /\ NewAnswers(a)
               /\ a[At(Here)] = n
               /\ m_pDevice'[Here] # NULL /\ m_pDevice'[Here].dev = At(Here)
               /\ m_pDevice'[Here].addr = n
               /\ \A x \in Places : x # Here => m_pDevice'[x] = m_pDevice[x]
      BY <1>1, Started
    <2>2. Here \in Places /\ m_pDevice[Here] = NULL
      BY <2>1, NewDeviceFacts
    <2>3. PICK t \in Places : t = Here
      BY <2>2
    <2>4. SUFFICES ASSUME NEW d \in Devices, answers'[d] # NULL
                   PROVE  \E x \in Places : /\ m_pDevice'[x] # NULL /\ m_pDevice'[x].dev = d
                                            /\ m_pDevice'[x].addr = answers'[d]
      BY DEF OwnAnswers, Present
    <2>5. answers' = a
      BY <2>1 DEF Addressed
    <2>6. CASE d = At(Here)
      BY <2>1, <2>2, <2>5, <2>6
    <2>7. CASE d # At(Here)
      <3>1. answers[d] # 0
        <4>1. SUFFICES ASSUME answers[d] = 0 PROVE FALSE
          OBVIOUS
        <4>2. answers[d] # NULL
          BY <4>1, NotNull
        <4>3. PICK x \in Present : m_pDevice[x].addr = answers[d]
          BY <1>0, <4>2 DEF OwnAnswers
        <4>4. m_pDevice[x].addr \in Numbers
          BY <4>3, ObjectFacts DEF TreeInv, Present
        <4> QED
          BY <4>1, <4>3, <4>4, NumbersAre
      <3>2. a[d] = answers[d]
        BY <2>1, <2>4, <2>5, <2>7, <3>1 DEF NewAnswers
      <3>3. PICK x \in Present : m_pDevice[x].dev = d /\ m_pDevice[x].addr = answers[d]
        BY <1>0, <2>4, <2>5, <3>2 DEF OwnAnswers
      <3>4. x \in Places /\ m_pDevice[x] # NULL /\ x # Here
        BY <2>2, <3>3 DEF Present
      <3> QED
        BY <2>1, <2>5, <3>2, <3>3, <3>4
    <2> QED
      BY <2>6, <2>7
  <1>2. CASE ~Initialize
    <2>1. \A d \in Devices : answers'[d] # NULL => answers'[d] = answers[d]
      <3>1. ~InitializeFails /\ ~DetectAborts
        BY <1>0 DEF InitializeFails, DetectAborts
      <3>2. ASSUME NEW d \in Devices, NEW k \in Sockets, Plug(d, k) PROVE UNCHANGED answers
        BY <3>2 DEF Plug
      <3>3. ASSUME NEW k \in Sockets, Unplug(k), NEW d \in Devices, answers'[d] # NULL
            PROVE  answers'[d] = answers[d]
        BY <3>3 DEF Unplug
      <3> QED
        BY <1>2, <3>1, <3>2, <3>3, PhysicalSteps
    <2>2. ASSUME NEW x \in Present,
                 \E d \in Devices : answers'[d] # NULL /\ m_pDevice[x].dev = d
                                        /\ m_pDevice[x].addr = answers[d]
          PROVE  x \in Present' /\ m_pDevice'[x].dev = m_pDevice[x].dev
                     /\ m_pDevice'[x].addr = m_pDevice[x].addr
      <3>1. x \in Places /\ m_pDevice[x] # NULL
        BY DEF Present
      <3>2. CASE UNCHANGED <<m_pDevice, m_bPortConfigured, pools, names>>
        BY <3>1, <3>2 DEF Present
      <3>3. CASE ConfigureKeyboard \/ ConfigureHub \/ (ReturnToConfigure /\ HubStarts)
        BY <3>1, <3>3, StateChanges DEF Present
      <3>4. CASE ConfigureFails \/ PortRemoved \/ (ReturnToConfigure /\ HubFails)
        <4>1. PICK t \in Places, mark \in BOOLEAN :
                  Delete(t, mark) /\ \A y \in Below(t) : ~Reaches(y)
          BY <1>0, <3>4, GoneDeleted
        <4>2. Reaches(x)
          BY <2>2, <3>1, PlaceNotBoard DEF Reaches
        <4>3. x \notin Below(t)
          BY <4>1, <4>2
        <4>4. m_pDevice'[x] = m_pDevice[x]
          BY <3>1, <4>1, <4>3, DeleteFacts
        <4> QED
          BY <3>1, <4>4 DEF Present
      <3> QED
        BY <1>2, <3>2, <3>3, <3>4, ObjectActions DEF ReturnToConfigure
    <2>3. SUFFICES ASSUME NEW d \in Devices, answers'[d] # NULL
                   PROVE  \E x \in Present' : /\ m_pDevice'[x].dev = d
                                              /\ m_pDevice'[x].addr = answers'[d]
      BY DEF OwnAnswers
    <2>4. PICK x \in Present : m_pDevice[x].dev = d /\ m_pDevice[x].addr = answers[d]
      BY <1>0, <2>1, <2>3 DEF OwnAnswers
    <2> QED
      BY <2>1, <2>2, <2>3, <2>4
  <1> QED
    BY <1>1, <1>2

\* Without a fault, a loop ends without success only when its hub has gone.
LEMMA EndFrames ==
    ASSUME TreeInv, [Next]_vars, ~Fault, stack # <<>>, NEW f \in Frames, Continues(f),
           f.loop = "end", ~f.ok
    PROVE  \/ f = Frame /\ UNCHANGED stack
           \/ /\ ~Reaches(Frame.hub) /\ Frame.hub # <<>>
              /\ UNCHANGED <<m_pDevice, answers>>
  <1>1. stack \in Seq(Frames) /\ Frame \in Frames /\ Sound(Frame)
    BY HubOfFrame DEF TreeInv, Shape
  <1>2. Top(f) /\ f.hub = Frame.hub
    BY DEF Continues
  <1>3. /\ stack' \in Seq(Frames) /\ Len(stack') = Len(stack) /\ stack' # <<>>
        /\ stack'[Len(stack)] = f /\ Len(stack) \in Nat \ {0} /\ Frame = stack[Len(stack)]
    BY <1>1, <1>2, TopStack, StackFacts
  <1>4. ASSUME NEW g \in Frames, Top(g) PROVE f = g
    BY <1>1, <1>3, <1>4, TopStack, StackFacts
  <1>5. ASSUME Frame.loop # "end", NextPort PROVE FALSE
    BY <1>1, <1>4, <1>5, NextPortFrame DEF NextPort
  <1>6. ASSUME Frame.loop = "ports", Top(PortDone) PROVE FALSE
    BY <1>1, <1>4, <1>6, PortDoneFrame
  <1>7. CASE LoopOver
    <2>1. CASE Frame.loop = "detect"
      <3>1. Top([Frame EXCEPT !.loop = "configure", !.at = 1])
        BY <1>7, <2>1 DEF LoopOver
      <3> QED
        BY <1>1, <1>4, <3>1, SecondLoopFrame
    <2>2. CASE Frame.loop = "configure"
      <3>1. PICK b \in BOOLEAN : b = Reaches(Frame.hub)
        BY DEF Reaches
      <3>2. Top([Frame EXCEPT !.loop = "end", !.ok = b])
        BY <1>7, <2>2, <3>1 DEF LoopOver
      <3>3. f.ok = b
        BY <1>1, <1>4, <3>2, EndFrame
      <3>4. ~Reaches(Frame.hub) /\ Frame.hub # <<>>
        BY <3>1, <3>3 DEF Reaches
      <3> QED
        BY <1>7, <3>4 DEF LoopOver, physical, objects
    <2> QED
      BY <1>7, <2>1, <2>2 DEF LoopOver
  <1>8. CASE EmptyPort \/ Initialize \/ InitializeFails
    BY <1>5, <1>8 DEF EmptyPort, Initialize, InitializeFails, NewDevice, InLoop
  <1>9. CASE DetectAborts
    BY <1>9 DEF DetectAborts
  <1>10. CASE SkipPort \/ ConfigureKeyboard \/ ConfigureFails
    BY <1>5, <1>10 DEF SkipPort, ConfigureKeyboard, ConfigureFails, ToConfigure, InLoop
  <1>11. CASE PortRemoved \/ PortKept
    BY <1>6, <1>11 DEF PortRemoved, PortKept, PortStatus, InLoop
  <1>12. CASE Rescan
    <2>1. ASSUME stack' = Append(stack, Enumerate(Here)) PROVE FALSE
      BY <1>1, <1>3, <2>1, AppendProperties DEF Rescan
    <2> QED
      BY <1>5, <1>12, <2>1 DEF Rescan, InLoop
  <1>13. CASE ConfigureHub
    <2>1. stack' = Append(stack, Enumerate(Here)) /\ ToConfigure
      BY <1>13 DEF ConfigureHub
    <2>2. Len(stack') = Len(stack) + 1
      BY <1>3, <2>1
    <2> QED
      BY <1>3, <2>2
  <1>14. CASE ReturnToHandler \/ ReturnToConfigure
    <2>1. PICK g \in Frames : Len(stack) > 1 /\ Returns(g)
      BY <1>14, LoopReturns
    <2>2. Len(stack') = Len(stack) - 1
      BY <1>1, <2>1, PopStack DEF Returns
    <2> QED
      BY <1>3, <2>2
  <1>15. CASE BootEnds \/ PortsDone \/ HandleEvent \/ UpdateEnd
    BY <1>3, <1>15 DEF BootEnds, PortsDone, HandleEvent, UpdateEnd
  <1>16. CASE PortConnected
    <2>1. CASE Top(PortDone)
      BY <1>6, <1>16, <2>1 DEF PortConnected, PortStatus, InLoop
    <2>2. CASE stack' = Front(stack) \o <<PortDone, Enumerate(Frame.hub)>>
      <3>1. Len(stack) = 1 /\ Len(stack') = 2
        BY <1>16, <2>2, CallsAgain
      <3> QED
        BY <1>3, <3>1
    <2> QED
      BY <1>16, <2>1, <2>2 DEF PortConnected
  <1>17. CASE UNCHANGED stack
    BY <1>3, <1>17
  <1>18. StatusFails \/ UNCHANGED vars => UNCHANGED stack
    BY DEF StatusFails, vars
  <1>19. ASSUME NEW d \in Devices, NEW k \in Sockets, Plug(d, k) PROVE UNCHANGED stack
    BY <1>19 DEF Plug
  <1>20. ASSUME NEW k \in Sockets, Unplug(k) PROVE UNCHANGED stack
    BY <1>20 DEF Unplug
  <1>21. ASSUME NEW s \in Tree, StatusChange(s) \/ RequestFails(s) PROVE UNCHANGED stack
    BY <1>21 DEF StatusChange, RequestFails
  <1> QED
    BY <1>7, <1>8, <1>9, <1>10, <1>11, <1>12, <1>13, <1>14, <1>15, <1>16, <1>17, <1>18,
       <1>19, <1>20, <1>21 DEF Next, Task

\* The hub of a loop does not come back while the loop is there.
LEMMA LoopHubBack ==
    ASSUME TreeInv, [Next]_vars, failed = "none", NEW i \in 1 .. Len(stack),
           NEW s, s = stack[i].hub, s # <<>>, Reaches(s)'
    PROVE  Reaches(s)
  <1>1. s \in Places /\ m_pDevice[s] # NULL
    BY HubStates
  <1>2. CASE Initialize /\ s = Here
    BY <1>1, <1>2 DEF Initialize, NewDevice
  <1> QED
    BY <1>1, <1>2, ReachesBack

LEMMA OnlyGoneFailNext ==
    ASSUME TreeInv, [Next]_vars, Owned, faults' = 0, failed' = "none"
    PROVE  OnlyGoneFail'
  <1>0. failed = "none" /\ faults = 0 /\ ~Fault /\ OnlyGoneFail
    BY FailedStays, NoFaults DEF TreeInv, Owned
  <1>1. stack \in Seq(Frames) /\ Len(stack) \in Nat
    BY LenProperties DEF TreeInv, Shape
  <1>2. ASSUME NEW i \in 1 .. Len(stack), stack[i].loop = "end", ~stack[i].ok,
               NEW s, s = stack[i].hub
        PROVE  s # <<>> /\ ~Reaches(s)'
    <2>1. s # <<>> /\ ~Reaches(s)
      BY <1>0, <1>2 DEF OnlyGoneFail
    <2> QED
      BY <1>0, <1>2, <2>1, LoopHubBack
  <1>3. SUFFICES ASSUME NEW g, g = stack', NEW i \in 1 .. Len(g), g[i].loop = "end",
                        ~g[i].ok, NEW s, s = g[i].hub
                 PROVE  s # <<>> /\ ~Reaches(s)'
    <2>1. PICK g : g = stack'
      OBVIOUS
    <2>2. ASSUME NEW i \in 1 .. Len(g), g[i].loop = "end", ~g[i].ok
          PROVE  g[i].hub # <<>> /\ ~Reaches(g[i].hub)'
      BY <1>3, <2>1, <2>2
    <2> QED
      BY <2>1, <2>2 DEF OnlyGoneFail, Reaches
  <1>4. CASE UNCHANGED stack
    BY <1>2, <1>3, <1>4
  <1>5. CASE stack # <<>> /\ \E f \in Frames : Continues(f)
    <2>1. PICK f \in Frames : Continues(f)
      BY <1>5
    <2>2. /\ Len(g) = Len(stack)
          /\ \A j \in 1 .. Len(stack) : g[j] = IF j = Len(stack) THEN f ELSE stack[j]
      BY <1>1, <1>3, <1>5, <2>1, TopStack DEF Continues
    <2>3. CASE i # Len(stack)
      BY <1>2, <1>3, <2>2, <2>3
    <2>4. CASE i = Len(stack)
      <3>1. f.loop = "end" /\ ~f.ok /\ s = f.hub /\ f.hub = Frame.hub
        BY <1>3, <2>1, <2>2, <2>4 DEF Continues
      <3>2. CASE UNCHANGED stack
        BY <1>2, <1>3, <3>2
      <3>3. CASE ~Reaches(Frame.hub) /\ Frame.hub # <<>> /\ UNCHANGED <<m_pDevice, answers>>
        <4>1. s # <<>> /\ ~Reaches(s) /\ UNCHANGED <<m_pDevice, answers>>
          BY <3>1, <3>3
        <4> QED
          BY <4>1 DEF Reaches
      <3> QED
        BY <1>0, <1>5, <2>1, <3>1, <3>2, <3>3, EndFrames
    <2> QED
      BY <2>3, <2>4
  <1>6. CASE Descends
    <2>1. stack' = Append(stack, Enumerate(Here)) /\ Enumerate(Here) \in Frames
      BY <1>6, DescendsTo DEF Descends
    <2>2. PICK f \in Frames : f = Enumerate(Here) /\ f.loop = "detect"
      BY <2>1 DEF Enumerate
    <2>3. /\ Len(g) = Len(stack) + 1
          /\ \A j \in 1 .. Len(stack) + 1 : g[j] = IF j = Len(stack) + 1 THEN f ELSE stack[j]
      BY <1>1, <1>3, <2>1, <2>2, PushStack
    <2>4. i # Len(stack) + 1
      BY <1>1, <1>3, <2>2, <2>3
    <2> QED
      BY <1>1, <1>2, <1>3, <2>3, <2>4
  <1>7. CASE PortConnected /\ stack' = Front(stack) \o <<PortDone, Enumerate(Frame.hub)>>
    <2>1. /\ Len(g) = 2 /\ g[1] = PortDone /\ g[2] = Enumerate(Frame.hub)
      BY <1>3, <1>7, CallsAgain
    <2>2. stack # <<>> /\ Frame.loop = "ports"
      BY <1>7 DEF PortConnected, PortStatus, InLoop
    <2>3. PortDone.loop = "ports" /\ Enumerate(Frame.hub).loop = "detect"
      BY <2>2, HubOfFrame, PortDoneFrame DEF TreeInv, Enumerate
    <2> QED
      BY <1>3, <2>1, <2>3
  <1>8. CASE Len(stack) > 1 /\ \E f \in Frames : Returns(f)
    <2>1. PICK f \in Frames : Returns(f)
      BY <1>8
    <2>2. /\ Len(g) = Len(stack) - 1
          /\ \A j \in 1 .. Len(stack) - 1 : g[j] = IF j = Len(stack) - 1 THEN f ELSE stack[j]
      BY <1>1, <1>3, <1>8, <2>1, PopStack DEF Returns
    <2>3. f.loop # "end"
      BY <1>1, <1>8, <2>1 DEF Returns, TreeInv, Shape, Calls
    <2>4. i # Len(stack) - 1
      BY <1>1, <1>3, <1>8, <2>2, <2>3
    <2> QED
      BY <1>1, <1>2, <1>3, <2>2, <2>4
  <1>9. CASE stack' = <<>>
    BY <1>3, <1>9
  <1>10. CASE HandleEvent
    <2>1. Len(g) = 1 /\ g[1].loop = "ports"
      BY <1>3, <1>10, TakesEvent
    <2>2. i = 1
      BY <1>3, <2>1
    <2> QED
      BY <1>3, <2>1, <2>2
  <1> QED
    BY <1>4, <1>5, <1>6, <1>7, <1>8, <1>9, <1>10, StackSteps

\* Addresses that the objects have are not alike.
LEMMA OwnApart == ASSUME OwnAnswers, AddressesExact PROVE ~Collide(answers)
  BY DEF OwnAnswers, AddressesExact, Collide

LEMMA OwnApartNext == OwnAnswers' /\ AddressesExact' => ~Collide(answers)'
  BY OwnApart, PTL

LEMMA OwnedNext == ASSUME TreeInv, [Next]_vars, Owned PROVE Owned'
  <1>1. SUFFICES ASSUME faults' = 0
                 PROVE  OwnAnswers' /\ failed' # "collision"
                            /\ (failed' = "none" => OnlyGoneFail')
    BY DEF Owned
  <1>2. OwnAnswers'
    BY <1>1, OwnAnswersNext
  <1>3. ~Collide(answers)'
    BY <1>2, AddressesExactNext, OwnApartNext
  <1>4. failed # "collision"
    BY <1>1, NoFaults DEF TreeInv, Owned
  <1>5. ASSUME NEW a, Addressed(a) PROVE failed' = failed
    <2>1. answers' = a
      BY <1>5 DEF Addressed
    <2>2. ~Collide(a)
      BY <1>3, <2>1 DEF Collide
    <2> QED
      BY <1>5, <2>2 DEF Addressed
  <1>6. failed' # "collision"
    <2>1. CASE Initialize \/ InitializeFails \/ DetectAborts
      BY <1>4, <1>5, <2>1 DEF Initialize, InitializeFails, DetectAborts
    <2>2. CASE \/ LoopOver \/ Rescan \/ EmptyPort \/ SkipPort \/ ConfigureKeyboard
               \/ ConfigureHub \/ ConfigureFails \/ ReturnToHandler \/ ReturnToConfigure
      BY <1>4, <2>2 DEF LoopOver, Rescan, EmptyPort, SkipPort, ConfigureKeyboard,
         ConfigureHub, ConfigureFails, ReturnToHandler, ReturnToConfigure, HubStarts, HubFails,
         BackToConfigure
    <2>3. CASE BootEnds \/ HandleEvent \/ StatusFails \/ PortsDone \/ UpdateEnd \/ UNCHANGED vars
      BY <1>4, <2>3 DEF BootEnds, HandleEvent, StatusFails, PortsDone, UpdateEnd, vars
    <2>4. CASE PortConnected \/ PortRemoved \/ PortKept
      BY <1>4, <2>4 DEF PortConnected, PortRemoved, PortKept, PortStatus
    <2>5. ASSUME NEW d \in Devices, NEW k \in Sockets, Plug(d, k) PROVE failed' # "collision"
      BY <1>4, <2>5 DEF Plug
    <2>6. ASSUME NEW k \in Sockets, Unplug(k) PROVE failed' # "collision"
      BY <1>4, <2>6 DEF Unplug
    <2>7. ASSUME NEW s \in Tree, StatusChange(s) \/ RequestFails(s) PROVE failed' # "collision"
      BY <1>4, <2>7 DEF StatusChange, RequestFails
    <2> QED
      BY <2>1, <2>2, <2>3, <2>4, <2>5, <2>6, <2>7 DEF Next, Task
  <1> QED
    BY <1>1, <1>2, <1>6, OnlyGoneFailNext

-----------------------------------------------------------------------------
(* What the invariant says of the properties                               *)

LEMMA ExactNumbers == ASSUME TypeOK, AddressesExact, NamesExact PROVE PoolsExact
  <1> DEFINE A == {m_pDevice[x].addr : x \in Present}
             F == [x \in Present |-> m_pDevice[x].addr]
  <1>1. IsFiniteSet(Present) /\ Cardinality(Present) \in Nat
    <2>1. Present \subseteq Places
      BY DEF Present
    <2> QED
      BY <2>1, PlacesFinite, FS_Subset, FS_CardinalityType
  <1>2. pools["addr"] = A \union {1} /\ 1 \notin A
    BY DEF AddressesExact
  <1>3. F \in Surjection(Present, A) /\ F \in Injection(Present, A)
    <2>1. F \in [Present -> A]
      OBVIOUS
    <2>2. \A x, y \in Present : F[x] = F[y] => x = y
      BY DEF AddressesExact
    <2>3. \A a \in A : \E x \in Present : F[x] = a
      OBVIOUS
    <2>4. F \in Surjection(Present, A)
      BY <2>1, <2>3 DEF Surjection
    <2> HIDE DEF A, F
    <2> QED
      BY <2>1, <2>2, <2>4 DEF Injection, IsInjective
  <1>4. IsFiniteSet(A) /\ Cardinality(A) = Cardinality(Present)
    <2> HIDE DEF A, F
    <2> QED
      BY <1>1, <1>3, FS_Surjection
  <1>5. Cardinality(pools["addr"]) = Cardinality(Present) + 1
    <2> HIDE DEF A, F
    <2>1. Cardinality(A \union {1}) = Cardinality(A) + 1
      BY <1>2, <1>4, FS_AddElement
    <2> QED
      BY <1>2, <1>4, <2>1
  <1>6. ASSUME NEW n \in names, NEW o \in names,
               \/ n.place = o.place
               \/ [prefix |-> n.prefix, number |-> n.number]
                      = [prefix |-> o.prefix, number |-> o.number]
        PROVE  n = o
    <2>1. CASE n.place = o.place
      BY <2>1 DEF NamesExact
    <2>2. CASE [prefix |-> n.prefix, number |-> n.number]
                   = [prefix |-> o.prefix, number |-> o.number]
      <3>1. n.prefix = o.prefix /\ n.number = o.number
        BY <2>2
      <3> QED
        BY <3>1 DEF NamesExact
    <2> QED
      BY <1>6, <2>1, <2>2
  <1>7. /\ {n.place : n \in names} = Named
        /\ \A n \in names : n.prefix = (IF IsHub(n.place) THEN "uhub" ELSE "ukbd")
        /\ \A p \in NamePrefixes :
               pools[p] = {n.number : n \in {o \in names : o.prefix = p}}
    BY DEF NamesExact
  <1> QED
    BY <1>2, <1>5, <1>6, <1>7 DEF PoolsExact, Present, Named

\* Only the first loop can be one of HandlePortStatusChange.
LEMMA AtWork ==
    ASSUME Shape, NEW s
    PROVE  (\E i \in 1 .. Len(stack) :
                stack[i].hub = s /\ (stack[i].loop = "ports" \/ (i = 1 /\ s = <<>>)))
           <=> Working(s)
  <1>1. stack \in Seq(Frames) /\ Len(stack) \in Nat
    BY LenProperties DEF Shape
  <1>2. stack # <<>> <=> Len(stack) >= 1
    BY <1>1, EmptySeq
  <1>3. ASSUME NEW i \in 1 .. Len(stack), stack[i].loop = "ports" PROVE i = 1
    <2>1. SUFFICES ASSUME i # 1 PROVE FALSE
      OBVIOUS
    <2>2. i - 1 \in 1 .. Len(stack) - 1
      BY <1>1, <2>1
    <2>3. Calls(stack[i - 1], stack[(i - 1) + 1]) /\ (i - 1) + 1 = i
      BY <2>2 DEF Shape
    <2> QED
      BY <1>3, <2>3 DEF Calls
  <1>4. stack # <<>> => stack[1].loop = "ports" \/ stack[1].hub = <<>>
    BY DEF Shape
  <1> QED
    BY <1>1, <1>2, <1>3, <1>4 DEF Working

LEMMA WatchCounts == ASSUME TypeOK, Shape, OneWatch PROVE Watched
  <1> DEFINE Events(s) == {i \in 1 .. Len(m_HubList) :
                              m_HubList[i].hub = s /\ ~m_HubList[i].deleted}
             InWork(s) == \E i \in 1 .. Len(stack) :
                 stack[i].hub = s /\ (stack[i].loop = "ports" \/ (i = 1 /\ s = <<>>))
  <1>1. SUFFICES ASSUME failed = "none", NEW s \in Tree, Monitored(s)
                 PROVE  Cardinality(Events(s)) + (IF s \in request THEN 1 ELSE 0)
                            + (IF InWork(s) THEN 1 ELSE 0) = (IF s \in deaf THEN 0 ELSE 1)
    BY DEF Watched, Monitored
  <1>2. InWork(s) <=> Working(s)
    BY AtWork
  <1>3. /\ s \in request \/ Working(s) \/ Reported(s) <=> s \notin deaf
        /\ ~(s \in request /\ Working(s))
        /\ ~(s \in request /\ Reported(s))
        /\ ~(Working(s) /\ Reported(s))
    BY <1>1 DEF OneWatch, Monitored
  <1>4. CASE Reported(s)
    <2>1. PICK i \in 1 .. Len(m_HubList) : m_HubList[i].hub = s /\ ~m_HubList[i].deleted
      BY <1>4 DEF Reported
    <2>2. Events(s) = {i}
      BY <1>1, <2>1 DEF OneWatch
    <2>3. Cardinality(Events(s)) = 1
      BY <2>2, FS_Singleton
    <2> HIDE DEF Events, InWork
    <2> QED
      BY <1>2, <1>3, <1>4, <2>3
  <1>5. CASE ~Reported(s)
    <2>1. Events(s) = {}
      BY <1>5 DEF Reported
    <2>2. Cardinality(Events(s)) = 0
      BY <2>1, FS_EmptySet
    <2> HIDE DEF Events, InWork
    <2> QED
      BY <1>2, <1>3, <1>5, <2>2
  <1> QED
    BY <1>4, <1>5

LEMMA LeftAlone ==
    ASSUME TreeInv, [Next]_vars, NEW s \in Places, Works(s)
    PROVE  m_pDevice'[s] = m_pDevice[s] /\ \A n \in names : n.place = s => n \in names'
  <1>1. m_pDevice[s] # NULL
    BY PlaceNotBoard DEF Works, Configured
  <1>2. CASE UNCHANGED <<m_pDevice, m_bPortConfigured, pools, names>>
    BY <1>2
  <1>3. CASE Initialize
    <2>1. PICK n \in Numbers, a \in [Devices -> Numbers \union {0, NULL}] :
              NewDevice /\ \A x \in Places : x # Here => m_pDevice'[x] = m_pDevice[x]
      BY <1>3, Started
    <2>2. s # Here
      BY <1>1, <2>1 DEF NewDevice
    <2> QED
      BY <1>3, <2>1, <2>2 DEF Initialize
  <1>4. CASE ConfigureKeyboard \/ ConfigureHub \/ (ReturnToConfigure /\ HubStarts)
    <2>1. PICK p \in Places :
              ~Works(p) /\ \A x \in Places : x # p => m_pDevice'[x] = m_pDevice[x]
      BY <1>4, StateChanges
    <2>2. names \subseteq names'
      BY <1>4 DEF ConfigureKeyboard, ConfigureHub, ReturnToConfigure, HubStarts, HubFails,
         BackToConfigure, Register
    <2> QED
      BY <2>1, <2>2
  <1>5. ASSUME NEW t \in Places, NEW mark \in BOOLEAN, Spared(t), Delete(t, mark)
        PROVE  m_pDevice'[s] = m_pDevice[s] /\ \A n \in names : n.place = s => n \in names'
    <2>1. s \notin Below(t)
      BY <1>5 DEF Spared
    <2>2. s \notin Gone(t)
      BY <2>1 DEF Gone
    <2>3. m_pDevice'[s] = m_pDevice[s] /\ names' = {n \in names : n.place \notin Gone(t)}
      BY <1>5, <2>1, DeleteFacts
    <2> QED
      BY <2>2, <2>3
  <1> QED
    BY <1>2, <1>3, <1>4, <1>5, ObjectSteps

LEMMA TreeAlways == Spec => [](TreeInv /\ Owned)
  BY TreeInit, TreeNext, OwnedNext, PTL DEF Spec

\* The tree, the loops, the events, the pools and the names stay of their kind:
\* a loop runs over a place of the tree, and no device is ever given a number
\* that the pool does not have (CNumberPool::AllocateNumber).
THEOREM TypeCorrect == Spec => []TypeOK
  <1>1. TreeInv /\ Owned => TypeOK
    BY DEF TreeInv
  <1> QED
    BY <1>1, TreeAlways, PTL

\* Numbers, addresses and names are exactly those of the objects, no two alike,
\* whatever came and went and whatever failed (CNumberPool, CDeviceNameService).
THEOREM PoolsStayExact == Spec => []PoolsExact
  <1>1. TreeInv /\ Owned => PoolsExact
    BY ExactNumbers DEF TreeInv
  <1> QED
    BY <1>1, TreeAlways, PTL

\* A hub that works has one request, or one event in the list or in work, unless
\* a request of its own has failed: then it has none until it is plugged in anew.
\* The status buffer of the hub is not written while it is read
\* (StartStatusChangeRequest, CompletionRoutine, HandlePortStatusChange).
THEOREM HubsAreWatched == Spec => []Watched
  <1>1. TreeInv /\ Owned => Watched
    BY WatchCounts DEF TreeInv
  <1> QED
    BY <1>1, TreeAlways, PTL

\* While nothing fails but what was pulled out, no two devices answer at one
\* address (CUSBDevice::Initialize, ~CUSBDevice).
THEOREM AddressesStayApart == Spec => []AddressesApart
  <1>1. TreeInv /\ Owned => AddressesApart
    BY OwnApart DEF TreeInv, Owned, AddressesApart
  <1> QED
    BY <1>1, TreeAlways, PTL

\* What happens at other ports, failures included, never takes the object, the
\* address or the name of a device that works and stays where it is
\* (HandlePortStatusChange, EnumeratePorts, RemoveDevice).
THEOREM OthersUndisturbed == Spec => Undisturbed
  <1>1. TreeInv /\ Owned /\ [Next]_vars =>
            [\A s \in Places : Works(s) /\ At(s)' = At(s) =>
                /\ m_pDevice'[s] = m_pDevice[s]
                /\ \A n \in names : n.place = s => n \in names']_vars
    BY LeftAlone
  <1> QED
    BY <1>1, TreeAlways, PTL DEF Spec, Undisturbed

-----------------------------------------------------------------------------
(* The keyboard of the console                                             *)

\* What an action must keep: the keyboard of the console has the name "ukbd1",
\* and there is no work on the tree outside of an update.
Attached == m_pInputDevice \subseteq Ukbd1
Found    == ~updating /\ failed = "none" /\ m_pInputDevice = {} => Ukbd1 = {}
Updates  == stack # <<>> => updating
Inv      == Attached /\ Found /\ Updates

\* A step that leaves the names, the console and the flag of the update alone,
\* and adds no work unless in an update.
LEMMA QuietStep ==
    ASSUME Inv, UNCHANGED <<names, m_pInputDevice, updating>>,
           failed' = "none" => failed = "none", stack' # <<>> => updating
    PROVE  Inv'
  BY DEF Inv, Attached, Found, Updates, Ukbd1

\* Deleting objects takes the name and the console's keyboard together.
LEMMA DeleteKeeps ==
    ASSUME NEW s, NEW mark, Inv, Delete(s, mark), updating, updating'
    PROVE  Inv'
  <1>1. NamesOf(s) = {n \in names : n.place \in Gone(s)}
    BY DEF NamesOf
  <1>2. names' = names \ NamesOf(s) /\ TellConsole(s)
    BY DEF Delete, FreeNumbers
  <1>3. Attached'
    <2>1. SUFFICES ASSUME NEW x \in m_pInputDevice, x \notin Gone(s)
                   PROVE  x \in Ukbd1'
      BY <1>2 DEF Attached, TellConsole
    <2>2. PICK n \in names : n.prefix = "ukbd" /\ n.number = 1 /\ n.place = x
      BY DEF Inv, Attached, Ukbd1
    <2>3. n \in names'
      BY <1>1, <1>2, <2>1, <2>2
    <2> QED
      BY <2>2, <2>3 DEF Ukbd1
  <1> QED
    BY <1>3 DEF Inv, Found, Updates

\* A new name takes none away.
LEMMA RegisterKeeps ==
    ASSUME NEW s, NEW prefix, Inv, Register(s, prefix), UNCHANGED m_pInputDevice,
           updating, updating'
    PROVE  Inv'
  <1>1. names \subseteq names'
    BY DEF Register
  <1>2. Ukbd1 \subseteq Ukbd1'
    BY <1>1 DEF Ukbd1
  <1> QED
    BY <1>2 DEF Inv, Attached, Found, Updates

LEMMA InitInv == Init => Inv
  BY DEF Init, Inv, Attached, Found, Updates

LEMMA TaskInv == ASSUME Inv, Task PROVE Inv'
  <1>1. CASE LoopOver
    BY <1>1, QuietStep DEF LoopOver, Inv, Updates, objects
  <1>2. CASE Rescan
    BY <1>2, QuietStep DEF Rescan, InLoop, Inv, Updates, objects
  <1>3. CASE EmptyPort
    BY <1>3, QuietStep DEF EmptyPort, InLoop, Inv, Updates, objects
  <1>4. CASE Initialize
    BY <1>4, QuietStep DEF Initialize, NewDevice, InLoop, Addressed, Inv, Updates
  <1>5. CASE InitializeFails
    BY <1>5, QuietStep DEF InitializeFails, NewDevice, InLoop, Addressed, Inv, Updates, objects
  <1>6. CASE DetectAborts
    BY <1>6, QuietStep DEF DetectAborts, NewDevice, InLoop, Addressed, Inv, Updates, objects
  <1>7. CASE SkipPort
    BY <1>7, QuietStep DEF SkipPort, InLoop, Inv, Updates, objects
  <1>8. CASE ConfigureKeyboard
    <2>1. updating /\ updating'
      BY <1>8 DEF ConfigureKeyboard, ToConfigure, InLoop, Inv, Updates
    <2> QED
      BY <1>8, <2>1, RegisterKeeps DEF ConfigureKeyboard
  <1>9. CASE ConfigureHub
    <2>1. updating /\ updating'
      BY <1>9 DEF ConfigureHub, ToConfigure, InLoop, Inv, Updates
    <2> QED
      BY <1>9, <2>1, RegisterKeeps DEF ConfigureHub
  <1>10. CASE ConfigureFails
    <2>1. updating /\ updating'
      BY <1>10 DEF ConfigureFails, ToConfigure, InLoop, Inv, Updates
    <2> QED
      BY <1>10, <2>1, DeleteKeeps DEF ConfigureFails
  <1>11. CASE ReturnToHandler
    BY <1>11, QuietStep DEF ReturnToHandler, InLoop, Inv, Updates, objects
  <1>12. CASE ReturnToConfigure
    <2>1. updating /\ updating'
      BY <1>12 DEF ReturnToConfigure, HubStarts, HubFails, BackToConfigure, InLoop, Inv, Updates
    <2>2. CASE HubStarts
      BY <1>12, <2>1, <2>2, QuietStep DEF ReturnToConfigure, HubStarts, HubFails,
         BackToConfigure, InLoop
    <2>3. CASE HubFails
      BY <1>12, <2>1, <2>3, DeleteKeeps DEF ReturnToConfigure, HubStarts, HubFails, BackToConfigure
    <2> QED
      BY <1>12, <2>2, <2>3 DEF ReturnToConfigure
  <1>13. CASE BootEnds
    BY <1>13, QuietStep DEF BootEnds, InLoop, objects
  <1>14. CASE HandleEvent
    BY <1>14 DEF HandleEvent, Inv, Attached, Found, Updates, Ukbd1, objects
  <1>15. CASE StatusFails
    BY <1>15, QuietStep DEF StatusFails, InLoop, Inv, Updates, objects
  <1>16. CASE PortConnected
    BY <1>16, QuietStep DEF PortConnected, PortStatus, InLoop, Inv, Updates, objects
  <1>17. CASE PortRemoved
    <2>1. updating /\ updating'
      BY <1>17 DEF PortRemoved, PortStatus, InLoop, Inv, Updates
    <2> QED
      BY <1>17, <2>1, DeleteKeeps DEF PortRemoved
  <1>18. CASE PortKept
    BY <1>18, QuietStep DEF PortKept, PortStatus, InLoop, Inv, Updates, objects
  <1>19. CASE PortsDone
    BY <1>19, QuietStep DEF PortsDone, InLoop, objects
  <1>20. CASE UpdateEnd
    <2>1. Ukbd1' = Ukbd1
      BY <1>20 DEF UpdateEnd, Ukbd1
    <2>2. stack' = <<>>
      BY <1>20 DEF UpdateEnd
    <2>3. m_pInputDevice' = IF m_pInputDevice = {} THEN Ukbd1 ELSE m_pInputDevice
      BY <1>20 DEF UpdateEnd
    <2> QED
      BY <2>1, <2>2, <2>3 DEF Inv, Attached, Found, Updates
  <1> QED
    BY <1>1, <1>2, <1>3, <1>4, <1>5, <1>6, <1>7, <1>8, <1>9, <1>10, <1>11, <1>12,
       <1>13, <1>14, <1>15, <1>16, <1>17, <1>18, <1>19, <1>20 DEF Task

LEMMA NextInv == ASSUME Inv, [Next]_vars PROVE Inv'
  <1>1. CASE Task
    BY <1>1, TaskInv
  <1>2. ASSUME NEW d \in Devices, NEW k \in Sockets, Plug(d, k)
        PROVE  Inv'
    BY <1>2, QuietStep DEF Plug, Inv, Updates, objects
  <1>3. ASSUME NEW k \in Sockets, Unplug(k)
        PROVE  Inv'
    BY <1>3, QuietStep DEF Unplug, Inv, Updates, objects
  <1>4. ASSUME NEW s \in Tree, StatusChange(s) \/ RequestFails(s)
        PROVE  Inv'
    BY <1>4, QuietStep DEF StatusChange, RequestFails, Inv, Updates, objects
  <1>5. CASE UNCHANGED vars
    BY <1>5, QuietStep DEF vars, objects, Inv, Updates
  <1> QED
    BY <1>1, <1>2, <1>3, <1>4, <1>5 DEF Next

\* The console never holds a keyboard object that has been deleted, and it has
\* "ukbd1" outside of an update if there is one: for any hubs, keyboards, ports,
\* moves and failures (CConsole::UpdatePlugAndPlay, KeyboardRemovedHandler).
THEOREM ConsoleHasKeyboard == Spec => []ConsoleTrue
  <1>1. Inv => ConsoleTrue
    BY DEF Inv, Attached, Found, ConsoleTrue
  <1> QED
    BY <1>1, InitInv, NextInv, PTL DEF Spec
=============================================================================
