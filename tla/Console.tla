------------------------------- MODULE Console -------------------------------
(***************************************************************************)
(* The console input of LUPOS, from the keyboard buffer to the Lua program *)
(* that reads stdin or calls console.readkey: CLineDiscipline and CConsole *)
(* of circle/lib/input, CGlueConsole::Read of circle-newlib's io.cpp and   *)
(* lua_conmode / lua_readkey of lconsole.cpp.                              *)
(*                                                                         *)
(* One task reads; the interrupts of the keyboard and of the USB hub come  *)
(* between any two characters it takes.  The keyboard buffer is the queue  *)
(* of module KeyQueue, which KeyboardBuffer implements.  CConsole runs in  *)
(* its plug-and-play mode without an alternate device, as luposapp.h sets  *)
(* it up.                                                                  *)
(*                                                                         *)
(* pc is where the reading task is:                                        *)
(*   "user"  in the Lua program (or in stdio above read)                   *)
(*   "read"  in the loop of CLineDiscipline::Read                          *)
(*   "poll"  in the loop of CGlueConsole::Read, behind an empty read       *)
(***************************************************************************)
EXTENDS Integers, Sequences, FiniteSets, SequencesExt

CONSTANTS
    Printable,   \* the characters from ' ' on
    Control,     \* control characters other than the two below
    BS, NL,      \* backspace (or delete) and carriage return (or newline)
    Keys,        \* the strings of the keys
    Capacity,    \* KEYB_BUF_SIZE - 1
    LD_MAXLINE,  \* 160 + 1 in linediscipline.h
    Counts,      \* the byte counts read asks for
    Modes,       \* the options the program sets with console.mode(integer)
    MaxKeys      \* bound: characters typed ahead and into one line

Chars   == Printable \union Control \union {BS, NL}
Options == {"ICANON", "ECHO"}

ASSUME ConsoleAssumption ==
    /\ BS # NL /\ {BS, NL} \intersect (Printable \union Control) = {}
    /\ Printable \intersect Control = {}
    /\ Keys \subseteq Seq(Chars)
    /\ Capacity \in Nat \ {0} /\ MaxKeys \in Nat
    /\ LD_MAXLINE \in Nat \ {0}
    /\ Counts \subseteq Nat \ {0}
    /\ Modes \subseteq SUBSET Options

VARIABLES
    plugged,     \* the keyboard is in its socket
    changed,     \* a port status event is in m_HubList (or no update yet)
    device,      \* the object "ukbd1": "none", "live", or "stale" when the
                 \* connection it was made for is gone
    attached,    \* CConsole::m_pInputDevice # 0; buffer and discipline exist
    q,           \* the characters in the keyboard buffer
    m_nOptions,  \* CConsole
    m_Mode, m_bEcho, m_Line, m_nOut,   \* CLineDiscipline: m_Buffer up to
                 \* m_pInPtr, and how much of it is before m_pOutPtr
    pc, caller, nCount, data,   \* the call in progress: who reads, how many
                 \* bytes it still takes, the bytes it has got
    session, saved,   \* whether repl() runs, and what its savemode() returned
    keys,        \* history: the keys of the line being typed or delivered,
                 \* without those that found the line full
    got,         \* history: what callers have got of that line
    shown        \* history: what the echo has left of that line on the screen

usb     == <<plugged, changed, device, attached>>
line    == <<m_Mode, m_bEcho, m_Line, m_nOut>>
call    == <<pc, caller, nCount, data>>
user    == <<session, saved>>
history == <<keys, got, shown>>
vars    == <<usb, q, m_nOptions, line, call, user, history>>

Sane == Options

TypeOK ==
    /\ plugged \in BOOLEAN /\ changed \in BOOLEAN /\ attached \in BOOLEAN
    /\ device \in {"none", "live", "stale"}
    /\ q \in Seq(Chars) /\ Len(q) <= Capacity
    /\ m_nOptions \in SUBSET Options
    /\ m_Mode \in {"Input", "Output", "Raw", "Unknown"}
    /\ m_bEcho \in BOOLEAN
    /\ m_Line \in Seq(Printable \union {NL}) /\ Len(m_Line) <= LD_MAXLINE
    /\ m_nOut \in 0 .. LD_MAXLINE
    /\ pc \in {"user", "read", "poll"}
    /\ caller \in {"stdin", "readkey"}
    /\ nCount \in Nat
    /\ data \in Seq(Chars)
    /\ session \in BOOLEAN
    /\ saved \in SUBSET Options
    /\ keys \in Seq(Chars) /\ got \in Seq(Chars) /\ shown \in Seq(Chars)

\* CConsole::Initialize has looked for the keyboard once; m_bFirstUpdateCall
\* makes the first update of the hub count as a change.
Init ==
    /\ plugged \in BOOLEAN
    /\ changed = TRUE
    /\ device = IF plugged THEN "live" ELSE "none"
    /\ attached = plugged
    /\ q = <<>>
    /\ m_nOptions = Sane
    /\ m_Mode = IF attached THEN "Input" ELSE "Unknown"
    /\ m_bEcho = TRUE
    /\ m_Line = <<>> /\ m_nOut = 0
    /\ pc = "user" /\ caller = "stdin" /\ nCount = 0 /\ data = <<>>
    /\ session = FALSE /\ saved = {}
    /\ keys = <<>> /\ got = <<>> /\ shown = <<>>

-----------------------------------------------------------------------------
(* What a line should become                                               *)

\* How many of the keys at the places i to j are in C.
Count(ks, C, i, j) == Cardinality({k \in i .. j : ks[k] \in C})

\* The key at place i of ks survives when it is printable and, from it on up to
\* any later place, there are fewer erasures than characters: none erases it.
Survives(ks, i) ==
    /\ ks[i] \in Printable
    /\ \A j \in i .. Len(ks) : Count(ks, {BS}, i, j) < Count(ks, Printable, i, j)

Survivors(ks) == {i \in 1 .. Len(ks) : Survives(ks, i)}

\* The text of the keys ks: those that survive, in their order.
Edited(ks) ==
    LET S       == Survivors(ks)
        Rank(i) == Cardinality({k \in S : k <= i})
    IN  [n \in 1 .. Cardinality(S) |-> ks[CHOOSE i \in S : Rank(i) = n]]

\* A printable key is refused when the text would not leave room for the end
\* of the line.
Typed(c) ==
    IF c \in Printable /\ Len(Edited(keys)) >= LD_MAXLINE - 1
    THEN keys ELSE Append(keys, c)

NoLine == keys' = <<>> /\ got' = <<>> /\ shown' = <<>>

-----------------------------------------------------------------------------
(* The keyboard and its socket: interrupts                                 *)

\* A key, or its repetition, which does not stop when the keyboard is pulled
\* out with the key held down.  MaxKeys bounds what is typed before NL.
Key(s) ==
    /\ device # "none" /\ attached
    /\ Len(q) + Len(keys) + Len(s) <= MaxKeys \/ NL \in ToSet(s)
    /\ LET room == Capacity - Len(q) IN
       q' = q \o SubSeq(s, 1, IF Len(s) <= room THEN Len(s) ELSE room)
    /\ UNCHANGED <<usb, m_nOptions, line, call, user, history>>

Plug ==
    /\ ~plugged
    /\ plugged' = TRUE /\ changed' = TRUE
    /\ UNCHANGED <<device, attached, q, m_nOptions, line, call, user, history>>

Unplug ==
    /\ plugged
    /\ plugged' = FALSE /\ changed' = TRUE
    /\ device' = IF device = "live" THEN "stale" ELSE device
    /\ UNCHANGED <<attached, q, m_nOptions, line, call, user, history>>

-----------------------------------------------------------------------------
(* Options                                                                 *)

\* The fields of the line discipline under the options o.
\* A plausible slip: the line typed so far is kept over a change of mode.
ApplyKeepsLine(o) ==
    /\ m_Mode' = IF "ICANON" \in o THEN "Input" ELSE "Raw"
    /\ m_bEcho' = IF "ECHO" \in o THEN TRUE ELSE FALSE
    /\ UNCHANGED <<m_Line, m_nOut>>
    /\ NoLine

Apply(o) ==
    /\ m_Mode' = IF "ICANON" \in o THEN "Input" ELSE "Raw"
    /\ m_bEcho' = IF "ECHO" \in o THEN TRUE ELSE FALSE
    /\ m_Line' = <<>> /\ m_nOut' = 0
    /\ NoLine

SetOptions(o) ==
    /\ m_nOptions' = o
    /\ IF attached THEN Apply(o) ELSE UNCHANGED <<line, history>>

\* The argument of console.mode: only a Lua integer and the string "sane"
\* change the mode.  The number that console.mode returns was pushed as a
\* float, so it is neither.
SetMode(arg) ==
    CASE arg.type = "integer" -> SetOptions(arg.value)
      [] arg.type = "sane"    -> SetOptions(Sane)
      [] OTHER                -> UNCHANGED <<m_nOptions, line, history>>

Integer(o) == [type |-> "integer", value |-> o]
Float(o)   == [type |-> "float", value |-> o]

ConMode(arg) ==
    /\ pc = "user"
    /\ SetMode(arg)
    /\ UNCHANGED <<usb, q, call, user>>

\* repl() saves the mode and sets raw mode, and restores the mode at its end.
ReplStart ==
    /\ pc = "user" /\ ~session
    /\ session' = TRUE /\ saved' = m_nOptions
    /\ SetMode(Integer({}))
    /\ UNCHANGED <<usb, q, call>>

ReplEnd ==
    /\ pc = "user" /\ session
    /\ session' = FALSE
    /\ SetMode(Float(saved))
    /\ UNCHANGED <<usb, q, call, saved>>

-----------------------------------------------------------------------------
(* Reading                                                                 *)

\* stdin asks for n bytes, console.readkey for one.
Read(who, n) ==
    /\ pc = "user"
    /\ pc' = "read" /\ caller' = who /\ nCount' = n /\ data' = <<>>
    /\ UNCHANGED <<usb, q, m_nOptions, line, user, history>>

\* CConsole::Read is done with the bytes d: nothing sends stdin to the loop of
\* CGlueConsole::Read, and readkey back to Lua with an empty string.
ReadReturns(d) ==
    pc' = IF d = <<>> /\ caller = "stdin" THEN "poll" ELSE "user"

NoDiscipline ==
    /\ pc = "read" /\ ~attached
    /\ ReadReturns(<<>>)
    /\ UNCHANGED <<usb, q, m_nOptions, line, caller, nCount, data, user, history>>

\* GetChar finds the buffer empty.
InputEmpty ==
    /\ pc = "read" /\ attached /\ m_Mode = "Input" /\ q = <<>>
    /\ ReadReturns(<<>>)
    /\ UNCHANGED <<usb, q, m_nOptions, line, caller, nCount, data, user, history>>

Echo(text) == shown' = IF m_bEcho THEN text ELSE shown

Erase ==
    /\ IF m_Line # <<>>
       THEN m_Line' = Front(m_Line) /\ Echo(Front(shown))
       ELSE UNCHANGED <<m_Line, shown>>
    /\ UNCHANGED <<m_Mode, m_nOut>>

EndLine ==
    /\ m_Line' = Append(m_Line, NL)
    /\ Echo(Append(shown, NL))
    /\ m_nOut' = 0
    /\ m_Mode' = "Output"

\* A plausible slip: the echo does not depend on whether the line has room.
InsertEchoed(c) ==
    /\ m_Line' = IF Len(m_Line) < LD_MAXLINE - 1 THEN Append(m_Line, c) ELSE m_Line
    /\ Echo(Append(shown, c))
    /\ UNCHANGED <<m_Mode, m_nOut>>

Insert(c) ==
    /\ IF Len(m_Line) < LD_MAXLINE - 1
       THEN m_Line' = Append(m_Line, c) /\ Echo(Append(shown, c))
       ELSE UNCHANGED <<m_Line, shown>>
    /\ UNCHANGED <<m_Mode, m_nOut>>

InputChar ==
    /\ pc = "read" /\ attached /\ m_Mode = "Input" /\ q # <<>>
    /\ LET c == Head(q) IN
       /\ q' = Tail(q)
       /\ \/ c = BS /\ Erase
          \/ c = NL /\ EndLine
          \/ c \in Printable /\ Insert(c)
          \/ c \in Control /\ UNCHANGED <<m_Mode, m_Line, m_nOut, shown>>
       /\ keys' = Typed(c)
    /\ UNCHANGED <<usb, m_nOptions, m_bEcho, call, user, got>>

\* A plausible slip: what the caller has no room for is thrown away.
OutputOnce ==
    /\ pc = "read" /\ attached /\ m_Mode = "Output"
    /\ LET rest == Len(m_Line) - m_nOut
           k    == IF nCount <= rest THEN nCount ELSE rest
       IN  /\ data' = data \o SubSeq(m_Line, m_nOut + 1, m_nOut + k)
           /\ nCount' = nCount - k
           /\ m_Line' = <<>> /\ m_nOut' = 0 /\ m_Mode' = "Input"
           /\ IF k = rest THEN NoLine
              ELSE got' = got \o SubSeq(m_Line, m_nOut + 1, m_nOut + k) /\ UNCHANGED <<keys, shown>>
    /\ ReadReturns(data')
    /\ UNCHANGED <<usb, q, m_nOptions, m_bEcho, caller, user>>

\* The loop over m_pOutPtr: as much of the line as the caller takes; with the
\* last character the discipline is ready for the next line.
Output ==
    /\ pc = "read" /\ attached /\ m_Mode = "Output"
    /\ LET rest == Len(m_Line) - m_nOut
           k    == IF nCount <= rest THEN nCount ELSE rest
       IN  /\ data' = data \o SubSeq(m_Line, m_nOut + 1, m_nOut + k)
           /\ nCount' = nCount - k
           /\ IF k = rest
              THEN /\ m_Line' = <<>> /\ m_nOut' = 0 /\ m_Mode' = "Input"
                   /\ NoLine
              ELSE /\ m_nOut' = m_nOut + k
                   /\ got' = got \o SubSeq(m_Line, m_nOut + 1, m_nOut + k)
                   /\ UNCHANGED <<m_Line, m_Mode, keys, shown>>
    /\ ReadReturns(data')
    /\ UNCHANGED <<usb, q, m_nOptions, m_bEcho, caller, user>>

RawChar ==
    /\ pc = "read" /\ attached /\ m_Mode = "Raw" /\ nCount > 0 /\ q # <<>>
    /\ q' = Tail(q)
    /\ data' = Append(data, Head(q))
    /\ nCount' = nCount - 1
    /\ UNCHANGED <<usb, m_nOptions, line, pc, caller, user, history>>

\* A plausible slip: a raw read returns only with all the bytes asked for.
RawReturnsFull ==
    /\ pc = "read" /\ attached /\ m_Mode = "Raw" /\ nCount = 0
    /\ ReadReturns(data)
    /\ UNCHANGED <<usb, q, m_nOptions, line, caller, nCount, data, user, history>>

RawReturns ==
    /\ pc = "read" /\ attached /\ m_Mode = "Raw" /\ (nCount = 0 \/ q = <<>>)
    /\ ReadReturns(data)
    /\ UNCHANGED <<usb, q, m_nOptions, line, caller, nCount, data, user, history>>

-----------------------------------------------------------------------------
(* Plug and play, in the loop of CGlueConsole::Read                        *)

\* What HandlePortStatusChange makes of the keyboard object: it looks only at
\* whether a device is connected now.
Updated ==
    IF changed THEN IF plugged THEN IF device = "none" THEN "live" ELSE device
                    ELSE "none"
    ELSE device

\* KeyboardRemovedHandler, called by the destructor of the device.
Detach ==
    /\ attached' = FALSE
    /\ q' = <<>>
    /\ m_Mode' = "Unknown" /\ m_Line' = <<>> /\ m_nOut' = 0
    /\ UNCHANGED m_bEcho
    /\ NoLine

\* A plausible slip: the new line discipline keeps its own defaults.
AttachDefaults ==
    /\ attached' = TRUE
    /\ q' = <<>>
    /\ Apply(Sane)

\* CConsole::UpdatePlugAndPlay with a keyboard and no input device.
Attach ==
    /\ attached' = TRUE
    /\ q' = <<>>
    /\ Apply(m_nOptions)

Poll ==
    /\ pc = "poll"
    /\ pc' = "read"
    /\ device' = Updated
    /\ changed' = FALSE
    /\ \/ attached /\ device # "none" /\ Updated = "none" /\ Detach
       \/ ~attached /\ changed /\ Updated # "none" /\ Attach
       \/ /\ (attached <=> Updated # "none") \/ ~changed
          /\ UNCHANGED <<attached, q, line, history>>
    /\ UNCHANGED <<plugged, m_nOptions, caller, nCount, data, user>>

-----------------------------------------------------------------------------
Reading ==
    \/ NoDiscipline \/ InputEmpty \/ InputChar \/ Output
    \/ RawChar \/ RawReturns \/ Poll

Program ==
    \/ \E n \in Counts : Read("stdin", n)
    \/ Read("readkey", 1)
    \/ \E o \in Modes : ConMode(Integer(o))
    \/ ConMode([type |-> "sane", value |-> {}])
    \/ ReplStart
    \/ ReplEnd

Interrupt == (\E s \in Keys : Key(s)) \/ Plug \/ Unplug

Next == Reading \/ Program \/ Interrupt

\* The scheduler gives the reading task the core again and again (module
\* Scheduler, ReadyRuns), and its loops do not stop.
Spec == Init /\ [][Next]_vars /\ WF_vars(Reading)

-----------------------------------------------------------------------------
(* Properties                                                              *)

Canonical == attached /\ "ICANON" \in m_nOptions

\* The line in m_Buffer is what the keys pressed for it spell, whatever was
\* erased, refused or ignored, and however the keyboard, the mode and the
\* reads changed in between.
LineEdited ==
    Canonical => m_Line = IF m_Mode = "Output" THEN Append(Edited(Front(keys)), NL)
                          ELSE Edited(keys)

\* Callers get the bytes of a line in order and without a gap, however small
\* their pieces, and nothing of a line that is not finished.
Delivered ==
    Canonical => IF m_Mode = "Output"
                 THEN got = SubSeq(m_Line, 1, m_nOut) /\ m_nOut < Len(m_Line)
                 ELSE got = <<>>

\* With echo the user sees the line that will be delivered, also when it is
\* full.
EchoTrue == Canonical /\ m_bEcho => shown = m_Line

\* The line discipline follows the options, also the one that was made for a
\* keyboard that came later.
OptionsApplied ==
    attached => /\ m_Mode = "Raw" <=> "ICANON" \notin m_nOptions
                /\ m_bEcho <=> "ECHO" \in m_nOptions

Waits == pc # "user" /\ caller = "stdin"

Readable ==
    \/ m_Mode = "Raw" /\ q # <<>>
    \/ m_Mode = "Input" /\ NL \in ToSet(q)
    \/ m_Mode = "Output"

\* A read of stdin for which there is input ends, unless the keyboard goes.
ReadEnds == Waits /\ attached /\ Readable ~> pc = "user" \/ ~attached
=============================================================================
