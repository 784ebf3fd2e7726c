---------------------------- MODULE ConsoleProofs ----------------------------
(***************************************************************************)
(* Theorems about Console, for any set of characters and keys, any length  *)
(* of the queue and of the line, any byte counts and any options.          *)
(***************************************************************************)
EXTENDS Console, SequenceTheorems, FiniteSetTheorems, TLAPS

-----------------------------------------------------------------------------
(* The invariant                                                           *)

\* What the properties need to be inductive.  The line discipline is in a mode
\* that the options allow; while a line is typed there is room for its end and
\* nothing of it was delivered; while it is delivered something is left.
LineInv ==
    /\ attached =>
         /\ m_Mode \in {"Input", "Output", "Raw"}
         /\ m_Mode = "Raw" <=> "ICANON" \notin m_nOptions
         /\ m_bEcho <=> "ECHO" \in m_nOptions
    /\ m_Mode = "Input" => Len(m_Line) < LD_MAXLINE /\ m_nOut = 0 /\ got = <<>>
    /\ m_Mode = "Output" => m_nOut < Len(m_Line) /\ got = SubSeq(m_Line, 1, m_nOut)
    /\ m_Mode \in {"Input", "Output"} /\ m_bEcho => shown = m_Line

IInv == TypeOK /\ LineInv

LEMMA ConstantFacts ==
    /\ Options \in SUBSET Options /\ {} \in SUBSET Options
    /\ Capacity \in Nat /\ LD_MAXLINE \in Nat \ {0}
    /\ BS \in Chars /\ NL \in Chars /\ Printable \subseteq Chars
    /\ Printable \union {NL} \subseteq Chars /\ BS # NL
    /\ BS \notin Printable /\ NL \notin Printable
  BY ConsoleAssumption DEF ConsoleAssumption, Chars, Options

\* All but the last element of a sequence.
LEMMA FrontFacts ==
    ASSUME NEW S, NEW s \in Seq(S), s # <<>>
    PROVE  Front(s) \in Seq(S) /\ Len(Front(s)) = Len(s) - 1
<1>1. Len(s) \in Nat \ {0}
  BY EmptySeq
<1>2. \A i \in 1 .. Len(s) - 1 : s[i] \in S
  BY <1>1, ElementOfSeq
<1> DEFINE n == Len(s) - 1
<1>3. n \in Int /\ 1 \in Int
  BY <1>1
<1>4. /\ SubSeq(s, 1, n) \in Seq(S)
      /\ Len(SubSeq(s, 1, n)) = IF 1 <= n THEN n - 1 + 1 ELSE 0
  BY <1>2, <1>3, SubSeqProperties
<1>5. Len(SubSeq(s, 1, n)) = n
  <2> HIDE DEF n
  <2>1. n \in Nat
    BY <1>1 DEF n
  <2> QED  BY <1>4, <2>1
<1>6. Front(s) = SubSeq(s, 1, n)
  BY DEF Front
<1>7. n = Len(s) - 1
  OBVIOUS
<1> HIDE DEF n
<1> QED  BY <1>4, <1>5, <1>6, <1>7

LEMMA InitInv == Init => IInv
<1>1. \A S : <<>> \in Seq(S) /\ Len(<<>>) = 0
  OBVIOUS
<1> SUFFICES ASSUME Init PROVE IInv
  OBVIOUS
<1>2. TypeOK
  <2>1. /\ plugged \in BOOLEAN /\ changed \in BOOLEAN /\ attached \in BOOLEAN
        /\ device \in {"none", "live", "stale"}
        /\ m_Mode \in {"Input", "Output", "Raw", "Unknown"}
        /\ m_bEcho \in BOOLEAN /\ session \in BOOLEAN
    BY DEF Init
  <2>2. m_nOptions \in SUBSET Options /\ saved \in SUBSET Options
    BY ConstantFacts DEF Init, Sane
  <2> QED  BY <1>1, <2>1, <2>2, ConstantFacts DEF Init, TypeOK
<1>3. attached => m_Mode = "Input" /\ m_bEcho /\ m_nOptions = Options
  BY DEF Init, Sane
<1>4. "ICANON" \in Options /\ "ECHO" \in Options
  BY DEF Options
<1>5. LineInv
  BY <1>1, <1>3, <1>4, ConstantFacts DEF Init, LineInv
<1> QED  BY <1>2, <1>5 DEF IInv

-----------------------------------------------------------------------------
(* The options                                                             *)

\* Setting options resets the line discipline, if there is one.
LEMMA ApplyInv ==
    ASSUME IInv, NEW o \in SUBSET Options, Apply(o), m_nOptions' = o
    PROVE  /\ m_nOptions' \in SUBSET Options /\ LineInv'
           /\ m_Mode' \in {"Input", "Output", "Raw", "Unknown"}
           /\ m_bEcho' \in BOOLEAN
           /\ m_Line' \in Seq(Printable \union {NL}) /\ Len(m_Line') <= LD_MAXLINE
           /\ m_nOut' \in 0 .. LD_MAXLINE
           /\ keys' \in Seq(Chars) /\ got' \in Seq(Chars) /\ shown' \in Seq(Chars)
<1>1. \A S : <<>> \in Seq(S) /\ Len(<<>>) = 0
  OBVIOUS
<1>2. /\ m_Mode' = IF "ICANON" \in o THEN "Input" ELSE "Raw"
      /\ m_Line' = <<>> /\ m_nOut' = 0
      /\ keys' = <<>> /\ got' = <<>> /\ shown' = <<>>
  BY DEF Apply, NoLine
<1>3. m_bEcho' \in BOOLEAN /\ (m_bEcho' <=> "ECHO" \in m_nOptions')
  BY DEF Apply
<1>4. LineInv'
  BY <1>1, <1>2, <1>3, ConstantFacts DEF LineInv
<1> QED  BY <1>1, <1>2, <1>3, <1>4, ConstantFacts

LEMMA SetOptionsInv ==
    ASSUME IInv, NEW o \in SUBSET Options, SetOptions(o), UNCHANGED <<usb, q, call>>,
           session' \in BOOLEAN, saved' \in SUBSET Options
    PROVE  IInv'
<1>1. CASE attached
  BY <1>1, ApplyInv DEF IInv, TypeOK, SetOptions, usb, call
<1>2. CASE ~attached
  BY <1>2 DEF IInv, TypeOK, LineInv, SetOptions, usb, line, call, history
<1> QED  BY <1>1, <1>2

LEMMA SetModeInv ==
    ASSUME IInv, NEW arg, arg.type = "integer" => arg.value \in SUBSET Options,
           SetMode(arg), UNCHANGED <<usb, q, call>>,
           session' \in BOOLEAN, saved' \in SUBSET Options
    PROVE  IInv'
<1>1. CASE arg.type = "integer"
  BY <1>1, SetOptionsInv DEF SetMode
<1>2. CASE arg.type = "sane"
  BY <1>2, SetOptionsInv, ConstantFacts DEF SetMode, Sane
<1>3. CASE arg.type # "integer" /\ arg.type # "sane"
  BY <1>3 DEF SetMode, IInv, TypeOK, LineInv, usb, line, call, history
<1> QED  BY <1>1, <1>2, <1>3

LEMMA ProgramInv ==
    ASSUME IInv, Program
    PROVE  IInv'
<1>1. ASSUME NEW who \in {"stdin", "readkey"}, NEW n \in Nat, Read(who, n)
      PROVE  IInv'
  <2>1. <<>> \in Seq(Chars)
    OBVIOUS
  <2> QED  BY <1>1, <2>1 DEF Read, IInv, TypeOK, LineInv, usb, line, user, history
<1>2. ASSUME NEW o \in Modes, ConMode(Integer(o))
      PROVE  IInv'
  <2>1. o \in SUBSET Options
    BY ConsoleAssumption DEF ConsoleAssumption
  <2> QED  BY <1>2, <2>1, SetModeInv DEF ConMode, Integer, IInv, TypeOK, user
<1>3. CASE ConMode([type |-> "sane", value |-> {}])
  BY <1>3, SetModeInv DEF ConMode, IInv, TypeOK, user
<1>4. CASE ReplStart
  BY <1>4, SetModeInv, ConstantFacts DEF ReplStart, Integer, IInv, TypeOK
<1>5. CASE ReplEnd
  BY <1>5, SetModeInv DEF ReplEnd, Float, IInv, TypeOK
<1>6. \A n \in Counts : n \in Nat
  BY ConsoleAssumption DEF ConsoleAssumption
<1> QED  BY <1>1, <1>2, <1>3, <1>4, <1>5, <1>6 DEF Program

-----------------------------------------------------------------------------
(* The interrupts                                                          *)

LEMMA InterruptInv ==
    ASSUME IInv, Interrupt
    PROVE  IInv'
<1>1. ASSUME NEW s \in Keys, Key(s)
      PROVE  IInv'
  <2> DEFINE room == Capacity - Len(q)
             n    == IF Len(s) <= room THEN Len(s) ELSE room
  <2>1. /\ s \in Seq(Chars) /\ q \in Seq(Chars)
        /\ Len(s) \in Nat /\ Len(q) \in Nat /\ Len(q) <= Capacity
    BY ConsoleAssumption DEF ConsoleAssumption, IInv, TypeOK
  <2>2. n \in 0 .. Len(s) /\ Len(q) + n <= Capacity
    BY <2>1, ConstantFacts
  <2>3. \A i \in 1 .. n : s[i] \in Chars
    BY <2>1, <2>2, ElementOfSeq
  <2>4. /\ SubSeq(s, 1, n) \in Seq(Chars)
        /\ Len(SubSeq(s, 1, n)) = IF 1 <= n THEN n - 1 + 1 ELSE 0
    <3> HIDE DEF n
    <3> QED  BY <2>1, <2>2, <2>3, SubSeqProperties
  <2>5. Len(SubSeq(s, 1, n)) = n
    BY <2>2, <2>4
  <2>6. q' = q \o SubSeq(s, 1, n)
    BY <1>1 DEF Key
  <2>7. q' \in Seq(Chars) /\ Len(q') = Len(q) + n
    <3> HIDE DEF n
    <3> QED  BY <2>1, <2>4, <2>5, <2>6, ConcatProperties
  <2>8. Len(q') <= Capacity
    BY <2>2, <2>7
  <2> QED  BY SMTT(30), <1>1, <2>7, <2>8
           DEF Key, IInv, TypeOK, LineInv, usb, line, call, user, history
<1>2. CASE Plug
  BY <1>2 DEF Plug, IInv, TypeOK, LineInv, line, call, user, history
<1>3. CASE Unplug
  BY ZenonT(40), <1>3 DEF Unplug, IInv, TypeOK, LineInv, line, call, user, history
<1> QED  BY <1>1, <1>2, <1>3 DEF Interrupt

-----------------------------------------------------------------------------
(* Reading                                                                 *)

\* What a step that only leaves the loop of the discipline does.
LEMMA ReturnInv ==
    ASSUME IInv, NEW d, ReadReturns(d),
           UNCHANGED <<usb, q, m_nOptions, line, caller, nCount, data, user, history>>
    PROVE  IInv'
  BY DEF ReadReturns, IInv, TypeOK, LineInv, usb, line, user, history

LEMMA InputCharInv ==
    ASSUME IInv, InputChar
    PROVE  IInv'
<1> DEFINE c == Head(q)
<1>1. /\ q \in Seq(Chars) /\ q # <<>> /\ m_Mode = "Input" /\ attached
      /\ m_Line \in Seq(Printable \union {NL}) /\ shown \in Seq(Chars)
      /\ Len(m_Line) \in Nat /\ Len(m_Line) < LD_MAXLINE
      /\ m_nOut = 0 /\ got = <<>>
      /\ m_bEcho \in BOOLEAN /\ (m_bEcho => shown = m_Line)
  BY DEF InputChar, IInv, TypeOK, LineInv
<1>2. /\ c \in Chars /\ Tail(q) \in Seq(Chars) /\ Len(Tail(q)) = Len(q) - 1
  BY <1>1, HeadTailProperties
<1>3. q' \in Seq(Chars) /\ Len(q') <= Capacity
  <2>1. Len(q) \in Nat /\ Len(q) <= Capacity /\ q' = Tail(q)
    BY <1>1 DEF InputChar, IInv, TypeOK
  <2> QED  BY <1>2, <2>1, ConstantFacts
<1>4. keys' \in Seq(Chars)
  <2>1. keys \in Seq(Chars) /\ keys' = Typed(c)
    BY DEF InputChar, IInv, TypeOK
  <2>2. Append(keys, c) \in Seq(Chars)
    BY <1>2, <2>1, AppendProperties
  <2> QED  BY <2>1, <2>2 DEF Typed
<1>5. /\ m_bEcho' = m_bEcho /\ got' = got /\ attached' = attached
      /\ m_nOptions' = m_nOptions
  BY DEF InputChar, usb
<1> DEFINE Good ==
      /\ m_Line' \in Seq(Printable \union {NL}) /\ shown' \in Seq(Chars)
      /\ m_bEcho => shown' = m_Line'
      /\ \/ m_Mode' = "Input" /\ Len(m_Line') < LD_MAXLINE /\ m_nOut' = 0
         \/ m_Mode' = "Output" /\ Len(m_Line') \in 1 .. LD_MAXLINE /\ m_nOut' = 0
<1>6. ASSUME c = BS, Erase
      PROVE  Good
  <2>1. CASE m_Line # <<>>
    <3>1. /\ Front(m_Line) \in Seq(Printable \union {NL})
          /\ Len(Front(m_Line)) = Len(m_Line) - 1
      BY <1>1, <2>1, FrontFacts
    <3>2. m_bEcho => Front(shown) \in Seq(Chars)
      BY <1>1, <2>1, FrontFacts
    <3> QED  BY <1>1, <1>6, <2>1, <3>1, <3>2, ConstantFacts DEF Erase, Echo
  <2>2. CASE m_Line = <<>>
    BY <1>1, <1>6, <2>2 DEF Erase
  <2> QED  BY <2>1, <2>2
<1>7. ASSUME c = NL, EndLine
      PROVE  Good
  <2>1. NL \in Printable \union {NL} /\ NL \in Chars
    BY ConstantFacts
  <2>2. /\ Append(m_Line, NL) \in Seq(Printable \union {NL})
        /\ Len(Append(m_Line, NL)) = Len(m_Line) + 1
    BY <1>1, <2>1, AppendProperties
  <2>3. Append(shown, NL) \in Seq(Chars)
    BY <1>1, <2>1, AppendProperties
  <2> QED  BY <1>1, <1>7, <2>2, <2>3, ConstantFacts DEF EndLine, Echo
<1>8. ASSUME c \in Printable, Insert(c)
      PROVE  Good
  <2>1. CASE Len(m_Line) < LD_MAXLINE - 1
    <3>1. c \in Printable \union {NL}
      BY <1>8
    <3>2. /\ Append(m_Line, c) \in Seq(Printable \union {NL})
          /\ Len(Append(m_Line, c)) = Len(m_Line) + 1
      <4> HIDE DEF c
      <4> QED  BY <1>1, <3>1, AppendProperties
    <3>3. Append(shown, c) \in Seq(Chars)
      BY <1>1, <1>2, AppendProperties
    <3>4. /\ m_Line' = Append(m_Line, c) /\ m_Mode' = m_Mode /\ m_nOut' = m_nOut
          /\ shown' = IF m_bEcho THEN Append(shown, c) ELSE shown
      BY <1>8, <2>1 DEF Insert, Echo
    <3> HIDE DEF c
    <3>5. Len(m_Line') < LD_MAXLINE
      BY <1>1, <2>1, <3>2, <3>4, ConstantFacts
    <3>6. shown' \in Seq(Chars) /\ (m_bEcho => shown' = m_Line')
      BY <1>1, <3>3, <3>4
    <3> QED  BY <1>1, <3>2, <3>4, <3>5, <3>6
  <2>2. CASE ~(Len(m_Line) < LD_MAXLINE - 1)
    BY <1>1, <1>8, <2>2 DEF Insert
  <2> QED  BY <2>1, <2>2
<1>9. ASSUME UNCHANGED <<m_Mode, m_Line, m_nOut, shown>>
      PROVE  Good
  BY <1>1, <1>9
<1>10. Good
  BY <1>6, <1>7, <1>8, <1>9 DEF InputChar
<1>11. LineInv'
  <2>1. CASE m_Mode' = "Input"
    BY <1>1, <1>5, <1>10, <2>1 DEF IInv, LineInv
  <2>2. CASE m_Mode' = "Output"
    <3>1. SubSeq(m_Line', 1, 0) = <<>>
      BY SubSeqEmpty
    <3> QED  BY <1>1, <1>5, <1>10, <2>2, <3>1 DEF IInv, LineInv
  <2> QED  BY <1>10, <2>1, <2>2
<1>12. TypeOK'
  <2>1. m_nOut' \in 0 .. LD_MAXLINE /\ Len(m_Line') <= LD_MAXLINE
    BY <1>10, ConstantFacts, LenProperties
  <2> HIDE DEF c
  <2> QED  BY <1>3, <1>4, <1>10, <2>1 DEF InputChar, IInv, TypeOK, usb, call, user
<1> QED  BY <1>11, <1>12 DEF IInv

LEMMA OutputInv ==
    ASSUME IInv, Output
    PROVE  IInv'
<1> DEFINE rest == Len(m_Line) - m_nOut
           k    == IF nCount <= rest THEN nCount ELSE rest
           out  == SubSeq(m_Line, m_nOut + 1, m_nOut + k)
<1>1. /\ m_Line \in Seq(Printable \union {NL}) /\ Len(m_Line) \in Nat
      /\ Len(m_Line) <= LD_MAXLINE /\ m_nOut \in Nat /\ m_nOut < Len(m_Line)
      /\ nCount \in Nat /\ data \in Seq(Chars) /\ m_Mode = "Output" /\ attached
      /\ got \in Seq(Chars) /\ got = SubSeq(m_Line, 1, m_nOut)
      /\ m_bEcho \in BOOLEAN /\ (m_bEcho => shown = m_Line)
  BY ConstantFacts, LenProperties DEF Output, IInv, TypeOK, LineInv
<1>2. k \in Nat /\ k <= rest /\ k <= nCount /\ m_nOut + k \in 0 .. Len(m_Line)
  BY <1>1
<1>3. \A i \in m_nOut + 1 .. m_nOut + k : m_Line[i] \in Chars
  <2> SUFFICES ASSUME NEW i \in m_nOut + 1 .. m_nOut + k
               PROVE  m_Line[i] \in Chars
    OBVIOUS
  <2>1. i \in 1 .. Len(m_Line)
    BY <1>1, <1>2
  <2>2. m_Line[i] \in Printable \union {NL}
    BY <1>1, <2>1, ElementOfSeq
  <2> QED  BY <2>2, ConstantFacts
<1>4. out \in Seq(Chars)
  <2> HIDE DEF k
  <2>1. m_nOut + 1 \in Int /\ m_nOut + k \in Int
    BY <1>1, <1>2
  <2> QED  BY <1>3, <2>1, SubSeqProperties
<1>5. data \o out \in Seq(Chars) /\ got \o out \in Seq(Chars)
  <2> HIDE DEF out
  <2> QED  BY <1>1, <1>4, ConcatProperties
<1>6. /\ data' = data \o out /\ nCount' = nCount - k
      /\ IF k = rest
         THEN /\ m_Line' = <<>> /\ m_nOut' = 0 /\ m_Mode' = "Input"
              /\ NoLine
         ELSE /\ m_nOut' = m_nOut + k
              /\ got' = got \o out
              /\ UNCHANGED <<m_Line, m_Mode, keys, shown>>
      /\ ReadReturns(data')
      /\ UNCHANGED <<usb, q, m_nOptions, m_bEcho, caller, user>>
  BY DEF Output
<1>7. nCount' \in Nat /\ data' \in Seq(Chars) /\ pc' \in {"user", "read", "poll"}
  <2> HIDE DEF k, out
  <2> QED  BY <1>1, <1>2, <1>5, <1>6 DEF ReadReturns
<1> HIDE DEF k, out, rest
<1>8. CASE k = rest
  <2>1. \A S : <<>> \in Seq(S) /\ Len(<<>>) = 0
    OBVIOUS
  <2>2. /\ m_Line' = <<>> /\ m_nOut' = 0 /\ m_Mode' = "Input"
        /\ keys' = <<>> /\ got' = <<>> /\ shown' = <<>>
    BY <1>6, <1>8 DEF NoLine
  <2>3. TypeOK'
    BY <1>6, <1>7, <2>1, <2>2, ConstantFacts DEF IInv, TypeOK, usb, user
  <2>4. LineInv'
    BY <1>1, <1>6, <2>1, <2>2, ConstantFacts DEF IInv, LineInv, usb
  <2> QED  BY <2>3, <2>4 DEF IInv
<1>9. CASE k # rest
  <2>1. /\ m_nOut' = m_nOut + k /\ got' = got \o out
        /\ UNCHANGED <<m_Line, m_Mode, keys, shown>>
    BY <1>6, <1>9
  <2>2. m_nOut' \in 0 .. LD_MAXLINE /\ m_nOut' < Len(m_Line)
    BY <1>1, <1>2, <1>9, <2>1, ConstantFacts DEF rest
  <2>3. got' = SubSeq(m_Line, 1, m_nOut')
    <3>1. 1 \in 1 .. Len(m_Line) + 1 /\ m_nOut \in 1 - 1 .. Len(m_Line)
      BY <1>1
    <3>2. m_nOut + k \in m_nOut .. Len(m_Line)
      BY <1>1, <1>2
    <3>3. SubSeq(m_Line, 1, m_nOut) \o SubSeq(m_Line, m_nOut + 1, m_nOut + k)
              = SubSeq(m_Line, 1, m_nOut + k)
      BY <1>1, <3>1, <3>2, ConcatAdjacentSubSeq
    <3> QED  BY <1>1, <2>1, <3>3 DEF out
  <2>4. TypeOK'
    BY <1>5, <1>6, <1>7, <2>1, <2>2 DEF IInv, TypeOK, usb, user
  <2>5. LineInv'
    BY <1>1, <1>6, <2>1, <2>2, <2>3 DEF IInv, LineInv, usb
  <2> QED  BY <2>4, <2>5 DEF IInv
<1> QED  BY <1>8, <1>9

LEMMA RawCharInv ==
    ASSUME IInv, RawChar
    PROVE  IInv'
<1>1. /\ q \in Seq(Chars) /\ q # <<>> /\ Len(q) \in Nat /\ Len(q) <= Capacity
      /\ data \in Seq(Chars) /\ nCount \in Nat /\ nCount > 0
  BY LenProperties DEF RawChar, IInv, TypeOK
<1>2. /\ Head(q) \in Chars /\ Tail(q) \in Seq(Chars) /\ Len(Tail(q)) = Len(q) - 1
  BY <1>1, HeadTailProperties
<1>3. q' \in Seq(Chars) /\ Len(q') <= Capacity
  BY <1>1, <1>2, ConstantFacts DEF RawChar
<1>4. data' \in Seq(Chars)
  BY <1>1, <1>2, AppendProperties DEF RawChar
<1>5. nCount' \in Nat
  BY <1>1 DEF RawChar
<1> QED  BY <1>3, <1>4, <1>5
         DEF RawChar, IInv, TypeOK, LineInv, usb, line, user, history

LEMMA PollInv ==
    ASSUME IInv, Poll
    PROVE  IInv'
<1>1. \A S : <<>> \in Seq(S) /\ Len(<<>>) = 0
  OBVIOUS
<1>2. /\ device' \in {"none", "live", "stale"} /\ changed' \in BOOLEAN
      /\ pc' \in {"user", "read", "poll"}
  BY DEF Poll, Updated, IInv, TypeOK
<1>3. CASE Detach
  <2>1. /\ attached' = FALSE /\ q' = <<>>
        /\ m_Mode' = "Unknown" /\ m_Line' = <<>> /\ m_nOut' = 0
        /\ keys' = <<>> /\ got' = <<>> /\ shown' = <<>> /\ m_bEcho' = m_bEcho
    BY <1>3 DEF Detach, NoLine
  <2>2. TypeOK'
    <3>1. UNCHANGED <<plugged, m_nOptions, caller, nCount, data, user>>
      BY DEF Poll
    <3>2. /\ attached' \in BOOLEAN /\ m_bEcho' \in BOOLEAN
          /\ m_Mode' \in {"Input", "Output", "Raw", "Unknown"}
      BY <2>1 DEF IInv, TypeOK
    <3>3. 0 <= Capacity /\ 0 <= LD_MAXLINE /\ 0 \in 0 .. LD_MAXLINE
      BY ConstantFacts
    <3> QED  BY <1>1, <1>2, <2>1, <3>1, <3>2, <3>3 DEF IInv, TypeOK, user
  <2>3. LineInv'
    BY <2>1 DEF LineInv
  <2> QED  BY <2>2, <2>3 DEF IInv
<1>4. CASE Attach
  <2>1. m_nOptions \in SUBSET Options /\ m_nOptions' = m_nOptions
    BY DEF Poll, IInv, TypeOK
  <2>2. /\ LineInv'
        /\ m_Mode' \in {"Input", "Output", "Raw", "Unknown"}
        /\ m_bEcho' \in BOOLEAN
        /\ m_Line' \in Seq(Printable \union {NL}) /\ Len(m_Line') <= LD_MAXLINE
        /\ m_nOut' \in 0 .. LD_MAXLINE
        /\ keys' \in Seq(Chars) /\ got' \in Seq(Chars) /\ shown' \in Seq(Chars)
    BY <1>4, <2>1, ApplyInv DEF Attach
  <2>3. attached' = TRUE /\ q' = <<>>
    BY <1>4 DEF Attach
  <2>4. TypeOK'
    BY <1>1, <1>2, <2>1, <2>2, <2>3, ConstantFacts DEF Poll, IInv, TypeOK, user
  <2> QED  BY <2>2, <2>4 DEF IInv
<1>5. CASE UNCHANGED <<attached, q, line, history>>
  BY <1>2, <1>5 DEF Poll, IInv, TypeOK, LineInv, line, user, history
<1>6. Detach \/ Attach \/ UNCHANGED <<attached, q, line, history>>
  BY DEF Poll
<1> QED  BY <1>3, <1>4, <1>5, <1>6

LEMMA StepInv == IInv /\ [Next]_vars => IInv'
<1> SUFFICES ASSUME IInv, [Next]_vars PROVE IInv'
  OBVIOUS
<1>1. ASSUME Reading PROVE IInv'
  <2>1. CASE NoDiscipline
    BY <2>1, ReturnInv DEF NoDiscipline
  <2>2. CASE InputEmpty
    BY <2>2, ReturnInv DEF InputEmpty
  <2>3. CASE RawReturns
    BY <2>3, ReturnInv DEF RawReturns
  <2> QED  BY <1>1, <2>1, <2>2, <2>3, InputCharInv, OutputInv, RawCharInv, PollInv
           DEF Reading
<1>2. CASE UNCHANGED vars
  BY <1>2 DEF vars, IInv, TypeOK, LineInv, usb, line, call, user, history
<1> QED  BY <1>1, <1>2, ProgramInv, InterruptInv DEF Next

-----------------------------------------------------------------------------
(* The text that the keys spell                                            *)

\* The text, letter by letter, has its keys at the places p: they are the ones
\* that survive, in their order, and from each of them on there are as many
\* more characters than erasures as the text has letters from there on.  That
\* is how many erasures the key survives, and the last one survives none.
Placed(ks, text, p) ==
    /\ p \in [1 .. Len(text) -> 1 .. Len(ks)]
    /\ \A j, k \in 1 .. Len(text) : j < k => p[j] < p[k]
    /\ Survivors(ks) = {p[k] : k \in 1 .. Len(text)}
    /\ \A k \in 1 .. Len(text) : text[k] = ks[p[k]]
    /\ \A k \in 1 .. Len(text) :
           Count(ks, Printable, p[k], Len(ks)) - Count(ks, {BS}, p[k], Len(ks))
               = Len(text) - k + 1

\* What one more key adds to a count.
LEMMA CountMore ==
    ASSUME NEW ks \in Seq(Chars), NEW c \in Chars, NEW C,
           NEW i \in 1 .. Len(ks) + 1
    PROVE  /\ Count(ks, C, i, Len(ks)) \in Nat
           /\ \A j \in 0 .. Len(ks) : Count(Append(ks, c), C, i, j) = Count(ks, C, i, j)
           /\ Count(Append(ks, c), C, i, Len(ks) + 1)
                = Count(ks, C, i, Len(ks)) + IF c \in C THEN 1 ELSE 0
<1> DEFINE more == Append(ks, c)
           n == Len(ks)
           S == {k \in i .. n : ks[k] \in C}
           T == {k \in i .. n + 1 : more[k] \in C}
<1>1. /\ Len(ks) \in Nat /\ n \in Nat /\ i \in Nat /\ 1 <= i /\ i <= n + 1
      /\ more[n + 1] = c /\ \A k \in 1 .. n : more[k] = ks[k]
  <2>1. Len(ks) \in Nat
    BY LenProperties
  <2> QED  BY <2>1, AppendProperties
<1> HIDE DEF more, n
<1>2. IsFiniteSet(S) /\ Cardinality(S) \in Nat
  <2>1. IsFiniteSet(i .. n)
    BY <1>1, FS_Interval
  <2>2. IsFiniteSet(S)
    BY <2>1, FS_Subset
  <2> QED  BY <2>2, FS_CardinalityType
<1>3. \A j \in 0 .. n : {k \in i .. j : more[k] \in C} = {k \in i .. j : ks[k] \in C}
  <2> SUFFICES ASSUME NEW j \in 0 .. n, NEW k \in i .. j
               PROVE  more[k] = ks[k]
    BY Zenon
  <2> QED  BY <1>1
<1>4. T = IF c \in C THEN S \union {n + 1} ELSE S
  <2>1. \A k \in i .. n : more[k] = ks[k]
    BY <1>1
  <2>2. \A k : k \in i .. n + 1 <=> k \in i .. n \/ k = n + 1
    BY <1>1
  <2> QED  BY <1>1, <2>1, <2>2
<1>5. n + 1 \notin S
  BY <1>1
<1>6. Cardinality(T) = Cardinality(S) + IF c \in C THEN 1 ELSE 0
  <2> HIDE DEF S, T
  <2>1. Cardinality(S \union {n + 1}) = Cardinality(S) + 1
    BY <1>2, <1>5, FS_AddElement
  <2> QED  BY <1>2, <1>4, <2>1
<1> QED  BY <1>2, <1>3, <1>6 DEF Count, more, n

\* Nothing is counted behind the last key.
LEMMA CountNone ==
    ASSUME NEW ks, NEW C, NEW n \in Nat
    PROVE  Count(ks, C, n + 1, n) = 0
<1>1. {k \in n + 1 .. n : ks[k] \in C} = {}
  OBVIOUS
<1> QED  BY <1>1, FS_EmptySet DEF Count

\* A key before the last one survives when it did before and, if the last one
\* erases, if there is a character more than erasures for it to take.
LEMMA SurvivesMore ==
    ASSUME NEW ks \in Seq(Chars), NEW c \in Chars, NEW i \in 1 .. Len(ks)
    PROVE  Survives(Append(ks, c), i) <=>
             /\ Survives(ks, i)
             /\ c = BS => Count(ks, {BS}, i, Len(ks)) + 1 < Count(ks, Printable, i, Len(ks))
<1> DEFINE more == Append(ks, c)
           n == Len(ks)
<1>1. /\ n \in Nat /\ Len(more) = n + 1 /\ i \in Nat /\ 1 <= i /\ i <= n /\ i \in 1 .. n + 1
      /\ more[i] = ks[i]
  <2>1. Len(ks) \in Nat
    BY LenProperties
  <2> QED  BY <2>1, AppendProperties
<1>2. ASSUME NEW C
      PROVE  /\ Count(ks, C, i, n) \in Nat
             /\ \A j \in 0 .. n : Count(more, C, i, j) = Count(ks, C, i, j)
             /\ Count(more, C, i, n + 1) = Count(ks, C, i, n) + IF c \in C THEN 1 ELSE 0
  <2>1. i \in 1 .. Len(ks) + 1
    BY <1>1
  <2>2. /\ Count(ks, C, i, Len(ks)) \in Nat
        /\ \A j \in 0 .. Len(ks) : Count(Append(ks, c), C, i, j) = Count(ks, C, i, j)
        /\ Count(Append(ks, c), C, i, Len(ks) + 1)
             = Count(ks, C, i, Len(ks)) + IF c \in C THEN 1 ELSE 0
    BY <2>1, CountMore
  <2> QED  BY <2>2
<1>3. /\ Count(more, {BS}, i, n + 1) = Count(ks, {BS}, i, n) + IF c = BS THEN 1 ELSE 0
      /\ Count(more, Printable, i, n + 1)
           = Count(ks, Printable, i, n) + IF c \in Printable THEN 1 ELSE 0
      /\ Count(ks, {BS}, i, n) \in Nat /\ Count(ks, Printable, i, n) \in Nat
  BY <1>2
<1>4. \A j \in i .. n : /\ Count(more, {BS}, i, j) = Count(ks, {BS}, i, j)
                        /\ Count(more, Printable, i, j) = Count(ks, Printable, i, j)
  <2>1. \A j \in i .. n : j \in 0 .. n
    BY <1>1
  <2> QED  BY <1>2, <2>1
<1>5. \A j : j \in i .. n + 1 <=> j \in i .. n \/ j = n + 1
  BY <1>1
<1>6. n \in i .. n
  BY <1>1
<1> HIDE DEF more
<1>7. Survives(more, i) <=>
        /\ ks[i] \in Printable
        /\ \A j \in i .. n : Count(ks, {BS}, i, j) < Count(ks, Printable, i, j)
        /\ Count(more, {BS}, i, n + 1) < Count(more, Printable, i, n + 1)
  BY <1>1, <1>4, <1>5 DEF Survives
<1>8. Survives(ks, i) <=>
        /\ ks[i] \in Printable
        /\ \A j \in i .. n : Count(ks, {BS}, i, j) < Count(ks, Printable, i, j)
  BY DEF Survives
<1>9. BS \notin Printable
  BY ConstantFacts
<1>10. Survives(ks, i) => Count(ks, {BS}, i, n) < Count(ks, Printable, i, n)
  BY <1>6, <1>8
<1>11. Survives(ks, i) =>
         (Count(more, {BS}, i, n + 1) < Count(more, Printable, i, n + 1)
            <=> (c = BS => Count(ks, {BS}, i, n) + 1 < Count(ks, Printable, i, n)))
  BY <1>3, <1>9, <1>10
<1> QED  BY <1>7, <1>8, <1>11 DEF more

\* The last key survives when it is a character.
LEMMA LastSurvives ==
    ASSUME NEW ks \in Seq(Chars), NEW c \in Chars
    PROVE  Survives(Append(ks, c), Len(ks) + 1) <=> c \in Printable
<1> DEFINE more == Append(ks, c)
           n == Len(ks)
<1>1. n \in Nat /\ Len(more) = n + 1 /\ more[n + 1] = c /\ n + 1 \in 1 .. Len(ks) + 1
  <2>1. Len(ks) \in Nat
    BY LenProperties
  <2> QED  BY <2>1, AppendProperties
<1>2. /\ Count(more, {BS}, n + 1, n + 1) = IF c = BS THEN 1 ELSE 0
      /\ Count(more, Printable, n + 1, n + 1) = IF c \in Printable THEN 1 ELSE 0
  <2>1. Count(ks, {BS}, n + 1, n) = 0 /\ Count(ks, Printable, n + 1, n) = 0
    BY <1>1, CountNone
  <2>2. ASSUME NEW C
        PROVE  Count(more, C, n + 1, n + 1) = Count(ks, C, n + 1, n) + IF c \in C THEN 1 ELSE 0
    BY <1>1, CountMore
  <2> QED  BY <2>1, <2>2
<1>3. \A j : j \in n + 1 .. n + 1 <=> j = n + 1
  BY <1>1
<1>4. BS \notin Printable
  BY ConstantFacts
<1> HIDE DEF more
<1> QED  BY <1>1, <1>2, <1>3, <1>4 DEF Survives, more

\* What one more key does to the text, for each kind of key.
LEMMA PlacedCharacter ==
    ASSUME NEW ks \in Seq(Chars), NEW text \in Seq(Chars), NEW p, Placed(ks, text, p),
           NEW c \in Printable
    PROVE  \E r : Placed(Append(ks, c), Append(text, c), r)
<1> DEFINE n == Len(ks)  m == Len(text)  more == Append(ks, c)  longer == Append(text, c)
           r == [k \in 1 .. m + 1 |-> IF k = m + 1 THEN n + 1 ELSE p[k]]
<1>1. /\ n \in Nat /\ m \in Nat /\ c \in Chars
      /\ Len(more) = n + 1 /\ more[n + 1] = c /\ \A i \in 1 .. n : more[i] = ks[i]
      /\ Len(longer) = m + 1 /\ longer[m + 1] = c /\ \A k \in 1 .. m : longer[k] = text[k]
  BY LenProperties, AppendProperties, ConstantFacts
<1>2. /\ \A k \in 1 .. m : p[k] \in 1 .. n
      /\ \A j, k \in 1 .. m : j < k => p[j] < p[k]
      /\ Survivors(ks) = {p[k] : k \in 1 .. m}
      /\ \A k \in 1 .. m : text[k] = ks[p[k]]
      /\ \A k \in 1 .. m : Count(ks, Printable, p[k], n) - Count(ks, {BS}, p[k], n) = m - k + 1
  BY DEF Placed
<1>3. \A i \in 1 .. n : Survives(more, i) <=> Survives(ks, i)
  BY <1>1, SurvivesMore, ConstantFacts
<1>4. Survives(more, n + 1)
  BY <1>1, LastSurvives
<1>5. ASSUME NEW i \in 1 .. n + 1
      PROVE  /\ Count(more, Printable, i, n + 1) = Count(ks, Printable, i, n) + 1
             /\ Count(more, {BS}, i, n + 1) = Count(ks, {BS}, i, n) + 0
             /\ Count(ks, Printable, i, n) \in Nat /\ Count(ks, {BS}, i, n) \in Nat
  <2>1. c \notin {BS} /\ c \in Printable
    BY ConstantFacts
  <2>2. ASSUME NEW C
        PROVE  /\ Count(more, C, i, n + 1) = Count(ks, C, i, n) + IF c \in C THEN 1 ELSE 0
               /\ Count(ks, C, i, n) \in Nat
    BY <1>1, CountMore
  <2> QED  BY <2>1, <2>2
<1>6. Count(ks, Printable, n + 1, n) = 0 /\ Count(ks, {BS}, n + 1, n) = 0
  BY <1>1, CountNone
<1>7. \A i : i \in 1 .. n + 1 <=> i \in 1 .. n \/ i = n + 1
  BY <1>1
<1>8. /\ \A k : k \in 1 .. m + 1 <=> k \in 1 .. m \/ k = m + 1
      /\ \A k \in 1 .. m : k # m + 1
  BY <1>1
<1>9. Survivors(more) = Survivors(ks) \union {n + 1}
  <2> HIDE DEF more, n
  <2> QED  BY <1>1, <1>3, <1>4, <1>7 DEF Survivors, n
<1> HIDE DEF more, longer, n, m
<1>10. r[m + 1] = n + 1 /\ \A k \in 1 .. m : r[k] = p[k]
  BY <1>8
<1>11. r \in [1 .. m + 1 -> 1 .. n + 1]
  BY <1>2, <1>7, <1>8
<1> HIDE DEF r
<1>12. \A j, k \in 1 .. m + 1 : j < k => r[j] < r[k]
  <2> SUFFICES ASSUME NEW j \in 1 .. m + 1, NEW k \in 1 .. m + 1, j < k
               PROVE  r[j] < r[k]
    OBVIOUS
  <2>1. j \in 1 .. m /\ r[j] = p[j] /\ p[j] \in 1 .. n
    <3>1. j \in 1 .. m
      BY <1>1
    <3> QED  BY <1>2, <1>10, <3>1
  <2>2. CASE k = m + 1
    <3>1. r[k] = n + 1
      BY <1>10, <2>2
    <3> QED  BY <1>1, <2>1, <3>1
  <2>3. CASE k \in 1 .. m
    BY <1>2, <1>10, <2>1, <2>3
  <2> QED  BY <1>8, <2>2, <2>3
<1>13. Survivors(more) = {r[k] : k \in 1 .. m + 1}
  BY <1>2, <1>8, <1>9, <1>10
<1>14. \A k \in 1 .. m + 1 : longer[k] = more[r[k]]
  BY <1>1, <1>2, <1>8, <1>10
<1>15. ASSUME NEW k \in 1 .. m + 1
       PROVE  Count(more, Printable, r[k], n + 1) - Count(more, {BS}, r[k], n + 1)
                  = (m + 1) - k + 1
  <2>1. r[k] \in 1 .. n + 1
    BY <1>11
  <2>2. /\ Count(more, Printable, r[k], n + 1) = Count(ks, Printable, r[k], n) + 1
        /\ Count(more, {BS}, r[k], n + 1) = Count(ks, {BS}, r[k], n) + 0
        /\ Count(ks, Printable, r[k], n) \in Nat /\ Count(ks, {BS}, r[k], n) \in Nat
    BY <1>5, <2>1
  <2>3. CASE k = m + 1
    <3>1. r[k] = n + 1
      BY <1>10, <2>3
    <3>2. Count(ks, Printable, r[k], n) = 0 /\ Count(ks, {BS}, r[k], n) = 0
      BY <1>6, <3>1
    <3>3. (m + 1) - k + 1 = 1
      BY <1>1, <2>3
    <3> QED  BY <2>2, <3>2, <3>3
  <2>4. CASE k \in 1 .. m
    <3>1. r[k] = p[k]
      BY <1>10, <2>4
    <3>2. Count(ks, Printable, p[k], n) - Count(ks, {BS}, p[k], n) = m - k + 1
      BY <1>2, <2>4
    <3>3. Count(ks, Printable, r[k], n) - Count(ks, {BS}, r[k], n) = m - k + 1
      BY <3>1, <3>2
    <3>4. m \in Int /\ k \in Int
      BY <1>1, <2>4
    <3> QED  BY <2>2, <3>3, <3>4
  <2> QED  BY <1>8, <2>3, <2>4
<1>16. Placed(more, longer, r)
  BY <1>1, <1>11, <1>12, <1>13, <1>14, <1>15 DEF Placed
<1> QED  BY <1>16 DEF more, longer

LEMMA PlacedOther ==
    ASSUME NEW ks \in Seq(Chars), NEW text \in Seq(Chars), NEW p, Placed(ks, text, p),
           NEW c \in Chars, c \notin Printable, c # BS
    PROVE  Placed(Append(ks, c), text, p)
<1> DEFINE n == Len(ks)  m == Len(text)  more == Append(ks, c)
<1>1. /\ n \in Nat /\ m \in Nat
      /\ Len(more) = n + 1 /\ \A i \in 1 .. n : more[i] = ks[i]
  BY LenProperties, AppendProperties
<1>2. /\ p \in [1 .. m -> 1 .. n]
      /\ \A j, k \in 1 .. m : j < k => p[j] < p[k]
      /\ Survivors(ks) = {p[k] : k \in 1 .. m}
      /\ \A k \in 1 .. m : text[k] = ks[p[k]]
      /\ \A k \in 1 .. m : Count(ks, Printable, p[k], n) - Count(ks, {BS}, p[k], n) = m - k + 1
  BY DEF Placed
<1>3. \A i \in 1 .. n : Survives(more, i) <=> Survives(ks, i)
  BY SurvivesMore
<1>4. ~Survives(more, n + 1)
  BY LastSurvives
<1>5. ASSUME NEW i \in 1 .. n + 1
      PROVE  /\ Count(more, Printable, i, n + 1) = Count(ks, Printable, i, n) + 0
             /\ Count(more, {BS}, i, n + 1) = Count(ks, {BS}, i, n) + 0
             /\ Count(ks, Printable, i, n) \in Nat /\ Count(ks, {BS}, i, n) \in Nat
  <2>1. c \notin {BS}
    OBVIOUS
  <2>2. ASSUME NEW C
        PROVE  /\ Count(more, C, i, n + 1) = Count(ks, C, i, n) + IF c \in C THEN 1 ELSE 0
               /\ Count(ks, C, i, n) \in Nat
    BY CountMore
  <2> QED  BY <2>1, <2>2
<1>6. \A i : i \in 1 .. n + 1 <=> i \in 1 .. n \/ i = n + 1
  BY <1>1
<1>7. Survivors(more) = Survivors(ks)
  <2> HIDE DEF more, n
  <2> QED  BY <1>1, <1>3, <1>4, <1>6 DEF Survivors, n
<1> HIDE DEF more, n, m
<1>8. p \in [1 .. m -> 1 .. n + 1]
  BY <1>2, <1>6
<1>9. \A k \in 1 .. m : text[k] = more[p[k]]
  BY <1>1, <1>2
<1>10. ASSUME NEW k \in 1 .. m
       PROVE  Count(more, Printable, p[k], n + 1) - Count(more, {BS}, p[k], n + 1) = m - k + 1
  <2>1. p[k] \in 1 .. n + 1
    BY <1>8
  <2>2. Count(ks, Printable, p[k], n) - Count(ks, {BS}, p[k], n) = m - k + 1
    BY <1>2
  <2>3. /\ Count(more, Printable, p[k], n + 1) = Count(ks, Printable, p[k], n) + 0
        /\ Count(more, {BS}, p[k], n + 1) = Count(ks, {BS}, p[k], n) + 0
        /\ Count(ks, Printable, p[k], n) \in Nat /\ Count(ks, {BS}, p[k], n) \in Nat
    BY <1>5, <2>1
  <2> QED  BY <2>2, <2>3
<1>11. Placed(more, text, p)
  BY <1>1, <1>2, <1>7, <1>8, <1>9, <1>10 DEF Placed, m
<1> QED  BY <1>11 DEF more

LEMMA PlacedErasure ==
    ASSUME NEW ks \in Seq(Chars), NEW text \in Seq(Chars), NEW p, Placed(ks, text, p)
    PROVE  \E r : Placed(Append(ks, BS), IF text = <<>> THEN text ELSE Front(text), r)
<1> DEFINE n == Len(ks)  m == Len(text)  more == Append(ks, BS)
           less == IF text = <<>> THEN text ELSE Front(text)
           l == IF m = 0 THEN 0 ELSE m - 1
           r == [k \in 1 .. l |-> p[k]]
<1>1. /\ n \in Nat /\ m \in Nat /\ BS \in Chars /\ BS \notin Printable
      /\ Len(more) = n + 1 /\ \A i \in 1 .. n : more[i] = ks[i]
  BY LenProperties, AppendProperties, ConstantFacts
<1>2. /\ \A k \in 1 .. m : p[k] \in 1 .. n
      /\ \A j, k \in 1 .. m : j < k => p[j] < p[k]
      /\ Survivors(ks) = {p[k] : k \in 1 .. m}
      /\ \A k \in 1 .. m : text[k] = ks[p[k]]
      /\ \A k \in 1 .. m : Count(ks, Printable, p[k], n) - Count(ks, {BS}, p[k], n) = m - k + 1
  BY DEF Placed
<1>3. Len(less) = l /\ \A k \in 1 .. l : less[k] = text[k]
  <2>1. CASE text = <<>>
    BY <2>1
  <2>2. CASE text # <<>>
    <3>1. m # 0
      BY <2>2, EmptySeq
    <3>2. Len(Front(text)) = m - 1
      BY <2>2, FrontFacts
    <3>3. \A k \in 1 .. m - 1 : Front(text)[k] = text[k]
      BY <1>1, <3>1 DEF Front
    <3> QED  BY <2>2, <3>1, <3>2, <3>3
  <2> QED  BY <2>1, <2>2
<1>4. /\ l \in Nat /\ \A k \in 1 .. l : k \in 1 .. m /\ k \in Nat
      /\ \A k \in 1 .. m : (m - k + 1 > 1 <=> k \in 1 .. l) /\ m - k + 1 \in Nat /\ k \in Int
      /\ \A k \in 1 .. l : m - k + 1 - 1 = l - k + 1
  BY <1>1
<1>5. ASSUME NEW i \in 1 .. n
      PROVE  Survives(more, i) <=>
               Survives(ks, i) /\ Count(ks, {BS}, i, n) + 1 < Count(ks, Printable, i, n)
  BY <1>1, SurvivesMore
<1>6. ~Survives(more, n + 1)
  BY <1>1, LastSurvives
<1>7. ASSUME NEW i \in 1 .. n + 1
      PROVE  /\ Count(more, Printable, i, n + 1) = Count(ks, Printable, i, n) + 0
             /\ Count(more, {BS}, i, n + 1) = Count(ks, {BS}, i, n) + 1
             /\ Count(ks, Printable, i, n) \in Nat /\ Count(ks, {BS}, i, n) \in Nat
  <2>1. BS \in {BS}
    OBVIOUS
  <2>2. ASSUME NEW C
        PROVE  /\ Count(more, C, i, n + 1) = Count(ks, C, i, n) + IF BS \in C THEN 1 ELSE 0
               /\ Count(ks, C, i, n) \in Nat
    BY <1>1, CountMore
  <2> QED  BY <1>1, <2>1, <2>2
<1>8. \A i : i \in 1 .. n + 1 <=> i \in 1 .. n \/ i = n + 1
  BY <1>1
<1>9. Survivors(more) = {i \in Survivors(ks) : Count(ks, {BS}, i, n) + 1 < Count(ks, Printable, i, n)}
  <2>1. \A i : i \in Survivors(more) <=> i \in 1 .. n + 1 /\ Survives(more, i)
    BY <1>1 DEF Survivors
  <2>2. \A i : i \in Survivors(ks) <=> i \in 1 .. n /\ Survives(ks, i)
    BY DEF Survivors
  <2> HIDE DEF more, n
  <2> QED  BY <1>5, <1>6, <1>8, <2>1, <2>2
<1> HIDE DEF more, less, n, m, l
<1>10. ASSUME NEW k \in 1 .. m
       PROVE  /\ p[k] \in 1 .. n /\ p[k] \in 1 .. n + 1
              /\ Count(ks, {BS}, p[k], n) + 1 < Count(ks, Printable, p[k], n) <=> k \in 1 .. l
  <2>1. p[k] \in 1 .. n /\ p[k] \in 1 .. n + 1
    BY <1>2, <1>8
  <2>2. Count(ks, Printable, p[k], n) - Count(ks, {BS}, p[k], n) = m - k + 1
    BY <1>2
  <2>3. Count(ks, Printable, p[k], n) \in Nat /\ Count(ks, {BS}, p[k], n) \in Nat
    BY <1>7, <2>1
  <2>4. Count(ks, {BS}, p[k], n) + 1 < Count(ks, Printable, p[k], n) <=> m - k + 1 > 1
    BY <2>2, <2>3
  <2> QED  BY <1>4, <2>1, <2>4
<1>11. Survivors(more) = {p[k] : k \in 1 .. l}
  BY <1>2, <1>4, <1>9, <1>10
<1>12. \A k \in 1 .. l : r[k] = p[k]
  OBVIOUS
<1>13. r \in [1 .. l -> 1 .. n + 1]
  BY <1>4, <1>10
<1> HIDE DEF r
<1>14. \A j, k \in 1 .. l : j < k => r[j] < r[k]
  BY <1>2, <1>4, <1>12
<1>15. Survivors(more) = {r[k] : k \in 1 .. l}
  BY <1>11, <1>12
<1>16. \A k \in 1 .. l : less[k] = more[r[k]]
  <2> SUFFICES ASSUME NEW k \in 1 .. l
               PROVE  less[k] = more[r[k]]
    OBVIOUS
  <2>1. k \in 1 .. m /\ r[k] = p[k] /\ p[k] \in 1 .. n
    BY <1>4, <1>10, <1>12
  <2>2. less[k] = text[k] /\ text[k] = ks[p[k]]
    BY <1>2, <1>3, <2>1
  <2>3. more[p[k]] = ks[p[k]]
    BY <1>1, <2>1
  <2> QED  BY <2>1, <2>2, <2>3
<1>17. ASSUME NEW k \in 1 .. l
       PROVE  Count(more, Printable, r[k], n + 1) - Count(more, {BS}, r[k], n + 1) = l - k + 1
  <2>1. k \in 1 .. m /\ r[k] = p[k] /\ p[k] \in 1 .. n + 1
    BY <1>4, <1>10, <1>12
  <2>2. Count(ks, Printable, p[k], n) - Count(ks, {BS}, p[k], n) = m - k + 1
    BY <1>2, <2>1
  <2>3. /\ Count(more, Printable, p[k], n + 1) = Count(ks, Printable, p[k], n) + 0
        /\ Count(more, {BS}, p[k], n + 1) = Count(ks, {BS}, p[k], n) + 1
        /\ Count(ks, Printable, p[k], n) \in Nat /\ Count(ks, {BS}, p[k], n) \in Nat
    BY <1>7, <2>1
  <2>4. m - k + 1 - 1 = l - k + 1 /\ m \in Int /\ l \in Int /\ k \in Int
    BY <1>1, <1>4, <2>1
  <2>5. Count(more, Printable, p[k], n + 1) - Count(more, {BS}, p[k], n + 1) = m - k + 1 - 1
    BY <2>2, <2>3, <2>4
  <2> QED  BY <2>1, <2>4, <2>5
<1>18. Placed(more, less, r)
  BY <1>1, <1>3, <1>13, <1>14, <1>15, <1>16, <1>17 DEF Placed
<1> QED  BY <1>18 DEF more, less

\* A text that is placed is the one that the keys spell: the survivor that has
\* k survivors up to it is at p[k].
LEMMA PlacedEdited ==
    ASSUME NEW ks \in Seq(Chars), NEW text \in Seq(Chars), NEW p, Placed(ks, text, p)
    PROVE  Edited(ks) = text
<1> DEFINE n == Len(ks)  m == Len(text)  S == Survivors(ks)
           Rank(i) == Cardinality({k \in S : k <= i})
<1>1. n \in Nat /\ m \in Nat
  BY LenProperties
<1>2. /\ p \in [1 .. m -> 1 .. n]
      /\ \A j, k \in 1 .. m : j < k => p[j] < p[k]
      /\ S = {p[k] : k \in 1 .. m}
      /\ \A k \in 1 .. m : text[k] = ks[p[k]]
  BY DEF Placed
<1> HIDE DEF n, m, S
<1>3. \A k \in 1 .. m : p[k] \in S /\ p[k] \in Nat /\ k \in Nat
  BY <1>1, <1>2
<1>4. ASSUME NEW j \in 1 .. m, NEW k \in 1 .. m
      PROVE  /\ p[j] <= p[k] <=> j <= k
             /\ p[j] = p[k] => j = k
  <2>1. j < k => p[j] < p[k]
    BY <1>2
  <2>2. k < j => p[k] < p[j]
    BY <1>2
  <2> QED  BY <1>3, <2>1, <2>2
<1>5. ASSUME NEW k \in 0 .. m
      PROVE  Cardinality({p[j] : j \in 1 .. k}) = k
  <2> DEFINE T == {p[j] : j \in 1 .. k}
             f == [j \in 1 .. k |-> p[j]]
  <2>1. k \in Nat /\ \A j \in 1 .. k : j \in 1 .. m
    BY <1>1
  <2>2. f \in [1 .. k -> T]
    OBVIOUS
  <2>3. \A i, j \in 1 .. k : f[i] = f[j] => i = j
    BY <1>4, <2>1
  <2>4. \A t \in T : \E j \in 1 .. k : f[j] = t
    OBVIOUS
  <2>5. f \in Bijection(1 .. k, T)
    <3> HIDE DEF f, T
    <3> QED  BY <2>2, <2>3, <2>4 DEF Bijection, Injection, Surjection, IsInjective
  <2>6. ExistsBijection(1 .. k, T)
    <3> HIDE DEF f, T
    <3> QED  BY <2>5 DEF ExistsBijection
  <2>7. IsFiniteSet(1 .. k) /\ Cardinality(1 .. k) = k
    BY <2>1, FS_Interval
  <2> HIDE DEF T
  <2>8. Cardinality(T) = k
    BY <2>6, <2>7, FS_Bijection
  <2> QED  BY <2>8 DEF T
<1>6. Cardinality(S) = m
  BY <1>1, <1>2, <1>5
<1>7. ASSUME NEW k \in 1 .. m
      PROVE  Rank(p[k]) = k
  <2>1. \A j \in 1 .. k : j \in 1 .. m /\ j <= k
    BY <1>1
  <2>2. \A j \in 1 .. m : j <= k => j \in 1 .. k
    BY <1>1
  <2>3. {i \in S : i <= p[k]} = {p[j] : j \in 1 .. k}
    BY <1>2, <1>4, <2>1, <2>2
  <2>4. k \in 0 .. m
    BY <1>1
  <2> QED  BY <1>5, <2>3, <2>4
<1> HIDE DEF Rank
<1>8. ASSUME NEW k \in 1 .. m
      PROVE  ks[CHOOSE i \in S : Rank(i) = k] = text[k]
  <2>1. \A i \in S : Rank(i) = k => i = p[k]
    BY <1>2, <1>7
  <2>2. p[k] \in S /\ Rank(p[k]) = k
    BY <1>3, <1>7
  <2>3. (CHOOSE i \in S : Rank(i) = k) = p[k]
    BY <2>1, <2>2
  <2> QED  BY <1>2, <2>3
<1>9. Edited(ks) = [k \in 1 .. m |-> ks[CHOOSE i \in S : Rank(i) = k]]
  BY <1>6 DEF Edited, Rank, S
<1>10. Edited(ks) = [k \in 1 .. m |-> text[k]]
  BY <1>8, <1>9
<1>11. text = [k \in 1 .. m |-> text[k]]
  BY DEF m
<1> QED  BY <1>10, <1>11

-----------------------------------------------------------------------------
(* The line in m_Buffer                                                    *)

\* What LineEdited needs to be inductive: the line being typed is placed in
\* the keys pressed for it, so that an erasure takes the last survivor.
TextInv ==
    Canonical => IF m_Mode = "Output" THEN m_Line = Append(Edited(Front(keys)), NL)
                 ELSE \E p : Placed(keys, m_Line, p)

\* No keys spell no text.
LEMMA NothingPlaced == Placed(<<>>, <<>>, <<>>)
  BY SMT DEF Placed, Survivors

\* While a line is typed, it is what its keys spell.
LEMMA TextFacts ==
    ASSUME IInv, TextInv, Canonical, m_Mode = "Input"
    PROVE  Edited(keys) = m_Line /\ \E p : Placed(keys, m_Line, p)
<1>1. /\ keys \in Seq(Chars) /\ m_Line \in Seq(Printable \union {NL})
      /\ Printable \union {NL} \subseteq Chars
  BY ConstantFacts DEF IInv, TypeOK
<1>2. m_Line \in Seq(Chars)
  BY <1>1, ElementOfSeq, SeqDef
<1>3. PICK p : Placed(keys, m_Line, p)
  BY DEF TextInv
<1> QED  BY <1>1, <1>2, <1>3, PlacedEdited

\* A line that is given up leaves no keys.
LEMMA ResetText ==
    ASSUME m_Line' = <<>>, keys' = <<>>, m_Mode' # "Output"
    PROVE  TextInv'
<1>1. Placed(<<>>, <<>>, <<>>)
  BY NothingPlaced
<1> QED  BY <1>1 DEF TextInv

LEMMA ApplyText ==
    ASSUME NEW o, Apply(o)
    PROVE  TextInv'
<1>1. m_Line' = <<>> /\ keys' = <<>> /\ m_Mode' # "Output"
  BY DEF Apply, NoLine
<1> QED  BY <1>1, ResetText

\* A step that leaves the line and its keys alone.
LEMMA SameText ==
    ASSUME TextInv, UNCHANGED <<m_Line, m_Mode, keys>>, Canonical' => Canonical
    PROVE  TextInv'
  BY DEF TextInv

LEMMA SetModeText ==
    ASSUME TextInv, NEW arg, SetMode(arg), UNCHANGED <<usb, q, call>>
    PROVE  TextInv'
<1>1. ASSUME NEW o, SetOptions(o)
      PROVE  TextInv'
  <2>1. CASE attached
    BY <1>1, <2>1, ApplyText DEF SetOptions
  <2>2. CASE ~attached
    <3>1. ~attached'
      BY <2>2 DEF usb
    <3> QED  BY <3>1 DEF TextInv, Canonical
  <2> QED  BY <2>1, <2>2
<1>2. CASE arg.type = "integer"
  BY <1>1, <1>2 DEF SetMode
<1>3. CASE arg.type = "sane"
  BY <1>1, <1>3 DEF SetMode
<1>4. CASE arg.type # "integer" /\ arg.type # "sane"
  BY <1>4, SameText DEF SetMode, Canonical, usb, line, history
<1> QED  BY <1>2, <1>3, <1>4

LEMMA ProgramText ==
    ASSUME TextInv, Program
    PROVE  TextInv'
<1>1. ASSUME NEW who, NEW n, Read(who, n)
      PROVE  TextInv'
  BY <1>1, SameText DEF Read, Canonical, usb, line, history
<1>2. ASSUME NEW arg, ConMode(arg)
      PROVE  TextInv'
  BY <1>2, SetModeText DEF ConMode
<1>3. CASE ReplStart
  BY <1>3, SetModeText DEF ReplStart
<1>4. CASE ReplEnd
  BY <1>4, SetModeText DEF ReplEnd
<1> QED  BY <1>1, <1>2, <1>3, <1>4 DEF Program

LEMMA InterruptText ==
    ASSUME TextInv, Interrupt
    PROVE  TextInv'
<1>1. ASSUME NEW s, Key(s)
      PROVE  TextInv'
  BY <1>1, SameText DEF Key, Canonical, usb, line, history
<1>2. CASE Plug
  BY <1>2, SameText DEF Plug, Canonical, line, history
<1>3. CASE Unplug
  BY <1>3, SameText DEF Unplug, Canonical, line, history
<1> QED  BY <1>1, <1>2, <1>3 DEF Interrupt

\* The heart of it: each key does to m_Buffer what it does to the text.
LEMMA InputCharText ==
    ASSUME IInv, TextInv, InputChar
    PROVE  TextInv'
<1> DEFINE c == Head(q)
<1>1. /\ q \in Seq(Chars) /\ q # <<>> /\ m_Mode = "Input" /\ attached
      /\ m_Line \in Seq(Printable \union {NL}) /\ keys \in Seq(Chars)
      /\ Len(m_Line) \in Nat
  BY DEF InputChar, IInv, TypeOK
<1>2. c \in Chars
  BY <1>1, HeadTailProperties
<1>3. m_Line \in Seq(Chars)
  BY <1>1, ConstantFacts, ElementOfSeq, SeqDef
<1>4. Canonical
  BY <1>1 DEF IInv, TypeOK, LineInv, Canonical
<1>5. PICK p : Placed(keys, m_Line, p)
  BY <1>1, <1>4, TextFacts
<1>6. Edited(keys) = m_Line
  BY <1>1, <1>4, TextFacts
<1>7. keys' = Typed(c)
  BY DEF InputChar
<1>8. ASSUME m_Mode' # "Output", \E r : Placed(keys', m_Line', r)
      PROVE  TextInv'
  BY <1>8 DEF TextInv
<1>9. c \notin Printable => keys' = Append(keys, c)
  BY <1>7 DEF Typed
<1>10. ASSUME c = BS, Erase
       PROVE  TextInv'
  <2>1. keys' = Append(keys, BS)
    BY <1>9, <1>10, ConstantFacts
  <2>2. m_Line' = IF m_Line = <<>> THEN m_Line ELSE Front(m_Line)
    BY <1>10 DEF Erase
  <2>3. m_Mode' = "Input"
    BY <1>1, <1>10 DEF Erase
  <2> HIDE DEF c
  <2>4. \E r : Placed(keys', m_Line', r)
    BY <1>1, <1>3, <1>5, <2>1, <2>2, PlacedErasure
  <2> QED  BY <1>8, <2>3, <2>4
<1>11. ASSUME c = NL, EndLine
       PROVE  TextInv'
  <2>1. keys' = Append(keys, NL)
    BY <1>9, <1>11, ConstantFacts
  <2>2. Front(keys') = keys
    <3>1. /\ keys' \in Seq(Chars) /\ Len(keys') = Len(keys) + 1 /\ keys' # <<>>
          /\ \A i \in 1 .. Len(keys) : keys'[i] = keys[i]
      BY <1>1, <2>1, ConstantFacts, AppendProperties
    <3>2. Front(keys') \in Seq(Chars) /\ Len(Front(keys')) = Len(keys)
      BY <1>1, <3>1, FrontFacts, LenProperties
    <3>3. \A i \in 1 .. Len(keys) : Front(keys')[i] = keys[i]
      BY <1>1, <3>1, LenProperties DEF Front
    <3> QED  BY <1>1, <3>2, <3>3, SeqEqual
  <2>3. m_Line' = Append(m_Line, NL) /\ m_Mode' = "Output"
    BY <1>11 DEF EndLine
  <2> QED  BY <1>6, <2>2, <2>3 DEF TextInv
<1>12. ASSUME c \in Printable, Insert(c)
       PROVE  TextInv'
  <2>1. m_Mode' = "Input"
    BY <1>1, <1>12 DEF Insert
  <2>2. CASE Len(m_Line) < LD_MAXLINE - 1
    <3>1. m_Line' = Append(m_Line, c)
      BY <1>12, <2>2 DEF Insert
    <3>2. keys' = Append(keys, c)
      <4> HIDE DEF c
      <4>1. ~(Len(m_Line) >= LD_MAXLINE - 1)
        BY <1>1, <2>2, ConstantFacts
      <4> QED  BY <1>6, <1>7, <4>1 DEF Typed
    <3> HIDE DEF c
    <3>3. \E r : Placed(keys', m_Line', r)
      BY <1>1, <1>3, <1>5, <1>12, <3>1, <3>2, PlacedCharacter
    <3> QED  BY <1>8, <2>1, <3>3
  <2>3. CASE ~(Len(m_Line) < LD_MAXLINE - 1)
    <3>1. m_Line' = m_Line
      BY <1>12, <2>3 DEF Insert
    <3>2. keys' = keys
      <4> HIDE DEF c
      <4>1. Len(m_Line) >= LD_MAXLINE - 1
        BY <1>1, <2>3, ConstantFacts
      <4> QED  BY <1>6, <1>7, <1>12, <4>1 DEF Typed
    <3> HIDE DEF c
    <3> QED  BY <1>5, <1>8, <2>1, <3>1, <3>2
  <2> QED  BY <2>2, <2>3
<1>13. ASSUME c \in Control, UNCHANGED <<m_Mode, m_Line, m_nOut, shown>>
       PROVE  TextInv'
  <2>1. c \notin Printable /\ c # BS
    BY <1>13, ConsoleAssumption DEF ConsoleAssumption
  <2>2. keys' = Append(keys, c)
    BY <1>9, <2>1
  <2> HIDE DEF c
  <2>3. Placed(Append(keys, c), m_Line, p)
    BY <1>1, <1>2, <1>3, <1>5, <2>1, PlacedOther
  <2> QED  BY <1>1, <1>8, <1>13, <2>2, <2>3
<1> QED  BY <1>10, <1>11, <1>12, <1>13 DEF InputChar

LEMMA OutputText ==
    ASSUME TextInv, Output
    PROVE  TextInv'
<1>1. CASE m_Line' = <<>> /\ keys' = <<>> /\ m_Mode' = "Input"
  BY <1>1, ResetText
<1>2. CASE UNCHANGED <<m_Line, m_Mode, keys>>
  BY <1>2, SameText DEF Output, Canonical, usb
<1> QED  BY <1>1, <1>2 DEF Output, NoLine

LEMMA PollText ==
    ASSUME TextInv, Poll
    PROVE  TextInv'
<1>1. CASE Detach
  BY <1>1, ResetText DEF Detach, NoLine
<1>2. CASE Attach
  BY <1>2, ApplyText DEF Attach
<1>3. CASE UNCHANGED <<attached, q, line, history>>
  BY <1>3, SameText DEF Poll, Canonical, line, history
<1> QED  BY <1>1, <1>2, <1>3 DEF Poll

LEMMA StepText == IInv /\ TextInv /\ [Next]_vars => TextInv'
<1> SUFFICES ASSUME IInv, TextInv, [Next]_vars PROVE TextInv'
  OBVIOUS
<1>1. ASSUME Reading PROVE TextInv'
  <2>1. ASSUME NoDiscipline \/ InputEmpty \/ RawChar \/ RawReturns
        PROVE  TextInv'
    <3>1. UNCHANGED <<usb, m_nOptions, line, history>>
      BY <2>1 DEF NoDiscipline, InputEmpty, RawChar, RawReturns
    <3> QED  BY <3>1, SameText DEF Canonical, usb, line, history
  <2> QED  BY <1>1, <2>1, InputCharText, OutputText, PollText DEF Reading
<1>2. CASE UNCHANGED vars
  BY <1>2, SameText DEF vars, Canonical, usb, line, history
<1> QED  BY <1>1, <1>2, ProgramText, InterruptText DEF Next

-----------------------------------------------------------------------------
(* The theorems                                                            *)

THEOREM Invariant == Spec => []IInv
<1> QED  BY InitInv, StepInv, PTL DEF Spec

\* The state keeps its types: no key, read, change of mode or change of the
\* keyboard writes past m_Buffer or past the queue of the keyboard buffer.
THEOREM ConsoleTypes == Spec => []TypeOK
<1>1. IInv => TypeOK
  BY DEF IInv
<1> QED  BY <1>1, Invariant, PTL

\* Callers of CLineDiscipline::Read get the bytes of a line in order, whatever
\* the size of their pieces, and nothing of a line that is being typed.
THEOREM LinesDelivered == Spec => []Delivered
<1>1. IInv => Delivered
  BY DEF IInv, LineInv, Delivered, Canonical
<1> QED  BY <1>1, Invariant, PTL

\* With echo the screen shows the line that is in m_Buffer.
THEOREM EchoIsLine == Spec => []EchoTrue
<1>1. IInv => EchoTrue
  BY DEF IInv, LineInv, EchoTrue, Canonical
<1> QED  BY <1>1, Invariant, PTL

\* The line discipline follows the options of CConsole, also across the
\* removal and the attachment of keyboards.
THEOREM OptionsKept == Spec => []OptionsApplied
<1>1. IInv => OptionsApplied
  BY DEF IInv, TypeOK, LineInv, OptionsApplied
<1> QED  BY <1>1, Invariant, PTL

\* The line in m_Buffer is what the keys pressed for it spell, whatever was
\* erased, refused or ignored, and however the keyboard, the mode and the
\* reads of CLineDiscipline::Read changed in between.
THEOREM LineIsEdited == Spec => []LineEdited
<1>1. Init => TextInv
  <2>1. Init => m_Line = <<>> /\ keys = <<>> /\ m_Mode # "Output"
    BY DEF Init
  <2>2. Placed(<<>>, <<>>, <<>>)
    BY NothingPlaced
  <2> QED  BY <2>1, <2>2 DEF TextInv
<1>2. IInv /\ TextInv => LineEdited
  <2> SUFFICES ASSUME IInv, TextInv, Canonical
               PROVE  m_Line = IF m_Mode = "Output" THEN Append(Edited(Front(keys)), NL)
                               ELSE Edited(keys)
    BY DEF LineEdited
  <2>1. m_Mode \in {"Input", "Output"}
    BY DEF Canonical, IInv, LineInv
  <2> QED  BY <2>1, TextFacts DEF TextInv
<1> QED  BY <1>1, <1>2, Invariant, StepText, PTL DEF Spec
=============================================================================
