---------------------------- MODULE PromptProofs ----------------------------
(***************************************************************************)
(* Proofs about the two prompts of LUPOS.                                  *)
(*                                                                         *)
(* Repl, the prompt of hello.lua: the loop's line and history stay in      *)
(* their bounds, its string operations edit the line as LineEditor says,   *)
(* and the history changes by executed lines and by edits in their place   *)
(* only, for any characters, any length of the history and any loops.      *)
(*                                                                         *)
(* Shell, the prompt of lua_interface: it answers Ctrl-Alt-Del, for any    *)
(* network devices and any wait.                                           *)
(***************************************************************************)
EXTENDS Repl, Shell, SequenceTheorems, TLAPS

-----------------------------------------------------------------------------
(* A line and its cursor                                                   *)

\* A part of a sequence.
LEMMA Part ==
    ASSUME NEW S, NEW s \in Seq(S), NEW m \in Int, NEW n \in Int,
           1 <= m, m <= n + 1, n <= Len(s)
    PROVE  SubSeq(s, m, n) \in Seq(S) /\ Len(SubSeq(s, m, n)) = n - m + 1
<1>1. \A i \in m .. n : s[i] \in S
  BY LenProperties, ElementOfSeq
<1>2. /\ SubSeq(s, m, n) \in Seq(S)
      /\ Len(SubSeq(s, m, n)) = IF m <= n THEN n - m + 1 ELSE 0
  BY <1>1, SubSeqProperties
<1> QED  BY <1>2

\* The cursor divides the line.
LEMMA Whole ==
    ASSUME NEW b \in Seq(Chars), NEW p \in 1 .. Len(b) + 1
    PROVE  /\ SubSeq(b, 1, p - 1) \in Seq(Chars) /\ Len(SubSeq(b, 1, p - 1)) = p - 1
           /\ SubSeq(b, p, Len(b)) \in Seq(Chars)
           /\ Len(SubSeq(b, p, Len(b))) = Len(b) - p + 1
           /\ SubSeq(b, 1, p - 1) \o SubSeq(b, p, Len(b)) = b
<1> DEFINE k == p - 1
           n == Len(b)
<1>1. n \in Nat /\ k \in 0 .. n /\ p = k + 1 /\ k + 1 \in Int /\ 1 \in 1 .. n + 1
  BY LenProperties
<1>2. n = Len(b)
  OBVIOUS
<1> HIDE DEF k, n
<1>3. /\ SubSeq(b, 1, k) \in Seq(Chars) /\ Len(SubSeq(b, 1, k)) = k - 1 + 1
      /\ SubSeq(b, k + 1, n) \in Seq(Chars) /\ Len(SubSeq(b, k + 1, n)) = n - (k + 1) + 1
  <2>1. 1 <= k + 1 /\ k + 1 <= n + 1 /\ k <= n /\ n <= n /\ k \in Int /\ n \in Int /\ 1 \in Int
    BY <1>1
  <2>2. SubSeq(b, 1, k) \in Seq(Chars) /\ Len(SubSeq(b, 1, k)) = k - 1 + 1
    BY <1>2, <2>1, Part
  <2>3. SubSeq(b, k + 1, n) \in Seq(Chars) /\ Len(SubSeq(b, k + 1, n)) = n - (k + 1) + 1
    BY <1>1, <1>2, <2>1, Part
  <2> QED  BY <2>2, <2>3
<1>4. SubSeq(b, 1, k) \o SubSeq(b, k + 1, n) = SubSeq(b, 1, n)
  <2>1. 1 \in 1 .. Len(b) + 1 /\ k \in 1 - 1 .. Len(b) /\ n \in k .. Len(b)
    BY <1>1, <1>2
  <2> QED  BY <2>1, ConcatAdjacentSubSeq
<1>5. SubSeq(b, 1, n) = b
  BY <1>2, SubSeqFull
<1>6. /\ SubSeq(b, 1, k) \in Seq(Chars) /\ Len(SubSeq(b, 1, k)) = k
      /\ SubSeq(b, p, n) \in Seq(Chars) /\ Len(SubSeq(b, p, n)) = n - p + 1
      /\ SubSeq(b, 1, k) \o SubSeq(b, p, n) = b
  BY <1>1, <1>3, <1>4, <1>5
<1> QED  BY <1>6 DEF k, n

\* A line put together of two parts, the cursor between them, has them on
\* the two sides of the cursor.
LEMMA Cut ==
    ASSUME NEW l \in Seq(Chars), NEW r \in Seq(Chars), NEW b, NEW p,
           b = l \o r, p = Len(l) + 1
    PROVE  /\ b \in Seq(Chars) /\ p \in 1 .. Len(b) + 1
           /\ SubSeq(b, 1, p - 1) = l /\ SubSeq(b, p, Len(b)) = r
<1>1. /\ b \in Seq(Chars) /\ Len(b) = Len(l) + Len(r)
      /\ \A i \in 1 .. Len(l) + Len(r) : b[i] = IF i <= Len(l) THEN l[i] ELSE r[i - Len(l)]
  BY ConcatProperties
<1>2. Len(l) \in Nat /\ Len(r) \in Nat /\ p \in 1 .. Len(b) + 1
  BY <1>1
<1>3. SubSeq(b, 1, p - 1) = l
  <2>1. /\ SubSeq(b, 1, p - 1) \in Seq(Chars) /\ Len(SubSeq(b, 1, p - 1)) = p - 1
    BY <1>1, <1>2, Whole
  <2>2. \A i \in 1 .. p - 1 : SubSeq(b, 1, p - 1)[i] = b[i]
    BY <1>1, <1>2
  <2> QED  BY <1>1, <1>2, <2>1, <2>2, SeqEqual
<1>4. SubSeq(b, p, Len(b)) = r
  <2>1. /\ SubSeq(b, p, Len(b)) \in Seq(Chars) /\ Len(SubSeq(b, p, Len(b))) = Len(b) - p + 1
    BY <1>1, <1>2, Whole
  <2>2. \A i \in 1 .. Len(r) : SubSeq(b, p, Len(b))[i] = b[p + i - 1]
    BY <1>1, <1>2
  <2>3. \A i \in 1 .. Len(r) : b[p + i - 1] = r[i]
    <3>1. TAKE i \in 1 .. Len(r)
    <3>2. p + i - 1 \in 1 .. Len(l) + Len(r) /\ ~(p + i - 1 <= Len(l)) /\ p + i - 1 - Len(l) = i
      BY <1>2
    <3>3. b[p + i - 1] = IF p + i - 1 <= Len(l) THEN l[p + i - 1] ELSE r[p + i - 1 - Len(l)]
      <4> DEFINE k == p + i - 1
      <4>1. k \in 1 .. Len(l) + Len(r)
        BY <3>2
      <4> HIDE DEF k
      <4>2. b[k] = IF k <= Len(l) THEN l[k] ELSE r[k - Len(l)]
        BY <1>1, <4>1
      <4> QED  BY <4>2 DEF k
    <3> QED  BY <3>2, <3>3
  <2> QED  BY <1>1, <1>2, <2>1, <2>2, <2>3, SeqEqual
<1> QED  BY <1>1, <1>2, <1>3, <1>4

\* The first and the last element of a part.
LEMMA FrontLast ==
    ASSUME NEW S, NEW s \in Seq(S), s # <<>>
    PROVE  /\ Front(s) \in Seq(S) /\ Last(s) \in S /\ Len(Front(s)) = Len(s) - 1
           /\ s = Front(s) \o <<Last(s)>>
<1>1. Len(s) \in Nat /\ Len(s) > 0
  BY EmptySeq
<1>2. SubSeq(s, 1, Len(s)) = SubSeq(s, 1, Len(s) - 1) \o <<s[Len(s)]>>
  BY <1>1, SubSeqRecursiveSecond
<1>3. SubSeq(s, 1, Len(s)) = s
  BY SubSeqFull
<1>4. SubSeq(s, 1, Len(s) - 1) \in Seq(S) /\ Len(SubSeq(s, 1, Len(s) - 1)) = Len(s) - 1
  <2> DEFINE n == Len(s) - 1
  <2>1. n \in Int /\ 1 \in Int /\ 1 <= n + 1 /\ n <= Len(s) /\ n - 1 + 1 = n
    BY <1>1
  <2> HIDE DEF n
  <2>2. SubSeq(s, 1, n) \in Seq(S) /\ Len(SubSeq(s, 1, n)) = n - 1 + 1
    BY <2>1, Part
  <2>3. SubSeq(s, 1, n) \in Seq(S) /\ Len(SubSeq(s, 1, n)) = n
    BY <2>1, <2>2
  <2> QED  BY <2>3 DEF n
<1>5. s[Len(s)] \in S
  BY <1>1, ElementOfSeq
<1>6. Front(s) = SubSeq(s, 1, Len(s) - 1) /\ Last(s) = s[Len(s)]
  BY DEF Front, Last
<1>7. s = Front(s) \o <<Last(s)>>
  BY <1>2, <1>3, <1>6
<1> QED  BY <1>4, <1>5, <1>6, <1>7

LEMMA HeadTail ==
    ASSUME NEW S, NEW s \in Seq(S), s # <<>>
    PROVE  /\ Head(s) \in S /\ Tail(s) \in Seq(S) /\ Len(Tail(s)) = Len(s) - 1
           /\ s = <<Head(s)>> \o Tail(s)
<1>1. /\ Head(s) \in S /\ Tail(s) \in Seq(S) /\ Len(Tail(s)) = Len(s) - 1
  BY HeadTailProperties
<1>2. s = <<Head(s)>> \o Tail(s)
  OBVIOUS
<1> QED  BY <1>1, <1>2

-----------------------------------------------------------------------------
(* What the keys make of the line                                          *)

Before == SubSeq(buf, 1, pos - 1)
Behind == SubSeq(buf, pos, Len(buf))

LEMMA Parts ==
    ASSUME TypeOK
    PROVE  /\ Before \in Seq(Chars) /\ Len(Before) = pos - 1
           /\ Behind \in Seq(Chars) /\ Len(Behind) = Len(buf) - pos + 1
           /\ buf = Before \o Behind
           /\ Len(buf) \in Nat /\ pos \in Nat /\ 1 <= pos /\ pos <= Len(buf) + 1
           /\ pos = 1 <=> Before = <<>>
           /\ pos > Len(buf) <=> Behind = <<>>
<1>1. buf \in Seq(Chars) /\ pos \in 1 .. Len(buf) + 1 /\ Len(buf) \in Nat
  BY LenProperties DEF TypeOK
<1>2. /\ Before \in Seq(Chars) /\ Len(Before) = pos - 1
      /\ Behind \in Seq(Chars) /\ Len(Behind) = Len(buf) - pos + 1
      /\ buf = Before \o Behind
  BY <1>1, Whole DEF Before, Behind
<1>3. (Before = <<>> <=> Len(Before) = 0) /\ (Behind = <<>> <=> Len(Behind) = 0)
  BY <1>2, EmptySeq
<1> QED  BY <1>1, <1>2, <1>3

LEMMA NewLine ==
    ASSUME NEW l \in Seq(Chars), NEW r \in Seq(Chars), buf' = l \o r, pos' = Len(l) + 1
    PROVE  /\ buf' \in Seq(Chars) /\ pos' \in 1 .. Len(buf') + 1
           /\ Before' = l /\ Behind' = r
  BY Cut DEF Before, Behind

LEMMA TypeLine ==
    ASSUME TypeOK, NEW c \in Chars, Type(c)
    PROVE  /\ buf' \in Seq(Chars) /\ pos' \in 1 .. Len(buf') + 1
           /\ Before' = Append(Before, c) /\ Behind' = Behind
<1>1. Append(Before, c) \in Seq(Chars) /\ Append(Before, c) = Before \o <<c>>
      /\ Len(Append(Before, c)) = Len(Before) + 1 /\ <<c>> \in Seq(Chars)
  BY Parts, AppendProperties, AppendIsConcat
<1>2. buf' = (Before \o <<c>>) \o Behind
  <2>1. CASE pos > Len(buf)
    BY <1>1, <2>1, Parts, ConcatEmptySeq DEF Type
  <2>2. CASE ~(pos > Len(buf)) /\ pos = 1
    <3>1. buf' = <<c>> \o buf /\ Before = <<>>
      BY <2>2, Parts DEF Type
    <3>2. Before \o <<c>> = <<c>> /\ buf = Behind
      BY <1>1, <3>1, Parts, ConcatEmptySeq
    <3> QED  BY <3>1, <3>2
  <2>3. CASE ~(pos > Len(buf)) /\ pos # 1
    BY <2>3 DEF Type, sub, Before, Behind
  <2> QED  BY <2>1, <2>2, <2>3
<1>3. pos' = Len(Append(Before, c)) + 1
  BY <1>1, Parts DEF Type
<1> QED  BY <1>1, <1>2, <1>3, Parts, NewLine

LEMMA LeftLine ==
    ASSUME TypeOK, Left, Before # <<>>
    PROVE  /\ buf' \in Seq(Chars) /\ pos' \in 1 .. Len(buf') + 1
           /\ Before' = Front(Before) /\ Behind' = <<Last(Before)>> \o Behind
<1>1. /\ Front(Before) \in Seq(Chars) /\ <<Last(Before)>> \in Seq(Chars)
      /\ Len(Front(Before)) = pos - 2 /\ Before = Front(Before) \o <<Last(Before)>>
  <2>1. /\ Front(Before) \in Seq(Chars) /\ Last(Before) \in Chars
        /\ Len(Front(Before)) = Len(Before) - 1 /\ Before = Front(Before) \o <<Last(Before)>>
    BY Parts, FrontLast
  <2>2. Len(Before) - 1 = pos - 2
    BY Parts
  <2>3. <<Last(Before)>> \in Seq(Chars)
    BY <2>1
  <2> QED  BY <2>1, <2>2, <2>3
<1>2. buf' = Front(Before) \o (<<Last(Before)>> \o Behind)
  <2>1. (Front(Before) \o <<Last(Before)>>) \o Behind = Front(Before) \o (<<Last(Before)>> \o Behind)
    <3>1. Before \in Seq(Chars) /\ Behind \in Seq(Chars)
      BY Parts
    <3> QED  BY SMTT(30), <1>1, <3>1, ConcatAssociative
  <2>2. buf' = Before \o Behind
    BY Parts DEF Left
  <2> QED  BY <1>1, <2>1, <2>2
<1>3. <<Last(Before)>> \o Behind \in Seq(Chars)
  BY <1>1, Parts, ConcatProperties
<1>4. pos' = Len(Front(Before)) + 1
  BY SMTT(30), <1>1, Parts DEF Left
<1> QED  BY <1>1, <1>2, <1>3, <1>4, NewLine

LEMMA RightLine ==
    ASSUME TypeOK, Right, Behind # <<>>
    PROVE  /\ buf' \in Seq(Chars) /\ pos' \in 1 .. Len(buf') + 1
           /\ Before' = Append(Before, Head(Behind)) /\ Behind' = Tail(Behind)
<1>1. /\ Head(Behind) \in Chars /\ <<Head(Behind)>> \in Seq(Chars) /\ Tail(Behind) \in Seq(Chars)
      /\ Behind = <<Head(Behind)>> \o Tail(Behind)
  BY Parts, HeadTail
<1>2. /\ Append(Before, Head(Behind)) \in Seq(Chars)
      /\ Append(Before, Head(Behind)) = Before \o <<Head(Behind)>>
      /\ Len(Append(Before, Head(Behind))) = Len(Before) + 1
  BY <1>1, Parts, AppendProperties, AppendIsConcat
<1>3. buf' = Append(Before, Head(Behind)) \o Tail(Behind)
  <2>1. (Before \o <<Head(Behind)>>) \o Tail(Behind) = Before \o (<<Head(Behind)>> \o Tail(Behind))
    <3>1. Before \in Seq(Chars) /\ Behind \in Seq(Chars)
      BY Parts
    <3> QED  BY <1>1, <3>1, ConcatAssociative
  <2>2. buf' = Before \o Behind
    BY Parts DEF Right
  <2> QED  BY <1>1, <1>2, <2>1, <2>2
<1>4. pos' = Len(Append(Before, Head(Behind))) + 1
  BY <1>2, Parts DEF Right
<1> QED  BY <1>1, <1>2, <1>3, <1>4, NewLine

LEMMA HomeLine ==
    ASSUME TypeOK, Home
    PROVE  /\ buf' \in Seq(Chars) /\ pos' \in 1 .. Len(buf') + 1
           /\ Before' = <<>> /\ Behind' = Before \o Behind
<1>1. <<>> \in Seq(Chars) /\ Len(<<>>) = 0 /\ buf \in Seq(Chars)
  BY EmptySeq DEF TypeOK
<1>2. buf' = <<>> \o buf /\ pos' = Len(<<>>) + 1
  BY <1>1, ConcatEmptySeq DEF Home
<1>3. Before' = <<>> /\ Behind' = buf /\ buf' \in Seq(Chars) /\ pos' \in 1 .. Len(buf') + 1
  BY <1>1, <1>2, NewLine
<1> QED  BY <1>3, Parts

LEMMA EndLine ==
    ASSUME TypeOK, End
    PROVE  /\ buf' \in Seq(Chars) /\ pos' \in 1 .. Len(buf') + 1
           /\ Before' = Before \o Behind /\ Behind' = <<>>
<1>1. <<>> \in Seq(Chars) /\ buf \in Seq(Chars)
  BY EmptySeq DEF TypeOK
<1>2. buf' = buf \o <<>> /\ pos' = Len(buf) + 1
  BY <1>1, ConcatEmptySeq DEF End
<1>3. Before' = buf /\ Behind' = <<>> /\ buf' \in Seq(Chars) /\ pos' \in 1 .. Len(buf') + 1
  BY <1>1, <1>2, NewLine
<1> QED  BY <1>3, Parts

LEMMA BackspaceLine ==
    ASSUME TypeOK, Backspace, Before # <<>>
    PROVE  /\ buf' \in Seq(Chars) /\ pos' \in 1 .. Len(buf') + 1
           /\ Before' = Front(Before) /\ Behind' = Behind
<1>1. /\ Front(Before) \in Seq(Chars) /\ Len(Front(Before)) = Len(Before) - 1
  BY Parts, FrontLast
<1>2. Front(Before) = SubSeq(buf, 1, pos - 2)
  <2>1. Front(Before) = SubSeq(SubSeq(buf, 1, pos - 1), 1, (pos - 1) - 1)
    BY Parts DEF Front, Before
  <2>2. CASE pos = 2
    <3>1. SubSeq(buf, 1, pos - 2) = <<>> /\ Len(Front(Before)) = 0
      BY <1>1, <2>2, Parts, SubSeqEmpty
    <3> QED  BY <1>1, <3>1, EmptySeq
  <2>3. CASE pos # 2
    <3> DEFINE k == pos - 1
               n == pos - 2
    <3>1. k \in 1 .. Len(buf) /\ 1 \in 1 .. Len(buf) /\ 1 \in 1 .. k - 1 + 1 /\ n \in 1 .. k - 1 + 1
          /\ n = k - 1 /\ 1 + 1 - 1 = 1 /\ 1 + n - 1 = n /\ buf \in Seq(Chars)
      BY <2>3, Parts DEF TypeOK
    <3>2. Front(Before) = SubSeq(SubSeq(buf, 1, k), 1, n)
      BY <2>1, <3>1
    <3> HIDE DEF k, n
    <3>3. SubSeq(SubSeq(buf, 1, k), 1, n) = SubSeq(buf, 1 + 1 - 1, 1 + n - 1)
      BY <3>1, SubSeqOfSubSeq
    <3>4. Front(Before) = SubSeq(buf, 1, n)
      BY <3>1, <3>2, <3>3
    <3> QED  BY <3>4 DEF n
  <2> QED  BY <2>2, <2>3
<1>3. buf' = Front(Before) \o Behind
  <2>1. CASE pos > Len(buf)
    <3>1. Behind = <<>> /\ pos = Len(buf) + 1 /\ pos # 1 /\ buf' = sub(1, Len(buf) - 1)
      BY <2>1, Parts DEF Backspace
    <3>2. buf' = Front(Before)
      BY <1>2, <3>1, Parts DEF sub
    <3> QED  BY <1>1, <3>1, <3>2, ConcatEmptySeq
  <2>2. CASE ~(pos > Len(buf))
    BY <1>2, <2>2, Parts DEF Backspace, sub, Behind
  <2> QED  BY <2>1, <2>2
<1>4. pos' = Len(Front(Before)) + 1
  BY <1>1, Parts DEF Backspace
<1> QED  BY <1>1, <1>3, <1>4, Parts, NewLine

LEMMA DeleteLine ==
    ASSUME TypeOK, Delete
    PROVE  /\ buf' \in Seq(Chars) /\ pos' \in 1 .. Len(buf') + 1
           /\ Before' = Before
           /\ Behind' = IF Behind = <<>> THEN <<>> ELSE Tail(Behind)
<1> DEFINE r == IF Behind = <<>> THEN <<>> ELSE Tail(Behind)
<1>1. r \in Seq(Chars)
  BY Parts, HeadTail, EmptySeq
<1>2. buf' = Before \o r
  <2>1. CASE Behind = <<>>
    <3>1. pos = Len(buf) + 1 /\ pos # Len(buf)
      BY <2>1, Parts
    <3>2. sub(pos + 1, Len(buf)) = <<>>
      BY <3>1, Parts, SubSeqEmpty DEF sub
    <3>3. buf' = Before \o <<>>
      BY <3>1, <3>2 DEF Delete, sub, Before
    <3> QED  BY <2>1, <3>3
  <2>2. CASE Behind # <<>>
    <3>1. pos \in 1 .. Len(buf) /\ Len(buf) \in pos .. Len(buf) /\ buf \in Seq(Chars)
      BY <2>2, Parts DEF TypeOK
    <3>2. Tail(Behind) = SubSeq(buf, pos + 1, Len(buf))
      BY <3>1, HeadTailOfSubSeq DEF Behind
    <3>3. CASE pos = Len(buf)
      <4>1. r = <<>>
        BY <2>2, <3>2, <3>3, Parts, SubSeqEmpty
      <4>2. buf' = Before
        BY <3>3 DEF Delete, sub, Before
      <4> QED  BY <4>1, <4>2, Parts, ConcatEmptySeq
    <3>4. CASE pos # Len(buf)
      BY <2>2, <3>2, <3>4 DEF Delete, sub, Before
    <3> QED  BY <3>3, <3>4
  <2> QED  BY <2>1, <2>2
<1>3. pos' = Len(Before) + 1
  BY Parts DEF Delete
<1> HIDE DEF r
<1>4. /\ buf' \in Seq(Chars) /\ pos' \in 1 .. Len(buf') + 1 /\ Before' = Before /\ Behind' = r
  BY <1>1, <1>2, <1>3, Parts, NewLine
<1> QED  BY <1>4 DEF r

-----------------------------------------------------------------------------
(* The bounds                                                              *)

LEMMA InitTypes == Init => TypeOK
<1> SUFFICES ASSUME Init PROVE TypeOK
  OBVIOUS
<1>1. \A S : <<>> \in Seq(S) /\ Len(<<>>) = 0
  OBVIOUS
<1>2. <<<<>>>> \in Seq(Seq(Chars)) /\ Len(<<<<>>>>) = 1
  <2>1. <<>> \in Seq(Chars)
    BY <1>1
  <2> QED  BY <2>1
<1>3. 1 \in 1 .. hmax + 1 /\ 1 \in 1 .. 1 /\ 1 \in 1 .. 0 + 1
  BY ReplAssumption DEF ReplAssumption
<1> QED  BY <1>1, <1>2, <1>3 DEF Init, TypeOK, Modes, Keys, OtherKeys

\* Editing keys leave the history alone.
LEMMA EditTypes ==
    ASSUME TypeOK, NEW k \in Keys, Edit(k), buf' \in Seq(Chars), pos' \in 1 .. Len(buf') + 1
    PROVE  TypeOK'
  BY DEF TypeOK, Edit

\* The history with a line put into one of its places.
LEMMA WithLine ==
    ASSUME TypeOK, NEW i \in 1 .. Len(hist)
    PROVE  /\ [hist EXCEPT ![i] = buf] \in Seq(Seq(Chars))
           /\ Len([hist EXCEPT ![i] = buf]) = Len(hist)
           /\ hist[i] \in Seq(Chars)
  BY ExceptSeq, ElementOfSeq DEF TypeOK

LEMMA MoveTypes ==
    ASSUME TypeOK, NEW i \in 1 .. Len(hist), Move(i), NEW k \in Keys, key' = k,
           mode = "edit", UNCHANGED <<outer, mode>>
    PROVE  TypeOK'
<1>1. hpos \in 1 .. Len(hist)
  BY DEF TypeOK
<1>2. /\ hist' \in Seq(Seq(Chars)) /\ Len(hist') = Len(hist)
  BY <1>1, WithLine DEF Move
<1>3. buf' \in Seq(Chars) /\ pos' \in 1 .. Len(buf') + 1
  <2>1. hist[i] \in Seq(Chars)
    BY WithLine
  <2> QED  BY <2>1, LenProperties DEF Move
<1> QED  BY <1>2, <1>3 DEF TypeOK, Move

LEMMA StoredTypes ==
    ASSUME TypeOK
    PROVE  /\ Stored \in Seq(Seq(Chars)) /\ Stored # <<>>
           /\ Len(Stored) \in 1 .. hmax + 2
           /\ Last(Stored) \in Seq(Chars)
<1> DEFINE n == Len(hist)
           h == [hist EXCEPT ![n] = buf]
<1>1. n \in Nat /\ n \in 1 .. n /\ n \in 1 .. hmax + 1 /\ hmax \in Nat
  BY ReplAssumption, LenProperties DEF TypeOK, ReplAssumption
<1>2. h \in Seq(Seq(Chars)) /\ Len(h) = n
  BY <1>1, WithLine
<1>3. <<>> \in Seq(Chars)
  OBVIOUS
<1> HIDE DEF h
<1>4. /\ Append(h, <<>>) \in Seq(Seq(Chars)) /\ Len(Append(h, <<>>)) = n + 1
      /\ Append(h, <<>>) # <<>>
  BY <1>2, <1>3, AppendProperties
<1>5. Stored = Append(h, <<>>) \/ Stored = hist
  BY DEF Stored, h
<1>6. hist \in Seq(Seq(Chars)) /\ hist # <<>>
  BY <1>1 DEF TypeOK
<1>7. Stored \in Seq(Seq(Chars)) /\ Stored # <<>> /\ Len(Stored) \in 1 .. hmax + 2
  <2>1. CASE Stored = Append(h, <<>>)
    BY <1>1, <1>4, <2>1
  <2>2. CASE Stored = hist
    BY <1>1, <1>6, <2>2
  <2> QED  BY <1>5, <2>1, <2>2
<1>8. Last(Stored) \in Seq(Chars)
  BY <1>7, FrontLast
<1> QED  BY <1>7, <1>8

LEMMA ExecutedTypes ==
    ASSUME TypeOK, Executed
    PROVE  TypeOK'
<1>1. /\ Stored \in Seq(Seq(Chars)) /\ Stored # <<>>
      /\ Len(Stored) \in 1 .. hmax + 2 /\ Last(Stored) \in Seq(Chars)
  BY StoredTypes
<1>2. hmax \in Nat /\ hmax > 0
  BY ReplAssumption DEF ReplAssumption
<1>3. Trimmed(Stored) \in Seq(Seq(Chars)) /\ Len(Trimmed(Stored)) \in 1 .. hmax + 1
  <2>1. CASE Len(Stored) > hmax + 1
    <3>1. Tail(Stored) \in Seq(Seq(Chars)) /\ Len(Tail(Stored)) = Len(Stored) - 1
      BY <1>1, HeadTailProperties
    <3>2. Trimmed(Stored) = Tail(Stored)
      BY <2>1 DEF Trimmed
    <3> QED  BY <1>1, <1>2, <2>1, <3>1, <3>2
  <2>2. CASE ~(Len(Stored) > hmax + 1)
    BY <1>1, <1>2, <2>2 DEF Trimmed
  <2> QED  BY <2>1, <2>2
<1>4. /\ hist' \in Seq(Seq(Chars)) /\ Len(hist') \in 1 .. hmax + 1 /\ hpos' \in 1 .. Len(hist')
  BY <1>3 DEF Executed
<1>5. buf' \in Seq(Chars) /\ pos' \in 1 .. Len(buf') + 1
  BY <1>1, LenProperties DEF Executed
<1>6. mode' \in Modes /\ key' \in Keys
  BY DEF Executed, Modes, Keys, OtherKeys
<1> QED  BY <1>4, <1>5, <1>6 DEF TypeOK, Executed

LEMMA LoopEndsTypes ==
    ASSUME TypeOK, LoopEnds, mode # "failed"
    PROVE  TypeOK'
<1>1. <<>> \in Seq(Chars) /\ mode' \in Modes /\ key' \in Keys
  BY DEF LoopEnds, Modes, Keys, OtherKeys
<1>2. buf' \in Seq(Chars) /\ outer' \in Seq(Seq(Chars))
  <2>1. CASE outer = <<>>
    BY <1>1, <2>1 DEF LoopEnds, TypeOK
  <2>2. CASE outer # <<>>
    BY <2>2, FrontLast DEF LoopEnds, TypeOK
  <2> QED  BY <2>1, <2>2
<1>3. pos' \in 1 .. Len(buf') + 1
  BY <1>2, LenProperties DEF LoopEnds
<1> QED  BY <1>1, <1>2, <1>3 DEF TypeOK, LoopEnds

LEMMA NextTypes == TypeOK /\ [Next]_vars => TypeOK'
<1> SUFFICES ASSUME TypeOK, [Next]_vars PROVE TypeOK'
  OBVIOUS
<1>1. ASSUME NEW c \in Chars, Type(c) PROVE TypeOK'
  <2>1. c \in Keys /\ Edit(c)
    BY <1>1 DEF Type, Keys
  <2> QED  BY <1>1, <2>1, TypeLine, EditTypes
<1>2. CASE Left
  <2>1. "left" \in Keys /\ Edit("left")
    BY <1>2 DEF Left, Keys, OtherKeys
  <2>2. CASE Before # <<>>
    BY <1>2, <2>1, <2>2, LeftLine, EditTypes
  <2>3. CASE Before = <<>>
    BY <1>2, <2>1, <2>3, Parts, EditTypes DEF Left, TypeOK
  <2> QED  BY <2>2, <2>3
<1>3. CASE Right
  <2>1. "right" \in Keys /\ Edit("right")
    BY <1>3 DEF Right, Keys, OtherKeys
  <2>2. CASE Behind # <<>>
    BY <1>3, <2>1, <2>2, RightLine, EditTypes
  <2>3. CASE Behind = <<>>
    BY <1>3, <2>1, <2>3, Parts, EditTypes DEF Right, TypeOK
  <2> QED  BY <2>2, <2>3
<1>4. CASE Home
  <2>1. "home" \in Keys /\ Edit("home")
    BY <1>4 DEF Home, Keys, OtherKeys
  <2> QED  BY <1>4, <2>1, HomeLine, EditTypes
<1>5. CASE End
  <2>1. "end" \in Keys /\ Edit("end")
    BY <1>5 DEF End, Keys, OtherKeys
  <2> QED  BY <1>5, <2>1, EndLine, EditTypes
<1>6. CASE Backspace
  <2>1. "backspace" \in Keys /\ Edit("backspace")
    BY <1>6 DEF Backspace, Keys, OtherKeys
  <2>2. CASE Before # <<>>
    BY <1>6, <2>1, <2>2, BackspaceLine, EditTypes
  <2>3. CASE Before = <<>>
    BY <1>6, <2>1, <2>3, Parts, EditTypes DEF Backspace, TypeOK
  <2> QED  BY <2>2, <2>3
<1>7. CASE Delete
  <2>1. "delete" \in Keys /\ Edit("delete")
    BY <1>7 DEF Delete, Keys, OtherKeys
  <2> QED  BY <1>7, <2>1, DeleteLine, EditTypes
<1>8. CASE Interrupt
  <2>1. "^C" \in Keys /\ Edit("^C")
    BY <1>8 DEF Interrupt, Keys, OtherKeys
  <2>2. buf' \in Seq(Chars) /\ pos' \in 1 .. Len(buf') + 1
    BY <1>8 DEF Interrupt
  <2> QED  BY <2>1, <2>2, EditTypes
<1>9. CASE Up
  <2>1. hpos - 1 \in 1 .. Len(hist) /\ "up" \in Keys
    BY <1>9 DEF Up, TypeOK, Keys, OtherKeys
  <2> QED  BY <1>9, <2>1, MoveTypes DEF Up
<1>10. CASE Down
  <2>1. hpos + 1 \in 1 .. Len(hist) /\ "down" \in Keys
    BY <1>10, LenProperties DEF Down, TypeOK, Keys, OtherKeys
  <2> QED  BY <1>10, <2>1, MoveTypes DEF Down
<1>11. CASE Recall
  <2>1. mode' \in Modes /\ key' \in Keys
    BY <1>11 DEF Recall, TypeOK, Modes, Keys, OtherKeys
  <2>2. /\ buf' \in Seq(Chars) /\ pos' \in 1 .. Len(buf') + 1
        /\ hpos' \in IF mode' = "failed" THEN Len(hist) + 1 .. hmax - 1 ELSE 1 .. Len(hist)
    <3>1. CASE Number(buf) <= Len(hist)
      <4>1. Number(buf) \in 1 .. Len(hist)
        BY <1>11, <3>1, LenProperties, ReplAssumption DEF Recall, TypeOK, ReplAssumption
      <4>2. hist[Number(buf)] \in Seq(Chars)
        BY <4>1, WithLine
      <4>3. mode' = "edit" /\ hpos' = Number(buf)
        BY <1>11, <3>1 DEF Recall
      <4> QED  BY <1>11, <3>1, <4>1, <4>2, <4>3, LenProperties DEF Recall
    <3>2. CASE ~(Number(buf) <= Len(hist))
      <4>1. mode' = "failed" /\ hpos' = Number(buf) /\ Number(buf) \in 1 .. hmax - 1
            /\ UNCHANGED <<buf, pos>>
        BY <1>11, <3>2 DEF Recall
      <4>2. hpos' \in Len(hist) + 1 .. hmax - 1
        BY <3>2, <4>1, LenProperties, ReplAssumption DEF TypeOK, ReplAssumption
      <4> QED  BY <4>1, <4>2 DEF TypeOK
    <3> QED  BY <3>1, <3>2
  <2> QED  BY <1>11, <2>1, <2>2 DEF Recall, TypeOK
<1>12. CASE Enter
  BY <1>12 DEF Enter, TypeOK, Modes, Keys, OtherKeys
<1>13. CASE Executed
  BY <1>13, ExecutedTypes
<1>14. CASE Call
  <2>1. outer' \in Seq(Seq(Chars))
    BY <1>14, AppendProperties DEF Call, TypeOK
  <2>2. buf' \in Seq(Chars) /\ pos' \in 1 .. Len(buf') + 1 /\ mode' \in Modes /\ key' \in Keys
    BY <1>14 DEF Call, Modes, Keys, OtherKeys
  <2> QED  BY <1>14, <2>1, <2>2 DEF Call, TypeOK
<1>15. CASE Quit
  BY <1>15, LoopEndsTypes DEF Quit
<1>16. CASE PrintFails
  BY <1>16, LoopEndsTypes DEF PrintFails
<1>17. CASE Start
  <2>1. buf' \in Seq(Chars) /\ pos' \in 1 .. Len(buf') + 1 /\ mode' \in Modes /\ key' \in Keys
    BY <1>17 DEF Start, Modes, Keys, OtherKeys
  <2> QED  BY <1>17, <2>1 DEF Start, TypeOK
<1>18. CASE UNCHANGED vars
  BY <1>18 DEF vars, TypeOK
<1> QED
  BY <1>1, <1>2, <1>3, <1>4, <1>5, <1>6, <1>7, <1>8, <1>9, <1>10, <1>11, <1>12, <1>13,
     <1>14, <1>15, <1>16, <1>17, <1>18 DEF Next

\* The cursor stays in the line, the position in the history until ^R asks for
\* an entry that is not there, and the history in its bound.
THEOREM BoundsKept == Spec => []TypeOK
  BY InitTypes, NextTypes, PTL DEF Spec

-----------------------------------------------------------------------------
(* The editor                                                              *)

\* A line whose cursor is at its beginning, and one whose cursor is behind it.
LEMMA AtStart ==
    ASSUME TypeOK', pos' = 1
    PROVE  Before' = <<>> /\ Behind' \in Seq(Chars)
<1>1. <<>> \in Seq(Chars) /\ Len(<<>>) = 0 /\ buf' \in Seq(Chars)
  BY EmptySeq DEF TypeOK
<1>2. buf' = <<>> \o buf' /\ pos' = Len(<<>>) + 1
  BY <1>1, ConcatEmptySeq
<1>3. Before' = <<>> /\ Behind' = buf'
  BY <1>1, <1>2, NewLine
<1> QED  BY <1>1, <1>3

LEMMA AtEnd ==
    ASSUME NEW l \in Seq(Chars), buf' = l, pos' = Len(l) + 1
    PROVE  Before' = l /\ Behind' = <<>>
<1>1. <<>> \in Seq(Chars) /\ l \o <<>> = l
  BY ConcatEmptySeq, EmptySeq
<1> QED  BY <1>1, NewLine

LEMMA StepEdits ==
    TypeOK /\ TypeOK' /\ [Next]_vars => [Editor!Next]_<<Before, Behind, key>>
<1> SUFFICES ASSUME TypeOK, TypeOK', [Next]_vars
             PROVE  [Editor!Next]_<<Before, Behind, key>>
  OBVIOUS
<1> DEFINE Same == Before' = Before /\ Behind' = Behind
<1>0. buf' = buf /\ pos' = pos => Same
  BY DEF Before, Behind
<1>1. ASSUME NEW c \in Chars, Type(c) PROVE Editor!Type(c)
  <2>1. key' = c
    BY <1>1 DEF Type, Edit
  <2> QED  BY <1>1, <2>1, TypeLine DEF Editor!Type, Before, Behind
<1>2. ASSUME Left PROVE Editor!Left
  <2>1. key' = "left"
    BY <1>2 DEF Left, Edit
  <2>2. CASE Before = <<>>
    <3>1. Same
      BY <1>0, <1>2, <2>2, Parts DEF Left
    <3> QED  BY <2>1, <2>2, <3>1 DEF Editor!Left, Before, Behind
  <2>3. CASE Before # <<>>
    BY <1>2, <2>1, <2>3, LeftLine
       DEF Editor!Left, Editor!Front, Editor!Last, Front, Last, Before, Behind
  <2> QED  BY <2>2, <2>3
<1>3. ASSUME Right PROVE Editor!Right
  <2>1. key' = "right"
    BY <1>3 DEF Right, Edit
  <2>2. CASE Behind = <<>>
    <3>1. Same
      BY <1>0, <1>3, <2>2, Parts DEF Right
    <3> QED  BY <2>1, <2>2, <3>1 DEF Editor!Right, Before, Behind
  <2>3. CASE Behind # <<>>
    BY <1>3, <2>1, <2>3, RightLine DEF Editor!Right, Before, Behind
  <2> QED  BY <2>2, <2>3
<1>4. ASSUME Home PROVE Editor!Home
  BY <1>4, HomeLine DEF Home, Edit, Editor!Home, Before, Behind
<1>5. ASSUME End PROVE Editor!End
  BY <1>5, EndLine DEF End, Edit, Editor!End, Before, Behind
<1>6. ASSUME Backspace PROVE Editor!Backspace
  <2>1. key' = "backspace"
    BY <1>6 DEF Backspace, Edit
  <2>2. CASE Before = <<>>
    <3>1. Same
      BY <1>0, <1>6, <2>2, Parts DEF Backspace
    <3> QED  BY <2>1, <2>2, <3>1 DEF Editor!Backspace, Before, Behind
  <2>3. CASE Before # <<>>
    BY <1>6, <2>1, <2>3, BackspaceLine
       DEF Editor!Backspace, Editor!Front, Front, Before, Behind
  <2> QED  BY <2>2, <2>3
<1>7. ASSUME Delete PROVE Editor!Delete
  <2>1. key' = "delete"
    BY <1>7 DEF Delete, Edit
  <2> QED  BY <1>7, <2>1, DeleteLine DEF Editor!Delete, Before, Behind
<1>8. ASSUME Interrupt PROVE Editor!Interrupt
  <2>1. key' = "^C"
    BY <1>8 DEF Interrupt, Edit
  <2>2. Before' = <<>> /\ Behind' = <<>>
    <3>1. <<>> \in Seq(Chars) /\ Len(<<>>) = 0 /\ buf' = <<>> /\ pos' = Len(<<>>) + 1
      BY <1>8, EmptySeq DEF Interrupt
    <3> QED  BY <3>1, AtEnd
  <2> QED  BY <2>1, <2>2 DEF Editor!Interrupt, Before, Behind
<1>9. ASSUME NEW i \in 1 .. Len(hist), Move(i), key' \in {"up", "down"} PROVE Editor!Recall
  <2>1. hist[i] \in Seq(Chars)
    BY WithLine
  <2>2. Before' = hist[i] /\ Behind' = <<>>
    BY <1>9, <2>1, AtEnd DEF Move
  <2> QED  BY <1>9, <2>1, <2>2 DEF Editor!Recall, Before, Behind
<1>10. ASSUME Up PROVE Editor!Recall
  <2>1. hpos - 1 \in 1 .. Len(hist)
    BY <1>10 DEF Up, TypeOK
  <2> QED  BY <1>9, <1>10, <2>1 DEF Up
<1>11. ASSUME Down PROVE Editor!Recall
  <2>1. hpos + 1 \in 1 .. Len(hist)
    BY <1>11, LenProperties DEF Down, TypeOK
  <2> QED  BY <1>9, <1>11, <2>1 DEF Down
<1>12. ASSUME Recall PROVE Editor!Recall
  <2>1. key' = "^R"
    BY <1>12 DEF Recall
  <2>2. CASE Number(buf) <= Len(hist)
    <3>1. Number(buf) \in 1 .. Len(hist)
      BY <1>12, <2>2, LenProperties, ReplAssumption DEF Recall, TypeOK, ReplAssumption
    <3>2. hist[Number(buf)] \in Seq(Chars)
      BY <3>1, WithLine
    <3>3. Before' = hist[Number(buf)] /\ Behind' = <<>>
      BY <1>12, <2>2, <3>2, AtEnd DEF Recall
    <3> QED  BY <2>1, <3>2, <3>3 DEF Editor!Recall, Before, Behind
  <2>3. CASE ~(Number(buf) <= Len(hist))
    <3>1. Same
      BY <1>0, <1>12, <2>3 DEF Recall
    <3> QED  BY <2>1, <3>1 DEF Editor!Recall, Before, Behind
  <2> QED  BY <2>2, <2>3
<1>13. ASSUME Enter PROVE Editor!Execute
  <2>1. Same
    BY <1>0, <1>13 DEF Enter
  <2> QED  BY <1>13, <2>1 DEF Enter, Editor!Execute, Before, Behind
<1>14. ASSUME pos' = 1, key' \in {"done", "quit", "repl"} PROVE Editor!Other
  BY <1>14, AtStart DEF Editor!Other, Before, Behind
<1>15. ASSUME Executed \/ Call \/ Quit \/ PrintFails PROVE Editor!Other
  BY <1>14, <1>15 DEF Executed, Call, Quit, PrintFails, LoopEnds
<1>16. ASSUME Start PROVE Editor!Other
  BY <1>14, <1>16 DEF Start
<1>17. ASSUME UNCHANGED vars PROVE UNCHANGED <<Before, Behind, key>>
  BY <1>0, <1>17 DEF vars
<1> QED
  BY <1>1, <1>2, <1>3, <1>4, <1>5, <1>6, <1>7, <1>8, <1>10, <1>11, <1>12, <1>13,
     <1>15, <1>16, <1>17 DEF Next, Editor!Next

\* Every key edits the text around the cursor as LineEditor says: the string
\* operations of repl.lua implement the line editor.
THEOREM LoopEditsLine == Spec => EditsLine
<1>1. Init => Editor!Init
  BY DEF Init, Editor!Init
<1>2. Spec => []TypeOK
  BY BoundsKept
<1> QED  BY <1>1, <1>2, StepEdits, PTL DEF Spec, EditsLine, Editor!Spec, Before, Behind
-----------------------------------------------------------------------------
(* The history                                                             *)

LEMMA FrontElements ==
    ASSUME NEW S, NEW s \in Seq(S), s # <<>>
    PROVE  /\ Front(s) \in Seq(S) /\ Len(Front(s)) = Len(s) - 1
           /\ \A i \in 1 .. Len(s) - 1 : Front(s)[i] = s[i]
<1>1. Front(s) \in Seq(S) /\ Len(Front(s)) = Len(s) - 1
  BY FrontLast
<1>2. Len(s) \in Nat /\ Front(s) = SubSeq(s, 1, Len(s) - 1)
  BY DEF Front
<1> QED  BY <1>1, <1>2

LEMMA FrontOfAppend ==
    ASSUME NEW S, NEW s \in Seq(S), NEW e \in S
    PROVE  Front(Append(s, e)) = s
<1> DEFINE a == Append(s, e)
<1>1. /\ a \in Seq(S) /\ a # <<>> /\ Len(a) = Len(s) + 1 /\ Len(s) \in Nat
      /\ \A i \in 1 .. Len(s) : a[i] = s[i]
  BY AppendProperties
<1> HIDE DEF a
<1>2. /\ Front(a) \in Seq(S) /\ Len(Front(a)) = Len(a) - 1
      /\ \A i \in 1 .. Len(a) - 1 : Front(a)[i] = a[i]
  BY <1>1, FrontElements
<1>3. Len(Front(a)) = Len(s) /\ \A i \in 1 .. Len(s) : Front(a)[i] = s[i]
  BY <1>1, <1>2
<1>4. Front(a) = s
  BY <1>2, <1>3, SeqEqual
<1> QED  BY <1>4 DEF a

\* A sequence with another last element.
LEMMA LastReplaced ==
    ASSUME NEW S, NEW s \in Seq(S), s # <<>>, NEW e \in S
    PROVE  /\ [s EXCEPT ![Len(s)] = e] \in Seq(S)
           /\ [s EXCEPT ![Len(s)] = e] = Append(Front(s), e)
<1> DEFINE n == Len(s)
           h == [s EXCEPT ![n] = e]
           f == Front(s)
           a == Append(f, e)
<1>1. n \in Nat /\ n > 0 /\ n \in 1 .. n
  BY EmptySeq
<1>2. h \in Seq(S) /\ Len(h) = n /\ \A i \in 1 .. n : h[i] = IF i = n THEN e ELSE s[i]
  BY <1>1, ExceptSeq
<1>3. f \in Seq(S) /\ Len(f) = n - 1 /\ \A i \in 1 .. n - 1 : f[i] = s[i]
  BY FrontElements
<1> HIDE DEF f
<1>4. /\ a \in Seq(S) /\ Len(a) = Len(f) + 1 /\ \A i \in 1 .. Len(f) : a[i] = f[i]
      /\ a[Len(f) + 1] = e
  BY <1>3, AppendProperties
<1> HIDE DEF a, h, n
<1>5. Len(h) = Len(a) /\ \A i \in 1 .. Len(h) : h[i] = a[i]
  <2>1. ASSUME NEW i \in 1 .. n PROVE h[i] = a[i]
    <3>1. CASE i = n
      BY <1>1, <1>2, <1>3, <1>4, <3>1
    <3>2. CASE i # n
      BY <1>1, <1>2, <1>3, <1>4, <3>2
    <3> QED  BY <3>1, <3>2
  <2> QED  BY <1>1, <1>2, <1>3, <1>4, <2>1
<1>6. h = a
  BY <1>2, <1>4, <1>5, SeqEqual
<1> QED  BY <1>2, <1>6 DEF h, a, f, n

LEMMA FrontOfTail ==
    ASSUME NEW S, NEW s \in Seq(S), Len(s) > 1
    PROVE  Front(Tail(s)) = Tail(Front(s))
<1> DEFINE f == Front(s)
           t == Tail(s)
           n == Len(s)
<1>1. n \in Nat /\ n > 1 /\ s # <<>>
  OBVIOUS
<1>2. t \in Seq(S) /\ Len(t) = n - 1 /\ \A i \in 1 .. Len(t) : t[i] = s[i + 1]
  BY <1>1, HeadTailProperties
<1>3. f \in Seq(S) /\ Len(f) = n - 1 /\ \A i \in 1 .. n - 1 : f[i] = s[i]
  BY <1>1, FrontElements
<1> HIDE DEF f, t, n
<1>4. f # <<>> /\ t # <<>>
  BY <1>1, <1>2, <1>3, EmptySeq
<1>5. /\ Front(t) \in Seq(S) /\ Len(Front(t)) = Len(t) - 1
      /\ \A i \in 1 .. Len(t) - 1 : Front(t)[i] = t[i]
  BY <1>2, <1>4, FrontElements
<1>6. /\ Tail(f) \in Seq(S) /\ Len(Tail(f)) = Len(f) - 1
      /\ \A i \in 1 .. Len(Tail(f)) : Tail(f)[i] = f[i + 1]
  BY <1>3, <1>4, HeadTailProperties
<1>7. ASSUME NEW i \in 1 .. n - 2 PROVE Front(t)[i] = Tail(f)[i]
  <2>1. i \in 1 .. Len(t) - 1 /\ i \in 1 .. Len(t) /\ i \in 1 .. Len(Tail(f)) /\ i + 1 \in 1 .. n - 1
    BY <1>1, <1>2, <1>3, <1>6
  <2> QED  BY <1>2, <1>3, <1>5, <1>6, <2>1
<1>8. Len(Front(t)) = Len(Tail(f)) /\ \A i \in 1 .. Len(Front(t)) : Front(t)[i] = Tail(f)[i]
  BY <1>1, <1>2, <1>3, <1>5, <1>6, <1>7
<1>9. Front(t) = Tail(f)
  BY <1>5, <1>6, <1>8, SeqEqual
<1> QED  BY <1>9 DEF f, t

LEMMA TailOfAppend ==
    ASSUME NEW S, NEW s \in Seq(S), s # <<>>, NEW e \in S
    PROVE  Tail(Append(s, e)) = Append(Tail(s), e)
  OBVIOUS

\* Only a line that has been executed changes the history for good.
LEMMA OnlyExecuted ==
    ASSUME TypeOK, Next, key' = "done"
    PROVE  Executed
<1>1. ASSUME NEW c \in Chars, Type(c) PROVE FALSE
  BY <1>1, ReplAssumption DEF Type, Edit, ReplAssumption, OtherKeys
<1> QED
  BY <1>1 DEF Next, Edit, Left, Right, Home, End, Backspace, Delete, Interrupt, Up, Down,
     Recall, Enter, Call, Quit, PrintFails, LoopEnds, Start

LEMMA ExecutedRemembers ==
    ASSUME TypeOK, Executed
    PROVE  LET old == Front(hist)  new == Front(hist') IN
           \/ new = old /\ Last(new) = buf
           \/ new = Append(old, buf)
           \/ Len(old) = hmax /\ new = Append(Tail(old), buf)
<1> DEFINE n == Len(hist)
           h == [hist EXCEPT ![n] = buf]
           a == Append(h, <<>>)
           old == Front(hist)
<1>1. /\ hist \in Seq(Seq(Chars)) /\ buf \in Seq(Chars) /\ n \in Nat /\ n > 0 /\ hist # <<>>
      /\ n <= hmax + 1 /\ hmax \in Nat /\ hmax > 0 /\ <<>> \in Seq(Chars)
  BY LenProperties, ReplAssumption DEF TypeOK, ReplAssumption
<1>2. h \in Seq(Seq(Chars)) /\ h = Append(old, buf)
  BY <1>1, LastReplaced
<1>3. /\ old \in Seq(Seq(Chars)) /\ Len(old) = n - 1
      /\ \A i \in 1 .. n - 1 : old[i] = hist[i]
  BY <1>1, FrontElements
<1> HIDE DEF h, old, n
<1>4. Len(h) = n
  BY <1>1, <1>2, <1>3, AppendProperties
<1>5. a \in Seq(Seq(Chars)) /\ Len(a) = n + 1 /\ Front(a) = Append(old, buf)
  <2>0. PICK e \in Seq(Chars) : e = <<>>
    BY <1>1
  <2>1. Append(h, e) \in Seq(Seq(Chars)) /\ Len(Append(h, e)) = n + 1
    BY <1>2, <1>4, AppendProperties
  <2>2. Front(a) = h
    BY <1>1, <1>2, FrontOfAppend
  <2> QED  BY <1>2, <2>0, <2>1, <2>2
<1>6. CASE Stored = hist /\ n > 1 /\ hist[n - 1] = buf
  <2>1. hist' = hist
    BY <1>1, <1>6 DEF Executed, Trimmed, n
  <2>2. n - 1 \in 1 .. n - 1 /\ old[n - 1] = buf
    BY <1>1, <1>3, <1>6
  <2>3. Last(old) = buf
    BY <1>3, <2>2 DEF Last
  <2> QED  BY <2>1, <2>3 DEF old
<1>7. CASE Stored = a
  <2> HIDE DEF a
  <2>1. CASE Len(a) > hmax + 1
    <3>1. hist' = Tail(a)
      BY <1>7, <2>1 DEF Executed, Trimmed
    <3>2. n = hmax + 1 /\ Len(a) > 1
      BY <1>1, <1>5, <2>1
    <3>3. Len(old) = hmax /\ old # <<>>
      BY <1>1, <1>3, <3>2, EmptySeq
    <3>4. Front(Tail(a)) = Tail(Append(old, buf))
      BY <1>5, <3>2, FrontOfTail
    <3>5. Tail(Append(old, buf)) = Append(Tail(old), buf)
      BY <1>1, <1>3, <3>3, TailOfAppend
    <3> QED  BY <3>1, <3>3, <3>4, <3>5 DEF old
  <2>2. CASE ~(Len(a) > hmax + 1)
    <3>1. hist' = a
      BY <1>7, <2>2 DEF Executed, Trimmed
    <3> QED  BY <1>5, <3>1 DEF old
  <2> QED  BY <2>1, <2>2
<1>8. Stored = a \/ (Stored = hist /\ n > 1 /\ hist[n - 1] = buf)
  <2>1. n = 1 \/ n > 1
    BY <1>1
  <2> QED  BY <2>1 DEF Stored, h, n
<1> QED  BY <1>6, <1>7, <1>8

\* Any other step leaves the history alone, or puts the edited line in its place.
LEMMA OthersKeep ==
    ASSUME TypeOK, Next, key' # "done"
    PROVE  /\ DOMAIN hist' = DOMAIN hist
           /\ \A i \in DOMAIN hist :
                hist'[i] = hist[i] \/ (i = hpos /\ key' \in {"up", "down"} /\ hist'[i] = buf)
<1>1. CASE hist' = hist
  BY <1>1
<1>2. ASSUME NEW n, Move(n), key' \in {"up", "down"}, mode = "edit"
      PROVE  /\ DOMAIN hist' = DOMAIN hist
             /\ \A i \in DOMAIN hist :
                  hist'[i] = hist[i] \/ (i = hpos /\ key' \in {"up", "down"} /\ hist'[i] = buf)
  BY <1>2 DEF Move, TypeOK
<1>3. CASE Up
  BY <1>2, <1>3 DEF Up
<1>4. CASE Down
  BY <1>2, <1>4 DEF Down
<1>5. hist' = hist \/ Up \/ Down
  BY DEF Next, Edit, Type, Left, Right, Home, End, Backspace, Delete, Interrupt,
     Recall, Enter, Executed, Call, Quit, PrintFails, LoopEnds, Start
<1> QED  BY <1>1, <1>3, <1>4, <1>5

\* A line that has been executed is the last one of the history, whatever loops
\* ran in it, and of the lines before it at most the oldest is lost, and that
\* only when there are hmax; any other step keeps all entries, but for the one
\* that was edited in its place: for any keys, any loops and any length.
THEOREM ChangesOfHistory == Spec => HistoryChanges
<1> DEFINE Step ==
        LET old == Front(hist)  new == Front(hist') IN
        IF key' = "done"
        THEN \/ new = old /\ Last(new) = buf
             \/ new = Append(old, buf)
             \/ Len(old) = hmax /\ new = Append(Tail(old), buf)
        ELSE /\ DOMAIN hist' = DOMAIN hist
             /\ \A i \in DOMAIN hist :
                  hist'[i] = hist[i] \/ (i = hpos /\ key' \in {"up", "down"} /\ hist'[i] = buf)
<1>1. TypeOK /\ [Next]_vars => [Step]_vars
  <2> SUFFICES ASSUME TypeOK, Next PROVE Step
    OBVIOUS
  <2>1. CASE key' = "done"
    BY <2>1, OnlyExecuted, ExecutedRemembers
  <2>2. CASE key' # "done"
    BY <2>2, OthersKeep
  <2> QED  BY <2>1, <2>2
<1>2. Spec => []TypeOK
  BY BoundsKept
<1> QED  BY <1>1, <1>2, PTL DEF Spec, HistoryChanges

-----------------------------------------------------------------------------
(* The prompt of lua_interface                                             *)

ShellInv == ShellTypeOK /\ LoopInv

USE DEF shellVars, boot, shutdown, prompt

LEMMA StepsLen == Len(Steps) = 13
BY DEF Steps

\* LoopInv is inductive, together with the types.
LEMMA ShellInductive == ShellSpec => []ShellInv
<1>1. ShellInit => ShellInv
  <2> SUFFICES ASSUME ShellInit PROVE ShellTypeOK /\ LoopInv
    BY DEF ShellInv
  <2>1. ShellTypeOK
    <3>1. next \in 0 .. Len(Steps)
      BY StepsLen DEF ShellInit
    <3>2. waited \in 0 .. NetTimeout
      BY ShellAssumption DEF ShellInit, ShellAssumption
    <3>3. lines \in 0 .. 1
      BY DEF ShellInit
    <3>4. phase = "init" /\ net \in Nets /\ mShutdownMode = "None"
      BY DEF ShellInit
    <3>5. handler \in BOOLEAN /\ pressed \in BOOLEAN
      BY DEF ShellInit
    <3> QED
      BY <3>1, <3>2, <3>3, <3>4, <3>5 DEF ShellTypeOK
  <2>2. LoopInv
    BY DEF ShellInit, LoopInv, InLoop
  <2> QED
    BY <2>1, <2>2
<1>2. ShellInv /\ [ShellNext]_shellVars => ShellTypeOK'
  <2> SUFFICES ASSUME ShellInv, [ShellNext]_shellVars PROVE ShellTypeOK'
    OBVIOUS
  <2> USE ShellAssumption, StepsLen DEF ShellAssumption, ShellInv, ShellTypeOK, LoopInv
  <2>1. CASE InitializeStep
    BY <2>1 DEF InitializeStep
  <2>2. CASE InitializeFails
    BY <2>2 DEF InitializeFails
  <2>3. CASE WaitForNet
    BY <2>3 DEF WaitForNet
  <2>4. CASE Second
    BY <2>4 DEF Second
  <2>5. CASE WaitEnds
    BY <2>5 DEF WaitEnds
  <2>6. CASE Run
    BY <2>6 DEF Run
  <2>7. CASE LoadHello
    BY <2>7 DEF LoadHello
  <2>8. CASE LoadFails
    BY <2>8 DEF LoadFails
  <2>9. CASE HelloEnds
    <3>1. pressed' \in BOOLEAN
      BY <2>9 DEF HelloEnds
    <3>2. lines' \in 0 .. 1
      BY <2>9 DEF HelloEnds
    <3>3. phase' = "check" /\ mShutdownMode' = "Halt" /\ UNCHANGED <<boot, handler>>
      BY <2>9 DEF HelloEnds
    <3> QED
      BY <3>1, <3>2, <3>3
  <2>10. CASE Prompt
    BY <2>10 DEF Prompt
  <2>11. CASE ReadLine
    BY <2>11 DEF ReadLine, InLoop
  <2>12. CASE ReadNothing
    BY <2>12 DEF ReadNothing
  <2>13. CASE LineEnds
    BY <2>13 DEF LineEnds
  <2>14. CASE LuaReboots
    BY <2>14 DEF LuaReboots
  <2>15. CASE Leave
    BY <2>15 DEF Leave
  <2>16. CASE CtrlAltDelete
    BY <2>16 DEF CtrlAltDelete
  <2>17. CASE KeyboardRemoved
    BY <2>17 DEF KeyboardRemoved
  <2>18. CASE UNCHANGED shellVars
    BY <2>18
  <2> QED
    BY <2>1, <2>2, <2>3, <2>4, <2>5, <2>6, <2>7, <2>8, <2>9,
       <2>10, <2>11, <2>12, <2>13, <2>14, <2>15, <2>16, <2>17, <2>18 DEF ShellNext
<1>3. ShellInv /\ [ShellNext]_shellVars => LoopInv'
  <2> SUFFICES ASSUME ShellInv, [ShellNext]_shellVars PROVE LoopInv'
    OBVIOUS
  <2> USE ShellAssumption DEF ShellAssumption, ShellInv, ShellTypeOK, LoopInv, InLoop
  <2>1. CASE InitializeStep
    BY <2>1 DEF InitializeStep
  <2>2. CASE InitializeFails
    BY <2>2 DEF InitializeFails
  <2>3. CASE WaitForNet
    BY <2>3 DEF WaitForNet
  <2>4. CASE Second
    BY <2>4 DEF Second
  <2>5. CASE WaitEnds
    BY <2>5 DEF WaitEnds
  <2>6. CASE Run
    BY <2>6 DEF Run
  <2>7. CASE LoadHello
    BY <2>7 DEF LoadHello
  <2>8. CASE LoadFails
    BY <2>8 DEF LoadFails
  <2>9. CASE HelloEnds
    BY <2>9 DEF HelloEnds
  <2>10. CASE Prompt
    BY <2>10 DEF Prompt
  <2>11. CASE ReadLine
    BY <2>11 DEF ReadLine
  <2>12. CASE ReadNothing
    BY <2>12 DEF ReadNothing
  <2>13. CASE LineEnds
    BY <2>13 DEF LineEnds
  <2>14. CASE LuaReboots
    BY <2>14 DEF LuaReboots
  <2>15. CASE Leave
    BY <2>15 DEF Leave
  <2>16. CASE CtrlAltDelete
    BY <2>16 DEF CtrlAltDelete
  <2>17. CASE KeyboardRemoved
    BY <2>17 DEF KeyboardRemoved
  <2>18. CASE UNCHANGED shellVars
    BY <2>18
  <2> QED
    BY <2>1, <2>2, <2>3, <2>4, <2>5, <2>6, <2>7, <2>8, <2>9,
       <2>10, <2>11, <2>12, <2>13, <2>14, <2>15, <2>16, <2>17, <2>18 DEF ShellNext
<1> QED
  BY <1>1, <1>2, <1>3, PTL DEF ShellSpec, ShellInv

\* Type correctness.
THEOREM ShellTypes == ShellSpec => []ShellTypeOK
<1>1. ShellInv => ShellTypeOK
  BY DEF ShellInv
<1> QED
  BY <1>1, ShellInductive, PTL

\* After Ctrl-Alt-Del at the prompt at most the line that is being typed or run
\* is still executed (the loop of lua_interface, CKernel::CtrlAltDelete).
THEOREM AnsweredAfterOneLine == ShellSpec => []OneMoreLine
<1>1. ShellInv => OneMoreLine
  BY DEF ShellInv, ShellTypeOK, OneMoreLine
<1> QED
  BY <1>1, ShellInductive, PTL

\* The loop of lua_interface is left only for a press that came in it.
THEOREM LeftOnlyForPress == ShellSpec => LeftForPress
<1>1. ShellInv /\ [ShellNext]_shellVars => [InLoop /\ phase' = "load" => pressed]_shellVars
  <2> SUFFICES ASSUME ShellInv, ShellNext, InLoop, phase' = "load" PROVE pressed
    OBVIOUS
  <2>1. Leave
    BY DEF ShellNext, ShellInv, ShellTypeOK, InLoop, InitializeStep, InitializeFails, WaitForNet, Second,
       WaitEnds, Run, LoadHello, LoadFails, HelloEnds, Prompt, ReadLine, ReadNothing,
       LineEnds, LuaReboots, CtrlAltDelete, KeyboardRemoved
  <2> QED
    BY <2>1 DEF ShellInv, LoopInv, ShellTypeOK, Leave
<1> QED
  BY <1>1, ShellInductive, PTL DEF ShellSpec, LeftForPress
=============================================================================
