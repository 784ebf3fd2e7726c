------------------------ MODULE KeyboardBufferProofs ------------------------
(***************************************************************************)
(* The ring of CKeyboardBuffer implements the queue of KeyQueue, for any   *)
(* size of the ring, any keys and any byte counts.                         *)
(***************************************************************************)
EXTENDS KeyboardBuffer, SequenceTheorems, TLAPS

-----------------------------------------------------------------------------
(* The arithmetic of the ring                                              *)

LEMMA SizeFacts ==
    /\ KEYB_BUF_SIZE \in Nat /\ KEYB_BUF_SIZE > 1
    /\ 0 \in Slots
  BY KeyboardBufferAssumption DEF KeyboardBufferAssumption, Slots

\* The next index is one more, or 0 behind the last slot.
LEMMA SuccValue ==
    ASSUME NEW i \in Slots
    PROVE  /\ Succ(i) = IF i = KEYB_BUF_SIZE - 1 THEN 0 ELSE i + 1
           /\ Succ(i) \in Slots
<1>1. CASE i = KEYB_BUF_SIZE - 1
  <2>1. Succ(i) = KEYB_BUF_SIZE % KEYB_BUF_SIZE
    BY <1>1, SizeFacts DEF Succ
  <2> QED  BY <1>1, <2>1, SizeFacts DEF Slots
<1>2. CASE i # KEYB_BUF_SIZE - 1
  <2>1. i + 1 \in 0 .. KEYB_BUF_SIZE - 1
    BY <1>2, SizeFacts DEF Slots
  <2> QED  BY <1>2, <2>1, SizeFacts DEF Slots, Succ
<1> QED  BY <1>1, <1>2

\* Two facts on sequences: what the tail is, and that the first element of
\* one may as well be the last of the one before it.
LEMMA TailValue ==
    ASSUME NEW S, NEW s \in Seq(S), Len(s) > 0
    PROVE  Tail(s) = [i \in 1 .. Len(s) - 1 |-> s[i + 1]]
<1>1. s # <<>>
  OBVIOUS
<1>2. /\ Tail(s) \in Seq(S) /\ Len(Tail(s)) = Len(s) - 1
      /\ \A i \in 1 .. Len(Tail(s)) : Tail(s)[i] = s[i + 1]
  BY <1>1, HeadTailProperties
<1>3. Tail(s) = [i \in 1 .. Len(Tail(s)) |-> Tail(s)[i]]
  BY <1>2, LenProperties
<1> QED  BY <1>2, <1>3

LEMMA MoveHead ==
    ASSUME NEW S, NEW s \in Seq(S), NEW t \in Seq(S), Len(t) > 0
    PROVE  Append(s, Head(t)) \o Tail(t) = s \o t
<1>1. t # <<>>
  OBVIOUS
<1>2. /\ Head(t) = t[1] /\ Head(t) \in S /\ Tail(t) \in Seq(S)
      /\ Len(Tail(t)) = Len(t) - 1
      /\ \A i \in 1 .. Len(Tail(t)) : Tail(t)[i] = t[i + 1]
  BY <1>1, HeadTailProperties
<1>3. t = <<Head(t)>> \o Tail(t)
  BY <1>1, <1>2
<1>4. Append(s, Head(t)) = s \o <<Head(t)>>
  BY <1>2
<1>5. <<Head(t)>> \in Seq(S)
  BY <1>2
<1>6. (s \o <<Head(t)>>) \o Tail(t) = s \o (<<Head(t)>> \o Tail(t))
  BY <1>2, <1>5, ConcatAssociative
<1> QED  BY <1>3, <1>4, <1>6

\* The characters waiting are one sequence, shorter than the ring.
LEMMA ContentsType ==
    ASSUME TypeOK
    PROVE  /\ Used \in 0 .. KEYB_BUF_SIZE - 1
           /\ Contents \in Seq(Chars) /\ Len(Contents) = Used
           /\ BufStat <=> Used > 0
           /\ \A i \in 0 .. KEYB_BUF_SIZE - 1 : Place(i) \in Slots
<1>1. Used \in 0 .. KEYB_BUF_SIZE - 1
  BY SizeFacts DEF TypeOK, Slots, Used
<1>2. \A i \in 0 .. KEYB_BUF_SIZE - 1 : Place(i) \in Slots
  BY SizeFacts DEF TypeOK, Slots, Place
<1>3. \A i \in 1 .. Used : m_Buffer[Place(i - 1)] \in Chars
  BY <1>1, <1>2, SizeFacts DEF TypeOK
<1>4. BufStat <=> Used > 0
  BY SizeFacts DEF TypeOK, Slots, Used, BufStat
<1> QED  BY <1>1, <1>2, <1>3, <1>4 DEF Contents

\* Storing a character: the ring has room unless one slot is left, and the
\* character goes behind those that wait.
LEMMA StoreContents ==
    ASSUME TypeOK, NEW c \in Chars, Succ(m_nInPtr) # m_nOutPtr,
           m_Buffer' = [m_Buffer EXCEPT ![m_nInPtr] = c],
           m_nInPtr' = Succ(m_nInPtr), UNCHANGED m_nOutPtr
    PROVE  /\ Used < KEYB_BUF_SIZE - 1 /\ Used' = Used + 1
           /\ \A i \in 1 .. Used : Contents'[i] = Contents[i]
           /\ Contents'[Used + 1] = c
<1>1. /\ m_nInPtr \in 0 .. KEYB_BUF_SIZE - 1
      /\ m_nOutPtr \in 0 .. KEYB_BUF_SIZE - 1
      /\ Succ(m_nInPtr) = IF m_nInPtr = KEYB_BUF_SIZE - 1 THEN 0 ELSE m_nInPtr + 1
  BY SuccValue DEF TypeOK, Slots
<1>2. Used < KEYB_BUF_SIZE - 1 /\ Used' = Used + 1 /\ Used \in Nat
  BY <1>1, SizeFacts DEF Used
<1>3. \A i \in 0 .. Used : Place(i)' = Place(i)
  BY DEF Place
<1>4. \A i \in 0 .. Used - 1 : Place(i) # m_nInPtr /\ Place(i) \in Slots
  BY <1>1, <1>2, SizeFacts DEF Place, Used, Slots
<1>5. Place(Used) = m_nInPtr
  BY <1>1, <1>2, SizeFacts DEF Place, Used
<1>6. ASSUME NEW i \in 1 .. Used
      PROVE  Contents'[i] = Contents[i]
  <2>1. Contents'[i] = m_Buffer'[Place(i - 1)']
    BY <1>2 DEF Contents
  <2>2. Contents[i] = m_Buffer[Place(i - 1)]
    BY DEF Contents
  <2>3. i - 1 \in 0 .. Used - 1 /\ i - 1 \in 0 .. Used
    BY <1>2
  <2>4. Place(i - 1)' = Place(i - 1)
    BY <2>3, <1>3
  <2>5. Place(i - 1) # m_nInPtr /\ Place(i - 1) \in Slots
    BY <2>3, <1>4
  <2> QED  BY <2>1, <2>2, <2>4, <2>5 DEF TypeOK
<1>7. ASSUME NEW k, k = Used
      PROVE  Contents'[k + 1] = c
  <2>1. k + 1 \in 1 .. Used' /\ (k + 1) - 1 = k
    BY <1>2, <1>7
  <2>2. Contents'[k + 1] = m_Buffer'[Place(k)']
    BY <2>1 DEF Contents
  <2>3. Place(k)' = m_nInPtr
    BY <1>2, <1>3, <1>5, <1>7
  <2> QED  BY <2>2, <2>3, <1>1 DEF TypeOK, Slots
<1> QED  BY <1>2, <1>6, <1>7

\* A ring without room holds one character less than it has slots.
LEMMA FullRing ==
    ASSUME TypeOK, Succ(m_nInPtr) = m_nOutPtr
    PROVE  Used = KEYB_BUF_SIZE - 1
<1>1. /\ m_nInPtr \in 0 .. KEYB_BUF_SIZE - 1
      /\ m_nOutPtr \in 0 .. KEYB_BUF_SIZE - 1
      /\ Succ(m_nInPtr) = IF m_nInPtr = KEYB_BUF_SIZE - 1 THEN 0 ELSE m_nInPtr + 1
  BY SuccValue DEF TypeOK, Slots
<1> QED  BY <1>1, SizeFacts DEF Used

\* Taking a character: it is the oldest one, and the others move up.
LEMMA TakeContents ==
    ASSUME TypeOK, BufStat, m_nOutPtr' = Succ(m_nOutPtr),
           UNCHANGED <<m_Buffer, m_nInPtr>>
    PROVE  /\ Used' = Used - 1
           /\ Contents[1] = m_Buffer[m_nOutPtr]
           /\ \A i \in 1 .. Used - 1 : Contents'[i] = Contents[i + 1]
<1>1. /\ m_nInPtr \in 0 .. KEYB_BUF_SIZE - 1
      /\ m_nOutPtr \in 0 .. KEYB_BUF_SIZE - 1
      /\ m_nInPtr # m_nOutPtr
      /\ Succ(m_nOutPtr) = IF m_nOutPtr = KEYB_BUF_SIZE - 1 THEN 0 ELSE m_nOutPtr + 1
  BY SuccValue DEF TypeOK, Slots, BufStat
<1>2. Used' = Used - 1 /\ Used \in Nat \ {0} /\ Used < KEYB_BUF_SIZE
  BY <1>1, SizeFacts DEF Used
<1>3. Place(0) = m_nOutPtr
  BY <1>1, SizeFacts DEF Place
<1>4. \A i \in 0 .. Used - 2 : Place(i)' = Place(i + 1)
  BY <1>1, <1>2, SizeFacts DEF Place
<1>5. Contents[1] = m_Buffer[m_nOutPtr]
  BY <1>2, <1>3 DEF Contents
<1>6. ASSUME NEW i \in 1 .. Used - 1
      PROVE  Contents'[i] = Contents[i + 1]
  <2>1. Contents'[i] = m_Buffer'[Place(i - 1)']
    BY <1>2 DEF Contents
  <2>2. i + 1 \in 1 .. Used /\ i - 1 \in 0 .. Used - 2 /\ (i - 1) + 1 = i /\ (i + 1) - 1 = i
    BY <1>2
  <2>3. Contents[i + 1] = m_Buffer[Place(i)]
    BY <2>2 DEF Contents
  <2>4. Place(i - 1)' = Place(i)
    BY <1>4, <2>2
  <2> QED  BY <2>1, <2>3, <2>4
<1> QED  BY <1>2, <1>5, <1>6

-----------------------------------------------------------------------------
(* Types                                                                   *)

LEMMA InitType == Init => TypeOK
<1>1. \A s : s = <<>> => s \in Seq(Chars)
  OBVIOUS
<1> QED  BY <1>1, SizeFacts DEF Init, TypeOK

LEMMA StepType == TypeOK /\ [Next]_vars => TypeOK'
<1> SUFFICES ASSUME TypeOK, [Next]_vars PROVE TypeOK'
  OBVIOUS
<1> USE DEF TypeOK
<1>1. ASSUME NEW s \in Keys, KeyPressedHandler(s)
      PROVE  TypeOK'
  <2>1. s \in Seq(Chars)
    BY KeyboardBufferAssumption DEF KeyboardBufferAssumption
  <2>2. Used \in Slots
    BY ContentsType DEF Slots
  <2> QED  BY <1>1, <2>1, <2>2 DEF KeyPressedHandler, ring, reader
<1>2. CASE InBuf
  <2>1. Head(pString) \in Chars /\ Tail(pString) \in Seq(Chars)
    BY <1>2 DEF InBuf
  <2>2. Succ(m_nInPtr) \in Slots
    BY SuccValue
  <2>3. m_Buffer' \in [Slots -> Chars] /\ m_nInPtr' \in Slots
    BY <1>2, <2>1, <2>2 DEF InBuf
  <2> QED  BY <1>2, <2>1, <2>3 DEF InBuf, reader
<1>3. CASE HandlerReturns
  BY <1>3 DEF HandlerReturns, ring, writer, reader
<1>4. ASSUME NEW n \in Counts, Read(n)
      PROVE  TypeOK'
  <2>1. n \in Nat /\ <<>> \in Seq(Chars)
    BY KeyboardBufferAssumption DEF KeyboardBufferAssumption
  <2> QED  BY <1>4, <2>1 DEF Read, ring, writer
<1>5. CASE OutBuf
  <2>1. m_Buffer[m_nOutPtr] \in Chars /\ Succ(m_nOutPtr) \in Slots
    BY SuccValue
  <2>2. Append(p, m_Buffer[m_nOutPtr]) \in Seq(Chars)
    BY <2>1
  <2> QED  BY <1>5, <2>1, <2>2 DEF OutBuf, writer
<1>6. CASE ReadReturns
  BY <1>6 DEF ReadReturns, ring, writer
<1>7. CASE NewBuffer
  BY <1>7, SizeFacts DEF NewBuffer, writer, reader
<1>8. CASE UNCHANGED vars
  BY <1>8 DEF vars, ring, writer, reader
<1> QED  BY <1>1, <1>2, <1>3, <1>4, <1>5, <1>6, <1>7, <1>8 DEF Next

\* The indices of the ring never leave it, whatever the order of keys, reads
\* and new buffers (CKeyboardBuffer::InBuf and OutBuf).
THEOREM BufferTypes == Spec => []TypeOK
  BY InitType, StepType, PTL DEF Spec

-----------------------------------------------------------------------------
(* The refinement                                                          *)

\* What holds in the middle of a call.  The handler has stored a beginning of
\* the key's string, all of it so far unless the ring is full; the reader's
\* bytes and those it may still take add up to what it asked for.
CallInv ==
    /\ m_SpinLock = "handler" =>
         /\ key \in Keys
         /\ Len(pString) <= Len(key)
         /\ \A i \in 1 .. Len(pString) :
                pString[i] = key[Len(key) - Len(pString) + i]
         /\ Used = nBefore + KQ!Smaller(Len(key) - Len(pString), KEYB_BUF_SIZE - 1 - nBefore)
         /\ \A i \in 1 .. Used - nBefore : Contents[nBefore + i] = key[i]
    /\ m_SpinLock = "reader" => Len(p) + nCount \in Counts

\* Each action keeps CallInv, and is a step of the queue or leaves it alone.
Mapped == CallInv' /\ [KQ!Next]_<<Queue, result>>

LEMMA HandlerStarts ==
    ASSUME TypeOK, CallInv, NEW s \in Keys, KeyPressedHandler(s)
    PROVE  Mapped
<1>1. s \in Seq(Chars)
  BY KeyboardBufferAssumption DEF KeyboardBufferAssumption
<1>2. Used' = Used /\ Contents' = Contents /\ Used \in 0 .. KEYB_BUF_SIZE - 1
  BY ContentsType DEF KeyPressedHandler, Used, Contents, ring, Place
<1>3. CallInv'
  BY <1>1, <1>2, SizeFacts DEF CallInv, KeyPressedHandler, KQ!Smaller
<1>4. SubSeq(Contents, 1, Used) = Contents
  BY ContentsType
<1>5. UNCHANGED <<Queue, result>>
  BY <1>2, <1>4 DEF KeyPressedHandler, Queue, reader
<1> QED  BY <1>3, <1>5 DEF Mapped

LEMMA HandlerStores ==
    ASSUME TypeOK, CallInv, InBuf
    PROVE  Mapped
<1> DEFINE room == Succ(m_nInPtr) # m_nOutPtr
<1>1. /\ Head(pString) \in Chars /\ Tail(pString) \in Seq(Chars)
      /\ pString' = Tail(pString) /\ Len(pString') = Len(pString) - 1
      /\ Len(pString) > 0 /\ Head(pString) = pString[1]
      /\ \A i \in 1 .. Len(pString') : pString'[i] = pString[i + 1]
  BY DEF InBuf, TypeOK
<1>2. /\ Used \in 0 .. KEYB_BUF_SIZE - 1 /\ nBefore \in 0 .. KEYB_BUF_SIZE - 1
      /\ Len(Contents) = Used /\ Contents \in Seq(Chars)
      /\ Len(key) \in Nat /\ Len(pString) \in Nat
      /\ KEYB_BUF_SIZE \in Nat
  <2>1. Len(key) \in Nat /\ Len(pString) \in Nat
    BY DEF TypeOK
  <2>2. nBefore \in 0 .. KEYB_BUF_SIZE - 1
    BY DEF TypeOK, Slots
  <2> QED  BY <2>1, <2>2, ContentsType, SizeFacts
<1>3. /\ key \in Keys /\ Len(pString) <= Len(key)
      /\ Used = nBefore + KQ!Smaller(Len(key) - Len(pString), KEYB_BUF_SIZE - 1 - nBefore)
      /\ \A i \in 1 .. Used - nBefore : Contents[nBefore + i] = key[i]
      /\ \A i \in 1 .. Len(pString) : pString[i] = key[Len(key) - Len(pString) + i]
  BY DEF CallInv, InBuf
<1>4. UNCHANGED <<key, nBefore, m_SpinLock, result>> /\ m_SpinLock = "handler"
  BY DEF InBuf, reader
<1>5. \A i \in 1 .. Len(pString') : pString'[i] = key[Len(key) - Len(pString') + i]
  BY <1>1, <1>2, <1>3
<1>6. CASE room
  <2>1. /\ Used < KEYB_BUF_SIZE - 1 /\ Used' = Used + 1
        /\ \A i \in 1 .. Used : Contents'[i] = Contents[i]
        /\ Contents'[Used + 1] = Head(pString)
    BY <1>1, <1>6, StoreContents DEF InBuf
  <2>2. Used - nBefore = Len(key) - Len(pString)
    BY <1>2, <1>3, <2>1 DEF KQ!Smaller
  <2>3. Head(pString) = key[Used - nBefore + 1]
    BY <1>1, <1>2, <1>3, <2>2
  <2>4. Used' = nBefore + KQ!Smaller(Len(key) - Len(pString'), KEYB_BUF_SIZE - 1 - nBefore)
    BY <1>1, <1>2, <2>1, <2>2 DEF KQ!Smaller
  <2>5. \A i \in 1 .. Used' - nBefore : Contents'[nBefore + i] = key[i]
    <3>1. SUFFICES ASSUME NEW i \in 1 .. Used' - nBefore
                   PROVE  Contents'[nBefore + i] = key[i]
      OBVIOUS
    <3>2. CASE i = Used - nBefore + 1
      BY <1>2, <2>1, <2>3, <3>1, <3>2
    <3>3. CASE i # Used - nBefore + 1
      <4>1. i \in 1 .. Used - nBefore /\ nBefore + i \in 1 .. Used
        <5>1. Used \in Int /\ nBefore \in Nat /\ Used' = Used + 1
          BY <1>2, <2>1
        <5>2. i \in Int /\ 1 <= i /\ i <= Used + 1 - nBefore
          BY <3>1, <5>1
        <5> QED  BY <3>3, <5>1, <5>2
      <4> QED  BY <4>1, <1>3, <2>1
    <3> QED  BY <3>2, <3>3
  <2>6. CallInv'
    BY <1>1, <1>2, <1>3, <1>4, <1>5, <2>4, <2>5 DEF CallInv, KQ!Smaller
  <2>7. Contents' \in Seq(Chars) /\ Len(Contents') = Used'
    <3>1. \A i \in 1 .. Used' : Contents'[i] \in Chars
      <4>1. SUFFICES ASSUME NEW i \in 1 .. Used'
                     PROVE  Contents'[i] \in Chars
        OBVIOUS
      <4>2. i \in 1 .. Used \/ i = Used + 1
        BY <1>2, <2>1, <4>1
      <4> QED  BY <1>1, <1>2, <2>1, <4>2
    <3>2. Used' \in Nat
      BY <1>2, <2>1
    <3>3. Contents' = [i \in 1 .. Used' |-> Contents'[i]]
      BY DEF Contents
    <3> QED  BY <3>1, <3>2, <3>3
  <2>8. SubSeq(Contents', 1, nBefore) = SubSeq(Contents, 1, nBefore)
    <3>1. nBefore <= Used
      BY <1>2, <1>3, <2>2
    <3> QED  BY <1>2, <2>1, <2>7, <3>1
  <2>9. UNCHANGED <<Queue, result>>
    BY <1>4, <2>8 DEF Queue
  <2> QED  BY <2>6, <2>9 DEF Mapped
<1>7. CASE ~room
  <2>1. UNCHANGED ring
    BY <1>7 DEF InBuf, ring
  <2>2. Used' = Used /\ Contents' = Contents
    BY <2>1 DEF ring, Used, Contents, Place
  <2>3. Used = KEYB_BUF_SIZE - 1
    BY <1>7, FullRing
  <2>4. Used = nBefore + KQ!Smaller(Len(key) - Len(pString'), KEYB_BUF_SIZE - 1 - nBefore)
    BY <1>1, <1>2, <1>3, <2>3 DEF KQ!Smaller
  <2>5. CallInv'
    BY <1>1, <1>2, <1>3, <1>4, <1>5, <2>2, <2>4 DEF CallInv
  <2>6. UNCHANGED <<Queue, result>>
    BY <1>4, <2>2 DEF Queue
  <2> QED  BY <2>5, <2>6 DEF Mapped
<1> QED  BY <1>6, <1>7

\* Letting the lock go, the handler has put what fits behind the queue.
LEMMA HandlerReturnsMaps ==
    ASSUME TypeOK, CallInv, HandlerReturns
    PROVE  Mapped
<1>1. /\ key \in Keys /\ pString = <<>> /\ m_SpinLock = "handler"
      /\ Used = nBefore + KQ!Smaller(Len(key), KEYB_BUF_SIZE - 1 - nBefore)
      /\ \A i \in 1 .. Used - nBefore : Contents[nBefore + i] = key[i]
  BY DEF CallInv, HandlerReturns, KQ!Smaller, TypeOK
<1>2. /\ Used \in 0 .. KEYB_BUF_SIZE - 1 /\ Contents \in Seq(Chars)
      /\ Len(Contents) = Used
  BY ContentsType
<1>3. nBefore \in 0 .. KEYB_BUF_SIZE - 1 /\ key \in Seq(Chars) /\ Len(key) \in Nat
  BY DEF TypeOK, Slots
<1>4. m_SpinLock' = "free" /\ Contents' = Contents /\ result' = result
  BY DEF HandlerReturns, ring, reader, Contents, Used, Place
<1>5. Queue = SubSeq(Contents, 1, nBefore) /\ Queue' = Contents
  BY <1>1, <1>4 DEF Queue
<1> DEFINE k == KQ!Smaller(Len(key), KEYB_BUF_SIZE - 1 - nBefore)
<1>6. k \in 0 .. Len(key) /\ Used = nBefore + k
  BY <1>1, <1>3, SizeFacts DEF KQ!Smaller
<1>7. /\ Len(SubSeq(Contents, 1, nBefore)) = nBefore
      /\ SubSeq(Contents, 1, nBefore) \in Seq(Chars)
      /\ \A i \in 1 .. nBefore : SubSeq(Contents, 1, nBefore)[i] = Contents[i]
  BY <1>2, <1>3, <1>6
<1>8. /\ Len(SubSeq(key, 1, k)) = k /\ SubSeq(key, 1, k) \in Seq(Chars)
      /\ \A i \in 1 .. k : SubSeq(key, 1, k)[i] = key[i]
  BY <1>3, <1>6
<1>9. Contents = SubSeq(Contents, 1, nBefore) \o SubSeq(key, 1, k)
  <2> HIDE DEF k
  <2> DEFINE whole == SubSeq(Contents, 1, nBefore) \o SubSeq(key, 1, k)
  <2>1. whole \in Seq(Chars) /\ Len(whole) = nBefore + k
    BY <1>3, <1>6, <1>7, <1>8
  <2>2. \A i \in 1 .. Used : Contents[i] = whole[i]
    <3>1. SUFFICES ASSUME NEW i \in 1 .. Used
                   PROVE  Contents[i] = whole[i]
      OBVIOUS
    <3>2. CASE i <= nBefore
      BY <1>2, <1>3, <1>6, <1>7, <1>8, <3>1, <3>2
    <3>3. CASE i > nBefore
      <4>1. i - nBefore \in 1 .. k /\ nBefore + (i - nBefore) = i
        BY <1>2, <1>3, <1>6, <3>1, <3>3
      <4>2. whole[i] = SubSeq(key, 1, k)[i - nBefore]
        BY <1>2, <1>3, <1>6, <1>7, <1>8, <3>1, <3>3, <4>1
      <4>3. Contents[i] = key[i - nBefore]
        <5>1. i - nBefore \in 1 .. Used - nBefore
          BY <1>2, <1>3, <1>6, <4>1
        <5> QED  BY <1>1, <4>1, <5>1
      <4> QED  BY <1>8, <4>1, <4>2, <4>3
    <3>4. i \in Int /\ nBefore \in Int
      BY <1>2, <1>3, <3>1
    <3>5. i <= nBefore \/ i > nBefore
      BY <3>4
    <3> QED  BY <3>2, <3>3, <3>5
  <2> HIDE DEF whole
  <2>3. Contents = whole
    BY <1>2, <1>3, <1>6, <2>1, <2>2
  <2> QED  BY <2>3 DEF whole
<1>10. KQ!Press(key)
  BY <1>4, <1>5, <1>7, <1>9 DEF KQ!Press
<1>11. CallInv'
  BY <1>4 DEF CallInv
<1> QED  BY <1>1, <1>10, <1>11 DEF Mapped, KQ!Next

LEMMA ReadStarts ==
    ASSUME TypeOK, CallInv, NEW n \in Counts, Read(n)
    PROVE  Mapped
<1>1. /\ m_SpinLock = "free" /\ m_SpinLock' = "reader" /\ p' = <<>> /\ nCount' = n
      /\ Contents' = Contents /\ result' = result
  BY DEF Read, ring, Contents, Used, Place
<1>2. Contents \in Seq(Chars) /\ <<>> \o Contents = Contents
  BY ContentsType
<1>3. UNCHANGED <<Queue, result>>
  BY <1>1, <1>2 DEF Queue
<1>4. CallInv'
  <2>1. n \in Nat /\ Len(p') + nCount' = n
    BY <1>1, KeyboardBufferAssumption DEF KeyboardBufferAssumption
  <2> QED  BY <1>1, <2>1 DEF CallInv
<1> QED  BY <1>3, <1>4 DEF Mapped

LEMMA ReadTakes ==
    ASSUME TypeOK, CallInv, OutBuf
    PROVE  Mapped
<1> DEFINE c == m_Buffer[m_nOutPtr]
<1>1. /\ Used \in 1 .. KEYB_BUF_SIZE - 1 /\ Contents \in Seq(Chars)
      /\ Len(Contents) = Used
  BY ContentsType, SizeFacts DEF OutBuf
<1>2. /\ Used' = Used - 1 /\ Contents[1] = c
      /\ \A i \in 1 .. Used - 1 : Contents'[i] = Contents[i + 1]
  BY TakeContents DEF OutBuf
<1>3. /\ m_SpinLock = "reader" /\ m_SpinLock' = "reader" /\ p' = Append(p, c)
      /\ nCount' = nCount - 1 /\ result' = result /\ nCount \in Nat \ {0}
  BY DEF OutBuf, TypeOK
<1>4. p \in Seq(Chars) /\ Len(p) \in Nat /\ c \in Chars
  BY DEF TypeOK
<1>5. Contents' = Tail(Contents)
  <2>1. Contents' = [i \in 1 .. Used - 1 |-> Contents[i + 1]]
    <3>1. Contents' = [i \in 1 .. Used - 1 |-> Contents'[i]]
      BY <1>2 DEF Contents
    <3> QED  BY <1>2, <3>1
  <2>2. Tail(Contents) = [i \in 1 .. Used - 1 |-> Contents[i + 1]]
    BY <1>1, TailValue
  <2> QED  BY <2>1, <2>2
<1>6. Append(p, Head(Contents)) \o Tail(Contents) = p \o Contents
  <2>1. Len(Contents) > 0
    BY <1>1, SizeFacts
  <2> QED  BY <1>1, <1>4, <2>1, MoveHead
<1>7. Head(Contents) = c
  BY <1>1, <1>2
<1>8. UNCHANGED <<Queue, result>>
  BY <1>3, <1>5, <1>6, <1>7 DEF Queue
<1>9. CallInv'
  <2>1. Len(p') = Len(p) + 1
    BY <1>3, <1>4
  <2>2. Len(p') + nCount' = Len(p) + nCount
    BY <1>3, <1>4, <2>1
  <2> QED  BY <1>3, <2>2 DEF CallInv
<1> QED  BY <1>8, <1>9 DEF Mapped

\* Letting the lock go, the reader has what it asked for or all there was.
LEMMA ReadReturnsMaps ==
    ASSUME TypeOK, CallInv, ReadReturns
    PROVE  Mapped
<1> DEFINE n == Len(p) + nCount
<1>1. /\ m_SpinLock = "reader" /\ m_SpinLock' = "free" /\ result' = p
      /\ Contents' = Contents
  BY DEF ReadReturns, ring, Contents, Used, Place
<1>2. n \in Counts
  BY <1>1 DEF CallInv
<1>3. p \in Seq(Chars) /\ Len(p) \in Nat /\ nCount \in Nat
  BY DEF TypeOK
<1>4. Contents \in Seq(Chars) /\ Len(Contents) = Used /\ Used \in Nat
  BY ContentsType
<1>5. Queue = p \o Contents /\ Queue' = Contents
  BY <1>1 DEF Queue
<1>6. nCount = 0 \/ Used = 0
  BY ContentsType DEF ReadReturns
<1>7. Len(Queue) = Len(p) + Used
  <2>1. Len(p \o Contents) = Len(p) + Len(Contents)
    BY <1>3, <1>4
  <2> QED  BY <1>4, <1>5, <2>1
<1>8. KQ!Smaller(n, Len(Queue)) = Len(p)
  BY <1>3, <1>4, <1>6, <1>7 DEF KQ!Smaller
<1>9. /\ SubSeq(p \o Contents, 1, Len(p)) = p
      /\ SubSeq(p \o Contents, Len(p) + 1, Len(p) + Used) = Contents
  BY <1>3, <1>4
<1>10. KQ!Take(n)
  BY <1>1, <1>5, <1>7, <1>8, <1>9 DEF KQ!Take
<1>11. CallInv'
  BY <1>1 DEF CallInv
<1> QED  BY <1>2, <1>10, <1>11 DEF Mapped, KQ!Next

LEMMA NewBufferMaps ==
    ASSUME TypeOK, CallInv, NewBuffer
    PROVE  Mapped
<1>1. m_SpinLock = "free" /\ m_SpinLock' = "free" /\ result' = result
  BY DEF NewBuffer, reader
<1>2. Used' = 0
  BY DEF NewBuffer, Used
<1>3. Contents' = <<>>
  BY <1>2 DEF Contents
<1>4. KQ!Replace
  BY <1>1, <1>3 DEF KQ!Replace, Queue
<1>5. CallInv'
  BY <1>1 DEF CallInv
<1> QED  BY <1>4, <1>5 DEF Mapped, KQ!Next

LEMMA StepRefines ==
    TypeOK /\ CallInv /\ [Next]_vars => Mapped
<1> SUFFICES ASSUME TypeOK, CallInv, [Next]_vars PROVE Mapped
  OBVIOUS
<1>1. CASE UNCHANGED vars
  <2>1. UNCHANGED <<Contents, Used, Queue, result>>
    BY <1>1 DEF vars, ring, writer, reader, Contents, Used, Place, Queue
  <2> QED  BY <1>1, <2>1 DEF Mapped, CallInv, vars, ring, writer, reader, KQ!Smaller
<1> QED  BY <1>1, HandlerStarts, HandlerStores, HandlerReturnsMaps, ReadStarts,
            ReadTakes, ReadReturnsMaps, NewBufferMaps DEF Next

LEMMA InitRefines == Init => CallInv /\ KQ!Init
<1> SUFFICES ASSUME Init PROVE CallInv /\ KQ!Init
  OBVIOUS
<1>1. Used = 0
  BY DEF Init, Used
<1>2. Contents = <<>>
  BY <1>1 DEF Contents
<1> QED  BY <1>2 DEF Init, CallInv, KQ!Init, Queue

\* For any size of the ring the handler and the reader together behave as the
\* queue of KeyQueue: every call takes effect as a whole, characters come out
\* in the order of the keys, and only the end of a key that meets a full ring
\* is lost.
THEOREM BufferIsQueue == Spec => ImplementsKeyQueue
<1>1. Init => TypeOK /\ CallInv /\ KQ!Init
  BY InitType, InitRefines
<1>2. /\ TypeOK /\ CallInv /\ [Next]_vars
      => TypeOK' /\ CallInv' /\ [KQ!Next]_<<Queue, result>>
  BY StepType, StepRefines DEF Mapped
<1> QED  BY <1>1, <1>2, PTL DEF Spec, ImplementsKeyQueue, KQ!Spec
=============================================================================
