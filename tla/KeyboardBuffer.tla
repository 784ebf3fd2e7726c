--------------------------- MODULE KeyboardBuffer ---------------------------
(***************************************************************************)
(* CKeyboardBuffer of circle/lib/input/keyboardbuffer.cpp: the ring that   *)
(* the completion interrupt of the USB keyboard (or its repeat timer)      *)
(* fills and that CLineDiscipline::GetChar empties.                        *)
(*                                                                         *)
(* Each turn of the loops of KeyPressedHandler and Read is a step of its   *)
(* own; the spin lock, which masks the interrupts of the core, is what     *)
(* keeps the two apart.                                                    *)
(***************************************************************************)
EXTENDS Integers, Sequences

CONSTANTS
    Chars,          \* the characters a key can produce, without '\0'
    Keys,           \* the strings of the keys
    Counts,         \* the byte counts that readers ask for
    KEYB_BUF_SIZE   \* 64 in keyboardbuffer.h

ASSUME KeyboardBufferAssumption ==
    /\ Keys \subseteq Seq(Chars)
    /\ Counts \subseteq Nat \ {0}
    /\ KEYB_BUF_SIZE \in Nat \ {0, 1}

VARIABLES
    m_Buffer, m_nInPtr, m_nOutPtr,
    m_SpinLock,    \* "free", or who holds it: "handler" or "reader"
    pString,       \* what KeyPressedHandler has still to store
    nCount,        \* what Read may still store
    p,             \* what Read has stored in the caller's memory
    key,           \* the argument of KeyPressedHandler
    nBefore,       \* history: the characters waiting when the lock was taken
    result         \* what the last Read has returned

ring   == <<m_Buffer, m_nInPtr, m_nOutPtr>>
writer == <<pString, key, nBefore>>
reader == <<nCount, p, result>>
vars   == <<ring, m_SpinLock, writer, reader>>

Slots == 0 .. KEYB_BUF_SIZE - 1

TypeOK ==
    /\ m_Buffer \in [Slots -> Chars]
    /\ m_nInPtr \in Slots /\ m_nOutPtr \in Slots
    /\ m_SpinLock \in {"free", "handler", "reader"}
    /\ pString \in Seq(Chars) /\ key \in Seq(Chars) /\ p \in Seq(Chars)
    /\ result \in Seq(Chars)
    /\ nCount \in Nat
    /\ nBefore \in Slots

\* The memory of a new buffer is not initialised.
Init ==
    /\ m_Buffer \in [Slots -> Chars]
    /\ m_nInPtr = 0 /\ m_nOutPtr = 0
    /\ m_SpinLock = "free"
    /\ pString = <<>> /\ key = <<>> /\ nBefore = 0
    /\ nCount = 0 /\ p = <<>> /\ result = <<>>

\* & KEYB_BUF_MASK: the size is a power of two in the code.
Succ(i) == (i + 1) % KEYB_BUF_SIZE

BufStat == m_nInPtr # m_nOutPtr

\* The number of characters waiting, and the characters, oldest first.
Used == IF m_nInPtr >= m_nOutPtr
        THEN m_nInPtr - m_nOutPtr ELSE m_nInPtr - m_nOutPtr + KEYB_BUF_SIZE
Place(i) == IF m_nOutPtr + i < KEYB_BUF_SIZE
            THEN m_nOutPtr + i ELSE m_nOutPtr + i - KEYB_BUF_SIZE
Contents == [i \in 1 .. Used |-> m_Buffer[Place(i - 1)]]

-----------------------------------------------------------------------------
\* The completion interrupt comes in: no interrupt while the lock is held.
KeyPressedHandler(s) ==
    /\ m_SpinLock = "free"
    /\ m_SpinLock' = "handler"
    /\ pString' = s /\ key' = s
    /\ nBefore' = Used
    /\ UNCHANGED <<ring, reader>>

\* A plausible slip: the test looks at the slot behind the next one, and one
\* character less fits.
InBufEarly ==
    /\ m_SpinLock = "handler" /\ pString # <<>>
    /\ IF Succ(Succ(m_nInPtr)) # m_nOutPtr
       THEN /\ m_Buffer' = [m_Buffer EXCEPT ![m_nInPtr] = Head(pString)]
            /\ m_nInPtr' = Succ(m_nInPtr)
       ELSE UNCHANGED <<m_Buffer, m_nInPtr>>
    /\ pString' = Tail(pString)
    /\ UNCHANGED <<m_nOutPtr, m_SpinLock, key, nBefore, reader>>

\* One turn of the loop: the character is stored, or dropped in a full ring.
InBuf ==
    /\ m_SpinLock = "handler" /\ pString # <<>>
    /\ IF Succ(m_nInPtr) # m_nOutPtr
       THEN /\ m_Buffer' = [m_Buffer EXCEPT ![m_nInPtr] = Head(pString)]
            /\ m_nInPtr' = Succ(m_nInPtr)
       ELSE UNCHANGED <<m_Buffer, m_nInPtr>>
    /\ pString' = Tail(pString)
    /\ UNCHANGED <<m_nOutPtr, m_SpinLock, key, nBefore, reader>>

HandlerReturns ==
    /\ m_SpinLock = "handler" /\ pString = <<>>
    /\ m_SpinLock' = "free"
    /\ UNCHANGED <<ring, writer, reader>>

Read(n) ==
    /\ m_SpinLock = "free"
    /\ m_SpinLock' = "reader"
    /\ nCount' = n /\ p' = <<>>
    /\ UNCHANGED <<ring, writer, result>>

OutBuf ==
    /\ m_SpinLock = "reader" /\ nCount > 0 /\ BufStat
    /\ p' = Append(p, m_Buffer[m_nOutPtr])
    /\ m_nOutPtr' = Succ(m_nOutPtr)
    /\ nCount' = nCount - 1
    /\ UNCHANGED <<m_Buffer, m_nInPtr, m_SpinLock, writer, result>>

ReadReturns ==
    /\ m_SpinLock = "reader" /\ (nCount = 0 \/ ~BufStat)
    /\ m_SpinLock' = "free"
    /\ result' = p
    /\ UNCHANGED <<ring, writer, nCount, p>>

\* CConsole deletes the buffer when the keyboard is removed and makes a new
\* one for the next keyboard.
NewBuffer ==
    /\ m_SpinLock = "free"
    /\ m_Buffer' \in [Slots -> Chars]
    /\ m_nInPtr' = 0 /\ m_nOutPtr' = 0
    /\ UNCHANGED <<m_SpinLock, writer, reader>>

Next ==
    \/ \E s \in Keys : KeyPressedHandler(s)
    \/ InBuf
    \/ HandlerReturns
    \/ \E n \in Counts : Read(n)
    \/ OutBuf
    \/ ReadReturns
    \/ NewBuffer

Spec == Init /\ [][Next]_vars

-----------------------------------------------------------------------------
\* A call takes effect when it lets the lock go: until then the queue is what
\* it was when the lock was taken.
Queue ==
    CASE m_SpinLock = "free"    -> Contents
      [] m_SpinLock = "handler" -> SubSeq(Contents, 1, nBefore)
      [] m_SpinLock = "reader"  -> p \o Contents

KQ == INSTANCE KeyQueue WITH Capacity <- KEYB_BUF_SIZE - 1, q <- Queue

\* The ring is the queue of KeyQueue: no character is lost but in a full ring,
\* none is doubled or overtaken, a dropped rest of a key is the end of it, and
\* the loops of the handler and of the reader never mix.
ImplementsKeyQueue == KQ!Spec
=============================================================================
