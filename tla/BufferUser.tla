----------------------------- MODULE BufferUser -----------------------------
(***************************************************************************)
(* A buffer under every sequence of calls that keeps to the preconditions  *)
(* Buffer.h asserts of its callers.                                        *)
(***************************************************************************)
EXTENDS Buffer

CONSTANTS
  Strings,      \* the byte strings callers append, prepend and receive
  Widths,       \* sizes of integers, in bytes
  MaxReadable   \* bound: bytes held at a time

ASSUME BufferUserAssumption ==
  /\ Strings \subseteq Seq(0..(Base - 1))
  /\ Widths \subseteq Nat \ {0}
  /\ MaxReadable \in Nat

\* Two's complement: every w bytes are the memory of an integer of that width.
ASSUME MemoryAssumption ==
  \A w \in Widths :
    /\ \A k \in 0..w : Base^k \in Nat \ {0}
    /\ \A signed \in BOOLEAN, memory \in [1..w -> 0..(Base - 1)] :
         \E x \in IntN(signed, w) : HostBytes(x, w) = memory

VARIABLES
  buf,      \* the buffer
  last      \* the last call, with its argument or its result (history)

bufferVars == <<buf, last>>

Called(op, value) == [op |-> op, value |-> value]

BufferInit ==
  /\ buf = NewBuffer(kInitialSize)
  /\ last = Called("none", 0)

Room(n) == ReadableBytes(buf) + n <= MaxReadable

CallAppend(s) ==
  /\ Room(Len(s))
  /\ buf' = Forget(AppendBytes(buf, s))
  /\ last' = Called("pushBack", s)

\* The caller writes to beginWrite() itself.
CallHasWritten(s) ==
  /\ Room(Len(s))
  /\ Len(s) <= WritableBytes(buf)
  /\ buf' = Forget(HasWritten(Fill(buf, s), Len(s)))
  /\ last' = Called("pushBack", s)

CallReadFd(s) ==
  /\ Room(Len(s))
  /\ Len(s) <= ReadLimit(buf)
  /\ buf' = Forget(ReadFd(buf, s))
  /\ last' = Called("pushBack", s)

CallPrepend(s) ==
  /\ Room(Len(s))
  /\ Len(s) <= PrependableBytes(buf)
  /\ buf' = Forget(Prepend(buf, s))
  /\ last' = Called("pushFront", s)

CallRetrieveAsString(n) ==
  /\ n <= ReadableBytes(buf)
  /\ last' = Called("popFront", SubSeq(Content(buf), 1, n))
  /\ buf' = Forget(Retrieve(buf, n))

CallUnwrite(n) ==
  /\ n <= ReadableBytes(buf)
  /\ buf' = Forget(Unwrite(buf, n))
  /\ last' = Called("popBack", n)

\* ensureWritableBytes() is public, and shrink() is a call of it.
CallShrink(reserve) ==
  /\ buf' = Forget(Shrink(buf, reserve))
  /\ last' = Called("reserve", 0)

\* swap() with a buffer that holds s.
CallSwap(s) ==
  /\ last' = Called("exchange", Content(buf))
  /\ buf' = Forget(AppendBytes(NewBuffer(kInitialSize), s))

CallAppendInt(x, w) ==
  /\ Room(w)
  /\ buf' = Forget(AppendInt(buf, x, w))
  /\ last' = Called("pushIntBack", <<x, w>>)

CallPrependInt(x, w) ==
  /\ Room(w)
  /\ w <= PrependableBytes(buf)
  /\ buf' = Forget(PrependInt(buf, x, w))
  /\ last' = Called("pushIntFront", <<x, w>>)

\* readIntN(), readUintN().
CallReadInt(signed, w) ==
  /\ w <= ReadableBytes(buf)
  /\ last' = Called("popInt", <<signed, PeekInt(buf, signed, w)>>)
  /\ buf' = Forget(Retrieve(buf, w))

BufferNext ==
  \/ \E s \in Strings :
       \/ CallAppend(s) \/ CallHasWritten(s) \/ CallReadFd(s)
       \/ CallPrepend(s) \/ CallSwap(s)
  \/ \E n \in 0..MaxReadable : CallRetrieveAsString(n) \/ CallUnwrite(n)
  \/ \E reserve \in 0..1 : CallShrink(reserve)
  \/ \E w \in Widths, signed \in BOOLEAN :
       \/ CallReadInt(signed, w)
       \/ \E x \in IntN(signed, w) : CallAppendInt(x, w) \/ CallPrependInt(x, w)

BufferSpec == BufferInit /\ [][BufferNext]_bufferVars

-----------------------------------------------------------------------------
(* Properties.                                                             *)

\* The picture at the head of Buffer.h: 0 <= reader <= writer <= size, and the
\* vector has a byte for every index below size.
BufferTypeOK ==
  /\ buf.size \in Nat
  /\ buf.data \in [0..(buf.size - 1) -> 0..(Base - 1) \cup {Zero}]
  /\ 0 <= buf.reader /\ buf.reader <= buf.writer /\ buf.writer <= buf.size

\* ensureWritableBytes() of any length makes the room it was asked for and
\* changes no readable byte, and when makeSpace() moves the content there is
\* somewhere to move it to (its assert), also after bytes were prepended.
SpaceIsMade ==
  \A len \in 0..(2 * MaxReadable) :
    LET b == EnsureWritableBytes(buf, len)
    IN  /\ WritableBytes(b) >= len
        /\ Content(b) = Content(buf)
        /\ WritableBytes(buf) < len /\ Moves(buf, len) => kCheapPrepend < buf.reader

Queue == INSTANCE ByteQueue WITH
           content <- Content(buf), Sizes <- 0..MaxReadable

\* However the calls move, grow and reset the vector, the caller sees a string
\* of bytes added to and taken from at its ends, and integers in network order.
ImplementsByteQueue == Queue!Spec
=============================================================================
