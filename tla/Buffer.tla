------------------------------- MODULE Buffer -------------------------------
(***************************************************************************)
(* Buffer.h and Buffer.cc: a vector of bytes with a reader and a writer    *)
(* index.                                                                  *)
(*                                                                         *)
(*   0 .. reader .. writer .. size                                         *)
(*     prependable, readable, writable bytes                               *)
(*                                                                         *)
(* A buffer is a value and an operation an operator from buffers to        *)
(* buffers.  What the caller must see to (the asserts on its arguments) is *)
(* a guard of the caller; the asserts about the buffer itself are          *)
(* properties of BufferUser.                                               *)
(***************************************************************************)
EXTENDS Integers, Sequences, SequencesExt

CONSTANTS
  kCheapPrepend,  \* bytes kept free before the content
  kInitialSize,   \* size of the content part of a new buffer
  Extrabuf,       \* bytes on the stack that one readFd() may fill besides
  Zero,           \* the value of a byte the vector has made and nobody wrote
  CR, LF,         \* the bytes of kCRLF
  Base            \* values of a byte, where bytes are numbers

ASSUME BufferAssumption ==
  /\ kCheapPrepend \in Nat
  /\ kInitialSize \in Nat
  /\ Extrabuf \in Nat \ {0}
  /\ Base \in Nat \ {0, 1}
  /\ CR # LF

NewBuffer(initialSize) ==
  [data   |-> [i \in 0..(kCheapPrepend + initialSize - 1) |-> Zero],
   size   |-> kCheapPrepend + initialSize,
   reader |-> kCheapPrepend,
   writer |-> kCheapPrepend]

ReadableBytes(b) == b.writer - b.reader
WritableBytes(b) == b.size - b.writer
PrependableBytes(b) == b.reader

\* toStringPiece(): the readable bytes.
Content(b) == [i \in 1..ReadableBytes(b) |-> b.data[b.reader + i - 1]]

\* std::copy() of bytes into the vector, the first to index at.
Copy(data, at, bytes) ==
  [i \in DOMAIN data |->
     IF i \in at..(at + Len(bytes) - 1) THEN bytes[i - at + 1] ELSE data[i]]

\* No operation reads a byte that is not readable: callers that keep a buffer
\* in a variable let those bytes all be Zero.
Forget(b) ==
  [b EXCEPT !.data = [i \in DOMAIN @ |->
                        IF i \in b.reader..(b.writer - 1) THEN @[i] ELSE Zero]]

RetrieveAll(b) == [b EXCEPT !.reader = kCheapPrepend, !.writer = kCheapPrepend]

Retrieve(b, len) ==
  IF len < ReadableBytes(b)
  THEN [b EXCEPT !.reader = @ + len]
  ELSE RetrieveAll(b)

\* retrieveUntil(), with a pointer into the readable bytes as an index.
RetrieveUntil(b, end) == Retrieve(b, end - b.reader)

\* A bug: the prefix that must stay free is taken for free space.
MovesIntoPrefix(b, len) ==
  WritableBytes(b) + PrependableBytes(b) >= len

\* makeSpace() moves the content to the front when that is enough.
Moves(b, len) ==
  WritableBytes(b) + PrependableBytes(b) >= len + kCheapPrepend

MakeSpace(b, len) ==
  IF Moves(b, len)
  THEN [b EXCEPT !.data   = Copy(@, kCheapPrepend, Content(b)),
                 !.reader = kCheapPrepend,
                 !.writer = kCheapPrepend + ReadableBytes(b)]
  ELSE [b EXCEPT !.data = [i \in 0..(b.writer + len - 1) |->
                             IF i < b.size THEN @[i] ELSE Zero],
                 !.size = b.writer + len]

EnsureWritableBytes(b, len) ==
  IF WritableBytes(b) < len THEN MakeSpace(b, len) ELSE b

HasWritten(b, len) == [b EXCEPT !.writer = @ + len]
Unwrite(b, len) == [b EXCEPT !.writer = @ - len]

\* What the caller copies to beginWrite() before it calls hasWritten().
Fill(b, bytes) == [b EXCEPT !.data = Copy(@, b.writer, bytes)]

AppendBytes(b, bytes) ==
  LET room == EnsureWritableBytes(b, Len(bytes))
  IN  HasWritten(Fill(room, bytes), Len(bytes))

Prepend(b, bytes) ==
  [b EXCEPT !.reader = @ - Len(bytes),
            !.data   = Copy(@, b.reader - Len(bytes), bytes)]

\* shrink_to_fit() changes the capacity of the vector only.
Shrink(b, reserve) == EnsureWritableBytes(b, ReadableBytes(b) + reserve)

\* How much one readv() can bring in: the stack is used only while the
\* writable part is smaller than it.
ReadLimit(b) ==
  WritableBytes(b) + (IF WritableBytes(b) < Extrabuf THEN Extrabuf ELSE 0)

\* A bug: what was read behind the end of the vector is appended to an
\* unchanged writer index.
ReadFdKeepingWriter(b, bytes) ==
  LET here == WritableBytes(b)
  IN  IF Len(bytes) <= here
      THEN HasWritten(Fill(b, bytes), Len(bytes))
      ELSE AppendBytes(Fill(b, SubSeq(bytes, 1, here)),
                       SubSeq(bytes, here + 1, Len(bytes)))

\* readFd() of a readv() that returned these bytes.
ReadFd(b, bytes) ==
  LET here == WritableBytes(b)
  IN  IF Len(bytes) <= here
      THEN HasWritten(Fill(b, bytes), Len(bytes))
      ELSE AppendBytes([Fill(b, SubSeq(bytes, 1, here)) EXCEPT !.writer = b.size],
                       SubSeq(bytes, here + 1, Len(bytes)))

NotFound == -1

\* findCRLF(): the index of the first CR LF in the readable bytes.
FindCRLF(b) ==
  LET at == {i \in b.reader..(b.writer - 2) :
               b.data[i] = CR /\ b.data[i + 1] = LF}
  IN  IF at = {} THEN NotFound ELSE CHOOSE i \in at : \A j \in at : i <= j

-----------------------------------------------------------------------------
(* Integers of w bytes, signed or not.                                     *)

IntN(signed, w) ==
  IF signed THEN (-(Base^w \div 2))..(Base^w \div 2 - 1) ELSE 0..(Base^w - 1)

\* The bytes of an integer in the memory of a little-endian host.
HostBytes(x, w) == [i \in 1..w |-> (x \div Base^(i - 1)) % Base]

\* hostToNetworkN() and its inverse, on memory.
HostToNetwork(bytes) == Reverse(bytes)

AppendInt(b, x, w) == AppendBytes(b, HostToNetwork(HostBytes(x, w)))
PrependInt(b, x, w) == Prepend(b, HostToNetwork(HostBytes(x, w)))

PeekInt(b, signed, w) ==
  CHOOSE x \in IntN(signed, w) :
    HostBytes(x, w) = HostToNetwork(SubSeq(Content(b), 1, w))
=============================================================================
