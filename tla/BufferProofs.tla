---------------------------- MODULE BufferProofs ----------------------------
(***************************************************************************)
(* Proofs about Buffer and two of its users: any caller that keeps to the  *)
(* preconditions (BufferUser), shown to see a ByteQueue, and the CDN       *)
(* server.                                                                 *)
(***************************************************************************)
EXTENDS BufferUser, CDN, TLAPS

\* A buffer of bytes in B: its indices in order, its bytes within its size,
\* those between the indices written by somebody.
IsBuffer(b, B) ==
  /\ b = [data |-> b.data, size |-> b.size, reader |-> b.reader, writer |-> b.writer]
  /\ b.size \in Nat /\ b.reader \in Nat /\ b.writer \in Nat
  /\ b.reader <= b.writer /\ b.writer <= b.size /\ kCheapPrepend <= b.size
  /\ b.data \in [0..(b.size - 1) -> B \cup {Zero}]
  /\ \A i \in b.reader..(b.writer - 1) : b.data[i] \in B

\* Sequences of the same length with the same elements are equal.
LEMMA SeqEqual ==
  ASSUME NEW S, NEW p \in Seq(S), NEW q \in Seq(S), Len(p) = Len(q),
         \A i \in 1..Len(p) : p[i] = q[i]
  PROVE  p = q
  OBVIOUS

\* Length and elements of a concatenation.
LEMMA ConcatFacts ==
  ASSUME NEW S, NEW p \in Seq(S), NEW q \in Seq(S)
  PROVE  /\ p \o q \in Seq(S) /\ Len(p \o q) = Len(p) + Len(q)
         /\ \A i \in 1..Len(p) : (p \o q)[i] = p[i]
         /\ \A i \in (Len(p) + 1)..(Len(p) + Len(q)) : (p \o q)[i] = q[i - Len(p)]
  OBVIOUS

\* The content is the bytes from reader to writer.
LEMMA ContentTyped ==
  ASSUME NEW B, NEW b, IsBuffer(b, B)
  PROVE  /\ ReadableBytes(b) \in Nat /\ WritableBytes(b) \in Nat /\ PrependableBytes(b) \in Nat
         /\ Content(b) \in Seq(B) /\ Len(Content(b)) = ReadableBytes(b)
         /\ \A i \in 1..ReadableBytes(b) : Content(b)[i] = b.data[b.reader + i - 1]
<1>1. ReadableBytes(b) \in Nat /\ WritableBytes(b) \in Nat /\ PrependableBytes(b) \in Nat
  BY DEF IsBuffer, ReadableBytes, WritableBytes, PrependableBytes
<1>2. \A i \in 1..ReadableBytes(b) : b.data[b.reader + i - 1] \in B
  BY DEF IsBuffer, ReadableBytes
<1> QED
  BY <1>1, <1>2 DEF Content

\* The operations on the fields of a buffer
LEMMA NewIsBuffer ==
  ASSUME NEW B
  PROVE  /\ IsBuffer(NewBuffer(kInitialSize), B) /\ Content(NewBuffer(kInitialSize)) = <<>>
         /\ ReadableBytes(NewBuffer(kInitialSize)) = 0
<1> DEFINE b == NewBuffer(kInitialSize)
<1>1. /\ b = [data |-> b.data, size |-> b.size, reader |-> b.reader, writer |-> b.writer]
      /\ b.size = kCheapPrepend + kInitialSize /\ b.reader = kCheapPrepend /\ b.writer = kCheapPrepend
      /\ b.data = [i \in 0..(kCheapPrepend + kInitialSize - 1) |-> Zero]
  BY DEF NewBuffer
<1> HIDE DEF b
<1>2. IsBuffer(b, B)
  BY <1>1, BufferAssumption DEF IsBuffer
<1>3. ReadableBytes(b) = 0
  BY <1>1, BufferAssumption DEF ReadableBytes
<1>4. Content(b) = <<>>
  <2>1. Content(b) \in Seq(B) /\ Len(Content(b)) = 0
    BY <1>2, <1>3, ContentTyped
  <2> QED
    BY <2>1
<1> QED
  BY <1>2, <1>3, <1>4 DEF b

\* Forgetting the bytes outside the content does not touch the content.
LEMMA ForgetEffect ==
  ASSUME NEW B, NEW b, IsBuffer(b, B)
  PROVE  /\ IsBuffer(Forget(b), B) /\ Content(Forget(b)) = Content(b)
         /\ ReadableBytes(Forget(b)) = ReadableBytes(b)
<1> DEFINE f == Forget(b)
<1>1. /\ f = [data |-> f.data, size |-> f.size, reader |-> f.reader, writer |-> f.writer]
      /\ f.size = b.size /\ f.reader = b.reader /\ f.writer = b.writer
      /\ f.data = [i \in DOMAIN b.data |-> IF i \in b.reader..(b.writer - 1) THEN b.data[i] ELSE Zero]
  BY DEF Forget, IsBuffer
<1> HIDE DEF f
<1>2. DOMAIN b.data = 0..(b.size - 1)
  BY DEF IsBuffer
<1>3. b.reader..(b.writer - 1) \subseteq 0..(b.size - 1)
  BY DEF IsBuffer
<1>4. \A i \in b.reader..(b.writer - 1) : f.data[i] = b.data[i]
  BY <1>1, <1>2, <1>3
<1>5. IsBuffer(f, B)
  BY <1>1, <1>2, <1>4 DEF IsBuffer
<1>6. ReadableBytes(f) = ReadableBytes(b)
  BY <1>1 DEF ReadableBytes
<1>7. Content(f) = Content(b)
  <2>1. \A i \in 1..ReadableBytes(b) : f.data[f.reader + i - 1] = b.data[b.reader + i - 1]
    BY <1>1, <1>4 DEF ReadableBytes, IsBuffer
  <2> QED
    BY <1>6, <2>1 DEF Content
<1> QED
  BY <1>5, <1>6, <1>7 DEF f

\* std::copy() writes its bytes in place and leaves all others.
LEMMA CopyEffect ==
  ASSUME NEW B, NEW n \in Nat, NEW data \in [0..(n - 1) -> B \cup {Zero}],
         NEW at \in Nat, NEW bytes \in Seq(B), at + Len(bytes) <= n
  PROVE  /\ Copy(data, at, bytes) \in [0..(n - 1) -> B \cup {Zero}]
         /\ \A i \in at..(at + Len(bytes) - 1) :
              Copy(data, at, bytes)[i] = bytes[i - at + 1] /\ Copy(data, at, bytes)[i] \in B
         /\ \A i \in 0..(n - 1) :
              i \notin at..(at + Len(bytes) - 1) => Copy(data, at, bytes)[i] = data[i]
<1>1. DOMAIN data = 0..(n - 1) /\ Len(bytes) \in Nat
  OBVIOUS
<1>2. \A i \in at..(at + Len(bytes) - 1) : bytes[i - at + 1] \in B /\ i \in 0..(n - 1)
  <2>1. \A i \in 1..Len(bytes) : bytes[i] \in B
    OBVIOUS
  <2>2. \A i \in at..(at + Len(bytes) - 1) : i - at + 1 \in 1..Len(bytes) /\ i \in 0..(n - 1)
    BY <1>1
  <2> QED
    BY <2>1, <2>2
<1>3. Copy(data, at, bytes) =
        [i \in 0..(n - 1) |-> IF i \in at..(at + Len(bytes) - 1) THEN bytes[i - at + 1] ELSE data[i]]
  BY <1>1 DEF Copy
<1> QED
  BY <1>2, <1>3

\* Bytes written behind the readable ones, and the writer moved over them
LEMMA FillEffect ==
  ASSUME NEW B, NEW b, IsBuffer(b, B), NEW bytes \in Seq(B), Len(bytes) <= WritableBytes(b)
  PROVE  /\ IsBuffer(HasWritten(Fill(b, bytes), Len(bytes)), B)
         /\ Content(HasWritten(Fill(b, bytes), Len(bytes))) = Content(b) \o bytes
         /\ WritableBytes(HasWritten(Fill(b, bytes), Len(bytes))) = WritableBytes(b) - Len(bytes)
<1> DEFINE f == HasWritten(Fill(b, bytes), Len(bytes))
           n == Len(bytes)
<1>1. /\ f = [data |-> f.data, size |-> f.size, reader |-> f.reader, writer |-> f.writer]
      /\ f.size = b.size /\ f.reader = b.reader /\ f.writer = b.writer + n
      /\ f.data = Copy(b.data, b.writer, bytes)
  <2> DEFINE g == Fill(b, bytes)
  <2>1. /\ g = [data |-> g.data, size |-> g.size, reader |-> g.reader, writer |-> g.writer]
        /\ g.size = b.size /\ g.reader = b.reader /\ g.writer = b.writer
        /\ g.data = Copy(b.data, b.writer, bytes)
    BY DEF Fill, IsBuffer
  <2>2. f = [g EXCEPT !.writer = @ + n]
    BY DEF HasWritten
  <2> HIDE DEF g, n, f
  <2> QED
    BY <2>1, <2>2
<1>2. n \in Nat
  OBVIOUS
<1> HIDE DEF f
<1>3. /\ b.size \in Nat /\ b.reader \in Nat /\ b.writer \in Nat /\ b.reader <= b.writer
      /\ b.writer + n <= b.size /\ kCheapPrepend <= b.size
      /\ b.data \in [0..(b.size - 1) -> B \cup {Zero}]
      /\ \A i \in b.reader..(b.writer - 1) : b.data[i] \in B
  BY <1>2 DEF IsBuffer, WritableBytes
<1>4. /\ f.data \in [0..(b.size - 1) -> B \cup {Zero}]
      /\ \A i \in b.writer..(b.writer + n - 1) : f.data[i] = bytes[i - b.writer + 1] /\ f.data[i] \in B
      /\ \A i \in 0..(b.size - 1) : i \notin b.writer..(b.writer + n - 1) => f.data[i] = b.data[i]
  <2>1. b.writer \in Nat /\ bytes \in Seq(B) /\ b.writer + Len(bytes) <= b.size
    BY <1>3
  <2>2. b.size \in Nat /\ b.data \in [0..(b.size - 1) -> B \cup {Zero}]
    BY <1>3
  <2> DEFINE c == Copy(b.data, b.writer, bytes)
  <2>3. /\ c \in [0..(b.size - 1) -> B \cup {Zero}]
        /\ \A i \in b.writer..(b.writer + Len(bytes) - 1) : c[i] = bytes[i - b.writer + 1] /\ c[i] \in B
        /\ \A i \in 0..(b.size - 1) : i \notin b.writer..(b.writer + Len(bytes) - 1) => c[i] = b.data[i]
    <3> HIDE DEF n, f, c
    <3>1. PICK m \in Nat, w \in Nat : \E d \in [0..(m - 1) -> B \cup {Zero}] :
            m = b.size /\ w = b.writer /\ d = b.data /\ w + Len(bytes) <= m
      BY <2>1, <2>2
    <3>2. PICK d \in [0..(m - 1) -> B \cup {Zero}] :
            m = b.size /\ w = b.writer /\ d = b.data /\ w + Len(bytes) <= m
      BY <3>1
    <3>3. w + Len(bytes) <= m
      BY <3>2
    <3>4. /\ Copy(d, w, bytes) \in [0..(m - 1) -> B \cup {Zero}]
          /\ \A i \in w..(w + Len(bytes) - 1) :
               Copy(d, w, bytes)[i] = bytes[i - w + 1] /\ Copy(d, w, bytes)[i] \in B
          /\ \A i \in 0..(m - 1) :
               i \notin w..(w + Len(bytes) - 1) => Copy(d, w, bytes)[i] = d[i]
      BY <3>3, CopyEffect
    <3> QED
      BY <3>4, <3>2 DEF c
  <2>4. f.data = c
    BY <1>1
  <2> HIDE DEF c
  <2> QED
    BY <2>3, <2>4
<1>5. \A i \in b.reader..(b.writer - 1) : f.data[i] = b.data[i]
  BY <1>2, <1>3, <1>4
<1> HIDE DEF n
<1>6. \A i \in b.reader..(b.writer + n - 1) : f.data[i] \in B
  <2> SUFFICES ASSUME NEW i \in b.reader..(b.writer + n - 1) PROVE f.data[i] \in B
    OBVIOUS
  <2>1. i \in b.reader..(b.writer - 1) \/ i \in b.writer..(b.writer + n - 1)
    BY <1>2, <1>3
  <2> QED
    BY <1>3, <1>4, <1>5, <2>1
<1>7. IsBuffer(f, B)
  BY <1>1, <1>2, <1>3, <1>4, <1>6 DEF IsBuffer
<1>8. ReadableBytes(f) = ReadableBytes(b) + n /\ WritableBytes(f) = WritableBytes(b) - n
  BY <1>1, <1>2, <1>3 DEF ReadableBytes, WritableBytes
<1>9. Content(f) = Content(b) \o bytes
  <2>1. /\ Content(f) \in Seq(B) /\ Len(Content(f)) = ReadableBytes(b) + n
        /\ \A i \in 1..(ReadableBytes(b) + n) : Content(f)[i] = f.data[f.reader + i - 1]
    BY <1>7, <1>8, ContentTyped
  <2>2. /\ Content(b) \in Seq(B) /\ Len(Content(b)) = ReadableBytes(b) /\ ReadableBytes(b) \in Nat
        /\ \A i \in 1..ReadableBytes(b) : Content(b)[i] = b.data[b.reader + i - 1]
    BY ContentTyped
  <2>3. /\ Content(b) \o bytes \in Seq(B) /\ Len(Content(b) \o bytes) = ReadableBytes(b) + n
        /\ \A i \in 1..ReadableBytes(b) : (Content(b) \o bytes)[i] = Content(b)[i]
        /\ \A i \in (ReadableBytes(b) + 1)..(ReadableBytes(b) + n) :
             (Content(b) \o bytes)[i] = bytes[i - ReadableBytes(b)]
    <3>1. Len(Content(b)) = ReadableBytes(b) /\ Len(bytes) = n
      BY <2>2 DEF n
    <3>2. /\ Content(b) \o bytes \in Seq(B) /\ Len(Content(b) \o bytes) = Len(Content(b)) + Len(bytes)
          /\ \A i \in 1..Len(Content(b)) : (Content(b) \o bytes)[i] = Content(b)[i]
          /\ \A i \in (Len(Content(b)) + 1)..(Len(Content(b)) + Len(bytes)) :
               (Content(b) \o bytes)[i] = bytes[i - Len(Content(b))]
      <4>1. Content(b) \in Seq(B)
        BY <2>2
      <4> QED
        BY <4>1, ConcatFacts
    <3> QED
      BY <3>1, <3>2
  <2>4. ASSUME NEW i \in 1..(ReadableBytes(b) + n)
        PROVE  Content(f)[i] = (Content(b) \o bytes)[i]
    <3>1. ReadableBytes(b) = b.writer - b.reader
      BY DEF ReadableBytes
    <3>2. CASE i \in 1..ReadableBytes(b)
      <4>1. b.reader + i - 1 \in b.reader..(b.writer - 1)
        BY <1>3, <3>1, <3>2
      <4> QED
        BY <1>1, <1>5, <2>1, <2>2, <2>3, <3>2, <4>1
    <3>3. CASE i \in (ReadableBytes(b) + 1)..(ReadableBytes(b) + n)
      <4>1. /\ b.reader + i - 1 \in b.writer..(b.writer + n - 1)
            /\ (b.reader + i - 1) - b.writer + 1 = i - ReadableBytes(b)
        BY <1>2, <1>3, <3>1, <3>3
      <4> QED
        BY <1>1, <1>4, <2>1, <2>3, <3>3, <4>1
    <3>4. ReadableBytes(b) \in Nat
      BY <2>2
    <3>5. i \in 1..ReadableBytes(b) \/ i \in (ReadableBytes(b) + 1)..(ReadableBytes(b) + n)
      BY <1>2, <3>4
    <3> QED
      BY <3>2, <3>3, <3>5
  <2> QED
    BY <2>1, <2>3, <2>4, SeqEqual
<1> QED
  BY <1>7, <1>8, <1>9 DEF f, n

\* makeSpace() of a buffer that lacks room
LEMMA EnsureEffect ==
  ASSUME NEW B, NEW b, IsBuffer(b, B), NEW len \in Nat
  PROVE  /\ IsBuffer(EnsureWritableBytes(b, len), B)
         /\ WritableBytes(EnsureWritableBytes(b, len)) >= len
         /\ Content(EnsureWritableBytes(b, len)) = Content(b)
         /\ WritableBytes(b) < len /\ Moves(b, len) => kCheapPrepend < b.reader
<1> DEFINE e == EnsureWritableBytes(b, len)
           n == ReadableBytes(b)
<1>1. /\ b.size \in Nat /\ b.reader \in Nat /\ b.writer \in Nat /\ b.reader <= b.writer
      /\ b.writer <= b.size /\ kCheapPrepend <= b.size /\ kCheapPrepend \in Nat
      /\ b.data \in [0..(b.size - 1) -> B \cup {Zero}]
      /\ \A i \in b.reader..(b.writer - 1) : b.data[i] \in B
      /\ n = b.writer - b.reader /\ n \in Nat
  BY BufferAssumption DEF IsBuffer, ReadableBytes
<1>2. /\ Content(b) \in Seq(B) /\ Len(Content(b)) = n
      /\ \A i \in 1..n : Content(b)[i] = b.data[b.reader + i - 1]
  BY ContentTyped
<1>3. WritableBytes(b) < len /\ Moves(b, len) => kCheapPrepend < b.reader
  BY <1>1 DEF WritableBytes, Moves, PrependableBytes
<1>4. CASE WritableBytes(b) >= len
  <2>1. ~(WritableBytes(b) < len)
    BY <1>1, <1>4 DEF WritableBytes
  <2>2. e = b
    BY <2>1 DEF EnsureWritableBytes
  <2> QED
    BY <1>3, <1>4, <2>2
<1>5. CASE WritableBytes(b) < len /\ Moves(b, len)
  <2>1. /\ e = [data |-> e.data, size |-> e.size, reader |-> e.reader, writer |-> e.writer]
        /\ e.size = b.size /\ e.reader = kCheapPrepend /\ e.writer = kCheapPrepend + n
        /\ e.data = Copy(b.data, kCheapPrepend, Content(b))
    BY <1>5 DEF EnsureWritableBytes, MakeSpace, IsBuffer
  <2> HIDE DEF e, n
  <2>2. kCheapPrepend + n <= b.size
    BY <1>1, <1>3, <1>5
  <2>3. /\ e.data \in [0..(b.size - 1) -> B \cup {Zero}]
        /\ \A i \in kCheapPrepend..(kCheapPrepend + n - 1) :
             e.data[i] = Content(b)[i - kCheapPrepend + 1] /\ e.data[i] \in B
    <3> DEFINE c == Copy(b.data, kCheapPrepend, Content(b))
    <3>1. kCheapPrepend \in Nat /\ Content(b) \in Seq(B) /\ kCheapPrepend + Len(Content(b)) <= b.size
      BY <1>1, <1>2, <2>2
    <3>2. b.size \in Nat /\ b.data \in [0..(b.size - 1) -> B \cup {Zero}]
      BY <1>1
    <3>3. /\ c \in [0..(b.size - 1) -> B \cup {Zero}]
          /\ \A i \in kCheapPrepend..(kCheapPrepend + Len(Content(b)) - 1) :
               c[i] = Content(b)[i - kCheapPrepend + 1] /\ c[i] \in B
      BY <3>1, <3>2, CopyEffect
    <3>4. e.data = c /\ Len(Content(b)) = n
      BY <1>2, <2>1
    <3> HIDE DEF c
    <3> QED
      BY <3>3, <3>4
  <2>4. IsBuffer(e, B)
    BY <1>1, <2>1, <2>2, <2>3 DEF IsBuffer
  <2>5. ReadableBytes(e) = n /\ WritableBytes(e) >= len
    BY <1>1, <1>5, <2>1 DEF ReadableBytes, WritableBytes, Moves, PrependableBytes
  <2>6. Content(e) = Content(b)
    <3>1. /\ Content(e) \in Seq(B) /\ Len(Content(e)) = n
          /\ \A i \in 1..n : Content(e)[i] = e.data[e.reader + i - 1]
      BY <2>4, <2>5, ContentTyped
    <3>2. ASSUME NEW i \in 1..n
          PROVE  Content(e)[i] = Content(b)[i]
      <4>1. /\ kCheapPrepend + i - 1 \in kCheapPrepend..(kCheapPrepend + n - 1)
            /\ (kCheapPrepend + i - 1) - kCheapPrepend + 1 = i
        BY <1>1
      <4> QED
        BY <2>1, <2>3, <3>1, <4>1
    <3> QED
      BY <1>2, <3>1, <3>2, SeqEqual
  <2> QED
    BY <1>3, <2>4, <2>5, <2>6 DEF e
<1>6. CASE WritableBytes(b) < len /\ ~Moves(b, len)
  <2>1. /\ e = [data |-> e.data, size |-> e.size, reader |-> e.reader, writer |-> e.writer]
        /\ e.size = b.writer + len /\ e.reader = b.reader /\ e.writer = b.writer
        /\ e.data = [i \in 0..(b.writer + len - 1) |-> IF i < b.size THEN b.data[i] ELSE Zero]
    BY <1>6 DEF EnsureWritableBytes, MakeSpace, IsBuffer
  <2> HIDE DEF e, n
  <2>2. b.size < b.writer + len
    BY <1>1, <1>6 DEF WritableBytes
  <2>3. e.data \in [0..(b.writer + len - 1) -> B \cup {Zero}]
    BY <1>1, <2>1
  <2>4. \A i \in b.reader..(b.writer - 1) : e.data[i] = b.data[i]
    BY <1>1, <2>1, <2>2
  <2>5. IsBuffer(e, B)
    BY <1>1, <2>1, <2>2, <2>3, <2>4 DEF IsBuffer
  <2>6. ReadableBytes(e) = n /\ WritableBytes(e) >= len
    BY <1>1, <2>1 DEF ReadableBytes, WritableBytes
  <2>7. Content(e) = Content(b)
    <3>1. /\ Content(e) \in Seq(B) /\ Len(Content(e)) = n
          /\ \A i \in 1..n : Content(e)[i] = e.data[e.reader + i - 1]
      BY <2>5, <2>6, ContentTyped
    <3>2. ASSUME NEW i \in 1..n
          PROVE  Content(e)[i] = Content(b)[i]
      <4>1. b.reader + i - 1 \in b.reader..(b.writer - 1)
        BY <1>1
      <4> QED
        BY <1>2, <2>1, <2>4, <3>1, <4>1
    <3> QED
      BY <1>2, <3>1, <3>2, SeqEqual
  <2> QED
    BY <1>3, <2>5, <2>6, <2>7 DEF e
<1>7. WritableBytes(b) \in Nat
  BY ContentTyped
<1> QED
  BY <1>4, <1>5, <1>6, <1>7

\* append() puts its bytes behind the content.
LEMMA AppendEffect ==
  ASSUME NEW B, NEW b, IsBuffer(b, B), NEW bytes \in Seq(B)
  PROVE  IsBuffer(AppendBytes(b, bytes), B) /\ Content(AppendBytes(b, bytes)) = Content(b) \o bytes
<1> DEFINE room == EnsureWritableBytes(b, Len(bytes))
<1>1. Len(bytes) \in Nat
  OBVIOUS
<1>2. IsBuffer(room, B) /\ WritableBytes(room) >= Len(bytes) /\ Content(room) = Content(b)
  BY <1>1, EnsureEffect
<1>3. AppendBytes(b, bytes) = HasWritten(Fill(room, bytes), Len(bytes))
  BY DEF AppendBytes
<1> HIDE DEF room
<1>4. Len(bytes) <= WritableBytes(room)
  BY <1>1, <1>2, ContentTyped
<1> QED
  BY <1>2, <1>3, <1>4, FillEffect

\* prepend() puts its bytes before the content.
LEMMA PrependEffect ==
  ASSUME NEW B, NEW b, IsBuffer(b, B), NEW bytes \in Seq(B), Len(bytes) <= PrependableBytes(b)
  PROVE  IsBuffer(Prepend(b, bytes), B) /\ Content(Prepend(b, bytes)) = bytes \o Content(b)
<1> DEFINE f == Prepend(b, bytes)
           n == Len(bytes)
           at == b.reader - Len(bytes)
<1>1. /\ b.size \in Nat /\ b.reader \in Nat /\ b.writer \in Nat /\ b.reader <= b.writer
      /\ b.writer <= b.size /\ kCheapPrepend <= b.size /\ n \in Nat /\ n <= b.reader
      /\ b.data \in [0..(b.size - 1) -> B \cup {Zero}]
      /\ \A i \in b.reader..(b.writer - 1) : b.data[i] \in B
  BY DEF IsBuffer, PrependableBytes
<1>2. /\ f = [data |-> f.data, size |-> f.size, reader |-> f.reader, writer |-> f.writer]
      /\ f.size = b.size /\ f.reader = at /\ f.writer = b.writer
      /\ f.data = Copy(b.data, at, bytes)
  <2> DEFINE c == Copy(b.data, at, bytes)
  <2>1. b = [data |-> b.data, size |-> b.size, reader |-> b.reader, writer |-> b.writer]
    BY DEF IsBuffer
  <2>2. f = [b EXCEPT !.reader = at, !.data = c]
    BY DEF Prepend
  <2> HIDE DEF f, c, at
  <2>3. f.data = c
    BY <2>1, <2>2
  <2>4. f.size = b.size /\ f.reader = at /\ f.writer = b.writer
    BY <2>1, <2>2
  <2>5. f = [data |-> f.data, size |-> f.size, reader |-> f.reader, writer |-> f.writer]
    BY <2>1, <2>2
  <2> QED
    BY <2>3, <2>4, <2>5 DEF c
<1>3. at \in Nat /\ at + n = b.reader /\ at + Len(bytes) <= b.size /\ at <= b.writer
  BY <1>1
<1> HIDE DEF f, at
<1>4. /\ f.data \in [0..(b.size - 1) -> B \cup {Zero}]
      /\ \A i \in at..(at + n - 1) : f.data[i] = bytes[i - at + 1] /\ f.data[i] \in B
      /\ \A i \in 0..(b.size - 1) : i \notin at..(at + n - 1) => f.data[i] = b.data[i]
  <2>1. PICK m \in Nat : m = b.size
    BY <1>1
  <2>2. PICK d \in [0..(m - 1) -> B \cup {Zero}] : d = b.data
    BY <1>1, <2>1
  <2>3. at + Len(bytes) <= m
    BY <1>3, <2>1
  <2>4. /\ Copy(d, at, bytes) \in [0..(m - 1) -> B \cup {Zero}]
        /\ \A i \in at..(at + Len(bytes) - 1) :
             Copy(d, at, bytes)[i] = bytes[i - at + 1] /\ Copy(d, at, bytes)[i] \in B
        /\ \A i \in 0..(m - 1) :
             i \notin at..(at + Len(bytes) - 1) => Copy(d, at, bytes)[i] = d[i]
    BY <1>3, <2>3, CopyEffect
  <2> QED
    BY <1>2, <2>1, <2>2, <2>4
<1> HIDE DEF n
<1>5. \A i \in b.reader..(b.writer - 1) : f.data[i] = b.data[i]
  BY <1>1, <1>3, <1>4
<1>6. \A i \in at..(b.writer - 1) : f.data[i] \in B
  <2> SUFFICES ASSUME NEW i \in at..(b.writer - 1) PROVE f.data[i] \in B
    OBVIOUS
  <2>1. i \in at..(at + n - 1) \/ i \in b.reader..(b.writer - 1)
    BY <1>1, <1>3
  <2> QED
    BY <1>1, <1>4, <1>5, <2>1
<1>7. IsBuffer(f, B)
  BY <1>1, <1>2, <1>3, <1>4, <1>6 DEF IsBuffer
<1> DEFINE r == ReadableBytes(b)
<1>8. r \in Nat /\ r = b.writer - b.reader /\ ReadableBytes(f) = n + r
  <2>1. r = b.writer - b.reader /\ ReadableBytes(f) = b.writer - at
    BY <1>2 DEF ReadableBytes
  <2>2. r \in Nat
    BY <1>1, <2>1
  <2>3. b.writer - at = n + (b.writer - b.reader)
    BY <1>1, <1>3
  <2> QED
    BY <2>1, <2>2, <2>3
<1>9. Content(f) = bytes \o Content(b)
  <2>1. /\ Content(f) \in Seq(B) /\ Len(Content(f)) = n + r
        /\ \A i \in 1..(n + r) : Content(f)[i] = f.data[at + i - 1]
    BY <1>2, <1>7, <1>8, ContentTyped
  <2>2. /\ Content(b) \in Seq(B) /\ Len(Content(b)) = r
        /\ \A i \in 1..r : Content(b)[i] = b.data[b.reader + i - 1]
    BY ContentTyped
  <2> HIDE DEF r
  <2>3. /\ bytes \o Content(b) \in Seq(B) /\ Len(bytes \o Content(b)) = n + r
        /\ \A i \in 1..n : (bytes \o Content(b))[i] = bytes[i]
        /\ \A i \in (n + 1)..(n + r) : (bytes \o Content(b))[i] = Content(b)[i - n]
    <3>1. Content(b) \in Seq(B) /\ Len(Content(b)) = r /\ Len(bytes) = n
      BY <2>2 DEF n
    <3>2. /\ bytes \o Content(b) \in Seq(B) /\ Len(bytes \o Content(b)) = Len(bytes) + Len(Content(b))
          /\ \A i \in 1..Len(bytes) : (bytes \o Content(b))[i] = bytes[i]
          /\ \A i \in (Len(bytes) + 1)..(Len(bytes) + Len(Content(b))) :
               (bytes \o Content(b))[i] = Content(b)[i - Len(bytes)]
      BY <3>1, ConcatFacts
    <3> QED
      BY <3>1, <3>2
  <2>4. ASSUME NEW i \in 1..(n + r)
        PROVE  Content(f)[i] = (bytes \o Content(b))[i]
    <3>1. CASE i \in 1..n
      <4>1. at + i - 1 \in at..(at + n - 1) /\ (at + i - 1) - at + 1 = i
        BY <1>1, <1>3, <3>1
      <4> QED
        BY <1>4, <2>1, <2>3, <3>1, <4>1
    <3>2. CASE i \in (n + 1)..(n + r)
      <4>1. /\ at + i - 1 \in b.reader..(b.writer - 1) /\ at + i - 1 = b.reader + (i - n) - 1
            /\ i - n \in 1..r
        <5>1. i \in Nat /\ n \in Nat /\ r \in Nat /\ at \in Nat /\ b.reader \in Nat /\ b.writer \in Nat
          BY <1>1, <1>3, <1>8
        <5>2. at + n = b.reader /\ r = b.writer - b.reader /\ n + 1 <= i /\ i <= n + r
          BY <1>3, <1>8, <3>2
        <5> QED
          BY <5>1, <5>2
      <4> QED
        BY <1>5, <2>1, <2>2, <2>3, <3>2, <4>1
    <3>3. i \in 1..n \/ i \in (n + 1)..(n + r)
      BY <1>1, <1>8
    <3> QED
      BY <3>1, <3>2, <3>3
  <2> QED
    BY <2>1, <2>3, <2>4, SeqEqual
<1> QED
  BY <1>7, <1>9 DEF f

\* Length and elements of a part of a sequence.
LEMMA SubSeqFacts ==
  ASSUME NEW S, NEW q \in Seq(S), NEW m \in 1..(Len(q) + 1), NEW n \in (m - 1)..Len(q)
  PROVE  /\ SubSeq(q, m, n) \in Seq(S) /\ Len(SubSeq(q, m, n)) = n - m + 1
         /\ \A i \in 1..(n - m + 1) : SubSeq(q, m, n)[i] = q[m + i - 1]
  OBVIOUS

\* retrieve() takes bytes from the front of the content.
LEMMA RetrieveEffect ==
  ASSUME NEW B, NEW b, IsBuffer(b, B), NEW n \in 0..ReadableBytes(b)
  PROVE  /\ IsBuffer(Retrieve(b, n), B)
         /\ Content(Retrieve(b, n)) = SubSeq(Content(b), n + 1, Len(Content(b)))
         /\ ReadableBytes(Retrieve(b, n)) = ReadableBytes(b) - n
<1> DEFINE f == Retrieve(b, n)
           r == ReadableBytes(b)
<1>1. /\ b.size \in Nat /\ b.reader \in Nat /\ b.writer \in Nat /\ b.reader <= b.writer
      /\ b.writer <= b.size /\ kCheapPrepend <= b.size /\ kCheapPrepend \in Nat
      /\ b.data \in [0..(b.size - 1) -> B \cup {Zero}]
      /\ \A i \in b.reader..(b.writer - 1) : b.data[i] \in B
      /\ r = b.writer - b.reader /\ r \in Nat
  BY BufferAssumption DEF IsBuffer, ReadableBytes
<1>2. /\ Content(b) \in Seq(B) /\ Len(Content(b)) = r
      /\ \A i \in 1..r : Content(b)[i] = b.data[b.reader + i - 1]
  BY ContentTyped
<1>3. /\ f = [data |-> f.data, size |-> f.size, reader |-> f.reader, writer |-> f.writer]
      /\ f.size = b.size /\ f.data = b.data
      /\ n < r => f.reader = b.reader + n /\ f.writer = b.writer
      /\ ~(n < r) => f.reader = kCheapPrepend /\ f.writer = kCheapPrepend
  <2>1. CASE n < r
    BY <2>1 DEF Retrieve, IsBuffer
  <2>2. CASE ~(n < r)
    BY <2>2 DEF Retrieve, RetrieveAll, IsBuffer
  <2> QED
    BY <2>1, <2>2
<1> HIDE DEF f, r
<1>4. n \in Nat /\ n <= r
  BY <1>1 DEF r
<1>5. IsBuffer(f, B)
  BY <1>1, <1>3, <1>4 DEF IsBuffer
<1>6. ReadableBytes(f) = r - n
  BY <1>1, <1>3, <1>4 DEF ReadableBytes
<1>7. Content(f) = SubSeq(Content(b), n + 1, Len(Content(b)))
  <2>1. /\ Content(f) \in Seq(B) /\ Len(Content(f)) = r - n
        /\ \A i \in 1..(r - n) : Content(f)[i] = f.data[f.reader + i - 1]
    BY <1>5, <1>6, ContentTyped
  <2> DEFINE s == SubSeq(Content(b), n + 1, r)
  <2>2. s \in Seq(B) /\ Len(s) = r - n /\ \A i \in 1..(r - n) : s[i] = Content(b)[n + i]
    <3>1. Content(b) \in Seq(B) /\ n + 1 \in 1..(Len(Content(b)) + 1) /\ r \in ((n + 1) - 1)..Len(Content(b))
      BY <1>1, <1>2, <1>4
    <3>2. /\ s \in Seq(B) /\ Len(s) = r - (n + 1) + 1
          /\ \A i \in 1..(r - (n + 1) + 1) : s[i] = Content(b)[(n + 1) + i - 1]
      BY <3>1, SubSeqFacts
    <3>3. r - (n + 1) + 1 = r - n /\ \A i \in 1..(r - n) : (n + 1) + i - 1 = n + i
      BY <1>1, <1>4
    <3> HIDE DEF s
    <3> QED
      BY <3>2, <3>3
  <2>3. ASSUME NEW i \in 1..(r - n)
        PROVE  Content(f)[i] = s[i]
    <3>1. n < r /\ n + i \in 1..r /\ f.reader + i - 1 = b.reader + (n + i) - 1
      BY <1>1, <1>3, <1>4
    <3> HIDE DEF s
    <3> QED
      BY <1>2, <1>3, <2>1, <2>2, <3>1
  <2> QED
    BY <1>2, <2>1, <2>2, <2>3, SeqEqual
<1> QED
  BY <1>5, <1>6, <1>7 DEF f, r

\* unwrite() takes bytes from the end of the content.
LEMMA UnwriteEffect ==
  ASSUME NEW B, NEW b, IsBuffer(b, B), NEW n \in 0..ReadableBytes(b)
  PROVE  /\ IsBuffer(Unwrite(b, n), B)
         /\ Content(Unwrite(b, n)) = SubSeq(Content(b), 1, Len(Content(b)) - n)
<1> DEFINE f == Unwrite(b, n)
           r == ReadableBytes(b)
<1>1. /\ b.size \in Nat /\ b.reader \in Nat /\ b.writer \in Nat /\ b.reader <= b.writer
      /\ b.writer <= b.size /\ kCheapPrepend <= b.size
      /\ b.data \in [0..(b.size - 1) -> B \cup {Zero}]
      /\ \A i \in b.reader..(b.writer - 1) : b.data[i] \in B
      /\ r = b.writer - b.reader /\ r \in Nat
  BY DEF IsBuffer, ReadableBytes
<1>2. /\ Content(b) \in Seq(B) /\ Len(Content(b)) = r
      /\ \A i \in 1..r : Content(b)[i] = b.data[b.reader + i - 1]
  BY ContentTyped
<1>3. /\ f = [data |-> f.data, size |-> f.size, reader |-> f.reader, writer |-> f.writer]
      /\ f.size = b.size /\ f.data = b.data /\ f.reader = b.reader /\ f.writer = b.writer - n
  BY DEF Unwrite, IsBuffer
<1> HIDE DEF f, r
<1>4. n \in Nat /\ n <= r
  BY <1>1 DEF r
<1>5. IsBuffer(f, B) /\ ReadableBytes(f) = r - n
  BY <1>1, <1>3, <1>4 DEF IsBuffer, ReadableBytes
<1>6. Content(f) = SubSeq(Content(b), 1, Len(Content(b)) - n)
  <2>1. /\ Content(f) \in Seq(B) /\ Len(Content(f)) = r - n
        /\ \A i \in 1..(r - n) : Content(f)[i] = f.data[f.reader + i - 1]
    BY <1>5, ContentTyped
  <2> DEFINE s == SubSeq(Content(b), 1, r - n)
  <2>2. s \in Seq(B) /\ Len(s) = r - n /\ \A i \in 1..(r - n) : s[i] = Content(b)[i]
    <3>1. Content(b) \in Seq(B) /\ 1 \in 1..(Len(Content(b)) + 1) /\ r - n \in (1 - 1)..Len(Content(b))
      BY <1>1, <1>2, <1>4
    <3>2. /\ s \in Seq(B) /\ Len(s) = (r - n) - 1 + 1
          /\ \A i \in 1..((r - n) - 1 + 1) : s[i] = Content(b)[1 + i - 1]
      BY <3>1, SubSeqFacts
    <3>3. (r - n) - 1 + 1 = r - n /\ \A i \in 1..(r - n) : 1 + i - 1 = i
      BY <1>1, <1>4
    <3> HIDE DEF s
    <3> QED
      BY <3>2, <3>3
  <2> HIDE DEF s
  <2>3. ASSUME NEW i \in 1..(r - n)
        PROVE  Content(f)[i] = s[i]
    <3>1. i \in 1..r
      BY <1>1, <1>4
    <3>2. Content(f)[i] = f.data[f.reader + i - 1] /\ s[i] = Content(b)[i]
      BY <2>1, <2>2
    <3> QED
      BY <1>2, <1>3, <3>1, <3>2
  <2> QED
    BY <1>2, <2>1, <2>2, <2>3, SeqEqual DEF s
<1> QED
  BY <1>5, <1>6 DEF f

\* Concatenation is associative.
LEMMA ConcatAssociates ==
  ASSUME NEW S, NEW p \in Seq(S), NEW q \in Seq(S), NEW r \in Seq(S)
  PROVE  (p \o q) \o r = p \o (q \o r)
<1>1. Len(p) \in Nat /\ Len(q) \in Nat /\ Len(r) \in Nat
  OBVIOUS
<1>2. /\ p \o q \in Seq(S) /\ Len(p \o q) = Len(p) + Len(q)
      /\ \A i \in 1..Len(p) : (p \o q)[i] = p[i]
      /\ \A i \in (Len(p) + 1)..(Len(p) + Len(q)) : (p \o q)[i] = q[i - Len(p)]
  BY ConcatFacts
<1>3. /\ q \o r \in Seq(S) /\ Len(q \o r) = Len(q) + Len(r)
      /\ \A i \in 1..Len(q) : (q \o r)[i] = q[i]
      /\ \A i \in (Len(q) + 1)..(Len(q) + Len(r)) : (q \o r)[i] = r[i - Len(q)]
  BY ConcatFacts
<1> DEFINE pq == p \o q
           qr == q \o r
<1>4. /\ pq \o r \in Seq(S) /\ Len(pq \o r) = Len(pq) + Len(r)
      /\ \A i \in 1..Len(pq) : (pq \o r)[i] = pq[i]
      /\ \A i \in (Len(pq) + 1)..(Len(pq) + Len(r)) : (pq \o r)[i] = r[i - Len(pq)]
  <2>1. pq \in Seq(S)
    BY <1>2
  <2> HIDE DEF pq
  <2> QED
    BY <2>1, ConcatFacts
<1>5. /\ p \o qr \in Seq(S) /\ Len(p \o qr) = Len(p) + Len(qr)
      /\ \A i \in 1..Len(p) : (p \o qr)[i] = p[i]
      /\ \A i \in (Len(p) + 1)..(Len(p) + Len(qr)) : (p \o qr)[i] = qr[i - Len(p)]
  BY <1>3, ConcatFacts
<1>6. Len(pq) = Len(p) + Len(q) /\ Len(qr) = Len(q) + Len(r)
  BY <1>2, <1>3
<1>7. Len(pq \o r) = Len(p \o qr)
  <2> HIDE DEF pq, qr
  <2> QED
    BY <1>1, <1>4, <1>5, <1>6
<1>8. ASSUME NEW i \in 1..Len(pq \o r)
      PROVE  (pq \o r)[i] = (p \o qr)[i]
  <2>1. \/ i \in 1..Len(p)
        \/ i \in (Len(p) + 1)..(Len(p) + Len(q))
        \/ i \in (Len(p) + Len(q) + 1)..(Len(p) + Len(q) + Len(r))
    <3>1. Len(pq \o r) = Len(p) + Len(q) + Len(r)
      BY <1>4, <1>6
    <3> HIDE DEF pq
    <3> QED
      BY <1>1, <3>1
  <2>2. CASE i \in 1..Len(p)
    <3>1. i \in 1..Len(pq)
      BY <1>1, <1>6, <2>2
    <3> QED
      BY <1>2, <1>4, <1>5, <2>2, <3>1
  <2>3. CASE i \in (Len(p) + 1)..(Len(p) + Len(q))
    <3>1. /\ i \in 1..Len(pq) /\ i \in (Len(p) + 1)..(Len(p) + Len(qr))
          /\ i - Len(p) \in 1..Len(q)
      <4> HIDE DEF pq, qr
      <4> QED
        BY <1>1, <1>6, <2>3
    <3>2. (pq \o r)[i] = q[i - Len(p)]
      BY <1>2, <1>4, <2>3, <3>1
    <3>3. (p \o qr)[i] = q[i - Len(p)]
      BY <1>3, <1>5, <3>1
    <3> QED
      BY <3>2, <3>3
  <2>4. CASE i \in (Len(p) + Len(q) + 1)..(Len(p) + Len(q) + Len(r))
    <3>1. /\ i \in (Len(pq) + 1)..(Len(pq) + Len(r)) /\ i \in (Len(p) + 1)..(Len(p) + Len(qr))
          /\ i - Len(p) \in (Len(q) + 1)..(Len(q) + Len(r))
          /\ i - Len(pq) = (i - Len(p)) - Len(q)
      <4> HIDE DEF pq, qr
      <4> QED
        BY <1>1, <1>6, <2>4
    <3>2. (pq \o r)[i] = r[(i - Len(p)) - Len(q)]
      BY <1>4, <3>1
    <3>3. (p \o qr)[i] = r[(i - Len(p)) - Len(q)]
      BY <1>3, <1>5, <3>1
    <3> QED
      BY <3>2, <3>3
  <2> QED
    BY <2>1, <2>2, <2>3, <2>4
<1> QED
  <2>1. pq \o r = p \o qr
    BY <1>4, <1>5, <1>7, <1>8, SeqEqual
  <2> QED
    BY <2>1

\* A sequence cut in two and joined again is the same.
LEMMA SplitJoins ==
  ASSUME NEW S, NEW q \in Seq(S), NEW n \in 0..Len(q)
  PROVE  /\ SubSeq(q, 1, n) \in Seq(S) /\ Len(SubSeq(q, 1, n)) = n
         /\ SubSeq(q, n + 1, Len(q)) \in Seq(S) /\ Len(SubSeq(q, n + 1, Len(q))) = Len(q) - n
         /\ SubSeq(q, 1, n) \o SubSeq(q, n + 1, Len(q)) = q
<1> DEFINE a == SubSeq(q, 1, n)
           z == SubSeq(q, n + 1, Len(q))
<1>1. Len(q) \in Nat /\ n \in Nat /\ n <= Len(q)
  OBVIOUS
<1>2. a \in Seq(S) /\ Len(a) = n /\ \A i \in 1..n : a[i] = q[i]
  <2>1. 1 \in 1..(Len(q) + 1) /\ n \in (1 - 1)..Len(q)
    BY <1>1
  <2>2. a \in Seq(S) /\ Len(a) = n - 1 + 1 /\ \A i \in 1..(n - 1 + 1) : a[i] = q[1 + i - 1]
    BY <2>1, SubSeqFacts
  <2>3. n - 1 + 1 = n /\ \A i \in 1..n : 1 + i - 1 = i
    BY <1>1
  <2> HIDE DEF a
  <2> QED
    BY <2>2, <2>3
<1>3. z \in Seq(S) /\ Len(z) = Len(q) - n /\ \A i \in 1..(Len(q) - n) : z[i] = q[n + i]
  <2>1. n + 1 \in 1..(Len(q) + 1) /\ Len(q) \in ((n + 1) - 1)..Len(q)
    BY <1>1
  <2>2. /\ z \in Seq(S) /\ Len(z) = Len(q) - (n + 1) + 1
        /\ \A i \in 1..(Len(q) - (n + 1) + 1) : z[i] = q[(n + 1) + i - 1]
    BY <2>1, SubSeqFacts
  <2>3. Len(q) - (n + 1) + 1 = Len(q) - n /\ \A i \in 1..(Len(q) - n) : (n + 1) + i - 1 = n + i
    BY <1>1
  <2> HIDE DEF z
  <2> QED
    BY <2>2, <2>3
<1> HIDE DEF a, z
<1>4. /\ a \o z \in Seq(S) /\ Len(a \o z) = Len(a) + Len(z)
      /\ \A i \in 1..Len(a) : (a \o z)[i] = a[i]
      /\ \A i \in (Len(a) + 1)..(Len(a) + Len(z)) : (a \o z)[i] = z[i - Len(a)]
  BY <1>2, <1>3, ConcatFacts
<1>5. Len(a \o z) = Len(q)
  BY <1>1, <1>2, <1>3, <1>4
<1>6. ASSUME NEW i \in 1..Len(a \o z)
      PROVE  (a \o z)[i] = q[i]
  <2>1. i \in 1..n \/ i \in (n + 1)..Len(q)
    BY <1>1, <1>5
  <2>2. CASE i \in 1..n
    BY <1>2, <1>4, <2>2
  <2>3. CASE i \in (n + 1)..Len(q)
    <3>1. i \in (Len(a) + 1)..(Len(a) + Len(z)) /\ i - n \in 1..(Len(q) - n) /\ n + (i - n) = i
      BY <1>1, <1>2, <1>3, <2>3
    <3> QED
      BY <1>2, <1>3, <1>4, <3>1
  <2> QED
    BY <2>1, <2>2, <2>3
<1>7. a \o z = q
  BY <1>4, <1>5, <1>6, SeqEqual
<1> QED
  BY <1>2, <1>3, <1>7 DEF a, z

\* Both ways of readFd(): within the writable part, and over its end into the
\* bytes on the stack
LEMMA ReadFdEffect ==
  ASSUME NEW B, NEW b, IsBuffer(b, B), NEW bytes \in Seq(B)
  PROVE  IsBuffer(ReadFd(b, bytes), B) /\ Content(ReadFd(b, bytes)) = Content(b) \o bytes
<1> DEFINE here == WritableBytes(b)
<1>1. here \in Nat /\ Len(bytes) \in Nat /\ Content(b) \in Seq(B)
  BY ContentTyped
<1>2. CASE Len(bytes) <= here
  <2>1. ReadFd(b, bytes) = HasWritten(Fill(b, bytes), Len(bytes))
    BY <1>2 DEF ReadFd
  <2> QED
    BY <1>2, <2>1, FillEffect
<1>3. CASE ~(Len(bytes) <= here)
  <2> DEFINE near == SubSeq(bytes, 1, here)
             far == SubSeq(bytes, here + 1, Len(bytes))
             full == HasWritten(Fill(b, near), Len(near))
  <2>1. here \in 0..Len(bytes)
    BY <1>1, <1>3
  <2>2. near \in Seq(B) /\ Len(near) = here /\ far \in Seq(B) /\ near \o far = bytes
    BY <2>1, SplitJoins
  <2>3. ReadFd(b, bytes) = AppendBytes(full, far)
    <3> DEFINE g == Fill(b, near)
    <3>1. ReadFd(b, bytes) = AppendBytes([g EXCEPT !.writer = b.size], far)
      BY <1>3 DEF ReadFd
    <3>2. g.writer = b.writer
      BY DEF Fill, IsBuffer
    <3>3. b.writer + here = b.size
      BY DEF WritableBytes, IsBuffer
    <3>4. full = [g EXCEPT !.writer = b.size]
      <4>1. full = [g EXCEPT !.writer = @ + Len(near)]
        BY DEF HasWritten
      <4> HIDE DEF g, full, near
      <4>2. full = [g EXCEPT !.writer = g.writer + Len(near)]
        BY <4>1
      <4>3. g.writer + Len(near) = b.size
        BY <2>2, <3>2, <3>3
      <4> QED
        BY <4>2, <4>3
    <3> HIDE DEF g, full, far, near
    <3> QED
      BY <3>1, <3>4
  <2>4. IsBuffer(full, B) /\ Content(full) = Content(b) \o near
    <3>1. Len(near) <= WritableBytes(b) /\ near \in Seq(B)
      BY <1>1, <2>2
    <3> HIDE DEF near
    <3> QED
      BY <3>1, FillEffect
  <2>5. IsBuffer(AppendBytes(full, far), B) /\ Content(AppendBytes(full, far)) = Content(full) \o far
    <3> HIDE DEF full, far, near
    <3> QED
      BY <2>2, <2>4, AppendEffect
  <2>6. (Content(b) \o near) \o far = Content(b) \o bytes
    <3> HIDE DEF far, near
    <3>1. PICK c \in Seq(B) : c = Content(b)
      BY <1>1
    <3>2. near \in Seq(B) /\ far \in Seq(B)
      BY <2>2
    <3>3. (c \o near) \o far = c \o (near \o far)
      BY <3>2, ConcatAssociates
    <3> QED
      BY <2>2, <3>1, <3>3
  <2> HIDE DEF full, far, near
  <2> QED
    BY <2>3, <2>4, <2>5, <2>6
<1> QED
  BY <1>2, <1>3

-----------------------------------------------------------------------------
(* Integers in network order.                                              *)

\* Length and elements of a reversed sequence.
LEMMA ReverseFacts ==
  ASSUME NEW S, NEW q \in Seq(S)
  PROVE  /\ Reverse(q) \in Seq(S) /\ Len(Reverse(q)) = Len(q)
         /\ \A i \in 1..Len(q) : Reverse(q)[i] = q[(Len(q) - i) + 1]
<1>1. \A i \in 1..Len(q) : (Len(q) - i) + 1 \in 1..Len(q)
  OBVIOUS
<1>2. \A i \in 1..Len(q) : q[(Len(q) - i) + 1] \in S
  BY <1>1
<1>3. Reverse(q) = [i \in 1..Len(q) |-> q[(Len(q) - i) + 1]]
  BY DEF Reverse
<1>4. Len(q) \in Nat
  OBVIOUS
<1> QED
  BY <1>2, <1>3, <1>4

\* Reversing twice changes nothing: htobe and betoh are inverse.
LEMMA ReverseTwice ==
  ASSUME NEW S, NEW q \in Seq(S)
  PROVE  Reverse(Reverse(q)) = q
<1>1. /\ Reverse(q) \in Seq(S) /\ Len(Reverse(q)) = Len(q)
      /\ \A i \in 1..Len(q) : Reverse(q)[i] = q[(Len(q) - i) + 1]
  BY ReverseFacts
<1> DEFINE p == Reverse(q)
<1>2. /\ Reverse(p) \in Seq(S) /\ Len(Reverse(p)) = Len(p)
      /\ \A i \in 1..Len(p) : Reverse(p)[i] = p[(Len(p) - i) + 1]
  <2>1. p \in Seq(S)
    BY <1>1
  <2> HIDE DEF p
  <2> QED
    BY <2>1, ReverseFacts
<1>3. p \in Seq(S) /\ Len(p) = Len(q) /\ \A i \in 1..Len(q) : p[i] = q[(Len(q) - i) + 1]
  BY <1>1
<1> HIDE DEF p
<1>4. ASSUME NEW i \in 1..Len(q)
      PROVE  Reverse(p)[i] = q[i]
  <2>1. (Len(q) - i) + 1 \in 1..Len(q) /\ (Len(q) - ((Len(q) - i) + 1)) + 1 = i
    OBVIOUS
  <2> QED
    BY <1>2, <1>3, <2>1
<1>5. Reverse(p) = q
  BY <1>2, <1>3, <1>4, SeqEqual
<1> QED
  BY <1>5 DEF p

\* The bytes an integer has in memory, reversed, are those of the abstract
\* specification.
LEMMA NetworkBytes ==
  ASSUME NEW w \in Widths, NEW x \in Int
  PROVE  /\ HostBytes(x, w) \in Seq(0..(Base - 1)) /\ Len(HostBytes(x, w)) = w
         /\ HostToNetwork(HostBytes(x, w)) \in Seq(0..(Base - 1))
         /\ Len(HostToNetwork(HostBytes(x, w))) = w
         /\ HostToNetwork(HostBytes(x, w)) = Queue!BigEndian(x, w)
<1>1. w \in Nat /\ \A k \in 0..w : Base^k \in Nat \ {0}
  BY MemoryAssumption, BufferUserAssumption
<1>2. \A k \in 0..w : (x \div Base^k) % Base \in 0..(Base - 1)
  <2> SUFFICES ASSUME NEW k \in 0..w PROVE (x \div Base^k) % Base \in 0..(Base - 1)
    OBVIOUS
  <2>1. PICK d \in Nat \ {0} : d = Base^k
    BY <1>1
  <2>2. x \div d \in Int
    OBVIOUS
  <2>3. Base \in Nat \ {0}
    BY BufferAssumption
  <2>4. PICK y \in Int : y = x \div d
    BY <2>2
  <2>5. y % Base \in 0..(Base - 1)
    BY <2>3
  <2> QED
    BY <2>1, <2>4, <2>5
<1> DEFINE h == HostBytes(x, w)
<1>3. h = [i \in 1..w |-> (x \div Base^(i - 1)) % Base]
  BY DEF HostBytes
<1> HIDE DEF h
<1>4. \A i \in 1..w : i - 1 \in 0..w /\ w - i \in 0..w
  BY <1>1
<1>5. h \in Seq(0..(Base - 1)) /\ Len(h) = w
  <2>1. \A i \in 1..w : (x \div Base^(i - 1)) % Base \in 0..(Base - 1)
    BY <1>2, <1>4
  <2>2. PICK S : S = 0..(Base - 1)
    OBVIOUS
  <2>3. \A i \in 1..w : (x \div Base^(i - 1)) % Base \in S
    BY <2>1, <2>2
  <2>4. h \in Seq(S) /\ Len(h) = w
    BY <1>1, <1>3, <2>3
  <2> QED
    BY <2>2, <2>4
<1>6. /\ Reverse(h) \in Seq(0..(Base - 1)) /\ Len(Reverse(h)) = w
      /\ \A i \in 1..w : Reverse(h)[i] = h[(w - i) + 1]
  BY <1>5, ReverseFacts
<1>7. ASSUME NEW i \in 1..w
      PROVE  Reverse(h)[i] = (x \div Base^(w - i)) % Base
  <2>1. (w - i) + 1 \in 1..w /\ ((w - i) + 1) - 1 = w - i
    BY <1>1
  <2> QED
    BY <1>3, <1>6, <2>1
<1>8. Reverse(h) = [i \in 1..w |-> (x \div Base^(w - i)) % Base]
  <2>1. DOMAIN Reverse(h) = 1..w
    BY <1>6
  <2>2. Reverse(h) = [i \in 1..w |-> Reverse(h)[i]]
    BY <1>6, <2>1
  <2> QED
    BY <1>7, <2>2
<1>9. Queue!BigEndian(x, w) = [i \in 1..w |-> (x \div Base^(w - i)) % Base]
  BY DEF Queue!BigEndian
<1> QED
  BY <1>5, <1>6, <1>8, <1>9 DEF h, HostToNetwork

-----------------------------------------------------------------------------
(* BufferUser.                                                             *)

Bytes == 0..(Base - 1)

BufferInv == IsBuffer(buf, Bytes)

\* What a call does to the content and to the history
BufferStep ==
  \/ \E s \in Strings :
       \/ Content(buf)' = Content(buf) \o s /\ last' = Called("pushBack", s)
       \/ Content(buf)' = s \o Content(buf) /\ last' = Called("pushFront", s)
       \/ Content(buf)' = s /\ last' = Called("exchange", Content(buf))
  \/ \E n \in 0..MaxReadable :
       /\ n <= Len(Content(buf))
       /\ \/ /\ Content(buf)' = SubSeq(Content(buf), n + 1, Len(Content(buf)))
             /\ last' = Called("popFront", SubSeq(Content(buf), 1, n))
          \/ /\ Content(buf)' = SubSeq(Content(buf), 1, Len(Content(buf)) - n)
             /\ last' = Called("popBack", n)
  \/ \E signed \in BOOLEAN, w \in Widths :
       \/ /\ w <= Len(Content(buf))
          /\ Content(buf)' = SubSeq(Content(buf), w + 1, Len(Content(buf)))
          /\ \E x \in IntN(signed, w) :
               /\ Queue!BigEndian(x, w) = SubSeq(Content(buf), 1, w)
               /\ last' = Called("popInt", <<signed, x>>)
       \/ \E x \in IntN(signed, w) :
            \/ /\ Content(buf)' = Content(buf) \o Queue!BigEndian(x, w)
               /\ last' = Called("pushIntBack", <<x, w>>)
            \/ /\ Content(buf)' = Queue!BigEndian(x, w) \o Content(buf)
               /\ last' = Called("pushIntFront", <<x, w>>)
  \/ Content(buf)' = Content(buf) /\ last' = Called("reserve", 0)

\* A call that leaves the buffer f, but for the bytes nobody reads
LEMMA CallEffect ==
  ASSUME NEW f, IsBuffer(f, Bytes), buf' = Forget(f)
  PROVE  BufferInv' /\ Content(buf)' = Content(f)
  BY ForgetEffect DEF BufferInv, Content, ReadableBytes

\* A string is a sequence of bytes.
LEMMA StringTyped ==
  ASSUME NEW s \in Strings
  PROVE  s \in Seq(Bytes)
  BY BufferUserAssumption DEF Bytes

\* The integers of a width are integers.
LEMMA IntegerTyped ==
  ASSUME NEW signed \in BOOLEAN, NEW w \in Widths, NEW x \in IntN(signed, w)
  PROVE  x \in Int
<1>1. w \in 0..w
  BY BufferUserAssumption
<1>2. PICK p \in Nat : p = Base^w
  BY <1>1, MemoryAssumption
<1>3. p \div 2 \in Int
  OBVIOUS
<1> QED
  BY <1>2, <1>3 DEF IntN

\* The calls that put a string in keep the invariant and are steps of the byte queue.
LEMMA StringCalls ==
  ASSUME BufferInv, NEW s \in Strings,
         \/ CallAppend(s) \/ CallHasWritten(s) \/ CallReadFd(s)
         \/ CallPrepend(s) \/ CallSwap(s)
  PROVE  BufferInv' /\ BufferStep
<1>1. s \in Seq(Bytes) /\ IsBuffer(buf, Bytes)
  BY StringTyped DEF BufferInv
<1>2. CASE CallAppend(s)
  <2> DEFINE f == AppendBytes(buf, s)
  <2>1. IsBuffer(f, Bytes) /\ Content(f) = Content(buf) \o s
    BY <1>1, AppendEffect
  <2>2. buf' = Forget(f) /\ last' = Called("pushBack", s)
    BY <1>2 DEF CallAppend
  <2> HIDE DEF f
  <2>3. BufferInv' /\ Content(buf)' = Content(buf) \o s
    BY <2>1, <2>2, CallEffect
  <2> QED
    BY <2>2, <2>3 DEF BufferStep
<1>3. CASE CallHasWritten(s)
  <2> DEFINE f == HasWritten(Fill(buf, s), Len(s))
  <2>1. IsBuffer(f, Bytes) /\ Content(f) = Content(buf) \o s
    BY <1>1, <1>3, FillEffect DEF CallHasWritten
  <2>2. buf' = Forget(f) /\ last' = Called("pushBack", s)
    BY <1>3 DEF CallHasWritten
  <2> HIDE DEF f
  <2>3. BufferInv' /\ Content(buf)' = Content(buf) \o s
    BY <2>1, <2>2, CallEffect
  <2> QED
    BY <2>2, <2>3 DEF BufferStep
<1>4. CASE CallReadFd(s)
  <2> DEFINE f == ReadFd(buf, s)
  <2>1. IsBuffer(f, Bytes) /\ Content(f) = Content(buf) \o s
    BY <1>1, ReadFdEffect
  <2>2. buf' = Forget(f) /\ last' = Called("pushBack", s)
    BY <1>4 DEF CallReadFd
  <2> HIDE DEF f
  <2>3. BufferInv' /\ Content(buf)' = Content(buf) \o s
    BY <2>1, <2>2, CallEffect
  <2> QED
    BY <2>2, <2>3 DEF BufferStep
<1>5. CASE CallPrepend(s)
  <2> DEFINE f == Prepend(buf, s)
  <2>1. IsBuffer(f, Bytes) /\ Content(f) = s \o Content(buf)
    BY <1>1, <1>5, PrependEffect DEF CallPrepend
  <2>2. buf' = Forget(f) /\ last' = Called("pushFront", s)
    BY <1>5 DEF CallPrepend
  <2> HIDE DEF f
  <2>3. BufferInv' /\ Content(buf)' = s \o Content(buf)
    BY <2>1, <2>2, CallEffect
  <2> QED
    BY <2>2, <2>3 DEF BufferStep
<1>6. CASE CallSwap(s)
  <2> DEFINE g == NewBuffer(kInitialSize)
             f == AppendBytes(g, s)
  <2>1. IsBuffer(g, Bytes) /\ Content(g) = <<>>
    BY NewIsBuffer
  <2>2. IsBuffer(f, Bytes) /\ Content(f) = Content(g) \o s
    <3> HIDE DEF g
    <3> QED
      BY <1>1, <2>1, AppendEffect
  <2>3. buf' = Forget(f) /\ last' = Called("exchange", Content(buf))
    BY <1>6 DEF CallSwap
  <2>4. <<>> \o s = s
    BY <1>1
  <2> HIDE DEF f, g
  <2>5. BufferInv' /\ Content(buf)' = s
    BY <2>1, <2>2, <2>3, <2>4, CallEffect
  <2> QED
    BY <2>3, <2>5 DEF BufferStep
<1> QED
  BY <1>2, <1>3, <1>4, <1>5, <1>6

\* The calls that take a number of bytes away do so too.
LEMMA SizeCalls ==
  ASSUME BufferInv, NEW n \in 0..MaxReadable, CallRetrieveAsString(n) \/ CallUnwrite(n)
  PROVE  BufferInv' /\ BufferStep
<1>1. /\ IsBuffer(buf, Bytes) /\ ReadableBytes(buf) \in Nat
      /\ Len(Content(buf)) = ReadableBytes(buf)
  BY ContentTyped DEF BufferInv
<1>2. n \in 0..ReadableBytes(buf)
  <2>1. n \in Nat /\ n <= ReadableBytes(buf)
    BY BufferUserAssumption DEF CallRetrieveAsString, CallUnwrite
  <2> QED
    BY <1>1, <2>1
<1>3. n <= Len(Content(buf))
  BY <1>1, <1>2
<1>4. CASE CallRetrieveAsString(n)
  <2> DEFINE f == Retrieve(buf, n)
  <2>1. IsBuffer(f, Bytes) /\ Content(f) = SubSeq(Content(buf), n + 1, Len(Content(buf)))
    BY <1>1, <1>2, RetrieveEffect
  <2>2. buf' = Forget(f) /\ last' = Called("popFront", SubSeq(Content(buf), 1, n))
    BY <1>4 DEF CallRetrieveAsString
  <2> HIDE DEF f
  <2>3. BufferInv' /\ Content(buf)' = SubSeq(Content(buf), n + 1, Len(Content(buf)))
    BY <2>1, <2>2, CallEffect
  <2> QED
    BY <1>3, <2>2, <2>3 DEF BufferStep
<1>5. CASE CallUnwrite(n)
  <2> DEFINE f == Unwrite(buf, n)
  <2>1. IsBuffer(f, Bytes) /\ Content(f) = SubSeq(Content(buf), 1, Len(Content(buf)) - n)
    BY <1>1, <1>2, UnwriteEffect
  <2>2. buf' = Forget(f) /\ last' = Called("popBack", n)
    BY <1>5 DEF CallUnwrite
  <2> HIDE DEF f
  <2>3. BufferInv' /\ Content(buf)' = SubSeq(Content(buf), 1, Len(Content(buf)) - n)
    BY <2>1, <2>2, CallEffect
  <2> QED
    BY <1>3, <2>2, <2>3 DEF BufferStep
<1> QED
  BY <1>4, <1>5

\* So does shrink().
LEMMA ShrinkCalls ==
  ASSUME BufferInv, NEW reserve \in 0..1, CallShrink(reserve)
  PROVE  BufferInv' /\ BufferStep
<1> DEFINE n == ReadableBytes(buf) + reserve
           f == EnsureWritableBytes(buf, n)
<1>1. IsBuffer(buf, Bytes) /\ n \in Nat
  BY ContentTyped DEF BufferInv
<1>2. IsBuffer(f, Bytes) /\ Content(f) = Content(buf)
  <2> HIDE DEF n
  <2> QED
    BY <1>1, EnsureEffect
<1>3. buf' = Forget(f) /\ last' = Called("reserve", 0)
  BY DEF CallShrink, Shrink
<1> HIDE DEF f
<1>4. BufferInv' /\ Content(buf)' = Content(buf)
  BY <1>2, <1>3, CallEffect
<1> QED
  BY <1>3, <1>4 DEF BufferStep

\* So do the calls that put an integer in.
LEMMA IntegerCalls ==
  ASSUME BufferInv, NEW signed \in BOOLEAN, NEW w \in Widths, NEW x \in IntN(signed, w),
         CallAppendInt(x, w) \/ CallPrependInt(x, w)
  PROVE  BufferInv' /\ BufferStep
<1> DEFINE h == HostToNetwork(HostBytes(x, w))
<1>1. x \in Int /\ IsBuffer(buf, Bytes)
  BY IntegerTyped DEF BufferInv
<1>2. h \in Seq(Bytes) /\ Len(h) = w /\ h = Queue!BigEndian(x, w)
  BY <1>1, NetworkBytes DEF Bytes
<1>3. CASE CallAppendInt(x, w)
  <2> DEFINE f == AppendBytes(buf, h)
  <2>1. buf' = Forget(f) /\ last' = Called("pushIntBack", <<x, w>>)
    BY <1>3 DEF CallAppendInt, AppendInt
  <2> HIDE DEF h
  <2>2. IsBuffer(f, Bytes) /\ Content(f) = Content(buf) \o h
    BY <1>1, <1>2, AppendEffect
  <2> HIDE DEF f
  <2>3. BufferInv' /\ Content(buf)' = Content(buf) \o Queue!BigEndian(x, w)
    BY <1>2, <2>1, <2>2, CallEffect
  <2> QED
    BY <2>1, <2>3 DEF BufferStep
<1>4. CASE CallPrependInt(x, w)
  <2> DEFINE f == Prepend(buf, h)
  <2>1. buf' = Forget(f) /\ last' = Called("pushIntFront", <<x, w>>)
    BY <1>4 DEF CallPrependInt, PrependInt
  <2>2. w <= PrependableBytes(buf)
    BY <1>4 DEF CallPrependInt
  <2> HIDE DEF h
  <2>3. IsBuffer(f, Bytes) /\ Content(f) = h \o Content(buf)
    BY <1>1, <1>2, <2>2, PrependEffect
  <2> HIDE DEF f
  <2>4. BufferInv' /\ Content(buf)' = Queue!BigEndian(x, w) \o Content(buf)
    BY <1>2, <2>1, <2>3, CallEffect
  <2> QED
    BY <2>1, <2>4 DEF BufferStep
<1> QED
  BY <1>3, <1>4

\* So do the calls that read an integer back.
LEMMA ReadIntCalls ==
  ASSUME BufferInv, NEW signed \in BOOLEAN, NEW w \in Widths, CallReadInt(signed, w)
  PROVE  BufferInv' /\ BufferStep
<1> DEFINE f == Retrieve(buf, w)
           front == SubSeq(Content(buf), 1, w)
           x == PeekInt(buf, signed, w)
<1>1. /\ IsBuffer(buf, Bytes) /\ ReadableBytes(buf) \in Nat
      /\ Len(Content(buf)) = ReadableBytes(buf) /\ Content(buf) \in Seq(Bytes)
  BY ContentTyped DEF BufferInv
<1>2. w \in 0..ReadableBytes(buf) /\ w \in Nat
  BY <1>1, BufferUserAssumption DEF CallReadInt
<1>3. buf' = Forget(f) /\ last' = Called("popInt", <<signed, x>>)
  BY DEF CallReadInt
<1>4. IsBuffer(f, Bytes) /\ Content(f) = SubSeq(Content(buf), w + 1, Len(Content(buf)))
  BY <1>1, <1>2, RetrieveEffect
<1>5. w <= Len(Content(buf))
  BY <1>1, <1>2
<1>6. BufferInv' /\ Content(buf)' = SubSeq(Content(buf), w + 1, Len(Content(buf)))
  <2> HIDE DEF f, x
  <2> QED
    BY <1>3, <1>4, CallEffect
<1>7. front \in Seq(Bytes) /\ Len(front) = w
  <2>1. w \in 0..Len(Content(buf))
    BY <1>1, <1>2
  <2> QED
    BY <1>1, <2>1, SplitJoins
<1>8. x \in IntN(signed, w) /\ HostBytes(x, w) = Reverse(front)
  <2> HIDE DEF front
  <2>1. Reverse(front) \in Seq(Bytes) /\ Len(Reverse(front)) = w
    BY <1>7, ReverseFacts
  <2>2. Reverse(front) \in [1..w -> Bytes]
    BY <2>1
  <2>3. \E y \in IntN(signed, w) : HostBytes(y, w) = Reverse(front)
    BY <2>2, MemoryAssumption DEF Bytes
  <2>4. x = CHOOSE y \in IntN(signed, w) : HostBytes(y, w) = Reverse(front)
    BY DEF PeekInt, HostToNetwork, front
  <2> HIDE DEF x
  <2> QED
    BY <2>3, <2>4
<1> HIDE DEF x, f
<1>9. Queue!BigEndian(x, w) = front
  <2>1. x \in Int
    BY <1>8, IntegerTyped
  <2>2. Reverse(HostBytes(x, w)) = Queue!BigEndian(x, w)
    BY <2>1, NetworkBytes DEF HostToNetwork
  <2> HIDE DEF front
  <2>3. Reverse(Reverse(front)) = front
    BY <1>7, ReverseTwice
  <2> QED
    BY <1>8, <2>2, <2>3
<1> QED
  BY <1>3, <1>5, <1>6, <1>8, <1>9 DEF BufferStep

\* Every call keeps the invariant and is a step of the byte queue.
LEMMA BufferCalls ==
  ASSUME BufferInv, BufferNext
  PROVE  BufferInv' /\ BufferStep
<1>1. CASE \E s \in Strings :
             \/ CallAppend(s) \/ CallHasWritten(s) \/ CallReadFd(s)
             \/ CallPrepend(s) \/ CallSwap(s)
  BY <1>1, StringCalls
<1>2. CASE \E n \in 0..MaxReadable : CallRetrieveAsString(n) \/ CallUnwrite(n)
  BY <1>2, SizeCalls
<1>3. CASE \E reserve \in 0..1 : CallShrink(reserve)
  BY <1>3, ShrinkCalls
<1>4. CASE \E w \in Widths, signed \in BOOLEAN : CallReadInt(signed, w)
  BY <1>4, ReadIntCalls
<1>5. CASE \E w \in Widths, signed \in BOOLEAN : \E x \in IntN(signed, w) :
             CallAppendInt(x, w) \/ CallPrependInt(x, w)
  BY <1>5, IntegerCalls
<1> QED
  BY <1>1, <1>2, <1>3, <1>4, <1>5 DEF BufferNext

\* BufferInv holds after any sequence of calls.
LEMMA BufferInductive == BufferSpec => []BufferInv
<1>1. BufferInit => BufferInv
  BY NewIsBuffer DEF BufferInit, BufferInv
<1>2. BufferInv /\ [BufferNext]_bufferVars => BufferInv'
  <2>1. CASE BufferNext
    BY <2>1, BufferCalls
  <2>2. CASE UNCHANGED bufferVars
    BY <2>2 DEF BufferInv, bufferVars
  <2> QED
    BY <2>1, <2>2
<1> QED
  BY <1>1, <1>2, PTL DEF BufferSpec

\* The indices stay in the order that the picture at the head of Buffer.h
\* shows, and the vector as large as they need, whatever is called, for any
\* sizes, strings and widths.
THEOREM BufferTypeCorrect == BufferSpec => []BufferTypeOK
<1>1. BufferInv => BufferTypeOK
  BY DEF BufferInv, IsBuffer, BufferTypeOK, Bytes
<1> QED
  BY <1>1, BufferInductive, PTL

\* In every state ensureWritableBytes() of every length makes the room, keeps
\* every readable byte, and the assert of makeSpace() holds.
THEOREM SpaceIsAlwaysMade == BufferSpec => []SpaceIsMade
<1>1. BufferInv => SpaceIsMade
  <2> SUFFICES ASSUME BufferInv, NEW len \in 0..(2 * MaxReadable)
               PROVE  LET b == EnsureWritableBytes(buf, len)
                      IN  /\ WritableBytes(b) >= len
                          /\ Content(b) = Content(buf)
                          /\ WritableBytes(buf) < len /\ Moves(buf, len) => kCheapPrepend < buf.reader
    BY DEF SpaceIsMade
  <2>1. IsBuffer(buf, Bytes) /\ len \in Nat
    BY BufferUserAssumption DEF BufferInv
  <2> QED
    BY <2>1, EnsureEffect
<1> QED
  BY <1>1, BufferInductive, PTL

\* The refinement: the calls of the class move, grow and reset the vector, and
\* the caller sees nothing but a ByteQueue, for every size of the free prefix,
\* of the new buffer and of the bytes on readFd()'s stack.
THEOREM BufferIsByteQueue == BufferSpec => ImplementsByteQueue
<1>1. BufferInit => Queue!Init
  BY NewIsBuffer DEF BufferInit, Queue!Init, Called, Queue!Called
<1>2. BufferInv /\ [BufferNext]_bufferVars => [Queue!Next]_<<Content(buf), last>>
  <2> SUFFICES ASSUME BufferInv, [BufferNext]_bufferVars
               PROVE  [Queue!Next]_<<Content(buf), last>>
    OBVIOUS
  <2>1. CASE UNCHANGED bufferVars
    BY <2>1 DEF bufferVars, Content, ReadableBytes
  <2>2. CASE BufferNext
    <3>1. BufferStep
      BY <2>2, BufferCalls
    <3>2. CASE \E s \in Strings :
                 \/ Content(buf)' = Content(buf) \o s /\ last' = Called("pushBack", s)
                 \/ Content(buf)' = s \o Content(buf) /\ last' = Called("pushFront", s)
                 \/ Content(buf)' = s /\ last' = Called("exchange", Content(buf))
      BY <3>2 DEF Queue!Next, Queue!PushBack, Queue!PushFront, Queue!Exchange, Called, Queue!Called
    <3>3. CASE \E n \in 0..MaxReadable :
                 /\ n <= Len(Content(buf))
                 /\ \/ /\ Content(buf)' = SubSeq(Content(buf), n + 1, Len(Content(buf)))
                       /\ last' = Called("popFront", SubSeq(Content(buf), 1, n))
                    \/ /\ Content(buf)' = SubSeq(Content(buf), 1, Len(Content(buf)) - n)
                       /\ last' = Called("popBack", n)
      BY <3>3 DEF Queue!Next, Queue!PopFront, Queue!PopBack, Called, Queue!Called
    <3>4. CASE \E signed \in BOOLEAN, w \in Widths :
                 /\ w <= Len(Content(buf))
                 /\ Content(buf)' = SubSeq(Content(buf), w + 1, Len(Content(buf)))
                 /\ \E x \in IntN(signed, w) :
                      /\ Queue!BigEndian(x, w) = SubSeq(Content(buf), 1, w)
                      /\ last' = Called("popInt", <<signed, x>>)
      BY <3>4 DEF Queue!Next, Queue!PopInt, Queue!Values, IntN, Called, Queue!Called
    <3>5. CASE \E signed \in BOOLEAN, w \in Widths : \E x \in IntN(signed, w) :
                 \/ /\ Content(buf)' = Content(buf) \o Queue!BigEndian(x, w)
                    /\ last' = Called("pushIntBack", <<x, w>>)
                 \/ /\ Content(buf)' = Queue!BigEndian(x, w) \o Content(buf)
                    /\ last' = Called("pushIntFront", <<x, w>>)
      BY <3>5 DEF Queue!Next, Queue!PushIntBack, Queue!PushIntFront, Queue!Values, IntN, Called, Queue!Called
    <3>6. CASE Content(buf)' = Content(buf) /\ last' = Called("reserve", 0)
      BY <3>6 DEF Queue!Next, Queue!Reserve, Called, Queue!Called
    <3> QED
      BY <3>1, <3>2, <3>3, <3>4, <3>5, <3>6 DEF BufferStep
  <2> QED
    BY <2>1, <2>2
<1> QED
  BY <1>1, <1>2, BufferInductive, PTL DEF BufferSpec, ImplementsByteQueue, Queue!Spec

-----------------------------------------------------------------------------
(* CDN.                                                                    *)

\* Quotient and remainder of a number given by its two digits.
LEMMA Division ==
  ASSUME NEW d \in Nat \ {0}, NEW hi \in Nat, NEW lo \in 0..(d - 1)
  PROVE  (d * hi + lo) \div d = hi /\ (d * hi + lo) % d = lo
<1> DEFINE x == d * hi + lo
           q == x \div d
           r == x % d
<1>1. x \in Int
  OBVIOUS
<1>2. q \in Int /\ r \in 0..(d - 1) /\ x = d * q + r
  <2> HIDE DEF x
  <2> QED
    BY <1>1
<1>3. d * hi \in Int /\ d * q \in Int /\ d * hi + lo = d * q + r
  BY <1>2
<1> HIDE DEF q, r
<1>4. ASSUME q >= hi + 1 PROVE FALSE
  <2>1. d * q >= d * (hi + 1)
    BY <1>2, <1>4
  <2>2. d * (hi + 1) = d * hi + d
    OBVIOUS
  <2> QED
    BY <1>2, <1>3, <2>1, <2>2
<1>5. ASSUME q + 1 <= hi PROVE FALSE
  <2>1. d * hi >= d * (q + 1)
    BY <1>2, <1>5
  <2>2. d * (q + 1) = d * q + d
    BY <1>2
  <2> QED
    BY <1>2, <1>3, <2>1, <2>2
<1>6. q = hi
  BY <1>2, <1>4, <1>5
<1>7. r = lo
  BY <1>2, <1>3, <1>6
<1> QED
  BY <1>6, <1>7 DEF q, r

\* Two bytes read as an integer and written to memory again: the first byte
\* in memory is the second of the network.
LEMMA FirstInMemory ==
  ASSUME NEW b, IsBuffer(b, Bytes), 2 <= ReadableBytes(b)
  PROVE  HostBytes(PeekInt(b, FALSE, 2), 2)[1] = Content(b)[2] /\ Content(b)[2] \in Bytes
<1> DEFINE front == SubSeq(Content(b), 1, 2)
           memory == Reverse(front)
           c == PeekInt(b, FALSE, 2)
<1>1. /\ Content(b) \in Seq(Bytes) /\ Len(Content(b)) = ReadableBytes(b) /\ ReadableBytes(b) \in Nat
  BY ContentTyped
<1>2. front \in Seq(Bytes) /\ Len(front) = 2 /\ front[1] = Content(b)[1] /\ front[2] = Content(b)[2]
  <2>1. PICK q \in Seq(Bytes) : q = Content(b)
    BY <1>1
  <2>2. Len(q) \in Nat /\ 2 <= Len(q)
    BY <1>1, <2>1
  <2>3. 1 \in 1..(Len(q) + 1) /\ 2 \in (1 - 1)..Len(q)
    BY <2>2
  <2>4. /\ SubSeq(q, 1, 2) \in Seq(Bytes) /\ Len(SubSeq(q, 1, 2)) = 2 - 1 + 1
        /\ \A i \in 1..(2 - 1 + 1) : SubSeq(q, 1, 2)[i] = q[1 + i - 1]
    BY <2>3, SubSeqFacts
  <2> QED
    BY <2>1, <2>4
<1> HIDE DEF front
<1>3. /\ memory \in Seq(Bytes) /\ Len(memory) = 2
      /\ memory[1] = Content(b)[2] /\ memory[2] = Content(b)[1]
  <2>1. /\ Reverse(front) \in Seq(Bytes) /\ Len(Reverse(front)) = Len(front)
        /\ \A i \in 1..Len(front) : Reverse(front)[i] = front[(Len(front) - i) + 1]
    BY <1>2, ReverseFacts
  <2> QED
    BY <1>2, <2>1
<1> HIDE DEF memory
<1>4. memory[1] \in Bytes /\ memory[2] \in Bytes
  <2>1. memory \in Seq(Bytes) /\ Len(memory) = 2
    BY <1>3
  <2>2. \A i \in 1..Len(memory) : memory[i] \in Bytes
    BY <2>1
  <2> QED
    BY <2>1, <2>2
<1>5. \E x \in IntN(FALSE, 2) : HostBytes(x, 2) = memory
  <2>1. Base \in Nat \ {0, 1} /\ Base^0 = 1 /\ Base^1 = Base /\ Base^2 = Base * Base
    BY BufferAssumption, CDNAssumption
  <2> DEFINE lo == memory[1]
             hi == memory[2]
             x == Base * hi + lo
  <2>2. lo \in 0..(Base - 1) /\ hi \in 0..(Base - 1)
    BY <1>4 DEF Bytes
  <2>3. x \div Base = hi /\ x % Base = lo
    <3> HIDE DEF lo, hi
    <3> QED
      BY <2>1, <2>2, Division
  <2>4. hi % Base = hi
    <3> HIDE DEF lo, hi
    <3> QED
      BY <2>1, <2>2
  <2>5. x \in Nat /\ x \div 1 = x
    <3> HIDE DEF lo, hi
    <3> QED
      BY <2>1, <2>2
  <2>6. x \in IntN(FALSE, 2)
    <3> HIDE DEF lo, hi
    <3>1. Base * hi <= Base * (Base - 1)
      BY <2>1, <2>2
    <3>2. Base * (Base - 1) = Base * Base - Base
      BY <2>1
    <3>3. x <= Base * Base - 1
      BY <2>1, <2>2, <3>1, <3>2
    <3> HIDE DEF x
    <3> QED
      BY <2>1, <2>5, <3>3 DEF IntN
  <2> HIDE DEF x
  <2>7. HostBytes(x, 2) = [i \in 1..2 |-> (x \div Base^(i - 1)) % Base]
    BY DEF HostBytes
  <2>8. (x \div Base^(1 - 1)) % Base = lo /\ (x \div Base^(2 - 1)) % Base = hi
    <3>1. 1 - 1 = 0 /\ 2 - 1 = 1
      OBVIOUS
    <3> HIDE DEF lo, hi
    <3> QED
      BY <2>1, <2>3, <2>4, <2>5, <3>1
  <2>9. HostBytes(x, 2) = [i \in 1..2 |-> memory[i]]
    BY <2>7, <2>8
  <2>10. memory = [i \in 1..2 |-> memory[i]]
    BY <1>3
  <2> QED
    BY <2>6, <2>9, <2>10
<1>6. HostBytes(c, 2) = memory
  <2>1. c = CHOOSE x \in IntN(FALSE, 2) : HostBytes(x, 2) = memory
    BY DEF PeekInt, HostToNetwork, memory, front
  <2> HIDE DEF c
  <2> QED
    BY <1>5, <2>1
<1> QED
  BY <1>3, <1>4, <1>6

\* The bytes that arrived are in the file, every second of them, or in the
\* buffer; the loop has as many iterations left as there are whole integers.
CDNInv ==
  /\ sent \in Seq(Bytes) /\ arrived \in Nat /\ arrived <= Len(sent)
  /\ IsBuffer(cdnInput, Bytes)
  /\ left \in Nat /\ 2 * left <= ReadableBytes(cdnInput) /\ ReadableBytes(cdnInput) <= 2 * left + 1
  /\ recvData \in Seq(Bytes)
  /\ 2 * Len(recvData) + ReadableBytes(cdnInput) = arrived
  /\ \A i \in 1..Len(recvData) : recvData[i] = sent[2 * i]
  /\ \A i \in 1..ReadableBytes(cdnInput) :
       Content(cdnInput)[i] = sent[2 * Len(recvData) + i]

\* Length and elements of a sequence with one more.
LEMMA AppendFacts ==
  ASSUME NEW S, NEW q \in Seq(S), NEW e \in S
  PROVE  /\ Append(q, e) \in Seq(S) /\ Len(Append(q, e)) = Len(q) + 1
         /\ \A i \in 1..Len(q) : Append(q, e)[i] = q[i]
         /\ Append(q, e)[Len(q) + 1] = e
  OBVIOUS

\* A byte of the client keeps the invariant.
LEMMA SendPreserves ==
  ASSUME CDNInv, NEW byte \in 0..(Base - 1), ClientSends(byte)
  PROVE  CDNInv'
<1>1. /\ sent' \in Seq(Bytes) /\ Len(sent') = Len(sent) + 1 /\ Len(sent) \in Nat
      /\ \A i \in 1..Len(sent) : sent'[i] = sent[i]
  <2>1. sent \in Seq(Bytes) /\ byte \in Bytes /\ sent' = Append(sent, byte)
    BY DEF CDNInv, ClientSends, Bytes
  <2> QED
    BY <2>1, AppendFacts
<1>2. arrived' = arrived /\ cdnInput' = cdnInput /\ left' = left /\ recvData' = recvData
  BY DEF ClientSends
<1>3. ReadableBytes(cdnInput)' = ReadableBytes(cdnInput) /\ Content(cdnInput)' = Content(cdnInput)
  BY <1>2 DEF ReadableBytes, Content
<1> DEFINE n == ReadableBytes(cdnInput)
           k == Len(recvData)
<1>4. n \in Nat /\ k \in Nat /\ 2 * k + n = arrived /\ arrived \in Nat /\ arrived <= Len(sent)
  BY ContentTyped DEF CDNInv
<1>5. \A i \in 1..k : 2 * i \in 1..Len(sent)
  <2> HIDE DEF n, k
  <2> QED
    BY <1>1, <1>4
<1>6. \A i \in 1..n : 2 * k + i \in 1..Len(sent)
  <2> HIDE DEF n, k
  <2> QED
    BY <1>1, <1>4
<1>7. \A i \in 1..k : recvData[i] = sent'[2 * i]
  BY <1>1, <1>5 DEF CDNInv
<1>8. \A i \in 1..n : Content(cdnInput)[i] = sent'[2 * k + i]
  BY <1>1, <1>6 DEF CDNInv
<1>9. arrived <= Len(sent')
  BY <1>1, <1>4
<1>10. /\ IsBuffer(cdnInput, Bytes) /\ left \in Nat /\ recvData \in Seq(Bytes)
       /\ 2 * left <= n /\ n <= 2 * left + 1
  BY DEF CDNInv
<1> QED
  BY <1>1, <1>2, <1>3, <1>4, <1>7, <1>8, <1>9, <1>10 DEF CDNInv

\* A message of any length keeps the invariant.
LEMMA ReceivePreserves ==
  ASSUME CDNInv, NEW n \in 1..MaxSent, n <= Len(sent) - arrived, Receive(n)
  PROVE  CDNInv'
<1> DEFINE piece == SubSeq(sent, arrived + 1, arrived + n)
           b == ReadFd(cdnInput, piece)
           r == ReadableBytes(cdnInput)
           k == Len(recvData)
<1>1. /\ sent \in Seq(Bytes) /\ arrived \in Nat /\ n \in Nat /\ Len(sent) \in Nat /\ arrived + n <= Len(sent)
      /\ left = 0 /\ k \in Nat
  BY CDNAssumption DEF CDNInv, Receive
<1>2. piece \in Seq(Bytes) /\ Len(piece) = n /\ \A i \in 1..n : piece[i] = sent[arrived + i]
  <2>1. arrived + 1 \in 1..(Len(sent) + 1) /\ arrived + n \in ((arrived + 1) - 1)..Len(sent)
    BY <1>1
  <2>2. /\ piece \in Seq(Bytes) /\ Len(piece) = (arrived + n) - (arrived + 1) + 1
        /\ \A i \in 1..((arrived + n) - (arrived + 1) + 1) : piece[i] = sent[(arrived + 1) + i - 1]
    BY <1>1, <2>1, SubSeqFacts
  <2>3. (arrived + n) - (arrived + 1) + 1 = n /\ \A i \in 1..n : (arrived + 1) + i - 1 = arrived + i
    BY <1>1
  <2> HIDE DEF piece
  <2> QED
    BY <2>2, <2>3
<1>3. /\ cdnInput' = Forget(b) /\ left' = ReadableBytes(b) \div 2 /\ arrived' = arrived + n
      /\ sent' = sent /\ recvData' = recvData
  BY DEF Receive
<1> HIDE DEF piece
<1>4. IsBuffer(cdnInput, Bytes) /\ r \in Nat /\ Content(cdnInput) \in Seq(Bytes) /\ Len(Content(cdnInput)) = r
  BY ContentTyped DEF CDNInv
<1>5. IsBuffer(b, Bytes) /\ Content(b) = Content(cdnInput) \o piece
  BY <1>2, <1>4, ReadFdEffect
<1> HIDE DEF b
<1>6. /\ IsBuffer(Forget(b), Bytes) /\ Content(Forget(b)) = Content(cdnInput) \o piece
      /\ ReadableBytes(Forget(b)) = ReadableBytes(b)
  BY <1>5, ForgetEffect
<1>7. /\ Len(Content(cdnInput) \o piece) = r + n
      /\ \A i \in 1..r : (Content(cdnInput) \o piece)[i] = Content(cdnInput)[i]
      /\ \A i \in (r + 1)..(r + n) : (Content(cdnInput) \o piece)[i] = piece[i - r]
  <2>1. PICK c \in Seq(Bytes) : c = Content(cdnInput)
    BY <1>4
  <2>2. Len(c) = r
    BY <1>4, <2>1
  <2> HIDE DEF r
  <2>3. /\ c \o piece \in Seq(Bytes) /\ Len(c \o piece) = Len(c) + Len(piece)
        /\ \A i \in 1..Len(c) : (c \o piece)[i] = c[i]
        /\ \A i \in (Len(c) + 1)..(Len(c) + Len(piece)) : (c \o piece)[i] = piece[i - Len(c)]
    BY <1>2, ConcatFacts
  <2> QED
    BY <1>2, <2>1, <2>2, <2>3
<1>8. ReadableBytes(b) = r + n
  <2>1. Len(Content(b)) = ReadableBytes(b)
    BY <1>5, ContentTyped
  <2> QED
    BY <1>5, <1>7, <2>1
<1>9. /\ ReadableBytes(cdnInput)' = r + n /\ Content(cdnInput)' = Content(cdnInput) \o piece
      /\ IsBuffer(cdnInput, Bytes)'
  <2>1. ReadableBytes(cdnInput)' = ReadableBytes(Forget(b))
    BY <1>3 DEF ReadableBytes
  <2>2. Content(cdnInput)' = Content(Forget(b))
    BY <1>3 DEF Content, ReadableBytes
  <2>3. IsBuffer(cdnInput, Bytes)'
    BY <1>3, <1>6 DEF Bytes
  <2> QED
    BY <1>6, <1>8, <2>1, <2>2, <2>3
<1>10. 2 * k + r = arrived
  BY DEF CDNInv
<1>11. ASSUME NEW i \in 1..(r + n)
       PROVE  (Content(cdnInput) \o piece)[i] = sent[2 * k + i]
  <2> HIDE DEF k
  <2>1. i \in 1..r \/ i \in (r + 1)..(r + n)
    <3> HIDE DEF r
    <3> QED
      BY <1>1, <1>4
  <2>2. CASE i \in 1..r
    <3>1. Content(cdnInput)[i] = sent[2 * k + i]
      BY <2>2 DEF CDNInv, k
    <3> QED
      BY <1>7, <2>2, <3>1
  <2>3. CASE i \in (r + 1)..(r + n)
    <3> HIDE DEF r
    <3>1. i - r \in 1..n /\ arrived + (i - r) = 2 * k + i
      BY <1>1, <1>4, <1>10, <2>3
    <3> QED
      BY <1>2, <1>7, <2>3, <3>1
  <2> QED
    BY <2>1, <2>2, <2>3
<1>12. left' \in Nat /\ 2 * left' <= r + n /\ r + n <= 2 * left' + 1
  <2> HIDE DEF r
  <2> QED
    BY <1>1, <1>3, <1>4, <1>8
<1>13. arrived + n \in Nat /\ 2 * k + (r + n) = arrived + n
  <2> HIDE DEF r, k
  <2> QED
    BY <1>1, <1>4, <1>10
<1>14. recvData \in Seq(Bytes) /\ \A i \in 1..k : recvData[i] = sent[2 * i]
  BY DEF CDNInv
<1> HIDE DEF r
<1> QED
  BY <1>1, <1>3, <1>9, <1>11, <1>12, <1>13, <1>14 DEF CDNInv

\* An iteration of onMessage() keeps the invariant.
LEMMA ReadPreserves ==
  ASSUME CDNInv, ReadUint16
  PROVE  CDNInv'
<1> DEFINE f == Retrieve(cdnInput, 2)
           e == HostBytes(PeekInt(cdnInput, FALSE, 2), 2)[1]
           r == ReadableBytes(cdnInput)
           k == Len(recvData)
<1>1. /\ IsBuffer(cdnInput, Bytes) /\ r \in Nat /\ left \in Nat /\ left > 0 /\ 2 * left <= r
      /\ r <= 2 * left + 1 /\ k \in Nat /\ 2 * k + r = arrived /\ arrived \in Nat /\ recvData \in Seq(Bytes)
  BY ContentTyped DEF CDNInv, ReadUint16
<1>2. /\ recvData' = Append(recvData, e) /\ cdnInput' = Forget(f) /\ left' = left - 1
      /\ sent' = sent /\ arrived' = arrived
  BY DEF ReadUint16
<1>3. 2 <= r
  <2> HIDE DEF r
  <2> QED
    BY <1>1
<1>4. e = Content(cdnInput)[2] /\ e \in Bytes
  BY <1>1, <1>3, FirstInMemory
<1>5. e = sent[2 * k + 2]
  <2>1. 2 \in 1..r
    BY <1>1, <1>3
  <2> QED
    BY <1>4, <2>1 DEF CDNInv
<1> HIDE DEF e
<1>6. /\ IsBuffer(f, Bytes) /\ ReadableBytes(f) = r - 2
      /\ Content(f) = SubSeq(Content(cdnInput), 3, r)
  <2>1. 2 \in 0..ReadableBytes(cdnInput)
    BY <1>1, <1>3
  <2>2. /\ IsBuffer(f, Bytes) /\ ReadableBytes(f) = r - 2
        /\ Content(f) = SubSeq(Content(cdnInput), 2 + 1, Len(Content(cdnInput)))
    BY <1>1, <2>1, RetrieveEffect
  <2>3. Len(Content(cdnInput)) = r /\ 2 + 1 = 3
    BY <1>1, ContentTyped
  <2> QED
    BY <2>2, <2>3
<1> HIDE DEF f
<1>7. \A i \in 1..(r - 2) : Content(f)[i] = Content(cdnInput)[2 + i]
  <2>1. PICK q \in Seq(Bytes) : q = Content(cdnInput) /\ Len(q) = r
    BY <1>1, ContentTyped
  <2> HIDE DEF r
  <2>2. 3 \in 1..(Len(q) + 1) /\ r \in (3 - 1)..Len(q)
    BY <1>1, <1>3, <2>1
  <2>3. \A i \in 1..(r - 3 + 1) : SubSeq(q, 3, r)[i] = q[3 + i - 1]
    BY <2>2, SubSeqFacts
  <2>4. r - 3 + 1 = r - 2 /\ \A i \in 1..(r - 2) : 3 + i - 1 = 2 + i
    BY <1>1
  <2> QED
    BY <1>6, <2>1, <2>3, <2>4
<1>8. /\ IsBuffer(Forget(f), Bytes) /\ Content(Forget(f)) = Content(f)
      /\ ReadableBytes(Forget(f)) = r - 2
  BY <1>6, ForgetEffect
<1>9. /\ ReadableBytes(cdnInput)' = r - 2 /\ Content(cdnInput)' = Content(f)
      /\ IsBuffer(cdnInput, Bytes)'
  <2>1. ReadableBytes(cdnInput)' = ReadableBytes(Forget(f))
    BY <1>2 DEF ReadableBytes
  <2>2. Content(cdnInput)' = Content(Forget(f))
    BY <1>2 DEF Content, ReadableBytes
  <2>3. IsBuffer(cdnInput, Bytes)'
    BY <1>2, <1>8 DEF Bytes
  <2> QED
    BY <1>8, <2>1, <2>2, <2>3
<1>10. /\ recvData' \in Seq(Bytes) /\ Len(recvData') = k + 1
       /\ \A i \in 1..k : recvData'[i] = recvData[i]
       /\ recvData'[k + 1] = e
  BY <1>1, <1>2, <1>4, AppendFacts
<1>11. ASSUME NEW i \in 1..(k + 1)
       PROVE  recvData'[i] = sent[2 * i]
  <2>1. CASE i = k + 1
    <3>1. 2 * (k + 1) = 2 * k + 2
      BY <1>1
    <3> QED
      BY <1>5, <1>10, <2>1, <3>1
  <2>2. CASE i \in 1..k
    BY <1>10, <2>2 DEF CDNInv
  <2>3. i = k + 1 \/ i \in 1..k
    BY <1>1
  <2> QED
    BY <2>1, <2>2, <2>3
<1>12. ASSUME NEW i \in 1..(r - 2)
       PROVE  Content(f)[i] = sent[2 * (k + 1) + i]
  <2>1. 2 + i \in 1..r /\ 2 * k + (2 + i) = 2 * (k + 1) + i
    <3> HIDE DEF r, k
    <3> QED
      BY <1>1
  <2>2. Content(cdnInput)[2 + i] = sent[2 * k + (2 + i)]
    BY <2>1 DEF CDNInv
  <2> QED
    BY <1>7, <2>1, <2>2
<1>13. /\ left - 1 \in Nat /\ 2 * (left - 1) <= r - 2 /\ r - 2 <= 2 * (left - 1) + 1
       /\ 2 * (k + 1) + (r - 2) = arrived
  <2> HIDE DEF r, k
  <2> QED
    BY <1>1
<1>14. sent \in Seq(Bytes) /\ arrived \in Nat /\ arrived <= Len(sent)
  BY DEF CDNInv
<1> HIDE DEF r, k
<1> QED
  BY <1>2, <1>9, <1>10, <1>11, <1>12, <1>13, <1>14 DEF CDNInv

\* CDNInv holds however the stream is cut.
LEMMA CDNInductive == CDNSpec => []CDNInv
<1>1. CDNInit => CDNInv
  <2> SUFFICES ASSUME CDNInit PROVE CDNInv
    OBVIOUS
  <2>1. /\ IsBuffer(cdnInput, Bytes) /\ ReadableBytes(cdnInput) = 0
    BY NewIsBuffer DEF CDNInit
  <2>2. sent = <<>> /\ arrived = 0 /\ left = 0 /\ recvData = <<>>
    BY DEF CDNInit
  <2> QED
    BY <2>1, <2>2 DEF CDNInv
<1>2. CDNInv /\ [CDNNext]_cdnVars => CDNInv'
  <2> SUFFICES ASSUME CDNInv, [CDNNext]_cdnVars PROVE CDNInv'
    OBVIOUS
  <2>1. CASE \E byte \in 0..(Base - 1) : ClientSends(byte)
    BY <2>1, SendPreserves
  <2>2. CASE \E n \in 1..MaxSent :
               n <= Len(sent) - arrived /\ n <= ReadLimit(cdnInput) /\ Receive(n)
    BY <2>2, ReceivePreserves
  <2>3. CASE ReadUint16
    BY <2>3, ReadPreserves
  <2>4. CASE UNCHANGED cdnVars
    BY <2>4 DEF CDNInv, cdnVars, Content, ReadableBytes
  <2> QED
    BY <2>1, <2>2, <2>3, <2>4 DEF CDNNext
<1> QED
  BY <1>1, <1>2, PTL DEF CDNSpec

\* However the bytes of the client are cut, and however readFd() spreads them
\* over the vector and the stack, the file of the CDN server holds every
\* second byte that arrived, for every number of bytes.
THEOREM FileAlwaysIndependentOfCuts == CDNSpec => []FileIndependentOfCuts
<1>1. CDNInv => FileIndependentOfCuts
  <2> SUFFICES ASSUME CDNInv, left = 0
               PROVE  /\ recvData = [i \in 1..(arrived \div 2) |-> sent[2 * i]]
                      /\ Content(cdnInput) = SubSeq(sent, arrived - (arrived % 2) + 1, arrived)
    BY DEF FileIndependentOfCuts
  <2> DEFINE r == ReadableBytes(cdnInput)
             k == Len(recvData)
  <2>1. /\ r \in Nat /\ r <= 1 /\ k \in Nat /\ 2 * k + r = arrived
        /\ arrived \in Nat /\ arrived <= Len(sent) /\ sent \in Seq(Bytes) /\ Len(sent) \in Nat
        /\ Content(cdnInput) \in Seq(Bytes) /\ Len(Content(cdnInput)) = r
    <3>1. r <= 2 * left + 1 /\ IsBuffer(cdnInput, Bytes)
      BY DEF CDNInv
    <3>2. r \in Nat /\ Content(cdnInput) \in Seq(Bytes) /\ Len(Content(cdnInput)) = r
      BY <3>1, ContentTyped
    <3> QED
      BY <3>1, <3>2 DEF CDNInv
  <2>2. arrived \div 2 = k /\ arrived % 2 = r
    <3> HIDE DEF r, k
    <3> QED
      BY <2>1
  <2>3. recvData = [i \in 1..k |-> sent[2 * i]]
    <3>1. recvData = [i \in 1..k |-> recvData[i]]
      BY DEF CDNInv
    <3> QED
      BY <3>1 DEF CDNInv
  <2>4. Content(cdnInput) = SubSeq(sent, arrived - r + 1, arrived)
    <3> DEFINE s == SubSeq(sent, arrived - r + 1, arrived)
    <3>1. arrived - r + 1 \in 1..(Len(sent) + 1) /\ arrived \in ((arrived - r + 1) - 1)..Len(sent)
      <4> HIDE DEF r, k
      <4> QED
        BY <2>1
    <3>2. /\ s \in Seq(Bytes) /\ Len(s) = arrived - (arrived - r + 1) + 1
          /\ \A i \in 1..(arrived - (arrived - r + 1) + 1) : s[i] = sent[(arrived - r + 1) + i - 1]
      <4> HIDE DEF r, k
      <4> QED
        BY <2>1, <3>1, SubSeqFacts
    <3>3. /\ arrived - (arrived - r + 1) + 1 = r
          /\ \A i \in 1..r : (arrived - r + 1) + i - 1 = 2 * k + i
      <4> HIDE DEF r, k
      <4> QED
        BY <2>1
    <3>4. \A i \in 1..r : Content(cdnInput)[i] = sent[2 * k + i]
      BY DEF CDNInv
    <3> HIDE DEF s, r, k
    <3>5. Len(s) = r /\ \A i \in 1..r : Content(cdnInput)[i] = s[i]
      BY <3>2, <3>3, <3>4
    <3> QED
      BY <2>1, <3>2, <3>5, SeqEqual DEF s
  <2> QED
    BY <2>2, <2>3, <2>4
<1> QED
  BY <1>1, CDNInductive, PTL
=============================================================================
