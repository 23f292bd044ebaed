----------------------------- MODULE ByteQueue ------------------------------
(***************************************************************************)
(* What Buffer promises its callers: a string of bytes that can be added   *)
(* to and taken from at both ends, in which integers stand most            *)
(* significant byte first.                                                 *)
(***************************************************************************)
EXTENDS Integers, Sequences

CONSTANTS Strings, Sizes, Widths, Base

VARIABLES
  content,  \* the readable bytes
  last      \* the last call, with its argument or its result

Called(op, value) == [op |-> op, value |-> value]

Init == content = <<>> /\ last = Called("none", 0)

PushBack(s) == content' = content \o s /\ last' = Called("pushBack", s)
PushFront(s) == content' = s \o content /\ last' = Called("pushFront", s)

PopFront(n) ==
  /\ n <= Len(content)
  /\ content' = SubSeq(content, n + 1, Len(content))
  /\ last' = Called("popFront", SubSeq(content, 1, n))

PopBack(n) ==
  /\ n <= Len(content)
  /\ content' = SubSeq(content, 1, Len(content) - n)
  /\ last' = Called("popBack", n)

\* The values of an integer of w bytes, and its bytes, the most significant
\* one first, in two's complement.
Values(signed, w) ==
  IF signed THEN (-(Base^w \div 2))..(Base^w \div 2 - 1) ELSE 0..(Base^w - 1)

BigEndian(x, w) == [i \in 1..w |-> (x \div Base^(w - i)) % Base]

PushIntBack(x, w) ==
  content' = content \o BigEndian(x, w) /\ last' = Called("pushIntBack", <<x, w>>)

PushIntFront(x, w) ==
  content' = BigEndian(x, w) \o content /\ last' = Called("pushIntFront", <<x, w>>)

PopInt(signed, w) ==
  /\ w <= Len(content)
  /\ content' = SubSeq(content, w + 1, Len(content))
  /\ \E x \in Values(signed, w) :
       /\ BigEndian(x, w) = SubSeq(content, 1, w)
       /\ last' = Called("popInt", <<signed, x>>)

Exchange(s) == content' = s /\ last' = Called("exchange", content)

\* Calls that make room change nothing the caller can see.
Reserve == content' = content /\ last' = Called("reserve", 0)

Next ==
  \/ \E s \in Strings : PushBack(s) \/ PushFront(s) \/ Exchange(s)
  \/ \E n \in Sizes : PopFront(n) \/ PopBack(n)
  \/ \E signed \in BOOLEAN, w \in Widths :
       \/ PopInt(signed, w)
       \/ \E x \in Values(signed, w) : PushIntBack(x, w) \/ PushIntFront(x, w)
  \/ Reserve

Spec == Init /\ [][Next]_<<content, last>>
=============================================================================
