--------------------------- MODULE AnswersProofs ----------------------------
(***************************************************************************)
(* Proof that the HTTP server answers what it is asked, wherever the       *)
(* network cuts the requests (AnswersInOrder).                             *)
(***************************************************************************)
EXTENDS ApplicationProofs, BufferProofs

-----------------------------------------------------------------------------
(* Requests and their encodings.                                           *)

WireBytes ==
  {CR, LF} \cup UNION {ToSet(r.line) \cup ToSet(r.headers) \cup ToSet(r.body) : r \in Requests}

\* The bytes of a request before its body, and all of them.
HeadLen(r) == Len(r.line) + 3 * Len(r.headers) + 4
Size(r) == HeadLen(r) + Len(r.body)

\* The parts of a request are sequences of bytes other than CR and LF.
LEMMA RequestTyped ==
  ASSUME NEW r \in Requests
  PROVE  /\ CR \in WireBytes /\ LF \in WireBytes /\ CR # LF
         /\ r.line \in Seq(WireBytes) /\ r.headers \in Seq(WireBytes) /\ r.body \in Seq(WireBytes)
         /\ \A i \in 1..Len(r.line) : r.line[i] # CR /\ r.line[i] # LF
         /\ \A i \in 1..Len(r.headers) : r.headers[i] # CR /\ r.headers[i] # LF
         /\ \A i \in 1..Len(r.body) : r.body[i] # CR /\ r.body[i] # LF
         /\ \A i \in 1..Len(r.headers) : \E f, v : r.headers[i] = Header(f, v)
         /\ Len(r.line) = 3 => r.line[2].kind = "target"
<1>1. /\ \A part \in {r.line, r.headers, r.body} :
           part \in Seq(ToSet(part)) /\ {CR, LF} \cap ToSet(part) = {}
      /\ \A w \in ToSet(r.headers) : w = Header(w.field, w.value)
      /\ Len(r.line) = 3 => r.line[2].kind = "target"
  BY PlanAssumption
<1>2. ASSUME NEW part \in {r.line, r.headers, r.body}
      PROVE  part \in Seq(WireBytes) /\ \A i \in 1..Len(part) : part[i] # CR /\ part[i] # LF
  <2>1. PICK S : S = ToSet(part) /\ part \in Seq(S) /\ {CR, LF} \cap S = {}
    BY <1>1
  <2>2. S \subseteq WireBytes
    BY <2>1 DEF WireBytes
  <2>3. \A i \in 1..Len(part) : part[i] \in S
    BY <2>1
  <2> QED
    BY <2>1, <2>2, <2>3
<1>3. \A i \in 1..Len(r.headers) : r.headers[i] \in ToSet(r.headers)
  <2>1. r.headers \in Seq(ToSet(r.headers))
    BY <1>1
  <2> QED
    BY <2>1
<1>4. CR \in WireBytes /\ LF \in WireBytes /\ CR # LF
  BY BufferAssumption DEF WireBytes
<1> QED
  BY <1>1, <1>2, <1>3, <1>4

\* The lines of the headers: header h is at 3h - 2.
LEMMA HeaderLinesFacts ==
  ASSUME NEW hs \in Seq(WireBytes)
  PROVE  /\ HeaderLines(hs) \in Seq(WireBytes) /\ Len(HeaderLines(hs)) = 3 * Len(hs)
         /\ \A h \in 1..Len(hs) : /\ HeaderLines(hs)[3 * h - 2] = hs[h]
                                  /\ HeaderLines(hs)[3 * h - 1] = CR
                                  /\ HeaderLines(hs)[3 * h] = LF
         /\ \A i \in 1..(3 * Len(hs)) : \E h \in 1..Len(hs) : i \in {3 * h - 2, 3 * h - 1, 3 * h}
<1>1. PICK n : n = Len(hs) /\ n \in Nat
  OBVIOUS
<1>2. PICK s : s = HeaderLines(hs)
  OBVIOUS
<1>3. s = [i \in 1..(3 * n) |->
             CASE i % 3 = 1 -> hs[(i + 2) \div 3] [] i % 3 = 2 -> CR [] OTHER -> LF]
  BY <1>1, <1>2 DEF HeaderLines
<1>4. \A i \in 1..(3 * n) : \E h \in 1..n : i \in {3 * h - 2, 3 * h - 1, 3 * h}
  <2> SUFFICES ASSUME NEW i \in 1..(3 * n)
               PROVE  \E h \in 1..n : i \in {3 * h - 2, 3 * h - 1, 3 * h}
    OBVIOUS
  <2>1. PICK h : h = (i + 2) \div 3 /\ h \in Int
    OBVIOUS
  <2>2. h \in 1..n /\ (i = 3 * h - 2 \/ i = 3 * h - 1 \/ i = 3 * h)
    BY <1>1, <2>1
  <2> QED
    BY <2>2
<1>5. \A h \in 1..n : s[3 * h - 2] = hs[h] /\ s[3 * h - 1] = CR /\ s[3 * h] = LF
  <2> SUFFICES ASSUME NEW h \in 1..n
               PROVE  s[3 * h - 2] = hs[h] /\ s[3 * h - 1] = CR /\ s[3 * h] = LF
    OBVIOUS
  <2>1. /\ 3 * h - 2 \in 1..(3 * n) /\ 3 * h - 1 \in 1..(3 * n) /\ 3 * h \in 1..(3 * n)
        /\ (3 * h - 2) % 3 = 1 /\ (3 * h - 1) % 3 = 2 /\ (3 * h) % 3 = 0
        /\ (3 * h - 2 + 2) \div 3 = h
    BY <1>1
  <2>2. s[3 * h - 2] = hs[h]
    BY <1>3, <2>1
  <2>3. s[3 * h - 1] = CR
    BY <1>3, <2>1
  <2>4. s[3 * h] = LF
    <3>1. PICK i \in 1..(3 * n) : i = 3 * h /\ ~(i % 3 = 1) /\ ~(i % 3 = 2)
      BY <2>1
    <3>2. s[i] = LF
      BY <1>3, <3>1
    <3> QED
      BY <3>1, <3>2
  <2> QED
    BY <2>2, <2>3, <2>4
<1>6. CR \in WireBytes /\ LF \in WireBytes
  BY DEF WireBytes
<1>7. \A i \in 1..(3 * n) : s[i] \in WireBytes
  <2> SUFFICES ASSUME NEW i \in 1..(3 * n)
               PROVE  s[i] \in WireBytes
    OBVIOUS
  <2>1. PICK h \in 1..n : i \in {3 * h - 2, 3 * h - 1, 3 * h}
    BY <1>4
  <2>2. hs[h] \in WireBytes
    BY <1>1
  <2> QED
    BY <1>5, <1>6, <2>1, <2>2
<1>8. s \in Seq(WireBytes) /\ Len(s) = 3 * n
  BY <1>1, <1>3, <1>7
<1> QED
  BY <1>1, <1>2, <1>4, <1>5, <1>8

\* The lengths of the parts of a request.
Measures(r, L, H, n) == L = Len(r.line) /\ H = Len(r.headers) /\ n = Len(r.body)

\* Every request has them.
LEMMA RequestMeasured ==
  ASSUME NEW r \in Requests
  PROVE  \E L \in Nat, H \in Nat, n \in Nat : Measures(r, L, H, n)
<1>1. Len(r.line) \in Nat /\ Len(r.headers) \in Nat /\ Len(r.body) \in Nat
  BY RequestTyped
<1> QED
  BY <1>1 DEF Measures

\* Where what is in the encoding E of a request, and where its CRs are.
Encoded(r, E, L, H, n) ==
  /\ HeadLen(r) = L + 3 * H + 4 /\ Size(r) = L + 3 * H + 4 + n
  /\ E \in Seq(WireBytes) /\ Len(E) = Size(r)
  /\ \A i \in 1..L : E[i] = r.line[i]
  /\ E[L + 1] = CR /\ E[L + 2] = LF
  /\ \A h \in 1..H : E[L + 3 * h] = r.headers[h] /\ E[L + 3 * h + 1] = CR /\ E[L + 3 * h + 2] = LF
  /\ E[L + 3 * H + 3] = CR /\ E[L + 3 * H + 4] = LF
  /\ \A i \in 1..Size(r) : E[i] = CR =>
       i = L + 1 \/ i = L + 3 * H + 3 \/ \E h \in 1..H : i = L + 3 * h + 1

\* Every request is encoded so.
LEMMA EncodingFacts ==
  ASSUME NEW r \in Requests, NEW L \in Nat, NEW H \in Nat, NEW n \in Nat, Measures(r, L, H, n)
  PROVE  Encoded(r, Encoding(r), L, H, n)
<1>1. PICK E : E = Encoding(r)
  OBVIOUS
<1>2. PICK s1, s3, s5 : s1 = r.line /\ s3 = HeaderLines(r.headers) /\ s5 = r.body
  OBVIOUS
<1>3. PICK s2 : s2 = <<CR, LF>>
  OBVIOUS
<1>4. /\ s1 \in Seq(WireBytes) /\ s3 \in Seq(WireBytes) /\ s5 \in Seq(WireBytes)
      /\ Len(s1) = L /\ Len(s3) = 3 * H /\ Len(s5) = n
  <2>1. r.line \in Seq(WireBytes) /\ r.headers \in Seq(WireBytes) /\ r.body \in Seq(WireBytes)
    BY RequestTyped
  <2>2. s3 \in Seq(WireBytes) /\ Len(s3) = 3 * Len(r.headers)
    BY <1>2, <2>1, HeaderLinesFacts
  <2> QED
    BY <1>2, <2>1, <2>2 DEF Measures
<1>5. s2 \in Seq(WireBytes) /\ Len(s2) = 2 /\ s2[1] = CR /\ s2[2] = LF
  BY <1>3, RequestTyped
<1>6. PICK a : a = s1 \o s2
  OBVIOUS
<1>7. PICK b : b = a \o s3
  OBVIOUS
<1>8. PICK d : d = b \o s2
  OBVIOUS
<1>9. E = d \o s5
  BY <1>1, <1>2, <1>3, <1>6, <1>7, <1>8 DEF Encoding
<1>10. /\ a \in Seq(WireBytes) /\ Len(a) = L + 2
       /\ \A i \in 1..L : a[i] = s1[i]
       /\ \A i \in (L + 1)..(L + 2) : a[i] = s2[i - L]
  <2>1. /\ a \in Seq(WireBytes) /\ Len(a) = Len(s1) + Len(s2)
        /\ \A i \in 1..Len(s1) : a[i] = s1[i]
        /\ \A i \in (Len(s1) + 1)..(Len(s1) + Len(s2)) : a[i] = s2[i - Len(s1)]
    BY <1>4, <1>5, <1>6, ConcatFacts
  <2> QED
    BY <1>4, <1>5, <1>6, <2>1
<1>11. /\ b \in Seq(WireBytes) /\ Len(b) = L + 2 + 3 * H
       /\ \A i \in 1..(L + 2) : b[i] = a[i]
       /\ \A i \in (L + 3)..(L + 2 + 3 * H) : b[i] = s3[i - (L + 2)]
  <2>1. /\ b \in Seq(WireBytes) /\ Len(b) = Len(a) + Len(s3)
        /\ \A i \in 1..Len(a) : b[i] = a[i]
        /\ \A i \in (Len(a) + 1)..(Len(a) + Len(s3)) : b[i] = s3[i - Len(a)]
    BY <1>4, <1>7, <1>10, ConcatFacts, ZenonT(40)
  <2> QED
    BY <1>4, <1>7, <1>10, <2>1
<1>12. /\ d \in Seq(WireBytes) /\ Len(d) = L + 3 * H + 4
       /\ \A i \in 1..(L + 2 + 3 * H) : d[i] = b[i]
       /\ \A i \in (L + 3 * H + 3)..(L + 3 * H + 4) : d[i] = s2[i - (L + 2 + 3 * H)]
  <2>1. /\ d \in Seq(WireBytes) /\ Len(d) = Len(b) + Len(s2)
        /\ \A i \in 1..Len(b) : d[i] = b[i]
        /\ \A i \in (Len(b) + 1)..(Len(b) + Len(s2)) : d[i] = s2[i - Len(b)]
    BY <1>5, <1>8, <1>11, ConcatFacts, ZenonT(40)
  <2> QED
    BY <1>5, <1>8, <1>11, <2>1
<1>13. /\ E \in Seq(WireBytes) /\ Len(E) = L + 3 * H + 4 + n
       /\ \A i \in 1..(L + 3 * H + 4) : E[i] = d[i]
       /\ \A i \in (L + 3 * H + 5)..(L + 3 * H + 4 + n) : E[i] = s5[i - (L + 3 * H + 4)]
  <2>1. PICK e : e = d \o s5
    OBVIOUS
  <2>2. /\ e \in Seq(WireBytes) /\ Len(e) = Len(d) + Len(s5)
        /\ \A i \in 1..Len(d) : e[i] = d[i]
        /\ \A i \in (Len(d) + 1)..(Len(d) + Len(s5)) : e[i] = s5[i - Len(d)]
    <3>1. d \in Seq(WireBytes) /\ s5 \in Seq(WireBytes)
      BY <1>4, <1>12
    <3> QED
      BY <2>1, <3>1, ConcatFacts
  <2>3. /\ e \in Seq(WireBytes) /\ Len(e) = L + 3 * H + 4 + n
        /\ \A i \in 1..(L + 3 * H + 4) : e[i] = d[i]
        /\ \A i \in (L + 3 * H + 5)..(L + 3 * H + 4 + n) : e[i] = s5[i - (L + 3 * H + 4)]
    BY <1>4, <1>12, <2>2
  <2> QED
    BY <1>9, <2>1, <2>3
<1>14. HeadLen(r) = L + 3 * H + 4 /\ Size(r) = L + 3 * H + 4 + n
  BY <1>2 DEF HeadLen, Size, Measures
<1>15. \A i \in 1..L : E[i] = s1[i]
  <2>1. \A i \in 1..L : i \in 1..(L + 2) /\ i \in 1..(L + 2 + 3 * H) /\ i \in 1..(L + 3 * H + 4)
    OBVIOUS
  <2> QED
    BY <1>10, <1>11, <1>12, <1>13, <2>1
<1>16. E[L + 1] = CR /\ E[L + 2] = LF
  <2>1. /\ L + 1 \in (L + 1)..(L + 2) /\ L + 2 \in (L + 1)..(L + 2)
        /\ L + 1 \in 1..(L + 2) /\ L + 2 \in 1..(L + 2) /\ L + 1 - L = 1 /\ L + 2 - L = 2
        /\ L + 1 \in 1..(L + 2 + 3 * H) /\ L + 2 \in 1..(L + 2 + 3 * H)
        /\ L + 1 \in 1..(L + 3 * H + 4) /\ L + 2 \in 1..(L + 3 * H + 4)
    BY <1>4
  <2> QED
    BY <1>5, <1>10, <1>11, <1>12, <1>13, <2>1
<1>17. \A i \in (L + 3)..(L + 2 + 3 * H) : E[i] = s3[i - (L + 2)]
  BY <1>4, <1>11, <1>12, <1>13
<1>18. \A h \in 1..H : E[L + 3 * h] = r.headers[h] /\ E[L + 3 * h + 1] = CR /\ E[L + 3 * h + 2] = LF
  <2> SUFFICES ASSUME NEW h \in 1..H
               PROVE  E[L + 3 * h] = r.headers[h] /\ E[L + 3 * h + 1] = CR /\ E[L + 3 * h + 2] = LF
    OBVIOUS
  <2>1. s3[3 * h - 2] = r.headers[h] /\ s3[3 * h - 1] = CR /\ s3[3 * h] = LF
    BY <1>2, RequestTyped, HeaderLinesFacts DEF Measures
  <2>2. /\ L + 3 * h \in (L + 3)..(L + 2 + 3 * H) /\ L + 3 * h - (L + 2) = 3 * h - 2
        /\ L + 3 * h + 1 \in (L + 3)..(L + 2 + 3 * H) /\ L + 3 * h + 1 - (L + 2) = 3 * h - 1
        /\ L + 3 * h + 2 \in (L + 3)..(L + 2 + 3 * H) /\ L + 3 * h + 2 - (L + 2) = 3 * h
    BY <1>4
  <2>3. /\ E[L + 3 * h] = s3[L + 3 * h - (L + 2)]
        /\ E[L + 3 * h + 1] = s3[L + 3 * h + 1 - (L + 2)]
        /\ E[L + 3 * h + 2] = s3[L + 3 * h + 2 - (L + 2)]
    BY <1>17, <2>2
  <2> QED
    BY <2>1, <2>2, <2>3
<1>19. E[L + 3 * H + 3] = CR /\ E[L + 3 * H + 4] = LF
  <2>1. /\ L + 3 * H + 3 \in (L + 3 * H + 3)..(L + 3 * H + 4) /\ L + 3 * H + 3 - (L + 2 + 3 * H) = 1
        /\ L + 3 * H + 4 \in (L + 3 * H + 3)..(L + 3 * H + 4) /\ L + 3 * H + 4 - (L + 2 + 3 * H) = 2
        /\ L + 3 * H + 3 \in 1..(L + 3 * H + 4) /\ L + 3 * H + 4 \in 1..(L + 3 * H + 4)
    BY <1>4
  <2> QED
    BY <1>5, <1>12, <1>13, <2>1
<1>20. ASSUME NEW i \in 1..(L + 3 * H + 4 + n), E[i] = CR
       PROVE  i = L + 1 \/ i = L + 3 * H + 3 \/ \E h \in 1..H : i = L + 3 * h + 1
  <2>1. CASE i \in 1..L
    <3>1. s1[i] # CR
      BY <1>2, <2>1, RequestTyped DEF Measures
    <3> QED
      BY <1>15, <1>20, <2>1, <3>1
  <2>2. CASE i \in (L + 3)..(L + 2 + 3 * H)
    <3>1. PICK k \in 1..(3 * H) : k = i - (L + 2) /\ i = L + 2 + k
      BY <1>4, <2>2
    <3>2. PICK h \in 1..H : k \in {3 * h - 2, 3 * h - 1, 3 * h}
      <4>1. \A l \in 1..(3 * Len(r.headers)) : \E h \in 1..Len(r.headers) : l \in {3 * h - 2, 3 * h - 1, 3 * h}
        BY RequestTyped, HeaderLinesFacts
      <4> QED
        BY <3>1, <4>1 DEF Measures
    <3>3. r.headers[h] # CR /\ LF # CR
      BY RequestTyped DEF Measures
    <3>4. \/ k = 3 * h - 2 /\ i = L + 3 * h
          \/ k = 3 * h - 1 /\ i = L + 3 * h + 1
          \/ k = 3 * h /\ i = L + 3 * h + 2
      BY <1>4, <3>1, <3>2
    <3> QED
      BY <1>18, <1>20, <3>3, <3>4
  <2>3. CASE i \in (L + 3 * H + 5)..(L + 3 * H + 4 + n)
    <3>1. PICK k \in 1..n : k = i - (L + 3 * H + 4)
      BY <1>4, <2>3
    <3>2. E[i] = s5[k]
      BY <1>13, <2>3, <3>1
    <3>3. s5[k] # CR
      BY <1>2, RequestTyped DEF Measures
    <3> QED
      BY <1>20, <3>2, <3>3
  <2>4. LF # CR
    BY RequestTyped
  <2>5. i # L + 2 /\ i # L + 3 * H + 4
    BY <1>16, <1>19, <1>20, <2>4
  <2> QED
    BY <1>4, <2>1, <2>2, <2>3, <2>5
<1>21. Encoded(r, E, L, H, n)
  BY <1>2, <1>4, <1>13, <1>14, <1>15, <1>16, <1>18, <1>19, <1>20 DEF Encoded
<1> QED
  BY <1>1, <1>21

-----------------------------------------------------------------------------
(* What is left of the requests of a client.                              *)

\* s is the rest of the encodings of the requests rs, that of rs[q] beginning
\* at index start[q] of s, which is not positive where its first bytes are gone.
Placed(start, s, rs) ==
  /\ start \in [1..(Len(rs) + 1) -> Int]
  /\ start[Len(rs) + 1] = Len(s) + 1
  /\ \A q \in 1..Len(rs) : start[q + 1] = start[q] + Size(rs[q])
  /\ \A q \in 1..(Len(rs) + 1), u \in 1..(Len(rs) + 1) : q < u => start[q] < start[u]
  /\ \A i \in 1..Len(s) : \E q \in 1..Len(rs) :
       start[q] <= i /\ i < start[q + 1] /\ s[i] = Encoding(rs[q])[i - start[q] + 1]

\* The heads of the first w requests are gone.
HeadsGone(start, rs, w) == \A q \in 1..w : start[q] + HeadLen(rs[q]) <= 1

\* The next byte is the first of header h of request q, or of its blank line.
AtHeader(start, rs, q, h) ==
  h \in 1..(Len(rs[q].headers) + 1) /\ start[q] + Len(rs[q].line) + 3 * h = 2

\* Every request takes some bytes.
LEMMA SizePositive ==
  ASSUME NEW r \in Requests
  PROVE  Size(r) \in Nat /\ HeadLen(r) \in Nat /\ HeadLen(r) >= 4 /\ HeadLen(r) <= Size(r)
<1>1. PICK L \in Nat, H \in Nat, n \in Nat : Measures(r, L, H, n)
  BY RequestMeasured
<1>2. HeadLen(r) = L + 3 * H + 4 /\ Size(r) = L + 3 * H + 4 + n
  BY <1>1, EncodingFacts DEF Encoded
<1> QED
  BY <1>2

\* Byte o of request q, if it is not gone, is at start[q] + o - 1.
LEMMA ByteAt ==
  ASSUME NEW s \in Seq(WireBytes), NEW rs \in Seq(Requests), NEW start, Placed(start, s, rs),
         NEW q \in 1..Len(rs), NEW o \in 1..Size(rs[q]), start[q] + o >= 2
  PROVE  start[q] + o - 1 \in 1..Len(s) /\ s[start[q] + o - 1] = Encoding(rs[q])[o]
<1>1. PICK n \in Nat : n = Len(rs)
  OBVIOUS
<1>2. /\ \A v \in 1..(n + 1) : start[v] \in Int
      /\ start[n + 1] = Len(s) + 1
      /\ \A v \in 1..n : start[v + 1] = start[v] + Size(rs[v])
      /\ \A v \in 1..(n + 1), u \in 1..(n + 1) : v < u => start[v] < start[u]
      /\ \A i \in 1..Len(s) : \E v \in 1..n :
           start[v] <= i /\ i < start[v + 1] /\ s[i] = Encoding(rs[v])[i - start[v] + 1]
  BY <1>1 DEF Placed
<1>3. q \in 1..n /\ q \in 1..(n + 1) /\ q + 1 \in 1..(n + 1) /\ n + 1 \in 1..(n + 1)
  BY <1>1
<1>4. Size(rs[q]) \in Nat
  BY SizePositive
<1>5. PICK i \in Int : i = start[q] + o - 1
  BY <1>2, <1>3
<1>6. start[q] <= i /\ i < start[q + 1]
  BY <1>2, <1>3, <1>4, <1>5
<1>7. start[q + 1] <= Len(s) + 1
  BY <1>2, <1>3
<1>8. i \in 1..Len(s)
  BY <1>2, <1>3, <1>5, <1>6, <1>7, SMTT(30)
<1>9. PICK v \in 1..n : start[v] <= i /\ i < start[v + 1] /\ s[i] = Encoding(rs[v])[i - start[v] + 1]
  BY <1>2, <1>8
<1>10. v = q
  <2>1. v \in 1..(n + 1) /\ v + 1 \in 1..(n + 1)
    OBVIOUS
  <2>2. CASE v < q
    <3>1. start[v + 1] <= start[q]
      <4>1. v + 1 = q \/ v + 1 < q
        BY <1>3, <2>2
      <4>2. start[q] \in Int /\ (v + 1 < q => start[v + 1] < start[q])
        BY <1>2, <1>3, <2>1
      <4>3. start[v + 1] \in Int
        BY <1>2, <2>1
      <4> QED
        BY <4>1, <4>2, <4>3
    <3> QED
      BY <1>2, <1>3, <1>6, <1>9, <2>1, <3>1
  <2>3. CASE q < v
    <3>1. start[q + 1] <= start[v]
      <4>1. q + 1 = v \/ q + 1 < v
        BY <1>3, <2>3
      <4>2. start[q + 1] \in Int /\ (q + 1 < v => start[q + 1] < start[v])
        BY <1>2, <1>3, <2>1
      <4>3. start[v] \in Int
        BY <1>2, <2>1
      <4> QED
        BY <4>1, <4>2, <4>3
    <3> QED
      BY <1>2, <1>3, <1>6, <1>9, <2>1, <3>1
  <2> QED
    BY <1>3, <2>2, <2>3
<1>11. i - start[q] + 1 = o
  BY <1>2, <1>3, <1>5
<1> QED
  BY <1>5, <1>8, <1>9, <1>10, <1>11

\* Byte i of s is byte o of request q.
Owns(start, s, rs, i, q, o) == start[q] \in Int /\ start[q] + o = i + 1 /\ s[i] = Encoding(rs[q])[o]

\* A byte that is not gone belongs to some request.
LEMMA OwnerOf ==
  ASSUME NEW s \in Seq(WireBytes), NEW rs \in Seq(Requests), NEW start, Placed(start, s, rs),
         NEW i \in 1..Len(s)
  PROVE  \E q \in 1..Len(rs) : \E o \in 1..Size(rs[q]) : Owns(start, s, rs, i, q, o)
<1>1. PICK n \in Nat : n = Len(rs)
  OBVIOUS
<1>2. PICK q \in 1..n : start[q] <= i /\ i < start[q + 1] /\ s[i] = Encoding(rs[q])[i - start[q] + 1]
  BY <1>1 DEF Placed
<1>3. start[q] \in Int /\ start[q + 1] = start[q] + Size(rs[q])
  <2>1. start \in [1..(n + 1) -> Int] /\ q \in 1..(n + 1)
    BY <1>1 DEF Placed
  <2> QED
    BY <1>1, <2>1 DEF Placed
<1>4. Size(rs[q]) \in Nat
  BY <1>1, SizePositive
<1>5. PICK o \in 1..Size(rs[q]) : o = i - start[q] + 1
  BY <1>2, <1>3, <1>4
<1>6. start[q] + o = i + 1
  BY <1>3, <1>5
<1>7. Owns(start, s, rs, i, q, o)
  BY <1>2, <1>3, <1>5, <1>6 DEF Owns
<1> QED
  BY <1>1, <1>7

\* The first k bytes go.
Shifted(start, k) == [q \in DOMAIN start |-> start[q] - k]

\* What is left is placed k lower.
LEMMA ShiftPlaced ==
  ASSUME NEW s \in Seq(WireBytes), NEW rs \in Seq(Requests), NEW start, Placed(start, s, rs),
         NEW k \in 0..Len(s), NEW t \in Seq(WireBytes), Len(t) = Len(s) - k,
         \A i \in 1..Len(t) : t[i] = s[i + k]
  PROVE  /\ Placed(Shifted(start, k), t, rs)
         /\ \A q \in 1..(Len(rs) + 1) : start[q] \in Int /\ Shifted(start, k)[q] = start[q] - k
<1>1. PICK n \in Nat : n = Len(rs)
  OBVIOUS
<1>2. PICK l \in Nat : l = Len(s) /\ k \in 0..l /\ k \in Nat /\ Len(t) = l - k
  OBVIOUS
<1>3. /\ start \in [1..(n + 1) -> Int]
      /\ start[n + 1] = l + 1
      /\ \A v \in 1..n : start[v + 1] = start[v] + Size(rs[v])
      /\ \A v \in 1..(n + 1), u \in 1..(n + 1) : v < u => start[v] < start[u]
      /\ \A i \in 1..l : \E v \in 1..n :
           start[v] <= i /\ i < start[v + 1] /\ s[i] = Encoding(rs[v])[i - start[v] + 1]
  BY <1>1, <1>2 DEF Placed
<1>4. PICK z : z = Shifted(start, k)
  OBVIOUS
<1>5. z \in [1..(n + 1) -> Int] /\ \A v \in 1..(n + 1) : z[v] = start[v] - k /\ start[v] \in Int
  <2>1. z = [v \in 1..(n + 1) |-> start[v] - k] /\ \A v \in 1..(n + 1) : start[v] \in Int
    BY <1>3, <1>4 DEF Shifted
  <2>2. \A v \in 1..(n + 1) : start[v] - k \in Int
    BY <1>2, <2>1
  <2> QED
    BY <2>1, <2>2
<1>6. z[n + 1] = Len(t) + 1
  BY <1>2, <1>3, <1>5
<1>7. \A v \in 1..n : z[v + 1] = z[v] + Size(rs[v])
  <2> SUFFICES ASSUME NEW v \in 1..n
               PROVE  z[v + 1] = z[v] + Size(rs[v])
    OBVIOUS
  <2>1. v \in 1..(n + 1) /\ v + 1 \in 1..(n + 1)
    OBVIOUS
  <2>2. Size(rs[v]) \in Nat
    BY <1>1, SizePositive
  <2>3. start[v + 1] = start[v] + Size(rs[v]) /\ z[v + 1] = start[v + 1] - k /\ z[v] = start[v] - k
    BY <1>3, <1>5, <2>1
  <2> QED
    BY <1>5, <2>1, <2>2, <2>3
<1>8. \A v \in 1..(n + 1), u \in 1..(n + 1) : v < u => z[v] < z[u]
  BY <1>3, <1>5
<1>9. \A i \in 1..Len(t) : \E v \in 1..n :
        z[v] <= i /\ i < z[v + 1] /\ t[i] = Encoding(rs[v])[i - z[v] + 1]
  <2> SUFFICES ASSUME NEW i \in 1..Len(t)
               PROVE  \E v \in 1..n :
                        z[v] <= i /\ i < z[v + 1] /\ t[i] = Encoding(rs[v])[i - z[v] + 1]
    OBVIOUS
  <2>1. PICK j \in 1..l : i \in Nat /\ j = i + k /\ t[i] = s[j]
    BY <1>2
  <2>2. PICK v \in 1..n : start[v] <= j /\ j < start[v + 1] /\ s[j] = Encoding(rs[v])[j - start[v] + 1]
    BY <1>3
  <2>3. v \in 1..(n + 1) /\ v + 1 \in 1..(n + 1)
    OBVIOUS
  <2>4. z[v] = start[v] - k /\ z[v + 1] = start[v + 1] - k /\ start[v] \in Int /\ start[v + 1] \in Int
    BY <1>5, <2>3
  <2>5. z[v] <= i /\ i < z[v + 1] /\ i - z[v] + 1 = j - start[v] + 1
    <3>1. k \in Int /\ i \in Int /\ j \in Int /\ j - k = i
      BY <1>2, <2>1
    <3>2. PICK a \in Int, b \in Int : a = start[v] /\ b = start[v + 1]
      BY <2>4
    <3>3. a <= j /\ j < b
      BY <2>2, <3>2
    <3>4. a - k <= i /\ i < b - k /\ i - (a - k) + 1 = j - a + 1
      BY <3>1, <3>3
    <3> QED
      BY <2>4, <3>2, <3>4
  <2> QED
    BY <2>1, <2>2, <2>5
<1>10. Placed(z, t, rs)
  BY <1>1, <1>5, <1>6, <1>7, <1>8, <1>9 DEF Placed
<1> QED
  BY <1>1, <1>4, <1>5, <1>10

\* Another request is asked.
Extended(start, s, rs, r) ==
  [q \in 1..(Len(rs) + 2) |-> IF q <= Len(rs) + 1 THEN start[q] ELSE Len(s) + Size(r) + 1]

\* It is placed behind the others.
LEMMA ExtendPlaced ==
  ASSUME NEW s \in Seq(WireBytes), NEW rs \in Seq(Requests), NEW start, Placed(start, s, rs),
         NEW r \in Requests
  PROVE  /\ Placed(Extended(start, s, rs, r), s \o Encoding(r), Append(rs, r))
         /\ \A q \in 1..(Len(rs) + 1) : Extended(start, s, rs, r)[q] = start[q]
<1>1. PICK n \in Nat : n = Len(rs)
  OBVIOUS
<1>2. PICK l \in Nat : l = Len(s)
  OBVIOUS
<1>3. /\ start \in [1..(n + 1) -> Int]
      /\ start[n + 1] = l + 1
      /\ \A v \in 1..n : start[v + 1] = start[v] + Size(rs[v])
      /\ \A v \in 1..(n + 1), u \in 1..(n + 1) : v < u => start[v] < start[u]
      /\ \A i \in 1..l : \E v \in 1..n :
           start[v] <= i /\ i < start[v + 1] /\ s[i] = Encoding(rs[v])[i - start[v] + 1]
  BY <1>1, <1>2 DEF Placed
<1>4. PICK e : e = Encoding(r)
  OBVIOUS
<1>5. PICK m \in Nat : m = Size(r) /\ m >= 4
  BY SizePositive
<1>6. e \in Seq(WireBytes) /\ Len(e) = m
  <2>1. PICK L \in Nat, H \in Nat, k \in Nat : Measures(r, L, H, k)
    BY RequestMeasured
  <2> QED
    BY <1>4, <1>5, <2>1, EncodingFacts DEF Encoded
<1>7. PICK t : t = s \o e
  OBVIOUS
<1>8. /\ t \in Seq(WireBytes) /\ Len(t) = l + m
      /\ \A i \in 1..l : t[i] = s[i]
      /\ \A i \in (l + 1)..(l + m) : t[i] = e[i - l]
  <2>1. /\ t \in Seq(WireBytes) /\ Len(t) = Len(s) + Len(e)
        /\ \A i \in 1..Len(s) : t[i] = s[i]
        /\ \A i \in (Len(s) + 1)..(Len(s) + Len(e)) : t[i] = e[i - Len(s)]
    BY <1>6, <1>7, ConcatFacts
  <2> QED
    BY <1>2, <1>6, <2>1
<1>9. PICK us : us = Append(rs, r)
  OBVIOUS
<1>10. us \in Seq(Requests) /\ Len(us) = n + 1 /\ us[n + 1] = r /\ \A v \in 1..n : us[v] = rs[v]
  BY <1>1, <1>9, AppendFacts
<1>11. PICK z : z = Extended(start, s, rs, r)
  OBVIOUS
<1>12. /\ z \in [1..(n + 2) -> Int] /\ z[n + 2] = l + m + 1
       /\ \A v \in 1..(n + 1) : z[v] = start[v] /\ start[v] \in Int
  <2>1. z = [v \in 1..(n + 2) |-> IF v <= n + 1 THEN start[v] ELSE l + m + 1]
    BY <1>1, <1>2, <1>5, <1>11 DEF Extended
  <2>2. \A v \in 1..(n + 2) : v <= n + 1 => start[v] \in Int
    BY <1>3
  <2> QED
    BY <1>3, <2>1, <2>2
<1>13. \A v \in 1..(n + 1) : z[v + 1] = z[v] + Size(us[v])
  <2> SUFFICES ASSUME NEW v \in 1..(n + 1)
               PROVE  z[v + 1] = z[v] + Size(us[v])
    OBVIOUS
  <2>1. CASE v \in 1..n
    BY <1>3, <1>10, <1>12, <2>1
  <2>2. CASE v = n + 1
    <3>1. n + 1 \in 1..(n + 1) /\ v + 1 = n + 2
      BY <2>2
    <3>2. z[v] = l + 1
      BY <1>3, <1>12, <2>2, <3>1
    <3>3. z[v + 1] = l + m + 1
      BY <1>12, <3>1
    <3>4. Size(us[v]) = m
      BY <1>5, <1>10, <2>2
    <3> QED
      BY <3>2, <3>3, <3>4
  <2> QED
    BY <2>1, <2>2
<1>14. ASSUME NEW v \in 1..(n + 2), NEW u \in 1..(n + 2), v < u
       PROVE  z[v] < z[u]
  <2>1. CASE u \in 1..(n + 1)
    BY <1>3, <1>12, <1>14, <2>1
  <2>2. CASE u = n + 2
    <3>1. v \in 1..(n + 1) /\ n + 1 \in 1..(n + 1) /\ (v = n + 1 \/ v < n + 1)
      BY <1>14, <2>2
    <3>2. z[v] = start[v] /\ start[v] \in Int /\ start[v] <= l + 1
      BY <1>3, <1>12, <3>1
    <3> QED
      BY <1>5, <1>12, <2>2, <3>2
  <2> QED
    BY <2>1, <2>2
<1>15. ASSUME NEW i \in 1..(l + m)
       PROVE  \E v \in 1..(n + 1) : z[v] <= i /\ i < z[v + 1] /\ t[i] = Encoding(us[v])[i - z[v] + 1]
  <2>1. CASE i \in 1..l
    <3>1. PICK v \in 1..n :
            start[v] <= i /\ i < start[v + 1] /\ s[i] = Encoding(rs[v])[i - start[v] + 1]
      BY <1>3, <2>1
    <3>2. v \in 1..(n + 1) /\ v + 1 \in 1..(n + 1)
      OBVIOUS
    <3>3. z[v] = start[v] /\ z[v + 1] = start[v + 1] /\ us[v] = rs[v] /\ t[i] = s[i]
      BY <1>8, <1>10, <1>12, <2>1, <3>2
    <3> QED
      BY <3>1, <3>2, <3>3
  <2>2. CASE i \in (l + 1)..(l + m)
    <3>1. n + 1 \in 1..(n + 1) /\ n + 1 + 1 = n + 2
      OBVIOUS
    <3>2. z[n + 1] = l + 1 /\ z[n + 1 + 1] = l + m + 1
      BY <1>3, <1>12, <3>1
    <3>3. i - (l + 1) + 1 = i - l
      BY <2>2
    <3>4. t[i] = Encoding(us[n + 1])[i - z[n + 1] + 1]
      BY <1>4, <1>8, <1>10, <2>2, <3>2, <3>3
    <3>5. z[n + 1] <= i /\ i < z[n + 1 + 1]
      BY <2>2, <3>2
    <3> QED
      BY <3>1, <3>4, <3>5
  <2> QED
    BY <2>1, <2>2
<1>16. Placed(z, t, us)
  <2>1. n + 1 + 1 = n + 2
    OBVIOUS
  <2> QED
    BY <1>8, <1>10, <1>12, <1>13, <1>14, <1>15, <2>1 DEF Placed
<1> QED
  BY <1>1, <1>4, <1>7, <1>9, <1>11, <1>12, <1>16

\* Nothing is asked yet.
LEMMA NothingPlaced == Placed([q \in 1..1 |-> 1], <<>>, <<>>)
<1>1. PICK z : z = [q \in 1..1 |-> 1]
  OBVIOUS
<1>2. z \in [1..1 -> Int] /\ z[1] = 1
  BY <1>1
<1>3. Len(<<>>) = 0
  OBVIOUS
<1>4. Placed(z, <<>>, <<>>)
  BY <1>2, <1>3 DEF Placed
<1> QED
  BY <1>1, <1>4

-----------------------------------------------------------------------------
(* The parser on the content of the buffer.                                *)

\* The first CR LF of s is at m; there is none.
LineEnd(s, i) == s[i] = CR /\ s[i + 1] = LF
FirstLine(s, m) ==
  m \in 1..(Len(s) - 1) /\ LineEnd(s, m) /\ \A i \in 1..(m - 1) : ~LineEnd(s, i)
NoLine(s) == \A i \in 1..(Len(s) - 1) : ~LineEnd(s, i)

\* findCRLF() finds the first CR LF of the content.
LEMMA FindEffect ==
  ASSUME NEW B, NEW b, IsBuffer(b, B)
  PROVE  \/ FindCRLF(b) = NotFound /\ NoLine(Content(b))
         \/ \E m \in Nat : /\ FirstLine(Content(b), m) /\ FindCRLF(b) # NotFound
                           /\ FindCRLF(b) - b.reader = m - 1 /\ FindCRLF(b) \in Int
<1>1. PICK s : s = Content(b)
  OBVIOUS
<1>2. PICK r \in Nat, w \in Nat : r = b.reader /\ w = b.writer /\ r <= w
  BY DEF IsBuffer
<1>3. s \in Seq(B) /\ Len(s) = w - r /\ \A i \in 1..(w - r) : s[i] = b.data[r + i - 1]
  BY <1>1, <1>2, ContentTyped DEF ReadableBytes
<1>4. PICK T : T = {i \in r..(w - 2) : b.data[i] = CR /\ b.data[i + 1] = LF}
  OBVIOUS
<1>5. FindCRLF(b) = IF T = {} THEN NotFound ELSE CHOOSE i \in T : \A j \in T : i <= j
  BY <1>2, <1>4 DEF FindCRLF
<1>6. \A i \in 1..(Len(s) - 1) : LineEnd(s, i) <=> r + i - 1 \in T
  <2> SUFFICES ASSUME NEW i \in 1..(Len(s) - 1)
               PROVE  LineEnd(s, i) <=> r + i - 1 \in T
    OBVIOUS
  <2>1. /\ i \in 1..(w - r) /\ i + 1 \in 1..(w - r) /\ r + i - 1 \in r..(w - 2)
        /\ r + (i + 1) - 1 = (r + i - 1) + 1
    BY <1>2, <1>3, SMTT(30)
  <2>2. s[i] = b.data[r + i - 1] /\ s[i + 1] = b.data[r + (i + 1) - 1]
    BY <1>3, <2>1
  <2> QED
    BY <1>4, <2>1, <2>2 DEF LineEnd
<1>7. CASE T = {}
  BY <1>1, <1>5, <1>6, <1>7 DEF NoLine
<1>8. CASE T # {}
  <2>1. T \in SUBSET Nat /\ \A i \in T : i \in r..(w - 2)
    BY <1>2, <1>4
  <2>2. \E x \in T : \A y \in T : x <= y
    BY <1>8, <2>1, Smallest
  <2>3. PICK x : x = FindCRLF(b)
    OBVIOUS
  <2>4. x \in T /\ \A y \in T : x <= y
    BY <1>5, <1>8, <2>2, <2>3
  <2>5. PICK m \in Nat : m \in 1..(w - r - 1) /\ r + m - 1 = x /\ x \in Nat /\ x - r = m - 1
    <3>1. x \in r..(w - 2)
      BY <2>1, <2>4
    <3>2. \A y \in r..(w - 2) : /\ y - r + 1 \in 1..(w - r - 1) /\ r + (y - r + 1) - 1 = y
                               /\ y \in Nat /\ y - r + 1 \in Nat /\ y - r = (y - r + 1) - 1
      OBVIOUS
    <3> QED
      BY <3>1, <3>2
  <2>6. m \in 1..(Len(s) - 1)
    BY <1>3, <2>5
  <2>7. LineEnd(s, m)
    BY <1>6, <2>4, <2>5, <2>6
  <2>8. ASSUME NEW i \in 1..(m - 1)
        PROVE  ~LineEnd(s, i)
    <3>1. i \in 1..(w - r - 1) /\ ~(r + m - 1 <= r + i - 1)
      BY <2>5
    <3>2. i \in 1..(Len(s) - 1) /\ ~(x <= r + i - 1)
      BY <1>3, <2>5, <3>1
    <3> QED
      BY <1>6, <2>4, <3>2
  <2>9. x # NotFound
    BY <2>5 DEF NotFound
  <2> QED
    BY <1>1, <1>2, <2>3, <2>5, <2>6, <2>7, <2>8, <2>9 DEF FirstLine
<1> QED
  BY <1>7, <1>8

\* The result of an iteration: the context x, a buffer with content s, ok and hasMore.
Outcome(p, x, s, ok, more) ==
  /\ p.context = x /\ IsBuffer(p.buf, WireBytes) /\ Content(p.buf) = s
  /\ p.ok = ok /\ p.hasMore = more

\* What the parser has after the line that ends at m.
Behind(s, m) == SubSeq(s, m + 2, Len(s))

\* retrieveUntil(crlf + 2) drops the line and its CR LF.
LEMMA LineRetrieved ==
  ASSUME NEW b, IsBuffer(b, WireBytes), NEW m \in Nat, FirstLine(Content(b), m),
         NEW at \in Int, at - b.reader = m - 1
  PROVE  /\ IsBuffer(RetrieveUntil(b, at + 2), WireBytes)
         /\ Content(RetrieveUntil(b, at + 2)) = Behind(Content(b), m)
         /\ LineOf(b, at) = SubSeq(Content(b), 1, m - 1)
<1>1. b.reader \in Nat /\ Len(Content(b)) = ReadableBytes(b) /\ ReadableBytes(b) \in Nat
  BY ContentTyped DEF IsBuffer
<1>2. m + 1 \in 0..ReadableBytes(b) /\ (at + 2) - b.reader = m + 1
  BY <1>1 DEF FirstLine
<1>3. PICK n : n = m + 1 /\ n \in 0..ReadableBytes(b)
  BY <1>2
<1>4. RetrieveUntil(b, at + 2) = Retrieve(b, n)
  <2>1. (at + 2) - b.reader = n
    BY <1>2, <1>3
  <2> QED
    BY <2>1 DEF RetrieveUntil
<1>5. IsBuffer(Retrieve(b, n), WireBytes) /\ Content(Retrieve(b, n)) = SubSeq(Content(b), n + 1, Len(Content(b)))
  BY <1>3, RetrieveEffect
<1>6. n + 1 = m + 2
  BY <1>3
<1> QED
  BY <1>4, <1>5, <1>6 DEF Behind, LineOf

\* An iteration at the request line.
LEMMA LineParsed ==
  ASSUME NEW k, IsContext(k), NEW b, IsBuffer(b, WireBytes), k.state = "kExpectRequestLine"
  PROVE  \/ NoLine(Content(b)) /\ Outcome(Iteration(k, b), k, Content(b), TRUE, FALSE)
         \/ \E m \in Nat : \E r :
              /\ FirstLine(Content(b), m)
              /\ r = ProcessRequestLine(k.request, SubSeq(Content(b), 1, m - 1))
              /\ IF r.ok
                 THEN Outcome(Iteration(k, b), [state |-> "kExpectHeaders", request |-> r.request],
                              Behind(Content(b), m), TRUE, TRUE)
                 ELSE Outcome(Iteration(k, b), [state |-> "kExpectRequestLine", request |-> r.request],
                              Content(b), FALSE, FALSE)
<1>1. PICK s0, r0 : s0 = k.state /\ r0 = k.request /\ k = [state |-> s0, request |-> r0]
  BY DEF IsContext
<1>2. PICK q : q = [context |-> k, buf |-> b, ok |-> TRUE, hasMore |-> TRUE]
  OBVIOUS
<1>3. q.buf = b /\ q.context = k
  BY <1>2
<1>4. PICK p : p = Iteration(k, b)
  OBVIOUS
<1>5. p = OnRequestLine(q)
  BY <1>2, <1>4 DEF Iteration
<1>6. PICK c, r, u : /\ c = FindCRLF(b) /\ u = RetrieveUntil(b, c + 2)
                     /\ r = ProcessRequestLine(k.request, LineOf(b, c))
  OBVIOUS
<1>7. PICK rr : rr = r.request
  OBVIOUS
<1>8. p = CASE c = NotFound -> [q EXCEPT !.hasMore = FALSE]
            [] c # NotFound /\ ~r.ok ->
                 [q EXCEPT !.context.request = r.request, !.ok = FALSE, !.hasMore = FALSE]
            [] OTHER -> [q EXCEPT !.context = [state |-> "kExpectHeaders", request |-> r.request],
                                  !.buf = u]
  BY <1>3, <1>5, <1>6 DEF OnRequestLine
<1>9. CASE c = NotFound
  <2>1. p = [context |-> k, buf |-> b, ok |-> TRUE, hasMore |-> FALSE]
    BY <1>2, <1>8, <1>9
  <2>2. NoLine(Content(b))
    BY <1>6, <1>9, FindEffect
  <2> QED
    BY <1>4, <2>1, <2>2 DEF Outcome
<1>10. CASE c # NotFound
  <2>1. PICK m \in Nat : FirstLine(Content(b), m) /\ c - b.reader = m - 1 /\ c \in Int
    BY <1>6, <1>10, FindEffect
  <2>2. /\ IsBuffer(u, WireBytes) /\ Content(u) = Behind(Content(b), m)
        /\ LineOf(b, c) = SubSeq(Content(b), 1, m - 1)
    BY <1>6, <2>1, LineRetrieved
  <2>3. r = ProcessRequestLine(k.request, SubSeq(Content(b), 1, m - 1))
    BY <1>6, <2>2
  <2>4. CASE r.ok
    <3>1. PICK x : x = [state |-> "kExpectHeaders", request |-> rr]
      OBVIOUS
    <3>2. p = [[q EXCEPT !.context = x] EXCEPT !.buf = u]
      BY <1>7, <1>8, <1>10, <2>4, <3>1
    <3>3. p = [context |-> x, buf |-> u, ok |-> TRUE, hasMore |-> TRUE]
      BY <1>2, <3>2
    <3>4. Outcome(p, x, Behind(Content(b), m), TRUE, TRUE)
      BY <2>2, <3>3 DEF Outcome
    <3> QED
      BY <1>4, <1>7, <2>1, <2>3, <2>4, <3>1, <3>4
  <2>5. CASE ~r.ok
    <3>1. PICK x : x = [state |-> "kExpectRequestLine", request |-> rr]
      OBVIOUS
    <3>2. p = [[[q EXCEPT !.context.request = rr] EXCEPT !.ok = FALSE] EXCEPT !.hasMore = FALSE]
      BY <1>7, <1>8, <1>10, <2>5
    <3>3. p = [context |-> x, buf |-> b, ok |-> FALSE, hasMore |-> FALSE]
      BY <1>1, <1>2, <3>1, <3>2
    <3>4. Outcome(p, x, Content(b), FALSE, FALSE)
      BY <3>3 DEF Outcome
    <3> QED
      BY <1>4, <1>7, <2>1, <2>3, <2>5, <3>1, <3>4
  <2> QED
    BY <2>4, <2>5
<1> QED
  BY <1>9, <1>10

\* An iteration at the headers.
LEMMA HeaderParsed ==
  ASSUME NEW k, IsContext(k), NEW b, IsBuffer(b, WireBytes), k.state = "kExpectHeaders"
  PROVE  \/ NoLine(Content(b)) /\ Outcome(Iteration(k, b), k, Content(b), TRUE, FALSE)
         \/ \E m \in Nat : \E line :
              /\ FirstLine(Content(b), m)
              /\ line = SubSeq(Content(b), 1, m - 1)
              /\ IF \E i \in DOMAIN line : line[i].kind = "header"
                 THEN Outcome(Iteration(k, b),
                              [state |-> "kExpectHeaders",
                               request |-> AddHeader(k.request, CHOOSE w \in ToSet(line) : w.kind = "header")],
                              Behind(Content(b), m), TRUE, TRUE)
                 ELSE Outcome(Iteration(k, b), [state |-> "kExpectBody", request |-> k.request],
                              Behind(Content(b), m), TRUE, TRUE)
<1>1. PICK s0, r0 : s0 = "kExpectHeaders" /\ r0 = k.request /\ k = [state |-> s0, request |-> r0]
  BY DEF IsContext
<1>2. PICK q : q = [context |-> k, buf |-> b, ok |-> TRUE, hasMore |-> TRUE]
  OBVIOUS
<1>3. q.buf = b /\ q.context = k
  BY <1>2
<1>4. PICK p : p = Iteration(k, b)
  OBVIOUS
<1>5. p = OnHeader(q)
  BY <1>2, <1>4 DEF Iteration
<1>6. PICK c, line, u, a : /\ c = FindCRLF(b) /\ u = RetrieveUntil(b, c + 2) /\ line = LineOf(b, c)
                           /\ a = AddHeader(k.request, CHOOSE w \in ToSet(line) : w.kind = "header")
  OBVIOUS
<1>7. p = CASE c = NotFound -> [q EXCEPT !.hasMore = FALSE]
            [] c # NotFound /\ \E i \in DOMAIN line : line[i].kind = "header" ->
                 [q EXCEPT !.context.request = a, !.buf = u]
            [] OTHER -> [q EXCEPT !.context.state = "kExpectBody", !.buf = u]
  <2>1. p = LET crlf == FindCRLF(q.buf)
                ln == LineOf(q.buf, crlf)
            IN  CASE crlf = NotFound -> [q EXCEPT !.hasMore = FALSE]
                  [] crlf # NotFound /\ \E i \in DOMAIN ln : ln[i].kind = "header" ->
                       [q EXCEPT !.context.request =
                                    AddHeader(q.context.request, CHOOSE w \in ToSet(ln) : w.kind = "header"),
                                 !.buf = RetrieveUntil(q.buf, crlf + 2)]
                  [] OTHER -> [q EXCEPT !.context.state = "kExpectBody",
                                        !.buf = RetrieveUntil(q.buf, crlf + 2)]
    BY <1>5 DEF OnHeader
  <2> QED
    BY <1>3, <1>6, <2>1
<1>8. CASE c = NotFound
  <2>1. p = [context |-> k, buf |-> b, ok |-> TRUE, hasMore |-> FALSE]
    BY <1>2, <1>7, <1>8
  <2>2. NoLine(Content(b))
    BY <1>6, <1>8, FindEffect
  <2> QED
    BY <1>4, <2>1, <2>2 DEF Outcome
<1>9. CASE c # NotFound
  <2>1. PICK m \in Nat : FirstLine(Content(b), m) /\ c - b.reader = m - 1 /\ c \in Int
    BY <1>6, <1>9, FindEffect
  <2>2. /\ IsBuffer(u, WireBytes) /\ Content(u) = Behind(Content(b), m)
        /\ line = SubSeq(Content(b), 1, m - 1)
    BY <1>6, <2>1, LineRetrieved
  <2>3. CASE \E i \in DOMAIN line : line[i].kind = "header"
    <3>1. PICK x : x = [state |-> "kExpectHeaders", request |-> a]
      OBVIOUS
    <3>2. p = [[q EXCEPT !.context.request = a] EXCEPT !.buf = u]
      BY <1>7, <1>9, <2>3
    <3>3. p = [context |-> x, buf |-> u, ok |-> TRUE, hasMore |-> TRUE]
      BY <1>1, <1>2, <3>1, <3>2
    <3>4. Outcome(p, x, Behind(Content(b), m), TRUE, TRUE)
      BY <2>2, <3>3 DEF Outcome
    <3> QED
      BY <1>4, <1>6, <2>1, <2>2, <2>3, <3>1, <3>4
  <2>4. CASE ~\E i \in DOMAIN line : line[i].kind = "header"
    <3>1. PICK x : x = [state |-> "kExpectBody", request |-> r0]
      OBVIOUS
    <3>2. p = [[q EXCEPT !.context.state = "kExpectBody"] EXCEPT !.buf = u]
      BY <1>7, <1>9, <2>4
    <3>3. p = [context |-> x, buf |-> u, ok |-> TRUE, hasMore |-> TRUE]
      BY <1>1, <1>2, <3>1, <3>2
    <3>4. Outcome(p, x, Behind(Content(b), m), TRUE, TRUE)
      BY <2>2, <3>3 DEF Outcome
    <3> QED
      BY <1>1, <1>4, <2>1, <2>2, <2>4, <3>1, <3>4
  <2> QED
    BY <2>3, <2>4
<1> QED
  BY <1>8, <1>9

\* An iteration at the body.
LEMMA BodyParsed ==
  ASSUME NEW k, IsContext(k), NEW b, IsBuffer(b, WireBytes), k.state = "kExpectBody"
  PROVE  Outcome(Iteration(k, b),
                 [state |-> "kGotAll", request |-> [k.request EXCEPT !.body = Content(b)]],
                 <<>>, TRUE, FALSE)
<1>1. PICK q : q = [context |-> k, buf |-> b, ok |-> TRUE, hasMore |-> TRUE]
  OBVIOUS
<1>2. q.buf = b /\ q.context = k
  BY <1>1
<1>3. PICK p : p = Iteration(k, b)
  OBVIOUS
<1>4. p = OnBody(q)
  BY <1>1, <1>3 DEF Iteration
<1>5. PICK r, u, x : /\ r = [k.request EXCEPT !.body = Content(b)] /\ u = RetrieveAll(b)
                     /\ x = [state |-> "kGotAll", request |-> r]
  OBVIOUS
<1>6. p = [[[q EXCEPT !.context = x] EXCEPT !.buf = u] EXCEPT !.hasMore = FALSE]
  BY <1>2, <1>4, <1>5 DEF OnBody
<1>7. p = [context |-> x, buf |-> u, ok |-> TRUE, hasMore |-> FALSE]
  BY <1>1, <1>6
<1>8. IsBuffer(u, WireBytes) /\ Content(u) = <<>>
  <2>1. ReadableBytes(b) \in Nat /\ Len(Content(b)) = ReadableBytes(b) /\ Content(b) \in Seq(WireBytes)
    BY ContentTyped
  <2>2. PICK n : n = ReadableBytes(b) /\ n \in 0..ReadableBytes(b)
    BY <2>1
  <2>3. u = Retrieve(b, n)
    BY <1>5, <2>1, <2>2 DEF Retrieve
  <2>4. IsBuffer(u, WireBytes) /\ ReadableBytes(u) = 0
    BY <2>1, <2>2, <2>3, RetrieveEffect
  <2>5. Content(u) \in Seq(WireBytes) /\ Len(Content(u)) = 0
    BY <2>4, ContentTyped
  <2> QED
    BY <2>4, <2>5
<1> QED
  BY <1>3, <1>5, <1>7, <1>8 DEF Outcome

-----------------------------------------------------------------------------
(* The request that the parser fills.                                      *)

IsRequest(q) ==
  q = [method |-> q.method, version |-> q.version, path |-> q.path, query |-> q.query,
       headers |-> q.headers, body |-> q.body]

WellFormed(line) ==
  /\ Len(line) = 3
  /\ \E m \in Methods : line[1] = Word(m)
  /\ \E v \in Versions : line[3] = Word(v)

\* processRequestLine() takes the well-formed lines, and no other.
LEMMA LineProcessed ==
  ASSUME NEW request, IsRequest(request), NEW line \in Seq(WireBytes),
         NEW r, r = ProcessRequestLine(request, line)
  PROVE  /\ r.ok \in BOOLEAN /\ (r.ok <=> WellFormed(line))
         /\ r.ok => /\ IsRequest(r.request)
                    /\ r.request.version = line[3].text
                    /\ line[2].kind = "target" => r.request.path = line[2].path
                    /\ r.request.headers = request.headers
<1>1. PICK me, wm, wt, known :
        /\ me = IF line = <<>> THEN "kInvalid" ELSE MethodOf(line[1])
        /\ wm = [request EXCEPT !.method = me]
        /\ wt = SetTarget(wm, line[2])
        /\ known = (Len(line) = 3 /\ \E v \in Versions : line[3] = Word(v))
  OBVIOUS
<1>2. PICK n \in Nat : n = Len(line)
  OBVIOUS
<1>3. r = CASE n < 2 -> [ok |-> FALSE, request |-> request]
            [] n >= 2 /\ (me = "kInvalid" \/ n = 2) -> [ok |-> FALSE, request |-> wm]
            [] n > 2 /\ me # "kInvalid" /\ ~known -> [ok |-> FALSE, request |-> wt]
            [] OTHER -> [ok |-> TRUE, request |-> [wt EXCEPT !.version = line[3].text]]
  BY <1>1, <1>2 DEF ProcessRequestLine
<1>4. line # <<>> => (me # "kInvalid" <=> \E m \in Methods : line[1] = Word(m))
  BY <1>1 DEF MethodOf, Methods
<1>5. n > 0 => line # <<>>
  BY <1>2
<1>6. WellFormed(line) <=> n > 2 /\ me # "kInvalid" /\ known
  <2>1. PICK M, V : /\ M = (\E m \in Methods : line[1] = Word(m))
                    /\ V = (\E v \in Versions : line[3] = Word(v))
    OBVIOUS
  <2>2. WellFormed(line) <=> n = 3 /\ M /\ V
    BY <1>2, <2>1 DEF WellFormed
  <2>3. known <=> n = 3 /\ V
    BY <1>1, <1>2, <2>1
  <2>4. n = 3 => (me # "kInvalid" <=> M)
    BY <1>4, <1>5, <2>1
  <2>5. n = 3 => n > 2
    OBVIOUS
  <2> QED
    BY <2>2, <2>3, <2>4, <2>5
<1>7. CASE n > 2 /\ me # "kInvalid" /\ known
  <2>1. r = [ok |-> TRUE, request |-> [wt EXCEPT !.version = line[3].text]]
    BY <1>2, <1>3, <1>7
  <2>2. PICK a1, a2, a3, a4, a5, a6 :
          request = [method |-> a1, version |-> a2, path |-> a3, query |-> a4, headers |-> a5, body |-> a6]
    BY DEF IsRequest
  <2>3. wm = [method |-> me, version |-> a2, path |-> a3, query |-> a4, headers |-> a5, body |-> a6]
    BY <1>1, <2>2
  <2>4. PICK path, query :
          /\ wt = [method |-> me, version |-> a2, path |-> path, query |-> query, headers |-> a5, body |-> a6]
          /\ line[2].kind = "target" => path = line[2].path
    <3>1. PICK w : w = line[2]
      OBVIOUS
    <3>2. wt = CASE w.kind # "target" -> [wm EXCEPT !.path = "other"]
                 [] w.kind = "target" /\ w.query = <<>> -> [wm EXCEPT !.path = w.path]
                 [] OTHER -> [wm EXCEPT !.path = w.path, !.query = w.query]
      BY <1>1, <3>1 DEF SetTarget
    <3>3. CASE w.kind # "target"
      <4>1. wt = [wm EXCEPT !.path = "other"]
        BY <3>2, <3>3
      <4>2. wt = [method |-> me, version |-> a2, path |-> "other", query |-> a4, headers |-> a5, body |-> a6]
        BY <2>3, <4>1
      <4> QED
        BY <3>1, <3>3, <4>2
    <3>4. CASE w.kind = "target" /\ w.query = <<>>
      <4>1. wt = [wm EXCEPT !.path = w.path]
        BY <3>2, <3>4
      <4>2. wt = [method |-> me, version |-> a2, path |-> w.path, query |-> a4, headers |-> a5, body |-> a6]
        BY <2>3, <4>1
      <4> QED
        BY <3>1, <4>2
    <3>5. CASE w.kind = "target" /\ w.query # <<>>
      <4>1. wt = [[wm EXCEPT !.path = w.path] EXCEPT !.query = w.query]
        BY <3>2, <3>5
      <4>2. wt = [method |-> me, version |-> a2, path |-> w.path, query |-> w.query, headers |-> a5, body |-> a6]
        BY <2>3, <4>1
      <4> QED
        BY <3>1, <4>2
    <3> QED
      BY <3>3, <3>4, <3>5
  <2>5. PICK v, q : v = line[3].text /\ q = [wt EXCEPT !.version = v]
    OBVIOUS
  <2>6. q = [method |-> me, version |-> v, path |-> path, query |-> query, headers |-> a5, body |-> a6]
    BY <2>4, <2>5
  <2>7. r.ok = TRUE /\ r.request = q
    BY <2>1, <2>5
  <2>8. IsRequest(q) /\ q.version = v /\ q.path = path /\ q.headers = a5
    BY <2>6 DEF IsRequest
  <2>9. request.headers = a5
    BY <2>2
  <2> QED
    BY <1>6, <1>7, <2>4, <2>5, <2>7, <2>8, <2>9
<1>8. CASE ~(n > 2 /\ me # "kInvalid" /\ known)
  <2>1. \/ r = [ok |-> FALSE, request |-> request]
        \/ r = [ok |-> FALSE, request |-> wm]
        \/ r = [ok |-> FALSE, request |-> wt]
    BY <1>2, <1>3, <1>8
  <2>2. r.ok = FALSE
    BY <2>1
  <2> QED
    BY <1>6, <1>8, <2>2
<1> QED
  BY <1>7, <1>8

-----------------------------------------------------------------------------
(* Where the lines of a request end in what is left.                       *)

LineAt(s, i) == i \in 1..(Len(s) - 1) /\ LineEnd(s, i)

\* The first line ends no later than any other.
LEMMA NoEarlierLine ==
  ASSUME NEW s \in Seq(WireBytes), NEW m \in Nat, FirstLine(s, m), NEW i \in Int, LineAt(s, i)
  PROVE  m <= i
<1>1. i \in 1..(Len(s) - 1) /\ LineEnd(s, i) /\ \A j \in 1..(m - 1) : ~LineEnd(s, j)
  BY DEF LineAt, FirstLine
<1>2. i \notin 1..(m - 1)
  BY <1>1
<1> QED
  BY <1>1, <1>2

\* Request q is r, begins at a, and has parts of these lengths.
Layout(start, rs, q, r, a, L, H, n) == r = rs[q] /\ a = start[q] /\ Measures(r, L, H, n)

\* Every request has a layout.
LEMMA LaidOut ==
  ASSUME NEW s, NEW rs \in Seq(Requests), NEW start, Placed(start, s, rs), NEW q \in 1..Len(rs)
  PROVE  \E r \in Requests, a \in Int, L \in Nat, H \in Nat, n \in Nat : Layout(start, rs, q, r, a, L, H, n)
<1>1. PICK r \in Requests : r = rs[q]
  OBVIOUS
<1>2. PICK m \in Nat : m = Len(rs) /\ q \in 1..m
  OBVIOUS
<1>3. PICK a \in Int : a = start[q]
  <2>1. start \in [1..(m + 1) -> Int] /\ q \in 1..(m + 1)
    BY <1>2 DEF Placed
  <2> QED
    BY <2>1
<1> QED
  BY <1>1, <1>3, RequestMeasured DEF Layout

\* The words of such a request and the ends of its lines, as far as they are left.
Lines(s, r, a, L, H) ==
  /\ \A i \in 1..L : a + i >= 2 => a + i - 1 \in 1..Len(s) /\ s[a + i - 1] = r.line[i]
  /\ \A h \in 1..H : a + L + 3 * h >= 2 => s[a + L + 3 * h - 1] = r.headers[h]
  /\ \A h \in 0..H : a + L + 3 * h >= 1 => LineAt(s, a + L + 3 * h)
  /\ a + L + 3 * H + 2 >= 1 => LineAt(s, a + L + 3 * H + 2)

\* A request has its lines where its layout says.
LEMMA LinesOf ==
  ASSUME NEW s \in Seq(WireBytes), NEW rs \in Seq(Requests), NEW start, Placed(start, s, rs),
         NEW q \in 1..Len(rs), NEW r \in Requests, NEW a \in Int, NEW L \in Nat, NEW H \in Nat,
         NEW n \in Nat, Layout(start, rs, q, r, a, L, H, n)
  PROVE  Lines(s, r, a, L, H) /\ HeadLen(r) = L + 3 * H + 4 /\ Size(r) = L + 3 * H + 4 + n
<1>1. Measures(r, L, H, n)
  BY DEF Layout
<1>2. PICK E : E = Encoding(r)
  OBVIOUS
<1>3. PICK z \in Nat : z = Size(r) /\ z = L + 3 * H + 4 + n /\ HeadLen(r) = L + 3 * H + 4
  BY <1>1, <1>2, EncodingFacts DEF Encoded
<1>4. /\ \A i \in 1..L : E[i] = r.line[i]
      /\ E[L + 1] = CR /\ E[L + 2] = LF
      /\ \A h \in 1..H : /\ E[L + 3 * h] = r.headers[h]
                         /\ E[L + 3 * h + 1] = CR /\ E[L + 3 * h + 2] = LF
      /\ E[L + 3 * H + 3] = CR /\ E[L + 3 * H + 4] = LF
  <2>1. Encoded(r, E, L, H, n)
    BY <1>1, <1>2, EncodingFacts
  <2> QED
    BY <2>1 DEF Encoded
<1>5. ASSUME NEW o \in 1..z, a + o >= 2
      PROVE  a + o - 1 \in 1..Len(s) /\ s[a + o - 1] = E[o]
  <2>1. start[q] = a /\ rs[q] = r
    BY DEF Layout
  <2>2. o \in 1..Size(rs[q]) /\ start[q] + o >= 2
    BY <1>3, <1>5, <2>1
  <2>3. start[q] + o - 1 \in 1..Len(s) /\ s[start[q] + o - 1] = Encoding(rs[q])[o]
    BY <2>2, ByteAt
  <2> QED
    BY <1>2, <2>1, <2>3
<1>6. ASSUME NEW o \in 1..z, o + 1 \in 1..z, a + o >= 2, E[o] = CR, E[o + 1] = LF
      PROVE  LineAt(s, a + o - 1)
  <2>1. a + (o + 1) >= 2 /\ a + (o + 1) - 1 = (a + o - 1) + 1 /\ a + o - 1 \in Int
    BY <1>6
  <2>2. a + o - 1 \in 1..Len(s) /\ s[a + o - 1] = E[o]
    BY <1>5, <1>6
  <2>3. (a + o - 1) + 1 \in 1..Len(s) /\ s[(a + o - 1) + 1] = E[o + 1]
    BY <1>5, <1>6, <2>1
  <2>4. PICK i \in Int, l \in Nat : i = a + o - 1 /\ l = Len(s)
    BY <2>1
  <2>5. i \in 1..l /\ i + 1 \in 1..l /\ s[i] = CR /\ s[i + 1] = LF
    BY <1>6, <2>2, <2>3, <2>4
  <2>6. i \in 1..(l - 1)
    BY <2>5
  <2> QED
    BY <2>4, <2>5, <2>6 DEF LineAt, LineEnd
<1>7. ASSUME NEW i \in 1..L, a + i >= 2
      PROVE  a + i - 1 \in 1..Len(s) /\ s[a + i - 1] = r.line[i]
  <2>1. i \in 1..z
    BY <1>3
  <2> QED
    BY <1>4, <1>5, <1>7, <2>1
<1>8. ASSUME NEW h \in 1..H, a + L + 3 * h >= 2
      PROVE  s[a + L + 3 * h - 1] = r.headers[h]
  <2>1. PICK o \in 1..z : o = L + 3 * h /\ a + o >= 2 /\ a + o - 1 = a + L + 3 * h - 1
    BY <1>3, <1>8
  <2>2. s[a + o - 1] = E[o]
    BY <1>5, <2>1
  <2>3. E[o] = r.headers[h]
    BY <1>4, <2>1
  <2> QED
    BY <2>1, <2>2, <2>3
<1>9. ASSUME NEW h \in 0..H, a + L + 3 * h >= 1
      PROVE  LineAt(s, a + L + 3 * h)
  <2>1. PICK o \in 1..z : /\ o = L + 3 * h + 1 /\ o + 1 \in 1..z /\ o + 1 = L + 3 * h + 2 /\ a + o >= 2
                          /\ a + o - 1 = a + L + 3 * h
    BY <1>3, <1>9
  <2>2. E[o] = CR /\ E[o + 1] = LF
    <3>1. CASE h = 0
      <4>1. o = L + 1 /\ o + 1 = L + 2
        BY <2>1, <3>1
      <4> QED
        BY <1>4, <4>1
    <3>2. CASE h \in 1..H
      BY <1>4, <2>1, <3>2
    <3> QED
      BY <3>1, <3>2
  <2>3. LineAt(s, a + o - 1)
    BY <1>6, <2>1, <2>2
  <2> QED
    BY <2>1, <2>3
<1>10. ASSUME a + L + 3 * H + 2 >= 1
       PROVE  LineAt(s, a + L + 3 * H + 2)
  <2>1. PICK o \in 1..z : /\ o = L + 3 * H + 3 /\ o + 1 \in 1..z /\ o + 1 = L + 3 * H + 4 /\ a + o >= 2
                          /\ a + o - 1 = a + L + 3 * H + 2
    BY <1>3, <1>10
  <2>2. E[o] = CR /\ E[o + 1] = LF
    BY <1>4, <2>1
  <2>3. LineAt(s, a + o - 1)
    BY <1>6, <2>1, <2>2
  <2> QED
    BY <2>1, <2>3
<1> QED
  BY <1>3, <1>7, <1>8, <1>9, <1>10 DEF Lines

\* A line of a request ends at m: its request line, header h or its blank line.
EndsAt(m, a, L, H) == m = a + L + 3 * H + 2 \/ \E h \in 0..H : m = a + L + 3 * h

\* Every line that ends in what is left is a line of some request.
LEMMA LineOwner ==
  ASSUME NEW s \in Seq(WireBytes), NEW rs \in Seq(Requests), NEW start, Placed(start, s, rs),
         NEW m \in Nat, LineAt(s, m)
  PROVE  \E q \in 1..Len(rs), r \in Requests, a \in Int, L \in Nat, H \in Nat, n \in Nat :
           Layout(start, rs, q, r, a, L, H, n) /\ EndsAt(m, a, L, H)
<1>1. m \in 1..Len(s) /\ s[m] = CR
  BY DEF LineAt, LineEnd
<1>2. PICK i \in 1..Len(s) : i = m
  BY <1>1
<1>3. PICK q \in 1..Len(rs) : \E o \in 1..Size(rs[q]) : Owns(start, s, rs, i, q, o)
  BY OwnerOf
<1>4. PICK r \in Requests, a \in Int, L \in Nat, H \in Nat, n \in Nat : Layout(start, rs, q, r, a, L, H, n)
  BY LaidOut
<1>5. PICK o \in 1..Size(r) : a + o = m + 1 /\ s[m] = Encoding(r)[o]
  BY <1>2, <1>3, <1>4 DEF Layout, Owns
<1>6. Size(r) \in Nat
  BY SizePositive
<1>7. o = L + 1 \/ o = L + 3 * H + 3 \/ \E h \in 1..H : o = L + 3 * h + 1
  <2>1. PICK E : E = Encoding(r)
    OBVIOUS
  <2>2. \A j \in 1..Size(r) : E[j] = CR =>
          j = L + 1 \/ j = L + 3 * H + 3 \/ \E h \in 1..H : j = L + 3 * h + 1
    <3>1. Measures(r, L, H, n)
      BY <1>4 DEF Layout
    <3> QED
      BY <2>1, <3>1, EncodingFacts DEF Encoded
  <2> QED
    BY <1>1, <1>5, <2>1, <2>2
<1>8. PICK d \in Nat : d = o /\ a + d = m + 1
  BY <1>5, <1>6
<1>9. CASE d = L + 1
  <2>1. m = a + L + 3 * 0 /\ 0 \in 0..H
    BY <1>8, <1>9
  <2> QED
    BY <1>4, <2>1 DEF EndsAt
<1>10. CASE d = L + 3 * H + 3
  <2>1. m = a + L + 3 * H + 2
    BY <1>8, <1>10
  <2> QED
    BY <1>4, <2>1 DEF EndsAt
<1>11. CASE \E h \in 1..H : d = L + 3 * h + 1
  <2>1. PICK h \in 1..H : d = L + 3 * h + 1
    BY <1>11
  <2>2. h \in 0..H /\ m = a + L + 3 * h
    BY <1>8, <2>1
  <2> QED
    BY <1>4, <2>2 DEF EndsAt
<1> QED
  BY <1>7, <1>8, <1>9, <1>10, <1>11

\* The bytes behind the first line.
LEMMA BehindFacts ==
  ASSUME NEW s \in Seq(WireBytes), NEW m \in Nat, FirstLine(s, m)
  PROVE  /\ m + 1 \in 0..Len(s) /\ Behind(s, m) \in Seq(WireBytes)
         /\ Len(Behind(s, m)) = Len(s) - (m + 1)
         /\ \A i \in 1..Len(Behind(s, m)) : Behind(s, m)[i] = s[i + (m + 1)]
         /\ SubSeq(s, 1, m - 1) \in Seq(WireBytes) /\ Len(SubSeq(s, 1, m - 1)) = m - 1
         /\ \A i \in 1..(m - 1) : SubSeq(s, 1, m - 1)[i] = s[i]
         /\ LineAt(s, m)
<1>1. PICK l \in Nat : l = Len(s) /\ m \in 1..(l - 1)
  BY DEF FirstLine
<1>2. m + 1 \in 0..l /\ m + 2 \in 1..(l + 1) /\ l \in ((m + 2) - 1)..l /\ l - (m + 2) + 1 = l - (m + 1)
  BY <1>1
<1>3. PICK u \in Nat : u = m + 2
  OBVIOUS
<1>4. PICK t : t = Behind(s, m)
  OBVIOUS
<1>5. /\ t \in Seq(WireBytes) /\ Len(t) = l - u + 1
      /\ \A i \in 1..(l - u + 1) : t[i] = s[u + i - 1]
  <2>1. u \in 1..(Len(s) + 1) /\ l \in (u - 1)..Len(s) /\ t = SubSeq(s, u, l)
    BY <1>1, <1>2, <1>3, <1>4 DEF Behind
  <2> QED
    BY <2>1, SubSeqFacts
<1>6. Len(t) = l - (m + 1) /\ \A i \in 1..Len(t) : t[i] = s[i + (m + 1)]
  <2>1. Len(t) = l - (m + 1) /\ l - u + 1 = l - (m + 1)
    BY <1>1, <1>3, <1>5
  <2>2. \A i \in 1..(l - (m + 1)) : u + i - 1 = i + (m + 1)
    BY <1>1, <1>3
  <2> QED
    BY <1>5, <2>1, <2>2
<1>7. PICK p : p = SubSeq(s, 1, m - 1)
  OBVIOUS
<1>8. p \in Seq(WireBytes) /\ Len(p) = m - 1 /\ \A i \in 1..(m - 1) : p[i] = s[i]
  <2>1. 1 \in 1..(Len(s) + 1) /\ m - 1 \in (1 - 1)..Len(s)
    BY <1>1
  <2>2. PICK e \in (1 - 1)..Len(s) : e = m - 1
    BY <2>1
  <2>3. p \in Seq(WireBytes) /\ Len(p) = e - 1 + 1 /\ \A i \in 1..(e - 1 + 1) : p[i] = s[1 + i - 1]
    BY <1>7, <2>1, <2>2, SubSeqFacts
  <2>4. e - 1 + 1 = m - 1 /\ \A i \in 1..(m - 1) : 1 + i - 1 = i
    BY <1>1, <2>2
  <2> QED
    BY <2>3, <2>4
<1>9. LineAt(s, m)
  BY DEF FirstLine, LineAt
<1> QED
  BY <1>1, <1>2, <1>5, <1>6, <1>7, <1>8, <1>9, <1>4

\* What is gone stays gone.
LEMMA GoneShifted ==
  ASSUME NEW s, NEW rs \in Seq(Requests), NEW start, Placed(start, s, rs), NEW k \in Nat,
         NEW w \in Nat, w <= Len(rs), HeadsGone(start, rs, w)
  PROVE  HeadsGone(Shifted(start, k), rs, w)
<1> SUFFICES ASSUME NEW q \in 1..w
             PROVE  Shifted(start, k)[q] + HeadLen(rs[q]) <= 1
  BY DEF HeadsGone
<1>1. PICK n \in Nat : n = Len(rs) /\ w <= n
  OBVIOUS
<1>2. start \in [1..(n + 1) -> Int] /\ q \in 1..(n + 1) /\ q \in 1..Len(rs)
  BY <1>1 DEF Placed
<1>3. PICK a \in Int : a = start[q] /\ Shifted(start, k)[q] = a - k
  BY <1>2 DEF Shifted
<1>4. PICK g \in Nat : g = HeadLen(rs[q])
  BY <1>2, SizePositive
<1>5. a + g <= 1
  BY <1>3, <1>4 DEF HeadsGone
<1>6. a - k + g <= 1
  BY <1>5
<1> QED
  BY <1>3, <1>4, <1>6

\* When the head of request q is gone, so are those before it.
LEMMA GoneBefore ==
  ASSUME NEW s, NEW rs \in Seq(Requests), NEW start, Placed(start, s, rs), NEW q \in 1..Len(rs),
         start[q] + HeadLen(rs[q]) <= 1, NEW w \in Nat, w <= q
  PROVE  HeadsGone(start, rs, w)
<1> SUFFICES ASSUME NEW v \in 1..w
             PROVE  start[v] + HeadLen(rs[v]) <= 1
  BY DEF HeadsGone
<1>1. PICK n \in Nat : n = Len(rs) /\ q \in 1..n
  OBVIOUS
<1>2. /\ start \in [1..(n + 1) -> Int]
      /\ \A u \in 1..n : start[u + 1] = start[u] + Size(rs[u])
      /\ \A u \in 1..(n + 1), x \in 1..(n + 1) : u < x => start[u] < start[x]
  BY <1>1 DEF Placed
<1>3. v \in 1..n /\ v \in 1..(n + 1) /\ v + 1 \in 1..(n + 1) /\ q \in 1..(n + 1) /\ v <= q
  BY <1>1
<1>4. CASE v = q
  BY <1>4
<1>5. CASE v < q
  <2>1. PICK a \in Int, b \in Int, d \in Int : a = start[v] /\ b = start[v + 1] /\ d = start[q]
    BY <1>2, <1>3
  <2>2. PICK g \in Nat, z \in Nat : g = HeadLen(rs[v]) /\ z = Size(rs[v]) /\ g <= z
    BY <1>1, <1>3, SizePositive, SMTT(30)
  <2>3. PICK e \in Nat : e = HeadLen(rs[q]) /\ d + e <= 1
    BY <1>1, <2>1, SizePositive
  <2>4. b = a + z
    BY <1>2, <1>3, <2>1, <2>2
  <2>5. b <= d
    <3>1. v + 1 = q \/ v + 1 < q
      BY <1>3, <1>5
    <3>2. v + 1 < q => b < d
      BY <1>2, <1>3, <2>1
    <3>3. v + 1 = q => b = d
      BY <2>1
    <3> QED
      BY <3>1, <3>2, <3>3
  <2>6. a + g <= 1
    BY <2>2, <2>3, <2>4, <2>5, SMTT(30)
  <2> QED
    BY <2>1, <2>2, <2>6
<1> QED
  BY <1>3, <1>4, <1>5

\* The heads of the first w requests being gone, a line belongs to a later one.
LEMMA LaterLine ==
  ASSUME NEW s \in Seq(WireBytes), NEW rs \in Seq(Requests), NEW start, Placed(start, s, rs),
         NEW w \in Nat, HeadsGone(start, rs, w), NEW m \in Nat, LineAt(s, m)
  PROVE  \E q \in 1..Len(rs), r \in Requests, a \in Int, L \in Nat, H \in Nat, n \in Nat :
           Layout(start, rs, q, r, a, L, H, n) /\ EndsAt(m, a, L, H) /\ w < q
<1>1. PICK q \in 1..Len(rs), r \in Requests, a \in Int, L \in Nat, H \in Nat, n \in Nat :
        Layout(start, rs, q, r, a, L, H, n) /\ EndsAt(m, a, L, H)
  BY LineOwner
<1>2. 1 <= m
  BY DEF LineAt
<1>3. m <= a + L + 3 * H + 2
  BY <1>1 DEF EndsAt
<1>4. HeadLen(r) = L + 3 * H + 4
  BY <1>1, LinesOf
<1>5. ASSUME q <= w
      PROVE  FALSE
  <2>1. q \in 1..w
    BY <1>5
  <2>2. a + HeadLen(r) <= 1
    BY <1>1, <2>1 DEF HeadsGone, Layout
  <2> QED
    BY <1>2, <1>3, <1>4, <2>2
<1>6. w < q
  BY <1>5
<1> QED
  BY <1>1, <1>6

\* A line that is a request line is that of a request not yet answered, and its
\* headers follow.
LEMMA LineBegins ==
  ASSUME NEW s \in Seq(WireBytes), NEW rs \in Seq(Requests), NEW start, Placed(start, s, rs),
         NEW w \in Nat, HeadsGone(start, rs, w), NEW m \in Nat, FirstLine(s, m),
         WellFormed(SubSeq(s, 1, m - 1))
  PROVE  \E q \in 1..Len(rs) : w < q /\ AtHeader(Shifted(start, m + 1), rs, q, 1)
<1>1. PICK line : line = SubSeq(s, 1, m - 1)
  OBVIOUS
<1>2. LineAt(s, m) /\ Len(line) = m - 1 /\ \A i \in 1..(m - 1) : line[i] = s[i]
  BY <1>1, BehindFacts
<1>3. m = 4 /\ \E v \in Versions : s[3] = Word(v)
  <2>1. Len(line) = 3 /\ \E v \in Versions : line[3] = Word(v)
    BY <1>1 DEF WellFormed
  <2>2. m = 4 /\ 3 \in 1..(m - 1)
    <3>1. m - 1 = 3
      BY <1>2, <2>1
    <3> QED
      BY <3>1
  <2> QED
    BY <1>2, <2>1, <2>2
<1>4. PICK q \in 1..Len(rs), r \in Requests, a \in Int, L \in Nat, H \in Nat, n \in Nat :
        Layout(start, rs, q, r, a, L, H, n) /\ EndsAt(m, a, L, H) /\ w < q
  BY <1>2, LaterLine
<1>5. /\ \A h \in 1..H : a + L + 3 * h >= 2 => s[a + L + 3 * h - 1] = r.headers[h]
      /\ \A h \in 0..H : a + L + 3 * h >= 1 => LineAt(s, a + L + 3 * h)
  <2>1. Lines(s, r, a, L, H)
    BY <1>4, LinesOf
  <2> QED
    BY <2>1 DEF Lines
<1>6. m # a + L + 3 * H + 2
  <2> SUFFICES ASSUME m = a + L + 3 * H + 2
               PROVE  FALSE
    OBVIOUS
  <2>1. a + L + 3 * H = 2 /\ H \in 0..H
    BY <1>3
  <2>2. LineAt(s, 2)
    BY <1>5, <2>1
  <2>3. m <= 2
    BY <2>2, NoEarlierLine
  <2> QED
    BY <1>3, <2>3
<1>7. ASSUME NEW h \in 1..H, m = a + L + 3 * h
      PROVE  FALSE
  <2>1. PICK i \in Int : i = a + L + 3 * h /\ i = 4
    BY <1>3, <1>7
  <2>2. i >= 2 /\ i - 1 = 3
    BY <2>1
  <2>3. s[3] = r.headers[h]
    <3>1. a + L + 3 * h >= 2 /\ a + L + 3 * h - 1 = 3
      BY <2>1
    <3> QED
      BY <1>5, <3>1
  <2>4. PICK f, v : s[3] = Header(f, v)
    BY <1>4, <2>3, RequestTyped DEF Layout, Measures
  <2>5. PICK v1 : s[3] = Word(v1)
    BY <1>3
  <2>6. s[3].kind = "header" /\ s[3].kind = "word"
    BY <2>4, <2>5 DEF Header, Word
  <2> QED
    BY <2>6
<1>8. m = a + L
  <2>1. PICK h \in 0..H : m = a + L + 3 * h
    BY <1>4, <1>6 DEF EndsAt
  <2>2. h = 0
    BY <1>7, <2>1, SMTT(30)
  <2> QED
    BY <2>1, <2>2
<1>9. AtHeader(Shifted(start, m + 1), rs, q, 1)
  <2>1. PICK k \in Nat : k = Len(rs) /\ q \in 1..k
    OBVIOUS
  <2>2. start \in [1..(k + 1) -> Int] /\ q \in 1..(k + 1)
    BY <2>1 DEF Placed
  <2>3. Shifted(start, m + 1)[q] = a - (m + 1)
    BY <1>4, <2>2 DEF Shifted, Layout
  <2>4. Len(rs[q].line) = L /\ Len(rs[q].headers) = H
    BY <1>4 DEF Layout, Measures
  <2>5. 1 \in 1..(H + 1) /\ (a - (m + 1)) + L + 3 * 1 = 2
    BY <1>8
  <2> QED
    BY <2>3, <2>4, <2>5 DEF AtHeader
<1> QED
  BY <1>4, <1>9

\* When all that is left is the last request, the first line is its line.
LEMMA LineOfLast ==
  ASSUME NEW s \in Seq(WireBytes), NEW rs \in Seq(Requests), NEW start, Placed(start, s, rs),
         NEW q \in 1..Len(rs), start[q] = 1
  PROVE  /\ ~NoLine(s)
         /\ \A m \in Nat : FirstLine(s, m) => SubSeq(s, 1, m - 1) = rs[q].line
<1>1. PICK r \in Requests, a \in Int, L \in Nat, H \in Nat, n \in Nat : Layout(start, rs, q, r, a, L, H, n)
  BY LaidOut
<1>2. a = 1 /\ r = rs[q] /\ Len(r.line) = L
  BY <1>1 DEF Layout, Measures
<1>3. Lines(s, r, a, L, H)
  BY <1>1, LinesOf
<1>4. PICK e \in Nat : e = L + 1 /\ LineAt(s, e)
  <2>1. 0 \in 0..H /\ a + L + 3 * 0 = L + 1 /\ L + 1 >= 1
    BY <1>2
  <2>2. LineAt(s, a + L + 3 * 0)
    <3>1. \A h \in 0..H : a + L + 3 * h >= 1 => LineAt(s, a + L + 3 * h)
      BY <1>3 DEF Lines
    <3> QED
      BY <2>1, <3>1
  <2> QED
    BY <2>1, <2>2
<1>5. \A i \in 1..L : s[i] = r.line[i]
  <2>1. \A i \in 1..L : a + i >= 2 => s[a + i - 1] = r.line[i]
    BY <1>3 DEF Lines
  <2>2. \A i \in 1..L : a + i >= 2 /\ a + i - 1 = i
    BY <1>2
  <2> QED
    BY <2>1, <2>2
<1>6. ASSUME NEW m \in Nat, FirstLine(s, m)
      PROVE  SubSeq(s, 1, m - 1) = r.line
  <2>1. m <= e
    BY <1>4, <1>6, NoEarlierLine
  <2>2. r.line \in Seq(WireBytes) /\ \A i \in 1..Len(r.line) : r.line[i] # CR
    BY RequestTyped
  <2>3. s[m] = CR /\ m >= 1
    BY <1>6 DEF FirstLine, LineEnd
  <2>4. m \notin 1..L
    BY <1>2, <1>5, <2>2, <2>3
  <2>5. m - 1 = L
    BY <1>4, <2>1, <2>3, <2>4
  <2>6. PICK p : p = SubSeq(s, 1, m - 1)
    OBVIOUS
  <2>7. p \in Seq(WireBytes) /\ Len(p) = m - 1 /\ \A i \in 1..(m - 1) : p[i] = s[i]
    BY <1>6, <2>6, BehindFacts
  <2>8. p = r.line
    <3>1. Len(p) = Len(r.line) /\ \A i \in 1..Len(p) : p[i] = (r.line)[i]
      BY <1>2, <1>5, <2>5, <2>7
    <3> QED
      BY <2>2, <2>7, <3>1, SeqEqual
  <2> QED
    BY <2>6, <2>8
<1> QED
  BY <1>2, <1>4, <1>6 DEF NoLine, LineAt

\* The line is header h of request q, or its blank line; what follows is at z.
HeaderNext(z, rs, q, h, line) ==
  \/ h \in 1..Len(rs[q].headers) /\ line = <<rs[q].headers[h]>> /\ AtHeader(z, rs, q, h + 1)
  \/ h = Len(rs[q].headers) + 1 /\ line = <<>> /\ z[q] + HeadLen(rs[q]) <= 1

\* At header h of request q, the first line is this header, or the blank line.
LEMMA HeaderBegins ==
  ASSUME NEW s \in Seq(WireBytes), NEW rs \in Seq(Requests), NEW start, Placed(start, s, rs),
         NEW q \in 1..Len(rs), NEW h \in Nat, AtHeader(start, rs, q, h)
  PROVE  /\ ~NoLine(s)
         /\ \A m \in Nat : FirstLine(s, m) =>
              HeaderNext(Shifted(start, m + 1), rs, q, h, SubSeq(s, 1, m - 1))
<1>1. PICK r \in Requests, a \in Int, L \in Nat, H \in Nat, n \in Nat : Layout(start, rs, q, r, a, L, H, n)
  BY LaidOut
<1>2. r = rs[q] /\ Len(rs[q].line) = L /\ Len(rs[q].headers) = H /\ a = start[q]
  BY <1>1 DEF Layout, Measures
<1>3. h \in 1..(H + 1) /\ a + L + 3 * h = 2
  BY <1>2 DEF AtHeader
<1>4. Lines(s, r, a, L, H) /\ HeadLen(r) = L + 3 * H + 4
  BY <1>1, LinesOf
<1>5. ASSUME NEW k \in Nat
      PROVE  Shifted(start, k)[q] = a - k
  <2>1. PICK u \in Nat : u = Len(rs) /\ q \in 1..u
    OBVIOUS
  <2>2. start \in [1..(u + 1) -> Int] /\ q \in 1..(u + 1)
    BY <2>1 DEF Placed
  <2> QED
    BY <1>2, <2>2 DEF Shifted
<1>6. CASE h \in 1..H
  <2>1. s[1] = r.headers[h]
    <3>1. \A g \in 1..H : a + L + 3 * g >= 2 => s[a + L + 3 * g - 1] = r.headers[g]
      BY <1>4 DEF Lines
    <3>2. a + L + 3 * h >= 2 /\ a + L + 3 * h - 1 = 1
      BY <1>3
    <3> QED
      BY <1>6, <3>1, <3>2
  <2>2. LineAt(s, 2)
    <3>1. \A g \in 0..H : a + L + 3 * g >= 1 => LineAt(s, a + L + 3 * g)
      BY <1>4 DEF Lines
    <3>2. h \in 0..H /\ a + L + 3 * h >= 1
      BY <1>3, <1>6
    <3> QED
      BY <1>3, <3>1, <3>2
  <2>3. r.headers[h] \in WireBytes /\ r.headers[h] # CR
    BY <1>2, <1>6, RequestTyped
  <2>4. ASSUME NEW m \in Nat, FirstLine(s, m)
        PROVE  /\ SubSeq(s, 1, m - 1) = <<r.headers[h]>>
               /\ AtHeader(Shifted(start, m + 1), rs, q, h + 1)
    <3>1. m <= 2
      BY <2>2, <2>4, NoEarlierLine
    <3>2. s[m] = CR /\ m >= 1
      BY <2>4 DEF FirstLine, LineEnd
    <3>3. m = 2
      BY <2>1, <2>3, <3>1, <3>2
    <3>4. PICK p : p = SubSeq(s, 1, m - 1)
      OBVIOUS
    <3>5. p \in Seq(WireBytes) /\ Len(p) = m - 1 /\ \A i \in 1..(m - 1) : p[i] = s[i]
      BY <2>4, <3>4, BehindFacts
    <3>6. Len(p) = 1 /\ p[1] = r.headers[h]
      BY <2>1, <3>3, <3>5
    <3>7. p = <<r.headers[h]>>
      <4>1. PICK x \in WireBytes : x = r.headers[h]
        BY <2>3
      <4>2. <<x>> \in Seq(WireBytes) /\ Len(<<x>>) = 1 /\ <<x>>[1] = x
        OBVIOUS
      <4>3. p = <<x>>
        BY <3>5, <3>6, <4>1, <4>2, SeqEqual
      <4> QED
        BY <4>1, <4>3
    <3>8. Shifted(start, m + 1)[q] = a - (m + 1)
      BY <1>5
    <3>9. h + 1 \in 1..(H + 1) /\ (a - (m + 1)) + L + 3 * (h + 1) = 2
      BY <1>3, <1>6, <3>3
    <3>10. AtHeader(Shifted(start, m + 1), rs, q, h + 1)
      BY <1>2, <3>8, <3>9 DEF AtHeader
    <3> QED
      BY <3>4, <3>7, <3>10
  <2> QED
    BY <1>2, <1>6, <2>2, <2>4 DEF NoLine, LineAt, HeaderNext
<1>7. CASE h = H + 1
  <2>1. LineAt(s, 1)
    <3>1. a + L + 3 * H + 2 >= 1 => LineAt(s, a + L + 3 * H + 2)
      BY <1>4 DEF Lines
    <3>2. a + L + 3 * H + 2 = 1
      BY <1>3, <1>7
    <3> QED
      BY <3>1, <3>2
  <2>2. ASSUME NEW m \in Nat, FirstLine(s, m)
        PROVE  /\ SubSeq(s, 1, m - 1) = <<>>
               /\ Shifted(start, m + 1)[q] + HeadLen(r) <= 1
    <3>1. m <= 1
      BY <2>1, <2>2, NoEarlierLine
    <3>2. m >= 1
      BY <2>2 DEF FirstLine
    <3>3. m = 1
      BY <3>1, <3>2
    <3>4. PICK p : p = SubSeq(s, 1, m - 1)
      OBVIOUS
    <3>5. p \in Seq(WireBytes) /\ Len(p) = m - 1
      BY <2>2, <3>4, BehindFacts
    <3>6. p = <<>>
      BY <3>3, <3>5
    <3>7. Shifted(start, m + 1)[q] = a - (m + 1)
      BY <1>5
    <3>8. (a - (m + 1)) + (L + 3 * H + 4) <= 1
      BY <1>3, <1>7, <3>3
    <3> QED
      BY <1>4, <3>4, <3>6, <3>7, <3>8
  <2> QED
    BY <1>2, <1>7, <2>1, <2>2 DEF NoLine, LineAt, HeaderNext
<1>8. h \in 1..H \/ h = H + 1
  BY <1>3
<1> QED
  BY <1>6, <1>7, <1>8

-----------------------------------------------------------------------------
(* The headers, and whether the client asks to close.                      *)

\* The map of the first h headers.
HeadersAre(map, headers, h) ==
  /\ \A i \in 1..h : headers[i].field \in DOMAIN map
  /\ \A f \in DOMAIN map : \E i \in 1..h :
       headers[i] = Header(f, map[f]) /\ \A j \in (i + 1)..h : headers[j].field # f

\* addHeader() of the next header.
LEMMA HeaderAdded ==
  ASSUME NEW q, IsRequest(q), NEW headers, NEW h \in Nat, HeadersAre(q.headers, headers, h),
         NEW f, NEW v, headers[h + 1] = Header(f, v), NEW x, x = AddHeader(q, headers[h + 1])
  PROVE  IsRequest(x) /\ x.path = q.path /\ x.version = q.version /\ HeadersAre(x.headers, headers, h + 1)
<1>1. PICK map, next : map = q.headers /\ next = WithFields(map, [g \in {f} |-> v])
  OBVIOUS
<1>2. Header(f, v).field = f /\ Header(f, v).value = v
  BY DEF Header
<1>3. x = [q EXCEPT !.headers = next]
  BY <1>1, <1>2 DEF AddHeader
<1>4. IsRequest(x) /\ x.path = q.path /\ x.version = q.version /\ x.headers = next
  <2>1. PICK a1, a2, a3, a4, a6 :
          q = [method |-> a1, version |-> a2, path |-> a3, query |-> a4, headers |-> map, body |-> a6]
    BY <1>1 DEF IsRequest
  <2>2. x = [method |-> a1, version |-> a2, path |-> a3, query |-> a4, headers |-> next, body |-> a6]
    BY <1>3, <2>1
  <2> QED
    BY <2>1, <2>2 DEF IsRequest
<1>5. /\ DOMAIN next = DOMAIN map \cup {f} /\ next[f] = v
      /\ \A g \in DOMAIN map : g # f => next[g] = map[g]
  <2>1. PICK one : one = [g \in {f} |-> v]
    OBVIOUS
  <2>2. DOMAIN one = {f} /\ one[f] = v
    BY <2>1
  <2>3. next = [g \in DOMAIN map \cup DOMAIN one |-> IF g \in DOMAIN one THEN one[g] ELSE map[g]]
    BY <1>1, <2>1 DEF WithFields
  <2> QED
    BY <2>2, <2>3
<1>6. ASSUME NEW i \in 1..(h + 1)
      PROVE  headers[i].field \in DOMAIN next
  <2>1. CASE i \in 1..h
    BY <1>1, <1>5, <2>1 DEF HeadersAre
  <2>2. CASE i = h + 1
    BY <1>2, <1>5, <2>2
  <2> QED
    BY <2>1, <2>2
<1>7. ASSUME NEW g \in DOMAIN next
      PROVE  \E i \in 1..(h + 1) :
               headers[i] = Header(g, next[g]) /\ \A j \in (i + 1)..(h + 1) : headers[j].field # g
  <2>1. CASE g = f
    <3>1. h + 1 \in 1..(h + 1) /\ \A j \in (h + 1 + 1)..(h + 1) : FALSE
      OBVIOUS
    <3> QED
      BY <1>5, <2>1, <3>1
  <2>2. CASE g # f
    <3>1. g \in DOMAIN map /\ next[g] = map[g]
      BY <1>5, <2>2
    <3>2. PICK i \in 1..h : headers[i] = Header(g, map[g]) /\ \A j \in (i + 1)..h : headers[j].field # g
      BY <1>1, <3>1 DEF HeadersAre
    <3>3. headers[h + 1].field # g
      BY <1>2, <2>2
    <3>4. i \in 1..(h + 1) /\ \A j \in (i + 1)..(h + 1) : j \in (i + 1)..h \/ j = h + 1
      OBVIOUS
    <3> QED
      BY <3>1, <3>2, <3>3, <3>4
  <2> QED
    BY <2>1, <2>2
<1>8. HeadersAre(next, headers, h + 1)
  BY <1>6, <1>7 DEF HeadersAre
<1> QED
  BY <1>4, <1>8

\* getHeader("Connection") is the value of the last such header.
LEMMA ConnectionHeader ==
  ASSUME NEW q, NEW r \in Requests, NEW L, NEW n \in Nat, NEW b, Measures(r, L, n, b),
         HeadersAre(q.headers, r.headers, n), NEW value \in {"close", "Keep-Alive"}
  PROVE  GetHeader(q, "Connection") = value <=> ConnectionIs(r, value)
<1>1. PICK map, hs : map = q.headers /\ hs = r.headers
  OBVIOUS
<1>2. n = Len(hs) /\ DOMAIN hs = 1..n
  BY <1>1, RequestTyped DEF Measures
<1>3. PICK none : none = ""
  OBVIOUS
<1>4. none # value
  BY <1>3
<1>5. GetHeader(q, "Connection") = IF "Connection" \in DOMAIN map THEN map["Connection"] ELSE none
  BY <1>1, <1>3 DEF GetHeader
<1>6. /\ \A i \in 1..n : hs[i].field \in DOMAIN map
      /\ \A f \in DOMAIN map : \E i \in 1..n :
           hs[i] = Header(f, map[f]) /\ \A j \in (i + 1)..n : hs[j].field # f
  <2>1. HeadersAre(map, hs, n)
    BY <1>1
  <2> QED
    BY <2>1 DEF HeadersAre
<1>7. ConnectionIs(r, value) <=>
        \E i \in 1..n : hs[i] = Header("Connection", value) /\ \A j \in (i + 1)..n : hs[j].field # "Connection"
  BY <1>1, <1>2 DEF ConnectionIs
<1>8. \A f, v : Header(f, v).field = f /\ Header(f, v).value = v
  BY DEF Header
<1>9. CASE "Connection" \notin DOMAIN map
  <2>1. ~ConnectionIs(r, value)
    BY <1>6, <1>7, <1>8, <1>9
  <2> QED
    BY <1>5, <1>9, <1>4, <2>1
<1>10. CASE "Connection" \in DOMAIN map
  <2>1. PICK x : x = map["Connection"]
    OBVIOUS
  <2>2. PICK i \in 1..n : hs[i] = Header("Connection", x) /\ \A j \in (i + 1)..n : hs[j].field # "Connection"
    BY <1>6, <1>10, <2>1
  <2>3. x = value => ConnectionIs(r, value)
    BY <1>7, <2>2
  <2>4. ASSUME ConnectionIs(r, value)
        PROVE  x = value
    <3>1. PICK k \in 1..n : hs[k] = Header("Connection", value) /\ \A j \in (k + 1)..n : hs[j].field # "Connection"
      BY <1>7, <2>4
    <3>2. hs[i].field = "Connection" /\ hs[k].field = "Connection"
      BY <1>8, <2>2, <3>1
    <3>3. ~(i < k)
      <4>1. i < k => k \in (i + 1)..n
        OBVIOUS
      <4> QED
        BY <2>2, <3>2, <4>1
    <3>4. ~(k < i)
      <4>1. k < i => i \in (k + 1)..n
        OBVIOUS
      <4> QED
        BY <3>1, <3>2, <4>1
    <3>5. i = k
      BY <3>3, <3>4
    <3> QED
      BY <1>8, <2>2, <3>1, <3>5
  <2> QED
    BY <1>5, <1>10, <2>1, <2>3, <2>4
<1> QED
  BY <1>9, <1>10

\* What is known of a request whose line and first h headers are parsed.
RequestIs(request, r, h) ==
  /\ IsRequest(request) /\ ~Malformed(r)
  /\ request.path = r.line[2].path
  /\ request.version = r.line[3].text
  /\ HeadersAre(request.headers, r.headers, h)

\* onRequest() closes when the client asks for it.
LEMMA ClosesAsAsked ==
  ASSUME NEW request, NEW r \in Requests, NEW L, NEW n \in Nat, NEW b, Measures(r, L, n, b),
         RequestIs(request, r, n)
  PROVE  MustClose(request) <=> AsksToClose(r)
<1>1. /\ GetHeader(request, "Connection") = "close" <=> ConnectionIs(r, "close")
      /\ GetHeader(request, "Connection") = "Keep-Alive" <=> ConnectionIs(r, "Keep-Alive")
  <2>1. HeadersAre(request.headers, r.headers, n)
    BY DEF RequestIs
  <2>2. GetHeader(request, "Connection") = "close" <=> ConnectionIs(r, "close")
    BY <2>1, ConnectionHeader
  <2>3. GetHeader(request, "Connection") = "Keep-Alive" <=> ConnectionIs(r, "Keep-Alive")
    BY <2>1, ConnectionHeader
  <2> QED
    BY <2>2, <2>3
<1>2. request.version = "HTTP/1.0" <=> r.line[3] = Word("HTTP/1.0")
  <2>1. PICK v : r.line[3] = Word(v)
    BY DEF RequestIs, Malformed
  <2>2. \A x : Word(x).text = x
    BY DEF Word
  <2>3. request.version = v
    BY <2>1, <2>2 DEF RequestIs
  <2>4. Word(v) = Word("HTTP/1.0") <=> v = "HTTP/1.0"
    BY <2>2
  <2> QED
    BY <2>1, <2>3, <2>4
<1> QED
  BY <1>1, <1>2 DEF MustClose, AsksToClose

-----------------------------------------------------------------------------
(* What is left of the requests of a connection, and what the parser and   *)
(* the callback know of them.                                              *)

Bodiless(rs, n) == \A i \in 1..n : rs[i].body = <<>>

\* Where what is left begins when w requests are answered, by the parser's state.
Position(start, rs, w, state) ==
  /\ state = "kExpectRequestLine" => HeadsGone(start, rs, w)
  /\ state = "kExpectHeaders" =>
       \E q \in 1..Len(rs), h \in Nat : w < q /\ AtHeader(start, rs, q, h)
  /\ state \in {"kExpectBody", "kGotAll"} => w < Len(rs) /\ HeadsGone(start, rs, w + 1)

\* What the callback has decided of the answer to r.
Decided(j, r) ==
  /\ ~Malformed(r)
  /\ j.request.path = r.line[2].path
  /\ j.status \in {"200", "404"}
  /\ j.close = (AsksToClose(r) \/ j.status = "404")

\* How far the server is with request n, the last, when no byte of an earlier
\* one is between.
Progress(start, rs, n, k, j) ==
  /\ k.state = "kExpectRequestLine" => start[n] = 1
  /\ k.state = "kExpectHeaders" =>
       \E h \in Nat : AtHeader(start, rs, n, h + 1) /\ RequestIs(k.request, rs[n], h)
  /\ k.state = "kExpectBody" => RequestIs(k.request, rs[n], Len(rs[n].headers))
  /\ k.state = "kGotAll" => Decided(j, rs[n])

\* s is left of the requests rs, w of which are answered; k and j are the
\* context of the connection and the job of its thread.
Stream(s, rs, w, waits, k, j) ==
  \E start :
    /\ Placed(start, s, rs)
    /\ Position(start, rs, w, k.state)
    /\ waits /\ Len(rs) = w + 1 /\ Bodiless(rs, w) => Progress(start, rs, w + 1, k, j)

\* A new connection.
LEMMA StreamStarts ==
  ASSUME NEW waits, NEW j
  PROVE  Stream(<<>>, <<>>, 0, waits, NewContext, j)
<1>1. PICK start : start = [q \in 1..1 |-> 1] /\ Placed(start, <<>>, <<>>)
  BY NothingPlaced
<1>2. NewContext.state = "kExpectRequestLine" /\ HeadsGone(start, <<>>, 0)
  BY DEF NewContext, HeadsGone
<1>3. Position(start, <<>>, 0, NewContext.state)
  BY <1>2 DEF Position
<1>4. Len(<<>>) # 0 + 1
  OBVIOUS
<1> QED
  BY <1>1, <1>3, <1>4 DEF Stream

\* When all requests are answered and none had a body, nothing is left.
LEMMA NothingLeft ==
  ASSUME NEW s \in Seq(WireBytes), NEW rs \in Seq(Requests), NEW start, Placed(start, s, rs),
         NEW w \in Nat, w = Len(rs), HeadsGone(start, rs, w), Bodiless(rs, w)
  PROVE  start[w + 1] = 1
<1>1. /\ start \in [1..(w + 1) -> Int] /\ start[w + 1] = Len(s) + 1
      /\ \A q \in 1..w : start[q + 1] = start[q] + Size(rs[q])
      /\ \A i \in 1..Len(s) : \E q \in 1..w : TRUE
  BY DEF Placed
<1>2. CASE w = 0
  <2>1. 1..w = {}
    BY <1>2
  <2>2. 1..Len(s) = {}
    BY <1>1, <2>1
  <2>3. Len(s) = 0
    <3>1. Len(s) \in Nat
      OBVIOUS
    <3>2. Len(s) # 0 => 1 \in 1..Len(s)
      BY <3>1
    <3> QED
      BY <2>2, <3>2
  <2> QED
    BY <1>1, <2>3
<1>3. CASE w > 0
  <2>1. w \in 1..w /\ w \in 1..(w + 1)
    BY <1>3
  <2>2. PICK r \in Requests : r = rs[w]
    BY <2>1
  <2>3. Len(r.body) = 0
    BY <2>1, <2>2 DEF Bodiless
  <2>4. PICK g \in Nat : g = HeadLen(r) /\ g = Size(r)
    BY <2>3, SizePositive DEF Size
  <2>5. PICK a \in Int : a = start[w] /\ a + g <= 1 /\ start[w + 1] = a + g
    BY <1>1, <2>1, <2>2, <2>4 DEF HeadsGone
  <2>6. Len(s) \in Nat
    OBVIOUS
  <2> QED
    BY <1>1, <2>5, <2>6
<1> QED
  BY <1>2, <1>3

\* A request is asked, by a client that waits only when the others are answered.
LEMMA StreamAsked ==
  ASSUME NEW s \in Seq(WireBytes), NEW rs \in Seq(Requests), NEW w \in Nat, w <= Len(rs),
         NEW waits, NEW k, NEW j, Stream(s, rs, w, waits, k, j),
         NEW r \in Requests, waits => w = Len(rs)
  PROVE  Stream(s \o Encoding(r), Append(rs, r), w, waits, k, j)
<1>1. PICK start : Placed(start, s, rs) /\ Position(start, rs, w, k.state)
  BY DEF Stream
<1>2. PICK z : z = Extended(start, s, rs, r)
  OBVIOUS
<1>3. Placed(z, s \o Encoding(r), Append(rs, r)) /\ \A q \in 1..(Len(rs) + 1) : z[q] = start[q]
  BY <1>1, <1>2, ExtendPlaced
<1>4. PICK us : us = Append(rs, r)
  OBVIOUS
<1>5. PICK n \in Nat : us = Append(rs, r) /\ n = Len(rs)
  BY <1>4
<1>6. us \in Seq(Requests) /\ Len(us) = n + 1 /\ \A q \in 1..n : us[q] = rs[q]
  BY <1>5, AppendFacts
<1>7. ASSUME NEW v \in Nat, v <= n, HeadsGone(start, rs, v)
      PROVE  HeadsGone(z, us, v)
  <2>1. \A q \in 1..v : q \in 1..n /\ q \in 1..(n + 1)
    BY <1>7
  <2> QED
    BY <1>3, <1>5, <1>6, <1>7, <2>1 DEF HeadsGone
<1>8. Position(z, us, w, k.state)
  <2>1. k.state = "kExpectRequestLine" => HeadsGone(z, us, w)
    BY <1>1, <1>5, <1>7 DEF Position
  <2>2. ASSUME k.state = "kExpectHeaders"
        PROVE  \E q \in 1..Len(us), h \in Nat : w < q /\ AtHeader(z, us, q, h)
    <3>1. PICK q \in 1..Len(rs), h \in Nat : w < q /\ AtHeader(start, rs, q, h)
      BY <1>1, <2>2 DEF Position
    <3>2. q \in 1..n /\ q \in 1..(n + 1) /\ us[q] = rs[q] /\ z[q] = start[q]
      BY <1>3, <1>5, <1>6
    <3>3. AtHeader(z, us, q, h)
      BY <3>1, <3>2 DEF AtHeader
    <3> QED
      BY <1>6, <3>1, <3>2, <3>3
  <2>3. ASSUME k.state \in {"kExpectBody", "kGotAll"}
        PROVE  w < Len(us) /\ HeadsGone(z, us, w + 1)
    <3>1. w < n /\ HeadsGone(start, rs, w + 1)
      BY <1>1, <1>5, <2>3 DEF Position
    <3> QED
      BY <1>6, <1>7, <3>1
  <2> QED
    BY <2>1, <2>2, <2>3 DEF Position
<1>9. ASSUME waits, Bodiless(us, w)
      PROVE  Progress(z, us, w + 1, k, j)
  <2>1. w = n
    BY <1>5, <1>9
  <2>2. Bodiless(rs, w)
    BY <1>6, <1>9, <2>1 DEF Bodiless
  <2>3. k.state # "kExpectHeaders" /\ k.state \notin {"kExpectBody", "kGotAll"}
    BY <1>1, <1>5, <2>1 DEF Position
  <2>4. ASSUME k.state = "kExpectRequestLine"
        PROVE  z[w + 1] = 1
    <3>1. HeadsGone(start, rs, w)
      BY <1>1, <2>4 DEF Position
    <3>2. start[w + 1] = 1
      BY <1>1, <1>5, <2>1, <2>2, <3>1, NothingLeft
    <3>3. w + 1 \in 1..(n + 1)
      BY <2>1
    <3> QED
      BY <1>3, <1>5, <3>2, <3>3
  <2> QED
    BY <2>3, <2>4 DEF Progress
<1> QED
  BY <1>3, <1>5, <1>8, <1>9 DEF Stream

\* parseRequest() has taken a line it accepts.
LEMMA StreamLine ==
  ASSUME NEW s \in Seq(WireBytes), NEW rs \in Seq(Requests), NEW w \in Nat,
         NEW waits, NEW j, Stream(s, rs, w, waits, NewContext, j), NEW m \in Nat, FirstLine(s, m),
         NEW x, x = ProcessRequestLine(NewRequest, SubSeq(s, 1, m - 1)), x.ok, NEW k,
         k.state = "kExpectHeaders" /\ k.request = x.request, NEW jj
  PROVE  Stream(Behind(s, m), rs, w, waits, k, jj)
<1>1. PICK line : line = SubSeq(s, 1, m - 1) /\ line \in Seq(WireBytes)
  BY BehindFacts
<1>2. NewContext.state = "kExpectRequestLine"
  BY DEF NewContext
<1>3. PICK start : /\ Placed(start, s, rs) /\ Position(start, rs, w, NewContext.state)
                   /\ waits /\ Len(rs) = w + 1 /\ Bodiless(rs, w) => Progress(start, rs, w + 1, NewContext, j)
  BY DEF Stream
<1>4. HeadsGone(start, rs, w)
  BY <1>2, <1>3 DEF Position
<1>5. IsRequest(NewRequest) /\ NewRequest.headers = <<>>
  BY DEF IsRequest, NewRequest
<1>6. /\ WellFormed(line) /\ IsRequest(x.request) /\ x.request.version = line[3].text
      /\ line[2].kind = "target" => x.request.path = line[2].path
      /\ x.request.headers = <<>>
  BY <1>1, <1>5, LineProcessed
<1>7. PICK z, t : z = Shifted(start, m + 1) /\ t = Behind(s, m)
  OBVIOUS
<1>8. Placed(z, t, rs)
  <2>1. /\ m + 1 \in 0..Len(s) /\ t \in Seq(WireBytes) /\ Len(t) = Len(s) - (m + 1)
        /\ \A i \in 1..Len(t) : t[i] = s[i + (m + 1)]
    BY <1>7, BehindFacts
  <2>2. PICK g \in 0..Len(s) : g = m + 1
    BY <2>1
  <2> QED
    BY <1>3, <1>7, <2>1, <2>2, ShiftPlaced
<1>9. PICK q \in 1..Len(rs) : w < q /\ AtHeader(z, rs, q, 1)
  BY <1>1, <1>3, <1>4, <1>6, <1>7, LineBegins
<1>10. Position(z, rs, w, k.state)
  BY <1>9 DEF Position
<1>11. ASSUME waits, Len(rs) = w + 1, Bodiless(rs, w)
       PROVE  Progress(z, rs, w + 1, k, jj)
  <2>1. q = w + 1
    BY <1>9, <1>11
  <2>2. start[q] = 1
    BY <1>2, <1>3, <1>11, <2>1 DEF Progress
  <2>3. PICK r \in Requests : r = rs[q]
    OBVIOUS
  <2>4. line = r.line
    BY <1>1, <1>3, <2>2, <2>3, LineOfLast
  <2>5. ~Malformed(r)
    BY <1>6, <2>4 DEF WellFormed, Malformed
  <2>6. line[2].kind = "target"
    BY <1>6, <2>4, RequestTyped DEF WellFormed
  <2>7. HeadersAre(<<>>, r.headers, 0)
    <3>1. DOMAIN <<>> = {} /\ 1..0 = {}
      OBVIOUS
    <3> QED
      BY <3>1 DEF HeadersAre
  <2>8. RequestIs(k.request, r, 0)
    BY <1>6, <2>4, <2>5, <2>6, <2>7 DEF RequestIs
  <2>9. AtHeader(z, rs, w + 1, 0 + 1)
    BY <1>9, <2>1
  <2> QED
    BY <2>1, <2>3, <2>8, <2>9 DEF Progress
<1> QED
  BY <1>7, <1>8, <1>10, <1>11 DEF Stream

\* A line that is refused is that of a request which has no answer; it is
\* malformed if the client waits.
LEMMA StreamRefused ==
  ASSUME NEW s \in Seq(WireBytes), NEW rs \in Seq(Requests), NEW w \in Nat,
         NEW waits, NEW j, Stream(s, rs, w, waits, NewContext, j), NEW m \in Nat, FirstLine(s, m),
         NEW x, x = ProcessRequestLine(NewRequest, SubSeq(s, 1, m - 1)), ~x.ok
  PROVE  /\ w < Len(rs)
         /\ waits /\ Len(rs) = w + 1 /\ Bodiless(rs, w) => Malformed(rs[w + 1])
<1>1. PICK line : line = SubSeq(s, 1, m - 1) /\ line \in Seq(WireBytes)
  BY BehindFacts
<1>2. NewContext.state = "kExpectRequestLine"
  BY DEF NewContext
<1>3. PICK start : /\ Placed(start, s, rs) /\ Position(start, rs, w, NewContext.state)
                   /\ waits /\ Len(rs) = w + 1 /\ Bodiless(rs, w) => Progress(start, rs, w + 1, NewContext, j)
  BY DEF Stream
<1>4. HeadsGone(start, rs, w)
  BY <1>2, <1>3 DEF Position
<1>5. IsRequest(NewRequest)
  BY DEF IsRequest, NewRequest
<1>6. ~WellFormed(line)
  BY <1>1, <1>5, LineProcessed
<1>7. PICK q \in 1..Len(rs) : w < q
  BY <1>3, <1>4, BehindFacts, LaterLine
<1>8. ASSUME waits, Len(rs) = w + 1, Bodiless(rs, w)
      PROVE  Malformed(rs[w + 1])
  <2>1. w + 1 \in 1..Len(rs) /\ start[w + 1] = 1
    BY <1>2, <1>3, <1>8 DEF Progress
  <2>2. line = rs[w + 1].line
    BY <1>1, <1>3, <2>1, LineOfLast
  <2> QED
    BY <1>6, <2>2 DEF WellFormed, Malformed
<1> QED
  BY <1>7, <1>8

\* What the parser makes of a line where it expects a header.
TakesLine(k, line, kk) ==
  IF \E i \in DOMAIN line : line[i].kind = "header"
  THEN /\ kk.state = "kExpectHeaders"
       /\ kk.request = AddHeader(k.request, CHOOSE y \in ToSet(line) : y.kind = "header")
  ELSE kk.state = "kExpectBody" /\ kk.request = k.request

\* parseRequest() has taken a line of the headers.
LEMMA StreamHeader ==
  ASSUME NEW s \in Seq(WireBytes), NEW rs \in Seq(Requests), NEW w \in Nat, NEW waits, NEW k, NEW j,
         k.state = "kExpectHeaders", Stream(s, rs, w, waits, k, j), NEW m \in Nat, FirstLine(s, m),
         NEW line, line = SubSeq(s, 1, m - 1), NEW kk, NEW jj,
         TakesLine(k, line, kk)
  PROVE  Stream(Behind(s, m), rs, w, waits, kk, jj)
<1>1. PICK start : /\ Placed(start, s, rs) /\ Position(start, rs, w, k.state)
                   /\ waits /\ Len(rs) = w + 1 /\ Bodiless(rs, w) => Progress(start, rs, w + 1, k, j)
  BY DEF Stream
<1>2. PICK q \in 1..Len(rs), h \in Nat : w < q /\ AtHeader(start, rs, q, h)
  BY <1>1 DEF Position
<1>3. PICK z, t : z = Shifted(start, m + 1) /\ t = Behind(s, m)
  OBVIOUS
<1>4. Placed(z, t, rs)
  <2>1. /\ m + 1 \in 0..Len(s) /\ t \in Seq(WireBytes) /\ Len(t) = Len(s) - (m + 1)
        /\ \A i \in 1..Len(t) : t[i] = s[i + (m + 1)]
    BY <1>3, BehindFacts
  <2>2. PICK g \in 0..Len(s) : g = m + 1
    BY <2>1
  <2> QED
    BY <1>1, <1>3, <2>1, <2>2, ShiftPlaced
<1>5. PICK r \in Requests, a \in Int, L \in Nat, H \in Nat, n \in Nat : Layout(start, rs, q, r, a, L, H, n)
  BY <1>1, LaidOut
<1>6. r = rs[q] /\ Len(r.headers) = H /\ Measures(r, L, H, n)
  BY <1>5 DEF Layout, Measures
<1>7. \/ h \in 1..H /\ line = <<r.headers[h]>> /\ AtHeader(z, rs, q, h + 1)
      \/ h = H + 1 /\ line = <<>> /\ z[q] + HeadLen(r) <= 1
  <2>1. HeaderNext(z, rs, q, h, line)
    BY <1>1, <1>2, <1>3, HeaderBegins
  <2> QED
    BY <1>6, <2>1 DEF HeaderNext
<1>8. ASSUME waits, Len(rs) = w + 1, Bodiless(rs, w)
      PROVE  q = w + 1 /\ \E g \in Nat : g + 1 = h /\ RequestIs(k.request, r, g)
  <2>1. q = w + 1
    BY <1>2, <1>8
  <2>2. PICK g \in Nat : AtHeader(start, rs, q, g + 1) /\ RequestIs(k.request, rs[q], g)
    BY <1>1, <1>8, <2>1 DEF Progress
  <2>3. Len(rs[q].line) = L /\ start[q] = a
    BY <1>5 DEF Layout, Measures
  <2>4. a + L + 3 * (g + 1) = 2 /\ a + L + 3 * h = 2
    BY <1>2, <2>2, <2>3 DEF AtHeader
  <2>5. g + 1 = h
    BY <2>4
  <2> QED
    BY <1>6, <2>1, <2>2, <2>5
<1>9. CASE h \in 1..H /\ line = <<r.headers[h]>> /\ AtHeader(z, rs, q, h + 1)
  <2>1. PICK word : word = r.headers[h]
    OBVIOUS
  <2>2. PICK f, v : word = Header(f, v) /\ word = r.headers[h]
    <3>1. h \in 1..Len(r.headers)
      BY <1>6, <1>9
    <3>2. \A i \in 1..Len(r.headers) : \E f, v : r.headers[i] = Header(f, v)
      BY RequestTyped
    <3> QED
      BY <2>1, <3>1, <3>2
  <2>3. word.kind = "header"
    BY <2>2 DEF Header
  <2>4. /\ line = <<word>> /\ \E i \in DOMAIN line : line[i].kind = "header"
        /\ ToSet(line) = {word}
    <3>1. line = <<word>>
      BY <1>9, <2>2
    <3>2. DOMAIN <<word>> = {1} /\ <<word>>[1] = word
      OBVIOUS
    <3>3. DOMAIN line = {1} /\ line[1] = word
      BY <3>1, <3>2
    <3> QED
      BY <2>3, <3>1, <3>3 DEF ToSet
  <2>5. (CHOOSE y \in ToSet(line) : y.kind = "header") = word
    BY <2>3, <2>4
  <2>6. kk.state = "kExpectHeaders" /\ kk.request = AddHeader(k.request, word)
    BY <2>4, <2>5 DEF TakesLine
  <2>7. Position(z, rs, w, kk.state)
    BY <1>2, <1>9, <2>6 DEF Position
  <2>8. ASSUME waits, Len(rs) = w + 1, Bodiless(rs, w)
        PROVE  Progress(z, rs, w + 1, kk, jj)
    <3>1. PICK g \in Nat : q = w + 1 /\ g + 1 = h /\ RequestIs(k.request, r, g)
      BY <1>8, <2>8
    <3>2. PICK hs : hs = r.headers /\ hs[g + 1] = Header(f, v) /\ hs[g + 1] = word
      BY <2>2, <3>1
    <3>3. IsRequest(k.request) /\ HeadersAre(k.request.headers, hs, g)
      BY <3>1, <3>2 DEF RequestIs
    <3>4. /\ IsRequest(kk.request) /\ kk.request.path = k.request.path
          /\ kk.request.version = k.request.version /\ HeadersAre(kk.request.headers, hs, g + 1)
      <4>1. PICK x, y : x = kk.request /\ y = k.request
        OBVIOUS
      <4>2. x = AddHeader(y, hs[g + 1]) /\ IsRequest(y) /\ HeadersAre(y.headers, hs, g)
        BY <2>6, <3>2, <3>3, <4>1
      <4>3. hs[g + 1] = Header(f, v)
        BY <3>2
      <4>4. IsRequest(x) /\ x.path = y.path /\ x.version = y.version /\ HeadersAre(x.headers, hs, g + 1)
        BY <4>2, <4>3, HeaderAdded
      <4> QED
        BY <4>1, <4>4
    <3>5. RequestIs(kk.request, r, h)
      BY <3>1, <3>2, <3>4 DEF RequestIs
    <3> QED
      BY <1>6, <1>9, <2>6, <3>1, <3>5 DEF Progress
  <2> QED
    BY <1>3, <1>4, <2>7, <2>8 DEF Stream
<1>10. CASE h = H + 1 /\ line = <<>> /\ z[q] + HeadLen(r) <= 1
  <2>1. kk.state = "kExpectBody" /\ kk.request = k.request
    <3>1. DOMAIN line = {}
      BY <1>10
    <3> QED
      BY <3>1 DEF TakesLine
  <2>2. HeadsGone(z, rs, w + 1)
    <3>1. w + 1 \in Nat /\ w + 1 <= q
      BY <1>2
    <3> QED
      BY <1>4, <1>6, <1>10, <3>1, GoneBefore
  <2>3. w < Len(rs)
    BY <1>2
  <2>4. Position(z, rs, w, kk.state)
    BY <2>1, <2>2, <2>3 DEF Position
  <2>5. ASSUME waits, Len(rs) = w + 1, Bodiless(rs, w)
        PROVE  Progress(z, rs, w + 1, kk, jj)
    <3>1. PICK g \in Nat : q = w + 1 /\ g + 1 = h /\ RequestIs(k.request, r, g)
      BY <1>8, <2>5
    <3>2. g = H
      BY <1>10, <3>1
    <3> QED
      BY <1>6, <2>1, <3>1, <3>2 DEF Progress
  <2> QED
    BY <1>3, <1>4, <2>4, <2>5 DEF Stream
<1> QED
  BY <1>7, <1>9, <1>10

\* The request is complete, and the callback begins with it.
GetsAll(k, kk, jj) ==
  /\ kk.state = "kGotAll" /\ \E body : kk.request = [k.request EXCEPT !.body = body]
  /\ jj.request = kk.request /\ jj.status = "200" /\ jj.close = MustClose(kk.request)

\* parseRequest() has taken the body, all that has arrived, and the callback begins.
LEMMA StreamBody ==
  ASSUME NEW s \in Seq(WireBytes), NEW rs \in Seq(Requests), NEW w \in Nat, NEW waits, NEW k, NEW j,
         k.state = "kExpectBody", Stream(s, rs, w, waits, k, j),
         NEW d \in 0..Len(s), NEW t \in Seq(WireBytes), Len(t) = Len(s) - d,
         \A i \in 1..Len(t) : t[i] = s[i + d],
         NEW kk, NEW jj, GetsAll(k, kk, jj)
  PROVE  Stream(t, rs, w, waits, kk, jj)
<1>1. /\ kk.state = "kGotAll" /\ jj.request = kk.request /\ jj.status = "200"
      /\ jj.close = MustClose(kk.request)
  BY DEF GetsAll
<1>2. PICK start : /\ Placed(start, s, rs) /\ Position(start, rs, w, k.state)
                   /\ waits /\ Len(rs) = w + 1 /\ Bodiless(rs, w) => Progress(start, rs, w + 1, k, j)
  BY DEF Stream
<1>3. PICK z : z = Shifted(start, d) /\ Placed(z, t, rs)
  BY <1>2, ShiftPlaced
<1>4. Position(z, rs, w, kk.state)
  <2>1. w < Len(rs) /\ HeadsGone(start, rs, w + 1)
    BY <1>2 DEF Position
  <2>2. w + 1 \in Nat /\ w + 1 <= Len(rs) /\ d \in Nat
    BY <2>1
  <2>3. HeadsGone(z, rs, w + 1)
    BY <1>2, <1>3, <2>1, <2>2, GoneShifted
  <2> QED
    BY <1>1, <2>1, <2>3 DEF Position
<1>5. ASSUME waits, Len(rs) = w + 1, Bodiless(rs, w)
      PROVE  Progress(z, rs, w + 1, kk, jj)
  <2>1. w + 1 \in 1..Len(rs)
    BY <1>5
  <2>2. PICK r \in Requests, L \in Nat, H \in Nat, n \in Nat : r = rs[w + 1] /\ Measures(r, L, H, n)
    BY <2>1, RequestMeasured
  <2>3. PICK x, y : x = k.request /\ y = kk.request
    OBVIOUS
  <2>4. RequestIs(x, r, H)
    BY <1>2, <1>5, <2>2, <2>3 DEF Progress, Measures
  <2>5. IsRequest(y) /\ y.path = x.path /\ y.version = x.version /\ y.headers = x.headers
    <3>1. PICK a1, a2, a3, a4, a5, a6 :
            x = [method |-> a1, version |-> a2, path |-> a3, query |-> a4, headers |-> a5, body |-> a6]
      BY <2>4 DEF RequestIs, IsRequest
    <3>2. PICK body : y = [x EXCEPT !.body = body]
      BY <2>3 DEF GetsAll
    <3>3. y = [method |-> a1, version |-> a2, path |-> a3, query |-> a4, headers |-> a5, body |-> body]
      BY <3>1, <3>2
    <3> QED
      BY <3>1, <3>3 DEF IsRequest
  <2>6. RequestIs(y, r, H)
    BY <2>4, <2>5 DEF RequestIs
  <2>7. MustClose(y) <=> AsksToClose(r)
    BY <2>2, <2>6, ClosesAsAsked
  <2>8. jj.close = (AsksToClose(r) \/ jj.status = "404")
    <3>1. PICK A, B : A = MustClose(y) /\ B = AsksToClose(r) /\ A \in BOOLEAN /\ B \in BOOLEAN
      BY DEF MustClose, AsksToClose
    <3>2. jj.close = A /\ A = B
      BY <1>1, <2>3, <2>7, <3>1
    <3>3. jj.status # "404"
      BY <1>1
    <3> QED
      BY <3>1, <3>2, <3>3
  <2>9. Decided(jj, r)
    BY <1>1, <2>3, <2>6, <2>8 DEF Decided, RequestIs
  <2> QED
    BY <1>1, <2>2, <2>9 DEF Progress
<1> QED
  BY <1>3, <1>4, <1>5 DEF Stream

\* The answer is to the next request, and is the right one if the client waits.
LEMMA StreamAnswered ==
  ASSUME NEW s, NEW rs \in Seq(Requests), NEW w \in Nat, NEW waits, NEW k, NEW j, NEW jj,
         k.state = "kGotAll", Stream(s, rs, w, waits, k, j), waits => Len(rs) <= w + 1
  PROVE  /\ w < Len(rs) /\ Stream(s, rs, w + 1, waits, NewContext, jj)
         /\ waits /\ Bodiless(rs, w) => Answers(Response(j), rs[w + 1])
<1>1. PICK start : /\ Placed(start, s, rs) /\ Position(start, rs, w, k.state)
                   /\ waits /\ Len(rs) = w + 1 /\ Bodiless(rs, w) => Progress(start, rs, w + 1, k, j)
  BY DEF Stream
<1>2. w < Len(rs) /\ HeadsGone(start, rs, w + 1)
  BY <1>1 DEF Position
<1>3. NewContext.state = "kExpectRequestLine"
  BY DEF NewContext
<1>4. Position(start, rs, w + 1, NewContext.state)
  BY <1>2, <1>3 DEF Position
<1>5. waits => Len(rs) # (w + 1) + 1
  OBVIOUS
<1>6. ASSUME waits, Bodiless(rs, w)
      PROVE  Answers(Response(j), rs[w + 1])
  <2>1. Len(rs) = w + 1
    BY <1>2, <1>6
  <2>2. Decided(j, rs[w + 1])
    BY <1>1, <1>6, <2>1 DEF Progress
  <2>3. /\ Response(j).status = j.status /\ Response(j).close = j.close
        /\ Response(j).path = j.request.path
    BY DEF Response
  <2> QED
    BY <2>2, <2>3 DEF Decided, Answers
<1> QED
  BY <1>1, <1>2, <1>4, <1>5, <1>6 DEF Stream

\* Outside the callback the job does not matter.
LEMMA StreamIdle ==
  ASSUME NEW s, NEW rs, NEW w, NEW waits, NEW k, NEW j, NEW jj, k.state # "kGotAll",
         Stream(s, rs, w, waits, k, j)
  PROVE  Stream(s, rs, w, waits, k, jj)
<1>1. \A start : Progress(start, rs, w + 1, k, j) => Progress(start, rs, w + 1, k, jj)
  BY DEF Progress
<1> QED
  BY <1>1 DEF Stream

\* A step of the callback keeps status and close, or is that of a path that is not found.
Continues(j, jj) ==
  /\ jj.request = j.request
  /\ \/ jj.status = j.status /\ jj.close = j.close
     \/ jj.status = "404" /\ jj.close = TRUE

\* What the callback has decided holds on.
LEMMA StreamCalled ==
  ASSUME NEW s, NEW rs, NEW w, NEW waits, NEW k, NEW j, NEW jj, Continues(j, jj),
         Stream(s, rs, w, waits, k, j)
  PROVE  Stream(s, rs, w, waits, k, jj)
<1>1. \A r : Decided(j, r) => Decided(jj, r)
  <2> SUFFICES ASSUME NEW r, Decided(j, r)
               PROVE  Decided(jj, r)
    OBVIOUS
  <2>1. CASE jj.status = j.status /\ jj.close = j.close
    BY <2>1 DEF Decided, Continues
  <2>2. CASE jj.status = "404" /\ jj.close = TRUE
    BY <2>2 DEF Decided, Continues
  <2> QED
    BY <2>1, <2>2 DEF Continues
<1>2. \A start : Progress(start, rs, w + 1, k, j) => Progress(start, rs, w + 1, k, jj)
  BY <1>1 DEF Progress
<1> QED
  BY <1>2 DEF Stream

\* While a request waits for its answer, there is a line to be parsed.
LEMMA StreamHasLine ==
  ASSUME NEW s \in Seq(WireBytes), NEW rs \in Seq(Requests), NEW w \in Nat, NEW waits, NEW k, NEW j,
         Stream(s, rs, w, waits, k, j), waits, Len(rs) = w + 1, Bodiless(rs, w),
         k.state \in {"kExpectRequestLine", "kExpectHeaders"}
  PROVE  ~NoLine(s)
<1>1. PICK start : Placed(start, s, rs) /\ Progress(start, rs, w + 1, k, j)
  BY DEF Stream
<1>2. w + 1 \in 1..Len(rs)
  OBVIOUS
<1>3. CASE k.state = "kExpectRequestLine"
  <2>1. start[w + 1] = 1
    BY <1>1, <1>3 DEF Progress
  <2> QED
    BY <1>1, <1>2, <2>1, LineOfLast
<1>4. CASE k.state = "kExpectHeaders"
  <2>1. PICK h \in Nat : AtHeader(start, rs, w + 1, h + 1)
    BY <1>1, <1>4 DEF Progress
  <2>2. h + 1 \in Nat
    OBVIOUS
  <2> QED
    BY <1>1, <1>2, <2>1, <2>2, HeaderBegins
<1> QED
  BY <1>3, <1>4

\* The first line of the buffer is the first line of what is left.
LEMMA LineOfPending ==
  ASSUME NEW s \in Seq(WireBytes), NEW t \in Seq(WireBytes), NEW m \in Nat, FirstLine(s, m)
  PROVE  /\ FirstLine(s \o t, m) /\ SubSeq(s \o t, 1, m - 1) = SubSeq(s, 1, m - 1)
         /\ Behind(s \o t, m) = Behind(s, m) \o t
<1>1. PICK l \in Nat, d \in Nat : l = Len(s) /\ d = Len(t) /\ m \in 1..(l - 1)
  BY DEF FirstLine
<1>2. PICK p : p = s \o t
  OBVIOUS
<1>3. /\ p \in Seq(WireBytes) /\ Len(p) = l + d /\ \A i \in 1..l : p[i] = s[i]
      /\ \A i \in (l + 1)..(l + d) : p[i] = t[i - l]
  BY <1>1, <1>2, ConcatFacts
<1>4. FirstLine(p, m)
  <2>1. m \in 1..(Len(p) - 1) /\ m \in 1..l /\ m + 1 \in 1..l
    BY <1>1, <1>3
  <2>2. LineEnd(p, m)
    BY <1>3, <2>1 DEF FirstLine, LineEnd
  <2>3. \A i \in 1..(m - 1) : i \in 1..l /\ i + 1 \in 1..l
    BY <1>1
  <2>4. \A i \in 1..(m - 1) : ~LineEnd(p, i)
    BY <1>3, <2>3 DEF FirstLine, LineEnd
  <2> QED
    BY <2>1, <2>2, <2>4 DEF FirstLine
<1>5. SubSeq(p, 1, m - 1) = SubSeq(s, 1, m - 1)
  <2>1. PICK x, y : x = SubSeq(p, 1, m - 1) /\ y = SubSeq(s, 1, m - 1)
    OBVIOUS
  <2>2. x \in Seq(WireBytes) /\ Len(x) = m - 1 /\ \A i \in 1..(m - 1) : x[i] = p[i]
    BY <1>3, <1>4, <2>1, BehindFacts
  <2>3. y \in Seq(WireBytes) /\ Len(y) = m - 1 /\ \A i \in 1..(m - 1) : y[i] = s[i]
    BY <2>1, BehindFacts
  <2>4. \A i \in 1..(m - 1) : i \in 1..l
    BY <1>1
  <2>5. x = y
    <3>1. Len(x) = Len(y) /\ \A i \in 1..Len(x) : x[i] = y[i]
      BY <1>3, <2>2, <2>3, <2>4
    <3> QED
      BY <2>2, <2>3, <3>1, SeqEqual
  <2> QED
    BY <2>1, <2>5
<1>6. Behind(p, m) = Behind(s, m) \o t
  <2>1. PICK x, y : x = Behind(p, m) /\ y = Behind(s, m)
    OBVIOUS
  <2>2. x \in Seq(WireBytes) /\ Len(x) = (l + d) - (m + 1) /\ \A i \in 1..Len(x) : x[i] = p[i + (m + 1)]
    <3>1. p \in Seq(WireBytes) /\ Len(p) = l + d
      BY <1>3
    <3>2. x \in Seq(WireBytes) /\ Len(x) = Len(p) - (m + 1) /\ \A i \in 1..Len(x) : x[i] = p[i + (m + 1)]
      BY <3>1, <1>4, <2>1, BehindFacts
    <3> QED
      BY <3>1, <3>2
  <2>3. y \in Seq(WireBytes) /\ Len(y) = l - (m + 1) /\ \A i \in 1..Len(y) : y[i] = s[i + (m + 1)]
    BY <1>1, <2>1, BehindFacts
  <2>4. PICK e \in Nat : e = l - (m + 1)
    BY <1>1
  <2>5. PICK u : u = y \o t
    OBVIOUS
  <2>6. /\ u \in Seq(WireBytes) /\ Len(u) = e + d /\ \A i \in 1..e : u[i] = y[i]
        /\ \A i \in (e + 1)..(e + d) : u[i] = t[i - e]
    <3>1. /\ u \in Seq(WireBytes) /\ Len(u) = Len(y) + Len(t) /\ \A i \in 1..Len(y) : u[i] = y[i]
          /\ \A i \in (Len(y) + 1)..(Len(y) + Len(t)) : u[i] = t[i - Len(y)]
      BY <2>3, <2>5, ConcatFacts
    <3> QED
      BY <1>1, <2>3, <2>4, <3>1
  <2>7. Len(x) = e + d
    BY <1>1, <2>2, <2>4
  <2>8. ASSUME NEW i \in 1..(e + d)
        PROVE  x[i] = u[i]
    <3>1. x[i] = p[i + (m + 1)]
      BY <2>2, <2>7
    <3>2. CASE i \in 1..e
      <4>1. i + (m + 1) \in 1..l
        BY <1>1, <2>4, <3>2
      <4> QED
        BY <1>3, <2>3, <2>4, <2>6, <3>1, <3>2, <4>1
    <3>3. CASE i \in (e + 1)..(e + d)
      <4>1. i + (m + 1) \in (l + 1)..(l + d) /\ (i + (m + 1)) - l = i - e
        BY <1>1, <2>4, <3>3
      <4>2. p[i + (m + 1)] = t[(i + (m + 1)) - l]
        BY <1>3, <4>1
      <4> QED
        BY <2>6, <3>1, <3>3, <4>1, <4>2
    <3> QED
      BY <3>2, <3>3
  <2>9. x = u
    BY <2>2, <2>6, <2>7, <2>8, SeqEqual
  <2> QED
    BY <2>1, <2>5, <2>9
<1> QED
  BY <1>2, <1>4, <1>5, <1>6

-----------------------------------------------------------------------------
(* A connection: the requests rs asked and the answers ws written on it,   *)
(* its bytes n on the way, its state, buffer and context, and the job j of *)
(* its thread.                                                             *)

Counted(waits, rs, ws) ==
  /\ Len(ws) <= Len(rs)
  /\ waits => /\ Len(rs) <= Len(ws) + 1
              /\ (\E i \in DOMAIN ws : ws[i].close) => Len(rs) = Len(ws)
              /\ \A i \in DOMAIN ws : Bodiless(rs, i - 1) => Answers(ws[i], rs[i])

Parses(j, c) == j.at = "parse" /\ j.conn = c
Calls(j, c) == j.at \in InCallback /\ j.conn = c
Elsewhere(j, c) == ~Parses(j, c) /\ ~Calls(j, c)

\* Who works on a connection, and what the parser has left.
Staged(c, state, b, k, j) ==
  /\ ~Elsewhere(j, c) => state # "kDisconnected"
  /\ state # "kDisconnected" =>
       /\ k.state \in {"kExpectRequestLine", "kExpectHeaders", "kExpectBody", "kGotAll"}
       /\ Calls(j, c) <=> k.state = "kGotAll"
       /\ k.state = "kExpectBody" => Parses(j, c)
  /\ state = "kConnected" =>
       /\ k.state = "kExpectRequestLine" => k = NewContext
       /\ ~Parses(j, c) => NoLine(Content(b))

Conn(c, waits, rs, n, state, b, k, ws, j) ==
  /\ Counted(waits, rs, ws)
  /\ Staged(c, state, b, k, j)
  /\ state = "kConnected" => Stream(Content(b) \o n, rs, Len(ws), waits, k, j)
  /\ state = "kDisconnected" => n = <<>>

\* What the job of a thread may do without being felt on a connection.
JobStep(j, jj, c) ==
  \/ jj = j
  \/ Elsewhere(j, c) /\ Elsewhere(jj, c)
  \/ Calls(j, c) /\ Calls(jj, c) /\ Continues(j, jj)

\* A thread parses or is in the callback, not both.
LEMMA OneStage ==
  ASSUME NEW j, NEW c, Calls(j, c)
  PROVE  ~Parses(j, c)
  BY DEF Calls, Parses, InCallback

\* The step of a job that works elsewhere, or goes on in the callback.
LEMMA ConnKept ==
  ASSUME NEW c, NEW waits, NEW rs, NEW n, NEW state, NEW b, NEW k, NEW ws, NEW j, NEW jj,
         Conn(c, waits, rs, n, state, b, k, ws, j), JobStep(j, jj, c)
  PROVE  Conn(c, waits, rs, n, state, b, k, ws, jj)
<1>1. CASE jj = j
  BY <1>1
<1>2. CASE Elsewhere(j, c) /\ Elsewhere(jj, c)
  <2>1. Staged(c, state, b, k, jj)
    BY <1>2 DEF Conn, Staged, Elsewhere
  <2>2. ASSUME state = "kConnected"
        PROVE  Stream(Content(b) \o n, rs, Len(ws), waits, k, jj)
    <3>1. k.state # "kGotAll"
      BY <1>2, <2>2 DEF Conn, Staged, Elsewhere
    <3>2. Stream(Content(b) \o n, rs, Len(ws), waits, k, j)
      BY <2>2 DEF Conn
    <3> QED
      BY <3>1, <3>2, StreamIdle
  <2> QED
    BY <2>1, <2>2 DEF Conn
<1>3. CASE Calls(j, c) /\ Calls(jj, c) /\ Continues(j, jj)
  <2>1. ~Parses(j, c) /\ ~Parses(jj, c)
    BY <1>3, OneStage
  <2>2. Staged(c, state, b, k, jj)
    BY <1>3, <2>1 DEF Conn, Staged, Elsewhere
  <2>3. ASSUME state = "kConnected"
        PROVE  Stream(Content(b) \o n, rs, Len(ws), waits, k, jj)
    <3>1. Stream(Content(b) \o n, rs, Len(ws), waits, k, j)
      BY <2>3 DEF Conn
    <3> QED
      BY <1>3, <3>1, StreamCalled
  <2> QED
    BY <2>2, <2>3 DEF Conn
<1> QED
  BY <1>1, <1>2, <1>3 DEF JobStep

\* A new connection.
LEMMA ConnStarts ==
  ASSUME NEW c, NEW waits, NEW b, Content(b) = <<>>, NEW j, Elsewhere(j, c)
  PROVE  Conn(c, waits, <<>>, <<>>, "kConnected", b, NewContext, <<>>, j)
<1>1. PICK k : k = NewContext /\ k.state = "kExpectRequestLine"
  <2>1. NewContext.state = "kExpectRequestLine"
    BY DEF NewContext
  <2> QED
    BY <2>1
<1>2. Counted(waits, <<>>, <<>>)
  BY DEF Counted
<1>3. NoLine(Content(b))
  BY DEF NoLine
<1>4. Staged(c, "kConnected", b, k, j)
  BY <1>1, <1>3 DEF Staged, Elsewhere
<1>5. Content(b) \o <<>> = <<>> /\ Len(<<>>) = 0
  OBVIOUS
<1>6. Stream(<<>>, <<>>, 0, waits, k, j)
  BY <1>1, StreamStarts
<1> QED
  BY <1>1, <1>2, <1>4, <1>5, <1>6 DEF Conn

\* The end of a connection.
LEMMA ConnEnds ==
  ASSUME NEW c, NEW waits, NEW rs, NEW b, NEW k, NEW ws, NEW j, Elsewhere(j, c),
         Counted(waits, rs, ws)
  PROVE  Conn(c, waits, rs, <<>>, "kDisconnected", b, k, ws, j)
  BY DEF Conn, Staged

\* Another request is counted.
LEMMA AskCounted ==
  ASSUME NEW waits, NEW rs \in Seq(Requests), NEW ws, IsSeq(ws), Counted(waits, rs, ws),
         waits => Len(ws) = Len(rs), ~\E i \in DOMAIN ws : ws[i].close, NEW r \in Requests
  PROVE  Counted(waits, Append(rs, r), ws)
<1>1. PICK w \in Nat, m \in Nat : w = Len(ws) /\ m = Len(rs) /\ w <= m /\ DOMAIN ws = 1..w
  BY AppendAny DEF Counted
<1>2. PICK a : a = Append(rs, r)
  OBVIOUS
<1>3. Len(a) = m + 1 /\ \A i \in 1..m : a[i] = rs[i]
  BY <1>1, <1>2, AppendFacts
<1>4. ASSUME NEW i \in 1..w
      PROVE  a[i] = rs[i] /\ (Bodiless(a, i - 1) => Bodiless(rs, i - 1))
  <2>1. i \in 1..m /\ \A q \in 1..(i - 1) : q \in 1..m
    BY <1>1
  <2> QED
    BY <1>3, <2>1 DEF Bodiless
<1>5. w <= m + 1 /\ (waits => m + 1 <= w + 1)
  BY <1>1
<1>6. waits => \A i \in DOMAIN ws : Bodiless(a, i - 1) => Answers(ws[i], a[i])
  BY <1>1, <1>4 DEF Counted
<1> QED
  BY <1>1, <1>2, <1>3, <1>5, <1>6 DEF Counted

\* The client asks again.
LEMMA ConnAsks ==
  ASSUME NEW c, NEW waits, NEW rs \in Seq(Requests), NEW n \in Seq(WireBytes), NEW b,
         IsBuffer(b, WireBytes), NEW k, NEW ws, IsSeq(ws), NEW j, NEW r \in Requests,
         Conn(c, waits, rs, n, "kConnected", b, k, ws, j),
         waits => Len(ws) = Len(rs), ~\E i \in DOMAIN ws : ws[i].close
  PROVE  Conn(c, waits, Append(rs, r), n \o Encoding(r), "kConnected", b, k, ws, j)
<1>1. Counted(waits, Append(rs, r), ws)
  BY AskCounted DEF Conn
<1>2. Encoding(r) \in Seq(WireBytes)
  <2>1. PICK L \in Nat, H \in Nat, d \in Nat : Measures(r, L, H, d)
    BY RequestMeasured
  <2>2. Encoded(r, Encoding(r), L, H, d)
    BY <2>1, EncodingFacts
  <2> QED
    BY <2>2 DEF Encoded
<1>3. Content(b) \in Seq(WireBytes)
  BY ContentTyped
<1>4. PICK s \in Seq(WireBytes) : s = Content(b) \o n
  BY <1>3, ConcatFacts
<1>5. Content(b) \o (n \o Encoding(r)) = s \o Encoding(r)
  BY <1>2, <1>3, <1>4, ConcatAssociates
<1>6. PICK w \in Nat : w = Len(ws) /\ w <= Len(rs)
  BY AppendAny DEF Conn, Counted
<1>7. Stream(s, rs, w, waits, k, j)
  BY <1>4, <1>6 DEF Conn
<1>8. Stream(s \o Encoding(r), Append(rs, r), w, waits, k, j)
  BY <1>6, <1>7, StreamAsked
<1> QED
  BY <1>1, <1>5, <1>6, <1>8 DEF Conn

\* A read takes bytes from the network to the buffer.
LEMMA ConnReads ==
  ASSUME NEW c, NEW waits, NEW rs, NEW n \in Seq(WireBytes), NEW state, state # "kDisconnected",
         NEW b, IsBuffer(b, WireBytes), NEW k, NEW ws, NEW j, NEW jj, NEW i \in 0..Len(n), NEW bb,
         Conn(c, waits, rs, n, state, b, k, ws, j), Elsewhere(j, c), Parses(jj, c),
         Content(bb) = Content(b) \o SubSeq(n, 1, i)
  PROVE  Conn(c, waits, rs, SubSeq(n, i + 1, Len(n)), state, bb, k, ws, jj)
<1>1. PICK p, q : p = SubSeq(n, 1, i) /\ q = SubSeq(n, i + 1, Len(n))
  OBVIOUS
<1>2. p \in Seq(WireBytes) /\ q \in Seq(WireBytes) /\ p \o q = n
  BY <1>1, SplitJoins, ZenonT(40)
<1>3. Content(b) \in Seq(WireBytes)
  BY ContentTyped
<1>4. Content(bb) \o q = Content(b) \o n
  <2>1. PICK u : u = Content(b)
    OBVIOUS
  <2>2. p \in Seq(WireBytes) /\ q \in Seq(WireBytes) /\ u \in Seq(WireBytes)
    BY <1>2, <1>3, <2>1
  <2>3. (u \o p) \o q = u \o (p \o q)
    BY <2>2, ConcatAssociates, SMTT(30)
  <2> QED
    BY <1>1, <1>2, <2>1, <2>3
<1>5. ~Calls(jj, c)
  BY OneStage
<1>6. Staged(c, state, bb, k, jj)
  BY <1>5 DEF Conn, Staged, Elsewhere
<1>7. ASSUME state = "kConnected"
      PROVE  Stream(Content(bb) \o q, rs, Len(ws), waits, k, jj)
  <2>1. k.state # "kGotAll"
    BY <1>7 DEF Conn, Staged, Elsewhere
  <2>2. Stream(Content(b) \o n, rs, Len(ws), waits, k, j)
    BY <1>7 DEF Conn
  <2> QED
    BY <1>4, <2>1, <2>2, StreamIdle
<1> QED
  BY <1>1, <1>6, <1>7 DEF Conn

\* The parser finds no line, and the thread is done.
LEMMA ConnRests ==
  ASSUME NEW c, NEW waits, NEW rs, NEW n, NEW state, NEW b, NEW k, NEW ws, NEW j, NEW jj, NEW bb,
         Conn(c, waits, rs, n, state, b, k, ws, j), Parses(j, c), Elsewhere(jj, c),
         k.state \in {"kExpectRequestLine", "kExpectHeaders"},
         NoLine(Content(b)), Content(bb) = Content(b)
  PROVE  Conn(c, waits, rs, n, state, bb, k, ws, jj)
<1>1. Staged(c, state, bb, k, jj)
  BY DEF Conn, Staged, Elsewhere
<1>2. ASSUME state = "kConnected"
      PROVE  Stream(Content(bb) \o n, rs, Len(ws), waits, k, jj)
  <2>1. Stream(Content(b) \o n, rs, Len(ws), waits, k, j)
    BY <1>2 DEF Conn
  <2> QED
    BY <2>1, StreamIdle
<1> QED
  BY <1>1, <1>2 DEF Conn

\* The parser goes past a line, to the state of the context kk.
LEMMA ConnMoves ==
  ASSUME NEW c, NEW waits, NEW rs, NEW n, NEW state, NEW b, NEW k, NEW ws, NEW j, NEW bb, NEW kk,
         Conn(c, waits, rs, n, state, b, k, ws, j), Parses(j, c),
         kk.state \in {"kExpectHeaders", "kExpectBody"},
         state = "kConnected" => Stream(Content(bb) \o n, rs, Len(ws), waits, kk, j)
  PROVE  Conn(c, waits, rs, n, state, bb, kk, ws, j)
<1>1. ~Calls(j, c)
  BY OneStage
<1>2. Staged(c, state, bb, kk, j)
  BY <1>1 DEF Conn, Staged
<1> QED
  BY <1>2 DEF Conn

\* A request line that is accepted.
LEMMA ConnLine ==
  ASSUME NEW c, NEW waits, NEW rs \in Seq(Requests), NEW n \in Seq(WireBytes), NEW state, NEW b,
         IsBuffer(b, WireBytes), NEW k, k.state = "kExpectRequestLine", NEW ws, IsSeq(ws), NEW j,
         Conn(c, waits, rs, n, state, b, k, ws, j), Parses(j, c), NEW m \in Nat,
         FirstLine(Content(b), m), NEW bb, Content(bb) = Behind(Content(b), m),
         NEW x, x = ProcessRequestLine(k.request, SubSeq(Content(b), 1, m - 1)), x.ok, NEW kk,
         kk.state = "kExpectHeaders" /\ kk.request = x.request
  PROVE  Conn(c, waits, rs, n, state, bb, kk, ws, j)
<1>1. ASSUME state = "kConnected"
      PROVE  Stream(Content(bb) \o n, rs, Len(ws), waits, kk, j)
  <2>1. k = NewContext /\ Stream(Content(b) \o n, rs, Len(ws), waits, k, j)
    BY <1>1 DEF Conn, Staged
  <2>2. k.request = NewRequest
    BY <2>1 DEF NewContext
  <2>3. PICK s \in Seq(WireBytes) : s = Content(b) \o n
    BY ContentTyped, ConcatFacts
  <2>4. /\ FirstLine(s, m) /\ SubSeq(s, 1, m - 1) = SubSeq(Content(b), 1, m - 1)
        /\ Behind(s, m) = Content(bb) \o n
    <3>1. PICK u : u = Content(b) /\ u \in Seq(WireBytes) /\ FirstLine(u, m)
      BY ContentTyped
    <3>2. PICK v : v = u \o n
      OBVIOUS
    <3>3. FirstLine(v, m) /\ SubSeq(v, 1, m - 1) = SubSeq(u, 1, m - 1) /\ Behind(v, m) = Behind(u, m) \o n
      BY <3>1, <3>2, LineOfPending
    <3> QED
      BY <2>3, <3>1, <3>2, <3>3
  <2>5. PICK w \in Nat : w = Len(ws)
    BY AppendAny
  <2>6. Stream(s, rs, w, waits, NewContext, j)
    BY <2>1, <2>3, <2>5
  <2>7. x = ProcessRequestLine(NewRequest, SubSeq(s, 1, m - 1))
    BY <2>2, <2>4
  <2>8. Stream(Behind(s, m), rs, w, waits, kk, j)
    BY <2>4, <2>6, <2>7, StreamLine
  <2> QED
    BY <2>4, <2>5, <2>8
<1> QED
  BY <1>1, ConnMoves

\* A header, or the line that ends them.
LEMMA ConnHeader ==
  ASSUME NEW c, NEW waits, NEW rs \in Seq(Requests), NEW n \in Seq(WireBytes), NEW state, NEW b,
         IsBuffer(b, WireBytes), NEW k, k.state = "kExpectHeaders", NEW ws, IsSeq(ws), NEW j,
         Conn(c, waits, rs, n, state, b, k, ws, j), Parses(j, c), NEW m \in Nat,
         FirstLine(Content(b), m), NEW bb, Content(bb) = Behind(Content(b), m),
         NEW line, line = SubSeq(Content(b), 1, m - 1), NEW kk, TakesLine(k, line, kk)
  PROVE  Conn(c, waits, rs, n, state, bb, kk, ws, j)
<1>1. ASSUME state = "kConnected"
      PROVE  Stream(Content(bb) \o n, rs, Len(ws), waits, kk, j)
  <2>1. Stream(Content(b) \o n, rs, Len(ws), waits, k, j)
    BY <1>1 DEF Conn
  <2>2. PICK s \in Seq(WireBytes) : s = Content(b) \o n
    BY ContentTyped, ConcatFacts
  <2>3. /\ FirstLine(s, m) /\ SubSeq(s, 1, m - 1) = SubSeq(Content(b), 1, m - 1)
        /\ Behind(s, m) = Content(bb) \o n
    <3>1. PICK u : u = Content(b) /\ u \in Seq(WireBytes) /\ FirstLine(u, m)
      BY ContentTyped
    <3>2. PICK v : v = u \o n
      OBVIOUS
    <3>3. FirstLine(v, m) /\ SubSeq(v, 1, m - 1) = SubSeq(u, 1, m - 1) /\ Behind(v, m) = Behind(u, m) \o n
      BY <3>1, <3>2, LineOfPending
    <3> QED
      BY <2>2, <3>1, <3>2, <3>3
  <2>4. PICK w \in Nat : w = Len(ws)
    BY AppendAny
  <2>5. Stream(s, rs, w, waits, k, j)
    BY <2>1, <2>2, <2>4
  <2>6. line = SubSeq(s, 1, m - 1)
    BY <2>3
  <2>7. Stream(Behind(s, m), rs, w, waits, kk, j)
    BY <2>3, <2>5, <2>6, StreamHeader
  <2> QED
    BY <2>3, <2>4, <2>7
<1>2. kk.state \in {"kExpectHeaders", "kExpectBody"}
  BY DEF TakesLine
<1> QED
  BY <1>1, <1>2, ConnMoves

\* The body begins the callback.
LEMMA ConnBody ==
  ASSUME NEW c, NEW waits, NEW rs \in Seq(Requests), NEW n \in Seq(WireBytes), NEW state, NEW b,
         IsBuffer(b, WireBytes), NEW k, k.state = "kExpectBody", NEW ws, IsSeq(ws), NEW j, NEW jj,
         Conn(c, waits, rs, n, state, b, k, ws, j), Parses(j, c), Calls(jj, c),
         NEW bb, Content(bb) = <<>>, NEW kk, GetsAll(k, kk, jj)
  PROVE  Conn(c, waits, rs, n, state, bb, kk, ws, jj)
<1>1. ~Parses(jj, c) /\ NoLine(Content(bb))
  BY OneStage DEF NoLine
<1>2. Staged(c, state, bb, kk, jj)
  BY <1>1 DEF Conn, Staged, Elsewhere, GetsAll
<1>3. ASSUME state = "kConnected"
      PROVE  Stream(Content(bb) \o n, rs, Len(ws), waits, kk, jj)
  <2>1. PICK p \in Seq(WireBytes) : p = Content(b)
    BY ContentTyped
  <2>2. PICK s : s = p \o n
    OBVIOUS
  <2>3. /\ s \in Seq(WireBytes) /\ Len(s) = Len(p) + Len(n)
        /\ \A i \in (Len(p) + 1)..(Len(p) + Len(n)) : s[i] = n[i - Len(p)]
    BY <2>2, ConcatFacts
  <2>4. PICK d \in Nat, l \in Nat : d = Len(p) /\ l = Len(n)
    OBVIOUS
  <2>5. d \in 0..Len(s) /\ Len(n) = Len(s) - d
    BY <2>3, <2>4
  <2>6. ASSUME NEW i \in 1..Len(n)
        PROVE  n[i] = s[i + d]
    <3>1. i + d \in (d + 1)..(d + l) /\ (i + d) - d = i
      BY <2>4
    <3>2. s[i + d] = n[(i + d) - d]
      BY <2>3, <2>4, <3>1
    <3> QED
      BY <3>1, <3>2
  <2>7. PICK w \in Nat : w = Len(ws)
    BY AppendAny
  <2>8. Stream(s, rs, w, waits, k, j)
    BY <1>3, <2>1, <2>2, <2>7 DEF Conn
  <2>9. Stream(n, rs, w, waits, kk, jj)
    BY <2>3, <2>5, <2>6, <2>8, StreamBody
  <2>10. Content(bb) \o n = n
    OBVIOUS
  <2> QED
    BY <2>7, <2>9, <2>10
<1> QED
  BY <1>2, <1>3 DEF Conn

\* Another answer is counted.
LEMMA AnswerCounted ==
  ASSUME NEW waits, NEW rs \in Seq(Requests), NEW ws, IsSeq(ws), Counted(waits, rs, ws), NEW a,
         NEW w \in Nat, w = Len(ws), w < Len(rs),
         waits /\ Bodiless(rs, w) => Answers(a, rs[w + 1])
  PROVE  Counted(waits, rs, Append(ws, a))
<1>1. PICK m \in Nat : m = Len(rs) /\ w + 1 <= m /\ (waits => m <= w + 1)
  BY DEF Counted
<1>2. PICK x : x = Append(ws, a)
  OBVIOUS
<1>3. /\ Len(x) = w + 1 /\ DOMAIN x = 1..(w + 1) /\ DOMAIN ws = 1..w /\ x[w + 1] = a
      /\ \A i \in 1..w : x[i] = ws[i]
  BY <1>2, AppendAny
<1>4. ASSUME waits, NEW i \in 1..(w + 1), Bodiless(rs, i - 1)
      PROVE  Answers(x[i], rs[i])
  <2>1. CASE i = w + 1
    <3>1. Bodiless(rs, w)
      BY <1>4, <2>1
    <3> QED
      BY <1>3, <1>4, <2>1, <3>1
  <2>2. CASE i \in 1..w
    BY <1>3, <1>4, <2>2 DEF Counted
  <2> QED
    BY <2>1, <2>2
<1> QED
  BY <1>1, <1>2, <1>3, <1>4 DEF Counted

\* A request line that is refused, with a 400 if the connection is open.
LEMMA ConnRefused ==
  ASSUME NEW c, NEW waits, NEW rs \in Seq(Requests), NEW n \in Seq(WireBytes),
         NEW state \in {"kConnected", "kDisconnecting"}, NEW b,
         IsBuffer(b, WireBytes), NEW k, k.state = "kExpectRequestLine", NEW ws, IsSeq(ws), NEW j,
         NEW jj, Conn(c, waits, rs, n, state, b, k, ws, j), Parses(j, c), Elsewhere(jj, c),
         NEW m \in Nat, FirstLine(Content(b), m),
         NEW x, x = ProcessRequestLine(k.request, SubSeq(Content(b), 1, m - 1)), ~x.ok,
         NEW bb, NEW kk, kk.state = "kExpectRequestLine",
         NEW v, v = IF state = "kConnected" THEN Append(ws, BadRequest) ELSE ws
  PROVE  Conn(c, waits, rs, n, "kDisconnecting", bb, kk, v, jj)
<1>1. Staged(c, "kDisconnecting", bb, kk, jj)
  BY DEF Staged, Elsewhere
<1>2. CASE state = "kConnected"
  <2>1. k = NewContext /\ Stream(Content(b) \o n, rs, Len(ws), waits, k, j)
    BY <1>2 DEF Conn, Staged
  <2>2. k.request = NewRequest
    BY <2>1 DEF NewContext
  <2>3. PICK p \in Seq(WireBytes) : p = Content(b)
    BY ContentTyped
  <2>4. PICK s \in Seq(WireBytes) : s = p \o n
    BY ConcatFacts
  <2>5. FirstLine(s, m) /\ SubSeq(s, 1, m - 1) = SubSeq(p, 1, m - 1)
    BY <2>3, <2>4, LineOfPending
  <2>6. PICK w \in Nat : w = Len(ws)
    BY AppendAny
  <2>7. Stream(s, rs, w, waits, NewContext, j)
    BY <2>1, <2>3, <2>4, <2>6
  <2>8. x = ProcessRequestLine(NewRequest, SubSeq(s, 1, m - 1))
    BY <2>2, <2>3, <2>5
  <2>9. w < Len(rs) /\ (waits /\ Len(rs) = w + 1 /\ Bodiless(rs, w) => Malformed(rs[w + 1]))
    BY <2>5, <2>7, <2>8, StreamRefused
  <2>10. waits => Len(rs) = w + 1
    BY <2>6, <2>9 DEF Conn, Counted
  <2>11. BadRequest.status = "400"
    BY DEF BadRequest
  <2>12. waits /\ Bodiless(rs, w) => Answers(BadRequest, rs[w + 1])
    BY <2>9, <2>10, <2>11 DEF Answers
  <2>13. Counted(waits, rs, Append(ws, BadRequest))
    BY <2>6, <2>9, <2>12, AnswerCounted DEF Conn
  <2> QED
    BY <1>1, <1>2, <2>13 DEF Conn
<1>3. CASE state # "kConnected"
  BY <1>1, <1>3 DEF Conn
<1> QED
  BY <1>2, <1>3

\* The answer of the callback, behind which the connection is closed or not.
LEMMA ConnAnswered ==
  ASSUME NEW c, NEW waits, NEW rs \in Seq(Requests), NEW n,
         NEW state \in {"kConnected", "kDisconnecting"}, NEW b, NEW k, NEW ws, IsSeq(ws), NEW j,
         NEW jj, Conn(c, waits, rs, n, state, b, k, ws, j), Calls(j, c), Elsewhere(jj, c),
         NEW v, state = "kConnected" => v = Append(ws, Response(j)), state # "kConnected" => v = ws,
         NEW closed \in {state, "kDisconnecting"}
  PROVE  Conn(c, waits, rs, n, closed, b, NewContext, v, jj)
<1>1. PICK kk : kk = NewContext /\ kk.state = "kExpectRequestLine"
  <2>1. NewContext.state = "kExpectRequestLine"
    BY DEF NewContext
  <2> QED
    BY <2>1
<1>2. ~Parses(j, c) /\ k.state = "kGotAll"
  BY OneStage DEF Conn, Staged
<1>3. closed # "kDisconnected" /\ (closed = "kConnected" => state = "kConnected")
  OBVIOUS
<1>4. closed = "kConnected" => NoLine(Content(b))
  BY <1>2, <1>3 DEF Conn, Staged
<1>5. Staged(c, closed, b, kk, jj)
  BY <1>1, <1>3, <1>4 DEF Staged, Elsewhere
<1>6. CASE state = "kConnected"
  <2>1. PICK w \in Nat : w = Len(ws)
    BY AppendAny
  <2>2. PICK s : s = Content(b) \o n
    OBVIOUS
  <2>3. Stream(s, rs, w, waits, k, j) /\ (waits => Len(rs) <= w + 1)
    BY <1>6, <2>1, <2>2 DEF Conn, Counted
  <2>4. /\ w < Len(rs) /\ Stream(s, rs, w + 1, waits, NewContext, jj)
        /\ waits /\ Bodiless(rs, w) => Answers(Response(j), rs[w + 1])
    BY <1>2, <2>3, StreamAnswered
  <2>5. Counted(waits, rs, Append(ws, Response(j)))
    BY <2>1, <2>4, AnswerCounted DEF Conn
  <2>6. v = Append(ws, Response(j)) /\ Len(v) = w + 1
    BY <1>6, <2>1, AppendAny
  <2> QED
    BY <1>1, <1>3, <1>5, <2>2, <2>4, <2>5, <2>6 DEF Conn
<1>7. CASE state # "kConnected"
  BY <1>1, <1>3, <1>5, <1>7 DEF Conn
<1> QED
  BY <1>6, <1>7

-----------------------------------------------------------------------------
(* The steps of the program.                                               *)

WireTypes ==
  /\ plan \in [Conns -> [requests : Seq(Requests), waits : BOOLEAN, cuts : BOOLEAN]]
  /\ asked \in [Conns -> Seq(Requests)]
  /\ net \in [Conns -> Seq(WireBytes)]
  /\ input = [c \in Conns |-> input[c]] /\ \A c \in Conns : IsBuffer(input[c], WireBytes)

ThreadInv == \A t \in IoThreads : job[t] # NoJob => ThreadOf[job[t].conn] = t

ConnInv(c) ==
  Conn(c, plan[c].waits, asked[c], net[c], tcp[c], input[c], context[c], written[c],
       job[ThreadOf[c]])

AnswersInv == WireTypes /\ ThreadInv /\ \A c \in Conns : ConnInv(c)

\* Nothing of the connection changes, and its thread's job does not concern it.
Untouched(c) ==
  /\ plan'[c].waits = plan[c].waits /\ asked'[c] = asked[c] /\ net'[c] = net[c]
  /\ tcp'[c] = tcp[c] /\ input'[c] = input[c] /\ context'[c] = context[c]
  /\ written'[c] = written[c] /\ JobStep(job[ThreadOf[c]], job'[ThreadOf[c]], c)

\* A connection nothing happens to.
LEMMA UntouchedKept ==
  ASSUME NEW c \in Conns, ConnInv(c), Untouched(c)
  PROVE  ConnInv(c)'
<1>1. Conn(c, plan[c].waits, asked[c], net[c], tcp[c], input[c], context[c], written[c],
           job'[ThreadOf[c]])
  BY ConnKept DEF ConnInv, Untouched
<1> QED
  BY <1>1 DEF ConnInv, Untouched

About(j, c) == j = NoJob \/ j.conn = c

\* A thread that rests or works on c does not work on another connection.
LEMMA NotConcerned ==
  ASSUME NEW j, NEW c, NEW d, About(j, c), d # c
  PROVE  Elsewhere(j, d)
<1>1. NoJob.at \notin InCallback /\ NoJob.at # "parse"
  BY DEF NoJob, InCallback
<1> QED
  BY <1>1 DEF Elsewhere, Parses, Calls, About

\* A thread that rests works on no connection.
LEMMA RestsElsewhere ==
  ASSUME NEW c
  PROVE  Elsewhere(NoJob, c)
<1>1. NoJob.at \notin InCallback /\ NoJob.at # "parse"
  BY DEF NoJob, InCallback
<1> QED
  BY <1>1 DEF Elsewhere, Parses, Calls

\* The step of a thread that works on c is not felt on another connection.
LEMMA OthersJobs ==
  ASSUME NEW t \in IoThreads, OnlyJob(t), NEW c, About(job[t], c), About(job'[t], c),
         NEW d \in Conns, d # c
  PROVE  JobStep(job[ThreadOf[d]], job'[ThreadOf[d]], d)
<1>1. ThreadOf[d] \in IoThreads
  BY HttpAssumption
<1>2. CASE ThreadOf[d] = t
  <2>1. Elsewhere(job[t], d) /\ Elsewhere(job'[t], d)
    BY NotConcerned
  <2> QED
    BY <1>2, <2>1 DEF JobStep
<1>3. CASE ThreadOf[d] # t
  BY <1>1, <1>3 DEF OnlyJob, JobStep
<1> QED
  BY <1>2, <1>3

\* A step of the callback keeps what it has decided, but for a path that is not found.
LEMMA CallContinues ==
  ASSUME ShapeInv, NEW t \in IoThreads, OnRequest(t)
  PROVE  Continues(job[t], job'[t]) /\ UNCHANGED <<plan, asked, net, input>>
<1>1. Callback(t)
  BY CallSteps
<1>2. PICK j : j = job[t] /\ IsCall(j) /\ job = [u \in IoThreads |-> job[u]]
  BY <1>1 DEF Callback, ShapeInv
<1>3. UNCHANGED <<plan, asked, net, input>>
  BY DEF OnRequest, RoutePage, RouteRegisterPage, RouteRegister, RouteJpg, RouteLogin, RouteNotFound,
         HasHField, Insert, Cache, SetFile, Stat, ReadFile, connVars
<1>4. ASSUME NEW k, job' = [job EXCEPT ![t] = k], k.status = j.status /\ k.close = j.close
      PROVE  Continues(job[t], job'[t])
  <2>1. job'[t] = k
    BY <1>2, <1>4
  <2> QED
    BY <1>1, <1>2, <1>4, <2>1 DEF Continues, Callback
<1>5. ASSUME NEW page, Serve(t, page)
      PROVE  Continues(job[t], job'[t])
  <2>1. PICK k : k = [j EXCEPT !.at = "set", !.page = page]
    OBVIOUS
  <2>2. job' = [job EXCEPT ![t] = k] /\ k.status = j.status /\ k.close = j.close
    BY <1>2, <1>5, <2>1 DEF Serve, IsCall
  <2> QED
    BY <1>4, <2>2
<1>6. ASSUME NEW at, job' = [job EXCEPT ![t].at = at]
      PROVE  Continues(job[t], job'[t])
  <2>1. PICK k : k = [j EXCEPT !.at = at]
    OBVIOUS
  <2>2. job' = [job EXCEPT ![t] = k] /\ k.status = j.status /\ k.close = j.close
    BY <1>2, <1>6, <2>1 DEF IsCall
  <2> QED
    BY <1>4, <2>2
<1>7. CASE \/ RoutePage(t, {"/", "/index.html"}, "/index.html")
           \/ RoutePage(t, {"/welcome"}, "/welcome.html")
           \/ RouteRegisterPage(t) \/ RouteJpg(t) \/ Cache(t)
  BY <1>3, <1>5, <1>7 DEF RoutePage, RouteRegisterPage, RouteJpg, Cache
<1>8. CASE HasHField(t)
  BY <1>3, <1>5, <1>6, <1>8 DEF HasHField
<1>9. CASE SetFile(t) \/ Stat(t)
  BY <1>3, <1>6, <1>9 DEF SetFile, Stat
<1>10. CASE RouteRegister(t)
  <2>1. PICK form : job' = [job EXCEPT ![t].at = "register", ![t].form = form]
    BY <1>3, <1>10 DEF RouteRegister
  <2>2. PICK k : k = [j EXCEPT !.at = "register", !.form = form]
    OBVIOUS
  <2>3. job' = [job EXCEPT ![t] = k] /\ k.status = j.status /\ k.close = j.close
    BY <1>3, <1>2, <2>1, <2>2 DEF IsCall
  <2> QED
    BY <1>3, <1>4, <2>3
<1>11. CASE RouteLogin(t)
  <2>1. PICK form, page : job' = [job EXCEPT ![t].at = "set", ![t].form = form, ![t].page = page]
    BY <1>3, <1>11 DEF RouteLogin
  <2>2. PICK k : k = [j EXCEPT !.at = "set", !.form = form, !.page = page]
    OBVIOUS
  <2>3. job' = [job EXCEPT ![t] = k] /\ k.status = j.status /\ k.close = j.close
    BY <1>3, <1>2, <2>1, <2>2 DEF IsCall
  <2> QED
    BY <1>3, <1>4, <2>3
<1>12. CASE RouteNotFound(t)
  <2>1. job' = [job EXCEPT ![t].at = "set", ![t].page = "/404.html",
                           ![t].status = "404", ![t].close = TRUE]
    BY <1>3, <1>12 DEF RouteNotFound
  <2>2. PICK k : k = [j EXCEPT !.at = "set", !.page = "/404.html", !.status = "404", !.close = TRUE]
    OBVIOUS
  <2>3. job' = [job EXCEPT ![t] = k] /\ k.status = "404" /\ k.close = TRUE
    BY <1>3, <1>2, <2>1, <2>2 DEF IsCall
  <2>4. job'[t] = k
    BY <1>3, <1>2, <2>3
  <2> QED
    BY <1>3, <1>1, <2>3, <2>4 DEF Continues, Callback
<1>13. CASE Insert(t)
  <2>1. CASE job' = [job EXCEPT ![t].at = "html", ![t].failed = TRUE]
    <3>1. PICK k : k = [j EXCEPT !.at = "html", !.failed = TRUE]
      OBVIOUS
    <3>2. job' = [job EXCEPT ![t] = k] /\ k.status = j.status /\ k.close = j.close
      BY <1>3, <1>2, <2>1, <3>1 DEF IsCall
    <3> QED
      BY <1>3, <1>4, <3>2
  <2> QED
    BY <1>3, <1>6, <1>13, <2>1 DEF Insert
<1>14. CASE ReadFile(t)
  <2>1. PICK body : job' = [job EXCEPT ![t].at = "respond", ![t].body = body]
    BY <1>3, <1>14 DEF ReadFile
  <2>2. PICK k : k = [j EXCEPT !.at = "respond", !.body = body]
    OBVIOUS
  <2>3. job' = [job EXCEPT ![t] = k] /\ k.status = j.status /\ k.close = j.close
    BY <1>3, <1>2, <2>1, <2>2 DEF IsCall
  <2> QED
    BY <1>3, <1>4, <2>3
<1> QED
  BY <1>3, <1>7, <1>8, <1>9, <1>10, <1>11, <1>12, <1>13, <1>14 DEF OnRequest

\* A step of the callback.
LEMMA OnRequestKeeps ==
  ASSUME ShapeInv, AnswersInv, NEW t \in IoThreads, OnRequest(t)
  PROVE  AnswersInv'
<1>1. Callback(t) /\ Continues(job[t], job'[t]) /\ UNCHANGED <<plan, asked, net, input>>
  BY CallSteps, CallContinues
<1>2. PICK j, jj : j = job[t] /\ jj = job'[t] /\ IsCall(j) /\ IsCall(jj) /\ jj.conn = j.conn
  BY <1>1 DEF Callback
<1>3. j # NoJob /\ j.at \in InCallback /\ jj.at \in InCallback
  BY <1>2 DEF IsCall, NoJob, InCallback
<1>4. WireTypes'
  BY <1>1 DEF AnswersInv, WireTypes
<1>5. ThreadInv'
  BY <1>1, <1>2, <1>3 DEF AnswersInv, ThreadInv, Callback, OnlyJob
<1>6. ASSUME NEW d \in Conns
      PROVE  ConnInv(d)'
  <2>1. JobStep(job[ThreadOf[d]], job'[ThreadOf[d]], d)
    <3>1. CASE ThreadOf[d] = t /\ d = j.conn
      BY <1>1, <1>2, <1>3, <3>1 DEF JobStep, Calls
    <3>2. CASE d # j.conn
      <4>1. About(job[t], j.conn) /\ About(job'[t], j.conn)
        BY <1>2 DEF About
      <4> QED
        BY <1>1, <3>2, <4>1, OthersJobs DEF Callback
    <3>3. CASE ThreadOf[d] # t
      <4>1. ThreadOf[d] \in IoThreads
        BY HttpAssumption
      <4> QED
        BY <1>1, <3>3, <4>1 DEF Callback, OnlyJob, JobStep
    <3> QED
      BY <3>1, <3>2, <3>3
  <2>2. Untouched(d)
    BY <1>1, <2>1 DEF Untouched, Callback
  <2> QED
    BY <2>2, UntouchedKept DEF AnswersInv
<1> QED
  BY <1>4, <1>5, <1>6 DEF AnswersInv

\* A step that changes nothing the invariant speaks of.
LEMMA QuietStepKeeps ==
  ASSUME AnswersInv, UNCHANGED <<plan, asked, connVars, job>>
  PROVE  AnswersInv'
<1>1. UNCHANGED <<plan, asked, net, tcp, input, context, written, job>>
  BY DEF connVars
<1>2. WireTypes'
  BY <1>1 DEF AnswersInv, WireTypes
<1>3. ThreadInv'
  BY <1>1 DEF AnswersInv, ThreadInv
<1>4. ASSUME NEW d \in Conns
      PROVE  ConnInv(d)'
  BY <1>1 DEF AnswersInv, ConnInv
<1> QED
  BY <1>2, <1>3, <1>4 DEF AnswersInv

\* A new connection.
LEMMA OnConnectionKeeps ==
  ASSUME ShapeInv, AnswersInv, NEW c \in Conns, OnConnection(c)
  PROVE  AnswersInv'
<1>1. PICK b, k : b = NewBuffer(kInitialSize) /\ k = NewContext
  OBVIOUS
<1>2. IsBuffer(b, WireBytes) /\ Content(b) = <<>>
  BY <1>1, NewIsBuffer
<1>3. /\ tcp' = [tcp EXCEPT ![c] = "kConnected"] /\ context' = [context EXCEPT ![c] = k]
      /\ input' = [input EXCEPT ![c] = b] /\ asked' = [asked EXCEPT ![c] = <<>>]
      /\ written' = [written EXCEPT ![c] = <<>>] /\ UNCHANGED <<plan, net, job>>
      /\ tcp[c] = "kDisconnected"
  BY <1>1 DEF OnConnection
<1>4. /\ tcp'[c] = "kConnected" /\ context'[c] = k /\ input'[c] = b /\ asked'[c] = <<>>
      /\ written'[c] = <<>>
      /\ \A d \in Conns \ {c} : /\ tcp'[d] = tcp[d] /\ context'[d] = context[d] /\ input'[d] = input[d]
                                /\ asked'[d] = asked[d] /\ written'[d] = written[d]
  BY <1>3 DEF ShapeInv, AnswersInv, WireTypes
<1>5. WireTypes'
  <2>1. asked' \in [Conns -> Seq(Requests)]
    BY <1>3 DEF AnswersInv, WireTypes
  <2>2. input' = [d \in Conns |-> input'[d]] /\ \A d \in Conns : IsBuffer(input'[d], WireBytes)
    BY <1>2, <1>3, <1>4 DEF AnswersInv, WireTypes
  <2> QED
    BY <1>3, <2>1, <2>2 DEF AnswersInv, WireTypes
<1>6. ThreadInv'
  BY <1>3 DEF AnswersInv, ThreadInv
<1>7. ConnInv(c)'
  <2>1. net[c] = <<>> /\ Elsewhere(job[ThreadOf[c]], c)
    BY <1>3 DEF AnswersInv, ConnInv, Conn, Staged
  <2>2. Conn(c, plan[c].waits, <<>>, <<>>, "kConnected", b, k, <<>>, job[ThreadOf[c]])
    BY <1>1, <1>2, <2>1, ConnStarts
  <2> QED
    BY <1>3, <1>4, <2>1, <2>2 DEF ConnInv
<1>8. ASSUME NEW d \in Conns, d # c
      PROVE  ConnInv(d)'
  <2>1. Untouched(d)
    BY <1>3, <1>4, <1>8 DEF Untouched, JobStep
  <2> QED
    BY <2>1, UntouchedKept DEF AnswersInv
<1> QED
  BY <1>5, <1>6, <1>7, <1>8 DEF AnswersInv

\* The client asks: it has not seen its connection close.
LEMMA AskKeeps ==
  ASSUME ShapeInv, ClosesWithItsAnswer, AnswersInv, NEW c \in Conns, Ask(c)
  PROVE  AnswersInv'
<1>1. PICK p, r : p = plan[c] /\ r = Head(p.requests)
  OBVIOUS
<1>2. /\ asked' = [asked EXCEPT ![c] = Append(@, r)] /\ net' = [net EXCEPT ![c] = @ \o Encoding(r)]
      /\ plan' = [plan EXCEPT ![c].requests = Tail(@)] /\ UNCHANGED <<tcp, input, context, written, job>>
      /\ p.requests # <<>> /\ tcp[c] # "kDisconnected" /\ ~SawClose(c)
      /\ p.waits => Len(written[c]) = Len(asked[c])
  BY <1>1 DEF Ask
<1>3. tcp[c] = "kConnected"
  BY <1>2 DEF ShapeInv, ClosesWithItsAnswer
<1>4. PICK qs, waits, cuts : /\ p = [requests |-> qs, waits |-> waits, cuts |-> cuts]
                             /\ qs \in Seq(Requests) /\ waits \in BOOLEAN /\ cuts \in BOOLEAN
  BY <1>1 DEF AnswersInv, WireTypes
<1>5. r \in Requests /\ Tail(qs) \in Seq(Requests)
  BY <1>1, <1>2, <1>4
<1>6. /\ plan' \in [Conns -> [requests : Seq(Requests), waits : BOOLEAN, cuts : BOOLEAN]]
      /\ plan'[c].waits = p.waits /\ \A d \in Conns \ {c} : plan'[d] = plan[d]
  <2>1. PICK x : x = [requests |-> Tail(qs), waits |-> waits, cuts |-> cuts]
    OBVIOUS
  <2>2. plan' = [plan EXCEPT ![c] = x]
    <3>1. PICK rest : rest = Tail(qs) /\ p.requests = qs
      BY <1>4
    <3>2. PICK y : y = [p EXCEPT !.requests = rest]
      OBVIOUS
    <3>3. plan' = [plan EXCEPT ![c] = y]
      BY <1>1, <1>2, <3>1, <3>2
    <3>4. y = x
      <4>1. x = [requests |-> rest, waits |-> waits, cuts |-> cuts]
        BY <2>1, <3>1
      <4> QED
        BY <1>4, <3>2, <4>1
    <3> QED
      BY <3>3, <3>4
  <2>3. x \in [requests : Seq(Requests), waits : BOOLEAN, cuts : BOOLEAN] /\ x.waits = p.waits
    BY <1>4, <1>5, <2>1
  <2> QED
    BY <2>2, <2>3 DEF AnswersInv, WireTypes
<1>7. Encoding(r) \in Seq(WireBytes)
  <2>1. PICK L \in Nat, H \in Nat, n \in Nat : Measures(r, L, H, n)
    BY <1>5, RequestMeasured
  <2>2. Encoded(r, Encoding(r), L, H, n)
    BY <1>5, <2>1, EncodingFacts
  <2> QED
    BY <2>2 DEF Encoded
<1>8. PICK rs, n : rs = Append(asked[c], r) /\ n = net[c] \o Encoding(r)
  OBVIOUS
<1>9. rs \in Seq(Requests) /\ n \in Seq(WireBytes)
  <2>1. asked[c] \in Seq(Requests) /\ net[c] \in Seq(WireBytes)
    BY DEF AnswersInv, WireTypes
  <2> QED
    BY <1>5, <1>7, <1>8, <2>1, ConcatFacts, AppendFacts
<1>10. asked' = [asked EXCEPT ![c] = rs] /\ net' = [net EXCEPT ![c] = n]
  BY <1>2, <1>8
<1>11. WireTypes'
  <2>1. asked' \in [Conns -> Seq(Requests)]
    BY <1>9, <1>10 DEF AnswersInv, WireTypes
  <2>2. net' \in [Conns -> Seq(WireBytes)]
    BY <1>9, <1>10 DEF AnswersInv, WireTypes
  <2> QED
    BY <1>2, <1>6, <2>1, <2>2 DEF AnswersInv, WireTypes
<1>12. ThreadInv'
  BY <1>2 DEF AnswersInv, ThreadInv
<1>13. /\ asked'[c] = rs /\ net'[c] = n
       /\ \A d \in Conns \ {c} : asked'[d] = asked[d] /\ net'[d] = net[d]
  BY <1>10 DEF AnswersInv, WireTypes
<1>14. ConnInv(c)'
  <2>1. asked[c] \in Seq(Requests) /\ net[c] \in Seq(WireBytes) /\ IsBuffer(input[c], WireBytes)
    BY DEF AnswersInv, WireTypes
  <2>2. IsSeq(written[c]) /\ ~\E i \in DOMAIN written[c] : written[c][i].close
    BY <1>2 DEF ShapeInv, SawClose
  <2>3. Conn(c, p.waits, asked[c], net[c], "kConnected", input[c], context[c], written[c],
             job[ThreadOf[c]])
    BY <1>1, <1>3 DEF AnswersInv, ConnInv
  <2>4. Conn(c, p.waits, Append(asked[c], r), net[c] \o Encoding(r), "kConnected", input[c], context[c],
             written[c], job[ThreadOf[c]])
    BY <1>2, <1>5, <2>1, <2>2, <2>3, ConnAsks
  <2> QED
    BY <1>2, <1>3, <1>6, <1>8, <1>13, <2>4 DEF ConnInv
<1>15. ASSUME NEW d \in Conns, d # c
       PROVE  ConnInv(d)'
  <2>1. Untouched(d)
    BY <1>2, <1>6, <1>13, <1>15 DEF Untouched, JobStep
  <2> QED
    BY <2>1, UntouchedKept DEF AnswersInv
<1> QED
  BY <1>11, <1>12, <1>14, <1>15 DEF AnswersInv

\* The client closes.
LEMMA HangUpKeeps ==
  ASSUME ShapeInv, AnswersInv, NEW c \in Conns, HangUp(c)
  PROVE  AnswersInv'
<1>1. /\ tcp' = [tcp EXCEPT ![c] = "kDisconnected"] /\ net[c] = <<>> /\ job[ThreadOf[c]] = NoJob
      /\ UNCHANGED <<plan, asked, net, input, context, written, job>>
  BY DEF HangUp
<1>2. tcp'[c] = "kDisconnected" /\ \A d \in Conns \ {c} : tcp'[d] = tcp[d]
  BY <1>1 DEF ShapeInv
<1>3. WireTypes'
  BY <1>1 DEF AnswersInv, WireTypes
<1>4. ThreadInv'
  BY <1>1 DEF AnswersInv, ThreadInv
<1>5. ConnInv(c)'
  <2>1. Counted(plan[c].waits, asked[c], written[c])
    BY DEF AnswersInv, ConnInv, Conn
  <2>2. Conn(c, plan[c].waits, asked[c], <<>>, "kDisconnected", input[c], context[c], written[c], NoJob)
    BY <2>1, RestsElsewhere, ConnEnds
  <2> QED
    BY <1>1, <1>2, <2>2 DEF ConnInv
<1>6. ASSUME NEW d \in Conns, d # c
      PROVE  ConnInv(d)'
  <2>1. Untouched(d)
    BY <1>1, <1>2, <1>6 DEF Untouched, JobStep
  <2> QED
    BY <2>1, UntouchedKept DEF AnswersInv
<1> QED
  BY <1>3, <1>4, <1>5, <1>6 DEF AnswersInv

\* The server's process ends.
LEMMA CrashKeeps ==
  ASSUME AnswersInv, Crash
  PROVE  AnswersInv'
<1>1. /\ tcp' = [c \in Conns |-> "kDisconnected"] /\ net' = [c \in Conns |-> <<>>]
      /\ job' = [t \in IoThreads |-> NoJob] /\ UNCHANGED <<plan, asked, input, context, written>>
  BY DEF Crash
<1>2. WireTypes'
  BY <1>1 DEF AnswersInv, WireTypes
<1>3. ThreadInv'
  BY <1>1 DEF ThreadInv
<1>4. ASSUME NEW c \in Conns
      PROVE  ConnInv(c)'
  <2>1. Counted(plan[c].waits, asked[c], written[c])
    BY DEF AnswersInv, ConnInv, Conn
  <2>2. Conn(c, plan[c].waits, asked[c], <<>>, "kDisconnected", input[c], context[c], written[c], NoJob)
    BY <2>1, RestsElsewhere, ConnEnds
  <2>3. job'[ThreadOf[c]] = NoJob
    BY <1>1, HttpAssumption
  <2> QED
    BY <1>1, <2>2, <2>3 DEF ConnInv
<1> QED
  BY <1>2, <1>3, <1>4 DEF AnswersInv

\* A step of thread t on connection c, as the others see it.
OnlyConn(t, c) ==
  /\ ThreadOf[c] = t /\ About(job[t], c) /\ About(job'[t], c)
  /\ OnlyJob(t) \/ Begins(t)
  /\ UNCHANGED plan
  /\ \A d \in Conns \ {c} :
       /\ asked'[d] = asked[d] /\ net'[d] = net[d] /\ tcp'[d] = tcp[d] /\ input'[d] = input[d]
       /\ context'[d] = context[d] /\ written'[d] = written[d]

\* A callback that another joins goes on.
LEMMA JoinedJob ==
  ASSUME NEW j, NEW jj, Joined(j, jj), NEW d
  PROVE  JobStep(j, jj, d)
<1>1. jj.at \in InCallback /\ jj.at = j.at /\ jj.conn = j.conn /\ Continues(j, jj)
  BY DEF Joined, IsCall, Continues
<1>2. CASE j.conn = d
  BY <1>1, <1>2 DEF JobStep, Calls
<1>3. CASE j.conn # d
  BY <1>1, <1>3 DEF JobStep, Elsewhere, Parses, Calls
<1> QED
  BY <1>2, <1>3

\* It is enough to look at the connection a thread works on.
LEMMA OneConnection ==
  ASSUME AnswersInv, NEW t \in IoThreads, NEW c \in Conns, OnlyConn(t, c), WireTypes', ConnInv(c)'
  PROVE  AnswersInv'
<1>1. ThreadInv'
  <2> SUFFICES ASSUME NEW u \in IoThreads, job'[u] # NoJob
               PROVE  ThreadOf[job'[u].conn] = u
    BY DEF ThreadInv
  <2>1. CASE u = t
    BY <2>1 DEF OnlyConn, About
  <2>2. CASE u # t /\ job'[u] = job[u]
    BY <2>2 DEF AnswersInv, ThreadInv
  <2>3. CASE u # t /\ job'[u] # job[u]
    <3>1. u \in Others(t) /\ Joined(job[u], job'[u])
      BY <2>3 DEF OnlyConn, OnlyJob, Begins
    <3>2. NoJob.at = "none" /\ job[u].at # "none"
      BY <3>1 DEF Others, NoJob
    <3>3. job[u] # NoJob /\ job'[u].conn = job[u].conn
      BY <3>1, <3>2 DEF Joined
    <3> QED
      BY <3>3 DEF AnswersInv, ThreadInv
  <2> QED
    BY <2>1, <2>2, <2>3
<1>2. ASSUME NEW d \in Conns, d # c
      PROVE  ConnInv(d)'
  <2>1. PICK u \in IoThreads : u = ThreadOf[d]
    BY HttpAssumption
  <2>2. JobStep(job[u], job'[u], d)
    <3>1. CASE u = t
      <4>1. Elsewhere(job[t], d) /\ Elsewhere(job'[t], d)
        BY <1>2, NotConcerned DEF OnlyConn
      <4> QED
        BY <3>1, <4>1 DEF JobStep
    <3>2. CASE u # t /\ job'[u] = job[u]
      BY <3>2 DEF JobStep
    <3>3. CASE u # t /\ job'[u] # job[u]
      <4>1. Joined(job[u], job'[u])
        BY <3>3 DEF OnlyConn, OnlyJob, Begins
      <4> QED
        BY <4>1, JoinedJob
    <3> QED
      BY <3>1, <3>2, <3>3
  <2>3. Untouched(d)
    BY <1>2, <2>1, <2>2 DEF Untouched, OnlyConn
  <2> QED
    BY <2>3, UntouchedKept DEF AnswersInv
<1> QED
  BY <1>1, <1>2 DEF AnswersInv

\* A read takes no more than has arrived.
LEMMA ReadsWhatArrived ==
  ASSUME WireTypes, NEW c \in Conns, NEW n, n \in HowMany(c) \ {0}
  PROVE  n \in 0..Len(net[c])
<1>1. PICK l \in Nat : l = Len(net[c])
  <2>1. net[c] \in Seq(WireBytes)
    BY DEF WireTypes
  <2> QED
    BY <2>1
<1>2. PICK limit \in Nat : limit = ReadLimit(input[c])
  <2>1. WritableBytes(input[c]) \in Nat
    BY ContentTyped DEF WireTypes
  <2>2. Extrabuf \in Nat
    BY BufferAssumption
  <2> QED
    BY <2>1, <2>2 DEF ReadLimit
<1>3. PICK most : most = IF l < limit THEN l ELSE limit
  OBVIOUS
<1>4. most \in 0..l
  BY <1>3
<1>5. n \in 1..most \/ n = most
  BY <1>1, <1>2, <1>3 DEF HowMany
<1> QED
  BY <1>1, <1>4, <1>5

\* A message is read.
LEMMA OnMessageKeeps ==
  ASSUME ShapeInv, AnswersInv, NEW t \in IoThreads, NEW c \in Conns, NEW n, OnMessage(t, c, n)
  PROVE  AnswersInv'
<1>1. /\ ThreadOf[c] = t /\ job[t] = NoJob /\ tcp[c] # "kDisconnected" /\ n \in HowMany(c) \ {0}
      /\ UNCHANGED <<plan, asked, tcp, context, written>>
  BY DEF OnMessage
<1>2. PICK s : s = net[c] /\ s \in Seq(WireBytes) /\ n \in 0..Len(s)
  BY <1>1, ReadsWhatArrived DEF AnswersInv, WireTypes
<1>3. PICK p, q : p = SubSeq(s, 1, n) /\ q = SubSeq(s, n + 1, Len(s))
  OBVIOUS
<1>4. p \in Seq(WireBytes) /\ q \in Seq(WireBytes)
  BY <1>2, <1>3, SplitJoins
<1>5. PICK bb : bb = Forget(ReadFd(input[c], p))
  OBVIOUS
<1>6. IsBuffer(bb, WireBytes) /\ Content(bb) = Content(input[c]) \o p
  <2>1. IsBuffer(input[c], WireBytes)
    BY DEF AnswersInv, WireTypes
  <2>2. PICK f : f = ReadFd(input[c], p) /\ IsBuffer(f, WireBytes) /\ Content(f) = Content(input[c]) \o p
    BY <1>4, <2>1, ReadFdEffect
  <2> QED
    BY <1>5, <2>2, ForgetEffect
<1>7. PICK j : j = [at |-> "parse", conn |-> c]
  OBVIOUS
<1>8. /\ input' = [input EXCEPT ![c] = bb] /\ net' = [net EXCEPT ![c] = q]
      /\ job' = [job EXCEPT ![t] = j]
  BY <1>2, <1>3, <1>5, <1>7 DEF OnMessage
<1>9. /\ input'[c] = bb /\ net'[c] = q /\ job'[t] = j /\ OnlyJob(t)
      /\ \A d \in Conns \ {c} : input'[d] = input[d] /\ net'[d] = net[d]
  BY <1>8 DEF ShapeInv, AnswersInv, WireTypes, OnlyJob
<1>10. WireTypes'
  <2>1. net' \in [Conns -> Seq(WireBytes)]
    BY <1>4, <1>8 DEF AnswersInv, WireTypes
  <2>2. input' = [d \in Conns |-> input'[d]] /\ \A d \in Conns : IsBuffer(input'[d], WireBytes)
    BY <1>6, <1>8, <1>9 DEF AnswersInv, WireTypes
  <2> QED
    BY <1>1, <2>1, <2>2 DEF AnswersInv, WireTypes
<1>11. Parses(j, c) /\ j.conn = c
  BY <1>7 DEF Parses
<1>12. OnlyConn(t, c)
  BY <1>1, <1>9, <1>11 DEF OnlyConn, About
<1>13. ConnInv(c)'
  <2>1. IsBuffer(input[c], WireBytes)
    BY DEF AnswersInv, WireTypes
  <2>2. Conn(c, plan[c].waits, asked[c], s, tcp[c], input[c], context[c], written[c], NoJob)
    BY <1>1, <1>2 DEF AnswersInv, ConnInv
  <2>3. Content(bb) = Content(input[c]) \o SubSeq(s, 1, n)
    BY <1>3, <1>6
  <2>4. Conn(c, plan[c].waits, asked[c], SubSeq(s, n + 1, Len(s)), tcp[c], bb, context[c], written[c], j)
    BY <1>1, <1>2, <1>11, <2>1, <2>2, <2>3, RestsElsewhere, ConnReads
  <2> QED
    BY <1>1, <1>3, <1>9, <2>4 DEF ConnInv
<1> QED
  BY <1>10, <1>12, <1>13, OneConnection

\* An iteration of parseRequest() on c, with context k, buffer b and result p.
Parse(t, c, k, b, p) ==
  /\ c \in Conns /\ job[t] = [at |-> "parse", conn |-> c] /\ ThreadOf[c] = t
  /\ k = context[c] /\ IsContext(k) /\ b = input[c] /\ IsBuffer(b, WireBytes)
  /\ p = Iteration(k, b)
  /\ context' = [context EXCEPT ![c] = p.context]
  /\ input' = [input EXCEPT ![c] = Forget(p.buf)]
  /\ UNCHANGED <<plan, asked, net>>

\* What onMessage() does behind it.
After(t, c, p) ==
  \/ p.hasMore /\ UNCHANGED <<tcp, written, job>>
  \/ ~p.hasMore /\ ~p.ok /\ Refuse(c) /\ job' = [job EXCEPT ![t] = NoJob]
  \/ /\ ~p.hasMore /\ p.ok /\ GotAll(p.context)
     /\ job' = BeginJob(t, c, p.context.request) /\ UNCHANGED <<tcp, written>>
  \/ /\ ~p.hasMore /\ p.ok /\ ~GotAll(p.context)
     /\ job' = [job EXCEPT ![t] = NoJob] /\ UNCHANGED <<tcp, written>>

\* What parseRequest() starts from.
LEMMA ParseStarts ==
  ASSUME ShapeInv, AnswersInv, NEW t \in IoThreads, ParseRequest(t)
  PROVE  \E c, k, b, p : Parse(t, c, k, b, p) /\ After(t, c, p)
<1>1. PICK c : c \in Conns /\ job[t] = [at |-> "parse", conn |-> c] /\ c = job[t].conn
  <2>1. job[t].at = "parse" /\ IsJob(job[t])
    BY DEF ParseRequest, ShapeInv
  <2> QED
    BY <2>1 DEF IsJob, NoJob, IsCall, InCallback
<1>2. PICK k, b : k = context[c] /\ b = input[c] /\ IsContext(k) /\ IsBuffer(b, WireBytes)
  BY <1>1 DEF ShapeInv, AnswersInv, WireTypes
<1>3. PICK p : p = Iteration(k, b)
  OBVIOUS
<1>4. ThreadOf[c] = t
  <2>1. job[t] # NoJob
    BY <1>1 DEF NoJob
  <2> QED
    BY <1>1, <2>1 DEF AnswersInv, ThreadInv
<1>5. Parse(t, c, k, b, p)
  BY <1>1, <1>2, <1>3, <1>4 DEF Parse, ParseRequest
<1>6. After(t, c, p)
  BY <1>1, <1>2, <1>3 DEF ParseRequest, After
<1> QED
  BY <1>5, <1>6

\* The connection parseRequest() works on, and what there is to parse.
LEMMA ParseState ==
  ASSUME ShapeInv, AnswersInv, NEW t \in IoThreads, NEW c, NEW k, NEW b, NEW p, Parse(t, c, k, b, p)
  PROVE  /\ k.state \in {"kExpectRequestLine", "kExpectHeaders", "kExpectBody"}
         /\ tcp[c] \in {"kConnected", "kDisconnecting"} /\ Parses(job[t], c)
         /\ Conn(c, plan[c].waits, asked[c], net[c], tcp[c], b, k, written[c], job[t])
         /\ asked[c] \in Seq(Requests) /\ net[c] \in Seq(WireBytes) /\ IsSeq(written[c])
<1>1. c \in Conns /\ Parses(job[t], c)
  BY DEF Parse, Parses
<1>2. Conn(c, plan[c].waits, asked[c], net[c], tcp[c], b, k, written[c], job[t])
  BY <1>1 DEF Parse, AnswersInv, ConnInv
<1>3. ~Calls(job[t], c)
  BY <1>1, OneStage
<1>4. tcp[c] # "kDisconnected" /\ tcp[c] \in {"kDisconnected", "kConnected", "kDisconnecting"}
  BY <1>1, <1>2 DEF Conn, Staged, Elsewhere, ShapeInv
<1>5. k.state \in {"kExpectRequestLine", "kExpectHeaders", "kExpectBody"}
  BY <1>2, <1>3, <1>4 DEF Conn, Staged
<1> QED
  BY <1>1, <1>2, <1>4, <1>5 DEF ShapeInv, AnswersInv, WireTypes

\* An iteration keeps the invariant if it does on its connection.
LEMMA ParseKept ==
  ASSUME ShapeInv, AnswersInv, NEW t \in IoThreads, NEW c, NEW k, NEW b, NEW p, Parse(t, c, k, b, p),
         NEW bb, bb = Forget(p.buf), IsBuffer(bb, WireBytes),
         About(job'[t], c), OnlyJob(t) \/ Begins(t),
         \A d \in Conns \ {c} : tcp'[d] = tcp[d] /\ written'[d] = written[d],
         Conn(c, plan[c].waits, asked[c], net[c], tcp'[c], bb, p.context, written'[c], job'[t])
  PROVE  AnswersInv'
<1>1. PICK x : x = p.context
  OBVIOUS
<1>2. /\ c \in Conns /\ context' = [context EXCEPT ![c] = x] /\ input' = [input EXCEPT ![c] = bb]
      /\ UNCHANGED <<plan, asked, net>> /\ ThreadOf[c] = t /\ About(job[t], c)
  BY <1>1 DEF Parse, About
<1>3. /\ context'[c] = x /\ input'[c] = bb
      /\ \A d \in Conns \ {c} : context'[d] = context[d] /\ input'[d] = input[d]
  BY <1>2 DEF ShapeInv, AnswersInv, WireTypes
<1>4. WireTypes'
  <2>1. input' = [d \in Conns |-> input'[d]] /\ \A d \in Conns : IsBuffer(input'[d], WireBytes)
    BY <1>2, <1>3 DEF AnswersInv, WireTypes
  <2> QED
    BY <1>2, <2>1 DEF AnswersInv, WireTypes
<1>5. OnlyConn(t, c)
  BY <1>2, <1>3 DEF OnlyConn
<1>6. ConnInv(c)'
  BY <1>1, <1>2, <1>3 DEF ConnInv
<1> QED
  BY <1>2, <1>4, <1>5, <1>6, OneConnection

\* The parser finds no line.
LEMMA NoLineKeeps ==
  ASSUME ShapeInv, AnswersInv, NEW t \in IoThreads, NEW c, NEW k, NEW b, NEW p, Parse(t, c, k, b, p),
         k.state \in {"kExpectRequestLine", "kExpectHeaders"},
         NoLine(Content(b)), Outcome(p, k, Content(b), TRUE, FALSE),
         job' = [job EXCEPT ![t] = NoJob], UNCHANGED <<tcp, written>>
  PROVE  AnswersInv'
<1>1. PICK bb : bb = Forget(p.buf)
  OBVIOUS
<1>2. IsBuffer(bb, WireBytes) /\ Content(bb) = Content(b) /\ p.context = k
  <2>1. IsBuffer(p.buf, WireBytes) /\ Content(p.buf) = Content(b) /\ p.context = k
    BY DEF Outcome
  <2> QED
    BY <1>1, <2>1, ForgetEffect
<1>3. OnlyJob(t) /\ job'[t] = NoJob /\ About(job'[t], c)
  BY DEF ShapeInv, OnlyJob, About
<1>4. /\ Conn(c, plan[c].waits, asked[c], net[c], tcp[c], b, k, written[c], job[t])
      /\ Parses(job[t], c)
  BY ParseState
<1>5. Conn(c, plan[c].waits, asked[c], net[c], tcp[c], bb, k, written[c], NoJob)
  BY <1>2, <1>4, RestsElsewhere, ConnRests
<1> QED
  BY <1>1, <1>2, <1>3, <1>5, ParseKept

\* The parser goes on behind a line.
LEMMA LineKeeps ==
  ASSUME ShapeInv, AnswersInv, NEW t \in IoThreads, NEW c, NEW k, NEW b, NEW p, Parse(t, c, k, b, p),
         NEW bb, bb = Forget(p.buf), IsBuffer(bb, WireBytes), UNCHANGED <<tcp, written, job>>,
         Conn(c, plan[c].waits, asked[c], net[c], tcp[c], bb, p.context, written[c], job[t])
  PROVE  AnswersInv'
<1>1. OnlyJob(t)
  BY DEF ShapeInv, OnlyJob
<1>2. About(job[t], c)
  BY DEF Parse, About
<1>3. About(job'[t], c) /\ \A d \in Conns \ {c} : tcp'[d] = tcp[d] /\ written'[d] = written[d]
  BY <1>2
<1>4. Conn(c, plan[c].waits, asked[c], net[c], tcp'[c], bb, p.context, written'[c], job'[t])
  OBVIOUS
<1> QED
  BY <1>1, <1>3, <1>4, ParseKept

\* The request line is expected.
LEMMA ParseLineKeeps ==
  ASSUME ShapeInv, AnswersInv, NEW t \in IoThreads, NEW c, NEW k, NEW b, NEW p, Parse(t, c, k, b, p),
         After(t, c, p), k.state = "kExpectRequestLine"
  PROVE  AnswersInv'
<1>1. IsContext(k) /\ IsBuffer(b, WireBytes) /\ p = Iteration(k, b) /\ c \in Conns
  BY DEF Parse
<1>2. /\ Conn(c, plan[c].waits, asked[c], net[c], tcp[c], b, k, written[c], job[t])
      /\ Parses(job[t], c) /\ tcp[c] \in {"kConnected", "kDisconnecting"}
      /\ asked[c] \in Seq(Requests) /\ net[c] \in Seq(WireBytes) /\ IsSeq(written[c])
  BY ParseState
<1>3. PICK bb : bb = Forget(p.buf)
  OBVIOUS
<1>4. ASSUME NEW x, NEW s, NEW ok, NEW more, Outcome(p, x, s, ok, more)
      PROVE  IsBuffer(bb, WireBytes) /\ Content(bb) = s /\ p.context = x
  <2>1. IsBuffer(p.buf, WireBytes) /\ Content(p.buf) = s /\ p.context = x
    BY <1>4 DEF Outcome
  <2> QED
    BY <1>3, <2>1, ForgetEffect
<1>5. CASE NoLine(Content(b)) /\ Outcome(p, k, Content(b), TRUE, FALSE)
  <2>1. job' = [job EXCEPT ![t] = NoJob] /\ UNCHANGED <<tcp, written>>
    BY <1>5 DEF After, Outcome, GotAll
  <2> QED
    BY <1>5, <2>1, NoLineKeeps
<1>6. ASSUME NEW m \in Nat, NEW r, FirstLine(Content(b), m),
             r = ProcessRequestLine(k.request, SubSeq(Content(b), 1, m - 1)), r.ok, NEW x,
             x.state = "kExpectHeaders" /\ x.request = r.request,
             Outcome(p, x, Behind(Content(b), m), TRUE, TRUE)
      PROVE  AnswersInv'
  <2>1. UNCHANGED <<tcp, written, job>>
    BY <1>6 DEF After, Outcome
  <2>2. IsBuffer(bb, WireBytes) /\ Content(bb) = Behind(Content(b), m) /\ p.context = x
    BY <1>4, <1>6
  <2>3. Conn(c, plan[c].waits, asked[c], net[c], tcp[c], bb, x, written[c], job[t])
    BY <1>1, <1>2, <1>6, <2>2, ConnLine
  <2> QED
    BY <1>3, <2>1, <2>2, <2>3, LineKeeps
<1>7. ASSUME NEW m \in Nat, NEW r, FirstLine(Content(b), m),
             r = ProcessRequestLine(k.request, SubSeq(Content(b), 1, m - 1)), ~r.ok, NEW x,
             x.state = "kExpectRequestLine",
             Outcome(p, x, Content(b), FALSE, FALSE)
      PROVE  AnswersInv'
  <2>1. Refuse(c) /\ job' = [job EXCEPT ![t] = NoJob]
    BY <1>7 DEF After, Outcome
  <2>2. IsBuffer(bb, WireBytes) /\ p.context = x
    BY <1>4, <1>7
  <2>3. OnlyJob(t) /\ job'[t] = NoJob /\ About(job'[t], c)
    BY <2>1 DEF ShapeInv, OnlyJob, About
  <2>4. written' = Send(c, BadRequest) /\ tcp' = Shutdown(c)
    BY <2>1 DEF Refuse
  <2>5. /\ \A d \in Conns \ {c} : written'[d] = written[d]
        /\ written'[c] = IF tcp[c] = "kConnected" THEN Append(written[c], BadRequest) ELSE written[c]
    BY <1>1, <2>4, SendEffect
  <2>6. (\A d \in Conns \ {c} : tcp'[d] = tcp[d]) /\ tcp'[c] = "kDisconnecting"
    BY <1>1, <1>2, <2>4, ShutdownEffect
  <2>7. Conn(c, plan[c].waits, asked[c], net[c], "kDisconnecting", bb, x, written'[c], NoJob)
    BY <1>1, <1>2, <1>7, <2>5, RestsElsewhere, ConnRefused
  <2> QED
    BY <1>3, <2>2, <2>3, <2>5, <2>6, <2>7, ParseKept
<1> QED
  <2>1. \/ NoLine(Content(b)) /\ Outcome(p, k, Content(b), TRUE, FALSE)
        \/ \E m \in Nat : \E r :
             /\ FirstLine(Content(b), m)
             /\ r = ProcessRequestLine(k.request, SubSeq(Content(b), 1, m - 1))
             /\ IF r.ok
                THEN Outcome(p, [state |-> "kExpectHeaders", request |-> r.request],
                             Behind(Content(b), m), TRUE, TRUE)
                ELSE Outcome(p, [state |-> "kExpectRequestLine", request |-> r.request],
                             Content(b), FALSE, FALSE)
    BY <1>1, LineParsed
  <2>2. ASSUME NEW m \in Nat, NEW r, FirstLine(Content(b), m),
               r = ProcessRequestLine(k.request, SubSeq(Content(b), 1, m - 1)),
               IF r.ok
               THEN Outcome(p, [state |-> "kExpectHeaders", request |-> r.request],
                            Behind(Content(b), m), TRUE, TRUE)
               ELSE Outcome(p, [state |-> "kExpectRequestLine", request |-> r.request],
                            Content(b), FALSE, FALSE)
        PROVE  AnswersInv'
    <3>1. CASE r.ok
      <4>1. PICK x : x = [state |-> "kExpectHeaders", request |-> r.request]
        OBVIOUS
      <4>2. x.state = "kExpectHeaders" /\ x.request = r.request
        BY <4>1
      <4>3. Outcome(p, x, Behind(Content(b), m), TRUE, TRUE)
        BY <2>2, <3>1, <4>1
      <4> QED
        BY <1>6, <2>2, <3>1, <4>2, <4>3
    <3>2. CASE ~r.ok
      <4>1. PICK x : x = [state |-> "kExpectRequestLine", request |-> r.request]
        OBVIOUS
      <4>2. x.state = "kExpectRequestLine"
        BY <4>1
      <4>3. Outcome(p, x, Content(b), FALSE, FALSE)
        BY <2>2, <3>2, <4>1
      <4> QED
        BY <1>7, <2>2, <3>2, <4>2, <4>3
    <3> QED
      BY <3>1, <3>2
  <2> QED
    BY <1>5, <2>1, <2>2

\* A header is expected.
LEMMA ParseHeaderKeeps ==
  ASSUME ShapeInv, AnswersInv, NEW t \in IoThreads, NEW c, NEW k, NEW b, NEW p, Parse(t, c, k, b, p),
         After(t, c, p), k.state = "kExpectHeaders"
  PROVE  AnswersInv'
<1>1. IsContext(k) /\ IsBuffer(b, WireBytes) /\ p = Iteration(k, b) /\ c \in Conns
  BY DEF Parse
<1>2. /\ Conn(c, plan[c].waits, asked[c], net[c], tcp[c], b, k, written[c], job[t])
      /\ Parses(job[t], c)
      /\ asked[c] \in Seq(Requests) /\ net[c] \in Seq(WireBytes) /\ IsSeq(written[c])
  BY ParseState
<1>3. PICK bb : bb = Forget(p.buf)
  OBVIOUS
<1>4. CASE NoLine(Content(b)) /\ Outcome(p, k, Content(b), TRUE, FALSE)
  <2>1. job' = [job EXCEPT ![t] = NoJob] /\ UNCHANGED <<tcp, written>>
    BY <1>4 DEF After, Outcome, GotAll
  <2> QED
    BY <1>4, <2>1, NoLineKeeps
<1>5. ASSUME NEW m \in Nat, NEW line, FirstLine(Content(b), m), line = SubSeq(Content(b), 1, m - 1),
             NEW x, Outcome(p, x, Behind(Content(b), m), TRUE, TRUE), TakesLine(k, line, x)
      PROVE  AnswersInv'
  <2>1. UNCHANGED <<tcp, written, job>>
    BY <1>5 DEF After, Outcome
  <2>2. IsBuffer(bb, WireBytes) /\ Content(bb) = Behind(Content(b), m) /\ p.context = x
    <3>1. IsBuffer(p.buf, WireBytes) /\ Content(p.buf) = Behind(Content(b), m) /\ p.context = x
      BY <1>5 DEF Outcome
    <3> QED
      BY <1>3, <3>1, ForgetEffect
  <2>3. Conn(c, plan[c].waits, asked[c], net[c], tcp[c], bb, x, written[c], job[t])
    BY <1>1, <1>2, <1>5, <2>2, ConnHeader
  <2> QED
    BY <1>3, <2>1, <2>2, <2>3, LineKeeps
<1> QED
  <2>1. \/ NoLine(Content(b)) /\ Outcome(p, k, Content(b), TRUE, FALSE)
        \/ \E m \in Nat : \E line :
             /\ FirstLine(Content(b), m)
             /\ line = SubSeq(Content(b), 1, m - 1)
             /\ IF \E i \in DOMAIN line : line[i].kind = "header"
                THEN Outcome(p, [state |-> "kExpectHeaders",
                                 request |-> AddHeader(k.request, CHOOSE w \in ToSet(line) : w.kind = "header")],
                             Behind(Content(b), m), TRUE, TRUE)
                ELSE Outcome(p, [state |-> "kExpectBody", request |-> k.request],
                             Behind(Content(b), m), TRUE, TRUE)
    BY <1>1, HeaderParsed
  <2>2. ASSUME NEW m \in Nat, NEW line, FirstLine(Content(b), m), line = SubSeq(Content(b), 1, m - 1),
               IF \E i \in DOMAIN line : line[i].kind = "header"
               THEN Outcome(p, [state |-> "kExpectHeaders",
                                request |-> AddHeader(k.request, CHOOSE w \in ToSet(line) : w.kind = "header")],
                            Behind(Content(b), m), TRUE, TRUE)
               ELSE Outcome(p, [state |-> "kExpectBody", request |-> k.request],
                            Behind(Content(b), m), TRUE, TRUE)
        PROVE  AnswersInv'
    <3>1. CASE \E i \in DOMAIN line : line[i].kind = "header"
      <4>1. PICK q : q = AddHeader(k.request, CHOOSE w \in ToSet(line) : w.kind = "header")
        OBVIOUS
      <4>2. PICK x : x = [state |-> "kExpectHeaders", request |-> q]
        OBVIOUS
      <4>3. x.state = "kExpectHeaders" /\ x.request = q
        BY <4>2
      <4>4. Outcome(p, x, Behind(Content(b), m), TRUE, TRUE)
        BY <2>2, <3>1, <4>1, <4>2
      <4>5. TakesLine(k, line, x)
        BY <3>1, <4>1, <4>3 DEF TakesLine
      <4> QED
        BY <1>5, <2>2, <4>4, <4>5
    <3>2. CASE ~\E i \in DOMAIN line : line[i].kind = "header"
      <4>1. PICK x : x = [state |-> "kExpectBody", request |-> k.request]
        OBVIOUS
      <4>2. x.state = "kExpectBody" /\ x.request = k.request
        BY <4>1
      <4>3. Outcome(p, x, Behind(Content(b), m), TRUE, TRUE)
        BY <2>2, <3>2, <4>1
      <4>4. TakesLine(k, line, x)
        BY <3>2, <4>2 DEF TakesLine
      <4> QED
        BY <1>5, <2>2, <4>3, <4>4
    <3> QED
      BY <3>1, <3>2
  <2> QED
    BY <1>4, <2>1, <2>2

\* The callback begins with the request.
LEMMA NewJobFacts ==
  ASSUME NEW t, NEW c, NEW r
  PROVE  /\ NewJob(t, c, r).at = "route" /\ NewJob(t, c, r).conn = c /\ NewJob(t, c, r).request = r
         /\ NewJob(t, c, r).status = "200" /\ NewJob(t, c, r).close = MustClose(r)
<1>1. PICK none, close, alone : none = "" /\ close = MustClose(r) /\ alone = (Others(t) = {})
  OBVIOUS
<1>2. PICK x : x = [at |-> "route", conn |-> c, request |-> r, close |-> close, status |-> "200",
                    page |-> none, body |-> none, form |-> <<>>, alone |-> alone, failed |-> FALSE]
  OBVIOUS
<1>3. NewJob(t, c, r) = x
  BY <1>1, <1>2 DEF NewJob
<1>4. x.at = "route" /\ x.conn = c /\ x.request = r /\ x.status = "200" /\ x.close = close
  BY <1>2
<1> QED
  BY <1>1, <1>3, <1>4

\* The body is taken.
LEMMA ParseBodyKeeps ==
  ASSUME ShapeInv, AnswersInv, NEW t \in IoThreads, NEW c, NEW k, NEW b, NEW p, Parse(t, c, k, b, p),
         After(t, c, p), k.state = "kExpectBody"
  PROVE  AnswersInv'
<1>1. IsContext(k) /\ IsBuffer(b, WireBytes) /\ p = Iteration(k, b) /\ c \in Conns
  BY DEF Parse
<1>2. /\ Conn(c, plan[c].waits, asked[c], net[c], tcp[c], b, k, written[c], job[t])
      /\ Parses(job[t], c)
      /\ asked[c] \in Seq(Requests) /\ net[c] \in Seq(WireBytes) /\ IsSeq(written[c])
  BY ParseState
<1>3. PICK bb : bb = Forget(p.buf)
  OBVIOUS
<1>4. PICK q : q = [k.request EXCEPT !.body = Content(b)]
  OBVIOUS
<1>5. PICK x : x = [state |-> "kGotAll", request |-> q]
  OBVIOUS
<1>6. x.state = "kGotAll" /\ x.request = q
  BY <1>5
<1>7. Outcome(p, x, <<>>, TRUE, FALSE)
  BY <1>1, <1>4, <1>5, BodyParsed
<1>8. IsBuffer(bb, WireBytes) /\ Content(bb) = <<>> /\ p.context = x
  <2>1. IsBuffer(p.buf, WireBytes) /\ Content(p.buf) = <<>> /\ p.context = x
    BY <1>7 DEF Outcome
  <2> QED
    BY <1>3, <2>1, ForgetEffect
<1>9. job' = BeginJob(t, c, q) /\ UNCHANGED <<tcp, written>>
  BY <1>6, <1>7 DEF After, Outcome, GotAll
<1>10. Begins(t)
  BY <1>1, <1>9, BeginEffect
<1>11. PICK jj : jj = job'[t] /\ jj = NewJob(t, c, q)
  BY <1>9 DEF BeginJob
<1>12. /\ jj.at = "route" /\ jj.conn = c /\ jj.request = q /\ jj.status = "200"
       /\ jj.close = MustClose(q)
  BY <1>11, NewJobFacts
<1>13. Calls(jj, c) /\ About(jj, c)
  BY <1>12 DEF Calls, About, InCallback
<1>14. GetsAll(k, x, jj)
  BY <1>4, <1>6, <1>12 DEF GetsAll
<1>15. Conn(c, plan[c].waits, asked[c], net[c], tcp[c], bb, x, written[c], jj)
  BY <1>1, <1>2, <1>8, <1>13, <1>14, ConnBody
<1>16. Conn(c, plan[c].waits, asked[c], net[c], tcp'[c], bb, p.context, written'[c], job'[t])
  BY <1>8, <1>9, <1>11, <1>15
<1>17. About(job'[t], c) /\ \A d \in Conns \ {c} : tcp'[d] = tcp[d] /\ written'[d] = written[d]
  BY <1>9, <1>11, <1>13
<1> QED
  BY <1>3, <1>8, <1>10, <1>16, <1>17, ParseKept

\* An iteration of parseRequest().
LEMMA ParseKeeps ==
  ASSUME ShapeInv, AnswersInv, NEW t \in IoThreads, ParseRequest(t)
  PROVE  AnswersInv'
<1>1. PICK c, k, b, p : Parse(t, c, k, b, p) /\ After(t, c, p)
  BY ParseStarts
<1>2. k.state \in {"kExpectRequestLine", "kExpectHeaders", "kExpectBody"}
  BY <1>1, ParseState
<1> QED
  BY <1>1, <1>2, ParseLineKeeps, ParseHeaderKeeps, ParseBodyKeeps

\* reset() leaves the context as it was made.
LEMMA ResetsAll ==
  ASSUME NEW k, IsContext(k)
  PROVE  Reset(k) = NewContext
<1>1. PICK s, r, new : k = [state |-> s, request |-> r] /\ new = NewRequest
  BY DEF IsContext
<1>2. PICK x : x = [k EXCEPT !.state = "kExpectRequestLine"]
  OBVIOUS
<1>3. x = [state |-> "kExpectRequestLine", request |-> r]
  BY <1>1, <1>2
<1>4. [x EXCEPT !.request = new] = [state |-> "kExpectRequestLine", request |-> new]
  BY <1>3
<1>5. Reset(k) = [x EXCEPT !.request = new]
  BY <1>1, <1>2 DEF Reset
<1> QED
  BY <1>1, <1>4, <1>5 DEF NewContext

\* The answer is written.
LEMMA RespondKeeps ==
  ASSUME ShapeInv, AnswersInv, NEW t \in IoThreads, Respond(t)
  PROVE  AnswersInv'
<1>1. PICK j : j = job[t] /\ IsCall(j) /\ j.at \in InCallback
  <2>1. job[t].at \in InCallback /\ IsJob(job[t])
    BY DEF Respond, ShapeInv, InCallback
  <2> QED
    BY <2>1, CallShape
<1>2. PICK c \in Conns : c = j.conn
  BY <1>1 DEF IsCall
<1>3. ThreadOf[c] = t
  <2>1. job[t] # NoJob
    BY <1>1 DEF NoJob, InCallback
  <2> QED
    BY <1>1, <1>2, <2>1 DEF AnswersInv, ThreadInv
<1>4. PICK new : new = NewContext
  OBVIOUS
<1>5. /\ written' = Send(c, Response(j)) /\ tcp' = IF j.close THEN Shutdown(c) ELSE tcp
      /\ context' = [context EXCEPT ![c] = new] /\ job' = [job EXCEPT ![t] = NoJob]
      /\ UNCHANGED <<plan, asked, net, input>>
  <2>1. Reset(context[c]) = new
    BY <1>4, ResetsAll DEF ShapeInv
  <2>2. context' = [context EXCEPT ![c] = Reset(@)]
    BY <1>1, <1>2 DEF Respond
  <2> QED
    BY <1>1, <1>2, <2>1, <2>2 DEF Respond
<1>6. OnlyJob(t) /\ job'[t] = NoJob
  BY <1>5 DEF ShapeInv, OnlyJob
<1>7. context'[c] = new /\ \A d \in Conns \ {c} : context'[d] = context[d]
  BY <1>5 DEF ShapeInv
<1>8. /\ \A d \in Conns \ {c} : written'[d] = written[d]
      /\ written'[c] = IF tcp[c] = "kConnected" THEN Append(written[c], Response(j)) ELSE written[c]
  BY <1>5, SendEffect
<1>9. /\ Conn(c, plan[c].waits, asked[c], net[c], tcp[c], input[c], context[c], written[c], j)
      /\ Calls(j, c)
  BY <1>1, <1>2, <1>3 DEF AnswersInv, ConnInv, Calls
<1>10. tcp[c] \in {"kConnected", "kDisconnecting"}
  BY <1>9 DEF Conn, Staged, Elsewhere, ShapeInv
<1>11. (\A d \in Conns \ {c} : tcp'[d] = tcp[d]) /\ tcp'[c] \in {tcp[c], "kDisconnecting"}
  <2>1. CASE j.close
    BY <1>5, <2>1, ShutdownEffect
  <2>2. CASE ~j.close
    BY <1>5, <2>2
  <2> QED
    BY <2>1, <2>2
<1>12. OnlyConn(t, c)
  BY <1>1, <1>2, <1>3, <1>5, <1>6, <1>7, <1>8, <1>11 DEF OnlyConn, About
<1>13. WireTypes'
  BY <1>5 DEF AnswersInv, WireTypes
<1>14. ConnInv(c)'
  <2>1. asked[c] \in Seq(Requests) /\ IsSeq(written[c])
    BY DEF ShapeInv, AnswersInv, WireTypes
  <2>2. Conn(c, plan[c].waits, asked[c], net[c], tcp'[c], input[c], NewContext, written'[c], NoJob)
    <3>1. PICK state, ws : state \in {"kConnected", "kDisconnecting"} /\ state = tcp[c] /\ ws = written[c]
      BY <1>10
    <3>2. PICK closed \in {state, "kDisconnecting"} : closed = tcp'[c]
      BY <1>11, <3>1
    <3>3. PICK v : v = written'[c]
      OBVIOUS
    <3>4. (state = "kConnected" => v = Append(ws, Response(j))) /\ (state # "kConnected" => v = ws)
      BY <1>8, <3>1, <3>3
    <3>5. Conn(c, plan[c].waits, asked[c], net[c], state, input[c], context[c], ws, j)
      BY <1>9, <3>1
    <3>6. Conn(c, plan[c].waits, asked[c], net[c], closed, input[c], NewContext, v, NoJob)
      BY <1>9, <2>1, <3>1, <3>2, <3>4, <3>5, RestsElsewhere, ConnAnswered, ZenonT(40)
    <3> QED
      BY <3>2, <3>3, <3>6
  <2> QED
    BY <1>3, <1>4, <1>5, <1>6, <1>7, <2>2 DEF ConnInv
<1> QED
  BY <1>12, <1>13, <1>14, OneConnection

-----------------------------------------------------------------------------
(* The theorem.                                                            *)

\* Nothing has been asked.
LEMMA AnswersInitially ==
  ASSUME AppInit
  PROVE  AnswersInv
<1>1. PICK b, k : b = NewBuffer(kInitialSize) /\ k = NewContext
  OBVIOUS
<1>2. IsBuffer(b, WireBytes)
  BY <1>1, NewIsBuffer
<1>3. /\ plan \in Plans /\ asked = [c \in Conns |-> <<>>] /\ net = [c \in Conns |-> <<>>]
      /\ tcp = [c \in Conns |-> "kDisconnected"] /\ input = [c \in Conns |-> b]
      /\ written = [c \in Conns |-> <<>>] /\ job = [t \in IoThreads |-> NoJob]
  BY <1>1 DEF AppInit, HttpInit
<1>4. WireTypes
  <2>1. plan \in [Conns -> [requests : Seq(Requests), waits : BOOLEAN, cuts : BOOLEAN]]
    BY <1>3, PlanAssumption
  <2>2. asked \in [Conns -> Seq(Requests)] /\ net \in [Conns -> Seq(WireBytes)]
    BY <1>3
  <2>3. input = [c \in Conns |-> input[c]] /\ \A c \in Conns : IsBuffer(input[c], WireBytes)
    BY <1>2, <1>3
  <2> QED
    BY <2>1, <2>2, <2>3 DEF WireTypes
<1>5. ThreadInv
  BY <1>3 DEF ThreadInv
<1>6. ASSUME NEW c \in Conns
      PROVE  ConnInv(c)
  <2>1. Counted(plan[c].waits, <<>>, <<>>)
    BY DEF Counted
  <2>2. Conn(c, plan[c].waits, <<>>, <<>>, "kDisconnected", input[c], context[c], <<>>, NoJob)
    BY <2>1, RestsElsewhere, ConnEnds
  <2>3. job[ThreadOf[c]] = NoJob
    BY <1>3, HttpAssumption
  <2>4. asked[c] = <<>> /\ net[c] = <<>> /\ tcp[c] = "kDisconnected" /\ written[c] = <<>>
    BY <1>3
  <2> QED
    BY <2>2, <2>3, <2>4 DEF ConnInv
<1> QED
  BY <1>4, <1>5, <1>6 DEF AnswersInv

\* Every step keeps the invariant.
LEMMA AnswersNext ==
  ASSUME AppInv, AnswersInv, [AppNext]_vars
  PROVE  AnswersInv'
<1>1. ShapeInv /\ ClosesWithItsAnswer
  BY DEF AppInv
<1>2. CASE UNCHANGED vars
  <2>1. UNCHANGED <<plan, asked, connVars, job>>
    BY <1>2 DEF vars, httpVars, connVars
  <2> QED
    BY <2>1, QuietStepKeeps
<1>3. CASE Start
  <2>1. UNCHANGED <<plan, asked, connVars, job>>
    BY <1>3 DEF Start
  <2> QED
    BY <2>1, QuietStepKeeps
<1>4. CASE Crash
  BY <1>4, CrashKeeps
<1>5. ASSUME NEW c \in Conns, ClientStep(c)
      PROVE  AnswersInv'
  BY <1>1, <1>5, OnConnectionKeeps, AskKeeps, HangUpKeeps DEF ClientStep
<1>6. ASSUME NEW t \in IoThreads, Work(t)
      PROVE  AnswersInv'
  <2>1. CASE \E c \in Conns, n \in 1..MaxMessage : OnMessage(t, c, n) /\ UNCHANGED appVars
    BY <1>1, <2>1, OnMessageKeeps
  <2>2. CASE ParseRequest(t) /\ UNCHANGED appVars
    BY <1>1, <2>2, ParseKeeps
  <2>3. CASE OnRequest(t)
    BY <1>1, <2>3, OnRequestKeeps
  <2>4. CASE Respond(t) /\ UNCHANGED appVars
    BY <1>1, <2>4, RespondKeeps
  <2> QED
    BY <1>6, <2>1, <2>2, <2>3, <2>4 DEF Work
<1> QED
  BY <1>2, <1>3, <1>4, <1>5, <1>6 DEF AppNext

\* At rest there is a line left for every request without its answer, and a
\* thread that rests has left no line.
LEMMA AnswersFollow ==
  ASSUME AppInv, AnswersInv
  PROVE  AnswersInOrder
<1>1. ASSUME NEW c \in Conns, plan[c].waits, AtRest(c), Bodiless(asked[c], Len(asked[c]))
      PROVE  Len(written[c]) = Len(asked[c])
  <2>1. PICK k, b : k = context[c] /\ b = input[c] /\ IsBuffer(b, WireBytes)
    BY DEF AnswersInv, WireTypes
  <2>2. Conn(c, plan[c].waits, asked[c], <<>>, tcp[c], b, k, written[c], NoJob)
    BY <1>1, <2>1 DEF AnswersInv, ConnInv, AtRest
  <2>3. PICK w \in Nat, l \in Nat : w = Len(written[c]) /\ l = Len(asked[c]) /\ w <= l /\ l <= w + 1
    <3>1. asked[c] \in Seq(Requests) /\ IsSeq(written[c])
      BY DEF AppInv, ShapeInv, AnswersInv, WireTypes
    <3> QED
      BY <1>1, <2>2, <3>1 DEF Conn, Counted, IsSeq
  <2>4. tcp[c] \in {"kConnected", "kDisconnecting"}
    BY <1>1 DEF AppInv, ShapeInv, AtRest
  <2>5. CASE tcp[c] = "kDisconnecting"
    <3>1. SawClose(c)
      BY <2>5 DEF AppInv, ClosesWithItsAnswer
    <3> QED
      BY <1>1, <2>2, <3>1 DEF Conn, Counted, SawClose
  <2>6. CASE tcp[c] = "kConnected" /\ l = w + 1
    <3>1. k.state \in {"kExpectRequestLine", "kExpectHeaders"} /\ NoLine(Content(b))
      BY <2>2, <2>6, RestsElsewhere DEF Conn, Staged, Elsewhere
    <3>2. PICK s \in Seq(WireBytes) : s = Content(b)
      BY <2>1, ContentTyped
    <3>3. s \o <<>> = s
      OBVIOUS
    <3>4. Stream(s, asked[c], w, plan[c].waits, k, NoJob)
      BY <2>2, <2>3, <2>6, <3>2, <3>3 DEF Conn
    <3>5. asked[c] \in Seq(Requests) /\ Len(asked[c]) = w + 1
      BY <2>3, <2>6 DEF AnswersInv, WireTypes
    <3>6. Bodiless(asked[c], w)
      BY <1>1, <3>5 DEF Bodiless
    <3>7. ~NoLine(s)
      BY <1>1, <3>1, <3>4, <3>5, <3>6, StreamHasLine
    <3> QED
      BY <3>1, <3>2, <3>7
  <2> QED
    BY <2>3, <2>4, <2>5, <2>6
<1>2. ASSUME NEW c \in Conns
      PROVE  Counted(plan[c].waits, asked[c], written[c])
  BY DEF AnswersInv, ConnInv, Conn
<1> QED
  BY <1>1, <1>2 DEF AnswersInOrder, Counted, Bodiless

\* HttpServer::onMessage(), HttpContext::parseRequest() and the callback answer a
\* client that waits for its answers with those to its requests, in their order,
\* close as it asks, and leave no request without its answer when the server has
\* read all there is, wherever the network cuts the bytes, however long the
\* requests and whatever the other connections and threads do.
THEOREM AnswersAlwaysInOrder == AppSpec => []AnswersInOrder
<1>1. AppInit => AnswersInv
  BY AnswersInitially
<1>2. AppInv /\ AnswersInv /\ [AppNext]_vars => AnswersInv'
  BY AnswersNext
<1>3. AppInv /\ AnswersInv => AnswersInOrder
  BY AnswersFollow
<1> QED
  BY <1>1, <1>2, <1>3, Inductive, PTL DEF AppSpec
=============================================================================
