---------------------------- MODULE InputsProofs ----------------------------
(***************************************************************************)
(* What the conversions of MCInputs are proved to do for every width,      *)
(* length and limit: http_parse_u64 (ContentLength), the frames of the     *)
(* native protocol (NativeFrames), parse_args (CommandLine) and the text   *)
(* of the state file (StateText).  TextProofs has the other two.           *)
(***************************************************************************)
EXTENDS MCInputs, SequenceTheorems, FiniteSetTheorems, WellFoundedInduction, TLAPS

-----------------------------------------------------------------------------
(* ContentLength. *)

\* While the loop runs, value is the number written so far, and fits.
Faithful == result \in {"reading", "ok"} => value = exact

IndInv == TypeOK /\ Faithful /\ OverflowIsReal

\* The test before the multiplication is exact: it lets a digit through if and
\* only if the number with that digit is at most Max.
LEMMA GuardIsExact ==
  ASSUME NEW v \in Nat, NEW d \in Digit
  PROVE  v <= (Max - d) \div 10 <=> v * 10 + d <= Max
<1> DEFINE q == (Max - d) \div 10
<1>1. Max - d \in Nat
  BY ContentLengthAssumption DEF Digit
<1>2. q \in Nat /\ 10 * q <= Max - d /\ Max - d < 10 * q + 10
  BY <1>1
<1> HIDE DEF q
<1>3. v <= q => v * 10 + d <= Max
  BY <1>2, ContentLengthAssumption DEF Digit
<1>4. v > q => v * 10 + d > Max
  BY <1>2, ContentLengthAssumption DEF Digit
<1>5. v <= q <=> v * 10 + d <= Max
  BY <1>2, <1>3, <1>4, ContentLengthAssumption DEF Digit
<1> QED
  BY <1>5 DEF q

\* The steps that read no digit keep the invariant.
LEMMA OtherSteps ==
  IndInv /\ (ReadOther \/ ReadEnd \/ UNCHANGED vars) => IndInv'
<1>1. ASSUME IndInv, ReadOther PROVE IndInv'
  <2>1. /\ value' = value /\ exact' = exact /\ read' = read + 1
        /\ result' = "malformed"
    BY <1>1 DEF ReadOther
  <2> QED
    BY <1>1, <2>1 DEF IndInv, TypeOK, Faithful, OverflowIsReal
<1>2. IndInv /\ ReadEnd => IndInv'
  BY DEF IndInv, TypeOK, Faithful, OverflowIsReal, ReadEnd
<1>3. IndInv /\ UNCHANGED vars => IndInv'
  BY DEF IndInv, TypeOK, Faithful, OverflowIsReal, vars
<1> QED
  BY <1>1, <1>2, <1>3

\* One iteration of the loop keeps the invariant.
LEMMA DigitStep ==
  ASSUME NEW d \in Digit, IndInv, ReadDigit(d)
  PROVE  IndInv'
<1>1. value \in Nat /\ value = exact /\ exact' = value * 10 + d
  BY ContentLengthAssumption DEF IndInv, TypeOK, Faithful, ReadDigit, Takes
<1>2. read' \in Nat /\ exact' \in Nat
  BY <1>1 DEF IndInv, TypeOK, ReadDigit, Takes, Digit
<1>3. CASE value > (Max - d) \div 10
  <2>1. value * 10 + d > Max
    BY <1>1, <1>3, GuardIsExact, ContentLengthAssumption DEF Digit
  <2>2. result' = "overflow" /\ value' = value
    BY <1>3 DEF ReadDigit
  <2> QED
    BY <1>1, <1>2, <2>1, <2>2 DEF IndInv, TypeOK, Faithful, OverflowIsReal
<1>4. CASE ~(value > (Max - d) \div 10)
  <2>1. value * 10 + d <= Max
    BY <1>1, <1>4, GuardIsExact, ContentLengthAssumption DEF Digit
  <2>2. value * 10 + d \in 0 .. Max
    BY <1>1, <2>1, ContentLengthAssumption DEF Digit
  <2>3. Shifted(d) = value * 10 + d
    BY <2>2, ContentLengthAssumption DEF Shifted
  <2>4. result' = result /\ value' = exact'
    BY <1>1, <1>4, <2>3 DEF ReadDigit
  <2>5. result = "reading"
    BY DEF ReadDigit, Takes
  <2> QED
    BY <1>1, <1>2, <2>2, <2>4, <2>5 DEF IndInv, TypeOK, Faithful, OverflowIsReal
<1> QED
  BY <1>3, <1>4

\* The value read so far is exact in every reachable state.
LEMMA Invariance == Spec => []IndInv
<1>1. Init => IndInv
  BY ContentLengthAssumption DEF Init, IndInv, TypeOK, Faithful, OverflowIsReal
<1>2. IndInv /\ [Next]_vars => IndInv'
  BY OtherSteps, DigitStep DEF Next
<1> QED
  BY <1>1, <1>2, PTL DEF Spec

\* The value of http_parse_u64 never leaves its type.
THEOREM TypeCorrect == Spec => []TypeOK
  BY Invariance, PTL DEF IndInv

\* What http_parse_u64 accepts is the number written, for every Max.
THEOREM ParsesExactly == Spec => []ParsedIsExact
<1>1. IndInv => ParsedIsExact
  BY DEF IndInv, Faithful, ParsedIsExact
<1> QED
  BY <1>1, Invariance, PTL

\* What http_parse_u64 refuses as an overflow is above Max, for every Max.
THEOREM RefusesOnlyOverflow == Spec => []OverflowIsReal
  BY Invariance, PTL DEF IndInv
-----------------------------------------------------------------------------
(* NativeFrames: words and sequences. *)

\* A word of two bytes is written as it was read.
LEMMA WordBytes ==
    ASSUME NEW a \in Frame!Byte, NEW b \in Frame!Byte
    PROVE  /\ a * Base + b \in 0 .. Base * Base - 1
           /\ Frame!Encode(a * Base + b) = <<a, b>>
<1>1. Base \in Nat /\ Base >= 4 /\ a \in Nat /\ b \in Nat /\ a <= Base - 1 /\ b < Base
  BY FrameAssumption DEF Frame!Byte
<1>2. a * Base \in Nat /\ a * Base <= (Base - 1) * Base
  BY <1>1
<1>3. (Base - 1) * Base = Base * Base - Base /\ Base * Base \in Nat
  BY <1>1
<1>4. a * Base + b \in 0 .. Base * Base - 1
  BY <1>1, <1>2, <1>3
<1>5. (a * Base + b) \div Base = a /\ (a * Base + b) % Base = b
  BY <1>1, <1>2
<1>6. a % Base = a
  BY <1>1
<1>. QED  BY <1>4, <1>5, <1>6 DEF Frame!Encode

\* A number below the limit of a word is read as it was written.
LEMMA WordValue ==
    ASSUME NEW v \in 0 .. Base * Base - 1
    PROVE  /\ Frame!Encode(v) \in Seq(Frame!Byte) /\ Len(Frame!Encode(v)) = 2
           /\ Frame!Encode(v)[1] \in Frame!Byte /\ Frame!Encode(v)[2] \in Frame!Byte
           /\ Frame!Encode(v)[1] * Base + Frame!Encode(v)[2] = v
<1>. DEFINE q == v \div Base  r == v % Base
<1>1. Base \in Nat /\ Base >= 4 /\ v \in Nat /\ Base * Base \in Nat
  BY FrameAssumption
<1>2. q \in Int /\ r \in 0 .. Base - 1 /\ v = Base * q + r
  BY <1>1
<1>. HIDE DEF q, r
<1>3. q >= 0
  <2>. SUFFICES ASSUME q <= -1 PROVE FALSE
    BY <1>2
  <2>1. Base * q <= -Base
    BY <1>1, <1>2
  <2>. QED  BY <1>1, <1>2, <2>1
<1>4. q < Base
  <2>. SUFFICES ASSUME q >= Base PROVE FALSE
    BY <1>1, <1>2
  <2>1. Base * q >= Base * Base
    BY <1>1, <1>2
  <2>. QED  BY <1>1, <1>2, <2>1
<1>5. q % Base = q
  BY <1>1, <1>2, <1>3, <1>4
<1>6. Frame!Encode(v) = <<q, r>>
  BY <1>5 DEF Frame!Encode, q, r
<1>7. q \in Frame!Byte /\ r \in Frame!Byte
  BY <1>1, <1>2, <1>3, <1>4 DEF Frame!Byte
<1>8. q * Base + r = v
  BY <1>1, <1>2
<1>. QED  BY <1>6, <1>7, <1>8

\* A set of natural numbers that is not empty has a least element.
LEMMA LeastNumber ==
    ASSUME NEW T, T \subseteq Nat, T # {}
    PROVE  \E x \in T : \A y \in T : x <= y
<1>. DEFINE R == OpToRel(<, Nat)
<1>1. IsWellFoundedOn(R, Nat)
  BY NatLessThanWellFounded
<1>2. \A x, y \in Nat : x < y => <<x, y>> \in R
  BY DEF OpToRel
<1>. HIDE DEF R
<1>3. PICK x \in T : \A y \in T : ~(<<y, x>> \in R)
  BY <1>1, WFMin
<1>4. \A y \in T : ~(y < x)
  BY <1>2, <1>3
<1>5. \A y \in T : x <= y
  BY <1>4
<1>. QED  BY <1>5

\* A C string is no longer than the bytes it is made of, and is all of them if
\* there is no NUL.
LEMMA CStringFacts ==
    ASSUME NEW b \in Seq(Frame!Byte)
    PROVE  /\ Frame!CString(b) \in Seq(Frame!Byte)
           /\ Len(Frame!CString(b)) <= Len(b)
           /\ (\A i \in 1 .. Len(b) : b[i] # 0) => Frame!CString(b) = b
<1>. DEFINE ends == {i \in 1 .. Len(b) : b[i] = 0}
<1>1. CASE ends = {}
  <2>1. Frame!CString(b) = b
    BY <1>1 DEF Frame!CString, Frame!NUL
  <2>. QED  BY <2>1
<1>2. CASE ends # {}
  <2>. DEFINE k == CHOOSE i \in ends : \A j \in ends : i <= j
  <2>1. \E i \in ends : \A j \in ends : i <= j
    <3>1. ends \subseteq Nat
      OBVIOUS
    <3>. QED  BY <1>2, <3>1, LeastNumber
  <2>2. k \in ends
    BY <2>1
  <2>. HIDE DEF k
  <2>3. k \in 1 .. Len(b) /\ b[k] = 0
    BY <2>2
  <2>4. Frame!CString(b) = SubSeq(b, 1, k - 1)
    BY <1>2 DEF Frame!CString, Frame!NUL, k
  <2>5. SubSeq(b, 1, k - 1) \in Seq(Frame!Byte) /\ Len(SubSeq(b, 1, k - 1)) = k - 1
    BY <2>3, SubSeqProperties
  <2>. QED  BY <2>3, <2>4, <2>5
<1>. QED  BY <1>1, <1>2

\* Where the bytes of two sequences are when one is written after the other.
LEMMA Joined ==
    ASSUME NEW s \in Seq(Frame!Byte), NEW t \in Seq(Frame!Byte)
    PROVE  /\ s \o t \in Seq(Frame!Byte)
           /\ Len(s \o t) = Len(s) + Len(t)
           /\ \A i \in 1 .. Len(s) : (s \o t)[i] = s[i]
           /\ \A i \in 1 .. Len(t) : (s \o t)[Len(s) + i] = t[i]
OBVIOUS

\* The bytes of a header.
LEMMA HeaderBytes ==
    ASSUME NEW t \in Frame!Byte, NEW v \in 0 .. Base * Base - 1
    PROVE  LET h == Frame!EncodeHeader(t, v)
           IN  /\ h \in Seq(Frame!Byte) /\ Len(h) = 7
               /\ h[1] = 1 /\ h[2] = 2 /\ h[3] = 3 /\ h[4] = t /\ h[5] = 0
               /\ h[6] = Frame!Encode(v)[1] /\ h[7] = Frame!Encode(v)[2]
<1>. DEFINE e == Frame!Encode(v)
<1>1. e \in Seq(Frame!Byte) /\ Len(e) = 2
  BY WordValue
<1>2. {0, 1, 2, 3} \subseteq Frame!Byte
  BY FrameAssumption DEF Frame!Byte
<1>3. <<1, 2>> \in Seq(Frame!Byte) /\ Len(<<1, 2>>) = 2 /\ <<1, 2>>[1] = 1 /\ <<1, 2>>[2] = 2
  BY <1>2
<1>4. /\ <<3, t, 0>> \in Seq(Frame!Byte) /\ Len(<<3, t, 0>>) = 3
      /\ <<3, t, 0>>[1] = 3 /\ <<3, t, 0>>[2] = t /\ <<3, t, 0>>[3] = 0
  BY <1>2
<1>. HIDE DEF e
<1>. DEFINE p == <<1, 2>>  q == <<3, t, 0>>  m == p \o q
<1>5. p \in Seq(Frame!Byte) /\ q \in Seq(Frame!Byte)
  BY <1>3, <1>4
<1>6. Frame!EncodeHeader(t, v) = m \o e
  BY DEF Frame!EncodeHeader, Frame!Magic, Frame!Version, e
<1>7. p[1] = 1 /\ p[2] = 2 /\ Len(p) = 2 /\ q[1] = 3 /\ q[2] = t /\ q[3] = 0 /\ Len(q) = 3
  BY <1>3, <1>4
<1>. HIDE DEF p, q
<1>8. /\ m \in Seq(Frame!Byte) /\ Len(m) = 5
      /\ m[1] = 1 /\ m[2] = 2 /\ m[3] = 3 /\ m[4] = t /\ m[5] = 0
  <2>1. /\ m \in Seq(Frame!Byte) /\ Len(m) = 5
        /\ \A i \in 1 .. 2 : m[i] = p[i]
        /\ \A i \in 1 .. 3 : m[2 + i] = q[i]
    <3>1. /\ m \in Seq(Frame!Byte) /\ Len(m) = Len(p) + Len(q)
          /\ \A i \in 1 .. Len(p) : m[i] = p[i]
          /\ \A i \in 1 .. Len(q) : m[Len(p) + i] = q[i]
      BY <1>5, Joined
    <3>. QED  BY ONLY <1>7, <3>1
  <2>2. m[1] = p[1] /\ m[2] = p[2] /\ m[3] = q[1] /\ m[4] = q[2] /\ m[5] = q[3]
    BY <2>1
  <2>. QED  BY <1>7, <2>1, <2>2
<1>. HIDE DEF m
<1>9. /\ m \o e \in Seq(Frame!Byte) /\ Len(m \o e) = 7
      /\ \A i \in 1 .. 5 : (m \o e)[i] = m[i]
      /\ (m \o e)[6] = e[1] /\ (m \o e)[7] = e[2]
  <2>1. /\ m \o e \in Seq(Frame!Byte) /\ Len(m \o e) = 7
        /\ \A i \in 1 .. 5 : (m \o e)[i] = m[i]
        /\ \A i \in 1 .. 2 : (m \o e)[5 + i] = e[i]
    <3>1. /\ m \o e \in Seq(Frame!Byte) /\ Len(m \o e) = Len(m) + Len(e)
          /\ \A i \in 1 .. Len(m) : (m \o e)[i] = m[i]
          /\ \A i \in 1 .. Len(e) : (m \o e)[Len(m) + i] = e[i]
      BY <1>1, <1>8, Joined
    <3>2. Len(m) = 5 /\ Len(e) = 2
      BY <1>1, <1>8
    <3>. QED  BY ONLY SMTT(40), <3>1, <3>2
  <2>2. 1 \in 1 .. 2 /\ 2 \in 1 .. 2 /\ 5 + 1 = 6 /\ 5 + 2 = 7
    OBVIOUS
  <2>3. (m \o e)[5 + 1] = e[1] /\ (m \o e)[5 + 2] = e[2]
    BY ONLY <2>1, <2>2
  <2>. QED  BY ONLY <2>1, <2>2, <2>3
<1>10. /\ Frame!EncodeHeader(t, v)[1] = 1 /\ Frame!EncodeHeader(t, v)[2] = 2
       /\ Frame!EncodeHeader(t, v)[3] = 3 /\ Frame!EncodeHeader(t, v)[4] = t
       /\ Frame!EncodeHeader(t, v)[5] = 0
  BY SMTT(40), <1>6, <1>8, <1>9
<1>. QED  BY <1>6, <1>9, <1>10 DEF e

\* The fields of a request as they lie in its bytes.
HeaderAt(z, t, p) ==
    /\ Len(z) >= 7
    /\ z[1] = 1 /\ z[2] = 2 /\ z[3] = 3 /\ z[4] = t /\ z[5] = 0
    /\ z[6] * Base + z[7] = p

NameAt(z, n) ==
    /\ Len(z) >= 9 + Len(n)
    /\ z[8] * Base + z[9] = Len(n)
    /\ \A i \in 1 .. Len(n) : z[9 + i] = n[i]

SizeAt(z, n, s) ==
    /\ Len(z) = 11 + Len(n)
    /\ z[10 + Len(n)] * Base + z[11 + Len(n)] = s

\* A request up to its file name: all of a download, the first part of an upload.
Named(t, p, n) == Frame!EncodeHeader(t, p) \o Frame!EncodeName(n)

\* A request with a file name and a content size.
Sized(t, p, n, s) == Frame!EncodeHeader(t, p) \o Frame!EncodePrefix(n, s)

\* The bytes of such a request.
LEMMA NamedBytes ==
    ASSUME NEW t \in Frame!Byte, NEW p \in 0 .. Base * Base - 1,
           NEW n \in Seq(Frame!Byte), Len(n) < Base * Base
    PROVE  LET m == Named(t, p, n)
           IN  /\ m \in Seq(Frame!Byte) /\ Len(m) = 9 + Len(n)
               /\ m[1] = 1 /\ m[2] = 2 /\ m[3] = 3 /\ m[4] = t /\ m[5] = 0
               /\ m[6] = Frame!Encode(p)[1] /\ m[7] = Frame!Encode(p)[2]
               /\ m[8] = Frame!Encode(Len(n))[1] /\ m[9] = Frame!Encode(Len(n))[2]
               /\ \A i \in 1 .. Len(n) : m[9 + i] = n[i]
<1>. DEFINE h == Frame!EncodeHeader(t, p)  e == Frame!Encode(Len(n))  f == e \o n
<1>1. Len(n) \in 0 .. Base * Base - 1
  BY FrameAssumption
<1>2. e \in Seq(Frame!Byte) /\ Len(e) = 2
  BY <1>1, WordValue
<1>3. /\ h \in Seq(Frame!Byte) /\ Len(h) = 7
      /\ h[1] = 1 /\ h[2] = 2 /\ h[3] = 3 /\ h[4] = t /\ h[5] = 0
      /\ h[6] = Frame!Encode(p)[1] /\ h[7] = Frame!Encode(p)[2]
  BY HeaderBytes
<1>4. Named(t, p, n) = h \o f
  BY DEF Named, Frame!EncodeName
<1>. HIDE DEF h, e
<1>5. /\ f \in Seq(Frame!Byte) /\ Len(f) = 2 + Len(n)
      /\ f[1] = e[1] /\ f[2] = e[2]
      /\ \A i \in 1 .. Len(n) : f[2 + i] = n[i]
  <2>1. /\ f \in Seq(Frame!Byte) /\ Len(f) = Len(e) + Len(n)
        /\ \A i \in 1 .. Len(e) : f[i] = e[i]
        /\ \A i \in 1 .. Len(n) : f[Len(e) + i] = n[i]
    BY <1>2, Joined
  <2>2. Len(e) = 2
    BY <1>2
  <2>. QED  BY ONLY <2>1, <2>2
<1>. HIDE DEF f
<1>6. /\ h \o f \in Seq(Frame!Byte) /\ Len(h \o f) = 9 + Len(n)
      /\ \A i \in 1 .. 7 : (h \o f)[i] = h[i]
      /\ \A i \in 1 .. 2 + Len(n) : (h \o f)[7 + i] = f[i]
  <2>1. /\ h \o f \in Seq(Frame!Byte) /\ Len(h \o f) = Len(h) + Len(f)
        /\ \A i \in 1 .. Len(h) : (h \o f)[i] = h[i]
        /\ \A i \in 1 .. Len(f) : (h \o f)[Len(h) + i] = f[i]
    BY <1>3, <1>5, Joined
  <2>2. Len(h) = 7 /\ Len(f) = 2 + Len(n) /\ Len(n) \in Nat
    BY <1>3, <1>5
  <2>. QED  BY ONLY <2>1, <2>2
<1>. DEFINE m == h \o f
<1>14. /\ m \in Seq(Frame!Byte) /\ Len(m) = 9 + Len(n)
       /\ \A i \in 1 .. 7 : m[i] = h[i]
       /\ \A i \in 1 .. 2 + Len(n) : m[7 + i] = f[i]
  BY ONLY <1>6
<1>. HIDE DEF m
<1>7. m[8] = f[1] /\ m[9] = f[2]
  <2>1. Len(n) \in Nat
    OBVIOUS
  <2>. QED  BY ONLY <1>14, <2>1
<1>8. \A i \in 1 .. Len(n) : m[9 + i] = n[i]
  <2>. SUFFICES ASSUME NEW i \in 1 .. Len(n) PROVE m[9 + i] = n[i]
    OBVIOUS
  <2>1. 2 + i \in 1 .. 2 + Len(n) /\ 7 + (2 + i) = 9 + i
    OBVIOUS
  <2>. QED  BY <1>5, <1>14, <2>1
<1>9. m[1] = 1 /\ m[2] = 2 /\ m[3] = 3 /\ m[4] = t /\ m[5] = 0 /\ m[6] = h[6] /\ m[7] = h[7]
  BY <1>3, <1>14
<1>10. m \in Seq(Frame!Byte) /\ Len(m) = 9 + Len(n)
  BY <1>14
<1>11. m[6] = Frame!Encode(p)[1] /\ m[7] = Frame!Encode(p)[2]
  BY <1>3, <1>9
<1>12. m[8] = Frame!Encode(Len(n))[1] /\ m[9] = Frame!Encode(Len(n))[2]
  BY <1>5, <1>7 DEF e
<1>13. Named(t, p, n) = m
  BY <1>4 DEF m
<1>. QED  BY <1>8, <1>9, <1>10, <1>11, <1>12, <1>13

\* The bytes of a request with a name and a content size.
LEMMA SizedBytes ==
    ASSUME NEW t \in Frame!Byte, NEW p \in 0 .. Base * Base - 1,
           NEW n \in Seq(Frame!Byte), Len(n) < Base * Base,
           NEW s \in 0 .. Base * Base - 1
    PROVE  LET m == Sized(t, p, n, s)
           IN  /\ m \in Seq(Frame!Byte) /\ Len(m) = 11 + Len(n)
               /\ \A i \in 1 .. 9 + Len(n) : m[i] = Named(t, p, n)[i]
               /\ m[10 + Len(n)] = Frame!Encode(s)[1]
               /\ m[11 + Len(n)] = Frame!Encode(s)[2]
<1>. DEFINE c == Named(t, p, n)  e == Frame!Encode(s)
<1>1. c \in Seq(Frame!Byte) /\ Len(c) = 9 + Len(n)
  BY NamedBytes
<1>2. e \in Seq(Frame!Byte) /\ Len(e) = 2
  BY WordValue
<1>3. Sized(t, p, n, s) = c \o e
  <2>1. Len(n) \in 0 .. Base * Base - 1
    BY FrameAssumption
  <2>2. Frame!EncodeHeader(t, p) \in Seq(Frame!Byte)
    BY HeaderBytes
  <2>3. Frame!EncodeName(n) \in Seq(Frame!Byte)
    BY <2>1, WordValue DEF Frame!EncodeName
  <2>. DEFINE x == Frame!EncodeHeader(t, p)  y == Frame!EncodeName(n)
  <2>. HIDE DEF e
  <2>4. x \o (y \o e) = (x \o y) \o e
    <3>. HIDE DEF x, y
    <3>1. x \in Seq(Frame!Byte) /\ y \in Seq(Frame!Byte)
      BY <2>2, <2>3 DEF x, y
    <3>2. ASSUME NEW a \in Seq(Frame!Byte), NEW b \in Seq(Frame!Byte),
                 NEW d \in Seq(Frame!Byte)
          PROVE  (a \o b) \o d = a \o (b \o d)
      BY SMTT(40), ConcatAssociative
    <3>. QED  BY ONLY ZenonT(60), <1>2, <3>1, <3>2
  <2>. QED  BY <2>4 DEF Sized, Frame!EncodePrefix, Named, e
<1>. HIDE DEF c, e
<1>4. /\ c \o e \in Seq(Frame!Byte) /\ Len(c \o e) = Len(c) + Len(e)
      /\ \A i \in 1 .. Len(c) : (c \o e)[i] = c[i]
      /\ \A i \in 1 .. Len(e) : (c \o e)[Len(c) + i] = e[i]
  BY <1>1, <1>2, Joined
<1>5. Len(c) = 9 + Len(n) /\ Len(e) = 2 /\ Len(n) \in Nat
  BY <1>1, <1>2
<1>6. /\ c \o e \in Seq(Frame!Byte) /\ Len(c \o e) = 11 + Len(n)
      /\ \A i \in 1 .. 9 + Len(n) : (c \o e)[i] = c[i]
  BY ONLY <1>4, <1>5
<1>7. (c \o e)[10 + Len(n)] = e[1] /\ (c \o e)[11 + Len(n)] = e[2]
  <2>1. (9 + Len(n)) + 1 = 10 + Len(n) /\ (9 + Len(n)) + 2 = 11 + Len(n)
    BY <1>5
  <2>. QED  BY ONLY <1>4, <1>5, <2>1
<1>. DEFINE m == c \o e
<1>8. /\ m \in Seq(Frame!Byte) /\ Len(m) = 11 + Len(n)
      /\ \A i \in 1 .. 9 + Len(n) : m[i] = c[i]
      /\ m[10 + Len(n)] = e[1] /\ m[11 + Len(n)] = e[2]
  BY ONLY <1>6, <1>7
<1>9. Sized(t, p, n, s) = m
  BY <1>3
<1>. HIDE DEF m
<1>. QED  BY <1>8, <1>9 DEF c, e

\* What a client's file name is.
LEMMA HonestName ==
    ASSUME NEW n \in Frame!Names
    PROVE  /\ n \in Seq(Frame!Byte) /\ Len(n) \in 1 .. MaxName
           /\ Frame!NameValid(n) /\ Frame!CString(n) = n
<1>1. PICK k \in 1 .. MaxName : n \in [1 .. k -> Frame!Byte \ {0}]
  BY DEF Frame!Names, Frame!NUL
<1>2. k \in Nat
  BY FrameAssumption
<1>3. n \in Seq(Frame!Byte \ {0}) /\ Len(n) = k
  BY <1>1, <1>2
<1>4. n \in Seq(Frame!Byte) /\ \A i \in 1 .. Len(n) : n[i] # 0
  BY <1>1, <1>2, <1>3
<1>5. Frame!NameValid(n)
  BY DEF Frame!Names
<1>. QED  BY <1>3, <1>4, <1>5, CStringFacts

\* A first part of a sequence has its bytes.
LEMMA PrefixBytes ==
    ASSUME NEW z \in Seq(Frame!Byte), NEW m \in Seq(Frame!Byte), Frame!IsPrefix(z, m)
    PROVE  Len(z) <= Len(m) /\ \A i \in 1 .. Len(z) : z[i] = m[i]
<1>1. Len(z) <= Len(m) /\ SubSeq(z, 1, Len(z)) = SubSeq(m, 1, Len(z))
  BY DEF Frame!IsPrefix
<1>2. \A i \in 1 .. Len(z) : SubSeq(z, 1, Len(z))[i] = z[i] /\ SubSeq(m, 1, Len(z))[i] = m[i]
  BY <1>1
<1>. QED  BY <1>1, <1>2

\* What the server has read when it has read a first part of a client's upload.
LEMMA SendPrefix ==
    ASSUME NEW n \in Frame!Names, NEW s \in 0 .. MaxFile,
           NEW z \in Seq(Frame!Byte), Frame!IsPrefix(z, Frame!ClientSend(n, s))
    PROVE  /\ Len(z) >= 7 => HeaderAt(z, 1, 4 + Len(n) + s)
           /\ Len(z) >= 9 => z[8] * Base + z[9] = Len(n)
           /\ Len(z) >= 9 + Len(n) => NameAt(z, n)
           /\ Len(z) = 11 + Len(n) => SizeAt(z, n, s)
<1>. DEFINE p == 4 + Len(n) + s  m == Frame!ClientSend(n, s)  c == Named(1, p, n)
<1>1. n \in Seq(Frame!Byte) /\ Len(n) \in 1 .. MaxName
  BY HonestName
<1>2. p \in 0 .. Base * Base - 1 /\ Len(n) \in 0 .. Base * Base - 1 /\ s \in 0 .. Base * Base - 1
  BY <1>1, FrameAssumption
<1>3. 1 \in Frame!Byte /\ Len(n) < Base * Base
  BY <1>1, <1>2, FrameAssumption DEF Frame!Byte
<1>4. m = Sized(1, p, n, s)
  <2>1. Frame!PrefixSize(Len(n)) + s = p
    BY <1>1 DEF Frame!PrefixSize, Frame!NameOnlySize
  <2>. QED  BY <2>1 DEF Frame!ClientSend, Frame!SEND, Sized
<1>. HIDE DEF p
<1>5. /\ m \in Seq(Frame!Byte) /\ Len(m) = 11 + Len(n)
      /\ \A i \in 1 .. 9 + Len(n) : m[i] = c[i]
      /\ m[10 + Len(n)] = Frame!Encode(s)[1]
      /\ m[11 + Len(n)] = Frame!Encode(s)[2]
  <2>1. s \in 0 .. Base * Base - 1 /\ p \in 0 .. Base * Base - 1
    BY <1>2
  <2>. DEFINE d == Sized(1, p, n, s)
  <2>2. /\ d \in Seq(Frame!Byte) /\ Len(d) = 11 + Len(n)
        /\ \A i \in 1 .. 9 + Len(n) : d[i] = c[i]
        /\ d[10 + Len(n)] = Frame!Encode(s)[1]
        /\ d[11 + Len(n)] = Frame!Encode(s)[2]
    BY ONLY <1>1, <1>3, <2>1, SizedBytes
  <2>. QED  BY ONLY <1>4, <2>2
<1>6. /\ c \in Seq(Frame!Byte) /\ Len(c) = 9 + Len(n)
      /\ c[1] = 1 /\ c[2] = 2 /\ c[3] = 3 /\ c[4] = 1 /\ c[5] = 0
      /\ c[6] = Frame!Encode(p)[1] /\ c[7] = Frame!Encode(p)[2]
      /\ c[8] = Frame!Encode(Len(n))[1] /\ c[9] = Frame!Encode(Len(n))[2]
      /\ \A i \in 1 .. Len(n) : c[9 + i] = n[i]
  BY <1>1, <1>2, <1>3, NamedBytes
<1>7. /\ Frame!Encode(p)[1] * Base + Frame!Encode(p)[2] = p
      /\ Frame!Encode(s)[1] * Base + Frame!Encode(s)[2] = s
      /\ Frame!Encode(Len(n))[1] * Base + Frame!Encode(Len(n))[2] = Len(n)
  BY <1>2, WordValue
<1>8. Len(z) <= Len(m) /\ \A i \in 1 .. Len(z) : z[i] = m[i]
  BY <1>5, PrefixBytes
<1>. HIDE DEF m, c
<1>9. Len(z) \in Nat /\ Len(n) \in Nat /\ Len(n) >= 1
  BY <1>1
<1>10. \A i \in 1 .. Len(z) : i <= 9 + Len(n) => z[i] = c[i]
  BY ONLY <1>5, <1>8, <1>9
<1>11. ASSUME Len(z) >= 7 PROVE HeaderAt(z, 1, p)
  <2>1. z[1] = c[1] /\ z[2] = c[2] /\ z[3] = c[3] /\ z[4] = c[4] /\ z[5] = c[5]
        /\ z[6] = c[6] /\ z[7] = c[7]
    BY ONLY <1>9, <1>10, <1>11
  <2>. QED  BY <1>6, <1>7, <1>11, <2>1 DEF HeaderAt
<1>12. ASSUME Len(z) >= 9 PROVE z[8] * Base + z[9] = Len(n)
  <2>1. z[8] = c[8] /\ z[9] = c[9]
    BY ONLY <1>9, <1>10, <1>12
  <2>. QED  BY <1>6, <1>7, <2>1
<1>13. ASSUME Len(z) >= 9 + Len(n) PROVE NameAt(z, n)
  <2>1. \A i \in 1 .. Len(n) : z[9 + i] = c[9 + i]
    BY ONLY <1>9, <1>10, <1>13
  <2>. QED  BY <1>6, <1>9, <1>12, <1>13, <2>1 DEF NameAt
<1>14. ASSUME Len(z) = 11 + Len(n) PROVE SizeAt(z, n, s)
  <2>1. z[10 + Len(n)] = m[10 + Len(n)] /\ z[11 + Len(n)] = m[11 + Len(n)]
    BY ONLY <1>8, <1>9, <1>14
  <2>. QED  BY <1>5, <1>7, <1>14, <2>1 DEF SizeAt
<1>. QED  BY <1>11, <1>12, <1>13, <1>14 DEF p

\* The same for a client's download.
LEMMA GetPrefix ==
    ASSUME NEW n \in Frame!Names,
           NEW z \in Seq(Frame!Byte), Frame!IsPrefix(z, Frame!ClientGet(n))
    PROVE  /\ Len(z) >= 7 => HeaderAt(z, 3, 2 + Len(n))
           /\ Len(z) >= 9 => z[8] * Base + z[9] = Len(n)
           /\ Len(z) >= 9 + Len(n) => NameAt(z, n)
<1>. DEFINE p == 2 + Len(n)  c == Named(3, p, n)
<1>1. n \in Seq(Frame!Byte) /\ Len(n) \in 1 .. MaxName
  BY HonestName
<1>2. p \in 0 .. Base * Base - 1 /\ Len(n) \in 0 .. Base * Base - 1
  BY <1>1, FrameAssumption
<1>3. 3 \in Frame!Byte /\ Len(n) < Base * Base
  BY <1>1, <1>2, FrameAssumption DEF Frame!Byte
<1>4. Frame!ClientGet(n) = c
  BY DEF Frame!ClientGet, Frame!GET, Frame!NameOnlySize, Named
<1>. HIDE DEF p
<1>6. /\ c \in Seq(Frame!Byte) /\ Len(c) = 9 + Len(n)
      /\ c[1] = 1 /\ c[2] = 2 /\ c[3] = 3 /\ c[4] = 3 /\ c[5] = 0
      /\ c[6] = Frame!Encode(p)[1] /\ c[7] = Frame!Encode(p)[2]
      /\ c[8] = Frame!Encode(Len(n))[1] /\ c[9] = Frame!Encode(Len(n))[2]
      /\ \A i \in 1 .. Len(n) : c[9 + i] = n[i]
  BY <1>1, <1>2, <1>3, NamedBytes
<1>7. /\ Frame!Encode(p)[1] * Base + Frame!Encode(p)[2] = p
      /\ Frame!Encode(Len(n))[1] * Base + Frame!Encode(Len(n))[2] = Len(n)
  BY <1>2, WordValue
<1>8. Len(z) <= Len(c) /\ \A i \in 1 .. Len(z) : z[i] = c[i]
  BY <1>4, <1>6, PrefixBytes
<1>. HIDE DEF c
<1>9. Len(z) \in Nat /\ Len(n) \in Nat /\ Len(n) >= 1
  BY <1>1
<1>11. ASSUME Len(z) >= 7 PROVE HeaderAt(z, 3, p)
  <2>1. z[1] = c[1] /\ z[2] = c[2] /\ z[3] = c[3] /\ z[4] = c[4] /\ z[5] = c[5]
        /\ z[6] = c[6] /\ z[7] = c[7]
    BY ONLY <1>8, <1>9, <1>11
  <2>. QED  BY <1>6, <1>7, <1>11, <2>1 DEF HeaderAt
<1>12. ASSUME Len(z) >= 9 PROVE z[8] * Base + z[9] = Len(n)
  <2>1. z[8] = c[8] /\ z[9] = c[9]
    BY ONLY <1>8, <1>9, <1>12
  <2>. QED  BY <1>6, <1>7, <2>1
<1>13. ASSUME Len(z) >= 9 + Len(n) PROVE NameAt(z, n)
  <2>1. \A i \in 1 .. Len(n) : z[9 + i] = c[9 + i]
    BY ONLY <1>8, <1>9, <1>13
  <2>. QED  BY <1>6, <1>9, <1>12, <1>13, <2>1 DEF NameAt
<1>. QED  BY <1>11, <1>12, <1>13 DEF p

\* Two sequences of bytes with the same bytes are the same.
LEMMA SameBytes ==
    ASSUME NEW y \in Seq(Frame!Byte), NEW z \in Seq(Frame!Byte), Len(y) = Len(z),
           \A i \in 1 .. Len(z) : y[i] = z[i]
    PROVE  y = z
BY SeqEqual

\* The two bytes of a word are the ones its encoder writes.
LEMMA WordAt ==
    ASSUME NEW z \in Seq(Frame!Byte), NEW i \in 1 .. Len(z), NEW j \in 1 .. Len(z)
    PROVE  /\ z[i] * Base + z[j] \in 0 .. Base * Base - 1
           /\ Frame!Encode(z[i] * Base + z[j])[1] = z[i]
           /\ Frame!Encode(z[i] * Base + z[j])[2] = z[j]
<1>1. z[i] \in Frame!Byte /\ z[j] \in Frame!Byte
  OBVIOUS
<1>2. /\ z[i] * Base + z[j] \in 0 .. Base * Base - 1
      /\ Frame!Encode(z[i] * Base + z[j]) = <<z[i], z[j]>>
  BY <1>1, WordBytes
<1>. QED  BY <1>2

\* Bytes with the fields of a request up to its file name are that request.
LEMMA NamedAt ==
    ASSUME NEW z \in Seq(Frame!Byte), NEW t \in Frame!Byte, NEW p \in Nat, NEW n \in Seq(Frame!Byte),
           HeaderAt(z, t, p), NameAt(z, n)
    PROVE  /\ p \in 0 .. Base * Base - 1 /\ Len(n) < Base * Base
           /\ \A i \in 1 .. 9 + Len(n) : Named(t, p, n)[i] = z[i]
           /\ Len(z) = 9 + Len(n) => z = Named(t, p, n)
<1>. DEFINE m == Named(t, p, n)
<1>1. Len(n) \in Nat /\ Len(z) \in Nat /\ Len(z) >= 9 + Len(n)
  BY DEF NameAt
<1>2. /\ p \in 0 .. Base * Base - 1
      /\ Frame!Encode(p)[1] = z[6] /\ Frame!Encode(p)[2] = z[7]
  <2>1. 6 \in 1 .. Len(z) /\ 7 \in 1 .. Len(z)
    BY <1>1
  <2>2. /\ z[6] * Base + z[7] \in 0 .. Base * Base - 1
        /\ Frame!Encode(z[6] * Base + z[7])[1] = z[6]
        /\ Frame!Encode(z[6] * Base + z[7])[2] = z[7]
    BY ONLY <2>1, WordAt, z \in Seq(Frame!Byte)
  <2>3. z[6] * Base + z[7] = p
    BY DEF HeaderAt
  <2>. QED  BY ONLY <2>2, <2>3
<1>3. /\ Len(n) \in 0 .. Base * Base - 1
      /\ Frame!Encode(Len(n))[1] = z[8] /\ Frame!Encode(Len(n))[2] = z[9]
  <2>1. 8 \in 1 .. Len(z) /\ 9 \in 1 .. Len(z)
    BY <1>1
  <2>2. /\ z[8] * Base + z[9] \in 0 .. Base * Base - 1
        /\ Frame!Encode(z[8] * Base + z[9])[1] = z[8]
        /\ Frame!Encode(z[8] * Base + z[9])[2] = z[9]
    BY ONLY <2>1, WordAt, z \in Seq(Frame!Byte)
  <2>3. z[8] * Base + z[9] = Len(n)
    BY DEF NameAt
  <2>. QED  BY ONLY <2>2, <2>3
<1>4. Len(n) < Base * Base
  BY <1>3, FrameAssumption
<1>5. /\ m \in Seq(Frame!Byte) /\ Len(m) = 9 + Len(n)
      /\ m[1] = 1 /\ m[2] = 2 /\ m[3] = 3 /\ m[4] = t /\ m[5] = 0
      /\ m[6] = Frame!Encode(p)[1] /\ m[7] = Frame!Encode(p)[2]
      /\ m[8] = Frame!Encode(Len(n))[1] /\ m[9] = Frame!Encode(Len(n))[2]
      /\ \A i \in 1 .. Len(n) : m[9 + i] = n[i]
  BY <1>2, <1>4, NamedBytes
<1>. HIDE DEF m
<1>6. \A i \in 1 .. 9 + Len(n) : m[i] = z[i]
  <2>. SUFFICES ASSUME NEW i \in 1 .. 9 + Len(n) PROVE m[i] = z[i]
    OBVIOUS
  <2>1. CASE i <= 9
    <3>1. i \in {1, 2, 3, 4, 5, 6, 7, 8, 9}
      BY ONLY <2>1, <1>1
    <3>. QED  BY <1>2, <1>3, <1>5, <3>1 DEF HeaderAt
  <2>2. CASE i > 9
    <3>1. i - 9 \in 1 .. Len(n) /\ 9 + (i - 9) = i
      BY ONLY <1>1, <2>2
    <3>2. m[9 + (i - 9)] = n[i - 9] /\ z[9 + (i - 9)] = n[i - 9]
      BY <1>5, <3>1 DEF NameAt
    <3>. QED  BY <3>1, <3>2
  <2>. QED  BY <1>1, <2>1, <2>2
<1>7. ASSUME Len(z) = 9 + Len(n) PROVE z = m
  BY <1>5, <1>6, <1>7, SameBytes
<1>. QED  BY <1>2, <1>4, <1>6, <1>7 DEF m

\* The same with a content size behind the file name.
LEMMA SizedAt ==
    ASSUME NEW z \in Seq(Frame!Byte), NEW t \in Frame!Byte, NEW p \in Nat, NEW n \in Seq(Frame!Byte),
           NEW s \in Nat, HeaderAt(z, t, p), NameAt(z, n), SizeAt(z, n, s)
    PROVE  z = Sized(t, p, n, s)
<1>. DEFINE m == Sized(t, p, n, s)
<1>1. Len(n) \in Nat /\ Len(z) = 11 + Len(n)
  BY DEF SizeAt
<1>2. /\ p \in 0 .. Base * Base - 1 /\ Len(n) < Base * Base
      /\ \A i \in 1 .. 9 + Len(n) : Named(t, p, n)[i] = z[i]
  BY NamedAt
<1>3. /\ s \in 0 .. Base * Base - 1
      /\ Frame!Encode(s)[1] = z[10 + Len(n)] /\ Frame!Encode(s)[2] = z[11 + Len(n)]
  <2>1. 10 + Len(n) \in 1 .. Len(z) /\ 11 + Len(n) \in 1 .. Len(z)
    BY <1>1
  <2>. DEFINE i == 10 + Len(n)  j == 11 + Len(n)
  <2>2. z[i] * Base + z[j] = s
    BY DEF SizeAt
  <2>. HIDE DEF i, j
  <2>3. /\ z[i] * Base + z[j] \in 0 .. Base * Base - 1
        /\ Frame!Encode(z[i] * Base + z[j])[1] = z[i]
        /\ Frame!Encode(z[i] * Base + z[j])[2] = z[j]
    <3>1. i \in 1 .. Len(z) /\ j \in 1 .. Len(z)
      BY <2>1 DEF i, j
    <3>. QED  BY ONLY <3>1, WordAt, z \in Seq(Frame!Byte)
  <2>4. s \in 0 .. Base * Base - 1 /\ Frame!Encode(s)[1] = z[i] /\ Frame!Encode(s)[2] = z[j]
    BY ONLY <2>2, <2>3
  <2>. QED  BY ONLY <2>4 DEF i, j
<1>4. /\ m \in Seq(Frame!Byte) /\ Len(m) = 11 + Len(n)
      /\ \A i \in 1 .. 9 + Len(n) : m[i] = Named(t, p, n)[i]
      /\ m[10 + Len(n)] = Frame!Encode(s)[1]
      /\ m[11 + Len(n)] = Frame!Encode(s)[2]
  BY ONLY <1>2, <1>3, SizedBytes, n \in Seq(Frame!Byte), t \in Frame!Byte
<1>. HIDE DEF m
<1>5. \A i \in 1 .. Len(z) : m[i] = z[i]
  <2>. SUFFICES ASSUME NEW i \in 1 .. Len(z) PROVE m[i] = z[i]
    OBVIOUS
  <2>1. i \in 1 .. 9 + Len(n) \/ i = 10 + Len(n) \/ i = 11 + Len(n)
    BY <1>1
  <2>. QED  BY <1>2, <1>3, <1>4, <2>1
<1>. QED  BY <1>1, <1>4, <1>5, SameBytes DEF m

\* The same for a text message.
LEMMA TextAt ==
    ASSUME NEW z \in Seq(Frame!Byte), NEW t \in Frame!Byte, NEW p \in Nat,
           HeaderAt(z, t, p), Len(z) = 7 + p
    PROVE  z = Frame!EncodeHeader(t, p) \o SubSeq(z, 8, Len(z))
<1>. DEFINE h == Frame!EncodeHeader(t, p)  x == SubSeq(z, 8, Len(z))  m == h \o x
<1>1. Len(z) \in Nat /\ Len(z) >= 7
  BY DEF HeaderAt
<1>2. /\ p \in 0 .. Base * Base - 1
      /\ Frame!Encode(p)[1] = z[6] /\ Frame!Encode(p)[2] = z[7]
  <2>1. 6 \in 1 .. Len(z) /\ 7 \in 1 .. Len(z)
    BY <1>1
  <2>2. /\ z[6] * Base + z[7] \in 0 .. Base * Base - 1
        /\ Frame!Encode(z[6] * Base + z[7])[1] = z[6]
        /\ Frame!Encode(z[6] * Base + z[7])[2] = z[7]
    BY ONLY <2>1, WordAt, z \in Seq(Frame!Byte)
  <2>3. z[6] * Base + z[7] = p
    BY DEF HeaderAt
  <2>. QED  BY ONLY <2>2, <2>3
<1>3. /\ h \in Seq(Frame!Byte) /\ Len(h) = 7
      /\ h[1] = 1 /\ h[2] = 2 /\ h[3] = 3 /\ h[4] = t /\ h[5] = 0
      /\ h[6] = Frame!Encode(p)[1] /\ h[7] = Frame!Encode(p)[2]
  BY <1>2, HeaderBytes
<1>4. /\ x \in Seq(Frame!Byte) /\ Len(x) = Len(z) - 7
      /\ \A i \in 1 .. Len(z) - 7 : x[i] = z[7 + i]
  BY <1>1
<1>. HIDE DEF h, x
<1>5. /\ m \in Seq(Frame!Byte) /\ Len(m) = Len(h) + Len(x)
      /\ \A i \in 1 .. Len(h) : m[i] = h[i]
      /\ \A i \in 1 .. Len(x) : m[Len(h) + i] = x[i]
  BY <1>3, <1>4, Joined
<1>. HIDE DEF m
<1>6. \A i \in 1 .. Len(z) : m[i] = z[i]
  <2>. SUFFICES ASSUME NEW i \in 1 .. Len(z) PROVE m[i] = z[i]
    OBVIOUS
  <2>1. CASE i <= 7
    <3>1. i \in {1, 2, 3, 4, 5, 6, 7}
      BY ONLY <2>1, <1>1
    <3>. QED  BY <1>2, <1>3, <1>5, <3>1 DEF HeaderAt
  <2>2. CASE i > 7
    <3>1. i - 7 \in 1 .. Len(z) - 7 /\ 7 + (i - 7) = i
      BY ONLY <1>1, <2>2
    <3>2. m[7 + (i - 7)] = x[i - 7]
      BY ONLY <1>3, <1>4, <1>5, <3>1
    <3>. QED  BY <1>4, <3>1, <3>2
  <2>. QED  BY <1>1, <2>1, <2>2
<1>7. Len(m) = Len(z)
  BY ONLY <1>1, <1>3, <1>4, <1>5
<1>8. z = m
  BY <1>5, <1>6, <1>7, SameBytes
<1>. QED  BY <1>8 DEF m, x, h

-----------------------------------------------------------------------------
(* NativeFrames: the invariant. *)

\* recv_all has len bytes to read, the first of them after the first off of the
\* stream, and buf is what it has of them.
ReadTo(off, len) ==
    /\ want = len /\ Len(buf) <= len /\ Len(stream) = off + Len(buf)
    /\ \A i \in 1 .. Len(buf) : stream[off + i] = buf[i]

\* The length of the file name, where the stream has it.
FieldLen == stream[8] * Base + stream[9]

\* The header is in the stream as the server decoded it.
HeaderRead ==
    /\ header \in [type : {1, 2, 3}, payload : Nat]
    /\ HeaderAt(stream, header.type, header.payload)

FrameTypes ==
    /\ stage \in {"header", "text", "name_len", "name", "size", "replied", "refused", "broken"}
    /\ want \in Nat /\ size \in Nat
    /\ buf \in Seq(Frame!Byte) /\ stream \in Seq(Frame!Byte) /\ name \in Seq(Frame!Byte)
    /\ told \in {"nothing", "ok", "refused", "silence", "invalid"}

\* Where the server is in the stream while it reads.
ReadingInv ==
    /\ stage = "header" => ReadTo(0, 7)
    /\ stage = "text" => HeaderRead /\ header.type = 2 /\ ReadTo(7, header.payload)
    /\ stage = "name_len" => HeaderRead /\ header.type \in {1, 3} /\ ReadTo(7, 2)
    /\ stage = "name" => /\ HeaderRead /\ header.type \in {1, 3}
                         /\ FieldLen \in 1 .. MaxName /\ ReadTo(9, FieldLen)
    /\ stage = "size" => /\ HeaderRead /\ header.type = 1
                         /\ FieldLen \in 1 .. MaxName /\ ReadTo(9 + FieldLen, 2)
                         /\ name = Frame!CString(SubSeq(stream, 10, 9 + FieldLen))
    /\ stage # "replied" => answer = Frame!None /\ told = "nothing"

\* The response is one that the client of this command takes, and says whether
\* the request was accepted.
AnswerInv ==
    stage = "replied" =>
        /\ header \in [type : {1, 2, 3}, payload : Nat]
        /\ answer \in [phase : {IF header.type = 2 THEN 1 ELSE 0}, status : 0 .. 2, code : 0 .. 13]
        /\ Frame!FrameValid(answer)
        /\ answer.status = 0 <=> Frame!Accepted
        /\ reply = Frame!EncodeFrame(answer)

FrameInv ==
    /\ FrameTypes /\ ReadingInv /\ AnswerInv
    /\ Frame!AcceptedIsCanonical /\ Frame!SizesAgree
    /\ Frame!HonestIsAccepted /\ Frame!AnswerIsUnderstood

\* The response of a handler for a request of type t; code 0 is acceptance.
Verdict(t, c) ==
    [phase |-> IF t = 2 THEN 1 ELSE 0,
     status |-> IF c = 0 THEN 0 ELSE IF t = 2 THEN 2 ELSE 1,
     code |-> c]

\* The responses of the code are verdicts, and valid; None is no response.
LEMMA Verdicts ==
    /\ Verdict(1, 0) = Frame!ReadyOk /\ Verdict(3, 0) = Frame!ReadyOk
    /\ Verdict(2, 0) = Frame!FinalOk
    /\ \A c \in 1 .. 13 : /\ Verdict(1, c) = Frame!ReadyReject(c)
                          /\ Verdict(3, c) = Frame!ReadyReject(c)
                          /\ Verdict(2, c) = Frame!FinalFailed(c)
    /\ \A t \in {1, 2, 3}, c \in 0 .. 13 :
          /\ Frame!FrameValid(Verdict(t, c))
          /\ Verdict(t, c).phase = (IF t = 2 THEN 1 ELSE 0)
          /\ Verdict(t, c).status \in 0 .. 2 /\ Verdict(t, c).code = c
          /\ Verdict(t, c).status = 0 <=> c = 0
          /\ Verdict(t, c) \in {Frame!ReadyOk, Frame!FinalOk} <=> c = 0
    /\ Frame!None \notin {Frame!ReadyOk, Frame!FinalOk}
<1>1. Verdict(1, 0) = Frame!ReadyOk /\ Verdict(3, 0) = Frame!ReadyOk
  BY DEF Verdict, Frame!ReadyOk
<1>2. Verdict(2, 0) = Frame!FinalOk
  BY DEF Verdict, Frame!FinalOk
<1>3. \A c \in 1 .. 13 : /\ Verdict(1, c) = Frame!ReadyReject(c)
                         /\ Verdict(3, c) = Frame!ReadyReject(c)
                         /\ Verdict(2, c) = Frame!FinalFailed(c)
  BY DEF Verdict, Frame!ReadyReject, Frame!FinalFailed
<1>4. ASSUME NEW t \in {1, 2, 3}, NEW c \in 0 .. 13
      PROVE  /\ Frame!FrameValid(Verdict(t, c))
             /\ Verdict(t, c).phase = (IF t = 2 THEN 1 ELSE 0)
             /\ Verdict(t, c).status \in 0 .. 2 /\ Verdict(t, c).code = c
             /\ Verdict(t, c).status = 0 <=> c = 0
  BY DEF Verdict, Frame!FrameValid, Frame!MSG_TOO_LARGE
<1>5. ASSUME NEW t \in {1, 2, 3}, NEW c \in 0 .. 13
      PROVE  Verdict(t, c) \in {Frame!ReadyOk, Frame!FinalOk} <=> c = 0
  <2>1. c = 0 => Verdict(t, c) \in {Frame!ReadyOk, Frame!FinalOk}
    BY <1>1, <1>2
  <2>2. Verdict(t, c).code = c /\ Frame!ReadyOk.code = 0 /\ Frame!FinalOk.code = 0
    BY DEF Verdict, Frame!ReadyOk, Frame!FinalOk
  <2>. QED  BY <2>1, <2>2
<1>6. Frame!None \notin {Frame!ReadyOk, Frame!FinalOk}
  <2>1. "none" \in DOMAIN Frame!None
    BY DEF Frame!None
  <2>2. "none" \notin DOMAIN Frame!ReadyOk /\ "none" \notin DOMAIN Frame!FinalOk
    BY DEF Frame!ReadyOk, Frame!FinalOk
  <2>. QED  BY <2>1, <2>2
<1>. QED  BY <1>1, <1>2, <1>3, <1>4, <1>5, <1>6

\* A response frame says to the client what the server put into it.
LEMMA FrameIsRead ==
    ASSUME NEW t \in {1, 2, 3}, NEW c \in 0 .. 13
    PROVE  LET r == Frame!EncodeFrame(Verdict(t, c))
           IN  /\ Len(r) = 4
               /\ Frame!DecodeFrame(r) = Verdict(t, c)
<1>. DEFINE v == Verdict(t, c)  e == Frame!Encode(c)  r == Frame!EncodeFrame(v)
<1>1. c \in 0 .. Base * Base - 1
  <2>1. Base * Base >= 16 /\ Base * Base \in Nat
    <3>1. Base \in Nat /\ Base >= 4
      BY FrameAssumption
    <3>2. Base * Base >= 4 * Base
      BY <3>1
    <3>. QED  BY <3>1, <3>2
  <2>. QED  BY <2>1
<1>2. Len(e) = 2 /\ e[1] * Base + e[2] = c
  BY <1>1, WordValue
<1>3. e = <<(c \div Base) % Base, c % Base>>
  BY DEF Frame!Encode
<1>4. v.code = c
  BY DEF Verdict
<1>5. r = <<v.phase, v.status>> \o <<(c \div Base) % Base, c % Base>>
  BY <1>3, <1>4 DEF Frame!EncodeFrame
<1>6. e[1] = (c \div Base) % Base /\ e[2] = c % Base
  BY <1>3
<1>. HIDE DEF v, r
<1>7. Len(r) = 4 /\ r[1] = v.phase /\ r[2] = v.status /\ r[3] = e[1] /\ r[4] = e[2]
  BY <1>5, <1>6
<1>8. Frame!Decode(<<r[3], r[4]>>) = r[3] * Base + r[4]
  BY DEF Frame!Decode
<1>9. Frame!DecodeFrame(r) = [phase |-> v.phase, status |-> v.status, code |-> c]
  BY <1>2, <1>7, <1>8 DEF Frame!DecodeFrame
<1>10. v = [phase |-> v.phase, status |-> v.status, code |-> c]
  BY DEF v, Verdict
<1>. QED  BY <1>7, <1>9, <1>10 DEF r, v

\* A header that came in full: the tests of decode_header and the payload size.
LEMMA HeaderTests ==
    ASSUME NEW b \in Seq(Frame!Byte), Len(b) = 7
    PROVE  /\ Frame!HeaderOk(b) <=> /\ b[1] = 1 /\ b[2] = 2 /\ b[3] = 3
                                    /\ b[4] \in {1, 2, 3} /\ b[5] = 0
           /\ Frame!Decode(SubSeq(b, 6, 7)) = b[6] * Base + b[7]
           /\ b[6] * Base + b[7] \in Nat
<1>1. /\ Len(SubSeq(b, 1, 2)) = 2 /\ SubSeq(b, 1, 2)[1] = b[1] /\ SubSeq(b, 1, 2)[2] = b[2]
      /\ SubSeq(b, 1, 2) \in Seq(Frame!Byte)
  OBVIOUS
<1>2. SubSeq(b, 6, 7)[1] = b[6] /\ SubSeq(b, 6, 7)[2] = b[7]
  OBVIOUS
<1>3. SubSeq(b, 1, 2) = <<1, 2>> <=> b[1] = 1 /\ b[2] = 2
  <2>. DEFINE x == SubSeq(b, 1, 2)
  <2>1. /\ Len(x) = 2 /\ x[1] = b[1] /\ x[2] = b[2]
        /\ x \in Seq(Frame!Byte)
    BY <1>1
  <2>. HIDE DEF x
  <2>2. x = <<1, 2>> <=> x[1] = 1 /\ x[2] = 2
    BY <2>1
  <2>. QED  BY <2>1, <2>2 DEF x
<1>4. Frame!Types = {1, 2, 3}
  BY DEF Frame!Types, Frame!SEND, Frame!TEXT, Frame!GET
<1>5. b[6] \in Frame!Byte /\ b[7] \in Frame!Byte
  <2>1. 6 \in 1 .. Len(b) /\ 7 \in 1 .. Len(b)
    OBVIOUS
  <2>. QED  BY <2>1, ElementOfSeq
<1>6. b[6] * Base + b[7] \in Nat
  BY <1>5, WordBytes, FrameAssumption
<1>. QED  BY <1>2, <1>3, <1>4, <1>6 DEF Frame!HeaderOk, Frame!Magic, Frame!Version, Frame!Decode

\* While nothing is decided, nothing is to be shown of the decision.
LEMMA Undecided ==
    ASSUME stage' \notin {"replied", "refused"}, answer' = Frame!None, told' = "nothing"
    PROVE  /\ AnswerInv' /\ Frame!AcceptedIsCanonical' /\ Frame!SizesAgree'
           /\ Frame!HonestIsAccepted' /\ Frame!AnswerIsUnderstood'
<1>1. ~Frame!Accepted'
  BY Verdicts DEF Frame!Accepted
<1>2. AnswerInv'
  BY DEF AnswerInv
<1>3. Frame!AcceptedIsCanonical'
  BY <1>1, Zenon DEF Frame!AcceptedIsCanonical
<1>4. Frame!SizesAgree'
  BY <1>1, Zenon DEF Frame!SizesAgree
<1>5. Frame!HonestIsAccepted'
  BY DEF Frame!HonestIsAccepted
<1>6. Frame!AnswerIsUnderstood'
  BY DEF Frame!AnswerIsUnderstood
<1>. QED  BY <1>2, <1>3, <1>4, <1>5, <1>6

\* A handler that responds: the client will understand it, and what is left to
\* show is about acceptance.
LEMMA Responded ==
    ASSUME NEW t \in {1, 2, 3}, NEW c \in 0 .. 13,
           header' \in [type : {1, 2, 3}, payload : Nat], header'.type = t,
           Frame!Respond(Verdict(t, c)), told = "nothing"
    PROVE  /\ stage' = "replied" /\ stream' = stream /\ buf' = <<>> /\ want' = 0
           /\ answer' = Verdict(t, c) /\ told' = "nothing"
           /\ Frame!Accepted' <=> c = 0
           /\ AnswerInv' /\ Frame!AnswerIsUnderstood'
<1>1. /\ stage' = "replied" /\ stream' = stream /\ buf' = <<>> /\ want' = 0
      /\ answer' = Verdict(t, c) /\ told' = "nothing"
      /\ reply' = Frame!EncodeFrame(Verdict(t, c))
  BY Verdicts DEF Frame!Respond
<1>2. Frame!Accepted' <=> c = 0
  BY <1>1, Verdicts DEF Frame!Accepted
<1>3. /\ Verdict(t, c) \in [phase : {IF t = 2 THEN 1 ELSE 0}, status : 0 .. 2, code : 0 .. 13]
      /\ Frame!FrameValid(Verdict(t, c))
      /\ Verdict(t, c).status = 0 <=> c = 0
  <2>1. Verdict(t, c).status = 0 <=> c = 0
    BY Verdicts
  <2>2. Frame!FrameValid(Verdict(t, c))
    BY Verdicts
  <2>3. Verdict(t, c) \in [phase : {IF t = 2 THEN 1 ELSE 0}, status : 0 .. 2, code : 0 .. 13]
    BY DEF Verdict
  <2>. QED  BY <2>1, <2>2, <2>3
<1>. HIDE DEF Frame!FrameValid
<1>4. Frame!FrameValid(answer')
  BY <1>1, <1>3
<1>5. AnswerInv'
  <2>1. header' \in [type : {1, 2, 3}, payload : Nat] /\ header'.type = t
    OBVIOUS
  <2>2. answer' \in [phase : {IF header'.type = 2 THEN 1 ELSE 0}, status : 0 .. 2, code : 0 .. 13]
    BY <1>1, <1>3
  <2>3. answer'.status = 0 <=> Frame!Accepted'
    BY <1>1, <1>2, <1>3
  <2>4. reply' = Frame!EncodeFrame(answer')
    BY <1>1
  <2>5. Frame!FrameValid(answer)'
    BY <1>4 DEF Frame!FrameValid
  <2>. QED  BY <2>1, <2>2, <2>3, <2>4, <2>5 DEF AnswerInv, Frame!EncodeFrame
<1>6. Frame!AnswerIsUnderstood'
  BY <1>1 DEF Frame!AnswerIsUnderstood
<1>. QED  BY <1>1, <1>2, <1>5, <1>6

\* A rejection: what is left to show is that no client's request is rejected.
LEMMA Rejected ==
    ASSUME FrameTypes, NEW t \in {1, 2, 3}, NEW c \in 1 .. 13,
           header' \in [type : {1, 2, 3}, payload : Nat], header'.type = t,
           name' \in Seq(Frame!Byte), size' \in Nat,
           Frame!Respond(Verdict(t, c)), told = "nothing", Frame!HonestIsAccepted'
    PROVE  FrameInv'
<1>1. c \in 0 .. 13 /\ c # 0
  OBVIOUS
<1>2. /\ stage' = "replied" /\ stream' = stream /\ buf' = <<>> /\ want' = 0
      /\ answer' = Verdict(t, c) /\ told' = "nothing"
      /\ ~Frame!Accepted'
      /\ AnswerInv' /\ Frame!AnswerIsUnderstood'
  BY <1>1, Responded
<1>3. FrameTypes'
  BY <1>2 DEF FrameTypes
<1>4. ReadingInv'
  BY <1>2 DEF ReadingInv
<1>5. Frame!AcceptedIsCanonical' /\ Frame!SizesAgree'
  BY <1>2, Zenon DEF Frame!AcceptedIsCanonical, Frame!SizesAgree
<1>. QED  BY <1>2, <1>3, <1>4, <1>5 DEF FrameInv

\* A piece that recv returned goes to the end of both, and moves nothing.
LEMMA PieceReceived ==
    ASSUME FrameTypes, Frame!Recv
    PROVE  /\ buf' \in Seq(Frame!Byte) /\ stream' \in Seq(Frame!Byte)
           /\ Len(buf') <= want /\ want' = want
           /\ Len(stream') >= Len(stream)
           /\ \A i \in 1 .. Len(stream) : stream'[i] = stream[i]
           /\ \A off, len \in Nat : ReadTo(off, len) =>
                 Len(stream') = off + Len(buf') /\ \A i \in 1 .. Len(buf') : stream'[off + i] = buf'[i]
<1>1. buf \in Seq(Frame!Byte) /\ stream \in Seq(Frame!Byte) /\ want' = want
  BY DEF FrameTypes, Frame!Recv
<1>2. PICK k \in 1 .. Chunk : \E bytes \in [1 .. k -> Frame!Byte] :
          /\ Len(buf) + k <= want
          /\ buf' = buf \o bytes
          /\ stream' = stream \o bytes
  BY DEF Frame!Recv
<1>3. PICK bytes \in [1 .. k -> Frame!Byte] :
          /\ Len(buf) + k <= want
          /\ buf' = buf \o bytes
          /\ stream' = stream \o bytes
  BY <1>2
<1>4. k \in Nat /\ bytes \in Seq(Frame!Byte) /\ Len(bytes) = k
  BY FrameAssumption
<1>5. /\ buf' \in Seq(Frame!Byte) /\ Len(buf') = Len(buf) + k
      /\ \A i \in 1 .. Len(buf) : buf'[i] = buf[i]
      /\ \A i \in 1 .. k : buf'[Len(buf) + i] = bytes[i]
  BY <1>1, <1>3, <1>4, Joined
<1>6. /\ stream' \in Seq(Frame!Byte) /\ Len(stream') = Len(stream) + k
      /\ \A i \in 1 .. Len(stream) : stream'[i] = stream[i]
      /\ \A i \in 1 .. k : stream'[Len(stream) + i] = bytes[i]
  BY <1>1, <1>3, <1>4, Joined
<1>7. Len(buf) \in Nat /\ Len(stream) \in Nat
  BY <1>1
<1>8. ASSUME NEW off \in Nat, NEW len \in Nat, ReadTo(off, len)
      PROVE  Len(stream') = off + Len(buf') /\ \A i \in 1 .. Len(buf') : stream'[off + i] = buf'[i]
  <2>1. Len(stream) = off + Len(buf) /\ \A i \in 1 .. Len(buf) : stream[off + i] = buf[i]
    BY <1>8 DEF ReadTo
  <2>2. ASSUME NEW i \in 1 .. Len(buf') PROVE stream'[off + i] = buf'[i]
    <3>1. CASE i <= Len(buf)
      <4>1. i \in 1 .. Len(buf) /\ off + i \in 1 .. Len(stream)
        BY <1>7, <2>1, <3>1
      <4>. QED  BY ONLY <4>1, <1>5, <1>6, <2>1
    <3>2. CASE i > Len(buf)
      <4>. DEFINE j == i - Len(buf)
      <4>1. j \in 1 .. k /\ Len(buf) + j = i /\ Len(stream) + j = off + i
        BY <1>4, <1>5, <1>7, <2>1, <3>2
      <4>. QED  BY ONLY ZenonT(60), <4>1, <1>5, <1>6
    <3>. QED  BY <1>5, <1>7, <3>1, <3>2
  <2>. QED  BY <1>4, <1>5, <1>6, <1>7, <2>1, <2>2
<1>9. Len(buf') <= want /\ Len(stream') >= Len(stream)
  BY <1>3, <1>4, <1>5, <1>6, <1>7
<1>. QED  BY <1>1, <1>5, <1>6, <1>8, <1>9

\* recv inside recv_all keeps the invariant.
LEMMA RecvStep == FrameInv /\ Frame!Recv => FrameInv'
<1>. SUFFICES ASSUME FrameInv, Frame!Recv PROVE FrameInv'
  OBVIOUS
<1>1. FrameTypes /\ ReadingInv
  BY DEF FrameInv
<1>2. /\ stage \in {"header", "text", "name_len", "name", "size"}
      /\ stage' = stage /\ want' = want /\ header' = header /\ name' = name /\ size' = size
      /\ answer' = answer /\ reply' = reply /\ told' = told
  BY DEF Frame!Recv, Frame!Reading
<1>3. /\ buf' \in Seq(Frame!Byte) /\ stream' \in Seq(Frame!Byte)
      /\ Len(buf') <= want
      /\ Len(stream') >= Len(stream)
      /\ \A i \in 1 .. Len(stream) : stream'[i] = stream[i]
      /\ \A off, len \in Nat : ReadTo(off, len) =>
            Len(stream') = off + Len(buf') /\ \A i \in 1 .. Len(buf') : stream'[off + i] = buf'[i]
  BY <1>1, PieceReceived
<1>4. stream \in Seq(Frame!Byte) /\ Len(stream) \in Nat /\ Len(stream') \in Nat /\ want \in Nat
  BY <1>1, <1>3 DEF FrameTypes
<1>5. ASSUME NEW off \in Nat, NEW len \in Nat, ReadTo(off, len)
      PROVE  /\ want' = len /\ Len(buf') <= len /\ Len(stream') = off + Len(buf')
             /\ \A i \in 1 .. Len(buf') : stream'[off + i] = buf'[i]
             /\ Len(stream) >= off
  <2>1. want = len /\ Len(stream) = off + Len(buf) /\ Len(buf) \in Nat
    BY <1>1, <1>5 DEF ReadTo, FrameTypes
  <2>. QED  BY <1>2, <1>3, <1>5, <2>1
<1>6. HeaderRead => HeaderRead'
  <2>. SUFFICES ASSUME HeaderRead PROVE HeaderRead'
    OBVIOUS
  <2>1. Len(stream) >= 7
    BY DEF HeaderRead, HeaderAt
  <2>2. /\ stream'[1] = stream[1] /\ stream'[2] = stream[2] /\ stream'[3] = stream[3]
        /\ stream'[4] = stream[4] /\ stream'[5] = stream[5] /\ stream'[6] = stream[6]
        /\ stream'[7] = stream[7] /\ Len(stream') >= 7
    BY ONLY <1>3, <1>4, <2>1
  <2>. QED  BY <1>2, <2>2 DEF HeaderRead, HeaderAt
<1>7. Len(stream) >= 9 => FieldLen' = FieldLen
  <2>1. Len(stream) >= 9 => stream'[8] = stream[8] /\ stream'[9] = stream[9]
    BY ONLY <1>3, <1>4
  <2>. QED  BY <2>1 DEF FieldLen
<1>8. FrameTypes'
  BY <1>1, <1>2, <1>3 DEF FrameTypes
<1>9. ReadingInv'
  <2>1. stage = "header" => ReadTo(0, 7)'
    BY <1>1, <1>5 DEF ReadingInv, ReadTo
  <2>2. stage = "text" => HeaderRead' /\ header'.type = 2 /\ ReadTo(7, header.payload)'
    <3>. SUFFICES ASSUME stage = "text" PROVE HeaderRead' /\ header'.type = 2 /\ ReadTo(7, header.payload)'
      OBVIOUS
    <3>1. HeaderRead /\ header.type = 2 /\ ReadTo(7, header.payload) /\ header.payload \in Nat
      BY <1>1 DEF ReadingInv, HeaderRead
    <3>2. ReadTo(7, header.payload)'
      BY <1>2, <1>5, <3>1 DEF ReadTo
    <3>. QED  BY <1>2, <1>6, <3>1, <3>2
  <2>3. stage = "name_len" => HeaderRead' /\ header'.type \in {1, 3} /\ ReadTo(7, 2)'
    <3>. SUFFICES ASSUME stage = "name_len" PROVE HeaderRead' /\ header'.type \in {1, 3} /\ ReadTo(7, 2)'
      OBVIOUS
    <3>1. HeaderRead /\ header.type \in {1, 3} /\ ReadTo(7, 2)
      BY <1>1 DEF ReadingInv
    <3>2. ReadTo(7, 2)'
      BY ZenonT(60), <1>5, <3>1 DEF ReadTo
    <3>. QED  BY <1>2, <1>6, <3>1, <3>2
  <2>4. stage = "name" => /\ HeaderRead' /\ header'.type \in {1, 3}
                          /\ FieldLen' \in 1 .. MaxName /\ ReadTo(9, FieldLen)'
    <3>. SUFFICES ASSUME stage = "name"
                  PROVE  /\ HeaderRead' /\ header'.type \in {1, 3}
                         /\ FieldLen' \in 1 .. MaxName /\ ReadTo(9, FieldLen)'
      OBVIOUS
    <3>1. /\ HeaderRead /\ header.type \in {1, 3} /\ FieldLen \in 1 .. MaxName
          /\ ReadTo(9, FieldLen) /\ FieldLen \in Nat
      BY <1>1, FrameAssumption DEF ReadingInv
    <3>2. FieldLen' = FieldLen
      BY <1>5, <1>7, <3>1
    <3>3. ReadTo(9, FieldLen)'
      BY <1>5, <3>1, <3>2 DEF ReadTo
    <3>. QED  BY <1>2, <1>6, <3>1, <3>2, <3>3
  <2>5. stage = "size" => /\ HeaderRead' /\ header'.type = 1
                          /\ FieldLen' \in 1 .. MaxName /\ ReadTo(9 + FieldLen, 2)'
                          /\ name' = Frame!CString(SubSeq(stream', 10, 9 + FieldLen'))
    <3>. SUFFICES ASSUME stage = "size"
                  PROVE  /\ HeaderRead' /\ header'.type = 1
                         /\ FieldLen' \in 1 .. MaxName /\ ReadTo(9 + FieldLen, 2)'
                         /\ name' = Frame!CString(SubSeq(stream', 10, 9 + FieldLen'))
      OBVIOUS
    <3>1. /\ HeaderRead /\ header.type = 1 /\ FieldLen \in 1 .. MaxName
          /\ ReadTo(9 + FieldLen, 2) /\ 9 + FieldLen \in Nat
          /\ name = Frame!CString(SubSeq(stream, 10, 9 + FieldLen))
      BY <1>1, FrameAssumption DEF ReadingInv
    <3>2. Len(stream) >= 9 + FieldLen /\ Len(stream) >= 9
      BY <1>4, <1>5, <3>1, FrameAssumption
    <3>3. FieldLen' = FieldLen
      BY <1>7, <3>2
    <3>4. ReadTo(9 + FieldLen, 2)'
      BY <1>5, <3>1, <3>3 DEF ReadTo
    <3>5. SubSeq(stream', 10, 9 + FieldLen) = SubSeq(stream, 10, 9 + FieldLen)
      <4>. DEFINE f == FieldLen
      <4>1. f \in Nat
        BY <3>1, FrameAssumption
      <4>. HIDE DEF f
      <4>2. /\ SubSeq(stream', 10, 9 + f) \in Seq(Frame!Byte) /\ Len(SubSeq(stream', 10, 9 + f)) = f
            /\ SubSeq(stream, 10, 9 + f) \in Seq(Frame!Byte) /\ Len(SubSeq(stream, 10, 9 + f)) = f
            /\ \A i \in 1 .. f : /\ SubSeq(stream', 10, 9 + f)[i] = stream'[9 + i]
                                 /\ SubSeq(stream, 10, 9 + f)[i] = stream[9 + i]
        BY <1>3, <1>4, <3>2, <4>1 DEF f
      <4>3. \A i \in 1 .. f : stream'[9 + i] = stream[9 + i]
        BY <1>3, <1>4, <3>2, <4>1 DEF f
      <4>4. SubSeq(stream', 10, 9 + f) = SubSeq(stream, 10, 9 + f)
        BY ONLY <4>1, <4>2, <4>3, SameBytes
      <4>. QED  BY <4>4 DEF f
    <3>. QED  BY <1>2, <1>6, <3>1, <3>3, <3>4, <3>5
  <2>6. answer' = Frame!None /\ told' = "nothing"
    BY <1>1, <1>2 DEF ReadingInv
  <2>. QED  BY <1>2, <2>1, <2>2, <2>3, <2>4, <2>5, <2>6 DEF ReadingInv
<1>10. answer' = Frame!None /\ told' = "nothing" /\ stage' \notin {"replied", "refused"}
  BY <1>1, <1>2 DEF ReadingInv
<1>. QED  BY <1>8, <1>9, <1>10, Undecided DEF FrameInv

\* The next call of recv_all starts where the stream is.
LEMMA NextRead ==
    ASSUME NEW off \in Nat, NEW len \in Nat, Len(stream) = off,
           buf' = <<>>, stream' = stream, want' = len
    PROVE  /\ want' = len /\ Len(buf') <= len /\ Len(stream') = off + Len(buf')
           /\ \A i \in 1 .. Len(buf') : stream'[off + i] = buf'[i]
BY Len(buf') = 0

\* A stream that no client's request begins with may be refused.
LEMMA NotHonest ==
    ASSUME \A n \in Frame!Names :
              /\ \A s \in 0 .. MaxFile : ~Frame!IsPrefix(stream', Frame!ClientSend(n, s))
              /\ ~Frame!IsPrefix(stream', Frame!ClientGet(n))
    PROVE  Frame!HonestIsAccepted'
BY DEF Frame!HonestIsAccepted

\* The header is in, and the first test of the handler made.
LEMMA HeaderStep == FrameInv /\ Frame!Header => FrameInv'
<1>. SUFFICES ASSUME FrameInv, Frame!Header PROVE FrameInv'
  OBVIOUS
<1>1. FrameTypes /\ ReadingInv /\ stage = "header" /\ Len(buf) = want
  BY DEF FrameInv, Frame!Header, Frame!Full
<1>2. ReadTo(0, 7) /\ answer = Frame!None /\ told = "nothing"
  BY <1>1 DEF ReadingInv
<1>3. /\ buf \in Seq(Frame!Byte) /\ stream \in Seq(Frame!Byte) /\ Len(buf) = 7 /\ Len(stream) = 7
      /\ name' = name /\ size' = size /\ name \in Seq(Frame!Byte) /\ size \in Nat
  BY <1>1, <1>2 DEF FrameTypes, ReadTo, Frame!Header
<1>4. /\ stream[1] = buf[1] /\ stream[2] = buf[2] /\ stream[3] = buf[3] /\ stream[4] = buf[4]
      /\ stream[5] = buf[5] /\ stream[6] = buf[6] /\ stream[7] = buf[7]
  <2>1. \A i \in 1 .. 7 : stream[0 + i] = buf[i]
    BY <1>2, <1>3 DEF ReadTo
  <2>2. \A i \in 1 .. 7 : stream[i] = buf[i]
    BY <2>1
  <2>. QED  BY ONLY <2>2
<1>. DEFINE payload == buf[6] * Base + buf[7]  t == buf[4]
<1>5. /\ Frame!HeaderOk(buf) <=> /\ buf[1] = 1 /\ buf[2] = 2 /\ buf[3] = 3
                                 /\ t \in {1, 2, 3} /\ buf[5] = 0
      /\ Frame!Decode(SubSeq(buf, 6, 7)) = payload
      /\ payload \in Nat
  BY <1>3, HeaderTests
<1>6. ASSUME NEW n \in Frame!Names, NEW s \in 0 .. MaxFile,
             Frame!IsPrefix(stream, Frame!ClientSend(n, s))
      PROVE  Frame!HeaderOk(buf) /\ t = 1 /\ payload >= 5
  <2>1. HeaderAt(stream, 1, 4 + Len(n) + s)
    <3>1. stream \in Seq(Frame!Byte) /\ Len(stream) >= 7
      BY <1>3
    <3>. QED  BY ONLY <1>6, <3>1, SendPrefix, n \in Frame!Names, s \in 0 .. MaxFile
  <2>2. Len(n) \in Nat /\ Len(n) >= 1
    BY HonestName, FrameAssumption
  <2>3. Frame!HeaderOk(buf)
    BY <1>4, <1>5, <2>1 DEF HeaderAt
  <2>4. t = 1 /\ payload = 4 + Len(n) + s
    BY <1>4, <2>1 DEF HeaderAt
  <2>. QED  BY <2>2, <2>3, <2>4, FrameAssumption
<1>7. ASSUME NEW n \in Frame!Names, Frame!IsPrefix(stream, Frame!ClientGet(n))
      PROVE  Frame!HeaderOk(buf) /\ t = 3 /\ payload >= 3
  <2>1. HeaderAt(stream, 3, 2 + Len(n))
    <3>1. stream \in Seq(Frame!Byte) /\ Len(stream) >= 7
      BY <1>3
    <3>. QED  BY ONLY <1>7, <3>1, GetPrefix, n \in Frame!Names
  <2>2. Len(n) \in Nat /\ Len(n) >= 1
    BY HonestName, FrameAssumption
  <2>3. Frame!HeaderOk(buf)
    BY <1>4, <1>5, <2>1 DEF HeaderAt
  <2>4. t = 3 /\ payload = 2 + Len(n)
    BY <1>4, <2>1 DEF HeaderAt
  <2>. QED  BY <2>2, <2>3, <2>4
<1>8. CASE ~Frame!HeaderOk(buf)
  <2>1. /\ stage' = "refused" /\ want' = 0 /\ buf' = <<>> /\ stream' = stream
        /\ answer' = answer /\ told' = told
    BY <1>8 DEF Frame!Header, Frame!Close
  <2>2. Frame!HonestIsAccepted'
    BY <1>6, <1>7, <1>8, <2>1, NotHonest
  <2>3. FrameTypes'
    BY <1>1, <1>3, <2>1 DEF FrameTypes
  <2>4. ReadingInv'
    BY <1>2, <2>1 DEF ReadingInv
  <2>5. ~Frame!Accepted'
    BY <1>2, <2>1, Verdicts DEF Frame!Accepted
  <2>6. Frame!AcceptedIsCanonical' /\ Frame!SizesAgree'
    BY <2>5, Zenon DEF Frame!AcceptedIsCanonical, Frame!SizesAgree
  <2>7. AnswerInv' /\ Frame!AnswerIsUnderstood'
    BY <1>2, <2>1 DEF AnswerInv, Frame!AnswerIsUnderstood
  <2>. QED  BY <2>2, <2>3, <2>4, <2>6, <2>7 DEF FrameInv
<1>9. CASE Frame!HeaderOk(buf)
  <2>1. header' = [type |-> t, payload |-> payload] /\ t \in {1, 2, 3}
    BY <1>5, <1>9 DEF Frame!Header
  <2>2. header' \in [type : {1, 2, 3}, payload : Nat] /\ header'.type = t /\ header'.payload = payload
    BY <1>5, <2>1
  <2>3. HeaderAt(stream, t, payload)
    BY <1>3, <1>4, <1>5, <1>9 DEF HeaderAt
  <2>4. \/ t = 2 /\ payload > MaxText /\ Frame!Respond(Frame!FinalFailed(13))
        \/ t = 1 /\ payload < 5 /\ Frame!Respond(Frame!ReadyReject(5))
        \/ t = 3 /\ payload < 3 /\ Frame!Respond(Frame!ReadyReject(5))
        \/ t = 2 /\ Frame!Goto("text", payload)
        \/ t \in {1, 3} /\ Frame!Goto("name_len", 2)
    <3>1. CASE Frame!Decode(SubSeq(buf, 6, 7)) = payload
      <4>. DEFINE A == t = 2 /\ payload > MaxText
                  B == t = 1 /\ payload < 5
                  C == t = 3 /\ payload < 3
                  D == t = 2 /\ payload <= MaxText
      <4>1. CASE A \/ D
        <5>1. payload > MaxText \/ payload <= MaxText
          BY <1>5, FrameAssumption
        <5>. QED  BY <1>9, <3>1, <4>1, <5>1, <1>5, FrameAssumption
                  DEF Frame!Header, Frame!TEXT, Frame!SEND, Frame!GET, Frame!MSG_TOO_LARGE
      <4>2. CASE B
        BY <1>9, <3>1, <4>2
           DEF Frame!Header, Frame!TEXT, Frame!SEND, Frame!GET, Frame!PrefixSize,
               Frame!NameOnlySize, Frame!INVALID_ARGUMENT
      <4>3. CASE C
        BY <1>9, <3>1, <4>3
           DEF Frame!Header, Frame!TEXT, Frame!SEND, Frame!GET, Frame!PrefixSize,
               Frame!NameOnlySize, Frame!INVALID_ARGUMENT
      <4>4. CASE ~A /\ ~B /\ ~C /\ ~D
        <5>1. t # 2
          BY <1>5, <4>4, FrameAssumption
        <5>. QED  BY <1>9, <2>1, <3>1, <4>4, <5>1
                  DEF Frame!Header, Frame!TEXT, Frame!SEND, Frame!GET, Frame!PrefixSize,
                      Frame!NameOnlySize
      <4>. QED  BY <4>1, <4>2, <4>3, <4>4
    <3>. QED  BY <1>5, <3>1
  <2>5. ASSUME NEW c \in 1 .. 13, Frame!Respond(Verdict(t, c)), t = 2 \/ (t = 1 /\ payload < 5) \/ (t = 3 /\ payload < 3)
        PROVE  FrameInv'
    <3>1. stream' = stream
      BY <2>5 DEF Frame!Respond
    <3>2. Frame!HonestIsAccepted'
      BY <1>5, <1>6, <1>7, <2>5, <3>1, NotHonest
    <3>. QED  BY <1>1, <1>2, <1>3, <2>1, <2>2, <2>5, <3>2, Rejected
  <2>6. CASE t = 2 /\ payload > MaxText /\ Frame!Respond(Frame!FinalFailed(13))
    BY <2>5, <2>6, Verdicts
  <2>7. CASE t = 1 /\ payload < 5 /\ Frame!Respond(Frame!ReadyReject(5))
    BY <2>5, <2>7, Verdicts
  <2>8. CASE t = 3 /\ payload < 3 /\ Frame!Respond(Frame!ReadyReject(5))
    BY <2>5, <2>8, Verdicts
  <2>9. CASE t = 2 /\ Frame!Goto("text", payload)
    <3>1. /\ stage' = "text" /\ want' = payload /\ buf' = <<>> /\ stream' = stream
          /\ answer' = Frame!None /\ told' = "nothing"
      BY <1>2, <2>9 DEF Frame!Goto
    <3>2. ReadTo(7, header.payload)'
      BY <1>3, <1>5, <2>2, <3>1, NextRead DEF ReadTo
    <3>3. HeaderRead'
      BY <2>2, <2>3, <3>1 DEF HeaderRead, HeaderAt
    <3>4. FrameTypes'
      BY <1>3, <1>5, <3>1 DEF FrameTypes
    <3>5. ReadingInv'
      BY <2>2, <2>9, <3>1, <3>2, <3>3 DEF ReadingInv
    <3>. QED  BY <3>1, <3>4, <3>5, Undecided DEF FrameInv
  <2>10. CASE t \in {1, 3} /\ Frame!Goto("name_len", 2)
    <3>1. /\ stage' = "name_len" /\ want' = 2 /\ buf' = <<>> /\ stream' = stream
          /\ answer' = Frame!None /\ told' = "nothing"
      BY <1>2, <2>10 DEF Frame!Goto
    <3>2. ReadTo(7, 2)'
      BY <1>3, <3>1, NextRead DEF ReadTo
    <3>3. HeaderRead'
      BY <2>2, <2>3, <3>1 DEF HeaderRead, HeaderAt
    <3>4. FrameTypes'
      BY <1>3, <3>1 DEF FrameTypes
    <3>5. ReadingInv'
      BY <2>2, <2>10, <3>1, <3>2, <3>3 DEF ReadingInv
    <3>. QED  BY <3>1, <3>4, <3>5, Undecided DEF FrameInv
  <2>. QED  BY <2>4, <2>6, <2>7, <2>8, <2>9, <2>10
<1>. QED  BY <1>8, <1>9

\* A text message has come in full: it is accepted, and it is the client's.
LEMMA TextStep == FrameInv /\ Frame!Text => FrameInv'
<1>. SUFFICES ASSUME FrameInv, Frame!Text PROVE FrameInv'
  OBVIOUS
<1>1. FrameTypes /\ ReadingInv /\ stage = "text" /\ Len(buf) = want
  BY DEF FrameInv, Frame!Text, Frame!Full
<1>2. /\ HeaderRead /\ header.type = 2 /\ ReadTo(7, header.payload)
      /\ answer = Frame!None /\ told = "nothing"
  BY <1>1 DEF ReadingInv
<1>. DEFINE p == header.payload  x == SubSeq(stream, 8, Len(stream))
<1>3. /\ header \in [type : {1, 2, 3}, payload : Nat] /\ HeaderAt(stream, 2, p) /\ p \in Nat
      /\ buf \in Seq(Frame!Byte) /\ stream \in Seq(Frame!Byte)
      /\ Len(buf) = p /\ Len(stream) = 7 + p /\ \A i \in 1 .. p : stream[7 + i] = buf[i]
  BY <1>1, <1>2 DEF FrameTypes, ReadTo, HeaderRead
<1>4. header' = header /\ size' = size /\ name' = Frame!CString(buf) /\ Frame!Respond(Verdict(2, 0))
  BY Verdicts DEF Frame!Text
<1>. HIDE DEF p
<1>5. x \in Seq(Frame!Byte) /\ Len(x) = p /\ \A i \in 1 .. p : x[i] = stream[7 + i]
  BY <1>3
<1>6. x = buf
  <2>. HIDE DEF x
  <2>. QED  BY <1>3, <1>5, SameBytes
<1>7. stream = Frame!ClientText(x)
  <2>1. 2 \in Frame!Byte
    BY FrameAssumption DEF Frame!Byte
  <2>2. stream = Frame!EncodeHeader(2, p) \o x
    BY <1>3, <2>1, TextAt
  <2>. QED  BY <1>5, <2>2 DEF Frame!ClientText, Frame!TEXT
<1>. HIDE DEF x
<1>8. /\ stage' = "replied" /\ stream' = stream /\ buf' = <<>> /\ want' = 0
      /\ AnswerInv' /\ Frame!AnswerIsUnderstood'
  BY <1>2, <1>3, <1>4, Responded
<1>9. FrameTypes'
  <2>1. Frame!CString(buf) \in Seq(Frame!Byte)
    BY <1>3, CStringFacts
  <2>2. told' \in {"nothing", "ok", "refused", "silence", "invalid"}
    BY <1>2, <1>4 DEF Frame!Respond
  <2>. QED  BY <1>1, <1>4, <1>8, <2>1, <2>2 DEF FrameTypes
<1>10. ReadingInv'
  BY <1>8 DEF ReadingInv
<1>11. header'.type = 2
  BY <1>2, <1>4
<1>12. Frame!AcceptedIsCanonical'
  <2>1. SubSeq(stream', 7 + 1, Len(stream')) = x
    BY <1>8, 7 + 1 = 8 DEF x
  <2>2. stream' = Frame!ClientText(x) /\ name' = Frame!CString(x)
    BY <1>4, <1>6, <1>7, <1>8
  <2>3. \E y \in {SubSeq(stream', 7 + 1, Len(stream'))} :
           stream' = Frame!ClientText(y) /\ name' = Frame!CString(y)
    BY <2>1, <2>2, Zenon
  <2>4. header'.type # 1 /\ header'.type # 3
    BY <1>11
  <2>. QED  BY <2>3, <2>4
            DEF Frame!AcceptedIsCanonical, Frame!SEND, Frame!GET, Frame!HeaderSize
<1>13. Frame!SizesAgree'
  BY <1>11 DEF Frame!SizesAgree, Frame!SEND
<1>14. Frame!HonestIsAccepted'
  <2>1. Len(stream) >= 7 /\ stream[4] = 2
    BY <1>3 DEF HeaderAt
  <2>2. ASSUME NEW n \in Frame!Names, NEW s \in 0 .. MaxFile
        PROVE  ~Frame!IsPrefix(stream, Frame!ClientSend(n, s))
    <3>1. Frame!IsPrefix(stream, Frame!ClientSend(n, s)) => HeaderAt(stream, 1, 4 + Len(n) + s)
      BY ONLY <1>3, <2>1, <2>2, SendPrefix
    <3>. QED  BY <2>1, <3>1 DEF HeaderAt
  <2>3. ASSUME NEW n \in Frame!Names
        PROVE  ~Frame!IsPrefix(stream, Frame!ClientGet(n))
    <3>1. Frame!IsPrefix(stream, Frame!ClientGet(n)) => HeaderAt(stream, 3, 2 + Len(n))
      BY ONLY <1>3, <2>1, <2>3, GetPrefix
    <3>. QED  BY <2>1, <3>1 DEF HeaderAt
  <2>. QED  BY <1>8, <2>2, <2>3, NotHonest
<1>. QED  BY <1>8, <1>9, <1>10, <1>12, <1>13, <1>14 DEF FrameInv

\* The length of the file name is in: it is the one in the stream.
LEMMA NameLenStep == FrameInv /\ Frame!NameLen => FrameInv'
<1>. SUFFICES ASSUME FrameInv, Frame!NameLen PROVE FrameInv'
  OBVIOUS
<1>1. FrameTypes /\ ReadingInv /\ stage = "name_len" /\ Len(buf) = want
  BY DEF FrameInv, Frame!NameLen, Frame!Full
<1>2. /\ HeaderRead /\ header.type \in {1, 3} /\ ReadTo(7, 2)
      /\ answer = Frame!None /\ told = "nothing"
  BY <1>1 DEF ReadingInv
<1>3. /\ buf \in Seq(Frame!Byte) /\ stream \in Seq(Frame!Byte) /\ Len(buf) = 2 /\ Len(stream) = 9
      /\ \A i \in 1 .. 2 : stream[7 + i] = buf[i]
      /\ header \in [type : {1, 2, 3}, payload : Nat]
      /\ HeaderAt(stream, header.type, header.payload)
      /\ name \in Seq(Frame!Byte) /\ size \in Nat
  BY <1>1, <1>2 DEF FrameTypes, ReadTo, HeaderRead
<1>4. header' = header /\ name' = name /\ size' = size
  BY DEF Frame!NameLen
<1>5. Frame!Decode(buf) = FieldLen
  <2>1. stream[8] = buf[1] /\ stream[9] = buf[2]
    BY ONLY <1>3
  <2>. QED  BY <2>1 DEF Frame!Decode, FieldLen
<1>6. FieldLen \in Nat
  <2>1. stream[8] \in Frame!Byte /\ stream[9] \in Frame!Byte
    <3>1. 8 \in 1 .. Len(stream) /\ 9 \in 1 .. Len(stream)
      BY <1>3
    <3>. QED  BY <1>3, <3>1, ElementOfSeq
  <2>. QED  BY <2>1, WordBytes, FrameAssumption DEF FieldLen
<1>7. ASSUME NEW n \in Frame!Names, NEW s \in 0 .. MaxFile,
             Frame!IsPrefix(stream, Frame!ClientSend(n, s))
      PROVE  FieldLen \in 1 .. MaxName
  <2>1. stream[8] * Base + stream[9] = Len(n)
    <3>1. Len(stream) >= 9
      BY <1>3
    <3>. QED  BY ONLY <1>3, <1>7, <3>1, SendPrefix, n \in Frame!Names, s \in 0 .. MaxFile
  <2>. QED  BY <2>1, HonestName DEF FieldLen
<1>8. ASSUME NEW n \in Frame!Names, Frame!IsPrefix(stream, Frame!ClientGet(n))
      PROVE  FieldLen \in 1 .. MaxName
  <2>1. stream[8] * Base + stream[9] = Len(n)
    <3>1. Len(stream) >= 9
      BY <1>3
    <3>. QED  BY ONLY <1>3, <1>8, <3>1, GetPrefix, n \in Frame!Names
  <2>. QED  BY <2>1, HonestName DEF FieldLen
<1>9. CASE FieldLen \in 1 .. MaxName
  <2>1. Frame!Goto("name", FieldLen)
    BY <1>5, <1>9 DEF Frame!NameLen
  <2>2. /\ stage' = "name" /\ want' = FieldLen /\ buf' = <<>> /\ stream' = stream
        /\ answer' = Frame!None /\ told' = "nothing"
    BY <1>2, <2>1 DEF Frame!Goto
  <2>3. FieldLen' = FieldLen
    BY <2>2 DEF FieldLen
  <2>4. ReadTo(9, FieldLen)'
    BY <1>3, <1>6, <2>2, <2>3, NextRead DEF ReadTo
  <2>5. HeaderRead' /\ header'.type \in {1, 3}
    BY <1>2, <1>3, <1>4, <2>2 DEF HeaderRead, HeaderAt
  <2>6. FrameTypes'
    BY <1>1, <1>3, <1>4, <1>6, <2>2 DEF FrameTypes
  <2>7. ReadingInv'
    BY <1>9, <2>2, <2>3, <2>4, <2>5 DEF ReadingInv
  <2>. QED  BY <2>2, <2>6, <2>7, Undecided DEF FrameInv
<1>10. CASE FieldLen \notin 1 .. MaxName
  <2>1. stream' = stream
    BY <1>5, <1>10 DEF Frame!NameLen, Frame!Goto, Frame!Close, Frame!Respond
  <2>2. Frame!HonestIsAccepted'
    BY <1>7, <1>8, <1>10, <2>1, NotHonest
  <2>3. CASE header.type = 1
    <3>1. /\ stage' = "refused" /\ want' = 0 /\ buf' = <<>>
          /\ answer' = Frame!None /\ told' = "nothing"
      BY <1>2, <1>5, <1>10, <2>3 DEF Frame!NameLen, Frame!SEND, Frame!Close
    <3>2. FrameTypes'
      BY <1>1, <1>3, <1>4, <2>1, <3>1 DEF FrameTypes
    <3>3. ReadingInv'
      BY <3>1 DEF ReadingInv
    <3>4. ~Frame!Accepted'
      BY <3>1, Verdicts DEF Frame!Accepted
    <3>5. Frame!AcceptedIsCanonical' /\ Frame!SizesAgree'
      BY <3>4, Zenon DEF Frame!AcceptedIsCanonical, Frame!SizesAgree
    <3>6. AnswerInv' /\ Frame!AnswerIsUnderstood'
      BY <3>1 DEF AnswerInv, Frame!AnswerIsUnderstood
    <3>. QED  BY <2>2, <3>2, <3>3, <3>5, <3>6 DEF FrameInv
  <2>4. CASE header.type = 3
    <3>1. Frame!Respond(Verdict(3, 6))
      BY <1>5, <1>10, <2>4, Verdicts DEF Frame!NameLen, Frame!SEND, Frame!FILE_NAME_LEN
    <3>2. header' \in [type : {1, 2, 3}, payload : Nat] /\ header'.type = 3
      BY <1>3, <1>4, <2>4
    <3>3. name' \in Seq(Frame!Byte) /\ size' \in Nat
      BY <1>3, <1>4
    <3>. QED  BY <1>1, <1>2, <2>2, <3>1, <3>2, <3>3, Rejected
  <2>. QED  BY <1>2, <2>3, <2>4
<1>. QED  BY <1>9, <1>10

\* The field of the file name, as the properties take it out of the stream.
LEMMA FieldAt ==
    ASSUME NEW z \in Seq(Frame!Byte), NEW k \in Nat, Len(z) >= 9 + k, z[8] * Base + z[9] = k
    PROVE  LET f == SubSeq(z, 10, 9 + k)
           IN  /\ f \in Seq(Frame!Byte) /\ Len(f) = k
               /\ \A i \in 1 .. k : f[i] = z[9 + i]
               /\ NameAt(z, f)
               /\ Frame!Decode(SubSeq(z, 8, 9)) = k
<1>. DEFINE f == SubSeq(z, 10, 9 + k)
<1>1. /\ f \in Seq(Frame!Byte) /\ Len(f) = k /\ \A i \in 1 .. k : f[i] = z[9 + i]
  OBVIOUS
<1>2. SubSeq(z, 8, 9)[1] = z[8] /\ SubSeq(z, 8, 9)[2] = z[9]
  OBVIOUS
<1>3. Frame!Decode(SubSeq(z, 8, 9)) = k
  BY <1>2 DEF Frame!Decode
<1>. HIDE DEF f
<1>4. NameAt(z, f)
  BY <1>1 DEF NameAt
<1>. QED  BY <1>1, <1>3, <1>4 DEF f

\* The file name is in: an upload goes on to its size, a download is answered.
LEMMA NameStep == FrameInv /\ Frame!Name => FrameInv'
<1>. SUFFICES ASSUME FrameInv, Frame!Name PROVE FrameInv'
  OBVIOUS
<1>1. FrameTypes /\ ReadingInv /\ stage = "name" /\ Len(buf) = want
  BY DEF FrameInv, Frame!Name, Frame!Full
<1>2. /\ HeaderRead /\ header.type \in {1, 3} /\ ReadTo(9, FieldLen)
      /\ FieldLen \in 1 .. MaxName /\ answer = Frame!None /\ told = "nothing"
  BY <1>1 DEF ReadingInv
<1>. DEFINE k == FieldLen  p == header.payload  f == SubSeq(stream, 10, 9 + k)
<1>3. k \in Nat /\ k >= 1 /\ k <= MaxName
  BY <1>2, FrameAssumption
<1>4. /\ buf \in Seq(Frame!Byte) /\ stream \in Seq(Frame!Byte) /\ Len(buf) = k /\ Len(stream) = 9 + k
      /\ \A i \in 1 .. k : stream[9 + i] = buf[i]
      /\ header \in [type : {1, 2, 3}, payload : Nat]
      /\ HeaderAt(stream, header.type, p) /\ p \in Nat
      /\ size \in Nat
  BY <1>1, <1>2 DEF FrameTypes, ReadTo, HeaderRead
<1>5. stream[8] * Base + stream[9] = k
  BY DEF FieldLen
<1>6. header' = header /\ size' = size /\ name' = Frame!CString(buf)
  BY DEF Frame!Name
<1>. HIDE DEF k, p
<1>7. /\ f \in Seq(Frame!Byte) /\ Len(f) = k /\ \A i \in 1 .. k : f[i] = stream[9 + i]
      /\ NameAt(stream, f) /\ Frame!Decode(SubSeq(stream, 8, 9)) = k
  <2>1. Len(stream) >= 9 + k
    BY <1>3, <1>4
  <2>. QED  BY ONLY <1>3, <1>4, <1>5, <2>1, FieldAt
<1>. HIDE DEF f
<1>8. f = buf
  BY <1>3, <1>4, <1>7, SameBytes
<1>9. /\ name' \in Seq(Frame!Byte) /\ Len(name') <= k
  BY <1>4, <1>6, CStringFacts
<1>10. CASE header.type = 1
  <2>1. Frame!Goto("size", 2)
    BY <1>10 DEF Frame!Name, Frame!GET
  <2>2. /\ stage' = "size" /\ want' = 2 /\ buf' = <<>> /\ stream' = stream
        /\ answer' = Frame!None /\ told' = "nothing"
    BY <1>2, <2>1 DEF Frame!Goto
  <2>3. FieldLen' = k
    BY <2>2 DEF FieldLen, k
  <2>4. ReadTo(9 + FieldLen, 2)'
    <3>1. 9 + k \in Nat /\ Len(stream) = 9 + k
      BY <1>3, <1>4
    <3>. QED  BY <2>2, <2>3, <3>1, NextRead DEF ReadTo
  <2>5. HeaderRead' /\ header'.type = 1
    BY <1>4, <1>6, <1>10, <2>2 DEF HeaderRead, HeaderAt, p
  <2>6. FrameTypes'
    BY <1>1, <1>4, <1>6, <1>9, <2>2 DEF FrameTypes
  <2>7. name' = Frame!CString(SubSeq(stream', 10, 9 + FieldLen'))
    BY <1>6, <1>8, <2>2, <2>3 DEF f
  <2>8. FieldLen' \in 1 .. MaxName
    BY <1>3, <2>3, FrameAssumption
  <2>9. ReadingInv'
    BY <2>2, <2>4, <2>5, <2>7, <2>8 DEF ReadingInv
  <2>. QED  BY <2>2, <2>6, <2>9, Undecided DEF FrameInv
<1>11. CASE header.type = 3
  <2>1. Frame!Get(Frame!CString(buf))
    BY <1>11 DEF Frame!Name, Frame!GET
  <2>. DEFINE n0 == Frame!CString(buf)
  <2>2. \/ ~Frame!NameValid(n0) /\ Frame!Respond(Verdict(3, 7))
        \/ /\ Frame!NameValid(n0) /\ p # 2 + Len(n0) /\ Frame!Respond(Verdict(3, 8))
        \/ /\ Frame!NameValid(n0) /\ p = 2 + Len(n0)
           /\ Frame!Respond(Verdict(3, 0)) \/ Frame!Respond(Verdict(3, 5))
    BY <2>1, Verdicts DEF Frame!Get, Frame!INVALID_FILE_NAME, Frame!SIZE_MISMATCH,
                          Frame!INVALID_ARGUMENT, Frame!NameOnlySize, p
  <2>3. PICK c \in {0, 5, 7, 8} : Frame!Respond(Verdict(3, c))
    BY <2>2
  <2>4. header' \in [type : {1, 2, 3}, payload : Nat] /\ header'.type = 3
    BY <1>4, <1>6, <1>11
  <2>5. /\ stage' = "replied" /\ stream' = stream /\ buf' = <<>> /\ want' = 0
        /\ answer' = Verdict(3, c) /\ told' = "nothing"
        /\ Frame!Accepted' <=> c = 0
        /\ AnswerInv' /\ Frame!AnswerIsUnderstood'
    BY <1>2, <2>3, <2>4, Responded
  <2>6. ASSUME NEW n \in Frame!Names, Frame!IsPrefix(stream, Frame!ClientGet(n))
        PROVE  c \in {0, 5}
    <3>1. Len(stream) >= 7 /\ Len(stream) >= 9
      BY <1>3, <1>4
    <3>2. HeaderAt(stream, 3, 2 + Len(n)) /\ stream[8] * Base + stream[9] = Len(n)
      BY ONLY <1>4, <2>6, <3>1, GetPrefix, n \in Frame!Names
    <3>3. Len(n) = k
      BY <1>5, <3>2
    <3>4. Len(stream) >= 9 + Len(n)
      BY <1>3, <1>4, <3>3
    <3>5. NameAt(stream, n)
      BY ONLY <1>4, <2>6, <3>4, GetPrefix, n \in Frame!Names
    <3>6. n \in Seq(Frame!Byte) /\ Frame!NameValid(n) /\ Frame!CString(n) = n
      BY HonestName
    <3>7. buf = n
      <4>1. \A i \in 1 .. Len(n) : buf[i] = n[i]
        BY <1>4, <3>3, <3>5 DEF NameAt
      <4>. QED  BY <1>4, <3>3, <3>6, <4>1, SameBytes
    <3>8. p = 2 + Len(n)
      BY <1>4, <3>2 DEF HeaderAt
    <3>9. Frame!Respond(Verdict(3, 0)) \/ Frame!Respond(Verdict(3, 5))
      BY <2>2, <3>6, <3>7, <3>8
    <3>10. Verdict(3, c) = Verdict(3, 0) \/ Verdict(3, c) = Verdict(3, 5)
      BY <2>5, <3>9 DEF Frame!Respond
    <3>11. Verdict(3, c).code = c /\ Verdict(3, 0).code = 0 /\ Verdict(3, 5).code = 5
      BY DEF Verdict
    <3>. QED  BY <3>10, <3>11
  <2>7. ASSUME NEW n \in Frame!Names, NEW s \in 0 .. MaxFile
        PROVE  ~Frame!IsPrefix(stream, Frame!ClientSend(n, s))
    <3>1. Len(stream) >= 7 /\ stream[4] = 3
      BY <1>3, <1>4, <1>11 DEF HeaderAt
    <3>2. Frame!IsPrefix(stream, Frame!ClientSend(n, s)) => HeaderAt(stream, 1, 4 + Len(n) + s)
      BY ONLY <1>4, <2>7, <3>1, SendPrefix
    <3>. QED  BY <3>1, <3>2 DEF HeaderAt
  <2>8. Frame!HonestIsAccepted'
    <3>1. c \in {0, 5} => answer' \in {Frame!ReadyOk} \cup {Frame!ReadyReject(d) : d \in {5, 12, 9}}
      BY <2>5, Verdicts
    <3>. QED  BY <2>5, <2>6, <2>7, <3>1
              DEF Frame!HonestIsAccepted, Frame!INVALID_ARGUMENT, Frame!ERR_EOF, Frame!ERR_IO
  <2>9. CASE c # 0
    <3>1. c \in 1 .. 13 /\ 3 \in {1, 2, 3}
      BY <2>9
    <3>2. FrameTypes /\ told = "nothing" /\ name' \in Seq(Frame!Byte) /\ size' \in Nat
      BY <1>1, <1>2, <1>4, <1>6, <1>9
    <3>. QED  BY ONLY <2>3, <2>4, <2>8, <3>1, <3>2, Rejected
  <2>10. CASE c = 0
    <3>1. p = 2 + Len(name')
      <4>1. Verdict(3, 0).code = 0 /\ Verdict(3, 5).code = 5 /\ Verdict(3, 7).code = 7 /\ Verdict(3, 8).code = 8
        BY DEF Verdict
      <4>2. ~Frame!Respond(Verdict(3, 7)) /\ ~Frame!Respond(Verdict(3, 8))
        BY <2>5, <2>10, <4>1 DEF Frame!Respond
      <4>. QED  BY <1>6, <2>2, <4>2
    <3>2. FrameTypes'
      BY <1>1, <1>4, <1>6, <1>9, <2>5 DEF FrameTypes
    <3>3. ReadingInv'
      BY <2>5 DEF ReadingInv
    <3>4. Frame!SizesAgree'
      BY <2>4 DEF Frame!SizesAgree, Frame!SEND
    <3>5. Frame!CString(f) = f => stream' = Frame!ClientGet(name')
      <4>. SUFFICES ASSUME Frame!CString(f) = f PROVE stream' = Frame!ClientGet(name')
        OBVIOUS
      <4>1. name' = f
        BY <1>6, <1>8
      <4>2. 3 \in Frame!Byte
        BY FrameAssumption DEF Frame!Byte
      <4>3. HeaderAt(stream, 3, p) /\ Len(stream) = 9 + Len(f)
        BY <1>4, <1>7, <1>11
      <4>4. stream = Named(3, p, f)
        BY ONLY <1>4, <1>7, <4>2, <4>3, NamedAt
      <4>5. stream = Named(3, 2 + Len(f), f)
        BY <3>1, <4>1, <4>4
      <4>. QED  BY <2>5, <4>1, <4>5 DEF Named, Frame!ClientGet, Frame!GET, Frame!NameOnlySize
    <3>6. Frame!NameField' = f
      <4>1. Frame!Decode(SubSeq(stream', 7 + 1, 7 + 2)) = k
        BY <1>7, <2>5, 7 + 1 = 8, 7 + 2 = 9
      <4>2. Frame!NameField' = SubSeq(stream', 7 + 3, 7 + 2 + Frame!Decode(SubSeq(stream', 7 + 1, 7 + 2)))
        BY DEF Frame!NameField, Frame!HeaderSize, Frame!Decode
      <4>3. SubSeq(stream', 7 + 3, 7 + 2 + k) = SubSeq(stream, 10, 9 + k)
        BY <1>3, <2>5
      <4>. QED  BY <4>1, <4>2, <4>3 DEF f
    <3>7. Frame!AcceptedIsCanonical'
      <4>1. header'.type # 1 /\ header'.type # 2
        BY <2>4
      <4>2. Frame!CString(Frame!NameField') = Frame!NameField' => stream' = Frame!ClientGet(name')
        BY <3>5, <3>6
      <4>. QED  BY <4>1, <4>2
                DEF Frame!AcceptedIsCanonical, Frame!SEND, Frame!TEXT
    <3>. QED  BY <2>5, <2>8, <3>2, <3>3, <3>4, <3>7 DEF FrameInv
  <2>. QED  BY <2>9, <2>10
<1>. QED  BY <1>2, <1>10, <1>11

\* The size is in: an upload is answered.
LEMMA SizeStep == FrameInv /\ Frame!Size => FrameInv'
<1>. SUFFICES ASSUME FrameInv, Frame!Size PROVE FrameInv'
  OBVIOUS
<1>1. FrameTypes /\ ReadingInv /\ stage = "size" /\ Len(buf) = want
  BY DEF FrameInv, Frame!Size, Frame!Full
<1>2. /\ HeaderRead /\ header.type = 1 /\ ReadTo(9 + FieldLen, 2)
      /\ FieldLen \in 1 .. MaxName /\ answer = Frame!None /\ told = "nothing"
      /\ name = Frame!CString(SubSeq(stream, 10, 9 + FieldLen))
  BY <1>1 DEF ReadingInv
<1>. DEFINE k == FieldLen  p == header.payload  f == SubSeq(stream, 10, 9 + k)
            i == 10 + k  j == 11 + k  s0 == stream[i] * Base + stream[j]
<1>3. k \in Nat /\ k >= 1 /\ k <= MaxName
  BY <1>2, FrameAssumption
<1>4. /\ buf \in Seq(Frame!Byte) /\ stream \in Seq(Frame!Byte) /\ Len(buf) = 2
      /\ Len(stream) = (9 + k) + 2
      /\ \A m \in 1 .. 2 : stream[(9 + k) + m] = buf[m]
      /\ header \in [type : {1, 2, 3}, payload : Nat]
      /\ HeaderAt(stream, 1, p) /\ p \in Nat
      /\ name \in Seq(Frame!Byte)
  BY <1>1, <1>2 DEF FrameTypes, ReadTo, HeaderRead
<1>5. stream[8] * Base + stream[9] = k
  BY DEF FieldLen
<1>6. name = Frame!CString(f)
  BY <1>2
<1>. HIDE DEF k, p
<1>7. Len(stream) = 11 + k
  BY <1>3, <1>4
<1>8. /\ f \in Seq(Frame!Byte) /\ Len(f) = k /\ \A m \in 1 .. k : f[m] = stream[9 + m]
      /\ NameAt(stream, f) /\ Frame!Decode(SubSeq(stream, 8, 9)) = k
  <2>1. Len(stream) >= 9 + k
    BY <1>3, <1>4
  <2>. QED  BY ONLY <1>3, <1>4, <1>5, <2>1, FieldAt
<1>. HIDE DEF f
<1>9. Len(name) \in Nat /\ Len(name) <= k
  BY SMTT(40), <1>4, <1>6, <1>8, CStringFacts
<1>10. stream[i] = buf[1] /\ stream[j] = buf[2]
  <2>. DEFINE o == 9 + k
  <2>1. o + 1 = i /\ o + 2 = j
    BY <1>3
  <2>2. \A m \in 1 .. 2 : stream[o + m] = buf[m]
    BY <1>4
  <2>. HIDE DEF o, i, j
  <2>3. stream[o + 1] = buf[1] /\ stream[o + 2] = buf[2]
    BY ONLY <2>2
  <2>. QED  BY ONLY <2>1, <2>3
<1>11. i \in 1 .. Len(stream) /\ j \in 1 .. Len(stream)
  BY <1>3, <1>7
<1>. HIDE DEF i, j
<1>12. Frame!Decode(buf) = s0 /\ s0 \in 0 .. Base * Base - 1
  <2>1. s0 \in 0 .. Base * Base - 1
    BY ONLY <1>4, <1>11, WordAt
  <2>. QED  BY <1>10, <2>1 DEF Frame!Decode
<1>. HIDE DEF s0
<1>13. s0 \in Nat
  BY <1>12, FrameAssumption
<1>14. header' = header /\ name' = name /\ size' = s0
  BY <1>12 DEF Frame!Size
<1>. DEFINE ok == Frame!PayloadMatches(p, name, s0)
<1>15. \/ ~Frame!NameValid(name) /\ Frame!Respond(Verdict(1, 7))
       \/ Frame!NameValid(name) /\ ~ok /\ Frame!Respond(Verdict(1, 8))
       \/ Frame!NameValid(name) /\ ok /\ Frame!Respond(Verdict(1, 0))
  <2>1. Frame!ReadyReject(7) = Verdict(1, 7) /\ Frame!ReadyReject(8) = Verdict(1, 8)
        /\ Frame!ReadyOk = Verdict(1, 0)
    BY Verdicts
  <2>2. Frame!Respond(CASE ~Frame!NameValid(name) -> Frame!ReadyReject(7)
                        [] Frame!NameValid(name) /\ ~ok -> Frame!ReadyReject(8)
                        [] OTHER -> Frame!ReadyOk)
    BY <1>12 DEF Frame!Size, Frame!INVALID_FILE_NAME, Frame!SIZE_MISMATCH, p
  <2>3. CASE ~Frame!NameValid(name)
    BY <2>1, <2>2, <2>3
  <2>4. CASE Frame!NameValid(name) /\ ~ok
    BY <2>1, <2>2, <2>4
  <2>5. CASE Frame!NameValid(name) /\ ok
    BY <2>1, <2>2, <2>5
  <2>. QED  BY <2>3, <2>4, <2>5
<1>16. PICK c \in {0, 7, 8} : /\ Frame!Respond(Verdict(1, c))
                              /\ c = 0 <=> Frame!NameValid(name) /\ ok
  BY <1>15
<1>17. header' \in [type : {1, 2, 3}, payload : Nat] /\ header'.type = 1
  BY <1>2, <1>4, <1>14
<1>18. /\ stage' = "replied" /\ stream' = stream /\ buf' = <<>> /\ want' = 0
       /\ answer' = Verdict(1, c) /\ told' = "nothing"
       /\ Frame!Accepted' <=> c = 0
       /\ AnswerInv' /\ Frame!AnswerIsUnderstood'
  BY <1>2, <1>16, <1>17, Responded
<1>19. ok <=> p = (4 + Len(name) + s0) % (Base * Base)
  <2>1. (2 + Len(name)) + 2 + s0 = 4 + Len(name) + s0
    BY <1>9, <1>13
  <2>. QED  BY <2>1 DEF Frame!PayloadMatches, Frame!PrefixSize, Frame!NameOnlySize, Frame!Word
<1>20. s0 <= MaxFile => (4 + Len(name) + s0) % (Base * Base) = 4 + Len(name) + s0
  <2>. SUFFICES ASSUME s0 <= MaxFile
                PROVE  (4 + Len(name) + s0) % (Base * Base) = 4 + Len(name) + s0
    OBVIOUS
  <2>. DEFINE w == Base * Base
  <2>1. w \in Nat /\ MaxFile + MaxName + 4 < w /\ MaxFile \in Nat /\ MaxName \in Nat
    BY FrameAssumption
  <2>. HIDE DEF w
  <2>2. 4 + Len(name) + s0 \in Nat /\ 4 + Len(name) + s0 < w
    BY <1>3, <1>9, <1>13, <2>1
  <2>3. (4 + Len(name) + s0) % w = 4 + Len(name) + s0
    BY ONLY <2>1, <2>2
  <2>. QED  BY <2>3 DEF w
<1>21. ASSUME NEW n \in Frame!Names, NEW s \in 0 .. MaxFile,
              Frame!IsPrefix(stream, Frame!ClientSend(n, s))
       PROVE  c = 0
  <2>1. Len(stream) >= 7 /\ Len(stream) >= 9
    BY <1>3, <1>7
  <2>2. HeaderAt(stream, 1, 4 + Len(n) + s) /\ stream[8] * Base + stream[9] = Len(n)
    BY ONLY <1>4, <1>21, <2>1, SendPrefix, n \in Frame!Names, s \in 0 .. MaxFile
  <2>3. Len(n) = k
    BY <1>5, <2>2
  <2>4. Len(stream) >= 9 + Len(n) /\ Len(stream) = 11 + Len(n)
    BY <1>3, <1>7, <2>3
  <2>5. NameAt(stream, n) /\ SizeAt(stream, n, s)
    BY ONLY <1>4, <1>21, <2>4, SendPrefix, n \in Frame!Names, s \in 0 .. MaxFile
  <2>6. n \in Seq(Frame!Byte) /\ Frame!NameValid(n) /\ Frame!CString(n) = n
    BY HonestName
  <2>7. f = n
    <3>1. \A m \in 1 .. Len(n) : f[m] = n[m]
      BY <1>8, <2>3, <2>5 DEF NameAt
    <3>. QED  BY <1>8, <2>3, <2>6, <3>1, SameBytes
  <2>8. name = n
    BY <1>6, <2>6, <2>7
  <2>9. s0 = s
    BY <2>3, <2>5 DEF SizeAt, s0, i, j
  <2>10. p = 4 + Len(n) + s
    BY <1>4, <2>2 DEF HeaderAt
  <2>11. ok
    BY <1>19, <1>20, <2>8, <2>9, <2>10, FrameAssumption
  <2>. QED  BY <1>16, <2>6, <2>8, <2>11
<1>22. ASSUME NEW n \in Frame!Names
       PROVE  ~Frame!IsPrefix(stream, Frame!ClientGet(n))
  <2>1. Len(stream) >= 7 /\ stream[4] = 1
    BY <1>3, <1>4, <1>7 DEF HeaderAt
  <2>2. Frame!IsPrefix(stream, Frame!ClientGet(n)) => HeaderAt(stream, 3, 2 + Len(n))
    BY ONLY <1>4, <1>22, <2>1, GetPrefix
  <2>. QED  BY <2>1, <2>2 DEF HeaderAt
<1>23. Frame!HonestIsAccepted'
  <2>1. c = 0 => answer' = Frame!ReadyOk
    BY <1>18, Verdicts
  <2>. QED  BY <1>18, <1>21, <1>22, <2>1 DEF Frame!HonestIsAccepted
<1>24. CASE c # 0
  <2>1. c \in 1 .. 13 /\ 1 \in {1, 2, 3}
    BY <1>24
  <2>2. FrameTypes /\ told = "nothing" /\ name' \in Seq(Frame!Byte) /\ size' \in Nat
    BY <1>1, <1>2, <1>4, <1>13, <1>14
  <2>. QED  BY ONLY <1>16, <1>17, <1>23, <2>1, <2>2, Rejected
<1>25. CASE c = 0
  <2>1. p = (4 + Len(name) + s0) % (Base * Base)
    BY <1>16, <1>19, <1>25
  <2>2. FrameTypes'
    BY <1>1, <1>4, <1>13, <1>14, <1>18 DEF FrameTypes
  <2>3. ReadingInv'
    BY <1>18 DEF ReadingInv
  <2>4. Frame!PrefixSize(Len(name')) + size' = 4 + Len(name) + s0
    BY <1>9, <1>13, <1>14 DEF Frame!PrefixSize, Frame!NameOnlySize
  <2>5. Frame!SizesAgree'
    <3>1. size' <= MaxFile => header'.payload = Frame!PrefixSize(Len(name')) + size'
      BY <1>14, <1>20, <2>1, <2>4 DEF p
    <3>. QED  BY <3>1 DEF Frame!SizesAgree, Frame!PrefixSize, Frame!NameOnlySize
  <2>6. Frame!CString(f) = f =>
            stream' = Frame!EncodeHeader(1, (Frame!PrefixSize(Len(name')) + size') % (Base * Base))
                        \o Frame!EncodePrefix(name', size')
    <3>. SUFFICES ASSUME Frame!CString(f) = f
                  PROVE  stream' = Frame!EncodeHeader(1, (Frame!PrefixSize(Len(name')) + size') % (Base * Base))
                                     \o Frame!EncodePrefix(name', size')
      OBVIOUS
    <3>1. name' = f
      BY <1>6, <1>14
    <3>2. 1 \in Frame!Byte
      BY FrameAssumption DEF Frame!Byte
    <3>3. SizeAt(stream, f, s0)
      BY <1>7, <1>8 DEF SizeAt, s0, i, j
    <3>4. stream = Sized(1, p, f, s0)
      BY ONLY <1>4, <1>8, <1>13, <3>2, <3>3, SizedAt
    <3>5. (Frame!PrefixSize(Len(name')) + size') % (Base * Base) = p
      BY <2>1, <2>4
    <3>6. Sized(1, p, f, s0) = Frame!EncodeHeader(1, p) \o Frame!EncodePrefix(f, s0)
      BY DEF Sized
    <3>. QED  BY <1>14, <1>18, <3>1, <3>4, <3>5, <3>6
  <2>7. Frame!NameField' = f
    <3>1. Frame!Decode(SubSeq(stream', 7 + 1, 7 + 2)) = k
      BY <1>8, <1>18, 7 + 1 = 8, 7 + 2 = 9
    <3>2. Frame!NameField' = SubSeq(stream', 7 + 3, 7 + 2 + Frame!Decode(SubSeq(stream', 7 + 1, 7 + 2)))
      BY DEF Frame!NameField, Frame!HeaderSize, Frame!Decode
    <3>3. SubSeq(stream', 7 + 3, 7 + 2 + k) = SubSeq(stream, 10, 9 + k)
      BY <1>3, <1>18
    <3>. QED  BY <3>1, <3>2, <3>3 DEF f
  <2>8. Frame!AcceptedIsCanonical'
    <3>1. header'.type # 2 /\ header'.type # 3
      BY <1>17
    <3>2. Frame!CString(Frame!NameField') = Frame!NameField' =>
            stream' = Frame!EncodeHeader(1, (Frame!PrefixSize(Len(name')) + size') % (Base * Base))
                        \o Frame!EncodePrefix(name', size')
      BY <2>6, <2>7
    <3>. QED  BY <3>1, <3>2
              DEF Frame!AcceptedIsCanonical, Frame!SEND, Frame!TEXT, Frame!GET, Frame!Word
  <2>. QED  BY <1>18, <1>23, <2>2, <2>3, <2>5, <2>8 DEF FrameInv
<1>. QED  BY <1>24, <1>25

\* recv_all stops short: an upload is dropped, the others get a rejection.
LEMMA FailsStep == FrameInv /\ Frame!Fails => FrameInv'
<1>. SUFFICES ASSUME FrameInv, Frame!Fails PROVE FrameInv'
  OBVIOUS
<1>1. /\ FrameTypes /\ ReadingInv
      /\ stage \in {"header", "text", "name_len", "name", "size"}
  BY DEF FrameInv, Frame!Fails, Frame!Reading
<1>2. answer = Frame!None /\ told = "nothing" /\ header' = header /\ name' = name /\ size' = size
  BY <1>1 DEF ReadingInv, Frame!Fails
<1>3. PICK c \in {9, 12} :
        IF stage = "header" \/ header.type = 1 THEN Frame!Close("broken")
        ELSE Frame!Respond(IF header.type = 2 THEN Frame!FinalFailed(c) ELSE Frame!ReadyReject(c))
  BY DEF Frame!Fails, Frame!ERR_EOF, Frame!ERR_IO, Frame!SEND, Frame!TEXT
<1>4. CASE stage = "header" \/ header.type = 1
  <2>1. /\ stage' = "broken" /\ want' = 0 /\ buf' = <<>> /\ stream' = stream
        /\ answer' = Frame!None /\ told' = "nothing"
    BY <1>2, <1>3, <1>4 DEF Frame!Close
  <2>2. FrameTypes'
    BY <1>1, <1>2, <2>1 DEF FrameTypes
  <2>3. ReadingInv'
    BY <2>1 DEF ReadingInv
  <2>. QED  BY <2>1, <2>2, <2>3, Undecided DEF FrameInv
<1>5. CASE ~(stage = "header" \/ header.type = 1)
  <2>1. HeaderRead
    BY <1>1, <1>5 DEF ReadingInv
  <2>. DEFINE t == header.type
  <2>2. t \in {2, 3} /\ t \in {1, 2, 3} /\ header' \in [type : {1, 2, 3}, payload : Nat] /\ header'.type = t
    BY <1>2, <1>5, <2>1 DEF HeaderRead
  <2>3. c \in 1 .. 13 /\ Frame!Respond(Verdict(t, c))
    BY <1>3, <1>5, <2>2, Verdicts
  <2>4. c \in 0 .. 13 /\ c # 0
    BY <2>3
  <2>5. /\ stage' = "replied" /\ stream' = stream /\ answer' = Verdict(t, c)
    BY <2>3 DEF Frame!Respond
  <2>6. stream \in Seq(Frame!Byte) /\ Len(stream) >= 7 /\ stream[4] = t
    BY <1>1, <2>1 DEF FrameTypes, HeaderRead, HeaderAt
  <2>7. ASSUME NEW n \in Frame!Names, NEW s \in 0 .. MaxFile
        PROVE  ~Frame!IsPrefix(stream, Frame!ClientSend(n, s))
    <3>1. Frame!IsPrefix(stream, Frame!ClientSend(n, s)) => HeaderAt(stream, 1, 4 + Len(n) + s)
      BY ONLY <2>6, <2>7, SendPrefix
    <3>. QED  BY <2>2, <2>6, <3>1 DEF HeaderAt
  <2>8. ASSUME NEW n \in Frame!Names, Frame!IsPrefix(stream, Frame!ClientGet(n))
        PROVE  t = 3
    <3>1. HeaderAt(stream, 3, 2 + Len(n))
      BY ONLY <2>6, <2>8, GetPrefix, n \in Frame!Names
    <3>. QED  BY <2>6, <3>1 DEF HeaderAt
  <2>9. t = 3 => answer' \in {Frame!ReadyOk} \cup {Frame!ReadyReject(d) : d \in {5, 12, 9}}
    BY <2>3, <2>5, Verdicts
  <2>10. Frame!HonestIsAccepted'
    BY <2>5, <2>7, <2>8, <2>9
       DEF Frame!HonestIsAccepted, Frame!INVALID_ARGUMENT, Frame!ERR_EOF, Frame!ERR_IO
  <2>11. FrameTypes /\ told = "nothing" /\ name' \in Seq(Frame!Byte) /\ size' \in Nat
    BY <1>1, <1>2 DEF FrameTypes
  <2>. HIDE DEF t
  <2>. QED  BY ONLY <2>2, <2>3, <2>10, <2>11, Rejected
<1>. QED  BY <1>4, <1>5

\* The client reads the response: it concludes what the server meant.
LEMMA ClientReadsStep == FrameInv /\ Frame!ClientReads => FrameInv'
<1>. SUFFICES ASSUME FrameInv, Frame!ClientReads PROVE FrameInv'
  OBVIOUS
<1>1. /\ stage = "replied" /\ told = "nothing"
      /\ stage' = stage /\ want' = want /\ buf' = buf /\ stream' = stream /\ header' = header
      /\ name' = name /\ size' = size /\ answer' = answer /\ reply' = reply
  BY DEF Frame!ClientReads
<1>2. /\ header \in [type : {1, 2, 3}, payload : Nat]
      /\ answer \in [phase : {IF header.type = 2 THEN 1 ELSE 0}, status : 0 .. 2, code : 0 .. 13]
      /\ Frame!FrameValid(answer)
      /\ answer.status = 0 <=> Frame!Accepted
      /\ reply = Frame!EncodeFrame(answer)
  BY <1>1 DEF FrameInv, AnswerInv
<1>. DEFINE t == header.type  c == answer.code
<1>3. answer = Verdict(t, c) /\ t \in {1, 2, 3} /\ c \in 0 .. 13
  <2>1. answer = [phase |-> answer.phase, status |-> answer.status, code |-> answer.code]
    BY <1>2
  <2>2. answer.phase = (IF t = 2 THEN 1 ELSE 0) /\ t \in {1, 2, 3} /\ c \in 0 .. 13
    BY <1>2
  <2>3. answer.status = (IF c = 0 THEN 0 ELSE IF t = 2 THEN 2 ELSE 1)
    BY <1>2, <2>2 DEF Frame!FrameValid
  <2>. QED  BY <2>1, <2>2, <2>3 DEF Verdict
<1>4. Len(reply) = 4 /\ Frame!DecodeFrame(reply) = answer
  BY <1>2, <1>3, FrameIsRead
<1>5. told' = IF answer.status = 0 THEN "ok" ELSE "refused"
  <2>1. answer.phase = (IF header.type = 2 THEN 1 ELSE 0)
    BY <1>2
  <2>2. ~(Len(reply) < 4)
    BY <1>4
  <2>. QED  BY <1>2, <1>4, <2>1, <2>2 DEF Frame!ClientReads, Frame!TEXT
<1>6. Frame!Accepted' <=> Frame!Accepted
  BY <1>1 DEF Frame!Accepted
<1>7. Frame!AnswerIsUnderstood'
  BY <1>2, <1>5, <1>6 DEF Frame!AnswerIsUnderstood
<1>8. FrameTypes'
  BY <1>1, <1>5 DEF FrameInv, FrameTypes
<1>9. ReadingInv'
  BY <1>1 DEF ReadingInv
<1>10. AnswerInv'
  BY <1>1, <1>2, <1>6 DEF AnswerInv, Frame!FrameValid, Frame!EncodeFrame
<1>11. Frame!AcceptedIsCanonical' /\ Frame!SizesAgree' /\ Frame!HonestIsAccepted'
  <2>1. Frame!AcceptedIsCanonical /\ Frame!SizesAgree /\ Frame!HonestIsAccepted
    BY DEF FrameInv
  <2>2. Frame!NameField' = Frame!NameField
    BY <1>1 DEF Frame!NameField, Frame!Decode
  <2>3. Frame!AcceptedIsCanonical'
    BY <1>1, <1>6, <2>1, <2>2 DEF Frame!AcceptedIsCanonical
  <2>4. Frame!SizesAgree'
    BY <1>1, <1>6, <2>1 DEF Frame!SizesAgree
  <2>5. Frame!HonestIsAccepted'
    BY <1>1, <2>1 DEF Frame!HonestIsAccepted
  <2>. QED  BY <2>3, <2>4, <2>5
<1>. QED  BY <1>7, <1>8, <1>9, <1>10, <1>11 DEF FrameInv

\* A step of another conversion leaves the frame alone.
LEMMA FrameUntouched == FrameInv /\ UNCHANGED frameVars => FrameInv'
<1>. SUFFICES ASSUME FrameInv, UNCHANGED frameVars PROVE FrameInv'
  OBVIOUS
<1>1. /\ stage' = stage /\ want' = want /\ buf' = buf /\ stream' = stream /\ header' = header
      /\ name' = name /\ size' = size /\ answer' = answer /\ reply' = reply /\ told' = told
  BY DEF frameVars
<1>2. FrameTypes'
  BY <1>1 DEF FrameInv, FrameTypes
<1>3. HeaderRead' <=> HeaderRead
  BY <1>1 DEF HeaderRead, HeaderAt
<1>4. FieldLen' = FieldLen
  BY <1>1 DEF FieldLen
<1>5. ReadingInv'
  BY <1>1, <1>3, <1>4 DEF FrameInv, ReadingInv, ReadTo
<1>6. Frame!Accepted' <=> Frame!Accepted
  BY <1>1 DEF Frame!Accepted
<1>7. AnswerInv'
  BY <1>1, <1>6 DEF FrameInv, AnswerInv, Frame!FrameValid, Frame!EncodeFrame
<1>8. Frame!AcceptedIsCanonical' /\ Frame!SizesAgree' /\ Frame!HonestIsAccepted'
      /\ Frame!AnswerIsUnderstood'
  <2>1. Frame!AcceptedIsCanonical /\ Frame!SizesAgree /\ Frame!HonestIsAccepted
        /\ Frame!AnswerIsUnderstood
    BY DEF FrameInv
  <2>2. Frame!NameField' = Frame!NameField
    BY <1>1 DEF Frame!NameField, Frame!Decode
  <2>3. Frame!AcceptedIsCanonical'
    BY <1>1, <1>6, <2>1, <2>2 DEF Frame!AcceptedIsCanonical
  <2>4. Frame!SizesAgree'
    BY <1>1, <1>6, <2>1 DEF Frame!SizesAgree
  <2>5. Frame!HonestIsAccepted'
    BY <1>1, <2>1 DEF Frame!HonestIsAccepted
  <2>6. Frame!AnswerIsUnderstood'
    BY <1>1, <1>6, <2>1 DEF Frame!AnswerIsUnderstood
  <2>. QED  BY <2>3, <2>4, <2>5, <2>6
<1>. QED  BY <1>2, <1>5, <1>7, <1>8 DEF FrameInv

\* The native server's position in the stream, and what it decided, stay right:
\* the invariant of NativeFrames, for all widths, limits and pieces.
THEOREM FramesInvariant == InputSpec => []FrameInv
<1>1. InputInit => FrameInv
  <2>. SUFFICES ASSUME Frame!Init PROVE FrameInv
    BY DEF InputInit
  <2>1. /\ stage = "header" /\ want = 7 /\ buf = <<>> /\ stream = <<>>
        /\ name = <<>> /\ size = 0 /\ answer = Frame!None /\ told = "nothing"
    BY DEF Frame!Init, Frame!HeaderSize
  <2>2. FrameTypes
    BY <2>1 DEF FrameTypes
  <2>3. ReadingInv
    BY <2>1 DEF ReadingInv, ReadTo
  <2>4. ~Frame!Accepted
    BY <2>1, Verdicts DEF Frame!Accepted
  <2>5. Frame!AcceptedIsCanonical /\ Frame!SizesAgree
    BY <2>4, Zenon DEF Frame!AcceptedIsCanonical, Frame!SizesAgree
  <2>6. AnswerInv /\ Frame!HonestIsAccepted /\ Frame!AnswerIsUnderstood
    BY <2>1 DEF AnswerInv, Frame!HonestIsAccepted, Frame!AnswerIsUnderstood
  <2>. QED  BY <2>2, <2>3, <2>5, <2>6 DEF FrameInv
<1>2. FrameInv /\ Frame!Next => FrameInv'
  BY RecvStep, HeaderStep, TextStep, NameLenStep, NameStep, SizeStep, FailsStep, ClientReadsStep
     DEF Frame!Next
<1>3. FrameInv /\ [InputNext]_<<input, vars, pathVars, messageVars, lineVars, frameVars, stateVars>>
        => FrameInv'
  <2>1. [InputNext]_<<input, vars, pathVars, messageVars, lineVars, frameVars, stateVars>>
          => Frame!Next \/ UNCHANGED frameVars
    BY DEF InputNext
  <2>. QED  BY <1>2, <2>1, FrameUntouched
<1>. QED  BY <1>1, <1>3, PTL DEF InputSpec

\* A request the native server accepts is the one its client wrote, byte for
\* byte, and its sizes did not wrap around.
THEOREM AcceptedIsCanonicalHolds == InputSpec => []AcceptedIsCanonical
<1>1. FrameInv => AcceptedIsCanonical
  BY DEF FrameInv, AcceptedIsCanonical
<1>. QED  BY <1>1, FramesInvariant, PTL

\* The native server refuses no request of a client for its form, and the client
\* reads its answer as it was meant.
THEOREM HonestIsAcceptedHolds == InputSpec => []HonestIsAccepted
<1>1. FrameInv => HonestIsAccepted
  BY DEF FrameInv, HonestIsAccepted
<1>. QED  BY <1>1, FramesInvariant, PTL

-----------------------------------------------------------------------------
(* CommandLine: command lines as pairs of an option and its value. *)

OptionWords == Line!Options \ {"-h"}

\* The pairs of z whose option is o, and those whose option is one of os.
GivenIn(z, o) == {k \in 1 .. Len(z) \div 2 : z[2 * k - 1] = o}
OnesIn(z, os) == {k \in 1 .. Len(z) \div 2 : z[2 * k - 1] \in os}

\* v is the value of the last o in z, or the default if there is none.
LastIn(z, o, v, default) ==
    \/ GivenIn(z, o) = {} /\ v = default
    \/ \E k \in GivenIn(z, o) : (\A j \in GivenIn(z, o) : j <= k) /\ v = z[2 * k]

\* No argument that follows makes z a command line of the usage text.
Hopeless(z) ==
    \/ Len(z) >= 2 /\ z[1] \in Line!Commands
    \/ /\ z # <<>> /\ z[1] \notin Line!Commands
       /\ \/ \E i \in 1 .. Len(z) : i % 2 = 1 /\ z[i] \notin OptionWords
          \/ \E i, j \in 1 .. Len(z) :
                /\ i % 2 = 1 /\ j % 2 = 1 /\ i < j /\ z[i] = z[j]
                /\ z[i] \in {"-d", "-o"} \cup Line!Actions
          \/ \E i \in 1 .. Len(z) :
                i % 2 = 0 /\ z[i - 1] = "-p" /\ z[i] \notin MCPorts

\* One argument more.
LEMMA Appended ==
    ASSUME NEW z \in Seq(Line!Args), NEW a \in Line!Args
    PROVE  LET y == Append(z, a)
           IN  /\ y \in Seq(Line!Args) /\ Len(y) = Len(z) + 1 /\ Len(z) \in Nat /\ y # <<>>
               /\ \A i \in 1 .. Len(z) : y[i] = z[i]
               /\ y[Len(z) + 1] = a
OBVIOUS

\* An option does not make a pair yet.
LEMMA OptionAdded ==
    ASSUME NEW z \in Seq(Line!Args), NEW a \in Line!Args, Len(z) % 2 = 0
    PROVE  LET y == Append(z, a)
           IN  /\ \A o : GivenIn(y, o) = GivenIn(z, o)
               /\ \A os : OnesIn(y, os) = OnesIn(z, os)
               /\ \A o, v, d : LastIn(z, o, v, d) => LastIn(y, o, v, d)
               /\ \A k \in 1 .. Len(z) \div 2 : y[2 * k] = z[2 * k] /\ y[2 * k - 1] = z[2 * k - 1]
               /\ Len(y) \div 2 = Len(z) \div 2 /\ Len(y) % 2 = 1
<1>. DEFINE y == Append(z, a)  n == Len(z) \div 2
<1>1. /\ y \in Seq(Line!Args) /\ Len(y) = Len(z) + 1 /\ Len(z) \in Nat
      /\ \A i \in 1 .. Len(z) : y[i] = z[i]
  BY Appended
<1>. HIDE DEF y
<1>2. n \in Nat /\ Len(z) = 2 * n /\ Len(y) \div 2 = n /\ Len(y) % 2 = 1
  BY <1>1
<1>3. \A k \in 1 .. n : 2 * k \in 1 .. Len(z) /\ 2 * k - 1 \in 1 .. Len(z)
  BY <1>2
<1>. HIDE DEF n
<1>4. \A k \in 1 .. n : y[2 * k] = z[2 * k] /\ y[2 * k - 1] = z[2 * k - 1]
  BY <1>1, <1>3
<1>5. \A o : GivenIn(y, o) = GivenIn(z, o)
  BY <1>2, <1>4 DEF GivenIn, n
<1>6. \A os : OnesIn(y, os) = OnesIn(z, os)
  BY <1>2, <1>4 DEF OnesIn, n
<1>7. ASSUME NEW o, NEW v, NEW d, LastIn(z, o, v, d) PROVE LastIn(y, o, v, d)
  <2>1. CASE GivenIn(z, o) = {} /\ v = d
    BY <1>5, <2>1 DEF LastIn
  <2>2. CASE \E k \in GivenIn(z, o) : (\A j \in GivenIn(z, o) : j <= k) /\ v = z[2 * k]
    <3>1. PICK k \in GivenIn(z, o) : (\A j \in GivenIn(z, o) : j <= k) /\ v = z[2 * k]
      BY <2>2
    <3>2. k \in 1 .. n
      BY DEF GivenIn, n
    <3>3. v = y[2 * k] /\ k \in GivenIn(y, o) /\ \A j \in GivenIn(y, o) : j <= k
      BY <1>4, <1>5, <3>1, <3>2
    <3>. QED  BY <3>3 DEF LastIn
  <2>. QED  BY <1>7, <2>1, <2>2 DEF LastIn
<1>. QED  BY <1>2, <1>4, <1>5, <1>6, <1>7 DEF y, n

\* A value makes a pair with the option before it.
LEMMA ValueAdded ==
    ASSUME NEW z \in Seq(Line!Args), NEW a \in Line!Args, Len(z) % 2 = 1
    PROVE  LET y == Append(z, a)
               w == z[Len(z)]
               m == Len(z) \div 2 + 1
           IN  /\ Len(y) \div 2 = m /\ Len(y) % 2 = 0 /\ m \in Nat /\ Len(z) = 2 * m - 1
               /\ y[2 * m - 1] = w /\ y[2 * m] = a
               /\ \A k \in 1 .. m - 1 : y[2 * k] = z[2 * k] /\ y[2 * k - 1] = z[2 * k - 1]
               /\ \A o, k : k \in GivenIn(y, o) <=> k \in GivenIn(z, o) \/ (o = w /\ k = m)
               /\ \A os : /\ w \notin os => OnesIn(y, os) = OnesIn(z, os)
                          /\ w \in os => OnesIn(y, os) = OnesIn(z, os) \cup {m}
               /\ \A o, v, d : o # w /\ LastIn(z, o, v, d) => LastIn(y, o, v, d)
               /\ \A d : LastIn(y, w, a, d)
               /\ \A os : m \notin OnesIn(z, os)
<1>. DEFINE y == Append(z, a)  w == z[Len(z)]  m == Len(z) \div 2 + 1
<1>1. /\ y \in Seq(Line!Args) /\ Len(y) = Len(z) + 1 /\ Len(z) \in Nat
      /\ \A i \in 1 .. Len(z) : y[i] = z[i]
      /\ y[Len(z) + 1] = a
  BY Appended
<1>. HIDE DEF y
<1>2. /\ m \in Nat /\ m >= 1 /\ Len(z) = 2 * m - 1 /\ Len(y) \div 2 = m /\ Len(y) % 2 = 0
      /\ Len(z) \div 2 = m - 1
  BY <1>1
<1>. HIDE DEF m
<1>3. y[2 * m - 1] = w /\ y[2 * m] = a
  <2>1. 2 * m - 1 = Len(z) /\ 2 * m = Len(z) + 1 /\ Len(z) \in 1 .. Len(z)
    BY <1>1, <1>2
  <2>2. y[Len(z)] = z[Len(z)]
    BY <1>1, <2>1
  <2>. QED  BY ONLY <1>1, <2>1, <2>2
<1>. HIDE DEF w
<1>4. \A k \in 1 .. m - 1 : 2 * k \in 1 .. Len(z) /\ 2 * k - 1 \in 1 .. Len(z)
  BY <1>2
<1>5. \A k \in 1 .. m - 1 : y[2 * k] = z[2 * k] /\ y[2 * k - 1] = z[2 * k - 1]
  BY <1>1, <1>4
<1>6. \A k : k \in 1 .. m <=> k \in 1 .. m - 1 \/ k = m
  BY <1>2
<1>7. ASSUME NEW o, NEW k
      PROVE  k \in GivenIn(y, o) <=> k \in GivenIn(z, o) \/ (o = w /\ k = m)
  <2>1. k \in GivenIn(y, o) <=> k \in 1 .. m /\ y[2 * k - 1] = o
    BY <1>2 DEF GivenIn
  <2>2. k \in GivenIn(z, o) <=> k \in 1 .. m - 1 /\ z[2 * k - 1] = o
    BY <1>2 DEF GivenIn
  <2>. QED  BY <1>3, <1>5, <1>6, <2>1, <2>2
<1>8. ASSUME NEW os, NEW k
      PROVE  k \in OnesIn(y, os) <=> k \in OnesIn(z, os) \/ (w \in os /\ k = m)
  <2>1. k \in OnesIn(y, os) <=> k \in 1 .. m /\ y[2 * k - 1] \in os
    BY <1>2 DEF OnesIn
  <2>2. k \in OnesIn(z, os) <=> k \in 1 .. m - 1 /\ z[2 * k - 1] \in os
    BY <1>2 DEF OnesIn
  <2>. QED  BY <1>3, <1>5, <1>6, <2>1, <2>2
<1>9. ASSUME NEW os
      PROVE  /\ w \notin os => OnesIn(y, os) = OnesIn(z, os)
             /\ w \in os => OnesIn(y, os) = OnesIn(z, os) \cup {m}
  <2>1. \A k : k \in OnesIn(y, os) <=> k \in OnesIn(z, os) \/ (w \in os /\ k = m)
    BY <1>8
  <2>. DEFINE A == OnesIn(y, os)  B == OnesIn(z, os)
  <2>. HIDE DEF A, B
  <2>2. \A k : k \in A <=> k \in B \/ (w \in os /\ k = m)
    BY <2>1 DEF A, B
  <2>3. w \notin os => A = B
    BY ONLY <2>2
  <2>4. w \in os => A = B \cup {m}
    BY ONLY <2>2
  <2>. QED  BY <2>3, <2>4 DEF A, B
<1>10. ASSUME NEW o, NEW v, NEW d, o # w, LastIn(z, o, v, d) PROVE LastIn(y, o, v, d)
  <2>0. \A k : k \in GivenIn(y, o) <=> k \in GivenIn(z, o)
    BY <1>7, <1>10
  <2>1. CASE GivenIn(z, o) = {} /\ v = d
    BY <2>0, <2>1 DEF LastIn
  <2>2. CASE \E k \in GivenIn(z, o) : (\A j \in GivenIn(z, o) : j <= k) /\ v = z[2 * k]
    <3>1. PICK k \in GivenIn(z, o) : (\A j \in GivenIn(z, o) : j <= k) /\ v = z[2 * k]
      BY <2>2
    <3>2. k \in 1 .. m - 1
      BY <1>2 DEF GivenIn
    <3>3. v = y[2 * k] /\ k \in GivenIn(y, o) /\ \A j \in GivenIn(y, o) : j <= k
      BY <1>5, <2>0, <3>1, <3>2
    <3>. QED  BY <3>3 DEF LastIn
  <2>. QED  BY <1>10, <2>1, <2>2 DEF LastIn
<1>11. ASSUME NEW d PROVE LastIn(y, w, a, d)
  <2>1. m \in GivenIn(y, w)
    BY <1>7
  <2>2. \A j \in GivenIn(y, w) : j <= m
    BY <1>2 DEF GivenIn
  <2>. QED  BY <1>3, <2>1, <2>2 DEF LastIn
<1>12. \A os : m \notin OnesIn(z, os)
  BY <1>2 DEF OnesIn
<1>. QED  BY <1>2, <1>3, <1>5, <1>7, <1>9, <1>10, <1>11, <1>12 DEF y, w, m

\* InUsage of CommandLine, for a command line z.
UsageOf(z) ==
    \/ Len(z) = 1 /\ z[1] \in Line!Commands
    \/ /\ Len(z) > 0 /\ Len(z) % 2 = 0
       /\ \A k \in 1 .. Len(z) \div 2 : z[2 * k - 1] \in OptionWords
       /\ \A k \in GivenIn(z, "-p") : z[2 * k] \in MCPorts
       /\ \/ /\ Cardinality(OnesIn(z, {"-d"})) = 1
             /\ Cardinality(OnesIn(z, Line!Actions \cup {"-o", "-i"})) = 0
          \/ /\ Cardinality(OnesIn(z, {"-d"})) = 0
             /\ Cardinality(OnesIn(z, Line!Actions)) = 1
             /\ Cardinality(OnesIn(z, {"-o"})) <= Cardinality(OnesIn(z, {"-g"}))

\* It is that definition.
LEMMA UsageIsInUsage == Line!InUsage' <=> UsageOf(argv')
BY DEF Line!InUsage, UsageOf, Line!Pairs, Line!Opt, Line!Val, Line!Given, Line!Count, GivenIn,
       OnesIn, OptionWords, Cardinality, Line!Cardinality

\* Counting pairs.
LEMMA Counts ==
    ASSUME NEW z \in Seq(Line!Args), NEW os
    PROVE  /\ IsFiniteSet(OnesIn(z, os)) /\ Cardinality(OnesIn(z, os)) \in Nat
           /\ Cardinality(OnesIn(z, os)) = 0 <=> OnesIn(z, os) = {}
           /\ Cardinality(OnesIn(z, os)) = 1 <=> \E k : OnesIn(z, os) = {k}
           /\ \A ps : os \subseteq ps => /\ OnesIn(z, os) \subseteq OnesIn(z, ps)
                                         /\ Cardinality(OnesIn(z, os)) <= Cardinality(OnesIn(z, ps))
<1>1. ASSUME NEW qs PROVE IsFiniteSet(OnesIn(z, qs)) /\ Cardinality(OnesIn(z, qs)) \in Nat
  <2>1. IsFiniteSet(1 .. Len(z) \div 2)
    BY FS_Interval
  <2>2. OnesIn(z, qs) \subseteq 1 .. Len(z) \div 2
    BY DEF OnesIn
  <2>3. IsFiniteSet(OnesIn(z, qs))
    BY <2>1, <2>2, FS_Subset
  <2>. QED  BY <2>3, FS_CardinalityType
<1>2. Cardinality(OnesIn(z, os)) = 0 <=> OnesIn(z, os) = {}
  BY <1>1, FS_EmptySet
<1>3. Cardinality(OnesIn(z, os)) = 1 <=> \E k : OnesIn(z, os) = {k}
  BY <1>1, FS_Singleton
<1>4. ASSUME NEW ps, os \subseteq ps
      PROVE  /\ OnesIn(z, os) \subseteq OnesIn(z, ps)
             /\ Cardinality(OnesIn(z, os)) <= Cardinality(OnesIn(z, ps))
  <2>1. OnesIn(z, os) \subseteq OnesIn(z, ps)
    BY <1>4 DEF OnesIn
  <2>. QED  BY <1>1, <2>1, FS_Subset
<1>. QED  BY <1>1, <1>2, <1>3, <1>4

\* A further argument does not help.
LEMMA HopelessStays ==
    ASSUME NEW z \in Seq(Line!Args), NEW a \in Line!Args, Hopeless(z)
    PROVE  Hopeless(Append(z, a))
<1>. DEFINE y == Append(z, a)
<1>1. /\ y \in Seq(Line!Args) /\ Len(y) = Len(z) + 1 /\ Len(z) \in Nat /\ y # <<>>
      /\ \A i \in 1 .. Len(z) : y[i] = z[i]
  BY Appended
<1>. HIDE DEF y
<1>2. CASE Len(z) >= 2 /\ z[1] \in Line!Commands
  <2>1. Len(y) >= 2 /\ y[1] = z[1]
    BY <1>1, <1>2
  <2>2. Hopeless(y)
    BY <1>2, <2>1 DEF Hopeless
  <2>. QED  BY <2>2 DEF y
<1>3. CASE ~(Len(z) >= 2 /\ z[1] \in Line!Commands)
  <2>1. z # <<>> /\ z[1] \notin Line!Commands
    BY <1>3 DEF Hopeless
  <2>2. Len(z) >= 1 /\ y[1] = z[1]
    BY <1>1, <2>1
  <2>3. CASE \E i \in 1 .. Len(z) : i % 2 = 1 /\ z[i] \notin OptionWords
    <3>1. PICK i \in 1 .. Len(z) : i % 2 = 1 /\ z[i] \notin OptionWords
      BY <2>3
    <3>2. i \in 1 .. Len(y) /\ y[i] = z[i]
      BY <1>1
    <3>3. Hopeless(y)
      BY <1>1, <2>1, <2>2, <3>1, <3>2 DEF Hopeless
    <3>. QED  BY <3>3 DEF y
  <2>4. CASE \E i, j \in 1 .. Len(z) :
                /\ i % 2 = 1 /\ j % 2 = 1 /\ i < j /\ z[i] = z[j]
                /\ z[i] \in {"-d", "-o"} \cup Line!Actions
    <3>1. PICK i \in 1 .. Len(z), j \in 1 .. Len(z) :
                /\ i % 2 = 1 /\ j % 2 = 1 /\ i < j /\ z[i] = z[j]
                /\ z[i] \in {"-d", "-o"} \cup Line!Actions
      BY <2>4
    <3>2. i \in 1 .. Len(y) /\ y[i] = z[i] /\ j \in 1 .. Len(y) /\ y[j] = z[j]
      BY <1>1
    <3>3. \E u, v \in 1 .. Len(y) :
                /\ u % 2 = 1 /\ v % 2 = 1 /\ u < v /\ y[u] = y[v]
                /\ y[u] \in {"-d", "-o"} \cup Line!Actions
      BY <3>1, <3>2
    <3>4. Hopeless(y)
      BY <1>1, <2>1, <2>2, <3>3 DEF Hopeless
    <3>. QED  BY <3>4 DEF y
  <2>5. CASE \E i \in 1 .. Len(z) : i % 2 = 0 /\ z[i - 1] = "-p" /\ z[i] \notin MCPorts
    <3>1. PICK i \in 1 .. Len(z) : i % 2 = 0 /\ z[i - 1] = "-p" /\ z[i] \notin MCPorts
      BY <2>5
    <3>2. i - 1 \in 1 .. Len(z)
      BY <3>1
    <3>3. i \in 1 .. Len(y) /\ y[i] = z[i] /\ y[i - 1] = z[i - 1]
      BY <1>1, <3>2
    <3>4. \E u \in 1 .. Len(y) : u % 2 = 0 /\ y[u - 1] = "-p" /\ y[u] \notin MCPorts
      BY <3>1, <3>3
    <3>5. Hopeless(y)
      BY <1>1, <2>1, <2>2, <3>4 DEF Hopeless
    <3>. QED  BY <3>5 DEF y
  <2>. QED  BY <1>3, <2>3, <2>4, <2>5 DEF Hopeless
<1>. QED  BY <1>2, <1>3

\* Such a command line is not one of the usage text.
LEMMA HopelessIsOut ==
    ASSUME NEW z \in Seq(Line!Args), Hopeless(z), UsageOf(z)
    PROVE  FALSE
<1>. DEFINE n == Len(z) \div 2
<1>1. Line!Commands \cap OptionWords = {}
  BY DEF Line!Commands, OptionWords, Line!Options
<1>2. Len(z) \in Nat
  OBVIOUS
<1>3. CASE Len(z) >= 2 /\ z[1] \in Line!Commands
  <2>1. Len(z) # 1 /\ 1 \in 1 .. n
    <3>. DEFINE l == Len(z)
    <3>1. l \in Nat /\ l >= 2
      BY <1>2, <1>3
    <3>. HIDE DEF l
    <3>2. l # 1 /\ 1 \in 1 .. l \div 2
      BY ONLY <3>1
    <3>. QED  BY <3>2 DEF l
  <2>2. z[2 * 1 - 1] \in OptionWords
    BY <2>1 DEF UsageOf
  <2>3. 2 * 1 - 1 = 1
    OBVIOUS
  <2>. QED  BY <1>1, <1>3, <2>2, <2>3
<1>4. CASE ~(Len(z) >= 2 /\ z[1] \in Line!Commands)
  <2>1. z # <<>> /\ z[1] \notin Line!Commands
    BY <1>4 DEF Hopeless
  <2>2. /\ Len(z) > 0 /\ Len(z) % 2 = 0
        /\ \A k \in 1 .. n : z[2 * k - 1] \in OptionWords
        /\ \A k \in GivenIn(z, "-p") : z[2 * k] \in MCPorts
        /\ \/ /\ Cardinality(OnesIn(z, {"-d"})) = 1
              /\ Cardinality(OnesIn(z, Line!Actions \cup {"-o", "-i"})) = 0
           \/ /\ Cardinality(OnesIn(z, {"-d"})) = 0
              /\ Cardinality(OnesIn(z, Line!Actions)) = 1
              /\ Cardinality(OnesIn(z, {"-o"})) <= Cardinality(OnesIn(z, {"-g"}))
    BY <2>1 DEF UsageOf
  <2>3. n \in Nat /\ Len(z) = 2 * n
    BY <1>2, <2>2
  <2>. HIDE DEF n
  <2>4. ASSUME NEW i \in 1 .. Len(z), i % 2 = 1 PROVE \E k \in 1 .. n : i = 2 * k - 1
    <3>. DEFINE k == (i + 1) \div 2
    <3>1. i + 1 = 2 * k /\ k \in 1 .. n
      BY <1>2, <2>3, <2>4
    <3>. QED  BY <3>1
  <2>5. CASE \E i \in 1 .. Len(z) : i % 2 = 1 /\ z[i] \notin OptionWords
    BY <2>2, <2>4, <2>5
  <2>6. CASE \E i, j \in 1 .. Len(z) :
                /\ i % 2 = 1 /\ j % 2 = 1 /\ i < j /\ z[i] = z[j]
                /\ z[i] \in {"-d", "-o"} \cup Line!Actions
    <3>1. PICK i \in 1 .. Len(z), j \in 1 .. Len(z) :
                /\ i % 2 = 1 /\ j % 2 = 1 /\ i < j /\ z[i] = z[j]
                /\ z[i] \in {"-d", "-o"} \cup Line!Actions
      BY <2>6
    <3>2. PICK k \in 1 .. n : i = 2 * k - 1
      BY <2>4, <3>1
    <3>3. PICK l \in 1 .. n : j = 2 * l - 1
      BY <2>4, <3>1
    <3>4. k # l
      BY <3>1, <3>2, <3>3
    <3>5. \A os : z[i] \in os => k \in OnesIn(z, os) /\ l \in OnesIn(z, os)
      BY <3>1, <3>2, <3>3 DEF OnesIn, n
    <3>6. \A os : z[i] \in os => Cardinality(OnesIn(z, os)) # 0 /\ Cardinality(OnesIn(z, os)) # 1
      BY <3>4, <3>5, Counts
    <3>7. CASE z[i] = "-d"
      BY <2>2, <3>6, <3>7
    <3>8. CASE z[i] \in Line!Actions
      BY <2>2, <3>6, <3>8
    <3>9. CASE z[i] = "-o"
      <4>1. {"-g"} \subseteq Line!Actions
        BY DEF Line!Actions
      <4>2. Cardinality(OnesIn(z, {"-g"})) <= Cardinality(OnesIn(z, Line!Actions))
        BY <4>1, Counts
      <4>3. Cardinality(OnesIn(z, {"-g"})) \in Nat /\ Cardinality(OnesIn(z, {"-o"})) \in Nat
        BY Counts
      <4>4. Cardinality(OnesIn(z, {"-o"})) # 0 /\ Cardinality(OnesIn(z, {"-o"})) # 1
        BY <3>6, <3>9
      <4>5. Cardinality(OnesIn(z, Line!Actions \cup {"-o", "-i"})) # 0
        BY <3>6, <3>9
      <4>. QED  BY <2>2, <4>2, <4>3, <4>4, <4>5
    <3>. QED  BY <3>1, <3>7, <3>8, <3>9
  <2>7. CASE \E i \in 1 .. Len(z) : i % 2 = 0 /\ z[i - 1] = "-p" /\ z[i] \notin MCPorts
    <3>1. PICK i \in 1 .. Len(z) : i % 2 = 0 /\ z[i - 1] = "-p" /\ z[i] \notin MCPorts
      BY <2>7
    <3>. DEFINE k == i \div 2
    <3>2. i = 2 * k /\ k \in 1 .. n
      BY <1>2, <2>3, <3>1
    <3>. HIDE DEF k
    <3>3. i - 1 = 2 * k - 1
      BY <3>2
    <3>4. k \in GivenIn(z, "-p")
      BY <3>1, <3>2, <3>3 DEF GivenIn, n
    <3>. QED  BY <2>2, <3>1, <3>2, <3>4
  <2>. QED  BY <1>4, <2>5, <2>6, <2>7 DEF Hopeless
<1>. QED  BY <1>3, <1>4

-----------------------------------------------------------------------------
(* CommandLine: the invariant. *)

LineWords == Line!Args \cup {"null", "127.0.0.1", "8888", "server", "client"}

LineTypes ==
    /\ argv \in Seq(Line!Args)
    /\ awaits \in OptionWords \cup {"null", "end"}
    /\ opt \in [mode : LineWords, path : LineWords, remote : LineWords, output : LineWords,
                message : LineWords, ip : LineWords, port : LineWords, type : LineWords]
    /\ seen \in [server : BOOLEAN, actions : Nat, action : Line!Actions \cup {"null"},
                 output : BOOLEAN, ip : BOOLEAN, control : BOOLEAN]
    /\ parsed \in {"parsing", "ok", "help", "error"}

\* Options and values in turn, none of them a reason to stop.
TurnInv ==
    /\ (awaits = "null") <=> (Len(argv) % 2 = 0)
    /\ argv # <<>> => argv[1] \notin Line!Commands
    /\ awaits # "null" => argv[Len(argv)] = awaits /\ ~Line!Duplicate(awaits)
    /\ \A k \in 1 .. Len(argv) \div 2 : argv[2 * k - 1] \in OptionWords
    /\ \A k \in GivenIn(argv, "-p") : argv[2 * k] \in MCPorts

\* The locals of parse_args say what was given.
SeenInv ==
    /\ seen.server <=> GivenIn(argv, "-d") # {}
    /\ seen.output <=> GivenIn(argv, "-o") # {}
    /\ seen.ip <=> GivenIn(argv, "-i") # {}
    /\ \A o \in {"-d", "-o"} : \A j, k \in GivenIn(argv, o) : j = k
    /\ seen.actions = Cardinality(OnesIn(argv, Line!Actions))
    /\ seen.action = "null" <=> seen.actions = 0
    /\ seen.action # "null" => GivenIn(argv, seen.action) # {}

\* The fields hold what was given, where one command was selected.
FieldInv ==
    /\ LastIn(argv, "-o", opt.output, "null") /\ LastIn(argv, "-g", opt.remote, "null")
    /\ LastIn(argv, "-i", opt.ip, "127.0.0.1") /\ LastIn(argv, "-p", opt.port, "8888")
    /\ seen.actions = 0 => opt.message = "null" /\ LastIn(argv, "-d", opt.path, "null")
    /\ ~seen.server /\ seen.actions = 1 =>
           LastIn(argv, "-c", opt.path, "null") /\ LastIn(argv, "-m", opt.message, "null")

\* The name of a command came first: nothing but -i is let through, until the end.
ControlInv ==
    /\ argv # <<>> /\ argv[1] \in Line!Commands
    /\ Len(argv) = 1 => ~seen.ip /\ awaits = "null"
    /\ Len(argv) > 1 => seen.ip \/ awaits = "-i"
    /\ awaits \in {"null", "-i"}
    /\ ~seen.server /\ ~seen.output /\ seen.actions = 0 /\ seen.action = "null"
    /\ opt.mode = argv[1] /\ opt.path = "null" /\ opt.remote = "null" /\ opt.output = "null"
    /\ opt.message = "null" /\ opt.port = "8888"
    /\ ~seen.ip => opt.ip = "127.0.0.1"

LineInv ==
    /\ LineTypes
    /\ parsed = "parsing" =>
          /\ awaits # "end"
          /\ seen.control => ControlInv
          /\ ~seen.control => TurnInv /\ SeenInv /\ FieldInv
    /\ parsed \in {"error", "help"} /\ awaits # "end" => Hopeless(argv)
    /\ Line!AcceptsUsage /\ Line!FieldsAsWritten

\* What the steps that leave parsing or stay in it have in common.
LEMMA StillParsing ==
    ASSUME parsed' = "parsing", LineTypes', awaits' # "end",
           seen'.control => ControlInv', ~seen'.control => TurnInv' /\ SeenInv' /\ FieldInv'
    PROVE  LineInv'
<1>1. Line!AcceptsUsage' /\ Line!FieldsAsWritten'
  BY DEF Line!AcceptsUsage, Line!FieldsAsWritten
<1>. QED  BY <1>1 DEF LineInv

\* A command line that is refused inside the loop is none of the usage text,
\* whatever follows.
LEMMA IsRefused ==
    ASSUME parsed' \in {"error", "help"}, LineTypes', Hopeless(argv')
    PROVE  LineInv'
<1>1. argv' \in Seq(Line!Args)
  BY DEF LineTypes
<1>2. ~UsageOf(argv')
  BY <1>1, HopelessIsOut
<1>3. ~Line!InUsage'
  BY <1>2, UsageIsInUsage
<1>4. Line!AcceptsUsage' /\ Line!FieldsAsWritten'
  BY <1>3 DEF Line!AcceptsUsage, Line!FieldsAsWritten
<1>. QED  BY <1>4 DEF LineInv

\* FieldsAsWritten of CommandLine, for a command line z and its options p.
LastPair(G) == CHOOSE x \in G : \A y \in G : x >= y

LastOf(z, o, default) ==
    IF GivenIn(z, o) = {} THEN default
    ELSE z[2 * LastPair(GivenIn(z, o))]

FieldsOf(z, p) ==
    /\ p.mode = (IF z[1] \in Line!Commands THEN z[1]
                 ELSE IF GivenIn(z, "-d") # {} THEN "server" ELSE "client")
    /\ p.path = LastOf(z, "-d", LastOf(z, "-c", "null"))
    /\ p.remote = LastOf(z, "-g", "null")
    /\ p.output = LastOf(z, "-o", "null")
    /\ p.message = LastOf(z, "-m", "null")
    /\ p.ip = LastOf(z, "-i", "127.0.0.1")
    /\ p.port = LastOf(z, "-p", "8888")

\* The fields are as written if they hold the last value of each option.
LEMMA FieldsAreFields ==
    Line!FieldsAsWritten' <=> (parsed' = "ok" => FieldsOf(argv', opt'))
<1>1. ASSUME NEW o PROVE Line!Given(o)' = GivenIn(argv', o)
  BY DEF Line!Given, Line!Pairs, Line!Opt, GivenIn
<1>2. ASSUME NEW o, NEW d PROVE Line!LastValue(o, d)' = LastOf(argv', o, d)
  <2>1. Line!Max(Line!Given(o))' = LastPair(GivenIn(argv', o))
    BY <1>1 DEF Line!Max, LastPair
  <2>. QED  BY <1>1, <2>1 DEF Line!LastValue, LastOf, Line!Val
<1>3. Line!LastValue("-d", Line!LastValue("-c", "null"))' = LastOf(argv', "-d", LastOf(argv', "-c", "null"))
  <2>1. Line!Max(Line!Given("-d"))' = LastPair(GivenIn(argv', "-d"))
    BY <1>1 DEF Line!Max, LastPair
  <2>. QED  BY <1>1, <1>2, <2>1 DEF Line!LastValue, LastOf, Line!Val
<1>. QED  BY <1>1, <1>2, <1>3 DEF Line!FieldsAsWritten, FieldsOf, Line!Null

\* The value that the loop kept is the last one.
LEMMA LastIsLast ==
    ASSUME NEW z \in Seq(Line!Args), NEW o, NEW v, NEW d, LastIn(z, o, v, d)
    PROVE  v = LastOf(z, o, d)
<1>. DEFINE G == GivenIn(z, o)
<1>1. CASE G = {}
  BY <1>1 DEF LastIn, LastOf
<1>2. CASE G # {}
  <2>1. PICK k \in G : (\A j \in G : j <= k) /\ v = z[2 * k]
    BY <1>2 DEF LastIn
  <2>2. \A j \in G : j \in Int
    BY DEF GivenIn
  <2>. DEFINE c == LastPair(G)
  <2>. HIDE DEF G
  <2>3. c \in G /\ \A j \in G : c >= j
    BY <2>1, <2>2 DEF LastPair
  <2>. HIDE DEF c
  <2>4. c = k
    BY <2>1, <2>2, <2>3
  <2>. QED  BY <1>2, <2>1, <2>4 DEF LastOf, G, c
<1>. QED  BY <1>1, <1>2

\* The words of the model are told apart.
LEMMA LineNames ==
    /\ OptionWords = {"-d", "-c", "-g", "-m", "-o", "-i", "-p"}
    /\ Line!Actions = {"-c", "-g", "-m"} /\ Line!Commands = {"status", "stop"}
    /\ \A o \in OptionWords : o \notin Line!Commands /\ o # "null" /\ o # "end"
    /\ \A a \in Line!Args : a # "null" /\ a \in LineWords
    /\ \A a \in Line!Commands : a # "server" /\ a # "client"
    /\ Line!Actions \subseteq OptionWords
    /\ Line!Null = "null"
BY DEF OptionWords, Line!Options, Line!Actions, Line!Commands, Line!Args, MCWords, LineWords,
       Line!Null

\* The arguments that are not read do not help.
LEMMA UnreadStep ==
    ASSUME LineInv, NEW a \in Line!Args, Line!Unread(a)
    PROVE  LineInv'
<1>1. /\ parsed \in {"error", "help"} /\ awaits # "end" /\ argv' = Append(argv, a)
      /\ awaits' = awaits /\ opt' = opt /\ seen' = seen /\ parsed' = parsed
  BY DEF Line!Unread
<1>2. argv \in Seq(Line!Args) /\ Hopeless(argv)
  BY <1>1 DEF LineInv, LineTypes
<1>3. argv' \in Seq(Line!Args) /\ Hopeless(argv')
  BY <1>1, <1>2, Appended, HopelessStays
<1>4. LineTypes'
  BY <1>1, <1>3 DEF LineInv, LineTypes
<1>. QED  BY <1>1, <1>3, <1>4, IsRefused

\* The name of a command.
LEMMA ControlStep ==
    ASSUME LineInv, NEW a \in Line!Args, Line!Control(a)
    PROVE  LineInv'
<1>1. /\ parsed = "parsing" /\ argv = <<>> /\ a \in Line!Commands /\ argv' = Append(argv, a)
      /\ opt' = [opt EXCEPT !.mode = a] /\ seen' = [seen EXCEPT !.control = TRUE]
      /\ awaits' = awaits /\ parsed' = parsed
  BY DEF Line!Control, Line!Reads
<1>2. LineTypes /\ awaits # "end"
  BY <1>1 DEF LineInv
<1>3. ~seen.control
  BY <1>1 DEF LineInv, ControlInv
<1>4. TurnInv /\ SeenInv /\ FieldInv
  BY <1>1, <1>3 DEF LineInv
<1>5. argv' \in Seq(Line!Args) /\ argv' # <<>> /\ argv'[1] = a /\ Len(argv') = 1
  BY <1>1, <1>2 DEF LineTypes
<1>6. \A o : GivenIn(argv, o) = {}
  BY <1>1 DEF GivenIn
<1>7. \A os : OnesIn(argv, os) = {}
  BY <1>1 DEF OnesIn
<1>8. Cardinality({}) = 0
  BY FS_EmptySet
<1>9. ~seen.server /\ ~seen.output /\ ~seen.ip /\ seen.actions = 0 /\ seen.action = "null"
  BY <1>4, <1>6, <1>7, <1>8 DEF SeenInv
<1>10. awaits = "null"
  BY <1>1, <1>4 DEF TurnInv
<1>11. /\ opt.path = "null" /\ opt.remote = "null" /\ opt.output = "null"
       /\ opt.message = "null" /\ opt.port = "8888" /\ opt.ip = "127.0.0.1"
  BY <1>4, <1>6, <1>9 DEF FieldInv, LastIn
<1>12. /\ opt'.mode = a /\ opt'.path = opt.path /\ opt'.remote = opt.remote
       /\ opt'.output = opt.output /\ opt'.message = opt.message /\ opt'.port = opt.port
       /\ opt'.ip = opt.ip
  BY <1>1, <1>2 DEF LineTypes
<1>13. /\ seen'.control /\ seen'.server = seen.server /\ seen'.output = seen.output
       /\ seen'.ip = seen.ip /\ seen'.actions = seen.actions /\ seen'.action = seen.action
  BY <1>1, <1>2 DEF LineTypes
<1>14. LineTypes'
  <2>1. a \in LineWords
    BY LineNames
  <2>. QED  BY <1>1, <1>2, <1>5, <2>1 DEF LineTypes
<1>15. ControlInv'
  BY <1>1, <1>5, <1>9, <1>10, <1>11, <1>12, <1>13 DEF ControlInv
<1>. QED  BY <1>1, <1>2, <1>13, <1>14, <1>15, StillParsing

\* An option: it is refused, or its value is awaited.
LEMMA OptionStep ==
    ASSUME LineInv, NEW a \in Line!Args, Line!Option(a)
    PROVE  LineInv'
<1>1. /\ parsed = "parsing" /\ argv' = Append(argv, a) /\ awaits = "null"
      /\ ~(argv = <<>> /\ a \in Line!Commands) /\ opt' = opt /\ seen' = seen
  BY DEF Line!Option, Line!Reads, Line!Null
<1>2. LineTypes /\ argv \in Seq(Line!Args)
  BY DEF LineInv, LineTypes
<1>3. /\ argv' \in Seq(Line!Args) /\ Len(argv') = Len(argv) + 1 /\ Len(argv) \in Nat
      /\ argv' # <<>> /\ \A i \in 1 .. Len(argv) : argv'[i] = argv[i]
      /\ argv'[Len(argv) + 1] = a
  BY <1>1, <1>2, Appended
<1>4. \/ parsed' \in {"error", "help"} /\ awaits' = awaits /\ a \notin OptionWords
      \/ /\ a \in OptionWords /\ parsed' = "error" /\ awaits' = awaits
         /\ (seen.control /\ a # "-i") \/ Line!Duplicate(a)
      \/ /\ a \in OptionWords /\ parsed' = parsed /\ awaits' = a
         /\ ~(seen.control /\ a # "-i") /\ ~Line!Duplicate(a)
  BY DEF Line!Option, OptionWords
<1>5. LineTypes'
  BY <1>1, <1>2, <1>3, <1>4 DEF LineTypes
<1>6. CASE seen.control
  <2>1. ControlInv
    BY <1>1, <1>6 DEF LineInv
  <2>2. Len(argv) >= 1 /\ argv'[1] = argv[1]
    BY <1>2, <1>3, <2>1 DEF ControlInv
  <2>3. argv'[1] \in Line!Commands /\ Len(argv') >= 2
    BY <1>3, <2>1, <2>2 DEF ControlInv
  <2>4. CASE parsed' = "parsing"
    <3>1. awaits' = "-i"
      BY <1>4, <1>6, <2>4
    <3>2. ControlInv'
      BY <1>1, <1>3, <2>1, <2>2, <2>3, <3>1 DEF ControlInv
    <3>. QED  BY <1>1, <1>5, <1>6, <2>4, <3>1, <3>2, StillParsing
  <2>5. CASE parsed' # "parsing"
    <3>1. Hopeless(argv')
      BY <2>3 DEF Hopeless
    <3>2. parsed' \in {"error", "help"}
      BY <1>1, <1>4, <2>5
    <3>. QED  BY <1>5, <3>1, <3>2, IsRefused
  <2>. QED  BY <2>4, <2>5
<1>7. CASE ~seen.control
  <2>1. TurnInv /\ SeenInv /\ FieldInv
    BY <1>1, <1>7 DEF LineInv
  <2>2. Len(argv) % 2 = 0
    BY <1>1, <2>1 DEF TurnInv
  <2>3. argv'[1] \notin Line!Commands
    <3>1. CASE argv = <<>>
      BY <1>1, <1>3, <3>1
    <3>2. CASE argv # <<>>
      <4>1. 1 \in 1 .. Len(argv)
        BY <1>2, <3>2
      <4>. QED  BY <1>3, <2>1, <3>2, <4>1 DEF TurnInv
    <3>. QED  BY <3>1, <3>2
  <2>4. /\ \A o : GivenIn(argv', o) = GivenIn(argv, o)
        /\ \A os : OnesIn(argv', os) = OnesIn(argv, os)
        /\ \A o, v, d : LastIn(argv, o, v, d) => LastIn(argv', o, v, d)
        /\ \A k \in 1 .. Len(argv) \div 2 :
              argv'[2 * k] = argv[2 * k] /\ argv'[2 * k - 1] = argv[2 * k - 1]
        /\ Len(argv') \div 2 = Len(argv) \div 2 /\ Len(argv') % 2 = 1
    BY <1>1, <1>2, <2>2, OptionAdded
  <2>5. Len(argv) + 1 \in 1 .. Len(argv') /\ (Len(argv) + 1) % 2 = 1
    BY <1>3, <2>2
  <2>6. CASE a \notin OptionWords
    <3>1. Hopeless(argv')
      BY <1>3, <2>3, <2>5, <2>6 DEF Hopeless
    <3>. QED  BY <1>4, <1>5, <2>6, <3>1, IsRefused
  <2>7. CASE a \in OptionWords /\ parsed' = "error"
    <3>1. Line!Duplicate(a)
      BY <1>1, <1>4, <1>7, <2>7
    <3>2. a \in {"-d", "-o"} \cup Line!Actions /\ GivenIn(argv, a) # {}
      BY <2>1, <3>1, LineNames DEF SeenInv, Line!Duplicate
    <3>3. PICK k \in 1 .. Len(argv) \div 2 : argv[2 * k - 1] = a
      BY <3>2 DEF GivenIn
    <3>. DEFINE i == 2 * k - 1  j == Len(argv) + 1
    <3>4. i \in 1 .. Len(argv') /\ i % 2 = 1 /\ i < j
      BY <1>3, <2>2
    <3>5. argv'[i] = a /\ argv'[j] = a
      BY <1>3, <2>4, <3>3
    <3>6. \E u, v \in 1 .. Len(argv') :
                /\ u % 2 = 1 /\ v % 2 = 1 /\ u < v /\ argv'[u] = argv'[v]
                /\ argv'[u] \in {"-d", "-o"} \cup Line!Actions
      <4>. HIDE DEF i, j
      <4>1. j \in 1 .. Len(argv') /\ j % 2 = 1
        BY <2>5 DEF j
      <4>. QED  BY <3>2, <3>4, <3>5, <4>1
    <3>7. Hopeless(argv')
      BY <1>3, <2>3, <3>6 DEF Hopeless
    <3>. QED  BY <1>5, <2>7, <3>7, IsRefused
  <2>8. CASE a \in OptionWords /\ parsed' # "error"
    <3>1. parsed' = "parsing" /\ awaits' = a /\ ~Line!Duplicate(a) /\ a # "null" /\ a # "end"
      BY <1>1, <1>4, <2>8, LineNames
    <3>2. TurnInv'
      <4>1. (awaits' = "null") <=> (Len(argv') % 2 = 0)
        BY <2>4, <3>1
      <4>2. argv'[Len(argv')] = awaits' /\ ~Line!Duplicate(awaits)'
        BY <1>1, <1>3, <3>1 DEF Line!Duplicate
      <4>3. \A k \in 1 .. Len(argv') \div 2 : argv'[2 * k - 1] \in OptionWords
        BY <2>1, <2>4 DEF TurnInv
      <4>4. \A k \in GivenIn(argv', "-p") : argv'[2 * k] \in MCPorts
        <5>1. \A k \in GivenIn(argv, "-p") : k \in 1 .. Len(argv) \div 2
          BY DEF GivenIn
        <5>. QED  BY <2>1, <2>4, <5>1 DEF TurnInv
      <4>. QED  BY <2>3, <4>1, <4>2, <4>3, <4>4 DEF TurnInv
    <3>3. SeenInv'
      BY <1>1, <2>1, <2>4 DEF SeenInv
    <3>4. FieldInv'
      BY <1>1, <2>1, <2>4 DEF FieldInv
    <3>. QED  BY <1>1, <1>5, <1>7, <3>1, <3>2, <3>3, <3>4, StillParsing
  <2>. QED  BY <2>6, <2>7, <2>8
<1>. QED  BY <1>6, <1>7

\* The value of an option: what each case does with it.
LEMMA ValueEffects ==
    ASSUME LineTypes, NEW a \in Line!Args, Line!Value(a)
    PROVE  /\ parsed = "parsing" /\ awaits # "null" /\ argv' = Append(argv, a) /\ awaits' = "null"
           /\ awaits \in OptionWords
           /\ parsed' = IF awaits = "-p" /\ a \notin MCPorts THEN "error" ELSE "parsing"
           /\ seen'.control = seen.control
           /\ seen'.server = (seen.server \/ awaits = "-d")
           /\ seen'.output = (seen.output \/ awaits = "-o")
           /\ seen'.ip = (seen.ip \/ awaits = "-i")
           /\ seen'.actions = IF awaits \in Line!Actions THEN seen.actions + 1 ELSE seen.actions
           /\ seen'.action = IF awaits \in Line!Actions THEN awaits ELSE seen.action
           /\ opt'.output = IF awaits = "-o" THEN a ELSE opt.output
           /\ opt'.remote = IF awaits = "-g" THEN a ELSE opt.remote
           /\ opt'.ip = IF awaits = "-i" THEN a ELSE opt.ip
           /\ opt'.port = IF awaits = "-p" /\ a \in MCPorts THEN a ELSE opt.port
           /\ opt'.path = IF awaits \in {"-d", "-c"} THEN a
                          ELSE IF awaits = "-m" THEN "null" ELSE opt.path
           /\ opt'.message = IF awaits = "-m" THEN a
                             ELSE IF awaits = "-c" THEN "null" ELSE opt.message
           /\ awaits \in {"-i", "-p", "-o"} => opt'.mode = opt.mode
           /\ LineTypes'
<1>1. /\ parsed = "parsing" /\ awaits # "null" /\ argv' = Append(argv, a) /\ awaits' = "null"
  BY DEF Line!Value, Line!Reads, Line!Null
<1>2. /\ argv' \in Seq(Line!Args) /\ a \in LineWords /\ "null" \in LineWords
      /\ "server" \in LineWords /\ "client" \in LineWords
  BY <1>1, Appended, LineNames DEF LineTypes, LineWords
<1>3. CASE awaits = "-d"
  <2>1. /\ opt' = [opt EXCEPT !.path = a, !.mode = "server"]
        /\ seen' = [seen EXCEPT !.server = TRUE] /\ parsed' = parsed
    BY <1>3 DEF Line!Value, Line!Actions
  <2>. QED  BY <1>1, <1>2, <1>3, <2>1, LineNames DEF LineTypes
<1>4. CASE awaits = "-o"
  <2>1. opt' = [opt EXCEPT !.output = a] /\ seen' = [seen EXCEPT !.output = TRUE] /\ parsed' = parsed
    BY <1>4 DEF Line!Value, Line!Actions
  <2>. QED  BY <1>1, <1>2, <1>4, <2>1, LineNames DEF LineTypes
<1>5. CASE awaits = "-i"
  <2>1. opt' = [opt EXCEPT !.ip = a] /\ seen' = [seen EXCEPT !.ip = TRUE] /\ parsed' = parsed
    BY <1>5 DEF Line!Value, Line!Actions
  <2>. QED  BY <1>1, <1>2, <1>5, <2>1, LineNames DEF LineTypes
<1>6. CASE awaits = "-p"
  <2>1. /\ seen' = seen
        /\ a \in MCPorts => opt' = [opt EXCEPT !.port = a] /\ parsed' = parsed
        /\ a \notin MCPorts => opt' = opt /\ parsed' = "error"
    BY <1>6 DEF Line!Value, Line!Actions
  <2>2. CASE a \in MCPorts
    BY <1>1, <1>2, <1>6, <2>1, <2>2, LineNames DEF LineTypes
  <2>3. CASE a \notin MCPorts
    BY <1>1, <1>2, <1>6, <2>1, <2>3, LineNames DEF LineTypes
  <2>. QED  BY <2>2, <2>3
<1>7. CASE awaits \in Line!Actions
  <2>1. Line!Acts(awaits, a)
    BY <1>7 DEF Line!Value, Line!Actions
  <2>2. seen' = [seen EXCEPT !.actions = @ + 1, !.action = awaits] /\ parsed' = parsed
    BY <2>1 DEF Line!Acts
  <2>3. /\ awaits = "-c" => opt' = [[opt EXCEPT !.mode = "client", !.type = awaits]
                                       EXCEPT !.path = a, !.message = "null"]
        /\ awaits = "-g" => opt' = [[opt EXCEPT !.mode = "client", !.type = awaits]
                                       EXCEPT !.remote = a]
        /\ awaits = "-m" => opt' = [[opt EXCEPT !.mode = "client", !.type = awaits]
                                       EXCEPT !.path = "null", !.message = a]
    BY <2>1 DEF Line!Acts, Line!Null
  <2>4. awaits \in LineWords
    BY <1>7 DEF LineWords, Line!Args, Line!Options, Line!Actions
  <2>5. /\ seen'.control = seen.control /\ seen'.server = seen.server
        /\ seen'.output = seen.output /\ seen'.ip = seen.ip
        /\ seen'.actions = seen.actions + 1 /\ seen'.action = awaits /\ parsed' = parsed
        /\ seen' \in [server : BOOLEAN, actions : Nat, action : Line!Actions \cup {"null"},
                      output : BOOLEAN, ip : BOOLEAN, control : BOOLEAN]
        /\ seen.server \in BOOLEAN /\ seen.output \in BOOLEAN /\ seen.ip \in BOOLEAN
    <3>1. seen \in [server : BOOLEAN, actions : Nat, action : Line!Actions \cup {"null"},
                    output : BOOLEAN, ip : BOOLEAN, control : BOOLEAN]
      BY DEF LineTypes
    <3>. DEFINE A == Line!Actions \cup {"null"}  n == seen.actions + 1
    <3>2. awaits \in A /\ n \in Nat
      BY <1>7, <3>1
    <3>3. seen' = [seen EXCEPT !.actions = n, !.action = awaits]
      BY <2>2, <3>1
    <3>. HIDE DEF A, n
    <3>4. /\ seen'.control = seen.control /\ seen'.server = seen.server
          /\ seen'.output = seen.output /\ seen'.ip = seen.ip
          /\ seen'.actions = n /\ seen'.action = awaits
      BY ONLY <3>1, <3>3
    <3>5. seen' \in [server : BOOLEAN, actions : Nat, action : A,
                      output : BOOLEAN, ip : BOOLEAN, control : BOOLEAN]
      BY <3>1, <3>2, <3>3 DEF A
    <3>. QED  BY <2>2, <3>1, <3>4, <3>5 DEF A, n
  <2>6. CASE awaits = "-c"
    <3>1. opt' = [opt EXCEPT !.mode = "client", !.type = "-c", !.path = a, !.message = "null"]
      BY <2>3, <2>6 DEF LineTypes
    <3>2. /\ opt'.path = a /\ opt'.message = "null" /\ opt'.remote = opt.remote
          /\ opt'.output = opt.output /\ opt'.ip = opt.ip /\ opt'.port = opt.port
      BY <3>1 DEF LineTypes
    <3>3. opt' \in [mode : LineWords, path : LineWords, remote : LineWords, output : LineWords,
                    message : LineWords, ip : LineWords, port : LineWords, type : LineWords]
      BY <1>2, <2>4, <2>6, <3>1 DEF LineTypes
    <3>. QED  BY <1>1, <1>2, <2>5, <2>6, <3>2, <3>3, LineNames DEF LineTypes
  <2>7. CASE awaits = "-g"
    <3>1. opt' = [opt EXCEPT !.mode = "client", !.type = "-g", !.remote = a]
      BY <2>3, <2>7 DEF LineTypes
    <3>2. /\ opt'.path = opt.path /\ opt'.message = opt.message /\ opt'.remote = a
          /\ opt'.output = opt.output /\ opt'.ip = opt.ip /\ opt'.port = opt.port
      BY <3>1 DEF LineTypes
    <3>3. opt' \in [mode : LineWords, path : LineWords, remote : LineWords, output : LineWords,
                    message : LineWords, ip : LineWords, port : LineWords, type : LineWords]
      BY <1>2, <2>4, <2>7, <3>1 DEF LineTypes
    <3>. QED  BY <1>1, <1>2, <2>5, <2>7, <3>2, <3>3, LineNames DEF LineTypes
  <2>8. CASE awaits = "-m"
    <3>1. opt' = [opt EXCEPT !.mode = "client", !.type = "-m", !.path = "null", !.message = a]
      BY <2>3, <2>8 DEF LineTypes
    <3>2. /\ opt'.path = "null" /\ opt'.message = a /\ opt'.remote = opt.remote
          /\ opt'.output = opt.output /\ opt'.ip = opt.ip /\ opt'.port = opt.port
      BY <3>1 DEF LineTypes
    <3>3. opt' \in [mode : LineWords, path : LineWords, remote : LineWords, output : LineWords,
                    message : LineWords, ip : LineWords, port : LineWords, type : LineWords]
      BY <1>2, <2>4, <2>8, <3>1 DEF LineTypes
    <3>. QED  BY <1>1, <1>2, <2>5, <2>8, <3>2, <3>3, LineNames DEF LineTypes
  <2>. QED  BY <1>7, <2>6, <2>7, <2>8 DEF Line!Actions
<1>. QED  BY <1>3, <1>4, <1>5, <1>6, <1>7 DEF Line!Value

\* Reading the value of an option keeps the invariant.
LEMMA ValueStep ==
    ASSUME LineInv, NEW a \in Line!Args, Line!Value(a)
    PROVE  LineInv'
<1>. DEFINE w == argv[Len(argv)]  m == Len(argv) \div 2 + 1
<1>0. LineTypes /\ argv \in Seq(Line!Args)
  BY DEF LineInv, LineTypes
<1>1. /\ parsed = "parsing" /\ awaits # "null" /\ argv' = Append(argv, a) /\ awaits' = "null"
      /\ awaits \in OptionWords
      /\ parsed' = IF awaits = "-p" /\ a \notin MCPorts THEN "error" ELSE "parsing"
      /\ seen'.control = seen.control
      /\ LineTypes'
  BY <1>0, ValueEffects
<1>2. /\ seen'.server = (seen.server \/ awaits = "-d")
      /\ seen'.output = (seen.output \/ awaits = "-o")
      /\ seen'.ip = (seen.ip \/ awaits = "-i")
      /\ seen'.actions = IF awaits \in Line!Actions THEN seen.actions + 1 ELSE seen.actions
      /\ seen'.action = IF awaits \in Line!Actions THEN awaits ELSE seen.action
  BY <1>0, ValueEffects
<1>3. /\ opt'.output = IF awaits = "-o" THEN a ELSE opt.output
      /\ opt'.remote = IF awaits = "-g" THEN a ELSE opt.remote
      /\ opt'.ip = IF awaits = "-i" THEN a ELSE opt.ip
      /\ opt'.port = IF awaits = "-p" /\ a \in MCPorts THEN a ELSE opt.port
      /\ opt'.path = IF awaits \in {"-d", "-c"} THEN a
                     ELSE IF awaits = "-m" THEN "null" ELSE opt.path
      /\ opt'.message = IF awaits = "-m" THEN a
                        ELSE IF awaits = "-c" THEN "null" ELSE opt.message
      /\ awaits \in {"-i", "-p", "-o"} => opt'.mode = opt.mode
  BY <1>0, ValueEffects
<1>4. /\ argv' \in Seq(Line!Args) /\ Len(argv') = Len(argv) + 1 /\ Len(argv) \in Nat
      /\ argv' # <<>> /\ \A i \in 1 .. Len(argv) : argv'[i] = argv[i]
      /\ argv'[Len(argv) + 1] = a
  BY <1>0, <1>1, Appended
<1>5. CASE seen.control
  <2>1. ControlInv
    BY <1>1, <1>5 DEF LineInv
  <2>2. awaits = "-i"
    BY <1>1, <2>1 DEF ControlInv
  <2>3. Len(argv) >= 1 /\ argv'[1] = argv[1]
    BY <1>0, <1>4, <2>1 DEF ControlInv
  <2>4. /\ parsed' = "parsing" /\ seen'.ip /\ ~seen'.server
        /\ ~seen'.output /\ seen'.actions = 0 /\ seen'.action = "null"
    BY <1>1, <1>2, <2>1, <2>2, LineNames DEF ControlInv
  <2>5. /\ opt'.mode = opt.mode /\ opt'.path = opt.path /\ opt'.remote = opt.remote
        /\ opt'.output = opt.output /\ opt'.message = opt.message /\ opt'.port = opt.port
    BY <1>3, <2>2
  <2>6. ControlInv'
    BY <1>1, <1>4, <2>1, <2>3, <2>4, <2>5 DEF ControlInv
  <2>. QED  BY <1>1, <1>5, <2>4, <2>6, StillParsing
<1>6. CASE ~seen.control
  <2>1. TurnInv /\ SeenInv /\ FieldInv
    BY <1>1, <1>6 DEF LineInv
  <2>2. Len(argv) % 2 = 1 /\ w = awaits /\ ~Line!Duplicate(awaits) /\ argv # <<>>
    BY <1>0, <1>1, <2>1 DEF TurnInv
  <2>3. argv'[1] \notin Line!Commands
    BY <1>0, <1>4, <2>1, <2>2 DEF TurnInv
  <2>4. /\ Len(argv') \div 2 = m /\ Len(argv') % 2 = 0 /\ m \in Nat /\ Len(argv) = 2 * m - 1
        /\ argv'[2 * m - 1] = awaits /\ argv'[2 * m] = a
        /\ \A k \in 1 .. m - 1 : argv'[2 * k] = argv[2 * k] /\ argv'[2 * k - 1] = argv[2 * k - 1]
        /\ \A o, k : k \in GivenIn(argv', o) <=> k \in GivenIn(argv, o) \/ (o = awaits /\ k = m)
        /\ \A os : /\ awaits \notin os => OnesIn(argv', os) = OnesIn(argv, os)
                   /\ awaits \in os => OnesIn(argv', os) = OnesIn(argv, os) \cup {m}
        /\ \A o, v, d : o # awaits /\ LastIn(argv, o, v, d) => LastIn(argv', o, v, d)
        /\ \A d : LastIn(argv', awaits, a, d)
        /\ \A os : m \notin OnesIn(argv, os)
    <3>. DEFINE y == Append(argv, a)
    <3>1. /\ Len(y) \div 2 = m /\ Len(y) % 2 = 0 /\ m \in Nat /\ Len(argv) = 2 * m - 1
          /\ y[2 * m - 1] = w /\ y[2 * m] = a
          /\ \A k \in 1 .. m - 1 : y[2 * k] = argv[2 * k] /\ y[2 * k - 1] = argv[2 * k - 1]
          /\ \A o, k : k \in GivenIn(y, o) <=> k \in GivenIn(argv, o) \/ (o = w /\ k = m)
          /\ \A os : /\ w \notin os => OnesIn(y, os) = OnesIn(argv, os)
                     /\ w \in os => OnesIn(y, os) = OnesIn(argv, os) \cup {m}
          /\ \A o, v, d : o # w /\ LastIn(argv, o, v, d) => LastIn(y, o, v, d)
          /\ \A d : LastIn(y, w, a, d)
          /\ \A os : m \notin OnesIn(argv, os)
      BY <1>0, <2>2, ValueAdded
    <3>3. y = argv'
      BY <1>1
    <3>2. w = awaits
      BY <2>2
    <3>. HIDE DEF w, m, y
    <3>. QED  BY <3>1, <3>2, <3>3
  <2>5. m \in 1 .. Len(argv') /\ Len(argv) \div 2 = m - 1
    BY <1>4, <2>4
  <2>. HIDE DEF w, m
  <2>6. CASE awaits = "-p" /\ a \notin MCPorts
    <3>1. Len(argv') = 2 * m /\ 2 * m \in 1 .. Len(argv') /\ (2 * m) % 2 = 0
      BY <1>4, <2>4, <2>5
    <3>2. \E i \in 1 .. Len(argv') : i % 2 = 0 /\ argv'[i - 1] = "-p" /\ argv'[i] \notin MCPorts
      BY <2>4, <2>6, <3>1
    <3>3. Hopeless(argv')
      BY <1>4, <2>3, <3>2 DEF Hopeless
    <3>. QED  BY <1>1, <2>6, <3>3, IsRefused
  <2>7. CASE ~(awaits = "-p" /\ a \notin MCPorts)
    <3>0. parsed' = "parsing"
      BY <1>1, <2>7
    <3>1. TurnInv'
      <4>1. \A k \in 1 .. Len(argv') \div 2 : argv'[2 * k - 1] \in OptionWords
        <5>1. \A k \in 1 .. m : k \in 1 .. m - 1 \/ k = m
          BY <2>4
        <5>. QED  BY <1>1, <2>1, <2>4, <2>5, <5>1 DEF TurnInv
      <4>2. \A k \in GivenIn(argv', "-p") : argv'[2 * k] \in MCPorts
        <5>1. \A k \in GivenIn(argv, "-p") : k \in 1 .. m - 1
          BY <2>5 DEF GivenIn
        <5>. QED  BY <2>1, <2>4, <2>7, <5>1 DEF TurnInv
      <4>. QED  BY <1>1, <2>3, <2>4, <4>1, <4>2 DEF TurnInv
    <3>2. SeenInv'
      <4>1. /\ seen'.server <=> GivenIn(argv', "-d") # {}
            /\ seen'.output <=> GivenIn(argv', "-o") # {}
            /\ seen'.ip <=> GivenIn(argv', "-i") # {}
        <5>1. \A o : GivenIn(argv', o) # {} <=> GivenIn(argv, o) # {} \/ o = awaits
          BY <2>4
        <5>. QED  BY <1>2, <2>1, <5>1 DEF SeenInv
      <4>2. ASSUME NEW o \in {"-d", "-o"}, NEW j \in GivenIn(argv', o), NEW k \in GivenIn(argv', o)
            PROVE  j = k
        <5>1. o = awaits => GivenIn(argv, o) = {}
          BY <2>1, <2>2 DEF SeenInv, Line!Duplicate
        <5>2. \A i, l \in GivenIn(argv, o) : i = l
          BY <2>1 DEF SeenInv
        <5>. QED  BY <2>4, <5>1, <5>2
      <4>3. seen'.actions = Cardinality(OnesIn(argv', Line!Actions))
        <5>1. CASE awaits \in Line!Actions
          <6>1. OnesIn(argv', Line!Actions) = OnesIn(argv, Line!Actions) \cup {m}
                /\ m \notin OnesIn(argv, Line!Actions)
            BY <2>4, <5>1
          <6>2. IsFiniteSet(OnesIn(argv, Line!Actions))
            BY <1>0, Counts
          <6>3. Cardinality(OnesIn(argv', Line!Actions)) = Cardinality(OnesIn(argv, Line!Actions)) + 1
            BY <6>1, <6>2, FS_AddElement
          <6>. QED  BY <1>2, <2>1, <5>1, <6>3 DEF SeenInv
        <5>2. CASE awaits \notin Line!Actions
          BY <1>2, <2>1, <2>4, <5>2 DEF SeenInv
        <5>. QED  BY <5>1, <5>2
      <4>4. seen'.action = "null" <=> seen'.actions = 0
        <5>1. seen.actions \in Nat
          BY <1>0 DEF LineTypes
        <5>. QED  BY <1>1, <1>2, <2>1, <5>1 DEF SeenInv
      <4>5. seen'.action # "null" => GivenIn(argv', seen'.action) # {}
        <5>1. CASE awaits \in Line!Actions
          <6>1. seen'.action = awaits
            BY <1>2, <5>1
          <6>2. m \in GivenIn(argv', awaits)
            BY <2>4
          <6>. QED  BY <6>1, <6>2
        <5>2. CASE awaits \notin Line!Actions
          <6>1. seen'.action = seen.action
            BY <1>2, <5>2
          <6>2. \A o : GivenIn(argv, o) # {} => GivenIn(argv', o) # {}
            BY <2>4
          <6>. QED  BY <2>1, <6>1, <6>2 DEF SeenInv
        <5>. QED  BY <5>1, <5>2
      <4>. QED  BY <4>1, <4>2, <4>3, <4>4, <4>5 DEF SeenInv
    <3>3. FieldInv'
      <4>1. LastIn(argv', "-o", opt'.output, "null") /\ LastIn(argv', "-g", opt'.remote, "null")
        BY <1>3, <2>1, <2>4 DEF FieldInv
      <4>2. LastIn(argv', "-i", opt'.ip, "127.0.0.1") /\ LastIn(argv', "-p", opt'.port, "8888")
        BY <1>3, <2>1, <2>4, <2>7 DEF FieldInv
      <4>3. ASSUME seen'.actions = 0
            PROVE  opt'.message = "null" /\ LastIn(argv', "-d", opt'.path, "null")
        <5>1. awaits \notin Line!Actions /\ seen.actions = 0
          <6>1. seen.actions \in Nat
            BY <1>0 DEF LineTypes
          <6>. QED  BY <1>2, <4>3, <6>1
        <5>2. opt'.message = opt.message /\ opt.message = "null"
          BY <1>3, <2>1, <5>1, LineNames DEF FieldInv
        <5>3. opt'.path = IF awaits = "-d" THEN a ELSE opt.path
          BY <1>3, <5>1, LineNames
        <5>4. LastIn(argv, "-d", opt.path, "null")
          BY <2>1, <5>1 DEF FieldInv
        <5>. QED  BY <2>4, <5>2, <5>3, <5>4
      <4>4. ASSUME ~seen'.server, seen'.actions = 1
            PROVE  LastIn(argv', "-c", opt'.path, "null") /\ LastIn(argv', "-m", opt'.message, "null")
        <5>1. ~seen.server /\ awaits # "-d"
          BY <1>2, <4>4
        <5>2. CASE awaits \notin Line!Actions
          <6>1. seen.actions = 1 /\ opt'.path = opt.path /\ opt'.message = opt.message
            BY <1>2, <1>3, <4>4, <5>1, <5>2, LineNames
          <6>2. LastIn(argv, "-c", opt.path, "null") /\ LastIn(argv, "-m", opt.message, "null")
            BY <2>1, <5>1, <6>1 DEF FieldInv
          <6>. QED  BY <2>4, <5>2, <6>1, <6>2, LineNames
        <5>3. CASE awaits \in Line!Actions
          <6>1. seen.actions = 0
            <7>1. seen.actions \in Nat
              BY <1>0 DEF LineTypes
            <7>. QED  BY <1>2, <4>4, <5>3, <7>1
          <6>2. OnesIn(argv, Line!Actions) = {}
            BY <1>0, <2>1, <6>1, Counts DEF SeenInv
          <6>3. GivenIn(argv, "-c") = {} /\ GivenIn(argv, "-m") = {}
            BY <6>2, LineNames DEF GivenIn, OnesIn
          <6>4. GivenIn(argv, "-d") = {} /\ opt.message = "null" /\ LastIn(argv, "-d", opt.path, "null")
            BY <2>1, <5>1, <6>1 DEF SeenInv, FieldInv
          <6>5. opt.path = "null"
            BY <6>4 DEF LastIn
          <6>6. LastIn(argv, "-c", "null", "null") /\ LastIn(argv, "-m", "null", "null")
            BY <6>3 DEF LastIn
          <6>7. opt'.path = (IF awaits = "-c" THEN a ELSE "null")
                /\ opt'.message = (IF awaits = "-m" THEN a ELSE "null")
            BY <1>3, <5>1, <6>4, <6>5
          <6>. QED  BY <2>4, <6>6, <6>7
        <5>. QED  BY <5>2, <5>3
      <4>. QED  BY <4>1, <4>2, <4>3, <4>4 DEF FieldInv
    <3>. QED  BY <1>1, <1>6, <3>0, <3>1, <3>2, <3>3, StillParsing
  <2>. QED  BY <2>6, <2>7
<1>. QED  BY <1>5, <1>6

\* The checks after the loop let through the command lines of the usage text.
LEMMA ConsistentIsUsage ==
    ASSUME LineTypes, TurnInv, SeenInv, FieldInv, ~seen.control, awaits = "null"
    PROVE  /\ Line!Consistent <=> UsageOf(argv)
           /\ Line!Consistent =>
                (seen.server /\ seen.actions = 0) \/ (~seen.server /\ seen.actions = 1)
<1>0. argv \in Seq(Line!Args) /\ Len(argv) \in Nat /\ seen.actions \in Nat
      /\ seen.server \in BOOLEAN /\ seen.output \in BOOLEAN /\ seen.ip \in BOOLEAN
      /\ seen.action \in Line!Actions \cup {"null"}
  BY DEF LineTypes
<1>. DEFINE C(os) == Cardinality(OnesIn(argv, os))  G(o) == GivenIn(argv, o)
<1>1. Len(argv) % 2 = 0 /\ (Len(argv) > 0 => argv[1] \notin Line!Commands)
  BY <1>0 DEF TurnInv
<1>2. ASSUME NEW o PROVE OnesIn(argv, {o}) = G(o)
  BY DEF OnesIn, GivenIn
<1>3. ASSUME NEW os
      PROVE  /\ C(os) \in Nat /\ (C(os) = 0 <=> OnesIn(argv, os) = {})
             /\ (C(os) = 1 <=> \E k : OnesIn(argv, os) = {k})
  BY <1>0, Counts
<1>4. /\ seen.server <=> G("-d") # {}
      /\ seen.output <=> G("-o") # {}
      /\ seen.ip <=> G("-i") # {}
      /\ \A o \in {"-d", "-o"} : \A j, k \in G(o) : j = k
      /\ seen.actions = C(Line!Actions)
      /\ seen.action = "null" <=> seen.actions = 0
      /\ seen.action # "null" => G(seen.action) # {}
  BY DEF SeenInv
<1>5. ASSUME NEW o \in {"-d", "-o"}, G(o) # {} PROVE C({o}) = 1
  <2>1. PICK k : k \in G(o)
    BY <1>5
  <2>2. G(o) = {k}
    BY <1>4, <2>1
  <2>. QED  BY <1>2, <1>3, <2>2
<1>6. ASSUME NEW o PROVE C({o}) = 0 <=> G(o) = {}
  BY <1>2, <1>3
<1>7. ASSUME NEW o, NEW v, NEW d, LastIn(argv, o, v, d), G(o) # {} PROVE v \in Line!Args
  <2>1. PICK k \in G(o) : v = argv[2 * k]
    BY <1>7 DEF LastIn
  <2>2. 2 * k \in 1 .. Len(argv)
    BY <1>0, <2>1 DEF GivenIn
  <2>. QED  BY <1>0, <2>1, <2>2
<1>8. ASSUME NEW o \in Line!Actions PROVE G(o) \subseteq OnesIn(argv, Line!Actions)
  BY DEF GivenIn, OnesIn
<1>9. ASSUME NEW o, NEW p, NEW k, k \in G(o), k \in G(p) PROVE o = p
  BY <1>9 DEF GivenIn
<1>10. \A a \in Line!Args : a # "null"
  BY LineNames
<1>11. OnesIn(argv, Line!Actions \cup {"-o", "-i"}) = OnesIn(argv, Line!Actions) \cup G("-o") \cup G("-i")
  BY DEF OnesIn, GivenIn
<1>12. Len(argv) = 0 => \A o : G(o) = {}
  BY DEF GivenIn
<1>13. Len(argv) = 0 => OnesIn(argv, Line!Actions) = {}
  BY DEF OnesIn
<1>14. /\ \A k \in 1 .. Len(argv) \div 2 : argv[2 * k - 1] \in OptionWords
       /\ \A k \in G("-p") : argv[2 * k] \in MCPorts
  BY DEF TurnInv
<1>15. UsageOf(argv) <=>
         /\ Len(argv) > 0
         /\ \/ C({"-d"}) = 1 /\ C(Line!Actions \cup {"-o", "-i"}) = 0
            \/ C({"-d"}) = 0 /\ C(Line!Actions) = 1 /\ C({"-o"}) <= C({"-g"})
  BY <1>1, <1>14 DEF UsageOf
<1>16. Line!Mode = IF seen.server THEN "server" ELSE "client"
  BY DEF Line!Mode
<1>17. Line!Consistent <=>
         /\ seen.output => seen.action = "-g"
         /\ seen.server \/ seen.actions > 0
         /\ ~(seen.server /\ seen.actions > 0)
         /\ seen.actions <= 1
         /\ seen.server => opt.path # "null"
         /\ ~seen.server /\ seen.action = "-c" => opt.path # "null"
         /\ ~seen.server /\ seen.action = "-g" => opt.remote # "null"
         /\ ~seen.server /\ seen.action = "-m" => opt.message # "null"
         /\ seen.ip => ~seen.server
  BY <1>16 DEF Line!Consistent, Line!Null
<1>18. /\ LastIn(argv, "-g", opt.remote, "null")
       /\ seen.actions = 0 => LastIn(argv, "-d", opt.path, "null")
       /\ ~seen.server /\ seen.actions = 1 =>
              LastIn(argv, "-c", opt.path, "null") /\ LastIn(argv, "-m", opt.message, "null")
  BY DEF FieldInv
<1>. HIDE DEF C, G
<1>19. CASE seen.server
  <2>1. C({"-d"}) = 1 /\ G("-d") # {} /\ Len(argv) > 0
    BY <1>0, <1>4, <1>5, <1>12, <1>19
  <2>2. UsageOf(argv) <=> C(Line!Actions \cup {"-o", "-i"}) = 0
    BY <1>15, <2>1
  <2>3. C(Line!Actions \cup {"-o", "-i"}) = 0 <=> seen.actions = 0 /\ ~seen.output /\ ~seen.ip
    <3>1. C(Line!Actions \cup {"-o", "-i"}) = 0
            <=> OnesIn(argv, Line!Actions) \cup G("-o") \cup G("-i") = {}
      BY <1>3, <1>11
    <3>2. seen.actions = 0 <=> OnesIn(argv, Line!Actions) = {}
      BY <1>3, <1>4
    <3>. QED  BY <1>4, <3>1, <3>2
  <2>4. seen.actions = 0 => opt.path # "null"
    BY <1>7, <1>10, <1>18, <2>1
  <2>5. Line!Consistent <=> seen.actions = 0 /\ ~seen.output /\ ~seen.ip
    BY <1>0, <1>4, <1>17, <1>19, <2>4
  <2>. QED  BY <1>19, <2>2, <2>3, <2>5
<1>20. CASE ~seen.server
  <2>1. C({"-d"}) = 0
    BY <1>4, <1>6, <1>20
  <2>2. UsageOf(argv) <=> seen.actions = 1 /\ C({"-o"}) <= C({"-g"})
    <3>1. seen.actions = 1 => Len(argv) > 0
      <4>1. Len(argv) = 0 => C(Line!Actions) = 0
        BY <1>3, <1>13
      <4>2. Len(argv) # 0 => Len(argv) > 0
        BY <1>0
      <4>. QED  BY <1>4, <4>1, <4>2
    <3>. QED  BY <1>4, <1>15, <2>1, <3>1
  <2>3. ASSUME seen.actions = 1
        PROVE  /\ seen.action \in Line!Actions /\ G(seen.action) # {}
               /\ \A o \in Line!Actions : G(o) # {} => o = seen.action
    <3>1. seen.action \in Line!Actions /\ G(seen.action) # {}
      BY <1>0, <1>4, <2>3
    <3>2. PICK k : OnesIn(argv, Line!Actions) = {k}
      BY <1>3, <1>4, <2>3
    <3>3. ASSUME NEW o \in Line!Actions, G(o) # {} PROVE k \in G(o)
      BY <1>8, <3>2, <3>3
    <3>4. ASSUME NEW o \in Line!Actions, G(o) # {} PROVE o = seen.action
      BY <1>9, <3>1, <3>3, <3>4
    <3>. QED  BY <3>1, <3>4
  <2>4. ASSUME seen.actions = 1
        PROVE  C({"-o"}) <= C({"-g"}) <=> (seen.output => seen.action = "-g")
    <3>1. C({"-g"}) \in Nat /\ C({"-o"}) \in Nat
      BY <1>3
    <3>2. "-g" \in Line!Actions
      BY LineNames
    <3>3. CASE seen.output
      <4>1. C({"-o"}) = 1
        BY <1>4, <1>5, <3>3
      <4>2. C({"-g"}) # 0 <=> seen.action = "-g"
        BY <1>6, <2>3, <2>4, <3>2
      <4>. QED  BY <3>1, <3>3, <4>1, <4>2
    <3>4. CASE ~seen.output
      <4>1. C({"-o"}) = 0
        BY <1>4, <1>6, <3>4
      <4>. QED  BY <3>1, <3>4, <4>1
    <3>. QED  BY <3>3, <3>4
  <2>5. ASSUME seen.actions = 1
        PROVE  /\ seen.action = "-c" => opt.path # "null"
               /\ seen.action = "-g" => opt.remote # "null"
               /\ seen.action = "-m" => opt.message # "null"
    BY <1>7, <1>10, <1>18, <1>20, <2>3, <2>5
  <2>6. Line!Consistent <=> seen.actions = 1 /\ (seen.output => seen.action = "-g")
    BY <1>0, <1>17, <1>20, <2>5
  <2>. QED  BY <1>20, <2>2, <2>4, <2>6
<1>. QED  BY <1>19, <1>20

\* The end of the arguments.
LEMMA EndStep ==
    ASSUME LineInv, Line!End
    PROVE  LineInv'
<1>1. /\ parsed = "parsing" /\ awaits' = "end" /\ argv' = argv /\ seen' = seen
      /\ awaits = "null" /\ Line!Consistent =>
            parsed' = "ok" /\ opt' = [opt EXCEPT !.mode = Line!Mode]
      /\ ~(awaits = "null" /\ Line!Consistent) => parsed' = "error" /\ opt' = opt
  BY DEF Line!End, Line!Null
<1>2. LineTypes /\ argv \in Seq(Line!Args) /\ Len(argv) \in Nat /\ awaits # "end"
  BY <1>1 DEF LineInv, LineTypes
<1>3. Line!InUsage' <=> UsageOf(argv)
  BY <1>1, UsageIsInUsage
<1>4. Line!Mode \in LineWords
  BY <1>2 DEF Line!Mode, LineTypes, LineWords
<1>5. LineTypes'
  BY <1>1, <1>2, <1>4 DEF LineTypes
<1>6. ASSUME parsed' = "error", ~UsageOf(argv) PROVE LineInv'
  <2>1. Line!AcceptsUsage' /\ Line!FieldsAsWritten'
    BY <1>3, <1>6 DEF Line!AcceptsUsage, Line!FieldsAsWritten
  <2>. QED  BY <1>1, <1>5, <1>6, <2>1 DEF LineInv
<1>7. ASSUME parsed' = "ok", UsageOf(argv), FieldsOf(argv, opt') PROVE LineInv'
  <2>1. Line!AcceptsUsage' /\ Line!FieldsAsWritten'
    BY <1>1, <1>3, <1>7, FieldsAreFields DEF Line!AcceptsUsage
  <2>. QED  BY <1>1, <1>5, <1>7, <2>1 DEF LineInv
<1>8. awaits = "null" /\ Line!Consistent =>
        /\ opt'.mode = Line!Mode /\ opt'.path = opt.path /\ opt'.remote = opt.remote
        /\ opt'.output = opt.output /\ opt'.message = opt.message /\ opt'.ip = opt.ip
        /\ opt'.port = opt.port
  BY <1>1, <1>2 DEF LineTypes
<1>9. CASE seen.control
  <2>1. ControlInv
    BY <1>1, <1>9 DEF LineInv
  <2>2. Len(argv) >= 1 /\ argv[1] \in Line!Commands /\ Line!Mode = argv[1]
    BY <1>2, <1>9, <2>1 DEF ControlInv, Line!Mode
  <2>3. CASE Len(argv) = 1
    <3>1. awaits = "null" /\ ~seen.ip
      BY <2>1, <2>3 DEF ControlInv
    <3>2. Line!Consistent
      BY <1>9, <2>1, <2>2, <3>1, LineNames DEF ControlInv, Line!Consistent
    <3>3. UsageOf(argv)
      BY <2>2, <2>3 DEF UsageOf
    <3>4. \A o : GivenIn(argv, o) = {}
      BY <2>3 DEF GivenIn
    <3>5. FieldsOf(argv, opt')
      BY <1>8, <2>1, <2>2, <3>1, <3>2, <3>4 DEF FieldsOf, LastOf, ControlInv
    <3>. QED  BY <1>1, <1>7, <3>1, <3>2, <3>3, <3>5
  <2>4. CASE Len(argv) # 1
    <3>0. Len(argv) >= 2 /\ Len(argv) > 1
      <4>. DEFINE l == Len(argv)
      <4>1. l \in Nat /\ l >= 1 /\ l # 1
        BY <1>2, <2>2, <2>4
      <4>. HIDE DEF l
      <4>2. l >= 2 /\ l > 1
        BY <4>1
      <4>. QED  BY <4>2 DEF l
    <3>1. Hopeless(argv)
      BY <2>2, <3>0 DEF Hopeless
    <3>2. ~UsageOf(argv)
      BY <1>2, <3>1, HopelessIsOut
    <3>3. ~(awaits = "null" /\ Line!Consistent)
      <4>1. awaits = "null" => seen.ip
        BY <2>1, <3>0, Zenon DEF ControlInv
      <4>2. Line!Mode # "client"
        BY <2>2, LineNames
      <4>. QED  BY <4>1, <4>2 DEF Line!Consistent
    <3>. QED  BY <1>1, <1>6, <3>2, <3>3
  <2>. QED  BY <2>3, <2>4
<1>10. CASE ~seen.control
  <2>1. TurnInv /\ SeenInv /\ FieldInv
    BY <1>1, <1>10 DEF LineInv
  <2>2. CASE awaits # "null"
    <3>1. Len(argv) % 2 # 0 /\ (Len(argv) = 1 => argv[1] \notin Line!Commands)
      BY <1>2, <2>1, <2>2 DEF TurnInv
    <3>2. ~UsageOf(argv)
      BY <3>1 DEF UsageOf
    <3>. QED  BY <1>1, <1>6, <2>2, <3>2
  <2>3. CASE awaits = "null"
    <3>1. /\ Line!Consistent <=> UsageOf(argv)
          /\ Line!Consistent =>
               (seen.server /\ seen.actions = 0) \/ (~seen.server /\ seen.actions = 1)
      BY <1>2, <1>10, <2>1, <2>3, ConsistentIsUsage
    <3>2. CASE ~Line!Consistent
      BY <1>1, <1>6, <3>1, <3>2
    <3>3. CASE Line!Consistent
      <4>1. \A o, v, d : LastIn(argv, o, v, d) => v = LastOf(argv, o, d)
        BY <1>2, LastIsLast
      <4>2. /\ opt.output = LastOf(argv, "-o", "null") /\ opt.remote = LastOf(argv, "-g", "null")
            /\ opt.ip = LastOf(argv, "-i", "127.0.0.1") /\ opt.port = LastOf(argv, "-p", "8888")
        BY <2>1, <4>1 DEF FieldInv
      <4>3. argv[1] \notin Line!Commands
        <5>1. Len(argv) > 0
          BY <1>2, <3>1, <3>3 DEF UsageOf
        <5>. QED  BY <2>1, <5>1 DEF TurnInv
      <4>4. opt'.mode = IF GivenIn(argv, "-d") # {} THEN "server" ELSE "client"
        BY <1>8, <1>10, <2>1, <2>3, <3>3 DEF Line!Mode, SeenInv
      <4>5. /\ opt.path = LastOf(argv, "-d", LastOf(argv, "-c", "null"))
            /\ opt.message = LastOf(argv, "-m", "null")
        <5>1. CASE seen.server
          <6>1. seen.actions = 0 /\ GivenIn(argv, "-d") # {}
            BY <2>1, <3>1, <3>3, <5>1 DEF SeenInv
          <6>2. LastIn(argv, "-d", opt.path, "null") /\ opt.message = "null"
            BY <2>1, <6>1 DEF FieldInv
          <6>3. \A d : LastIn(argv, "-d", opt.path, d)
            BY <6>1, <6>2 DEF LastIn
          <6>4. OnesIn(argv, Line!Actions) = {}
            BY <1>2, <2>1, <6>1, Counts DEF SeenInv
          <6>5. GivenIn(argv, "-m") = {}
            BY <6>4, LineNames DEF GivenIn, OnesIn
          <6>. QED  BY <4>1, <6>2, <6>3, <6>5 DEF LastOf
        <5>2. CASE ~seen.server
          <6>1. seen.actions = 1 /\ GivenIn(argv, "-d") = {}
            BY <2>1, <3>1, <3>3, <5>2 DEF SeenInv
          <6>2. LastIn(argv, "-c", opt.path, "null") /\ LastIn(argv, "-m", opt.message, "null")
            BY <2>1, <5>2, <6>1 DEF FieldInv
          <6>. QED  BY <4>1, <6>1, <6>2 DEF LastOf
        <5>. QED  BY <5>1, <5>2
      <4>6. FieldsOf(argv, opt')
        BY <1>8, <2>3, <3>3, <4>2, <4>3, <4>4, <4>5 DEF FieldsOf
      <4>. QED  BY <1>1, <1>7, <2>3, <3>1, <3>3, <4>6
    <3>. QED  BY <3>2, <3>3
  <2>. QED  BY <2>2, <2>3
<1>. QED  BY <1>9, <1>10

\* A step of another conversion leaves the command line alone.
LEMMA LineUntouched == LineInv /\ UNCHANGED lineVars => LineInv'
<1>. SUFFICES ASSUME LineInv, UNCHANGED lineVars PROVE LineInv'
  OBVIOUS
<1>1. argv' = argv /\ awaits' = awaits /\ opt' = opt /\ seen' = seen /\ parsed' = parsed
  BY DEF lineVars
<1>2. LineTypes'
  BY <1>1 DEF LineInv, LineTypes
<1>3. (ControlInv' <=> ControlInv) /\ (SeenInv' <=> SeenInv) /\ (FieldInv' <=> FieldInv)
  BY <1>1 DEF ControlInv, SeenInv, FieldInv
<1>4. TurnInv' <=> TurnInv
  BY <1>1 DEF TurnInv, Line!Duplicate
<1>5. Line!AcceptsUsage' <=> Line!AcceptsUsage
  BY <1>1 DEF Line!AcceptsUsage, Line!InUsage, Line!Pairs, Line!Opt, Line!Val, Line!Given, Line!Count
<1>6. Line!FieldsAsWritten' <=> Line!FieldsAsWritten
  BY <1>1 DEF Line!FieldsAsWritten, Line!LastValue, Line!Pairs, Line!Opt, Line!Val, Line!Given
<1>. QED  BY <1>1, <1>2, <1>3, <1>4, <1>5, <1>6 DEF LineInv

\* The locals and the record of parse_args describe the arguments read so far,
\* and what it refused cannot be completed: the invariant of CommandLine, for
\* command lines of every length.
THEOREM LineInvariant == InputSpec => []LineInv
<1>1. InputInit => LineInv
  <2>. SUFFICES ASSUME Line!Init PROVE LineInv
    BY DEF InputInit
  <2>1. /\ argv = <<>> /\ awaits = "null" /\ parsed = "parsing"
        /\ opt = [mode |-> "null", path |-> "null", remote |-> "null", output |-> "null",
                  message |-> "null", ip |-> "127.0.0.1", port |-> "8888", type |-> "null"]
        /\ seen = [server |-> FALSE, actions |-> 0, action |-> "null",
                   output |-> FALSE, ip |-> FALSE, control |-> FALSE]
    BY DEF Line!Init, Line!Null
  <2>2. LineTypes
    BY <2>1 DEF LineTypes, LineWords
  <2>3. \A o : GivenIn(argv, o) = {}
    BY <2>1 DEF GivenIn
  <2>4. \A os : OnesIn(argv, os) = {}
    BY <2>1 DEF OnesIn
  <2>5. TurnInv
    BY <2>1, <2>3 DEF TurnInv
  <2>6. SeenInv
    BY <2>1, <2>3, <2>4, FS_EmptySet DEF SeenInv
  <2>7. FieldInv
    BY <2>1, <2>3 DEF FieldInv, LastIn
  <2>8. Line!AcceptsUsage /\ Line!FieldsAsWritten
    BY <2>1 DEF Line!AcceptsUsage, Line!FieldsAsWritten
  <2>. QED  BY <2>1, <2>2, <2>5, <2>6, <2>7, <2>8 DEF LineInv
<1>2. LineInv /\ Line!Next => LineInv'
  BY ControlStep, OptionStep, ValueStep, UnreadStep, EndStep DEF Line!Next
<1>3. LineInv /\ [InputNext]_<<input, vars, pathVars, messageVars, lineVars, frameVars, stateVars>>
        => LineInv'
  <2>1. [InputNext]_<<input, vars, pathVars, messageVars, lineVars, frameVars, stateVars>>
          => Line!Next \/ UNCHANGED lineVars
    BY DEF InputNext
  <2>. QED  BY <1>2, <2>1, LineUntouched
<1>. QED  BY <1>1, <1>3, PTL DEF InputSpec

\* parse_args accepts the command lines that usage() describes, all of them and
\* no others, and hands over the values that were written.
THEOREM UsageIsParsedHolds == InputSpec => []UsageIsParsed
<1>1. LineInv => UsageIsParsed
  BY DEF LineInv, UsageIsParsed
<1>. QED  BY <1>1, LineInvariant, PTL

-----------------------------------------------------------------------------
(* StateText: what the state file holds, and how far it was read. *)

TextChars ==
    MCChars \cup {"pid", "receive_dir", "port", "web_url", "log_path", "daemon_mode",
                  "=", "LF", "41", "8888", "url", "log", "1"}

\* What is left of s after p characters.
Rest(s, p) == SubSeq(s, p + 1, Len(s))

\* The characters that were read, and the length of the recorded directory.
Done == Len(file) - Len(left)
DirLen == Len(State!Copied(dir))

\* The reader is between two lines, or among the lines a directory with line
\* breaks was split into; what comes after the directory is then as written.
LaterInv ==
    /\ left = Rest(file, Done) /\ Done \in 0 .. DirLen + 23
    /\ \/ Done \in {0, DirLen + 7, DirLen + 11, DirLen + 15, DirLen + 19, DirLen + 23}
       \/ Done = 4 \/ (Done > 4 /\ Done < DirLen + 7 /\ ~State!Plain(dir))
    /\ Done >= DirLen + 11 => state["port"] = <<"8888">>
    /\ Done >= DirLen + 15 => state["web_url"] = <<"url">>
    /\ Done >= DirLen + 19 => state["log_path"] = <<"log">>

\* Without line breaks everything that was read is as written.
PlainInv ==
    State!Plain(dir) =>
        /\ Done >= 4 => state["pid"] = <<"41">>
        /\ Done >= DirLen + 7 => state["receive_dir"] = State!Copied(dir)
        /\ Done = 0 => have = {}
        /\ Done = 4 => have = {"pid"}
        /\ Done = DirLen + 7 => have = {"pid", "receive_dir"}
        /\ Done >= DirLen + 11 => have = {"pid", "receive_dir", "port"}

\* The record has its fields and no others.
Shaped(r) == r = [f \in State!Fields |-> r[f]]

StateInv ==
    /\ dir \in Seq(MCChars)
    /\ Shaped(state)
    /\ phase \in {"typing", "written", "reading", "read", "failed"}
    /\ phase = "typing" => file = State!None
    /\ phase \in {"written", "reading", "read"} =>
           State!Copied(dir) # <<>> /\ file = State!Format(State!Copied(dir))
    /\ phase = "reading" => LaterInv /\ PlainInv
    /\ State!ReadsBack /\ State!LaterFieldsAreOwn

\* Two texts, one after the other.
LEMMA TextJoined ==
    ASSUME NEW s \in Seq(TextChars), NEW t \in Seq(TextChars)
    PROVE  LET r == s \o t
           IN  /\ r \in Seq(TextChars) /\ Len(r) = Len(s) + Len(t)
               /\ Len(s) \in Nat /\ Len(t) \in Nat
               /\ \A i \in 1 .. Len(s) : r[i] = s[i]
               /\ \A i \in 1 .. Len(t) : r[Len(s) + i] = t[i]
OBVIOUS

\* A line that daemon_state_write makes.
LEMMA LineAt ==
    ASSUME NEW k \in TextChars, NEW v \in Seq(TextChars)
    PROVE  LET l == State!LineOf(k, v)
           IN  /\ l \in Seq(TextChars) /\ Len(l) = Len(v) + 3 /\ Len(v) \in Nat
               /\ l[1] = k /\ l[2] = "=" /\ l[Len(v) + 3] = "LF"
               /\ \A i \in 1 .. Len(v) : l[2 + i] = v[i]
<1>. DEFINE h == <<k, "=">>  g == h \o v  e == <<"LF">>  l == g \o e
<1>1. "=" \in TextChars /\ "LF" \in TextChars
  BY DEF TextChars
<1>2. /\ h \in Seq(TextChars) /\ Len(h) = 2 /\ h[1] = k /\ h[2] = "="
      /\ e \in Seq(TextChars) /\ Len(e) = 1 /\ e[1] = "LF"
  BY <1>1
<1>. HIDE DEF h, e
<1>3. /\ g \in Seq(TextChars) /\ Len(g) = 2 + Len(v) /\ Len(v) \in Nat
      /\ \A i \in 1 .. 2 : g[i] = h[i]
      /\ \A i \in 1 .. Len(v) : g[2 + i] = v[i]
  <2>1. /\ g \in Seq(TextChars) /\ Len(g) = Len(h) + Len(v) /\ Len(v) \in Nat
        /\ \A i \in 1 .. Len(h) : g[i] = h[i]
        /\ \A i \in 1 .. Len(v) : g[Len(h) + i] = v[i]
    BY <1>2, TextJoined
  <2>. HIDE DEF g
  <2>. QED  BY <1>2, <2>1
<1>. HIDE DEF g
<1>4. /\ l \in Seq(TextChars) /\ Len(l) = Len(g) + 1
      /\ \A i \in 1 .. Len(g) : l[i] = g[i]
      /\ \A i \in 1 .. 1 : l[Len(g) + i] = e[i]
  <2>1. /\ l \in Seq(TextChars) /\ Len(l) = Len(g) + Len(e)
        /\ \A i \in 1 .. Len(g) : l[i] = g[i]
        /\ \A i \in 1 .. Len(e) : l[Len(g) + i] = e[i]
    BY ZenonT(60), <1>2, <1>3, TextJoined
  <2>. HIDE DEF l
  <2>. QED  BY <1>2, <2>1
<1>. HIDE DEF l
<1>5. Len(l) = Len(v) + 3
  BY <1>3, <1>4
<1>6. l[1] = k /\ l[2] = "="
  <2>1. 1 \in 1 .. Len(g) /\ 2 \in 1 .. Len(g)
    BY <1>3
  <2>2. g[1] = h[1] /\ g[2] = h[2]
    BY <1>3
  <2>. QED  BY <1>2, <1>4, <2>1, <2>2
<1>7. l[Len(v) + 3] = "LF"
  <2>1. Len(g) + 1 = Len(v) + 3
    BY <1>3
  <2>2. l[Len(g) + 1] = e[1]
    BY <1>4
  <2>. QED  BY <1>2, <2>1, <2>2
<1>8. ASSUME NEW i \in 1 .. Len(v) PROVE l[2 + i] = v[i]
  <2>. DEFINE j == 2 + i
  <2>1. j \in 1 .. Len(g)
    BY <1>3
  <2>2. g[j] = v[i]
    BY <1>3
  <2>. HIDE DEF j
  <2>3. l[j] = v[i]
    BY <1>4, <2>1, <2>2
  <2>. QED  BY <2>3 DEF j
<1>9. l = State!LineOf(k, v)
  BY DEF l, g, h, e, State!LineOf
<1>. QED  BY <1>3, <1>4, <1>5, <1>6, <1>7, <1>8, <1>9

\* The line k=v of s begins after the character at position p.
HasLine(s, p, k, v) ==
    /\ p + Len(v) + 3 <= Len(s)
    /\ s[p + 1] = k /\ s[p + 2] = "=" /\ s[p + (Len(v) + 3)] = "LF"
    /\ \A i \in 1 .. Len(v) : s[p + (2 + i)] = v[i]

\* One line more.
LEMMA LineAdded ==
    ASSUME NEW s \in Seq(TextChars), NEW k \in TextChars, NEW v \in Seq(TextChars)
    PROVE  LET r == s \o State!LineOf(k, v)
           IN  /\ r \in Seq(TextChars) /\ Len(r) = Len(s) + (Len(v) + 3)
               /\ HasLine(r, Len(s), k, v)
               /\ \A p \in Nat : \A j \in TextChars : \A w \in Seq(TextChars) :
                     HasLine(s, p, j, w) => HasLine(r, p, j, w)
<1>. DEFINE l == State!LineOf(k, v)  r == s \o l  n == Len(s)  m == Len(v)
<1>1. /\ l \in Seq(TextChars) /\ Len(l) = m + 3 /\ m \in Nat
      /\ l[1] = k /\ l[2] = "=" /\ l[m + 3] = "LF"
      /\ \A i \in 1 .. m : l[2 + i] = v[i]
  BY LineAt
<1>. HIDE DEF l
<1>2. /\ r \in Seq(TextChars) /\ Len(r) = n + Len(l) /\ n \in Nat
      /\ \A i \in 1 .. n : r[i] = s[i]
      /\ \A i \in 1 .. Len(l) : r[n + i] = l[i]
  BY <1>1, TextJoined
<1>. HIDE DEF r
<1>3. HasLine(r, n, k, v)
  <2>1. Len(r) = n + m + 3
    BY <1>1, <1>2
  <2>2. 1 \in 1 .. Len(l) /\ 2 \in 1 .. Len(l) /\ m + 3 \in 1 .. Len(l)
    BY <1>1
  <2>3. r[n + 1] = k /\ r[n + 2] = "=" /\ r[n + (m + 3)] = "LF"
    BY <1>1, <1>2, <2>2
  <2>4. ASSUME NEW i \in 1 .. m PROVE r[n + (2 + i)] = v[i]
    <3>. DEFINE j == 2 + i
    <3>1. j \in 1 .. Len(l) /\ l[j] = v[i]
      BY <1>1
    <3>. HIDE DEF j
    <3>2. r[n + j] = v[i]
      BY <1>2, <3>1
    <3>. QED  BY <3>2 DEF j
  <2>. QED  BY <1>1, <1>2, <2>1, <2>3, <2>4 DEF HasLine
<1>4. ASSUME NEW p \in Nat, NEW j \in TextChars, NEW w \in Seq(TextChars), HasLine(s, p, j, w)
      PROVE  HasLine(r, p, j, w)
  <2>. DEFINE u == Len(w)
  <2>1. u \in Nat /\ p + u + 3 <= n /\ n <= Len(r)
    BY <1>1, <1>2, <1>4 DEF HasLine
  <2>2. p + 1 \in 1 .. n /\ p + 2 \in 1 .. n /\ p + (u + 3) \in 1 .. n /\ p + u + 3 <= Len(r)
    BY <1>1, <1>2, <2>1
  <2>3. r[p + 1] = j /\ r[p + 2] = "=" /\ r[p + (u + 3)] = "LF"
    BY <1>2, <1>4, <2>2 DEF HasLine
  <2>4. ASSUME NEW i \in 1 .. u PROVE r[p + (2 + i)] = w[i]
    <3>. DEFINE x == p + (2 + i)
    <3>1. x \in 1 .. n
      BY <1>2, <2>1
    <3>2. s[x] = w[i]
      BY <1>4 DEF HasLine
    <3>. HIDE DEF x
    <3>3. r[x] = w[i]
      BY <1>2, <3>1, <3>2
    <3>. QED  BY <3>3 DEF x
  <2>. QED  BY <2>2, <2>3, <2>4 DEF HasLine
<1>. QED  BY <1>1, <1>2, <1>3, <1>4 DEF r, l

\* The text of daemon_state_write, line by line.
LEMMA FormatLines ==
    ASSUME NEW d \in Seq(TextChars)
    PROVE  LET s == State!Format(d)
               n == Len(d)
           IN  /\ s \in Seq(TextChars) /\ Len(s) = n + 23 /\ n \in Nat
               /\ HasLine(s, 0, "pid", <<"41">>) /\ HasLine(s, 4, "receive_dir", d)
               /\ HasLine(s, n + 7, "port", <<"8888">>) /\ HasLine(s, n + 11, "web_url", <<"url">>)
               /\ HasLine(s, n + 15, "log_path", <<"log">>)
               /\ HasLine(s, n + 19, "daemon_mode", <<"1">>)
<1>. DEFINE n == Len(d)  p == <<"41">>  o == <<"8888">>  u == <<"url">>  g == <<"log">>  m == <<"1">>
<1>1. /\ p \in Seq(TextChars) /\ Len(p) = 1 /\ o \in Seq(TextChars) /\ Len(o) = 1
      /\ u \in Seq(TextChars) /\ Len(u) = 1 /\ g \in Seq(TextChars) /\ Len(g) = 1
      /\ m \in Seq(TextChars) /\ Len(m) = 1 /\ n \in Nat
  BY DEF TextChars
<1>2. {"pid", "receive_dir", "port", "web_url", "log_path", "daemon_mode"} \subseteq TextChars
  BY DEF TextChars
<1>. HIDE DEF p, o, u, g, m
<1>. DEFINE s0 == <<>>  s1 == s0 \o State!LineOf("pid", p)
            s2 == s1 \o State!LineOf("receive_dir", d)  s3 == s2 \o State!LineOf("port", o)
            s4 == s3 \o State!LineOf("web_url", u)  s5 == s4 \o State!LineOf("log_path", g)
            s6 == s5 \o State!LineOf("daemon_mode", m)
<1>3. s0 \in Seq(TextChars) /\ Len(s0) = 0
  OBVIOUS
<1>4. s1 \in Seq(TextChars) /\ Len(s1) = 4 /\ HasLine(s1, 0, "pid", p)
  <2>. HIDE DEF s0
  <2>1. s1 \in Seq(TextChars) /\ Len(s1) = Len(s0) + (Len(p) + 3) /\ HasLine(s1, Len(s0), "pid", p)
    BY ZenonT(60), <1>1, <1>2, <1>3, LineAdded
  <2>. QED  BY <1>1, <1>3, <2>1
<1>. HIDE DEF s1
<1>5. /\ s2 \in Seq(TextChars) /\ Len(s2) = n + 7 /\ HasLine(s2, 0, "pid", p)
      /\ HasLine(s2, 4, "receive_dir", d)
  <2>1. /\ s2 \in Seq(TextChars) /\ Len(s2) = Len(s1) + (n + 3)
        /\ HasLine(s2, Len(s1), "receive_dir", d)
        /\ \A q \in Nat : \A j \in TextChars : \A w \in Seq(TextChars) :
              HasLine(s1, q, j, w) => HasLine(s2, q, j, w)
    BY <1>2, <1>4, LineAdded
  <2>2. 0 \in Nat /\ Len(s2) = n + 7
    BY <1>1, <1>4, <2>1
  <2>. HIDE DEF s2
  <2>. QED  BY <1>1, <1>2, <1>4, <2>1, <2>2
<1>. HIDE DEF s2, n
<1>6. /\ s3 \in Seq(TextChars) /\ Len(s3) = n + 11 /\ HasLine(s3, 0, "pid", p)
      /\ HasLine(s3, 4, "receive_dir", d) /\ HasLine(s3, n + 7, "port", o)
  <2>1. /\ s3 \in Seq(TextChars) /\ Len(s3) = Len(s2) + (Len(o) + 3)
        /\ HasLine(s3, Len(s2), "port", o)
        /\ \A q \in Nat : \A j \in TextChars : \A w \in Seq(TextChars) :
              HasLine(s2, q, j, w) => HasLine(s3, q, j, w)
    BY <1>1, <1>2, <1>5, LineAdded
  <2>2. 0 \in Nat /\ 4 \in Nat /\ Len(s3) = n + 11
    BY <1>1, <1>5, <2>1
  <2>. HIDE DEF s3
  <2>. QED  BY <1>1, <1>2, <1>5, <2>1, <2>2
<1>. HIDE DEF s3
<1>7. /\ s4 \in Seq(TextChars) /\ Len(s4) = n + 15 /\ HasLine(s4, 0, "pid", p)
      /\ HasLine(s4, 4, "receive_dir", d) /\ HasLine(s4, n + 7, "port", o)
      /\ HasLine(s4, n + 11, "web_url", u)
  <2>1. /\ s4 \in Seq(TextChars) /\ Len(s4) = Len(s3) + (Len(u) + 3)
        /\ HasLine(s4, Len(s3), "web_url", u)
        /\ \A q \in Nat : \A j \in TextChars : \A w \in Seq(TextChars) :
              HasLine(s3, q, j, w) => HasLine(s4, q, j, w)
    BY <1>1, <1>2, <1>6, LineAdded
  <2>2. 0 \in Nat /\ 4 \in Nat /\ n + 7 \in Nat /\ Len(s4) = n + 15
    BY <1>1, <1>6, <2>1
  <2>. HIDE DEF s4
  <2>. QED  BY <1>1, <1>2, <1>6, <2>1, <2>2
<1>. HIDE DEF s4
<1>8. /\ s5 \in Seq(TextChars) /\ Len(s5) = n + 19 /\ HasLine(s5, 0, "pid", p)
      /\ HasLine(s5, 4, "receive_dir", d) /\ HasLine(s5, n + 7, "port", o)
      /\ HasLine(s5, n + 11, "web_url", u) /\ HasLine(s5, n + 15, "log_path", g)
  <2>1. /\ s5 \in Seq(TextChars) /\ Len(s5) = Len(s4) + (Len(g) + 3)
        /\ HasLine(s5, Len(s4), "log_path", g)
        /\ \A q \in Nat : \A j \in TextChars : \A w \in Seq(TextChars) :
              HasLine(s4, q, j, w) => HasLine(s5, q, j, w)
    BY <1>1, <1>2, <1>7, LineAdded
  <2>2. 0 \in Nat /\ 4 \in Nat /\ n + 7 \in Nat /\ n + 11 \in Nat /\ Len(s5) = n + 19
    BY <1>1, <1>7, <2>1
  <2>. HIDE DEF s5
  <2>. QED  BY <1>1, <1>2, <1>7, <2>1, <2>2
<1>. HIDE DEF s5
<1>9. /\ s6 \in Seq(TextChars) /\ Len(s6) = n + 23 /\ HasLine(s6, 0, "pid", p)
      /\ HasLine(s6, 4, "receive_dir", d) /\ HasLine(s6, n + 7, "port", o)
      /\ HasLine(s6, n + 11, "web_url", u) /\ HasLine(s6, n + 15, "log_path", g)
      /\ HasLine(s6, n + 19, "daemon_mode", m)
  <2>1. /\ s6 \in Seq(TextChars) /\ Len(s6) = Len(s5) + (Len(m) + 3)
        /\ HasLine(s6, Len(s5), "daemon_mode", m)
        /\ \A q \in Nat : \A j \in TextChars : \A w \in Seq(TextChars) :
              HasLine(s5, q, j, w) => HasLine(s6, q, j, w)
    BY <1>1, <1>2, <1>8, LineAdded
  <2>2. 0 \in Nat /\ 4 \in Nat /\ n + 7 \in Nat /\ n + 11 \in Nat /\ n + 15 \in Nat
        /\ Len(s6) = n + 23
    BY <1>1, <1>8, <2>1
  <2>. HIDE DEF s6
  <2>. QED  BY <1>1, <1>2, <1>8, <2>1, <2>2
<1>10. s6 = State!Format(d)
  <2>1. State!LineOf("pid", p) \in Seq(TextChars)
    BY <1>1, <1>2, LineAt
  <2>2. s1 = State!LineOf("pid", p)
    BY <2>1 DEF s1
  <2>. QED  BY <2>2 DEF State!Format, s6, s5, s4, s3, s2, p, o, u, g, m
<1>. QED  BY <1>1, <1>9, <1>10 DEF p, o, u, g, m, n

\* First finds the first.
LEMMA FirstIs ==
    ASSUME NEW s \in Seq(TextChars), NEW cs, NEW q \in 1 .. Len(s), s[q] \in cs,
           \A j \in 1 .. q - 1 : s[j] \notin cs
    PROVE  State!Positions(s, cs) # {} /\ State!First(s, cs) = q
<1>. DEFINE P == State!Positions(s, cs)
<1>1. q \in P /\ \A j \in P : j \in 1 .. Len(s) /\ s[j] \in cs
  BY DEF State!Positions
<1>. HIDE DEF P
<1>2. \A j \in P : j \in Nat /\ q <= j
  BY <1>1
<1>. DEFINE f == CHOOSE i \in P : \A j \in P : i <= j
<1>3. f \in P /\ \A j \in P : f <= j
  BY <1>1, <1>2
<1>. HIDE DEF f
<1>4. f = q
  BY <1>1, <1>2, <1>3
<1>5. State!First(s, cs) = f
  BY DEF State!First, f, P
<1>. QED  BY <1>1, <1>4, <1>5 DEF P

\* What is left.
LEMMA RestIs ==
    ASSUME NEW s \in Seq(TextChars), NEW p \in 0 .. Len(s)
    PROVE  /\ Rest(s, p) \in Seq(TextChars) /\ Len(Rest(s, p)) = Len(s) - p
           /\ \A i \in 1 .. Len(s) - p : Rest(s, p)[i] = s[p + i]
BY DEF Rest

\* fgets reads the next line if its buffer holds it.
LEMMA NextLine ==
    ASSUME NEW s \in Seq(TextChars), NEW p \in Nat, NEW q \in Nat, p < q, q <= Len(s),
           s[q] = "LF", \A j \in p + 1 .. q - 1 : s[j] # "LF", q - p < LineCap
    PROVE  LET l == State!Fgets(Rest(s, p))
           IN  /\ l \in Seq(TextChars) /\ Len(l) = q - p
               /\ \A i \in 1 .. q - p : l[i] = s[p + i]
               /\ SubSeq(Rest(s, p), Len(l) + 1, Len(Rest(s, p))) = Rest(s, q)
<1>. DEFINE r == Rest(s, p)  m == q - p  l == SubSeq(r, 1, m)
<1>1. Len(s) \in Nat /\ p \in 0 .. Len(s) /\ q \in 0 .. Len(s) /\ m \in Nat /\ m >= 1 /\ q = p + m
  OBVIOUS
<1>2. /\ r \in Seq(TextChars) /\ Len(r) = Len(s) - p
      /\ \A i \in 1 .. Len(s) - p : r[i] = s[p + i]
  BY <1>1, RestIs
<1>. HIDE DEF r
<1>3. m \in 1 .. Len(r) /\ r[m] = "LF"
  BY <1>1, <1>2
<1>. HIDE DEF m
<1>4. ASSUME NEW j \in 1 .. m - 1 PROVE r[j] # "LF"
  <2>1. j \in 1 .. Len(s) - p /\ p + j \in p + 1 .. q - 1
    BY <1>1, <1>2, <1>3
  <2>. QED  BY <1>2, <2>1
<1>5. State!Positions(r, {"LF"}) # {} /\ State!First(r, {"LF"}) = m
  BY <1>2, <1>3, <1>4, FirstIs
<1>6. State!Fgets(r) = l
  <2>1. m < LineCap
    BY DEF m
  <2>. QED  BY <1>5, <2>1 DEF State!Fgets
<1>7. l \in Seq(TextChars) /\ Len(l) = m /\ \A i \in 1 .. m : l[i] = r[i]
  BY <1>2, <1>3
<1>. HIDE DEF l
<1>8. \A i \in 1 .. m : l[i] = s[p + i]
  <2>1. \A i \in 1 .. m : i \in 1 .. Len(s) - p
    BY <1>1, <1>2, <1>3
  <2>. QED  BY <1>2, <1>7, <2>1
<1>9. SubSeq(r, m + 1, Len(r)) = Rest(s, q)
  <2>. DEFINE a == SubSeq(r, m + 1, Len(r))  b == Rest(s, q)
  <2>1. /\ a \in Seq(TextChars) /\ Len(a) = Len(r) - m
        /\ \A i \in 1 .. Len(r) - m : a[i] = r[m + i]
    <3>1. m \in 0 .. Len(r)
      BY <1>3
    <3>. QED  BY <1>2, <3>1, RestIs DEF Rest
  <2>2. /\ b \in Seq(TextChars) /\ Len(b) = Len(s) - q
        /\ \A i \in 1 .. Len(s) - q : b[i] = s[q + i]
    BY <1>1, RestIs
  <2>. HIDE DEF a, b
  <2>3. Len(a) = Len(b)
    BY <1>1, <1>2, <2>1, <2>2
  <2>4. ASSUME NEW i \in 1 .. Len(a) PROVE a[i] = b[i]
    <3>. DEFINE x == m + i  y == q + i
    <3>1. i \in 1 .. Len(r) - m /\ i \in 1 .. Len(s) - q /\ x \in 1 .. Len(s) - p /\ p + x = y
      BY <1>1, <1>2, <2>1, <2>2, <2>3
    <3>2. a[i] = r[x] /\ b[i] = s[y]
      BY <2>1, <2>2, <3>1
    <3>. HIDE DEF x, y
    <3>3. r[x] = s[p + x]
      BY <1>2, <3>1
    <3>. QED  BY <3>1, <3>2, <3>3
  <2>5. a = b
    BY <2>1, <2>2, <2>3, <2>4, SeqEqual
  <2>. QED  BY <2>5 DEF a, b
<1>. QED  BY <1>6, <1>7, <1>8, <1>9 DEF r, m

\* strchr and strcspn take such a line apart again.
LEMMA TakenApart ==
    ASSUME NEW l \in Seq(TextChars), NEW k \in TextChars, NEW v \in Seq(TextChars), k # "=",
           HasLine(l, 0, k, v), Len(l) = Len(v) + 3,
           \A i \in 1 .. Len(v) : v[i] \notin {"LF", "CR"}
    PROVE  /\ State!Positions(l, {"="}) # {} /\ State!Until(l, {"="}) = <<k>>
           /\ State!Until(SubSeq(l, Len(<<k>>) + 2, Len(l)), {"LF", "CR"}) = v
<1>. DEFINE n == Len(v)  w == SubSeq(l, 3, Len(l))
<1>0. n \in Nat /\ Len(l) = n + 3
  OBVIOUS
<1>1. /\ l[1] = k /\ l[2] = "=" /\ l[n + 3] = "LF" /\ \A i \in 1 .. n : l[2 + i] = v[i]
  <2>1. /\ l[0 + 1] = k /\ l[0 + 2] = "=" /\ l[0 + (n + 3)] = "LF"
        /\ \A i \in 1 .. n : l[0 + (2 + i)] = v[i]
    BY DEF HasLine
  <2>2. 0 + 1 = 1 /\ 0 + 2 = 2 /\ 0 + (n + 3) = n + 3 /\ \A i \in 1 .. n : 0 + (2 + i) = 2 + i
    BY <1>0
  <2>. QED  BY ONLY <2>1, <2>2
<1>2. State!Positions(l, {"="}) # {} /\ State!First(l, {"="}) = 2
  <2>1. 2 \in 1 .. Len(l) /\ \A j \in 1 .. 2 - 1 : l[j] \notin {"="}
    BY <1>0, <1>1
  <2>. DEFINE q == 2
  <2>2. q \in 1 .. Len(l) /\ l[q] \in {"="} /\ \A j \in 1 .. q - 1 : l[j] \notin {"="}
    BY <1>1, <2>1
  <2>. HIDE DEF q
  <2>3. State!Positions(l, {"="}) # {} /\ State!First(l, {"="}) = q
    BY <2>2, FirstIs
  <2>. QED  BY <2>3 DEF q
<1>3. State!Until(l, {"="}) = <<k>>
  <2>1. State!Until(l, {"="}) = SubSeq(l, 1, 1)
    BY <1>2 DEF State!Until
  <2>. DEFINE a == SubSeq(l, 1, 1)  b == <<k>>
  <2>2. a \in Seq(TextChars) /\ Len(a) = 1 /\ a[1] = l[1]
    BY <1>0
  <2>3. b \in Seq(TextChars) /\ Len(b) = 1 /\ b[1] = k
    OBVIOUS
  <2>. HIDE DEF a, b
  <2>4. \A i \in 1 .. Len(a) : a[i] = b[i]
    BY <1>1, <2>2, <2>3
  <2>5. a = b
    BY <2>2, <2>3, <2>4, SeqEqual
  <2>. QED  BY <2>1, <2>5 DEF a, b
<1>4. /\ w \in Seq(TextChars) /\ Len(w) = n + 1 /\ \A i \in 1 .. n + 1 : w[i] = l[2 + i]
  BY <1>0
<1>. HIDE DEF w
<1>5. w[n + 1] = "LF" /\ \A i \in 1 .. n : w[i] = v[i]
  <2>1. n + 1 \in 1 .. n + 1 /\ 2 + (n + 1) = n + 3 /\ \A i \in 1 .. n : i \in 1 .. n + 1
    BY <1>0
  <2>. HIDE DEF n
  <2>. QED  BY <1>1, <1>4, <2>1
<1>6. State!Positions(w, {"LF", "CR"}) # {} /\ State!First(w, {"LF", "CR"}) = n + 1
  <2>1. n + 1 \in 1 .. Len(w) /\ (n + 1) - 1 = n
    BY <1>0, <1>4
  <2>2. \A i \in 1 .. (n + 1) - 1 : w[i] \notin {"LF", "CR"}
    BY <1>5, <2>1
  <2>3. w[n + 1] \in {"LF", "CR"}
    BY <1>5
  <2>. DEFINE q == n + 1
  <2>. HIDE DEF n, q
  <2>4. q \in 1 .. Len(w) /\ w[q] \in {"LF", "CR"} /\ \A i \in 1 .. q - 1 : w[i] \notin {"LF", "CR"}
    BY <2>1, <2>2, <2>3 DEF q
  <2>5. State!Positions(w, {"LF", "CR"}) # {} /\ State!First(w, {"LF", "CR"}) = q
    BY <1>4, <2>4, FirstIs
  <2>. QED  BY <2>5 DEF q
<1>7. State!Until(w, {"LF", "CR"}) = v
  <2>. DEFINE u == SubSeq(w, 1, n)
  <2>1. State!Until(w, {"LF", "CR"}) = u
    <3>1. State!Until(w, {"LF", "CR"}) = SubSeq(w, 1, (n + 1) - 1)
      BY <1>6 DEF State!Until
    <3>2. (n + 1) - 1 = n
      BY <1>0
    <3>. QED  BY <3>1, <3>2
  <2>2. u \in Seq(TextChars) /\ Len(u) = n /\ \A i \in 1 .. n : u[i] = w[i]
    BY <1>0, <1>4
  <2>. HIDE DEF u
  <2>3. u = v
    BY <1>5, <2>2, SeqEqual
  <2>. QED  BY <2>1, <2>3
<1>8. SubSeq(l, Len(<<k>>) + 2, Len(l)) = w
  BY DEF w
<1>. QED  BY <1>2, <1>3, <1>7, <1>8

\* One turn of the loop, for such a line.
LEMMA Assigned ==
    ASSUME NEW l, NEW k, NEW v, State!Until(l, {"="}) = <<k>>,
           State!Until(SubSeq(l, Len(<<k>>) + 2, Len(l)), {"LF", "CR"}) = v, State!Assign(l)
    PROVE  /\ (k \in {"pid", "port"} /\ State!IsNumber(v)) \/ (k = "receive_dir" /\ v # <<>>) =>
                  state' = [state EXCEPT ![k] = v] /\ have' = have \cup {k}
           /\ k \in {"web_url", "log_path"} => state' = [state EXCEPT ![k] = v] /\ have' = have
           /\ k \notin State!Fields => state' = state /\ have' = have
<1>. DEFINE K == State!Until(l, {"="})
            V == State!Until(SubSeq(l, Len(K) + 2, Len(l)), {"LF", "CR"})
<1>1. K = <<k>> /\ V = v
  OBVIOUS
<1>2. \/ /\ \E f \in {"pid", "port"} : K = <<f>>
         /\ IF State!IsNumber(V) THEN state' = [state EXCEPT ![K[1]] = V] /\ have' = have \cup {K[1]}
            ELSE state' = state /\ have' = have \ {K[1]}
      \/ /\ K = <<"receive_dir">>
         /\ IF V # <<>> THEN state' = [state EXCEPT ![K[1]] = V] /\ have' = have \cup {K[1]}
            ELSE state' = state /\ have' = have \ {K[1]}
      \/ /\ \E f \in {"web_url", "log_path"} : K = <<f>>
         /\ state' = [state EXCEPT ![K[1]] = V] /\ have' = have
      \/ (\A f \in State!Fields : K # <<f>>) /\ state' = state /\ have' = have
  BY DEF State!Assign
<1>. HIDE DEF K, V
<1>3. K[1] = k /\ \A f : (K = <<f>>) <=> f = k
  BY <1>1
<1>4. \/ k \in {"pid", "port"} /\ (State!IsNumber(v) => state' = [state EXCEPT ![k] = v] /\ have' = have \cup {k})
      \/ k = "receive_dir" /\ (v # <<>> => state' = [state EXCEPT ![k] = v] /\ have' = have \cup {k})
      \/ k \in {"web_url", "log_path"} /\ state' = [state EXCEPT ![k] = v] /\ have' = have
      \/ k \notin State!Fields /\ state' = state /\ have' = have
  <2>. DEFINE T == [state EXCEPT ![K[1]] = V]
  <2>1. T = [state EXCEPT ![k] = v]
    BY <1>1, <1>3
  <2>. HIDE DEF T
  <2>2. CASE (\E f \in {"pid", "port"} : K = <<f>>) /\ (State!IsNumber(V) => state' = T /\ have' = have \cup {K[1]})
    BY <1>1, <1>3, <2>1, <2>2
  <2>3. CASE K = <<"receive_dir">> /\ (V # <<>> => state' = T /\ have' = have \cup {K[1]})
    BY <1>1, <1>3, <2>1, <2>3
  <2>4. CASE (\E f \in {"web_url", "log_path"} : K = <<f>>) /\ state' = T /\ have' = have
    BY <1>1, <1>3, <2>1, <2>4
  <2>5. CASE (\A f \in State!Fields : K # <<f>>) /\ state' = state /\ have' = have
    BY <1>1, <1>3, <2>5
  <2>. QED  BY <1>2, <2>2, <2>3, <2>4, <2>5 DEF T
<1>. QED  BY <1>4 DEF State!Fields

\* No line, whatever it is, gives the record another field.
LEMMA StaysShaped ==
    ASSUME Shaped(state), NEW l, State!Assign(l)
    PROVE  Shaped(state')
<1>1. ASSUME NEW k, NEW v PROVE Shaped([state EXCEPT ![k] = v])
  BY DEF Shaped
<1>2. \/ state' = state
      \/ state' = [state EXCEPT ![State!Until(l, {"="})[1]] =
             State!Until(SubSeq(l, Len(State!Until(l, {"="})) + 2, Len(l)), {"LF", "CR"})]
  BY DEF State!Assign
<1>. QED  BY SMTT(40), <1>1, <1>2

\* The directory in the record.
LEMMA CopiedIs ==
    ASSUME dir \in Seq(MCChars)
    PROVE  LET d == State!Copied(dir)
           IN  /\ d \in Seq(TextChars) /\ Len(d) \in Nat /\ Len(d) < DirCap
               /\ State!Plain(dir) => \A i \in 1 .. Len(d) : d[i] \notin {"LF", "CR"}
<1>. DEFINE c == IF Len(dir) < DirCap THEN Len(dir) ELSE DirCap - 1  d == SubSeq(dir, 1, c)
<1>0. dir \in Seq(TextChars)
  BY DEF TextChars
<1>1. c \in Nat /\ c < DirCap /\ c <= Len(dir)
  BY StateAssumption
<1>. HIDE DEF c
<1>2. d \in Seq(TextChars) /\ Len(d) = c /\ \A i \in 1 .. c : d[i] = dir[i]
  BY <1>0, <1>1
<1>. HIDE DEF d
<1>3. State!Plain(dir) => \A i \in 1 .. c : d[i] \notin {"LF", "CR"}
  BY <1>1, <1>2 DEF State!Plain, State!Positions
<1>4. State!Copied(dir) = d
  BY DEF State!Copied, c, d
<1>. QED  BY <1>1, <1>2, <1>3, <1>4

\* A value of a field that is required, and that is not refused.
Required(k, v) ==
    (k \in {"pid", "port"} /\ State!IsNumber(v)) \/ (k = "receive_dir" /\ v # <<>>)

\* A line that was written is read for what it is.
LEMMA ReadsWritten ==
    ASSUME NEW k \in TextChars, NEW v \in Seq(TextChars), NEW p \in Nat,
           file \in Seq(TextChars), left = Rest(file, p), Shaped(state), State!ReadLine,
           HasLine(file, p, k, v), k \notin {"=", "LF"}, Len(v) + 3 < LineCap,
           \A i \in 1 .. Len(v) : v[i] \notin {"LF", "CR"}
    PROVE  /\ left' = Rest(file, p + (Len(v) + 3)) /\ Shaped(state')
           /\ Required(k, v) => have' = have \cup {k}
           /\ k \in {"web_url", "log_path"} => have' = have
           /\ Required(k, v) \/ k \in {"web_url", "log_path"} =>
                  state'[k] = v /\ \A f \in State!Fields \ {k} : state'[f] = state[f]
           /\ k \notin State!Fields => state' = state /\ have' = have
<1>. DEFINE m == Len(v) + 3  q == p + m  l == State!Fgets(left)
<1>1. /\ m \in Nat /\ m >= 3 /\ q \in Nat /\ p < q /\ q <= Len(file) /\ q - p = m /\ q - p < LineCap
  BY StateAssumption DEF HasLine
<1>2. /\ file[p + 1] = k /\ file[p + 2] = "=" /\ file[q] = "LF"
      /\ \A i \in 1 .. Len(v) : file[p + (2 + i)] = v[i]
  BY DEF HasLine
<1>. HIDE DEF m, q
<1>3. ASSUME NEW j \in p + 1 .. q - 1 PROVE file[j] # "LF"
  <2>. DEFINE i == j - p - 2
  <2>1. j = p + 1 \/ j = p + 2 \/ (i \in 1 .. Len(v) /\ p + (2 + i) = j)
    BY <1>1 DEF m
  <2>. HIDE DEF i
  <2>. QED  BY <1>2, <2>1
<1>4. /\ l \in Seq(TextChars) /\ Len(l) = q - p
      /\ \A i \in 1 .. q - p : l[i] = file[p + i]
      /\ SubSeq(left, Len(l) + 1, Len(left)) = Rest(file, q)
  <2>. DEFINE r == Rest(file, p)  g == State!Fgets(r)
  <2>1. /\ g \in Seq(TextChars) /\ Len(g) = q - p
        /\ \A i \in 1 .. q - p : g[i] = file[p + i]
        /\ SubSeq(r, Len(g) + 1, Len(r)) = Rest(file, q)
    BY <1>1, <1>2, <1>3, NextLine
  <2>2. left = r
    OBVIOUS
  <2>3. l = g
    BY <2>2
  <2>. HIDE DEF r, g, l
  <2>. QED  BY <2>1, <2>2, <2>3
<1>. HIDE DEF l
<1>5. HasLine(l, 0, k, v) /\ Len(l) = Len(v) + 3
  <2>1. 1 \in 1 .. q - p /\ 2 \in 1 .. q - p /\ m \in 1 .. q - p /\ p + m = q
    BY <1>1 DEF q
  <2>2. l[1] = k /\ l[2] = "=" /\ l[m] = "LF"
    BY <1>2, <1>4, <2>1
  <2>3. ASSUME NEW i \in 1 .. Len(v) PROVE l[2 + i] = v[i]
    <3>. DEFINE j == 2 + i
    <3>1. j \in 1 .. q - p /\ file[p + j] = v[i]
      BY <1>1, <1>2 DEF m
    <3>. HIDE DEF j
    <3>2. l[j] = v[i]
      BY <1>4, <3>1
    <3>. QED  BY <3>2 DEF j
  <2>4. Len(l) = Len(v) + 3
    BY <1>1, <1>4 DEF m
  <2>5. /\ 0 + Len(v) + 3 <= Len(l) /\ 0 + 1 = 1 /\ 0 + 2 = 2 /\ 0 + (Len(v) + 3) = m
        /\ \A i \in 1 .. Len(v) : 0 + (2 + i) = 2 + i
    BY <2>4 DEF m
  <2>. QED  BY <2>2, <2>3, <2>4, <2>5 DEF HasLine
<1>6. /\ State!Positions(l, {"="}) # {} /\ State!Until(l, {"="}) = <<k>>
      /\ State!Until(SubSeq(l, Len(<<k>>) + 2, Len(l)), {"LF", "CR"}) = v
  BY <1>4, <1>5, TakenApart
<1>7. left' = SubSeq(left, Len(l) + 1, Len(left)) /\ State!Assign(l)
  BY <1>6 DEF State!ReadLine, l
<1>8. /\ (k \in {"pid", "port"} /\ State!IsNumber(v)) \/ (k = "receive_dir" /\ v # <<>>) =>
             state' = [state EXCEPT ![k] = v] /\ have' = have \cup {k}
      /\ k \in {"web_url", "log_path"} => state' = [state EXCEPT ![k] = v] /\ have' = have
      /\ k \notin State!Fields => state' = state /\ have' = have
  BY <1>6, <1>7, Assigned
<1>9. Shaped(state')
  BY <1>7, StaysShaped
<1>10. ASSUME k \in State!Fields, state' = [state EXCEPT ![k] = v]
       PROVE  state'[k] = v /\ \A f \in State!Fields \ {k} : state'[f] = state[f]
  BY <1>10 DEF Shaped
<1>11. {"pid", "port", "receive_dir", "web_url", "log_path"} = State!Fields
  BY DEF State!Fields
<1>. QED  BY <1>4, <1>7, <1>8, <1>9, <1>10, <1>11 DEF q, m, Required

\* Inside the directory some line is read, and it ends with the directory at the
\* latest.
LEMMA ReadsBroken ==
    ASSUME NEW d \in Seq(TextChars), NEW p \in Nat, file \in Seq(TextChars),
           HasLine(file, 4, "receive_dir", d), 4 <= p, p < Len(d) + 7, Len(d) < DirCap,
           left = Rest(file, p), Shaped(state), State!ReadLine
    PROVE  /\ \E q \in p + 1 .. Len(d) + 7 : left' = Rest(file, q)
           /\ Shaped(state')
<1>. DEFINE e == Len(d) + 7  T == {j \in p + 1 .. e : file[j] = "LF"}  l == State!Fgets(left)
<1>1. e \in Nat /\ e <= Len(file) /\ p < e /\ 4 + (Len(d) + 3) = e
  BY DEF HasLine
<1>2. file[e] = "LF"
  BY <1>1 DEF HasLine
<1>3. e - p < LineCap
  BY StateAssumption
<1>. HIDE DEF e
<1>4. T \subseteq Nat /\ e \in T
  BY <1>1, <1>2
<1>5. PICK q \in T : \A y \in T : q <= y
  BY <1>4, LeastNumber
<1>6. q \in Nat /\ p < q /\ q <= e /\ file[q] = "LF" /\ q \in p + 1 .. e
  BY <1>1
<1>7. q <= Len(file) /\ q - p < LineCap
  BY <1>1, <1>3, <1>6, StateAssumption
<1>8. \A j \in p + 1 .. q - 1 : file[j] # "LF"
  BY <1>1, <1>5, <1>6
<1>9. SubSeq(left, Len(l) + 1, Len(left)) = Rest(file, q)
  BY <1>6, <1>7, <1>8, NextLine
<1>10. left' = SubSeq(left, Len(l) + 1, Len(left))
       /\ (State!Assign(l) \/ state' = state)
  BY DEF State!ReadLine
<1>11. Shaped(state')
  BY <1>10, StaysShaped
<1>. QED  BY <1>6, <1>9, <1>10, <1>11 DEF e

\* One turn of the loop.
LEMMA ReadLineStep ==
    ASSUME StateInv, State!ReadLine
    PROVE  StateInv'
<1>. DEFINE d == State!Copied(dir)  n == Len(d)  p == Done
<1>1. /\ phase = "reading" /\ dir' = dir /\ file' = file /\ phase' = phase /\ left # <<>>
  BY DEF State!ReadLine
<1>2. /\ dir \in Seq(MCChars) /\ Shaped(state) /\ d # <<>> /\ file = State!Format(d)
      /\ LaterInv /\ PlainInv
  BY <1>1 DEF StateInv
<1>3. /\ d \in Seq(TextChars) /\ n \in Nat /\ n < DirCap
      /\ State!Plain(dir) => \A i \in 1 .. n : d[i] \notin {"LF", "CR"}
  BY <1>2, CopiedIs
<1>. HIDE DEF d
<1>4. n >= 1
  BY <1>2, <1>3
<1>5. /\ file \in Seq(TextChars) /\ Len(file) = n + 23
      /\ HasLine(file, 0, "pid", <<"41">>) /\ HasLine(file, 4, "receive_dir", d)
      /\ HasLine(file, n + 7, "port", <<"8888">>) /\ HasLine(file, n + 11, "web_url", <<"url">>)
      /\ HasLine(file, n + 15, "log_path", <<"log">>)
      /\ HasLine(file, n + 19, "daemon_mode", <<"1">>)
  BY <1>2, <1>3, FormatLines
<1>6. DirLen = n /\ DirLen' = n /\ (State!Plain(dir)' <=> State!Plain(dir)) /\ State!Copied(dir)' = d
  BY <1>1 DEF DirLen, d, State!Copied, State!Plain, State!Positions
<1>. HIDE DEF n, p
<1>7. /\ left = Rest(file, p) /\ p \in 0 .. n + 23
      /\ \/ p \in {0, n + 7, n + 11, n + 15, n + 19, n + 23}
         \/ p = 4 \/ (p > 4 /\ p < n + 7 /\ ~State!Plain(dir))
      /\ p >= n + 11 => state["port"] = <<"8888">>
      /\ p >= n + 15 => state["web_url"] = <<"url">>
      /\ p >= n + 19 => state["log_path"] = <<"log">>
  BY <1>2, <1>6 DEF LaterInv, p
<1>8. State!Plain(dir) =>
        /\ p >= 4 => state["pid"] = <<"41">>
        /\ p >= n + 7 => state["receive_dir"] = d
        /\ p = 0 => have = {}
        /\ p = 4 => have = {"pid"}
        /\ p = n + 7 => have = {"pid", "receive_dir"}
        /\ p >= n + 11 => have = {"pid", "receive_dir", "port"}
  BY <1>2, <1>6 DEF PlainInv, p, d
<1>9. p # n + 23
  <2>1. p = n + 23 => Len(Rest(file, p)) = 0
    BY SMTT(40), <1>3, <1>5, <1>7, RestIs DEF n
  <2>2. Rest(file, p) \in Seq(TextChars)
    BY <1>5, <1>7, RestIs
  <2>. QED  BY <1>1, <1>7, <2>1, <2>2
<1>10. n \in Nat /\ n >= 1 /\ n + 3 < LineCap /\ 4 < LineCap
  BY <1>3, <1>4, StateAssumption DEF n
<1>11. ASSUME NEW q \in 0 .. n + 23, left' = Rest(file, q)
       PROVE  Done' = q
  <2>1. Len(Rest(file, q)) = (n + 23) - q
    <3>1. q \in 0 .. Len(file)
      BY <1>5
    <3>2. Len(Rest(file, q)) = Len(file) - q
      BY <1>5, <3>1, RestIs
    <3>3. Len(file) = n + 23
      BY <1>5
    <3>. QED  BY ONLY <3>2, <3>3
  <2>. QED  BY <1>1, <1>5, <1>10, <1>11, <2>1 DEF Done
<1>12. ASSUME NEW q \in 0 .. n + 23, left' = Rest(file, q), Shaped(state'),
              \/ q \in {0, n + 7, n + 11, n + 15, n + 19, n + 23}
              \/ q = 4 \/ (q > 4 /\ q < n + 7 /\ ~State!Plain(dir)),
              q >= n + 11 => state'["port"] = <<"8888">>,
              q >= n + 15 => state'["web_url"] = <<"url">>,
              q >= n + 19 => state'["log_path"] = <<"log">>,
              State!Plain(dir) =>
                /\ q >= 4 => state'["pid"] = <<"41">>
                /\ q >= n + 7 => state'["receive_dir"] = d
                /\ q = 0 => have' = {}
                /\ q = 4 => have' = {"pid"}
                /\ q = n + 7 => have' = {"pid", "receive_dir"}
                /\ q >= n + 11 => have' = {"pid", "receive_dir", "port"}
       PROVE  StateInv'
  <2>1. Done' = q
    BY <1>11, <1>12
  <2>2. LaterInv'
    BY <1>1, <1>6, <1>12, <2>1 DEF LaterInv
  <2>3. PlainInv'
    BY <1>6, <1>12, <2>1 DEF PlainInv
  <2>4. State!ReadsBack' /\ State!LaterFieldsAreOwn'
    BY <1>1 DEF State!ReadsBack, State!LaterFieldsAreOwn
  <2>5. State!Copied(dir)' # <<>> /\ file' = State!Format(State!Copied(dir))'
    <3>1. State!Format(State!Copied(dir))' = State!Format(d)
      BY <1>1 DEF State!Format, State!Copied, State!LineOf, d
    <3>. QED  BY <1>1, <1>2, <1>6, <3>1
  <2>. QED  BY <1>1, <1>2, <1>12, <2>2, <2>3, <2>4, <2>5 DEF StateInv
<1>13. /\ \A w \in {"41", "8888", "1", "url", "log"} :
             <<w>> \in Seq(TextChars) /\ Len(<<w>>) = 1 /\ \A i \in 1 .. 1 : <<w>>[i] \notin {"LF", "CR"}
       /\ State!IsNumber(<<"41">>) /\ State!IsNumber(<<"8888">>)
  BY DEF TextChars, State!IsNumber, MCNumbers
<1>14. /\ {"pid", "receive_dir", "port", "web_url", "log_path", "daemon_mode"} \subseteq TextChars
       /\ State!Fields = {"pid", "receive_dir", "port", "web_url", "log_path"}
  BY DEF TextChars, State!Fields
<1>15. CASE p = 0
  <2>. DEFINE v == <<"41">>
  <2>1. v \in Seq(TextChars) /\ Len(v) = 1 /\ \A i \in 1 .. Len(v) : v[i] \notin {"LF", "CR"}
    BY <1>13
  <2>2. Len(v) + 3 < LineCap /\ 0 + (Len(v) + 3) = 4
    BY <1>10, <2>1
  <2>. HIDE DEF v
  <2>3. /\ left' = Rest(file, 4) /\ Shaped(state') /\ have' = have \cup {"pid"}
        /\ state'["pid"] = v
    <3>. DEFINE k == "pid"  o == 0
    <3>1. /\ k \in TextChars /\ k \notin {"=", "LF"} /\ Required(k, v)
          /\ HasLine(file, o, k, v) /\ left = Rest(file, o) /\ o \in Nat
          /\ Len(v) + 3 < LineCap
      BY <1>5, <1>7, <1>13, <1>14, <1>15, <2>2 DEF v, Required
    <3>. HIDE DEF k, o
    <3>2. /\ left' = Rest(file, o + (Len(v) + 3)) /\ Shaped(state') /\ have' = have \cup {k} /\ state'[k] = v
          /\ \A f \in State!Fields \ {k} : state'[f] = state[f]
      <4>1. file \in Seq(TextChars) /\ Shaped(state) /\ State!ReadLine
        BY <1>2, <1>5
      <4>. QED  BY ONLY <2>1, <3>1, <4>1, ReadsWritten
    <3>. QED  BY <2>2, <3>2 DEF k, o
  <2>4. 4 \in 0 .. n + 23 /\ ~(4 >= n + 7) /\ ~(4 >= n + 11) /\ ~(4 >= n + 15) /\ ~(4 >= n + 19)
    BY <1>10
  <2>5. State!Plain(dir) => have' = {"pid"}
    BY <1>8, <1>15, <2>3
  <2>. QED  BY <1>10, <1>12, <2>3, <2>4, <2>5 DEF v
<1>16. CASE p >= 4 /\ p < n + 7 /\ ~State!Plain(dir)
  <2>1. \E q \in p + 1 .. n + 7 : left' = Rest(file, q)
    BY <1>2, <1>3, <1>5, <1>7, <1>16, ReadsBroken DEF n
  <2>2. Shaped(state')
    BY <1>2, <1>3, <1>5, <1>7, <1>16, ReadsBroken DEF n
  <2>3. PICK q \in p + 1 .. n + 7 : left' = Rest(file, q)
    BY <2>1
  <2>4. /\ q \in 0 .. n + 23 /\ ~(q >= n + 11) /\ ~(q >= n + 15) /\ ~(q >= n + 19)
        /\ q = n + 7 \/ (q > 4 /\ q < n + 7)
    BY <1>7, <1>10, <1>16
  <2>. QED  BY <1>12, <1>16, <2>2, <2>3, <2>4
<1>17. CASE p = 4 /\ State!Plain(dir)
  <2>1. /\ left' = Rest(file, 4 + (n + 3)) /\ Shaped(state') /\ have' = have \cup {"receive_dir"}
        /\ state'["receive_dir"] = d /\ state'["pid"] = state["pid"]
    <3>. DEFINE k == "receive_dir"  o == 4
    <3>1. /\ k \in TextChars /\ k \notin {"=", "LF"} /\ Required(k, d) /\ HasLine(file, o, k, d)
          /\ left = Rest(file, o) /\ Len(d) + 3 < LineCap /\ o \in Nat
          /\ \A i \in 1 .. Len(d) : d[i] \notin {"LF", "CR"}
      BY <1>2, <1>3, <1>5, <1>7, <1>10, <1>14, <1>17 DEF n, Required
    <3>. HIDE DEF k, o
    <3>2. /\ left' = Rest(file, o + (Len(d) + 3)) /\ Shaped(state') /\ have' = have \cup {k}
          /\ state'[k] = d
          /\ \A f \in State!Fields \ {k} : state'[f] = state[f]
      BY <1>2, <1>3, <1>5, <3>1, ReadsWritten
    <3>. QED  BY <1>14, <3>2 DEF n, k, o
  <2>2. 4 + (n + 3) = n + 7 /\ n + 7 \in 0 .. n + 23 /\ n + 7 # 0 /\ n + 7 # 4 /\ 4 >= 4
        /\ ~(n + 7 >= n + 11) /\ ~(n + 7 >= n + 15) /\ ~(n + 7 >= n + 19)
    BY <1>10
  <2>3. have' = {"pid", "receive_dir"} /\ state'["pid"] = <<"41">>
    BY <1>8, <1>17, <2>1, <2>2
  <2>4. left' = Rest(file, n + 7)
    BY <2>1, <2>2
  <2>. QED  BY <1>12, <2>1, <2>2, <2>3, <2>4
<1>18. CASE p = n + 7
  <2>. DEFINE v == <<"8888">>
  <2>1. v \in Seq(TextChars) /\ Len(v) = 1 /\ \A i \in 1 .. Len(v) : v[i] \notin {"LF", "CR"}
    BY <1>13
  <2>2. /\ Len(v) + 3 < LineCap /\ (n + 7) + (Len(v) + 3) = n + 11 /\ n + 7 \in Nat
        /\ n + 11 \in 0 .. n + 23 /\ n + 11 # 0 /\ n + 11 # 4 /\ n + 11 # n + 7 /\ n + 7 >= 4
        /\ ~(n + 11 >= n + 15) /\ ~(n + 11 >= n + 19) /\ n + 7 >= n + 7
    BY <1>10, <2>1
  <2>. HIDE DEF v
  <2>3. /\ left' = Rest(file, n + 11) /\ Shaped(state') /\ have' = have \cup {"port"}
        /\ state'["port"] = v /\ \A f \in State!Fields \ {"port"} : state'[f] = state[f]
    <3>. DEFINE k == "port"  o == n + 7
    <3>1. /\ k \in TextChars /\ k \notin {"=", "LF"} /\ Required(k, v)
          /\ HasLine(file, o, k, v) /\ left = Rest(file, o) /\ o \in Nat
          /\ Len(v) + 3 < LineCap
      BY <1>5, <1>7, <1>13, <1>14, <1>18, <2>2 DEF v, Required
    <3>. HIDE DEF k, o
    <3>2. /\ left' = Rest(file, o + (Len(v) + 3)) /\ Shaped(state') /\ have' = have \cup {k} /\ state'[k] = v
          /\ \A f \in State!Fields \ {k} : state'[f] = state[f]
      <4>1. file \in Seq(TextChars) /\ Shaped(state) /\ State!ReadLine
        BY <1>2, <1>5
      <4>. QED  BY ONLY <2>1, <3>1, <4>1, ReadsWritten
    <3>. QED  BY <2>2, <3>2 DEF k, o
  <2>4. state'["pid"] = state["pid"] /\ state'["receive_dir"] = state["receive_dir"]
    BY <1>14, <2>3
  <2>5. State!Plain(dir) => /\ have' = {"pid", "receive_dir", "port"}
                            /\ state'["pid"] = <<"41">> /\ state'["receive_dir"] = d
    BY <1>8, <1>18, <2>2, <2>3, <2>4
  <2>. QED  BY <1>12, <2>2, <2>3, <2>5 DEF v
<1>19. CASE p = n + 11
  <2>. DEFINE v == <<"url">>
  <2>1. v \in Seq(TextChars) /\ Len(v) = 1 /\ \A i \in 1 .. Len(v) : v[i] \notin {"LF", "CR"}
    BY <1>13
  <2>2. /\ Len(v) + 3 < LineCap /\ (n + 11) + (Len(v) + 3) = n + 15 /\ n + 11 \in Nat
        /\ n + 15 \in 0 .. n + 23 /\ n + 15 # 0 /\ n + 15 # 4 /\ n + 15 # n + 7 /\ n + 11 >= 4
        /\ ~(n + 15 >= n + 19) /\ n + 11 >= n + 7 /\ n + 11 >= n + 11
    BY <1>10, <2>1
  <2>. HIDE DEF v
  <2>3. /\ left' = Rest(file, n + 15) /\ Shaped(state') /\ have' = have
        /\ state'["web_url"] = v /\ \A f \in State!Fields \ {"web_url"} : state'[f] = state[f]
    <3>. DEFINE k == "web_url"  o == n + 11
    <3>1. /\ k \in TextChars /\ k \notin {"=", "LF"} /\ k \in {"web_url", "log_path"}
          /\ HasLine(file, o, k, v) /\ left = Rest(file, o) /\ o \in Nat
          /\ Len(v) + 3 < LineCap
      BY <1>5, <1>7, <1>14, <1>19, <2>2 DEF v
    <3>. HIDE DEF k, o
    <3>2. /\ left' = Rest(file, o + (Len(v) + 3)) /\ Shaped(state') /\ have' = have /\ state'[k] = v
          /\ \A f \in State!Fields \ {k} : state'[f] = state[f]
      <4>1. file \in Seq(TextChars) /\ Shaped(state) /\ State!ReadLine
        BY <1>2, <1>5
      <4>. QED  BY ONLY <2>1, <3>1, <4>1, ReadsWritten
    <3>. QED  BY <2>2, <3>2 DEF k, o
  <2>4. /\ state'["pid"] = state["pid"] /\ state'["receive_dir"] = state["receive_dir"]
        /\ state'["port"] = state["port"]
    BY <1>14, <2>3
  <2>5. State!Plain(dir) => /\ have' = {"pid", "receive_dir", "port"}
                            /\ state'["pid"] = <<"41">> /\ state'["receive_dir"] = d
    BY <1>8, <1>19, <2>2, <2>3, <2>4
  <2>6. state'["port"] = <<"8888">>
    BY <1>7, <1>19, <2>2, <2>4
  <2>. QED  BY <1>12, <2>2, <2>3, <2>5, <2>6 DEF v
<1>20. CASE p = n + 15
  <2>. DEFINE v == <<"log">>
  <2>1. v \in Seq(TextChars) /\ Len(v) = 1 /\ \A i \in 1 .. Len(v) : v[i] \notin {"LF", "CR"}
    BY <1>13
  <2>2. /\ Len(v) + 3 < LineCap /\ (n + 15) + (Len(v) + 3) = n + 19 /\ n + 15 \in Nat
        /\ n + 19 \in 0 .. n + 23 /\ n + 19 # 0 /\ n + 19 # 4 /\ n + 19 # n + 7 /\ n + 15 >= 4
        /\ n + 15 >= n + 7 /\ n + 15 >= n + 11 /\ n + 15 >= n + 15
    BY <1>10, <2>1
  <2>. HIDE DEF v
  <2>3. /\ left' = Rest(file, n + 19) /\ Shaped(state') /\ have' = have
        /\ state'["log_path"] = v /\ \A f \in State!Fields \ {"log_path"} : state'[f] = state[f]
    <3>. DEFINE k == "log_path"  o == n + 15
    <3>1. /\ k \in TextChars /\ k \notin {"=", "LF"} /\ k \in {"web_url", "log_path"}
          /\ HasLine(file, o, k, v) /\ left = Rest(file, o) /\ o \in Nat
          /\ Len(v) + 3 < LineCap
      BY <1>5, <1>7, <1>14, <1>20, <2>2 DEF v
    <3>. HIDE DEF k, o
    <3>2. /\ left' = Rest(file, o + (Len(v) + 3)) /\ Shaped(state') /\ have' = have /\ state'[k] = v
          /\ \A f \in State!Fields \ {k} : state'[f] = state[f]
      <4>1. file \in Seq(TextChars) /\ Shaped(state) /\ State!ReadLine
        BY <1>2, <1>5
      <4>. QED  BY ONLY <2>1, <3>1, <4>1, ReadsWritten
    <3>. QED  BY <2>2, <3>2 DEF k, o
  <2>4. /\ state'["pid"] = state["pid"] /\ state'["receive_dir"] = state["receive_dir"]
        /\ state'["port"] = state["port"] /\ state'["web_url"] = state["web_url"]
    BY <1>14, <2>3
  <2>5. State!Plain(dir) => /\ have' = {"pid", "receive_dir", "port"}
                            /\ state'["pid"] = <<"41">> /\ state'["receive_dir"] = d
    BY <1>8, <1>20, <2>2, <2>3, <2>4
  <2>6. state'["port"] = <<"8888">> /\ state'["web_url"] = <<"url">>
    BY <1>7, <1>20, <2>2, <2>4
  <2>. QED  BY <1>12, <2>2, <2>3, <2>5, <2>6 DEF v
<1>21. CASE p = n + 19
  <2>. DEFINE v == <<"1">>
  <2>1. v \in Seq(TextChars) /\ Len(v) = 1 /\ \A i \in 1 .. Len(v) : v[i] \notin {"LF", "CR"}
    BY <1>13
  <2>2. /\ Len(v) + 3 < LineCap /\ (n + 19) + (Len(v) + 3) = n + 23 /\ n + 19 \in Nat
        /\ n + 23 \in 0 .. n + 23 /\ n + 23 # 0 /\ n + 23 # 4 /\ n + 23 # n + 7 /\ n + 19 >= 4
        /\ n + 19 >= n + 7 /\ n + 19 >= n + 11 /\ n + 19 >= n + 15 /\ n + 19 >= n + 19
    BY <1>10, <2>1
  <2>. HIDE DEF v
  <2>3. left' = Rest(file, n + 23) /\ Shaped(state') /\ have' = have /\ state' = state
    <3>. DEFINE k == "daemon_mode"  o == n + 19
    <3>1. /\ k \in TextChars /\ k \notin {"=", "LF"} /\ k \notin State!Fields
          /\ HasLine(file, o, k, v) /\ left = Rest(file, o) /\ o \in Nat
          /\ Len(v) + 3 < LineCap
      BY <1>5, <1>7, <1>14, <1>21, <2>2 DEF v
    <3>. HIDE DEF k, o
    <3>2. /\ left' = Rest(file, o + (Len(v) + 3)) /\ Shaped(state') /\ have' = have /\ state' = state
      <4>1. file \in Seq(TextChars) /\ Shaped(state) /\ State!ReadLine
        BY <1>2, <1>5
      <4>. QED  BY ONLY ZenonT(60), <2>1, <3>1, <4>1, ReadsWritten
    <3>. QED  BY <2>2, <3>2 DEF k, o
  <2>. QED  BY <1>7, <1>8, <1>12, <1>21, <2>2, <2>3
<1>22. (p >= 4 /\ p < n + 7) \/ p \in {0, n + 7, n + 11, n + 15, n + 19}
  BY <1>7, <1>9, <1>10
<1>23. State!Plain(dir) => p = 4 \/ p \in {0, n + 7, n + 11, n + 15, n + 19}
  BY <1>7, <1>9
<1>. QED  BY <1>15, <1>16, <1>17, <1>18, <1>19, <1>20, <1>21, <1>22, <1>23

\* The end of the file: everything that is required was there.
LEMMA ReadEndStep ==
    ASSUME StateInv, State!ReadEnd
    PROVE  StateInv'
<1>1. /\ phase = "reading" /\ left = <<>> /\ dir' = dir /\ file' = file /\ left' = left
      /\ state' = state /\ have' = have
      /\ phase' = IF have = {"pid", "receive_dir", "port"} THEN "read" ELSE "failed"
  BY DEF State!ReadEnd
<1>. DEFINE d == State!Copied(dir)
<1>2. /\ dir \in Seq(MCChars) /\ Shaped(state) /\ d # <<>> /\ file = State!Format(d)
      /\ LaterInv /\ PlainInv
  BY <1>1 DEF StateInv
<1>3. d \in Seq(TextChars) /\ Len(d) \in Nat
  BY <1>2, CopiedIs
<1>4. Len(file) = Len(d) + 23
  BY <1>2, <1>3, FormatLines
<1>. HIDE DEF d
<1>5. Done = Len(d) + 23
  BY <1>1, <1>3, <1>4 DEF Done
<1>6. DirLen = Len(d)
  BY DEF DirLen, d
<1>7. state["port"] = <<"8888">> /\ state["web_url"] = <<"url">> /\ state["log_path"] = <<"log">>
  BY <1>2, <1>3, <1>5, <1>6 DEF LaterInv
<1>8. State!Plain(dir) => /\ state["pid"] = <<"41">> /\ state["receive_dir"] = d
                          /\ have = {"pid", "receive_dir", "port"}
  BY <1>2, <1>3, <1>5, <1>6 DEF PlainInv, d
<1>9. State!Plain(dir)' <=> State!Plain(dir)
  BY <1>1 DEF State!Plain, State!Positions
<1>10. State!Copied(dir)' = d /\ State!Format(State!Copied(dir))' = State!Format(d)
  BY <1>1 DEF State!Copied, State!Format, State!LineOf, d
<1>11. State!LaterFieldsAreOwn'
  BY <1>1, <1>7 DEF State!LaterFieldsAreOwn
<1>12. State!ReadsBack'
  <2>1. ASSUME State!Plain(dir)
        PROVE  state = [pid |-> <<"41">>, receive_dir |-> d, port |-> <<"8888">>,
                        web_url |-> <<"url">>, log_path |-> <<"log">>]
    BY <1>2, <1>7, <1>8, <2>1 DEF Shaped, State!Fields
  <2>. QED  BY <1>1, <1>8, <1>9, <1>10, <2>1 DEF State!ReadsBack
<1>. QED  BY <1>1, <1>2, <1>10, <1>11, <1>12 DEF StateInv

\* The steps before the file is read.
LEMMA WritingSteps ==
    ASSUME StateInv, (\E c \in MCChars : State!Choose(c)) \/ State!Write \/ State!Open
    PROVE  StateInv'
<1>1. ASSUME NEW c \in MCChars, State!Choose(c) PROVE StateInv'
  <2>1. /\ phase = "typing" /\ dir' = Append(dir, c) /\ file' = file /\ phase' = phase
        /\ state' = state
    BY <1>1 DEF State!Choose
  <2>2. dir' \in Seq(MCChars)
    BY <2>1 DEF StateInv
  <2>3. State!ReadsBack' /\ State!LaterFieldsAreOwn'
    BY <2>1 DEF State!ReadsBack, State!LaterFieldsAreOwn
  <2>. QED  BY <2>1, <2>2, <2>3 DEF StateInv
<1>2. ASSUME State!Write PROVE StateInv'
  <2>1. /\ phase = "typing" /\ file = State!None /\ dir' = dir /\ state' = state
        /\ \/ /\ State!Copied(dir) # <<>> /\ file' = State!Format(State!Copied(dir))
              /\ phase' = "written"
           \/ file' = file /\ phase' = "failed"
    BY SMTT(40), <1>2 DEF State!Write, StateInv
  <2>2. /\ State!Copied(dir)' = State!Copied(dir)
        /\ State!Format(State!Copied(dir))' = State!Format(State!Copied(dir))
    BY <2>1 DEF State!Copied, State!Format, State!LineOf
  <2>3. State!ReadsBack' /\ State!LaterFieldsAreOwn'
    BY <2>1 DEF State!ReadsBack, State!LaterFieldsAreOwn, State!None
  <2>. QED  BY <2>1, <2>2, <2>3 DEF StateInv
<1>3. ASSUME State!Open PROVE StateInv'
  <2>. DEFINE d == State!Copied(dir)
  <2>1. /\ phase = "written" /\ phase' = "reading" /\ left' = file /\ state' = State!Cleared
        /\ have' = {} /\ dir' = dir /\ file' = file
    BY <1>3 DEF State!Open
  <2>2. /\ dir \in Seq(MCChars) /\ d # <<>> /\ file = State!Format(d)
    BY <2>1 DEF StateInv
  <2>3. d \in Seq(TextChars) /\ Len(d) \in Nat
    BY <2>2, CopiedIs
  <2>4. file \in Seq(TextChars)
    BY <2>2, <2>3, FormatLines
  <2>5. /\ State!Copied(dir)' = d /\ State!Format(State!Copied(dir))' = State!Format(d)
        /\ DirLen' = Len(d)
    BY <2>1 DEF State!Copied, State!Format, State!LineOf, DirLen
  <2>6. Done' = 0
    BY <2>1, <2>4 DEF Done
  <2>7. Rest(file, 0) = file
    <3>. DEFINE r == Rest(file, 0)
    <3>1. 0 \in 0 .. Len(file)
      BY <2>4
    <3>2. /\ r \in Seq(TextChars) /\ Len(r) = Len(file) - 0
          /\ \A i \in 1 .. Len(file) - 0 : r[i] = file[0 + i]
      BY <2>4, <3>1, RestIs
    <3>. HIDE DEF r
    <3>3. Len(r) = Len(file) /\ \A i \in 1 .. Len(r) : r[i] = file[i]
      BY <2>4, <3>2
    <3>4. r = file
      BY <2>4, <3>2, <3>3, SeqEqual
    <3>. QED  BY <3>4 DEF r
  <2>. HIDE DEF d
  <2>8. 0 \in 0 .. Len(d) + 23 /\ ~(0 >= Len(d) + 7) /\ ~(0 >= Len(d) + 11) /\ ~(0 >= Len(d) + 15)
        /\ ~(0 >= Len(d) + 19) /\ 0 # Len(d) + 7
    BY <2>3
  <2>9. LaterInv'
    BY <2>1, <2>5, <2>6, <2>7, <2>8 DEF LaterInv
  <2>10. PlainInv'
    BY <2>1, <2>5, <2>6, <2>8 DEF PlainInv
  <2>11. Shaped(state')
    BY <2>1 DEF Shaped, State!Cleared
  <2>12. State!ReadsBack' /\ State!LaterFieldsAreOwn'
    BY <2>1 DEF State!ReadsBack, State!LaterFieldsAreOwn
  <2>. QED  BY <2>1, <2>2, <2>5, <2>9, <2>10, <2>11, <2>12 DEF StateInv
<1>. QED  BY <1>1, <1>2, <1>3

\* A step of another conversion leaves the state file alone.
LEMMA StateUntouched == StateInv /\ UNCHANGED stateVars => StateInv'
<1>. SUFFICES ASSUME StateInv, UNCHANGED stateVars PROVE StateInv'
  OBVIOUS
<1>1. /\ dir' = dir /\ file' = file /\ phase' = phase /\ left' = left /\ state' = state
      /\ have' = have
  BY DEF stateVars
<1>2. State!Plain(dir)' <=> State!Plain(dir)
  BY <1>1 DEF State!Plain, State!Positions
<1>3. /\ State!Copied(dir)' = State!Copied(dir) /\ Done' = Done /\ DirLen' = DirLen
      /\ State!Format(State!Copied(dir))' = State!Format(State!Copied(dir))
  BY <1>1 DEF State!Copied, State!Format, State!LineOf, Done, DirLen
<1>4. (LaterInv' <=> LaterInv) /\ (PlainInv' <=> PlainInv)
  BY <1>1, <1>2, <1>3 DEF LaterInv, PlainInv
<1>5. State!ReadsBack' /\ State!LaterFieldsAreOwn'
  BY <1>1, <1>2, <1>3 DEF StateInv, State!ReadsBack, State!LaterFieldsAreOwn
<1>. QED  BY <1>1, <1>3, <1>4, <1>5 DEF StateInv

\* How far the state file was read, and what was made of it: the invariant of
\* StateText, for directories of every length.
THEOREM StateInvariant == InputSpec => []StateInv
<1>1. InputInit => StateInv
  <2>. SUFFICES ASSUME State!Init PROVE StateInv
    BY DEF InputInit
  <2>1. dir = <<>> /\ file = State!None /\ phase = "typing" /\ state = State!Cleared
    BY DEF State!Init
  <2>2. Shaped(state)
    BY <2>1 DEF Shaped, State!Cleared
  <2>3. State!ReadsBack /\ State!LaterFieldsAreOwn
    BY <2>1 DEF State!ReadsBack, State!LaterFieldsAreOwn
  <2>. QED  BY <2>1, <2>2, <2>3 DEF StateInv
<1>2. StateInv /\ State!Next => StateInv'
  BY WritingSteps, ReadLineStep, ReadEndStep DEF State!Next
<1>3. StateInv /\ [InputNext]_<<input, vars, pathVars, messageVars, lineVars, frameVars, stateVars>>
        => StateInv'
  <2>1. [InputNext]_<<input, vars, pathVars, messageVars, lineVars, frameVars, stateVars>>
          => State!Next \/ UNCHANGED stateVars
    BY DEF InputNext
  <2>. QED  BY <1>2, <2>1, StateUntouched
<1>. QED  BY <1>1, <1>3, PTL DEF InputSpec

\* What daemon_state_write wrote, daemon_state_read reads; a line break in the
\* name of the directory cannot replace what follows it.
THEOREM StateReadsBackHolds == InputSpec => []StateReadsBack
<1>1. StateInv => StateReadsBack
  BY DEF StateInv, StateReadsBack
<1>. QED  BY <1>1, StateInvariant, PTL
=============================================================================
