------------------------- MODULE DirectoryBridgeProofs -------------------------
(***************************************************************************)
(* Proofs about DirectoryBridge for every bound on the response length:    *)
(* the body fetch_consensus hands to process_consensus is what follows the *)
(* first blank line of the response, or the whole response when it has     *)
(* none.  The search of the code (the first window(4) equal to \r\n\r\n,   *)
(* plus 4) is shown equal to the reference (the shortest prefix ending in  *)
(* the separator, and what follows it).                                    *)
(***************************************************************************)
EXTENDS DirectoryBridge, WellFoundedInduction, SequenceTheorems, TLAPS

USE MaxLenAssumption

(* A window of four bytes is a given four-byte sequence exactly when it   *)
(* agrees with it byte by byte.                                            *)
LEMMA Window4 ==
    ASSUME NEW s, NEW a \in Int, \A i \in a..(a + 3) : s[i] \in Bytes,
           NEW w \in Seq(Bytes), Len(w) = 4
    PROVE  SubSeq(s, a, a + 3) = w <=> \A k \in 1..4 : s[a + k - 1] = w[k]
<1>1. /\ SubSeq(s, a, a + 3) \in Seq(Bytes)
      /\ Len(SubSeq(s, a, a + 3)) = 4
      /\ \A k \in 1..4 : SubSeq(s, a, a + 3)[k] = s[a + k - 1]
  BY SubSeqProperties
<1>2. (\A k \in 1..4 : s[a + k - 1] = w[k]) => SubSeq(s, a, a + 3) = w
  BY <1>1, SeqEqual
<1>. QED
  BY <1>1, <1>2

(* Reverse of a sequence of bytes.                                         *)
LEMMA ReverseFacts ==
    ASSUME NEW s \in Seq(Bytes)
    PROVE  /\ Reverse(s) \in Seq(Bytes)
           /\ Len(Reverse(s)) = Len(s)
           /\ \A k \in 1..Len(s) : Reverse(s)[k] = s[Len(s) - k + 1]
<1>1. Reverse(s) \in [1..Len(s) -> Bytes]
  BY DEF Reverse
<1>2. Reverse(s) \in Seq(Bytes)
  BY <1>1
<1>. QED
  BY <1>1, <1>2 DEF Reverse

(* A prefix of the response of length l ends in the separator exactly when *)
(* the window starting at l - 3 is the separator.                          *)
LEMMA SuffixSep ==
    ASSUME NEW r \in Seq(Bytes), NEW l \in 0..Len(r)
    PROVE  IsSuffix(Sep, SubSeq(r, 1, l)) <=> l - 3 \in SepAt(r)
<1> DEFINE q == SubSeq(r, 1, l)
           C == r[l - 3] = CR /\ r[l - 2] = LF /\ r[l - 1] = CR /\ r[l] = LF
<1>1. /\ \A i \in 1..Len(r) : r[i] \in Bytes
      /\ q \in Seq(Bytes) /\ Len(q) = l /\ \A k \in 1..l : q[k] = r[k]
  <2>1. \A i \in 1..Len(r) : r[i] \in Bytes
    BY ElementOfSeq
  <2>. QED
    BY <2>1, SubSeqProperties
<1>2. /\ Sep \in Seq(Bytes) /\ Len(Sep) = 4
      /\ Reverse(Sep) \in Seq(Bytes) /\ Len(Reverse(Sep)) = 4
      /\ \A k \in 1..4 : Reverse(Sep)[k] = Sep[4 - k + 1]
  <2>1. Sep \in Seq(Bytes) /\ Len(Sep) = 4
    BY DEF Sep, Bytes
  <2>. QED
    BY <2>1, ReverseFacts
<1>3. /\ Reverse(q) \in Seq(Bytes) /\ Len(Reverse(q)) = l
      /\ \A k \in 1..l : Reverse(q)[k] = r[l - k + 1]
  <2>1. /\ Reverse(q) \in Seq(Bytes) /\ Len(Reverse(q)) = Len(q)
        /\ \A k \in 1..Len(q) : Reverse(q)[k] = q[Len(q) - k + 1]
    BY <1>1, ReverseFacts
  <2>. QED
    BY <1>1, <2>1
<1>4. CASE l < 4
  <2>1. ~IsSuffix(Sep, q)
    BY <1>2, <1>3, <1>4 DEF IsSuffix, IsPrefix
  <2>2. l - 3 \notin SepAt(r)
    BY <1>4 DEF SepAt
  <2>. QED
    BY <2>1, <2>2
<1>5. CASE l >= 4
  <2>1. SubSeq(Reverse(Sep), 1, Len(Reverse(Sep))) = Reverse(Sep)
    BY <1>2, SubSeqFull
  <2>2. IsSuffix(Sep, q) <=> SubSeq(Reverse(q), 1, 1 + 3) = Reverse(Sep)
    BY <1>2, <1>3, <1>5, <2>1 DEF IsSuffix, IsPrefix
  <2>3. SubSeq(Reverse(q), 1, 1 + 3) = Reverse(Sep)
        <=> \A k \in 1..4 : Reverse(q)[1 + k - 1] = Reverse(Sep)[k]
    <3>1. \A i \in 1..(1 + 3) : Reverse(q)[i] \in Bytes
      BY <1>3, <1>5, ElementOfSeq
    <3>. QED
      BY <1>2, <3>1, Window4
  <2>4. (\A k \in 1..4 : Reverse(q)[1 + k - 1] = Reverse(Sep)[k]) <=> C
    <3>1. \A k \in 1..4 : Reverse(q)[1 + k - 1] = r[l - k + 1]
      BY <1>3, <1>5
    <3>2. \A k \in 1..4 : Reverse(Sep)[k] = Sep[4 - k + 1]
      BY <1>2
    <3>3. (\A k \in 1..4 : r[l - k + 1] = Sep[4 - k + 1]) <=> C
      BY DEF Sep
    <3>. QED
      BY <3>1, <3>2, <3>3
  <2>5. l - 3 \in SepAt(r) <=> SubSeq(r, l - 3, l - 3 + 3) = Sep
    BY <1>5 DEF SepAt
  <2>6. SubSeq(r, l - 3, l - 3 + 3) = Sep <=> \A k \in 1..4 : r[l - 3 + k - 1] = Sep[k]
    BY <1>1, <1>2, <1>5, Window4
  <2>7. (\A k \in 1..4 : r[l - 3 + k - 1] = Sep[k]) <=> C
    BY <1>5 DEF Sep
  <2>. QED
    BY <2>2, <2>3, <2>4, <2>5, <2>6, <2>7
<1>. QED
  BY <1>4, <1>5

(* The prefixes ending in the separator are those that end at a window    *)
(* SepAt finds, three bytes after its start.                               *)
LEMMA HeaderPrefixesSepAt ==
    ASSUME NEW r \in Seq(Bytes)
    PROVE  /\ \A p \in HeaderPrefixes(r) : \E i \in SepAt(r) : p = SubSeq(r, 1, i + 3)
           /\ \A i \in SepAt(r) : /\ SubSeq(r, 1, i + 3) \in HeaderPrefixes(r)
                                 /\ Len(SubSeq(r, 1, i + 3)) = i + 3
<1>1. ASSUME NEW p \in HeaderPrefixes(r)
      PROVE  \E i \in SepAt(r) : p = SubSeq(r, 1, i + 3)
  <2>1. PICK l \in 0..Len(r) : p = SubSeq(r, 1, l) /\ IsSuffix(Sep, p)
    BY DEF HeaderPrefixes, Prefixes
  <2>2. l - 3 \in SepAt(r)
    BY <2>1, SuffixSep
  <2>3. p = SubSeq(r, 1, (l - 3) + 3)
    BY <2>1
  <2>. QED
    BY <2>2, <2>3, Zenon
<1>2. ASSUME NEW i \in SepAt(r)
      PROVE  /\ SubSeq(r, 1, i + 3) \in HeaderPrefixes(r)
             /\ Len(SubSeq(r, 1, i + 3)) = i + 3
  <2>1. i + 3 \in 0..Len(r) /\ i \in Nat
    BY DEF SepAt
  <2>2. IsSuffix(Sep, SubSeq(r, 1, i + 3))
    BY <2>1, SuffixSep
  <2>3. Len(SubSeq(r, 1, i + 3)) = i + 3
    BY <2>1, ElementOfSeq, SubSeqProperties
  <2>. QED
    BY <2>1, <2>2, <2>3 DEF HeaderPrefixes, Prefixes
<1>. QED
  BY <1>1, <1>2

(* A non-empty set of naturals has a least element.                        *)
LEMMA NatMin ==
    ASSUME NEW S \in SUBSET Nat, S # {}
    PROVE  \E m \in S : \A j \in S : m <= j
<1>1. PICK x \in S : \A y \in S : ~(<<y, x>> \in OpToRel(<, Nat))
  BY NatLessThanWellFounded, WFMin
<1>2. \A y \in S : ~(y < x)
  BY <1>1, Zenon DEF OpToRel
<1>. QED
  BY <1>2

(* skip_http_headers computes the reference body for every response.      *)
LEMMA SkipHeadersRef ==
    ASSUME NEW r \in Seq(Bytes)
    PROVE  SkipHeaders(r) = RefBody(r)
<1>1. CASE SepAt(r) = {}
  <2>1. HeaderPrefixes(r) = {}
    BY <1>1, HeaderPrefixesSepAt
  <2>2. SubSeq(r, 1, Len(r)) = r
    BY SubSeqFull
  <2>. QED
    BY <1>1, <2>1, <2>2 DEF SkipHeaders, BodyStart, RefBody
<1>2. CASE SepAt(r) # {}
  <2>0. SepAt(r) \subseteq Nat
    BY DEF SepAt
  <2>1. PICK m \in SepAt(r) : \A j \in SepAt(r) : m <= j
    BY <1>2, <2>0, NatMin
  <2>2. BodyStart(r) = m + 4
    <3>1. (CHOOSE i \in SepAt(r) : \A j \in SepAt(r) : i <= j) = m
      <4> DEFINE c == CHOOSE i \in SepAt(r) : \A j \in SepAt(r) : i <= j
      <4>1. c \in SepAt(r) /\ \A j \in SepAt(r) : c <= j
        BY <2>1
      <4>. QED
        BY <2>0, <2>1, <4>1
    <3>. QED
      BY <1>2, <3>1 DEF BodyStart
  <2>3. DEFINE HP == HeaderPrefixes(r)
               p0 == CHOOSE q \in HP : \A q2 \in HP : Len(q) <= Len(q2)
  <2>4. /\ SubSeq(r, 1, m + 3) \in HP
        /\ \A q2 \in HP : Len(SubSeq(r, 1, m + 3)) <= Len(q2)
    BY <2>1, HeaderPrefixesSepAt DEF SepAt
  <2>5. p0 \in HP /\ \A q2 \in HP : Len(p0) <= Len(q2)
    BY <2>4
  <2>6. Len(p0) = m + 3
    <3>1. PICK i \in SepAt(r) : p0 = SubSeq(r, 1, i + 3)
      BY <2>5, HeaderPrefixesSepAt
    <3>2. Len(p0) = i + 3 /\ m <= i
      BY <3>1, <2>1, HeaderPrefixesSepAt
    <3>3. Len(p0) <= m + 3
      BY <2>4, <2>5, HeaderPrefixesSepAt
    <3>. QED
      BY <3>2, <3>3 DEF SepAt
  <2>7. RefBody(r) = SubSeq(r, Len(p0) + 1, Len(r))
    BY <2>4 DEF RefBody
  <2>8. SubSeq(r, Len(p0) + 1, Len(r)) = SubSeq(r, m + 4, Len(r))
    <3>1. m \in Nat
      BY <2>0
    <3>2. Len(p0) + 1 = m + 4
      BY <3>1, <2>6
    <3>. QED
      BY <3>2
  <2>. QED
    BY <2>2, <2>7, <2>8 DEF SkipHeaders
<1>. QED
  BY <1>1, <1>2

-----------------------------------------------------------------------------
(* The response is a byte sequence, and once the stream has ended the body *)
(* is what SkipHeaders makes of it.                                        *)
IInv ==
    /\ response \in Seq(Bytes)
    /\ pc \in {"processing", "done"} => body = SkipHeaders(response)

LEMMA InitIInv == Init => IInv
BY DEF Init, IInv

LEMMA StepIInv == IInv /\ [Next]_vars => IInv'
<1> SUFFICES ASSUME IInv, [Next]_vars PROVE IInv'
  OBVIOUS
<1>1. CASE NewTunnel \/ CreateFirstHop \/ BeginDirStream \/ SendRequest
  BY <1>1 DEF NewTunnel, CreateFirstHop, BeginDirStream, SendRequest, Fail, IInv
<1>2. CASE ReadByte
  <2>1. PICK b \in Bytes : response' = Append(response, b)
    BY <1>2 DEF ReadByte
  <2>2. response' \in Seq(Bytes)
    BY <2>1, AppendProperties DEF IInv
  <2>. QED
    BY <1>2, <2>2 DEF ReadByte, IInv
<1>3. CASE ReadEnd
  BY <1>3 DEF ReadEnd, Fail, IInv
<1>4. CASE ProcessConsensus
  BY <1>4 DEF ProcessConsensus, IInv
<1>5. CASE UNCHANGED vars
  BY <1>5 DEF vars, IInv
<1>. QED
  BY <1>1, <1>2, <1>3, <1>4, <1>5 DEF Next

(* fetch_consensus hands process_consensus the bytes after the first blank *)
(* line of the response, or the whole response when it has none (spec 4.4 *)
(* and 6), for responses of every length.                                  *)
THEOREM HeadersSkippedInv == Spec => []HeadersSkipped
<1>1. IInv => HeadersSkipped
  BY SkipHeadersRef DEF IInv, HeadersSkipped
<1>. QED
  BY <1>1, InitIInv, StepIInv, PTL DEF Spec
=============================================================================
