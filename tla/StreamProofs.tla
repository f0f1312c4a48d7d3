----------------------------- MODULE StreamProofs -----------------------------
(***************************************************************************)
(* Proofs about Stream, for buffers of any size, any number of frames and  *)
(* any way in which the network cuts the stream.                           *)
(***************************************************************************)
EXTENDS Stream, SequenceTheorems, WellFoundedInduction, TLAPS

Byte == Nat \X Nat

Buf == {b \in [bytes : Seq(Byte), seek : Nat] :
          b.seek <= Len(b.bytes) /\ Len(b.bytes) <= Cap}

\* The bytes the client has sent and the worker has not passed
Coming == Pending(rbuf) \o (wire \o outbox)

Types ==
  /\ window \in Windows /\ kinds \in Seq(Kinds)
  /\ readable \in BOOLEAN
  /\ conn \in {"open", "doomed", "closed", "scrambled", "aborted"}
  /\ outbox \in Seq(Byte) /\ wire \in Seq(Byte)
  /\ rbuf \in Buf /\ sbuf \in Buf
  /\ served \in Seq(Nat) /\ pushes \in Nat
  /\ queued \in Seq(Byte) /\ sent \in Seq(Byte)

(* What comes is the end of the stream of frames: each byte is followed by   *)
(* the rest of its frame, and the last frame by nothing.  Bytes are in order.*)

GoodKind(k) == Shape[k].ver /\ Shape[k].json

LenOf(ks, f) == FrameLen(Shape[ks[f]])

Frames(ks, s) ==
  /\ \A i \in 1 .. Len(s) :
       /\ s[i][1] \in 1 .. Len(ks)
       /\ s[i][2] \in 1 .. LenOf(ks, s[i][1])
       /\ i + (LenOf(ks, s[i][1]) - s[i][2]) <= Len(s)
       /\ \A m \in 0 .. LenOf(ks, s[i][1]) - s[i][2] :
            s[i + m] = <<s[i][1], s[i][2] + m>>
       /\ s[i][1] = Len(ks) => i + (LenOf(ks, s[i][1]) - s[i][2]) = Len(s)
  /\ \A i, j \in 1 .. Len(s) : i < j =>
       /\ s[i][1] <= s[j][1]
       /\ s[i][1] = s[j][1] => s[i][2] < s[j][2]

\* A good frame has been served (it is in sv) or is still to come (in s), with its
\* magic number; nothing before the last one served is still to come.
Account(ks, sv, s) ==
  /\ \A f \in 1 .. Len(ks) : GoodKind(ks[f]) =>
       \/ \E j \in 1 .. Len(sv) : sv[j] = f
       \/ \E i \in 1 .. Len(s) : s[i] = <<f, 1>>
  /\ \A j \in 1 .. Len(sv), i \in 1 .. Len(s) :
       sv[j] <= s[i][1] /\ s[i] # <<sv[j], 1>>

\* ServedInOrder, as a statement about sequences
Ordered(ks, sv) ==
  /\ \A i \in 1 .. Len(sv) : sv[i] \in 1 .. Len(ks) /\ GoodKind(ks[sv[i]])
  /\ \A i, j \in 1 .. Len(sv) : i < j => sv[i] < sv[j]
  /\ \A i \in 1 .. Len(sv) : \A f \in 1 .. sv[i] :
       GoodKind(ks[f]) => \E j \in 1 .. Len(sv) : sv[j] = f

InOrder ==
  /\ Ordered(kinds, served)
  /\ conn = "open" => Frames(kinds, Coming) /\ Account(kinds, served, Coming)

\* The bytes s belong to frames of the kinds ks.
Known(ks, s) == \A i \in 1 .. Len(s) : s[i][1] \in 1 .. Len(ks)

\* All that the receive buffer holds was sent by the client, the bytes that were
\* accessed too: lts_buffer_drop_accessed may bring them back.
Received == conn = "open" => Known(kinds, rbuf.bytes)

Intact == conn \notin {"scrambled", "closed"} => sent \o Pending(sbuf) = queued

StreamInv == Types /\ Intact /\ InOrder /\ Received

(* A client that waits for each answer: there is one request at most on its  *)
(* way, behind what the extension area of the one before it has left.        *)

Room(ks, sv, s) ==
  /\ Len(sv) <= Len(ks) /\ Len(ks) <= Len(sv) + 1
  /\ \A j \in 1 .. Len(sv) : sv[j] = j
  /\ Len(sv) = Len(ks) =>
       Len(s) = 0 \/ \E k \in Kinds : Len(s) <= Shape[k].ofst - LEN_HEADER
  /\ Len(s) < Cap

RoomInv ==
  window = 1 => conn # "aborted" /\ (conn = "open" => Room(kinds, served, Coming))

-----------------------------------------------------------------------------
(* Sequences and buffers *)

\* A set of naturals has a least element, the one Min returns.
LEMMA MinProperties ==
  ASSUME NEW S \in SUBSET Nat, S # {}
  PROVE  Min(S) \in S /\ \A y \in S : Min(S) <= y
<1>1. PICK x \in S : \A y \in S : ~ (<<y, x>> \in OpToRel(<, Nat))
  BY NatLessThanWellFounded, WFMin
<1>2. \A y \in S : y \in Nat /\ x \in Nat /\ ~(y < x)
  BY <1>1, Zenon DEF OpToRel
<1>3. \A y \in S : x <= y
  BY <1>2
<1>. QED BY <1>3 DEF Min

\* A sequence is the concatenation of its first n elements and the others.
LEMMA SplitSeq ==
  ASSUME NEW S, NEW s \in Seq(S), NEW n \in 0 .. Len(s)
  PROVE  /\ SubSeq(s, 1, n) \in Seq(S) /\ Len(SubSeq(s, 1, n)) = n
         /\ SubSeq(s, n + 1, Len(s)) \in Seq(S)
         /\ Len(SubSeq(s, n + 1, Len(s))) = Len(s) - n
         /\ \A i \in 1 .. Len(s) - n : SubSeq(s, n + 1, Len(s))[i] = s[n + i]
         /\ SubSeq(s, 1, n) \o SubSeq(s, n + 1, Len(s)) = s
<1>1. Len(s) \in Nat /\ \A i \in 1 .. Len(s) : s[i] \in S
  OBVIOUS
<1>2. SubSeq(s, 1, n) \in Seq(S) /\ Len(SubSeq(s, 1, n)) = n
  <2>1. \A i \in 1 .. n : s[i] \in S
    BY <1>1
  <2>. QED BY <1>1, <2>1, SubSeqProperties
<1>3. /\ SubSeq(s, n + 1, Len(s)) \in Seq(S)
      /\ Len(SubSeq(s, n + 1, Len(s))) = Len(s) - n
      /\ \A i \in 1 .. Len(s) - n : SubSeq(s, n + 1, Len(s))[i] = s[n + i]
  <2>1. \A i \in (n + 1) .. Len(s) : s[i] \in S
    BY <1>1
  <2>. QED BY <1>1, <2>1, SubSeqProperties
<1>4. SubSeq(s, 1, n) \o SubSeq(s, n + 1, Len(s)) = s
  <2>1. /\ 1 \in 1 .. Len(s) + 1 /\ n \in (1 - 1) .. Len(s) /\ Len(s) \in n .. Len(s)
    BY <1>1
  <2>2. SubSeq(s, 1, n) \o SubSeq(s, n + 1, Len(s)) = SubSeq(s, 1, Len(s))
    BY <2>1, ConcatAdjacentSubSeq
  <2>. QED BY <2>2, SubSeqFull
<1>. QED BY <1>2, <1>3, <1>4

\* Dropping k elements of s before or after t is appended to it
LEMMA SuffixOfConcat ==
  ASSUME NEW S, NEW s \in Seq(S), NEW t \in Seq(S), NEW k \in 0 .. Len(s)
  PROVE  SubSeq(s \o t, k + 1, Len(s \o t)) = SubSeq(s, k + 1, Len(s)) \o t
<1>. DEFINE u == s \o t
            v == SubSeq(s, k + 1, Len(s))
<1>1. Len(s) \in Nat /\ Len(t) \in Nat
  OBVIOUS
<1>2. /\ u \in Seq(S) /\ Len(u) = Len(s) + Len(t)
      /\ \A i \in 1 .. Len(s) + Len(t) : u[i] = IF i <= Len(s) THEN s[i] ELSE t[i - Len(s)]
  BY ConcatProperties
<1>3. v \in Seq(S) /\ Len(v) = Len(s) - k /\ \A i \in 1 .. Len(s) - k : v[i] = s[k + i]
  BY SplitSeq
<1>. HIDE DEF u, v
<1>. DEFINE x == SubSeq(u, k + 1, Len(u))
            y == v \o t
<1>4. /\ y \in Seq(S) /\ Len(y) = Len(v) + Len(t)
      /\ \A i \in 1 .. Len(v) + Len(t) : y[i] = IF i <= Len(v) THEN v[i] ELSE t[i - Len(v)]
  BY <1>3, ConcatProperties
<1>5. k \in 0 .. Len(u)
  BY <1>1, <1>2
<1>6. /\ x \in Seq(S) /\ Len(x) = Len(u) - k
      /\ \A i \in 1 .. Len(u) - k : x[i] = u[k + i]
  BY <1>2, <1>5, SplitSeq
<1>. HIDE DEF x, y
<1>7. x \in Seq(S) /\ y \in Seq(S) /\ Len(x) = Len(y) /\ Len(x) = Len(s) - k + Len(t)
  BY <1>1, <1>2, <1>3, <1>4, <1>6
<1>8. ASSUME NEW i \in 1 .. Len(s) - k + Len(t) PROVE x[i] = y[i]
  <2>1. CASE i <= Len(s) - k
    <3>1. x[i] = u[k + i] /\ u[k + i] = s[k + i]
      BY <1>1, <1>2, <1>6, <2>1
    <3>2. v[i] = s[k + i]
      BY <1>1, <1>3, <2>1
    <3>3. i \in 1 .. Len(v) + Len(t) /\ i <= Len(v)
      BY <1>1, <1>3, <2>1
    <3>4. y[i] = v[i]
      BY <1>4, <3>3
    <3>. QED BY <3>1, <3>2, <3>4
  <2>2. CASE i > Len(s) - k
    <3>1. x[i] = u[k + i] /\ u[k + i] = t[k + i - Len(s)]
      BY <1>1, <1>2, <1>6, <2>2
    <3>2. y[i] = t[i - Len(v)] /\ i - Len(v) = k + i - Len(s)
      BY <1>1, <1>3, <1>4, <2>2
    <3>. QED BY <3>1, <3>2
  <2>. QED BY <1>1, <2>1, <2>2
<1>9. x = y
  BY <1>7, <1>8, SeqEqual
<1>. QED BY <1>9 DEF x, y, u, v

\* Dropping k elements of s and then n more
LEMMA SuffixOfSuffix ==
  ASSUME NEW S, NEW s \in Seq(S), NEW k \in 0 .. Len(s), NEW n \in 0 .. Len(s) - k
  PROVE  SubSeq(SubSeq(s, k + 1, Len(s)), n + 1, Len(SubSeq(s, k + 1, Len(s))))
           = SubSeq(s, k + n + 1, Len(s))
<1>. DEFINE v == SubSeq(s, k + 1, Len(s))
            x == SubSeq(v, n + 1, Len(v))
            y == SubSeq(s, (k + n) + 1, Len(s))
<1>1. Len(s) \in Nat /\ k + n \in 0 .. Len(s)
  OBVIOUS
<1>2. v \in Seq(S) /\ Len(v) = Len(s) - k /\ \A i \in 1 .. Len(s) - k : v[i] = s[k + i]
  BY SplitSeq
<1>3. /\ y \in Seq(S) /\ Len(y) = Len(s) - (k + n)
      /\ \A i \in 1 .. Len(s) - (k + n) : y[i] = s[(k + n) + i]
  BY <1>1, SplitSeq
<1>. HIDE DEF v, y
<1>4. /\ x \in Seq(S) /\ Len(x) = Len(v) - n
      /\ \A i \in 1 .. Len(v) - n : x[i] = v[n + i]
  BY <1>2, SplitSeq
<1>. HIDE DEF x
<1>5. Len(x) = Len(y) /\ \A i \in 1 .. Len(x) : x[i] = y[i]
  BY <1>1, <1>2, <1>3, <1>4
<1>6. x = y
  BY <1>3, <1>4, <1>5, SeqEqual
<1>. QED BY <1>6 DEF x, y, v

\* Concatenation of bytes is associative.
LEMMA BytesAssociative ==
  ASSUME NEW s \in Seq(Byte), NEW t \in Seq(Byte), NEW u \in Seq(Byte)
  PROVE  (s \o t) \o u = s \o (t \o u)
BY ConcatAssociative

\* What is pending in a buffer
LEMMA PendingProperties ==
  ASSUME NEW b \in Buf
  PROVE  /\ b.bytes \in Seq(Byte) /\ b.seek \in Nat
         /\ b.seek <= Len(b.bytes) /\ Len(b.bytes) \in Nat /\ Len(b.bytes) <= Cap
         /\ Pending(b) \in Seq(Byte)
         /\ Len(Pending(b)) = Len(b.bytes) - b.seek
         /\ \A i \in 1 .. Len(b.bytes) - b.seek : Pending(b)[i] = b.bytes[b.seek + i]
<1>1. /\ b.bytes \in Seq(Byte) /\ b.seek \in Nat
      /\ b.seek <= Len(b.bytes) /\ Len(b.bytes) \in Nat /\ Len(b.bytes) <= Cap
  BY DEF Buf
<1>2. b.seek \in 0 .. Len(b.bytes)
  BY <1>1
<1>. QED BY <1>1, <1>2, SplitSeq DEF Pending

\* A cleared buffer has nothing pending.
LEMMA ClearedProperties == Cleared \in Buf /\ Pending(Cleared) = <<>>
BY CapAssumption, SubSeqEmpty DEF Cleared, Buf, Pending

\* Appending to a buffer appends to what is pending.
LEMMA AppendPending ==
  ASSUME NEW b \in Buf, NEW data \in Seq(Byte), Len(data) <= Space(b)
  PROVE  /\ lts_buffer_append(b, data) \in Buf
         /\ Pending(lts_buffer_append(b, data)) = Pending(b) \o data
<1>. DEFINE d == b.bytes \o data
<1>1. /\ b.bytes \in Seq(Byte) /\ b.seek \in Nat /\ Len(b.bytes) \in Nat /\ Len(data) \in Nat
      /\ b.seek <= Len(b.bytes) /\ Len(b.bytes) + Len(data) <= Cap
  BY PendingProperties, CapAssumption DEF Space
<1>2. d \in Seq(Byte) /\ Len(d) = Len(b.bytes) + Len(data)
  BY <1>1, ConcatProperties
<1>3. SubSeq(d, b.seek + 1, Len(d)) = SubSeq(b.bytes, b.seek + 1, Len(b.bytes)) \o data
  <2>1. b.seek \in 0 .. Len(b.bytes)
    BY <1>1
  <2>. QED BY <1>1, <2>1, SuffixOfConcat
<1>4. lts_buffer_append(b, data) = [b EXCEPT !.bytes = d]
  BY DEF lts_buffer_append
<1>. HIDE DEF d
<1>5. lts_buffer_append(b, data) = [bytes |-> d, seek |-> b.seek]
  BY <1>4 DEF Buf
<1>6. /\ lts_buffer_append(b, data).bytes = d /\ lts_buffer_append(b, data).seek = b.seek
      /\ lts_buffer_append(b, data) \in [bytes : Seq(Byte), seek : Nat]
  BY <1>1, <1>2, <1>5
<1>7. lts_buffer_append(b, data) \in Buf
  <2>1. b.seek <= Len(d) /\ Len(d) <= Cap
    BY <1>1, <1>2
  <2>. QED BY <1>6, <2>1, Zenon DEF Buf
<1>8. Pending(lts_buffer_append(b, data)) = SubSeq(d, b.seek + 1, Len(d))
  BY <1>6, Zenon DEF Pending
<1>. QED BY <1>3, <1>7, <1>8 DEF Pending

\* Skipping n bytes takes them off what is pending.
LEMMA SkipPending ==
  ASSUME NEW b \in Buf, NEW n \in 0 .. Len(Pending(b))
  PROVE  /\ Skip(b, n) \in Buf
         /\ Skip(b, n).bytes = b.bytes /\ Skip(b, n).seek = b.seek + n
         /\ Pending(Skip(b, n)) = SubSeq(Pending(b), n + 1, Len(Pending(b)))
<1>1. /\ b.bytes \in Seq(Byte) /\ b.seek \in Nat /\ Len(b.bytes) \in Nat /\ Len(b.bytes) <= Cap
      /\ Len(Pending(b)) = Len(b.bytes) - b.seek
      /\ b.seek + n \in Nat /\ b.seek + n <= Len(b.bytes)
      /\ b.seek \in 0 .. Len(b.bytes) /\ n \in 0 .. Len(b.bytes) - b.seek
  BY PendingProperties
<1>2. Skip(b, n) = [bytes |-> b.bytes, seek |-> b.seek + n]
  BY DEF Skip, Buf
<1>3. Skip(b, n) \in Buf
  BY <1>1, <1>2 DEF Buf
<1>4. Pending(Skip(b, n)) = SubSeq(Pending(b), n + 1, Len(Pending(b)))
  <2>0. Skip(b, n).bytes = b.bytes /\ Skip(b, n).seek = b.seek + n
    BY <1>2
  <2>1. Pending(Skip(b, n)) = SubSeq(b.bytes, b.seek + n + 1, Len(b.bytes))
    BY <2>0, Zenon DEF Pending
  <2>. QED BY <1>1, <2>1, SuffixOfSuffix DEF Pending
<1>. QED BY <1>2, <1>3, <1>4

\* lts_buffer_drop_accessed leaves a buffer with as many bytes as were pending.
LEMMA DropProperties ==
  ASSUME NEW b \in Buf
  PROVE  /\ lts_buffer_drop_accessed(b) \in Buf
         /\ Len(lts_buffer_drop_accessed(b).bytes) = Len(Pending(b))
<1>. DEFINE n == Len(b.bytes) - b.seek
            d == [i \in 1 .. n |-> IF i <= b.seek THEN b.bytes[i + b.seek] ELSE b.bytes[i]]
<1>1. /\ b.bytes \in Seq(Byte) /\ b.seek \in Nat /\ Len(b.bytes) \in Nat
      /\ b.seek <= Len(b.bytes) /\ n \in Nat /\ n <= Cap /\ Len(Pending(b)) = n
  BY PendingProperties, CapAssumption
<1>2. \A i \in 1 .. n : /\ i <= b.seek => b.bytes[i + b.seek] \in Byte
                        /\ ~(i <= b.seek) => b.bytes[i] \in Byte
  BY <1>1
<1>3. d \in [1 .. n -> Byte]
  BY <1>2
<1>4. d \in Seq(Byte) /\ Len(d) = n
  BY <1>1, <1>3
<1>5. lts_buffer_drop_accessed(b) = [bytes |-> d, seek |-> 0]
  BY DEF lts_buffer_drop_accessed
<1>. HIDE DEF d
<1>. QED BY <1>1, <1>4, <1>5 DEF Buf

\* The send buffer after lts_send has looked whether all is sent
LEMMA ClearPending ==
  ASSUME NEW b \in Buf
  PROVE  ClearIfSent(b) \in Buf /\ Pending(ClearIfSent(b)) = Pending(b)
<1>1. CASE b.seek = Len(b.bytes)
  <2>1. Pending(b) = <<>>
    BY <1>1, PendingProperties, SubSeqEmpty DEF Pending
  <2>. QED BY <1>1, <2>1, ClearedProperties DEF ClearIfSent
<1>2. CASE b.seek # Len(b.bytes)
  BY <1>2 DEF ClearIfSent
<1>. QED BY <1>1, <1>2

\* A frame is a sequence of bytes.
LEMMA FrameProperties ==
  ASSUME NEW f \in Nat, NEW len \in Nat
  PROVE  /\ Frame(f, len) \in Seq(Byte) /\ Len(Frame(f, len)) = len
         /\ \A k \in 1 .. len : Frame(f, len)[k] = <<f, k>>
<1>1. Frame(f, len) \in [1 .. len -> Byte]
  BY DEF Frame, Byte
<1>. QED BY <1>1 DEF Frame

\* The shapes of the frames, as the decoder requires them of a valid header
LEMMA ShapeProperties ==
  ASSUME NEW k \in DOMAIN Shape
  PROVE  /\ Shape[k].ofst \in Nat /\ Shape[k].ofst >= LEN_HEADER
         /\ Shape[k].len \in Nat /\ Shape[k].len >= LEN_MIN_CONTENT
         /\ FrameLen(Shape[k]) \in Nat
         /\ FrameLen(Shape[k]) >= LEN_HEADER + LEN_MIN_CONTENT
<1>1. DOMAIN Shape = {"plain", "ext", "old", "garbled", "long"}
  BY DEF Shape
<1>2. /\ Shape["plain"].ofst = 2 /\ Shape["ext"].ofst = 3 /\ Shape["old"].ofst = 2
      /\ Shape["garbled"].ofst = 2 /\ Shape["long"].ofst = 2
      /\ Shape["plain"].len = 1 /\ Shape["ext"].len = 1 /\ Shape["old"].len = 1
      /\ Shape["garbled"].len = 1 /\ Shape["long"].len = Cap - 2
  BY DEF Shape
<1>. QED BY <1>1, <1>2, CapAssumption, StreamAssumption
     DEF FrameLen, LEN_HEADER, LEN_MIN_CONTENT

\* Making room keeps a buffer a buffer.
LEMMA RoomProperties ==
  /\ \A b \in Buf : MakeRoom(b) \in Buf
  /\ rbuf \in Buf => RecvRoom \in Buf
BY DropProperties DEF MakeRoom, RecvRoom

-----------------------------------------------------------------------------
(* The decoder *)

\* What the search for a header does: it stops at the first place where it may.
LEMMA FindHeaderProperties ==
  ASSUME NEW b \in Buf
  PROVE  /\ FindHeader(b).buf \in Buf
         /\ FindHeader(b).buf.bytes \in {b.bytes, <<>>}
         /\ FindHeader(b).found =>
              \E m \in 0 .. Len(Pending(b)) - 1 :
                /\ m \in Stops(Pending(b)) /\ \A y \in Stops(Pending(b)) : m <= y
                /\ FindHeader(b).buf = Skip(b, m)
                /\ Len(Pending(b)) - m >= LEN_HEADER + LEN_MIN_CONTENT
<1>. DEFINE p == Pending(b)
            stops == Stops(p)
            m == Min(stops)
            c == Skip(b, m)
<1>1. p \in Seq(Byte) /\ Len(p) \in Nat /\ Len(p) = Len(b.bytes) - b.seek
      /\ b.seek \in Nat /\ Len(b.bytes) \in Nat
  BY PendingProperties
<1>2. stops \subseteq 0 .. Len(p) - 1
  BY DEF Stops
<1>3. CASE stops = {}
  <2>1. FindHeader(b) = [found |-> FALSE, buf |-> Cleared]
    BY <1>3, Zenon DEF FindHeader
  <2>. QED BY <2>1, ClearedProperties DEF Cleared
<1>4. CASE stops # {}
  <2>1. stops \in SUBSET Nat
    BY <1>1, <1>2
  <2>2. m \in stops /\ \A y \in stops : m <= y
    BY <1>4, <2>1, MinProperties
  <2>3. m \in 0 .. Len(p) - 1
    BY <1>2, <2>2
  <2>4. FindHeader(b) =
          [found |-> Len(c.bytes) - c.seek >= LEN_HEADER + LEN_MIN_CONTENT, buf |-> c]
    BY <1>4, Zenon DEF FindHeader
  <2>5. /\ FindHeader(b).buf = c
        /\ FindHeader(b).found = (Len(c.bytes) - c.seek >= LEN_HEADER + LEN_MIN_CONTENT)
    BY <2>4
  <2>. HIDE DEF m, stops, p
  <2>6. c \in Buf /\ c.bytes = b.bytes /\ c.seek = b.seek + m
    <3>1. m \in 0 .. Len(Pending(b))
      BY <1>1, <2>3 DEF p
    <3>. QED BY <3>1, SkipPending
  <2>7. FindHeader(b).found => Len(p) - m >= LEN_HEADER + LEN_MIN_CONTENT
    <3>1. Len(c.bytes) - c.seek = Len(p) - m
      BY <1>1, <2>3, <2>6
    <3>. QED BY <2>5, <3>1
  <2>. QED BY <2>2, <2>3, <2>5, <2>6, <2>7 DEF p, stops
<1>. QED BY <1>3, <1>4

\* What lts_proto_sjsonb_decode returns: no request, or the first frame pending
\* that has a valid header, which is then complete and JSON.  LEN_HEADER bytes and
\* its content are passed.
LEMMA DecodeProperties ==
  ASSUME NEW b \in Buf, kinds \in Seq(Kinds), Known(kinds, b.bytes)
  PROVE  /\ lts_proto_sjsonb_decode(b).buf \in Buf
         /\ lts_proto_sjsonb_decode(b).buf.bytes \in {b.bytes, <<>>}
         /\ lts_proto_sjsonb_decode(b).request # 0 =>
              \E m \in 0 .. Len(Pending(b)) - 1 :
                LET p == Pending(b)
                    f == p[m + 1][1]
                    n == m + LEN_HEADER + Shaped(f).len
                IN /\ lts_proto_sjsonb_decode(b).request = f
                   /\ p[m + 1][2] = 1 /\ Good(f)
                   /\ m + FrameLen(Shaped(f)) <= Len(p)
                   /\ n \in 0 .. Len(p)
                   /\ Pending(lts_proto_sjsonb_decode(b).buf) = SubSeq(p, n + 1, Len(p))
                   /\ \A j \in 0 .. m - 1 : p[j + 1][2] = 1 => ~Good(p[j + 1][1])
<1>. DEFINE p == Pending(b)
            h == FindHeader(b)
            d == lts_proto_sjsonb_decode(b)
<1>1. p \in Seq(Byte) /\ Len(p) \in Nat /\ \A i \in 1 .. Len(p) : p[i][1] \in DOMAIN kinds
  <2>1. /\ p \in Seq(Byte) /\ Len(p) \in Nat /\ b.seek \in Nat /\ Len(b.bytes) \in Nat
        /\ Len(p) = Len(b.bytes) - b.seek
        /\ \A i \in 1 .. Len(b.bytes) - b.seek : p[i] = b.bytes[b.seek + i]
    BY PendingProperties
  <2>. HIDE DEF p
  <2>2. ASSUME NEW i \in 1 .. Len(p) PROVE p[i][1] \in DOMAIN kinds
    <3>1. b.seek + i \in 1 .. Len(b.bytes) /\ i \in 1 .. Len(b.bytes) - b.seek
      BY <2>1
    <3>2. p[i] = b.bytes[b.seek + i] /\ b.bytes[b.seek + i][1] \in 1 .. Len(kinds)
      BY <2>1, <3>1 DEF Known
    <3>. QED BY <3>2
  <2>. QED BY <2>1, <2>2
<1>2. CASE ~h.found
  <2>1. d = [request |-> 0, buf |-> h.buf]
    BY <1>2, Zenon DEF lts_proto_sjsonb_decode, NoRequest
  <2>. QED BY <2>1, FindHeaderProperties
<1>3. CASE h.found
  <2>1. PICK m \in 0 .. Len(p) - 1 :
          /\ m \in Stops(p) /\ \A y \in Stops(p) : m <= y
          /\ h.buf = Skip(b, m)
          /\ Len(p) - m >= LEN_HEADER + LEN_MIN_CONTENT
    BY <1>3, FindHeaderProperties
  <2>. DEFINE q == Pending(h.buf)
              f == p[m + 1][1]
              n == LEN_HEADER + Shaped(f).len
  <2>2. m \in 0 .. Len(Pending(b)) /\ m + 1 \in 1 .. Len(p) /\ m + 1 \in DOMAIN p
    BY <1>1
  <2>3. h.buf \in Buf /\ h.buf.bytes = b.bytes /\ q = SubSeq(p, m + 1, Len(p))
    BY <2>1, <2>2, SkipPending
  <2>4. q \in Seq(Byte) /\ Len(q) = Len(p) - m /\ q # <<>> /\ q[1] = p[m + 1]
    <3>1. /\ SubSeq(p, m + 1, Len(p)) \in Seq(Byte)
          /\ Len(SubSeq(p, m + 1, Len(p))) = Len(p) - m
          /\ \A i \in 1 .. Len(p) - m : SubSeq(p, m + 1, Len(p))[i] = p[m + i]
      BY <1>1, <2>2, SplitSeq
    <3>2. q \in Seq(Byte) /\ Len(q) = Len(p) - m /\ q[1] = p[m + 1]
      BY <1>1, <2>2, <2>3, <3>1
    <3>. HIDE DEF q
    <3>. QED BY <1>1, <2>2, <3>2
  <2>5. Head(q)[1] = f
    BY <2>4
  <2>6. f \in DOMAIN kinds /\ kinds[f] \in DOMAIN Shape
    BY <1>1, <2>2, StreamAssumption
  <2>7. /\ Shaped(f).ofst \in Nat /\ Shaped(f).ofst >= LEN_HEADER
        /\ Shaped(f).len \in Nat /\ FrameLen(Shaped(f)) \in Nat
        /\ FrameLen(Shaped(f)) = Shaped(f).ofst + Shaped(f).len
        /\ FrameLen(Shaped(f)) >= LEN_HEADER + LEN_MIN_CONTENT
    BY <2>6, ShapeProperties DEF Shaped, FrameLen
  <2>. HIDE DEF q, h
  <2>8. CASE Len(q) < FrameLen(Shaped(f))
    <3>1. d = [request |-> 0, buf |-> h.buf]
      BY <1>3, <2>5, <2>8, Zenon DEF lts_proto_sjsonb_decode, NoRequest, h, q
    <3>. QED BY <2>3, <3>1
  <2>9. CASE ~(Len(q) < FrameLen(Shaped(f))) /\ ~Shaped(f).json
    <3>1. d = [request |-> 0, buf |-> Skip(h.buf, MAGIC)]
      BY <1>3, <2>5, <2>9, Zenon DEF lts_proto_sjsonb_decode, NoRequest, h, q
    <3>2. MAGIC \in 0 .. Len(Pending(h.buf))
      BY <1>1, <2>1, <2>4 DEF q, MAGIC, LEN_HEADER, LEN_MIN_CONTENT
    <3>3. Skip(h.buf, MAGIC) \in Buf /\ Skip(h.buf, MAGIC).bytes = b.bytes
      BY <2>3, <3>2, SkipPending
    <3>. QED BY <3>1, <3>3
  <2>10. CASE ~(Len(q) < FrameLen(Shaped(f))) /\ Shaped(f).json
    <3>1. d = [request |-> f, buf |-> Skip(h.buf, n)]
      BY <1>3, <2>5, <2>10, Zenon DEF lts_proto_sjsonb_decode, h, q
    <3>2. n \in Nat /\ n <= FrameLen(Shaped(f)) /\ FrameLen(Shaped(f)) <= Len(q)
          /\ n \in 0 .. Len(q) /\ m + n \in 0 .. Len(p) /\ n \in 0 .. Len(p) - m
          /\ m + FrameLen(Shaped(f)) <= Len(p)
      <4>. DEFINE L == FrameLen(Shaped(f))
      <4>1. n \in Nat /\ n <= L /\ L \in Nat
        BY <2>7 DEF LEN_HEADER
      <4>2. L <= Len(q) /\ Len(q) = Len(p) - m
        BY <2>4, <2>10, <4>1
      <4>. HIDE DEF L, n, p
      <4>3. /\ L <= Len(q) /\ n \in 0 .. Len(q) /\ m + n \in 0 .. Len(p)
            /\ n \in 0 .. Len(p) - m /\ m + L <= Len(p)
        BY <1>1, <4>1, <4>2
      <4>. QED BY <4>1, <4>3 DEF L
    <3>3. /\ Skip(h.buf, n) \in Buf /\ Skip(h.buf, n).bytes = b.bytes
          /\ Pending(Skip(h.buf, n)) = SubSeq(q, n + 1, Len(q))
      BY <2>3, <3>2, SkipPending DEF q
    <3>4. SubSeq(q, n + 1, Len(q)) = SubSeq(p, m + n + 1, Len(p))
      BY <1>1, <2>2, <2>3, <3>2, SuffixOfSuffix
    <3>5. p[m + 1][2] = 1 /\ Shaped(f).ver
      BY <1>1, <2>1 DEF Stops, LEN_HEADER, LEN_MIN_CONTENT
    <3>6. ASSUME NEW j \in 0 .. m - 1, p[j + 1][2] = 1
          PROVE  ~Good(p[j + 1][1])
      <4>1. j \in 0 .. Len(p) - 1 /\ ~(m <= j)
        BY <1>1
      <4>2. j \notin Stops(p)
        BY <2>1, <4>1
      <4>. QED BY <3>6, <4>1, <4>2 DEF Stops, Good
    <3>7. Good(f)
      BY <2>10, <3>5 DEF Good
    <3>. HIDE DEF p, f, d
    <3>8. d.request = f /\ d.buf = Skip(h.buf, n)
      BY <3>1
    <3>9. m + LEN_HEADER + Shaped(f).len = m + n
      <4>. DEFINE x == Shaped(f).len
      <4>1. x \in Nat
        BY <2>7
      <4>. HIDE DEF x
      <4>2. m + LEN_HEADER + x = m + (LEN_HEADER + x)
        BY <4>1 DEF LEN_HEADER
      <4>. QED BY <4>2 DEF x
    <3>10. Pending(d.buf) = SubSeq(p, m + LEN_HEADER + Shaped(f).len + 1, Len(p))
      BY <3>3, <3>4, <3>8, <3>9
    <3>. QED BY <2>1, <3>2, <3>3, <3>5, <3>6, <3>7, <3>8, <3>9, <3>10 DEF p, f, d
  <2>. QED BY <2>8, <2>9, <2>10
<1>. QED BY <1>2, <1>3

-----------------------------------------------------------------------------
(* The stream of frames *)

\* The length of a frame that was sent
LEMMA LenOfType ==
  ASSUME NEW ks \in Seq(Kinds), NEW f \in 1 .. Len(ks)
  PROVE  /\ LenOf(ks, f) \in Nat /\ LenOf(ks, f) >= 3
         /\ LenOf(ks, f) = Shape[ks[f]].ofst + Shape[ks[f]].len
         /\ Shape[ks[f]].ofst \in Nat /\ Shape[ks[f]].ofst >= 2
         /\ Shape[ks[f]].len \in Nat
<1>1. ks[f] \in DOMAIN Shape
  BY StreamAssumption
<1>. QED BY <1>1, ShapeProperties DEF LenOf, FrameLen, LEN_HEADER, LEN_MIN_CONTENT

\* A byte of the stream
LEMMA ByteType ==
  ASSUME NEW c \in Byte
  PROVE  c[1] \in Nat /\ c[2] \in Nat /\ c = <<c[1], c[2]>>
BY DEF Byte

\* The end of a stream of frames is one.
LEMMA FramesSuffix ==
  ASSUME NEW ks \in Seq(Kinds), NEW s \in Seq(Byte), NEW n \in 0 .. Len(s), Frames(ks, s)
  PROVE  Frames(ks, SubSeq(s, n + 1, Len(s)))
<1>. DEFINE t == SubSeq(s, n + 1, Len(s))
<1>1. Len(s) \in Nat /\ Len(t) = Len(s) - n /\ \A i \in 1 .. Len(s) - n : t[i] = s[n + i]
  BY SplitSeq
<1>. HIDE DEF t
<1>2. ASSUME NEW i \in 1 .. Len(t)
      PROVE  /\ t[i][1] \in 1 .. Len(ks)
             /\ t[i][2] \in 1 .. LenOf(ks, t[i][1])
             /\ i + (LenOf(ks, t[i][1]) - t[i][2]) <= Len(t)
             /\ \A m \in 0 .. LenOf(ks, t[i][1]) - t[i][2] :
                  t[i + m] = <<t[i][1], t[i][2] + m>>
             /\ t[i][1] = Len(ks) => i + (LenOf(ks, t[i][1]) - t[i][2]) = Len(t)
  <2>. DEFINE f == s[n + i][1]
              k == s[n + i][2]
              L == LenOf(ks, f)
  <2>1. n + i \in 1 .. Len(s) /\ t[i] = s[n + i]
    BY <1>1
  <2>2. /\ f \in 1 .. Len(ks) /\ k \in 1 .. L /\ n + i + (L - k) <= Len(s)
        /\ \A m \in 0 .. L - k : s[n + i + m] = <<f, k + m>>
        /\ f = Len(ks) => n + i + (L - k) = Len(s)
    BY <2>1 DEF Frames
  <2>3. L \in Nat
    BY <2>2, LenOfType
  <2>. HIDE DEF L, f, k
  <2>4. i + (L - k) <= Len(t) /\ (f = Len(ks) => i + (L - k) = Len(t))
    BY <1>1, <2>2, <2>3
  <2>5. ASSUME NEW m \in 0 .. L - k PROVE t[i + m] = <<f, k + m>>
    <3>1. i + m \in 1 .. Len(s) - n /\ n + (i + m) = n + i + m
      BY <1>1, <2>2, <2>3, <2>4
    <3>. QED BY <1>1, <2>2, <3>1
  <2>. QED BY <2>1, <2>2, <2>4, <2>5 DEF L, f, k
<1>3. ASSUME NEW i \in 1 .. Len(t), NEW j \in 1 .. Len(t), i < j
      PROVE  t[i][1] <= t[j][1] /\ (t[i][1] = t[j][1] => t[i][2] < t[j][2])
  <2>1. n + i \in 1 .. Len(s) /\ n + j \in 1 .. Len(s) /\ n + i < n + j
        /\ t[i] = s[n + i] /\ t[j] = s[n + j]
    BY <1>1, <1>3
  <2>. QED BY <2>1 DEF Frames
<1>4. Frames(ks, t)
  BY <1>2, <1>3 DEF Frames
<1>. QED BY <1>4 DEF t

\* The client adds a frame.
LEMMA FramesAppend ==
  ASSUME NEW ks \in Seq(Kinds), NEW sv \in Seq(Nat), NEW s \in Seq(Byte),
         NEW kind \in Kinds,
         Frames(ks, s), Account(ks, sv, s), Ordered(ks, sv)
  PROVE  LET t == s \o Frame(Len(ks) + 1, FrameLen(Shape[kind]))
             js == Append(ks, kind)
         IN Frames(js, t) /\ Account(js, sv, t) /\ Ordered(js, sv)
<1>. DEFINE g == Len(ks) + 1
            js == Append(ks, kind)
            L == FrameLen(Shape[kind])
            fr == Frame(g, L)
            t == s \o fr
<1>1. /\ js \in Seq(Kinds) /\ Len(js) = g /\ Len(ks) \in Nat /\ g \in Nat
      /\ js[g] = kind /\ \A f \in 1 .. Len(ks) : js[f] = ks[f]
  BY AppendProperties
<1>2. L \in Nat /\ L >= 3
  BY ShapeProperties, StreamAssumption DEF LEN_HEADER, LEN_MIN_CONTENT
<1>. HIDE DEF js, L
<1>3. fr \in Seq(Byte) /\ Len(fr) = L /\ \A k \in 1 .. L : fr[k] = <<g, k>>
  BY <1>1, <1>2, FrameProperties
<1>. HIDE DEF fr
<1>4. /\ Len(t) = Len(s) + L /\ Len(s) \in Nat
      /\ \A i \in 1 .. Len(s) + L : t[i] = IF i <= Len(s) THEN s[i] ELSE fr[i - Len(s)]
  <2>1. /\ Len(t) = Len(s) + Len(fr)
        /\ \A i \in 1 .. Len(s) + Len(fr) : t[i] = IF i <= Len(s) THEN s[i] ELSE fr[i - Len(s)]
    BY <1>3, ConcatProperties
  <2>2. Len(fr) = L /\ Len(s) \in Nat
    BY <1>3
  <2>. HIDE DEF t
  <2>. QED BY <2>1, <2>2
<1>. HIDE DEF t, g
<1>5. /\ \A i \in 1 .. Len(s) : t[i] = s[i]
      /\ \A k \in 1 .. L : t[Len(s) + k] = <<g, k>>
  <2>1. \A i \in 1 .. Len(s) : i \in 1 .. Len(s) + L /\ i <= Len(s)
    BY <1>2, <1>4
  <2>2. \A k \in 1 .. L : /\ Len(s) + k \in 1 .. Len(s) + L /\ ~(Len(s) + k <= Len(s))
                          /\ Len(s) + k - Len(s) = k
    BY <1>2, <1>4
  <2>3. \A k \in 1 .. L : t[Len(s) + k] = fr[Len(s) + k - Len(s)]
    BY <1>4, <2>2
  <2>. QED BY <1>3, <1>4, <2>1, <2>2, <2>3
<1>6. /\ \A f \in 1 .. Len(ks) : LenOf(js, f) = LenOf(ks, f)
      /\ LenOf(js, g) = L
  BY <1>1 DEF LenOf, L
<1>7. \A i \in 1 .. Len(t) : i \in 1 .. Len(s) \/ \E k \in 1 .. L : i = Len(s) + k
  <2>. TAKE i \in 1 .. Len(t)
  <2>1. CASE i <= Len(s)
    BY <1>4, <2>1
  <2>2. CASE ~(i <= Len(s))
    <3>1. i - Len(s) \in 1 .. L /\ i = Len(s) + (i - Len(s))
      BY <1>2, <1>4, <2>2
    <3>. QED BY <3>1
  <2>. QED BY <2>1, <2>2
<1>8. ASSUME NEW i \in 1 .. Len(t)
      PROVE  /\ t[i][1] \in 1 .. Len(js)
             /\ t[i][2] \in 1 .. LenOf(js, t[i][1])
             /\ i + (LenOf(js, t[i][1]) - t[i][2]) <= Len(t)
             /\ \A m \in 0 .. LenOf(js, t[i][1]) - t[i][2] :
                  t[i + m] = <<t[i][1], t[i][2] + m>>
             /\ t[i][1] = Len(js) => i + (LenOf(js, t[i][1]) - t[i][2]) = Len(t)
  <2>1. CASE i \in 1 .. Len(s)
    <3>. DEFINE f == s[i][1]
                k == s[i][2]
                M == LenOf(ks, f)
    <3>1. /\ f \in 1 .. Len(ks) /\ k \in 1 .. M /\ i + (M - k) <= Len(s)
          /\ \A m \in 0 .. M - k : s[i + m] = <<f, k + m>>
      BY <2>1 DEF Frames
    <3>2. M \in Nat /\ LenOf(js, f) = M /\ t[i] = s[i]
      BY <1>5, <1>6, <2>1, <3>1, LenOfType
    <3>. HIDE DEF f, k, M
    <3>3. f \in 1 .. Len(js) /\ f # Len(js) /\ i + (M - k) <= Len(t)
      BY <1>1, <1>2, <1>4, <3>1, <3>2 DEF g
    <3>4. ASSUME NEW m \in 0 .. M - k PROVE t[i + m] = <<f, k + m>>
      <4>1. i + m \in 1 .. Len(s)
        BY <1>4, <2>1, <3>1, <3>2
      <4>. QED BY <1>5, <3>1, <4>1
    <3>. QED BY <3>1, <3>2, <3>3, <3>4 DEF f, k
  <2>2. ASSUME NEW k \in 1 .. L, i = Len(s) + k
        PROVE  /\ t[i][1] \in 1 .. Len(js)
               /\ t[i][2] \in 1 .. LenOf(js, t[i][1])
               /\ i + (LenOf(js, t[i][1]) - t[i][2]) <= Len(t)
               /\ \A m \in 0 .. LenOf(js, t[i][1]) - t[i][2] :
                    t[i + m] = <<t[i][1], t[i][2] + m>>
               /\ t[i][1] = Len(js) => i + (LenOf(js, t[i][1]) - t[i][2]) = Len(t)
    <3>1. t[i][1] = g /\ t[i][2] = k
      BY <1>5, <2>2
    <3>2. i + (L - k) = Len(t) /\ g \in 1 .. Len(js)
      BY <1>1, <1>2, <1>4, <2>2 DEF g
    <3>3. ASSUME NEW m \in 0 .. L - k PROVE t[i + m] = <<g, k + m>>
      <4>1. k + m \in 1 .. L /\ i + m = Len(s) + (k + m)
        BY <1>2, <1>4, <2>2
      <4>. QED BY <1>5, <4>1
    <3>4. LenOf(js, t[i][1]) = L
      BY <1>6, <3>1
    <3>5. k \in 1 .. L /\ i + (L - k) <= Len(t)
      BY <1>2, <1>4, <3>2
    <3>. QED BY <3>1, <3>2, <3>3, <3>4, <3>5
  <2>. QED BY <1>7, <2>1, <2>2
<1>9. ASSUME NEW i \in 1 .. Len(t), NEW j \in 1 .. Len(t), i < j
      PROVE  t[i][1] <= t[j][1] /\ (t[i][1] = t[j][1] => t[i][2] < t[j][2])
  <2>1. CASE j \in 1 .. Len(s)
    <3>1. i \in 1 .. Len(s)
      BY <1>4, <1>9, <2>1
    <3>2. t[i] = s[i] /\ t[j] = s[j]
      BY <1>5, <2>1, <3>1
    <3>3. s[i][1] <= s[j][1] /\ (s[i][1] = s[j][1] => s[i][2] < s[j][2])
      BY <1>9, <2>1, <3>1 DEF Frames
    <3>. QED BY <3>2, <3>3
  <2>2. ASSUME NEW k \in 1 .. L, j = Len(s) + k, i \in 1 .. Len(s)
        PROVE  t[i][1] < t[j][1]
    <3>1. t[j][1] = g /\ t[i] = s[i] /\ s[i][1] \in 1 .. Len(ks)
      BY <1>5, <2>2 DEF Frames
    <3>2. s[i][1] < g
      BY <1>1, <3>1 DEF g
    <3>. QED BY <3>1, <3>2
  <2>3. ASSUME NEW k \in 1 .. L, j = Len(s) + k, NEW h \in 1 .. L, i = Len(s) + h
        PROVE  t[i][1] = g /\ t[j][1] = g /\ t[i][2] < t[j][2]
    <3>1. h < k
      BY <1>2, <1>4, <1>9, <2>3
    <3>2. t[i] = <<g, h>> /\ t[j] = <<g, k>>
      BY <1>5, <2>3
    <3>. QED BY <3>1, <3>2
  <2>4. CASE \E k \in 1 .. L : j = Len(s) + k
    <3>. PICK k \in 1 .. L : j = Len(s) + k
      BY <2>4
    <3>1. CASE i \in 1 .. Len(s)
      <4>1. t[i] = s[i] /\ s[i][1] \in Nat
        BY <1>5, <3>1 DEF Frames
      <4>2. t[i][1] < t[j][1] /\ t[j][1] = g
        BY <1>5, <2>2, <3>1
      <4>. QED BY <1>1, <4>1, <4>2
    <3>2. CASE \E h \in 1 .. L : i = Len(s) + h
      <4>1. t[i][1] = g /\ t[j][1] = g /\ t[i][2] < t[j][2]
        BY <2>3, <3>2
      <4>. QED BY <1>1, <4>1
    <3>. QED BY <1>7, <3>1, <3>2
  <2>. QED BY <1>7, <2>1, <2>4
<1>10. Frames(js, t)
  BY <1>8, <1>9 DEF Frames
<1>11. Account(js, sv, t)
  <2>1. ASSUME NEW f \in 1 .. Len(js), GoodKind(js[f])
        PROVE  \/ \E j \in 1 .. Len(sv) : sv[j] = f
               \/ \E i \in 1 .. Len(t) : t[i] = <<f, 1>>
    <3>1. CASE f = g
      <4>1. 1 \in 1 .. L /\ Len(s) + 1 \in 1 .. Len(t)
        BY <1>2, <1>4
      <4>. QED BY <1>5, <3>1, <4>1
    <3>2. CASE f # g
      <4>1. f \in 1 .. Len(ks) /\ GoodKind(ks[f])
        BY <1>1, <2>1, <3>2 DEF g
      <4>2. \/ \E j \in 1 .. Len(sv) : sv[j] = f
            \/ \E i \in 1 .. Len(s) : s[i] = <<f, 1>>
        BY <4>1 DEF Account
      <4>3. \A i \in 1 .. Len(s) : i \in 1 .. Len(t) /\ t[i] = s[i]
        BY <1>2, <1>4, <1>5
      <4>. QED BY <4>2, <4>3
    <3>. QED BY <3>1, <3>2
  <2>2. ASSUME NEW j \in 1 .. Len(sv), NEW i \in 1 .. Len(t)
        PROVE  sv[j] <= t[i][1] /\ t[i] # <<sv[j], 1>>
    <3>1. CASE i \in 1 .. Len(s)
      BY <1>5, <3>1 DEF Account
    <3>2. ASSUME NEW k \in 1 .. L, i = Len(s) + k
          PROVE  sv[j] <= t[i][1] /\ t[i] # <<sv[j], 1>>
      <4>1. sv[j] \in 1 .. Len(ks)
        BY DEF Ordered
      <4>2. t[i] = <<g, k>> /\ sv[j] < g
        BY <1>1, <1>5, <3>2, <4>1 DEF g
      <4>3. t[i][1] = g /\ t[i] # <<sv[j], 1>> /\ sv[j] <= g
        BY <1>1, <4>1, <4>2
      <4>. QED BY <4>3
    <3>. QED BY <1>7, <3>1, <3>2
  <2>. QED BY <2>1, <2>2 DEF Account
<1>12. Ordered(js, sv)
  <2>1. \A i \in 1 .. Len(sv) : sv[i] \in 1 .. Len(ks) /\ GoodKind(ks[sv[i]])
    BY DEF Ordered
  <2>2. \A i \in 1 .. Len(sv) : sv[i] \in 1 .. Len(js) /\ GoodKind(js[sv[i]])
    BY <1>1, <2>1 DEF g
  <2>3. ASSUME NEW i \in 1 .. Len(sv), NEW f \in 1 .. sv[i], GoodKind(js[f])
        PROVE  \E j \in 1 .. Len(sv) : sv[j] = f
    <3>1. f \in 1 .. Len(ks) /\ GoodKind(ks[f])
      BY <1>1, <2>1, <2>3
    <3>. QED BY <3>1 DEF Ordered
  <2>. QED BY <2>2, <2>3 DEF Ordered
<1>. QED BY <1>10, <1>11, <1>12 DEF t, fr, js, L, g

\* A request is served: the first good frame in the stream, whose header and as many
\* bytes as its content has are passed.  What an extension area leaves behind is no
\* frame of its own.
LEMMA ServeStep ==
  ASSUME NEW ks \in Seq(Kinds), NEW sv \in Seq(Nat), NEW s \in Seq(Byte),
         NEW p \in 1 .. Len(s), NEW n \in 0 .. Len(s), NEW f, f = s[p][1],
         Frames(ks, s), Account(ks, sv, s), Ordered(ks, sv),
         s[p][2] = 1, GoodKind(ks[f]),
         n = p + 1 + Shape[ks[f]].len,
         \A i \in 1 .. p - 1 : s[i][2] = 1 => ~GoodKind(ks[s[i][1]])
  PROVE  /\ Ordered(ks, Append(sv, f))
         /\ Account(ks, Append(sv, f), SubSeq(s, n + 1, Len(s)))
<1>. DEFINE q == Append(sv, f)
            t == SubSeq(s, n + 1, Len(s))
<1>1. /\ Len(s) \in Nat /\ Len(t) = Len(s) - n
      /\ \A i \in 1 .. Len(s) - n : t[i] = s[n + i]
  BY SplitSeq
<1>2. f \in 1 .. Len(ks) /\ f \in Nat
  BY DEF Frames
<1>3. /\ Len(sv) \in Nat /\ Len(q) = Len(sv) + 1 /\ q[Len(sv) + 1] = f
      /\ \A j \in 1 .. Len(sv) : q[j] = sv[j] /\ sv[j] \in Nat
  BY <1>2, AppendProperties
<1>4. s[p] = <<f, 1>>
  BY ByteType
<1>. HIDE DEF q, t
<1>5. \A j \in 1 .. Len(q) : j \in 1 .. Len(sv) \/ j = Len(sv) + 1
  BY <1>3
<1>6. \A j \in 1 .. Len(sv) : j \in 1 .. Len(q)
  BY <1>3
<1>7. ASSUME NEW j \in 1 .. Len(sv) PROVE sv[j] < f
  <2>1. sv[j] <= s[p][1] /\ s[p] # <<sv[j], 1>>
    BY DEF Account
  <2>2. sv[j] # f
    BY <1>4, <2>1
  <2>. QED BY <1>2, <1>3, <2>1, <2>2
<1>8. ASSUME NEW i \in 1 .. Len(s), NEW h \in 1 .. Len(ks), s[i] = <<h, 1>>, GoodKind(ks[h]),
             h # f
      PROVE  i > n /\ h > f
  <2>0. s[i][1] = h /\ s[i][2] = 1
    BY <1>8
  <2>1. ~(i < p)
    <3>1. i < p => i \in 1 .. p - 1
      BY <1>1
    <3>. QED BY <1>8, <2>0, <3>1
  <2>2. i # p
    BY <1>8, <2>0
  <2>3. p < i
    BY <1>1, <2>1, <2>2
  <2>4. f <= h
    BY <2>0, <2>3 DEF Frames
  <2>5. i > n
    <3>. DEFINE L == LenOf(ks, f)
                len == Shape[ks[f]].len
    <3>1. L \in Nat /\ len \in Nat /\ L >= 2 + len
      <4>. DEFINE o == Shape[ks[f]].ofst
      <4>1. L \in Nat /\ len \in Nat /\ o \in Nat /\ o >= 2 /\ L = o + len
        BY <1>2, LenOfType
      <4>. HIDE DEF L, len, o
      <4>. QED BY <4>1
    <3>2. \A m \in 0 .. L - 1 : s[p + m] = <<f, 1 + m>>
      BY DEF Frames
    <3>. HIDE DEF L, len
    <3>3. SUFFICES ASSUME i <= n PROVE FALSE
      BY <1>1
    <3>4. n = p + 1 + len
      BY DEF len
    <3>5. i - p \in 0 .. L - 1 /\ p + (i - p) = i
      BY <1>1, <2>3, <3>1, <3>3, <3>4
    <3>6. s[i] = <<f, 1 + (i - p)>>
      BY <3>2, <3>5
    <3>7. s[i][1] = f
      BY <3>6
    <3>. QED BY <1>8, <2>0, <3>7
  <2>. QED BY <1>2, <1>8, <2>4, <2>5
<1>9. ASSUME NEW h \in 1 .. f, GoodKind(ks[h])
      PROVE  \E j \in 1 .. Len(q) : q[j] = h
  <2>1. CASE h = f
    <3>1. Len(sv) + 1 \in 1 .. Len(q)
      BY <1>3
    <3>. QED BY <1>3, <2>1, <3>1
  <2>2. CASE h # f
    <3>1. h \in 1 .. Len(ks) /\ ~(h > f)
      BY <1>2, <2>2
    <3>2. \/ \E j \in 1 .. Len(sv) : sv[j] = h
          \/ \E i \in 1 .. Len(s) : s[i] = <<h, 1>>
      BY <1>9, <3>1 DEF Account
    <3>3. \E j \in 1 .. Len(sv) : sv[j] = h
      BY <1>8, <1>9, <2>2, <3>1, <3>2
    <3>. QED BY <1>3, <1>6, <3>3
  <2>. QED BY <2>1, <2>2
<1>10. Ordered(ks, q)
  <2>1. ASSUME NEW i \in 1 .. Len(q) PROVE q[i] \in 1 .. Len(ks) /\ GoodKind(ks[q[i]])
    <3>1. CASE i \in 1 .. Len(sv)
      BY <1>3, <3>1 DEF Ordered
    <3>2. CASE i = Len(sv) + 1
      BY <1>2, <1>3, <3>2
    <3>. QED BY <1>5, <3>1, <3>2
  <2>2. ASSUME NEW i \in 1 .. Len(q), NEW j \in 1 .. Len(q), i < j PROVE q[i] < q[j]
    <3>1. i \in 1 .. Len(sv)
      BY <1>3, <2>2
    <3>2. CASE j \in 1 .. Len(sv)
      BY <1>3, <2>2, <3>1, <3>2 DEF Ordered
    <3>3. CASE j = Len(sv) + 1
      BY <1>3, <1>7, <3>1, <3>3
    <3>. QED BY <1>5, <3>2, <3>3
  <2>3. ASSUME NEW i \in 1 .. Len(q), NEW h \in 1 .. q[i], GoodKind(ks[h])
        PROVE  \E j \in 1 .. Len(q) : q[j] = h
    <3>1. h \in 1 .. f
      <4>1. q[i] \in Nat /\ q[i] <= f
        <5>1. CASE i \in 1 .. Len(sv)
          <6>1. q[i] = sv[i] /\ sv[i] \in Nat /\ sv[i] < f
            BY <1>3, <1>7, <5>1
          <6>. QED BY <1>2, <6>1
        <5>2. CASE i = Len(sv) + 1
          BY <1>2, <1>3, <5>2
        <5>. QED BY <1>5, <5>1, <5>2
      <4>. QED BY <1>2, <4>1
    <3>. QED BY <1>9, <2>3, <3>1
  <2>. QED BY <2>1, <2>2, <2>3 DEF Ordered
<1>11. Account(ks, q, t)
  <2>1. ASSUME NEW h \in 1 .. Len(ks), GoodKind(ks[h])
        PROVE  \/ \E j \in 1 .. Len(q) : q[j] = h
               \/ \E i \in 1 .. Len(t) : t[i] = <<h, 1>>
    <3>1. CASE h = f
      <4>1. h \in 1 .. f
        BY <1>2, <3>1
      <4>. QED BY <1>9, <2>1, <4>1
    <3>2. CASE \E j \in 1 .. Len(sv) : sv[j] = h
      BY <1>3, <1>6, <3>2
    <3>3. ASSUME NEW i \in 1 .. Len(s), s[i] = <<h, 1>>, h # f
          PROVE  \E k \in 1 .. Len(t) : t[k] = <<h, 1>>
      <4>1. i > n
        BY <1>8, <2>1, <3>3
      <4>2. i - n \in 1 .. Len(s) - n /\ n + (i - n) = i
        BY <1>1, <4>1
      <4>3. t[i - n] = s[i] /\ i - n \in 1 .. Len(t)
        BY <1>1, <4>2
      <4>. QED BY <3>3, <4>3
    <3>4. \/ \E j \in 1 .. Len(sv) : sv[j] = h
          \/ \E i \in 1 .. Len(s) : s[i] = <<h, 1>>
      BY <2>1 DEF Account
    <3>. QED BY <3>1, <3>2, <3>3, <3>4
  <2>2. ASSUME NEW j \in 1 .. Len(q), NEW i \in 1 .. Len(t)
        PROVE  q[j] <= t[i][1] /\ t[i] # <<q[j], 1>>
    <3>1. n + i \in 1 .. Len(s) /\ t[i] = s[n + i]
      BY <1>1
    <3>2. CASE j \in 1 .. Len(sv)
      <4>1. sv[j] <= s[n + i][1] /\ s[n + i] # <<sv[j], 1>>
        BY <3>1, <3>2 DEF Account
      <4>. QED BY <1>3, <3>1, <3>2, <4>1
    <3>3. CASE j = Len(sv) + 1
      <4>1. p < n + i
        <5>. DEFINE len == Shape[ks[f]].len
        <5>1. len \in Nat /\ n = p + 1 + len
          BY <1>2, LenOfType
        <5>2. i \in Nat /\ i >= 1 /\ p \in Nat
          BY <1>1
        <5>. HIDE DEF len
        <5>. QED BY <5>1, <5>2
      <4>2. f <= s[n + i][1] /\ (s[n + i][1] = f => 1 < s[n + i][2])
        BY <3>1, <4>1 DEF Frames
      <4>3. s[n + i] # <<f, 1>>
        BY <4>2
      <4>. QED BY <1>3, <3>1, <3>3, <4>2, <4>3
    <3>. QED BY <1>5, <3>2, <3>3
  <2>. QED BY <2>1, <2>2 DEF Account
<1>. QED BY <1>10, <1>11 DEF q, t

-----------------------------------------------------------------------------
(* What the steps do to the two streams *)

\* The encoder appends a frame to the stream of replies, or drops it; if the making
\* of room has lost bytes the model ends.
LEMMA EncodeProperties ==
  ASSUME NEW frame \in Seq(Byte), sbuf \in Buf, queued \in Seq(Byte), sent \in Seq(Byte),
         sent \o Pending(sbuf) = queued, lts_proto_sjsonb_encode(frame)
  PROVE  /\ sbuf' \in Buf /\ queued' \in Seq(Byte) /\ conn' \in {conn, "scrambled"}
         /\ conn' # "scrambled" => sent \o Pending(sbuf') = queued'
<1>. DEFINE b == MakeRoom(sbuf)
            fits == Space(b) >= Len(frame)
<1>1. b \in Buf /\ Space(b) \in Nat /\ Len(frame) \in Nat
  BY RoomProperties, PendingProperties, CapAssumption DEF Space
<1>2. /\ sbuf' = IF fits THEN lts_buffer_append(b, frame) ELSE b
      /\ queued' = IF fits THEN queued \o frame ELSE queued
      /\ conn' = IF Pending(b) = Pending(sbuf) THEN conn ELSE "scrambled"
  BY Zenon DEF lts_proto_sjsonb_encode
<1>3. /\ conn' \in {conn, "scrambled"}
      /\ conn' # "scrambled" => Pending(b) = Pending(sbuf)
  BY <1>2
<1>4. CASE fits
  <2>1. sbuf' = lts_buffer_append(b, frame) /\ queued' = queued \o frame
    BY <1>2, <1>4
  <2>2. Len(frame) <= Space(b)
    BY <1>1, <1>4
  <2>3. /\ lts_buffer_append(b, frame) \in Buf
        /\ Pending(lts_buffer_append(b, frame)) = Pending(b) \o frame
    BY <1>1, <2>2, AppendPending
  <2>4. queued \o frame \in Seq(Byte)
    BY ConcatProperties
  <2>5. Pending(sbuf) \in Seq(Byte)
    BY PendingProperties
  <2>6. (sent \o Pending(sbuf)) \o frame = sent \o (Pending(sbuf) \o frame)
    BY <2>5, BytesAssociative, Zenon
  <2>. HIDE DEF b
  <2>. QED BY <1>3, <2>1, <2>3, <2>4, <2>6
<1>5. CASE ~fits
  <2>1. sbuf' = b /\ queued' = queued
    BY <1>2, <1>5
  <2>. HIDE DEF b
  <2>. QED BY <1>1, <1>3, <2>1
<1>. QED BY <1>4, <1>5

\* lts_send moves bytes from one end of the stream of replies to the other.
LEMMA SendProperties ==
  ASSUME sbuf \in Buf, sent \in Seq(Byte), lts_send
  PROVE  /\ sbuf' \in Buf /\ sent' \in Seq(Byte)
         /\ sent' \o Pending(sbuf') = sent \o Pending(sbuf)
<1>. DEFINE p == Pending(sbuf)
<1>1. p \in Seq(Byte) /\ Len(p) \in Nat
  BY PendingProperties
<1>2. PICK n \in 1 .. Len(p) : /\ sent' = sent \o SubSeq(p, 1, n)
                               /\ sbuf' = ClearIfSent(Skip(sbuf, n))
  BY DEF lts_send
<1>. DEFINE a == SubSeq(p, 1, n)
            z == SubSeq(p, n + 1, Len(p))
<1>3. n \in 0 .. Len(Pending(sbuf)) /\ n \in 0 .. Len(p)
  BY <1>1
<1>4. a \in Seq(Byte) /\ z \in Seq(Byte) /\ a \o z = p
  BY <1>1, <1>3, SplitSeq
<1>5. Skip(sbuf, n) \in Buf /\ Pending(Skip(sbuf, n)) = z
  BY <1>3, SkipPending
<1>6. sbuf' \in Buf /\ Pending(sbuf') = z
  BY <1>2, <1>5, ClearPending
<1>7. sent' = sent \o a
  BY <1>2
<1>. HIDE DEF a, z, p
<1>8. sent \o a \in Seq(Byte)
  BY <1>4, ConcatProperties
<1>9. (sent \o a) \o z = sent \o (a \o z)
  BY <1>4, BytesAssociative, Zenon
<1>. QED BY <1>4, <1>6, <1>7, <1>8, <1>9 DEF p

\* What arrives was on its way.
LEMMA ArriveProperties ==
  ASSUME Types, Arrive
  PROVE  outbox' \in Seq(Byte) /\ wire' \in Seq(Byte) /\ Coming' = Coming
<1>1. /\ outbox \in Seq(Byte) /\ wire \in Seq(Byte) /\ Len(outbox) \in Nat
      /\ rbuf' = rbuf
  BY DEF Types, Arrive
<1>2. PICK n \in 1 .. Len(outbox) : /\ wire' = wire \o SubSeq(outbox, 1, n)
                                    /\ outbox' = SubSeq(outbox, n + 1, Len(outbox))
  BY DEF Arrive
<1>. DEFINE a == SubSeq(outbox, 1, n)
            z == SubSeq(outbox, n + 1, Len(outbox))
<1>3. n \in 0 .. Len(outbox)
  BY <1>1
<1>4. a \in Seq(Byte) /\ z \in Seq(Byte) /\ a \o z = outbox
  BY <1>1, <1>3, SplitSeq
<1>5. wire' = wire \o a /\ outbox' = z
  BY <1>2
<1>. HIDE DEF a, z
<1>6. wire \o a \in Seq(Byte)
  BY <1>1, <1>4, ConcatProperties
<1>7. (wire \o a) \o z = wire \o (a \o z)
  BY <1>1, <1>4, BytesAssociative, Zenon
<1>8. wire' \o outbox' = wire \o outbox
  BY <1>4, <1>5, <1>7
<1>9. Coming' = Pending(rbuf') \o (wire' \o outbox')
  BY DEF Coming, Pending
<1>10. Pending(rbuf') = Pending(rbuf)
  BY <1>1
<1>. QED BY <1>4, <1>5, <1>6, <1>8, <1>9, <1>10 DEF Coming

\* The bytes of the receive buffer come from frames sent, after room was made, too.
LEMMA RecvRoomKnown ==
  ASSUME rbuf \in Buf, NEW ks \in Seq(Kinds), Known(ks, rbuf.bytes)
  PROVE  Known(ks, RecvRoom.bytes)
<1>1. CASE Full(rbuf)
  <2>. DEFINE n == Len(rbuf.bytes) - rbuf.seek
              d == [i \in 1 .. n |-> IF i <= rbuf.seek THEN rbuf.bytes[i + rbuf.seek]
                                     ELSE rbuf.bytes[i]]
  <2>1. /\ rbuf.bytes \in Seq(Byte) /\ rbuf.seek \in Nat /\ Len(rbuf.bytes) \in Nat
        /\ rbuf.seek <= Len(rbuf.bytes) /\ n \in Nat
    BY PendingProperties
  <2>2. RecvRoom = [bytes |-> d, seek |-> 0]
    BY <1>1 DEF RecvRoom, lts_buffer_drop_accessed
  <2>3. RecvRoom.bytes = d /\ Len(d) = n
    BY <2>1, <2>2
  <2>4. ASSUME NEW i \in 1 .. n PROVE d[i][1] \in 1 .. Len(ks)
    <3>1. CASE i <= rbuf.seek
      <4>1. d[i] = rbuf.bytes[i + rbuf.seek] /\ i + rbuf.seek \in 1 .. Len(rbuf.bytes)
        BY <2>1, <3>1
      <4>. QED BY <4>1 DEF Known
    <3>2. CASE ~(i <= rbuf.seek)
      <4>1. d[i] = rbuf.bytes[i] /\ i \in 1 .. Len(rbuf.bytes)
        BY <2>1, <3>2
      <4>. QED BY <4>1 DEF Known
    <3>. QED BY <3>1, <3>2
  <2>. HIDE DEF d, n
  <2>. QED BY <2>3, <2>4 DEF Known
<1>2. CASE ~Full(rbuf)
  BY <1>2 DEF RecvRoom
<1>. QED BY <1>1, <1>2

\* What comes, when the receive buffer has lost nothing
LEMMA ComingTypes ==
  ASSUME Types
  PROVE  /\ Pending(rbuf) \in Seq(Byte) /\ wire \o outbox \in Seq(Byte)
         /\ Coming \in Seq(Byte) /\ Len(Coming) \in Nat
         /\ Len(Coming) = Len(Pending(rbuf)) + (Len(wire) + Len(outbox))
         /\ \A i \in 1 .. Len(Pending(rbuf)) :
              i \in 1 .. Len(Coming) /\ Coming[i] = Pending(rbuf)[i]
         /\ \A i \in 1 .. Len(wire) :
              /\ Len(Pending(rbuf)) + i \in 1 .. Len(Coming)
              /\ Coming[Len(Pending(rbuf)) + i] = wire[i]
<1>. DEFINE p == Pending(rbuf)
            w == wire \o outbox
            s == p \o w
<1>1. p \in Seq(Byte) /\ Len(p) \in Nat
  BY PendingProperties DEF Types
<1>2. /\ wire \in Seq(Byte) /\ outbox \in Seq(Byte) /\ Len(wire) \in Nat /\ Len(outbox) \in Nat
  BY DEF Types
<1>3. /\ w \in Seq(Byte) /\ Len(w) = Len(wire) + Len(outbox)
      /\ \A i \in 1 .. Len(wire) + Len(outbox) :
           w[i] = IF i <= Len(wire) THEN wire[i] ELSE outbox[i - Len(wire)]
  BY <1>2, ConcatProperties
<1>. HIDE DEF p, w
<1>4. /\ s \in Seq(Byte) /\ Len(s) = Len(p) + Len(w)
      /\ \A i \in 1 .. Len(p) + Len(w) : s[i] = IF i <= Len(p) THEN p[i] ELSE w[i - Len(p)]
  <2>1. p \in Seq(Byte) /\ w \in Seq(Byte)
    BY <1>1, <1>3
  <2>. QED BY <2>1, ConcatProperties
<1>. HIDE DEF s
<1>5. \A i \in 1 .. Len(p) : i \in 1 .. Len(s) /\ s[i] = p[i]
  BY <1>1, <1>2, <1>3, <1>4
<1>6. ASSUME NEW i \in 1 .. Len(wire)
      PROVE  Len(p) + i \in 1 .. Len(s) /\ s[Len(p) + i] = wire[i]
  <2>1. /\ Len(p) + i \in 1 .. Len(p) + Len(w) /\ ~(Len(p) + i <= Len(p))
        /\ (Len(p) + i) - Len(p) = i /\ i \in 1 .. Len(wire) + Len(outbox) /\ i <= Len(wire)
    BY <1>1, <1>2, <1>3
  <2>2. s[Len(p) + i] = w[(Len(p) + i) - Len(p)]
    BY <1>4, <2>1
  <2>3. w[i] = wire[i]
    BY <1>3, <2>1
  <2>. QED BY <1>4, <2>1, <2>2, <2>3
<1>7. Coming = s
  BY DEF Coming, s, p, w
<1>. QED BY <1>1, <1>2, <1>3, <1>4, <1>5, <1>6, <1>7 DEF p, w

\* lts_recv moves bytes within the stream.
LEMMA RecvProperties ==
  ASSUME Types, Received, Frames(kinds, Coming), RecvData
  PROVE  /\ rbuf' \in Buf /\ wire' \in Seq(Byte)
         /\ Known(kinds, rbuf'.bytes)
         /\ conn' \in {conn, "scrambled"}
         /\ conn' # "scrambled" => Coming' = Coming
<1>. DEFINE b == RecvRoom
            n == Min({Space(b), Len(wire)})
            a == SubSeq(wire, 1, n)
            z == SubSeq(wire, n + 1, Len(wire))
<1>1. /\ rbuf \in Buf /\ wire \in Seq(Byte) /\ outbox \in Seq(Byte) /\ Len(wire) \in Nat
      /\ kinds \in Seq(Kinds) /\ conn = "open"
  BY DEF Types, RecvData
<1>2. b \in Buf /\ Space(b) \in Nat /\ Pending(b) \in Seq(Byte) /\ b.bytes \in Seq(Byte)
      /\ Len(b.bytes) \in Nat
  BY <1>1, RoomProperties, PendingProperties, CapAssumption DEF Space
<1>3. n \in 0 .. Len(wire) /\ n <= Space(b)
  <2>1. {Space(b), Len(wire)} \in SUBSET Nat /\ {Space(b), Len(wire)} # {}
    BY <1>1, <1>2
  <2>2. n \in {Space(b), Len(wire)} /\ \A y \in {Space(b), Len(wire)} : n <= y
    BY <2>1, MinProperties
  <2>. HIDE DEF n
  <2>. QED BY <1>1, <1>2, <2>2
<1>4. /\ a \in Seq(Byte) /\ z \in Seq(Byte) /\ a \o z = wire /\ Len(a) = n
  BY <1>1, <1>3, SplitSeq
<1>5. \A i \in 1 .. n : a[i] = wire[i]
  BY <1>1, <1>3
<1>6. /\ rbuf' = lts_buffer_append(b, a) /\ wire' = z /\ outbox' = outbox
      /\ conn' = IF Pending(b) = Pending(rbuf) THEN conn ELSE "scrambled"
  BY Zenon DEF RecvData
<1>. HIDE DEF a, z, n, b
<1>7. /\ lts_buffer_append(b, a) \in Buf
      /\ Pending(lts_buffer_append(b, a)) = Pending(b) \o a
  BY <1>2, <1>3, <1>4, AppendPending
<1>8. conn' # "scrambled" => Coming' = Coming
  <2>. SUFFICES ASSUME conn' # "scrambled" PROVE Coming' = Coming
    OBVIOUS
  <2>1. Pending(b) = Pending(rbuf)
    BY <1>6
  <2>2. Coming' = Pending(rbuf') \o (wire' \o outbox')
    BY DEF Coming, Pending
  <2>3. Coming' = (Pending(rbuf) \o a) \o (z \o outbox)
    BY <1>6, <1>7, <2>1, <2>2
  <2>4. z \o outbox \in Seq(Byte) /\ a \in Seq(Byte) /\ z \in Seq(Byte)
        /\ Pending(rbuf) \in Seq(Byte)
    BY <1>1, <1>2, <1>4, <2>1, ConcatProperties
  <2>5. (Pending(rbuf) \o a) \o (z \o outbox) = Pending(rbuf) \o (a \o (z \o outbox))
    BY <2>4, BytesAssociative, Zenon
  <2>6. (a \o z) \o outbox = a \o (z \o outbox)
    BY <1>1, <2>4, BytesAssociative, Zenon
  <2>. QED BY <1>4, <2>3, <2>5, <2>6 DEF Coming
<1>9. Known(kinds, rbuf'.bytes)
  <2>1. Known(kinds, b.bytes)
    BY <1>1, RecvRoomKnown DEF Received, b
  <2>2. \A i \in 1 .. Len(wire) : wire[i][1] \in 1 .. Len(kinds)
    <3>1. ASSUME NEW i \in 1 .. Len(wire) PROVE wire[i][1] \in 1 .. Len(kinds)
      <4>1. /\ Len(Pending(rbuf)) + i \in 1 .. Len(Coming)
            /\ Coming[Len(Pending(rbuf)) + i] = wire[i]
        BY ComingTypes
      <4>. QED BY <4>1 DEF Frames
    <3>. QED BY <3>1
  <2>3. lts_buffer_append(b, a).bytes = b.bytes \o a
    BY <1>2 DEF lts_buffer_append, Buf
  <2>. DEFINE d == b.bytes \o a
  <2>4. /\ Len(d) = Len(b.bytes) + n
        /\ \A i \in 1 .. Len(b.bytes) + Len(a) :
             d[i] = IF i <= Len(b.bytes) THEN b.bytes[i] ELSE a[i - Len(b.bytes)]
    BY <1>2, <1>4, ConcatProperties
  <2>. HIDE DEF d
  <2>5. ASSUME NEW i \in 1 .. Len(d) PROVE d[i][1] \in 1 .. Len(kinds)
    <3>1. CASE i <= Len(b.bytes)
      <4>1. d[i] = b.bytes[i] /\ i \in 1 .. Len(b.bytes)
        BY <1>2, <1>3, <1>4, <2>4, <3>1
      <4>. QED BY <2>1, <4>1 DEF Known
    <3>2. CASE ~(i <= Len(b.bytes))
      <4>1. /\ i \in 1 .. Len(b.bytes) + Len(a) /\ i - Len(b.bytes) \in 1 .. n
            /\ i - Len(b.bytes) \in 1 .. Len(wire)
        BY <1>1, <1>2, <1>3, <1>4, <2>4, <3>2
      <4>2. d[i] = a[i - Len(b.bytes)]
        BY <2>4, <3>2, <4>1
      <4>3. d[i] = wire[i - Len(b.bytes)]
        BY <1>5, <4>1, <4>2
      <4>. QED BY <2>2, <4>1, <4>3
    <3>. QED BY <3>1, <3>2
  <2>. QED BY <1>6, <2>3, <2>5 DEF Known, d
<1>. QED BY <1>4, <1>6, <1>7, <1>8, <1>9

\* The service finds no request and the connection ends, or it serves the first good
\* frame of the stream.
LEMMA ServiceProperties ==
  ASSUME StreamInv, Service
  PROVE  /\ rbuf' \in Buf
         /\ \/ /\ conn' \in {"scrambled", "doomed"}
               /\ served' = served /\ sbuf' = sbuf /\ queued' = queued
            \/ /\ sbuf' \in Buf /\ queued' \in Seq(Byte) /\ conn' \in {"open", "scrambled"}
               /\ conn' # "scrambled" => sent \o Pending(sbuf') = queued'
               /\ Known(kinds, rbuf'.bytes)
               /\ \E p \in 1 .. Len(Coming), n \in 0 .. Len(Coming) :
                    LET f == Coming[p][1]
                    IN /\ served' = Append(served, f) /\ f \in 1 .. Len(kinds)
                       /\ Coming[p][2] = 1 /\ GoodKind(kinds[f])
                       /\ n = p + 1 + Shape[kinds[f]].len
                       /\ \A i \in 1 .. p - 1 :
                            Coming[i][2] = 1 => ~GoodKind(kinds[Coming[i][1]])
                       /\ Coming' = SubSeq(Coming, n + 1, Len(Coming))
<1>. DEFINE b == RecvRoom
            d == lts_proto_sjsonb_decode(b)
<1>1. /\ rbuf \in Buf /\ sbuf \in Buf /\ wire = <<>> /\ outbox \in Seq(Byte)
      /\ kinds \in Seq(Kinds) /\ conn = "open" /\ Known(kinds, rbuf.bytes)
      /\ sent \in Seq(Byte) /\ queued \in Seq(Byte) /\ wire' = wire /\ outbox' = outbox
      /\ sent \o Pending(sbuf) = queued /\ Frames(kinds, Coming)
  BY DEF StreamInv, Types, Service, Received, InOrder, Intact
<1>2. b \in Buf /\ Known(kinds, b.bytes)
  BY <1>1, RoomProperties, RecvRoomKnown
<1>3. /\ rbuf' = d.buf
      /\ \/ conn' = "scrambled" /\ served' = served /\ sbuf' = sbuf /\ queued' = queued
         \/ conn' = "doomed" /\ served' = served /\ sbuf' = sbuf /\ queued' = queued
         \/ /\ Pending(b) = Pending(rbuf) /\ d.request # 0
            /\ served' = Append(served, d.request)
            /\ lts_proto_sjsonb_encode(Frame(d.request, LEN_REPLY))
  BY DEF Service
<1>. DEFINE P == Pending(b)
<1>4. /\ d.buf \in Buf /\ d.buf.bytes \in {b.bytes, <<>>}
      /\ d.request # 0 =>
           \E m \in 0 .. Len(P) - 1 :
              LET f == P[m + 1][1]
                  n == m + LEN_HEADER + Shaped(f).len
              IN /\ d.request = f
                 /\ P[m + 1][2] = 1 /\ Good(f)
                 /\ m + FrameLen(Shaped(f)) <= Len(P)
                 /\ n \in 0 .. Len(P)
                 /\ Pending(d.buf) = SubSeq(P, n + 1, Len(P))
                 /\ \A j \in 0 .. m - 1 : P[j + 1][2] = 1 => ~Good(P[j + 1][1])
  BY <1>1, <1>2, DecodeProperties
<1>5. Known(kinds, d.buf.bytes)
  BY <1>2, <1>4 DEF Known
<1>. HIDE DEF b, d
<1>6. CASE ~(Pending(b) = Pending(rbuf) /\ d.request # 0 /\ served' = Append(served, d.request)
             /\ lts_proto_sjsonb_encode(Frame(d.request, LEN_REPLY)))
  BY <1>3, <1>4, <1>6
<1>7. CASE Pending(b) = Pending(rbuf) /\ d.request # 0 /\ served' = Append(served, d.request)
           /\ lts_proto_sjsonb_encode(Frame(d.request, LEN_REPLY))
  <2>1. PICK m \in 0 .. Len(P) - 1 :
              LET f == P[m + 1][1]
                  n == m + LEN_HEADER + Shaped(f).len
              IN /\ d.request = f
                 /\ P[m + 1][2] = 1 /\ Good(f)
                 /\ m + FrameLen(Shaped(f)) <= Len(P)
                 /\ n \in 0 .. Len(P)
                 /\ Pending(d.buf) = SubSeq(P, n + 1, Len(P))
                 /\ \A j \in 0 .. m - 1 : P[j + 1][2] = 1 => ~Good(P[j + 1][1])
    BY <1>4, <1>7
  <2>. DEFINE f == P[m + 1][1]
              len == Shaped(f).len
              n == m + LEN_HEADER + len
  <2>2. /\ d.request = f /\ P[m + 1][2] = 1 /\ Good(f)
        /\ n \in 0 .. Len(P) /\ Pending(d.buf) = SubSeq(P, n + 1, Len(P))
        /\ \A j \in 0 .. m - 1 : P[j + 1][2] = 1 => ~Good(P[j + 1][1])
    BY <2>1
  <2>3. /\ P \in Seq(Byte) /\ Len(P) \in Nat /\ P = Pending(rbuf)
        /\ Coming \in Seq(Byte) /\ Len(Coming) \in Nat /\ Len(P) <= Len(Coming)
        /\ \A i \in 1 .. Len(P) : i \in 1 .. Len(Coming) /\ Coming[i] = P[i]
    <3>1. /\ Len(Coming) = Len(Pending(rbuf)) + (Len(wire) + Len(outbox))
          /\ Len(wire) \in Nat /\ Len(outbox) \in Nat
      BY <1>1, ComingTypes DEF StreamInv
    <3>. QED BY <1>1, <1>7, <3>1, ComingTypes, PendingProperties DEF StreamInv
  <2>. HIDE DEF P
  <2>4. m + 1 \in 1 .. Len(P) /\ m + 1 \in 1 .. Len(Coming) /\ Coming[m + 1] = P[m + 1]
    BY <2>3
  <2>5. f \in 1 .. Len(kinds) /\ f \in Nat
    BY <1>1, <2>4 DEF Frames
  <2>6. len \in Nat /\ len = Shape[kinds[f]].len
    BY <1>1, <2>5, LenOfType DEF Shaped
  <2>7. n \in 0 .. Len(Coming) /\ n = (m + 1) + 1 + len
    <3>. HIDE DEF len
    <3>. QED BY <2>2, <2>3, <2>6 DEF LEN_HEADER
  <2>8. ASSUME NEW i \in 1 .. (m + 1) - 1, Coming[i][2] = 1
        PROVE  ~GoodKind(kinds[Coming[i][1]])
    <3>1. i - 1 \in 0 .. m - 1 /\ (i - 1) + 1 = i /\ i \in 1 .. Len(P)
      BY <2>3
    <3>2. Coming[i] = P[i]
      BY <2>3, <3>1
    <3>3. ~Good(P[i][1])
      BY <2>2, <2>8, <3>1, <3>2
    <3>. QED BY <3>2, <3>3 DEF Good, GoodKind, Shaped
  <2>9. GoodKind(kinds[f])
    BY <2>2 DEF Good, GoodKind, Shaped
  <2>10. Coming' = SubSeq(Coming, n + 1, Len(Coming))
    <3>. HIDE DEF n
    <3>1. Coming' = Pending(rbuf') \o (wire' \o outbox')
      BY DEF Coming, Pending
    <3>2. wire' \o outbox' = outbox /\ wire \o outbox = outbox
      BY <1>1, ConcatEmptySeq
    <3>3. Coming' = SubSeq(P, n + 1, Len(P)) \o outbox
      BY <1>3, <2>2, <3>1, <3>2
    <3>4. Coming = P \o outbox
      BY <2>3, <3>2 DEF Coming
    <3>5. SubSeq(P \o outbox, n + 1, Len(P \o outbox)) = SubSeq(P, n + 1, Len(P)) \o outbox
      BY <1>1, <2>2, <2>3, SuffixOfConcat
    <3>. QED BY <3>3, <3>4, <3>5
  <2>11. /\ sbuf' \in Buf /\ queued' \in Seq(Byte) /\ conn' \in {conn, "scrambled"}
         /\ conn' # "scrambled" => sent \o Pending(sbuf') = queued'
    <3>1. Frame(d.request, LEN_REPLY) \in Seq(Byte)
      BY <2>2, <2>5, FrameProperties DEF LEN_REPLY
    <3>. QED BY <1>1, <1>7, <3>1, EncodeProperties
  <2>. DEFINE p == m + 1
  <2>12. /\ p \in 1 .. Len(Coming) /\ n \in 0 .. Len(Coming) /\ Coming[p][1] = f
         /\ served' = Append(served, Coming[p][1]) /\ Coming[p][1] \in 1 .. Len(kinds)
         /\ Coming[p][2] = 1 /\ GoodKind(kinds[Coming[p][1]])
         /\ n = p + 1 + Shape[kinds[Coming[p][1]]].len
         /\ \A i \in 1 .. p - 1 : Coming[i][2] = 1 => ~GoodKind(kinds[Coming[i][1]])
    <3>1. Coming[p][1] = f
      BY <2>4
    <3>. HIDE DEF f
    <3>. QED BY <1>7, <2>2, <2>4, <2>5, <2>6, <2>7, <2>8, <2>9, <3>1
  <2>. HIDE DEF p, n
  <2>13. \E q \in 1 .. Len(Coming), r \in 0 .. Len(Coming) :
                    LET e == Coming[q][1]
                    IN /\ served' = Append(served, e) /\ e \in 1 .. Len(kinds)
                       /\ Coming[q][2] = 1 /\ GoodKind(kinds[e])
                       /\ r = q + 1 + Shape[kinds[e]].len
                       /\ \A i \in 1 .. q - 1 :
                            Coming[i][2] = 1 => ~GoodKind(kinds[Coming[i][1]])
                       /\ Coming' = SubSeq(Coming, r + 1, Len(Coming))
    BY <2>10, <2>12, Zenon
  <2>. QED BY <1>1, <1>3, <1>4, <1>5, <2>11, <2>13
<1>. QED BY <1>6, <1>7

-----------------------------------------------------------------------------
(* The theorems *)

LEMMA StreamInit == Init => StreamInv
<1>. SUFFICES ASSUME Init PROVE StreamInv
  OBVIOUS
<1>1. /\ window \in Windows /\ kinds = <<>> /\ outbox = <<>> /\ wire = <<>>
      /\ readable = FALSE /\ rbuf = Cleared /\ sbuf = Cleared /\ conn = "open"
      /\ served = <<>> /\ queued = <<>> /\ pushes = 0 /\ sent = <<>>
  BY DEF Init
<1>2. Types
  <2>1. /\ kinds \in Seq(Kinds) /\ outbox \in Seq(Byte) /\ wire \in Seq(Byte)
        /\ served \in Seq(Nat) /\ queued \in Seq(Byte) /\ sent \in Seq(Byte) /\ pushes \in Nat
    BY <1>1
  <2>2. readable \in BOOLEAN
    BY <1>1
  <2>3. rbuf \in Buf /\ sbuf \in Buf
    BY <1>1, ClearedProperties
  <2>. QED BY <1>1, <2>1, <2>2, <2>3, Zenon DEF Types
<1>3. Pending(rbuf) = <<>> /\ Pending(sbuf) = <<>>
  BY <1>1, ClearedProperties
<1>4. Coming = <<>> /\ sent \o Pending(sbuf) = queued
  BY <1>1, <1>3 DEF Coming
<1>5. Ordered(kinds, served) /\ Frames(kinds, Coming) /\ Account(kinds, served, Coming)
  BY <1>1, <1>4 DEF Ordered, Frames, Account
<1>6. Known(kinds, rbuf.bytes)
  BY <1>1 DEF Known, Cleared
<1>. QED BY <1>2, <1>4, <1>5, <1>6 DEF StreamInv, Intact, InOrder, Received

\* The client adds a frame to what comes.
LEMMA ClientSendComing ==
  ASSUME Types, NEW kind \in Kinds, ClientSend(kind)
  PROVE  /\ outbox' \in Seq(Byte)
         /\ Coming' = Coming \o Frame(Len(kinds) + 1, FrameLen(Shape[kind]))
         /\ Len(Coming') = Len(Coming) + FrameLen(Shape[kind])
<1>. DEFINE fr == Frame(Len(kinds) + 1, FrameLen(Shape[kind]))
<1>1. fr \in Seq(Byte) /\ Len(fr) = FrameLen(Shape[kind])
  <2>1. Len(kinds) + 1 \in Nat
    BY DEF Types
  <2>2. FrameLen(Shape[kind]) \in Nat
    BY ShapeProperties, StreamAssumption
  <2>. QED BY <2>1, <2>2, FrameProperties
<1>2. outbox' = outbox \o fr /\ wire' = wire /\ rbuf' = rbuf
  BY DEF ClientSend
<1>3. Coming' = Pending(rbuf') \o (wire' \o outbox')
  BY DEF Coming, Pending
<1>. HIDE DEF fr
<1>4. /\ outbox \in Seq(Byte) /\ wire \in Seq(Byte) /\ wire \o outbox \in Seq(Byte)
      /\ Pending(rbuf) \in Seq(Byte) /\ Coming \in Seq(Byte)
  BY ComingTypes DEF Types
<1>5. wire \o (outbox \o fr) = (wire \o outbox) \o fr
  BY <1>1, <1>4, BytesAssociative, Zenon
<1>6. Pending(rbuf) \o ((wire \o outbox) \o fr) = (Pending(rbuf) \o (wire \o outbox)) \o fr
  BY <1>1, <1>4, BytesAssociative, Zenon
<1>7. Coming' = Coming \o fr
  BY <1>2, <1>3, <1>5, <1>6 DEF Coming
<1>8. outbox \o fr \in Seq(Byte) /\ Len(Coming \o fr) = Len(Coming) + Len(fr)
  BY <1>1, <1>4, ConcatProperties
<1>. QED BY <1>1, <1>2, <1>7, <1>8 DEF fr

LEMMA StreamStep == StreamInv /\ [Next]_vars => StreamInv'
<1>. SUFFICES ASSUME StreamInv, [Next]_vars PROVE StreamInv'
  OBVIOUS
<1>0. /\ Types /\ Intact /\ InOrder /\ Received
      /\ kinds \in Seq(Kinds) /\ served \in Seq(Nat)
      /\ conn = "open" => /\ Frames(kinds, Coming) /\ Account(kinds, served, Coming)
                          /\ Known(kinds, rbuf.bytes)
      /\ Ordered(kinds, served)
  BY DEF StreamInv, InOrder, Types, Received
<1>1. ASSUME NEW kind \in Kinds, ClientSend(kind) PROVE StreamInv'
  <2>1. /\ kinds' = Append(kinds, kind) /\ conn = "open"
        /\ window' = window /\ wire' = wire /\ readable' = readable /\ rbuf' = rbuf
        /\ sbuf' = sbuf /\ conn' = conn /\ served' = served /\ queued' = queued
        /\ pushes' = pushes /\ sent' = sent
    BY <1>1 DEF ClientSend
  <2>2. outbox' \in Seq(Byte) /\ Coming' = Coming \o Frame(Len(kinds) + 1, FrameLen(Shape[kind]))
    BY <1>0, <1>1, ClientSendComing
  <2>3. Append(kinds, kind) \in Seq(Kinds) /\ Len(Append(kinds, kind)) = Len(kinds) + 1
    BY <1>0, AppendProperties
  <2>4. Types'
    BY <1>0, <2>1, <2>2, <2>3 DEF Types
  <2>5. Coming \in Seq(Byte)
    BY <1>0, ComingTypes
  <2>6. Frames(kinds', Coming') /\ Account(kinds', served, Coming') /\ Ordered(kinds', served)
    BY <1>0, <2>1, <2>2, <2>5, FramesAppend
  <2>7. Known(kinds', rbuf.bytes)
    BY <1>0, <2>1, <2>3 DEF Known
  <2>8. InOrder'
    BY <2>1, <2>6 DEF InOrder
  <2>9. Intact' /\ Received'
    BY <1>0, <2>1, <2>7 DEF Intact, Received
  <2>. QED BY <2>4, <2>8, <2>9 DEF StreamInv
<1>2. CASE Arrive
  <2>1. /\ kinds' = kinds /\ conn = "open" /\ readable' \in BOOLEAN
        /\ window' = window /\ rbuf' = rbuf
        /\ sbuf' = sbuf /\ conn' = conn /\ served' = served /\ queued' = queued
        /\ pushes' = pushes /\ sent' = sent
    BY <1>2 DEF Arrive
  <2>2. outbox' \in Seq(Byte) /\ wire' \in Seq(Byte) /\ Coming' = Coming
    BY <1>0, <1>2, ArriveProperties
  <2>3. Types'
    BY <1>0, <2>1, <2>2 DEF Types
  <2>. QED BY <1>0, <2>1, <2>2, <2>3 DEF StreamInv, InOrder, Intact, Received
<1>3. CASE RecvAborts
  <2>1. /\ kinds' = kinds /\ readable' = readable /\ outbox' = outbox /\ wire' = wire
        /\ window' = window /\ rbuf' = rbuf /\ conn = "open"
        /\ sbuf' = sbuf /\ conn' = "aborted" /\ served' = served /\ queued' = queued
        /\ pushes' = pushes /\ sent' = sent
    BY <1>3 DEF RecvAborts
  <2>2. Types'
    BY <1>0, <2>1 DEF Types
  <2>. QED BY <1>0, <2>1, <2>2 DEF StreamInv, InOrder, Intact, Received
<1>4. CASE RecvData
  <2>1. /\ kinds' = kinds /\ readable' = readable /\ outbox' = outbox /\ conn = "open"
        /\ window' = window /\ sbuf' = sbuf /\ served' = served /\ queued' = queued
        /\ pushes' = pushes /\ sent' = sent
    BY <1>4 DEF RecvData
  <2>2. /\ rbuf' \in Buf /\ wire' \in Seq(Byte) /\ Known(kinds, rbuf'.bytes)
        /\ conn' \in {conn, "scrambled"} /\ (conn' # "scrambled" => Coming' = Coming)
    BY <1>0, <1>4, <2>1, RecvProperties
  <2>3. Types'
    BY <1>0, <2>1, <2>2 DEF Types
  <2>. QED BY <1>0, <2>1, <2>2, <2>3 DEF StreamInv, InOrder, Intact, Received
<1>5. CASE Service
  <2>1. /\ kinds' = kinds /\ readable' \in BOOLEAN /\ outbox' = outbox /\ wire' = wire
        /\ window' = window /\ conn = "open" /\ pushes' = pushes /\ sent' = sent
    BY <1>5 DEF Service
  <2>2. rbuf' \in Buf
    BY <1>5, ServiceProperties
  <2>3. CASE /\ conn' \in {"scrambled", "doomed"}
             /\ served' = served /\ sbuf' = sbuf /\ queued' = queued
    <3>1. Types'
      BY <1>0, <2>1, <2>2, <2>3 DEF Types
    <3>. QED BY <1>0, <2>1, <2>3, <3>1 DEF StreamInv, InOrder, Intact, Received
  <2>4. ASSUME NEW p \in 1 .. Len(Coming), NEW n \in 0 .. Len(Coming), NEW f,
               f = Coming[p][1], served' = Append(served, f), f \in 1 .. Len(kinds),
               Coming[p][2] = 1, GoodKind(kinds[f]), n = p + 1 + Shape[kinds[f]].len,
               \A i \in 1 .. p - 1 : Coming[i][2] = 1 => ~GoodKind(kinds[Coming[i][1]]),
               Coming' = SubSeq(Coming, n + 1, Len(Coming)),
               sbuf' \in Buf, queued' \in Seq(Byte), conn' \in {"open", "scrambled"},
               conn' # "scrambled" => sent \o Pending(sbuf') = queued',
               Known(kinds, rbuf'.bytes)
        PROVE  StreamInv'
    <3>1. Coming \in Seq(Byte)
      BY <1>0, ComingTypes
    <3>2. /\ Ordered(kinds, Append(served, f))
          /\ Account(kinds, Append(served, f), SubSeq(Coming, n + 1, Len(Coming)))
      BY <1>0, <2>1, <2>4, <3>1, ServeStep
    <3>3. Frames(kinds, SubSeq(Coming, n + 1, Len(Coming)))
      BY <1>0, <2>1, <3>1, FramesSuffix
    <3>4. f \in Nat /\ Append(served, f) \in Seq(Nat)
      BY <1>0, <2>4, AppendProperties
    <3>5. Types'
      BY <1>0, <2>1, <2>2, <2>4, <3>4 DEF Types
    <3>6. InOrder'
      BY <2>1, <2>4, <3>2, <3>3 DEF InOrder
    <3>7. Intact' /\ Received'
      BY <2>1, <2>4 DEF Intact, Received
    <3>. QED BY <3>5, <3>6, <3>7 DEF StreamInv
  <2>. QED BY <1>5, <2>3, <2>4, ServiceProperties
<1>6. CASE PushTo
  <2>1. /\ kinds' = kinds /\ readable' = readable /\ outbox' = outbox /\ wire' = wire
        /\ window' = window /\ rbuf' = rbuf /\ conn \in {"open", "doomed"}
        /\ served' = served /\ pushes' = pushes + 1 /\ sent' = sent
        /\ lts_proto_sjsonb_encode(Frame(MaxFrames + pushes + 1, LEN_REPLY))
    BY <1>6 DEF PushTo
  <2>2. Frame(MaxFrames + pushes + 1, LEN_REPLY) \in Seq(Byte)
    <3>1. MaxFrames + pushes + 1 \in Nat
      BY <1>0, StreamAssumption DEF Types
    <3>. QED BY <3>1, FrameProperties DEF LEN_REPLY
  <2>3. /\ sbuf' \in Buf /\ queued' \in Seq(Byte) /\ conn' \in {conn, "scrambled"}
        /\ conn' # "scrambled" => sent \o Pending(sbuf') = queued'
    BY <1>0, <2>1, <2>2, EncodeProperties DEF Types, Intact
  <2>4. Coming' = Coming
    BY <2>1 DEF Coming, Pending
  <2>5. Types'
    BY <1>0, <2>1, <2>3 DEF Types
  <2>. QED BY <1>0, <2>1, <2>3, <2>4, <2>5 DEF StreamInv, InOrder, Intact, Received
<1>7. CASE lts_send
  <2>1. /\ kinds' = kinds /\ readable' = readable /\ outbox' = outbox /\ wire' = wire
        /\ window' = window /\ rbuf' = rbuf /\ conn \in {"open", "doomed"} /\ conn' = conn
        /\ served' = served /\ pushes' = pushes /\ queued' = queued
    BY <1>7 DEF lts_send
  <2>2. /\ sbuf' \in Buf /\ sent' \in Seq(Byte)
        /\ sent' \o Pending(sbuf') = sent \o Pending(sbuf)
    BY <1>0, <1>7, SendProperties DEF Types
  <2>3. Coming' = Coming
    BY <2>1 DEF Coming, Pending
  <2>4. Types'
    BY <1>0, <2>1, <2>2 DEF Types
  <2>. QED BY <1>0, <2>1, <2>2, <2>3, <2>4 DEF StreamInv, InOrder, Intact, Received
<1>8. CASE Close
  <2>1. /\ kinds' = kinds /\ readable' = FALSE /\ outbox' = <<>> /\ wire' = <<>>
        /\ window' = window /\ rbuf' = Cleared /\ sbuf' = Cleared /\ conn' = "closed"
        /\ served' = served /\ pushes' = pushes /\ queued' = queued /\ sent' = sent
    BY <1>8 DEF Close
  <2>2. Types'
    <3>1. outbox' \in Seq(Byte) /\ wire' \in Seq(Byte)
      BY <2>1
    <3>2. readable' \in BOOLEAN
      BY <2>1
    <3>3. rbuf' \in Buf /\ sbuf' \in Buf
      BY <2>1, ClearedProperties
    <3>. QED BY <1>0, <2>1, <3>1, <3>2, <3>3 DEF Types
  <2>. QED BY <1>0, <2>1, <2>2 DEF StreamInv, InOrder, Intact, Received
<1>9. CASE UNCHANGED vars
  <2>1. /\ kinds' = kinds /\ readable' = readable /\ outbox' = outbox /\ wire' = wire
        /\ window' = window /\ rbuf' = rbuf /\ sbuf' = sbuf /\ conn' = conn
        /\ served' = served /\ pushes' = pushes /\ queued' = queued /\ sent' = sent
    BY <1>9 DEF vars
  <2>2. Coming' = Coming
    BY <2>1 DEF Coming, Pending
  <2>3. Types'
    BY <1>0, <2>1 DEF Types
  <2>. QED BY <1>0, <2>1, <2>2, <2>3 DEF StreamInv, InOrder, Intact, Received
<1>. QED BY <1>1, <1>2, <1>3, <1>4, <1>5, <1>6, <1>7, <1>8, <1>9 DEF Next

\* The streams of both directions, the buffers between them and the requests served
\* always belong together.
THEOREM StreamInvariant == Spec => []StreamInv
BY StreamInit, StreamStep, PTL DEF Spec

\* Requests are served in the order they were sent, each once and no good one left
\* out, for any capacity of the buffers, any number of requests outstanding and any
\* way in which the network cuts the stream.
THEOREM RequestsInOrder == Spec => []ServedInOrder
<1>1. StreamInv => ServedInOrder
  <2>. SUFFICES ASSUME StreamInv PROVE ServedInOrder
    OBVIOUS
  <2>1. Ordered(kinds, served) /\ kinds \in Seq(Kinds) /\ served \in Seq(Nat)
    BY DEF StreamInv, InOrder, Types
  <2>2. DOMAIN served = 1 .. Len(served) /\ DOMAIN kinds = 1 .. Len(kinds)
    BY <2>1
  <2>3. \A f : Good(f) <=> GoodKind(kinds[f])
    BY DEF Good, GoodKind, Shaped
  <2>. QED BY <2>1, <2>2, <2>3 DEF ServedInOrder, Ordered
<1>. QED BY <1>1, StreamInvariant, PTL

\* What the client gets is the frames put into the send buffer, in that order and
\* complete, and no buffer is written behind its end, as long as no bytes were lost
\* by lts_buffer_drop_accessed.
THEOREM RepliesIntact == Spec => []StreamIntact
<1>1. StreamInv => StreamIntact
  <2>. SUFFICES ASSUME StreamInv PROVE StreamIntact
    OBVIOUS
  <2>1. \A b \in {rbuf, sbuf} : b.seek <= Len(b.bytes) /\ Len(b.bytes) <= Cap
    BY PendingProperties DEF StreamInv, Types
  <2>2. TypeOK
    BY <2>1 DEF StreamInv, Types, TypeOK
  <2>. QED BY <2>2 DEF StreamInv, Intact, StreamIntact
<1>. QED BY <1>1, StreamInvariant, PTL

-----------------------------------------------------------------------------
(* Room in the receive buffer *)

\* Each request is shorter than the buffer, with what an extension area may have left
\* in front of it.
Fits == \A k, l \in Kinds : Shape[k].ofst - LEN_HEADER + FrameLen(Shape[l]) < Cap

\* A request is sent when nothing is outstanding.
LEMMA RoomSend ==
  ASSUME NEW ks \in Seq(Kinds), NEW sv \in Seq(Nat), NEW s \in Seq(Byte), NEW kind \in Kinds,
         Fits, Room(ks, sv, s), Len(ks) - Len(sv) < 1,
         NEW t \in Seq(Byte), Len(t) = Len(s) + FrameLen(Shape[kind])
  PROVE  Room(Append(ks, kind), sv, t)
<1>. DEFINE L == FrameLen(Shape[kind])
<1>1. /\ Len(ks) \in Nat /\ Len(sv) \in Nat /\ Len(s) \in Nat
      /\ Len(Append(ks, kind)) = Len(ks) + 1
  BY AppendProperties
<1>2. L \in Nat /\ \A k \in Kinds : Shape[k].ofst \in Nat /\ Shape[k].ofst >= 2
  BY ShapeProperties, StreamAssumption DEF LEN_HEADER
<1>3. Len(sv) = Len(ks)
  BY <1>1 DEF Room
<1>4. Len(s) + L < Cap
  <2>1. PICK k \in Kinds : Len(s) <= Shape[k].ofst - 2
    <3>1. CASE Len(s) = 0
      <4>. DEFINE o == Shape[kind].ofst
      <4>1. o \in Nat /\ o >= 2
        BY <1>2
      <4>. HIDE DEF o
      <4>2. Len(s) <= o - 2
        BY <3>1, <4>1
      <4>. QED BY <4>2 DEF o
    <3>2. CASE Len(s) # 0
      BY <1>3, <3>2 DEF Room, LEN_HEADER
    <3>. QED BY <3>1, <3>2
  <2>. DEFINE o == Shape[k].ofst
  <2>2. o - 2 + L < Cap
    BY DEF Fits, LEN_HEADER
  <2>3. o \in Nat /\ Len(s) <= o - 2
    BY <1>2, <2>1
  <2>. HIDE DEF o, L
  <2>. QED BY <1>1, <1>2, <2>2, <2>3, CapAssumption
<1>. HIDE DEF L
<1>5. Len(t) = Len(s) + L
  BY DEF L
<1>6. Len(t) < Cap
  BY <1>4, <1>5
<1>7. /\ Len(sv) <= Len(Append(ks, kind)) /\ Len(Append(ks, kind)) <= Len(sv) + 1
      /\ Len(sv) # Len(Append(ks, kind))
  BY <1>1, <1>3
<1>8. \A j \in 1 .. Len(sv) : sv[j] = j
  BY DEF Room
<1>. QED BY <1>6, <1>7, <1>8 DEF Room

\* The request outstanding is served, and is the last one.
LEMMA RoomServe ==
  ASSUME NEW ks \in Seq(Kinds), NEW sv \in Seq(Nat), NEW s \in Seq(Byte),
         NEW p \in 1 .. Len(s), NEW n \in 0 .. Len(s), NEW f, f = s[p][1],
         Frames(ks, s), Account(ks, sv, s), Room(ks, sv, s),
         s[p][2] = 1, n = p + 1 + Shape[ks[f]].len
  PROVE  Room(ks, Append(sv, f), SubSeq(s, n + 1, Len(s)))
<1>. DEFINE t == SubSeq(s, n + 1, Len(s))
            q == Append(sv, f)
            len == Shape[ks[f]].len
            o == Shape[ks[f]].ofst
<1>1. Len(s) \in Nat /\ Len(t) = Len(s) - n
  <2>1. Len(s) \in Nat
    OBVIOUS
  <2>2. Len(t) = Len(s) - n
    BY SplitSeq, Zenon
  <2>. QED BY <2>1, <2>2
<1>2. f \in 1 .. Len(ks) /\ f \in Nat
  BY DEF Frames
<1>3. /\ Len(ks) \in Nat /\ Len(sv) \in Nat /\ Len(q) = Len(sv) + 1 /\ q[Len(sv) + 1] = f
      /\ \A j \in 1 .. Len(sv) : q[j] = sv[j]
  BY <1>2, AppendProperties
<1>4. s[p] = <<f, 1>>
  BY ByteType
<1>5. /\ Len(sv) <= Len(ks) /\ Len(ks) <= Len(sv) + 1 /\ Len(s) < Cap
      /\ \A j \in 1 .. Len(sv) : sv[j] = j
  BY DEF Room
<1>6. ~(f <= Len(sv))
  <2>. SUFFICES ASSUME f <= Len(sv) PROVE FALSE
    OBVIOUS
  <2>1. f \in 1 .. Len(sv) /\ sv[f] = f
    BY <1>2, <1>3, <1>5
  <2>2. s[p] # <<sv[f], 1>>
    BY <2>1 DEF Account
  <2>. QED BY <1>4, <2>1, <2>2
<1>7. f = Len(ks) /\ f = Len(sv) + 1
  BY <1>2, <1>3, <1>5, <1>6
<1>8. Len(t) = o - 2 /\ ks[f] \in Kinds
  <2>1. /\ LenOf(ks, f) = o + len /\ o \in Nat /\ len \in Nat /\ n = p + 1 + len
    BY <1>2, LenOfType
  <2>2. p + (LenOf(ks, f) - 1) = Len(s)
    BY <1>7 DEF Frames
  <2>3. ks[f] \in Kinds
    BY <1>2
  <2>. HIDE DEF o, len, t
  <2>4. p \in Nat /\ p + (o + len - 1) = Len(s)
    <3>1. p \in Nat
      BY <1>1
    <3>2. p + ((o + len) - 1) = Len(s)
      BY <2>1, <2>2, Zenon
    <3>. QED BY <3>1, <3>2, <2>1
  <2>. QED BY <1>1, <2>1, <2>3, <2>4
<1>9. Len(t) < Cap
  BY <1>1, <1>5, CapAssumption
<1>10. ASSUME NEW j \in 1 .. Len(q) PROVE q[j] = j
  <2>1. CASE j \in 1 .. Len(sv)
    BY <1>3, <1>5, <2>1
  <2>2. CASE j = Len(sv) + 1
    BY <1>3, <1>7, <2>2
  <2>. QED BY <1>3, <2>1, <2>2
<1>11. \E k \in Kinds : Len(t) <= Shape[k].ofst - LEN_HEADER
  <2>1. o \in Nat
    BY <1>2, LenOfType
  <2>2. Len(t) <= o - 2
    <3>. HIDE DEF o, t
    <3>. QED BY <1>8, <2>1
  <2>. HIDE DEF t
  <2>. QED BY <1>8, <2>2 DEF LEN_HEADER
<1>. HIDE DEF t, q
<1>12. Len(q) <= Len(ks) /\ Len(ks) <= Len(q) + 1
  BY <1>3, <1>7
<1>13. Room(ks, q, t)
  BY <1>9, <1>10, <1>11, <1>12 DEF Room
<1>. QED BY <1>13 DEF q, t

LEMMA RoomInit == Init => RoomInv
<1>. SUFFICES ASSUME Init PROVE RoomInv
  OBVIOUS
<1>1. kinds = <<>> /\ served = <<>> /\ conn = "open" /\ wire = <<>> /\ outbox = <<>>
      /\ rbuf = Cleared
  BY DEF Init
<1>2. Coming = <<>>
  BY <1>1, ClearedProperties DEF Coming
<1>. QED BY <1>1, <1>2, CapAssumption DEF RoomInv, Room

LEMMA RoomStep ==
  ASSUME Fits, StreamInv, RoomInv, [Next]_vars
  PROVE  RoomInv'
<1>0. /\ Types /\ kinds \in Seq(Kinds) /\ served \in Seq(Nat)
      /\ conn = "open" => /\ Frames(kinds, Coming) /\ Account(kinds, served, Coming) /\ Received
      /\ Coming \in Seq(Byte)
  BY ComingTypes DEF StreamInv, InOrder, Types
<1>. SUFFICES ASSUME window' = 1 PROVE conn' # "aborted"
                                       /\ (conn' = "open" => Room(kinds', served', Coming'))
  BY DEF RoomInv
<1>00. window' = window
  BY DEF Next, vars, ClientSend, Arrive, RecvAborts, RecvData, Service, PushTo, lts_send, Close
<1>. USE DEF RoomInv
<1>1. ASSUME NEW kind \in Kinds, ClientSend(kind)
      PROVE  conn' # "aborted" /\ Room(kinds', served', Coming')
  <2>1. /\ kinds' = Append(kinds, kind) /\ conn = "open" /\ conn' = conn /\ served' = served
        /\ Len(kinds) - Len(served) < 1
    BY <1>00, <1>1 DEF ClientSend, Outstanding
  <2>2. /\ Coming' = Coming \o Frame(Len(kinds) + 1, FrameLen(Shape[kind]))
        /\ Len(Coming') = Len(Coming) + FrameLen(Shape[kind])
    BY <1>0, <1>1, ClientSendComing
  <2>3. Coming' \in Seq(Byte)
    <3>1. Frame(Len(kinds) + 1, FrameLen(Shape[kind])) \in Seq(Byte)
      <4>1. Len(kinds) + 1 \in Nat
        BY <1>0
      <4>2. FrameLen(Shape[kind]) \in Nat
        BY ShapeProperties, StreamAssumption
      <4>. QED BY <4>1, <4>2, FrameProperties
    <3>. QED BY <1>0, <2>2, <3>1, ConcatProperties
  <2>4. Room(kinds, served, Coming)
    BY <1>00, <2>1
  <2>. QED BY <1>0, <2>1, <2>2, <2>3, <2>4, RoomSend
<1>2. CASE Arrive
  <2>1. kinds' = kinds /\ conn' = conn /\ served' = served
    BY <1>2 DEF Arrive
  <2>2. Coming' = Coming
    BY <1>0, <1>2, ArriveProperties
  <2>. QED BY <1>00, <2>1, <2>2
<1>3. ~RecvAborts
  <2>. SUFFICES ASSUME RecvAborts PROVE FALSE
    OBVIOUS
  <2>1. conn = "open" /\ Full(RecvRoom) /\ rbuf \in Buf
    BY <1>0 DEF RecvAborts, Types
  <2>2. Len(Coming) < Cap
    BY <1>00, <2>1 DEF Room
  <2>3. Len(Pending(rbuf)) < Cap
    <3>1. /\ Len(Coming) = Len(Pending(rbuf)) + (Len(wire) + Len(outbox))
          /\ Len(Pending(rbuf)) \in Nat /\ Len(wire) \in Nat /\ Len(outbox) \in Nat
      BY <1>0, ComingTypes DEF Types
    <3>. QED BY <2>2, <3>1, CapAssumption
  <2>4. Full(rbuf)
    BY <2>1 DEF RecvRoom
  <2>5. Len(RecvRoom.bytes) = Len(Pending(rbuf))
    BY <2>1, <2>4, DropProperties DEF RecvRoom
  <2>. QED BY <2>1, <2>3, <2>5, CapAssumption DEF Full
<1>4. CASE RecvData
  <2>1. kinds' = kinds /\ served' = served /\ conn = "open"
    BY <1>4 DEF RecvData
  <2>2. conn' \in {conn, "scrambled"} /\ (conn' # "scrambled" => Coming' = Coming)
    BY <1>0, <1>4, <2>1, RecvProperties
  <2>. QED BY <1>00, <2>1, <2>2
<1>5. CASE Service
  <2>1. kinds' = kinds /\ conn = "open"
    BY <1>5 DEF Service
  <2>2. ASSUME NEW p \in 1 .. Len(Coming), NEW n \in 0 .. Len(Coming), NEW f,
               f = Coming[p][1], served' = Append(served, f),
               Coming[p][2] = 1, n = p + 1 + Shape[kinds[f]].len,
               Coming' = SubSeq(Coming, n + 1, Len(Coming))
        PROVE  Room(kinds', served', Coming')
    <3>1. Room(kinds, served, Coming)
      BY <1>00, <2>1
    <3>2. Room(kinds, Append(served, f), SubSeq(Coming, n + 1, Len(Coming)))
      BY <1>0, <2>1, <2>2, <3>1, RoomServe
    <3>. QED BY <2>1, <2>2, <3>2
  <2>3. conn' \in {"scrambled", "doomed"} \/ (conn' \in {"open", "scrambled"}
          /\ Room(kinds', served', Coming'))
    BY <1>5, <2>2, ServiceProperties
  <2>. QED BY <2>3
<1>6. CASE PushTo
  <2>1. /\ kinds' = kinds /\ rbuf' = rbuf /\ outbox' = outbox /\ wire' = wire
        /\ served' = served /\ conn \in {"open", "doomed"}
    BY <1>6 DEF PushTo
  <2>2. conn' \in {conn, "scrambled"}
    BY <1>6 DEF PushTo, lts_proto_sjsonb_encode
  <2>3. Coming' = Coming
    BY <2>1 DEF Coming, Pending
  <2>. QED BY <1>00, <2>1, <2>2, <2>3
<1>7. CASE lts_send
  <2>1. /\ kinds' = kinds /\ rbuf' = rbuf /\ outbox' = outbox /\ wire' = wire
        /\ served' = served /\ conn' = conn
    BY <1>7 DEF lts_send
  <2>2. Coming' = Coming
    BY <2>1 DEF Coming, Pending
  <2>. QED BY <1>00, <2>1, <2>2
<1>8. CASE Close
  BY <1>8 DEF Close
<1>9. CASE UNCHANGED vars
  <2>1. /\ kinds' = kinds /\ rbuf' = rbuf /\ outbox' = outbox /\ wire' = wire
        /\ served' = served /\ conn' = conn
    BY <1>9 DEF vars
  <2>2. Coming' = Coming
    BY <2>1 DEF Coming, Pending
  <2>. QED BY <1>00, <2>1, <2>2
<1>. QED BY <1>1, <1>2, <1>3, <1>4, <1>5, <1>6, <1>7, <1>8, <1>9 DEF Next

\* A client that waits for each answer never makes lts_recv run out of room, which
\* aborts the worker, when its requests fit into the buffer with the end of the one
\* before: partial reads and the accessed bytes never use up the room for good.
THEOREM ReceiveRoom ==
  ASSUME Fits
  PROVE  Spec => []RecvHasRoom
<1>1. StreamInv /\ RoomInv /\ [Next]_vars => RoomInv'
  BY RoomStep
<1>2. RoomInv => RecvHasRoom
  BY DEF RoomInv, RecvHasRoom
<1>. QED BY <1>1, <1>2, RoomInit, StreamInvariant, PTL DEF Spec
=============================================================================
