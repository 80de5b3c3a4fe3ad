-------------------------- MODULE LegacySession_proofs -------------------------
(***************************************************************************)
(* A ByteBuffer is the queue of its readable bytes, whatever its capacity,   *)
(* the threshold of compact and the bytes: append puts its bytes behind them *)
(* and consume takes its count from their front.  With such buffers the      *)
(* sessions of LegacySession send every message whole, for any capacities    *)
(* and any lengths of requests and answers.                                  *)
(***************************************************************************)
EXTENDS LegacySession, SequenceTheorems, TLAPS

--------------------------------------------------------------------------------
(* The buffer *)

\* What every operation of byte_buffer.cpp leaves of a buffer.
Sane(b) == b.offset <= Len(b.storage) /\ Len(b.storage) <= b.max

LEMMA ViewProperties ==
    ASSUME NEW B, NEW b \in Buffers(B), Sane(b)
    PROVE  /\ ReadableView(b) \in Seq(B)
           /\ ReadableSize(b) \in Nat
           /\ Len(ReadableView(b)) = ReadableSize(b)
           /\ \A i \in 1..ReadableSize(b) : ReadableView(b)[i] = b.storage[b.offset + i]
<1>1. b.storage \in Seq(B) /\ b.offset \in Nat /\ Len(b.storage) \in Nat
      /\ b.offset <= Len(b.storage)
  BY DEF Sane, Buffers
<1>2. \A i \in (b.offset + 1)..Len(b.storage) : b.storage[i] \in B
  BY <1>1, ElementOfSeq
<1>3. /\ ReadableView(b) \in Seq(B)
      /\ Len(ReadableView(b)) = IF b.offset + 1 <= Len(b.storage)
                                THEN Len(b.storage) - (b.offset + 1) + 1 ELSE 0
      /\ \A i \in 1..(Len(b.storage) - (b.offset + 1) + 1) :
           ReadableView(b)[i] = b.storage[b.offset + 1 + i - 1]
  BY <1>1, <1>2, SubSeqProperties DEF ReadableView
<1>4. ReadableSize(b) = Len(b.storage) - b.offset /\ ReadableSize(b) \in Nat
      /\ Len(ReadableView(b)) = ReadableSize(b)
  BY <1>1, <1>3 DEF ReadableSize
<1>5. ASSUME NEW i \in 1..ReadableSize(b)
      PROVE  ReadableView(b)[i] = b.storage[b.offset + i]
  <2>1. b.offset + 1 + i - 1 = b.offset + i
        /\ i \in 1..(Len(b.storage) - (b.offset + 1) + 1)
    BY <1>1, <1>4
  <2> QED
    BY <1>3, <2>1
<1> QED
  BY <1>3, <1>4, <1>5

LEMMA NewProperties ==
    ASSUME NEW B, NEW max \in Nat \ {0}
    PROVE  /\ NewBuffer(max) \in Buffers(B) /\ Sane(NewBuffer(max)) /\ NewBuffer(max).max = max
           /\ ReadableView(NewBuffer(max)) = <<>> /\ ReadableSize(NewBuffer(max)) = 0
<1>1. <<>> \in Seq(B) /\ Len(<<>>) = 0
  BY EmptySeq
<1>2. NewBuffer(max) \in Buffers(B) /\ Sane(NewBuffer(max)) /\ ReadableSize(NewBuffer(max)) = 0
  BY <1>1 DEF Sane, NewBuffer, Buffers, ReadableSize
<1> QED
  BY <1>2, ViewProperties, EmptySeq DEF NewBuffer

LEMMA ClearedProperties ==
    ASSUME NEW B, NEW b \in Buffers(B), Sane(b)
    PROVE  /\ Cleared(b) \in Buffers(B) /\ Sane(Cleared(b)) /\ Cleared(b).max = b.max
           /\ ReadableView(Cleared(b)) = <<>> /\ ReadableSize(Cleared(b)) = 0
<1>1. <<>> \in Seq(B) /\ Len(<<>>) = 0
  BY EmptySeq
<1>2. /\ Cleared(b) \in Buffers(B) /\ Sane(Cleared(b)) /\ Cleared(b).max = b.max
      /\ ReadableSize(Cleared(b)) = 0
  BY <1>1 DEF Cleared, Sane, Buffers, ReadableSize
<1> QED
  BY <1>2, ViewProperties, EmptySeq

\* compact moves the readable bytes to the front and keeps them.
LEMMA CompactedProperties ==
    ASSUME NEW B, NEW b \in Buffers(B), Sane(b)
    PROVE  /\ Compacted(b) \in Buffers(B) /\ Sane(Compacted(b)) /\ Compacted(b).max = b.max
           /\ ReadableView(Compacted(b)) = ReadableView(b)
           /\ Compacted(b).offset = 0
           /\ Len(Compacted(b).storage) = ReadableSize(b)
<1>1. /\ ReadableView(b) \in Seq(B) /\ ReadableSize(b) \in Nat
      /\ Len(ReadableView(b)) = ReadableSize(b)
  BY ViewProperties
<1>2. /\ Compacted(b).storage = ReadableView(b) /\ Compacted(b).offset = 0
      /\ Compacted(b).max = b.max
  BY DEF Compacted
<1>3. ReadableView(Compacted(b)) = SubSeq(ReadableView(b), 1, Len(ReadableView(b)))
  BY <1>2 DEF ReadableView
<1>4. ReadableView(Compacted(b)) = ReadableView(b)
  BY <1>1, <1>3, SubSeqFull
<1>5. Compacted(b) \in Buffers(B)
  BY <1>1 DEF Compacted, Buffers
<1>6. b.max \in Nat /\ Len(b.storage) \in Nat /\ b.offset \in Nat
  BY DEF Buffers
<1>7. Sane(Compacted(b))
  BY <1>1, <1>2, <1>6 DEF Sane, ReadableSize
<1> QED
  BY <1>1, <1>2, <1>4, <1>5, <1>7

LEMMA ExtendedProperties ==
    ASSUME NEW B, NEW b \in Buffers(B), Sane(b), NEW bytes \in Seq(B),
           Len(b.storage) + Len(bytes) <= b.max
    PROVE  /\ Extended(b, bytes) \in Buffers(B) /\ Sane(Extended(b, bytes))
           /\ Extended(b, bytes).max = b.max
           /\ ReadableView(Extended(b, bytes)) = ReadableView(b) \o bytes
<1> DEFINE full == Extended(b, bytes)
           both == ReadableView(b) \o bytes
           text == b.storage \o bytes
<1>1. /\ b.storage \in Seq(B) /\ b.offset \in Nat /\ b.max \in Nat \ {0}
      /\ Len(b.storage) \in Nat /\ Len(bytes) \in Nat /\ b.offset <= Len(b.storage)
      /\ ReadableSize(b) = Len(b.storage) - b.offset /\ ReadableSize(b) \in Nat
  BY ViewProperties DEF Sane, Buffers, ReadableSize
<1>2. /\ text \in Seq(B)
      /\ Len(text) = Len(b.storage) + Len(bytes)
      /\ \A i \in 1..(Len(b.storage) + Len(bytes)) :
           text[i] = IF i <= Len(b.storage) THEN b.storage[i]
                                     ELSE bytes[i - Len(b.storage)]
  BY <1>1, ConcatProperties
<1> HIDE DEF text
<1>3. full.storage = text /\ full.offset = b.offset /\ full.max = b.max
  BY DEF Extended, text
<1>4. full \in Buffers(B)
  BY <1>1, <1>2 DEF Extended, Buffers, text
<1>5. Sane(full)
  BY <1>1, <1>2, <1>3 DEF Sane
<1> HIDE DEF full
<1>6. ReadableSize(full) = ReadableSize(b) + Len(bytes)
  <2>1. ReadableSize(full) = Len(text) - b.offset
    BY <1>3 DEF ReadableSize
  <2> QED
    BY <2>1, <1>1, <1>2
<1>7. /\ ReadableView(full) \in Seq(B)
      /\ Len(ReadableView(full)) = ReadableSize(b) + Len(bytes)
      /\ \A i \in 1..(ReadableSize(b) + Len(bytes)) :
           ReadableView(full)[i] = text[b.offset + i]
  BY <1>3, <1>4, <1>5, <1>6, ViewProperties
<1>8. /\ ReadableView(b) \in Seq(B) /\ Len(ReadableView(b)) = ReadableSize(b)
      /\ \A i \in 1..ReadableSize(b) : ReadableView(b)[i] = b.storage[b.offset + i]
  BY ViewProperties
<1>9. /\ both \in Seq(B) /\ Len(both) = ReadableSize(b) + Len(bytes)
      /\ \A i \in 1..(ReadableSize(b) + Len(bytes)) :
           both[i] = IF i <= ReadableSize(b) THEN ReadableView(b)[i]
                     ELSE bytes[i - ReadableSize(b)]
  <2>1. /\ both \in Seq(B) /\ Len(both) = Len(ReadableView(b)) + Len(bytes)
        /\ \A i \in 1..(Len(ReadableView(b)) + Len(bytes)) :
             both[i] = IF i <= Len(ReadableView(b)) THEN ReadableView(b)[i]
                       ELSE bytes[i - Len(ReadableView(b))]
    BY <1>8, ConcatProperties
  <2> QED
    BY <2>1, <1>8
<1> HIDE DEF both
<1>10. ASSUME NEW i \in 1..(ReadableSize(b) + Len(bytes))
       PROVE  ReadableView(full)[i] = both[i]
  <2>1. ReadableView(full)[i] = text[b.offset + i]
    BY <1>7
  <2>2. b.offset + i \in 1..(Len(b.storage) + Len(bytes))
    BY <1>1
  <2>3. CASE i <= ReadableSize(b)
    <3>1. b.offset + i <= Len(b.storage) /\ i \in 1..ReadableSize(b)
      BY <1>1, <2>3
    <3>2. \A j \in 1..(Len(b.storage) + Len(bytes)) :
            j <= Len(b.storage) => text[j] = b.storage[j]
      BY <1>2
    <3>3. text[b.offset + i] = b.storage[b.offset + i]
      BY <3>2, <2>2, <3>1
    <3>4. both[i] = b.storage[b.offset + i]
      BY <1>8, <1>9, <2>3, <3>1
    <3> QED
      BY <2>1, <3>3, <3>4
  <2>4. CASE ~(i <= ReadableSize(b))
    <3>1. ~(b.offset + i <= Len(b.storage))
          /\ b.offset + i - Len(b.storage) = i - ReadableSize(b)
      BY <1>1, <2>4
    <3>2. ASSUME NEW j \in 1..(Len(b.storage) + Len(bytes)), ~(j <= Len(b.storage)),
                 j - Len(b.storage) = i - ReadableSize(b)
          PROVE  text[j] = bytes[i - ReadableSize(b)]
      BY <1>2, <3>2
    <3>3. text[b.offset + i] = bytes[i - ReadableSize(b)]
      <4> DEFINE k == b.offset + i
      <4>1. k \in 1..(Len(b.storage) + Len(bytes)) /\ ~(k <= Len(b.storage))
            /\ k - Len(b.storage) = i - ReadableSize(b)
        BY <1>1, <2>4
      <4> HIDE DEF k
      <4>2. text[k] = bytes[i - ReadableSize(b)]
        BY <3>2, <4>1
      <4> QED
        BY <4>2 DEF k
    <3>4. both[i] = bytes[i - ReadableSize(b)]
      BY <1>9, <2>4
    <3> QED
      BY <2>1, <3>3, <3>4
  <2> QED
    BY <2>3, <2>4
<1>11. ReadableView(full) = both
  BY <1>7, <1>9, <1>10, SeqEqual
<1> QED
  BY <1>3, <1>4, <1>5, <1>11 DEF full, both

\* append adds its bytes behind the readable ones, and the storage, consumed bytes
\* included, stays within max_size_ (byte_buffer.cpp:15-27).
THEOREM AppendedProperties ==
    ASSUME NEW B, NEW b \in Buffers(B), Sane(b), NEW bytes \in Seq(B), Fits(b, bytes)
    PROVE  /\ Appended(b, bytes) \in Buffers(B) /\ Sane(Appended(b, bytes))
           /\ Appended(b, bytes).max = b.max
           /\ ReadableView(Appended(b, bytes)) = ReadableView(b) \o bytes
<1>1. /\ Len(bytes) \in Nat /\ Len(b.storage) \in Nat /\ b.offset \in Nat /\ b.max \in Nat
      /\ ReadableSize(b) = Len(b.storage) - b.offset /\ ReadableSize(b) \in Nat
      /\ Len(bytes) <= b.max - ReadableSize(b)
  BY ViewProperties DEF Fits, WritableCapacity, ReadableSize, Buffers
<1>2. CASE b.offset # 0 /\ Len(b.storage) + Len(bytes) > b.max
  <2>1. Appended(b, bytes) = Extended(Compacted(b), bytes)
    BY <1>2 DEF Appended
  <2>2. /\ Compacted(b) \in Buffers(B) /\ Sane(Compacted(b)) /\ Compacted(b).max = b.max
        /\ ReadableView(Compacted(b)) = ReadableView(b)
        /\ Len(Compacted(b).storage) = ReadableSize(b)
    BY CompactedProperties
  <2>3. Len(Compacted(b).storage) + Len(bytes) <= Compacted(b).max
    BY <1>1, <2>2
  <2> QED
    BY <2>1, <2>2, <2>3, ExtendedProperties
<1>3. CASE ~(b.offset # 0 /\ Len(b.storage) + Len(bytes) > b.max)
  <2>1. Appended(b, bytes) = Extended(b, bytes)
    BY <1>3 DEF Appended
  <2>2. Len(b.storage) + Len(bytes) <= b.max
    BY <1>1, <1>3
  <2> QED
    BY <2>1, <2>2, ExtendedProperties
<1> QED
  BY <1>2, <1>3

LEMMA SkippedProperties ==
    ASSUME NEW B, NEW b \in Buffers(B), Sane(b), NEW count \in 0..ReadableSize(b)
    PROVE  /\ Skipped(b, count) \in Buffers(B) /\ Sane(Skipped(b, count))
           /\ Skipped(b, count).max = b.max
           /\ ReadableView(Skipped(b, count)) =
                SubSeq(ReadableView(b), count + 1, ReadableSize(b))
<1> DEFINE t == Skipped(b, count)
           rest == SubSeq(ReadableView(b), count + 1, ReadableSize(b))
<1>1. /\ b.storage \in Seq(B) /\ Len(b.storage) \in Nat /\ b.offset \in Nat
      /\ b.max \in Nat \ {0} /\ Len(b.storage) <= b.max
      /\ ReadableSize(b) = Len(b.storage) - b.offset /\ ReadableSize(b) \in Nat
      /\ count \in Nat /\ count <= ReadableSize(b)
  BY ViewProperties DEF Sane, Buffers, ReadableSize
<1>2. t.storage = b.storage /\ t.offset = b.offset + count /\ t.max = b.max
  BY DEF Skipped
<1>3. t \in Buffers(B)
  BY <1>1 DEF Skipped, Buffers
<1>4. Sane(t) /\ ReadableSize(t) = ReadableSize(b) - count
  BY <1>1, <1>2 DEF Sane, ReadableSize
<1> HIDE DEF t
<1>5. /\ ReadableView(t) \in Seq(B) /\ Len(ReadableView(t)) = ReadableSize(b) - count
      /\ \A i \in 1..(ReadableSize(b) - count) :
           ReadableView(t)[i] = b.storage[(b.offset + count) + i]
  BY <1>2, <1>3, <1>4, ViewProperties
<1>6. /\ ReadableView(b) \in Seq(B) /\ Len(ReadableView(b)) = ReadableSize(b)
      /\ \A i \in 1..ReadableSize(b) : ReadableView(b)[i] = b.storage[b.offset + i]
  BY ViewProperties
<1>7. \A i \in (count + 1)..ReadableSize(b) : ReadableView(b)[i] \in B
  BY <1>1, <1>6, ElementOfSeq
<1>8. /\ rest \in Seq(B)
      /\ Len(rest) = IF count + 1 <= ReadableSize(b)
                     THEN ReadableSize(b) - (count + 1) + 1 ELSE 0
      /\ \A i \in 1..(ReadableSize(b) - (count + 1) + 1) :
           rest[i] = ReadableView(b)[(count + 1) + i - 1]
  BY <1>1, <1>7, SubSeqProperties
<1> HIDE DEF rest
<1>9. Len(rest) = ReadableSize(b) - count
  BY <1>1, <1>8
<1>10. ASSUME NEW i \in 1..(ReadableSize(b) - count)
       PROVE  ReadableView(t)[i] = rest[i]
  <2>1. /\ (count + 1) + i - 1 = count + i /\ count + i \in 1..ReadableSize(b)
        /\ b.offset + (count + i) = (b.offset + count) + i
        /\ i \in 1..(ReadableSize(b) - (count + 1) + 1)
    BY <1>1
  <2>2. rest[i] = ReadableView(b)[(count + 1) + i - 1]
    BY <1>8, <2>1
  <2>3. rest[i] = ReadableView(b)[count + i]
    BY <2>1, <2>2
  <2>4. ReadableView(b)[count + i] = b.storage[b.offset + (count + i)]
    BY <1>6, <2>1
  <2>5. ReadableView(t)[i] = b.storage[(b.offset + count) + i]
    BY <1>5
  <2> QED
    BY <2>1, <2>3, <2>4, <2>5
<1>11. ReadableView(t) = rest
  BY <1>5, <1>8, <1>9, <1>10, SeqEqual
<1> QED
  BY <1>2, <1>3, <1>4, <1>11 DEF t, rest

\* consume takes its bytes from the front and leaves the others as they are, with
\* or without a compaction (byte_buffer.cpp:29-43).
THEOREM ConsumedProperties ==
    ASSUME NEW B, NEW b \in Buffers(B), Sane(b), NEW count \in 0..ReadableSize(b)
    PROVE  /\ Consumed(b, count) \in Buffers(B) /\ Sane(Consumed(b, count))
           /\ Consumed(b, count).max = b.max
           /\ ReadableView(Consumed(b, count)) =
                SubSeq(ReadableView(b), count + 1, ReadableSize(b))
<1> DEFINE t == Skipped(b, count)
<1>1. /\ t \in Buffers(B) /\ Sane(t) /\ t.max = b.max
      /\ ReadableView(t) = SubSeq(ReadableView(b), count + 1, ReadableSize(b))
  BY SkippedProperties
<1>2. CASE t.offset = Len(t.storage)
  <2>1. Consumed(b, count) = Cleared(t)
    BY <1>2 DEF Consumed
  <2> HIDE DEF t
  <2>2. Len(t.storage) \in Nat
    BY <1>1 DEF Buffers
  <2>3. ReadableSize(t) = 0
    BY <1>2, <2>2 DEF ReadableSize
  <2>4. ReadableView(t) = <<>>
    BY <2>3, <1>1, ViewProperties, EmptySeq
  <2> QED
    BY <2>1, <2>4, <1>1, ClearedProperties
<1>3. CASE t.offset # Len(t.storage)
  <2>1. Consumed(b, count) = Compacted(t) \/ Consumed(b, count) = t
    BY <1>3 DEF Consumed
  <2> HIDE DEF t
  <2> QED
    BY <2>1, <1>1, CompactedProperties
<1> QED
  BY <1>2, <1>3

--------------------------------------------------------------------------------
(* The inductive invariant *)

\* The state of a session inside a callback.
Shape(s) ==
    /\ s \in Sessions
    /\ Sane(s.toUpstream) /\ s.toUpstream.max = RequestCapacity
    /\ Sane(s.toClient) /\ s.toClient.max = AnswerCapacity
    /\ s.cleanReuse

UpstreamStates == {"ConnectingUpstream", "SendingRequest", "ReadingResponse"}

Descriptors(s) ==
    /\ s.clientFd <=> s.state # "Closed"
    /\ s.upstreamFd <=> s.state \in UpstreamStates

Asked(s) == Text("client", s.requestLength)

Silent(s) == s.answerSent = <<>> /\ ReadableView(s.toClient) = <<>>
Emptied(s) == ReadableView(s.toUpstream) = <<>>
Carries(s) == s.requestSent \o ReadableView(s.toUpstream) = Asked(s)
Given(s) == s.answerSent \o ReadableView(s.toClient)

\* An answer under way, by who made it: after one of EdgeGate's own the
\* connection is not used again.
EdgeAnswers(s) == s.closeAfter /\ Given(s) = Text("edge", ErrorLength)
UpstreamAnswers(s) ==
    s.requestSent = Asked(s) /\ \E n \in AnswerLengths : Given(s) = Text("upstream", n)

\* What each state holds of the two messages.
Good(s) ==
    /\ Shape(s) /\ Descriptors(s)
    /\ s.state = "ReadingRequest" => Silent(s) /\ Emptied(s) /\ s.requestSent = <<>>
    /\ s.state \in {"ConnectingUpstream", "SendingRequest"} => Silent(s) /\ Carries(s)
    /\ s.state = "ReadingResponse" =>
         Silent(s) /\ Emptied(s) /\ s.requestSent = Asked(s)
    /\ s.state = "SendingResponse" =>
         Emptied(s) /\ (EdgeAnswers(s) \/ UpstreamAnswers(s))

\* What a callback may make of a session that answers: the answer stays that of
\* its author, and one of EdgeGate's own is never followed by a request.
Follows(s, t) ==
    s.state = "SendingResponse" =>
        \/ t.state = "Closed"
        \/ t.state = "ReadingRequest" /\ ~EdgeAnswers(s)
        \/ /\ t.state = "SendingResponse"
           /\ EdgeAnswers(s) => EdgeAnswers(t)
           /\ UpstreamAnswers(s) => UpstreamAnswers(t)
           /\ s.answerSent # <<>> => t.answerSent # <<>>

\* The only answer before the upstream was asked is EdgeGate's own.
Refused(s) == s.state = "SendingResponse" => EdgeAnswers(s)

\* A closed session holds nothing once its callback is over.
Forgotten(s) == Silent(s) /\ Emptied(s) /\ s.requestSent = <<>>

LInv == Good(session) /\ (session.state = "Closed" => Forgotten(session))

--------------------------------------------------------------------------------
(* Texts and the operators that change a few fields *)

LEMMA TextProperties ==
    ASSUME NEW author \in Authors, NEW n \in Nat
    PROVE  Text(author, n) \in Seq(Bytes) /\ Len(Text(author, n)) = n
<1>1. \A i \in 1..n : <<author, i>> \in Bytes
  BY DEF Bytes
<1> QED
  BY <1>1 DEF Text

LEMMA CloseUpstreamFields ==
    ASSUME NEW s \in Sessions
    PROVE  /\ CloseUpstream(s) \in Sessions
           /\ ~CloseUpstream(s).upstreamFd
           /\ CloseUpstream(s).state = s.state
           /\ CloseUpstream(s).clientFd = s.clientFd
           /\ CloseUpstream(s).toUpstream = s.toUpstream
           /\ CloseUpstream(s).toClient = s.toClient
           /\ CloseUpstream(s).closeAfter = s.closeAfter
           /\ CloseUpstream(s).readClosed = s.readClosed
           /\ CloseUpstream(s).requestLength = s.requestLength
           /\ CloseUpstream(s).requestSent = s.requestSent
           /\ CloseUpstream(s).answerSent = s.answerSent
           /\ CloseUpstream(s).cleanReuse = s.cleanReuse
  BY DEF CloseUpstream, Sessions, Interests

LEMMA CloseSessionGood ==
    ASSUME NEW s, Shape(s), s.state = "Closed" => Descriptors(s)
    PROVE  Good(CloseSession(s)) /\ CloseSession(s).state = "Closed"
<1>1. CASE s.state = "Closed"
  BY <1>1 DEF CloseSession, Good
<1>2. CASE s.state # "Closed"
  <2> DEFINE c == CloseUpstream(s)
             t == [c EXCEPT !.state = "Closed", !.clientFd = FALSE]
  <2>1. CloseSession(s) = t
    BY <1>2 DEF CloseSession
  <2>2. /\ c \in Sessions /\ ~c.upstreamFd /\ c.toUpstream = s.toUpstream
        /\ c.toClient = s.toClient /\ c.cleanReuse = s.cleanReuse
    BY CloseUpstreamFields DEF Shape
  <2> HIDE DEF c
  <2>3. /\ t \in Sessions /\ t.state = "Closed" /\ ~t.clientFd /\ ~t.upstreamFd
        /\ t.toUpstream = s.toUpstream /\ t.toClient = s.toClient /\ t.cleanReuse = s.cleanReuse
    BY <2>2 DEF Sessions, States
  <2> HIDE DEF t
  <2> QED
    BY <2>1, <2>3 DEF Good, Shape, Descriptors, UpstreamStates
<1> QED
  BY <1>1, <1>2

\* refresh_interests and the half close of the client leave both messages alone.
LEMMA RefreshInterestsGood ==
    ASSUME NEW s, Good(s)
    PROVE  /\ Good(RefreshInterests(s)) /\ Follows(s, RefreshInterests(s))
           /\ RefreshInterests(s).state = s.state
<1>1. CASE s.state = "Closed"
  BY <1>1 DEF RefreshInterests, Follows
<1>2. CASE s.state # "Closed"
  <2> DEFINE w == WantedInterests(s)
             t == [s EXCEPT !.armed = w]
  <2>1. RefreshInterests(s) = t
    BY <1>2 DEF RefreshInterests
  <2>2. s \in Sessions
    BY DEF Good, Shape
  <2>3. w \in Interests
    <3>1. s.readClosed \in BOOLEAN /\ s.upstreamFd \in BOOLEAN
      BY <2>2 DEF Sessions
    <3>2. (ReadableSize(s.toClient) > 0) \in BOOLEAN
      OBVIOUS
    <3> QED
      BY <3>1, <3>2 DEF WantedInterests, Interests
  <2> HIDE DEF w
  <2>4. /\ t \in Sessions /\ t.state = s.state /\ t.clientFd = s.clientFd
        /\ t.upstreamFd = s.upstreamFd /\ t.toUpstream = s.toUpstream
        /\ t.toClient = s.toClient /\ t.closeAfter = s.closeAfter
        /\ t.requestLength = s.requestLength /\ t.requestSent = s.requestSent
        /\ t.answerSent = s.answerSent /\ t.cleanReuse = s.cleanReuse
    BY <2>2, <2>3 DEF Sessions
  <2> HIDE DEF t
  <2>5. Good(t)
    BY <2>4 DEF Good, Shape, Descriptors, Silent, Emptied, Carries, Asked, EdgeAnswers,
                UpstreamAnswers, Given
  <2>6. Follows(s, t)
    BY <2>4 DEF Follows, Asked, EdgeAnswers, UpstreamAnswers, Given
  <2> QED
    BY <2>1, <2>4, <2>5, <2>6
<1> QED
  BY <1>1, <1>2

LEMMA ClientHalfClosedGood ==
    ASSUME NEW s, Good(s)
    PROVE  /\ Good(ClientHalfClosed(s)) /\ Follows(s, ClientHalfClosed(s))
           /\ ClientHalfClosed(s).state \in {s.state, "Closed"}
<1> DEFINE t == [s EXCEPT !.readClosed = TRUE, !.closeAfter = TRUE]
<1>1. s \in Sessions
  BY DEF Good, Shape
<1>2. /\ t \in Sessions /\ t.state = s.state /\ t.clientFd = s.clientFd
      /\ t.upstreamFd = s.upstreamFd /\ t.toUpstream = s.toUpstream
      /\ t.toClient = s.toClient /\ t.closeAfter = TRUE
      /\ t.requestLength = s.requestLength /\ t.requestSent = s.requestSent
      /\ t.answerSent = s.answerSent /\ t.cleanReuse = s.cleanReuse
  BY <1>1 DEF Sessions
<1>3. ClientHalfClosed(s) = IF s.state = "ReadingRequest" THEN CloseSession(t) ELSE t
  BY DEF ClientHalfClosed
<1> HIDE DEF t
<1>4. Good(t)
  BY <1>2 DEF Good, Shape, Descriptors, Silent, Emptied, Carries, Asked, EdgeAnswers,
              UpstreamAnswers, Given
<1>5. Good(CloseSession(t)) /\ CloseSession(t).state = "Closed"
  BY <1>4, CloseSessionGood DEF Good
<1>6. Follows(s, t)
  BY <1>2 DEF Follows, Asked, EdgeAnswers, UpstreamAnswers, Given
<1> QED
  BY <1>2, <1>3, <1>4, <1>5, <1>6 DEF Follows

LEMMA AfterHangupGood ==
    ASSUME NEW s, Good(s), NEW events
    PROVE  /\ Good(AfterHangup(s, events)) /\ Follows(s, AfterHangup(s, events))
           /\ AfterHangup(s, events).state \in {s.state, "Closed"}
<1> DEFINE t == IF "RDHUP" \in events /\ s.state # "Closed" THEN ClientHalfClosed(s) ELSE s
<1>1. Good(t) /\ Follows(s, t) /\ t.state \in {s.state, "Closed"}
  BY ClientHalfClosedGood DEF Follows
<1>2. AfterHangup(s, events) = IF "HUP" \in events THEN CloseSession(t) ELSE t
  BY DEF AfterHangup
<1> HIDE DEF t
<1>3. Good(CloseSession(t)) /\ CloseSession(t).state = "Closed"
  BY <1>1, CloseSessionGood DEF Good
<1> QED
  BY <1>1, <1>2, <1>3 DEF Follows

--------------------------------------------------------------------------------
(* Answering the client *)

\* Between two requests nothing is left of either message, and a connection is
\* used again only after its whole request and a whole answer of the upstream.
LEMMA ClientBufferEmptyGood ==
    ASSUME NEW s, Good(s), ReadableView(s.toClient) = <<>>
    PROVE  Good(ClientBufferEmpty(s)) /\ Follows(s, ClientBufferEmpty(s))
<1>1. CASE s.state # "SendingResponse"
  BY <1>1 DEF ClientBufferEmpty, Follows
<1>2. CASE s.state = "SendingResponse" /\ (s.closeAfter \/ s.readClosed)
  <2>1. Good(CloseSession(s)) /\ CloseSession(s).state = "Closed"
    BY CloseSessionGood DEF Good
  <2> QED
    BY <1>2, <2>1 DEF ClientBufferEmpty, Follows
<1>3. CASE s.state = "SendingResponse" /\ ~(s.closeAfter \/ s.readClosed)
  <2> DEFINE t == Reused(s)
  <2>1. ClientBufferEmpty(s) = t
    BY <1>3 DEF ClientBufferEmpty
  <2>2. s \in Sessions /\ Descriptors(s) /\ s.cleanReuse /\ Emptied(s)
    BY <1>3 DEF Good, Shape
  <2>3. PICK n \in AnswerLengths : Given(s) = Text("upstream", n)
    BY <1>3 DEF Good, EdgeAnswers, UpstreamAnswers
  <2>4. s.requestSent = Asked(s)
    BY <1>3 DEF Good, EdgeAnswers, UpstreamAnswers
  <2>5. s.answerSent \in Seq(Bytes)
    BY <2>2 DEF Sessions
  <2>6. s.answerSent = Text("upstream", n)
    BY <2>3, <2>5, ConcatEmptySeq DEF Given
  <2>7. Len(s.answerSent) = n
    <3>1. n \in Nat
      BY LegacyAssumption
    <3> QED
      BY <2>6, <3>1, TextProperties DEF Authors
  <2>8. <<>> \in Seq(Bytes)
    BY EmptySeq
  <2>9. /\ t \in Sessions /\ t.state = "ReadingRequest" /\ t.clientFd = s.clientFd
        /\ t.upstreamFd = s.upstreamFd /\ t.toUpstream = s.toUpstream
        /\ t.toClient = s.toClient /\ t.requestSent = <<>> /\ t.answerSent = <<>>
    BY <2>2, <2>8 DEF Reused, Sessions, States
  <2>10. t.cleanReuse
    BY <2>2, <2>4, <2>6, <2>7 DEF Reused, Sessions, Asked
  <2> HIDE DEF t
  <2>11. Shape(t) /\ Descriptors(t)
    BY <1>3, <2>2, <2>9, <2>10 DEF Good, Shape, Descriptors, UpstreamStates
  <2>12. Good(t)
    BY <2>2, <2>9, <2>11 DEF Good, Silent, Emptied
  <2> QED
    BY <1>3, <2>1, <2>9, <2>12 DEF Follows, EdgeAnswers
<1> QED
  BY <1>1, <1>2, <1>3

\* What a buffer gives and what it keeps are together what it had.
LEMMA ConsumedSplits ==
    ASSUME NEW b \in Buffers(Bytes), Sane(b), NEW n \in 0..ReadableSize(b),
           NEW sent \in Seq(Bytes)
    PROVE  /\ SubSeq(ReadableView(b), 1, n) \in Seq(Bytes)
           /\ (sent \o SubSeq(ReadableView(b), 1, n)) \o ReadableView(Consumed(b, n))
                = sent \o ReadableView(b)
           /\ n = ReadableSize(b) => ReadableView(Consumed(b, n)) = <<>>
<1> DEFINE view == ReadableView(b)
           first == SubSeq(view, 1, n)
           rest == SubSeq(view, n + 1, ReadableSize(b))
<1>1. view \in Seq(Bytes) /\ ReadableSize(b) \in Nat /\ Len(view) = ReadableSize(b)
  BY ViewProperties
<1>2. ReadableView(Consumed(b, n)) = rest
  BY ConsumedProperties
<1> HIDE DEF view
<1>3. \A i \in 1..Len(view) : view[i] \in Bytes
  BY <1>1, ElementOfSeq
<1>4. /\ first \in Seq(Bytes) /\ Len(first) = n
      /\ \A i \in 1..n : first[i] = view[i]
  <2>1. n \in Nat /\ \A i \in 1..n : view[i] \in Bytes
    BY <1>1, <1>3
  <2>2. /\ first \in Seq(Bytes) /\ Len(first) = IF 1 <= n THEN n - 1 + 1 ELSE 0
        /\ \A i \in 1..(n - 1 + 1) : first[i] = view[1 + i - 1]
    BY <2>1, <1>1, SubSeqProperties
  <2> HIDE DEF first
  <2>3. \A i \in 1..n : i \in 1..(n - 1 + 1) /\ 1 + i - 1 = i
    BY <2>1
  <2> QED
    BY <2>1, <2>2, <2>3
<1>5. /\ rest \in Seq(Bytes) /\ Len(rest) = Len(view) - n
      /\ \A i \in 1..(Len(view) - n) : rest[i] = view[n + i]
  <2>1. /\ n \in Nat /\ Len(view) \in Nat /\ n <= Len(view)
        /\ \A i \in (n + 1)..Len(view) : view[i] \in Bytes
    BY <1>1, <1>3
  <2>2. /\ rest \in Seq(Bytes)
        /\ Len(rest) = IF n + 1 <= Len(view) THEN Len(view) - (n + 1) + 1 ELSE 0
        /\ \A i \in 1..(Len(view) - (n + 1) + 1) : rest[i] = view[n + 1 + i - 1]
    BY <2>1, <1>1, SubSeqProperties
  <2> HIDE DEF rest
  <2>3. \A i \in 1..(Len(view) - n) : i \in 1..(Len(view) - (n + 1) + 1) /\ n + 1 + i - 1 = n + i
    BY <2>1
  <2> QED
    BY <2>1, <2>2, <2>3
<1>6. first \o rest = view
  <2> HIDE DEF first, rest
  <2>1. n \in Nat /\ Len(view) \in Nat /\ n <= Len(view) /\ Len(first) + Len(rest) = Len(view)
    BY <1>1, <1>4, <1>5
  <2>2. /\ first \o rest \in Seq(Bytes)
        /\ Len(first \o rest) = Len(first) + Len(rest)
        /\ \A i \in 1..(Len(first) + Len(rest)) :
             (first \o rest)[i] = IF i <= Len(first) THEN first[i] ELSE rest[i - Len(first)]
    BY <1>4, <1>5, ConcatProperties
  <2>3. ASSUME NEW i \in 1..Len(view) PROVE (first \o rest)[i] = view[i]
    <3>1. CASE i <= n
      BY <3>1, <2>1, <2>2, <1>4
    <3>2. CASE ~(i <= n)
      <4>1. (first \o rest)[i] = rest[i - n]
        BY <3>2, <2>1, <2>2, <1>4
      <4>2. i - n \in 1..(Len(view) - n) /\ n + (i - n) = i
        BY <3>2, <2>1
      <4> QED
        BY <4>1, <4>2, <1>5
    <3> QED
      BY <3>1, <3>2
  <2> QED
    BY <1>1, <2>1, <2>2, <2>3, SeqEqual
<1>7. n = ReadableSize(b) => rest = <<>>
  BY <1>1, <1>5, EmptySeq
<1> HIDE DEF first, rest
<1>8. (sent \o first) \o rest = sent \o (first \o rest)
  <2>1. first \in Seq(Bytes) /\ rest \in Seq(Bytes) /\ sent \in Seq(Bytes)
    BY <1>4, <1>5
  <2> QED
    BY <2>1, ConcatAssociative
<1>9. (sent \o first) \o rest = sent \o view
  BY <1>6, <1>8
<1> QED
  BY <1>2, <1>4, <1>7, <1>9 DEF view, first, rest

LEMMA SendToClientGood ==
    ASSUME NEW s, Good(s), s.state = "SendingResponse", NEW n \in 0..ReadableSize(s.toClient)
    PROVE  /\ Good(SendToClient(s, n)) /\ Follows(s, SendToClient(s, n))
           /\ SendToClient(s, n).state = "SendingResponse"
           /\ n = ReadableSize(s.toClient) => ReadableView(SendToClient(s, n).toClient) = <<>>
<1>1. /\ s \in Sessions /\ s.toClient \in Buffers(Bytes) /\ Sane(s.toClient)
      /\ s.toClient.max = AnswerCapacity /\ s.answerSent \in Seq(Bytes)
  BY DEF Good, Shape, Sessions
<1>2. CASE n = 0
  <2>1. SendToClient(s, n) = s
    BY <1>2 DEF SendToClient
  <2>2. n = ReadableSize(s.toClient) => ReadableView(s.toClient) = <<>>
    BY <1>1, <1>2, ViewProperties, EmptySeq
  <2> QED
    BY <2>1, <2>2 DEF Follows
<1>3. CASE n # 0
  <2> DEFINE b == Consumed(s.toClient, n)
             first == SubSeq(ReadableView(s.toClient), 1, n)
             sent == s.answerSent \o first
             t == [s EXCEPT !.toClient = b, !.answerSent = sent]
  <2>1. SendToClient(s, n) = t
    BY <1>1, <1>3 DEF SendToClient, Sessions
  <2>2. b \in Buffers(Bytes) /\ Sane(b) /\ b.max = AnswerCapacity
    BY <1>1, ConsumedProperties
  <2>3. /\ first \in Seq(Bytes) /\ sent \o ReadableView(b) = Given(s)
        /\ n = ReadableSize(s.toClient) => ReadableView(b) = <<>>
    BY <1>1, ConsumedSplits DEF Given
  <2> HIDE DEF b, first
  <2>4. sent \in Seq(Bytes) /\ (s.answerSent # <<>> => sent # <<>>)
    <3>1. sent \in Seq(Bytes) /\ Len(sent) = Len(s.answerSent) + Len(first)
      BY <1>1, <2>3, ConcatProperties
    <3>2. Len(s.answerSent) \in Nat /\ Len(first) \in Nat
      BY <1>1, <2>3
    <3> HIDE DEF sent
    <3> QED
      BY <1>1, <3>1, <3>2, EmptySeq
  <2> HIDE DEF sent
  <2>5. /\ t \in Sessions /\ t.state = s.state /\ t.clientFd = s.clientFd
        /\ t.upstreamFd = s.upstreamFd /\ t.toUpstream = s.toUpstream
        /\ t.toClient = b /\ t.closeAfter = s.closeAfter
        /\ t.requestLength = s.requestLength /\ t.requestSent = s.requestSent
        /\ t.answerSent = sent /\ t.cleanReuse = s.cleanReuse
    BY <1>1, <2>2, <2>4 DEF Sessions
  <2> HIDE DEF t
  <2>6. Given(t) = Given(s)
    BY <2>3, <2>5 DEF Given
  <2>7. Good(t)
    BY <2>2, <2>5, <2>6 DEF Good, Shape, Descriptors, Emptied, Asked, EdgeAnswers, UpstreamAnswers
  <2>8. Follows(s, t)
    BY <2>4, <2>5, <2>6 DEF Follows, Asked, EdgeAnswers, UpstreamAnswers
  <2> QED
    BY <2>1, <2>3, <2>5, <2>7, <2>8
<1> QED
  BY <1>2, <1>3

LEMMA WriteClientGood ==
    ASSUME NEW s, Good(s), s.state = "SendingResponse", NEW t \in WriteClient(s)
    PROVE  Good(t) /\ Follows(s, t)
<1> DEFINE size == ReadableSize(s.toClient)
<1>1. size \in Nat
  BY ViewProperties DEF Good, Shape, Sessions
<1>2. PICK n \in 0..size : \/ t = ClientBufferEmpty(SendToClient(s, n)) /\ n = size
                           \/ t = SendToClient(s, n)
                           \/ t = CloseSession(SendToClient(s, n))
  BY <1>1 DEF WriteClient
<1> DEFINE u == SendToClient(s, n)
<1>3. /\ Good(u) /\ Follows(s, u) /\ u.state = "SendingResponse"
      /\ n = size => ReadableView(u.toClient) = <<>>
  BY SendToClientGood
<1> HIDE DEF u, size
<1>4. CASE t = ClientBufferEmpty(u) /\ n = size
  <2>1. Good(t) /\ Follows(u, t)
    BY <1>3, <1>4, ClientBufferEmptyGood
  <2> QED
    BY <1>3, <2>1 DEF Follows
<1>5. CASE t = u
  BY <1>3, <1>5
<1>6. CASE t = CloseSession(u)
  <2>1. Good(t) /\ t.state = "Closed"
    BY <1>3, <1>6, CloseSessionGood DEF Good
  <2> QED
    BY <2>1 DEF Follows
<1> QED
  BY <1>2, <1>4, <1>5, <1>6 DEF u

\* An error replaces what was left of the request, before any byte of an answer.
LEMMA ErrorQueuedGood ==
    ASSUME NEW s, Shape(s), Descriptors(s), s.state # "Closed", s.answerSent = <<>>
    PROVE  /\ Good(ErrorQueued(s))
           /\ ErrorQueued(s).state \in {"Closed", "SendingResponse"}
           /\ Refused(ErrorQueued(s))
<1> DEFINE c == CloseUpstream(s)
           up == Cleared(c.toUpstream)
           down == Cleared(c.toClient)
           t == [c EXCEPT !.toUpstream = up, !.toClient = down]
           text == Text("edge", ErrorLength)
           b == Appended(down, text)
           u == [t EXCEPT !.toClient = b, !.closeAfter = TRUE, !.state = "SendingResponse"]
<1>1. s \in Sessions /\ s.toUpstream \in Buffers(Bytes) /\ s.toClient \in Buffers(Bytes)
      /\ Sane(s.toUpstream) /\ Sane(s.toClient) /\ s.cleanReuse
      /\ s.toUpstream.max = RequestCapacity /\ s.toClient.max = AnswerCapacity
  BY DEF Shape, Sessions
<1>2. /\ c \in Sessions /\ ~c.upstreamFd /\ c.toUpstream = s.toUpstream
      /\ c.toClient = s.toClient /\ c.cleanReuse /\ c.clientFd
      /\ c.state = s.state /\ c.answerSent = <<>>
  BY <1>1, CloseUpstreamFields DEF Descriptors
<1> HIDE DEF c
<1>3. /\ up \in Buffers(Bytes) /\ Sane(up) /\ up.max = RequestCapacity
      /\ ReadableView(up) = <<>>
      /\ down \in Buffers(Bytes) /\ Sane(down) /\ down.max = AnswerCapacity
      /\ ReadableView(down) = <<>>
  BY <1>1, <1>2, ClearedProperties
<1>4. ErrorQueued(s) = IF ~Fits(t.toClient, text) THEN CloseSession(t)
                       ELSE [t EXCEPT !.toClient = Appended(@, text), !.closeAfter = TRUE,
                                      !.state = "SendingResponse"]
  BY <1>1, <1>2 DEF ErrorQueued, c, Sessions
<1> HIDE DEF up, down
<1>5. /\ t \in Sessions /\ ~t.upstreamFd /\ t.toUpstream = up /\ t.toClient = down
      /\ t.cleanReuse /\ t.clientFd /\ t.state = s.state /\ t.answerSent = <<>>
  BY <1>2, <1>3 DEF Sessions
<1>6. Shape(t)
  BY <1>3, <1>5 DEF Shape
<1>7. CASE ~Fits(down, text)
  <2>1. ErrorQueued(s) = CloseSession(t)
    BY <1>4, <1>5, <1>7
  <2> HIDE DEF t
  <2>2. Good(CloseSession(t)) /\ CloseSession(t).state = "Closed"
    BY <1>5, <1>6, CloseSessionGood
  <2> QED
    BY <2>1, <2>2 DEF Refused
<1>8. CASE Fits(down, text)
  <2>1. ErrorQueued(s) = u
    BY <1>4, <1>5, <1>8
  <2> HIDE DEF t
  <2>2. text \in Seq(Bytes) /\ Len(text) = ErrorLength
    BY LegacyAssumption, TextProperties DEF Authors
  <2> HIDE DEF text
  <2>3. /\ b \in Buffers(Bytes) /\ Sane(b) /\ b.max = AnswerCapacity
        /\ ReadableView(b) = ReadableView(down) \o text
    BY <1>3, <1>8, <2>2, AppendedProperties
  <2> HIDE DEF b
  <2>4. <<>> \o (<<>> \o text) = text
    BY <2>2, ConcatEmptySeq
  <2>5. /\ u \in Sessions /\ ~u.upstreamFd /\ u.toUpstream = up /\ u.toClient = b
        /\ u.cleanReuse /\ u.clientFd /\ u.state = "SendingResponse" /\ u.answerSent = <<>>
        /\ u.closeAfter = TRUE
    BY <1>5, <2>3 DEF Sessions, States
  <2> HIDE DEF u
  <2>6. Given(u) = text
    BY <1>3, <2>3, <2>4, <2>5 DEF Given
  <2>7. Shape(u) /\ Descriptors(u) /\ Emptied(u) /\ EdgeAnswers(u)
    BY <1>3, <2>3, <2>5, <2>6 DEF Shape, Descriptors, UpstreamStates, Emptied, EdgeAnswers, text
  <2> QED
    BY <2>1, <2>5, <2>7 DEF Good, Refused
<1> QED
  BY <1>7, <1>8

LEMMA QueueErrorGood ==
    ASSUME NEW s, Shape(s), Descriptors(s), s.state # "Closed", s.answerSent = <<>>,
           NEW t \in QueueError(s)
    PROVE  Good(t) /\ Refused(t)
<1> DEFINE u == ErrorQueued(s)
<1>1. Good(u) /\ u.state \in {"Closed", "SendingResponse"} /\ Refused(u)
  BY ErrorQueuedGood
<1>2. t \in IF u.state = "Closed" THEN {u} ELSE WriteClient(u)
  BY DEF QueueError
<1> HIDE DEF u
<1>3. CASE t = u
  BY <1>1, <1>3
<1>4. CASE u.state = "SendingResponse" /\ t \in WriteClient(u)
  <2>1. Good(t) /\ Follows(u, t)
    BY <1>1, <1>4, WriteClientGood
  <2> QED
    BY <1>1, <1>4, <2>1 DEF Follows, Refused
<1> QED
  BY <1>1, <1>2, <1>3, <1>4

\* The answer of the upstream follows the whole request.
LEMMA FinishResponseGood ==
    ASSUME NEW s, Good(s), s.state = "ReadingResponse", NEW t \in FinishResponse(s)
    PROVE  Good(t)
<1>1. /\ s \in Sessions /\ s.toUpstream \in Buffers(Bytes) /\ s.toClient \in Buffers(Bytes)
      /\ Sane(s.toUpstream) /\ Sane(s.toClient) /\ s.cleanReuse /\ s.closeAfter \in BOOLEAN
      /\ s.toUpstream.max = RequestCapacity /\ s.toClient.max = AnswerCapacity
      /\ Descriptors(s) /\ s.answerSent = <<>> /\ ReadableView(s.toClient) = <<>>
      /\ Emptied(s) /\ s.requestSent = Asked(s)
  BY DEF Good, Shape, Sessions, Silent
<1>2. PICK length \in AnswerLengths, closes \in BOOLEAN :
        t \in IF ~Fits(s.toClient, Text("upstream", length))
              THEN QueueError([s EXCEPT !.closeAfter = s.closeAfter \/ closes])
              ELSE WriteClient(Answered(s, length, closes))
  <2> DEFINE Ends(length, closes) ==
               IF ~Fits(s.toClient, Text("upstream", length))
               THEN QueueError([s EXCEPT !.closeAfter = s.closeAfter \/ closes])
               ELSE WriteClient(Answered(s, length, closes))
             Choices == IF s.routed THEN {FALSE} ELSE BOOLEAN
             All == {Ends(length, closes) : length \in AnswerLengths, closes \in Choices}
  <2>1. FinishResponse(s) = UNION All
    BY DEF FinishResponse
  <2>2. \A closes \in Choices : closes \in BOOLEAN
    OBVIOUS
  <2> HIDE DEF Ends, Choices
  <2>3. \A S \in All : \E length \in AnswerLengths, closes \in Choices : S = Ends(length, closes)
    OBVIOUS
  <2> HIDE DEF All
  <2>4. PICK S \in All : t \in S
    BY <2>1
  <2>5. \E length \in AnswerLengths, closes \in BOOLEAN : t \in Ends(length, closes)
    BY <2>2, <2>3, <2>4
  <2> QED
    BY <2>5 DEF Ends
<1> DEFINE text == Text("upstream", length)
<1>3. CASE ~Fits(s.toClient, text)
  <2> DEFINE e == [s EXCEPT !.closeAfter = s.closeAfter \/ closes]
  <2>1. /\ e \in Sessions /\ e.state = s.state /\ e.clientFd = s.clientFd
        /\ e.upstreamFd = s.upstreamFd /\ e.toUpstream = s.toUpstream
        /\ e.toClient = s.toClient /\ e.answerSent = <<>> /\ e.cleanReuse
    BY <1>1 DEF Sessions
  <2>2. t \in QueueError(e)
    BY <1>2, <1>3
  <2> HIDE DEF e
  <2>3. Shape(e) /\ Descriptors(e) /\ e.state # "Closed"
    BY <1>1, <2>1 DEF Shape, Descriptors
  <2> QED
    BY <2>1, <2>2, <2>3, QueueErrorGood
<1>4. CASE Fits(s.toClient, text)
  <2> DEFINE c == CloseUpstream(s)
             b == Appended(s.toClient, text)
             u == [c EXCEPT !.closeAfter = s.closeAfter \/ closes, !.state = "SendingResponse",
                            !.toClient = b]
  <2>1. /\ c \in Sessions /\ ~c.upstreamFd /\ c.toUpstream = s.toUpstream
        /\ c.toClient = s.toClient /\ c.cleanReuse /\ c.clientFd /\ c.answerSent = <<>>
        /\ c.closeAfter = s.closeAfter
        /\ c.requestLength = s.requestLength /\ c.requestSent = s.requestSent
    BY <1>1, CloseUpstreamFields DEF Descriptors
  <2> HIDE DEF c
  <2>2. Answered(s, length, closes) = u
    BY <2>1 DEF Answered, c, Sessions
  <2>3. text \in Seq(Bytes) /\ Len(text) = length
    BY LegacyAssumption, TextProperties DEF Authors
  <2> HIDE DEF text
  <2>4. /\ b \in Buffers(Bytes) /\ Sane(b) /\ b.max = AnswerCapacity
        /\ ReadableView(b) = <<>> \o text
    BY <1>1, <1>4, <2>3, AppendedProperties
  <2> HIDE DEF b
  <2>5. /\ u \in Sessions /\ ~u.upstreamFd /\ u.toUpstream = s.toUpstream /\ u.toClient = b
        /\ u.cleanReuse /\ u.clientFd /\ u.state = "SendingResponse" /\ u.answerSent = <<>>
        /\ u.requestLength = s.requestLength /\ u.requestSent = s.requestSent
    BY <1>1, <2>1, <2>4 DEF Sessions, States
  <2>6. t \in WriteClient(u)
    BY <1>2, <1>4, <2>2 DEF text
  <2> HIDE DEF u
  <2>7. Given(u) = text
    BY <2>3, <2>4, <2>5, ConcatEmptySeq DEF Given
  <2>8. UpstreamAnswers(u)
    BY <1>1, <2>5, <2>7 DEF UpstreamAnswers, Asked, text
  <2>9. Shape(u) /\ Descriptors(u) /\ Emptied(u)
    BY <1>1, <2>4, <2>5 DEF Shape, Descriptors, UpstreamStates, Emptied
  <2>10. Good(u)
    BY <2>5, <2>8, <2>9 DEF Good
  <2> QED
    BY <2>5, <2>6, <2>10, WriteClientGood
<1> QED
  BY <1>3, <1>4

--------------------------------------------------------------------------------
(* The upstream connection *)

LEMMA SendToUpstreamGood ==
    ASSUME NEW s, Good(s), s.state = "SendingRequest", NEW n \in 0..ReadableSize(s.toUpstream)
    PROVE  /\ Good(SendToUpstream(s, n))
           /\ SendToUpstream(s, n).state = "SendingRequest"
           /\ n = ReadableSize(s.toUpstream) =>
                ReadableView(SendToUpstream(s, n).toUpstream) = <<>>
<1>1. /\ s \in Sessions /\ s.toUpstream \in Buffers(Bytes) /\ Sane(s.toUpstream)
      /\ s.toUpstream.max = RequestCapacity /\ s.requestSent \in Seq(Bytes)
      /\ s.requestSent \o ReadableView(s.toUpstream) = Asked(s)
  BY DEF Good, Shape, Sessions, Carries
<1>2. CASE n = 0
  <2>1. SendToUpstream(s, n) = s
    BY <1>2 DEF SendToUpstream
  <2>2. n = ReadableSize(s.toUpstream) => ReadableView(s.toUpstream) = <<>>
    BY <1>1, <1>2, ViewProperties, EmptySeq
  <2> QED
    BY <2>1, <2>2
<1>3. CASE n # 0
  <2> DEFINE b == Consumed(s.toUpstream, n)
             first == SubSeq(ReadableView(s.toUpstream), 1, n)
             sent == s.requestSent \o first
             t == [s EXCEPT !.toUpstream = b, !.requestSent = sent]
  <2>1. SendToUpstream(s, n) = t
    BY <1>1, <1>3 DEF SendToUpstream, Sessions
  <2>2. b \in Buffers(Bytes) /\ Sane(b) /\ b.max = RequestCapacity
    BY <1>1, ConsumedProperties
  <2>3. /\ first \in Seq(Bytes) /\ sent \o ReadableView(b) = Asked(s)
        /\ n = ReadableSize(s.toUpstream) => ReadableView(b) = <<>>
    BY <1>1, ConsumedSplits
  <2> HIDE DEF b, first
  <2>4. sent \in Seq(Bytes)
    BY <1>1, <2>3, ConcatProperties
  <2> HIDE DEF sent
  <2>5. /\ t \in Sessions /\ t.state = s.state /\ t.clientFd = s.clientFd
        /\ t.upstreamFd = s.upstreamFd /\ t.toUpstream = b
        /\ t.toClient = s.toClient /\ t.closeAfter = s.closeAfter
        /\ t.requestLength = s.requestLength /\ t.requestSent = sent
        /\ t.answerSent = s.answerSent /\ t.cleanReuse = s.cleanReuse
    BY <1>1, <2>2, <2>4 DEF Sessions
  <2> HIDE DEF t
  <2>6. Carries(t)
    BY <2>3, <2>5 DEF Carries, Asked
  <2>7. Good(t)
    BY <2>2, <2>5, <2>6 DEF Good, Shape, Descriptors, Silent
  <2> QED
    BY <2>1, <2>3, <2>5, <2>7
<1> QED
  BY <1>2, <1>3

LEMMA RequestSentGood ==
    ASSUME NEW s, Good(s), s.state = "SendingRequest", ReadableView(s.toUpstream) = <<>>
    PROVE  Good(RequestSent(s)) /\ RequestSent(s).state = "ReadingResponse"
<1> DEFINE t == RequestSent(s)
<1>1. s \in Sessions /\ s.requestSent \in Seq(Bytes)
  BY DEF Good, Shape, Sessions
<1>2. s.requestSent = Asked(s)
  BY <1>1, ConcatEmptySeq DEF Good, Carries
<1>3. /\ t \in Sessions /\ t.state = "ReadingResponse" /\ t.clientFd = s.clientFd
      /\ t.upstreamFd = s.upstreamFd /\ t.toUpstream = s.toUpstream
      /\ t.toClient = s.toClient
      /\ t.requestLength = s.requestLength /\ t.requestSent = s.requestSent
      /\ t.answerSent = s.answerSent /\ t.cleanReuse = s.cleanReuse
  BY <1>1 DEF RequestSent, Sessions, States
<1> HIDE DEF t
<1>4. Shape(t) /\ Descriptors(t)
  BY <1>3 DEF Good, Shape, Descriptors, UpstreamStates
<1>5. Silent(t) /\ Emptied(t) /\ t.requestSent = Asked(t)
  BY <1>2, <1>3 DEF Good, Silent, Emptied, Asked
<1>6. Good(t)
  BY <1>3, <1>4, <1>5 DEF Good
<1> QED
  BY <1>3, <1>6 DEF t

LEMMA WriteUpstreamGood ==
    ASSUME NEW s, Good(s), s.state = "SendingRequest", NEW t \in WriteUpstream(s)
    PROVE  Good(t) /\ Refused(t)
<1> DEFINE size == ReadableSize(s.toUpstream)
<1>1. size \in Nat
  BY ViewProperties DEF Good, Shape, Sessions
<1>2. PICK n \in 0..size : \/ t = RequestSent(SendToUpstream(s, n)) /\ n = size
                           \/ t = SendToUpstream(s, n)
                           \/ t \in QueueError(SendToUpstream(s, n))
  BY <1>1 DEF WriteUpstream
<1> DEFINE u == SendToUpstream(s, n)
<1>3. /\ Good(u) /\ u.state = "SendingRequest"
      /\ n = size => ReadableView(u.toUpstream) = <<>>
  BY SendToUpstreamGood
<1> HIDE DEF u, size
<1>4. CASE t = RequestSent(u) /\ n = size
  BY <1>3, <1>4, RequestSentGood DEF Refused
<1>5. CASE t = u
  BY <1>3, <1>5 DEF Refused
<1>6. CASE t \in QueueError(u)
  BY <1>3, <1>6, QueueErrorGood DEF Good, Silent
<1> QED
  BY <1>2, <1>4, <1>5, <1>6 DEF u

LEMMA ConnectingGood ==
    ASSUME NEW s, Shape(s), Descriptors(s), s.state = "ReadingRequest", Silent(s), Carries(s),
           NEW state \in {"ConnectingUpstream", "SendingRequest"}
    PROVE  Good(Connecting(s, state)) /\ Connecting(s, state).state = state
<1> DEFINE armed == [s.armed EXCEPT !.upstreamIn = FALSE, !.upstreamOut = TRUE]
           t == [s EXCEPT !.state = state, !.upstreamFd = TRUE, !.armed = armed]
<1>1. s \in Sessions /\ s.armed \in Interests
  BY DEF Shape, Sessions
<1>2. armed \in Interests
  BY <1>1 DEF Interests
<1>3. Connecting(s, state) = t
  BY <1>1 DEF Connecting, Sessions
<1> HIDE DEF armed
<1>4. /\ t \in Sessions /\ t.state = state /\ t.clientFd = s.clientFd
      /\ t.upstreamFd /\ t.toUpstream = s.toUpstream /\ t.toClient = s.toClient
      /\ t.requestLength = s.requestLength /\ t.requestSent = s.requestSent
      /\ t.answerSent = s.answerSent /\ t.cleanReuse = s.cleanReuse
  BY <1>1, <1>2 DEF Sessions, States
<1> HIDE DEF t
<1>5. Shape(t) /\ Descriptors(t)
  BY <1>4 DEF Shape, Descriptors, UpstreamStates
<1>6. Silent(t) /\ Carries(t)
  BY <1>4 DEF Silent, Carries, Asked
<1> QED
  BY <1>3, <1>4, <1>5, <1>6 DEF Good

LEMMA ConnectUpstreamGood ==
    ASSUME NEW s, Shape(s), Descriptors(s), s.state = "ReadingRequest", Silent(s), Carries(s),
           NEW t \in ConnectUpstream(s)
    PROVE  Good(t) /\ Refused(t)
<1>1. CASE t \in QueueError(s)
  BY <1>1, QueueErrorGood DEF Silent
<1>2. CASE t = Connecting(s, "ConnectingUpstream")
  BY <1>2, ConnectingGood DEF Refused
<1>3. CASE t \in WriteUpstream(Connecting(s, "SendingRequest"))
  <2>1. Good(Connecting(s, "SendingRequest"))
        /\ Connecting(s, "SendingRequest").state = "SendingRequest"
    BY ConnectingGood
  <2> QED
    BY <1>3, <2>1, WriteUpstreamGood
<1> QED
  BY <1>1, <1>2, <1>3 DEF ConnectUpstream

LEMMA FinishUpstreamConnectGood ==
    ASSUME NEW s, Good(s), s.state = "ConnectingUpstream", NEW t \in FinishUpstreamConnect(s)
    PROVE  Good(t)
<1> DEFINE u == [s EXCEPT !.state = "SendingRequest"]
<1>1. t \in QueueError(s) \/ t \in WriteUpstream(u)
  BY DEF FinishUpstreamConnect
<1>2. /\ u \in Sessions /\ u.state = "SendingRequest" /\ u.clientFd = s.clientFd
      /\ u.upstreamFd = s.upstreamFd /\ u.toUpstream = s.toUpstream
      /\ u.toClient = s.toClient
      /\ u.requestLength = s.requestLength /\ u.requestSent = s.requestSent
      /\ u.answerSent = s.answerSent /\ u.cleanReuse = s.cleanReuse
  <2>1. s \in Sessions
    BY DEF Good, Shape
  <2> QED
    BY <2>1 DEF Sessions, States
<1> HIDE DEF u
<1>3. Shape(u) /\ Descriptors(u) /\ Silent(u) /\ Carries(u)
  BY <1>2 DEF Good, Shape, Descriptors, UpstreamStates, Silent, Carries, Asked
<1>4. Good(u)
  BY <1>2, <1>3 DEF Good
<1>5. CASE t \in QueueError(s)
  BY <1>5, QueueErrorGood DEF Good, Silent
<1> QED
  BY <1>1, <1>2, <1>4, <1>5, WriteUpstreamGood

LEMMA ReadUpstreamGood ==
    ASSUME NEW s, Good(s), s.state = "ReadingResponse", NEW t \in ReadUpstream(s)
    PROVE  Good(t)
<1>1. CASE t \in QueueError(s)
  BY <1>1, QueueErrorGood DEF Good, Silent
<1> QED
  BY <1>1, FinishResponseGood DEF ReadUpstream

--------------------------------------------------------------------------------
(* The client *)

LEMMA AcceptRequestGood ==
    ASSUME NEW s, Good(s), s.state = "ReadingRequest", NEW length \in RequestLengths,
           NEW closes \in BOOLEAN, NEW t \in AcceptRequest(s, length, closes)
    PROVE  Good(t) /\ Refused(t)
<1> DEFINE u == [s EXCEPT !.closeAfter = closes, !.requestLength = length]
           text == Text("client", length)
           b == Appended(u.toUpstream, text)
           v == [u EXCEPT !.toUpstream = b]
<1>1. /\ s \in Sessions /\ s.toUpstream \in Buffers(Bytes) /\ Sane(s.toUpstream)
      /\ s.toUpstream.max = RequestCapacity /\ s.requestSent = <<>>
      /\ ReadableView(s.toUpstream) = <<>>
  BY DEF Good, Shape, Sessions, Emptied
<1>2. text \in Seq(Bytes) /\ length \in Nat
  BY LegacyAssumption, TextProperties DEF Authors
<1>3. /\ u \in Sessions /\ u.state = "ReadingRequest" /\ u.clientFd = s.clientFd
      /\ u.upstreamFd = s.upstreamFd /\ u.toUpstream = s.toUpstream
      /\ u.toClient = s.toClient /\ u.requestLength = length /\ u.requestSent = <<>>
      /\ u.answerSent = s.answerSent /\ u.cleanReuse = s.cleanReuse
  BY <1>1, <1>2 DEF Sessions
<1>4. \/ t \in QueueError(u)
      \/ Fits(u.toUpstream, text) /\ t \in ConnectUpstream([u EXCEPT !.toUpstream = b])
  BY DEF AcceptRequest
<1> HIDE DEF u
<1>5. Shape(u) /\ Descriptors(u) /\ Silent(u)
  BY <1>3 DEF Good, Shape, Descriptors, UpstreamStates, Silent
<1>6. CASE t \in QueueError(u)
  BY <1>3, <1>5, <1>6, QueueErrorGood DEF Silent
<1>7. CASE Fits(u.toUpstream, text) /\ t \in ConnectUpstream(v)
  <2> HIDE DEF text
  <2>1. /\ b \in Buffers(Bytes) /\ Sane(b) /\ b.max = RequestCapacity
        /\ ReadableView(b) = <<>> \o text
    BY <1>1, <1>2, <1>3, <1>7, AppendedProperties
  <2> HIDE DEF b
  <2>2. /\ v \in Sessions /\ v.state = "ReadingRequest" /\ v.clientFd = u.clientFd
        /\ v.upstreamFd = u.upstreamFd /\ v.toUpstream = b
        /\ v.toClient = u.toClient /\ v.requestLength = length /\ v.requestSent = <<>>
        /\ v.answerSent = u.answerSent /\ v.cleanReuse = u.cleanReuse
    BY <1>3, <2>1 DEF Sessions
  <2> HIDE DEF v
  <2>3. Shape(v) /\ Descriptors(v) /\ Silent(v)
    BY <1>3, <1>5, <2>1, <2>2 DEF Shape, Descriptors, UpstreamStates, Silent
  <2>4. <<>> \o (<<>> \o text) = text
    BY <1>2, ConcatEmptySeq
  <2>5. Carries(v)
    BY <2>1, <2>2, <2>4 DEF Carries, Asked, text
  <2> QED
    BY <1>7, <2>2, <2>3, <2>5, ConnectUpstreamGood
<1> QED
  BY <1>4, <1>6, <1>7

LEMMA ReadClientGood ==
    ASSUME NEW s, Good(s), s.state = "ReadingRequest", NEW t \in ReadClient(s)
    PROVE  Good(t) /\ Refused(t)
<1> DEFINE u == [s EXCEPT !.readClosed = TRUE]
<1>1. \/ t = s \/ t = CloseSession(u) \/ t = CloseSession(s) \/ t \in QueueError(s)
      \/ \E length \in RequestLengths, closes \in BOOLEAN : t \in AcceptRequest(s, length, closes)
  BY DEF ReadClient
<1>2. Shape(u) /\ u.state = s.state
  <2>1. s \in Sessions
    BY DEF Good, Shape
  <2>2. /\ u \in Sessions /\ u.state = s.state /\ u.toUpstream = s.toUpstream
        /\ u.toClient = s.toClient /\ u.cleanReuse = s.cleanReuse
    BY <2>1 DEF Sessions
  <2> HIDE DEF u
  <2> QED
    BY <2>2 DEF Good, Shape
<1> HIDE DEF u
<1>3. /\ Good(CloseSession(u)) /\ CloseSession(u).state = "Closed"
      /\ Good(CloseSession(s)) /\ CloseSession(s).state = "Closed"
  BY <1>2, CloseSessionGood DEF Good
<1>4. CASE t \in QueueError(s)
  BY <1>4, QueueErrorGood DEF Good, Silent
<1>5. CASE t \in {s, CloseSession(u), CloseSession(s)}
  BY <1>3, <1>5 DEF Refused
<1> QED
  BY <1>1, <1>4, <1>5, AcceptRequestGood

--------------------------------------------------------------------------------
(* The callbacks *)

LEMMA OnClientEventGood ==
    ASSUME NEW s, Good(s), NEW events, NEW t \in OnClientEvent(s, events)
    PROVE  /\ Good(t) /\ Follows(s, t)
           /\ s.state = "ReadingRequest" => Refused(t)
<1>1. CASE "ERR" \in events
  BY <1>1, CloseSessionGood DEF OnClientEvent, Good, Follows, Refused
<1>2. CASE "ERR" \notin events
  <2>1. PICK u \in (IF "IN" \in events /\ s.state = "ReadingRequest"
                    THEN ReadClient(s) ELSE {s}) :
          \E v \in (IF /\ "OUT" \in events /\ AfterHangup(u, events).state # "Closed"
                       /\ ReadableSize(AfterHangup(u, events).toClient) > 0
                    THEN WriteClient(AfterHangup(u, events)) ELSE {AfterHangup(u, events)}) :
            t = RefreshInterests(v)
    BY <1>2 DEF OnClientEvent
  <2>2. /\ Good(u) /\ Follows(s, u)
        /\ s.state = "ReadingRequest" => Refused(u)
        /\ s.state # "ReadingRequest" => u = s
    BY <2>1, ReadClientGood DEF Follows, Refused
  <2> DEFINE h == AfterHangup(u, events)
  <2>3. Good(h) /\ Follows(u, h) /\ h.state \in {u.state, "Closed"}
    BY <2>2, AfterHangupGood
  <2>4. PICK v \in IF /\ "OUT" \in events /\ h.state # "Closed" /\ ReadableSize(h.toClient) > 0
                   THEN WriteClient(h) ELSE {h} : t = RefreshInterests(v)
    BY <2>1
  <2> HIDE DEF h
  <2>5. ASSUME h.state # "Closed", ReadableSize(h.toClient) > 0, v \in WriteClient(h)
        PROVE  Good(v) /\ h.state = "SendingResponse" /\ Follows(h, v)
    <3>1. h.toClient \in Buffers(Bytes) /\ Sane(h.toClient) /\ h.state \in States
      BY <2>3 DEF Good, Shape, Sessions
    <3>2. ReadableView(h.toClient) # <<>>
      BY <2>5, <3>1, ViewProperties, EmptySeq
    <3>3. h.state = "SendingResponse"
      BY <2>3, <2>5, <3>1, <3>2 DEF Good, Silent, States
    <3> QED
      BY <2>3, <2>5, <3>3, WriteClientGood
  <2>6. Good(v) /\ (v = h \/ (h.state = "SendingResponse" /\ Follows(h, v)))
    <3>1. v = h \/ (/\ h.state # "Closed" /\ ReadableSize(h.toClient) > 0
                   /\ v \in WriteClient(h))
      BY <2>4
    <3>2. CASE v = h
      BY <2>3, <3>2
    <3> QED
      BY <2>5, <3>1, <3>2
  <2>7. Good(t) /\ Follows(v, t) /\ t.state = v.state
    BY <2>4, <2>6, RefreshInterestsGood
  <2>8. Follows(s, t)
    BY <2>2, <2>3, <2>6, <2>7 DEF Follows
  <2>9. s.state = "ReadingRequest" => Refused(t)
    BY <2>2, <2>3, <2>6, <2>7 DEF Follows, Refused
  <2> QED
    BY <2>7, <2>8, <2>9
<1> QED
  BY <1>1, <1>2

LEMMA OnUpstreamEventGood ==
    ASSUME NEW s, Good(s), s.upstreamFd, NEW events, NEW t \in OnUpstreamEvent(s, events)
    PROVE  Good(t)
<1> DEFINE connected == IF s.state = "ConnectingUpstream" /\ events \cap {"OUT", "ERR", "HUP"} # {}
                        THEN FinishUpstreamConnect(s)
                        ELSE IF "ERR" \in events THEN QueueError(s) ELSE {s}
           output(u) == IF u.state = "SendingRequest" /\ "OUT" \in events
                        THEN WriteUpstream(u) ELSE {u}
           input(u) == IF u.state = "ReadingResponse" /\ events \cap {"IN", "RDHUP", "HUP"} # {}
                       THEN ReadUpstream(u) ELSE {u}
<1>1. \E u \in connected : \E v \in output(u) : \E w \in input(v) : t = RefreshInterests(w)
  BY DEF OnUpstreamEvent
<1>2. ASSUME NEW u \in connected PROVE Good(u)
  <2>1. s.state # "Closed" /\ s.answerSent = <<>>
    BY DEF Good, Descriptors, UpstreamStates, Silent
  <2> QED
    BY <1>2, <2>1, FinishUpstreamConnectGood, QueueErrorGood DEF Good
<1>3. ASSUME NEW u, Good(u), NEW v \in output(u) PROVE Good(v)
  BY <1>3, WriteUpstreamGood
<1>4. ASSUME NEW u, Good(u), NEW v \in input(u) PROVE Good(v)
  BY <1>4, ReadUpstreamGood
<1> HIDE DEF connected, output, input
<1> QED
  BY <1>1, <1>2, <1>3, <1>4, RefreshInterestsGood

LEMMA NewSessionGood ==
    ASSUME NEW routed \in BOOLEAN
    PROVE  Good(NewSession(routed)) /\ Forgotten(NewSession(routed))
           /\ NewSession(routed).state = "ReadingRequest"
<1> DEFINE up == NewBuffer(RequestCapacity)
           down == NewBuffer(AnswerCapacity)
           t == NewSession(routed)
<1>1. /\ up \in Buffers(Bytes) /\ Sane(up) /\ up.max = RequestCapacity
      /\ ReadableView(up) = <<>>
      /\ down \in Buffers(Bytes) /\ Sane(down) /\ down.max = AnswerCapacity
      /\ ReadableView(down) = <<>>
  BY NewProperties, LegacyAssumption
<1>2. <<>> \in Seq(Bytes)
  BY EmptySeq
<1> HIDE DEF up, down
<1>3. /\ t \in Sessions /\ t.state = "ReadingRequest" /\ t.clientFd /\ ~t.upstreamFd
      /\ t.toUpstream = up /\ t.toClient = down /\ t.cleanReuse
      /\ t.requestSent = <<>> /\ t.answerSent = <<>>
  BY <1>1, <1>2 DEF NewSession, Sessions, States, Interests, up, down
<1> HIDE DEF t
<1>4. Shape(t) /\ Descriptors(t) /\ Silent(t) /\ Emptied(t)
  BY <1>1, <1>3 DEF Shape, Descriptors, UpstreamStates, Silent, Emptied
<1>5. Good(t) /\ Forgotten(t)
  BY <1>3, <1>4 DEF Good, Forgotten
<1> QED
  BY <1>3, <1>5 DEF t

LEMMA SettledGood ==
    ASSUME NEW s, Good(s)
    PROVE  Good(Settled(s)) /\ (Settled(s).state = "Closed" => Forgotten(Settled(s)))
<1>1. CASE s.clientFd
  BY <1>1 DEF Settled, Good, Descriptors
<1>2. CASE ~s.clientFd
  <2> DEFINE n == NewSession(s.routed)
             u == CloseUpstream(n)
             c == [u EXCEPT !.state = "Closed", !.clientFd = FALSE]
             t == [c EXCEPT !.cleanReuse = s.cleanReuse]
  <2>1. s \in Sessions /\ s.routed \in BOOLEAN /\ s.cleanReuse = TRUE
    BY DEF Good, Shape, Sessions
  <2>2. Good(n) /\ Forgotten(n) /\ n.state = "ReadingRequest" /\ n \in Sessions
    BY <2>1, NewSessionGood DEF Good, Shape
  <2> HIDE DEF n
  <2>3. CloseSession(n) = c
    BY <2>2 DEF CloseSession
  <2>4. Settled(s) = t
    BY <1>2, <2>3 DEF Settled, n
  <2>5. /\ u \in Sessions /\ ~u.upstreamFd /\ u.toUpstream = n.toUpstream
        /\ u.toClient = n.toClient /\ u.requestSent = n.requestSent
        /\ u.answerSent = n.answerSent
    BY <2>2, CloseUpstreamFields
  <2> HIDE DEF u
  <2>6. /\ t \in Sessions /\ t.state = "Closed" /\ ~t.clientFd /\ ~t.upstreamFd
        /\ t.toUpstream = n.toUpstream /\ t.toClient = n.toClient
        /\ t.requestSent = n.requestSent /\ t.answerSent = n.answerSent /\ t.cleanReuse
    BY <2>1, <2>5 DEF Sessions, States
  <2> HIDE DEF t
  <2>7. Good(t) /\ Forgotten(t)
    BY <2>2, <2>6 DEF Good, Shape, Descriptors, UpstreamStates, Forgotten, Silent, Emptied
  <2> QED
    BY <2>4, <2>7
<1> QED
  BY <1>1, <1>2

--------------------------------------------------------------------------------
(* The theorems *)

LEMMA InvariantHolds == Spec => []LInv
<1>1. Init => LInv
  <2>1. ASSUME NEW routed \in BOOLEAN, session = NewSession(routed)
        PROVE  LInv
    BY <2>1, NewSessionGood DEF LInv
  <2> QED
    BY <2>1 DEF Init
<1>2. LInv /\ [Next]_vars => LInv'
  <2> SUFFICES ASSUME LInv, [Next]_vars PROVE LInv'
    OBVIOUS
  <2>1. ASSUME NEW events \in SUBSET Bits, ClientEvent(events)
        PROVE  LInv'
    <3>1. PICK t \in OnClientEvent(session, events) : session' = Settled(t)
      BY <2>1 DEF ClientEvent
    <3>2. Good(t)
      BY OnClientEventGood DEF LInv
    <3> QED
      BY <3>1, <3>2, SettledGood DEF LInv
  <2>2. ASSUME NEW events \in SUBSET Bits, UpstreamEvent(events)
        PROVE  LInv'
    <3>1. PICK t \in OnUpstreamEvent(session, events) : session' = Settled(t)
      BY <2>2 DEF UpstreamEvent
    <3>2. Good(t)
      BY <2>2, OnUpstreamEventGood DEF LInv, UpstreamEvent
    <3> QED
      BY <3>1, <3>2, SettledGood DEF LInv
  <2>3. CASE UNCHANGED vars
    BY <2>3 DEF LInv, vars
  <2> QED
    BY <2>1, <2>2, <2>3 DEF Next
<1> QED
  BY <1>1, <1>2, PTL DEF Spec

\* Neither buffer ever holds more than its max_size, with the consumed bytes at
\* its front counted, and a descriptor is registered exactly in the states that
\* use it, for any capacities and lengths.
THEOREM TypeCorrect == Spec => []TypeOK
<1>1. LInv => TypeOK
  <2> SUFFICES ASSUME LInv PROVE TypeOK
    OBVIOUS
  <2>1. Shape(session) /\ Descriptors(session)
    BY DEF LInv, Good
  <2> QED
    BY <2>1 DEF TypeOK, Shape, Descriptors, Sane, UpstreamStates
<1> QED
  BY <1>1, InvariantHolds, PTL

\* What has been sent of a message and what is still buffered are together that
\* message, each byte once and in order, whatever the kernel takes at a time; and
\* a connection is used again only after a whole exchange.
THEOREM MessagesWhole == Spec => []WholeMessages
<1>1. LInv => WholeMessages
  <2> SUFFICES ASSUME LInv PROVE WholeMessages
    OBVIOUS
  <2> DEFINE s == session
  <2>1. Good(s) /\ s.cleanReuse /\ (s.state = "Closed" => Forgotten(s))
    BY DEF LInv, Good, Shape
  <2>2. <<>> \o <<>> = <<>>
    BY EmptySeq, ConcatEmptySeq
  <2>3. s.state \in {"ReadingRequest", "Closed"} => Outgoing = <<>>
    BY <2>1, <2>2 DEF Good, Forgotten, Emptied, Outgoing
  <2>4. s.state \in {"ConnectingUpstream", "SendingRequest"} =>
          Outgoing = Text("client", s.requestLength)
    BY <2>1 DEF Good, Carries, Asked, Outgoing
  <2>5. s.state = "ReadingResponse" => s.requestSent = Text("client", s.requestLength)
    BY <2>1 DEF Good, Asked
  <2>6. s.state = "SendingResponse" =>
          \/ Incoming = Text("edge", ErrorLength)
          \/ \E n \in AnswerLengths : Incoming = Text("upstream", n)
                                      /\ s.requestSent = Text("client", s.requestLength)
    BY <2>1 DEF Good, EdgeAnswers, UpstreamAnswers, Asked, Given, Incoming
  <2>7. s.state # "SendingResponse" => Incoming = <<>>
    <3>1. s.state \in States
      BY <2>1 DEF Good, Shape, Sessions
    <3>2. s.state # "SendingResponse" => Silent(s)
      BY <2>1, <3>1 DEF Good, Forgotten, States
    <3> QED
      BY <2>2, <3>2 DEF Silent, Incoming
  <2> QED
    BY <2>1, <2>3, <2>4, <2>5, <2>6, <2>7 DEF WholeMessages
<1> QED
  BY <1>1, InvariantHolds, PTL

--------------------------------------------------------------------------------
(* The promise to the client *)

\* The first byte sent of an answer names its author.
LEMMA FirstByteNamesAuthor ==
    ASSUME NEW s, Good(s), s.answerSent # <<>>, NEW author \in Authors, NEW n \in Nat,
           Given(s) = Text(author, n)
    PROVE  s.answerSent[1][1] = author
<1> DEFINE view == ReadableView(s.toClient)
           text == Text(author, n)
<1>1. s.answerSent \in Seq(Bytes) /\ view \in Seq(Bytes)
  BY ViewProperties DEF Good, Shape, Sessions
<1> HIDE DEF view
<1>2. Len(s.answerSent) \in Nat /\ Len(s.answerSent) # 0 /\ Len(view) \in Nat
  BY <1>1, EmptySeq
<1>3. /\ Len(s.answerSent \o view) = Len(s.answerSent) + Len(view)
      /\ \A i \in 1..(Len(s.answerSent) + Len(view)) :
           (s.answerSent \o view)[i] = IF i <= Len(s.answerSent) THEN s.answerSent[i]
                                       ELSE view[i - Len(s.answerSent)]
  BY <1>1, ConcatProperties
<1>4. 1 \in 1..(Len(s.answerSent) + Len(view)) /\ 1 <= Len(s.answerSent)
  BY <1>2
<1>5. text[1] = s.answerSent[1] /\ Len(text) = Len(s.answerSent) + Len(view)
  BY <1>3, <1>4 DEF Given, view
<1>6. Len(text) = n
  BY TextProperties
<1>7. 1 \in 1..n
  BY <1>4, <1>5, <1>6
<1>8. text[1] = <<author, 1>>
  BY <1>7 DEF Text
<1> QED
  BY <1>5, <1>8

LEMMA AuthorKnown ==
    ASSUME LInv, session.answerSent # <<>>
    PROVE  /\ session.state = "SendingResponse"
           /\ EdgeAnswers(session) => session.answerSent[1][1] = "edge"
           /\ UpstreamAnswers(session) => session.answerSent[1][1] = "upstream"
           /\ EdgeAnswers(session) \/ UpstreamAnswers(session)
<1>1. Good(session) /\ session.state \in States
  BY DEF LInv, Good, Shape, Sessions
<1>2. session.state = "SendingResponse"
  BY <1>1 DEF LInv, Good, Silent, Forgotten, States
<1>3. EdgeAnswers(session) \/ UpstreamAnswers(session)
  BY <1>1, <1>2 DEF Good
<1>4. EdgeAnswers(session) => session.answerSent[1][1] = "edge"
  BY <1>1, LegacyAssumption, FirstByteNamesAuthor DEF EdgeAnswers, Authors
<1>5. UpstreamAnswers(session) => session.answerSent[1][1] = "upstream"
  BY <1>1, LegacyAssumption, FirstByteNamesAuthor DEF UpstreamAnswers, Authors
<1> QED
  BY <1>2, <1>3, <1>4, <1>5

\* The answer of Exchange that a session shows.
Shown == IF session.answerSent = <<>> THEN "none" ELSE session.answerSent[1][1]

\* One callback, as the client sees it.
LEMMA CallbackKeepsPromise ==
    ASSUME LInv, LInv', session.state # "Closed", Follows(session, session'),
           session.state = "ReadingRequest" => Refused(session')
    PROVE  Client!Next \/ (Phase' = Phase /\ Shown' = Shown)
<1>1. /\ session.state \in States /\ session'.state \in States
      /\ session.state = "ReadingRequest" => session.answerSent = <<>>
      /\ session'.state \in {"ReadingRequest", "Closed"} => session'.answerSent = <<>>
  BY DEF LInv, Good, Shape, Sessions, Silent, Forgotten
<1>2. session.answerSent # <<>> =>
        /\ session.state = "SendingResponse" /\ Phase = "Answering"
        /\ \/ EdgeAnswers(session) /\ Shown = "edge"
           \/ UpstreamAnswers(session) /\ Shown = "upstream"
  BY AuthorKnown DEF Phase, Shown
<1>3. session'.answerSent # <<>> =>
        /\ session'.state = "SendingResponse" /\ Phase' = "Answering"
        /\ EdgeAnswers(session') => Shown' = "edge"
        /\ UpstreamAnswers(session') => Shown' = "upstream"
        /\ EdgeAnswers(session') \/ UpstreamAnswers(session')
  <2> SUFFICES ASSUME session'.answerSent # <<>>
               PROVE  /\ session'.state = "SendingResponse" /\ Phase' = "Answering"
                      /\ EdgeAnswers(session') => Shown' = "edge"
                      /\ UpstreamAnswers(session') => Shown' = "upstream"
                      /\ EdgeAnswers(session') \/ UpstreamAnswers(session')
    OBVIOUS
  <2>1. Good(session') /\ session'.state = "SendingResponse"
    BY <1>1 DEF LInv, Good, Silent, States
  <2>2. EdgeAnswers(session') \/ UpstreamAnswers(session')
    BY <2>1 DEF Good
  <2>3. EdgeAnswers(session') => session'.answerSent[1][1] = "edge"
    BY <2>1, LegacyAssumption, FirstByteNamesAuthor DEF EdgeAnswers, Authors
  <2>4. UpstreamAnswers(session') => session'.answerSent[1][1] = "upstream"
    BY <2>1, LegacyAssumption, FirstByteNamesAuthor DEF UpstreamAnswers, Authors
  <2> QED
    BY <2>1, <2>2, <2>3, <2>4 DEF Phase, Shown
<1>4. CASE session'.state = "Closed"
  BY <1>1, <1>4 DEF Client!Next, Client!Close, Phase, Shown
<1>5. CASE session.state = "ReadingRequest"
  <2>1. Phase = "Asking" /\ Shown = "none"
    BY <1>1, <1>5 DEF Phase, Shown
  <2>2. CASE session'.answerSent # <<>>
    <3>1. Phase' = "Answering" /\ Shown' = "edge"
      BY <1>3, <1>5, <2>2 DEF Refused
    <3> QED
      BY <2>1, <3>1 DEF Client!Next, Client!Begin, Shown
  <2>3. CASE session'.answerSent = <<>>
    <3>1. Shown' = "none" /\ Phase' \in {"Asking", "Serving", "Closed"}
      BY <2>3 DEF Phase, Shown
    <3> QED
      BY <2>1, <3>1, <1>4, <2>3 DEF Client!Next, Client!Accept, Phase, Shown
  <2> QED
    BY <2>2, <2>3
<1>6. CASE session.answerSent = <<>> /\ session.state # "ReadingRequest"
  <2>1. Phase = "Serving" /\ Shown = "none"
    BY <1>6 DEF Phase, Shown
  <2>2. CASE session'.answerSent # <<>>
    <3>1. Phase' = "Answering" /\ Shown' \in {"upstream", "edge"}
      BY <1>3, <2>2
    <3> QED
      BY <2>1, <3>1 DEF Client!Next, Client!Begin, Shown
  <2>3. CASE session'.answerSent = <<>>
    <3>1. Shown' = "none" /\ Phase' \in {"Asking", "Serving", "Closed"}
      BY <2>3 DEF Phase, Shown
    <3> QED
      BY <2>1, <3>1, <1>4, <2>3 DEF Client!Next, Client!Reuse, Phase, Shown
  <2> QED
    BY <2>2, <2>3
<1>7. CASE session.answerSent # <<>>
  <2>1. CASE session'.state = "ReadingRequest"
    <3>1. ~EdgeAnswers(session)
      BY <1>2, <1>7, <2>1 DEF Follows
    <3>2. Phase' = "Asking" /\ Shown' = "none"
      BY <1>1, <2>1 DEF Phase, Shown
    <3> QED
      BY <1>2, <1>7, <3>1, <3>2 DEF Client!Next, Client!Reuse, Shown
  <2>2. CASE session'.state = "SendingResponse"
    <3>1. session'.answerSent # <<>>
      BY <1>2, <1>7, <2>2 DEF Follows
    <3>2. Phase' = Phase
      BY <1>2, <1>3, <1>7, <3>1
    <3>3. Shown' = Shown
      BY <1>2, <1>3, <1>7, <2>2, <3>1 DEF Follows
    <3> QED
      BY <3>2, <3>3
  <2> QED
    BY <1>2, <1>4, <1>7, <2>1, <2>2 DEF Follows
<1> QED
  BY <1>5, <1>6, <1>7

\* Settled forgets only what Follows and Refused do not look at.
LEMMA SettledFollows ==
    ASSUME NEW s, NEW t, Good(t), Follows(s, t)
    PROVE  Follows(s, Settled(t)) /\ (Refused(t) => Refused(Settled(t)))
<1>1. CASE t.clientFd
  BY <1>1 DEF Settled
<1>2. CASE ~t.clientFd
  <2>1. Good(Settled(t)) /\ ~Settled(t).clientFd
    <3>1. Good(Settled(t))
      BY SettledGood
    <3>2. Good(NewSession(t.routed)) /\ NewSession(t.routed).state = "ReadingRequest"
      BY NewSessionGood DEF Good, Shape, Sessions
    <3> DEFINE c == CloseSession(NewSession(t.routed))
    <3>3. Good(c) /\ c.state = "Closed"
      BY <3>2, CloseSessionGood DEF Good
    <3>4. c \in Sessions /\ ~c.clientFd /\ t.cleanReuse \in BOOLEAN
      BY <3>3 DEF Good, Shape, Descriptors, Sessions
    <3>5. Settled(t) = [c EXCEPT !.cleanReuse = t.cleanReuse]
      BY <1>2 DEF Settled
    <3> HIDE DEF c
    <3>6. ~Settled(t).clientFd
      BY <3>4, <3>5 DEF Sessions
    <3> QED
      BY <3>1, <3>6
  <2>2. Settled(t).state = "Closed"
    BY <2>1 DEF Good, Descriptors
  <2> QED
    BY <2>2 DEF Follows, Refused
<1> QED
  BY <1>1, <1>2

\* A client is answered one request at a time, with one answer by one author, and
\* nothing follows an answer of EdgeGate's own on its connection.
THEOREM PromiseKept == Spec => KeepsExchange
<1>1. Init => Client!Init
  <2> SUFFICES ASSUME Init PROVE Client!Init
    OBVIOUS
  <2>1. PICK routed \in BOOLEAN : session = NewSession(routed)
    BY DEF Init
  <2>2. session.state = "ReadingRequest" /\ session.answerSent = <<>>
    BY <2>1, NewSessionGood DEF Forgotten, Silent
  <2> QED
    BY <2>2 DEF Client!Init, Phase
<1>2. LInv /\ LInv' /\ [Next]_vars => [Client!Next]_(Client!vars)
  <2> SUFFICES ASSUME LInv, LInv', [Next]_vars
               PROVE  Client!Next \/ (Phase' = Phase /\ Shown' = Shown)
    BY DEF Client!vars, Shown
  <2>1. ASSUME NEW events \in SUBSET Bits, ClientEvent(events)
        PROVE  Client!Next \/ (Phase' = Phase /\ Shown' = Shown)
    <3>1. PICK t \in OnClientEvent(session, events) : session' = Settled(t)
      BY <2>1 DEF ClientEvent
    <3>2. /\ Good(t) /\ Follows(session, t)
          /\ session.state = "ReadingRequest" => Refused(t)
      BY OnClientEventGood DEF LInv
    <3>3. /\ Follows(session, session')
          /\ session.state = "ReadingRequest" => Refused(session')
      BY <3>1, <3>2, SettledFollows
    <3> QED
      BY <2>1, <3>3, CallbackKeepsPromise DEF ClientEvent
  <2>2. ASSUME NEW events \in SUBSET Bits, UpstreamEvent(events)
        PROVE  Client!Next \/ (Phase' = Phase /\ Shown' = Shown)
    <3>1. session.state \in UpstreamStates
      BY <2>2 DEF UpstreamEvent, LInv, Good, Descriptors
    <3>2. Follows(session, session') /\ session.state \notin {"ReadingRequest", "Closed"}
      BY <3>1 DEF UpstreamStates, Follows
    <3> QED
      BY <3>2, CallbackKeepsPromise
  <2>3. CASE UNCHANGED vars
    BY <2>3 DEF vars, Phase, Shown
  <2> QED
    BY <2>1, <2>2, <2>3 DEF Next
<1> QED
  BY <1>1, <1>2, InvariantHolds, PTL DEF Spec, KeepsExchange, Client!Spec
================================================================================
