------------------------- MODULE ReliableSession_proofs ------------------------
(***************************************************************************)
(* Proofs about ReliableSession, for any number of upstreams, any buffer   *)
(* sizes and any lengths of bodies: what holds of a session between two    *)
(* callbacks, and what a callback may make of it.                          *)
(*                                                                         *)
(* A handler calls others in the middle of its work, on sessions that no   *)
(* state between two callbacks shows.  So there is a predicate for each    *)
(* kind of place: Whole holds on every session a failure may be met in,    *)
(* Sound also ties answer, upstream and request to the state and holds of  *)
(* what a member function leaves, Rested adds the masks of the epoll set   *)
(* and holds of what a handler leaves, Quiet of what its batch leaves.     *)
(***************************************************************************)
EXTENDS ReliableSession, FiniteSetTheorems, TLAPS

\* Who made the bytes of the answer that is buffered or already sent.
Origins(s) == s.response.sentFrom \cup s.response.bufferFrom

OneOrigin(s) == \E x \in Sources : Origins(s) \subseteq {x}

\* attempted_upstream_ids_ grows past one upstream only for what may be retried.
AttemptsAllowed(r) ==
    /\ IsFiniteSet(r.attempted)
    /\ Cardinality(r.attempted) >= 2 => r.replayable /\ Cardinality(r.attempted) = 2

\* A complete request has no byte left to read.  One that may be sent again is
\* all head, so its retry needs no more room, and pauses no more, than its first
\* attempt did.
RequestKnown(s) ==
    /\ s.request.bodyComplete => s.request.bodyLeft = 0
    /\ s.request.replayable => /\ s.request.bodyLeft = 0
                               /\ s.stream.toUpstream <= HeadLength
                               /\ s.stream.requestPaused => HeadLength > LowWatermark

\* A closed session has no descriptor.  Only one kind of session goes on without
\* a client: the one its last upstream failure closed and then answers.
DescriptorsKnown(s) ==
    /\ s.state = "Closed" => ~s.stream.clientFd
    /\ ~s.stream.clientFd =>
         /\ ~s.stream.upstreamFd
         /\ s.state = "Closed" \/ (s.state = "DrainingResponse" /\ s.connection.closeAfter)

Whole(s) ==
    /\ s \in Sessions
    /\ OneOrigin(s) /\ AttemptsAllowed(s.request)
    /\ RequestKnown(s) /\ DescriptorsKnown(s)
    /\ s.history.cleanReuse

\* Before the head of a response nothing of an answer is there.
Unanswered == {"ReadingRequestHead", "ConnectingUpstream", "SendingRequest",
               "ReadingResponseHead"}

\* What the state says of the answer,
AnswerFits(s) ==
    /\ s.state \in Unanswered =>
         Origins(s) = {} /\ s.stream.toClient = 0 /\ ~s.stream.responsePaused
    /\ s.state = "StreamingResponse" =>
         /\ Origins(s) = {s.request.selected}
         /\ s.stream.responsePaused => s.stream.toClient > LowWatermark
    /\ s.state = "DrainingResponse" /\ ~s.connection.closeAfter =>
         s.request.bodyComplete /\ AnswerReceived(s)

\* of the upstream connection,
UpstreamFits(s) ==
    /\ s.stream.upstreamFd <=> s.state \in Forwarding
    /\ s.state \in Forwarding => s.request.selected \in s.request.attempted

\* and of the request.
RequestFits(s) ==
    /\ s.state = "ReadingRequestHead" =>
         /\ s.request.attempted = {} /\ ~s.request.bodyComplete /\ s.request.bodyLeft = 0
         /\ s.stream.toUpstream = 0 /\ ~s.stream.requestPaused
         /\ ~s.connection.readClosed
    /\ s.state \in {"ConnectingUpstream", "SendingRequest"} =>
         /\ s.stream.requestPaused => s.stream.toUpstream > LowWatermark
         /\ s.connection.readClosed => s.request.bodyComplete
    /\ s.state = "ConnectingUpstream" => s.stream.toUpstream > 0
    /\ s.state = "SendingRequest" /\ s.request.bodyComplete => s.stream.toUpstream > 0
    /\ s.state \in {"ReadingResponseHead", "StreamingResponse"} =>
         s.request.bodyComplete /\ s.stream.toUpstream = 0

Sound(s) == Whole(s) /\ AnswerFits(s) /\ UpstreamFits(s) /\ RequestFits(s)

\* What the masks of an open session let happen.
Armed(s) ==
    /\ s.state = "ReadingRequestHead" => s.armed.clientIn
    /\ s.state = "ConnectingUpstream" => s.armed.upstreamOut
    /\ s.state = "SendingRequest" =>
         /\ s.stream.toUpstream > 0 => s.armed.upstreamOut
         /\ s.stream.toUpstream = 0 => s.armed.clientIn
    /\ s.state = "ReadingResponseHead" => s.armed.upstreamIn \/ s.armed.upstreamOut
    /\ s.state = "StreamingResponse" =>
         /\ s.stream.responsePaused => s.armed.clientOut
         /\ ~s.stream.responsePaused => s.armed.upstreamIn

Rested(s) == Sound(s) /\ Armed(s)

\* Between two callbacks.
Quiet(s) ==
    /\ Rested(s)
    /\ s.state = "Closed" => Origins(s) = {}
    /\ s.state # "Closed" => s.stream.clientFd

\* Nothing of an upstream's answer is there.
EdgeOnly(s) == Origins(s) \subseteq {NoUpstream}

\* What may become of a session that has sent a part of an answer.
Follows(s, t) ==
    s.response.sentFrom # {} =>
        \/ t.state = "Closed"
        \/ t.state = "ReadingRequestHead" /\ s.response.sentFrom # {NoUpstream}
        \/ t.state # "ReadingRequestHead" /\ t.response.sentFrom = s.response.sentFrom

\* The two sessions differ, outside their streams, in nothing Sound looks at.
Alike(s, t) ==
    /\ t.state = s.state /\ t.request = s.request /\ t.connection = s.connection
    /\ t.response.sentFrom = s.response.sentFrom
    /\ t.response.bufferFrom = s.response.bufferFrom
    /\ t.response.complete = s.response.complete
    /\ t.history.cleanReuse = s.history.cleanReuse

LEMMA WholeKept ==
    ASSUME NEW s, Whole(s), NEW t \in Sessions, Alike(s, t), t.stream = s.stream
    PROVE  Whole(t)
  BY DEF Whole, Alike, OneOrigin, Origins, RequestKnown, DescriptorsKnown

LEMMA SoundKept ==
    ASSUME NEW s, Sound(s), NEW t \in Sessions, Alike(s, t), t.stream = s.stream
    PROVE  Sound(t)
<1>1. Whole(t)
  BY WholeKept DEF Sound
<1>2. AnswerFits(t)
  BY DEF Sound, AnswerFits, AnswerReceived, Alike, Origins
<1>3. UpstreamFits(t) /\ RequestFits(t)
  BY DEF Sound, UpstreamFits, RequestFits, Alike
<1> QED BY <1>1, <1>2, <1>3 DEF Sound

\* Behind the answer of EdgeGate's own, or the end of the session, Whole is all
\* there is to say.
LEMMA SoundAtEnd ==
    ASSUME NEW s, Whole(s), ~s.stream.upstreamFd,
           s.state = "Closed" \/ (s.state = "DrainingResponse" /\ s.connection.closeAfter)
    PROVE  Sound(s)
  BY DEF Sound, AnswerFits, UpstreamFits, RequestFits, Unanswered, Forwarding

\* A failure is met while the client is there; there is no other way to have an
\* upstream.
LEMMA ForwardingIsOpen ==
    ASSUME NEW s, Sound(s), s.state \in Forwarding
    PROVE  s.stream.clientFd /\ s.state # "Closed"
  BY DEF Sound, Whole, UpstreamFits, DescriptorsKnown, Forwarding

--------------------------------------------------------------------------------
(* Leaf operations *)

LEMMA PausedType ==
    ASSUME NEW was \in BOOLEAN, NEW size \in Nat
    PROVE  /\ Paused(was, size) \in BOOLEAN
           /\ Paused(was, size) => size > LowWatermark
<1>1. was => Paused(was, size) = (size > LowWatermark)
  BY DEF Paused
<1>2. ~was => Paused(was, size) = (size >= HighWatermark)
  BY DEF Paused
<1>3. /\ (size > LowWatermark) \in BOOLEAN /\ (size >= HighWatermark) \in BOOLEAN
      /\ size >= HighWatermark => size > LowWatermark
  BY ConfigAssumption
<1> QED BY <1>1, <1>2, <1>3, Zenon

LEMMA RequestBackpressure ==
    ASSUME NEW s \in Sessions, NEW r, r = UpdateRequestBackpressure(s)
    PROVE  /\ r \in Sessions /\ Alike(s, r) /\ r.response = s.response /\ r.armed = s.armed
           /\ r.stream.clientFd = s.stream.clientFd
           /\ r.stream.upstreamFd = s.stream.upstreamFd
           /\ r.stream.toUpstream = s.stream.toUpstream
           /\ r.stream.toClient = s.stream.toClient
           /\ r.stream.responsePaused = s.stream.responsePaused
           /\ r.stream.requestPaused => s.stream.toUpstream > LowWatermark
<1> DEFINE p == Paused(s.stream.requestPaused, s.stream.toUpstream)
<1>1. p \in BOOLEAN /\ (p => s.stream.toUpstream > LowWatermark)
  BY PausedType, ConfigAssumption DEF Sessions, Streams
<1>2. r = [s EXCEPT !.stream.requestPaused = p]
  BY DEF UpdateRequestBackpressure
<1> HIDE DEF p
<1> QED BY <1>1, <1>2 DEF Sessions, Streams, Alike

LEMMA ResponseBackpressure ==
    ASSUME NEW s \in Sessions, NEW r, r = UpdateResponseBackpressure(s)
    PROVE  /\ r \in Sessions /\ Alike(s, r) /\ r.response = s.response /\ r.armed = s.armed
           /\ r.stream.clientFd = s.stream.clientFd
           /\ r.stream.upstreamFd = s.stream.upstreamFd
           /\ r.stream.toUpstream = s.stream.toUpstream
           /\ r.stream.toClient = s.stream.toClient
           /\ r.stream.requestPaused = s.stream.requestPaused
           /\ r.stream.responsePaused => s.stream.toClient > LowWatermark
<1> DEFINE p == Paused(s.stream.responsePaused, s.stream.toClient)
<1>1. p \in BOOLEAN /\ (p => s.stream.toClient > LowWatermark)
  BY PausedType, ConfigAssumption DEF Sessions, Streams
<1>2. r = [s EXCEPT !.stream.responsePaused = p]
  BY DEF UpdateResponseBackpressure
<1> HIDE DEF p
<1> QED BY <1>1, <1>2 DEF Sessions, Streams, Alike

LEMMA UpstreamClosed ==
    ASSUME NEW s \in Sessions, NEW u, u = CloseUpstream(s)
    PROVE  /\ u \in Sessions /\ Alike(s, u) /\ u.response = s.response
           /\ u.stream.clientFd = s.stream.clientFd
           /\ ~u.stream.upstreamFd
           /\ u.stream.toUpstream = s.stream.toUpstream
           /\ u.stream.toClient = s.stream.toClient
           /\ u.stream.requestPaused = s.stream.requestPaused
           /\ u.stream.responsePaused = s.stream.responsePaused
  BY DEF CloseUpstream, Sessions, Streams, Interests, Alike

LEMMA SessionClosed ==
    ASSUME NEW s \in Sessions, NEW c, c = CloseSession(s)
    PROVE  /\ c \in Sessions /\ c.state = "Closed"
           /\ c.request = s.request /\ c.connection = s.connection
           /\ c.response = s.response /\ c.history = s.history
           /\ c.stream.toUpstream = s.stream.toUpstream
           /\ c.stream.requestPaused = s.stream.requestPaused
           /\ s.state = "Closed" => c = s
           /\ s.state # "Closed" => ~c.stream.clientFd /\ ~c.stream.upstreamFd
<1> DEFINE u == CloseUpstream(s)
           t == [u EXCEPT !.state = "Closed", !.stream.clientFd = FALSE,
                          !.armed.clientIn = FALSE, !.armed.clientOut = FALSE]
<1>1. /\ u \in Sessions /\ ~u.stream.upstreamFd
      /\ u.request = s.request /\ u.connection = s.connection
      /\ u.response = s.response /\ u.history = s.history
      /\ u.stream.toUpstream = s.stream.toUpstream
      /\ u.stream.requestPaused = s.stream.requestPaused
  <2>1. u.history = s.history
    BY DEF CloseUpstream, Sessions
  <2> HIDE DEF u
  <2> QED BY <2>1, UpstreamClosed DEF Alike, u
<1>2. c = IF s.state = "Closed" THEN s ELSE t
  BY DEF CloseSession
<1> HIDE DEF u
<1>3. /\ t.stream \in Streams /\ t.armed \in Interests
      /\ ~t.stream.clientFd /\ ~t.stream.upstreamFd
      /\ t.stream.toUpstream = u.stream.toUpstream
      /\ t.stream.requestPaused = u.stream.requestPaused
  BY <1>1 DEF Sessions, Streams, Interests
<1>4. /\ t \in Sessions /\ t.state = "Closed" /\ t.request = u.request
      /\ t.response = u.response /\ t.connection = u.connection /\ t.history = u.history
  BY <1>1, <1>3 DEF Sessions, States
<1> HIDE DEF t
<1> QED BY <1>1, <1>2, <1>3, <1>4

LEMMA ClosedIsSound ==
    ASSUME NEW s, Whole(s)
    PROVE  /\ Rested(CloseSession(s)) /\ CloseSession(s).state = "Closed"
           /\ CloseSession(s).response = s.response
<1> DEFINE c == CloseSession(s)
<1>1. s \in Sessions
  BY DEF Whole
<1>2. /\ c \in Sessions /\ c.state = "Closed"
      /\ c.request = s.request /\ c.connection = s.connection
      /\ c.response = s.response /\ c.history = s.history
      /\ c.stream.toUpstream = s.stream.toUpstream
      /\ c.stream.requestPaused = s.stream.requestPaused
      /\ s.state = "Closed" => c = s
      /\ s.state # "Closed" => ~c.stream.clientFd /\ ~c.stream.upstreamFd
  BY <1>1, SessionClosed
<1> HIDE DEF c
<1>3. ~c.stream.clientFd /\ ~c.stream.upstreamFd
  BY <1>2 DEF Whole, DescriptorsKnown
<1>4. Whole(c)
  BY <1>2, <1>3 DEF Whole, OneOrigin, Origins, RequestKnown, DescriptorsKnown
<1>5. Sound(c)
  BY <1>2, <1>3, <1>4, SoundAtEnd
<1>6. Armed(c)
  BY <1>2 DEF Armed
<1> QED BY <1>2, <1>5, <1>6 DEF Rested, c

LEMMA InterestsType ==
    ASSUME NEW s \in Sessions
    PROVE  /\ WantedInterests(s) \in Interests
           /\ ClientWantsInput(s) => WantedInterests(s).clientIn
           /\ s.stream.toClient > 0 => WantedInterests(s).clientOut
           /\ s.stream.upstreamFd /\ UpstreamWantsInput(s) => WantedInterests(s).upstreamIn
           /\ s.stream.upstreamFd /\ UpstreamWantsOutput(s) => WantedInterests(s).upstreamOut
<1>1. ClientWantsInput(s) \in BOOLEAN
  BY DEF ClientWantsInput
<1>2. (s.stream.toClient > 0) \in BOOLEAN
  OBVIOUS
<1>3. (s.stream.upstreamFd /\ UpstreamWantsInput(s)) \in BOOLEAN
  OBVIOUS
<1>4. (s.stream.upstreamFd /\ UpstreamWantsOutput(s)) \in BOOLEAN
  OBVIOUS
<1> DEFINE a == ClientWantsInput(s)
           b == s.stream.toClient > 0
           c == s.stream.upstreamFd /\ UpstreamWantsInput(s)
           d == s.stream.upstreamFd /\ UpstreamWantsOutput(s)
<1>5. WantedInterests(s) = [clientIn |-> a, clientOut |-> b, upstreamIn |-> c, upstreamOut |-> d]
  BY Zenon DEF WantedInterests
<1>6. a \in BOOLEAN /\ b \in BOOLEAN /\ c \in BOOLEAN /\ d \in BOOLEAN
  BY <1>1, <1>2, <1>3, <1>4
<1> HIDE DEF a, b, c, d
<1>7. /\ WantedInterests(s) \in Interests
      /\ WantedInterests(s).clientIn = a /\ WantedInterests(s).clientOut = b
      /\ WantedInterests(s).upstreamIn = c /\ WantedInterests(s).upstreamOut = d
  BY <1>5, <1>6 DEF Interests
<1> QED BY <1>7, Zenon DEF a, b, c, d

\* The masks of a sound session let its exchange go on, in each state.
LEMMA Refreshed ==
    ASSUME NEW s, Sound(s)
    PROVE  /\ Rested(RefreshInterests(s))
           /\ RefreshInterests(s).response = s.response
           /\ RefreshInterests(s).state \in {s.state, "Closed"}
           /\ RefreshInterests(s).state # "Closed" => RefreshInterests(s).stream.clientFd
           /\ s.stream.clientFd => /\ RefreshInterests(s).state = s.state
                                   /\ RefreshInterests(s).request = s.request
<1>1. s \in Sessions /\ Whole(s)
  BY DEF Sound, Whole
<1>2. CASE s.state = "Closed"
  <2>1. Armed(s) /\ ~s.stream.clientFd
    BY <1>1, <1>2 DEF Armed, Whole, DescriptorsKnown
  <2> QED BY <1>2, <2>1 DEF RefreshInterests, Rested
<1>3. CASE s.state # "Closed" /\ ~s.stream.clientFd
  <2>1. RefreshInterests(s) = CloseSession(s)
    BY <1>3 DEF RefreshInterests
  <2> QED BY <1>1, <1>3, <2>1, ClosedIsSound
<1>4. CASE s.state # "Closed" /\ s.stream.clientFd
  <2> DEFINE w == WantedInterests(s)
             t == [s EXCEPT !.armed = w]
  <2>1. /\ w \in Interests
        /\ ClientWantsInput(s) => w.clientIn
        /\ s.stream.toClient > 0 => w.clientOut
        /\ s.stream.upstreamFd /\ UpstreamWantsInput(s) => w.upstreamIn
        /\ s.stream.upstreamFd /\ UpstreamWantsOutput(s) => w.upstreamOut
    BY <1>1, InterestsType
  <2>2. RefreshInterests(s) = t
    BY <1>4 DEF RefreshInterests
  <2> HIDE DEF w
  <2>3. /\ t \in Sessions /\ Alike(s, t) /\ t.stream = s.stream /\ t.armed = w
        /\ t.response = s.response
    BY <1>1, <2>1 DEF Sessions, Alike
  <2> HIDE DEF t
  <2>4. Sound(t)
    BY <2>3, SoundKept
  <2>5. s.stream.toUpstream \in Nat /\ s.stream.toClient \in Nat
    BY <1>1, ConfigAssumption DEF Sessions, Streams
  <2>6. ASSUME s.state = "ReadingRequestHead"
        PROVE  Armed(t)
    <3>1. ClientWantsInput(s)
      BY <2>6 DEF Sound, RequestFits, ClientWantsInput
    <3> QED BY <2>1, <2>3, <2>6, <3>1 DEF Armed, Alike
  <2>7. ASSUME s.state = "ConnectingUpstream"
        PROVE  Armed(t)
    <3>1. s.stream.upstreamFd /\ UpstreamWantsOutput(s)
      BY <2>7 DEF Sound, UpstreamFits, Forwarding, UpstreamWantsOutput
    <3> QED BY <2>1, <2>3, <2>7, <3>1 DEF Armed, Alike
  <2>8. ASSUME s.state = "SendingRequest"
        PROVE  Armed(t)
    <3>1. s.stream.upstreamFd
      BY <2>8 DEF Sound, UpstreamFits, Forwarding
    <3>2. s.stream.toUpstream > 0 => UpstreamWantsOutput(s)
      BY DEF UpstreamWantsOutput
    <3>3. ~(s.stream.toUpstream > 0) => ClientWantsInput(s)
      BY <2>5, <2>8, ConfigAssumption DEF Sound, RequestFits, ClientWantsInput
    <3> QED BY <2>1, <2>3, <2>8, <3>1, <3>2, <3>3 DEF Armed, Alike
  <2>9. ASSUME s.state \in {"ReadingResponseHead", "StreamingResponse"}
        PROVE  Armed(t)
    <3>1. s.stream.upstreamFd
      BY <2>9 DEF Sound, UpstreamFits, Forwarding
    <3>2. ~s.stream.responsePaused => UpstreamWantsInput(s)
      BY <2>9 DEF UpstreamWantsInput
    <3>3. s.state = "ReadingResponseHead" => ~s.stream.responsePaused
      BY DEF Sound, AnswerFits, Unanswered
    <3>4. s.state = "StreamingResponse" /\ s.stream.responsePaused => s.stream.toClient > 0
      BY <2>5, ConfigAssumption DEF Sound, AnswerFits
    <3> QED BY <2>1, <2>3, <2>9, <3>1, <3>2, <3>3, <3>4 DEF Armed, Alike
  <2>10. ASSUME s.state = "DrainingResponse"
        PROVE  Armed(t)
    BY <2>3, <2>10 DEF Armed, Alike
  <2>11. Armed(t)
    BY <1>1, <1>4, <2>6, <2>7, <2>8, <2>9, <2>10 DEF Sessions, States
  <2> QED BY <1>4, <2>2, <2>3, <2>4, <2>11 DEF Rested, Alike
<1> QED BY <1>2, <1>3, <1>4

--------------------------------------------------------------------------------
(* Answering the client *)

\* Handing bytes to the kernel changes neither whose they are nor the state.
LEMMA SentToClient ==
    ASSUME NEW s \in Sessions, NEW n \in 0..Capacity, n <= s.stream.toClient,
           NEW t, t = SendToClient(s, n)
    PROVE  /\ t \in Sessions
           /\ t.state = s.state /\ t.request = s.request /\ t.connection = s.connection
           /\ t.history.cleanReuse = s.history.cleanReuse
           /\ t.response.complete = s.response.complete
           /\ Origins(t) = Origins(s)
           /\ t.response.sentFrom \in {s.response.sentFrom, Origins(s)}
           /\ t.stream.clientFd = s.stream.clientFd
           /\ t.stream.upstreamFd = s.stream.upstreamFd
           /\ t.stream.toUpstream = s.stream.toUpstream
           /\ t.stream.requestPaused = s.stream.requestPaused
           /\ t.stream.toClient = s.stream.toClient - n
           /\ n = 0 => t = s
           /\ n # 0 /\ t.stream.responsePaused => t.stream.toClient > LowWatermark
<1> DEFINE from == s.response.sentFrom \cup s.response.bufferFrom
           left == IF n = s.stream.toClient THEN {} ELSE s.response.bufferFrom
           size == s.stream.toClient - n
           r == [s EXCEPT !.stream.toClient = size, !.response.sentFrom = from,
                          !.response.bufferFrom = left, !.due["idle"] = FALSE]
<1>1. /\ from \in SUBSET Sources /\ left \in SUBSET Sources
      /\ from \cup left = Origins(s) /\ from = Origins(s)
  BY DEF Sessions, Responses, Origins
<1>2. size \in 0..Capacity /\ (n = 0 => size = s.stream.toClient)
  BY ConfigAssumption DEF Sessions, Streams
<1>3. t = IF n = 0 THEN s ELSE UpdateResponseBackpressure(r)
  BY DEF SendToClient
<1> HIDE DEF from, left, size
<1>4. /\ r.stream \in Streams
      /\ r.stream.clientFd = s.stream.clientFd
      /\ r.stream.upstreamFd = s.stream.upstreamFd
      /\ r.stream.toUpstream = s.stream.toUpstream
      /\ r.stream.requestPaused = s.stream.requestPaused
      /\ r.stream.toClient = size
  BY <1>2 DEF Sessions, Streams
<1>5. /\ r.response \in Responses /\ r.response.sentFrom = from /\ r.response.bufferFrom = left
      /\ r.response.complete = s.response.complete
  BY <1>1 DEF Sessions, Responses
<1>6. /\ r \in Sessions
      /\ r.state = s.state /\ r.request = s.request /\ r.connection = s.connection
      /\ r.history = s.history
  BY <1>4, <1>5 DEF Sessions, Deadlines
<1> HIDE DEF r
<1>7. CASE n = 0
  BY <1>2, <1>3, <1>7 DEF size
<1>8. CASE n # 0
  <2>1. t = UpdateResponseBackpressure(r)
    BY <1>3, <1>8
  <2>2. /\ t \in Sessions /\ Alike(r, t) /\ t.response = r.response
        /\ t.stream.clientFd = r.stream.clientFd
        /\ t.stream.upstreamFd = r.stream.upstreamFd
        /\ t.stream.toUpstream = r.stream.toUpstream
        /\ t.stream.toClient = r.stream.toClient
        /\ t.stream.requestPaused = r.stream.requestPaused
        /\ t.stream.responsePaused => r.stream.toClient > LowWatermark
    BY <1>6, <2>1, ResponseBackpressure
  <2>3. Origins(t) = Origins(s)
    BY <1>1, <1>5, <2>2 DEF Origins
  <2> QED BY <1>1, <1>4, <1>5, <1>6, <1>8, <2>2, <2>3 DEF Alike, size
<1> QED BY <1>7, <1>8

LEMMA SendingIsSound ==
    ASSUME NEW s, Sound(s), NEW n \in 0..Capacity, n <= s.stream.toClient,
           NEW t, t = SendToClient(s, n)
    PROVE  Sound(t)
<1>1. s \in Sessions /\ s.stream.toClient \in 0..Capacity
  BY DEF Sound, Whole, Sessions, Streams
<1>2. /\ t \in Sessions
      /\ t.state = s.state /\ t.request = s.request /\ t.connection = s.connection
      /\ t.history.cleanReuse = s.history.cleanReuse
      /\ t.response.complete = s.response.complete
      /\ Origins(t) = Origins(s)
      /\ t.stream.clientFd = s.stream.clientFd
      /\ t.stream.upstreamFd = s.stream.upstreamFd
      /\ t.stream.toUpstream = s.stream.toUpstream
      /\ t.stream.requestPaused = s.stream.requestPaused
      /\ n = 0 => t = s
      /\ n # 0 /\ t.stream.responsePaused => t.stream.toClient > LowWatermark
  BY <1>1, SentToClient
<1>3. CASE n = 0
  BY <1>2, <1>3
<1>4. CASE n # 0
  <2>1. Whole(t)
    BY <1>2 DEF Sound, Whole, OneOrigin, RequestKnown, DescriptorsKnown
  <2>2. s.state \notin Unanswered
    BY <1>1, <1>4, ConfigAssumption DEF Sound, AnswerFits
  <2>3. AnswerReceived(s) => AnswerReceived(t)
    BY <1>2 DEF AnswerReceived, Origins
  <2>4. AnswerFits(t)
    BY <1>2, <1>4, <2>2, <2>3 DEF Sound, AnswerFits
  <2>5. UpstreamFits(t) /\ RequestFits(t)
    BY <1>2 DEF Sound, UpstreamFits, RequestFits
  <2> QED BY <2>1, <2>4, <2>5 DEF Sound
<1> QED BY <1>3, <1>4

\* Behind a whole exchange nothing of it is left, and it was a whole one.
LEMMA Reset ==
    ASSUME NEW s, Sound(s), s.state = "DrainingResponse", ~s.connection.closeAfter,
           ~s.connection.readClosed, s.stream.toClient = 0,
           NEW r, r = ResetForKeepAlive(s)
    PROVE  Sound(r) /\ r.state = "ReadingRequestHead"
<1> DEFINE clean == /\ s.history.cleanReuse
                    /\ s.request.bodyComplete
                    /\ AnswerReceived(s)
                    /\ s.stream.toClient = 0
           response == [mode |-> s.response.mode, bodyLeft |-> 0, complete |-> FALSE,
                        bufferFrom |-> {}, sentFrom |-> {}]
           stream == [s.stream EXCEPT !.toUpstream = 0, !.requestPaused = FALSE,
                                      !.responsePaused = FALSE]
           due == [d \in Deadlines |-> FALSE]
           t == [s EXCEPT !.state = "ReadingRequestHead",
                          !.request = NoRequest,
                          !.response = response,
                          !.stream = stream,
                          !.connection.closeAfter = FALSE,
                          !.due = due,
                          !.history.misblamed = FALSE,
                          !.history.cleanReuse = clean]
<1>0. s \in Sessions
  BY DEF Sound, Whole
<1>1. clean \in BOOLEAN /\ clean
  BY DEF Sound, Whole, AnswerFits
<1>2. r = t
  BY DEF ResetForKeepAlive
<1> HIDE DEF clean
<1>3. response \in Responses /\ response.sentFrom = {} /\ response.bufferFrom = {}
  BY <1>0, ConfigAssumption DEF Sessions, Responses
<1>4. /\ stream \in Streams
      /\ stream.clientFd = s.stream.clientFd /\ stream.upstreamFd = s.stream.upstreamFd
      /\ stream.toClient = 0 /\ stream.toUpstream = 0
      /\ ~stream.requestPaused /\ ~stream.responsePaused
  <2>1. s.stream \in Streams /\ 0 \in 0..Capacity
    BY <1>0, ConfigAssumption DEF Sessions
  <2> QED BY <2>1 DEF Streams
<1>5. due \in [Deadlines -> BOOLEAN]
  OBVIOUS
<1>6. /\ NoRequest \in Requests /\ NoRequest.attempted = {} /\ ~NoRequest.bodyComplete
      /\ NoRequest.bodyLeft = 0 /\ ~NoRequest.replayable
  BY ConfigAssumption DEF NoRequest, Requests, Sources
<1> HIDE DEF response, stream, due
<1>7. /\ t.connection \in Connections /\ ~t.connection.readClosed
      /\ t.history \in Histories /\ t.history.cleanReuse
  BY <1>0, <1>1 DEF Sessions, Connections, Histories
<1>8. /\ t \in Sessions
      /\ t.state = "ReadingRequestHead"
      /\ t.request = NoRequest
      /\ t.response = response
      /\ t.stream = stream
  BY <1>0, <1>3, <1>4, <1>5, <1>6, <1>7 DEF Sessions, States
<1> HIDE DEF t
<1>9. Origins(t) = {} /\ NoUpstream \in Sources
  BY <1>3, <1>8 DEF Origins, Sources
<1>10. AttemptsAllowed(t.request)
  BY <1>6, <1>8, FS_EmptySet DEF AttemptsAllowed
<1>11. s.stream.clientFd /\ ~s.stream.upstreamFd
  BY DEF Sound, Whole, DescriptorsKnown, UpstreamFits, Forwarding
<1>12. Whole(t)
  BY <1>4, <1>6, <1>7, <1>8, <1>9, <1>10, <1>11
     DEF Whole, OneOrigin, RequestKnown, DescriptorsKnown
<1>13. AnswerFits(t) /\ UpstreamFits(t) /\ RequestFits(t)
  BY <1>4, <1>6, <1>7, <1>8, <1>9, <1>11 DEF AnswerFits, UpstreamFits, RequestFits, Forwarding
<1> QED BY <1>2, <1>8, <1>12, <1>13 DEF Sound

\* An answer of EdgeGate's own, or of an upstream that was not heard to its end,
\* is not followed by another request.
LEMMA EmptyClientBuffer ==
    ASSUME NEW s, Sound(s), s.stream.toClient = 0, NEW r, r = ClientBufferEmpty(s)
    PROVE  /\ Sound(r)
           /\ \/ r = s
              \/ r.state = "Closed" /\ r.response = s.response
              \/ /\ r.state = "ReadingRequestHead"
                 /\ s.state = "DrainingResponse" /\ ~s.connection.closeAfter
<1>1. s \in Sessions /\ Whole(s)
  BY DEF Sound, Whole
<1> QED BY <1>1, Reset, ClosedIsSound DEF ClientBufferEmpty, Rested

LEMMA ClientWritten ==
    ASSUME NEW s, Sound(s), NEW t \in WriteClient(s)
    PROVE  /\ Sound(t)
           /\ Follows(s, t)
           /\ EdgeOnly(s) => EdgeOnly(t)
           /\ t.state \in {s.state, "Closed"} \/ ~s.connection.closeAfter
<1>1. s \in Sessions /\ s.stream.toClient \in 0..Capacity
  BY DEF Sound, Whole, Sessions, Streams
<1>2. PICK n \in 0..Capacity :
        /\ n <= s.stream.toClient
        /\ \/ n = s.stream.toClient /\ t = ClientBufferEmpty(SendToClient(s, n))
           \/ t = SendToClient(s, n)
           \/ t = CloseSession(SendToClient(s, n))
  <2>1. CASE t = ClientBufferEmpty(SendToClient(s, s.stream.toClient))
    BY <1>1, <2>1, ConfigAssumption
  <2>2. ASSUME NEW n \in 0..Capacity, n < s.stream.toClient,
               t = SendToClient(s, n) \/ t = CloseSession(SendToClient(s, n))
        PROVE  n <= s.stream.toClient
    BY <1>1, <2>2, ConfigAssumption
  <2>3. \/ t = ClientBufferEmpty(SendToClient(s, s.stream.toClient))
        \/ \E n \in 0..Capacity :
             /\ n < s.stream.toClient
             /\ t = SendToClient(s, n) \/ t = CloseSession(SendToClient(s, n))
    BY DEF WriteClient
  <2> QED BY <1>1, <2>1, <2>2, <2>3
<1> DEFINE u == SendToClient(s, n)
<1>3. /\ u.state = s.state /\ u.connection = s.connection
      /\ u.request = s.request /\ u.response.complete = s.response.complete
      /\ Origins(u) = Origins(s)
      /\ u.response.sentFrom \in {s.response.sentFrom, Origins(s)}
      /\ u.stream.toClient = s.stream.toClient - n
  BY <1>1, <1>2, SentToClient
<1>4. Sound(u)
  BY <1>2, SendingIsSound
<1> HIDE DEF u
<1>5. s.response.sentFrom # {} =>
        /\ u.state # "ReadingRequestHead"
        /\ u.response.sentFrom = s.response.sentFrom
        /\ ~s.connection.closeAfter /\ u.state = "DrainingResponse" =>
             s.response.sentFrom # {NoUpstream}
  <2> SUFFICES ASSUME s.response.sentFrom # {}
               PROVE  /\ u.state # "ReadingRequestHead"
                      /\ u.response.sentFrom = s.response.sentFrom
                      /\ ~s.connection.closeAfter /\ u.state = "DrainingResponse" =>
                           s.response.sentFrom # {NoUpstream}
    OBVIOUS
  <2>1. PICK x \in Sources : Origins(s) \subseteq {x}
    BY DEF Sound, Whole, OneOrigin
  <2>2. s.response.sentFrom = {x} /\ Origins(s) = {x}
    BY <2>1 DEF Origins
  <2>3. u.state # "ReadingRequestHead"
    BY <1>3, <2>2 DEF Sound, AnswerFits, Unanswered
  <2>4. ASSUME ~s.connection.closeAfter, u.state = "DrainingResponse"
        PROVE  s.response.sentFrom # {NoUpstream}
    <3>1. AnswerReceived(s)
      BY <1>3, <2>4 DEF Sound, AnswerFits
    <3> QED BY <2>2, <3>1, ConfigAssumption DEF AnswerReceived, Origins
  <2> QED BY <1>3, <2>2, <2>3, <2>4
<1>6. CASE t = u
  BY <1>3, <1>4, <1>5, <1>6 DEF Follows, EdgeOnly
<1>7. CASE t = CloseSession(u)
  <2>1. /\ Sound(t) /\ t.state = "Closed" /\ t.response = u.response
    BY <1>4, <1>7, ClosedIsSound DEF Sound, Rested
  <2> QED BY <1>3, <2>1 DEF Follows, EdgeOnly, Origins
<1>8. CASE n = s.stream.toClient /\ t = ClientBufferEmpty(u)
  <2>1. u.stream.toClient = 0
    BY <1>1, <1>3, <1>8, ConfigAssumption
  <2>2. /\ Sound(t)
        /\ \/ t = u
           \/ t.state = "Closed" /\ t.response = u.response
           \/ /\ t.state = "ReadingRequestHead"
              /\ u.state = "DrainingResponse" /\ ~u.connection.closeAfter
    BY <1>4, <1>8, <2>1, EmptyClientBuffer
  <2>3. CASE t = u
    BY <1>6, <2>3
  <2>4. CASE t.state = "Closed" /\ t.response = u.response
    BY <1>3, <2>2, <2>4 DEF Follows, EdgeOnly, Origins
  <2>5. CASE /\ t.state = "ReadingRequestHead"
             /\ u.state = "DrainingResponse" /\ ~u.connection.closeAfter
    <3>1. Origins(t) = {}
      BY <2>2, <2>5 DEF Sound, AnswerFits, Unanswered
    <3> QED BY <1>3, <1>5, <2>2, <2>5, <3>1 DEF Follows, EdgeOnly
  <2> QED BY <2>2, <2>3, <2>4, <2>5
<1> QED BY <1>2, <1>6, <1>7, <1>8 DEF u

\* EdgeGate's own answer is the only one only if nothing else was sent.
LEMMA ErrorIsSound ==
    ASSUME NEW s, Whole(s), s.response.sentFrom = {}, NEW t \in QueueError(s)
    PROVE  Sound(t) /\ EdgeOnly(t) /\ t.state \in {"DrainingResponse", "Closed"}
<1> DEFINE u == CloseUpstream(s)
           e == [u EXCEPT !.state = "DrainingResponse",
                          !.stream.toUpstream = 0, !.stream.toClient = ErrorLength,
                          !.response.bufferFrom = {NoUpstream},
                          !.response.complete = TRUE,
                          !.connection.closeAfter = TRUE]
<1>1. /\ s \in Sessions /\ u \in Sessions /\ Alike(s, u) /\ u.response = s.response
      /\ ~u.stream.upstreamFd
      /\ u.stream.requestPaused = s.stream.requestPaused
  BY UpstreamClosed DEF Whole
<1>2. ErrorQueued(s) = e
  BY DEF ErrorQueued
<1> HIDE DEF u
<1>3. /\ e.stream \in Streams /\ ~e.stream.upstreamFd /\ e.stream.toUpstream = 0
      /\ e.stream.requestPaused = s.stream.requestPaused
  <2>1. u.stream \in Streams /\ 0 \in 0..Capacity /\ ErrorLength \in 0..Capacity
    BY <1>1, ConfigAssumption DEF Sessions
  <2> QED BY <1>1, <2>1 DEF Streams, Sessions
<1>4. e.response \in Responses /\ e.response.bufferFrom = {NoUpstream} /\ e.response.sentFrom = {}
  BY <1>1 DEF Sessions, Responses, Sources
<1>5. e.connection \in Connections /\ e.connection.closeAfter
  BY <1>1 DEF Sessions, Connections
<1>6. /\ e \in Sessions /\ e.state = "DrainingResponse" /\ e.request = s.request
      /\ e.history.cleanReuse = s.history.cleanReuse
  BY <1>1, <1>3, <1>4, <1>5 DEF Sessions, States, Alike
<1> HIDE DEF e
<1>7. OneOrigin(e) /\ EdgeOnly(e)
  BY <1>4 DEF OneOrigin, EdgeOnly, Origins, Sources
<1>8. RequestKnown(e)
  BY <1>3, <1>6, ConfigAssumption DEF Whole, RequestKnown
<1>9. Whole(e)
  BY <1>3, <1>5, <1>6, <1>7, <1>8 DEF Whole, DescriptorsKnown
<1>10. Sound(e)
  BY <1>3, <1>5, <1>6, <1>9, SoundAtEnd
<1>11. t \in WriteClient(e)
  BY <1>2 DEF QueueError
<1> QED BY <1>5, <1>6, <1>7, <1>10, <1>11, ClientWritten

\* A whole answer is only completed behind a whole request.
LEMMA Completed ==
    ASSUME NEW s, Sound(s), s.state = "StreamingResponse", NEW t \in CompleteResponse(s)
    PROVE  Sound(t) /\ Follows(s, t)
<1> DEFINE u == CloseUpstream(s)
           e == [u EXCEPT !.state = "DrainingResponse",
                          !.response.complete = TRUE,
                          !.connection.completedOne = TRUE]
<1>1. /\ s \in Sessions /\ u \in Sessions /\ Alike(s, u) /\ u.response = s.response
      /\ u.stream.clientFd = s.stream.clientFd
      /\ ~u.stream.upstreamFd
      /\ u.stream.toUpstream = s.stream.toUpstream
      /\ u.stream.requestPaused = s.stream.requestPaused
  BY UpstreamClosed DEF Whole, Sound
<1>2. ResponseCompleted(s) = e
  BY DEF ResponseCompleted
<1> HIDE DEF u
<1>3. /\ e.response \in Responses
      /\ e.response.sentFrom = s.response.sentFrom
      /\ e.response.bufferFrom = s.response.bufferFrom
      /\ e.response.complete
  BY <1>1 DEF Sessions, Responses
<1>4. e.connection \in Connections /\ e.connection.closeAfter = s.connection.closeAfter
  BY <1>1 DEF Sessions, Connections, Alike
<1>5. /\ e \in Sessions /\ e.state = "DrainingResponse" /\ e.request = s.request
      /\ e.stream = u.stream /\ e.history.cleanReuse = s.history.cleanReuse
  BY <1>1, <1>3, <1>4 DEF Sessions, States, Alike
<1> HIDE DEF e
<1>6. Origins(e) = Origins(s) /\ Origins(s) = {s.request.selected}
  BY <1>3 DEF Origins, Sound, AnswerFits
<1>7. s.stream.clientFd /\ s.request.selected \in Upstreams /\ s.request.bodyComplete
  <2>1. s.request.selected \in s.request.attempted /\ s.request.bodyComplete
    BY DEF Sound, UpstreamFits, RequestFits, Forwarding
  <2> QED BY <1>1, <2>1, ForwardingIsOpen DEF Forwarding, Sessions, Requests
<1>8. Whole(e)
  BY <1>1, <1>5, <1>6, <1>7 DEF Sound, Whole, OneOrigin, RequestKnown, DescriptorsKnown
<1>9. AnswerReceived(e)
  BY <1>3, <1>5, <1>6, <1>7 DEF AnswerReceived, Origins
<1>10. AnswerFits(e) /\ UpstreamFits(e) /\ RequestFits(e)
  BY <1>1, <1>5, <1>7, <1>9 DEF AnswerFits, UpstreamFits, RequestFits, Unanswered, Forwarding
<1>11. Sound(e)
  BY <1>8, <1>10 DEF Sound
<1>12. CASE s.response.complete
  <2>1. t = s
    BY <1>12 DEF CompleteResponse
  <2> QED BY <2>1 DEF Follows
<1>13. CASE ~s.response.complete
  <2>1. t \in WriteClient(e)
    BY <1>2, <1>13 DEF CompleteResponse
  <2>2. Sound(t) /\ Follows(e, t)
    BY <1>11, <2>1, ClientWritten
  <2> QED BY <1>3, <2>2 DEF Follows
<1> QED BY <1>12, <1>13

--------------------------------------------------------------------------------
(* The upstream connection *)

LEMMA Recorded ==
    ASSUME NEW s, Whole(s), NEW f, f = FailureRecorded(s)
    PROVE  /\ Whole(f) /\ f.state = s.state /\ f.request = s.request /\ f.response = s.response
           /\ f.stream.clientFd = s.stream.clientFd
<1> DEFINE u == CloseUpstream(s)
           b == u.history.misblamed \/ AnswerReceived(s)
           t == [u EXCEPT !.history.misblamed = b]
<1>1. /\ s \in Sessions /\ u \in Sessions /\ Alike(s, u) /\ u.response = s.response
      /\ u.stream.clientFd = s.stream.clientFd
      /\ ~u.stream.upstreamFd
      /\ u.stream.toUpstream = s.stream.toUpstream
      /\ u.stream.requestPaused = s.stream.requestPaused
  BY UpstreamClosed DEF Whole
<1>2. f = t
  BY DEF FailureRecorded
<1>3. b \in BOOLEAN
  OBVIOUS
<1> HIDE DEF u, b
<1>4. t.history \in Histories /\ t.history.cleanReuse = u.history.cleanReuse
  BY <1>1, <1>3 DEF Sessions, Histories
<1>5. /\ t \in Sessions /\ t.state = u.state /\ t.request = u.request
      /\ t.response = u.response /\ t.connection = u.connection /\ t.stream = u.stream
  BY <1>1, <1>4 DEF Sessions
<1> HIDE DEF t
<1>6. Whole(t)
  BY <1>1, <1>4, <1>5 DEF Whole, Alike, OneOrigin, Origins, RequestKnown, DescriptorsKnown
<1> QED BY <1>1, <1>2, <1>5, <1>6 DEF Alike

LEMMA GivenUp ==
    ASSUME NEW s, Whole(s), NEW t \in GiveUp(s)
    PROVE  /\ Sound(t) /\ t.state \in {"DrainingResponse", "Closed"}
           /\ s.response.sentFrom # {} => t.state = "Closed"
           /\ s.response.sentFrom = {} \/ EdgeOnly(s) => EdgeOnly(t)
<1>1. CASE s.response.sentFrom # {}
  <2>1. t = CloseSession(s)
    BY <1>1 DEF GiveUp
  <2>2. EdgeOnly(s) => EdgeOnly(t)
    BY <2>1, ClosedIsSound DEF EdgeOnly, Origins
  <2> QED BY <1>1, <2>1, <2>2, ClosedIsSound DEF Rested
<1>2. CASE s.response.sentFrom = {}
  <2>1. t \in QueueError(s)
    BY <1>2 DEF GiveUp
  <2> QED BY <1>2, <2>1, ErrorIsSound
<1> QED BY <1>1, <1>2

LEMMA Final ==
    ASSUME NEW s, Whole(s), NEW t \in FinalFailure(s)
    PROVE  /\ Sound(t) /\ t.state \in {"DrainingResponse", "Closed"}
           /\ s.response.sentFrom = {} => EdgeOnly(t)
<1>1. t \in GiveUp(FailureRecorded(s))
  BY DEF FinalFailure
<1> QED BY <1>1, Recorded, GivenUp

LEMMA SentToUpstream ==
    ASSUME NEW s \in Sessions, NEW n \in 0..Capacity, n <= s.stream.toUpstream,
           NEW t, t = SendToUpstream(s, n)
    PROVE  /\ t \in Sessions /\ Alike(s, t) /\ t.response = s.response /\ t.armed = s.armed
           /\ t.stream.clientFd = s.stream.clientFd
           /\ t.stream.upstreamFd = s.stream.upstreamFd
           /\ t.stream.toClient = s.stream.toClient
           /\ t.stream.responsePaused = s.stream.responsePaused
           /\ t.stream.toUpstream = s.stream.toUpstream - n
           /\ n = 0 => t = s
           /\ n # 0 /\ t.stream.requestPaused => t.stream.toUpstream > LowWatermark
<1> DEFINE size == s.stream.toUpstream - n
           r == [s EXCEPT !.stream.toUpstream = size, !.due["idle"] = FALSE]
<1>1. size \in 0..Capacity /\ (n = 0 => size = s.stream.toUpstream)
  BY ConfigAssumption DEF Sessions, Streams
<1>2. t = IF n = 0 THEN s ELSE UpdateRequestBackpressure(r)
  BY DEF SendToUpstream
<1> HIDE DEF size
<1>3. /\ r.stream \in Streams
      /\ r.stream.clientFd = s.stream.clientFd
      /\ r.stream.upstreamFd = s.stream.upstreamFd
      /\ r.stream.toClient = s.stream.toClient
      /\ r.stream.responsePaused = s.stream.responsePaused
      /\ r.stream.toUpstream = size
  BY <1>1 DEF Sessions, Streams
<1>4. /\ r \in Sessions /\ Alike(s, r) /\ r.response = s.response /\ r.armed = s.armed
  BY <1>3 DEF Sessions, Deadlines, Alike
<1> HIDE DEF r
<1>5. CASE n = 0
  BY <1>1, <1>2, <1>5 DEF Alike, size
<1>6. CASE n # 0
  <2>1. t = UpdateRequestBackpressure(r)
    BY <1>2, <1>6
  <2>2. /\ t \in Sessions /\ Alike(r, t) /\ t.response = r.response /\ t.armed = r.armed
        /\ t.stream.clientFd = r.stream.clientFd
        /\ t.stream.upstreamFd = r.stream.upstreamFd
        /\ t.stream.toUpstream = r.stream.toUpstream
        /\ t.stream.toClient = r.stream.toClient
        /\ t.stream.responsePaused = r.stream.responsePaused
        /\ t.stream.requestPaused => r.stream.toUpstream > LowWatermark
    BY <1>4, <2>1, RequestBackpressure
  <2> QED BY <1>3, <1>4, <1>6, <2>2 DEF Alike, size
<1> QED BY <1>5, <1>6

\* A request that is being sent, some bytes later; the end of a whole one is
\* the end of that state.
LEMMA SendingOn ==
    ASSUME NEW s, Sound(s), s.state = "SendingRequest",
           NEW n \in 0..Capacity, n <= s.stream.toUpstream,
           n < s.stream.toUpstream \/ ~s.request.bodyComplete,
           NEW t, t = SendToUpstream(s, n)
    PROVE  /\ Sound(t) /\ t.state = "SendingRequest"
           /\ t.request = s.request /\ t.response = s.response /\ t.armed = s.armed
<1>1. s \in Sessions /\ s.stream.toUpstream \in 0..Capacity
  BY DEF Sound, Whole, Sessions, Streams
<1>2. /\ t \in Sessions /\ Alike(s, t) /\ t.response = s.response /\ t.armed = s.armed
      /\ t.stream.clientFd = s.stream.clientFd
      /\ t.stream.upstreamFd = s.stream.upstreamFd
      /\ t.stream.toClient = s.stream.toClient
      /\ t.stream.responsePaused = s.stream.responsePaused
      /\ t.stream.toUpstream = s.stream.toUpstream - n
      /\ n = 0 => t = s
      /\ n # 0 /\ t.stream.requestPaused => t.stream.toUpstream > LowWatermark
  BY <1>1, SentToUpstream
<1>3. CASE n = 0
  BY <1>2, <1>3
<1>4. CASE n # 0
  <2>1. /\ t.stream.toUpstream \in Nat /\ t.stream.toUpstream <= s.stream.toUpstream
        /\ s.request.bodyComplete => t.stream.toUpstream > 0
    BY <1>1, <1>2, ConfigAssumption
  <2>2. RequestKnown(t)
    BY <1>1, <1>2, <1>4, <2>1, ConfigAssumption DEF Sound, Whole, RequestKnown, Alike
  <2>3. Whole(t)
    BY <1>2, <2>2 DEF Sound, Whole, Alike, OneOrigin, Origins, DescriptorsKnown
  <2>4. AnswerFits(t)
    BY <1>2 DEF Sound, AnswerFits, Alike, Origins, Unanswered
  <2>5. UpstreamFits(t)
    BY <1>2 DEF Sound, UpstreamFits, Alike
  <2>6. RequestFits(t)
    BY <1>2, <1>4, <2>1 DEF Sound, RequestFits, Alike
  <2> QED BY <1>2, <2>3, <2>4, <2>5, <2>6 DEF Sound, Alike
<1> QED BY <1>3, <1>4

\* What is left when write_upstream stops early.
LEMMA Partly ==
    ASSUME NEW s, Sound(s), s.state = "SendingRequest", NEW t \in PartlySent(s)
    PROVE  /\ Sound(t) /\ t.state = "SendingRequest"
           /\ t.request = s.request /\ t.response = s.response /\ t.armed = s.armed
<1>1. s.stream.toUpstream \in 0..Capacity
  BY DEF Sound, Whole, Sessions, Streams
<1>2. PICK n \in 0..Capacity : n < s.stream.toUpstream /\ t = SendToUpstream(s, n)
  BY DEF PartlySent
<1>3. n <= s.stream.toUpstream
  BY <1>1, <1>2, ConfigAssumption
<1> QED BY <1>2, <1>3, SendingOn

LEMMA SentIsSound ==
    ASSUME NEW s, Sound(s), s.state = "SendingRequest", NEW t \in Sent(s)
    PROVE  /\ Sound(t) /\ t.state \in {"SendingRequest", "ReadingResponseHead"}
           /\ t.request = s.request /\ t.response = s.response /\ t.armed = s.armed
<1> DEFINE n == s.stream.toUpstream
           u == SendToUpstream(s, n)
           r == [u EXCEPT !.state = "ReadingResponseHead", !.due["phase"] = FALSE]
<1>1. s \in Sessions /\ n \in 0..Capacity /\ n <= s.stream.toUpstream
  <2>1. s \in Sessions /\ n \in 0..Capacity
    BY DEF Sound, Whole, Sessions, Streams
  <2> QED BY <2>1, ConfigAssumption
<1>2. /\ u \in Sessions /\ Alike(s, u) /\ u.response = s.response /\ u.armed = s.armed
      /\ u.stream.clientFd = s.stream.clientFd
      /\ u.stream.upstreamFd = s.stream.upstreamFd
      /\ u.stream.toClient = s.stream.toClient
      /\ u.stream.responsePaused = s.stream.responsePaused
      /\ u.stream.toUpstream = s.stream.toUpstream - n
      /\ n # 0 /\ u.stream.requestPaused => u.stream.toUpstream > LowWatermark
  <2> HIDE DEF n
  <2> QED BY <1>1, SentToUpstream
<1>3. t \in PartlySent(s) \/ t = RequestBufferEmpty(u)
  BY DEF Sent
<1>4. CASE t \in PartlySent(s)
  BY <1>4, Partly
<1>5. CASE t = RequestBufferEmpty(u) /\ ~s.request.bodyComplete
  <2>1. t = u
    BY <1>2, <1>5 DEF RequestBufferEmpty, Alike
  <2> HIDE DEF n
  <2> QED BY <1>1, <1>5, <2>1, SendingOn
<1>6. CASE t = RequestBufferEmpty(u) /\ s.request.bodyComplete
  <2>1. t = r
    BY <1>2, <1>6 DEF RequestBufferEmpty, Alike
  <2>2. u.stream.toUpstream = 0 /\ ~u.stream.requestPaused
    BY <1>1, <1>2, <1>6, ConfigAssumption DEF Sound, RequestFits
  <2> HIDE DEF u
  <2>3. /\ r \in Sessions /\ r.state = "ReadingResponseHead" /\ r.request = u.request
        /\ r.response = u.response /\ r.connection = u.connection /\ r.stream = u.stream
        /\ r.armed = u.armed /\ r.history = u.history
    BY <1>2 DEF Sessions, States, Deadlines
  <2> HIDE DEF r
  <2>4. Whole(r)
    <3>1. RequestKnown(r)
      BY <1>2, <2>2, <2>3, ConfigAssumption DEF Sound, Whole, Alike, RequestKnown
    <3>2. DescriptorsKnown(r)
      BY <1>2, <2>3, ForwardingIsOpen DEF Forwarding, DescriptorsKnown
    <3> QED BY <1>2, <2>3, <3>1, <3>2 DEF Sound, Whole, Alike, OneOrigin, Origins
  <2>5. AnswerFits(r)
    BY <1>2, <2>3 DEF Sound, AnswerFits, Alike, Origins, Unanswered
  <2>6. UpstreamFits(r) /\ RequestFits(r)
    BY <1>2, <1>6, <2>2, <2>3 DEF Sound, UpstreamFits, RequestFits, Alike, Forwarding
  <2> QED BY <1>2, <2>1, <2>3, <2>4, <2>5, <2>6 DEF Sound, Alike
<1> QED BY <1>3, <1>4, <1>5, <1>6

\* A session from which a connect may start.
Ready(s) ==
    /\ Whole(s) /\ Origins(s) = {}
    /\ s.stream.clientFd /\ s.stream.toClient = 0 /\ ~s.stream.responsePaused
    /\ s.request.selected \in s.request.attempted
    /\ s.stream.toUpstream > 0
    /\ s.stream.requestPaused => s.stream.toUpstream > LowWatermark
    /\ s.connection.readClosed => s.request.bodyComplete

LEMMA ConnectingIsSound ==
    ASSUME NEW s, Ready(s), NEW state \in {"ConnectingUpstream", "SendingRequest"},
           NEW t, t = Connecting(s, state)
    PROVE  /\ Sound(t) /\ t.state = state
           /\ t.request = s.request /\ t.response = s.response /\ t.armed.upstreamOut
<1> DEFINE a == [s.armed EXCEPT !.upstreamIn = FALSE, !.upstreamOut = TRUE]
           r == [s EXCEPT !.state = state,
                          !.stream.upstreamFd = TRUE,
                          !.armed = a,
                          !.due["phase"] = FALSE]
<1>1. s \in Sessions
  BY DEF Ready, Whole
<1>2. t = r
  BY DEF Connecting
<1>3. a \in Interests /\ a.upstreamOut
  BY <1>1 DEF Sessions, Interests
<1> HIDE DEF a
<1>4. /\ r.stream \in Streams /\ r.stream.upstreamFd
      /\ r.stream.clientFd = s.stream.clientFd
      /\ r.stream.toUpstream = s.stream.toUpstream
      /\ r.stream.toClient = s.stream.toClient
      /\ r.stream.requestPaused = s.stream.requestPaused
      /\ r.stream.responsePaused = s.stream.responsePaused
  BY <1>1 DEF Sessions, Streams
<1>5. /\ r \in Sessions /\ r.state = state /\ r.request = s.request /\ r.armed = a
      /\ r.response = s.response /\ r.connection = s.connection /\ r.history = s.history
  BY <1>1, <1>3, <1>4 DEF Sessions, States, Deadlines
<1> HIDE DEF r
<1>6. Whole(r)
  BY <1>4, <1>5 DEF Ready, Whole, OneOrigin, Origins, RequestKnown, DescriptorsKnown
<1>7. AnswerFits(r)
  BY <1>4, <1>5 DEF Ready, AnswerFits, Origins
<1>8. UpstreamFits(r) /\ RequestFits(r)
  BY <1>4, <1>5 DEF Ready, UpstreamFits, RequestFits, Forwarding
<1> QED BY <1>2, <1>3, <1>5, <1>6, <1>7, <1>8 DEF Sound

LEMMA ConnectedIsSound ==
    ASSUME NEW s, Ready(s), NEW t \in Connected(s)
    PROVE  /\ Sound(t) /\ Origins(t) = {} /\ t.request = s.request /\ t.armed.upstreamOut
           /\ t.state \in {"ConnectingUpstream", "SendingRequest", "ReadingResponseHead"}
<1>1. CASE t = Connecting(s, "ConnectingUpstream")
  BY <1>1, ConnectingIsSound DEF Ready, Origins
<1>2. CASE t \in Sent(Connecting(s, "SendingRequest"))
  BY <1>2, ConnectingIsSound, SentIsSound DEF Ready, Origins
<1> QED BY <1>1, <1>2 DEF Connected

LEMMA FailedToConnect ==
    ASSUME NEW s, Ready(s), NEW t \in ConnectFails(s)
    PROVE  Whole(t) /\ t.stream.clientFd /\ t.response.sentFrom = {}
<1>1. CASE t = s
  BY <1>1 DEF Ready, Origins
<1>2. CASE t \in PartlySent(Connecting(s, "SendingRequest"))
  <2>1. Sound(t) /\ t.state = "SendingRequest" /\ t.response = s.response
    BY <1>2, ConnectingIsSound, Partly
  <2> QED BY <2>1, ForwardingIsOpen DEF Sound, Ready, Origins, Forwarding
<1> QED BY <1>1, <1>2 DEF ConnectFails

\* What a failure leaves: an exchange at its end, or a second attempt under way
\* whose mask was set by EventLoop::add.
Attempting(t) ==
    /\ t.state \notin {"ReadingRequestHead", "StreamingResponse"}
    /\ t.state \in {"ConnectingUpstream", "SendingRequest", "ReadingResponseHead"} =>
         t.armed.upstreamOut
    /\ t.state = "SendingRequest" => t.stream.toUpstream > 0

LEMMA AttemptingIsArmed ==
    ASSUME NEW t, Attempting(t)
    PROVE  Armed(t)
  BY DEF Attempting, Armed

\* The second attempt of a request that may be retried: its head is all there is
\* to send, and it pauses the client no more than it did the first time.
LEMMA ReattemptIsReady ==
    ASSUME NEW s, Whole(s), s.stream.clientFd, MayRetry(s), s.response.sentFrom = {},
           NEW u \in Upstreams \ s.request.attempted, NEW r, r = Reattempt(s, u)
    PROVE  Ready(r) /\ r.request.bodyComplete
<1> DEFINE tried == s.request.attempted \cup {u}
           t == [s EXCEPT !.request.selected = u, !.request.attempted = tried,
                          !.stream.toUpstream = HeadLength, !.stream.toClient = 0,
                          !.stream.responsePaused = FALSE,
                          !.response.bodyLeft = 0, !.response.complete = FALSE,
                          !.response.bufferFrom = {}]
<1>1. s \in Sessions
  BY DEF Whole
<1>2. r = t
  BY DEF Reattempt
<1>3. tried \in SUBSET Upstreams /\ u \in tried
  BY <1>1 DEF Sessions, Requests
<1> HIDE DEF tried
<1>4. /\ t.request \in Requests
      /\ t.request.attempted = tried /\ t.request.selected = u
      /\ t.request.replayable = s.request.replayable
      /\ t.request.bodyLeft = s.request.bodyLeft
      /\ t.request.bodyComplete = s.request.bodyComplete
  BY <1>1, <1>3 DEF Sessions, Requests, Sources
<1>5. t.response \in Responses /\ t.response.sentFrom = {} /\ t.response.bufferFrom = {}
  <2>1. s.response \in Responses /\ 0 \in 0..MaxResponseBody
    BY <1>1, ConfigAssumption DEF Sessions
  <2> QED BY <1>1, <2>1 DEF Responses, Sessions
<1>6. /\ t.stream \in Streams
      /\ t.stream.toUpstream = HeadLength /\ t.stream.toClient = 0
      /\ ~t.stream.responsePaused
      /\ t.stream.clientFd = s.stream.clientFd
      /\ t.stream.upstreamFd = s.stream.upstreamFd
      /\ t.stream.requestPaused = s.stream.requestPaused
  <2>1. s.stream \in Streams /\ 0 \in 0..Capacity /\ HeadLength \in 0..Capacity
    BY <1>1, ConfigAssumption DEF Sessions
  <2> QED BY <1>1, <2>1 DEF Streams, Sessions
<1>7. /\ t \in Sessions /\ t.state = s.state /\ t.connection = s.connection
      /\ t.history = s.history
  BY <1>1, <1>4, <1>5, <1>6 DEF Sessions
<1> HIDE DEF t
<1>8. AttemptsAllowed(t.request)
  <2>1. /\ IsFiniteSet(s.request.attempted)
        /\ Cardinality(s.request.attempted) \in Nat
        /\ Cardinality(s.request.attempted) < 2
        /\ s.request.replayable
    BY FS_CardinalityType DEF Whole, AttemptsAllowed, MayRetry
  <2>2. /\ IsFiniteSet(tried)
        /\ Cardinality(tried) = Cardinality(s.request.attempted) + 1
    BY <2>1, FS_AddElement DEF tried
  <2> QED BY <1>4, <2>1, <2>2 DEF AttemptsAllowed
<1>9. Origins(t) = {} /\ NoUpstream \in Sources
  BY <1>5 DEF Origins, Sources
<1>10. s.request.bodyComplete /\ s.request.replayable
  BY DEF MayRetry
<1>11. RequestKnown(t) /\ (t.stream.requestPaused => HeadLength > LowWatermark)
  BY <1>4, <1>6, <1>10, ConfigAssumption DEF Whole, RequestKnown
<1>12. Whole(t)
  BY <1>6, <1>7, <1>8, <1>9, <1>11 DEF Whole, OneOrigin, DescriptorsKnown
<1>13. Ready(t)
  BY <1>3, <1>4, <1>6, <1>9, <1>10, <1>11, <1>12, ConfigAssumption DEF Ready
<1> QED BY <1>2, <1>4, <1>10, <1>13

LEMMA Reconnects ==
    ASSUME NEW s, Ready(s), s.request.bodyComplete, NEW t \in Reconnected(s)
    PROVE  Sound(t) /\ Attempting(t) /\ EdgeOnly(t)
<1>1. CASE t \in Connected(s)
  <2>1. /\ Sound(t) /\ Origins(t) = {} /\ t.request = s.request /\ t.armed.upstreamOut
        /\ t.state \in {"ConnectingUpstream", "SendingRequest", "ReadingResponseHead"}
    BY <1>1, ConnectedIsSound
  <2>2. t.state = "SendingRequest" => t.stream.toUpstream > 0
    BY <2>1 DEF Sound, RequestFits
  <2> QED BY <2>1, <2>2 DEF Attempting, EdgeOnly
<1>2. CASE \E f \in ConnectFails(s) : t \in FinalFailure(f)
  BY <1>2, FailedToConnect, Final DEF Attempting
<1> QED BY <1>1, <1>2 DEF Reconnected

\* Only the retry could mix two answers, and it is refused once the client has
\* had bytes of the first.
LEMMA RetriedIsSound ==
    ASSUME NEW s, Whole(s), s.stream.clientFd, MayRetry(s), s.response.sentFrom = {},
           NEW t \in RetryUpstream(s)
    PROVE  Sound(t) /\ Attempting(t) /\ EdgeOnly(t)
<1>1. PICK u \in Upstreams \ s.request.attempted :
        \E r \in Reconnected(Reattempt(s, u)) : t \in AfterRetry(r)
  BY DEF RetryUpstream
<1>2. PICK r \in Reconnected(Reattempt(s, u)) : t \in AfterRetry(r)
  BY <1>1
<1>3. Sound(r) /\ Attempting(r) /\ EdgeOnly(r)
  BY <1>2, ReattemptIsReady, Reconnects
<1>4. CASE r.state = "Closed"
  <2>1. t \in GiveUp(r)
    BY <1>2, <1>4 DEF AfterRetry
  <2>2. Sound(t) /\ EdgeOnly(t) /\ t.state \in {"DrainingResponse", "Closed"}
    BY <1>3, <2>1, GivenUp DEF Sound
  <2> QED BY <2>2 DEF Attempting
<1>5. CASE r.state # "Closed"
  BY <1>2, <1>3, <1>5 DEF AfterRetry
<1> QED BY <1>4, <1>5

\* A failure met anywhere ends in a sound session.
LEMMA FailureIsSound ==
    ASSUME NEW s, Whole(s), s.stream.clientFd, NEW t \in UpstreamFailure(s)
    PROVE  /\ Sound(t) /\ Attempting(t)
           /\ s.response.sentFrom = {} => EdgeOnly(t)
           /\ s.response.sentFrom # {} => t.state = "Closed"
<1> DEFINE f == FailureRecorded(s)
<1>1. /\ Whole(f) /\ f.response = s.response
      /\ f.stream.clientFd
  BY Recorded
<1>2. \/ t \in GiveUp(f)
      \/ f.response.sentFrom = {} /\ MayRetry(f) /\ t \in RetryUpstream(f)
  BY DEF UpstreamFailure
<1> HIDE DEF f
<1>3. CASE t \in GiveUp(f)
  <2>1. /\ Sound(t) /\ t.state \in {"DrainingResponse", "Closed"}
        /\ f.response.sentFrom # {} => t.state = "Closed"
        /\ f.response.sentFrom = {} => EdgeOnly(t)
    BY <1>1, <1>3, GivenUp
  <2> QED BY <1>1, <2>1 DEF Attempting
<1>4. CASE f.response.sentFrom = {} /\ MayRetry(f) /\ t \in RetryUpstream(f)
  BY <1>1, <1>4, RetriedIsSound
<1> QED BY <1>2, <1>3, <1>4

LEMMA WrittenIsSound ==
    ASSUME NEW s, Sound(s), s.state = "SendingRequest", NEW t \in WriteUpstream(s)
    PROVE  Sound(t) /\ EdgeOnly(t)
<1>1. Origins(s) = {}
  BY DEF Sound, AnswerFits, Unanswered
<1>2. CASE t \in Sent(s)
  BY <1>1, <1>2, SentIsSound DEF EdgeOnly, Origins
<1>3. CASE \E r \in PartlySent(s) : t \in UpstreamFailure(r)
  <2>1. PICK r \in PartlySent(s) : t \in UpstreamFailure(r)
    BY <1>3
  <2>2. Sound(r) /\ r.state = "SendingRequest" /\ r.response = s.response
    BY Partly
  <2>3. Whole(r) /\ r.stream.clientFd /\ r.response.sentFrom = {}
    BY <1>1, <2>2, ForwardingIsOpen DEF Sound, Forwarding, Origins
  <2> QED BY <2>1, <2>3, FailureIsSound
<1> QED BY <1>2, <1>3 DEF WriteUpstream

LEMMA ConnectIsSound ==
    ASSUME NEW s, Ready(s), NEW t \in ConnectUpstream(s)
    PROVE  Sound(t) /\ EdgeOnly(t)
<1>1. CASE t \in Connected(s)
  BY <1>1, ConnectedIsSound DEF EdgeOnly
<1>2. CASE \E r \in ConnectFails(s) : t \in UpstreamFailure(r)
  BY <1>2, FailedToConnect, FailureIsSound
<1> QED BY <1>1, <1>2 DEF ConnectUpstream

LEMMA FinishedConnect ==
    ASSUME NEW s, Sound(s), s.state = "ConnectingUpstream", NEW t \in FinishConnect(s)
    PROVE  Sound(t) /\ EdgeOnly(t)
<1> DEFINE r == [s EXCEPT !.state = "SendingRequest", !.due["idle"] = FALSE]
<1>1. s \in Sessions /\ Whole(s) /\ s.response.sentFrom = {}
  BY DEF Sound, Whole, AnswerFits, Unanswered, Origins
<1>2. /\ r \in Sessions /\ r.state = "SendingRequest" /\ r.request = s.request
      /\ r.response = s.response /\ r.connection = s.connection /\ r.stream = s.stream
      /\ r.history = s.history
  BY <1>1 DEF Sessions, States, Deadlines
<1>3. t \in UpstreamFailure(s) \/ t \in WriteUpstream(r)
  BY DEF FinishConnect
<1> HIDE DEF r
<1>4. s.stream.clientFd
  BY ForwardingIsOpen DEF Forwarding
<1>5. Whole(r)
  BY <1>2, <1>4 DEF Sound, Whole, OneOrigin, Origins, RequestKnown, DescriptorsKnown
<1>6. AnswerFits(r)
  BY <1>2 DEF Sound, AnswerFits, Origins, Unanswered
<1>7. UpstreamFits(r) /\ RequestFits(r)
  BY <1>2 DEF Sound, UpstreamFits, RequestFits, Forwarding
<1>8. Sound(r)
  BY <1>5, <1>6, <1>7 DEF Sound
<1> QED BY <1>1, <1>2, <1>3, <1>4, <1>8, FailureIsSound, WrittenIsSound

--------------------------------------------------------------------------------
(* Reading the response *)

LEMMA BodyIsSound ==
    ASSUME NEW s, Sound(s), s.state = "StreamingResponse",
           NEW n \in Nat, n <= Capacity - s.stream.toClient,
           s.response.mode = "ContentLength" => n <= s.response.bodyLeft,
           NEW r, r = BodyAppended(s, n)
    PROVE  /\ Sound(r) /\ r.state = "StreamingResponse"
           /\ r.response.sentFrom = s.response.sentFrom
<1> DEFINE size == s.stream.toClient + n
           left == IF s.response.mode = "ContentLength"
                   THEN s.response.bodyLeft - n ELSE s.response.bodyLeft
           from == s.response.bufferFrom \cup {s.request.selected}
           t == [s EXCEPT !.stream.toClient = size,
                          !.response.bodyLeft = left,
                          !.response.bufferFrom = from]
<1>1. s \in Sessions /\ Whole(s) /\ Origins(s) = {s.request.selected}
  BY DEF Sound, Whole, AnswerFits
<1>2. r = UpdateResponseBackpressure(t)
  BY DEF BodyAppended
<1>3. size \in 0..Capacity
  BY <1>1, ConfigAssumption DEF Sessions, Streams
<1>4. left \in 0..MaxResponseBody
  <2>1. s.response.bodyLeft \in 0..MaxResponseBody
    BY <1>1 DEF Sessions, Responses
  <2> QED BY <2>1, ConfigAssumption
<1>5. /\ s.request.selected \in Sources /\ from \in SUBSET Sources
      /\ s.response.sentFrom \cup from = {s.request.selected}
  BY <1>1 DEF Sessions, Requests, Responses, Origins
<1> HIDE DEF size, left, from
<1>6. /\ t.stream \in Streams
      /\ t.stream.clientFd = s.stream.clientFd
      /\ t.stream.upstreamFd = s.stream.upstreamFd
      /\ t.stream.toUpstream = s.stream.toUpstream
      /\ t.stream.requestPaused = s.stream.requestPaused
  <2>1. s.stream \in Streams
    BY <1>1 DEF Sessions
  <2> QED BY <1>1, <1>3, <2>1 DEF Streams, Sessions
<1>7. /\ t.response \in Responses /\ t.response.bufferFrom = from
      /\ t.response.sentFrom = s.response.sentFrom
  <2>1. s.response \in Responses
    BY <1>1 DEF Sessions
  <2> QED BY <1>1, <1>4, <1>5, <2>1 DEF Responses, Sessions
<1>8. /\ t \in Sessions /\ t.state = "StreamingResponse" /\ t.request = s.request
      /\ t.connection = s.connection /\ t.history = s.history
  BY <1>1, <1>6, <1>7 DEF Sessions
<1> HIDE DEF t
<1>9. /\ r \in Sessions /\ Alike(t, r) /\ r.response = t.response
      /\ r.stream.clientFd = t.stream.clientFd
      /\ r.stream.upstreamFd = t.stream.upstreamFd
      /\ r.stream.toUpstream = t.stream.toUpstream
      /\ r.stream.toClient = t.stream.toClient
      /\ r.stream.requestPaused = t.stream.requestPaused
      /\ r.stream.responsePaused => t.stream.toClient > LowWatermark
  BY <1>2, <1>8, ResponseBackpressure
<1>10. Origins(r) = {s.request.selected}
  BY <1>5, <1>7, <1>9 DEF Origins
<1>11. Whole(r)
  BY <1>1, <1>5, <1>6, <1>8, <1>9, <1>10
     DEF Whole, Alike, OneOrigin, RequestKnown, DescriptorsKnown
<1>12. AnswerFits(r)
  BY <1>8, <1>9, <1>10 DEF AnswerFits, Alike, Unanswered
<1>13. UpstreamFits(r) /\ RequestFits(r)
  BY <1>6, <1>8, <1>9 DEF Sound, UpstreamFits, RequestFits, Alike
<1> QED BY <1>7, <1>8, <1>9, <1>11, <1>12, <1>13 DEF Sound, Alike

LEMMA StreamingIsOpen ==
    ASSUME NEW s, Sound(s), s.state \in {"ReadingResponseHead", "StreamingResponse"},
           NEW t \in UpstreamFailure(s)
    PROVE  Sound(t) /\ Follows(s, t)
<1>1. Whole(s) /\ s.stream.clientFd
  BY ForwardingIsOpen DEF Sound, Forwarding
<1> QED BY <1>1, FailureIsSound DEF Follows

LEMMA AppendIsSound ==
    ASSUME NEW s, Sound(s), s.state = "StreamingResponse", NEW n \in Nat,
           NEW t \in AppendResponseBody(s, n)
    PROVE  Sound(t) /\ Follows(s, t)
<1>1. s \in Sessions /\ s.stream.toClient \in 0..Capacity
  BY DEF Sound, Whole, Sessions, Streams
<1> DEFINE tooLong == \/ n > Capacity - s.stream.toClient
                      \/ s.response.mode = "ContentLength" /\ n > s.response.bodyLeft
<1>2. \/ t \in UpstreamFailure(s)
      \/ ~tooLong /\ t \in CompleteResponse(BodyAppended(s, n))
      \/ ~tooLong /\ t = BodyAppended(s, n)
  BY DEF AppendResponseBody
<1>3. s.response.bodyLeft \in 0..MaxResponseBody
  BY <1>1 DEF Sessions, Responses
<1>4. ~tooLong => /\ n <= Capacity - s.stream.toClient
                  /\ s.response.mode = "ContentLength" => n <= s.response.bodyLeft
  BY <1>1, <1>3, ConfigAssumption
<1> HIDE DEF tooLong
<1> DEFINE b == BodyAppended(s, n)
<1>5. ~tooLong => /\ Sound(b) /\ b.state = "StreamingResponse"
                  /\ b.response.sentFrom = s.response.sentFrom
  BY <1>4, BodyIsSound
<1> HIDE DEF b
<1>6. CASE t \in UpstreamFailure(s)
  BY <1>6, StreamingIsOpen
<1>7. CASE ~tooLong /\ t \in CompleteResponse(b)
  <2>1. Sound(t) /\ Follows(b, t)
    BY <1>5, <1>7, Completed
  <2> QED BY <1>5, <1>7, <2>1 DEF Follows
<1>8. CASE ~tooLong /\ t = b
  BY <1>5, <1>8 DEF Follows
<1> QED BY <1>2, <1>6, <1>7, <1>8 DEF b

LEMMA HeadIsSound ==
    ASSUME NEW s, Sound(s), s.state = "ReadingResponseHead", NEW mode \in BodyModes,
           NEW length \in 0..MaxResponseBody, HeadLength <= Capacity - s.stream.toClient,
           NEW r, r = HeadAppended(s, mode, length)
    PROVE  Sound(r) /\ r.state = "StreamingResponse"
<1> DEFINE size == s.stream.toClient + HeadLength
           from == s.response.bufferFrom \cup {s.request.selected}
           close == s.connection.closeAfter \/ mode = "CloseDelimited"
           t == [s EXCEPT !.state = "StreamingResponse",
                          !.connection.closeAfter = close,
                          !.stream.toClient = size,
                          !.response.mode = mode, !.response.bodyLeft = length,
                          !.response.bufferFrom = from]
<1>1. s \in Sessions /\ Whole(s) /\ Origins(s) = {}
  BY DEF Sound, Whole, AnswerFits, Unanswered
<1>2. r = UpdateResponseBackpressure(t)
  BY DEF HeadAppended
<1>3. size \in 0..Capacity
  BY <1>1, ConfigAssumption DEF Sessions, Streams
<1>4. /\ s.request.selected \in Sources /\ from \in SUBSET Sources
      /\ s.response.sentFrom \cup from = {s.request.selected}
  BY <1>1 DEF Sessions, Requests, Responses, Origins
<1>5. close \in BOOLEAN
  OBVIOUS
<1> HIDE DEF size, from, close
<1>6. /\ t.stream \in Streams
      /\ t.stream.clientFd = s.stream.clientFd
      /\ t.stream.upstreamFd = s.stream.upstreamFd
      /\ t.stream.toUpstream = s.stream.toUpstream
      /\ t.stream.requestPaused = s.stream.requestPaused
  <2>1. s.stream \in Streams
    BY <1>1 DEF Sessions
  <2> QED BY <1>1, <1>3, <2>1 DEF Streams, Sessions
<1>7. /\ t.response \in Responses /\ t.response.bufferFrom = from
      /\ t.response.sentFrom = s.response.sentFrom
  <2>1. s.response \in Responses
    BY <1>1 DEF Sessions
  <2> QED BY <1>1, <1>4, <2>1 DEF Responses, Sessions
<1>8. t.connection \in Connections
  BY <1>1, <1>5 DEF Sessions, Connections
<1>9. /\ t \in Sessions /\ t.state = "StreamingResponse" /\ t.request = s.request
      /\ t.history = s.history
  BY <1>1, <1>6, <1>7, <1>8 DEF Sessions, States
<1> HIDE DEF t
<1>10. /\ r \in Sessions /\ Alike(t, r) /\ r.response = t.response
       /\ r.stream.clientFd = t.stream.clientFd
       /\ r.stream.upstreamFd = t.stream.upstreamFd
       /\ r.stream.toUpstream = t.stream.toUpstream
       /\ r.stream.toClient = t.stream.toClient
       /\ r.stream.requestPaused = t.stream.requestPaused
       /\ r.stream.responsePaused => t.stream.toClient > LowWatermark
  BY <1>2, <1>9, ResponseBackpressure
<1>11. Origins(r) = {s.request.selected}
  BY <1>4, <1>7, <1>10 DEF Origins
<1>12. s.stream.clientFd
  BY ForwardingIsOpen DEF Forwarding
<1>13. Whole(r)
  BY <1>1, <1>4, <1>6, <1>9, <1>10, <1>11, <1>12
     DEF Whole, Alike, OneOrigin, RequestKnown, DescriptorsKnown
<1>14. AnswerFits(r)
  BY <1>9, <1>10, <1>11 DEF AnswerFits, Alike, Unanswered
<1>15. UpstreamFits(r) /\ RequestFits(r)
  BY <1>6, <1>9, <1>10 DEF Sound, UpstreamFits, RequestFits, Alike, Forwarding
<1> QED BY <1>9, <1>10, <1>13, <1>14, <1>15 DEF Sound, Alike

LEMMA FinishedResponseHead ==
    ASSUME NEW s, Sound(s), s.state = "ReadingResponseHead", NEW mode \in BodyModes,
           NEW length \in 0..MaxResponseBody, NEW extra \in Nat,
           NEW r \in FinishResponseHead(s, mode, length, extra)
    PROVE  Sound(r)
<1> DEFINE t == HeadAppended(s, mode, length)
<1>1. s \in Sessions /\ s.stream.toClient \in 0..Capacity
  BY DEF Sound, Whole, Sessions, Streams
<1>2. CASE HeadLength > Capacity - s.stream.toClient
  <2>1. r \in UpstreamFailure(s)
    BY <1>2 DEF FinishResponseHead
  <2> QED BY <2>1, StreamingIsOpen
<1>3. CASE ~(HeadLength > Capacity - s.stream.toClient)
  <2>1. HeadLength <= Capacity - s.stream.toClient
    BY <1>1, <1>3, ConfigAssumption
  <2>2. Sound(t) /\ t.state = "StreamingResponse"
    BY <2>1, HeadIsSound
  <2>3. \/ r \in UpstreamFailure(t)
        \/ r \in CompleteResponse(t)
        \/ r = t
        \/ r \in AppendResponseBody(t, extra)
    BY <1>3 DEF FinishResponseHead
  <2> HIDE DEF t
  <2> QED BY <2>2, <2>3, StreamingIsOpen, Completed, AppendIsSound
<1> QED BY <1>2, <1>3

LEMMA ResponseHeadAccepted ==
    ASSUME NEW s, Sound(s), s.state = "ReadingResponseHead"
    PROVE  \A t \in AcceptResponseHead(s) : Sound(t)
<1> DEFINE sized == {FinishResponseHead(s, "ContentLength", length, extra) :
                       length \in 0..MaxResponseBody, extra \in 0..ChunkSize}
           other == {FinishResponseHead(s, mode, 0, extra) :
                       mode \in BodyModes \ {"ContentLength"}, extra \in 0..ChunkSize}
<1>2. AcceptResponseHead(s) = {s} \cup UpstreamFailure(s) \cup (UNION sized) \cup UNION other
  BY DEF AcceptResponseHead
<1>3. \A mode \in BodyModes, length \in 0..MaxResponseBody, extra \in 0..ChunkSize :
        \A t \in FinishResponseHead(s, mode, length, extra) : Sound(t)
  BY FinishedResponseHead, ConfigAssumption
<1>4. "ContentLength" \in BodyModes /\ 0 \in 0..MaxResponseBody
  BY ConfigAssumption DEF BodyModes
<1>5. \A S \in sized : \A t \in S : Sound(t)
  BY <1>3, <1>4
<1>6. \A S \in other : \A t \in S : Sound(t)
  BY <1>3, <1>4
<1> HIDE DEF sized, other
<1> QED BY <1>2, <1>5, <1>6, StreamingIsOpen

LEMMA UpstreamRead ==
    ASSUME NEW s, Sound(s), s.state \in {"ReadingResponseHead", "StreamingResponse"},
           NEW t \in ReadUpstream(s)
    PROVE  Sound(t) /\ Follows(s, t)
<1> DEFINE heard == [s EXCEPT !.due["idle"] = FALSE]
<1>1. s \in Sessions /\ Whole(s)
  BY DEF Sound, Whole
<1>2. /\ heard \in Sessions /\ Alike(s, heard) /\ heard.stream = s.stream
      /\ heard.response = s.response
  BY <1>1 DEF Sessions, Deadlines, Alike
<1>3. Sound(heard)
  <2> HIDE DEF heard
  <2> QED BY <1>2, SoundKept
<1>4. CASE t = UpdateResponseBackpressure(s)
  <2>1. /\ t \in Sessions /\ Alike(s, t)
        /\ t.stream.clientFd = s.stream.clientFd
        /\ t.stream.upstreamFd = s.stream.upstreamFd
        /\ t.stream.toUpstream = s.stream.toUpstream
        /\ t.stream.toClient = s.stream.toClient
        /\ t.stream.requestPaused = s.stream.requestPaused
        /\ t.stream.responsePaused => s.stream.toClient > LowWatermark
    BY <1>1, <1>4, ResponseBackpressure
  <2>2. Whole(t)
    BY <1>1, <2>1 DEF Whole, Alike, OneOrigin, Origins, RequestKnown, DescriptorsKnown
  <2>3. AnswerFits(t)
    BY <2>1, ConfigAssumption DEF Sound, AnswerFits, AnswerReceived, Alike, Origins
  <2>4. UpstreamFits(t) /\ RequestFits(t)
    BY <2>1 DEF Sound, UpstreamFits, RequestFits, Alike
  <2> QED BY <2>1, <2>2, <2>3, <2>4 DEF Sound, Follows, Alike, RequestFits
<1>5. CASE t \in UpstreamEof(s)
  <2>1. \/ s.state = "StreamingResponse" /\ t \in CompleteResponse(s)
        \/ t \in UpstreamFailure(s)
    BY <1>5 DEF UpstreamEof
  <2> QED BY <2>1, Completed, StreamingIsOpen
<1>6. \/ t \in UpstreamFailure(s)
      \/ t = UpdateResponseBackpressure(s)
      \/ t = s
      \/ t \in UpstreamEof(s)
      \/ s.state = "ReadingResponseHead" /\ t \in AcceptResponseHead(heard)
      \/ /\ s.state # "ReadingResponseHead"
         /\ \E n \in 1..ReadCapacity(s) : t \in AppendResponseBody(heard, n)
  BY DEF ReadUpstream
<1>7. \A n \in 1..ReadCapacity(s) : n \in Nat
  <2>1. ReadCapacity(s) \in Int
    <3>1. /\ s.stream.toClient \in 0..Capacity
          /\ s.response.bodyLeft \in 0..MaxResponseBody
      BY <1>1 DEF Sessions, Streams, Responses
    <3> QED BY <3>1, ConfigAssumption DEF ReadCapacity, Smallest
  <2> QED BY <2>1
<1> HIDE DEF heard
<1>8. CASE t = s
  BY <1>8 DEF Follows, Sound, AnswerFits, Unanswered, Origins
<1>9. CASE s.state = "ReadingResponseHead" /\ t \in AcceptResponseHead(heard)
  <2>1. s.response.sentFrom = {}
    BY <1>9 DEF Sound, AnswerFits, Unanswered, Origins
  <2> QED BY <1>2, <1>3, <1>9, <2>1, ResponseHeadAccepted DEF Follows, Alike
<1>10. CASE /\ s.state # "ReadingResponseHead"
            /\ \E n \in 1..ReadCapacity(s) : t \in AppendResponseBody(heard, n)
  <2>1. PICK n \in 1..ReadCapacity(s) : t \in AppendResponseBody(heard, n)
    BY <1>10
  <2>2. Sound(t) /\ Follows(heard, t)
    BY <1>2, <1>3, <1>7, <1>10, <2>1, AppendIsSound DEF Alike
  <2> QED BY <1>2, <2>2 DEF Follows
<1> QED BY <1>4, <1>5, <1>6, <1>8, <1>9, <1>10, StreamingIsOpen

--------------------------------------------------------------------------------
(* Reading the request *)

\* A step of the request that leaves answer and upstream alone.
LEMMA RequestKept ==
    ASSUME NEW s, Sound(s), NEW t \in Sessions, t.state = s.state,
           t.response = s.response,
           t.history.cleanReuse = s.history.cleanReuse,
           t.stream.clientFd = s.stream.clientFd,
           t.stream.upstreamFd = s.stream.upstreamFd,
           t.stream.toClient = s.stream.toClient,
           t.stream.responsePaused = s.stream.responsePaused,
           t.request.attempted = s.request.attempted,
           t.request.selected = s.request.selected,
           t.request.replayable = s.request.replayable,
           s.request.bodyComplete => t.request.bodyComplete,
           s.connection.closeAfter => t.connection.closeAfter,
           RequestKnown(t), RequestFits(t)
    PROVE  Sound(t)
<1>1. Whole(t)
  BY DEF Sound, Whole, OneOrigin, Origins, AttemptsAllowed, DescriptorsKnown
<1>2. AnswerFits(t)
  BY DEF Sound, AnswerFits, AnswerReceived, Origins
<1>3. UpstreamFits(t)
  BY DEF Sound, UpstreamFits
<1> QED BY <1>1, <1>2, <1>3 DEF Sound

\* Reading on needs no more than that the buffer has room and bytes are due.
LEMMA BodyAccepted ==
    ASSUME NEW s, Sound(s), NEW n \in Nat \ {0}, n <= s.request.bodyLeft,
           n <= Capacity - s.stream.toUpstream, NEW t \in RequestBodyAccepted(s, n)
    PROVE  Sound(t) /\ t.response = s.response /\ t.state = s.state
<1> DEFINE size == s.stream.toUpstream + n
           left == s.request.bodyLeft - n
           done == n = s.request.bodyLeft
           r == [s EXCEPT !.stream.toUpstream = size,
                          !.request.bodyLeft = left,
                          !.request.bodyComplete = done,
                          !.due["idle"] = FALSE]
<1>1. /\ s \in Sessions
      /\ s.stream.toUpstream \in 0..Capacity /\ s.request.bodyLeft \in 0..MaxRequestBody
  BY DEF Sound, Whole, Sessions, Streams, Requests
<1>2. ~(n > s.request.bodyLeft \/ n > Capacity - s.stream.toUpstream)
  BY <1>1, ConfigAssumption
<1>3. t = UpdateRequestBackpressure(r)
  BY <1>2 DEF RequestBodyAccepted
<1>4. /\ size \in 0..Capacity /\ left \in 0..MaxRequestBody /\ done \in BOOLEAN
      /\ size > 0 /\ (done => left = 0)
  BY <1>1, ConfigAssumption
<1> HIDE DEF size, left, done
<1>5. /\ r.stream \in Streams
      /\ r.stream.clientFd = s.stream.clientFd
      /\ r.stream.upstreamFd = s.stream.upstreamFd
      /\ r.stream.toUpstream = size
      /\ r.stream.toClient = s.stream.toClient
      /\ r.stream.responsePaused = s.stream.responsePaused
  <2>1. s.stream \in Streams
    BY <1>1 DEF Sessions
  <2> QED BY <1>1, <1>4, <2>1 DEF Streams, Sessions
<1>6. /\ r.request \in Requests
      /\ r.request.attempted = s.request.attempted
      /\ r.request.selected = s.request.selected
      /\ r.request.replayable = s.request.replayable
      /\ r.request.bodyComplete = done /\ r.request.bodyLeft = left
  <2>1. s.request \in Requests
    BY <1>1 DEF Sessions
  <2> QED BY <1>1, <1>4, <2>1 DEF Requests, Sessions
<1>7. /\ r \in Sessions /\ r.state = s.state /\ r.response = s.response
      /\ r.connection = s.connection /\ r.history = s.history
  BY <1>1, <1>5, <1>6 DEF Sessions, Deadlines
<1> HIDE DEF r
<1>8. /\ t \in Sessions /\ Alike(r, t) /\ t.response = r.response
      /\ t.stream.clientFd = r.stream.clientFd
      /\ t.stream.upstreamFd = r.stream.upstreamFd
      /\ t.stream.toUpstream = r.stream.toUpstream
      /\ t.stream.toClient = r.stream.toClient
      /\ t.stream.responsePaused = r.stream.responsePaused
      /\ t.stream.requestPaused => r.stream.toUpstream > LowWatermark
  BY <1>3, <1>7, RequestBackpressure
<1>9. ~s.request.bodyComplete /\ ~s.request.replayable
  BY <1>1 DEF Sound, Whole, RequestKnown
<1>10. RequestKnown(t)
  BY <1>4, <1>6, <1>8, <1>9 DEF RequestKnown, Alike
<1>11. s.state \notin {"ReadingRequestHead", "ReadingResponseHead", "StreamingResponse"}
  BY <1>1, <1>9 DEF Sound, RequestFits
<1>12. RequestFits(t)
  BY <1>4, <1>5, <1>7, <1>8, <1>9, <1>11 DEF Sound, RequestFits, Alike
<1> QED BY <1>5, <1>6, <1>7, <1>8, <1>9, <1>10, <1>12, RequestKept DEF Alike

LEMMA EofIsSound ==
    ASSUME NEW s, Sound(s), NEW t, t = ClientEof(s)
    PROVE  Sound(t) /\ t.response = s.response /\ t.state \in {s.state, "Closed"}
<1> DEFINE r == [s EXCEPT !.connection.readClosed = TRUE]
<1>1. s \in Sessions /\ Whole(s)
  BY DEF Sound, Whole
<1>2. /\ r.connection \in Connections
      /\ r.connection.closeAfter = s.connection.closeAfter
  BY <1>1 DEF Sessions, Connections
<1>3. /\ r \in Sessions /\ r.state = s.state /\ r.request = s.request
      /\ r.response = s.response /\ r.stream = s.stream /\ r.history = s.history
  BY <1>1, <1>2 DEF Sessions
<1>4. t = CloseSession(r) \/ (t = r /\ s.request.bodyComplete)
  BY DEF ClientEof
<1> HIDE DEF r
<1>5. Whole(r)
  BY <1>1, <1>2, <1>3 DEF Whole, OneOrigin, Origins, RequestKnown, DescriptorsKnown
<1>6. CASE t = CloseSession(r)
  BY <1>3, <1>5, <1>6, ClosedIsSound DEF Rested
<1>7. CASE t = r /\ s.request.bodyComplete
  <2>1. RequestKnown(r) /\ RequestFits(r)
    BY <1>3, <1>5, <1>7 DEF Sound, Whole, RequestFits
  <2> QED BY <1>2, <1>3, <1>7, <2>1, RequestKept
<1> QED BY <1>4, <1>6, <1>7

LEMMA RequestBodyRead ==
    ASSUME NEW s, Sound(s), NEW t \in ReadRequestBody(s)
    PROVE  Sound(t) /\ t.response = s.response /\ t.state \in {s.state, "Closed"}
<1> DEFINE capacity == Smallest(Smallest(ChunkSize, s.request.bodyLeft),
                                Capacity - s.stream.toUpstream)
<1>1. /\ s \in Sessions /\ Whole(s)
      /\ s.stream.toUpstream \in 0..Capacity /\ s.request.bodyLeft \in 0..MaxRequestBody
  BY DEF Sound, Whole, Sessions, Streams, Requests
<1>2. /\ capacity \in Int
      /\ capacity <= s.request.bodyLeft /\ capacity <= Capacity - s.stream.toUpstream
  BY <1>1, ConfigAssumption DEF Smallest
<1>3. \/ t = UpdateRequestBackpressure(s)
      \/ t \in {s, ClientEof(s), CloseSession(s)}
      \/ \E n \in 1..capacity : t \in RequestBodyAccepted(s, n)
  BY DEF ReadRequestBody
<1> HIDE DEF capacity
<1>4. \A n \in 1..capacity :
        n \in Nat \ {0} /\ n <= s.request.bodyLeft /\ n <= Capacity - s.stream.toUpstream
  BY <1>1, <1>2, ConfigAssumption
<1>5. CASE t = UpdateRequestBackpressure(s)
  <2>1. /\ t \in Sessions /\ Alike(s, t) /\ t.response = s.response
        /\ t.stream.clientFd = s.stream.clientFd
        /\ t.stream.upstreamFd = s.stream.upstreamFd
        /\ t.stream.toUpstream = s.stream.toUpstream
        /\ t.stream.toClient = s.stream.toClient
        /\ t.stream.responsePaused = s.stream.responsePaused
        /\ t.stream.requestPaused => s.stream.toUpstream > LowWatermark
    BY <1>1, <1>5, RequestBackpressure
  <2>2. RequestKnown(t)
    BY <1>1, <2>1, ConfigAssumption DEF Whole, RequestKnown, Alike
  <2>3. RequestFits(t)
    BY <2>1, ConfigAssumption DEF Sound, RequestFits, Alike
  <2> QED BY <2>1, <2>2, <2>3, RequestKept DEF Alike
<1>6. CASE t \in {s, ClientEof(s), CloseSession(s)}
  BY <1>1, <1>6, EofIsSound, ClosedIsSound DEF Rested
<1>7. CASE \E n \in 1..capacity : t \in RequestBodyAccepted(s, n)
  BY <1>4, <1>7, BodyAccepted
<1> QED BY <1>3, <1>5, <1>6, <1>7

LEMMA AfterHead ==
    ASSUME NEW s, Sound(s), NEW t \in AfterRequestHead(s)
    PROVE  Sound(t) /\ t.response = s.response
  BY RequestBodyRead DEF AfterRequestHead

\* A session whose next request is being read.
Reading(s) == Sound(s) /\ s.state = "ReadingRequestHead"

\* A request has been parsed, and nothing been done about it.
Parsed(s) ==
    /\ Whole(s) /\ Origins(s) = {}
    /\ s.stream.clientFd /\ s.stream.toClient = 0 /\ ~s.stream.responsePaused
    /\ s.request.attempted = {}
    /\ s.stream.toUpstream = 0 /\ ~s.stream.requestPaused
    /\ ~s.connection.readClosed

LEMMA ParsedIsWhole ==
    ASSUME NEW s, Reading(s), NEW replayable \in BOOLEAN, NEW left \in 0..MaxRequestBody,
           NEW close \in BOOLEAN, replayable => left = 0,
           NEW p, p = RequestParsed(s, replayable, left, close)
    PROVE  Parsed(p) /\ p.request.replayable = replayable
<1> DEFINE done == left = 0
           t == [s EXCEPT !.request.replayable = replayable, !.request.bodyLeft = left,
                          !.request.bodyComplete = done, !.request.routed = TRUE,
                          !.connection.closeAfter = close]
<1>1. /\ s \in Sessions /\ s.state = "ReadingRequestHead" /\ Whole(s)
      /\ Origins(s) = {} /\ s.request.attempted = {}
  BY DEF Reading, Sound, Whole, AnswerFits, RequestFits, Unanswered
<1>2. done \in BOOLEAN /\ (done => left = 0)
  OBVIOUS
<1>3. p = t
  BY DEF RequestParsed
<1> HIDE DEF done
<1>4. /\ t.request \in Requests /\ t.request.attempted = {}
      /\ t.request.replayable = replayable /\ t.request.bodyLeft = left
      /\ t.request.bodyComplete = done
  <2>1. s.request \in Requests
    BY <1>1 DEF Sessions
  <2> QED BY <1>1, <1>2, <2>1 DEF Requests, Sessions
<1>5. t.connection \in Connections /\ t.connection.readClosed = s.connection.readClosed
  BY <1>1 DEF Sessions, Connections
<1>6. /\ t \in Sessions /\ t.state = s.state /\ t.response = s.response
      /\ t.stream = s.stream /\ t.history = s.history
  BY <1>1, <1>4, <1>5 DEF Sessions
<1> HIDE DEF t
<1>7. /\ s.stream.clientFd /\ s.stream.toClient = 0 /\ ~s.stream.responsePaused
      /\ s.stream.toUpstream = 0 /\ ~s.stream.requestPaused /\ ~s.connection.readClosed
  BY <1>1 DEF Reading, Sound, AnswerFits, RequestFits, DescriptorsKnown, Whole, Unanswered
<1>8. AttemptsAllowed(t.request)
  BY <1>4, FS_EmptySet DEF AttemptsAllowed
<1>9. RequestKnown(t)
  BY <1>2, <1>4, <1>6, <1>7, ConfigAssumption DEF RequestKnown
<1>10. Whole(t)
  BY <1>1, <1>6, <1>7, <1>8, <1>9 DEF Whole, OneOrigin, Origins, DescriptorsKnown
<1> QED
  BY <1>1, <1>3, <1>4, <1>5, <1>6, <1>7, <1>10 DEF Parsed, Origins

LEMMA QueuedIsReady ==
    ASSUME NEW s, Parsed(s), NEW u \in Upstreams, NEW extra \in Nat,
           s.request.replayable => extra = 0,
           HeadLength + extra <= Capacity - s.stream.toUpstream,
           NEW r, r = RequestQueued(s, u, extra)
    PROVE  Ready(r)
<1> DEFINE size == s.stream.toUpstream + HeadLength + extra
           tried == s.request.attempted \cup {u}
           t == [s EXCEPT !.request.selected = u, !.request.attempted = tried,
                          !.stream.toUpstream = size]
<1>1. /\ s \in Sessions /\ s.stream.toUpstream = 0
      /\ Origins(s) = {} /\ s.request.attempted = {} /\ Whole(s)
  BY DEF Parsed, Whole
<1>2. /\ size \in 0..Capacity /\ size > 0 /\ tried = {u}
      /\ s.request.replayable => size <= HeadLength
  BY <1>1, ConfigAssumption
<1>3. r = UpdateRequestBackpressure(t)
  BY DEF RequestQueued
<1> HIDE DEF size, tried
<1>4. /\ t.request \in Requests /\ t.request.attempted = {u} /\ t.request.selected = u
      /\ t.request.replayable = s.request.replayable
      /\ t.request.bodyLeft = s.request.bodyLeft
      /\ t.request.bodyComplete = s.request.bodyComplete
  <2>1. s.request \in Requests
    BY <1>1 DEF Sessions
  <2> QED BY <1>1, <1>2, <2>1 DEF Requests, Sessions, Sources
<1>5. /\ t.stream \in Streams
      /\ t.stream.clientFd = s.stream.clientFd
      /\ t.stream.upstreamFd = s.stream.upstreamFd
      /\ t.stream.toUpstream = size
      /\ t.stream.toClient = s.stream.toClient
      /\ t.stream.responsePaused = s.stream.responsePaused
  <2>1. s.stream \in Streams
    BY <1>1 DEF Sessions
  <2> QED BY <1>1, <1>2, <2>1 DEF Streams, Sessions
<1>6. /\ t \in Sessions /\ t.state = s.state /\ t.response = s.response
      /\ t.connection = s.connection /\ t.history = s.history
  BY <1>1, <1>4, <1>5 DEF Sessions
<1> HIDE DEF t
<1>7. /\ r \in Sessions /\ Alike(t, r) /\ r.response = t.response
      /\ r.stream.clientFd = t.stream.clientFd
      /\ r.stream.upstreamFd = t.stream.upstreamFd
      /\ r.stream.toUpstream = t.stream.toUpstream
      /\ r.stream.toClient = t.stream.toClient
      /\ r.stream.responsePaused = t.stream.responsePaused
      /\ r.stream.requestPaused => t.stream.toUpstream > LowWatermark
  BY <1>3, <1>6, RequestBackpressure
<1>8. Origins(r) = {} /\ NoUpstream \in Sources
  BY <1>1, <1>6, <1>7 DEF Origins, Sources
<1>9. AttemptsAllowed(r.request)
  <2>1. r.request.attempted = {u}
    BY <1>4, <1>7 DEF Alike
  <2>2. IsFiniteSet(r.request.attempted) /\ Cardinality(r.request.attempted) = 1
    BY <2>1, FS_Singleton
  <2> QED BY <2>2 DEF AttemptsAllowed
<1>10. RequestKnown(r)
  BY <1>1, <1>2, <1>4, <1>5, <1>7, ConfigAssumption DEF Whole, RequestKnown, Alike
<1>11. Whole(r)
  BY <1>1, <1>5, <1>6, <1>7, <1>8, <1>9, <1>10 DEF Parsed, Whole, OneOrigin, DescriptorsKnown, Alike
<1> QED BY <1>2, <1>4, <1>5, <1>6, <1>7, <1>8, <1>11 DEF Parsed, Ready, Alike

LEMMA FinishedRequestHead ==
    ASSUME NEW s, Reading(s), NEW replayable \in BOOLEAN, NEW left \in 0..MaxRequestBody,
           NEW close \in BOOLEAN, NEW extra \in Nat,
           replayable => left = 0 /\ extra = 0,
           NEW t \in FinishRequestHead(s, replayable, left, close, extra)
    PROVE  Sound(t) /\ EdgeOnly(t)
<1> DEFINE p == RequestParsed(s, replayable, left, close)
<1>1. Parsed(p) /\ p.request.replayable = replayable
  BY ParsedIsWhole
<1>2. \/ t \in QueueError(p)
      \/ /\ ~(HeadLength + extra > Capacity - p.stream.toUpstream)
         /\ \E u \in Upstreams : \E r \in ConnectUpstream(RequestQueued(p, u, extra)) :
              t \in AfterRequestHead(r)
  BY DEF FinishRequestHead
<1> HIDE DEF p
<1>3. CASE t \in QueueError(p)
  BY <1>1, <1>3, ErrorIsSound DEF Parsed, Origins
<1>4. CASE /\ ~(HeadLength + extra > Capacity - p.stream.toUpstream)
           /\ \E u \in Upstreams : \E r \in ConnectUpstream(RequestQueued(p, u, extra)) :
                t \in AfterRequestHead(r)
  <2>1. HeadLength + extra <= Capacity - p.stream.toUpstream
    BY <1>1, <1>4, ConfigAssumption DEF Parsed
  <2>2. PICK u \in Upstreams : \E r \in ConnectUpstream(RequestQueued(p, u, extra)) :
                              t \in AfterRequestHead(r)
    BY <1>4
  <2>3. PICK r \in ConnectUpstream(RequestQueued(p, u, extra)) : t \in AfterRequestHead(r)
    BY <2>2
  <2>4. Ready(RequestQueued(p, u, extra))
    BY <1>1, <2>1, QueuedIsReady
  <2>5. Sound(r) /\ EdgeOnly(r)
    BY <2>3, <2>4, ConnectIsSound
  <2> QED BY <2>3, <2>5, AfterHead DEF EdgeOnly, Origins
<1> QED BY <1>2, <1>3, <1>4

LEMMA FirstBytesRead ==
    ASSUME NEW s, Reading(s), NEW b, b = FirstBytes(s)
    PROVE  Reading(b)
<1> DEFINE late == s.history.lateRequest \/ draining
           due == [d \in Deadlines |-> FALSE]
           t == [s EXCEPT !.due["idle"] = FALSE]
           r == [s EXCEPT !.request.started = TRUE,
                          !.due = due,
                          !.history.lateRequest = late]
<1>1. s \in Sessions /\ Sound(s) /\ Whole(s)
  BY DEF Reading, Sound, Whole
<1>2. b = t \/ b = r
  BY DEF FirstBytes
<1>3. late \in BOOLEAN /\ due \in [Deadlines -> BOOLEAN]
  OBVIOUS
<1> HIDE DEF late, due
<1>4. t \in Sessions /\ Alike(s, t) /\ t.stream = s.stream
  BY <1>1 DEF Sessions, Deadlines, Alike
<1>5. r.history \in Histories /\ r.history.cleanReuse = s.history.cleanReuse
  BY <1>1, <1>3 DEF Sessions, Histories
<1>6. /\ r.request \in Requests
      /\ r.request.attempted = s.request.attempted
      /\ r.request.selected = s.request.selected
      /\ r.request.replayable = s.request.replayable
      /\ r.request.bodyComplete = s.request.bodyComplete
      /\ r.request.bodyLeft = s.request.bodyLeft
  BY <1>1 DEF Sessions, Requests
<1>7. /\ r \in Sessions /\ r.state = s.state /\ r.response = s.response
      /\ r.stream = s.stream /\ r.connection = s.connection
  BY <1>1, <1>3, <1>5, <1>6 DEF Sessions
<1> HIDE DEF t, r
<1>8. CASE b = t
  BY <1>1, <1>4, <1>8, SoundKept DEF Reading, Alike
<1>9. CASE b = r
  <2>1. RequestKnown(r) /\ RequestFits(r)
    BY <1>1, <1>6, <1>7 DEF Sound, Whole, RequestKnown, RequestFits
  <2> QED BY <1>1, <1>5, <1>6, <1>7, <1>9, <2>1, RequestKept DEF Reading
<1> QED BY <1>2, <1>8, <1>9

LEMMA RequestHeadAccepted ==
    ASSUME NEW s, Reading(s)
    PROVE  \A t \in AcceptRequestHead(s) : Sound(t) /\ EdgeOnly(t)
<1> DEFINE yes == TRUE
           no == FALSE
           any == {FinishRequestHead(s, no, left, close, extra) :
                     left \in 0..MaxRequestBody, close \in BOOLEAN, extra \in 0..ChunkSize}
           bare == {FinishRequestHead(s, yes, 0, close, 0) : close \in BOOLEAN}
<1>1. Sound(s) /\ Whole(s) /\ s.response.sentFrom = {} /\ EdgeOnly(s)
  BY DEF Reading, Sound, AnswerFits, Origins, EdgeOnly, Unanswered
<1>2. AcceptRequestHead(s) = {s} \cup QueueError(s) \cup (UNION any) \cup UNION bare
  BY DEF AcceptRequestHead
<1>3. yes \in BOOLEAN /\ no \in BOOLEAN /\ ~no
  OBVIOUS
<1> HIDE DEF yes, no
<1>4. \A left \in 0..MaxRequestBody, close \in BOOLEAN, extra \in 0..ChunkSize :
        \A t \in FinishRequestHead(s, no, left, close, extra) : Sound(t) /\ EdgeOnly(t)
  BY <1>3, FinishedRequestHead, ConfigAssumption
<1>5. \A close \in BOOLEAN :
        \A t \in FinishRequestHead(s, yes, 0, close, 0) : Sound(t) /\ EdgeOnly(t)
  BY <1>3, FinishedRequestHead, ConfigAssumption
<1>6. \A S \in any : \A t \in S : Sound(t) /\ EdgeOnly(t)
  BY <1>4
<1>7. \A S \in bare : \A t \in S : Sound(t) /\ EdgeOnly(t)
  BY <1>5
<1> HIDE DEF any, bare
<1> QED BY <1>1, <1>2, <1>6, <1>7, ErrorIsSound

\* What a read may bring: from an upstream nothing, whatever the state.
LEMMA ClientRead ==
    ASSUME NEW s, Sound(s), NEW t \in ReadClient(s)
    PROVE  /\ Sound(t)
           /\ s.state # "ReadingRequestHead" =>
                t.response = s.response /\ t.state \in {s.state, "Closed"}
           /\ s.state = "ReadingRequestHead" => EdgeOnly(t)
<1>1. CASE s.state = "ReadingRequestHead"
  <2>1. \/ t \in {s, ClientEof(s), CloseSession(s)}
        \/ t \in AcceptRequestHead(FirstBytes(s))
    BY <1>1 DEF ReadClient
  <2>2. Reading(FirstBytes(s)) /\ Origins(s) = {}
    BY <1>1, FirstBytesRead DEF Reading, Sound, AnswerFits, Unanswered
  <2>3. CASE t \in {s, ClientEof(s), CloseSession(s)}
    <3>1. Sound(t) /\ t.response = s.response
      BY <2>3, EofIsSound, ClosedIsSound DEF Sound, Rested
    <3> QED BY <1>1, <2>2, <3>1 DEF EdgeOnly, Origins
  <2>4. CASE t \in AcceptRequestHead(FirstBytes(s))
    BY <1>1, <2>2, <2>4, RequestHeadAccepted
  <2> QED BY <2>1, <2>3, <2>4
<1>2. CASE s.state # "ReadingRequestHead"
  BY <1>2, RequestBodyRead DEF ReadClient
<1> QED BY <1>1, <1>2

--------------------------------------------------------------------------------
(* The callbacks *)

LEMMA HalfClosed ==
    ASSUME NEW s, Sound(s), NEW t, t = ClientHalfClosed(s)
    PROVE  Sound(t) /\ t.response = s.response /\ t.state \in {s.state, "Closed"}
<1> DEFINE r == [s EXCEPT !.connection.readClosed = TRUE, !.connection.closeAfter = TRUE]
<1>1. s \in Sessions /\ Whole(s)
  BY DEF Sound, Whole
<1>2. r.connection \in Connections /\ r.connection.closeAfter
  BY <1>1 DEF Sessions, Connections
<1>3. /\ r \in Sessions /\ r.state = s.state /\ r.request = s.request
      /\ r.response = s.response /\ r.stream = s.stream /\ r.history = s.history
  BY <1>1, <1>2 DEF Sessions
<1>4. \/ t = CloseSession(r)
      \/ t = r /\ s.state # "ReadingRequestHead" /\ s.request.bodyComplete
  BY DEF ClientHalfClosed
<1> HIDE DEF r
<1>5. Whole(r)
  BY <1>1, <1>2, <1>3 DEF Whole, OneOrigin, Origins, RequestKnown, DescriptorsKnown
<1>6. CASE t = CloseSession(r)
  BY <1>3, <1>5, <1>6, ClosedIsSound DEF Rested
<1>7. CASE t = r /\ s.state # "ReadingRequestHead" /\ s.request.bodyComplete
  <2>1. RequestKnown(r) /\ RequestFits(r)
    BY <1>3, <1>5, <1>7 DEF Sound, Whole, RequestFits
  <2> QED BY <1>2, <1>3, <1>7, <2>1, RequestKept
<1> QED BY <1>4, <1>6, <1>7

LEMMA HungUp ==
    ASSUME NEW s, Sound(s), NEW events, NEW t, t = ClientHangup(s, events)
    PROVE  Sound(t) /\ t.response = s.response /\ t.state \in {s.state, "Closed"}
<1> DEFINE r == IF "RDHUP" \in events /\ s.state # "Closed" THEN ClientHalfClosed(s) ELSE s
<1>1. Sound(r) /\ r.response = s.response /\ r.state \in {s.state, "Closed"}
  BY HalfClosed
<1>2. t = r \/ t = CloseSession(r)
  BY DEF ClientHangup
<1> HIDE DEF r
<1> QED BY <1>1, <1>2, ClosedIsSound DEF Sound, Rested

\* What a callback may make of a session, before its batch ends.
Becomes(s, t) ==
    /\ Rested(t)
    /\ t.state # "Closed" => t.stream.clientFd
    /\ Follows(s, t)
    /\ s.state = "ReadingRequestHead" => EdgeOnly(t)

LEMMA ClientEventIsSound ==
    ASSUME NEW s, Sound(s), NEW events, NEW t \in OnClientEvent(s, events)
    PROVE  Becomes(s, t)
<1>1. s.state = "ReadingRequestHead" => EdgeOnly(s)
  BY DEF Sound, AnswerFits, Unanswered, EdgeOnly
<1>2. CASE "ERR" \in events
  <2>1. t = CloseSession(s)
    BY <1>2 DEF OnClientEvent
  <2>2. Rested(t) /\ t.state = "Closed" /\ t.response = s.response
    BY <2>1, ClosedIsSound DEF Sound
  <2> QED BY <1>1, <2>2 DEF Becomes, Follows, EdgeOnly, Origins
<1>3. CASE "ERR" \notin events
  <2>1. PICK i \in ClientInput(s, events) :
          \E u \in ClientOutput(ClientHangup(i, events), events) : t = RefreshInterests(u)
    BY <1>3 DEF OnClientEvent
  <2> DEFINE h == ClientHangup(i, events)
  <2>2. PICK u \in ClientOutput(h, events) : t = RefreshInterests(u)
    BY <2>1
  <2>3. /\ Sound(i)
        /\ s.state # "ReadingRequestHead" =>
             i.response = s.response /\ i.state \in {s.state, "Closed"}
        /\ s.state = "ReadingRequestHead" => EdgeOnly(i)
    BY <1>1, ClientRead DEF ClientInput
  <2>4. Sound(h) /\ h.response = i.response /\ h.state \in {i.state, "Closed"}
    BY <2>3, HungUp
  <2> HIDE DEF h
  <2>5. s.response.sentFrom # {} => s.state # "ReadingRequestHead"
    BY DEF Sound, AnswerFits, Unanswered, Origins
  <2>6. u = h \/ (h.state # "Closed" /\ u \in WriteClient(h))
    BY DEF ClientOutput
  <2>7. /\ Sound(u) /\ (h.state = "Closed" => u = h)
        /\ h.state # "Closed" => Follows(h, u)
        /\ EdgeOnly(h) => EdgeOnly(u)
    <3>1. CASE u = h
      BY <2>4, <3>1 DEF Follows, Sound, AnswerFits, Unanswered, Origins
    <3>2. CASE h.state # "Closed" /\ u \in WriteClient(h)
      BY <2>4, <3>2, ClientWritten
    <3> QED BY <2>6, <3>1, <3>2
  <2>8. Follows(s, u)
    BY <2>3, <2>4, <2>5, <2>7 DEF Follows
  <2>9. s.state = "ReadingRequestHead" => EdgeOnly(u)
    BY <2>3, <2>4, <2>7 DEF EdgeOnly, Origins
  <2>10. /\ Rested(t) /\ t.response = u.response
         /\ t.state \in {u.state, "Closed"}
         /\ t.state # "Closed" => t.stream.clientFd
    BY <2>2, <2>7, Refreshed
  <2> QED BY <2>8, <2>9, <2>10 DEF Becomes, Follows, EdgeOnly, Origins
<1> QED BY <1>2, <1>3

LEMMA UpstreamEventIsSound ==
    ASSUME NEW s, Sound(s), s.state \in Forwarding, NEW events,
           NEW t \in OnUpstreamEvent(s, events)
    PROVE  Becomes(s, t)
<1>1. PICK c \in UpstreamConnected(s, events) :
        \E w \in UpstreamOutput(c, events) :
          \E u \in UpstreamInput(w, events) : t = RefreshInterests(u)
  BY DEF OnUpstreamEvent
<1>2. PICK w \in UpstreamOutput(c, events) :
        \E u \in UpstreamInput(w, events) : t = RefreshInterests(u)
  BY <1>1
<1>3. PICK u \in UpstreamInput(w, events) : t = RefreshInterests(u)
  BY <1>2
<1>4. Whole(s) /\ s.stream.clientFd
  BY ForwardingIsOpen DEF Sound
<1>5. Sound(c) /\ (s.response.sentFrom # {} => c = s \/ c.state = "Closed")
  <2>1. CASE c \in FinishConnect(s) /\ s.state = "ConnectingUpstream"
    <3>1. s.response.sentFrom = {}
      BY <2>1 DEF Sound, AnswerFits, Unanswered, Origins
    <3> QED BY <2>1, <3>1, FinishedConnect
  <2>2. CASE c \in UpstreamFailure(s)
    BY <1>4, <2>2, FailureIsSound
  <2> QED BY <2>1, <2>2 DEF UpstreamConnected
<1>6. Sound(w) /\ (s.response.sentFrom # {} => w = c)
  <2>1. c.state = "SendingRequest" => c.response.sentFrom = {}
    BY <1>5 DEF Sound, AnswerFits, Unanswered, Origins
  <2>2. w = c \/ (c.state = "SendingRequest" /\ w \in WriteUpstream(c))
    BY DEF UpstreamOutput
  <2> QED BY <1>5, <2>1, <2>2, WrittenIsSound
<1>7. Sound(u) /\ Follows(w, u) /\ (w.state = "Closed" => u = w)
  <2>1. \/ u = w
        \/ /\ w.state \in {"ReadingResponseHead", "StreamingResponse"}
           /\ u \in ReadUpstream(w)
    BY DEF UpstreamInput
  <2>2. CASE u = w
    BY <1>6, <2>2 DEF Follows, Sound, AnswerFits, Unanswered, Origins
  <2> QED BY <1>6, <2>1, <2>2, UpstreamRead
<1>8. Follows(s, u)
  BY <1>5, <1>6, <1>7 DEF Follows
<1>9. /\ Rested(t) /\ t.response = u.response
      /\ t.state \in {u.state, "Closed"}
      /\ t.state # "Closed" => t.stream.clientFd
  BY <1>3, <1>7, Refreshed
<1> QED BY <1>8, <1>9 DEF Becomes, Follows, Forwarding

\* begin_drain takes a session nowhere but to its end.
LEMMA DrainBegun ==
    ASSUME NEW s, Quiet(s), NEW t, t = BeginDrain(s)
    PROVE  /\ Rested(t) /\ t.response = s.response
           /\ t.state # "Closed" => t.stream.clientFd
           /\ s.state = "Closed" => t = s
           /\ s.state = "ReadingRequestHead" /\ ~s.request.started => t.state = "Closed"
           /\ ~(s.state = "ReadingRequestHead" /\ ~s.request.started) =>
                t.state = s.state /\ t.request = s.request
<1> DEFINE r == [s EXCEPT !.connection.closeAfter = TRUE]
<1>1. s \in Sessions /\ Sound(s) /\ Whole(s)
  BY DEF Quiet, Rested, Sound, Whole
<1>2. /\ r.connection \in Connections /\ r.connection.closeAfter
      /\ r.connection.readClosed = s.connection.readClosed
  BY <1>1 DEF Sessions, Connections
<1>3. /\ r \in Sessions /\ r.state = s.state /\ r.request = s.request
      /\ r.response = s.response /\ r.stream = s.stream /\ r.history = s.history
  BY <1>1, <1>2 DEF Sessions
<1>4. /\ s.state = "Closed" => t = s
      /\ s.state = "ReadingRequestHead" /\ ~s.request.started => t = CloseSession(r)
      /\ s.state # "Closed" /\ ~(s.state = "ReadingRequestHead" /\ ~s.request.started) =>
           t = RefreshInterests(r)
  BY <1>3 DEF BeginDrain
<1> HIDE DEF r
<1>5. RequestKnown(r) /\ RequestFits(r)
  BY <1>1, <1>2, <1>3 DEF Sound, Whole, RequestKnown, RequestFits
<1>6. Sound(r) /\ Whole(r)
  BY <1>1, <1>2, <1>3, <1>5, RequestKept DEF Sound
<1>7. CASE s.state = "Closed"
  BY <1>4, <1>7 DEF Quiet
<1>8. CASE s.state = "ReadingRequestHead" /\ ~s.request.started
  BY <1>3, <1>4, <1>6, <1>8, ClosedIsSound
<1>9. CASE s.state # "Closed" /\ ~(s.state = "ReadingRequestHead" /\ ~s.request.started)
  <2>1. r.stream.clientFd
    BY <1>3, <1>9 DEF Quiet
  <2> QED BY <1>3, <1>4, <1>6, <1>9, <2>1, Refreshed
<1> QED BY <1>7, <1>8, <1>9

\* What becomes of a session that is only asked to end.
Ends(s, t) ==
    /\ Rested(t)
    /\ \/ t = s
       \/ t.state = "Closed"
       \/ /\ s.state # "ReadingRequestHead" /\ t.state # "ReadingRequestHead"
          /\ s.response.sentFrom = {}

\* check_timeout closes the session, or fails its upstream: an idle session has
\* none.
LEMMA TimeoutChecked ==
    ASSUME NEW s, Rested(s), s.state # "Closed" => s.stream.clientFd,
           NEW t \in CheckTimeout(s)
    PROVE  Ends(s, t)
<1>1. Whole(s) /\ Sound(s)
  BY DEF Rested, Sound
<1>2. CASE t \in {s, CloseSession(s)}
  BY <1>1, <1>2, ClosedIsSound DEF Ends
<1>3. CASE /\ t \in UpstreamFailure(s)
           /\ s.state \notin {"ReadingRequestHead", "Closed"}
  <2>1. /\ Sound(t) /\ Attempting(t)
        /\ s.response.sentFrom # {} => t.state = "Closed"
    BY <1>1, <1>3, FailureIsSound
  <2> QED BY <1>3, <2>1, AttemptingIsArmed DEF Ends, Rested, Attempting
<1>4. s.stream.upstreamFd => s.state \notin {"ReadingRequestHead", "Closed"}
  BY <1>1 DEF Sound, UpstreamFits, Forwarding
<1>5. t \in {s, CloseSession(s)} \/ (t \in UpstreamFailure(s) /\ s.state \notin {"ReadingRequestHead", "Closed"})
  BY <1>4 DEF CheckTimeout, RequestOverdue, IdleOverdue
<1> QED BY <1>2, <1>3, <1>5

--------------------------------------------------------------------------------
(* Between the callbacks *)

\* The constructor.
LEMMA NewIsSound == Sound(NewSession) /\ Armed(NewSession)
<1> DEFINE response == [mode |-> "NoBody", bodyLeft |-> 0, complete |-> FALSE,
                        bufferFrom |-> {}, sentFrom |-> {}]
           stream == [clientFd |-> TRUE, upstreamFd |-> FALSE, toUpstream |-> 0, toClient |-> 0,
                      requestPaused |-> FALSE, responsePaused |-> FALSE]
           connection == [readClosed |-> FALSE, closeAfter |-> FALSE, completedOne |-> FALSE]
           armed == [clientIn |-> TRUE, clientOut |-> FALSE,
                     upstreamIn |-> FALSE, upstreamOut |-> FALSE]
           due == [d \in Deadlines |-> FALSE]
           history == [misblamed |-> FALSE, cleanReuse |-> TRUE, lateRequest |-> FALSE]
<1>1. NewSession = [state |-> "ReadingRequestHead", request |-> NoRequest,
                    response |-> response, stream |-> stream, connection |-> connection,
                    armed |-> armed, due |-> due, history |-> history]
  BY DEF NewSession
<1>2. response \in Responses /\ response.sentFrom = {} /\ response.bufferFrom = {}
  BY ConfigAssumption DEF Responses, BodyModes
<1>3. /\ stream \in Streams /\ stream.clientFd /\ ~stream.upstreamFd
      /\ stream.toUpstream = 0 /\ stream.toClient = 0
      /\ ~stream.requestPaused /\ ~stream.responsePaused
  BY ConfigAssumption DEF Streams
<1>4. /\ connection \in Connections /\ ~connection.readClosed
      /\ armed \in Interests /\ armed.clientIn
      /\ history \in Histories /\ history.cleanReuse
  BY DEF Connections, Interests, Histories
<1>5. due \in [Deadlines -> BOOLEAN]
  OBVIOUS
<1>6. /\ NoRequest \in Requests /\ NoRequest.attempted = {} /\ NoUpstream \in Sources
      /\ ~NoRequest.bodyComplete /\ NoRequest.bodyLeft = 0 /\ ~NoRequest.replayable
  BY ConfigAssumption DEF NoRequest, Requests, Sources
<1> HIDE DEF response, stream, connection, armed, due, history
<1> DEFINE s == NewSession
<1>7. /\ s \in Sessions /\ s.state = "ReadingRequestHead" /\ s.request = NoRequest
      /\ s.response = response /\ s.stream = stream /\ s.connection = connection
      /\ s.armed = armed /\ s.history = history
  BY <1>1, <1>2, <1>3, <1>4, <1>5, <1>6 DEF Sessions, States
<1> HIDE DEF s
<1>8. Origins(s) = {}
  BY <1>2, <1>7 DEF Origins
<1>9. AttemptsAllowed(s.request)
  BY <1>6, <1>7, FS_EmptySet DEF AttemptsAllowed
<1>10. Whole(s)
  BY <1>3, <1>4, <1>6, <1>7, <1>8, <1>9 DEF Whole, OneOrigin, RequestKnown, DescriptorsKnown
<1>11. AnswerFits(s) /\ UpstreamFits(s) /\ RequestFits(s) /\ Armed(s)
  BY <1>3, <1>4, <1>6, <1>7, <1>8 DEF AnswerFits, UpstreamFits, RequestFits, Forwarding, Armed
<1> QED BY <1>10, <1>11 DEF Sound, s

\* The end of the batch destroys a session without a client, and leaves any other
\* as its handler left it.
LEMMA SettledIsQuiet ==
    ASSUME NEW s, Rested(s), NEW q, q = Settled(s)
    PROVE  /\ Quiet(q)
           /\ ~s.stream.clientFd => q.state = "Closed"
           /\ s.stream.clientFd => /\ q.state = s.state /\ q.request = s.request
                                   /\ q.response.sentFrom = s.response.sentFrom
                                   /\ q.response.bufferFrom = s.response.bufferFrom
           /\ s.state = "Closed" => q.state = "Closed"
<1>1. s \in Sessions /\ Sound(s) /\ Armed(s) /\ s.history.cleanReuse
  BY DEF Rested, Sound, Whole
<1>2. CASE ~s.stream.clientFd
  <2> DEFINE c == CloseSession(NewSession)
             t == [c EXCEPT !.history = s.history]
  <2>1. /\ Sound(c) /\ Armed(c) /\ c.state = "Closed" /\ Origins(c) = {}
    <3>1. Whole(NewSession) /\ Origins(NewSession) = {}
      <4>1. NewSession.state = "ReadingRequestHead"
        BY DEF NewSession
      <4> QED BY <4>1, NewIsSound DEF Sound, AnswerFits, Unanswered
    <3> QED BY <3>1, ClosedIsSound DEF Rested, Origins
  <2>2. q = t
    BY <1>2 DEF Settled
  <2> HIDE DEF c
  <2>3. c \in Sessions /\ c.history.cleanReuse = TRUE /\ s.history.cleanReuse = TRUE
    BY <1>1, <2>1 DEF Sound, Whole, Sessions, Histories
  <2>4. /\ t \in Sessions /\ t.state = c.state /\ t.request = c.request
        /\ t.response = c.response /\ t.stream = c.stream /\ t.connection = c.connection
        /\ t.history = s.history
    BY <1>1, <2>3 DEF Sessions
  <2> HIDE DEF t
  <2>5. Sound(t)
    BY <2>1, <2>3, <2>4, SoundKept DEF Alike
  <2>6. Armed(t) /\ Origins(t) = {}
    BY <2>1, <2>4 DEF Armed, Origins
  <2> QED BY <1>2, <2>1, <2>2, <2>4, <2>5, <2>6 DEF Quiet, Rested
<1>3. CASE s.stream.clientFd
  <2> DEFINE streaming == s.state = "StreamingResponse"
             due == [d \in Deadlines |-> s.due[d] /\ d \in Watched(s)]
             mode == IF streaming THEN s.response.mode ELSE "NoBody"
             left == IF streaming THEN s.response.bodyLeft ELSE 0
             t == [s EXCEPT !.due = due, !.response.mode = mode, !.response.bodyLeft = left]
  <2>1. q = t
    BY <1>3 DEF Settled
  <2>2. s.response \in Responses
    BY <1>1 DEF Sessions
  <2>3. due \in [Deadlines -> BOOLEAN] /\ mode \in BodyModes /\ left \in 0..MaxResponseBody
    BY <2>2, ConfigAssumption DEF Responses, BodyModes
  <2> HIDE DEF due, mode, left
  <2>4. /\ t.response \in Responses
        /\ t.response.sentFrom = s.response.sentFrom
        /\ t.response.bufferFrom = s.response.bufferFrom
        /\ t.response.complete = s.response.complete
    BY <1>1, <2>2, <2>3 DEF Responses, Sessions
  <2>5. /\ t \in Sessions /\ t.state = s.state /\ t.request = s.request
        /\ t.stream = s.stream /\ t.connection = s.connection /\ t.armed = s.armed
        /\ t.history = s.history
    BY <1>1, <2>3, <2>4 DEF Sessions
  <2> HIDE DEF t
  <2>6. Sound(t)
    BY <1>1, <2>4, <2>5, SoundKept DEF Alike
  <2>7. Armed(t)
    BY <1>1, <2>5 DEF Armed
  <2>8. s.state # "Closed"
    BY <1>1, <1>3 DEF Sound, Whole, DescriptorsKnown
  <2> QED BY <1>3, <2>1, <2>4, <2>5, <2>6, <2>7, <2>8 DEF Quiet, Rested
<1> QED BY <1>2, <1>3

LEMMA FollowsItself ==
    ASSUME NEW s, Sound(s)
    PROVE  Follows(s, s)
  BY DEF Follows, Sound, AnswerFits, Unanswered, Origins

\* What any step makes of a session.
Steps(s, q) ==
    /\ Quiet(q)
    /\ Follows(s, q)
    /\ s.state = "ReadingRequestHead" => EdgeOnly(q)
    /\ s.state = "Closed" => q = s

LEMMA EventSteps ==
    ASSUME NEW s, Quiet(s), s.state # "Closed", NEW t, Becomes(s, t), NEW q, q = Settled(t)
    PROVE  Steps(s, q)
<1>1. /\ Quiet(q)
      /\ ~t.stream.clientFd => q.state = "Closed"
      /\ t.stream.clientFd => /\ q.state = t.state
                              /\ q.response.sentFrom = t.response.sentFrom
                              /\ q.response.bufferFrom = t.response.bufferFrom
      /\ t.state = "Closed" => q.state = "Closed"
  BY SettledIsQuiet DEF Becomes
<1>2. q.state = "Closed" => Follows(s, q) /\ EdgeOnly(q)
  BY <1>1 DEF Follows, EdgeOnly, Quiet
<1>3. t.stream.clientFd => Follows(s, q) /\ (s.state = "ReadingRequestHead" => EdgeOnly(q))
  BY <1>1 DEF Becomes, Follows, EdgeOnly, Origins
<1> QED BY <1>1, <1>2, <1>3 DEF Steps

\* begin_drain and check_timeout: the session stays, or ends.
LEMMA Swept ==
    ASSUME NEW s, Quiet(s), NEW d, d = DrainStep(s), NEW t \in CheckTimeout(d),
           NEW q, q = Settled(t), s.state # "Closed"
    PROVE  Ends(d, t) /\ Steps(s, q)
<1>1. Sound(s) /\ Whole(s)
  BY DEF Quiet, Rested, Sound
<1>2. /\ Rested(d) /\ d.response = s.response /\ d.state \in {s.state, "Closed"}
      /\ d.state # "Closed" => d.stream.clientFd
  <2>1. CASE d = s
    BY <2>1 DEF Quiet
  <2>2. CASE d = CloseSession(s)
    BY <1>1, <2>2, ClosedIsSound
  <2>3. CASE d = BeginDrain(s)
    BY <2>3, DrainBegun
  <2> QED BY <2>1, <2>2, <2>3 DEF DrainStep
<1>3. Ends(d, t)
  BY <1>2, TimeoutChecked
<1>4. /\ Quiet(q)
      /\ ~t.stream.clientFd => q.state = "Closed"
      /\ t.stream.clientFd => /\ q.state = t.state
                              /\ q.response.sentFrom = t.response.sentFrom
                              /\ q.response.bufferFrom = t.response.bufferFrom
      /\ t.state = "Closed" => q.state = "Closed"
  BY <1>3, SettledIsQuiet DEF Ends
<1>5. q.state = "Closed" => Follows(s, q) /\ EdgeOnly(q)
  BY <1>4 DEF Follows, EdgeOnly, Quiet
<1>6. ASSUME t = d, t.stream.clientFd, t.state # "Closed"
      PROVE  Follows(s, q) /\ (s.state = "ReadingRequestHead" => EdgeOnly(q))
  <2>1. /\ q.state = s.state /\ Origins(q) = Origins(s)
        /\ q.response.sentFrom = s.response.sentFrom
    BY <1>2, <1>4, <1>6 DEF Origins
  <2>2. Follows(s, q)
    BY <1>1, <2>1, FollowsItself DEF Follows
  <2>3. s.state = "ReadingRequestHead" => Origins(s) = {}
    BY <1>1 DEF Sound, AnswerFits, Unanswered
  <2> QED BY <2>1, <2>2, <2>3 DEF EdgeOnly
<1>7. ASSUME d.state # "ReadingRequestHead", t.state # "ReadingRequestHead",
             d.response.sentFrom = {}, d.state # "Closed"
      PROVE  Follows(s, q) /\ s.state # "ReadingRequestHead"
  BY <1>2, <1>7 DEF Follows
<1>8. d.state = "Closed" => t.state = "Closed"
  BY DEF CheckTimeout
<1>9. CASE t.state = "Closed" \/ ~t.stream.clientFd
  BY <1>3, <1>4, <1>5, <1>9 DEF Steps
<1>10. CASE t.state # "Closed" /\ t.stream.clientFd
  BY <1>3, <1>4, <1>6, <1>7, <1>8, <1>10 DEF Steps, Ends
<1> QED BY <1>3, <1>9, <1>10

--------------------------------------------------------------------------------
(* The inductive invariant *)

IInv == TypeOK /\ Quiet(session)

LEMMA Initially == Init => IInv
<1>1. NewSession.state = "ReadingRequestHead" /\ NewSession.stream.clientFd
  BY DEF NewSession
<1>2. Quiet(NewSession) /\ NewSession \in Sessions
  BY <1>1, NewIsSound DEF Quiet, Rested, Sound, Whole
<1> QED BY <1>2 DEF Init, IInv, TypeOK

\* One step per action: what it makes of the session.
LEMMA StepByStep ==
    ASSUME IInv, [Next]_vars
    PROVE  IInv' /\ Steps(session, session')
<1>1. /\ Quiet(session) /\ Sound(session) /\ session \in Sessions
      /\ draining \in BOOLEAN /\ drainDue \in BOOLEAN
  BY DEF IInv, TypeOK, Quiet, Rested
<1>2. ASSUME Steps(session, session'), draining' \in BOOLEAN, drainDue' \in BOOLEAN
      PROVE  IInv'
  BY <1>2 DEF IInv, TypeOK, Steps, Quiet, Rested, Sound, Whole
<1>3. ASSUME session' = session
      PROVE  Steps(session, session')
  <2>1. session.state = "ReadingRequestHead" => EdgeOnly(session)
    BY <1>1 DEF Sound, AnswerFits, Unanswered, EdgeOnly
  <2> QED BY <1>1, <1>3, <2>1, FollowsItself DEF Steps
<1>4. CASE ClientEvent
  <2>1. PICK events \in ClientEvents(session) :
          \E t \in OnClientEvent(session, events) : session' = Settled(t)
    BY <1>4 DEF ClientEvent
  <2>2. Steps(session, session')
    BY <1>1, <1>4, <2>1, ClientEventIsSound, EventSteps DEF ClientEvent
  <2> QED BY <1>1, <1>2, <1>4, <2>2 DEF ClientEvent
<1>5. CASE UpstreamEvent
  <2>1. PICK events \in UpstreamEvents(session) :
          \E t \in OnUpstreamEvent(session, events) : session' = Settled(t)
    BY <1>5 DEF UpstreamEvent
  <2>2. session.state \in Forwarding /\ session.state # "Closed"
    BY <1>1, <1>5 DEF UpstreamEvent, Sound, UpstreamFits, Forwarding
  <2>3. Steps(session, session')
    BY <1>1, <2>1, <2>2, UpstreamEventIsSound, EventSteps
  <2> QED BY <1>1, <1>2, <1>5, <2>3 DEF UpstreamEvent
<1>6. CASE Tick
  <2>1. Steps(session, session')
    BY <1>1, <1>6, Swept DEF Tick
  <2> QED BY <1>1, <1>2, <1>6, <2>1 DEF Tick
<1>7. ASSUME NEW d \in Deadlines, Expire(d)
      PROVE  IInv' /\ Steps(session, session')
  <2> DEFINE t == [session EXCEPT !.due[d] = TRUE]
  <2>1. /\ t \in Sessions /\ Alike(session, t) /\ t.stream = session.stream
        /\ t.armed = session.armed /\ t.response = session.response
    BY <1>1 DEF Sessions, Alike
  <2>2. session' = t /\ UNCHANGED <<draining, drainDue>> /\ d \in Watched(session)
    BY <1>7 DEF Expire
  <2> HIDE DEF t
  <2>3. session.state # "Closed"
    BY <2>2 DEF Watched
  <2>4. Sound(t) /\ Armed(t) /\ Origins(t) = Origins(session)
    BY <1>1, <2>1, SoundKept DEF Alike, Armed, Quiet, Rested, Origins
  <2>5. Quiet(t)
    BY <1>1, <2>1, <2>4 DEF Quiet, Rested, Alike
  <2>6. Follows(session, t)
    BY <1>1, <2>1, FollowsItself DEF Follows, Alike
  <2>7. session.state = "ReadingRequestHead" => EdgeOnly(t)
    BY <1>1, <2>4 DEF Sound, AnswerFits, Unanswered, EdgeOnly
  <2>8. Steps(session, session')
    BY <2>2, <2>3, <2>5, <2>6, <2>7 DEF Steps
  <2> QED BY <1>1, <1>2, <2>2, <2>8
<1>8. CASE RequestDrain
  <2> DEFINE t == BeginDrain(session)
  <2>1. session' = Settled(t) /\ session.state # "Closed" /\ draining' = TRUE
        /\ UNCHANGED drainDue
    BY <1>8 DEF RequestDrain
  <2>2. /\ Rested(t) /\ t.response = session.response
        /\ t.state # "Closed" => t.stream.clientFd
        /\ t.state \in {session.state, "Closed"}
    BY <1>1, DrainBegun
  <2> HIDE DEF t
  <2>3. session.state = "ReadingRequestHead" => EdgeOnly(session)
    BY <1>1 DEF Sound, AnswerFits, Unanswered, EdgeOnly
  <2>4. Becomes(session, t)
    BY <1>1, <2>2, <2>3, FollowsItself DEF Becomes, Follows, EdgeOnly, Origins
  <2>5. Steps(session, session')
    BY <1>1, <2>1, <2>4, EventSteps
  <2> QED BY <1>1, <1>2, <2>1, <2>5
<1>9. CASE ExpireDrain
  BY <1>1, <1>2, <1>3, <1>9 DEF ExpireDrain
<1>10. CASE UNCHANGED vars
  BY <1>1, <1>2, <1>3, <1>10 DEF vars
<1> QED BY <1>4, <1>5, <1>6, <1>7, <1>8, <1>9, <1>10 DEF Next

LEMMA Preserved == IInv /\ [Next]_vars => IInv'
  BY StepByStep

\* The inductive invariant holds of every session, between any two callbacks.
THEOREM Invariant == Spec => []IInv
  BY Initially, Preserved, PTL DEF Spec

--------------------------------------------------------------------------------
(* What follows from it *)

\* Every handler leaves every field within its type: the buffers within
\* stream_buffer.capacity, the body lengths never below zero.
THEOREM TypeCorrect == Spec => []TypeOK
<1>1. IInv => TypeOK
  BY DEF IInv
<1> QED BY <1>1, Invariant, PTL

\* No client ever gets the bytes of two answers to one request, however many
\* upstreams there are and whatever fails when.
THEOREM OneAnswer == Spec => []NoSplice
<1>1. ASSUME IInv
      PROVE  NoSplice
  <2>1. PICK x \in Sources : Origins(session) \subseteq {x}
    BY <1>1 DEF IInv, Quiet, Rested, Sound, Whole, OneOrigin
  <2>2. Origins(session) = {} \/ Origins(session) = {x}
    BY <2>1
  <2>3. Cardinality(Origins(session)) = 0 \/ Cardinality(Origins(session)) = 1
    BY <2>2, FS_EmptySet, FS_Singleton
  <2> QED BY <2>3 DEF NoSplice, Origins
<1> QED BY <1>1, Invariant, PTL

\* A request reaches a second upstream only if it is a GET or HEAD without a
\* body, and no request a third.
THEOREM RetryIsSafe == Spec => []SafeRetry
<1>1. IInv => SafeRetry
  BY DEF IInv, Quiet, Rested, Sound, Whole, AttemptsAllowed, SafeRetry
<1> QED BY <1>1, Invariant, PTL

\* No callback leaks a descriptor or goes on with one it has removed: the upstream
\* one is there while the session talks to the endpoint it selected, the client's
\* until the session is closed.
THEOREM DescriptorsAgree == Spec => []DescriptorsFollowState
<1>1. ASSUME IInv
      PROVE  DescriptorsFollowState
  <2>1. Quiet(session) /\ Sound(session)
    BY <1>1 DEF IInv, Quiet, Rested
  <2>2. session.state = "Closed" => ~session.stream.clientFd
    BY <2>1 DEF Sound, Whole, DescriptorsKnown
  <2> QED BY <2>1, <2>2 DEF Quiet, Sound, UpstreamFits, DescriptorsFollowState
<1> QED BY <1>1, Invariant, PTL

\* Nothing of a request is overtaken by its own response, in whatever pieces the
\* kernel takes the one and brings the other.
THEOREM RequestBeforeAnswer == Spec => []AnswerAfterRequest
<1>1. IInv => AnswerAfterRequest
  BY DEF IInv, Quiet, Rested, Sound, RequestFits, AnswerAfterRequest
<1> QED BY <1>1, Invariant, PTL

\* Every reset for another request on the connection came behind a whole request
\* and a whole answer of the selected upstream, sent to the last byte.
THEOREM ReuseIsClean == Spec => []CleanReuse
<1>1. IInv => CleanReuse
  BY DEF IInv, Quiet, Rested, Sound, Whole, CleanReuse
<1> QED BY <1>1, Invariant, PTL

\* A side that is paused has bytes above the low watermark before it, and the
\* socket they leave by is watched, for any two watermarks in their order.
THEOREM PausesEnd == Spec => []BackpressureHasWaker
<1>1. ASSUME IInv
      PROVE  BackpressureHasWaker
  <2>1. Sound(session) /\ Armed(session) /\ session \in Sessions
    BY <1>1 DEF IInv, TypeOK, Quiet, Rested
  <2>2. session.stream.toUpstream \in Nat
    BY <2>1, ConfigAssumption DEF Sessions, Streams
  <2>3. ASSUME session.state \in {"ConnectingUpstream", "SendingRequest"},
               session.stream.requestPaused
        PROVE  session.stream.toUpstream > LowWatermark /\ session.armed.upstreamOut
    <3>1. session.stream.toUpstream > LowWatermark
      BY <2>1, <2>3 DEF Sound, RequestFits
    <3>2. session.stream.toUpstream > 0
      BY <2>2, <3>1, ConfigAssumption
    <3> QED BY <2>1, <2>3, <3>1, <3>2 DEF Armed
  <2>4. ASSUME session.state = "StreamingResponse", session.stream.responsePaused
        PROVE  session.stream.toClient > LowWatermark /\ session.armed.clientOut
    BY <2>1, <2>4 DEF Sound, AnswerFits, Armed
  <2> QED BY <2>3, <2>4 DEF BackpressureHasWaker
<1> QED BY <1>1, Invariant, PTL

\* No session waits for nothing but its deadline, except to have an error read.
THEOREM AlwaysArmed == Spec => []ArmedForProgress
<1>1. ASSUME IInv
      PROVE  ArmedForProgress
  <2>1. Sound(session) /\ Armed(session) /\ session \in Sessions
    BY <1>1 DEF IInv, TypeOK, Quiet, Rested
  <2>2. session.stream.toUpstream \in Nat /\ session.armed \in Interests
        /\ session.stream.responsePaused \in BOOLEAN /\ session.state \in States
    BY <2>1, ConfigAssumption DEF Sessions, Streams
  <2>3. CASE session.state = "SendingRequest" /\ session.stream.toUpstream > 0
    BY <2>1, <2>3 DEF Armed, ArmedForProgress
  <2>4. CASE session.state = "SendingRequest" /\ ~(session.stream.toUpstream > 0)
    <3>1. session.stream.toUpstream = 0
      BY <2>2, <2>4
    <3> QED BY <2>1, <2>4, <3>1 DEF Armed, ArmedForProgress
  <2>5. CASE session.state = "StreamingResponse"
    BY <2>1, <2>2, <2>5 DEF Armed, ArmedForProgress
  <2>6. CASE session.state \in {"ReadingRequestHead", "ConnectingUpstream", "ReadingResponseHead"}
    BY <2>1, <2>6 DEF Armed, ArmedForProgress
  <2>7. CASE session.state \in {"DrainingResponse", "Closed"}
    BY <2>7 DEF ArmedForProgress
  <2> QED BY <2>2, <2>3, <2>4, <2>5, <2>6, <2>7 DEF States
<1> QED BY <1>1, Invariant, PTL

--------------------------------------------------------------------------------
(* What the service relies on *)

LifeOf(s) ==
    CASE s.state = "Closed" -> "Closed"
      [] s.state = "ReadingRequestHead" /\ ~s.request.started -> "Idle"
      [] OTHER -> "Busy"

LEMMA LifeCases ==
    ASSUME NEW s
    PROVE  /\ LifeOf(s) = "Closed" <=> s.state = "Closed"
           /\ LifeOf(s) = "Idle" <=> s.state = "ReadingRequestHead" /\ ~s.request.started
           /\ LifeOf(s) \in {"Idle", "Busy", "Closed"}
  BY DEF LifeOf

\* begin_drain closes an idle session and leaves a busy one busy.
LEMMA DrainsLife ==
    ASSUME NEW s, Quiet(s), NEW t, t = BeginDrain(s)
    PROVE  LifeOf(t) = Service!Drained(LifeOf(s))
<1>1. /\ s.state = "Closed" => t = s
      /\ s.state = "ReadingRequestHead" /\ ~s.request.started => t.state = "Closed"
      /\ ~(s.state = "ReadingRequestHead" /\ ~s.request.started) =>
           t.state = s.state /\ t.request = s.request
  BY DrainBegun
<1> QED BY <1>1 DEF LifeOf, Service!Drained

LEMMA SettlesLife ==
    ASSUME NEW s, Rested(s), s.state # "Closed" => s.stream.clientFd, NEW q, q = Settled(s)
    PROVE  LifeOf(q) = LifeOf(s)
<1>1. /\ s.stream.clientFd => q.state = s.state /\ q.request = s.request
      /\ s.state = "Closed" => q.state = "Closed"
  BY SettledIsQuiet
<1> QED BY <1>1 DEF LifeOf

\* Out of running mode only a drain deadline or a failure makes a difference.
LEMMA SweepsLife ==
    ASSUME NEW s, Quiet(s), s.state # "Closed", NEW t \in CheckTimeout(DrainStep(s)),
           NEW q, q = Settled(t)
    PROVE  LifeOf(q) \in Service!AfterSweep(LifeOf(s), draining, drainDue)
<1> DEFINE d == DrainStep(s)
<1>1. Ends(d, t)
  BY Swept
<1>2. /\ ~t.stream.clientFd => q.state = "Closed"
      /\ t.stream.clientFd => q.state = t.state /\ q.request = t.request
      /\ t.state = "Closed" => q.state = "Closed"
  BY <1>1, SettledIsQuiet DEF Ends
<1>3. LifeOf(q) \in {LifeOf(d), "Closed"}
  <2>1. CASE q.state = "Closed"
    BY <2>1 DEF LifeOf
  <2>2. CASE q.state # "Closed"
    <3>1. q.state = t.state /\ q.request = t.request /\ t.state # "Closed"
      BY <1>2, <2>2
    <3>2. d.state = "Closed" => t.state = "Closed"
      BY DEF CheckTimeout
    <3>3. t = d \/ (d.state # "ReadingRequestHead" /\ t.state # "ReadingRequestHead")
      BY <1>1, <3>1 DEF Ends
    <3> HIDE DEF d
    <3> QED BY <3>1, <3>2, <3>3 DEF LifeOf
  <2> QED BY <2>1, <2>2
<1>4. LifeOf(s) \in Service!Open
  BY DEF LifeOf, Service!Open
<1>5. CASE ~draining
  <2>1. d = s
    BY <1>5 DEF DrainStep
  <2> HIDE DEF d
  <2> QED BY <1>3, <1>4, <1>5, <2>1 DEF Service!AfterSweep
<1>6. CASE draining /\ drainDue
  <2>1. d = CloseSession(s)
    BY <1>6 DEF DrainStep
  <2>2. d.state = "Closed"
    BY <2>1, ClosedIsSound DEF Quiet, Rested, Sound
  <2> HIDE DEF d
  <2>3. LifeOf(d) = "Closed"
    BY <2>2 DEF LifeOf
  <2> QED BY <1>3, <1>4, <1>6, <2>3 DEF Service!AfterSweep
<1>7. CASE draining /\ ~drainDue
  <2>1. d = BeginDrain(s)
    BY <1>7 DEF DrainStep
  <2>2. LifeOf(d) = Service!Drained(LifeOf(s))
    BY <2>1, DrainsLife
  <2> HIDE DEF d
  <2> QED BY <1>3, <1>4, <1>7, <2>2 DEF Service!AfterSweep
<1> QED BY <1>5, <1>6, <1>7

\* A session lives as ServiceLifecycle takes it to: a command closes an idle one at
\* once and leaves a busy one to its answer, a tick behind the drain deadline
\* closes any, and a closed one stays closed.
THEOREM LifeKept == Spec => LifeAsPromised
<1>1. ASSUME IInv, [Next]_vars
      PROVE  [/\ Life' \in Service!AfterEvent(Life)
              /\ RequestDrain => Life' = Service!Drained(Life)
              /\ Tick => Life' \in Service!AfterSweep(Life, draining, drainDue)]_vars
  <2>1. Quiet(session) /\ Steps(session, session')
    BY <1>1, StepByStep DEF IInv
  <2>2. Life = LifeOf(session) /\ Life' = LifeOf(session')
    BY DEF Life, LifeOf
  <2>3. LifeOf(session') \in Service!AfterEvent(LifeOf(session))
    <3>1. session.state = "Closed" => session' = session
      BY <2>1 DEF Steps
    <3> QED BY <3>1, LifeCases DEF Service!AfterEvent, Service!Open
  <2>4. ASSUME RequestDrain
        PROVE  LifeOf(session') = Service!Drained(LifeOf(session))
    <3> DEFINE t == BeginDrain(session)
    <3>1. session' = Settled(t)
      BY <2>4 DEF RequestDrain
    <3>2. /\ Rested(t) /\ (t.state # "Closed" => t.stream.clientFd)
          /\ LifeOf(t) = Service!Drained(LifeOf(session))
      BY <2>1, DrainBegun, DrainsLife
    <3> HIDE DEF t
    <3> QED BY <3>1, <3>2, SettlesLife
  <2>5. ASSUME Tick
        PROVE  LifeOf(session') \in Service!AfterSweep(LifeOf(session), draining, drainDue)
    BY <2>1, <2>5, SweepsLife DEF Tick
  <2> QED BY <2>2, <2>3, <2>4, <2>5
<1> QED BY <1>1, Invariant, PTL DEF Spec, LifeAsPromised

--------------------------------------------------------------------------------
(* What the client sees *)

\* The answer of Exchange that a session shows.
Shown ==
    CASE session.response.sentFrom = {} -> "none"
      [] session.response.sentFrom = {NoUpstream} -> "edge"
      [] OTHER -> "upstream"

\* What is sent is sent by one, while it is being answered and not before; and
\* what EdgeGate has sent is the last answer on the connection.
LEMMA Answering ==
    ASSUME Quiet(session)
    PROVE  /\ session.response.sentFrom # {} => Phase = "Answering"
           /\ session.response.sentFrom = {} =>
                Phase \in {"Asking", "Serving", "Closed"} /\ Shown = "none"
           /\ session.state = "ReadingRequestHead" => Phase = "Asking" /\ Shown = "none"
           /\ session.state = "Closed" => Phase = "Closed" /\ Shown = "none"
           /\ session.response.sentFrom # {} => Shown \in {"edge", "upstream"}
           /\ Shown = "edge" => session.response.sentFrom = {NoUpstream}
<1>1. session.state \in {"ReadingRequestHead", "Closed"} => session.response.sentFrom = {}
  BY DEF Quiet, Rested, Sound, AnswerFits, Unanswered, Origins
<1> QED BY <1>1 DEF Phase, Shown

\* One callback, as the client sees it.
LEMMA CallbackKeepsPromise ==
    ASSUME Quiet(session), Quiet(session'), Steps(session, session'), session.state # "Closed"
    PROVE  Client!Next \/ (Phase' = Phase /\ Shown' = Shown)
<1>1. /\ session'.response.sentFrom # {} => Phase' = "Answering"
      /\ session'.response.sentFrom = {} =>
           Phase' \in {"Asking", "Serving", "Closed"} /\ Shown' = "none"
      /\ session'.state = "ReadingRequestHead" => Phase' = "Asking" /\ Shown' = "none"
      /\ session'.state = "Closed" => Phase' = "Closed" /\ Shown' = "none"
      /\ session'.response.sentFrom # {} => Shown' \in {"edge", "upstream"}
  <2>1. session'.state \in {"ReadingRequestHead", "Closed"} => session'.response.sentFrom = {}
    BY DEF Quiet, Rested, Sound, AnswerFits, Unanswered, Origins
  <2> QED BY <2>1 DEF Phase, Shown
<1>2. CASE session'.state = "Closed"
  <2>1. Phase # "Closed" /\ Phase' = "Closed" /\ Shown' = "none"
    BY <1>1, <1>2 DEF Phase
  <2> QED BY <2>1 DEF Client!Next, Client!Close, Shown
<1>3. CASE session.state = "ReadingRequestHead" /\ session'.state # "Closed"
  <2>1. Phase = "Asking" /\ Shown = "none" /\ EdgeOnly(session')
    BY <1>3, Answering DEF Steps
  <2>2. CASE session'.response.sentFrom # {}
    <3>1. session'.response.sentFrom = {NoUpstream}
      BY <2>1, <2>2 DEF EdgeOnly, Origins
    <3>2. Phase' = "Answering" /\ Shown' = "edge"
      BY <1>1, <3>1 DEF Shown
    <3> QED BY <2>1, <3>2 DEF Client!Next, Client!Begin, Shown
  <2>3. CASE session'.response.sentFrom = {}
    <3>1. Phase' \in {"Asking", "Serving"} /\ Shown' = "none"
      BY <1>1, <1>3, <2>3 DEF Phase
    <3> QED BY <2>1, <3>1 DEF Client!Next, Client!Accept, Shown
  <2> QED BY <2>2, <2>3
<1>4. CASE /\ session.state # "ReadingRequestHead" /\ session.response.sentFrom = {}
           /\ session'.state # "Closed"
  <2>1. Phase = "Serving" /\ Shown = "none"
    BY <1>4 DEF Phase, Shown
  <2>2. CASE session'.response.sentFrom # {}
    <3>1. Phase' = "Answering" /\ Shown' \in {"edge", "upstream"}
      BY <1>1, <2>2
    <3> QED BY <2>1, <3>1 DEF Client!Next, Client!Begin, Shown
  <2>3. CASE session'.response.sentFrom = {}
    <3>1. Phase' \in {"Asking", "Serving"} /\ Shown' = "none"
      BY <1>1, <1>4, <2>3 DEF Phase
    <3> QED BY <2>1, <3>1 DEF Client!Next, Client!Reuse, Shown
  <2> QED BY <2>2, <2>3
<1>5. CASE session.response.sentFrom # {} /\ session'.state # "Closed"
  <2>1. /\ Phase = "Answering" /\ Shown \in {"edge", "upstream"}
        /\ Shown = "edge" => session.response.sentFrom = {NoUpstream}
    BY <1>5, Answering
  <2>2. CASE /\ session'.state = "ReadingRequestHead"
             /\ session.response.sentFrom # {NoUpstream}
    BY <1>1, <2>1, <2>2 DEF Client!Next, Client!Reuse, Shown
  <2>3. CASE /\ session'.state # "ReadingRequestHead"
             /\ session'.response.sentFrom = session.response.sentFrom
    <3>1. Phase' = Phase
      BY <1>1, <1>5, <2>1, <2>3
    <3>2. Shown' = Shown
      BY <2>3 DEF Shown
    <3> QED BY <3>1, <3>2
  <2> QED BY <1>5, <2>2, <2>3 DEF Steps, Follows
<1> QED BY <1>2, <1>3, <1>4, <1>5

\* Whatever the upstreams, the timer and a drain do, a client is answered one
\* request at a time, with one answer by one author, and nothing follows an
\* answer of EdgeGate's own on its connection.
THEOREM PromiseKept == Spec => KeepsExchange
<1>1. ASSUME Init
      PROVE  Client!Init
  <2>1. session.state = "ReadingRequestHead" /\ session.response.sentFrom = {}
    BY <1>1 DEF Init, NewSession
  <2> QED BY <2>1 DEF Client!Init, Phase
<1>2. ASSUME IInv, [Next]_vars
      PROVE  [Client!Next]_(Client!vars)
  <2> SUFFICES Client!Next \/ (Phase' = Phase /\ Shown' = Shown)
    BY DEF Client!vars, Shown
  <2>1. Quiet(session) /\ Quiet(session') /\ Steps(session, session')
    BY <1>2, StepByStep DEF IInv, Steps
  <2>2. CASE session.state = "Closed"
    <3>1. session' = session
      BY <2>1, <2>2 DEF Steps
    <3> QED BY <3>1 DEF Phase, Shown
  <2>3. CASE session.state # "Closed"
    BY <2>1, <2>3, CallbackKeepsPromise
  <2> QED BY <2>2, <2>3
<1> QED BY <1>1, <1>2, Invariant, PTL DEF Spec, KeepsExchange, Client!Spec
================================================================================
