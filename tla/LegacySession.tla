------------------------------ MODULE LegacySession ------------------------------
(***************************************************************************)
(* One session of the buffering proxy, src/proxy/proxy_session.cpp, from the *)
(* accept in proxy_server.cpp on.  It reads a whole request, sends it to its  *)
(* upstream, reads the whole response, and only then begins to answer.  It    *)
(* has no timer: what does not happen on one of its two sockets never does.   *)
(*                                                                         *)
(* As in ReliableSession a member function is an operator from a session to   *)
(* the set of sessions it may leave behind, and one action is one callback.   *)
(* Here the two buffers are ByteBuffers with their bytes in them.  What the    *)
(* parsers say of the bytes read is any of their answers (MessageStreams).    *)
(***************************************************************************)
EXTENDS ByteBuffer, FiniteSets

CONSTANTS
    RequestLengths,     \* lengths a request to the upstream may have
    AnswerLengths,      \* lengths a response to the client may have
    ErrorLength,        \* length of an answer EdgeGate makes itself
    RequestCapacity,    \* max_size of to_upstream_
    AnswerCapacity      \* max_size of to_client_

\* kHeaderRewriteReserve leaves room for an error in to_client_.
ASSUME LegacyAssumption ==
    /\ RequestLengths \subseteq Nat \ {0} /\ AnswerLengths \subseteq Nat \ {0}
    /\ RequestCapacity \in Nat \ {0} /\ AnswerCapacity \in Nat \ {0}
    /\ ErrorLength \in 1..AnswerCapacity

VARIABLE session

vars == <<session>>

--------------------------------------------------------------------------------
(* The state of a session *)

States == {"ReadingRequest", "ConnectingUpstream", "SendingRequest",
           "ReadingResponse", "SendingResponse", "Closed"}

\* A message is told from another by who made it, a byte by its place in it.
Authors == {"client", "upstream", "edge"}
Bytes == Authors \X Nat
Text(author, length) == [i \in 1..length |-> <<author, i>>]

Interests == [clientIn: BOOLEAN, clientOut: BOOLEAN, clientRdhup: BOOLEAN,
              upstreamIn: BOOLEAN, upstreamOut: BOOLEAN]

\* routed: config_.route_table is set.  requestSent and answerSent are history:
\* the bytes of this exchange handed to the kernel, and the length of its
\* request; and whether each reuse of the connection came after a whole exchange.
Sessions == [state: States, routed: BOOLEAN, clientFd: BOOLEAN, upstreamFd: BOOLEAN,
             toUpstream: Buffers(Bytes), toClient: Buffers(Bytes),
             readClosed: BOOLEAN, closeAfter: BOOLEAN, responseParser: BOOLEAN,
             armed: Interests, requestLength: Nat,
             requestSent: Seq(Bytes), answerSent: Seq(Bytes), cleanReuse: BOOLEAN]

\* ProxyListener's accept: the constructor and EventLoop::add.
NewSession(routed) ==
    [state |-> "ReadingRequest", routed |-> routed, clientFd |-> TRUE, upstreamFd |-> FALSE,
     toUpstream |-> NewBuffer(RequestCapacity), toClient |-> NewBuffer(AnswerCapacity),
     readClosed |-> FALSE, closeAfter |-> FALSE, responseParser |-> FALSE,
     armed |-> [clientIn |-> TRUE, clientOut |-> FALSE, clientRdhup |-> TRUE,
                upstreamIn |-> FALSE, upstreamOut |-> FALSE],
     requestLength |-> 0, requestSent |-> <<>>, answerSent |-> <<>>, cleanReuse |-> TRUE]

--------------------------------------------------------------------------------
(* Closing and interests *)

CloseUpstream(s) ==
    [s EXCEPT !.upstreamFd = FALSE, !.armed.upstreamIn = FALSE, !.armed.upstreamOut = FALSE]

\* The bytes the session leaves unsent go with it.
CloseSession(s) ==
    IF s.state = "Closed" THEN s
    ELSE [CloseUpstream(s) EXCEPT !.state = "Closed", !.clientFd = FALSE]

\* Slip: the client is watched for output from the start of the answer only.
InterestsKeepingClient(s) ==
    [s.armed EXCEPT !.upstreamIn = s.upstreamFd /\ s.state = "ReadingResponse",
                    !.upstreamOut = s.upstreamFd
                                    /\ s.state \in {"ConnectingUpstream", "SendingRequest"}]

\* interests, for both endpoints
WantedInterests(s) ==
    [clientIn |-> s.state = "ReadingRequest" /\ ~s.readClosed,
     clientOut |-> ReadableSize(s.toClient) > 0,
     clientRdhup |-> ~s.readClosed,
     upstreamIn |-> s.upstreamFd /\ s.state = "ReadingResponse",
     upstreamOut |-> s.upstreamFd /\ s.state \in {"ConnectingUpstream", "SendingRequest"}]

\* EventLoop::modify refuses a descriptor that is not registered; the session
\* knows none such.
RefreshInterests(s) ==
    IF s.state = "Closed" THEN s ELSE [s EXCEPT !.armed = WantedInterests(s)]

--------------------------------------------------------------------------------
(* Answering the client *)

\* The last part of write_client: another request may come on this connection.
Reused(s) ==
    [s EXCEPT !.state = "ReadingRequest", !.closeAfter = FALSE, !.responseParser = FALSE,
              !.requestLength = 0, !.requestSent = <<>>, !.answerSent = <<>>,
              !.cleanReuse = /\ @
                             /\ s.requestSent = Text("client", s.requestLength)
                             /\ s.answerSent = Text("upstream", Len(s.answerSent))]

\* Slip: only the client decides whether the connection ends.
ReuseUnlessHalfClosed(s) ==
    IF s.state # "SendingResponse" THEN s
    ELSE IF s.readClosed THEN CloseSession(s)
    ELSE Reused(s)

ClientBufferEmpty(s) ==
    IF s.state # "SendingResponse" THEN s
    ELSE IF s.closeAfter \/ s.readClosed THEN CloseSession(s)
    ELSE Reused(s)

SendToClient(s, n) ==
    IF n = 0 THEN s
    ELSE [s EXCEPT !.toClient = Consumed(@, n),
                   !.answerSent = @ \o SubSeq(ReadableView(s.toClient), 1, n)]

\* write_client: the loop empties the buffer, or stops early on EAGAIN, or on an
\* error that closes the session.
WriteClient(s) ==
    LET size == ReadableSize(s.toClient)
        partial == {SendToClient(s, n) : n \in 0..(size - 1)}
    IN  {ClientBufferEmpty(SendToClient(s, size))} \cup partial
        \cup {CloseSession(t) : t \in partial}

\* queue_error_response up to write_client.
ErrorQueued(s) ==
    LET t == [CloseUpstream(s) EXCEPT !.toUpstream = Cleared(@), !.toClient = Cleared(@)]
        text == Text("edge", ErrorLength)
    IN  IF ~Fits(t.toClient, text) THEN CloseSession(t)
        ELSE [t EXCEPT !.toClient = Appended(@, text), !.closeAfter = TRUE,
                       !.state = "SendingResponse"]

QueueError(s) ==
    LET t == ErrorQueued(s) IN IF t.state = "Closed" THEN {t} ELSE WriteClient(t)

\* Slip: the upstream stays connected while its answer is sent.
AnsweredKeepingUpstream(s, length, closes) ==
    [s EXCEPT !.closeAfter = @ \/ closes, !.state = "SendingResponse",
              !.toClient = Appended(@, Text("upstream", length))]

\* finish_response up to write_client.
Answered(s, length, closes) ==
    [CloseUpstream(s) EXCEPT !.closeAfter = @ \/ closes, !.state = "SendingResponse",
                             !.toClient = Appended(@, Text("upstream", length))]

\* Without a route table the response decides, too, whether the connection ends;
\* a response that grew too long in rewriting is replaced by an error.
FinishResponse(s) ==
    UNION {IF ~Fits(s.toClient, Text("upstream", length))
           THEN QueueError([s EXCEPT !.closeAfter = @ \/ closes])
           ELSE WriteClient(Answered(s, length, closes)) :
             length \in AnswerLengths, closes \in IF s.routed THEN {FALSE} ELSE BOOLEAN}

--------------------------------------------------------------------------------
(* The upstream connection *)

\* write_upstream once to_upstream_ is empty.
RequestSent(s) == [s EXCEPT !.responseParser = TRUE, !.state = "ReadingResponse"]

SendToUpstream(s, n) ==
    IF n = 0 THEN s
    ELSE [s EXCEPT !.toUpstream = Consumed(@, n),
                   !.requestSent = @ \o SubSeq(ReadableView(s.toUpstream), 1, n)]

\* Slip: what the kernel took at once is taken for all of it.
WriteUpstreamOnce(s) ==
    {RequestSent(SendToUpstream(s, n)) : n \in 1..ReadableSize(s.toUpstream)}

\* write_upstream: like write_client, but an error is answered.
WriteUpstream(s) ==
    LET size == ReadableSize(s.toUpstream)
        partial == {SendToUpstream(s, n) : n \in 0..(size - 1)}
    IN  {RequestSent(SendToUpstream(s, size))} \cup partial
        \cup UNION {QueueError(t) : t \in partial}

\* EventLoop::add registers the mask of the state the connect has left.
Connecting(s, state) ==
    [s EXCEPT !.state = state, !.upstreamFd = TRUE,
              !.armed = [@ EXCEPT !.upstreamIn = FALSE, !.upstreamOut = TRUE]]

\* connect_upstream: socket, connect or EventLoop::add fails, the connect is
\* under way, or the connection is there at once.
ConnectUpstream(s) ==
    QueueError(s)
    \cup {Connecting(s, "ConnectingUpstream")}
    \cup WriteUpstream(Connecting(s, "SendingRequest"))

\* finish_upstream_connect: what SO_ERROR says.
FinishUpstreamConnect(s) ==
    QueueError(s) \cup WriteUpstream([s EXCEPT !.state = "SendingRequest"])

\* read_upstream: the response is incomplete so far, complete by its own length
\* or by the end of the connection, or wrong, or cut off.
ReadUpstream(s) == {s} \cup QueueError(s) \cup FinishResponse(s)

--------------------------------------------------------------------------------
(* The client *)

\* A whole request: it asks to close or not; there is a route or not; it fits
\* into to_upstream_ or not.
AcceptRequest(s, length, closes) ==
    LET t == [s EXCEPT !.closeAfter = closes, !.requestLength = length]
        text == Text("client", length)
    IN  (IF s.routed THEN QueueError(t) ELSE {})
        \cup IF Fits(t.toUpstream, text)
             THEN ConnectUpstream([t EXCEPT !.toUpstream = Appended(@, text)])
             ELSE QueueError(t)

\* read_client: all there is, the end of the connection, an error of it, a wrong
\* request, or a whole one.
ReadClient(s) ==
    {s, CloseSession([s EXCEPT !.readClosed = TRUE]), CloseSession(s)}
    \cup QueueError(s)
    \cup UNION {AcceptRequest(s, length, closes) :
                  length \in RequestLengths, closes \in BOOLEAN}

ClientHalfClosed(s) ==
    LET t == [s EXCEPT !.readClosed = TRUE, !.closeAfter = TRUE]
    IN  IF s.state = "ReadingRequest" THEN CloseSession(t) ELSE t

--------------------------------------------------------------------------------
(* The callbacks *)

AfterHangup(s, events) ==
    LET t == IF "RDHUP" \in events /\ s.state # "Closed" THEN ClientHalfClosed(s) ELSE s
    IN  IF "HUP" \in events THEN CloseSession(t) ELSE t

OnClientEvent(s, events) ==
    LET input == IF "IN" \in events /\ s.state = "ReadingRequest" THEN ReadClient(s) ELSE {s}
        output(t) == IF "OUT" \in events /\ t.state # "Closed" /\ ReadableSize(t.toClient) > 0
                     THEN WriteClient(t) ELSE {t}
    IN  IF "ERR" \in events THEN {CloseSession(s)}
        ELSE UNION {{RefreshInterests(u) : u \in output(AfterHangup(t, events))} : t \in input}

\* The later bits are looked at in the state the earlier ones left.
OnUpstreamEvent(s, events) ==
    LET connected == IF s.state = "ConnectingUpstream" /\ events \cap {"OUT", "ERR", "HUP"} # {}
                     THEN FinishUpstreamConnect(s)
                     ELSE IF "ERR" \in events THEN QueueError(s) ELSE {s}
        output(t) == IF t.state = "SendingRequest" /\ "OUT" \in events
                     THEN WriteUpstream(t) ELSE {t}
        input(t) == IF t.state = "ReadingResponse" /\ events \cap {"IN", "RDHUP", "HUP"} # {}
                    THEN ReadUpstream(t) ELSE {t}
    IN  UNION {UNION {{RefreshInterests(v) : v \in input(u)} : u \in output(t)} : t \in connected}

\* A closed session is destroyed at the end of the batch.
Settled(s) ==
    IF s.clientFd THEN s
    ELSE [CloseSession(NewSession(s.routed)) EXCEPT !.cleanReuse = s.cleanReuse]

--------------------------------------------------------------------------------
(* The specification *)

Bits == {"IN", "OUT", "RDHUP", "HUP", "ERR"}

\* EPOLLHUP and EPOLLERR are reported whether asked for or not.
ClientEvents(s) ==
    {e \in SUBSET Bits : /\ e # {}
                         /\ "IN" \in e => s.armed.clientIn
                         /\ "OUT" \in e => s.armed.clientOut
                         /\ "RDHUP" \in e => s.armed.clientRdhup}

UpstreamEvents(s) ==
    {e \in SUBSET Bits : /\ e # {}
                         /\ "IN" \in e => s.armed.upstreamIn
                         /\ "OUT" \in e => s.armed.upstreamOut}

Init == session \in {NewSession(routed) : routed \in BOOLEAN}

ClientEvent(events) ==
    /\ session.state # "Closed"
    /\ events \in ClientEvents(session)
    /\ session' \in {Settled(t) : t \in OnClientEvent(session, events)}

UpstreamEvent(events) ==
    /\ session.upstreamFd
    /\ events \in UpstreamEvents(session)
    /\ session' \in {Settled(t) : t \in OnUpstreamEvent(session, events)}

Next ==
    \/ \E events \in SUBSET Bits : ClientEvent(events)
    \/ \E events \in SUBSET Bits : UpstreamEvent(events)

\* Peers that do what a socket is watched for: the client takes its answer, the
\* upstream takes the request and answers it.  Nobody has to hang up.
ClientTakes == ClientEvent({"OUT"})
UpstreamWorks == UpstreamEvent({"OUT"}) \/ UpstreamEvent({"IN"})

Spec == Init /\ [][Next]_vars
FairSpec == Spec /\ WF_vars(ClientTakes) /\ WF_vars(UpstreamWorks)

--------------------------------------------------------------------------------
(* Properties *)

\* The state of a session between two callbacks; neither buffer is longer than
\* its max_size, the consumed bytes at its front included; a descriptor is
\* registered exactly in the states that use it.
TypeOK ==
    /\ session \in Sessions
    /\ session.toUpstream.offset <= Len(session.toUpstream.storage)
    /\ session.toClient.offset <= Len(session.toClient.storage)
    /\ Len(session.toUpstream.storage) <= RequestCapacity
    /\ Len(session.toClient.storage) <= AnswerCapacity
    /\ session.upstreamFd <=>
         session.state \in {"ConnectingUpstream", "SendingRequest", "ReadingResponse"}
    /\ session.clientFd <=> session.state # "Closed"

\* What has been sent of a message and what is still buffered are together that
\* message, each byte once and in order: the request until its answer begins,
\* and then one answer, of the upstream to the whole request or EdgeGate's own.
\* Between two requests nothing is left of either.
Outgoing == session.requestSent \o ReadableView(session.toUpstream)
Incoming == session.answerSent \o ReadableView(session.toClient)

WholeMessages ==
    LET request == Text("client", session.requestLength)
        state == session.state
    IN  /\ state \in {"ReadingRequest", "Closed"} => Outgoing = <<>>
        /\ state \in {"ConnectingUpstream", "SendingRequest"} => Outgoing = request
        /\ state = "ReadingResponse" => session.requestSent = request
        /\ state = "SendingResponse" =>
             \/ Incoming = Text("edge", ErrorLength)
             \/ \E n \in AnswerLengths : Incoming = Text("upstream", n)
                                         /\ session.requestSent = request
        /\ state # "SendingResponse" => Incoming = <<>>
        /\ session.cleanReuse

\* The session keeps what Exchange promises.
Phase ==
    CASE session.state = "Closed" -> "Closed"
      [] session.state = "ReadingRequest" -> "Asking"
      [] session.answerSent # <<>> -> "Answering"
      [] OTHER -> "Serving"

Client == INSTANCE Exchange WITH
            phase <- Phase,
            answer <- IF session.answerSent = <<>> THEN "none" ELSE session.answerSent[1][1]

KeepsExchange == Client!Spec

\* No exchange stays where it is while its peers do what their sockets are
\* watched for: there is no timeout, so a missing interest would be for ever.
ExchangeEnds ==
    session.state \notin {"ReadingRequest", "Closed"} ~>
        session.state \in {"ReadingRequest", "Closed"}
================================================================================
