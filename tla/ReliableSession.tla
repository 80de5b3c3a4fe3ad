---------------------------- MODULE ReliableSession ----------------------------
(***************************************************************************)
(* One proxy session of src/proxy/reliable_proxy_server.cpp: a client      *)
(* connection, at most one upstream connection, two bounded buffers, and   *)
(* the handlers that the reactor and the 100 ms timer call on them.        *)
(*                                                                         *)
(* The session is one record, grouped as the C++ fields are.  A member     *)
(* function is an operator from a session to the SET of sessions it may    *)
(* leave behind: the set ranges over what the kernel, the client, the      *)
(* upstream and the route table may answer.  A handler composes them with  *)
(* UNION in the order in which the code calls them, so one action is one   *)
(* whole callback.  Bytes are counts; a read or a write loop is one        *)
(* operator that moves any number of bytes and then stops for any of the   *)
(* reasons the loop has.                                                   *)
(***************************************************************************)
EXTENDS Naturals, FiniteSets

CONSTANTS
    Upstreams,        \* endpoints the route table may return
    NoUpstream,       \* "none selected", and the source tag of EdgeGate's own answers
    Capacity,         \* stream_buffer.capacity
    HighWatermark,    \* stream_buffer.high_watermark
    LowWatermark,     \* stream_buffer.low_watermark
    ChunkSize,        \* kIoChunkSize
    HeadLength,       \* length of a rewritten message head
    ErrorLength,      \* length of an answer EdgeGate makes itself
    MaxRequestBody,   \* longest request body
    MaxResponseBody   \* longest Content-Length body of a response

\* The relations edgegate_config.cpp enforces between the stream buffer sizes,
\* scaled down: the watermarks are ordered and a head, together with one chunk
\* read behind it, fits in a buffer.
ASSUME ConfigAssumption ==
    /\ NoUpstream \notin Upstreams
    /\ Capacity \in Nat /\ HighWatermark \in Nat /\ LowWatermark \in Nat
    /\ LowWatermark < HighWatermark /\ HighWatermark < Capacity
    /\ ChunkSize \in Nat \ {0} /\ HeadLength \in Nat \ {0} /\ ErrorLength \in Nat \ {0}
    /\ HeadLength + ChunkSize <= Capacity
    /\ ErrorLength <= Capacity
    /\ MaxRequestBody \in Nat /\ MaxResponseBody \in Nat

VARIABLES
    session,    \* the session record
    draining,   \* mode_ # kRunning
    drainDue    \* drain_deadline_ has passed

vars == <<session, draining, drainDue>>

--------------------------------------------------------------------------------
(* The state of a session *)

States == {"ReadingRequestHead", "ConnectingUpstream", "SendingRequest",
           "ReadingResponseHead", "StreamingResponse", "DrainingResponse", "Closed"}
BodyModes == {"NoBody", "ContentLength", "Chunked", "CloseDelimited"}
Sources == Upstreams \cup {NoUpstream}
Deadlines == {"phase", "total", "idle"}

\* The exchange as far as the request is known: request_head_bytes_ not empty,
\* a GET or HEAD without a body, body bytes still to come, request_routes_ set,
\* attempted_upstream_ids_ and selected_upstream_.
Requests == [started: BOOLEAN, replayable: BOOLEAN, bodyLeft: 0..MaxRequestBody,
             bodyComplete: BOOLEAN, routed: BOOLEAN,
             attempted: SUBSET Upstreams, selected: Sources]

\* response_mode_, the Content-Length bytes still to come, response_complete_,
\* and who produced the bytes buffered for, and already sent to, the client in
\* this exchange: client_response_bytes_sent_ # 0 is sentFrom # {}.
Responses == [mode: BodyModes, bodyLeft: 0..MaxResponseBody, complete: BOOLEAN,
              bufferFrom: SUBSET Sources, sentFrom: SUBSET Sources]

\* Descriptors registered in the loop, readable_size() of the two buffers, and
\* the two backpressure flags.
Streams == [clientFd: BOOLEAN, upstreamFd: BOOLEAN,
            toUpstream: 0..Capacity, toClient: 0..Capacity,
            requestPaused: BOOLEAN, responsePaused: BOOLEAN]

\* client_read_closed_, close_after_response_, completed_at_least_one_.
Connections == [readClosed: BOOLEAN, closeAfter: BOOLEAN, completedOne: BOOLEAN]

\* What epoll reports besides EPOLLRDHUP, EPOLLERR and EPOLLHUP: the masks of
\* the last EventLoop::add or modify.
Interests == [clientIn: BOOLEAN, clientOut: BOOLEAN, upstreamIn: BOOLEAN, upstreamOut: BOOLEAN]

\* History: an upstream was recorded as failed in this exchange after its whole
\* answer had arrived; every keep-alive reset came after a whole exchange; a
\* request began after begin_drain had reached the session.
Histories == [misblamed: BOOLEAN, cleanReuse: BOOLEAN, lateRequest: BOOLEAN]

Sessions == [state: States, request: Requests, response: Responses, stream: Streams,
             connection: Connections, armed: Interests, due: [Deadlines -> BOOLEAN],
             history: Histories]

NoRequest == [started |-> FALSE, replayable |-> FALSE, bodyLeft |-> 0, bodyComplete |-> FALSE,
              routed |-> FALSE, attempted |-> {}, selected |-> NoUpstream]

\* The constructor, followed by EventLoop::add of the client endpoint.
NewSession ==
    [state |-> "ReadingRequestHead",
     request |-> NoRequest,
     response |-> [mode |-> "NoBody", bodyLeft |-> 0, complete |-> FALSE,
                   bufferFrom |-> {}, sentFrom |-> {}],
     stream |-> [clientFd |-> TRUE, upstreamFd |-> FALSE, toUpstream |-> 0, toClient |-> 0,
                 requestPaused |-> FALSE, responsePaused |-> FALSE],
     connection |-> [readClosed |-> FALSE, closeAfter |-> FALSE, completedOne |-> FALSE],
     armed |-> [clientIn |-> TRUE, clientOut |-> FALSE, upstreamIn |-> FALSE, upstreamOut |-> FALSE],
     due |-> [d \in Deadlines |-> FALSE],
     history |-> [misblamed |-> FALSE, cleanReuse |-> TRUE, lateRequest |-> FALSE]]

--------------------------------------------------------------------------------
(* Leaf operations *)

Smallest(m, n) == IF m <= n THEN m ELSE n

\* update_request_backpressure, update_response_backpressure: the flag has a
\* hysteresis between the two watermarks.
Paused(was, size) == IF was THEN size > LowWatermark ELSE size >= HighWatermark

UpdateRequestBackpressure(s) ==
    [s EXCEPT !.stream.requestPaused = Paused(@, s.stream.toUpstream)]

UpdateResponseBackpressure(s) ==
    [s EXCEPT !.stream.responsePaused = Paused(@, s.stream.toClient)]

CloseUpstream(s) ==
    [s EXCEPT !.stream.upstreamFd = FALSE,
              !.armed.upstreamIn = FALSE, !.armed.upstreamOut = FALSE]

CloseSession(s) ==
    IF s.state = "Closed" THEN s
    ELSE [CloseUpstream(s) EXCEPT !.state = "Closed", !.stream.clientFd = FALSE,
                                  !.armed.clientIn = FALSE, !.armed.clientOut = FALSE]

\* Slip: the body is read only while the head is.
WantsInputForHeadOnly(s) ==
    /\ s.state = "ReadingRequestHead"
    /\ ~s.stream.requestPaused
    /\ ~s.connection.readClosed

ClientWantsInput(s) ==
    /\ \/ s.state = "ReadingRequestHead"
       \/ /\ s.state \in {"ConnectingUpstream", "SendingRequest"}
          /\ ~s.request.bodyComplete
    /\ ~s.stream.requestPaused
    /\ ~s.connection.readClosed

UpstreamWantsInput(s) ==
    /\ s.state \in {"ReadingResponseHead", "StreamingResponse"}
    /\ ~s.stream.responsePaused

UpstreamWantsOutput(s) == s.state = "ConnectingUpstream" \/ s.stream.toUpstream > 0

\* interests(): the masks the session wants while it is open.
WantedInterests(s) ==
    [clientIn |-> ClientWantsInput(s),
     clientOut |-> s.stream.toClient > 0,
     upstreamIn |-> s.stream.upstreamFd /\ UpstreamWantsInput(s),
     upstreamOut |-> s.stream.upstreamFd /\ UpstreamWantsOutput(s)]

\* EventLoop::modify refuses a descriptor that was removed in this dispatch, and
\* the session then closes (again).
RefreshInterests(s) ==
    IF s.state = "Closed" THEN s
    ELSE IF ~s.stream.clientFd THEN CloseSession(s)
    ELSE [s EXCEPT !.armed = WantedInterests(s)]

--------------------------------------------------------------------------------
(* Answering the client *)

\* The whole answer of the selected upstream has been received in this exchange.
AnswerReceived(s) ==
    /\ s.response.complete
    /\ s.request.selected \in Upstreams
    /\ s.response.bufferFrom \cup s.response.sentFrom = {s.request.selected}

\* The connection is reused: everything about the finished exchange is
\* forgotten and the three deadlines are set anew.
ResetForKeepAlive(s) ==
    [s EXCEPT !.state = "ReadingRequestHead",
              !.request = NoRequest,
              !.response = [mode |-> s.response.mode, bodyLeft |-> 0, complete |-> FALSE,
                            bufferFrom |-> {}, sentFrom |-> {}],
              !.stream = [@ EXCEPT !.toUpstream = 0, !.requestPaused = FALSE,
                                   !.responsePaused = FALSE],
              !.connection.closeAfter = FALSE,
              !.due = [d \in Deadlines |-> FALSE],
              !.history.misblamed = FALSE,
              !.history.cleanReuse = /\ @
                                     /\ s.request.bodyComplete
                                     /\ AnswerReceived(s)
                                     /\ s.stream.toClient = 0]

\* Slip: the buffer drains without looking at the watermark.
SendWithoutResume(s, n) ==
    IF n = 0 THEN s
    ELSE [s EXCEPT !.stream.toClient = @ - n,
                   !.response.sentFrom = @ \cup s.response.bufferFrom,
                   !.response.bufferFrom = IF n = s.stream.toClient THEN {} ELSE @,
                   !.due["idle"] = FALSE]

\* n bytes of to_client_ handed to the kernel.
SendToClient(s, n) ==
    IF n = 0 THEN s
    ELSE UpdateResponseBackpressure(
           [s EXCEPT !.stream.toClient = @ - n,
                     !.response.sentFrom = @ \cup s.response.bufferFrom,
                     !.response.bufferFrom = IF n = s.stream.toClient THEN {} ELSE @,
                     !.due["idle"] = FALSE])

\* Slip: close_after_response_ is not looked at.
ReuseAlways(s) ==
    IF s.state # "DrainingResponse" THEN s
    ELSE IF s.connection.readClosed THEN CloseSession(s)
    ELSE ResetForKeepAlive(s)

\* What write_client does once to_client_ is empty.
ClientBufferEmpty(s) ==
    IF s.state # "DrainingResponse" THEN s
    ELSE IF s.connection.closeAfter \/ s.connection.readClosed THEN CloseSession(s)
    ELSE ResetForKeepAlive(s)

\* write_client: the loop empties the buffer, or stops early on EAGAIN, or on
\* an error that closes the session.
WriteClient(s) ==
    LET partial == {SendToClient(s, n) : n \in {k \in 0..Capacity : k < s.stream.toClient}}
    IN  {ClientBufferEmpty(SendToClient(s, s.stream.toClient))}
        \cup partial
        \cup {CloseSession(t) : t \in partial}

\* queue_error: an answer of EdgeGate's own replaces whatever was buffered.
ErrorQueued(s) ==
    [CloseUpstream(s) EXCEPT !.state = "DrainingResponse",
                             !.stream.toUpstream = 0, !.stream.toClient = ErrorLength,
                             !.response.bufferFrom = {NoUpstream},
                             !.response.complete = TRUE,
                             !.connection.closeAfter = TRUE]

QueueError(s) == WriteClient(ErrorQueued(s))

\* Slip: the upstream connection is left registered after its last byte.
CompletedKeepingUpstream(s) ==
    [s EXCEPT !.state = "DrainingResponse",
              !.response.complete = TRUE,
              !.connection.completedOne = TRUE]

\* complete_response: the upstream has answered in full.
ResponseCompleted(s) ==
    [CloseUpstream(s) EXCEPT !.state = "DrainingResponse",
                             !.response.complete = TRUE,
                             !.connection.completedOne = TRUE]

CompleteResponse(s) ==
    IF s.response.complete THEN {s} ELSE WriteClient(ResponseCompleted(s))

--------------------------------------------------------------------------------
(* The upstream connection.  upstream_failure, retry_upstream, connect_upstream *)
(* and write_upstream call one another; retry_upstream stops the recursion      *)
(* because it refuses a third attempt.  So a failure is UpstreamFailure in the  *)
(* first attempt, FinalFailure in the second.                                   *)

\* Slip: the method and the body are not looked at.
MayRetryAnything(s) ==
    /\ s.request.bodyComplete
    /\ Cardinality(s.request.attempted) < 2
    /\ s.request.routed

MayRetry(s) ==
    /\ s.request.bodyComplete
    /\ s.request.replayable
    /\ Cardinality(s.request.attempted) < 2
    /\ s.request.routed

\* upstream_failure up to the retry: the endpoint is recorded as failed and its
\* connection removed.
FailureRecorded(s) ==
    [CloseUpstream(s) EXCEPT !.history.misblamed = @ \/ AnswerReceived(s)]

\* upstream_failure without a retry: an answer already begun is cut off, a
\* request not yet answered gets EdgeGate's own error.
GiveUp(s) == IF s.response.sentFrom # {} THEN {CloseSession(s)} ELSE QueueError(s)

FinalFailure(s) == GiveUp(FailureRecorded(s))

\* n bytes of to_upstream_ handed to the kernel.
SendToUpstream(s, n) ==
    IF n = 0 THEN s
    ELSE UpdateRequestBackpressure(
           [s EXCEPT !.stream.toUpstream = @ - n, !.due["idle"] = FALSE])

\* Slip: an empty buffer is taken for the end of the request.
RequestTakenAsSent(s) ==
    [s EXCEPT !.state = "ReadingResponseHead", !.due["phase"] = FALSE]

\* What write_upstream does once to_upstream_ is empty.
RequestBufferEmpty(s) ==
    IF s.request.bodyComplete
    THEN [s EXCEPT !.state = "ReadingResponseHead", !.due["phase"] = FALSE]
    ELSE s

\* write_upstream's loop stops short of the end, on EAGAIN or on an error.
PartlySent(s) == {SendToUpstream(s, n) : n \in {k \in 0..Capacity : k < s.stream.toUpstream}}

Sent(s) == {RequestBufferEmpty(SendToUpstream(s, s.stream.toUpstream))} \cup PartlySent(s)

\* The non-blocking connect is under way, or has succeeded at once; EventLoop::add
\* registers the mask of the new state.
Connecting(s, state) ==
    [s EXCEPT !.state = state,
              !.stream.upstreamFd = TRUE,
              !.armed = [@ EXCEPT !.upstreamIn = FALSE, !.upstreamOut = TRUE],
              !.due["phase"] = FALSE]

\* connect_upstream, which writes at once when the connection is there at once.
Connected(s) ==
    {Connecting(s, "ConnectingUpstream")} \cup Sent(Connecting(s, "SendingRequest"))

\* The sessions it fails on: socket, connect or EventLoop::add may fail, and so
\* may that first write.
ConnectFails(s) == {s} \cup PartlySent(Connecting(s, "SendingRequest"))

\* retry_upstream up to its connect: everything of the first attempt is dropped
\* and the saved head is queued for the endpoint u.  The deadlines of the
\* request are left alone.
Reattempt(s, u) ==
    [s EXCEPT !.request.selected = u, !.request.attempted = @ \cup {u},
              !.stream.toUpstream = HeadLength, !.stream.toClient = 0,
              !.stream.responsePaused = FALSE,
              !.response.bodyLeft = 0, !.response.complete = FALSE, !.response.bufferFrom = {}]

\* retry_upstream's result after a second attempt that may already have failed:
\* the caller goes on with its error path when the session is closed.
AfterRetry(s) == IF s.state = "Closed" THEN GiveUp(s) ELSE {s}

\* The connect of a second attempt.
Reconnected(s) == Connected(s) \cup UNION {FinalFailure(t) : t \in ConnectFails(s)}

\* retry_upstream with the lookup's answer: any endpoint not yet attempted.
RetryUpstream(s) ==
    UNION {UNION {AfterRetry(t) : t \in Reconnected(Reattempt(s, u))} :
             u \in Upstreams \ s.request.attempted}

\* Slip: the retry does not ask whether the client has already had bytes.
FailureRetriesLate(s) ==
    LET failed == FailureRecorded(s)
    IN  GiveUp(failed) \cup IF MayRetry(failed) THEN RetryUpstream(failed) ELSE {}

\* upstream_failure.  The lookup may also find no endpoint.
UpstreamFailure(s) ==
    LET failed == FailureRecorded(s)
    IN  GiveUp(failed)
        \cup IF failed.response.sentFrom = {} /\ MayRetry(failed)
             THEN RetryUpstream(failed) ELSE {}

WriteUpstream(s) == Sent(s) \cup UNION {UpstreamFailure(t) : t \in PartlySent(s)}

ConnectUpstream(s) == Connected(s) \cup UNION {UpstreamFailure(t) : t \in ConnectFails(s)}

FinishConnect(s) ==
    UpstreamFailure(s)
    \cup WriteUpstream([s EXCEPT !.state = "SendingRequest", !.due["idle"] = FALSE])

--------------------------------------------------------------------------------
(* Reading the response *)

\* append_response_body for n bytes: a body longer than declared, a chunk the
\* decoder refuses, a body over max_response_body_size and a full buffer fail.
BodyAppended(s, n) ==
    UpdateResponseBackpressure(
      [s EXCEPT !.stream.toClient = @ + n,
                !.response.bodyLeft = IF s.response.mode = "ContentLength" THEN @ - n ELSE @,
                !.response.bufferFrom = @ \cup {s.request.selected}])

\* Slip: body bytes behind the head are not compared with the declared length.
AppendUnchecked(s, n) ==
    {BodyAppended(s, n)}
    \cup (IF n = s.response.bodyLeft THEN CompleteResponse(BodyAppended(s, n)) ELSE {})

AppendResponseBody(s, n) ==
    LET tooLong == \/ n > Capacity - s.stream.toClient
                   \/ s.response.mode = "ContentLength" /\ n > s.response.bodyLeft
        mayFail == tooLong \/ s.response.mode # "ContentLength"
        mayComplete == \/ s.response.mode = "ContentLength" /\ n = s.response.bodyLeft
                       \/ s.response.mode = "Chunked"
        mayContinue == s.response.mode # "ContentLength" \/ n < s.response.bodyLeft
    IN  (IF mayFail THEN UpstreamFailure(s) ELSE {})
        \cup (IF ~tooLong /\ mayComplete THEN CompleteResponse(BodyAppended(s, n)) ELSE {})
        \cup (IF ~tooLong /\ mayContinue THEN {BodyAppended(s, n)} ELSE {})

\* finish_response_head for a well-formed head that announces a body.
HeadAppended(s, mode, length) ==
    UpdateResponseBackpressure(
      [s EXCEPT !.state = "StreamingResponse",
                !.connection.closeAfter = @ \/ mode = "CloseDelimited",
                !.stream.toClient = @ + HeadLength,
                !.response.mode = mode, !.response.bodyLeft = length,
                !.response.bufferFrom = @ \cup {s.request.selected}])

FinishResponseHead(s, mode, length, extra) ==
    LET t == HeadAppended(s, mode, length)
    IN  IF HeadLength > Capacity - s.stream.toClient THEN UpstreamFailure(s)
        ELSE IF mode = "NoBody" \/ (mode = "ContentLength" /\ length = 0)
        THEN IF extra > 0 THEN UpstreamFailure(t) ELSE CompleteResponse(t)
        ELSE IF extra = 0 THEN {t} ELSE AppendResponseBody(t, extra)

\* The head of a response arrives: still incomplete, unacceptable, or complete
\* with extra body bytes behind it.
AcceptResponseHead(s) ==
    {s}
    \cup UpstreamFailure(s)
    \cup (UNION {FinishResponseHead(s, "ContentLength", length, extra) :
                   length \in 0..MaxResponseBody, extra \in 0..ChunkSize})
    \cup UNION {FinishResponseHead(s, mode, 0, extra) :
                  mode \in BodyModes \ {"ContentLength"}, extra \in 0..ChunkSize}

\* The bytes read_upstream asks recv for.
ReadCapacity(s) ==
    LET room == Smallest(ChunkSize, Capacity - s.stream.toClient)
    IN  IF s.state # "StreamingResponse" THEN ChunkSize
        ELSE IF s.response.mode = "ContentLength" THEN Smallest(room, s.response.bodyLeft)
        ELSE room

UpstreamEof(s) ==
    IF s.state = "StreamingResponse" /\ s.response.mode = "CloseDelimited"
    THEN CompleteResponse(s)
    ELSE IF s.state # "DrainingResponse" THEN UpstreamFailure(s) ELSE {s}

\* read_upstream: one recv, which may bring data, the end of the stream, EAGAIN
\* or an error.  A loop that goes on reading is this action taken again.
ReadUpstream(s) ==
    LET heard == [s EXCEPT !.due["idle"] = FALSE]
    IN  IF ~s.stream.upstreamFd THEN UpstreamFailure(s)
        ELSE IF ReadCapacity(s) = 0 THEN {UpdateResponseBackpressure(s)}
        ELSE {s} \cup UpstreamFailure(s) \cup UpstreamEof(s)
             \cup IF s.state = "ReadingResponseHead" THEN AcceptResponseHead(heard)
                  ELSE UNION {AppendResponseBody(heard, n) : n \in 1..ReadCapacity(s)}

--------------------------------------------------------------------------------
(* Reading the request *)

\* finish_request_head once the head is parsed: the exchange is now described
\* by the request, and close_after_response_ by its Connection header alone.
RequestParsed(s, replayable, left, close) ==
    [s EXCEPT !.request.replayable = replayable, !.request.bodyLeft = left,
              !.request.bodyComplete = (left = 0), !.request.routed = TRUE,
              !.connection.closeAfter = close]

RequestQueued(s, u, extra) ==
    UpdateRequestBackpressure(
      [s EXCEPT !.request.selected = u, !.request.attempted = @ \cup {u},
                !.stream.toUpstream = @ + HeadLength + extra])

\* n bytes of the request body; the rest of accept_request_bytes.
RequestBodyAccepted(s, n) ==
    LET t == UpdateRequestBackpressure(
               [s EXCEPT !.stream.toUpstream = @ + n,
                         !.request.bodyLeft = @ - n,
                         !.request.bodyComplete = (n = s.request.bodyLeft),
                         !.due["idle"] = FALSE])
    IN  IF n > s.request.bodyLeft \/ n > Capacity - s.stream.toUpstream THEN QueueError(s)
        ELSE {t}

\* recv() == 0 in read_client.
ClientEof(s) ==
    LET t == [s EXCEPT !.connection.readClosed = TRUE]
        normalIdleClose == /\ s.connection.completedOne
                           /\ s.state = "ReadingRequestHead"
                           /\ ~s.request.started
    IN  IF ~s.request.bodyComplete \/ normalIdleClose THEN CloseSession(t) ELSE t

\* One recv of the request body.
ReadRequestBody(s) ==
    LET capacity == Smallest(Smallest(ChunkSize, s.request.bodyLeft),
                             Capacity - s.stream.toUpstream)
    IN  IF capacity = 0 THEN {UpdateRequestBackpressure(s)}
        ELSE {s, ClientEof(s), CloseSession(s)}
             \cup UNION {RequestBodyAccepted(s, n) : n \in 1..capacity}

\* read_client's loop after a head: it reads on, whatever has become of the
\* upstream, unless the body is complete, paused or the session closed.
AfterRequestHead(s) ==
    IF s.state = "Closed" \/ s.request.bodyComplete \/ s.stream.requestPaused
    THEN {s} ELSE ReadRequestBody(s)

\* finish_request_head: no route or no healthy endpoint answer with an error,
\* else the rewritten head is queued for endpoint u and the connect begins.
FinishRequestHead(s, replayable, left, close, extra) ==
    LET t == RequestParsed(s, replayable, left, close)
    IN  QueueError(t)
        \cup UNION {IF HeadLength + extra > Capacity - t.stream.toUpstream THEN QueueError(t)
                    ELSE UNION {AfterRequestHead(r) :
                                  r \in ConnectUpstream(RequestQueued(t, u, extra))} :
                      u \in Upstreams}

\* Slip: every byte of the head sets the deadlines anew.
BytesPostponeDeadlines(s) ==
    [s EXCEPT !.request.started = TRUE,
              !.due = [d \in Deadlines |-> FALSE],
              !.history.lateRequest = @ \/ draining]

\* accept_request_bytes while the head is being read.  The first byte of a
\* request sets its deadlines.
FirstBytes(s) ==
    IF s.request.started THEN [s EXCEPT !.due["idle"] = FALSE]
    ELSE [s EXCEPT !.request.started = TRUE,
                   !.due = [d \in Deadlines |-> FALSE],
                   !.history.lateRequest = @ \/ draining]

AcceptRequestHead(s) ==
    {s}
    \cup QueueError(s)
    \cup (UNION {FinishRequestHead(s, FALSE, left, close, extra) :
                   left \in 0..MaxRequestBody, close \in BOOLEAN, extra \in 0..ChunkSize})
    \cup UNION {FinishRequestHead(s, TRUE, 0, close, 0) : close \in BOOLEAN}

ReadClient(s) ==
    IF s.state = "ReadingRequestHead"
    THEN {s, ClientEof(s), CloseSession(s)} \cup AcceptRequestHead(FirstBytes(s))
    ELSE ReadRequestBody(s)
--------------------------------------------------------------------------------
(* The callbacks *)

\* The half-close of the client: an error while the request is incomplete.
ClientHalfClosed(s) ==
    LET t == [s EXCEPT !.connection.readClosed = TRUE, !.connection.closeAfter = TRUE]
    IN  IF s.state = "ReadingRequestHead" \/ ~s.request.bodyComplete
        THEN CloseSession(t) ELSE t

\* The order in which on_event looks at the bits of a client event.
ClientInput(s, events) == IF "IN" \in events THEN ReadClient(s) ELSE {s}

ClientHangup(s, events) ==
    LET t == IF "RDHUP" \in events /\ s.state # "Closed" THEN ClientHalfClosed(s) ELSE s
    IN  IF "HUP" \in events THEN CloseSession(t) ELSE t

ClientOutput(s, events) ==
    IF "OUT" \in events /\ s.state # "Closed" /\ s.stream.toClient > 0
    THEN WriteClient(s) ELSE {s}

OnClientEvent(s, events) ==
    IF "ERR" \in events THEN {CloseSession(s)}
    ELSE UNION {{RefreshInterests(u) : u \in ClientOutput(ClientHangup(t, events), events)} :
                  t \in ClientInput(s, events)}

\* on_event for the upstream.  The later bits are looked at in the state the
\* earlier ones left, which may already be that of another upstream connection.
UpstreamConnected(s, events) ==
    IF s.state = "ConnectingUpstream" /\ events \cap {"OUT", "ERR", "HUP"} # {}
    THEN FinishConnect(s)
    ELSE IF "ERR" \in events THEN UpstreamFailure(s) ELSE {s}

UpstreamOutput(s, events) ==
    IF s.state = "SendingRequest" /\ "OUT" \in events
    THEN WriteUpstream(s) ELSE {s}

UpstreamInput(s, events) ==
    IF /\ s.state \in {"ReadingResponseHead", "StreamingResponse"}
       /\ events \cap {"IN", "RDHUP", "HUP"} # {}
    THEN ReadUpstream(s) ELSE {s}

OnUpstreamEvent(s, events) ==
    UNION {UNION {{RefreshInterests(u) : u \in UpstreamInput(t, events)} :
                    t \in UpstreamOutput(r, events)} :
             r \in UpstreamConnected(s, events)}

\* Slip: a session between two requests waits for its client.
BeginDrainOfBusy(s) ==
    IF s.state = "Closed" THEN s ELSE RefreshInterests([s EXCEPT !.connection.closeAfter = TRUE])

\* begin_drain: an idle keep-alive connection is closed at once, any other is
\* told to close after its response.
BeginDrain(s) ==
    IF s.state = "Closed" THEN s
    ELSE LET t == [s EXCEPT !.connection.closeAfter = TRUE]
         IN  IF s.state = "ReadingRequestHead" /\ ~s.request.started
             THEN CloseSession(t) ELSE RefreshInterests(t)

\* The branches of check_timeout, in its order.
RequestOverdue(s) ==
    IF s.response.sentFrom = {} /\ s.stream.upstreamFd
    THEN UpstreamFailure(s) ELSE {CloseSession(s)}

IdleOverdue(s) ==
    IF /\ s.response.sentFrom = {}
       /\ ~(s.state = "SendingRequest" /\ ~s.request.bodyComplete)
    THEN UpstreamFailure(s) ELSE {CloseSession(s)}

\* Slip: only the phase and idle deadlines are compared with the clock.
TotalUnchecked(s) ==
    IF s.state \in {"ReadingRequestHead", "Closed"} THEN {s}
    ELSE IF s.state \in {"ConnectingUpstream", "ReadingResponseHead"} /\ s.due["phase"]
    THEN UpstreamFailure(s)
    ELSE IF s.due["idle"] THEN IdleOverdue(s) ELSE {s}

CheckTimeout(s) ==
    IF s.state = "Closed" THEN {s}
    ELSE IF s.state = "ReadingRequestHead" /\ s.due["phase"] THEN {CloseSession(s)}
    ELSE IF s.due["total"] THEN RequestOverdue(s)
    ELSE IF /\ s.state \in {"ConnectingUpstream", "ReadingResponseHead"}
            /\ s.due["phase"]
    THEN UpstreamFailure(s)
    ELSE IF /\ s.state \in {"SendingRequest", "StreamingResponse", "DrainingResponse"}
            /\ s.due["idle"]
    THEN IdleOverdue(s)
    ELSE {s}

\* The deadlines check_timeout compares with the clock in the present state.
Watched(s) ==
    CASE s.state \in {"ReadingRequestHead", "ConnectingUpstream", "ReadingResponseHead"} ->
           {"total", "phase"}
      [] s.state \in {"SendingRequest", "StreamingResponse", "DrainingResponse"} ->
           {"total", "idle"}
      [] OTHER -> {}

\* After the callback.  A session whose client endpoint was removed in it is
\* destroyed at the end of the batch, whatever state its last handler left it in,
\* and only its history remains.  Of an open one, response_mode_ and the length
\* of the body are never read again outside StreamingResponse, and a deadline
\* nobody watches is forgotten: time may pass it again as soon as it matters.
Settled(s) ==
    LET streaming == s.state = "StreamingResponse"
    IN  IF ~s.stream.clientFd THEN [CloseSession(NewSession) EXCEPT !.history = s.history]
        ELSE [s EXCEPT !.due = [d \in Deadlines |-> s.due[d] /\ d \in Watched(s)],
                       !.response.mode = IF streaming THEN @ ELSE "NoBody",
                       !.response.bodyLeft = IF streaming THEN @ ELSE 0]

\* Slip: the drain deadline is not enforced.
DrainWithoutDeadline(s) == IF draining THEN BeginDrain(s) ELSE s

DrainStep(s) ==
    IF ~draining THEN s ELSE IF drainDue THEN CloseSession(s) ELSE BeginDrain(s)

--------------------------------------------------------------------------------
(* The specification *)

Bits == {"IN", "OUT", "RDHUP", "HUP", "ERR"}

\* EPOLLIN and EPOLLOUT are reported only when asked for, the other bits always.
Reportable(in, out) ==
    {events \in SUBSET Bits : ("IN" \in events => in) /\ ("OUT" \in events => out)}

\* Sets of bits that on_event tells apart: for the client, nothing counts next to
\* EPOLLERR; for the upstream, EPOLLIN, EPOLLRDHUP and EPOLLHUP all mean "read".
ClientEvents(s) ==
    {{"ERR"}} \cup
    {e \in Reportable(s.armed.clientIn, s.armed.clientOut) : "ERR" \notin e}

UpstreamEvents(s) ==
    {e \in Reportable(s.armed.upstreamIn, s.armed.upstreamOut) :
       Cardinality(e \cap {"IN", "RDHUP", "HUP"}) <= 1}

Init ==
    /\ session = NewSession
    /\ draining = FALSE
    /\ drainDue = FALSE

ClientEvent ==
    /\ session.state # "Closed"
    /\ session' \in {Settled(t) : t \in UNION {OnClientEvent(session, events) :
                                                events \in ClientEvents(session)}}
    /\ UNCHANGED <<draining, drainDue>>

UpstreamEvent ==
    /\ session.stream.upstreamFd
    /\ session' \in {Settled(t) : t \in UNION {OnUpstreamEvent(session, events) :
                                                events \in UpstreamEvents(session)}}
    /\ UNCHANGED <<draining, drainDue>>

\* ReliableRuntime::tick, the part that concerns this session; a tick in running
\* mode that finds no deadline passed leaves it alone.
Tick ==
    /\ session.state # "Closed"
    /\ draining \/ \E d \in Watched(session) : session.due[d]
    /\ UNCHANGED <<draining, drainDue>>
    /\ session' \in {Settled(t) : t \in CheckTimeout(DrainStep(session))}

\* Time passes: deadline d of the session is reached.
Expire(d) ==
    /\ d \in Watched(session)
    /\ ~session.due[d]
    /\ session' = [session EXCEPT !.due[d] = TRUE]
    /\ UNCHANGED <<draining, drainDue>>

\* request_drain, by a management command, a signal or a stop.
RequestDrain ==
    /\ session.state # "Closed"
    /\ draining' = TRUE
    /\ session' = Settled(BeginDrain(session))
    /\ UNCHANGED drainDue

ExpireDrain ==
    /\ draining /\ ~drainDue
    /\ drainDue' = TRUE
    /\ UNCHANGED <<session, draining>>

Next ==
    \/ ClientEvent
    \/ UpstreamEvent
    \/ Tick
    \/ \E d \in Deadlines : Expire(d)
    \/ RequestDrain
    \/ ExpireDrain

\* Time passes, and the level-triggered timer descriptor is in every batch of
\* the loop until it is read; nothing else is certain to happen.
Fairness ==
    /\ WF_vars(Tick)
    /\ \A d \in Deadlines : WF_vars(Expire(d))
    /\ WF_vars(ExpireDrain)

Spec == Init /\ [][Next]_vars
FairSpec == Spec /\ Fairness

--------------------------------------------------------------------------------
(* Properties *)

\* The state of every session between two callbacks, the one type invariant of
\* the module: buffers never exceed stream_buffer.capacity and the remaining
\* body lengths never wrap below zero.
TypeOK ==
    /\ session \in Sessions
    /\ draining \in BOOLEAN
    /\ drainDue \in BOOLEAN

\* In one exchange the client never gets bytes of two answers: not of two
\* upstreams after a retry, and not a 502 or 504 behind a part of a 200.
NoSplice == Cardinality(session.response.sentFrom \cup session.response.bufferFrom) <= 1

\* A request is handed to a second upstream only if it is a GET or HEAD without
\* a body, and never to a third.
SafeRetry ==
    Cardinality(session.request.attempted) >= 2 =>
        /\ session.request.replayable
        /\ Cardinality(session.request.attempted) = 2

\* The session holds an upstream descriptor exactly while it talks to the
\* selected upstream, and its client descriptor until it is closed: a callback
\* can neither leak a descriptor nor use one it has removed.
Forwarding == {"ConnectingUpstream", "SendingRequest", "ReadingResponseHead", "StreamingResponse"}

DescriptorsFollowState ==
    /\ session.stream.upstreamFd <=> session.state \in Forwarding
    /\ session.stream.upstreamFd => session.request.selected \in session.request.attempted
    /\ session.stream.clientFd <=> session.state # "Closed"

\* The upstream's answer is read only after the whole request has been handed
\* to the kernel, so nothing of the request is overtaken by its own response.
AnswerAfterRequest ==
    session.state \in {"ReadingResponseHead", "StreamingResponse"} =>
        session.request.bodyComplete /\ session.stream.toUpstream = 0

\* A client connection is reused for another request only after a whole request
\* body was read and one whole answer of the selected upstream was sent: the
\* next head is never parsed out of the rest of a body.
CleanReuse == session.history.cleanReuse

\* A paused direction is above its low watermark and the loop watches the socket
\* that will drain it: backpressure cannot stop both ends for good.
BackpressureHasWaker ==
    /\ session.state \in {"ConnectingUpstream", "SendingRequest"} /\ session.stream.requestPaused =>
         session.stream.toUpstream > LowWatermark /\ session.armed.upstreamOut
    /\ session.state = "StreamingResponse" /\ session.stream.responsePaused =>
         session.stream.toClient > LowWatermark /\ session.armed.clientOut

\* In every open state some registered event, and not only a timeout, moves the
\* exchange on.  DrainingResponse is left out: check_timeout queues its errors
\* without refreshing the masks, and the idle deadline is what ends that state.
ArmedForProgress ==
    LET armed == session.armed
    IN  CASE session.state = "ReadingRequestHead" -> armed.clientIn
          [] session.state = "ConnectingUpstream" -> armed.upstreamOut
          [] session.state = "SendingRequest" ->
               IF session.stream.toUpstream > 0 THEN armed.upstreamOut ELSE armed.clientIn
          [] session.state = "ReadingResponseHead" -> armed.upstreamIn \/ armed.upstreamOut
          [] session.state = "StreamingResponse" -> armed.upstreamIn \/ armed.clientOut
          [] OTHER -> TRUE

\* Every exchange comes to an end, whatever the two peers do: the connection is
\* idle again or closed, because request_deadline_ is not set anew by a retry.
ExchangeEnds ==
    session.state \notin {"ReadingRequestHead", "Closed"} ~>
        session.state \in {"ReadingRequestHead", "Closed"}

\* A partial request head does not stay for ever.
PartialHeadEnds ==
    session.state = "ReadingRequestHead" /\ session.request.started ~>
        ~(session.state = "ReadingRequestHead" /\ session.request.started)

\* Once a drain has begun the session is closed, at the latest by the drain
\* deadline, even if its client keeps sending.
DrainCloses == draining ~> session.state = "Closed"

\* What ServiceLifecycle takes for granted of its sessions: a command closes a
\* session between two requests at once and leaves a busy one to its answer, a
\* tick behind the drain deadline closes any; and a closed one stays closed.
Service == INSTANCE SessionLife

Life ==
    CASE session.state = "Closed" -> "Closed"
      [] session.state = "ReadingRequestHead" /\ ~session.request.started -> "Idle"
      [] OTHER -> "Busy"

LifeAsPromised ==
    [][/\ Life' \in Service!AfterEvent(Life)
       /\ RequestDrain => Life' = Service!Drained(Life)
       /\ Tick => Life' \in Service!AfterSweep(Life, draining, drainDue)]_vars

\* Whatever the upstreams, the timer and a drain do, the client sees what the
\* buffering proxy shows it, too: one answer to each request, never exchanged for
\* another once a byte of it is sent, and nothing behind an answer of EdgeGate's own.
Phase ==
    CASE session.state = "Closed" -> "Closed"
      [] session.state = "ReadingRequestHead" -> "Asking"
      [] session.response.sentFrom # {} -> "Answering"
      [] OTHER -> "Serving"

Client == INSTANCE Exchange WITH
            phase <- Phase,
            answer <- CASE session.response.sentFrom = {} -> "none"
                        [] session.response.sentFrom = {NoUpstream} -> "edge"
                        [] OTHER -> "upstream"

KeepsExchange == Client!Spec

(* Claims of the documentation that the code does not keep *)

\* user-guide.md: request_total_ms bounds the total time of one request.  A
\* check of the deadlines that finds it passed starts no other attempt.
TotalDeadlineBinds ==
    [][Tick /\ session.due["total"] =>
         session'.request.attempted \subseteq session.request.attempted]_vars

\* The project plan: drain stops new connections and new requests.  No request
\* begins on a connection that begin_drain has reached.
NoRequestAfterDrain == ~session.history.lateRequest

\* The project plan: 504 means that the upstream timed out.  An upstream whose
\* whole answer was received is not recorded as failed for the same exchange.
AnsweredIsNotBlamed == ~session.history.misblamed
================================================================================
