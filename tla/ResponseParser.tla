----------------------------- MODULE ResponseParser -----------------------------
(***************************************************************************)
(* ResponseParser of src/http/response_parser.cpp, a record like the request *)
(* parser.  It keeps every byte of the message, framing included; its errors *)
(* are not kept apart, for every one of them becomes a 502.                  *)
(***************************************************************************)
EXTENDS HttpText, SequencesExt

BodyModes == {"NoBody", "ContentLength", "Chunked", "CloseDelimited"}
ChunkStates == {"SizeLine", "Data", "Trailers"}

\* body is decoded_chunked_body_, position is chunk_position_; a position is an
\* index of the buffer, which counts from 1.
ResponseParsers == [method: {"GET", "HEAD"}, status: Statuses, buffer: Seq(Symbols),
                    fieldsStart: 0..MaxMessage + 2, headersParsed: BOOLEAN,
                    headerBytes: 0..MaxMessage, mode: BodyModes, contentLength: 0..SizeMax,
                    messageBytes: 0..MaxMessage, chunkState: ChunkStates,
                    position: 0..MaxMessage + 1, trailersStart: 0..MaxMessage + 1,
                    chunkSize: 0..SizeMax, body: Seq(Symbols)]

NewResponseParser(method) ==
    [method |-> method, status |-> "NeedMoreData", buffer |-> <<>>, fieldsStart |-> 0,
     headersParsed |-> FALSE, headerBytes |-> 0, mode |-> "NoBody", contentLength |-> 0,
     messageBytes |-> 0, chunkState |-> "SizeLine", position |-> 0, trailersStart |-> 0,
     chunkSize |-> 0, body |-> <<>>]

ResponseError(p) == [p EXCEPT !.status = "Error"]

Completed(p, bytes) == [p EXCEPT !.status = "MessageComplete", !.messageBytes = bytes]

\* parse_status_line: a reason is any printable text.
ValidStatusLine(line) == line # <<>> /\ line[1] \in StatusLines /\ Printable(line)

WithoutBody(method, line) == method = "HEAD" \/ line[1] = "emptyLine"

\* parse_header_fields and select_body_mode, but for the limit.
FieldsNamed(fields, name) == {fields[i] : i \in {k \in DOMAIN fields : FieldName(fields[k]) = name}}

ValidResponseFields(fields) ==
    LET lengths == {DecimalSize(Tail(f)) : f \in FieldsNamed(fields, "Content-Length")}
        encodings == FieldsNamed(fields, "Transfer-Encoding")
    IN  /\ \A i \in DOMAIN fields : WellFormedField(fields[i])
        /\ NoSize \notin lengths
        /\ \A m, n \in lengths : m = n
        /\ encodings \subseteq {<<"chunked">>}
        /\ encodings = {} \/ lengths = {}

ModeOf(method, line, fields) ==
    IF WithoutBody(method, line) THEN "NoBody"
    ELSE IF FieldsNamed(fields, "Transfer-Encoding") # {} THEN "Chunked"
    ELSE IF FieldsNamed(fields, "Content-Length") # {} THEN "ContentLength"
    ELSE "CloseDelimited"

ResponseLength(fields) ==
    LET lengths == {DecimalSize(Tail(f)) : f \in FieldsNamed(fields, "Content-Length")}
    IN  CHOOSE n \in lengths : TRUE

ParseStatusLine(p) ==
    LET end == Find(p.buffer, CRLF, 1)
    IN  IF p.fieldsStart # 0 THEN p
        ELSE IF end = 0
        THEN IF Len(p.buffer) >= MaxHeader THEN ResponseError(p) ELSE p
        ELSE IF ValidStatusLine(SubSeq(p.buffer, 1, end - 1))
        THEN [p EXCEPT !.fieldsStart = end + 2]
        ELSE ResponseError(p)

SelectBodyMode(p, fields) ==
    LET mode == ModeOf(p.method, SubSeq(p.buffer, 1, p.fieldsStart - 3), fields)
        length == IF mode = "ContentLength" THEN ResponseLength(fields) ELSE 0
    IN  IF ~ValidResponseFields(fields) \/ length > MaxBody THEN ResponseError(p)
        ELSE [p EXCEPT !.headersParsed = TRUE, !.mode = mode, !.contentLength = length,
                       !.position = IF mode = "Chunked" THEN p.headerBytes + 1 ELSE 0]

ParseResponseFields(p) ==
    LET end == Find(p.buffer, CRLF \o CRLF, 1)
        t == [p EXCEPT !.headerBytes = end + 3]
    IN  IF end = 0
        THEN IF Len(p.buffer) >= MaxHeader THEN ResponseError(p) ELSE p
        ELSE IF t.headerBytes > MaxHeader THEN ResponseError(t)
        ELSE SelectBodyMode(t, FieldLines(p.buffer, p.fieldsStart, end))

--------------------------------------------------------------------------------
(* parse_chunked_body: one round of its loop reads a size line, the data of a   *)
(* chunk with its line end, or a trailer line; a round that cannot leaves the   *)
(* parser as it is.                                                             *)

SizeOf(line) ==
    LET semicolon == Find(line, <<";">>, 1)
    IN  IF semicolon = 0 THEN HexSize(line)
        ELSE IF ~Printable(SubSeq(line, semicolon + 1, Len(line))) THEN NoSize
        ELSE HexSize(SubSeq(line, 1, semicolon - 1))

ReadSizeLine(p) ==
    LET end == Find(p.buffer, CRLF, p.position)
        size == SizeOf(SubSeq(p.buffer, p.position, end - 1))
    IN  IF end = 0
        THEN IF Len(p.buffer) - (p.position - 1) >= MaxHeader THEN ResponseError(p) ELSE p
        ELSE IF size = NoSize THEN ResponseError(p)
        ELSE IF size = 0
        THEN [p EXCEPT !.chunkState = "Trailers", !.position = end + 2, !.trailersStart = end + 2]
        ELSE IF size > MaxBody - Len(p.body) THEN ResponseError(p)
        ELSE [p EXCEPT !.chunkState = "Data", !.position = end + 2, !.chunkSize = size]

\* Slip: the two bytes behind the data are skipped unread.
SkipChunkEnd(p) ==
    LET end == p.position + p.chunkSize
    IN  IF Len(p.buffer) < end + 1 THEN p
        ELSE [p EXCEPT !.body = @ \o SubSeq(p.buffer, p.position, end - 1),
                       !.position = end + 2, !.chunkState = "SizeLine"]

\* The sum cannot pass SizeMax: the chunk fits into MaxBody and the position
\* into MaxMessage.
ReadChunkData(p) ==
    LET end == p.position + p.chunkSize
    IN  IF Len(p.buffer) < end + 1 THEN p
        ELSE IF SubSeq(p.buffer, end, end + 1) # CRLF THEN ResponseError(p)
        ELSE [p EXCEPT !.body = @ \o SubSeq(p.buffer, p.position, end - 1),
                       !.position = end + 2, !.chunkState = "SizeLine"]

ValidTrailer(line) ==
    WellFormedField(line) /\ FieldName(line) \notin {"Content-Length", "Transfer-Encoding", "Host"}

ReadTrailer(p) ==
    LET end == Find(p.buffer, CRLF, p.position)
    IN  IF end = 0
        THEN IF Len(p.buffer) - (p.trailersStart - 1) >= MaxHeader THEN ResponseError(p) ELSE p
        ELSE IF end + 2 - p.trailersStart > MaxHeader THEN ResponseError(p)
        ELSE IF end = p.position THEN Completed(p, end + 1)
        ELSE IF ValidTrailer(SubSeq(p.buffer, p.position, end - 1))
        THEN [p EXCEPT !.position = end + 2]
        ELSE ResponseError(p)

ChunkRound(p) ==
    IF p.status # "NeedMoreData" THEN p
    ELSE CASE p.chunkState = "SizeLine" -> ReadSizeLine(p)
           [] p.chunkState = "Data" -> ReadChunkData(p)
           [] p.chunkState = "Trailers" -> ReadTrailer(p)

\* Every round that leads on takes at least two bytes of the buffer.
ParseChunkedBody(p) == FoldLeft(LAMBDA q, i : ChunkRound(q), p, p.buffer)

--------------------------------------------------------------------------------

ParseBody(p) ==
    CASE p.mode = "NoBody" -> Completed(p, p.headerBytes)
      [] p.mode = "ContentLength" ->
           LET bytes == p.headerBytes + p.contentLength
           IN  IF Len(p.buffer) >= bytes THEN Completed(p, bytes) ELSE p
      [] p.mode = "Chunked" -> ParseChunkedBody(p)
      [] p.mode = "CloseDelimited" ->
           IF Len(p.buffer) - p.headerBytes > MaxBody THEN ResponseError(p) ELSE p

ConsumeResponse(p, chunk) ==
    LET appended == [p EXCEPT !.buffer = @ \o chunk]
        lined == ParseStatusLine(appended)
        headed == IF lined.status = "NeedMoreData" /\ lined.fieldsStart # 0 /\ ~lined.headersParsed
                  THEN ParseResponseFields(lined) ELSE lined
    IN  IF p.status # "NeedMoreData" THEN p
        ELSE IF Len(chunk) > MaxMessage - Len(p.buffer) THEN ResponseError(p)
        ELSE IF headed.status = "NeedMoreData" /\ headed.headersParsed
        THEN ParseBody(headed) ELSE headed

\* notify_eof: only a body delimited by it ends with the connection.
NotifyEof(p) ==
    IF p.status # "NeedMoreData" THEN p
    ELSE IF ~p.headersParsed \/ p.mode # "CloseDelimited" THEN ResponseError(p)
    ELSE IF Len(p.buffer) - p.headerBytes > MaxBody THEN ResponseError(p)
    ELSE Completed(p, Len(p.buffer))

\* body, of a complete message
ResponseBody(p) ==
    CASE p.mode = "Chunked" -> p.body
      [] p.mode = "NoBody" -> <<>>
      [] OTHER -> SubSeq(p.buffer, p.headerBytes + 1, p.messageBytes)

\* remaining_bytes
RemainingBytes(p) ==
    IF p.status = "MessageComplete" THEN Len(p.buffer) - p.messageBytes ELSE 0
================================================================================
