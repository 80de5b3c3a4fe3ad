-------------------------- MODULE ChunkedStreamDecoder --------------------------
(***************************************************************************)
(* ChunkedStreamDecoder of src/http/chunked_stream_decoder.cpp: it follows   *)
(* the framing of a chunked body byte by byte and keeps only the line it is  *)
(* in, never the data.                                                       *)
(***************************************************************************)
EXTENDS HttpText, SequencesExt

DecoderStates == {"SizeLine", "Data", "DataCr", "DataLf", "TrailerLine", "Complete", "Error"}

Decoders == [state: DecoderStates, line: Seq(Symbols), sawCr: BOOLEAN,
             remaining: 0..MaxBody, decoded: 0..MaxBody]

NewDecoder == [state |-> "SizeLine", line |-> <<>>, sawCr |-> FALSE,
               remaining |-> 0, decoded |-> 0]

Failed(d) == [d EXCEPT !.state = "Error"]

\* finish_size_line: NoSize is larger than any limit.
FinishSizeLine(d) ==
    LET semicolon == Find(d.line, <<";">>, 1)
        size == HexSize(IF semicolon = 0 THEN d.line ELSE SubSeq(d.line, 1, semicolon - 1))
    IN  IF size > MaxBody - d.decoded THEN Failed(d)
        ELSE IF size = 0 THEN [d EXCEPT !.state = "TrailerLine", !.line = <<>>]
        ELSE [d EXCEPT !.state = "Data", !.line = <<>>, !.remaining = size,
                       !.decoded = @ + size]

\* finish_trailer_line: the value of a trailer is not looked at.
FinishTrailerLine(d) ==
    IF d.line = <<>> THEN [d EXCEPT !.state = "Complete"]
    ELSE IF Named(d.line) /\ FieldName(d.line) \notin {"Content-Length", "Transfer-Encoding", "Host"}
    THEN [d EXCEPT !.line = <<>>]
    ELSE Failed(d)

\* append_line_character
AppendLineCharacter(d, character) ==
    LET t == [d EXCEPT !.sawCr = FALSE]
    IN  IF d.sawCr
        THEN IF character # "LF" THEN Failed(t)
             ELSE IF d.state = "SizeLine" THEN FinishSizeLine(t) ELSE FinishTrailerLine(t)
        ELSE IF character = "CR" THEN [d EXCEPT !.sawCr = TRUE]
        ELSE IF character = "LF" \/ Len(d.line) >= MaxLine THEN Failed(d)
        ELSE [d EXCEPT !.line = Append(@, character)]

\* Slip: any byte is taken for the carriage return behind the data.
AfterDataAnything(d, character) == [d EXCEPT !.state = "DataLf"]

AfterData(d, character) ==
    IF character = "CR" THEN [d EXCEPT !.state = "DataLf"] ELSE Failed(d)

\* One byte of the loop in consume; one behind the end of the body is an error.
DecodeByte(d, character) ==
    CASE d.state = "Data" ->
           [d EXCEPT !.remaining = @ - 1, !.state = IF d.remaining = 1 THEN "DataCr" ELSE @]
      [] d.state = "DataCr" -> AfterData(d, character)
      [] d.state = "DataLf" ->
           IF character = "LF" THEN [d EXCEPT !.state = "SizeLine"] ELSE Failed(d)
      [] d.state \in {"SizeLine", "TrailerLine"} -> AppendLineCharacter(d, character)
      [] OTHER -> Failed(d)

Decode(d, bytes) == FoldLeft(DecodeByte, d, bytes)
================================================================================
