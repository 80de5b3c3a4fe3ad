---------------------------- MODULE MCMessageStreams ----------------------------
(***************************************************************************)
(* The messages: some that matter for the framing, and everything that is   *)
(* one slip away from them, a symbol missing or another in its place.        *)
(***************************************************************************)
EXTENDS MessageStreams

EndHead == CRLF \o CRLF
Field == <<"field">> \o CRLF

\* A short body; a head of exactly MaxHeader bytes and one of a byte more; two
\* lengths that agree; a Connection field that names the length; a length that
\* would wrap to 1; two requests in one stream, twice.
PlainRequests ==
    LET start == <<"getLine">> \o CRLF \o <<"host">> \o CRLF
    IN  {start \o <<"length", "2">> \o EndHead \o <<"1", "1">>,
         start \o Field \o Field \o Field \o Field \o <<"length", "1">> \o EndHead \o <<"1">>,
         start \o Field \o Field \o Field \o Field \o <<"length", "0", "1">> \o EndHead \o <<"1">>,
         start \o <<"length", "1">> \o CRLF \o <<"length", "0", "1">> \o EndHead \o <<"0">>,
         start \o <<"names">> \o CRLF \o Field \o <<"length", "1">> \o EndHead \o <<"1">>,
         start \o <<"length", "3", "2", "1">> \o EndHead \o <<"0">>,
         start \o CRLF \o start \o CRLF,
         start \o Field \o Field \o Field \o Field \o Field \o CRLF \o start \o CRLF}

Fields(n) == FoldLeft(LAMBDA text, i : text \o Field, <<>>, [i \in 1..n |-> i])

\* The four body modes; a named length; a chunk extension with a trailer; two
\* chunks of which the second does not fit; trailers of almost MaxHeader bytes and
\* of a few more; a message that passes MaxMessage by its framing; a chunk size that
\* would wrap to 1; one padded with more zeros than the decoder's line holds.
PlainResponses ==
    LET chunked == <<"okLine">> \o CRLF \o <<"chunked">> \o EndHead
        last == <<"0">> \o EndHead
        zeros == [i \in 1..MaxLine |-> "0"]
        data == [i \in 1..15 |-> "field"]
    IN  {<<"okLine">> \o CRLF \o <<"length", "2">> \o EndHead \o <<"1", "1">>,
         <<"okLine">> \o CRLF \o <<"names">> \o CRLF \o Field
                     \o <<"length", "1">> \o EndHead \o <<"1">>,
         <<"okLine">> \o EndHead \o <<"1", "1", "1">>,
         <<"emptyLine">> \o CRLF \o <<"length", "1">> \o EndHead \o <<"1">>,
         chunked \o <<"1">> \o CRLF \o <<"0">> \o CRLF \o last,
         chunked \o <<"2", ";", "0">> \o CRLF \o <<"1", "1">> \o CRLF
                 \o <<"0">> \o CRLF \o Field \o CRLF,
         chunked \o <<"f">> \o CRLF \o data \o CRLF \o <<"5">> \o CRLF \o <<"1", "1">>,
         chunked \o <<"0">> \o CRLF \o Fields(7) \o CRLF,
         chunked \o <<"0">> \o CRLF \o Fields(8) \o CRLF,
         chunked \o <<"f">> \o CRLF \o data \o CRLF \o <<"0">> \o CRLF \o Fields(5) \o CRLF,
         chunked \o <<"1", "0", "1">> \o CRLF \o <<"0">> \o CRLF \o last,
         chunked \o zeros \o <<"1">> \o CRLF \o <<"0">> \o CRLF \o last}

Slips(m) ==
    {m} \cup {[m EXCEPT ![i] = r] : i \in DOMAIN m, r \in {"CR", "LF", "ctl", "1", ";", "host"}}
        \cup {RemoveAt(m, i) : i \in DOMAIN m}

MCRequests == UNION {Slips(m) : m \in PlainRequests}
MCResponses == UNION {Slips(m) : m \in PlainResponses}
================================================================================
