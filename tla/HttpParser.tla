------------------------------ MODULE HttpParser ------------------------------
(***************************************************************************)
(* The parser of requests: HttpRequestParser with its callbacks            *)
(* (http_parser.cpp), and of the vendored http_parser.c the part that a    *)
(* request goes through, one symbol at a time.                             *)
(*                                                                         *)
(* A chunk is a sequence of symbols [t, v].  A symbol is a run of bytes    *)
(* that the parser's states tell apart:                                    *)
(*   method  a method and the space behind it      field  a header's name  *)
(*   url     a piece of the url                    colon                   *)
(*   http    the space behind the url, HTTP/1.v    value  a header's value *)
(*           and the line's end                    crlf                    *)
(*   size    a chunk size, 0 to 9                  byte   of a body        *)
(* A read can end between any two symbols: in the middle of a url, a       *)
(* header's name or value, a body.  The terminator of each is a symbol of  *)
(* its own, so the read can also end just before it.                       *)
(*                                                                         *)
(* A url is in origin form, "/a" and what follows, in absolute form,       *)
(* "http://" and a host and perhaps a path, or the "*" of OPTIONS.  A read *)
(* does not end inside a schema with its slashes or inside a host; queries *)
(* and fragments are left out.                                             *)
(***************************************************************************)
EXTENDS Integers, Sequences, SequencesExt

CONSTANTS
    Methods,        \* the methods of method_strings
    LeadingPieces,  \* the pieces of urls that start with a slash
    Schemas,        \* letters with "://" behind them
    Hosts           \* what http_parse_host accepts, with its port

ULLONG_MAX == -1    \* the content_length of a message without one

\* The numbers that headers and chunk sizes are written with.
Number ==
    [v \in {"0", "1", "2"} |-> CASE v = "0" -> 0 [] v = "1" -> 1 [] v = "2" -> 2]

\* HttpRequest::HttpRequest.
NewRequest ==
    [method |-> "GET", version |-> "1", path |-> <<"/">>, headers |-> <<>>, body |-> <<>>]

\* HttpRequestParser::HttpRequestParser and http_parser_init.  mark and text are
\* http_parser_execute's *_mark: what is marked, and its bytes so far.
NewParser ==
    [state |-> "start_req", method |-> "GET", minor |-> "0", header_state |-> "general",
     flags |-> {}, uses_transfer_encoding |-> FALSE, content_length |-> 0,
     upgrade |-> FALSE, exit |-> FALSE, http_errno |-> FALSE,
     mark |-> "none", text |-> <<>>,
     data |-> NewRequest, field |-> "", finished |-> FALSE]

Fail(p) == [p EXCEPT !.http_errno = TRUE]

Goto(p, state) == [p EXCEPT !.state = state]

-----------------------------------------------------------------------------
(* The callbacks                                                             *)

\* A name or value that arrived whole is the one symbol of its text; what is left
\* of one that arrived before is empty.
Whole(text) == IF text = <<>> THEN "" ELSE Last(text)

\* The states of a url, as parse_url_char goes through them: what may start one, and
\* behind a schema's slashes whatever follows.  "path" is s_req_server, too.
UrlState(state, v) ==
    IF state # "spaces_before_url" \/ v \in LeadingPieces \cup {"*"} THEN "path"
    ELSE IF v \in Schemas THEN "server_start"
    ELSE "dead"

\* http_parser_parse_url of a url with a schema: there must be a host.
HasHost(text) ==
    /\ Len(text) > 1 /\ text[1] \in Schemas /\ text[2] \in Hosts
    /\ Len(text) > 2 => text[3] \in LeadingPieces

\* on_request_url_cb: what http_parser_parse_url refuses is an error; of an absolute
\* url the path is taken, and without one that of HttpRequest's constructor stays.
OnUrl(p) ==
    IF p.text # <<>> /\ p.text[1] \in LeadingPieces \cup {"*"}
    THEN [p EXCEPT !.data.path = p.text]
    ELSE IF ~HasHost(p.text) THEN Fail(p)
    ELSE IF Len(p.text) = 2 THEN p
    ELSE [p EXCEPT !.data.path = SubSeq(p.text, 3, Len(p.text))]

\* on_request_header_field_cb.
OnHeaderField(p) == [p EXCEPT !.field = Whole(p.text)]

\* on_request_header_value_cb: setHeader( getField(), value ).  headers are those that
\* getHeader finds.  CaseInsensitiveLess is true of any two names that differ, both
\* ways round: in the tree that libstdc++ builds with it the first name is found and
\* set again, and none that is set behind it.
OnHeaderValue(p) ==
    [p EXCEPT !.data.headers =
        IF DOMAIN @ = {} \/ p.field \in DOMAIN @
        THEN [h \in {p.field} |-> Whole(p.text)] ELSE @]

\* Mutant: the body is replaced.
OnBody_Set(p) == [p EXCEPT !.data.body = p.text]

\* on_request_body_cb: appendBody.
OnBody(p) == [p EXCEPT !.data.body = @ \o p.text]

\* on_request_headers_complete_cb.
OnHeadersComplete(p) == [p EXCEPT !.data.version = p.minor, !.data.method = p.method]

\* on_request_message_complete_cb.
OnMessageComplete(p) == [p EXCEPT !.finished = TRUE]

\* CALLBACK_DATA of what is marked.
Callback(p) ==
    LET q == CASE p.mark = "url"   -> OnUrl(p)
               [] p.mark = "field" -> OnHeaderField(p)
               [] p.mark = "value" -> OnHeaderValue(p)
               [] p.mark = "body"  -> OnBody(p)
               [] OTHER            -> p
    IN [q EXCEPT !.mark = "none", !.text = <<>>]

\* MARK, if nothing is marked, and one symbol more.
Mark(p, what, s) == [p EXCEPT !.mark = what, !.text = Append(@, s.v)]

-----------------------------------------------------------------------------
(* http_parser_execute, by states                                            *)

\* http_should_keep_alive of a request.
KeepAlive(p) ==
    IF p.minor = "1" THEN "close" \notin p.flags ELSE "keep-alive" \in p.flags

\* NEW_MESSAGE() and message_complete.  Behind an upgrade nothing is parsed.
Complete(p) ==
    [OnMessageComplete(Goto(p, IF KeepAlive(p) THEN "start_req" ELSE "dead"))
        EXCEPT !.exit = p.upgrade]

\* s_dead: only line ends may follow.
Dead(p, s) == IF s.t = "crlf" THEN p ELSE Fail(p)

\* s_start_req and s_req_method.
StartReq(p, s) ==
    CASE s.t = "crlf" -> p
      [] s.t = "method" /\ s.v \in Methods ->
            [p EXCEPT !.state = "spaces_before_url", !.method = s.v, !.flags = {},
                      !.uses_transfer_encoding = FALSE, !.content_length = ULLONG_MAX]
      [] OTHER -> Fail(p)

\* s_req_spaces_before_url.
SpacesBeforeUrl(p, s) ==
    LET start == IF p.method = "CONNECT" THEN "server_start" ELSE p.state
        state == UrlState(start, s.v)
    IN IF s.t = "url" /\ state # "dead" THEN Mark(Goto(p, state), "url", s) ELSE Fail(p)

\* s_req_server_start, where a url may not end, s_req_server and s_req_path, and from
\* the space on s_req_http_start to s_req_line_almost_done; a line that ends behind the
\* url is HTTP/0.9.
Url(p, s) ==
    CASE s.t = "url" -> Mark(Goto(p, UrlState(p.state, s.v)), "url", s)
      [] s.t \in {"http", "crlf"} /\ p.state = "path" ->
            LET q == Callback(Goto(p, "header_field_start"))
            IN IF q.http_errno THEN q
               ELSE [q EXCEPT !.minor = IF s.t = "http" THEN s.v ELSE "9"]
      [] OTHER -> Fail(p)

\* The header_state that the characters of a name lead to.
HeaderState(name) ==
    IF name \in {"connection", "content-length", "transfer-encoding", "upgrade"}
    THEN name ELSE "general"

\* s_headers_done: how the body is delimited.
HeadersDone(p) ==
    LET hasBody == "chunked" \in p.flags \/ p.content_length > 0
    IN IF p.upgrade /\ (p.method = "CONNECT" \/ ~hasBody) THEN Complete(p)
       ELSE IF "chunked" \in p.flags THEN Goto(p, "chunk_size_start")
       ELSE IF p.uses_transfer_encoding THEN Fail(p)
       ELSE IF p.content_length > 0 THEN Goto(p, "body_identity")
       ELSE Complete(p)

\* s_headers_almost_done: the trailer of a chunked message ends it; a message may
\* not have both a length and a transfer encoding.
HeadersAlmostDone(p) ==
    IF "trailing" \in p.flags THEN Complete(p)
    ELSE IF p.uses_transfer_encoding /\ "contentlength" \in p.flags THEN Fail(p)
    ELSE HeadersDone(OnHeadersComplete(
            [p EXCEPT !.upgrade = {"upgrade", "connection-upgrade"} \subseteq p.flags
                                  \/ p.method = "CONNECT"]))

\* s_header_field_start: another header, or the blank line.
HeaderFieldStart(p, s) ==
    CASE s.t = "crlf"  -> HeadersAlmostDone(p)
      [] s.t = "field" ->
            LET h == HeaderState(s.v)
            IN Mark([p EXCEPT !.state = "header_field", !.header_state = h,
                              !.uses_transfer_encoding = @ \/ h = "transfer-encoding"],
                    "field", s)
      [] OTHER -> Fail(p)

\* s_header_field.
HeaderField(p, s) ==
    IF s.t = "colon" THEN Callback(Goto(p, "header_value_start")) ELSE Fail(p)

\* s_header_value_discard_ws to s_header_value_discard_lws: an empty value is handed
\* over as well, but for a length.
EmptyValue(p) ==
    IF p.header_state = "content-length" THEN Fail(p)
    ELSE OnHeaderValue(Goto(p, "header_field_start"))

\* The value of a length header: digits, and only one of them.
ContentLength(p, v) ==
    IF v \notin DOMAIN Number \/ "contentlength" \in p.flags THEN Fail(p)
    ELSE [p EXCEPT !.flags = @ \cup {"contentlength"}, !.content_length = Number[v]]

\* The values that are looked for, and the header_state they lead to.
ValueState(h, v) ==
    CASE h = "connection" /\ v \in {"close", "keep-alive"}  -> v
      [] h = "connection" /\ v = "upgrade"                  -> "connection-upgrade"
      [] h = "transfer-encoding" /\ v = "chunked"           -> v
      [] OTHER                                              -> "general"

\* s_header_value_start, and the characters of s_header_value.
HeaderValueStart(p, s) ==
    LET q == Mark(Goto(p, "header_value"), "value", s)
    IN CASE s.t = "crlf"  -> EmptyValue(p)
         [] s.t = "value" ->
               IF p.header_state = "content-length" THEN ContentLength(q, s.v)
               ELSE [q EXCEPT !.header_state = ValueState(p.header_state, s.v),
                              !.flags = @ \cup (IF p.header_state = "upgrade"
                                                THEN {"upgrade"} ELSE {})]
         [] OTHER -> Fail(p)

\* s_header_value, s_header_almost_done and s_header_value_lws: the finished header
\* sets its flag.
HeaderValue(p, s) ==
    IF s.t = "crlf"
    THEN LET q == Callback(Goto(p, "header_field_start"))
         IN [q EXCEPT !.flags = @ \cup
                ({p.header_state} \cap {"keep-alive", "close", "chunked",
                                     "connection-upgrade"})]
    ELSE Fail(p)

\* s_body_identity and s_message_done.
BodyIdentity(p, s) ==
    LET q == [Mark(p, "body", s) EXCEPT !.content_length = @ - 1]
    IN IF q.content_length = 0 THEN Complete(Callback(q)) ELSE q

\* s_chunk_size_start and s_chunk_size.
ChunkSize(p, s) ==
    IF s.t = "size" /\ s.v \in DOMAIN Number
    THEN [p EXCEPT !.content_length = Number[s.v], !.state = "chunk_size_almost_done"]
    ELSE Fail(p)

\* s_chunk_size_almost_done: a chunk of 0 bytes is the last, and a trailer follows.
ChunkSizeAlmostDone(p, s) ==
    IF s.t # "crlf" THEN Fail(p)
    ELSE IF p.content_length > 0 THEN Goto(p, "chunk_data")
    ELSE [p EXCEPT !.flags = @ \cup {"trailing"}, !.state = "header_field_start"]

\* s_chunk_data.
ChunkData(p, s) ==
    LET q == [Mark(p, "body", s) EXCEPT !.content_length = @ - 1]
    IN IF q.content_length = 0 THEN Goto(q, "chunk_data_almost_done") ELSE q

\* s_chunk_data_almost_done and s_chunk_data_done.
ChunkDataDone(p, s) ==
    IF s.t = "crlf" THEN Callback(Goto(p, "chunk_size_start")) ELSE Fail(p)

\* The loop's body.
Step(p, s) ==
    IF p.http_errno \/ p.exit THEN p
    ELSE CASE p.state = "dead"                   -> Dead(p, s)
           [] p.state = "start_req"              -> StartReq(p, s)
           [] p.state = "spaces_before_url"      -> SpacesBeforeUrl(p, s)
           [] p.state \in {"server_start", "path"} -> Url(p, s)
           [] p.state = "header_field_start"     -> HeaderFieldStart(p, s)
           [] p.state = "header_field"           -> HeaderField(p, s)
           [] p.state = "header_value_start"     -> HeaderValueStart(p, s)
           [] p.state = "header_value"           -> HeaderValue(p, s)
           [] p.state = "body_identity"          -> BodyIdentity(p, s)
           [] p.state = "chunk_size_start"       -> ChunkSize(p, s)
           [] p.state = "chunk_size_almost_done" -> ChunkSizeAlmostDone(p, s)
           [] p.state = "chunk_data"             -> ChunkData(p, s)
           [] p.state = "chunk_data_almost_done" -> ChunkDataDone(p, s)

\* The marks that a chunk starts with.
Resume(p) ==
    [p EXCEPT !.exit = FALSE,
              !.mark = CASE p.state \in {"server_start", "path"} -> "url"
                         [] p.state = "header_field"              -> "field"
                         [] p.state = "header_value"              -> "value"
                         [] OTHER                                 -> "none"]

\* http_parser_execute of a chunk's first symbol, or of another one ...
Parse(p, first, s) == Step(IF first THEN Resume(p) ELSE p, s)

\* ... and behind its last: what is marked then is handed over.
EndOfChunk(p) == IF p.http_errno \/ p.exit THEN p ELSE Callback(p)

\* Mutant: upgrades are taken for requests.
HasError_Errno(p) == p.http_errno

\* HttpRequestParser::hasError after execute, which refuses upgrades.
HasError(p) == p.upgrade \/ p.http_errno
=============================================================================
