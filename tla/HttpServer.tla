------------------------------ MODULE HttpServer ------------------------------
(***************************************************************************)
(* The server side: TcpServer's bind, start, stop and accept loops,        *)
(* HttpServer::handleClient with HttpSession and the parser of module      *)
(* HttpParser, and ServletDispatch, on top of Socket.                      *)
(*                                                                         *)
(* The accept loops and the closing of the listening sockets are fibers of *)
(* acceptWorker, which has AcceptThreads threads: a fiber keeps its thread *)
(* until it waits.  The handlers run on the threads of worker, which are   *)
(* others, and interleave freely; so do the administrator, who adds and    *)
(* deletes servlets while requests are served, and whoever calls start and *)
(* stop.                                                                   *)
(*                                                                         *)
(* All this holds if the hooks are enabled, which is up to the program:    *)
(* t_hook_enable starts false (hook.cpp:31), and nothing in the repository *)
(* calls set_hook_enable.  Without them accept() blocks its thread, and a  *)
(* connection that accept() made non-blocking (hook.cpp:332-339) fails to  *)
(* read or send what it would have to wait for.                            *)
(*                                                                         *)
(* start() is called once: called again behind stop() it would start a     *)
(* second accept loop on a socket that the first may still wait for.       *)
(***************************************************************************)
EXTENDS HttpParser, FiniteSets, FiniteSetsExt

CONSTANTS
    Clients, Addrs,
    StreamsOf,      \* StreamsOf[c]: what a client may send, sequences of requests
    AcceptThreads,
    KeepAliveServer,    \* isKeepAlive_
    Uris, Globs,    \* what servlets are registered for: paths and patterns, the latter in
                    \* the order of their registrations before the start
    Matches,        \* fnmatch: pairs of a pattern and a path
    MaxAdmin        \* bound on the administrator's calls

\* A request of a client: a method, a minor version, the pieces of a url, headers, the
\* bytes of a body, and whether they come in chunks.  Behind a host comes a path.
IsRequest(r) ==
    /\ r = [method |-> r.method, minor |-> r.minor, path |-> r.path, headers |-> r.headers,
            body |-> r.body, chunked |-> r.chunked]
    /\ r.path \in Seq(Range(r.path)) /\ r.body \in Seq(Range(r.body))
    /\ (Len(r.path) > 2 /\ r.path[1] \in Schemas /\ r.path[2] \in Hosts)
          => r.path[3] \in LeadingPieces
    /\ r.headers \in Seq({<<h[1], h[2]>> : h \in Range(r.headers)})
    /\ r.chunked \in BOOLEAN

ASSUME HttpServerAssumption ==
    /\ AcceptThreads \in Nat \ {0}
    /\ MaxAdmin \in Nat
    /\ KeepAliveServer \in BOOLEAN
    /\ Globs \in Seq(Range(Globs))
    /\ \A i, j \in 1 .. Len(Globs) : Globs[i] = Globs[j] => i = j
    /\ \A c \in Clients : \A stream \in StreamsOf[c] :
          stream \in Seq(Range(stream)) /\ \A r \in Range(stream) : IsRequest(r)

VARIABLES
    hooked,     \* t_hook_enable, on every thread of the server
    m_socks,    \* the addresses of the sockets in m_socks
    open,       \* the addresses whose listening socket is open
    m_isStop,
    started,    \* start() was called
    loop,       \* the accept fiber of an address
    stopper,    \* the closing fiber: its place, and the sockets still to close
    backlog,    \* connections that wait to be accepted
    pc,         \* a client's connection, and its handler
    rest,       \* symbols the client sends that the server has not read
    sent,       \* the requests the client sends
    aborted,    \* the client went away
    parser,     \* recvRequest's
    chunk,      \* recvRequest is in the middle of what a read returned
    cut,        \* a read ended in a url, a header's name or its value
    servlet,    \* the servlet that dispatch chose
    answers,    \* the responses sent: the servlet and the request it was handed
    datas_, globs_, default_,
    history     \* the administrator's calls: the table, what it does to it, for which uri

serverVars == <<hooked, m_socks, open, m_isStop, started, loop, stopper, backlog>>
clientVars == <<pc, rest, sent, aborted, parser, chunk, cut, servlet, answers>>
tableVars == <<datas_, globs_, default_, history>>
vars == <<serverVars, clientVars, tableVars>>

Servlets == 0 .. MaxAdmin + Len(Globs)

Uri == Uris \cup Range(Globs) \cup {<<>>}

TypeOK ==
    /\ hooked \in BOOLEAN
    /\ m_socks \subseteq Addrs /\ open \subseteq Addrs
    /\ m_isStop \in BOOLEAN /\ started \in BOOLEAN
    /\ loop \in [Addrs -> {"none", "ready", "check", "accept", "wait", "woken", "blocked",
                           "late", "over"}]
    /\ stopper \in [pc : {"none", "ready", "cancel", "hook", "close", "over"},
                    todo : SUBSET Addrs]
    /\ backlog \in [Addrs -> Seq(Clients)]
    /\ pc \in [Clients -> {"out", "backlog", "recv", "handle", "respond", "stuck",
                           "refused", "over"}]
    /\ aborted \in [Clients -> BOOLEAN] /\ cut \in [Clients -> BOOLEAN]
    /\ chunk \in [Clients -> BOOLEAN]
    /\ servlet \in [Clients -> Servlets]
    /\ DOMAIN answers = Clients
    /\ \A c \in Clients :
          answers[c] \in Seq([servlet : Servlets,
                              request : {a.request : a \in Range(answers[c])}])
    /\ datas_ \in [DOMAIN datas_ -> Servlets] /\ DOMAIN datas_ \subseteq Uris
    /\ globs_ \in Seq([uri : Range(Globs), servlet : Servlets])
    /\ default_ \in Servlets
    /\ history \in Seq([table : {"datas", "globs", "default"}, op : {"add", "del"}, uri : Uri])
    /\ Len(history) \in Servlets

-----------------------------------------------------------------------------
(* What clients send                                                         *)

Sym(t, v) == [t |-> t, v |-> v]

HeaderLine(h) == <<Sym("field", h[1]), Sym("colon", ""), Sym("value", h[2]), Sym("crlf", "")>>

Body(r) == [i \in 1 .. Len(r.body) |-> Sym("byte", r.body[i])]

\* Every byte of a chunked body in a chunk of its own.
Chunked(r) ==
    FlattenSeq([i \in 1 .. Len(r.body) |->
        <<Sym("size", "1"), Sym("crlf", ""), Sym("byte", r.body[i]), Sym("crlf", "")>>])
    \o <<Sym("size", "0"), Sym("crlf", ""), Sym("crlf", "")>>

Encode(r) ==
    <<Sym("method", r.method)>>
    \o [i \in 1 .. Len(r.path) |-> Sym("url", r.path[i])]
    \o <<Sym("http", r.minor)>>
    \o FlattenSeq([i \in 1 .. Len(r.headers) |-> HeaderLine(r.headers[i])])
    \o <<Sym("crlf", "")>>
    \o (IF r.chunked THEN Chunked(r) ELSE Body(r))

EncodeAll(stream) == FlattenSeq([i \in 1 .. Len(stream) |-> Encode(stream[i])])

-----------------------------------------------------------------------------
(* ServletDispatch                                                           *)

\* The first entry of a pattern is erased.
Drop(g) ==
    LET at == {i \in 1 .. Len(globs_) : globs_[i].uri = g}
    IN IF at = {} THEN globs_ ELSE RemoveAt(globs_, Min(at))

\* The servlet that the next registration makes.
Fresh == Len(history) + 1

Record(table, op, uri) ==
    history' = Append(history, [table |-> table, op |-> op, uri |-> uri])

\* addServlet and addServletCreator.
AddServlet(u) ==
    /\ datas_' = [v \in DOMAIN datas_ \cup {u} |-> IF v = u THEN Fresh ELSE datas_[v]]
    /\ Record("datas", "add", u)
    /\ UNCHANGED <<globs_, default_>>

\* delServlet.
DelServlet(u) ==
    /\ datas_' = [v \in DOMAIN datas_ \ {u} |-> datas_[v]]
    /\ Record("datas", "del", u)
    /\ UNCHANGED <<globs_, default_>>

\* Mutant: the entry of the same pattern stays.
AddGlobServlet_Kept(g) ==
    /\ globs_' = Append(globs_, [uri |-> g, servlet |-> Fresh])
    /\ Record("globs", "add", g)
    /\ UNCHANGED <<datas_, default_>>

\* addGlobServlet and addGlobServletCreator: an entry of the same pattern goes, and
\* the new one is the last.
AddGlobServlet(g) ==
    /\ globs_' = Append(Drop(g), [uri |-> g, servlet |-> Fresh])
    /\ Record("globs", "add", g)
    /\ UNCHANGED <<datas_, default_>>

\* delGlobServlet.
DelGlobServlet(g) ==
    /\ globs_' = Drop(g)
    /\ Record("globs", "del", g)
    /\ UNCHANGED <<datas_, default_>>

\* HttpServer::setName, with setDeafault and a new NotFoundServlet.
SetName ==
    /\ default_' = Fresh
    /\ Record("default", "add", <<>>)
    /\ UNCHANGED <<datas_, globs_>>

Administer ==
    /\ Len(history) < MaxAdmin + Len(Globs)
    /\ \/ \E u \in Uris : AddServlet(u) \/ DelServlet(u)
       \/ \E g \in Range(Globs) : AddGlobServlet(g) \/ DelGlobServlet(g)
       \/ SetName
    /\ UNCHANGED <<serverVars, clientVars>>

\* getMatchedServlet: the exact uri, the first pattern that matches, the default.
GetMatchedServlet(path) ==
    LET hits == {i \in 1 .. Len(globs_) : <<globs_[i].uri, path>> \in Matches}
    IN IF path \in DOMAIN datas_ THEN datas_[path]
       ELSE IF hits # {} THEN globs_[Min(hits)].servlet
       ELSE default_

-----------------------------------------------------------------------------
(* TcpServer                                                                 *)

\* bind( addrs, fails ): if socket, bind or listen fails for an address none is
\* kept, and the destructors close the sockets.  It can be tried again.
Bind(fails) ==
    /\ ~started /\ m_socks = {}
    /\ open' = IF fails = {} THEN Addrs ELSE {}
    /\ m_socks' = IF fails = {} THEN Addrs ELSE {}
    /\ UNCHANGED <<hooked, m_isStop, started, loop, stopper, backlog, clientVars, tableVars>>

\* start(): an accept fiber for every socket.
Start ==
    /\ ~started
    /\ started' = TRUE
    /\ m_isStop' = FALSE
    /\ loop' = [a \in Addrs |-> IF a \in m_socks THEN "ready" ELSE "none"]
    /\ UNCHANGED <<hooked, m_socks, open, stopper, backlog, clientVars, tableVars>>

\* stop(): the flag, and the fiber that closes.
Stop ==
    /\ started /\ ~m_isStop
    /\ m_isStop' = TRUE
    /\ stopper' = [pc |-> "ready", todo |-> m_socks]
    /\ UNCHANGED <<hooked, m_socks, open, started, loop, backlog, clientVars, tableVars>>

\* The fibers of acceptWorker that have a thread.
Running ==
    {a \in Addrs : loop[a] \in {"check", "accept", "blocked", "late"}}
    \cup (IF stopper.pc \in {"cancel", "hook", "close"} THEN {"stopper"} ELSE {})

ThreadFree == Cardinality(Running) < AcceptThreads

\* The scheduler resumes a fiber: an accept loop at its start, or in accept().
Resumed(a) ==
    /\ loop[a] \in {"ready", "woken"} /\ ThreadFree
    /\ loop' = [loop EXCEPT ![a] = IF @ = "ready" THEN "check" ELSE "accept"]
    /\ UNCHANGED <<hooked, m_socks, open, m_isStop, started, stopper, backlog, clientVars,
                   tableVars>>

\* while ( !m_isStop )
Check(a) ==
    /\ loop[a] = "check"
    /\ loop' = [loop EXCEPT ![a] = IF m_isStop THEN "over" ELSE "accept"]
    /\ UNCHANGED <<hooked, m_socks, open, m_isStop, started, stopper, backlog, clientVars,
                   tableVars>>

\* The kernel resets these connections.
Reset(conns) ==
    [c \in Clients |-> IF \E i \in 1 .. Len(conns) : conns[i] = c THEN "refused" ELSE pc[c]]

\* Mutant: the connection is accepted and forgotten.
Accept_Forgotten(a) ==
    /\ loop[a] \in {"accept", "blocked", "late"} /\ a \in open /\ backlog[a] # <<>>
    /\ backlog' = [backlog EXCEPT ![a] = Tail(@)]
    /\ loop' = [loop EXCEPT ![a] = "check"]
    /\ UNCHANGED <<hooked, m_socks, open, m_isStop, started, stopper, clientVars, tableVars>>

\* Socket::accept takes a connection: its Socket, its timeout, its handler.  A call that
\* blocked while its descriptor was closed still does, and the socket goes with its
\* return.
Accept(a) ==
    LET late == loop[a] = "late"
        left == Tail(backlog[a])
    IN
    /\ loop[a] \in {"accept", "blocked", "late"} /\ a \in open /\ backlog[a] # <<>>
    /\ open' = IF late THEN open \ {a} ELSE open
    /\ backlog' = [backlog EXCEPT ![a] = IF late THEN <<>> ELSE left]
    /\ pc' = [Reset(IF late THEN left ELSE <<>>) EXCEPT ![Head(backlog[a])] = "recv"]
    /\ loop' = [loop EXCEPT ![a] = "check"]
    /\ UNCHANGED <<hooked, m_socks, m_isStop, started, stopper, rest, sent, aborted, parser,
                   chunk, cut, servlet, answers, tableVars>>

\* It fails on a socket that was closed; the loop goes round.
AcceptFails(a) ==
    /\ loop[a] = "accept" /\ a \notin open
    /\ loop' = [loop EXCEPT ![a] = "check"]
    /\ UNCHANGED <<hooked, m_socks, open, m_isStop, started, stopper, backlog, clientVars,
                   tableVars>>

\* Nothing to accept: the hooked call registers for READ and yields ...
AcceptWaits(a) ==
    /\ hooked
    /\ loop[a] = "accept" /\ a \in open /\ backlog[a] = <<>>
    /\ loop' = [loop EXCEPT ![a] = "wait"]
    /\ UNCHANGED <<hooked, m_socks, open, m_isStop, started, stopper, backlog, clientVars,
                   tableVars>>

\* ... and the system's own keeps the thread.
AcceptBlocks(a) ==
    /\ ~hooked
    /\ loop[a] = "accept" /\ a \in open /\ backlog[a] = <<>>
    /\ loop' = [loop EXCEPT ![a] = "blocked"]
    /\ UNCHANGED <<hooked, m_socks, open, m_isStop, started, stopper, backlog, clientVars,
                   tableVars>>

\* An event or cancelAll wakes the fiber that waits; it tries accept again.
Woken(a) == [loop EXCEPT ![a] = IF @ = "wait" THEN "woken" ELSE @]

\* The fiber that stop() scheduled: cancelAll and close for every socket ...
StopperRuns ==
    /\ stopper.pc = "ready" /\ ThreadFree
    /\ stopper' = [pc |-> IF m_socks = {} THEN "over" ELSE "cancel", todo |-> m_socks]
    /\ UNCHANGED <<hooked, m_socks, open, m_isStop, started, loop, backlog, clientVars,
                   tableVars>>

Closing == CHOOSE a \in stopper.todo : TRUE

\* ... Socket::cancelAll ...
StopperCancels ==
    /\ stopper.pc = "cancel"
    /\ loop' = Woken(Closing)
    /\ stopper' = [stopper EXCEPT !.pc = "hook"]
    /\ UNCHANGED <<hooked, m_socks, open, m_isStop, started, backlog, clientVars, tableVars>>

\* ... Socket::close, whose hooked close() cancels once more ...
StopperHook ==
    /\ stopper.pc = "hook"
    /\ loop' = Woken(Closing)
    /\ stopper' = [stopper EXCEPT !.pc = "close"]
    /\ UNCHANGED <<hooked, m_socks, open, m_isStop, started, backlog, clientVars, tableVars>>

\* Mutant: the sockets are forgotten, not closed.
StopperCloses_Cleared ==
    /\ stopper.pc = "close"
    /\ m_socks' = {}
    /\ stopper' = [pc |-> "over", todo |-> {}]
    /\ UNCHANGED <<hooked, open, loop, m_isStop, started, backlog, clientVars, tableVars>>

\* ... closes the descriptor.  The kernel resets who is in its backlog, but for a call
\* of accept() that blocks on it; at the end m_socks.clear().
StopperCloses ==
    LET a == Closing
        last == stopper.todo = {a}
    IN
    /\ stopper.pc = "close"
    /\ IF loop[a] = "blocked"
       THEN /\ loop' = [loop EXCEPT ![a] = "late"]
            /\ UNCHANGED <<open, backlog, pc>>
       ELSE /\ open' = open \ {a}
            /\ backlog' = [backlog EXCEPT ![a] = <<>>]
            /\ pc' = Reset(backlog[a])
            /\ UNCHANGED loop
    /\ stopper' = [pc |-> IF last THEN "over" ELSE "cancel", todo |-> stopper.todo \ {a}]
    /\ m_socks' = IF last THEN {} ELSE m_socks
    /\ UNCHANGED <<hooked, m_isStop, started, rest, sent, aborted, parser, chunk, cut,
                   servlet, answers, tableVars>>

-----------------------------------------------------------------------------
(* A client and its handler                                                  *)

\* A client connects, and will send its requests.
Arrive(c, a, stream) ==
    /\ pc[c] = "out" /\ a \in open /\ started
    /\ pc' = [pc EXCEPT ![c] = "backlog"]
    /\ backlog' = [backlog EXCEPT ![a] = Append(@, c)]
    /\ loop' = Woken(a)
    /\ sent' = [sent EXCEPT ![c] = stream]
    /\ rest' = [rest EXCEPT ![c] = EncodeAll(stream)]
    /\ UNCHANGED <<hooked, m_socks, open, m_isStop, started, stopper, aborted, parser, chunk,
                   cut, servlet, answers, tableVars>>

\* It goes away, or stops sending.
Abort(c) ==
    /\ pc[c] \in {"recv", "handle", "respond"} /\ ~aborted[c]
    /\ pc[c] = "recv" => rest[c] # <<>>
    /\ aborted' = [aborted EXCEPT ![c] = TRUE]
    /\ rest' = [rest EXCEPT ![c] = <<>>]
    /\ UNCHANGED <<serverVars, pc, sent, parser, chunk, cut, servlet, answers, tableVars>>

\* HttpSession::recvRequest parses what a read returned: another symbol ...
Parses(c) ==
    /\ pc[c] = "recv" /\ Len(rest[c]) > 1
    /\ \E p \in {Parse(parser[c], ~chunk[c], Head(rest[c]))} :
          parser' = [parser EXCEPT ![c] = p]
    /\ rest' = [rest EXCEPT ![c] = Tail(@)]
    /\ chunk' = [chunk EXCEPT ![c] = TRUE]
    /\ UNCHANGED <<serverVars, pc, sent, aborted, cut, servlet, answers, tableVars>>

\* ... or the last one, and the verdict: an error closes the connection, a finished
\* message goes to the dispatcher, an unfinished one is read on.
ParsesLast(c) ==
    /\ pc[c] = "recv" /\ rest[c] # <<>>
    /\ \E q \in {Parse(parser[c], ~chunk[c], Head(rest[c]))} : \E p \in {EndOfChunk(q)} :
          /\ parser' = [parser EXCEPT ![c] = p]
          /\ cut' = [cut EXCEPT ![c] = @ \/ (~q.http_errno /\ q.state \in
                                      {"server_start", "path", "header_field", "header_value"})]
          /\ pc' = [pc EXCEPT ![c] = IF HasError(p) THEN "over"
                                     ELSE IF p.finished THEN "handle" ELSE "recv"]
    /\ rest' = [rest EXCEPT ![c] = Tail(@)]
    /\ chunk' = [chunk EXCEPT ![c] = FALSE]
    /\ UNCHANGED <<serverVars, sent, aborted, servlet, answers, tableVars>>

\* The read ends with nothing, or with the timeout, or without hooks before the client's
\* bytes are there: the session is closed.
RecvFails(c) ==
    /\ pc[c] = "recv" /\ ~chunk[c]
    /\ rest[c] = <<>> \/ ~hooked
    /\ pc' = [pc EXCEPT ![c] = "over"]
    /\ UNCHANGED <<serverVars, rest, sent, aborted, parser, chunk, cut, servlet, answers, tableVars>>

\* HttpRequest::init: m_close is true from the start, and an absent header is no
\* "keep-alive".
IsClose(r) ==
    LET conn == IF "connection" \in DOMAIN r.headers THEN r.headers["connection"] ELSE ""
        m_close == TRUE
    IN IF conn = "" THEN conn # "keep-alive" ELSE m_close

\* ServletDispatch::handle looks the servlet up ...
Handle(c) ==
    /\ pc[c] = "handle"
    /\ servlet' = [servlet EXCEPT ![c] = GetMatchedServlet(parser[c].data.path)]
    /\ pc' = [pc EXCEPT ![c] = "respond"]
    /\ UNCHANGED <<serverVars, rest, sent, aborted, parser, chunk, cut, answers, tableVars>>

\* ... it handles the request without the lock, and the response is sent; the
\* session is closed unless both sides keep it alive.
Respond(c) ==
    /\ pc[c] = "respond"
    /\ answers' = [answers EXCEPT ![c] =
                      Append(@, [servlet |-> servlet[c], request |-> parser[c].data])]
    /\ pc' = [pc EXCEPT ![c] = IF ~KeepAliveServer \/ IsClose(parser[c].data)
                               THEN "over" ELSE "recv"]
    /\ parser' = [parser EXCEPT ![c] = NewParser]
    /\ UNCHANGED <<serverVars, rest, sent, aborted, chunk, cut, servlet, tableVars>>

\* The peer is gone, or without hooks the send would have to wait, and send() fails:
\* writeFixSize does not come back.
RespondFails(c) ==
    /\ pc[c] = "respond"
    /\ aborted[c] \/ ~hooked
    /\ pc' = [pc EXCEPT ![c] = "stuck"]
    /\ UNCHANGED <<serverVars, rest, sent, aborted, parser, chunk, cut, servlet, answers, tableVars>>

-----------------------------------------------------------------------------

Init ==
    /\ hooked \in BOOLEAN
    /\ m_socks = {} /\ open = {} /\ m_isStop = TRUE /\ started = FALSE
    /\ loop = [a \in Addrs |-> "none"]
    /\ stopper = [pc |-> "none", todo |-> {}]
    /\ backlog = [a \in Addrs |-> <<>>]
    /\ pc = [c \in Clients |-> "out"]
    /\ rest = [c \in Clients |-> <<>>]
    /\ sent = [c \in Clients |-> <<>>]
    /\ aborted = [c \in Clients |-> FALSE]
    /\ parser = [c \in Clients |-> NewParser]
    /\ cut = [c \in Clients |-> FALSE]
    /\ chunk = [c \in Clients |-> FALSE]
    /\ servlet = [c \in Clients |-> 0]
    /\ answers = [c \in Clients |-> <<>>]
    /\ datas_ = <<>> /\ default_ = 0
    /\ globs_ = [i \in 1 .. Len(Globs) |-> [uri |-> Globs[i], servlet |-> i]]
    /\ history = [i \in 1 .. Len(Globs) |->
                     [table |-> "globs", op |-> "add", uri |-> Globs[i]]]

\* The fibers of acceptWorker.
AcceptStep(a) ==
    Resumed(a) \/ Check(a) \/ Accept(a) \/ AcceptFails(a) \/ AcceptWaits(a)
    \/ AcceptBlocks(a)

StopperStep == StopperRuns \/ StopperCancels \/ StopperHook \/ StopperCloses

Parsing(c) == Parses(c) \/ ParsesLast(c)

HandlerStep(c) == Parsing(c) \/ RecvFails(c) \/ Handle(c) \/ Respond(c)

\* Between the symbols of one read a handler only computes: what the others do
\* meanwhile is taken to come before or behind.
Quiet == \A c \in Clients : ~chunk[c]

Next ==
    \/ \E c \in Clients : (Quiet \/ chunk[c]) /\ Parsing(c)
    \/ /\ Quiet
       /\ \/ \E fails \in SUBSET Addrs : Bind(fails)
          \/ Start \/ Stop \/ StopperStep
          \/ \E a \in Addrs : AcceptStep(a)
          \/ \E c \in Clients :
                \/ \E a \in Addrs, stream \in StreamsOf[c] : Arrive(c, a, stream)
                \/ RecvFails(c) \/ Handle(c) \/ Respond(c) \/ RespondFails(c) \/ Abort(c)
          \/ Administer

Spec == Init /\ [][Next]_vars

\* The threads run, and the scheduler's queue is served in order; recvRequest's read
\* ends, at the latest with the timeout that startAccept sets.
Fairness ==
    /\ \A a \in Addrs : WF_vars(AcceptStep(a)) /\ SF_vars(Resumed(a))
    /\ WF_vars(StopperStep) /\ SF_vars(StopperRuns)
    /\ \A c \in Clients : WF_vars(HandlerStep(c))

FairSpec == Spec /\ Fairness

-----------------------------------------------------------------------------
(* Properties                                                                *)

\* The headers by their names; of several with one name, the last one.
HeadersOf(headers) ==
    LET with(n) == {i \in 1 .. Len(headers) : headers[i][1] = n}
    IN [n \in {headers[i][1] : i \in 1 .. Len(headers)} |-> headers[Max(with(n))][2]]

\* The forms of a url that a server answers, by RFC 7230: a path or "*", and a path
\* behind a schema and a host.
IsPath(url) == url # <<>> /\ url[1] \in LeadingPieces \cup {"*"}

IsAbsolute(url) == Len(url) > 1 /\ url[1] \in Schemas /\ url[2] \in Hosts

PathOf(url) ==
    IF IsPath(url) THEN url
    ELSE IF Len(url) = 2 THEN <<"/">>
    ELSE SubSeq(url, 3, Len(url))

\* A request as the servlets should see it.
Meant(r) ==
    [method |-> r.method, version |-> r.minor, path |-> PathOf(r.path),
     headers |-> HeadersOf(r.headers), body |-> r.body]

HasHeader(r, name) == \E i \in 1 .. Len(r.headers) : r.headers[i][1] = name

HasHeaderValue(r, name, value) == \E i \in 1 .. Len(r.headers) : r.headers[i] = <<name, value>>

\* The headers that give a length.
Lengths(r) == {i \in 1 .. Len(r.headers) : r.headers[i][1] = "content-length"}

Ambiguous(r) == HasHeader(r, "content-length") /\ HasHeader(r, "transfer-encoding")

\* The body ends where the headers say.
Framed(r) ==
    \/ Ambiguous(r)
    \/ r.chunked /\ HasHeaderValue(r, "transfer-encoding", "chunked")
    \/ /\ ~r.chunked /\ ~HasHeaderValue(r, "transfer-encoding", "chunked")
       /\ Lengths(r) = {} => r.body = <<>>
       /\ \A i \in Lengths(r) :
             r.headers[i][2] \in DOMAIN Number => Len(r.body) = Number[r.headers[i][2]]

\* A client that sends one complete request and waits for the answer.
Lone(c) == Len(sent[c]) = 1 /\ Framed(sent[c][1])

\* What a servlet sees of a request: all that was sent but for the headers; of these
\* nothing that was not sent, and at least those with the name of the first.
Intact(seen, r) ==
    /\ [seen EXCEPT !.headers = <<>>] = [Meant(r) EXCEPT !.headers = <<>>]
    /\ \A name \in DOMAIN seen.headers :
          name \in DOMAIN HeadersOf(r.headers)
          /\ seen.headers[name] = HeadersOf(r.headers)[name]
    /\ r.headers # <<>> => r.headers[1][1] \in DOMAIN seen.headers

\* Such a client gets what it asked for: the servlet is handed the client's method,
\* path and body, and of the headers what the order of the header map lets it find,
\* however the bytes were cut into reads (http_session.cpp:16-48, http_parser.cpp:64-194,
\* http.cpp:56-59), unless a read ended in the url or in a header.
RequestIntact ==
    \A c \in Clients : (answers[c] # <<>> /\ Lone(c) /\ ~cut[c]) =>
        Intact(answers[c][1].request, sent[c][1])

\* What the server does not answer: unknown methods and tunnels, a url that is neither
\* a path nor absolute, upgrades, and bodies of a length that is not one number.
Refusable(r) ==
    \/ r.method \notin Methods \/ r.method = "CONNECT"
    \/ ~IsPath(r.path) /\ ~IsAbsolute(r.path)
    \/ HasHeader(r, "upgrade") /\ HasHeaderValue(r, "connection", "upgrade")
    \/ Ambiguous(r)
    \/ HasHeader(r, "transfer-encoding") /\ ~HasHeaderValue(r, "transfer-encoding", "chunked")
    \/ \E i \in Lengths(r) : r.headers[i][2] \notin DOMAIN Number \/ Lengths(r) # {i}

\* A handler that is over has answered a lone complete request exactly if it is
\* one to answer, and once (http_server.cpp:33-57, http_parser.cpp:178-194); without hooks
\* it may have given up.
AnsweredIff ==
    \A c \in Clients : (pc[c] = "over" /\ Lone(c) /\ ~cut[c] /\ ~aborted[c]) =>
        Len(answers[c]) \in IF Refusable(sent[c][1]) THEN {0}
                            ELSE IF hooked THEN {1} ELSE {0, 1}

\* The calls on a table for a uri, and the last one if it registered a servlet.
CallsFor(table, uri) ==
    {i \in 1 .. Len(history) : history[i].table = table /\ history[i].uri = uri}

Registration(table, uri) ==
    {i \in CallsFor(table, uri) :
        history[i].op = "add" /\ \A j \in CallsFor(table, uri) : j <= i}

\* Dispatch by the administrator's calls: the last registration of the exact uri,
\* else of the patterns that match the one whose last registration is the oldest
\* (http_servlet.cpp:36-136), else the last default.  No deleted or replaced servlet is
\* ever chosen.
DispatchByHistory ==
    \A path \in Uris :
        LET exact == Registration("datas", path)
            globs == UNION {Registration("globs", g) :
                               g \in {h \in Range(Globs) : <<h, path>> \in Matches}}
        IN GetMatchedServlet(path) =
              IF exact # {} THEN Min(exact)
              ELSE IF globs # {} THEN Min(globs)
              ELSE Max({0} \cup Registration("default", <<>>))

Ended == open = {} /\ m_socks = {} /\ \A a \in Addrs : loop[a] \in {"none", "over"}

\* An accept() without hooks waits for a connection that does not come.
AcceptHangs ==
    ~hooked /\ \E a \in Addrs : loop[a] \in {"blocked", "late"} /\ backlog[a] = <<>>

\* A server that is told to stop does: every accept loop ends, and every listening
\* socket is closed (tcp_server.cpp:74-111), with one thread for the accept loops; but
\* without hooks only if an accept() does not block for ever.
StopEnds == (started /\ m_isStop) ~> (Ended \/ []AcceptHangs)

\* A connection does not stay open for ever: it is accepted or reset, and its handler
\* ends, also when the client says nothing more, or the server is stopped
\* (tcp_server.cpp:74-85, http_server.cpp:33-57); but for a response to a client that
\* went away (stream.cpp:36-50).
ClientFinished ==
    \A c \in Clients : (pc[c] = "backlog") ~> (pc[c] \in {"over", "refused", "stuck"})
=============================================================================
