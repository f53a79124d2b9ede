----------------------------- MODULE MCHttpServer -----------------------------
(* HttpServer for TLC.                                                         *)
EXTENDS HttpServer

MCMethods == {"GET", "POST", "CONNECT"}
MCLeadingPieces == {"/a", "/b"}
MCSchemas == {"http://"}
MCHosts == {"h"}
MCUris == {<<"/b">>}
MCGlobs == << <<"/b", "*">>, <<"*">> >>
MCMatches ==
    ({<<"*">>} \X {<<"/">>, <<"*">>, <<"/a">>, <<"/b">>}) \cup {<<<<"/b", "*">>, <<"/b">>>>}

Req(method, path, headers, body, chunked) ==
    [method |-> method, minor |-> "1", path |-> path, headers |-> headers, body |-> body,
     chunked |-> chunked]

Get == Req("GET", <<"/a">>, <<>>, <<>>, FALSE)
Bare == Req("GET", <<"http://", "h">>, <<<<"connection", "close">>>>, <<>>, FALSE)
Absolute ==
    Req("GET", <<"http://", "h", "/b">>, <<<<"host", "1">>, <<"accept", "2">>>>, <<>>, FALSE)
Star == Req("GET", <<"*">>, <<>>, <<>>, FALSE)
Post == Req("POST", <<"/b">>, <<<<"content-length", "2">>>>, <<"1", "2">>, FALSE)
Chunks == Req("POST", <<"/b">>, <<<<"transfer-encoding", "chunked">>>>, <<"1">>, TRUE)
Upgrade == Req("GET", <<"/a">>, <<<<"upgrade", "h2c">>, <<"connection", "upgrade">>>>, <<>>, FALSE)
Bad == Req("FETCH", <<"/a">>, <<>>, <<>>, FALSE)
Word == Req("GET", <<"c">>, <<>>, <<>>, FALSE)
NoHost == Req("GET", <<"http://", "/a">>, <<>>, <<>>, FALSE)

MCStreamsOf ==
    "c1" :> {<<Bare>>, <<Absolute>>, <<Star>>, <<Post>>, <<Chunks>>, <<Upgrade>>, <<Bad>>,
             <<Word>>, <<NoHost>>, <<Star, Get>>}
=============================================================================
