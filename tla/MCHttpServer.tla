----------------------------- MODULE MCHttpServer -----------------------------
(* HttpServer for TLC: three requests of five kinds, with and without a    *)
(* query, with a header given twice, of HTTP/1.0, with a bad version and   *)
(* with an unknown method, in messages cut at any token.                   *)
EXTENDS HttpServer

FirstLine(words, query) == [words |-> words, query |-> query, header |-> <<>>]
Header(field, value) ==
  [words |-> <<field, value>>, query |-> "", header |-> <<field, value>>]

MCRequests ==
  {<<FirstLine(<<"GET", "/", "HTTP/1.1">>, ""),
     Header("Connection", "close"), Header("Connection", "Keep-Alive"), EmptyLine>>,
   <<FirstLine(<<"POST", "/a", "HTTP/1.1">>, "?q"), EmptyLine>>,
   <<FirstLine(<<"GET", "/", "HTTP/1.0">>, ""), EmptyLine>>,
   <<FirstLine(<<"GET", "/", "HTTP/2.0">>, ""), Header("Host", "h"), EmptyLine>>,
   <<FirstLine(<<"PATCH", "/", "HTTP/1.1">>, ""), EmptyLine>>}
==============================================================================
