------------------------------ MODULE HttpServer ------------------------------
(***************************************************************************)
(* One connection of the HTTP server (http/): the parser that keeps its    *)
(* place between messages (httpContext.cpp, httpRequest.cpp), the server's *)
(* reaction to what it parsed (httpServer.cpp, httpResponse.cpp), and a    *)
(* client whose requests the network cuts into messages anywhere.          *)
(*                                                                         *)
(* The stream is made of tokens: the text of a line, its CR, its LF.  What *)
(* the code finds in a line by searching for spaces, '?' and ':' is given  *)
(* with the line, as a record                                              *)
(*   [words  |-> what stands between the spaces, the target up to its '?', *)
(*    query  |-> the rest of the target from its '?' on, or "",            *)
(*    header |-> <<field, value>> of a line with a colon, spaces trimmed,  *)
(*               or <<>>]                                                  *)
(*                                                                         *)
(* All runs in the connection's loop, so that send and shutdown act at     *)
(* once; what becomes of the bytes is in TcpConnection.                    *)
(***************************************************************************)
EXTENDS Naturals, Sequences

CONSTANTS
  Requests,    \* what a client may send: sequences of lines, the last empty
  MaxRequests  \* how many of them it sends

Lines == UNION {{r[i] : i \in DOMAIN r} : r \in Requests}
EmptyLine == [words |-> <<"">>, query |-> "", header |-> <<>>]

(* Only the last line of a request has no colon: one without ends the      *)
(* headers.                                                                *)
ASSUME RequestsAssumption == Requests \subseteq Seq(Lines)
ASSUME FramedAssumption ==
  \A r \in Requests :
    /\ Len(r) >= 2 /\ r[Len(r)] = EmptyLine
    /\ \A i \in 2 .. Len(r) - 1 : Len(r[i].header) = 2

VARIABLES
  sent,      \* the requests the client has sent
  flight,    \* their tokens that have not arrived
  hurried,   \* history: it sent one before the last was answered
  buffer,    \* inputBuffer_
  state,     \* state_ of the HttpContext
  request,   \* request_
  pc,        \* "poll", or inside onMessage: "parse", "parsed"
  ok,        \* parseRequest's result
  st,        \* state_ of the connection
  handled,   \* the requests given to httpCallback_
  out        \* the responses sent

vars == <<sent, flight, hurried, buffer, state, request, pc, ok, st, handled, out>>
clientVars == <<sent, flight, hurried>>

Methods == {"GET", "POST", "HEAD", "PUT", "DELETE"}
Versions == {"HTTP/1.0", "HTTP/1.1"}

Dummy == [method |-> "kInvaild", version |-> "kUnknow", path |-> "", query |-> "",
          headers |-> <<>>]

Token(part, line) == [part |-> part, line |-> line]
Text(line) == IF line = EmptyLine THEN <<>> ELSE <<Token("text", line)>>
Tokens(line) == Text(line) \o <<Token("cr", EmptyLine), Token("lf", EmptyLine)>>

(* The tokens of one line after the other; each header has three.          *)
HeaderTokens(r) ==
  [k \in 1 .. 3 * (Len(r) - 2) |-> Tokens(r[((k - 1) \div 3) + 2])[((k - 1) % 3) + 1]]

Bytes(r) == Tokens(r[1]) \o HeaderTokens(r) \o Tokens(EmptyLine)

Init ==
  /\ sent = <<>> /\ flight = <<>> /\ hurried = FALSE
  /\ buffer = <<>>
  /\ state = "kExpectRequestLine" /\ request = Dummy
  /\ pc = "poll" /\ ok = TRUE
  /\ st = "kConnected"
  /\ handled = <<>> /\ out = <<>>

------------------------------------------------------------------------------
(* The client sends its next request. *)
Send(r) ==
  /\ Len(sent) < MaxRequests
  /\ sent' = Append(sent, r)
  /\ flight' = flight \o Bytes(r)
  /\ hurried' = (hurried \/ Len(out) < Len(sent))
  /\ UNCHANGED <<buffer, state, request, pc, ok, st, handled, out>>

(* A message arrives, cut anywhere: onMessage calls parseRequest. *)
OnMessage(n) ==
  /\ pc = "poll"
  /\ n \in 1 .. Len(flight)
  /\ buffer' = buffer \o SubSeq(flight, 1, n)
  /\ flight' = SubSeq(flight, n + 1, Len(flight))
  /\ pc' = "parse" /\ ok' = TRUE
  /\ UNCHANGED <<sent, hurried, state, request, st, handled, out>>

(* findCRLF, as the number of tokens before the CR. *)
HasCRLF == \E i \in 1 .. Len(buffer) - 1 : buffer[i].part = "cr" /\ buffer[i + 1].part = "lf"

FindCRLF ==
  CHOOSE i \in 0 .. Len(buffer) - 2 :
    /\ buffer[i + 1].part = "cr" /\ buffer[i + 2].part = "lf"
    /\ \A j \in 0 .. i - 1 : ~(buffer[j + 1].part = "cr" /\ buffer[j + 2].part = "lf")

Line == IF FindCRLF = 0 THEN EmptyLine ELSE buffer[1].line

(* retrieveUntil(crlf + 2). *)
Retrieve == SubSeq(buffer, FindCRLF + 3, Len(buffer))

(* processRequestLine: a line without a space, or whose first word is no   *)
(* method, succeeds and leaves the request as it is but for the method;    *)
(* otherwise what follows the second space must be a version.  A target    *)
(* with a space or a line with two words leaves no version there.          *)
BadMethod(line) == Len(line.words) < 2 \/ line.words[1] \notin Methods

Succeeds(line) ==
  \/ BadMethod(line)
  \/ Len(line.words) = 3 /\ line.words[3] \in Versions

SetPath(req, line) == [req EXCEPT !.path = line.words[2]]
SetQuery(req, line) == [req EXCEPT !.query = line.query]

WithTarget(req, line) ==
  IF Len(line.words) < 3 THEN req
  ELSE IF line.query = "" THEN SetPath(req, line)
  ELSE SetQuery(SetPath(req, line), line)

Parsed(req, line) ==
  IF BadMethod(line)
  THEN [req EXCEPT !.method = IF Len(line.words) < 2 THEN @ ELSE "kInvaild"]
  ELSE [WithTarget(req, line) EXCEPT
          !.method = line.words[1],
          !.version = IF Succeeds(line) THEN line.words[3] ELSE @]

(* parseRequest, one turn of its loop after the other: the request line,   *)
(* which stays in the buffer when it is bad ...                            *)
StopsAfterLine == "parsed"
AfterLine == IF ok' THEN "parse" ELSE "parsed"

ParseRequestLine ==
  /\ pc = "parse" /\ state = "kExpectRequestLine" /\ HasCRLF
  /\ request' = Parsed(request, Line)
  /\ ok' = Succeeds(Line)
  /\ buffer' = IF ok' THEN Retrieve ELSE buffer
  /\ state' = IF ok' THEN "kExpectRequestHead" ELSE state
  /\ pc' = AfterLine
  /\ UNCHANGED <<clientVars, st, handled, out>>

(* ... a header, the last of its field counting ...                        *)
AddHeader(headers, field, value) ==
  [f \in DOMAIN headers \cup {field} |-> IF f = field THEN value ELSE headers[f]]

ParseHeader ==
  /\ pc = "parse" /\ state = "kExpectRequestHead" /\ HasCRLF
  /\ IF Line.header = <<>>
     THEN state' = "kGotAll" /\ pc' = "parsed" /\ request' = request
     ELSE /\ request' = [request EXCEPT !.headers =
                           AddHeader(@, Line.header[1], Line.header[2])]
          /\ UNCHANGED <<state, pc>>
  /\ buffer' = Retrieve
  /\ UNCHANGED <<clientVars, ok, st, handled, out>>

(* ... and the end of what has arrived. *)
ParseStops ==
  /\ pc = "parse" /\ ~HasCRLF
  /\ pc' = "parsed"
  /\ UNCHANGED <<clientVars, buffer, state, request, ok, st, handled, out>>

------------------------------------------------------------------------------
(* send and shutdown of the connection, in its own loop. *)
SendAlways(response) == Append(out, response)
Sends(response) == IF st = "kConnected" THEN Append(out, response) ELSE out
ShutDown == IF st = "kConnected" THEN "kDisconnecting" ELSE st

(* A response: its code, 0 until it is set, and closeConnection_. *)
HttpResponse(close) == [code |-> "0", close |-> close]
SetStatusCode(resp, code) == [resp EXCEPT !.code = code]
SetCloseConnection(resp) == [resp EXCEPT !.close = TRUE]

(* appendTobuffer gives the length of the body unless the connection is to *)
(* be closed; the answer to a bad request has none either.                 *)
Bytes400 == [code |-> "400", length |-> FALSE]
AppendTobuffer(resp) == [code |-> resp.code, length |-> ~resp.close]

(* The callbacks: the server's default, and the one of httpServer_test.cpp, *)
(* which leaves the code unset for any path but "/".                        *)
DefaultHttpCallback(resp) == SetCloseConnection(SetStatusCode(resp, "404"))
TestCallback(req, resp) == IF req.path = "/" THEN SetStatusCode(resp, "200") ELSE resp

HttpCallback(req, resp) == {DefaultHttpCallback(resp), TestCallback(req, resp)}

GetHeader(req, field) == IF field \in DOMAIN req.headers THEN req.headers[field] ELSE ""

Closes(req) ==
  \/ GetHeader(req, "Connection") = "close"
  \/ req.version = "HTTP/1.0" /\ GetHeader(req, "Connection") # "Keep-Alive"

(* reset of the context swaps its request with a new one. *)
SwapWith(that) == request' = that

ResetPlaceOnly == state' = "kExpectRequestLine" /\ request' = request
Reset == state' = "kExpectRequestLine" /\ SwapWith(Dummy)

(* The rest of onMessage: a bad request is told so and shut out; a whole   *)
(* one is handled, one for each message.                                   *)
RefuseBadRequest ==
  /\ pc = "parsed" /\ ~ok
  /\ pc' = "poll"
  /\ out' = Sends(Bytes400)
  /\ st' = ShutDown
  /\ UNCHANGED <<clientVars, buffer, state, request, ok, handled>>

OnRequest ==
  /\ pc = "parsed" /\ ok /\ state = "kGotAll"
  /\ pc' = "poll"
  /\ handled' = Append(handled, request)
  /\ \E response \in HttpCallback(request, HttpResponse(Closes(request))) :
       /\ out' = Sends(AppendTobuffer(response))
       /\ st' = IF response.close THEN ShutDown ELSE st
  /\ Reset
  /\ UNCHANGED <<clientVars, buffer, ok>>

NothingYet ==
  /\ pc = "parsed" /\ ok /\ state # "kGotAll"
  /\ pc' = "poll"
  /\ UNCHANGED <<clientVars, buffer, state, request, ok, st, handled, out>>

ServerStep ==
  \/ ParseRequestLine \/ ParseHeader \/ ParseStops
  \/ RefuseBadRequest \/ OnRequest \/ NothingYet

Next ==
  \/ \E r \in Requests : Send(r)
  \/ \E n \in 1 .. Len(flight) : OnMessage(n)
  \/ ServerStep

Spec == Init /\ [][Next]_vars

(* What was sent arrives, and the server's loop goes on; the client owes   *)
(* nothing.                                                                *)
FairSpec ==
  /\ Spec
  /\ WF_vars(ServerStep)
  /\ WF_vars(\E n \in 1 .. Len(flight) : OnMessage(n))

------------------------------------------------------------------------------
States == {"kExpectRequestLine", "kExpectRequestHead", "kGotAll"}

TypeOK ==
  /\ sent \in Seq(Requests) /\ Len(sent) <= MaxRequests
  /\ hurried \in BOOLEAN
  /\ state \in States
  /\ DOMAIN request = DOMAIN Dummy
  /\ pc \in {"poll", "parse", "parsed"}
  /\ pc = "poll" => state # "kGotAll"
  /\ ok \in BOOLEAN
  /\ st \in {"kConnected", "kDisconnecting"}
  /\ Len(out) <= Len(sent) /\ Len(handled) <= Len(sent)

(* What a request says, whatever the messages it arrives in: the last of   *)
(* several headers of one field counts.                                    *)
Fields(r) == {r[i].header[1] : i \in 2 .. Len(r) - 1}

LastOf(r, field) ==
  CHOOSE i \in 2 .. Len(r) - 1 :
    /\ r[i].header[1] = field
    /\ \A j \in i + 1 .. Len(r) - 1 : r[j].header[1] # field

LastHeaders(r) == [f \in Fields(r) |-> r[LastOf(r, f)].header[2]]

Meaning(r) ==
  [method |-> r[1].words[1], version |-> r[1].words[3], path |-> r[1].words[2],
   query |-> r[1].query, headers |-> LastHeaders(r)]

(* The requests handled are those sent, in order, each with its own method, *)
(* version, target and headers and nothing of another's, however the stream *)
(* is cut; none after one with a line found bad.  A line without a space or *)
(* with an unknown method is not found bad, although the comment in         *)
(* onMessage has an error returned for what does not parse: that request is *)
(* handled too, with the method, version and target of a new HttpRequest    *)
(* and no other's, and with its own headers.                                *)
HandledAsSent ==
  \A i \in 1 .. Len(handled) :
    /\ \A j \in 1 .. i : Succeeds(sent[j][1])
    /\ ~BadMethod(sent[i][1]) => handled[i] = Meaning(sent[i])
    /\ BadMethod(sent[i][1]) =>
         handled[i] = [Dummy EXCEPT !.headers = LastHeaders(sent[i])]

(* A response without the length of its body, which the client can delimit *)
(* only by the end of the stream, is the last on its connection, which is  *)
(* then shut down: nothing is sent after it, though requests go on being   *)
(* parsed and handled, and a bad line is found again with every message.   *)
ResponsesDelimited ==
  \A i \in 1 .. Len(out) :
    ~out[i].length => i = Len(out) /\ st = "kDisconnecting"

(* A client that waits for each response before its next request gets one  *)
(* for every request, or the connection is shut down.  (One that does not  *)
(* may wait for ever: a message is good for one request, and a second one  *)
(* that came with it stays in the buffer until more arrives.)              *)
Answered ==
  \A n \in 1 .. MaxRequests :
    (Len(sent) = n /\ ~hurried)
      ~> (Len(out) >= n \/ hurried \/ st = "kDisconnecting")
==============================================================================
