--------------------------- MODULE HttpServerProofs ---------------------------
(***************************************************************************)
(* The framing of the responses of HttpServer and what its parser makes of *)
(* the requests, for any requests and any cutting of the stream.           *)
(***************************************************************************)
EXTENDS HttpServer, SequenceTheorems, TLAPS

(* The responses that can be sent, and the codes they carry.               *)
Codes == {"0", "200", "400", "404"}
SentResponse == [code : Codes, length : BOOLEAN]

(* The connection's state and the responses have their types, and a        *)
(* response without a length is the last.                                  *)
Inv ==
  /\ st \in {"kConnected", "kDisconnecting"}
  /\ out \in Seq(SentResponse)
  /\ ResponsesDelimited

(* A response is sent only while the connection is open, when everything   *)
(* sent before could be delimited; one without a length shuts it down.     *)
LEMMA SendsStep ==
  ASSUME Inv, NEW response \in SentResponse,
         out' = Sends(response),
         st' \in {st, ShutDown},
         ~response.length => st' = ShutDown
  PROVE  Inv'
<1> USE DEF Inv, ResponsesDelimited, ShutDown
<1>1. CASE st = "kConnected"
  <2>1. out' = Append(out, response)
    BY <1>1 DEF Sends
  <2>2. \A i \in 1 .. Len(out) : out[i].length
    BY <1>1
  <2>3. \A i \in 1 .. Len(out') : ~out'[i].length => i = Len(out') /\ ~response.length
    BY <2>1, <2>2
  <2> QED
    BY <1>1, <2>1, <2>3
<1>2. CASE st = "kDisconnecting"
  BY <1>2 DEF Sends
<1> QED
  BY <1>1, <1>2

(* What the callbacks make of a response. *)
LEMMA CallbackResponse ==
  ASSUME NEW req, NEW close \in BOOLEAN,
         NEW response \in HttpCallback(req, HttpResponse(close))
  PROVE  response \in [code : Codes, close : BOOLEAN]
<1> DEFINE new == HttpResponse(close)
<1>1. /\ new \in [code : Codes, close : BOOLEAN]
      /\ \A code \in Codes : SetStatusCode(new, code) \in [code : Codes, close : BOOLEAN]
  BY DEF HttpResponse, SetStatusCode, Codes
<1>2. DefaultHttpCallback(new) \in [code : Codes, close : BOOLEAN]
  BY <1>1 DEF DefaultHttpCallback, Codes, SetCloseConnection
<1>3. TestCallback(req, new) \in [code : Codes, close : BOOLEAN]
  BY <1>1 DEF TestCallback, Codes
<1> QED
  BY <1>2, <1>3 DEF HttpCallback

(* A new connection, and each step of it.                                  *)
LEMMA InvInit == Init => Inv
BY DEF Init, Inv, ResponsesDelimited

(* No response follows one the client can delimit only by the end.         *)
LEMMA InvStep == Inv /\ [Next]_vars => Inv'
<1> SUFFICES ASSUME Inv, [Next]_vars PROVE Inv'
  OBVIOUS
<1>1. CASE UNCHANGED <<st, out>>
  BY <1>1 DEF Inv, ResponsesDelimited
<1>2. CASE RefuseBadRequest
  <2>1. Bytes400 \in SentResponse
    BY DEF Bytes400, SentResponse, Codes
  <2> QED
    BY <1>2, <2>1, SendsStep DEF RefuseBadRequest
<1>3. CASE OnRequest
  <2>1. Closes(request) \in BOOLEAN
    BY DEF Closes
  <2>2. PICK response \in HttpCallback(request, HttpResponse(Closes(request))) :
          /\ out' = Sends(AppendTobuffer(response))
          /\ st' = IF response.close THEN ShutDown ELSE st
    BY <1>3 DEF OnRequest
  <2>3. response \in [code : Codes, close : BOOLEAN]
    BY <2>1, <2>2, CallbackResponse
  <2>4. /\ AppendTobuffer(response) \in SentResponse
        /\ ~AppendTobuffer(response).length => response.close
    BY <2>3 DEF AppendTobuffer, SentResponse
  <2> QED
    BY <2>2, <2>3, <2>4, SendsStep
<1> QED
  <2>1. CASE Next
    BY <1>1, <1>2, <1>3, <2>1
       DEF Next, Send, OnMessage, ServerStep, ParseRequestLine, ParseHeader,
           ParseStops, NothingYet
  <2>2. CASE UNCHANGED vars
    BY <1>1, <2>2 DEF vars
  <2> QED
    BY <2>1, <2>2

(* A response that only the end of the stream delimits is the last one, on *)
(* a connection that is shut down.                                         *)
THEOREM DelimitedOrLast == Spec => []ResponsesDelimited
<1>1. Inv => ResponsesDelimited
  BY DEF Inv
<1> QED
  BY <1>1, InvInit, InvStep, PTL DEF Spec

------------------------------------------------------------------------------
(* What has not been parsed, wherever it is cut.                           *)
TokenType == [part : {"text", "cr", "lf"}, line : Lines]
Rest == buffer \o flight

(* The tokens of a request before its k-th line.                           *)
Start(r, k) ==
  IF k = 1 THEN 0
  ELSE IF k <= Len(r) THEN Len(Tokens(r[1])) + 3 * (k - 2)
  ELSE Len(Bytes(r))

(* The requests from the h-th on are in the stream one after the other, of *)
(* the first of them only what comes after so many tokens.                 *)
Offsets(off, requests, rest, h, gone) ==
  LET n == Len(requests)
  IN  /\ off \in [h .. n + 1 -> Nat]
      /\ off[h] = 0 /\ off[n + 1] = gone + Len(rest)
      /\ \A i, j \in h .. n + 1 : i <= j => off[i] <= off[j]
      /\ \A i \in h .. n :
           /\ off[i + 1] = off[i] + Len(Bytes(requests[i]))
           /\ \A m \in 1 .. Len(Bytes(requests[i])) :
                gone < off[i] + m =>
                  rest[off[i] + m - gone] = Bytes(requests[i])[m]

(* The headers up to one line: of each field, the last.                    *)
HeadersAre(headers, r, last) ==
  LET fields == {r[i].header[1] : i \in 2 .. last}
  IN  /\ headers = [f \in fields |-> headers[f]]
      /\ \A f \in fields :
           \E i \in 2 .. last :
             /\ r[i].header[1] = f /\ headers[f] = r[i].header[2]
             /\ \A j \in i + 1 .. last : r[j].header[1] # f

(* What the callback is given of a request whose request line is not bad:  *)
(* all it says, but the request line when its method is unknown.           *)
HandledAs(r) ==
  IF BadMethod(r[1]) THEN [Dummy EXCEPT !.headers = LastHeaders(r)] ELSE Meaning(r)

(* The parser's place before the k-th line of a request, and what it made  *)
(* of the lines up to there; a bad request line is not passed.             *)
PlaceIs(r, k, place, req) ==
  /\ k \in 1 .. Len(r) + 1
  /\ place = IF k = 1 THEN "kExpectRequestLine"
             ELSE IF k <= Len(r) THEN "kExpectRequestHead" ELSE "kGotAll"
  /\ IF k = 1 THEN Succeeds(r[1]) => req = Dummy
     ELSE /\ Succeeds(r[1])
          /\ req = [HandledAs(r) EXCEPT !.headers = req.headers]
          /\ HeadersAre(req.headers, r, IF k <= Len(r) THEN k - 1 ELSE Len(r) - 1)

(* The parser is in the first request that was not handled, or at the end  *)
(* of the stream.                                                          *)
InStream(requests, h, rest, place, req) ==
  \E k, gone, off :
    /\ IF h <= Len(requests)
       THEN PlaceIs(requests[h], k, place, req) /\ gone = Start(requests[h], k)
       ELSE gone = 0 /\ place = "kExpectRequestLine" /\ req = Dummy
    /\ Offsets(off, requests, rest, h, gone)

ParserOK == InStream(sent, Len(handled) + 1, Rest, state, request)

ParserInv ==
  /\ sent \in Seq(Requests)
  /\ buffer \in Seq(TokenType) /\ flight \in Seq(TokenType)
  /\ handled \in Seq({HandledAs(q) : q \in Requests})
  /\ Len(handled) <= Len(sent)
  /\ HandledAsSent
  /\ ParserOK

------------------------------------------------------------------------------
(* Two sequences, one after the other.                                     *)
LEMMA ConcatIs ==
  ASSUME NEW S, NEW s \in Seq(S), NEW t \in Seq(S)
  PROVE  /\ s \o t \in Seq(S)
         /\ Len(s) \in Nat /\ Len(t) \in Nat
         /\ Len(s \o t) = Len(s) + Len(t)
         /\ \A i \in 1 .. Len(s) : (s \o t)[i] = s[i]
         /\ \A i \in 1 .. Len(t) : (s \o t)[Len(s) + i] = t[i]
<1>1. Len(s) \in Nat /\ Len(t) \in Nat
  OBVIOUS
<1>2. \A i \in 1 .. Len(s) : i \in 1 .. Len(s) + Len(t) /\ i <= Len(s)
  BY <1>1
<1>3. \A i \in 1 .. Len(t) :
        /\ Len(s) + i \in 1 .. Len(s) + Len(t)
        /\ ~(Len(s) + i <= Len(s)) /\ (Len(s) + i) - Len(s) = i
  BY <1>1
<1>4. /\ s \o t \in Seq(S) /\ Len(s \o t) = Len(s) + Len(t)
      /\ \A i \in 1 .. Len(s) + Len(t) :
           (s \o t)[i] = IF i <= Len(s) THEN s[i] ELSE t[i - Len(s)]
  BY ConcatProperties
<1>5. \A i \in 1 .. Len(s) : (s \o t)[i] = s[i]
  BY <1>2, <1>4
<1>6. ASSUME NEW i \in 1 .. Len(t) PROVE (s \o t)[Len(s) + i] = t[i]
  BY <1>3, <1>4
<1> QED
  BY <1>1, <1>4, <1>5, <1>6

(* The empty line ends every request.                                      *)
LEMMA EmptyIs ==
  ASSUME NEW r \in Requests
  PROVE  EmptyLine \in Lines /\ EmptyLine.header = <<>>
<1>1. r \in Seq(Lines) /\ Len(r) >= 2 /\ r[Len(r)] = EmptyLine
  BY RequestsAssumption, FramedAssumption
<1>2. EmptyLine \in Lines
  BY <1>1
<1> QED
  BY <1>2 DEF EmptyLine

(* The tokens of a line.                                                   *)
LEMMA TokensAre ==
  ASSUME NEW L \in Lines
  PROVE  /\ Tokens(L) \in Seq(TokenType)
         /\ L = EmptyLine => /\ Len(Tokens(L)) = 2
                             /\ Tokens(L)[1].part = "cr" /\ Tokens(L)[2].part = "lf"
         /\ L # EmptyLine => /\ Len(Tokens(L)) = 3
                             /\ Tokens(L)[1].part = "text" /\ Tokens(L)[1].line = L
                             /\ Tokens(L)[2].part = "cr" /\ Tokens(L)[3].part = "lf"
<1> DEFINE cr == Token("cr", EmptyLine)
           lf == Token("lf", EmptyLine)
           text == Token("text", L)
<1>1. EmptyLine \in Lines
  <2>1. PICK r \in Requests : TRUE
    BY DEF Lines
  <2> QED
    BY <2>1, EmptyIs
<1>2. /\ cr \in TokenType /\ lf \in TokenType /\ text \in TokenType
      /\ cr.part = "cr" /\ lf.part = "lf" /\ text.part = "text" /\ text.line = L
  BY <1>1 DEF Token, TokenType
<1>3. Tokens(L) = (IF L = EmptyLine THEN <<>> ELSE <<text>>) \o <<cr, lf>>
  BY DEF Tokens, Text
<1> HIDE DEF cr, lf, text
<1>4. CASE L = EmptyLine
  <2>1. Tokens(L) = <<cr, lf>>
    BY <1>2, <1>3, <1>4
  <2> QED
    BY <1>2, <1>4, <2>1
<1>5. CASE L # EmptyLine
  <2> DEFINE s == <<text>>
             t == <<cr, lf>>
  <2>1. /\ s \in Seq(TokenType) /\ Len(s) = 1 /\ s[1] = text
        /\ t \in Seq(TokenType) /\ Len(t) = 2 /\ t[1] = cr /\ t[2] = lf
    BY <1>2
  <2>2. Tokens(L) = s \o t
    BY <1>3, <1>5
  <2> HIDE DEF s, t
  <2>3. /\ s \o t \in Seq(TokenType) /\ Len(s \o t) = 3
        /\ (s \o t)[1] = s[1] /\ (s \o t)[2] = t[1] /\ (s \o t)[3] = t[2]
    <3>1. 1 \in 1 .. Len(s) /\ 1 \in 1 .. Len(t) /\ 2 \in 1 .. Len(t)
      BY <2>1
    <3>2. /\ s \o t \in Seq(TokenType)
          /\ Len(s \o t) = Len(s) + Len(t)
          /\ \A i \in 1 .. Len(s) : (s \o t)[i] = s[i]
          /\ \A i \in 1 .. Len(t) : (s \o t)[Len(s) + i] = t[i]
      <4>1. s \in Seq(TokenType) /\ t \in Seq(TokenType)
        BY <2>1
      <4> QED
        BY <4>1, ConcatIs
    <3> QED
      BY <2>1, <3>1, <3>2
  <2> QED
    BY <1>2, <1>5, <2>1, <2>2, <2>3
<1> QED
  BY <1>4, <1>5

(* The lines of a request.                                                 *)
LEMMA RequestIs ==
  ASSUME NEW r \in Requests
  PROVE  /\ r \in Seq(Lines) /\ Len(r) \in Nat /\ Len(r) >= 2
         /\ \A i \in 1 .. Len(r) : r[i] \in Lines
         /\ r[Len(r)] = EmptyLine /\ EmptyLine.header = <<>>
         /\ \A i \in 2 .. Len(r) - 1 : r[i].header # <<>> /\ r[i] # EmptyLine
<1>1. r \in Seq(Lines) /\ Len(r) \in Nat
  BY RequestsAssumption
<1>2. \A i \in 2 .. Len(r) - 1 : Len(r[i].header) = 2
  BY FramedAssumption
<1>3. EmptyLine.header = <<>> /\ Len(<<>>) = 0
  BY EmptyIs
<1>4. Len(r) >= 2 /\ r[Len(r)] = EmptyLine
  BY FramedAssumption
<1>5. \A i \in 1 .. Len(r) : r[i] \in Lines
  BY <1>1
<1>6. ASSUME NEW i \in 2 .. Len(r) - 1
      PROVE  r[i].header # <<>> /\ r[i] # EmptyLine
  <2>1. Len(r[i].header) = 2
    BY <1>2
  <2>2. r[i].header # <<>>
    <3> DEFINE header == r[i].header
    <3>1. Len(header) = 2
      BY <2>1
    <3> HIDE DEF header
    <3>2. header # <<>>
      BY <3>1
    <3> QED
      BY <3>2 DEF header
  <2> QED
    BY <1>3, <2>2, Zenon
<1> QED
  BY <1>1, <1>3, <1>4, <1>5, <1>6

(* The tokens of a request are those of its lines.                         *)
LEMMA BytesAre ==
  ASSUME NEW r \in Requests
  PROVE  /\ Bytes(r) \in Seq(TokenType)
         /\ Start(r, 1) = 0 /\ Start(r, Len(r) + 1) = Len(Bytes(r))
         /\ \A k \in 1 .. Len(r) :
              /\ Start(r, k) \in Nat
              /\ Start(r, k + 1) = Start(r, k) + Len(Tokens(r[k]))
              /\ Start(r, k + 1) <= Len(Bytes(r))
              /\ \A m \in 1 .. Len(Tokens(r[k])) :
                   Bytes(r)[Start(r, k) + m] = Tokens(r[k])[m]
<1> DEFINE n == Len(r)
           a == Tokens(r[1])
           b == HeaderTokens(r)
           z == Tokens(EmptyLine)
<1>1. /\ n \in Nat /\ n >= 2 /\ \A i \in 1 .. n : r[i] \in Lines
      /\ r[n] = EmptyLine /\ EmptyLine \in Lines
      /\ \A i \in 2 .. n - 1 : r[i] # EmptyLine
  BY RequestIs, EmptyIs
<1>2. a \in Seq(TokenType) /\ z \in Seq(TokenType) /\ Len(z) = 2 /\ Len(a) \in {2, 3}
  <2>1. r[1] \in Lines
    BY <1>1
  <2> QED
    BY <1>1, <2>1, TokensAre
<1>3. b \in Seq(TokenType) /\ Len(b) = 3 * (n - 2)
  <2>1. \A k \in 1 .. 3 * (n - 2) :
          /\ ((k - 1) \div 3) + 2 \in 2 .. n - 1 /\ ((k - 1) % 3) + 1 \in 1 .. 3
    BY <1>1
  <2>2. \A k \in 1 .. 3 * (n - 2) :
          Tokens(r[((k - 1) \div 3) + 2])[((k - 1) % 3) + 1] \in TokenType
    <3> SUFFICES ASSUME NEW i \in 2 .. n - 1, NEW m \in 1 .. 3
                 PROVE  Tokens(r[i])[m] \in TokenType
      BY <2>1
    <3>1. r[i] \in Lines /\ r[i] # EmptyLine
      BY <1>1
    <3>2. Tokens(r[i]) \in Seq(TokenType) /\ Len(Tokens(r[i])) = 3
      BY <3>1, TokensAre
    <3> QED
      BY <3>2
  <2>3. 3 * (n - 2) \in Nat
    BY <1>1
  <2> QED
    BY <2>2, <2>3 DEF HeaderTokens
<1>4. \A i \in 2 .. n - 1, m \in 1 .. 3 :
        3 * (i - 2) + m \in 1 .. Len(b) /\ b[3 * (i - 2) + m] = Tokens(r[i])[m]
  <2> SUFFICES ASSUME NEW i \in 2 .. n - 1, NEW m \in 1 .. 3
               PROVE  3 * (i - 2) + m \in 1 .. Len(b) /\ b[3 * (i - 2) + m] = Tokens(r[i])[m]
    OBVIOUS
  <2> DEFINE k == 3 * (i - 2) + m
  <2>1. /\ k \in 1 .. 3 * (n - 2) /\ ((k - 1) \div 3) + 2 = i /\ ((k - 1) % 3) + 1 = m
    BY <1>1
  <2> HIDE DEF k
  <2>2. b[k] = Tokens(r[((k - 1) \div 3) + 2])[((k - 1) % 3) + 1]
    BY <2>1 DEF HeaderTokens
  <2> QED
    BY <1>3, <2>1, <2>2 DEF k
<1>5. Bytes(r) = (a \o b) \o z
  BY DEF Bytes
<1> HIDE DEF a, b, z
<1>6. /\ Bytes(r) \in Seq(TokenType)
      /\ Len(Bytes(r)) = Len(a) + 3 * (n - 2) + 2
      /\ \A i \in 1 .. Len(a) : Bytes(r)[i] = a[i]
      /\ \A i \in 1 .. Len(b) : Bytes(r)[Len(a) + i] = b[i]
      /\ \A i \in 1 .. 2 : Bytes(r)[Len(a) + 3 * (n - 2) + i] = z[i]
  <2>1. /\ a \o b \in Seq(TokenType) /\ Len(a \o b) = Len(a) + Len(b)
        /\ \A i \in 1 .. Len(a) : (a \o b)[i] = a[i]
        /\ \A i \in 1 .. Len(b) : (a \o b)[Len(a) + i] = b[i]
    <3>1. a \in Seq(TokenType) /\ b \in Seq(TokenType)
      BY <1>2, <1>3
    <3> QED
      BY ONLY <3>1, ConcatIs
  <2> DEFINE ab == a \o b
  <2>2. ab \in Seq(TokenType)
    BY <2>1
  <2> HIDE DEF ab
  <2>3. /\ ab \o z \in Seq(TokenType) /\ Len(ab \o z) = Len(ab) + Len(z)
        /\ \A i \in 1 .. Len(ab) : (ab \o z)[i] = ab[i]
        /\ \A i \in 1 .. Len(z) : (ab \o z)[Len(ab) + i] = z[i]
    <3>1. ab \in Seq(TokenType) /\ z \in Seq(TokenType)
      BY <1>2, <2>2
    <3> QED
      BY ONLY <3>1, ConcatIs
  <2>4. Len(ab) = Len(a) + 3 * (n - 2) /\ Len(b) \in Nat
    BY <1>3, <2>1 DEF ab
  <2>5. /\ \A i \in 1 .. Len(a) : i \in 1 .. Len(ab)
        /\ \A i \in 1 .. Len(b) : Len(a) + i \in 1 .. Len(ab)
    BY <1>2, <1>3, <2>4
  <2>6. Bytes(r) = ab \o z
    BY <1>5 DEF ab
  <2> QED
    BY <1>2, <2>1, <2>3, <2>4, <2>5, <2>6 DEF ab
<1>7. /\ Start(r, 1) = 0 /\ Start(r, n + 1) = Len(Bytes(r))
      /\ \A k \in 2 .. n : Start(r, k) = Len(a) + 3 * (k - 2)
  BY <1>1 DEF Start, a
<1>8. ASSUME NEW k \in 1 .. n
      PROVE  /\ Start(r, k) \in Nat
             /\ Start(r, k + 1) = Start(r, k) + Len(Tokens(r[k]))
             /\ Start(r, k + 1) <= Len(Bytes(r))
             /\ \A m \in 1 .. Len(Tokens(r[k])) :
                  Bytes(r)[Start(r, k) + m] = Tokens(r[k])[m]
  <2>1. CASE k = 1
    <3>1. Start(r, 2) = Len(a)
      BY <1>1, <1>7, <1>2
    <3> QED
      BY <1>1, <1>2, <1>6, <1>7, <2>1, <3>1 DEF a
  <2>2. CASE k \in 2 .. n - 1
    <3>1. Len(Tokens(r[k])) = 3
      BY <1>1, <2>2, TokensAre
    <3>2. Start(r, k) = Len(a) + 3 * (k - 2) /\ Start(r, k + 1) = Len(a) + 3 * (k - 1)
      BY <1>1, <1>7, <2>2
    <3>3. ASSUME NEW m \in 1 .. 3 PROVE Bytes(r)[Start(r, k) + m] = Tokens(r[k])[m]
      <4>1. 3 * (k - 2) + m \in 1 .. Len(b) /\ b[3 * (k - 2) + m] = Tokens(r[k])[m]
        BY <1>4, <2>2
      <4>2. Start(r, k) + m = Len(a) + (3 * (k - 2) + m)
        BY <1>2, <3>2
      <4> QED
        BY <1>6, <4>1, <4>2
    <3> QED
      BY <1>1, <1>2, <1>6, <2>2, <3>1, <3>2, <3>3
  <2>3. CASE k = n
    <3>1. Tokens(r[k]) = z /\ Start(r, k) = Len(a) + 3 * (n - 2)
      BY <1>1, <1>7, <2>3 DEF z
    <3>2. Start(r, k + 1) = Start(r, k) + 2 /\ Start(r, k) \in Nat
      BY <1>1, <1>2, <1>6, <1>7, <2>3, <3>1
    <3>3. \A m \in 1 .. 2 : Bytes(r)[Start(r, k) + m] = z[m]
      BY <1>6, <3>1
    <3>4. Start(r, k + 1) = Len(Bytes(r))
      BY <1>7, <2>3
    <3>5. Len(Bytes(r)) \in Nat
      BY <1>6
    <3>6. ASSUME NEW m \in 1 .. Len(Tokens(r[k]))
          PROVE  Bytes(r)[Start(r, k) + m] = Tokens(r[k])[m]
      BY <1>2, <3>1, <3>3
    <3>7. Start(r, k + 1) = Start(r, k) + Len(Tokens(r[k]))
      BY <1>2, <3>1, <3>2
    <3> QED
      BY <3>2, <3>4, <3>5, <3>6, <3>7
  <2> QED
    BY <1>1, <2>1, <2>2, <2>3
<1> QED
  BY <1>6, <1>7, <1>8

(* What findCRLF finds, when the next line is this one.                    *)
LEMMA LineAt ==
  ASSUME NEW L \in Lines, buffer \in Seq(TokenType), HasCRLF,
         \A m \in 1 .. Len(buffer) : m <= Len(Tokens(L)) => buffer[m] = Tokens(L)[m]
  PROVE  /\ Len(Tokens(L)) \in 2 .. Len(buffer)
         /\ FindCRLF = Len(Tokens(L)) - 2
         /\ Line = L
<1> DEFINE n == Len(buffer)
           c == Len(Tokens(L)) - 2
           At(i) == buffer[i + 1].part = "cr" /\ buffer[i + 2].part = "lf"
<1>1. PICK i \in 1 .. n - 1 : buffer[i].part = "cr" /\ buffer[i + 1].part = "lf"
  BY DEF HasCRLF
<1>2. n \in Nat /\ n >= 2
  BY <1>1
<1>3. /\ c \in 0 .. n - 2 /\ At(c)
      /\ \A j \in 0 .. c - 1 : ~At(j)
      /\ IF c = 0 THEN L = EmptyLine ELSE buffer[1].line = L
  <2>1. CASE L = EmptyLine
    <3>1. /\ Len(Tokens(L)) = 2 /\ Tokens(L)[1].part = "cr" /\ Tokens(L)[2].part = "lf"
      BY <2>1, TokensAre
    <3>2. buffer[1] = Tokens(L)[1] /\ buffer[2] = Tokens(L)[2]
      BY <1>2, <3>1
    <3> QED
      BY <1>2, <2>1, <3>1, <3>2
  <2>2. CASE L # EmptyLine
    <3>1. /\ Len(Tokens(L)) = 3
          /\ Tokens(L)[1].part = "text" /\ Tokens(L)[1].line = L
          /\ Tokens(L)[2].part = "cr" /\ Tokens(L)[3].part = "lf"
      BY <2>2, TokensAre
    <3>2. buffer[1] = Tokens(L)[1] /\ buffer[2] = Tokens(L)[2]
      BY <1>2, <3>1
    <3>3. buffer[1].part # "cr"
      BY <3>1, <3>2
    <3>4. i # 1
      BY <1>1, <3>3
    <3>5. n >= 3 /\ buffer[3] = Tokens(L)[3]
      BY <1>1, <1>2, <3>1, <3>4
    <3>6. c = 1
      BY <3>1
    <3>7. At(1) /\ ~At(0)
      BY <3>1, <3>2, <3>3, <3>5
    <3> QED
      BY <1>2, <3>1, <3>2, <3>5, <3>6, <3>7
  <2> QED
    BY <2>1, <2>2
<1>4. FindCRLF = c
  <2> DEFINE Found(k) == At(k) /\ \A j \in 0 .. k - 1 : ~At(j)
  <2>1. FindCRLF = CHOOSE k \in 0 .. n - 2 : Found(k)
    BY DEF FindCRLF
  <2>2. c \in 0 .. n - 2 /\ Found(c)
    BY <1>3
  <2>3. \A k \in 0 .. n - 2 : Found(k) => k = c
    <3> SUFFICES ASSUME NEW k \in 0 .. n - 2, Found(k) PROVE k = c
      OBVIOUS
    <3>1. ~(c < k) /\ ~(k < c)
      <4> HIDE DEF At
      <4> QED
        BY <1>2, <2>2
    <3> QED
      BY <1>2, <2>2, <3>1
  <2> HIDE DEF Found, c, n
  <2> QED
    BY <2>1, <2>2, <2>3
<1>5. Len(Tokens(L)) \in 2 .. n
  <2>1. Len(Tokens(L)) \in {2, 3}
    BY TokensAre
  <2> QED
    BY <1>2, <1>3, <2>1
<1> QED
  BY <1>3, <1>4, <1>5 DEF Line

(* The rest of a sequence after its first so many.                         *)
LEMMA DropIs ==
  ASSUME NEW S, NEW s \in Seq(S), NEW c \in 0 .. Len(s)
  PROVE  /\ SubSeq(s, c + 1, Len(s)) \in Seq(S)
         /\ Len(SubSeq(s, c + 1, Len(s))) = Len(s) - c
         /\ \A i \in 1 .. Len(s) - c : SubSeq(s, c + 1, Len(s))[i] = s[c + i]
<1>1. Len(s) \in Nat
  OBVIOUS
<1>2. /\ SubSeq(s, c + 1, Len(s)) \in Seq(S)
      /\ Len(SubSeq(s, c + 1, Len(s))) = IF c + 1 <= Len(s) THEN Len(s) - (c + 1) + 1 ELSE 0
      /\ \A i \in 1 .. Len(s) - (c + 1) + 1 : SubSeq(s, c + 1, Len(s))[i] = s[(c + 1) + i - 1]
  BY <1>1, SubSeqProperties
<1>3. \A i \in 1 .. Len(s) - c : (c + 1) + i - 1 = c + i /\ i \in 1 .. Len(s) - (c + 1) + 1
  BY <1>1
<1> QED
  BY <1>1, <1>2, <1>3

(* A message moves nothing in the stream.                                  *)
LEMMA MessageRest ==
  ASSUME buffer \in Seq(TokenType), flight \in Seq(TokenType),
         NEW n \in 1 .. Len(flight), OnMessage(n)
  PROVE  buffer' \in Seq(TokenType) /\ flight' \in Seq(TokenType) /\ Rest' = Rest
<1> DEFINE a == SubSeq(flight, 1, n)
           b == SubSeq(flight, n + 1, Len(flight))
<1>1. Len(flight) \in Nat
  OBVIOUS
<1>2. a \in Seq(TokenType) /\ b \in Seq(TokenType)
  BY <1>1, SubSeqProperties
<1>3. a \o b = flight
  <2>1. a \o b = SubSeq(flight, 1, Len(flight))
    BY <1>1, ConcatAdjacentSubSeq
  <2> QED
    BY <2>1, SubSeqFull
<1>4. buffer' = buffer \o a /\ flight' = b
  BY DEF OnMessage
<1> HIDE DEF a, b
<1>5. (buffer \o a) \o b = buffer \o (a \o b)
  <2>1. buffer \in Seq(TokenType) /\ a \in Seq(TokenType) /\ b \in Seq(TokenType)
    BY <1>2
  <2> QED
    BY ONLY <2>1, ConcatAssociative, SMTT(60)
<1>6. buffer \o a \in Seq(TokenType)
  BY <1>2, ConcatIs
<1> QED
  BY <1>2, <1>3, <1>4, <1>5, <1>6 DEF Rest

(* Consuming some of the buffer leaves the rest of the stream.             *)
LEMMA RetrieveRest ==
  ASSUME buffer \in Seq(TokenType), flight \in Seq(TokenType),
         NEW c \in 0 .. Len(buffer),
         buffer' = SubSeq(buffer, c + 1, Len(buffer)), flight' = flight
  PROVE  /\ buffer' \in Seq(TokenType) /\ Rest' \in Seq(TokenType)
         /\ Rest \in Seq(TokenType) /\ c <= Len(Rest)
         /\ Len(Rest') = Len(Rest) - c
         /\ \A i \in 1 .. Len(Rest) - c : Rest'[i] = Rest[c + i]
<1> DEFINE d == SubSeq(buffer, c + 1, Len(buffer))
<1>1. /\ d \in Seq(TokenType) /\ Len(d) = Len(buffer) - c
      /\ \A i \in 1 .. Len(buffer) - c : d[i] = buffer[c + i]
  BY DropIs
<1>2. buffer' = d /\ flight' = flight
  OBVIOUS
<1> HIDE DEF d
<1>3. /\ buffer \o flight \in Seq(TokenType)
      /\ Len(buffer) \in Nat /\ Len(flight) \in Nat
      /\ Len(buffer \o flight) = Len(buffer) + Len(flight)
      /\ \A i \in 1 .. Len(buffer) : (buffer \o flight)[i] = buffer[i]
      /\ \A i \in 1 .. Len(flight) : (buffer \o flight)[Len(buffer) + i] = flight[i]
  BY ConcatIs
<1>4. /\ d \o flight \in Seq(TokenType)
      /\ Len(d) \in Nat /\ Len(flight) \in Nat
      /\ Len(d \o flight) = Len(d) + Len(flight)
      /\ \A i \in 1 .. Len(d) : (d \o flight)[i] = d[i]
      /\ \A i \in 1 .. Len(flight) : (d \o flight)[Len(d) + i] = flight[i]
  <2>1. d \in Seq(TokenType) /\ flight \in Seq(TokenType)
    BY <1>1
  <2> QED
    BY ONLY <2>1, ConcatIs
<1>5. Rest = buffer \o flight /\ Rest' = d \o flight
  BY <1>2 DEF Rest
<1>6. ASSUME NEW i \in 1 .. Len(buffer) + Len(flight) - c
      PROVE  (d \o flight)[i] = (buffer \o flight)[c + i]
  <2>1. CASE i <= Len(buffer) - c
    <3>1. i \in 1 .. Len(d) /\ i \in 1 .. Len(buffer) - c /\ c + i \in 1 .. Len(buffer)
      BY <1>1, <1>3, <2>1
    <3> QED
      BY <1>1, <1>3, <1>4, <3>1
  <2>2. CASE i > Len(buffer) - c
    <3> DEFINE k == i - Len(d)
    <3>1. k \in 1 .. Len(flight) /\ i = Len(d) + k /\ c + i = Len(buffer) + k
      BY <1>1, <1>3, <2>2
    <3> HIDE DEF k
    <3> QED
      BY <1>3, <1>4, <3>1
  <2>3. i <= Len(buffer) - c \/ i > Len(buffer) - c
    BY <1>3
  <2> QED
    BY <2>1, <2>2, <2>3
<1>7. /\ Len(d \o flight) = Len(buffer \o flight) - c
      /\ c <= Len(buffer \o flight)
      /\ Len(buffer \o flight) - c = Len(buffer) + Len(flight) - c
  BY <1>1, <1>3, <1>4
<1>8. \A i \in 1 .. Len(buffer \o flight) - c : (d \o flight)[i] = (buffer \o flight)[c + i]
  BY <1>6, <1>7
<1> QED
  BY <1>1, <1>2, <1>3, <1>4, <1>5, <1>7, <1>8, Zenon

(* Places in the stream, counted from its start and from what is left ...  *)
LEMMA PlaceShift ==
  ASSUME NEW x \in Nat, NEW m \in Nat, NEW gone \in Nat, NEW c \in Nat, NEW l \in Nat,
         gone + c < x + m, x + m - gone \in 1 .. l
  PROVE  /\ x + m - (gone + c) \in 1 .. l - c
         /\ c + (x + m - (gone + c)) = x + m - gone
OBVIOUS

(* ... which those that were not consumed lie within.                      *)
LEMMA PlaceWithin ==
  ASSUME NEW x \in Nat, NEW gone \in Nat, NEW l \in Nat, NEW b \in Nat,
         x + b <= gone + l, NEW m \in 1 .. b, gone < x + m
  PROVE  x + m - gone \in 1 .. l
OBVIOUS

(* What Offsets says, with the bounds that follow ...                      *)
OffsetsSay(off, requests, rest, h, gone) ==
  /\ Len(requests) \in Nat /\ Len(rest) \in Nat
  /\ off \in [h .. Len(requests) + 1 -> Nat]
  /\ off[h] = 0 /\ off[Len(requests) + 1] = gone + Len(rest)
  /\ \A i, j \in h .. Len(requests) + 1 : i <= j => off[i] <= off[j]
  /\ \A i \in h .. Len(requests) :
       /\ requests[i] \in Requests
       /\ Len(Bytes(requests[i])) \in Nat
       /\ off[i + 1] = off[i] + Len(Bytes(requests[i]))
       /\ off[i + 1] <= gone + Len(rest)
       /\ \A m \in 1 .. Len(Bytes(requests[i])) :
            gone < off[i] + m =>
              /\ off[i] + m - gone \in 1 .. Len(rest)
              /\ rest[off[i] + m - gone] = Bytes(requests[i])[m]

(* ... each request's tokens lying within the rest.                        *)
LEMMA OffsetsAt ==
  ASSUME NEW requests \in Seq(Requests), NEW rest \in Seq(TokenType),
         NEW off, NEW h \in Nat \ {0}, NEW gone \in Nat,
         h <= Len(requests) + 1, Offsets(off, requests, rest, h, gone)
  PROVE  OffsetsSay(off, requests, rest, h, gone)
<1> DEFINE n == Len(requests)
<1>1. n \in Nat /\ Len(rest) \in Nat
  OBVIOUS
<1>2. /\ off \in [h .. n + 1 -> Nat]
      /\ off[h] = 0 /\ off[n + 1] = gone + Len(rest)
      /\ \A i, j \in h .. n + 1 : i <= j => off[i] <= off[j]
      /\ \A i \in h .. n :
           /\ off[i + 1] = off[i] + Len(Bytes(requests[i]))
           /\ \A m \in 1 .. Len(Bytes(requests[i])) :
                gone < off[i] + m =>
                  rest[off[i] + m - gone] = Bytes(requests[i])[m]
  BY DEF Offsets
<1>3. ASSUME NEW i \in h .. n
      PROVE  /\ requests[i] \in Requests
             /\ Len(Bytes(requests[i])) \in Nat
             /\ off[i + 1] <= gone + Len(rest)
             /\ \A m \in 1 .. Len(Bytes(requests[i])) :
                  gone < off[i] + m => off[i] + m - gone \in 1 .. Len(rest)
  <2>1. requests[i] \in Requests
    BY <1>1
  <2>2. Bytes(requests[i]) \in Seq(TokenType)
    BY <2>1, BytesAre
  <2>3. Len(Bytes(requests[i])) \in Nat
    BY <2>2
  <2>4. i \in h .. n + 1 /\ i + 1 \in h .. n + 1 /\ n + 1 \in h .. n + 1 /\ i + 1 <= n + 1
    BY <1>1
  <2>5. off[i] \in Nat /\ off[i + 1] \in Nat /\ off[i + 1] <= off[n + 1]
    BY <1>2, <2>4
  <2>6. off[i + 1] = off[i] + Len(Bytes(requests[i])) /\ off[n + 1] = gone + Len(rest)
    BY <1>2
  <2>7. off[i + 1] <= gone + Len(rest)
    BY <2>5, <2>6
  <2>8. ASSUME NEW m \in 1 .. Len(Bytes(requests[i])), gone < off[i] + m
        PROVE  off[i] + m - gone \in 1 .. Len(rest)
    <3>1. off[i] \in Nat /\ off[i] + Len(Bytes(requests[i])) <= gone + Len(rest)
      BY <2>5, <2>6
    <3> QED
      BY <1>1, <2>3, <2>8, <3>1, PlaceWithin
  <2> QED
    BY <2>1, <2>3, <2>7, <2>8
<1> QED
  BY <1>1, <1>2, <1>3 DEF OffsetsSay

(* Tokens are consumed ...                                                 *)
LEMMA OffsetsDrop ==
  ASSUME NEW requests \in Seq(Requests), NEW rest \in Seq(TokenType),
         NEW off, NEW h \in Nat \ {0}, NEW gone \in Nat,
         h <= Len(requests) + 1, Offsets(off, requests, rest, h, gone),
         NEW c \in Nat, c <= Len(rest),
         NEW rest2 \in Seq(TokenType), Len(rest2) = Len(rest) - c,
         \A i \in 1 .. Len(rest) - c : rest2[i] = rest[c + i]
  PROVE  Offsets(off, requests, rest2, h, gone + c)
<1> DEFINE n == Len(requests)
<1>1. /\ Len(requests) \in Nat /\ Len(rest) \in Nat
      /\ off \in [h .. Len(requests) + 1 -> Nat]
      /\ off[h] = 0 /\ off[Len(requests) + 1] = gone + Len(rest)
      /\ \A i, j \in h .. Len(requests) + 1 : i <= j => off[i] <= off[j]
      /\ \A i \in h .. Len(requests) :
           /\ requests[i] \in Requests
           /\ Len(Bytes(requests[i])) \in Nat
           /\ off[i + 1] = off[i] + Len(Bytes(requests[i]))
           /\ off[i + 1] <= gone + Len(rest)
           /\ \A m \in 1 .. Len(Bytes(requests[i])) :
                gone < off[i] + m =>
                  /\ off[i] + m - gone \in 1 .. Len(rest)
                  /\ rest[off[i] + m - gone] = Bytes(requests[i])[m]
  <2>1. OffsetsSay(off, requests, rest, h, gone)
    BY OffsetsAt
  <2> QED
    BY <2>1 DEF OffsetsSay
<1>2. off[n + 1] = (gone + c) + Len(rest2)
  BY <1>1
<1>3. ASSUME NEW i \in h .. n, NEW m \in 1 .. Len(Bytes(requests[i])),
             gone + c < off[i] + m
      PROVE  rest2[off[i] + m - (gone + c)] = Bytes(requests[i])[m]
  <2>1. i \in h .. Len(requests) + 1
    BY <1>1
  <2>2. off[i] \in Nat /\ Len(Bytes(requests[i])) \in Nat /\ m \in Nat
    <3>1. off[i] \in Nat
      BY <1>1, <2>1
    <3>2. Len(Bytes(requests[i])) \in Nat
      BY <1>1
    <3> QED
      BY <3>1, <3>2
  <2>3. gone < off[i] + m
    BY <1>3, <2>2
  <2>4. Len(rest) \in Nat
    BY <1>1
  <2>5. /\ off[i] + m - gone \in 1 .. Len(rest)
        /\ rest[off[i] + m - gone] = Bytes(requests[i])[m]
    BY <1>1, <2>3
  <2> DEFINE k == off[i] + m - (gone + c)
  <2>6. k \in 1 .. Len(rest) - c /\ c + k = off[i] + m - gone
    <3>1. /\ off[i] \in Nat /\ m \in Nat /\ gone \in Nat /\ c \in Nat /\ Len(rest) \in Nat
          /\ gone + c < off[i] + m /\ off[i] + m - gone \in 1 .. Len(rest)
      BY <1>3, <2>2, <2>4, <2>5
    <3>2. /\ off[i] + m - (gone + c) \in 1 .. Len(rest) - c
          /\ c + (off[i] + m - (gone + c)) = off[i] + m - gone
      BY ONLY <3>1, PlaceShift, SMTT(60)
    <3> QED
      BY <3>2
  <2> HIDE DEF k
  <2>7. rest2[k] = Bytes(requests[i])[m]
    BY <2>5, <2>6
  <2> QED
    BY <2>7 DEF k
<1> QED
  BY <1>1, <1>2, <1>3 DEF Offsets

(* ... a request is handled ...                                            *)
LEMMA OffsetsNext ==
  ASSUME NEW requests \in Seq(Requests), NEW rest \in Seq(TokenType),
         NEW off, NEW h \in Nat \ {0}, NEW gone \in Nat,
         h <= Len(requests), Offsets(off, requests, rest, h, gone),
         gone = Len(Bytes(requests[h]))
  PROVE  \E off2 : Offsets(off2, requests, rest, h + 1, 0)
<1> DEFINE n == Len(requests)
           off2 == [i \in h + 1 .. n + 1 |-> off[i] - gone]
<1>1. OffsetsSay(off, requests, rest, h, gone)
  BY OffsetsAt
<1>2. n \in Nat /\ Len(rest) \in Nat
  BY <1>1 DEF OffsetsSay
<1>3. \A i \in h .. n + 1 : off[i] \in Nat
  BY <1>1 DEF OffsetsSay
<1>4. off[h] = 0 /\ off[n + 1] = gone + Len(rest)
  BY <1>1 DEF OffsetsSay
<1>5. \A i, j \in h .. n + 1 : i <= j => off[i] <= off[j]
  BY <1>1 DEF OffsetsSay
<1>6. \A i \in h .. n :
        /\ Len(Bytes(requests[i])) \in Nat
        /\ off[i + 1] = off[i] + Len(Bytes(requests[i]))
        /\ \A m \in 1 .. Len(Bytes(requests[i])) :
             gone < off[i] + m =>
               rest[off[i] + m - gone] = Bytes(requests[i])[m]
  BY <1>1 DEF OffsetsSay
<1>7. off[h + 1] = gone
  <2>1. h \in h .. n /\ h \in h .. n + 1
    BY <1>2
  <2> QED
    BY <1>4, <1>6, <2>1
<1>8. \A i \in h + 1 .. n + 1 : off[i] \in Nat /\ gone <= off[i]
  <2>1. h + 1 \in h .. n + 1 /\ \A i \in h + 1 .. n + 1 : i \in h .. n + 1 /\ h + 1 <= i
    BY <1>2
  <2> QED
    BY <1>3, <1>5, <1>7, <2>1
<1>9. /\ off2 \in [h + 1 .. n + 1 -> Nat]
      /\ \A i \in h + 1 .. n + 1 : off2[i] = off[i] - gone
  BY <1>8
<1> HIDE DEF off2
<1>10. off2[h + 1] = 0 /\ off2[n + 1] = 0 + Len(rest)
  <2>1. h + 1 \in h + 1 .. n + 1 /\ n + 1 \in h + 1 .. n + 1
    BY <1>2
  <2> QED
    BY <1>2, <1>4, <1>7, <1>9, <2>1
<1>11. ASSUME NEW i \in h + 1 .. n + 1, NEW j \in h + 1 .. n + 1, i <= j
       PROVE  off2[i] <= off2[j]
  <2>1. i \in h .. n + 1 /\ j \in h .. n + 1
    BY <1>2
  <2>2. off[i] <= off[j]
    BY <1>5, <1>11, <2>1
  <2> QED
    BY <1>8, <1>9, <2>2
<1>12. ASSUME NEW i \in h + 1 .. n
       PROVE  /\ off2[i + 1] = off2[i] + Len(Bytes(requests[i]))
              /\ \A m \in 1 .. Len(Bytes(requests[i])) :
                   0 < off2[i] + m =>
                     rest[off2[i] + m - 0] = Bytes(requests[i])[m]
  <2>1. i \in h .. n /\ i \in h + 1 .. n + 1 /\ i + 1 \in h + 1 .. n + 1
    BY <1>2
  <2>2. /\ off2[i] = off[i] - gone /\ off2[i + 1] = off[i + 1] - gone
        /\ off[i] \in Nat /\ gone <= off[i] /\ off[i + 1] \in Nat
    BY <1>8, <1>9, <2>1
  <2>3. Len(Bytes(requests[i])) \in Nat /\ off[i + 1] = off[i] + Len(Bytes(requests[i]))
    BY <1>6, <2>1
  <2>4. off2[i + 1] = off2[i] + Len(Bytes(requests[i]))
    BY <2>2, <2>3
  <2>5. ASSUME NEW m \in 1 .. Len(Bytes(requests[i]))
        PROVE  rest[off2[i] + m - 0] = Bytes(requests[i])[m]
    <3>1. m \in Nat /\ m >= 1
      BY <2>3
    <3>2. gone < off[i] + m /\ off2[i] + m - 0 = off[i] + m - gone
      <4> DEFINE x == off[i]
                 y == off2[i]
      <4>1. y = x - gone /\ x \in Nat /\ gone <= x
        BY <2>2
      <4> HIDE DEF x, y
      <4>2. gone < x + m /\ y + m - 0 = x + m - gone
        BY <3>1, <4>1
      <4> QED
        BY <4>2 DEF x, y
    <3>3. rest[off[i] + m - gone] = Bytes(requests[i])[m]
      BY <1>6, <2>1, <3>2
    <3> QED
      BY <3>2, <3>3
  <2> QED
    BY <2>4, <2>5
<1>13. Offsets(off2, requests, rest, h + 1, 0)
  BY <1>9, <1>10, <1>11, <1>12 DEF Offsets
<1> QED
  BY <1>13

(* ... and another is sent.                                                *)
LEMMA OffsetsSend ==
  ASSUME NEW requests \in Seq(Requests), NEW rest \in Seq(TokenType),
         NEW off, NEW h \in Nat \ {0}, NEW gone \in Nat,
         h <= Len(requests) + 1, Offsets(off, requests, rest, h, gone),
         NEW r \in Requests
  PROVE  \E off2 : Offsets(off2, Append(requests, r), rest \o Bytes(r), h, gone)
<1> DEFINE n == Len(requests)
           more == Append(requests, r)
           all == rest \o Bytes(r)
           b == Len(Bytes(r))
           off2 == [i \in h .. n + 2 |-> IF i <= n + 1 THEN off[i] ELSE off[n + 1] + b]
<1>1. OffsetsSay(off, requests, rest, h, gone)
  BY OffsetsAt
<1>2. n \in Nat /\ Len(rest) \in Nat
  BY <1>1 DEF OffsetsSay
<1>3. \A i \in h .. n + 1 : off[i] \in Nat
  BY <1>1 DEF OffsetsSay
<1>4. off[h] = 0 /\ off[n + 1] = gone + Len(rest)
  BY <1>1 DEF OffsetsSay
<1>5. \A i, j \in h .. n + 1 : i <= j => off[i] <= off[j]
  BY <1>1 DEF OffsetsSay
<1>6. \A i \in h .. n :
        /\ Len(Bytes(requests[i])) \in Nat
        /\ off[i + 1] = off[i] + Len(Bytes(requests[i]))
        /\ \A m \in 1 .. Len(Bytes(requests[i])) :
             gone < off[i] + m =>
               /\ off[i] + m - gone \in 1 .. Len(rest)
               /\ rest[off[i] + m - gone] = Bytes(requests[i])[m]
  BY <1>1 DEF OffsetsSay
<1>7. Bytes(r) \in Seq(TokenType) /\ b \in Nat
  BY BytesAre
<1>8. /\ Len(all) = Len(rest) + b
      /\ \A i \in 1 .. Len(rest) : all[i] = rest[i]
      /\ \A i \in 1 .. b : all[Len(rest) + i] = Bytes(r)[i]
  <2>1. rest \in Seq(TokenType) /\ Bytes(r) \in Seq(TokenType)
    BY <1>7
  <2> QED
    BY ONLY <2>1, ConcatIs
<1>9. /\ Len(more) = n + 1 /\ more[n + 1] = r
      /\ \A i \in 1 .. n : more[i] = requests[i]
  BY AppendProperties
<1> HIDE DEF more, all, b
<1>10. /\ n + 1 \in h .. n + 1 /\ n + 1 \in h .. n + 2 /\ n + 2 \in h .. n + 2
       /\ h \in h .. n + 2 /\ h <= n + 1 /\ ~(n + 2 <= n + 1)
       /\ \A i \in h .. n + 1 : i \in h .. n + 2 /\ i <= n + 1
       /\ \A i \in h .. n + 2 : i \in h .. n + 1 \/ i = n + 2
  BY <1>2
<1>11. /\ off2 \in [h .. n + 2 -> Nat]
       /\ \A i \in h .. n + 1 : off2[i] = off[i]
       /\ off2[n + 2] = off[n + 1] + b
  <2>1. \A i \in h .. n + 1 : off2[i] = off[i]
    BY <1>10
  <2>2. off2[n + 2] = off[n + 1] + b
    BY <1>10
  <2>3. off2 = [i \in h .. n + 2 |-> off2[i]]
    OBVIOUS
  <2> HIDE DEF off2
  <2>4. off[n + 1] + b \in Nat
    BY <1>3, <1>7, <1>10
  <2>5. \A i \in h .. n + 2 : off2[i] \in Nat
    BY <1>3, <1>10, <2>1, <2>2, <2>4
  <2> QED
    BY <2>1, <2>2, <2>3, <2>5
<1> HIDE DEF off2
<1>12. off2[h] = 0 /\ off2[n + 2] = gone + Len(all)
  <2>1. h \in h .. n + 1
    BY <1>10
  <2> QED
    BY <1>2, <1>4, <1>7, <1>8, <1>11, <2>1
<1>13. ASSUME NEW i \in h .. n + 2, NEW j \in h .. n + 2, i <= j
       PROVE  off2[i] <= off2[j]
  <2>1. CASE i \in h .. n + 1 /\ j \in h .. n + 1
    BY <1>5, <1>11, <1>13, <2>1
  <2>2. CASE i \in h .. n + 1 /\ j = n + 2
    <3>1. off[i] <= off[n + 1] /\ off[i] \in Nat /\ off[n + 1] \in Nat
      BY <1>3, <1>5, <1>10, <2>2
    <3> QED
      BY <1>7, <1>11, <2>2, <3>1
  <2>3. CASE i = n + 2
    <3>1. j = n + 2
      BY <1>2, <1>13, <2>3
    <3>2. off2[n + 2] \in Nat
      BY <1>10, <1>11
    <3> QED
      BY <2>3, <3>1, <3>2
  <2> QED
    BY <1>10, <2>1, <2>2, <2>3
<1>14. ASSUME NEW i \in h .. n + 1
       PROVE  /\ off2[i + 1] = off2[i] + Len(Bytes(more[i]))
              /\ \A m \in 1 .. Len(Bytes(more[i])) :
                   gone < off2[i] + m =>
                     all[off2[i] + m - gone] = Bytes(more[i])[m]
  <2>1. CASE i \in h .. n
    <3>1. i \in 1 .. n /\ i + 1 \in h .. n + 1
      BY <1>2, <2>1
    <3>2. more[i] = requests[i] /\ off2[i] = off[i] /\ off2[i + 1] = off[i + 1]
      BY <1>9, <1>11, <3>1
    <3>3. ASSUME NEW m \in 1 .. Len(Bytes(more[i])), gone < off2[i] + m
          PROVE  all[off2[i] + m - gone] = Bytes(more[i])[m]
      <4>1. /\ off[i] + m - gone \in 1 .. Len(rest)
            /\ rest[off[i] + m - gone] = Bytes(requests[i])[m]
        BY <1>6, <2>1, <3>2, <3>3
      <4> QED
        BY <1>8, <3>2, <4>1
    <3> QED
      BY <1>6, <2>1, <3>2, <3>3
  <2>2. CASE i = n + 1
    <3>1. /\ more[i] = r /\ off2[i] = gone + Len(rest) /\ i + 1 = n + 2
          /\ off2[i + 1] = off2[i] + b
      BY <1>2, <1>4, <1>9, <1>10, <1>11, <2>2
    <3>2. ASSUME NEW m \in 1 .. b
          PROVE  all[off2[i] + m - gone] = Bytes(r)[m]
      <4>1. off2[i] + m - gone = Len(rest) + m
        BY <1>2, <1>7, <3>1
      <4> QED
        BY <1>8, <4>1
    <3> QED
      BY <3>1, <3>2 DEF b
  <2>3. i \in h .. n \/ i = n + 1
    BY <1>2
  <2> QED
    BY <2>1, <2>2, <2>3
<1>15. n + 2 = Len(more) + 1 /\ n + 1 = Len(more)
  BY <1>2, <1>9
<1>16. Offsets(off2, more, all, h, gone)
  BY <1>11, <1>12, <1>13, <1>14, <1>15 DEF Offsets
<1> QED
  BY <1>16 DEF more, all

(* A request as the callback is given it, part by part.                    *)
LEMMA GivenIs ==
  ASSUME NEW r
  PROVE  /\ HandledAs(r) = [method |-> HandledAs(r).method, version |-> HandledAs(r).version,
                            path |-> HandledAs(r).path, query |-> HandledAs(r).query,
                            headers |-> HandledAs(r).headers]
         /\ HandledAs(r).headers = [f \in Fields(r) |-> r[LastOf(r, f)].header[2]]
<1> DEFINE m == HandledAs(r)
           h == LastHeaders(r)
           as(q) == [method |-> m.method, version |-> m.version,
                     path |-> m.path, query |-> m.query, headers |-> q]
<1>1. m = as(h) /\ m.headers = h
  <2>1. CASE BadMethod(r[1])
    <3>1. m = [method |-> "kInvaild", version |-> "kUnknow", path |-> "",
               query |-> "", headers |-> h]
      BY <2>1 DEF HandledAs, Dummy
    <3> HIDE DEF m, h
    <3> QED
      BY <3>1
  <2>2. CASE ~BadMethod(r[1])
    <3> DEFINE line == r[1]
    <3>1. m = [method |-> line.words[1], version |-> line.words[3],
               path |-> line.words[2], query |-> line.query, headers |-> h]
      BY <2>2 DEF HandledAs, Meaning
    <3> HIDE DEF m, h, line
    <3> QED
      BY <3>1
  <2> QED
    BY <2>1, <2>2
<1>2. h = [f \in Fields(r) |-> r[LastOf(r, f)].header[2]]
  BY DEF LastHeaders
<1> QED
  BY <1>1, <1>2

(* What the parser makes of a good request line ...                        *)
LEMMA ParsedIs ==
  ASSUME NEW r \in Requests, Succeeds(r[1])
  PROVE  /\ Parsed(Dummy, r[1]) = [HandledAs(r) EXCEPT !.headers = Parsed(Dummy, r[1]).headers]
         /\ HeadersAre(Parsed(Dummy, r[1]).headers, r, 1)
<1> DEFINE line == r[1]
           p == Parsed(Dummy, line)
           as(q) == [method |-> HandledAs(r).method, version |-> HandledAs(r).version,
                     path |-> HandledAs(r).path, query |-> HandledAs(r).query, headers |-> q]
<1>1. p = as(<<>>)
  <2>1. CASE BadMethod(line)
    <3> DEFINE m == HandledAs(r)
    <3>1. m = [method |-> "kInvaild", version |-> "kUnknow", path |-> "", query |-> "",
               headers |-> LastHeaders(r)]
      BY <2>1 DEF HandledAs, Dummy
    <3>2. /\ m.method = "kInvaild" /\ m.version = "kUnknow"
          /\ m.path = "" /\ m.query = ""
      <4> HIDE DEF m
      <4> QED
        BY <3>1
    <3>3. p = [method |-> "kInvaild", version |-> "kUnknow", path |-> "", query |-> "",
               headers |-> <<>>]
      BY <2>1 DEF Parsed, Dummy
    <3> HIDE DEF m, p
    <3> QED
      BY <3>2, <3>3 DEF m
  <2>2. CASE ~BadMethod(line)
    <3>1. Len(line.words) = 3 /\ ~(Len(line.words) < 3)
      BY <2>2 DEF Succeeds
    <3>2. WithTarget(Dummy, line)
            = [method |-> "kInvaild", version |-> "kUnknow", path |-> line.words[2],
               query |-> line.query, headers |-> <<>>]
      <4>1. CASE line.query = ""
        BY <3>1, <4>1 DEF WithTarget, SetPath, Dummy
      <4>2. CASE line.query # ""
        BY <3>1, <4>2 DEF WithTarget, SetPath, SetQuery, Dummy
      <4> QED
        BY <4>1, <4>2
    <3> DEFINE t == WithTarget(Dummy, line)
    <3>3. p = [t EXCEPT !.method = line.words[1], !.version = line.words[3]]
      BY <2>2 DEF Parsed
    <3>4. t = [method |-> "kInvaild", version |-> "kUnknow", path |-> line.words[2],
               query |-> line.query, headers |-> <<>>]
      BY <3>2
    <3>5. p = [method |-> line.words[1], version |-> line.words[3],
               path |-> line.words[2], query |-> line.query, headers |-> <<>>]
      <4> HIDE DEF t, p
      <4> QED
        BY <3>3, <3>4
    <3>6. /\ HandledAs(r).method = line.words[1] /\ HandledAs(r).version = line.words[3]
          /\ HandledAs(r).path = line.words[2] /\ HandledAs(r).query = line.query
      BY <2>2 DEF HandledAs, Meaning
    <3> QED
      BY <3>5, <3>6
  <2> QED
    BY <2>1, <2>2
<1>2. p.headers = <<>>
  BY <1>1
<1>3. [HandledAs(r) EXCEPT !.headers = <<>>] = as(<<>>)
  <2> DEFINE m == HandledAs(r)
  <2>1. m = as(m.headers)
    BY GivenIs
  <2> HIDE DEF m
  <2> QED
    BY <2>1 DEF m
<1>4. HeadersAre(<<>>, r, 1)
  <2>1. 2 .. 1 = {}
    OBVIOUS
  <2>2. {r[i].header[1] : i \in 2 .. 1} = {}
    BY <2>1
  <2>3. <<>> = [f \in {} |-> <<>>[f]]
    OBVIOUS
  <2> QED
    BY <2>2, <2>3 DEF HeadersAre
<1> QED
  BY <1>1, <1>2, <1>3, <1>4

(* ... of one more header ...                                              *)
LEMMA AddHeaderIs ==
  ASSUME NEW r \in Requests, NEW k \in 2 .. Len(r) - 1, NEW headers,
         HeadersAre(headers, r, k - 1)
  PROVE  HeadersAre(AddHeader(headers, r[k].header[1], r[k].header[2]), r, k)
<1> DEFINE field(i) == r[i].header[1]
           old == {field(i) : i \in 2 .. k - 1}
           new == {field(i) : i \in 2 .. k}
           more == AddHeader(headers, field(k), r[k].header[2])
<1>1. Len(r) \in Nat /\ k \in Nat /\ k >= 2
  BY RequestIs
<1>2. /\ headers = [f \in old |-> headers[f]]
      /\ \A f \in old :
           \E i \in 2 .. k - 1 :
             /\ field(i) = f /\ headers[f] = r[i].header[2]
             /\ \A j \in i + 1 .. k - 1 : field(j) # f
  BY DEF HeadersAre
<1>3. /\ \A i \in 2 .. k : i \in 2 .. k - 1 \/ i = k
      /\ \A i \in 2 .. k - 1 : i \in 2 .. k
      /\ k \in 2 .. k
  BY <1>1
<1>4. new = old \cup {field(k)}
  <2> HIDE DEF field
  <2> QED
    BY <1>3
<1>5. DOMAIN headers = old
  BY <1>2
<1>6. /\ more = [f \in new |-> more[f]]
      /\ \A f \in new : more[f] = IF f = field(k) THEN r[k].header[2] ELSE headers[f]
  <2> HIDE DEF field, old, new
  <2> QED
    BY <1>4, <1>5 DEF AddHeader
<1>7. ASSUME NEW f \in new
      PROVE  \E i \in 2 .. k :
               /\ field(i) = f /\ more[f] = r[i].header[2]
               /\ \A j \in i + 1 .. k : field(j) # f
  <2> HIDE DEF field, old, new, more
  <2>1. CASE f = field(k)
    <3>1. k + 1 .. k = {}
      BY <1>1
    <3> QED
      BY <1>3, <1>6, <2>1, <3>1
  <2>2. CASE f # field(k)
    <3>1. f \in old
      BY <1>4, <2>2
    <3>2. PICK i \in 2 .. k - 1 :
            /\ field(i) = f /\ headers[f] = r[i].header[2]
            /\ \A j \in i + 1 .. k - 1 : field(j) # f
      BY <1>2, <3>1
    <3>3. \A j \in i + 1 .. k : j \in i + 1 .. k - 1 \/ j = k
      BY <1>1
    <3>4. \A j \in i + 1 .. k : field(j) # f
      BY <2>2, <3>2, <3>3
    <3>5. more[f] = r[i].header[2]
      BY <1>6, <2>2, <3>2
    <3> QED
      BY <1>3, <3>2, <3>4, <3>5
  <2> QED
    BY <2>1, <2>2
<1> QED
  <2> HIDE DEF more
  <2>1. HeadersAre(more, r, k)
    BY <1>6, <1>7 DEF HeadersAre
  <2> QED
    BY <2>1 DEF more

(* ... and of all of it.                                                   *)
LEMMA HandledIs ==
  ASSUME NEW r \in Requests, NEW req,
         req = [HandledAs(r) EXCEPT !.headers = req.headers],
         HeadersAre(req.headers, r, Len(r) - 1)
  PROVE  req = HandledAs(r)
<1> DEFINE n == Len(r) - 1
           field(i) == r[i].header[1]
           headers == req.headers
           IsLast(i, f) == field(i) = f /\ \A j \in i + 1 .. n : field(j) # f
<1>1. n \in Nat /\ Fields(r) = {field(i) : i \in 2 .. n}
  BY RequestIs DEF Fields
<1>2. /\ headers = [f \in Fields(r) |-> headers[f]]
      /\ \A f \in Fields(r) :
           \E i \in 2 .. n : IsLast(i, f) /\ headers[f] = r[i].header[2]
  BY <1>1 DEF HeadersAre
<1>3. ASSUME NEW f \in Fields(r) PROVE headers[f] = r[LastOf(r, f)].header[2]
  <2>1. PICK i \in 2 .. n : IsLast(i, f) /\ headers[f] = r[i].header[2]
    BY <1>2
  <2>2. LastOf(r, f) = CHOOSE j \in 2 .. n : IsLast(j, f)
    BY DEF LastOf
  <2>3. \A j \in 2 .. n : IsLast(j, f) => j = i
    <3> SUFFICES ASSUME NEW j \in 2 .. n, IsLast(j, f) PROVE j = i
      OBVIOUS
    <3>1. ~(i < j) /\ ~(j < i)
      <4>1. ASSUME i < j PROVE FALSE
        <5>1. j \in i + 1 .. n
          BY <1>1, <4>1
        <5> QED
          BY <2>1, <5>1
      <4>2. ASSUME j < i PROVE FALSE
        <5>1. i \in j + 1 .. n
          BY <1>1, <4>2
        <5> QED
          BY <2>1, <5>1
      <4> QED
        BY <4>1, <4>2
    <3> QED
      BY <1>1, <3>1
  <2> HIDE DEF IsLast, n
  <2>4. LastOf(r, f) = i
    BY <2>1, <2>2, <2>3
  <2> QED
    BY <2>1, <2>4
<1>4. HandledAs(r).headers = [f \in Fields(r) |-> r[LastOf(r, f)].header[2]]
  BY GivenIs
<1>5. headers = HandledAs(r).headers
  BY <1>2, <1>3, <1>4
<1>6. [HandledAs(r) EXCEPT !.headers = HandledAs(r).headers] = HandledAs(r)
  <2> DEFINE m == HandledAs(r)
  <2>1. m = [method |-> m.method, version |-> m.version, path |-> m.path,
             query |-> m.query, headers |-> m.headers]
    BY GivenIs
  <2> HIDE DEF m
  <2> QED
    BY <2>1 DEF m
<1> QED
  BY <1>5, <1>6

(* The parser stands before the k-th line of the request it is in.         *)
Before(requests, h, k, off, rest, place, req) ==
  /\ h <= Len(requests)
  /\ PlaceIs(requests[h], k, place, req)
  /\ Offsets(off, requests, rest, h, Start(requests[h], k))

(* A line starts at some token.                                            *)
LEMMA StartIs ==
  ASSUME NEW r \in Requests, NEW k \in 1 .. Len(r) + 1
  PROVE  Start(r, k) \in Nat
<1>1. Len(r) \in Nat
  BY RequestIs
<1>2. CASE k = Len(r) + 1
  BY <1>2, BytesAre
<1>3. CASE k \in 1 .. Len(r)
  BY <1>3, BytesAre
<1> QED
  BY <1>1, <1>2, <1>3

(* Where the stream stands.                                                *)
LEMMA WhereIs ==
  ASSUME ParserInv
  PROVE  LET h == Len(handled) + 1
         IN  /\ h \in Nat \ {0} /\ h <= Len(sent) + 1
             /\ Rest \in Seq(TokenType)
             /\ \/ \E k, off : Before(sent, h, k, off, Rest, state, request)
                \/ /\ h = Len(sent) + 1 /\ Rest = <<>>
                   /\ state = "kExpectRequestLine" /\ request = Dummy
                   /\ \E off : Offsets(off, sent, Rest, h, 0)
<1> DEFINE h == Len(handled) + 1
<1>1. /\ sent \in Seq(Requests) /\ Len(sent) \in Nat
      /\ h \in Nat \ {0} /\ h <= Len(sent) + 1
  BY DEF ParserInv
<1>2. Rest \in Seq(TokenType)
  BY ConcatIs DEF ParserInv, Rest
<1> HIDE DEF h
<1>3. InStream(sent, h, Rest, state, request)
  BY DEF ParserInv, ParserOK, h
<1>4. PICK k, gone, off :
        /\ IF h <= Len(sent)
           THEN PlaceIs(sent[h], k, state, request) /\ gone = Start(sent[h], k)
           ELSE gone = 0 /\ state = "kExpectRequestLine" /\ request = Dummy
        /\ Offsets(off, sent, Rest, h, gone)
  BY <1>3 DEF InStream
<1>5. CASE h <= Len(sent)
  BY <1>1, <1>2, <1>4, <1>5 DEF Before, h
<1>6. CASE h = Len(sent) + 1
  <2>1. /\ gone = 0 /\ state = "kExpectRequestLine" /\ request = Dummy
        /\ Offsets(off, sent, Rest, h, 0)
    BY <1>1, <1>4, <1>6
  <2>2. off[h] = 0 /\ off[Len(sent) + 1] = 0 + Len(Rest)
    BY <2>1 DEF Offsets
  <2>3. Len(Rest) = 0
    BY <1>2, <1>6, <2>2
  <2>4. Rest = <<>>
    BY <1>2, <2>3
  <2> QED
    BY <1>1, <1>2, <1>6, <2>1, <2>4 DEF h
<1> QED
  BY <1>1, <1>5, <1>6

(* A whole line in the buffer is the one the parser stands before, and the *)
(* parser is past it when it is retrieved.                                 *)
LEMMA NextLine ==
  ASSUME ParserInv, HasCRLF, state # "kGotAll"
  PROVE  \E k, off :
           LET h == Len(handled) + 1
           IN  /\ Before(sent, h, k, off, Rest, state, request)
               /\ sent[h] \in Requests /\ k \in 1 .. Len(sent[h])
               /\ Line = sent[h][k]
               /\ buffer' = Retrieve /\ flight' = flight =>
                    /\ buffer' \in Seq(TokenType)
                    /\ Offsets(off, sent, Rest', h, Start(sent[h], k + 1))
<1> DEFINE h == Len(handled) + 1
           r == sent[h]
<1>1. /\ sent \in Seq(Requests) /\ Len(sent) \in Nat
      /\ buffer \in Seq(TokenType) /\ flight \in Seq(TokenType)
  BY DEF ParserInv
<1>2. /\ buffer \o flight \in Seq(TokenType)
      /\ Len(buffer) \in Nat /\ Len(flight) \in Nat
      /\ Len(buffer \o flight) = Len(buffer) + Len(flight)
      /\ \A i \in 1 .. Len(buffer) : (buffer \o flight)[i] = buffer[i]
      /\ \A i \in 1 .. Len(flight) : (buffer \o flight)[Len(buffer) + i] = flight[i]
  BY ONLY <1>1, ConcatIs
<1>3. /\ Rest \in Seq(TokenType) /\ Len(Rest) >= Len(buffer)
      /\ \A i \in 1 .. Len(buffer) : Rest[i] = buffer[i]
  BY <1>2 DEF Rest
<1>4. Rest # <<>>
  <2>1. PICK i \in 1 .. Len(buffer) - 1 : TRUE
    BY DEF HasCRLF
  <2>2. Len(buffer) # 0
    BY <1>2, <2>1
  <2> QED
    BY <1>2, <1>3, <2>2
<1>5. /\ h \in Nat \ {0} /\ h <= Len(sent) + 1
      /\ \E k, off : Before(sent, h, k, off, Rest, state, request)
  BY <1>4, WhereIs
<1> HIDE DEF h
<1>6. PICK k, off : Before(sent, h, k, off, Rest, state, request)
  BY <1>5
<1>7. h <= Len(sent) /\ r \in Requests
  BY <1>1, <1>5, <1>6 DEF Before
<1>8. k \in 1 .. Len(r) /\ Len(r) \in Nat
  BY <1>6, <1>7, RequestIs DEF Before, PlaceIs
<1> DEFINE L == r[k]
           l == Len(Tokens(L))
           gone == Start(r, k)
<1>9. /\ L \in Lines /\ gone \in Nat /\ l \in {2, 3}
      /\ Start(r, k + 1) = gone + l /\ gone + l <= Len(Bytes(r))
      /\ \A m \in 1 .. l : Bytes(r)[gone + m] = Tokens(L)[m]
  <2>1. L \in Lines
    BY <1>7, <1>8, RequestIs
  <2>2. l \in {2, 3}
    BY <2>1, TokensAre
  <2>3. /\ gone \in Nat /\ Start(r, k + 1) = gone + l /\ gone + l <= Len(Bytes(r))
        /\ \A m \in 1 .. l : Bytes(r)[gone + m] = Tokens(L)[m]
    BY <1>7, <1>8, BytesAre
  <2> QED
    BY <2>1, <2>2, <2>3
<1> HIDE DEF l, gone, r
<1>10. Offsets(off, sent, Rest, h, gone)
  BY <1>6 DEF Before, gone, r
<1>11. OffsetsSay(off, sent, Rest, h, gone)
  BY <1>1, <1>3, <1>5, <1>9, <1>10, OffsetsAt
<1>12. ASSUME NEW m \in 1 .. l PROVE m \in 1 .. Len(Rest) /\ Rest[m] = Tokens(L)[m]
  <2>1. h \in h .. Len(sent) /\ off[h] = 0 /\ sent[h] = r /\ Len(Bytes(r)) \in Nat
    BY <1>1, <1>5, <1>7, <1>11 DEF OffsetsSay, r
  <2>2. m \in Nat /\ m >= 1 /\ m <= l
    BY <1>9
  <2>3. gone + m \in 1 .. Len(Bytes(r)) /\ gone < 0 + (gone + m) /\ 0 + (gone + m) - gone = m
    BY <1>9, <2>1, <2>2
  <2>4. /\ 0 + (gone + m) - gone \in 1 .. Len(Rest)
        /\ Rest[0 + (gone + m) - gone] = Bytes(r)[gone + m]
    BY <1>11, <2>1, <2>3 DEF OffsetsSay
  <2> QED
    BY <1>9, <2>3, <2>4
<1>13. \A m \in 1 .. Len(buffer) : m <= Len(Tokens(L)) => buffer[m] = Tokens(L)[m]
  BY <1>2, <1>3, <1>9, <1>12 DEF l
<1>14. l \in 2 .. Len(buffer) /\ FindCRLF = l - 2 /\ Line = L
  BY <1>1, <1>9, <1>13, LineAt DEF l
<1>15. ASSUME buffer' = Retrieve, flight' = flight
       PROVE  buffer' \in Seq(TokenType) /\ Offsets(off, sent, Rest', h, Start(r, k + 1))
  <2>1. l \in 0 .. Len(buffer) /\ l - 2 + 3 = l + 1 /\ l \in Nat
    BY <1>2, <1>14
  <2>2. buffer' = SubSeq(buffer, l + 1, Len(buffer))
    BY <1>14, <1>15, <2>1 DEF Retrieve
  <2>3. /\ buffer' \in Seq(TokenType) /\ Rest' \in Seq(TokenType)
        /\ Rest \in Seq(TokenType) /\ l <= Len(Rest)
        /\ Len(Rest') = Len(Rest) - l
        /\ \A i \in 1 .. Len(Rest) - l : Rest'[i] = Rest[l + i]
    BY <1>1, <1>15, <2>1, <2>2, RetrieveRest
  <2>4. Offsets(off, sent, Rest', h, gone + l)
    BY <1>1, <1>5, <1>9, <1>10, <2>1, <2>3, OffsetsDrop
  <2> QED
    BY <1>9, <2>3, <2>4
<1> QED
  BY <1>6, <1>7, <1>8, <1>14, <1>15 DEF h, r

(* What the invariant needs of a step that handles no request.             *)
LEMMA PlaceKeeps ==
  ASSUME ParserInv, sent' = sent, handled' = handled,
         buffer' \in Seq(TokenType), flight' \in Seq(TokenType),
         InStream(sent, Len(handled) + 1, Rest', state', request')
  PROVE  ParserInv'
<1>1. HandledAsSent'
  BY DEF ParserInv, HandledAsSent
<1>2. ParserOK'
  BY DEF ParserOK
<1> QED
  BY <1>1, <1>2 DEF ParserInv

(* The place of the parser, once it is known.                              *)
LEMMA BeforeIs ==
  ASSUME NEW requests, NEW h, NEW k, NEW off, NEW rest, NEW place, NEW req,
         Before(requests, h, k, off, rest, place, req)
  PROVE  InStream(requests, h, rest, place, req)
BY DEF Before, InStream

(* The request line: passed if it is good, left where it is if not.        *)
LEMMA RequestLineStep ==
  ASSUME ParserInv, ParseRequestLine
  PROVE  ParserInv'
<1> DEFINE h == Len(handled) + 1
           r == sent[h]
<1>1. /\ state = "kExpectRequestLine" /\ HasCRLF
      /\ request' = Parsed(request, Line) /\ ok' = Succeeds(Line)
      /\ buffer' = (IF ok' THEN Retrieve ELSE buffer)
      /\ state' = (IF ok' THEN "kExpectRequestHead" ELSE state)
      /\ sent' = sent /\ flight' = flight /\ handled' = handled
  BY DEF ParseRequestLine, clientVars
<1>2. state # "kGotAll"
  BY <1>1
<1>3. PICK k, off :
        /\ Before(sent, h, k, off, Rest, state, request)
        /\ r \in Requests /\ k \in 1 .. Len(r)
        /\ Line = r[k]
        /\ buffer' = Retrieve /\ flight' = flight =>
             /\ buffer' \in Seq(TokenType)
             /\ Offsets(off, sent, Rest', h, Start(r, k + 1))
  BY <1>1, <1>2, NextLine
<1>4. buffer \in Seq(TokenType) /\ flight \in Seq(TokenType)
  BY DEF ParserInv
<1>5. h <= Len(sent) /\ PlaceIs(r, k, state, request) /\ Offsets(off, sent, Rest, h, Start(r, k))
  BY <1>3 DEF Before
<1> HIDE DEF h
<1>6. k = 1
  BY <1>1, <1>3, <1>5 DEF PlaceIs
<1>7. Len(r) \in Nat /\ Len(r) >= 2
  BY <1>3, RequestIs
<1>8. CASE ok'
  <2>1. Succeeds(r[1]) /\ request = Dummy
    BY <1>1, <1>3, <1>5, <1>6, <1>8 DEF PlaceIs
  <2>2. request' = Parsed(Dummy, r[1])
    BY <1>1, <1>3, <1>6, <2>1
  <2>3. /\ request' = [HandledAs(r) EXCEPT !.headers = request'.headers]
        /\ HeadersAre(request'.headers, r, 1)
    BY <1>3, <2>1, <2>2, ParsedIs
  <2>4. PlaceIs(r, 2, state', request')
    <3>1. state' = "kExpectRequestHead"
      BY <1>1, <1>8
    <3>2. 2 \in 1 .. Len(r) + 1 /\ 2 # 1 /\ 2 <= Len(r) /\ 2 - 1 = 1
      BY <1>7
    <3> QED
      BY <2>1, <2>3, <3>1, <3>2 DEF PlaceIs
  <2>5. buffer' \in Seq(TokenType) /\ Offsets(off, sent, Rest', h, Start(r, 2))
    BY <1>1, <1>3, <1>6, <1>8
  <2>6. Before(sent, h, 2, off, Rest', state', request')
    BY <1>5, <2>4, <2>5 DEF Before
  <2>7. InStream(sent, h, Rest', state', request')
    BY <2>6, BeforeIs
  <2> QED
    BY <1>1, <1>4, <2>5, <2>7, PlaceKeeps DEF h
<1>9. CASE ~ok'
  <2>1. ~Succeeds(r[1]) /\ Rest' = Rest /\ state' = state /\ buffer' = buffer
    BY <1>1, <1>3, <1>6, <1>9 DEF Rest
  <2>2. PlaceIs(r, 1, state', request')
    BY <1>5, <1>6, <2>1 DEF PlaceIs
  <2>3. Before(sent, h, 1, off, Rest', state', request')
    BY <1>5, <1>6, <2>1, <2>2 DEF Before
  <2>4. InStream(sent, h, Rest', state', request')
    BY <2>3, BeforeIs
  <2> QED
    BY <1>1, <1>4, <2>1, <2>4, PlaceKeeps DEF h
<1> QED
  BY <1>8, <1>9

(* A header, or the empty line after the last.                             *)
LEMMA HeaderStep ==
  ASSUME ParserInv, ParseHeader
  PROVE  ParserInv'
<1> DEFINE h == Len(handled) + 1
           r == sent[h]
           more == AddHeader(request.headers, Line.header[1], Line.header[2])
<1>1. /\ state = "kExpectRequestHead" /\ HasCRLF /\ buffer' = Retrieve
      /\ IF Line.header = <<>>
         THEN state' = "kGotAll" /\ request' = request
         ELSE state' = state /\ request' = [request EXCEPT !.headers = more]
      /\ sent' = sent /\ flight' = flight /\ handled' = handled
  BY DEF ParseHeader, clientVars
<1>2. state # "kGotAll"
  BY <1>1
<1>3. PICK k, off :
        /\ Before(sent, h, k, off, Rest, state, request)
        /\ r \in Requests /\ k \in 1 .. Len(r)
        /\ Line = r[k]
        /\ buffer' = Retrieve /\ flight' = flight =>
             /\ buffer' \in Seq(TokenType)
             /\ Offsets(off, sent, Rest', h, Start(r, k + 1))
  BY <1>1, <1>2, NextLine
<1>4. /\ flight' \in Seq(TokenType) /\ buffer' \in Seq(TokenType)
      /\ Offsets(off, sent, Rest', h, Start(r, k + 1))
  BY <1>1, <1>3 DEF ParserInv
<1>5. h <= Len(sent) /\ PlaceIs(r, k, state, request)
  BY <1>3 DEF Before
<1> HIDE DEF h, r, more
<1>6. Len(r) \in Nat /\ Len(r) >= 2 /\ r[Len(r)].header = <<>>
  BY <1>3, RequestIs
<1>7. /\ k # 1 /\ k \in 2 .. Len(r) /\ k <= Len(r)
      /\ Succeeds(r[1])
      /\ request = [HandledAs(r) EXCEPT !.headers = request.headers]
      /\ HeadersAre(request.headers, r, k - 1)
  BY <1>1, <1>3, <1>5, <1>6 DEF PlaceIs
<1>8. CASE Line.header = <<>>
  <2>1. k = Len(r)
    <3>1. k \notin 2 .. Len(r) - 1
      BY <1>3, <1>8, RequestIs
    <3> QED
      BY <1>6, <1>7, <3>1
  <2>2. state' = "kGotAll" /\ request' = request
    BY <1>1, <1>8
  <2>3. k + 1 \in 1 .. Len(r) + 1 /\ k + 1 # 1 /\ ~(k + 1 <= Len(r))
    BY <1>6, <2>1
  <2>4. PlaceIs(r, k + 1, state', request')
    BY <1>7, <2>1, <2>2, <2>3 DEF PlaceIs
  <2>5. Before(sent, h, k + 1, off, Rest', state', request')
    BY <1>4, <1>5, <2>4 DEF Before, r
  <2>6. InStream(sent, h, Rest', state', request')
    BY <2>5, BeforeIs
  <2> QED
    BY <1>1, <1>4, <2>6, PlaceKeeps DEF h
<1>9. CASE Line.header # <<>>
  <2>1. k # Len(r)
    BY <1>3, <1>6, <1>9
  <2>2. k \in 2 .. Len(r) - 1
    BY <1>6, <1>7, <2>1
  <2>3. HeadersAre(more, r, k)
    BY <1>3, <1>7, <2>2, AddHeaderIs DEF more
  <2>4. /\ state' = "kExpectRequestHead"
        /\ request' = [HandledAs(r) EXCEPT !.headers = more] /\ request'.headers = more
    <3>1. request' = [request EXCEPT !.headers = more]
      BY <1>1, <1>9
    <3> DEFINE m == HandledAs(r)
               as(q) == [method |-> m.method, version |-> m.version,
                         path |-> m.path, query |-> m.query, headers |-> q]
    <3>2. m = as(m.headers)
      BY GivenIs
    <3>3. request = [m EXCEPT !.headers = request.headers]
      BY <1>7
    <3> HIDE DEF m
    <3>4. request = as(request.headers)
      BY <3>2, <3>3
    <3>5. request' = as(more) /\ [m EXCEPT !.headers = more] = as(more)
      BY <3>1, <3>2, <3>4
    <3>6. request' = [m EXCEPT !.headers = more] /\ request'.headers = more
      BY <3>5
    <3> QED
      BY <1>1, <1>9, <3>6 DEF m
  <2>5. /\ k + 1 \in 1 .. Len(r) + 1 /\ k + 1 # 1 /\ k + 1 <= Len(r) /\ (k + 1) - 1 = k
    BY <1>6, <2>2
  <2>6. PlaceIs(r, k + 1, state', request')
    BY <1>7, <2>3, <2>4, <2>5 DEF PlaceIs
  <2>7. Before(sent, h, k + 1, off, Rest', state', request')
    BY <1>4, <1>5, <2>6 DEF Before, r
  <2>8. InStream(sent, h, Rest', state', request')
    BY <2>7, BeforeIs
  <2> QED
    BY <1>1, <1>4, <2>8, PlaceKeeps DEF h
<1> QED
  BY <1>8, <1>9

(* The client sends another request behind what is in the stream.          *)
LEMMA SendKeeps ==
  ASSUME ParserInv, NEW r \in Requests, Send(r)
  PROVE  ParserInv'
<1> DEFINE h == Len(handled) + 1
<1>1. /\ sent' = Append(sent, r) /\ flight' = flight \o Bytes(r)
      /\ buffer' = buffer /\ state' = state /\ request' = request /\ handled' = handled
  BY DEF Send
<1>2. /\ sent \in Seq(Requests) /\ Len(sent) \in Nat /\ Len(handled) \in Nat
      /\ Len(handled) <= Len(sent)
      /\ buffer \in Seq(TokenType) /\ flight \in Seq(TokenType)
  BY DEF ParserInv
<1>3. /\ Append(sent, r) \in Seq(Requests)
      /\ Len(Append(sent, r)) = Len(sent) + 1
      /\ Append(sent, r)[Len(sent) + 1] = r
      /\ \A i \in 1 .. Len(sent) : Append(sent, r)[i] = sent[i]
  BY <1>2, AppendProperties
<1>4. Bytes(r) \in Seq(TokenType) /\ Start(r, 1) = 0
  BY BytesAre
<1>5. flight' \in Seq(TokenType)
  BY <1>1, <1>2, <1>4, ConcatIs
<1>6. Rest' = Rest \o Bytes(r)
  <2>1. buffer \in Seq(TokenType) /\ flight \in Seq(TokenType) /\ Bytes(r) \in Seq(TokenType)
    BY <1>2, <1>4
  <2>2. (buffer \o flight) \o Bytes(r) = buffer \o (flight \o Bytes(r))
    BY ONLY <2>1, ConcatAssociative, SMTT(60)
  <2> QED
    BY <1>1, <2>2 DEF Rest
<1>7. HandledAsSent'
  <2>1. \A i \in 1 .. Len(handled) : \A j \in 1 .. i : sent'[j] = sent[j]
    BY <1>1, <1>2, <1>3
  <2>2. \A i \in 1 .. Len(handled) : i \in 1 .. i
    BY <1>2
  <2> QED
    BY <1>1, <2>1, <2>2 DEF ParserInv, HandledAsSent
<1>8. /\ h \in Nat \ {0} /\ h <= Len(sent) + 1 /\ Rest \in Seq(TokenType)
      /\ \/ \E k, off : Before(sent, h, k, off, Rest, state, request)
         \/ /\ h = Len(sent) + 1 /\ Rest = <<>>
            /\ state = "kExpectRequestLine" /\ request = Dummy
            /\ \E off : Offsets(off, sent, Rest, h, 0)
  BY WhereIs
<1> HIDE DEF h
<1>9. InStream(sent', h, Rest', state', request')
  <2>1. CASE \E k, off : Before(sent, h, k, off, Rest, state, request)
    <3>1. PICK k, off : Before(sent, h, k, off, Rest, state, request)
      BY <2>1
    <3>2. /\ h <= Len(sent) /\ PlaceIs(sent[h], k, state, request)
          /\ Offsets(off, sent, Rest, h, Start(sent[h], k))
      BY <3>1 DEF Before
    <3>3. h \in 1 .. Len(sent) /\ sent[h] \in Requests /\ sent'[h] = sent[h]
      BY <1>1, <1>2, <1>3, <1>8, <3>2
    <3>4. k \in 1 .. Len(sent[h]) + 1
      BY <3>2 DEF PlaceIs
    <3>5. Start(sent[h], k) \in Nat
      BY <3>3, <3>4, StartIs
    <3>6. PICK off2 : Offsets(off2, Append(sent, r), Rest \o Bytes(r), h, Start(sent[h], k))
      BY <1>2, <1>8, <3>2, <3>5, OffsetsSend
    <3>7. Before(sent', h, k, off2, Rest', state', request')
      BY <1>1, <1>2, <1>3, <1>6, <3>2, <3>3, <3>6 DEF Before
    <3> QED
      BY <3>7, BeforeIs
  <2>2. CASE /\ h = Len(sent) + 1
             /\ state = "kExpectRequestLine" /\ request = Dummy
             /\ \E off : Offsets(off, sent, Rest, h, 0)
    <3>1. PICK off : Offsets(off, sent, Rest, h, 0)
      BY <2>2
    <3>2. PICK off2 : Offsets(off2, Append(sent, r), Rest \o Bytes(r), h, 0)
      BY <1>2, <1>8, <3>1, OffsetsSend
    <3>3. sent'[h] = r /\ h <= Len(sent')
      BY <1>1, <1>2, <1>3, <2>2
    <3>4. PlaceIs(r, 1, state', request')
      <4>1. 1 \in 1 .. Len(r) + 1
        BY RequestIs
      <4> QED
        BY <1>1, <2>2, <4>1 DEF PlaceIs
    <3>5. Before(sent', h, 1, off2, Rest', state', request')
      BY <1>1, <1>4, <1>6, <3>2, <3>3, <3>4 DEF Before
    <3> QED
      BY <3>5, BeforeIs
  <2> QED
    BY <1>8, <2>1, <2>2
<1>10. ParserOK'
  BY <1>1, <1>9 DEF ParserOK, h
<1> QED
  BY <1>1, <1>2, <1>3, <1>5, <1>7, <1>10 DEF ParserInv

(* A message arrives.                                                      *)
LEMMA MessageKeeps ==
  ASSUME ParserInv, NEW n \in 1 .. Len(flight), OnMessage(n)
  PROVE  ParserInv'
<1>1. /\ sent' = sent /\ handled' = handled /\ state' = state /\ request' = request
  BY DEF OnMessage
<1>2. buffer' \in Seq(TokenType) /\ flight' \in Seq(TokenType) /\ Rest' = Rest
  BY MessageRest DEF ParserInv
<1>3. InStream(sent, Len(handled) + 1, Rest', state', request')
  BY <1>1, <1>2 DEF ParserInv, ParserOK
<1> QED
  BY <1>1, <1>2, <1>3, PlaceKeeps

(* A step that leaves the stream and the parser alone.                     *)
LEMMA QuietKeeps ==
  ASSUME ParserInv, UNCHANGED <<sent, flight, buffer, state, request, handled>>
  PROVE  ParserInv'
<1>1. Rest' = Rest
  BY DEF Rest
<1>2. InStream(sent, Len(handled) + 1, Rest', state', request')
  BY <1>1 DEF ParserInv, ParserOK
<1>3. buffer' \in Seq(TokenType) /\ flight' \in Seq(TokenType)
  BY DEF ParserInv
<1> QED
  BY <1>2, <1>3, PlaceKeeps

(* A whole request is handled, and its place is the next one's.            *)
LEMMA RequestStep ==
  ASSUME ParserInv, OnRequest
  PROVE  ParserInv'
<1> DEFINE n == Len(handled)
           h == n + 1
           r == sent[h]
<1>1. /\ state = "kGotAll" /\ handled' = Append(handled, request)
      /\ state' = "kExpectRequestLine" /\ request' = Dummy
      /\ sent' = sent /\ flight' = flight /\ buffer' = buffer
  BY DEF OnRequest, Reset, SwapWith, clientVars
<1>2. /\ sent \in Seq(Requests) /\ Len(sent) \in Nat /\ n \in Nat
      /\ handled \in Seq({HandledAs(q) : q \in Requests})
      /\ buffer \in Seq(TokenType) /\ flight \in Seq(TokenType)
      /\ HandledAsSent
  BY DEF ParserInv
<1>3. /\ h \in Nat \ {0} /\ h <= Len(sent) + 1 /\ Rest \in Seq(TokenType)
      /\ \E k, off : Before(sent, h, k, off, Rest, state, request)
  BY <1>1, WhereIs
<1>4. PICK k, off : Before(sent, h, k, off, Rest, state, request)
  BY <1>3
<1>5. /\ h <= Len(sent) /\ PlaceIs(r, k, state, request)
      /\ Offsets(off, sent, Rest, h, Start(r, k))
  BY <1>4 DEF Before
<1>6. r \in Requests /\ h \in 1 .. Len(sent)
  BY <1>2, <1>3, <1>5
<1> HIDE DEF r
<1>7. Len(r) \in Nat /\ Len(r) >= 2
  BY <1>6, RequestIs
<1>8. /\ k = Len(r) + 1 /\ k # 1 /\ ~(k <= Len(r))
      /\ Succeeds(r[1])
      /\ request = [HandledAs(r) EXCEPT !.headers = request.headers]
      /\ HeadersAre(request.headers, r, Len(r) - 1)
  BY <1>1, <1>5, <1>7 DEF PlaceIs
<1>9. request = HandledAs(r)
  BY <1>6, <1>8, HandledIs
<1>10. Start(r, k) = Len(Bytes(r)) /\ Start(r, k) \in Nat
  <2>1. k \in 1 .. Len(r) + 1
    BY <1>7, <1>8
  <2> QED
    BY <1>6, <1>8, <2>1, BytesAre, StartIs
<1>11. /\ handled' \in Seq({HandledAs(q) : q \in Requests})
       /\ Len(handled') = n + 1 /\ handled'[n + 1] = request
       /\ \A i \in 1 .. n : handled'[i] = handled[i]
  <2>1. request \in {HandledAs(q) : q \in Requests}
    BY <1>6, <1>9
  <2> QED
    BY <1>1, <1>2, <2>1, AppendProperties
<1>12. HandledAsSent'
  <2>1. \A i \in 1 .. n : handled[i] = HandledAs(sent[i]) /\ \A j \in 1 .. i : Succeeds(sent[j][1])
    BY <1>2 DEF HandledAsSent, HandledAs
  <2>2. \A j \in 1 .. n : Succeeds(sent[j][1])
    BY <1>2, <2>1
  <2>3. \A j \in 1 .. n + 1 : Succeeds(sent[j][1])
    <3>1. \A j \in 1 .. n + 1 : j \in 1 .. n \/ j = n + 1
      BY <1>2
    <3> QED
      BY <1>8, <2>2, <3>1 DEF r
  <2>4. handled'[n + 1] = HandledAs(sent[n + 1])
    BY <1>9, <1>11 DEF r
  <2>5. ASSUME NEW i \in 1 .. n + 1
        PROVE  /\ \A j \in 1 .. i : Succeeds(sent[j][1])
               /\ handled'[i] = HandledAs(sent[i])
    <3>1. \A j \in 1 .. i : j \in 1 .. n + 1
      BY <1>2
    <3>2. i \in 1 .. n \/ i = n + 1
      BY <1>2
    <3> QED
      BY <1>11, <2>1, <2>3, <2>4, <3>1, <3>2
  <2> QED
    BY <1>1, <1>11, <2>5 DEF HandledAsSent, HandledAs
<1>13. Rest' = Rest /\ Len(handled') + 1 = h + 1
  BY <1>1, <1>11 DEF Rest
<1> HIDE DEF h
<1>14. PICK off2 : Offsets(off2, sent, Rest, h + 1, 0)
  BY <1>2, <1>3, <1>5, <1>10, OffsetsNext DEF r
<1>15. InStream(sent, h + 1, Rest, state', request')
  <2>1. CASE h + 1 <= Len(sent)
    <3>1. sent[h + 1] \in Requests
      BY <1>2, <1>3, <2>1
    <3>2. Start(sent[h + 1], 1) = 0 /\ 1 \in 1 .. Len(sent[h + 1]) + 1
      BY <3>1, BytesAre, RequestIs
    <3>3. PlaceIs(sent[h + 1], 1, state', request')
      BY <1>1, <3>2 DEF PlaceIs
    <3>4. Before(sent, h + 1, 1, off2, Rest, state', request')
      BY <1>14, <2>1, <3>2, <3>3 DEF Before
    <3> QED
      BY <3>4, BeforeIs
  <2>2. CASE ~(h + 1 <= Len(sent))
    BY <1>1, <1>14, <2>2 DEF InStream
  <2> QED
    BY <2>1, <2>2
<1>16. ParserOK'
  BY <1>1, <1>13, <1>15 DEF ParserOK
<1>17. Len(handled') <= Len(sent)
  BY <1>5, <1>11 DEF h
<1> QED
  BY <1>1, <1>2, <1>11, <1>12, <1>16, <1>17 DEF ParserInv

(* A new connection.                                                       *)
LEMMA ParserInit == Init => ParserInv
<1> SUFFICES ASSUME Init PROVE ParserInv
  OBVIOUS
<1>1. /\ sent = <<>> /\ flight = <<>> /\ buffer = <<>> /\ handled = <<>>
      /\ state = "kExpectRequestLine" /\ request = Dummy
  BY DEF Init
<1>2. Rest = <<>>
  BY <1>1, ConcatEmptySeq DEF Rest
<1>3. /\ Len(<<>>) = 0 /\ 0 + 1 = 1 /\ ~(1 <= 0)
      /\ \A S : <<>> \in Seq(S)
  OBVIOUS
<1>4. Offsets([i \in 1 .. 1 |-> 0], <<>>, <<>>, 1, 0)
  BY <1>3 DEF Offsets
<1>5. ParserOK
  BY <1>1, <1>2, <1>3, <1>4 DEF ParserOK, InStream
<1>6. HandledAsSent
  BY <1>1 DEF HandledAsSent
<1> QED
  BY <1>1, <1>3, <1>5, <1>6 DEF ParserInv

(* Each step, of the client, of the network and of the server.             *)
LEMMA ParserStep == ParserInv /\ [Next]_vars => ParserInv'
<1> SUFFICES ASSUME ParserInv, [Next]_vars PROVE ParserInv'
  OBVIOUS
<1>1. ASSUME NEW r \in Requests, Send(r) PROVE ParserInv'
  BY <1>1, SendKeeps
<1>2. ASSUME NEW n \in 1 .. Len(flight), OnMessage(n) PROVE ParserInv'
  BY <1>2, MessageKeeps
<1>3. CASE ParseRequestLine
  BY <1>3, RequestLineStep
<1>4. CASE ParseHeader
  BY <1>4, HeaderStep
<1>5. CASE OnRequest
  BY <1>5, RequestStep
<1>6. CASE ParseStops \/ RefuseBadRequest \/ NothingYet \/ UNCHANGED vars
  <2>1. UNCHANGED <<sent, flight, buffer, state, request, handled>>
    BY <1>6 DEF ParseStops, RefuseBadRequest, NothingYet, vars, clientVars
  <2> QED
    BY <2>1, QuietKeeps
<1> QED
  BY <1>1, <1>2, <1>3, <1>4, <1>5, <1>6 DEF Next, ServerStep

(* However the stream is cut into messages, the requests handed to the     *)
(* callback are those the client sent, in their order, each with its own   *)
(* method, version, target and headers, and none behind one with a bad     *)
(* line.  One with an unknown method or without a space in its line, which *)
(* processRequestLine lets pass, comes with its own headers and the method,*)
(* version and target of a new HttpRequest.                                *)
THEOREM RequestsHandledAsSent == Spec => []HandledAsSent
<1>1. ParserInv => HandledAsSent
  BY DEF ParserInv
<1> QED
  BY <1>1, ParserInit, ParserStep, PTL DEF Spec
==============================================================================
