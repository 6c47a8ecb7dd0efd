---------------------------- MODULE HttpRequest ----------------------------
(***************************************************************************)
(* One connection to WeatherSoapServer or AstroTransitServer that carries a *)
(* request: how the server reads it, whatever the segments it comes in, and *)
(* which answer it picks.                                                   *)
(*                                                                          *)
(* A request is a number of header bytes, of which the last ends the blank  *)
(* line, and a number of body bytes; bytes are counted, not spelled out.    *)
(* The server reads into one buffer until it has the header and, if it is   *)
(* the weather server, the body that Content-Length announces.  How         *)
(* connections follow each other is ServiceLaunch.                          *)
(***************************************************************************)
EXTENDS Naturals

CONSTANTS
    MaxRequest,  \* the buffer of read_http_request (65536 bytes in the code)
    Requests     \* the requests clients send

(***************************************************************************)
(* A request.  city is where the closing tag of the city ends in the body,  *)
(* 0 if there is none or it is empty; declared says that Content-Length     *)
(* gives the length of the body.  Kinds beyond the method are what the      *)
(* handlers tell apart.                                                     *)
(***************************************************************************)
WeatherKinds == {"POST", "GET wsdl", "other"}
AstroKinds == {"GET transit", "GET bad number", "GET no number", "GET no such name", "other"}

Shape == [header : Nat \ {0}, body : Nat, city : Nat, declared : BOOLEAN]

Request ==
    {r \in [to : {"weather", "astro"}, kind : WeatherKinds \cup AstroKinds, shape : Shape] :
        /\ r.kind \in IF r.to = "weather" THEN WeatherKinds ELSE AstroKinds
        /\ r.shape.city <= r.shape.body}

ASSUME RequestsAssumption == Requests \subseteq Request
ASSUME BufferAssumption == MaxRequest \in Nat \ {0}

Total(r) == r.shape.header + r.shape.body

\* The last byte of the buffer is for the NUL.
Room == MaxRequest - 1

(***************************************************************************)
(* The answers: dispatch in main() and the handlers, given the n bytes      *)
(* read.  The city counts only with its closing tag.                        *)
(***************************************************************************)
CityRead(r, n) == r.shape.city > 0 /\ r.shape.header + r.shape.city <= n

WeatherAnswers(r, n) ==
    CASE r.kind = "POST"     -> IF CityRead(r, n) THEN {"200 weather"} ELSE {"500 fault"}
      [] r.kind = "GET wsdl" -> {"200 wsdl", "500 no wsdl file"}
      [] OTHER               -> {"404"}

\* handle_transit checks latitude and longitude before the name.
AstroAnswers(r) ==
    CASE r.kind = "GET transit"                            -> {"200 transit"}
      [] r.kind \in {"GET no number", "GET bad number"}    -> {"400"}
      [] OTHER                                             -> {"404"}

Answers(r, n) == IF r.to = "weather" THEN WeatherAnswers(r, n) ELSE AstroAnswers(r)

Statuses == {"200 weather", "500 fault", "200 wsdl", "500 no wsdl file",
             "200 transit", "400", "404"}
NoReply == "no reply"

VARIABLES
    request,  \* what the client sends; never changes
    client,   \* where the client is
    sent,     \* bytes the client has written
    len,      \* bytes the server has read
    stage,    \* where the server is in read_http_request and main()
    reply     \* what it has answered

vars == <<request, client, sent, len, stage, reply>>

TypeOK ==
    /\ request \in Requests
    /\ client \in {"sending", "waiting", "answered", "failed", "gone"}
    /\ sent \in 0 .. Total(request)
    /\ len \in 0 .. sent /\ len <= Room
    /\ stage \in {"header", "body", "closed"}
    /\ reply \in Statuses \cup {NoReply}

Init ==
    /\ request \in Requests
    /\ client = "sending"
    /\ sent = 0 /\ len = 0
    /\ stage = "header"
    /\ reply = NoReply

(***************************************************************************)
(* The client: HttpClient, for the weather server below WeatherSoapClient.  *)
(***************************************************************************)
There == client \in {"sending", "waiting"}

Write ==
    /\ client = "sending"
    /\ \E n \in 1 .. Total(request) - sent : sent' = sent + n
    /\ client' = IF sent' = Total(request) THEN "waiting" ELSE "sending"
    /\ UNCHANGED <<request, len, stage, reply>>

\* It runs out of time or is killed; what it has written stays readable.
Leave ==
    /\ There
    /\ client' = "gone"
    /\ UNCHANGED <<request, sent, len, stage, reply>>

\* The reply comes before the end of the connection.  If the server closed
\* with bytes unread, or the client still writes, the reset may overtake it.
Receive ==
    /\ There
    /\ stage = "closed"
    /\ \/ reply # NoReply /\ client' = "answered"
       \/ (reply = NoReply \/ len < Total(request)) /\ client' = "failed"
    /\ UNCHANGED <<request, sent, len, stage, reply>>

(***************************************************************************)
(* The server                                                               *)
(***************************************************************************)

\* Mutant of Take: read() may fill the last byte of the buffer, too.
TakeOneMore(n) == len + n <= MaxRequest /\ len' = len + n

\* read() returns what has come, some of it, as much as there is room for.
Take(n) == len + n <= Room /\ len' = len + n

\* Mutant of HeaderIn: the blank line is looked for in what was read last.
HeaderInOnePiece(n) == request.shape.header <= len + n /\ len + 4 <= request.shape.header

HeaderIn(n) == request.shape.header <= len + n

\* End of file: the client is gone and everything it wrote has been read.
AtEnd == client = "gone" /\ len = sent

ReadHeader ==
    /\ stage = "header"
    /\ \E n \in 1 .. sent - len :
          /\ Take(n)
          /\ stage' = IF HeaderIn(n) THEN "body" ELSE "header"
    /\ UNCHANGED <<request, client, sent, reply>>

\* The buffer is full without a blank line, or nothing more comes.
NoHeader ==
    /\ stage = "header"
    /\ len = Room \/ AtEnd
    /\ stage' = "closed"
    /\ UNCHANGED <<request, client, sent, len, reply>>

\* Mutant of BodyMissing: nobody waits for the rest of the body.
BodyNeverMissing == FALSE

\* Without Content-Length the weather server takes the body for empty; the
\* astro server does not read one.
BodyMissing ==
    /\ request.to = "weather"
    /\ request.shape.declared
    /\ len - request.shape.header < request.shape.body

ReadBody ==
    /\ stage = "body"
    /\ BodyMissing
    /\ \E n \in 1 .. sent - len : Take(n)
    /\ UNCHANGED <<request, client, sent, stage, reply>>

\* The loop ends with the whole body, a full buffer or the end of file, and
\* main() cannot tell which; it answers, closes and accepts again.
Answer ==
    /\ stage = "body"
    /\ ~BodyMissing \/ len = Room \/ AtEnd
    /\ reply' \in Answers(request, len)
    /\ stage' = "closed"
    /\ UNCHANGED <<request, client, sent, len>>

ServerStep == ReadHeader \/ NoHeader \/ ReadBody \/ Answer

Next == Write \/ Leave \/ Receive \/ ServerStep

Spec == Init /\ [][Next]_vars

\* The client goes on sending and reads its answer, the server reads what
\* there is to read; nobody has to give up.
Fairness == WF_vars(Write) /\ WF_vars(Receive) /\ WF_vars(ServerStep)

FairSpec == Spec /\ Fairness

(***************************************************************************)
(* Properties                                                               *)
(***************************************************************************)

\* What the servers can read whole: it fits the buffer and, if it has a body,
\* comes with its length, as HttpClient sends it.
Readable(r) == Total(r) <= Room /\ (r.shape.body > 0 => r.to = "weather" /\ r.shape.declared)

\* However the bytes of such a request are cut into segments and whenever they
\* come, the client gets the answer to the whole of it, unless it leaves first
\* (read_http_request, the dispatch and extract_element).
WholeAnswer ==
    Readable(request) =>
        /\ client = "answered" => reply \in Answers(request, Total(request))
        /\ client # "failed"

\* Nobody is left waiting: the server never waits for bytes that nobody will
\* send, and every client that stays hears the answer or the reset.
EveryoneHears == There ~> ~There
=============================================================================
