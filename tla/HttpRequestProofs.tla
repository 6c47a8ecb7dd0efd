------------------------- MODULE HttpRequestProofs -------------------------
(***************************************************************************)
(* Theorems of HttpRequest, for requests and buffers of any size.           *)
(***************************************************************************)
EXTENDS HttpRequest, TLAPS

LEMMA Sizes ==
    ASSUME NEW r \in Requests
    PROVE  /\ Total(r) \in Nat /\ Room \in Nat
           /\ r.shape.header \in Nat \ {0} /\ r.shape.body \in Nat /\ r.shape.city \in Nat
           /\ r.shape.declared \in BOOLEAN
<1>1. r.shape \in Shape
  BY RequestsAssumption DEF Request
<1> QED BY <1>1, BufferAssumption DEF Shape, Total, Room

LEMMA AnswersAreStatuses ==
    ASSUME NEW r, NEW n
    PROVE  Answers(r, n) \subseteq Statuses
  BY DEF Answers, WeatherAnswers, AstroAnswers, Statuses

LEMMA NoReplyIsNoAnswer == NoReply \notin Statuses
  BY DEF NoReply, Statuses

(***************************************************************************)
(* Types: in particular the server stays inside its buffer.                 *)
(***************************************************************************)
LEMMA InitTyped == Init => TypeOK
  BY Sizes DEF Init, TypeOK

LEMMA StepTyped == TypeOK /\ [Next]_vars => TypeOK'
<1> SUFFICES ASSUME TypeOK, [Next]_vars PROVE TypeOK'
  OBVIOUS
<1> USE DEF TypeOK
<1>1. Total(request) \in Nat /\ Room \in Nat
  BY Sizes
<1>2. CASE Write
  <2>1. sent' \in 0 .. Total(request) /\ sent <= sent'
    BY <1>1, <1>2 DEF Write
  <2> QED BY <1>1, <1>2, <2>1 DEF Write
<1>3. CASE Leave \/ Receive
  BY <1>3 DEF Leave, Receive
<1>4. CASE ReadHeader \/ ReadBody
  <2>1. len' \in 0 .. sent /\ len' <= Room
    BY <1>1, <1>4 DEF ReadHeader, ReadBody, Take
  <2> QED BY <1>4, <2>1 DEF ReadHeader, ReadBody
<1>5. CASE NoHeader
  BY <1>5 DEF NoHeader
<1>6. CASE Answer
  BY <1>6, AnswersAreStatuses DEF Answer
<1>7. CASE UNCHANGED vars
  BY <1>7 DEF vars
<1> QED BY <1>2, <1>3, <1>4, <1>5, <1>6, <1>7 DEF Next, ServerStep

\* The server never reads past its buffer, nor more than was sent:
\* read_http_request of both servers.
THEOREM RequestTypes == Spec => []TypeOK
  BY InitTyped, StepTyped, PTL DEF Spec

(***************************************************************************)
(* WholeAnswer.  The stage tells whether the header is in the buffer; when  *)
(* the server has closed on a client that is still there, it had read all.  *)
(***************************************************************************)
StageTells ==
    /\ stage = "header" => len < request.shape.header
    /\ stage = "body" => request.shape.header <= len

ClosedKnowing ==
    /\ stage = "closed" /\ client # "gone" =>
          len = Total(request) /\ reply \in Answers(request, Total(request))
    /\ client \in {"answered", "failed"} => stage = "closed"
    /\ client # "failed"

WholeInv == TypeOK /\ StageTells /\ (Readable(request) => ClosedKnowing)

LEMMA StageStep == ASSUME TypeOK, StageTells, [Next]_vars PROVE StageTells'
<1> USE DEF TypeOK, StageTells
<1>1. request.shape.header \in Nat \ {0}
  BY Sizes
<1>2. CASE ReadHeader
  BY <1>1, <1>2 DEF ReadHeader, Take, HeaderIn
<1>3. CASE ReadBody
  BY <1>1, <1>3 DEF ReadBody, Take
<1>4. CASE NoHeader \/ Answer
  BY <1>4 DEF NoHeader, Answer
<1>5. CASE Write \/ Leave \/ Receive \/ UNCHANGED vars
  BY <1>5 DEF Write, Leave, Receive, vars
<1> QED BY <1>2, <1>3, <1>4, <1>5 DEF Next, ServerStep

\* A readable request is answered when all of it has been read, and not before.
LEMMA AnswersWhole ==
    ASSUME TypeOK, StageTells, Readable(request), client # "gone", NoHeader \/ Answer
    PROVE  len = Total(request) /\ reply' \in Answers(request, Total(request))
<1> USE DEF TypeOK, StageTells
<1>1. /\ request.shape.header \in Nat \ {0} /\ request.shape.body \in Nat
      /\ Total(request) = request.shape.header + request.shape.body
      /\ Total(request) <= Room /\ Room \in Nat
  BY Sizes DEF Readable, Total
<1>2. len <= Total(request)
  BY <1>1
<1>3. ~AtEnd
  BY DEF AtEnd
<1>4. ~NoHeader
  BY <1>1, <1>2, <1>3 DEF NoHeader
<1>5. len = Total(request)
  <2>1. CASE len = Room
    BY <2>1, <1>1, <1>2
  <2>2. CASE ~BodyMissing
    BY <2>2, <1>1, <1>2, <1>4 DEF Answer, BodyMissing, Readable
  <2> QED BY <1>3, <1>4, <2>1, <2>2 DEF Answer
<1> QED BY <1>4, <1>5 DEF Answer

LEMMA ClosedStep ==
    ASSUME TypeOK, StageTells, Readable(request), ClosedKnowing, [Next]_vars
    PROVE  ClosedKnowing'
<1> USE DEF ClosedKnowing
<1>1. CASE Write
  BY <1>1 DEF Write, TypeOK
<1>2. CASE Leave
  BY <1>2 DEF Leave
<1>3. CASE Receive
  <2>1. len = Total(request) /\ reply # NoReply
    BY <1>3, AnswersAreStatuses, NoReplyIsNoAnswer DEF Receive, There
  <2>2. Total(request) \in Nat
    BY Sizes DEF TypeOK
  <2> QED BY <1>3, <2>1, <2>2 DEF Receive, There
<1>4. CASE ReadHeader \/ ReadBody
  BY <1>4 DEF ReadHeader, ReadBody
<1>5. CASE NoHeader \/ Answer
  <2>1. CASE client = "gone"
    BY <1>5, <2>1 DEF NoHeader, Answer
  <2>2. CASE client # "gone"
    BY <1>5, <2>2, AnswersWhole DEF NoHeader, Answer
  <2> QED BY <2>1, <2>2
<1>6. CASE UNCHANGED vars
  BY <1>6 DEF vars
<1> QED BY <1>1, <1>2, <1>3, <1>4, <1>5, <1>6 DEF Next, ServerStep

\* Whatever the sizes of request, segments and buffer, a client that stays gets
\* the answer to the whole of a request the server can read: read_http_request
\* and the dispatch of both servers.
THEOREM AnswerToTheWhole == Spec => []WholeAnswer
<1>1. Init => WholeInv
  BY InitTyped, Sizes DEF Init, WholeInv, StageTells, ClosedKnowing
<1>2. WholeInv /\ [Next]_vars => WholeInv'
  <2> SUFFICES ASSUME WholeInv, [Next]_vars PROVE WholeInv'
    OBVIOUS
  <2>1. request' = request
    BY DEF Next, Write, Leave, Receive, ServerStep, ReadHeader, NoHeader, ReadBody, Answer, vars
  <2> QED BY <2>1, StepTyped, StageStep, ClosedStep DEF WholeInv, Readable, Total
<1>3. WholeInv => WholeAnswer
  BY DEF WholeInv, ClosedKnowing, WholeAnswer
<1> QED BY <1>1, <1>2, <1>3, PTL DEF Spec
=============================================================================
