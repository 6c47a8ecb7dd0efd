--------------------------- MODULE ParksRpcProofs ---------------------------
(***************************************************************************)
(* Theorems of ParksRpc, for any number of callers, parks and faults.       *)
(***************************************************************************)
EXTENDS ParksRpc, FiniteSetTheorems, TLAPS

LEMMA Lengths ==
    /\ MarkerLength \in Nat
    /\ \A r \in Result : ReplyLength(r) \in Nat /\ ReplyLength(r) <= 1 + MaxListed
<1>1. Cardinality(Parks) \in Nat /\ Cardinality(Parks) >= 1
  BY ParksAssumption, FS_CardinalityType, FS_EmptySet
<1> QED BY <1>1, ParksAssumption, RpcBoundsAssumption DEF MarkerLength, ReplyLength

LEMMA ResultsDiffer ==
    /\ NoResult \notin Result
    /\ \A q \in Call : AnswerTo(q) \in Result
<1>1. NoResult \notin Result
  BY DEF NoResult, Result, Found, NotFound, Listing
<1>2. ASSUME NEW q \in Call PROVE AnswerTo(q) \in Result
  BY ParksAssumption DEF Call, AnswerTo, Result
<1> QED BY <1>1, <1>2

(***************************************************************************)
(* Types                                                                    *)
(***************************************************************************)
LEMMA InitTyped == Init => TypeOK
  BY RpcBoundsAssumption DEF Init, TypeOK, Arrived, Static

LEMMA CallerTyped ==
    ASSUME TypeOK, NEW c \in Callers, Connect(c) \/ CallerStep(c)
    PROVE  TypeOK'
<1> USE DEF TypeOK, Goes, serverVars, faults
<1>1. CASE Connect(c)
  BY <1>1 DEF Connect, Arrived
<1>2. CASE WriteMarker(c) \/ WriteMessage(c) \/ WriteFails(c)
  BY <1>2 DEF WriteMarker, WriteMessage, WriteFails, Arrived
<1>3. CASE ReadSome(c)
  <2>1. Arrived(c) \in Nat
    BY Lengths DEF Arrived
  <2>2. Wanted(c) \in Nat
    BY <1>3, Lengths DEF Wanted, ReadSome, Arrived, ReplyLength
  <2>3. PICK n \in 1 .. Wanted(c) - got[c] :
            got[c] + n <= Arrived(c) /\ got' = [got EXCEPT ![c] = @ + n]
    BY <1>3 DEF ReadSome
  <2>4. got[c] + n \in Nat
    BY <2>2, <2>3
  <2> QED BY <1>3, <2>3, <2>4 DEF ReadSome, Arrived
<1>4. CASE ReadFails(c) \/ MarkerRead(c)
  BY <1>4 DEF ReadFails, MarkerRead, Arrived
<1>5. CASE Return(c)
  BY <1>5 DEF Return, Arrived
<1> QED BY <1>1, <1>2, <1>3, <1>4, <1>5 DEF CallerStep

\* Serve sends an answer, the one to the call.
LEMMA ServesAnswer ==
    ASSUME TypeOK, NEW c \in Callers, Serve(c)
    PROVE  /\ reply' = [reply EXCEPT ![c] = AnswerTo(call[c])]
           /\ static' \in Static
<1>1. call[c] \in Call
  BY DEF TypeOK
<1>2. CASE call[c].proc = "GETBYNAME"
  <2>1. static' = [static EXCEPT !.getbyname = GetByName(call[c].name)]
    BY <1>2 DEF Serve
  <2>2. GetByName(call[c].name) = AnswerTo(call[c]) /\ AnswerTo(call[c]) \in Result
    BY <1>1, <1>2, ResultsDiffer DEF GetByName, AnswerTo
  <2>3. static'.getbyname = AnswerTo(call[c]) /\ static' \in Static
    BY <2>1, <2>2 DEF TypeOK, Static
  <2> QED BY <1>2, <2>3 DEF Serve
<1>3. CASE call[c].proc = "FINDNEAREST"
  <2>1. static' = [static EXCEPT !.findnearest = Found(call[c].nearest)]
    BY <1>3 DEF Serve
  <2>2. Found(call[c].nearest) = AnswerTo(call[c]) /\ AnswerTo(call[c]) \in Result
    BY <1>1, <1>3, ResultsDiffer DEF AnswerTo
  <2>3. static'.findnearest = AnswerTo(call[c]) /\ static' \in Static
    BY <2>1, <2>2 DEF TypeOK, Static
  <2> QED BY <1>3, <2>3 DEF Serve
<1>4. CASE call[c].proc = "LISTALL"
  BY <1>4 DEF Serve, AnswerTo, TypeOK
<1> QED BY <1>1, <1>2, <1>3, <1>4 DEF Call

LEMMA ServerTyped ==
    ASSUME TypeOK, NEW c \in Callers, TurnTo(c) \/ Serve(c) \/ CallerGone(c) \/ GiveUp(c)
    PROVE  TypeOK'
<1> USE DEF TypeOK, faults
<1>1. CASE TurnTo(c)
  BY <1>1 DEF TurnTo, Arrived
<1>2. CASE Serve(c)
  <2>1. reply' = [reply EXCEPT ![c] = AnswerTo(call[c])] /\ static' \in Static
    BY <1>2, ServesAnswer
  <2>2. AnswerTo(call[c]) \in Result
    BY ResultsDiffer
  <2>3. reply[c] = NoResult /\ got[c] = 0
    BY <1>2 DEF Serve, Arrived
  <2>4. MarkerLength + ReplyLength(AnswerTo(call[c])) \in Nat
    BY <2>2, Lengths
  <2> QED BY <1>2, <2>1, <2>2, <2>3, <2>4, ResultsDiffer DEF Serve, Arrived
<1>3. CASE CallerGone(c) \/ GiveUp(c)
  BY <1>3 DEF CallerGone, GiveUp, Arrived
<1> QED BY <1>1, <1>2, <1>3

LEMMA StepTyped == TypeOK /\ [Next]_vars => TypeOK'
<1> SUFFICES ASSUME TypeOK, [Next]_vars PROVE TypeOK'
  OBVIOUS
<1>1. ASSUME NEW c \in Callers, Connect(c) \/ CallerStep(c) PROVE TypeOK'
  BY <1>1, CallerTyped
<1>2. CASE ServerStep
  BY <1>2, ServerTyped DEF ServerStep
<1> USE DEF TypeOK, serverVars, Arrived
<1>3. ASSUME NEW c \in Callers, Stop(c) \/ Resume(c) PROVE TypeOK'
  <2>1. Stop(c) => stops' \in 0 .. MaxStops
    BY RpcBoundsAssumption DEF Stop
  <2> QED BY <1>3, <2>1 DEF Stop, Resume
<1>4. ASSUME NEW c \in Callers, Kill(c) PROVE TypeOK'
  <2>1. kills' \in 0 .. MaxKills
    BY <1>4, RpcBoundsAssumption DEF Kill
  <2> QED BY <1>4, <2>1 DEF Kill
<1>5. CASE ServerDies
  BY <1>5 DEF ServerDies, faults
<1>6. CASE UNCHANGED vars
  BY <1>6 DEF vars
<1> QED BY <1>1, <1>2, <1>3, <1>4, <1>5, <1>6 DEF Next

\* The state of the calls and of the server stays typed; nobody reads more of a
\* reply than was sent.
THEOREM RpcTypes == Spec => []TypeOK
  BY InitTyped, StepTyped, PTL DEF Spec

(***************************************************************************)
(* OwnAnswer and FailsAlone                                                 *)
(***************************************************************************)

\* What was sent to c answers c; who is past the marker was sent something.
Answered(c) ==
    /\ reply[c] \in {NoResult, AnswerTo(call[c])}
    /\ pc[c] = "fragment" => reply[c] # NoResult
    /\ pc[c] = "done" => result[c] = AnswerTo(call[c])

\* A connection closed on a caller that still uses it says why.
ClosedForReason(c) ==
    /\ conn[c] = "closed" => Ended(c) \/ server = "dead" \/ c \in dropped
    /\ pc[c] = "failed" => server = "dead" \/ c \in dropped \/ SendBuffer < 1 + MaxListed

CallInv == TypeOK /\ \A c \in Callers : Answered(c) /\ ClosedForReason(c)

\* The step of one caller, seen from that caller.
LEMMA OwnStep ==
    ASSUME TypeOK, NEW c \in Callers, Answered(c), ClosedForReason(c),
           Connect(c) \/ CallerStep(c)
    PROVE  Answered(c)' /\ ClosedForReason(c)'
<1> USE DEF TypeOK, Goes, serverVars, faults, Answered, ClosedForReason, Ended
<1>1. CASE Connect(c)
  BY <1>1 DEF Connect
<1>2. CASE WriteMarker(c) \/ WriteMessage(c) \/ WriteFails(c)
  BY <1>2 DEF WriteMarker, WriteMessage, WriteFails
<1>3. CASE ReadSome(c)
  BY <1>3 DEF ReadSome
<1>4. CASE ReadFails(c)
  BY <1>4 DEF ReadFails, ReadEnds
<1>5. CASE MarkerRead(c)
  <2>1. got[c] = MarkerLength
    BY <1>5 DEF MarkerRead, ReadWhole, Wanted
  <2>2. reply[c] # NoResult
    BY <2>1 DEF Arrived, MarkerLength
  <2>3. reply[c] \in Result
    BY <2>2
  <2>4. ReplyLength(reply[c]) \in Nat /\ ReplyLength(reply[c]) <= 1 + MaxListed
    BY <2>3, Lengths
  <2>5. CASE ReplyLength(reply[c]) <= SendBuffer
    BY <1>5, <2>2, <2>5 DEF MarkerRead
  <2>6. CASE ~(ReplyLength(reply[c]) <= SendBuffer)
    <3>1. SendBuffer < 1 + MaxListed
      BY <2>4, <2>6, RpcBoundsAssumption
    <3> QED BY <1>5, <2>6, <3>1 DEF MarkerRead
  <2> QED BY <2>5, <2>6
<1>6. CASE Return(c)
  BY <1>6 DEF Return
<1> QED BY <1>1, <1>2, <1>3, <1>4, <1>5, <1>6 DEF CallerStep

\* The step of another caller changes nothing of d.
LEMMA OthersStep ==
    ASSUME TypeOK, NEW c \in Callers, Connect(c) \/ CallerStep(c), NEW d \in Callers, c # d
    PROVE  /\ pc'[d] = pc[d] /\ result'[d] = result[d] /\ conn'[d] = conn[d]
           /\ UNCHANGED <<call, reply, server, dropped>>
<1> USE DEF TypeOK, Goes, serverVars
<1>1. CASE Connect(c)
  BY <1>1 DEF Connect
<1>2. CASE WriteMarker(c) \/ WriteMessage(c) \/ WriteFails(c) \/ ReadSome(c)
  BY <1>2 DEF WriteMarker, WriteMessage, WriteFails, ReadSome
<1>3. CASE ReadFails(c) \/ MarkerRead(c) \/ Return(c)
  BY <1>3 DEF ReadFails, MarkerRead, Return
<1> QED BY <1>1, <1>2, <1>3 DEF CallerStep

LEMMA CallsStep == ASSUME CallInv, [Next]_vars PROVE CallInv'
<1>1. TypeOK'
  BY StepTyped DEF CallInv
<1> SUFFICES ASSUME NEW d \in Callers PROVE Answered(d)' /\ ClosedForReason(d)'
  BY <1>1 DEF CallInv
<1>2. TypeOK /\ Answered(d) /\ ClosedForReason(d)
  BY DEF CallInv
<1>3. ASSUME NEW c \in Callers, Connect(c) \/ CallerStep(c)
      PROVE  Answered(d)' /\ ClosedForReason(d)'
  <2>1. CASE c = d
    BY <1>2, <1>3, <2>1, OwnStep
  <2>2. CASE c # d
    <3>1. /\ pc'[d] = pc[d] /\ result'[d] = result[d] /\ conn'[d] = conn[d]
          /\ UNCHANGED <<call, reply, server, dropped>>
      BY <1>2, <1>3, <2>2, OthersStep
    <3> QED BY <1>2, <3>1 DEF Answered, ClosedForReason, Ended, AnswerTo
  <2> QED BY <2>1, <2>2
<1> USE <1>2, NobodyAssumption DEF TypeOK, serverVars, faults, Answered, ClosedForReason, Ended
<1>4. ASSUME NEW c \in Callers, Serve(c)
      PROVE  Answered(d)' /\ ClosedForReason(d)'
  <2>1. reply' = [reply EXCEPT ![c] = AnswerTo(call[c])]
    BY <1>4, ServesAnswer
  <2>2. AnswerTo(call[c]) # NoResult
    BY ResultsDiffer
  <2>3. server = c /\ UNCHANGED <<call, pc, result, conn, dropped>>
    BY <1>4 DEF Serve
  <2> QED BY <2>1, <2>2, <2>3
<1>5. ASSUME NEW c \in Callers, TurnTo(c) \/ CallerGone(c) \/ GiveUp(c)
      PROVE  Answered(d)' /\ ClosedForReason(d)'
  BY <1>5 DEF TurnTo, CallerGone, GiveUp
<1>6. ASSUME NEW c \in Callers, Stop(c) \/ Resume(c) \/ Kill(c)
      PROVE  Answered(d)' /\ ClosedForReason(d)'
  BY <1>6 DEF Stop, Resume, Kill
<1>7. CASE ServerDies
  BY <1>7 DEF ServerDies
<1>8. CASE UNCHANGED vars
  BY <1>8 DEF vars
<1> QED BY <1>3, <1>4, <1>5, <1>6, <1>7, <1>8 DEF Next, ServerStep

LEMMA CallsHold == Spec => []CallInv
<1>1. Init => CallInv
  BY InitTyped DEF Init, CallInv, Answered, ClosedForReason
<1>2. CallInv /\ [Next]_vars => CallInv'
  BY CallsStep
<1> QED BY <1>1, <1>2, PTL DEF Spec

\* Every call that returns returns the answer to itself, in whatever pieces it
\* came and whatever calls the static results served before: CallAsync,
\* ReadExactAsync, parks_proc.c.
THEOREM AnswersOwnCall == Spec => []OwnAnswer
<1>1. CallInv => OwnAnswer
  BY DEF CallInv, Answered, OwnAnswer
<1> QED BY <1>1, CallsHold, PTL

\* Where the longest list fits one fragment, a call fails only if the server
\* died or gave up on this very caller.
THEOREM FailsForReason == Spec => []FailsAlone
<1>1. CallInv => FailsAlone
  <2>1. ~(SendBuffer < 1 + MaxListed) \/ ~(1 + MaxListed <= SendBuffer)
    BY RpcBoundsAssumption
  <2> QED BY <2>1 DEF CallInv, ClosedForReason, FailsAlone
<1> QED BY <1>1, CallsHold, PTL
=============================================================================
