-------------------------- MODULE DialupLineProofs --------------------------
(***************************************************************************)
(* What is proved of the dial-up line for every set of callers.             *)
(*                                                                          *)
(* Charges, receipts and the refinement of the charge desk hold for every   *)
(* number of terminals and every fault.  Whose answer a caller is given     *)
(* depends on the calls coming one at a time (Terminals = 1), and that it   *)
(* gets one also on nothing passing its deadline before it must and on a    *)
(* living server; each theorem says what it needs.                          *)
(***************************************************************************)
EXTENDS DialupLine, SequenceTheorems, FiniteSetTheorems, WellFoundedInduction, TLAPS

(***************************************************************************)
(* Streams                                                                  *)
(***************************************************************************)

\* A non-empty set of natural numbers has a least element.
LEMMA LeastElement ==
    ASSUME NEW T, T \subseteq Nat, T # {}
    PROVE  \E x \in T : \A y \in T : ~(y < x)
<1>1. PICK x \in T : \A y \in T : <<y, x>> \notin OpToRel(<, Nat)
  BY NatLessThanWellFounded, WFMin
<1>2. ASSUME NEW y \in T, y < x PROVE FALSE
  <2>1. <<y, x>> \in Nat \X Nat /\ <<y, x>>[1] < <<y, x>>[2]
    BY <1>2
  <2>2. <<y, x>> \in OpToRel(<, Nat)
    BY <2>1, Zenon DEF OpToRel
  <2> QED BY <1>1, <2>2
<1> QED BY <1>2

\* bufio_read_until finds the terminator whenever there is one.
LEMMA FirstEndInDomain ==
    ASSUME NEW S, NEW s \in Seq(S), NEW kinds, Holds(s, kinds)
    PROVE  /\ FirstEnd(s, kinds) \in 1 .. Len(s)
           /\ s[FirstEnd(s, kinds)].kind \in kinds
<1> DEFINE T == {i \in 1 .. Len(s) : s[i].kind \in kinds}
<1>1. DOMAIN s = 1 .. Len(s) /\ Len(s) \in Nat
  BY LenProperties
<1>2. T \subseteq Nat /\ T # {}
  BY <1>1 DEF Holds
<1>3. PICK x \in T : \A y \in T : ~(y < x)
  BY <1>2, LeastElement
<1>4. \E i \in DOMAIN s : /\ s[i].kind \in kinds
                          /\ \A j \in DOMAIN s : j < i => s[j].kind \notin kinds
  BY <1>1, <1>3
<1> QED BY <1>1, <1>4, Zenon DEF FirstEnd

\* What bufio_read_until leaves behind is a proper suffix of what it had.
LEMMA AfterIsSuffix ==
    ASSUME NEW S, NEW s \in Seq(S), NEW kinds, Holds(s, kinds)
    PROVE  /\ After(s, kinds) \in Seq(S)
           /\ \E n \in 1 .. Len(s) :
                 /\ Len(After(s, kinds)) = Len(s) - n
                 /\ \A i \in 1 .. Len(After(s, kinds)) : After(s, kinds)[i] = s[n + i]
<1> DEFINE n == FirstEnd(s, kinds)
<1>1. n \in 1 .. Len(s) /\ Len(s) \in Nat
  BY FirstEndInDomain, LenProperties
<1>2. \A i \in (n + 1) .. Len(s) : s[i] \in S
  BY <1>1, ElementOfSeq
<1>3. /\ SubSeq(s, n + 1, Len(s)) \in Seq(S)
      /\ Len(SubSeq(s, n + 1, Len(s))) = IF n + 1 <= Len(s) THEN Len(s) - (n + 1) + 1 ELSE 0
      /\ \A i \in 1 .. Len(s) - (n + 1) + 1 : SubSeq(s, n + 1, Len(s))[i] = s[n + 1 + i - 1]
  BY <1>1, <1>2, SubSeqProperties
<1>4. /\ Len(SubSeq(s, n + 1, Len(s))) = Len(s) - n
      /\ \A i \in 1 .. Len(s) - n : SubSeq(s, n + 1, Len(s))[i] = s[n + i]
  BY <1>1, <1>3
<1> QED BY <1>1, <1>3, <1>4 DEF After

(***************************************************************************)
(* Type correctness                                                         *)
(***************************************************************************)
LEMMA ChunkTypes ==
    /\ \A k \in Controls : Control(k) \in UpChunk
    /\ \A c \in Callers : Request(c) \in UpChunk
    /\ \A k \in Replies : Reply(k) \in DownChunk
    /\ \A c \in Callers, v \in Verdicts : Response(c, v) \in DownChunk
    /\ \A a \in Cards : Authorise(a) \in Verdicts
BY DEF Control, Request, Reply, Response, UpChunk, DownChunk, Authorise, Verdicts, Cards

LEMMA InitTyped == Init => TypeOK
<1> SUFFICES ASSUME Init PROVE TypeOK
  OBVIOUS
<1>1. <<>> \in Seq(UpChunk) /\ <<>> \in Seq(DownChunk)
  BY EmptySeq
<1> QED BY <1>1, PresentedAssumption DEF Init, TypeOK, ServerReads, Outcomes

\* The kind of a chunk tells what else it holds.
LEMMA UpChunkShape ==
    ASSUME NEW h \in UpChunk
    PROVE  /\ h.kind = "REQUEST" => h.from \in Callers /\ h = Request(h.from)
           /\ h.kind # "REQUEST" => h \in [kind : Controls, intact : BOOLEAN]
<1>1. CASE h \in [kind : {"REQUEST"}, from : Callers]
  <2>1. h = [kind |-> h.kind, from |-> h.from]
    BY <1>1
  <2> QED BY <1>1, <2>1 DEF Request
<1>2. CASE h \in [kind : Controls, intact : BOOLEAN]
  BY <1>2 DEF Controls, Commands
<1> QED BY <1>1, <1>2 DEF UpChunk

\* What the helpers shared by several actions do to the types.
LEMMA SendTyped ==
    ASSUME TypeOK, NEW ch \in UpChunk, Send(ch)
    PROVE  up' \in Seq(UpChunk)
BY AppendProperties DEF TypeOK, Send

LEMMA GotLineTyped ==
    ASSUME TypeOK, NEW c \in Callers, ClientHas(c), pc[c] \in {"zreply", "dreply"}, GotLine(c)
    PROVE  cbuf' \in [Callers -> Seq(DownChunk)]
<1>1. ClientReads[pc[c]] = Replies
  BY DEF ClientReads
<1>2. After(cbuf[c], Replies) \in Seq(DownChunk)
  BY <1>1, AfterIsSuffix DEF TypeOK, ClientHas
<1> QED BY <1>2 DEF GotLine, TypeOK

LEMMA FinishTyped ==
    ASSUME TypeOK, NEW c \in Callers, NEW o \in Outcomes, Finish(c, o)
    PROVE  /\ pc' \in [Callers -> {"idle", "pause", "closed"} \cup DOMAIN ClientReads]
           /\ outcome' \in [Callers -> Outcomes \cup {"none"}]
           /\ cbuf' \in [Callers -> Seq(DownChunk)]
<1>1. <<>> \in Seq(DownChunk)
  BY EmptySeq
<1> QED BY <1>1 DEF Finish, TypeOK

LEMMA ClientTyped ==
    ASSUME TypeOK, NEW c \in Callers, ClientStep(c)
    PROVE  TypeOK'
<1> USE DEF TypeOK
<1>r. DOMAIN ClientReads = {"zreply", "dreply", "rframe", "hreply"}
  BY DEF ClientReads
<1>1. CASE ClientFill(c)
  <2>1. cbuf[c] \o down \in Seq(DownChunk) /\ <<>> \in Seq(DownChunk)
    BY ConcatProperties, EmptySeq
  <2> QED BY <1>1, <2>1 DEF ClientFill
<1>2. CASE Dial(c)
  <2>1. up' \in Seq(UpChunk)
    BY <1>2, SendTyped, ChunkTypes DEF Dial, Controls, Commands
  <2>2. cbuf' \in [Callers -> Seq(DownChunk)]
    BY <1>2, GotLineTyped DEF Dial, GotLine
  <2> QED BY <1>2, <1>r, <2>1, <2>2 DEF Dial
<1>3. CASE SendRequest(c)
  <2>1. up' \in Seq(UpChunk)
    BY <1>3, SendTyped, ChunkTypes DEF SendRequest
  <2>2. cbuf' \in [Callers -> Seq(DownChunk)]
    BY <1>3, GotLineTyped DEF SendRequest, GotLine
  <2> QED BY <1>3, <1>r, <2>1, <2>2 DEF SendRequest
<1>4. CASE SendFails(c)
  <2>1. cbuf' \in [Callers -> Seq(DownChunk)]
    BY <1>4, GotLineTyped DEF SendFails, GotLine
  <2> QED BY <1>4, <1>r, <2>1 DEF SendFails, line
<1>5. CASE NotConnected(c)
  BY <1>5, FinishTyped DEF NotConnected, line, Outcomes
<1>6. CASE TakeFrame(c)
  <2>1. up' \in Seq(UpChunk)
    BY <1>6, SendTyped, ChunkTypes DEF TakeFrame, Controls
  <2>2. Head(cbuf[c]) \in DownChunk /\ Tail(cbuf[c]) \in Seq(DownChunk)
    BY <1>6, HeadTailProperties DEF TakeFrame
  <2> QED BY <1>6, <1>r, <2>1, <2>2 DEF TakeFrame
<1>7. CASE LineNoise(c)
  <2>1. up' \in Seq(UpChunk)
    BY <1>7, SendTyped, ChunkTypes DEF LineNoise, Controls
  <2> QED BY <1>7, <1>r, <2>1 DEF LineNoise
<1>8. CASE HangUp(c)
  <2>1. up' \in Seq(UpChunk)
    BY <1>8, SendTyped, ChunkTypes DEF HangUp, Controls, Commands
  <2> QED BY <1>8, <1>r, <2>1 DEF HangUp
<1>9. CASE Close(c)
  <2>1. ResultOf(resp[c]) \in Outcomes
    BY DEF ResultOf, Outcomes
  <2> QED BY <1>9, <2>1, FinishTyped DEF Close, line
<1> QED BY <1>1, <1>2, <1>3, <1>4, <1>5, <1>6, <1>7, <1>8, <1>9 DEF ClientStep

LEMMA ReadCommandTyped ==
    ASSUME TypeOK, NEW state \in {"command", "hangup"}, ReadCommand(state)
    PROVE  sbuf' \in Seq(UpChunk)
<1>1. Holds(sbuf, Commands)
  BY DEF ReadCommand, ServerHas, ServerReads
<1> QED BY <1>1, AfterIsSuffix DEF ReadCommand, TypeOK

LEMMA ServerTyped ==
    ASSUME TypeOK, ServerStep
    PROVE  TypeOK'
<1> USE DEF TypeOK
<1>r. DOMAIN ServerReads = {"command", "frame", "escape", "hangup"}
  BY DEF ServerReads
<1>k. \A k \in Replies : Append(down, Reply(k)) \in Seq(DownChunk)
  BY AppendProperties, ChunkTypes
<1>1. CASE ServerFill
  <2>1. sbuf \o up \in Seq(UpChunk) /\ <<>> \in Seq(UpChunk)
    BY ConcatProperties, EmptySeq
  <2> QED BY <1>1, <2>1 DEF ServerFill, client
<1>2. CASE ServerOK
  <2>1. sbuf' \in Seq(UpChunk)
    BY <1>2, ReadCommandTyped DEF ServerOK
  <2>2. down' \in Seq(DownChunk)
    BY <1>2, <1>k DEF ServerOK, Replies
  <2> QED BY <1>2, <2>1, <2>2 DEF ServerOK, ReadCommand, client
<1>3. CASE ServerConnect
  <2>1. sbuf' \in Seq(UpChunk)
    BY <1>3, ReadCommandTyped DEF ServerConnect
  <2>2. down' \in Seq(DownChunk)
    BY <1>3, <1>k DEF ServerConnect, Replies
  <2> QED BY <1>3, <1>r, <2>1, <2>2 DEF ServerConnect, ReadCommand, client
<1>4. CASE ServerError
  <2>1. sbuf' \in Seq(UpChunk)
    BY <1>4, ReadCommandTyped DEF ServerError
  <2>2. down' \in Seq(DownChunk)
    BY <1>4, <1>k DEF ServerError, Replies
  <2> QED BY <1>4, <2>1, <2>2 DEF ServerError, ReadCommand, client
<1>5. CASE ServerAuthorise
  <2> DEFINE c == Head(sbuf).from
  <2>1. Head(sbuf) \in UpChunk /\ Tail(sbuf) \in Seq(UpChunk)
    BY <1>5, HeadTailProperties DEF ServerAuthorise
  <2>2. c \in Callers
    BY <1>5, <2>1 DEF ServerAuthorise, UpChunk, Controls, Commands
  <2>3. Append(down, Response(c, Authorise(card[c]))) \in Seq(DownChunk)
    BY <2>2, AppendProperties, ChunkTypes
  <2> QED BY <1>5, <1>r, <2>1, <2>2, <2>3 DEF ServerAuthorise, client
<1>6. CASE ServerNoise
  <2>1. Head(sbuf) \in UpChunk /\ Tail(sbuf) \in Seq(UpChunk)
    BY <1>6, HeadTailProperties DEF ServerNoise
  <2>2. [Head(sbuf) EXCEPT !.intact = FALSE] \in UpChunk
    BY <1>6, <2>1 DEF ServerNoise, UpChunk
  <2>3. sbuf' \in Seq(UpChunk)
    BY <1>6, <2>1, <2>2, ConcatProperties DEF ServerNoise
  <2> QED BY <1>6, <1>r, <2>3 DEF ServerNoise, client
<1>7. CASE ServerEscape
  <2>1. Holds(sbuf, {"+++"})
    BY <1>7 DEF ServerEscape, ServerHas, ServerReads
  <2>2. sbuf' \in Seq(UpChunk)
    BY <1>7, <2>1, AfterIsSuffix DEF ServerEscape
  <2> QED BY <1>7, <1>r, <2>2 DEF ServerEscape, client
<1>8. CASE ServerHangup
  <2>1. sbuf' \in Seq(UpChunk)
    BY <1>8, ReadCommandTyped DEF ServerHangup
  <2>2. down' \in Seq(DownChunk)
    BY <1>8, <1>k DEF ServerHangup, Replies
  <2> QED BY <1>8, <1>r, <2>1, <2>2 DEF ServerHangup, ReadCommand, client
<1>9. CASE ServerTimeout
  BY <1>9, <1>r DEF ServerTimeout, client
<1> QED BY <1>1, <1>2, <1>3, <1>4, <1>5, <1>6, <1>7, <1>8, <1>9 DEF ServerStep

LEMMA NextTyped == TypeOK /\ [Next]_vars => TypeOK'
<1> SUFFICES ASSUME TypeOK, [Next]_vars PROVE TypeOK'
  OBVIOUS
<1>1. CASE UNCHANGED vars
  BY <1>1 DEF vars, TypeOK
<1>2. ASSUME NEW c \in Callers, RejectLocally(c) PROVE TypeOK'
  BY <1>2, FinishTyped DEF RejectLocally, line, Outcomes, TypeOK
<1>3. ASSUME NEW c \in Callers, NoPort(c) PROVE TypeOK'
  BY <1>3, FinishTyped DEF NoPort, line, Outcomes, TypeOK
<1>4. ASSUME NEW c \in Callers, Open(c) PROVE TypeOK'
  <2>1. up' \in Seq(UpChunk)
    BY <1>4, SendTyped, ChunkTypes DEF Open, Controls, Commands
  <2>2. "zreply" \in DOMAIN ClientReads
    BY DEF ClientReads
  <2> QED BY <1>4, <2>1, <2>2 DEF Open, TypeOK
<1>5. ASSUME NEW c \in Callers, Kill(c) PROVE TypeOK'
  BY <1>5, FinishTyped DEF Kill, line, Outcomes, TypeOK
<1>6. CASE ServerDies
  <2>1. <<>> \in Seq(UpChunk) /\ <<>> \in Seq(DownChunk)
    BY EmptySeq
  <2> QED BY <1>6, <2>1 DEF ServerDies, client, TypeOK
<1> QED BY <1>1, <1>2, <1>3, <1>4, <1>5, <1>6, ClientTyped, ServerTyped DEF Next

\* Every variable stays in the set the comments of its declaration promise,
\* for any number of callers and any length of the queues.
THEOREM TypeCorrect == Spec => []TypeOK
<1>1. Init => TypeOK
  BY InitTyped
<1>2. TypeOK /\ [Next]_vars => TypeOK'
  BY NextTyped
<1> QED BY <1>1, <1>2, PTL DEF Spec

(***************************************************************************)
(* Requests.  Neither AtMostOneCharge nor SafeToRetry is inductive: they    *)
(* need to know where on the line a request can still be.  A request is in  *)
(* at most one place, only while its caller has not been charged, and not   *)
(* before the caller got its CONNECT nor after a NO CARRIER.                *)
(***************************************************************************)
In(s, e) == \E i \in DOMAIN s : s[i] = e
Once(s, e) == \A i, j \in DOMAIN s : s[i] = e /\ s[j] = e => i = j

OutcomeAtClose(c) == pc[c] # "closed" => outcome[c] = "none"

NoRequestYet(c) ==
    pc[c] \in {"idle", "zreply", "dreply"} \/ outcome[c] \in {"NoCarrier", "RejectedLocally"} =>
        charged[c] = 0 /\ ~In(up, Request(c)) /\ ~In(sbuf, Request(c))

OneRequest(c) ==
    /\ Once(up, Request(c))
    /\ Once(sbuf, Request(c))
    /\ ~(In(up, Request(c)) /\ In(sbuf, Request(c)))

ChargedOnTaking(c) ==
    /\ charged[c] <= 1
    /\ In(up, Request(c)) \/ In(sbuf, Request(c)) => charged[c] = 0

RequestOK(c) == OutcomeAtClose(c) /\ NoRequestYet(c) /\ OneRequest(c) /\ ChargedOnTaking(c)

RequestInv == \A c \in Callers : RequestOK(c)

\* Appending adds the new element and nothing else.
LEMMA InAppend ==
    ASSUME NEW S, NEW s \in Seq(S), NEW x \in S, NEW e
    PROVE  /\ In(Append(s, x), e) <=> In(s, e) \/ x = e
           /\ Once(s, e) /\ (x # e \/ ~In(s, e)) => Once(Append(s, x), e)
<1>1. /\ DOMAIN s = 1 .. Len(s) /\ Len(s) \in Nat
      /\ DOMAIN Append(s, x) = 1 .. (Len(s) + 1)
      /\ \A i \in 1 .. Len(s) : Append(s, x)[i] = s[i]
      /\ Append(s, x)[Len(s) + 1] = x
  BY AppendProperties, LenProperties
<1> QED BY <1>1 DEF In, Once

\* Filling a buffer from the queue moves the elements of the queue.
LEMMA InConcat ==
    ASSUME NEW S, NEW s \in Seq(S), NEW t \in Seq(S), NEW e
    PROVE  /\ In(s \o t, e) <=> In(s, e) \/ In(t, e)
           /\ Once(s, e) /\ Once(t, e) /\ ~(In(s, e) /\ In(t, e)) => Once(s \o t, e)
<1>1. /\ DOMAIN s = 1 .. Len(s) /\ Len(s) \in Nat
      /\ DOMAIN t = 1 .. Len(t) /\ Len(t) \in Nat
      /\ DOMAIN (s \o t) = 1 .. (Len(s) + Len(t))
      /\ \A i \in 1 .. Len(s) + Len(t) :
            (s \o t)[i] = IF i <= Len(s) THEN s[i] ELSE t[i - Len(s)]
  BY ConcatProperties, LenProperties
<1>2. \A i \in 1 .. Len(t) : (s \o t)[Len(s) + i] = t[i] /\ Len(s) + i \in DOMAIN (s \o t)
  BY <1>1
<1>3. \A i \in 1 .. Len(s) : (s \o t)[i] = s[i] /\ i \in DOMAIN (s \o t)
  BY <1>1
<1>4. \A i \in DOMAIN (s \o t) : i \in 1 .. Len(s) \/ i - Len(s) \in 1 .. Len(t)
  BY <1>1
<1>5. In(s \o t, e) <=> In(s, e) \/ In(t, e)
  <2>1. ASSUME In(s \o t, e) PROVE In(s, e) \/ In(t, e)
    <3>1. PICK i \in DOMAIN (s \o t) : (s \o t)[i] = e
      BY <2>1 DEF In
    <3>2. CASE i <= Len(s)
      BY <1>1, <3>1, <3>2 DEF In
    <3>3. CASE ~(i <= Len(s))
      <4>1. i - Len(s) \in DOMAIN t /\ t[i - Len(s)] = e
        BY <1>1, <1>4, <3>1, <3>3
      <4> QED BY <4>1 DEF In
    <3> QED BY <3>2, <3>3
  <2>2. In(s, e) => In(s \o t, e)
    BY <1>1, <1>3 DEF In
  <2>3. In(t, e) => In(s \o t, e)
    BY <1>1, <1>2 DEF In
  <2> QED BY <2>1, <2>2, <2>3
<1>6. ASSUME Once(s, e), Once(t, e), ~(In(s, e) /\ In(t, e)),
             NEW i \in DOMAIN (s \o t), NEW j \in DOMAIN (s \o t),
             (s \o t)[i] = e, (s \o t)[j] = e
      PROVE  i = j
  <2>1. CASE i <= Len(s)
    BY <1>1, <1>4, <1>6, <2>1 DEF In, Once
  <2>2. CASE ~(i <= Len(s))
    <3>1. i - Len(s) \in DOMAIN t /\ t[i - Len(s)] = e
      BY <1>1, <1>4, <1>6, <2>2
    <3>2. ~(j <= Len(s))
      BY <1>1, <1>6, <3>1 DEF In
    <3>3. j - Len(s) \in DOMAIN t /\ t[j - Len(s)] = e
      BY <1>1, <1>4, <1>6, <3>2
    <3>4. i - Len(s) = j - Len(s)
      BY <1>6, <3>1, <3>3 DEF Once
    <3> QED BY <1>1, <3>4
  <2> QED BY <2>1, <2>2
<1> QED BY <1>5, <1>6 DEF Once

\* What is left after a line was in the buffer before.
LEMMA InAfter ==
    ASSUME NEW S, NEW s \in Seq(S), NEW kinds, Holds(s, kinds), NEW e
    PROVE  /\ In(After(s, kinds), e) => In(s, e)
           /\ Once(s, e) => Once(After(s, kinds), e)
<1>1. /\ DOMAIN s = 1 .. Len(s) /\ Len(s) \in Nat
      /\ After(s, kinds) \in Seq(S)
  BY AfterIsSuffix, LenProperties
<1>2. PICK n \in 1 .. Len(s) :
          /\ Len(After(s, kinds)) = Len(s) - n
          /\ \A i \in 1 .. Len(After(s, kinds)) : After(s, kinds)[i] = s[n + i]
  BY AfterIsSuffix
<1>3. DOMAIN After(s, kinds) = 1 .. (Len(s) - n)
  BY <1>1, <1>2, LenProperties
<1>4. \A i \in DOMAIN After(s, kinds) : n + i \in DOMAIN s /\ After(s, kinds)[i] = s[n + i]
  BY <1>1, <1>2, <1>3
<1>5. In(After(s, kinds), e) => In(s, e)
  BY <1>4 DEF In
<1>6. ASSUME Once(s, e), NEW i \in DOMAIN After(s, kinds), NEW j \in DOMAIN After(s, kinds),
             After(s, kinds)[i] = e, After(s, kinds)[j] = e
      PROVE  i = j
  <2>1. n + i = n + j
    BY <1>4, <1>6 DEF Once
  <2> QED BY <1>3, <2>1
<1> QED BY <1>5, <1>6 DEF Once

\* Taking the head of the buffer takes the only copy of it.
LEMMA InTail ==
    ASSUME NEW S, NEW s \in Seq(S), s # <<>>, NEW e
    PROVE  /\ In(s, Head(s))
           /\ In(Tail(s), e) => In(s, e)
           /\ Once(s, e) => Once(Tail(s), e)
           /\ Once(s, e) /\ Head(s) = e => ~In(Tail(s), e)
<1>1. /\ Len(s) \in Nat /\ Len(s) # 0
      /\ DOMAIN s = 1 .. Len(s)
      /\ DOMAIN Tail(s) = 1 .. (Len(s) - 1)
      /\ \A i \in 1 .. (Len(s) - 1) : Tail(s)[i] = s[i + 1]
      /\ Head(s) = s[1]
  BY HeadTailProperties, LenProperties, EmptySeq
<1>2. In(s, Head(s))
  BY <1>1 DEF In
<1>3. In(Tail(s), e) => In(s, e)
  BY <1>1 DEF In
<1>4. Once(s, e) => Once(Tail(s), e)
  BY <1>1 DEF Once
<1>5. Once(s, e) /\ Head(s) = e => ~In(Tail(s), e)
  <2> SUFFICES ASSUME Once(s, e), Head(s) = e, NEW i \in 1 .. (Len(s) - 1), Tail(s)[i] = e
               PROVE  FALSE
    BY <1>1 DEF In
  <2>1. i + 1 \in DOMAIN s /\ 1 \in DOMAIN s /\ s[i + 1] = e /\ s[1] = e
    BY <1>1
  <2>2. i + 1 = 1
    BY <2>1 DEF Once
  <2> QED BY <2>2
<1> QED BY <1>2, <1>3, <1>4, <1>5

\* Replacing the head by something else.
LEMMA InEaten ==
    ASSUME NEW S, NEW s \in Seq(S), s # <<>>, NEW x \in S, NEW e, x # e
    PROVE  /\ In(<<x>> \o Tail(s), e) => In(s, e)
           /\ Once(s, e) => Once(<<x>> \o Tail(s), e)
<1>1. <<x>> \in Seq(S) /\ Tail(s) \in Seq(S)
  BY HeadTailProperties
<1>2. ~In(<<x>>, e) /\ Once(<<x>>, e)
  BY DEF In, Once
<1> QED BY <1>1, <1>2, InConcat, InTail

LEMMA RequestInit == Init => RequestInv
BY DEF Init, RequestInv, RequestOK, OutcomeAtClose, NoRequestYet, OneRequest, ChargedOnTaking, In, Once

\* A step that brings no request to the line, charges nobody and closes no
\* call keeps the invariant.
LEMMA RequestKept ==
    ASSUME TypeOK, RequestInv, NEW c \in Callers,
           In(up', Request(c)) => In(up, Request(c)),
           In(sbuf', Request(c)) => In(sbuf, Request(c)),
           Once(up, Request(c)) => Once(up', Request(c)),
           Once(sbuf, Request(c)) => Once(sbuf', Request(c)),
           charged'[c] = charged[c],
           \/ pc'[c] = pc[c] /\ outcome'[c] = outcome[c]
           \/ pc[c] = "idle" /\ pc'[c] = "closed"
           \/ pc[c] = "dreply" /\ pc'[c] = "closed"
           \/ /\ pc'[c] = "closed"
              /\ outcome'[c] \notin {"NoCarrier", "RejectedLocally"}
           \/ /\ pc[c] \in {"idle", "zreply", "dreply"} \/ pc'[c] \in {"pause", "hreply"}
              /\ pc[c] # "closed" /\ pc'[c] # "closed" /\ outcome'[c] = outcome[c]
    PROVE  RequestOK(c)'
<1>1. /\ OutcomeAtClose(c) /\ NoRequestYet(c) /\ OneRequest(c) /\ ChargedOnTaking(c)
  BY DEF RequestInv, RequestOK
<1>2. OutcomeAtClose(c)' /\ OneRequest(c)' /\ ChargedOnTaking(c)'
  BY <1>1 DEF OutcomeAtClose, OneRequest, ChargedOnTaking, Request
<1>3. NoRequestYet(c)'
  BY <1>1 DEF OutcomeAtClose, NoRequestYet, Request
<1> QED BY <1>2, <1>3 DEF RequestOK

\* A client that writes anything but its request.
LEMMA RequestSend ==
    ASSUME TypeOK, RequestInv, NEW k \in Controls, Send(Control(k)), NEW c \in Callers
    PROVE  /\ In(up', Request(c)) => In(up, Request(c))
           /\ Once(up', Request(c))
<1>1. Control(k) # Request(c) /\ Control(k) \in UpChunk
  BY ChunkTypes DEF Control, Request, Controls, Commands
<1>2. up \in Seq(UpChunk) /\ Once(up, Request(c))
  BY DEF TypeOK, RequestInv, RequestOK, OneRequest
<1> QED BY <1>1, <1>2, InAppend DEF Send

LEMMA RequestClient ==
    ASSUME TypeOK, RequestInv, NEW d \in Callers, ClientStep(d), NEW c \in Callers
    PROVE  RequestOK(c)'
<1> USE DEF TypeOK
<1>1. CASE ClientFill(d)
  BY <1>1, RequestKept DEF ClientFill
<1>2. CASE Dial(d)
  <2>1. (In(up', Request(c)) => In(up, Request(c))) /\ Once(up', Request(c))
    BY <1>2, RequestSend DEF Dial, Controls, Commands
  <2> QED BY <1>2, <2>1, RequestKept DEF Dial
<1>3. CASE SendRequest(d)
  <2>1. up' = Append(up, Request(d))
    BY <1>3 DEF SendRequest, Send
  <2>2. /\ In(up', Request(c)) <=> In(up, Request(c)) \/ Request(d) = Request(c)
        /\ Once(up, Request(c)) /\ (Request(d) # Request(c) \/ ~In(up, Request(c))) => Once(up', Request(c))
    BY <2>1, InAppend, ChunkTypes
  <2>3. CASE c = d
    <3>1. pc[d] = "dreply" /\ pc'[d] = "rframe"
      BY <1>3 DEF SendRequest
    <3>2. /\ outcome[d] = "none" /\ charged[d] = 0
          /\ ~In(up, Request(d)) /\ ~In(sbuf, Request(d))
          /\ Once(up, Request(d)) /\ Once(sbuf, Request(d))
      BY <3>1 DEF RequestInv, RequestOK, OutcomeAtClose, NoRequestYet, OneRequest
    <3>3. sbuf' = sbuf /\ outcome' = outcome /\ charged' = charged
      BY <1>3 DEF SendRequest
    <3> QED BY <2>2, <2>3, <3>1, <3>2, <3>3
            DEF RequestOK, OutcomeAtClose, NoRequestYet, OneRequest, ChargedOnTaking, Request
  <2>4. CASE c # d
    <3>1. Request(d) # Request(c)
      BY <2>4 DEF Request
    <3> QED BY <1>3, <2>2, <2>4, <3>1, RequestKept DEF SendRequest
  <2> QED BY <2>3, <2>4
<1>4. CASE SendFails(d)
  BY <1>4, RequestKept DEF SendFails, line
<1>5. CASE NotConnected(d)
  BY <1>5, RequestKept DEF NotConnected, Finish, line
<1>6. CASE TakeFrame(d)
  <2>1. (In(up', Request(c)) => In(up, Request(c))) /\ Once(up', Request(c))
    BY <1>6, RequestSend DEF TakeFrame, Controls
  <2> QED BY <1>6, <2>1, RequestKept DEF TakeFrame
<1>7. CASE LineNoise(d)
  <2>1. (In(up', Request(c)) => In(up, Request(c))) /\ Once(up', Request(c))
    BY <1>7, RequestSend DEF LineNoise, Controls
  <2> QED BY <1>7, <2>1, RequestKept DEF LineNoise
<1>8. CASE HangUp(d)
  <2>1. (In(up', Request(c)) => In(up, Request(c))) /\ Once(up', Request(c))
    BY <1>8, RequestSend DEF HangUp, Controls, Commands
  <2> QED BY <1>8, <2>1, RequestKept DEF HangUp
<1>9. CASE Close(d)
  <2>1. ResultOf(resp[d]) \notin {"NoCarrier", "RejectedLocally"}
    BY DEF ResultOf
  <2> QED BY <1>9, <2>1, RequestKept DEF Close, Finish, line
<1> QED BY <1>1, <1>2, <1>3, <1>4, <1>5, <1>6, <1>7, <1>8, <1>9 DEF ClientStep

\* The server reads a line: requests in it are gone, the others stay.
LEMMA RequestServerLine ==
    ASSUME TypeOK, RequestInv, NEW kinds, Holds(sbuf, kinds), sbuf' = After(sbuf, kinds),
           up' = up, charged' = charged, pc' = pc, outcome' = outcome, NEW c \in Callers
    PROVE  RequestOK(c)'
<1>1. /\ In(sbuf', Request(c)) => In(sbuf, Request(c))
      /\ Once(sbuf, Request(c)) => Once(sbuf', Request(c))
  BY InAfter DEF TypeOK
<1> QED BY <1>1, RequestKept

LEMMA RequestServer ==
    ASSUME TypeOK, RequestInv, ServerStep, NEW c \in Callers
    PROVE  RequestOK(c)'
<1> USE DEF TypeOK
<1>1. CASE ServerFill
  <2>1. sbuf' = sbuf \o up /\ up' = <<>> /\ charged' = charged /\ pc' = pc /\ outcome' = outcome
    BY <1>1 DEF ServerFill, client
  <2>2. ~In(up', Request(c)) /\ Once(up', Request(c))
    BY <2>1 DEF In, Once
  <2>3. /\ In(sbuf', Request(c)) <=> In(sbuf, Request(c)) \/ In(up, Request(c))
        /\ Once(sbuf, Request(c)) /\ Once(up, Request(c))
           /\ ~(In(sbuf, Request(c)) /\ In(up, Request(c))) => Once(sbuf', Request(c))
    BY <2>1, InConcat
  <2>4. OutcomeAtClose(c) /\ NoRequestYet(c) /\ OneRequest(c) /\ ChargedOnTaking(c)
    BY DEF RequestInv, RequestOK
  <2> QED BY <2>1, <2>2, <2>3, <2>4
          DEF RequestOK, OutcomeAtClose, NoRequestYet, OneRequest, ChargedOnTaking, Request
<1>2. CASE ServerOK
  BY <1>2, RequestServerLine DEF ServerOK, ReadCommand, ServerHas, ServerReads, client
<1>3. CASE ServerConnect
  BY <1>3, RequestServerLine DEF ServerConnect, ReadCommand, ServerHas, ServerReads, client
<1>4. CASE ServerError
  BY <1>4, RequestServerLine DEF ServerError, ReadCommand, ServerHas, ServerReads, client
<1>5. CASE ServerAuthorise
  <2> DEFINE d == Head(sbuf).from
  <2>1. /\ sbuf # <<>> /\ sbuf' = Tail(sbuf) /\ up' = up /\ pc' = pc /\ outcome' = outcome
        /\ charged' = [charged EXCEPT ![d] = @ + 1]
    BY <1>5 DEF ServerAuthorise, client
  <2>2. d \in Callers /\ Head(sbuf) = Request(d)
    <3>1. Head(sbuf) \in UpChunk /\ Head(sbuf).kind = "REQUEST"
      BY <1>5, <2>1, HeadTailProperties DEF ServerAuthorise
    <3> QED BY <3>1, UpChunkShape
  <2>3. /\ In(sbuf, Head(sbuf))
        /\ In(Tail(sbuf), Request(c)) => In(sbuf, Request(c))
        /\ Once(sbuf, Request(c)) => Once(Tail(sbuf), Request(c))
        /\ Once(sbuf, Request(c)) /\ Head(sbuf) = Request(c) => ~In(Tail(sbuf), Request(c))
    BY <2>1, InTail
  <2>4. OutcomeAtClose(c) /\ NoRequestYet(c) /\ OneRequest(c) /\ ChargedOnTaking(c)
    BY DEF RequestInv, RequestOK
  <2>5. CASE c = d
    <3>1. charged[c] = 0 /\ ~In(up, Request(c))
      BY <2>2, <2>3, <2>4, <2>5 DEF ChargedOnTaking, OneRequest
    <3>2. charged'[c] = 1
      BY <2>1, <2>2, <2>5, <3>1
    <3>3. ~In(sbuf', Request(c)) /\ ~In(up', Request(c))
      BY <2>1, <2>2, <2>3, <2>4, <2>5, <3>1 DEF OneRequest
    <3>4. ~(pc[c] \in {"idle", "zreply", "dreply"} \/ outcome[c] \in {"NoCarrier", "RejectedLocally"})
      BY <2>2, <2>3, <2>4, <2>5 DEF NoRequestYet
    <3> QED BY <2>1, <2>3, <2>4, <3>2, <3>3, <3>4
            DEF RequestOK, OutcomeAtClose, NoRequestYet, OneRequest, ChargedOnTaking, Request
  <2>6. CASE c # d
    BY <2>1, <2>2, <2>3, <2>6, RequestKept
  <2> QED BY <2>5, <2>6
<1>6. CASE ServerNoise
  <2> DEFINE x == [Head(sbuf) EXCEPT !.intact = FALSE]
  <2>1. /\ sbuf # <<>> /\ sbuf' = <<x>> \o Tail(sbuf) /\ up' = up
        /\ charged' = charged /\ pc' = pc /\ outcome' = outcome
    BY <1>6 DEF ServerNoise, client
  <2>2. x \in UpChunk /\ x # Request(c)
    <3>1. Head(sbuf) \in [kind : Controls, intact : BOOLEAN]
      BY <1>6, <2>1, HeadTailProperties, UpChunkShape DEF ServerNoise
    <3>2. x \in [kind : Controls, intact : BOOLEAN] /\ x.kind \in Controls
      BY <3>1
    <3>3. "REQUEST" \notin Controls
      BY DEF Controls, Commands
    <3>4. Request(c).kind = "REQUEST"
      BY DEF Request
    <3> QED BY <3>2, <3>3, <3>4 DEF UpChunk
  <2>3. /\ In(sbuf', Request(c)) => In(sbuf, Request(c))
        /\ Once(sbuf, Request(c)) => Once(sbuf', Request(c))
    BY <2>1, <2>2, InEaten
  <2> QED BY <2>1, <2>3, RequestKept
<1>7. CASE ServerEscape
  BY <1>7, RequestServerLine DEF ServerEscape, ServerHas, ServerReads, client
<1>8. CASE ServerHangup
  BY <1>8, RequestServerLine DEF ServerHangup, ReadCommand, ServerHas, ServerReads, client
<1>9. CASE ServerTimeout
  BY <1>9, RequestKept DEF ServerTimeout, client
<1> QED BY <1>1, <1>2, <1>3, <1>4, <1>5, <1>6, <1>7, <1>8, <1>9 DEF ServerStep

LEMMA RequestNext == TypeOK /\ RequestInv /\ [Next]_vars => RequestInv'
<1> SUFFICES ASSUME TypeOK, RequestInv, [Next]_vars, NEW c \in Callers PROVE RequestOK(c)'
  BY DEF RequestInv
<1> USE DEF TypeOK
<1>1. CASE UNCHANGED vars
  BY <1>1, RequestKept DEF vars
<1>2. ASSUME NEW d \in Callers, RejectLocally(d) PROVE RequestOK(c)'
  BY <1>2, RequestKept DEF RejectLocally, MayStart, Finish, line
<1>3. ASSUME NEW d \in Callers, NoPort(d) PROVE RequestOK(c)'
  BY <1>3, RequestKept DEF NoPort, MayStart, Finish, line
<1>4. ASSUME NEW d \in Callers, Open(d) PROVE RequestOK(c)'
  <2>1. (In(up', Request(c)) => In(up, Request(c))) /\ Once(up', Request(c))
    BY <1>4, RequestSend DEF Open, Controls, Commands
  <2> QED BY <1>4, <2>1, RequestKept DEF Open, MayStart
<1>5. ASSUME NEW d \in Callers, Kill(d) PROVE RequestOK(c)'
  BY <1>5, RequestKept DEF Kill, Finish, line
<1>6. CASE ServerDies
  <2>1. /\ ~In(up', Request(c)) /\ Once(up', Request(c))
        /\ ~In(sbuf', Request(c)) /\ Once(sbuf', Request(c))
    BY <1>6 DEF ServerDies, In, Once
  <2> QED BY <1>6, <2>1, RequestKept DEF ServerDies, client
<1> QED BY <1>1, <1>2, <1>3, <1>4, <1>5, <1>6, RequestClient, RequestServer DEF Next

LEMMA RequestInvariant == Spec => [](TypeOK /\ RequestInv)
<1>1. Init => TypeOK /\ RequestInv
  BY InitTyped, RequestInit
<1>2. TypeOK /\ RequestInv /\ [Next]_vars => (TypeOK /\ RequestInv)'
  BY NextTyped, RequestNext
<1> QED BY <1>1, <1>2, PTL DEF Spec

\* The server authorises the request of a call at most once.
THEOREM ChargedOnce == Spec => []AtMostOneCharge
<1>1. RequestInv => AtMostOneCharge
  BY DEF RequestInv, RequestOK, ChargedOnTaking, AtMostOneCharge
<1> QED BY <1>1, RequestInvariant, PTL

\* A call that ended in NO CARRIER or was rejected locally was not charged and
\* has no request on the line.
THEOREM RetryIsSafe == Spec => []SafeToRetry
<1>1. RequestInv => SafeToRetry
  BY DEF RequestInv, RequestOK, NoRequestYet, In, SafeToRetry
<1> QED BY <1>1, RequestInvariant, PTL

(***************************************************************************)
(* Answers.  AnswersUsedOnce needs to know where the answers that nobody    *)
(* has taken are: each is in one place, the server's queue, one client's    *)
(* buffer or one client's hand, and is the verdict on a request authorised. *)
(***************************************************************************)
Frames == [kind : {"RESPONSE"}, to : Callers, verdict : Verdicts]

Genuine(x) ==
    In(down, x) \/ (\E d \in Callers : In(cbuf[d], x) \/ resp[d] = x) =>
        charged[x.to] > 0 /\ x.verdict = Authorise(card[x.to])

Copies(x) == Once(down, x) /\ \A d \in Callers : Once(cbuf[d], x)

OnePlace(x) ==
    /\ In(down, x) => \A d \in Callers : ~In(cbuf[d], x) /\ resp[d] # x
    /\ \A d, e \in Callers : In(cbuf[d], x) => resp[e] # x
    /\ \A d, e \in Callers : In(cbuf[d], x) /\ In(cbuf[e], x) => d = e
    /\ \A d, e \in Callers : resp[d] = x /\ resp[e] = x => d = e

FrameOK(x) == Genuine(x) /\ Copies(x) /\ OnePlace(x)

FrameInv ==
    /\ \A d \in Callers : resp[d] # NoFrame => resp[d] \in Frames
    /\ \A x \in Frames : FrameOK(x)

LEMMA DownChunkShape ==
    ASSUME NEW h \in DownChunk
    PROVE  /\ h.kind = "RESPONSE" => h \in Frames
           /\ h.kind # "RESPONSE" => h \in [kind : Replies]
<1>1. CASE h \in [kind : {"RESPONSE"}, to : Callers, verdict : Verdicts]
  BY <1>1 DEF Frames
<1>2. CASE h \in [kind : Replies]
  BY <1>2 DEF Replies
<1> QED BY <1>1, <1>2 DEF DownChunk

LEMMA FramesAreNot ==
    ASSUME NEW x \in Frames
    PROVE  x # NoFrame /\ x.to \in Callers /\ \A k \in Replies : x # Reply(k)
<1>1. x.kind = "RESPONSE" /\ NoFrame.kind = "none"
  BY DEF Frames, NoFrame
<1>2. \A k \in Replies : Reply(k).kind # "RESPONSE"
  BY DEF Reply, Replies
<1> QED BY <1>1, <1>2 DEF Frames

LEMMA FrameInit == Init => FrameInv
BY DEF Init, FrameInv, FrameOK, Genuine, Copies, OnePlace, In, Once, Frames, NoFrame

\* Nothing new anywhere, no card changed and no charge taken back.
LEMMA FrameKept ==
    ASSUME TypeOK, FrameInv, NEW x \in Frames,
           In(down', x) => In(down, x),
           Once(down, x) => Once(down', x),
           \A d \in Callers : In(cbuf'[d], x) => In(cbuf[d], x),
           \A d \in Callers : Once(cbuf[d], x) => Once(cbuf'[d], x),
           \A d \in Callers : resp'[d] = x => resp[d] = x,
           charged[x.to] > 0 => charged'[x.to] > 0,
           card' = card
    PROVE  FrameOK(x)'
<1>1. Genuine(x) /\ Copies(x) /\ OnePlace(x)
  BY DEF FrameInv, FrameOK
<1>4. Genuine(x)'
  BY <1>1 DEF Genuine
<1>5. Copies(x)'
  BY <1>1 DEF Copies
<1>6. OnePlace(x)'
  BY <1>1 DEF OnePlace
<1> QED BY <1>4, <1>5, <1>6 DEF FrameOK

\* Reading a reply line out of a client's buffer, and closing the port.
LEMMA LineShrinks ==
    ASSUME TypeOK, NEW c \in Callers, pc[c] \in {"zreply", "dreply"}, GotLine(c), NEW x, NEW d \in Callers
    PROVE  /\ In(cbuf'[d], x) => In(cbuf[d], x)
           /\ Once(cbuf[d], x) => Once(cbuf'[d], x)
<1>1. Holds(cbuf[c], Replies)
  BY DEF GotLine, ClientHas, ClientReads
<1>2. /\ In(After(cbuf[c], Replies), x) => In(cbuf[c], x)
      /\ Once(cbuf[c], x) => Once(After(cbuf[c], Replies), x)
  BY <1>1, InAfter DEF TypeOK
<1>3. cbuf'[d] = IF d = c THEN After(cbuf[c], Replies) ELSE cbuf[d]
  BY DEF GotLine, TypeOK
<1> QED BY <1>2, <1>3

LEMMA FinishShrinks ==
    ASSUME TypeOK, NEW c \in Callers, NEW o, Finish(c, o), NEW x, NEW d \in Callers
    PROVE  /\ In(cbuf'[d], x) => In(cbuf[d], x)
           /\ Once(cbuf[d], x) => Once(cbuf'[d], x)
<1>1. cbuf'[d] = IF d = c THEN <<>> ELSE cbuf[d]
  BY DEF Finish, TypeOK
<1>2. ~In(<<>>, x) /\ Once(<<>>, x)
  BY DEF In, Once
<1> QED BY <1>1, <1>2

\* The server sends a reply line: no frame is added.
LEMMA ReplyAdded ==
    ASSUME TypeOK, NEW k \in Replies, down' = Append(down, Reply(k)), NEW x \in Frames
    PROVE  /\ In(down', x) => In(down, x)
           /\ Once(down, x) => Once(down', x)
<1>1. Reply(k) \in DownChunk /\ Reply(k) # x
  BY ChunkTypes, FramesAreNot
<1> QED BY <1>1, InAppend DEF TypeOK

LEMMA FrameClient ==
    ASSUME TypeOK, FrameInv, NEW c \in Callers, ClientStep(c), NEW x \in Frames
    PROVE  FrameOK(x)'
<1> USE DEF TypeOK
<1>0. Genuine(x) /\ Copies(x) /\ OnePlace(x)
  BY DEF FrameInv, FrameOK
<1>1. CASE ClientFill(c)
  <2>1. /\ cbuf' = [cbuf EXCEPT ![c] = @ \o down] /\ down' = <<>>
        /\ resp' = resp /\ charged' = charged /\ card' = card
    BY <1>1 DEF ClientFill
  <2>2. ~In(down', x) /\ Once(down', x)
    BY <2>1 DEF In, Once
  <2>3. /\ In(cbuf'[c], x) <=> In(cbuf[c], x) \/ In(down, x)
        /\ Once(cbuf[c], x) /\ Once(down, x) /\ ~(In(cbuf[c], x) /\ In(down, x)) => Once(cbuf'[c], x)
    BY <2>1, InConcat
  <2>4. \A d \in Callers \ {c} : cbuf'[d] = cbuf[d]
    BY <2>1
  <2>5. Genuine(x)'
    BY <1>0, <2>1, <2>2, <2>3, <2>4 DEF Genuine
  <2>6. Copies(x)'
    BY <1>0, <2>1, <2>2, <2>3, <2>4 DEF Copies, OnePlace
  <2>7. OnePlace(x)'
    BY <1>0, <2>1, <2>2, <2>3, <2>4 DEF OnePlace
  <2> QED BY <2>5, <2>6, <2>7 DEF FrameOK
<1>2. CASE Dial(c)
  <2>1. ASSUME NEW d \in Callers
        PROVE  (In(cbuf'[d], x) => In(cbuf[d], x)) /\ (Once(cbuf[d], x) => Once(cbuf'[d], x))
    BY <1>2, LineShrinks DEF Dial
  <2> QED BY <1>2, <2>1, FrameKept DEF Dial
<1>3. CASE SendRequest(c)
  <2>1. ASSUME NEW d \in Callers
        PROVE  (In(cbuf'[d], x) => In(cbuf[d], x)) /\ (Once(cbuf[d], x) => Once(cbuf'[d], x))
    BY <1>3, LineShrinks DEF SendRequest
  <2> QED BY <1>3, <2>1, FrameKept DEF SendRequest
<1>4. CASE SendFails(c)
  <2>1. ASSUME NEW d \in Callers
        PROVE  (In(cbuf'[d], x) => In(cbuf[d], x)) /\ (Once(cbuf[d], x) => Once(cbuf'[d], x))
    BY <1>4, LineShrinks DEF SendFails
  <2> QED BY <1>4, <2>1, FrameKept DEF SendFails, line
<1>5. CASE NotConnected(c)
  <2>1. ASSUME NEW d \in Callers
        PROVE  (In(cbuf'[d], x) => In(cbuf[d], x)) /\ (Once(cbuf[d], x) => Once(cbuf'[d], x))
    BY <1>5, FinishShrinks DEF NotConnected
  <2> QED BY <1>5, <2>1, FrameKept DEF NotConnected, line
<1>6. CASE TakeFrame(c)
  <2>1. /\ cbuf[c] # <<>>
        /\ cbuf' = [cbuf EXCEPT ![c] = Tail(@)] /\ resp' = [resp EXCEPT ![c] = Head(cbuf[c])]
        /\ down' = down /\ charged' = charged /\ card' = card
    BY <1>6 DEF TakeFrame
  <2>2. /\ In(cbuf[c], Head(cbuf[c]))
        /\ In(Tail(cbuf[c]), x) => In(cbuf[c], x)
        /\ Once(cbuf[c], x) => Once(Tail(cbuf[c]), x)
        /\ Once(cbuf[c], x) /\ Head(cbuf[c]) = x => ~In(Tail(cbuf[c]), x)
    BY <2>1, InTail
  <2>3. /\ cbuf'[c] = Tail(cbuf[c]) /\ \A d \in Callers \ {c} : cbuf'[d] = cbuf[d]
        /\ resp'[c] = Head(cbuf[c]) /\ \A d \in Callers \ {c} : resp'[d] = resp[d]
    BY <2>1
  <2>4. Genuine(x)'
    BY <1>0, <2>1, <2>2, <2>3 DEF Genuine
  <2>5. Copies(x)'
    BY <1>0, <2>1, <2>2, <2>3 DEF Copies
  <2>6. OnePlace(x)'
    <3>1. CASE Head(cbuf[c]) = x
      <4>1. /\ In(cbuf[c], x) /\ ~In(down, x)
            /\ \A d \in Callers : ~In(cbuf'[d], x)
            /\ \A d \in Callers \ {c} : resp[d] # x
        BY <1>0, <2>2, <2>3, <3>1 DEF OnePlace, Copies
      <4> QED BY <2>1, <2>3, <4>1 DEF OnePlace
    <3>2. CASE Head(cbuf[c]) # x
      BY <1>0, <2>1, <2>2, <2>3, <3>2 DEF OnePlace
    <3> QED BY <3>1, <3>2
  <2> QED BY <2>4, <2>5, <2>6 DEF FrameOK
<1>7. CASE LineNoise(c)
  BY <1>7, FrameKept DEF LineNoise
<1>8. CASE HangUp(c)
  BY <1>8, FrameKept DEF HangUp
<1>9. CASE Close(c)
  <2>1. ASSUME NEW d \in Callers
        PROVE  (In(cbuf'[d], x) => In(cbuf[d], x)) /\ (Once(cbuf[d], x) => Once(cbuf'[d], x))
    BY <1>9, FinishShrinks DEF Close
  <2> QED BY <1>9, <2>1, FrameKept DEF Close, line
<1> QED BY <1>1, <1>2, <1>3, <1>4, <1>5, <1>6, <1>7, <1>8, <1>9 DEF ClientStep

LEMMA FrameServer ==
    ASSUME TypeOK, RequestInv, FrameInv, ServerStep, NEW x \in Frames
    PROVE  FrameOK(x)'
<1> USE DEF TypeOK
<1>0. Genuine(x) /\ Copies(x) /\ OnePlace(x)
  BY DEF FrameInv, FrameOK
<1>1. CASE ServerFill
  BY <1>1, FrameKept DEF ServerFill, client
<1>2. CASE ServerOK
  <2>1. (In(down', x) => In(down, x)) /\ (Once(down, x) => Once(down', x))
    BY <1>2, ReplyAdded DEF ServerOK, Replies
  <2> QED BY <1>2, <2>1, FrameKept DEF ServerOK, ReadCommand, client
<1>3. CASE ServerConnect
  <2>1. (In(down', x) => In(down, x)) /\ (Once(down, x) => Once(down', x))
    BY <1>3, ReplyAdded DEF ServerConnect, Replies
  <2> QED BY <1>3, <2>1, FrameKept DEF ServerConnect, ReadCommand, client
<1>4. CASE ServerError
  <2>1. (In(down', x) => In(down, x)) /\ (Once(down, x) => Once(down', x))
    BY <1>4, ReplyAdded DEF ServerError, Replies
  <2> QED BY <1>4, <2>1, FrameKept DEF ServerError, ReadCommand, client
<1>5. CASE ServerAuthorise
  <2> DEFINE c == Head(sbuf).from
             y == Response(c, Authorise(card[c]))
  <2>1. /\ sbuf # <<>> /\ Head(sbuf) \in UpChunk /\ Head(sbuf).kind = "REQUEST"
        /\ down' = Append(down, y) /\ charged' = [charged EXCEPT ![c] = @ + 1]
        /\ cbuf' = cbuf /\ resp' = resp /\ card' = card
    BY <1>5, HeadTailProperties DEF ServerAuthorise, client
  <2>2. c \in Callers /\ Head(sbuf) = Request(c)
    BY <2>1, UpChunkShape
  <2>3. charged[c] = 0
    <3>1. In(sbuf, Request(c))
      BY <2>1, <2>2, InTail
    <3> QED BY <2>2, <3>1 DEF RequestInv, RequestOK, ChargedOnTaking
  <2>4. y \in DownChunk /\ y.to = c /\ y.verdict = Authorise(card[c])
    BY <2>2, ChunkTypes DEF Response
  <2>5. /\ In(down', x) <=> In(down, x) \/ y = x
        /\ Once(down, x) /\ (y # x \/ ~In(down, x)) => Once(down', x)
    BY <2>1, <2>4, InAppend
  <2>6. CASE x = y
    <3>1. ~In(down, x) /\ \A d \in Callers : ~In(cbuf[d], x) /\ resp[d] # x
      BY <1>0, <2>3, <2>4, <2>6 DEF Genuine
    <3>2. charged'[x.to] > 0
      BY <2>1, <2>2, <2>3, <2>4, <2>6
    <3>3. Genuine(x)'
      BY <2>1, <2>4, <2>6, <3>2 DEF Genuine
    <3>4. Copies(x)' /\ OnePlace(x)'
      BY <1>0, <2>1, <2>5, <3>1 DEF Copies, OnePlace
    <3> QED BY <3>3, <3>4 DEF FrameOK
  <2>7. CASE x # y
    <3>1. charged[x.to] > 0 => charged'[x.to] > 0
      BY <2>1, <2>2, FramesAreNot
    <3> QED BY <2>1, <2>5, <2>7, <3>1, FrameKept
  <2> QED BY <2>6, <2>7
<1>6. CASE ServerNoise
  BY <1>6, FrameKept DEF ServerNoise, client
<1>7. CASE ServerEscape
  BY <1>7, FrameKept DEF ServerEscape, client
<1>8. CASE ServerHangup
  <2>1. (In(down', x) => In(down, x)) /\ (Once(down, x) => Once(down', x))
    BY <1>8, ReplyAdded DEF ServerHangup, Replies
  <2> QED BY <1>8, <2>1, FrameKept DEF ServerHangup, ReadCommand, client
<1>9. CASE ServerTimeout
  BY <1>9, FrameKept DEF ServerTimeout, client
<1> QED BY <1>1, <1>2, <1>3, <1>4, <1>5, <1>6, <1>7, <1>8, <1>9 DEF ServerStep

LEMMA FrameNext == TypeOK /\ RequestInv /\ FrameInv /\ [Next]_vars => FrameInv'
<1> SUFFICES ASSUME TypeOK, RequestInv, FrameInv, [Next]_vars PROVE FrameInv'
  OBVIOUS
<1>1. ASSUME NEW d \in Callers, resp'[d] # NoFrame PROVE resp'[d] \in Frames
  <2>1. resp'[d] = resp[d] \/ TakeFrame(d)
    BY <1>1 DEF Next, vars, ClientStep, ServerStep, RejectLocally, NoPort, Open, Kill, ClientFill,
       Dial, SendRequest, SendFails, NotConnected, TakeFrame, LineNoise, HangUp, Close,
       ServerFill, ServerOK, ServerConnect, ServerError, ServerAuthorise, ServerNoise,
       ServerEscape, ServerHangup, ServerTimeout, ServerDies, ReadCommand, client, TypeOK
  <2>2. CASE TakeFrame(d)
    <3>1. Head(cbuf[d]) \in DownChunk /\ Head(cbuf[d]).kind = "RESPONSE"
      BY <2>2, HeadTailProperties DEF TakeFrame, TypeOK
    <3> QED BY <2>2, <3>1, DownChunkShape DEF TakeFrame, TypeOK
  <2> QED BY <1>1, <2>1, <2>2 DEF FrameInv
<1>2. ASSUME NEW x \in Frames PROVE FrameOK(x)'
  <2>1. CASE UNCHANGED vars
    BY <2>1, FrameKept DEF vars
  <2>2. ASSUME NEW c \in Callers, RejectLocally(c) \/ NoPort(c) \/ Kill(c) PROVE FrameOK(x)'
    <3>1. PICK o \in Outcomes : Finish(c, o)
      BY <2>2 DEF RejectLocally, NoPort, Kill, Outcomes
    <3>2. \A d \in Callers : /\ In(cbuf'[d], x) => In(cbuf[d], x)
                             /\ Once(cbuf[d], x) => Once(cbuf'[d], x)
      BY <3>1, FinishShrinks
    <3>3. \A d \in Callers : resp'[d] = x => resp[d] = x
      BY <2>2, FramesAreNot DEF RejectLocally, NoPort, Kill, TypeOK
    <3> QED BY <2>2, <3>2, <3>3, FrameKept DEF RejectLocally, NoPort, Kill, line
  <2>3. ASSUME NEW c \in Callers, Open(c) PROVE FrameOK(x)'
    BY <2>3, FrameKept DEF Open
  <2>4. CASE ServerDies
    <3>1. ~In(down', x) /\ Once(down', x)
      BY <2>4 DEF ServerDies, In, Once
    <3> QED BY <2>4, <3>1, FrameKept DEF ServerDies, client
  <2> QED BY <2>1, <2>2, <2>3, <2>4, FrameClient, FrameServer DEF Next
<1> QED BY <1>1, <1>2 DEF FrameInv

LEMMA FrameInvariant == Spec => [](TypeOK /\ RequestInv /\ FrameInv)
<1>1. Init => TypeOK /\ RequestInv /\ FrameInv
  BY InitTyped, RequestInit, FrameInit
<1>2. TypeOK /\ RequestInv /\ FrameInv /\ [Next]_vars => (TypeOK /\ RequestInv /\ FrameInv)'
  BY NextTyped, RequestNext, FrameNext
<1> QED BY <1>1, <1>2, PTL DEF Spec

\* A frame in a client's hand is the server's verdict on a request it did
\* authorise, and no other client holds it.
THEOREM AnswerForOne == Spec => []AnswersUsedOnce
<1>1. TypeOK /\ FrameInv => AnswersUsedOnce
  <2> SUFFICES ASSUME TypeOK, FrameInv, NEW c \in Callers, resp[c] # NoFrame
               PROVE  /\ resp[c].kind = "RESPONSE"
                      /\ charged[resp[c].to] > 0
                      /\ resp[c].verdict = Authorise(card[resp[c].to])
                      /\ \A d \in Callers \ {c} : resp[d] # NoFrame => resp[d].to # resp[c].to
    BY DEF AnswersUsedOnce
  <2>1. \A d \in Callers : resp[d] # NoFrame =>
            /\ resp[d] \in Frames
            /\ charged[resp[d].to] > 0 /\ resp[d].verdict = Authorise(card[resp[d].to])
    BY DEF FrameInv, FrameOK, Genuine
  <2>2. ASSUME NEW d \in Callers \ {c}, resp[d] # NoFrame, resp[d].to = resp[c].to PROVE FALSE
    <3>1. resp[d] = resp[c]
      BY <2>1, <2>2 DEF Frames
    <3> QED BY <2>1, <2>2, <3>1 DEF FrameInv, FrameOK, OnePlace
  <2> QED BY <2>1, <2>2 DEF Frames
<1> QED BY <1>1, FrameInvariant, PTL

(***************************************************************************)
(* Refinement.  Seen through charges, receipts and outcomes, every step of  *)
(* the line is a step of the desk or changes nothing.  It takes, beside the *)
(* facts above, that only callers with a known card dial and that nothing   *)
(* of a caller is left where no client runs yet.                            *)
(***************************************************************************)
DialerOK(c) ==
    /\ Active(c) \/ In(up, Request(c)) \/ In(sbuf, Request(c)) => Known(card[c])
    /\ pc[c] = "idle" => cbuf[c] = <<>> /\ resp[c] = NoFrame

DialerInv == \A c \in Callers : DialerOK(c)

LineInv == TypeOK /\ RequestInv /\ FrameInv /\ DialerInv

\* Where a frame is that somebody may still be shown.
Held(x) ==
    \/ In(down, x)
    \/ \E d \in Callers : In(cbuf[d], x) \/ (resp[d] = x /\ outcome[d] = "none")

LEMMA FramesTyped ==
    ASSUME NEW s \in Seq(DownChunk), NEW c \in Callers
    PROVE  (\E i \in DOMAIN s : s[i].kind = "RESPONSE" /\ s[i].to = c)
             <=> (\E x \in Frames : x.to = c /\ In(s, x))
<1>1. ASSUME NEW i \in DOMAIN s, s[i].kind = "RESPONSE", s[i].to = c
      PROVE  \E x \in Frames : x.to = c /\ In(s, x)
  <2>1. s[i] \in DownChunk
    BY ElementOfSeq, LenProperties
  <2>2. s[i] \in Frames
    BY <1>1, <2>1, DownChunkShape
  <2> QED BY <1>1, <2>2 DEF In
<1>2. ASSUME NEW x \in Frames, x.to = c, In(s, x)
      PROVE  \E i \in DOMAIN s : s[i].kind = "RESPONSE" /\ s[i].to = c
  BY <1>2 DEF In, Frames
<1> QED BY <1>1, <1>2

\* A receipt of the desk is a frame that is held.
LEMMA InFlightIsHeld ==
    ASSUME TypeOK, FrameInv, NEW c \in Callers
    PROVE  InFlight(c) <=> \E x \in Frames : x.to = c /\ Held(x)
<1>1. (\E i \in DOMAIN down : down[i].kind = "RESPONSE" /\ down[i].to = c)
        <=> (\E x \in Frames : x.to = c /\ In(down, x))
  BY FramesTyped DEF TypeOK
<1>2. ASSUME NEW d \in Callers
      PROVE  (\E i \in DOMAIN cbuf[d] : cbuf[d][i].kind = "RESPONSE" /\ cbuf[d][i].to = c)
               <=> (\E x \in Frames : x.to = c /\ In(cbuf[d], x))
  BY FramesTyped DEF TypeOK
<1>3. ASSUME NEW d \in Callers
      PROVE  (resp[d] # NoFrame /\ resp[d].to = c /\ outcome[d] = "none")
               <=> (\E x \in Frames : x.to = c /\ resp[d] = x /\ outcome[d] = "none")
  BY FramesAreNot DEF FrameInv
<1> QED BY <1>1, <1>2, <1>3 DEF InFlight, Held

LEMMA DialerKept ==
    ASSUME TypeOK, DialerInv, NEW c \in Callers,
           Active(c)' => Active(c) \/ Known(card[c]),
           In(up', Request(c)) \/ In(sbuf', Request(c)) =>
               In(up, Request(c)) \/ In(sbuf, Request(c)) \/ Active(c),
           pc'[c] = "idle" => pc[c] = "idle" /\ cbuf'[c] = cbuf[c] /\ resp'[c] = resp[c],
           card' = card
    PROVE  DialerOK(c)'
  BY DEF DialerInv, DialerOK

LEMMA DialerClient ==
    ASSUME TypeOK, RequestInv, DialerInv, NEW d \in Callers, ClientStep(d), NEW c \in Callers
    PROVE  DialerOK(c)'
<1> USE DEF TypeOK
<1>p. ASSUME pc[d] # "idle", pc[d] # "closed", NEW p, p # "idle", pc' = [pc EXCEPT ![d] = p]
      PROVE  /\ Active(c)' => Active(c)
             /\ pc'[c] = "idle" => pc[c] = "idle" /\ c # d
  BY <1>p DEF Active
<1>1. CASE ClientFill(d)
  <2>1. pc[d] # "idle" /\ \A e \in Callers \ {d} : cbuf'[e] = cbuf[e]
    BY <1>1 DEF ClientFill, Reading, ClientReads
  <2> QED BY <1>1, <2>1, DialerKept DEF ClientFill, Active
<1>2. CASE Dial(d)
  <2>1. In(up', Request(c)) => In(up, Request(c))
    BY <1>2, RequestSend DEF Dial, Controls, Commands
  <2>2. \A e \in Callers \ {d} : cbuf'[e] = cbuf[e]
    BY <1>2 DEF Dial, GotLine
  <2> QED BY <1>2, <1>p, <2>1, <2>2, DialerKept DEF Dial
<1>3. CASE SendRequest(d)
  <2>1. up' = Append(up, Request(d))
    BY <1>3 DEF SendRequest, Send
  <2>2. In(up', Request(c)) <=> In(up, Request(c)) \/ Request(d) = Request(c)
    BY <2>1, InAppend, ChunkTypes
  <2>3. Request(d) = Request(c) => Active(c)
    BY <1>3 DEF SendRequest, Request, Active
  <2>4. \A e \in Callers \ {d} : cbuf'[e] = cbuf[e]
    BY <1>3 DEF SendRequest, GotLine
  <2> QED BY <1>3, <1>p, <2>2, <2>3, <2>4, DialerKept DEF SendRequest
<1>4. CASE SendFails(d)
  <2>1. \A e \in Callers \ {d} : cbuf'[e] = cbuf[e]
    BY <1>4 DEF SendFails, GotLine
  <2> QED BY <1>4, <1>p, <2>1, DialerKept DEF SendFails, line
<1>5. CASE NotConnected(d)
  BY <1>5, <1>p, DialerKept DEF NotConnected, Finish, line
<1>6. CASE TakeFrame(d)
  <2>1. In(up', Request(c)) => In(up, Request(c))
    BY <1>6, RequestSend DEF TakeFrame, Controls
  <2> QED BY <1>6, <1>p, <2>1, DialerKept DEF TakeFrame
<1>7. CASE LineNoise(d)
  <2>1. In(up', Request(c)) => In(up, Request(c))
    BY <1>7, RequestSend DEF LineNoise, Controls
  <2> QED BY <1>7, <1>p, <2>1, DialerKept DEF LineNoise
<1>8. CASE HangUp(d)
  <2>1. In(up', Request(c)) => In(up, Request(c))
    BY <1>8, RequestSend DEF HangUp, Controls, Commands
  <2> QED BY <1>8, <1>p, <2>1, DialerKept DEF HangUp
<1>9. CASE Close(d)
  BY <1>9, <1>p, DialerKept DEF Close, Finish, line
<1> QED BY <1>1, <1>2, <1>3, <1>4, <1>5, <1>6, <1>7, <1>8, <1>9 DEF ClientStep

\* The server adds no request, starts no client and leaves their buffers alone.
LEMMA DialerServer ==
    ASSUME TypeOK, DialerInv, ServerStep, NEW c \in Callers
    PROVE  DialerOK(c)'
<1> USE DEF TypeOK
<1>0. pc' = pc /\ cbuf' = cbuf /\ resp' = resp /\ card' = card
  BY DEF ServerStep, ServerFill, ServerOK, ServerConnect, ServerError, ServerAuthorise, ServerNoise,
     ServerEscape, ServerHangup, ServerTimeout, ReadCommand, client
<1>1. CASE ServerFill
  <2>1. In(sbuf', Request(c)) <=> In(sbuf, Request(c)) \/ In(up, Request(c))
    BY <1>1, InConcat DEF ServerFill
  <2>2. ~In(up', Request(c))
    BY <1>1 DEF ServerFill, In
  <2> QED BY <1>0, <2>1, <2>2, DialerKept DEF Active
<1>2. ASSUME NEW kinds, Holds(sbuf, kinds), sbuf' = After(sbuf, kinds), up' = up PROVE DialerOK(c)'
  <2>1. In(sbuf', Request(c)) => In(sbuf, Request(c))
    BY <1>2, InAfter
  <2> QED BY <1>0, <1>2, <2>1, DialerKept DEF Active
<1>3. CASE ServerOK \/ ServerConnect \/ ServerError \/ ServerHangup
  BY <1>2, <1>3 DEF ServerOK, ServerConnect, ServerError, ServerHangup, ReadCommand, ServerHas, ServerReads
<1>4. CASE ServerEscape
  BY <1>2, <1>4 DEF ServerEscape, ServerHas, ServerReads
<1>5. CASE ServerAuthorise
  <2>1. In(sbuf', Request(c)) => In(sbuf, Request(c))
    BY <1>5, InTail DEF ServerAuthorise
  <2> QED BY <1>0, <1>5, <2>1, DialerKept DEF ServerAuthorise, Active
<1>6. CASE ServerNoise
  <2> DEFINE x == [Head(sbuf) EXCEPT !.intact = FALSE]
  <2>1. Head(sbuf) \in [kind : Controls, intact : BOOLEAN]
    BY <1>6, HeadTailProperties, UpChunkShape DEF ServerNoise
  <2>2. x \in UpChunk /\ x.kind \in Controls
    BY <2>1 DEF UpChunk
  <2>3. x # Request(c)
    BY <2>2 DEF Controls, Commands, Request
  <2>4. In(sbuf', Request(c)) => In(sbuf, Request(c))
    BY <1>6, <2>2, <2>3, InEaten DEF ServerNoise
  <2> QED BY <1>0, <1>6, <2>4, DialerKept DEF ServerNoise, Active
<1>7. CASE ServerTimeout
  BY <1>0, <1>7, DialerKept DEF ServerTimeout, Active
<1> QED BY <1>1, <1>3, <1>4, <1>5, <1>6, <1>7 DEF ServerStep

LEMMA DialerNext == TypeOK /\ RequestInv /\ DialerInv /\ [Next]_vars => DialerInv'
<1> SUFFICES ASSUME TypeOK, RequestInv, DialerInv, [Next]_vars, NEW c \in Callers PROVE DialerOK(c)'
  BY DEF DialerInv
<1>1. CASE UNCHANGED vars
  BY <1>1, DialerKept DEF vars, Active
<1>2. ASSUME NEW d \in Callers, RejectLocally(d) \/ NoPort(d) \/ Kill(d) PROVE DialerOK(c)'
  <2>1. PICK o \in Outcomes : Finish(d, o)
    BY <1>2 DEF RejectLocally, NoPort, Kill, Outcomes
  <2>2. /\ Active(c)' => Active(c)
        /\ pc'[c] = "idle" => pc[c] = "idle" /\ c # d /\ cbuf'[c] = cbuf[c]
    BY <2>1 DEF Finish, Active, TypeOK
  <2>3. c # d => resp'[c] = resp[c]
    BY <1>2 DEF RejectLocally, NoPort, Kill, TypeOK
  <2> QED BY <1>2, <2>2, <2>3, DialerKept DEF RejectLocally, NoPort, Kill, line
<1>3. ASSUME NEW d \in Callers, Open(d) PROVE DialerOK(c)'
  <2>1. In(up', Request(c)) => In(up, Request(c))
    BY <1>3, RequestSend DEF Open, Controls, Commands
  <2>2. Active(c)' => Active(c) \/ Known(card[c])
    BY <1>3 DEF Open, Active, TypeOK
  <2>3. pc'[c] = "idle" => pc[c] = "idle"
    BY <1>3 DEF Open, TypeOK
  <2> QED BY <1>3, <2>1, <2>2, <2>3, DialerKept DEF Open
<1>4. CASE ServerDies
  <2>1. ~In(up', Request(c)) /\ ~In(sbuf', Request(c))
    BY <1>4 DEF ServerDies, In
  <2> QED BY <1>4, <2>1, DialerKept DEF ServerDies, client, Active
<1> QED BY <1>1, <1>2, <1>3, <1>4, DialerClient, DialerServer DEF Next

LEMMA DialerInit == Init => DialerInv
BY DEF Init, DialerInv, DialerOK, Active, In

LEMMA LineInvariant == Spec => []LineInv
<1>1. Init => LineInv
  BY InitTyped, RequestInit, FrameInit, DialerInit DEF LineInv
<1>2. LineInv /\ [Next]_vars => LineInv'
  BY NextTyped, RequestNext, FrameNext, DialerNext DEF LineInv
<1> QED BY <1>1, <1>2, PTL DEF Spec

\* Before and after a step alike, the receipts are the frames that are held.
LEMMA ReceiptsNow ==
    LineInv => \A c \in Callers : InFlight(c) <=> \E x \in Frames : x.to = c /\ Held(x)
BY InFlightIsHeld DEF LineInv

LEMMA ReceiptsThen ==
    LineInv' => (\A c \in Callers : InFlight(c) <=> \E x \in Frames : x.to = c /\ Held(x))'
BY ReceiptsNow, PTL

\* A step after which nothing is held that was not held before loses receipts
\* or leaves them alone.
LEMMA FewerReceipts ==
    ASSUME LineInv, LineInv', \A x \in Frames : Held(x)' => Held(x)
    PROVE  {c \in Callers : InFlight(c)}' \subseteq {c \in Callers : InFlight(c)}
<1> SUFFICES ASSUME NEW c \in Callers, InFlight(c)' PROVE InFlight(c)
  OBVIOUS
<1>1. \E x \in Frames : x.to = c /\ Held(x)'
  BY ReceiptsThen
<1> QED BY <1>1, ReceiptsNow

LEMMA Loses ==
    ASSUME LineInv, LineInv', \A x \in Frames : Held(x)' => Held(x),
           card' = card, charged' = charged, outcome' = outcome
    PROVE  [Desk!Next]_Desk!deskVars
<1>1. Desk!LoseReceipts
  BY FewerReceipts DEF Desk!LoseReceipts
<1> QED BY <1>1 DEF Desk!Next

\* What is in nobody's buffer afterwards but was before is no longer held.
LEMMA HeldKept ==
    ASSUME NEW x,
           In(down', x) => Held(x),
           \A d \in Callers : In(cbuf'[d], x) => Held(x),
           \A d \in Callers : resp'[d] = x /\ outcome'[d] = "none" => Held(x)
    PROVE  Held(x)' => Held(x)
BY DEF Held

\* A call that ends without a frame in the client's hand.
LEMMA EndsEmptyHanded ==
    ASSUME LineInv, LineInv', NEW c \in Callers, NEW o \in {"NoCarrier", "Error"}, Finish(c, o),
           pc[c] # "closed", Known(card[c]), o = "NoCarrier" => charged[c] = 0,
           down' = down, card' = card, charged' = charged,
           \A d \in Callers : resp'[d] = resp[d] \/ resp'[d] = NoFrame
    PROVE  [Desk!Next]_Desk!deskVars
<1> USE DEF LineInv
<1>1. outcome[c] = "none" /\ outcome' = [outcome EXCEPT ![c] = o]
  BY DEF RequestInv, RequestOK, OutcomeAtClose, Finish
<1>2. ASSUME NEW x \in Frames PROVE Held(x)' => Held(x)
  <2>1. \A d \in Callers : In(cbuf'[d], x) => In(cbuf[d], x)
    BY FinishShrinks
  <2>2. \A d \in Callers : outcome'[d] = "none" => outcome[d] = "none"
    BY <1>1 DEF TypeOK
  <2> QED BY <2>1, <2>2, HeldKept, FramesAreNot DEF Held
<1>3. {d \in Callers : InFlight(d)}' \subseteq {d \in Callers : InFlight(d)}
  BY <1>2, FewerReceipts
<1>4. Desk!TurnAway(c, o)
  BY <1>1, <1>3 DEF Desk!TurnAway, Desk!Tell, Known
<1> QED BY <1>4 DEF Desk!Next

\* A call that ends with a frame in the client's hand shows that receipt, and
\* uses it up: the frame was in one place only.
LEMMA Shows ==
    ASSUME LineInv, LineInv', NEW c \in Callers, Close(c), resp[c] # NoFrame
    PROVE  [Desk!Next]_Desk!deskVars
<1> USE DEF LineInv
<1>0. PICK f, d : f = resp[c] /\ d = f.to
  OBVIOUS
<1> DEFINE o == IF card[d] = "approve" THEN "Approved" ELSE "Declined"
<1>1. /\ f \in Frames /\ d \in Callers
      /\ charged[d] > 0 /\ f.verdict = Authorise(card[d])
      /\ OnePlace(f)
  BY <1>0, FramesAreNot DEF FrameInv, FrameOK, Genuine
<1>2. ResultOf(f) = o
  <2>1. f.verdict = "APPROVAL 00" <=> card[d] = "approve"
    BY <1>1 DEF Authorise
  <2> QED BY <1>0, <2>1 DEF ResultOf
<1>3. /\ outcome[c] = "none" /\ Known(card[c])
      /\ outcome' = [outcome EXCEPT ![c] = o]
      /\ Finish(c, ResultOf(f))
      /\ down' = down /\ resp' = resp /\ charged' = charged /\ card' = card
  BY <1>0, <1>2 DEF Close, Finish, line, RequestInv, RequestOK, OutcomeAtClose, DialerInv, DialerOK, Active
<1>4. \A e \in Callers : outcome'[e] = "none" => outcome[e] = "none" /\ e # c
  BY <1>3 DEF TypeOK
<1>5. ASSUME NEW x \in Frames PROVE Held(x)' => Held(x)
  <2>1. \A e \in Callers : In(cbuf'[e], x) => In(cbuf[e], x)
    BY <1>3, FinishShrinks
  <2> QED BY <1>3, <1>4, <2>1, HeldKept DEF Held
<1>6. InFlight(d)
  <2>1. Held(f)
    BY <1>0, <1>3 DEF Held
  <2> QED BY <1>0, <1>1, <2>1, ReceiptsNow
<1>7. ~InFlight(d)'
  <2>1. SUFFICES ASSUME NEW x \in Frames, x.to = d, Held(x)' PROVE FALSE
    BY <1>1, ReceiptsThen
  <2>2. Held(x)
    BY <1>5, <2>1
  <2>3. x = f
    <3>1. Genuine(x)'
      BY DEF FrameInv, FrameOK
    <3>2. charged'[d] > 0
      BY <1>1, <1>3
    <3>3. Held(x) => In(down, x) \/ (\E e \in Callers : In(cbuf[e], x)) \/ (\E e \in Callers : resp[e] = x)
      BY DEF Held
    <3>4. x.verdict = Authorise(card[d])
      BY <2>1, <2>2, <3>3 DEF FrameInv, FrameOK, Genuine
    <3> QED BY <1>0, <1>1, <2>1, <3>4 DEF Frames
  <2>4. \A e \in Callers : In(cbuf'[e], f) => In(cbuf[e], f)
    BY <1>3, FinishShrinks
  <2>5. ~In(down, f) /\ \A e \in Callers : ~In(cbuf'[e], f) /\ (e # c => resp[e] # f)
    BY <1>0, <1>1, <2>4 DEF OnePlace
  <2> QED BY <1>3, <1>4, <2>1, <2>3, <2>5 DEF Held
<1>8. {e \in Callers : InFlight(e)}' \subseteq {e \in Callers : InFlight(e)} \ {d}
  <2>1. {e \in Callers : InFlight(e)}' \subseteq {e \in Callers : InFlight(e)}
    BY <1>5, FewerReceipts
  <2> QED BY <1>7, <2>1
<1>9. Desk!ShowReceipt(c, d)
  BY <1>1, <1>3, <1>6, <1>8 DEF Desk!ShowReceipt, Desk!Tell, Known
<1> QED BY <1>1, <1>9 DEF Desk!Next

\* The server authorises a request: the desk charges its caller.
LEMMA Charges ==
    ASSUME LineInv, LineInv', ServerAuthorise
    PROVE  [Desk!Next]_Desk!deskVars
<1> USE DEF LineInv
<1>0. PICK c : c = Head(sbuf).from
  OBVIOUS
<1> DEFINE y == Response(c, Authorise(card[c]))
<1>1. /\ sbuf # <<>> /\ Head(sbuf) \in UpChunk /\ Head(sbuf).kind = "REQUEST"
      /\ down' = Append(down, y) /\ charged' = [charged EXCEPT ![c] = @ + 1]
      /\ cbuf' = cbuf /\ resp' = resp /\ card' = card /\ outcome' = outcome
  BY <1>0, HeadTailProperties DEF ServerAuthorise, client, TypeOK
<1>2. c \in Callers /\ In(sbuf, Request(c))
  BY <1>0, <1>1, UpChunkShape, InTail DEF TypeOK
<1>3. /\ charged[c] = 0 /\ Known(card[c])
      /\ outcome[c] \notin {"NoCarrier", "RejectedLocally"}
  BY <1>2 DEF RequestInv, RequestOK, ChargedOnTaking, NoRequestYet, DialerInv, DialerOK
<1>4. y \in DownChunk /\ y \in Frames /\ y.to = c
  BY <1>2, ChunkTypes DEF Response, Frames, TypeOK
<1>5. ASSUME NEW x \in Frames
      PROVE  Held(x)' <=> Held(x) \/ x = y
  <2>1. In(down', x) <=> In(down, x) \/ y = x
    BY <1>1, <1>4, InAppend DEF TypeOK
  <2> QED BY <1>1, <2>1 DEF Held
<1>6. ASSUME NEW d \in Callers
      PROVE  InFlight(d)' <=> InFlight(d) \/ d = c
  <2>1. InFlight(d)' <=> \E x \in Frames : x.to = d /\ Held(x)'
    BY ReceiptsThen
  <2>2. InFlight(d) <=> \E x \in Frames : x.to = d /\ Held(x)
    BY ReceiptsNow
  <2> QED BY <1>4, <1>5, <2>1, <2>2
<1>7. {d \in Callers : InFlight(d)}' = {d \in Callers : InFlight(d)} \cup {c}
  BY <1>2, <1>6
<1>8. {d \in Callers : charged'[d] > 0} = {d \in Callers : charged[d] > 0} \cup {c}
  BY <1>1, <1>2, <1>3 DEF TypeOK
<1>9. Desk!Charge(c)
  BY <1>1, <1>2, <1>3, <1>7, <1>8 DEF Desk!Charge, Known
<1> QED BY <1>2, <1>9 DEF Desk!Next

LEMMA RefineClient ==
    ASSUME LineInv, LineInv', NEW c \in Callers, ClientStep(c)
    PROVE  [Desk!Next]_Desk!deskVars
<1> USE DEF LineInv
<1>l. ASSUME card' = card, charged' = charged, outcome' = outcome, down' = down, resp' = resp,
             \A x \in Frames, d \in Callers : In(cbuf'[d], x) => In(cbuf[d], x)
      PROVE  [Desk!Next]_Desk!deskVars
  <2>1. \A x \in Frames : Held(x)' => Held(x)
    BY <1>l DEF Held
  <2> QED BY <1>l, <2>1, Loses
<1>g. ASSUME GotLine(c), pc[c] \in {"zreply", "dreply"}
      PROVE  \A x \in Frames, d \in Callers : In(cbuf'[d], x) => In(cbuf[d], x)
  BY <1>g, LineShrinks
<1>1. CASE ClientFill(c)
  <2>1. ASSUME NEW x \in Frames PROVE Held(x)' => Held(x)
    <3>1. ~In(down', x)
      BY <1>1 DEF ClientFill, In
    <3>2. In(cbuf'[c], x) <=> In(cbuf[c], x) \/ In(down, x)
      BY <1>1, InConcat DEF ClientFill, TypeOK
    <3>3. \A d \in Callers \ {c} : cbuf'[d] = cbuf[d]
      BY <1>1 DEF ClientFill, TypeOK
    <3> QED BY <1>1, <3>1, <3>2, <3>3 DEF ClientFill, Held
  <2> QED BY <1>1, <2>1, Loses DEF ClientFill
<1>2. CASE Dial(c)
  BY <1>2, <1>l, <1>g DEF Dial
<1>3. CASE SendRequest(c)
  BY <1>3, <1>l, <1>g DEF SendRequest
<1>4. CASE SendFails(c)
  BY <1>4, <1>l, <1>g DEF SendFails, line
<1>5. CASE NotConnected(c)
  <2>1. charged[c] = 0 /\ pc[c] # "closed" /\ Known(card[c])
    BY <1>5 DEF NotConnected, RequestInv, RequestOK, NoRequestYet, DialerInv, DialerOK, Active
  <2> QED BY <1>5, <2>1, EndsEmptyHanded DEF NotConnected, line
<1>6. CASE TakeFrame(c)
  <2>1. /\ cbuf[c] # <<>> /\ cbuf'[c] = Tail(cbuf[c]) /\ resp'[c] = Head(cbuf[c])
        /\ \A d \in Callers \ {c} : cbuf'[d] = cbuf[d] /\ resp'[d] = resp[d]
        /\ down' = down /\ outcome' = outcome /\ card' = card /\ charged' = charged
    BY <1>6 DEF TakeFrame, TypeOK
  <2>2. ASSUME NEW x \in Frames PROVE Held(x)' => Held(x)
    <3>1. In(cbuf[c], Head(cbuf[c])) /\ (In(cbuf'[c], x) => In(cbuf[c], x))
      BY <2>1, InTail DEF TypeOK
    <3> QED BY <2>1, <3>1 DEF Held
  <2> QED BY <2>1, <2>2, Loses
<1>7. CASE LineNoise(c)
  BY <1>7, <1>l DEF LineNoise
<1>8. CASE HangUp(c)
  BY <1>8, <1>l DEF HangUp
<1>9. CASE Close(c)
  <2>1. CASE resp[c] = NoFrame
    <3>1. Finish(c, "Error") /\ pc[c] # "closed" /\ Known(card[c])
      BY <1>9, <2>1 DEF Close, ResultOf, DialerInv, DialerOK, Active
    <3> QED BY <1>9, <3>1, EndsEmptyHanded DEF Close, line
  <2>2. CASE resp[c] # NoFrame
    BY <1>9, <2>2, Shows
  <2> QED BY <2>1, <2>2
<1> QED BY <1>1, <1>2, <1>3, <1>4, <1>5, <1>6, <1>7, <1>8, <1>9 DEF ClientStep

LEMMA RefineServer ==
    ASSUME LineInv, LineInv', ServerStep
    PROVE  [Desk!Next]_Desk!deskVars
<1> USE DEF LineInv
<1>1. CASE ServerAuthorise
  BY <1>1, Charges
<1>2. CASE ~ServerAuthorise
  <2>1. card' = card /\ charged' = charged /\ outcome' = outcome /\ cbuf' = cbuf /\ resp' = resp
    BY <1>2 DEF ServerStep, ServerFill, ServerOK, ServerConnect, ServerError, ServerNoise,
       ServerEscape, ServerHangup, ServerTimeout, ReadCommand, client
  <2>2. down' = down \/ \E k \in Replies : down' = Append(down, Reply(k))
    BY <1>2 DEF ServerStep, ServerFill, ServerOK, ServerConnect, ServerError, ServerNoise,
       ServerEscape, ServerHangup, ServerTimeout, ReadCommand, client, Replies
  <2>3. ASSUME NEW x \in Frames PROVE Held(x)' => Held(x)
    <3>1. In(down', x) => In(down, x)
      BY <2>2, ReplyAdded
    <3> QED BY <2>1, <3>1 DEF Held
  <2> QED BY <2>1, <2>3, Loses
<1> QED BY <1>1, <1>2

LEMMA RefineNext == LineInv /\ LineInv' /\ [Next]_vars => [Desk!Next]_Desk!deskVars
<1> SUFFICES ASSUME LineInv, LineInv', [Next]_vars PROVE [Desk!Next]_Desk!deskVars
  OBVIOUS
<1> USE DEF LineInv
<1>1. CASE UNCHANGED vars
  BY <1>1, Loses DEF vars, Held
<1>2. ASSUME NEW c \in Callers, RejectLocally(c) PROVE [Desk!Next]_Desk!deskVars
  <2>1. /\ pc[c] = "idle" /\ ~Known(card[c]) /\ Finish(c, "RejectedLocally")
        /\ down' = down /\ resp' = resp /\ charged' = charged /\ card' = card
    BY <1>2 DEF RejectLocally, MayStart, line
  <2>2. /\ outcome[c] = "none" /\ cbuf[c] = <<>> /\ resp[c] = NoFrame
        /\ outcome' = [outcome EXCEPT ![c] = "RejectedLocally"]
    BY <2>1 DEF Finish, RequestInv, RequestOK, OutcomeAtClose, DialerInv, DialerOK
  <2>3. cbuf' = cbuf
    BY <2>1, <2>2 DEF Finish, TypeOK
  <2>4. \A d \in Callers : d # c => outcome'[d] = outcome[d]
    BY <2>2 DEF TypeOK
  <2>5. ASSUME NEW d \in Callers PROVE InFlight(d)' <=> InFlight(d)
    BY <2>1, <2>2, <2>3, <2>4 DEF InFlight
  <2>6. {d \in Callers : InFlight(d)}' = {d \in Callers : InFlight(d)}
    BY <2>5
  <2>7. Desk!Reject(c)
    BY <2>1, <2>2, <2>6 DEF Desk!Reject, Desk!Tell, Known
  <2> QED BY <2>7 DEF Desk!Next
<1>3. ASSUME NEW c \in Callers, NoPort(c) PROVE [Desk!Next]_Desk!deskVars
  <2>1. /\ pc[c] = "idle" /\ Known(card[c]) /\ Finish(c, "NoCarrier")
        /\ down' = down /\ resp' = resp /\ charged' = charged /\ card' = card
    BY <1>3 DEF NoPort, MayStart, line
  <2>2. charged[c] = 0
    BY <2>1 DEF RequestInv, RequestOK, NoRequestYet
  <2> QED BY <2>1, <2>2, EndsEmptyHanded
<1>4. ASSUME NEW c \in Callers, Open(c) PROVE [Desk!Next]_Desk!deskVars
  BY <1>4, Loses DEF Open, Held
<1>5. ASSUME NEW c \in Callers, Kill(c) PROVE [Desk!Next]_Desk!deskVars
  <2>1. \A d \in Callers : resp'[d] = resp[d] \/ resp'[d] = NoFrame
    BY <1>5 DEF Kill, TypeOK
  <2>2. pc[c] # "closed" /\ Known(card[c])
    BY <1>5 DEF Kill, DialerInv, DialerOK, Active
  <2> QED BY <1>5, <2>1, <2>2, EndsEmptyHanded DEF Kill, line
<1>6. CASE ServerDies
  <2>1. ASSUME NEW x \in Frames PROVE Held(x)' => Held(x)
    <3>1. ~In(down', x)
      BY <1>6 DEF ServerDies, In
    <3> QED BY <1>6, <3>1 DEF ServerDies, client, Held
  <2> QED BY <1>6, <2>1, Loses DEF ServerDies, client
<1> QED BY <1>1, <1>2, <1>3, <1>4, <1>5, <1>6, RefineClient, RefineServer DEF Next

LEMMA RefineInit == Init => Desk!Init
<1> SUFFICES ASSUME Init PROVE Desk!Init
  OBVIOUS
<1>1. \A c \in Callers : charged[c] = 0 /\ ~InFlight(c)
  BY DEF Init, InFlight
<1>2. {c \in Callers : charged[c] > 0} = {} /\ {c \in Callers : InFlight(c)} = {}
  BY <1>1
<1> QED BY <1>2, PresentedAssumption DEF Init, Desk!Init, Cards

\* The line implements the charge desk, whatever stalls, dies or is killed:
\* one charge per caller, each told verdict a receipt that existed and is then
\* used up, and no charge behind a NO CARRIER or a local rejection.
THEOREM LineIsDesk == Spec => DeskSpec
<1>1. Init => Desk!Init
  BY RefineInit
<1>2. LineInv /\ LineInv' /\ [Next]_vars => [Desk!Next]_Desk!deskVars
  BY RefineNext
<1> QED BY <1>1, <1>2, LineInvariant, PTL DEF Spec, DeskSpec, Desk!Spec

(***************************************************************************)
(* One call at a time.  With Terminals = 1 at most one client runs, and     *)
(* what it finds on the line stays what its own call puts there: if that    *)
(* was nothing, every request and every answer on the line is its own.      *)
(***************************************************************************)
Alone == \A c, d \in Callers : Active(c) /\ Active(d) => c = d

OwnUp(c) == {x \in UpChunk : x.kind = "REQUEST" => x.from = c}
OwnDown(c) == {x \in DownChunk : x.kind = "RESPONSE" => x.to = c}

OnlyOwn(c) ==
    /\ up \in Seq(OwnUp(c)) /\ sbuf \in Seq(OwnUp(c))
    /\ down \in Seq(OwnDown(c)) /\ cbuf[c] \in Seq(OwnDown(c))

OwnOK(c) ==
    /\ pc[c] = "idle" => met[c] = "none"
    /\ Active(c) /\ met[c] = "clean" => OnlyOwn(c)
    /\ met[c] = "clean" /\ resp[c] # NoFrame => resp[c].to = c

OwnInv == Alone /\ \A c \in Callers : OwnOK(c)

\* What a client's step leaves alone.
LEMMA ClientLocal ==
    ASSUME TypeOK, NEW c \in Callers, ClientStep(c)
    PROVE  /\ Active(c) /\ pc'[c] # "idle"
           /\ card' = card /\ met' = met /\ killed' = killed
           /\ sbuf' = sbuf /\ server' = server /\ charged' = charged
           /\ \A d \in Callers \ {c} :
                 pc'[d] = pc[d] /\ cbuf'[d] = cbuf[d] /\ resp'[d] = resp[d] /\ outcome'[d] = outcome[d]
<1>1. ASSUME GotLine(c) PROVE \A d \in Callers \ {c} : cbuf'[d] = cbuf[d]
  BY <1>1 DEF GotLine, TypeOK
<1>2. ASSUME NEW o, Finish(c, o)
      PROVE  /\ pc'[c] # "idle"
             /\ \A d \in Callers \ {c} : pc'[d] = pc[d] /\ cbuf'[d] = cbuf[d] /\ outcome'[d] = outcome[d]
  BY <1>2 DEF Finish, TypeOK
<1> USE DEF TypeOK, Active
<1>3. CASE ClientFill(c)
  BY <1>3 DEF ClientFill, Reading, ClientReads
<1>4. CASE Dial(c)
  BY <1>1, <1>4 DEF Dial
<1>5. CASE SendRequest(c)
  BY <1>1, <1>5 DEF SendRequest
<1>6. CASE SendFails(c)
  BY <1>1, <1>6 DEF SendFails, line
<1>7. CASE NotConnected(c)
  BY <1>2, <1>7 DEF NotConnected, line
<1>8. CASE TakeFrame(c)
  BY <1>8 DEF TakeFrame
<1>9. CASE LineNoise(c)
  BY <1>9 DEF LineNoise
<1>10. CASE HangUp(c)
  BY <1>10 DEF HangUp
<1>11. CASE Close(c)
  BY <1>2, <1>11 DEF Close, line
<1> QED BY <1>3, <1>4, <1>5, <1>6, <1>7, <1>8, <1>9, <1>10, <1>11 DEF ClientStep

\* What a step of the server leaves alone.
LEMMA ServerLocal ==
    ASSUME ServerStep
    PROVE  /\ pc' = pc /\ cbuf' = cbuf /\ resp' = resp /\ outcome' = outcome
           /\ card' = card /\ met' = met /\ killed' = killed /\ server # "dead"
BY DEF ServerStep, ServerFill, ServerOK, ServerConnect, ServerError, ServerAuthorise, ServerNoise,
   ServerEscape, ServerHangup, ServerTimeout, ReadCommand, client

\* On a line with one terminal a call begins only when no other is in progress.
LEMMA FreeToStart ==
    ASSUME Terminals = 1, Alone, NEW d \in Callers, MayStart(d)
    PROVE  \A c \in Callers : ~Active(c)
<1> SUFFICES ASSUME NEW c \in Callers, Active(c) PROVE FALSE
  OBVIOUS
<1>1. {e \in Callers : Active(e)} = {c}
  BY DEF Alone
<1>2. Cardinality({c}) = 1
  BY FS_Singleton
<1>3. Cardinality({e \in Callers : Active(e)}) = 1
  BY <1>1, <1>2, Zenon
<1> QED BY <1>3 DEF MayStart

LEMMA AloneNext ==
    ASSUME Terminals = 1, TypeOK, Alone, [Next]_vars
    PROVE  Alone'
<1>1. ASSUME \A c \in Callers : Active(c)' => Active(c)
      PROVE  Alone'
  BY <1>1 DEF Alone
<1>2. CASE UNCHANGED vars
  BY <1>1, <1>2 DEF vars, Active
<1>3. ASSUME NEW d \in Callers, RejectLocally(d) \/ NoPort(d) \/ Kill(d) PROVE Alone'
  <2>1. \A c \in Callers : Active(c)' => Active(c)
    BY <1>3 DEF RejectLocally, NoPort, Kill, Finish, Active, TypeOK
  <2> QED BY <1>1, <2>1
<1>4. ASSUME NEW d \in Callers, Open(d) PROVE Alone'
  <2>1. \A c \in Callers : ~Active(c)
    BY <1>4, FreeToStart DEF Open
  <2>2. \A c \in Callers : Active(c)' => c = d
    BY <1>4, <2>1 DEF Open, Active, TypeOK
  <2> QED BY <2>2 DEF Alone
<1>5. ASSUME NEW d \in Callers, ClientStep(d) PROVE Alone'
  <2>1. \A c \in Callers : Active(c)' => Active(c)
    BY <1>5, ClientLocal DEF Active
  <2> QED BY <1>1, <2>1
<1>6. CASE ServerStep \/ ServerDies
  BY <1>1, <1>6, ServerLocal DEF ServerDies, client, Active
<1> QED BY <1>2, <1>3, <1>4, <1>5, <1>6 DEF Next

LEMMA OwnChunks ==
    ASSUME NEW c \in Callers
    PROVE  /\ \A k \in Controls : Control(k) \in OwnUp(c)
           /\ Request(c) \in OwnUp(c)
           /\ \A k \in Replies : Reply(k) \in OwnDown(c)
           /\ \A v \in Verdicts : Response(c, v) \in OwnDown(c)
BY ChunkTypes DEF OwnUp, OwnDown, Control, Request, Reply, Response, Controls, Commands, Replies

\* The client that found the line clean adds its own chunks only, and takes
\* what is there, which is its own.
LEMMA OwnClient ==
    ASSUME TypeOK, NEW c \in Callers, OnlyOwn(c), resp[c] # NoFrame => resp[c].to = c, ClientStep(c)
    PROVE  OnlyOwn(c)' /\ (resp'[c] # NoFrame => resp'[c].to = c)
<1> DEFINE U == OwnUp(c)
           D == OwnDown(c)
<1>0. /\ up \in Seq(U) /\ sbuf \in Seq(U) /\ down \in Seq(D) /\ cbuf[c] \in Seq(D)
      /\ sbuf' = sbuf
  BY ClientLocal DEF OnlyOwn
<1>s. ASSUME NEW x \in U, Send(x) PROVE up' \in Seq(U)
  <2>1. Append(up, x) \in Seq(U)
    BY <1>0, AppendProperties
  <2> QED BY <1>0, <1>s, <2>1 DEF Send
<1>g. ASSUME GotLine(c), pc[c] \in {"zreply", "dreply"} PROVE cbuf'[c] \in Seq(D)
  <2>1. Holds(cbuf[c], Replies)
    BY <1>g DEF GotLine, ClientHas, ClientReads
  <2>2. After(cbuf[c], Replies) \in Seq(D)
    BY <1>0, <2>1, AfterIsSuffix
  <2> QED BY <1>g, <2>2 DEF GotLine, TypeOK
<1>f. <<>> \in Seq(D) /\ \A o : Finish(c, o) => cbuf'[c] = <<>>
  BY EmptySeq DEF Finish, TypeOK
<1>q. ASSUME up' \in Seq(U), down' \in Seq(D), cbuf'[c] \in Seq(D) PROVE OnlyOwn(c)'
  BY <1>0, <1>q DEF OnlyOwn, OwnUp, OwnDown
<1> HIDE DEF U, D
<1>k. \A k \in Controls : Control(k) \in U
  BY OwnChunks DEF U
<1>1. CASE ClientFill(c)
  <2>1. cbuf[c] \o down \in Seq(D)
    BY <1>0, ConcatProperties
  <2> QED BY <1>0, <1>1, <1>f, <1>q, <2>1 DEF ClientFill, TypeOK
<1>2. CASE Dial(c)
  <2>1. up' \in Seq(U)
    BY <1>2, <1>k, <1>s DEF Dial, Controls, Commands
  <2> QED BY <1>0, <1>2, <1>g, <1>q, <2>1 DEF Dial
<1>3. CASE SendRequest(c)
  <2>1. up' \in Seq(U)
    BY <1>3, <1>s, OwnChunks DEF SendRequest, U
  <2> QED BY <1>0, <1>3, <1>g, <1>q, <2>1 DEF SendRequest
<1>4. CASE SendFails(c)
  BY <1>0, <1>4, <1>g, <1>q DEF SendFails, line
<1>5. CASE NotConnected(c)
  BY <1>0, <1>5, <1>f, <1>q DEF NotConnected, line
<1>6. CASE TakeFrame(c)
  <2>1. up' \in Seq(U)
    BY <1>6, <1>k, <1>s DEF TakeFrame, Controls
  <2>2. Head(cbuf[c]) \in D /\ Tail(cbuf[c]) \in Seq(D)
    BY <1>0, <1>6, HeadTailProperties DEF TakeFrame
  <2>3. cbuf'[c] = Tail(cbuf[c]) /\ resp'[c] = Head(cbuf[c]) /\ down' = down
    BY <1>6 DEF TakeFrame, TypeOK
  <2>4. resp'[c].to = c
    BY <1>6, <2>2, <2>3 DEF TakeFrame, D, OwnDown
  <2> QED BY <1>0, <1>q, <2>1, <2>2, <2>3, <2>4
<1>7. CASE LineNoise(c)
  <2>1. up' \in Seq(U)
    BY <1>7, <1>k, <1>s DEF LineNoise, Controls
  <2> QED BY <1>0, <1>7, <1>q, <2>1 DEF LineNoise
<1>8. CASE HangUp(c)
  <2>1. up' \in Seq(U)
    BY <1>8, <1>k, <1>s DEF HangUp, Controls, Commands
  <2> QED BY <1>0, <1>8, <1>q, <2>1 DEF HangUp
<1>9. CASE Close(c)
  BY <1>0, <1>9, <1>f, <1>q DEF Close, line
<1> QED BY <1>1, <1>2, <1>3, <1>4, <1>5, <1>6, <1>7, <1>8, <1>9 DEF ClientStep

\* The server answers whom the request is from.
LEMMA OwnServer ==
    ASSUME TypeOK, NEW c \in Callers, OnlyOwn(c), ServerStep
    PROVE  OnlyOwn(c)'
<1> DEFINE U == OwnUp(c)
           D == OwnDown(c)
<1>0. /\ up \in Seq(U) /\ sbuf \in Seq(U) /\ down \in Seq(D) /\ cbuf[c] \in Seq(D)
      /\ cbuf' = cbuf
  BY ServerLocal DEF OnlyOwn
<1>q. ASSUME up' \in Seq(U), sbuf' \in Seq(U), down' \in Seq(D) PROVE OnlyOwn(c)'
  BY <1>0, <1>q DEF OnlyOwn, OwnUp, OwnDown
<1> HIDE DEF U, D
<1>a. \A kinds : Holds(sbuf, kinds) => After(sbuf, kinds) \in Seq(U)
  BY <1>0, AfterIsSuffix
<1>r. \A k \in Replies : Append(down, Reply(k)) \in Seq(D)
  <2>1. \A k \in Replies : Reply(k) \in D
    BY OwnChunks DEF D
  <2> QED BY <1>0, <2>1, AppendProperties
<1>1. CASE ServerFill
  <2>1. sbuf \o up \in Seq(U) /\ <<>> \in Seq(U)
    BY <1>0, ConcatProperties, EmptySeq
  <2> QED BY <1>0, <1>1, <1>q, <2>1 DEF ServerFill
<1>2. CASE ServerOK \/ ServerConnect \/ ServerError \/ ServerHangup
  <2>1. up' = up /\ Holds(sbuf, Commands) /\ sbuf' = After(sbuf, Commands)
    BY <1>2 DEF ServerOK, ServerConnect, ServerError, ServerHangup, ReadCommand, ServerHas, ServerReads
  <2>2. down' = down \/ \E k \in Replies : down' = Append(down, Reply(k))
    BY <1>2 DEF ServerOK, ServerConnect, ServerError, ServerHangup, Replies
  <2>3. down' \in Seq(D)
    BY <1>0, <1>r, <2>2
  <2> QED BY <1>0, <1>a, <1>q, <2>1, <2>3
<1>3. CASE ServerAuthorise
  <2>1. Head(sbuf) \in U /\ Tail(sbuf) \in Seq(U)
    BY <1>0, <1>3, HeadTailProperties DEF ServerAuthorise
  <2>2. Head(sbuf).from = c
    BY <1>3, <2>1 DEF ServerAuthorise, U, OwnUp
  <2>3. Response(c, Authorise(card[c])) \in D
    BY OwnChunks, ChunkTypes DEF D, TypeOK
  <2>4. Append(down, Response(c, Authorise(card[c]))) \in Seq(D)
    BY <1>0, <2>3, AppendProperties
  <2>5. up' = up /\ sbuf' = Tail(sbuf) /\ down' = Append(down, Response(c, Authorise(card[c])))
    BY <1>3, <2>2 DEF ServerAuthorise
  <2> QED BY <1>0, <1>q, <2>1, <2>4, <2>5
<1>4. CASE ServerNoise
  <2> DEFINE x == [Head(sbuf) EXCEPT !.intact = FALSE]
  <2>1. Head(sbuf) \in UpChunk /\ Tail(sbuf) \in Seq(U)
    BY <1>0, <1>4, HeadTailProperties DEF ServerNoise, TypeOK
  <2>2. Head(sbuf) \in [kind : Controls, intact : BOOLEAN]
    BY <1>4, <2>1, UpChunkShape DEF ServerNoise
  <2>3. x \in UpChunk /\ x.kind \in Controls
    BY <2>2 DEF UpChunk
  <2>4. x \in U
    <3> HIDE DEF x
    <3>1. x.kind # "REQUEST"
      BY <2>3 DEF Controls, Commands
    <3> QED BY <2>3, <3>1 DEF U, OwnUp
  <2>5. <<x>> \o Tail(sbuf) \in Seq(U)
    <3> HIDE DEF x
    <3>1. <<x>> \in Seq(U)
      BY <2>4
    <3> QED BY <2>1, <3>1, ConcatProperties
  <2> QED BY <1>0, <1>4, <1>q, <2>5 DEF ServerNoise
<1>5. CASE ServerEscape
  <2>1. Holds(sbuf, {"+++"}) /\ sbuf' = After(sbuf, {"+++"}) /\ up' = up /\ down' = down
    BY <1>5 DEF ServerEscape, ServerHas, ServerReads
  <2> QED BY <1>0, <1>a, <1>q, <2>1
<1>6. CASE ServerTimeout
  BY <1>0, <1>6, <1>q DEF ServerTimeout
<1> QED BY <1>1, <1>2, <1>3, <1>4, <1>5, <1>6 DEF ServerStep

LEMMA OwnInit == Init => OwnInv
BY DEF Init, OwnInv, OwnOK, Alone, Active

LEMMA OwnNext ==
    ASSUME Terminals = 1, LineInv, OwnInv, [Next]_vars
    PROVE  OwnInv'
<1> USE DEF LineInv, OwnInv
<1>1. Alone'
  BY AloneNext
<1>2. SUFFICES ASSUME NEW c \in Callers PROVE OwnOK(c)'
  BY <1>1
<1>3. ASSUME ~Active(c)', pc'[c] = "idle" => pc[c] = "idle", met'[c] = met[c],
             resp'[c] = resp[c] \/ resp'[c] = NoFrame
      PROVE  OwnOK(c)'
  BY <1>3 DEF OwnOK
<1>4. CASE UNCHANGED vars
  BY <1>4 DEF vars, OwnOK, OnlyOwn, OwnUp, OwnDown, Active
<1>5. ASSUME NEW d \in Callers, RejectLocally(d) \/ NoPort(d) \/ Kill(d) PROVE OwnOK(c)'
  <2>1. /\ pc'[d] = "closed" /\ \A e \in Callers \ {d} : pc'[e] = pc[e]
        /\ met' = met /\ \A e \in Callers : resp'[e] = resp[e] \/ resp'[e] = NoFrame
    BY <1>5 DEF RejectLocally, NoPort, Kill, Finish, TypeOK
  <2>2. \A e \in Callers \ {d} : ~Active(e)
    BY <1>5, FreeToStart DEF RejectLocally, NoPort, Kill, Alone
  <2>3. ~Active(c)'
    BY <2>1, <2>2 DEF Active
  <2> QED BY <1>3, <2>1, <2>3
<1>6. ASSUME NEW d \in Callers, Open(d) PROVE OwnOK(c)'
  <2>1. \A e \in Callers : ~Active(e)
    BY <1>6, FreeToStart DEF Open
  <2>2. CASE c = d
    <3>1. /\ pc[c] = "idle" /\ pc'[c] = "zreply" /\ server # "dead" /\ Send(Control("ATZ"))
          /\ sbuf' = sbuf /\ down' = down /\ cbuf' = cbuf /\ resp' = resp
          /\ met'[c] = "clean" => Rested /\ down = <<>>
      BY <1>6, <2>2 DEF Open, MayStart, TypeOK
    <3>2. cbuf[c] = <<>> /\ resp[c] = NoFrame
      BY <3>1 DEF DialerInv, DialerOK
    <3>3. ASSUME met'[c] = "clean" PROVE OnlyOwn(c)'
      <4>1. up = <<>> /\ sbuf = <<>> /\ down = <<>>
        BY <3>1, <3>3 DEF Rested
      <4>2. <<>> \in Seq(OwnUp(c)) /\ <<>> \in Seq(OwnDown(c))
        BY EmptySeq
      <4>3. Control("ATZ") \in OwnUp(c)
        BY OwnChunks DEF Controls, Commands
      <4>4. Append(<<>>, Control("ATZ")) \in Seq(OwnUp(c))
        BY <4>2, <4>3, AppendProperties
      <4> QED BY <3>1, <3>2, <4>1, <4>2, <4>4 DEF OnlyOwn, OwnUp, OwnDown, Send
    <3> QED BY <3>1, <3>2, <3>3 DEF OwnOK
  <2>3. CASE c # d
    <3>1. pc'[c] = pc[c] /\ met'[c] = met[c] /\ resp' = resp
      BY <1>6, <2>3 DEF Open, TypeOK
    <3> QED BY <1>3, <2>1, <3>1 DEF Active
  <2> QED BY <2>2, <2>3
<1>7. ASSUME NEW d \in Callers, ClientStep(d) PROVE OwnOK(c)'
  <2>1. CASE c = d
    <3>1. met' = met /\ Active(c) /\ pc'[c] # "idle"
      BY <1>7, <2>1, ClientLocal
    <3>2. met[c] = "clean" => OnlyOwn(c)' /\ (resp'[c] # NoFrame => resp'[c].to = c)
      BY <1>7, <2>1, <3>1, OwnClient DEF OwnOK
    <3> QED BY <3>1, <3>2 DEF OwnOK
  <2>2. CASE c # d
    <3>1. pc'[c] = pc[c] /\ met' = met /\ resp'[c] = resp[c] /\ Active(d)
      BY <1>7, <2>2, ClientLocal
    <3>2. ~Active(c)
      BY <2>2, <3>1 DEF Alone
    <3> QED BY <1>3, <3>1, <3>2 DEF Active
  <2> QED BY <2>1, <2>2
<1>8. CASE ServerStep
  <2>1. pc' = pc /\ met' = met /\ resp' = resp
    BY <1>8, ServerLocal
  <2>2. Active(c) /\ met[c] = "clean" => OnlyOwn(c)'
    BY <1>8, OwnServer DEF OwnOK
  <2> QED BY <2>1, <2>2 DEF OwnOK, Active
<1>9. CASE ServerDies
  <2>1. <<>> \in Seq(OwnUp(c)) /\ <<>> \in Seq(OwnDown(c))
    BY EmptySeq
  <2> QED BY <1>9, <2>1 DEF ServerDies, client, OwnOK, OnlyOwn, OwnUp, OwnDown, Active
<1> QED BY <1>4, <1>5, <1>6, <1>7, <1>8, <1>9 DEF Next

\* When one call ends before the next begins, a caller that found the line
\* clean is given no answer but its own, whatever stalls, dies or is killed.
THEOREM CleanAnswerIsOwn ==
    ASSUME Terminals = 1
    PROVE  Spec => []AnswerIsOwn
<1>1. Init => OwnInv
  BY OwnInit
<1>2. LineInv /\ OwnInv /\ [Next]_vars => OwnInv'
  BY OwnNext
<1>3. OwnInv => AnswerIsOwn
  BY DEF OwnInv, OwnOK, AnswerIsOwn
<1> QED BY <1>1, <1>2, <1>3, LineInvariant, PTL DEF Spec

(***************************************************************************)
(* An undisturbed call.  When, beside that, no deadline passes early and    *)
(* the server stays alive, a call on a clean line goes through the phases   *)
(* below in order and always has exactly one party with something to do.    *)
(***************************************************************************)
Verdict(c) == Response(c, Authorise(card[c]))

Sent(a) == (up = <<a>> /\ sbuf = <<>>) \/ (up = <<>> /\ sbuf = <<a>>)
Awaiting(c) == down = <<>> /\ cbuf[c] = <<>>

Answered(c, b) ==
    /\ up = <<>> /\ sbuf = <<>>
    /\ (down = <<b>> /\ cbuf[c] = <<>>) \/ (down = <<>> /\ cbuf[c] = <<b>>)

HangingUp ==
    \/ up = <<Control("+++"), Control("ATH0")>> /\ sbuf = <<>>
    \/ up = <<Control("ATH0")>> /\ sbuf = <<Control("+++")>>
    \/ up = <<>> /\ sbuf = <<Control("+++"), Control("ATH0")>>

Phase(c) ==
    \/ pc[c] = "zreply" /\ server = "command" /\ Sent(Control("ATZ")) /\ Awaiting(c)
    \/ pc[c] = "zreply" /\ server = "command" /\ Answered(c, Reply("OK"))
    \/ pc[c] = "dreply" /\ server = "command" /\ Sent(Control("ATDT")) /\ Awaiting(c)
    \/ pc[c] = "dreply" /\ server = "frame" /\ Answered(c, Reply("CONNECT"))
    \/ pc[c] = "rframe" /\ server = "frame" /\ Sent(Request(c)) /\ Awaiting(c)
    \/ pc[c] = "rframe" /\ server = "escape" /\ Answered(c, Verdict(c))
    \/ pc[c] = "pause" /\ server = "escape" /\ Sent(Control("+++")) /\ Awaiting(c)
    \/ pc[c] = "pause" /\ server = "hangup" /\ up = <<>> /\ sbuf = <<>> /\ Awaiting(c)
    \/ pc[c] = "hreply" /\ server = "escape" /\ HangingUp /\ Awaiting(c)
    \/ pc[c] = "hreply" /\ server = "hangup" /\ Sent(Control("ATH0")) /\ Awaiting(c)
    \/ pc[c] = "hreply" /\ server = "command" /\ Answered(c, Reply("OK"))

Books(c) ==
    /\ charged[c] = IF pc[c] \in {"zreply", "dreply"} \/ server = "frame" THEN 0 ELSE 1
    /\ resp[c] = IF pc[c] \in {"pause", "hreply"} THEN Verdict(c) ELSE NoFrame

\* Lines and buffers of one and two chunks.
LEMMA ShortHolds ==
    /\ \A kinds : ~Holds(<<>>, kinds)
    /\ \A a, kinds : Holds(<<a>>, kinds) <=> a.kind \in kinds
    /\ \A a, b, kinds : Holds(<<a, b>>, kinds) <=> (a.kind \in kinds \/ b.kind \in kinds)
BY DEF Holds

LEMMA SubSeqOneOf ==
    ASSUME NEW S, NEW s, NEW m \in Int, s[m] \in S
    PROVE  SubSeq(s, m, m) = <<s[m]>>
<1>1. \A i \in m .. m : s[i] \in S
  OBVIOUS
<1>2. /\ SubSeq(s, m, m) \in Seq(S)
      /\ Len(SubSeq(s, m, m)) = IF m <= m THEN m - m + 1 ELSE 0
      /\ \A i \in 1 .. m - m + 1 : SubSeq(s, m, m)[i] = s[m + i - 1]
  BY <1>1, SubSeqProperties
<1>3. Len(SubSeq(s, m, m)) = 1 /\ SubSeq(s, m, m)[1] = s[m]
  BY <1>2
<1>4. <<s[m]>> \in Seq(S) /\ Len(<<s[m]>>) = 1 /\ <<s[m]>>[1] = s[m]
  OBVIOUS
<1>5. ASSUME NEW u \in Seq(S), NEW v \in Seq(S), Len(u) = 1, Len(v) = 1, u[1] = v[1]
      PROVE  u = v
  BY <1>5, SeqEqual
<1> QED BY <1>2, <1>3, <1>4, <1>5

LEMMA SubSeqOne ==
    ASSUME NEW s, NEW m \in Int
    PROVE  SubSeq(s, m, m) = <<s[m]>>
<1>1. s[m] \in {s[m]}
  OBVIOUS
<1> QED BY <1>1, SubSeqOneOf, Zenon

LEMMA ShortAfter ==
    /\ \A a, kinds : a.kind \in kinds => After(<<a>>, kinds) = <<>> /\ Line(<<a>>, kinds) = <<a>>
    /\ \A a, b, kinds : a.kind \in kinds => After(<<a, b>>, kinds) = <<b>>
<1>1. ASSUME NEW a, NEW kinds, a.kind \in kinds
      PROVE  After(<<a>>, kinds) = <<>> /\ Line(<<a>>, kinds) = <<a>>
  <2>1. <<a>> \in Seq({a}) /\ Holds(<<a>>, kinds) /\ Len(<<a>>) = 1
    BY <1>1, ShortHolds
  <2>2. FirstEnd(<<a>>, kinds) \in 1 .. Len(<<a>>)
    BY <2>1, FirstEndInDomain
  <2>3. FirstEnd(<<a>>, kinds) = 1
    BY <2>1, <2>2
  <2>4. SubSeq(<<a>>, 1, 1) = <<a>> /\ SubSeq(<<a>>, 2, 1) = <<>>
    <3>1. PICK s : s = <<a>>
      OBVIOUS
    <3>2. s[1] = a
      BY <3>1
    <3>3. SubSeq(s, 1, 1) = <<s[1]>> /\ SubSeq(s, 2, 1) = <<>>
      BY SubSeqOne, SubSeqEmpty
    <3> QED BY <3>1, <3>2, <3>3, Zenon
  <2> QED BY <2>1, <2>3, <2>4 DEF After, Line
<1>2. ASSUME NEW a, NEW b, NEW kinds, a.kind \in kinds
      PROVE  After(<<a, b>>, kinds) = <<b>>
  <2> DEFINE s == <<a, b>>
  <2>1. s \in Seq({a, b}) /\ Holds(s, kinds) /\ Len(s) = 2 /\ DOMAIN s = 1 .. 2 /\ s[1] = a
    BY <1>2, ShortHolds
  <2>2. FirstEnd(s, kinds) \in 1 .. 2
    BY <2>1, FirstEndInDomain
  <2>3. \E i \in DOMAIN s : /\ s[i].kind \in kinds
                            /\ \A j \in DOMAIN s : j < i => s[j].kind \notin kinds
    BY <1>2, <2>1
  <2>4. \A j \in DOMAIN s : j < FirstEnd(s, kinds) => s[j].kind \notin kinds
    <3> HIDE DEF s
    <3> QED BY <2>3, Zenon DEF FirstEnd
  <2>5. FirstEnd(s, kinds) = 1
    BY <1>2, <2>1, <2>2, <2>4
  <2>6. SubSeq(s, 2, 2) = <<b>>
    <3>1. s[2] = b
      OBVIOUS
    <3> HIDE DEF s
    <3>2. SubSeq(s, 2, 2) = <<s[2]>>
      BY SubSeqOne
    <3> QED BY <3>1, <3>2
  <2> QED BY <2>1, <2>5, <2>6 DEF After
<1> QED BY <1>1, <1>2

LEMMA ChunkKinds ==
    /\ \A k : Control(k).kind = k /\ Reply(k).kind = k
    /\ \A c : Request(c).kind = "REQUEST" /\ Request(c).from = c
    /\ \A c : Verdict(c).kind = "RESPONSE"
BY DEF Control, Reply, Request, Verdict, Response

\* Somebody always has something to do, so no deadline passes.
LEMMA Busy ==
    ASSUME NEW c \in Callers, Phase(c)
    PROVE  ~Quiet
<1> SUFFICES ASSUME Quiet PROVE FALSE
  OBVIOUS
<1>1. /\ pc[c] # "pause"
      /\ Reading(c) => down = <<>> /\ ~ClientHas(c)
      /\ server # "dead" => up = <<>> /\ ~ServerHas
  BY DEF Quiet, ClientReady, ServerReady
<1>2. \A a : Sent(a) /\ server # "dead" => sbuf = <<a>> /\ a.kind \notin ServerReads[server]
  BY <1>1, ShortHolds DEF Sent, ServerHas
<1>3. \A b : Answered(c, b) /\ Reading(c) => cbuf[c] = <<b>> /\ b.kind \notin ClientReads[pc[c]]
  BY <1>1, ShortHolds DEF Answered, ClientHas
<1>4. ~(server = "escape" /\ HangingUp)
  BY <1>1, ShortHolds, ChunkKinds DEF HangingUp, ServerHas, ServerReads
<1> QED BY <1>1, <1>2, <1>3, <1>4, ChunkKinds
        DEF Phase, Reading, ServerReads, ClientReads, Commands, Controls, Replies

LEMMA PairEqual ==
    ASSUME NEW S, NEW s \in Seq(S), Len(s) = 2
    PROVE  s = <<s[1], s[2]>>
<1>1. PICK t : t = <<s[1], s[2]>>
  OBVIOUS
<1>2. s[1] \in S /\ s[2] \in S
  BY ElementOfSeq
<1>3. t \in Seq(S) /\ Len(t) = 2 /\ t[1] = s[1] /\ t[2] = s[2]
  BY <1>1, <1>2
<1>4. \A i \in 1 .. Len(s) : s[i] = t[i]
  BY <1>3
<1>5. s = t
  BY <1>3, <1>4, SeqEqual
<1> QED BY <1>1, <1>5

LEMMA ShortJoins ==
    /\ \A a : <<a>> # <<>> /\ Head(<<a>>) = a /\ Tail(<<a>>) = <<>>
    /\ \A a, b : <<a, b>> # <<>> /\ Head(<<a, b>>) = a
    /\ \A a : <<>> \o <<a>> = <<a>> /\ Append(<<>>, a) = <<a>>
    /\ \A a, b : <<>> \o <<a, b>> = <<a, b>> /\ <<a>> \o <<b>> = <<a, b>> /\ Append(<<a>>, b) = <<a, b>>
<1>1. \A a : <<a>> # <<>> /\ Head(<<a>>) = a
  OBVIOUS
<1>2. \A a : Tail(<<a>>) = <<>>
  OBVIOUS
<1>3. \A a, b : <<a, b>> # <<>> /\ Head(<<a, b>>) = a
  OBVIOUS
<1>4. \A a : <<>> \o <<a>> = <<a>>
  OBVIOUS
<1>5. \A a : Append(<<>>, a) = <<a>>
  OBVIOUS
<1>6. \A a, b : <<>> \o <<a, b>> = <<a, b>>
  OBVIOUS
<1>7. \A a, b : <<a>> \o <<b>> = <<a, b>>
  <2> TAKE a, b
  <2>1. PICK s, t, S : s = <<a>> /\ t = <<b>> /\ S = {a, b}
    BY Zenon
  <2>2. s \in Seq(S) /\ t \in Seq(S) /\ Len(s) = 1 /\ Len(t) = 1 /\ s[1] = a /\ t[1] = b
    BY <2>1
  <2>3. s \o t \in Seq(S) /\ Len(s \o t) = 2 /\ (s \o t)[1] = a /\ (s \o t)[2] = b
    BY <2>2, ConcatProperties
  <2> QED BY <2>1, <2>3, PairEqual
<1>8. \A a, b : Append(<<a>>, b) = <<a, b>>
  <2> TAKE a, b
  <2>1. PICK s, S : s = <<a>> /\ S = {a, b}
    BY Zenon
  <2>2. s \in Seq(S) /\ b \in S
    BY <2>1
  <2>3. Append(s, b) = s \o <<b>>
    BY <2>2, AppendIsConcat, Zenon
  <2>4. Append(<<a>>, b) = <<a>> \o <<b>>
    BY <2>1, <2>3, Zenon
  <2> QED BY <1>7, <2>4, Zenon
<1> QED BY <1>1, <1>2, <1>3, <1>4, <1>5, <1>6, <1>7, <1>8

\* Where the server finds its line, its frame, its escape.
LEMMA PhaseServer ==
    ASSUME MayStall = FALSE, TypeOK, NEW c \in Callers, Phase(c), Books(c), ServerStep
    PROVE  Phase(c)' /\ Books(c)'
<1>0. /\ pc' = pc /\ cbuf' = cbuf /\ resp' = resp /\ card' = card
      /\ Verdict(c)' = Verdict(c) /\ Request(c)' = Request(c)
      /\ Control("ATH0")' = Control("ATH0") /\ Control("+++")' = Control("+++")
  BY ServerLocal DEF Verdict, Request, Control
<1>1. CASE ServerFill
  <2>1. /\ ~Holds(sbuf, ServerReads[server]) /\ up # <<>> /\ sbuf' = sbuf \o up /\ up' = <<>>
        /\ server' = server /\ down' = down /\ charged' = charged
    BY <1>1 DEF ServerFill, ServerHas
  <2>2. ASSUME NEW a, Sent(a) PROVE Sent(a)'
    BY <2>1, <2>2, ShortJoins DEF Sent
  <2>3. \A b : ~Answered(c, b)
    BY <2>1 DEF Answered
  <2>4. ASSUME server = "escape", HangingUp PROVE HangingUp'
    <3>1. ~Holds(sbuf, {"+++"})
      BY <2>1, <2>4 DEF ServerReads
    <3>2. sbuf # <<Control("+++")>>
      BY <3>1, ShortHolds, ChunkKinds
    <3>3. up = <<Control("+++"), Control("ATH0")>> /\ sbuf = <<>>
      BY <2>1, <2>4, <3>2 DEF HangingUp
    <3>4. sbuf' = <<Control("+++"), Control("ATH0")>>
      BY <2>1, <3>3, ShortJoins
    <3> QED BY <1>0, <2>1, <3>4 DEF HangingUp
  <2>5. Awaiting(c) => Awaiting(c)'
    BY <1>0, <2>1 DEF Awaiting
  <2> QED BY <1>0, <2>1, <2>2, <2>3, <2>4, <2>5 DEF Phase, Books
<1>2. ASSUME NEW k \in Commands, server \in {"command", "hangup"}, ServerHas, Phase(c)
      PROVE  \/ pc[c] = "zreply" /\ server = "command" /\ sbuf = <<Control("ATZ")>>
             \/ pc[c] = "dreply" /\ server = "command" /\ sbuf = <<Control("ATDT")>>
             \/ pc[c] = "hreply" /\ server = "hangup" /\ sbuf = <<Control("ATH0")>>
  <2>1. sbuf # <<>>
    BY <1>2, ShortHolds DEF ServerHas
  <2> QED BY <1>2, <2>1 DEF Phase, Sent, Answered
<1>3. CASE ServerOK
  <2>1. /\ server = "command" /\ ServerHas
        /\ sbuf' = After(sbuf, Commands) /\ up' = up /\ charged' = charged /\ server' = server
        /\ Line(sbuf, Commands) = <<Control("ATZ")>> \/ Line(sbuf, Commands) = <<Control("ATH0")>>
        /\ down' = Append(down, Reply("OK"))
    BY <1>3 DEF ServerOK, ReadCommand, Understood, CommandLine
  <2>2. pc[c] = "zreply" /\ sbuf = <<Control("ATZ")>>
    <3>1. sbuf = <<Control("ATDT")>> => Line(sbuf, Commands) = <<Control("ATDT")>>
      BY ShortAfter, ChunkKinds DEF Commands
    <3>2. Control("ATDT") # Control("ATZ") /\ Control("ATDT") # Control("ATH0")
      BY ChunkKinds
    <3> QED BY <1>2, <2>1, <3>1, <3>2 DEF Commands
  <2>3. up = <<>> /\ Awaiting(c)
    BY <2>1, <2>2, ShortJoins DEF Phase, Sent, Answered
  <2>4. sbuf' = <<>> /\ down' = <<Reply("OK")>>
    BY <2>1, <2>2, <2>3, ShortAfter, ShortJoins, ChunkKinds DEF Awaiting, Commands
  <2>5. Answered(c, Reply("OK"))'
    BY <1>0, <2>1, <2>3, <2>4 DEF Answered, Awaiting, Reply
  <2> QED BY <1>0, <2>1, <2>2, <2>5 DEF Phase, Books
<1>4. CASE ServerConnect
  <2>1. /\ server = "command" /\ ServerHas
        /\ sbuf' = After(sbuf, Commands) /\ up' = up /\ charged' = charged /\ server' = "frame"
        /\ Line(sbuf, Commands) = <<Control("ATDT")>>
        /\ down' = Append(down, Reply("CONNECT"))
    BY <1>4 DEF ServerConnect, ReadCommand, Understood, CommandLine
  <2>2. pc[c] = "dreply" /\ sbuf = <<Control("ATDT")>>
    <3>1. sbuf = <<Control("ATZ")>> => Line(sbuf, Commands) = <<Control("ATZ")>>
      BY ShortAfter, ChunkKinds DEF Commands
    <3>2. Control("ATDT") # Control("ATZ")
      BY ChunkKinds
    <3> QED BY <1>2, <2>1, <3>1, <3>2 DEF Commands
  <2>3. up = <<>> /\ Awaiting(c)
    BY <2>1, <2>2, ShortJoins DEF Phase, Sent, Answered
  <2>4. sbuf' = <<>> /\ down' = <<Reply("CONNECT")>>
    BY <2>1, <2>2, <2>3, ShortAfter, ShortJoins, ChunkKinds DEF Awaiting, Commands
  <2>5. Answered(c, Reply("CONNECT"))'
    BY <1>0, <2>1, <2>3, <2>4 DEF Answered, Awaiting, Reply
  <2> QED BY <1>0, <2>1, <2>2, <2>5 DEF Phase, Books
<1>5. CASE ServerError
  <2>1. server = "command" /\ ServerHas /\ \A k \in Commands : Line(sbuf, Commands) # <<Control(k)>>
    BY <1>5 DEF ServerError, ReadCommand, Understood, CommandLine
  <2>2. \A k \in Commands : sbuf = <<Control(k)>> => Line(sbuf, Commands) = <<Control(k)>>
    BY ShortAfter, ChunkKinds
  <2> QED BY <1>2, <2>1, <2>2 DEF Commands
<1>6. ASSUME server = "frame", sbuf # <<>>
      PROVE  /\ pc[c] = "rframe" /\ up = <<>> /\ sbuf = <<Request(c)>> /\ Awaiting(c)
             /\ Head(sbuf).kind = "REQUEST" /\ Head(sbuf).from = c
  BY <1>6, ShortJoins, ChunkKinds DEF Phase, Sent, Answered
<1>7. CASE ServerAuthorise
  <2>1. pc[c] = "rframe" /\ up = <<>> /\ sbuf = <<Request(c)>> /\ Awaiting(c) /\ Head(sbuf).from = c
    BY <1>6, <1>7 DEF ServerAuthorise
  <2>2. /\ charged' = [charged EXCEPT ![c] = @ + 1] /\ down' = Append(down, Verdict(c))
        /\ sbuf' = Tail(sbuf) /\ server' = "escape" /\ up' = up
    BY <1>7, <2>1 DEF ServerAuthorise, Verdict
  <2>3. sbuf' = <<>> /\ down' = <<Verdict(c)>>
    BY <2>1, <2>2, ShortJoins DEF Awaiting
  <2>4. Answered(c, Verdict(c))'
    BY <1>0, <2>1, <2>2, <2>3 DEF Answered, Awaiting
  <2>5. charged[c] = 0 /\ charged'[c] = 1
    BY <1>7, <2>1, <2>2 DEF Books, ServerAuthorise, TypeOK
  <2> QED BY <1>0, <2>1, <2>2, <2>4, <2>5 DEF Phase, Books
<1>8. CASE ServerNoise
  BY <1>6, <1>8 DEF ServerNoise
<1>9. CASE ServerEscape
  <2>1. /\ server = "escape" /\ Holds(sbuf, {"+++"}) /\ sbuf' = After(sbuf, {"+++"})
        /\ server' = "hangup" /\ up' = up /\ down' = down /\ charged' = charged
    BY <1>9 DEF ServerEscape, ServerHas, ServerReads
  <2>2. sbuf # <<>>
    BY <2>1, ShortHolds
  <2>3. Awaiting(c) /\ Awaiting(c)'
    BY <1>0, <2>1, <2>2 DEF Phase, Answered, Awaiting
  <2>4. CASE pc[c] = "pause"
    <3>1. up = <<>> /\ sbuf = <<Control("+++")>>
      BY <2>1, <2>2, <2>4 DEF Phase, Sent
    <3>2. sbuf' = <<>>
      BY <2>1, <3>1, ShortAfter, ChunkKinds
    <3> QED BY <1>0, <2>1, <2>3, <2>4, <3>1, <3>2 DEF Phase, Books
  <2>5. CASE pc[c] = "hreply"
    <3>1. \/ up = <<Control("ATH0")>> /\ sbuf = <<Control("+++")>>
          \/ up = <<>> /\ sbuf = <<Control("+++"), Control("ATH0")>>
      BY <2>1, <2>2, <2>5 DEF Phase, HangingUp
    <3>2. Sent(Control("ATH0"))'
      BY <1>0, <2>1, <3>1, ShortAfter, ChunkKinds DEF Sent
    <3> QED BY <1>0, <2>1, <2>3, <2>5, <3>2 DEF Phase, Books
  <2> QED BY <2>1, <2>2, <2>4, <2>5 DEF Phase, Answered
<1>10. CASE ServerHangup
  <2>1. /\ server = "hangup" /\ ServerHas
        /\ sbuf' = After(sbuf, Commands) /\ up' = up /\ charged' = charged /\ server' = "command"
        /\ Line(sbuf, Commands) = <<Control("ATH0")>> => down' = Append(down, Reply("OK"))
    BY <1>10 DEF ServerHangup, ReadCommand, Understood, CommandLine
  <2>2. pc[c] = "hreply" /\ sbuf = <<Control("ATH0")>>
    BY <1>2, <2>1 DEF Commands
  <2>3. up = <<>> /\ Awaiting(c)
    BY <2>1, <2>2, ShortJoins DEF Phase, Sent, Answered
  <2>4. Line(sbuf, Commands) = <<Control("ATH0")>> /\ sbuf' = <<>>
    BY <2>1, <2>2, ShortAfter, ChunkKinds DEF Commands
  <2>5. down' = <<Reply("OK")>>
    BY <2>1, <2>3, <2>4, ShortJoins DEF Awaiting
  <2>6. Answered(c, Reply("OK"))'
    BY <1>0, <2>1, <2>3, <2>4, <2>5 DEF Answered, Awaiting, Reply
  <2> QED BY <1>0, <2>1, <2>2, <2>6 DEF Phase, Books
<1>11. CASE ServerTimeout
  BY <1>11, Busy DEF ServerTimeout, DeadlinePasses
<1> QED BY <1>1, <1>3, <1>4, <1>5, <1>7, <1>8, <1>9, <1>10, <1>11 DEF ServerStep

LEMMA SendAlive ==
    ASSUME NEW a, Send(a), server # "dead"
    PROVE  /\ up = <<>> => up' = <<a>>
           /\ \A b : up = <<b>> => up' = <<b, a>>
BY ShortJoins DEF Send

\* Where the client finds its reply and its frame, and closes with its verdict.
LEMMA PhaseClient ==
    ASSUME MayStall = FALSE, TypeOK, NEW c \in Callers, Phase(c), Books(c), ClientStep(c)
    PROVE  \/ Phase(c)' /\ Books(c)' /\ Active(c)'
           \/ /\ Served(c)' /\ pc'[c] = "closed"
              /\ up' = <<>> /\ sbuf' = <<>> /\ down' = <<>> /\ server' = "command"
<1> USE DEF TypeOK
<1>0. /\ sbuf' = sbuf /\ server' = server /\ charged' = charged
      /\ Verdict(c)' = Verdict(c) /\ Request(c)' = Request(c)
      /\ \A k \in Controls : Control(k)' = Control(k)
      /\ \A k \in Replies : Reply(k)' = Reply(k)
  BY ClientLocal DEF Verdict, Request, Control, Reply
<1>a. server # "dead" /\ ~GaveUp(c)
  BY Busy DEF GaveUp, DeadlinePasses, Phase
<1>h. \A b : Answered(c, b) /\ ClientHas(c) => cbuf[c] = <<b>> /\ down = <<>> /\ up = <<>> /\ sbuf = <<>>
  BY ShortHolds DEF ClientHas, Answered
<1>n. Awaiting(c) => ~ClientHas(c) /\ down = <<>> /\ cbuf[c] = <<>>
  BY ShortHolds DEF ClientHas, Awaiting
<1>1. CASE ClientFill(c)
  <2>1. /\ ~ClientHas(c) /\ down # <<>> /\ cbuf'[c] = cbuf[c] \o down /\ down' = <<>> /\ up' = up
        /\ pc' = pc /\ resp' = resp
    BY <1>1 DEF ClientFill
  <2>2. ~Awaiting(c)
    BY <2>1 DEF Awaiting
  <2>3. ASSUME NEW b, Answered(c, b)
        PROVE  up' = <<>> /\ sbuf' = <<>> /\ down' = <<>> /\ cbuf'[c] = <<b>>
    BY <1>0, <2>1, <2>3, ShortJoins DEF Answered
  <2>4. /\ Answered(c, Reply("OK")) => Answered(c, Reply("OK"))'
        /\ Answered(c, Reply("CONNECT")) => Answered(c, Reply("CONNECT"))'
        /\ Answered(c, Verdict(c)) => Answered(c, Verdict(c))'
    BY <1>0, <2>3 DEF Answered, Replies
  <2> QED BY <1>0, <2>1, <2>2, <2>4 DEF Phase, Books, Active
<1>2. CASE Dial(c)
  <2>1. /\ pc[c] = "zreply" /\ GotLine(c) /\ Send(Control("ATDT"))
        /\ pc' = [pc EXCEPT ![c] = "dreply"] /\ down' = down /\ resp' = resp
    BY <1>2, <1>a DEF Dial
  <2>2. ClientHas(c) /\ cbuf'[c] = After(cbuf[c], Replies)
    BY <2>1 DEF GotLine
  <2>3. server = "command" /\ Answered(c, Reply("OK"))
    BY <1>n, <2>1, <2>2 DEF Phase
  <2>4. cbuf[c] = <<Reply("OK")>> /\ down = <<>> /\ up = <<>> /\ sbuf = <<>>
    BY <1>h, <2>2, <2>3
  <2>5. cbuf'[c] = <<>> /\ up' = <<Control("ATDT")>>
    <3>1. After(<<Reply("OK")>>, Replies) = <<>>
      BY ShortAfter, ChunkKinds DEF Replies
    <3> QED BY <1>a, <2>1, <2>2, <2>4, <3>1, SendAlive
  <2>6. Sent(Control("ATDT"))' /\ Awaiting(c)'
    BY <1>0, <2>1, <2>4, <2>5 DEF Sent, Awaiting, Controls, Commands
  <2> QED BY <1>0, <2>1, <2>3, <2>6 DEF Phase, Books, Active
<1>3. ASSUME pc[c] = "dreply", ClientHas(c)
      PROVE  /\ server = "frame" /\ cbuf[c] = <<Reply("CONNECT")>> /\ Connected(c)
             /\ down = <<>> /\ up = <<>> /\ sbuf = <<>>
  <2>1. server = "frame" /\ Answered(c, Reply("CONNECT"))
    BY <1>3, <1>n DEF Phase
  <2>2. cbuf[c] = <<Reply("CONNECT")>> /\ down = <<>> /\ up = <<>> /\ sbuf = <<>>
    BY <1>3, <1>h, <2>1
  <2> QED BY <1>3, <2>1, <2>2, ShortJoins, ChunkKinds DEF Connected
<1>4. CASE SendRequest(c)
  <2>1. /\ pc[c] = "dreply" /\ ClientHas(c) /\ cbuf'[c] = After(cbuf[c], Replies)
        /\ Send(Request(c)) /\ pc' = [pc EXCEPT ![c] = "rframe"] /\ down' = down /\ resp' = resp
    BY <1>4 DEF SendRequest, GotLine
  <2>2. /\ server = "frame" /\ cbuf[c] = <<Reply("CONNECT")>>
        /\ down = <<>> /\ up = <<>> /\ sbuf = <<>>
    BY <1>3, <2>1
  <2>3. cbuf'[c] = <<>> /\ up' = <<Request(c)>>
    <3>1. After(<<Reply("CONNECT")>>, Replies) = <<>>
      BY ShortAfter, ChunkKinds DEF Replies
    <3> QED BY <1>a, <2>1, <2>2, <3>1, SendAlive
  <2>4. Sent(Request(c))' /\ Awaiting(c)'
    BY <1>0, <2>1, <2>2, <2>3 DEF Sent, Awaiting
  <2> QED BY <1>0, <2>1, <2>2, <2>4 DEF Phase, Books, Active
<1>5. CASE SendFails(c)
  BY <1>5, <1>a DEF SendFails
<1>6. CASE NotConnected(c)
  BY <1>6, <1>a, <1>3 DEF NotConnected
<1>7. ASSUME pc[c] = "rframe", cbuf[c] # <<>>
      PROVE  /\ server = "escape" /\ cbuf[c] = <<Verdict(c)>>
             /\ Head(cbuf[c]) = Verdict(c) /\ Tail(cbuf[c]) = <<>>
             /\ down = <<>> /\ up = <<>> /\ sbuf = <<>>
  <2>1. server = "escape" /\ Answered(c, Verdict(c))
    BY <1>7, <1>n DEF Phase
  <2> QED BY <1>7, <2>1, ShortJoins DEF Answered
<1>8. CASE TakeFrame(c)
  <2>1. /\ pc[c] = "rframe" /\ cbuf[c] # <<>>
        /\ resp'[c] = Head(cbuf[c]) /\ cbuf'[c] = Tail(cbuf[c]) /\ Send(Control("+++"))
        /\ pc' = [pc EXCEPT ![c] = "pause"] /\ down' = down
    BY <1>8 DEF TakeFrame
  <2>2. /\ server = "escape" /\ resp'[c] = Verdict(c) /\ cbuf'[c] = <<>> /\ down' = <<>>
        /\ up = <<>> /\ sbuf = <<>>
    BY <1>7, <2>1
  <2>3. up' = <<Control("+++")>>
    BY <1>a, <2>1, <2>2, SendAlive
  <2>4. Sent(Control("+++"))' /\ Awaiting(c)'
    BY <1>0, <2>2, <2>3 DEF Sent, Awaiting, Controls
  <2> QED BY <1>0, <2>1, <2>2, <2>4 DEF Phase, Books, Active
<1>9. CASE LineNoise(c)
  BY <1>9, <1>a, <1>7, ChunkKinds DEF LineNoise
<1>10. CASE HangUp(c)
  <2>1. /\ pc[c] = "pause" /\ Send(Control("ATH0")) /\ pc' = [pc EXCEPT ![c] = "hreply"]
        /\ down' = down /\ cbuf' = cbuf /\ resp' = resp
    BY <1>10 DEF HangUp
  <2>2. Awaiting(c)'
    BY <2>1 DEF Phase, Awaiting
  <2>3. CASE server = "escape"
    <3>1. \/ up = <<Control("+++")>> /\ sbuf = <<>>
          \/ up = <<>> /\ sbuf = <<Control("+++")>>
      BY <2>1, <2>3 DEF Phase, Sent
    <3>2. \/ up' = <<Control("+++"), Control("ATH0")>> /\ sbuf' = <<>>
          \/ up' = <<Control("ATH0")>> /\ sbuf' = <<Control("+++")>>
      BY <1>0, <1>a, <2>1, <3>1, SendAlive
    <3>3. HangingUp'
      BY <1>0, <3>2 DEF HangingUp, Controls, Commands
    <3> QED BY <1>0, <2>1, <2>2, <2>3, <3>3 DEF Phase, Books, Active
  <2>4. CASE server = "hangup"
    <3>1. up = <<>> /\ sbuf = <<>>
      BY <2>1, <2>4 DEF Phase
    <3>2. up' = <<Control("ATH0")>>
      BY <1>a, <2>1, <3>1, SendAlive
    <3>3. Sent(Control("ATH0"))'
      BY <1>0, <3>1, <3>2 DEF Sent, Controls, Commands
    <3> QED BY <1>0, <2>1, <2>2, <2>4, <3>3 DEF Phase, Books, Active
  <2> QED BY <2>1, <2>3, <2>4 DEF Phase
<1>11. CASE Close(c)
  <2>1. /\ pc[c] = "hreply" /\ ClientHas(c) /\ Finish(c, ResultOf(resp[c]))
        /\ up' = up /\ down' = down /\ card' = card
    BY <1>11, <1>a DEF Close, line
  <2>2. server = "command" /\ Answered(c, Reply("OK"))
    BY <2>1, <1>n DEF Phase
  <2>3. up = <<>> /\ sbuf = <<>> /\ down = <<>>
    BY <1>h, <2>1, <2>2
  <2>4. charged[c] = 1 /\ resp[c] = Verdict(c)
    BY <2>1, <2>2 DEF Books
  <2>5. ResultOf(Verdict(c)) = Shown(Authorise(card[c]))
    BY DEF ResultOf, Shown, Verdict, Response, NoFrame
  <2>6. pc'[c] = "closed" /\ outcome'[c] = Shown(Authorise(card[c]))
    BY <2>1, <2>4, <2>5 DEF Finish
  <2>7. Served(c)'
    BY <1>0, <2>1, <2>4, <2>6 DEF Served
  <2>8. up' = <<>> /\ sbuf' = <<>> /\ down' = <<>> /\ server' = "command"
    BY <1>0, <2>1, <2>2, <2>3
  <2> QED BY <2>6, <2>7, <2>8
<1> QED BY <1>1, <1>2, <1>4, <1>5, <1>6, <1>8, <1>9, <1>10, <1>11 DEF ClientStep

CallOK(c) ==
    /\ pc[c] # "closed" => c \notin killed
    /\ Active(c) /\ met[c] = "clean" => Phase(c) /\ Books(c)
    /\ pc[c] = "closed" /\ met[c] = "clean" /\ c \notin killed => Served(c)

Still == server = "command" /\ up = <<>> /\ sbuf = <<>> /\ down = <<>>

\* Until somebody is killed every call finds the line as the first one did.
Untouched ==
    killed = {} =>
        /\ (\A c \in Callers : ~Active(c)) => Still
        /\ \A c \in Callers : Active(c) \/ (pc[c] = "closed" /\ Known(card[c])) => met[c] = "clean"

CalmInv == server # "dead" /\ (\A c \in Callers : CallOK(c)) /\ Untouched

LEMMA CalmInit == Init => CalmInv
BY DEF Init, CalmInv, CallOK, Untouched, Still, Active

\* A caller that is not on the line before or after a step.
LEMMA CallKept ==
    ASSUME NEW c \in Callers, CallOK(c), pc'[c] = pc[c], ~Active(c), met'[c] = met[c],
           c \in killed' <=> c \in killed, charged'[c] = charged[c], outcome'[c] = outcome[c],
           card' = card
    PROVE  CallOK(c)'
BY DEF CallOK, Active, Served

LEMMA CalmStart ==
    ASSUME Terminals = 1, LineInv, OwnInv, CalmInv, NEW d \in Callers, RejectLocally(d) \/ Open(d)
    PROVE  CalmInv'
<1> USE DEF LineInv, OwnInv, CalmInv
<1>0. /\ pc[d] = "idle" /\ met[d] = "none" /\ d \notin killed
      /\ killed' = killed /\ charged' = charged /\ card' = card /\ server' = server /\ resp' = resp
      /\ sbuf' = sbuf /\ down' = down
  BY DEF RejectLocally, Open, MayStart, OwnOK, CallOK, line
<1>1. \A c \in Callers : ~Active(c)
  BY FreeToStart DEF RejectLocally, Open
<1>2. /\ pc'[d] # "idle"
      /\ \A c \in Callers \ {d} : pc'[c] = pc[c] /\ met'[c] = met[c] /\ outcome'[c] = outcome[c]
  BY DEF RejectLocally, Open, Finish, TypeOK
<1>3. \A c \in Callers \ {d} : CallOK(c)'
  BY <1>0, <1>1, <1>2, CallKept
<1>4. CASE RejectLocally(d)
  <2>1. pc'[d] = "closed" /\ met' = met /\ up' = up /\ ~Known(card[d])
    BY <1>4 DEF RejectLocally, Finish, line, TypeOK
  <2>2. CallOK(d)'
    BY <1>0, <2>1 DEF CallOK, Active
  <2>3. Untouched'
    BY <1>0, <1>1, <1>2, <2>1 DEF Untouched, Still, Active
  <2> QED BY <1>0, <1>3, <2>2, <2>3
<1>5. CASE Open(d)
  <2>1. /\ pc'[d] = "zreply" /\ Send(Control("ATZ")) /\ cbuf' = cbuf /\ server # "dead"
        /\ met'[d] = IF ~Rested THEN "busy" ELSE IF down = <<>> THEN "clean" ELSE "stale"
    BY <1>5 DEF Open, TypeOK
  <2>2. ASSUME met'[d] = "clean" PROVE Phase(d)' /\ Books(d)'
    <3>1. Rested /\ down = <<>>
      BY <2>1, <2>2
    <3>2. cbuf[d] = <<>> /\ resp[d] = NoFrame /\ charged[d] = 0
      BY <1>0 DEF DialerInv, DialerOK, RequestInv, RequestOK, NoRequestYet
    <3>3. up' = <<Control("ATZ")>> /\ sbuf' = <<>> /\ server' = "command"
      BY <1>0, <2>1, <3>1, SendAlive DEF Rested
    <3>4. Control("ATZ")' = Control("ATZ")
      BY DEF Control
    <3>5. Sent(Control("ATZ"))' /\ Awaiting(d)'
      BY <1>0, <2>1, <3>1, <3>2, <3>3, <3>4 DEF Sent, Awaiting
    <3> QED BY <1>0, <2>1, <3>2, <3>3, <3>5 DEF Phase, Books
  <2>3. CallOK(d)'
    BY <1>0, <2>1, <2>2 DEF CallOK
  <2>4. killed = {} => met'[d] = "clean"
    BY <1>1, <2>1 DEF Untouched, Still, Rested
  <2>5. Untouched'
    BY <1>0, <1>1, <1>2, <2>1, <2>4 DEF Untouched, Active
  <2> QED BY <1>0, <1>3, <2>3, <2>5
<1> QED BY <1>4, <1>5

LEMMA CalmClient ==
    ASSUME MayStall = FALSE, LineInv, OwnInv, CalmInv, NEW d \in Callers, ClientStep(d)
    PROVE  CalmInv'
<1> USE DEF LineInv, OwnInv, CalmInv
<1>0. /\ Active(d) /\ pc'[d] # "idle"
      /\ card' = card /\ met' = met /\ killed' = killed /\ server' = server /\ charged' = charged
      /\ \A c \in Callers \ {d} : pc'[c] = pc[c] /\ outcome'[c] = outcome[c]
  BY ClientLocal
<1>1. \A c \in Callers \ {d} : ~Active(c)
  BY <1>0 DEF Alone
<1>2. \A c \in Callers \ {d} : CallOK(c)'
  BY <1>0, <1>1, CallKept
<1>3. ASSUME met[d] = "clean"
      PROVE  \/ Phase(d)' /\ Books(d)' /\ Active(d)'
             \/ Served(d)' /\ pc'[d] = "closed" /\ Still'
  <2>1. Phase(d) /\ Books(d)
    BY <1>0, <1>3 DEF CallOK
  <2> QED BY <2>1, PhaseClient DEF Still
<1>4. CallOK(d)'
  <2>1. d \notin killed'
    BY <1>0 DEF CallOK, Active
  <2> QED BY <1>0, <1>3, <2>1 DEF CallOK, Active
<1>5. ASSUME killed = {} PROVE Untouched'
  <2>1. met[d] = "clean"
    BY <1>0, <1>5 DEF Untouched
  <2>2. Active(d)' \/ Still'
    BY <1>3, <2>1
  <2>3. ASSUME NEW c \in Callers, Active(c)' \/ (pc'[c] = "closed" /\ Known(card[c]))
        PROVE  met[c] = "clean"
    BY <1>0, <1>1, <1>5, <2>1, <2>3 DEF Untouched, Active
  <2> QED BY <1>0, <2>2, <2>3 DEF Untouched
<1> QED BY <1>0, <1>2, <1>4, <1>5 DEF Untouched

LEMMA CalmServer ==
    ASSUME MayStall = FALSE, LineInv, OwnInv, CalmInv, ServerStep
    PROVE  CalmInv'
<1> USE DEF LineInv, OwnInv, CalmInv
<1>0. /\ pc' = pc /\ cbuf' = cbuf /\ resp' = resp /\ outcome' = outcome
      /\ card' = card /\ met' = met /\ killed' = killed
  BY ServerLocal
<1>1. server' # "dead"
  BY DEF ServerStep, ServerFill, ServerOK, ServerConnect, ServerError, ServerAuthorise, ServerNoise,
     ServerEscape, ServerHangup, ServerTimeout, ReadCommand
<1>2. \A c \in Callers : charged'[c] \in Nat /\ charged'[c] >= charged[c]
  <2>1. CASE ServerAuthorise
    BY <2>1 DEF ServerAuthorise, TypeOK
  <2>2. CASE ~ServerAuthorise
    <3>1. charged' = charged
      BY <2>2 DEF ServerStep, ServerFill, ServerOK, ServerConnect, ServerError, ServerNoise,
         ServerEscape, ServerHangup, ServerTimeout, ReadCommand
    <3> QED BY <3>1 DEF TypeOK
  <2> QED BY <2>1, <2>2
<1>3. ASSUME NEW c \in Callers PROVE CallOK(c)'
  <2>1. Active(c) /\ met[c] = "clean" => Phase(c)' /\ Books(c)'
    BY PhaseServer DEF CallOK
  <2>2. charged'[c] <= 1
    BY RequestServer DEF RequestOK, ChargedOnTaking
  <2>3. charged[c] = 1 => charged'[c] = 1
    BY <1>2, <2>2
  <2> QED BY <1>0, <2>1, <2>3 DEF CallOK, Served, Active
<1>4. ~Still
  <2> SUFFICES ASSUME Still PROVE FALSE
    OBVIOUS
  <2>1. ~Holds(sbuf, ServerReads[server]) /\ server = "command" /\ up = <<>> /\ sbuf = <<>>
    BY ShortHolds DEF Still
  <2> QED BY <2>1 DEF ServerStep, ServerFill, ServerOK, ServerConnect, ServerError, ServerAuthorise,
          ServerNoise, ServerEscape, ServerHangup, ServerTimeout, ReadCommand, ServerHas
<1>5. Untouched'
  BY <1>0, <1>4 DEF Untouched, Active
<1> QED BY <1>1, <1>3, <1>5

LEMMA CalmNext ==
    ASSUME Terminals = 1, MayStall = FALSE, ServerMayDie = FALSE, LineInv, OwnInv, CalmInv, [Next]_vars
    PROVE  CalmInv'
<1> USE DEF LineInv, OwnInv, CalmInv
<1>1. CASE UNCHANGED vars
  BY <1>1 DEF vars, CallOK, Untouched, Still, Active, Served, Phase, Books, Sent, Awaiting, Answered,
     HangingUp, Verdict, Control, Reply, Request, Response
<1>2. ASSUME NEW d \in Callers, NoPort(d) PROVE FALSE
  BY <1>2 DEF NoPort
<1>3. ASSUME NEW d \in Callers, Kill(d) PROVE CalmInv'
  <2>1. /\ Active(d) /\ pc'[d] = "closed" /\ killed' = killed \cup {d}
        /\ card' = card /\ met' = met /\ charged' = charged /\ server' = server
        /\ \A c \in Callers \ {d} : pc'[c] = pc[c] /\ outcome'[c] = outcome[c]
    BY <1>3 DEF Kill, Finish, line, TypeOK
  <2>2. ASSUME NEW c \in Callers \ {d} PROVE CallOK(c)'
    <3>1. ~Active(c)
      BY <2>1 DEF Alone
    <3> QED BY <2>1, <3>1, CallKept
  <2>3. CallOK(d)'
    BY <2>1 DEF CallOK, Active
  <2>4. killed' # {}
    BY <2>1
  <2> QED BY <2>1, <2>2, <2>3, <2>4 DEF Untouched
<1>4. ~ServerDies
  BY DEF ServerDies
<1> QED BY <1>1, <1>2, <1>3, <1>4, CalmStart, CalmClient, CalmServer DEF Next

LEMMA CalmInvariant ==
    ASSUME Terminals = 1, MayStall = FALSE, ServerMayDie = FALSE
    PROVE  Spec => []CalmInv
<1>1. Init => OwnInv /\ CalmInv
  BY OwnInit, CalmInit
<1>2. LineInv /\ OwnInv /\ CalmInv /\ [Next]_vars => OwnInv' /\ CalmInv'
  BY OwnNext, CalmNext
<1> QED BY <1>1, <1>2, LineInvariant, PTL DEF Spec

\* One call after the other and nobody held up: as long as nobody was killed,
\* every caller with a known card is told the verdict on that card.
THEOREM EveryoneTheirOwn ==
    ASSUME Terminals = 1, MayStall = FALSE, ServerMayDie = FALSE
    PROVE  Spec => []OwnVerdict
<1>1. CalmInv => OwnVerdict
  BY DEF CalmInv, Untouched, CallOK, OwnVerdict
<1> QED BY <1>1, CalmInvariant, PTL

\* Whatever was killed before: a call that finds the line clean is served.
THEOREM CleanLineServes ==
    ASSUME Terminals = 1, MayStall = FALSE, ServerMayDie = FALSE
    PROVE  Spec => []CleanCallServed
<1>1. CalmInv => CleanCallServed
  BY DEF CalmInv, CallOK, CleanCallServed
<1> QED BY <1>1, CalmInvariant, PTL
=============================================================================
