----------------------------- MODULE DialupLine -----------------------------
(***************************************************************************)
(* One pseudo-terminal between TestServers/DialupServer (the modem bank)    *)
(* and the Clients/DialupClient processes that ChargeCard starts, one per   *)
(* call.  Nobody ever flushes the line: the server keeps its own slave      *)
(* descriptor open (server.c:176), so what a client leaves unread waits for *)
(* the next client.                                                         *)
(*                                                                          *)
(* The unit of data is what one bufio_write sends: an AT command, the       *)
(* escape, a reply line or a whole frame.  Each process reads through a     *)
(* private bufio_t that empties the kernel's queue only when it lacks what  *)
(* it waits for; a client's buffer dies with its close().                   *)
(***************************************************************************)
EXTENDS Naturals, Sequences, FiniteSets

CONSTANTS
    Callers,      \* the calls made on this line, one client process each
    Terminals,    \* how many of them can be in progress at once
    MaxKills,     \* bound: clients killed in mid-call
    MayStall,     \* TRUE: a deadline may pass while others still have work
    ServerMayDie, \* TRUE: the modem bank may be killed
    Presented     \* the classes of cards, of those below, that are presented

ASSUME CallsAssumption == Terminals \in Nat /\ MaxKills \in Nat
ASSUME FaultAssumption == MayStall \in BOOLEAN /\ ServerMayDie \in BOOLEAN

(***************************************************************************)
(* The data.  A card is what the cashier typed, by the classes the code     *)
(* tells apart: "mismatch" is a known number with another expiry or CVV.    *)
(***************************************************************************)
Cards == {"approve", "decline", "mismatch", "unknown"}

ASSUME PresentedAssumption == Presented \subseteq Cards

\* Mutant of Known: the client no longer looks the number up.
KnownAlways(card) == card \in Cards

Known(card) == card # "unknown"

Verdicts == {"APPROVAL 00", "DECLINE 05", "DECLINE 14"}

\* Mutant of Authorise: the answer loses its code.
AuthoriseNoCode(card) == IF card = "approve" THEN "APPROVAL" ELSE "DECLINE"

Authorise(card) ==
    CASE card = "approve" -> "APPROVAL 00"
      [] card = "decline" -> "DECLINE 05"
      [] OTHER            -> "DECLINE 14"

Outcomes == {"Approved", "Declined", "RejectedLocally", "NoCarrier", "Error"}

\* What clients write.  A command ends in CR, "+++" and a frame do not;
\* intact is FALSE once recv_frame has eaten the first byte.
Commands == {"ATZ", "ATDT", "ATH0"}
Controls == Commands \cup {"+++"}

Control(k) == [kind |-> k, intact |-> TRUE]
Request(c) == [kind |-> "REQUEST", from |-> c]

UpChunk == [kind : Controls, intact : BOOLEAN]
           \cup [kind : {"REQUEST"}, from : Callers]

\* What the server writes.  A reply ends in CRLF, a frame does not.
Replies == {"OK", "CONNECT", "ERROR"}

Reply(k) == [kind |-> k]
Response(c, v) == [kind |-> "RESPONSE", to |-> c, verdict |-> v]

DownChunk == [kind : Replies]
             \cup [kind : {"RESPONSE"}, to : Callers, verdict : Verdicts]

NoFrame == [kind |-> "none"]

(***************************************************************************)
(* bufio_read_until: a terminator is present, the bytes through the first   *)
(* one, and what stays behind.                                              *)
(***************************************************************************)
Holds(s, kinds) == \E i \in DOMAIN s : s[i].kind \in kinds

FirstEnd(s, kinds) ==
    CHOOSE i \in DOMAIN s :
        /\ s[i].kind \in kinds
        /\ \A j \in DOMAIN s : j < i => s[j].kind \notin kinds

Line(s, kinds) == SubSeq(s, 1, FirstEnd(s, kinds))
After(s, kinds) == SubSeq(s, FirstEnd(s, kinds) + 1, Len(s))

(***************************************************************************)
(* The state                                                                *)
(***************************************************************************)
VARIABLES
    card,     \* card[c]: what caller c presents; never changes
    up,       \* written by clients, not yet read by the server
    sbuf,     \* the server's bufio_t
    server,   \* the read the server is blocked in, or "dead"
    down,     \* written by the server, read by whichever client fills first
    cbuf,     \* cbuf[c]: the bufio_t of client c
    pc,       \* pc[c]: where client c is in authorize()
    resp,     \* resp[c]: the frame recv_frame gave client c
    outcome,  \* outcome[c]: the AuthOutcome ChargeCard returns
    charged,  \* history: how often the server authorised the request of c
    met,      \* history: the line as c found it when it opened the port
    killed    \* history: the clients killed in mid-call

line == <<up, sbuf, server, down>>
client == <<cbuf, pc, resp, outcome>>
vars == <<card, up, sbuf, server, down, cbuf, pc, resp, outcome, charged, met, killed>>

\* What each read of the server and of a client waits for.
ServerReads == [command |-> Commands, frame |-> Controls \cup {"REQUEST"},
                escape |-> {"+++"}, hangup |-> Commands]
ClientReads == [zreply |-> Replies, dreply |-> Replies,
                rframe |-> Replies \cup {"RESPONSE"}, hreply |-> Replies]

Reading(c) == pc[c] \in DOMAIN ClientReads
Active(c) == pc[c] \notin {"idle", "closed"}

ServerHas == Holds(sbuf, ServerReads[server])
ClientHas(c) == Holds(cbuf[c], ClientReads[pc[c]])

TypeOK ==
    /\ card \in [Callers -> Cards]
    /\ up \in Seq(UpChunk)
    /\ sbuf \in Seq(UpChunk)
    /\ server \in DOMAIN ServerReads \cup {"dead"}
    /\ down \in Seq(DownChunk)
    /\ cbuf \in [Callers -> Seq(DownChunk)]
    /\ pc \in [Callers -> {"idle", "pause", "closed"} \cup DOMAIN ClientReads]
    /\ resp \in [Callers -> {NoFrame} \cup DownChunk]
    /\ outcome \in [Callers -> Outcomes \cup {"none"}]
    /\ charged \in [Callers -> Nat]
    /\ met \in [Callers -> {"none", "clean", "stale", "busy"}]
    /\ killed \subseteq Callers

Init ==
    /\ card \in [Callers -> Presented]
    /\ up = <<>> /\ sbuf = <<>> /\ down = <<>>
    /\ server = "command"
    /\ cbuf = [c \in Callers |-> <<>>]
    /\ pc = [c \in Callers |-> "idle"]
    /\ resp = [c \in Callers |-> NoFrame]
    /\ outcome = [c \in Callers |-> "none"]
    /\ charged = [c \in Callers |-> 0]
    /\ met = [c \in Callers |-> "none"]
    /\ killed = {}

(***************************************************************************)
(* Time.  A read gives up when its deadline passes before what it waits for *)
(* is in the buffer; bufio_fill looks at the clock before it looks at the   *)
(* descriptor (bufio.c:38-39), so a process held up long enough gives up on *)
(* data that has arrived.  That is MayStall.  Without stalls a deadline     *)
(* (5 to 15 s) passes only when nobody on the line has anything left to do. *)
(***************************************************************************)
ServerReady == server # "dead" /\ (up # <<>> \/ ServerHas)
ClientReady(c) == pc[c] = "pause" \/ (Reading(c) /\ (down # <<>> \/ ClientHas(c)))

Quiet == ~ServerReady /\ \A c \in Callers : ~ClientReady(c)

DeadlinePasses == MayStall \/ Quiet

(***************************************************************************)
(* A client: authorize() of client_lib.c, on behalf of ChargeCard.          *)
(***************************************************************************)
Send(ch) == up' = IF server = "dead" THEN up ELSE Append(up, ch)

\* Mutant of GotLine: bufio_read_until does not advance b->start.
GotLineKept(c) == ClientHas(c) /\ UNCHANGED cbuf

GotLine(c) == ClientHas(c) /\ cbuf' = [cbuf EXCEPT ![c] = After(@, Replies)]

\* Mutant of GaveUp: the reads of the client have no deadline.
GaveUpIfHungUp(c) == ~ClientHas(c) /\ server = "dead"

\* select() timed out, or read() saw the hangup of a dead server at once.
GaveUp(c) ==
    /\ ~ClientHas(c)
    /\ DeadlinePasses \/ server = "dead"

Finish(c, result) ==
    /\ pc' = [pc EXCEPT ![c] = "closed"]
    /\ outcome' = [outcome EXCEPT ![c] = result]
    /\ cbuf' = [cbuf EXCEPT ![c] = <<>>]

\* Mutant of MayStart: ChargeCard does not wait for the client to exit.
MayStartAtOnce(c) == pc[c] = "idle"

MayStart(c) ==
    /\ pc[c] = "idle"
    /\ Cardinality({d \in Callers : Active(d)}) < Terminals

RejectLocally(c) ==
    /\ MayStart(c)
    /\ ~Known(card[c])
    /\ Finish(c, "RejectedLocally")
    /\ UNCHANGED <<card, line, resp, charged, met, killed>>

NoPort(c) ==
    /\ MayStart(c)
    /\ Known(card[c])
    /\ server = "dead"
    /\ Finish(c, "NoCarrier")
    /\ UNCHANGED <<card, line, resp, charged, met, killed>>

Rested == server = "command" /\ up = <<>> /\ sbuf = <<>> /\ \A d \in Callers : ~Active(d)

Open(c) ==
    /\ MayStart(c)
    /\ Known(card[c])
    /\ server # "dead"
    /\ Send(Control("ATZ"))
    /\ pc' = [pc EXCEPT ![c] = "zreply"]
    /\ met' = [met EXCEPT ![c] = IF ~Rested THEN "busy"
                                 ELSE IF down = <<>> THEN "clean" ELSE "stale"]
    /\ UNCHANGED <<card, sbuf, server, down, cbuf, resp, outcome, charged, killed>>

\* bufio_fill: one read() empties the queue, whoever the data was meant for.
ClientFill(c) ==
    /\ Reading(c)
    /\ ~ClientHas(c)
    /\ down # <<>>
    /\ cbuf' = [cbuf EXCEPT ![c] = @ \o down]
    /\ down' = <<>>
    /\ UNCHANGED <<card, up, sbuf, server, pc, resp, outcome, charged, met, killed>>

\* Whatever the answer to ATZ is, and if there is none, the client dials.
Dial(c) ==
    /\ pc[c] = "zreply"
    /\ GotLine(c) \/ (GaveUp(c) /\ UNCHANGED cbuf)
    /\ Send(Control("ATDT"))
    /\ pc' = [pc EXCEPT ![c] = "dreply"]
    /\ UNCHANGED <<card, sbuf, server, down, resp, outcome, charged, met, killed>>

Connected(c) == ClientHas(c) /\ Head(cbuf[c]).kind = "CONNECT"

SendRequest(c) ==
    /\ pc[c] = "dreply"
    /\ Connected(c)
    /\ GotLine(c)
    /\ server # "dead"
    /\ Send(Request(c))
    /\ pc' = [pc EXCEPT ![c] = "rframe"]
    /\ UNCHANGED <<card, sbuf, server, down, resp, outcome, charged, met, killed>>

\* The server died after CONNECT: send_frame fails, "+++" goes nowhere.
SendFails(c) ==
    /\ pc[c] = "dreply"
    /\ Connected(c)
    /\ GotLine(c)
    /\ server = "dead"
    /\ pc' = [pc EXCEPT ![c] = "pause"]
    /\ UNCHANGED <<card, line, resp, outcome, charged, met, killed>>

NotConnected(c) ==
    /\ pc[c] = "dreply"
    /\ (ClientHas(c) /\ ~Connected(c)) \/ GaveUp(c)
    /\ Finish(c, "NoCarrier")
    /\ UNCHANGED <<card, line, resp, charged, met, killed>>

TakeFrame(c) ==
    /\ pc[c] = "rframe"
    /\ cbuf[c] # <<>>
    /\ Head(cbuf[c]).kind = "RESPONSE"
    /\ resp' = [resp EXCEPT ![c] = Head(cbuf[c])]
    /\ cbuf' = [cbuf EXCEPT ![c] = Tail(@)]
    /\ Send(Control("+++"))
    /\ pc' = [pc EXCEPT ![c] = "pause"]
    /\ UNCHANGED <<card, sbuf, server, down, outcome, charged, met, killed>>

\* Mutant of LineNoise: the client sends its request again when no answer came.
LineNoiseRetries(c) ==
    /\ pc[c] = "rframe"
    /\ (cbuf[c] # <<>> /\ Head(cbuf[c]).kind # "RESPONSE") \/ GaveUp(c)
    /\ Send(Request(c))
    /\ pc' = [pc EXCEPT ![c] = "pause"]
    /\ UNCHANGED <<card, sbuf, server, down, cbuf, resp, outcome, charged, met, killed>>

\* No STX at the head, or no answer in time.  The byte recv_frame eats off a
\* reply line is never looked at: only its CRLF counts from here on.
LineNoise(c) ==
    /\ pc[c] = "rframe"
    /\ (cbuf[c] # <<>> /\ Head(cbuf[c]).kind # "RESPONSE") \/ GaveUp(c)
    /\ Send(Control("+++"))
    /\ pc' = [pc EXCEPT ![c] = "pause"]
    /\ UNCHANGED <<card, sbuf, server, down, cbuf, resp, outcome, charged, met, killed>>

\* After the 200 ms pause.
HangUp(c) ==
    /\ pc[c] = "pause"
    /\ Send(Control("ATH0"))
    /\ pc' = [pc EXCEPT ![c] = "hreply"]
    /\ UNCHANGED <<card, sbuf, server, down, cbuf, resp, outcome, charged, met, killed>>

\* Mutant of ResultOf: no answer is reported as NO CARRIER.
ResultNoCarrier(frame) ==
    IF frame = NoFrame THEN "NoCarrier"
    ELSE IF frame.verdict = "APPROVAL 00" THEN "Approved" ELSE "Declined"

ResultOf(frame) ==
    IF frame = NoFrame THEN "Error"
    ELSE IF frame.verdict = "APPROVAL 00" THEN "Approved" ELSE "Declined"

\* Mutant of Close: the port is closed without reading the answer to ATH0.
CloseAtOnce(c) ==
    /\ pc[c] = "hreply"
    /\ Finish(c, ResultOf(resp[c]))
    /\ UNCHANGED <<card, line, resp, charged, met, killed>>

Close(c) ==
    /\ pc[c] = "hreply"
    /\ ClientHas(c) \/ GaveUp(c)
    /\ Finish(c, ResultOf(resp[c]))
    /\ UNCHANGED <<card, line, resp, charged, met, killed>>

\* The client process is killed; ChargeCard maps its exit code to Error.
Kill(c) ==
    /\ Active(c)
    /\ Cardinality(killed) < MaxKills
    /\ Finish(c, "Error")
    /\ resp' = [resp EXCEPT ![c] = NoFrame]
    /\ killed' = killed \cup {c}
    /\ UNCHANGED <<card, line, charged, met>>

ClientStep(c) ==
    \/ ClientFill(c) \/ Dial(c) \/ SendRequest(c) \/ SendFails(c)
    \/ NotConnected(c) \/ TakeFrame(c) \/ LineNoise(c) \/ HangUp(c) \/ Close(c)

(***************************************************************************)
(* The server: run() of server.c.                                           *)
(***************************************************************************)
ServerFill ==
    /\ server # "dead"
    /\ ~ServerHas
    /\ up # <<>>
    /\ sbuf' = sbuf \o up
    /\ up' = <<>>
    /\ UNCHANGED <<card, server, down, client, charged, met, killed>>

\* The command line is the command alone, not its tail and not the end of
\* something longer.
Understood(s, k) == s = <<Control(k)>>

CommandLine == Line(sbuf, Commands)

ReadCommand(state) ==
    /\ server = state
    /\ ServerHas
    /\ sbuf' = After(sbuf, Commands)
    /\ UNCHANGED <<card, up, client, charged, met, killed>>

ServerOK ==
    /\ ReadCommand("command")
    /\ Understood(CommandLine, "ATZ") \/ Understood(CommandLine, "ATH0")
    /\ down' = Append(down, Reply("OK"))
    /\ UNCHANGED server

ServerConnect ==
    /\ ReadCommand("command")
    /\ Understood(CommandLine, "ATDT")
    /\ down' = Append(down, Reply("CONNECT"))
    /\ server' = "frame"

ServerError ==
    /\ ReadCommand("command")
    /\ \A k \in Commands : ~Understood(CommandLine, k)
    /\ down' = Append(down, Reply("ERROR"))
    /\ UNCHANGED server

\* Mutant of ServerAuthorise: the request stays in the buffer and the server
\* waits for a frame again.
ServerAuthoriseRepeats ==
    /\ server = "frame"
    /\ sbuf # <<>>
    /\ Head(sbuf).kind = "REQUEST"
    /\ LET c == Head(sbuf).from IN
       /\ charged' = [charged EXCEPT ![c] = @ + 1]
       /\ down' = Append(down, Response(c, Authorise(card[c])))
    /\ UNCHANGED <<card, up, sbuf, server, client, met, killed>>

\* recv_frame, authorize and send_frame.
ServerAuthorise ==
    /\ server = "frame"
    /\ sbuf # <<>>
    /\ Head(sbuf).kind = "REQUEST"
    /\ LET c == Head(sbuf).from IN
       /\ charged' = [charged EXCEPT ![c] = @ + 1]
       /\ down' = Append(down, Response(c, Authorise(card[c])))
    /\ sbuf' = Tail(sbuf)
    /\ server' = "escape"
    /\ UNCHANGED <<card, up, client, met, killed>>

\* recv_frame eats one byte that is not STX and fails.
ServerNoise ==
    /\ server = "frame"
    /\ sbuf # <<>>
    /\ Head(sbuf).kind # "REQUEST"
    /\ sbuf' = <<[Head(sbuf) EXCEPT !.intact = FALSE]>> \o Tail(sbuf)
    /\ server' = "command"
    /\ UNCHANGED <<card, up, down, client, charged, met, killed>>

\* Everything through "+++" is thrown away.
ServerEscape ==
    /\ server = "escape"
    /\ ServerHas
    /\ sbuf' = After(sbuf, {"+++"})
    /\ server' = "hangup"
    /\ UNCHANGED <<card, up, down, client, charged, met, killed>>

ServerHangup ==
    /\ ReadCommand("hangup")
    /\ down' = IF Understood(CommandLine, "ATH0") THEN Append(down, Reply("OK")) ELSE down
    /\ server' = "command"

\* Mutant of ServerTimeout: the wait for "+++" has no deadline.
ServerTimeoutNotInEscape ==
    /\ server \in {"frame", "hangup"}
    /\ ~ServerHas
    /\ DeadlinePasses
    /\ server' = "command"
    /\ UNCHANGED <<card, up, sbuf, down, client, charged, met, killed>>

\* 10 s for a frame, 15 s for "+++", 5 s for the hangup command; the bytes
\* read so far stay in the buffer.
ServerTimeout ==
    /\ server \in {"frame", "escape", "hangup"}
    /\ ~ServerHas
    /\ DeadlinePasses
    /\ server' = "command"
    /\ UNCHANGED <<card, up, sbuf, down, client, charged, met, killed>>

\* The master side closes: the kernel hangs up the line and drops its queues.
ServerDies ==
    /\ ServerMayDie
    /\ server # "dead"
    /\ server' = "dead"
    /\ up' = <<>> /\ sbuf' = <<>> /\ down' = <<>>
    /\ UNCHANGED <<card, client, charged, met, killed>>

ServerStep ==
    \/ ServerFill \/ ServerOK \/ ServerConnect \/ ServerError \/ ServerAuthorise
    \/ ServerNoise \/ ServerEscape \/ ServerHangup \/ ServerTimeout

Next ==
    \/ \E c \in Callers :
          RejectLocally(c) \/ NoPort(c) \/ Open(c) \/ ClientStep(c) \/ Kill(c)
    \/ ServerStep
    \/ ServerDies

Spec == Init /\ [][Next]_vars

(***************************************************************************)
(* Fairness: a process that can run does run, and a deadline that may pass  *)
(* does pass; nobody has to place a call, be killed or die.                 *)
(***************************************************************************)
Fairness ==
    /\ \A c \in Callers : WF_vars(ClientStep(c))
    /\ WF_vars(ServerStep)

FairSpec == Spec /\ Fairness
(***************************************************************************)
(* Safety                                                                   *)
(***************************************************************************)

\* A request is authorised at most once, however often the line stalls, the
\* client gives up or the server falls back to command mode and finds the
\* bytes again (run() with the bytes bufio_read_until kept, bufio.c:95).
AtMostOneCharge == \A c \in Callers : charged[c] <= 1

\* An answer of the server reaches at most one caller, and it is the answer to
\* a request the server did authorise: no caller is shown a verdict that was
\* shown to another or that was never given, whoever's it was (recv_frame on
\* a line that several clients read).
AnswersUsedOnce ==
    \A c \in Callers : resp[c] # NoFrame =>
        /\ resp[c].kind = "RESPONSE"
        /\ charged[resp[c].to] > 0
        /\ resp[c].verdict = Authorise(card[resp[c].to])
        /\ \A d \in Callers \ {c} : resp[d] # NoFrame => resp[d].to # resp[c].to

\* Trying again after NO CARRIER or a local rejection cannot charge twice: a
\* call that ends so was not authorised and never will be (authorize() closes
\* the port before it builds a request).
SafeToRetry ==
    \A c \in Callers : outcome[c] \in {"NoCarrier", "RejectedLocally"} =>
        /\ charged[c] = 0
        /\ \A i \in DOMAIN up : up[i] # Request(c)
        /\ \A i \in DOMAIN sbuf : sbuf[i] # Request(c)

Shown(verdict) == IF verdict = "APPROVAL 00" THEN "Approved" ELSE "Declined"

\* The call of c ended with the verdict on its own card, given by the server.
Served(c) == charged[c] = 1 /\ outcome[c] = Shown(Authorise(card[c]))

\* One call after the other and nobody held up: as long as no client was killed,
\* every caller with a known card gets the verdict on that card.
OwnVerdict ==
    killed = {} => \A c \in Callers : pc[c] = "closed" /\ Known(card[c]) => Served(c)

\* A call that finds the server resting and nothing left to read is served,
\* whatever happened to the calls before it and whoever follows it.
CleanCallServed ==
    \A c \in Callers : pc[c] = "closed" /\ met[c] = "clean" /\ c \notin killed => Served(c)

\* A frame does not say whose it is (recv_frame takes the first that comes).  A
\* caller that finds the server resting and nothing left to read is nevertheless
\* given its own answer or none, as long as one call ends before the next begins.
AnswerIsOwn ==
    \A c \in Callers : met[c] = "clean" /\ resp[c] # NoFrame => resp[c].to = c

(***************************************************************************)
(* What the README says of the demo cards (README.md:24-26)                 *)
(***************************************************************************)

\* "decline with `4000000000000002`": that card is never shown as approved.
DeclineCardDeclined == \A c \in Callers : card[c] = "decline" => outcome[c] # "Approved"

\* "approve with `4242 4242 4242 4242`": a call with that card, placed when
\* the server rests in command mode and nobody else is on the line, succeeds.
ApproveCardApproved ==
    \A c \in Callers :
        /\ pc[c] = "closed"
        /\ c \notin killed
        /\ met[c] \in {"clean", "stale"}
        /\ card[c] = "approve"
        => outcome[c] = "Approved"

(***************************************************************************)
(* Liveness                                                                 *)
(***************************************************************************)

\* authorize() returns: no read of it waits for ever.
EveryCallEnds == \A c \in Callers : pc[c] # "idle" ~> pc[c] = "closed"

\* The server does not stay connected to a caller who is gone: it comes back
\* to command mode (or is dead).
ServerComesBack == server # "command" ~> server \in {"command", "dead"}

(***************************************************************************)
(* Refinement: to whoever only sees cards, charges and outcomes, the line   *)
(* is a charge desk whose receipts may get lost or change hands.            *)
(***************************************************************************)
InFlight(c) ==
    \/ \E i \in DOMAIN down : down[i].kind = "RESPONSE" /\ down[i].to = c
    \/ \E d \in Callers :
          \/ \E i \in DOMAIN cbuf[d] : cbuf[d][i].kind = "RESPONSE" /\ cbuf[d][i].to = c
          \/ resp[d] # NoFrame /\ resp[d].to = c /\ outcome[d] = "none"

Desk == INSTANCE ChargeDesk WITH
            ledger <- {c \in Callers : charged[c] > 0},
            receipts <- {c \in Callers : InFlight(c)}

DeskSpec == Desk!Spec
=============================================================================
