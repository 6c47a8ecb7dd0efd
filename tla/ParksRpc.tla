------------------------------ MODULE ParksRpc ------------------------------
(***************************************************************************)
(* Calls of ParksRpcClient to ParksRpcServer: ONC RPC over TCP, one         *)
(* connection per call.                                                     *)
(*                                                                          *)
(* CallAsync writes the record marker and the message separately and reads  *)
(* the reply with ReadExactAsync, in whatever pieces it comes.  The server  *)
(* is one thread in libtirpc's svc_run: it turns to a connection that has   *)
(* something to read, waits there for the rest of the record, calls the     *)
(* procedure, which fills a static result, and sends it.  libtirpc is       *)
(* modelled from how parks_svc.c uses it.                                   *)
(*                                                                          *)
(* Units: a record marker is MarkerLength of them, the message of a call    *)
(* one, the header of a reply one and each park in it one.                  *)
(***************************************************************************)
EXTENDS Naturals, FiniteSets

CONSTANTS
    Callers,      \* the calls made, by any number of programs
    Nobody,
    Parks,        \* PARKS of park.c
    Elsewhere,    \* a name no park has
    MaxListed,    \* PARK_MAX_COUNT, the size of listall's static arrays
    SendBuffer,   \* how much of a reply libtirpc puts into one fragment
    MaxStops,     \* bound: how often a caller is suspended
    MaxKills,     \* bound: callers killed
    ServerMayDie, \* TRUE: the server may be killed
    MayStall      \* TRUE: 35 s may pass although the caller is running

ASSUME NobodyAssumption == Nobody \notin Callers /\ "dead" \notin Callers /\ Nobody # "dead"
ASSUME ParksAssumption ==
    /\ IsFiniteSet(Parks) /\ Parks # {} /\ Elsewhere \notin Parks
    /\ Cardinality(Parks) <= MaxListed
ASSUME RpcBoundsAssumption ==
    /\ MaxListed \in Nat /\ SendBuffer \in Nat /\ MaxStops \in Nat /\ MaxKills \in Nat
    /\ ServerMayDie \in BOOLEAN /\ MayStall \in BOOLEAN

(***************************************************************************)
(* Calls and results                                                        *)
(***************************************************************************)
Call ==
    [proc : {"LISTALL"}]
    \cup [proc : {"GETBYNAME"}, name : Parks \cup {Elsewhere}]
    \cup [proc : {"FINDNEAREST"}, nearest : Parks]

Found(p) == [found |-> TRUE, park |-> p]
NotFound == [found |-> FALSE]
Listing == [list |-> Parks]

Result == {Found(p) : p \in Parks} \cup {NotFound, Listing}
NoResult == [none |-> TRUE]

MarkerLength == 2
ReplyLength(result) == 1 + IF result = Listing THEN Cardinality(Parks) ELSE 1

\* The static results of parks_proc.c; listall's is the same whenever it is read.
Static == [getbyname : Result \cup {NoResult}, findnearest : Result \cup {NoResult}]

VARIABLES
    call,    \* call[c]: what caller c asks for; never changes
    pc,      \* pc[c]: where caller c is in CallAsync
    wrote,   \* wrote[c]: records parts on the wire: the marker, then the message
    got,     \* got[c]: how much of the reply c has read
    result,  \* result[c]: what CallAsync returned, decoded
    conn,    \* conn[c]: the connection of c, as the server left it
    reply,   \* reply[c]: what the server has sent to c
    static,  \* the static results of the procedures
    server,  \* the caller whose record svc_run is reading, Nobody, or "dead"
    dropped, \* history: the callers libtirpc gave up on
    stopped, \* the callers suspended now
    stops,   \* history: how often a caller was suspended
    kills    \* history: how many callers were killed

vars == <<call, pc, wrote, got, result, conn, reply, static, server, dropped, stopped, stops, kills>>
serverVars == <<conn, reply, static, server, dropped>>
faults == <<stopped, stops, kills>>

Ended(c) == pc[c] \in {"done", "failed", "killed"}

\* What of the reply is there to read.
Arrived(c) == IF reply[c] = NoResult THEN 0 ELSE MarkerLength + ReplyLength(reply[c])

TypeOK ==
    /\ call \in [Callers -> Call]
    /\ pc \in [Callers -> {"idle", "connected", "marked", "marker", "fragment",
                           "done", "failed", "killed"}]
    /\ wrote \in [Callers -> 0 .. 2]
    /\ got \in [Callers -> Nat] /\ \A c \in Callers : got[c] <= Arrived(c)
    /\ result \in [Callers -> Result \cup {NoResult}]
    /\ conn \in [Callers -> {"none", "open", "closed"}]
    /\ reply \in [Callers -> Result \cup {NoResult}]
    /\ static \in Static
    /\ server \in Callers \cup {Nobody, "dead"}
    /\ dropped \subseteq Callers /\ stopped \subseteq Callers
    /\ stops \in 0 .. MaxStops /\ kills \in 0 .. MaxKills

Init ==
    /\ call \in [Callers -> Call]
    /\ pc = [c \in Callers |-> "idle"]
    /\ wrote = [c \in Callers |-> 0]
    /\ got = [c \in Callers |-> 0]
    /\ result = [c \in Callers |-> NoResult]
    /\ conn = [c \in Callers |-> "none"]
    /\ reply = [c \in Callers |-> NoResult]
    /\ static = [getbyname |-> NoResult, findnearest |-> NoResult]
    /\ server = Nobody
    /\ dropped = {} /\ stopped = {}
    /\ stops = 0 /\ kills = 0

(***************************************************************************)
(* A caller: CallAsync                                                      *)
(***************************************************************************)
Goes(c, from, to) == pc[c] = from /\ pc' = [pc EXCEPT ![c] = to]

Connect(c) ==
    /\ IF server = "dead"
       THEN Goes(c, "idle", "failed") /\ UNCHANGED conn
       ELSE Goes(c, "idle", "connected") /\ conn' = [conn EXCEPT ![c] = "open"]
    /\ UNCHANGED <<call, wrote, got, result, reply, static, server, dropped, faults>>

\* A write to a connection the server has closed may still go through.
WriteMarker(c) ==
    /\ Goes(c, "connected", "marked")
    /\ wrote' = [wrote EXCEPT ![c] = 1]
    /\ UNCHANGED <<call, got, result, serverVars, faults>>

WriteMessage(c) ==
    /\ Goes(c, "marked", "marker")
    /\ wrote' = [wrote EXCEPT ![c] = 2]
    /\ UNCHANGED <<call, got, result, serverVars, faults>>

WriteFails(c) ==
    /\ conn[c] = "closed"
    /\ Goes(c, "connected", "failed") \/ Goes(c, "marked", "failed")
    /\ UNCHANGED <<call, wrote, got, result, serverVars, faults>>

\* What ReadExactAsync is asked for, counted from the start of the reply.
Wanted(c) ==
    CASE pc[c] = "marker"   -> MarkerLength
      [] pc[c] = "fragment" -> MarkerLength + ReplyLength(reply[c])
      [] OTHER              -> 0

\* The loop of ReadExactAsync is over.
ReadWhole(c) == got[c] = Wanted(c)

ReadSome(c) ==
    /\ ~ReadWhole(c)
    /\ \E n \in 1 .. Wanted(c) - got[c] :
          /\ got[c] + n <= Arrived(c)
          /\ got' = [got EXCEPT ![c] = @ + n]
    /\ UNCHANGED <<call, pc, wrote, result, serverVars, faults>>

\* Mutant of ReadEnds: a read of no bytes is no reason to stop.
ReadEndsNever(c) == FALSE

\* Mutant of ReadEnds: a read of fewer bytes than asked for counts as the end.
ReadEndsShort(c) == ~ReadWhole(c) /\ got[c] > 0

\* The connection is at its end and nothing is left to read on it.
ReadEnds(c) == ~ReadWhole(c) /\ conn[c] = "closed" /\ got[c] = Arrived(c)

ReadFails(c) ==
    /\ ReadEnds(c)
    /\ Goes(c, "marker", "failed") \/ Goes(c, "fragment", "failed")
    /\ UNCHANGED <<call, wrote, got, result, serverVars, faults>>

\* A reply in more than one fragment is refused at its first marker.
MarkerRead(c) ==
    /\ ReadWhole(c)
    /\ Goes(c, "marker", IF ReplyLength(reply[c]) <= SendBuffer THEN "fragment" ELSE "failed")
    /\ UNCHANGED <<call, wrote, got, result, serverVars, faults>>

\* Xid, message type and status are those of an accepted call: it was sent on
\* this connection by a client that speaks the protocol.
Return(c) ==
    /\ ReadWhole(c)
    /\ Goes(c, "fragment", "done")
    /\ result' = [result EXCEPT ![c] = reply[c]]
    /\ UNCHANGED <<call, wrote, got, serverVars, faults>>

CallerStep(c) ==
    /\ c \notin stopped
    /\ \/ WriteMarker(c) \/ WriteMessage(c) \/ WriteFails(c)
       \/ ReadSome(c) \/ ReadFails(c) \/ MarkerRead(c) \/ Return(c)

(***************************************************************************)
(* The server: svc_run and parks_prog_1                                     *)
(***************************************************************************)

\* poll() reports a connection on which a record begins, or one at its end.
Readable(c) == conn[c] = "open" /\ (Ended(c) \/ (wrote[c] > 0 /\ reply[c] = NoResult))

TurnTo(c) ==
    /\ server = Nobody
    /\ Readable(c)
    /\ server' = c
    /\ UNCHANGED <<call, pc, wrote, got, result, conn, reply, static, dropped, faults>>

\* Mutant of GetByName: found is set whatever the search says.
GetByNameFinds(name) == Found(name)

\* Mutant of GetByName: the static result is touched only if there is a park.
GetByNameKeeps(name) ==
    IF name \in Parks THEN Found(name)
    ELSE IF static.getbyname = NoResult THEN NotFound ELSE static.getbyname

GetByName(name) == IF name \in Parks THEN Found(name) ELSE NotFound

\* The whole record is there: the procedure fills its static result, and
\* svc_sendreply sends what it finds there.
Serve(c) ==
    /\ server = c
    /\ wrote[c] = 2 /\ reply[c] = NoResult
    /\ static' = CASE call[c].proc = "GETBYNAME" ->
                          [static EXCEPT !.getbyname = GetByName(call[c].name)]
                   [] call[c].proc = "FINDNEAREST" ->
                          [static EXCEPT !.findnearest = Found(call[c].nearest)]
                   [] OTHER -> static
    /\ reply' = [reply EXCEPT ![c] =
                    CASE call[c].proc = "GETBYNAME"   -> static'.getbyname
                      [] call[c].proc = "FINDNEAREST" -> static'.findnearest
                      [] OTHER                        -> Listing]
    /\ server' = Nobody
    /\ UNCHANGED <<call, pc, wrote, got, result, conn, dropped, faults>>

\* End of file: the connection is destroyed, with half a record on it or none.
CallerGone(c) ==
    /\ server = c
    /\ Ended(c)
    /\ wrote[c] = 2 => reply[c] # NoResult
    /\ conn' = [conn EXCEPT ![c] = "closed"]
    /\ server' = Nobody
    /\ UNCHANGED <<call, pc, wrote, got, result, reply, static, dropped, faults>>

\* Nothing more of the record within 35 s.
GiveUp(c) ==
    /\ server = c
    /\ ~Ended(c) /\ wrote[c] = 1
    /\ c \in stopped \/ MayStall
    /\ conn' = [conn EXCEPT ![c] = "closed"]
    /\ dropped' = dropped \cup {c}
    /\ server' = Nobody
    /\ UNCHANGED <<call, pc, wrote, got, result, reply, static, faults>>

ServerStep == \E c \in Callers : TurnTo(c) \/ Serve(c) \/ CallerGone(c) \/ GiveUp(c)

(***************************************************************************)
(* Faults: callers are suspended, resumed and killed; the server is killed, *)
(* and what it had sent stays readable.                                     *)
(***************************************************************************)
Stop(c) ==
    /\ pc[c] # "idle" /\ ~Ended(c)
    /\ c \notin stopped /\ stops < MaxStops
    /\ stopped' = stopped \cup {c}
    /\ stops' = stops + 1
    /\ UNCHANGED <<call, pc, wrote, got, result, serverVars, kills>>

Resume(c) ==
    /\ c \in stopped
    /\ stopped' = stopped \ {c}
    /\ UNCHANGED <<call, pc, wrote, got, result, serverVars, stops, kills>>

Kill(c) ==
    /\ pc[c] # "idle" /\ ~Ended(c)
    /\ kills < MaxKills
    /\ kills' = kills + 1
    /\ pc' = [pc EXCEPT ![c] = "killed"]
    /\ stopped' = stopped \ {c}
    /\ UNCHANGED <<call, wrote, got, result, serverVars, stops>>

ServerDies ==
    /\ ServerMayDie /\ server # "dead"
    /\ server' = "dead"
    /\ conn' = [c \in Callers |-> IF conn[c] = "open" THEN "closed" ELSE conn[c]]
    /\ UNCHANGED <<call, pc, wrote, got, result, reply, static, dropped, faults>>

Next ==
    \/ \E c \in Callers : Connect(c) \/ CallerStep(c) \/ Stop(c) \/ Resume(c) \/ Kill(c)
    \/ ServerStep
    \/ ServerDies

Spec == Init /\ [][Next]_vars

\* A caller that is not suspended goes on, and the server serves whoever is
\* readable; nobody has to call, or to resume a suspended program.
Fairness == WF_vars(ServerStep) /\ \A c \in Callers : WF_vars(CallerStep(c))

FairSpec == Spec /\ Fairness

(***************************************************************************)
(* Properties                                                               *)
(***************************************************************************)
AnswerTo(q) ==
    CASE q.proc = "LISTALL"     -> Listing
      [] q.proc = "FINDNEAREST" -> Found(q.nearest)
      [] OTHER                  -> IF q.name \in Parks THEN Found(q.name) ELSE NotFound

\* In whatever pieces a reply arrives, and whichever calls the static results
\* served before, a call that returns returns the answer to itself
\* (ReadExactAsync, parks_proc.c).
OwnAnswer == \A c \in Callers : pc[c] = "done" => result[c] = AnswerTo(call[c])

\* A call fails only if the server died or waited 35 s for this very caller:
\* one that others have left hanging in mid-record costs nothing but time.
FailsAlone ==
    1 + MaxListed <= SendBuffer =>
        \A c \in Callers : pc[c] = "failed" => server = "dead" \/ c \in dropped

\* Every call of a program that is not suspended ends, although CallAsync has
\* no deadline and the server is one thread that other programs may keep.
EveryCallEnds == \A c \in Callers : pc[c] # "idle" ~> Ended(c) \/ c \in stopped
=============================================================================
