---------------------------- MODULE ServiceLaunch ----------------------------
(***************************************************************************)
(* One of the HTTP services (AstroTransitServer, WeatherSoapServer) and the *)
(* runs of the program that need it.                                        *)
(*                                                                          *)
(* A run tries to connect to the port, starts the server if it cannot,      *)
(* tries again for a while (ProcessSupervisor.EnsureListening) and then     *)
(* makes its call, whether or not a server was found.  Every successful try *)
(* leaves the server a connection on which nothing comes.  The server takes *)
(* one connection at a time and waits on it for as long as it stays open.   *)
(* A server is named after the run that started it; it outlives that run.   *)
(***************************************************************************)
EXTENDS Naturals, Sequences, FiniteSets

CONSTANTS
    Runs,       \* the runs of the program
    PollLimit,  \* how often a run tries again (50 in the code)
    Backlog,    \* connections the kernel keeps for a server (16 in the code)
    MaxKills,   \* bound: runs and servers killed
    MayStall    \* TRUE: 200 ms or 100 s may pass before something else happens

ASSUME LimitsAssumption ==
    PollLimit \in Nat /\ Backlog \in Nat \ {0} /\ MaxKills \in Nat
ASSUME StallAssumption == MayStall \in BOOLEAN

VARIABLES
    run,      \* run[r]: where run r is in EnsureListening and its call
    polls,    \* polls[r]: how often it has slept waiting for the port
    server,   \* server[s]: where the server that run s started is in main()
    backlog,  \* connections not yet accepted, oldest first
    current,  \* the connection being served, as a sequence of at most one
    sent,     \* the runs that have sent their request
    hit,      \* history: runs that counted on a listening server when it died
    slow,     \* history: runs that gave up waiting for the answer
    kills     \* history: how many processes were killed

vars == <<run, polls, server, backlog, current, sent, hit, slow, kills>>

\* A connection: made by IsListening, which drops it at once, or by the call.
Probe == [kind |-> "probe"]
Call(r) == [kind |-> "call", from |-> r]
Connection == {Probe} \cup [kind : {"call"}, from : Runs]

Listening(s) == server[s] \in {"listening", "accept", "read"}
Open == \E s \in Runs : Listening(s)
Room == Len(backlog) < Backlog

InCall(r) == run[r] \in {"send", "wait"}
HasConnection(r) == \E i \in DOMAIN (current \o backlog) : (current \o backlog)[i] = Call(r)
Gone(r) == run[r] \in {"served", "failed", "killed"}

TypeOK ==
    /\ run \in [Runs -> {"idle", "launch", "poll", "connect", "send", "wait",
                         "served", "failed", "killed"}]
    /\ polls \in [Runs -> 0 .. PollLimit]
    /\ server \in [Runs -> {"none", "started", "bound", "listening", "accept", "read", "dead"}]
    /\ backlog \in Seq(Connection) /\ Len(backlog) <= Backlog
    /\ current \in Seq(Connection) /\ Len(current) <= 1
    /\ sent \subseteq Runs /\ hit \subseteq Runs /\ slow \subseteq Runs
    /\ kills \in 0 .. MaxKills

Init ==
    /\ run = [r \in Runs |-> "idle"]
    /\ polls = [r \in Runs |-> 0]
    /\ server = [s \in Runs |-> "none"]
    /\ backlog = <<>> /\ current = <<>>
    /\ sent = {} /\ hit = {} /\ slow = {}
    /\ kills = 0

(***************************************************************************)
(* A run: EnsureListening                                                   *)
(***************************************************************************)
Goes(r, from, to) == run[r] = from /\ run' = [run EXCEPT ![r] = to]

\* IsListening: a backlog with no room looks like a port nobody listens on.
ProbeFinds == Open /\ Room /\ backlog' = Append(backlog, Probe)

ProbeMisses ==
    \/ ~(Open /\ Room) /\ UNCHANGED backlog
    \/ MayStall /\ ProbeFinds

Start(r) ==
    /\ \/ ProbeFinds /\ Goes(r, "idle", "connect")
       \/ ProbeMisses /\ Goes(r, "idle", "launch")
    /\ UNCHANGED <<polls, server, current, sent, hit, slow, kills>>

Launch(r) ==
    /\ Goes(r, "launch", "poll")
    /\ server' = [server EXCEPT ![r] = "started"]
    /\ UNCHANGED <<polls, backlog, current, sent, hit, slow, kills>>

\* Mutant of PollEnds: the call is made as soon as the server is started.
PollEndsAtOnce(r) ==
    /\ Goes(r, "poll", "connect")
    /\ UNCHANGED <<polls, server, backlog, current, sent, hit, slow, kills>>

PollEnds(r) ==
    /\ Goes(r, "poll", "connect")
    /\ IF polls[r] = PollLimit THEN UNCHANGED backlog ELSE ProbeFinds
    /\ UNCHANGED <<polls, server, current, sent, hit, slow, kills>>

\* Mutant of PollSleeps: one try too many.
PollSleepsOnceMore(r) ==
    /\ run[r] = "poll"
    /\ polls[r] <= PollLimit
    /\ ProbeMisses
    /\ polls' = [polls EXCEPT ![r] = @ + 1]
    /\ UNCHANGED <<run, server, current, sent, hit, slow, kills>>

PollSleeps(r) ==
    /\ run[r] = "poll"
    /\ polls[r] < PollLimit
    /\ ProbeMisses
    /\ polls' = [polls EXCEPT ![r] = @ + 1]
    /\ UNCHANGED <<run, server, current, sent, hit, slow, kills>>

(***************************************************************************)
(* A run: the call.  A connection waits for room in the backlog; without a  *)
(* listener it is refused, and a server that dies resets all of them.       *)
(***************************************************************************)
Connect(r) ==
    /\ Open /\ Room
    /\ Goes(r, "connect", "send")
    /\ backlog' = Append(backlog, Call(r))
    /\ UNCHANGED <<polls, server, current, sent, hit, slow, kills>>

Refused(r) ==
    /\ ~Open
    /\ Goes(r, "connect", "failed")
    /\ UNCHANGED <<polls, server, backlog, current, sent, hit, slow, kills>>

Send(r) ==
    /\ HasConnection(r)
    /\ Goes(r, "send", "wait")
    /\ sent' = sent \cup {r}
    /\ UNCHANGED <<polls, server, backlog, current, hit, slow, kills>>

Reset(r) ==
    /\ InCall(r)
    /\ ~HasConnection(r)
    /\ run' = [run EXCEPT ![r] = "failed"]
    /\ UNCHANGED <<polls, server, backlog, current, sent, hit, slow, kills>>

\* HttpClient gives up after 100 s, WeatherSoapClient after a minute.
TimesOut(r) ==
    /\ MayStall
    /\ run[r] = "connect" \/ InCall(r)
    /\ run' = [run EXCEPT ![r] = "failed"]
    /\ slow' = slow \cup {r}
    /\ UNCHANGED <<polls, server, backlog, current, sent, hit, kills>>

RunStep(r) ==
    \/ Launch(r) \/ PollEnds(r) \/ PollSleeps(r)
    \/ Connect(r) \/ Refused(r) \/ Send(r) \/ Reset(r)

(***************************************************************************)
(* A server: main().  With SO_REUSEADDR two of them may bind the port while *)
(* nobody listens on it; listen() then lets only one through.               *)
(***************************************************************************)
CountsOnServer(r) == run[r] \in {"poll", "connect"} \/ InCall(r)

Dies(s) ==
    /\ server' = [server EXCEPT ![s] = "dead"]
    /\ IF Listening(s)
       THEN /\ backlog' = <<>> /\ current' = <<>>
            /\ hit' = hit \cup {r \in Runs : CountsOnServer(r)}
       ELSE UNCHANGED <<backlog, current, hit>>

Claim(s, from, to) ==
    /\ server[s] = from
    /\ server' = [server EXCEPT ![s] = IF Open THEN "dead" ELSE to]
    /\ UNCHANGED <<run, polls, backlog, current, sent, hit, slow, kills>>

Bind(s) == Claim(s, "started", "bound")
Listen(s) == Claim(s, "bound", "listening")

\* The line printed after listen() goes to a pipe of the run that started the
\* server; SIGPIPE may be ignored (inherited from .NET) or not.
Announce(s) ==
    /\ server[s] = "listening"
    /\ \/ /\ server' = [server EXCEPT ![s] = "accept"]
          /\ UNCHANGED <<backlog, current, hit>>
       \/ Gone(s) /\ Dies(s)
    /\ UNCHANGED <<run, polls, sent, slow, kills>>

Accept(s) ==
    /\ server[s] = "accept"
    /\ backlog # <<>>
    /\ current' = <<Head(backlog)>>
    /\ backlog' = Tail(backlog)
    /\ server' = [server EXCEPT ![s] = "read"]
    /\ UNCHANGED <<run, polls, sent, hit, slow, kills>>

\* The connection being read has a request on it.
Requested == Head(current).kind = "call" /\ Head(current).from \in sent

\* Mutant of Hangup: end of file on a connection ends the server.
HangupExits(s) ==
    /\ server[s] = "read"
    /\ ~Requested
    /\ Head(current).kind = "call" => ~InCall(Head(current).from)
    /\ Dies(s)
    /\ UNCHANGED <<run, polls, sent, slow, kills>>

\* Mutant of Hangup: read() is called again after end of file.
HangupIgnored(s) == server[s] = "read" /\ ~Requested /\ UNCHANGED vars

\* End of file before a request: the connection is dropped.
Hangup(s) ==
    /\ server[s] = "read"
    /\ ~Requested
    /\ Head(current).kind = "call" => ~InCall(Head(current).from)
    /\ current' = <<>>
    /\ server' = [server EXCEPT ![s] = "accept"]
    /\ UNCHANGED <<run, polls, backlog, sent, hit, slow, kills>>

Reply(s) ==
    /\ server[s] = "read"
    /\ Requested
    /\ run[Head(current).from] = "wait"
    /\ run' = [run EXCEPT ![Head(current).from] = "served"]
    /\ current' = <<>>
    /\ server' = [server EXCEPT ![s] = "accept"]
    /\ UNCHANGED <<polls, backlog, sent, hit, slow, kills>>

\* The caller is gone: the second write() of send_response fails with EPIPE.
ReplyToNobody(s) ==
    /\ server[s] = "read"
    /\ Requested
    /\ run[Head(current).from] # "wait"
    /\ \/ /\ current' = <<>>
          /\ server' = [server EXCEPT ![s] = "accept"]
          /\ UNCHANGED <<backlog, hit>>
       \/ Dies(s)
    /\ UNCHANGED <<run, polls, sent, slow, kills>>

ServerStep(s) ==
    \/ Bind(s) \/ Listen(s) \/ Announce(s)
    \/ Accept(s) \/ Hangup(s) \/ Reply(s) \/ ReplyToNobody(s)

(***************************************************************************)
(* Kills.  Neither program handles a signal; a Ctrl-C that reaches a run    *)
(* and the server in its process group is two kills.                        *)
(***************************************************************************)
KillRun(r) ==
    /\ run[r] # "idle" /\ ~Gone(r)
    /\ kills < MaxKills
    /\ kills' = kills + 1
    /\ run' = [run EXCEPT ![r] = "killed"]
    /\ UNCHANGED <<polls, server, backlog, current, sent, hit, slow>>

KillServer(s) ==
    /\ server[s] \notin {"none", "dead"}
    /\ kills < MaxKills
    /\ kills' = kills + 1
    /\ Dies(s)
    /\ UNCHANGED <<run, polls, sent, slow>>

Next ==
    \/ \E r \in Runs : Start(r) \/ RunStep(r) \/ TimesOut(r) \/ KillRun(r)
    \/ \E s \in Runs : ServerStep(s) \/ KillServer(s)

Spec == Init /\ [][Next]_vars

\* What has been started goes on; nobody has to start, to be killed or to
\* lose patience.
Fairness == \A r \in Runs : WF_vars(RunStep(r)) /\ WF_vars(ServerStep(r))

FairSpec == Spec /\ Fairness

(***************************************************************************)
(* Properties                                                               *)
(***************************************************************************)

\* A call fails only if the run gave up waiting, for the port or for the
\* answer, or if the server it counted on died under it: neither a race to
\* start the server, nor a probe that came back too late, nor a server that
\* died before, costs anybody the call (EnsureListening and main()).
FailsOnlyIfHit ==
    \A r \in Runs : run[r] = "failed" => polls[r] = PollLimit \/ r \in slow \cup hit

\* The service comes up and stays up: when nobody was killed or gave up
\* waiting and nothing is starting, any start has left a server that listens,
\* however many raced and however many probes it had to swallow.
Settled ==
    /\ kills = 0 /\ slow = {}
    /\ \A r \in Runs : polls[r] < PollLimit
    /\ \A s \in Runs : server[s] \notin {"started", "bound"}
    /\ \E s \in Runs : server[s] # "none"
    => Open

\* Every call ends, although a server waits on one connection at a time for as
\* long as it is open and neither read() nor connect() has a deadline in it.
EveryRunEnds == \A r \in Runs : run[r] # "idle" ~> Gone(r)
=============================================================================
