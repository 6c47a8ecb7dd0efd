------------------------- MODULE ServiceLaunchProofs -------------------------
(***************************************************************************)
(* Theorems of ServiceLaunch, for any number of runs, any poll limit and    *)
(* any backlog, with kills and stalls as the constants allow.               *)
(*                                                                          *)
(* A call fails only for a reason: there is one listener at a time, so what *)
(* the server drops is never the connection of a run that still waits on    *)
(* it.  The service settles: as long as nobody is killed or gives up, no    *)
(* server that listens ever dies, because a server prints its line before   *)
(* it serves anybody and a run is answered only once.                       *)
(***************************************************************************)
EXTENDS ServiceLaunch, TLAPS

OneListener == \A s, t \in Runs : Listening(s) /\ Listening(t) => s = t

\* A server reads if and only if there is a connection to read from.
Reading ==
    /\ \A s \in Runs : server[s] = "read" => current # <<>>
    /\ current # <<>> => \E s \in Runs : server[s] = "read"

SentInOrder == \A r \in sent : run[r] \in {"wait", "served", "failed", "killed"}

\* What holds of a run's connection while nobody has dropped it.
Has(q, r) == \E i \in DOMAIN q : q[i] = Call(r)

Connected == \A r \in Runs : InCall(r) => Has(current, r) \/ Has(backlog, r) \/ r \in hit

\* A run starts a server once, and before that there is none of its name.
StartedOnce == \A r \in Runs : run[r] \in {"idle", "launch"} => server[r] = "none"

ServerFound == \A r \in Runs : run[r] = "connect" => Open \/ polls[r] = PollLimit \/ r \in hit

FailInv ==
    /\ TypeOK /\ OneListener /\ Reading /\ StartedOnce
    /\ SentInOrder /\ Connected /\ ServerFound /\ FailsOnlyIfHit

(***************************************************************************)
(* A run has one connection for its call, and none before and after it.     *)
(***************************************************************************)
Once(q, r) == \A i, j \in DOMAIN q : q[i] = Call(r) /\ q[j] = Call(r) => i = j

OneConnection ==
    \A r \in Runs :
        /\ run[r] \in {"idle", "launch", "poll", "connect", "served"}
             => ~Has(current, r) /\ ~Has(backlog, r)
        /\ Has(current, r) => ~Has(backlog, r)
        /\ Once(backlog, r)

Quiet == kills = 0 /\ slow = {} /\ \A r \in Runs : polls[r] < PollLimit

\* What holds while nobody was killed or gave up waiting.
QuietInv ==
    Quiet =>
      /\ hit = {}
      /\ \A r \in Runs : run[r] # "killed"
      /\ \A r \in Runs : run[r] = "served" => \E s \in Runs : server[s] \in {"accept", "read"}
      /\ (\E s \in Runs : server[s] # "none") =>
             Open \/ \E s \in Runs : server[s] \in {"started", "bound"}

(***************************************************************************)
(* Connections in a queue                                                   *)
(***************************************************************************)
LEMMA CallsDiffer ==
    /\ Probe \in Connection
    /\ \A r \in Runs : /\ Call(r) # Probe /\ Call(r) \in Connection
                       /\ Call(r).kind = "call" /\ Call(r).from = r
    /\ \A x \in Connection : x.kind = "call" => x.from \in Runs /\ x = Call(x.from)
    /\ \A x \in Connection : x.kind # "call" => x = Probe
<1>1. \A r \in Runs : Call(r).kind = "call" /\ Probe.kind = "probe"
  BY DEF Probe, Call
<1>2. \A r \in Runs : Call(r) # Probe
  BY <1>1
<1> QED BY <1>2 DEF Probe, Call, Connection

LEMMA HasAppended ==
  ASSUME NEW q \in Seq(Connection), NEW x \in Connection, NEW r \in Runs
  PROVE  /\ Append(q, x) \in Seq(Connection) /\ Len(Append(q, x)) = Len(q) + 1
         /\ Has(Append(q, x), r) <=> Has(q, r) \/ x = Call(r)
<1>1. /\ Append(q, x) \in Seq(Connection) /\ Len(Append(q, x)) = Len(q) + 1 /\ Len(q) \in Nat
      /\ DOMAIN Append(q, x) = 1 .. Len(q) + 1 /\ DOMAIN q = 1 .. Len(q)
      /\ \A i \in 1 .. Len(q) : Append(q, x)[i] = q[i]
      /\ Append(q, x)[Len(q) + 1] = x
  OBVIOUS
<1>2. ASSUME Has(q, r) PROVE Has(Append(q, x), r)
  BY <1>1, <1>2 DEF Has
<1>3. ASSUME x = Call(r) PROVE Has(Append(q, x), r)
  <2>1. Len(q) + 1 \in DOMAIN Append(q, x)
    BY <1>1
  <2> QED BY <1>1, <1>3, <2>1 DEF Has
<1>4. ASSUME Has(Append(q, x), r) PROVE Has(q, r) \/ x = Call(r)
  <2>1. PICK i \in 1 .. Len(q) + 1 : Append(q, x)[i] = Call(r)
    BY <1>1, <1>4 DEF Has
  <2>2. i \in 1 .. Len(q) \/ i = Len(q) + 1
    BY <1>1
  <2> QED BY <1>1, <2>1, <2>2 DEF Has
<1> QED BY <1>1, <1>2, <1>3, <1>4

LEMMA HasTaken ==
  ASSUME NEW q \in Seq(Connection), q # <<>>, NEW r \in Runs
  PROVE  /\ Head(q) \in Connection /\ Tail(q) \in Seq(Connection) /\ Len(Tail(q)) = Len(q) - 1
         /\ Has(q, r) <=> Head(q) = Call(r) \/ Has(Tail(q), r)
<1>1. /\ Len(q) \in Nat \ {0} /\ DOMAIN q = 1 .. Len(q) /\ Head(q) = q[1]
      /\ Head(q) \in Connection /\ Tail(q) \in Seq(Connection) /\ Len(Tail(q)) = Len(q) - 1
      /\ DOMAIN Tail(q) = 1 .. Len(q) - 1
      /\ \A i \in 1 .. Len(q) - 1 : Tail(q)[i] = q[i + 1]
  OBVIOUS
<1>2. ASSUME Has(q, r) PROVE Head(q) = Call(r) \/ Has(Tail(q), r)
  <2>1. PICK i \in 1 .. Len(q) : q[i] = Call(r)
    BY <1>1, <1>2 DEF Has
  <2>2. CASE i = 1
    BY <1>1, <2>1, <2>2
  <2>3. CASE i # 1
    <3>1. i - 1 \in 1 .. Len(q) - 1 /\ (i - 1) + 1 = i
      BY <1>1, <2>3
    <3>2. Tail(q)[i - 1] = Call(r)
      BY <1>1, <2>1, <3>1
    <3> QED BY <1>1, <3>1, <3>2 DEF Has
  <2> QED BY <2>2, <2>3
<1>3. ASSUME Head(q) = Call(r) \/ Has(Tail(q), r) PROVE Has(q, r)
  <2>1. CASE Head(q) = Call(r)
    <3>1. 1 \in DOMAIN q
      BY <1>1
    <3> QED BY <1>1, <2>1, <3>1 DEF Has
  <2>2. CASE Has(Tail(q), r)
    <3>1. PICK i \in 1 .. Len(q) - 1 : Tail(q)[i] = Call(r)
      BY <1>1, <2>2 DEF Has
    <3>2. i + 1 \in DOMAIN q /\ q[i + 1] = Call(r)
      BY <1>1, <3>1
    <3> QED BY <3>2 DEF Has
  <2> QED BY <1>3, <2>1, <2>2
<1> QED BY <1>1, <1>2, <1>3

\* Of at most one connection.
LEMMA HasOne ==
    /\ \A r \in Runs : ~Has(<<>>, r)
    /\ \A r \in Runs, x \in Connection : Has(<<x>>, r) <=> x = Call(r)
    /\ \A r \in Runs, q \in Seq(Connection) :
          Len(q) <= 1 /\ q # <<>> => q = <<Head(q)>> /\ Head(q) \in Connection
    /\ \A x \in Connection :
          Head(<<x>>) = x /\ <<x>> \in Seq(Connection) /\ Len(<<x>>) = 1 /\ <<x>> # <<>>
<1>1. \A r \in Runs : ~Has(<<>>, r)
  BY DEF Has
<1>2. ASSUME NEW x \in Connection
      PROVE  /\ Head(<<x>>) = x /\ <<x>> \in Seq(Connection) /\ Len(<<x>>) = 1 /\ <<x>> # <<>>
             /\ DOMAIN <<x>> = {1} /\ <<x>>[1] = x
  OBVIOUS
<1>3. \A r \in Runs, x \in Connection : Has(<<x>>, r) <=> x = Call(r)
  BY <1>2 DEF Has
<1>4. ASSUME NEW q \in Seq(Connection), Len(q) <= 1, q # <<>>
      PROVE  q = <<Head(q)>> /\ Head(q) \in Connection
  <2>1. Len(q) \in Nat /\ Len(q) # 0
    BY <1>4
  <2>2. Len(q) = 1
    <3>1. \A n \in Nat : n # 0 /\ n <= 1 => n = 1
      OBVIOUS
    <3> QED BY <1>4, <2>1, <3>1, Zenon
  <2>3. Head(q) = q[1] /\ Head(q) \in Connection
    BY <2>2
  <2> QED BY <2>2, <2>3
<1> QED BY <1>1, <1>2, <1>3, <1>4

LEMMA HasEither ==
  ASSUME TypeOK, NEW r \in Runs
  PROVE  HasConnection(r) <=> Has(current, r) \/ Has(backlog, r)
<1>1. current \in Seq(Connection) /\ backlog \in Seq(Connection)
  BY DEF TypeOK
<1> DEFINE q == current \o backlog
<1>2. /\ Len(current) \in Nat /\ Len(backlog) \in Nat
      /\ DOMAIN current = 1 .. Len(current) /\ DOMAIN backlog = 1 .. Len(backlog)
      /\ DOMAIN q = 1 .. Len(current) + Len(backlog)
      /\ \A i \in 1 .. Len(current) : q[i] = current[i]
      /\ \A i \in 1 .. Len(backlog) : q[Len(current) + i] = backlog[i]
  BY <1>1
<1>3. ASSUME Has(current, r) PROVE HasConnection(r)
  <2>1. PICK i \in 1 .. Len(current) : current[i] = Call(r)
    BY <1>2, <1>3 DEF Has
  <2>2. i \in DOMAIN q /\ q[i] = Call(r)
    BY <1>2, <2>1
  <2> QED BY <2>2 DEF HasConnection
<1>4. ASSUME Has(backlog, r) PROVE HasConnection(r)
  <2>1. PICK i \in 1 .. Len(backlog) : backlog[i] = Call(r)
    BY <1>2, <1>4 DEF Has
  <2>2. Len(current) + i \in DOMAIN q /\ q[Len(current) + i] = Call(r)
    BY <1>2, <2>1
  <2> QED BY <2>2 DEF HasConnection
<1>5. ASSUME HasConnection(r) PROVE Has(current, r) \/ Has(backlog, r)
  <2>1. PICK i \in DOMAIN q : q[i] = Call(r)
    BY <1>5 DEF HasConnection
  <2>2. CASE i <= Len(current)
    <3>1. i \in 1 .. Len(current)
      BY <1>2, <2>2
    <3> QED BY <1>2, <2>1, <3>1 DEF Has
  <2>3. CASE ~(i <= Len(current))
    <3>1. i - Len(current) \in 1 .. Len(backlog) /\ Len(current) + (i - Len(current)) = i
      BY <1>2, <2>3
    <3>2. backlog[i - Len(current)] = Call(r)
      BY <1>2, <2>1, <3>1
    <3> QED BY <1>2, <3>1, <3>2 DEF Has
  <2> QED BY <2>2, <2>3
<1> QED BY <1>3, <1>4, <1>5

(***************************************************************************)
(* Types                                                                    *)
(***************************************************************************)
LEMMA TypesKept ==
  ASSUME TypeOK, [Next]_vars
  PROVE  TypeOK'
<1> USE LimitsAssumption DEF TypeOK
<1>0. Probe \in Connection /\ \A r \in Runs : Call(r) \in Connection
  BY CallsDiffer
<1>a. ASSUME ProbeFinds PROVE backlog' \in Seq(Connection) /\ Len(backlog') <= Backlog
  <2>1. Len(backlog) < Backlog /\ backlog' = Append(backlog, Probe)
    BY <1>a DEF ProbeFinds, Room
  <2> HIDE DEF Probe
  <2>2. Len(backlog') = Len(backlog) + 1 /\ Len(backlog) \in Nat /\ backlog' \in Seq(Connection)
    BY <1>0, <2>1
  <2> QED BY <2>1, <2>2
<1>b. ASSUME ProbeMisses PROVE backlog' \in Seq(Connection) /\ Len(backlog') <= Backlog
  BY <1>a, <1>b DEF ProbeMisses
<1>d. <<>> \in Seq(Connection) /\ Len(<<>>) <= Backlog /\ Len(<<>>) <= 1
  OBVIOUS
<1>c. \A s \in Runs : Dies(s) => /\ server' = [server EXCEPT ![s] = "dead"]
                               /\ backlog' \in Seq(Connection) /\ Len(backlog') <= Backlog
                               /\ current' \in Seq(Connection) /\ Len(current') <= 1
                               /\ hit' \subseteq Runs
  BY <1>d DEF Dies
<1>1. ASSUME NEW r \in Runs, Start(r) PROVE TypeOK'
  BY <1>1, <1>a, <1>b DEF Start, Goes
<1>2. ASSUME NEW r \in Runs, Launch(r) \/ Refused(r) \/ Send(r) \/ Reset(r) \/ TimesOut(r)
      PROVE  TypeOK'
  BY <1>2 DEF Launch, Refused, Send, Reset, TimesOut, Goes
<1>3. ASSUME NEW r \in Runs, PollEnds(r) PROVE TypeOK'
  BY <1>3, <1>a DEF PollEnds, Goes
<1>4. ASSUME NEW r \in Runs, PollSleeps(r) PROVE TypeOK'
  <2>1. polls[r] + 1 \in 0 .. PollLimit
    BY <1>4 DEF PollSleeps
  <2>2. polls' \in [Runs -> 0 .. PollLimit]
    BY <1>4, <2>1 DEF PollSleeps
  <2> QED BY <1>4, <1>b, <2>2 DEF PollSleeps
<1>5. ASSUME NEW r \in Runs, Connect(r) PROVE TypeOK'
  <2>1. Len(backlog) < Backlog /\ backlog' = Append(backlog, Call(r))
    BY <1>5 DEF Connect, Room
  <2> HIDE DEF Call
  <2>2. Len(backlog') = Len(backlog) + 1 /\ Len(backlog) \in Nat /\ backlog' \in Seq(Connection)
    BY <1>0, <2>1
  <2>3. Len(backlog') <= Backlog
    BY <2>1, <2>2
  <2> QED BY <1>5, <2>2, <2>3 DEF Connect, Goes
<1>6. ASSUME NEW r \in Runs, KillRun(r) PROVE TypeOK'
  BY <1>6 DEF KillRun
<1>7. ASSUME NEW s \in Runs, Bind(s) \/ Listen(s) PROVE TypeOK'
  BY <1>7 DEF Bind, Listen, Claim
<1>8. ASSUME NEW s \in Runs, Announce(s) PROVE TypeOK'
  BY <1>8, <1>c DEF Announce
<1>9. ASSUME NEW s \in Runs, Accept(s) PROVE TypeOK'
  <2>1. /\ Head(backlog) \in Connection /\ Tail(backlog) \in Seq(Connection)
        /\ Len(Tail(backlog)) = Len(backlog) - 1 /\ Len(backlog) \in Nat
    BY <1>9, HasTaken DEF Accept
  <2>2. current' \in Seq(Connection) /\ Len(current') <= 1
    BY <1>9, <2>1, HasOne DEF Accept
  <2> QED BY <1>9, <2>1, <2>2 DEF Accept
<1>10. ASSUME NEW s \in Runs, Hangup(s) \/ Reply(s) PROVE TypeOK'
  <2>1. current' \in Seq(Connection) /\ Len(current') <= 1
    BY <1>10, <1>d DEF Hangup, Reply
  <2> QED BY <1>10, <2>1 DEF Hangup, Reply
<1>11. ASSUME NEW s \in Runs, ReplyToNobody(s) PROVE TypeOK'
  <2>1. CASE Dies(s)
    BY <1>11, <1>c, <2>1 DEF ReplyToNobody
  <2>2. CASE current' = <<>> /\ server' = [server EXCEPT ![s] = "accept"] /\ UNCHANGED <<backlog, hit>>
    <3>1. current' \in Seq(Connection) /\ Len(current') <= 1
      BY <1>d, <2>2
    <3> QED BY <1>11, <2>2, <3>1 DEF ReplyToNobody
  <2> QED BY <1>11, <2>1, <2>2 DEF ReplyToNobody
<1>12. ASSUME NEW s \in Runs, KillServer(s) PROVE TypeOK'
  BY <1>12, <1>c DEF KillServer
<1>13. CASE UNCHANGED vars
  BY <1>13 DEF vars
<1> QED BY <1>1, <1>2, <1>3, <1>4, <1>5, <1>6, <1>7, <1>8, <1>9, <1>10, <1>11, <1>12, <1>13
        DEF Next, RunStep, ServerStep

(***************************************************************************)
(* A call fails only for a reason.                                          *)
(***************************************************************************)

\* What a probe does to the queue is of no consequence for a call.
LEMMA ProbesDoNoHarm ==
  ASSUME TypeOK, ProbeFinds \/ ProbeMisses
  PROVE  \A c \in Runs : Has(backlog', c) <=> Has(backlog, c)
<1>1. CASE UNCHANGED backlog
  BY <1>1
<1>2. CASE backlog' = Append(backlog, Probe)
  BY <1>2, HasAppended, CallsDiffer DEF TypeOK
<1> QED BY <1>1, <1>2 DEF ProbeFinds, ProbeMisses

\* A run goes on; the servers stay as they are.
LEMMA RunMoves ==
  ASSUME FailInv, TypeOK', NEW r \in Runs, NEW to, run' = [run EXCEPT ![r] = to],
         UNCHANGED <<polls, server, current, hit>>,
         \A c \in Runs : Has(backlog, c) => Has(backlog', c),
         slow \subseteq slow', sent \subseteq sent',
         \A c \in sent' : c = r \/ c \in sent,
         to \notin {"idle"}, to = "launch" => run[r] = "idle",
         r \in sent' => to \in {"wait", "served", "failed", "killed"},
         to \in {"send", "wait"} => Has(current, r) \/ Has(backlog', r) \/ r \in hit,
         to = "connect" => Open \/ polls[r] = PollLimit \/ r \in hit,
         to = "failed" => polls[r] = PollLimit \/ r \in slow' \cup hit
  PROVE  FailInv'
<1> USE DEF FailInv
<1>0. \A c \in Runs : run'[c] = IF c = r THEN to ELSE run[c]
  BY DEF TypeOK
<1>1. OneListener'
  BY DEF OneListener, Listening
<1>2. Reading'
  BY DEF Reading
<1>3. StartedOnce'
  BY <1>0 DEF StartedOnce
<1>4. SentInOrder'
  <2>1. \A c \in sent' : c \in Runs
    BY DEF TypeOK
  <2> QED BY <1>0, <2>1 DEF SentInOrder
<1>5. Connected'
  BY <1>0 DEF Connected, InCall
<1>6. ServerFound'
  BY <1>0 DEF ServerFound, Open, Listening
<1>7. FailsOnlyIfHit'
  BY <1>0 DEF FailsOnlyIfHit
<1> QED BY <1>1, <1>2, <1>3, <1>4, <1>5, <1>6, <1>7

LEMMA RunsKeepFailInv ==
  ASSUME FailInv, TypeOK', NEW r \in Runs,
         Start(r) \/ Launch(r) \/ PollEnds(r) \/ PollSleeps(r) \/ Connect(r) \/ Refused(r)
           \/ Send(r) \/ Reset(r) \/ TimesOut(r) \/ KillRun(r)
  PROVE  FailInv'
<1>0. TypeOK /\ r \in Runs
  BY DEF FailInv
<1>a. run[r] \in {"idle", "launch", "poll", "connect", "send"} => r \notin sent
  BY DEF FailInv, SentInOrder
<1>1. CASE Start(r)
  <2>1. PICK to \in {"connect", "launch"} :
           /\ run[r] = "idle" /\ run' = [run EXCEPT ![r] = to]
           /\ to = "connect" => Open
           /\ UNCHANGED <<polls, server, current, sent, hit, slow>>
    BY <1>1 DEF Start, Goes, ProbeFinds
  <2>2. \A c \in Runs : Has(backlog, c) => Has(backlog', c)
    BY <1>0, <1>1, ProbesDoNoHarm DEF Start
  <2> QED BY <1>a, <2>1, <2>2, RunMoves
<1>2. CASE Launch(r)
  <2>1. /\ run[r] = "launch" /\ run' = [run EXCEPT ![r] = "poll"] /\ server[r] = "none"
        /\ server' = [server EXCEPT ![r] = "started"]
        /\ UNCHANGED <<polls, backlog, current, sent, hit, slow, kills>>
    BY <1>2 DEF Launch, Goes, FailInv, StartedOnce
  <2>2. \A s \in Runs : /\ server'[s] = IF s = r THEN "started" ELSE server[s]
                        /\ run'[s] = IF s = r THEN "poll" ELSE run[s]
    BY <1>0, <2>1 DEF TypeOK
  <2>3. \A s \in Runs : Listening(s)' <=> Listening(s)
    BY <2>1, <2>2 DEF Listening
  <2>4. \A c \in Runs : (Has(current, c)' <=> Has(current, c)) /\ (Has(backlog, c)' <=> Has(backlog, c))
    BY <2>1
  <2>5. OneListener' /\ ServerFound' /\ FailsOnlyIfHit'
    BY <2>1, <2>2, <2>3 DEF FailInv, OneListener, ServerFound, Open, FailsOnlyIfHit
  <2>6. Reading' /\ StartedOnce'
    BY <2>1, <2>2 DEF FailInv, Reading, StartedOnce
  <2>7. SentInOrder'
    BY <1>0, <1>a, <2>1, <2>2 DEF FailInv, SentInOrder, TypeOK
  <2>8. Connected'
    BY <2>1, <2>2, <2>4 DEF FailInv, Connected, InCall
  <2> QED BY <2>5, <2>6, <2>7, <2>8 DEF FailInv
<1>3. CASE PollEnds(r)
  <2>1. /\ run[r] = "poll" /\ run' = [run EXCEPT ![r] = "connect"]
        /\ Open \/ polls[r] = PollLimit
        /\ UNCHANGED <<polls, server, current, sent, hit, slow>>
    BY <1>3 DEF PollEnds, Goes, ProbeFinds
  <2>2. \A c \in Runs : Has(backlog, c) => Has(backlog', c)
    BY <1>0, <1>3, ProbesDoNoHarm DEF PollEnds
  <2> QED BY <1>a, <2>1, <2>2, RunMoves
<1>4. CASE PollSleeps(r)
  <2>1. /\ run[r] = "poll" /\ \A c \in Runs : polls'[c] = polls[c] \/ (c = r /\ polls[c] < PollLimit)
        /\ UNCHANGED <<run, server, current, sent, hit, slow, kills>>
    BY <1>0, <1>4 DEF PollSleeps, TypeOK
  <2>2. \A c \in Runs : (Has(current, c)' <=> Has(current, c)) /\ (Has(backlog, c)' <=> Has(backlog, c))
    BY <1>0, <1>4, <2>1, ProbesDoNoHarm DEF PollSleeps
  <2>3. Connected'
    BY <2>1, <2>2 DEF FailInv, Connected, InCall
  <2>4. OneListener' /\ Reading' /\ StartedOnce' /\ SentInOrder'
    BY <2>1 DEF FailInv, OneListener, Listening, Reading, StartedOnce, SentInOrder
  <2>5. ServerFound' /\ FailsOnlyIfHit'
    BY <2>1 DEF FailInv, ServerFound, FailsOnlyIfHit, Open, Listening
  <2> QED BY <2>3, <2>4, <2>5 DEF FailInv
<1>5. CASE Connect(r)
  <2>1. /\ run[r] = "connect" /\ run' = [run EXCEPT ![r] = "send"]
        /\ UNCHANGED <<polls, server, current, sent, hit, slow>>
    BY <1>5 DEF Connect, Goes
  <2>2. Has(backlog', r) /\ \A c \in Runs : Has(backlog, c) => Has(backlog', c)
    BY <1>0, <1>5, HasAppended, CallsDiffer DEF TypeOK, Connect
  <2>3. r \notin sent' /\ slow \subseteq slow' /\ sent \subseteq sent' /\ \A c \in sent' : c \in sent
    BY <1>a, <2>1
  <2>4. UNCHANGED <<polls, server, current, hit>>
    BY <2>1
  <2>5. \E to : /\ run' = [run EXCEPT ![r] = to] /\ to = "send"
    BY <2>1
  <2> QED BY <2>2, <2>3, <2>4, <2>5, RunMoves
<1>6. CASE Refused(r)
  <2>1. /\ run[r] = "connect" /\ run' = [run EXCEPT ![r] = "failed"]
        /\ polls[r] = PollLimit \/ r \in hit
        /\ UNCHANGED <<polls, server, backlog, current, sent, hit, slow>>
    BY <1>6 DEF Refused, Goes, FailInv, ServerFound
  <2> QED BY <2>1, RunMoves
<1>7. CASE Send(r)
  <2>1. /\ run[r] = "send" /\ run' = [run EXCEPT ![r] = "wait"] /\ sent' = sent \cup {r}
        /\ Has(current, r) \/ Has(backlog, r)
        /\ UNCHANGED <<polls, server, backlog, current, hit, slow>>
    BY <1>0, <1>7, HasEither DEF Send, Goes
  <2> QED BY <2>1, RunMoves
<1>8. CASE Reset(r)
  <2>1. /\ r \in hit /\ run' = [run EXCEPT ![r] = "failed"]
        /\ UNCHANGED <<polls, server, backlog, current, sent, hit, slow>>
    BY <1>0, <1>8, HasEither DEF Reset, FailInv, Connected
  <2> QED BY <2>1, RunMoves
<1>9. CASE TimesOut(r)
  <2>1. /\ run' = [run EXCEPT ![r] = "failed"] /\ slow' = slow \cup {r}
        /\ UNCHANGED <<polls, server, backlog, current, sent, hit>>
    BY <1>9 DEF TimesOut
  <2> QED BY <2>1, RunMoves
<1>10. CASE KillRun(r)
  <2>1. /\ run' = [run EXCEPT ![r] = "killed"]
        /\ UNCHANGED <<polls, server, backlog, current, sent, hit, slow>>
    BY <1>10 DEF KillRun
  <2> QED BY <2>1, RunMoves
<1> QED BY <1>1, <1>2, <1>3, <1>4, <1>5, <1>6, <1>7, <1>8, <1>9, <1>10

LEMMA DiesKeepsFailInv ==
  ASSUME FailInv, TypeOK', NEW s \in Runs, Dies(s), server[s] # "none",
         UNCHANGED <<run, polls, sent, slow>>
  PROVE  FailInv'
<1> USE DEF FailInv
<1>0. \A t \in Runs : server'[t] = IF t = s THEN "dead" ELSE server[t]
  BY DEF Dies, TypeOK
<1>1. OneListener'
  BY <1>0 DEF OneListener, Listening
<1>2. StartedOnce'
  BY <1>0 DEF StartedOnce
<1>3. SentInOrder'
  BY DEF SentInOrder
<1>4. CASE Listening(s)
  <2>1. /\ current' = <<>> /\ hit' = hit \cup {r \in Runs : CountsOnServer(r)}
    BY <1>4 DEF Dies
  <2>2. \A t \in Runs : ~Listening(t)'
    BY <1>0, <1>4 DEF OneListener, Listening
  <2>3. Reading'
    BY <2>1, <2>2 DEF Reading, Listening
  <2>4. Connected' /\ ServerFound' /\ FailsOnlyIfHit'
    BY <2>1 DEF Connected, ServerFound, FailsOnlyIfHit, CountsOnServer, InCall
  <2> QED BY <1>1, <1>2, <1>3, <2>3, <2>4
<1>5. CASE ~Listening(s)
  <2>1. UNCHANGED <<backlog, current, hit>> /\ \A t \in Runs : Listening(t)' <=> Listening(t)
    BY <1>0, <1>5 DEF Dies, Listening
  <2>2. Reading'
    BY <1>0, <1>5, <2>1 DEF Reading, Listening
  <2>3. Connected'
    BY <2>1 DEF Connected, InCall, Has
  <2>4. ServerFound' /\ FailsOnlyIfHit'
    BY <2>1 DEF ServerFound, FailsOnlyIfHit, Open
  <2> QED BY <1>1, <1>2, <1>3, <2>2, <2>3, <2>4
<1> QED BY <1>4, <1>5

\* A server comes up: at most one listens.
LEMMA ComesUpKeepsFailInv ==
  ASSUME FailInv, TypeOK', NEW s \in Runs,
         Bind(s) \/ Listen(s)
           \/ /\ server[s] = "listening" /\ server' = [server EXCEPT ![s] = "accept"]
              /\ UNCHANGED <<run, polls, backlog, current, sent, hit, slow, kills>>
  PROVE  FailInv'
<1> USE DEF FailInv
<1>1. /\ server[s] \in {"started", "bound", "listening"}
      /\ \A t \in Runs : t # s => server'[t] = server[t]
      /\ server[s] = "listening" => server'[s] = "accept"
      /\ server[s] # "listening" => server'[s] \in {"dead", "bound", "listening"}
      /\ server[s] # "listening" /\ server'[s] = "listening" => ~Open
      /\ UNCHANGED <<run, polls, backlog, current, sent, hit, slow, kills>>
  BY DEF Bind, Listen, Claim, TypeOK
<1>2. OneListener'
  BY <1>1 DEF OneListener, Listening, Open
<1>3. Reading' /\ StartedOnce'
  BY <1>1 DEF Reading, StartedOnce
<1>4. SentInOrder' /\ FailsOnlyIfHit'
  BY <1>1 DEF SentInOrder, FailsOnlyIfHit
<1>5. Connected'
  BY <1>1 DEF Connected, InCall, Has
<1>6. ServerFound'
  BY <1>1 DEF ServerFound, Open, Listening
<1> QED BY <1>2, <1>3, <1>4, <1>5, <1>6

LEMMA AcceptKeepsFailInv ==
  ASSUME FailInv, TypeOK', NEW s \in Runs, Accept(s)
  PROVE  FailInv'
<1> USE DEF FailInv
<1>0. /\ \A t \in Runs : server'[t] = IF t = s THEN "read" ELSE server[t]
      /\ server[s] = "accept" /\ UNCHANGED <<run, polls, sent, hit, slow, kills>>
  BY DEF Accept, TypeOK
<1>1. \A t \in Runs : Listening(t)' <=> Listening(t)
  BY <1>0 DEF Listening
<1>2. OneListener' /\ ServerFound' /\ FailsOnlyIfHit'
  BY <1>0, <1>1 DEF OneListener, ServerFound, FailsOnlyIfHit, Open
<1>3. StartedOnce' /\ SentInOrder'
  BY <1>0 DEF StartedOnce, SentInOrder
<1>4. current = <<>>
  BY <1>0 DEF OneListener, Listening, Reading
<1>5. Head(backlog) \in Connection /\ current' # <<>>
  <2>1. Head(backlog) \in Connection
    BY DEF TypeOK, Accept
  <2> QED BY <2>1, HasOne DEF Accept
<1>6. Reading'
  BY <1>0, <1>1, <1>2, <1>5 DEF Reading, OneListener, Listening
<1>7. \A c \in Runs : Has(current, c) \/ Has(backlog, c) => Has(current, c)' \/ Has(backlog, c)'
  <2> SUFFICES ASSUME NEW c \in Runs, Has(backlog, c) PROVE Has(current, c)' \/ Has(backlog, c)'
    BY <1>4, HasOne
  <2>1. Head(backlog) = Call(c) \/ Has(Tail(backlog), c)
    BY HasTaken DEF Accept, TypeOK
  <2> QED BY <1>5, <2>1, HasOne DEF Accept
<1>8. Connected'
  BY <1>0, <1>7 DEF Connected, InCall
<1> QED BY <1>2, <1>3, <1>6, <1>8

\* A server is done with a connection whose run does not wait for it.
LEMMA DropKeepsFailInv ==
  ASSUME FailInv, TypeOK', NEW s \in Runs, server[s] = "read",
         current' = <<>>, server' = [server EXCEPT ![s] = "accept"],
         UNCHANGED <<polls, backlog, sent, hit, slow, kills>>,
         \A c \in Runs : current = <<Call(c)>> => ~InCall(c)',
         \A c \in Runs : run'[c] = run[c] \/ (run[c] = "wait" /\ run'[c] = "served")
  PROVE  FailInv'
<1> USE DEF FailInv
<1>0. \A t \in Runs : server'[t] = IF t = s THEN "accept" ELSE server[t]
  BY DEF TypeOK
<1>1. \A t \in Runs : Listening(t)' <=> Listening(t)
  BY <1>0 DEF Listening
<1>2. OneListener' /\ ServerFound' /\ FailsOnlyIfHit'
  BY <1>1 DEF OneListener, ServerFound, FailsOnlyIfHit, Open
<1>3. StartedOnce'
  BY <1>0 DEF StartedOnce
<1>4. SentInOrder'
  BY DEF SentInOrder, TypeOK
<1>5. Reading'
  BY <1>0 DEF Reading, OneListener, Listening
<1>6. Connected'
  <2> SUFFICES ASSUME NEW c \in Runs, InCall(c)' PROVE Has(current, c)' \/ Has(backlog, c)' \/ c \in hit'
    BY DEF Connected
  <2>1. InCall(c)
    BY DEF InCall
  <2>2. CASE Has(current, c)
    <3>1. current = <<Head(current)>> /\ Head(current) \in Connection
      BY HasOne DEF Reading, TypeOK
    <3>2. Head(current) = Call(c)
      BY <2>2, <3>1, HasOne
    <3> QED BY <3>1, <3>2
  <2>3. CASE Has(backlog, c) \/ c \in hit
    BY <2>3
  <2> QED BY <2>1, <2>2, <2>3 DEF Connected
<1> QED BY <1>2, <1>3, <1>4, <1>5, <1>6

LEMMA AlwaysFailInv == Spec => []FailInv
<1>1. Init => FailInv
  <2> SUFFICES ASSUME Init PROVE FailInv
    OBVIOUS
  <2>1. TypeOK
    BY LimitsAssumption DEF Init, TypeOK
  <2>2. OneListener /\ Reading /\ StartedOnce
    BY DEF Init, OneListener, Listening, Reading, StartedOnce
  <2>3. SentInOrder /\ Connected /\ ServerFound /\ FailsOnlyIfHit
    BY DEF Init, SentInOrder, Connected, InCall, ServerFound, FailsOnlyIfHit
  <2> QED BY <2>1, <2>2, <2>3 DEF FailInv
<1>2. ASSUME FailInv, [Next]_vars PROVE FailInv'
  <2>0. TypeOK /\ TypeOK'
    BY <1>2, TypesKept DEF FailInv
  <2>1. ASSUME NEW r \in Runs, Start(r) \/ RunStep(r) \/ TimesOut(r) \/ KillRun(r)
        PROVE  FailInv'
    BY <1>2, <2>0, <2>1, RunsKeepFailInv DEF RunStep
  <2>2. ASSUME NEW s \in Runs, Bind(s) \/ Listen(s) PROVE FailInv'
    BY <1>2, <2>0, <2>2, ComesUpKeepsFailInv
  <2>3. ASSUME NEW s \in Runs, Announce(s) PROVE FailInv'
    <3>1. CASE Dies(s)
      BY <1>2, <2>0, <2>3, <3>1, DiesKeepsFailInv DEF Announce
    <3>2. CASE server' = [server EXCEPT ![s] = "accept"] /\ UNCHANGED <<backlog, current, hit>>
      BY <1>2, <2>0, <2>3, <3>2, ComesUpKeepsFailInv DEF Announce
    <3> QED BY <2>3, <3>1, <3>2 DEF Announce
  <2>4. ASSUME NEW s \in Runs, Accept(s) PROVE FailInv'
    BY <1>2, <2>0, <2>4, AcceptKeepsFailInv
  <2>5. \A c \in Runs : current = <<Call(c)>> => Head(current).kind = "call" /\ Head(current).from = c
    BY HasOne, CallsDiffer
  <2>6. ASSUME NEW s \in Runs, Hangup(s) PROVE FailInv'
    <3>1. \A c \in Runs : current = <<Call(c)>> => ~InCall(c)'
      BY <2>5, <2>6 DEF Hangup, InCall
    <3> QED BY <1>2, <2>0, <2>6, <3>1, DropKeepsFailInv DEF Hangup
  <2>7. ASSUME NEW s \in Runs, Reply(s) PROVE FailInv'
    <3>1. \A c \in Runs : current = <<Call(c)>> => ~InCall(c)'
      BY <2>0, <2>5, <2>7 DEF Reply, InCall, TypeOK
    <3>2. \A c \in Runs : run'[c] = run[c] \/ (run[c] = "wait" /\ run'[c] = "served")
      BY <2>0, <2>7 DEF Reply, TypeOK
    <3> QED BY <1>2, <2>0, <2>7, <3>1, <3>2, DropKeepsFailInv DEF Reply
  <2>8. ASSUME NEW s \in Runs, ReplyToNobody(s) PROVE FailInv'
    <3>1. \A c \in Runs : current = <<Call(c)>> => ~InCall(c)'
      BY <1>2, <2>5, <2>8 DEF ReplyToNobody, Requested, InCall, FailInv, SentInOrder
    <3>2. CASE Dies(s)
      BY <1>2, <2>0, <2>8, <3>2, DiesKeepsFailInv DEF ReplyToNobody
    <3>3. CASE current' = <<>> /\ server' = [server EXCEPT ![s] = "accept"] /\ UNCHANGED <<backlog, hit>>
      BY <1>2, <2>0, <2>8, <3>1, <3>3, DropKeepsFailInv DEF ReplyToNobody
    <3> QED BY <2>8, <3>2, <3>3 DEF ReplyToNobody
  <2>9. ASSUME NEW s \in Runs, KillServer(s) PROVE FailInv'
    BY <1>2, <2>0, <2>9, DiesKeepsFailInv DEF KillServer
  <2>10. CASE UNCHANGED vars
    BY <1>2, <2>10
       DEF vars, FailInv, TypeOK, OneListener, Listening, Reading, StartedOnce, SentInOrder,
           Connected, Has, InCall, ServerFound, Open, FailsOnlyIfHit
  <2> QED BY <1>2, <2>1, <2>2, <2>3, <2>4, <2>6, <2>7, <2>8, <2>9, <2>10 DEF Next, ServerStep
<1> QED BY <1>1, <1>2, PTL DEF Spec

\* Every variable keeps its type.
THEOREM LaunchTypes == Spec => []TypeOK
<1>1. FailInv => TypeOK
  BY DEF FailInv
<1> QED BY <1>1, AlwaysFailInv, PTL

\* A call fails only if the run gave up waiting or the server it counted on
\* died under it, whatever races, kills and stalls there are.
THEOREM NoCallFailsForNothing == Spec => []FailsOnlyIfHit
<1>1. FailInv => FailsOnlyIfHit
  BY DEF FailInv
<1> QED BY <1>1, AlwaysFailInv, PTL

(***************************************************************************)
(* A run has one connection for its call.                                   *)
(***************************************************************************)
LEMMA OnceAppended ==
  ASSUME NEW q \in Seq(Connection), NEW x \in Connection, NEW r \in Runs,
         Once(q, r), x = Call(r) => ~Has(q, r)
  PROVE  Once(Append(q, x), r)
<1>1. /\ Len(q) \in Nat /\ DOMAIN Append(q, x) = 1 .. Len(q) + 1 /\ DOMAIN q = 1 .. Len(q)
      /\ \A i \in 1 .. Len(q) : Append(q, x)[i] = q[i]
      /\ Append(q, x)[Len(q) + 1] = x
  OBVIOUS
<1>2. SUFFICES ASSUME NEW i \in 1 .. Len(q) + 1, NEW j \in 1 .. Len(q) + 1,
                      Append(q, x)[i] = Call(r), Append(q, x)[j] = Call(r)
               PROVE  i = j
  BY <1>1 DEF Once
<1>3. (i \in 1 .. Len(q) \/ i = Len(q) + 1) /\ (j \in 1 .. Len(q) \/ j = Len(q) + 1)
  BY <1>1
<1> QED BY <1>1, <1>2, <1>3 DEF Once, Has

LEMMA OnceTaken ==
  ASSUME NEW q \in Seq(Connection), q # <<>>, NEW r \in Runs, Once(q, r)
  PROVE  Once(Tail(q), r) /\ (Head(q) = Call(r) => ~Has(Tail(q), r))
<1>1. /\ Len(q) \in Nat \ {0} /\ DOMAIN q = 1 .. Len(q) /\ Head(q) = q[1]
      /\ DOMAIN Tail(q) = 1 .. Len(q) - 1
      /\ \A i \in 1 .. Len(q) - 1 : Tail(q)[i] = q[i + 1] /\ i + 1 \in 1 .. Len(q) /\ i + 1 # 1
  OBVIOUS
<1>2. Once(Tail(q), r)
  <2> SUFFICES ASSUME NEW i \in 1 .. Len(q) - 1, NEW j \in 1 .. Len(q) - 1,
                      Tail(q)[i] = Call(r), Tail(q)[j] = Call(r)
               PROVE  i = j
    BY <1>1 DEF Once
  <2>1. i + 1 = j + 1
    BY <1>1 DEF Once
  <2> QED BY <2>1
<1>3. ASSUME Head(q) = Call(r), Has(Tail(q), r) PROVE FALSE
  <2>1. PICK i \in 1 .. Len(q) - 1 : Tail(q)[i] = Call(r)
    BY <1>1, <1>3 DEF Has
  <2>2. 1 \in DOMAIN q /\ i + 1 \in DOMAIN q /\ q[1] = Call(r) /\ q[i + 1] = Call(r)
    BY <1>1, <1>3, <2>1
  <2> QED BY <1>1, <2>2 DEF Once
<1> QED BY <1>2, <1>3

LEMMA OneConnectionKept ==
  ASSUME FailInv, OneConnection, [Next]_vars
  PROVE  OneConnection'
<1> DEFINE Before == {"idle", "launch", "poll", "connect"}
<1>0. TypeOK /\ current \in Seq(Connection) /\ backlog \in Seq(Connection)
      /\ Probe \in Connection /\ \A c \in Runs : Call(c) \in Connection /\ Call(c) # Probe
  BY CallsDiffer DEF FailInv, TypeOK
\* A step that adds no call and ends no answer.
<1>a. ASSUME UNCHANGED current,
             \A c \in Runs : (Has(backlog', c) <=> Has(backlog, c)) /\ Once(backlog', c),
             \A c \in Runs : run'[c] \in Before => run[c] \in Before,
             \A c \in Runs : run'[c] = "served" => run[c] = "served"
      PROVE  OneConnection'
  <2>1. \A c \in Runs : Has(current, c)' <=> Has(current, c)
    BY <1>a
  <2> QED BY <1>a, <2>1 DEF OneConnection
\* A step that empties the connection, or both.
<1>b. ASSUME current' = <<>>, backlog' \in {backlog, <<>>},
             \A c \in Runs : run'[c] = run[c] \/ (run'[c] = "served" /\ Has(current, c))
      PROVE  OneConnection'
  <2>1. \A c \in Runs : ~Has(current, c)' /\ (Has(backlog, c)' => Has(backlog, c))
    BY <1>b, HasOne
  <2>2. \A c \in Runs : Once(backlog, c)'
    BY <1>b DEF OneConnection, Once
  <2> QED BY <1>b, <2>1, <2>2 DEF OneConnection
<1>c. ASSUME UNCHANGED backlog
      PROVE  \A c \in Runs : (Has(backlog', c) <=> Has(backlog, c)) /\ Once(backlog', c)
  BY <1>c DEF OneConnection
<1>d. ASSUME ProbeFinds \/ ProbeMisses
      PROVE  \A c \in Runs : (Has(backlog', c) <=> Has(backlog, c)) /\ Once(backlog', c)
  <2>1. CASE backlog' = Append(backlog, Probe)
    BY <1>0, <1>d, <2>1, ProbesDoNoHarm, OnceAppended DEF OneConnection
  <2> QED BY <1>c, <1>d, <2>1 DEF ProbeFinds, ProbeMisses
<1>e. ASSUME NEW s \in Runs, Dies(s), UNCHANGED run PROVE OneConnection'
  <2>1. CASE Listening(s)
    BY <1>b, <1>e, <2>1 DEF Dies
  <2>2. CASE ~Listening(s)
    BY <1>a, <1>c, <1>e, <2>2 DEF Dies
  <2> QED BY <2>1, <2>2
<1>1. ASSUME NEW r \in Runs, Start(r) \/ PollEnds(r) \/ PollSleeps(r) PROVE OneConnection'
  <2>1. \A c \in Runs : (Has(backlog', c) <=> Has(backlog, c)) /\ Once(backlog', c)
    BY <1>1, <1>c, <1>d DEF Start, PollEnds, PollSleeps
  <2>2. /\ UNCHANGED current
        /\ \A c \in Runs : run'[c] \in Before => run[c] \in Before
        /\ \A c \in Runs : run'[c] = "served" => run[c] = "served"
    BY <1>0, <1>1 DEF Start, PollEnds, PollSleeps, Goes, TypeOK
  <2> QED BY <1>a, <2>1, <2>2
<1>2. ASSUME NEW r \in Runs, Launch(r) \/ Refused(r) \/ Send(r) \/ Reset(r) \/ TimesOut(r) \/ KillRun(r)
      PROVE  OneConnection'
  <2>1. /\ UNCHANGED <<current, backlog>>
        /\ \A c \in Runs : run'[c] \in Before => run[c] \in Before
        /\ \A c \in Runs : run'[c] = "served" => run[c] = "served"
    BY <1>0, <1>2 DEF Launch, Refused, Send, Reset, TimesOut, KillRun, Goes, TypeOK
  <2> QED BY <1>a, <1>c, <2>1
<1>3. ASSUME NEW r \in Runs, Connect(r) PROVE OneConnection'
  <2>1. /\ run[r] = "connect" /\ UNCHANGED current /\ backlog' = Append(backlog, Call(r))
        /\ \A c \in Runs : run'[c] = IF c = r THEN "send" ELSE run[c]
    BY <1>0, <1>3 DEF Connect, Goes, TypeOK
  <2>2. ~Has(current, r) /\ ~Has(backlog, r)
    BY <2>1 DEF OneConnection
  <2>3. \A c \in Runs : /\ Has(Append(backlog, Call(r)), c) => Has(backlog, c) \/ c = r
                        /\ Once(Append(backlog, Call(r)), c)
    <3>1. \A c \in Runs : Call(r) = Call(c) => c = r
      BY CallsDiffer
    <3> QED BY <1>0, <2>2, <3>1, HasAppended, OnceAppended DEF OneConnection
  <2>4. \A c \in Runs : (Has(backlog', c) => Has(backlog, c) \/ c = r) /\ Once(backlog', c)
    BY <2>1, <2>3
  <2>5. \A c \in Runs : Has(current, c)' <=> Has(current, c)
    BY <2>1
  <2>6. \A c \in Runs : run'[c] = IF c = r THEN "send" ELSE run[c]
    BY <2>1
  <2> QED BY <2>2, <2>4, <2>5, <2>6 DEF OneConnection
<1>4. ASSUME NEW s \in Runs, Accept(s) PROVE OneConnection'
  <2>1. /\ backlog # <<>> /\ current' = <<Head(backlog)>> /\ backlog' = Tail(backlog) /\ run' = run
        /\ Head(backlog) \in Connection
    BY <1>0, <1>4 DEF Accept
  <2>2. /\ \A c \in Runs : Has(current, c)' <=> Head(backlog) = Call(c)
        /\ \A c \in Runs : Has(backlog, c)' <=> Has(Tail(backlog), c)
        /\ \A c \in Runs : Once(backlog, c)' <=> Once(Tail(backlog), c)
    BY <2>1, HasOne
  <2>3. /\ \A c \in Runs : Has(backlog, c) <=> Head(backlog) = Call(c) \/ Has(Tail(backlog), c)
        /\ \A c \in Runs : Once(Tail(backlog), c) /\ (Head(backlog) = Call(c) => ~Has(Tail(backlog), c))
    BY <1>0, <2>1, HasTaken, OnceTaken DEF OneConnection
  <2>4. run' = run
    BY <2>1
  <2> HIDE DEF Before
  <2> QED BY <2>2, <2>3, <2>4, Zenon DEF OneConnection
<1>5. ASSUME NEW s \in Runs, Hangup(s) PROVE OneConnection'
  BY <1>5, <1>b DEF Hangup
<1>6. ASSUME NEW s \in Runs, Reply(s) PROVE OneConnection'
  <2>1. Head(current) \in Connection /\ current = <<Head(current)>> /\ Head(current).kind = "call"
    BY <1>0, <1>6, HasOne DEF Reply, Requested, FailInv, Reading, TypeOK
  <2>2. \A c \in Runs : run'[c] = run[c] \/ (run'[c] = "served" /\ c = Head(current).from)
    BY <1>0, <1>6 DEF Reply, TypeOK
  <2>3. \A c \in Runs : c = Head(current).from => Has(<<Head(current)>>, c)
    BY <2>1, HasOne, CallsDiffer
  <2>4. \A c \in Runs : c = Head(current).from => Has(current, c)
    BY <2>1, <2>3
  <2> QED BY <1>6, <1>b, <2>2, <2>4 DEF Reply
<1>7. ASSUME NEW s \in Runs, ReplyToNobody(s) PROVE OneConnection'
  BY <1>7, <1>b, <1>e DEF ReplyToNobody
<1>8. ASSUME NEW s \in Runs, Announce(s) \/ KillServer(s) PROVE OneConnection'
  BY <1>8, <1>a, <1>c, <1>e DEF Announce, KillServer
<1>9. ASSUME NEW s \in Runs, Bind(s) \/ Listen(s) PROVE OneConnection'
  BY <1>9, <1>a, <1>c DEF Bind, Listen, Claim
<1>10. CASE UNCHANGED vars
  BY <1>10, <1>a, <1>c DEF vars
<1> QED BY <1>1, <1>2, <1>3, <1>4, <1>5, <1>6, <1>7, <1>8, <1>9, <1>10
        DEF Next, RunStep, ServerStep

(***************************************************************************)
(* While nobody is killed or gives up, no server that listens dies.         *)
(***************************************************************************)
LEMMA QuietKept ==
  ASSUME FailInv, OneConnection, QuietInv, [Next]_vars
  PROVE  QuietInv'
<1> SUFFICES ASSUME Quiet'
             PROVE  /\ hit' = {}
                    /\ \A r \in Runs : run'[r] # "killed"
                    /\ \A r \in Runs : run'[r] = "served" => \E s \in Runs : server'[s] \in {"accept", "read"}
                    /\ (\E s \in Runs : server'[s] # "none") =>
                           Open' \/ \E s \in Runs : server'[s] \in {"started", "bound"}
  BY DEF QuietInv
<1> DEFINE Goal == /\ hit' = {}
                   /\ \A r \in Runs : run'[r] # "killed"
                   /\ \A r \in Runs : run'[r] = "served" => \E s \in Runs : server'[s] \in {"accept", "read"}
                   /\ (\E s \in Runs : server'[s] # "none") =>
                           Open' \/ \E s \in Runs : server'[s] \in {"started", "bound"}
<1>0. TypeOK
  BY DEF FailInv
<1>a. CASE UNCHANGED vars
  <2>1. Quiet
    BY <1>a DEF vars, Quiet
  <2> QED BY <1>a, <2>1 DEF vars, QuietInv, Open, Listening
<1> SUFFICES ASSUME Next PROVE Goal
  BY <1>a
<1>b. Quiet
  <2>1. kills' = 0 => kills = 0
    <3>1. kills + 1 # 0
      BY <1>0 DEF TypeOK
    <3> QED BY <3>1
          DEF Next, RunStep, ServerStep, Start, Launch, PollEnds, PollSleeps, Connect, Refused, Send,
              Reset, TimesOut, KillRun, Bind, Listen, Claim, Announce, Accept, Hangup, Reply,
              ReplyToNobody, KillServer
  <2>2. slow \subseteq slow'
    BY DEF Next, RunStep, ServerStep, Start, Launch, PollEnds, PollSleeps, Connect, Refused, Send,
           Reset, TimesOut, KillRun, Bind, Listen, Claim, Announce, Accept, Hangup, Reply,
           ReplyToNobody, KillServer
  <2>3. \A r \in Runs : polls[r] < PollLimit \/ polls'[r] = polls[r]
    BY <1>0
       DEF Next, RunStep, ServerStep, Start, Launch, PollEnds, PollSleeps, Connect, Refused, Send,
           Reset, TimesOut, KillRun, Bind, Listen, Claim, Announce, Accept, Hangup, Reply,
           ReplyToNobody, KillServer, TypeOK
  <2> QED BY <2>1, <2>2, <2>3 DEF Quiet
<1>c. /\ hit = {}
      /\ \A r \in Runs : run[r] \notin {"killed", "failed"}
      /\ \A r \in Runs : run[r] = "served" => \E s \in Runs : server[s] \in {"accept", "read"}
      /\ (\E s \in Runs : server[s] # "none") =>
             Open \/ \E s \in Runs : server[s] \in {"started", "bound"}
  <2>1. \A r \in Runs : run[r] = "failed" => polls[r] = PollLimit \/ r \in slow \cup hit
    BY DEF FailInv, FailsOnlyIfHit
  <2>2. slow = {} /\ \A r \in Runs : polls[r] < PollLimit /\ polls[r] # PollLimit
    BY <1>0, <1>b, LimitsAssumption DEF Quiet, TypeOK
  <2> QED BY <1>b, <2>1, <2>2 DEF QuietInv
\* A step that lets all servers be, or one of them go on.
<1>d. ASSUME hit' = hit,
             \A r \in Runs : run'[r] # "killed",
             \A r \in Runs : run'[r] = "served" => run[r] = "served",
             \A s \in Runs : server'[s] = server[s] \/ (Listening(s) /\ server'[s] \in {"accept", "read"})
      PROVE  Goal
  <2>1. Open => Open'
    BY <1>d DEF Open, Listening
  <2>2. \A s \in Runs : /\ (server'[s] # "none" <=> server[s] # "none")
                        /\ server[s] \in {"started", "bound"} => server'[s] = server[s]
                        /\ server[s] \in {"accept", "read"} => server'[s] \in {"accept", "read"}
    BY <1>d DEF Listening
  <2>3. ASSUME NEW r \in Runs, run'[r] = "served" PROVE \E s \in Runs : server'[s] \in {"accept", "read"}
    BY <1>c, <1>d, <2>2, <2>3
  <2>4. ASSUME NEW s \in Runs, server'[s] # "none"
        PROVE  Open' \/ \E t \in Runs : server'[t] \in {"started", "bound"}
    <3>1. server[s] # "none"
      BY <2>2, <2>4
    <3>2. CASE Open
      BY <2>1, <3>2
    <3>3. ASSUME NEW t \in Runs, server[t] \in {"started", "bound"} PROVE server'[t] \in {"started", "bound"}
      BY <2>2, <3>3
    <3> QED BY <1>c, <3>1, <3>2, <3>3
  <2> QED BY <1>c, <1>d, <2>3, <2>4
<1>1. ASSUME NEW r \in Runs,
             Start(r) \/ PollEnds(r) \/ PollSleeps(r) \/ Connect(r) \/ Refused(r) \/ Send(r) \/ Reset(r)
      PROVE  Goal
  <2>1. UNCHANGED <<server, hit>> /\ \A q \in Runs : run'[q] = run[q] \/ run'[q] \notin {"killed", "served"}
    BY <1>0, <1>1 DEF Start, PollEnds, PollSleeps, Connect, Refused, Send, Reset, Goes, TypeOK
  <2> QED BY <1>c, <1>d, <2>1
<1>2. ASSUME NEW r \in Runs, Launch(r) PROVE Goal
  <2>1. /\ hit' = hit /\ \A q \in Runs : run'[q] = IF q = r THEN "poll" ELSE run[q]
        /\ \A s \in Runs : server'[s] = IF s = r THEN "started" ELSE server[s]
        /\ server[r] = "none"
    BY <1>0, <1>2 DEF Launch, Goes, FailInv, StartedOnce, TypeOK
  <2>2. \A s \in Runs : server[s] \in {"accept", "read"} \/ Listening(s) => server'[s] = server[s]
    BY <2>1 DEF Listening
  <2>3. server'[r] = "started"
    BY <2>1
  <2>4. \A q \in Runs : run'[q] = "served" => run[q] = "served"
    BY <2>1
  <2> QED BY <1>c, <2>1, <2>2, <2>3, <2>4
<1>3. ASSUME NEW s \in Runs, Bind(s) \/ Listen(s) PROVE Goal
  <2>1. /\ UNCHANGED <<run, hit>> /\ server[s] \in {"started", "bound"}
        /\ \A t \in Runs : t # s => server'[t] = server[t]
        /\ ~Open => server'[s] \in {"bound", "listening"}
    BY <1>0, <1>3 DEF Bind, Listen, Claim, TypeOK
  <2>2. Open => Open'
    BY <2>1 DEF Open, Listening
  <2>3. server'[s] = "listening" => Open'
    BY DEF Open, Listening
  <2> QED BY <1>c, <2>1, <2>2, <2>3
<1>4. ASSUME NEW s \in Runs, Announce(s) PROVE Goal
  <2>1. server[s] = "listening" /\ UNCHANGED run
    BY <1>4 DEF Announce
  <2>2. ~Gone(s)
    BY <1>c, <2>1 DEF Gone, FailInv, OneListener, Listening
  <2>3. server' = [server EXCEPT ![s] = "accept"] /\ UNCHANGED hit
    BY <1>4, <2>2 DEF Announce
  <2> QED BY <1>0, <1>c, <1>d, <2>1, <2>3 DEF Listening, TypeOK
<1>5. ASSUME NEW s \in Runs, Accept(s) \/ Hangup(s) PROVE Goal
  <2>1. UNCHANGED <<run, hit>> /\ Listening(s) /\ \E x \in {"accept", "read"} : server' = [server EXCEPT ![s] = x]
    BY <1>5 DEF Accept, Hangup, Listening
  <2> QED BY <1>0, <1>c, <1>d, <2>1 DEF TypeOK
<1>6. ASSUME NEW s \in Runs, Reply(s) PROVE Goal
  <2>1. /\ hit' = hit /\ \A q \in Runs : run'[q] = run[q] \/ run'[q] = "served"
        /\ server[s] = "read" /\ \A t \in Runs : server'[t] = IF t = s THEN "accept" ELSE server[t]
    BY <1>0, <1>6 DEF Reply, TypeOK
  <2>2. Open' /\ server'[s] \in {"accept", "read"}
    BY <2>1 DEF Open, Listening
  <2> QED BY <1>c, <2>1, <2>2
<1>7. ASSUME NEW s \in Runs, ReplyToNobody(s) PROVE FALSE
  <2>1. current = <<Head(current)>> /\ Head(current) \in Connection /\ Head(current).kind = "call"
    BY <1>0, <1>7, HasOne DEF ReplyToNobody, Requested, FailInv, Reading, TypeOK
  <2>2. Head(current).from \in Runs /\ run[Head(current).from] = "served"
    BY <1>c, <1>7, <2>1, CallsDiffer DEF ReplyToNobody, Requested, FailInv, SentInOrder
  <2>3. Has(<<Head(current)>>, Head(current).from)
    BY <2>1, <2>2, HasOne, CallsDiffer
  <2>4. ~Has(current, Head(current).from)
    BY <2>2 DEF OneConnection
  <2> QED BY <2>1, <2>3, <2>4, Zenon
<1>8. ASSUME NEW r \in Runs, TimesOut(r) \/ KillRun(r) \/ KillServer(r) PROVE FALSE
  <2>1. kills + 1 # 0 /\ kills = 0
    BY <1>0, <1>b DEF Quiet, TypeOK
  <2> QED BY <1>8, <2>1 DEF TimesOut, KillRun, KillServer, Quiet
<1> QED BY <1>1, <1>2, <1>3, <1>4, <1>5, <1>6, <1>7, <1>8 DEF Next, RunStep, ServerStep

\* When nobody was killed or gave up waiting and nothing is starting, any start
\* has left a server that listens.
THEOREM ServiceSettles == Spec => []Settled
<1>1. Init => OneConnection /\ QuietInv
  BY HasOne DEF Init, OneConnection, QuietInv, Once
<1>2. FailInv /\ OneConnection /\ QuietInv /\ [Next]_vars => OneConnection' /\ QuietInv'
  BY OneConnectionKept, QuietKept
<1>3. QuietInv => Settled
  BY DEF QuietInv, Settled, Quiet
<1> QED BY <1>1, <1>2, <1>3, AlwaysFailInv, PTL DEF Spec
=============================================================================
