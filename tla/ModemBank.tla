------------------------------ MODULE ModemBank ------------------------------
(***************************************************************************)
(* Who starts the modem bank, and when does the next call find it?          *)
(*                                                                          *)
(* Every AstroCampPlanner process looks for the symlink                     *)
(* campplanner_modem_port, starts TestServers/DialupServer if it is not     *)
(* there, waits for it a while and then lets the dialer open it             *)
(* (DialupPaymentSilo.cs).  A server makes a pseudo-terminal and points the *)
(* symlink at it, whoever owned the name before; a signal makes it remove   *)
(* the name, whoever owns it now (server.c).  A server is named after the   *)
(* process that started it; it outlives that process.                       *)
(***************************************************************************)
EXTENDS Naturals, FiniteSets

CONSTANTS
    Apps,          \* the runs of the program that get as far as ChargeCard
    NoLink,        \* the symlink does not exist
    Terminals,     \* how many of them can be at it at once
    PollLimit,     \* how often a run looks for the symlink (50 in the code)
    MaxSignals,    \* bound: SIGINTs to a run, and SIGINTs and SIGTERMs to its server
    MaxKills       \* bound: servers that die without running their handler

ASSUME BoundsAssumption ==
    Terminals \in Nat /\ PollLimit \in Nat /\ MaxSignals \in Nat /\ MaxKills \in Nat
ASSUME NoLinkAssumption == NoLink \notin Apps

VARIABLES
    app,      \* app[a]: where run a is in ChargeCard
    polls,    \* polls[a]: how often it has slept waiting for the symlink
    result,   \* result[a]: what open() gave its dialer
    modem,    \* modem[a]: where the server that a started is in main()
    link,     \* the server whose terminal the symlink names, or NoLink
    raced,    \* history: some run began while another was under way
    signals,  \* history: signals delivered to servers so far
    kills     \* history: servers killed so far

vars == <<app, polls, result, modem, link, raced, signals, kills>>
faults == <<signals, kills>>

Preparing == {"started", "opened", "unlinked", "linked"}
Alive(s) == modem[s] \in Preparing \cup {"serving"}
HasPty(s) == modem[s] \in {"opened", "unlinked", "linked", "serving"}

TypeOK ==
    /\ app \in [Apps -> {"idle", "launch", "poll", "dial", "done"}]
    /\ polls \in [Apps -> 0 .. PollLimit]
    /\ result \in [Apps -> {"none", "Carrier", "NoCarrier", "Interrupted"}]
    /\ modem \in [Apps -> Preparing \cup {"none", "serving", "gone"}]
    /\ link \in Apps \cup {NoLink}
    /\ raced \in BOOLEAN
    /\ signals \in 0 .. MaxSignals
    /\ kills \in 0 .. MaxKills

Init ==
    /\ app = [a \in Apps |-> "idle"]
    /\ polls = [a \in Apps |-> 0]
    /\ result = [a \in Apps |-> "none"]
    /\ modem = [a \in Apps |-> "none"]
    /\ link = NoLink
    /\ raced = FALSE
    /\ signals = 0
    /\ kills = 0

(***************************************************************************)
(* A run of the program                                                     *)
(***************************************************************************)
Running(a) == app[a] \in {"launch", "poll", "dial"}

\* Mutant of LinkExists: a symlink to a terminal that is gone does not count.
LinkResolves == link # NoLink /\ HasPty(link)

\* File.Exists falls back to lstat(): a dangling symlink exists.
LinkExists == link # NoLink

\* Mutant of Check: a server is started whether or not there is one.
CheckBlindly(a) ==
    /\ app[a] = "idle"
    /\ Cardinality({b \in Apps : Running(b)}) < Terminals
    /\ app' = [app EXCEPT ![a] = "launch"]
    /\ raced' = (raced \/ \E b \in Apps : Running(b))
    /\ UNCHANGED <<polls, result, modem, link, faults>>

Check(a) ==
    /\ app[a] = "idle"
    /\ Cardinality({b \in Apps : Running(b)}) < Terminals
    /\ app' = [app EXCEPT ![a] = IF LinkExists THEN "dial" ELSE "launch"]
    /\ raced' = (raced \/ \E b \in Apps : Running(b))
    /\ UNCHANGED <<polls, result, modem, link, faults>>

\* Nobody looks again between File.Exists and Process.Start.
Launch(a) ==
    /\ app[a] = "launch"
    /\ modem' = [modem EXCEPT ![a] = "started"]
    /\ app' = [app EXCEPT ![a] = "poll"]
    /\ UNCHANGED <<polls, result, link, raced, faults>>

\* Mutant of PollEnds: nobody waits for the symlink.
PollEndsAtOnce(a) ==
    /\ app[a] = "poll"
    /\ app' = [app EXCEPT ![a] = "dial"]
    /\ UNCHANGED <<polls, result, modem, link, raced, faults>>

\* Mutant of PollEnds: the wait has no limit.
PollEndsWithLink(a) ==
    /\ app[a] = "poll"
    /\ LinkExists
    /\ app' = [app EXCEPT ![a] = "dial"]
    /\ UNCHANGED <<polls, result, modem, link, raced, faults>>

\* The loop ends when the symlink is there or the polls are used up; the code
\* that follows cannot tell which.
PollEnds(a) ==
    /\ app[a] = "poll"
    /\ LinkExists \/ polls[a] = PollLimit
    /\ app' = [app EXCEPT ![a] = "dial"]
    /\ UNCHANGED <<polls, result, modem, link, raced, faults>>

\* Mutant of PollSleeps: one sleep too many.
PollSleepsOnceMore(a) ==
    /\ app[a] = "poll"
    /\ ~LinkExists
    /\ polls[a] <= PollLimit
    /\ polls' = [polls EXCEPT ![a] = @ + 1]
    /\ UNCHANGED <<app, result, modem, link, raced, faults>>

PollSleeps(a) ==
    /\ app[a] = "poll"
    /\ ~LinkExists
    /\ polls[a] < PollLimit
    /\ polls' = [polls EXCEPT ![a] = @ + 1]
    /\ UNCHANGED <<app, result, modem, link, raced, faults>>

\* The dialer opens whatever the symlink names at that moment.
Dial(a) ==
    /\ app[a] = "dial"
    /\ app' = [app EXCEPT ![a] = "done"]
    /\ result' = [result EXCEPT ![a] =
                     IF link # NoLink /\ HasPty(link) THEN "Carrier" ELSE "NoCarrier"]
    /\ UNCHANGED <<polls, modem, link, raced, faults>>

AppStep(a) == Launch(a) \/ PollEnds(a) \/ PollSleeps(a) \/ Dial(a)

(***************************************************************************)
(* A server starting up                                                     *)
(***************************************************************************)
Become(s, from, to) ==
    /\ modem[s] = from
    /\ modem' = [modem EXCEPT ![s] = to]
    /\ UNCHANGED <<app, polls, result, raced, faults>>

OpenPty(s) == Become(s, "started", "opened") /\ UNCHANGED link

\* unlink(g_symlink) takes the name away from whoever has it.
Unlink(s) == Become(s, "opened", "unlinked") /\ link' = NoLink

\* Mutant of Symlink: a server that comes too late tidies the name away.
SymlinkTidiesUp(s) ==
    \/ /\ link = NoLink
       /\ Become(s, "unlinked", "linked")
       /\ link' = s
    \/ /\ link # NoLink
       /\ Become(s, "unlinked", "gone")
       /\ link' = NoLink

\* symlink() fails if another server was quicker, and this one exits.
Symlink(s) ==
    \/ /\ link = NoLink
       /\ Become(s, "unlinked", "linked")
       /\ link' = s
    \/ /\ link # NoLink
       /\ Become(s, "unlinked", "gone")
       /\ UNCHANGED link

InstallHandlers(s) == Become(s, "linked", "serving") /\ UNCHANGED link

ServerStep(s) == OpenPty(s) \/ Unlink(s) \/ Symlink(s) \/ InstallHandlers(s)

(***************************************************************************)
(* Signals                                                                  *)
(***************************************************************************)

\* Mutant of Hit: the handler exits without removing the name.
HitKeepsLink(s) ==
    /\ modem' = [modem EXCEPT ![s] = "gone"]
    /\ UNCHANGED link

\* What SIGINT or SIGTERM does to a server that has its handlers: on_signal
\* unlinks the name, which by now may be another server's.
Hit(s) ==
    /\ modem' = [modem EXCEPT ![s] = "gone"]
    /\ link' = NoLink

Terminate(s) ==
    /\ modem[s] = "serving"
    /\ signals < MaxSignals
    /\ signals' = signals + 1
    /\ Hit(s)
    /\ UNCHANGED <<app, polls, result, raced, kills>>

\* A server dies and leaves the name alone: SIGKILL, a crash, a signal before
\* the handlers are in place, or SIGPIPE from the log line it prints for every
\* command, if the run that held its standard output is gone and it did not
\* inherit an ignored SIGPIPE.
Dies(s) ==
    /\ Alive(s)
    /\ kills < MaxKills
    /\ kills' = kills + 1
    /\ modem' = [modem EXCEPT ![s] = "gone"]
    /\ UNCHANGED link

\* Ctrl-C reaches the whole process group: the run and the server it started.
Interrupt(a) ==
    /\ Running(a)
    /\ signals < MaxSignals
    /\ signals' = signals + 1
    /\ app' = [app EXCEPT ![a] = "done"]
    /\ result' = [result EXCEPT ![a] = "Interrupted"]
    /\ \/ modem[a] = "serving" /\ Hit(a) /\ UNCHANGED kills
       \/ modem[a] \in Preparing /\ Dies(a)
       \/ ~Alive(a) /\ UNCHANGED <<modem, link, kills>>
    /\ UNCHANGED <<polls, raced>>

Kill(s) ==
    /\ Dies(s)
    /\ UNCHANGED <<app, polls, result, raced, signals>>

Next ==
    \/ \E a \in Apps : Check(a) \/ AppStep(a) \/ Interrupt(a)
    \/ \E s \in Apps : ServerStep(s) \/ Terminate(s) \/ Kill(s)

Spec == Init /\ [][Next]_vars

\* A run that has begun goes on, and so does a server that has been started;
\* nobody has to begin, and signals need not come.
Fairness == \A a \in Apps : WF_vars(AppStep(a)) /\ WF_vars(ServerStep(a))

FairSpec == Spec /\ Fairness

(***************************************************************************)
(* Properties                                                               *)
(***************************************************************************)

\* As long as no server dies without running on_signal, the name is never
\* left behind: whichever servers raced for it and whichever were signalled, it
\* leads to a live terminal.
LinkLeadsToModem == kills = 0 /\ link # NoLink => HasPty(link)

\* Without signals, once nothing is starting any more, the name leads to a
\* server that serves, if any run ever had to start one, even when several
\* started theirs at the same time.
Settled ==
    /\ signals = 0 /\ kills = 0
    /\ \A a \in Apps : ~Running(a) /\ modem[a] \notin Preparing
    /\ \E a \in Apps : modem[a] # "none"
    => link # NoLink /\ modem[link] = "serving"

Undisturbed == ~raced /\ signals = 0 /\ kills = 0

\* As long as the runs come one after the other and none gave up waiting, the
\* server that was started serves them all, and no second one is ever started.
OneModem ==
    Undisturbed /\ (\A a \in Apps : polls[a] < PollLimit) =>
        Cardinality({a \in Apps : modem[a] # "none"}) <= 1

\* Then nobody hears NO CARRIER unless some run, not necessarily this one, gave
\* up waiting: its late server takes the name from the next one's.
NoCarrierOnlyIfSlow ==
    Undisturbed /\ (\E a \in Apps : result[a] = "NoCarrier") =>
        \E b \in Apps : polls[b] = PollLimit

\* A dangling name is for ever: once the servers being started at the time are
\* through, no run replaces it and every call ends in NO CARRIER
\* (File.Exists, DialupPaymentSilo.cs:76).
Dangling ==
    /\ link # NoLink /\ ~Alive(link)
    /\ \A a \in Apps : app[a] # "launch" /\ modem[a] \notin Preparing \cup {"serving"}

DanglingStays ==
    [][Dangling => /\ Dangling'
                   /\ \A a \in Apps : result'[a] # result[a] => result'[a] # "Carrier"]_vars

\* EnsureModemBankIsRunning and ChargeCard come to an end.
EveryRunEnds == \A a \in Apps : app[a] # "idle" ~> app[a] = "done"
=============================================================================
