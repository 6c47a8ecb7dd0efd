--------------------------- MODULE ModemBankProofs ---------------------------
(***************************************************************************)
(* Theorems of ModemBank, for any number of runs, polls and faults.         *)
(***************************************************************************)
EXTENDS ModemBank, FiniteSetTheorems, TLAPS

(***************************************************************************)
(* Types                                                                    *)
(***************************************************************************)
LEMMA InitTyped == Init => TypeOK
<1> SUFFICES ASSUME Init PROVE TypeOK
  OBVIOUS
<1>1. app \in [Apps -> {"idle", "launch", "poll", "dial", "done"}]
  BY DEF Init
<1>2. polls \in [Apps -> 0 .. PollLimit]
  <2>1. 0 \in 0 .. PollLimit
    BY BoundsAssumption
  <2> QED BY <2>1 DEF Init
<1>3. result \in [Apps -> {"none", "Carrier", "NoCarrier", "Interrupted"}]
  BY DEF Init
<1>4. modem \in [Apps -> Preparing \cup {"none", "serving", "gone"}]
  BY DEF Init
<1>5. link \in Apps \cup {NoLink} /\ raced \in BOOLEAN
  BY DEF Init
<1>6. signals \in 0 .. MaxSignals /\ kills \in 0 .. MaxKills
  BY BoundsAssumption DEF Init
<1> QED BY <1>1, <1>2, <1>3, <1>4, <1>5, <1>6 DEF TypeOK

LEMMA StepTyped == TypeOK /\ [Next]_vars => TypeOK'
<1> SUFFICES ASSUME TypeOK, [Next]_vars PROVE TypeOK'
  OBVIOUS
<1> USE BoundsAssumption DEF TypeOK, faults, Preparing
<1>1. ASSUME NEW a \in Apps, Check(a) PROVE TypeOK'
  BY <1>1 DEF Check
<1>2. ASSUME NEW a \in Apps, AppStep(a) PROVE TypeOK'
  <2>1. CASE Launch(a)     BY <2>1 DEF Launch
  <2>2. CASE PollEnds(a)   BY <2>2 DEF PollEnds
  <2>3. CASE PollSleeps(a)
    <3>1. polls[a] + 1 \in 0 .. PollLimit
      BY <2>3 DEF PollSleeps
    <3> QED BY <2>3, <3>1 DEF PollSleeps
  <2>4. CASE Dial(a)       BY <2>4 DEF Dial
  <2> QED BY <1>2, <2>1, <2>2, <2>3, <2>4 DEF AppStep
<1>3. ASSUME NEW s \in Apps, ServerStep(s) PROVE TypeOK'
  BY <1>3 DEF ServerStep, OpenPty, Unlink, Symlink, InstallHandlers, Become
<1>4. ASSUME NEW a \in Apps, Interrupt(a) PROVE TypeOK'
  <2>1. signals + 1 \in 0 .. MaxSignals
    BY <1>4 DEF Interrupt
  <2>2. Dies(a) => kills' \in 0 .. MaxKills
    BY DEF Dies
  <2> QED BY <1>4, <2>1, <2>2 DEF Interrupt, Hit, Dies
<1>5. ASSUME NEW s \in Apps, Terminate(s) PROVE TypeOK'
  <2>1. signals + 1 \in 0 .. MaxSignals
    BY <1>5 DEF Terminate
  <2> QED BY <1>5, <2>1 DEF Terminate, Hit
<1>6. ASSUME NEW s \in Apps, Kill(s) PROVE TypeOK'
  <2>1. kills + 1 \in 0 .. MaxKills
    BY <1>6 DEF Kill, Dies
  <2> QED BY <1>6, <2>1 DEF Kill, Dies
<1>7. CASE UNCHANGED vars
  BY <1>7 DEF vars
<1> QED BY <1>1, <1>2, <1>3, <1>4, <1>5, <1>6, <1>7 DEF Next

\* The variables of the modem bank stay typed.
THEOREM BankTypes == Spec => []TypeOK
  BY InitTyped, StepTyped, PTL DEF Spec

(***************************************************************************)
(* The name and its server.  A step that is not a fault gives the name to a *)
(* server that is past symlink(), and takes it away only on the way there.  *)
(***************************************************************************)

\* A run that has not launched has no server.
NoneBeforeLaunch == \A a \in Apps : app[a] \in {"idle", "launch"} => modem[a] = "none"

\* The server that owns the name is past symlink().
OwnerLinked == link # NoLink => modem[link] \in {"linked", "serving"}

\* If servers were started and none owns the name, one is on its way to it.
SomebodyComes ==
    link = NoLink /\ (\E a \in Apps : modem[a] # "none") =>
        \E s \in Apps : modem[s] \in {"started", "opened", "unlinked"}

BankInv == TypeOK /\ NoneBeforeLaunch /\ OwnerLinked /\ SomebodyComes

LEMMA InitBank == Init => BankInv
  BY InitTyped DEF Init, BankInv, NoneBeforeLaunch, OwnerLinked, SomebodyComes

LEMMA BeginKeepsLaunch ==
    ASSUME NoneBeforeLaunch, TypeOK, [Next]_vars
    PROVE  NoneBeforeLaunch'
<1> USE DEF NoneBeforeLaunch, TypeOK, faults
<1>1. ASSUME NEW a \in Apps, Check(a) PROVE NoneBeforeLaunch'
  BY <1>1 DEF Check
<1>2. ASSUME NEW a \in Apps, AppStep(a) PROVE NoneBeforeLaunch'
  BY <1>2 DEF AppStep, Launch, PollEnds, PollSleeps, Dial
<1>3. ASSUME NEW s \in Apps, ServerStep(s) PROVE NoneBeforeLaunch'
  BY <1>3 DEF ServerStep, OpenPty, Unlink, Symlink, InstallHandlers, Become
<1>4. ASSUME NEW a \in Apps, Interrupt(a) PROVE NoneBeforeLaunch'
  BY <1>4 DEF Interrupt, Hit, Dies, Preparing
<1>5. ASSUME NEW s \in Apps, Terminate(s) PROVE NoneBeforeLaunch'
  BY <1>5 DEF Terminate, Hit
<1>6. ASSUME NEW s \in Apps, Kill(s) PROVE NoneBeforeLaunch'
  BY <1>6 DEF Kill, Dies, Alive, Preparing
<1>7. CASE UNCHANGED vars
  BY <1>7 DEF vars
<1> QED BY <1>1, <1>2, <1>3, <1>4, <1>5, <1>6, <1>7 DEF Next

\* What the runs and the servers do, faults apart, keeps both.
LEMMA WorkKeepsOwner ==
    ASSUME TypeOK, NoneBeforeLaunch, OwnerLinked,
           NEW a \in Apps, Check(a) \/ AppStep(a) \/ ServerStep(a)
    PROVE  OwnerLinked'
<1> USE NoLinkAssumption DEF OwnerLinked, TypeOK, faults
<1>1. CASE Launch(a)
  <2>1. modem[a] = "none" /\ modem' = [modem EXCEPT ![a] = "started"] /\ link' = link
    BY <1>1 DEF Launch, NoneBeforeLaunch
  <2> QED BY <2>1
<1>2. CASE Check(a) \/ PollEnds(a) \/ PollSleeps(a) \/ Dial(a)
  BY <1>2 DEF Check, PollEnds, PollSleeps, Dial
<1>3. CASE OpenPty(a) \/ Unlink(a)
  BY <1>3 DEF OpenPty, Unlink, Become
<1>4. CASE Symlink(a) \/ InstallHandlers(a)
  BY <1>4 DEF Symlink, InstallHandlers, Become
<1> QED BY <1>1, <1>2, <1>3, <1>4 DEF AppStep, ServerStep

LEMMA WorkKeepsComer ==
    ASSUME TypeOK, NoneBeforeLaunch, SomebodyComes,
           NEW a \in Apps, Check(a) \/ AppStep(a) \/ ServerStep(a)
    PROVE  SomebodyComes'
<1> USE NoLinkAssumption DEF SomebodyComes, TypeOK, faults
<1>1. CASE Launch(a)
  BY <1>1 DEF Launch
<1>2. CASE Check(a) \/ PollEnds(a) \/ PollSleeps(a) \/ Dial(a)
  BY <1>2 DEF Check, PollEnds, PollSleeps, Dial
<1>3. CASE OpenPty(a) \/ Unlink(a)
  BY <1>3 DEF OpenPty, Unlink, Become
<1>4. CASE Symlink(a) \/ InstallHandlers(a)
  <2>1. CASE link = NoLink
    <3>1. CASE InstallHandlers(a)
      BY <2>1, <3>1 DEF InstallHandlers, Become
    <3>2. CASE Symlink(a)
      BY <2>1, <3>2 DEF Symlink, Become
    <3> QED BY <1>4, <3>1, <3>2
  <2>2. CASE link # NoLink
    BY <1>4, <2>2 DEF Symlink, InstallHandlers
  <2> QED BY <2>1, <2>2
<1> QED BY <1>1, <1>2, <1>3, <1>4 DEF AppStep, ServerStep

\* A signal or a kill is counted.
LEMMA FaultsCounted ==
    ASSUME TypeOK, NEW a \in Apps, Interrupt(a) \/ Terminate(a) \/ Kill(a)
    PROVE  signals' > 0 \/ kills' > 0
  BY DEF TypeOK, Interrupt, Terminate, Kill, Dies

\* Whatever a signal does, unless it kills a server without its handlers, the
\* owner of the name is still there or took the name with it.
LEMMA SignalsKeepOwner ==
    ASSUME TypeOK, OwnerLinked, kills' = 0,
           NEW a \in Apps, Interrupt(a) \/ Terminate(a)
    PROVE  OwnerLinked'
<1>1. CASE Terminate(a)
  BY <1>1, NoLinkAssumption DEF Terminate, Hit, OwnerLinked, TypeOK
<1>2. CASE Interrupt(a)
  <2>1. CASE Hit(a)
    BY <2>1, NoLinkAssumption DEF Hit, OwnerLinked, TypeOK
  <2>2. CASE UNCHANGED <<modem, link>>
    BY <2>2 DEF OwnerLinked
  <2>3. ~Dies(a)
    BY DEF Dies, TypeOK
  <2> QED BY <1>2, <2>1, <2>2, <2>3 DEF Interrupt
<1> QED BY <1>1, <1>2

(***************************************************************************)
(* LinkLeadsToModem                                                         *)
(***************************************************************************)
CleanInv ==
    /\ TypeOK
    /\ NoneBeforeLaunch
    /\ kills = 0 => OwnerLinked

LEMMA CleanStep == ASSUME CleanInv, [Next]_vars PROVE CleanInv'
<1> USE DEF CleanInv
<1>1. TypeOK' /\ NoneBeforeLaunch'
  BY StepTyped, BeginKeepsLaunch
<1>2. SUFFICES ASSUME kills' = 0 PROVE OwnerLinked'
  BY <1>1
<1>3. ASSUME NEW a \in Apps, Check(a) \/ AppStep(a) \/ ServerStep(a)
      PROVE  OwnerLinked'
  <2>1. kills = 0
    BY <1>2, <1>3 DEF Check, AppStep, Launch, PollEnds, PollSleeps, Dial, faults,
                      ServerStep, OpenPty, Unlink, Symlink, InstallHandlers, Become
  <2> QED BY <1>3, <2>1, WorkKeepsOwner
<1>4. ASSUME NEW a \in Apps, Interrupt(a) \/ Terminate(a) PROVE OwnerLinked'
  <2>1. kills = 0
    BY <1>2, <1>4 DEF Interrupt, Terminate, Dies, TypeOK
  <2> QED BY <1>2, <1>4, <2>1, SignalsKeepOwner
<1>5. ASSUME NEW s \in Apps PROVE ~Kill(s)
  BY <1>2 DEF Kill, Dies, TypeOK
<1>6. CASE UNCHANGED vars
  BY <1>2, <1>6 DEF vars, OwnerLinked
<1> QED BY <1>3, <1>4, <1>5, <1>6 DEF Next

\* As long as every server that ends runs on_signal, the symlink leads to a live
\* terminal, however many runs start a server and whichever of them signals
\* remove: server.c:186-201, on_signal.
THEOREM LinkLeads == Spec => []LinkLeadsToModem
<1>1. Init => CleanInv
  BY InitBank DEF BankInv, CleanInv
<1>2. CleanInv /\ [Next]_vars => CleanInv'
  BY CleanStep
<1>3. CleanInv => LinkLeadsToModem
  BY DEF CleanInv, OwnerLinked, LinkLeadsToModem, HasPty
<1> QED BY <1>1, <1>2, <1>3, PTL DEF Spec

(***************************************************************************)
(* Settled                                                                  *)
(***************************************************************************)
QuietInv ==
    /\ TypeOK
    /\ NoneBeforeLaunch
    /\ signals = 0 /\ kills = 0 => OwnerLinked /\ SomebodyComes

LEMMA QuietStep == ASSUME QuietInv, [Next]_vars PROVE QuietInv'
<1> USE DEF QuietInv
<1>1. TypeOK' /\ NoneBeforeLaunch'
  BY StepTyped, BeginKeepsLaunch
<1>2. SUFFICES ASSUME signals' = 0, kills' = 0 PROVE OwnerLinked' /\ SomebodyComes'
  BY <1>1
<1>3. ASSUME NEW a \in Apps, Check(a) \/ AppStep(a) \/ ServerStep(a)
      PROVE  OwnerLinked' /\ SomebodyComes'
  <2>1. signals = 0 /\ kills = 0
    BY <1>2, <1>3 DEF Check, AppStep, Launch, PollEnds, PollSleeps, Dial, faults,
                      ServerStep, OpenPty, Unlink, Symlink, InstallHandlers, Become
  <2> QED BY <1>3, <2>1, WorkKeepsOwner, WorkKeepsComer
<1>4. ASSUME NEW a \in Apps, Interrupt(a) \/ Terminate(a) \/ Kill(a) PROVE FALSE
  BY <1>2, <1>4, FaultsCounted
<1>5. CASE UNCHANGED vars
  BY <1>2, <1>5 DEF vars, OwnerLinked, SomebodyComes
<1> QED BY <1>3, <1>4, <1>5 DEF Next

\* Without signals and kills, any number of runs that race to start a server
\* end up with one that owns the name and serves: the server that takes the
\* name last keeps it (EnsureModemBankIsRunning, main() of server.c).
THEOREM SettlesDown == Spec => []Settled
<1>1. Init => QuietInv
  BY InitBank DEF BankInv, QuietInv
<1>2. QuietInv /\ [Next]_vars => QuietInv'
  BY QuietStep
<1>3. QuietInv => Settled
  BY DEF QuietInv, Settled, OwnerLinked, SomebodyComes, Running, Preparing, TypeOK
<1> QED BY <1>1, <1>2, <1>3, PTL DEF Spec

(***************************************************************************)
(* DanglingStays                                                            *)
(***************************************************************************)
LEMMA NothingServes ==
    ASSUME TypeOK, Dangling
    PROVE  /\ ~HasPty(link)
           /\ \A s \in Apps : modem[s] # "serving" /\ ~Alive(s) /\ ~ServerStep(s)
<1> USE DEF Dangling, Preparing
<1>1. ~HasPty(link)
  BY DEF HasPty, Alive
<1>2. ASSUME NEW s \in Apps PROVE modem[s] # "serving" /\ ~Alive(s) /\ ~ServerStep(s)
  BY DEF Alive, ServerStep, OpenPty, Unlink, Symlink, InstallHandlers, Become
<1> QED BY <1>1, <1>2

\* Whatever happens, a name that leads nowhere stays once nothing is starting,
\* and no call gets through again: File.Exists, DialupPaymentSilo.cs:76.
THEOREM DanglingForGood == Spec => DanglingStays
<1>1. ASSUME TypeOK, Next, Dangling
      PROVE  Dangling' /\ \A a \in Apps : result'[a] # result[a] => result'[a] # "Carrier"
  <2> USE <1>1, NothingServes
  <2>1. ASSUME UNCHANGED <<modem, link>>, \A a \in Apps : app'[a] # app[a] => app'[a] # "launch"
        PROVE  Dangling'
    BY <2>1 DEF Dangling, Alive
  <2>2. ASSUME NEW a \in Apps, Check(a) \/ AppStep(a)
        PROVE  Dangling' /\ \A b \in Apps : result'[b] # result[b] => result'[b] # "Carrier"
    <3>1. ~Launch(a)
      BY DEF Launch, Dangling
    <3>2. /\ UNCHANGED <<modem, link>>
          /\ \A b \in Apps : app'[b] # app[b] => app'[b] # "launch"
          /\ \A b \in Apps : result'[b] # result[b] => result'[b] # "Carrier"
      BY <2>2, <3>1 DEF Check, AppStep, PollEnds, PollSleeps, Dial, LinkExists, Dangling, TypeOK
    <3> QED BY <2>1, <3>2
  <2>3. ASSUME NEW a \in Apps, Interrupt(a)
        PROVE  Dangling' /\ \A b \in Apps : result'[b] # result[b] => result'[b] # "Carrier"
    <3>1. /\ UNCHANGED <<modem, link>>
          /\ \A b \in Apps : app'[b] # app[b] => app'[b] # "launch"
          /\ \A b \in Apps : result'[b] # result[b] => result'[b] # "Carrier"
      BY <2>3 DEF Interrupt, Dies, TypeOK
    <3> QED BY <2>1, <3>1
  <2>4. ASSUME NEW s \in Apps PROVE ~ServerStep(s) /\ ~Terminate(s) /\ ~Kill(s)
    BY DEF Terminate, Kill, Dies
  <2> QED BY <2>2, <2>3, <2>4 DEF Next
<1>2. TypeOK /\ [Next]_vars =>
          [Dangling => /\ Dangling'
                       /\ \A a \in Apps : result'[a] # result[a] => result'[a] # "Carrier"]_vars
  BY <1>1
<1> QED BY <1>2, BankTypes, PTL DEF Spec, DanglingStays

(***************************************************************************)
(* OneModem and NoCarrierOnlyIfSlow                                         *)
(***************************************************************************)
Sequential == Undisturbed /\ \A a \in Apps : polls[a] < PollLimit

\* Runs in sequence: only one is under way, a server owns the name or is on
\* its way to it while its run waits, nobody launches next to a server, and
\* nobody dials a name that is not there.
InTurn ==
    /\ \A a, b \in Apps : Running(a) /\ Running(b) => a = b
    /\ \A s \in Apps : modem[s] # "none" =>
          link = s \/ (app[s] = "poll" /\ link = NoLink)
    /\ \A a \in Apps : app[a] = "launch" => \A s \in Apps : modem[s] = "none"
    /\ \A a \in Apps : app[a] = "dial" => link # NoLink
    /\ \A a \in Apps : result[a] # "NoCarrier"

TurnInv == QuietInv /\ (Sequential => InTurn)

LEMMA StaysSequential ==
    ASSUME TypeOK, [Next]_vars, Sequential'
    PROVE  Sequential
<1> USE DEF Sequential, Undisturbed, TypeOK, faults
<1>1. ASSUME NEW a \in Apps, Check(a) \/ AppStep(a) \/ ServerStep(a) PROVE Sequential
  <2>1. raced => raced'
    BY <1>1 DEF Check, AppStep, Launch, PollEnds, PollSleeps, Dial,
                ServerStep, OpenPty, Unlink, Symlink, InstallHandlers, Become
  <2>2. signals' = signals /\ kills' = kills
    BY <1>1 DEF Check, AppStep, Launch, PollEnds, PollSleeps, Dial,
                ServerStep, OpenPty, Unlink, Symlink, InstallHandlers, Become
  <2>3. \A b \in Apps : polls'[b] < PollLimit => polls[b] < PollLimit
    BY <1>1, BoundsAssumption
       DEF Check, AppStep, Launch, PollEnds, PollSleeps, Dial,
           ServerStep, OpenPty, Unlink, Symlink, InstallHandlers, Become
  <2> QED BY <2>1, <2>2, <2>3
<1>2. ASSUME NEW a \in Apps, Interrupt(a) \/ Terminate(a) \/ Kill(a) PROVE FALSE
  BY <1>2, FaultsCounted
<1>3. CASE UNCHANGED vars
  BY <1>3 DEF vars
<1> QED BY <1>1, <1>2, <1>3 DEF Next

LEMMA TurnStep == ASSUME TurnInv, [Next]_vars PROVE TurnInv'
<1>1. QuietInv'
  BY QuietStep DEF TurnInv
<1> SUFFICES ASSUME Sequential' PROVE InTurn'
  BY <1>1 DEF TurnInv
<1>2. Sequential /\ InTurn /\ OwnerLinked /\ SomebodyComes /\ TypeOK /\ NoneBeforeLaunch
  BY StaysSequential DEF TurnInv, QuietInv, Sequential, Undisturbed
<1> USE <1>2 DEF InTurn, TypeOK, faults, Running
<1>3. ASSUME NEW a \in Apps, Check(a) PROVE InTurn'
  <2>1. \A b \in Apps : ~Running(b)
    BY <1>3 DEF Check, Sequential, Undisturbed
  <2>2. link = NoLink => \A s \in Apps : modem[s] = "none"
    BY <2>1, NoLinkAssumption
  <2> QED BY <1>3, <2>1, <2>2 DEF Check, LinkExists
<1>4. ASSUME NEW a \in Apps, Launch(a) PROVE InTurn'
  <2>1. link = NoLink
    BY <1>4 DEF Launch, OwnerLinked
  <2> QED BY <1>4, <2>1 DEF Launch
<1>5. ASSUME NEW a \in Apps, PollEnds(a) PROVE InTurn'
  <2>1. link # NoLink
    BY <1>5 DEF PollEnds, LinkExists, Sequential
  <2> QED BY <1>5, <2>1 DEF PollEnds
<1>6. ASSUME NEW a \in Apps, PollSleeps(a) PROVE InTurn'
  BY <1>6 DEF PollSleeps
<1>7. ASSUME NEW a \in Apps, Dial(a) PROVE InTurn'
  <2>1. link # NoLink /\ HasPty(link)
    BY <1>7 DEF Dial, OwnerLinked, HasPty
  <2> QED BY <1>7, <2>1 DEF Dial
<1>8. ASSUME NEW s \in Apps, ServerStep(s) PROVE InTurn'
  <2>1. CASE OpenPty(s) \/ InstallHandlers(s)
    BY <2>1 DEF OpenPty, InstallHandlers, Become
  <2>2. CASE Unlink(s)
    <3>1. modem[s] = "opened" /\ link = NoLink /\ app[s] = "poll"
      BY <2>2, NoLinkAssumption DEF Unlink, Become, OwnerLinked
    <3> QED BY <2>2, <3>1 DEF Unlink, Become
  <2>3. CASE Symlink(s)
    <3>1. modem[s] = "unlinked" /\ link = NoLink /\ app[s] = "poll"
      BY <2>3, NoLinkAssumption DEF Symlink, Become, OwnerLinked
    <3>2. \A t \in Apps : modem[t] # "none" => app[t] = "poll"
      BY <3>1, NoLinkAssumption
    <3>3. \A t \in Apps \ {s} : modem[t] = "none"
      BY <3>1, <3>2
    <3>4. link' = s /\ modem' = [modem EXCEPT ![s] = "linked"]
      BY <2>3, <3>1 DEF Symlink, Become
    <3>5. UNCHANGED <<app, result>>
      BY <2>3 DEF Symlink, Become
    <3> QED BY <3>1, <3>3, <3>4, <3>5, NoLinkAssumption
  <2> QED BY <1>8, <2>1, <2>2, <2>3 DEF ServerStep
<1>9. ASSUME NEW a \in Apps, Interrupt(a) \/ Terminate(a) \/ Kill(a) PROVE InTurn'
  BY <1>9, FaultsCounted DEF Sequential, Undisturbed
<1>10. CASE UNCHANGED vars
  BY <1>10 DEF vars
<1> QED BY <1>3, <1>4, <1>5, <1>6, <1>7, <1>8, <1>9, <1>10 DEF Next, AppStep

LEMMA InitTurn == Init => TurnInv
<1> SUFFICES ASSUME Init PROVE TurnInv
  OBVIOUS
<1>1. QuietInv
  BY InitBank DEF BankInv, QuietInv
<1>2. InTurn
  BY DEF Init, InTurn, Running
<1> QED BY <1>1, <1>2 DEF TurnInv

\* Any number of runs one after the other, of which none used up its polls,
\* share the first one's server.
THEOREM OneServer == Spec => []OneModem
<1>1. TurnInv => OneModem
  <2> SUFFICES ASSUME TurnInv, Sequential
               PROVE  Cardinality({a \in Apps : modem[a] # "none"}) <= 1
    BY DEF OneModem, Sequential
  <2> DEFINE Started == {a \in Apps : modem[a] # "none"}
  <2>1. \A s, t \in Started : s = t
    BY NoLinkAssumption DEF TurnInv, InTurn, Running
  <2>2. CASE Started = {}
    BY <2>2, FS_EmptySet
  <2>3. CASE Started # {}
    <3>1. PICK s \in Started : TRUE
      BY <2>3
    <3>2. Started = {s}
      BY <2>1, <3>1
    <3>3. Cardinality({s}) = 1
      BY FS_Singleton
    <3> QED BY <3>2, <3>3
  <2> QED BY <2>2, <2>3
<1> QED BY <1>1, InitTurn, TurnStep, PTL DEF Spec

\* In the same sequence nobody hears NO CARRIER.
THEOREM CarrierUnlessSlow == Spec => []NoCarrierOnlyIfSlow
<1>1. TurnInv => NoCarrierOnlyIfSlow
  <2> SUFFICES ASSUME TurnInv, Undisturbed, \A b \in Apps : polls[b] # PollLimit
               PROVE  \A a \in Apps : result[a] # "NoCarrier"
    BY DEF NoCarrierOnlyIfSlow
  <2>1. Sequential
    BY BoundsAssumption DEF Sequential, TurnInv, QuietInv, TypeOK
  <2> QED BY <2>1 DEF TurnInv, InTurn
<1> QED BY <1>1, InitTurn, TurnStep, PTL DEF Spec
=============================================================================
