------------------------------- MODULE Planner -------------------------------
(***************************************************************************)
(* Program.cs: a run of the planner asks three services for a plan, shows   *)
(* it, and then has the customer pay for it.  A customer whom a run told    *)
(* that nothing was paid, a declined card included, may run it again.       *)
(*                                                                          *)
(* The payment itself is ChargeDesk, whose callers are the runs: what       *)
(* DialupLine is shown to keep, this module builds upon.  That a call of a  *)
(* service returns or throws is ServiceLaunch, HttpRequest and ParksRpc.    *)
(***************************************************************************)
EXTENDS Naturals, Sequences, FiniteSets

CONSTANTS
    Runs,    \* runs of the program; those of a customer in this order
    Owner,   \* whose run it is
    Inputs   \* what each run may find on its standard input, line by line

\* A line, by what it is good for: a number that PromptIndex takes, the two
\* demo card numbers, their expiry and CVV, and everything else.
Lines == {"pick", "approved number", "declined number", "expiry", "cvv", "junk"}

ASSUME RunsAssumption == Runs \subseteq Nat
ASSUME InputsAssumption == \A r \in Runs : Inputs[r] \subseteq Seq(Lines)

VARIABLES
    input,     \* the lines each run finds; never changes
    read,      \* how many of them it has read
    at,        \* where it is
    shown,     \* the runs that have printed their itinerary
    dialed,    \* the runs that have started the dialer
    said,      \* how each run ended: its last message
    ledger,    \* ChargeDesk: the runs charged
    receipts,  \* ChargeDesk: receipts nobody was shown
    outcome    \* ChargeDesk: what the dialer told each run

runVars == <<input, read, at, shown, dialed, said>>
vars == <<input, read, at, shown, dialed, said, ledger, receipts, outcome>>

(***************************************************************************)
(* The card a run presents: the three lines behind the second valid number, *)
(* a missing one being the empty string.                                    *)
(***************************************************************************)
Picks(inp) == {i \in DOMAIN inp : inp[i] = "pick"}

CardLine(inp, k) ==
    LET second == CHOOSE i \in Picks(inp) : Cardinality({j \in Picks(inp) : j <= i}) = 2
    IN  IF Cardinality(Picks(inp)) >= 2 /\ second + k \in DOMAIN inp
        THEN inp[second + k] ELSE ""

Presented(inp) ==
    LET number == CardLine(inp, 1)
        details == CardLine(inp, 2) = "expiry" /\ CardLine(inp, 3) = "cvv"
    IN  IF number \notin {"approved number", "declined number"} THEN "unknown"
        ELSE IF ~details THEN "mismatch"
        ELSE IF number = "approved number" THEN "approve" ELSE "decline"

Cards == [inp \in UNION {Inputs[r] : r \in Runs} |-> Presented(inp)]

card == [r \in Runs |-> Cards[input[r]]]

Desk == INSTANCE ChargeDesk WITH Callers <- Runs

(***************************************************************************)
(* How a run can end, and its exit status.                                  *)
(***************************************************************************)
Unreached == "could not reach a service"
Crashed == "unhandled exception"
Interrupted == "interrupted"
BrokenOff == "interrupted while paying"

\* Mutant of Message: the default case of the switch is missing.
MessageNoDefault(o) == IF o = "Error" THEN "NoCarrier" ELSE o

\* The switch on the outcome has a case and a message for each.
Message(o) == o

Endings == {"Approved", "Declined", "RejectedLocally", "NoCarrier", "Error",
            Unreached, Crashed, Interrupted, BrokenOff}

\* Mutant of ExitCode: a declined card is a success, too.
ExitCodeLax(s) == IF s \in {"Approved", "Declined"} THEN 0 ELSE 1

ExitCode(s) == IF s = "Approved" THEN 0 ELSE 1

\* The messages that say that nothing was paid, by which a customer goes; that
\* of "Declined" adds that the itinerary was not saved.
NothingPaid == {Unreached, Crashed, Interrupted, "Declined", "RejectedLocally", "NoCarrier"}

Stages == {"idle", "roster", "park", "constellation", "transit", "weather", "card",
           "dialing", "waiting", "ended"}

Init ==
    /\ input \in [Runs -> UNION {Inputs[r] : r \in Runs}]
    /\ \A r \in Runs : input[r] \in Inputs[r]
    /\ read = [r \in Runs |-> 0]
    /\ at = [r \in Runs |-> "idle"]
    /\ shown = {} /\ dialed = {}
    /\ said = [r \in Runs |-> "nothing"]
    /\ Desk!Init

End(r, s) ==
    /\ at' = [at EXCEPT ![r] = "ended"]
    /\ said' = [said EXCEPT ![r] = s]

Go(r, stage) == at' = [at EXCEPT ![r] = stage] /\ UNCHANGED said

UnchangedDesk == UNCHANGED <<ledger, receipts, outcome>>

(***************************************************************************)
(* The steps of a run                                                       *)
(***************************************************************************)

\* The customer starts it, after an earlier one only if that said that nothing
\* was paid.
Start(r) ==
    /\ at[r] = "idle"
    /\ \A s \in Runs : s < r /\ Owner[s] = Owner[r] => said[s] \in NothingPaid
    /\ Go(r, "roster")
    /\ UNCHANGED <<input, read, shown, dialed>> /\ UnchangedDesk

\* What comes after each call of a service; the last one completes the plan.
AfterCall == [roster |-> "park", transit |-> "weather", weather |-> "card"]

Answered(r) ==
    /\ at[r] \in DOMAIN AfterCall
    /\ Go(r, AfterCall[at[r]])
    /\ shown' = IF at[r] = "weather" THEN shown \cup {r} ELSE shown
    /\ UNCHANGED <<input, read, dialed>> /\ UnchangedDesk

\* Mutant of Fails: the handler does not return.
FailsOn(r) ==
    /\ at[r] \in DOMAIN AfterCall
    /\ Go(r, AfterCall[at[r]])
    /\ UNCHANGED <<input, read, shown, dialed>> /\ UnchangedDesk

\* The call throws: the service cannot be started or reached.
Fails(r) ==
    /\ at[r] \in DOMAIN AfterCall
    /\ End(r, Unreached)
    /\ UNCHANGED <<input, read, shown, dialed>> /\ UnchangedDesk

\* PromptIndex asks until it gets a number.  At the end of the input it asks
\* for ever, which changes nothing.
Prompt(r) ==
    /\ at[r] \in {"park", "constellation"}
    /\ read[r] < Len(input[r])
    /\ read' = [read EXCEPT ![r] = @ + 1]
    /\ Go(r, IF input[r][read'[r]] # "pick" THEN at[r]
             ELSE IF at[r] = "park" THEN "constellation" ELSE "transit")
    /\ UNCHANGED <<input, shown, dialed>> /\ UnchangedDesk

\* Mutant of ReadCard: the end of the input is not taken for an answer.
ReadCardWaits(r) ==
    /\ at[r] = "card"
    /\ read[r] + 3 <= Len(input[r])
    /\ read' = [read EXCEPT ![r] = @ + 3]
    /\ Go(r, "dialing")
    /\ UNCHANGED <<input, shown, dialed>> /\ UnchangedDesk

\* Number, expiry and CVV, each the empty string at the end of the input.
ReadCard(r) ==
    /\ at[r] = "card"
    /\ read' = [read EXCEPT ![r] = IF @ + 3 <= Len(input[r]) THEN @ + 3 ELSE Len(input[r])]
    /\ Go(r, "dialing")
    /\ UNCHANGED <<input, shown, dialed>> /\ UnchangedDesk

\* ChargeCard starts the dialer,
Dial(r) ==
    /\ at[r] = "dialing"
    /\ dialed' = dialed \cup {r}
    /\ Go(r, "waiting")
    /\ UNCHANGED <<input, read, shown>> /\ UnchangedDesk

\* or cannot start it or the modem bank; nobody catches that.
DialFails(r) ==
    /\ at[r] = "dialing"
    /\ End(r, Crashed)
    /\ UNCHANGED <<input, read, shown, dialed>> /\ UnchangedDesk

\* The dialer ends with what the desk tells it.
Told(r) ==
    /\ at[r] = "waiting"
    /\ UNCHANGED runVars
    /\ \/ \E d \in Runs : Desk!ShowReceipt(r, d)
       \/ \E o \in {"NoCarrier", "Error"} : Desk!TurnAway(r, o)
       \/ Desk!Reject(r)

Conclude(r) ==
    /\ at[r] = "waiting"
    /\ outcome[r] # "none"
    /\ End(r, Message(outcome[r]))
    /\ UNCHANGED <<input, read, shown, dialed>> /\ UnchangedDesk

\* Ctrl-C.  The customer knows whether "Dialing out..." was there.
Interrupt(r) ==
    /\ at[r] \notin {"idle", "ended"}
    /\ End(r, IF at[r] \in {"dialing", "waiting"} THEN BrokenOff ELSE Interrupted)
    /\ UNCHANGED <<input, read, shown, dialed>> /\ UnchangedDesk

(***************************************************************************)
(* The desk works for every dialer that was started, whatever became of it. *)
(***************************************************************************)
Charge(r) == r \in dialed /\ UNCHANGED runVars /\ Desk!Charge(r)

LoseReceipts == UNCHANGED runVars /\ Desk!LoseReceipts

RunStep(r) ==
    \/ Answered(r) \/ Fails(r) \/ Prompt(r) \/ ReadCard(r)
    \/ Dial(r) \/ DialFails(r) \/ Told(r) \/ Conclude(r)

Next ==
    \/ \E r \in Runs : Start(r) \/ RunStep(r) \/ Interrupt(r) \/ Charge(r)
    \/ LoseReceipts

Spec == Init /\ [][Next]_vars

\* A run goes on as long as it can: the calls of the services and the dialer
\* come back, the customer types what there is to type.
FairSpec == Spec /\ \A r \in Runs : WF_vars(RunStep(r))

(***************************************************************************)
(* Properties                                                               *)
(***************************************************************************)
TypeOK ==
    /\ DOMAIN input = Runs /\ \A r \in Runs : input[r] \in Inputs[r]
    /\ read \in [Runs -> Nat] /\ \A r \in Runs : read[r] <= Len(input[r])
    /\ at \in [Runs -> Stages]
    /\ shown \subseteq Runs /\ dialed \subseteq Runs
    /\ said \in [Runs -> Endings \cup {"nothing"}]
    /\ ledger \subseteq dialed /\ receipts \subseteq ledger
    /\ outcome \in [Runs -> {"none", "Approved", "Declined", "RejectedLocally",
                             "NoCarrier", "Error"}]

\* The runs charged on a good card, and those of them that were shown the
\* decline of another run's card.
Paid == {r \in ledger : card[r] = "approve"}
Misled == {r \in Paid : said[r] = "Declined"}

\* A customer who runs the program again whenever it said that nothing was
\* paid pays twice only after the decline of somebody else's card was shown
\* for the first payment, however often a service, the dialer or the line
\* fails and wherever the runs were broken off; and no more runs are told of a
\* decline than cards were declined.  So while nobody presents another card
\* than a good one, nobody pays twice (Program.cs:14-66 and 89-109 on top of
\* what the payment path keeps).
TwiceOnlyIfMisled ==
    /\ \A r, s \in Paid : s < r /\ Owner[s] = Owner[r] => s \in Misled
    /\ Cardinality({r \in Runs : said[r] = "Declined"}) <= Cardinality(ledger \ Paid)

\* Nobody is charged for a plan that was not shown, nor on a card number that
\* was not typed: an input that ends early never pays.
ChargedForThePlan ==
    \A r \in ledger :
        /\ r \in shown
        /\ \E i \in 1 .. read[r] : input[r][i] \in {"approved number", "declined number"}

\* Exit status 0 is backed by money: there are never more successful runs
\* than charges on a good card, even if runs see receipts of others.
SuccessIsPaid ==
    Cardinality({r \in Runs : at[r] = "ended" /\ ExitCode(said[r]) = 0})
        <= Cardinality({r \in ledger : card[r] = "approve"})

\* A run whose input has ended at a menu: PromptIndex never returns.
Starved(r) == at[r] \in {"park", "constellation"} /\ read[r] = Len(input[r])

\* Every run comes to an end, unless its input ends at one of the two menus.
EveryRunEnds == \A r \in Runs : at[r] # "idle" ~> at[r] = "ended" \/ Starved(r)
=============================================================================
