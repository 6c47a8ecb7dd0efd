---------------------------- MODULE PlannerProofs ----------------------------
(***************************************************************************)
(* Theorems of Planner, for any customers, runs and inputs.                 *)
(*                                                                          *)
(* Who pays twice was shown the decline of another card.  That needs three  *)
(* facts that hold together: a run that says nothing was paid has not       *)
(* dialed, or says what its dialer was told; who was told NO CARRIER or     *)
(* rejected is never charged; and a run is started only after the earlier   *)
(* ones of its owner said that nothing was paid.  And it needs counting:    *)
(* every verdict that is shown uses up a receipt of that verdict, which     *)
(* also gives that successes are backed by charges.  A third theorem says   *)
(* that who is charged has seen the plan.                                   *)
(***************************************************************************)
EXTENDS Planner, FiniteSetTheorems, TLAPS

NeverCharged == {"NoCarrier", "RejectedLocally"}

SaysTrue ==
    \A r \in Runs : said[r] \in NothingPaid =>
        at[r] = "ended" /\ (r \in dialed => outcome[r] = said[r])

NeverAfter ==
    \A r \in Runs : /\ r \in ledger => card[r] # "unknown"
                    /\ outcome[r] = "RejectedLocally" => card[r] = "unknown"
                    /\ outcome[r] = "NoCarrier" => r \notin ledger

InOrder ==
    \A r, s \in Runs : s < r /\ Owner[s] = Owner[r] /\ at[r] # "idle" => said[s] \in NothingPaid

DialedAt == \A r \in dialed : at[r] \in {"waiting", "ended"}

IInv == TypeOK /\ SaysTrue /\ NeverAfter /\ InOrder /\ DialedAt

LEMMA Starts == Init => IInv
<1> SUFFICES ASSUME Init PROVE IInv
  OBVIOUS
<1>1. TypeOK
  <2>1. \A r \in Runs : Len(input[r]) \in Nat
    BY InputsAssumption DEF Init
  <2> QED BY <2>1 DEF Init, TypeOK, Desk!Init, Stages
<1>2. SaysTrue
  BY DEF Init, SaysTrue, NothingPaid, Unreached, Crashed, Interrupted
<1> QED BY <1>1, <1>2 DEF Init, IInv, NeverAfter, InOrder, DialedAt, Desk!Init

Outcomes == {"Approved", "Declined", "RejectedLocally", "NoCarrier", "Error"}

\* Every outcome has its message, and those that say that nothing was paid are
\* three of them.
LEMMA Promises ==
    /\ \A o \in Outcomes : Message(o) \in Endings /\ Message(o) = o
    /\ \A o \in Outcomes \cup {"none"} : o \in NothingPaid => o \in NeverCharged \cup {"Declined"}
    /\ BrokenOff \notin NothingPaid /\ "nothing" \notin NothingPaid
    /\ {Unreached, Crashed, Interrupted, BrokenOff} \subseteq Endings
  BY DEF Outcomes, Message, Endings, NothingPaid, NeverCharged, Unreached, Crashed, Interrupted, BrokenOff

\* Neither do the inputs change nor, therefore, the cards.
LEMMA CardsStay == UNCHANGED input => UNCHANGED card
  BY DEF card

(***************************************************************************)
(* A step of a run that does not end it, up to the dialer.                  *)
(***************************************************************************)
LEMMA GoesOn ==
  ASSUME IInv, NEW r \in Runs, NEW stage \in Stages \ {"idle", "ended"}, Go(r, stage),
         at[r] \notin {"idle", "waiting", "ended"},
         UNCHANGED <<input, ledger, receipts, outcome>>,
         read' \in [Runs -> Nat], \A s \in Runs : read'[s] <= Len(input[s]),
         shown' \subseteq Runs,
         dialed' = dialed \/ (dialed' = dialed \cup {r} /\ stage = "waiting")
  PROVE  IInv'
<1> USE DEF IInv
<1>0. r \notin dialed /\ said[r] \notin NothingPaid
  BY DEF DialedAt, SaysTrue
<1>1. at' = [at EXCEPT ![r] = stage] /\ said' = said
  BY DEF Go
<1>2. TypeOK'
  BY <1>1 DEF TypeOK
<1>3. SaysTrue'
  BY <1>0, <1>1 DEF SaysTrue, TypeOK
<1>4. NeverAfter'
  BY CardsStay DEF NeverAfter
<1>5. InOrder'
  BY <1>1 DEF InOrder, TypeOK
<1>6. DialedAt'
  BY <1>0, <1>1 DEF DialedAt, TypeOK
<1> QED BY <1>2, <1>3, <1>4, <1>5, <1>6

(***************************************************************************)
(* A step that ends a run.                                                  *)
(***************************************************************************)
LEMMA Ends ==
  ASSUME IInv, NEW r \in Runs, NEW s \in Endings, End(r, s), at[r] # "idle",
         said[r] \notin NothingPaid,
         s \in NothingPaid => (r \in dialed => outcome[r] = s),
         UNCHANGED <<input, read, shown, dialed, ledger, receipts, outcome>>
  PROVE  IInv'
<1> USE DEF IInv
<1>1. at' = [at EXCEPT ![r] = "ended"] /\ said' = [said EXCEPT ![r] = s]
  BY DEF End
<1>2. TypeOK'
  BY <1>1 DEF TypeOK, Stages
<1>3. SaysTrue'
  BY <1>1 DEF SaysTrue, TypeOK
<1>4. NeverAfter'
  BY CardsStay DEF NeverAfter
<1>5. InOrder'
  BY <1>1 DEF InOrder, TypeOK
<1>6. DialedAt'
  BY <1>1 DEF DialedAt, TypeOK
<1> QED BY <1>2, <1>3, <1>4, <1>5, <1>6

\* A run that has not ended has not said anything yet.
LEMMA NotYet ==
  ASSUME IInv, NEW r \in Runs, at[r] # "ended"
  PROVE  said[r] \notin NothingPaid
  BY DEF IInv, SaysTrue

LEMMA StartKeeps ==
  ASSUME IInv, NEW r \in Runs, Start(r)
  PROVE  IInv'
<1> USE DEF IInv
<1>1. at' = [at EXCEPT ![r] = "roster"] /\ said' = said
      /\ UNCHANGED <<input, read, shown, dialed, ledger, receipts, outcome>>
  BY DEF Start, Go, UnchangedDesk
<1>2. TypeOK'
  BY <1>1 DEF TypeOK, Stages
<1>3. r \notin dialed /\ said[r] \notin NothingPaid
  BY NotYet DEF Start, DialedAt
<1>4. SaysTrue'
  BY <1>1, <1>3 DEF SaysTrue, TypeOK
<1>5. NeverAfter'
  BY <1>1, CardsStay DEF NeverAfter
<1>6. InOrder'
  BY <1>1 DEF InOrder, TypeOK, Start
<1>7. DialedAt'
  BY <1>1, <1>3 DEF DialedAt, TypeOK
<1> QED BY <1>2, <1>4, <1>5, <1>6, <1>7

LEMMA RunsKeep ==
  ASSUME IInv, NEW r \in Runs,
         Answered(r) \/ Fails(r) \/ Prompt(r) \/ ReadCard(r) \/ Dial(r) \/ DialFails(r)
           \/ Conclude(r) \/ Interrupt(r)
  PROVE  IInv'
<1>0. /\ read \in [Runs -> Nat] /\ \A s \in Runs : read[s] <= Len(input[s])
      /\ \A s \in Runs : Len(input[s]) \in Nat
      /\ shown \subseteq Runs
  BY InputsAssumption DEF IInv, TypeOK
<1> USE DEF UnchangedDesk
<1>1. CASE Answered(r)
  <2>1. at[r] \in {"roster", "transit", "weather"}
        /\ AfterCall[at[r]] \in Stages \ {"idle", "ended"}
    BY <1>1 DEF Answered, AfterCall, Stages
  <2> QED BY <1>0, <1>1, <2>1, GoesOn DEF Answered
<1>2. CASE Fails(r)
  <2>1. at[r] \in {"roster", "transit", "weather"}
    BY <1>2 DEF Fails, AfterCall
  <2>2. r \notin dialed
    BY <2>1 DEF IInv, DialedAt
  <2> QED BY <1>2, <2>1, <2>2, Ends, NotYet, Promises DEF Fails
<1>3. CASE Prompt(r)
  <2>1. PICK stage \in {"park", "constellation", "transit"} : Go(r, stage)
    BY <1>3 DEF Prompt
  <2>2. stage \in Stages \ {"idle", "ended"}
    BY DEF Stages
  <2>3. read' \in [Runs -> Nat] /\ \A s \in Runs : read'[s] <= Len(input[s])
    BY <1>0, <1>3 DEF Prompt
  <2> QED BY <1>0, <1>3, <2>1, <2>2, <2>3, GoesOn DEF Prompt
<1>4. CASE ReadCard(r)
  <2>1. "dialing" \in Stages \ {"idle", "ended"}
    BY DEF Stages
  <2>2. read' \in [Runs -> Nat] /\ \A s \in Runs : read'[s] <= Len(input[s])
    BY <1>0, <1>4 DEF ReadCard
  <2> QED BY <1>0, <1>4, <2>1, <2>2, GoesOn DEF ReadCard
<1>5. CASE Dial(r)
  <2>1. "waiting" \in Stages \ {"idle", "ended"}
    BY DEF Stages
  <2> QED BY <1>0, <1>5, <2>1, GoesOn DEF Dial
<1>6. CASE DialFails(r)
  <2>1. r \notin dialed
    BY <1>6 DEF DialFails, IInv, DialedAt
  <2> QED BY <1>6, <2>1, Ends, NotYet, Promises DEF DialFails
<1>7. CASE Conclude(r)
  <2>1. outcome[r] \in Outcomes
    BY <1>7 DEF Conclude, IInv, TypeOK, Outcomes
  <2> QED BY <1>7, <2>1, Ends, NotYet, Promises DEF Conclude
<1>8. CASE Interrupt(r)
  <2>1. CASE at[r] \in {"dialing", "waiting"}
    BY <1>8, <2>1, Ends, NotYet, Promises DEF Interrupt
  <2>2. CASE at[r] \notin {"dialing", "waiting"}
    <3>1. r \notin dialed
      BY <1>8, <2>2 DEF Interrupt, IInv, DialedAt
    <3> QED BY <1>8, <2>2, <3>1, Ends, NotYet, Promises DEF Interrupt
  <2> QED BY <2>1, <2>2
<1> QED BY <1>1, <1>2, <1>3, <1>4, <1>5, <1>6, <1>7, <1>8

(***************************************************************************)
(* The desk                                                                 *)
(***************************************************************************)
LEMMA DeskKeeps ==
  ASSUME IInv, UNCHANGED runVars,
         NEW r \in Runs, Told(r) \/ Charge(r) \/ LoseReceipts
  PROVE  IInv'
<1> USE DEF IInv, runVars
<1>0. UNCHANGED card
  BY CardsStay
<1>1. CASE Charge(r)
  <2>1. /\ r \in dialed /\ card[r] # "unknown" /\ outcome[r] \notin NeverCharged
        /\ ledger' = ledger \cup {r} /\ receipts' = receipts \cup {r} /\ outcome' = outcome
    BY <1>1 DEF Charge, Desk!Charge, NeverCharged
  <2>2. TypeOK'
    BY <2>1 DEF TypeOK
  <2>3. NeverAfter'
    BY <1>0, <2>1 DEF NeverAfter, NeverCharged
  <2> QED BY <2>1, <2>2, <2>3 DEF SaysTrue, InOrder, DialedAt
<1>2. CASE Told(r)
  <2>1. PICK o \in Outcomes :
           /\ outcome[r] = "none" /\ outcome' = [outcome EXCEPT ![r] = o]
           /\ ledger' = ledger /\ receipts' \subseteq receipts
           /\ o = "NoCarrier" => r \notin ledger
           /\ o = "RejectedLocally" => card[r] = "unknown"
    BY <1>2 DEF Told, Desk!ShowReceipt, Desk!TurnAway, Desk!Reject, Desk!Tell, Outcomes
  <2>2. TypeOK'
    BY <2>1 DEF TypeOK, Outcomes
  <2>3. SaysTrue'
    <3>1. said[r] \notin NothingPaid
      BY <1>2, NotYet DEF Told
    <3> QED BY <2>1, <3>1 DEF SaysTrue, TypeOK
  <2>4. NeverAfter'
    BY <1>0, <2>1 DEF NeverAfter, TypeOK
  <2> QED BY <2>2, <2>3, <2>4 DEF InOrder, DialedAt
<1>3. CASE LoseReceipts
  <2>1. ledger' = ledger /\ outcome' = outcome /\ receipts' \subseteq receipts
    BY <1>3 DEF LoseReceipts, Desk!LoseReceipts
  <2> QED BY <1>0, <2>1 DEF TypeOK, SaysTrue, NeverAfter, InOrder, DialedAt
<1> QED BY <1>1, <1>2, <1>3

LEMMA AlwaysIInv == Spec => []IInv
<1>1. ASSUME IInv, [Next]_vars PROVE IInv'
  <2>1. ASSUME NEW r \in Runs, Start(r) PROVE IInv'
    BY <1>1, <2>1, StartKeeps
  <2>2. ASSUME NEW r \in Runs, RunStep(r) \/ Interrupt(r) PROVE IInv'
    <3>1. CASE Told(r)
      BY <1>1, <3>1, DeskKeeps DEF Told
    <3> QED BY <1>1, <2>2, <3>1, RunsKeep DEF RunStep
  <2>3. ASSUME NEW r \in Runs, Charge(r) PROVE IInv'
    BY <1>1, <2>3, DeskKeeps DEF Charge
  <2>4. CASE LoseReceipts
    <3>1. CASE Runs = {}
      <4>1. UNCHANGED runVars /\ ledger' = ledger /\ outcome' = outcome /\ receipts' \subseteq receipts
        BY <2>4 DEF LoseReceipts, Desk!LoseReceipts
      <4> QED BY <1>1, <4>1, CardsStay
              DEF runVars, IInv, TypeOK, SaysTrue, NeverAfter, InOrder, DialedAt
    <3>2. CASE Runs # {}
      BY <1>1, <2>4, <3>2, DeskKeeps DEF LoseReceipts
    <3> QED BY <3>1, <3>2
  <2>5. CASE UNCHANGED vars
    BY <1>1, <2>5, CardsStay
       DEF vars, IInv, TypeOK, SaysTrue, NeverAfter, InOrder, DialedAt
  <2> QED BY <1>1, <2>1, <2>2, <2>3, <2>4, <2>5 DEF Next
<1> QED BY <1>1, Starts, PTL DEF Spec

\* The types of the runs and of the desk; who is charged has dialed.
THEOREM PlannerTypes == Spec => []TypeOK
<1>1. IInv => TypeOK
  BY DEF IInv
<1> QED BY <1>1, AlwaysIInv, PTL

(***************************************************************************)
(* Charged for the plan.  Where a run is says how many numbers it has read, *)
(* and a card that is known has its number right behind the second of them. *)
(***************************************************************************)
ShownBefore ==
    \A r \in Runs : at[r] \in {"card", "dialing", "waiting"} \/ r \in dialed => r \in shown

PicksRead(r) == {i \in Picks(input[r]) : i <= read[r]}

\* j is the place of the second number of an input.
Second(inp, j) ==
    /\ j \in Picks(inp)
    /\ \E i \in Picks(inp) : i < j /\ {k \in Picks(inp) : k <= j} = {i, j}

CardRead(r) ==
    \E j \in Nat : Second(input[r], j) /\ read[r] \in {j + 3, Len(input[r])}

ReadSoFar(r) ==
    /\ at[r] \in {"idle", "roster", "park"} => PicksRead(r) = {}
    /\ at[r] = "constellation" => \E i \in Nat : PicksRead(r) = {i}
    /\ at[r] \in {"transit", "weather", "card"} => Second(input[r], read[r])
    /\ at[r] \in {"dialing", "waiting"} \/ r \in dialed => CardRead(r)

MenusFirst == \A r \in Runs : ReadSoFar(r)

\* The inputs are sequences of lines.
LEMMA InputsTyped ==
  ASSUME TypeOK, NEW r \in Runs
  PROVE  input[r] \in Seq(Lines) /\ Len(input[r]) \in Nat
         /\ DOMAIN input[r] = 1 .. Len(input[r]) /\ Picks(input[r]) \subseteq Nat
  BY InputsAssumption DEF TypeOK, Picks

LEMMA ShownKept ==
  ASSUME TypeOK, ShownBefore, DialedAt, [Next]_vars
  PROVE  ShownBefore'
<1> USE DEF ShownBefore, TypeOK, UnchangedDesk
<1>1. ASSUME NEW r \in Runs,
             Start(r) \/ Fails(r) \/ Prompt(r) \/ ReadCard(r) \/ DialFails(r)
               \/ Conclude(r) \/ Interrupt(r)
      PROVE  ShownBefore'
  BY <1>1 DEF Start, Fails, Prompt, ReadCard, DialFails, Conclude, Interrupt, Go, End
<1>2. ASSUME NEW r \in Runs, Answered(r) PROVE ShownBefore'
  BY <1>2 DEF Answered, Go, AfterCall
<1>3. ASSUME NEW r \in Runs, Dial(r) PROVE ShownBefore'
  BY <1>3 DEF Dial, Go
<1>4. CASE UNCHANGED runVars
  BY <1>4 DEF runVars
<1> QED BY <1>1, <1>2, <1>3, <1>4
        DEF Next, RunStep, Told, Charge, LoseReceipts, vars, runVars

LEMMA MenusKept ==
  ASSUME TypeOK, TypeOK', MenusFirst, DialedAt, [Next]_vars
  PROVE  MenusFirst'
<1> USE DEF MenusFirst, UnchangedDesk
<1>0. SUFFICES ASSUME NEW q \in Runs PROVE ReadSoFar(q)'
  OBVIOUS
<1>a. ReadSoFar(q) /\ input' = input /\ (q \in dialed => at[q] \in {"waiting", "ended"})
  BY DEF Next, RunStep, Start, Answered, Fails, Prompt, ReadCard, Dial, DialFails, Told,
         Conclude, Interrupt, Charge, LoseReceipts, vars, runVars, DialedAt
<1>b. ASSUME at'[q] = at[q] \/ at'[q] = "ended", read'[q] = read[q],
             q \in dialed' => q \in dialed
      PROVE  ReadSoFar(q)'
  BY <1>a, <1>b DEF ReadSoFar, PicksRead, CardRead
<1>c. read \in [Runs -> Nat] /\ read[q] \in Nat /\ Len(input[q]) \in Nat /\ at \in [Runs -> Stages]
      /\ DOMAIN input[q] = 1 .. Len(input[q]) /\ Picks(input[q]) \subseteq Nat
      /\ read[q] <= Len(input[q])
  BY InputsTyped DEF TypeOK
<1>1. ASSUME NEW r \in Runs, Start(r) \/ Answered(r) PROVE ReadSoFar(q)'
  <2>1. /\ read' = read /\ dialed' = dialed
        /\ \E s \in {"roster", "park", "weather", "card"} : at' = [at EXCEPT ![r] = s]
        /\ at'[r] \in {"roster", "park"} => at[r] \in {"idle", "roster"}
        /\ at'[r] \in {"weather", "card"} => at[r] \in {"transit", "weather"}
    BY <1>1, <1>c DEF Start, Answered, Go, AfterCall
  <2>2. CASE q = r
    BY <1>a, <1>c, <2>1, <2>2 DEF ReadSoFar, PicksRead, CardRead
  <2> QED BY <1>b, <1>c, <2>1, <2>2
<1>2. ASSUME NEW r \in Runs, Fails(r) \/ DialFails(r) \/ Conclude(r) \/ Interrupt(r)
      PROVE  ReadSoFar(q)'
  BY <1>2, <1>b, <1>c DEF Fails, DialFails, Conclude, Interrupt, End
<1>3. ASSUME NEW r \in Runs, Prompt(r) PROVE ReadSoFar(q)'
  <2>0. CASE q # r
    BY <1>3, <1>b, <1>c, <2>0 DEF Prompt, Go
  <2> SUFFICES ASSUME q = r PROVE ReadSoFar(r)'
    BY <2>0
  <2>1. /\ read'[r] = read[r] + 1 /\ read'[r] \in 1 .. Len(input[r]) /\ dialed' = dialed
        /\ at[r] \in {"park", "constellation"} /\ r \notin dialed
    BY <1>3, <1>a, <1>c DEF Prompt
  <2>2. CASE input[r][read'[r]] # "pick"
    <3>1. PicksRead(r)' = PicksRead(r)
      BY <1>a, <1>c, <2>1, <2>2 DEF PicksRead, Picks
    <3>2. at'[r] = at[r]
      BY <1>3, <1>c, <2>2 DEF Prompt, Go
    <3> QED BY <1>a, <2>1, <3>1, <3>2 DEF ReadSoFar
  <2>3. CASE input[r][read'[r]] = "pick"
    <3>1. PicksRead(r)' = PicksRead(r) \cup {read'[r]} /\ read'[r] \in Picks(input[r])
      BY <1>a, <1>c, <2>1, <2>3 DEF PicksRead, Picks
    <3>2. CASE at[r] = "park"
      <4>1. at'[r] = "constellation"
        BY <1>3, <1>c, <2>3, <3>2 DEF Prompt, Go
      <4>2. PicksRead(r)' = {read'[r]} /\ read'[r] \in Nat
        BY <1>a, <2>1, <3>1, <3>2 DEF ReadSoFar
      <4> QED BY <2>1, <4>1, <4>2 DEF ReadSoFar
    <3>3. CASE at[r] = "constellation"
      <4>1. at'[r] = "transit"
        BY <1>3, <1>c, <2>3, <3>3 DEF Prompt, Go
      <4>2. PICK i \in Nat : PicksRead(r) = {i}
        BY <1>a, <3>3 DEF ReadSoFar
      <4>3. i \in Picks(input[r]) /\ i < read'[r]
        <5>1. i \in PicksRead(r)
          BY <4>2
        <5> QED BY <1>c, <2>1, <5>1 DEF PicksRead
      <4>4. {k \in Picks(input[r]) : k <= read'[r]} = {i, read'[r]}
        BY <1>a, <3>1, <4>2 DEF PicksRead
      <4>5. Second(input[r], read'[r])
        BY <3>1, <4>3, <4>4 DEF Second
      <4> QED BY <1>a, <2>1, <4>1, <4>5 DEF ReadSoFar
    <3> QED BY <2>1, <3>2, <3>3
  <2> QED BY <2>2, <2>3
<1>4. ASSUME NEW r \in Runs, ReadCard(r) PROVE ReadSoFar(q)'
  <2>0. CASE q # r
    BY <1>4, <1>b, <1>c, <2>0 DEF ReadCard, Go
  <2>1. CASE q = r
    <3>1. at'[r] = "dialing" /\ read'[r] \in {read[r] + 3, Len(input[r])} /\ Second(input[r], read[r])
      BY <1>4, <1>a, <1>c, <2>1 DEF ReadCard, Go, ReadSoFar
    <3>2. CardRead(r)'
      BY <1>a, <1>c, <2>1, <3>1 DEF CardRead
    <3> QED BY <2>1, <3>1, <3>2 DEF ReadSoFar
  <2> QED BY <2>0, <2>1
<1>5. ASSUME NEW r \in Runs, Dial(r) PROVE ReadSoFar(q)'
  <2>0. CASE q # r
    BY <1>5, <1>b, <1>c, <2>0 DEF Dial, Go
  <2>1. CASE q = r
    BY <1>5, <1>a, <1>c, <2>1 DEF Dial, Go, ReadSoFar, CardRead
  <2> QED BY <2>0, <2>1
<1>6. CASE UNCHANGED runVars
  BY <1>6, <1>b DEF runVars
<1> QED BY <1>1, <1>2, <1>3, <1>4, <1>5, <1>6
        DEF Next, RunStep, Told, Charge, LoseReceipts, vars, runVars

CardNumbers == {"approved number", "declined number"}

\* There is one second number, so that the card's inp are those behind it.
LEMMA SecondIsSecond ==
  ASSUME NEW inp, inp \in Seq(Lines), NEW j \in Nat, Second(inp, j),
         CardLine(inp, 1) \in CardNumbers
  PROVE  CardLine(inp, 1) = inp[j + 1] /\ j + 1 \in 1 .. Len(inp)
<1> DEFINE UpTo(k) == {i \in Picks(inp) : i <= k}
<1>1. Len(inp) \in Nat /\ DOMAIN inp = 1 .. Len(inp) /\ Picks(inp) \subseteq 1 .. Len(inp)
  BY DEF Picks
<1>2. \A k : IsFiniteSet(UpTo(k))
  <2>1. IsFiniteSet(1 .. Len(inp))
    BY <1>1, FS_Interval
  <2> QED BY <1>1, <2>1, FS_Subset
<1>3. Cardinality(UpTo(j)) = 2
  <2>1. PICK i \in Picks(inp) : i < j /\ UpTo(j) = {i, j}
    BY DEF Second
  <2>2. IsFiniteSet({i}) /\ Cardinality({i}) = 1
    BY FS_Singleton
  <2>3. {i, j} = {i} \cup {j} /\ j \notin {i}
    BY <1>1, <2>1
  <2>4. Cardinality({i} \cup {j}) = Cardinality({i}) + 1
    BY <2>2, <2>3, FS_AddElement, Zenon
  <2>5. Cardinality({i} \cup {j}) = 1 + 1
    BY <2>2, <2>4, Zenon
  <2>6. UpTo(j) = {i} \cup {j}
    BY <2>1, <2>3, Zenon
  <2>7. Cardinality(UpTo(j)) = 1 + 1
    BY <2>5, <2>6, Zenon
  <2> QED BY <2>7
<1>4. ASSUME NEW k \in Picks(inp), Cardinality(UpTo(k)) = 2 PROVE k = j
  <2>0. j \in Picks(inp)
    BY DEF Second
  <2>1. UpTo(k) \subseteq UpTo(j) \/ UpTo(j) \subseteq UpTo(k)
    BY <1>1
  <2>2. UpTo(k) = UpTo(j)
    BY <1>2, <1>3, <1>4, <2>1, FS_Subset
  <2>3. k \in UpTo(j) /\ j \in UpTo(k)
    BY <1>1, <2>0, <2>2
  <2> QED BY <1>1, <2>3
<1>5. j = CHOOSE i \in Picks(inp) : Cardinality({k \in Picks(inp) : k <= i}) = 2
  <2>1. j \in Picks(inp)
    BY DEF Second
  <2> QED BY <1>3, <1>4, <2>1
<1>6. /\ CardLine(inp, 1) = inp[(CHOOSE i \in Picks(inp) : Cardinality({k \in Picks(inp) : k <= i}) = 2) + 1]
      /\ (CHOOSE i \in Picks(inp) : Cardinality({k \in Picks(inp) : k <= i}) = 2) + 1 \in DOMAIN inp
  <2>1. "" \notin CardNumbers
    BY DEF CardNumbers
  <2> QED BY <2>1, Zenon DEF CardLine
<1> QED BY <1>1, <1>5, <1>6

\* Nobody is charged for a plan that was not shown, nor on a card number that
\* was not typed.
THEOREM PlanBeforePayment == Spec => []ChargedForThePlan
<1> DEFINE More == ShownBefore /\ MenusFirst
<1>1. Init => More
  <2> SUFFICES ASSUME Init PROVE More
    OBVIOUS
  <2>1. TypeOK
    BY Starts DEF IInv
  <2>2. \A r \in Runs : PicksRead(r) = {}
    BY <2>1, InputsTyped DEF PicksRead, Picks, Init
  <2> QED BY <2>2 DEF Init, ShownBefore, MenusFirst, ReadSoFar
<1>2. IInv /\ IInv' /\ More /\ [Next]_vars => More'
  BY ShownKept, MenusKept DEF IInv
<1>3. ASSUME IInv, More PROVE ChargedForThePlan
  <2> SUFFICES ASSUME NEW r \in ledger
               PROVE  /\ r \in shown
                      /\ \E i \in 1 .. read[r] : input[r][i] \in {"approved number", "declined number"}
    BY DEF ChargedForThePlan
  <2>1. r \in Runs /\ r \in dialed /\ card[r] # "unknown"
    BY <1>3 DEF IInv, TypeOK, NeverAfter
  <2>2. PICK j \in Nat : Second(input[r], j) /\ read[r] \in {j + 3, Len(input[r])}
    BY <1>3, <2>1 DEF MenusFirst, ReadSoFar, CardRead
  <2>3. card[r] = Presented(input[r])
    <3>1. input[r] \in UNION {Inputs[s] : s \in Runs}
      BY <1>3, <2>1 DEF IInv, TypeOK
    <3> QED BY <2>1, <3>1 DEF card, Cards
  <2>4. CardLine(input[r], 1) \in CardNumbers
    BY <2>1, <2>3 DEF Presented, CardNumbers
  <2>5. input[r] \in Seq(Lines) /\ Len(input[r]) \in Nat
    BY <1>3, <2>1, InputsTyped DEF IInv
  <2>6. CardLine(input[r], 1) = input[r][j + 1] /\ j + 1 \in 1 .. Len(input[r])
    BY <2>2, <2>4, <2>5, SecondIsSecond
  <2>7. j + 1 \in 1 .. read[r]
    BY <2>2, <2>5, <2>6
  <2>8. r \in shown
    BY <1>3, <2>1 DEF ShownBefore
  <2> QED BY <2>4, <2>6, <2>7, <2>8 DEF CardNumbers
<1> QED BY <1>1, <1>2, <1>3, AlwaysIInv, PTL DEF Spec

(***************************************************************************)
(* Every verdict is backed by a charge: each charge makes out one receipt,  *)
(* and each run that is told a verdict uses up a receipt with that verdict. *)
(***************************************************************************)
Verdicts == {"Approved", "Declined"}

Verdict(d) == IF card[d] = "approve" THEN "Approved" ELSE "Declined"

Shown(v) == {r \in Runs : outcome[r] = v}
ReceiptsFor(v) == {d \in receipts : Verdict(d) = v}
ChargesFor(v) == {d \in ledger : Verdict(d) = v}

Backed(v) ==
    /\ IsFiniteSet(ledger) /\ IsFiniteSet(Shown(v))
    /\ Cardinality(Shown(v)) + Cardinality(ReceiptsFor(v)) <= Cardinality(ChargesFor(v))

SaysWhatItWasTold == \A r \in Runs : said[r] \in Verdicts => outcome[r] = said[r]

\* Of what is finite, the parts are, and have a size.
LEMMA Sizes ==
  ASSUME TypeOK, NEW v \in Verdicts, Backed(v)
  PROVE  /\ IsFiniteSet(ReceiptsFor(v)) /\ IsFiniteSet(ChargesFor(v)) /\ IsFiniteSet(Shown(v))
         /\ Cardinality(ReceiptsFor(v)) \in Nat /\ Cardinality(ChargesFor(v)) \in Nat
         /\ Cardinality(Shown(v)) \in Nat
<1>1. ReceiptsFor(v) \in SUBSET ledger /\ ChargesFor(v) \in SUBSET ledger
  BY DEF TypeOK, ReceiptsFor, ChargesFor
<1>2. IsFiniteSet(ReceiptsFor(v)) /\ IsFiniteSet(ChargesFor(v)) /\ IsFiniteSet(Shown(v))
  BY <1>1, FS_Subset DEF Backed
<1> QED BY <1>2, FS_CardinalityType

\* Losing receipts, and telling a run something else, leaves less to be backed.
LEMMA LessToBack ==
  ASSUME TypeOK, NEW v \in Verdicts, Backed(v),
         UNCHANGED <<input, ledger>>, receipts' \subseteq receipts, Shown(v)' = Shown(v)
  PROVE  Backed(v)'
<1>1. ReceiptsFor(v)' \in SUBSET ReceiptsFor(v) /\ ChargesFor(v)' = ChargesFor(v)
  BY CardsStay DEF ReceiptsFor, ChargesFor, Verdict
<1>2. Cardinality(ReceiptsFor(v)') <= Cardinality(ReceiptsFor(v)) /\ Cardinality(ReceiptsFor(v)') \in Nat
  BY <1>1, Sizes, FS_Subset, FS_CardinalityType
<1>3. Cardinality(Shown(v)) + Cardinality(ReceiptsFor(v)') <= Cardinality(ChargesFor(v))
  <2>1. Cardinality(Shown(v)) + Cardinality(ReceiptsFor(v)) <= Cardinality(ChargesFor(v))
    BY DEF Backed
  <2> QED BY <1>2, <2>1, Sizes
<1> QED BY <1>1, <1>3 DEF Backed

LEMMA ChargeBacked ==
  ASSUME TypeOK, NEW v \in Verdicts, Backed(v), UNCHANGED runVars, NEW r \in Runs, Desk!Charge(r)
  PROVE  Backed(v)'
<1>1. /\ r \notin ledger /\ r \notin receipts /\ UNCHANGED card
      /\ ledger' = ledger \cup {r} /\ receipts' = receipts \cup {r} /\ outcome' = outcome
  BY CardsStay DEF Desk!Charge, TypeOK, runVars
<1>2. IsFiniteSet(ledger') /\ Shown(v)' = Shown(v)
  BY <1>1, FS_AddElement DEF Backed, Shown
<1>3. CASE Verdict(r) = v
  <2>1. /\ ReceiptsFor(v)' = ReceiptsFor(v) \cup {r} /\ r \notin ReceiptsFor(v)
        /\ ChargesFor(v)' = ChargesFor(v) \cup {r} /\ r \notin ChargesFor(v)
    BY <1>1, <1>3 DEF ReceiptsFor, ChargesFor, Verdict
  <2>2. /\ Cardinality(ReceiptsFor(v)') = Cardinality(ReceiptsFor(v)) + 1
        /\ Cardinality(ChargesFor(v)') = Cardinality(ChargesFor(v)) + 1
    BY <2>1, Sizes, FS_AddElement, Zenon
  <2>3. Cardinality(Shown(v)) + Cardinality(ReceiptsFor(v)) <= Cardinality(ChargesFor(v))
    BY DEF Backed
  <2>4. Cardinality(Shown(v)') + Cardinality(ReceiptsFor(v)') <= Cardinality(ChargesFor(v)')
    BY <1>2, <2>2, <2>3, Sizes
  <2> QED BY <1>2, <2>4 DEF Backed
<1>4. CASE Verdict(r) # v
  <2>1. ReceiptsFor(v)' = ReceiptsFor(v) /\ ChargesFor(v)' = ChargesFor(v)
    BY <1>1, <1>4 DEF ReceiptsFor, ChargesFor, Verdict
  <2> QED BY <1>2, <2>1 DEF Backed
<1> QED BY <1>3, <1>4

\* A receipt with a verdict is used up by the run that is shown it.
LEMMA ShowBacked ==
  ASSUME TypeOK, NEW v \in Verdicts, Backed(v), UNCHANGED runVars,
         NEW r \in Runs, NEW d \in Runs, Desk!ShowReceipt(r, d)
  PROVE  Backed(v)'
<1>1. /\ outcome[r] = "none" /\ d \in receipts /\ UNCHANGED card /\ ledger' = ledger
      /\ receipts' \subseteq receipts \ {d}
      /\ outcome' = [outcome EXCEPT ![r] = Verdict(d)]
  BY CardsStay DEF Desk!ShowReceipt, Desk!Tell, runVars, Verdict
<1>0. v # "none"
  BY DEF Verdicts
<1>2. CASE Verdict(d) = v
  <2>1. Shown(v)' = Shown(v) \cup {r} /\ r \notin Shown(v)
    BY <1>0, <1>1, <1>2 DEF Shown, TypeOK
  <2>2. /\ ReceiptsFor(v)' \in SUBSET (ReceiptsFor(v) \ {d}) /\ d \in ReceiptsFor(v)
        /\ ChargesFor(v)' = ChargesFor(v)
    BY <1>1, <1>2 DEF ReceiptsFor, ChargesFor, Verdict
  <2>3. IsFiniteSet(Shown(v)') /\ Cardinality(Shown(v)') = Cardinality(Shown(v)) + 1
    <3>1. IsFiniteSet(Shown(v))
      BY Sizes
    <3>2. /\ IsFiniteSet(Shown(v) \cup {r})
          /\ Cardinality(Shown(v) \cup {r}) = Cardinality(Shown(v)) + 1
      BY <2>1, <3>1, FS_AddElement, Zenon
    <3> QED BY <2>1, <3>2, Zenon
  <2>4. IsFiniteSet(ReceiptsFor(v) \ {d}) /\ Cardinality(ReceiptsFor(v) \ {d}) = Cardinality(ReceiptsFor(v)) - 1
    BY <2>2, Sizes, FS_RemoveElement, Zenon
  <2>5. IsFiniteSet(ReceiptsFor(v)') /\ Cardinality(ReceiptsFor(v)') <= Cardinality(ReceiptsFor(v) \ {d})
    BY <2>2, <2>4, FS_Subset, Zenon
  <2>6. Cardinality(ReceiptsFor(v)') <= Cardinality(ReceiptsFor(v)) - 1
    BY <2>4, <2>5, Zenon
  <2>7. Cardinality(ReceiptsFor(v)') \in Nat
    BY <2>5, FS_CardinalityType
  <2>8. Cardinality(Shown(v)) + Cardinality(ReceiptsFor(v)) <= Cardinality(ChargesFor(v))
    BY DEF Backed
  <2>9. Cardinality(Shown(v)') + Cardinality(ReceiptsFor(v)') <= Cardinality(ChargesFor(v))
    BY <2>3, <2>6, <2>7, <2>8, Sizes
  <2> QED BY <1>1, <2>2, <2>3, <2>9 DEF Backed
<1>3. CASE Verdict(d) # v
  <2>1. Shown(v)' = Shown(v)
    BY <1>0, <1>1, <1>3 DEF Shown, TypeOK
  <2> QED BY <1>1, <2>1, LessToBack DEF runVars
<1> QED BY <1>2, <1>3

\* A run that says it was told a verdict was told it.
LEMMA SaidIsTold ==
  ASSUME TypeOK, SaysWhatItWasTold, [Next]_vars
  PROVE  SaysWhatItWasTold'
<1> USE DEF UnchangedDesk, SaysWhatItWasTold
<1>1. ASSUME NEW r \in Runs, Conclude(r) PROVE SaysWhatItWasTold'
  BY <1>1 DEF Conclude, End, Message, TypeOK
<1>2. ASSUME NEW r \in Runs, Fails(r) \/ DialFails(r) \/ Interrupt(r) PROVE SaysWhatItWasTold'
  BY <1>2 DEF Fails, DialFails, Interrupt, End, TypeOK, Verdicts, Unreached, Crashed, Interrupted, BrokenOff
<1>3. ASSUME NEW r \in Runs, Told(r) PROVE SaysWhatItWasTold'
  BY <1>3 DEF Told, TypeOK, Verdicts, runVars, Desk!ShowReceipt, Desk!TurnAway, Desk!Reject, Desk!Tell
<1>4. CASE UNCHANGED <<said, outcome>>
  BY <1>4
<1> QED BY <1>1, <1>2, <1>3, <1>4
        DEF Next, RunStep, Start, Answered, Prompt, ReadCard, Dial, Go, Charge, LoseReceipts,
            Desk!Charge, Desk!LoseReceipts, runVars, vars

LEMMA StaysBacked ==
  ASSUME TypeOK, NEW v \in Verdicts, Backed(v), [Next]_vars
  PROVE  Backed(v)'
<1> USE DEF UnchangedDesk
<1>1. CASE UNCHANGED <<input, ledger, receipts, outcome>>
  <2>1. Shown(v)' = Shown(v)
    BY <1>1 DEF Shown
  <2> QED BY <1>1, <2>1, LessToBack
<1>2. ASSUME NEW r \in Runs, Told(r) PROVE Backed(v)'
  <2>1. UNCHANGED runVars
    BY <1>2 DEF Told
  <2>2. ASSUME NEW d \in Runs, Desk!ShowReceipt(r, d) PROVE Backed(v)'
    BY <2>1, <2>2, ShowBacked
  <2>3. CASE Desk!Reject(r) \/ \E o \in {"NoCarrier", "Error"} : Desk!TurnAway(r, o)
    <3>1. receipts' \subseteq receipts /\ ledger' = ledger /\ Shown(v)' = Shown(v)
      BY <2>3 DEF Desk!TurnAway, Desk!Reject, Desk!Tell, Shown, Verdicts, TypeOK
    <3> QED BY <2>1, <3>1, LessToBack DEF runVars
  <2> QED BY <1>2, <2>2, <2>3 DEF Told
<1>3. ASSUME NEW r \in Runs, Charge(r) PROVE Backed(v)'
  BY <1>3, ChargeBacked DEF Charge
<1>4. CASE LoseReceipts
  <2>1. UNCHANGED <<input, outcome, ledger>> /\ receipts' \subseteq receipts
    BY <1>4 DEF LoseReceipts, Desk!LoseReceipts, runVars
  <2>2. Shown(v)' = Shown(v)
    BY <2>1 DEF Shown
  <2> QED BY <2>1, <2>2, LessToBack
<1> QED BY <1>1, <1>2, <1>3, <1>4
        DEF Next, RunStep, Start, Answered, Fails, Prompt, ReadCard, Dial, DialFails,
            Conclude, Interrupt, vars

AllBacked == \A v \in Verdicts : Backed(v)

LEMMA AlwaysBacked == Spec => [](AllBacked /\ SaysWhatItWasTold)
<1>1. Init => AllBacked /\ SaysWhatItWasTold
  <2> SUFFICES ASSUME Init PROVE AllBacked /\ SaysWhatItWasTold
    OBVIOUS
  <2>1. ASSUME NEW v \in Verdicts PROVE Backed(v)
    <3>1. ledger = {} /\ Shown(v) = {} /\ ReceiptsFor(v) = {} /\ ChargesFor(v) = {}
      BY DEF Init, Desk!Init, Shown, ReceiptsFor, ChargesFor, Verdicts
    <3> QED BY <3>1, FS_EmptySet DEF Backed
  <2> QED BY <2>1 DEF Init, AllBacked, SaysWhatItWasTold, Verdicts
<1>2. IInv /\ AllBacked /\ SaysWhatItWasTold /\ [Next]_vars => (AllBacked /\ SaysWhatItWasTold)'
  <2> SUFFICES ASSUME IInv, AllBacked, SaysWhatItWasTold, [Next]_vars
               PROVE  AllBacked' /\ SaysWhatItWasTold'
    OBVIOUS
  <2>1. TypeOK
    BY DEF IInv
  <2>2. ASSUME NEW v \in Verdicts PROVE Backed(v)'
    BY <2>1, StaysBacked DEF AllBacked
  <2> QED BY <2>1, <2>2, SaidIsTold DEF AllBacked
<1> QED BY <1>1, <1>2, AlwaysIInv, PTL DEF Spec

\* No more runs say a verdict than cards were given it.
LEMMA SaidBacked ==
  ASSUME TypeOK, AllBacked, SaysWhatItWasTold, NEW v \in Verdicts,
         NEW S, S \subseteq {r \in Runs : said[r] = v}
  PROVE  Cardinality(S) <= Cardinality(ChargesFor(v))
<1>1. Backed(v)
  BY DEF AllBacked
<1>2. S \in SUBSET Shown(v)
  BY DEF Shown, SaysWhatItWasTold
<1>3. Cardinality(S) <= Cardinality(Shown(v)) /\ Cardinality(S) \in Nat
  BY <1>1, <1>2, Sizes, FS_Subset, FS_CardinalityType
<1>4. Cardinality(Shown(v)) + Cardinality(ReceiptsFor(v)) <= Cardinality(ChargesFor(v))
  BY <1>1 DEF Backed
<1> QED BY <1>1, <1>3, <1>4, Sizes

\* There are never more successful runs than charges on a good card.
THEOREM PaidForSuccess == Spec => []SuccessIsPaid
<1>1. ASSUME IInv, AllBacked, SaysWhatItWasTold PROVE SuccessIsPaid
  <2> DEFINE Won == {r \in Runs : at[r] = "ended" /\ ExitCode(said[r]) = 0}
  <2>1. Won \subseteq {r \in Runs : said[r] = "Approved"}
    BY DEF ExitCode
  <2>2. TypeOK /\ "Approved" \in Verdicts
    BY <1>1 DEF IInv, Verdicts
  <2>3. ChargesFor("Approved") = {r \in ledger : card[r] = "approve"}
    BY DEF ChargesFor, Verdict
  <2> HIDE DEF Won
  <2>4. Cardinality(Won) <= Cardinality(ChargesFor("Approved"))
    BY <1>1, <2>1, <2>2, SaidBacked, Zenon
  <2> QED BY <2>3, <2>4, Zenon DEF Won, SuccessIsPaid
<1> QED BY <1>1, AlwaysIInv, AlwaysBacked, PTL

\* A customer who tries again whenever a run said that nothing was paid pays
\* twice only after a run of theirs was shown the decline of another's card,
\* and no more runs are told of a decline than cards were declined.
THEOREM PaysTwiceOnlyMisled == Spec => []TwiceOnlyIfMisled
<1>1. ASSUME IInv, NEW r \in Paid, NEW s \in Paid, s < r, Owner[s] = Owner[r]
      PROVE  s \in Misled
  <2>1. r \in Runs /\ s \in Runs /\ r \in dialed /\ s \in dialed /\ s \in ledger /\ card[s] = "approve"
    BY <1>1 DEF IInv, TypeOK, Paid
  <2>2. at[r] # "idle"
    BY <1>1, <2>1 DEF IInv, DialedAt
  <2>3. said[s] \in NothingPaid /\ outcome[s] = said[s]
    BY <1>1, <2>1, <2>2 DEF IInv, InOrder, SaysTrue
  <2>4. outcome[s] \notin NeverCharged
    BY <1>1, <2>1 DEF IInv, NeverAfter, NeverCharged
  <2>5. outcome[s] \in Outcomes \cup {"none"}
    BY <1>1, <2>1 DEF IInv, TypeOK, Outcomes
  <2>6. said[s] = "Declined"
    BY <2>3, <2>4, <2>5, Promises
  <2> QED BY <1>1, <2>6 DEF Misled
<1>2. ASSUME IInv, AllBacked, SaysWhatItWasTold PROVE TwiceOnlyIfMisled
  <2> DEFINE Refused == {r \in Runs : said[r] = "Declined"}
  <2>1. TypeOK /\ "Declined" \in Verdicts /\ Refused \subseteq {r \in Runs : said[r] = "Declined"}
    BY <1>2 DEF IInv, Verdicts
  <2>2. ChargesFor("Declined") = ledger \ Paid
    BY DEF ChargesFor, Verdict, Paid
  <2> HIDE DEF Refused
  <2>3. Cardinality(Refused) <= Cardinality(ChargesFor("Declined"))
    BY <1>2, <2>1, SaidBacked, Zenon
  <2>4. Cardinality(Refused) <= Cardinality(ledger \ Paid)
    BY <2>2, <2>3, Zenon
  <2>5. \A r, s \in Paid : s < r /\ Owner[s] = Owner[r] => s \in Misled
    BY <1>1, <1>2
  <2> QED BY <2>4, <2>5, Zenon DEF Refused, TwiceOnlyIfMisled
<1> QED BY <1>2, AlwaysIInv, AlwaysBacked, PTL
=============================================================================
