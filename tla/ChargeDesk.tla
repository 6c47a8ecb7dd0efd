----------------------------- MODULE ChargeDesk -----------------------------
(***************************************************************************)
(* What the payment path promises when nothing can be said of timing: who   *)
(* was charged, which receipts exist that nobody has been shown yet, and    *)
(* what each caller was told.                                               *)
(*                                                                          *)
(* The desk charges a caller at most once and makes out one receipt for it. *)
(* A caller told Approved or Declined was shown an existing receipt, which  *)
(* is then used up; it need not be its own.  A receipt may get lost, and a  *)
(* caller may be told Error when in fact it was or will be charged.  A      *)
(* caller told NoCarrier or RejectedLocally is never charged.               *)
(***************************************************************************)
CONSTANTS Callers

VARIABLES
    card,      \* card[c]: what caller c presents
    ledger,    \* the callers charged
    receipts,  \* those whose receipt nobody was shown and that is not lost
    outcome    \* outcome[c]: what caller c was told, or "none"

deskVars == <<card, ledger, receipts, outcome>>

Init ==
    /\ card \in [Callers -> {"approve", "decline", "mismatch", "unknown"}]
    /\ ledger = {}
    /\ receipts = {}
    /\ outcome = [c \in Callers |-> "none"]

Charge(c) ==
    /\ card[c] # "unknown"
    /\ c \notin ledger
    /\ outcome[c] \notin {"NoCarrier", "RejectedLocally"}
    /\ ledger' = ledger \cup {c}
    /\ receipts' = receipts \cup {c}
    /\ UNCHANGED <<card, outcome>>

Tell(c, o) ==
    /\ outcome[c] = "none"
    /\ outcome' = [outcome EXCEPT ![c] = o]
    /\ UNCHANGED <<card, ledger>>

\* Other receipts may be lost with the one that is shown.
ShowReceipt(c, d) ==
    /\ card[c] # "unknown"
    /\ d \in receipts
    /\ Tell(c, IF card[d] = "approve" THEN "Approved" ELSE "Declined")
    /\ receipts' \in SUBSET (receipts \ {d})

TurnAway(c, o) ==
    /\ card[c] # "unknown"
    /\ o \in {"NoCarrier", "Error"}
    /\ o = "NoCarrier" => c \notin ledger
    /\ Tell(c, o)
    /\ receipts' \in SUBSET receipts

Reject(c) ==
    /\ card[c] = "unknown"
    /\ Tell(c, "RejectedLocally")
    /\ UNCHANGED receipts

LoseReceipts ==
    /\ receipts' \in SUBSET receipts
    /\ UNCHANGED <<card, ledger, outcome>>

Next ==
    \/ \E c \in Callers :
          \/ Charge(c)
          \/ \E d \in Callers : ShowReceipt(c, d)
          \/ \E o \in {"NoCarrier", "Error"} : TurnAway(c, o)
          \/ Reject(c)
    \/ LoseReceipts

Spec == Init /\ [][Next]_deskVars
=============================================================================
