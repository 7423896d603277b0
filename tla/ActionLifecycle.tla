-------------------------- MODULE ActionLifecycle --------------------------
(***************************************************************************)
(* What the control plane promises about one remediation action, without   *)
(* tables, sessions and polls: it is requested, approved, handed to        *)
(* holders, performed by one of them, and settled.  Whoever was given the  *)
(* action before may still act on it, however late; nobody else can.       *)
(* Remediation is shown to implement this for each of its actions.         *)
(***************************************************************************)
CONSTANTS
    Parties,  \* whoever may hold a view of the action: threads and agents
    Outcome   \* the status the action settles with

VARIABLES
    stage,    \* how far the action has come, which never goes back
    status,   \* "open", or the outcome
    asking,   \* approvals under way
    holders   \* parties that were handed the action and may act on it

lifecycle == <<stage, status, asking, holders>>

Init ==
    /\ stage = "unknown"
    /\ status = "open"
    /\ asking = {}
    /\ holders = {}

\* An operator asks for the action, and for its approval, at any time.
Request ==
    /\ stage = "unknown"
    /\ stage' = "requested"
    /\ UNCHANGED <<status, asking, holders>>

Ask(p) ==
    /\ stage # "unknown"
    /\ asking' = asking \cup {p}
    /\ UNCHANGED <<stage, status, holders>>

\* An approval approves the action, and may open a settled one again.
Approve(p) ==
    /\ p \in asking
    /\ asking' = asking \ {p}
    /\ stage' = IF stage = "requested" THEN "approved" ELSE stage
    /\ status' \in {status, "open"}
    /\ UNCHANGED holders

Withdraw(p) ==
    /\ asking' = asking \ {p}
    /\ UNCHANGED <<stage, status, holders>>

\* Only an approved action that is open is handed out.
HandOut(p) ==
    /\ stage \in {"approved", "performed"}
    /\ status = "open"
    /\ holders' = holders \cup {p}
    /\ UNCHANGED <<stage, status, asking>>

\* A holder passes it on; some let go of it.
Pass(p, q) ==
    /\ p \in holders
    /\ holders' \in {holders \cup {q}, (holders \ {p}) \cup {q}}
    /\ UNCHANGED <<stage, status, asking>>

LetGo ==
    /\ holders' \in SUBSET holders
    /\ UNCHANGED <<stage, status, asking>>

\* A holder performs it; a holder marks it open.
Perform(p) ==
    /\ p \in holders
    /\ stage' = "performed"
    /\ UNCHANGED <<status, asking, holders>>

Reopen(p) ==
    /\ p \in holders
    /\ status' = "open"
    /\ UNCHANGED <<stage, asking, holders>>

\* A holder settles it once it was performed, with the one outcome it can have.
Settle(p) ==
    /\ p \in holders
    /\ stage = "performed"
    /\ status' \in {status, Outcome}
    /\ holders' = holders \ {p}
    /\ UNCHANGED <<stage, asking>>

Next ==
    \/ Request \/ LetGo
    \/ \E p \in Parties :
          \/ Ask(p) \/ Approve(p) \/ Withdraw(p)
          \/ HandOut(p) \/ Perform(p) \/ Reopen(p) \/ Settle(p)
          \/ \E q \in Parties : Pass(p, q)

Spec == Init /\ [][Next]_lifecycle

=============================================================================
