---------------------------- MODULE AtLeastOnce ----------------------------
(***************************************************************************)
(* What the delivery of telemetry promises, without spool, posts, answers  *)
(* and transactions: a channel that keeps hold of a batch until it is      *)
(* delivered, gives it up only in a crash of the sender, and delivers no   *)
(* batch before its listeners have heard of it.                            *)
(***************************************************************************)
CONSTANT Batches

VARIABLES
    sent,       \* batches accepted by the channel
    held,       \* those the sender still has
    heard,      \* those the listeners have heard of
    delivered,  \* those that arrived
    lost        \* those a crash of the sender took from it

channel == <<sent, held, heard, delivered, lost>>

Init == sent = {} /\ held = {} /\ heard = {} /\ delivered = {} /\ lost = {}

Send(b) ==
    /\ b \notin sent
    /\ sent' = sent \cup {b}
    /\ held' = held \cup {b}
    /\ UNCHANGED <<heard, delivered, lost>>

Hear(b) ==
    /\ b \in sent
    /\ heard' = heard \cup {b}
    /\ UNCHANGED <<sent, held, delivered, lost>>

\* Also a batch that was lost meanwhile may still arrive.
Deliver(b) ==
    /\ b \in heard
    /\ delivered' = delivered \cup {b}
    /\ UNCHANGED <<sent, held, heard, lost>>

\* The sender lets go of nothing but what arrived.
LetGo(some) ==
    /\ some \subseteq held \cap delivered
    /\ held' = held \ some
    /\ UNCHANGED <<sent, heard, delivered, lost>>

\* A crash takes at most one batch from the sender.
Crash(b) ==
    /\ b \in held
    /\ held' \in {held, held \ {b}}
    /\ lost' = lost \cup {b}
    /\ UNCHANGED <<sent, heard, delivered>>

Next ==
    \/ \E b \in Batches : Send(b) \/ Hear(b) \/ Deliver(b) \/ Crash(b)
    \/ \E some \in SUBSET Batches : LetGo(some)

Spec == Init /\ [][Next]_channel

=============================================================================
