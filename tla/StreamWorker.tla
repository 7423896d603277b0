---------------------------- MODULE StreamWorker ----------------------------
(***************************************************************************)
(* The telemetry worker of the control plane: it consumes the telemetry    *)
(* stream, derives alerts, incidents and topology from it in one database  *)
(* transaction per message, and acknowledges the message after the commit. *)
(*                                                                         *)
(* Two stream buses stand behind one interface.  The SQLite bus hands out  *)
(* the oldest messages the group has not acknowledged, to whoever asks.    *)
(* The Redis bus (external) hands each message out once per group; what    *)
(* was handed out and not acknowledged stays pending, and nothing in the   *)
(* code asks for pending messages again.                                   *)
(*                                                                         *)
(* Which bus and which workers are deployed is chosen in Init.             *)
(*                                                                         *)
(* One tenant is modelled: the deduplication key of the CPU incident is    *)
(* the tenant's, and one pair of services stands for the topology.         *)
(***************************************************************************)
EXTENDS Integers, FiniteSets, Sequences

CONSTANTS
    Workers,       \* worker processes
    Deployments,   \* the backends and the workers they are used by
    Count,         \* messages per consume call (20 in the code)
    MaxMessages,   \* bound: messages on the telemetry stream
    MaxFaults      \* bound: exceptions and crashes in workers

ASSUME WorkerAssumption ==
    /\ IsFiniteSet(Workers)
    /\ Deployments \subseteq [bus: {"sqlite", "redis"}, workers: SUBSET Workers]
    /\ Count \in Nat \ {0}
    /\ MaxMessages \in Nat
    /\ MaxFaults \in Nat

VARIABLES
    bus,         \* the stream backend, "sqlite" or "redis"; never changes
    stream,      \* the telemetry stream
    acked,       \* ids the group acknowledged
    delivered,   \* ids the Redis group was handed
    worker,      \* the worker processes
    alerts,      \* open rows of cp_alerts for the key
    incidents,   \* status of the rows of cp_incidents for the key
    edge,        \* whether the edge has its row in cp_dependency_edges
    opened,      \* incidents with an event on the incident stream
    audited,     \* incidents whose acknowledgement has an audit entry
    ids,         \* history: incident ids given out
    faults       \* history: exceptions and crashes so far

vars == <<bus, stream, acked, delivered, worker, alerts, incidents, edge, opened, audited, ids, faults>>

-----------------------------------------------------------------------------
\* What the events of a telemetry batch amount to: CPU at 90 or more; one that
\* changes nothing; a topology that names the edge once, or twice.
Kinds == {"hot", "quiet", "edge", "twice"}

Messages == 1 .. MaxMessages
MaxIds == MaxMessages + MaxFaults
Ids == 1 .. MaxIds
None == 0

\* todo: consumed messages not yet dealt with; message: the one in progress;
\* alert, incident, edge: what the transaction's queries found.
Worker == [pc: {"absent", "down", "idle", "next", "query", "publish", "commit", "ack"},
           todo: SUBSET Messages, message: Messages \cup {None},
           alert: BOOLEAN, incident: Ids \cup {None}, new: BOOLEAN, edge: BOOLEAN]

IdleWorker == [pc |-> "idle", todo |-> {}, message |-> None,
               alert |-> FALSE, incident |-> None, new |-> FALSE, edge |-> FALSE]

Init ==
    /\ \E d \in Deployments :
         /\ bus = d.bus
         /\ worker = [w \in Workers |-> [IdleWorker EXCEPT
                        !.pc = IF w \in d.workers THEN "idle" ELSE "absent"]]
    /\ stream = <<>>
    /\ acked = {}
    /\ delivered = {}
    /\ alerts = 0
    /\ incidents = [i \in Ids |-> "none"]
    /\ edge = FALSE
    /\ opened = {}
    /\ audited = {}
    /\ ids = 0
    /\ faults = 0

tables == <<alerts, incidents, edge>>

-----------------------------------------------------------------------------
(* The bus. *)

\* The n oldest of a set of messages.
FirstOf(S, n) == {m \in S : Cardinality({k \in S : k < m}) < n}

\* MUTANT: pending messages are handed out again.
AvailablePending == {m \in 1 .. Len(stream) : m \notin acked}

\* The SQLite bus keeps acknowledgements only.
Unacknowledged == {m \in 1 .. Len(stream) : m \notin acked}

\* A group of the Redis bus is created at the beginning of the stream, and is
\* asked for new messages only.
NeverHandedOut == {m \in 1 .. Len(stream) : m \notin delivered}

\* Messages a consume call would choose from.
Available == IF bus = "sqlite" THEN Unacknowledged ELSE NeverHandedOut

\* The control plane publishes an event of a batch.
Produce(kind) ==
    /\ Len(stream) < MaxMessages
    /\ stream' = Append(stream, kind)
    /\ UNCHANGED <<bus, acked, delivered, worker, tables, opened, audited, ids, faults>>

Consume(w) ==
    /\ worker[w].pc = "idle"
    /\ Available # {}
    /\ LET got == FirstOf(Available, Count) IN
       /\ delivered' = delivered \cup (IF bus = "redis" THEN got ELSE {})
       /\ worker' = [worker EXCEPT ![w].pc = "next", ![w].todo = got]
    /\ UNCHANGED <<bus, stream, acked, tables, opened, audited, ids, faults>>

-----------------------------------------------------------------------------
(* One message, one transaction. *)

\* The worker after message m: the rest of what it consumed, or another call.
NextMessage(w) ==
    [IdleWorker EXCEPT !.pc = IF worker[w].todo = {} THEN "idle" ELSE "next",
                       !.todo = worker[w].todo]

Active == {i \in Ids : incidents[i] \in {"open", "acknowledged"}}

\* The oldest consumed message is taken up.  A hot one first looks for an open
\* alert, a topology for its edge (autoflush is off: a second look in the same
\* transaction would not see an edge just added).
Take(w) ==
    LET m == CHOOSE k \in worker[w].todo : \A l \in worker[w].todo : k <= l
        kind == stream[m]
    IN
    /\ worker[w].pc = "next"
    /\ worker' = [worker EXCEPT ![w] =
         [worker[w] EXCEPT !.todo = @ \ {m}, !.message = m,
                           !.alert = alerts > 0, !.edge = edge,
                           !.pc = CASE kind = "hot" -> "query"
                                    [] kind = "quiet" -> "commit"
                                    [] OTHER -> "publish"]]
    /\ UNCHANGED <<bus, stream, acked, delivered, tables, opened, audited, ids, faults>>

\* MUTANTS: an acknowledged incident does not count; an id is given out twice.
QueryIncidentOpen(w) ==
    LET open == {i \in Ids : incidents[i] = "open"} IN
    /\ worker[w].pc = "query"
    /\ \/ /\ open # {}
          /\ \E i \in open :
               worker' = [worker EXCEPT ![w].pc = "publish", ![w].incident = i]
          /\ UNCHANGED ids
       \/ /\ open = {}
          /\ ids < MaxIds
          /\ ids' = ids + 1
          /\ worker' = [worker EXCEPT ![w].pc = "publish", ![w].incident = ids + 1,
                                      ![w].new = TRUE]
    /\ UNCHANGED <<bus, stream, acked, delivered, tables, opened, audited, faults>>

QueryIncidentSameId(w) ==
    /\ worker[w].pc = "query"
    /\ worker' = [worker EXCEPT ![w].pc = "publish", ![w].incident = ids + 1, ![w].new = TRUE]
    /\ UNCHANGED <<bus, stream, acked, delivered, tables, opened, audited, ids, faults>>

\* Then for an open or acknowledged incident; if there is none, a new one gets
\* its id when it is flushed.
QueryIncident(w) ==
    /\ worker[w].pc = "query"
    /\ \/ /\ Active # {}
          /\ \E i \in Active :
               worker' = [worker EXCEPT ![w].pc = "publish", ![w].incident = i]
          /\ UNCHANGED ids
       \/ /\ Active = {}
          /\ ids < MaxIds
          /\ ids' = ids + 1
          /\ worker' = [worker EXCEPT ![w].pc = "publish", ![w].incident = ids + 1,
                                      ![w].new = TRUE]
    /\ UNCHANGED <<bus, stream, acked, delivered, tables, opened, audited, faults>>

\* MUTANT: a new incident is not announced.
PublishKnown(w) ==
    /\ worker[w].pc = "publish"
    /\ opened' = IF worker[w].new THEN opened ELSE opened \cup ({worker[w].incident} \ {None})
    /\ worker' = [worker EXCEPT ![w].pc = "commit"]
    /\ UNCHANGED <<bus, stream, acked, delivered, tables, audited, ids, faults>>

\* incident.opened (or topology.updated, which nothing but a log reads) is
\* published before the commit, and also for an incident that was there.
Publish(w) ==
    /\ worker[w].pc = "publish"
    /\ opened' = opened \cup ({worker[w].incident} \ {None})
    /\ worker' = [worker EXCEPT ![w].pc = "commit"]
    /\ UNCHANGED <<bus, stream, acked, delivered, tables, audited, ids, faults>>

\* Whether the INSERTs of worker w violate uq_cp_dependency_edge.
EdgeConflict(w) ==
    LET kind == stream[worker[w].message] IN
    /\ kind \in {"edge", "twice"}
    /\ ~worker[w].edge
    /\ edge \/ kind = "twice"

Commit(w) ==
    LET p == worker[w] IN
    /\ p.pc = "commit"
    /\ ~EdgeConflict(w)
    /\ alerts' = IF stream[p.message] = "hot" /\ ~p.alert THEN alerts + 1 ELSE alerts
    /\ incidents' = IF p.new THEN [incidents EXCEPT ![p.incident] = "open"] ELSE incidents
    /\ edge' = (edge \/ stream[p.message] \in {"edge", "twice"})
    /\ worker' = [worker EXCEPT ![w].pc = "ack"]
    /\ UNCHANGED <<bus, stream, acked, delivered, opened, audited, ids, faults>>

\* MUTANT: the message is tried again at once.
CommitConflictsRetry(w) ==
    /\ worker[w].pc = "commit"
    /\ EdgeConflict(w)
    /\ worker' = [worker EXCEPT ![w] = [IdleWorker EXCEPT !.pc = "next",
                       !.todo = worker[w].todo \cup {worker[w].message}]]
    /\ UNCHANGED <<bus, stream, acked, delivered, tables, opened, audited, ids, faults>>

\* An integrity error: the transaction is rolled back, the message is logged
\* and left unacknowledged, the next one is taken up.
CommitConflicts(w) ==
    /\ worker[w].pc = "commit"
    /\ EdgeConflict(w)
    /\ worker' = [worker EXCEPT ![w] = NextMessage(w)]
    /\ UNCHANGED <<bus, stream, acked, delivered, tables, opened, audited, ids, faults>>

Ack(w) ==
    /\ worker[w].pc = "ack"
    /\ acked' = acked \cup {worker[w].message}
    /\ worker' = [worker EXCEPT ![w] = NextMessage(w)]
    /\ UNCHANGED <<bus, stream, delivered, tables, opened, audited, ids, faults>>

\* MUTANT: the message is acknowledged whatever was raised.
FailsAcks(w) ==
    /\ worker[w].pc \in {"query", "publish", "commit", "ack"}
    /\ faults < MaxFaults
    /\ faults' = faults + 1
    /\ acked' = acked \cup {worker[w].message}
    /\ worker' = [worker EXCEPT ![w] = NextMessage(w)]
    /\ UNCHANGED <<bus, stream, delivered, tables, opened, audited, ids>>

\* Any other exception between two statements has the same handler (a locked
\* database, a bus that cannot be reached).
Fails(w) ==
    /\ worker[w].pc \in {"query", "publish", "commit", "ack"}
    /\ faults < MaxFaults
    /\ faults' = faults + 1
    /\ worker' = [worker EXCEPT ![w] = NextMessage(w)]
    /\ UNCHANGED <<bus, stream, acked, delivered, tables, opened, audited, ids>>

Crash(w) ==
    /\ worker[w].pc \notin {"absent", "down"}
    /\ faults < MaxFaults
    /\ faults' = faults + 1
    /\ worker' = [worker EXCEPT ![w] = [IdleWorker EXCEPT !.pc = "down"]]
    /\ UNCHANGED <<bus, stream, acked, delivered, tables, opened, audited, ids>>

Restart(w) ==
    /\ worker[w].pc = "down"
    /\ worker' = [worker EXCEPT ![w] = IdleWorker]
    /\ UNCHANGED <<bus, stream, acked, delivered, tables, opened, audited, ids, faults>>

-----------------------------------------------------------------------------
\* POST /incidents/{id}/ack.  The audit entry is a commit of its own: a request
\* that fails in between leaves none.
AcknowledgeIncident(i) ==
    /\ incidents[i] = "open"
    /\ incidents' = [incidents EXCEPT ![i] = "acknowledged"]
    /\ audited' \in {audited, audited \cup {i}}
    /\ UNCHANGED <<bus, stream, acked, delivered, worker, alerts, edge, opened, ids, faults>>

-----------------------------------------------------------------------------
Run(w) ==
    \/ Consume(w) \/ Take(w) \/ QueryIncident(w) \/ Publish(w)
    \/ Commit(w) \/ CommitConflicts(w) \/ Ack(w) \/ Restart(w)

Next ==
    \/ \E kind \in Kinds : Produce(kind)
    \/ \E w \in Workers : Run(w) \/ Fails(w) \/ Crash(w)
    \/ \E i \in Ids : AcknowledgeIncident(i)

Spec == Init /\ [][Next]_vars

\* Workers run (or are restarted) for ever; nothing else has to happen.
FairSpec == Spec /\ \A w \in Workers : WF_vars(Run(w))

-----------------------------------------------------------------------------
(* Properties. *)

\* Every variable holds what its table, stream or process can hold.
TypeOK ==
    /\ bus \in {"sqlite", "redis"}
    /\ stream \in Seq(Kinds) /\ Len(stream) <= MaxMessages
    /\ acked \subseteq 1 .. Len(stream)
    /\ delivered \subseteq 1 .. Len(stream)
    /\ worker \in [Workers -> Worker]
    /\ \A w \in Workers : worker[w].todo \cup ({worker[w].message} \ {None}) \subseteq 1 .. Len(stream)
    /\ alerts \in 0 .. Cardinality(Workers)
    /\ incidents \in [Ids -> {"none", "open", "acknowledged"}]
    /\ edge \in BOOLEAN
    /\ opened \subseteq 1 .. ids
    /\ audited \subseteq Ids
    /\ ids \in 0 .. MaxIds
    /\ faults \in 0 .. MaxFaults

\* A message is acknowledged only once its effect is committed, wherever the
\* worker failed or crashed before: a hot one has its alert and an incident
\* somebody can see, a topology its edge.
AckedIsRecorded ==
    \A m \in acked :
        /\ stream[m] = "hot" => alerts > 0 /\ Active # {}
        /\ stream[m] \in {"edge", "twice"} => edge

Deployed == {w \in Workers : worker[w].pc # "absent"}

\* There are at most as many open alerts and active incidents per key as workers
\* (one, in the deployment the code names), although no constraint of the tables
\* says so, messages are processed again after a failure, and operators
\* acknowledge in between.
OneActivePerKey ==
    /\ alerts <= Cardinality(Deployed)
    /\ Cardinality(Active) <= Cardinality(Deployed)

\* Every incident was announced before it can be seen, and only a failure
\* leaves an announced incident that does not exist.
AnnouncedIncidents ==
    LET pending == {worker[w].incident : w \in {v \in Workers : worker[v].pc = "commit"}}
        phantoms == {i \in opened : incidents[i] = "none"} \ pending
    IN
    /\ Active \subseteq opened
    /\ Cardinality(phantoms) <= faults

\* A message nobody works on and the bus will not hand out again.
Abandoned(m) ==
    /\ m \in delivered /\ m \notin acked
    /\ \A w \in Workers : m # worker[w].message /\ m \notin worker[w].todo

\* What the Redis bus makes of a failed message: it is never processed again.
\* The SQLite bus abandons none.
AbandonedIsForever ==
    [][\A m \in Messages : Abandoned(m) => Abandoned(m)']_vars

\* On the SQLite bus a message among the oldest Count unacknowledged ones is
\* acknowledged in the end if it does not name an edge twice: failures of the
\* messages before it do not hold it up.  (Count messages that name an edge
\* twice hold up everything behind them.)
HeadIsAcked ==
    \A m \in Messages :
        (bus = "sqlite" /\ m \in FirstOf(Available, Count) /\ stream[m] # "twice")
            ~> (m \in acked)

=============================================================================
