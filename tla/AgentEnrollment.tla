-------------------------- MODULE AgentEnrollment --------------------------
(***************************************************************************)
(* From an empty database to agents at work.  The control plane seeds its  *)
(* demo tenant before it serves.  An agent without a state file registers  *)
(* and saves the identity and the token it was given; then it goes round:  *)
(* refresh the policies, send a heartbeat, work.  A token lasts an hour.   *)
(*                                                                         *)
(* The work of a round is the subject of TelemetryDelivery and Remediation *)
(* and one step here.  An agent process ends at any exception it does not  *)
(* catch and is started again by its surroundings, as is the server.       *)
(***************************************************************************)
EXTENDS Integers, FiniteSets, Sequences

CONSTANTS
    Agents,      \* agent processes, each with a state file of its own
    NodeUids,
    UidOf,       \* the node_uid each agent is configured with
    Requests,    \* threads of the server
    NoAgent,
    NoRequest,
    MaxFaults    \* bound: lost answers, failing handlers, crashes

ASSUME EnrollmentAssumption ==
    /\ IsFiniteSet(Agents) /\ IsFiniteSet(Requests)
    /\ UidOf \in [Agents -> NodeUids]
    /\ NoAgent \notin Agents
    /\ NoRequest \notin Requests
    /\ MaxFaults \in Nat

VARIABLES
    server,     \* where the server process is
    tenant,     \* whether the demo tenant is committed
    admin,      \* whether its administrator is
    agent,      \* the agent processes
    file,       \* the identity each state file holds
    torn,       \* agents whose state file is no JSON
    handler,    \* the handler each thread runs
    nodes,      \* node_uids with a row in cp_nodes
    owner,      \* the rows of cp_agents: for whom each was made
    healthy,    \* identities a heartbeat was recorded for
    expired,    \* identities whose token is over an hour old
    faults      \* history: faults so far

vars == <<server, tenant, admin, agent, file, torn, handler, nodes, owner, healthy,
          expired, faults>>

-----------------------------------------------------------------------------
\* An agent loses at most one registration per fault.
Ids == 1 .. Cardinality(Agents) * (MaxFaults + 1)
NoId == 0

Calls == {"enroll", "refresh", "beat"}

\* req: the thread whose answer the agent waits for; id: an identity received
\* and not yet saved.
Agent == [pc: {"down", "save", "work"} \cup Calls,
          req: Requests \cup {NoRequest}, id: Ids \cup {NoId}]

DownAgent == [pc |-> "down", req |-> NoRequest, id |-> NoId]

\* id: the identity the token names, or the one registered; seen: the node was
\* there when the handler looked.
Handler == [pc: {"idle", "start", "commit", "respond"}, call: Calls,
            agent: Agents \cup {NoAgent}, id: Ids \cup {NoId},
            seen: BOOLEAN, ok: BOOLEAN]

IdleHandler == [pc |-> "idle", call |-> "enroll", agent |-> NoAgent, id |-> NoId,
                seen |-> FALSE, ok |-> FALSE]

Init ==
    /\ server = "down"
    /\ tenant = FALSE
    /\ admin = FALSE
    /\ agent = [a \in Agents |-> DownAgent]
    /\ file = [a \in Agents |-> NoId]
    /\ torn = {}
    /\ handler = [r \in Requests |-> IdleHandler]
    /\ nodes = {}
    /\ owner = <<>>
    /\ healthy = {}
    /\ expired = {}
    /\ faults = 0

seed == <<tenant, admin>>
disk == <<file, torn>>
tables == <<nodes, owner, healthy>>

Fault == faults < MaxFaults /\ faults' = faults + 1

-----------------------------------------------------------------------------
(* The server process: the lifespan of the application seeds, then serves. *)

\* MUTANT: it is not asked whether tenant and administrator are there.
StartServerSeeds ==
    /\ server = "down"
    /\ server' = "tenant"
    /\ UNCHANGED <<seed, agent, disk, handler, tables, expired, faults>>

StartServer ==
    /\ server = "down"
    /\ server' = IF tenant /\ admin THEN "up" ELSE "tenant"
    /\ UNCHANGED <<seed, agent, disk, handler, tables, expired, faults>>

\* The slug is unique: a tenant that is there ends the start of the server.
CreateTenant ==
    /\ server = "tenant"
    /\ server' = IF tenant THEN "down" ELSE "admin"
    /\ tenant' = TRUE
    /\ UNCHANGED <<admin, agent, disk, handler, tables, expired, faults>>

\* Role, user and membership, in a second transaction.
CreateAdmin ==
    /\ server = "admin"
    /\ server' = "up"
    /\ admin' = TRUE
    /\ UNCHANGED <<tenant, agent, disk, handler, tables, expired, faults>>

\* MUTANT: agents that wait for an answer wait on.
CrashServerUnnoticed ==
    /\ server # "down"
    /\ Fault
    /\ server' = "down"
    /\ handler' = [r \in Requests |-> IdleHandler]
    /\ UNCHANGED <<agent, seed, disk, tables, expired>>

\* The connections of the server break with it, and no agent catches that.
CrashServer ==
    /\ server # "down"
    /\ Fault
    /\ server' = "down"
    /\ handler' = [r \in Requests |-> IdleHandler]
    /\ agent' = [a \in Agents |->
                   IF agent[a].req # NoRequest THEN DownAgent ELSE agent[a]]
    /\ UNCHANGED <<seed, disk, tables, expired>>

-----------------------------------------------------------------------------
(* The agent. *)

\* MUTANT: an agent registers whenever it starts.
StartEnrolls(a) ==
    /\ agent[a].pc = "down"
    /\ a \notin torn
    /\ agent' = [agent EXCEPT ![a].pc = "enroll"]
    /\ UNCHANGED <<server, seed, disk, handler, tables, expired, faults>>

\* The saved identity is used whatever its token is worth by now.  A file that
\* is no JSON raises at once: such an agent never gets past this point.
Start(a) ==
    /\ agent[a].pc = "down"
    /\ a \notin torn
    /\ agent' = [agent EXCEPT ![a].pc = IF file[a] = NoId THEN "enroll" ELSE "refresh"]
    /\ UNCHANGED <<server, seed, disk, handler, tables, expired, faults>>

\* A request to the server, with the saved token if the agent has one.
Call(a, r) ==
    /\ agent[a].pc \in Calls /\ agent[a].req = NoRequest
    /\ server = "up"
    /\ handler[r].pc = "idle"
    /\ agent' = [agent EXCEPT ![a].req = r]
    /\ handler' = [handler EXCEPT ![r] =
         [IdleHandler EXCEPT !.pc = "start", !.call = agent[a].pc, !.agent = a, !.id = file[a]]]
    /\ UNCHANGED <<server, seed, disk, tables, expired, faults>>

\* A refused connection is an exception, also where a refused request is none.
Unreachable(a) ==
    /\ agent[a].pc \in Calls /\ agent[a].req = NoRequest
    /\ server # "up"
    /\ agent' = [agent EXCEPT ![a] = DownAgent]
    /\ UNCHANGED <<server, seed, disk, handler, tables, expired, faults>>

\* Within policy_refresh_seconds of the last one there is no refresh.
SkipRefresh(a) ==
    /\ agent[a].pc = "refresh" /\ agent[a].req = NoRequest
    /\ agent' = [agent EXCEPT ![a].pc = "beat"]
    /\ UNCHANGED <<server, seed, disk, handler, tables, expired, faults>>

\* MUTANT: an agent whose heartbeat is refused registers again.
AfterEnrolling(a, ok, id) ==
    CASE agent[a].pc = "enroll" -> IF ok THEN [DownAgent EXCEPT !.pc = "save", !.id = id]
                                   ELSE DownAgent
      [] agent[a].pc = "refresh" -> [DownAgent EXCEPT !.pc = "beat"]
      [] agent[a].pc = "beat" -> [DownAgent EXCEPT !.pc = IF ok THEN "work" ELSE "enroll"]

\* The agent after an answer: a refused refresh is ignored, any other refusal
\* ends the process.
After(a, ok, id) ==
    CASE agent[a].pc = "enroll" -> IF ok THEN [DownAgent EXCEPT !.pc = "save", !.id = id]
                                   ELSE DownAgent
      [] agent[a].pc = "refresh" -> [DownAgent EXCEPT !.pc = "beat"]
      [] agent[a].pc = "beat" -> [DownAgent EXCEPT !.pc = IF ok THEN "work" ELSE "down"]

Save(a) ==
    /\ agent[a].pc = "save"
    /\ file' = [file EXCEPT ![a] = agent[a].id]
    /\ agent' = [agent EXCEPT ![a] = [DownAgent EXCEPT !.pc = "refresh"]]
    /\ UNCHANGED <<server, seed, torn, handler, tables, expired, faults>>

\* The process ends between the truncation of the file and the write.
SaveIsCut(a) ==
    /\ agent[a].pc = "save"
    /\ Fault
    /\ torn' = torn \cup {a}
    /\ agent' = [agent EXCEPT ![a] = DownAgent]
    /\ UNCHANGED <<server, seed, file, handler, tables, expired>>

\* Telemetry is spooled when it is refused; a refused poll for tasks raises.
Work(a) ==
    /\ agent[a].pc = "work"
    /\ agent' = [agent EXCEPT ![a].pc = IF file[a] \in expired THEN "down" ELSE "refresh"]
    /\ UNCHANGED <<server, seed, disk, handler, tables, expired, faults>>

\* A call times out, an answer is lost or the process is killed; a handler that
\* serves it runs on.
Fails(a) ==
    /\ agent[a].pc # "down"
    /\ Fault
    /\ agent' = [agent EXCEPT ![a] = DownAgent]
    /\ UNCHANGED <<server, seed, disk, handler, tables, expired>>

-----------------------------------------------------------------------------
(* The handlers. *)

\* Registration looks for the node; the other calls check their token.
Look(r) ==
    LET h == handler[r] IN
    /\ h.pc = "start"
    /\ handler' = [handler EXCEPT ![r] =
         CASE h.call = "enroll" -> [h EXCEPT !.pc = "commit", !.seen = UidOf[h.agent] \in nodes]
           [] h.call # "enroll" /\ h.id \in expired -> [h EXCEPT !.pc = "respond"]
           [] h.call = "refresh" /\ h.id \notin expired -> [h EXCEPT !.pc = "respond", !.ok = TRUE]
           [] h.call = "beat" /\ h.id \notin expired -> [h EXCEPT !.pc = "commit"]]
    /\ UNCHANGED <<server, seed, agent, disk, tables, expired, faults>>

\* MUTANT: who loses the race for the node is given the newest identity.
RegisterAnyway(r) ==
    LET h == handler[r] IN
    /\ h.pc = "commit" /\ h.call = "enroll"
    /\ IF ~h.seen /\ UidOf[h.agent] \in nodes
       THEN /\ handler' = [handler EXCEPT ![r] =
                 [h EXCEPT !.pc = "respond", !.ok = TRUE, !.id = Len(owner)]]
            /\ UNCHANGED <<nodes, owner>>
       ELSE /\ nodes' = nodes \cup {UidOf[h.agent]}
            /\ owner' = Append(owner, h.agent)
            /\ handler' = [handler EXCEPT ![r] =
                 [h EXCEPT !.pc = "respond", !.ok = TRUE, !.id = Len(owner) + 1]]
    /\ UNCHANGED <<server, seed, agent, disk, healthy, expired, faults>>

\* The node, if it was not there, and the agent, in one transaction.  node_uid
\* is unique: a node somebody else has committed since makes the call fail.
Register(r) ==
    LET h == handler[r] IN
    /\ h.pc = "commit" /\ h.call = "enroll"
    /\ IF ~h.seen /\ UidOf[h.agent] \in nodes
       THEN /\ handler' = [handler EXCEPT ![r].pc = "respond"]
            /\ UNCHANGED <<nodes, owner>>
       ELSE /\ nodes' = nodes \cup {UidOf[h.agent]}
            /\ owner' = Append(owner, h.agent)
            /\ handler' = [handler EXCEPT ![r] =
                 [h EXCEPT !.pc = "respond", !.ok = TRUE, !.id = Len(owner) + 1]]
    /\ UNCHANGED <<server, seed, agent, disk, healthy, expired, faults>>

RecordHeartbeat(r) ==
    LET h == handler[r] IN
    /\ h.pc = "commit" /\ h.call = "beat"
    /\ healthy' = healthy \cup {h.id}
    /\ handler' = [handler EXCEPT ![r] = [h EXCEPT !.pc = "respond", !.ok = TRUE]]
    /\ UNCHANGED <<server, seed, agent, disk, nodes, owner, expired, faults>>

\* The answer reaches the agent if it still waits for it.
Answer(r, ok) ==
    LET h == handler[r] IN
    /\ agent' = IF agent[h.agent].req = r
                THEN [agent EXCEPT ![h.agent] = After(h.agent, ok, h.id)]
                ELSE agent
    /\ handler' = [handler EXCEPT ![r] = IdleHandler]

Respond(r) ==
    /\ handler[r].pc = "respond"
    /\ Answer(r, handler[r].ok)
    /\ UNCHANGED <<server, seed, disk, tables, expired, faults>>

\* A locked database or a failing bus: before the answer to a registration its
\* audit entry is committed and published.
HandlerFails(r) ==
    /\ handler[r].pc # "idle"
    /\ Fault
    /\ Answer(r, FALSE)
    /\ UNCHANGED <<server, seed, disk, tables, expired>>

\* An hour after the token was made.
Expire(i) ==
    /\ i \notin expired
    /\ expired' = expired \cup {i}
    /\ UNCHANGED <<server, seed, agent, disk, handler, tables, faults>>

-----------------------------------------------------------------------------
Serve(r) == Look(r) \/ Register(r) \/ RecordHeartbeat(r) \/ Respond(r)

Run(a) ==
    \/ Start(a) \/ Unreachable(a) \/ SkipRefresh(a) \/ Save(a) \/ Work(a)
    \/ \E r \in Requests : Call(a, r)

Boot == StartServer \/ CreateTenant \/ CreateAdmin

Next ==
    \/ Boot \/ CrashServer
    \/ \E a \in Agents : Run(a) \/ SaveIsCut(a) \/ Fails(a)
    \/ \E r \in Requests : Serve(r) \/ HandlerFails(r)
    \/ \E i \in DOMAIN owner : Expire(i)

Spec == Init /\ [][Next]_vars

\* Processes are started again and go on, threads finish what they began.
FairSpec ==
    /\ Spec
    /\ WF_vars(Boot)
    /\ \A a \in Agents : WF_vars(Run(a))
    /\ \A r \in Requests : WF_vars(Serve(r))

-----------------------------------------------------------------------------
(* Properties. *)

\* Every variable holds what its table, file, thread or process can hold, and
\* no process waits for a thread that serves somebody else.
TypeOK ==
    /\ server \in {"down", "tenant", "admin", "up"}
    /\ tenant \in BOOLEAN /\ admin \in BOOLEAN
    /\ agent \in [Agents -> Agent]
    /\ \A a \in Agents : agent[a].req # NoRequest => handler[agent[a].req].agent = a
    /\ file \in [Agents -> Ids \cup {NoId}]
    /\ torn \subseteq Agents
    /\ handler \in [Requests -> Handler]
    /\ nodes \subseteq NodeUids
    /\ owner \in Seq(Agents) /\ Len(owner) <= Cardinality(Ids)
    /\ healthy \subseteq DOMAIN owner
    /\ expired \subseteq DOMAIN owner
    /\ faults \in 0 .. MaxFaults

\* Agents that register at the same time, on one node or several, with answers
\* lost and retries under way: a saved identity is a committed row made for that
\* very agent, and of all identities made for an agent only the saved one ever
\* reports.
OneIdentity ==
    /\ \A a \in Agents : file[a] # NoId => file[a] \in DOMAIN owner /\ owner[file[a]] = a
    /\ \A i \in healthy : file[owner[i]] = i

\* Rows of cp_agents nobody uses or is about to be told of.
Orphans(a) ==
    {i \in DOMAIN owner :
        /\ owner[i] = a
        /\ i \notin {file[a], agent[a].id}
        /\ \A r \in Requests : handler[r].id = i => agent[a].req # r}

\* The dashboard counts agents that do not exist: of each agent one for every
\* registration of it that a fault cut off, and no more.
OrphansNeedFaults == \A a \in Agents : Cardinality(Orphans(a)) <= faults

\* The identity of agent a is lost or worthless, and no heartbeat of it is on
\* its way to success.
Doomed(a) ==
    /\ a \in torn \/ file[a] \in expired
    /\ agent[a].pc # "work"
    /\ \A r \in Requests :
          handler[r].agent = a /\ handler[r].call = "beat" => handler[r].pc = "start" \/
             (handler[r].pc = "respond" /\ ~handler[r].ok)

\* The tenant is there, its administrator is not, and nobody is creating it.
HalfSeeded == tenant /\ ~admin /\ server # "admin"

\* No restart helps an agent whose token expired or whose file was cut short: it
\* never works again, because nothing renews a token or replaces a file.  Nor
\* does a restart help a server that was cut off between the two transactions of
\* bootstrap_tenant: it takes the missing administrator for a missing tenant,
\* and never serves.
DeadEndsAreForever ==
    [][/\ \A a \in Agents : Doomed(a) => Doomed(a)'
       /\ HalfSeeded => HalfSeeded' /\ server' # "up"]_vars

\* These are the only dead ends: short of them an agent gets back to work again
\* and again, whatever failed before.
WorksUnlessDoomed ==
    \A a \in Agents : []<>(agent[a].pc = "work") \/ <>Doomed(a) \/ <>HalfSeeded

=============================================================================
