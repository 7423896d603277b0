---------------------------- MODULE Remediation ----------------------------
(***************************************************************************)
(* The remediation path of the control plane: an operator requests and     *)
(* approves an action, the agents of the target node poll for it, execute  *)
(* it and post its result.                                                 *)
(*                                                                         *)
(* One behaviour interleaves three kinds of actors.                        *)
(*   - Request handlers, one per thread of the server (Requests).  A       *)
(*     handler runs in its own SQLAlchemy session: what it loads stays in  *)
(*     the identity map until it commits, and a commit writes only the     *)
(*     columns whose new value differs from the LOADED one (Flush).  Every *)
(*     SELECT and every COMMIT is a step of its own.                       *)
(*   - Agent processes, which do one thing at a time: poll, execute each   *)
(*     task, post each result.  Any exception ends the process.            *)
(*   - Operators, who may send requests at any time.                       *)
(*                                                                         *)
(* A response is delivered in the step that ends its handler; a lost or    *)
(* late one is the agent failing before that step, its handler running on. *)
(***************************************************************************)
EXTENDS Integers, FiniteSets

CONSTANTS
    Agents,       \* registered agents: one row and one token each
    Nodes,        \* monitored nodes
    NodeOf,       \* the node each agent is registered for; several may share it
    Actions,      \* ids of remediation actions
    Diagnostics,  \* those of type collect_diagnostics, the only one an agent performs
    Requests,     \* threads of the server
    NoAgent, NoNode, NoAction, NoRequest,
    MaxAsked,     \* bound: approvals an operator sends for one action
    MaxFaults     \* bound: failures of agents and of handlers

ASSUME RemediationAssumption ==
    /\ NodeOf \in [Agents -> Nodes]
    /\ Diagnostics \subseteq Actions
    /\ NoAgent \notin Agents
    /\ NoNode \notin Nodes
    /\ NoAction \notin Actions
    /\ IsFiniteSet(Requests) /\ Requests \cap Agents = {} /\ NoRequest \notin Requests
    /\ MaxAsked \in Nat
    /\ MaxFaults \in Nat

VARIABLES
    row,        \* table cp_remediation_actions, as committed
    req,        \* the handler each thread of the server runs
    agent,      \* the agent processes
    audit,      \* table cp_audit_records, as committed
    published,  \* actions with an event on the remediation topic
    performed,  \* history: how often each agent executed each action
    asked,      \* history: approvals sent for each action
    faults,     \* history: failures so far
    cut         \* history: actions with a handler that failed after its commit

vars == <<row, req, agent, audit, published, performed, asked, faults, cut>>

-----------------------------------------------------------------------------
Open == {"queued", "dispatched"}
Settled == {"completed", "failed"}
Statuses == {"absent", "requested"} \cup Open \cup Settled

Row == [status: Statuses, approval: {"pending", "approved"}, target: Nodes \cup {NoNode}]

\* A handler: what it serves and for whom, the statement it is at, the row it
\* works on with the status its session has loaded, the rows a poll listed and
\* has yet to mark, and the status class of its response.
Handler == [kind: {"none", "create", "approve", "poll", "result"},
            pc: {"idle", "start", "commit", "publish", "mark", "audit", "respond"},
            by: Agents \cup {NoAgent},
            item: Actions \cup {NoAction},
            loaded: Statuses \cup {"expired"},
            items: SUBSET Actions,
            todo: SUBSET Actions,
            ok: BOOLEAN]

IdleHandler == [kind |-> "none", pc |-> "idle", by |-> NoAgent, item |-> NoAction,
                loaded |-> "expired", items |-> {}, todo |-> {}, ok |-> TRUE]

\* An agent process: what it is about to do, the request it waits for, the
\* tasks of its last poll it has yet to settle and the one it has executed.
Agent == [pc: {"down", "idle", "waiting", "working", "executed"},
          req: Requests \cup {NoRequest},
          tasks: SUBSET Actions,
          current: Actions \cup {NoAction}]

IdleAgent == [pc |-> "idle", req |-> NoRequest, tasks |-> {}, current |-> NoAction]

DownAgent == [IdleAgent EXCEPT !.pc = "down"]

AuditRecord == [event: {"create", "approve", "result"}, item: Actions,
                outcome: {"success", "failure"}]

MaxPerformed == MaxAsked + MaxFaults + 1

Init ==
    /\ row = [t \in Actions |-> [status |-> "absent", approval |-> "pending", target |-> NoNode]]
    /\ req = [r \in Requests |-> IdleHandler]
    /\ agent = [a \in Agents |-> IdleAgent]
    /\ audit = {}
    /\ published = {}
    /\ performed = [t \in Actions |-> [a \in Agents |-> 0]]
    /\ asked = [t \in Actions |-> 0]
    /\ faults = 0
    /\ cut = {}

-----------------------------------------------------------------------------
\* What a column holds once a session that loaded old commits new: the UPDATE
\* names only the columns that changed in the session.
Flush(current, old, new) == IF new = old THEN current ELSE new

\* MUTANTS: the target column is not compared; every approved action is
\* listed; what was handed out is not listed again.
TasksForAnyNode(a) ==
    {t \in Actions : row[t].approval = "approved" /\ row[t].status \in Open}

TasksForAnyStatus(a) ==
    {t \in Actions : row[t].approval = "approved" /\ row[t].target = NodeOf[a]}

TasksForOnlyQueued(a) ==
    {t \in Actions : row[t].status = "queued" /\ row[t].target = NodeOf[a]}

\* The tasks a poll of agent a lists.
TasksFor(a) ==
    {t \in Actions : /\ row[t].approval = "approved"
                     /\ row[t].status \in Open
                     /\ row[t].target = NodeOf[a]}

\* Handler r moves on with the given changes to its record.
Step(r, h) == req' = [req EXCEPT ![r] = h]

-----------------------------------------------------------------------------
(* Requests of operators. *)

\* POST /remediation/actions: the row is inserted and committed.
CreateAction(r, t, n) ==
    /\ req[r].pc = "idle"
    /\ row[t].status = "absent"
    /\ row' = [row EXCEPT ![t] = [status |-> "requested", approval |-> "pending", target |-> n]]
    /\ Step(r, [IdleHandler EXCEPT !.kind = "create", !.pc = "audit", !.item = t])
    /\ UNCHANGED <<agent, audit, published, performed, asked, faults, cut>>

\* POST /remediation/actions/{id}/approve: the row is loaded.
ApproveLoad(r, t) ==
    /\ req[r].pc = "idle"
    /\ row[t].status # "absent"
    /\ asked[t] < MaxAsked
    /\ asked' = [asked EXCEPT ![t] = @ + 1]
    /\ Step(r, [IdleHandler EXCEPT !.kind = "approve", !.pc = "commit", !.item = t,
                                   !.loaded = row[t].status])
    /\ UNCHANGED <<row, agent, audit, published, performed, faults, cut>>

\* MUTANT: the event is forgotten.
ApproveCommitUnpublished(r) ==
    LET h == req[r] IN
    /\ h.kind = "approve" /\ h.pc = "commit"
    /\ row' = [row EXCEPT ![h.item].approval = "approved",
                          ![h.item].status = Flush(@, h.loaded, "queued")]
    /\ Step(r, [h EXCEPT !.pc = "audit", !.loaded = "expired"])
    /\ UNCHANGED <<agent, audit, published, performed, asked, faults, cut>>

\* Both columns are assigned whatever was loaded, and committed.
ApproveCommit(r) ==
    LET h == req[r] IN
    /\ h.kind = "approve" /\ h.pc = "commit"
    /\ row' = [row EXCEPT ![h.item].approval = "approved",
                          ![h.item].status = Flush(@, h.loaded, "queued")]
    /\ Step(r, [h EXCEPT !.pc = "publish", !.loaded = "expired"])
    /\ UNCHANGED <<agent, audit, published, performed, asked, faults, cut>>

\* Only then is the event published, through the bus's own connection.
ApprovePublish(r) ==
    LET h == req[r] IN
    /\ h.kind = "approve" /\ h.pc = "publish"
    /\ published' = published \cup {h.item}
    /\ Step(r, [h EXCEPT !.pc = "audit"])
    /\ UNCHANGED <<row, agent, audit, performed, asked, faults, cut>>

\* MUTANT: a result is a success unless the row says it failed.
AuditUnlessFailed(r) ==
    LET h == req[r]
        good == h.kind # "result" \/ row[h.item].status # "failed"
    IN
    /\ h.pc = "audit"
    /\ audit' = audit \cup {[event |-> h.kind, item |-> h.item,
                             outcome |-> IF good THEN "success" ELSE "failure"]}
    /\ Step(r, [h EXCEPT !.pc = "respond"])
    /\ UNCHANGED <<row, agent, published, performed, asked, faults, cut>>

\* MUTANT: every audit entry is a success.
AuditSuccess(r) ==
    LET h == req[r] IN
    /\ h.pc = "audit"
    /\ audit' = audit \cup {[event |-> h.kind, item |-> h.item, outcome |-> "success"]}
    /\ Step(r, [h EXCEPT !.pc = "respond"])
    /\ UNCHANGED <<row, agent, published, performed, asked, faults, cut>>

\* The route records the audit entry.  That of a result takes its outcome from
\* the action's status, which the commit before expired: it is read again here.
Audit(r) ==
    LET h == req[r]
        good == h.kind # "result" \/ row[h.item].status = "completed"
    IN
    /\ h.pc = "audit"
    /\ audit' = audit \cup {[event |-> h.kind, item |-> h.item,
                             outcome |-> IF good THEN "success" ELSE "failure"]}
    /\ Step(r, [h EXCEPT !.pc = "respond"])
    /\ UNCHANGED <<row, agent, published, performed, asked, faults, cut>>

-----------------------------------------------------------------------------
(* GET /remediation/agents/{id}/tasks. *)

\* The tasks are listed; the session holds every listed row as it was loaded,
\* and marking begins with one of them.
PollList(r) ==
    LET h == req[r]
        tasks == TasksFor(h.by)
    IN
    /\ h.kind = "poll" /\ h.pc = "start"
    /\ \/ /\ tasks = {}
          /\ Step(r, [h EXCEPT !.pc = "respond"])
       \/ \E t \in tasks :
            Step(r, [h EXCEPT !.pc = "mark", !.items = tasks, !.todo = tasks,
                              !.item = t, !.loaded = row[t].status])
    /\ UNCHANGED <<row, agent, audit, published, performed, asked, faults, cut>>

\* After a commit every row is expired: the next one is loaded again.
PollRefresh(r) ==
    LET h == req[r] IN
    /\ h.kind = "poll" /\ h.pc = "mark" /\ h.loaded = "expired"
    /\ \E t \in h.todo : Step(r, [h EXCEPT !.item = t, !.loaded = row[t].status])
    /\ UNCHANGED <<row, agent, audit, published, performed, asked, faults, cut>>

\* mark_dispatched looks at no status: it assigns and commits.
PollMark(r) ==
    LET h == req[r]
        rest == h.todo \ {h.item}
    IN
    /\ h.kind = "poll" /\ h.pc = "mark" /\ h.loaded # "expired"
    /\ row' = [row EXCEPT ![h.item].status = Flush(@, h.loaded, "dispatched")]
    /\ Step(r, [h EXCEPT !.todo = rest, !.loaded = "expired",
                         !.pc = IF rest = {} THEN "respond" ELSE "mark"])
    /\ UNCHANGED <<agent, audit, published, performed, asked, faults, cut>>

-----------------------------------------------------------------------------
(* POST /remediation/actions/{id}/result. *)

\* The row is loaded and its target compared with the node of the agent.
ResultLoad(r) ==
    LET h == req[r]
        found == row[h.item].target = NodeOf[h.by]
    IN
    /\ h.kind = "result" /\ h.pc = "start"
    /\ Step(r, [h EXCEPT !.pc = IF found THEN "commit" ELSE "respond", !.ok = found,
                         !.loaded = row[h.item].status])
    /\ UNCHANGED <<row, agent, audit, published, performed, asked, faults, cut>>

\* MUTANT: a status nobody knows.
ResultStatusSuccess(t) == IF t \in Diagnostics THEN "success" ELSE "failed"

\* The status the result of action t asks for: what the agent reports depends
\* on the type alone.
ResultStatus(t) == IF t \in Diagnostics THEN "completed" ELSE "failed"

\* MUTANT: the flag of the report is not looked at.
ResultCommitCompleted(r) ==
    LET h == req[r] IN
    /\ h.kind = "result" /\ h.pc = "commit"
    /\ row' = [row EXCEPT ![h.item].status = Flush(@, h.loaded, "completed")]
    /\ Step(r, [h EXCEPT !.pc = "audit", !.loaded = "expired"])
    /\ UNCHANGED <<agent, audit, published, performed, asked, faults, cut>>

ResultCommit(r) ==
    LET h == req[r] IN
    /\ h.kind = "result" /\ h.pc = "commit"
    /\ row' = [row EXCEPT ![h.item].status = Flush(@, h.loaded, ResultStatus(h.item))]
    /\ Step(r, [h EXCEPT !.pc = "audit", !.loaded = "expired"])
    /\ UNCHANGED <<agent, audit, published, performed, asked, faults, cut>>

-----------------------------------------------------------------------------
(* Agent processes. *)

\* The agent asks for its tasks.
Poll(a, r) ==
    /\ agent[a].pc = "idle"
    /\ req[r].pc = "idle"
    /\ Step(r, [IdleHandler EXCEPT !.kind = "poll", !.pc = "start", !.by = a])
    /\ agent' = [agent EXCEPT ![a].pc = "waiting", ![a].req = r]
    /\ UNCHANGED <<row, audit, published, performed, asked, faults, cut>>

\* The agent performs one of the tasks it was given.
Execute(a, t) ==
    /\ agent[a].pc = "working"
    /\ t \in agent[a].tasks
    /\ agent' = [agent EXCEPT ![a].pc = "executed", ![a].current = t]
    /\ performed' = [performed EXCEPT ![t][a] = IF @ < MaxPerformed THEN @ + 1 ELSE @]
    /\ UNCHANGED <<row, req, audit, published, asked, faults, cut>>

\* The agent posts the result of the task it executed.
PostResult(a, r) ==
    /\ agent[a].pc = "executed"
    /\ req[r].pc = "idle"
    /\ Step(r, [IdleHandler EXCEPT !.kind = "result", !.pc = "start", !.by = a,
                                   !.item = agent[a].current])
    /\ agent' = [agent EXCEPT ![a].pc = "waiting", ![a].req = r]
    /\ UNCHANGED <<row, audit, published, performed, asked, faults, cut>>

\* What the agent that waits for handler h does with its response.
Receive(a, h) ==
    LET left == IF h.kind = "poll" THEN h.items ELSE agent[a].tasks \ {h.item} IN
    IF ~h.ok THEN DownAgent
    ELSE [IdleAgent EXCEPT !.pc = IF left = {} THEN "idle" ELSE "working", !.tasks = left]

\* The agents after the response of handler r: nobody may be waiting for it.
Answered(r, h) ==
    [a \in Agents |-> IF agent[a].req = r THEN Receive(a, h) ELSE agent[a]]

\* The handler responds and its thread is free again.
Respond(r) ==
    /\ req[r].pc = "respond"
    /\ agent' = Answered(r, req[r])
    /\ Step(r, IdleHandler)
    /\ UNCHANGED <<row, audit, published, performed, asked, faults, cut>>

-----------------------------------------------------------------------------
(* Failures. *)

\* An exception or the end of the server stops a handler between two of its
\* statements: what it committed stays, the caller gets an error.
HandlerFails(r) ==
    /\ req[r].pc # "idle"
    /\ faults < MaxFaults
    /\ faults' = faults + 1
    /\ agent' = Answered(r, [req[r] EXCEPT !.ok = FALSE])
    /\ cut' = IF req[r].pc \in {"publish", "audit"} THEN cut \cup {req[r].item} ELSE cut
    /\ Step(r, IdleHandler)
    /\ UNCHANGED <<row, audit, published, performed, asked>>

\* A timeout, a lost response or a crash ends the agent process; a handler it
\* was waiting for runs on.
AgentFails(a) ==
    /\ agent[a].pc # "down"
    /\ faults < MaxFaults
    /\ faults' = faults + 1
    /\ agent' = [agent EXCEPT ![a] = DownAgent]
    /\ UNCHANGED <<row, req, audit, published, performed, asked, cut>>

\* Whoever supervises the agent starts it again; it remembers no task.
AgentRestarts(a) ==
    /\ agent[a].pc = "down"
    /\ agent' = [agent EXCEPT ![a] = IdleAgent]
    /\ UNCHANGED <<row, req, audit, published, performed, asked, faults, cut>>

-----------------------------------------------------------------------------
Serve(r) ==
    \/ ApproveCommit(r)
    \/ ApprovePublish(r)
    \/ Audit(r)
    \/ PollList(r)
    \/ PollRefresh(r)
    \/ PollMark(r)
    \/ ResultLoad(r)
    \/ ResultCommit(r)
    \/ Respond(r)

Run(a) ==
    \/ \E r \in Requests : Poll(a, r) \/ PostResult(a, r)
    \/ \E t \in Actions : Execute(a, t)
    \/ AgentRestarts(a)

Operate(r) ==
    \E t \in Actions :
        \/ \E n \in Nodes \cup {NoNode} : CreateAction(r, t, n)
        \/ ApproveLoad(r, t)

Next ==
    \/ \E r \in Requests : Serve(r) \/ Operate(r) \/ HandlerFails(r)
    \/ \E a \in Agents : Run(a) \/ AgentFails(a)

Spec == Init /\ [][Next]_vars

\* A thread of the server that has work does it; an agent process keeps looping
\* and its supervisor keeps restarting it.  Nobody has to create or approve
\* anything, and nothing has to fail.
Fairness ==
    /\ \A r \in Requests : WF_vars(Serve(r))
    /\ \A a \in Agents : WF_vars(Run(a))

FairSpec == Spec /\ Fairness

-----------------------------------------------------------------------------
(* Properties. *)

\* Every variable holds what its table, thread or process can hold.
TypeOK ==
    /\ row \in [Actions -> Row]
    /\ req \in [Requests -> Handler]
    /\ agent \in [Agents -> Agent]
    /\ audit \subseteq AuditRecord
    /\ published \subseteq Actions
    /\ performed \in [Actions -> [Agents -> 0 .. MaxPerformed]]
    /\ asked \in [Actions -> 0 .. MaxAsked]
    /\ faults \in 0 .. MaxFaults
    /\ cut \subseteq Actions

\* No agent performs an action that nobody approved or that is meant for
\* another node, whatever races and failures delay its poll (the filter of
\* list_for_agent is evaluated long before the agent acts on its answer).
OnlyApprovedIsPerformed ==
    \A t \in Actions, a \in Agents : performed[t][a] > 0 =>
        /\ row[t].approval = "approved"
        /\ row[t].target = NodeOf[a]

\* A final status tells the truth: some agent performed the action, and the
\* status is the one its type leads to.
SettledWasPerformed ==
    \A t \in Actions : row[t].status \in Settled =>
        /\ row[t].status = ResultStatus(t)
        /\ \E a \in Agents : performed[t][a] > 0

\* The audit table never claims what did not happen: a result is recorded only
\* for an action some agent performed, a success only for one it can do, an
\* approval only for an approved one.
AuditIsTrue ==
    \A e \in audit :
        /\ e.event = "approve" => row[e.item].approval = "approved"
        /\ e.event = "result" => \E a \in Agents : performed[e.item][a] > 0
        /\ e.event = "result" /\ e.outcome = "success" => e.item \in Diagnostics

\* Commit, event and audit entry are three steps: only a handler that failed in
\* between can leave an approved action without its event and audit entry, or a
\* settled one without the audit entry of its result.
CommitIsAnnounced ==
    \A t \in Actions : t \notin cut =>
        LET Pending(kind) == \E r \in Requests : /\ req[r].kind = kind
                                                 /\ req[r].item = t
                                                 /\ req[r].pc \in {"publish", "audit"}
            Audited(kind) == \E e \in audit : e.event = kind /\ e.item = t
        IN
        /\ row[t].approval = "approved" =>
             Pending("approve") \/ (t \in published /\ Audited("approve"))
        /\ row[t].status \in Settled => Pending("result") \/ Audited("result")

\* Agents that share their node with no other.
Lone == {a \in Agents : \A b \in Agents \ {a} : NodeOf[b] # NodeOf[a]}

\* An agent alone on its node performs an action at most once per approval, and
\* once more for each failure: a lost response, or a poll that outlives its
\* agent and marks a finished action dispatched.  mark_dispatched and
\* record_result look at no status, so nothing else limits repetition.
RepetitionNeedsCause ==
    \A t \in Actions, a \in Lone : performed[t][a] <= asked[t] + faults

\* The audit entry of a result takes its outcome from the row, not from the
\* report.  With one approval and no failure (or the other way round) the two
\* agree for an agent alone on its node.
OutcomeIsReported ==
    \A e \in audit :
        \/ e.event # "result"
        \/ e.outcome = (IF e.item \in Diagnostics THEN "success" ELSE "failure")
        \/ asked[e.item] + faults > 1
        \/ \E a \in Agents \ Lone : NodeOf[a] = row[e.item].target

\* Action t is settled and nobody still holds an older view of it.
Quiet(t) ==
    /\ row[t].status \in Settled
    /\ \A r \in Requests :
         /\ t \notin req[r].items
         /\ req[r].kind \in {"approve", "result"} /\ req[r].pc \in {"start", "commit"}
              => req[r].item # t
    /\ \A a \in Agents : t \notin agent[a].tasks

\* A settled action of which nobody holds an older view is over: it keeps its
\* status and no agent performs it again, until somebody approves it anew.
QuietIsFinal ==
    [][\A t \in Actions : Quiet(t) =>
         /\ row'[t] = row[t]
         /\ performed'[t] = performed[t]
         /\ Quiet(t)' \/ asked'[t] > asked[t]]_vars

(* The refinement of ActionLifecycle, action by action. *)

StageOf(t) ==
    IF row[t].status = "absent" THEN "unknown"
    ELSE IF \E a \in Agents : performed[t][a] > 0 THEN "performed"
    ELSE IF row[t].approval = "approved" THEN "approved" ELSE "requested"

StatusOf(t) == IF row[t].status \in Settled THEN row[t].status ELSE "open"

AskingFor(t) == {r \in Requests : req[r].kind = "approve" /\ req[r].pc = "commit" /\ req[r].item = t}

\* Polls that listed the action, agents that were given it, and results of it
\* that are not committed.
HoldersOf(t) ==
    {a \in Agents : t \in agent[a].tasks} \cup
    {r \in Requests : \/ t \in req[r].items
                      \/ req[r].kind = "result" /\ req[r].pc \in {"start", "commit"}
                                               /\ req[r].item = t}

Lifecycle(t) == INSTANCE ActionLifecycle WITH
    Parties <- Requests \cup Agents, Outcome <- ResultStatus(t),
    stage <- StageOf(t), status <- StatusOf(t),
    asking <- AskingFor(t), holders <- HoldersOf(t)

\* Whatever agents of one node, their polls in flight, operators and failures
\* do to an action, it goes through the life ActionLifecycle describes.
ActionsHaveTheirLife ==
    /\ \A t \in Actions : Lifecycle(t)!Init
    /\ [][\A t \in Actions : Lifecycle(t)!Next \/ UNCHANGED Lifecycle(t)!lifecycle]_vars

Reachable(t) == \E a \in Agents : NodeOf[a] = row[t].target

\* Nobody reopens action t for ever: its node has one agent, or no other action
\* is meant for that node.  A poll of several rows loads each again before it
\* marks it: a row that another agent settled meanwhile is marked dispatched,
\* and agents that list the same rows in opposite orders can go on like that.
Undisturbed(t) ==
    \/ \E a \in Lone : NodeOf[a] = row[t].target
    \/ \A u \in Actions \ {t} : row[u].target # row[t].target

\* However often polls, those of agents that are gone included, mark a finished
\* action dispatched, that ends if one agent serves the node or one action is
\* meant for it: from some point on such an action, once approved, is settled
\* and stays so.
EveryActionIsOver ==
    <>[](\A t \in Actions :
            row[t].approval = "approved" /\ Reachable(t) /\ Undisturbed(t)
              => row[t].status \in Settled)

=============================================================================
