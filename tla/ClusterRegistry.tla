-------------------------- MODULE ClusterRegistry --------------------------
(***************************************************************************)
(* The node registry of the Flask application: heartbeats write a node's   *)
(* status and the time it was last seen, and every reader first sweeps the *)
(* table, marking offline the nodes that were not seen for too long.       *)
(*                                                                         *)
(* Each thread (Sessions) runs one operation at a time in its own session: *)
(* its SELECTs and its COMMIT are separate steps, and a commit writes the  *)
(* status only when the new one differs from the one the session LOADED.   *)
(* RegistrySpec lets any thread start any operation; LiveSummary composes  *)
(* the operations with the threads that call them.                         *)
(*                                                                         *)
(* Times are ages: Tick makes everything older, up to the age from which   *)
(* nothing depends on it any more, so no bound on time is needed.          *)
(***************************************************************************)
EXTENDS Integers

CONSTANTS
    Nodes,        \* node ids
    LocalNode,    \* NODE_ID, the node the application runs on
    Sessions,     \* threads of the process
    NoNode,
    Reported,     \* statuses a heartbeat may report: any string is taken as it is
    AllowRemote,  \* CLUSTER_ALLOW_REMOTE_AGENTS
    TTL,          \* NODE_HEARTBEAT_TTL_SECONDS
    LockWait,     \* how long a commit waits for the database before it fails
    MaxLag        \* bound: from this age on the duration of an operation is not followed

\* "absent" and "none" are this module's words for no row and no status.
\* config.py keeps the TTL at 10 s or more; a locked SQLite file is waited for
\* 5 s.
ASSUME RegistryAssumption ==
    /\ LocalNode \in Nodes
    /\ NoNode \notin Nodes
    /\ "online" \in Reported /\ Reported \cap {"absent", "none"} = {}
    /\ AllowRemote \in BOOLEAN
    /\ TTL \in Nat /\ LockWait \in Nat /\ MaxLag \in Nat
    /\ LockWait < TTL /\ LockWait <= MaxLag

VARIABLES
    row,    \* table cluster_nodes, as committed
    op,     \* the operation each session runs
    raced,  \* history: nodes whose last heartbeat overlapped a sweep that marked
            \* them, or another heartbeat that set them offline
    told    \* history: nodes whose last heartbeat reported them offline

registryVars == <<row, op, raced, told>>

-----------------------------------------------------------------------------
MaxAge == TTL + MaxLag

Older(age, max) == IF age < max THEN age + 1 ELSE age

Statuses == Reported \cup {"absent", "offline"}

\* age: time since last_seen_at.
Row == [status: Statuses, age: 0 .. MaxAge]

\* node, loaded, reported: what a heartbeat is about, the status it loaded and
\* the one it assigns; sweeps: sweeps to do before the list; stale: the nodes a
\* sweep has selected; online: those the list found online; lag: time since the
\* last SELECT of the heartbeat or the sweep; swept: history, a sweep or another
\* heartbeat has set the node offline since the heartbeat loaded it.
Operation == [pc: {"idle", "commit", "sweep", "mark", "list", "done", "failed"},
              node: Nodes \cup {NoNode}, loaded: Statuses \cup {"none"},
              reported: Reported \cup {"none"},
              sweeps: 0 .. 2, stale: SUBSET Nodes, online: SUBSET Nodes,
              lag: 0 .. MaxLag, swept: BOOLEAN]

NoOperation == [pc |-> "idle", node |-> NoNode, loaded |-> "none", reported |-> "none",
                sweeps |-> 0, stale |-> {}, online |-> {}, lag |-> 0, swept |-> FALSE]

InitRegistry ==
    /\ row = [n \in Nodes |-> [status |-> "absent", age |-> 0]]
    /\ op = [s \in Sessions |-> NoOperation]
    /\ raced = {} /\ told = {}

-----------------------------------------------------------------------------
\* The row of node n is loaded.  An unknown node is refused unless remote
\* agents may register; the sampler's own update would insert the local node.
HeartbeatLoad(s, n, status) ==
    op' = [op EXCEPT ![s] = [NoOperation EXCEPT
             !.pc = IF row[n].status = "absent" /\ ~AllowRemote /\ n # LocalNode
                    THEN "failed" ELSE "commit",
             !.node = n, !.loaded = row[n].status, !.reported = status]]

\* The node the application runs on is inserted unless it has a row, which is
\* left as it is.
EnsureLocalNode(s) ==
    op' = [op EXCEPT ![s] =
             IF row[LocalNode].status = "absent"
             THEN [NoOperation EXCEPT !.pc = "commit", !.node = LocalNode,
                                      !.loaded = "absent", !.reported = "online"]
             ELSE [NoOperation EXCEPT !.pc = "done"]]

\* Some sweep has selected node n and has yet to mark it.
BeingSwept(n) == \E u \in Sessions : op[u].pc = "mark" /\ n \in op[u].stale

\* An operation some of whose nodes another session has just set offline.
Overtaken(h, nodes) == [h EXCEPT !.swept = @ \/ (h.pc = "commit" /\ h.node \in nodes)]

\* last_seen_at is taken after the load and before the commit, at most LockWait
\* ago.  An insert of a node that was inserted meanwhile violates the unique
\* node_id; an update leaves the status alone unless it differs from the loaded.
Commit(s) ==
    LET h == op[s]
        status == IF h.reported = h.loaded THEN row[h.node].status ELSE h.reported IN
    /\ h.pc = "commit"
    /\ \/ /\ h.loaded = "absent" /\ row[h.node].status # "absent"
          /\ op' = [op EXCEPT ![s] = [NoOperation EXCEPT !.pc = "failed"]]
          /\ UNCHANGED <<row, raced, told>>
       \/ /\ h.loaded # "absent" \/ row[h.node].status = "absent"
          /\ \E age \in 0 .. h.lag :
               row' = [row EXCEPT ![h.node] = [status |-> status, age |-> age]]
          /\ op' = [u \in Sessions |->
               IF u = s THEN [NoOperation EXCEPT !.pc = "done"]
               ELSE IF status = "offline" THEN Overtaken(op[u], {h.node}) ELSE op[u]]
          /\ raced' = IF h.swept \/ BeingSwept(h.node)
                      THEN raced \cup {h.node} ELSE raced \ {h.node}
          /\ told' = IF h.reported = "offline"
                     THEN told \cup {h.node} ELSE told \ {h.node}

\* get_nodes sweeps once; get_cluster_overview sweeps and calls get_nodes.
StartReading(s, sweeps) ==
    op' = [op EXCEPT ![s] = [NoOperation EXCEPT !.pc = "sweep", !.sweeps = sweeps]]

\* MUTANTS: the age is not compared; it is compared with a longer TTL.
StaleWhateverAge == {n \in Nodes : row[n].status \notin {"absent", "offline"}}

StaleLater == {n \in Nodes : row[n].status \notin {"absent", "offline"} /\ row[n].age > TTL + 1}

\* What the SELECT of a sweep finds.
Stale == {n \in Nodes : row[n].status \notin {"absent", "offline"} /\ row[n].age > TTL}

AfterSweep(h) == IF h.sweeps = 1 THEN "list" ELSE "sweep"

\* A sweep that selects nothing commits nothing.
SweepSelect(s) ==
    LET h == op[s] IN
    /\ h.pc = "sweep"
    /\ op' = [op EXCEPT ![s] =
         IF Stale = {} THEN [h EXCEPT !.pc = AfterSweep(h), !.sweeps = @ - 1, !.lag = 0]
         ELSE [h EXCEPT !.pc = "mark", !.stale = Stale, !.lag = 0]]
    /\ UNCHANGED <<row, raced, told>>

\* The selected nodes are marked whatever was committed since.
SweepMark(s) ==
    LET h == op[s] IN
    /\ h.pc = "mark"
    /\ row' = [n \in Nodes |-> IF n \in h.stale THEN [row[n] EXCEPT !.status = "offline"]
                                                ELSE row[n]]
    /\ op' = [u \in Sessions |->
         IF u = s THEN [h EXCEPT !.pc = AfterSweep(h), !.sweeps = @ - 1, !.stale = {}]
         ELSE Overtaken(op[u], h.stale)]
    /\ UNCHANGED <<raced, told>>

\* The rows are listed after the sweep.
List(s) ==
    LET h == op[s] IN
    /\ h.pc = "list"
    /\ op' = [op EXCEPT ![s] = [h EXCEPT !.pc = "done",
                                         !.online = {n \in Nodes : row[n].status = "online"}]]
    /\ UNCHANGED <<row, raced, told>>

\* A statement or a commit raises: the session is rolled back.
Raise(s) ==
    /\ op[s].pc \in {"commit", "sweep", "mark", "list"}
    /\ op' = [op EXCEPT ![s] = [NoOperation EXCEPT !.pc = "failed"]]
    /\ UNCHANGED <<row, raced, told>>

Operate(s) ==
    \/ Commit(s)
    \/ SweepSelect(s)
    \/ SweepMark(s)
    \/ List(s)
    \/ Raise(s)

\* The caller takes the outcome and the session ends.
Finish(s) == op' = [op EXCEPT ![s] = NoOperation]

\* The routes, the start of the application and the sampler.
Call(s) ==
    /\ op[s].pc = "idle"
    /\ \/ \E n \in Nodes, status \in Reported : HeartbeatLoad(s, n, status)
       \/ \E sweeps \in {1, 2} : StartReading(s, sweeps)
       \/ EnsureLocalNode(s)
    /\ UNCHANGED <<row, raced, told>>

Return(s) ==
    /\ op[s].pc \in {"done", "failed"}
    /\ Finish(s)
    /\ UNCHANGED <<row, raced, told>>

\* Time passes.
Age ==
    /\ row' = [n \in Nodes |-> IF row[n].status = "absent" THEN row[n]
                               ELSE [row[n] EXCEPT !.age = Older(@, MaxAge)]]
    /\ op' = [s \in Sessions |->
         CASE op[s].pc = "commit" -> [op[s] EXCEPT !.lag = Older(@, LockWait)]
           [] op[s].online # {} \/ op[s].pc \in {"mark", "list"} -> [op[s] EXCEPT !.lag = Older(@, MaxLag)]
           [] OTHER -> op[s]]
    /\ UNCHANGED <<raced, told>>

RegistryNext ==
    \/ \E s \in Sessions : Call(s) \/ Operate(s) \/ Return(s)
    \/ Age

RegistrySpec == InitRegistry /\ [][RegistryNext]_registryVars

-----------------------------------------------------------------------------
(* Properties. *)

\* Every variable holds what its table or session can hold.
RegistryTypeOK ==
    /\ row \in [Nodes -> Row]
    /\ op \in [Sessions -> Operation]
    /\ raced \subseteq Nodes /\ told \subseteq Nodes

\* A node that is offline although it was seen within the TTL was told to be by
\* its last heartbeat, or that one was overlapped: a sweep had selected the node
\* before the heartbeat committed, or a sweep or another heartbeat set it offline
\* after the heartbeat had loaded it (whose UPDATE then leaves the status out).
\* _mark_stale_nodes writes what it decided from rows read earlier, and nothing
\* but a further heartbeat repairs it.
OfflineNeedsOverlap ==
    \A n \in Nodes :
        row[n].status = "offline" /\ row[n].age <= TTL => n \in raced \cup told

\* Whatever other sessions commit between the sweep and the list of a reader:
\* a node it reports online has been seen within the TTL before its sweep.
OnlineIsFresh ==
    \A s \in Sessions : \A n \in op[s].online :
        op[s].lag < MaxLag => row[n].age <= TTL + op[s].lag

=============================================================================
