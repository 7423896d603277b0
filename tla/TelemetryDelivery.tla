------------------------- MODULE TelemetryDelivery -------------------------
(***************************************************************************)
(* From the agent's collectors to the telemetry tables and the stream: the *)
(* agent posts each batch, keeps in its spool (an SQLite file) what was    *)
(* not accepted, and posts the spooled rows again after the next batch     *)
(* that is; the control plane stores a batch and publishes its events.     *)
(*                                                                         *)
(* The spool, the batches and the threads of one agent are modelled: no    *)
(* two agents share a batch.  Batches are numbered in the order they are   *)
(* collected, which is also the order of their rows in the spool.          *)
(***************************************************************************)
EXTENDS Integers, FiniteSets

CONSTANTS
    Requests,      \* threads of the server
    NoRequest,
    Limit,         \* rows of the spool posted per round (25 in the code)
    Events,        \* events per batch, one per collector (4 in the code)
    MaxBatches,    \* bound: batches collected
    MaxTimeouts,   \* bound: calls the agent gives up on, and its crashes
    MaxRollbacks   \* bound: handlers that fail

ASSUME DeliveryAssumption ==
    /\ NoRequest \notin Requests
    /\ Limit \in Nat \ {0}
    /\ Events \in Nat \ {0}
    /\ MaxBatches \in Nat
    /\ MaxTimeouts \in Nat
    /\ MaxRollbacks \in Nat

VARIABLES
    agent,      \* the agent process
    spool,      \* batches with a row in the spool
    handler,    \* the handler each thread runs
    stored,     \* batches committed in cp_telemetry_batches, with their events
    published,  \* how often each event of each batch is on the stream
    collected,  \* history: batches collected so far
    dropped,    \* history: batches the agent held when it crashed
    timeouts,   \* history: calls given up and crashes
    rollbacks   \* history: handlers that failed

vars == <<agent, spool, handler, stored, published, collected, dropped, timeouts, rollbacks>>

-----------------------------------------------------------------------------
Batches == 1 .. MaxBatches
NoBatch == 0

\* current: the batch collected in this round; rows: the fetched rows not yet
\* posted; row: the one being posted; acks: those posted with success.
Agent == [pc: {"down", "idle", "send", "sending", "flush", "flushing", "ack"},
          current: Batches \cup {NoBatch}, rows: SUBSET Batches,
          row: Batches \cup {NoBatch}, acks: SUBSET Batches,
          req: Requests \cup {NoRequest}]

IdleAgent == [pc |-> "idle", current |-> NoBatch, rows |-> {}, row |-> NoBatch,
              acks |-> {}, req |-> NoRequest]

Handler == [pc: {"idle", "start", "publish", "commit", "respond"},
            batch: Batches \cup {NoBatch}, next: 1 .. Events + 1, ok: BOOLEAN]

IdleHandler == [pc |-> "idle", batch |-> NoBatch, next |-> 1, ok |-> TRUE]

Init ==
    /\ agent = IdleAgent
    /\ spool = {}
    /\ handler = [r \in Requests |-> IdleHandler]
    /\ stored = {}
    /\ published = [b \in Batches |-> [e \in 1 .. Events |-> 0]]
    /\ collected = 0
    /\ dropped = {}
    /\ timeouts = 0
    /\ rollbacks = 0

-----------------------------------------------------------------------------
(* The agent. *)

\* MUTANT: the limit is off by one.
FirstRowsAndOne == {b \in spool : Cardinality({c \in spool : c < b}) <= Limit}

\* The rows fetch_batch(limit) returns, in the order of their ids.
FirstRows == {b \in spool : Cardinality({c \in spool : c < b}) < Limit}

Oldest(rows) == CHOOSE b \in rows : \A c \in rows : b <= c

\* A POST of batch b is under way on thread r.
Posts(r, b) ==
    /\ handler[r].pc = "idle"
    /\ handler' = [handler EXCEPT ![r] = [IdleHandler EXCEPT !.pc = "start", !.batch = b]]

SendCurrent(r) ==
    /\ agent.pc = "send"
    /\ Posts(r, agent.current)
    /\ agent' = [agent EXCEPT !.pc = "sending", !.req = r]
    /\ UNCHANGED <<spool, stored, published, collected, dropped, timeouts, rollbacks>>

SendRow(r) ==
    LET b == Oldest(agent.rows) IN
    /\ agent.pc = "flush"
    /\ Posts(r, b)
    /\ agent' = [agent EXCEPT !.pc = "flushing", !.req = r, !.row = b,
                              !.rows = @ \ {b}]
    /\ UNCHANGED <<spool, stored, published, collected, dropped, timeouts, rollbacks>>

\* The current batch was accepted: the first rows of the spool follow.
BeginFlush ==
    IF FirstRows = {} THEN IdleAgent
    ELSE [agent EXCEPT !.pc = "flush", !.req = NoRequest, !.rows = FirstRows]

\* A round collects a batch and posts it.
Collect ==
    /\ agent.pc = "idle"
    /\ collected < MaxBatches
    /\ collected' = collected + 1
    /\ agent' = [IdleAgent EXCEPT !.pc = "send", !.current = collected + 1]
    /\ UNCHANGED <<spool, handler, stored, published, dropped, timeouts, rollbacks>>

\* Later batches are not followed: a row of theirs is behind all those that are.
\* Of their rounds only the flush of the older rows matters.
CollectMore ==
    /\ agent.pc = "idle"
    /\ collected = MaxBatches
    /\ agent' = BeginFlush
    /\ UNCHANGED <<spool, handler, stored, published, collected, dropped, timeouts, rollbacks>>

\* MUTANTS: every posted row is acknowledged; the flush stops at a refused row.
RowAnsweredAcks(ok) ==
    [agent EXCEPT !.pc = IF agent.rows = {} THEN "ack" ELSE "flush",
                  !.req = NoRequest, !.acks = @ \cup {agent.row}]

RowAnsweredStops(ok) ==
    [agent EXCEPT !.pc = IF agent.rows = {} \/ ~ok THEN "ack" ELSE "flush",
                  !.req = NoRequest,
                  !.acks = IF ok THEN @ \cup {agent.row} ELSE @]

\* The next row is posted whatever was answered to this one.
RowAnswered(ok) ==
    [agent EXCEPT !.pc = IF agent.rows = {} THEN "ack" ELSE "flush",
                  !.req = NoRequest,
                  !.acks = IF ok THEN @ \cup {agent.row} ELSE @]

\* Any exception ends the round with the current batch in the spool, also one
\* that a row raised after the current batch was accepted.
SpoolCurrent ==
    /\ spool' = spool \cup ({agent.current} \ {NoBatch})
    /\ agent' = IdleAgent

\* What the agent does with the answer to its POST.
Answer(ok) ==
    \/ agent.pc = "sending" /\ ok /\ agent' = BeginFlush /\ UNCHANGED spool
    \/ agent.pc = "sending" /\ ~ok /\ SpoolCurrent
    \/ agent.pc = "flushing" /\ agent' = RowAnswered(ok) /\ UNCHANGED spool

\* The rows that were accepted are deleted, after the last one.
AckRows ==
    /\ agent.pc = "ack"
    /\ spool' = spool \ agent.acks
    /\ agent' = IdleAgent
    /\ UNCHANGED <<handler, stored, published, collected, dropped, timeouts, rollbacks>>

\* The call times out or its answer is lost; its handler runs on.
GiveUp ==
    /\ agent.pc \in {"sending", "flushing"}
    /\ timeouts < MaxTimeouts
    /\ timeouts' = timeouts + 1
    /\ SpoolCurrent
    /\ UNCHANGED <<handler, stored, published, collected, dropped, rollbacks>>

\* The process ends: what it held in memory is gone.
Crash ==
    /\ agent.pc # "down"
    /\ timeouts < MaxTimeouts
    /\ timeouts' = timeouts + 1
    /\ dropped' = dropped \cup ({agent.current} \ {NoBatch})
    /\ agent' = [IdleAgent EXCEPT !.pc = "down"]
    /\ UNCHANGED <<spool, handler, stored, published, collected, rollbacks>>

Restart ==
    /\ agent.pc = "down"
    /\ agent' = IdleAgent
    /\ UNCHANGED <<spool, handler, stored, published, collected, dropped, timeouts, rollbacks>>

-----------------------------------------------------------------------------
(* The control plane. *)

\* MUTANTS: batch_id is not unique; a stored batch is answered with success;
\* the transaction is committed before the events are published.
InsertAgain(r) ==
    LET h == handler[r] IN
    /\ h.pc = "start"
    /\ \A q \in Requests : handler[q].batch = h.batch => handler[q].pc \notin {"publish", "commit"}
    /\ handler' = [handler EXCEPT ![r] = [h EXCEPT !.pc = "publish"]]
    /\ UNCHANGED <<agent, spool, stored, published, collected, dropped, timeouts, rollbacks>>

InsertIdempotent(r) ==
    LET h == handler[r] IN
    /\ h.pc = "start"
    /\ \A q \in Requests : handler[q].batch = h.batch => handler[q].pc \notin {"publish", "commit"}
    /\ handler' = [handler EXCEPT ![r] =
         [h EXCEPT !.pc = IF h.batch \in stored THEN "respond" ELSE "publish"]]
    /\ UNCHANGED <<agent, spool, stored, published, collected, dropped, timeouts, rollbacks>>

InsertCommits(r) ==
    LET h == handler[r] IN
    /\ h.pc = "start"
    /\ \A q \in Requests : handler[q].batch = h.batch => handler[q].pc \notin {"publish", "commit"}
    /\ stored' = stored \cup {h.batch}
    /\ handler' = [handler EXCEPT ![r] =
         IF h.batch \in stored THEN [h EXCEPT !.pc = "respond", !.ok = FALSE]
         ELSE [h EXCEPT !.pc = "publish"]]
    /\ UNCHANGED <<agent, spool, published, collected, dropped, timeouts, rollbacks>>

\* The batch row is flushed first.  Its batch_id is unique: a batch that is
\* stored raises, which nothing catches (500); one that another transaction
\* has inserted and not committed makes this one wait.
Insert(r) ==
    LET h == handler[r] IN
    /\ h.pc = "start"
    /\ \A q \in Requests : handler[q].batch = h.batch => handler[q].pc \notin {"publish", "commit"}
    /\ handler' = [handler EXCEPT ![r] =
         IF h.batch \in stored THEN [h EXCEPT !.pc = "respond", !.ok = FALSE]
         ELSE [h EXCEPT !.pc = "publish"]]
    /\ UNCHANGED <<agent, spool, stored, published, collected, dropped, timeouts, rollbacks>>

\* Each event is published, outside the transaction, as soon as its row is
\* flushed.
PublishEvent(r) ==
    LET h == handler[r] IN
    /\ h.pc = "publish"
    /\ published' = [published EXCEPT ![h.batch][h.next] =
                       IF @ < MaxRollbacks + 2 THEN @ + 1 ELSE @]
    /\ handler' = [handler EXCEPT ![r] =
         [h EXCEPT !.next = @ + 1, !.pc = IF h.next = Events THEN "commit" ELSE "publish"]]
    /\ UNCHANGED <<agent, spool, stored, collected, dropped, timeouts, rollbacks>>

Commit(r) ==
    LET h == handler[r] IN
    /\ h.pc = "commit"
    /\ stored' = stored \cup {h.batch}
    /\ handler' = [handler EXCEPT ![r] = [h EXCEPT !.pc = "respond"]]
    /\ UNCHANGED <<agent, spool, published, collected, dropped, timeouts, rollbacks>>

\* The answer reaches the agent if it still waits for it.
Deliver(r, ok) ==
    IF agent.req = r THEN Answer(ok) ELSE UNCHANGED <<agent, spool>>

Respond(r) ==
    /\ handler[r].pc = "respond"
    /\ Deliver(r, handler[r].ok)
    /\ handler' = [handler EXCEPT ![r] = IdleHandler]
    /\ UNCHANGED <<stored, published, collected, dropped, timeouts, rollbacks>>

\* A locked database, a failing bus or the end of the server rolls the
\* transaction back; the events it published stay.
HandlerFails(r) ==
    /\ handler[r].pc # "idle"
    /\ rollbacks < MaxRollbacks
    /\ rollbacks' = rollbacks + 1
    /\ Deliver(r, FALSE)
    /\ handler' = [handler EXCEPT ![r] = IdleHandler]
    /\ UNCHANGED <<stored, published, collected, dropped, timeouts>>

-----------------------------------------------------------------------------
Serve(r) == Insert(r) \/ PublishEvent(r) \/ Commit(r) \/ Respond(r)

Run ==
    \/ Collect
    \/ CollectMore
    \/ \E r \in Requests : SendCurrent(r) \/ SendRow(r)
    \/ AckRows
    \/ Restart

Next ==
    \/ Run \/ GiveUp \/ Crash
    \/ \E r \in Requests : Serve(r) \/ HandlerFails(r)

Spec == Init /\ [][Next]_vars

FairSpec == Spec /\ WF_vars(Run) /\ \A r \in Requests : WF_vars(Serve(r))

-----------------------------------------------------------------------------
(* Properties. *)

\* Every variable holds what its file, table, thread or process can hold, and a
\* round handles at most Limit rows.
TypeOK ==
    /\ agent \in Agent
    /\ Cardinality(agent.rows \cup agent.acks) <= Limit
    /\ spool \subseteq Batches
    /\ handler \in [Requests -> Handler]
    /\ stored \subseteq Batches
    /\ published \in [Batches -> [1 .. Events -> 0 .. MaxRollbacks + 2]]
    /\ collected \in 0 .. MaxBatches
    /\ dropped \subseteq Batches
    /\ timeouts \in 0 .. MaxTimeouts
    /\ rollbacks \in 0 .. MaxRollbacks

\* Whatever calls time out, in whatever order their handlers end and whoever
\* crashes: a collected batch is stored, or has a row in the spool, or is the
\* one the agent holds, or was held by an agent that crashed.
NothingIsLost ==
    \A b \in 1 .. collected :
        b \in stored \/ b \in spool \/ b = agent.current \/ b \in dropped

Held == spool \cup ({agent.current} \ {NoBatch})

Heard == {b \in Batches : \A e \in 1 .. Events : published[b][e] > 0}

Channel == INSTANCE AtLeastOnce WITH
    sent <- 1 .. collected, held <- Held, heard <- Heard,
    delivered <- stored, lost <- dropped

\* Between spool and tables, timeouts, late handlers, refused rows, rollbacks
\* and crashes amount to an at-least-once channel: only a crash makes the agent
\* let go of a batch that is not stored, and no batch is stored before all its
\* events are on the stream.
DeliversAtLeastOnce == Channel!Spec

\* An event is on the stream a second time only because a transaction that had
\* published it was rolled back: calls given up, retries of accepted batches and
\* crashes of the agent publish nothing twice.
RepublishNeedsRollback ==
    \A b \in Batches, e \in 1 .. Events : published[b][e] <= 1 + rollbacks

\* The row of a stored batch whose success the agent neither knows nor is
\* about to be told.
Stuck(b) ==
    /\ b \in spool /\ b \in stored
    /\ b \notin agent.acks
    /\ \A r \in Requests :
          handler[r].batch = b /\ handler[r].pc = "respond" /\ handler[r].ok
             => agent.req # r

\* What a lost answer costs: the row of a batch that was stored without the
\* agent knowing is never deleted, because every further POST of it is refused
\* (unique batch_id, uncaught IntegrityError) and only success is acknowledged.
\* It stays, and stays unknown, whatever rounds, retries and crashes follow.
StuckIsForever ==
    [][\A b \in Batches : Stuck(b) => Stuck(b)']_vars

\* A batch among the first rows of the spool is stored in the end: refused rows
\* before it do not stop the round.  (Behind Limit stuck rows it never is.)
FirstRowsAreStored ==
    \A b \in Batches : (b \in FirstRows) ~> (b \in stored)

=============================================================================
