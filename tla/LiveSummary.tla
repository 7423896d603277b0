---------------------------- MODULE LiveSummary ----------------------------
(***************************************************************************)
(* The process of the Flask application around its node registry: the      *)
(* requests, the start of the background services by the first of them,    *)
(* the sampler thread, and the cache the live summary is answered from.    *)
(*                                                                         *)
(* Every thread uses ClusterRegistry's operations as its own session; each *)
(* statement of theirs is a step, and so is each access to memory that     *)
(* other threads write.  What a pass of the sampler does to incidents and  *)
(* actions is MonitorLoop's subject: here it is a new snapshot in the      *)
(* history, the update of the local node and the clearing of the cache,    *)
(* and it may fail in between.                                             *)
(***************************************************************************)
EXTENDS ClusterRegistry

CONSTANTS
    Requests,     \* request threads
    Sampler,      \* the sampler thread
    NoRequest,
    Modes,        \* autonomy modes
    DefaultMode,  \* AUTONOMY_MODE
    CacheTTL      \* API_CACHE_TTL_SECONDS

ASSUME SummaryAssumption ==
    /\ Sampler \notin Requests /\ Sessions = Requests \cup {Sampler}
    /\ NoRequest \notin Requests
    /\ DefaultMode \in Modes /\ "unset" \notin Modes
    /\ CacheTTL \in Nat

VARIABLES
    background,  \* the configuration and the environment let the start make a sampler
    lock,      \* the request that holds startup_lock
    started,   \* runtime_manager.started
    sampling,  \* the service of the runtime manager has a sampler thread
    samplers,  \* sampler threads alive, those of earlier services included
    pass,      \* what the sampler is about to do
    cache,     \* the entry of the live summary in api_cache
    req,       \* what each request is about to do
    mode       \* autonomy_mode in table app_settings

vars == <<registryVars, background, lock, started, sampling, samplers, pass, cache, req, mode>>

-----------------------------------------------------------------------------
\* A summary: the mode it shows, and whether its snapshot has been superseded
\* in the history since it was read.
Summary == [mode: Modes \cup {"unset"}, old: BOOLEAN]

Fresh == [mode |-> "unset", old |-> FALSE]

NoEntry == [full |-> FALSE, age |-> 0, value |-> Fresh]

Request == [pc: {"idle", "wait", "create", "ensure", "spawn", "ready",
                 "overview", "store", "beat"},
            value: Summary]

IdleRequest == [pc |-> "idle", value |-> Fresh]

\* A new process has started nothing yet.
Init ==
    /\ InitRegistry
    /\ background \in BOOLEAN
    /\ lock = NoRequest
    /\ started = FALSE
    /\ sampling = FALSE
    /\ samplers = 0
    /\ pass = "off"
    /\ cache = NoEntry
    /\ req = [r \in Requests |-> IdleRequest]
    /\ mode = "unset"

Goto(r, pc) == req' = [req EXCEPT ![r].pc = pc]

-----------------------------------------------------------------------------
(* The start of the services (before_request, RuntimeManager.start). *)

\* The flag is read without the lock.
Arrive(r) ==
    /\ req[r].pc = "idle"
    /\ Goto(r, IF started THEN "ready" ELSE "wait")
    /\ UNCHANGED <<registryVars, background, lock, started, sampling, samplers,
                   pass, cache, mode>>

\* Under the lock it is read again.
Acquire(r) ==
    /\ req[r].pc = "wait"
    /\ lock = NoRequest
    /\ IF started THEN Goto(r, "ready") /\ UNCHANGED lock
                  ELSE Goto(r, "create") /\ lock' = r
    /\ UNCHANGED <<registryVars, background, started, sampling, samplers, pass,
                   cache, mode>>

\* MUTANT: the sampler is started with the service it belongs to.
CreateAndSpawn(r) ==
    /\ req[r].pc = "create"
    /\ sampling' = TRUE
    /\ samplers' = samplers + 1
    /\ pass' = "sample"
    /\ cache' = NoEntry
    /\ Goto(r, "ensure")
    /\ EnsureLocalNode(r)
    /\ UNCHANGED <<row, raced, told, background, lock, started, mode>>

\* The services are created anew, whatever an earlier attempt has left, and the
\* local node is looked up.
CreateServices(r) ==
    /\ req[r].pc = "create"
    /\ sampling' = FALSE
    /\ cache' = NoEntry
    /\ Goto(r, "ensure")
    /\ EnsureLocalNode(r)
    /\ UNCHANGED <<row, raced, told, background, lock, started, samplers, pass,
                   mode>>

\* The mode of an earlier run stays.
InitializeDefaults(r) ==
    /\ req[r].pc = "ensure" /\ op[r].pc = "done"
    /\ Finish(r)
    /\ mode' = IF mode = "unset" THEN DefaultMode ELSE mode
    /\ Goto(r, "spawn")
    /\ UNCHANGED <<row, raced, told, background, lock, started, sampling,
                   samplers, pass, cache>>

\* The sampler thread is started unless the service has one, is not to have one
\* (START_BACKGROUND_SAMPLER) or the application is in debug mode and not the
\* reloader's child; whichever it is, the services are marked started.
StartSampler(r) ==
    /\ req[r].pc = "spawn"
    /\ IF background /\ ~sampling
       THEN sampling' = TRUE /\ samplers' = samplers + 1 /\ pass' = "sample"
       ELSE UNCHANGED <<sampling, samplers, pass>>
    /\ started' = TRUE
    /\ lock' = NoRequest
    /\ Goto(r, "ready")
    /\ UNCHANGED <<registryVars, background, cache, mode>>

\* An exception leaves the services as they are, not started; the lock is
\* released and the request answered with 500.
StartFails(r) ==
    /\ req[r].pc = "ensure" /\ op[r].pc \in {"done", "failed"}
    /\ Finish(r)
    /\ lock' = NoRequest
    /\ Goto(r, "idle")
    /\ UNCHANGED <<row, raced, told, background, started, sampling, samplers,
                   pass, cache, mode>>

-----------------------------------------------------------------------------
(* The live summary. *)

\* MUTANTS: the age of the entry is not looked at; it is one tick too late.
AgedForEver(entry) == [entry EXCEPT !.age = Older(@, CacheTTL)]

AgedTooLate(entry) ==
    IF ~entry.full \/ entry.age > CacheTTL THEN NoEntry
    ELSE [entry EXCEPT !.age = @ + 1]

\* The entry some time later.  Lookups ignore one that is older than the TTL:
\* it is as good as gone.
Aged(entry) ==
    IF ~entry.full \/ entry.age = CacheTTL THEN NoEntry
    ELSE [entry EXCEPT !.age = @ + 1]

\* A lookup that finds no entry to serve runs the loader, which takes the last
\* snapshot of the history.
Lookup(r) ==
    /\ req[r].pc = "ready"
    /\ \/ cache.full /\ req' = [req EXCEPT ![r] = IdleRequest] /\ UNCHANGED op
       \/ /\ ~cache.full
          /\ req' = [req EXCEPT ![r] = [pc |-> "overview", value |-> Fresh]]
          /\ StartReading(r, 2)
    /\ UNCHANGED <<row, raced, told, background, lock, started, sampling,
                   samplers, pass, cache, mode>>

\* After the overview, whose nodes it embeds, the mode is read.
ReadMode(r) ==
    /\ req[r].pc = "overview" /\ op[r].pc = "done"
    /\ Finish(r)
    /\ req' = [req EXCEPT ![r].pc = "store", ![r].value.mode = mode]
    /\ UNCHANGED <<row, raced, told, background, lock, started, sampling,
                   samplers, pass, cache, mode>>

\* The value is stored with the time of now, whatever was cleared or stored
\* since its parts were read, and is the answer.
Store(r) ==
    /\ req[r].pc = "store"
    /\ cache' = [full |-> TRUE, age |-> 0, value |-> req[r].value]
    /\ req' = [req EXCEPT ![r] = IdleRequest]
    /\ UNCHANGED <<registryVars, background, lock, started, sampling, samplers,
                   pass, mode>>

\* The overview raised: the request is answered with 500.
SummaryFails(r) ==
    /\ req[r].pc = "overview" /\ op[r].pc = "failed"
    /\ Finish(r)
    /\ req' = [req EXCEPT ![r] = IdleRequest]
    /\ UNCHANGED <<row, raced, told, background, lock, started, sampling,
                   samplers, pass, cache, mode>>

\* POST /autonomy/mode: the row is updated and no entry of the cache removed.
SetAutonomyMode(r) ==
    /\ req[r].pc = "ready"
    /\ mode' \in Modes
    /\ Goto(r, "idle")
    /\ UNCHANGED <<registryVars, background, lock, started, sampling, samplers,
                   pass, cache>>

\* POST /cluster/nodes/heartbeat: whoever calls it chooses node and status.
Beat(r) ==
    /\ req[r].pc = "ready"
    /\ \E n \in Nodes, status \in Reported : HeartbeatLoad(r, n, status)
    /\ Goto(r, "beat")
    /\ UNCHANGED <<row, raced, told, background, lock, started, sampling,
                   samplers, pass, cache, mode>>

BeatAnswered(r) ==
    /\ req[r].pc = "beat" /\ op[r].pc \in {"done", "failed"}
    /\ Finish(r)
    /\ Goto(r, "idle")
    /\ UNCHANGED <<row, raced, told, background, lock, started, sampling,
                   samplers, pass, cache, mode>>

-----------------------------------------------------------------------------
(* The sampler. *)

\* A pass takes a snapshot and appends it to the history; what the cache and
\* the loaders hold is superseded.
RecordSnapshot ==
    /\ pass = "sample"
    /\ pass' = "node"
    /\ cache' = [cache EXCEPT !.value.old = cache.full]
    /\ req' = [r \in Requests |-> IF req[r].pc \in {"overview", "store"}
                                  THEN [req[r] EXCEPT !.value.old = TRUE] ELSE req[r]]
    /\ UNCHANGED <<registryVars, background, lock, started, sampling, samplers,
                   mode>>

UpdateLocalNode ==
    /\ pass = "node"
    /\ pass' = "updating"
    /\ HeartbeatLoad(Sampler, LocalNode, "online")
    /\ UNCHANGED <<row, raced, told, background, lock, started, sampling,
                   samplers, cache, req, mode>>

\* The last statement of the pass.
ClearCache ==
    /\ pass = "updating" /\ op[Sampler].pc = "done"
    /\ Finish(Sampler)
    /\ pass' = "sample"
    /\ cache' = NoEntry
    /\ UNCHANGED <<row, raced, told, background, lock, started, sampling,
                   samplers, req, mode>>

\* Any exception ends the pass, before the cache is cleared.
PassFails ==
    /\ \/ pass \in {"sample", "node"}
       \/ pass = "updating" /\ op[Sampler].pc \in {"done", "failed"}
    /\ Finish(Sampler)
    /\ pass' = "sample"
    /\ UNCHANGED <<row, raced, told, background, lock, started, sampling,
                   samplers, cache, req, mode>>

-----------------------------------------------------------------------------
\* The statements of the operation a thread runs.
Statement(s) ==
    /\ Operate(s)
    /\ UNCHANGED <<background, lock, started, sampling, samplers, pass, cache,
                   req, mode>>

Tick ==
    /\ Age
    /\ cache' = Aged(cache)
    /\ UNCHANGED <<background, lock, started, sampling, samplers, pass, req,
                   mode>>

\* The worker is killed and its successor starts with the tables as they are.
Restart ==
    /\ lock' = NoRequest
    /\ started' = FALSE
    /\ sampling' = FALSE
    /\ samplers' = 0
    /\ pass' = "off"
    /\ cache' = NoEntry
    /\ req' = [r \in Requests |-> IdleRequest]
    /\ op' = [s \in Sessions |-> NoOperation]
    /\ background' \in BOOLEAN
    /\ UNCHANGED <<row, raced, told, mode>>

Serve(r) ==
    \/ Acquire(r) \/ CreateServices(r) \/ InitializeDefaults(r)
    \/ StartSampler(r) \/ StartFails(r)
    \/ Lookup(r) \/ ReadMode(r) \/ Store(r)
    \/ SummaryFails(r) \/ SetAutonomyMode(r)
    \/ Beat(r) \/ BeatAnswered(r)
    \/ Statement(r)

Sample ==
    \/ RecordSnapshot \/ UpdateLocalNode \/ ClearCache \/ PassFails
    \/ Statement(Sampler)

Next ==
    \/ \E r \in Requests : Arrive(r) \/ Serve(r)
    \/ Sample
    \/ Tick
    \/ Restart

Spec == Init /\ [][Next]_vars

\* Time passes and a request that was accepted is worked on.  Nobody has to
\* send one, and no pass of the sampler has to succeed.
Fairness == WF_vars(Tick) /\ \A r \in Requests : WF_vars(Serve(r))

FairSpec == Spec /\ Fairness

-----------------------------------------------------------------------------
(* Properties. *)

\* Every variable holds what its table, lock, thread or cache can hold.
TypeOK ==
    /\ RegistryTypeOK
    /\ lock \in Requests \cup {NoRequest}
    /\ background \in BOOLEAN
    /\ started \in BOOLEAN
    /\ sampling \in BOOLEAN
    /\ samplers \in Nat
    /\ pass \in {"off", "sample", "node", "updating"}
    /\ cache \in [full: BOOLEAN, age: 0 .. CacheTTL, value: Summary]
    /\ req \in [Requests -> Request]
    /\ mode \in Modes \cup {"unset"}

\* However many first requests overlap, and however often the start fails half
\* way and is done again: one sampler at most runs, it feeds the services that
\* requests read, and a started process has its local node, a mode, and a sampler
\* exactly if it is to have one: the start is over, and no later request repeats
\* it for a process that was not to have one.
OneSampler ==
    /\ samplers = IF sampling THEN 1 ELSE 0
    /\ started => (sampling <=> background) /\ row[LocalNode].status # "absent" /\ mode # "unset"

\* A loader that the sampler or a change of mode overtakes stores its answer
\* all the same, and a failing pass clears nothing; still no superseded
\* snapshot, and no mode other than the one that is set, is served for ever.
AnswersCatchUp ==
    /\ []<>~cache.value.old
    /\ \A m \in Modes : <>[](mode = m) => <>[](cache.full => cache.value.mode = m)

=============================================================================
