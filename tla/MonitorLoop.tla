---------------------------- MODULE MonitorLoop ----------------------------
(***************************************************************************)
(* The sampler thread of the Flask monolith.  Every pass takes a snapshot, *)
(* groups its alerts into incidents, evaluates the healing policies, takes *)
(* a decision, evaluates the policies again and gives the second result to *)
(* the decision, records the actions, validates those of earlier passes,   *)
(* resolves incidents that recovered and prunes old rows.  An exception at *)
(* any point ends the pass; what was committed before stays.               *)
(*                                                                         *)
(* A policy acts while it is evaluated: evaluation and execution are one   *)
(* call in the code.  An action takes any time, the cooldown counts from   *)
(* its beginning.  Meanwhile an operator may change the autonomy mode.     *)
(* All passes of a behaviour lie within one hour, so that the count of     *)
(* recent actions only grows.  The rows written for the dashboard alone    *)
(* (metrics, alerts, actions, recommendations) are not state of the model: *)
(* writing them is one of the places where an exception may arise.         *)
(***************************************************************************)
EXTENDS Integers, FiniteSets

CONSTANTS
    Keys,           \* incident keys, "metric:severity"
    Kinds,          \* the action types of the policies, in the file's order
    Confirmed,      \* policies an operator would have to confirm
    DryRun,         \* HEALING_DRY_RUN, or self-healing disabled
    Webhooks,       \* ALLOW_WEBHOOKS and EXTERNAL_WEBHOOK_URL
    Cooldown,       \* HEALING_COOLDOWN_SECONDS in ticks
    MaxActions,     \* MAX_AUTONOMOUS_ACTIONS_PER_HOUR
    Modes,          \* the autonomy modes operators choose
    MaxPasses,      \* bound: passes of the loop
    MaxFaults       \* bound: exceptions

Policies == DOMAIN Kinds

ASSUME MonitorAssumption ==
    /\ IsFiniteSet(Policies)
    /\ \A p \in Policies : p \in Nat
    /\ \A p \in Policies : Kinds[p] \in {"kill_process", "clear_temp", "webhook_trigger",
                                         "recommend_manual_action", "other"}
    /\ Confirmed \subseteq Policies
    /\ DryRun \in BOOLEAN /\ Webhooks \in BOOLEAN
    /\ "assisted" \in Modes /\ Modes \subseteq {"manual", "assisted", "autonomous"}
    /\ Cooldown \in Nat \ {0}
    /\ MaxActions \in Nat \ {0}
    /\ MaxPasses \in Nat /\ MaxFaults \in Nat

VARIABLES
    pc,          \* where the pass is
    sample,      \* what the snapshot and its analysis amount to
    pass,        \* the locals of the pass
    incidents,   \* status of each key's row in incidents
    mode,        \* the autonomy mode
    cooling,     \* ticks until last_action_at is a cooldown ago
    counted,     \* actions in action_cache that the hourly count sees
    pending,     \* those of them waiting in _pending_validations
    validated,   \* those with a feedback record
    acted,       \* history: kills and removals begun in this pass
    elapsed,     \* history: ticks of this pass since the first of them
    passes,      \* history: passes begun
    faults,      \* history: exceptions
    enforced     \* the database checks foreign keys

vars == <<pc, sample, pass, incidents, mode, cooling, counted, pending, validated,
          acted, elapsed, passes, faults, enforced>>

-----------------------------------------------------------------------------
\* alerts: keys with an alert; hot: policies whose metric is over the policy's
\* threshold; the rest compares the analysis with the thresholds of the
\* decision and of recovery.  grave: risk and safety allow an automatic action,
\* the count of recent actions left aside.
Samples == [alerts : SUBSET Keys, hot : SUBSET Policies, anomalous : BOOLEAN,
            confident : BOOLEAN, grave : BOOLEAN, healthy : BOOLEAN]

NoSample == [alerts |-> {}, hot |-> {}, anomalous |-> FALSE, confident |-> FALSE,
             grave |-> FALSE, healthy |-> FALSE]

Decisions == {"none", "do_nothing", "alert_only", "recommend_action", "auto_heal"}

\* todo: hot policies the current evaluation has yet to apply; found, done: it
\* returned an action, and how many completed or simulated ones; spent: ticks
\* since the current action began; fresh: counted actions of this pass.
NoPass == [todo |-> {}, found |-> FALSE, done |-> 0, spent |-> 0,
           decision |-> "none", fresh |-> {}]

\* A pass hands on at most one counted action per policy.
MaxCounted == MaxPasses * Cardinality(Policies)

Init ==
    /\ pc = "sleep"
    /\ sample = NoSample
    /\ pass = NoPass
    /\ incidents = [k \in Keys |-> "absent"]
    /\ mode = "assisted"
    /\ cooling = 0
    /\ counted = 0
    /\ pending = {}
    /\ validated = {}
    /\ acted = 0
    /\ elapsed = 0
    /\ passes = 0
    /\ faults = 0
    /\ enforced \in BOOLEAN

feedback == <<counted, pending, validated>>
history == <<acted, elapsed, passes, faults>>

-----------------------------------------------------------------------------
\* Time passes, at any point and as often as it likes.  A tick after which
\* nothing would be different is none, so elapsed may count less than passed.
Tick ==
    /\ \/ /\ pc = "act"
          /\ pass.spent < Cooldown
          /\ pass' = [pass EXCEPT !.spent = @ + 1]
          /\ UNCHANGED cooling
       \/ /\ pc # "act"
          /\ cooling > 0
          /\ cooling' = cooling - 1
          /\ UNCHANGED pass
    /\ elapsed' = IF pc = "sleep" \/ acted = 0 THEN elapsed ELSE elapsed + 1
    /\ UNCHANGED <<pc, sample, incidents, mode, feedback, acted, passes, faults, enforced>>

\* POST /autonomy/mode.
SetAutonomyMode(m) ==
    /\ mode' = m
    /\ UNCHANGED <<pc, sample, pass, incidents, cooling, feedback, history, enforced>>

\* The snapshot is taken, analysed and put into the history.
Sample ==
    /\ pc = "sleep"
    /\ passes < MaxPasses
    /\ passes' = passes + 1
    /\ sample' \in Samples
    /\ pass' = NoPass
    /\ acted' = 0
    /\ elapsed' = 0
    /\ pc' = "upsert"
    /\ UNCHANGED <<incidents, mode, cooling, feedback, faults, enforced>>

\* The pass is over and its locals are gone.
EndPass ==
    /\ pc' = "sleep"
    /\ pass' = NoPass

\* An exception ends the pass; the session is removed with the app context.
Abort ==
    /\ EndPass
    /\ UNCHANGED <<sample, mode, acted, elapsed, passes, enforced>>

\* MUTANT: the results are added to the list of the evaluation before.
NewEvaluationAppends(locals) == [locals EXCEPT !.todo = sample.hot]

\* An evaluation begins, with an empty list of results.
NewEvaluation(locals) ==
    [locals EXCEPT !.todo = sample.hot, !.found = FALSE, !.done = 0]

-----------------------------------------------------------------------------
(* Incidents. *)

\* An unresolved row is refreshed; else a row is inserted, which a resolved one
\* with the same key forbids: incident_key is unique.
UpsertIncidents ==
    /\ pc = "upsert"
    /\ \A k \in sample.alerts : incidents[k] # "resolved"
    /\ incidents' = [k \in Keys |-> IF k \in sample.alerts THEN "detected" ELSE incidents[k]]
    /\ pc' = "evaluate"
    /\ pass' = NewEvaluation(pass)
    /\ UNCHANGED <<sample, mode, cooling, feedback, history, enforced>>

UpsertConflicts ==
    /\ pc = "upsert"
    /\ \E k \in sample.alerts : incidents[k] = "resolved"
    /\ Abort
    /\ UNCHANGED <<incidents, cooling, feedback, faults>>

\* MUTANT: health is not looked at.
ResolveAnyway ==
    /\ pc = "resolve"
    /\ incidents' = [k \in Keys |-> IF incidents[k] = "detected" /\ k \notin sample.alerts
                                    THEN "resolved" ELSE incidents[k]]
    /\ pc' = "prune"
    /\ UNCHANGED <<sample, pass, mode, cooling, feedback, history, enforced>>

\* MUTANT: keys with an alert are not left out.
ResolveAlerted ==
    /\ pc = "resolve"
    /\ incidents' = [k \in Keys |-> IF incidents[k] = "detected" /\ sample.healthy
                                    THEN "resolved" ELSE incidents[k]]
    /\ pc' = "prune"
    /\ UNCHANGED <<sample, pass, mode, cooling, feedback, history, enforced>>

ResolveIfRecovered ==
    /\ pc = "resolve"
    /\ incidents' = [k \in Keys |->
           IF incidents[k] = "detected" /\ k \notin sample.alerts /\ sample.healthy
           THEN "resolved" ELSE incidents[k]]
    /\ pc' = "prune"
    /\ UNCHANGED <<sample, pass, mode, cooling, feedback, history, enforced>>

\* Resolved rows older than the retention are deleted.  The incident_events of
\* each stay: a database that checks foreign keys refuses the deletion.
PruneRetention ==
    /\ pc = "prune"
    /\ \E old \in SUBSET {k \in Keys : incidents[k] = "resolved"} :
         /\ enforced => old = {}
         /\ incidents' = [k \in Keys |-> IF k \in old THEN "absent" ELSE incidents[k]]
    /\ EndPass
    /\ UNCHANGED <<sample, mode, cooling, feedback, history, enforced>>

\* The exception ends this pass, and each later one that gets so far.
PruneConflicts ==
    /\ pc = "prune"
    /\ enforced
    /\ \E k \in Keys : incidents[k] = "resolved"
    /\ Abort
    /\ UNCHANGED <<incidents, cooling, feedback, faults>>

-----------------------------------------------------------------------------
(* Healing. *)

\* The policy whose turn it is, in the file's order.
Current == CHOOSE p \in pass.todo : \A q \in pass.todo : p <= q

\* Policies whose evaluation terminates a process or clears the directory.
Armed == {p \in Policies \ Confirmed : ~DryRun /\ Kinds[p] \in {"kill_process", "clear_temp"}}

\* What a policy may come to at once.  "none": there is no process to kill.
Outcomes(p) ==
    LET careful == IF p \in Confirmed THEN {"awaiting_confirmation"}
                   ELSE IF DryRun THEN {"simulated"} ELSE {} IN
    CASE cooling > 0 -> {"rate_limited"}
      [] cooling = 0 /\ Kinds[p] = "kill_process" -> {"none", "blocked"} \cup careful
      [] cooling = 0 /\ Kinds[p] = "clear_temp" -> careful
      [] cooling = 0 /\ Kinds[p] = "recommend_manual_action" -> {"recommendation_only"}
      [] cooling = 0 /\ Kinds[p] = "webhook_trigger" ->
           {IF ~Webhooks THEN "blocked" ELSE IF DryRun THEN "simulated" ELSE "completed"}
      [] cooling = 0 /\ Kinds[p] = "other" -> {"ignored"}

\* What an action may come to once it is over.
Results(p) == IF Kinds[p] = "kill_process" THEN {"completed", "failed"} ELSE {"completed"}

\* MUTANT: an action that completes does not start the cooldown.
StartsUnlessCompleted(status) == status \in {"failed", "simulated", "recommendation_only"}

\* The statuses of actions that set last_action_at.
Starts(status) == status \in {"completed", "failed", "simulated", "recommendation_only"}

\* last_action_at is the time at which the policy's turn came, ago ticks ago.
CoolingAfter(status, ago) == IF Starts(status) THEN Cooldown - ago ELSE cooling

\* The current policy came to that status and the next one is up.
Returned(status) ==
    [pass EXCEPT !.todo = pass.todo \ {Current}, !.spent = 0,
                 !.found = pass.found \/ status # "none",
                 !.done = IF status \in {"completed", "simulated"} THEN pass.done + 1
                          ELSE pass.done]

\* A policy that leaves the host as it is.
ApplyPolicy ==
    /\ pc \in {"evaluate", "execute"}
    /\ pass.todo # {}
    /\ \E status \in Outcomes(Current) :
         /\ pass' = Returned(status)
         /\ cooling' = CoolingAfter(status, 0)
    /\ UNCHANGED <<pc, sample, incidents, mode, feedback, history, enforced>>

\* A kill or a removal begins; it takes as long as it takes.
BeginAction ==
    /\ pc \in {"evaluate", "execute"}
    /\ pass.todo # {}
    /\ Current \in Armed
    /\ cooling = 0
    /\ pc' = "act"
    /\ acted' = acted + 1
    /\ elapsed' = IF acted = 0 THEN 0 ELSE elapsed
    /\ UNCHANGED <<sample, pass, incidents, mode, cooling, feedback, passes, faults, enforced>>

EndAction ==
    /\ pc = "act"
    /\ pc' = IF pass.decision = "none" THEN "evaluate" ELSE "execute"
    /\ \E status \in Results(Current) :
         /\ pass' = Returned(status)
         /\ cooling' = CoolingAfter(status, pass.spent)
    /\ UNCHANGED <<sample, incidents, mode, feedback, history, enforced>>

\* A temp item cannot be removed, after others were: no cooldown is started.
ActionRaises ==
    /\ pc = "act"
    /\ Kinds[Current] = "clear_temp"
    /\ faults < MaxFaults
    /\ faults' = faults + 1
    /\ Abort
    /\ UNCHANGED <<incidents, cooling, feedback>>

\* The last rule that applies wins; of the first evaluation only whether it
\* returned an action is used.
Decision ==
    IF /\ mode = "autonomous"
       /\ sample.alerts # {} /\ pass.found /\ sample.confident
       /\ sample.grave /\ counted < MaxActions
    THEN "auto_heal"
    ELSE IF sample.alerts # {} /\ pass.found /\ sample.confident THEN "recommend_action"
    ELSE IF sample.alerts # {} /\ sample.anomalous THEN "alert_only"
    ELSE "do_nothing"

\* After the first evaluation the decision is taken and the second one begins.
Decide ==
    /\ pc = "evaluate"
    /\ pass.todo = {}
    /\ pass' = NewEvaluation([pass EXCEPT !.decision = Decision])
    /\ pc' = "execute"
    /\ UNCHANGED <<sample, incidents, mode, cooling, feedback, history, enforced>>

\* The counted actions the decision makes of the second evaluation: each keeps
\* its status, or the first is relabelled, or they are dropped.
NewlyCounted ==
    CASE pass.decision = "auto_heal" -> pass.done
      [] pass.decision = "recommend_action" -> IF pass.found THEN 1 ELSE 0
      [] pass.decision \notin {"auto_heal", "recommend_action"} -> 0

\* execute_candidates with the second evaluation, and _record_actions.
Execute ==
    /\ pc = "execute"
    /\ pass.todo = {}
    /\ counted' = counted + NewlyCounted
    /\ pass' = [pass EXCEPT !.fresh = counted + 1 .. counted + NewlyCounted]
    /\ pc' = "persist"
    /\ UNCHANGED <<sample, incidents, mode, cooling, pending, validated, history, enforced>>

-----------------------------------------------------------------------------
(* Feedback. *)

\* The rows are written, the node's snapshot updated, the counted actions queued.
Persist ==
    /\ pc = "persist"
    /\ pending' = pending \cup pass.fresh
    /\ pc' = "validate"
    /\ UNCHANGED <<sample, pass, incidents, mode, cooling, counted, validated, history, enforced>>

\* Actions of earlier passes that have waited long enough leave the queue and
\* get a feedback record each.
ValidatePrevious ==
    /\ pc = "validate"
    /\ \E ready \in SUBSET (pending \ pass.fresh) :
         /\ pending' = pending \ ready
         /\ validated' = validated \cup ready
    /\ pc' = "resolve"
    /\ UNCHANGED <<sample, pass, incidents, mode, cooling, counted, history, enforced>>

\* MUTANT: what was ready stays in the queue until all records are written.
ValidationFailsQueued ==
    /\ pc = "validate"
    /\ faults < MaxFaults
    /\ faults' = faults + 1
    /\ \E ready \in SUBSET (pending \ pass.fresh) : \E done \in SUBSET ready :
         validated' = validated \cup done
    /\ Abort
    /\ UNCHANGED <<incidents, cooling, counted, pending>>

\* One record cannot be written: those after it have left the queue already.
ValidationFails ==
    /\ pc = "validate"
    /\ faults < MaxFaults
    /\ faults' = faults + 1
    /\ \E ready \in SUBSET (pending \ pass.fresh) : \E done \in SUBSET ready \ {ready} :
         /\ pending' = pending \ ready
         /\ validated' = validated \cup done
    /\ Abort
    /\ UNCHANGED <<incidents, cooling, counted>>

-----------------------------------------------------------------------------
\* Any other exception: a database that is locked, a policy file that cannot be
\* parsed, a model that cannot be fitted.
Fails ==
    /\ pc \notin {"sleep", "act", "validate"}
    /\ faults < MaxFaults
    /\ faults' = faults + 1
    /\ Abort
    /\ UNCHANGED <<incidents, cooling, feedback>>

Next ==
    \/ Sample \/ UpsertIncidents \/ UpsertConflicts
    \/ ApplyPolicy \/ BeginAction \/ EndAction \/ ActionRaises
    \/ Decide \/ Execute
    \/ Persist \/ ValidatePrevious \/ ValidationFails
    \/ ResolveIfRecovered \/ PruneRetention \/ PruneConflicts
    \/ Fails \/ Tick
    \/ \E m \in Modes : SetAutonomyMode(m)

Spec == Init /\ [][Next]_vars

-----------------------------------------------------------------------------
(* Properties. *)

\* Every variable holds what its table, cache or local can hold.
TypeOK ==
    /\ pc \in {"sleep", "upsert", "evaluate", "act", "execute", "persist",
               "validate", "resolve", "prune"}
    /\ sample \in Samples
    /\ pass \in [todo : SUBSET Policies, found : BOOLEAN, done : 0 .. Cardinality(Policies),
                 spent : 0 .. Cooldown, decision : Decisions, fresh : SUBSET (1 .. MaxCounted)]
    /\ incidents \in [Keys -> {"absent", "detected", "resolved"}]
    /\ mode \in Modes
    /\ cooling \in 0 .. Cooldown
    /\ counted \in 0 .. MaxCounted
    /\ pending \subseteq 1 .. counted
    /\ validated \subseteq 1 .. counted
    /\ acted \in Nat /\ elapsed \in Nat
    /\ passes \in 0 .. MaxPasses
    /\ faults \in 0 .. MaxFaults
    /\ enforced \in BOOLEAN

\* Although the policies are evaluated twice in a pass, several may be hot, each
\* action takes any time and any may fail or raise, no two actions begin within
\* one cooldown: n + 1 of them in a pass need n cooldowns from the first's start.
OneActionPerCooldown == (acted - 1) * Cooldown <= elapsed

\* The feedback of an action is recorded at most once, and only an exception
\* keeps an action of the hourly count from being validated or queued for it.
FeedbackIsKept ==
    /\ pending \cap validated = {}
    /\ faults = 0 /\ pc # "persist" => pending \cup validated = 1 .. counted

\* A pass that came to its end leaves an open incident for each key with an
\* alert, and, on a healthy host, for no other; on another host it closes none.
PassSettlesIncidents ==
    pc = "prune" =>
        /\ \A k \in sample.alerts : incidents[k] = "detected"
        /\ sample.healthy => \A k \in Keys : incidents[k] = "detected" => k \in sample.alerts

\* An incident is closed only by a healthy pass without an alert for its key,
\* however the mode changes and whatever raises; a closed one is not reopened.
ClosedInHealth ==
    [][\A k \in Keys :
         /\ incidents[k] = "detected" /\ incidents'[k] # "detected"
              => sample.healthy /\ k \notin sample.alerts /\ incidents'[k] = "resolved"
         /\ incidents[k] = "resolved" => incidents'[k] # "detected"]_vars

\* The documented promise that alerts are grouped into incidents: a pass that
\* met no fault in its surroundings leaves an open incident for every alert.
AlertHasIncident ==
    pc = "sleep" /\ faults = 0 => \A k \in sample.alerts : incidents[k] = "detected"

\* Evaluation proposes candidates; the host is changed only in passes that
\* decide to.
ActedWasDecided ==
    pc \in {"execute", "persist", "validate", "resolve", "prune"} /\ acted > 0
        => pass.decision = "auto_heal"

=============================================================================
