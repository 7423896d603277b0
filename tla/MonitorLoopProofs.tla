------------------------- MODULE MonitorLoopProofs -------------------------
(***************************************************************************)
(* Theorems about MonitorLoop, for every set of incident keys, every list  *)
(* of policies and every bound.                                            *)
(*                                                                         *)
(* What a pass guarantees when it ends rests on what it carries from one   *)
(* of its steps to the next: MonitorInv says what that is.                 *)
(***************************************************************************)
EXTENDS MonitorLoop, FiniteSetTheorems, TLAPS

USE MonitorAssumption DEF MonitorAssumption, feedback, history

\* The locals of a pass.
Locals == [todo : SUBSET Policies, found : BOOLEAN, done : 0 .. Cardinality(Policies),
           spent : 0 .. Cooldown, decision : Decisions, fresh : SUBSET (1 .. MaxCounted)]

\* The steps of a pass until its second evaluation is over.
Evaluating == {"upsert", "evaluate", "act", "execute"}

\* Passes that have had their second evaluation.
Evaluated == IF pc \in Evaluating THEN passes - 1 ELSE passes

\* A pass hands on at most one counted action per policy.
CountFits == counted <= Evaluated * Cardinality(Policies)

\* Within a pass the actions begun have used up their cooldowns, the last one's
\* but for what is left of it, or, while it lasts, for what it has yet to take.
CooldownHolds ==
    /\ OneActionPerCooldown
    /\ pc = "act" => acted > 0 /\ cooling = 0 /\ (acted - 1) * Cooldown + pass.spent <= elapsed
    /\ pc \notin {"act", "sleep"} /\ acted > 0 => acted * Cooldown <= elapsed + cooling

\* A policy that is still to come has returned nothing yet.
EvaluationFits ==
    /\ pass.done + Cardinality(pass.todo) <= Cardinality(Policies)
    /\ pass.found => Policies # {}
    /\ IF pc = "act" THEN pass.todo # {} ELSE pass.spent = 0

\* The counted actions of this pass are new, and no action is lost.
NothingForgotten ==
    /\ pending \cap validated = {}
    /\ pass.fresh \subseteq 1 .. counted
    /\ pc = "persist" => pass.fresh \cap (pending \cup validated) = {}
    /\ faults = 0 =>
         1 .. counted = pending \cup validated \cup (IF pc = "persist" THEN pass.fresh ELSE {})

\* Once the incidents were grouped every alert of the pass has an open one.
AlertsAreOpen ==
    pc \notin {"sleep", "upsert"} => \A k \in sample.alerts : incidents[k] = "detected"

MonitorInv ==
    /\ TypeOK
    /\ pc # "sleep" => passes > 0
    /\ CountFits
    /\ CooldownHolds
    /\ EvaluationFits
    /\ NothingForgotten
    /\ AlertsAreOpen
    /\ PassSettlesIncidents

-----------------------------------------------------------------------------
(* Facts about numbers, and about one evaluation of the policies. *)

\* There are finitely many policies.
LEMMA PolicyCount == Cardinality(Policies) \in Nat
BY FS_CardinalityType

\* One more pass of at most p counted actions.
LEMMA OneMorePass ==
    ASSUME NEW p \in Nat, NEW n \in Nat, NEW m \in Nat, n <= m
    PROVE  /\ n * p \in Nat
           /\ n * p <= m * p
           /\ n > 0 => (n - 1) * p + p = n * p
<1>1. PICK d \in Nat : m = n + d
  <2>1. m - n \in Nat /\ m = n + (m - n)
    OBVIOUS
  <2> QED
    BY <2>1
<1>2. n * p \in Nat /\ d * p \in Nat
  OBVIOUS
<1>3. (n + d) * p = n * p + d * p
  OBVIOUS
<1>4. n > 0 => (n - 1) * p + p = n * p
  OBVIOUS
<1> QED
  BY <1>1, <1>2, <1>3, <1>4

\* The numbers of n actions that follow c earlier ones.
LEMMA NewNumbers ==
    ASSUME NEW c \in Nat, NEW n \in Nat, NEW m \in Nat, c + n <= m
    PROVE  /\ c + 1 .. c + n \in SUBSET (1 .. m)
           /\ c + 1 .. c + n \in SUBSET (1 .. c + n)
           /\ 1 .. c \subseteq 1 .. c + n
           /\ 1 .. c + n = (1 .. c) \cup (c + 1 .. c + n)
           /\ \A i \in c + 1 .. c + n : i \notin 1 .. c
OBVIOUS

\* A set of natural numbers has a least one.
LEMMA LeastNumber ==
    ASSUME NEW T \in SUBSET Nat, T # {}
    PROVE  \E x \in T : \A y \in T : x <= y
<1>1. IsWellFoundedOn(OpToRel(<, Nat), Nat)
  BY NatLessThanWellFounded
<1>2. PICK x \in T : \A y \in T : ~ (<<y, x>> \in OpToRel(<, Nat))
  BY <1>1, WFMin
<1>3. \A y \in T : ~ (y < x)
  BY <1>2 DEF OpToRel
<1> QED
  BY <1>3

\* The cooldowns of one action more.
LEMMA OneMoreAction ==
    ASSUME NEW n \in Nat
    PROVE  /\ n * Cooldown \in Nat
           /\ (n - 1) * Cooldown + Cooldown = n * Cooldown
           /\ (n - 1) * Cooldown \in Int
           /\ ((n + 1) - 1) * Cooldown = n * Cooldown
<1>1. \A c \in Nat : /\ n * c \in Nat
                     /\ (n - 1) * c + c = n * c
                     /\ (n - 1) * c \in Int
                     /\ ((n + 1) - 1) * c = n * c
  OBVIOUS
<1> QED
  BY <1>1

\* More of a cooldown left is as good.
LEMMA Longer ==
    ASSUME NEW due \in Nat, NEW past \in Nat, NEW left \in Nat, NEW more \in Nat,
           due <= past + left, left <= more
    PROVE  due <= past + more
OBVIOUS

\* The policy whose turn it is is one of those to come.
LEMMA CurrentIsToCome ==
    ASSUME pass \in Locals, pass.todo # {}
    PROVE  Current \in pass.todo /\ Current \in Policies
<1>1. pass.todo \in SUBSET Nat /\ pass.todo \subseteq Policies
  BY DEF Locals
<1>2. \E p \in pass.todo : \A q \in pass.todo : p <= q
  BY <1>1, LeastNumber
<1>3. Current \in pass.todo
  BY <1>2 DEF Current
<1> QED
  BY <1>1, <1>3

\* Once it has returned there is one less to come and at most one result more.
LEMMA ReturnedEffect ==
    ASSUME pass \in Locals, EvaluationFits, pass.todo # {}, NEW status
    PROVE  LET next == Returned(status) IN
           /\ next \in Locals
           /\ next.done + Cardinality(next.todo) <= Cardinality(Policies)
           /\ next.found => Policies # {}
           /\ next.fresh = pass.fresh /\ next.spent = 0 /\ next.decision = pass.decision
<1> DEFINE left == pass.todo \ {Current}
           done == IF status \in {"completed", "simulated"} THEN pass.done + 1 ELSE pass.done
           found == pass.found \/ status # "none"
           n == Cardinality(Policies)
           m == Cardinality(pass.todo)
           k == Cardinality(left)
<1>1. Current \in pass.todo /\ Current \in Policies
  BY CurrentIsToCome
<1>2. IsFiniteSet(pass.todo) /\ left \in SUBSET Policies
  <2>1. pass.todo \in SUBSET Policies
    BY DEF Locals
  <2> QED
    BY <2>1, FS_Subset
<1>3. k = m - 1 /\ m \in Nat /\ n \in Nat /\ k \in Nat
  <2>1. Cardinality(pass.todo \ {Current}) = Cardinality(pass.todo) - 1
    BY <1>1, <1>2, FS_RemoveElement
  <2>2. IsFiniteSet(left)
    BY <1>2, FS_Subset
  <2> QED
    BY <1>2, <2>1, <2>2, FS_CardinalityType
<1>4. pass.done \in Nat /\ pass.done + m <= n
  BY DEF EvaluationFits, Locals
<1>5. done \in 0 .. n /\ done + k <= n
  <2> HIDE DEF n, m, k
  <2> QED
    BY <1>3, <1>4
<1>6. Returned(status) = [pass EXCEPT !.todo = left, !.spent = 0, !.found = found, !.done = done]
  BY DEF Returned
<1>7. found \in BOOLEAN
  BY DEF Locals
<1> HIDE DEF left, done, found, n
<1>8. Returned(status) \in Locals
  <2>1. pass.decision \in Decisions /\ pass.fresh \in SUBSET (1 .. MaxCounted)
    BY DEF Locals
  <2>2. Returned(status) = [todo |-> left, found |-> found, done |-> done, spent |-> 0,
                            decision |-> pass.decision, fresh |-> pass.fresh]
    BY <1>6 DEF Locals
  <2>3. 0 \in 0 .. Cooldown
    OBVIOUS
  <2> QED
    BY <1>2, <1>5, <1>7, <2>1, <2>2, <2>3 DEF Locals, n
<1>9. LET next == Returned(status) IN
      /\ next.done = done /\ next.todo = left /\ next.spent = 0
      /\ next.fresh = pass.fresh /\ next.decision = pass.decision
  BY <1>6 DEF Locals
<1> QED
  BY <1>1, <1>5, <1>8, <1>9 DEF n

\* An evaluation begins with every hot policy to come and no result.
LEMMA NewEvaluationEffect ==
    ASSUME TypeOK, NEW locals \in Locals
    PROVE  LET next == NewEvaluation(locals) IN
           /\ next \in Locals
           /\ next.done + Cardinality(next.todo) <= Cardinality(Policies)
           /\ ~next.found /\ next.fresh = locals.fresh /\ next.spent = locals.spent
<1>1. sample.hot \in SUBSET Policies
  BY DEF TypeOK, Samples
<1>2. Cardinality(sample.hot) <= Cardinality(Policies) /\ Cardinality(sample.hot) \in Nat
  BY <1>1, FS_Subset, FS_CardinalityType
<1>3. NewEvaluation(locals) \in Locals
  <2> DEFINE hot == sample.hot
             none == FALSE
             n == Cardinality(Policies)
  <2>1. /\ locals.decision \in Decisions /\ locals.fresh \in SUBSET (1 .. MaxCounted)
        /\ locals.spent \in 0 .. Cooldown
    BY DEF Locals
  <2>2. none \in BOOLEAN /\ hot \in SUBSET Policies /\ 0 \in 0 .. n
    BY <1>1, PolicyCount
  <2>3. NewEvaluation(locals) = [locals EXCEPT !.todo = hot, !.found = none, !.done = 0]
    BY DEF NewEvaluation
  <2> HIDE DEF hot, none, n
  <2>4. NewEvaluation(locals) = [todo |-> hot, found |-> none, done |-> 0,
                                 spent |-> locals.spent, decision |-> locals.decision,
                                 fresh |-> locals.fresh]
    BY <2>3 DEF Locals
  <2> QED
    BY <2>1, <2>2, <2>4 DEF Locals, n
<1>4. LET next == NewEvaluation(locals) IN
      /\ next.done = 0 /\ next.todo = sample.hot
      /\ ~next.found /\ next.fresh = locals.fresh /\ next.spent = locals.spent
  BY DEF NewEvaluation, Locals
<1> QED
  BY <1>2, <1>3, <1>4

\* A status leaves at most a whole cooldown.
LEMMA CoolingType ==
    ASSUME TypeOK, NEW status, NEW ago \in 0 .. Cooldown
    PROVE  CoolingAfter(status, ago) \in 0 .. Cooldown
BY DEF CoolingAfter, TypeOK

\* A finished evaluation hands on at most one counted action per policy.
LEMMA CountedEffect ==
    ASSUME pass \in Locals, EvaluationFits
    PROVE  NewlyCounted \in 0 .. Cardinality(Policies)
<1>1. pass.done \in 0 .. Cardinality(Policies)
  BY DEF Locals
<1>2. pass.found => 1 <= Cardinality(Policies)
  BY PolicyCount, FS_EmptySet DEF EvaluationFits
<1>3. CASE pass.decision = "auto_heal"
  BY <1>1, <1>3 DEF NewlyCounted
<1>4. CASE pass.decision = "recommend_action"
  BY <1>2, <1>4, PolicyCount DEF NewlyCounted
<1>5. CASE pass.decision \notin {"auto_heal", "recommend_action"}
  BY <1>5, PolicyCount DEF NewlyCounted
<1> QED
  BY <1>3, <1>4, <1>5

-----------------------------------------------------------------------------
(* Steps of a pass. *)

\* The parts of the state a step of the pass relies on.
LEMMA Facts ==
    ASSUME MonitorInv
    PROVE  /\ TypeOK /\ pass \in Locals
           /\ Evaluated \in 0 .. MaxPasses
           /\ counted \in Nat /\ passes \in 0 .. MaxPasses /\ faults \in 0 .. MaxFaults
           /\ acted \in Nat /\ elapsed \in Nat /\ cooling \in 0 .. Cooldown
           /\ pass.fresh \subseteq 1 .. counted
           /\ pass.spent \in 0 .. Cooldown /\ sample.alerts \subseteq Keys
<1>1. TypeOK /\ pass \in Locals
  BY DEF MonitorInv, TypeOK, Locals
<1>2. Evaluated \in 0 .. MaxPasses
  BY DEF MonitorInv, TypeOK, Evaluated, Evaluating
<1>3. MaxCounted \in Nat
  BY PolicyCount, OneMorePass DEF MaxCounted
<1> QED
  BY <1>1, <1>2, <1>3 DEF MonitorInv, TypeOK, NothingForgotten, Samples, Locals

\* The count of a pass that hands on nothing more.
LEMMA CountStays ==
    ASSUME MonitorInv, counted' = counted,
           Evaluated' \in {Evaluated, Evaluated + 1}
    PROVE  CountFits'
<1>1. Evaluated \in Nat /\ Evaluated' \in Nat /\ Evaluated <= Evaluated'
  BY Facts
<1>2. Evaluated * Cardinality(Policies) <= Evaluated' * Cardinality(Policies)
  BY <1>1, PolicyCount, OneMorePass
<1>3. Evaluated * Cardinality(Policies) \in Nat /\ Evaluated' * Cardinality(Policies) \in Nat
  BY <1>1, PolicyCount, OneMorePass
<1>4. Evaluated' * Cardinality(Policies)' = Evaluated' * Cardinality(Policies)
  OBVIOUS
<1> QED
  BY <1>2, <1>3, <1>4, Facts DEF MonitorInv, CountFits

\* A step that begins, ends or prolongs no action disturbs no cooldown.
LEMMA CooldownStays ==
    ASSUME MonitorInv, UNCHANGED <<acted, elapsed, cooling>>, pc' # "act",
           pc = "act" => pc' = "sleep", pc = "sleep" => pc' = "sleep"
    PROVE  CooldownHolds'
BY DEF MonitorInv, CooldownHolds, OneActionPerCooldown

\* A new pass begins with nothing done and nothing handed on.
LEMMA SampleInv ==
    ASSUME MonitorInv, Sample
    PROVE  MonitorInv'
<1>1. NoPass \in Locals /\ NoPass.todo = {} /\ NoPass.done = 0
      /\ ~NoPass.found /\ NoPass.spent = 0
  BY PolicyCount DEF NoPass, Locals, Decisions
<1>2. TypeOK'
  BY <1>1 DEF MonitorInv, TypeOK, Sample, Locals
<1>3. CountFits'
  <2>1. Evaluated' = Evaluated
    BY Facts DEF Sample, Evaluated, Evaluating
  <2> QED
    BY <2>1, CountStays DEF Sample
<1>4. CooldownHolds'
  <2>1. (0 - 1) * Cooldown <= 0
    OBVIOUS
  <2> QED
    BY <2>1 DEF Sample, CooldownHolds, OneActionPerCooldown
<1>5. EvaluationFits'
  BY <1>1, PolicyCount, FS_EmptySet DEF Sample, EvaluationFits
<1>6. NothingForgotten'
  BY DEF MonitorInv, Sample, NothingForgotten, NoPass
<1> QED
  BY <1>2, <1>3, <1>4, <1>5, <1>6, Facts
  DEF Sample, MonitorInv, AlertsAreOpen, PassSettlesIncidents

\* A pass that ends, by an exception or not, takes nothing with it but the
\* actions it has handed on.
LEMMA EndPassInv ==
    ASSUME MonitorInv, EndPass, pc # "sleep",
           UNCHANGED <<sample, mode, cooling, counted, acted, elapsed, passes, enforced>>,
           incidents' \in [Keys -> {"absent", "detected", "resolved"}],
           pending' \subseteq pending,
           validated' \subseteq validated \cup (pending \ pending'),
           faults' \in 0 .. MaxFaults,
           \/ faults' > 0
           \/ pc # "persist" /\ UNCHANGED <<pending, validated, faults>>
    PROVE  MonitorInv'
<1>1. NoPass \in Locals /\ NoPass.todo = {} /\ NoPass.done = 0
      /\ ~NoPass.found /\ NoPass.spent = 0
  BY PolicyCount DEF NoPass, Locals, Decisions
<1>2. TypeOK'
  BY <1>1 DEF MonitorInv, TypeOK, EndPass, Locals
<1>3. CountFits'
  <2>1. Evaluated' \in {Evaluated, Evaluated + 1}
    BY Facts DEF EndPass, Evaluated, Evaluating
  <2> QED
    BY <2>1, CountStays
<1>4. CooldownHolds'
  BY CooldownStays DEF EndPass
<1>5. EvaluationFits'
  BY <1>1, PolicyCount, FS_EmptySet DEF EndPass, EvaluationFits
<1>6. NothingForgotten'
  BY DEF MonitorInv, EndPass, NothingForgotten, NoPass
<1> QED
  BY <1>2, <1>3, <1>4, <1>5, <1>6 DEF EndPass, MonitorInv, AlertsAreOpen, PassSettlesIncidents

\* A step of the pass that begins or ends neither an action nor an evaluation.
LEMMA InPass ==
    ASSUME MonitorInv, pc \notin {"sleep", "act"}, pc' # "act",
           UNCHANGED <<pass, counted, acted, elapsed, cooling, passes>>,
           Evaluated' = Evaluated
    PROVE  CountFits' /\ CooldownHolds' /\ EvaluationFits' /\ passes' > 0
<1>1. CountFits'
  BY CountStays
<1>2. CooldownHolds'
  BY CooldownStays
<1> QED
  BY <1>1, <1>2 DEF MonitorInv, EvaluationFits

\* Grouping leaves an open incident for each alert, and the evaluation begins.
LEMMA UpsertIncidentsInv ==
    ASSUME MonitorInv, UpsertIncidents
    PROVE  MonitorInv'
<1>1. /\ pass' \in Locals /\ pass'.fresh = pass.fresh /\ ~pass'.found
      /\ pass'.spent = pass.spent
      /\ pass'.done + Cardinality(pass'.todo) <= Cardinality(Policies)
  BY Facts, NewEvaluationEffect DEF UpsertIncidents
<1>2. TypeOK'
  BY <1>1 DEF MonitorInv, TypeOK, UpsertIncidents, Locals
<1>3. CountFits'
  <2>1. Evaluated' = Evaluated
    BY DEF UpsertIncidents, Evaluated, Evaluating
  <2> QED
    BY <2>1, CountStays DEF UpsertIncidents
<1>4. CooldownHolds'
  BY CooldownStays DEF UpsertIncidents
<1>5. EvaluationFits' /\ NothingForgotten'
  BY <1>1 DEF MonitorInv, UpsertIncidents, EvaluationFits, NothingForgotten
<1>6. AlertsAreOpen'
  BY Facts DEF UpsertIncidents, AlertsAreOpen
<1> QED
  BY <1>2, <1>3, <1>4, <1>5, <1>6 DEF UpsertIncidents, MonitorInv, PassSettlesIncidents

\* What a step of an evaluation must show: that its locals and its cooldown fit.
LEMMA EvaluationStep ==
    ASSUME MonitorInv, pc \in {"evaluate", "act", "execute"},
           pc' \in {"evaluate", "act", "execute"},
           UNCHANGED <<sample, incidents, mode, counted, pending, validated, passes, faults,
                       enforced>>,
           pass' \in Locals, pass'.fresh = pass.fresh, EvaluationFits',
           acted' \in Nat, elapsed' \in Nat, cooling' \in 0 .. Cooldown, CooldownHolds'
    PROVE  MonitorInv'
<1>1. TypeOK'
  BY DEF MonitorInv, TypeOK, Locals
<1>2. CountFits'
  <2>1. Evaluated' = Evaluated
    BY DEF Evaluated, Evaluating
  <2> QED
    BY <2>1, CountStays
<1>3. NothingForgotten'
  BY DEF MonitorInv, NothingForgotten
<1> QED
  BY <1>1, <1>2, <1>3 DEF MonitorInv, AlertsAreOpen, PassSettlesIncidents

\* A policy that leaves the host as it is can only prolong the cooldown.
LEMMA ApplyPolicyInv ==
    ASSUME MonitorInv, ApplyPolicy
    PROVE  MonitorInv'
<1>1. PICK status \in Outcomes(Current) :
        pass' = Returned(status) /\ cooling' = CoolingAfter(status, 0)
  BY DEF ApplyPolicy
<1>2. /\ pass' \in Locals /\ pass'.fresh = pass.fresh /\ pass'.spent = 0
      /\ (pass'.found => Policies # {})
      /\ pass'.done + Cardinality(pass'.todo) <= Cardinality(Policies)
  <2>1. pass.todo # {} /\ pass \in Locals /\ EvaluationFits
    BY Facts DEF ApplyPolicy, MonitorInv
  <2> QED
    BY <1>1, <2>1, ReturnedEffect
<1>3. EvaluationFits'
  BY <1>2 DEF EvaluationFits, ApplyPolicy
<1>4. cooling' \in 0 .. Cooldown /\ cooling <= cooling'
  BY <1>1, Facts, CoolingType DEF CoolingAfter
<1>5. CooldownHolds'
  <2> DEFINE due == acted * Cooldown
  <2>1. due \in Nat /\ acted \in Nat /\ elapsed \in Nat /\ cooling \in Nat /\ cooling' \in Nat
    BY <1>4, Facts, OneMoreAction
  <2>2. acted > 0 => due <= elapsed + cooling
    BY DEF MonitorInv, CooldownHolds, ApplyPolicy
  <2>3. UNCHANGED <<acted, elapsed, pc>> /\ pc \in {"evaluate", "execute"}
    BY DEF ApplyPolicy, history
  <2>4. ASSUME acted > 0 PROVE due <= elapsed + cooling'
    <3>1. due <= elapsed + cooling
      BY <2>2, <2>4
    <3> HIDE DEF due
    <3> QED
      BY <2>1, <3>1, <1>4, Longer
  <2> QED
    BY <2>3, <2>4 DEF MonitorInv, CooldownHolds, OneActionPerCooldown
<1> QED
  BY <1>2, <1>3, <1>4, <1>5, Facts, EvaluationStep DEF ApplyPolicy

\* An action begins when the cooldowns of those before it are over.
LEMMA BeginActionInv ==
    ASSUME MonitorInv, BeginAction
    PROVE  MonitorInv'
<1>1. EvaluationFits'
  BY DEF MonitorInv, BeginAction, EvaluationFits
<1>2. pass.spent = 0
  BY DEF MonitorInv, EvaluationFits, BeginAction
<1>3. acted' = acted + 1 /\ acted \in Nat /\ elapsed' \in Nat
  BY Facts DEF BeginAction
<1>4. CooldownHolds'
  <2> DEFINE due == acted * Cooldown
  <2>1. due \in Nat /\ (acted' - 1) * Cooldown = due /\ (acted = 0 => due = 0)
    BY <1>3, OneMoreAction
  <2>2. acted > 0 => due <= elapsed'
    BY Facts, <2>1 DEF MonitorInv, CooldownHolds, BeginAction
  <2>3. due <= elapsed'
    BY <1>3, <2>1, <2>2
  <2>4. due + pass'.spent <= elapsed'
    <3>1. pass'.spent = 0
      BY <1>2 DEF BeginAction
    <3> HIDE DEF due
    <3> QED
      BY <1>3, <2>1, <2>3, <3>1
  <2>5. pc' = "act" /\ cooling' = 0 /\ acted' > 0
    BY <1>3 DEF BeginAction
  <2> HIDE DEF due
  <2> QED
    BY <2>1, <2>3, <2>4, <2>5 DEF CooldownHolds, OneActionPerCooldown
<1> QED
  BY <1>1, <1>3, <1>4, Facts, EvaluationStep DEF BeginAction

\* When an action ends, what it has taken is taken off its cooldown.
LEMMA EndActionInv ==
    ASSUME MonitorInv, EndAction
    PROVE  MonitorInv'
<1>1. PICK status \in Results(Current) :
        pass' = Returned(status) /\ cooling' = CoolingAfter(status, pass.spent)
  BY DEF EndAction
<1>2. status \in {"completed", "failed"}
  BY <1>1 DEF Results
<1>3. /\ pass' \in Locals /\ pass'.fresh = pass.fresh /\ pass'.spent = 0
      /\ (pass'.found => Policies # {})
      /\ pass'.done + Cardinality(pass'.todo) <= Cardinality(Policies)
  <2>1. pass.todo # {} /\ pass \in Locals /\ EvaluationFits
    BY Facts DEF EndAction, MonitorInv, EvaluationFits
  <2> QED
    BY <1>1, <2>1, ReturnedEffect
<1>4. pc' \in {"evaluate", "execute"} /\ UNCHANGED <<acted, elapsed>>
  BY DEF EndAction, history
<1>5. EvaluationFits'
  BY <1>3, <1>4 DEF EvaluationFits
<1>6. cooling' = Cooldown - pass.spent /\ pass.spent \in 0 .. Cooldown
  BY <1>1, <1>2, Facts DEF CoolingAfter, Starts
<1>7. CooldownHolds'
  <2> DEFINE due == acted * Cooldown
             before == (acted - 1) * Cooldown
  <2>1. before + Cooldown = due /\ before \in Int /\ due \in Nat /\ elapsed \in Nat
    BY Facts, OneMoreAction
  <2>2. before + pass.spent <= elapsed
    BY DEF MonitorInv, CooldownHolds, EndAction
  <2>3. due <= elapsed + cooling'
    <3> HIDE DEF due, before
    <3> QED
      BY <2>1, <2>2, <1>6
  <2>4. due <= elapsed' + cooling' /\ due = acted' * Cooldown
    BY <1>4, <2>3
  <2> QED
    BY <1>4, <2>4 DEF MonitorInv, CooldownHolds, OneActionPerCooldown
<1> QED
  BY <1>3, <1>4, <1>5, <1>6, <1>7, Facts, EvaluationStep DEF EndAction

\* An action that raises ends its pass.
LEMMA ActionRaisesInv ==
    ASSUME MonitorInv, ActionRaises
    PROVE  MonitorInv'
<1>1. faults' \in 0 .. MaxFaults /\ faults' > 0
  BY Facts DEF ActionRaises
<1>2. incidents \in [Keys -> {"absent", "detected", "resolved"}]
  BY DEF MonitorInv, TypeOK
<1> QED
  BY <1>1, <1>2, Facts, EndPassInv DEF ActionRaises, Abort

\* The second evaluation begins like the first.
LEMMA DecideInv ==
    ASSUME MonitorInv, Decide
    PROVE  MonitorInv'
<1> DEFINE locals == [pass EXCEPT !.decision = Decision]
<1>1. Decision \in Decisions
  BY DEF Decision, Decisions
<1>2. locals \in Locals /\ locals.fresh = pass.fresh /\ locals.spent = pass.spent
  BY <1>1, Facts DEF Locals
<1> HIDE DEF locals
<1>3. /\ pass' \in Locals /\ pass'.fresh = pass.fresh /\ ~pass'.found
      /\ pass'.spent = pass.spent
      /\ pass'.done + Cardinality(pass'.todo) <= Cardinality(Policies)
  BY <1>2, Facts, NewEvaluationEffect DEF Decide, locals
<1>4. EvaluationFits'
  BY <1>3 DEF MonitorInv, EvaluationFits, Decide
<1>5. CooldownHolds'
  BY CooldownStays DEF Decide, history
<1> QED
  BY <1>3, <1>4, <1>5, Facts, EvaluationStep DEF Decide

\* The pass hands on new actions, one per policy at most.
LEMMA ExecuteInv ==
    ASSUME MonitorInv, Execute
    PROVE  MonitorInv'
<1> DEFINE n == NewlyCounted
<1>1. n \in 0 .. Cardinality(Policies) /\ counted' = counted + n
      /\ pass' = [pass EXCEPT !.fresh = counted + 1 .. counted + n]
  BY Facts, CountedEffect DEF Execute, MonitorInv
<1> HIDE DEF n
<1>2. CountFits' /\ counted' \in 0 .. MaxCounted /\ MaxCounted \in Nat
  <2>1. Evaluated = passes - 1 /\ Evaluated' = passes /\ passes \in Nat /\ passes > 0
        /\ passes <= MaxPasses
    BY Facts DEF Execute, MonitorInv, Evaluated, Evaluating
  <2>2. (passes - 1) * Cardinality(Policies) + Cardinality(Policies)
          = passes * Cardinality(Policies)
        /\ passes * Cardinality(Policies) \in Nat
        /\ passes * Cardinality(Policies) <= MaxPasses * Cardinality(Policies)
    BY <2>1, PolicyCount, OneMorePass
  <2>3. counted <= (passes - 1) * Cardinality(Policies)
    BY <2>1 DEF MonitorInv, CountFits
  <2>4. MaxPasses * Cardinality(Policies) \in Nat
        /\ (passes - 1) * Cardinality(Policies) \in Nat
    BY <2>1, PolicyCount, OneMorePass
  <2>5. counted + n <= passes * Cardinality(Policies)
    <3> DEFINE p == Cardinality(Policies)
               before == (passes - 1) * p
               after == passes * p
    <3>1. before + p = after /\ counted <= before /\ before \in Nat /\ after \in Nat
          /\ n \in 0 .. p /\ p \in Nat /\ counted \in Nat
      BY <2>2, <2>3, <2>4, <1>1, PolicyCount, Facts
    <3> HIDE DEF p, before, after
    <3>2. counted + n <= after
      BY <3>1
    <3> QED
      BY <3>2 DEF after, p
  <2>6. counted' \in Nat /\ counted' <= passes * Cardinality(Policies)
    BY <2>5, <1>1, PolicyCount, Facts
  <2>7. CountFits'
    BY <2>1, <2>6 DEF CountFits
  <2>8. counted' \in 0 .. MaxCounted /\ MaxCounted \in Nat
    BY <2>2, <2>4, <2>6 DEF MaxCounted
  <2> QED
    BY <2>7, <2>8
<1>3. /\ pass' \in Locals /\ pass'.fresh = counted + 1 .. counted + n
      /\ pass'.todo = pass.todo /\ pass'.done = pass.done /\ pass'.found = pass.found
      /\ pass'.spent = pass.spent
  <2>1. counted + 1 .. counted + n \in SUBSET (1 .. MaxCounted)
    <3>1. counted \in Nat /\ n \in Nat /\ counted + n <= MaxCounted
      BY <1>1, <1>2, PolicyCount, Facts
    <3> QED
      BY <3>1, <1>2, NewNumbers
  <2> QED
    BY <1>1, <2>1, Facts DEF Locals
<1>4. TypeOK'
  <2>1. /\ counted \in Nat /\ n \in Nat /\ counted' = counted + n
        /\ pending \subseteq 1 .. counted /\ validated \subseteq 1 .. counted
    BY <1>1, PolicyCount, Facts DEF TypeOK
  <2>2. pending' \subseteq 1 .. counted' /\ validated' \subseteq 1 .. counted'
    <3>1. 1 .. counted \subseteq 1 .. counted'
      BY <2>1, NewNumbers
    <3> QED
      BY <2>1, <3>1 DEF Execute
  <2> QED
    BY <1>2, <1>3, <2>2 DEF MonitorInv, TypeOK, Execute, Locals
<1>5. CooldownHolds'
  BY CooldownStays DEF Execute, history
<1>6. EvaluationFits'
  BY <1>3 DEF Execute, MonitorInv, EvaluationFits
<1>7. NothingForgotten'
  <2>1. pc' = "persist" /\ pc # "persist" /\ UNCHANGED <<pending, validated, faults>>
    BY DEF Execute
  <2>2. pending \subseteq 1 .. counted /\ validated \subseteq 1 .. counted
        /\ pending \cap validated = {}
        /\ (faults = 0 => 1 .. counted = pending \cup validated)
    BY <2>1 DEF MonitorInv, TypeOK, NothingForgotten
  <2>3. counted \in Nat /\ n \in Nat /\ counted' = counted + n
    BY <1>1, PolicyCount, Facts
  <2>4. 1 .. counted' = 1 .. counted \cup pass'.fresh
        /\ \A i \in pass'.fresh : i \notin 1 .. counted
    BY <1>3, <2>3, NewNumbers
  <2> QED
    BY <2>1, <2>2, <2>4 DEF NothingForgotten
<1> QED
  BY <1>2, <1>4, <1>5, <1>6, <1>7, Facts
  DEF Execute, MonitorInv, AlertsAreOpen, PassSettlesIncidents

\* The counted actions are queued before any of them can be validated.
LEMMA PersistInv ==
    ASSUME MonitorInv, Persist
    PROVE  MonitorInv'
<1>1. TypeOK'
  BY Facts DEF TypeOK, Persist
<1>2. CountFits' /\ CooldownHolds' /\ EvaluationFits' /\ passes' > 0
  BY InPass DEF Persist, Evaluated, Evaluating, history
<1>3. NothingForgotten'
  BY DEF MonitorInv, Persist, NothingForgotten
<1> QED
  BY <1>1, <1>2, <1>3 DEF Persist, MonitorInv, AlertsAreOpen, PassSettlesIncidents

\* An action that leaves the queue has its feedback record.
LEMMA ValidatePreviousInv ==
    ASSUME MonitorInv, ValidatePrevious
    PROVE  MonitorInv'
<1>1. PICK ready \in SUBSET (pending \ pass.fresh) :
        pending' = pending \ ready /\ validated' = validated \cup ready
  BY DEF ValidatePrevious
<1>2. TypeOK'
  BY <1>1, Facts DEF TypeOK, ValidatePrevious
<1>3. CountFits' /\ CooldownHolds' /\ EvaluationFits' /\ passes' > 0
  BY InPass DEF ValidatePrevious, Evaluated, Evaluating, history
<1>4. NothingForgotten'
  BY <1>1 DEF MonitorInv, ValidatePrevious, NothingForgotten
<1> QED
  BY <1>2, <1>3, <1>4 DEF ValidatePrevious, MonitorInv, AlertsAreOpen, PassSettlesIncidents

\* What a failed validation took from the queue is lost, and the fault counted.
LEMMA ValidationFailsInv ==
    ASSUME MonitorInv, ValidationFails
    PROVE  MonitorInv'
<1>1. PICK ready \in SUBSET (pending \ pass.fresh) : \E done \in SUBSET ready \ {ready} :
        pending' = pending \ ready /\ validated' = validated \cup done
  BY DEF ValidationFails
<1>2. pending' \subseteq pending /\ validated' \subseteq validated \cup (pending \ pending')
  BY <1>1
<1>3. faults' \in 0 .. MaxFaults /\ faults' > 0
  BY Facts DEF ValidationFails
<1>4. incidents \in [Keys -> {"absent", "detected", "resolved"}]
  BY DEF MonitorInv, TypeOK
<1> QED
  BY <1>2, <1>3, <1>4, Facts, EndPassInv DEF ValidationFails, Abort

\* Incidents are closed for keys without an alert, if the host is healthy.
LEMMA ResolveIfRecoveredInv ==
    ASSUME MonitorInv, ResolveIfRecovered
    PROVE  MonitorInv'
<1>1. TypeOK'
  BY DEF MonitorInv, TypeOK, ResolveIfRecovered
<1>2. CountFits' /\ CooldownHolds' /\ EvaluationFits' /\ passes' > 0
  BY InPass DEF ResolveIfRecovered, Evaluated, Evaluating, history
<1>3. NothingForgotten'
  BY DEF MonitorInv, ResolveIfRecovered, NothingForgotten
<1>4. AlertsAreOpen' /\ PassSettlesIncidents'
  BY Facts DEF ResolveIfRecovered, MonitorInv, AlertsAreOpen, PassSettlesIncidents
<1> QED
  BY <1>1, <1>2, <1>3, <1>4 DEF MonitorInv

\* Pruning ends the pass.
LEMMA PruneRetentionInv ==
    ASSUME MonitorInv, PruneRetention
    PROVE  MonitorInv'
<1>1. incidents' \in [Keys -> {"absent", "detected", "resolved"}]
  BY DEF PruneRetention, MonitorInv, TypeOK
<1> QED
  BY <1>1, Facts, EndPassInv DEF PruneRetention

\* So do a conflict, which is no fault, and any other exception.
LEMMA AbortInv ==
    ASSUME MonitorInv, UpsertConflicts \/ PruneConflicts \/ Fails
    PROVE  MonitorInv'
<1>1. incidents \in [Keys -> {"absent", "detected", "resolved"}]
  BY DEF MonitorInv, TypeOK
<1>2. CASE UpsertConflicts \/ PruneConflicts
  BY <1>1, <1>2, Facts, EndPassInv DEF UpsertConflicts, PruneConflicts, Abort
<1>3. CASE Fails
  <2>1. faults' \in 0 .. MaxFaults /\ faults' > 0
    BY <1>3, Facts DEF Fails
  <2> QED
    BY <1>1, <1>3, <2>1, Facts, EndPassInv DEF Fails, Abort
<1> QED
  BY <1>2, <1>3

\* A tick counts towards the action under way, or takes from what is left of the
\* last one's cooldown.
LEMMA TickInv ==
    ASSUME MonitorInv, Tick
    PROVE  MonitorInv'
<1>1. pass' \in Locals /\ pass'.fresh = pass.fresh /\ pass'.done = pass.done
      /\ pass'.todo = pass.todo /\ pass'.found = pass.found /\ cooling' \in 0 .. Cooldown
  <2>1. CASE pc = "act"
    <3>1. pass' = [pass EXCEPT !.spent = pass.spent + 1] /\ pass.spent < Cooldown
          /\ cooling' = cooling
      BY <2>1 DEF Tick
    <3>2. pass.spent + 1 \in 0 .. Cooldown
      BY <3>1, Facts
    <3> QED
      BY <3>1, <3>2, Facts DEF Locals
  <2>2. CASE pc # "act"
    BY <2>2, Facts DEF Tick
  <2> QED
    BY <2>1, <2>2
<1>2. elapsed' \in Nat
  BY Facts DEF Tick
<1>3. TypeOK'
  BY <1>1, <1>2, Facts DEF MonitorInv, TypeOK, Tick, Locals
<1>4. CountFits'
  BY CountStays DEF Tick, Evaluated
<1>5. CooldownHolds'
  <2> DEFINE due == acted * Cooldown
             before == (acted - 1) * Cooldown
  <2>1. before \in Int /\ due \in Nat /\ elapsed \in Nat /\ elapsed' \in Nat /\ acted \in Nat
    BY <1>2, Facts, OneMoreAction
  <2>2. before <= elapsed
    BY DEF MonitorInv, CooldownHolds, OneActionPerCooldown
  <2>3. elapsed <= elapsed' /\ UNCHANGED <<pc, acted>>
    BY Facts DEF Tick
  <2>4. CASE pc = "act"
    <3>1. cooling' = 0 /\ acted > 0 /\ before + pass.spent <= elapsed
      BY <2>4 DEF MonitorInv, CooldownHolds, Tick
    <3>2. pass'.spent = pass.spent + 1 /\ elapsed' = elapsed + 1 /\ pass.spent \in Nat
      BY <2>4, <3>1, Facts DEF Tick, Locals
    <3>3. before <= elapsed' /\ before + pass'.spent <= elapsed'
      <4> HIDE DEF before
      <4> QED
        BY <2>1, <2>2, <2>3, <3>1, <3>2
    <3> QED
      BY <2>3, <2>4, <3>1, <3>3 DEF CooldownHolds, OneActionPerCooldown
  <2>5. CASE pc = "sleep"
    BY <2>1, <2>2, <2>5 DEF Tick, CooldownHolds, OneActionPerCooldown
  <2>6. CASE pc \notin {"act", "sleep"}
    <3>1. acted > 0 => due <= elapsed + cooling
      BY <2>6 DEF MonitorInv, CooldownHolds
    <3>2. cooling' = cooling - 1 /\ cooling \in Nat /\ (acted > 0 => elapsed' = elapsed + 1)
      BY <2>6, Facts DEF Tick
    <3>3. before <= elapsed'
      <4> HIDE DEF before
      <4> QED
        BY <2>1, <2>2, <2>3
    <3>4. ASSUME acted > 0 PROVE due <= elapsed' + cooling'
      <4>1. due <= elapsed + cooling /\ elapsed' = elapsed + 1
        BY <3>1, <3>2, <3>4
      <4> HIDE DEF due
      <4> QED
        BY <2>1, <3>2, <4>1
    <3> QED
      BY <2>3, <2>6, <3>3, <3>4 DEF CooldownHolds, OneActionPerCooldown
  <2> QED
    BY <2>4, <2>5, <2>6
<1>6. EvaluationFits'
  <2>1. pc # "act" => pass' = pass
    BY DEF Tick
  <2> QED
    BY <1>1, <2>1 DEF MonitorInv, Tick, EvaluationFits
<1>7. NothingForgotten'
  BY <1>1 DEF MonitorInv, Tick, NothingForgotten
<1> QED
  BY <1>3, <1>4, <1>5, <1>6, <1>7 DEF Tick, MonitorInv, AlertsAreOpen, PassSettlesIncidents

\* No part of the invariant depends on the mode.
LEMMA SetAutonomyModeInv ==
    ASSUME MonitorInv, NEW m \in Modes, SetAutonomyMode(m)
    PROVE  MonitorInv'
<1>1. TypeOK'
  BY Facts DEF TypeOK, SetAutonomyMode
<1>2. CountFits'
  BY CountStays DEF SetAutonomyMode, Evaluated
<1> QED
  BY <1>1, <1>2 DEF SetAutonomyMode, MonitorInv, CooldownHolds, OneActionPerCooldown,
                    EvaluationFits, NothingForgotten, AlertsAreOpen, PassSettlesIncidents

-----------------------------------------------------------------------------
(* The theorems. *)

\* Before the first pass nothing has happened.
LEMMA InitInv == Init => MonitorInv
<1> SUFFICES ASSUME Init PROVE MonitorInv
  OBVIOUS
<1>1. 0 * Cardinality(Policies) = 0 /\ MaxCounted \in Nat
  BY PolicyCount, OneMorePass DEF MaxCounted
<1>2. NoPass \in Locals /\ NoPass.todo = {} /\ NoPass.done = 0
      /\ ~NoPass.found /\ NoPass.spent = 0
  BY PolicyCount DEF NoPass, Locals, Decisions
<1>3. TypeOK
  BY <1>1, <1>2 DEF Init, TypeOK, NoSample, Samples, Locals
<1>4. CountFits /\ NothingForgotten
  BY <1>1 DEF Init, CountFits, NothingForgotten, Evaluated, Evaluating, NoPass
<1>5. CooldownHolds
  <2>1. (0 - 1) * Cooldown <= 0
    OBVIOUS
  <2> QED
    BY <2>1 DEF Init, CooldownHolds, OneActionPerCooldown
<1>6. EvaluationFits
  BY <1>2, PolicyCount, FS_EmptySet DEF Init, EvaluationFits
<1> QED
  BY <1>3, <1>4, <1>5, <1>6 DEF Init, MonitorInv, AlertsAreOpen, PassSettlesIncidents

\* Every step preserves the invariant.
LEMMA StepInv == MonitorInv /\ [Next]_vars => MonitorInv'
<1> SUFFICES ASSUME MonitorInv, [Next]_vars PROVE MonitorInv'
  OBVIOUS
<1>1. CASE Next
  BY <1>1, SampleInv, UpsertIncidentsInv, ApplyPolicyInv, BeginActionInv, EndActionInv,
     ActionRaisesInv, DecideInv, ExecuteInv, PersistInv, ValidatePreviousInv, ValidationFailsInv,
     ResolveIfRecoveredInv, PruneRetentionInv, AbortInv, TickInv, SetAutonomyModeInv DEF Next
<1>2. CASE UNCHANGED vars
  BY <1>2 DEF vars, MonitorInv, TypeOK, CountFits, Evaluated, CooldownHolds, OneActionPerCooldown,
              EvaluationFits, NothingForgotten, AlertsAreOpen, PassSettlesIncidents
<1> QED
  BY <1>1, <1>2

\* The strengthened invariant holds in every reachable state.
THEOREM LoopInvariance == Spec => []MonitorInv
BY InitInv, StepInv, PTL DEF Spec

\* Every variable always has its type; the count of actions stays within one per
\* policy and pass.
THEOREM LoopTypeCorrect == Spec => []TypeOK
<1>1. MonitorInv => TypeOK
  BY DEF MonitorInv
<1> QED
  BY <1>1, LoopInvariance, PTL

\* However often the policies are evaluated in a pass, however many are hot and
\* however long their actions take, no two of them begin within one cooldown.
THEOREM ActsOncePerCooldown == Spec => []OneActionPerCooldown
<1>1. MonitorInv => OneActionPerCooldown
  BY DEF MonitorInv, CooldownHolds
<1> QED
  BY <1>1, LoopInvariance, PTL

\* No action gets two feedback records, and without an exception none is lost.
THEOREM FeedbackIsNotLost == Spec => []FeedbackIsKept
<1>1. MonitorInv => FeedbackIsKept
  BY DEF MonitorInv, NothingForgotten, FeedbackIsKept
<1> QED
  BY <1>1, LoopInvariance, PTL

\* A pass that comes to its end leaves the open incidents its alerts call for.
THEOREM IncidentsAreSettled == Spec => []PassSettlesIncidents
<1>1. MonitorInv => PassSettlesIncidents
  BY DEF MonitorInv
<1> QED
  BY <1>1, LoopInvariance, PTL

\* Incidents are closed by healthy passes without their alert, and never opened
\* again.
THEOREM ClosedOnlyInHealth == Spec => ClosedInHealth
<1> DEFINE Closes(k) ==
      /\ incidents[k] = "detected" /\ incidents'[k] # "detected"
           => sample.healthy /\ k \notin sample.alerts /\ incidents'[k] = "resolved"
      /\ incidents[k] = "resolved" => incidents'[k] # "detected"
<1>1. TypeOK /\ [Next]_vars => [\A k \in Keys : Closes(k)]_vars
  <2> SUFFICES ASSUME TypeOK, Next, NEW k \in Keys PROVE Closes(k)
    OBVIOUS
  <2>1. CASE UpsertIncidents
    BY <2>1 DEF UpsertIncidents, TypeOK
  <2>2. CASE ResolveIfRecovered
    BY <2>2 DEF ResolveIfRecovered, TypeOK
  <2>3. CASE PruneRetention
    BY <2>3 DEF PruneRetention, TypeOK
  <2>4. CASE UNCHANGED incidents
    BY <2>4
  <2> QED
    BY <2>1, <2>2, <2>3, <2>4 DEF Next, Sample, UpsertConflicts, ApplyPolicy, BeginAction, EndAction,
       ActionRaises, Decide, Execute, Persist, ValidatePrevious, ValidationFails, PruneConflicts, Fails,
       Tick, SetAutonomyMode
<1> QED
  BY <1>1, LoopTypeCorrect, PTL DEF Spec, ClosedInHealth

=============================================================================
