------------------------- MODULE LiveSummaryProofs -------------------------
(***************************************************************************)
(* Proofs about LiveSummary, for any requests, nodes, modes and times: its *)
(* type invariant and OneSampler.  What the operations of the registry     *)
(* preserve is cited from ClusterRegistryProofs.                           *)
(***************************************************************************)
EXTENDS LiveSummary, ClusterRegistryProofs

USE RegistryAssumption, SummaryAssumption DEF RegistryAssumption, SummaryAssumption

Present(table, n) == table[n].status # "absent"

\* The look-up of the local node by a request that starts the services: it has
\* found the row, or inserts it, or has failed.
Ensures(h, table) ==
    /\ h.pc \in {"commit", "done", "failed"}
    /\ h.pc = "commit" => h.node = LocalNode /\ h.loaded = "absent" /\ h.reported = "online"
    /\ h.pc = "done" => Present(table, LocalNode)

\* What the lock protects: who is past it is alone and the services are not
\* started; who starts the sampler has a local node and a mode.
StartInv ==
    /\ sampling <=> started /\ background
    /\ started => Present(row, LocalNode) /\ mode # "unset"
    /\ \A r \in Requests :
         /\ req[r].pc \in {"create", "ensure", "spawn"} => lock = r /\ ~started
         /\ req[r].pc = "ensure" => Ensures(op[r], row)
         /\ req[r].pc = "spawn" => Present(row, LocalNode) /\ mode # "unset"

SummaryInv ==
    /\ TypeOK
    /\ RegistryInv
    /\ samplers = IF sampling THEN 1 ELSE 0
    /\ StartInv

-----------------------------------------------------------------------------
(* What the registry's own steps leave to the start. *)

\* A sweep deletes no node and takes nothing from what a look-up has found.
LEMMA MarkKeeps ==
    ASSUME RegistryInv, NEW s \in Sessions, SweepMark(s)
    PROVE  /\ \A n \in Nodes : Present(row, n) => Present(row', n)
           /\ \A u \in Sessions : Ensures(op[u], row) => Ensures(op'[u], row')
<1>1. row' = [n \in Nodes |-> IF n \in op[s].stale THEN [row[n] EXCEPT !.status = "offline"]
                                                   ELSE row[n]]
  BY DEF SweepMark
<1>2. \A n \in Nodes : row[n] \in Row
  BY DEF RegistryInv, RegistryTypeOK
<1>3. \A n \in Nodes : Present(row, n) => Present(row', n)
  BY <1>1, <1>2 DEF Present, Row
<1>4. ASSUME NEW u \in Sessions, Ensures(op[u], row) PROVE Ensures(op'[u], row')
  <2>1. u # s
    BY <1>4 DEF Ensures, SweepMark
  <2>2. op'[u] = Overtaken(op[u], op[s].stale)
    BY <2>1 DEF SweepMark
  <2>3. op[u] \in Operation
    BY DEF RegistryInv, RegistryTypeOK
  <2>4. /\ op'[u].pc = op[u].pc /\ op'[u].node = op[u].node
        /\ op'[u].loaded = op[u].loaded /\ op'[u].reported = op[u].reported
    BY <2>2, <2>3, OvertakenFact
  <2>. QED
    BY <1>3, <1>4, <2>4 DEF Ensures
<1>. QED
  BY <1>3, <1>4

\* Nor does the commit of a heartbeat.
LEMMA CommitKeeps ==
    ASSUME RegistryInv, NEW s \in Sessions, Commit(s)
    PROVE  /\ \A n \in Nodes : Present(row, n) => Present(row', n)
           /\ \A u \in Sessions : Ensures(op[u], row) => Ensures(op'[u], row')
<1>1. /\ op[s].pc = "commit" /\ op[s].node \in Nodes /\ op[s].reported \in Reported
      /\ op \in [Sessions -> Operation] /\ row \in [Nodes -> Row]
  BY DEF RegistryInv, RegistryTypeOK, OpFine, Commit
<1>2. CASE /\ op' = [op EXCEPT ![s] = [NoOperation EXCEPT !.pc = "failed"]]
           /\ UNCHANGED <<row, raced, told>>
  <2>1. op'[s].pc = "failed" /\ \A u \in Sessions \ {s} : op'[u] = op[u]
    BY <1>1, <1>2 DEF NoOperation
  <2>. QED
    BY <1>2, <2>1 DEF Ensures
<1>3. PICK status :
        status = IF op[s].reported = op[s].loaded THEN row[op[s].node].status ELSE op[s].reported
  OBVIOUS
<1>4. ASSUME NEW age \in 0 .. op[s].lag,
             row' = [row EXCEPT ![op[s].node] = [status |-> status, age |-> age]],
             op' = [u \in Sessions |->
                      IF u = s THEN [NoOperation EXCEPT !.pc = "done"]
                      ELSE IF status = "offline" THEN Overtaken(op[u], {op[s].node}) ELSE op[u]]
      PROVE  /\ \A n \in Nodes : Present(row, n) => Present(row', n)
             /\ \A u \in Sessions : Ensures(op[u], row) => Ensures(op'[u], row')
  <2>3. /\ \A n \in Nodes : n # op[s].node => row'[n] = row[n]
        /\ row'[op[s].node].status = status
    BY <1>1, <1>4
  <2>4. Present(row, op[s].node) => Present(row', op[s].node)
    BY <1>1, <1>3, <2>3 DEF Present
  <2>5. \A n \in Nodes : Present(row, n) => Present(row', n)
    BY <2>3, <2>4 DEF Present
  <2>6. op'[s].pc = "done"
    BY <1>4 DEF NoOperation
  <2>7. Ensures(op[s], row) => Ensures(op'[s], row')
    <3>1. Ensures(op[s], row) => Present(row', LocalNode)
      BY <1>1, <1>3, <2>3 DEF Ensures, Present
    <3>. QED
      BY <2>6, <3>1 DEF Ensures
  <2>8. ASSUME NEW u \in Sessions, u # s, Ensures(op[u], row) PROVE Ensures(op'[u], row')
    <3>1. op'[u] = op[u] \/ op'[u] = Overtaken(op[u], {op[s].node})
      BY <1>4, <2>8
    <3>2. /\ op'[u].pc = op[u].pc /\ op'[u].node = op[u].node
          /\ op'[u].loaded = op[u].loaded /\ op'[u].reported = op[u].reported
      BY <1>1, <3>1, OvertakenFact
    <3>. QED
      BY <2>5, <2>8, <3>2 DEF Ensures
  <2>. QED
    BY <2>5, <2>7, <2>8
<1>. QED
  BY <1>2, <1>3, <1>4 DEF Commit

\* Nor does any statement of a session.
LEMMA OperateKeeps ==
    ASSUME RegistryInv, NEW s \in Sessions, Operate(s)
    PROVE  /\ RegistryInv'
           /\ \A n \in Nodes : Present(row, n) => Present(row', n)
           /\ \A u \in Sessions : Ensures(op[u], row) => Ensures(op'[u], row')
<1>1. RegistryInv'
  BY CommitInv, SweepSelectInv, SweepMarkInv, ListInv, RaiseInv DEF Operate
<1>2. op \in [Sessions -> Operation]
  BY DEF RegistryInv, RegistryTypeOK
<1>3. CASE Commit(s)
  BY <1>1, <1>3, CommitKeeps
<1>4. CASE SweepMark(s)
  BY <1>1, <1>4, MarkKeeps
<1>5. ASSUME SweepSelect(s) \/ List(s)
      PROVE  /\ \A n \in Nodes : Present(row, n) => Present(row', n)
             /\ \A u \in Sessions : Ensures(op[u], row) => Ensures(op'[u], row')
  <2>1. /\ row' = row /\ op[s].pc \in {"sweep", "list"}
        /\ \A u \in Sessions \ {s} : op'[u] = op[u]
    BY <1>2, <1>5 DEF SweepSelect, List
  <2>. QED
    BY <2>1 DEF Ensures
<1>6. ASSUME Raise(s)
      PROVE  /\ \A n \in Nodes : Present(row, n) => Present(row', n)
             /\ \A u \in Sessions : Ensures(op[u], row) => Ensures(op'[u], row')
  <2>1. /\ row' = row /\ op'[s].pc = "failed"
        /\ \A u \in Sessions \ {s} : op'[u] = op[u]
    BY <1>2, <1>6 DEF Raise, NoOperation
  <2>. QED
    BY <2>1 DEF Ensures
<1>. QED
  BY <1>1, <1>3, <1>4, <1>5, <1>6 DEF Operate

\* Nor does time.
LEMMA AgeKeeps ==
    ASSUME RegistryInv, Age
    PROVE  /\ \A n \in Nodes : Present(row, n) => Present(row', n)
           /\ \A u \in Sessions : Ensures(op[u], row) => Ensures(op'[u], row')
<1>1. op \in [Sessions -> Operation] /\ row \in [Nodes -> Row]
  BY DEF RegistryInv, RegistryTypeOK
<1>2. \A n \in Nodes : Present(row, n) => Present(row', n)
  BY <1>1 DEF Present, Age, Row
<1>3. ASSUME NEW u \in Sessions, Ensures(op[u], row) PROVE Ensures(op'[u], row')
  <2>1. /\ op'[u].pc = op[u].pc /\ op'[u].node = op[u].node
        /\ op'[u].loaded = op[u].loaded /\ op'[u].reported = op[u].reported
    BY <1>1 DEF Age, Operation
  <2>. QED
    BY <1>2, <1>3, <2>1 DEF Ensures
<1>. QED
  BY <1>2, <1>3

-----------------------------------------------------------------------------
(* Requests. *)

\* A request that goes on to another place.
LEMMA GotoStep ==
    ASSUME TypeOK, NEW r \in Requests,
           NEW pc \in {"idle", "wait", "create", "ensure", "spawn", "ready", "overview", "store",
                       "beat"},
           Goto(r, pc)
    PROVE  /\ req' \in [Requests -> Request] /\ req'[r].pc = pc
           /\ \A q \in Requests \ {r} : req'[q] = req[q]
BY DEF Goto, TypeOK, Request

\* A summary a request loads, and the records requests move between.
LEMMA RequestRecords ==
    /\ IdleRequest \in Request /\ IdleRequest.pc = "idle"
    /\ Fresh \in Summary /\ NoEntry.full = FALSE
    /\ NoEntry \in [full: BOOLEAN, age: 0 .. CacheTTL, value: Summary]
    /\ \A value \in Summary : [pc |-> "overview", value |-> value] \in Request
BY DEF IdleRequest, Request, Summary, Fresh, NoEntry

\* Steps of the others leave a registry operation in flight as it is.
LEMMA RegistryStutters ==
    ASSUME RegistryInv, UNCHANGED registryVars
    PROVE  RegistryInv'
BY DEF registryVars, RegistryInv, RegistryTypeOK, OfflineNeedsOverlap

\* The operations of other sessions stay.
LEMMA OthersKeepOp ==
    ASSUME RegistryInv, NEW s \in Sessions, NEW h, op' = [op EXCEPT ![s] = h]
    PROVE  \A u \in Sessions \ {s} : op'[u] = op[u]
BY DEF RegistryInv, RegistryTypeOK

\* A step of one request outside the start, which leaves the services alone.
LEMMA OutsideStart ==
    ASSUME StartInv, NEW r \in Requests,
           \A q \in Requests \ {r} : req'[q] = req[q],
           req'[r].pc \notin {"create", "ensure", "spawn"},
           \A q \in Requests \ {r} : op'[q] = op[q],
           UNCHANGED <<row, background, lock, started, sampling>>,
           mode # "unset" => mode' # "unset"
    PROVE  StartInv'
<1>1. /\ sampling' <=> started' /\ background'
      /\ started' => Present(row', LocalNode) /\ mode' # "unset"
  BY DEF StartInv
<1>2. ASSUME NEW q \in Requests
      PROVE  /\ req'[q].pc \in {"create", "ensure", "spawn"} => lock' = q /\ ~started'
             /\ req'[q].pc = "ensure" => Ensures(op'[q], row')
             /\ req'[q].pc = "spawn" => Present(row', LocalNode) /\ mode' # "unset"
  <2>1. CASE q = r
    BY <2>1
  <2>2. CASE q # r
    <3>1. req'[q] = req[q] /\ op'[q] = op[q]
      BY <2>2
    <3>. QED
      BY <3>1 DEF StartInv
  <2>. QED
    BY <2>1, <2>2
<1>. QED
  BY <1>1, <1>2 DEF StartInv

\* The flag is read without the lock: a request goes on, or waits for the lock.
LEMMA ArriveInv ==
    ASSUME SummaryInv, NEW r \in Requests, Arrive(r)
    PROVE  SummaryInv'
<1>1. TypeOK /\ RegistryInv /\ StartInv
  BY DEF SummaryInv
<1>2. RegistryInv'
  BY <1>1, RegistryStutters DEF Arrive
<1>3. /\ req' \in [Requests -> Request] /\ req'[r].pc \in {"ready", "wait"}
      /\ \A q \in Requests \ {r} : req'[q] = req[q]
  BY <1>1, GotoStep DEF Arrive
<1>4. TypeOK'
  BY <1>1, <1>2, <1>3 DEF TypeOK, RegistryInv, Arrive
<1>5. StartInv'
  BY <1>1, <1>3, OutsideStart DEF Arrive, registryVars
<1>. QED
  BY <1>2, <1>4, <1>5 DEF SummaryInv, Arrive

\* The flag is read again under the lock: if it is not set nobody else starts.
LEMMA AcquireInv ==
    ASSUME SummaryInv, NEW r \in Requests, Acquire(r)
    PROVE  SummaryInv'
<1>1. TypeOK /\ RegistryInv /\ StartInv
  BY DEF SummaryInv
<1>2. RegistryInv'
  BY <1>1, RegistryStutters DEF Acquire
<1>3. CASE started
  <2>1. /\ req' \in [Requests -> Request] /\ req'[r].pc = "ready"
        /\ \A q \in Requests \ {r} : req'[q] = req[q]
    BY <1>1, <1>3, GotoStep DEF Acquire
  <2>2. TypeOK'
    BY <1>1, <1>2, <1>3, <2>1 DEF TypeOK, RegistryInv, Acquire
  <2>3. StartInv'
    BY <1>1, <1>3, <2>1, OutsideStart DEF Acquire, registryVars
  <2>. QED
    BY <1>2, <2>2, <2>3 DEF SummaryInv, Acquire
<1>4. CASE ~started
  <2>1. /\ req' \in [Requests -> Request] /\ req'[r].pc = "create"
        /\ \A q \in Requests \ {r} : req'[q] = req[q]
    BY <1>1, <1>4, GotoStep DEF Acquire
  <2>2. lock' = r
    BY <1>4 DEF Acquire
  <2>3. TypeOK'
    BY <1>1, <1>2, <2>1, <2>2 DEF TypeOK, RegistryInv, Acquire
  <2>4. \A q \in Requests : req[q].pc \notin {"create", "ensure", "spawn"}
    BY <1>1 DEF StartInv, Acquire
  <2>5. StartInv'
    BY <1>1, <1>4, <2>1, <2>2, <2>4 DEF StartInv, Acquire, registryVars
  <2>. QED
    BY <1>2, <2>3, <2>5 DEF SummaryInv, Acquire
<1>. QED
  BY <1>3, <1>4

\* Services are created only by the one request past the lock, before a sampler
\* runs.
LEMMA CreateServicesInv ==
    ASSUME SummaryInv, NEW r \in Requests, CreateServices(r)
    PROVE  SummaryInv'
<1>1. TypeOK /\ RegistryInv /\ StartInv /\ r \in Sessions
  BY DEF SummaryInv
<1>2. lock = r /\ ~started /\ ~sampling
  BY <1>1 DEF StartInv, CreateServices
<1>3. RegistryInv'
  BY <1>1, EnsureLocalNodeInv DEF CreateServices
<1>4. /\ req' \in [Requests -> Request] /\ req'[r].pc = "ensure"
      /\ \A q \in Requests \ {r} : req'[q] = req[q]
  BY <1>1, GotoStep DEF CreateServices
<1>5. TypeOK'
  BY <1>1, <1>3, <1>4, RequestRecords DEF TypeOK, RegistryInv, CreateServices
<1>6. Ensures(op'[r], row')
  <2>1. op \in [Sessions -> Operation]
    BY <1>1 DEF RegistryInv, RegistryTypeOK
  <2>2. CASE row[LocalNode].status = "absent"
    BY <1>1, <2>1, <2>2 DEF CreateServices, EnsureLocalNode, Ensures, NoOperation
  <2>3. CASE row[LocalNode].status # "absent"
    BY <1>1, <2>1, <2>3 DEF CreateServices, EnsureLocalNode, Ensures, NoOperation, Present
  <2>. QED
    BY <2>2, <2>3
<1>7. \A q \in Requests \ {r} : req[q].pc \notin {"create", "ensure", "spawn"}
  BY <1>1, <1>2 DEF StartInv
<1>8. sampling' = sampling /\ (sampling' <=> started' /\ background')
  BY <1>1, <1>2 DEF CreateServices, TypeOK
<1>9. StartInv'
  BY <1>2, <1>4, <1>6, <1>7, <1>8 DEF StartInv, CreateServices
<1>. QED
  BY <1>3, <1>5, <1>8, <1>9 DEF SummaryInv, CreateServices

\* The local node was found, or is inserted, and a mode is set.
LEMMA InitializeDefaultsInv ==
    ASSUME SummaryInv, NEW r \in Requests, InitializeDefaults(r)
    PROVE  SummaryInv'
<1>1. TypeOK /\ RegistryInv /\ StartInv /\ r \in Sessions
  BY DEF SummaryInv
<1>2. lock = r /\ ~started /\ Present(row, LocalNode)
  BY <1>1 DEF StartInv, Ensures, InitializeDefaults
<1>3. RegistryInv'
  BY <1>1, FinishInv DEF InitializeDefaults
<1>4. /\ req' \in [Requests -> Request] /\ req'[r].pc = "spawn"
      /\ \A q \in Requests \ {r} : req'[q] = req[q]
  BY <1>1, GotoStep DEF InitializeDefaults
<1>5. mode' \in Modes
  BY <1>1 DEF InitializeDefaults, TypeOK
<1>6. TypeOK'
  BY <1>1, <1>3, <1>4, <1>5 DEF TypeOK, RegistryInv, InitializeDefaults
<1>7. \A q \in Requests \ {r} : req[q].pc \notin {"create", "ensure", "spawn"}
  BY <1>1, <1>2 DEF StartInv
<1>8. StartInv'
  BY <1>1, <1>2, <1>4, <1>5, <1>7 DEF StartInv, InitializeDefaults, Present
<1>. QED
  BY <1>3, <1>6, <1>8 DEF SummaryInv, InitializeDefaults

\* The sampler starts, if one is to, and the flag is set, with the lock held.
LEMMA StartSamplerInv ==
    ASSUME SummaryInv, NEW r \in Requests, StartSampler(r)
    PROVE  SummaryInv'
<1>1. TypeOK /\ RegistryInv /\ StartInv /\ r \in Sessions
  BY DEF SummaryInv
<1>2. lock = r /\ ~started /\ ~sampling /\ samplers = 0 /\ Present(row, LocalNode) /\ mode # "unset"
  BY <1>1 DEF StartInv, StartSampler, SummaryInv
<1>3. RegistryInv'
  BY <1>1, RegistryStutters DEF StartSampler
<1>4. /\ req' \in [Requests -> Request] /\ req'[r].pc = "ready"
      /\ \A q \in Requests \ {r} : req'[q] = req[q]
  BY <1>1, GotoStep DEF StartSampler
<1>5. /\ samplers' = IF sampling' THEN 1 ELSE 0
      /\ (sampling' <=> background') /\ sampling' \in BOOLEAN /\ started' = TRUE
      /\ pass' \in {pass, "sample"}
  <2>1. CASE background
    BY <1>2, <2>1 DEF StartSampler
  <2>2. CASE ~background
    BY <1>1, <1>2, <2>2 DEF StartSampler, TypeOK
  <2>. QED
    BY <2>1, <2>2
<1>6. TypeOK'
  BY <1>1, <1>3, <1>4, <1>5 DEF TypeOK, RegistryInv, StartSampler
<1>7. \A q \in Requests \ {r} : req[q].pc \notin {"create", "ensure", "spawn"}
  BY <1>1, <1>2 DEF StartInv
<1>8. StartInv'
  BY <1>2, <1>4, <1>5, <1>7 DEF StartInv, StartSampler, registryVars
<1>. QED
  BY <1>3, <1>5, <1>6, <1>8 DEF SummaryInv

\* A start that fails gives the lock back and leaves no sampler.
LEMMA StartFailsInv ==
    ASSUME SummaryInv, NEW r \in Requests, StartFails(r)
    PROVE  SummaryInv'
<1>1. TypeOK /\ RegistryInv /\ StartInv /\ r \in Sessions
  BY DEF SummaryInv
<1>2. lock = r /\ ~started
  BY <1>1 DEF StartInv, StartFails
<1>3. RegistryInv'
  BY <1>1, FinishInv DEF StartFails
<1>4. /\ req' \in [Requests -> Request] /\ req'[r].pc = "idle"
      /\ \A q \in Requests \ {r} : req'[q] = req[q]
  BY <1>1, GotoStep DEF StartFails
<1>5. TypeOK'
  BY <1>1, <1>3, <1>4 DEF TypeOK, RegistryInv, StartFails
<1>6. \A q \in Requests \ {r} : req[q].pc \notin {"create", "ensure", "spawn"}
  BY <1>1, <1>2 DEF StartInv
<1>7. StartInv'
  BY <1>1, <1>2, <1>4, <1>6 DEF StartInv, StartFails
<1>. QED
  BY <1>3, <1>5, <1>7 DEF SummaryInv, StartFails

\* The cache is looked up.
LEMMA LookupInv ==
    ASSUME SummaryInv, NEW r \in Requests, Lookup(r)
    PROVE  SummaryInv'
<1>1. TypeOK /\ RegistryInv /\ StartInv /\ r \in Sessions
  BY DEF SummaryInv
<1>2. CASE cache.full /\ req' = [req EXCEPT ![r] = IdleRequest] /\ UNCHANGED op
  <2>1. RegistryInv'
    BY <1>1, <1>2, RegistryStutters DEF Lookup, registryVars
  <2>2. /\ req' \in [Requests -> Request] /\ req'[r].pc = "idle"
        /\ \A q \in Requests \ {r} : req'[q] = req[q]
    BY <1>1, <1>2, RequestRecords DEF TypeOK
  <2>3. TypeOK'
    BY <1>1, <2>1, <2>2 DEF TypeOK, RegistryInv, Lookup
  <2>4. StartInv'
    BY <1>1, <1>2, <2>2, OutsideStart DEF Lookup
  <2>. QED
    BY <2>1, <2>3, <2>4 DEF SummaryInv, Lookup
<1>3. CASE /\ req' = [req EXCEPT ![r] = [pc |-> "overview", value |-> Fresh]]
           /\ StartReading(r, 2)
  <2>1. RegistryInv'
    <3>1. 2 \in 1 .. 2
      OBVIOUS
    <3>. QED
      BY <1>1, <1>3, <3>1, StartReadingInv DEF Lookup
  <2>2. /\ req' \in [Requests -> Request] /\ req'[r].pc = "overview"
        /\ \A q \in Requests \ {r} : req'[q] = req[q]
    BY <1>1, <1>3, RequestRecords DEF TypeOK
  <2>3. TypeOK'
    BY <1>1, <2>1, <2>2 DEF TypeOK, RegistryInv, Lookup
  <2>4. \A q \in Requests \ {r} : op'[q] = op[q]
    BY <1>1, <1>3, OthersKeepOp DEF StartReading
  <2>5. StartInv'
    BY <1>1, <2>2, <2>4, OutsideStart DEF Lookup
  <2>. QED
    BY <2>1, <2>3, <2>5 DEF SummaryInv, Lookup
<1>. QED
  BY <1>2, <1>3 DEF Lookup

\* The mode is read into a value.
LEMMA ReadModeInv ==
    ASSUME SummaryInv, NEW r \in Requests, ReadMode(r)
    PROVE  SummaryInv'
<1>1. TypeOK /\ RegistryInv /\ StartInv /\ r \in Sessions
  BY DEF SummaryInv
<1>2. RegistryInv'
  BY <1>1, FinishInv DEF ReadMode
<1>3. /\ req' \in [Requests -> Request] /\ req'[r].pc = "store"
      /\ \A q \in Requests \ {r} : req'[q] = req[q]
  <2>1. PICK h : h = [req[r] EXCEPT !.pc = "store", !.value.mode = mode]
    OBVIOUS
  <2>2. req[r] \in Request /\ mode \in Modes \cup {"unset"}
    BY <1>1 DEF TypeOK
  <2>3. h \in Request /\ h.pc = "store"
    BY <2>1, <2>2 DEF Request, Summary
  <2>4. req' = [req EXCEPT ![r] = h]
    BY <2>1 DEF ReadMode
  <2>. QED
    BY <1>1, <2>3, <2>4 DEF TypeOK
<1>4. TypeOK'
  BY <1>1, <1>2, <1>3 DEF TypeOK, RegistryInv, ReadMode
<1>5. \A q \in Requests \ {r} : op'[q] = op[q]
  BY <1>1, OthersKeepOp DEF ReadMode, Finish
<1>6. StartInv'
  BY <1>1, <1>3, <1>5, OutsideStart DEF ReadMode
<1>. QED
  BY <1>2, <1>4, <1>6 DEF SummaryInv, ReadMode

\* The value is stored in the cache.
LEMMA StoreInv ==
    ASSUME SummaryInv, NEW r \in Requests, Store(r)
    PROVE  SummaryInv'
<1>1. TypeOK /\ RegistryInv /\ StartInv
  BY DEF SummaryInv
<1>2. RegistryInv'
  BY <1>1, RegistryStutters DEF Store
<1>3. /\ req' \in [Requests -> Request] /\ req'[r].pc = "idle"
      /\ \A q \in Requests \ {r} : req'[q] = req[q]
  BY <1>1, RequestRecords DEF TypeOK, Store
<1>4. cache' \in [full: BOOLEAN, age: 0 .. CacheTTL, value: Summary]
  <2>1. req[r].value \in Summary
    BY <1>1 DEF TypeOK, Request
  <2>. QED
    BY <2>1 DEF Store
<1>5. TypeOK'
  BY <1>1, <1>2, <1>3, <1>4 DEF TypeOK, RegistryInv, Store
<1>6. StartInv'
  BY <1>1, <1>3, OutsideStart DEF Store, registryVars
<1>. QED
  BY <1>2, <1>5, <1>6 DEF SummaryInv, Store

\* A request that raises while it makes its answer.
LEMMA SummaryFailsInv ==
    ASSUME SummaryInv, NEW r \in Requests, SummaryFails(r)
    PROVE  SummaryInv'
<1>1. TypeOK /\ RegistryInv /\ StartInv /\ r \in Sessions
  BY DEF SummaryInv
<1>2. RegistryInv'
  BY <1>1, FinishInv DEF SummaryFails
<1>3. /\ req' \in [Requests -> Request] /\ req'[r].pc = "idle"
      /\ \A q \in Requests \ {r} : req'[q] = req[q]
  BY <1>1, RequestRecords DEF TypeOK, SummaryFails
<1>4. TypeOK'
  BY <1>1, <1>2, <1>3 DEF TypeOK, RegistryInv, SummaryFails
<1>5. \A q \in Requests \ {r} : op'[q] = op[q]
  BY <1>1, OthersKeepOp DEF SummaryFails, Finish
<1>6. StartInv'
  BY <1>1, <1>3, <1>5, OutsideStart DEF SummaryFails
<1>. QED
  BY <1>2, <1>4, <1>6 DEF SummaryInv, SummaryFails

\* An operator sets the mode.
LEMMA SetAutonomyModeInv ==
    ASSUME SummaryInv, NEW r \in Requests, SetAutonomyMode(r)
    PROVE  SummaryInv'
<1>1. TypeOK /\ RegistryInv /\ StartInv
  BY DEF SummaryInv
<1>2. RegistryInv'
  BY <1>1, RegistryStutters DEF SetAutonomyMode
<1>3. /\ req' \in [Requests -> Request] /\ req'[r].pc = "idle"
      /\ \A q \in Requests \ {r} : req'[q] = req[q]
  BY <1>1, GotoStep DEF SetAutonomyMode
<1>4. TypeOK'
  BY <1>1, <1>2, <1>3 DEF TypeOK, RegistryInv, SetAutonomyMode
<1>5. StartInv'
  BY <1>1, <1>3, OutsideStart DEF SetAutonomyMode, registryVars
<1>. QED
  BY <1>2, <1>4, <1>5 DEF SummaryInv, SetAutonomyMode

\* A heartbeat is accepted, and answered.
LEMMA BeatInv ==
    ASSUME SummaryInv, NEW r \in Requests, Beat(r)
    PROVE  SummaryInv'
<1>1. TypeOK /\ RegistryInv /\ StartInv /\ r \in Sessions
  BY DEF SummaryInv
<1>2. RegistryInv'
  BY <1>1, HeartbeatLoadInv DEF Beat
<1>3. /\ req' \in [Requests -> Request] /\ req'[r].pc = "beat"
      /\ \A q \in Requests \ {r} : req'[q] = req[q]
  BY <1>1, GotoStep DEF Beat
<1>4. TypeOK'
  BY <1>1, <1>2, <1>3 DEF TypeOK, RegistryInv, Beat
<1>5. \A q \in Requests \ {r} : op'[q] = op[q]
  BY <1>1, OthersKeepOp DEF Beat, HeartbeatLoad
<1>6. StartInv'
  BY <1>1, <1>3, <1>5, OutsideStart DEF Beat
<1>. QED
  BY <1>2, <1>4, <1>6 DEF SummaryInv, Beat

LEMMA BeatAnsweredInv ==
    ASSUME SummaryInv, NEW r \in Requests, BeatAnswered(r)
    PROVE  SummaryInv'
<1>1. TypeOK /\ RegistryInv /\ StartInv /\ r \in Sessions
  BY DEF SummaryInv
<1>2. RegistryInv'
  BY <1>1, FinishInv DEF BeatAnswered
<1>3. /\ req' \in [Requests -> Request] /\ req'[r].pc = "idle"
      /\ \A q \in Requests \ {r} : req'[q] = req[q]
  BY <1>1, GotoStep DEF BeatAnswered
<1>4. TypeOK'
  BY <1>1, <1>2, <1>3 DEF TypeOK, RegistryInv, BeatAnswered
<1>5. \A q \in Requests \ {r} : op'[q] = op[q]
  BY <1>1, OthersKeepOp DEF BeatAnswered, Finish
<1>6. StartInv'
  BY <1>1, <1>3, <1>5, OutsideStart DEF BeatAnswered
<1>. QED
  BY <1>2, <1>4, <1>6 DEF SummaryInv, BeatAnswered

-----------------------------------------------------------------------------
(* The sampler, statements, time and restarts. *)

\* A step of the sampler: what the start rests on stays as it is.
LEMMA SamplerStep ==
    ASSUME StartInv, \A q \in Requests : req'[q].pc = req[q].pc /\ op'[q] = op[q],
           UNCHANGED <<row, background, lock, started, sampling, mode>>
    PROVE  StartInv'
BY DEF StartInv

\* The sampler records a snapshot, which supersedes every value made before.
LEMMA RecordSnapshotInv ==
    ASSUME SummaryInv, RecordSnapshot
    PROVE  SummaryInv'
<1>1. TypeOK /\ RegistryInv /\ StartInv
  BY DEF SummaryInv
<1>2. RegistryInv'
  BY <1>1, RegistryStutters DEF RecordSnapshot
<1>3. req' \in [Requests -> Request] /\ \A q \in Requests : req'[q].pc = req[q].pc
  <2>1. ASSUME NEW q \in Requests PROVE req'[q] \in Request /\ req'[q].pc = req[q].pc
    <3>1. req[q] \in Request
      BY <1>1 DEF TypeOK
    <3>2. PICK h : h = [req[q] EXCEPT !.value.old = TRUE]
      OBVIOUS
    <3>3. h \in Request /\ h.pc = req[q].pc
      BY <3>1, <3>2 DEF Request, Summary
    <3>4. req'[q] = h \/ req'[q] = req[q]
      BY <3>2 DEF RecordSnapshot
    <3>. QED
      BY <3>1, <3>3, <3>4
  <2>. QED
    BY <2>1 DEF RecordSnapshot
<1>4. cache' \in [full: BOOLEAN, age: 0 .. CacheTTL, value: Summary]
  BY <1>1 DEF TypeOK, RecordSnapshot, Summary
<1>5. TypeOK'
  BY <1>1, <1>2, <1>3, <1>4 DEF TypeOK, RegistryInv, RecordSnapshot
<1>6. StartInv'
  BY <1>1, <1>3, SamplerStep DEF RecordSnapshot, registryVars
<1>. QED
  BY <1>2, <1>5, <1>6 DEF SummaryInv, RecordSnapshot

\* The sampler updates the local node as a session of its own.
LEMMA UpdateLocalNodeInv ==
    ASSUME SummaryInv, UpdateLocalNode
    PROVE  SummaryInv'
<1>1. TypeOK /\ RegistryInv /\ StartInv /\ Sampler \in Sessions
  BY DEF SummaryInv
<1>2. RegistryInv'
  BY <1>1, HeartbeatLoadInv DEF UpdateLocalNode
<1>3. TypeOK'
  BY <1>1, <1>2 DEF TypeOK, RegistryInv, UpdateLocalNode
<1>4. \A q \in Requests : op'[q] = op[q]
  BY <1>1, OthersKeepOp DEF UpdateLocalNode, HeartbeatLoad
<1>5. StartInv'
  BY <1>1, <1>4, SamplerStep DEF UpdateLocalNode
<1>. QED
  BY <1>2, <1>3, <1>5 DEF SummaryInv, UpdateLocalNode

\* The pass clears the cache, or ends before that.
LEMMA PassEndsInv ==
    ASSUME SummaryInv, ClearCache \/ PassFails
    PROVE  SummaryInv'
<1>1. TypeOK /\ RegistryInv /\ StartInv /\ Sampler \in Sessions
  BY DEF SummaryInv
<1>2. RegistryInv'
  BY <1>1, FinishInv DEF ClearCache, PassFails
<1>3. TypeOK'
  BY <1>1, <1>2, RequestRecords DEF TypeOK, RegistryInv, ClearCache, PassFails
<1>4. \A q \in Requests : op'[q] = op[q]
  BY <1>1, OthersKeepOp DEF ClearCache, PassFails, Finish
<1>5. StartInv'
  BY <1>1, <1>4, SamplerStep DEF ClearCache, PassFails
<1>. QED
  BY <1>2, <1>3, <1>5 DEF SummaryInv, ClearCache, PassFails

\* A step of the registry alone.
LEMMA RegistryStep ==
    ASSUME StartInv, UNCHANGED <<background, lock, started, sampling, req, mode>>,
           \A n \in Nodes : Present(row, n) => Present(row', n),
           \A u \in Sessions : Ensures(op[u], row) => Ensures(op'[u], row')
    PROVE  StartInv'
BY DEF StartInv

\* A statement of the operation a thread runs.
LEMMA StatementInv ==
    ASSUME SummaryInv, NEW s \in Sessions, Statement(s)
    PROVE  SummaryInv'
<1>1. TypeOK /\ RegistryInv /\ StartInv
  BY DEF SummaryInv
<1>2. /\ RegistryInv'
      /\ \A n \in Nodes : Present(row, n) => Present(row', n)
      /\ \A u \in Sessions : Ensures(op[u], row) => Ensures(op'[u], row')
  BY <1>1, OperateKeeps DEF Statement
<1>3. TypeOK'
  BY <1>1, <1>2 DEF TypeOK, RegistryInv, Statement
<1>4. StartInv'
  BY <1>1, <1>2, RegistryStep DEF Statement
<1>. QED
  BY <1>2, <1>3, <1>4 DEF SummaryInv, Statement

\* Time passes.
LEMMA TickInv ==
    ASSUME SummaryInv, Tick
    PROVE  SummaryInv'
<1>1. TypeOK /\ RegistryInv /\ StartInv
  BY DEF SummaryInv
<1>2. /\ RegistryInv'
      /\ \A n \in Nodes : Present(row, n) => Present(row', n)
      /\ \A u \in Sessions : Ensures(op[u], row) => Ensures(op'[u], row')
  BY <1>1, AgeInv, AgeKeeps DEF Tick
<1>3. Aged(cache) \in [full: BOOLEAN, age: 0 .. CacheTTL, value: Summary]
  <2>1. cache \in [full: BOOLEAN, age: 0 .. CacheTTL, value: Summary]
    BY <1>1 DEF TypeOK
  <2>2. CASE ~cache.full \/ cache.age = CacheTTL
    BY <2>2, RequestRecords DEF Aged
  <2>3. CASE cache.full /\ cache.age # CacheTTL
    <3>1. cache.age + 1 \in 0 .. CacheTTL
      BY <2>1, <2>3
    <3>. QED
      BY <2>1, <2>3, <3>1 DEF Aged
  <2>. QED
    BY <2>1, <2>2, <2>3
<1>4. TypeOK'
  BY <1>1, <1>2, <1>3 DEF TypeOK, RegistryInv, Tick
<1>5. StartInv'
  BY <1>1, <1>2, RegistryStep DEF Tick
<1>. QED
  BY <1>2, <1>4, <1>5 DEF SummaryInv, Tick

\* The process restarts: threads, services and cache are gone, the tables stay.
LEMMA RestartInv ==
    ASSUME SummaryInv, Restart
    PROVE  SummaryInv'
<1>1. TypeOK /\ RegistryInv
  BY DEF SummaryInv
<1>2. RegistryInv'
  <2>1. \A s \in Sessions : op'[s] = NoOperation
    BY DEF Restart
  <2>2. RegistryTypeOK' /\ OfflineNeedsOverlap'
    BY <1>1, <2>1, NoOperationFine DEF Restart, RegistryInv, RegistryTypeOK, OfflineNeedsOverlap
  <2>3. \A s \in Sessions : OpFine(op'[s], row', raced')
    BY <2>1, NoOperationFine DEF Restart
  <2>. QED
    BY <2>2, <2>3 DEF RegistryInv
<1>3. TypeOK'
  BY <1>1, <1>2, RequestRecords DEF TypeOK, RegistryInv, Restart
<1>4. StartInv'
  BY RequestRecords DEF StartInv, Restart
<1>. QED
  BY <1>2, <1>3, <1>4 DEF SummaryInv, Restart

-----------------------------------------------------------------------------

\* At first nothing is started.
LEMMA SummaryInit ==
    ASSUME Init
    PROVE  SummaryInv
<1>1. RegistryInv
  BY InitInv DEF Init
<1>2. TypeOK
  BY <1>1, RequestRecords DEF TypeOK, RegistryInv, Init
<1>3. StartInv
  BY RequestRecords DEF StartInv, Init
<1>. QED
  BY <1>1, <1>2, <1>3 DEF SummaryInv, Init

\* Every step keeps the strengthened invariant.
LEMMA SummaryStep ==
    ASSUME SummaryInv, [Next]_vars
    PROVE  SummaryInv'
<1>1. CASE UNCHANGED vars
  <2>1. RegistryInv'
    BY <1>1, RegistryStutters DEF SummaryInv, vars
  <2>2. TypeOK'
    BY <1>1, <2>1 DEF SummaryInv, TypeOK, RegistryInv, vars
  <2>3. StartInv'
    BY <1>1, SamplerStep DEF SummaryInv, vars, registryVars
  <2>. QED
    BY <1>1, <2>1, <2>2, <2>3 DEF SummaryInv, vars
<1>2. ASSUME NEW r \in Requests, Serve(r) PROVE SummaryInv'
  <2>1. r \in Sessions
    OBVIOUS
  <2>2. CASE Statement(r)
    BY <2>1, <2>2, StatementInv
  <2>. QED
    BY <1>2, <2>2, AcquireInv, CreateServicesInv, InitializeDefaultsInv, StartSamplerInv,
       StartFailsInv, LookupInv, ReadModeInv, StoreInv, SummaryFailsInv, SetAutonomyModeInv,
       BeatInv, BeatAnsweredInv
       DEF Serve
<1>3. CASE Sample
  <2>1. Sampler \in Sessions
    OBVIOUS
  <2>2. CASE Statement(Sampler)
    BY <2>1, <2>2, StatementInv
  <2>. QED
    BY <1>3, <2>2, RecordSnapshotInv, UpdateLocalNodeInv, PassEndsInv DEF Sample
<1>. QED
  BY <1>1, <1>2, <1>3, ArriveInv, TickInv, RestartInv DEF Next

\* The inductive invariant holds throughout: however requests, the sampler and
\* restarts of the process interleave, who starts the services does it alone.
THEOREM SummaryInvariance == Spec => []SummaryInv
<1>1. Init => SummaryInv
  BY SummaryInit
<1>2. SummaryInv /\ [Next]_vars => SummaryInv'
  BY SummaryStep
<1>. QED
  BY <1>1, <1>2, PTL DEF Spec

\* Tables, lock, threads and cache hold what they can hold.
THEOREM SummaryTypeCorrect == Spec => []TypeOK
<1>1. SummaryInv => TypeOK
  BY DEF SummaryInv
<1>. QED
  BY <1>1, SummaryInvariance, PTL

\* before_request and RuntimeManager.start bring up one sampler if the
\* configuration lets them, and none otherwise, however many first requests
\* overlap and however often the start fails half way.
THEOREM OneSamplerRuns == Spec => []OneSampler
<1>1. SummaryInv => OneSampler
  BY DEF SummaryInv, StartInv, OneSampler, Present
<1>. QED
  BY <1>1, SummaryInvariance, PTL

\* Readers of the application as it calls the registry never report a node
\* online that was not seen within the TTL before their sweep; and a node that
\* was seen is offline only after a heartbeat that reported it or was overlapped.
THEOREM SummaryNodesWereSeen == Spec => [](OfflineNeedsOverlap /\ OnlineIsFresh)
<1>1. SummaryInv => OfflineNeedsOverlap /\ OnlineIsFresh
  BY DEF SummaryInv, RegistryInv, OpFine, OnlineIsFresh
<1>. QED
  BY <1>1, SummaryInvariance, PTL

=============================================================================
