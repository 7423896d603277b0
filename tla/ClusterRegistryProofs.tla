----------------------- MODULE ClusterRegistryProofs -----------------------
(***************************************************************************)
(* Proofs about ClusterRegistry, for any nodes, sessions, reported         *)
(* statuses and times: its type invariant, OfflineNeedsOverlap and         *)
(* OnlineIsFresh.                                                          *)
(***************************************************************************)
EXTENDS ClusterRegistry, TLAPS

USE RegistryAssumption DEF RegistryAssumption

\* Node n, if it is online, was seen at most a TTL before the last SELECT of h.
Seen(h, table, n) ==
    table[n].status = "online" /\ h.lag < MaxLag => table[n].age <= TTL + h.lag

\* What an operation may rely on in the table, and what it must not forget.
\* commit: an update of a node that went offline since it was loaded knows it.  mark: a selected node is old or its heartbeat was
\* raced; the others were seen.
OpFine(h, table, overlapped) ==
    /\ h.pc = "commit" =>
         /\ h.node \in Nodes
         /\ h.reported \in Reported
         /\ h.lag <= LockWait
         /\ table[h.node].status = "offline" /\ h.loaded # "offline" => h.swept
    /\ h.pc \in {"sweep", "mark"} => h.sweeps \in 1 .. 2
    /\ h.pc = "mark" =>
         \A n \in Nodes : IF n \in h.stale THEN table[n].age > TTL \/ n \in overlapped
                                           ELSE Seen(h, table, n)
    /\ h.pc = "list" => \A n \in Nodes : Seen(h, table, n)
    /\ h.pc # "done" => h.online = {}
    /\ \A n \in h.online : h.lag < MaxLag => table[n].age <= TTL + h.lag

RegistryInv ==
    /\ RegistryTypeOK
    /\ OfflineNeedsOverlap
    /\ \A s \in Sessions : OpFine(op[s], row, raced)

-----------------------------------------------------------------------------
(* Steps that change one operation and nothing else. *)

\* A session without an operation owes nothing.
LEMMA NoOperationFine ==
    NoOperation \in Operation /\ OpFine(NoOperation, row, raced)
BY DEF NoOperation, Operation, OpFine

\* A step that changes the operation of one session, and not the table, need only
\* leave that operation fine.
LEMMA OneOperation ==
    ASSUME RegistryInv, NEW s \in Sessions, NEW h \in Operation, OpFine(h, row, raced),
           op' = [op EXCEPT ![s] = h], UNCHANGED <<row, raced, told>>
    PROVE  RegistryInv'
<1>1. RegistryTypeOK'
  BY DEF RegistryInv, RegistryTypeOK
<1>2. OfflineNeedsOverlap'
  BY DEF RegistryInv, OfflineNeedsOverlap
<1>3. ASSUME NEW u \in Sessions PROVE OpFine(op'[u], row', raced')
  BY DEF RegistryInv, RegistryTypeOK
<1>. QED
  BY <1>1, <1>2, <1>3 DEF RegistryInv

\* An operation that ends, and one that has loaded a row.
LEMMA Ended ==
    ASSUME NEW pc \in {"idle", "done", "failed"}, NEW h, h = [NoOperation EXCEPT !.pc = pc]
    PROVE  h \in Operation /\ OpFine(h, row, raced)
<1>1. h \in Operation
  BY NoOperationFine DEF Operation
<1>2. h.pc = pc /\ h.online = {}
  BY DEF NoOperation
<1>. QED
  BY <1>1, <1>2 DEF OpFine

\* What a heartbeat is once it has loaded its node.
LEMMA HasLoaded ==
    ASSUME NEW pc \in {"commit", "failed"}, NEW n \in Nodes, NEW reported \in Reported,
           row[n].status \in Statuses, NEW h,
           h = [NoOperation EXCEPT !.pc = pc, !.node = n, !.loaded = row[n].status,
                                   !.reported = reported]
    PROVE  h \in Operation /\ OpFine(h, row, raced)
<1>1. h \in Operation
  BY NoOperationFine DEF Operation
<1>2. /\ h.pc = pc /\ h.node = n /\ h.loaded = row[n].status /\ h.reported = reported
      /\ h.lag = 0 /\ h.online = {}
  BY DEF NoOperation
<1>. QED
  BY <1>1, <1>2 DEF OpFine

\* An operation that ends.
LEMMA FinishInv ==
    ASSUME RegistryInv, NEW s \in Sessions, Finish(s), UNCHANGED <<row, raced, told>>
    PROVE  RegistryInv'
BY NoOperationFine, OneOperation DEF Finish

\* Any statement may raise; nothing is written.
LEMMA RaiseInv ==
    ASSUME RegistryInv, NEW s \in Sessions, Raise(s)
    PROVE  RegistryInv'
BY Ended, OneOperation DEF Raise

\* record_heartbeat has loaded the node.
LEMMA HeartbeatLoadInv ==
    ASSUME RegistryInv, NEW s \in Sessions, NEW n \in Nodes, NEW status \in Reported,
           HeartbeatLoad(s, n, status), UNCHANGED <<row, raced, told>>
    PROVE  RegistryInv'
<1>1. row[n].status \in Statuses
  BY DEF RegistryInv, RegistryTypeOK, Row
<1>. QED
  BY <1>1, HasLoaded, OneOperation DEF HeartbeatLoad

\* ensure_local_node has looked for the local node.
LEMMA EnsureLocalNodeInv ==
    ASSUME RegistryInv, NEW s \in Sessions, EnsureLocalNode(s), UNCHANGED <<row, raced, told>>
    PROVE  RegistryInv'
<1>1. CASE row[LocalNode].status = "absent"
  <2>1. row[LocalNode].status \in Statuses
    BY <1>1 DEF Statuses
  <2>. QED
    BY <1>1, <2>1, HasLoaded, OneOperation DEF EnsureLocalNode
<1>2. CASE row[LocalNode].status # "absent"
  BY <1>2, Ended, OneOperation DEF EnsureLocalNode
<1>. QED
  BY <1>1, <1>2

\* A reader begins, with one sweep before its query or two.
LEMMA StartReadingInv ==
    ASSUME RegistryInv, NEW s \in Sessions, NEW sweeps \in 1 .. 2,
           StartReading(s, sweeps), UNCHANGED <<row, raced, told>>
    PROVE  RegistryInv'
<1>1. PICK h : h = [NoOperation EXCEPT !.pc = "sweep", !.sweeps = sweeps]
  OBVIOUS
<1>2. h \in Operation
  <2>1. sweeps \in 0 .. 2
    OBVIOUS
  <2>. QED
    BY <1>1, <2>1, NoOperationFine DEF Operation
<1>3. h.pc = "sweep" /\ h.sweeps = sweeps /\ h.online = {}
  BY <1>1 DEF NoOperation
<1>4. OpFine(h, row, raced)
  BY <1>3 DEF OpFine
<1>. QED
  BY <1>1, <1>2, <1>4, OneOperation DEF StartReading

\* The query behind the sweeps: what it returns online was not selected as stale.
LEMMA ListInv ==
    ASSUME RegistryInv, NEW s \in Sessions, List(s)
    PROVE  RegistryInv'
<1>1. PICK h : h = [op[s] EXCEPT !.pc = "done",
                                 !.online = {n \in Nodes : row[n].status = "online"}]
  OBVIOUS
<1>2. op[s] \in Operation /\ OpFine(op[s], row, raced) /\ op[s].pc = "list"
  BY DEF RegistryInv, RegistryTypeOK, List
<1>3. h \in Operation
  BY <1>1, <1>2 DEF Operation
<1>4. /\ h.pc = "done" /\ h.lag = op[s].lag
      /\ h.online = {n \in Nodes : row[n].status = "online"}
  BY <1>1, <1>2 DEF Operation
<1>5. OpFine(h, row, raced)
  BY <1>2, <1>4 DEF OpFine, Seen
<1>. QED
  BY <1>1, <1>3, <1>5, OneOperation DEF List

-----------------------------------------------------------------------------
(* Sweeps, commits and time. *)

\* The SELECT of a sweep takes the nodes older than the TTL and no other.
LEMMA SweepSelectInv ==
    ASSUME RegistryInv, NEW s \in Sessions, SweepSelect(s)
    PROVE  RegistryInv'
<1>1. op[s] \in Operation /\ OpFine(op[s], row, raced) /\ op[s].pc = "sweep"
  BY DEF RegistryInv, RegistryTypeOK, SweepSelect
<1>2. op[s].sweeps \in 1 .. 2 /\ op[s].online = {}
  BY <1>1 DEF OpFine
<1>3. \A n \in Nodes : row[n] \in Row
  BY DEF RegistryInv, RegistryTypeOK
<1>4. CASE Stale = {}
  <2>1. PICK h : h = [op[s] EXCEPT !.pc = AfterSweep(op[s]), !.sweeps = @ - 1, !.lag = 0]
    OBVIOUS
  <2>2. h \in Operation
    <3>1. /\ op[s].sweeps - 1 \in 0 .. 2 /\ 0 \in 0 .. MaxLag
          /\ AfterSweep(op[s]) \in {"list", "sweep"}
      BY <1>2 DEF AfterSweep
    <3>. QED
      BY <1>1, <2>1, <3>1 DEF Operation
  <2>3. /\ h.pc = AfterSweep(op[s]) /\ h.sweeps = op[s].sweeps - 1
        /\ h.lag = 0 /\ h.online = {}
    BY <1>1, <1>2, <2>1 DEF Operation
  <2>4. \A n \in Nodes : Seen(h, row, n)
    BY <1>3, <1>4, <2>3 DEF Seen, Stale, Row
  <2>5. OpFine(h, row, raced)
    BY <1>2, <2>3, <2>4 DEF OpFine, AfterSweep
  <2>. QED
    BY <1>4, <2>1, <2>2, <2>5, OneOperation DEF SweepSelect
<1>5. CASE Stale # {}
  <2>1. PICK h : h = [op[s] EXCEPT !.pc = "mark", !.stale = Stale, !.lag = 0]
    OBVIOUS
  <2>2. h \in Operation
    <3>1. Stale \in SUBSET Nodes /\ 0 \in 0 .. MaxLag
      BY DEF Stale
    <3>. QED
      BY <1>1, <2>1, <3>1 DEF Operation
  <2>3. /\ h.pc = "mark" /\ h.stale = Stale /\ h.sweeps = op[s].sweeps
        /\ h.lag = 0 /\ h.online = {}
    BY <1>1, <1>2, <2>1 DEF Operation
  <2>4. \A n \in Nodes : IF n \in h.stale THEN row[n].age > TTL ELSE Seen(h, row, n)
    <3>1. \A n \in Nodes : n \in Stale => row[n].age > TTL
      BY DEF Stale
    <3>2. \A n \in Nodes : n \notin Stale => Seen(h, row, n)
      BY <1>3, <2>3 DEF Seen, Stale, Row
    <3>. QED
      BY <2>3, <3>1, <3>2
  <2>5. OpFine(h, row, raced)
    BY <1>2, <2>3, <2>4 DEF OpFine
  <2>. QED
    BY <1>5, <2>1, <2>2, <2>5, OneOperation DEF SweepSelect
<1>. QED
  BY <1>4, <1>5

\* What is left of an operation that another session overtakes.
LEMMA OvertakenFact ==
    ASSUME NEW g \in Operation, NEW nodes, NEW h, h = Overtaken(g, nodes)
    PROVE  /\ h \in Operation
           /\ h.pc = g.pc /\ h.node = g.node /\ h.loaded = g.loaded
           /\ h.reported = g.reported /\ h.sweeps = g.sweeps /\ h.stale = g.stale
           /\ h.online = g.online /\ h.lag = g.lag
           /\ h.swept <=> g.swept \/ (g.pc = "commit" /\ g.node \in nodes)
<1>1. h = [g EXCEPT !.swept = g.swept \/ (g.pc = "commit" /\ g.node \in nodes)]
  BY DEF Overtaken
<1>2. (g.swept \/ (g.pc = "commit" /\ g.node \in nodes)) \in BOOLEAN
  OBVIOUS
<1>. QED
  BY <1>1, <1>2 DEF Operation

\* The commit of a sweep: whoever loaded a node it marks now knows it was swept.
LEMMA SweepMarkInv ==
    ASSUME RegistryInv, NEW s \in Sessions, SweepMark(s)
    PROVE  RegistryInv'
<1>1. op[s] \in Operation /\ OpFine(op[s], row, raced) /\ op[s].pc = "mark"
  BY DEF RegistryInv, RegistryTypeOK, SweepMark
<1>2. /\ op[s].sweeps \in 1 .. 2 /\ op[s].online = {}
      /\ \A n \in op[s].stale : row[n].age > TTL \/ n \in raced
      /\ \A n \in Nodes \ op[s].stale : Seen(op[s], row, n)
  BY <1>1 DEF OpFine, Operation
<1>3. \A n \in Nodes : row[n] \in Row
  BY DEF RegistryInv, RegistryTypeOK
<1>4. row' = [n \in Nodes |-> IF n \in op[s].stale THEN [row[n] EXCEPT !.status = "offline"]
                                                   ELSE row[n]]
  BY DEF SweepMark
<1>5. /\ \A n \in Nodes : row'[n] \in Row /\ row'[n].age = row[n].age
      /\ \A n \in Nodes : n \in op[s].stale => row'[n].status = "offline"
      /\ \A n \in Nodes : n \notin op[s].stale => row'[n].status = row[n].status
  BY <1>3, <1>4 DEF Row, Statuses
<1>6. raced' = raced /\ told' = told
  BY DEF SweepMark
<1>7. op'[s] \in Operation /\ OpFine(op'[s], row', raced')
  <2>1. PICK h : h = [op[s] EXCEPT !.pc = AfterSweep(op[s]), !.sweeps = @ - 1, !.stale = {}]
    OBVIOUS
  <2>2. op'[s] = h
    BY <2>1 DEF SweepMark
  <2>3. h \in Operation
    <3>1. /\ op[s].sweeps - 1 \in 0 .. 2 /\ {} \in SUBSET Nodes
          /\ AfterSweep(op[s]) \in {"list", "sweep"}
      BY <1>2 DEF AfterSweep
    <3>. QED
      BY <1>1, <2>1, <3>1 DEF Operation
  <2>4. /\ h.pc = AfterSweep(op[s]) /\ h.sweeps = op[s].sweeps - 1
        /\ h.lag = op[s].lag /\ h.online = {}
    BY <1>1, <1>2, <2>1 DEF Operation
  <2>5. \A n \in Nodes : Seen(h, row', n)
    BY <1>2, <1>5, <2>4 DEF Seen
  <2>6. OpFine(h, row', raced')
    BY <1>2, <2>4, <2>5 DEF OpFine, AfterSweep
  <2>. QED
    BY <2>2, <2>3, <2>6
<1>8. ASSUME NEW u \in Sessions, u # s
      PROVE  op'[u] \in Operation /\ OpFine(op'[u], row', raced')
  <2>1. op[u] \in Operation /\ OpFine(op[u], row, raced)
    BY DEF RegistryInv, RegistryTypeOK
  <2>2. PICK h : h = Overtaken(op[u], op[s].stale)
    OBVIOUS
  <2>3. op'[u] = h
    BY <1>8, <2>2 DEF SweepMark
  <2>4. h \in Operation
    BY <2>1, <2>2, OvertakenFact
  <2>5. /\ h.pc = op[u].pc /\ h.node = op[u].node /\ h.loaded = op[u].loaded
        /\ h.reported = op[u].reported /\ h.sweeps = op[u].sweeps /\ h.stale = op[u].stale
        /\ h.online = op[u].online /\ h.lag = op[u].lag
    BY <2>1, <2>2, OvertakenFact
  <2>6. h.swept <=> op[u].swept \/ (op[u].pc = "commit" /\ op[u].node \in op[s].stale)
    BY <2>1, <2>2, OvertakenFact
  <2>7. \A n \in Nodes : Seen(op[u], row, n) => Seen(h, row', n)
    BY <1>5, <2>5 DEF Seen
  <2>8. h.online \subseteq Nodes
    BY <2>4 DEF Operation
  <2>9. OpFine(h, row', raced')
    <3>1. h.pc = "commit" =>
            /\ h.node \in Nodes
            /\ h.reported \in Reported
            /\ h.lag <= LockWait
            /\ row'[h.node].status = "offline" /\ h.loaded # "offline" => h.swept
      BY <1>5, <2>1, <2>5, <2>6 DEF OpFine
    <3>2. h.pc = "mark" =>
            \A n \in Nodes : IF n \in h.stale THEN row'[n].age > TTL \/ n \in raced'
                                              ELSE Seen(h, row', n)
      BY <1>5, <1>6, <2>1, <2>5, <2>7 DEF OpFine
    <3>3. h.pc = "list" => \A n \in Nodes : Seen(h, row', n)
      BY <2>1, <2>5, <2>7 DEF OpFine
    <3>4. \A n \in h.online : h.lag < MaxLag => row'[n].age <= TTL + h.lag
      BY <1>5, <2>1, <2>5, <2>8 DEF OpFine
    <3>5. (h.pc \in {"sweep", "mark"} => h.sweeps \in 1 .. 2) /\ (h.pc # "done" => h.online = {})
      BY <2>1, <2>5 DEF OpFine
    <3>. QED
      BY <3>1, <3>2, <3>3, <3>4, <3>5 DEF OpFine
  <2>. QED
    BY <2>3, <2>4, <2>9
<1>9. RegistryTypeOK'
  <2>1. row' \in [Nodes -> Row]
    BY <1>4, <1>5
  <2>2. op' \in [Sessions -> Operation]
    <3>1. op' = [u \in Sessions |-> op'[u]]
      BY DEF SweepMark
    <3>. QED
      BY <3>1, <1>7, <1>8
  <2>. QED
    BY <1>6, <2>1, <2>2 DEF RegistryInv, RegistryTypeOK
<1>10. OfflineNeedsOverlap'
  BY <1>2, <1>3, <1>5, <1>6 DEF RegistryInv, OfflineNeedsOverlap, Row
<1>. QED
  BY <1>7, <1>8, <1>9, <1>10 DEF RegistryInv

\* The commit of a heartbeat: whoever selected the node is now in a race with it.
LEMMA CommitInv ==
    ASSUME RegistryInv, NEW s \in Sessions, Commit(s)
    PROVE  RegistryInv'
<1>1. op[s] \in Operation /\ OpFine(op[s], row, raced) /\ op[s].pc = "commit"
  BY DEF RegistryInv, RegistryTypeOK, Commit
<1>2. CASE /\ op' = [op EXCEPT ![s] = [NoOperation EXCEPT !.pc = "failed"]]
           /\ UNCHANGED <<row, raced, told>>
  BY <1>2, Ended, OneOperation
<1>3. PICK status :
        status = IF op[s].reported = op[s].loaded THEN row[op[s].node].status ELSE op[s].reported
  OBVIOUS
<1>4. ASSUME NEW age \in 0 .. op[s].lag,
             row' = [row EXCEPT ![op[s].node] = [status |-> status, age |-> age]],
             op' = [u \in Sessions |->
                      IF u = s THEN [NoOperation EXCEPT !.pc = "done"]
                      ELSE IF status = "offline" THEN Overtaken(op[u], {op[s].node}) ELSE op[u]],
             raced' = IF op[s].swept \/ BeingSwept(op[s].node)
                      THEN raced \cup {op[s].node} ELSE raced \ {op[s].node},
             told' = IF op[s].reported = "offline"
                     THEN told \cup {op[s].node} ELSE told \ {op[s].node}
      PROVE  RegistryInv'
  <2>1. PICK node : node = op[s].node
    OBVIOUS
  <2>2. /\ node \in Nodes /\ op[s].reported \in Reported /\ op[s].lag <= LockWait
        /\ row[node].status = "offline" /\ op[s].loaded # "offline" => op[s].swept
    BY <1>1, <2>1 DEF OpFine
  <2>3. \A n \in Nodes : row[n] \in Row
    BY DEF RegistryInv, RegistryTypeOK
  <2>4. age \in 0 .. MaxAge /\ age <= LockWait
    BY <1>1, <2>2 DEF Operation, MaxAge
  <2>5. status = IF op[s].reported = op[s].loaded THEN row[node].status ELSE op[s].reported
    BY <1>3, <2>1
  <2>6. status \in Statuses /\ (status = "offline" => op[s].reported = "offline" \/ op[s].swept)
    BY <2>2, <2>3, <2>5 DEF Statuses, Row
  <2>7. row' = [row EXCEPT ![node] = [status |-> status, age |-> age]]
    BY <1>4, <2>1
  <2>8. /\ \A n \in Nodes : n # node => row'[n] = row[n]
        /\ row'[node].status = status /\ row'[node].age = age
        /\ row' \in [Nodes -> Row]
    <3>1. row \in [Nodes -> Row] /\ [status |-> status, age |-> age] \in Row
      BY <2>4, <2>6 DEF RegistryInv, RegistryTypeOK, Row
    <3>. QED
      BY <2>2, <2>7, <3>1
  <2>9. /\ raced' \subseteq Nodes
        /\ \A n \in Nodes : n # node => (n \in raced' <=> n \in raced)
        /\ op[s].swept \/ BeingSwept(node) => node \in raced'
        /\ told' \subseteq Nodes
        /\ \A n \in Nodes : n # node => (n \in told' <=> n \in told)
        /\ op[s].reported = "offline" => node \in told'
    BY <1>4, <2>1, <2>2 DEF RegistryInv, RegistryTypeOK
  <2>10. op'[s] \in Operation /\ OpFine(op'[s], row', raced')
    <3>1. PICK h : h = [NoOperation EXCEPT !.pc = "done"]
      OBVIOUS
    <3>2. op'[s] = h
      BY <1>4, <3>1
    <3>3. h \in Operation
      BY <3>1, Ended
    <3>4. h.pc = "done" /\ h.online = {}
      BY <3>1 DEF NoOperation
    <3>. QED
      BY <3>2, <3>3, <3>4 DEF OpFine
  <2>11. ASSUME NEW u \in Sessions, u # s
         PROVE  op'[u] \in Operation /\ OpFine(op'[u], row', raced')
    <3>1. op[u] \in Operation /\ OpFine(op[u], row, raced)
      BY DEF RegistryInv, RegistryTypeOK
    <3>2. PICK h : h = op'[u]
      OBVIOUS
    <3>3. /\ h \in Operation
          /\ h.pc = op[u].pc /\ h.node = op[u].node /\ h.loaded = op[u].loaded
          /\ h.reported = op[u].reported /\ h.sweeps = op[u].sweeps /\ h.stale = op[u].stale
          /\ h.online = op[u].online /\ h.lag = op[u].lag
          /\ op[u].swept \/ (status = "offline" /\ h.pc = "commit" /\ h.node = node) => h.swept
      <4>1. CASE status = "offline"
        <5>1. h = Overtaken(op[u], {node})
          BY <1>4, <2>1, <2>11, <3>2, <4>1
        <5>. QED
          BY <3>1, <5>1, OvertakenFact
      <4>2. CASE status # "offline"
        <5>1. h = op[u]
          BY <1>4, <2>11, <3>2, <4>2
        <5>. QED
          BY <3>1, <4>2, <5>1
      <4>. QED
        BY <4>1, <4>2
    <3>4. h.lag \in Nat /\ h.online \subseteq Nodes /\ h.stale \subseteq Nodes
      BY <3>3 DEF Operation
    <3>5. \A n \in Nodes : Seen(op[u], row, n) => Seen(h, row', n)
      BY <2>4, <2>8, <3>3, <3>4 DEF Seen
    <3>6. h.pc = "commit" =>
            /\ h.node \in Nodes
            /\ h.reported \in Reported
            /\ h.lag <= LockWait
            /\ row'[h.node].status = "offline" /\ h.loaded # "offline" => h.swept
      BY <2>8, <3>1, <3>3 DEF OpFine
    <3>7. ASSUME h.pc = "mark", NEW n \in Nodes
          PROVE  IF n \in h.stale THEN row'[n].age > TTL \/ n \in raced'
                                  ELSE Seen(h, row', n)
      <4>1. CASE n \in h.stale /\ n = node
        BY <2>9, <3>3, <3>7, <4>1 DEF BeingSwept
      <4>2. CASE n \in h.stale /\ n # node
        BY <2>8, <2>9, <3>1, <3>3, <3>7, <4>2 DEF OpFine
      <4>3. CASE n \notin h.stale
        BY <3>1, <3>3, <3>5, <3>7, <4>3 DEF OpFine
      <4>. QED
        BY <4>1, <4>2, <4>3
    <3>8. h.pc = "list" => \A n \in Nodes : Seen(h, row', n)
      BY <3>1, <3>3, <3>5 DEF OpFine
    <3>9. ASSUME NEW n \in h.online, h.lag < MaxLag PROVE row'[n].age <= TTL + h.lag
      <4>1. row[n].age <= TTL + h.lag
        BY <3>1, <3>3, <3>9 DEF OpFine
      <4>. QED
        BY <2>4, <2>8, <3>4, <4>1
    <3>10. (h.pc \in {"sweep", "mark"} => h.sweeps \in 1 .. 2) /\ (h.pc # "done" => h.online = {})
      BY <3>1, <3>3 DEF OpFine
    <3>11. OpFine(h, row', raced')
      BY <3>6, <3>7, <3>8, <3>9, <3>10 DEF OpFine
    <3>. QED
      BY <3>2, <3>3, <3>11
  <2>12. RegistryTypeOK'
    <3>1. op' \in [Sessions -> Operation]
      <4>1. op' = [u \in Sessions |-> op'[u]]
        BY <1>4
      <4>. QED
        BY <4>1, <2>10, <2>11
    <3>. QED
      BY <2>8, <2>9, <3>1 DEF RegistryTypeOK
  <2>13. OfflineNeedsOverlap'
    <3>1. ASSUME NEW n \in Nodes, row'[n].status = "offline", row'[n].age <= TTL
          PROVE  n \in raced' \cup told'
      <4>1. CASE n = node
        BY <2>6, <2>8, <2>9, <3>1, <4>1
      <4>2. CASE n # node
        BY <2>8, <2>9, <3>1, <4>2 DEF RegistryInv, OfflineNeedsOverlap
      <4>. QED
        BY <4>1, <4>2
    <3>. QED
      BY <3>1 DEF OfflineNeedsOverlap
  <2>. QED
    BY <2>10, <2>11, <2>12, <2>13 DEF RegistryInv
<1>. QED
  BY <1>2, <1>3, <1>4 DEF Commit

\* Growing older: what grows stays within its bound, and never grows younger.
LEMMA OlderFact ==
    ASSUME NEW max \in Nat, NEW age \in 0 .. max
    PROVE  /\ Older(age, max) \in 0 .. max
           /\ age <= Older(age, max) /\ Older(age, max) <= age + 1
           /\ age < max => Older(age, max) = age + 1
           /\ age = max => Older(age, max) = max
BY DEF Older

\* Time passes for every node at once; no commit waits for longer than LockWait.
LEMMA AgeInv ==
    ASSUME RegistryInv, Age
    PROVE  RegistryInv'
<1>1. MaxAge \in Nat /\ MaxAge = TTL + MaxLag
  BY DEF MaxAge
<1>2. \A n \in Nodes : row[n] \in Row
  BY DEF RegistryInv, RegistryTypeOK
<1>3. ASSUME NEW n \in Nodes
      PROVE  /\ row'[n] \in Row /\ row'[n].status = row[n].status
             /\ row[n].age <= row'[n].age /\ row'[n].age <= row[n].age + 1
  <2>1. row'[n] = IF row[n].status = "absent" THEN row[n]
                  ELSE [row[n] EXCEPT !.age = Older(@, MaxAge)]
    BY DEF Age
  <2>2. CASE row[n].status = "absent"
    BY <1>2, <2>1, <2>2 DEF Row
  <2>3. CASE row[n].status # "absent"
    <3>1. /\ Older(row[n].age, MaxAge) \in 0 .. MaxAge
          /\ row[n].age <= Older(row[n].age, MaxAge)
          /\ Older(row[n].age, MaxAge) <= row[n].age + 1
      BY <1>1, <1>2, OlderFact DEF Row
    <3>. QED
      BY <1>2, <2>1, <2>3, <3>1 DEF Row
  <2>. QED
    BY <2>2, <2>3
<1>4. raced' = raced /\ told' = told
  BY DEF Age
<1>5. ASSUME NEW s \in Sessions
      PROVE  op'[s] \in Operation /\ OpFine(op'[s], row', raced')
  <2>1. op[s] \in Operation /\ OpFine(op[s], row, raced)
    BY DEF RegistryInv, RegistryTypeOK
  <2>2. op[s].lag \in 0 .. MaxLag /\ op[s].online \subseteq Nodes
    BY <2>1 DEF Operation
  <2>3. PICK lag : lag = CASE op[s].pc = "commit" -> Older(op[s].lag, LockWait)
                           [] op[s].online # {} \/ op[s].pc \in {"mark", "list"} ->
                                Older(op[s].lag, MaxLag)
                           [] OTHER -> op[s].lag
    OBVIOUS
  <2>4. /\ lag \in 0 .. MaxLag
        /\ op[s].pc = "commit" => lag <= LockWait
        /\ op[s].pc \in {"mark", "list"} \/ op[s].online # {} =>
             (lag < MaxLag => op[s].lag < MaxLag /\ lag = op[s].lag + 1)
    <3>1. CASE op[s].pc = "commit"
      <4>1. op[s].lag \in 0 .. LockWait /\ op[s].online = {}
        BY <2>1, <2>2, <3>1 DEF OpFine
      <4>2. Older(op[s].lag, LockWait) \in 0 .. LockWait
        BY <4>1, OlderFact
      <4>. QED
        BY <2>3, <3>1, <4>1, <4>2
    <3>2. CASE op[s].pc # "commit" /\ (op[s].online # {} \/ op[s].pc \in {"mark", "list"})
      <4>1. lag = Older(op[s].lag, MaxLag)
        BY <2>3, <3>2
      <4>2. /\ lag \in 0 .. MaxLag
            /\ op[s].lag < MaxLag => lag = op[s].lag + 1
            /\ op[s].lag = MaxLag => lag = MaxLag
        BY <2>2, <4>1, OlderFact
      <4>. QED
        BY <2>2, <3>2, <4>2
    <3>3. CASE op[s].pc # "commit" /\ ~(op[s].online # {} \/ op[s].pc \in {"mark", "list"})
      BY <2>2, <2>3, <3>3
    <3>. QED
      BY <3>1, <3>2, <3>3
  <2>5. op'[s] = [op[s] EXCEPT !.lag = lag]
    <3>1. op'[s] = CASE op[s].pc = "commit" -> [op[s] EXCEPT !.lag = Older(@, LockWait)]
                     [] op[s].online # {} \/ op[s].pc \in {"mark", "list"} ->
                          [op[s] EXCEPT !.lag = Older(@, MaxLag)]
                     [] OTHER -> op[s]
      BY DEF Age
    <3>2. op[s] = [op[s] EXCEPT !.lag = op[s].lag]
      BY <2>1 DEF Operation
    <3>. QED
      BY <2>3, <3>1, <3>2
  <2>6. PICK h : h = [op[s] EXCEPT !.lag = lag]
    OBVIOUS
  <2>7. h \in Operation
    BY <2>1, <2>4, <2>6 DEF Operation
  <2>8. /\ h.pc = op[s].pc /\ h.node = op[s].node /\ h.loaded = op[s].loaded
        /\ h.reported = op[s].reported /\ h.sweeps = op[s].sweeps /\ h.stale = op[s].stale
        /\ h.online = op[s].online /\ h.swept = op[s].swept /\ h.lag = lag
    BY <2>1, <2>6 DEF Operation
  <2>9. /\ \A n \in Nodes : row[n].age \in Nat /\ row'[n].age \in Nat
        /\ h.lag \in Nat /\ op[s].lag \in Nat
    BY <1>2, <1>3, <2>2, <2>4, <2>8 DEF Row
  <2>10. h.pc \in {"mark", "list"} => \A n \in Nodes : Seen(op[s], row, n) => Seen(h, row', n)
    BY <1>3, <2>4, <2>8, <2>9 DEF Seen
  <2>11. h.pc = "commit" =>
            /\ h.node \in Nodes
            /\ h.reported \in Reported
            /\ h.lag <= LockWait
            /\ row'[h.node].status = "offline" /\ h.loaded # "offline" => h.swept
    BY <1>3, <2>1, <2>4, <2>8 DEF OpFine
  <2>12. ASSUME h.pc = "mark", NEW n \in Nodes
         PROVE  IF n \in h.stale THEN row'[n].age > TTL \/ n \in raced'
                                 ELSE Seen(h, row', n)
    <3>1. IF n \in h.stale THEN row[n].age > TTL \/ n \in raced ELSE Seen(op[s], row, n)
      BY <2>1, <2>8, <2>12 DEF OpFine
    <3>. QED
      BY <1>3, <1>4, <2>9, <2>10, <2>12, <3>1
  <2>13. h.pc = "list" => \A n \in Nodes : Seen(h, row', n)
    BY <2>1, <2>8, <2>10 DEF OpFine
  <2>14. ASSUME NEW n \in h.online, h.lag < MaxLag PROVE row'[n].age <= TTL + h.lag
    <3>1. op[s].lag < MaxLag /\ h.lag = op[s].lag + 1 /\ n \in Nodes
      BY <2>2, <2>4, <2>8, <2>14
    <3>2. row[n].age <= TTL + op[s].lag
      BY <2>1, <2>8, <2>14, <3>1 DEF OpFine
    <3>. QED
      BY <1>3, <2>9, <3>1, <3>2
  <2>15. (h.pc \in {"sweep", "mark"} => h.sweeps \in 1 .. 2) /\ (h.pc # "done" => h.online = {})
    BY <2>1, <2>8 DEF OpFine
  <2>16. OpFine(h, row', raced')
    BY <2>11, <2>12, <2>13, <2>14, <2>15 DEF OpFine
  <2>. QED
    BY <2>5, <2>6, <2>7, <2>16
<1>6. RegistryTypeOK'
  <2>1. row' \in [Nodes -> Row]
    <3>1. row' = [n \in Nodes |-> row'[n]]
      BY DEF Age
    <3>. QED
      BY <1>3, <3>1
  <2>2. op' \in [Sessions -> Operation]
    <3>1. op' = [s \in Sessions |-> op'[s]]
      BY DEF Age
    <3>. QED
      BY <1>5, <3>1
  <2>. QED
    BY <1>4, <2>1, <2>2 DEF RegistryInv, RegistryTypeOK
<1>7. OfflineNeedsOverlap'
  <2>1. \A n \in Nodes : row[n].age \in Nat /\ row'[n].age \in Nat
    BY <1>2, <1>3 DEF Row
  <2>. QED
    BY <1>3, <1>4, <2>1 DEF RegistryInv, OfflineNeedsOverlap
<1>. QED
  BY <1>5, <1>6, <1>7 DEF RegistryInv

-----------------------------------------------------------------------------

\* At first no session does anything.
LEMMA InitInv ==
    ASSUME InitRegistry
    PROVE  RegistryInv
<1>1. RegistryTypeOK
  <2>1. [status |-> "absent", age |-> 0] \in Row
    BY DEF Row, Statuses, MaxAge
  <2>. QED
    BY <2>1, NoOperationFine DEF InitRegistry, RegistryTypeOK
<1>2. OfflineNeedsOverlap
  BY DEF InitRegistry, OfflineNeedsOverlap
<1>3. \A s \in Sessions : OpFine(op[s], row, raced)
  BY NoOperationFine DEF InitRegistry
<1>. QED
  BY <1>1, <1>2, <1>3 DEF RegistryInv

\* Every step of the registry keeps its invariant.
LEMMA NextInv ==
    ASSUME RegistryInv, [RegistryNext]_registryVars
    PROVE  RegistryInv'
<1>1. CASE UNCHANGED registryVars
  BY <1>1 DEF registryVars, RegistryInv, RegistryTypeOK, OfflineNeedsOverlap
<1>2. ASSUME NEW s \in Sessions, Call(s) PROVE RegistryInv'
  <2>1. UNCHANGED <<row, raced, told>>
    BY <1>2 DEF Call
  <2>2. {1, 2} = 1 .. 2
    OBVIOUS
  <2>. QED
    BY <1>2, <2>1, <2>2, HeartbeatLoadInv, StartReadingInv, EnsureLocalNodeInv DEF Call
<1>3. ASSUME NEW s \in Sessions, Operate(s) PROVE RegistryInv'
  BY <1>3, CommitInv, SweepSelectInv, SweepMarkInv, ListInv, RaiseInv DEF Operate
<1>4. ASSUME NEW s \in Sessions, Return(s) PROVE RegistryInv'
  BY <1>4, FinishInv DEF Return
<1>5. CASE Age
  BY <1>5, AgeInv
<1>. QED
  BY <1>1, <1>2, <1>3, <1>4, <1>5 DEF RegistryNext

\* The inductive invariant holds throughout, whichever operations the threads
\* start and however their statements and commits interleave.
THEOREM RegistryInvariance == RegistrySpec => []RegistryInv
<1>1. InitRegistry => RegistryInv
  BY InitInv
<1>2. RegistryInv /\ [RegistryNext]_registryVars => RegistryInv'
  BY NextInv
<1>. QED
  BY <1>1, <1>2, PTL DEF RegistrySpec

\* The table and the sessions hold what they can hold.
THEOREM RegistryTypeCorrect == RegistrySpec => []RegistryTypeOK
<1>1. RegistryInv => RegistryTypeOK
  BY DEF RegistryInv
<1>. QED
  BY <1>1, RegistryInvariance, PTL

\* Only a heartbeat that reported it, or one that overlapped a sweep of
\* _mark_stale_nodes or such a heartbeat, leaves a node that was seen within the
\* TTL offline: record_heartbeat stores the status it is sent.
THEOREM OfflineOnlyByOverlap == RegistrySpec => []OfflineNeedsOverlap
<1>1. RegistryInv => OfflineNeedsOverlap
  BY DEF RegistryInv
<1>. QED
  BY <1>1, RegistryInvariance, PTL

\* A node that get_nodes reports online was seen within the TTL before the
\* reader's own sweep, whatever was committed between the sweep and the list.
THEOREM OnlineWasSeen == RegistrySpec => []OnlineIsFresh
<1>1. RegistryInv => OnlineIsFresh
  BY DEF RegistryInv, OpFine, OnlineIsFresh
<1>. QED
  BY <1>1, RegistryInvariance, PTL

=============================================================================
