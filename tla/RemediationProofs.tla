------------------------- MODULE RemediationProofs -------------------------
(***************************************************************************)
(* Theorems about Remediation, for every set of agents, nodes, actions and *)
(* threads and every bound.                                                *)
(*                                                                         *)
(* The safety properties proved are not inductive: each says something of  *)
(* the tables that holds because of what handlers and agents carry between *)
(* two statements.  IInv adds what they carry.                             *)
(***************************************************************************)
EXTENDS Remediation, FiniteSetTheorems, TLAPS

\* An action nobody created is not approved (so its target is not fixed yet).
AbsentIsPending ==
    \A t \in Actions : row[t].status = "absent" => row[t].approval = "pending"

\* Action t may be performed by agent a.
Assigned(t, a) == row[t].approval = "approved" /\ row[t].target = NodeOf[a]

\* Agent a performed action t.
Did(t, a) == performed[t][a] > 0

\* Handler r has the row it works on; it was approved if it is being announced;
\* what a poll lists may be performed by its sender, and the result of an action
\* comes from an agent that performed it.
HandlerOK(r) ==
    LET h == req[r] IN
    /\ h.pc = "commit" => h.kind \in {"approve", "result"}
    /\ h.pc = "publish" => h.kind = "approve"
    /\ h.pc = "audit" => h.kind \in {"create", "approve", "result"}
    /\ h.kind \in {"create", "approve", "result"} => h.item \in Actions
    /\ h.kind \in {"poll", "result"} => h.by \in Agents
    /\ h.kind = "approve" => row[h.item].status # "absent"
    /\ h.kind = "approve" /\ h.pc # "commit" => row[h.item].approval = "approved"
    /\ h.kind = "poll" => \A t \in h.items : Assigned(t, h.by)
    /\ h.kind = "poll" /\ h.pc = "mark" => h.item \in h.items /\ h.todo \subseteq h.items
    /\ h.kind = "result" => Did(h.item, h.by)

\* Agent a holds tasks it may perform, performed the one it is about to report,
\* and waits for a request of its own.
AgentOK(a) ==
    LET p == agent[a] IN
    /\ \A t \in p.tasks : Assigned(t, a)
    /\ p.pc = "executed" => p.current \in p.tasks /\ Did(p.current, a)
    /\ \A r \in Requests : p.req = r =>
         req[r].pc # "idle" /\ req[r].by = a /\ req[r].kind \in {"poll", "result"}

IInv ==
    /\ TypeOK
    /\ AbsentIsPending
    /\ \A r \in Requests : HandlerOK(r)
    /\ \A a \in Agents : AgentOK(a)
    /\ OnlyApprovedIsPerformed
    /\ SettledWasPerformed
    /\ AuditIsTrue

\* What no step takes back.
Grows ==
    /\ \A t \in Actions : row[t].status # "absent" => row'[t].status # "absent"
    /\ \A t \in Actions : row[t].approval = "approved" =>
         row'[t].approval = "approved" /\ row'[t].target = row[t].target
    /\ \A t \in Actions, a \in Agents : Did(t, a) => Did(t, a)'

-----------------------------------------------------------------------------
(* Facts about single updates. *)

\* A step of thread r replaces its handler and no other.
LEMMA StepEffect ==
    ASSUME TypeOK, NEW r \in Requests, NEW h \in Handler, Step(r, h)
    PROVE  /\ req' \in [Requests -> Handler]
           /\ req'[r] = h
           /\ \A q \in Requests \ {r} : req'[q] = req[q]
BY DEF TypeOK, Step

\* A flushed assignment of status s leaves the old status or s, and the rest.
LEMMA FlushEffect ==
    ASSUME TypeOK, NEW t \in Actions, NEW s \in Statuses, NEW old,
           row' = [row EXCEPT ![t].status = Flush(@, old, s)]
    PROVE  /\ row' \in [Actions -> Row]
           /\ row'[t].status \in {row[t].status, s}
           /\ row'[t].approval = row[t].approval
           /\ row'[t].target = row[t].target
           /\ \A u \in Actions \ {t} : row'[u] = row[u]
BY DEF TypeOK, Row, Flush

\* The new record of a free thread, and those of an agent that stops or starts.
LEMMA FreshRecords ==
    /\ IdleHandler \in Handler
    /\ IdleAgent \in Agent /\ DownAgent \in Agent
    /\ DownAgent.tasks = {} /\ DownAgent.req = NoRequest /\ DownAgent.pc = "down"
BY DEF IdleHandler, Handler, IdleAgent, DownAgent, Agent, Statuses

\* A handler that did not move keeps what is known of it.
LEMMA HandlerFrame ==
    ASSUME IInv, TypeOK', Grows, NEW r \in Requests, req'[r] = req[r]
    PROVE  HandlerOK(r)'
<1>1. req[r] \in Handler
  BY DEF IInv, TypeOK
<1> QED
  BY <1>1 DEF IInv, HandlerOK, Grows, Assigned, Handler

\* So does an agent that did not move and whose request still is its own.
LEMMA AgentFrame ==
    ASSUME IInv, TypeOK', Grows, NEW a \in Agents, agent'[a] = agent[a],
           \A r \in Requests : agent[a].req = r =>
             req'[r].pc # "idle" /\ req'[r].by = req[r].by /\ req'[r].kind = req[r].kind
    PROVE  AgentOK(a)'
<1>1. agent[a] \in Agent
  BY DEF IInv, TypeOK
<1> QED
  BY <1>1 DEF IInv, AgentOK, Grows, Assigned, Agent

\* What was true of the tables stays true of what did not change in them.
LEMMA TablesFrame ==
    ASSUME IInv, TypeOK', Grows, UNCHANGED <<performed, audit>>,
           \A t \in Actions : row'[t].status \in Settled =>
             row'[t].status = row[t].status \/ (row'[t].status = ResultStatus(t)
                                                 /\ \E a \in Agents : Did(t, a))
    PROVE  OnlyApprovedIsPerformed' /\ SettledWasPerformed' /\ AuditIsTrue'
<1>1. OnlyApprovedIsPerformed'
  BY DEF IInv, OnlyApprovedIsPerformed, Grows
<1>2. SettledWasPerformed'
  BY DEF IInv, SettledWasPerformed, Did, ResultStatus
<1>3. AuditIsTrue'
  <2>1. audit \subseteq AuditRecord
    BY DEF IInv, TypeOK
  <2> QED
    BY <2>1 DEF IInv, AuditIsTrue, Grows, AuditRecord
<1> QED
  BY <1>1, <1>2, <1>3

-----------------------------------------------------------------------------
(* Steps of handlers. *)

\* A handler that moves on for the same agent and in the same request, or that
\* starts on a free thread, disturbs no other handler and no agent.
LEMMA HandlerStep ==
    ASSUME IInv, TypeOK', Grows, NEW r \in Requests, HandlerOK(r)',
           \A q \in Requests \ {r} : req'[q] = req[q],
           req[r].pc # "idle" =>
             req'[r].by = req[r].by /\ req'[r].kind = req[r].kind /\ req'[r].pc # "idle",
           UNCHANGED agent
    PROVE  /\ \A q \in Requests : HandlerOK(q)'
           /\ \A a \in Agents : AgentOK(a)'
<1>1. \A q \in Requests : HandlerOK(q)'
  BY HandlerFrame
<1>2. ASSUME NEW a \in Agents PROVE AgentOK(a)'
  <2>1. \A q \in Requests : agent[a].req = q =>
          req'[q].pc # "idle" /\ req'[q].by = req[q].by /\ req'[q].kind = req[q].kind
    BY DEF IInv, AgentOK
  <2> QED
    BY <2>1, AgentFrame
<1> QED
  BY <1>1, <1>2

\* The UPDATE of an approval preserves the invariant: it approves for good, and
\* settles nothing.
LEMMA ApproveCommitInv ==
    ASSUME IInv, NEW r \in Requests, ApproveCommit(r)
    PROVE  IInv'
<1> DEFINE h == req[r]
           g == [h EXCEPT !.pc = "publish", !.loaded = "expired"]
<1>1. h \in Handler /\ h.kind = "approve" /\ h.item \in Actions
      /\ row[h.item].status # "absent"
  BY DEF IInv, TypeOK, HandlerOK, ApproveCommit
<1>2. /\ g \in Handler /\ g.pc = "publish"
      /\ g.kind = h.kind /\ g.by = h.by /\ g.item = h.item
  BY <1>1 DEF Handler
<1>3. /\ req' \in [Requests -> Handler]
      /\ req'[r] = g
      /\ \A q \in Requests \ {r} : req'[q] = req[q]
  BY <1>2, StepEffect DEF ApproveCommit, IInv
<1>4. /\ row' \in [Actions -> Row]
      /\ row'[h.item].status \in {row[h.item].status, "queued"}
      /\ row'[h.item].approval = "approved"
      /\ row'[h.item].target = row[h.item].target
      /\ \A u \in Actions \ {h.item} : row'[u] = row[u]
  <2>1. PICK s \in Statuses : /\ row' = [row EXCEPT ![h.item].approval = "approved",
                                                     ![h.item].status = s]
                              /\ s \in {row[h.item].status, "queued"}
    BY <1>1 DEF ApproveCommit, Flush, IInv, TypeOK, Row, Statuses, Open
  <2> QED
    BY <1>1, <2>1, Zenon DEF IInv, TypeOK, Row
<1>5. UNCHANGED <<agent, audit, published, performed, asked, faults, cut>>
  BY DEF ApproveCommit
<1> HIDE DEF h, g
<1>6. TypeOK'
  BY <1>3, <1>4, <1>5 DEF IInv, TypeOK
<1>7. Grows
  BY <1>1, <1>4, <1>5 DEF Grows, Did
<1>8. HandlerOK(r)'
  BY <1>1, <1>2, <1>3, <1>4 DEF HandlerOK
<1>9. AbsentIsPending'
  BY <1>1, <1>4 DEF IInv, AbsentIsPending
<1>10. \A t \in Actions : row'[t].status \in Settled => row'[t].status = row[t].status
  BY <1>4 DEF Settled
<1> QED
  BY <1>2, <1>3, <1>5, <1>6, <1>7, <1>8, <1>9, <1>10, HandlerStep, TablesFrame DEF IInv, h

\* A step of a handler that changes no row.
LEMMA ReadStep ==
    ASSUME IInv, NEW r \in Requests, NEW g \in Handler, Step(r, g), HandlerOK(r)',
           req[r].pc # "idle" => g.by = req[r].by /\ g.kind = req[r].kind /\ g.pc # "idle",
           UNCHANGED <<row, agent, audit, performed>>, TypeOK'
    PROVE  IInv'
<1>1. Grows
  BY DEF Grows, Did
<1>2. AbsentIsPending'
  BY DEF IInv, AbsentIsPending
<1>3. /\ req'[r] = g
      /\ \A q \in Requests \ {r} : req'[q] = req[q]
  BY StepEffect DEF IInv
<1> QED
  BY <1>1, <1>2, <1>3, HandlerStep, TablesFrame DEF IInv

\* So does the event, which is published only of an approved action.
LEMMA ApprovePublishInv ==
    ASSUME IInv, NEW r \in Requests, ApprovePublish(r)
    PROVE  IInv'
<1> DEFINE h == req[r]
           g == [h EXCEPT !.pc = "audit"]
<1>1. h \in Handler /\ HandlerOK(r) /\ h.kind = "approve" /\ h.pc = "publish"
  BY DEF IInv, TypeOK, ApprovePublish
<1>2. /\ g \in Handler /\ g.pc = "audit"
      /\ g.kind = h.kind /\ g.by = h.by /\ g.item = h.item
  BY <1>1 DEF Handler
<1>3. Step(r, g) /\ UNCHANGED <<row, agent, audit, performed, asked, faults, cut>>
  BY DEF ApprovePublish
<1>4. req'[r] = g /\ req' \in [Requests -> Handler]
  BY <1>2, <1>3, StepEffect DEF IInv
<1>5. published' \subseteq Actions
  BY <1>1 DEF ApprovePublish, HandlerOK, IInv, TypeOK
<1>6. TypeOK'
  BY <1>3, <1>4, <1>5 DEF IInv, TypeOK
<1> HIDE DEF h, g
<1>7. HandlerOK(r)'
  BY <1>1, <1>2, <1>3, <1>4 DEF HandlerOK, h
<1> QED
  BY <1>1, <1>2, <1>3, <1>6, <1>7, ReadStep DEF h

\* Listing preserves the invariant: what is listed may be performed by the sender.
LEMMA PollListInv ==
    ASSUME IInv, NEW r \in Requests, PollList(r)
    PROVE  IInv'
<1> DEFINE h == req[r]
           tasks == TasksFor(h.by)
           none == [h EXCEPT !.pc = "respond"]
           some(t) == [h EXCEPT !.pc = "mark", !.items = tasks, !.todo = tasks,
                                !.item = t, !.loaded = row[t].status]
<1>1. h \in Handler /\ HandlerOK(r) /\ h.kind = "poll" /\ h.pc = "start" /\ h.by \in Agents
  BY DEF IInv, TypeOK, PollList, HandlerOK
<1>2. /\ tasks \subseteq Actions
      /\ \A t \in tasks : Assigned(t, h.by) /\ row[t].status \in Statuses
  BY DEF TasksFor, Assigned, IInv, TypeOK, Row
<1>3. UNCHANGED <<row, agent, audit, published, performed, asked, faults, cut>>
  BY DEF PollList
<1>4. Step(r, none) \/ \E t \in tasks : Step(r, some(t))
  BY DEF PollList
<1> HIDE DEF tasks
<1>5. CASE Step(r, none)
  <2>1. none \in Handler /\ none.pc = "respond" /\ none.kind = h.kind /\ none.by = h.by
        /\ none.items = h.items
    BY <1>1 DEF Handler
  <2>2. req'[r] = none /\ TypeOK'
    BY <2>1, <1>5, <1>3, StepEffect DEF IInv, TypeOK
  <2> HIDE DEF none, h
  <2>3. HandlerOK(r)'
    BY <1>1, <1>3, <2>1, <2>2 DEF HandlerOK, Assigned, h
  <2> QED
    BY <1>1, <1>3, <1>5, <2>1, <2>2, <2>3, ReadStep DEF h
<1>6. ASSUME NEW t \in tasks, Step(r, some(t)) PROVE IInv'
  <2> DEFINE g == some(t)
  <2>1. g \in Handler /\ g.pc = "mark" /\ g.kind = h.kind /\ g.by = h.by
        /\ g.items = tasks /\ g.todo = tasks /\ g.item = t
    BY <1>1, <1>2 DEF Handler
  <2>2. req'[r] = g /\ TypeOK'
    BY <2>1, <1>6, <1>3, StepEffect DEF IInv, TypeOK
  <2>3. Step(r, g)
    BY <1>6
  <2> HIDE DEF g, h, some
  <2>4. HandlerOK(r)'
    BY <1>1, <1>2, <1>3, <2>1, <2>2 DEF HandlerOK, Assigned
  <2> QED
    BY <1>1, <1>3, <2>1, <2>2, <2>3, <2>4, ReadStep DEF h
<1> QED
  BY <1>4, <1>5, <1>6

\* Loading the next listed row preserves it.
LEMMA PollRefreshInv ==
    ASSUME IInv, NEW r \in Requests, PollRefresh(r)
    PROVE  IInv'
<1> DEFINE h == req[r]
<1>1. h \in Handler /\ HandlerOK(r) /\ h.kind = "poll" /\ h.pc = "mark"
  BY DEF IInv, TypeOK, PollRefresh
<1>2. PICK t \in h.todo : Step(r, [h EXCEPT !.item = t, !.loaded = row[t].status])
  BY DEF PollRefresh
<1> DEFINE g == [h EXCEPT !.item = t, !.loaded = row[t].status]
<1>3. t \in h.items /\ t \in Actions /\ row[t].status \in Statuses
  BY <1>1, <1>2 DEF HandlerOK, Handler, IInv, TypeOK, Row
<1>4. g \in Handler /\ g.pc = h.pc /\ g.kind = h.kind /\ g.by = h.by
      /\ g.items = h.items /\ g.todo = h.todo /\ g.item = t
  BY <1>1, <1>3 DEF Handler
<1>5. UNCHANGED <<row, agent, audit, published, performed, asked, faults, cut>>
  BY DEF PollRefresh
<1>6. req'[r] = g /\ TypeOK'
  BY <1>2, <1>4, <1>5, StepEffect DEF IInv, TypeOK
<1>7. Step(r, g)
  BY <1>2
<1> HIDE DEF g, h
<1>8. HandlerOK(r)'
  BY <1>1, <1>3, <1>4, <1>5, <1>6 DEF HandlerOK, Assigned, h
<1> QED
  BY <1>1, <1>4, <1>5, <1>6, <1>7, <1>8, ReadStep DEF h

\* Loading the row a result is for preserves it.
LEMMA ResultLoadInv ==
    ASSUME IInv, NEW r \in Requests, ResultLoad(r)
    PROVE  IInv'
<1> DEFINE h == req[r]
           found == row[h.item].target = NodeOf[h.by]
           g == [h EXCEPT !.pc = IF found THEN "commit" ELSE "respond", !.ok = found,
                          !.loaded = row[h.item].status]
<1>1. h \in Handler /\ HandlerOK(r) /\ h.kind = "result" /\ h.pc = "start"
      /\ h.item \in Actions /\ row[h.item].status \in Statuses
  BY DEF IInv, TypeOK, Row, HandlerOK, ResultLoad
<1>2. found \in BOOLEAN
  OBVIOUS
<1>3. Step(r, g) /\ UNCHANGED <<row, agent, audit, published, performed, asked, faults, cut>>
  BY DEF ResultLoad
<1> HIDE DEF found
<1>4. g \in Handler /\ g.pc \in {"commit", "respond"} /\ g.kind = h.kind /\ g.by = h.by
      /\ g.item = h.item
  BY <1>1, <1>2 DEF Handler
<1>5. req'[r] = g /\ TypeOK'
  BY <1>3, <1>4, StepEffect DEF IInv, TypeOK
<1> HIDE DEF g, h
<1>6. HandlerOK(r)'
  BY <1>1, <1>3, <1>4, <1>5 DEF HandlerOK, Did, h
<1> QED
  BY <1>1, <1>3, <1>4, <1>5, <1>6, ReadStep DEF h

-----------------------------------------------------------------------------
(* Steps that write rows or audit entries. *)

\* An UPDATE of the status alone takes nothing back.
LEMMA StatusGrows ==
    ASSUME IInv, NEW t \in Actions, NEW s \in Statuses \ {"absent"}, NEW old,
           row' = [row EXCEPT ![t].status = Flush(@, old, s)],
           row[t].approval = "approved", UNCHANGED performed
    PROVE  Grows /\ AbsentIsPending'
<1>1. /\ row'[t].status \in {row[t].status, s}
      /\ row'[t].approval = row[t].approval /\ row'[t].target = row[t].target
      /\ \A u \in Actions \ {t} : row'[u] = row[u]
  BY FlushEffect DEF IInv
<1>2. Grows
  BY <1>1 DEF Grows, Did
<1>3. AbsentIsPending'
  BY <1>1 DEF IInv, AbsentIsPending
<1> QED
  BY <1>2, <1>3

\* Marking a listed row dispatched preserves it, whatever status it overwrites.
LEMMA PollMarkInv ==
    ASSUME IInv, NEW r \in Requests, PollMark(r)
    PROVE  IInv'
<1> DEFINE h == req[r]
           rest == h.todo \ {h.item}
           g == [h EXCEPT !.todo = rest, !.loaded = "expired",
                          !.pc = IF rest = {} THEN "respond" ELSE "mark"]
<1>1. /\ h \in Handler /\ HandlerOK(r) /\ h.kind = "poll" /\ h.pc = "mark"
      /\ h.item \in Actions /\ row[h.item].approval = "approved"
  BY DEF IInv, TypeOK, Handler, PollMark, HandlerOK, Assigned
<1>2. /\ row' = [row EXCEPT ![h.item].status = Flush(@, h.loaded, "dispatched")]
      /\ Step(r, g)
      /\ UNCHANGED <<agent, audit, published, performed, asked, faults, cut>>
  BY DEF PollMark
<1>3. "dispatched" \in Statuses \ {"absent"}
  BY DEF Statuses, Open
<1>4. Grows /\ AbsentIsPending'
  BY <1>1, <1>2, <1>3, StatusGrows
<1>5. /\ row' \in [Actions -> Row]
      /\ \A t \in Actions : row'[t].status \in Settled => row'[t].status = row[t].status
  <2>1. /\ row' \in [Actions -> Row]
        /\ row'[h.item].status \in {row[h.item].status, "dispatched"}
        /\ \A u \in Actions \ {h.item} : row'[u] = row[u]
    BY <1>1, <1>2, <1>3, FlushEffect DEF IInv
  <2> QED
    BY <2>1 DEF Settled
<1>6. g \in Handler /\ g.pc \in {"respond", "mark"} /\ g.kind = h.kind /\ g.by = h.by
      /\ g.items = h.items /\ g.todo = rest /\ g.item = h.item
  <2> HIDE DEF rest
  <2>1. rest \in SUBSET Actions
    BY <1>1 DEF Handler, rest
  <2> QED
    BY <1>1, <2>1 DEF Handler
<1> HIDE DEF g
<1>7. /\ req' \in [Requests -> Handler] /\ req'[r] = g
      /\ \A q \in Requests \ {r} : req'[q] = req[q]
  BY <1>2, <1>6, StepEffect DEF IInv
<1>8. TypeOK'
  BY <1>2, <1>5, <1>7 DEF IInv, TypeOK
<1> HIDE DEF h
<1>9. HandlerOK(r)'
  <2>1. \A t \in h.items : row'[t].approval = "approved" /\ row'[t].target = NodeOf[h.by]
    BY <1>1, <1>4 DEF HandlerOK, Assigned, Grows, h, Handler
  <2> QED
    BY <1>1, <1>6, <1>7, <2>1 DEF HandlerOK, Assigned, h
<1> QED
  BY <1>1, <1>2, <1>4, <1>5, <1>6, <1>7, <1>8, <1>9, HandlerStep, TablesFrame DEF IInv, h

\* The UPDATE of a result preserves it: its sender performed the action.
LEMMA ResultCommitInv ==
    ASSUME IInv, NEW r \in Requests, ResultCommit(r)
    PROVE  IInv'
<1> DEFINE h == req[r]
           s == ResultStatus(h.item)
           g == [h EXCEPT !.pc = "audit", !.loaded = "expired"]
<1>1. /\ h \in Handler /\ HandlerOK(r) /\ h.kind = "result" /\ h.pc = "commit"
      /\ h.item \in Actions /\ h.by \in Agents /\ Did(h.item, h.by)
  BY DEF IInv, TypeOK, ResultCommit, HandlerOK
<1>2. /\ row' = [row EXCEPT ![h.item].status = Flush(@, h.loaded, s)]
      /\ Step(r, g)
      /\ UNCHANGED <<agent, audit, published, performed, asked, faults, cut>>
  BY DEF ResultCommit
<1>3. s \in Statuses \ {"absent"} /\ row[h.item].approval = "approved"
  BY <1>1 DEF Statuses, Settled, ResultStatus, IInv, OnlyApprovedIsPerformed, Did
<1>4. Grows /\ AbsentIsPending'
  BY <1>1, <1>2, <1>3, StatusGrows
<1> HIDE DEF s
<1>5. /\ row' \in [Actions -> Row]
      /\ row'[h.item].status \in {row[h.item].status, s}
      /\ \A u \in Actions \ {h.item} : row'[u] = row[u]
  BY <1>1, <1>2, <1>3, FlushEffect DEF IInv
<1>6. \A t \in Actions : row'[t].status \in Settled =>
         row'[t].status = row[t].status \/ (row'[t].status = ResultStatus(t)
                                             /\ \E a \in Agents : Did(t, a))
  BY <1>1, <1>5 DEF s
<1>7. g \in Handler /\ g.pc = "audit" /\ g.kind = h.kind /\ g.by = h.by /\ g.item = h.item
  BY <1>1 DEF Handler
<1> HIDE DEF g
<1>8. /\ req' \in [Requests -> Handler] /\ req'[r] = g
      /\ \A q \in Requests \ {r} : req'[q] = req[q]
  BY <1>2, <1>7, StepEffect DEF IInv
<1>9. TypeOK'
  BY <1>2, <1>5, <1>8 DEF IInv, TypeOK
<1> HIDE DEF h
<1>10. HandlerOK(r)'
  BY <1>1, <1>2, <1>7, <1>8 DEF HandlerOK, Did, h
<1> QED
  BY <1>1, <1>2, <1>4, <1>6, <1>7, <1>8, <1>9, <1>10, HandlerStep, TablesFrame DEF IInv, h

\* A new row preserves it: nobody has performed or listed its action.
LEMMA CreateActionInv ==
    ASSUME IInv, NEW r \in Requests, NEW t \in Actions, NEW n \in Nodes \cup {NoNode},
           CreateAction(r, t, n)
    PROVE  IInv'
<1> DEFINE g == [IdleHandler EXCEPT !.kind = "create", !.pc = "audit", !.item = t]
           new == [status |-> "requested", approval |-> "pending", target |-> n]
<1>1. /\ req[r].pc = "idle" /\ row[t].status = "absent" /\ row[t].approval = "pending"
      /\ row' = [row EXCEPT ![t] = new]
      /\ Step(r, g)
      /\ UNCHANGED <<agent, audit, published, performed, asked, faults, cut>>
  BY DEF CreateAction, IInv, AbsentIsPending
<1>2. new \in Row /\ new.status = "requested" /\ new.approval = "pending"
  BY DEF Row, Statuses
<1> HIDE DEF new
<1>3. /\ row' \in [Actions -> Row] /\ row'[t] = new
      /\ \A u \in Actions \ {t} : row'[u] = row[u]
  BY <1>1, <1>2 DEF IInv, TypeOK
<1>4. Grows /\ AbsentIsPending'
  BY <1>1, <1>2, <1>3 DEF Grows, Did, IInv, AbsentIsPending
<1>5. \A u \in Actions : row'[u].status \in Settled => row'[u].status = row[u].status
  BY <1>2, <1>3 DEF Settled
<1>6. g \in Handler /\ g.kind = "create" /\ g.pc = "audit" /\ g.item = t
  BY DEF IdleHandler, Handler
<1> HIDE DEF g
<1>7. /\ req' \in [Requests -> Handler] /\ req'[r] = g
      /\ \A q \in Requests \ {r} : req'[q] = req[q]
  BY <1>1, <1>6, StepEffect DEF IInv
<1>8. TypeOK' /\ HandlerOK(r)'
  BY <1>1, <1>3, <1>6, <1>7 DEF IInv, TypeOK, HandlerOK
<1> QED
  BY <1>1, <1>4, <1>5, <1>7, <1>8, HandlerStep, TablesFrame DEF IInv

\* Loading a row to approve it preserves it.
LEMMA ApproveLoadInv ==
    ASSUME IInv, NEW r \in Requests, NEW t \in Actions, ApproveLoad(r, t)
    PROVE  IInv'
<1> DEFINE g == [IdleHandler EXCEPT !.kind = "approve", !.pc = "commit", !.item = t,
                                    !.loaded = row[t].status]
<1>1. /\ req[r].pc = "idle" /\ row[t].status # "absent" /\ asked[t] < MaxAsked
      /\ asked' = [asked EXCEPT ![t] = @ + 1]
      /\ Step(r, g)
      /\ UNCHANGED <<row, agent, audit, published, performed, faults, cut>>
  BY DEF ApproveLoad
<1>2. asked' \in [Actions -> 0 .. MaxAsked]
  BY <1>1, RemediationAssumption DEF IInv, TypeOK
<1>3. row[t].status \in Statuses
  BY DEF IInv, TypeOK, Row
<1>4. g \in Handler /\ g.kind = "approve" /\ g.pc = "commit" /\ g.item = t
  BY <1>3 DEF IdleHandler, Handler
<1> HIDE DEF g
<1>5. req' \in [Requests -> Handler] /\ req'[r] = g
  BY <1>1, <1>4, StepEffect DEF IInv
<1>6. TypeOK' /\ HandlerOK(r)'
  BY <1>1, <1>2, <1>4, <1>5 DEF IInv, TypeOK, HandlerOK
<1> QED
  BY <1>1, <1>4, <1>6, ReadStep

\* An audit entry preserves it: it claims what its handler knows.
LEMMA AuditInv ==
    ASSUME IInv, NEW r \in Requests, Audit(r)
    PROVE  IInv'
<1> DEFINE h == req[r]
           good == h.kind # "result" \/ row[h.item].status = "completed"
           e == [event |-> h.kind, item |-> h.item,
                 outcome |-> IF good THEN "success" ELSE "failure"]
           g == [h EXCEPT !.pc = "respond"]
<1>1. /\ h \in Handler /\ HandlerOK(r) /\ h.pc = "audit"
      /\ h.kind \in {"create", "approve", "result"} /\ h.item \in Actions
  BY DEF IInv, TypeOK, Audit, HandlerOK
<1>2. /\ audit' = audit \cup {e}
      /\ Step(r, g)
      /\ UNCHANGED <<row, agent, published, performed, asked, faults, cut>>
  BY DEF Audit
<1>3. /\ e \in AuditRecord /\ e.event = h.kind /\ e.item = h.item
      /\ e.outcome = "success" => good
  BY <1>1 DEF AuditRecord
<1> HIDE DEF e
<1>4. g \in Handler /\ g.pc = "respond" /\ g.kind = h.kind /\ g.by = h.by /\ g.item = h.item
  BY <1>1 DEF Handler
<1> HIDE DEF g
<1>5. /\ req' \in [Requests -> Handler] /\ req'[r] = g
      /\ \A q \in Requests \ {r} : req'[q] = req[q]
  BY <1>2, <1>4, StepEffect DEF IInv
<1>6. TypeOK'
  BY <1>2, <1>3, <1>5 DEF IInv, TypeOK
<1>7. Grows /\ AbsentIsPending'
  BY <1>2 DEF Grows, Did, IInv, AbsentIsPending
<1>8. HandlerOK(r)'
  BY <1>1, <1>2, <1>4, <1>5 DEF HandlerOK, Did
<1>9. AuditIsTrue'
  <2>1. e.event = "approve" => row[e.item].approval = "approved"
    BY <1>1, <1>3 DEF HandlerOK
  <2>2. e.event = "result" => \E a \in Agents : performed[e.item][a] > 0
    BY <1>1, <1>3 DEF HandlerOK, Did
  <2>3. e.event = "result" /\ e.outcome = "success" => e.item \in Diagnostics
    BY <1>1, <1>3 DEF IInv, SettledWasPerformed, Settled, ResultStatus
  <2>4. \A f \in audit' : f \in audit \/ f = e
    BY <1>2
  <2> QED
    BY <1>2, <2>1, <2>2, <2>3, <2>4 DEF IInv, AuditIsTrue
<1>10. OnlyApprovedIsPerformed' /\ SettledWasPerformed'
  BY <1>2 DEF IInv, OnlyApprovedIsPerformed, SettledWasPerformed, ResultStatus
<1> QED
  BY <1>1, <1>2, <1>4, <1>5, <1>6, <1>7, <1>8, <1>9, <1>10, HandlerStep DEF IInv

-----------------------------------------------------------------------------
(* Steps of agents. *)

\* A step that leaves rows, audit entries and performed actions alone.
LEMMA QuietTables ==
    ASSUME IInv, TypeOK', UNCHANGED <<row, audit, performed>>
    PROVE  /\ Grows
           /\ AbsentIsPending'
           /\ OnlyApprovedIsPerformed' /\ SettledWasPerformed' /\ AuditIsTrue'
<1>1. Grows
  BY DEF Grows, Did
<1> QED
  BY <1>1, TablesFrame DEF IInv, AbsentIsPending

\* An agent that sends request h from a free thread.
LEMMA SendInv ==
    ASSUME IInv, NEW a \in Agents, NEW r \in Requests, NEW h \in Handler,
           req[r].pc = "idle", Step(r, h), h.pc = "start", h.by = a,
           \/ h.kind = "poll" /\ h.items = {}
           \/ h.kind = "result" /\ h.item \in Actions /\ Did(h.item, a),
           agent' = [agent EXCEPT ![a].pc = "waiting", ![a].req = r],
           UNCHANGED <<row, audit, published, performed, asked, faults, cut>>
    PROVE  IInv'
<1>1. /\ req' \in [Requests -> Handler] /\ req'[r] = h
      /\ \A q \in Requests \ {r} : req'[q] = req[q]
  BY StepEffect DEF IInv
<1>2. /\ agent' \in [Agents -> Agent]
      /\ agent'[a].pc = "waiting" /\ agent'[a].req = r /\ agent'[a].tasks = agent[a].tasks
      /\ \A b \in Agents \ {a} : agent'[b] = agent[b]
  <2> DEFINE p == [agent[a] EXCEPT !.pc = "waiting", !.req = r]
  <2>1. agent \in [Agents -> Agent] /\ agent' = [agent EXCEPT ![a] = p]
    BY DEF IInv, TypeOK
  <2>2. p \in Agent /\ p.pc = "waiting" /\ p.req = r /\ p.tasks = agent[a].tasks
    BY <2>1 DEF Agent
  <2> HIDE DEF p
  <2> QED
    BY <2>1, <2>2, Zenon
<1>3. TypeOK'
  BY <1>1, <1>2 DEF IInv, TypeOK
<1>4. Grows /\ AbsentIsPending'
      /\ OnlyApprovedIsPerformed' /\ SettledWasPerformed' /\ AuditIsTrue'
  BY <1>3, QuietTables
<1>5. HandlerOK(r)'
  BY <1>1 DEF HandlerOK, Did
<1>6. \A q \in Requests : HandlerOK(q)'
  BY <1>1, <1>3, <1>4, <1>5, HandlerFrame
<1>7. ASSUME NEW b \in Agents PROVE AgentOK(b)'
  <2>1. CASE b = a
    <3>1. \A t \in agent[a].tasks : Assigned(t, a)
      BY DEF IInv, AgentOK
    <3>2. \A q \in Requests : agent'[a].req = q => q = r
      BY <1>2
    <3> QED
      BY <1>1, <1>2, <2>1, <3>1, <3>2 DEF AgentOK, Assigned
  <2>2. CASE b # a
    <3>1. \A q \in Requests : agent[b].req = q => q # r
      BY DEF IInv, AgentOK
    <3>2. \A q \in Requests : agent[b].req = q =>
            req'[q].pc # "idle" /\ req'[q].by = req[q].by /\ req'[q].kind = req[q].kind
      BY <1>1, <3>1 DEF IInv, AgentOK
    <3> QED
      BY <1>2, <1>3, <1>4, <2>2, <3>2, AgentFrame
  <2> QED
    BY <2>1, <2>2
<1> QED
  BY <1>3, <1>4, <1>6, <1>7 DEF IInv

\* A poll that is sent preserves it.
LEMMA PollInv ==
    ASSUME IInv, NEW a \in Agents, NEW r \in Requests, Poll(a, r)
    PROVE  IInv'
<1> DEFINE h == [IdleHandler EXCEPT !.kind = "poll", !.pc = "start", !.by = a]
<1>1. h \in Handler /\ h.kind = "poll" /\ h.pc = "start" /\ h.by = a /\ h.items = {}
  BY FreshRecords DEF IdleHandler, Handler
<1>2. req[r].pc = "idle" /\ Step(r, h)
      /\ agent' = [agent EXCEPT ![a].pc = "waiting", ![a].req = r]
      /\ UNCHANGED <<row, audit, published, performed, asked, faults, cut>>
  BY DEF Poll
<1> HIDE DEF h
<1> QED
  BY <1>1, <1>2, SendInv

\* A result that is sent preserves it: its sender performed the action.
LEMMA PostResultInv ==
    ASSUME IInv, NEW a \in Agents, NEW r \in Requests, PostResult(a, r)
    PROVE  IInv'
<1> DEFINE t == agent[a].current
           h == [IdleHandler EXCEPT !.kind = "result", !.pc = "start", !.by = a,
                                    !.item = t]
<1>1. t \in Actions /\ Did(t, a)
  BY DEF PostResult, IInv, AgentOK, TypeOK, Agent
<1>2. req[r].pc = "idle" /\ Step(r, h)
      /\ agent' = [agent EXCEPT ![a].pc = "waiting", ![a].req = r]
      /\ UNCHANGED <<row, audit, published, performed, asked, faults, cut>>
  BY DEF PostResult
<1> HIDE DEF t
<1>3. h \in Handler /\ h.kind = "result" /\ h.pc = "start" /\ h.by = a /\ h.item = t
  BY <1>1, FreshRecords DEF IdleHandler, Handler
<1> HIDE DEF h
<1> QED
  BY <1>1, <1>2, <1>3, SendInv

\* An agent that performs a task preserves it: it holds only what it may perform.
LEMMA ExecuteInv ==
    ASSUME IInv, NEW a \in Agents, NEW t \in Actions, Execute(a, t)
    PROVE  IInv'
<1>1. /\ agent' \in [Agents -> Agent]
      /\ agent'[a].pc = "executed" /\ agent'[a].current = t
      /\ agent'[a].tasks = agent[a].tasks /\ agent'[a].req = agent[a].req
      /\ \A b \in Agents \ {a} : agent'[b] = agent[b]
  BY DEF IInv, TypeOK, Execute, Agent
<1>2. /\ performed' \in [Actions -> [Agents -> 0 .. MaxPerformed]]
      /\ performed'[t][a] > 0
      /\ \A u \in Actions, b \in Agents :
           performed'[u][b] = performed[u][b] \/ (u = t /\ b = a)
  BY RemediationAssumption DEF IInv, TypeOK, Execute, MaxPerformed
<1>3. UNCHANGED <<row, req, audit, published, asked, faults, cut>> /\ t \in agent[a].tasks
  BY DEF Execute
<1>4. TypeOK'
  BY <1>1, <1>2, <1>3 DEF IInv, TypeOK
<1>5. Grows /\ AbsentIsPending'
  BY <1>2, <1>3 DEF Grows, Did, IInv, AbsentIsPending
<1>6. \A r \in Requests : HandlerOK(r)'
  BY <1>3, <1>4, <1>5, HandlerFrame
<1>7. ASSUME NEW b \in Agents PROVE AgentOK(b)'
  <2>1. CASE b = a
    BY <1>1, <1>2, <1>3, <2>1 DEF IInv, AgentOK, Assigned, Did
  <2>2. CASE b # a
    BY <1>1, <1>3, <1>4, <1>5, <2>2, AgentFrame DEF IInv, AgentOK
  <2> QED
    BY <2>1, <2>2
<1>8. OnlyApprovedIsPerformed'
  <2>1. Assigned(t, a)
    BY <1>3 DEF IInv, AgentOK
  <2> QED
    BY <1>2, <1>3, <2>1 DEF IInv, OnlyApprovedIsPerformed, Assigned
<1>9. SettledWasPerformed'
  BY <1>3, <1>5 DEF IInv, SettledWasPerformed, ResultStatus, Grows, Did
<1>10. AuditIsTrue'
  <2>1. audit \subseteq AuditRecord
    BY DEF IInv, TypeOK
  <2> QED
    BY <1>3, <1>5, <2>1 DEF IInv, AuditIsTrue, Grows, Did, AuditRecord
<1> QED
  BY <1>4, <1>5, <1>6, <1>7, <1>8, <1>9, <1>10 DEF IInv

\* Agents that go down or come back hold nothing.
LEMMA AgentResets ==
    ASSUME IInv, NEW a \in Agents, NEW new \in {IdleAgent, DownAgent},
           agent' = [agent EXCEPT ![a] = new], faults' \in 0 .. MaxFaults,
           UNCHANGED <<row, req, audit, published, performed, asked, cut>>
    PROVE  IInv'
<1>1. new \in Agent /\ new.tasks = {} /\ new.pc # "executed" /\ new.req = NoRequest
  BY FreshRecords DEF IdleAgent
<1>2. TypeOK'
  BY <1>1 DEF IInv, TypeOK
<1>3. Grows /\ AbsentIsPending'
      /\ OnlyApprovedIsPerformed' /\ SettledWasPerformed' /\ AuditIsTrue'
  BY <1>2, QuietTables
<1>4. \A r \in Requests : HandlerOK(r)'
  BY <1>2, <1>3, HandlerFrame
<1>5. ASSUME NEW b \in Agents PROVE AgentOK(b)'
  <2>0. agent \in [Agents -> Agent]
    BY DEF IInv, TypeOK
  <2>1. CASE b = a
    <3>1. agent'[b] = new
      BY <2>0, <2>1
    <3> QED
      BY <1>1, <3>1, RemediationAssumption DEF AgentOK
  <2>2. CASE b # a
    <3>1. agent'[b] = agent[b]
      BY <2>0, <2>2
    <3> QED
      BY <1>2, <1>3, <3>1, AgentFrame DEF IInv, AgentOK
  <2> QED
    BY <2>1, <2>2
<1> QED
  BY <1>2, <1>3, <1>4, <1>5 DEF IInv

\* A handler that ends, whatever it answers, frees its thread and its agent.
LEMMA AnswerInv ==
    ASSUME IInv, NEW r \in Requests, req[r].pc # "idle", NEW h \in Handler,
           h.kind = req[r].kind, h.items = req[r].items,
           agent' = Answered(r, h), Step(r, IdleHandler),
           faults' \in 0 .. MaxFaults, cut' \subseteq Actions,
           UNCHANGED <<row, audit, published, performed, asked>>
    PROVE  IInv'
<1>1. /\ req' \in [Requests -> Handler] /\ req'[r] = IdleHandler
      /\ \A q \in Requests \ {r} : req'[q] = req[q]
  BY StepEffect, FreshRecords DEF IInv
<1>2. ASSUME NEW a \in Agents, agent[a].req = r
      PROVE  /\ Receive(a, h) \in Agent
             /\ Receive(a, h).req = NoRequest /\ Receive(a, h).pc # "executed"
             /\ \A t \in Receive(a, h).tasks : Assigned(t, a)
  <2> DEFINE left == IF h.kind = "poll" THEN h.items ELSE agent[a].tasks \ {h.item}
  <2>1. left \in SUBSET Actions /\ \A t \in left : Assigned(t, a)
    <3>1. agent[a] \in Agent
      BY DEF IInv, TypeOK
    <3>2. (\A t \in agent[a].tasks : Assigned(t, a)) /\ req[r].by = a
      BY <1>2 DEF IInv, AgentOK
    <3>3. req[r].kind = "poll" => \A t \in req[r].items : Assigned(t, a)
      BY <3>2 DEF IInv, HandlerOK
    <3> QED
      BY <3>1, <3>2, <3>3 DEF Agent, Handler
  <2>2. Receive(a, h) = IF ~h.ok THEN DownAgent
          ELSE [IdleAgent EXCEPT !.pc = IF left = {} THEN "idle" ELSE "working",
                                 !.tasks = left]
    BY DEF Receive
  <2> HIDE DEF left
  <2>3. DEFINE up == [IdleAgent EXCEPT !.pc = IF left = {} THEN "idle" ELSE "working",
                                       !.tasks = left]
  <2>4. up \in Agent /\ up.req = NoRequest /\ up.pc # "executed" /\ up.tasks = left
    BY <2>1 DEF IdleAgent, Agent
  <2> QED
    BY <2>1, <2>2, <2>4, FreshRecords
<1>3. \A a \in Agents : agent'[a] = IF agent[a].req = r THEN Receive(a, h) ELSE agent[a]
  BY DEF Answered
<1>4. agent' \in [Agents -> Agent]
  BY <1>2 DEF Answered, IInv, TypeOK
<1>5. TypeOK'
  BY <1>1, <1>4 DEF IInv, TypeOK
<1>6. Grows /\ AbsentIsPending'
      /\ OnlyApprovedIsPerformed' /\ SettledWasPerformed' /\ AuditIsTrue'
  BY <1>5, QuietTables
<1>7. HandlerOK(r)'
  BY <1>1 DEF HandlerOK, IdleHandler
<1>8. \A q \in Requests : HandlerOK(q)'
  BY <1>1, <1>5, <1>6, <1>7, HandlerFrame
<1>9. ASSUME NEW a \in Agents PROVE AgentOK(a)'
  <2>1. CASE agent[a].req = r
    <3>1. agent'[a] = Receive(a, h)
      BY <1>3, <2>1
    <3> QED
      BY <1>2, <1>6, <2>1, <3>1, RemediationAssumption DEF AgentOK, Assigned
  <2>2. CASE agent[a].req # r
    <3>1. agent'[a] = agent[a]
      BY <1>3, <2>2
    <3>2. \A q \in Requests : agent[a].req = q =>
            req'[q].pc # "idle" /\ req'[q].by = req[q].by /\ req'[q].kind = req[q].kind
      BY <1>1, <2>2 DEF IInv, AgentOK
    <3> QED
      BY <1>5, <1>6, <3>1, <3>2, AgentFrame
  <2> QED
    BY <2>1, <2>2
<1> QED
  BY <1>5, <1>6, <1>8, <1>9 DEF IInv

-----------------------------------------------------------------------------
(* The invariant. *)

\* The invariant holds of the empty tables.
LEMMA InitInv == Init => IInv
<1> SUFFICES ASSUME Init PROVE IInv
  OBVIOUS
<1>1. TypeOK
  <2>1. [status |-> "absent", approval |-> "pending", target |-> NoNode] \in Row
    BY DEF Row, Statuses
  <2>2. row \in [Actions -> Row]
    BY <2>1 DEF Init
  <2>3. req \in [Requests -> Handler] /\ agent \in [Agents -> Agent]
    BY FreshRecords DEF Init
  <2>4. performed \in [Actions -> [Agents -> 0 .. MaxPerformed]]
    BY RemediationAssumption DEF Init, MaxPerformed
  <2> QED
    BY <2>2, <2>3, <2>4, RemediationAssumption DEF Init, TypeOK
<1>2. \A r \in Requests : HandlerOK(r)
  BY DEF Init, HandlerOK, IdleHandler
<1>3. \A a \in Agents : AgentOK(a)
  BY RemediationAssumption DEF Init, AgentOK, IdleAgent
<1>4. AbsentIsPending /\ OnlyApprovedIsPerformed /\ SettledWasPerformed /\ AuditIsTrue
  BY DEF Init, AbsentIsPending, OnlyApprovedIsPerformed, SettledWasPerformed, AuditIsTrue,
         Settled
<1> QED
  BY <1>1, <1>2, <1>3, <1>4 DEF IInv

\* Every step preserves the invariant.
LEMMA StepInv == IInv /\ [Next]_vars => IInv'
<1> SUFFICES ASSUME IInv, [Next]_vars PROVE IInv'
  OBVIOUS
<1>1. ASSUME NEW r \in Requests, Serve(r) PROVE IInv'
  <2>1. CASE Respond(r)
    <3>1. req[r] \in Handler /\ faults \in 0 .. MaxFaults /\ cut \subseteq Actions
      BY DEF IInv, TypeOK
    <3>2. /\ req[r].pc # "idle" /\ agent' = Answered(r, req[r]) /\ Step(r, IdleHandler)
          /\ UNCHANGED <<row, audit, published, performed, asked, faults, cut>>
      BY <2>1 DEF Respond
    <3> QED
      BY <3>1, <3>2, AnswerInv
  <2> QED
    BY <1>1, <2>1, ApproveCommitInv, ApprovePublishInv, AuditInv, PollListInv, PollRefreshInv,
       PollMarkInv, ResultLoadInv, ResultCommitInv DEF Serve
<1>2. ASSUME NEW r \in Requests, Operate(r) PROVE IInv'
  BY <1>2, CreateActionInv, ApproveLoadInv DEF Operate
<1>3. ASSUME NEW r \in Requests, HandlerFails(r) PROVE IInv'
  <2> DEFINE h == [req[r] EXCEPT !.ok = FALSE]
  <2>1. h \in Handler /\ h.kind = req[r].kind /\ h.items = req[r].items
    BY Zenon DEF IInv, TypeOK, Handler
  <2>2. /\ req[r].pc # "idle" /\ agent' = Answered(r, h) /\ Step(r, IdleHandler)
        /\ UNCHANGED <<row, audit, published, performed, asked>>
    BY <1>3 DEF HandlerFails
  <2>3. faults' \in 0 .. MaxFaults
    BY <1>3, RemediationAssumption DEF HandlerFails, IInv, TypeOK
  <2>4. cut' \subseteq Actions
    <3>1. req[r].pc \in {"publish", "audit"} => req[r].item \in Actions
      BY DEF IInv, HandlerOK
    <3> QED
      BY <1>3, <3>1 DEF HandlerFails, IInv, TypeOK
  <2> HIDE DEF h
  <2> QED
    BY <2>1, <2>2, <2>3, <2>4, AnswerInv
<1>4. ASSUME NEW a \in Agents, Run(a) PROVE IInv'
  <2>1. CASE AgentRestarts(a)
    BY <2>1, AgentResets DEF AgentRestarts, IInv, TypeOK
  <2> QED
    BY <1>4, <2>1, PollInv, PostResultInv, ExecuteInv DEF Run
<1>5. ASSUME NEW a \in Agents, AgentFails(a) PROVE IInv'
  <2>1. faults' \in 0 .. MaxFaults
    BY <1>5, RemediationAssumption DEF AgentFails, IInv, TypeOK
  <2> QED
    BY <1>5, <2>1, AgentResets DEF AgentFails
<1>6. CASE UNCHANGED vars
  <2>1. TypeOK' /\ UNCHANGED <<row, req, agent, audit, performed>>
    BY <1>6 DEF vars, IInv, TypeOK
  <2> QED
    BY <2>1, QuietTables, HandlerFrame, AgentFrame DEF IInv, AgentOK
<1> QED
  BY <1>1, <1>2, <1>3, <1>4, <1>5, <1>6 DEF Next

\* The strengthened invariant holds in every reachable state: rows, handlers in
\* flight and agents always agree on what was approved and performed.
THEOREM Invariance == Spec => []IInv
BY InitInv, StepInv, PTL DEF Spec

\* Every variable always has its type.
THEOREM TypeCorrect == Spec => []TypeOK
<1>1. IInv => TypeOK
  BY DEF IInv
<1> QED
  BY <1>1, Invariance, PTL

\* No agent ever performs an action that is not approved or is another node's.
THEOREM PerformsOnlyApproved == Spec => []OnlyApprovedIsPerformed
<1>1. IInv => OnlyApprovedIsPerformed
  BY DEF IInv
<1> QED
  BY <1>1, Invariance, PTL

\* A final status is always that of an action some agent performed.
THEOREM StatusIsTrue == Spec => []SettledWasPerformed
<1>1. IInv => SettledWasPerformed
  BY DEF IInv
<1> QED
  BY <1>1, Invariance, PTL

\* The audit table never claims what did not happen.
THEOREM AuditTableIsTrue == Spec => []AuditIsTrue
<1>1. IInv => AuditIsTrue
  BY DEF IInv
<1> QED
  BY <1>1, Invariance, PTL

-----------------------------------------------------------------------------
(* What each step does to the fields of its handler and of its agent.  The *)
(* properties below need the whole effect of a step, and cite it here.     *)

Others(r) == \A q \in Requests \ {r} : req'[q] = req[q]

OtherAgents(a) == \A b \in Agents \ {a} : agent'[b] = agent[b]

\* The status an approval or a mark leaves behind in the row of action t.
Writes(t, s, loaded) ==
    /\ row'[t].status = (IF s = loaded THEN row[t].status ELSE s)
    /\ row'[t].target = row[t].target
    /\ \A u \in Actions \ {t} : row'[u] = row[u]

\* The new handler of a free thread.
LEMMA CreateActionEffect ==
    ASSUME IInv, NEW r \in Requests, NEW t \in Actions, NEW n \in Nodes \cup {NoNode},
           CreateAction(r, t, n)
    PROVE  /\ req[r].pc = "idle" /\ row[t].status = "absent" /\ row[t].approval = "pending"
           /\ row'[t].status = "requested" /\ row'[t].approval = "pending"
           /\ \A u \in Actions \ {t} : row'[u] = row[u]
           /\ req'[r].kind = "create" /\ req'[r].pc = "audit" /\ req'[r].item = t
           /\ req'[r].items = {} /\ req'[r].todo = {} /\ req'[r].ok
           /\ Others(r)
           /\ UNCHANGED <<agent, audit, published, performed, asked, faults, cut>>
<1> DEFINE g == [IdleHandler EXCEPT !.kind = "create", !.pc = "audit", !.item = t]
<1>1. g \in Handler /\ g.kind = "create" /\ g.pc = "audit" /\ g.item = t
      /\ g.items = {} /\ g.todo = {} /\ g.ok
  BY DEF IdleHandler, Handler
<1>2. Step(r, g)
  BY DEF CreateAction
<1> HIDE DEF g
<1>3. req'[r] = g /\ Others(r)
  BY <1>1, <1>2, StepEffect DEF IInv, Others
<1> QED
  BY <1>1, <1>3 DEF CreateAction, IInv, TypeOK, AbsentIsPending

\* The row is loaded into a new handler.
LEMMA ApproveLoadEffect ==
    ASSUME IInv, NEW r \in Requests, NEW t \in Actions, ApproveLoad(r, t)
    PROVE  /\ req[r].pc = "idle" /\ row[t].status # "absent"
           /\ asked'[t] = asked[t] + 1
           /\ \A u \in Actions \ {t} : asked'[u] = asked[u]
           /\ req'[r].kind = "approve" /\ req'[r].pc = "commit" /\ req'[r].item = t
           /\ req'[r].loaded = row[t].status
           /\ req'[r].items = {} /\ req'[r].todo = {} /\ req'[r].ok
           /\ Others(r)
           /\ UNCHANGED <<row, agent, audit, published, performed, faults, cut>>
<1> DEFINE g == [IdleHandler EXCEPT !.kind = "approve", !.pc = "commit", !.item = t,
                                    !.loaded = row[t].status]
<1>0. row[t].status \in Statuses
  BY DEF IInv, TypeOK, Row
<1>1. g \in Handler /\ g.kind = "approve" /\ g.pc = "commit" /\ g.item = t
      /\ g.loaded = row[t].status /\ g.items = {} /\ g.todo = {} /\ g.ok
  BY <1>0 DEF IdleHandler, Handler
<1>2. Step(r, g)
  BY DEF ApproveLoad
<1> HIDE DEF g
<1>3. req'[r] = g /\ Others(r)
  BY <1>1, <1>2, StepEffect DEF IInv, Others
<1> QED
  BY <1>1, <1>3 DEF ApproveLoad, IInv, TypeOK

\* The UPDATE of an approval compares with what the handler loaded.
LEMMA ApproveCommitEffect ==
    ASSUME IInv, NEW r \in Requests, ApproveCommit(r)
    PROVE  LET h == req[r] IN
           /\ h.kind = "approve" /\ h.pc = "commit"
           /\ h.item \in Actions /\ row[h.item].status # "absent"
           /\ Writes(h.item, "queued", h.loaded)
           /\ row'[h.item].approval = "approved"
           /\ req'[r].kind = "approve" /\ req'[r].pc = "publish" /\ req'[r].item = h.item
           /\ req'[r].items = h.items /\ req'[r].todo = h.todo /\ req'[r].ok = h.ok
           /\ Others(r)
           /\ UNCHANGED <<agent, audit, published, performed, asked, faults, cut>>
<1> DEFINE h == req[r]
           g == [h EXCEPT !.pc = "publish", !.loaded = "expired"]
<1>1. h \in Handler /\ h.kind = "approve" /\ h.pc = "commit" /\ h.item \in Actions
      /\ row[h.item].status # "absent"
  BY DEF IInv, TypeOK, HandlerOK, ApproveCommit
<1>2. g \in Handler /\ g.pc = "publish" /\ g.kind = h.kind /\ g.item = h.item
      /\ g.items = h.items /\ g.todo = h.todo /\ g.ok = h.ok
  BY <1>1 DEF Handler
<1>3. Step(r, g)
  BY DEF ApproveCommit
<1>4. req'[r] = g /\ Others(r)
  <2> HIDE DEF g
  <2> QED
    BY <1>2, <1>3, StepEffect DEF IInv, Others
<1>5. Writes(h.item, "queued", h.loaded) /\ row'[h.item].approval = "approved"
  <2>1. PICK s \in Statuses : /\ row' = [row EXCEPT ![h.item].approval = "approved",
                                                     ![h.item].status = s]
                              /\ s = IF "queued" = h.loaded THEN row[h.item].status ELSE "queued"
    BY <1>1 DEF ApproveCommit, Flush, IInv, TypeOK, Row, Statuses, Open
  <2> QED
    BY <1>1, <2>1 DEF Writes, IInv, TypeOK, Row
<1>6. UNCHANGED <<agent, audit, published, performed, asked, faults, cut>>
  BY DEF ApproveCommit
<1> HIDE DEF g
<1> QED
  BY <1>1, <1>2, <1>4, <1>5, <1>6

\* The event of the handler's action is published.
LEMMA ApprovePublishEffect ==
    ASSUME IInv, NEW r \in Requests, ApprovePublish(r)
    PROVE  LET h == req[r] IN
           /\ h.kind = "approve" /\ h.pc = "publish" /\ h.item \in Actions
           /\ published' = published \cup {h.item}
           /\ req'[r].kind = "approve" /\ req'[r].pc = "audit" /\ req'[r].item = h.item
           /\ req'[r].items = h.items /\ req'[r].todo = h.todo /\ req'[r].ok = h.ok
           /\ Others(r)
           /\ UNCHANGED <<row, agent, audit, performed, asked, faults, cut>>
<1> DEFINE h == req[r]
           g == [h EXCEPT !.pc = "audit"]
<1>1. h \in Handler /\ h.kind = "approve" /\ h.pc = "publish" /\ h.item \in Actions
  BY DEF IInv, TypeOK, HandlerOK, ApprovePublish
<1>2. g \in Handler /\ g.pc = "audit" /\ g.kind = h.kind /\ g.item = h.item
      /\ g.items = h.items /\ g.todo = h.todo /\ g.ok = h.ok
  BY <1>1 DEF Handler
<1>3. Step(r, g)
  BY DEF ApprovePublish
<1>4. req'[r] = g /\ Others(r)
  <2> HIDE DEF g
  <2> QED
    BY <1>2, <1>3, StepEffect DEF IInv, Others
<1> HIDE DEF g
<1> QED
  BY <1>1, <1>2, <1>4 DEF ApprovePublish

\* The entry says what the row says now.
LEMMA AuditEffect ==
    ASSUME IInv, NEW r \in Requests, Audit(r)
    PROVE  LET h == req[r]
               good == h.kind # "result" \/ row[h.item].status = "completed"
               e == [event |-> h.kind, item |-> h.item,
                     outcome |-> IF good THEN "success" ELSE "failure"]
           IN
           /\ h.pc = "audit" /\ h.kind \in {"create", "approve", "result"} /\ h.item \in Actions
           /\ audit' = audit \cup {e}
           /\ req'[r].kind = h.kind /\ req'[r].pc = "respond" /\ req'[r].item = h.item
           /\ req'[r].items = h.items /\ req'[r].todo = h.todo /\ req'[r].ok = h.ok
           /\ req'[r].by = h.by
           /\ Others(r)
           /\ UNCHANGED <<row, agent, published, performed, asked, faults, cut>>
<1> DEFINE h == req[r]
           g == [h EXCEPT !.pc = "respond"]
<1>1. h \in Handler /\ h.pc = "audit" /\ h.kind \in {"create", "approve", "result"}
      /\ h.item \in Actions
  BY DEF IInv, TypeOK, HandlerOK, Audit
<1>2. g \in Handler /\ g.pc = "respond" /\ g.kind = h.kind /\ g.item = h.item
      /\ g.items = h.items /\ g.todo = h.todo /\ g.ok = h.ok /\ g.by = h.by
  BY <1>1 DEF Handler
<1>3. Step(r, g)
  BY DEF Audit
<1>4. req'[r] = g /\ Others(r)
  <2> HIDE DEF g
  <2> QED
    BY <1>2, <1>3, StepEffect DEF IInv, Others
<1> HIDE DEF g
<1> QED
  BY <1>1, <1>2, <1>4 DEF Audit

\* A poll lists everything or nothing.
LEMMA PollListEffect ==
    ASSUME IInv, NEW r \in Requests, PollList(r)
    PROVE  LET h == req[r]
               tasks == TasksFor(h.by)
           IN
           /\ h.kind = "poll" /\ h.pc = "start" /\ h.by \in Agents
           /\ req'[r].kind = "poll" /\ req'[r].by = h.by /\ req'[r].ok = h.ok
           /\ \/ /\ tasks = {} /\ req'[r].pc = "respond"
                 /\ req'[r].items = h.items /\ req'[r].todo = h.todo
              \/ /\ req'[r].pc = "mark"
                 /\ req'[r].items = tasks /\ req'[r].todo = tasks /\ req'[r].item \in tasks
           /\ Others(r)
           /\ UNCHANGED <<row, agent, audit, published, performed, asked, faults, cut>>
<1> DEFINE h == req[r]
           tasks == TasksFor(h.by)
           none == [h EXCEPT !.pc = "respond"]
           some(t) == [h EXCEPT !.pc = "mark", !.items = tasks, !.todo = tasks,
                                !.item = t, !.loaded = row[t].status]
<1>1. h \in Handler /\ h.kind = "poll" /\ h.pc = "start" /\ h.by \in Agents
  BY DEF IInv, TypeOK, PollList, HandlerOK
<1>2. tasks \subseteq Actions /\ \A t \in tasks : row[t].status \in Statuses
  BY DEF TasksFor, IInv, TypeOK, Row
<1>3. (tasks = {} /\ Step(r, none)) \/ \E t \in tasks : Step(r, some(t))
  BY DEF PollList
<1>4. UNCHANGED <<row, agent, audit, published, performed, asked, faults, cut>>
  BY DEF PollList
<1> HIDE DEF tasks
<1>5. CASE tasks = {} /\ Step(r, none)
  <2>1. none \in Handler /\ none.kind = h.kind /\ none.by = h.by /\ none.pc = "respond"
        /\ none.items = h.items /\ none.todo = h.todo /\ none.ok = h.ok
    BY <1>1 DEF Handler
  <2> HIDE DEF none
  <2>2. req'[r] = none /\ Others(r)
    BY <1>5, <2>1, StepEffect DEF IInv, Others
  <2> QED
    BY <1>1, <1>4, <1>5, <2>1, <2>2 DEF tasks
<1>6. ASSUME NEW t \in tasks, Step(r, some(t))
      PROVE  /\ req'[r].kind = "poll" /\ req'[r].by = h.by /\ req'[r].ok = h.ok
             /\ req'[r].pc = "mark" /\ req'[r].items = tasks /\ req'[r].todo = tasks
             /\ req'[r].item \in tasks /\ Others(r)
  <2> DEFINE g == some(t)
  <2>1. g \in Handler /\ g.kind = h.kind /\ g.by = h.by /\ g.pc = "mark"
        /\ g.items = tasks /\ g.todo = tasks /\ g.item = t /\ g.ok = h.ok
    BY <1>1, <1>2 DEF Handler
  <2>2. Step(r, g)
    BY <1>6
  <2> HIDE DEF g
  <2>3. req'[r] = g /\ Others(r)
    BY <2>1, <2>2, StepEffect DEF IInv, Others
  <2> QED
    BY <1>1, <2>1, <2>3
<1> HIDE DEF none, some
<1> QED
  BY <1>1, <1>3, <1>4, <1>5, <1>6 DEF tasks

\* It goes on with a row it has yet to mark.
LEMMA PollRefreshEffect ==
    ASSUME IInv, NEW r \in Requests, PollRefresh(r)
    PROVE  LET h == req[r] IN
           /\ h.kind = "poll" /\ h.pc = "mark"
           /\ req'[r].kind = "poll" /\ req'[r].by = h.by /\ req'[r].ok = h.ok
           /\ req'[r].pc = "mark" /\ req'[r].items = h.items /\ req'[r].todo = h.todo
           /\ req'[r].item \in h.todo
           /\ Others(r)
           /\ UNCHANGED <<row, agent, audit, published, performed, asked, faults, cut>>
<1> DEFINE h == req[r]
<1>1. h \in Handler /\ h.kind = "poll" /\ h.pc = "mark"
  BY DEF IInv, TypeOK, PollRefresh
<1>2. PICK t \in h.todo : Step(r, [h EXCEPT !.item = t, !.loaded = row[t].status])
  BY DEF PollRefresh
<1> DEFINE g == [h EXCEPT !.item = t, !.loaded = row[t].status]
<1>3. t \in Actions /\ row[t].status \in Statuses
  BY <1>1 DEF Handler, IInv, TypeOK, Row
<1>4. g \in Handler /\ g.pc = h.pc /\ g.kind = h.kind /\ g.by = h.by
      /\ g.items = h.items /\ g.todo = h.todo /\ g.item = t /\ g.ok = h.ok
  BY <1>1, <1>3 DEF Handler
<1>5. Step(r, g)
  BY <1>2
<1>6. UNCHANGED <<row, agent, audit, published, performed, asked, faults, cut>>
  BY DEF PollRefresh
<1> HIDE DEF g
<1>7. req'[r] = g /\ Others(r)
  BY <1>4, <1>5, StepEffect DEF IInv, Others
<1> QED
  BY <1>1, <1>2, <1>4, <1>6, <1>7

\* It marks that row, whatever its status is by now.
LEMMA PollMarkEffect ==
    ASSUME IInv, NEW r \in Requests, PollMark(r)
    PROVE  LET h == req[r] IN
           /\ h.kind = "poll" /\ h.pc = "mark" /\ h.loaded # "expired"
           /\ h.item \in Actions /\ h.item \in h.items /\ h.by \in Agents
           /\ Writes(h.item, "dispatched", h.loaded)
           /\ row'[h.item].approval = row[h.item].approval
           /\ req'[r].kind = "poll" /\ req'[r].by = h.by /\ req'[r].ok = h.ok
           /\ req'[r].pc \in {"mark", "respond"} /\ req'[r].loaded = "expired"
           /\ req'[r].items = h.items /\ req'[r].todo = h.todo \ {h.item}
           /\ Others(r)
           /\ UNCHANGED <<agent, audit, published, performed, asked, faults, cut>>
<1> DEFINE h == req[r]
           rest == h.todo \ {h.item}
           g == [h EXCEPT !.todo = rest, !.loaded = "expired",
                          !.pc = IF rest = {} THEN "respond" ELSE "mark"]
<1>1. /\ h \in Handler /\ h.kind = "poll" /\ h.pc = "mark" /\ h.loaded # "expired"
      /\ h.item \in Actions /\ h.item \in h.items /\ h.by \in Agents
  BY DEF IInv, TypeOK, Handler, PollMark, HandlerOK
<1>2. /\ row' = [row EXCEPT ![h.item].status = Flush(@, h.loaded, "dispatched")]
      /\ Step(r, g)
      /\ UNCHANGED <<agent, audit, published, performed, asked, faults, cut>>
  BY DEF PollMark
<1>3. g \in Handler /\ g.pc \in {"respond", "mark"} /\ g.kind = h.kind /\ g.by = h.by
      /\ g.items = h.items /\ g.todo = rest /\ g.ok = h.ok /\ g.loaded = "expired"
  <2> HIDE DEF rest
  <2>1. rest \in SUBSET Actions
    BY <1>1 DEF Handler, rest
  <2> QED
    BY <1>1, <2>1 DEF Handler
<1> HIDE DEF g
<1>4. req'[r] = g /\ Others(r)
  BY <1>2, <1>3, StepEffect DEF IInv, Others
<1>5. Writes(h.item, "dispatched", h.loaded) /\ row'[h.item].approval = row[h.item].approval
  BY <1>1, <1>2 DEF Writes, Flush, IInv, TypeOK, Row
<1> QED
  BY <1>1, <1>2, <1>3, <1>4, <1>5

\* A result for another node's action is refused.
LEMMA ResultLoadEffect ==
    ASSUME IInv, NEW r \in Requests, ResultLoad(r)
    PROVE  LET h == req[r] IN
           /\ h.kind = "result" /\ h.pc = "start" /\ h.item \in Actions /\ h.by \in Agents
           /\ req'[r].kind = "result" /\ req'[r].by = h.by /\ req'[r].item = h.item
           /\ req'[r].items = h.items /\ req'[r].todo = h.todo
           /\ req'[r].pc = IF row[h.item].target = NodeOf[h.by] THEN "commit" ELSE "respond"
           /\ req'[r].loaded = row[h.item].status
           /\ Others(r)
           /\ UNCHANGED <<row, agent, audit, published, performed, asked, faults, cut>>
<1> DEFINE h == req[r]
           found == row[h.item].target = NodeOf[h.by]
           g == [h EXCEPT !.pc = IF found THEN "commit" ELSE "respond", !.ok = found,
                          !.loaded = row[h.item].status]
<1>1. h \in Handler /\ h.kind = "result" /\ h.pc = "start" /\ h.by \in Agents
      /\ h.item \in Actions /\ row[h.item].status \in Statuses
  BY DEF IInv, TypeOK, Row, HandlerOK, ResultLoad
<1>2. found \in BOOLEAN
  OBVIOUS
<1>3. Step(r, g) /\ UNCHANGED <<row, agent, audit, published, performed, asked, faults, cut>>
  BY DEF ResultLoad
<1> HIDE DEF found
<1>4. g \in Handler /\ g.kind = h.kind /\ g.by = h.by /\ g.item = h.item
      /\ g.pc = (IF found THEN "commit" ELSE "respond")
      /\ g.items = h.items /\ g.todo = h.todo /\ g.loaded = row[h.item].status
  BY <1>1, <1>2 DEF Handler
<1> HIDE DEF g
<1>5. req'[r] = g /\ Others(r)
  BY <1>3, <1>4, StepEffect DEF IInv, Others
<1> QED
  BY <1>1, <1>3, <1>4, <1>5 DEF found

\* The UPDATE of a result compares with what the handler loaded.
LEMMA ResultCommitEffect ==
    ASSUME IInv, NEW r \in Requests, ResultCommit(r)
    PROVE  LET h == req[r] IN
           /\ h.kind = "result" /\ h.pc = "commit" /\ h.item \in Actions /\ h.by \in Agents
           /\ Writes(h.item, ResultStatus(h.item), h.loaded)
           /\ row'[h.item].approval = row[h.item].approval
           /\ req'[r].kind = "result" /\ req'[r].by = h.by /\ req'[r].item = h.item
           /\ req'[r].pc = "audit" /\ req'[r].items = h.items /\ req'[r].todo = h.todo
           /\ req'[r].ok = h.ok
           /\ Others(r)
           /\ UNCHANGED <<agent, audit, published, performed, asked, faults, cut>>
<1> DEFINE h == req[r]
           s == ResultStatus(h.item)
           g == [h EXCEPT !.pc = "audit", !.loaded = "expired"]
<1>1. /\ h \in Handler /\ h.kind = "result" /\ h.pc = "commit"
      /\ h.item \in Actions /\ h.by \in Agents
  BY DEF IInv, TypeOK, ResultCommit, HandlerOK
<1>2. /\ row' = [row EXCEPT ![h.item].status = Flush(@, h.loaded, s)]
      /\ Step(r, g)
      /\ UNCHANGED <<agent, audit, published, performed, asked, faults, cut>>
  BY DEF ResultCommit
<1>3. g \in Handler /\ g.pc = "audit" /\ g.kind = h.kind /\ g.by = h.by /\ g.item = h.item
      /\ g.items = h.items /\ g.todo = h.todo /\ g.ok = h.ok
  BY <1>1 DEF Handler
<1> HIDE DEF g, s
<1>4. req'[r] = g /\ Others(r)
  BY <1>2, <1>3, StepEffect DEF IInv, Others
<1>5. Writes(h.item, s, h.loaded) /\ row'[h.item].approval = row[h.item].approval
  BY <1>1, <1>2 DEF Writes, Flush, IInv, TypeOK, Row
<1> QED
  BY <1>1, <1>2, <1>3, <1>4, <1>5 DEF s

\* An agent that waits for an answer, and one that gets it.
LEMMA ReceiveEffect ==
    ASSUME IInv, NEW a \in Agents, NEW r \in Requests, NEW h \in Handler,
           h.kind = req[r].kind, h.items = req[r].items, h.item = req[r].item,
           agent[a].req = r
    PROVE  /\ Receive(a, h).pc \in {"down", "idle", "working"}
           /\ Receive(a, h).req = NoRequest
           /\ Receive(a, h).pc \in {"down", "idle"} => Receive(a, h).tasks = {}
           /\ \/ Receive(a, h).tasks = {}
              \/ req[r].kind = "poll" /\ Receive(a, h).tasks = req[r].items
              \/ req[r].kind = "result" /\ Receive(a, h).tasks = agent[a].tasks \ {req[r].item}
<1> DEFINE left == IF h.kind = "poll" THEN h.items ELSE agent[a].tasks \ {h.item}
           up == [IdleAgent EXCEPT !.pc = IF left = {} THEN "idle" ELSE "working",
                                   !.tasks = left]
<1>1. Receive(a, h) = IF ~h.ok THEN DownAgent ELSE up
  BY DEF Receive
<1>2. req[r].kind \in {"poll", "result"}
  BY DEF IInv, AgentOK
<1>3. up.req = NoRequest /\ up.tasks = left /\ up.pc \in {"idle", "working"}
      /\ (up.pc = "idle" => left = {})
  BY DEF IdleAgent
<1>4. left = IF req[r].kind = "poll" THEN req[r].items ELSE agent[a].tasks \ {req[r].item}
  OBVIOUS
<1> HIDE DEF up, left
<1> QED
  BY <1>1, <1>2, <1>3, <1>4, FreshRecords

\* A handler that ends, whatever it answers.
Ends(r) ==
    /\ req[r].pc # "idle"
    /\ req'[r] = IdleHandler /\ Others(r)
    /\ \A a \in Agents : agent[a].req # r => agent'[a] = agent[a]
    /\ \A a \in Agents : agent[a].req = r =>
         /\ agent'[a].pc \in {"down", "idle", "working"}
         /\ agent'[a].req = NoRequest
         /\ agent'[a].pc \in {"down", "idle"} => agent'[a].tasks = {}
         /\ \/ agent'[a].tasks = {}
            \/ req[r].kind = "poll" /\ agent'[a].tasks = req[r].items
            \/ req[r].kind = "result" /\ agent'[a].tasks = agent[a].tasks \ {req[r].item}
    /\ UNCHANGED <<row, audit, published, performed, asked>>

\* A response ends its handler, and so does a failure.
LEMMA EndsEffect ==
    ASSUME IInv, NEW r \in Requests, Respond(r) \/ HandlerFails(r)
    PROVE  Ends(r) /\ (UNCHANGED <<faults, cut>> \/ (HandlerFails(r) /\ faults' = faults + 1))
<1>1. PICK h \in Handler :
        /\ h.kind = req[r].kind /\ h.items = req[r].items /\ h.item = req[r].item
        /\ agent' = Answered(r, h)
  <2>1. req[r] \in Handler /\ [req[r] EXCEPT !.ok = FALSE] \in Handler
    BY Zenon DEF IInv, TypeOK, Handler
  <2>2. CASE Respond(r)
    BY <2>1, <2>2 DEF Respond
  <2>3. CASE HandlerFails(r)
    <3> DEFINE g == [req[r] EXCEPT !.ok = FALSE]
    <3>1. g.kind = req[r].kind /\ g.items = req[r].items /\ g.item = req[r].item
      BY <2>1 DEF Handler
    <3>2. g \in Handler /\ agent' = Answered(r, g)
      BY <2>1, <2>3 DEF HandlerFails
    <3> HIDE DEF g
    <3> QED
      BY <3>1, <3>2
  <2> QED
    BY <2>2, <2>3
<1>2. \A a \in Agents : agent'[a] = IF agent[a].req = r THEN Receive(a, h) ELSE agent[a]
  BY <1>1 DEF Answered
<1>3. req[r].pc # "idle" /\ Step(r, IdleHandler)
      /\ UNCHANGED <<row, audit, published, performed, asked>>
  BY DEF Respond, HandlerFails
<1>4. req'[r] = IdleHandler /\ Others(r)
  BY <1>3, StepEffect, FreshRecords DEF IInv, Others
<1> QED
  BY <1>1, <1>2, <1>3, <1>4, ReceiveEffect DEF Ends, Respond, HandlerFails

\* An agent that sends a request.
LEMMA SendEffect ==
    ASSUME IInv, NEW a \in Agents, NEW r \in Requests, Poll(a, r) \/ PostResult(a, r)
    PROVE  /\ req[r].pc = "idle"
           /\ agent'[a].pc = "waiting" /\ agent'[a].req = r
           /\ agent'[a].tasks = agent[a].tasks /\ OtherAgents(a)
           /\ req'[r].pc = "start" /\ req'[r].by = a
           /\ req'[r].items = {} /\ req'[r].todo = {} /\ req'[r].ok
           /\ Others(r)
           /\ UNCHANGED <<row, audit, published, performed, asked, faults, cut>>
           /\ \/ Poll(a, r) /\ agent[a].pc = "idle" /\ req'[r].kind = "poll"
              \/ /\ PostResult(a, r) /\ agent[a].pc = "executed" /\ req'[r].kind = "result"
                 /\ req'[r].item = agent[a].current /\ agent[a].current \in agent[a].tasks
                 /\ agent[a].current \in Actions
<1> DEFINE poll == [IdleHandler EXCEPT !.kind = "poll", !.pc = "start", !.by = a]
           post == [IdleHandler EXCEPT !.kind = "result", !.pc = "start", !.by = a,
                                       !.item = agent[a].current]
<1>1. agent[a] \in Agent
  BY DEF IInv, TypeOK
<1>2. poll \in Handler /\ poll.pc = "start" /\ poll.by = a /\ poll.kind = "poll"
      /\ poll.items = {} /\ poll.todo = {} /\ poll.ok
  BY DEF IdleHandler, Handler, Statuses
<1>3. post \in Handler /\ post.pc = "start" /\ post.by = a /\ post.kind = "result"
      /\ post.items = {} /\ post.todo = {} /\ post.ok /\ post.item = agent[a].current
  BY <1>1 DEF IdleHandler, Handler, Statuses, Agent
<1>4. /\ agent'[a].pc = "waiting" /\ agent'[a].req = r
      /\ agent'[a].tasks = agent[a].tasks /\ OtherAgents(a)
  <2>1. agent \in [Agents -> Agent]
        /\ agent' = [agent EXCEPT ![a] = [agent[a] EXCEPT !.pc = "waiting", !.req = r]]
    BY DEF IInv, TypeOK, Poll, PostResult
  <2> QED
    BY <2>1 DEF OtherAgents, Agent
<1>5. /\ req[r].pc = "idle"
      /\ UNCHANGED <<row, audit, published, performed, asked, faults, cut>>
  BY DEF Poll, PostResult
<1>6. CASE Poll(a, r)
  <2>1. Step(r, poll) /\ agent[a].pc = "idle"
    BY <1>6 DEF Poll
  <2> HIDE DEF poll
  <2>2. req'[r] = poll /\ Others(r)
    BY <1>2, <2>1, StepEffect DEF IInv, Others
  <2> QED
    BY <1>2, <1>4, <1>5, <1>6, <2>1, <2>2
<1>7. CASE PostResult(a, r)
  <2>1. Step(r, post) /\ agent[a].pc = "executed"
    BY <1>7 DEF PostResult
  <2>2. agent[a].current \in agent[a].tasks /\ agent[a].current \in Actions
    BY <1>1, <2>1 DEF IInv, AgentOK, Agent
  <2> HIDE DEF post
  <2>3. req'[r] = post /\ Others(r)
    BY <1>3, <2>1, StepEffect DEF IInv, Others
  <2> QED
    BY <1>3, <1>4, <1>5, <1>7, <2>1, <2>2, <2>3
<1> QED
  BY <1>6, <1>7

\* An agent that performs a task counts it.
LEMMA ExecuteEffect ==
    ASSUME IInv, NEW a \in Agents, NEW t \in Actions, Execute(a, t)
    PROVE  /\ agent[a].pc = "working" /\ t \in agent[a].tasks
           /\ agent'[a].pc = "executed" /\ agent'[a].current = t
           /\ agent'[a].tasks = agent[a].tasks /\ agent'[a].req = agent[a].req
           /\ OtherAgents(a)
           /\ performed'[t][a] \in Nat /\ performed'[t][a] > 0
           /\ performed'[t][a] <= performed[t][a] + 1
           /\ \A u \in Actions, b \in Agents :
                performed'[u][b] = performed[u][b] \/ (u = t /\ b = a)
           /\ UNCHANGED <<row, req, audit, published, asked, faults, cut>>
<1>1. /\ agent'[a].pc = "executed" /\ agent'[a].current = t
      /\ agent'[a].tasks = agent[a].tasks /\ agent'[a].req = agent[a].req
      /\ OtherAgents(a)
  <2>1. agent \in [Agents -> Agent]
        /\ agent' = [agent EXCEPT ![a] = [agent[a] EXCEPT !.pc = "executed", !.current = t]]
    BY DEF IInv, TypeOK, Execute
  <2> QED
    BY <2>1 DEF OtherAgents, Agent
<1>2. performed \in [Actions -> [Agents -> 0 .. MaxPerformed]]
      /\ performed' = [performed EXCEPT ![t][a] = IF @ < MaxPerformed THEN @ + 1 ELSE @]
  BY DEF IInv, TypeOK, Execute
<1>3. MaxPerformed \in Nat /\ MaxPerformed > 0
  BY RemediationAssumption DEF MaxPerformed
<1>4. performed'[t][a] \in Nat /\ performed'[t][a] > 0
      /\ performed'[t][a] <= performed[t][a] + 1
  BY <1>2, <1>3
<1>5. \A u \in Actions, b \in Agents : performed'[u][b] = performed[u][b] \/ (u = t /\ b = a)
  BY <1>2
<1> QED
  BY <1>1, <1>4, <1>5 DEF Execute

\* An agent that stops or starts holds nothing.
LEMMA ResetEffect ==
    ASSUME IInv, NEW a \in Agents, AgentFails(a) \/ AgentRestarts(a)
    PROVE  /\ agent'[a].pc \in {"down", "idle"}
           /\ agent'[a].tasks = {} /\ agent'[a].req = NoRequest
           /\ OtherAgents(a)
           /\ faults' = faults + 1 \/ (faults' = faults /\ agent[a].pc = "down")
           /\ UNCHANGED <<row, req, audit, published, performed, asked, cut>>
<1>1. PICK new \in {IdleAgent, DownAgent} : agent' = [agent EXCEPT ![a] = new]
  BY DEF AgentFails, AgentRestarts
<1>2. new.pc \in {"down", "idle"} /\ new.tasks = {} /\ new.req = NoRequest
  BY FreshRecords DEF IdleAgent
<1>3. agent'[a] = new /\ OtherAgents(a)
  BY <1>1 DEF IInv, TypeOK, OtherAgents
<1> QED
  BY <1>2, <1>3 DEF AgentFails, AgentRestarts

\* A step moves one handler: one of its own statements, or a request sent to it.
LEMMA OneMoves ==
    ASSUME IInv, Next, NEW q \in Requests
    PROVE  \/ req'[q] = req[q]
           \/ Serve(q) \/ Operate(q) \/ HandlerFails(q)
           \/ \E a \in Agents : Poll(a, q) \/ PostResult(a, q)
<1>1. ASSUME NEW r \in Requests, Serve(r) \/ Operate(r) \/ HandlerFails(r), r # q
      PROVE  req'[q] = req[q]
  <2>1. Step(r, req'[r]) \/ UNCHANGED req
    BY <1>1, Zenon DEF Serve, Operate, HandlerFails, Step, CreateAction, ApproveLoad, ApproveCommit,
       ApprovePublish, Audit, PollList, PollRefresh, PollMark, ResultLoad, ResultCommit,
       Respond, IInv, TypeOK
  <2> QED
    BY <1>1, <2>1 DEF Step, IInv, TypeOK
<1>2. ASSUME NEW a \in Agents, Run(a) \/ AgentFails(a),
             ~Poll(a, q), ~PostResult(a, q)
      PROVE  req'[q] = req[q]
  <2>1. ASSUME NEW r \in Requests, Poll(a, r) \/ PostResult(a, r) PROVE req'[q] = req[q]
    BY <1>2, <2>1, SendEffect DEF Others
  <2> QED
    BY <1>2, <2>1 DEF Run, Execute, AgentRestarts, AgentFails
<1> QED
  BY <1>1, <1>2 DEF Next

\* A row is written by four statements, and only an execution counts as one.
LEMMA Writers ==
    ASSUME Next
    PROVE  /\ \/ UNCHANGED row
              \/ \E r \in Requests : ApproveCommit(r) \/ PollMark(r) \/ ResultCommit(r)
              \/ \E r \in Requests, t \in Actions, n \in Nodes \cup {NoNode} : CreateAction(r, t, n)
           /\ \/ UNCHANGED performed
              \/ UNCHANGED row /\ \E a \in Agents, t \in Actions : Execute(a, t)
<1>1. ASSUME NEW r \in Requests, Serve(r) \/ Operate(r) \/ HandlerFails(r)
      PROVE  /\ UNCHANGED performed
             /\ \/ UNCHANGED row
                \/ ApproveCommit(r) \/ PollMark(r) \/ ResultCommit(r)
                \/ \E t \in Actions, n \in Nodes \cup {NoNode} : CreateAction(r, t, n)
  BY <1>1 DEF Serve, Operate, HandlerFails, CreateAction, ApproveLoad, ApproveCommit,
     ApprovePublish, Audit, PollList, PollRefresh, PollMark, ResultLoad, ResultCommit, Respond
<1>2. ASSUME NEW a \in Agents, Run(a) \/ AgentFails(a)
      PROVE  UNCHANGED row /\ (UNCHANGED performed \/ \E t \in Actions : Execute(a, t))
  BY <1>2 DEF Run, Poll, PostResult, Execute, AgentRestarts, AgentFails
<1> QED
  BY <1>1, <1>2 DEF Next

-----------------------------------------------------------------------------
(* What handlers and agents carry from one statement to the next, beyond   *)
(* IInv.                                                                   *)

\* A handler lists nothing but the tasks of a poll, marks a row it has yet to
\* mark, publishes before it audits, and approves what was asked for; without
\* faults its agent waits for it.
HandlerCarries(r) ==
    LET h == req[r] IN
    /\ h.pc = "idle" => h.kind = "none"
    /\ h.kind # "poll" \/ h.pc = "start" => h.items = {} /\ h.todo = {}
    /\ h.pc = "mark" /\ h.loaded # "expired" => h.item \in h.todo
    /\ h.kind = "approve" /\ h.pc = "audit" => h.item \in published
    /\ h.kind = "approve" /\ h.pc = "commit" =>
         /\ asked[h.item] > 0
         /\ h.loaded = "queued" => row[h.item].status \notin {"absent", "requested"}
    /\ h.kind \in {"poll", "result"} /\ faults = 0 => agent[h.by].req = r

\* An agent waits for one request at a time, holds tasks from the answer to its
\* poll to its last result, and reports a task it holds.
AgentCarries(a) ==
    LET p == agent[a] IN
    /\ p.pc # "waiting" => p.req = NoRequest
    /\ p.pc \in {"idle", "down"} => p.tasks = {}
    /\ \A r \in Requests : p.req = r => IF req[r].kind = "poll" THEN p.tasks = {}
                                        ELSE req[r].item \in p.tasks

\* What is approved was asked for and is past its request.
ApprovedWasAsked ==
    \A t \in Actions : row[t].approval = "approved" =>
        asked[t] > 0 /\ row[t].status \notin {"absent", "requested"}

Carried ==
    /\ \A r \in Requests : HandlerCarries(r)
    /\ \A a \in Agents : AgentCarries(a)
    /\ ApprovedWasAsked

\* More that no step takes back.
Advances ==
    /\ \A t \in Actions : row[t].status \notin {"absent", "requested"} =>
         row'[t].status \notin {"absent", "requested"}
    /\ \A t \in Actions : row[t].approval = "approved" =>
         row'[t].approval = "approved" /\ row'[t].target = row[t].target
    /\ published \subseteq published' /\ audit \subseteq audit' /\ cut \subseteq cut'
    /\ \A t \in Actions : asked'[t] \in Nat /\ asked[t] <= asked'[t]
    /\ faults' \in Nat /\ faults <= faults'

\* Every step advances.
LEMMA StepAdvances ==
    ASSUME IInv, [Next]_vars
    PROVE  Advances
<1>0. asked \in [Actions -> Nat] /\ faults \in Nat
  BY RemediationAssumption DEF IInv, TypeOK
<1>1. ASSUME NEW r \in Requests, NEW t \in Actions, NEW n \in Nodes \cup {NoNode},
             CreateAction(r, t, n)
      PROVE  Advances
  BY <1>0, <1>1, CreateActionEffect DEF Advances
<1>2. ASSUME NEW r \in Requests, NEW t \in Actions, ApproveLoad(r, t) PROVE Advances
  BY <1>0, <1>2, ApproveLoadEffect DEF Advances
<1>3. ASSUME NEW r \in Requests, ApproveCommit(r) PROVE Advances
  BY <1>0, <1>3, ApproveCommitEffect DEF Advances, Writes
<1>4. ASSUME NEW r \in Requests, PollMark(r) PROVE Advances
  BY <1>0, <1>4, PollMarkEffect DEF Advances, Writes
<1>5. ASSUME NEW r \in Requests, ResultCommit(r) PROVE Advances
  BY <1>0, <1>5, ResultCommitEffect DEF Advances, Writes, ResultStatus
<1>6. ASSUME NEW r \in Requests,
             ApprovePublish(r) \/ Audit(r) \/ PollList(r) \/ PollRefresh(r) \/ ResultLoad(r)
      PROVE  Advances
  <2>1. UNCHANGED <<row, asked, faults, cut>>
        /\ published \subseteq published' /\ audit \subseteq audit'
    BY <1>6 DEF ApprovePublish, Audit, PollList, PollRefresh, ResultLoad
  <2> QED
    BY <1>0, <2>1 DEF Advances
<1>7. ASSUME NEW r \in Requests, Respond(r) \/ HandlerFails(r) PROVE Advances
  BY <1>0, <1>7 DEF Advances, Respond, HandlerFails
<1>8. ASSUME NEW a \in Agents, Run(a) \/ AgentFails(a) PROVE Advances
  BY <1>0, <1>8 DEF Advances, Run, Poll, PostResult, Execute, AgentRestarts, AgentFails
<1>9. CASE UNCHANGED vars
  BY <1>0, <1>9 DEF Advances, vars
<1> QED
  BY <1>1, <1>2, <1>3, <1>4, <1>5, <1>6, <1>7, <1>8, <1>9 DEF Next, Serve, Operate

\* A handler that did not move keeps what it carries while its agent waits.
LEMMA HandlerStays ==
    ASSUME IInv, Carried, Advances, NEW q \in Requests, req'[q] = req[q],
           faults' = 0 /\ req[q].kind \in {"poll", "result"} =>
             agent'[req[q].by].req = agent[req[q].by].req
    PROVE  HandlerCarries(q)'
<1>1. req[q].kind = "approve" => req[q].item \in Actions
  BY DEF IInv, HandlerOK
<1>2. faults \in Nat /\ asked \in [Actions -> Nat]
  BY RemediationAssumption DEF IInv, TypeOK
<1>3. HandlerCarries(q)
  BY DEF Carried
<1>4. faults' = 0 => faults = 0
  BY <1>2 DEF Advances
<1>5. \A t \in Actions : asked[t] > 0 => asked'[t] > 0
  BY <1>2 DEF Advances
<1> QED
  BY <1>1, <1>3, <1>4, <1>5 DEF HandlerCarries, Advances

\* So does an agent while the request it waits for remains the same.
LEMMA AgentStays ==
    ASSUME Carried, NEW a \in Agents, agent'[a] = agent[a],
           \A r \in Requests : agent[a].req = r =>
             req'[r].kind = req[r].kind /\ (req[r].kind = "poll" \/ req'[r].item = req[r].item)
    PROVE  AgentCarries(a)'
BY DEF Carried, AgentCarries

\* A handler that moves disturbs nothing but itself.
LEMMA HandlerMoves ==
    ASSUME IInv, Carried, Advances, NEW r \in Requests, Others(r), UNCHANGED agent,
           HandlerCarries(r)', ApprovedWasAsked',
           \/ req[r].pc = "idle"
           \/ req'[r].kind = req[r].kind /\ (req[r].kind = "poll" \/ req'[r].item = req[r].item)
    PROVE  Carried'
<1>1. \A q \in Requests : HandlerCarries(q)'
  BY HandlerStays DEF Others
<1>2. ASSUME NEW a \in Agents PROVE AgentCarries(a)'
  <2>1. \A q \in Requests : agent[a].req = q =>
          req'[q].kind = req[q].kind /\ (req[q].kind = "poll" \/ req'[q].item = req[q].item)
    BY DEF IInv, AgentOK, Others
  <2> QED
    BY <2>1, AgentStays
<1> QED
  BY <1>1, <1>2 DEF Carried

\* A step that touches neither approvals, statuses nor the count of approvals.
LEMMA ApprovedStays ==
    ASSUME Carried, UNCHANGED <<row, asked>>
    PROVE  ApprovedWasAsked'
BY DEF Carried, ApprovedWasAsked

\* Handlers of operators.
LEMMA OperatorCarries ==
    ASSUME IInv, Carried, NEW r \in Requests, Advances,
           Operate(r) \/ ApproveCommit(r) \/ ApprovePublish(r) \/ Audit(r)
    PROVE  Carried'
<1>0. asked \in [Actions -> Nat]
  BY RemediationAssumption DEF IInv, TypeOK
<1>1. ASSUME NEW t \in Actions, NEW n \in Nodes \cup {NoNode}, CreateAction(r, t, n)
      PROVE  Carried'
  <2>1. HandlerCarries(r)'
    BY <1>1, CreateActionEffect DEF HandlerCarries
  <2>2. ApprovedWasAsked'
    BY <1>1, CreateActionEffect DEF Carried, ApprovedWasAsked
  <2> QED
    BY <1>1, <2>1, <2>2, CreateActionEffect, HandlerMoves
<1>2. ASSUME NEW t \in Actions, ApproveLoad(r, t) PROVE Carried'
  <2>1. asked'[t] > 0
    BY <1>0, <1>2, ApproveLoadEffect
  <2>2. HandlerCarries(r)'
    BY <1>2, <2>1, ApproveLoadEffect DEF HandlerCarries
  <2>3. ApprovedWasAsked'
    BY <1>2, <2>1, ApproveLoadEffect DEF Carried, ApprovedWasAsked
  <2> QED
    BY <1>2, <2>2, <2>3, ApproveLoadEffect, HandlerMoves
<1>3. CASE ApproveCommit(r)
  <2>1. HandlerCarries(r)'
    BY <1>3, ApproveCommitEffect DEF Carried, HandlerCarries
  <2>2. ApprovedWasAsked'
    BY <1>3, ApproveCommitEffect DEF Carried, HandlerCarries, ApprovedWasAsked, Writes
  <2> QED
    BY <1>3, <2>1, <2>2, ApproveCommitEffect, HandlerMoves
<1>4. CASE ApprovePublish(r)
  <2>1. HandlerCarries(r)'
    BY <1>4, ApprovePublishEffect DEF Carried, HandlerCarries
  <2> QED
    BY <1>4, <2>1, ApprovedStays, ApprovePublishEffect, HandlerMoves
<1>5. CASE Audit(r)
  <2>1. HandlerCarries(r)'
    BY <1>5, AuditEffect DEF Carried, HandlerCarries
  <2> QED
    BY <1>5, <2>1, ApprovedStays, AuditEffect, HandlerMoves
<1> QED
  BY <1>1, <1>2, <1>3, <1>4, <1>5 DEF Operate

\* Handlers of agents.
LEMMA PollCarries ==
    ASSUME IInv, Carried, NEW r \in Requests, Advances,
           PollList(r) \/ PollRefresh(r) \/ PollMark(r)
    PROVE  Carried'
<1>1. CASE PollList(r)
  <2>1. HandlerCarries(r)'
    BY <1>1, PollListEffect DEF Carried, HandlerCarries
  <2> QED
    BY <1>1, <2>1, ApprovedStays, PollListEffect, HandlerMoves
<1>2. CASE PollRefresh(r)
  <2>1. HandlerCarries(r)'
    BY <1>2, PollRefreshEffect DEF Carried, HandlerCarries
  <2> QED
    BY <1>2, <2>1, ApprovedStays, PollRefreshEffect, HandlerMoves
<1>3. CASE PollMark(r)
  <2>1. HandlerCarries(r)'
    BY <1>3, PollMarkEffect DEF Carried, HandlerCarries
  <2>2. ApprovedWasAsked'
    BY <1>3, PollMarkEffect DEF Carried, ApprovedWasAsked, Writes
  <2> QED
    BY <1>3, <2>1, <2>2, PollMarkEffect, HandlerMoves
<1> QED
  BY <1>1, <1>2, <1>3

\* A result's handler keeps what it carries.
LEMMA ResultCarries ==
    ASSUME IInv, Carried, NEW r \in Requests, Advances, ResultLoad(r) \/ ResultCommit(r)
    PROVE  Carried'
<1>1. CASE ResultLoad(r)
  <2>1. HandlerCarries(r)'
    BY <1>1, ResultLoadEffect DEF Carried, HandlerCarries
  <2> QED
    BY <1>1, <2>1, ApprovedStays, ResultLoadEffect, HandlerMoves
<1>2. CASE ResultCommit(r)
  <2>1. HandlerCarries(r)'
    BY <1>2, ResultCommitEffect DEF Carried, HandlerCarries
  <2>2. ApprovedWasAsked'
    BY <1>2, ResultCommitEffect DEF Carried, ApprovedWasAsked, Writes, ResultStatus
  <2> QED
    BY <1>2, <2>1, <2>2, ResultCommitEffect, HandlerMoves
<1> QED
  BY <1>1, <1>2

\* The end of a handler: its agent waits no longer.
LEMMA EndsCarries ==
    ASSUME IInv, Carried, NEW r \in Requests, Advances, Ends(r)
    PROVE  Carried'
<1>1. ASSUME NEW q \in Requests PROVE HandlerCarries(q)'
  <2>1. CASE q = r
    BY <2>1 DEF Ends, HandlerCarries, IdleHandler
  <2>2. CASE q # r
    <3>1. req[q].kind \in {"poll", "result"} => req[q].by \in Agents
      BY DEF IInv, HandlerOK
    <3>2. faults' = 0 => faults = 0
      BY RemediationAssumption DEF Advances, IInv, TypeOK
    <3>3. faults = 0 /\ req[q].kind \in {"poll", "result"} => agent[req[q].by].req = q
      BY DEF Carried, HandlerCarries
    <3>4. faults' = 0 /\ req[q].kind \in {"poll", "result"} =>
            agent'[req[q].by].req = agent[req[q].by].req
      BY <2>2, <3>1, <3>2, <3>3 DEF Ends
    <3> QED
      BY <2>2, <3>4, HandlerStays DEF Ends, Others
  <2> QED
    BY <2>1, <2>2
<1>2. ASSUME NEW a \in Agents PROVE AgentCarries(a)'
  <2>1. CASE agent[a].req = r
    BY <2>1, RemediationAssumption DEF Ends, AgentCarries
  <2>2. CASE agent[a].req # r
    BY <2>2, AgentStays DEF Ends, Others
  <2> QED
    BY <2>1, <2>2
<1> QED
  BY <1>1, <1>2, ApprovedStays DEF Ends, Carried

\* A request that is sent: an agent that sends one waits for no other.
LEMMA SendCarries ==
    ASSUME IInv, Carried, NEW a \in Agents, NEW r \in Requests, Advances,
           Poll(a, r) \/ PostResult(a, r)
    PROVE  Carried'
<1>1. agent[a].req = NoRequest
  BY SendEffect DEF Carried, AgentCarries
<1>2. ASSUME NEW q \in Requests PROVE HandlerCarries(q)'
  <2>1. CASE q = r
    BY <2>1, SendEffect DEF HandlerCarries
  <2>2. CASE q # r
    <3>1. req[q].kind \in {"poll", "result"} => req[q].by \in Agents
      BY DEF IInv, HandlerOK
    <3>2. faults = 0 /\ req[q].kind \in {"poll", "result"} => req[q].by # a
      BY <1>1, RemediationAssumption DEF Carried, HandlerCarries
    <3>3. faults' = 0 /\ req[q].kind \in {"poll", "result"} =>
            agent'[req[q].by].req = agent[req[q].by].req
      BY <3>1, <3>2, SendEffect DEF OtherAgents
    <3> QED
      BY <2>2, <3>3, HandlerStays, SendEffect DEF Others
  <2> QED
    BY <2>1, <2>2
<1>3. ASSUME NEW b \in Agents PROVE AgentCarries(b)'
  <2>1. CASE b = a
    BY <2>1, SendEffect DEF Carried, AgentCarries
  <2>2. CASE b # a
    <3>1. \A q \in Requests : agent[b].req = q => q # r
      BY SendEffect DEF IInv, AgentOK
    <3> QED
      BY <2>2, <3>1, AgentStays, SendEffect DEF Others, OtherAgents
  <2> QED
    BY <2>1, <2>2
<1> QED
  BY <1>2, <1>3, ApprovedStays, SendEffect DEF Carried

\* Steps of an agent alone.
LEMMA AgentCarriesOn ==
    ASSUME IInv, Carried, NEW a \in Agents, Advances,
           (\E t \in Actions : Execute(a, t)) \/ AgentFails(a) \/ AgentRestarts(a)
    PROVE  Carried'
<1>1. UNCHANGED <<row, req, published, asked>> /\ OtherAgents(a)
  BY ExecuteEffect, ResetEffect
<1>2. AgentCarries(a)'
  <2>1. CASE \E t \in Actions : Execute(a, t)
    BY <1>1, <2>1, ExecuteEffect DEF Carried, AgentCarries
  <2>2. CASE AgentFails(a) \/ AgentRestarts(a)
    BY <2>2, ResetEffect, RemediationAssumption DEF AgentCarries
  <2> QED
    BY <2>1, <2>2
<1>3. faults' = 0 /\ agent[a].req # NoRequest => agent'[a].req = agent[a].req
  <2>1. CASE \E t \in Actions : Execute(a, t)
    BY <2>1, ExecuteEffect
  <2>2. CASE AgentFails(a) \/ AgentRestarts(a)
    <3>1. faults \in Nat
      BY RemediationAssumption DEF IInv, TypeOK
    <3> QED
      BY <2>2, <3>1, ResetEffect DEF Carried, AgentCarries
  <2> QED
    BY <2>1, <2>2
<1>4. ASSUME NEW q \in Requests PROVE HandlerCarries(q)'
  <2>1. req[q].kind \in {"poll", "result"} => req[q].by \in Agents
    BY DEF IInv, HandlerOK
  <2>2. faults' = 0 => faults = 0
    BY RemediationAssumption DEF Advances, IInv, TypeOK
  <2>3. faults = 0 /\ req[q].kind \in {"poll", "result"} => agent[req[q].by].req = q
    BY DEF Carried, HandlerCarries
  <2>4. faults' = 0 /\ req[q].kind \in {"poll", "result"} =>
          agent'[req[q].by].req = agent[req[q].by].req
    BY <1>1, <1>3, <2>1, <2>2, <2>3, RemediationAssumption DEF OtherAgents
  <2> QED
    BY <1>1, <2>4, HandlerStays
<1>5. \A b \in Agents \ {a} : AgentCarries(b)'
  BY <1>1, AgentStays DEF OtherAgents
<1> QED
  BY <1>1, <1>2, <1>4, <1>5, ApprovedStays DEF Carried

\* The whole of it.
CInv == IInv /\ Carried

\* Nothing is carried at the start.
LEMMA InitCarried == Init => CInv
<1> SUFFICES ASSUME Init PROVE Carried
  BY InitInv DEF CInv
<1>1. \A r \in Requests : HandlerCarries(r)
  BY DEF Init, HandlerCarries, IdleHandler
<1>2. \A a \in Agents : AgentCarries(a)
  BY RemediationAssumption DEF Init, AgentCarries, IdleAgent
<1>3. ApprovedWasAsked
  BY DEF Init, ApprovedWasAsked
<1> QED
  BY <1>1, <1>2, <1>3 DEF Carried

\* Every step keeps what is carried.
LEMMA StepCarried == CInv /\ [Next]_vars => CInv'
<1> SUFFICES ASSUME IInv, Carried, [Next]_vars PROVE Carried'
  BY StepInv DEF CInv
<1>1. Advances
  BY StepAdvances
<1>2. ASSUME NEW r \in Requests, Serve(r) \/ Operate(r) \/ HandlerFails(r) PROVE Carried'
  <2>1. CASE Respond(r) \/ HandlerFails(r)
    BY <1>1, <2>1, EndsEffect, EndsCarries
  <2> QED
    BY <1>1, <1>2, <2>1, OperatorCarries, PollCarries, ResultCarries DEF Serve
<1>3. ASSUME NEW a \in Agents, Run(a) \/ AgentFails(a) PROVE Carried'
  BY <1>1, <1>3, SendCarries, AgentCarriesOn DEF Run
<1>4. CASE UNCHANGED vars
  BY <1>1, <1>4, HandlerStays, AgentStays, ApprovedStays DEF vars, Carried
<1> QED
  BY <1>2, <1>3, <1>4 DEF Next

\* Handlers and agents carry in every reachable state what the proofs below need.
LEMMA CarriedInvariance == Spec => []CInv
BY InitCarried, StepCarried, PTL DEF Spec

-----------------------------------------------------------------------------
(* Commits and what announces them. *)

\* A handler has committed the row of action t and not yet recorded it.
Announcing(q, t, kind) ==
    req[q].kind = kind /\ req[q].item = t /\ req[q].pc \in {"publish", "audit"}

\* The commit is recorded, an approval published too.
Announced(t, kind) ==
    /\ kind = "approve" => t \in published
    /\ \E e \in audit : e.event = kind /\ e.item = t

Covered(t, kind) == Announced(t, kind) \/ \E q \in Requests : Announcing(q, t, kind)

\* CommitIsAnnounced in these terms.
LEMMA AnnouncedMeans ==
    CommitIsAnnounced <=> \A t \in Actions : t \notin cut =>
        /\ row[t].approval = "approved" => Covered(t, "approve")
        /\ row[t].status \in Settled => Covered(t, "result")
BY DEF CommitIsAnnounced, Covered, Announced, Announcing

\* What is recorded stays recorded.
LEMMA AnnouncedStays ==
    ASSUME Advances, NEW t, NEW kind, Announced(t, kind)
    PROVE  Announced(t, kind)'
BY DEF Advances, Announced

\* A handler between its commit and its audit entry gets there or is cut.
LEMMA AnnouncingStays ==
    ASSUME CInv, Next, NEW t \in Actions, t \notin cut', NEW kind \in {"approve", "result"},
           NEW q \in Requests, Announcing(q, t, kind)
    PROVE  Covered(t, kind)'
<1> USE DEF CInv
<1>1. CASE req'[q] = req[q]
  BY <1>1 DEF Announcing, Covered
<1>2. CASE ApprovePublish(q)
  BY <1>2, ApprovePublishEffect DEF Announcing, Covered
<1>3. CASE Audit(q)
  <2>1. kind = "approve" => t \in published
    BY <1>3, AuditEffect DEF Announcing, Carried, HandlerCarries
  <2>2. \E e \in audit' : e.event = kind /\ e.item = t
    <3> DEFINE e(o) == [event |-> kind, item |-> t, outcome |-> o]
    <3>1. \E o : e(o) \in audit'
      BY <1>3, AuditEffect DEF Announcing
    <3>2. \A o : e(o).event = kind /\ e(o).item = t
      OBVIOUS
    <3> QED
      BY <3>1, <3>2
  <2> QED
    BY <1>3, <2>1, <2>2, AuditEffect DEF Covered, Announced
<1>4. CASE HandlerFails(q)
  BY <1>4 DEF HandlerFails, Announcing
<1>5. CASE Serve(q) \/ Operate(q)
  <2>1. ~Operate(q)
    BY DEF Announcing, Operate, CreateAction, ApproveLoad
  <2>2. ~ApproveCommit(q) /\ ~PollList(q) /\ ~PollRefresh(q) /\ ~PollMark(q)
        /\ ~ResultLoad(q) /\ ~ResultCommit(q) /\ ~Respond(q)
    BY DEF Announcing, ApproveCommit, PollList, PollRefresh, PollMark, ResultLoad, ResultCommit,
           Respond
  <2> QED
    BY <1>2, <1>3, <1>5, <2>1, <2>2 DEF Serve
<1>6. ~\E a \in Agents : Poll(a, q) \/ PostResult(a, q)
  BY SendEffect DEF Announcing
<1> QED
  BY <1>1, <1>4, <1>5, <1>6, OneMoves

\* An approval is first committed by the handler that announces it, and so is a
\* settled status.
LEMMA CommitsAreAnnounced ==
    ASSUME CInv, Next, NEW t \in Actions
    PROVE  /\ row'[t].approval = "approved" =>
                row[t].approval = "approved" \/ Covered(t, "approve")'
           /\ row'[t].status \in Settled =>
                row[t].status \in Settled \/ Covered(t, "result")'
<1> USE DEF CInv
<1>1. ASSUME NEW r \in Requests, ApproveCommit(r)
      PROVE  /\ row'[t].approval = "approved" =>
                  row[t].approval = "approved" \/ Covered(t, "approve")'
             /\ row'[t].status \in Settled => row[t].status \in Settled
  BY <1>1, ApproveCommitEffect DEF Writes, Covered, Announcing, Settled
<1>2. ASSUME NEW r \in Requests, ResultCommit(r)
      PROVE  /\ row'[t].approval = row[t].approval
             /\ row'[t].status \in Settled => row[t].status \in Settled \/ Covered(t, "result")'
  BY <1>2, ResultCommitEffect DEF Writes, Covered, Announcing
<1>3. ASSUME NEW r \in Requests, PollMark(r)
      PROVE  row'[t].approval = row[t].approval
             /\ (row'[t].status \in Settled => row[t].status \in Settled)
  BY <1>3, PollMarkEffect DEF Writes, Settled
<1>4. ASSUME NEW r \in Requests, NEW u \in Actions, NEW n \in Nodes \cup {NoNode},
             CreateAction(r, u, n)
      PROVE  row'[t].approval = row[t].approval
             /\ (row'[t].status \in Settled => row[t].status \in Settled)
  BY <1>4, CreateActionEffect DEF Settled
<1> QED
  BY <1>1, <1>2, <1>3, <1>4, Writers

\* Every step keeps a commit announced.
LEMMA StepAnnounced == CInv /\ CommitIsAnnounced /\ [Next]_vars => CommitIsAnnounced'
<1> SUFFICES ASSUME CInv, CommitIsAnnounced, [Next]_vars PROVE CommitIsAnnounced'
  OBVIOUS
<1>1. CASE Next
  <2>1. Advances
    BY <1>1, StepAdvances DEF CInv
  <2>2. ASSUME NEW t \in Actions, t \notin cut'
        PROVE  /\ row'[t].approval = "approved" => Covered(t, "approve")'
               /\ row'[t].status \in Settled => Covered(t, "result")'
    <3>1. t \notin cut
      BY <2>1, <2>2 DEF Advances
    <3>2. /\ row[t].approval = "approved" => Covered(t, "approve")
          /\ row[t].status \in Settled => Covered(t, "result")
      BY <3>1, AnnouncedMeans
    <3>3. ASSUME NEW kind \in {"approve", "result"}, Covered(t, kind)
          PROVE  Covered(t, kind)'
      <4>1. CASE Announced(t, kind)
        BY <2>1, <4>1, AnnouncedStays DEF Covered
      <4>2. ASSUME NEW q \in Requests, Announcing(q, t, kind) PROVE Covered(t, kind)'
        BY <1>1, <2>2, <4>2, AnnouncingStays
      <4> QED
        BY <3>3, <4>1, <4>2 DEF Covered
    <3> QED
      BY <1>1, <3>2, <3>3, CommitsAreAnnounced
  <2> QED
    BY <2>2 DEF CommitIsAnnounced, Covered, Announced, Announcing
<1>2. CASE UNCHANGED vars
  BY <1>2 DEF vars, CommitIsAnnounced
<1> QED
  BY <1>1, <1>2

\* In every reachable state an approved or settled action is announced, about to
\* be, or one whose handler failed in between.
THEOREM CommitsAnnounced == Spec => []CommitIsAnnounced
<1>1. Init => CommitIsAnnounced
  BY DEF Init, CommitIsAnnounced, Settled
<1> QED
  BY <1>1, CarriedInvariance, StepAnnounced, PTL DEF Spec

-----------------------------------------------------------------------------
(* A settled action nobody holds an older view of. *)

\* Nobody can write its row or perform it.
LEMMA QuietIsLeftAlone ==
    ASSUME CInv, Next, NEW t \in Actions, Quiet(t)
    PROVE  row'[t] = row[t] /\ performed'[t] = performed[t]
<1> USE DEF CInv
<1>1. ASSUME NEW r \in Requests, NEW u \in Actions, NEW n \in Nodes \cup {NoNode},
             CreateAction(r, u, n)
      PROVE  row'[t] = row[t] /\ UNCHANGED performed
  BY <1>1, CreateActionEffect DEF Quiet, Settled
<1>2. ASSUME NEW r \in Requests, ApproveCommit(r)
      PROVE  row'[t] = row[t] /\ UNCHANGED performed
  BY <1>2, ApproveCommitEffect DEF Quiet, Writes
<1>3. ASSUME NEW r \in Requests, PollMark(r)
      PROVE  row'[t] = row[t] /\ UNCHANGED performed
  BY <1>3, PollMarkEffect DEF Quiet, Writes
<1>4. ASSUME NEW r \in Requests, ResultCommit(r)
      PROVE  row'[t] = row[t] /\ UNCHANGED performed
  BY <1>4, ResultCommitEffect DEF Quiet, Writes
<1>5. ASSUME NEW a \in Agents, NEW u \in Actions, Execute(a, u)
      PROVE  UNCHANGED row /\ performed'[t] = performed[t]
  <2>1. u # t
    BY <1>5 DEF Execute, Quiet
  <2> QED
    BY <1>5, <2>1 DEF Execute, IInv, TypeOK
<1> QED
  BY <1>1, <1>2, <1>3, <1>4, <1>5, Writers

\* A handler holds no older view of action t.
Unaware(t, r) ==
    /\ t \notin req[r].items
    /\ req[r].kind \in {"approve", "result"} /\ req[r].pc \in {"start", "commit"}
         => req[r].item # t

\* Nobody takes up such a view but a new approval: polls do not list a settled
\* action, agents report what they hold.
LEMMA QuietHandlers ==
    ASSUME CInv, Next, NEW t \in Actions, Quiet(t), NEW q \in Requests
    PROVE  Unaware(t, q)' \/ asked'[t] > asked[t]
<1> USE DEF CInv
<1>0. Unaware(t, q) /\ asked[t] \in Nat
  BY RemediationAssumption DEF Quiet, Unaware, IInv, TypeOK
<1>1. ASSUME NEW u \in Actions, NEW n \in Nodes \cup {NoNode}, CreateAction(q, u, n)
      PROVE  Unaware(t, q)'
  BY <1>1, CreateActionEffect DEF Unaware
<1>2. ASSUME NEW u \in Actions, ApproveLoad(q, u)
      PROVE  Unaware(t, q)' \/ asked'[t] > asked[t]
  BY <1>0, <1>2, ApproveLoadEffect DEF Unaware
<1>3. ASSUME ApproveCommit(q) \/ ApprovePublish(q) \/ Audit(q) PROVE Unaware(t, q)'
  BY <1>0, <1>3, ApproveCommitEffect, ApprovePublishEffect, AuditEffect DEF Unaware
<1>4. ASSUME PollList(q) PROVE Unaware(t, q)'
  BY <1>0, <1>4, PollListEffect DEF Unaware, TasksFor, Quiet, Open, Settled
<1>5. ASSUME PollRefresh(q) \/ PollMark(q) PROVE Unaware(t, q)'
  BY <1>0, <1>5, PollRefreshEffect, PollMarkEffect DEF Unaware
<1>6. ASSUME ResultLoad(q) \/ ResultCommit(q) PROVE Unaware(t, q)'
  BY <1>0, <1>6, ResultLoadEffect, ResultCommitEffect DEF Unaware
<1>7. ASSUME Respond(q) \/ HandlerFails(q) PROVE Unaware(t, q)'
  BY <1>7, EndsEffect DEF Ends, Unaware, IdleHandler
<1>8. ASSUME NEW a \in Agents, Poll(a, q) \/ PostResult(a, q) PROVE Unaware(t, q)'
  BY <1>8, SendEffect DEF Unaware, Quiet
<1>9. CASE req'[q] = req[q]
  BY <1>0, <1>9 DEF Unaware
<1>10. CASE Serve(q) \/ Operate(q) \/ HandlerFails(q)
  BY <1>1, <1>2, <1>3, <1>4, <1>5, <1>6, <1>7, <1>10 DEF Serve, Operate
<1>11. CASE \E a \in Agents : Poll(a, q) \/ PostResult(a, q)
  BY <1>8, <1>11
<1> QED
  BY <1>9, <1>10, <1>11, OneMoves

\* No agent gets a quiet action.
LEMMA QuietAgents ==
    ASSUME CInv, Next, NEW t \in Actions, Quiet(t), NEW a \in Agents
    PROVE  t \notin agent'[a].tasks
<1>0. t \notin agent[a].tasks /\ \A r \in Requests : t \notin req[r].items
  BY DEF Quiet
<1>. IInv
  BY DEF CInv
<1>1. ASSUME NEW r \in Requests, Respond(r) \/ HandlerFails(r)
      PROVE  t \notin agent'[a].tasks
  <2>1. Ends(r)
    BY <1>1, EndsEffect
  <2>2. agent[a].req # r => t \notin agent'[a].tasks
    BY <1>0, <2>1 DEF Ends
  <2>3. agent[a].req = r => t \notin agent'[a].tasks
    BY <1>0, <2>1 DEF Ends
  <2> QED
    BY <2>2, <2>3
<1>2. ASSUME NEW r \in Requests, Serve(r) \/ Operate(r), ~Respond(r)
      PROVE  UNCHANGED agent
  BY <1>2 DEF Serve, Operate, CreateAction, ApproveLoad, ApproveCommit, ApprovePublish, Audit,
     PollList, PollRefresh, PollMark, ResultLoad, ResultCommit
<1>3. ASSUME NEW b \in Agents, NEW r \in Requests, Poll(b, r) \/ PostResult(b, r)
      PROVE  t \notin agent'[a].tasks
  BY <1>0, <1>3, SendEffect DEF OtherAgents
<1>4. ASSUME NEW b \in Agents, NEW u \in Actions, Execute(b, u)
      PROVE  t \notin agent'[a].tasks
  BY <1>0, <1>4, ExecuteEffect DEF OtherAgents
<1>5. ASSUME NEW b \in Agents, AgentFails(b) \/ AgentRestarts(b)
      PROVE  t \notin agent'[a].tasks
  BY <1>0, <1>5, ResetEffect DEF OtherAgents
<1>6. ASSUME NEW r \in Requests, Serve(r) \/ Operate(r) \/ HandlerFails(r)
      PROVE  t \notin agent'[a].tasks
  BY <1>0, <1>1, <1>2, <1>6
<1>7. ASSUME NEW b \in Agents, Run(b) \/ AgentFails(b)
      PROVE  t \notin agent'[a].tasks
  BY <1>3, <1>4, <1>5, <1>7 DEF Run
<1> QED
  BY <1>6, <1>7 DEF Next

\* A settled action of which nobody holds an older view keeps its status and is
\* not performed again, until it is approved anew.
THEOREM QuietActionsStay == Spec => QuietIsFinal
<1> DEFINE Stays(t) == Quiet(t) =>
      /\ row'[t] = row[t]
      /\ performed'[t] = performed[t]
      /\ Quiet(t)' \/ asked'[t] > asked[t]
<1>1. CInv /\ [Next]_vars => [\A t \in Actions : Stays(t)]_vars
  <2> SUFFICES ASSUME CInv, Next, NEW t \in Actions, Quiet(t) PROVE Stays(t)
    OBVIOUS
  <2>1. row'[t] = row[t] /\ performed'[t] = performed[t]
    BY QuietIsLeftAlone
  <2>2. Quiet(t)' \/ asked'[t] > asked[t]
    <3>1. row'[t].status \in Settled
      BY <2>1 DEF Quiet
    <3>2. (\A q \in Requests : Unaware(t, q)') \/ asked'[t] > asked[t]
      BY QuietHandlers
    <3>3. \A a \in Agents : t \notin agent'[a].tasks
      BY QuietAgents
    <3> QED
      BY <3>1, <3>2, <3>3 DEF Quiet, Unaware
  <2> QED
    BY <2>1, <2>2
<1> QED
  BY <1>1, CarriedInvariance, PTL DEF Spec, QuietIsFinal

-----------------------------------------------------------------------------
(* The refinement: what the code does to one action are the steps of its    *)
(* life.                                                                    *)

\* A handler that asks for the action, and one that holds it.
Asks(q, t) == req[q].kind = "approve" /\ req[q].pc = "commit" /\ req[q].item = t

Holds(q, t) ==
    \/ t \in req[q].items
    \/ req[q].kind = "result" /\ req[q].pc \in {"start", "commit"} /\ req[q].item = t

\* A step of the life of action t, or none.
Lives(t) == Lifecycle(t)!Next \/ UNCHANGED Lifecycle(t)!lifecycle

\* One handler moves and no agent gets or gives up a task.
LEMMA ViewsMove ==
    ASSUME NEW t \in Actions, NEW r \in Requests, Others(r),
           \A a \in Agents : agent'[a].tasks = agent[a].tasks
    PROVE  /\ r \in AskingFor(t) <=> Asks(r, t)
           /\ r \in HoldersOf(t) <=> Holds(r, t)
           /\ Asks(r, t)' => AskingFor(t)' = AskingFor(t) \cup {r}
           /\ ~Asks(r, t)' => AskingFor(t)' = AskingFor(t) \ {r}
           /\ Holds(r, t)' => HoldersOf(t)' = HoldersOf(t) \cup {r}
           /\ ~Holds(r, t)' => HoldersOf(t)' = HoldersOf(t) \ {r}
<1>1. r \in AskingFor(t) <=> Asks(r, t)
  BY DEF AskingFor, Asks
<1>2. r \in HoldersOf(t) <=> Holds(r, t)
  BY RemediationAssumption DEF HoldersOf, Holds
<1>3. (Asks(r, t)' => AskingFor(t)' = AskingFor(t) \cup {r})
      /\ (~Asks(r, t)' => AskingFor(t)' = AskingFor(t) \ {r})
  BY DEF AskingFor, Asks, Others
<1>4. \A x : x # r => (x \in HoldersOf(t)' <=> x \in HoldersOf(t))
  BY DEF HoldersOf, Others
<1>5. r \in HoldersOf(t)' <=> Holds(r, t)'
  BY RemediationAssumption DEF HoldersOf, Holds
<1> QED
  BY <1>1, <1>2, <1>3, <1>4, <1>5

\* It moves without a change of its own views.
LEMMA ViewsStay ==
    ASSUME NEW t \in Actions, NEW r \in Requests, Others(r),
           \A a \in Agents : agent'[a].tasks = agent[a].tasks
    PROVE  /\ (Asks(r, t)' <=> Asks(r, t)) => AskingFor(t)' = AskingFor(t)
           /\ (Holds(r, t)' <=> Holds(r, t)) => HoldersOf(t)' = HoldersOf(t)
<1>1. ASSUME Asks(r, t)' <=> Asks(r, t) PROVE AskingFor(t)' = AskingFor(t)
  BY <1>1, ViewsMove
<1>2. ASSUME Holds(r, t)' <=> Holds(r, t) PROVE HoldersOf(t)' = HoldersOf(t)
  BY <1>2, ViewsMove
<1> QED
  BY <1>1, <1>2

\* Tables that do not change for the action.
LEMMA StageStays ==
    ASSUME NEW t \in Actions, row'[t] = row[t],
           \A a \in Agents : performed'[t][a] = performed[t][a]
    PROVE  StageOf(t)' = StageOf(t) /\ StatusOf(t)' = StatusOf(t)
BY DEF StageOf, StatusOf

\* A new row is the request for the action.
LEMMA CreateActionLives ==
    ASSUME CInv, NEW t \in Actions, NEW r \in Requests, NEW u \in Actions,
           NEW n \in Nodes \cup {NoNode}, CreateAction(r, u, n)
    PROVE  Lives(t)
<1> USE DEF CInv
<1>1. req[r].kind = "none" /\ req[r].items = {}
  BY CreateActionEffect DEF Carried, HandlerCarries
<1>2. AskingFor(t)' = AskingFor(t) /\ HoldersOf(t)' = HoldersOf(t)
  BY <1>1, CreateActionEffect, ViewsStay DEF Asks, Holds
<1>3. CASE u = t
  <2>1. \A a \in Agents : ~(performed[t][a] > 0)
    BY <1>3, CreateActionEffect DEF IInv, OnlyApprovedIsPerformed
  <2>2. StageOf(t) = "unknown" /\ StageOf(t)' = "requested" /\ StatusOf(t)' = StatusOf(t)
    BY <1>3, <2>1, CreateActionEffect DEF StageOf, StatusOf, Settled
  <2> QED
    BY <1>2, <2>2 DEF Lives, Lifecycle!Next, Lifecycle!Request
<1>4. CASE u # t
  BY <1>2, <1>4, CreateActionEffect, StageStays DEF Lives, Lifecycle!lifecycle
<1> QED
  BY <1>3, <1>4

\* Loading a row to approve it asks for its approval.
LEMMA ApproveLoadLives ==
    ASSUME CInv, NEW t \in Actions, NEW r \in Requests, NEW u \in Actions, ApproveLoad(r, u)
    PROVE  Lives(t)
<1> USE DEF CInv
<1>1. req[r].kind = "none" /\ req[r].items = {}
  BY ApproveLoadEffect DEF Carried, HandlerCarries
<1>2. HoldersOf(t)' = HoldersOf(t) /\ StageOf(t)' = StageOf(t) /\ StatusOf(t)' = StatusOf(t)
  BY <1>1, ApproveLoadEffect, ViewsStay, StageStays DEF Holds
<1>3. CASE u = t
  <2>1. AskingFor(t)' = AskingFor(t) \cup {r} /\ StageOf(t) # "unknown"
    BY <1>3, ApproveLoadEffect, ViewsMove DEF Asks, StageOf
  <2> QED
    BY <1>2, <2>1 DEF Lives, Lifecycle!Next, Lifecycle!Ask
<1>4. CASE u # t
  <2>1. ~Asks(r, t) /\ ~Asks(r, t)'
    BY <1>1, <1>4, ApproveLoadEffect DEF Asks
  <2>2. AskingFor(t)' = AskingFor(t)
    <3>1. Others(r) /\ agent' = agent
      BY ApproveLoadEffect
    <3> QED
      BY <2>1, <3>1, ViewsStay
  <2> QED
    BY <1>2, <2>2 DEF Lives, Lifecycle!lifecycle
<1> QED
  BY <1>3, <1>4

\* The UPDATE of an approval approves, and may open a settled action again.
LEMMA ApproveCommitLives ==
    ASSUME CInv, NEW t \in Actions, NEW r \in Requests, ApproveCommit(r)
    PROVE  Lives(t)
<1> USE DEF CInv
<1>1. HoldersOf(t)' = HoldersOf(t)
  BY ApproveCommitEffect, ViewsStay DEF Holds
<1>2. CASE req[r].item = t
  <2>1. r \in AskingFor(t) /\ AskingFor(t)' = AskingFor(t) \ {r}
    BY <1>2, ApproveCommitEffect, ViewsMove DEF Asks
  <2>2. StageOf(t)' = IF StageOf(t) = "requested" THEN "approved" ELSE StageOf(t)
    BY <1>2, ApproveCommitEffect DEF StageOf, Writes
  <2>3. StatusOf(t)' \in {StatusOf(t), "open"}
    BY <1>2, ApproveCommitEffect DEF StatusOf, Writes, Settled
  <2> QED
    BY <1>1, <2>1, <2>2, <2>3 DEF Lives, Lifecycle!Next, Lifecycle!Approve
<1>3. CASE req[r].item # t
  <2>1. AskingFor(t)' = AskingFor(t)
    BY <1>3, ApproveCommitEffect, ViewsStay DEF Asks, Holds
  <2>2. StageOf(t)' = StageOf(t) /\ StatusOf(t)' = StatusOf(t)
    BY <1>3, ApproveCommitEffect, StageStays DEF Writes
  <2> QED
    BY <1>1, <2>1, <2>2 DEF Lives, Lifecycle!lifecycle
<1> QED
  BY <1>2, <1>3

\* Announcing changes nothing in the life of an action.
LEMMA AnnounceLives ==
    ASSUME CInv, NEW t \in Actions, NEW r \in Requests, ApprovePublish(r) \/ Audit(r)
    PROVE  Lives(t)
<1> USE DEF CInv
<1>1. AskingFor(t)' = AskingFor(t) /\ HoldersOf(t)' = HoldersOf(t)
  BY ApprovePublishEffect, AuditEffect, ViewsStay DEF Asks, Holds
<1>2. StageOf(t)' = StageOf(t) /\ StatusOf(t)' = StatusOf(t)
  BY ApprovePublishEffect, AuditEffect, StageStays
<1> QED
  BY <1>1, <1>2 DEF Lives, Lifecycle!lifecycle

\* A poll is handed every action it lists.
LEMMA PollListLives ==
    ASSUME CInv, NEW t \in Actions, NEW r \in Requests, PollList(r)
    PROVE  Lives(t)
<1> USE DEF CInv
<1>1. StageOf(t)' = StageOf(t) /\ StatusOf(t)' = StatusOf(t)
  BY PollListEffect, StageStays
<1>2. AskingFor(t)' = AskingFor(t) /\ req[r].items = {} /\ req[r].kind = "poll"
  BY PollListEffect, ViewsStay DEF Asks, Carried, HandlerCarries
<1>3. CASE Holds(r, t)'
  <2>1. t \in TasksFor(req[r].by)
    BY <1>2, <1>3, PollListEffect DEF Holds
  <2>2. StageOf(t) \in {"approved", "performed"} /\ StatusOf(t) = "open"
    BY <2>1 DEF TasksFor, StageOf, StatusOf, Open, Settled
  <2>3. HoldersOf(t)' = HoldersOf(t) \cup {r}
    BY <1>3, PollListEffect, ViewsMove
  <2> QED
    BY <1>1, <1>2, <2>2, <2>3 DEF Lives, Lifecycle!Next, Lifecycle!HandOut
<1>4. CASE ~Holds(r, t)'
  <2>1. HoldersOf(t)' = HoldersOf(t)
    BY <1>2, <1>4, PollListEffect, ViewsStay DEF Holds
  <2> QED
    BY <1>1, <1>2, <2>1 DEF Lives, Lifecycle!lifecycle
<1> QED
  BY <1>3, <1>4

\* It marks what it was handed, which may open a settled action again.
LEMMA PollMarkLives ==
    ASSUME CInv, NEW t \in Actions, NEW r \in Requests, PollRefresh(r) \/ PollMark(r)
    PROVE  Lives(t)
<1> USE DEF CInv
<1>1. AskingFor(t)' = AskingFor(t) /\ HoldersOf(t)' = HoldersOf(t)
  BY PollRefreshEffect, PollMarkEffect, ViewsStay DEF Asks, Holds
<1>2. CASE PollMark(r) /\ req[r].item = t
  <2>1. r \in HoldersOf(t)
    BY <1>2, PollMarkEffect, ViewsMove DEF Holds
  <2>2. StageOf(t)' = StageOf(t)
    <3>1. row[t].approval = "approved"
      BY <1>2, PollMarkEffect DEF IInv, HandlerOK, Assigned
    <3>2. row[t].status # "absent"
      BY <3>1 DEF Carried, ApprovedWasAsked
    <3> QED
      BY <1>2, <3>1, <3>2, PollMarkEffect DEF StageOf, Writes
  <2>3. StatusOf(t)' \in {StatusOf(t), "open"}
    BY <1>2, PollMarkEffect DEF StatusOf, Writes, Settled
  <2> QED
    BY <1>1, <2>1, <2>2, <2>3 DEF Lives, Lifecycle!Next, Lifecycle!Reopen, Lifecycle!lifecycle
<1>3. CASE ~(PollMark(r) /\ req[r].item = t)
  <2>1. StageOf(t)' = StageOf(t) /\ StatusOf(t)' = StatusOf(t)
    BY <1>3, PollRefreshEffect, PollMarkEffect, StageStays DEF Writes
  <2> QED
    BY <1>1, <2>1 DEF Lives, Lifecycle!lifecycle
<1> QED
  BY <1>2, <1>3

\* A refused result is let go of.
LEMMA ResultLoadLives ==
    ASSUME CInv, NEW t \in Actions, NEW r \in Requests, ResultLoad(r)
    PROVE  Lives(t)
<1> USE DEF CInv
<1>1. StageOf(t)' = StageOf(t) /\ StatusOf(t)' = StatusOf(t)
  BY ResultLoadEffect, StageStays
<1>2. AskingFor(t)' = AskingFor(t)
  BY ResultLoadEffect, ViewsStay DEF Asks
<1>3. HoldersOf(t)' \in SUBSET HoldersOf(t)
  BY ResultLoadEffect, ViewsMove DEF Holds
<1> QED
  BY <1>1, <1>2, <1>3 DEF Lives, Lifecycle!Next, Lifecycle!LetGo

\* The UPDATE of a result settles an action that was performed.
LEMMA ResultCommitLives ==
    ASSUME CInv, NEW t \in Actions, NEW r \in Requests, ResultCommit(r)
    PROVE  Lives(t)
<1> USE DEF CInv
<1>1. AskingFor(t)' = AskingFor(t) /\ req[r].items = {}
  BY ResultCommitEffect, ViewsStay DEF Asks, Carried, HandlerCarries
<1>2. CASE req[r].item = t
  <2>1. r \in HoldersOf(t) /\ HoldersOf(t)' = HoldersOf(t) \ {r}
    BY <1>1, <1>2, ResultCommitEffect, ViewsMove DEF Holds
  <2>2. \E a \in Agents : performed[t][a] > 0
    BY <1>2, ResultCommitEffect DEF IInv, HandlerOK, Did
  <2>3. row[t].approval = "approved" /\ row[t].status # "absent"
    BY <2>2 DEF IInv, OnlyApprovedIsPerformed, Carried, ApprovedWasAsked
  <2>4. StageOf(t) = "performed" /\ StageOf(t)' = "performed"
    BY <1>2, <2>2, <2>3, ResultCommitEffect DEF StageOf, Writes, ResultStatus
  <2>5. StatusOf(t)' \in {StatusOf(t), ResultStatus(t)}
    BY <1>2, ResultCommitEffect DEF StatusOf, Writes, Settled, ResultStatus
  <2> QED
    BY <1>1, <2>1, <2>4, <2>5 DEF Lives, Lifecycle!Next, Lifecycle!Settle
<1>3. CASE req[r].item # t
  <2>1. HoldersOf(t)' = HoldersOf(t)
    BY <1>1, <1>3, ResultCommitEffect, ViewsStay DEF Holds
  <2>2. StageOf(t)' = StageOf(t) /\ StatusOf(t)' = StatusOf(t)
    BY <1>3, ResultCommitEffect, StageStays DEF Writes
  <2> QED
    BY <1>1, <2>1, <2>2 DEF Lives, Lifecycle!lifecycle
<1> QED
  BY <1>2, <1>3

\* The answer to a poll passes its tasks on; any other end lets go of a view, or
\* withdraws an approval.
LEMMA EndsLives ==
    ASSUME CInv, NEW t \in Actions, NEW r \in Requests, Ends(r)
    PROVE  Lives(t)
<1> USE DEF CInv
<1>1. StageOf(t)' = StageOf(t) /\ StatusOf(t)' = StatusOf(t)
  BY StageStays DEF Ends
<1>2. AskingFor(t)' = AskingFor(t) \ {r}
  BY DEF Ends, Others, AskingFor, IdleHandler
<1>3. ~Holds(r, t)' /\ \A q \in Requests \ {r} : Holds(q, t)' <=> Holds(q, t)
  BY DEF Ends, Others, Holds, IdleHandler
<1>4. HoldersOf(t)' = {a \in Agents : t \in agent'[a].tasks} \cup {q \in Requests : Holds(q, t)'}
      /\ HoldersOf(t) = {a \in Agents : t \in agent[a].tasks} \cup {q \in Requests : Holds(q, t)}
  BY DEF HoldersOf, Holds
<1>5. CASE Asks(r, t)
  <2>1. \A a \in Agents : agent'[a] = agent[a]
    BY <1>5 DEF Asks, Ends, IInv, AgentOK
  <2>2. ~Holds(r, t)
    BY <1>5 DEF Asks, Holds, Carried, HandlerCarries
  <2>3. HoldersOf(t)' = HoldersOf(t)
    BY <1>3, <1>4, <2>1, <2>2
  <2> QED
    BY <1>1, <1>2, <2>3 DEF Lives, Lifecycle!Next, Lifecycle!Withdraw
<1>6. CASE ~Asks(r, t)
  <2>0. AskingFor(t)' = AskingFor(t)
    BY <1>2, <1>6 DEF AskingFor, Asks
  <2>1. ASSUME NEW a \in Agents, agent[a].req = r, req[r].kind = "poll", t \in req[r].items,
               t \in agent'[a].tasks
        PROVE  Lives(t)
    <3>1. r \in HoldersOf(t)
      BY <1>4, <2>1 DEF Holds
    <3>2. \A b \in Agents \ {a} : agent[b].req # r
      BY <2>1 DEF IInv, AgentOK
    <3>3. \A b \in Agents \ {a} : agent'[b] = agent[b]
      BY <3>2 DEF Ends
    <3>4. HoldersOf(t)' = (HoldersOf(t) \ {r}) \cup {a}
      BY <1>3, <1>4, <2>1, <3>3, RemediationAssumption
    <3> QED
      BY <1>1, <2>0, <3>1, <3>4 DEF Lives, Lifecycle!Next, Lifecycle!Pass
  <2>2. CASE \A a \in Agents : agent[a].req = r /\ req[r].kind = "poll" /\ t \in req[r].items
                                 => t \notin agent'[a].tasks
    <3>1. \A a \in Agents : t \in agent'[a].tasks => t \in agent[a].tasks
      BY <2>2 DEF Ends
    <3>2. HoldersOf(t)' \in SUBSET HoldersOf(t)
      BY <1>3, <1>4, <3>1
    <3> QED
      BY <1>1, <2>0, <3>2 DEF Lives, Lifecycle!Next, Lifecycle!LetGo
  <2> QED
    BY <2>1, <2>2
<1> QED
  BY <1>5, <1>6

\* A result that is sent passes the task on to its handler.
LEMMA SendLives ==
    ASSUME CInv, NEW t \in Actions, NEW a \in Agents, NEW r \in Requests,
           Poll(a, r) \/ PostResult(a, r)
    PROVE  Lives(t)
<1> USE DEF CInv
<1>1. StageOf(t)' = StageOf(t) /\ StatusOf(t)' = StatusOf(t)
  BY SendEffect, StageStays
<1>2. \A b \in Agents : agent'[b].tasks = agent[b].tasks
  BY SendEffect DEF OtherAgents
<1>3. req[r].kind = "none" /\ req[r].items = {}
  BY SendEffect DEF Carried, HandlerCarries
<1>4. AskingFor(t)' = AskingFor(t)
  BY <1>2, <1>3, SendEffect, ViewsStay DEF Asks
<1>5. CASE Holds(r, t)'
  <2>1. a \in HoldersOf(t)
    BY <1>5, SendEffect DEF Holds, HoldersOf
  <2>2. HoldersOf(t)' = HoldersOf(t) \cup {r}
    BY <1>2, <1>5, SendEffect, ViewsMove
  <2> QED
    BY <1>1, <1>4, <2>1, <2>2 DEF Lives, Lifecycle!Next, Lifecycle!Pass
<1>6. CASE ~Holds(r, t)'
  <2>1. HoldersOf(t)' = HoldersOf(t)
    BY <1>2, <1>3, <1>6, SendEffect, ViewsStay DEF Holds
  <2> QED
    BY <1>1, <1>4, <2>1 DEF Lives, Lifecycle!lifecycle
<1> QED
  BY <1>5, <1>6

\* An agent that performs a task is one of its holders.
LEMMA ExecuteLives ==
    ASSUME CInv, NEW t \in Actions, NEW a \in Agents, NEW u \in Actions, Execute(a, u)
    PROVE  Lives(t)
<1> USE DEF CInv
<1>1. \A b \in Agents : agent'[b].tasks = agent[b].tasks
  BY ExecuteEffect DEF OtherAgents
<1>2. AskingFor(t)' = AskingFor(t) /\ HoldersOf(t)' = HoldersOf(t)
  BY <1>1, ExecuteEffect DEF AskingFor, HoldersOf
<1>3. StatusOf(t)' = StatusOf(t)
  BY ExecuteEffect DEF StatusOf
<1>4. CASE u = t
  <2>1. a \in HoldersOf(t)
    BY <1>4, ExecuteEffect DEF HoldersOf
  <2>2. row[t].status # "absent"
    <3>1. row[t].approval = "approved"
      BY <1>4, ExecuteEffect DEF IInv, AgentOK, Assigned
    <3> QED
      BY <3>1 DEF Carried, ApprovedWasAsked
  <2>3. StageOf(t)' = "performed"
    BY <1>4, <2>2, ExecuteEffect DEF StageOf
  <2> QED
    BY <1>2, <1>3, <2>1, <2>3 DEF Lives, Lifecycle!Next, Lifecycle!Perform
<1>5. CASE u # t
  <2>1. row'[t] = row[t] /\ \A b \in Agents : performed'[t][b] = performed[t][b]
    BY <1>5, ExecuteEffect
  <2>2. StageOf(t)' = StageOf(t)
    BY <2>1, StageStays
  <2> QED
    BY <1>2, <1>3, <2>2 DEF Lives, Lifecycle!lifecycle
<1> QED
  BY <1>4, <1>5

\* An agent that stops lets go of its tasks.
LEMMA ResetLives ==
    ASSUME CInv, NEW t \in Actions, NEW a \in Agents, AgentFails(a) \/ AgentRestarts(a)
    PROVE  Lives(t)
<1> USE DEF CInv
<1>1. StageOf(t)' = StageOf(t) /\ StatusOf(t)' = StatusOf(t)
  BY ResetEffect, StageStays
<1>2. AskingFor(t)' = AskingFor(t) /\ HoldersOf(t)' \in SUBSET HoldersOf(t)
  BY ResetEffect DEF AskingFor, HoldersOf, OtherAgents
<1> QED
  BY <1>1, <1>2 DEF Lives, Lifecycle!Next, Lifecycle!LetGo

\* Every action goes through the life that ActionLifecycle describes, whatever
\* handlers, agents and operators do to it and in whatever order.
THEOREM LifecycleRefinement == Spec => ActionsHaveTheirLife
<1>1. Init => \A t \in Actions : Lifecycle(t)!Init
  <2> SUFFICES ASSUME Init, NEW t \in Actions PROVE Lifecycle(t)!Init
    OBVIOUS
  <2>1. StageOf(t) = "unknown" /\ StatusOf(t) = "open"
    BY DEF Init, StageOf, StatusOf, Settled
  <2>2. AskingFor(t) = {} /\ HoldersOf(t) = {}
    BY DEF Init, AskingFor, HoldersOf, IdleHandler, IdleAgent
  <2> QED
    BY <2>1, <2>2 DEF Lifecycle!Init
<1>2. CInv /\ [Next]_vars =>
        [\A t \in Actions : Lifecycle(t)!Next \/ UNCHANGED Lifecycle(t)!lifecycle]_vars
  <2> SUFFICES ASSUME CInv, Next, NEW t \in Actions PROVE Lives(t)
    BY DEF Lives
  <2>1. ASSUME NEW r \in Requests, Serve(r) \/ Operate(r) \/ HandlerFails(r) PROVE Lives(t)
    <3>1. CASE Respond(r) \/ HandlerFails(r)
      BY <3>1, EndsEffect, EndsLives DEF CInv
    <3>2. CASE Operate(r)
      BY <3>2, CreateActionLives, ApproveLoadLives DEF Operate
    <3> QED
      BY <2>1, <3>1, <3>2, ApproveCommitLives, AnnounceLives, PollListLives, PollMarkLives,
         ResultLoadLives, ResultCommitLives DEF Serve
  <2>2. ASSUME NEW a \in Agents, Run(a) \/ AgentFails(a) PROVE Lives(t)
    BY <2>2, SendLives, ExecuteLives, ResetLives DEF Run
  <2> QED
    BY <2>1, <2>2 DEF Next
<1> QED
  BY <1>1, <1>2, CarriedInvariance, PTL DEF Spec, ActionsHaveTheirLife

-----------------------------------------------------------------------------
(* Repetition.  Every approval and every failure pays for at most one       *)
(* execution by an agent alone on its node: the budget below counts the     *)
(* executions it did and all that can still come without another payment.   *)

\* Agent a performed action t and its report is not committed.
Reporting(t, a) ==
    \/ agent[a].pc = "executed" /\ agent[a].current = t
    \/ \E r \in Requests : agent[a].req = r /\ req[r].kind = "result" /\ req[r].item = t

\* Agent a was given the action, or the answer it waits for has it.
Given(t, a) ==
    \/ t \in agent[a].tasks /\ ~Reporting(t, a)
    \/ \E r \in Requests : agent[a].req = r /\ req[r].kind = "poll" /\ t \in req[r].items

\* Its report will settle the row, whatever the status is now.
Settling(t, a) ==
    \/ agent[a].pc = "executed" /\ agent[a].current = t
    \/ \E r \in Requests :
         /\ agent[a].req = r /\ req[r].kind = "result" /\ req[r].item = t
         /\ \/ req[r].pc = "start"
            \/ req[r].pc = "commit" /\ req[r].loaded # ResultStatus(t)

\* The next poll of agent a would list the action, once approved.
OpenFor(t, a) == row[t].status \in Open /\ row[t].target = NodeOf[a]

\* One execution is to come.
Expected(t, a) == Given(t, a) \/ (OpenFor(t, a) /\ ~Settling(t, a))

Coming(t, a) == IF Expected(t, a) THEN 1 ELSE 0

\* Polls agent a no longer waits for that may still mark the action dispatched.
IsStray(r, t, a) ==
    /\ req[r].kind = "poll" /\ req[r].by = a /\ agent[a].req # r
    /\ req[r].pc = "start" \/ t \in req[r].todo

Stray(t, a) == {r \in Requests : IsStray(r, t, a)}

Cost(t, a) ==
    performed[t][a] + Cardinality(AskingFor(t)) + Coming(t, a) + Cardinality(Stray(t, a))

Credit(t) == asked[t] + faults

Budget == \A t \in Actions, a \in Lone : Cost(t, a) <= Credit(t)

\* A step costs no more than it brings in.
Pays(t, a) == Cost(t, a)' + Credit(t) <= Cost(t, a) + Credit(t)'

\* Sets of threads are finite, and so are counted.
LEMMA Threads ==
    ASSUME NEW S \in SUBSET Requests
    PROVE  IsFiniteSet(S) /\ Cardinality(S) \in Nat
BY RemediationAssumption, FS_Subset, FS_CardinalityType

\* Fewer, one more and one fewer threads.
LEMMA Counting ==
    ASSUME NEW S \in SUBSET Requests, NEW T, NEW r \in Requests
    PROVE  /\ T \subseteq S => Cardinality(T) <= Cardinality(S)
           /\ T \subseteq S \cup {r} => Cardinality(T) <= Cardinality(S) + 1
           /\ r \in S /\ T \subseteq S \ {r} => Cardinality(T) + 1 <= Cardinality(S)
<1>1. IsFiniteSet(S) /\ Cardinality(S) \in Nat
  BY Threads
<1>2. ASSUME T \subseteq S PROVE Cardinality(T) <= Cardinality(S)
  BY <1>1, <1>2, FS_Subset
<1>3. ASSUME T \subseteq S \cup {r} PROVE Cardinality(T) <= Cardinality(S) + 1
  <2> DEFINE more == S \cup {r}
             m == Cardinality(more)
             n == Cardinality(S)
  <2>3. IsFiniteSet(more) /\ m = IF r \in S THEN n ELSE n + 1
    BY <1>1, FS_AddElement
  <2> HIDE DEF m, n
  <2>4. n \in Nat
    BY <1>1 DEF n
  <2>5. m \in Nat /\ m <= n + 1
    BY <2>3, <2>4
  <2>1. IsFiniteSet(S \cup {r}) /\ Cardinality(S \cup {r}) \in Nat
        /\ Cardinality(S \cup {r}) <= Cardinality(S) + 1
    BY <2>3, <2>5 DEF m, n
  <2>2. Cardinality(T) <= Cardinality(S \cup {r}) /\ Cardinality(T) \in Nat
    BY <1>3, <2>1, FS_Subset, FS_CardinalityType
  <2> QED
    BY <1>1, <2>1, <2>2
<1>4. ASSUME r \in S, T \subseteq S \ {r} PROVE Cardinality(T) + 1 <= Cardinality(S)
  <2>1. IsFiniteSet(S \ {r}) /\ Cardinality(S \ {r}) = Cardinality(S) - 1
    BY <1>1, <1>4, FS_RemoveElement
  <2>2. Cardinality(T) <= Cardinality(S \ {r}) /\ Cardinality(T) \in Nat
    BY <1>4, <2>1, FS_Subset, FS_CardinalityType
  <2> QED
    BY <1>1, <2>1, <2>2
<1> QED
  BY <1>2, <1>3, <1>4

\* The parts of the budget, before and after a step.
LEMMA Parts ==
    ASSUME IInv, IInv', NEW t \in Actions, NEW a \in Agents
    PROVE  /\ performed[t][a] \in Nat /\ performed'[t][a] \in Nat
           /\ AskingFor(t) \in SUBSET Requests /\ AskingFor(t)' \in SUBSET Requests
           /\ Cardinality(AskingFor(t)) \in Nat /\ Cardinality(AskingFor(t)') \in Nat
           /\ Coming(t, a) \in {0, 1} /\ Coming(t, a)' \in {0, 1}
           /\ Stray(t, a) \in SUBSET Requests /\ Stray(t, a)' \in SUBSET Requests
           /\ Cardinality(Stray(t, a)) \in Nat /\ Cardinality(Stray(t, a)') \in Nat
           /\ asked[t] \in Nat /\ asked'[t] \in Nat /\ faults \in Nat /\ faults' \in Nat
<1>1. /\ AskingFor(t) \in SUBSET Requests /\ AskingFor(t)' \in SUBSET Requests
      /\ Stray(t, a) \in SUBSET Requests /\ Stray(t, a)' \in SUBSET Requests
  BY DEF AskingFor, Stray
<1>2. Coming(t, a) \in {0, 1} /\ Coming(t, a)' \in {0, 1}
  BY DEF Coming
<1>3. MaxPerformed \in Nat
  BY RemediationAssumption DEF MaxPerformed
<1>4. performed[t][a] \in Nat /\ performed'[t][a] \in Nat
  BY <1>3 DEF IInv, TypeOK
<1>5. asked[t] \in Nat /\ asked'[t] \in Nat /\ faults \in Nat /\ faults' \in Nat
  BY RemediationAssumption DEF IInv, TypeOK
<1> QED
  BY <1>1, <1>2, <1>4, <1>5, Threads

\* What pays for nothing: the counts shrink or stay.
LEMMA Cheap ==
    ASSUME IInv, IInv', Advances, NEW t \in Actions, NEW a \in Agents,
           performed'[t][a] = performed[t][a],
           AskingFor(t)' \subseteq AskingFor(t), Stray(t, a)' \subseteq Stray(t, a),
           Expected(t, a)' => Expected(t, a)
    PROVE  Pays(t, a)
<1>1. Cardinality(AskingFor(t)') <= Cardinality(AskingFor(t))
      /\ Cardinality(Stray(t, a)') <= Cardinality(Stray(t, a))
  BY Parts, Threads, FS_Subset
<1>2. Coming(t, a)' <= Coming(t, a)
  BY DEF Coming
<1>3. asked[t] <= asked'[t] /\ faults <= faults'
  BY DEF Advances
<1> QED
  BY <1>1, <1>2, <1>3, Parts DEF Pays, Cost, Credit

\* One handler moves: who asks, and which polls are stray.
LEMMA SetsMove ==
    ASSUME NEW t \in Actions, NEW a \in Agents, NEW r \in Requests, Others(r),
           agent'[a].req = agent[a].req
    PROVE  /\ (Asks(r, t)' => Asks(r, t)) => AskingFor(t)' \subseteq AskingFor(t)
           /\ AskingFor(t)' \subseteq AskingFor(t) \cup {r}
           /\ ~Asks(r, t)' => AskingFor(t)' \subseteq AskingFor(t) \ {r}
           /\ (IsStray(r, t, a)' => IsStray(r, t, a)) => Stray(t, a)' \subseteq Stray(t, a)
           /\ ~IsStray(r, t, a)' => Stray(t, a)' \subseteq Stray(t, a) \ {r}
<1>1. \A q \in Requests : q # r => (q \in AskingFor(t)' => q \in AskingFor(t))
  BY DEF AskingFor, Others
<1>2. r \in AskingFor(t)' <=> Asks(r, t)'
  BY DEF AskingFor, Asks
<1>3. r \in AskingFor(t) <=> Asks(r, t)
  BY DEF AskingFor, Asks
<1>4. \A q \in Requests : q # r => (q \in Stray(t, a)' => q \in Stray(t, a))
  BY DEF Stray, IsStray, Others
<1>5. r \in Stray(t, a)' <=> IsStray(r, t, a)'
  BY DEF Stray
<1>6. r \in Stray(t, a) <=> IsStray(r, t, a)
  BY DEF Stray
<1>7. AskingFor(t)' \subseteq Requests /\ Stray(t, a)' \subseteq Requests
  BY DEF AskingFor, Stray
<1> QED
  BY <1>1, <1>2, <1>3, <1>4, <1>5, <1>6, <1>7

\* An agent that does not move expects nothing new while the request it waits
\* for reports what it reported and the row does not open for it.
LEMMA ExpectedStays ==
    ASSUME IInv, NEW t \in Actions, NEW a \in Agents, agent'[a] = agent[a],
           \A r \in Requests : agent[a].req = r => req'[r] = req[r],
           OpenFor(t, a)' => OpenFor(t, a)
    PROVE  Expected(t, a)' => Expected(t, a)
<1>1. Reporting(t, a)' <=> Reporting(t, a)
  BY DEF Reporting
<1>2. Given(t, a)' <=> Given(t, a)
  BY <1>1 DEF Given
<1>3. Settling(t, a)' <=> Settling(t, a)
  BY DEF Settling
<1> QED
  BY <1>2, <1>3 DEF Expected

\* A handler nobody waits for expects nothing, one way or the other.
LEMMA Unawaited ==
    ASSUME IInv, NEW r \in Requests, req[r].kind \notin {"poll", "result"} \/ req[r].pc = "idle",
           NEW a \in Agents
    PROVE  agent[a].req # r
BY DEF IInv, AgentOK

\* The row is new and requested, open for nobody.
LEMMA CreateActionPays ==
    ASSUME CInv, IInv', Advances, NEW t \in Actions, NEW a \in Lone,
           NEW r \in Requests, NEW u \in Actions, NEW n \in Nodes \cup {NoNode},
           CreateAction(r, u, n)
    PROVE  Pays(t, a)
<1> USE DEF CInv
<1>0. a \in Agents
  BY DEF Lone
<1>1. ~Asks(r, t)' /\ ~IsStray(r, t, a)'
  BY CreateActionEffect DEF Asks, IsStray
<1>2. AskingFor(t)' \subseteq AskingFor(t) /\ Stray(t, a)' \subseteq Stray(t, a)
  BY <1>0, <1>1, CreateActionEffect, SetsMove
<1>3. OpenFor(t, a)' => OpenFor(t, a)
  BY CreateActionEffect DEF OpenFor, Open
<1>4. agent[a].req # r
  BY <1>0, CreateActionEffect, Unawaited
<1>5. Expected(t, a)' => Expected(t, a)
  BY <1>0, <1>3, <1>4, CreateActionEffect, ExpectedStays DEF Others
<1> QED
  BY <1>0, <1>2, <1>5, CreateActionEffect, Cheap

\* An approval is asked for, and paid for.
LEMMA ApproveLoadPays ==
    ASSUME CInv, IInv', Advances, NEW t \in Actions, NEW a \in Lone,
           NEW r \in Requests, NEW u \in Actions, ApproveLoad(r, u)
    PROVE  Pays(t, a)
<1> USE DEF CInv
<1>0. a \in Agents
  BY DEF Lone
<1>1. ~IsStray(r, t, a)'
  BY ApproveLoadEffect DEF IsStray
<1>2. Stray(t, a)' \subseteq Stray(t, a) /\ AskingFor(t)' \subseteq AskingFor(t) \cup {r}
  BY <1>0, <1>1, ApproveLoadEffect, SetsMove
<1>3. OpenFor(t, a)' => OpenFor(t, a)
  BY ApproveLoadEffect DEF OpenFor
<1>4. agent[a].req # r
  BY <1>0, ApproveLoadEffect, Unawaited
<1>5. Expected(t, a)' => Expected(t, a)
  BY <1>0, <1>3, <1>4, ApproveLoadEffect, ExpectedStays DEF Others
<1>6. CASE u = t
  <2>1. /\ Cardinality(AskingFor(t)') <= Cardinality(AskingFor(t)) + 1
        /\ Cardinality(Stray(t, a)') <= Cardinality(Stray(t, a))
    BY <1>0, <1>2, Parts, Counting
  <2>2. Coming(t, a)' <= Coming(t, a)
    BY <1>5 DEF Coming
  <2>3. asked'[t] = asked[t] + 1 /\ faults' = faults /\ performed' = performed
    BY <1>6, ApproveLoadEffect
  <2> QED
    BY <1>0, <2>1, <2>2, <2>3, Parts DEF Pays, Cost, Credit
<1>7. CASE u # t
  <2>1. ~Asks(r, t)'
    BY <1>7, ApproveLoadEffect DEF Asks
  <2>2. AskingFor(t)' \subseteq AskingFor(t)
    BY <1>0, <2>1, ApproveLoadEffect, SetsMove
  <2> QED
    BY <1>0, <1>2, <1>5, <2>2, ApproveLoadEffect, Cheap
<1> QED
  BY <1>6, <1>7

\* The handler asks no longer, and its row may be open again.
LEMMA ApproveCommitPays ==
    ASSUME CInv, IInv', Advances, NEW t \in Actions, NEW a \in Lone,
           NEW r \in Requests, ApproveCommit(r)
    PROVE  Pays(t, a)
<1> USE DEF CInv
<1>0. a \in Agents
  BY DEF Lone
<1>1. ~IsStray(r, t, a)' /\ ~Asks(r, t)'
  BY ApproveCommitEffect DEF IsStray, Asks
<1>2. Stray(t, a)' \subseteq Stray(t, a) /\ AskingFor(t)' \subseteq AskingFor(t) \ {r}
  BY <1>0, <1>1, ApproveCommitEffect, SetsMove
<1>3. CASE req[r].item = t
  <2>1. r \in AskingFor(t)
    BY <1>3, ApproveCommitEffect DEF AskingFor
  <2>2. /\ Cardinality(AskingFor(t)') + 1 <= Cardinality(AskingFor(t))
        /\ Cardinality(Stray(t, a)') <= Cardinality(Stray(t, a))
    BY <1>0, <1>2, <2>1, Parts, Counting
  <2>3. asked'[t] = asked[t] /\ faults' = faults /\ performed' = performed
    BY ApproveCommitEffect
  <2> QED
    BY <1>0, <2>2, <2>3, Parts DEF Pays, Cost, Credit
<1>4. CASE req[r].item # t
  <2>1. row'[t] = row[t]
    BY <1>4, ApproveCommitEffect DEF Writes
  <2>2. OpenFor(t, a)' => OpenFor(t, a)
    BY <2>1 DEF OpenFor
  <2>3. agent[a].req # r
    BY <1>0, ApproveCommitEffect, Unawaited
  <2>4. Expected(t, a)' => Expected(t, a)
    BY <1>0, <2>2, <2>3, ApproveCommitEffect, ExpectedStays DEF Others
  <2> QED
    BY <1>0, <1>2, <2>4, ApproveCommitEffect, Cheap
<1> QED
  BY <1>3, <1>4

\* A handler that writes no row and neither begins nor stops to ask or to poll
\* is followed by what it was followed by.
LEMMA ReportPays ==
    ASSUME CInv, IInv', Advances, NEW t \in Actions, NEW a \in Lone,
           NEW r \in Requests, ApprovePublish(r) \/ Audit(r)
    PROVE  Pays(t, a)
<1> USE DEF CInv
<1>0. a \in Agents
  BY DEF Lone
<1>1. /\ UNCHANGED <<row, agent, performed>> /\ Others(r)
      /\ req'[r].kind = req[r].kind /\ req'[r].item = req[r].item
      /\ req[r].kind # "poll" /\ req[r].pc \notin {"start", "commit"}
      /\ req'[r].pc \notin {"start", "commit"}
  BY ApprovePublishEffect, AuditEffect
<1>2. ~IsStray(r, t, a)' /\ ~Asks(r, t)'
  BY <1>1 DEF IsStray, Asks
<1>3. AskingFor(t)' \subseteq AskingFor(t) /\ Stray(t, a)' \subseteq Stray(t, a)
  BY <1>0, <1>1, <1>2, SetsMove
<1>4. Reporting(t, a)' <=> Reporting(t, a)
  BY <1>1 DEF Reporting, Others
<1>5. Given(t, a)' <=> Given(t, a)
  BY <1>1, <1>4 DEF Given, Others
<1>6. Settling(t, a)' <=> Settling(t, a)
  BY <1>1 DEF Settling, Others
<1>7. Expected(t, a)' <=> Expected(t, a)
  BY <1>1, <1>5, <1>6 DEF Expected, OpenFor
<1> QED
  BY <1>0, <1>1, <1>3, <1>7, Cheap

\* What an agent that waits for a poll does not do.
LEMMA WaitsForPoll ==
    ASSUME CInv, NEW t \in Actions, NEW a \in Agents, NEW r \in Requests,
           agent[a].req = r, req[r].kind = "poll"
    PROVE  /\ ~Settling(t, a) /\ agent[a].tasks = {}
           /\ Given(t, a) <=> t \in req[r].items
<1>1. agent[a].pc = "waiting" /\ agent[a].tasks = {}
  BY RemediationAssumption DEF CInv, Carried, AgentCarries
<1>2. ~Settling(t, a)
  BY <1>1 DEF Settling
<1> QED
  BY <1>1, <1>2 DEF Given

\* A poll lists what is open.
LEMMA PollListPays ==
    ASSUME CInv, CInv', Advances, NEW t \in Actions, NEW a \in Lone,
           NEW r \in Requests, PollList(r)
    PROVE  Pays(t, a)
<1>0. a \in Agents
  BY DEF Lone
<1>1. ~Asks(r, t)' /\ (IsStray(r, t, a)' => IsStray(r, t, a))
  BY PollListEffect DEF Asks, IsStray, CInv
<1>2. AskingFor(t)' \subseteq AskingFor(t) /\ Stray(t, a)' \subseteq Stray(t, a)
  BY <1>0, <1>1, PollListEffect, SetsMove DEF CInv
<1>3. OpenFor(t, a)' <=> OpenFor(t, a)
  BY PollListEffect DEF OpenFor, CInv
<1>4. Expected(t, a)' => Expected(t, a)
  <2>1. CASE agent[a].req # r
    BY <1>0, <1>3, <2>1, PollListEffect, ExpectedStays DEF Others, CInv
  <2>2. CASE agent[a].req = r
    <3>1. /\ req[r].kind = "poll" /\ req[r].pc = "start" /\ req[r].by = a
          /\ req'[r].kind = "poll" /\ agent'[a].req = r
          /\ req'[r].items = req[r].items \/ req'[r].items = TasksFor(a)
      BY <1>0, <2>2, PollListEffect DEF CInv, IInv, AgentOK
    <3>2. ~Settling(t, a) /\ req[r].items = {}
      BY <1>0, <2>2, <3>1, WaitsForPoll DEF CInv, Carried, HandlerCarries
    <3>3. Given(t, a)' <=> t \in req'[r].items
      <4>1. agent'[a].tasks = {}
        BY <1>0, <2>2, <3>1, PollListEffect, WaitsForPoll DEF CInv
      <4> QED
        BY <3>1, <4>1 DEF Given
    <3>4. t \in TasksFor(a) => OpenFor(t, a)
      BY DEF TasksFor, OpenFor
    <3> QED
      BY <1>3, <3>1, <3>2, <3>3, <3>4 DEF Expected
  <2> QED
    BY <2>1, <2>2
<1> QED
  BY <1>0, <1>2, <1>4, PollListEffect, Cheap DEF CInv

\* The next row to mark changes nothing yet.
LEMMA PollRefreshPays ==
    ASSUME CInv, CInv', Advances, NEW t \in Actions, NEW a \in Lone,
           NEW r \in Requests, PollRefresh(r)
    PROVE  Pays(t, a)
<1> USE DEF CInv
<1>0. a \in Agents
  BY DEF Lone
<1>1. ~Asks(r, t)' /\ (IsStray(r, t, a)' => IsStray(r, t, a))
  BY PollRefreshEffect DEF Asks, IsStray
<1>2. AskingFor(t)' \subseteq AskingFor(t) /\ Stray(t, a)' \subseteq Stray(t, a)
  BY <1>0, <1>1, PollRefreshEffect, SetsMove
<1>3. /\ UNCHANGED <<row, agent, performed>> /\ Others(r)
      /\ req'[r].kind = req[r].kind /\ req'[r].items = req[r].items /\ req[r].kind = "poll"
  BY PollRefreshEffect
<1>4. Reporting(t, a)' <=> Reporting(t, a)
  BY <1>3 DEF Reporting, Others
<1>5. Given(t, a)' <=> Given(t, a)
  BY <1>3, <1>4 DEF Given, Others
<1>6. Settling(t, a)' <=> Settling(t, a)
  BY <1>3 DEF Settling, Others
<1>7. Expected(t, a)' <=> Expected(t, a)
  BY <1>3, <1>5, <1>6 DEF Expected, OpenFor
<1> QED
  BY <1>0, <1>2, <1>3, <1>7, Cheap

\* A row is marked dispatched: by a poll whose agent will get the action, by a
\* stray poll that is used up, or for another node.
LEMMA PollMarkPays ==
    ASSUME CInv, CInv', Advances, NEW t \in Actions, NEW a \in Lone,
           NEW r \in Requests, PollMark(r)
    PROVE  Pays(t, a)
<1> USE DEF CInv
<1>0. a \in Agents
  BY DEF Lone
<1>1. ~Asks(r, t)' /\ (IsStray(r, t, a)' => IsStray(r, t, a))
  BY PollMarkEffect DEF Asks, IsStray
<1>2. AskingFor(t)' \subseteq AskingFor(t) /\ Stray(t, a)' \subseteq Stray(t, a)
  BY <1>0, <1>1, PollMarkEffect, SetsMove
<1>3. /\ UNCHANGED <<agent, performed, asked, faults>> /\ Others(r)
      /\ req'[r].kind = req[r].kind /\ req'[r].items = req[r].items /\ req[r].kind = "poll"
      /\ row'[t].target = row[t].target
  BY PollMarkEffect DEF Writes
<1>4. Reporting(t, a)' <=> Reporting(t, a)
  BY <1>3 DEF Reporting, Others
<1>5. Given(t, a)' <=> Given(t, a)
  BY <1>3, <1>4 DEF Given, Others
<1>6. Settling(t, a)' <=> Settling(t, a)
  BY <1>3 DEF Settling, Others
<1>7. CASE OpenFor(t, a)' => Given(t, a) \/ OpenFor(t, a)
  <2>1. Expected(t, a)' => Expected(t, a)
    BY <1>5, <1>6, <1>7 DEF Expected
  <2> QED
    BY <1>0, <1>2, <1>3, <2>1, Cheap
<1>8. CASE OpenFor(t, a)' /\ ~Given(t, a) /\ ~OpenFor(t, a)
  <2>1. req[r].item = t /\ row[t].target = NodeOf[a]
    BY <1>3, <1>8, PollMarkEffect DEF OpenFor, Writes
  <2>2. req[r].by = a
    <3>1. req[r].by \in Agents /\ NodeOf[req[r].by] = row[t].target
      BY <2>1, PollMarkEffect DEF IInv, HandlerOK, Assigned
    <3> QED
      BY <2>1, <3>1 DEF Lone
  <2>3. agent[a].req # r
    BY <1>3, <1>8, <2>1, PollMarkEffect DEF Given
  <2>4. t \in req[r].todo /\ t \notin req'[r].todo /\ req'[r].pc # "start"
    BY <2>1, PollMarkEffect DEF Carried, HandlerCarries
  <2>5. r \in Stray(t, a) /\ ~IsStray(r, t, a)'
    BY <1>3, <2>2, <2>3, <2>4 DEF Stray, IsStray
  <2>6. Stray(t, a)' \subseteq Stray(t, a) \ {r}
    BY <1>0, <1>3, <2>5, SetsMove
  <2>7. /\ Cardinality(Stray(t, a)') + 1 <= Cardinality(Stray(t, a))
        /\ Cardinality(AskingFor(t)') <= Cardinality(AskingFor(t))
    BY <1>0, <1>2, <2>5, <2>6, Parts, Counting
  <2> QED
    BY <1>0, <1>3, <2>7, Parts DEF Pays, Cost, Credit
<1> QED
  BY <1>7, <1>8

\* A report that is refused, or that finds its status in the row already, will
\* settle nothing; the action is not open then.
LEMMA ResultLoadPays ==
    ASSUME CInv, CInv', Advances, NEW t \in Actions, NEW a \in Lone,
           NEW r \in Requests, ResultLoad(r)
    PROVE  Pays(t, a)
<1> USE DEF CInv
<1>0. a \in Agents
  BY DEF Lone
<1>1. ~Asks(r, t)' /\ ~IsStray(r, t, a)'
  BY ResultLoadEffect DEF Asks, IsStray
<1>2. AskingFor(t)' \subseteq AskingFor(t) /\ Stray(t, a)' \subseteq Stray(t, a)
  BY <1>0, <1>1, ResultLoadEffect, SetsMove
<1>3. /\ UNCHANGED <<row, agent, performed>> /\ Others(r)
      /\ req'[r].kind = req[r].kind /\ req'[r].item = req[r].item
      /\ req'[r].items = req[r].items /\ req[r].kind = "result"
  BY ResultLoadEffect
<1>4. Reporting(t, a)' <=> Reporting(t, a)
  BY <1>3 DEF Reporting, Others
<1>5. Given(t, a)' <=> Given(t, a)
  BY <1>3, <1>4 DEF Given, Others
<1>6. OpenFor(t, a) /\ Settling(t, a) => Settling(t, a)'
  <2> SUFFICES ASSUME OpenFor(t, a), Settling(t, a) PROVE Settling(t, a)'
    OBVIOUS
  <2>1. CASE agent[a].pc = "executed" /\ agent[a].current = t
    BY <1>3, <2>1 DEF Settling
  <2>2. ASSUME NEW q \in Requests, q # r, agent[a].req = q, req[q].kind = "result",
               req[q].item = t,
               req[q].pc = "start" \/ (req[q].pc = "commit" /\ req[q].loaded # ResultStatus(t))
        PROVE  Settling(t, a)'
    BY <1>3, <2>2 DEF Settling, Others
  <2>3. CASE agent[a].req = r /\ req[r].item = t
    <3>1. req[r].by = a
      BY <1>0, <2>3 DEF IInv, AgentOK
    <3>2. req'[r].pc = "commit" /\ req'[r].loaded = row[t].status
      BY <2>3, <3>1, ResultLoadEffect DEF OpenFor
    <3>3. row[t].status # ResultStatus(t)
      BY DEF OpenFor, Open, ResultStatus
    <3> QED
      BY <1>3, <2>3, <3>2, <3>3 DEF Settling
  <2> QED
    BY <2>1, <2>2, <2>3 DEF Settling
<1>7. Expected(t, a)' => Expected(t, a)
  BY <1>3, <1>5, <1>6 DEF Expected, OpenFor
<1> QED
  BY <1>0, <1>2, <1>3, <1>7, Cheap

\* A committed result opens no row, and settles the one it had to settle.
LEMMA ResultCommitPays ==
    ASSUME CInv, CInv', Advances, NEW t \in Actions, NEW a \in Lone,
           NEW r \in Requests, ResultCommit(r)
    PROVE  Pays(t, a)
<1> USE DEF CInv
<1>0. a \in Agents
  BY DEF Lone
<1>1. ~Asks(r, t)' /\ ~IsStray(r, t, a)'
  BY ResultCommitEffect DEF Asks, IsStray
<1>2. AskingFor(t)' \subseteq AskingFor(t) /\ Stray(t, a)' \subseteq Stray(t, a)
  BY <1>0, <1>1, ResultCommitEffect, SetsMove
<1>3. /\ UNCHANGED <<agent, performed>> /\ Others(r)
      /\ req'[r].kind = req[r].kind /\ req'[r].item = req[r].item
      /\ req'[r].items = req[r].items /\ req[r].kind = "result" /\ req[r].pc = "commit"
  BY ResultCommitEffect
<1>4. Reporting(t, a)' <=> Reporting(t, a)
  BY <1>3 DEF Reporting, Others
<1>5. Given(t, a)' <=> Given(t, a)
  BY <1>3, <1>4 DEF Given, Others
<1>6. OpenFor(t, a)' => OpenFor(t, a) /\ (Settling(t, a) => Settling(t, a)')
  <2> SUFFICES ASSUME OpenFor(t, a)'
               PROVE  OpenFor(t, a) /\ (Settling(t, a) => Settling(t, a)')
    OBVIOUS
  <2>1. OpenFor(t, a)
    BY ResultCommitEffect DEF OpenFor, Writes, ResultStatus, Open
  <2>2. CASE agent[a].pc = "executed" /\ agent[a].current = t
    BY <1>3, <2>1, <2>2 DEF Settling
  <2>3. ASSUME NEW q \in Requests, q # r, agent[a].req = q, req[q].kind = "result",
               req[q].item = t,
               req[q].pc = "start" \/ (req[q].pc = "commit" /\ req[q].loaded # ResultStatus(t))
        PROVE  Settling(t, a)'
    BY <1>3, <2>3 DEF Settling, Others
  <2>4. ~(agent[a].req = r /\ req[r].item = t /\ req[r].loaded # ResultStatus(t))
    BY ResultCommitEffect DEF OpenFor, Writes, ResultStatus, Open
  <2> QED
    BY <1>3, <2>1, <2>2, <2>3, <2>4 DEF Settling
<1>7. Expected(t, a)' => Expected(t, a)
  BY <1>5, <1>6 DEF Expected
<1> QED
  BY <1>0, <1>2, <1>3, <1>7, Cheap

\* A handler that ended asks for nothing, and nothing new is stray.
LEMMA EndsSets ==
    ASSUME CInv, NEW t \in Actions, NEW a \in Agents, NEW r \in Requests, Ends(r)
    PROVE  AskingFor(t)' \subseteq AskingFor(t) /\ Stray(t, a)' \subseteq Stray(t, a)
<1>1. req'[r].kind = "none"
  BY DEF Ends, IdleHandler
<1>2. \A q \in Requests : q # r => req'[q] = req[q]
  BY DEF Ends, Others
<1>3. AskingFor(t)' \subseteq AskingFor(t)
  BY <1>1, <1>2 DEF AskingFor
<1>4. \A q \in Requests : q # r => (agent[a].req = q => agent'[a].req = q)
  BY DEF Ends
<1>5. Stray(t, a)' \subseteq Stray(t, a)
  BY <1>1, <1>2, <1>4 DEF Stray, IsStray
<1> QED
  BY <1>3, <1>5

\* An answer brings the agent what the handler held for it.
LEMMA RespondPays ==
    ASSUME CInv, CInv', Advances, NEW t \in Actions, NEW a \in Lone,
           NEW r \in Requests, Respond(r)
    PROVE  Pays(t, a)
<1>0. a \in Agents
  BY DEF Lone
<1>1. Ends(r) /\ req[r].pc = "respond"
  BY EndsEffect DEF Respond, CInv
<1>2. UNCHANGED <<row, performed>> /\ Others(r)
  BY <1>1 DEF Ends
<1>3. OpenFor(t, a)' <=> OpenFor(t, a)
  BY <1>2 DEF OpenFor
<1>4. CASE agent[a].req # r
  <2>1. agent'[a] = agent[a] /\ \A q \in Requests : agent[a].req = q => req'[q] = req[q]
    BY <1>0, <1>1, <1>4 DEF Ends, Others
  <2>2. Expected(t, a)' => Expected(t, a)
    BY <1>0, <1>3, <2>1, ExpectedStays DEF CInv
  <2> QED
    BY <1>0, <1>1, <1>2, <2>2, EndsSets, Cheap DEF CInv
<1>5. CASE agent[a].req = r
  <2>1. agent[a].pc = "waiting" /\ req[r].kind \in {"poll", "result"}
    BY <1>0, <1>5, RemediationAssumption DEF CInv, Carried, AgentCarries, IInv, AgentOK
  <2>2. ~Settling(t, a)
    BY <1>1, <1>5, <2>1 DEF Settling
  <2>3. Given(t, a)' => t \in agent'[a].tasks
    <3>1. \A q \in Requests : agent'[a].req # q
      BY <1>0, <1>1, <1>5, RemediationAssumption DEF Ends
    <3> QED
      BY <3>1 DEF Given
  <2>4. t \in agent'[a].tasks => Given(t, a)
    <3> SUFFICES ASSUME t \in agent'[a].tasks PROVE Given(t, a)
      OBVIOUS
    <3>1. CASE req[r].kind = "poll" /\ agent'[a].tasks = req[r].items
      BY <1>5, <3>1 DEF Given
    <3>2. CASE req[r].kind = "result" /\ agent'[a].tasks = agent[a].tasks \ {req[r].item}
      BY <1>5, <2>1, <3>2 DEF Given, Reporting
    <3> QED
      BY <1>0, <1>1, <1>5, <3>1, <3>2 DEF Ends
  <2>5. Expected(t, a)' => Expected(t, a)
    BY <1>3, <2>2, <2>3, <2>4 DEF Expected
  <2> QED
    BY <1>0, <1>1, <1>2, <2>5, EndsSets, Cheap DEF CInv
<1> QED
  BY <1>4, <1>5

\* A handler that fails pays for the action its agent gives up.
LEMMA HandlerFailsPays ==
    ASSUME CInv, CInv', Advances, NEW t \in Actions, NEW a \in Lone,
           NEW r \in Requests, HandlerFails(r)
    PROVE  Pays(t, a)
<1> USE DEF CInv
<1>0. a \in Agents
  BY DEF Lone
<1>1. Ends(r) /\ faults' = faults + 1 /\ performed' = performed
  BY EndsEffect DEF HandlerFails
<1>2. AskingFor(t)' \subseteq AskingFor(t) /\ Stray(t, a)' \subseteq Stray(t, a)
  BY <1>0, <1>1, EndsSets
<1>3. /\ Cardinality(AskingFor(t)') <= Cardinality(AskingFor(t))
      /\ Cardinality(Stray(t, a)') <= Cardinality(Stray(t, a))
  BY <1>0, <1>2, Parts, Threads, FS_Subset
<1>4. asked[t] <= asked'[t]
  BY DEF Advances
<1> QED
  BY <1>0, <1>1, <1>3, <1>4, Parts DEF Pays, Cost, Credit

\* A request of agent b is one it waits for.
LEMMA SendPays ==
    ASSUME CInv, CInv', Advances, NEW t \in Actions, NEW a \in Lone,
           NEW b \in Agents, NEW r \in Requests, Poll(b, r) \/ PostResult(b, r)
    PROVE  Pays(t, a)
<1> USE DEF CInv
<1>0. a \in Agents
  BY DEF Lone
<1>1. UNCHANGED <<row, performed>> /\ Others(r) /\ req[r].pc = "idle"
  BY SendEffect
<1>2. AskingFor(t)' \subseteq AskingFor(t)
  <2>1. req'[r].kind # "approve"
    BY SendEffect
  <2> QED
    BY <1>1, <2>1 DEF AskingFor, Others
<1>3. OpenFor(t, a)' <=> OpenFor(t, a)
  BY <1>1 DEF OpenFor
<1>4. CASE b # a
  <2>1. agent'[a] = agent[a] /\ req'[r].by # a
    BY <1>0, <1>4, SendEffect DEF OtherAgents
  <2>2. Stray(t, a)' \subseteq Stray(t, a)
    BY <1>1, <2>1 DEF Stray, IsStray, Others
  <2>3. agent[a].req # r
    BY <1>0, <1>1, Unawaited
  <2>4. Expected(t, a)' => Expected(t, a)
    BY <1>0, <1>1, <1>3, <2>1, <2>3, ExpectedStays DEF Others
  <2> QED
    BY <1>0, <1>1, <1>2, <2>2, <2>4, Cheap
<1>5. CASE b = a
  <2>0. /\ agent'[a].req = r /\ agent'[a].pc = "waiting" /\ agent'[a].tasks = agent[a].tasks
        /\ agent[a].pc \in {"idle", "executed"} /\ req'[r].items = {} /\ req'[r].pc = "start"
    BY <1>5, SendEffect
  <2>1. agent[a].req = NoRequest
    BY <1>0, <2>0 DEF Carried, AgentCarries
  <2>2. Stray(t, a)' \subseteq Stray(t, a)
    <3>1. ASSUME NEW q \in Requests, IsStray(q, t, a)' PROVE IsStray(q, t, a)
      <4>1. q # r /\ agent[a].req # q
        BY <2>0, <2>1, <3>1, RemediationAssumption DEF IsStray
      <4> QED
        BY <1>1, <3>1, <4>1 DEF IsStray, Others
    <3> QED
      BY <3>1 DEF Stray
  <2>3. CASE Poll(a, r)
    <3>1. agent[a].tasks = {} /\ req'[r].kind = "poll"
      <4>1. agent[a].pc = "idle"
        BY <2>3 DEF Poll
      <4>2. req'[r].kind = "poll"
        BY <1>0, <2>3, <4>1, SendEffect
      <4> QED
        BY <1>0, <4>1, <4>2 DEF Carried, AgentCarries
    <3>2. ~Given(t, a)' /\ ~Settling(t, a)
      <4>1. ~Settling(t, a)
        BY <2>1, <2>3, RemediationAssumption DEF Settling, Poll
      <4>2. ~Given(t, a)'
        BY <2>0, <3>1 DEF Given
      <4> QED
        BY <4>1, <4>2
    <3>3. Expected(t, a)' => Expected(t, a)
      BY <1>3, <3>2 DEF Expected
    <3> QED
      BY <1>0, <1>1, <1>2, <2>2, <3>3, Cheap
  <2>4. CASE PostResult(a, r)
    <3>1. req'[r].kind = "result" /\ req'[r].item = agent[a].current /\ agent[a].pc = "executed"
      <4>1. agent[a].pc = "executed"
        BY <2>4 DEF PostResult
      <4> QED
        BY <1>0, <2>4, <4>1, SendEffect
    <3>2. Reporting(t, a)' <=> agent[a].current = t
      BY <2>0, <3>1 DEF Reporting
    <3>3. Settling(t, a)' <=> agent[a].current = t
      BY <2>0, <3>1 DEF Settling
    <3>4. Reporting(t, a) <=> agent[a].current = t
      BY <2>1, <3>1, RemediationAssumption DEF Reporting
    <3>5. Settling(t, a) <=> agent[a].current = t
      BY <2>1, <3>1, RemediationAssumption DEF Settling
    <3>6. Given(t, a)' => Given(t, a)
      BY <2>0, <3>1, <3>2, <3>4 DEF Given
    <3>7. Expected(t, a)' => Expected(t, a)
      BY <1>3, <3>3, <3>5, <3>6 DEF Expected
    <3> QED
      BY <1>0, <1>1, <1>2, <2>2, <3>7, Cheap
  <2> QED
    BY <1>5, <2>3, <2>4
<1> QED
  BY <1>4, <1>5

\* The agent does what was expected of it.
LEMMA ExecutePays ==
    ASSUME CInv, CInv', Advances, NEW t \in Actions, NEW a \in Lone,
           NEW b \in Agents, NEW u \in Actions, Execute(b, u)
    PROVE  Pays(t, a)
<1> USE DEF CInv
<1>0. a \in Agents
  BY DEF Lone
<1>1. UNCHANGED <<row, req, asked, faults>> /\ agent'[a].req = agent[a].req
  BY <1>0, ExecuteEffect DEF OtherAgents
<1>2. AskingFor(t)' = AskingFor(t) /\ Stray(t, a)' = Stray(t, a)
  BY <1>1 DEF AskingFor, Stray, IsStray
<1>3. OpenFor(t, a)' <=> OpenFor(t, a)
  BY <1>1 DEF OpenFor
<1>4. CASE b # a
  <2>1. agent'[a] = agent[a] /\ performed'[t][a] = performed[t][a]
    BY <1>0, <1>4, ExecuteEffect DEF OtherAgents
  <2>2. Expected(t, a)' => Expected(t, a)
    BY <1>0, <1>1, <1>3, <2>1, ExpectedStays
  <2> QED
    BY <1>0, <1>2, <2>1, <2>2, Cheap
<1>5. CASE b = a
  <2>1. /\ agent[a].pc = "working" /\ u \in agent[a].tasks
        /\ agent'[a].pc = "executed" /\ agent'[a].current = u
        /\ agent'[a].tasks = agent[a].tasks
    BY <1>5, ExecuteEffect
  <2>2. \A q \in Requests : agent[a].req # q /\ agent'[a].req # q
    BY <1>0, <1>1, <2>1, RemediationAssumption DEF Carried, AgentCarries
  <2>3. ~Reporting(t, a) /\ (Reporting(t, a)' <=> t = u)
    BY <2>1, <2>2 DEF Reporting
  <2>4. ~Settling(t, a) /\ (Settling(t, a)' <=> t = u)
    BY <2>1, <2>2 DEF Settling
  <2>5. CASE t = u
    <3>1. Expected(t, a)
      BY <2>1, <2>3, <2>5 DEF Expected, Given
    <3>2. ~Expected(t, a)'
      BY <2>2, <2>3, <2>4, <2>5 DEF Expected, Given
    <3>3. Coming(t, a) = 1 /\ Coming(t, a)' = 0
      BY <3>1, <3>2 DEF Coming
    <3>4. performed'[t][a] <= performed[t][a] + 1
      BY <1>5, <2>5, ExecuteEffect
    <3> QED
      BY <1>0, <1>1, <1>2, <3>3, <3>4, Parts DEF Pays, Cost, Credit
  <2>6. CASE t # u
    <3>1. performed'[t][a] = performed[t][a]
      BY <1>0, <2>6, ExecuteEffect
    <3>2. Given(t, a)' => Given(t, a)
      BY <2>1, <2>2, <2>3, <2>6 DEF Given
    <3>3. Expected(t, a)' => Expected(t, a)
      BY <1>3, <2>4, <3>2 DEF Expected
    <3> QED
      BY <1>0, <1>2, <3>1, <3>3, Cheap
  <2> QED
    BY <2>5, <2>6
<1> QED
  BY <1>4, <1>5

\* An agent that fails pays for the poll it leaves behind or for the action it
\* forgets; one that starts has forgotten everything.
LEMMA ResetPays ==
    ASSUME CInv, CInv', Advances, NEW t \in Actions, NEW a \in Lone,
           NEW b \in Agents, AgentFails(b) \/ AgentRestarts(b)
    PROVE  Pays(t, a)
<1> USE DEF CInv
<1>0. a \in Agents
  BY DEF Lone
<1>1. UNCHANGED <<row, req, performed, asked>>
  BY ResetEffect
<1>2. AskingFor(t)' = AskingFor(t)
  BY <1>1 DEF AskingFor
<1>3. OpenFor(t, a)' <=> OpenFor(t, a)
  BY <1>1 DEF OpenFor
<1>4. CASE b # a
  <2>1. agent'[a] = agent[a]
    BY <1>0, <1>4, ResetEffect DEF OtherAgents
  <2>2. Stray(t, a)' = Stray(t, a)
    BY <1>1, <2>1 DEF Stray, IsStray
  <2>3. Expected(t, a)' => Expected(t, a)
    BY <1>0, <1>1, <1>3, <2>1, ExpectedStays
  <2> QED
    BY <1>0, <1>1, <1>2, <2>2, <2>3, Cheap
<1>5. CASE b = a
  <2>1. agent'[a].tasks = {} /\ agent'[a].req = NoRequest
    BY <1>5, ResetEffect
  <2>2. ~Given(t, a)'
    BY <2>1, RemediationAssumption DEF Given
  <2>3. CASE \E r \in Requests : agent[a].req = r /\ req[r].kind = "poll"
    <3>1. PICK r \in Requests : agent[a].req = r /\ req[r].kind = "poll"
      BY <2>3
    <3>2. ~Settling(t, a) /\ agent[a].pc = "waiting"
      BY <1>0, <3>1, WaitsForPoll, RemediationAssumption DEF Carried, AgentCarries
    <3>3. Coming(t, a)' <= Coming(t, a)
      BY <1>3, <2>2, <3>2 DEF Coming, Expected
    <3>4. Stray(t, a)' \subseteq Stray(t, a) \cup {r}
      BY <1>1, <3>1 DEF Stray, IsStray
    <3>5. Cardinality(Stray(t, a)') <= Cardinality(Stray(t, a)) + 1
      BY <1>0, <3>4, Parts, Counting
    <3>6. faults' = faults + 1
      BY <1>5, <3>2, ResetEffect
    <3> QED
      BY <1>0, <1>1, <1>2, <3>3, <3>5, <3>6, Parts DEF Pays, Cost, Credit
  <2>4. CASE ~\E r \in Requests : agent[a].req = r /\ req[r].kind = "poll"
    <3>1. Stray(t, a)' = Stray(t, a)
      BY <1>1, <2>1, <2>4, RemediationAssumption DEF Stray, IsStray
    <3>2. CASE faults' = faults + 1
      BY <1>0, <1>1, <1>2, <3>1, <3>2, Parts DEF Pays, Cost, Credit
    <3>3. CASE faults' = faults /\ agent[a].pc = "down"
      <4>1. ~Settling(t, a)
        BY <1>0, <3>3, RemediationAssumption DEF Settling, Carried, AgentCarries
      <4>2. Expected(t, a)' => Expected(t, a)
        BY <1>3, <2>2, <4>1 DEF Expected
      <4> QED
        BY <1>0, <1>1, <1>2, <3>1, <4>2, Cheap
    <3> QED
      BY <1>5, <3>2, <3>3, ResetEffect
  <2> QED
    BY <2>3, <2>4
<1> QED
  BY <1>4, <1>5

\* Nothing is spent at the start.
LEMMA InitBudget == Init => Budget
<1> SUFFICES ASSUME Init, NEW t \in Actions, NEW a \in Lone PROVE Cost(t, a) <= Credit(t)
  BY DEF Budget
<1>0. a \in Agents
  BY DEF Lone
<1>1. AskingFor(t) = {} /\ Stray(t, a) = {}
  BY DEF Init, AskingFor, Stray, IsStray, IdleHandler
<1>2. ~Given(t, a) /\ ~OpenFor(t, a)
  BY <1>0, RemediationAssumption DEF Init, Given, IdleAgent, OpenFor, Open
<1>3. Coming(t, a) = 0
  BY <1>2 DEF Coming, Expected
<1>4. performed[t][a] = 0 /\ Credit(t) = 0
  BY <1>0 DEF Init, Credit
<1> QED
  BY <1>1, <1>3, <1>4, FS_EmptySet DEF Cost

\* Every step pays for itself.
LEMMA StepBudget == CInv /\ Budget /\ [Next]_vars => Budget'
<1> SUFFICES ASSUME CInv, Budget, [Next]_vars, NEW t \in Actions, NEW a \in Lone
             PROVE  (Cost(t, a) <= Credit(t))'
  BY DEF Budget, Lone
<1>0. a \in Agents /\ CInv' /\ IInv'
  BY StepCarried DEF Lone, CInv
<1>1. Advances
  BY StepAdvances DEF CInv
<1>2. ASSUME NEW r \in Requests, Serve(r) \/ Operate(r) \/ HandlerFails(r) PROVE Pays(t, a)
  <2>1. CASE Operate(r)
    BY <1>0, <1>1, <2>1, CreateActionPays, ApproveLoadPays DEF Operate
  <2>2. CASE PollList(r) \/ PollRefresh(r) \/ PollMark(r)
    BY <1>0, <1>1, <2>2, PollListPays, PollRefreshPays, PollMarkPays
  <2>3. CASE ResultLoad(r) \/ ResultCommit(r) \/ Respond(r) \/ HandlerFails(r)
    BY <1>0, <1>1, <2>3, ResultLoadPays, ResultCommitPays, RespondPays, HandlerFailsPays
  <2>4. CASE ApproveCommit(r) \/ ApprovePublish(r) \/ Audit(r)
    BY <1>0, <1>1, <2>4, ApproveCommitPays, ReportPays
  <2> QED
    BY <1>2, <2>1, <2>2, <2>3, <2>4 DEF Serve
<1>3. ASSUME NEW b \in Agents, Run(b) \/ AgentFails(b) PROVE Pays(t, a)
  BY <1>0, <1>1, <1>3, SendPays, ExecutePays, ResetPays DEF Run
<1>4. ASSUME UNCHANGED vars PROVE Pays(t, a)
  <2>1. AskingFor(t)' = AskingFor(t) /\ Stray(t, a)' = Stray(t, a)
    BY <1>4 DEF vars, AskingFor, Stray, IsStray
  <2>2. Expected(t, a)' <=> Expected(t, a)
    BY <1>4 DEF vars, Expected, Given, Reporting, Settling, OpenFor
  <2>3. performed'[t][a] = performed[t][a]
    BY <1>4 DEF vars
  <2>4. IInv
    BY DEF CInv
  <2> QED
    BY <1>0, <1>1, <2>1, <2>2, <2>3, <2>4, Cheap
<1>5. Pays(t, a)
  <2>1. CASE Next
    BY <1>2, <1>3, <2>1 DEF Next
  <2> QED
    BY <1>4, <2>1
<1>6. Cost(t, a) <= Credit(t)
  BY DEF Budget
<1>7. /\ Cost(t, a) \in Nat /\ Cost(t, a)' \in Nat
      /\ Credit(t) \in Nat /\ Credit(t)' \in Nat
  BY <1>0, Parts DEF Cost, Credit, CInv
<1> QED
  BY <1>5, <1>6, <1>7 DEF Pays

\* The budget is kept in every reachable state.
LEMMA BudgetInvariance == Spec => [](CInv /\ Budget)
<1>1. CInv /\ Budget /\ [Next]_vars => (CInv /\ Budget)'
  BY StepCarried, StepBudget
<1> QED
  BY <1>1, InitCarried, InitBudget, PTL DEF Spec

\* An agent alone on its node performs an action at most once per approval and
\* once more per failure (mark_dispatched and record_result look at no status).
THEOREM RepetitionIsPaidFor == Spec => []RepetitionNeedsCause
<1>1. CInv /\ Budget => RepetitionNeedsCause
  <2> SUFFICES ASSUME CInv, Budget, NEW t \in Actions, NEW a \in Lone
               PROVE  performed[t][a] <= asked[t] + faults
    BY DEF RepetitionNeedsCause
  <2>0. a \in Agents /\ Cost(t, a) <= Credit(t)
    BY DEF Lone, Budget
  <2>1. Cardinality(AskingFor(t)) \in Nat /\ Cardinality(Stray(t, a)) \in Nat
    BY Threads DEF AskingFor, Stray
  <2>2. performed[t][a] \in Nat /\ asked[t] \in Nat /\ faults \in Nat
    BY <2>0, RemediationAssumption DEF CInv, IInv, TypeOK, MaxPerformed
  <2>3. Coming(t, a) \in {0, 1}
    BY DEF Coming
  <2> QED
    BY <2>0, <2>1, <2>2, <2>3 DEF Cost, Credit
<1> QED
  BY <1>1, BudgetInvariance, PTL

\* One approval or failure, and an agent alone on its node: once its result is
\* committed the row is settled.
LEMMA SettledOnce ==
    ASSUME CInv, Budget, NEW r \in Requests, req[r].kind = "result", req[r].pc = "audit",
           req[r].by \in Lone, asked[req[r].item] + faults <= 1
    PROVE  row[req[r].item].status = ResultStatus(req[r].item)
<1> DEFINE t == req[r].item
           a == req[r].by
<1>1. t \in Actions /\ a \in Agents /\ Did(t, a)
  BY DEF CInv, IInv, HandlerOK
<1>2. row[t].approval = "approved" /\ row[t].target = NodeOf[a]
  BY <1>1 DEF CInv, IInv, OnlyApprovedIsPerformed, Did
<1>3. asked[t] > 0 /\ row[t].status \notin {"absent", "requested"}
  BY <1>1, <1>2 DEF CInv, Carried, ApprovedWasAsked
<1>4. asked[t] \in Nat /\ faults \in Nat /\ performed[t][a] \in Nat
  BY <1>1, RemediationAssumption DEF CInv, IInv, TypeOK, MaxPerformed
<1>5. faults = 0
  BY <1>3, <1>4
<1>6. agent[a].req = r
  BY <1>5 DEF CInv, Carried, HandlerCarries
<1>7. agent[a].pc = "waiting"
  BY <1>1, <1>6, RemediationAssumption DEF CInv, Carried, AgentCarries
<1>8. ~Settling(t, a)
  BY <1>6, <1>7 DEF Settling
<1>9. ~Expected(t, a)
  <2>1. Cardinality(AskingFor(t)) \in Nat /\ Cardinality(Stray(t, a)) \in Nat
    BY Threads DEF AskingFor, Stray
  <2>2. Cost(t, a) <= Credit(t)
    BY <1>1 DEF Budget
  <2>3. performed[t][a] > 0
    BY <1>1 DEF Did
  <2>4. asked[t] + faults <= 1
    OBVIOUS
  <2> HIDE DEF t, a
  <2>5. Coming(t, a) # 1
    BY <1>4, <2>1, <2>2, <2>3, <2>4 DEF Cost, Credit
  <2> QED
    BY <2>5 DEF Coming
<1>10. row[t].status \in Statuses /\ row[t].status \notin Open
  BY <1>1, <1>2, <1>8, <1>9 DEF Expected, OpenFor, CInv, IInv, TypeOK, Row
<1>11. row[t].status \in Settled
  BY <1>3, <1>10 DEF Statuses, Settled, Open
<1> QED
  BY <1>1, <1>11 DEF CInv, IInv, SettledWasPerformed

\* Every step keeps the reported outcomes.
LEMMA StepReported == CInv /\ Budget /\ OutcomeIsReported /\ [Next]_vars => OutcomeIsReported'
<1> SUFFICES ASSUME CInv, Budget, OutcomeIsReported, [Next]_vars, NEW e \in audit',
                    e.event = "result", ~(asked'[e.item] + faults' > 1),
                    ~\E a \in Agents \ Lone : NodeOf[a] = row'[e.item].target
             PROVE  e.outcome = (IF e.item \in Diagnostics THEN "success" ELSE "failure")
  BY DEF OutcomeIsReported, Lone
<1>1. IInv' /\ Advances
  BY StepCarried, StepAdvances DEF CInv
<1>2. e \in AuditRecord /\ e.item \in Actions
  BY <1>1 DEF IInv, TypeOK, AuditRecord
<1>3. CASE e \in audit
  <2>1. asked[e.item] \in Nat /\ faults \in Nat /\ asked'[e.item] \in Nat /\ faults' \in Nat
        /\ asked[e.item] <= asked'[e.item] /\ faults <= faults'
    BY <1>1, <1>2, RemediationAssumption DEF Advances, CInv, IInv, TypeOK
  <2>2. ~(asked[e.item] + faults > 1)
    BY <2>1
  <2>3. PICK a \in Agents : performed[e.item][a] > 0
    BY <1>3 DEF CInv, IInv, AuditIsTrue
  <2>4. row[e.item].approval = "approved"
    BY <1>2, <2>3 DEF CInv, IInv, OnlyApprovedIsPerformed
  <2>5. row'[e.item].target = row[e.item].target
    BY <1>1, <1>2, <2>4 DEF Advances
  <2> QED
    BY <1>3, <2>2, <2>5 DEF OutcomeIsReported
<1>4. CASE e \notin audit
  <2>1. PICK r \in Requests : Audit(r)
    <3>1. ASSUME NEW r \in Requests, Serve(r) \/ Operate(r) \/ HandlerFails(r), ~Audit(r)
          PROVE  audit' = audit
      <4>1. CASE Operate(r)
        BY <4>1, Zenon DEF Operate, CreateAction, ApproveLoad
      <4>3. CASE HandlerFails(r)
        BY <4>3 DEF HandlerFails
      <4>2. CASE Serve(r)
        BY <3>1, <4>2 DEF Serve, ApproveCommit, ApprovePublish, PollList, PollRefresh,
           PollMark, ResultLoad, ResultCommit, Respond
      <4> QED
        BY <3>1, <4>1, <4>2, <4>3
    <3>2. ASSUME NEW a \in Agents, Run(a) \/ AgentFails(a) PROVE audit' = audit
      BY <3>2 DEF Run, Poll, PostResult, Execute, AgentRestarts, AgentFails
    <3> QED
      BY <1>4, <3>1, <3>2 DEF Next, vars
  <2> DEFINE h == req[r]
             good == h.kind # "result" \/ row[h.item].status = "completed"
  <2>2. e = [event |-> h.kind, item |-> h.item, outcome |-> IF good THEN "success" ELSE "failure"]
    BY <1>4, <2>1, AuditEffect DEF CInv
  <2>3. h.kind = "result" /\ h.item = e.item /\ h.pc = "audit" /\ UNCHANGED <<row, asked, faults>>
    BY <2>1, <2>2, AuditEffect DEF CInv
  <2>4. h.by \in Agents /\ row[h.item].target = NodeOf[h.by]
    BY <2>3 DEF CInv, IInv, HandlerOK, Did, OnlyApprovedIsPerformed
  <2>5. h.by \in Lone
    BY <2>3, <2>4
  <2>6. asked[h.item] + faults <= 1
    <3>1. asked[h.item] \in Nat /\ faults \in Nat
      BY <1>2, <2>3, RemediationAssumption DEF CInv, IInv, TypeOK
    <3> QED
      BY <2>3, <3>1
  <2>7. row[h.item].status = ResultStatus(h.item)
    BY <2>3, <2>5, <2>6, SettledOnce
  <2>8. e.outcome = IF row[e.item].status = "completed" THEN "success" ELSE "failure"
    BY <2>2, <2>3
  <2> QED
    BY <2>3, <2>7, <2>8 DEF ResultStatus
<1> QED
  BY <1>3, <1>4

\* With one approval and no failure, or the other way round, and one agent on
\* the node, the audit entry of a result says what the agent reported, although
\* the route takes it from the row.
THEOREM ReportsAreAudited == Spec => []OutcomeIsReported
<1>1. Init => OutcomeIsReported
  BY DEF Init, OutcomeIsReported
<1> QED
  BY <1>1, StepReported, BudgetInvariance, PTL DEF Spec

=============================================================================
