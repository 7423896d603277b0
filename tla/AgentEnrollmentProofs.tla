----------------------- MODULE AgentEnrollmentProofs -----------------------
(***************************************************************************)
(* Theorems about AgentEnrollment, for every finite set of agents and of   *)
(* threads and every bound on faults.                                      *)
(*                                                                         *)
(* An identity travels from the row a registration commits to the handler  *)
(* that answers, to the agent that receives it and to the file the agent   *)
(* writes.  The invariant says where it can be meanwhile, and counts what  *)
(* faults may leave behind.                                                *)
(***************************************************************************)
EXTENDS AgentEnrollment, FunctionTheorems, FiniteSetTheorems, TLAPS

\* The server serves only what it has seeded.
ServerOK ==
    /\ server = "admin" => tenant
    /\ server = "up" => tenant /\ admin

\* Identity i, if it is one, was made for agent a.
MadeFor(i, a) == i # NoId => i \in DOMAIN owner /\ owner[i] = a

\* An agent waits for a handler that does what it is about to; it holds an
\* identity to save, has saved one, or has none; with a torn file it is down.
AgentOK(a) ==
    LET p == agent[a] IN
    /\ p.req # NoRequest =>
         /\ handler[p.req].pc # "idle"
         /\ handler[p.req].agent = a /\ handler[p.req].call = p.pc
    /\ p.pc \notin Calls => p.req = NoRequest
    /\ p.pc = "save" <=> p.id # NoId
    /\ p.pc \in {"enroll", "save"} => file[a] = NoId
    /\ p.pc \in {"refresh", "beat", "work"} => file[a] # NoId
    /\ a \in torn => p.pc = "down" /\ file[a] = NoId
    /\ MadeFor(p.id, a) /\ MadeFor(file[a], a)

\* A handler serves an agent; with the saved identity, or with the one it has
\* just registered, and only then its registration succeeds.
HandlerOK(r) ==
    LET h == handler[r] IN
    /\ h.pc = "idle" => h = IdleHandler
    /\ h.pc # "idle" => h.agent \in Agents
    /\ h.pc \in {"start", "commit"} => ~h.ok
    /\ h.pc # "idle" /\ h.call # "enroll" => h.id # NoId /\ h.id = file[h.agent]
    /\ h.call = "enroll" => (h.id # NoId <=> h.ok)
    /\ MadeFor(h.id, h.agent)

\* Only a saved identity reports.
HealthyOK == \A i \in healthy : file[owner[i]] = i

\* Registrations of agent a under way that it does not wait for.
IsStray(r, a) ==
    /\ handler[r].agent = a /\ handler[r].call = "enroll"
    /\ handler[r].pc \in {"start", "commit"} /\ agent[a].req # r

Stray(a) == {r \in Requests : IsStray(r, a)}

\* Each orphan, and each registration that may become one, took a fault.
Counted(a) == Cardinality(Orphans(a)) + Cardinality(Stray(a)) <= faults

EInv ==
    /\ TypeOK
    /\ ServerOK
    /\ \A a \in Agents : AgentOK(a)
    /\ \A r \in Requests : HandlerOK(r)
    /\ HealthyOK
    /\ \A a \in Agents : Counted(a)

-----------------------------------------------------------------------------
(* Counting. *)

\* The size of a finite set and of one that has few elements more or less.
LEMMA Counting ==
    ASSUME NEW S, IsFiniteSet(S), NEW T, NEW x
    PROVE  /\ Cardinality(S) \in Nat
           /\ T \subseteq S => Cardinality(T) \in Nat /\ Cardinality(T) <= Cardinality(S)
           /\ T \subseteq S \cup {x} => Cardinality(T) \in Nat /\ Cardinality(T) <= Cardinality(S) + 1
           /\ x \in S /\ T \subseteq S \ {x} =>
                Cardinality(T) \in Nat /\ Cardinality(T) + 1 <= Cardinality(S)
<1> DEFINE n == Cardinality(S)
<1>1. n \in Nat
  BY FS_CardinalityType
<1>2. ASSUME T \subseteq S PROVE Cardinality(T) \in Nat /\ Cardinality(T) <= n
  BY <1>2, FS_Subset, FS_CardinalityType
<1>3. ASSUME T \subseteq S \cup {x} PROVE Cardinality(T) \in Nat /\ Cardinality(T) <= n + 1
  <2> DEFINE more == S \cup {x}
             m == Cardinality(more)
  <2>1. IsFiniteSet(more) /\ m = IF x \in S THEN n ELSE n + 1
    BY FS_AddElement
  <2>2. Cardinality(T) \in Nat /\ Cardinality(T) <= m
    BY <1>3, <2>1, FS_Subset, FS_CardinalityType
  <2> HIDE DEF m, n
  <2> QED
    BY <1>1, <2>1, <2>2
<1>4. ASSUME x \in S, T \subseteq S \ {x} PROVE Cardinality(T) \in Nat /\ Cardinality(T) + 1 <= n
  <2> DEFINE fewer == S \ {x}
             m == Cardinality(fewer)
  <2>1. IsFiniteSet(fewer) /\ m = n - 1
    BY <1>4, FS_RemoveElement
  <2>2. Cardinality(T) \in Nat /\ Cardinality(T) <= m
    BY <1>4, <2>1, FS_Subset, FS_CardinalityType
  <2> HIDE DEF m, n
  <2> QED
    BY <1>1, <2>1, <2>2
<1> QED
  BY <1>1, <1>2, <1>3, <1>4

\* A sequence in which nobody occurs more than k times is not longer than k
\* times the number of those who do: pair each place with how often its element
\* occurred so far.
LEMMA LengthBound ==
    ASSUME NEW o \in Seq(Agents), NEW k \in Nat,
           \A a \in Agents : Cardinality({i \in DOMAIN o : o[i] = a}) <= k
    PROVE  Len(o) <= Cardinality(Agents) * k
<1> DEFINE D == 1 .. Len(o)
           Upto(i) == {j \in D : j <= i /\ o[j] = o[i]}
           f == [i \in D |-> <<o[i], Cardinality(Upto(i))>>]
           T == Agents \X (1 .. k)
<1>1. Len(o) \in Nat /\ DOMAIN o = D /\ \A i \in D : o[i] \in Agents
  OBVIOUS
<1>2. IsFiniteSet(D) /\ Cardinality(D) = Len(o)
  <2> DEFINE n == Len(o)
             c == Cardinality(1 .. n)
  <2>2. n \in Nat
    BY <1>1
  <2> HIDE DEF n
  <2>1. IsFiniteSet(1 .. n) /\ c = IF 1 > n THEN 0 ELSE n - 1 + 1
    BY <2>2, FS_Interval
  <2> HIDE DEF c
  <2>3. c = n
    BY <2>1, <2>2
  <2> QED
    BY <2>1, <2>3 DEF n, c
<1>3. \A i \in D : IsFiniteSet(Upto(i)) /\ Cardinality(Upto(i)) \in Nat /\ i \in Upto(i)
  <2> SUFFICES ASSUME NEW i \in D
               PROVE  IsFiniteSet(Upto(i)) /\ Cardinality(Upto(i)) \in Nat /\ i \in Upto(i)
    OBVIOUS
  <2>1. Upto(i) \in SUBSET D /\ i \in Upto(i)
    BY <1>1
  <2> QED
    BY <1>2, <2>1, FS_Subset, FS_CardinalityType
<1>4. \A i \in D : Cardinality(Upto(i)) \in 1 .. k
  <2> SUFFICES ASSUME NEW i \in D PROVE Cardinality(Upto(i)) \in 1 .. k
    OBVIOUS
  <2> DEFINE all == {j \in DOMAIN o : o[j] = o[i]}
  <2>1. IsFiniteSet(all) /\ Cardinality(all) <= k /\ Upto(i) \in SUBSET all
        /\ Cardinality(all) \in Nat
    <3>1. all \in SUBSET D
      BY <1>1
    <3> QED
      BY <1>1, <1>2, <3>1, FS_Subset, FS_CardinalityType
  <2>2. Cardinality(Upto(i)) <= Cardinality(all)
    BY <2>1, FS_Subset
  <2>3. Cardinality(Upto(i)) # 0
    BY <1>3, FS_EmptySet
  <2> HIDE DEF all, Upto
  <2> QED
    BY <1>3, <2>1, <2>2, <2>3
<1>5. \A i, j \in D : i < j /\ o[i] = o[j] => Cardinality(Upto(i)) < Cardinality(Upto(j))
  <2> SUFFICES ASSUME NEW i \in D, NEW j \in D, i < j, o[i] = o[j]
               PROVE  Cardinality(Upto(i)) < Cardinality(Upto(j))
    OBVIOUS
  <2>1. Upto(i) \in SUBSET Upto(j)
    BY <1>1
  <2>2. j \in Upto(j) /\ j \notin Upto(i)
    BY <1>1
  <2>3. Cardinality(Upto(i)) <= Cardinality(Upto(j))
        /\ (Cardinality(Upto(j)) = Cardinality(Upto(i)) => Upto(j) = Upto(i))
    BY <1>3, <2>1, FS_Subset
  <2> HIDE DEF Upto
  <2> QED
    BY <1>3, <2>2, <2>3
<1>6. f \in [D -> T]
  <2> HIDE DEF Upto
  <2> QED
    BY <1>1, <1>4
<1>7. \A i, j \in D : f[i] = f[j] => i = j
  <2> SUFFICES ASSUME NEW i \in D, NEW j \in D, f[i] = f[j] PROVE i = j
    OBVIOUS
  <2>1. o[i] = o[j] /\ Cardinality(Upto(i)) = Cardinality(Upto(j))
    OBVIOUS
  <2> HIDE DEF Upto, f
  <2>2. i \in Int /\ j \in Int
    OBVIOUS
  <2> QED
    BY <1>3, <1>5, <2>1, <2>2
<1>8. f \in Injection(D, T)
  <2> HIDE DEF f
  <2> QED
    BY <1>6, <1>7, Fun_IsInj
<1>9. IsFiniteSet(T) /\ Cardinality(T) = Cardinality(Agents) * k
  <2>1. IsFiniteSet(1 .. k) /\ Cardinality(1 .. k) = k
    BY FS_Interval
  <2> QED
    BY <2>1, EnrollmentAssumption, FS_Product
<1>10. Cardinality(D) <= Cardinality(T)
  <2> HIDE DEF f, D, T
  <2> QED
    BY <1>8, <1>9, FS_Injection
<1> QED
  BY <1>2, <1>9, <1>10
-----------------------------------------------------------------------------
(* Single updates, and what does not move.                                  *)

\* The records of an agent that starts anew and of a free thread.
LEMMA Fresh ==
    /\ DownAgent \in Agent
    /\ DownAgent.pc = "down" /\ DownAgent.req = NoRequest /\ DownAgent.id = NoId
    /\ IdleHandler \in Handler
    /\ IdleHandler.pc = "idle" /\ IdleHandler.agent = NoAgent /\ IdleHandler.id = NoId
    /\ ~IdleHandler.ok /\ IdleHandler.call = "enroll"
BY DEF DownAgent, Agent, IdleHandler, Handler, Calls

\* One agent moves.
LEMMA SetAgent ==
    ASSUME TypeOK, NEW a \in Agents, NEW p \in Agent, agent' = [agent EXCEPT ![a] = p]
    PROVE  /\ agent' \in [Agents -> Agent] /\ agent'[a] = p
           /\ \A b \in Agents \ {a} : agent'[b] = agent[b]
BY DEF TypeOK

\* One handler moves.
LEMMA SetHandler ==
    ASSUME TypeOK, NEW r \in Requests, NEW h \in Handler, handler' = [handler EXCEPT ![r] = h]
    PROVE  /\ handler' \in [Requests -> Handler] /\ handler'[r] = h
           /\ \A q \in Requests \ {r} : handler'[q] = handler[q]
BY DEF TypeOK

\* What no step takes back: a saved identity and a row of cp_agents.
Grows ==
    /\ \A a \in Agents : file[a] # NoId => file'[a] = file[a]
    /\ \A i \in DOMAIN owner : i \in DOMAIN owner' /\ owner'[i] = owner[i]

\* A handler that does not move.
LEMMA HandlerStays ==
    ASSUME EInv, Grows, NEW r \in Requests, handler'[r] = handler[r]
    PROVE  HandlerOK(r)'
BY DEF EInv, HandlerOK, Grows, MadeFor

\* An agent that does not move, while its handler goes on.
LEMMA AgentStays ==
    ASSUME EInv, Grows, NEW a \in Agents, agent'[a] = agent[a], file'[a] = file[a],
           a \in torn' => a \in torn,
           agent[a].req # NoRequest =>
             /\ handler'[agent[a].req].pc # "idle"
             /\ handler'[agent[a].req].agent = handler[agent[a].req].agent
             /\ handler'[agent[a].req].call = handler[agent[a].req].call
    PROVE  AgentOK(a)'
BY DEF EInv, AgentOK, Grows, MadeFor

\* Heartbeats that were recorded.
LEMMA HealthyStays ==
    ASSUME EInv, Grows, UNCHANGED healthy
    PROVE  HealthyOK'
<1> SUFFICES ASSUME NEW i \in healthy PROVE file'[owner'[i]] = i
  BY DEF HealthyOK
<1>1. i \in DOMAIN owner /\ owner[i] \in Agents /\ i # NoId
  BY DEF EInv, TypeOK, NoId
<1>2. file[owner[i]] = i
  BY DEF EInv, HealthyOK
<1> QED
  BY <1>1, <1>2 DEF Grows

\* The sets that are counted are finite.
LEMMA Finite ==
    ASSUME EInv, NEW a \in Agents
    PROVE  /\ IsFiniteSet(Orphans(a)) /\ IsFiniteSet(Stray(a))
           /\ Cardinality(Orphans(a)) \in Nat /\ Cardinality(Stray(a)) \in Nat
           /\ faults \in Nat
<1>1. IsFiniteSet(DOMAIN owner)
  <2>1. Len(owner) \in Nat /\ DOMAIN owner = 1 .. Len(owner)
    BY DEF EInv, TypeOK
  <2> QED
    BY <2>1, FS_Interval
<1>2. Orphans(a) \in SUBSET DOMAIN owner /\ Stray(a) \in SUBSET Requests
  BY DEF Orphans, Stray
<1>3. faults \in Nat
  BY EnrollmentAssumption DEF EInv, TypeOK
<1> QED
  BY <1>1, <1>2, <1>3, EnrollmentAssumption, FS_Subset, FS_CardinalityType

\* How the count goes on: nothing new; an orphan or a stray registration that a
\* fault pays for; a stray registration that makes an orphan.
LEMMA CountGoesOn ==
    ASSUME EInv, NEW a \in Agents, faults' \in Nat, faults <= faults', NEW x, NEW r
    PROVE  /\ Orphans(a)' \subseteq Orphans(a) /\ Stray(a)' \subseteq Stray(a) => Counted(a)'
           /\ /\ Orphans(a)' \subseteq Orphans(a) \cup {x} /\ Stray(a)' \subseteq Stray(a)
              /\ faults' = faults + 1
              => Counted(a)'
           /\ /\ Orphans(a)' \subseteq Orphans(a) /\ Stray(a)' \subseteq Stray(a) \cup {r}
              /\ faults' = faults + 1
              => Counted(a)'
           /\ /\ Orphans(a)' \subseteq Orphans(a) \cup {x}
              /\ r \in Stray(a) /\ Stray(a)' \subseteq Stray(a) \ {r}
              => Counted(a)'
<1> DEFINE O == Orphans(a)
           P == Orphans(a)'
           S == Stray(a)
           T == Stray(a)'
<1>1. /\ IsFiniteSet(O) /\ IsFiniteSet(S) /\ Cardinality(O) \in Nat /\ Cardinality(S) \in Nat
      /\ faults \in Nat /\ Cardinality(O) + Cardinality(S) <= faults
  BY Finite DEF EInv, Counted
<1>2. Counted(a)' <=> Cardinality(P) + Cardinality(T) <= faults'
  BY DEF Counted
<1> HIDE DEF O, P, S, T
<1>3. /\ P \subseteq O => Cardinality(P) \in Nat /\ Cardinality(P) <= Cardinality(O)
      /\ P \subseteq O \cup {x} => Cardinality(P) \in Nat /\ Cardinality(P) <= Cardinality(O) + 1
  BY <1>1, Counting
<1>4. /\ T \subseteq S => Cardinality(T) \in Nat /\ Cardinality(T) <= Cardinality(S)
      /\ T \subseteq S \cup {r} => Cardinality(T) \in Nat /\ Cardinality(T) <= Cardinality(S) + 1
      /\ r \in S /\ T \subseteq S \ {r} =>
           Cardinality(T) \in Nat /\ Cardinality(T) + 1 <= Cardinality(S)
  BY <1>1, Counting
<1>5. P \subseteq O /\ T \subseteq S => Counted(a)'
  BY <1>1, <1>2, <1>3, <1>4
<1>6. P \subseteq O \cup {x} /\ T \subseteq S /\ faults' = faults + 1 => Counted(a)'
  BY <1>1, <1>2, <1>3, <1>4
<1>7. P \subseteq O /\ T \subseteq S \cup {r} /\ faults' = faults + 1 => Counted(a)'
  BY <1>1, <1>2, <1>3, <1>4
<1>8. P \subseteq O \cup {x} /\ r \in S /\ T \subseteq S \ {r} => Counted(a)'
  BY <1>1, <1>2, <1>3, <1>4
<1> QED
  BY <1>5, <1>6, <1>7, <1>8 DEF O, P, S, T

\* An agent that does not move keeps its count while the handler it waits for
\* keeps its identity and nobody registers for it.
LEMMA CountStays ==
    ASSUME EInv, NEW a \in Agents, faults' \in Nat, faults <= faults',
           agent'[a] = agent[a], file'[a] = file[a], UNCHANGED owner,
           \A r \in Requests : agent[a].req = r => handler'[r].id = handler[r].id,
           \A r \in Requests : IsStray(r, a)' => IsStray(r, a)
    PROVE  Counted(a)'
<1>1. Orphans(a)' \subseteq Orphans(a)
  BY DEF Orphans
<1>2. Stray(a)' \subseteq Stray(a)
  BY DEF Stray
<1> QED
  BY <1>1, <1>2, CountGoesOn

-----------------------------------------------------------------------------
(* Steps of one agent.                                                      *)

\* An agent that does not wait, before or after, and keeps or saves what it has.
LEMMA AgentAlone ==
    ASSUME EInv, NEW a \in Agents, NEW p \in Agent, agent' = [agent EXCEPT ![a] = p],
           p.req = NoRequest,
           UNCHANGED <<server, tenant, admin, handler, nodes, owner, healthy, expired>>,
           file' \in [Agents -> Ids \cup {NoId}],
           \A b \in Agents : b # a \/ file[b] # NoId => file'[b] = file[b],
           torn \subseteq torn', torn' \subseteq torn \cup {a},
           faults' \in 0 .. MaxFaults, faults <= faults',
           AgentOK(a)', Counted(a)'
    PROVE  EInv'
<1> USE DEF EInv
<1>1. agent' \in [Agents -> Agent] /\ agent'[a] = p /\ \A b \in Agents \ {a} : agent'[b] = agent[b]
  BY SetAgent
<1>2. Grows
  BY DEF Grows
<1>3. TypeOK'
  <2>1. \A b \in Agents : agent'[b].req # NoRequest => handler'[agent'[b].req].agent = b
    BY <1>1 DEF TypeOK
  <2> QED
    BY <1>1, <2>1 DEF TypeOK
<1>4. \A r \in Requests : HandlerOK(r)'
  BY <1>2, HandlerStays
<1>5. \A b \in Agents : AgentOK(b)'
  <2> SUFFICES ASSUME NEW b \in Agents, b # a PROVE AgentOK(b)'
    OBVIOUS
  <2>1. agent'[b] = agent[b] /\ file'[b] = file[b] /\ (b \in torn' => b \in torn)
    BY <1>1
  <2>2. agent[b].req # NoRequest => handler'[agent[b].req].pc # "idle"
    BY DEF AgentOK
  <2> QED
    BY <1>2, <2>1, <2>2, AgentStays
<1>6. HealthyOK' /\ ServerOK'
  BY <1>2, HealthyStays DEF ServerOK
<1>7. \A b \in Agents : Counted(b)'
  <2> SUFFICES ASSUME NEW b \in Agents, b # a PROVE Counted(b)'
    OBVIOUS
  <2>1. agent'[b] = agent[b] /\ file'[b] = file[b]
    BY <1>1
  <2>2. \A r \in Requests : IsStray(r, b)' => IsStray(r, b)
    BY <2>1 DEF IsStray
  <2>3. faults' \in Nat
    BY EnrollmentAssumption
  <2> QED
    BY <2>1, <2>2, <2>3, CountStays
<1> QED
  BY <1>3, <1>4, <1>5, <1>6, <1>7

\* What an agent that waits for nothing has cannot become an orphan while the
\* agent holds it or its file does.
LEMMA NothingIsLost ==
    ASSUME EInv, NEW a \in Agents, agent[a].req = NoRequest, UNCHANGED <<handler, owner>>,
           faults' \in 0 .. MaxFaults, faults <= faults',
           {file[a], agent[a].id} \subseteq {file'[a], agent'[a].id, NoId}
    PROVE  Counted(a)'
<1>1. \A r \in Requests : agent[a].req # r
  BY EnrollmentAssumption
<1>2. \A i \in DOMAIN owner : i # NoId
  BY DEF EInv, TypeOK, NoId
<1>3. Orphans(a)' \subseteq Orphans(a)
  BY <1>1, <1>2 DEF Orphans
<1>4. Stray(a)' \subseteq Stray(a)
  BY <1>1 DEF Stray, IsStray
<1>5. faults' \in Nat
  BY EnrollmentAssumption
<1> QED
  BY <1>3, <1>4, <1>5, CountGoesOn

\* Starting, skipping a refresh, an unreachable server, working.
LEMMA GoRoundInv ==
    ASSUME EInv, NEW a \in Agents, Start(a) \/ Unreachable(a) \/ SkipRefresh(a) \/ Work(a)
    PROVE  EInv'
<1> USE DEF EInv
<1>0. agent[a] \in Agent /\ AgentOK(a) /\ faults \in 0 .. MaxFaults /\ faults <= faults
  BY EnrollmentAssumption DEF TypeOK
<1>1. UNCHANGED <<server, tenant, admin, file, torn, handler, nodes, owner, healthy, expired, faults>>
  BY DEF Start, Unreachable, SkipRefresh, Work, seed, disk, tables
<1>2. agent[a].id = NoId /\ agent[a].req = NoRequest
  BY <1>0 DEF Start, Unreachable, SkipRefresh, Work, AgentOK, Calls
<1>3. PICK p \in Agent :
        /\ agent' = [agent EXCEPT ![a] = p] /\ p.req = NoRequest /\ p.id = NoId
        /\ p.pc = "enroll" => file[a] = NoId
        /\ p.pc \in {"refresh", "beat"} => file[a] # NoId
        /\ p.pc \in {"enroll", "refresh", "beat", "down"}
        /\ p.pc = "down" \/ a \notin torn
  <2>1. ASSUME NEW pc \in {"enroll", "refresh", "beat", "down"},
               agent' = [agent EXCEPT ![a].pc = pc],
               pc = "enroll" => file[a] = NoId,
               pc \in {"refresh", "beat"} => file[a] # NoId,
               pc = "down" \/ a \notin torn
        PROVE  \E p \in Agent :
                 /\ agent' = [agent EXCEPT ![a] = p] /\ p.req = NoRequest /\ p.id = NoId
                 /\ p.pc = "enroll" => file[a] = NoId
                 /\ p.pc \in {"refresh", "beat"} => file[a] # NoId
                 /\ p.pc \in {"enroll", "refresh", "beat", "down"}
                 /\ p.pc = "down" \/ a \notin torn
    <3> DEFINE p == [agent[a] EXCEPT !.pc = pc]
    <3>1. p \in Agent /\ p.req = NoRequest /\ p.id = NoId /\ p.pc = pc
      BY <1>0, <1>2, <2>1 DEF Agent, Calls
    <3>2. agent' = [agent EXCEPT ![a] = p]
      BY <2>1
    <3> HIDE DEF p
    <3> QED
      BY <2>1, <3>1, <3>2
  <2>2. CASE Start(a)
    <3> DEFINE pc == IF file[a] = NoId THEN "enroll" ELSE "refresh"
    <3>1. agent' = [agent EXCEPT ![a].pc = pc] /\ a \notin torn
      BY <2>2 DEF Start
    <3>2. /\ pc \in {"enroll", "refresh", "beat", "down"}
          /\ pc = "enroll" => file[a] = NoId
          /\ pc \in {"refresh", "beat"} => file[a] # NoId
      OBVIOUS
    <3> HIDE DEF pc
    <3> QED
      BY <2>1, <3>1, <3>2
  <2>3. CASE SkipRefresh(a)
    <3>1. agent' = [agent EXCEPT ![a].pc = "beat"] /\ file[a] # NoId /\ a \notin torn
      BY <1>0, <2>3 DEF SkipRefresh, AgentOK
    <3> QED
      BY <2>1, <3>1
  <2>4. CASE Work(a)
    <3> DEFINE pc == IF file[a] \in expired THEN "down" ELSE "refresh"
    <3>1. agent' = [agent EXCEPT ![a].pc = pc] /\ file[a] # NoId /\ a \notin torn
      BY <1>0, <2>4 DEF Work, AgentOK
    <3>2. /\ pc \in {"enroll", "refresh", "beat", "down"}
          /\ pc = "enroll" => file[a] = NoId
      OBVIOUS
    <3> HIDE DEF pc
    <3> QED
      BY <2>1, <3>1, <3>2
  <2>5. CASE Unreachable(a)
    BY <2>5, Fresh DEF Unreachable
  <2> QED
    BY <2>2, <2>3, <2>4, <2>5
<1>4. agent'[a] = p
  BY <1>3, SetAgent
<1>5. AgentOK(a)'
  <2>1. MadeFor(p.id, a)'
    BY <1>3 DEF MadeFor
  <2>2. MadeFor(file[a], a)'
    BY <1>0, <1>1 DEF AgentOK, MadeFor
  <2>3. a \in torn => file[a] = NoId
    BY <1>0 DEF AgentOK
  <2> QED
    BY <1>1, <1>3, <1>4, <2>1, <2>2, <2>3 DEF AgentOK, Calls
<1>6. Counted(a)'
  BY <1>0, <1>1, <1>2, <1>3, <1>4, NothingIsLost
<1>7. file' \in [Agents -> Ids \cup {NoId}]
  BY <1>1 DEF TypeOK
<1> QED
  BY <1>0, <1>1, <1>3, <1>5, <1>6, <1>7, AgentAlone

\* The identity moves from the agent to its file.
LEMMA SaveInv ==
    ASSUME EInv, NEW a \in Agents, Save(a)
    PROVE  EInv'
<1> USE DEF EInv
<1> DEFINE p == [DownAgent EXCEPT !.pc = "refresh"]
<1>0. agent[a] \in Agent /\ AgentOK(a) /\ faults \in 0 .. MaxFaults /\ faults <= faults
  BY EnrollmentAssumption DEF TypeOK
<1>1. /\ UNCHANGED <<server, tenant, admin, torn, handler, nodes, owner, healthy, expired, faults>>
      /\ agent[a].pc = "save" /\ file' = [file EXCEPT ![a] = agent[a].id]
      /\ agent' = [agent EXCEPT ![a] = p]
  BY DEF Save, seed, tables
<1>2. p \in Agent /\ p.pc = "refresh" /\ p.req = NoRequest /\ p.id = NoId
  BY DEF DownAgent, Agent, Calls
<1>3. agent[a].id # NoId /\ agent[a].id \in Ids \cup {NoId} /\ file[a] = NoId
      /\ agent[a].req = NoRequest /\ a \notin torn
  BY <1>0, <1>1 DEF AgentOK, Agent, Calls
<1>4. /\ file' \in [Agents -> Ids \cup {NoId}] /\ file'[a] = agent[a].id
      /\ \A b \in Agents : b # a \/ file[b] # NoId => file'[b] = file[b]
  BY <1>1, <1>3 DEF TypeOK
<1> HIDE DEF p
<1>5. agent'[a] = p
  BY <1>1, <1>2, SetAgent
<1>6. AgentOK(a)'
  <2>1. MadeFor(p.id, a)'
    BY <1>2 DEF MadeFor
  <2>2. MadeFor(file[a], a)'
    BY <1>0, <1>1, <1>4 DEF AgentOK, MadeFor
  <2> QED
    BY <1>1, <1>2, <1>3, <1>4, <1>5, <2>1, <2>2 DEF AgentOK, Calls
<1>7. Counted(a)'
  BY <1>0, <1>1, <1>2, <1>3, <1>4, <1>5, NothingIsLost
<1> QED
  BY <1>0, <1>1, <1>2, <1>4, <1>6, <1>7, AgentAlone

\* A fault pays for what the agent held, or for the registration it leaves.
LEMMA DownCounts ==
    ASSUME EInv, NEW a \in Agents, agent[a].pc # "down", agent' = [agent EXCEPT ![a] = DownAgent],
           UNCHANGED <<handler, owner, file>>, faults' \in 0 .. MaxFaults, faults' = faults + 1
    PROVE  Counted(a)'
<1> USE DEF EInv
<1>0. agent[a] \in Agent /\ AgentOK(a)
  BY DEF TypeOK
<1>1. agent'[a].req = NoRequest /\ agent'[a].id = NoId
  BY SetAgent, Fresh
<1>2. faults' \in Nat /\ faults \in Nat /\ faults <= faults'
  BY EnrollmentAssumption DEF TypeOK
<1>3. \A i \in DOMAIN owner : i # NoId
  BY DEF TypeOK, NoId
<1>4. CASE agent[a].req = NoRequest
  <2>1. Orphans(a)' \subseteq Orphans(a) \cup {agent[a].id}
    BY <1>4, EnrollmentAssumption DEF Orphans
  <2>2. Stray(a)' \subseteq Stray(a)
    BY <1>4, EnrollmentAssumption DEF Stray, IsStray
  <2> QED
    BY <1>2, <2>1, <2>2, CountGoesOn
<1>5. CASE agent[a].req # NoRequest
  <2>1. PICK r \in Requests : r = agent[a].req /\ agent[a].id = NoId /\ HandlerOK(r)
    BY <1>0, <1>5 DEF Agent, AgentOK, Calls
  <2>2. Orphans(a)' \subseteq Orphans(a) \cup {handler[r].id}
    BY <1>3, <2>1 DEF Orphans
  <2>3. Stray(a)' \subseteq Stray(a) \cup {r}
    BY <2>1 DEF Stray, IsStray
  <2>4. CASE IsStray(r, a)'
    <3>1. handler[r].id = NoId
      BY <2>1, <2>4 DEF IsStray, HandlerOK
    <3>2. Orphans(a)' \subseteq Orphans(a)
      BY <1>3, <2>2, <3>1 DEF Orphans
    <3> QED
      BY <1>2, <2>3, <3>2, CountGoesOn
  <2>5. CASE ~IsStray(r, a)'
    <3>1. r \notin Stray(a)'
      BY <2>5 DEF Stray
    <3>2. Stray(a)' \subseteq Stray(a)
      BY <2>3, <3>1
    <3> QED
      BY <1>2, <2>2, <3>2, CountGoesOn
  <2> QED
    BY <2>4, <2>5
<1> QED
  BY <1>4, <1>5

\* An agent that fails, while it saves or elsewhere.
LEMMA FailsInv ==
    ASSUME EInv, NEW a \in Agents, SaveIsCut(a) \/ Fails(a)
    PROVE  EInv'
<1> USE DEF EInv
<1>0. agent[a] \in Agent /\ AgentOK(a)
  BY DEF TypeOK
<1>1. /\ UNCHANGED <<server, tenant, admin, file, handler, nodes, owner, healthy, expired>>
      /\ agent[a].pc # "down" /\ agent' = [agent EXCEPT ![a] = DownAgent]
      /\ faults' \in 0 .. MaxFaults /\ faults' = faults + 1 /\ faults <= faults'
      /\ torn \subseteq torn' /\ torn' \subseteq torn \cup {a}
      /\ a \in torn' => file[a] = NoId
  <2>1. /\ UNCHANGED <<server, tenant, admin, file, handler, nodes, owner, healthy, expired>>
        /\ agent[a].pc # "down" /\ agent' = [agent EXCEPT ![a] = DownAgent] /\ Fault
        /\ \/ torn' = torn
           \/ torn' = torn \cup {a} /\ agent[a].pc = "save"
    BY DEF SaveIsCut, Fails, seed, disk, tables
  <2>2. faults' \in 0 .. MaxFaults /\ faults' = faults + 1 /\ faults <= faults'
    BY <2>1, EnrollmentAssumption DEF Fault, TypeOK
  <2> QED
    BY <1>0, <2>1, <2>2 DEF AgentOK
<1>2. agent'[a] = DownAgent
  BY <1>1, SetAgent, Fresh
<1>3. AgentOK(a)'
  <2>1. MadeFor(NoId, a)' /\ MadeFor(file[a], a)'
    BY <1>0, <1>1 DEF AgentOK, MadeFor
  <2> QED
    BY <1>1, <1>2, <2>1, Fresh DEF AgentOK, Calls
<1>4. Counted(a)'
  BY <1>1, DownCounts
<1>5. file' \in [Agents -> Ids \cup {NoId}]
  BY <1>1 DEF TypeOK
<1> QED
  BY <1>1, <1>3, <1>4, <1>5, Fresh, AgentAlone

-----------------------------------------------------------------------------
(* Steps of one handler.                                                    *)

\* A handler that goes on for the same agent and the same call.
LEMMA HandlerAlone ==
    ASSUME EInv, NEW r \in Requests, NEW h \in Handler, handler' = [handler EXCEPT ![r] = h],
           h.pc # "idle", h.agent = handler[r].agent, h.call = handler[r].call,
           UNCHANGED <<server, tenant, admin, agent, file, torn, expired, faults>>,
           Grows, nodes' \subseteq NodeUids, owner' \in Seq(Agents),
           Len(owner') <= Cardinality(Ids), healthy' \subseteq DOMAIN owner',
           HandlerOK(r)', HealthyOK', \A a \in Agents : Counted(a)'
    PROVE  EInv'
<1> USE DEF EInv
<1>1. /\ handler' \in [Requests -> Handler] /\ handler'[r] = h
      /\ \A q \in Requests \ {r} : handler'[q] = handler[q]
  BY SetHandler
<1>2. ASSUME NEW a \in Agents, agent[a].req # NoRequest
      PROVE  /\ agent[a].req \in Requests
             /\ handler'[agent[a].req].pc # "idle"
             /\ handler'[agent[a].req].agent = handler[agent[a].req].agent
             /\ handler'[agent[a].req].call = handler[agent[a].req].call
  <2>1. agent[a] \in Agent /\ AgentOK(a)
    BY DEF TypeOK
  <2>2. agent[a].req \in Requests /\ handler[agent[a].req].pc # "idle"
    BY <1>2, <2>1 DEF Agent, AgentOK
  <2> QED
    BY <1>1, <2>2
<1>3. TypeOK'
  <2>1. \A a \in Agents : agent[a].req # NoRequest => handler'[agent[a].req].agent = a
    BY <1>2 DEF TypeOK
  <2>2. expired' \subseteq DOMAIN owner'
    BY DEF TypeOK, Grows
  <2> QED
    BY <1>1, <2>1, <2>2 DEF TypeOK
<1>4. \A q \in Requests : HandlerOK(q)'
  BY <1>1, HandlerStays
<1>5. \A a \in Agents : AgentOK(a)'
  BY <1>2, AgentStays
<1>6. ServerOK'
  BY DEF ServerOK
<1> QED
  BY <1>3, <1>4, <1>5, <1>6

\* Registrations and identities stay as they are while a handler looks.
LEMMA LookInv ==
    ASSUME EInv, NEW r \in Requests, Look(r)
    PROVE  EInv'
<1> USE DEF EInv
<1>0. handler[r] \in Handler /\ HandlerOK(r) /\ faults \in Nat /\ faults <= faults
  BY EnrollmentAssumption DEF TypeOK
<1>1. /\ UNCHANGED <<server, tenant, admin, agent, file, torn, nodes, owner, healthy, expired, faults>>
      /\ handler[r].pc = "start"
  BY DEF Look, seed, disk, tables
<1>2. ~handler[r].ok /\ handler[r].agent \in Agents
  BY <1>0, <1>1 DEF HandlerOK
<1> DEFINE Goes(g) ==
             /\ handler' = [handler EXCEPT ![r] = g]
             /\ g.pc \in {"commit", "respond"} /\ (g.pc = "commit" => ~g.ok)
             /\ g.call = "enroll" => ~g.ok
             /\ g.agent = handler[r].agent /\ g.call = handler[r].call /\ g.id = handler[r].id
<1>3. PICK g \in Handler : Goes(g)
  <2> DEFINE h == handler[r]
             u == UidOf[h.agent] \in nodes
             g1 == [h EXCEPT !.pc = "commit", !.seen = u]
             g2 == [h EXCEPT !.pc = "respond"]
             g3 == [h EXCEPT !.pc = "respond", !.ok = TRUE]
             g4 == [h EXCEPT !.pc = "commit"]
  <2>1. handler' = [handler EXCEPT ![r] =
         CASE h.call = "enroll" -> g1
           [] h.call # "enroll" /\ h.id \in expired -> g2
           [] h.call = "refresh" /\ h.id \notin expired -> g3
           [] h.call = "beat" /\ h.id \notin expired -> g4]
    BY DEF Look
  <2>2. u \in BOOLEAN
    OBVIOUS
  <2> HIDE DEF u
  <2>3. g1 \in Handler /\ g2 \in Handler /\ g3 \in Handler /\ g4 \in Handler
    BY <1>0, <2>2 DEF Handler
  <2>4. CASE h.call = "enroll"
    <3>1. handler' = [handler EXCEPT ![r] = g1]
      BY <2>1, <2>4
    <3>2. Goes(g1)
      BY <1>0, <1>2, <3>1 DEF Handler
    <3> QED
      BY <2>3, <3>2
  <2>5. CASE h.call # "enroll" /\ h.id \in expired
    <3>1. handler' = [handler EXCEPT ![r] = g2]
      BY <2>1, <2>5
    <3>2. Goes(g2)
      BY <1>0, <1>2, <3>1 DEF Handler
    <3> QED
      BY <2>3, <3>2
  <2>6. CASE h.call = "refresh" /\ h.id \notin expired
    <3>1. handler' = [handler EXCEPT ![r] = g3]
      BY <2>1, <2>6
    <3>2. Goes(g3)
      BY <1>0, <2>6, <3>1 DEF Handler
    <3> QED
      BY <2>3, <3>2
  <2>7. CASE h.call = "beat" /\ h.id \notin expired
    <3>1. handler' = [handler EXCEPT ![r] = g4]
      BY <2>1, <2>7
    <3>2. Goes(g4)
      BY <1>0, <1>2, <3>1 DEF Handler
    <3> QED
      BY <2>3, <3>2
  <2>8. h.call \in {"enroll", "refresh", "beat"}
    BY <1>0 DEF Handler, Calls
  <2> QED
    BY <2>4, <2>5, <2>6, <2>7, <2>8
<1>6. handler'[r] = g /\ \A q \in Requests \ {r} : handler'[q] = handler[q]
  BY <1>3, SetHandler
<1>7. HandlerOK(r)'
  BY <1>0, <1>1, <1>2, <1>3, <1>6 DEF HandlerOK, MadeFor
<1>8. Grows /\ HealthyOK'
  BY <1>1, HealthyStays DEF Grows
<1>9. ASSUME NEW a \in Agents PROVE Counted(a)'
  <2>1. \A q \in Requests : agent[a].req = q => handler'[q].id = handler[q].id
    BY <1>3, <1>6
  <2>2. \A q \in Requests : IsStray(q, a)' => IsStray(q, a)
    BY <1>1, <1>3, <1>6 DEF IsStray
  <2> QED
    BY <1>0, <1>1, <2>1, <2>2, CountStays
<1> QED
  BY <1>1, <1>3, <1>7, <1>8, <1>9, HandlerAlone DEF TypeOK

\* A heartbeat is recorded for the identity its agent has saved.
LEMMA RecordHeartbeatInv ==
    ASSUME EInv, NEW r \in Requests, RecordHeartbeat(r)
    PROVE  EInv'
<1> USE DEF EInv
<1> DEFINE g == [handler[r] EXCEPT !.pc = "respond", !.ok = TRUE]
<1>0. handler[r] \in Handler /\ HandlerOK(r) /\ faults \in Nat /\ faults <= faults
  BY EnrollmentAssumption DEF TypeOK
<1>1. /\ UNCHANGED <<server, tenant, admin, agent, file, torn, nodes, owner, expired, faults>>
      /\ handler[r].pc = "commit" /\ handler[r].call = "beat"
      /\ healthy' = healthy \cup {handler[r].id}
      /\ handler' = [handler EXCEPT ![r] = g]
  BY DEF RecordHeartbeat, seed, disk
<1>2. /\ handler[r].agent \in Agents /\ handler[r].id # NoId
      /\ handler[r].id = file[handler[r].agent]
      /\ handler[r].id \in DOMAIN owner /\ owner[handler[r].id] = handler[r].agent
  BY <1>0, <1>1 DEF HandlerOK, MadeFor
<1>4. /\ g \in Handler /\ g.pc = "respond"
      /\ g.agent = handler[r].agent /\ g.call = handler[r].call /\ g.id = handler[r].id
  BY <1>0 DEF Handler
<1> HIDE DEF g
<1>6. handler'[r] = g /\ \A q \in Requests \ {r} : handler'[q] = handler[q]
  BY <1>1, <1>4, SetHandler
<1>7. HandlerOK(r)'
  BY <1>0, <1>1, <1>2, <1>4, <1>6 DEF HandlerOK, MadeFor
<1>8. Grows /\ HealthyOK' /\ healthy' \subseteq DOMAIN owner
  BY <1>1, <1>2 DEF Grows, HealthyOK, TypeOK
<1>9. ASSUME NEW a \in Agents PROVE Counted(a)'
  <2>1. \A q \in Requests : agent[a].req = q => handler'[q].id = handler[q].id
    BY <1>4, <1>6
  <2>2. \A q \in Requests : IsStray(q, a)' => IsStray(q, a)
    BY <1>1, <1>4, <1>6 DEF IsStray
  <2> QED
    BY <1>0, <1>1, <2>1, <2>2, CountStays
<1> QED
  BY <1>1, <1>4, <1>7, <1>8, <1>9, HandlerAlone DEF TypeOK

\* The bound that Ids sets is never met: rows nobody lost are one per agent.
LEMMA RowsFit ==
    ASSUME NEW o \in Seq(Agents), NEW n \in Nat, n <= MaxFaults,
           \A a \in Agents : \E T, x :
              /\ IsFiniteSet(T) /\ Cardinality(T) <= n
              /\ {i \in DOMAIN o : o[i] = a} \subseteq T \cup {x}
    PROVE  /\ Len(o) <= Cardinality(Ids)
           /\ 1 .. Len(o) \subseteq Ids
<1> DEFINE m == Cardinality(Agents)
           top == m * (MaxFaults + 1)
<1>1. m \in Nat /\ MaxFaults \in Nat
  BY EnrollmentAssumption, FS_CardinalityType
<1>2. ASSUME NEW a \in Agents PROVE Cardinality({i \in DOMAIN o : o[i] = a}) <= MaxFaults + 1
  <2> DEFINE rows == {i \in DOMAIN o : o[i] = a}
  <2>1. PICK T, x : IsFiniteSet(T) /\ Cardinality(T) <= n /\ rows \subseteq T \cup {x}
    OBVIOUS
  <2> DEFINE c == Cardinality(rows)
             d == Cardinality(T)
  <2>2. c \in Nat /\ d \in Nat /\ c <= d + 1 /\ d <= n
    BY <2>1, Counting
  <2> HIDE DEF c, d
  <2>3. c <= MaxFaults + 1
    BY <1>1, <2>2
  <2> QED
    BY <2>3 DEF c
<1>3. Len(o) <= top
  <2> DEFINE k == MaxFaults + 1
  <2>1. k \in Nat
    BY <1>1
  <2>2. \A a \in Agents : Cardinality({i \in DOMAIN o : o[i] = a}) <= k
    BY <1>2
  <2> HIDE DEF k
  <2>3. Len(o) <= m * k
    BY <2>1, <2>2, LengthBound
  <2> QED
    BY <2>3 DEF k
<1>4. top \in Nat /\ Len(o) \in Nat
  BY <1>1
<1>5. Ids = 1 .. top
  BY DEF Ids
<1> HIDE DEF top
<1>6. Cardinality(1 .. top) = top
  <2> DEFINE c == Cardinality(1 .. top)
  <2>1. c = IF 1 > top THEN 0 ELSE top - 1 + 1
    BY <1>4, FS_Interval
  <2> HIDE DEF c
  <2>2. c = top
    BY <1>4, <2>1
  <2> QED
    BY <2>2 DEF c
<1> QED
  BY <1>3, <1>4, <1>5, <1>6

\* What an agent uses or is about to be told of is one identity.
LEMMA OneInUse ==
    ASSUME EInv, NEW a \in Agents
    PROVE  \E x : \A i \in Nat \ {NoId} :
             \/ i \in {file[a], agent[a].id}
             \/ \E q \in Requests : agent[a].req = q /\ handler[q].id = i
             => i = x
<1> USE DEF EInv
<1>1. agent[a] \in Agent /\ AgentOK(a) /\ NoRequest \notin Requests
  BY EnrollmentAssumption DEF TypeOK
<1>2. CASE file[a] # NoId
  <2>1. agent[a].id = NoId
    BY <1>1, <1>2 DEF AgentOK
  <2>2. ASSUME NEW q \in Requests, agent[a].req = q PROVE handler[q].id = file[a]
    <3>1. HandlerOK(q) /\ handler[q].agent = a /\ handler[q].pc # "idle" /\ handler[q].call # "enroll"
      BY <1>1, <1>2, <2>2 DEF AgentOK
    <3> QED
      BY <3>1 DEF HandlerOK
  <2> QED
    BY <2>1, <2>2
<1>3. CASE file[a] = NoId /\ agent[a].pc = "save"
  <2>1. agent[a].req = NoRequest
    BY <1>1, <1>3 DEF AgentOK, Calls
  <2> QED
    BY <1>1, <1>3, <2>1
<1>4. CASE file[a] = NoId /\ agent[a].pc # "save"
  <2>1. agent[a].id = NoId
    BY <1>1, <1>4 DEF AgentOK
  <2> QED
    BY <1>4, <2>1
<1> QED
  BY <1>2, <1>3, <1>4

\* A registration commits a row for its agent, or fails.
LEMMA RegisterInv ==
    ASSUME EInv, NEW r \in Requests, Register(r)
    PROVE  EInv'
<1> USE DEF EInv
<1> DEFINE h == handler[r]
           a == h.agent
           n == Len(owner) + 1
<1>0. /\ h \in Handler /\ HandlerOK(r) /\ faults \in Nat /\ faults <= faults
      /\ owner \in Seq(Agents) /\ Len(owner) \in Nat /\ NoRequest \notin Requests
  BY EnrollmentAssumption DEF TypeOK
<1>1. /\ UNCHANGED <<server, tenant, admin, agent, file, torn, healthy, expired, faults>>
      /\ h.pc = "commit" /\ h.call = "enroll" /\ a \in Agents /\ ~h.ok /\ h.id = NoId
  BY <1>0 DEF Register, seed, disk, HandlerOK
<1>2. CASE handler' = [handler EXCEPT ![r].pc = "respond"] /\ UNCHANGED <<nodes, owner>>
  <2> DEFINE g == [h EXCEPT !.pc = "respond"]
  <2>1. /\ g \in Handler /\ g.pc = "respond" /\ g.agent = a /\ g.call = h.call /\ g.id = h.id
        /\ g.ok = h.ok
    BY <1>0 DEF Handler
  <2>2. handler' = [handler EXCEPT ![r] = g]
    BY <1>2
  <2> HIDE DEF g
  <2>3. handler'[r] = g /\ \A q \in Requests \ {r} : handler'[q] = handler[q]
    BY <2>1, <2>2, SetHandler
  <2>4. HandlerOK(r)' /\ Grows /\ HealthyOK'
    <3>1. Grows
      BY <1>1, <1>2 DEF Grows
    <3>2. HandlerOK(r)'
      BY <1>0, <1>1, <1>2, <2>1, <2>3 DEF HandlerOK, MadeFor
    <3> QED
      BY <1>1, <3>1, <3>2, HealthyStays
  <2>5. ASSUME NEW b \in Agents PROVE Counted(b)'
    <3>1. \A q \in Requests : agent[b].req = q => handler'[q].id = handler[q].id
      BY <2>1, <2>3
    <3>2. \A q \in Requests : IsStray(q, b)' => IsStray(q, b)
      BY <1>1, <2>1, <2>3 DEF IsStray
    <3> QED
      BY <1>0, <1>1, <1>2, <3>1, <3>2, CountStays
  <2> QED
    BY <1>1, <1>2, <2>1, <2>2, <2>4, <2>5, HandlerAlone DEF TypeOK
<1>3. CASE /\ nodes' = nodes \cup {UidOf[a]}
           /\ owner' = Append(owner, a)
           /\ handler' = [handler EXCEPT ![r] = [h EXCEPT !.pc = "respond", !.ok = TRUE, !.id = n]]
  <2> DEFINE g == [h EXCEPT !.pc = "respond", !.ok = TRUE, !.id = n]
  <2>1. g.pc = "respond" /\ g.agent = a /\ g.call = h.call /\ g.id = n /\ g.ok
    BY <1>0 DEF Handler
  <2>2. handler' = [handler EXCEPT ![r] = g]
    BY <1>3
  <2>3. handler'[r] = g /\ \A q \in Requests \ {r} : handler'[q] = handler[q]
    BY <2>2 DEF TypeOK
  <2>4. /\ owner' \in Seq(Agents) /\ Len(owner') = n /\ owner'[n] = a
        /\ DOMAIN owner' = DOMAIN owner \cup {n} /\ n \notin DOMAIN owner
        /\ \A i \in DOMAIN owner : owner'[i] = owner[i] /\ i # NoId
        /\ n # NoId /\ n \in Nat /\ DOMAIN owner \subseteq Nat
    BY <1>0, <1>1, <1>3 DEF NoId
  <2>5. g \in [pc: {"idle", "start", "commit", "respond"}, call: Calls,
               agent: Agents \cup {NoAgent}, id: {n}, seen: BOOLEAN, ok: BOOLEAN]
    BY <1>0 DEF Handler
  <2> HIDE DEF g, n
  <2>6. ASSUME NEW b \in Agents
        PROVE  /\ Stray(b)' \subseteq Stray(b)
               /\ b # a \/ agent[b].req = r => Orphans(b)' \subseteq Orphans(b)
               /\ b = a /\ agent[b].req # r =>
                    /\ r \in Stray(b) /\ Stray(b)' \subseteq Stray(b) \ {r}
                    /\ Orphans(b)' \subseteq Orphans(b) \cup {n}
    <3>1. \A q \in Requests : IsStray(q, b)' => IsStray(q, b) /\ q # r
      BY <1>1, <2>1, <2>3 DEF IsStray
    <3>2. Stray(b)' \subseteq Stray(b) \ {r}
      BY <3>1 DEF Stray
    <3>3. b = a /\ agent[b].req # r => r \in Stray(b)
      BY <1>1 DEF Stray, IsStray
    <3>4. Orphans(b)' \subseteq Orphans(b) \cup {n}
      <4> SUFFICES ASSUME NEW i \in Orphans(b)', i # n PROVE i \in Orphans(b)
        OBVIOUS
      <4>1. i \in DOMAIN owner /\ owner[i] = b /\ i \notin {file[b], agent[b].id}
        BY <1>1, <2>4 DEF Orphans
      <4>2. \A q \in Requests \ {r} : handler[q].id = i => agent[b].req # q
        BY <1>1, <2>3 DEF Orphans
      <4>3. handler[r].id # i
        BY <1>1, <2>4, <4>1
      <4> QED
        BY <4>1, <4>2, <4>3 DEF Orphans
    <3>5. b # a \/ agent[b].req = r => n \notin Orphans(b)'
      BY <1>1, <2>1, <2>3, <2>4 DEF Orphans
    <3> QED
      BY <3>2, <3>3, <3>4, <3>5
  <2>7. ASSUME NEW b \in Agents PROVE Counted(b)'
    <3>1. faults' \in Nat /\ faults <= faults'
      BY <1>0, <1>1
    <3>2. CASE b # a \/ agent[b].req = r
      BY <2>6, <3>1, <3>2, CountGoesOn
    <3>3. CASE b = a /\ agent[b].req # r
      BY <2>6, <3>1, <3>3, CountGoesOn
    <3> QED
      BY <3>2, <3>3
  <2>8. ASSUME NEW b \in Agents
        PROVE  \E T, x : /\ IsFiniteSet(T) /\ Cardinality(T) <= faults
                         /\ {i \in DOMAIN owner' : owner'[i] = b} \subseteq T \cup {x}
    \* What b uses already; or, if this registration is for b, n.
    <3>1. PICK x : \A i \in Nat \ {NoId} :
             \/ i \in {file[b], agent[b].id}
             \/ \E q \in Requests : agent[b].req = q /\ handler[q].id = i
             => i = x
      BY OneInUse
    <3> DEFINE O == Orphans(b)
               rows == {i \in DOMAIN owner' : owner'[i] = b}
    <3>2. /\ IsFiniteSet(O) /\ Cardinality(O) \in Nat /\ Cardinality(Stray(b)) \in Nat
          /\ Cardinality(O) + Cardinality(Stray(b)) <= faults
      BY Finite DEF Counted
    <3>3. rows \subseteq O \cup {x, n}
      BY <2>4, <3>1 DEF Orphans
    <3>4. b # a => n \notin rows
      BY <2>4
    <3>5. CASE b # a
      <4>1. Cardinality(O) <= faults /\ rows \subseteq O \cup {x}
        BY <1>0, <3>2, <3>3, <3>4, <3>5
      <4> HIDE DEF O, rows
      <4> QED
        BY <3>2, <4>1 DEF rows
    <3>6. CASE b = a /\ agent[b].req = r
      <4>1. AgentOK(b) /\ h.pc # "idle"
        BY <1>1
      <4>2. file[b] = NoId /\ agent[b].id = NoId
        BY <1>0, <1>1, <3>6, <4>1 DEF AgentOK
      <4>3. rows \subseteq O \cup {n}
        BY <1>1, <2>4, <3>6, <4>2 DEF Orphans
      <4>4. Cardinality(O) <= faults
        BY <1>0, <3>2
      <4> HIDE DEF O, rows
      <4> QED
        BY <3>2, <4>3, <4>4 DEF rows
    <3>7. CASE b = a /\ agent[b].req # r
      <4> DEFINE T == O \cup {n}
                 c == Cardinality(O)
                 s == Cardinality(Stray(b))
      <4>1. IsFiniteSet(T) /\ Cardinality(T) \in Nat /\ Cardinality(T) <= c + 1
        BY <3>2, FS_AddElement, Counting
      <4>2. s \in Nat /\ s # 0
        <5>1. r \in Stray(b) /\ IsFiniteSet(Stray(b))
          BY <2>6, <3>7, Finite
        <5> QED
          BY <3>2, <5>1, FS_EmptySet
      <4>3. c \in Nat /\ c + s <= faults
        BY <3>2
      <4>4. rows \subseteq T \cup {x}
        BY <3>3
      <4>5. Cardinality(T) <= faults
        <5> HIDE DEF c, s, T
        <5> QED
          BY <1>0, <4>1, <4>2, <4>3
      <4> HIDE DEF T, rows
      <4> QED
        BY <4>1, <4>4, <4>5 DEF rows
    <3> QED
      BY <3>5, <3>6, <3>7
  <2>9. Len(owner') <= Cardinality(Ids) /\ n \in Ids
    <3>1. faults <= MaxFaults
      BY EnrollmentAssumption DEF TypeOK
    <3>2. Len(owner') <= Cardinality(Ids) /\ 1 .. Len(owner') \subseteq Ids
      BY <1>0, <2>4, <2>8, <3>1, RowsFit
    <3>3. n \in 1 .. Len(owner')
      BY <1>0, <2>4 DEF n
    <3> QED
      BY <3>2, <3>3
  <2>10. g \in Handler
    BY <2>5, <2>9 DEF Handler
  <2>11. Grows /\ HealthyOK' /\ healthy' \subseteq DOMAIN owner'
    <3>1. Grows
      BY <1>1, <2>4 DEF Grows
    <3> QED
      BY <1>1, <2>4, <3>1, HealthyStays DEF TypeOK
  <2>12. HandlerOK(r)'
    BY <1>1, <2>1, <2>3, <2>4 DEF HandlerOK, MadeFor
  <2>13. nodes' \subseteq NodeUids
    BY <1>1, <1>3, EnrollmentAssumption DEF TypeOK
  <2> QED
    BY <1>1, <2>1, <2>2, <2>4, <2>7, <2>9, <2>10, <2>11, <2>12, <2>13, HandlerAlone
<1> QED
  BY <1>2, <1>3 DEF Register

-----------------------------------------------------------------------------
(* Steps of an agent and a handler together.                                *)

\* A call: the agent waits for a handler that was free.
LEMMA CallInv ==
    ASSUME EInv, NEW a \in Agents, NEW r \in Requests, Call(a, r)
    PROVE  EInv'
<1> USE DEF EInv
<1> DEFINE g == [IdleHandler EXCEPT !.pc = "start", !.call = agent[a].pc, !.agent = a, !.id = file[a]]
<1>0. /\ agent[a] \in Agent /\ AgentOK(a) /\ handler[r] \in Handler /\ HandlerOK(r)
      /\ faults \in Nat /\ faults <= faults /\ NoRequest \notin Requests /\ NoAgent \notin Agents
      /\ file[a] \in Ids \cup {NoId}
  BY EnrollmentAssumption DEF TypeOK
<1>1. /\ UNCHANGED <<server, tenant, admin, file, torn, nodes, owner, healthy, expired, faults>>
      /\ agent[a].pc \in Calls /\ agent[a].req = NoRequest /\ handler[r].pc = "idle"
      /\ agent' = [agent EXCEPT ![a].req = r] /\ handler' = [handler EXCEPT ![r] = g]
  BY DEF Call, seed, disk, tables
<1>2. PICK p \in Agent :
        /\ agent' = [agent EXCEPT ![a] = p]
        /\ p.req = r /\ p.pc = agent[a].pc /\ p.id = agent[a].id
  <2> DEFINE p == [agent[a] EXCEPT !.req = r]
  <2>1. p \in Agent /\ p.req = r /\ p.pc = agent[a].pc /\ p.id = agent[a].id
    BY <1>0 DEF Agent
  <2>2. agent' = [agent EXCEPT ![a] = p]
    BY <1>1
  <2> HIDE DEF p
  <2> QED
    BY <2>1, <2>2
<1>3. /\ g \in Handler /\ g.pc = "start" /\ g.call = agent[a].pc /\ g.agent = a
      /\ g.id = file[a] /\ ~g.ok
  BY <1>0, <1>1 DEF IdleHandler, Handler
<1> HIDE DEF g
<1>4. /\ agent' \in [Agents -> Agent] /\ agent'[a] = p
      /\ \A b \in Agents \ {a} : agent'[b] = agent[b]
  BY <1>1, <1>2, SetAgent
<1>5. /\ handler' \in [Requests -> Handler] /\ handler'[r] = g
      /\ \A q \in Requests \ {r} : handler'[q] = handler[q]
  BY <1>1, <1>3, SetHandler
<1>6. Grows
  BY <1>1 DEF Grows
\* The thread was free, so nobody waited for it.
<1>7. ASSUME NEW b \in Agents PROVE agent[b].req # r
  <2>1. AgentOK(b)
    OBVIOUS
  <2> QED
    BY <1>0, <1>1, <2>1 DEF AgentOK
<1>8. \A b \in Agents : AgentOK(b)'
  <2>1. AgentOK(a)'
    <3>1. MadeFor(p.id, a)'
      BY <1>0, <1>1, <1>2 DEF AgentOK, MadeFor
    <3>2. MadeFor(file[a], a)'
      BY <1>0, <1>1 DEF AgentOK, MadeFor
    <3> QED
      BY <1>0, <1>1, <1>2, <1>3, <1>4, <1>5, <3>1, <3>2 DEF AgentOK, Calls
  <2>2. ASSUME NEW b \in Agents, b # a PROVE AgentOK(b)'
    <3>1. agent[b].req # NoRequest =>
            agent[b].req \in Requests \ {r} /\ handler[agent[b].req].pc # "idle"
      <4>1. agent[b] \in Agent /\ AgentOK(b)
        BY DEF TypeOK
      <4> QED
        BY <1>7, <4>1 DEF Agent, AgentOK
    <3> QED
      BY <1>1, <1>4, <1>5, <1>6, <2>2, <3>1, AgentStays
  <2> QED
    BY <2>1, <2>2
<1>9. \A q \in Requests : HandlerOK(q)'
  <2>1. HandlerOK(r)'
    <3>1. MadeFor(file[a], a)'
      BY <1>0, <1>1 DEF AgentOK, MadeFor
    <3>2. g.call = "enroll" <=> g.id = NoId
      BY <1>0, <1>1, <1>3 DEF AgentOK, Calls
    <3> QED
      BY <1>1, <1>3, <1>5, <3>1, <3>2 DEF HandlerOK
  <2> QED
    BY <1>5, <1>6, <2>1, HandlerStays
<1>10. TypeOK'
  <2>1. \A b \in Agents : agent'[b].req # NoRequest => handler'[agent'[b].req].agent = b
    BY <1>8 DEF AgentOK
  <2> QED
    BY <1>1, <1>4, <1>5, <2>1 DEF TypeOK
<1>11. HealthyOK' /\ ServerOK'
  BY <1>1, <1>6, HealthyStays DEF ServerOK
<1>12. ASSUME NEW b \in Agents PROVE Counted(b)'
  <2>1. \A q \in Requests : IsStray(q, b)' => IsStray(q, b)
    <3>1. ~IsStray(r, b)'
      BY <1>2, <1>3, <1>4, <1>5 DEF IsStray
    <3>2. ASSUME NEW q \in Requests \ {r}, IsStray(q, b)' PROVE IsStray(q, b)
      <4>1. handler'[q] = handler[q] /\ (b # a => agent'[b] = agent[b])
        BY <1>4, <1>5
      <4>2. b = a => agent[b].req # q
        BY <1>0, <1>1
      <4> QED
        BY <3>2, <4>1, <4>2 DEF IsStray
    <3> QED
      BY <3>1, <3>2
  <2>2. CASE b # a
    <3>1. \A q \in Requests : agent[b].req = q => handler'[q].id = handler[q].id
      BY <1>5, <1>7
    <3> QED
      BY <1>0, <1>1, <1>4, <2>1, <2>2, <3>1, CountStays
  <2>3. CASE b = a
    <3>1. Orphans(b)' \subseteq Orphans(b)
      BY <1>0, <1>1, <1>2, <1>4, <1>5, <2>3 DEF Orphans
    <3>2. Stray(b)' \subseteq Stray(b)
      BY <2>1 DEF Stray
    <3> QED
      BY <1>0, <1>1, <3>1, <3>2, CountGoesOn
  <2> QED
    BY <2>2, <2>3
<1> QED
  BY <1>8, <1>9, <1>10, <1>11, <1>12

\* The end of a call: a success the handler has reached, a refusal it has
\* reached, or a fault.
LEMMA AnswerInv ==
    ASSUME EInv, NEW r \in Requests, handler[r].pc # "idle", NEW ok \in BOOLEAN, Answer(r, ok),
           UNCHANGED <<server, tenant, admin, file, torn, nodes, owner, healthy, expired>>,
           faults' \in 0 .. MaxFaults,
           \/ faults' = faults /\ ok = handler[r].ok
           \/ faults' = faults + 1 /\ ~ok
    PROVE  EInv'
<1> USE DEF EInv
<1> DEFINE h == handler[r]
<1>0. PICK a \in Agents :
      /\ a = h.agent /\ h \in Handler /\ HandlerOK(r) /\ agent[a] \in Agent /\ AgentOK(a)
      /\ NoRequest \notin Requests
      /\ faults \in Nat /\ faults' \in Nat /\ faults <= faults'
      /\ \A i \in DOMAIN owner : i # NoId
  <2>1. h \in Handler /\ HandlerOK(r)
    BY DEF TypeOK
  <2>2. h.agent \in Agents
    BY <2>1 DEF HandlerOK
  <2>3. faults \in Nat /\ faults' \in Nat /\ faults <= faults'
    BY EnrollmentAssumption DEF TypeOK
  <2> QED
    BY <2>1, <2>2, <2>3, EnrollmentAssumption DEF TypeOK, NoId
<1>1. /\ handler' \in [Requests -> Handler] /\ handler'[r] = IdleHandler
      /\ \A q \in Requests \ {r} : handler'[q] = handler[q]
  BY Fresh, SetHandler DEF Answer
<1>2. Grows
  BY DEF Grows
<1>3. \A q \in Requests : HandlerOK(q)'
  <2>1. HandlerOK(r)'
    BY <1>1, Fresh DEF HandlerOK, MadeFor
  <2> QED
    BY <1>1, <1>2, <2>1, HandlerStays
<1>4. HealthyOK' /\ ServerOK'
  BY <1>2, HealthyStays DEF ServerOK
\* An agent that does not wait for r.
<1>5. ASSUME NEW b \in Agents, agent'[b] = agent[b], agent[b].req # r
      PROVE  AgentOK(b)' /\ Counted(b)'
  <2>1. agent[b].req # NoRequest =>
          agent[b].req \in Requests \ {r} /\ handler[agent[b].req].pc # "idle"
    <3>1. agent[b] \in Agent /\ AgentOK(b)
      BY DEF TypeOK
    <3> QED
      BY <1>5, <3>1 DEF Agent, AgentOK
  <2>2. AgentOK(b)'
    BY <1>1, <1>2, <1>5, <2>1, AgentStays
  <2>3. \A q \in Requests : agent[b].req = q => handler'[q].id = handler[q].id
    BY <1>1, <1>5
  <2>4. \A q \in Requests : IsStray(q, b)' => IsStray(q, b)
    BY <1>1, <1>5, Fresh DEF IsStray
  <2>5. Counted(b)'
    BY <1>0, <1>5, <2>3, <2>4, CountStays
  <2> QED
    BY <2>2, <2>5
<1>6. ASSUME agent' \in [Agents -> Agent], \A b \in Agents : AgentOK(b)'
      PROVE  TypeOK'
  <2>1. \A b \in Agents : agent'[b].req # NoRequest => handler'[agent'[b].req].agent = b
    BY <1>6 DEF AgentOK
  <2> QED
    BY <1>1, <1>6, <2>1 DEF TypeOK
<1>7. CASE agent[a].req # r
  <2>1. UNCHANGED agent
    BY <1>0, <1>7 DEF Answer
  <2>2. ASSUME NEW b \in Agents PROVE agent[b].req # r
    <3>1. AgentOK(b)
      OBVIOUS
    <3> HIDE DEF EInv
    <3> QED
      BY <1>0, <1>7, <3>1 DEF AgentOK
  <2>3. agent' \in [Agents -> Agent]
    BY <2>1 DEF TypeOK
  <2> QED
    BY <1>3, <1>4, <1>5, <1>6, <2>1, <2>2, <2>3
<1>8. CASE agent[a].req = r
  <2>1. /\ h.call = agent[a].pc /\ agent[a].pc \in Calls /\ agent[a].id = NoId /\ a \notin torn
        /\ h.id \in Ids \cup {NoId}
    BY <1>0, <1>8 DEF AgentOK, Handler, Calls
  \* What the agent becomes.
  <2>2. PICK p \in Agent :
          /\ agent' = [agent EXCEPT ![a] = p] /\ p.req = NoRequest
          /\ \/ p.pc = "save" /\ p.id = h.id /\ h.call = "enroll" /\ ok
             \/ p.pc = "down" /\ p.id = NoId
             \/ p.pc \in {"beat", "work"} /\ p.id = NoId /\ h.call # "enroll"
          /\ h.call = "enroll" /\ ok => p.id = h.id
    <3> DEFINE After1 == [DownAgent EXCEPT !.pc = "save", !.id = h.id]
               After2 == [DownAgent EXCEPT !.pc = "beat"]
               After3 == [DownAgent EXCEPT !.pc = IF ok THEN "work" ELSE "down"]
    <3>1. agent' = [agent EXCEPT ![a] = After(a, ok, h.id)]
      BY <1>0, <1>8 DEF Answer
    <3>2. /\ After1 \in Agent /\ After1.req = NoRequest /\ After1.pc = "save" /\ After1.id = h.id
          /\ After2 \in Agent /\ After2.req = NoRequest /\ After2.pc = "beat" /\ After2.id = NoId
          /\ After3 \in Agent /\ After3.req = NoRequest /\ After3.id = NoId
          /\ After3.pc \in {"work", "down"}
      BY <2>1 DEF DownAgent, Agent, Calls
    <3>3. /\ agent[a].pc = "enroll" => After(a, ok, h.id) = IF ok THEN After1 ELSE DownAgent
          /\ agent[a].pc = "refresh" => After(a, ok, h.id) = After2
          /\ agent[a].pc = "beat" => After(a, ok, h.id) = After3
      BY DEF After
    <3> HIDE DEF After1, After2, After3
    <3>4. CASE agent[a].pc = "enroll" /\ ok
      BY <2>1, <3>1, <3>2, <3>3, <3>4
    <3>5. CASE agent[a].pc = "enroll" /\ ~ok
      BY <2>1, <3>1, <3>3, <3>5, Fresh
    <3>6. CASE agent[a].pc = "refresh"
      BY <2>1, <3>1, <3>2, <3>3, <3>6
    <3>7. CASE agent[a].pc = "beat"
      BY <2>1, <3>1, <3>2, <3>3, <3>7
    <3> QED
      BY <2>1, <3>4, <3>5, <3>6, <3>7 DEF Calls
  <2>3. /\ agent' \in [Agents -> Agent] /\ agent'[a] = p
        /\ \A b \in Agents \ {a} : agent'[b] = agent[b]
    BY <2>2, SetAgent
  <2>4. ASSUME NEW b \in Agents, b # a PROVE agent[b].req # r
    <3>1. AgentOK(b)
      OBVIOUS
    <3> HIDE DEF EInv
    <3> QED
      BY <1>0, <2>4, <3>1 DEF AgentOK
  <2>5. AgentOK(a)'
    <3> HIDE DEF EInv
    <3>1. MadeFor(p.id, a)' /\ MadeFor(file[a], a)'
      BY <1>0, <2>2 DEF AgentOK, HandlerOK, MadeFor
    <3>2. /\ h.call = "enroll" => file[a] = NoId
          /\ h.call # "enroll" => file[a] # NoId
      BY <1>0, <2>1 DEF AgentOK, Calls
    <3>3. ok /\ h.call = "enroll" => h.id # NoId
      BY <1>0 DEF HandlerOK
    <3> QED
      BY <2>1, <2>2, <2>3, <3>1, <3>2, <3>3 DEF AgentOK, Calls
  <2>6. Counted(a)'
    <3>1. Stray(a)' \subseteq Stray(a)
      <4>1. ASSUME NEW q \in Requests, IsStray(q, a)' PROVE IsStray(q, a)
        <5>1. q # r
          BY <1>1, <4>1, Fresh DEF IsStray
        <5> QED
          BY <1>1, <1>8, <4>1, <5>1 DEF IsStray
      <4> QED
        BY <4>1 DEF Stray
    <3>2. Orphans(a)' \subseteq Orphans(a) \cup {h.id}
      BY <1>0, <1>8, <2>1 DEF Orphans
    <3>3. CASE faults' = faults + 1
      BY <1>0, <3>1, <3>2, <3>3, CountGoesOn
    <3>4. CASE ok = h.ok
      <4>1. h.id \in {NoId, file[a], p.id}
        BY <1>0, <2>2, <3>4 DEF HandlerOK
      <4>2. Orphans(a)' \subseteq Orphans(a)
        BY <1>0, <2>3, <3>2, <4>1 DEF Orphans
      <4> QED
        BY <1>0, <3>1, <4>2, CountGoesOn
    <3> QED
      BY <3>3, <3>4
  <2> QED
    BY <1>3, <1>4, <1>5, <1>6, <2>3, <2>4, <2>5, <2>6
<1> QED
  BY <1>7, <1>8

-----------------------------------------------------------------------------
(* Steps of the server, and time.                                           *)

\* The server starts, or a token expires: agents and their rows are untouched.
LEMMA ServerAlone ==
    ASSUME EInv, UNCHANGED <<agent, file, torn, handler, nodes, owner, healthy, faults>>,
           server' \in {"down", "tenant", "admin", "up"},
           tenant' \in BOOLEAN, admin' \in BOOLEAN, ServerOK',
           expired' \subseteq DOMAIN owner
    PROVE  EInv'
<1> USE DEF EInv
<1>1. Grows /\ faults' \in Nat /\ faults <= faults'
  BY EnrollmentAssumption DEF Grows, TypeOK
<1>2. TypeOK'
  BY DEF TypeOK
<1>3. \A r \in Requests : HandlerOK(r)'
  BY <1>1, HandlerStays
<1>4. ASSUME NEW a \in Agents PROVE AgentOK(a)' /\ Counted(a)'
  <2>1. agent[a].req # NoRequest => handler'[agent[a].req].pc # "idle"
    BY DEF AgentOK
  <2>2. \A r \in Requests : IsStray(r, a)' => IsStray(r, a)
    BY DEF IsStray
  <2> QED
    BY <1>1, <2>1, <2>2, AgentStays, CountStays
<1> QED
  BY <1>1, <1>2, <1>3, <1>4, HealthyStays

\* The two transactions of bootstrap_tenant.
LEMMA BootInv ==
    ASSUME EInv, Boot
    PROVE  EInv'
<1> USE DEF EInv
<1>1. /\ UNCHANGED <<agent, file, torn, handler, nodes, owner, healthy, expired, faults>>
      /\ server' \in {"down", "tenant", "admin", "up"}
      /\ tenant' \in BOOLEAN /\ admin' \in BOOLEAN
  BY DEF Boot, StartServer, CreateTenant, CreateAdmin, seed, disk, tables, TypeOK
<1>2. ServerOK'
  BY DEF Boot, StartServer, CreateTenant, CreateAdmin, seed, ServerOK
<1> QED
  BY <1>1, <1>2, ServerAlone DEF TypeOK

\* A token gets old.
LEMMA ExpireInv ==
    ASSUME EInv, NEW i \in DOMAIN owner, Expire(i)
    PROVE  EInv'
BY ServerAlone DEF EInv, Expire, seed, disk, tables, TypeOK, ServerOK

\* No handler survives a crash; each agent that waited may lose what its handler
\* has made.
LEMMA CrashServerInv ==
    ASSUME EInv, CrashServer
    PROVE  EInv'
<1> USE DEF EInv
<1>1. /\ UNCHANGED <<tenant, admin, file, torn, nodes, owner, healthy, expired>>
      /\ server' = "down" /\ handler' = [r \in Requests |-> IdleHandler] /\ Fault
      /\ agent' = [a \in Agents |-> IF agent[a].req # NoRequest THEN DownAgent ELSE agent[a]]
  BY DEF CrashServer, seed, disk, tables
<1>2. /\ faults \in Nat /\ faults' \in 0 .. MaxFaults /\ faults' \in Nat
      /\ faults' = faults + 1 /\ faults <= faults' /\ NoRequest \notin Requests
      /\ \A i \in DOMAIN owner : i # NoId
  <2>1. faults \in Nat /\ faults \in 0 .. MaxFaults /\ NoRequest \notin Requests
    BY EnrollmentAssumption DEF TypeOK
  <2> QED
    BY <1>1, <2>1, EnrollmentAssumption DEF Fault, TypeOK, NoId
<1>3. /\ \A r \in Requests : handler'[r] = IdleHandler
      /\ \A a \in Agents : agent[a].req # NoRequest => agent'[a] = DownAgent
      /\ \A a \in Agents : agent[a].req = NoRequest => agent'[a] = agent[a]
  BY <1>1
<1>4. Grows /\ HealthyOK' /\ ServerOK'
  <2>1. Grows
    BY <1>1 DEF Grows
  <2> QED
    BY <1>1, <2>1, HealthyStays DEF ServerOK
<1>5. agent' \in [Agents -> Agent] /\ handler' \in [Requests -> Handler]
  BY <1>1, Fresh DEF TypeOK
<1>6. ASSUME NEW a \in Agents PROVE agent'[a].req = NoRequest
  BY <1>3, Fresh
<1>7. ASSUME NEW a \in Agents PROVE AgentOK(a)'
  <2>1. AgentOK(a) /\ agent[a] \in Agent
    BY DEF TypeOK
  <2>2. CASE agent[a].req = NoRequest
    BY <1>1, <1>3, <1>4, <2>2, AgentStays
  <2>3. CASE agent[a].req # NoRequest
    <3>1. MadeFor(NoId, a)' /\ MadeFor(file[a], a)'
      BY <1>1, <2>1 DEF AgentOK, MadeFor
    <3>2. a \notin torn
      BY <2>1, <2>3 DEF AgentOK, Calls
    <3> QED
      BY <1>1, <1>3, <2>3, <3>1, <3>2, Fresh DEF AgentOK, Calls
  <2> QED
    BY <2>2, <2>3
<1>8. \A r \in Requests : HandlerOK(r)'
  BY <1>3, Fresh DEF HandlerOK, MadeFor
<1>9. ASSUME NEW a \in Agents PROVE Counted(a)'
  <2>1. Stray(a)' \subseteq Stray(a)
    BY <1>3, Fresh DEF Stray, IsStray
  <2>2. \E x : Orphans(a)' \subseteq Orphans(a) \cup {x}
    <3>1. AgentOK(a) /\ agent[a] \in Agent
      BY DEF TypeOK
    <3>2. CASE agent[a].req = NoRequest
      <4>1. Orphans(a)' \subseteq Orphans(a)
        BY <1>1, <1>2, <1>3, <3>2 DEF Orphans
      <4> QED
        BY <4>1
    <3>3. CASE agent[a].req # NoRequest
      <4>1. agent[a].id = NoId
        BY <3>1, <3>3 DEF AgentOK, Calls
      <4>2. Orphans(a)' \subseteq Orphans(a) \cup {handler[agent[a].req].id}
        BY <1>1, <1>2, <4>1 DEF Orphans
      <4> QED
        BY <4>2
    <3> QED
      BY <3>2, <3>3
  <2> QED
    BY <1>2, <2>1, <2>2, CountGoesOn
<1>10. TypeOK'
  BY <1>1, <1>2, <1>5, <1>6 DEF TypeOK
<1> QED
  BY <1>4, <1>7, <1>8, <1>9, <1>10

-----------------------------------------------------------------------------
(* The theorems. *)

\* Nothing is there at first.
LEMMA InitInv == Init => EInv
<1> SUFFICES ASSUME Init PROVE EInv
  OBVIOUS
<1> USE DEF Init
<1>1. owner \in Seq(Agents) /\ Len(owner) = 0 /\ DOMAIN owner = {} /\ 0 \in 0 .. MaxFaults
  BY EnrollmentAssumption
<1>2. Len(owner) <= Cardinality(Ids)
  <2>1. \A a \in Agents : {i \in DOMAIN owner : owner[i] = a} \subseteq {} \cup {0}
    BY <1>1
  <2>2. IsFiniteSet({}) /\ Cardinality({}) = 0
    BY FS_EmptySet
  <2>3. 0 \in Nat /\ 0 <= MaxFaults
    BY EnrollmentAssumption
  <2>4. \A a \in Agents : \E T, x :
           /\ IsFiniteSet(T) /\ Cardinality(T) <= 0
           /\ {i \in DOMAIN owner : owner[i] = a} \subseteq T \cup {x}
    BY <2>1, <2>2
  <2> QED
    BY <1>1, <2>3, <2>4, RowsFit
<1>3. TypeOK
  BY <1>1, <1>2, Fresh DEF TypeOK
<1>4. ServerOK /\ HealthyOK
  BY DEF ServerOK, HealthyOK
<1>5. \A a \in Agents : AgentOK(a)
  BY Fresh DEF AgentOK, MadeFor, Calls
<1>6. \A r \in Requests : HandlerOK(r)
  BY Fresh DEF HandlerOK, MadeFor
<1>7. ASSUME NEW a \in Agents PROVE Counted(a)
  <2>1. Orphans(a) = {} /\ Stray(a) = {}
    BY <1>1, Fresh DEF Orphans, Stray, IsStray
  <2>2. Cardinality({}) = 0 /\ faults = 0
    BY FS_EmptySet
  <2> QED
    BY <2>1, <2>2 DEF Counted
<1> QED
  BY <1>3, <1>4, <1>5, <1>6, <1>7 DEF EInv

\* Every step keeps the invariant.
LEMMA StepInv == EInv /\ [Next]_vars => EInv'
<1> SUFFICES ASSUME EInv, [Next]_vars PROVE EInv'
  OBVIOUS
<1>1. CASE Boot
  BY <1>1, BootInv
<1>2. CASE CrashServer
  BY <1>2, CrashServerInv
<1>3. ASSUME NEW a \in Agents, Run(a) PROVE EInv'
  BY <1>3, GoRoundInv, SaveInv, CallInv DEF Run
<1>4. ASSUME NEW a \in Agents, SaveIsCut(a) \/ Fails(a) PROVE EInv'
  BY <1>4, FailsInv
<1>5. ASSUME NEW r \in Requests, Look(r) \/ Register(r) \/ RecordHeartbeat(r) PROVE EInv'
  BY <1>5, LookInv, RegisterInv, RecordHeartbeatInv
<1>6. ASSUME NEW r \in Requests, Respond(r) PROVE EInv'
  <2>1. handler[r].pc # "idle" /\ handler[r].ok \in BOOLEAN /\ faults' \in 0 .. MaxFaults
    BY <1>6 DEF Respond, EInv, TypeOK, Handler
  <2>2. /\ Answer(r, handler[r].ok) /\ faults' = faults
        /\ UNCHANGED <<server, tenant, admin, file, torn, nodes, owner, healthy, expired>>
    BY <1>6 DEF Respond, seed, disk, tables
  <2> QED
    BY <2>1, <2>2, AnswerInv
<1>7. ASSUME NEW r \in Requests, HandlerFails(r) PROVE EInv'
  <2>1. faults' \in 0 .. MaxFaults /\ faults' = faults + 1
    BY <1>7, EnrollmentAssumption DEF HandlerFails, Fault, EInv, TypeOK
  <2>2. /\ Answer(r, FALSE) /\ handler[r].pc # "idle"
        /\ UNCHANGED <<server, tenant, admin, file, torn, nodes, owner, healthy, expired>>
    BY <1>7 DEF HandlerFails, seed, disk, tables
  <2> QED
    BY <2>1, <2>2, AnswerInv
<1>8. ASSUME NEW i \in DOMAIN owner, Expire(i) PROVE EInv'
  BY <1>8, ExpireInv
<1>9. CASE UNCHANGED vars
  BY <1>9, ServerAlone DEF vars, EInv, TypeOK, ServerOK
<1> QED
  BY <1>1, <1>2, <1>3, <1>4, <1>5, <1>6, <1>7, <1>8, <1>9 DEF Next, Serve

\* The invariant holds in every reachable state.
THEOREM EnrollmentInvariance == Spec => []EInv
BY InitInv, StepInv, PTL DEF Spec

\* Every variable holds what its table, file, thread or process can hold, and no
\* process waits for a thread that serves somebody else.  In particular cp_agents
\* never has more than MaxFaults + 1 rows per agent: the bound of the model on
\* its identities is not one a registration could run into.
THEOREM TypeCorrect == Spec => []TypeOK
<1>1. EInv => TypeOK
  BY DEF EInv
<1> QED
  BY <1>1, EnrollmentInvariance, PTL

\* A saved identity is a committed row made for that very agent, and only the
\* saved identity of an agent ever reports.
THEOREM SavedIdentityIsTheOne == Spec => []OneIdentity
<1>1. EInv => OneIdentity
  BY DEF EInv, OneIdentity, AgentOK, MadeFor, HealthyOK
<1> QED
  BY <1>1, EnrollmentInvariance, PTL

\* Each agent leaves at most one row of cp_agents that nobody uses per fault: a
\* fault that ends the registrations of several agents leaves one of each.
THEOREM OrphansAreBounded == Spec => []OrphansNeedFaults
<1>1. ASSUME EInv, NEW a \in Agents PROVE Cardinality(Orphans(a)) <= faults
  <2> DEFINE n == Cardinality(Orphans(a))
             m == Cardinality(Stray(a))
  <2>1. n \in Nat /\ m \in Nat /\ faults \in Nat /\ n + m <= faults
    BY <1>1, Finite DEF EInv, Counted
  <2> HIDE DEF n, m
  <2>2. n <= faults
    BY <2>1
  <2> QED
    BY <2>2 DEF n
<1>2. EInv => OrphansNeedFaults
  BY <1>1 DEF OrphansNeedFaults
<1> QED
  BY <1>2, EnrollmentInvariance, PTL

-----------------------------------------------------------------------------
(* Dead ends. *)

\* A doomed agent that is not let through stays doomed.
LEMMA DoomStays ==
    ASSUME EInv, NEW a \in Agents, Doomed(a),
           torn \subseteq torn', expired \subseteq expired',
           file[a] # NoId => file'[a] = file[a],
           agent'[a].pc # "work",
           \A r \in Requests :
              \/ handler'[r] = handler[r]
              \/ handler'[r].agent # a \/ handler'[r].call # "beat"
              \/ handler'[r].pc = "start"
              \/ handler'[r].pc = "respond" /\ ~handler'[r].ok
    PROVE  Doomed(a)'
<1>1. a \in torn' \/ file'[a] \in expired'
  <2>1. file[a] \in expired => file[a] # NoId
    BY DEF EInv, TypeOK, NoId
  <2> QED
    BY <2>1 DEF Doomed
<1> QED
  BY <1>1 DEF Doomed

\* Nothing an agent does by itself or asks for brings a doomed one to work.
LEMMA AgentStaysDoomed ==
    ASSUME EInv, NEW a \in Agents, Doomed(a), NEW b \in Agents, Run(b) \/ SaveIsCut(b) \/ Fails(b)
    PROVE  Doomed(a)'
<1>1. /\ torn \subseteq torn' /\ UNCHANGED expired
      /\ file[a] # NoId => file'[a] = file[a]
  <2>1. AgentOK(b) /\ AgentOK(a)
    BY DEF EInv
  <2> QED
    BY <2>1 DEF Run, Start, Unreachable, SkipRefresh, Save, Work, Call, SaveIsCut, Fails,
                disk, EInv, TypeOK, AgentOK
<1>2. agent[a] \in Agent /\ agent \in [Agents -> Agent] /\ agent[a].pc # "work"
  BY DEF EInv, TypeOK, Doomed
<1>3. agent'[a].pc # "work"
  <2>1. CASE Start(b) \/ SkipRefresh(b) \/ Work(b)
    BY <1>2, <2>1 DEF Start, SkipRefresh, Work, Agent
  <2>2. CASE Unreachable(b) \/ Save(b) \/ SaveIsCut(b) \/ Fails(b)
    BY <1>2, <2>2 DEF Unreachable, Save, SaveIsCut, Fails, DownAgent
  <2>3. CASE \E r \in Requests : Call(b, r)
    BY <1>2, <2>3 DEF Call, Agent
  <2> QED
    BY <2>1, <2>2, <2>3 DEF Run
<1>4. \A r \in Requests : handler'[r] = handler[r] \/ handler'[r].pc = "start"
  <2>1. CASE \E r \in Requests : Call(b, r)
    <3>1. PICK r \in Requests : Call(b, r)
      BY <2>1
    <3>2. PICK g : handler' = [handler EXCEPT ![r] = g] /\ g.pc = "start"
      <4> DEFINE g == [IdleHandler EXCEPT !.pc = "start", !.call = agent[b].pc, !.agent = b,
                                         !.id = file[b]]
      <4>1. handler' = [handler EXCEPT ![r] = g]
        BY <3>1 DEF Call
      <4>2. g.pc = "start"
        BY DEF IdleHandler
      <4> HIDE DEF g
      <4> QED
        BY <4>1, <4>2
    <3>3. handler \in [Requests -> Handler]
      BY DEF EInv, TypeOK
    <3> QED
      BY <3>2, <3>3
  <2>2. CASE UNCHANGED handler
    BY <2>2
  <2> QED
    BY <2>1, <2>2 DEF Run, Start, Unreachable, SkipRefresh, Save, Work, SaveIsCut, Fails
<1> QED
  BY <1>1, <1>3, <1>4, DoomStays

\* A token that expired is not accepted for a heartbeat, and no agent with a
\* torn file has sent one.
LEMMA ServeStaysDoomed ==
    ASSUME EInv, NEW a \in Agents, Doomed(a), NEW r \in Requests, Look(r) \/ Register(r) \/ RecordHeartbeat(r)
    PROVE  Doomed(a)'
<1> DEFINE h == handler[r]
<1>1. UNCHANGED <<agent, file, torn, expired>>
  BY DEF Look, Register, RecordHeartbeat, disk
<1>2. h \in Handler /\ handler \in [Requests -> Handler] /\ HandlerOK(r) /\ AgentOK(a)
  BY DEF EInv, TypeOK
<1>3. CASE h.agent = a /\ h.call = "beat"
  <2>1. Look(r) /\ h.pc = "start"
    BY <1>3 DEF Doomed, Look, Register, RecordHeartbeat
  <2>2. h.id \in expired
    BY <1>2, <1>3, <2>1 DEF HandlerOK, AgentOK, Doomed
  <2> DEFINE g == [h EXCEPT !.pc = "respond"]
  <2>3. handler' = [handler EXCEPT ![r] = g]
    BY <1>3, <2>1, <2>2 DEF Look
  <2>4. g.pc = "respond" /\ ~g.ok
    BY <1>2, <2>1 DEF HandlerOK, Handler
  <2> HIDE DEF g
  <2>5. \A q \in Requests : handler'[q] = IF q = r THEN g ELSE handler[q]
    BY <1>2, <2>3
  <2> QED
    BY <1>1, <2>4, <2>5, DoomStays DEF Doomed
<1>4. CASE h.agent # a \/ h.call # "beat"
  <2>1. PICK g : handler' = [handler EXCEPT ![r] = g] /\ g.agent = h.agent /\ g.call = h.call
    <3>1. CASE Look(r)
      <4> DEFINE u == UidOf[h.agent] \in nodes
                 g1 == [h EXCEPT !.pc = "commit", !.seen = u]
                 g2 == [h EXCEPT !.pc = "respond"]
                 g3 == [h EXCEPT !.pc = "respond", !.ok = TRUE]
                 g4 == [h EXCEPT !.pc = "commit"]
      <4>1. handler' = [handler EXCEPT ![r] =
              CASE h.call = "enroll" -> g1
                [] h.call # "enroll" /\ h.id \in expired -> g2
                [] h.call = "refresh" /\ h.id \notin expired -> g3
                [] h.call = "beat" /\ h.id \notin expired -> g4]
        BY <3>1 DEF Look
      <4>2. \A g \in {g1, g2, g3, g4} : g.agent = h.agent /\ g.call = h.call
        BY <1>2 DEF Handler
      <4>3. h.call \in {"enroll", "refresh", "beat"}
        BY <1>2 DEF Handler, Calls
      <4> HIDE DEF g1, g2, g3, g4
      <4>4. \E g \in {g1, g2, g3, g4} : handler' = [handler EXCEPT ![r] = g]
        BY <4>1, <4>3
      <4> QED
        BY <4>2, <4>4
    <3>2. CASE Register(r)
      <4> DEFINE g1 == [h EXCEPT !.pc = "respond"]
                 g2 == [h EXCEPT !.pc = "respond", !.ok = TRUE, !.id = Len(owner) + 1]
      <4>1. \E g \in {g1, g2} : handler' = [handler EXCEPT ![r] = g]
        BY <3>2 DEF Register
      <4>2. \A g \in {g1, g2} : g.agent = h.agent /\ g.call = h.call
        BY <1>2 DEF Handler
      <4> QED
        BY <4>1, <4>2
    <3>3. CASE RecordHeartbeat(r)
      <4> DEFINE g == [h EXCEPT !.pc = "respond", !.ok = TRUE]
      <4>1. handler' = [handler EXCEPT ![r] = g]
        BY <3>3 DEF RecordHeartbeat
      <4>2. g.agent = h.agent /\ g.call = h.call
        BY <1>2 DEF Handler
      <4> QED
        BY <4>1, <4>2
    <3> QED
      BY <3>1, <3>2, <3>3
  <2>2. \A q \in Requests : handler'[q] = IF q = r THEN g ELSE handler[q]
    BY <1>2, <2>1
  <2> QED
    BY <1>1, <1>4, <2>1, <2>2, DoomStays DEF Doomed
<1> QED
  BY <1>3, <1>4

\* No answer sends it to work.
LEMMA AnswerStaysDoomed ==
    ASSUME EInv, NEW a \in Agents, Doomed(a), NEW r \in Requests,
           Respond(r) \/ HandlerFails(r)
    PROVE  Doomed(a)'
<1> DEFINE h == handler[r]
<1>1. PICK ok \in BOOLEAN : Answer(r, ok) /\ (ok => h.pc = "respond" /\ h.ok)
  BY DEF Respond, HandlerFails, EInv, TypeOK, Handler
<1>2. /\ UNCHANGED <<file, torn, expired>>
      /\ handler \in [Requests -> Handler] /\ agent \in [Agents -> Agent] /\ AgentOK(a)
  BY DEF Respond, HandlerFails, disk, EInv, TypeOK
<1>3. \A q \in Requests : handler'[q] = handler[q] \/ handler'[q].call # "beat"
  BY <1>1, <1>2, Fresh DEF Answer
<1>4. agent'[a].pc # "work"
  <2>1. CASE h.agent = a /\ agent[a].req = r
    <3>1. agent' = [agent EXCEPT ![a] = After(a, ok, h.id)]
      BY <1>1, <2>1 DEF Answer
    <3>2. h.call = agent[a].pc /\ agent[a].pc \in Calls
      BY <1>2, <2>1, EnrollmentAssumption DEF AgentOK
    <3>3. agent[a].pc = "beat" => ~ok
      BY <1>1, <2>1, <3>2 DEF Doomed
    <3>4. After(a, ok, h.id).pc # "work"
      BY <3>2, <3>3 DEF After, Calls, DownAgent
    <3> QED
      BY <1>2, <3>1, <3>4
  <2>2. CASE h.agent # a \/ agent[a].req # r
    BY <1>1, <1>2, <2>2 DEF Answer, Doomed
  <2> QED
    BY <2>1, <2>2
<1> QED
  BY <1>2, <1>3, <1>4, DoomStays

\* A doomed agent stays doomed.
LEMMA StaysDoomed ==
    ASSUME EInv, [Next]_vars, NEW a \in Agents, Doomed(a)
    PROVE  Doomed(a)'
<1>1. CASE Boot \/ (\E i \in DOMAIN owner : Expire(i)) \/ UNCHANGED vars
  <2>1. UNCHANGED <<agent, file, torn, handler>> /\ expired \subseteq expired'
    BY <1>1 DEF Boot, StartServer, CreateTenant, CreateAdmin, Expire, disk, vars
  <2> QED
    BY <2>1, DoomStays DEF Doomed
<1>2. CASE CrashServer
  <2>1. /\ UNCHANGED <<file, torn, expired>>
        /\ \A r \in Requests : handler'[r].call # "beat"
        /\ agent'[a].pc = "down" \/ agent'[a] = agent[a]
    BY <1>2, Fresh DEF CrashServer, disk
  <2> QED
    BY <2>1, DoomStays DEF Doomed
<1>3. CASE \E b \in Agents : Run(b) \/ SaveIsCut(b) \/ Fails(b)
  BY <1>3, AgentStaysDoomed
<1>4. CASE \E r \in Requests : Look(r) \/ Register(r) \/ RecordHeartbeat(r)
  BY <1>4, ServeStaysDoomed
<1>5. CASE \E r \in Requests : Respond(r) \/ HandlerFails(r)
  BY <1>5, AnswerStaysDoomed
<1> QED
  BY <1>1, <1>2, <1>3, <1>4, <1>5 DEF Next, Serve

\* A server without its administrator starts, finds its tenant, and ends.
LEMMA StaysHalfSeeded ==
    ASSUME EInv, [Next]_vars, HalfSeeded
    PROVE  HalfSeeded' /\ server' # "up"
<1>1. server \in {"down", "tenant"}
  BY DEF EInv, TypeOK, ServerOK, HalfSeeded
<1>2. CASE Boot
  <2>1. CASE StartServer
    BY <2>1 DEF StartServer, seed, HalfSeeded
  <2>2. CASE CreateTenant
    BY <2>2 DEF CreateTenant, HalfSeeded
  <2>3. ~CreateAdmin
    BY <1>1 DEF CreateAdmin
  <2> QED
    BY <1>2, <2>1, <2>2, <2>3 DEF Boot
<1>3. CASE CrashServer
  BY <1>3 DEF CrashServer, seed, HalfSeeded
<1>4. CASE UNCHANGED <<server, tenant, admin>>
  BY <1>1, <1>4 DEF HalfSeeded
<1>5. ASSUME NEW b \in Agents, Run(b) \/ SaveIsCut(b) \/ Fails(b)
      PROVE  UNCHANGED <<server, tenant, admin>>
  BY <1>5 DEF Run, Start, Unreachable, SkipRefresh, Save, Work, Call, SaveIsCut, Fails, seed
<1>6. ASSUME NEW r \in Requests, Serve(r) \/ HandlerFails(r)
      PROVE  UNCHANGED <<server, tenant, admin>>
  BY <1>6 DEF Serve, Look, Register, RecordHeartbeat, Respond, HandlerFails, seed
<1>7. ASSUME NEW i \in DOMAIN owner, Expire(i) PROVE UNCHANGED <<server, tenant, admin>>
  BY <1>7 DEF Expire, seed
<1> QED
  BY <1>2, <1>3, <1>4, <1>5, <1>6, <1>7 DEF Next, vars

\* No restart helps an agent whose token expired or whose file was cut short, nor
\* a server that was cut off between the two transactions of bootstrap_tenant.
THEOREM DeadEndsStay == Spec => DeadEndsAreForever
<1>1. EInv /\ [Next]_vars =>
        [/\ \A a \in Agents : Doomed(a) => Doomed(a)'
         /\ HalfSeeded => HalfSeeded' /\ server' # "up"]_vars
  BY StaysDoomed, StaysHalfSeeded
<1> QED
  BY <1>1, EnrollmentInvariance, PTL DEF Spec, DeadEndsAreForever

=============================================================================
