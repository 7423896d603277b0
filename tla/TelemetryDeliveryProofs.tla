----------------------- MODULE TelemetryDeliveryProofs -----------------------
(***************************************************************************)
(* Proofs about TelemetryDelivery, for any threads, limits and bounds: its *)
(* safety properties, StuckIsForever, and that it implements AtLeastOnce.  *)
(***************************************************************************)
EXTENDS TelemetryDelivery, FiniteSetTheorems, TLAPS

USE DeliveryAssumption DEF DeliveryAssumption

-----------------------------------------------------------------------------
(* Sets of numbers. *)

\* A set of natural numbers has a least one.
LEMMA LeastNumber ==
    ASSUME NEW T \in SUBSET Nat, T # {}
    PROVE  \E x \in T : \A y \in T : x <= y
<1>1. IsWellFoundedOn(OpToRel(<, Nat), Nat)
  BY NatLessThanWellFounded
<1>2. PICK x \in T : \A y \in T : ~ (<<y, x>> \in OpToRel(<, Nat))
  BY <1>1, WFMin
<1>3. \A y \in T : ~ (y < x)
  BY <1>2 DEF OpToRel
<1>. QED
  BY <1>3

\* A bounded one has a greatest: turn it round.
LEMMA GreatestNumber ==
    ASSUME NEW n \in Nat, NEW T \in SUBSET (1 .. n), T # {}
    PROVE  \E x \in T : \A y \in T : y <= x
<1>. DEFINE U == {n - x : x \in T}
<1>1. U \in SUBSET Nat /\ U # {}
  <2>1. \A x \in T : n - x \in Nat
    OBVIOUS
  <2>2. PICK x \in T : TRUE
    OBVIOUS
  <2>3. n - x \in U
    OBVIOUS
  <2>. QED
    BY <2>1, <2>3
<1>2. PICK u \in U : \A v \in U : u <= v
  BY <1>1, LeastNumber
<1>3. PICK x \in T : u = n - x
  BY <1>2
<1>4. ASSUME NEW y \in T PROVE y <= x
  <2>1. n - y \in U /\ x \in Nat /\ y \in Nat
    OBVIOUS
  <2>2. n - x <= n - y
    BY <2>1, <1>2, <1>3
  <2>. QED
    BY <2>1, <2>2
<1>. QED
  BY <1>4

\* Of the members of S with fewer than limit members before them there are at
\* most limit.
LEMMA FirstFew ==
    ASSUME NEW n \in Nat, NEW S \in SUBSET (1 .. n), NEW limit \in Nat
    PROVE  LET F == {b \in S : Cardinality({c \in S : c < b}) < limit}
           IN  IsFiniteSet(F) /\ Cardinality(F) <= limit
<1>. DEFINE F == {b \in S : Cardinality({c \in S : c < b}) < limit}
<1>1. IsFiniteSet(S) /\ IsFiniteSet(F)
  <2>1. IsFiniteSet(1 .. n)
    BY FS_Interval
  <2>2. IsFiniteSet(S)
    BY <2>1, FS_Subset
  <2>3. F \in SUBSET S
    OBVIOUS
  <2>. QED
    BY <2>2, <2>3, FS_Subset
<1>2. CASE F = {}
  <2>1. Cardinality(F) = 0
    BY <1>2, FS_EmptySet
  <2>. QED
    BY <1>1, <2>1
<1>3. CASE F # {}
  <2>1. PICK m \in F : \A b \in F : b <= m
    BY <1>3, GreatestNumber
  <2>2. F \ {m} \subseteq {c \in S : c < m} /\ IsFiniteSet({c \in S : c < m})
    <3>1. \A b \in F : b # m => b < m
      BY <2>1
    <3>2. {c \in S : c < m} \in SUBSET S
      OBVIOUS
    <3>. QED
      BY <1>1, <3>1, <3>2, FS_Subset
  <2>3. Cardinality(F \ {m}) <= Cardinality({c \in S : c < m})
    BY <2>2, FS_Subset
  <2>4. Cardinality(F \ {m}) = Cardinality(F) - 1
    BY <1>1, <2>1, FS_RemoveElement
  <2>5. Cardinality({c \in S : c < m}) < limit /\ Cardinality({c \in S : c < m}) \in Nat
        /\ Cardinality(F) \in Nat
    BY <1>1, <2>1, <2>2, FS_CardinalityType
  <2>. QED
    BY <1>1, <2>3, <2>4, <2>5
<1>. QED
  BY <1>1, <1>2, <1>3
-----------------------------------------------------------------------------
(* The inductive invariant. *)

\* The rows of the spool a round has taken and not yet deleted.
Round(a) == a.rows \cup a.acks \cup (IF a.pc = "flushing" THEN {a.row} ELSE {})

\* The agent a, with the spool sp, when the batches in done are stored and n are
\* collected: the batch it holds outside of a POST of it is stored, so are the
\* rows it will delete.
AgentOK(a, sp, done, n) ==
    /\ a.current \in 0 .. n
    /\ Cardinality(Round(a)) <= Limit
    /\ a.rows \subseteq sp
    /\ a.acks \subseteq done
    /\ a.pc \in {"idle", "down", "send", "sending"} => a.rows = {} /\ a.acks = {}
    /\ a.pc \in {"send", "sending"} => a.current # NoBatch
    /\ a.pc \in {"idle", "down"} => a.current = NoBatch
    /\ a.pc \in {"flush", "flushing", "ack"} => a.current \in done \cup {NoBatch}
    /\ a.pc = "flush" => a.rows # {}
    /\ a.pc = "flushing" => a.row \in sp

\* The thread the agent a waits for runs a handler of the batch it posted.
CallOK(a, hs) ==
    IF a.pc \in {"sending", "flushing"}
    THEN /\ a.req \in Requests
         /\ hs[a.req].pc # "idle"
         /\ hs[a.req].batch = IF a.pc = "sending" THEN a.current ELSE a.row
    ELSE a.req = NoRequest

\* Handlers that have inserted their batch and not committed it.
Working(h) == h.pc \in {"publish", "commit"}

HandlerOK(h) ==
    /\ h.pc # "idle" => h.batch \in 1 .. collected
    /\ h.pc = "start" => h.next = 1
    /\ h.pc = "publish" => h.next <= Events
    /\ h.pc = "commit" => h.next = Events + 1
    /\ Working(h) => /\ h.batch \notin stored
                     /\ \A e \in 1 .. Events : e < h.next => published[h.batch][e] > 0
    /\ h.pc = "respond" /\ h.ok => h.batch \in stored

\* The unique batch_id: one transaction at a time has inserted a batch.
OneWriter ==
    \A q, r \in Requests :
        Working(handler[q]) /\ Working(handler[r]) /\ handler[q].batch = handler[r].batch
            => q = r

\* The transaction that published an event the last time is committed, or under
\* way, or was rolled back; so were all before it.
Accounted(b, e) ==
    \/ published[b][e] <= rollbacks
    \/ b \in stored
    \/ \E r \in Requests :
          Working(handler[r]) /\ handler[r].batch = b /\ e < handler[r].next

PublishedOK ==
    \A b \in Batches, e \in 1 .. Events :
        /\ b \in stored => published[b][e] > 0
        /\ published[b][e] <= 1 + rollbacks
        /\ Accounted(b, e)

HistoryOK == spool \cup stored \cup dropped \subseteq 1 .. collected

DeliveryInv ==
    /\ TypeOK
    /\ AgentOK(agent, spool, stored, collected)
    /\ CallOK(agent, handler)
    /\ \A r \in Requests : HandlerOK(handler[r])
    /\ OneWriter
    /\ PublishedOK
    /\ HistoryOK
    /\ NothingIsLost

-----------------------------------------------------------------------------
(* What the agent may become. *)

\* Nothing it relies on is taken back.
LEMMA AgentKeeps ==
    ASSUME NEW a, NEW sp, NEW sp2, NEW done, NEW done2, NEW n \in Nat, NEW m \in Nat,
           AgentOK(a, sp, done, n), sp \subseteq sp2, done \subseteq done2, n <= m
    PROVE  AgentOK(a, sp2, done2, m)
<1>1. a.current \in 0 .. m
  BY DEF AgentOK
<1>. QED
  BY <1>1 DEF AgentOK, Round

\* An agent with nothing in hand.
LEMMA Idle ==
    ASSUME NEW a, NEW pc \in {"idle", "down"}, a = [IdleAgent EXCEPT !.pc = pc] \/ a = IdleAgent,
           NEW sp, NEW done, NEW n \in Nat, NEW hs
    PROVE  a \in Agent /\ AgentOK(a, sp, done, n) /\ CallOK(a, hs) /\ a.current = NoBatch
<1>1. /\ a.pc \in {"idle", "down"} /\ a.current = NoBatch /\ a.rows = {} /\ a.acks = {}
      /\ a.req = NoRequest
  BY DEF IdleAgent
<1>2. a \in Agent
  BY DEF IdleAgent, Agent
<1>3. Round(a) = {} /\ Cardinality({}) = 0
  BY <1>1, FS_EmptySet DEF Round
<1>4. AgentOK(a, sp, done, n)
  BY <1>1, <1>3 DEF AgentOK, NoBatch
<1>. QED
  BY <1>1, <1>2, <1>4 DEF CallOK

\* fetch_batch returns rows of the spool, at most Limit of them.
LEMMA FirstRowsFact ==
    ASSUME TypeOK
    PROVE  FirstRows \in SUBSET spool /\ FirstRows \in SUBSET Batches /\ Cardinality(FirstRows) <= Limit
<1>1. spool \in SUBSET (1 .. MaxBatches)
  BY DEF TypeOK, Batches
<1>. QED
  BY <1>1, FirstFew DEF FirstRows, Batches

\* The agent begins to flush: its rows are those of fetch_batch.
LEMMA Flush ==
    ASSUME TypeOK, AgentOK(agent, spool, stored, collected),
           agent.pc \in {"idle", "sending"}, agent.pc = "sending" => agent.current \in stored,
           NEW a, a = BeginFlush, NEW hs
    PROVE  /\ a \in Agent /\ AgentOK(a, spool, stored, collected) /\ CallOK(a, hs)
           /\ a.current \in {agent.current, NoBatch}
<1>1. CASE FirstRows = {}
  <2>1. a = IdleAgent /\ collected \in Nat
    BY <1>1 DEF BeginFlush, TypeOK
  <2>. QED
    BY <2>1, Idle
<1>2. CASE FirstRows # {}
  <2>1. a = [agent EXCEPT !.pc = "flush", !.req = NoRequest, !.rows = FirstRows]
    BY <1>2 DEF BeginFlush
  <2>2. agent \in Agent /\ agent.acks = {}
    BY DEF TypeOK, AgentOK
  <2>3. a \in Agent
    BY <2>1, <2>2, FirstRowsFact DEF Agent
  <2>4. /\ a.pc = "flush" /\ a.req = NoRequest /\ a.rows = FirstRows
        /\ a.current = agent.current /\ a.acks = {}
    BY <2>1, <2>2 DEF Agent
  <2>5. Round(a) = FirstRows
    BY <2>4 DEF Round
  <2>6. AgentOK(a, spool, stored, collected)
    BY <1>2, <2>4, <2>5, FirstRowsFact DEF AgentOK
  <2>. QED
    BY <2>3, <2>4, <2>6 DEF CallOK
<1>. QED
  BY <1>1, <1>2

\* A round within the limit stays within it as it loses rows.
LEMMA SmallerRound ==
    ASSUME NEW a \in Agent, NEW c \in Agent, Round(a) \subseteq Round(c),
           Cardinality(Round(c)) <= Limit
    PROVE  Cardinality(Round(a)) <= Limit
<1>1. Round(c) \in SUBSET (0 .. MaxBatches)
  BY DEF Round, Agent, Batches, NoBatch
<1>2. IsFiniteSet(0 .. MaxBatches)
  BY FS_Interval
<1>3. IsFiniteSet(Round(c))
  BY <1>1, <1>2, FS_Subset
<1>4. Cardinality(Round(a)) <= Cardinality(Round(c)) /\ IsFiniteSet(Round(a))
  BY <1>3, FS_Subset
<1>5. Cardinality(Round(a)) \in Nat /\ Cardinality(Round(c)) \in Nat
  BY <1>3, <1>4, FS_CardinalityType
<1>. QED
  BY <1>4, <1>5

\* The answer to a row: acknowledged later if it succeeded, left in the spool if not.
LEMMA RowIsAnswered ==
    ASSUME TypeOK, AgentOK(agent, spool, stored, collected), agent.pc = "flushing",
           NEW ok \in BOOLEAN, ok => agent.row \in stored,
           NEW a, a = RowAnswered(ok), NEW hs
    PROVE  /\ a \in Agent /\ AgentOK(a, spool, stored, collected) /\ CallOK(a, hs)
           /\ a.current = agent.current
<1>1. agent \in Agent /\ agent.row \in Batches
  BY DEF TypeOK, AgentOK
<1>2. PICK acks : acks = IF ok THEN agent.acks \cup {agent.row} ELSE agent.acks
  OBVIOUS
<1>3. acks \in SUBSET Batches /\ acks \subseteq stored /\ acks \subseteq Round(agent)
  BY <1>1, <1>2 DEF Agent, AgentOK, Round
<1>4. PICK pc \in {"ack", "flush"} : pc = IF agent.rows = {} THEN "ack" ELSE "flush"
  OBVIOUS
<1>5. a = [agent EXCEPT !.pc = pc, !.req = NoRequest, !.acks = acks]
  BY <1>2, <1>4 DEF RowAnswered
<1>6. a \in Agent
  BY <1>1, <1>3, <1>5 DEF Agent
<1>7. /\ a.pc = pc /\ a.req = NoRequest /\ a.rows = agent.rows
      /\ a.current = agent.current /\ a.acks = acks
  BY <1>1, <1>5 DEF Agent
<1>8. Cardinality(Round(a)) <= Limit
  <2>1. Round(a) \subseteq Round(agent)
    BY <1>3, <1>4, <1>7 DEF Round
  <2>. QED
    BY <1>1, <1>6, <2>1, SmallerRound DEF AgentOK
<1>9. AgentOK(a, spool, stored, collected)
  BY <1>3, <1>4, <1>7, <1>8 DEF AgentOK
<1>. QED
  BY <1>4, <1>6, <1>7, <1>9 DEF CallOK
-----------------------------------------------------------------------------
(* Steps of the agent. *)

\* The rows to send and those to acknowledge are within the round.
LEMMA InRound ==
    ASSUME NEW a \in Agent, NEW sp, NEW done, NEW n, AgentOK(a, sp, done, n)
    PROVE  Cardinality(a.rows \cup a.acks) <= Limit
<1>1. PICK c : c = [a EXCEPT !.pc = "flush"]
  OBVIOUS
<1>2. c \in Agent /\ c.pc = "flush" /\ c.rows = a.rows /\ c.acks = a.acks
  BY <1>1 DEF Agent
<1>3. Round(c) = a.rows \cup a.acks /\ Round(c) \subseteq Round(a)
  BY <1>2 DEF Round
<1>. QED
  BY <1>2, <1>3, SmallerRound DEF AgentOK

\* A step of the agent alone, or with a handler it starts.
LEMMA AgentStep ==
    ASSUME DeliveryInv, UNCHANGED <<stored, published, rollbacks>>,
           handler' \in [Requests -> Handler],
           \A r \in Requests :
               \/ handler'[r] = handler[r]
               \/ /\ handler'[r].pc = "start" /\ handler'[r].next = 1
                  /\ handler'[r].batch \in 1 .. collected',
           \A r \in Requests : Working(handler[r]) => handler'[r] = handler[r],
           agent' \in Agent, AgentOK(agent', spool', stored', collected'), CallOK(agent', handler'),
           collected' \in collected .. MaxBatches, timeouts' \in 0 .. MaxTimeouts,
           spool' \cup dropped' \subseteq 1 .. collected',
           1 .. collected' \subseteq stored \cup Held' \cup dropped'
    PROVE  DeliveryInv'
<1>1. collected \in 0 .. MaxBatches /\ collected' \in 0 .. MaxBatches
  BY DEF DeliveryInv, TypeOK
<1>2. TypeOK'
  <2>1. Cardinality(agent'.rows \cup agent'.acks) <= Limit
    BY InRound
  <2>2. spool' \subseteq Batches /\ dropped' \subseteq Batches
    BY <1>1 DEF Batches
  <2>. QED
    BY <1>1, <2>1, <2>2 DEF DeliveryInv, TypeOK
<1>3. ASSUME NEW r \in Requests PROVE HandlerOK(handler[r])'
  <2>1. HandlerOK(handler[r])
    BY DEF DeliveryInv
  <2>2. CASE handler'[r] = handler[r]
    BY <1>1, <2>1, <2>2 DEF HandlerOK, Working
  <2>3. CASE handler'[r].pc = "start" /\ handler'[r].next = 1 /\ handler'[r].batch \in 1 .. collected'
    BY <2>3 DEF HandlerOK, Working
  <2>. QED
    BY <2>2, <2>3
<1>4. \A r \in Requests : Working(handler'[r]) => handler'[r] = handler[r]
  BY DEF Working
<1>5. OneWriter'
  BY <1>4 DEF DeliveryInv, OneWriter
<1>6. PublishedOK'
  BY <1>4 DEF DeliveryInv, PublishedOK, Accounted
<1>7. HistoryOK'
  BY <1>1 DEF DeliveryInv, HistoryOK
<1>8. NothingIsLost'
  BY DEF NothingIsLost, Held
<1>. QED
  BY <1>2, <1>3, <1>5, <1>6, <1>7, <1>8 DEF DeliveryInv

\* What is at hand in every step.
LEMMA Facts ==
    ASSUME DeliveryInv
    PROVE  /\ TypeOK /\ agent \in Agent /\ collected \in 0 .. MaxBatches /\ collected \in Nat
           /\ handler \in [Requests -> Handler]
           /\ AgentOK(agent, spool, stored, collected) /\ CallOK(agent, handler)
           /\ spool \subseteq 1 .. collected /\ dropped \subseteq 1 .. collected
           /\ stored \subseteq 1 .. collected
           /\ 1 .. collected \subseteq stored \cup Held \cup dropped
           /\ timeouts \in 0 .. MaxTimeouts /\ rollbacks \in 0 .. MaxRollbacks
<1>1. 1 .. collected \subseteq stored \cup Held \cup dropped
  BY DEF DeliveryInv, TypeOK, NothingIsLost, Held, NoBatch
<1>. QED
  BY <1>1 DEF DeliveryInv, TypeOK, HistoryOK

\* The next batch is collected: the agent holds it.
LEMMA CollectInv ==
    ASSUME DeliveryInv, Collect
    PROVE  DeliveryInv'
<1>1. /\ collected' = collected + 1 /\ collected' \in Batches
      /\ UNCHANGED <<spool, handler, stored, published, dropped, timeouts, rollbacks>>
  BY Facts DEF Collect, Batches
<1>2. agent' = [IdleAgent EXCEPT !.pc = "send", !.current = collected']
  BY <1>1 DEF Collect
<1>3. /\ agent' \in Agent /\ agent'.pc = "send" /\ agent'.current = collected'
      /\ agent'.rows = {} /\ agent'.acks = {} /\ agent'.req = NoRequest
  BY <1>1, <1>2 DEF IdleAgent, Agent
<1>4. AgentOK(agent', spool', stored', collected')
  <2>1. Round(agent') = {} /\ Cardinality({}) = 0
    BY <1>3, FS_EmptySet DEF Round
  <2>. QED
    BY <1>1, <1>3, <2>1 DEF AgentOK, NoBatch, Batches
<1>5. CallOK(agent', handler')
  BY <1>3 DEF CallOK
<1>6. 1 .. collected' \subseteq stored \cup Held' \cup dropped'
  <2>1. agent.current = NoBatch
    BY Facts DEF AgentOK, Collect
  <2>2. 1 .. collected' = (1 .. collected) \cup {collected'}
    BY <1>1, Facts
  <2>3. Held' = Held \cup {collected'}
    BY <1>1, <1>3, <2>1 DEF Held, NoBatch, Batches
  <2>. QED
    BY <1>1, <2>2, <2>3, Facts
<1>7. spool' \cup dropped' \subseteq 1 .. collected'
  BY <1>1, Facts
<1>8. collected' \in collected .. MaxBatches /\ timeouts' \in 0 .. MaxTimeouts
  BY <1>1, Facts DEF Batches
<1>. QED
  BY <1>1, <1>3, <1>4, <1>5, <1>6, <1>7, <1>8, AgentStep, Facts

\* The agent forgets at most a stored batch; it keeps its spool.
LEMMA AgentForgets ==
    ASSUME DeliveryInv,
           UNCHANGED <<handler, stored, published, collected, dropped, rollbacks>>,
           timeouts' \in 0 .. MaxTimeouts,
           agent' \in Agent, AgentOK(agent', spool', stored, collected), CallOK(agent', handler),
           spool' \subseteq 1 .. collected, Held \subseteq Held' \cup stored
    PROVE  DeliveryInv'
BY AgentStep, Facts

\* A round whose batch nobody follows.
LEMMA CollectMoreInv ==
    ASSUME DeliveryInv, CollectMore
    PROVE  DeliveryInv'
<1>1. /\ agent' \in Agent /\ AgentOK(agent', spool, stored, collected) /\ CallOK(agent', handler)
      /\ agent'.current \in {agent.current, NoBatch} /\ agent.current = NoBatch
  BY Facts, Flush DEF CollectMore, AgentOK
<1>2. Held' = Held
  BY <1>1 DEF Held, CollectMore
<1>. QED
  BY <1>1, <1>2, AgentForgets, Facts DEF CollectMore

\* The batch whose POST failed goes into the spool, and the agent is done with it.
LEMMA SpooledCurrent ==
    ASSUME DeliveryInv, SpoolCurrent, NEW hs
    PROVE  /\ agent' \in Agent /\ AgentOK(agent', spool', stored, collected) /\ CallOK(agent', hs)
           /\ agent'.current = NoBatch /\ spool \subseteq spool'
           /\ spool' \subseteq 1 .. collected /\ Held' = Held
<1>1. agent' = IdleAgent /\ spool' = Held
  BY DEF SpoolCurrent, Held
<1>2. /\ agent' \in Agent /\ AgentOK(agent', spool', stored, collected) /\ CallOK(agent', hs)
      /\ agent'.current = NoBatch
  BY <1>1, Idle, Facts
<1>3. Held \subseteq 1 .. collected
  BY Facts DEF Held, AgentOK, NoBatch
<1>. QED
  BY <1>1, <1>2, <1>3 DEF Held

\* The client's timeout: the handler runs on without anyone to answer to.
LEMMA GiveUpInv ==
    ASSUME DeliveryInv, GiveUp
    PROVE  DeliveryInv'
<1>1. SpoolCurrent /\ timeouts' \in 0 .. MaxTimeouts
  BY Facts DEF GiveUp
<1>. QED
  BY <1>1, SpooledCurrent, AgentForgets DEF GiveUp

\* The acknowledged rows are deleted: each of them is stored.
LEMMA AckRowsInv ==
    ASSUME DeliveryInv, AckRows
    PROVE  DeliveryInv'
<1>1. agent' = IdleAgent /\ spool' = spool \ agent.acks
  BY DEF AckRows
<1>2. /\ agent' \in Agent /\ AgentOK(agent', spool', stored, collected) /\ CallOK(agent', handler)
  BY <1>1, Idle, Facts
<1>3. Held \subseteq Held' \cup stored
  BY <1>1, Facts DEF Held, AgentOK, AckRows
<1>. QED
  BY <1>1, <1>2, <1>3, AgentForgets, Facts DEF AckRows

\* The agent starts again, with its spool.
LEMMA RestartInv ==
    ASSUME DeliveryInv, Restart
    PROVE  DeliveryInv'
<1>1. /\ agent' \in Agent /\ AgentOK(agent', spool', stored, collected) /\ CallOK(agent', handler)
      /\ agent'.current = NoBatch /\ agent.current = NoBatch
  BY Idle, Facts DEF Restart, AgentOK
<1>2. Held' = Held
  BY <1>1 DEF Held, Restart
<1>. QED
  BY <1>1, <1>2, AgentForgets, Facts DEF Restart

\* A crash loses the batch in the agent's hands and no other.
LEMMA CrashInv ==
    ASSUME DeliveryInv, Crash
    PROVE  DeliveryInv'
<1>1. /\ agent' \in Agent /\ AgentOK(agent', spool', stored, collected) /\ CallOK(agent', handler)
      /\ agent'.current = NoBatch
  BY Idle, Facts DEF Crash
<1>2. /\ spool' \cup dropped' \subseteq 1 .. collected
      /\ 1 .. collected \subseteq stored \cup Held' \cup dropped'
  BY <1>1, Facts DEF Held, Crash, AgentOK, NoBatch
<1>3. timeouts' \in 0 .. MaxTimeouts /\ collected' \in collected .. MaxBatches
  BY Facts DEF Crash
<1>. QED
  BY <1>1, <1>2, <1>3, AgentStep, Facts DEF Crash

\* The handler a POST starts.
LEMMA PostsStep ==
    ASSUME DeliveryInv, NEW r \in Requests, NEW b \in 1 .. collected, Posts(r, b)
    PROVE  /\ handler' \in [Requests -> Handler]
           /\ handler[r].pc = "idle"
           /\ handler'[r].pc = "start" /\ handler'[r].next = 1 /\ handler'[r].batch = b
           /\ \A q \in Requests \ {r} : handler'[q] = handler[q]
<1>1. PICK h : h = [IdleHandler EXCEPT !.pc = "start", !.batch = b]
  OBVIOUS
<1>2. h \in Handler /\ h.pc = "start" /\ h.next = 1 /\ h.batch = b
  <2>1. b \in Batches /\ 1 \in 1 .. Events + 1
    BY Facts DEF Batches
  <2>2. h = [pc |-> "start", batch |-> b, next |-> 1, ok |-> TRUE]
    BY <1>1 DEF IdleHandler
  <2>. QED
    BY <2>1, <2>2 DEF Handler
<1>3. handler' = [handler EXCEPT ![r] = h] /\ handler[r].pc = "idle"
  BY <1>1 DEF Posts
<1>. QED
  BY <1>2, <1>3, Facts

\* The agent posts a batch on thread r.
LEMMA AgentPosts ==
    ASSUME DeliveryInv, NEW r \in Requests, NEW b \in 1 .. collected, Posts(r, b),
           UNCHANGED <<spool, stored, published, collected, dropped, timeouts, rollbacks>>,
           agent' \in Agent, AgentOK(agent', spool, stored, collected),
           agent'.pc \in {"sending", "flushing"}, agent'.req = r,
           agent'.pc = "sending" => agent'.current = b,
           agent'.pc = "flushing" => agent'.row = b,
           agent'.current = agent.current
    PROVE  DeliveryInv'
<1>1. /\ handler' \in [Requests -> Handler]
      /\ handler[r].pc = "idle"
      /\ handler'[r].pc = "start" /\ handler'[r].next = 1 /\ handler'[r].batch = b
      /\ \A q \in Requests \ {r} : handler'[q] = handler[q]
  BY PostsStep
<1>2. CallOK(agent', handler')
  BY <1>1 DEF CallOK
<1>3. Held' = Held
  BY DEF Held
<1>4. \A q \in Requests : Working(handler[q]) => handler'[q] = handler[q]
  BY <1>1 DEF Working
<1>. QED
  BY <1>1, <1>2, <1>3, <1>4, AgentStep, Facts

\* The batch just collected is posted.
LEMMA SendCurrentInv ==
    ASSUME DeliveryInv, NEW r \in Requests, SendCurrent(r)
    PROVE  DeliveryInv'
<1>1. agent' = [agent EXCEPT !.pc = "sending", !.req = r] /\ agent.pc = "send"
  BY DEF SendCurrent
<1>2. /\ agent' \in Agent /\ agent'.pc = "sending" /\ agent'.req = r
      /\ agent'.current = agent.current /\ agent'.rows = agent.rows /\ agent'.acks = agent.acks
  BY <1>1, Facts DEF Agent
<1>3. AgentOK(agent', spool, stored, collected)
  BY <1>1, <1>2, Facts DEF AgentOK, Round
<1>4. agent.current \in 1 .. collected
  BY <1>1, Facts DEF AgentOK, NoBatch
<1>. QED
  BY <1>2, <1>3, <1>4, AgentPosts DEF SendCurrent

\* The oldest of some rows is one of them.
LEMMA OldestFact ==
    ASSUME NEW rows \in SUBSET Batches, rows # {}
    PROVE  Oldest(rows) \in rows
<1>1. \E b \in rows : \A c \in rows : b <= c
  BY LeastNumber DEF Batches
<1>. QED
  BY <1>1 DEF Oldest

\* The oldest row of the round is posted.
LEMMA SendRowInv ==
    ASSUME DeliveryInv, NEW r \in Requests, SendRow(r)
    PROVE  DeliveryInv'
<1>1. PICK b : b = Oldest(agent.rows)
  OBVIOUS
<1>2. /\ agent' = [agent EXCEPT !.pc = "flushing", !.req = r, !.row = b, !.rows = @ \ {b}]
      /\ agent.pc = "flush" /\ Posts(r, b)
  BY <1>1 DEF SendRow
<1>3. b \in agent.rows /\ agent.rows \subseteq Batches
  BY <1>1, <1>2, Facts, OldestFact DEF AgentOK, Agent
<1>4. /\ agent' \in Agent /\ agent'.pc = "flushing" /\ agent'.req = r /\ agent'.row = b
      /\ agent'.current = agent.current /\ agent'.rows = agent.rows \ {b}
      /\ agent'.acks = agent.acks
  BY <1>2, <1>3, Facts DEF Agent
<1>5. AgentOK(agent', spool, stored, collected)
  <2>1. Round(agent') = Round(agent)
    BY <1>2, <1>3, <1>4 DEF Round
  <2>. QED
    BY <1>2, <1>3, <1>4, <2>1, Facts DEF AgentOK
<1>6. b \in 1 .. collected
  BY <1>3, Facts DEF AgentOK
<1>. QED
  BY <1>2, <1>4, <1>5, <1>6, AgentPosts DEF SendRow

-----------------------------------------------------------------------------
(* Steps of the control plane. *)

\* A handler goes on with its batch; the agent waits, or does not.
LEMMA CallGoesOn ==
    ASSUME DeliveryInv, NEW r \in Requests, NEW h, handler' = [handler EXCEPT ![r] = h],
           handler[r].pc # "idle", h.pc # "idle", h.batch = handler[r].batch
    PROVE  CallOK(agent, handler')
BY Facts DEF CallOK

\* The INSERT goes through only if no other transaction has the batch and none has
\* stored it.
LEMMA InsertInv ==
    ASSUME DeliveryInv, NEW r \in Requests, Insert(r)
    PROVE  DeliveryInv'
<1>1. PICK h : h = IF handler[r].batch \in stored
                   THEN [handler[r] EXCEPT !.pc = "respond", !.ok = FALSE]
                   ELSE [handler[r] EXCEPT !.pc = "publish"]
  OBVIOUS
<1>2. /\ handler' = [handler EXCEPT ![r] = h] /\ handler[r].pc = "start"
      /\ UNCHANGED <<agent, spool, stored, published, collected, dropped, timeouts, rollbacks>>
      /\ \A q \in Requests : handler[q].batch = handler[r].batch => ~Working(handler[q])
  BY <1>1 DEF Insert, Working
<1>3. handler[r] \in Handler /\ HandlerOK(handler[r])
  BY Facts DEF DeliveryInv
<1>4. /\ h \in Handler /\ h.batch = handler[r].batch /\ h.next = 1
      /\ \/ h.pc = "respond" /\ ~h.ok
         \/ h.pc = "publish" /\ h.batch \notin stored
  <2>1. handler[r].next = 1
    BY <1>2, <1>3 DEF HandlerOK
  <2>2. CASE handler[r].batch \in stored
    BY <1>1, <1>3, <2>1, <2>2 DEF Handler
  <2>3. CASE handler[r].batch \notin stored
    BY <1>1, <1>3, <2>1, <2>3 DEF Handler
  <2>. QED
    BY <2>2, <2>3
<1>5. handler' \in [Requests -> Handler] /\ handler'[r] = h
      /\ \A q \in Requests \ {r} : handler'[q] = handler[q]
  BY <1>2, <1>4, Facts
<1>6. TypeOK'
  BY <1>2, <1>5 DEF DeliveryInv, TypeOK
<1>7. CallOK(agent', handler')
  BY <1>2, <1>4, CallGoesOn
<1>8. ASSUME NEW q \in Requests PROVE HandlerOK(handler[q])'
  <2>1. CASE q = r
    BY <1>2, <1>3, <1>4, <1>5, <2>1 DEF HandlerOK, Working
  <2>2. CASE q # r
    BY <1>2, <1>5, <2>2 DEF DeliveryInv, HandlerOK
  <2>. QED
    BY <2>1, <2>2
<1>9. OneWriter'
  BY <1>2, <1>4, <1>5 DEF DeliveryInv, OneWriter
<1>10. PublishedOK'
  <2>1. \A q \in Requests : Working(handler[q]) => handler'[q] = handler[q]
    BY <1>2, <1>5
  <2>. QED
    BY <1>2, <2>1 DEF DeliveryInv, PublishedOK, Accounted
<1>11. AgentOK(agent', spool', stored', collected') /\ HistoryOK' /\ NothingIsLost'
  BY <1>2 DEF DeliveryInv, HistoryOK, NothingIsLost
<1>. QED
  BY <1>6, <1>7, <1>8, <1>9, <1>10, <1>11 DEF DeliveryInv

\* The commit of a batch: all its events have been published.
LEMMA CommitInv ==
    ASSUME DeliveryInv, NEW r \in Requests, Commit(r)
    PROVE  DeliveryInv'
<1>1. PICK h : h = [handler[r] EXCEPT !.pc = "respond"]
  OBVIOUS
<1>2. /\ handler' = [handler EXCEPT ![r] = h] /\ handler[r].pc = "commit"
      /\ stored' = stored \cup {handler[r].batch}
      /\ UNCHANGED <<agent, spool, published, collected, dropped, timeouts, rollbacks>>
  BY <1>1 DEF Commit
<1>3. handler[r] \in Handler /\ HandlerOK(handler[r])
  BY Facts DEF DeliveryInv
<1>4. /\ h \in Handler /\ h.batch = handler[r].batch /\ h.pc = "respond"
      /\ h.batch \in 1 .. collected /\ h.batch \in Batches
      /\ \A e \in 1 .. Events : published[h.batch][e] > 0
  BY <1>1, <1>2, <1>3, Facts DEF Handler, HandlerOK, Working, Batches
<1>5. handler' \in [Requests -> Handler] /\ handler'[r] = h
      /\ \A q \in Requests \ {r} : handler'[q] = handler[q]
  BY <1>2, <1>4, Facts
<1>6. TypeOK'
  BY <1>2, <1>4, <1>5 DEF DeliveryInv, TypeOK
<1>7. CallOK(agent', handler')
  BY <1>2, <1>4, CallGoesOn
<1>8. ASSUME NEW q \in Requests PROVE HandlerOK(handler[q])'
  <2>1. CASE q = r
    BY <1>2, <1>3, <1>4, <1>5, <2>1 DEF HandlerOK, Working
  <2>2. CASE q # r
    <3>1. Working(handler[q]) => handler[q].batch # handler[r].batch
      BY <1>2, <2>2 DEF DeliveryInv, OneWriter, Working
    <3>. QED
      BY <1>2, <1>5, <2>2, <3>1 DEF DeliveryInv, HandlerOK
  <2>. QED
    BY <2>1, <2>2
<1>9. OneWriter'
  BY <1>4, <1>5 DEF DeliveryInv, OneWriter, Working
<1>10. PublishedOK'
  <2>1. \A b \in Batches, e \in 1 .. Events : Accounted(b, e) => Accounted(b, e)'
    BY <1>2, <1>5 DEF Accounted
  <2>. QED
    BY <1>2, <1>4, <2>1 DEF DeliveryInv, PublishedOK
<1>11. AgentOK(agent', spool', stored', collected')
  BY <1>2, AgentKeeps, Facts
<1>12. HistoryOK' /\ NothingIsLost'
  BY <1>2, <1>4 DEF DeliveryInv, HistoryOK, NothingIsLost
<1>. QED
  BY <1>6, <1>7, <1>8, <1>9, <1>10, <1>11, <1>12 DEF DeliveryInv

\* An event is published by the only handler at its batch.
LEMMA PublishEventInv ==
    ASSUME DeliveryInv, NEW r \in Requests, PublishEvent(r)
    PROVE  /\ DeliveryInv'
           /\ \A b \in Batches, e \in 1 .. Events : published[b][e] > 0 => published'[b][e] > 0
           /\ \A b \in Batches, e \in 1 .. Events :
                 b # handler[r].batch => published'[b][e] = published[b][e]
<1>1. PICK b : b = handler[r].batch
  OBVIOUS
<1>2. PICK n : n = handler[r].next
  OBVIOUS
<1>3. PICK h : h = [handler[r] EXCEPT !.next = n + 1,
                                      !.pc = IF n = Events THEN "commit" ELSE "publish"]
  OBVIOUS
<1>4. /\ handler' = [handler EXCEPT ![r] = h] /\ handler[r].pc = "publish"
      /\ UNCHANGED <<agent, spool, stored, collected, dropped, timeouts, rollbacks>>
  BY <1>1, <1>2, <1>3 DEF PublishEvent
<1>5. handler[r] \in Handler /\ HandlerOK(handler[r])
  BY Facts DEF DeliveryInv
<1>6. n \in 1 .. Events /\ b \in 1 .. collected /\ b \in Batches /\ b \notin stored
  BY <1>1, <1>2, <1>4, <1>5, Facts DEF Handler, HandlerOK, Working, Batches
<1>7. /\ h \in Handler /\ h.batch = b /\ h.next = n + 1
      /\ h.pc = IF n = Events THEN "commit" ELSE "publish"
  <2>1. PICK pc \in {"commit", "publish"} : pc = IF n = Events THEN "commit" ELSE "publish"
    OBVIOUS
  <2>2. h = [handler[r] EXCEPT !.next = n + 1, !.pc = pc] /\ n + 1 \in 1 .. Events + 1
    BY <1>3, <1>6, <2>1
  <2>. QED
    BY <1>1, <1>5, <2>1, <2>2 DEF Handler
<1>8. handler' \in [Requests -> Handler] /\ handler'[r] = h
      /\ \A q \in Requests \ {r} : handler'[q] = handler[q]
  BY <1>4, <1>7, Facts
<1>9. PICK k : k = IF published[b][n] < MaxRollbacks + 2 THEN published[b][n] + 1
                                                         ELSE published[b][n]
  OBVIOUS
<1>10. published' = [published EXCEPT ![b][n] = k]
  BY <1>1, <1>2, <1>9 DEF PublishEvent
<1>11. published \in [Batches -> [1 .. Events -> 0 .. MaxRollbacks + 2]]
  BY DEF DeliveryInv, TypeOK
<1>12. published[b][n] \in 0 .. MaxRollbacks + 2
  BY <1>6, <1>11
<1>13. k \in 0 .. MaxRollbacks + 2 /\ k > 0 /\ k <= published[b][n] + 1
  BY <1>9, <1>12
<1>14. /\ published' \in [Batches -> [1 .. Events -> 0 .. MaxRollbacks + 2]]
       /\ published'[b][n] = k
       /\ \A c \in Batches, e \in 1 .. Events :
             c # b \/ e # n => published'[c][e] = published[c][e]
  BY <1>6, <1>10, <1>11, <1>13
<1>15. \A c \in Batches, e \in 1 .. Events : published[c][e] > 0 => published'[c][e] > 0
  BY <1>13, <1>14
<1>16. TypeOK'
  BY <1>4, <1>8, <1>14 DEF DeliveryInv, TypeOK
<1>17. CallOK(agent', handler')
  BY <1>1, <1>4, <1>7, CallGoesOn
<1>18. ASSUME NEW q \in Requests PROVE HandlerOK(handler[q])'
  <2>1. CASE q = r
    <3>1. \A e \in 1 .. Events : e < n + 1 => published'[b][e] > 0
      <4>1. \A e \in 1 .. Events : e < n => published[b][e] > 0
        BY <1>1, <1>2, <1>4, <1>5 DEF HandlerOK, Working
      <4>. QED
        <5>1. ASSUME NEW e \in 1 .. Events, e < n + 1 PROVE published'[b][e] > 0
          <6>1. CASE e = n
            BY <1>13, <1>14, <6>1
          <6>2. CASE e # n
            <7>1. e < n
              BY <1>6, <5>1, <6>2
            <7>. QED
              BY <1>6, <1>14, <4>1, <6>2, <7>1
          <6>. QED
            BY <6>1, <6>2
        <5>. QED
          BY <5>1
    <3>2. h.pc \in {"publish", "commit"} /\ (h.pc = "publish" => h.next <= Events)
          /\ (h.pc = "commit" => h.next = Events + 1)
      BY <1>6, <1>7
    <3>. QED
      BY <1>4, <1>6, <1>7, <1>8, <2>1, <3>1, <3>2 DEF HandlerOK, Working
  <2>2. CASE q # r
    <3>1. HandlerOK(handler[q]) /\ handler'[q] = handler[q]
      BY <1>8, <2>2 DEF DeliveryInv
    <3>2. handler[q].pc # "idle" => handler[q].batch \in Batches
      BY <3>1, Facts DEF HandlerOK, Batches
    <3>. QED
      BY <1>4, <1>15, <3>1, <3>2 DEF HandlerOK, Working
  <2>. QED
    BY <2>1, <2>2
<1>19. OneWriter'
  BY <1>1, <1>4, <1>7, <1>8 DEF DeliveryInv, OneWriter, Working
<1>20. PublishedOK'
  <2>1. ASSUME NEW c \in Batches, NEW e \in 1 .. Events
        PROVE  /\ c \in stored' => published'[c][e] > 0
               /\ published'[c][e] <= 1 + rollbacks'
               /\ Accounted(c, e)'
    <3>1. /\ c \in stored => published[c][e] > 0
          /\ published[c][e] <= 1 + rollbacks
          /\ Accounted(c, e)
      BY DEF DeliveryInv, PublishedOK
    <3>2. CASE c = b /\ e = n
      <4>1. published[c][e] <= rollbacks
        <5>1. ASSUME NEW q \in Requests, Working(handler[q]), handler[q].batch = c
              PROVE  ~(e < handler[q].next)
          <6>1. q = r
            BY <1>1, <1>4, <3>2, <5>1 DEF DeliveryInv, OneWriter, Working
          <6>. QED
            BY <1>2, <1>6, <3>2, <6>1
        <5>. QED
          BY <1>6, <3>1, <3>2, <5>1 DEF Accounted
      <4>2. published'[c][e] <= 1 + rollbacks
        <5>1. rollbacks \in Nat /\ k \in Nat /\ published[b][n] \in Nat
          BY <1>12, <1>13, Facts
        <5>2. k <= 1 + rollbacks
          BY <1>13, <3>2, <4>1, <5>1
        <5>. QED
          BY <1>14, <3>2, <5>2
      <4>3. Accounted(c, e)'
        <5>1. Working(handler'[r]) /\ handler'[r].batch = c /\ e < handler'[r].next
          BY <1>6, <1>7, <1>8, <3>2 DEF Working
        <5>. QED
          BY <5>1 DEF Accounted
      <4>. QED
        BY <1>4, <1>6, <3>2, <4>2, <4>3
    <3>3. CASE c # b \/ e # n
      <4>1. published'[c][e] = published[c][e]
        BY <1>14, <3>3
      <4>2. ASSUME NEW q \in Requests, Working(handler[q]), handler[q].batch = c,
                   e < handler[q].next
            PROVE  Working(handler'[q]) /\ handler'[q].batch = c /\ e < handler'[q].next
        BY <1>1, <1>2, <1>6, <1>7, <1>8, <4>2 DEF Working
      <4>3. Accounted(c, e)'
        BY <1>4, <3>1, <4>1, <4>2 DEF Accounted
      <4>. QED
        BY <1>4, <3>1, <4>1, <4>3
    <3>. QED
      BY <3>2, <3>3
  <2>. QED
    BY <2>1 DEF PublishedOK
<1>21. AgentOK(agent', spool', stored', collected') /\ HistoryOK' /\ NothingIsLost'
  BY <1>4 DEF DeliveryInv, HistoryOK, NothingIsLost
<1>22. DeliveryInv'
  BY <1>16, <1>17, <1>18, <1>19, <1>20, <1>21 DEF DeliveryInv
<1>. QED
  BY <1>1, <1>14, <1>15, <1>22

\* What an answer, or its loss, leaves behind when its handler ends.
LEMMA Delivered ==
    ASSUME DeliveryInv, NEW r \in Requests, NEW ok \in BOOLEAN, handler[r].pc # "idle",
           ok => handler[r].pc = "respond" /\ handler[r].ok,
           Deliver(r, ok), handler' = [handler EXCEPT ![r] = IdleHandler]
    PROVE  /\ agent' \in Agent /\ AgentOK(agent', spool', stored, collected)
           /\ CallOK(agent', handler')
           /\ spool \subseteq spool' /\ spool' \subseteq 1 .. collected
           /\ Held' \subseteq Held /\ Held \subseteq Held' \cup stored
<1>1. ok => handler[r].batch \in stored
  BY DEF DeliveryInv, HandlerOK
<1>2. CASE agent.req # r
  <2>1. UNCHANGED <<agent, spool>>
    BY <1>2 DEF Deliver
  <2>2. CallOK(agent', handler')
    BY <1>2, <2>1, Facts DEF CallOK
  <2>. QED
    BY <2>1, <2>2, Facts DEF Held
<1>3. CASE agent.req = r
  <2>1. /\ agent.pc \in {"sending", "flushing"} /\ Answer(ok)
        /\ handler[r].batch = IF agent.pc = "sending" THEN agent.current ELSE agent.row
    BY <1>3, Facts DEF Deliver, CallOK
  <2>2. CASE agent.pc = "sending" /\ ok /\ agent' = BeginFlush /\ UNCHANGED spool
    <3>1. agent.current \in stored
      BY <1>1, <2>1, <2>2
    <3>2. /\ agent' \in Agent /\ AgentOK(agent', spool, stored, collected)
          /\ CallOK(agent', handler') /\ agent'.current \in {agent.current, NoBatch}
      BY <2>2, <3>1, Flush, Facts
    <3>3. Held' \subseteq Held /\ Held \subseteq Held' \cup stored
      BY <2>2, <3>1, <3>2 DEF Held
    <3>. QED
      BY <2>2, <3>2, <3>3, Facts
  <2>3. CASE agent.pc = "sending" /\ ~ok /\ SpoolCurrent
    BY <2>3, SpooledCurrent
  <2>4. CASE agent.pc = "flushing" /\ agent' = RowAnswered(ok) /\ UNCHANGED spool
    <3>1. ok => agent.row \in stored
      BY <1>1, <2>1, <2>4
    <3>2. /\ agent' \in Agent /\ AgentOK(agent', spool, stored, collected)
          /\ CallOK(agent', handler') /\ agent'.current = agent.current
      BY <2>4, <3>1, RowIsAnswered, Facts
    <3>3. Held' = Held
      BY <2>4, <3>2 DEF Held
    <3>. QED
      BY <2>4, <3>2, <3>3, Facts
  <2>. QED
    BY <2>1, <2>2, <2>3, <2>4 DEF Answer
<1>. QED
  BY <1>2, <1>3

\* A handler ends, after its commit or without: all it owed is accounted for.
LEMMA HandlerEnds ==
    ASSUME DeliveryInv, NEW r \in Requests,
           handler' = [handler EXCEPT ![r] = IdleHandler],
           UNCHANGED <<stored, published, collected, dropped, timeouts>>,
           rollbacks' \in rollbacks .. MaxRollbacks,
           Working(handler[r]) => rollbacks' = rollbacks + 1,
           agent' \in Agent, AgentOK(agent', spool', stored, collected),
           CallOK(agent', handler'),
           spool' \subseteq 1 .. collected, Held \subseteq Held' \cup stored
    PROVE  DeliveryInv'
<1>1. IdleHandler \in Handler /\ IdleHandler.pc = "idle"
  BY DEF IdleHandler, Handler
<1>2. handler' \in [Requests -> Handler] /\ handler'[r].pc = "idle"
      /\ \A q \in Requests \ {r} : handler'[q] = handler[q]
  BY <1>1, Facts
<1>3. TypeOK'
  <2>1. Cardinality(agent'.rows \cup agent'.acks) <= Limit
    BY InRound
  <2>2. spool' \subseteq Batches /\ rollbacks' \in 0 .. MaxRollbacks
    BY Facts DEF Batches
  <2>. QED
    BY <1>2, <2>1, <2>2 DEF DeliveryInv, TypeOK
<1>4. ASSUME NEW q \in Requests PROVE HandlerOK(handler[q])'
  BY <1>2 DEF DeliveryInv, HandlerOK, Working
<1>5. OneWriter'
  BY <1>2 DEF DeliveryInv, OneWriter, Working
<1>6. PublishedOK'
  <2>1. ASSUME NEW b \in Batches, NEW e \in 1 .. Events
        PROVE  published[b][e] <= 1 + rollbacks' /\ Accounted(b, e)'
    <3>1. published[b][e] <= 1 + rollbacks /\ Accounted(b, e)
      BY DEF DeliveryInv, PublishedOK
    <3>2. published[b][e] \in Nat /\ rollbacks \in Nat /\ rollbacks' \in Nat /\ rollbacks <= rollbacks'
      BY Facts DEF TypeOK
    <3>3. CASE published[b][e] <= rollbacks \/ b \in stored
      BY <3>1, <3>2, <3>3 DEF Accounted
    <3>4. ASSUME NEW q \in Requests, Working(handler[q]), handler[q].batch = b,
                 e < handler[q].next
          PROVE  published[b][e] <= 1 + rollbacks' /\ Accounted(b, e)'
      <4>1. CASE q = r
        BY <3>1, <3>2, <3>4, <4>1 DEF Accounted
      <4>2. CASE q # r
        BY <1>2, <3>1, <3>2, <3>4, <4>2 DEF Accounted
      <4>. QED
        BY <4>1, <4>2
    <3>. QED
      BY <3>1, <3>3, <3>4 DEF Accounted
  <2>. QED
    BY <2>1 DEF DeliveryInv, PublishedOK
<1>7. HistoryOK' /\ NothingIsLost'
  BY Facts DEF HistoryOK, NothingIsLost, Held
<1>8. AgentOK(agent', spool', stored', collected')
  OBVIOUS
<1>. QED
  BY <1>3, <1>4, <1>5, <1>6, <1>7, <1>8 DEF DeliveryInv

\* A handler answers, if anyone still waits.
LEMMA RespondInv ==
    ASSUME DeliveryInv, NEW r \in Requests, Respond(r)
    PROVE  DeliveryInv'
<1>1. handler[r].ok \in BOOLEAN /\ handler[r].pc = "respond"
  BY Facts DEF Handler, Respond
<1>2. PICK ok \in BOOLEAN : ok = handler[r].ok
  BY <1>1
<1>3. Deliver(r, ok)
  BY <1>2 DEF Respond
<1>4. rollbacks' \in rollbacks .. MaxRollbacks /\ ~Working(handler[r])
  BY <1>1, Facts DEF Respond, Working
<1>. QED
  BY <1>1, <1>2, <1>3, <1>4, Delivered, HandlerEnds DEF Respond

\* A handler fails, and its transaction, if it had one, is rolled back.
LEMMA HandlerFailsInv ==
    ASSUME DeliveryInv, NEW r \in Requests, HandlerFails(r)
    PROVE  DeliveryInv'
<1>1. rollbacks' = rollbacks + 1 /\ rollbacks' \in rollbacks .. MaxRollbacks
  BY Facts DEF HandlerFails
<1>. QED
  BY <1>1, Delivered, HandlerEnds DEF HandlerFails

-----------------------------------------------------------------------------

\* At first nothing was collected.
LEMMA InitInv ==
    ASSUME Init
    PROVE  DeliveryInv
<1>1. IdleHandler \in Handler /\ IdleHandler.pc = "idle"
  BY DEF IdleHandler, Handler
<1>2. /\ agent \in Agent /\ AgentOK(agent, spool, stored, collected) /\ CallOK(agent, handler)
  BY Idle DEF Init
<1>3. TypeOK
  <2>1. Cardinality(agent.rows \cup agent.acks) <= Limit
    BY <1>2, InRound
  <2>. QED
    BY <1>1, <1>2, <2>1 DEF Init, TypeOK
<1>4. \A r \in Requests : HandlerOK(handler[r]) /\ ~Working(handler[r])
  BY <1>1 DEF Init, HandlerOK, Working
<1>5. OneWriter /\ PublishedOK /\ HistoryOK /\ NothingIsLost
  BY <1>4 DEF Init, OneWriter, PublishedOK, Accounted, HistoryOK, NothingIsLost
<1>. QED
  BY <1>2, <1>3, <1>4, <1>5 DEF DeliveryInv

\* Every step keeps the inductive invariant.
LEMMA NextInv ==
    ASSUME DeliveryInv, [Next]_vars
    PROVE  DeliveryInv'
<1>1. CASE UNCHANGED vars
  BY <1>1 DEF vars, DeliveryInv, TypeOK, HandlerOK, OneWriter, PublishedOK, Accounted,
              HistoryOK, NothingIsLost
<1>2. CASE Run
  BY <1>2, CollectInv, CollectMoreInv, SendCurrentInv, SendRowInv, AckRowsInv, RestartInv
     DEF Run
<1>3. ASSUME NEW r \in Requests, Serve(r) PROVE DeliveryInv'
  BY <1>3, InsertInv, PublishEventInv, CommitInv, RespondInv DEF Serve
<1>. QED
  BY <1>1, <1>2, <1>3, GiveUpInv, CrashInv, HandlerFailsInv DEF Next

\* The inductive invariant holds throughout: whatever times out, answers late,
\* is rolled back or crashes.
THEOREM DeliveryInvariance == Spec => []DeliveryInv
<1>1. Init => DeliveryInv
  BY InitInv
<1>2. DeliveryInv /\ [Next]_vars => DeliveryInv'
  BY NextInv
<1>. QED
  BY <1>1, <1>2, PTL DEF Spec

\* Files, tables, threads and the agent hold what they can hold, and a round of
\* flush_telemetry handles at most Limit rows.
THEOREM TypeCorrect == Spec => []TypeOK
<1>1. DeliveryInv => TypeOK
  BY DEF DeliveryInv
<1>. QED
  BY <1>1, DeliveryInvariance, PTL

\* Agent and ingest route never lose a batch between them: only a crash of the
\* agent does.
THEOREM BatchesAreKept == Spec => []NothingIsLost
<1>1. DeliveryInv => NothingIsLost
  BY DEF DeliveryInv
<1>. QED
  BY <1>1, DeliveryInvariance, PTL

\* ingest_telemetry publishes an event again only after a rollback.
THEOREM RepublishedAfterRollback == Spec => []RepublishNeedsRollback
<1>1. DeliveryInv => RepublishNeedsRollback
  BY DEF DeliveryInv, PublishedOK, RepublishNeedsRollback
<1>. QED
  BY <1>1, DeliveryInvariance, PTL

-----------------------------------------------------------------------------
(* Rows that nothing deletes. *)

\* Once stuck, a row stays so if it stays in the spool, the agent acknowledges
\* no more than it did, and is told of no success it was not told of before.
LEMMA StaysStuck ==
    ASSUME NEW b \in Batches, Stuck(b), stored \subseteq stored', b \in spool',
           b \notin agent'.acks,
           \A r \in Requests :
               handler'[r].batch = b /\ handler'[r].pc = "respond" /\ handler'[r].ok
                  => handler'[r] = handler[r] /\ agent'.req \in {agent.req, NoRequest}
    PROVE  Stuck(b)'
BY DEF Stuck

\* Steps that end a round, or begin one.
LEMMA StuckIdle ==
    ASSUME DeliveryInv, NEW b \in Batches, Stuck(b), UNCHANGED <<handler, stored>>,
           b \in spool', agent'.acks \in {agent.acks, {}}, agent'.req = NoRequest
    PROVE  Stuck(b)'
<1>1. b \notin agent'.acks
  BY DEF Stuck
<1>. QED
  BY <1>1, StaysStuck

\* An agent that begins or ends a round has nothing to acknowledge.
LEMMA AfterIdle ==
    ASSUME NEW a, NEW n,
           \/ a = IdleAgent
           \/ a = [IdleAgent EXCEPT !.pc = "down"]
           \/ a = [IdleAgent EXCEPT !.pc = "send", !.current = n]
    PROVE  a.acks = {} /\ a.req = NoRequest
<1>1. CASE a = IdleAgent
  BY <1>1 DEF IdleAgent
<1>2. CASE a = [IdleAgent EXCEPT !.pc = "down"]
  BY <1>2 DEF IdleAgent
<1>3. CASE a = [IdleAgent EXCEPT !.pc = "send", !.current = n]
  BY <1>3 DEF IdleAgent
<1>. QED
  BY <1>1, <1>2, <1>3

\* Nor has one that begins to flush.
LEMMA AfterBeginFlush ==
    ASSUME agent \in Agent, NEW a, a = BeginFlush
    PROVE  a.acks \in {agent.acks, {}} /\ a.req = NoRequest
<1>1. CASE FirstRows = {}
  <2>1. a = IdleAgent
    BY <1>1 DEF BeginFlush
  <2>. QED
    BY <2>1 DEF IdleAgent
<1>2. CASE FirstRows # {}
  <2>1. a = [agent EXCEPT !.pc = "flush", !.req = NoRequest, !.rows = FirstRows]
    BY <1>2 DEF BeginFlush
  <2>2. a.acks = agent.acks /\ a.req = NoRequest
    BY <2>1 DEF Agent
  <2>. QED
    BY <2>2
<1>. QED
  BY <1>1, <1>2

\* No step of the agent alone lets a stuck row go: it acknowledges only what it was
\* told.
LEMMA StuckAgent ==
    ASSUME DeliveryInv, NEW b \in Batches, Stuck(b),
           Collect \/ CollectMore \/ AckRows \/ Restart \/ GiveUp \/ Crash
    PROVE  Stuck(b)'
<1>1. b \in spool' /\ UNCHANGED <<handler, stored>>
  BY DEF Stuck, Collect, CollectMore, AckRows, Restart, GiveUp, Crash, SpoolCurrent
<1>2. agent'.acks \in {agent.acks, {}} /\ agent'.req = NoRequest
  <2>1. CASE CollectMore
    BY <2>1, Facts, AfterBeginFlush DEF CollectMore
  <2>2. CASE Collect \/ AckRows \/ Restart \/ GiveUp \/ Crash
    <3>1. \/ agent' = IdleAgent
          \/ agent' = [IdleAgent EXCEPT !.pc = "down"]
          \/ agent' = [IdleAgent EXCEPT !.pc = "send", !.current = collected + 1]
      BY <2>2 DEF Collect, AckRows, Restart, GiveUp, Crash, SpoolCurrent
    <3>. QED
      BY <3>1, AfterIdle
  <2>. QED
    BY <2>1, <2>2
<1>. QED
  BY <1>1, <1>2, StuckIdle

\* Posting it again does not.
LEMMA StuckPost ==
    ASSUME DeliveryInv, NEW b \in Batches, Stuck(b), NEW r \in Requests,
           SendCurrent(r) \/ SendRow(r)
    PROVE  Stuck(b)'
<1>1. /\ handler'[r].pc = "start" /\ \A q \in Requests \ {r} : handler'[q] = handler[q]
      /\ UNCHANGED <<spool, stored>>
  <2>1. PICK c : handler' = [handler EXCEPT ![r] = [IdleHandler EXCEPT !.pc = "start", !.batch = c]]
    BY DEF SendCurrent, SendRow, Posts
  <2>. QED
    BY <2>1, Facts DEF SendCurrent, SendRow, IdleHandler
<1>2. agent'.acks = agent.acks /\ agent'.req = r
  BY Facts DEF SendCurrent, SendRow, Agent
<1>. QED
  BY <1>1, <1>2 DEF Stuck

\* The handlers at work do not: a stored batch is not inserted again.
LEMMA StuckWork ==
    ASSUME DeliveryInv, NEW b \in Batches, Stuck(b), NEW r \in Requests,
           Insert(r) \/ PublishEvent(r) \/ Commit(r)
    PROVE  Stuck(b)'
<1>1. handler[r] \in Handler /\ HandlerOK(handler[r])
  BY Facts DEF DeliveryInv
<1>2. /\ \A q \in Requests \ {r} : handler'[q] = handler[q]
      /\ stored \subseteq stored' /\ UNCHANGED <<agent, spool>>
  BY Facts DEF Insert, PublishEvent, Commit
<1>3. ~(handler'[r].batch = b /\ handler'[r].pc = "respond" /\ handler'[r].ok)
  <2>1. CASE Insert(r)
    BY <1>1, <2>1, Facts DEF Insert, Handler
  <2>2. CASE PublishEvent(r)
    BY <1>1, <2>2, Facts DEF PublishEvent, Handler
  <2>3. CASE Commit(r)
    <3>1. handler[r].batch \notin stored /\ handler'[r].batch = handler[r].batch
      BY <1>1, <2>3, Facts DEF Commit, Handler, HandlerOK, Working
    <3>. QED
      BY <3>1 DEF Stuck
  <2>. QED
    BY <2>1, <2>2, <2>3
<1>. QED
  BY <1>2, <1>3, StaysStuck DEF Stuck

\* No answer does: the one that would was not waited for.
LEMMA StuckAnswer ==
    ASSUME DeliveryInv, NEW b \in Batches, Stuck(b), NEW r \in Requests, NEW ok \in BOOLEAN,
           ok => handler[r].pc = "respond" /\ handler[r].ok, handler[r].pc # "idle",
           Deliver(r, ok), handler' = [handler EXCEPT ![r] = IdleHandler], UNCHANGED stored
    PROVE  Stuck(b)'
<1>1. /\ handler'[r].pc = "idle" /\ \A q \in Requests \ {r} : handler'[q] = handler[q]
  BY Facts DEF IdleHandler
<1>2. b \in spool'
  BY Delivered DEF Stuck
<1>3. CASE agent.req # r
  BY <1>1, <1>2, <1>3, StaysStuck DEF Deliver, Stuck
<1>4. CASE agent.req = r
  <2>1. /\ Answer(ok) /\ agent \in Agent
        /\ agent.pc = "flushing" => handler[r].batch = agent.row
    BY <1>4, Facts DEF Deliver, CallOK
  <2>2. b \notin agent'.acks /\ agent'.req = NoRequest
    <3>1. CASE agent.pc = "sending" /\ agent' = BeginFlush
      BY <2>1, <3>1, AfterBeginFlush DEF Stuck
    <3>2. CASE SpoolCurrent
      BY <3>2 DEF SpoolCurrent, IdleAgent
    <3>3. CASE agent.pc = "flushing" /\ agent' = RowAnswered(ok)
      <4>1. agent'.req = NoRequest
            /\ agent'.acks = IF ok THEN agent.acks \cup {agent.row} ELSE agent.acks
        BY <2>1, <3>3 DEF RowAnswered, Agent
      <4>2. ok => agent.row # b
        BY <1>4, <2>1, <3>3 DEF Stuck
      <4>. QED
        BY <4>1, <4>2 DEF Stuck
    <3>. QED
      BY <2>1, <3>1, <3>2, <3>3 DEF Answer
  <2>. QED
    BY <1>1, <1>2, <2>2, StaysStuck
<1>. QED
  BY <1>3, <1>4

\* So no step does.
LEMMA StuckStep ==
    ASSUME DeliveryInv, [Next]_vars, NEW b \in Batches, Stuck(b)
    PROVE  Stuck(b)'
<1>1. CASE UNCHANGED vars
  BY <1>1 DEF vars, Stuck
<1>2. ASSUME NEW r \in Requests, Respond(r) PROVE Stuck(b)'
  <2>1. handler[r].ok \in BOOLEAN
    BY Facts DEF Handler
  <2>. QED
    BY <1>2, <2>1, StuckAnswer DEF Respond
<1>3. ASSUME NEW r \in Requests, HandlerFails(r) PROVE Stuck(b)'
  BY <1>3, StuckAnswer DEF HandlerFails
<1>. QED
  BY <1>1, <1>2, <1>3, StuckAgent, StuckPost, StuckWork DEF Next, Run, Serve

\* The row of a batch that was stored without the agent knowing is never
\* deleted by ack_batches, and ingest_telemetry never accepts it.
THEOREM StuckRowsStay == Spec => StuckIsForever
<1>1. DeliveryInv /\ [Next]_vars => [\A b \in Batches : Stuck(b) => Stuck(b)']_vars
  BY StuckStep
<1>. QED
  BY <1>1, DeliveryInvariance, PTL DEF Spec, StuckIsForever

-----------------------------------------------------------------------------
(* The at-least-once channel. *)

\* What changes nothing but the agent, the spool and the handlers is invisible,
\* or lets go of stored batches.
LEMMA LettingGo ==
    ASSUME DeliveryInv, Held' \subseteq Held, Held \subseteq Held' \cup stored,
           UNCHANGED <<collected, stored, published, dropped>>
    PROVE  [Channel!Next]_Channel!channel
<1>1. Heard' = Heard
  BY DEF Heard
<1>2. CASE Held' = Held
  BY <1>1, <1>2 DEF Channel!channel
<1>3. CASE Held' # Held
  <2>1. Held \subseteq Batches
    BY Facts DEF Held, AgentOK, Batches, NoBatch
  <2>2. PICK some \in SUBSET Batches : some = Held \ Held'
    BY <2>1
  <2>3. Channel!LetGo(some)
    BY <1>1, <2>2 DEF Channel!LetGo
  <2>. QED
    BY <2>3 DEF Channel!Next
<1>. QED
  BY <1>2, <1>3

\* Collecting is sending.
LEMMA ChannelCollect ==
    ASSUME DeliveryInv, Collect
    PROVE  [Channel!Next]_Channel!channel
<1>1. /\ collected' = collected + 1 /\ collected' \in Batches
      /\ agent.current = NoBatch /\ agent'.current = collected'
      /\ UNCHANGED <<spool, stored, published, dropped>>
  BY Facts DEF Collect, Batches, AgentOK, IdleAgent
<1>2. Held' = Held \cup {collected'} /\ Heard' = Heard
  BY <1>1 DEF Held, Heard, NoBatch, Batches
<1>3. 1 .. collected' = (1 .. collected) \cup {collected'} /\ collected' \notin 1 .. collected
  BY <1>1, Facts
<1>4. Channel!Send(collected')
  BY <1>1, <1>2, <1>3 DEF Channel!Send
<1>. QED
  BY <1>1, <1>4 DEF Channel!Next

\* A crash is a loss, or lets go of what is stored.
LEMMA ChannelCrash ==
    ASSUME DeliveryInv, Crash
    PROVE  [Channel!Next]_Channel!channel
<1>1. /\ dropped' = dropped \cup ({agent.current} \ {NoBatch}) /\ agent'.current = NoBatch
      /\ UNCHANGED <<spool, stored, published, collected>>
  BY DEF Crash, IdleAgent
<1>2. Held' = spool /\ Heard' = Heard
  BY <1>1 DEF Held, Heard
<1>3. CASE agent.current = NoBatch
  BY <1>1, <1>2, <1>3 DEF Held, Channel!channel
<1>4. CASE agent.current # NoBatch
  <2>1. agent.current \in Held /\ agent.current \in Batches
    BY <1>4, Facts DEF Held, AgentOK, NoBatch, Batches
  <2>2. Held' \in {Held, Held \ {agent.current}}
    BY <1>2, <1>4 DEF Held
  <2>3. Channel!Crash(agent.current)
    BY <1>1, <1>2, <1>4, <2>1, <2>2 DEF Channel!Crash
  <2>. QED
    BY <2>1, <2>3 DEF Channel!Next
<1>. QED
  BY <1>3, <1>4

\* The publication of the last event is being heard; of any other, nothing.
LEMMA ChannelPublish ==
    ASSUME DeliveryInv, NEW r \in Requests, PublishEvent(r)
    PROVE  [Channel!Next]_Channel!channel
<1>1. PICK b : b = handler[r].batch
  OBVIOUS
<1>2. b \in 1 .. collected /\ b \in Batches
  BY <1>1, Facts DEF DeliveryInv, HandlerOK, PublishEvent, Batches
<1>3. UNCHANGED <<agent, spool, stored, collected, dropped>> /\ Held' = Held
  BY DEF PublishEvent, Held
<1>4. Heard \subseteq Heard' /\ Heard' \subseteq Heard \cup {b}
  BY <1>1, PublishEventInv DEF Heard
<1>5. CASE Heard' = Heard
  BY <1>3, <1>5 DEF Channel!channel
<1>6. CASE Heard' = Heard \cup {b}
  <2>1. Channel!Hear(b)
    BY <1>2, <1>3, <1>6 DEF Channel!Hear
  <2>. QED
    BY <1>2, <2>1 DEF Channel!Next
<1>. QED
  BY <1>4, <1>5, <1>6

\* The commit is the delivery.
LEMMA ChannelCommit ==
    ASSUME DeliveryInv, NEW r \in Requests, Commit(r)
    PROVE  [Channel!Next]_Channel!channel
<1>1. handler[r] \in Handler /\ HandlerOK(handler[r]) /\ handler[r].pc = "commit"
  BY Facts DEF DeliveryInv, Commit
<1>2. handler[r].batch \in Batches /\ handler[r].batch \in Heard
  BY <1>1, Facts DEF Handler, HandlerOK, Working, Batches, Heard
<1>3. UNCHANGED <<agent, spool, published, collected, dropped>> /\ Held' = Held /\ Heard' = Heard
  BY DEF Commit, Held, Heard
<1>4. Channel!Deliver(handler[r].batch)
  BY <1>2, <1>3 DEF Channel!Deliver, Commit
<1>. QED
  BY <1>2, <1>4 DEF Channel!Next

\* The agent's own steps let go of stored batches only.
LEMMA ChannelRun ==
    ASSUME DeliveryInv, CollectMore \/ AckRows \/ Restart \/ GiveUp
    PROVE  [Channel!Next]_Channel!channel
<1>1. UNCHANGED <<collected, stored, published, dropped>>
  BY DEF CollectMore, AckRows, Restart, GiveUp
<1>2. CASE CollectMore
  <2>1. agent'.current = agent.current /\ UNCHANGED spool
    BY <1>2, Facts, Flush DEF CollectMore, AgentOK
  <2>2. Held' = Held
    BY <2>1 DEF Held
  <2>. QED
    BY <1>1, <2>2, LettingGo
<1>3. CASE AckRows
  <2>1. Held' \subseteq Held /\ Held \subseteq Held' \cup stored
    BY <1>3, Facts DEF AckRows, Held, AgentOK, IdleAgent
  <2>. QED
    BY <1>1, <2>1, LettingGo
<1>4. CASE Restart
  <2>1. Held' = Held
    BY <1>4, Facts DEF Restart, Held, AgentOK, IdleAgent
  <2>. QED
    BY <1>1, <2>1, LettingGo
<1>5. CASE GiveUp
  <2>1. Held' = Held
    BY <1>5, SpooledCurrent DEF GiveUp
  <2>. QED
    BY <1>1, <2>1, LettingGo
<1>. QED
  BY <1>2, <1>3, <1>4, <1>5

\* Posting and inserting are nothing to the channel.
LEMMA ChannelSend ==
    ASSUME DeliveryInv, NEW r \in Requests, SendCurrent(r) \/ SendRow(r) \/ Insert(r)
    PROVE  [Channel!Next]_Channel!channel
<1>1. UNCHANGED <<collected, stored, published, dropped, spool>>
  BY DEF SendCurrent, SendRow, Insert
<1>2. agent'.current = agent.current
  BY Facts DEF SendCurrent, SendRow, Insert, Agent
<1>3. Held' = Held
  BY <1>1, <1>2 DEF Held
<1>. QED
  BY <1>1, <1>3, LettingGo

\* So are answers, but that the agent may let go of a stored batch.
LEMMA ChannelAnswer ==
    ASSUME DeliveryInv, NEW r \in Requests, Respond(r) \/ HandlerFails(r)
    PROVE  [Channel!Next]_Channel!channel
<1>1. PICK ok \in BOOLEAN : /\ Deliver(r, ok) /\ handler[r].pc # "idle"
                            /\ ok => handler[r].pc = "respond" /\ handler[r].ok
  <2>1. handler[r].ok \in BOOLEAN
    BY Facts DEF Handler
  <2>. QED
    BY <2>1 DEF Respond, HandlerFails
<1>2. Held' \subseteq Held /\ Held \subseteq Held' \cup stored
  BY <1>1, Delivered DEF Respond, HandlerFails
<1>. QED
  BY <1>2, LettingGo DEF Respond, HandlerFails

\* Every step of the agent and the server is one of the channel, or none.
LEMMA ChannelStep ==
    ASSUME DeliveryInv, [Next]_vars
    PROVE  [Channel!Next]_Channel!channel
<1>1. CASE UNCHANGED vars
  BY <1>1 DEF vars, Channel!channel, Held, Heard
<1>. QED
  BY <1>1, ChannelCollect, ChannelCrash, ChannelPublish, ChannelCommit, ChannelRun,
     ChannelSend, ChannelAnswer DEF Next, Run, Serve

\* Both begin with nothing sent.
LEMMA ChannelInit ==
    ASSUME Init
    PROVE  Channel!Init
<1>1. 1 .. collected = {} /\ Held = {} /\ stored = {} /\ dropped = {}
  BY DEF Init, Held, IdleAgent
<1>2. Heard = {}
  <2>1. 1 \in 1 .. Events
    OBVIOUS
  <2>. QED
    BY <2>1 DEF Init, Heard
<1>. QED
  BY <1>1, <1>2 DEF Channel!Init

\* Spool, posts, answers and transactions implement the channel AtLeastOnce.
THEOREM ImplementsChannel == Spec => DeliversAtLeastOnce
<1>1. Init => Channel!Init
  BY ChannelInit
<1>2. DeliveryInv /\ [Next]_vars => [Channel!Next]_Channel!channel
  BY ChannelStep
<1>. QED
  BY <1>1, <1>2, DeliveryInvariance, PTL DEF Spec, DeliversAtLeastOnce, Channel!Spec

=============================================================================
