------------------------- MODULE StreamWorkerProofs -------------------------
(***************************************************************************)
(* Theorems about StreamWorker, for either bus, every finite set of        *)
(* workers and every bound on messages and faults.                         *)
(*                                                                         *)
(* A worker decides by what it saw when it took a message up and writes    *)
(* it down later, while other workers and the operators go on.  The        *)
(* invariant says what of that is still so when it commits, and bounds     *)
(* what workers that saw nothing may add.                                  *)
(***************************************************************************)
EXTENDS StreamWorker, FunctionTheorems, FiniteSetTheorems, TLAPS

Doing == {"query", "publish", "commit", "ack"}

\* The effect of message m is committed.
Recorded(m) ==
    /\ stream[m] = "hot" => alerts > 0 /\ Active # {}
    /\ stream[m] \in {"edge", "twice"} => edge

\* A worker has a message while it does something for it, has found or made an
\* incident for a hot one, and what it saw is still there.
WorkerOK(w) ==
    LET p == worker[w] IN
    /\ p.pc = "next" => p.todo # {}
    /\ p.pc \in Doing <=> p.message # None
    /\ p.pc = "query" => stream[p.message] = "hot"
    /\ p.pc \in {"publish", "commit"} => (stream[p.message] = "hot" <=> p.incident # None)
    /\ p.pc \notin {"publish", "commit", "ack"} => p.incident = None /\ ~p.new
    /\ p.new => p.incident # None
    /\ p.incident \in 0 .. ids
    /\ p.incident # None /\ ~p.new => p.incident \in Active
    /\ p.message # None /\ p.alert => alerts > 0
    /\ p.message # None /\ p.edge => edge
    /\ p.pc = "commit" /\ p.incident # None => p.incident \in opened
    /\ p.pc = "ack" => Recorded(p.message)

\* Workers that will add an alert, or an incident.
WillAlert(w) ==
    /\ worker[w].pc \in {"query", "publish", "commit"}
    /\ stream[worker[w].message] = "hot" /\ ~worker[w].alert

WillOpen(w) == worker[w].pc \in {"publish", "commit"} /\ worker[w].new

Alerting == {w \in Workers : WillAlert(w)}
Opening == {w \in Workers : WillOpen(w)}

\* No worker adds a second one.
PerWorker ==
    /\ alerts + Cardinality(Alerting) <= Cardinality(Deployed)
    /\ Cardinality(Active) + Cardinality(Opening) <= Cardinality(Deployed)

\* Announced incidents that nobody is about to commit.
IsPhantom(i) ==
    /\ incidents[i] = "none"
    /\ \A w \in Workers : worker[w].pc = "commit" => worker[w].incident # i

Phantoms == {i \in opened : IsPhantom(i)}

\* The SQLite bus does not remember what it handed out.
HandedOut == bus = "sqlite" => delivered = {}

SInv ==
    /\ TypeOK
    /\ HandedOut
    /\ \A w \in Workers : WorkerOK(w)
    /\ \A m \in acked : Recorded(m)
    /\ Active \subseteq opened
    /\ Cardinality(Phantoms) <= faults
    /\ PerWorker

-----------------------------------------------------------------------------
(* Numbers and finite sets. *)

\* A set of numbers has a least one: else to go down by one would map what is
\* above a member of the set, up to some member b, into itself without b.
LEMMA Least ==
    ASSUME NEW S, S \subseteq Nat, S # {}
    PROVE  \E m \in S : \A k \in S : m <= k
<1> SUFFICES ASSUME \A m \in S : \E k \in S : k < m PROVE FALSE
  OBVIOUS
<1>1. PICK b \in S : TRUE
  OBVIOUS
<1> DEFINE B == {i \in 0 .. b : \E k \in S : k <= i}
           f == [i \in B |-> i - 1]
           n == Cardinality(B)
           m == Cardinality(B \ {b})
<1>2. b \in B /\ b \in Nat
  OBVIOUS
<1>3. IsFiniteSet(B)
  <2>1. IsFiniteSet(0 .. b) /\ B \in SUBSET (0 .. b)
    BY <1>2, FS_Interval
  <2> QED
    BY <2>1, FS_Subset
<1>4. f \in [B -> B \ {b}]
  <2> SUFFICES ASSUME NEW i \in B PROVE i - 1 \in B \ {b}
    OBVIOUS
  <2>1. PICK k \in S : k <= i
    OBVIOUS
  <2>2. PICK l \in S : l < k
    OBVIOUS
  <2>3. l \in Nat /\ k \in Nat /\ i \in 0 .. b /\ l <= i - 1
    BY <2>1, <2>2
  <2> QED
    BY <1>2, <2>2, <2>3
<1>5. \A i, j \in B : f[i] = f[j] => i = j
  OBVIOUS
<1>6. n \in Nat /\ m = n - 1 /\ IsFiniteSet(B \ {b})
  BY <1>2, <1>3, FS_RemoveElement, FS_CardinalityType
<1>7. n <= m
  <2>1. f \in Injection(B, B \ {b})
    <3> HIDE DEF f, B
    <3> QED
      BY <1>4, <1>5, Fun_IsInj
  <2> HIDE DEF f, B
  <2> QED
    BY <1>3, <1>6, <2>1, FS_Injection
<1> HIDE DEF n, m
<1> QED
  BY <1>6, <1>7

\* A consume call that finds something gets something.
LEMMA FirstOfFact ==
    ASSUME NEW S, S \subseteq Nat, S # {}
    PROVE  FirstOf(S, Count) \subseteq S /\ FirstOf(S, Count) # {}
<1>1. PICK m \in S : \A k \in S : m <= k
  BY Least
<1>2. {k \in S : k < m} = {}
  <2>1. ASSUME NEW k \in S, k < m PROVE FALSE
    BY <1>1, <2>1
  <2> QED
    BY <2>1
<1>3. Cardinality({}) = 0 /\ 0 < Count
  BY FS_EmptySet, WorkerAssumption
<1>4. m \in FirstOf(S, Count)
  BY <1>2, <1>3 DEF FirstOf
<1> QED
  BY <1>4 DEF FirstOf

\* The size of a finite set and of one that has few elements more or less.
LEMMA Counting ==
    ASSUME NEW S, IsFiniteSet(S), NEW T, NEW x
    PROVE  /\ Cardinality(S) \in Nat
           /\ T \subseteq S => Cardinality(T) \in Nat /\ Cardinality(T) <= Cardinality(S)
           /\ T \subseteq S \cup {x} => Cardinality(T) \in Nat /\ Cardinality(T) <= Cardinality(S) + 1
           /\ x \in S /\ T \subseteq S \ {x} =>
                Cardinality(T) \in Nat /\ Cardinality(T) + 1 <= Cardinality(S)
<1> DEFINE n == Cardinality(S)
<1>1. n \in Nat
  BY FS_CardinalityType
<1>2. ASSUME T \subseteq S PROVE Cardinality(T) \in Nat /\ Cardinality(T) <= n
  BY <1>2, FS_Subset, FS_CardinalityType
<1>3. ASSUME T \subseteq S \cup {x} PROVE Cardinality(T) \in Nat /\ Cardinality(T) <= n + 1
  <2> DEFINE more == S \cup {x}
             m == Cardinality(more)
  <2>1. IsFiniteSet(more) /\ m = IF x \in S THEN n ELSE n + 1
    BY FS_AddElement
  <2>2. Cardinality(T) \in Nat /\ Cardinality(T) <= m
    BY <1>3, <2>1, FS_Subset, FS_CardinalityType
  <2> HIDE DEF m, n
  <2> QED
    BY <1>1, <2>1, <2>2
<1>4. ASSUME x \in S, T \subseteq S \ {x} PROVE Cardinality(T) \in Nat /\ Cardinality(T) + 1 <= n
  <2> DEFINE fewer == S \ {x}
             m == Cardinality(fewer)
  <2>1. IsFiniteSet(fewer) /\ m = n - 1
    BY <1>4, FS_RemoveElement
  <2>2. Cardinality(T) \in Nat /\ Cardinality(T) <= m
    BY <1>4, <2>1, FS_Subset, FS_CardinalityType
  <2> HIDE DEF m, n
  <2> QED
    BY <1>1, <2>1, <2>2
<1> QED
  BY <1>1, <1>2, <1>3, <1>4

\* Constants and sets that are counted.
LEMMA Finite ==
    ASSUME TypeOK
    PROVE  /\ IsFiniteSet(Active) /\ IsFiniteSet(Alerting) /\ IsFiniteSet(Opening)
           /\ IsFiniteSet(Deployed) /\ IsFiniteSet(Phantoms)
           /\ MaxIds \in Nat /\ MaxFaults \in Nat /\ MaxMessages \in Nat
           /\ Cardinality(Workers) \in Nat
           /\ alerts \in Nat /\ faults \in Nat /\ ids \in Nat /\ ids <= MaxIds
<1>1. MaxIds \in Nat /\ MaxFaults \in Nat /\ MaxMessages \in Nat /\ Cardinality(Workers) \in Nat
  BY WorkerAssumption, FS_CardinalityType DEF MaxIds
<1>2. alerts \in Nat /\ faults \in Nat /\ ids \in Nat /\ ids <= MaxIds
  <2>1. alerts \in 0 .. Cardinality(Workers) /\ faults \in 0 .. MaxFaults /\ ids \in 0 .. MaxIds
    BY DEF TypeOK
  <2> QED
    BY <1>1, <2>1
<1>3. IsFiniteSet(Active)
  <2>1. IsFiniteSet(Ids) /\ Active \in SUBSET Ids
    BY <1>1, FS_Interval DEF Ids, Active
  <2> QED
    BY <2>1, FS_Subset
<1>4. IsFiniteSet(Phantoms)
  <2>1. IsFiniteSet(1 .. ids)
    BY <1>2, FS_Interval
  <2>2. Phantoms \in SUBSET (1 .. ids)
    BY DEF TypeOK, Phantoms
  <2> QED
    BY <2>1, <2>2, FS_Subset
<1>5. IsFiniteSet(Alerting) /\ IsFiniteSet(Opening) /\ IsFiniteSet(Deployed)
  <2>1. Alerting \in SUBSET Workers /\ Opening \in SUBSET Workers /\ Deployed \in SUBSET Workers
    BY DEF Alerting, Opening, Deployed
  <2> QED
    BY <2>1, WorkerAssumption, FS_Subset
<1> QED
  BY <1>1, <1>2, <1>3, <1>4, <1>5

-----------------------------------------------------------------------------
(* What a step leaves as it is. *)

\* What no step takes back.
Grows ==
    /\ alerts \in Nat /\ alerts' \in Nat /\ alerts <= alerts'
    /\ ids \in Nat /\ ids' \in Nat /\ ids <= ids'
    /\ Active \subseteq Active'
    /\ edge => edge'
    /\ opened \subseteq opened'
    /\ \A m \in 1 .. Len(stream) : stream'[m] = stream[m]

\* What is recorded stays recorded.
LEMMA RecordedStays ==
    ASSUME Grows, NEW m \in 1 .. Len(stream), Recorded(m)
    PROVE  Recorded(m)'
BY DEF Grows, Recorded

\* The message of a worker is on the stream.
LEMMA OnStream ==
    ASSUME TypeOK, NEW w \in Workers
    PROVE  /\ worker[w] \in Worker
           /\ worker[w].message # None => worker[w].message \in 1 .. Len(stream)
           /\ worker[w].todo \subseteq 1 .. Len(stream)
BY DEF TypeOK

\* A worker that does not move.
LEMMA WorkerStays ==
    ASSUME SInv, Grows, NEW w \in Workers, worker'[w] = worker[w]
    PROVE  WorkerOK(w)'
<1>1. /\ WorkerOK(w) /\ worker[w] \in Worker
      /\ worker[w].message # None => worker[w].message \in 1 .. Len(stream)
  BY OnStream DEF SInv
<1>2. worker[w].message # None => stream'[worker[w].message] = stream[worker[w].message]
  BY <1>1 DEF Grows
<1>3. worker[w].incident \in 0 .. ids'
  BY <1>1 DEF WorkerOK, Grows
<1>4. worker[w].pc = "ack" => Recorded(worker[w].message)'
  <2> SUFFICES ASSUME worker[w].pc = "ack" PROVE Recorded(worker[w].message)'
    OBVIOUS
  <2>1. Recorded(worker[w].message) /\ worker[w].message \in 1 .. Len(stream)
    BY <1>1 DEF WorkerOK, Doing
  <2>2. \A m \in 1 .. Len(stream) : Recorded(m) => Recorded(m)'
    BY RecordedStays
  <2>3. PICK m \in 1 .. Len(stream) : m = worker[w].message
    BY <2>1
  <2>4. Recorded(m)'
    BY <2>1, <2>2, <2>3
  <2> QED
    BY <2>3, <2>4
<1> QED
  BY <1>1, <1>2, <1>3, <1>4 DEF WorkerOK, Grows, Doing

\* One worker moves.
LEMMA SetWorker ==
    ASSUME TypeOK, NEW w \in Workers, NEW p \in Worker, worker' = [worker EXCEPT ![w] = p]
    PROVE  /\ worker' \in [Workers -> Worker] /\ worker'[w] = p
           /\ \A v \in Workers \ {w} : worker'[v] = worker[v]
           /\ (p.pc = "absent" <=> worker[w].pc = "absent") => Deployed' = Deployed
BY DEF TypeOK, Deployed

\* The counts go on: nobody new will add an alert; nobody has, and any deployed
\* worker may; one does and will not again.  Likewise for incidents.
AlertsGoOn ==
    \/ alerts' = alerts /\ Alerting' \subseteq Alerting
    \/ alerts' = 0 /\ Alerting' \subseteq Deployed
    \/ /\ alerts' = alerts + 1
       /\ \E w \in Alerting : Alerting' \subseteq Alerting \ {w}

IncidentsGoOn ==
    \/ Active' \subseteq Active /\ Opening' \subseteq Opening
    \/ Active' = {} /\ Opening' \subseteq Deployed
    \/ /\ \E i : Active' \subseteq Active \cup {i}
       /\ \E w \in Opening : Opening' \subseteq Opening \ {w}

\* A step that goes on in these two ways keeps the alerts and the open incidents,
\* with the workers about to add one, within what the deployed workers may add.
LEMMA PerWorkerGoesOn ==
    ASSUME SInv, Deployed' = Deployed, AlertsGoOn, IncidentsGoOn
    PROVE  PerWorker'
<1> DEFINE A == Alerting
           A2 == Alerting'
           O == Opening
           O2 == Opening'
           C == Active
           C2 == Active'
           n == alerts
           n2 == alerts'
           d == Cardinality(Deployed)
<1>1. /\ IsFiniteSet(A) /\ IsFiniteSet(O) /\ IsFiniteSet(C) /\ IsFiniteSet(Deployed)
      /\ n \in Nat /\ d \in Nat
  BY Finite, FS_CardinalityType DEF SInv
<1>2. /\ n + Cardinality(A) <= d
      /\ Cardinality(C) + Cardinality(O) <= d
  BY DEF SInv, PerWorker
<1>3. PerWorker' <=> n2 + Cardinality(A2) <= d /\ Cardinality(C2) + Cardinality(O2) <= d
  BY DEF PerWorker
<1>4. Cardinality(A) \in Nat /\ Cardinality(C) \in Nat /\ Cardinality(O) \in Nat
  BY <1>1, FS_CardinalityType
<1>5. n2 + Cardinality(A2) <= d
  <2>1. CASE n2 = n /\ A2 \subseteq A
    <3> HIDE DEF A, A2, n, n2, d
    <3>1. Cardinality(A2) \in Nat /\ Cardinality(A2) <= Cardinality(A)
      BY <1>1, <2>1, Counting
    <3> QED
      BY <1>1, <1>2, <1>4, <2>1, <3>1
  <2>2. CASE n2 = 0 /\ A2 \subseteq Deployed
    <3>1. Cardinality(A2) \in Nat /\ Cardinality(A2) <= d
      BY <1>1, <2>2, Counting
    <3> HIDE DEF A, A2, n, n2, d
    <3> QED
      BY <2>2, <3>1
  <2>3. CASE n2 = n + 1 /\ \E w \in A : A2 \subseteq A \ {w}
    <3> HIDE DEF A, A2, n, n2, d
    <3>1. Cardinality(A2) \in Nat /\ Cardinality(A2) + 1 <= Cardinality(A)
      BY <1>1, <2>3, Counting
    <3> QED
      BY <1>1, <1>2, <1>4, <2>3, <3>1
  <2> QED
    BY <2>1, <2>2, <2>3 DEF AlertsGoOn
<1>6. Cardinality(C2) + Cardinality(O2) <= d
  <2>1. CASE C2 \subseteq C /\ O2 \subseteq O
    <3> HIDE DEF C, C2, O, O2, d
    <3>1. Cardinality(C2) \in Nat /\ Cardinality(C2) <= Cardinality(C)
      BY <1>1, <2>1, Counting
    <3>2. Cardinality(O2) \in Nat /\ Cardinality(O2) <= Cardinality(O)
      BY <1>1, <2>1, Counting
    <3> QED
      BY <1>1, <1>2, <1>4, <3>1, <3>2
  <2>2. CASE C2 = {} /\ O2 \subseteq Deployed
    <3>1. Cardinality(O2) \in Nat /\ Cardinality(O2) <= d
      BY <1>1, <2>2, Counting
    <3>2. Cardinality(C2) = 0
      BY <2>2, FS_EmptySet
    <3> HIDE DEF C, C2, O, O2, d
    <3> QED
      BY <3>1, <3>2
  <2>3. CASE /\ \E i : C2 \subseteq C \cup {i}
             /\ \E w \in O : O2 \subseteq O \ {w}
    <3> HIDE DEF C, C2, O, O2, d
    <3>1. Cardinality(C2) \in Nat /\ Cardinality(C2) <= Cardinality(C) + 1
      BY <1>1, <2>3, Counting
    <3>2. Cardinality(O2) \in Nat /\ Cardinality(O2) + 1 <= Cardinality(O)
      BY <1>1, <2>3, Counting
    <3> QED
      BY <1>1, <1>2, <1>4, <3>1, <3>2
  <2> QED
    BY <2>1, <2>2, <2>3 DEF IncidentsGoOn
<1> QED
  BY <1>3, <1>5, <1>6

\* Phantoms: none is new, or a fault pays for one.
LEMMA PhantomsGoOn ==
    ASSUME SInv, faults' \in Nat, faults <= faults', NEW x,
           \/ Phantoms' \subseteq Phantoms
           \/ Phantoms' \subseteq Phantoms \cup {x} /\ faults' = faults + 1
    PROVE  Cardinality(Phantoms') <= faults'
<1> DEFINE P == Phantoms
           P2 == Phantoms'
           c == Cardinality(P)
<1>1. IsFiniteSet(P) /\ faults \in Nat /\ c \in Nat /\ c <= faults
  BY Finite, FS_CardinalityType DEF SInv
<1> HIDE DEF P, P2
<1>2. P2 \subseteq P => Cardinality(P2) \in Nat /\ Cardinality(P2) <= c
  BY <1>1, Counting
<1>3. P2 \subseteq P \cup {x} => Cardinality(P2) \in Nat /\ Cardinality(P2) <= c + 1
  BY <1>1, Counting
<1>4. Cardinality(P2) <= faults'
  <2> HIDE DEF c
  <2>1. CASE P2 \subseteq P
    BY <1>1, <1>2, <2>1
  <2>2. CASE P2 \subseteq P \cup {x} /\ faults' = faults + 1
    BY <1>1, <1>3, <2>2
  <2> QED
    BY <2>1, <2>2 DEF P, P2
<1> QED
  BY <1>4 DEF P2

-----------------------------------------------------------------------------
(* Steps of one worker.                                                     *)

\* The acknowledgements that were there.
LEMMA AckedStays ==
    ASSUME SInv, Grows
    PROVE  \A m \in acked : Recorded(m)'
<1>1. acked \subseteq 1 .. Len(stream) /\ \A m \in acked : Recorded(m)
  BY DEF SInv, TypeOK
<1> QED
  BY <1>1, RecordedStays

\* One worker moves and leaves behind what is right.
LEMMA WorkerAlone ==
    ASSUME SInv, Grows, NEW w \in Workers, NEW p \in Worker,
           worker' = [worker EXCEPT ![w] = p],
           p.pc = "absent" <=> worker[w].pc = "absent",
           p.todo \cup ({p.message} \ {None}) \subseteq 1 .. Len(stream),
           UNCHANGED <<bus, stream, audited>>,
           acked' \subseteq 1 .. Len(stream), delivered' \subseteq 1 .. Len(stream), HandedOut',
           incidents' \in [Ids -> {"none", "open", "acknowledged"}], edge' \in BOOLEAN,
           opened' \subseteq 1 .. ids', ids' \in 0 .. MaxIds, faults' \in 0 .. MaxFaults,
           Active' \subseteq opened', Cardinality(Phantoms') <= faults',
           \A m \in acked' : Recorded(m)',
           AlertsGoOn, IncidentsGoOn, WorkerOK(w)'
    PROVE  SInv'
<1> USE DEF SInv
<1>1. /\ worker' \in [Workers -> Worker] /\ worker'[w] = p
      /\ \A v \in Workers \ {w} : worker'[v] = worker[v]
      /\ Deployed' = Deployed
  BY SetWorker
<1>2. PerWorker'
  BY <1>1, PerWorkerGoesOn
<1>3. alerts' \in 0 .. Cardinality(Workers)
  <2> DEFINE d == Cardinality(Deployed)
             e == Cardinality(Alerting')
             n == Cardinality(Workers)
  <2>1. alerts' + e <= d
    BY <1>1, <1>2 DEF PerWorker
  <2>2. d \in Nat /\ d <= n /\ n \in Nat
    <3>1. Deployed \subseteq Workers
      BY DEF Deployed
    <3> QED
      BY <3>1, WorkerAssumption, Counting
  <2>3. e \in Nat
    <3>1. Alerting' \subseteq Workers
      BY DEF Alerting
    <3> QED
      BY <3>1, WorkerAssumption, Counting
  <2>4. alerts' \in Nat
    BY DEF Grows
  <2> HIDE DEF d, e, n, SInv
  <2>5. \A k \in Nat : k + e <= d => k \in 0 .. n
    BY <2>2, <2>3
  <2>6. alerts' \in 0 .. n
    BY <2>1, <2>4, <2>5
  <2> QED
    BY <2>6 DEF n
<1>4. TypeOK'
  <2>1. ASSUME NEW v \in Workers
        PROVE  worker'[v].todo \cup ({worker'[v].message} \ {None}) \subseteq 1 .. Len(stream)
    BY <1>1 DEF TypeOK
  <2> QED
    BY <1>1, <1>3, <2>1 DEF TypeOK
<1>5. \A v \in Workers : WorkerOK(v)'
  BY <1>1, WorkerStays
<1> QED
  BY <1>2, <1>4, <1>5

\* Which workers will add something after the step.
LEMMA NoNewcomer ==
    ASSUME SInv, NEW w \in Workers, NEW p \in Worker,
           worker' = [worker EXCEPT ![w] = p], UNCHANGED stream
    PROVE  /\ (WillAlert(w)' => WillAlert(w)) => Alerting' \subseteq Alerting
           /\ ~WillAlert(w)' => Alerting' \subseteq Alerting \ {w}
           /\ (WillOpen(w)' => WillOpen(w)) => Opening' \subseteq Opening
           /\ ~WillOpen(w)' => Opening' \subseteq Opening \ {w}
           /\ WillAlert(w)' <=> /\ p.pc \in {"query", "publish", "commit"}
                                /\ stream[p.message] = "hot" /\ ~p.alert
           /\ WillOpen(w)' <=> p.pc \in {"publish", "commit"} /\ p.new
           /\ (p.pc = "absent" <=> worker[w].pc = "absent") =>
                Alerting' \subseteq Deployed /\ Opening' \subseteq Deployed
<1>1. /\ worker'[w] = p /\ \A v \in Workers \ {w} : worker'[v] = worker[v]
      /\ (p.pc = "absent" <=> worker[w].pc = "absent") => Deployed' = Deployed
  BY SetWorker DEF SInv
<1>2. /\ \A v \in Workers \ {w} : WillAlert(v)' <=> WillAlert(v)
      /\ \A v \in Workers \ {w} : WillOpen(v)' <=> WillOpen(v)
  BY <1>1 DEF WillAlert, WillOpen
<1>3. Alerting' \subseteq Deployed' /\ Opening' \subseteq Deployed'
  BY DEF Alerting, Opening, Deployed, WillAlert, WillOpen
<1>4. /\ WillAlert(w)' <=> /\ p.pc \in {"query", "publish", "commit"}
                           /\ stream[p.message] = "hot" /\ ~p.alert
      /\ WillOpen(w)' <=> p.pc \in {"publish", "commit"} /\ p.new
  BY <1>1 DEF WillAlert, WillOpen
<1>5. /\ (WillAlert(w)' => WillAlert(w)) => Alerting' \subseteq Alerting
      /\ ~WillAlert(w)' => Alerting' \subseteq Alerting \ {w}
  BY <1>2 DEF Alerting
<1>6. /\ (WillOpen(w)' => WillOpen(w)) => Opening' \subseteq Opening
      /\ ~WillOpen(w)' => Opening' \subseteq Opening \ {w}
  BY <1>2 DEF Opening
<1> QED
  BY <1>1, <1>3, <1>4, <1>5, <1>6

\* A step that writes no table and publishes nothing.
LEMMA QuietStep ==
    ASSUME SInv, NEW w \in Workers, NEW p \in Worker,
           worker' = [worker EXCEPT ![w] = p],
           p.pc = "absent" <=> worker[w].pc = "absent",
           p.todo \cup ({p.message} \ {None}) \subseteq 1 .. Len(stream),
           UNCHANGED <<bus, stream, alerts, incidents, edge, opened, audited, ids>>,
           acked' \subseteq 1 .. Len(stream), delivered' \subseteq 1 .. Len(stream), HandedOut',
           faults' \in 0 .. MaxFaults,
           \/ faults' = faults + 1
           \/ faults' = faults /\ (worker[w].pc = "commit" => worker[w].incident = None),
           \A m \in acked' : m \in acked \/ Recorded(m),
           WillAlert(w)' => WillAlert(w) \/ alerts = 0,
           WillOpen(w)' => WillOpen(w),
           Grows => WorkerOK(w)'
    PROVE  SInv'
<1> USE DEF SInv
<1>0. /\ alerts \in Nat /\ ids \in Nat /\ faults \in Nat /\ faults' \in Nat /\ faults <= faults'
      /\ ids <= MaxIds /\ MaxIds \in Nat
  BY Finite
<1>1. Active' = Active
  BY DEF Active
<1>2. Grows
  BY <1>0, <1>1 DEF Grows
<1>3. \A m \in acked' : Recorded(m)'
  <2>1. \A m \in acked' : Recorded(m)
    OBVIOUS
  <2> QED
    BY <2>1, <1>2, RecordedStays
<1>4. AlertsGoOn
  BY NoNewcomer DEF AlertsGoOn
<1>5. IncidentsGoOn
  BY <1>1, NoNewcomer DEF IncidentsGoOn
<1>6. Cardinality(Phantoms') <= faults'
  <2>1. \A v \in Workers \ {w} : worker'[v] = worker[v]
    BY SetWorker
  <2>2. Phantoms' \subseteq Phantoms \cup {worker[w].incident}
    <3> SUFFICES ASSUME NEW i \in opened, IsPhantom(i)', i # worker[w].incident
                 PROVE  IsPhantom(i)
      BY DEF Phantoms
    <3> QED
      BY <2>1 DEF IsPhantom
  <2>3. worker[w].pc # "commit" \/ worker[w].incident = None => Phantoms' \subseteq Phantoms
    <3> SUFFICES ASSUME NEW i \in opened, IsPhantom(i)', 
                        worker[w].pc # "commit" \/ worker[w].incident = None
                 PROVE  IsPhantom(i)
      BY DEF Phantoms
    <3>1. i # None
      BY <1>0 DEF TypeOK, None
    <3> QED
      BY <2>1, <3>1 DEF IsPhantom
  <2> QED
    BY <1>0, <2>2, <2>3, PhantomsGoOn
<1>7. /\ incidents' \in [Ids -> {"none", "open", "acknowledged"}] /\ edge' \in BOOLEAN
      /\ opened' \subseteq 1 .. ids' /\ ids' \in 0 .. MaxIds /\ Active' \subseteq opened'
  BY <1>1 DEF TypeOK
<1> QED
  BY <1>2, <1>3, <1>4, <1>5, <1>6, <1>7, WorkerAlone

\* The record of a worker that starts anew, and of one that is done with a message.
LEMMA FreeWorker ==
    /\ IdleWorker \in Worker
    /\ IdleWorker.pc = "idle" /\ IdleWorker.todo = {} /\ IdleWorker.message = None
    /\ IdleWorker.incident = None /\ ~IdleWorker.new
    /\ ~IdleWorker.alert /\ ~IdleWorker.edge
BY DEF IdleWorker, Worker, None

\* What is left of a worker's record once it is done with its message: its todo
\* and its edge; whether it goes on to another message depends on the todo.
LEMMA NextMessageFact ==
    ASSUME TypeOK, NEW w \in Workers
    PROVE  LET p == NextMessage(w) IN
           /\ p \in Worker /\ p.pc \in {"idle", "next"} /\ p.todo = worker[w].todo
           /\ p.pc = "next" => p.todo # {}
           /\ p.message = None /\ p.incident = None /\ ~p.new
BY DEF NextMessage, IdleWorker, Worker, TypeOK, None

\* A worker without a message.
LEMMA FreeWorkerOK ==
    ASSUME NEW w \in Workers, NEW p \in Worker, worker'[w] = p, Grows,
           p.pc \in {"down", "idle", "next"}, p.pc = "next" => p.todo # {},
           p.message = None, p.incident = None, ~p.new
    PROVE  WorkerOK(w)'
BY DEF WorkerOK, Grows, Doing, None

\* Consuming gets the worker messages of the stream, from the Redis bus only
\* those that nobody was handed.
LEMMA ConsumeInv ==
    ASSUME SInv, NEW w \in Workers, Consume(w)
    PROVE  SInv'
<1> USE DEF SInv
<1>0. worker[w] \in Worker /\ WorkerOK(w) /\ Len(stream) \in Nat
  BY DEF TypeOK
<1>1. PICK got : /\ got = FirstOf(Available, Count) /\ Available # {}
                 /\ delivered' = delivered \cup (IF bus = "redis" THEN got ELSE {})
                 /\ worker' = [worker EXCEPT ![w].pc = "next", ![w].todo = got]
                 /\ worker[w].pc = "idle"
                 /\ UNCHANGED <<bus, stream, acked, alerts, incidents, edge, opened, audited, ids, faults>>
  BY DEF Consume, tables
<1>2. got # {} /\ got \subseteq 1 .. Len(stream)
  <2>1. Available \subseteq 1 .. Len(stream)
    BY DEF Available, Unacknowledged, NeverHandedOut
  <2>2. Available \subseteq Nat
    BY <1>0, <2>1
  <2> QED
    BY <1>1, <2>1, <2>2, FirstOfFact
<1>3. PICK p \in Worker :
        /\ worker' = [worker EXCEPT ![w] = p]
        /\ p.pc = "next" /\ p.todo = got /\ p.message = None /\ p.incident = None /\ ~p.new
  <2> DEFINE p == [worker[w] EXCEPT !.pc = "next", !.todo = got]
  <2>1. worker' = [worker EXCEPT ![w] = p]
    BY <1>0, <1>1 DEF TypeOK
  <2>2. got \subseteq Messages
    BY <1>0, <1>2, WorkerAssumption DEF TypeOK, Messages
  <2>3. /\ p \in Worker /\ p.pc = "next" /\ p.todo = got
        /\ p.message = worker[w].message /\ p.incident = worker[w].incident /\ p.new = worker[w].new
    BY <1>0, <2>2 DEF Worker
  <2>4. worker[w].message = None /\ worker[w].incident = None /\ ~worker[w].new
    BY <1>0, <1>1 DEF WorkerOK, Doing
  <2> HIDE DEF p
  <2> QED
    BY <2>1, <2>3, <2>4
<1>4. worker'[w] = p
  BY <1>3, SetWorker
<1>5. Grows => WorkerOK(w)'
  BY <1>2, <1>3, <1>4, FreeWorkerOK
<1>6. ~WillAlert(w)' /\ ~WillOpen(w)'
  BY <1>3, <1>4 DEF WillAlert, WillOpen
<1>7. HandedOut' /\ delivered' \subseteq 1 .. Len(stream)
  BY <1>1, <1>2 DEF HandedOut, TypeOK
<1>8. acked' \subseteq 1 .. Len(stream) /\ faults' \in 0 .. MaxFaults
  BY <1>1 DEF TypeOK
<1> QED
  BY <1>1, <1>2, <1>3, <1>5, <1>6, <1>7, <1>8, QuietStep

\* Taking up the oldest message of those consumed.
LEMMA TakeFact ==
    ASSUME SInv, NEW w \in Workers, Take(w)
    PROVE  \E m \in worker[w].todo, p \in Worker :
             /\ worker' = [worker EXCEPT ![w] = p]
             /\ p.pc \in {"query", "publish", "commit"}
             /\ p.pc = "query" <=> stream[m] = "hot"
             /\ p.message = m /\ p.todo = worker[w].todo \ {m}
             /\ p.alert <=> alerts > 0
             /\ p.edge = edge /\ p.incident = None /\ ~p.new
<1> USE DEF SInv
<1>0. /\ worker[w] \in Worker /\ WorkerOK(w)
      /\ worker[w].todo \subseteq 1 .. Len(stream)
  BY OnStream DEF TypeOK
<1> DEFINE m == CHOOSE k \in worker[w].todo : \A l \in worker[w].todo : k <= l
           seen == alerts > 0
           pc == CASE stream[m] = "hot" -> "query"
                   [] stream[m] = "quiet" -> "commit"
                   [] OTHER -> "publish"
           p == [worker[w] EXCEPT !.todo = worker[w].todo \ {m}, !.message = m,
                                  !.alert = seen, !.edge = edge, !.pc = pc]
<1>1. /\ worker[w].pc = "next"
      /\ worker' = [worker EXCEPT ![w] = [worker[w] EXCEPT !.todo = @ \ {m},
                          !.message = m, !.alert = alerts > 0, !.edge = edge, !.pc = pc]]
  BY DEF Take
<1>2. m \in worker[w].todo
  <2>1. worker[w].todo # {} /\ worker[w].todo \subseteq Nat
    BY <1>0, <1>1 DEF WorkerOK
  <2>2. \E k \in worker[w].todo : \A l \in worker[w].todo : k <= l
    BY <2>1, Least
  <2> HIDE DEF p
  <2> QED
    BY <2>2
<1> HIDE DEF m
<1>3. pc \in {"query", "publish", "commit"} /\ (pc = "query" <=> stream[m] = "hot")
  OBVIOUS
<1>4. m \in Messages /\ worker[w].todo \subseteq Messages /\ edge \in BOOLEAN /\ seen \in BOOLEAN
  BY <1>0, <1>2 DEF Worker, TypeOK
<1> HIDE DEF pc
<1>7. worker' = [worker EXCEPT ![w] = p]
  BY <1>1 DEF TypeOK
<1> HIDE DEF seen
<1>5. /\ p \in Worker /\ p.pc = pc /\ p.message = m /\ p.todo = worker[w].todo \ {m}
      /\ p.alert = seen /\ p.edge = edge
      /\ p.incident = worker[w].incident /\ p.new = worker[w].new
  BY <1>0, <1>3, <1>4 DEF Worker
<1>6. worker[w].incident = None /\ ~worker[w].new
  BY <1>0, <1>1 DEF WorkerOK
<1> HIDE DEF p
<1> QED
  BY <1>2, <1>3, <1>5, <1>6, <1>7 DEF seen

\* Taking a message up: only while there is no alert may a worker add one.
LEMMA TakeInv ==
    ASSUME SInv, NEW w \in Workers, Take(w)
    PROVE  SInv'
<1> USE DEF SInv
<1>0. /\ worker[w] \in Worker /\ alerts \in Nat /\ Len(stream) \in Nat
      /\ worker[w].todo \subseteq 1 .. Len(stream)
  BY OnStream, Finite DEF TypeOK
<1>2. /\ UNCHANGED <<bus, stream, acked, delivered, alerts, incidents, edge, opened, audited, ids, faults>>
      /\ worker[w].pc = "next"
  BY DEF Take, tables
<1>3. PICK m \in worker[w].todo, p \in Worker :
        /\ worker' = [worker EXCEPT ![w] = p]
        /\ p.pc \in {"query", "publish", "commit"}
        /\ p.pc = "query" <=> stream[m] = "hot"
        /\ p.message = m /\ p.todo = worker[w].todo \ {m}
        /\ p.alert <=> alerts > 0
        /\ p.edge = edge /\ p.incident = None /\ ~p.new
  <2> HIDE DEF SInv
  <2> QED
    BY TakeFact
<1>4. worker'[w] = p
  BY <1>3, SetWorker
<1>5. m \in 1 .. Len(stream) /\ m # None
  BY <1>0 DEF None
<1>6. Grows => WorkerOK(w)'
  BY <1>2, <1>3, <1>4, <1>5 DEF WorkerOK, Grows, Doing, None
<1>7. (WillAlert(w)' => alerts = 0) /\ ~WillOpen(w)'
  BY <1>0, <1>3, <1>4 DEF WillAlert, WillOpen
<1>8. acked' \subseteq 1 .. Len(stream) /\ delivered' \subseteq 1 .. Len(stream)
      /\ faults' \in 0 .. MaxFaults /\ HandedOut'
  BY <1>2 DEF TypeOK, HandedOut
<1>9. p.todo \cup ({p.message} \ {None}) \subseteq 1 .. Len(stream)
  BY <1>0, <1>3, <1>5
<1> QED
  BY <1>2, <1>3, <1>6, <1>7, <1>8, <1>9, QuietStep

\* Being done with a message: acknowledged, in conflict, or given up.
LEMMA DoneInv ==
    ASSUME SInv, NEW w \in Workers,
           Ack(w) \/ CommitConflicts(w) \/ Fails(w) \/ Crash(w) \/ Restart(w)
    PROVE  SInv'
<1> USE DEF SInv
<1>0. /\ worker[w] \in Worker /\ WorkerOK(w)
      /\ worker[w].message # None => worker[w].message \in 1 .. Len(stream)
      /\ worker[w].todo \subseteq 1 .. Len(stream)
      /\ faults \in Nat /\ MaxFaults \in Nat
  BY OnStream, Finite
<1>1. /\ UNCHANGED <<bus, stream, delivered, alerts, incidents, edge, opened, audited, ids>>
      /\ worker[w].pc # "absent"
  BY DEF Ack, CommitConflicts, Fails, Crash, Restart, tables
<1>2. PICK p \in Worker :
        /\ worker' = [worker EXCEPT ![w] = p]
        /\ p.pc \in {"down", "idle", "next"} /\ (p.pc = "next" => p.todo # {})
        /\ p.todo \subseteq worker[w].todo
        /\ p.message = None /\ p.incident = None /\ ~p.new
  <2>1. CASE Ack(w) \/ CommitConflicts(w) \/ Fails(w)
    BY <2>1, NextMessageFact DEF Ack, CommitConflicts, Fails
  <2>2. CASE Restart(w)
    BY <2>2, FreeWorker DEF Restart
  <2>3. CASE Crash(w)
    <3> DEFINE p == [IdleWorker EXCEPT !.pc = "down"]
    <3>1. /\ p \in Worker /\ p.pc = "down" /\ p.todo = {} /\ p.message = None
          /\ p.incident = None /\ ~p.new
      BY DEF IdleWorker, Worker, None
    <3>2. worker' = [worker EXCEPT ![w] = p]
      BY <2>3 DEF Crash
    <3> HIDE DEF p
    <3> QED
      BY <3>1, <3>2
  <2> QED
    BY <2>1, <2>2, <2>3
<1>3. worker'[w] = p
  BY <1>2, SetWorker
<1>4. acked' \subseteq 1 .. Len(stream) /\ \A m \in acked' : m \in acked \/ Recorded(m)
  <2>1. CASE Ack(w)
    <3>1. /\ acked' = acked \cup {worker[w].message} /\ Recorded(worker[w].message)
          /\ worker[w].message # None
      BY <1>0, <2>1 DEF Ack, WorkerOK, Doing
    <3> QED
      BY <1>0, <3>1 DEF TypeOK
  <2>2. CASE acked' = acked
    BY <2>2 DEF TypeOK
  <2> QED
    BY <2>1, <2>2 DEF CommitConflicts, Fails, Crash, Restart
<1>5. /\ faults' \in 0 .. MaxFaults
      /\ \/ faults' = faults + 1
         \/ faults' = faults /\ (worker[w].pc = "commit" => worker[w].incident = None)
  <2>1. CASE Fails(w) \/ Crash(w)
    BY <1>0, <2>1 DEF Fails, Crash
  <2>2. CASE Ack(w) \/ Restart(w)
    BY <2>2 DEF Ack, Restart, TypeOK
  <2>3. CASE CommitConflicts(w)
    BY <1>0, <2>3 DEF CommitConflicts, EdgeConflict, WorkerOK, TypeOK
  <2> QED
    BY <2>1, <2>2, <2>3
<1>6. Grows => WorkerOK(w)'
  BY <1>2, <1>3, FreeWorkerOK
<1>7. ~WillAlert(w)' /\ ~WillOpen(w)'
  BY <1>2, <1>3 DEF WillAlert, WillOpen
<1>8. HandedOut' /\ delivered' \subseteq 1 .. Len(stream)
  BY <1>1 DEF HandedOut, TypeOK
<1>9. p.todo \cup ({p.message} \ {None}) \subseteq 1 .. Len(stream)
  BY <1>0, <1>2
<1> QED
  BY <1>1, <1>2, <1>4, <1>5, <1>6, <1>7, <1>8, <1>9, QuietStep

\* Looking for an incident: only while there is none may a worker open one.
LEMMA QueryIncidentInv ==
    ASSUME SInv, NEW w \in Workers, QueryIncident(w)
    PROVE  SInv'
<1> USE DEF SInv
<1>0. /\ worker[w] \in Worker /\ WorkerOK(w)
      /\ worker[w].message # None /\ worker[w].message \in 1 .. Len(stream)
      /\ worker[w].todo \subseteq 1 .. Len(stream)
      /\ ids \in Nat /\ MaxIds \in Nat /\ ids <= MaxIds /\ alerts \in Nat
      /\ worker[w].pc = "query" /\ stream[worker[w].message] = "hot"
  BY OnStream, Finite DEF QueryIncident, WorkerOK, Doing
<1>1. UNCHANGED <<bus, stream, acked, delivered, alerts, incidents, edge, opened, audited, faults>>
  BY DEF QueryIncident, tables
<1>2. Active \subseteq 1 .. ids /\ Active' = Active
  <2>1. Active' = Active
    BY <1>1 DEF Active
  <2> QED
    BY <2>1 DEF TypeOK
<1>3. PICK i \in Ids, new \in BOOLEAN :
        /\ worker' = [worker EXCEPT ![w] =
                        [worker[w] EXCEPT !.pc = "publish", !.incident = i, !.new = new]]
        /\ \/ i \in Active /\ ~new /\ ids' = ids
           \/ Active = {} /\ new /\ ids' = ids + 1 /\ i = ids + 1 /\ ids < MaxIds
  <2>1. CASE /\ Active # {} /\ UNCHANGED ids
             /\ \E i \in Active :
                  worker' = [worker EXCEPT ![w].pc = "publish", ![w].incident = i]
    <3>1. PICK i \in Active :
            worker' = [worker EXCEPT ![w].pc = "publish", ![w].incident = i]
      BY <2>1
    <3> DEFINE p == [worker[w] EXCEPT !.pc = "publish", !.incident = i]
               q == [worker[w] EXCEPT !.pc = "publish", !.incident = i, !.new = FALSE]
    <3>2. p = q
      <4>1. worker[w].new = FALSE
        BY <1>0 DEF WorkerOK, Worker
      <4> QED
        BY <1>0, <4>1 DEF Worker
    <3>3. worker' = [worker EXCEPT ![w] = p]
      BY <1>0, <3>1 DEF TypeOK
    <3>4. i \in Ids
      BY DEF Active
    <3>5. worker' = [worker EXCEPT ![w] = q]
      <4> HIDE DEF p, q
      <4> QED
        BY <3>2, <3>3
    <3> QED
      BY <2>1, <3>4, <3>5
  <2>2. CASE /\ Active = {} /\ ids < MaxIds /\ ids' = ids + 1
             /\ worker' = [worker EXCEPT ![w].pc = "publish", ![w].incident = ids + 1,
                                         ![w].new = TRUE]
    <3> DEFINE i == ids + 1
    <3>1. i \in Ids
      BY <1>0, <2>2 DEF Ids
    <3>2. worker' = [worker EXCEPT ![w] =
                       [worker[w] EXCEPT !.pc = "publish", !.incident = i, !.new = TRUE]]
      BY <1>0, <2>2 DEF TypeOK
    <3> QED
      BY <2>2, <3>1, <3>2
  <2> QED
    BY <2>1, <2>2 DEF QueryIncident
<1> DEFINE q == [worker[w] EXCEPT !.pc = "publish", !.incident = i, !.new = new]
<1>4. PICK p \in Worker :
        /\ worker' = [worker EXCEPT ![w] = p]
        /\ p.pc = "publish" /\ p.incident = i /\ p.new = new
        /\ p.todo = worker[w].todo /\ p.message = worker[w].message
        /\ p.alert = worker[w].alert /\ p.edge = worker[w].edge
  <2>1. /\ q \in Worker /\ q.pc = "publish" /\ q.incident = i /\ q.new = new
        /\ q.todo = worker[w].todo /\ q.message = worker[w].message
        /\ q.alert = worker[w].alert /\ q.edge = worker[w].edge
    BY <1>0 DEF Worker
  <2>2. worker' = [worker EXCEPT ![w] = q]
    BY <1>3
  <2> HIDE DEF q
  <2> QED
    BY <2>1, <2>2
<1>5. worker'[w] = p /\ \A v \in Workers \ {w} : worker'[v] = worker[v]
  BY <1>4, SetWorker
<1>6. Grows => WorkerOK(w)'
  <2>1. i \in 1 .. ids' /\ i # None
    BY <1>0, <1>2, <1>3 DEF None
  <2> QED
    BY <1>0, <1>1, <1>2, <1>3, <1>4, <1>5, <2>1 DEF WorkerOK, Grows, Doing
<1>7. (WillAlert(w)' => WillAlert(w)) /\ (WillOpen(w)' => new)
  BY <1>0, <1>1, <1>4, <1>5 DEF WillAlert, WillOpen
<1>8. /\ acked' \subseteq 1 .. Len(stream) /\ delivered' \subseteq 1 .. Len(stream)
      /\ faults' \in 0 .. MaxFaults /\ HandedOut'
      /\ incidents' \in [Ids -> {"none", "open", "acknowledged"}] /\ edge' \in BOOLEAN
      /\ ids' \in 0 .. MaxIds /\ opened' \subseteq 1 .. ids'
  BY <1>0, <1>1, <1>3 DEF TypeOK, HandedOut
<1>9. p.todo \cup ({p.message} \ {None}) \subseteq 1 .. Len(stream)
  BY <1>0, <1>4
<1>10. CASE ~new
  BY <1>0, <1>1, <1>3, <1>4, <1>6, <1>7, <1>8, <1>9, <1>10, QuietStep
<1>11. CASE new
  <2>1. Grows
    BY <1>0, <1>1, <1>2, <1>3, <1>11 DEF Grows
  <2>2. AlertsGoOn
    BY <1>1, <1>4, <1>7, NoNewcomer DEF AlertsGoOn
  <2>3. IncidentsGoOn
    <3>1. p.pc = "absent" <=> worker[w].pc = "absent"
      BY <1>0, <1>4
    <3>2. Opening' \subseteq Deployed
      BY <1>1, <1>4, <3>1, NoNewcomer
    <3>3. Active' = {}
      BY <1>2, <1>3, <1>11
    <3> QED
      BY <3>2, <3>3 DEF IncidentsGoOn
  <2>4. Cardinality(Phantoms') <= faults'
    <3>1. Phantoms' \subseteq Phantoms
      <4> SUFFICES ASSUME NEW j \in opened, IsPhantom(j)' PROVE IsPhantom(j)
        BY <1>1 DEF Phantoms
      <4> QED
        BY <1>0, <1>1, <1>5 DEF IsPhantom
    <3>2. faults' \in Nat /\ faults <= faults'
      BY <1>1, Finite
    <3> QED
      BY <3>1, <3>2, PhantomsGoOn
  <2>5. \A m \in acked' : Recorded(m)'
    BY <1>1, <2>1, AckedStays
  <2>6. Active' \subseteq opened'
    BY <1>1, <1>2
  <2> QED
    BY <1>0, <1>1, <1>4, <1>6, <1>8, <1>9, <2>1, <2>2, <2>3, <2>4, <2>5, <2>6, WorkerAlone
<1> QED
  BY <1>10, <1>11

\* Publishing announces the incident before it can be seen.
LEMMA PublishInv ==
    ASSUME SInv, NEW w \in Workers, Publish(w)
    PROVE  SInv'
<1> USE DEF SInv
<1>0. /\ worker[w] \in Worker /\ WorkerOK(w)
      /\ worker[w].message # None /\ worker[w].message \in 1 .. Len(stream)
      /\ worker[w].todo \subseteq 1 .. Len(stream)
      /\ ids \in Nat /\ alerts \in Nat /\ worker[w].pc = "publish"
  BY OnStream, Finite DEF Publish, WorkerOK, Doing
<1>1. /\ UNCHANGED <<bus, stream, acked, delivered, alerts, incidents, edge, audited, ids, faults>>
      /\ worker' = [worker EXCEPT ![w].pc = "commit"]
      /\ opened' = opened \cup ({worker[w].incident} \ {None})
  BY DEF Publish, tables
<1>2. PICK p \in Worker :
        /\ worker' = [worker EXCEPT ![w] = p]
        /\ p.pc = "commit" /\ p.incident = worker[w].incident /\ p.new = worker[w].new
        /\ p.todo = worker[w].todo /\ p.message = worker[w].message
        /\ p.alert = worker[w].alert /\ p.edge = worker[w].edge
  <2> DEFINE q == [worker[w] EXCEPT !.pc = "commit"]
  <2>1. /\ q \in Worker /\ q.pc = "commit" /\ q.incident = worker[w].incident
        /\ q.new = worker[w].new /\ q.todo = worker[w].todo /\ q.message = worker[w].message
        /\ q.alert = worker[w].alert /\ q.edge = worker[w].edge
    BY <1>0 DEF Worker
  <2>2. worker' = [worker EXCEPT ![w] = q]
    BY <1>1
  <2> HIDE DEF q
  <2> QED
    BY <2>1, <2>2
<1>3. worker'[w] = p /\ \A v \in Workers \ {w} : worker'[v] = worker[v]
  BY <1>2, SetWorker
<1>4. Active' = Active
  BY <1>1 DEF Active
<1>5. Grows
  BY <1>0, <1>1, <1>4 DEF Grows
<1>6. WorkerOK(w)'
  BY <1>0, <1>1, <1>2, <1>3, <1>4 DEF WorkerOK, Doing
<1>7. (WillAlert(w)' => WillAlert(w)) /\ (WillOpen(w)' => WillOpen(w))
  BY <1>0, <1>1, <1>2, <1>3 DEF WillAlert, WillOpen
<1>8. AlertsGoOn /\ IncidentsGoOn
  <2>1. Alerting' \subseteq Alerting /\ Opening' \subseteq Opening
    BY <1>1, <1>2, <1>7, NoNewcomer
  <2> HIDE DEF SInv
  <2> QED
    BY <1>1, <1>4, <2>1 DEF AlertsGoOn, IncidentsGoOn
<1>9. opened' \subseteq 1 .. ids'
  <2>1. worker[w].incident \in 0 .. ids
    BY <1>0 DEF WorkerOK
  <2> QED
    BY <1>0, <1>1, <2>1 DEF TypeOK, None
<1>10. Cardinality(Phantoms') <= faults'
  <2>1. Phantoms' \subseteq Phantoms
    <3> SUFFICES ASSUME NEW j \in opened', IsPhantom(j)' PROVE j \in opened /\ IsPhantom(j)
      BY DEF Phantoms
    <3>1. j # worker[w].incident
      BY <1>2, <1>3 DEF IsPhantom
    <3> QED
      BY <1>0, <1>1, <1>3, <3>1 DEF IsPhantom
  <2>2. faults' \in Nat /\ faults <= faults'
    BY <1>1, Finite
  <2> QED
    BY <2>1, <2>2, PhantomsGoOn
<1>11. \A m \in acked' : Recorded(m)'
  BY <1>1, <1>5, AckedStays
<1>12. /\ acked' \subseteq 1 .. Len(stream) /\ delivered' \subseteq 1 .. Len(stream)
       /\ faults' \in 0 .. MaxFaults /\ HandedOut' /\ Active' \subseteq opened'
       /\ incidents' \in [Ids -> {"none", "open", "acknowledged"}] /\ edge' \in BOOLEAN
       /\ ids' \in 0 .. MaxIds
  BY <1>1, <1>4 DEF TypeOK, HandedOut
<1>13. p.todo \cup ({p.message} \ {None}) \subseteq 1 .. Len(stream)
  BY <1>0, <1>2
<1> QED
  BY <1>0, <1>1, <1>2, <1>5, <1>6, <1>8, <1>9, <1>10, <1>11, <1>12, <1>13, WorkerAlone

\* The transaction writes down what the worker saw missing.
LEMMA CommitInv ==
    ASSUME SInv, NEW w \in Workers, Commit(w)
    PROVE  SInv'
<1> USE DEF SInv
<1> DEFINE s == worker[w]
<1>0. /\ s \in Worker /\ WorkerOK(w)
      /\ s.message # None /\ s.message \in 1 .. Len(stream)
      /\ s.todo \subseteq 1 .. Len(stream)
      /\ ids \in Nat /\ alerts \in Nat /\ s.pc = "commit"
      /\ s.alert \in BOOLEAN /\ s.new \in BOOLEAN
  BY OnStream, Finite DEF Commit, WorkerOK, Doing, Worker
<1>1. /\ UNCHANGED <<bus, stream, acked, delivered, opened, audited, ids, faults>>
      /\ worker' = [worker EXCEPT ![w].pc = "ack"]
      /\ alerts' = IF stream[s.message] = "hot" /\ ~s.alert THEN alerts + 1 ELSE alerts
      /\ incidents' = IF s.new THEN [incidents EXCEPT ![s.incident] = "open"] ELSE incidents
      /\ edge' = (edge \/ stream[s.message] \in {"edge", "twice"})
  BY DEF Commit
<1>2. PICK p \in Worker :
        /\ worker' = [worker EXCEPT ![w] = p]
        /\ p.pc = "ack" /\ p.incident = s.incident /\ p.new = s.new
        /\ p.todo = s.todo /\ p.message = s.message /\ p.alert = s.alert /\ p.edge = s.edge
  <2> DEFINE q == [s EXCEPT !.pc = "ack"]
  <2>1. /\ q \in Worker /\ q.pc = "ack" /\ q.incident = s.incident /\ q.new = s.new
        /\ q.todo = s.todo /\ q.message = s.message /\ q.alert = s.alert /\ q.edge = s.edge
    BY <1>0 DEF Worker
  <2>2. worker' = [worker EXCEPT ![w] = q]
    BY <1>1
  <2> HIDE DEF q
  <2> QED
    BY <2>1, <2>2
<1>3. worker'[w] = p /\ \A v \in Workers \ {w} : worker'[v] = worker[v]
  BY <1>2, SetWorker
\* The incident is there after the commit, and was announced.
<1>4. /\ s.incident # None => s.incident \in opened /\ s.incident \in Ids
      /\ s.new => s.incident # None
      /\ s.incident # None /\ ~s.new => s.incident \in Active
  <2>1. opened \subseteq Ids
    <3>1. opened \subseteq 1 .. ids /\ ids <= MaxIds /\ MaxIds \in Nat
      BY Finite DEF TypeOK
    <3> QED
      BY <1>0, <3>1 DEF Ids
  <2> QED
    BY <1>0, <2>1 DEF WorkerOK
<1>5. /\ incidents \in [Ids -> {"none", "open", "acknowledged"}]
      /\ incidents' \in [Ids -> {"none", "open", "acknowledged"}]
      /\ \A i \in Ids : incidents'[i] = IF s.new /\ i = s.incident THEN "open" ELSE incidents[i]
  BY <1>0, <1>1, <1>4 DEF TypeOK
<1>6. /\ Active \subseteq Active'
      /\ s.incident # None => s.incident \in Active'
      /\ Active' \subseteq Active \cup {s.incident}
      /\ ~s.new => Active' = Active
  BY <1>4, <1>5 DEF Active
<1>7. Grows
  <2>1. alerts' \in Nat /\ alerts <= alerts'
    <3>1. alerts' \in {alerts, alerts + 1}
      BY <1>1
    <3> QED
      BY <1>0, <3>1
  <2>2. edge => edge'
    BY <1>1
  <2> QED
    BY <1>0, <1>1, <1>6, <2>1, <2>2 DEF Grows
<1>8. Recorded(s.message)'
  <2> SUFFICES ASSUME NEW m \in 1 .. Len(stream), m = s.message PROVE Recorded(m)'
    BY <1>0, <1>2, <1>3
  <2>1. stream'[m] = "hot" => alerts' > 0 /\ Active' # {}
    BY <1>0, <1>1, <1>6 DEF WorkerOK
  <2>2. stream'[m] \in {"edge", "twice"} => edge'
    BY <1>1
  <2> QED
    BY <2>1, <2>2 DEF Recorded
<1>9. WorkerOK(w)'
  <2>1. s.incident \in 0 .. ids /\ (s.alert => alerts > 0) /\ (s.edge => edge)
    BY <1>0 DEF WorkerOK
  <2>2. Recorded(p.message)'
    BY <1>2, <1>3, <1>8
  <2> QED
    BY <1>0, <1>1, <1>2, <1>3, <1>4, <1>6, <1>7, <2>1, <2>2 DEF WorkerOK, Doing, Grows
<1>10. ~WillAlert(w)' /\ ~WillOpen(w)'
  BY <1>2, <1>3 DEF WillAlert, WillOpen
<1>11. /\ Alerting' \subseteq Alerting \ {w} /\ Alerting' \subseteq Alerting
       /\ Opening' \subseteq Opening \ {w} /\ Opening' \subseteq Opening
  BY <1>1, <1>2, <1>10, NoNewcomer
<1>12. AlertsGoOn
  <2>1. stream[s.message] = "hot" /\ ~s.alert => w \in Alerting
    BY <1>0 DEF Alerting, WillAlert
  <2> QED
    BY <1>1, <1>11, <2>1 DEF AlertsGoOn
<1>13. IncidentsGoOn
  <2>1. s.new => w \in Opening
    BY <1>0 DEF Opening, WillOpen
  <2> QED
    BY <1>6, <1>11, <2>1 DEF IncidentsGoOn
<1>14. Cardinality(Phantoms') <= faults'
  <2>1. Phantoms' \subseteq Phantoms
    <3> SUFFICES ASSUME NEW j \in opened, IsPhantom(j)' PROVE IsPhantom(j)
      BY <1>1 DEF Phantoms
    <3>1. j \in Ids /\ j # None
      <4>1. opened \subseteq 1 .. ids /\ ids <= MaxIds /\ MaxIds \in Nat
        BY Finite DEF TypeOK
      <4> QED
        BY <1>0, <4>1 DEF Ids, None
    <3>2. j # s.incident /\ incidents[j] = "none"
      BY <1>4, <1>5, <1>6, <3>1 DEF IsPhantom, Active
    <3> QED
      BY <1>3, <3>2 DEF IsPhantom
  <2>2. faults' \in Nat /\ faults <= faults'
    BY <1>1, Finite
  <2> QED
    BY <2>1, <2>2, PhantomsGoOn
<1>15. \A m \in acked' : Recorded(m)'
  BY <1>1, <1>7, AckedStays
<1>16. /\ acked' \subseteq 1 .. Len(stream) /\ delivered' \subseteq 1 .. Len(stream)
       /\ faults' \in 0 .. MaxFaults /\ HandedOut' /\ Active' \subseteq opened'
       /\ edge' \in BOOLEAN /\ opened' \subseteq 1 .. ids' /\ ids' \in 0 .. MaxIds
  <2>1. Active' \subseteq opened'
    BY <1>1, <1>4, <1>6 DEF None
  <2> QED
    BY <1>1, <2>1 DEF TypeOK, HandedOut
<1>17. p.todo \cup ({p.message} \ {None}) \subseteq 1 .. Len(stream)
  BY <1>0, <1>2
<1> HIDE DEF s
<1>18. p.pc = "absent" <=> worker[w].pc = "absent"
  BY <1>0, <1>2 DEF s
<1> QED
  BY <1>1, <1>2, <1>5, <1>7, <1>9, <1>12, <1>13, <1>14, <1>15, <1>16, <1>17, <1>18, WorkerAlone

-----------------------------------------------------------------------------
(* Steps of the others.                                                     *)

\* A message is added at the end of the stream.
LEMMA ProduceInv ==
    ASSUME SInv, NEW kind \in Kinds, Produce(kind)
    PROVE  SInv'
<1> USE DEF SInv
<1>1. /\ UNCHANGED <<bus, acked, delivered, worker, alerts, incidents, edge, opened, audited, ids, faults>>
      /\ stream' = Append(stream, kind) /\ Len(stream) < MaxMessages
  BY DEF Produce, tables
<1>2. /\ stream' \in Seq(Kinds) /\ Len(stream') = Len(stream) + 1 /\ Len(stream') <= MaxMessages
      /\ Len(stream) \in Nat /\ 1 .. Len(stream) \subseteq 1 .. Len(stream')
      /\ \A m \in 1 .. Len(stream) : stream'[m] = stream[m]
  <2>1. stream \in Seq(Kinds) /\ MaxMessages \in Nat
    BY Finite DEF TypeOK
  <2> HIDE DEF SInv
  <2> QED
    BY <1>1, <2>1
<1>3. Active' = Active /\ Deployed' = Deployed /\ Phantoms' = Phantoms
  BY <1>1 DEF Active, Deployed, Phantoms, IsPhantom
<1>4. Grows
  BY <1>1, <1>2, <1>3, Finite DEF Grows
<1>5. TypeOK'
  BY <1>1, <1>2 DEF TypeOK
<1>6. \A w \in Workers : WorkerOK(w)'
  BY <1>1, <1>4, WorkerStays
<1>7. \A m \in acked' : Recorded(m)'
  BY <1>1, <1>4, AckedStays
<1>8. PerWorker'
  <2>1. ASSUME NEW w \in Workers PROVE (WillAlert(w)' => WillAlert(w)) /\ (WillOpen(w)' => WillOpen(w))
    <3>1. WorkerOK(w) /\ (worker[w].message # None => worker[w].message \in 1 .. Len(stream))
      BY OnStream
    <3>2. worker[w].pc \in Doing => stream'[worker[w].message] = stream[worker[w].message]
      BY <1>2, <3>1 DEF WorkerOK
    <3> QED
      BY <1>1, <3>2 DEF WillAlert, WillOpen, Doing
  <2>2. Alerting' \subseteq Alerting /\ Opening' \subseteq Opening
    BY <2>1 DEF Alerting, Opening
  <2> QED
    BY <1>1, <1>3, <2>2, PerWorkerGoesOn DEF AlertsGoOn, IncidentsGoOn
<1>9. HandedOut' /\ Active' \subseteq opened' /\ Cardinality(Phantoms') <= faults'
  BY <1>1, <1>3 DEF HandedOut
<1> QED
  BY <1>5, <1>6, <1>7, <1>8, <1>9

\* An incident stays active when an operator acknowledges it.
LEMMA AcknowledgeIncidentInv ==
    ASSUME SInv, NEW i \in Ids, AcknowledgeIncident(i)
    PROVE  SInv'
<1> USE DEF SInv
<1>1. /\ UNCHANGED <<bus, stream, acked, delivered, worker, alerts, edge, opened, ids, faults>>
      /\ incidents' = [incidents EXCEPT ![i] = "acknowledged"] /\ incidents[i] = "open"
      /\ audited' \in {audited, audited \cup {i}}
  BY DEF AcknowledgeIncident
<1>2. /\ incidents' \in [Ids -> {"none", "open", "acknowledged"}]
      /\ \A j \in Ids : incidents'[j] = IF j = i THEN "acknowledged" ELSE incidents[j]
  BY <1>1 DEF TypeOK
<1>3. Active' = Active
  BY <1>1, <1>2 DEF Active
<1>4. Phantoms' = Phantoms
  <2>1. opened \subseteq Ids
    <3>1. opened \subseteq 1 .. ids /\ ids <= MaxIds /\ MaxIds \in Nat /\ ids \in Nat
      BY Finite DEF TypeOK
    <3> QED
      BY <3>1 DEF Ids
  <2>2. \A j \in opened : incidents'[j] = "none" <=> incidents[j] = "none"
    BY <1>1, <1>2, <2>1
  <2> QED
    BY <1>1, <2>2 DEF Phantoms, IsPhantom
<1>5. Deployed' = Deployed /\ Alerting' = Alerting /\ Opening' = Opening
  BY <1>1 DEF Deployed, Alerting, Opening, WillAlert, WillOpen
<1>6. Grows
  BY <1>1, <1>3, Finite DEF Grows
<1>7. TypeOK'
  BY <1>1, <1>2 DEF TypeOK
<1>8. \A w \in Workers : WorkerOK(w)'
  BY <1>1, <1>6, WorkerStays
<1>9. \A m \in acked' : Recorded(m)'
  BY <1>1, <1>6, AckedStays
<1>10. PerWorker'
  BY <1>1, <1>3, <1>5, PerWorkerGoesOn DEF AlertsGoOn, IncidentsGoOn
<1>11. HandedOut' /\ Active' \subseteq opened' /\ Cardinality(Phantoms') <= faults'
  BY <1>1, <1>3, <1>4 DEF HandedOut
<1> QED
  BY <1>7, <1>8, <1>9, <1>10, <1>11

-----------------------------------------------------------------------------
(* The theorems. *)

\* Nothing is on the stream or in the tables at first.
LEMMA InitInv == Init => SInv
<1> SUFFICES ASSUME Init PROVE SInv
  OBVIOUS
<1> USE DEF Init
<1>1. PICK d \in Deployments :
        /\ bus = d.bus
        /\ worker = [w \in Workers |-> [IdleWorker EXCEPT
                       !.pc = IF w \in d.workers THEN "idle" ELSE "absent"]]
  OBVIOUS
<1>2. ASSUME NEW w \in Workers
      PROVE  /\ worker[w] \in Worker /\ worker[w].pc \in {"idle", "absent"}
             /\ worker[w].todo = {} /\ worker[w].message = None
             /\ worker[w].incident = None /\ ~worker[w].new
  <2> DEFINE pc == IF w \in d.workers THEN "idle" ELSE "absent"
  <2>1. pc \in {"idle", "absent"}
    OBVIOUS
  <2>2. worker[w] = [IdleWorker EXCEPT !.pc = pc]
    BY <1>1
  <2> HIDE DEF pc
  <2>3. /\ worker[w] \in Worker /\ worker[w].pc = pc
        /\ worker[w].todo = IdleWorker.todo /\ worker[w].message = IdleWorker.message
        /\ worker[w].incident = IdleWorker.incident /\ worker[w].new = IdleWorker.new
    BY <2>1, <2>2, FreeWorker DEF IdleWorker, Worker
  <2> QED
    BY <2>1, <2>3, FreeWorker
<1>3. worker \in [Workers -> Worker]
  BY <1>1, <1>2
<1>4. /\ MaxIds \in Nat /\ MaxMessages \in Nat /\ MaxFaults \in Nat
      /\ Cardinality(Workers) \in Nat /\ bus \in {"sqlite", "redis"}
  BY <1>1, WorkerAssumption, FS_CardinalityType DEF MaxIds
<1>5. TypeOK
  <2>1. stream \in Seq(Kinds) /\ Len(stream) = 0
    OBVIOUS
  <2>2. incidents \in [Ids -> {"none", "open", "acknowledged"}]
    OBVIOUS
  <2>3. \A w \in Workers : worker[w].todo \cup ({worker[w].message} \ {None}) \subseteq 1 .. Len(stream)
    BY <1>2
  <2>4. /\ acked \subseteq 1 .. Len(stream) /\ delivered \subseteq 1 .. Len(stream)
        /\ edge \in BOOLEAN /\ opened \subseteq 1 .. ids /\ audited \subseteq Ids
    OBVIOUS
  <2>5. alerts \in 0 .. Cardinality(Workers) /\ ids \in 0 .. MaxIds /\ faults \in 0 .. MaxFaults
    BY <1>4
  <2>6. Len(stream) <= MaxMessages
    BY <1>4, <2>1
  <2> HIDE DEF Init
  <2> QED
    BY <1>3, <1>4, <2>1, <2>2, <2>3, <2>4, <2>5, <2>6 DEF TypeOK
<1>6. \A w \in Workers : WorkerOK(w)
  BY <1>2 DEF WorkerOK, Doing, None
<1>7. Active = {} /\ Alerting = {} /\ Opening = {} /\ Phantoms = {}
  BY <1>2 DEF Active, Alerting, Opening, Phantoms, WillAlert, WillOpen
<1>8. Cardinality(Deployed) \in Nat
  BY <1>5, Finite, FS_CardinalityType
<1>9. PerWorker /\ Cardinality(Phantoms) <= faults
  <2>1. Cardinality({}) = 0
    BY FS_EmptySet
  <2> DEFINE d0 == Cardinality(Deployed)
  <2>2. d0 \in Nat
    BY <1>8
  <2> HIDE DEF d0
  <2>3. 0 + 0 <= d0
    BY <2>2
  <2> QED
    BY <1>7, <2>1, <2>3 DEF PerWorker, d0
<1> QED
  BY <1>5, <1>6, <1>7, <1>9 DEF SInv, HandedOut

\* Every step keeps the invariant.
LEMMA StepInv == SInv /\ [Next]_vars => SInv'
<1> SUFFICES ASSUME SInv, [Next]_vars PROVE SInv'
  OBVIOUS
<1>1. ASSUME NEW kind \in Kinds, Produce(kind) PROVE SInv'
  BY <1>1, ProduceInv
<1>2. ASSUME NEW w \in Workers, Run(w) \/ Fails(w) \/ Crash(w) PROVE SInv'
  BY <1>2, ConsumeInv, TakeInv, QueryIncidentInv, PublishInv, CommitInv, DoneInv DEF Run
<1>3. ASSUME NEW i \in Ids, AcknowledgeIncident(i) PROVE SInv'
  BY <1>3, AcknowledgeIncidentInv
<1>4. CASE UNCHANGED vars
  <2>1. UNCHANGED <<bus, stream, acked, delivered, worker, alerts, incidents, edge, opened, audited, ids, faults>>
    BY <1>4 DEF vars
  <2>2. /\ Active' = Active /\ Deployed' = Deployed /\ Phantoms' = Phantoms
        /\ Alerting' = Alerting /\ Opening' = Opening
    BY <2>1 DEF Active, Deployed, Phantoms, IsPhantom, Alerting, Opening, WillAlert, WillOpen
  <2> QED
    BY <2>1, <2>2 DEF SInv, TypeOK, HandedOut, WorkerOK, Recorded, PerWorker
<1> QED
  BY <1>1, <1>2, <1>3, <1>4 DEF Next

\* The invariant holds in every reachable state.
THEOREM WorkerInvariance == Spec => []SInv
BY InitInv, StepInv, PTL DEF Spec

\* Every variable holds what its table, stream or process can hold; in
\* particular no message is worked on that is not on the stream, and the tables
\* never hold more open alerts for a key than there are workers.
THEOREM TypeCorrect == Spec => []TypeOK
<1>1. SInv => TypeOK
  BY DEF SInv
<1> QED
  BY <1>1, WorkerInvariance, PTL

\* A message is acknowledged only once its effect is committed, wherever workers
\* failed or crashed before.
THEOREM AcknowledgedIsRecorded == Spec => []AckedIsRecorded
<1>1. SInv => AckedIsRecorded
  BY DEF SInv, AckedIsRecorded, Recorded
<1> QED
  BY <1>1, WorkerInvariance, PTL

\* The worker's look before it writes keeps the open alerts and the active
\* incidents of a key down to one per worker.
THEOREM OneActivePerWorker == Spec => []OneActivePerKey
<1>1. ASSUME SInv PROVE OneActivePerKey
  <2> DEFINE a == Cardinality(Alerting)
             o == Cardinality(Opening)
             c == Cardinality(Active)
             d == Cardinality(Deployed)
  <2>1. a \in Nat /\ o \in Nat /\ c \in Nat /\ d \in Nat /\ alerts \in Nat
    BY <1>1, Finite, FS_CardinalityType DEF SInv
  <2>2. alerts + a <= d /\ c + o <= d
    BY <1>1 DEF SInv, PerWorker
  <2> HIDE DEF a, o, c, d
  <2>3. alerts <= d /\ c <= d
    BY <2>1, <2>2
  <2> QED
    BY <2>3 DEF OneActivePerKey, c, d
<1> QED
  BY <1>1, WorkerInvariance, PTL

\* Every incident was announced before it can be seen, and announced incidents
\* that do not exist are at most one per failure.
THEOREM IncidentsAreAnnounced == Spec => []AnnouncedIncidents
<1>1. ASSUME SInv PROVE AnnouncedIncidents
  <2> DEFINE pending == {worker[w].incident : w \in {v \in Workers : worker[v].pc = "commit"}}
             phantoms == {i \in opened : incidents[i] = "none"} \ pending
  <2>1. phantoms = Phantoms
    BY DEF Phantoms, IsPhantom
  <2> QED
    BY <1>1, <2>1 DEF SInv, AnnouncedIncidents
<1> QED
  BY <1>1, WorkerInvariance, PTL

\* A message the Redis bus handed out to a worker that did not acknowledge it is
\* never worked on again.
THEOREM AbandonedForEver == Spec => AbandonedIsForever
<1>1. ASSUME SInv, [Next]_vars, NEW m \in Messages, Abandoned(m) PROVE Abandoned(m)'
  <2> USE DEF SInv
  <2>1. /\ m \in delivered /\ m \notin acked /\ bus = "redis"
        /\ worker \in [Workers -> Worker]
        /\ \A w \in Workers : m # worker[w].message /\ m \notin worker[w].todo
    BY <1>1 DEF Abandoned, TypeOK, HandedOut
  <2>2. ASSUME m \in delivered', m \notin acked',
               \A w \in Workers : m # worker'[w].message /\ m \notin worker'[w].todo
        PROVE  Abandoned(m)'
    BY <2>2 DEF Abandoned
  <2>3. m # None
    BY <1>1 DEF Messages, None
  <2>4. CASE UNCHANGED <<worker, acked, delivered>>
    BY <2>1, <2>2, <2>4
  <2>5. ASSUME NEW w \in Workers, Consume(w) PROVE Abandoned(m)'
    <3>1. m \notin FirstOf(Available, Count)
      BY <2>1 DEF FirstOf, Available, NeverHandedOut
    <3> QED
      BY <2>1, <2>2, <2>5, <3>1 DEF Consume
  <2>6. ASSUME NEW w \in Workers, Take(w) PROVE Abandoned(m)'
    <3>1. PICK k \in worker[w].todo, p \in Worker :
            /\ worker' = [worker EXCEPT ![w] = p]
            /\ p.message = k /\ p.todo = worker[w].todo \ {k}
      <4> HIDE DEF SInv
      <4> QED
        BY <1>1, <2>6, TakeFact
    <3>2. UNCHANGED <<acked, delivered>>
      BY <2>6 DEF Take
    <3> QED
      BY <2>1, <2>2, <3>1, <3>2
  <2>7. ASSUME NEW w \in Workers, QueryIncident(w) \/ Publish(w) \/ Commit(w) PROVE Abandoned(m)'
    <3>1. /\ UNCHANGED <<acked, delivered>>
          /\ worker'[w].message = worker[w].message /\ worker'[w].todo = worker[w].todo
          /\ \A v \in Workers \ {w} : worker'[v] = worker[v]
      BY <2>1, <2>7 DEF QueryIncident, Publish, Commit, Worker
    <3> QED
      BY <2>1, <2>2, <3>1
  <2>8. ASSUME NEW w \in Workers,
               Ack(w) \/ CommitConflicts(w) \/ Fails(w) \/ Crash(w) \/ Restart(w)
        PROVE  Abandoned(m)'
    <3>1. UNCHANGED delivered /\ acked' \subseteq acked \cup {worker[w].message}
      BY <2>8 DEF Ack, CommitConflicts, Fails, Crash, Restart
    <3>2. PICK p : /\ worker' = [worker EXCEPT ![w] = p]
                   /\ p.message = None /\ p.todo \subseteq worker[w].todo
      <4>1. CASE Ack(w) \/ CommitConflicts(w) \/ Fails(w)
        BY <1>1, <4>1, NextMessageFact DEF Ack, CommitConflicts, Fails
      <4>2. CASE Restart(w)
        BY <4>2, FreeWorker DEF Restart
      <4>3. CASE Crash(w)
        <5>1. [IdleWorker EXCEPT !.pc = "down"].message = None
              /\ [IdleWorker EXCEPT !.pc = "down"].todo = {}
          BY DEF IdleWorker
        <5> QED
          BY <4>3, <5>1 DEF Crash
      <4> QED
        BY <2>8, <4>1, <4>2, <4>3
    <3> QED
      BY <2>1, <2>2, <2>3, <3>1, <3>2
  <2> QED
    BY <1>1, <2>4, <2>5, <2>6, <2>7, <2>8 DEF Next, Run, Produce, AcknowledgeIncident, vars
<1>2. SInv /\ [Next]_vars => [\A m \in Messages : Abandoned(m) => Abandoned(m)']_vars
  BY <1>1
<1> QED
  BY <1>2, WorkerInvariance, PTL DEF Spec, AbandonedIsForever

=============================================================================
