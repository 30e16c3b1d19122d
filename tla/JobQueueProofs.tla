--------------------------- MODULE JobQueueProofs ---------------------------
(* Theorems about the work queue, for every set of deliveries, keys and    *)
(* lanes and every cap.                                                    *)
EXTENDS JobQueue, FiniteSetTheorems, TLAPS

-----------------------------------------------------------------------------
(* What fate says about a job is what the containers say about it.         *)
FateAgrees ==
  /\ \A j \in Deliveries : fate[j] = "accepted" <=> (j \in waiting \/ j \in ActiveJobs)
  /\ \A l \in Lanes : active[l] # NoJob => JobLane[active[l]] = l
  /\ waiting \cap ActiveJobs = {}
  /\ aborted \subseteq ActiveJobs
  /\ \A j \in began : j \in ActiveJobs \/ fate[j] = "ran"

(* Tickets are given out in order, one to each pushed job.                 *)
TicketsInOrder ==
  /\ \A j \in Deliveries : ticket[j] <= clock
  /\ \A j \in Deliveries : ticket[j] = 0 <=> fate[j] \in {"unseen", "deduped"}
  /\ \A i, j \in Deliveries : (ticket[i] = ticket[j] /\ ticket[i] # 0) => i = j

(* The inductive invariant.                                                *)
IInv ==
  /\ QueueTypeOK
  /\ FateAgrees
  /\ TicketsInOrder
  /\ RunningCounts
  /\ LaneResident
  /\ WorkConserving
  /\ NoDuplicateLiveKey
  /\ LaneFIFO
  /\ NoLostWakeup

-----------------------------------------------------------------------------
(* Starting the lanes of S makes exactly those lanes busy.                 *)
LEMMA StartCounts ==
  ASSUME NEW a \in [Lanes -> Deliveries \cup {NoJob}],
         NEW S \in SUBSET Lanes, \A l \in S : a[l] = NoJob,
         NEW h \in [S -> Deliveries],
         NEW a2, a2 = [l \in Lanes |-> IF l \in S THEN h[l] ELSE a[l]]
  PROVE  Cardinality(Busy(a2)) = Cardinality(Busy(a)) + Cardinality(S)
<1>1. Busy(a2) = Busy(a) \cup S
  BY QueueAssumption DEF Busy
<1>2. Busy(a) \cap S = {}
  BY DEF Busy
<1>3. IsFiniteSet(Busy(a)) /\ IsFiniteSet(S)
  BY FS_Subset, QueueAssumption DEF Busy
<1>4. Cardinality(Busy(a) \cap S) = 0
  BY <1>2, FS_EmptySet
<1>5. Cardinality(Busy(a)) \in Nat /\ Cardinality(S) \in Nat
  BY <1>3, FS_CardinalityType
<1>6. Cardinality(Busy(a) \cup S)
        = Cardinality(Busy(a)) + Cardinality(S) - Cardinality(Busy(a) \cap S)
  BY <1>3, FS_Union
<1>7. Cardinality(Busy(a) \cup S) = Cardinality(Busy(a)) + Cardinality(S)
  BY <1>4, <1>5, <1>6
<1> QED
  BY <1>1, <1>7

(* Freeing one busy lane lowers the count by one.                          *)
LEMMA FreeCounts ==
  ASSUME NEW a \in [Lanes -> Deliveries \cup {NoJob}],
         NEW l \in Lanes, a[l] # NoJob
  PROVE  /\ Cardinality(Busy([a EXCEPT ![l] = NoJob])) = Cardinality(Busy(a)) - 1
         /\ Cardinality(Busy(a)) \in Nat \ {0}
<1>1. Busy([a EXCEPT ![l] = NoJob]) = Busy(a) \ {l}
  BY DEF Busy
<1>2. IsFiniteSet(Busy(a)) /\ l \in Busy(a)
  BY FS_Subset, QueueAssumption DEF Busy
<1>3. Cardinality(Busy(a) \ {l}) = Cardinality(Busy(a)) - 1
  BY <1>2, FS_RemoveElement
<1>4. Cardinality(Busy(a)) \in Nat /\ Cardinality(Busy(a) \ {l}) \in Nat
  BY <1>2, FS_CardinalityType, FS_Subset
<1>5. Cardinality(Busy(a)) \in Nat \ {0}
  BY <1>2, FS_EmptySet, <1>4
<1> QED
  BY <1>1, <1>3, <1>5

(* What a call of pump() does, whoever makes it.                           *)
LEMMA PumpEffect ==
  ASSUME NEW w \in SUBSET Deliveries,
         NEW a \in [Lanes -> Deliveries \cup {NoJob}],
         NEW b, NEW t \in [Deliveries -> Nat],
         NEW r, r = Cardinality(Busy(a)), r <= MaxConcurrency,
         \A l \in Lanes : a[l] # NoJob => (JobLane[a[l]] = l /\ a[l] \notin w),
         Pump(w, a, b, t, r)
  PROVE  /\ waiting' \subseteq w
         /\ active' \in [Lanes -> Deliveries \cup {NoJob}]
         /\ running' \in Nat
         /\ RunningCounts'
         /\ WorkConserving'
         /\ running' >= r
         /\ \A l \in Lanes : a[l] # NoJob => active'[l] = a[l]
         /\ \A l \in Lanes :
              (active'[l] # a[l]) =>
                 (a[l] = NoJob /\ active'[l] \in w \ waiting' /\ IsHead(active'[l], l, w, t))
         /\ \A j \in w : j \in waiting' <=> active'[JobLane[j]] # j
PROOF
<1>1. PICK S \in SUBSET Lanes :
        /\ Picks(S, w, a, b, r)
        /\ \E head \in [S -> w] :
             /\ \A l \in S : IsHead(head[l], l, w, t)
             /\ waiting' = w \ {head[l] : l \in S}
             /\ active' = [l \in Lanes |-> IF l \in S THEN head[l] ELSE a[l]]
             /\ running' = r + Cardinality(S)
  BY DEF Pump
<1>2. PICK head \in [S -> w] :
        /\ \A l \in S : IsHead(head[l], l, w, t)
        /\ waiting' = w \ {head[l] : l \in S}
        /\ active' = [l \in Lanes |-> IF l \in S THEN head[l] ELSE a[l]]
        /\ running' = r + Cardinality(S)
  BY <1>1
<1>3. /\ S \subseteq Ready(w, a)
      /\ r + Cardinality(S) <= MaxConcurrency
      /\ S = Ready(w, a) \/ r + Cardinality(S) = MaxConcurrency
  BY <1>1 DEF Picks
<1>4. \A l \in S : a[l] = NoJob /\ head[l] \in w /\ JobLane[head[l]] = l
  BY <1>2, <1>3 DEF Ready, IsHead, InLane
<1>5. IsFiniteSet(S) /\ Cardinality(S) \in Nat
  BY QueueAssumption, FS_Subset, FS_CardinalityType
<1>6. IsFiniteSet(Busy(a)) /\ r \in Nat
  BY QueueAssumption, FS_Subset, FS_CardinalityType DEF Busy
<1>7. active' \in [Lanes -> Deliveries \cup {NoJob}]
  BY <1>2, <1>4
<1>8. running' \in Nat /\ running' >= r
  BY <1>2, <1>5, <1>6
<1>9. RunningCounts'
  <2>1. head \in [S -> Deliveries]
    BY <1>4
  <2>2. Cardinality(Busy(active')) = Cardinality(Busy(a)) + Cardinality(S)
    BY <2>1, <1>2, <1>4, StartCounts
  <2> QED
    BY <2>2, <1>2, <1>3 DEF RunningCounts, Busy
<1>10. WorkConserving'
  <2>1. CASE S = Ready(w, a)
    <3>1. \A l \in Lanes : active'[l] = NoJob => l \notin S
      BY <1>2, <1>4, QueueAssumption
    <3>2. Ready(waiting', active') \subseteq Ready(w, a) \ S
      BY <1>2, <3>1 DEF Ready, InLane
    <3> QED
      BY <3>2, <2>1 DEF WorkConserving, Ready, InLane
  <2>2. CASE r + Cardinality(S) = MaxConcurrency
    BY <2>2, <1>2 DEF WorkConserving
  <2> QED
    BY <1>3, <2>1, <2>2
<1>11. \A l \in Lanes : a[l] # NoJob => active'[l] = a[l]
  BY <1>2, <1>4
<1>12. \A l \in Lanes :
         (active'[l] # a[l]) =>
            (a[l] = NoJob /\ active'[l] \in w \ waiting' /\ IsHead(active'[l], l, w, t))
  BY <1>2, <1>4
<1>13. \A j \in w : j \in waiting' <=> active'[JobLane[j]] # j
  <2> SUFFICES ASSUME NEW j \in w
               PROVE  j \in waiting' <=> active'[JobLane[j]] # j
    OBVIOUS
  <2>1. JobLane[j] \in Lanes
    BY QueueAssumption
  <2>2. CASE \E l \in S : head[l] = j
    BY <2>1, <2>2, <1>2, <1>4
  <2>3. CASE ~ \E l \in S : head[l] = j
    <3>1. j \in waiting'
      BY <2>3, <1>2
    <3>2. a[JobLane[j]] # j
      BY <2>1, QueueAssumption
    <3> QED
      BY <3>1, <3>2, <2>1, <2>3, <1>2
  <2> QED
    BY <2>2, <2>3
<1>14. waiting' \subseteq w
  BY <1>2
<1> QED
  BY <1>7, <1>8, <1>9, <1>10, <1>11, <1>12, <1>13, <1>14

-----------------------------------------------------------------------------
LEMMA InitIInv == QueueInit => IInv
<1> SUFFICES ASSUME QueueInit PROVE IInv
  OBVIOUS
<1> USE DEF QueueInit
<1>1. QueueTypeOK
  BY DEF QueueTypeOK, Fates
<1>2. Busy(active) = {} /\ ActiveJobs = {}
  BY DEF Busy, ActiveJobs
<1>3. FateAgrees /\ TicketsInOrder
  BY <1>2 DEF FateAgrees, TicketsInOrder
<1>4. RunningCounts
  BY <1>2, FS_EmptySet, QueueAssumption DEF RunningCounts
<1>5. LaneResident /\ WorkConserving /\ NoDuplicateLiveKey
  BY <1>2 DEF LaneResident, WorkConserving, Ready, InLane, NoDuplicateLiveKey, Live
<1>6. LaneFIFO /\ NoLostWakeup
  BY DEF LaneFIFO, NoLostWakeup
<1> QED
  BY <1>1, <1>3, <1>4, <1>5, <1>6 DEF IInv

(* Under the invariant an active lane is found from its job.               *)
LEMMA ActiveLane ==
  ASSUME QueueTypeOK, FateAgrees
  PROVE  /\ \A j \in Deliveries : j \in ActiveJobs <=> active[JobLane[j]] = j
         /\ ActiveJobs \subseteq Deliveries
         /\ \A l \in Lanes : active[l] # NoJob => (JobLane[active[l]] = l /\ active[l] \notin waiting)
         /\ \A l \in Lanes : active[l] # NoJob => active[l] \in ActiveJobs
BY QueueAssumption DEF QueueTypeOK, FateAgrees, ActiveJobs, Busy

LEMMA AcceptIInv ==
  ASSUME IInv, NEW j \in Deliveries, fate[j] = "unseen", Accept(j)
  PROVE  IInv'
<1> DEFINE l == JobLane[j]
           t == [ticket EXCEPT ![j] = clock + 1]
           b == IF born[l] = 0 THEN [born EXCEPT ![l] = clock + 1] ELSE born
           w == waiting \cup {j}
<1>1. /\ ~ Has(JobKey[j])
      /\ clock' = clock + 1
      /\ ticket' = t
      /\ born' = b
      /\ Pump(w, active, b, t, running)
      /\ fate' = [fate EXCEPT ![j] = "accepted"]
      /\ UNCHANGED <<aborted, began, idlers>>
  BY DEF Accept
<1>2. QueueTypeOK /\ FateAgrees /\ TicketsInOrder
  BY DEF IInv
<1>3. /\ l \in Lanes /\ t \in [Deliveries -> Nat] /\ b \in [Lanes -> Nat]
      /\ w \in SUBSET Deliveries /\ clock \in Nat
  BY <1>2, QueueAssumption DEF QueueTypeOK
<1>4. j \notin waiting /\ j \notin ActiveJobs /\ j \notin began /\ ticket[j] = 0
  BY <1>2, ActiveLane DEF FateAgrees, TicketsInOrder
<1>5. \A m \in Lanes : active[m] # NoJob => (JobLane[active[m]] = m /\ active[m] \notin w)
  BY <1>2, <1>4, ActiveLane
<1>6. /\ waiting' \subseteq w
      /\ active' \in [Lanes -> Deliveries \cup {NoJob}]
      /\ running' \in Nat
      /\ RunningCounts'
      /\ WorkConserving'
      /\ running' >= running
      /\ \A m \in Lanes : active[m] # NoJob => active'[m] = active[m]
      /\ \A m \in Lanes :
           (active'[m] # active[m]) =>
              (active[m] = NoJob /\ active'[m] \in w \ waiting' /\ IsHead(active'[m], m, w, t))
      /\ \A i \in w : i \in waiting' <=> active'[JobLane[i]] # i
  <2>1. active \in [Lanes -> Deliveries \cup {NoJob}] /\ running = Cardinality(Busy(active))
        /\ running <= MaxConcurrency
    BY <1>2 DEF QueueTypeOK, RunningCounts, IInv
  <2>2. Pump(w, active, b, t, running)
    BY <1>1
  <2>3. w \in SUBSET Deliveries /\ t \in [Deliveries -> Nat]
    BY <1>3
  <2> HIDE DEF w, b, t, l
  <2> QED
    BY <1>5, <2>1, <2>2, <2>3, PumpEffect
<1>7. QueueTypeOK'
  BY <1>1, <1>2, <1>3, <1>6 DEF QueueTypeOK, Fates
<1>8. \A m \in Lanes : active'[m] # NoJob => JobLane[active'[m]] = m
  BY <1>5, <1>6 DEF IsHead, InLane
<1>9. \A i \in Deliveries : i \in ActiveJobs' <=> active'[JobLane[i]] = i
  BY <1>7, <1>8, QueueAssumption DEF ActiveJobs, Busy, QueueTypeOK
<1>10. \A i \in Deliveries : i \in ActiveJobs => i \in ActiveJobs'
  BY <1>2, <1>6, <1>9, ActiveLane, QueueAssumption
<1>11. \A i \in ActiveJobs' : i \in ActiveJobs \/ (i \in w /\ i \notin waiting')
  <2> SUFFICES ASSUME NEW i \in ActiveJobs'
               PROVE  i \in ActiveJobs \/ (i \in w /\ i \notin waiting')
    OBVIOUS
  <2>1. PICK m \in Lanes : active'[m] = i /\ i # NoJob
    BY DEF ActiveJobs, Busy
  <2> QED
    BY <2>1, <1>6, <1>2, ActiveLane
<1>12. FateAgrees'
  <2>1. \A i \in Deliveries : fate'[i] = "accepted" <=> (i \in waiting' \/ i \in ActiveJobs')
    <3> SUFFICES ASSUME NEW i \in Deliveries
                 PROVE  fate'[i] = "accepted" <=> (i \in waiting' \/ i \in ActiveJobs')
      OBVIOUS
    <3>1. CASE i \in w
      <4>1. i \in waiting' \/ i \in ActiveJobs'
        BY <3>1, <1>6, <1>9
      <4>2. fate'[i] = "accepted"
        BY <3>1, <1>1, <1>2 DEF FateAgrees, QueueTypeOK
      <4> QED
        BY <4>1, <4>2
    <3>2. CASE i \notin w
      <4>1. fate'[i] = fate[i] /\ i \notin waiting /\ i \notin waiting'
        BY <3>2, <1>1, <1>2, <1>6 DEF QueueTypeOK
      <4> QED
        BY <4>1, <3>2, <1>2, <1>10, <1>11 DEF FateAgrees
    <3> QED
      BY <3>1, <3>2
  <2>2. waiting' \cap ActiveJobs' = {}
    BY <1>3, <1>6, <1>9
  <2>3. aborted' \subseteq ActiveJobs'
    BY <1>1, <1>2, <1>10 DEF FateAgrees, QueueTypeOK
  <2>4. \A i \in began' : i \in ActiveJobs' \/ fate'[i] = "ran"
    BY <1>1, <1>2, <1>4, <1>10 DEF FateAgrees, QueueTypeOK
  <2> QED
    BY <1>8, <2>1, <2>2, <2>3, <2>4 DEF FateAgrees
<1>13. TicketsInOrder'
  BY <1>1, <1>2, <1>4 DEF TicketsInOrder, QueueTypeOK
<1>14. LaneResident'
  <2> SUFFICES ASSUME NEW m \in Lanes
               PROVE  b[m] # 0 <=> (active'[m] # NoJob \/ InLane(waiting', m) # {})
    BY <1>1 DEF LaneResident
  <2>1. LaneResident
    BY DEF IInv
  <2>2. CASE m = l
    <3>1. b[m] # 0
      BY <2>2, <1>2, <1>3 DEF QueueTypeOK
    <3>2. active'[m] # NoJob \/ j \in InLane(waiting', m)
      BY <2>2, <1>6, QueueAssumption DEF InLane
    <3> QED
      BY <3>1, <3>2
  <2>3. CASE m # l
    <3>1. b[m] = born[m]
      BY <2>3, <1>2 DEF QueueTypeOK
    <3>2. InLane(w, m) = InLane(waiting, m)
      BY <2>3 DEF InLane
    <3>3. ASSUME active'[m] # NoJob \/ InLane(waiting', m) # {}
          PROVE  active[m] # NoJob \/ InLane(waiting, m) # {}
      BY <3>2, <3>3, <1>6 DEF InLane, IsHead
    <3>4. ASSUME active[m] # NoJob \/ InLane(waiting, m) # {}
          PROVE  active'[m] # NoJob \/ InLane(waiting', m) # {}
      BY <3>2, <3>4, <1>6, QueueAssumption, <1>2 DEF InLane, QueueTypeOK
    <3> QED
      BY <2>1, <3>1, <3>3, <3>4 DEF LaneResident
  <2> QED
    BY <2>2, <2>3
<1>15. NoDuplicateLiveKey'
  <2> SUFFICES ASSUME NEW i \in Deliveries, NEW k \in Deliveries, Live(i)', Live(k)',
                      JobKey[i] = JobKey[k], JobKey[i] # NoKey
               PROVE  i = k
    BY DEF NoDuplicateLiveKey
  <2>1. (Live(i) \/ i = j) /\ (Live(k) \/ k = j)
    BY <1>1, <1>6, <1>11 DEF Live
  <2>2. \A m \in Deliveries : (Live(m) /\ JobKey[m] = JobKey[j]) => JobKey[j] = NoKey
    BY <1>1 DEF Live, Has, ActiveJobs
  <2> QED
    BY <2>1, <2>2 DEF NoDuplicateLiveKey, IInv
<1>16. LaneFIFO'
  <2> SUFFICES ASSUME NEW i \in Deliveries, NEW k \in Deliveries,
                      i \in waiting', JobLane[i] = JobLane[k], t[i] < t[k]
               PROVE  k \in waiting' \/ fate'[k] = "removed"
    BY <1>1 DEF LaneFIFO
  <2>1. i \in w /\ active'[JobLane[i]] # i
    BY <1>6
  <2>2. t[i] # 0
    BY <2>1, <1>2, <1>3, <1>13, <1>1, <1>12 DEF TicketsInOrder, FateAgrees
  <2>3. CASE k = j
    <3>1. ~ IsHead(k, JobLane[k], w, t)
      <4>1. IsHead(k, JobLane[k], w, t) => t[k] <= t[i]
        BY <2>1 DEF IsHead, InLane
      <4> HIDE DEF t
      <4> QED
        BY <4>1, <1>3
    <3>2. active[JobLane[k]] # k
      BY <2>3, <1>3, <1>5, QueueAssumption
    <3>3. active'[JobLane[k]] # k
      <4> HIDE DEF t, w
      <4> QED
        BY <3>1, <3>2, <1>6, QueueAssumption
    <3> QED
      BY <3>3, <2>3, <1>6
  <2>4. CASE k # j
    <3>1. i # j
      BY <2>4, <1>2, <1>3 DEF TicketsInOrder, QueueTypeOK
    <3>2. ticket[i] < ticket[k] /\ i \in waiting /\ fate'[k] = fate[k]
      BY <2>1, <2>4, <3>1, <1>1, <1>2 DEF QueueTypeOK
    <3>3. k \in waiting \/ fate[k] = "removed"
      BY <3>2 DEF IInv, LaneFIFO
    <3>4. CASE k \in waiting
      <4>1. active[JobLane[k]] # k
        BY <3>4, <1>2, ActiveLane, QueueAssumption DEF FateAgrees
      <4>2. ~ IsHead(k, JobLane[k], w, t)
        <5>1. IsHead(k, JobLane[k], w, t) => t[k] <= t[i]
          BY <2>1 DEF IsHead, InLane
        <5> HIDE DEF t
        <5> QED
          BY <5>1, <1>3
      <4>3. active'[JobLane[k]] # k
        <5>1. JobLane[k] \in Lanes
          BY QueueAssumption
        <5> HIDE DEF t, w
        <5>2. \A m \in Lanes : active'[m] # active[m] => IsHead(active'[m], m, w, t)
          BY <1>6
        <5> QED
          BY <5>1, <5>2, <4>1, <4>2
      <4>4. \A m \in w : m \in waiting' <=> active'[JobLane[m]] # m
        BY <1>6
      <4>5. k \in w
        BY <3>4
      <4> HIDE DEF w
      <4> QED
        BY <4>3, <4>4, <4>5
    <3> QED
      BY <3>2, <3>3, <3>4
  <2> QED
    BY <2>3, <2>4
<1>17. NoLostWakeup'
  <2>1. running' > 0 \/ waiting' # {}
    <3>1. CASE j \in waiting'
      BY <3>1
    <3>2. CASE j \notin waiting'
      <4>1. active'[l] = j
        BY <3>2, <1>6
      <4>2. l \in Busy(active')
        BY <4>1, <1>3, QueueAssumption DEF Busy
      <4>3. IsFiniteSet(Busy(active'))
        BY FS_Subset, QueueAssumption DEF Busy
      <4>4. Cardinality(Busy(active')) # 0
        BY <4>2, <4>3, FS_EmptySet
      <4> QED
        BY <4>4, <1>6 DEF RunningCounts, Busy
    <3> QED
      BY <3>1, <3>2
  <2> QED
    BY <2>1 DEF NoLostWakeup
<1> QED
  BY <1>6, <1>7, <1>12, <1>13, <1>14, <1>15, <1>16, <1>17 DEF IInv

LEMMA SettleIInv ==
  ASSUME IInv, NEW l \in Lanes, Settle(l)
  PROVE  IInv'
<1> DEFINE j == active[l]
           a == [active EXCEPT ![l] = NoJob]
           b == IF InLane(waiting, l) = {} THEN [born EXCEPT ![l] = 0] ELSE born
<1>1. /\ j # NoJob
      /\ j \in began \cup aborted
      /\ born' = b
      /\ Pump(waiting, a, b, ticket, running - 1)
      /\ ResolveIdle
      /\ aborted' = aborted \ {j}
      /\ fate' = [fate EXCEPT ![j] = IF j \in began THEN "ran" ELSE "skipped"]
      /\ UNCHANGED <<ticket, began, clock>>
  BY DEF Settle
<1>2. QueueTypeOK /\ FateAgrees /\ TicketsInOrder /\ RunningCounts
  BY DEF IInv
<1>3. /\ j \in Deliveries /\ j \in ActiveJobs /\ JobLane[j] = l /\ j \notin waiting
      /\ fate[j] = "accepted"
  BY <1>1, <1>2, ActiveLane DEF QueueTypeOK, FateAgrees
<1>4. /\ a \in [Lanes -> Deliveries \cup {NoJob}] /\ b \in [Lanes -> Nat]
      /\ waiting \in SUBSET Deliveries /\ ticket \in [Deliveries -> Nat]
      /\ a[l] = NoJob /\ \A m \in Lanes \ {l} : a[m] = active[m]
  BY <1>2 DEF QueueTypeOK
<1>5. \A m \in Lanes : a[m] # NoJob => (JobLane[a[m]] = m /\ a[m] \notin waiting)
  BY <1>2, <1>4, ActiveLane
<1>6. /\ waiting' \subseteq waiting
      /\ active' \in [Lanes -> Deliveries \cup {NoJob}]
      /\ running' \in Nat
      /\ RunningCounts'
      /\ WorkConserving'
      /\ running' >= running - 1
      /\ \A m \in Lanes : a[m] # NoJob => active'[m] = a[m]
      /\ \A m \in Lanes :
           (active'[m] # a[m]) =>
              (a[m] = NoJob /\ active'[m] \in waiting \ waiting'
                 /\ IsHead(active'[m], m, waiting, ticket))
      /\ \A i \in waiting : i \in waiting' <=> active'[JobLane[i]] # i
  <2>1. active \in [Lanes -> Deliveries \cup {NoJob}] /\ running = Cardinality(Busy(active))
        /\ running <= MaxConcurrency /\ running \in Nat
    BY <1>2 DEF QueueTypeOK, RunningCounts
  <2>2. Cardinality(Busy(a)) = running - 1
    BY <2>1, <1>1, FreeCounts
  <2>3. running - 1 <= MaxConcurrency
    BY <2>1, QueueAssumption
  <2> HIDE DEF a, b, j
  <2> QED
    BY <1>1, <1>4, <1>5, <2>2, <2>3, PumpEffect
<1>7. QueueTypeOK'
  BY <1>1, <1>2, <1>3, <1>4, <1>6 DEF QueueTypeOK, Fates, ResolveIdle
<1>8. \A m \in Lanes : active'[m] # NoJob => JobLane[active'[m]] = m
  BY <1>5, <1>6 DEF IsHead, InLane
<1>9. \A i \in Deliveries : i \in ActiveJobs' <=> active'[JobLane[i]] = i
  BY <1>7, <1>8, QueueAssumption DEF ActiveJobs, Busy, QueueTypeOK
<1>10. \A i \in ActiveJobs : i # j => i \in ActiveJobs'
  <2> SUFFICES ASSUME NEW i \in ActiveJobs, i # j PROVE i \in ActiveJobs'
    OBVIOUS
  <2>1. i \in Deliveries /\ active[JobLane[i]] = i /\ JobLane[i] \in Lanes
    BY <1>2, ActiveLane, QueueAssumption
  <2>2. a[JobLane[i]] = i /\ i # NoJob
    BY <2>1, <1>4, QueueAssumption
  <2> HIDE DEF a, j
  <2> QED
    BY <2>1, <2>2, <1>6, <1>9
<1>11. \A i \in ActiveJobs' : (i \in ActiveJobs /\ i # j) \/ (i \in waiting /\ i \notin waiting')
  <2> SUFFICES ASSUME NEW i \in ActiveJobs'
               PROVE  (i \in ActiveJobs /\ i # j) \/ (i \in waiting /\ i \notin waiting')
    OBVIOUS
  <2>1. PICK m \in Lanes : active'[m] = i /\ i # NoJob
    BY DEF ActiveJobs, Busy
  <2>2. CASE active'[m] = a[m]
    <3>1. m # l /\ active[m] = i
      BY <2>1, <2>2, <1>4
    <3>2. i \in ActiveJobs /\ JobLane[i] = m
      BY <3>1, <2>1, <1>2, ActiveLane
    <3> QED
      BY <3>1, <3>2, <1>3
  <2>3. CASE active'[m] # a[m]
    BY <2>1, <2>3, <1>6
  <2> QED
    BY <2>2, <2>3
<1>12. FateAgrees'
  <2>0. j \notin ActiveJobs' /\ j \notin waiting' /\ fate'[j] \in {"ran", "skipped"}
    BY <1>1, <1>2, <1>3, <1>6, <1>11 DEF QueueTypeOK
  <2>1. \A i \in Deliveries : fate'[i] = "accepted" <=> (i \in waiting' \/ i \in ActiveJobs')
    <3> SUFFICES ASSUME NEW i \in Deliveries, i # j
                 PROVE  fate'[i] = "accepted" <=> (i \in waiting' \/ i \in ActiveJobs')
      BY <2>0
    <3>1. fate'[i] = fate[i]
      BY <1>1, <1>2 DEF QueueTypeOK
    <3>2. (i \in waiting \/ i \in ActiveJobs) <=> (i \in waiting' \/ i \in ActiveJobs')
      BY <1>6, <1>9, <1>10, <1>11
    <3> QED
      BY <3>1, <3>2, <1>2 DEF FateAgrees
  <2>2. waiting' \cap ActiveJobs' = {}
    BY <1>4, <1>6, <1>9
  <2>3. aborted' \subseteq ActiveJobs'
    BY <1>1, <1>2, <1>10 DEF FateAgrees
  <2>4. \A i \in began' : i \in ActiveJobs' \/ fate'[i] = "ran"
    BY <1>1, <1>2, <1>10 DEF FateAgrees, QueueTypeOK
  <2> QED
    BY <1>8, <2>1, <2>2, <2>3, <2>4 DEF FateAgrees
<1>13. TicketsInOrder'
  BY <1>1, <1>2, <1>3 DEF TicketsInOrder, QueueTypeOK
<1>14. LaneResident'
  <2> SUFFICES ASSUME NEW m \in Lanes
               PROVE  b[m] # 0 <=> (active'[m] # NoJob \/ InLane(waiting', m) # {})
    BY <1>1 DEF LaneResident
  <2>1. LaneResident
    BY DEF IInv
  <2>2. (a[m] # NoJob \/ InLane(waiting, m) # {})
        <=> (active'[m] # NoJob \/ InLane(waiting', m) # {})
    <3> HIDE DEF a, b
    <3>1. ASSUME active'[m] # NoJob \/ InLane(waiting', m) # {}
          PROVE  a[m] # NoJob \/ InLane(waiting, m) # {}
      BY <3>1, <1>6 DEF InLane, IsHead
    <3>2. ASSUME a[m] # NoJob \/ InLane(waiting, m) # {}
          PROVE  active'[m] # NoJob \/ InLane(waiting', m) # {}
      BY <3>2, <1>4, <1>6, QueueAssumption DEF InLane
    <3> QED
      BY <3>1, <3>2
  <2>3. b[m] # 0 <=> (a[m] # NoJob \/ InLane(waiting, m) # {})
    <3>1. CASE m = l
      BY <3>1, <2>1, <1>1, <1>2, <1>4 DEF LaneResident, QueueTypeOK
    <3>2. CASE m # l
      BY <3>2, <2>1, <1>2, <1>4 DEF LaneResident, QueueTypeOK
    <3> QED
      BY <3>1, <3>2
  <2> QED
    BY <2>2, <2>3
<1>15. NoDuplicateLiveKey'
  <2> SUFFICES ASSUME NEW i \in Deliveries, NEW k \in Deliveries, Live(i)', Live(k)',
                      JobKey[i] = JobKey[k], JobKey[i] # NoKey
               PROVE  i = k
    BY DEF NoDuplicateLiveKey
  <2>1. Live(i) /\ Live(k)
    BY <1>1, <1>6, <1>11 DEF Live
  <2> QED
    BY <2>1 DEF NoDuplicateLiveKey, IInv
<1>16. LaneFIFO'
  <2> SUFFICES ASSUME NEW i \in Deliveries, NEW k \in Deliveries,
                      i \in waiting', JobLane[i] = JobLane[k], ticket[i] < ticket[k]
               PROVE  k \in waiting' \/ fate'[k] = "removed"
    BY <1>1 DEF LaneFIFO
  <2>1. i \in waiting /\ (k \in waiting \/ fate[k] = "removed")
    BY <1>6 DEF IInv, LaneFIFO
  <2>2. CASE fate[k] = "removed"
    BY <2>2, <1>1, <1>2, <1>3 DEF QueueTypeOK
  <2>3. CASE k \in waiting
    <3>1. ~ IsHead(k, JobLane[k], waiting, ticket)
      <4>1. IsHead(k, JobLane[k], waiting, ticket) => ticket[k] <= ticket[i]
        BY <2>1 DEF IsHead, InLane
      <4> QED
        BY <4>1, <1>4
    <3>2. a[JobLane[k]] # k /\ JobLane[k] \in Lanes
      BY <2>3, <1>4, <1>5, QueueAssumption
    <3>3. active'[JobLane[k]] # k
      <4> HIDE DEF a
      <4> QED
        BY <3>1, <3>2, <1>6
    <3> QED
      BY <3>3, <2>3, <1>6
  <2> QED
    BY <2>1, <2>2, <2>3
<1>17. NoLostWakeup'
  BY <1>1, <1>6 DEF ResolveIdle, NoLostWakeup
<1> QED
  BY <1>6, <1>7, <1>12, <1>13, <1>14, <1>15, <1>16, <1>17 DEF IInv

LEMMA CancelIInv ==
  ASSUME IInv, NEW k \in Keys, Cancel(k)
  PROVE  IInv'
<1> DEFINE gone == {j \in waiting : JobKey[j] = k}
<1>1. /\ waiting' = waiting \ gone
      /\ aborted' = aborted \cup {j \in ActiveJobs : JobKey[j] = k}
      /\ born' = [l \in Lanes |->
                    IF active[l] = NoJob /\ InLane(waiting \ gone, l) = {}
                    THEN 0 ELSE born[l]]
      /\ fate' = [j \in Deliveries |-> IF j \in gone THEN "removed" ELSE fate[j]]
      /\ UNCHANGED <<ticket, active, began, running, clock>>
      /\ ResolveIdle
  BY DEF Cancel
<1>2. QueueTypeOK /\ FateAgrees /\ TicketsInOrder
  BY DEF IInv
<1>3. ActiveJobs' = ActiveJobs /\ ActiveJobs \subseteq Deliveries
  BY <1>1, <1>2, ActiveLane DEF ActiveJobs, Busy
<1>4. QueueTypeOK'
  BY <1>1, <1>2, <1>3 DEF QueueTypeOK, Fates, ResolveIdle
<1>5. FateAgrees'
  BY <1>1, <1>2, <1>3 DEF FateAgrees, QueueTypeOK
<1>6. TicketsInOrder'
  BY <1>1, <1>2 DEF TicketsInOrder, FateAgrees, QueueTypeOK
<1>7. RunningCounts'
  BY <1>1 DEF IInv, RunningCounts, Busy
<1>8. LaneResident'
  <2>1. \A l \in Lanes : InLane(waiting \ gone, l) \subseteq InLane(waiting, l)
    BY DEF InLane
  <2> QED
    BY <1>1, <2>1 DEF IInv, LaneResident
<1>9. WorkConserving'
  <2>1. Ready(waiting', active') \subseteq Ready(waiting, active)
    BY <1>1 DEF Ready, InLane
  <2> QED
    BY <1>1, <2>1 DEF IInv, WorkConserving
<1>10. NoDuplicateLiveKey'
  BY <1>1, <1>3 DEF IInv, NoDuplicateLiveKey, Live
<1>11. LaneFIFO'
  BY <1>1, <1>2 DEF IInv, LaneFIFO, QueueTypeOK
<1>12. NoLostWakeup'
  BY <1>1, <1>4 DEF NoLostWakeup, ResolveIdle, QueueTypeOK
<1> QED
  BY <1>4, <1>5, <1>6, <1>7, <1>8, <1>9, <1>10, <1>11, <1>12 DEF IInv

LEMMA CancelActiveIInv ==
  ASSUME IInv, NEW L \in SUBSET Lanes, CancelActive(L)
  PROVE  IInv'
<1>1. /\ aborted' = aborted \cup {active[l] : l \in L \cap Busy(active)}
      /\ UNCHANGED <<waiting, ticket, born, active, began, running, clock, idlers, fate>>
  BY DEF CancelActive
<1>2. QueueTypeOK /\ FateAgrees
  BY DEF IInv
<1>3. ActiveJobs' = ActiveJobs /\ ActiveJobs \subseteq Deliveries
  BY <1>1, <1>2, ActiveLane DEF ActiveJobs, Busy
<1>4. {active[l] : l \in L \cap Busy(active)} \subseteq ActiveJobs
  BY DEF ActiveJobs
<1>5. QueueTypeOK' /\ FateAgrees'
  BY <1>1, <1>2, <1>3, <1>4 DEF QueueTypeOK, FateAgrees
<1>6. NoDuplicateLiveKey'
  BY <1>1, <1>3 DEF IInv, NoDuplicateLiveKey, Live
<1> QED
  BY <1>1, <1>5, <1>6
  DEF IInv, TicketsInOrder, RunningCounts, Busy, LaneResident, InLane, WorkConserving,
      Ready, LaneFIFO, NoLostWakeup

LEMMA BeginIInv ==
  ASSUME IInv, NEW l \in Lanes, Begin(l)
  PROVE  IInv'
<1>1. /\ active[l] # NoJob
      /\ began' = began \cup {active[l]}
      /\ UNCHANGED <<waiting, ticket, born, active, aborted, running, clock, idlers, fate>>
  BY DEF Begin
<1>2. QueueTypeOK /\ FateAgrees
  BY DEF IInv
<1>3. ActiveJobs' = ActiveJobs /\ active[l] \in ActiveJobs /\ active[l] \in Deliveries
  BY <1>1, <1>2, ActiveLane DEF ActiveJobs, Busy
<1>4. fate[active[l]] = "accepted"
  BY <1>2, <1>3 DEF FateAgrees
<1>5. QueueTypeOK' /\ FateAgrees'
  BY <1>1, <1>2, <1>3 DEF QueueTypeOK, FateAgrees
<1>6. NoDuplicateLiveKey'
  BY <1>1, <1>3 DEF IInv, NoDuplicateLiveKey, Live
<1> QED
  BY <1>1, <1>5, <1>6
  DEF IInv, TicketsInOrder, RunningCounts, Busy, LaneResident, InLane, WorkConserving,
      Ready, LaneFIFO, NoLostWakeup

LEMMA IdleIInv ==
  ASSUME IInv, NEW u \in Waiters, Idle(u)
  PROVE  IInv'
<1>1. /\ idlers' = IF running = 0 /\ waiting = {} THEN idlers ELSE idlers \cup {u}
      /\ UNCHANGED <<waiting, ticket, born, active, aborted, began, running, clock, fate>>
  BY DEF Idle
<1>2. QueueTypeOK' /\ NoLostWakeup'
  BY <1>1 DEF IInv, QueueTypeOK, NoLostWakeup
<1> QED
  BY <1>1, <1>2
  DEF IInv, FateAgrees, ActiveJobs, TicketsInOrder, RunningCounts, Busy, LaneResident,
      InLane, WorkConserving, Ready, NoDuplicateLiveKey, Live, LaneFIFO

LEMMA DedupeIInv ==
  ASSUME IInv, NEW j \in Deliveries, fate[j] = "unseen", Dedupe(j)
  PROVE  IInv'
<1>1. /\ fate' = [fate EXCEPT ![j] = "deduped"]
      /\ UNCHANGED <<waiting, ticket, born, active, aborted, began, running, clock, idlers>>
  BY DEF Dedupe
<1>2. QueueTypeOK /\ FateAgrees /\ TicketsInOrder
  BY DEF IInv
<1>3. ActiveJobs' = ActiveJobs
  BY <1>1 DEF ActiveJobs, Busy
<1>4. QueueTypeOK' /\ FateAgrees' /\ TicketsInOrder'
  BY <1>1, <1>2, <1>3 DEF QueueTypeOK, Fates, FateAgrees, TicketsInOrder
<1>5. NoDuplicateLiveKey' /\ LaneFIFO'
  BY <1>1, <1>2, <1>3
  DEF IInv, NoDuplicateLiveKey, Live, LaneFIFO, QueueTypeOK
<1> QED
  BY <1>1, <1>4, <1>5
  DEF IInv, RunningCounts, Busy, LaneResident, InLane, WorkConserving, Ready, NoLostWakeup

LEMMA StutterIInv == IInv /\ UNCHANGED queueVars => IInv'
BY DEF queueVars, IInv, QueueTypeOK, FateAgrees, ActiveJobs, TicketsInOrder, RunningCounts, Busy,
       LaneResident, InLane, WorkConserving, Ready, NoDuplicateLiveKey, Live, LaneFIFO,
       NoLostWakeup

LEMMA NextIInv == IInv /\ [QueueNext]_queueVars => IInv'
<1> SUFFICES ASSUME IInv, [QueueNext]_queueVars PROVE IInv'
  OBVIOUS
<1>1. ASSUME NEW j \in Deliveries, Enqueue(j) PROVE IInv'
  BY <1>1, DedupeIInv, AcceptIInv DEF Enqueue
<1>2. ASSUME NEW l \in Lanes, Begin(l) \/ Settle(l) PROVE IInv'
  BY <1>2, BeginIInv, SettleIInv
<1>3. ASSUME NEW k \in Keys, Cancel(k) PROVE IInv'
  BY <1>3, CancelIInv
<1>4. ASSUME NEW l \in Lanes, CancelActive({l}) PROVE IInv'
  <2>1. {l} \in SUBSET Lanes
    OBVIOUS
  <2> QED
    BY <1>4, <2>1, CancelActiveIInv
<1>5. CASE CancelActive(Lanes)
  <2>1. Lanes \in SUBSET Lanes
    OBVIOUS
  <2> QED
    BY <1>5, <2>1, CancelActiveIInv
<1>6. ASSUME NEW u \in Waiters, Idle(u) PROVE IInv'
  BY <1>6, IdleIInv
<1>7. CASE UNCHANGED queueVars
  BY <1>7, StutterIInv
<1> QED
  BY <1>1, <1>2, <1>3, <1>4, <1>5, <1>6, <1>7 DEF QueueNext

-----------------------------------------------------------------------------
(* The work queue keeps its invariant forever: the lanes' slots, the       *)
(* counter, the Map of lanes, the keys and the arrays agree in every state *)
(* createQueue can reach.                                                  *)
THEOREM QueueInvariant == QueueSpec => []IInv
<1>1. QueueInit => IInv
  BY InitIInv
<1>2. IInv /\ [QueueNext]_queueVars => IInv'
  BY NextIInv
<1> QED
  BY <1>1, <1>2, PTL DEF QueueSpec

(* Every variable of the queue keeps its type.                             *)
THEOREM QueueTypeCorrect == QueueSpec => []QueueTypeOK
<1>1. IInv => QueueTypeOK
  BY DEF IInv
<1> QED
  BY <1>1, QueueInvariant, PTL

(* running is the number of busy lanes and never exceeds the cap.          *)
THEOREM CapHolds == QueueSpec => []RunningCounts
<1>1. IInv => RunningCounts
  BY DEF IInv
<1> QED
  BY <1>1, QueueInvariant, PTL

(* The Map holds exactly the lanes with something to do.                   *)
THEOREM LanesAreResident == QueueSpec => []LaneResident
<1>1. IInv => LaneResident
  BY DEF IInv
<1> QED
  BY <1>1, QueueInvariant, PTL

(* No slot is free while a lane could use it.                              *)
THEOREM NoIdleSlot == QueueSpec => []WorkConserving
<1>1. IInv => WorkConserving
  BY DEF IInv
<1> QED
  BY <1>1, QueueInvariant, PTL

(* A key is live at most once.                                             *)
THEOREM KeysAreUnique == QueueSpec => []NoDuplicateLiveKey
<1>1. IInv => NoDuplicateLiveKey
  BY DEF IInv
<1> QED
  BY <1>1, QueueInvariant, PTL

(* A lane starts its jobs in the order they were accepted.                 *)
THEOREM LanesAreFIFO == QueueSpec => []LaneFIFO
<1>1. IInv => LaneFIFO
  BY DEF IInv
<1> QED
  BY <1>1, QueueInvariant, PTL

(* A pending idle() always has a run or a queued job that will wake it.    *)
THEOREM IdleIsNotForgotten == QueueSpec => []NoLostWakeup
<1>1. IInv => NoLostWakeup
  BY DEF IInv
<1> QED
  BY <1>1, QueueInvariant, PTL

-----------------------------------------------------------------------------
(* Where a job stands in the abstract service, read off the containers.    *)
LEMMA StageFacts ==
  ASSUME IInv
  PROVE  /\ Stages \in [Deliveries -> {"unseen", "refused", "waiting", "running", "over"}]
         /\ \A j \in Deliveries : Stages[j] = "running" <=> j \in ActiveJobs
         /\ \A j \in Deliveries : Stages[j] = "waiting" <=> j \in waiting
         /\ \A j \in Deliveries : Stages[j] = "unseen" <=> fate[j] = "unseen"
         /\ \A j \in Deliveries : Stages[j] = "refused" <=> fate[j] = "deduped"
         /\ \A j \in Deliveries : Stages[j] = "over" <=> fate[j] \in {"ran", "skipped", "removed"}
BY DEF IInv, QueueTypeOK, Fates, FateAgrees, Stages, Stage

ServedRight == Abs!OneTurnPerLane(Stages) /\ Abs!WithinCap(Stages)

LEMMA ServedLanes == IInv => ServedRight
<1> SUFFICES ASSUME IInv PROVE ServedRight
  OBVIOUS
<1> DEFINE serving == {JobLane[j] : j \in Abs!Served(Stages)}
<1>1. QueueTypeOK /\ FateAgrees /\ RunningCounts
  BY DEF IInv
<1>2. Abs!Served(Stages) = {j \in Deliveries : active[JobLane[j]] = j}
  BY <1>1, StageFacts, ActiveLane DEF Abs!Served
<1>3. Abs!OneTurnPerLane(Stages)
  BY <1>2 DEF Abs!OneTurnPerLane
<1>4. serving \in SUBSET Busy(active)
  BY <1>2, QueueAssumption DEF Busy
<1>5. IsFiniteSet(Busy(active))
  BY FS_Subset, QueueAssumption DEF Busy
<1>6. Cardinality(serving) <= Cardinality(Busy(active)) /\ IsFiniteSet(serving)
  <2> HIDE DEF serving
  <2> QED
    BY <1>4, <1>5, FS_Subset
<1>7. Cardinality(serving) <= MaxConcurrency
  <2>1. Cardinality(Busy(active)) <= MaxConcurrency
    BY <1>1 DEF RunningCounts
  <2>2. Cardinality(serving) \in Nat /\ Cardinality(Busy(active)) \in Nat
    BY <1>5, <1>6, FS_CardinalityType
  <2> HIDE DEF serving
  <2> QED
    BY <1>6, <2>1, <2>2, QueueAssumption
<1>8. Abs!WithinCap(Stages)
  <2>1. Abs!Cardinality(serving) = Cardinality(serving)
    BY DEF Abs!Cardinality, Cardinality
  <2> QED
    BY <1>7, <2>1 DEF Abs!WithinCap
<1> QED
  BY <1>3, <1>8 DEF ServedRight

(* A running job was accepted before every job its lane keeps waiting.     *)
EarlierRuns ==
  \A i, j \in Deliveries :
    (JobLane[i] = JobLane[j] /\ Stages[j] = "running" /\ Stages[i] = "waiting")
    => ticket[j] < ticket[i]

LEMMA RunningIsEarlier == IInv => EarlierRuns
<1> SUFFICES ASSUME IInv, NEW i \in Deliveries, NEW j \in Deliveries, JobLane[i] = JobLane[j],
                    Stages[j] = "running", Stages[i] = "waiting"
             PROVE  ticket[j] < ticket[i]
  BY DEF EarlierRuns
<1>1. i \in waiting /\ j \in ActiveJobs
  BY StageFacts
<1>2. fate[j] = "accepted" /\ fate[i] = "accepted" /\ j \notin waiting
  BY <1>1 DEF IInv, FateAgrees
<1>3. ~ (ticket[i] < ticket[j])
  BY <1>1, <1>2 DEF IInv, LaneFIFO
<1>4. ticket[i] # ticket[j]
  BY <1>1, <1>2 DEF IInv, TicketsInOrder
<1>5. ticket[i] \in Nat /\ ticket[j] \in Nat
  BY DEF IInv, QueueTypeOK
<1> QED
  BY <1>3, <1>4, <1>5

(* What a step owes the abstract service once the invariant has paid for   *)
(* the rest: legal moves, and ranks given in order.                        *)
LEMMA StepSimulates ==
  ASSUME IInv', \A j \in Deliveries : <<Stages[j], Stages'[j]>> \in Abs!LegalMoves,
         Abs!Ranked
  PROVE  Abs!AbsNext
<1>1. ServedRight'
  BY ServedLanes, PTL
<1>2. EarlierRuns'
  BY RunningIsEarlier, PTL
<1>3. Abs!InTurn
  BY <1>2 DEF Abs!InTurn, EarlierRuns
<1> QED
  BY <1>1, <1>3
  DEF Abs!AbsNext, ServedRight, Abs!OneTurnPerLane, Abs!WithinCap, Abs!Served

LEMMA AcceptSimulates ==
  ASSUME IInv, IInv', NEW j \in Deliveries, fate[j] = "unseen", Accept(j)
  PROVE  Abs!AbsNext
<1>1. /\ clock' = clock + 1
      /\ ticket' = [ticket EXCEPT ![j] = clock + 1]
      /\ fate' = [fate EXCEPT ![j] = "accepted"]
  BY DEF Accept
<1>2. QueueTypeOK /\ FateAgrees /\ TicketsInOrder /\ QueueTypeOK' /\ FateAgrees'
  BY DEF IInv
<1>3. \A i \in Deliveries : i # j => fate'[i] = fate[i] /\ ticket'[i] = ticket[i]
  BY <1>1, <1>2 DEF QueueTypeOK
<1>4. fate'[j] = "accepted" /\ ticket'[j] = clock + 1
  BY <1>1, <1>2 DEF QueueTypeOK
<1>5. waiting' \subseteq waiting \cup {j}
  BY DEF Accept, Pump
<1>6. Stages[j] = "unseen" /\ Stages'[j] \in {"waiting", "running"}
  BY <1>4 DEF Stages, Stage
<1>7. \A i \in Deliveries : i # j =>
        \/ Stages'[i] = Stages[i]
        \/ Stages[i] = "waiting" /\ Stages'[i] = "running"
  BY <1>3, <1>5 DEF Stages, Stage
<1>8. \A i \in Deliveries : <<Stages[i], Stages'[i]>> \in Abs!LegalMoves
  <2> SUFFICES ASSUME NEW i \in Deliveries PROVE <<Stages[i], Stages'[i]>> \in Abs!LegalMoves
    OBVIOUS
  <2>1. Stages[i] \in Abs!AbsStates
    BY StageFacts DEF Abs!AbsStates
  <2> QED
    BY <2>1, <1>6, <1>7 DEF Abs!LegalMoves
<1>9. Abs!Ranked
  <2>1. \A i \in Deliveries : ticket[i] \in Nat /\ clock \in Nat /\ ticket[i] <= clock
    BY <1>2 DEF QueueTypeOK, TicketsInOrder
  <2>2. \A i \in Deliveries : ticket[i] < ticket'[j]
    BY <2>1, <1>4
  <2>3. \A i \in Deliveries : i # j => ~ (Stages[i] = "unseen" /\ Stages'[i] \in {"waiting", "running"})
    BY <1>7
  <2> QED
    BY <2>2, <2>3, <1>3, <1>6 DEF Abs!Ranked
<1> QED
  BY <1>8, <1>9, StepSimulates

LEMMA OtherStepsSimulate ==
  ASSUME IInv, IInv', ticket' = ticket,
         \A i \in Deliveries :
           \/ Stages'[i] = Stages[i]
           \/ <<Stages[i], Stages'[i]>> \in
                {<<"unseen", "refused">>, <<"waiting", "running">>,
                 <<"waiting", "over">>, <<"running", "over">>}
  PROVE  Abs!AbsNext
<1>1. \A i \in Deliveries : <<Stages[i], Stages'[i]>> \in Abs!LegalMoves
  BY StageFacts DEF Abs!LegalMoves, Abs!AbsStates
<1>2. Abs!Ranked
  BY DEF Abs!Ranked
<1> QED
  BY <1>1, <1>2, StepSimulates

LEMMA SettleSimulates ==
  ASSUME IInv, IInv', NEW l \in Lanes, Settle(l)
  PROVE  Abs!AbsNext
<1>1. /\ active[l] # NoJob
      /\ ticket' = ticket
      /\ waiting' \subseteq waiting
      /\ fate' = [fate EXCEPT ![active[l]] =
                    IF active[l] \in began THEN "ran" ELSE "skipped"]
  BY DEF Settle, Pump
<1>2. /\ active[l] \in Deliveries /\ active[l] \notin waiting /\ fate[active[l]] = "accepted"
      /\ fate \in [Deliveries -> Fates]
  BY <1>1, ActiveLane DEF IInv, FateAgrees, QueueTypeOK
<1>3. \A i \in Deliveries :
           \/ Stages'[i] = Stages[i]
           \/ <<Stages[i], Stages'[i]>> \in
                {<<"unseen", "refused">>, <<"waiting", "running">>,
                 <<"waiting", "over">>, <<"running", "over">>}
  BY <1>1, <1>2 DEF Stages, Stage
<1> QED
  BY <1>1, <1>3, OtherStepsSimulate

LEMMA CancelSimulates ==
  ASSUME IInv, IInv', NEW k \in Keys, Cancel(k)
  PROVE  Abs!AbsNext
<1>1. /\ ticket' = ticket
      /\ waiting' = waiting \ {j \in waiting : JobKey[j] = k}
      /\ fate' = [j \in Deliveries |-> IF j \in waiting /\ JobKey[j] = k THEN "removed" ELSE fate[j]]
  BY DEF Cancel
<1>2. \A i \in Deliveries : i \in waiting => fate[i] = "accepted"
  BY DEF IInv, FateAgrees
<1>3. \A i \in Deliveries :
           \/ Stages'[i] = Stages[i]
           \/ <<Stages[i], Stages'[i]>> \in
                {<<"unseen", "refused">>, <<"waiting", "running">>,
                 <<"waiting", "over">>, <<"running", "over">>}
  BY <1>1, <1>2 DEF Stages, Stage
<1> QED
  BY <1>1, <1>3, OtherStepsSimulate

LEMMA DedupeSimulates ==
  ASSUME IInv, IInv', NEW j \in Deliveries, fate[j] = "unseen", Dedupe(j)
  PROVE  Abs!AbsNext
<1>1. ticket' = ticket /\ waiting' = waiting /\ fate' = [fate EXCEPT ![j] = "deduped"]
  BY DEF Dedupe
<1>2. fate \in [Deliveries -> Fates]
  BY DEF IInv, QueueTypeOK
<1>3. \A i \in Deliveries :
           \/ Stages'[i] = Stages[i]
           \/ <<Stages[i], Stages'[i]>> \in
                {<<"unseen", "refused">>, <<"waiting", "running">>,
                 <<"waiting", "over">>, <<"running", "over">>}
  BY <1>1, <1>2 DEF Stages, Stage
<1> QED
  BY <1>1, <1>3, OtherStepsSimulate

LEMMA NextSimulates == IInv /\ IInv' /\ [QueueNext]_queueVars => [Abs!AbsNext]_(Abs!absVars)
<1> SUFFICES ASSUME IInv, IInv', [QueueNext]_queueVars
             PROVE  Abs!AbsNext \/ UNCHANGED <<Stages, ticket>>
  BY DEF Abs!absVars
<1>1. ASSUME NEW j \in Deliveries, Enqueue(j) PROVE Abs!AbsNext
  BY <1>1, DedupeSimulates, AcceptSimulates DEF Enqueue
<1>2. ASSUME NEW l \in Lanes, Settle(l) PROVE Abs!AbsNext
  BY <1>2, SettleSimulates
<1>3. ASSUME NEW k \in Keys, Cancel(k) PROVE Abs!AbsNext
  BY <1>3, CancelSimulates
<1>4. CASE UNCHANGED <<waiting, fate, ticket>>
  BY <1>4 DEF Stages, Stage
<1>5. ASSUME NEW l \in Lanes, Begin(l) \/ CancelActive({l})
      PROVE UNCHANGED <<waiting, fate, ticket>>
  BY <1>5 DEF Begin, CancelActive
<1>6. ASSUME CancelActive(Lanes) PROVE UNCHANGED <<waiting, fate, ticket>>
  BY <1>6 DEF CancelActive
<1>7. ASSUME NEW u \in Waiters, Idle(u) PROVE UNCHANGED <<waiting, fate, ticket>>
  BY <1>7 DEF Idle
<1>8. ASSUME UNCHANGED queueVars PROVE UNCHANGED <<waiting, fate, ticket>>
  BY <1>8 DEF queueVars
<1> QED
  BY <1>1, <1>2, <1>3, <1>4, <1>5, <1>6, <1>7, <1>8 DEF QueueNext

(* The queue of createQueue implements the service promised to the         *)
(* conversations: one turn per lane at a time, in order, within the cap,   *)
(* each job served at most once.                                           *)
THEOREM QueueServesLanes == QueueSpec => LaneServed
<1>1. QueueInit => Abs!AbsInit
  BY DEF QueueInit, Abs!AbsInit, Stages, Stage
<1>2. IInv /\ IInv' /\ [QueueNext]_queueVars => [Abs!AbsNext]_(Abs!absVars)
  BY NextSimulates
<1> QED
  BY <1>1, <1>2, QueueInvariant, PTL DEF QueueSpec, LaneServed, Abs!AbsSpec

-----------------------------------------------------------------------------
LEMMA AckLemma ==
  ASSUME IInv, NEW j \in Deliveries, fate[j] = "unseen", Accept(j)
  PROVE  StartedImmediately(j) <=> active'[JobLane[j]] = j
<1> DEFINE l == JobLane[j]
           t == [ticket EXCEPT ![j] = clock + 1]
           w == waiting \cup {j}
           b == IF born[l] = 0 THEN [born EXCEPT ![l] = clock + 1] ELSE born
<1>0. Pump(w, active, b, t, running)
  BY DEF Accept
<1>1. PICK S \in SUBSET Lanes :
        /\ Picks(S, w, active, b, running)
        /\ \E head \in [S -> w] :
             /\ \A m \in S : IsHead(head[m], m, w, t)
             /\ active' = [m \in Lanes |-> IF m \in S THEN head[m] ELSE active[m]]
  BY <1>0 DEF Pump
<1>2. PICK head \in [S -> w] :
        /\ \A m \in S : IsHead(head[m], m, w, t)
        /\ active' = [m \in Lanes |-> IF m \in S THEN head[m] ELSE active[m]]
  BY <1>1
<1>3. /\ S \subseteq Ready(w, active)
      /\ running + Cardinality(S) <= MaxConcurrency
      /\ S = Ready(w, active) \/ running + Cardinality(S) = MaxConcurrency
  BY <1>1 DEF Picks
<1>4. QueueTypeOK /\ FateAgrees /\ TicketsInOrder /\ WorkConserving /\ RunningCounts
  BY DEF IInv
<1>5. /\ l \in Lanes /\ j \notin waiting /\ active[l] # j /\ clock \in Nat /\ running \in Nat
      /\ t[j] = clock + 1 /\ \A i \in waiting : t[i] = ticket[i] /\ ticket[i] <= clock
      /\ \A i \in waiting : ticket[i] \in Nat
  BY <1>4, ActiveLane, QueueAssumption DEF QueueTypeOK, FateAgrees, TicketsInOrder
<1>6. IsFiniteSet(S) /\ Cardinality(S) \in Nat
  BY QueueAssumption, FS_Subset, FS_CardinalityType
<1>7. ASSUME StartedImmediately(j) PROVE active'[l] = j
  <2>1. active[l] = NoJob /\ InLane(waiting, l) = {} /\ running < MaxConcurrency
    BY <1>7 DEF StartedImmediately
  <2>2. Ready(waiting, active) = {}
    BY <2>1, <1>4, <1>5, QueueAssumption DEF WorkConserving
  <2>3. Ready(w, active) = {l}
    BY <2>1, <2>2, <1>5 DEF Ready, InLane
  <2>4. S # {}
    <3>1. SUFFICES ASSUME S = {} PROVE FALSE
      OBVIOUS
    <3>2. Cardinality(S) = 0
      BY <3>1, FS_EmptySet
    <3>3. S # Ready(w, active)
      BY <3>1, <2>3
    <3>4. running + 0 = MaxConcurrency
      BY <3>2, <3>3, <1>3
    <3> QED
      BY <3>4, <2>1, <1>5, QueueAssumption
  <2>5. l \in S
    BY <2>3, <2>4, <1>3
  <2>6. head[l] \in InLane(w, l)
    BY <2>5, <1>2 DEF IsHead
  <2>7. head[l] = j
    BY <2>1, <2>6 DEF InLane
  <2> QED
    BY <2>5, <2>7, <1>2, <1>5
<1>8. ASSUME active'[l] = j PROVE StartedImmediately(j)
  <2>1. l \in S /\ head[l] = j
    BY <1>8, <1>2, <1>5
  <2>2. active[l] = NoJob
    BY <2>1, <1>3 DEF Ready
  <2>3. InLane(waiting, l) = {}
    <3>1. \A i \in InLane(w, l) : t[j] <= t[i]
      BY <2>1, <1>2 DEF IsHead
    <3>2. ASSUME NEW i \in InLane(waiting, l) PROVE FALSE
      <4>1. i \in waiting /\ i \in InLane(w, l)
        BY <3>2 DEF InLane
      <4>2. t[j] <= t[i]
        BY <3>1, <4>1
      <4> HIDE DEF t, w
      <4> QED
        BY <4>1, <4>2, <1>5
    <3> QED
      BY <3>2
  <2>4. running < MaxConcurrency
    <3>1. Cardinality(S) # 0
      BY <2>1, <1>6, FS_EmptySet
    <3> QED
      BY <3>1, <1>3, <1>5, <1>6, QueueAssumption
  <2> QED
    BY <2>2, <2>3, <2>4 DEF StartedImmediately
<1> QED
  BY <1>7, <1>8

(* enqueue() never lies about having started a job.                        *)
THEOREM AcksAreTruthful == QueueSpec => AckTruthful
<1>1. IInv /\ [QueueNext]_queueVars =>
        [\A j \in Deliveries : (fate[j] = "unseen" /\ Accept(j))
            => (StartedImmediately(j) <=> active'[JobLane[j]] = j)]_queueVars
  BY AckLemma
<1> QED
  BY <1>1, QueueInvariant, PTL DEF QueueSpec, AckTruthful

(* idle() resolves on a drained queue and on no other.                     *)
THEOREM IdleIsDrained == QueueSpec => IdleMeansDrained
<1>1. IInv /\ IInv' /\ [QueueNext]_queueVars =>
        [idlers \ idlers' # {} => (running' = 0 /\ waiting' = {} /\ Busy(active') = {})]_queueVars
  <2> SUFFICES ASSUME IInv', QueueNext, idlers \ idlers' # {}
               PROVE  running' = 0 /\ waiting' = {} /\ Busy(active') = {}
    OBVIOUS
  <2>1. running' = 0 /\ waiting' = {}
    <3>1. ASSUME NEW j \in Deliveries, Enqueue(j) PROVE FALSE
      BY <3>1 DEF Enqueue, Dedupe, Accept
    <3>2. ASSUME NEW l \in Lanes, Begin(l) PROVE FALSE
      BY <3>2 DEF Begin
    <3>3. ASSUME NEW l \in Lanes, Settle(l) PROVE running' = 0 /\ waiting' = {}
      BY <3>3 DEF Settle, ResolveIdle
    <3>4. ASSUME NEW k \in Keys, Cancel(k) PROVE running' = 0 /\ waiting' = {}
      BY <3>4 DEF Cancel, ResolveIdle
    <3>5. ASSUME NEW L, CancelActive(L) PROVE FALSE
      BY <3>5 DEF CancelActive
    <3>6. ASSUME NEW u \in Waiters, Idle(u) PROVE FALSE
      BY <3>6 DEF Idle
    <3> QED
      BY <3>1, <3>2, <3>3, <3>4, <3>5, <3>6 DEF QueueNext
  <2>2. IsFiniteSet(Busy(active')) /\ Cardinality(Busy(active')) = 0
    <3>1. IsFiniteSet(Busy(active'))
      BY FS_Subset, QueueAssumption DEF Busy
    <3>2. RunningCounts'
      BY DEF IInv
    <3> QED
      BY <2>1, <3>1, <3>2 DEF RunningCounts, Busy
  <2> QED
    BY <2>1, <2>2, FS_EmptySet
<1> QED
  BY <1>1, QueueInvariant, PTL DEF QueueSpec, IdleMeansDrained

(* A cancelled job that has not begun never begins.                        *)
THEOREM CancelsAreFinal == QueueSpec => CancelIsFinal
<1>1. IInv /\ [QueueNext]_queueVars =>
        [\A j \in Deliveries \ began :
           (j \in aborted \/ fate[j] \in {"skipped", "removed"}) => j \notin began']_queueVars
  <2> SUFFICES ASSUME IInv, QueueNext, NEW j \in Deliveries \ began, j \in began'
               PROVE  j \notin aborted /\ fate[j] = "accepted"
    OBVIOUS
  <2>1. PICK l \in Lanes : Begin(l)
    BY DEF QueueNext, Enqueue, Dedupe, Accept, Settle, Cancel, CancelActive, Idle
  <2>2. j = active[l] /\ j # NoJob /\ j \notin aborted
    BY <2>1, QueueAssumption DEF Begin
  <2>3. fate[j] = "accepted"
    BY <2>2, ActiveLane DEF IInv, FateAgrees
  <2> QED
    BY <2>2, <2>3
<1> QED
  BY <1>1, QueueInvariant, PTL DEF QueueSpec, CancelIsFinal
=============================================================================
