------------------------- MODULE SnapshotGateProofs -------------------------
(***************************************************************************)
(* Proofs about SnapshotGate: for any finite set of jobs, any limit, and   *)
(* any number of requests, cancellations, deletions and lost leases.       *)
(***************************************************************************)
EXTENDS SnapshotGate, TLAPS, FiniteSetTheorems, SequenceTheorems

\* The jobs whose run takes a slot, and all that a slot was given to.
Occupying == {j \in GateJobs : Occupies(j)}
Claimed == starting \cup Promised \cup Occupying

\* Whoever can occupy a slot has a listener that tells when it is free.
ListeningOK ==
  /\ gateRole = "all" => leased = {}
  /\ \A j \in held : gateRole = "all" \/ j \in leased => j \in listening

\* A job that is about to be started is marked, unless it was deleted since.
MarkedOK ==
  \A j \in held : request[j] = "starting" \/ taken[j] = "starting" => j \in starting

\* A job is started by its request or by a drain goroutine, never by both; it
\* is QUEUED only while neither of them has it, and does not run before.
StarterOK ==
  \A j \in GateJobs :
    /\ request[j] # "none" => taken[j] = "none" /\ status[j] # "QUEUED"
    /\ request[j] = "enqueued" => status[j] # "RUNNING"
    /\ taken[j] = "started" => status[j] # "QUEUED"

\* A job that is going to be QUEUED is in the queue.
EnqueuedOK ==
  \A j \in held : request[j] = "enqueued" /\ j \notin dropped => j \in Queued

\* The two halves of QueueServed.
SlotServed == queue # <<>> /\ HasSlot /\ ~silent => SomebodyLooks
QueuedOK ==
  \A j \in held :
    status[j] = "QUEUED" /\ taken[j] = "none" /\ j \notin dropped => j \in Queued

\* Every slot that was given away counts, also before it is marked.
SlotsOK == ~crowded => Cardinality(Claimed) <= Limit

GateInv ==
  /\ GateTypeOK /\ ListeningOK /\ MarkedOK /\ StarterOK /\ EnqueuedOK
  /\ SlotServed /\ QueuedOK /\ SlotsOK

-----------------------------------------------------------------------------
(* The queue *)

Elements(q) == {q[i] : i \in DOMAIN q}

(* Append adds the job at the end.                                         *)
LEMMA AppendElements ==
  ASSUME NEW q \in Seq(GateJobs), NEW j \in GateJobs
  PROVE  /\ Append(q, j) \in Seq(GateJobs)
         /\ Elements(Append(q, j)) = Elements(q) \cup {j}
<1>1. /\ Append(q, j) \in Seq(GateJobs) /\ Len(Append(q, j)) = Len(q) + 1
      /\ \A i \in 1..Len(q) : Append(q, j)[i] = q[i]
      /\ Append(q, j)[Len(q) + 1] = j
  BY AppendProperties
<1>2. /\ Len(q) \in Nat /\ DOMAIN q = 1..Len(q)
      /\ DOMAIN Append(q, j) = 1..Len(q) + 1
  BY <1>1, LenProperties
<1>3. ASSUME NEW x \in Elements(Append(q, j))
      PROVE  x \in Elements(q) \cup {j}
  BY <1>1, <1>2, <1>3 DEF Elements
<1>4. Elements(q) \cup {j} \subseteq Elements(Append(q, j))
  BY <1>1, <1>2 DEF Elements
<1> QED
  BY <1>1, <1>3, <1>4

(* The first job leaves the queue, the others stay.                        *)
LEMMA TailElements ==
  ASSUME NEW q \in Seq(GateJobs), q # <<>>
  PROVE  /\ Head(q) \in Elements(q) /\ Head(q) \in GateJobs
         /\ Tail(q) \in Seq(GateJobs)
         /\ Elements(Tail(q)) \subseteq Elements(q)
         /\ Elements(q) \ {Head(q)} \subseteq Elements(Tail(q))
<1>1. /\ Tail(q) \in Seq(GateJobs) /\ Len(Tail(q)) = Len(q) - 1
      /\ \A i \in 1..Len(q) - 1 : Tail(q)[i] = q[i + 1]
  OBVIOUS
<1>2. Head(q) = q[1] /\ Len(q) \in Nat \ {0} /\ DOMAIN q = 1..Len(q)
  OBVIOUS
<1>3. DOMAIN Tail(q) = 1..Len(q) - 1
  BY <1>1
<1>4. ASSUME NEW x \in Elements(q), x # Head(q)
      PROVE  x \in Elements(Tail(q))
  <2>1. PICK i \in 1..Len(q) : x = q[i]
    BY <1>2 DEF Elements
  <2>2. i - 1 \in 1..Len(q) - 1 /\ Tail(q)[i - 1] = x
    BY <1>1, <1>2, <1>4, <2>1
  <2> QED
    BY <1>3, <2>2 DEF Elements
<1>5. ASSUME NEW x \in Elements(Tail(q))
      PROVE  x \in Elements(q)
  <2>1. PICK i \in 1..Len(q) - 1 : x = Tail(q)[i]
    BY <1>3, <1>5 DEF Elements
  <2>2. i + 1 \in 1..Len(q) /\ x = q[i + 1]
    BY <1>1, <1>2, <2>1
  <2> QED
    BY <1>2, <2>2 DEF Elements
<1>6. Head(q) \in Elements(q)
  BY <1>2 DEF Elements
<1> QED
  BY <1>1, <1>4, <1>5, <1>6

(* The queue stays free of repetitions.                                    *)
Once(q) == \A i, k \in DOMAIN q : q[i] = q[k] => i = k

LEMMA QueueOnce ==
  ASSUME NEW q \in Seq(GateJobs), Once(q)
  PROVE  /\ \A j \in GateJobs : j \notin Elements(q) => Once(Append(q, j))
         /\ q # <<>> => Once(Tail(q))
<1>1. ASSUME NEW j \in GateJobs, j \notin Elements(q)
      PROVE  Once(Append(q, j))
  <2>1. /\ DOMAIN q = 1..Len(q) /\ DOMAIN Append(q, j) = 1..Len(q) + 1
        /\ Len(q) \in Nat /\ Append(q, j)[Len(q) + 1] = j
        /\ \A i \in 1..Len(q) : Append(q, j)[i] = q[i] /\ q[i] # j
    BY <1>1 DEF Elements
  <2> QED
    BY <2>1 DEF Once
<1>2. ASSUME q # <<>>
      PROVE  Once(Tail(q))
  <2>1. /\ DOMAIN q = 1..Len(q) /\ DOMAIN Tail(q) = 1..Len(q) - 1
        /\ Len(q) \in Nat \ {0}
        /\ \A i \in 1..Len(q) - 1 : Tail(q)[i] = q[i + 1]
    BY <1>2
  <2> QED
    BY <2>1 DEF Once
<1> QED
  BY <1>1, <1>2

(* A job that is removed leaves all others in the queue.                   *)
LEMMA WithoutElements ==
  ASSUME NEW q \in Seq(GateJobs), NEW j
  PROVE  /\ Without(q, j) \in Seq(GateJobs)
         /\ Elements(Without(q, j)) \subseteq Elements(q)
         /\ Elements(q) \ {j} \subseteq Elements(Without(q, j))
         /\ q = <<>> => Without(q, j) = <<>>
         /\ Once(q) => Once(Without(q, j))
<1>1. CASE ~\E i \in DOMAIN q : q[i] = j
  BY <1>1 DEF Without
<1>2. CASE \E i \in DOMAIN q : q[i] = j
  <2> DEFINE n == CHOOSE i \in DOMAIN q : q[i] = j
             m == Len(q)
             w == SubSeq(q, 1, n - 1) \o SubSeq(q, n + 1, m)
  <2>1. n \in 1..m /\ q[n] = j /\ m \in Nat /\ DOMAIN q = 1..m
    <3>1. DOMAIN q = 1..m /\ m \in Nat
      BY LenProperties
    <3> QED
      BY <1>2, <3>1
  <2>2. Without(q, j) = w
    BY <1>2 DEF Without
  <2> HIDE DEF n, m
  <2>3. /\ SubSeq(q, 1, n - 1) \in Seq(GateJobs)
        /\ Len(SubSeq(q, 1, n - 1)) = n - 1
        /\ \A i \in 1..n - 1 : SubSeq(q, 1, n - 1)[i] = q[i]
    BY <2>1
  <2>4. /\ SubSeq(q, n + 1, m) \in Seq(GateJobs)
        /\ Len(SubSeq(q, n + 1, m)) = m - n
        /\ \A i \in 1..m - n : SubSeq(q, n + 1, m)[i] = q[n + i]
    <3>1. \A i \in n + 1 .. m : q[i] \in GateJobs
      BY <2>1, ElementOfSeq
    <3>2. n + 1 \in Int /\ m \in Int
      BY <2>1
    <3>3. /\ SubSeq(q, n + 1, m) \in Seq(GateJobs)
          /\ Len(SubSeq(q, n + 1, m)) = IF n + 1 <= m THEN m - (n + 1) + 1 ELSE 0
          /\ \A i \in 1..m - (n + 1) + 1 : SubSeq(q, n + 1, m)[i] = q[n + 1 + i - 1]
      BY <3>1, <3>2, SubSeqProperties
    <3>4. Len(SubSeq(q, n + 1, m)) = m - n
      BY <2>1, <3>3
    <3>5. m - (n + 1) + 1 = m - n /\ \A i \in 1..m - n : n + 1 + i - 1 = n + i
      BY <2>1
    <3> QED
      BY <3>3, <3>4, <3>5
  <2>5. /\ w \in Seq(GateJobs) /\ Len(w) = m - 1 /\ DOMAIN w = 1..m - 1
        /\ \A i \in 1..m - 1 : w[i] = IF i < n THEN q[i] ELSE q[i + 1]
    <3> DEFINE a == SubSeq(q, 1, n - 1)
               b == SubSeq(q, n + 1, m)
    <3> HIDE DEF a, b
    <3>1. /\ a \in Seq(GateJobs) /\ Len(a) = n - 1
          /\ \A i \in 1..n - 1 : a[i] = q[i]
      BY <2>3 DEF a
    <3>2. /\ b \in Seq(GateJobs) /\ Len(b) = m - n
          /\ \A i \in 1..m - n : b[i] = q[n + i]
      BY <2>4 DEF b
    <3>3. /\ a \o b \in Seq(GateJobs) /\ Len(a \o b) = Len(a) + Len(b)
          /\ \A i \in 1..Len(a) + Len(b) :
               (a \o b)[i] = IF i <= Len(a) THEN a[i] ELSE b[i - Len(a)]
      BY <3>1, <3>2, ConcatProperties
    <3>4. w = a \o b
      BY DEF a, b
    <3> HIDE DEF w
    <3>5. Len(w) = m - 1
      <4>1. Len(w) = (n - 1) + (m - n)
        BY <3>1, <3>2, <3>3, <3>4
      <4> QED
        BY <2>1, <4>1
    <3>6. DOMAIN w = 1..m - 1
      BY <3>3, <3>4, <3>5, LenProperties
    <3>7. ASSUME NEW i \in 1..m - 1
          PROVE  w[i] = IF i < n THEN q[i] ELSE q[i + 1]
      <4>1. CASE i < n
        BY <2>1, <3>1, <3>2, <3>3, <3>4, <4>1
      <4>2. CASE i >= n
        <5>1. i - (n - 1) \in 1..m - n /\ ~(i <= n - 1) /\ i \in 1..(n - 1) + (m - n)
          BY <2>1, <4>2
        <5>2. w[i] = b[i - (n - 1)]
          BY <3>1, <3>2, <3>3, <3>4, <5>1
        <5> QED
          BY <2>1, <3>2, <4>2, <5>1, <5>2
      <4> QED
        BY <2>1, <4>1, <4>2
    <3> QED
      BY <3>3, <3>4, <3>5, <3>6, <3>7
  <2> HIDE DEF w
  <2>6. ASSUME NEW x \in Elements(w)
        PROVE  x \in Elements(q)
    <3>1. PICK i \in 1..m - 1 : x = w[i]
      BY <2>5, <2>6 DEF Elements
    <3>2. i \in 1..m /\ i + 1 \in 1..m
      BY <2>1
    <3>3. x = q[i] \/ x = q[i + 1]
      BY <2>5, <3>1
    <3> QED
      BY <2>1, <3>2, <3>3 DEF Elements
  <2>7. ASSUME NEW x \in Elements(q), x # j
        PROVE  x \in Elements(w)
    <3>1. PICK i \in 1..m : x = q[i]
      BY <2>1 DEF Elements
    <3>2. i # n
      BY <2>1, <2>7, <3>1
    <3>3. CASE i < n
      <4>1. i \in 1..m - 1 /\ w[i] = x
        BY <2>1, <2>5, <3>1, <3>3
      <4> QED
        BY <2>5, <4>1 DEF Elements
    <3>4. CASE i > n
      <4>1. i - 1 \in 1..m - 1 /\ w[i - 1] = x
        BY <2>1, <2>5, <3>1, <3>4
      <4> QED
        BY <2>5, <4>1 DEF Elements
    <3> QED
      BY <2>1, <3>2, <3>3, <3>4
  <2>8. ASSUME Once(q)
        PROVE  Once(w)
    <3>1. \A i, k \in 1..m : q[i] = q[k] => i = k
      BY <2>1, <2>8 DEF Once
    <3> SUFFICES ASSUME NEW i \in 1..m - 1, NEW k \in 1..m - 1, w[i] = w[k]
                 PROVE  i = k
      BY <2>5 DEF Once
    <3>2. {i, k, i + 1, k + 1} \subseteq 1..m
      BY <2>1
    <3> QED
      BY <2>1, <2>5, <3>1, <3>2
  <2>9. q # <<>>
    BY <2>1
  <2> QED
    BY <2>2, <2>5, <2>6, <2>7, <2>8, <2>9
<1> QED
  BY <1>1, <1>2

-----------------------------------------------------------------------------
(* The slots *)

(* The sets that are counted are finite.                                   *)
LEMMA SlotSets ==
  ASSUME GateTypeOK
  PROVE  /\ IsFiniteSet(starting) /\ IsFiniteSet(Occupying) /\ IsFiniteSet(Claimed)
         /\ Cardinality(starting) \in Nat /\ Cardinality(Occupying) \in Nat
         /\ Cardinality(Claimed) \in Nat
         /\ ActiveSnapshotJobs = Cardinality(starting) + Cardinality(Occupying)
<1>1. starting \subseteq GateJobs /\ Occupying \subseteq GateJobs
      /\ Claimed \subseteq GateJobs
  BY DEF GateTypeOK, Occupying, Claimed, Promised
<1>2. IsFiniteSet(starting) /\ IsFiniteSet(Occupying) /\ IsFiniteSet(Claimed)
  BY <1>1, GateAssumption, FS_Subset
<1>3. /\ Cardinality(starting) \in Nat /\ Cardinality(Occupying) \in Nat
      /\ Cardinality(Claimed) \in Nat
  BY <1>2, FS_CardinalityType
<1> QED
  BY <1>2, <1>3 DEF ActiveSnapshotJobs, Occupying

(* A slot becomes free only if a mark or a run goes.                       *)
LEMMA NoNewSlot ==
  ASSUME GateTypeOK, GateTypeOK',
         starting \subseteq starting', Occupying \subseteq Occupying', HasSlot'
  PROVE  HasSlot
<1>1. IsFiniteSet(starting') /\ IsFiniteSet(Occupying')
  <2>1. starting' \subseteq GateJobs /\ Occupying' \subseteq GateJobs
    BY DEF GateTypeOK, Occupying
  <2> QED
    BY <2>1, GateAssumption, FS_Subset
<1>2. /\ Cardinality(starting) <= Cardinality(starting')
      /\ Cardinality(Occupying) <= Cardinality(Occupying')
  BY <1>1, FS_Subset
<1>3. /\ Cardinality(starting') \in Nat /\ Cardinality(Occupying') \in Nat
      /\ Cardinality(starting) \in Nat /\ Cardinality(Occupying) \in Nat
  BY <1>1, FS_CardinalityType, SlotSets
<1>4. ActiveSnapshotJobs' = Cardinality(starting') + Cardinality(Occupying')
  BY DEF ActiveSnapshotJobs, Occupying
<1> QED
  BY <1>2, <1>3, <1>4, SlotSets, GateAssumption DEF HasSlot

(* What was claimed stays within the limit if nothing is added ...         *)
LEMMA ClaimedKept ==
  ASSUME GateTypeOK, SlotsOK, Claimed' \subseteq Claimed, crowded' = crowded
  PROVE  SlotsOK'
<1>1. /\ Cardinality(Claimed') <= Cardinality(Claimed)
      /\ Cardinality(Claimed') \in Nat /\ Cardinality(Claimed) \in Nat
  BY SlotSets, FS_Subset, FS_CardinalityType
<1> QED
  BY <1>1, GateAssumption DEF SlotsOK

(* ... and if a job is given a slot that is free while none is promised.   *)
LEMMA ClaimedOne ==
  ASSUME GateTypeOK, HasSlot, NEW j, Claimed' \subseteq Claimed \cup {j},
         ~crowded' => Promised = {}
  PROVE  SlotsOK'
<1>1. SUFFICES ASSUME Promised = {}
               PROVE  Cardinality(Claimed') <= Limit
  BY DEF SlotsOK
<1>2. Claimed = starting \cup Occupying
  BY <1>1 DEF Claimed
<1>3. /\ Cardinality(Claimed) <= Cardinality(starting) + Cardinality(Occupying)
      /\ IsFiniteSet(Claimed) /\ Cardinality(Claimed) \in Nat
  <2>1. /\ Cardinality(starting \cup Occupying) =
             Cardinality(starting) + Cardinality(Occupying)
               - Cardinality(starting \cap Occupying)
    BY SlotSets, FS_Union
  <2>2. Cardinality(starting \cap Occupying) \in Nat
    BY SlotSets, FS_Intersection, FS_CardinalityType
  <2> QED
    BY <1>2, <2>1, <2>2, SlotSets
<1>4. /\ IsFiniteSet(Claimed \cup {j})
      /\ Cardinality(Claimed \cup {j}) <= Cardinality(Claimed) + 1
      /\ Cardinality(Claimed \cup {j}) \in Nat
  BY <1>3, FS_AddElement, FS_CardinalityType
<1>5. Cardinality(Claimed') <= Cardinality(Claimed \cup {j})
      /\ Cardinality(Claimed') \in Nat
  BY <1>4, FS_Subset, FS_CardinalityType
<1> QED
  BY <1>3, <1>4, <1>5, SlotSets, GateAssumption DEF HasSlot

-----------------------------------------------------------------------------
(* Steps *)

(* The queue as a set.                                                     *)
LEMMA QueueShape ==
  ASSUME GateTypeOK
  PROVE  /\ queue \in Seq(GateJobs) /\ Once(queue) /\ Queued = Elements(queue)
         /\ Queued' = Elements(queue') /\ Queued \subseteq GateJobs
<1>1. queue \in Seq(GateJobs) /\ Once(queue)
  BY DEF GateTypeOK, Once
<1>2. \A i \in DOMAIN queue : queue[i] \in GateJobs
  BY <1>1
<1> QED
  BY <1>1, <1>2 DEF Queued, Elements

(* A request appends its job when there is no slot, a drain goroutine      *)
(* takes the first, and the other jobs leave the queue only by their own   *)
(* cancellation, deletion or rejected submission.                          *)
QueueKept ==
  /\ queue' \in Seq(GateJobs) /\ Once(queue')
  /\ \A k \in Queued \ Queued' :
       \/ DrainTakes /\ k = Head(queue)
       \/ GateCancel(k) /\ status[k] = "QUEUED"
       \/ GateDelete(k)
       \/ StartRequested(k) /\ k \notin held'
  /\ queue = <<>> /\ queue' # <<>> => ~HasSlot

(* What each action does to the queue.                                     *)
LEMMA QueueStep ==
  ASSUME GateTypeOK, [GateNext]_gateVars
  PROVE  QueueKept
<1>0. /\ queue \in Seq(GateJobs) /\ Once(queue) /\ Queued = Elements(queue)
      /\ Queued' = Elements(queue')
  BY QueueShape
<1>2. ASSUME DrainEnds
      PROVE  QueueKept
  BY <1>2, <1>0 DEF DrainEnds, QueueKept
<1>3. ASSUME DrainTakes
      PROVE  QueueKept
  <2>1. queue # <<>> /\ queue' = Tail(queue) /\ DrainTakes
    BY <1>3 DEF DrainTakes
  <2>2. /\ Tail(queue) \in Seq(GateJobs) /\ Once(Tail(queue))
        /\ Elements(queue) \ {Head(queue)} \subseteq Elements(Tail(queue))
    BY <1>0, <2>1, TailElements, QueueOnce
  <2> QED
    BY <1>0, <2>1, <2>2 DEF QueueKept
<1>4. ASSUME NEW j \in GateJobs, GateSubmit(j)
      PROVE  QueueKept
  <2>1. CASE queue' = queue
    BY <1>0, <2>1 DEF QueueKept
  <2>2. CASE queue' # queue
    <3>1. queue' = Append(queue, j) /\ j \notin Queued /\ ~HasSlot
      BY <1>4, <2>2 DEF GateSubmit, Requested, Decide
    <3> QED
      BY <1>0, <3>1, AppendElements, QueueOnce DEF QueueKept
  <2> QED
    BY <2>1, <2>2
<1>5. ASSUME NEW j \in GateJobs, GateResubmit(j)
      PROVE  QueueKept
  <2>1. CASE queue' = queue
    BY <1>0, <2>1 DEF QueueKept
  <2>2. CASE queue' # queue
    <3>1. queue' = Append(queue, j) /\ j \notin Queued /\ ~HasSlot
      BY <1>5, <2>2 DEF GateResubmit, Requested, Decide
    <3> QED
      BY <1>0, <3>1, AppendElements, QueueOnce DEF QueueKept
  <2> QED
    BY <2>1, <2>2
<1>6. ASSUME NEW j \in GateJobs, GateClaim(j)
      PROVE  QueueKept
  <2>1. CASE queue' = queue
    BY <1>0, <2>1 DEF QueueKept
  <2>2. CASE queue' # queue
    <3>1. queue' = Append(queue, j) /\ j \notin Queued /\ ~HasSlot
      BY <1>6, <2>2 DEF GateClaim, Requested, Decide
    <3> QED
      BY <1>0, <3>1, AppendElements, QueueOnce DEF QueueKept
  <2> QED
    BY <2>1, <2>2
<1>7. ASSUME NEW j \in GateJobs, SetQueued(j)
      PROVE  QueueKept
  BY <1>7, <1>0 DEF SetQueued, QueueKept
<1>8. ASSUME NEW j \in GateJobs, MarkStarting(j)
      PROVE  QueueKept
  BY <1>8, <1>0 DEF MarkStarting, QueueKept
<1>9. ASSUME NEW j \in GateJobs, StartRequested(j)
      PROVE  QueueKept
  <2>1. CASE queue' = queue
    BY <1>0, <2>1 DEF QueueKept
  <2>2. CASE queue' # queue
    <3>1. queue' = Without(queue, j) /\ j \notin held'
      BY <1>9, <2>2 DEF StartRequested
    <3>2. \A k \in Queued \ Queued' : k = j
      BY <1>0, <3>1, WithoutElements
    <3> QED
      BY <1>9, <1>0, <3>1, <3>2, WithoutElements DEF QueueKept
  <2> QED
    BY <2>1, <2>2
<1>10. ASSUME NEW j \in GateJobs, StartReturns(j)
       PROVE  QueueKept
  BY <1>10, <1>0 DEF StartReturns, QueueKept
<1>11. ASSUME NEW j \in GateJobs, StartTaken(j)
       PROVE  QueueKept
  BY <1>11, <1>0 DEF StartTaken, Launch, StartFails, Freed, Runs, QueueKept
<1>12. ASSUME NEW j \in GateJobs, TakenReturns(j)
       PROVE  QueueKept
  BY <1>12, <1>0 DEF TakenReturns, QueueKept
<1>13. ASSUME NEW j \in GateJobs, SnapshotCompletes(j)
       PROVE  QueueKept
  BY <1>13, <1>0 DEF SnapshotCompletes, Freed, QueueKept
<1>14. ASSUME NEW j \in GateJobs, JobEnds(j)
       PROVE  QueueKept
  BY <1>14, <1>0 DEF JobEnds, Freed, Runs, QueueKept
<1>15. ASSUME NEW j \in GateJobs, GateCallback(j)
       PROVE  QueueKept
  BY <1>15, <1>0 DEF GateCallback, QueueKept
<1>16. ASSUME NEW j \in GateJobs, GateCancel(j)
       PROVE  QueueKept
  <2>1. CASE queue' = queue
    BY <1>0, <2>1 DEF QueueKept
  <2>2. CASE queue' # queue
    <3>1. queue' = Without(queue, j) /\ status[j] = "QUEUED"
      BY <1>16, <2>2 DEF GateCancel
    <3>2. \A k \in Queued \ Queued' : k = j
      BY <1>0, <3>1, WithoutElements
    <3> QED
      BY <1>16, <1>0, <3>1, <3>2, WithoutElements DEF QueueKept
  <2> QED
    BY <2>1, <2>2
<1>17. ASSUME NEW j \in GateJobs, GateDelete(j)
       PROVE  QueueKept
  <2>1. CASE queue' = queue
    BY <1>0, <2>1 DEF QueueKept
  <2>2. CASE queue' # queue
    <3>1. queue' = Without(queue, j) /\ GateDelete(j)
      BY <1>17, <2>2 DEF GateDelete
    <3>2. \A k \in Queued \ Queued' : k = j
      BY <1>0, <3>1, WithoutElements
    <3> QED
      BY <1>17, <1>0, <3>1, <3>2, WithoutElements DEF QueueKept
  <2> QED
    BY <2>1, <2>2
<1>18. ASSUME NEW j \in GateJobs, LoseLease(j)
       PROVE  QueueKept
  BY <1>18, <1>0 DEF LoseLease, StopJob, Runs, QueueKept
<1>19. ASSUME UNCHANGED gateVars
       PROVE  QueueKept
  BY <1>0, <1>19 DEF gateVars, QueueKept
<1> QED
  BY <1>2, <1>3, <1>4, <1>5, <1>6, <1>7, <1>8, <1>9, <1>10,
     <1>11, <1>12, <1>13, <1>14, <1>15, <1>16, <1>17, <1>18, <1>19 DEF GateNext

(* Every action keeps the types.                                           *)
LEMMA TypeStep ==
  ASSUME GateTypeOK, [GateNext]_gateVars
  PROVE  GateTypeOK'
<1>0. queue \in Seq(GateJobs)
  BY QueueShape
<1>1. /\ queue' \in Seq(GateJobs)
      /\ \A i, k \in DOMAIN queue' : queue'[i] = queue'[k] => i = k
  BY QueueStep DEF QueueKept, Once
<1>2. ASSUME DrainEnds
      PROVE  GateTypeOK'
  <2>1. /\ status' \in [GateJobs -> Statuses] /\ request' \in [GateJobs -> RequestPlaces]
        /\ taken' \in [GateJobs -> TakenPlaces] /\ drains' \in Nat
    BY <1>2 DEF DrainEnds, GateTypeOK, Statuses, RequestPlaces, TakenPlaces
  <2>2. /\ {held', leased', listening', starting', callbacks', dropped', stopped'}
             \subseteq SUBSET GateJobs
        /\ {silent', crowded'} \subseteq BOOLEAN
    BY <1>0, <1>2, TailElements DEF DrainEnds, GateTypeOK
  <2>3. /\ gateRole' = gateRole /\ requests' \in 0..MaxRequests
        /\ endings' \in 0..MaxEndings
    BY <1>2, GateAssumption DEF DrainEnds, GateTypeOK
  <2> QED
    BY <1>1, <2>1, <2>2, <2>3 DEF GateTypeOK
<1>3. ASSUME DrainTakes
      PROVE  GateTypeOK'
  <2>1. /\ status' \in [GateJobs -> Statuses] /\ request' \in [GateJobs -> RequestPlaces]
        /\ taken' \in [GateJobs -> TakenPlaces] /\ drains' \in Nat
    BY <1>3
       DEF DrainTakes, Startable, GateTypeOK, Statuses, RequestPlaces,
           TakenPlaces
  <2>2. /\ {held', leased', listening', starting', callbacks', dropped', stopped'}
             \subseteq SUBSET GateJobs
        /\ {silent', crowded'} \subseteq BOOLEAN
    <3>1. /\ held' \subseteq GateJobs /\ leased' \subseteq GateJobs
          /\ listening' \subseteq GateJobs /\ starting' \subseteq GateJobs
      BY <1>0, <1>3, TailElements DEF DrainTakes, Startable, GateTypeOK
    <3>2. /\ callbacks' \subseteq GateJobs /\ dropped' \subseteq GateJobs
          /\ stopped' \subseteq GateJobs
      BY <1>0, <1>3, TailElements DEF DrainTakes, Startable, GateTypeOK
    <3>3. silent' \in BOOLEAN /\ crowded' \in BOOLEAN
      BY <1>3 DEF DrainTakes, Startable, GateTypeOK
    <3> QED
      BY <3>1, <3>2, <3>3
  <2>3. /\ gateRole' = gateRole /\ requests' \in 0..MaxRequests
        /\ endings' \in 0..MaxEndings
    BY <1>3, GateAssumption DEF DrainTakes, Startable, GateTypeOK
  <2> QED
    BY <1>1, <2>1, <2>2, <2>3 DEF GateTypeOK
<1>4. ASSUME NEW j \in GateJobs, GateSubmit(j)
      PROVE  GateTypeOK'
  <2>1. /\ status' \in [GateJobs -> Statuses] /\ request' \in [GateJobs -> RequestPlaces]
        /\ taken' \in [GateJobs -> TakenPlaces] /\ drains' \in Nat
    BY <1>4
       DEF GateSubmit, Requested, Decide, GateTypeOK, Statuses, RequestPlaces,
           TakenPlaces
  <2>2. /\ {held', leased', listening', starting', callbacks', dropped', stopped'}
             \subseteq SUBSET GateJobs
        /\ {silent', crowded'} \subseteq BOOLEAN
    BY <1>0, <1>4, TailElements DEF GateSubmit, Requested, Decide, GateTypeOK
  <2>3. /\ gateRole' = gateRole /\ requests' \in 0..MaxRequests
        /\ endings' \in 0..MaxEndings
    BY <1>4, GateAssumption DEF GateSubmit, Requested, Decide, GateTypeOK
  <2> QED
    BY <1>1, <2>1, <2>2, <2>3 DEF GateTypeOK
<1>5. ASSUME NEW j \in GateJobs, GateResubmit(j)
      PROVE  GateTypeOK'
  <2>1. /\ status' \in [GateJobs -> Statuses] /\ request' \in [GateJobs -> RequestPlaces]
        /\ taken' \in [GateJobs -> TakenPlaces] /\ drains' \in Nat
    BY <1>5
       DEF GateResubmit, Requested, Decide, GateTypeOK, Statuses,
           RequestPlaces, TakenPlaces
  <2>2. /\ {held', leased', listening', starting', callbacks', dropped', stopped'}
             \subseteq SUBSET GateJobs
        /\ {silent', crowded'} \subseteq BOOLEAN
    BY <1>0, <1>5, TailElements DEF GateResubmit, Requested, Decide, GateTypeOK
  <2>3. /\ gateRole' = gateRole /\ requests' \in 0..MaxRequests
        /\ endings' \in 0..MaxEndings
    BY <1>5, GateAssumption DEF GateResubmit, Requested, Decide, GateTypeOK
  <2> QED
    BY <1>1, <2>1, <2>2, <2>3 DEF GateTypeOK
<1>6. ASSUME NEW j \in GateJobs, GateClaim(j)
      PROVE  GateTypeOK'
  <2>1. /\ status' \in [GateJobs -> Statuses] /\ request' \in [GateJobs -> RequestPlaces]
        /\ taken' \in [GateJobs -> TakenPlaces] /\ drains' \in Nat
    BY <1>6
       DEF GateClaim, Requested, Decide, GateTypeOK, Statuses, RequestPlaces,
           TakenPlaces
  <2>2. /\ {held', leased', listening', starting', callbacks', dropped', stopped'}
             \subseteq SUBSET GateJobs
        /\ {silent', crowded'} \subseteq BOOLEAN
    BY <1>0, <1>6, TailElements DEF GateClaim, Requested, Decide, GateTypeOK
  <2>3. /\ gateRole' = gateRole /\ requests' \in 0..MaxRequests
        /\ endings' \in 0..MaxEndings
    BY <1>6, GateAssumption DEF GateClaim, Requested, Decide, GateTypeOK
  <2> QED
    BY <1>1, <2>1, <2>2, <2>3 DEF GateTypeOK
<1>7. ASSUME NEW j \in GateJobs, SetQueued(j)
      PROVE  GateTypeOK'
  BY <1>7, <1>1, GateAssumption
     DEF SetQueued, GateTypeOK, Statuses, RequestPlaces, TakenPlaces
<1>8. ASSUME NEW j \in GateJobs, MarkStarting(j)
      PROVE  GateTypeOK'
  BY <1>8, <1>1, GateAssumption
     DEF MarkStarting, GateTypeOK, Statuses, RequestPlaces, TakenPlaces
<1>9. ASSUME NEW j \in GateJobs, StartRequested(j)
      PROVE  GateTypeOK'
  BY <1>9, <1>1, GateAssumption
     DEF StartRequested, Launch, StartFails, Freed, Runs, GateTypeOK,
         Statuses, RequestPlaces, TakenPlaces
<1>10. ASSUME NEW j \in GateJobs, StartReturns(j)
       PROVE  GateTypeOK'
  BY <1>10, <1>1, GateAssumption
     DEF StartReturns, GateTypeOK, Statuses, RequestPlaces, TakenPlaces
<1>11. ASSUME NEW j \in GateJobs, StartTaken(j)
       PROVE  GateTypeOK'
  BY <1>11, <1>1, GateAssumption
     DEF StartTaken, Launch, StartFails, Freed, Runs, GateTypeOK, Statuses,
         RequestPlaces, TakenPlaces
<1>12. ASSUME NEW j \in GateJobs, TakenReturns(j)
       PROVE  GateTypeOK'
  BY <1>12, <1>1, GateAssumption
     DEF TakenReturns, GateTypeOK, Statuses, RequestPlaces, TakenPlaces
<1>13. ASSUME NEW j \in GateJobs, SnapshotCompletes(j)
       PROVE  GateTypeOK'
  BY <1>13, <1>1, GateAssumption
     DEF SnapshotCompletes, Freed, GateTypeOK, Statuses, RequestPlaces,
         TakenPlaces
<1>14. ASSUME NEW j \in GateJobs, JobEnds(j)
       PROVE  GateTypeOK'
  BY <1>14, <1>1, GateAssumption
     DEF JobEnds, Freed, Runs, GateTypeOK, Statuses, RequestPlaces, TakenPlaces
<1>15. ASSUME NEW j \in GateJobs, GateCallback(j)
       PROVE  GateTypeOK'
  BY <1>15, <1>1, GateAssumption
     DEF GateCallback, GateTypeOK, Statuses, RequestPlaces, TakenPlaces
<1>16. ASSUME NEW j \in GateJobs, GateCancel(j)
       PROVE  GateTypeOK'
  BY <1>16, <1>1, GateAssumption
     DEF GateCancel, StopJob, Freed, GateTypeOK, Statuses, RequestPlaces,
         TakenPlaces
<1>17. ASSUME NEW j \in GateJobs, GateDelete(j)
       PROVE  GateTypeOK'
  BY <1>17, <1>1, GateAssumption
     DEF GateDelete, StopJob, GateTypeOK, Statuses, RequestPlaces, TakenPlaces
<1>18. ASSUME NEW j \in GateJobs, LoseLease(j)
       PROVE  GateTypeOK'
  <2>1. /\ status' \in [GateJobs -> Statuses] /\ request' \in [GateJobs -> RequestPlaces]
        /\ taken' \in [GateJobs -> TakenPlaces] /\ drains' \in Nat
    BY <1>18
       DEF LoseLease, StopJob, Runs, GateTypeOK, Statuses, RequestPlaces,
           TakenPlaces
  <2>2. /\ {held', leased', listening', starting', callbacks', dropped', stopped'}
             \subseteq SUBSET GateJobs
        /\ {silent', crowded'} \subseteq BOOLEAN
    <3>1. /\ held' \subseteq GateJobs /\ leased' \subseteq GateJobs
          /\ listening' \subseteq GateJobs /\ starting' \subseteq GateJobs
      BY <1>0, <1>18, TailElements DEF LoseLease, StopJob, Runs, GateTypeOK
    <3>2. /\ callbacks' \subseteq GateJobs /\ dropped' \subseteq GateJobs
          /\ stopped' \subseteq GateJobs
      BY <1>0, <1>18, TailElements DEF LoseLease, StopJob, Runs, GateTypeOK
    <3>3. silent' \in BOOLEAN /\ crowded' \in BOOLEAN
      BY <1>18 DEF LoseLease, StopJob, Runs, GateTypeOK
    <3> QED
      BY <3>1, <3>2, <3>3
  <2>3. /\ gateRole' = gateRole /\ requests' \in 0..MaxRequests
        /\ endings' \in 0..MaxEndings
    BY <1>18, GateAssumption DEF LoseLease, StopJob, Runs, GateTypeOK
  <2> QED
    BY <1>1, <2>1, <2>2, <2>3 DEF GateTypeOK
<1>19. ASSUME UNCHANGED gateVars
       PROVE  GateTypeOK'
  BY <1>19 DEF gateVars, GateTypeOK, Statuses, RequestPlaces, TakenPlaces
<1> QED
  BY <1>2, <1>3, <1>4, <1>5, <1>6, <1>7, <1>8, <1>9, <1>10,
     <1>11, <1>12, <1>13, <1>14, <1>15, <1>16, <1>17, <1>18, <1>19 DEF GateNext


(* Every action keeps the listeners of those who can occupy a slot.        *)
LEMMA ListeningStep ==
  ASSUME GateTypeOK, ListeningOK, [GateNext]_gateVars
  PROVE  ListeningOK'
<1>2. ASSUME DrainEnds
      PROVE  ListeningOK'
  BY <1>2 DEF DrainEnds, GateTypeOK, ListeningOK
<1>3. ASSUME DrainTakes
      PROVE  ListeningOK'
  BY <1>3 DEF DrainTakes, Startable, GateTypeOK, ListeningOK
<1>4. ASSUME NEW j \in GateJobs, GateSubmit(j)
      PROVE  ListeningOK'
  BY <1>4 DEF GateSubmit, Requested, Decide, GateTypeOK, ListeningOK
<1>5. ASSUME NEW j \in GateJobs, GateResubmit(j)
      PROVE  ListeningOK'
  BY <1>5 DEF GateResubmit, Requested, Decide, GateTypeOK, ListeningOK
<1>6. ASSUME NEW j \in GateJobs, GateClaim(j)
      PROVE  ListeningOK'
  BY <1>6 DEF GateClaim, Requested, Decide, GateTypeOK, ListeningOK
<1>7. ASSUME NEW j \in GateJobs, SetQueued(j)
      PROVE  ListeningOK'
  BY <1>7 DEF SetQueued, GateTypeOK, ListeningOK
<1>8. ASSUME NEW j \in GateJobs, MarkStarting(j)
      PROVE  ListeningOK'
  BY <1>8 DEF MarkStarting, GateTypeOK, ListeningOK
<1>9. ASSUME NEW j \in GateJobs, StartRequested(j)
      PROVE  ListeningOK'
  BY <1>9
     DEF StartRequested, Launch, StartFails, Freed, Runs, GateTypeOK,
         ListeningOK
<1>10. ASSUME NEW j \in GateJobs, StartReturns(j)
       PROVE  ListeningOK'
  BY <1>10 DEF StartReturns, GateTypeOK, ListeningOK
<1>11. ASSUME NEW j \in GateJobs, StartTaken(j)
       PROVE  ListeningOK'
  BY <1>11
     DEF StartTaken, Launch, StartFails, Freed, Runs, GateTypeOK, ListeningOK
<1>12. ASSUME NEW j \in GateJobs, TakenReturns(j)
       PROVE  ListeningOK'
  BY <1>12 DEF TakenReturns, GateTypeOK, ListeningOK
<1>13. ASSUME NEW j \in GateJobs, SnapshotCompletes(j)
       PROVE  ListeningOK'
  BY <1>13 DEF SnapshotCompletes, Freed, GateTypeOK, ListeningOK
<1>14. ASSUME NEW j \in GateJobs, JobEnds(j)
       PROVE  ListeningOK'
  BY <1>14 DEF JobEnds, Freed, Runs, GateTypeOK, ListeningOK
<1>15. ASSUME NEW j \in GateJobs, GateCallback(j)
       PROVE  ListeningOK'
  BY <1>15 DEF GateCallback, GateTypeOK, ListeningOK
<1>16. ASSUME NEW j \in GateJobs, GateCancel(j)
       PROVE  ListeningOK'
  BY <1>16 DEF GateCancel, StopJob, Freed, GateTypeOK, ListeningOK
<1>17. ASSUME NEW j \in GateJobs, GateDelete(j)
       PROVE  ListeningOK'
  BY <1>17 DEF GateDelete, StopJob, GateTypeOK, ListeningOK
<1>18. ASSUME NEW j \in GateJobs, LoseLease(j)
       PROVE  ListeningOK'
  BY <1>18 DEF LoseLease, StopJob, Runs, GateTypeOK, ListeningOK
<1>19. ASSUME UNCHANGED gateVars
       PROVE  ListeningOK'
  BY <1>19 DEF gateVars, GateTypeOK, ListeningOK
<1> QED
  BY <1>2, <1>3, <1>4, <1>5, <1>6, <1>7, <1>8, <1>9, <1>10,
     <1>11, <1>12, <1>13, <1>14, <1>15, <1>16, <1>17, <1>18, <1>19 DEF GateNext

(* A start that was decided on keeps its mark until it has happened.       *)
LEMMA MarkedStep ==
  ASSUME GateTypeOK, MarkedOK, StarterOK, [GateNext]_gateVars
  PROVE  MarkedOK'
<1>2. ASSUME DrainEnds
      PROVE  MarkedOK'
  BY <1>2 DEF DrainEnds, GateTypeOK, MarkedOK, StarterOK
<1>3. ASSUME DrainTakes
      PROVE  MarkedOK'
  BY <1>3 DEF DrainTakes, Startable, GateTypeOK, MarkedOK, StarterOK
<1>4. ASSUME NEW j \in GateJobs, GateSubmit(j)
      PROVE  MarkedOK'
  BY <1>4 DEF GateSubmit, Requested, Decide, GateTypeOK, MarkedOK, StarterOK
<1>5. ASSUME NEW j \in GateJobs, GateResubmit(j)
      PROVE  MarkedOK'
  BY <1>5 DEF GateResubmit, Requested, Decide, GateTypeOK, MarkedOK, StarterOK
<1>6. ASSUME NEW j \in GateJobs, GateClaim(j)
      PROVE  MarkedOK'
  BY <1>6 DEF GateClaim, Requested, Decide, GateTypeOK, MarkedOK, StarterOK
<1>7. ASSUME NEW j \in GateJobs, SetQueued(j)
      PROVE  MarkedOK'
  BY <1>7 DEF SetQueued, GateTypeOK, MarkedOK, StarterOK
<1>8. ASSUME NEW j \in GateJobs, MarkStarting(j)
      PROVE  MarkedOK'
  BY <1>8 DEF MarkStarting, GateTypeOK, MarkedOK, StarterOK
<1>9. ASSUME NEW j \in GateJobs, StartRequested(j)
      PROVE  MarkedOK'
  BY <1>9
     DEF StartRequested, Launch, StartFails, Freed, Runs, GateTypeOK,
         MarkedOK, StarterOK
<1>10. ASSUME NEW j \in GateJobs, StartReturns(j)
       PROVE  MarkedOK'
  BY <1>10 DEF StartReturns, GateTypeOK, MarkedOK, StarterOK
<1>11. ASSUME NEW j \in GateJobs, StartTaken(j)
       PROVE  MarkedOK'
  BY <1>11
     DEF StartTaken, Launch, StartFails, Freed, Runs, GateTypeOK, MarkedOK,
         StarterOK
<1>12. ASSUME NEW j \in GateJobs, TakenReturns(j)
       PROVE  MarkedOK'
  BY <1>12 DEF TakenReturns, GateTypeOK, MarkedOK, StarterOK
<1>13. ASSUME NEW j \in GateJobs, SnapshotCompletes(j)
       PROVE  MarkedOK'
  BY <1>13 DEF SnapshotCompletes, Freed, GateTypeOK, MarkedOK, StarterOK
<1>14. ASSUME NEW j \in GateJobs, JobEnds(j)
       PROVE  MarkedOK'
  BY <1>14 DEF JobEnds, Freed, Runs, GateTypeOK, MarkedOK, StarterOK
<1>15. ASSUME NEW j \in GateJobs, GateCallback(j)
       PROVE  MarkedOK'
  BY <1>15 DEF GateCallback, GateTypeOK, MarkedOK, StarterOK
<1>16. ASSUME NEW j \in GateJobs, GateCancel(j)
       PROVE  MarkedOK'
  BY <1>16 DEF GateCancel, StopJob, Freed, GateTypeOK, MarkedOK, StarterOK
<1>17. ASSUME NEW j \in GateJobs, GateDelete(j)
       PROVE  MarkedOK'
  BY <1>17 DEF GateDelete, StopJob, GateTypeOK, MarkedOK, StarterOK
<1>18. ASSUME NEW j \in GateJobs, LoseLease(j)
       PROVE  MarkedOK'
  BY <1>18 DEF LoseLease, StopJob, Runs, GateTypeOK, MarkedOK, StarterOK
<1>19. ASSUME UNCHANGED gateVars
       PROVE  MarkedOK'
  BY <1>19 DEF gateVars, GateTypeOK, MarkedOK, StarterOK
<1> QED
  BY <1>2, <1>3, <1>4, <1>5, <1>6, <1>7, <1>8, <1>9, <1>10,
     <1>11, <1>12, <1>13, <1>14, <1>15, <1>16, <1>17, <1>18, <1>19 DEF GateNext

(* A job has one starter.                                                  *)
LEMMA StarterStep ==
  ASSUME GateTypeOK, StarterOK, [GateNext]_gateVars
  PROVE  StarterOK'
<1>0. queue # <<>> => Head(queue) \in GateJobs
  BY QueueShape, TailElements
<1>2. ASSUME DrainEnds
      PROVE  StarterOK'
  BY <1>2, <1>0 DEF DrainEnds, GateTypeOK, StarterOK
<1>3. ASSUME DrainTakes
      PROVE  StarterOK'
  BY <1>3, <1>0 DEF DrainTakes, Startable, GateTypeOK, StarterOK
<1>4. ASSUME NEW j \in GateJobs, GateSubmit(j)
      PROVE  StarterOK'
  BY <1>4, <1>0 DEF GateSubmit, Requested, Decide, GateTypeOK, StarterOK
<1>5. ASSUME NEW j \in GateJobs, GateResubmit(j)
      PROVE  StarterOK'
  BY <1>5, <1>0 DEF GateResubmit, Requested, Decide, GateTypeOK, StarterOK
<1>6. ASSUME NEW j \in GateJobs, GateClaim(j)
      PROVE  StarterOK'
  BY <1>6, <1>0 DEF GateClaim, Requested, Decide, GateTypeOK, StarterOK
<1>7. ASSUME NEW j \in GateJobs, SetQueued(j)
      PROVE  StarterOK'
  BY <1>7, <1>0 DEF SetQueued, GateTypeOK, StarterOK
<1>8. ASSUME NEW j \in GateJobs, MarkStarting(j)
      PROVE  StarterOK'
  BY <1>8, <1>0 DEF MarkStarting, GateTypeOK, StarterOK
<1>9. ASSUME NEW j \in GateJobs, StartRequested(j)
      PROVE  StarterOK'
  BY <1>9, <1>0
     DEF StartRequested, Launch, StartFails, Freed, Runs, GateTypeOK, StarterOK
<1>10. ASSUME NEW j \in GateJobs, StartReturns(j)
       PROVE  StarterOK'
  BY <1>10, <1>0 DEF StartReturns, GateTypeOK, StarterOK
<1>11. ASSUME NEW j \in GateJobs, StartTaken(j)
       PROVE  StarterOK'
  BY <1>11, <1>0
     DEF StartTaken, Launch, StartFails, Freed, Runs, GateTypeOK, StarterOK
<1>12. ASSUME NEW j \in GateJobs, TakenReturns(j)
       PROVE  StarterOK'
  BY <1>12, <1>0 DEF TakenReturns, GateTypeOK, StarterOK
<1>13. ASSUME NEW j \in GateJobs, SnapshotCompletes(j)
       PROVE  StarterOK'
  BY <1>13, <1>0 DEF SnapshotCompletes, Freed, GateTypeOK, StarterOK
<1>14. ASSUME NEW j \in GateJobs, JobEnds(j)
       PROVE  StarterOK'
  BY <1>14, <1>0 DEF JobEnds, Freed, Runs, GateTypeOK, StarterOK
<1>15. ASSUME NEW j \in GateJobs, GateCallback(j)
       PROVE  StarterOK'
  BY <1>15, <1>0 DEF GateCallback, GateTypeOK, StarterOK
<1>16. ASSUME NEW j \in GateJobs, GateCancel(j)
       PROVE  StarterOK'
  BY <1>16, <1>0 DEF GateCancel, StopJob, Freed, GateTypeOK, StarterOK
<1>17. ASSUME NEW j \in GateJobs, GateDelete(j)
       PROVE  StarterOK'
  BY <1>17, <1>0 DEF GateDelete, StopJob, GateTypeOK, StarterOK
<1>18. ASSUME NEW j \in GateJobs, LoseLease(j)
       PROVE  StarterOK'
  BY <1>18, <1>0 DEF LoseLease, StopJob, Runs, GateTypeOK, StarterOK
<1>19. ASSUME UNCHANGED gateVars
       PROVE  StarterOK'
  BY <1>19 DEF gateVars, GateTypeOK, StarterOK
<1> QED
  BY <1>2, <1>3, <1>4, <1>5, <1>6, <1>7, <1>8, <1>9, <1>10,
     <1>11, <1>12, <1>13, <1>14, <1>15, <1>16, <1>17, <1>18, <1>19 DEF GateNext

(* A job that leaves the queue and stays in the manager is taken by a drain *)
(* goroutine or cancelled.                                                 *)
LEMMA QueueLeft ==
  ASSUME GateTypeOK, [GateNext]_gateVars, NEW k \in Queued \ Queued', k \in held'
  PROVE  \/ DrainTakes /\ k = Head(queue)
         \/ status[k] = "QUEUED" /\ status'[k] = "STOPPED" /\ request' = request
<1>1. k \in GateJobs
  BY QueueShape
<1>2. \/ DrainTakes /\ k = Head(queue)
      \/ GateCancel(k) /\ status[k] = "QUEUED"
      \/ GateDelete(k)
      \/ StartRequested(k) /\ k \notin held'
  BY QueueStep DEF QueueKept
<1>3. ~GateDelete(k)
  BY DEF GateDelete
<1>4. GateCancel(k) => status'[k] = "STOPPED" /\ request' = request
  BY <1>1 DEF GateCancel, StopJob, GateTypeOK
<1> QED
  BY <1>2, <1>3, <1>4

(* A job that is going to be QUEUED stays in the queue.                    *)
LEMMA EnqueuedStep ==
  ASSUME GateTypeOK, StarterOK, EnqueuedOK, [GateNext]_gateVars
  PROVE  EnqueuedOK'
<1> SUFFICES ASSUME NEW k \in held', request'[k] = "enqueued", k \notin dropped'
             PROVE  k \in Queued'
  BY DEF EnqueuedOK
<1> DEFINE Was == \/ k \in Queued'
                  \/ k \in held /\ request[k] = "enqueued" /\ k \notin dropped
<1>0. /\ k \in GateJobs /\ queue \in Seq(GateJobs)
      /\ Queued = Elements(queue) /\ Queued' = Elements(queue')
  BY QueueShape, TypeStep DEF GateTypeOK
<1>1. Was
  <2>2. ASSUME DrainEnds
        PROVE  Was
    BY <2>2, <1>0 DEF DrainEnds, GateTypeOK
  <2>3. ASSUME DrainTakes
        PROVE  Was
    BY <2>3, <1>0 DEF DrainTakes, Startable, GateTypeOK
  <2>4. ASSUME NEW j \in GateJobs, GateSubmit(j)
        PROVE  Was
    <3>1. CASE k # j
      BY <2>4, <3>1 DEF GateSubmit, Requested, Decide, GateTypeOK
    <3>2. CASE k = j
      <4>1. queue' = IF j \in Queued THEN queue ELSE Append(queue, j)
        BY <1>0, <2>4, <3>2 DEF GateSubmit, Requested, Decide, GateTypeOK
      <4> QED
        BY <1>0, <3>2, <4>1, AppendElements
    <3> QED
      BY <3>1, <3>2
  <2>5. ASSUME NEW j \in GateJobs, GateResubmit(j)
        PROVE  Was
    <3>1. CASE k # j
      BY <2>5, <3>1 DEF GateResubmit, Requested, Decide, GateTypeOK
    <3>2. CASE k = j
      <4>1. queue' = IF j \in Queued THEN queue ELSE Append(queue, j)
        BY <1>0, <2>5, <3>2 DEF GateResubmit, Requested, Decide, GateTypeOK
      <4> QED
        BY <1>0, <3>2, <4>1, AppendElements
    <3> QED
      BY <3>1, <3>2
  <2>6. ASSUME NEW j \in GateJobs, GateClaim(j)
        PROVE  Was
    <3>1. CASE k # j
      BY <2>6, <3>1 DEF GateClaim, Requested, Decide, GateTypeOK
    <3>2. CASE k = j
      <4>1. queue' = IF j \in Queued THEN queue ELSE Append(queue, j)
        BY <1>0, <2>6, <3>2 DEF GateClaim, Requested, Decide, GateTypeOK
      <4> QED
        BY <1>0, <3>2, <4>1, AppendElements
    <3> QED
      BY <3>1, <3>2
  <2>7. ASSUME NEW j \in GateJobs, SetQueued(j)
        PROVE  Was
    BY <2>7, <1>0 DEF SetQueued, GateTypeOK
  <2>8. ASSUME NEW j \in GateJobs, MarkStarting(j)
        PROVE  Was
    BY <2>8, <1>0 DEF MarkStarting, GateTypeOK
  <2>9. ASSUME NEW j \in GateJobs, StartRequested(j)
        PROVE  Was
    BY <2>9, <1>0
       DEF StartRequested, Launch, StartFails, Freed, Runs, GateTypeOK
  <2>10. ASSUME NEW j \in GateJobs, StartReturns(j)
         PROVE  Was
    BY <2>10, <1>0 DEF StartReturns, GateTypeOK
  <2>11. ASSUME NEW j \in GateJobs, StartTaken(j)
         PROVE  Was
    BY <2>11, <1>0 DEF StartTaken, Launch, StartFails, Freed, Runs, GateTypeOK
  <2>12. ASSUME NEW j \in GateJobs, TakenReturns(j)
         PROVE  Was
    BY <2>12, <1>0 DEF TakenReturns, GateTypeOK
  <2>13. ASSUME NEW j \in GateJobs, SnapshotCompletes(j)
         PROVE  Was
    BY <2>13, <1>0 DEF SnapshotCompletes, Freed, GateTypeOK
  <2>14. ASSUME NEW j \in GateJobs, JobEnds(j)
         PROVE  Was
    BY <2>14, <1>0 DEF JobEnds, Freed, Runs, GateTypeOK
  <2>15. ASSUME NEW j \in GateJobs, GateCallback(j)
         PROVE  Was
    BY <2>15, <1>0 DEF GateCallback, GateTypeOK
  <2>16. ASSUME NEW j \in GateJobs, GateCancel(j)
         PROVE  Was
    BY <2>16, <1>0 DEF GateCancel, StopJob, Freed, GateTypeOK
  <2>17. ASSUME NEW j \in GateJobs, GateDelete(j)
         PROVE  Was
    BY <2>17, <1>0 DEF GateDelete, StopJob, GateTypeOK
  <2>18. ASSUME NEW j \in GateJobs, LoseLease(j)
         PROVE  Was
    BY <2>18, <1>0 DEF LoseLease, StopJob, Runs, GateTypeOK
  <2>19. ASSUME UNCHANGED gateVars
         PROVE  Was
    BY <2>19 DEF gateVars, GateTypeOK
  <2> QED
    BY <2>2, <2>3, <2>4, <2>5, <2>6, <2>7, <2>8, <2>9, <2>10,
       <2>11, <2>12, <2>13, <2>14, <2>15, <2>16, <2>17, <2>18, <2>19 DEF GateNext
<1>2. CASE k \in held /\ request[k] = "enqueued" /\ k \notin dropped
  <2>1. k \in Queued /\ status[k] # "QUEUED"
    BY <1>0, <1>2 DEF EnqueuedOK, StarterOK
  <2>2. ~(DrainTakes /\ k = Head(queue))
    BY <1>2, <2>1 DEF DrainTakes, Startable
  <2> QED
    BY <2>1, <2>2, QueueLeft
<1> QED
  BY <1>1, <1>2

(* A QUEUED job stays in the queue until a drain goroutine takes it.       *)
LEMMA QueuedStep ==
  ASSUME GateTypeOK, StarterOK, EnqueuedOK, QueuedOK, [GateNext]_gateVars
  PROVE  QueuedOK'
<1> SUFFICES ASSUME NEW k \in held', status'[k] = "QUEUED", taken'[k] = "none",
                    k \notin dropped'
             PROVE  k \in Queued'
  BY DEF QueuedOK
<1> DEFINE Was == /\ k \in held /\ k \notin dropped
                  /\ \/ status[k] = "QUEUED" /\ taken[k] = "none"
                     \/ request[k] = "enqueued"
<1>0. k \in GateJobs
  BY TypeStep DEF GateTypeOK
<1>1. Was
  <2>2. ASSUME DrainEnds
        PROVE  Was
    BY <2>2, <1>0 DEF DrainEnds, GateTypeOK, StarterOK
  <2>3. ASSUME DrainTakes
        PROVE  Was
    BY <2>3, <1>0 DEF DrainTakes, Startable, GateTypeOK, StarterOK
  <2>4. ASSUME NEW j \in GateJobs, GateSubmit(j)
        PROVE  Was
    BY <2>4, <1>0 DEF GateSubmit, Requested, Decide, GateTypeOK, StarterOK
  <2>5. ASSUME NEW j \in GateJobs, GateResubmit(j)
        PROVE  Was
    BY <2>5, <1>0 DEF GateResubmit, Requested, Decide, GateTypeOK, StarterOK
  <2>6. ASSUME NEW j \in GateJobs, GateClaim(j)
        PROVE  Was
    BY <2>6, <1>0 DEF GateClaim, Requested, Decide, GateTypeOK, StarterOK
  <2>7. ASSUME NEW j \in GateJobs, SetQueued(j)
        PROVE  Was
    BY <2>7, <1>0 DEF SetQueued, GateTypeOK, StarterOK
  <2>8. ASSUME NEW j \in GateJobs, MarkStarting(j)
        PROVE  Was
    BY <2>8, <1>0 DEF MarkStarting, GateTypeOK, StarterOK
  <2>9. ASSUME NEW j \in GateJobs, StartRequested(j)
        PROVE  Was
    BY <2>9, <1>0
       DEF StartRequested, Launch, StartFails, Freed, Runs, GateTypeOK,
           StarterOK
  <2>10. ASSUME NEW j \in GateJobs, StartReturns(j)
         PROVE  Was
    BY <2>10, <1>0 DEF StartReturns, GateTypeOK, StarterOK
  <2>11. ASSUME NEW j \in GateJobs, StartTaken(j)
         PROVE  Was
    BY <2>11, <1>0
       DEF StartTaken, Launch, StartFails, Freed, Runs, GateTypeOK, StarterOK
  <2>12. ASSUME NEW j \in GateJobs, TakenReturns(j)
         PROVE  Was
    BY <2>12, <1>0 DEF TakenReturns, GateTypeOK, StarterOK
  <2>13. ASSUME NEW j \in GateJobs, SnapshotCompletes(j)
         PROVE  Was
    BY <2>13, <1>0 DEF SnapshotCompletes, Freed, GateTypeOK, StarterOK
  <2>14. ASSUME NEW j \in GateJobs, JobEnds(j)
         PROVE  Was
    BY <2>14, <1>0 DEF JobEnds, Freed, Runs, GateTypeOK, StarterOK
  <2>15. ASSUME NEW j \in GateJobs, GateCallback(j)
         PROVE  Was
    BY <2>15, <1>0 DEF GateCallback, GateTypeOK, StarterOK
  <2>16. ASSUME NEW j \in GateJobs, GateCancel(j)
         PROVE  Was
    BY <2>16, <1>0 DEF GateCancel, StopJob, Freed, GateTypeOK, StarterOK
  <2>17. ASSUME NEW j \in GateJobs, GateDelete(j)
         PROVE  Was
    BY <2>17, <1>0 DEF GateDelete, StopJob, GateTypeOK, StarterOK
  <2>18. ASSUME NEW j \in GateJobs, LoseLease(j)
         PROVE  Was
    BY <2>18, <1>0 DEF LoseLease, StopJob, Runs, GateTypeOK, StarterOK
  <2>19. ASSUME UNCHANGED gateVars
         PROVE  Was
    BY <2>19 DEF gateVars, GateTypeOK, StarterOK
  <2> QED
    BY <2>2, <2>3, <2>4, <2>5, <2>6, <2>7, <2>8, <2>9, <2>10,
       <2>11, <2>12, <2>13, <2>14, <2>15, <2>16, <2>17, <2>18, <2>19 DEF GateNext
<1>2. k \in Queued
  BY <1>1 DEF QueuedOK, EnqueuedOK
<1>3. ~(DrainTakes /\ k = Head(queue))
  <2> SUFFICES ASSUME DrainTakes, k = Head(queue)
               PROVE  FALSE
    OBVIOUS
  <2>1. status[k] = "QUEUED" /\ held' = held /\ status' = status
    BY DEF DrainTakes
  <2>2. taken'[k] = "starting"
    BY <1>0, <2>1 DEF DrainTakes, Startable, GateTypeOK
  <2> QED
    BY <2>2
<1> QED
  BY <1>2, <1>3, QueueLeft

(* No slot becomes free while a job waits, unless somebody looks.           *)
LEMMA ServedStep ==
  ASSUME GateTypeOK, ListeningOK, StarterOK, SlotServed, [GateNext]_gateVars
  PROVE  SlotServed'
<1>0. GateTypeOK' /\ QueueKept
  BY TypeStep, QueueStep
<1>2. ASSUME DrainEnds
      PROVE  SlotServed'
  <2>1. HasSlot' => HasSlot
    BY <1>0, <1>2, NoNewSlot DEF DrainEnds, Occupying, Occupies
  <2> QED
    BY <1>2, <2>1 DEF DrainEnds, SlotServed
<1>3. ASSUME DrainTakes
      PROVE  SlotServed'
  <2>1. Head(queue) \in GateJobs
    BY <1>3, QueueShape, TailElements DEF DrainTakes
  <2>2. drains' > 0 \/ taken'[Head(queue)] # "none"
    BY <1>3, <2>1 DEF DrainTakes, Startable, GateTypeOK
  <2> QED
    BY <2>1, <2>2 DEF SlotServed, SomebodyLooks
<1>4. ASSUME NEW j \in GateJobs, GateSubmit(j)
      PROVE  SlotServed'
  <2>1. HasSlot' => HasSlot
    BY <1>0, <1>4, NoNewSlot
       DEF GateSubmit, Occupying, Occupies, GateTypeOK, Requested, Decide
  <2>2. SomebodyLooks => SomebodyLooks'
    BY <1>4 DEF GateSubmit, SomebodyLooks, GateTypeOK, Requested, Decide
  <2>3. (silent => silent') /\ (queue = <<>> => queue' = <<>> \/ ~HasSlot)
    BY <1>0, <1>4 DEF GateSubmit, QueueKept, Requested, Decide
  <2> QED
    BY <2>1, <2>2, <2>3 DEF SlotServed
<1>5. ASSUME NEW j \in GateJobs, GateResubmit(j)
      PROVE  SlotServed'
  <2>1. HasSlot' => HasSlot
    BY <1>0, <1>5, NoNewSlot
       DEF GateResubmit, Occupying, Occupies, GateTypeOK, Requested, Decide
  <2>2. SomebodyLooks => SomebodyLooks'
    BY <1>5 DEF GateResubmit, SomebodyLooks, GateTypeOK, Requested, Decide
  <2>3. (silent => silent') /\ (queue = <<>> => queue' = <<>> \/ ~HasSlot)
    BY <1>0, <1>5 DEF GateResubmit, QueueKept, Requested, Decide
  <2> QED
    BY <2>1, <2>2, <2>3 DEF SlotServed
<1>6. ASSUME NEW j \in GateJobs, GateClaim(j)
      PROVE  SlotServed'
  <2>1. HasSlot' => HasSlot
    BY <1>0, <1>6, NoNewSlot
       DEF GateClaim, Occupying, Occupies, GateTypeOK, Requested, Decide
  <2>2. SomebodyLooks => SomebodyLooks'
    BY <1>6 DEF GateClaim, SomebodyLooks, GateTypeOK, Requested, Decide
  <2>3. (silent => silent') /\ (queue = <<>> => queue' = <<>> \/ ~HasSlot)
    BY <1>0, <1>6 DEF GateClaim, QueueKept, Requested, Decide
  <2> QED
    BY <2>1, <2>2, <2>3 DEF SlotServed
<1>7. ASSUME NEW j \in GateJobs, SetQueued(j)
      PROVE  SlotServed'
  <2>1. HasSlot' => HasSlot
    BY <1>0, <1>7, NoNewSlot
       DEF SetQueued, Occupying, Occupies, GateTypeOK, StarterOK
  <2>2. SomebodyLooks => SomebodyLooks'
    BY <1>7 DEF SetQueued, SomebodyLooks, GateTypeOK
  <2>3. (silent => silent') /\ (queue = <<>> => queue' = <<>> \/ ~HasSlot)
    BY <1>0, <1>7 DEF SetQueued, QueueKept
  <2> QED
    BY <2>1, <2>2, <2>3 DEF SlotServed
<1>8. ASSUME NEW j \in GateJobs, MarkStarting(j)
      PROVE  SlotServed'
  <2>1. HasSlot' => HasSlot
    BY <1>0, <1>8, NoNewSlot DEF MarkStarting, Occupying, Occupies, GateTypeOK
  <2>2. SomebodyLooks => SomebodyLooks'
    BY <1>8 DEF MarkStarting, SomebodyLooks, GateTypeOK
  <2>3. (silent => silent') /\ (queue = <<>> => queue' = <<>> \/ ~HasSlot)
    BY <1>0, <1>8 DEF MarkStarting, QueueKept
  <2> QED
    BY <2>1, <2>2, <2>3 DEF SlotServed
<1>9. ASSUME NEW j \in GateJobs, StartRequested(j)
      PROVE  SlotServed'
  <2>1. request'[j] = "started"
    BY <1>9 DEF StartRequested, GateTypeOK
  <2> QED
    BY <2>1 DEF SlotServed, SomebodyLooks
<1>10. ASSUME NEW j \in GateJobs, StartReturns(j)
       PROVE  SlotServed'
  <2>1. drains' > 0
    BY <1>10 DEF StartReturns, GateTypeOK
  <2> QED
    BY <2>1 DEF SlotServed, SomebodyLooks
<1>11. ASSUME NEW j \in GateJobs, StartTaken(j)
       PROVE  SlotServed'
  <2>1. taken'[j] = "started"
    BY <1>11 DEF StartTaken, GateTypeOK
  <2> QED
    BY <2>1 DEF SlotServed, SomebodyLooks
<1>12. ASSUME NEW j \in GateJobs, TakenReturns(j)
       PROVE  SlotServed'
  <2>1. drains' > 0
    BY <1>12 DEF TakenReturns, GateTypeOK
  <2> QED
    BY <2>1 DEF SlotServed, SomebodyLooks
<1>13. ASSUME NEW j \in GateJobs, SnapshotCompletes(j)
       PROVE  SlotServed'
  <2>1. CASE Occupies(j)
    <3>1. j \in callbacks'
      BY <1>13, <2>1 DEF SnapshotCompletes, Freed, ListeningOK, Occupies
    <3> QED
      BY <3>1 DEF SlotServed, SomebodyLooks
  <2>2. CASE ~Occupies(j)
    <3>1. HasSlot' => HasSlot
      BY <1>0, <1>13, <2>2, NoNewSlot
         DEF SnapshotCompletes, Freed, Occupying, Occupies, GateTypeOK
    <3>2. SomebodyLooks => SomebodyLooks'
      BY <1>13 DEF SnapshotCompletes, Freed, SomebodyLooks
    <3>3. silent' = silent /\ (queue = <<>> => queue' = <<>> \/ ~HasSlot)
      BY <1>0, <1>13 DEF SnapshotCompletes, Freed, QueueKept
    <3> QED
      BY <3>1, <3>2, <3>3 DEF SlotServed
  <2> QED
    BY <2>1, <2>2
<1>14. ASSUME NEW j \in GateJobs, JobEnds(j)
       PROVE  SlotServed'
  <2>1. CASE Occupies(j)
    <3>1. j \in callbacks'
      BY <1>14, <2>1 DEF JobEnds, Freed, Runs, ListeningOK, Occupies
    <3> QED
      BY <3>1 DEF SlotServed, SomebodyLooks
  <2>2. CASE ~Occupies(j)
    <3>1. HasSlot' => HasSlot
      BY <1>0, <1>14, <2>2, NoNewSlot
         DEF JobEnds, Freed, Runs, Occupying, Occupies, GateTypeOK
    <3>2. SomebodyLooks => SomebodyLooks'
      BY <1>14 DEF JobEnds, Freed, Runs, SomebodyLooks
    <3>3. silent' = silent /\ (queue = <<>> => queue' = <<>> \/ ~HasSlot)
      BY <1>0, <1>14 DEF JobEnds, Freed, Runs, QueueKept
    <3> QED
      BY <3>1, <3>2, <3>3 DEF SlotServed
  <2> QED
    BY <2>1, <2>2
<1>15. ASSUME NEW j \in GateJobs, GateCallback(j)
       PROVE  SlotServed'
  <2>1. drains' > 0
    BY <1>15 DEF GateCallback, GateTypeOK
  <2> QED
    BY <2>1 DEF SlotServed, SomebodyLooks
<1>16. ASSUME NEW j \in GateJobs, GateCancel(j)
       PROVE  SlotServed'
  <2>1. CASE Occupies(j)
    <3>1. j \in callbacks'
      BY <1>16, <2>1 DEF GateCancel, StopJob, Freed, ListeningOK, Occupies
    <3> QED
      BY <3>1 DEF SlotServed, SomebodyLooks
  <2>2. CASE ~Occupies(j)
    <3>1. HasSlot' => HasSlot
      BY <1>0, <1>16, <2>2, NoNewSlot
         DEF GateCancel, StopJob, Freed, Occupying, Occupies, GateTypeOK
    <3>2. SomebodyLooks => SomebodyLooks'
      BY <1>16 DEF GateCancel, StopJob, Freed, SomebodyLooks
    <3>3. silent' = silent /\ (queue = <<>> => queue' = <<>> \/ ~HasSlot)
      BY <1>0, <1>16 DEF GateCancel, StopJob, Freed, QueueKept
    <3> QED
      BY <3>1, <3>2, <3>3 DEF SlotServed
  <2> QED
    BY <2>1, <2>2
<1>17. ASSUME NEW j \in GateJobs, GateDelete(j)
       PROVE  SlotServed'
  <2>1. CASE silent'
    BY <2>1 DEF SlotServed
  <2>2. CASE ~silent'
    <3>1. starting' = starting /\ Occupying \subseteq Occupying' /\ ~silent
      BY <1>17, <2>2 DEF GateDelete, StopJob, Occupying, Occupies, GateTypeOK
    <3>2. HasSlot' => HasSlot
      BY <1>0, <3>1, NoNewSlot
    <3>3. SomebodyLooks => SomebodyLooks'
      BY <1>17 DEF GateDelete, StopJob, SomebodyLooks
    <3>4. queue = <<>> => queue' = <<>> \/ ~HasSlot
      BY <1>0 DEF QueueKept
    <3> QED
      BY <3>1, <3>2, <3>3, <3>4 DEF SlotServed
  <2> QED
    BY <2>1, <2>2
<1>18. ASSUME NEW j \in GateJobs, LoseLease(j)
       PROVE  SlotServed'
  <2>1. CASE silent'
    BY <2>1 DEF SlotServed
  <2>2. CASE ~silent'
    <3>1. starting' = starting /\ Occupying \subseteq Occupying' /\ ~silent
      BY <1>18, <2>2
         DEF LoseLease, StopJob, Runs, Occupying, Occupies, GateTypeOK
    <3>2. HasSlot' => HasSlot
      BY <1>0, <3>1, NoNewSlot
    <3>3. SomebodyLooks => SomebodyLooks'
      BY <1>18 DEF LoseLease, StopJob, Runs, SomebodyLooks
    <3>4. queue = <<>> => queue' = <<>> \/ ~HasSlot
      BY <1>0 DEF QueueKept
    <3> QED
      BY <3>1, <3>2, <3>3, <3>4 DEF SlotServed
  <2> QED
    BY <2>1, <2>2
<1>19. ASSUME UNCHANGED gateVars
       PROVE  SlotServed'
  <2>1. HasSlot' => HasSlot
    BY <1>0, <1>19, NoNewSlot DEF gateVars, Occupying, Occupies
  <2> QED
    BY <1>19, <2>1 DEF gateVars, SlotServed, SomebodyLooks
<1> QED
  BY <1>2, <1>3, <1>4, <1>5, <1>6, <1>7, <1>8, <1>9, <1>10,
     <1>11, <1>12, <1>13, <1>14, <1>15, <1>16, <1>17, <1>18, <1>19 DEF GateNext

(* What was given away stays within the limit.                             *)
LEMMA SlotsStep ==
  ASSUME GateTypeOK, MarkedOK, StarterOK, SlotsOK, [GateNext]_gateVars
  PROVE  SlotsOK'
<1>2. ASSUME DrainEnds
      PROVE  SlotsOK'
  <2>1. Claimed' \subseteq Claimed /\ crowded' = crowded
    BY <1>2
       DEF DrainEnds, Claimed, Promised, Occupying, Occupies, GateTypeOK,
           MarkedOK
  <2> QED
    BY <2>1, ClaimedKept
<1>3. ASSUME DrainTakes
      PROVE  SlotsOK'
  <2>1. CASE Startable(Head(queue))
    <3>1. Head(queue) \in GateJobs
      BY <1>3, QueueShape, TailElements DEF DrainTakes
    <3>2. HasSlot /\ (~crowded' => Promised = {})
      BY <1>3, <2>1 DEF DrainTakes
    <3>3. Claimed' \subseteq Claimed \cup {Head(queue)}
      BY <1>3, <2>1, <3>1
         DEF DrainTakes, Claimed, Promised, Occupying, Occupies, GateTypeOK
    <3> QED
      BY <3>2, <3>3, ClaimedOne
  <2>2. CASE ~Startable(Head(queue))
    <3>1. Claimed' \subseteq Claimed /\ crowded' = crowded
      BY <1>3, <2>2
         DEF DrainTakes, Claimed, Promised, Occupying, Occupies, GateTypeOK
    <3> QED
      BY <3>1, ClaimedKept
  <2> QED
    BY <2>1, <2>2
<1>4. ASSUME NEW j \in GateJobs, GateSubmit(j)
      PROVE  SlotsOK'
  <2>1. CASE request' = [request EXCEPT ![j] = "enqueued"]
    <3>1. Claimed' \subseteq Claimed /\ crowded' = crowded
      BY <1>4, <2>1
         DEF GateSubmit, Requested, Decide, Claimed, Promised, Occupying,
             Occupies, GateTypeOK
    <3> QED
      BY <3>1, ClaimedKept
  <2>2. CASE request' = [request EXCEPT ![j] = "admitted"]
    <3>1. crowded' \/ (HasSlot /\ Promised = {})
      BY <1>4, <2>2 DEF GateSubmit, Requested, Decide, GateTypeOK
    <3>2. Claimed' \subseteq Claimed \cup {j}
      BY <1>4, <2>2
         DEF GateSubmit, Requested, Claimed, Promised, Occupying, Occupies,
             GateTypeOK
    <3>3. CASE crowded'
      BY <3>3 DEF SlotsOK
    <3> QED
      BY <3>1, <3>2, <3>3, ClaimedOne
  <2> QED
    BY <1>4, <2>1, <2>2 DEF GateSubmit, Decide
<1>5. ASSUME NEW j \in GateJobs, GateResubmit(j)
      PROVE  SlotsOK'
  <2>1. CASE request' = [request EXCEPT ![j] = "enqueued"]
    <3>1. Claimed' \subseteq Claimed /\ crowded' = crowded
      BY <1>5, <2>1
         DEF GateResubmit, Requested, Decide, Claimed, Promised, Occupying,
             Occupies, GateTypeOK
    <3> QED
      BY <3>1, ClaimedKept
  <2>2. CASE request' = [request EXCEPT ![j] = "admitted"]
    <3>1. crowded' \/ (HasSlot /\ Promised = {})
      BY <1>5, <2>2 DEF GateResubmit, Requested, Decide, GateTypeOK
    <3>2. Claimed' \subseteq Claimed \cup {j}
      BY <1>5, <2>2
         DEF GateResubmit, Requested, Claimed, Promised, Occupying, Occupies,
             GateTypeOK
    <3>3. CASE crowded'
      BY <3>3 DEF SlotsOK
    <3> QED
      BY <3>1, <3>2, <3>3, ClaimedOne
  <2> QED
    BY <1>5, <2>1, <2>2 DEF GateResubmit, Decide
<1>6. ASSUME NEW j \in GateJobs, GateClaim(j)
      PROVE  SlotsOK'
  <2>1. CASE request' = [request EXCEPT ![j] = "enqueued"]
    <3>1. Claimed' \subseteq Claimed /\ crowded' = crowded
      BY <1>6, <2>1
         DEF GateClaim, Requested, Decide, Claimed, Promised, Occupying,
             Occupies, GateTypeOK
    <3> QED
      BY <3>1, ClaimedKept
  <2>2. CASE request' = [request EXCEPT ![j] = "admitted"]
    <3>1. crowded' \/ (HasSlot /\ Promised = {})
      BY <1>6, <2>2 DEF GateClaim, Requested, Decide, GateTypeOK
    <3>2. Claimed' \subseteq Claimed \cup {j}
      BY <1>6, <2>2
         DEF GateClaim, Requested, Claimed, Promised, Occupying, Occupies,
             GateTypeOK
    <3>3. CASE crowded'
      BY <3>3 DEF SlotsOK
    <3> QED
      BY <3>1, <3>2, <3>3, ClaimedOne
  <2> QED
    BY <1>6, <2>1, <2>2 DEF GateClaim, Decide
<1>7. ASSUME NEW j \in GateJobs, SetQueued(j)
      PROVE  SlotsOK'
  <2>1. Claimed' \subseteq Claimed /\ crowded' = crowded
    BY <1>7
       DEF SetQueued, Claimed, Promised, Occupying, Occupies, GateTypeOK,
           MarkedOK
  <2> QED
    BY <2>1, ClaimedKept
<1>8. ASSUME NEW j \in GateJobs, MarkStarting(j)
      PROVE  SlotsOK'
  <2>1. Claimed' \subseteq Claimed /\ crowded' = crowded
    BY <1>8
       DEF MarkStarting, Claimed, Promised, Occupying, Occupies, GateTypeOK,
           MarkedOK
  <2> QED
    BY <2>1, ClaimedKept
<1>9. ASSUME NEW j \in GateJobs, StartRequested(j)
      PROVE  SlotsOK'
  <2>1. Claimed' \subseteq Claimed /\ crowded' = crowded
    BY <1>9
       DEF StartRequested, Launch, StartFails, Freed, Runs, Claimed, Promised,
           Occupying, Occupies, GateTypeOK, MarkedOK
  <2> QED
    BY <2>1, ClaimedKept
<1>10. ASSUME NEW j \in GateJobs, StartReturns(j)
       PROVE  SlotsOK'
  <2>1. Claimed' \subseteq Claimed /\ crowded' = crowded
    BY <1>10
       DEF StartReturns, Claimed, Promised, Occupying, Occupies, GateTypeOK,
           MarkedOK
  <2> QED
    BY <2>1, ClaimedKept
<1>11. ASSUME NEW j \in GateJobs, StartTaken(j)
       PROVE  SlotsOK'
  <2>1. Claimed' \subseteq Claimed /\ crowded' = crowded
    BY <1>11
       DEF StartTaken, Launch, StartFails, Freed, Runs, Claimed, Promised,
           Occupying, Occupies, GateTypeOK, MarkedOK
  <2> QED
    BY <2>1, ClaimedKept
<1>12. ASSUME NEW j \in GateJobs, TakenReturns(j)
       PROVE  SlotsOK'
  <2>1. Claimed' \subseteq Claimed /\ crowded' = crowded
    BY <1>12
       DEF TakenReturns, Claimed, Promised, Occupying, Occupies, GateTypeOK,
           MarkedOK
  <2> QED
    BY <2>1, ClaimedKept
<1>13. ASSUME NEW j \in GateJobs, SnapshotCompletes(j)
       PROVE  SlotsOK'
  <2>1. Claimed' \subseteq Claimed /\ crowded' = crowded
    BY <1>13
       DEF SnapshotCompletes, Freed, Claimed, Promised, Occupying, Occupies,
           GateTypeOK, MarkedOK
  <2> QED
    BY <2>1, ClaimedKept
<1>14. ASSUME NEW j \in GateJobs, JobEnds(j)
       PROVE  SlotsOK'
  <2>1. Claimed' \subseteq Claimed /\ crowded' = crowded
    BY <1>14
       DEF JobEnds, Freed, Runs, Claimed, Promised, Occupying, Occupies,
           GateTypeOK, MarkedOK
  <2> QED
    BY <2>1, ClaimedKept
<1>15. ASSUME NEW j \in GateJobs, GateCallback(j)
       PROVE  SlotsOK'
  <2>1. Claimed' \subseteq Claimed /\ crowded' = crowded
    BY <1>15
       DEF GateCallback, Claimed, Promised, Occupying, Occupies, GateTypeOK,
           MarkedOK
  <2> QED
    BY <2>1, ClaimedKept
<1>16. ASSUME NEW j \in GateJobs, GateCancel(j)
       PROVE  SlotsOK'
  <2>1. Claimed' \subseteq Claimed /\ crowded' = crowded
    BY <1>16
       DEF GateCancel, StopJob, Freed, Claimed, Promised, Occupying, Occupies,
           GateTypeOK, MarkedOK
  <2> QED
    BY <2>1, ClaimedKept
<1>17. ASSUME NEW j \in GateJobs, GateDelete(j)
       PROVE  SlotsOK'
  <2>1. Claimed' \subseteq Claimed /\ crowded' = crowded
    BY <1>17
       DEF GateDelete, StopJob, Claimed, Promised, Occupying, Occupies,
           GateTypeOK, MarkedOK
  <2> QED
    BY <2>1, ClaimedKept
<1>18. ASSUME NEW j \in GateJobs, LoseLease(j)
       PROVE  SlotsOK'
  <2>1. Claimed' \subseteq Claimed /\ crowded' = crowded
    BY <1>18
       DEF LoseLease, StopJob, Runs, Claimed, Promised, Occupying, Occupies,
           GateTypeOK, MarkedOK
  <2> QED
    BY <2>1, ClaimedKept
<1>19. ASSUME UNCHANGED gateVars
       PROVE  SlotsOK'
  <2>1. Claimed' \subseteq Claimed /\ crowded' = crowded
    BY <1>19 DEF gateVars, Claimed, Promised, Occupying, Occupies
  <2> QED
    BY <2>1, ClaimedKept
<1> QED
  BY <1>2, <1>3, <1>4, <1>5, <1>6, <1>7, <1>8, <1>9, <1>10,
     <1>11, <1>12, <1>13, <1>14, <1>15, <1>16, <1>17, <1>18, <1>19 DEF GateNext

-----------------------------------------------------------------------------
(* Theorems *)

(* The first state: no job, no queue, every slot free.                     *)
LEMMA GateStart ==
  ASSUME GateInit
  PROVE  GateInv
<1>1. GateTypeOK
  <2>1. /\ status \in [GateJobs -> Statuses] /\ request \in [GateJobs -> RequestPlaces]
        /\ taken \in [GateJobs -> TakenPlaces]
    BY DEF GateInit, Statuses, RequestPlaces, TakenPlaces
  <2>2. queue \in Seq(GateJobs) /\ DOMAIN queue = {}
    BY EmptySeq, LenProperties DEF GateInit
  <2>3. /\ requests \in 0..MaxRequests /\ endings \in 0..MaxEndings /\ drains \in Nat
        /\ gateRole \in {"all", "snapshot"}
    BY GateAssumption DEF GateInit
  <2>4. {held, leased, listening, starting, callbacks, dropped, stopped} = {{}}
    BY DEF GateInit
  <2>5. {silent, crowded} \subseteq BOOLEAN
    BY DEF GateInit
  <2> QED
    BY <2>1, <2>2, <2>3, <2>4, <2>5 DEF GateTypeOK
<1>2. ListeningOK /\ MarkedOK /\ StarterOK /\ EnqueuedOK /\ QueuedOK /\ SlotServed
  BY DEF GateInit, ListeningOK, MarkedOK, StarterOK, EnqueuedOK, QueuedOK,
     SlotServed
<1>3. Claimed = {}
  BY DEF GateInit, Claimed, Promised, Occupying, Occupies
<1>4. SlotsOK
  BY <1>3, FS_EmptySet, GateAssumption DEF SlotsOK
<1> QED
  BY <1>1, <1>2, <1>4 DEF GateInv

(* The manager's bookkeeping, one request, goroutine, callback or stop at a *)
(* time, keeps the invariant.                                              *)
LEMMA GateStep ==
  ASSUME GateInv, [GateNext]_gateVars
  PROVE  GateInv'
<1> USE DEF GateInv
<1>1. GateTypeOK'
  BY TypeStep
<1>2. ListeningOK' /\ MarkedOK' /\ StarterOK'
  BY ListeningStep, MarkedStep, StarterStep
<1>3. EnqueuedOK' /\ QueuedOK'
  BY EnqueuedStep, QueuedStep
<1>4. SlotServed' /\ SlotsOK'
  BY ServedStep, SlotsStep
<1> QED
  BY <1>1, <1>2, <1>3, <1>4

(* The invariant of the gate holds whatever requests, drain goroutines,    *)
(* callbacks and stops do in which order (core/manager.go).                *)
THEOREM GateInductive == GateSpec => []GateInv
<1>1. GateInit => GateInv
  BY GateStart
<1>2. GateInv /\ [GateNext]_gateVars => GateInv'
  BY GateStep
<1> QED
  BY <1>1, <1>2, PTL DEF GateSpec

(* No slot stays free while a job waits and nobody is on the way to look,  *)
(* and a QUEUED job is in the queue, apart from the two lost wake-ups that *)
(* silent and dropped mark: for any number of jobs and slots.              *)
THEOREM NoLostWakeUp == GateSpec => []QueueServed
<1>1. GateInv => QueueServed
  BY DEF GateInv, SlotServed, QueuedOK, QueueServed
<1> QED
  BY <1>1, GateInductive, PTL

(* No more snapshots run than max_concurrent_snapshot_jobs, unless a slot  *)
(* was given away while another one was promised: the marks of             *)
(* startingSnapshotJobs cover the time until the status says RUNNING.      *)
THEOREM LimitKept == GateSpec => []WithinLimit
<1>1. ASSUME GateInv
      PROVE  WithinLimit
  <2>1. Occupying \subseteq Claimed
    BY DEF Claimed
  <2>2. /\ Cardinality(Occupying) <= Cardinality(Claimed)
        /\ Cardinality(Occupying) \in Nat /\ Cardinality(Claimed) \in Nat
    BY <1>1, <2>1, SlotSets, FS_Subset DEF GateInv
  <2>3. ~crowded => Cardinality(Occupying) <= Limit
    BY <1>1, <2>2, GateAssumption DEF GateInv, SlotsOK
  <2> QED
    BY <2>3 DEF WithinLimit, Occupying
<1> QED
  BY <1>1, GateInductive, PTL
=============================================================================
