--------------------------- MODULE JobPoolProofs ---------------------------
(***************************************************************************)
(* Facts about the worker pool that hold whatever the main thread submits: *)
(* the types, that no step of a worker loses or invents a job, and that no *)
(* notification is lost.  J is the set of jobs.                            *)
(***************************************************************************)
EXTENDS JobPool, SequenceTheorems, TLAPS

-----------------------------------------------------------------------------
(* Types. *)

LEMMA WorkerTyped ==
  ASSUME NEW J, PoolTypeOK(J), NEW w \in Workers, WorkerStep(w)
  PROVE  PoolTypeOK(J)'
<1>1. CASE Pop(w)
  <2>1. queue' \in [Slots -> J \cup {NoJob}] /\ running' \in [Workers -> J \cup {NoJob}]
    BY <1>1 DEF Pop, PoolTypeOK, NoJobs, Kept
  <2>2. dropped' \in [Workers -> [Slots -> J \cup {NoJob}]]
    BY <1>1 DEF Pop, PoolTypeOK
  <2> QED BY <1>1, <2>1, <2>2 DEF Pop, PoolTypeOK
<1>2. CASE Sleep(w)
  BY <1>2 DEF Sleep, PoolTypeOK
<1>3. CASE Report(w)
  <2>1. [how |-> "cancelled", jobs |-> dropped[w]] \in Batches(J)
    BY DEF Batches, PoolTypeOK
  <2>2. NoJobs \in [Slots -> J \cup {NoJob}]
    BY DEF NoJobs
  <2> QED BY <1>3, <2>1, <2>2 DEF Report, PoolTypeOK
<1>4. CASE Finish(w)
  <2>1. running[w] \in J
    BY <1>4 DEF Finish, PoolTypeOK
  <2>2. \A h \in {"done", "failed"} : [how |-> h, job |-> running[w]] \in Answers(J)
    BY <2>1 DEF Answers
  <2> DEFINE R == Answers(J) \cup Batches(J)
  <2>a. PICK h \in {"done", "failed"} :
            results' = Append(results, [how |-> h, job |-> running[w]])
    BY <1>4 DEF Finish
  <2>b. results \in Seq(R) /\ [how |-> h, job |-> running[w]] \in R
    BY <2>2 DEF PoolTypeOK
  <2> HIDE DEF R
  <2>c. results' \in Seq(R)
    BY <2>a, <2>b, AppendProperties
  <2>3. results' \in Seq(Answers(J) \cup Batches(J))
    BY <2>c DEF R
  <2>4. panics' \in 0..MaxPanics
    BY <1>4, PoolAssumption DEF Finish, PoolTypeOK
  <2> QED BY <1>4, <2>3, <2>4 DEF Finish, PoolTypeOK
<1> QED BY <1>1, <1>2, <1>3, <1>4 DEF WorkerStep

LEMMA SubmitTyped ==
  ASSUME NEW J, PoolTypeOK(J), NEW j \in J, Submit(j)
  PROVE  PoolTypeOK(J)'
<1>1. queue' \in [Slots -> J \cup {NoJob}]
  BY DEF Submit, PoolTypeOK, SlotsFree
<1>2. asleep' \subseteq Workers
  BY DEF Submit, PoolTypeOK
<1> QED BY <1>1, <1>2 DEF Submit, PoolTypeOK

LEMMA PublishTyped ==
  ASSUME NEW J, PoolTypeOK(J), NEW v \in Int, Publish(v)
  PROVE  PoolTypeOK(J)'
BY DEF Publish, PoolTypeOK

LEMMA ReceiveTyped ==
  ASSUME NEW J, PoolTypeOK(J), Receive
  PROVE  PoolTypeOK(J)' /\ Head(results) \in Answers(J) \cup Batches(J)
<1>1. results \in Seq(Answers(J) \cup Batches(J)) /\ results # <<>>
  BY DEF Receive, PoolTypeOK
<1>2. Head(results) \in Answers(J) \cup Batches(J)
      /\ Tail(results) \in Seq(Answers(J) \cup Batches(J))
  BY <1>1, HeadTailProperties
<1> QED BY <1>2 DEF Receive, PoolTypeOK

LEMMA InitTyped ==
  ASSUME NEW J, PoolInit
  PROVE  PoolTypeOK(J)
BY PoolAssumption DEF PoolInit, PoolTypeOK, NoJobs

-----------------------------------------------------------------------------
(* No notification is lost. *)

\* Work is only waited for over an empty queue, and a job put in one wakes a
\* worker of those that wait.
LEMMA WorkSeenStep ==
  ASSUME NEW J, PoolTypeOK(J), WorkIsSeen,
         \/ \E j \in J : Submit(j)
         \/ \E v : Publish(v)
         \/ Receive
         \/ \E w \in Workers : WorkerStep(w)
         \/ UNCHANGED poolVars
  PROVE  WorkIsSeen'
<1>1. CASE \E j \in J : Submit(j)
  BY <1>1, PoolAssumption DEF Submit, WorkIsSeen, PoolTypeOK
<1>2. CASE \E v : Publish(v)
  BY <1>2 DEF Publish, WorkIsSeen, NoJobs, Slots
<1>3. CASE Receive
  BY <1>3 DEF Receive, WorkIsSeen, NoJobs, Slots
<1>4. CASE \E w \in Workers : WorkerStep(w)
  <2> PICK w \in Workers : WorkerStep(w)
    BY <1>4
  <2>1. CASE Pop(w)
    BY <2>1 DEF Pop, Idle, WorkIsSeen
  <2>2. CASE Sleep(w)
    BY <2>2 DEF Sleep, WorkIsSeen, NoJobs, Slots
  <2>3. CASE Report(w)
    BY <2>3 DEF Report, WorkIsSeen, NoJobs, Slots
  <2>4. CASE Finish(w)
    BY <2>4 DEF Finish, WorkIsSeen, NoJobs, Slots
  <2> QED BY <2>1, <2>2, <2>3, <2>4 DEF WorkerStep
<1>5. CASE UNCHANGED poolVars
  BY <1>5 DEF poolVars, WorkIsSeen, NoJobs, Slots
<1> QED BY <1>1, <1>2, <1>3, <1>4, <1>5

-----------------------------------------------------------------------------
(* No job is lost and none is invented. *)

\* The jobs a result carries, and where the pool may hold one.
Carried(r) == IF r.how = "cancelled" THEN {r.jobs[i] : i \in Slots} ELSE {r.job}
InQueue(j) == \E i \in Slots : queue[i] = j
InHand(j) == \E w \in Workers : running[w] = j
InBatch(j) == \E w \in Workers : \E i \in Slots : dropped[w][i] = j
InResults(j) == \E k \in DOMAIN results : j \in Carried(results[k])
Held(j) == j # NoJob /\ (InQueue(j) \/ InHand(j) \/ InBatch(j) \/ InResults(j))

LEMMA HeldIs == \A j : j \in HeldJobs <=> Held(j)
<1> SUFFICES ASSUME NEW j PROVE j \in HeldJobs <=> Held(j)
  OBVIOUS
<1> DEFINE Q == {queue[i] : i \in Slots}
           H == {running[w] : w \in Workers}
           B == UNION {{dropped[w][i] : i \in Slots} : w \in Workers}
           R == UNION {IF results[k].how = "cancelled"
                       THEN {results[k].jobs[i] : i \in Slots}
                       ELSE {results[k].job} : k \in DOMAIN results}
<1>1. (j \in Q <=> InQueue(j)) /\ (j \in H <=> InHand(j)) /\ (j \in B <=> InBatch(j))
  BY DEF InQueue, InHand, InBatch
<1>2. j \in R <=> InResults(j)
  BY DEF InResults, Carried
<1> HIDE DEF Q, H, B, R
<1>3. j \in (Q \cup H \cup B \cup R) \ {NoJob} <=> Held(j)
  BY <1>1, <1>2 DEF Held
<1>4. HeldJobs = (Q \cup H \cup B \cup R) \ {NoJob}
  BY DEF HeldJobs, Q, H, B, R
<1> QED BY <1>3, <1>4

LEMMA HeldIsNext == \A j : j \in HeldJobs' <=> Held(j)'
<1> SUFFICES ASSUME NEW j PROVE j \in HeldJobs' <=> Held(j)'
  OBVIOUS
<1> DEFINE Q == {queue'[i] : i \in Slots}
           H == {running'[w] : w \in Workers}
           B == UNION {{dropped'[w][i] : i \in Slots} : w \in Workers}
           R == UNION {IF results'[k].how = "cancelled"
                       THEN {results'[k].jobs[i] : i \in Slots}
                       ELSE {results'[k].job} : k \in DOMAIN results'}
<1>1. (j \in Q <=> InQueue(j)') /\ (j \in H <=> InHand(j)') /\ (j \in B <=> InBatch(j)')
  BY DEF InQueue, InHand, InBatch
<1>2. j \in R <=> InResults(j)'
  BY DEF InResults, Carried
<1> HIDE DEF Q, H, B, R
<1>3. j \in (Q \cup H \cup B \cup R) \ {NoJob} <=> Held(j)'
  BY <1>1, <1>2 DEF Held
<1>4. HeldJobs' = (Q \cup H \cup B \cup R) \ {NoJob}
  BY DEF HeldJobs, Slots, Q, H, B, R
<1> QED BY <1>3, <1>4

LEMMA SentIsHeld ==
  ASSUME NEW S, results \in Seq(S), NEW r, results' = Append(results, r), NEW j
  PROVE  InResults(j)' <=> InResults(j) \/ j \in Carried(r)
<1>1. /\ DOMAIN results = 1..Len(results) /\ Len(results) \in Nat
      /\ DOMAIN results' = 1..(Len(results) + 1)
      /\ results'[Len(results) + 1] = r
      /\ \A n \in 1..Len(results) : results'[n] = results[n]
  OBVIOUS
<1>2. \A n \in 1..(Len(results) + 1) : n \in 1..Len(results) \/ n = Len(results) + 1
  BY <1>1
<1>3. 1..Len(results) \subseteq 1..(Len(results) + 1) /\ Len(results) + 1 \in 1..(Len(results) + 1)
  BY <1>1
<1> QED BY <1>1, <1>2, <1>3 DEF InResults

\* Whatever a worker does, the pool holds the same jobs.
LEMMA WorkerKeeps ==
  ASSUME NEW J, PoolTypeOK(J), NEW w \in Workers, WorkerStep(w)
  PROVE  HeldJobs' = HeldJobs
<1> SUFFICES ASSUME NEW j, j # NoJob PROVE Held(j)' <=> Held(j)
  BY HeldIs, HeldIsNext DEF Held
<1>1. CASE Pop(w)
  <2>1. InResults(j)' <=> InResults(j)
    BY <1>1 DEF Pop, InResults
  <2>2. InBatch(j)' <=> InBatch(j) \/ \E i \in Shed : queue[i] = j
    <3>1. \A i \in Slots : dropped[w][i] = NoJob
      BY <1>1 DEF Pop, Idle, NoJobs
    <3>2. \A i \in Slots : dropped'[w][i] = IF i \in Shed THEN queue[i] ELSE NoJob
      BY <1>1 DEF Pop, PoolTypeOK
    <3>3. \A v \in Workers \ {w} : dropped'[v] = dropped[v]
      BY <1>1 DEF Pop, PoolTypeOK
    <3>4. Shed \subseteq Slots
      BY DEF Shed
    <3> QED BY <3>1, <3>2, <3>3, <3>4 DEF InBatch
  <2>3. \A i \in Slots : queue[i] = j => i \in Kept \/ i \in Shed
    BY DEF Shed
  <2>4. Kept \subseteq Slots /\ Shed \subseteq Slots
    BY DEF Kept, Shed
  <2>5. (InQueue(j)' \/ InHand(j)') <=> InHand(j) \/ \E i \in Kept : queue[i] = j
    <3>1. running[w] = NoJob
      BY <1>1 DEF Pop, Idle
    <3>2. CASE Kept = {} /\ queue' = NoJobs /\ UNCHANGED running
      BY <3>2 DEF InQueue, InHand, NoJobs
    <3>3. ASSUME NEW i \in Kept,
                 queue' = [k \in Slots |-> IF k \in Kept \ {i} THEN queue[k] ELSE NoJob],
                 running' = [running EXCEPT ![w] = queue[i]]
          PROVE  (InQueue(j)' \/ InHand(j)') <=> InHand(j) \/ \E k \in Kept : queue[k] = j
      <4>1. InQueue(j)' <=> \E k \in Kept \ {i} : queue[k] = j
        BY <3>3, <2>4 DEF InQueue
      <4>2. InHand(j)' <=> InHand(j) \/ queue[i] = j
        BY <3>1, <3>3 DEF InHand, PoolTypeOK
      <4> QED BY <4>1, <4>2
    <3> QED BY <1>1, <3>2, <3>3 DEF Pop
  <2>6. InQueue(j) <=> (\E i \in Kept : queue[i] = j) \/ (\E i \in Shed : queue[i] = j)
    BY <2>3, <2>4 DEF InQueue
  <2> QED BY <2>1, <2>2, <2>5, <2>6 DEF Held
<1>2. CASE Sleep(w)
  BY <1>2 DEF Sleep, Held, InQueue, InHand, InBatch, InResults
<1>3. CASE Report(w)
  <2>1. (InQueue(j)' <=> InQueue(j)) /\ (InHand(j)' <=> InHand(j))
    BY <1>3 DEF Report, InQueue, InHand
  <2>2. InBatch(j) <=> InBatch(j)' \/ \E i \in Slots : dropped[w][i] = j
    BY <1>3 DEF Report, InBatch, PoolTypeOK, NoJobs
  <2>3. InResults(j)' <=> InResults(j) \/ \E i \in Slots : dropped[w][i] = j
    <3> DEFINE r == [how |-> "cancelled", jobs |-> dropped[w]]
    <3>1. results' = Append(results, r)
      BY <1>3 DEF Report
    <3>2. j \in Carried(r) <=> \E i \in Slots : dropped[w][i] = j
      BY DEF Carried
    <3> HIDE DEF r
    <3>3. InResults(j)' <=> InResults(j) \/ j \in Carried(r)
      BY <3>1, SentIsHeld DEF PoolTypeOK
    <3> QED BY <3>2, <3>3
  <2> QED BY <2>1, <2>2, <2>3 DEF Held
<1>4. CASE Finish(w)
  <2>1. (InQueue(j)' <=> InQueue(j)) /\ (InBatch(j)' <=> InBatch(j))
    BY <1>4 DEF Finish, InQueue, InBatch
  <2>2. InHand(j) <=> InHand(j)' \/ running[w] = j
    BY <1>4 DEF Finish, InHand, PoolTypeOK
  <2>3. InResults(j)' <=> InResults(j) \/ running[w] = j
    <3>1. PICK h \in {"done", "failed"} :
            results' = Append(results, [how |-> h, job |-> running[w]])
      BY <1>4 DEF Finish
    <3> DEFINE r == [how |-> h, job |-> running[w]]
    <3>2. j \in Carried(r) <=> running[w] = j
      BY DEF Carried
    <3> HIDE DEF r
    <3>3. InResults(j)' <=> InResults(j) \/ j \in Carried(r)
      BY <3>1, SentIsHeld DEF PoolTypeOK, r
    <3> QED BY <3>2, <3>3
  <2> QED BY <2>1, <2>2, <2>3 DEF Held
<1> QED BY <1>1, <1>2, <1>3, <1>4 DEF WorkerStep

LEMMA SubmitAdds ==
  ASSUME NEW J, PoolTypeOK(J), NEW j \in J, j # NoJob, Submit(j)
  PROVE  HeldJobs' = HeldJobs \cup {j}
<1> SUFFICES ASSUME NEW k, k # NoJob PROVE Held(k)' <=> Held(k) \/ k = j
  BY HeldIs, HeldIsNext DEF Held
<1>1. InQueue(k)' <=> InQueue(k) \/ k = j
  BY DEF Submit, InQueue, SlotsFree, PoolTypeOK
<1>2. (InHand(k)' <=> InHand(k)) /\ (InBatch(k)' <=> InBatch(k))
      /\ (InResults(k)' <=> InResults(k))
  BY DEF Submit, InHand, InBatch, InResults
<1> QED BY <1>1, <1>2 DEF Held

LEMMA PublishKeeps ==
  ASSUME NEW v, Publish(v)
  PROVE  HeldJobs' = HeldJobs
BY DEF Publish, HeldJobs, Slots

\* What is received leaves the pool, and nothing else does.
LEMMA ReceiveTakes ==
  ASSUME NEW J, PoolTypeOK(J), Receive
  PROVE  HeldJobs' \subseteq HeldJobs /\ HeldJobs \subseteq HeldJobs' \cup Carried(Head(results))
<1> SUFFICES ASSUME NEW k, k # NoJob
             PROVE  (Held(k)' => Held(k)) /\ (Held(k) => Held(k)' \/ k \in Carried(Head(results)))
  BY HeldIs, HeldIsNext DEF Held
<1>1. (InQueue(k)' <=> InQueue(k)) /\ (InHand(k)' <=> InHand(k)) /\ (InBatch(k)' <=> InBatch(k))
  BY DEF Receive, InQueue, InHand, InBatch
<1>2. InResults(k) <=> InResults(k)' \/ k \in Carried(Head(results))
  <2>1. /\ results \in Seq(Answers(J) \cup Batches(J)) /\ results # <<>>
        /\ results' = Tail(results)
    BY DEF Receive, PoolTypeOK
  <2>2. /\ DOMAIN results = 1..Len(results) /\ Len(results) \in Nat \ {0}
        /\ Head(results) = results[1]
        /\ DOMAIN results' = 1..(Len(results) - 1)
        /\ \A n \in 1..(Len(results) - 1) : results'[n] = results[n + 1]
    BY <2>1
  <2>3. \A n \in 1..Len(results) : n = 1 \/ n - 1 \in 1..(Len(results) - 1)
    BY <2>2
  <2>4. 1 \in 1..Len(results) /\ \A n \in 1..(Len(results) - 1) : n + 1 \in 1..Len(results)
    BY <2>2
  <2>5. InResults(k) <=> k \in Carried(results[1]) \/ \E n \in 1..(Len(results) - 1) : k \in Carried(results[n + 1])
    <3>1. ASSUME NEW n \in 1..Len(results), k \in Carried(results[n]), n # 1
          PROVE  \E m \in 1..(Len(results) - 1) : k \in Carried(results[m + 1])
      <4>1. n - 1 \in 1..(Len(results) - 1) /\ (n - 1) + 1 = n
        BY <2>2, <2>3, <3>1
      <4> QED BY <4>1, <3>1
    <3> QED BY <2>2, <2>4, <3>1 DEF InResults
  <2>6. InResults(k)' <=> \E n \in 1..(Len(results) - 1) : k \in Carried(results[n + 1])
    BY <2>2 DEF InResults
  <2> QED BY <2>2, <2>5, <2>6
<1> QED BY <1>1, <1>2 DEF Held
=============================================================================
