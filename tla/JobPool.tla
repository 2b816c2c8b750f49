------------------------------ MODULE JobPool ------------------------------
(***************************************************************************)
(* The worker pool of the chunk streamer (world/pipeline.rs): one queue    *)
(* under a mutex, a condition variable the idle workers wait on, and an    *)
(* unbounded channel of results to the main thread.                        *)
(*                                                                         *)
(* The world publishes its view on every pass.  The first pop after the    *)
(* view has changed re-keys the backlog against it and takes every job     *)
(* left behind out of the queue; the worker that popped reports them as    *)
(* one batch of cancelled claims, after it has let the lock go and before  *)
(* it runs the job it took.                                                *)
(*                                                                         *)
(* The queue is a binary heap in a vector; here it is an array of NearCap  *)
(* slots, the near class only.  Equal distances are popped in any order.   *)
(* Positions are chunks on a line.                                         *)
(***************************************************************************)
EXTENDS Integers, Sequences, FiniteSets

CONSTANTS
  Workers,     \* the threads of the pool
  NearCap,     \* jobs the near queue holds before it refuses one
  KeepR,       \* a queued job farther than this from the view is descheduled
  MaxPanics,   \* bound: panics of a job
  NoJob,       \* an empty slot, a worker with no job
  NoView       \* no view published yet: every job is wanted

ASSUME PoolAssumption ==
  /\ Workers # {}
  /\ NearCap \in Nat \ {0}
  /\ KeepR \in Nat
  /\ MaxPanics \in Nat
  /\ NoView \notin Int

VARIABLES
  queue,    \* [Slots -> jobs and NoJob]
  view,     \* the centre last published
  rekeyed,  \* the backlog is keyed to that centre
  running,  \* per worker: the job it took
  dropped,  \* per worker: the jobs its pop descheduled, not yet reported
  asleep,   \* workers waiting on the condition variable
  results,  \* the channel to the main thread
  panics

poolVars == <<queue, view, rekeyed, running, dropped, asleep, results, panics>>

Slots == 1..NearCap
NoJobs == [i \in Slots |-> NoJob]

\* What arrives on the channel: a job's own answer, or a batch of claims.
Answers(J) == [how: {"done", "failed"}, job: J]
Batches(J) == [how: {"cancelled"}, jobs: [Slots -> J \cup {NoJob}]]

PoolTypeOK(J) ==
  /\ queue \in [Slots -> J \cup {NoJob}]
  /\ view \in Int \cup {NoView}
  /\ rekeyed \in BOOLEAN
  /\ running \in [Workers -> J \cup {NoJob}]
  /\ dropped \in [Workers -> [Slots -> J \cup {NoJob}]]
  /\ asleep \subseteq Workers
  /\ results \in Seq(Answers(J) \cup Batches(J))
  /\ panics \in 0..MaxPanics

PoolInit ==
  /\ queue = NoJobs
  /\ view = NoView
  /\ rekeyed = TRUE
  /\ running = [w \in Workers |-> NoJob]
  /\ dropped = [w \in Workers |-> NoJobs]
  /\ asleep = {}
  /\ results = <<>>
  /\ panics = 0

Away(p, q) == IF p < q THEN q - p ELSE p - q
Wanted(j) == view = NoView \/ Away(j.at, view) <= KeepR
SlotsFree == {i \in Slots : queue[i] = NoJob}

-----------------------------------------------------------------------------
(* The main thread's side. *)

\* Mutant: nobody is woken for the new job.
SubmitQuietly(j) ==
  /\ \E i \in SlotsFree :
       /\ \A k \in SlotsFree : i <= k
       /\ queue' = [queue EXCEPT ![i] = j]
  /\ UNCHANGED <<view, rekeyed, running, dropped, asleep, results, panics>>

\* Put a job in the queue and wake one waiting worker.  The caller claims the
\* key only when there was room.
Submit(j) ==
  /\ \E i \in SlotsFree :
       /\ \A k \in SlotsFree : i <= k
       /\ queue' = [queue EXCEPT ![i] = j]
  /\ IF asleep = {} THEN UNCHANGED asleep
     ELSE \E w \in asleep : asleep' = asleep \ {w}
  /\ UNCHANGED <<view, rekeyed, running, dropped, results, panics>>

\* The view of a new pass.  Nobody is woken for it.
Publish(v) ==
  /\ view' = v
  /\ rekeyed' = (rekeyed /\ v = view)
  /\ UNCHANGED <<queue, running, dropped, asleep, results, panics>>

\* Take the next result off the channel.
Receive ==
  /\ results # <<>>
  /\ results' = Tail(results)
  /\ UNCHANGED <<queue, view, rekeyed, running, dropped, asleep, panics>>

-----------------------------------------------------------------------------
(* A worker's loop. *)

Idle(w) == w \notin asleep /\ running[w] = NoJob /\ dropped[w] = NoJobs

\* The slots that survive the sync of this pop, and the ones it deschedules.
Kept == {i \in Slots : queue[i] # NoJob /\ (rekeyed \/ Wanted(queue[i]))}
Shed == {i \in Slots : queue[i] # NoJob} \ Kept

\* Pop under the lock: sync with the view, then the nearest job.
Pop(w) ==
  /\ Idle(w)
  /\ Kept \cup Shed # {}
  /\ \/ /\ Kept = {}
        /\ queue' = NoJobs
        /\ UNCHANGED running
     \/ \E i \in Kept :
          /\ view # NoView =>
               \A k \in Kept : Away(queue[i].at, view) <= Away(queue[k].at, view)
          /\ queue' = [k \in Slots |-> IF k \in Kept \ {i} THEN queue[k] ELSE NoJob]
          /\ running' = [running EXCEPT ![w] = queue[i]]
  /\ dropped' = [dropped EXCEPT ![w] =
                   [k \in Slots |-> IF k \in Shed THEN queue[k] ELSE NoJob]]
  /\ rekeyed' = TRUE
  /\ UNCHANGED <<view, asleep, results, panics>>

\* Nothing to run and nothing to report: wait.
Sleep(w) ==
  /\ Idle(w)
  /\ queue = NoJobs
  /\ asleep' = asleep \cup {w}
  /\ rekeyed' = TRUE
  /\ UNCHANGED <<queue, view, running, dropped, results, panics>>

\* Mutant: the descheduled claims are discarded.
ReportNothing(w) ==
  /\ dropped[w] # NoJobs
  /\ dropped' = [dropped EXCEPT ![w] = NoJobs]
  /\ UNCHANGED <<queue, view, rekeyed, running, asleep, results, panics>>

\* Send the descheduled claims, the lock released.
Report(w) ==
  /\ dropped[w] # NoJobs
  /\ results' = Append(results, [how |-> "cancelled", jobs |-> dropped[w]])
  /\ dropped' = [dropped EXCEPT ![w] = NoJobs]
  /\ UNCHANGED <<queue, view, rekeyed, running, asleep, panics>>

\* The job ran: its answer, or its claim handed back by the panic guard.
Finish(w) ==
  /\ running[w] # NoJob
  /\ dropped[w] = NoJobs
  /\ running' = [running EXCEPT ![w] = NoJob]
  /\ \/ /\ results' = Append(results, [how |-> "done", job |-> running[w]])
        /\ UNCHANGED panics
     \/ /\ panics < MaxPanics
        /\ panics' = panics + 1
        /\ results' = Append(results, [how |-> "failed", job |-> running[w]])
  /\ UNCHANGED <<queue, view, rekeyed, dropped, asleep>>

WorkerStep(w) == Pop(w) \/ Sleep(w) \/ Report(w) \/ Finish(w)

-----------------------------------------------------------------------------
(* What the pool still holds of the jobs it accepted. *)

HeldJobs ==
  ({queue[i] : i \in Slots}
     \cup {running[w] : w \in Workers}
     \cup (UNION {{dropped[w][i] : i \in Slots} : w \in Workers})
     \cup (UNION {IF results[k].how = "cancelled" THEN {results[k].jobs[i] : i \in Slots}
                   ELSE {results[k].job} : k \in DOMAIN results})) \ {NoJob}

\* Accepted work always has a worker awake for it, whatever the order in which
\* the workers slept and were woken one at a time: no notification is lost.
WorkIsSeen == queue # NoJobs => asleep # Workers
=============================================================================
