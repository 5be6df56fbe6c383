---------------------------- MODULE MediaRefresh ----------------------------
(***************************************************************************)
(* The background refresh of one record: the lookups that find it stale    *)
(* and enqueue a job (BullMqRefreshQueue, run by the API), the job in the  *)
(* BullMQ queue, and the worker slots that execute it                      *)
(* (MediaRefreshService, run by the worker process).  The job's id is made *)
(* of tenant, kind and mediaId, so a record has at most one job, and a job *)
(* that has ended keeps its id taken until BullMQ removes it.  BullMQ is   *)
(* external: its part is modelled from the options and calls of src/.      *)
(* Every stored record carries the identifier of a provider, so that the   *)
(* job always has one to refresh by.                                       *)
(***************************************************************************)
EXTENDS Freshness

CONSTANTS Requester,     \* lookups that may find the record stale together
          Worker,        \* REFRESH_WORKER_CONCURRENCY slots
          JobAttempts,   \* REFRESH_JOB_ATTEMPTS
          Backoff,       \* REFRESH_JOB_BACKOFF_MS, in ticks
          DedupTtl,      \* REFRESH_DEDUP_TTL_SECONDS, in ticks
          MaxCrashes,    \* bound: workers that die in mid-attempt
          Absent         \* no servable record

ASSUME RefreshAssumption ==
  /\ JobAttempts \in Nat \ {0}
  /\ Backoff \in Nat
  /\ DedupTtl \in Nat \ {0}
  /\ MaxCrashes \in Nat
  /\ Absent \notin Nat

VARIABLES
  record,   \* age of the record under the job's mediaId, or Absent
  job,      \* the job with the record's id: state, attempts failed, clock
  asked,    \* lookups between getJob and add
  at,       \* the await each worker slot is in
  crashes,
  missing   \* what BullMQ's getJob answers when there is no such job

vars == <<record, job, asked, at, crashes, missing>>

Ages == 0 .. ServableFor - 1
Ended == {"completed", "failed"}
Pending == {"waiting", "delayed", "active"}
Job(state, made, clock) == [state |-> state, made |-> made, clock |-> clock]
NoJob == Job("none", 0, 0)

Jobs == [state : Pending \cup Ended, made : 0 .. JobAttempts, clock : Nat]

\* removeOnComplete.age and removeOnFail.age of createRuntime.
RetainedFor(state) == IF state = "completed" THEN DedupTtl ELSE DedupTtl * 10

\* The clock of a delayed job is what is left of its backoff, that of an ended
\* one how long it has been kept.
TypeOK ==
  /\ record \in Ages \cup {Absent}
  /\ job \in {NoJob} \cup Jobs
  /\ job.state \in Ended => job.clock <= RetainedFor(job.state)
  /\ asked \subseteq Requester
  /\ at \in [Worker -> {"idle", "reading", "fetching", "fetchingNew", "writing",
                       "writingOther", "linking"}]
  /\ crashes \in 0 .. MaxCrashes
  /\ missing \in {"null", "undefined"}

Init ==
  /\ record \in Ages \cup {Absent}
  /\ job = NoJob
  /\ asked = {}
  /\ at = [w \in Worker |-> "idle"]
  /\ crashes = 0
  /\ missing \in {"null", "undefined"}

Stale == record # Absent /\ StateAtAge(record) = "stale_but_servable"
Goto(w, label) == at' = [at EXCEPT ![w] = label]

-----------------------------------------------------------------------------
\* enqueueValidatedJob: getJob, and add only if its answer is null.  A lookup
\* asks when it serves the record stale.
Ask(r) ==
  /\ Stale
  /\ r \notin asked
  /\ asked' = IF job = NoJob /\ missing = "null" THEN asked \cup {r} ELSE asked
  /\ UNCHANGED <<record, job, at, crashes, missing>>

\* A slip: the job is added without its jobId, and BullMQ takes it for new.
AddWithoutJobId(r) ==
  /\ r \in asked
  /\ asked' = asked \ {r}
  /\ job' = Job("waiting", 0, 0)
  /\ UNCHANGED <<record, at, crashes, missing>>

\* Queue.add ignores a job whose id exists by then.
Add(r) ==
  /\ r \in asked
  /\ asked' = asked \ {r}
  /\ job' = IF job = NoJob THEN Job("waiting", 0, 0) ELSE job
  /\ UNCHANGED <<record, at, crashes, missing>>

\* The API process dies between the two, or add throws.
AddFails(r) ==
  /\ r \in asked
  /\ asked' = asked \ {r}
  /\ UNCHANGED <<record, job, at, crashes, missing>>

-----------------------------------------------------------------------------
\* A worker slot takes the job; execute begins with its getLookup.
Take(w) ==
  /\ at[w] = "idle"
  /\ job.state = "waiting"
  /\ job' = Job("active", job.made, 0)
  /\ Goto(w, "reading")
  /\ UNCHANGED <<record, asked, crashes, missing>>

\* A slip: the attempts that fail are not counted.
AttemptFailsUncounted(w) ==
  /\ Goto(w, "idle")
  /\ job' = Job("delayed", job.made, Backoff)

\* execute throws: BullMQ retries after the backoff, JobAttempts times in all.
AttemptFails(w) ==
  /\ Goto(w, "idle")
  /\ job' = IF job.made + 1 < JobAttempts
            THEN Job("delayed", job.made + 1, Backoff)
            ELSE Job("failed", job.made + 1, 0)

\* A slip: removeOnComplete is left at true, and the id is free at once.
CompleteAndRemove(w) == Goto(w, "idle") /\ job' = NoJob

Complete(w) ==
  /\ Goto(w, "idle")
  /\ job' = Job("completed", job.made, 0)

\* Any await of execute may throw, which fails the attempt.
ReadCurrent(w) ==
  /\ at[w] = "reading"
  /\ \/ Goto(w, IF record = Absent THEN "fetchingNew" ELSE "fetching") /\ UNCHANGED job
     \/ AttemptFails(w)
  /\ UNCHANGED <<record, asked, crashes, missing>>

\* mergeRefreshedRecord keeps the mediaId of the record it has read.  With none
\* to merge with, the provider's record goes by its own mediaId, which is not
\* the job's if another provider has answered.
ProviderAnswers(w) ==
  /\ at[w] \in {"fetching", "fetchingNew"}
  /\ \/ Goto(w, "writing") /\ UNCHANGED job
     \/ at[w] = "fetchingNew" /\ Goto(w, "writingOther") /\ UNCHANGED job
     \/ Complete(w)   \* null: there is nothing to update
     \/ AttemptFails(w)
  /\ UNCHANGED <<record, asked, crashes, missing>>

\* putSnapshot: SETEX of the record, then its pointers and search document.
WriteRecord(w) ==
  /\ at[w] \in {"writing", "writingOther"}
  /\ \/ /\ Goto(w, "linking") /\ UNCHANGED job
        /\ record' = IF at[w] = "writing" THEN 0 ELSE record
     \/ AttemptFails(w) /\ UNCHANGED record
  /\ UNCHANGED <<asked, crashes, missing>>

WriteRest(w) ==
  /\ at[w] = "linking"
  /\ Complete(w) \/ AttemptFails(w)
  /\ UNCHANGED <<record, asked, crashes, missing>>

\* The worker process dies in mid-attempt.  BullMQ finds the job stalled and
\* gives it to another slot, or fails it if that has happened before.
Crash(w) ==
  /\ at[w] # "idle"
  /\ crashes < MaxCrashes
  /\ crashes' = crashes + 1
  /\ Goto(w, "idle")
  /\ job' \in {Job("waiting", job.made, 0), Job("failed", job.made, 0)}
  /\ UNCHANGED <<record, asked, missing>>

-----------------------------------------------------------------------------
Retry ==
  /\ job.state = "delayed" /\ job.clock = 0
  /\ job' = Job("waiting", job.made, 0)
  /\ UNCHANGED <<record, asked, at, crashes, missing>>

\* A slip: removeOnFail is left unset, and failed jobs are kept for good.
RemoveCompleted ==
  /\ job.state = "completed" /\ job.clock = RetainedFor(job.state)
  /\ job' = NoJob
  /\ UNCHANGED <<record, asked, at, crashes, missing>>

\* BullMQ looks for ended jobs past their age only when another job of the
\* queue ends the same way: this is such an end, and nothing obliges it.
Remove ==
  /\ job.state \in Ended /\ job.clock = RetainedFor(job.state)
  /\ job' = NoJob
  /\ UNCHANGED <<record, asked, at, crashes, missing>>

\* A record past serving is a miss: a lookup fetches the title itself.
LookupPuts ==
  /\ record = Absent
  /\ record' = 0
  /\ UNCHANGED <<job, asked, at, crashes, missing>>

\* Redis answers within a tick; the provider may take any number of them.
Tick ==
  /\ \A w \in Worker : at[w] \in {"idle", "fetching", "fetchingNew"}
  /\ record' = IF record \in Ages /\ record + 1 \in Ages THEN record + 1 ELSE Absent
  /\ job' = CASE job.state = "delayed" /\ job.clock > 0 -> Job(job.state, job.made, job.clock - 1)
              [] job.state \in Ended /\ job.clock < RetainedFor(job.state)
                   -> Job(job.state, job.made, job.clock + 1)
              [] OTHER -> job
  /\ UNCHANGED <<asked, at, crashes, missing>>

Work(w) == ReadCurrent(w) \/ ProviderAnswers(w) \/ WriteRecord(w) \/ WriteRest(w)

Begin == \E w \in Worker : Take(w)
Proceed ==
  \/ \E r \in Requester : Ask(r) \/ Add(r) \/ AddFails(r)
  \/ \E w \in Worker : Work(w) \/ Crash(w)
  \/ Retry \/ Remove \/ LookupPuts

Next == Begin \/ Proceed \/ Tick

\* What has been begun goes on; nobody is obliged to look this title up, or any
\* other whose jobs would remove this one's.
Fairness ==
  /\ \A r \in Requester : WF_vars(Add(r))
  /\ \A w \in Worker : WF_vars(Work(w))
  /\ WF_vars(Begin)
  /\ WF_vars(Retry)
  /\ SF_vars(Tick)

Spec == Init /\ [][Next]_vars /\ Fairness

-----------------------------------------------------------------------------
\* The stable job id keeps a record from being refreshed twice at a time, also
\* when two lookups pass getJob together and when an attempt dies and is
\* given to another slot.
OneAttempt ==
  /\ \A v, w \in Worker : at[v] # "idle" /\ at[w] # "idle" => v = w
  /\ job.state = "active" <=> \E w \in Worker : at[w] # "idle"

\* A job does not hang about: it is completed, or failed once its attempts are
\* used up.
JobSettles == job.state \in Pending ~> job.state \in Ended

\* As long as the record keeps getting stale and lookups that find it so keep
\* asking, and do not fail to add for ever, the worker keeps trying, provided
\* that getJob says null of a job it does not know, and that other jobs end and
\* so remove an aged one.  No failed job, no dead worker and no race for the id
\* stops the refreshes for good: the two provisos are all that can.
RefreshesGoOn ==
  ( /\ missing = "null"
    /\ []<>Stale
    /\ SF_vars(\E r \in Requester : Ask(r))
    /\ SF_vars(\E r \in Requester : Add(r))
    /\ SF_vars(Remove) )
    => []<><<Begin>>_vars
=============================================================================
