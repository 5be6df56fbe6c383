------------------------ MODULE MediaRefresh_proofs ------------------------
(***************************************************************************)
(* One attempt at a time, for any number of lookups, of worker slots, of   *)
(* attempts and of failures; and no more attempts within a period of       *)
(* deduplication than a job has, and workers have died.                    *)
(***************************************************************************)
EXTENDS MCMediaRefresh, TLAPS

\* A job that is not yet failed has an attempt left; an attempt that fails can
\* then count itself without leaving the range.
AttemptLeft == job # NoJob /\ job.state # "failed" => job.made < JobAttempts

JobInv == TypeOK /\ OneAttempt /\ AttemptLeft

\* What the actions make of a job is a job, with the fields they name.
LEMMA JobFields ==
  ASSUME NEW s, NEW m, NEW c
  PROVE  /\ Job(s, m, c).state = s /\ Job(s, m, c).made = m /\ Job(s, m, c).clock = c
         /\ Job(s, m, c) \in Jobs
              <=> s \in Pending \cup Ended /\ m \in 0 .. JobAttempts /\ c \in Nat
BY DEF Job, Jobs

\* What the end of an attempt does to the job and to its slot: the only slot at
\* work comes to rest, and the job is no longer active.
LEMMA AttemptEnds ==
  ASSUME JobInv, NEW w \in Worker, at[w] # "idle",
         Complete(w) \/ AttemptFails(w), record' = record \/ record' = 0,
         asked' = asked, crashes' = crashes, missing' = missing
  PROVE  JobInv'
<1>1. job.state = "active"
  BY DEF JobInv, OneAttempt
<1>2. job \in Jobs /\ job.made \in 0 .. JobAttempts /\ job.made < JobAttempts
  BY <1>1 DEF JobInv, TypeOK, AttemptLeft, NoJob, Jobs, Job
<1>3. record' \in Ages \cup {Absent}
  BY ConfigAssumption, SecondAssumption DEF LoadConfigAccepts, JobInv, TypeOK, Ages, ServableFor
<1>4. /\ job' \in Jobs
      /\ job'.state \in {"completed", "delayed", "failed"}
      /\ job'.state \in Ended => job'.clock = 0
      /\ job'.state # "failed" => job'.made < JobAttempts
  <2>1. CASE Complete(w)
    <3>1. job' = Job("completed", job.made, 0)
      BY <2>1 DEF Complete
    <3>2. QED
      BY <3>1, <1>2, JobFields DEF Ended
  <2>2. CASE AttemptFails(w) /\ job.made + 1 < JobAttempts
    <3>1. job' = Job("delayed", job.made + 1, Backoff)
      BY <2>2 DEF AttemptFails
    <3>2. QED
      BY <3>1, <2>2, <1>2, JobFields, RefreshAssumption DEF Pending, Ended
  <2>3. CASE AttemptFails(w) /\ ~ (job.made + 1 < JobAttempts)
    <3>1. job' = Job("failed", job.made + 1, 0)
      BY <2>3 DEF AttemptFails
    <3>2. QED
      BY <3>1, <1>2, JobFields, RefreshAssumption DEF Ended
  <2>4. QED
    BY <2>1, <2>2, <2>3
<1>5. at' = [at EXCEPT ![w] = "idle"]
  BY DEF Complete, AttemptFails, Goto
<1>6. \A v \in Worker : at'[v] = "idle"
  BY <1>5 DEF JobInv, TypeOK, OneAttempt
<1>7. TypeOK'
  BY <1>3, <1>4, <1>5, RefreshAssumption DEF JobInv, TypeOK, RetainedFor
<1>8. OneAttempt' /\ AttemptLeft'
  BY <1>4, <1>6 DEF OneAttempt, AttemptLeft
<1>9. QED
  BY <1>7, <1>8 DEF JobInv

\* A slot that goes on to its next await stays the only one at work.
LEMMA AttemptGoesOn ==
  ASSUME JobInv, NEW w \in Worker, at[w] # "idle",
         NEW label \in {"reading", "fetching", "fetchingNew", "writing", "writingOther", "linking"},
         Goto(w, label), job' = job, record' = record \/ record' = 0,
         asked' = asked, crashes' = crashes, missing' = missing
  PROVE  JobInv'
<1>1. record' \in Ages \cup {Absent}
  BY ConfigAssumption, SecondAssumption DEF LoadConfigAccepts, JobInv, TypeOK, Ages, ServableFor
<1>2. QED
  BY <1>1 DEF JobInv, TypeOK, OneAttempt, AttemptLeft, Goto

LEMMA WorkStep == ASSUME JobInv, NEW w \in Worker, Work(w) PROVE JobInv'
<1>1. CASE ReadCurrent(w)
  BY <1>1, AttemptEnds, AttemptGoesOn DEF ReadCurrent
<1>2. CASE ProviderAnswers(w)
  BY <1>2, AttemptEnds, AttemptGoesOn DEF ProviderAnswers
<1>3. CASE WriteRecord(w)
  BY <1>3, AttemptEnds, AttemptGoesOn DEF WriteRecord
<1>4. CASE WriteRest(w)
  BY <1>4, AttemptEnds DEF WriteRest
<1>5. QED
  BY <1>1, <1>2, <1>3, <1>4 DEF Work

LEMMA InitJob == Init => JobInv
<1> SUFFICES ASSUME Init PROVE JobInv
  OBVIOUS
<1>1. job.state = "none" /\ job = NoJob
  BY JobFields DEF Init, NoJob
<1>2. crashes \in 0 .. MaxCrashes
  BY RefreshAssumption DEF Init
<1>3. TypeOK
  BY <1>1, <1>2 DEF Init, TypeOK, Ended
<1>4. QED
  BY <1>1, <1>3 DEF Init, JobInv, OneAttempt, AttemptLeft

LEMMA JobStep == ASSUME JobInv, [Next]_vars PROVE JobInv'
<1> USE DEF JobInv, TypeOK, OneAttempt, AttemptLeft
<1>1. ASSUME NEW r \in Requester, Ask(r) PROVE JobInv'
  BY <1>1 DEF Ask
<1>2. ASSUME NEW r \in Requester, Add(r) PROVE JobInv'
  <2>1. CASE job = NoJob
    <3>1. job' = Job("waiting", 0, 0) /\ job.state = "none"
      BY <1>2, <2>1, JobFields DEF Add, NoJob
    <3>2. job' \in Jobs /\ job'.state = "waiting" /\ job'.made = 0
      BY <3>1, JobFields, RefreshAssumption DEF Pending
    <3>3. job'.made < JobAttempts /\ job'.state \notin Ended
      BY <3>2, RefreshAssumption DEF Ended
    <3>4. QED
      BY <1>2, <3>1, <3>2, <3>3 DEF Add
  <2>2. CASE job # NoJob
    BY <1>2, <2>2 DEF Add
  <2>3. QED
    BY <2>1, <2>2
<1>3. ASSUME NEW r \in Requester, AddFails(r) PROVE JobInv'
  BY <1>3, RefreshAssumption DEF AddFails
<1>4. ASSUME NEW w \in Worker, Take(w) PROVE JobInv'
  <2>1. job \in Jobs /\ job # NoJob
    BY <1>4, JobFields DEF Take, NoJob
  <2>2. job' \in Jobs /\ job'.state = "active" /\ job'.made = job.made
    BY <1>4, <2>1, JobFields DEF Take, Jobs, Pending
  <2>3. at' = [at EXCEPT ![w] = "reading"] /\ \A v \in Worker : at[v] = "idle"
    BY <1>4 DEF Take, Goto
  <2>4. QED
    BY <1>4, <2>1, <2>2, <2>3 DEF Take, Ended
<1>5. ASSUME NEW w \in Worker, Work(w) PROVE JobInv'
  BY <1>5, WorkStep
<1>6. ASSUME NEW w \in Worker, Crash(w) PROVE JobInv'
  <2>1. job.state = "active"
    BY <1>6 DEF Crash
  <2>2. job \in Jobs /\ job.made < JobAttempts
    BY <2>1, JobFields DEF NoJob, Jobs
  <2>3. /\ job' \in Jobs /\ job'.made = job.made /\ job'.state \in {"waiting", "failed"}
        /\ job'.state = "failed" => job'.clock = 0
    BY <1>6, <2>2, JobFields DEF Crash, Jobs, Pending, Ended
  <2>4. at' = [at EXCEPT ![w] = "idle"] /\ \A v \in Worker : at'[v] = "idle"
    BY <1>6 DEF Crash, Goto
  <2>5. QED
    BY <1>6, <2>2, <2>3, <2>4, RefreshAssumption DEF Crash, Ended, RetainedFor
<1>7. CASE Retry
  <2>1. job \in Jobs /\ job # NoJob
    BY <1>7, JobFields DEF Retry, NoJob
  <2>2. job' \in Jobs /\ job'.made = job.made /\ job'.state = "waiting"
    BY <1>7, <2>1, JobFields DEF Retry, Jobs, Pending
  <2>3. QED
    BY <1>7, <2>1, <2>2 DEF Retry, Ended
<1>8. CASE Remove
  BY <1>8, JobFields DEF Remove, NoJob, Ended
<1>9. CASE LookupPuts
  BY <1>9, ConfigAssumption, SecondAssumption DEF LoadConfigAccepts, LookupPuts, Ages, ServableFor
<1>10. CASE Tick
  <2>1. record' \in Ages \cup {Absent}
    BY <1>10 DEF Tick
  <2>2. CASE job' = job
    BY <1>10, <2>1, <2>2 DEF Tick
  <2>3. CASE job' # job
    <3>1. PICK c \in Nat : /\ job' = Job(job.state, job.made, c)
                           /\ job.state \in Ended => c <= RetainedFor(job.state)
                           /\ job \in Jobs /\ job # NoJob
      <4>1. job \in Jobs /\ job # NoJob /\ job.clock \in Nat
        BY <1>10, <2>3, JobFields DEF Tick, NoJob, Jobs, Ended
      <4>2. CASE job.state = "delayed" /\ job.clock > 0
        BY <1>10, <4>1, <4>2 DEF Tick, Ended
      <4>3. CASE job.state \in Ended /\ job.clock < RetainedFor(job.state)
        <5>1. RetainedFor(job.state) \in Nat
          BY RefreshAssumption DEF RetainedFor
        <5>2. job' = Job(job.state, job.made, job.clock + 1)
          BY <1>10, <4>1, <4>3 DEF Tick, Ended
        <5>3. job.clock + 1 \in Nat /\ job.clock + 1 <= RetainedFor(job.state)
          BY <4>1, <4>3, <5>1
        <5>4. QED
          BY <4>1, <5>2, <5>3
      <4>4. QED
        BY <1>10, <2>3, <4>2, <4>3 DEF Tick
    <3>2. job' \in Jobs /\ job'.made = job.made /\ job'.state = job.state /\ job'.clock = c
      BY <3>1, JobFields DEF Jobs
    <3>3. QED
      BY <1>10, <2>1, <3>1, <3>2 DEF Tick
  <2>4. QED
    BY <2>2, <2>3
<1>11. CASE UNCHANGED vars
  BY <1>11 DEF vars
<1>12. QED
  BY <1>1, <1>2, <1>3, <1>4, <1>5, <1>6, <1>7, <1>8, <1>9, <1>10, <1>11
     DEF Next, Begin, Proceed

\* Types, and with them the bound on the attempts of a job: none is made after
\* REFRESH_JOB_ATTEMPTS have failed.
THEOREM RefreshTypeCorrect == Spec => []TypeOK
<1>1. JobInv => TypeOK
  BY DEF JobInv
<1>2. QED
  BY InitJob, JobStep, <1>1, PTL DEF Spec

\* A record is never refreshed twice at a time, however many lookups race to
\* enqueue it and however often its worker dies (bullmq-refresh-queue.ts).
THEOREM RefreshedOnceAtATime == Spec => []OneAttempt
<1>1. JobInv => OneAttempt
  BY DEF JobInv
<1>2. QED
  BY InitJob, JobStep, <1>1, PTL DEF Spec

-----------------------------------------------------------------------------
\* The history.  While a job is pending or kept, all attempts of the last DedupTtl ticks
\* are its own: those it has counted as failed, the one under way or completed, and one
\* for each worker that died; and since it ended there has been none.
Offsets == 0 .. DedupTtl - 1
Begun == job.made + crashes + (IF job.state \in {"active", "completed"} THEN 1 ELSE 0)

LatelyInv ==
  /\ lately \in [Offsets -> Nat]
  /\ \A a \in Offsets : lately[a] <= Begun
  /\ job.state = "none" => \A a \in Offsets : lately[a] = 0
  /\ job.state \in Ended => \A a \in Offsets : a < job.clock => lately[a] = 0

HistoryInv == JobInv /\ LatelyInv

LEMMA HistoryIsMore == [HistoryNext]_historyVars => [Next]_vars
BY DEF HistoryNext, Next, historyVars

LEMMA JobType ==
  ASSUME JobInv
  PROVE  /\ job = NoJob <=> job.state = "none"
         /\ job.made \in 0 .. JobAttempts /\ job.clock \in Nat /\ crashes \in Nat
         /\ job.state \in {"none"} \cup Pending \cup Ended
         /\ job.state # "none" /\ job.state # "failed" => job.made < JobAttempts
         /\ Begun \in Nat /\ Begun <= JobAttempts + crashes
<1>1. NoJob.state = "none" /\ NoJob.made = 0 /\ NoJob.clock = 0
  BY JobFields DEF NoJob
<1>2. JobAttempts \in Nat \ {0} /\ MaxCrashes \in Nat
  BY RefreshAssumption
<1>3. job = NoJob <=> job.state = "none"
  BY <1>1 DEF JobInv, TypeOK, Jobs, Pending, Ended
<1>4. job.made \in 0 .. JobAttempts /\ job.clock \in Nat /\ crashes \in Nat
  BY <1>1, <1>2 DEF JobInv, TypeOK, Jobs
<1>5. job.state \in {"none"} \cup Pending \cup Ended
  BY <1>1 DEF JobInv, TypeOK, Jobs
<1>6. job.state # "none" /\ job.state # "failed" => job.made < JobAttempts
  BY <1>3 DEF JobInv, AttemptLeft
<1>7. QED
  BY <1>2, <1>3, <1>4, <1>5, <1>6 DEF Begun

\* What a step that begins no attempt does to the job, as far as attempts are concerned:
\* it makes one where there was none, ends one, drops one that has been kept its time,
\* or only moves it on; and never are there fewer attempts to account for.
LEMMA ProceedCounts ==
  ASSUME JobInv, Proceed
  PROVE  /\ crashes' \in Nat /\ crashes' >= crashes
         /\ \/ job' = job
            \/ job' = NoJob /\ job.state \in Ended /\ job.clock >= DedupTtl
            \/ job'.state \in Pending /\ Begun' >= Begun
            \/ job'.state \in Ended /\ job'.clock = 0 /\ Begun' >= Begun
<1> USE JobType
<1>1. DedupTtl \in Nat
  BY RefreshAssumption
<1>2. CASE \E r \in Requester : Ask(r) \/ Add(r) \/ AddFails(r)
  <2>1. CASE job' = job
    BY <1>2, <2>1 DEF Ask, Add, AddFails
  <2>2. CASE job = NoJob /\ job' = Job("waiting", 0, 0) /\ crashes' = crashes
    BY <2>2, JobFields DEF Pending, Begun, NoJob
  <2>3. QED
    BY <1>2, <2>1, <2>2 DEF Ask, Add, AddFails
<1>3. ASSUME NEW w \in Worker, Work(w) PROVE
        /\ crashes' = crashes
        /\ job' = job \/ (at[w] # "idle" /\ (Complete(w) \/ AttemptFails(w)))
  BY <1>3 DEF Work, ReadCurrent, ProviderAnswers, WriteRecord, WriteRest
<1>4. ASSUME NEW w \in Worker, at[w] # "idle", Complete(w), crashes' = crashes
      PROVE  job'.state \in Ended /\ job'.clock = 0 /\ Begun' >= Begun
  <2>1. job.state = "active"
    BY <1>4 DEF JobInv, OneAttempt
  <2>2. job'.state = "completed" /\ job'.made = job.made /\ job'.clock = 0
    BY <1>4, JobFields DEF Complete
  <2>3. QED
    BY <1>4, <2>1, <2>2 DEF Begun, Ended
<1>5. ASSUME NEW w \in Worker, at[w] # "idle", AttemptFails(w), crashes' = crashes
      PROVE  \/ job'.state \in Pending /\ Begun' >= Begun
             \/ job'.state \in Ended /\ job'.clock = 0 /\ Begun' >= Begun
  <2>1. job.state = "active"
    BY <1>5 DEF JobInv, OneAttempt
  <2>2. /\ job'.made = job.made + 1
        /\ job'.state = "delayed" \/ (job'.state = "failed" /\ job'.clock = 0)
    BY <1>5, JobFields DEF AttemptFails
  <2>3. QED
    BY <1>5, <2>1, <2>2 DEF Begun, Ended, Pending
<1>6. ASSUME NEW w \in Worker, Crash(w)
      PROVE  /\ crashes' = crashes + 1
             /\ \/ job'.state \in Pending /\ Begun' >= Begun
                \/ job'.state \in Ended /\ job'.clock = 0 /\ Begun' >= Begun
  <2>1. job.state = "active"
    BY <1>6 DEF Crash, JobInv, OneAttempt
  <2>2. /\ job'.made = job.made /\ crashes' = crashes + 1
        /\ job'.state = "waiting" \/ (job'.state = "failed" /\ job'.clock = 0)
    BY <1>6, JobFields DEF Crash
  <2>3. QED
    BY <2>1, <2>2 DEF Begun, Ended, Pending
<1>7. CASE Retry
  <2>1. job.state = "delayed" /\ job'.state = "waiting" /\ job'.made = job.made /\ crashes' = crashes
    BY <1>7, JobFields DEF Retry
  <2>2. QED
    BY <2>1 DEF Begun, Pending
<1>8. CASE Remove
  BY <1>1, <1>8 DEF Remove, RetainedFor
<1>9. CASE LookupPuts
  BY <1>9 DEF LookupPuts
<1>10. QED
  BY <1>2, <1>3, <1>4, <1>5, <1>6, <1>7, <1>8, <1>9 DEF Proceed

LEMMA LatelyProceeds ==
  ASSUME HistoryInv, Proceed, lately' = lately
  PROVE  LatelyInv'
<1>1. /\ crashes' \in Nat /\ crashes \in Nat /\ crashes' >= crashes /\ Begun \in Nat
      /\ \/ job' = job
         \/ job' = NoJob /\ job.state \in Ended /\ job.clock >= DedupTtl
         \/ job'.state \in Pending /\ Begun' >= Begun
         \/ job'.state \in Ended /\ job'.clock = 0 /\ Begun' >= Begun
  BY JobType, ProceedCounts DEF HistoryInv
<1>2. \A a \in Offsets : a \in Nat /\ a < DedupTtl /\ lately[a] \in Nat
  BY RefreshAssumption DEF Offsets, HistoryInv, LatelyInv
<1>3. Begun' \in Int
  <2>1. JobInv'
    BY JobStep DEF HistoryInv, Next
  <2>2. job'.made \in Nat
    BY <2>1, JobFields, RefreshAssumption DEF JobInv, TypeOK, Jobs, NoJob
  <2>3. QED
    BY <1>1, <2>2 DEF Begun
<1>4. CASE job' = job
  <2>1. Begun' >= Begun
    BY <1>1, <1>4, JobType DEF Begun, HistoryInv
  <2>2. \A a \in Offsets : lately'[a] <= Begun'
    BY <1>1, <1>2, <1>3, <2>1 DEF HistoryInv, LatelyInv
  <2>3. QED
    BY <1>4, <2>2 DEF HistoryInv, LatelyInv
<1>5. CASE job' = NoJob /\ job.state \in Ended /\ job.clock >= DedupTtl
  <2>1. \A a \in Offsets : lately[a] = 0
    <3>1. \A a \in Offsets : a < job.clock
      BY <1>2, <1>5, JobType, RefreshAssumption DEF HistoryInv
    <3>2. QED
      BY <1>5, <3>1 DEF HistoryInv, LatelyInv
  <2>2. job'.state = "none" /\ Begun' >= 0
    BY <1>1, <1>5, JobFields DEF NoJob, Begun
  <2>3. QED
    BY <2>1, <2>2 DEF HistoryInv, LatelyInv, Ended
<1>6. CASE job'.state \in Pending /\ Begun' >= Begun
  <2>1. \A a \in Offsets : lately'[a] <= Begun'
    BY <1>1, <1>2, <1>3, <1>6 DEF HistoryInv, LatelyInv
  <2>2. QED
    BY <1>6, <2>1 DEF HistoryInv, LatelyInv, Ended, Pending
<1>7. CASE job'.state \in Ended /\ job'.clock = 0 /\ Begun' >= Begun
  <2>1. \A a \in Offsets : lately'[a] <= Begun' /\ ~ (a < job'.clock)
    BY <1>1, <1>2, <1>3, <1>7 DEF HistoryInv, LatelyInv
  <2>2. QED
    BY <1>7, <2>1 DEF HistoryInv, LatelyInv, Ended
<1>8. QED
  BY <1>1, <1>4, <1>5, <1>6, <1>7

\* An attempt that begins is one more to account for, and the job does.
LEMMA LatelyBegins ==
  ASSUME HistoryInv, Begin, lately' = [a \in DOMAIN lately |-> lately[a] + 1]
  PROVE  LatelyInv'
<1>1. /\ job.state = "waiting" /\ job'.state = "active" /\ job'.made = job.made
      /\ crashes' = crashes
  BY JobFields DEF Begin, Take
<1>2. Begun' = Begun + 1 /\ Begun \in Nat
  BY <1>1, JobType DEF Begun, HistoryInv
<1>3. lately' \in [Offsets -> Nat] /\ \A a \in Offsets : lately'[a] <= Begun'
  BY <1>2 DEF HistoryInv, LatelyInv
<1>4. QED
  BY <1>1, <1>3 DEF LatelyInv, Ended

LEMMA LatelyTick ==
  ASSUME HistoryInv, Tick,
         lately' = [a \in DOMAIN lately |-> IF a = 0 THEN 0 ELSE lately[a - 1]]
  PROVE  LatelyInv'
<1>1. /\ lately' = [a \in Offsets |-> IF a = 0 THEN 0 ELSE lately[a - 1]]
      /\ \A a \in Offsets : lately[a] \in Nat
  BY DEF HistoryInv, LatelyInv
<1>2. /\ \A a \in Offsets : a \in Nat
      /\ \A a \in Offsets \ {0} : a - 1 \in Offsets
      /\ 0 \in Offsets
  BY RefreshAssumption DEF Offsets
<1>3. lately'[0] = 0 /\ \A a \in Offsets \ {0} : lately'[a] = lately[a - 1]
  BY <1>1, <1>2
<1>4. lately' \in [Offsets -> Nat]
  BY <1>1, <1>2
<1>5. /\ crashes' = crashes /\ Begun \in Nat /\ job.clock \in Nat
      /\ \/ job' = job
         \/ /\ job.state = "delayed" \/ job.state \in Ended
            /\ job' = Job(job.state, job.made, job.clock - 1) \/ job' = Job(job.state, job.made, job.clock + 1)
  BY JobType DEF Tick, HistoryInv
<1>6. job'.state = job.state /\ job'.made = job.made
  BY <1>5, JobFields
<1>7. Begun' = Begun
  BY <1>5, <1>6 DEF Begun
<1>8. job.state \in Ended => job'.clock = job.clock \/ job'.clock = job.clock + 1
  <2>1. job.state \in Ended => job' = job \/ job' = Job(job.state, job.made, job.clock + 1)
    BY DEF Tick, Ended
  <2>2. QED
    BY <2>1, JobFields
<1>9. \A a \in Offsets : lately'[a] <= Begun'
  BY <1>2, <1>3, <1>5, <1>7 DEF HistoryInv, LatelyInv
<1>10. job'.state = "none" => \A a \in Offsets : lately'[a] = 0
  BY <1>2, <1>3, <1>6 DEF HistoryInv, LatelyInv
<1>11. ASSUME job'.state \in Ended, NEW a \in Offsets, a < job'.clock PROVE lately'[a] = 0
  <2>1. CASE a = 0
    BY <1>3, <2>1
  <2>2. CASE a # 0
    <3>1. a - 1 < job.clock
      BY <1>2, <1>5, <1>6, <1>8, <1>11
    <3>2. QED
      BY <1>2, <1>3, <1>6, <1>11, <2>2, <3>1 DEF HistoryInv, LatelyInv
  <2>3. QED
    BY <2>1, <2>2
<1>12. QED
  BY <1>4, <1>9, <1>10, <1>11 DEF LatelyInv

LEMMA LatelyStep == ASSUME HistoryInv, [HistoryNext]_historyVars PROVE HistoryInv'
<1>1. JobInv'
  BY HistoryIsMore, JobStep DEF HistoryInv
<1>2. CASE HistoryNext
  BY <1>1, <1>2, LatelyProceeds, LatelyBegins, LatelyTick DEF HistoryNext, HistoryInv
<1>3. CASE UNCHANGED historyVars
  BY <1>1, <1>3 DEF historyVars, vars, HistoryInv, LatelyInv, Begun
<1>4. QED
  BY <1>2, <1>3

LEMMA InitLately == HistoryInit => HistoryInv
<1> SUFFICES ASSUME HistoryInit PROVE HistoryInv
  OBVIOUS
<1>1. JobInv /\ job = NoJob /\ lately = [a \in Offsets |-> 0]
  BY InitJob DEF HistoryInit, Init, Offsets
<1>2. job.state = "none" /\ Begun \in Nat
  BY <1>1, JobType
<1>3. QED
  BY <1>1, <1>2 DEF HistoryInv, LatelyInv, Ended

\* However many lookups find the record stale, and however its attempts fail, any DedupTtl
\* ticks in a row see one job's worth of attempts, and one more for each worker that
\* died: the id of an ended job stays taken that long (bullmq-refresh-queue.ts:62-74).
THEOREM RefreshBudgetHolds == HistorySpec => []RefreshBudget
<1>1. HistoryInv => RefreshBudget
  <2> SUFFICES ASSUME HistoryInv PROVE RefreshBudget
    OBVIOUS
  <2>1. Begun \in Nat /\ Begun <= JobAttempts + crashes /\ crashes \in Nat
    BY JobType DEF HistoryInv
  <2>2. DedupTtl - 1 \in Offsets /\ JobAttempts \in Nat
    BY RefreshAssumption DEF Offsets
  <2>3. QED
    BY <2>1, <2>2 DEF HistoryInv, LatelyInv, RefreshBudget
<1>2. QED
  BY <1>1, InitLately, LatelyStep, PTL DEF HistorySpec
=============================================================================
