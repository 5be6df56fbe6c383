------------------------------ MODULE Shutdown ------------------------------
(***************************************************************************)
(* The end of an API or a worker process: main.ts and worker.ts from the   *)
(* first SIGINT or SIGTERM to process.exit.  Every signal starts a         *)
(* shutdown of its own; each of its stages is a race of the work with a    *)
(* timer (runShutdownStage).  The tasks are the requests of the API and    *)
(* the jobs of the worker.                                                 *)
(***************************************************************************)
EXTENDS Integers

CONSTANTS Task,          \* requests or jobs
          Signal,        \* bound: the signals the process may get
          StageTimeout,  \* WORKER_SHUTDOWN_TIMEOUT_MS, in ticks
          MaxCloseFaults  \* bound: close() calls that fail

ASSUME ShutdownAssumption == StageTimeout \in Nat \ {0} /\ MaxCloseFaults \in Nat

VARIABLES
  program,    \* "api" or "worker"
  task,       \* what has become of each request, with its connection, or job
  accepting,  \* whether the server listens, the worker takes jobs
  shutdown,   \* the await each signal's shutdown is in
  timer,      \* ticks to the end of its stage
  refused,    \* shutdowns whose server.close found the server closed already
  open,       \* the connections to Redis
  exit,       \* how the process has ended
  since,      \* ticks since the first signal
  closeFaults

shutdownVars == <<program, task, accepting, shutdown, timer, refused, open, exit, since, closeFaults>>

Connections(p) == IF p = "api" THEN {"events", "queue", "redis"} ELSE {"redis"}
Stages(p) == IF p = "api" THEN 2 ELSE 1
InStage == {"drain", "events", "queue"}

\* However many shutdowns run, the process is gone when the stages of the first one
\* have had their time: the bound of since.
ShutdownTypeOK ==
  /\ program \in {"api", "worker"}
  /\ task \in [Task -> {"none", "running", "abandoned", "kept", "ended"}]
  /\ accepting \in BOOLEAN
  /\ shutdown \in [Signal -> InStage \cup {"none", "done", "failed"}]
  /\ timer \in [Signal -> 0 .. StageTimeout]
  /\ refused \subseteq Signal
  /\ open \subseteq Connections(program)
  /\ exit \in {"no", "0", "1"}
  /\ since \in 0 .. Stages(program) * StageTimeout
  /\ closeFaults \in 0 .. MaxCloseFaults

ShutdownInit ==
  /\ program \in {"api", "worker"}
  /\ task = [t \in Task |-> "none"]
  /\ accepting = TRUE
  /\ shutdown = [s \in Signal |-> "none"]
  /\ timer = [s \in Signal |-> 0]
  /\ refused = {}
  /\ open = Connections(program)
  /\ exit = "no"
  /\ since = 0
  /\ closeFaults = 0

Up == exit = "no"
Working == \E t \in Task : task[t] = "running"
Connected == \E t \in Task : task[t] \in {"running", "kept"}
Signalled == \E s \in Signal : shutdown[s] # "none"
GoesTo(s, label) == shutdown' = [shutdown EXCEPT ![s] = label]

-----------------------------------------------------------------------------
\* A new request or job; or a request on a connection that was kept alive, which
\* the server serves after server.close too.
Accept(t) ==
  /\ Up
  /\ task[t] = "none"
  /\ \/ accepting /\ task' = [task EXCEPT ![t] = "running"]
     \/ \E u \in Task : /\ task[u] = "kept"
                        /\ task' = [task EXCEPT ![t] = "running", ![u] = "ended"]
  /\ UNCHANGED <<program, accepting, shutdown, timer, refused, open, exit, since, closeFaults>>

\* A request that has been answered may leave its connection open.
Finish(t) ==
  /\ Up
  /\ \/ task[t] \in {"running", "abandoned"} /\ task' = [task EXCEPT ![t] = "ended"]
     \/ /\ task[t] = "running" /\ program = "api"
        /\ task' = [task EXCEPT ![t] = "kept"]
  /\ UNCHANGED <<program, accepting, shutdown, timer, refused, open, exit, since, closeFaults>>

\* The client or the keep-alive timeout closes an idle connection.
LetGo(t) ==
  /\ Up
  /\ task[t] = "kept"
  /\ task' = [task EXCEPT ![t] = "ended"]
  /\ UNCHANGED <<program, accepting, shutdown, timer, refused, open, exit, since, closeFaults>>

\* The client of a request goes away: its handler runs on, unknown to the server.
HangUp(t) ==
  /\ Up /\ program = "api"
  /\ task[t] = "running"
  /\ task' = [task EXCEPT ![t] = "abandoned"]
  /\ UNCHANGED <<program, accepting, shutdown, timer, refused, open, exit, since, closeFaults>>

-----------------------------------------------------------------------------
\* A slip: a second signal, impatient, ends the process.
ReceiveImpatient(s) ==
  /\ Up
  /\ shutdown[s] = "none"
  /\ accepting' = FALSE
  /\ GoesTo(s, IF Signalled THEN "failed" ELSE "drain")
  /\ timer' = [timer EXCEPT ![s] = StageTimeout]
  /\ UNCHANGED <<program, task, refused, open, exit, since, closeFaults>>

\* The handler of SIGINT or SIGTERM: server.close, which closes the connections that
\* are idle at the time, or worker.close.  A server that is closed already lets the
\* callback wait for its 'close' like any other, and then hands it an error; the
\* worker gives all its closers the same promise.
Receive(s) ==
  /\ Up
  /\ shutdown[s] = "none"
  /\ accepting' = FALSE
  /\ GoesTo(s, "drain")
  /\ timer' = [timer EXCEPT ![s] = StageTimeout]
  /\ refused' = IF program = "api" /\ ~ accepting THEN refused \cup {s} ELSE refused
  /\ task' = [t \in Task |-> IF task[t] = "kept" THEN "ended" ELSE task[t]]
  /\ UNCHANGED <<program, open, exit, since, closeFaults>>

\* A slip: the next stage does not wait for the requests.
DrainUnawaited(s) ==
  /\ Up
  /\ shutdown[s] = "drain"
  /\ GoesTo(s, "events")
  /\ timer' = [timer EXCEPT ![s] = StageTimeout]
  /\ UNCHANGED <<program, task, accepting, refused, open, exit, since, closeFaults>>

\* The server has no connection left, and its callbacks are called; or the worker
\* has no active job left, and its runtime's close disconnects from Redis.
Drain(s) ==
  /\ Up
  /\ shutdown[s] = "drain"
  /\ ~ Connected
  /\ \/ program = "api" /\ s \in refused /\ GoesTo(s, "failed") /\ UNCHANGED <<timer, open>>
     \/ /\ program = "api" /\ s \notin refused
        /\ GoesTo(s, "events")
        /\ timer' = [timer EXCEPT ![s] = StageTimeout]
        /\ UNCHANGED open
     \/ program = "worker" /\ GoesTo(s, "done") /\ open' = {} /\ UNCHANGED timer
  /\ UNCHANGED <<program, task, accepting, refused, exit, since, closeFaults>>

\* runtime.close of the API: the queue's events, the queue, then Redis, at once.
CloseConnection(s) ==
  /\ Up
  /\ \/ shutdown[s] = "events" /\ GoesTo(s, "queue") /\ open' = open \ {"events"}
     \/ shutdown[s] = "queue" /\ GoesTo(s, "done") /\ open' = open \ {"queue", "redis"}
  /\ UNCHANGED <<program, task, accepting, timer, refused, exit, since, closeFaults>>

\* The close of the worker, of the events or of the queue fails.
CloseFails(s) ==
  /\ Up
  /\ closeFaults < MaxCloseFaults
  /\ closeFaults' = closeFaults + 1
  /\ shutdown[s] \in {"events", "queue"} \/ (shutdown[s] = "drain" /\ program = "worker")
  /\ GoesTo(s, "failed")
  /\ UNCHANGED <<program, task, accepting, timer, refused, open, exit, since>>

\* A slip: a stage that is late is logged, and the next one begun.
StageTimesOutQuietly(s) ==
  /\ Up
  /\ shutdown[s] \in InStage
  /\ timer[s] = 0
  /\ IF shutdown[s] = "drain" /\ program = "api"
     THEN GoesTo(s, "events") /\ timer' = [timer EXCEPT ![s] = StageTimeout] /\ UNCHANGED open
     ELSE GoesTo(s, "done") /\ open' = {} /\ UNCHANGED timer
  /\ UNCHANGED <<program, task, accepting, refused, exit, since, closeFaults>>

\* The race is lost to the timer: the shutdown throws, and no further stage begins.
StageTimesOut(s) ==
  /\ Up
  /\ shutdown[s] \in InStage
  /\ timer[s] = 0
  /\ GoesTo(s, "failed")
  /\ UNCHANGED <<program, task, accepting, timer, refused, open, exit, since, closeFaults>>

Exit(s) ==
  /\ Up
  /\ shutdown[s] \in {"done", "failed"}
  /\ exit' = IF shutdown[s] = "done" THEN "0" ELSE "1"
  /\ UNCHANGED <<program, task, accepting, shutdown, timer, refused, open, since, closeFaults>>

\* A slip: the work of a stage is awaited without the race.
TickUnraced ==
  /\ Up /\ Signalled
  /\ \A s \in Signal : shutdown[s] \notin {"done", "failed"}
  /\ since' = IF since > 2 * StageTimeout THEN since ELSE since + 1
  /\ UNCHANGED <<program, task, accepting, shutdown, timer, refused, open, exit, closeFaults>>

\* Time passes, but not over the end of a stage or between a shutdown and its exit.
ShutdownTick ==
  /\ Up /\ Signalled
  /\ \A s \in Signal : /\ shutdown[s] \in InStage => timer[s] > 0
                       /\ shutdown[s] \notin {"done", "failed"}
  /\ timer' = [s \in Signal |-> IF shutdown[s] \in InStage THEN timer[s] - 1 ELSE timer[s]]
  /\ since' = since + 1
  /\ UNCHANGED <<program, task, accepting, shutdown, refused, open, exit, closeFaults>>

ShutdownNext ==
  \/ \E t \in Task : Accept(t) \/ Finish(t) \/ LetGo(t) \/ HangUp(t)
  \/ \E s \in Signal : \/ Receive(s) \/ Drain(s) \/ CloseConnection(s) \/ CloseFails(s)
                       \/ StageTimesOut(s) \/ Exit(s)
  \/ ShutdownTick

\* The event loop goes on: timers fire, and a shutdown that has ended is seen to end.
\* That tasks end, connections close or a signal comes is not supposed.
ShutdownFairness ==
  /\ WF_shutdownVars(ShutdownTick)
  /\ \A s \in Signal : WF_shutdownVars(StageTimesOut(s)) /\ WF_shutdownVars(Exit(s))

ShutdownSpec == ShutdownInit /\ [][ShutdownNext]_shutdownVars /\ ShutdownFairness

-----------------------------------------------------------------------------
\* "perform bounded graceful shutdown" (README.md:148).  Bounded: whatever hangs, a
\* process that gets a signal ends; ShutdownTypeOK says how soon.
ShutdownEnds == Signalled ~> ~ Up

\* Graceful: exit code 0 says that every client has had its answer, every job has run
\* to its end, and nothing is left open.
ZeroIsGraceful == exit = "0" => ~ Working /\ open = {}

\* Nobody's answer is still to be computed on connections that have been closed, in
\* the middle of a lease for instance.  Of an abandoned request that is not so.
WorkHasItsConnections == Up /\ Working => open = Connections(program)

\* Only a stage that has had all its time, never a second signal, cuts work off.
OnlyTimeoutCutsOff == ~ Up /\ Working /\ closeFaults = 0 => since >= StageTimeout
=============================================================================
