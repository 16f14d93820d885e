----------------------------- MODULE ThreadPool -----------------------------
(***************************************************************************)
(* ThreadManager, the session table of RPCSession and the exit flag: the   *)
(* main thread starts one thread per test file, each thread takes a client *)
(* from the table, and the main thread waits for threads to end when as    *)
(* many run as the current client configuration allows.                    *)
(*                                                                         *)
(* A step is what the code does under one lock, so the threads interleave  *)
(* between the locks: instance() and the status that sessionStart sets     *)
(* afterwards, the notification and the decrement of g_activejobs, the     *)
(* check of g_activejobs and the wait.                                     *)
(***************************************************************************)
EXTENDS Naturals, Sequences, FiniteSets

CONSTANTS
    Thread,       \* thread ids; the system may reuse one after the join
    Client,       \* client instances
    Config,       \* client configurations
    Limit,        \* Limit[c]: getMaxAllowedThreads under configuration c
    Batches,      \* the configurations in the order the test folders run
    Jobs,         \* bound on the test files of a folder
    ThreadCount,  \* the option -j
    None

ASSUME ThreadPoolAssumption ==
    /\ IsFiniteSet(Thread) /\ IsFiniteSet(Config)
    /\ Limit \in [Config -> Nat \ {0}]
    /\ \A c \in Config : Limit[c] <= ThreadCount
    /\ Batches \in Seq(Config) \ {<< >>}
    /\ Jobs \in Nat
    /\ ThreadCount \in Nat
    /\ None \notin Client \cup Config

VARIABLES
    main,        \* where the main thread is
    joining,     \* the thread joinThreads(false) is joining
    batch,       \* index of the running batch
    left,        \* test files of the batch not yet handed out
    worker,      \* stage of each thread; threadMap holds those not "none"
    holds,       \* the client the job of a thread got from instance()
    sessions,    \* socketMap
    active,      \* g_activejobs
    exitSignal   \* m_receivedExitSig

vars == <<main, joining, batch, left, worker, holds, sessions, active, exitSignal>>

mainVars == <<main, joining, batch, left>>

-----------------------------------------------------------------------------
(* The session table. *)

CurrentConfig == Batches[batch]

\* A thread without an entry: sessionStatus answers NotExist for it.
NoSession == [client |-> None, status |-> "NotExist", config |-> None]

NoSessions == [t \in Thread |-> NoSession]

Registered == {t \in Thread : sessions[t] # NoSession}

threadMap == {t \in Thread : worker[t] # "none"}

\* sessionEnd; a thread without an entry is passed over.
WithStatus(table, t, status) ==
    IF table[t] = NoSession THEN table ELSE [table EXCEPT ![t].status = status]

\* Slip: a client is taken over once its job has marked it finished, before
\* the thread is joined.
FinishedSessions(t) ==
    {u \in Thread \ {t} : /\ sessions[u].status \in {"Available", "HasFinished"}
                          /\ sessions[u].config = CurrentConfig}

\* Entries another thread may take over.
FreeSessions(t) ==
    {u \in Thread \ {t} : /\ sessions[u].status = "Available"
                          /\ sessions[u].config = CurrentConfig}

OwnSession(t) ==
    /\ sessions[t] # NoSession
    /\ sessions[t].config = CurrentConfig
    /\ sessions' = sessions

\* Slip: the entry of the previous thread is not removed.
TakeOverKeepsEntry(t) ==
    /\ sessions[t] = NoSession
    /\ \E u \in FreeSessions(t) :
          sessions' = [sessions EXCEPT ![t] = [sessions[u] EXCEPT !.status = "Working"]]

TakeOver(t) ==
    /\ sessions[t] = NoSession
    /\ \E u \in FreeSessions(t) :
          sessions' = [sessions EXCEPT ![t] = [sessions[u] EXCEPT !.status = "Working"],
                                       ![u] = NoSession]

NewInstance(t) ==
    /\ sessions[t] = NoSession
    /\ FreeSessions(t) = {}
    /\ \E c \in Client :
          /\ \A u \in Thread : sessions[u].client # c
          /\ sessions' = [sessions EXCEPT
                 ![t] = [client |-> c, status |-> "NotExist", config |-> CurrentConfig]]

\* instance(): the entry of the thread, a client without a job, or a new one.
Instance(t) == OwnSession(t) \/ TakeOver(t) \/ NewInstance(t)

-----------------------------------------------------------------------------
(* The threads: executeTest under wrappedJob. *)

Advance(t, from, to) == worker[t] = from /\ worker' = [worker EXCEPT ![t] = to]

\* sessionStart takes the lock twice; the client it gets first is not used.
Connect(t) ==
    /\ Advance(t, "connect", "mark")
    /\ Instance(t)
    /\ UNCHANGED <<mainVars, holds, active, exitSignal>>

\* The job throws out of instance(), before or after the client is in the
\* table.  ETH_FAIL raises SIGABRT first, whose handler sets the exit flag; an
\* exception of the file system does not.
ConnectFails(t) ==
    /\ Advance(t, "connect", "finish")
    /\ Instance(t) \/ UNCHANGED sessions
    /\ exitSignal' \in {exitSignal, TRUE}
    /\ UNCHANGED <<mainVars, holds, active>>

MarkWorking(t) ==
    /\ Advance(t, "mark", "run")
    /\ sessions' = WithStatus(sessions, t, "Working")
    /\ UNCHANGED <<mainVars, holds, active, exitSignal>>

\* A test or filler runner asks for the client of its thread and keeps it.
UseClient(t) ==
    /\ worker[t] = "run"
    /\ Instance(t)
    /\ holds' = [holds EXCEPT ![t] = sessions'[t].client]
    /\ UNCHANGED <<mainVars, worker, active, exitSignal>>

\* An exception of a test ends the session, yet the job may go on to the next
\* generated file.
TestThrows(t) ==
    /\ worker[t] = "run"
    /\ sessions' = WithStatus(sessions, t, "HasFinished")
    /\ UNCHANGED <<mainVars, worker, holds, active, exitSignal>>

\* ETH_FAIL or a fatal ETH_ERROR inside a test.
TestFatal(t) ==
    /\ worker[t] = "run"
    /\ exitSignal' = TRUE
    /\ UNCHANGED <<mainVars, worker, holds, sessions, active>>

TestEnds(t) ==
    /\ Advance(t, "run", "finish")
    /\ holds' = [holds EXCEPT ![t] = None]
    /\ UNCHANGED <<mainVars, sessions, active, exitSignal>>

\* Slip: an exception leaves the job without ending its session.
FinishForgotten(t) ==
    /\ Advance(t, "finish", "notify")
    /\ UNCHANGED <<mainVars, holds, sessions, active, exitSignal>>

\* Slip: the thread is counted off here, and again when it leaves.
FinishCountsOff(t) ==
    /\ Advance(t, "finish", "notify")
    /\ sessions' = WithStatus(sessions, t, "HasFinished")
    /\ active' = active - 1
    /\ UNCHANGED <<mainVars, holds, exitSignal>>

\* The end of _executeTest, or the handler of executeTest.
Finish(t) ==
    /\ Advance(t, "finish", "notify")
    /\ sessions' = WithStatus(sessions, t, "HasFinished")
    /\ UNCHANGED <<mainVars, holds, active, exitSignal>>

\* g_cv.notify_one(): heard only if the main thread already waits.
Notify(t) ==
    /\ Advance(t, "notify", "leave")
    /\ main' = IF main = "waiting" THEN "poll" ELSE main
    /\ UNCHANGED <<joining, batch, left, holds, sessions, active, exitSignal>>

\* Slip: the count is not kept.
LeaveUncounted(t) ==
    /\ Advance(t, "leave", "done")
    /\ UNCHANGED <<mainVars, holds, sessions, active, exitSignal>>

Leave(t) ==
    /\ Advance(t, "leave", "done")
    /\ active' = active - 1
    /\ UNCHANGED <<mainVars, holds, sessions, exitSignal>>

-----------------------------------------------------------------------------
(* The main thread: runFunctionForAllClients, thisPart, addTask and          *)
(* joinThreads.                                                              *)

Goto(from, to) == main = from /\ main' = to

\* A folder has some test files.  When clients run too long or the folder is a
\* time consuming one, restartScripts(true) may stop every client first.
BeginBatch ==
    /\ Goto("begin", "check")
    /\ left' \in 0 .. Jobs
    /\ sessions' \in {sessions, NoSessions}
    /\ UNCHANGED <<joining, batch, worker, holds, active, exitSignal>>

\* The loop over the test files reads the exit flag, then adds a task.
CheckExit ==
    /\ Goto("check", IF left = 0 \/ exitSignal THEN "joinAll" ELSE "add")
    /\ UNCHANGED <<joining, batch, left, worker, holds, sessions, active, exitSignal>>

\* Slip: the loop waits only when the limit is exceeded.
AddTaskLate ==
    /\ main = "add"
    /\ \E t \in Thread :
          /\ Advance(t, "none", "connect")
          /\ main' = IF Cardinality(threadMap \cup {t}) = Limit[CurrentConfig] + 1
                     THEN "count" ELSE "check"
    /\ active' = active + 1
    /\ left' = left - 1
    /\ UNCHANGED <<joining, batch, holds, sessions, exitSignal>>

AddTask ==
    /\ main = "add"
    /\ \E t \in Thread :
          /\ Advance(t, "none", "connect")
          /\ main' = IF Cardinality(threadMap \cup {t}) = Limit[CurrentConfig]
                     THEN "count" ELSE "check"
    /\ active' = active + 1
    /\ left' = left - 1
    /\ UNCHANGED <<joining, batch, holds, sessions, exitSignal>>

\* waitForAtLeastOneJobToFinish reads g_activejobs under its lock ...
CountActive ==
    /\ Goto("count", IF active # 0 THEN "sleep" ELSE "poll")
    /\ UNCHANGED <<joining, batch, left, worker, holds, sessions, active, exitSignal>>

\* ... releases it, and waits on the condition variable without a predicate.
Sleep ==
    /\ Goto("sleep", "waiting")
    /\ UNCHANGED <<joining, batch, left, worker, holds, sessions, active, exitSignal>>

\* A condition variable may wake without a notification.
SpuriousWakeup ==
    /\ Goto("waiting", "poll")
    /\ UNCHANGED <<joining, batch, left, worker, holds, sessions, active, exitSignal>>

\* joinThreads(false) found a thread whose session has finished.
PollFinished ==
    /\ Goto("poll", "join")
    /\ \E t \in threadMap :
          /\ sessions[t].status = "HasFinished"
          /\ joining' = t
    /\ UNCHANGED <<batch, left, worker, holds, sessions, active, exitSignal>>

\* joinThreads(false) gives up on a thread without a session after an exit.
PollExit ==
    /\ Goto("poll", "check")
    /\ exitSignal
    /\ \E t \in threadMap : sessions[t].status = "NotExist"
    /\ UNCHANGED <<joining, batch, left, worker, holds, sessions, active, exitSignal>>

\* The join returns once the thread has ended; its client becomes available.
JoinThread(t) ==
    /\ Advance(t, "done", "none")
    /\ sessions' = WithStatus(sessions, t, "Available")

JoinOne ==
    /\ Goto("join", "check")
    /\ JoinThread(joining)
    /\ joining' = None
    /\ UNCHANGED <<batch, left, holds, active, exitSignal>>

JoinEach ==
    /\ main = "joinAll"
    /\ \E t \in threadMap : JoinThread(t)
    /\ UNCHANGED <<mainVars, holds, active, exitSignal>>

\* Slip: the clients of one configuration are kept for the next.
KeepClients == FALSE

\* doExit after an exit signal, or several configurations: every client is
\* closed.
ClosesClients == exitSignal \/ Cardinality(Config) > 1

AllJoined ==
    /\ threadMap = {}
    /\ Goto("joinAll", IF batch = Len(Batches) THEN "over" ELSE "begin")
    /\ sessions' = IF ClosesClients THEN NoSessions ELSE sessions
    /\ batch' = IF batch = Len(Batches) THEN batch ELSE batch + 1
    /\ UNCHANGED <<joining, left, worker, holds, active, exitSignal>>

\* SIGINT or SIGTERM from outside.
Signal ==
    /\ ~ exitSignal
    /\ exitSignal' = TRUE
    /\ UNCHANGED <<mainVars, worker, holds, sessions, active>>

\* The run has ended.
Over == main = "over" /\ UNCHANGED vars

-----------------------------------------------------------------------------
Init ==
    /\ main = "begin"
    /\ joining = None
    /\ batch = 1
    /\ left = 0
    /\ worker = [t \in Thread |-> "none"]
    /\ holds = [t \in Thread |-> None]
    /\ sessions = NoSessions
    /\ active = 0
    /\ exitSignal = FALSE

\* What a thread does without a choice, and the end of its test.
WorkerGoes(t) ==
    \/ Connect(t) \/ ConnectFails(t)
    \/ MarkWorking(t)
    \/ TestEnds(t)
    \/ Finish(t)
    \/ Notify(t)
    \/ Leave(t)

WorkerMay(t) == UseClient(t) \/ TestThrows(t) \/ TestFatal(t)

MainGoes ==
    \/ BeginBatch \/ CheckExit \/ AddTask \/ CountActive \/ Sleep
    \/ PollFinished \/ PollExit \/ JoinOne \/ JoinEach \/ AllJoined

Next ==
    \/ \E t \in Thread : WorkerGoes(t) \/ WorkerMay(t)
    \/ MainGoes
    \/ SpuriousWakeup
    \/ Signal
    \/ Over

Spec == Init /\ [][Next]_vars

\* The threads are scheduled and every test comes to an end.  Nothing makes a
\* condition variable wake on its own.
Fairness == WF_vars(MainGoes) /\ \A t \in Thread : WF_vars(WorkerGoes(t))

FairSpec == Spec /\ Fairness

-----------------------------------------------------------------------------
(* What must hold. *)

Stages == {"none", "connect", "mark", "run", "finish", "notify", "leave", "done"}

Statuses == {"NotExist", "Available", "Working", "HasFinished"}

SessionEntries ==
    [client : Client, status : Statuses, config : Config] \cup {NoSession}

TypeOK ==
    /\ main \in {"begin", "check", "add", "count", "sleep", "waiting", "poll",
                 "join", "joinAll", "over"}
    /\ joining \in Thread \cup {None}
    /\ main = "join" => joining \in threadMap
    /\ batch \in 1 .. Len(Batches)
    /\ left \in 0 .. Jobs
    /\ worker \in [Thread -> Stages]
    /\ holds \in [Thread -> Client \cup {None}]
    /\ sessions \in [Thread -> SessionEntries]
    /\ active \in Nat
    /\ exitSignal \in BOOLEAN

\* A client serves one test at a time: the client a job works with stays in
\* the table under the job's own thread, is in no other entry, and is not
\* offered to others, whatever the other threads, a test that failed early or
\* a thread id used again do.
ClientsExclusive ==
    \A t \in Thread : holds[t] # None =>
        /\ sessions[t].client = holds[t]
        /\ sessions[t].status # "Available"
        /\ \A u \in Thread \ {t} : sessions[u].client # holds[t]

\* "Retesteth connect to more instances than needed!" (Session.cpp:293) is
\* never reported: the table does not outgrow -j although an entry outlives
\* its thread.
SessionsWithinThreadCount == Cardinality(Registered) <= ThreadCount

\* "A session opened for another client id!" (Session.cpp:254) is never
\* reported: no thread starts with, or meets, a client of another
\* configuration.
SessionsOfCurrentConfig ==
    \A t \in threadMap : sessions[t] # NoSession => sessions[t].config = CurrentConfig

\* addTask tests for the limit with ==; no path leaves more threads behind.
ThreadsWithinLimit == Cardinality(threadMap) <= Limit[CurrentConfig]

\* g_activejobs counts the threads that have not finished, and so is 0 when
\* none is left to wake the main thread.
ActiveCounts == active = Cardinality({t \in threadMap : worker[t] # "done"})

\* The run ends, or the main thread is stuck in one of two ways: it waits for
\* a thread that has already notified, or it polls threads that all ended
\* before they had a client.  There is no other way to hang, with failing
\* tests, an exit signal and reused ids.
EndsUnlessStuck ==
    \/ <>(main = "over")
    \/ <>[](main = "waiting" /\ \A t \in threadMap : worker[t] = "done")
    \/ <>[](main = "poll" /\ \A t \in threadMap :
                               worker[t] = "done" /\ sessions[t] = NoSession)

\* ThreadManager.cpp:68 "Wait for at least one connection to finish it's
\* task": the wait ends once one of them has finished.
WaitEndsAfterJob ==
    (main = "waiting" /\ \E t \in threadMap : worker[t] = "done") ~> main # "waiting"

\* The same comment, of the second half of the wait: once a thread has ended,
\* joinThreads(false) joins one and returns.
PollEndsAfterJob ==
    (main = "poll" /\ \E t \in threadMap : worker[t] = "done") ~> main # "poll"
=============================================================================
