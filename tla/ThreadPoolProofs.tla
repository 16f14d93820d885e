-------------------------- MODULE ThreadPoolProofs --------------------------
(***************************************************************************)
(* Proofs about ThreadPool, for every number of threads, clients and       *)
(* configurations.                                                         *)
(***************************************************************************)
EXTENDS ThreadPool, FiniteSetTheorems, TLAPS

\* The threads g_activejobs counts.
Running == {t \in threadMap : worker[t] # "done"}

\* No client is in two entries.
OneEntryEach ==
    \A t, u \in Thread :
        t # u /\ sessions[t] # NoSession => sessions[u].client # sessions[t].client

\* An entry that is not on offer belongs to a thread that was not joined.
BusyAreLive ==
    \A t \in Thread :
        worker[t] = "none" => sessions[t] = NoSession \/ sessions[t].status = "Available"

\* From MarkWorking on, the entry of a thread, if it has one, is not on offer.
RunNotOffered == \A t \in Thread : worker[t] = "run" => sessions[t].status # "Available"

\* A client is held between two steps of a test only, under the own id.
HoldsInRun ==
    \A t \in Thread :
        holds[t] # None => worker[t] = "run" /\ sessions[t].client = holds[t]

\* The table has no entry of a configuration that is over.
EntriesCurrent ==
    \A t \in Thread : sessions[t] # NoSession => sessions[t].config = CurrentConfig

\* The table and the threads.
SessionInv ==
    /\ OneEntryEach
    /\ BusyAreLive
    /\ RunNotOffered
    /\ HoldsInRun
    /\ EntriesCurrent

\* What the place of the main thread says of the number of threads: below the
\* limit before a thread is added, unless the program is about to exit.  A
\* thread is added for a file that is left.
MainInv ==
    /\ main \in {"begin", "over"} => threadMap = {}
    /\ main = "check" => Cardinality(threadMap) < Limit[CurrentConfig] \/ exitSignal
    /\ main = "add" => Cardinality(threadMap) < Limit[CurrentConfig] /\ left # 0

CountInv == ActiveCounts /\ ThreadsWithinLimit /\ MainInv

PoolInv == TypeOK /\ SessionInv /\ CountInv /\ SessionsWithinThreadCount

-----------------------------------------------------------------------------
(* The session table. *)

\* An entry is recognised by its client.
LEMMA EntryFacts ==
    ASSUME NEW e \in SessionEntries
    PROVE  /\ e # NoSession => /\ e.client \in Client /\ e.client # None
                               /\ e.status \in Statuses
                               /\ e.config \in Config
           /\ e = NoSession => e.client = None /\ e.status = "NotExist"
BY ThreadPoolAssumption DEF SessionEntries, NoSession

LEMMA WithStatusFacts ==
    ASSUME NEW table \in [Thread -> SessionEntries], NEW t \in Thread,
           NEW status \in Statuses
    PROVE  LET new == WithStatus(table, t, status) IN
           /\ new \in [Thread -> SessionEntries]
           /\ \A u \in Thread : /\ new[u].client = table[u].client
                                /\ new[u].config = table[u].config
                                /\ new[u] = NoSession <=> table[u] = NoSession
                                /\ u # t => new[u] = table[u]
           /\ table[t] # NoSession => new[t].status = status
           /\ table[t] = NoSession => new = table
<1> DEFINE new == WithStatus(table, t, status)
<1>1. CASE table[t] = NoSession
  <2>1. new = table
    BY <1>1 DEF WithStatus
  <2>2. QED BY <1>1, <2>1
<1>2. CASE table[t] # NoSession
  <2>1. new = [table EXCEPT ![t].status = status]
    BY <1>2 DEF WithStatus
  <2>2. table[t] \in [client : Client, status : Statuses, config : Config]
    BY <1>2 DEF SessionEntries
  <2>3. /\ new[t] = [table[t] EXCEPT !.status = status]
        /\ \A u \in Thread : u # t => new[u] = table[u]
    BY <2>1
  <2>4. /\ new[t] \in [client : Client, status : Statuses, config : Config]
        /\ new[t].client = table[t].client
        /\ new[t].config = table[t].config
        /\ new[t].status = status
    BY <2>2, <2>3
  <2>5. new[t] # NoSession
    BY <2>4, ThreadPoolAssumption DEF NoSession
  <2>6. new \in [Thread -> SessionEntries]
    BY <2>1, <2>3, <2>4 DEF SessionEntries
  <2>7. QED BY <1>2, <2>3, <2>4, <2>5, <2>6
<1>3. QED BY <1>1, <1>2

\* What instance() does to the table, however it finds a client: the entry of
\* the thread stays or comes into being, and another thread loses its entry
\* only if it was on offer.
InstanceEffect(t) ==
    /\ sessions' \in [Thread -> SessionEntries]
    /\ sessions'[t] # NoSession
    /\ sessions'[t].config = CurrentConfig
    /\ \/ sessions' = sessions
       \/ sessions[t] = NoSession /\ sessions'[t].status # "Available"
    /\ \A u \in Thread \ {t} :
          \/ sessions'[u] = sessions[u]
          \/ sessions'[u] = NoSession /\ sessions[u].status = "Available"
    /\ \A u, v \in Thread :
          u # v /\ sessions'[u] # NoSession => sessions'[v].client # sessions'[u].client

LEMMA ConfigType ==
    ASSUME TypeOK
    PROVE  CurrentConfig \in Config
<1>1. batch \in 1 .. Len(Batches) /\ Batches \in Seq(Config)
  BY ThreadPoolAssumption DEF TypeOK
<1>2. QED BY <1>1 DEF CurrentConfig

LEMMA InstanceDoes ==
    ASSUME TypeOK, SessionInv, NEW t \in Thread, Instance(t)
    PROVE  InstanceEffect(t)
<1>1. CurrentConfig \in Config
  BY ConfigType
<1>2. sessions \in [Thread -> SessionEntries]
  BY DEF TypeOK
<1>3. CASE OwnSession(t)
  BY <1>2, <1>3 DEF OwnSession, InstanceEffect, SessionInv, OneEntryEach
<1>4. CASE TakeOver(t)
  <2>1. PICK u \in FreeSessions(t) :
            sessions' = [sessions EXCEPT ![t] = [sessions[u] EXCEPT !.status = "Working"],
                                         ![u] = NoSession]
    BY <1>4 DEF TakeOver
  <2>2. /\ u \in Thread /\ u # t
        /\ sessions[u].status = "Available"
        /\ sessions[u].config = CurrentConfig
        /\ sessions[t] = NoSession
    BY <1>4, <2>1 DEF FreeSessions, TakeOver
  <2>3. sessions[u] # NoSession
    BY <2>2 DEF NoSession
  <2>4. sessions[u] \in [client : Client, status : Statuses, config : Config]
    BY <1>2, <2>2, <2>3 DEF SessionEntries
  <2>5. /\ sessions'[t] = [sessions[u] EXCEPT !.status = "Working"]
        /\ sessions'[u] = NoSession
        /\ \A v \in Thread \ {t, u} : sessions'[v] = sessions[v]
    BY <1>2, <2>1, <2>2
  <2>6. /\ sessions'[t] \in [client : Client, status : Statuses, config : Config]
        /\ sessions'[t].client = sessions[u].client
        /\ sessions'[t].config = CurrentConfig
        /\ sessions'[t].status = "Working"
    BY <2>2, <2>4, <2>5 DEF Statuses
  <2>7. sessions' \in [Thread -> SessionEntries]
    BY <1>2, <2>1, <2>5, <2>6 DEF SessionEntries
  <2>8. sessions'[t] # NoSession
    BY <2>6 DEF NoSession
  <2>9. ASSUME NEW v \in Thread, NEW w \in Thread, v # w, sessions'[v] # NoSession
        PROVE  sessions'[w].client # sessions'[v].client
    <3>1. sessions'[v].client # None
      BY <2>7, <2>9, EntryFacts
    <3>2. CASE w = u
      BY <2>5, <3>1, <3>2 DEF NoSession
    <3>3. CASE w # u
      <4>1. v # u
        BY <2>5, <2>9
      <4>2. CASE v = t
        <5>1. sessions'[w] = sessions[w] /\ sessions'[v].client = sessions[u].client
          BY <2>5, <2>6, <2>9, <3>3, <4>2
        <5>2. sessions[w].client # sessions[u].client
          BY <2>2, <2>3, <3>3 DEF SessionInv, OneEntryEach
        <5>3. QED BY <5>1, <5>2
      <4>3. CASE w = t
        BY <2>2, <2>5, <2>6, <2>9, <4>1, <4>3 DEF SessionInv, OneEntryEach
      <4>4. CASE v # t /\ w # t
        BY <2>5, <2>9, <3>3, <4>1, <4>4 DEF SessionInv, OneEntryEach
      <4>5. QED BY <4>2, <4>3, <4>4
    <3>4. QED BY <3>2, <3>3
  <2>10. QED
    BY <2>2, <2>5, <2>6, <2>7, <2>8, <2>9 DEF InstanceEffect
<1>5. CASE NewInstance(t)
  <2>1. PICK c \in Client :
            /\ \A u \in Thread : sessions[u].client # c
            /\ sessions' = [sessions EXCEPT
                   ![t] = [client |-> c, status |-> "NotExist", config |-> CurrentConfig]]
    BY <1>5 DEF NewInstance
  <2>2. sessions[t] = NoSession
    BY <1>5 DEF NewInstance
  <2>3. /\ sessions'[t] = [client |-> c, status |-> "NotExist", config |-> CurrentConfig]
        /\ \A v \in Thread \ {t} : sessions'[v] = sessions[v]
    BY <1>2, <2>1
  <2>4. sessions'[t] \in [client : Client, status : Statuses, config : Config]
    BY <1>1, <2>3 DEF Statuses
  <2>5. sessions' \in [Thread -> SessionEntries]
    BY <1>2, <2>1, <2>4 DEF SessionEntries
  <2>6. sessions'[t] # NoSession
    BY <2>3, ThreadPoolAssumption DEF NoSession
  <2>7. ASSUME NEW v \in Thread, NEW w \in Thread, v # w, sessions'[v] # NoSession
        PROVE  sessions'[w].client # sessions'[v].client
    BY <2>1, <2>3, <2>7 DEF SessionInv, OneEntryEach
  <2>8. QED
    BY <2>2, <2>3, <2>5, <2>6, <2>7 DEF InstanceEffect
<1>6. QED BY <1>3, <1>4, <1>5 DEF Instance

-----------------------------------------------------------------------------
(* The table keeps its invariant. *)

\* Without an exit signal and with one configuration the table outlives the
\* folder; the next folder then runs under the same configuration.
LEMMA OneConfig ==
    ASSUME ~ ClosesClients, NEW c \in Config, NEW d \in Config
    PROVE  c = d
<1>1. IsFiniteSet(Config) /\ Cardinality(Config) \in Nat
  BY ThreadPoolAssumption, FS_CardinalityType
<1>2. Cardinality(Config) <= 1
  BY <1>1 DEF ClosesClients
<1>3. Cardinality(Config) = 1
  <2>1. Cardinality(Config) # 0
    BY <1>1, ThreadPoolAssumption, FS_EmptySet
  <2>2. QED BY <1>1, <1>2, <2>1
<1>4. PICK e : Config = {e}
  BY <1>3, ThreadPoolAssumption, FS_Singleton
<1>5. QED BY <1>4

\* A step that leaves the table alone starts no test and frees no thread.
LEMMA TableKept ==
    ASSUME SessionInv, UNCHANGED <<sessions, batch>>, HoldsInRun',
           \A t \in Thread : /\ worker'[t] = "none" => worker[t] = "none"
                             /\ worker'[t] = "run" => worker[t] = "run"
    PROVE  SessionInv'
BY DEF SessionInv, OneEntryEach, BusyAreLive, RunNotOffered, EntriesCurrent, CurrentConfig

\* A status never changes whose client an entry holds.
LEMMA StatusKeeps ==
    ASSUME TypeOK, SessionInv, NEW t \in Thread, NEW status \in Statuses,
           sessions' = WithStatus(sessions, t, status), UNCHANGED batch,
           \A u \in Thread \ {t} : worker'[u] = worker[u],
           \A u \in Thread : holds'[u] # None => holds'[u] = holds[u] /\ worker'[u] = "run",
           worker'[t] = "none" => status = "Available",
           worker'[t] = "run" => status # "Available"
    PROVE  SessionInv'
<1>1. /\ sessions' \in [Thread -> SessionEntries]
      /\ \A u \in Thread : /\ sessions'[u].client = sessions[u].client
                           /\ sessions'[u].config = sessions[u].config
                           /\ sessions'[u] = NoSession <=> sessions[u] = NoSession
                           /\ u # t => sessions'[u] = sessions[u]
      /\ sessions[t] # NoSession => sessions'[t].status = status
      /\ sessions[t] = NoSession => sessions' = sessions
  <2>1. sessions \in [Thread -> SessionEntries]
    BY DEF TypeOK
  <2>2. QED BY <2>1, WithStatusFacts
<1>2. OneEntryEach'
  BY <1>1 DEF SessionInv, OneEntryEach
<1>3. BusyAreLive'
  BY <1>1 DEF SessionInv, BusyAreLive
<1>4. RunNotOffered'
  <2>1. ASSUME NEW u \in Thread, worker'[u] = "run" PROVE sessions'[u].status # "Available"
    <3>1. CASE u # t
      BY <1>1, <2>1, <3>1 DEF SessionInv, RunNotOffered
    <3>2. CASE u = t /\ sessions[t] # NoSession
      BY <1>1, <2>1, <3>2
    <3>3. CASE u = t /\ sessions[t] = NoSession
      <4>1. sessions'[t] = NoSession
        BY <1>1, <3>3
      <4>2. QED BY <3>3, <4>1 DEF NoSession
    <3>4. QED BY <3>1, <3>2, <3>3
  <2>2. QED BY <2>1 DEF RunNotOffered
<1>5. HoldsInRun'
  <2>1. ASSUME NEW u \in Thread, holds'[u] # None
        PROVE  worker'[u] = "run" /\ sessions'[u].client = holds'[u]
    <3>1. holds'[u] = holds[u] /\ worker'[u] = "run"
      BY <2>1
    <3>2. sessions[u].client = holds[u]
      BY <2>1, <3>1 DEF SessionInv, HoldsInRun
    <3>3. QED BY <1>1, <3>1, <3>2
  <2>2. QED BY <2>1 DEF HoldsInRun
<1>6. EntriesCurrent'
  <2>1. CurrentConfig' = CurrentConfig
    BY DEF CurrentConfig
  <2>2. ASSUME NEW u \in Thread, sessions'[u] # NoSession
        PROVE  sessions'[u].config = CurrentConfig
    <3>1. sessions[u].config = CurrentConfig
      BY <1>1, <2>2 DEF SessionInv, EntriesCurrent
    <3>2. QED BY <1>1, <3>1
  <2>3. QED BY <2>1, <2>2 DEF EntriesCurrent
<1>7. QED BY <1>2, <1>3, <1>4, <1>5, <1>6 DEF SessionInv

\* Nobody loses a client a test holds to instance() of another thread.
LEMMA InstanceKeeps ==
    ASSUME TypeOK, SessionInv, NEW t \in Thread, Instance(t), UNCHANGED batch,
           \A u \in Thread \ {t} : worker'[u] = worker[u] /\ holds'[u] = holds[u],
           worker'[t] # "none",
           worker'[t] = "run" => worker[t] = "run",
           holds'[t] # None => worker'[t] = "run" /\ holds'[t] = sessions'[t].client
    PROVE  SessionInv'
<1>1. InstanceEffect(t)
  BY InstanceDoes
<1>2. OneEntryEach'
  BY <1>1 DEF InstanceEffect, OneEntryEach
<1>3. BusyAreLive'
  BY <1>1 DEF InstanceEffect, SessionInv, BusyAreLive
<1>4. RunNotOffered'
  <2>1. ASSUME NEW u \in Thread, worker'[u] = "run" PROVE sessions'[u].status # "Available"
    <3>1. worker[u] = "run" /\ sessions[u].status # "Available"
      BY <2>1 DEF SessionInv, RunNotOffered
    <3>2. QED BY <1>1, <3>1 DEF InstanceEffect
  <2>2. QED BY <2>1 DEF RunNotOffered
<1>5. HoldsInRun'
  <2>1. ASSUME NEW u \in Thread \ {t}, holds'[u] # None
        PROVE  worker'[u] = "run" /\ sessions'[u].client = holds'[u]
    <3>1. /\ worker[u] = "run" /\ sessions[u].client = holds[u]
          /\ sessions[u].status # "Available"
      BY <2>1 DEF SessionInv, HoldsInRun, RunNotOffered
    <3>2. sessions'[u] = sessions[u]
      BY <1>1, <3>1 DEF InstanceEffect
    <3>3. QED BY <3>1, <3>2
  <2>2. QED BY <2>1 DEF HoldsInRun
<1>6. EntriesCurrent'
  <2>1. CurrentConfig' = CurrentConfig
    BY DEF CurrentConfig
  <2>2. QED BY <1>1, <2>1 DEF InstanceEffect, SessionInv, EntriesCurrent
<1>7. QED BY <1>2, <1>3, <1>4, <1>5, <1>6 DEF SessionInv

\* Closing every client empties the table.
LEMMA TableEmptied ==
    ASSUME sessions' = NoSessions, \A t \in Thread : holds'[t] = None
    PROVE  SessionInv'
<1>1. \A t \in Thread : sessions'[t] = NoSession
  BY DEF NoSessions
<1>2. \A t \in Thread : sessions'[t].status # "Available"
  BY <1>1 DEF NoSession
<1>3. QED
  BY <1>1, <1>2 DEF SessionInv, OneEntryEach, BusyAreLive, RunNotOffered, HoldsInRun,
                    EntriesCurrent

\* With OneConfig and the end of the last folder in hand, every step keeps it.
LEMMA SessionStep ==
    ASSUME TypeOK, SessionInv, MainInv, [Next]_vars
    PROVE  SessionInv'
<1>1. ASSUME NEW t \in Thread, WorkerGoes(t) PROVE SessionInv'
  <2>0. worker \in [Thread -> Stages] /\ holds \in [Thread -> Client \cup {None}]
    BY DEF TypeOK
  <2>h. \A u \in Thread : holds[u] # None => worker[u] = "run"
    BY DEF SessionInv, HoldsInRun
  <2>1. CASE Connect(t)
    <3>1. /\ Instance(t) /\ UNCHANGED <<batch, holds>>
          /\ worker[t] = "connect" /\ worker' = [worker EXCEPT ![t] = "mark"]
      BY <2>1 DEF Connect, Advance, mainVars
    <3>2. holds'[t] = None
      BY <2>h, <3>1
    <3>3. QED BY <2>0, <3>1, <3>2, InstanceKeeps
  <2>2. CASE ConnectFails(t)
    <3>1. /\ Instance(t) \/ UNCHANGED sessions
          /\ UNCHANGED <<batch, holds>>
          /\ worker[t] = "connect" /\ worker' = [worker EXCEPT ![t] = "finish"]
      BY <2>2 DEF ConnectFails, Advance, mainVars
    <3>2. holds'[t] = None
      BY <2>h, <3>1
    <3>3. CASE Instance(t)
      BY <2>0, <3>1, <3>2, <3>3, InstanceKeeps
    <3>4. CASE UNCHANGED sessions
      <4>1. HoldsInRun'
        BY <2>0, <3>1, <3>4 DEF SessionInv, HoldsInRun
      <4>2. QED BY <2>0, <3>1, <3>4, <4>1, TableKept
    <3>5. QED BY <3>1, <3>3, <3>4
  <2>3. CASE MarkWorking(t)
    <3>1. /\ sessions' = WithStatus(sessions, t, "Working")
          /\ UNCHANGED <<batch, holds>>
          /\ worker[t] = "mark" /\ worker' = [worker EXCEPT ![t] = "run"]
      BY <2>3 DEF MarkWorking, Advance, mainVars
    <3>2. QED BY <2>0, <2>h, <3>1, StatusKeeps DEF Statuses
  <2>4. CASE TestEnds(t)
    <3>1. /\ UNCHANGED <<batch, sessions>> /\ holds' = [holds EXCEPT ![t] = None]
          /\ worker[t] = "run" /\ worker' = [worker EXCEPT ![t] = "finish"]
      BY <2>4 DEF TestEnds, Advance, mainVars
    <3>2. HoldsInRun'
      BY <2>0, <3>1 DEF SessionInv, HoldsInRun
    <3>3. QED BY <2>0, <3>1, <3>2, TableKept
  <2>5. CASE Finish(t)
    <3>1. /\ sessions' = WithStatus(sessions, t, "HasFinished")
          /\ UNCHANGED <<batch, holds>>
          /\ worker[t] = "finish" /\ worker' = [worker EXCEPT ![t] = "notify"]
      BY <2>5 DEF Finish, Advance, mainVars
    <3>2. QED BY <2>0, <2>h, <3>1, StatusKeeps DEF Statuses
  <2>6. CASE Notify(t) \/ Leave(t)
    <3>1. UNCHANGED <<batch, sessions, holds>>
      BY <2>6 DEF Notify, Leave, mainVars
    <3>2. \A u \in Thread : \/ worker'[u] = worker[u]
                            \/ worker[u] # "run" /\ worker'[u] \notin {"none", "run"}
      BY <2>0, <2>6 DEF Notify, Leave, Advance
    <3>3. HoldsInRun'
      BY <3>1, <3>2 DEF SessionInv, HoldsInRun
    <3>4. QED BY <3>1, <3>2, <3>3, TableKept
  <2>7. QED BY <1>1, <2>1, <2>2, <2>3, <2>4, <2>5, <2>6 DEF WorkerGoes
<1>2. ASSUME NEW t \in Thread, WorkerMay(t) PROVE SessionInv'
  <2>0. holds \in [Thread -> Client \cup {None}]
    BY DEF TypeOK
  <2>h. \A u \in Thread : holds[u] # None => worker[u] = "run"
    BY DEF SessionInv, HoldsInRun
  <2>1. CASE UseClient(t)
    <3>1. /\ Instance(t) /\ UNCHANGED <<batch, worker>>
          /\ worker[t] = "run" /\ holds' = [holds EXCEPT ![t] = sessions'[t].client]
      BY <2>1 DEF UseClient, mainVars
    <3>2. QED BY <2>0, <3>1, InstanceKeeps
  <2>2. CASE TestThrows(t)
    <3>1. /\ sessions' = WithStatus(sessions, t, "HasFinished")
          /\ UNCHANGED <<batch, worker, holds>>
          /\ worker[t] = "run"
      BY <2>2 DEF TestThrows, mainVars
    <3>2. QED BY <2>h, <3>1, StatusKeeps DEF Statuses
  <2>3. CASE TestFatal(t)
    <3>1. UNCHANGED <<batch, worker, holds, sessions>>
      BY <2>3 DEF TestFatal, mainVars
    <3>2. HoldsInRun'
      BY <3>1 DEF SessionInv, HoldsInRun
    <3>3. QED BY <3>1, <3>2, TableKept
  <2>4. QED BY <1>2, <2>1, <2>2, <2>3 DEF WorkerMay
<1>3. ASSUME BeginBatch PROVE SessionInv'
  <2>1. /\ sessions' \in {sessions, NoSessions} /\ UNCHANGED <<batch, worker, holds>>
        /\ main = "begin"
    BY <1>3 DEF BeginBatch, Goto
  <2>2. \A t \in Thread : holds'[t] = None
    BY <2>1 DEF MainInv, threadMap, SessionInv, HoldsInRun
  <2>3. HoldsInRun'
    BY <2>2 DEF HoldsInRun
  <2>4. QED BY <2>1, <2>2, <2>3, TableKept, TableEmptied
<1>4. ASSUME AddTask PROVE SessionInv'
  <2>1. PICK t \in Thread : worker[t] = "none" /\ worker' = [worker EXCEPT ![t] = "connect"]
    BY <1>4 DEF AddTask, Advance
  <2>2. UNCHANGED <<batch, sessions, holds>>
    BY <1>4 DEF AddTask
  <2>3. worker \in [Thread -> Stages]
    BY DEF TypeOK
  <2>4. HoldsInRun'
    BY <2>1, <2>2, <2>3 DEF SessionInv, HoldsInRun
  <2>5. QED BY <2>1, <2>2, <2>3, <2>4, TableKept
<1>5. ASSUME NEW t \in Thread, JoinThread(t), UNCHANGED <<batch, holds>> PROVE SessionInv'
  <2>1. /\ sessions' = WithStatus(sessions, t, "Available")
        /\ worker[t] = "done" /\ worker' = [worker EXCEPT ![t] = "none"]
        /\ worker \in [Thread -> Stages]
    BY <1>5 DEF JoinThread, Advance, TypeOK
  <2>2. \A u \in Thread : holds[u] # None => worker[u] = "run"
    BY DEF SessionInv, HoldsInRun
  <2>3. QED BY <1>5, <2>1, <2>2, StatusKeeps DEF Statuses
<1>6. ASSUME JoinOne \/ JoinEach PROVE SessionInv'
  BY <1>5, <1>6 DEF JoinOne, JoinEach, Goto, TypeOK, threadMap, mainVars
<1>7. ASSUME AllJoined PROVE SessionInv'
  <2>1. \A t \in Thread : holds'[t] = None
    BY <1>7 DEF AllJoined, threadMap, SessionInv, HoldsInRun
  <2>2. CASE ClosesClients
    BY <1>7, <2>1, <2>2, TableEmptied DEF AllJoined
  <2>3. CASE ~ ClosesClients
    <3>1. UNCHANGED <<sessions, worker, holds>>
      BY <1>7, <2>3 DEF AllJoined
    <3>2. CurrentConfig \in Config /\ CurrentConfig' \in Config
      <4>1. Batches \in Seq(Config) /\ Len(Batches) \in Nat
        BY ThreadPoolAssumption
      <4>2. batch \in 1 .. Len(Batches) /\ batch' \in 1 .. Len(Batches)
        BY <1>7, <4>1 DEF AllJoined, TypeOK
      <4>3. QED BY <4>1, <4>2 DEF CurrentConfig
    <3>3. EntriesCurrent'
      BY <2>3, <3>1, <3>2, OneConfig DEF SessionInv, EntriesCurrent
    <3>4. QED BY <3>1, <3>3 DEF SessionInv, OneEntryEach, BusyAreLive, RunNotOffered, HoldsInRun
  <2>4. QED BY <2>2, <2>3
<1>8. ASSUME \/ CheckExit \/ CountActive \/ Sleep \/ PollFinished \/ PollExit
             \/ SpuriousWakeup \/ Signal \/ UNCHANGED vars
      PROVE  SessionInv'
  <2>1. UNCHANGED <<batch, worker, holds, sessions>>
    BY <1>8 DEF CheckExit, CountActive, Sleep, PollFinished, PollExit, SpuriousWakeup, Signal,
                vars, mainVars
  <2>2. HoldsInRun'
    BY <2>1 DEF SessionInv, HoldsInRun
  <2>3. QED BY <2>1, <2>2, TableKept
<1>9. QED
  BY <1>1, <1>2, <1>3, <1>4, <1>6, <1>7, <1>8 DEF Next, MainGoes, Over
-----------------------------------------------------------------------------
(* The threads and their number. *)

LEMMA ThreadsFinite ==
    /\ IsFiniteSet(threadMap) /\ Cardinality(threadMap) \in Nat
    /\ IsFiniteSet(Running) /\ Cardinality(Running) \in Nat
    /\ IsFiniteSet(Registered) /\ Cardinality(Registered) \in Nat
<1>1. ASSUME NEW S \in SUBSET Thread PROVE IsFiniteSet(S) /\ Cardinality(S) \in Nat
  BY ThreadPoolAssumption, FS_Subset, FS_CardinalityType
<1>2. threadMap \in SUBSET Thread /\ Running \in SUBSET Thread /\ Registered \in SUBSET Thread
  BY DEF threadMap, Running, Registered
<1>3. QED BY <1>1, <1>2

LEMMA LimitType ==
    ASSUME TypeOK
    PROVE  Limit[CurrentConfig] \in Nat \ {0} /\ Limit[CurrentConfig] <= ThreadCount
BY ConfigType, ThreadPoolAssumption

\* A thread between its start and its last step is counted and in threadMap
\* before and after a step of its own.
LEMMA StageStep ==
    ASSUME TypeOK, NEW t \in Thread, NEW to \in Stages \ {"none", "done"},
           worker[t] \notin {"none", "done"},
           worker' = [worker EXCEPT ![t] = to]
    PROVE  threadMap' = threadMap /\ Running' = Running
BY DEF TypeOK, threadMap, Running

\* The type invariant needs the count: g_activejobs is not 0 when a thread
\* leaves.
LEMMA TypeStep ==
    ASSUME TypeOK, SessionInv, CountInv, [Next]_vars
    PROVE  TypeOK'
<1>1. sessions' \in [Thread -> SessionEntries]
  <2>1. sessions \in [Thread -> SessionEntries] /\ NoSessions \in [Thread -> SessionEntries]
    BY DEF TypeOK, NoSessions, SessionEntries
  <2>2. ASSUME NEW t \in Thread, WorkerGoes(t) \/ WorkerMay(t)
        PROVE  sessions' \in [Thread -> SessionEntries]
    <3>1. \/ UNCHANGED sessions
          \/ Instance(t)
          \/ sessions' = WithStatus(sessions, t, "Working")
          \/ sessions' = WithStatus(sessions, t, "HasFinished")
      BY <2>2 DEF WorkerGoes, WorkerMay, Connect, ConnectFails, MarkWorking, TestEnds, Finish,
                  Notify, Leave, UseClient, TestThrows, TestFatal
    <3>2. QED BY <2>1, <3>1, InstanceDoes, WithStatusFacts DEF InstanceEffect, Statuses
  <2>3. ASSUME NEW t \in Thread, JoinThread(t)
        PROVE  sessions' \in [Thread -> SessionEntries]
    BY <2>1, <2>3, WithStatusFacts DEF JoinThread, Statuses
  <2>4. ASSUME MainGoes \/ SpuriousWakeup \/ Signal \/ UNCHANGED vars
        PROVE  sessions' \in [Thread -> SessionEntries]
    <3>1. CASE JoinOne \/ JoinEach
      BY <2>3, <3>1 DEF JoinOne, JoinEach, Goto, TypeOK, threadMap
    <3>2. CASE ~ (JoinOne \/ JoinEach)
      BY <2>1, <2>4, <3>2 DEF MainGoes, SpuriousWakeup, Signal, vars, BeginBatch, CheckExit,
              AddTask, CountActive, Sleep, PollFinished, PollExit, AllJoined
    <3>3. QED BY <3>1, <3>2
  <2>5. QED BY <2>2, <2>4 DEF Next, Over
<1>2. /\ worker' \in [Thread -> Stages]
      /\ exitSignal' \in BOOLEAN
  BY DEF TypeOK, Next, WorkerGoes, WorkerMay, MainGoes, vars, mainVars, Connect, ConnectFails,
         MarkWorking, TestEnds, Finish, Notify, Leave, UseClient, TestThrows, TestFatal, BeginBatch,
         CheckExit, AddTask, CountActive, Sleep, PollFinished, PollExit, JoinOne, JoinEach,
         JoinThread, AllJoined, SpuriousWakeup, Signal, Over, Advance, Goto, Stages
<1>3. holds' \in [Thread -> Client \cup {None}]
  <2>1. holds \in [Thread -> Client \cup {None}]
    BY DEF TypeOK
  <2>2. ASSUME NEW t \in Thread, UseClient(t) PROVE holds' \in [Thread -> Client \cup {None}]
    <3>1. sessions'[t].client \in Client \cup {None}
      BY <1>1, EntryFacts
    <3>2. QED BY <2>1, <2>2, <3>1 DEF UseClient
  <2>3. ASSUME NEW t \in Thread, TestEnds(t) PROVE holds' \in [Thread -> Client \cup {None}]
    BY <2>1, <2>3 DEF TestEnds
  <2>4. QED
    BY <2>1, <2>2, <2>3 DEF Next, WorkerGoes, WorkerMay, MainGoes, vars, mainVars, Connect,
       ConnectFails, MarkWorking, Finish, Notify, Leave, TestThrows, TestFatal, BeginBatch,
       CheckExit, AddTask, CountActive, Sleep, PollFinished, PollExit, JoinOne, JoinEach,
       AllJoined, SpuriousWakeup, Signal, Over
<1>4. active' \in Nat
  <2>1. ASSUME NEW t \in Thread, Leave(t) PROVE active' \in Nat
    <3>1. t \in Running
      BY <2>1 DEF Leave, Advance, Running, threadMap
    <3>2. active # 0
      BY <3>1, ThreadsFinite, FS_EmptySet DEF CountInv, ActiveCounts, Running
    <3>3. QED BY <2>1, <3>2 DEF Leave, TypeOK
  <2>2. active' = active \/ active' = active + 1 \/ \E t \in Thread : Leave(t)
    BY DEF Next, WorkerGoes, WorkerMay, MainGoes, vars, mainVars, Connect,
       ConnectFails, MarkWorking, TestEnds, Finish, Notify, UseClient, TestThrows, TestFatal,
       BeginBatch, CheckExit, AddTask, CountActive, Sleep, PollFinished, PollExit, JoinOne,
       JoinEach, AllJoined, SpuriousWakeup, Signal, Over
  <2>3. QED BY <2>1, <2>2 DEF TypeOK
<1>5. left' \in 0 .. Jobs
  <2>1. Jobs \in Nat /\ left \in 0 .. Jobs
    BY ThreadPoolAssumption DEF TypeOK
  <2>2. AddTask => left # 0
    BY DEF AddTask, CountInv, MainInv
  <2>3. left' = left \/ left' \in 0 .. Jobs \/ AddTask
    BY DEF Next, WorkerGoes, WorkerMay, MainGoes, vars, mainVars, Connect,
       ConnectFails, MarkWorking, TestEnds, Finish, Notify, Leave, UseClient, TestThrows,
       TestFatal, BeginBatch, CheckExit, AddTask, CountActive, Sleep, PollFinished, PollExit,
       JoinOne, JoinEach, AllJoined, SpuriousWakeup, Signal, Over
  <2>4. AddTask => left' = left - 1
    BY DEF AddTask
  <2>5. QED BY <2>1, <2>2, <2>3, <2>4
<1>6. batch' \in 1 .. Len(Batches)
  <2>1. Len(Batches) \in Nat /\ batch \in 1 .. Len(Batches)
    BY ThreadPoolAssumption DEF TypeOK
  <2>2. batch' = batch \/ (batch' = batch + 1 /\ batch # Len(Batches))
    BY DEF Next, WorkerGoes, WorkerMay, MainGoes, vars, mainVars, Connect,
       ConnectFails, MarkWorking, TestEnds, Finish, Notify, Leave, UseClient, TestThrows,
       TestFatal, BeginBatch, CheckExit, AddTask, CountActive, Sleep, PollFinished, PollExit,
       JoinOne, JoinEach, AllJoined, SpuriousWakeup, Signal, Over
  <2>3. QED BY <2>1, <2>2
<1>7. /\ main' \in {"begin", "check", "add", "count", "sleep", "waiting", "poll",
                    "join", "joinAll", "over"}
      /\ joining' \in Thread \cup {None}
      /\ main' = "join" => joining' \in threadMap'
  <2>0. worker \in [Thread -> Stages]
    BY DEF TypeOK
  <2>1. ASSUME NEW t \in Thread, WorkerGoes(t) \/ WorkerMay(t)
        PROVE  /\ joining' = joining
               /\ (main' = main \/ main' = "poll")
               /\ threadMap \subseteq threadMap'
    <3>1. joining' = joining /\ (main' = main \/ main' = "poll")
      BY <2>1 DEF WorkerGoes, WorkerMay, mainVars, Connect, ConnectFails, MarkWorking, TestEnds,
                  Finish, Notify, Leave, UseClient, TestThrows, TestFatal
    <3>2. worker' = worker \/ \E to \in Stages \ {"none"} : worker' = [worker EXCEPT ![t] = to]
      BY <2>1 DEF WorkerGoes, WorkerMay, Connect, ConnectFails, MarkWorking, TestEnds,
                  Finish, Notify, Leave, UseClient, TestThrows, TestFatal, Advance, Stages
    <3>3. QED BY <2>0, <3>1, <3>2 DEF threadMap
  <2>2. CASE \E t \in Thread : WorkerGoes(t) \/ WorkerMay(t)
    BY <2>1, <2>2 DEF TypeOK
  <2>3. CASE AddTask
    BY <2>3 DEF AddTask, TypeOK
  <2>4. CASE PollFinished
    BY <2>4 DEF PollFinished, TypeOK, Goto, threadMap
  <2>5. CASE BeginBatch \/ CheckExit \/ CountActive \/ Sleep \/ PollExit \/ JoinOne \/ JoinEach
             \/ AllJoined \/ SpuriousWakeup
    BY <2>5 DEF BeginBatch, CheckExit, CountActive, Sleep, PollExit, JoinOne, JoinEach,
            AllJoined, SpuriousWakeup, Goto, mainVars, TypeOK
  <2>6. CASE Signal \/ UNCHANGED vars
    BY <2>6 DEF Signal, vars, mainVars, TypeOK, threadMap
  <2>7. QED BY <2>2, <2>3, <2>4, <2>5, <2>6 DEF Next, MainGoes, Over
<1>8. QED
  BY <1>1, <1>2, <1>3, <1>4, <1>5, <1>6, <1>7 DEF TypeOK
\* A thread leaves g_activejobs on its last step and threadMap when joined.
LEMMA CountStep ==
    ASSUME TypeOK, SessionInv, CountInv, [Next]_vars
    PROVE  CountInv'
<1>a. active = Cardinality(Running) /\ Cardinality(threadMap) <= Limit[CurrentConfig]
  BY DEF CountInv, ActiveCounts, Running, ThreadsWithinLimit
<1>b. worker \in [Thread -> Stages] /\ exitSignal \in BOOLEAN
  BY DEF TypeOK
<1>c. ASSUME active' = Cardinality(Running'), MainInv',
             Cardinality(threadMap') <= Limit[CurrentConfig']
      PROVE  CountInv'
  BY <1>c DEF CountInv, ActiveCounts, Running, ThreadsWithinLimit, CurrentConfig
<1>d. batch' = batch => CurrentConfig' = CurrentConfig
  BY DEF CurrentConfig
<1>1. ASSUME threadMap' = threadMap, Running' = Running,
             active' = active, batch' = batch, left' = left,
             exitSignal => exitSignal',
             main' = main \/ main' \notin {"begin", "over", "check", "add"}
      PROVE  CountInv'
  <2>1. MainInv'
    BY <1>1 DEF CountInv, MainInv, CurrentConfig
  <2>2. QED BY <1>a, <1>c, <1>d, <1>1, <2>1
<1>2. ASSUME NEW t \in Thread, WorkerGoes(t) \/ WorkerMay(t) PROVE CountInv'
  <2>1. CASE Leave(t)
    <3>1. threadMap' = threadMap /\ Running' = Running \ {t} /\ t \in Running
      BY <1>b, <2>1 DEF Leave, Advance, threadMap, Running, Stages
    <3>2. Cardinality(Running') = Cardinality(Running) - 1
      BY <3>1, ThreadsFinite, FS_RemoveElement
    <3>3. MainInv'
      BY <2>1, <3>1 DEF Leave, mainVars, CountInv, MainInv, CurrentConfig
    <3>4. active' = active - 1 /\ batch' = batch
      BY <2>1 DEF Leave, mainVars
    <3>5. QED BY <1>a, <1>c, <1>d, <3>1, <3>2, <3>3, <3>4
  <2>2. CASE ~ Leave(t)
    <3>1. /\ UNCHANGED <<active, batch, left>>
          /\ exitSignal' \in {exitSignal, TRUE}
          /\ main' = main \/ main' = "poll"
      BY <1>2, <2>2 DEF WorkerGoes, WorkerMay, mainVars, Connect, ConnectFails, MarkWorking,
                  TestEnds, Finish, Notify, UseClient, TestThrows, TestFatal
    <3>2. \/ worker' = worker
          \/ /\ worker[t] \notin {"none", "done"}
             /\ \E to \in Stages \ {"none", "done"} : worker' = [worker EXCEPT ![t] = to]
      BY <1>2, <2>2 DEF WorkerGoes, WorkerMay, Connect, ConnectFails, MarkWorking, TestEnds,
                  Finish, Notify, UseClient, TestThrows, TestFatal, Advance, Stages
    <3>3. threadMap' = threadMap /\ Running' = Running
      BY <3>2, StageStep DEF threadMap, Running
    <3>4. exitSignal => exitSignal'
      BY <3>1
    <3>5. QED BY <1>1, <3>1, <3>3, <3>4
  <2>3. QED BY <2>1, <2>2
<1>3. ASSUME BeginBatch PROVE CountInv'
  <2>1. threadMap = {} /\ threadMap' = threadMap /\ Running' = Running
    BY <1>3 DEF BeginBatch, Goto, CountInv, MainInv, threadMap, Running
  <2>2. Cardinality(threadMap) = 0
    BY <2>1, FS_EmptySet
  <2>3. main' = "check" /\ active' = active /\ batch' = batch
    BY <1>3 DEF BeginBatch, Goto
  <2>4. Cardinality(threadMap) < Limit[CurrentConfig]
    BY <2>2, LimitType
  <2>5. MainInv'
    BY <2>1, <2>3, <2>4 DEF MainInv, CurrentConfig
  <2>6. QED BY <1>a, <1>c, <1>d, <2>1, <2>3, <2>5
<1>4. ASSUME CheckExit PROVE CountInv'
  <2>1. /\ UNCHANGED <<batch, left, worker, active, exitSignal>>
        /\ main = "check"
        /\ main' = "joinAll" \/ (main' = "add" /\ left # 0 /\ ~ exitSignal)
    BY <1>4 DEF CheckExit, Goto
  <2>2. threadMap' = threadMap /\ Running' = Running
    BY <2>1 DEF threadMap, Running
  <2>3. MainInv'
    BY <2>1, <2>2 DEF CountInv, MainInv, CurrentConfig
  <2>4. QED BY <1>a, <1>c, <1>d, <2>1, <2>2, <2>3
<1>5. ASSUME AddTask PROVE CountInv'
  <2>1. PICK t \in Thread :
            /\ worker[t] = "none" /\ worker' = [worker EXCEPT ![t] = "connect"]
            /\ main' = IF Cardinality(threadMap \cup {t}) = Limit[CurrentConfig]
                       THEN "count" ELSE "check"
    BY <1>5 DEF AddTask, Advance
  <2>2. /\ t \notin threadMap /\ t \notin Running
        /\ threadMap' = threadMap \cup {t}
        /\ Running' = Running \cup {t}
    BY <1>b, <2>1 DEF threadMap, Running
  <2>3. /\ Cardinality(threadMap') = Cardinality(threadMap) + 1
        /\ Cardinality(Running') = Cardinality(Running) + 1
    BY <2>2, ThreadsFinite, FS_AddElement
  <2>4. Cardinality(threadMap) < Limit[CurrentConfig]
    BY <1>5 DEF AddTask, CountInv, MainInv
  <2>5. active' = active + 1 /\ batch' = batch
    BY <1>5 DEF AddTask
  <2>6. Cardinality(threadMap') <= Limit[CurrentConfig]
    BY <2>3, <2>4, ThreadsFinite, LimitType
  <2>7. main' = "count" \/ (main' = "check" /\ Cardinality(threadMap') < Limit[CurrentConfig])
    <3>1. main' = IF Cardinality(threadMap') = Limit[CurrentConfig] THEN "count" ELSE "check"
      BY <2>1, <2>2
    <3>2. Cardinality(threadMap') \in Nat /\ Limit[CurrentConfig] \in Nat
      BY <2>3, ThreadsFinite, LimitType
    <3>3. QED BY <2>6, <3>1, <3>2
  <2>8. MainInv'
    BY <2>5, <2>7 DEF MainInv, CurrentConfig
  <2>9. QED BY <1>a, <1>c, <1>d, <2>3, <2>5, <2>6, <2>8
<1>6. ASSUME NEW t \in Thread, JoinThread(t), UNCHANGED <<active, batch, exitSignal>>,
             main' \in {"check", "joinAll"}
      PROVE  CountInv'
  <2>1. t \in threadMap /\ threadMap' = threadMap \ {t} /\ Running' = Running
    BY <1>b, <1>6 DEF JoinThread, Advance, threadMap, Running
  <2>2. Cardinality(threadMap') = Cardinality(threadMap) - 1
    BY <2>1, ThreadsFinite, FS_RemoveElement
  <2>3. Cardinality(threadMap') < Limit[CurrentConfig]
    BY <1>a, <2>2, ThreadsFinite, LimitType
  <2>4. MainInv'
    BY <1>6, <2>3 DEF MainInv, CurrentConfig
  <2>5. Cardinality(threadMap') <= Limit[CurrentConfig]
    BY <1>a, <2>2, ThreadsFinite, LimitType
  <2>6. QED BY <1>a, <1>c, <1>d, <1>6, <2>1, <2>4, <2>5
<1>7. ASSUME JoinOne \/ JoinEach PROVE CountInv'
  <2>1. PICK t \in Thread : JoinThread(t)
    BY <1>7 DEF JoinOne, JoinEach, Goto, TypeOK, threadMap
  <2>2. UNCHANGED <<active, batch, exitSignal>> /\ main' \in {"check", "joinAll"}
    BY <1>7 DEF JoinOne, JoinEach, Goto, mainVars
  <2>3. QED BY <1>6, <2>1, <2>2
<1>8. ASSUME AllJoined PROVE CountInv'
  <2>1. /\ threadMap = {} /\ threadMap' = threadMap /\ Running' = Running
        /\ active' = active /\ main' \in {"begin", "over"}
    BY <1>8 DEF AllJoined, Goto, threadMap, Running
  <2>2. TypeOK'
    BY TypeStep
  <2>3. Limit[CurrentConfig'] \in Nat
    <3>1. batch' \in 1 .. Len(Batches) /\ Batches \in Seq(Config)
      BY <2>2, ThreadPoolAssumption DEF TypeOK
    <3>2. CurrentConfig' \in Config
      BY <3>1 DEF CurrentConfig
    <3>3. QED BY <3>2, ThreadPoolAssumption
  <2>4. Cardinality(threadMap') <= Limit[CurrentConfig']
    BY <2>1, <2>3, FS_EmptySet
  <2>5. MainInv'
    BY <2>1 DEF MainInv
  <2>6. QED BY <1>a, <1>c, <1>d, <2>1, <2>4, <2>5
<1>9. ASSUME PollExit PROVE CountInv'
  <2>1. exitSignal' /\ main' = "check" /\ UNCHANGED <<batch, worker, active>>
    BY <1>9 DEF PollExit, Goto
  <2>2. threadMap' = threadMap /\ Running' = Running
    BY <2>1 DEF threadMap, Running
  <2>3. MainInv'
    BY <2>1 DEF MainInv
  <2>4. QED BY <1>a, <1>c, <1>d, <2>1, <2>2, <2>3
<1>10. ASSUME \/ CountActive \/ Sleep \/ PollFinished \/ SpuriousWakeup \/ Signal
              \/ UNCHANGED vars
       PROVE  CountInv'
  <2>1. /\ UNCHANGED <<batch, left, worker, active>>
        /\ exitSignal' = exitSignal \/ exitSignal' = TRUE
        /\ main' = main \/ main' \in {"sleep", "waiting", "poll", "join"}
    BY <1>10 DEF CountActive, Sleep, PollFinished, SpuriousWakeup, Signal, Goto, vars, mainVars
  <2>2. threadMap' = threadMap /\ Running' = Running
    BY <2>1 DEF threadMap, Running
  <2>3. QED BY <1>1, <2>1, <2>2
<1>11. QED
  BY <1>2, <1>3, <1>4, <1>5, <1>7, <1>8, <1>9, <1>10 DEF Next, MainGoes, Over
-----------------------------------------------------------------------------
(* The size of the table. *)

\* A new client is made only when none is on offer: then every entry belongs
\* to a thread that runs, and so does the new one.
LEMMA NewInstanceFits ==
    ASSUME TypeOK, SessionInv, CountInv, NEW t \in Thread, NewInstance(t),
           worker[t] # "none"
    PROVE  Cardinality(Registered') <= ThreadCount
<1>1. \A u \in Thread \ {t} : sessions'[u] = sessions[u]
  BY DEF NewInstance, TypeOK
<1>2. Registered' \subseteq threadMap
  <2>1. ASSUME NEW u \in Thread, u # t, sessions[u] # NoSession PROVE worker[u] # "none"
    <3>1. sessions[u].config = CurrentConfig
      BY <2>1 DEF SessionInv, EntriesCurrent
    <3>2. sessions[u].status # "Available"
      BY <2>1, <3>1 DEF NewInstance, FreeSessions
    <3>3. QED BY <2>1, <3>2 DEF SessionInv, BusyAreLive
  <2>2. QED BY <1>1, <2>1 DEF Registered, threadMap
<1>3. Cardinality(Registered') <= Cardinality(threadMap) /\ IsFiniteSet(Registered')
  BY <1>2, ThreadsFinite, FS_Subset
<1>4. Cardinality(Registered') \in Nat
  BY <1>3, FS_CardinalityType
<1>5. Cardinality(threadMap) <= Limit[CurrentConfig]
  BY DEF CountInv, ThreadsWithinLimit
<1>6. QED
  BY <1>3, <1>4, <1>5, ThreadsFinite, LimitType, ThreadPoolAssumption

\* The taker's entry replaces the one of the thread that had the client.
LEMMA TakeOverFits ==
    ASSUME TypeOK, NEW t \in Thread, TakeOver(t)
    PROVE  Cardinality(Registered') = Cardinality(Registered)
<1>1. PICK u \in FreeSessions(t) :
          sessions' = [sessions EXCEPT ![t] = [sessions[u] EXCEPT !.status = "Working"],
                                       ![u] = NoSession]
  BY DEF TakeOver
<1>2. u \in Thread /\ u # t /\ sessions[u].status = "Available" /\ sessions[t] = NoSession
  BY <1>1 DEF FreeSessions, TakeOver
<1>3. sessions[u] # NoSession
  BY <1>2 DEF NoSession
<1>4. /\ sessions'[t] = [sessions[u] EXCEPT !.status = "Working"]
      /\ sessions'[u] = NoSession
      /\ \A v \in Thread \ {t, u} : sessions'[v] = sessions[v]
  BY <1>1, <1>2 DEF TypeOK
<1>5. sessions[u] \in [client : Client, status : Statuses, config : Config]
  BY <1>2, <1>3 DEF TypeOK, SessionEntries
<1>6. sessions'[t].status = "Working"
  BY <1>4, <1>5
<1>7. sessions'[t] # NoSession
  BY <1>6 DEF NoSession
<1>8. /\ u \in Registered /\ t \notin Registered
      /\ Registered' = (Registered \ {u}) \cup {t}
  BY <1>2, <1>3, <1>4, <1>7 DEF Registered
<1>9. /\ IsFiniteSet(Registered \ {u})
      /\ Cardinality(Registered \ {u}) = Cardinality(Registered) - 1
  BY <1>8, ThreadsFinite, FS_RemoveElement
<1>10. Cardinality((Registered \ {u}) \cup {t}) = Cardinality(Registered \ {u}) + 1
  BY <1>8, <1>9, FS_AddElement
<1>11. QED
  BY <1>8, <1>9, <1>10, ThreadsFinite

LEMMA SizeStep ==
    ASSUME TypeOK, SessionInv, CountInv, SessionsWithinThreadCount, [Next]_vars
    PROVE  SessionsWithinThreadCount'
<1>1. ASSUME sessions' = sessions PROVE SessionsWithinThreadCount'
  BY <1>1 DEF SessionsWithinThreadCount, Registered
<1>2. ASSUME sessions' = NoSessions PROVE SessionsWithinThreadCount'
  <2>1. Registered' = {}
    BY <1>2 DEF Registered, NoSessions
  <2>2. Cardinality(Registered') = 0
    BY <2>1, FS_EmptySet
  <2>3. QED BY <2>2, ThreadPoolAssumption DEF SessionsWithinThreadCount
<1>3. ASSUME NEW t \in Thread, NEW status \in Statuses,
             sessions' = WithStatus(sessions, t, status)
      PROVE  SessionsWithinThreadCount'
  <2>1. \A u \in Thread : sessions'[u] = NoSession <=> sessions[u] = NoSession
    BY <1>3, WithStatusFacts DEF TypeOK
  <2>2. Registered' = Registered
    BY <2>1 DEF Registered
  <2>3. QED BY <2>2 DEF SessionsWithinThreadCount
<1>4. ASSUME NEW t \in Thread, Instance(t), worker[t] # "none"
      PROVE  SessionsWithinThreadCount'
  <2>1. CASE OwnSession(t)
    BY <1>1, <2>1 DEF OwnSession
  <2>2. CASE TakeOver(t)
    BY <2>2, TakeOverFits DEF SessionsWithinThreadCount
  <2>3. CASE NewInstance(t)
    BY <1>4, <2>3, NewInstanceFits DEF SessionsWithinThreadCount
  <2>4. QED BY <1>4, <2>1, <2>2, <2>3 DEF Instance
<1>5. ASSUME NEW t \in Thread, WorkerGoes(t) \/ WorkerMay(t)
      PROVE  SessionsWithinThreadCount'
  <2>1. \/ UNCHANGED sessions
        \/ Instance(t) /\ worker[t] # "none"
        \/ sessions' = WithStatus(sessions, t, "Working")
        \/ sessions' = WithStatus(sessions, t, "HasFinished")
    BY <1>5 DEF WorkerGoes, WorkerMay, Connect, ConnectFails, MarkWorking, TestEnds, Finish,
                Notify, Leave, UseClient, TestThrows, TestFatal, Advance
  <2>2. QED BY <1>1, <1>3, <1>4, <2>1 DEF Statuses
<1>6. ASSUME JoinOne \/ JoinEach PROVE SessionsWithinThreadCount'
  <2>1. PICK t \in Thread : sessions' = WithStatus(sessions, t, "Available")
    BY <1>6 DEF JoinOne, JoinEach, JoinThread, Goto, TypeOK, threadMap
  <2>2. QED BY <1>3, <2>1 DEF Statuses
<1>7. ASSUME \/ BeginBatch \/ CheckExit \/ AddTask \/ CountActive \/ Sleep \/ PollFinished
             \/ PollExit \/ AllJoined \/ SpuriousWakeup \/ Signal \/ UNCHANGED vars
      PROVE  SessionsWithinThreadCount'
  <2>1. sessions' = sessions \/ sessions' = NoSessions
    BY <1>7 DEF BeginBatch, CheckExit, AddTask, CountActive, Sleep, PollFinished, PollExit,
                AllJoined, SpuriousWakeup, Signal, vars
  <2>2. QED BY <1>1, <1>2, <2>1
<1>8. QED BY <1>5, <1>6, <1>7 DEF Next, MainGoes, Over

-----------------------------------------------------------------------------
(* The theorems. *)

LEMMA InitPool ==
    ASSUME Init
    PROVE  PoolInv
<1>1. threadMap = {} /\ Running = {} /\ Registered = {}
  BY DEF Init, threadMap, Running, Registered, NoSessions
<1>2. Batches \in Seq(Config) /\ Batches # << >> /\ Len(Batches) \in Nat \ {0}
  BY ThreadPoolAssumption
<1>3. TypeOK
  <2>1. /\ main = "begin" /\ joining = None /\ batch = 1 /\ left = 0 /\ active = 0
        /\ exitSignal = FALSE
    BY DEF Init
  <2>2. batch \in 1 .. Len(Batches) /\ left \in 0 .. Jobs
    BY <1>2, <2>1, ThreadPoolAssumption
  <2>3. worker \in [Thread -> Stages] /\ holds \in [Thread -> Client \cup {None}]
    BY DEF Init, Stages
  <2>4. sessions \in [Thread -> SessionEntries]
    BY DEF Init, NoSessions, SessionEntries
  <2>5. QED BY <2>1, <2>2, <2>3, <2>4 DEF TypeOK
<1>4. Cardinality({}) = 0
  BY FS_EmptySet
<1>5. Limit[CurrentConfig] \in Nat /\ ThreadCount \in Nat
  BY <1>3, LimitType, ThreadPoolAssumption
<1>6. \A t \in Thread : sessions[t] = NoSession /\ worker[t] = "none" /\ holds[t] = None
  BY DEF Init, NoSessions
<1>7. SessionInv
  BY <1>6 DEF SessionInv, OneEntryEach, BusyAreLive, RunNotOffered, HoldsInRun, EntriesCurrent
<1>8. CountInv
  <2>1. main = "begin" /\ active = 0
    BY DEF Init
  <2>2. ActiveCounts
    BY <1>1, <1>4, <2>1 DEF ActiveCounts, Running
  <2>3. ThreadsWithinLimit
    BY <1>1, <1>4, <1>5 DEF ThreadsWithinLimit
  <2>4. MainInv
    BY <1>1, <2>1 DEF MainInv
  <2>5. QED BY <2>2, <2>3, <2>4 DEF CountInv
<1>9. SessionsWithinThreadCount
  BY <1>1, <1>4, <1>5 DEF SessionsWithinThreadCount
<1>10. QED BY <1>3, <1>7, <1>8, <1>9 DEF PoolInv

\* The invariant the others follow from: the session table, the threads and
\* the place of the main thread fit together in every reachable state.
THEOREM PoolInvariant == Spec => []PoolInv
<1>1. Init => PoolInv
  BY InitPool
<1>2. PoolInv /\ [Next]_vars => PoolInv'
  BY TypeStep, SessionStep, CountStep, SizeStep DEF PoolInv, CountInv
<1>3. QED BY <1>1, <1>2, PTL DEF Spec

\* The table, the counters and the places of all threads keep their types; the
\* counter g_activejobs does not go below zero.
THEOREM PoolTypeCorrect == Spec => []TypeOK
<1>1. PoolInv => TypeOK
  BY DEF PoolInv
<1>2. QED BY <1>1, PoolInvariant, PTL

\* A client serves one test at a time, for any number of threads and clients
\* and whatever ids the system uses again (RPCSession::instance).
THEOREM ClientsServeOneTest == Spec => []ClientsExclusive
<1>1. PoolInv => ClientsExclusive
  <2>1. SUFFICES ASSUME PoolInv, NEW t \in Thread, holds[t] # None
                 PROVE  /\ sessions[t].client = holds[t]
                        /\ sessions[t].status # "Available"
                        /\ \A u \in Thread \ {t} : sessions[u].client # holds[t]
    BY DEF ClientsExclusive
  <2>2. worker[t] = "run" /\ sessions[t].client = holds[t]
    BY <2>1 DEF PoolInv, SessionInv, HoldsInRun
  <2>3. sessions[t].status # "Available"
    BY <2>1, <2>2 DEF PoolInv, SessionInv, RunNotOffered
  <2>4. sessions[t] # NoSession
    BY <2>1, <2>2 DEF NoSession
  <2>5. QED BY <2>1, <2>2, <2>3, <2>4 DEF PoolInv, SessionInv, OneEntryEach
<1>2. QED BY <1>1, PoolInvariant, PTL

\* The table does not outgrow the option -j, so the assert of instance()
\* (Session.cpp:293) never fails.
THEOREM TableBounded == Spec => []SessionsWithinThreadCount
<1>1. PoolInv => SessionsWithinThreadCount
  BY DEF PoolInv
<1>2. QED BY <1>1, PoolInvariant, PTL

\* instance() never meets an entry of another configuration (Session.cpp:254).
THEOREM NoStaleConfig == Spec => []SessionsOfCurrentConfig
<1>1. PoolInv => SessionsOfCurrentConfig
  BY DEF PoolInv, SessionInv, EntriesCurrent, SessionsOfCurrentConfig, threadMap
<1>2. QED BY <1>1, PoolInvariant, PTL

\* threadMap stays within getMaxAllowedThreads and g_activejobs counts the
\* threads that have not finished (ThreadManager::addTask, wrappedJob).
THEOREM ThreadsCounted == Spec => [](ThreadsWithinLimit /\ ActiveCounts)
<1>1. PoolInv => ThreadsWithinLimit /\ ActiveCounts
  BY DEF PoolInv, CountInv
<1>2. QED BY <1>1, PoolInvariant, PTL

\* No more threads run than getMaxAllowedThreads allows the configuration,
\* whatever the limits are and however jobs end (ThreadManager::addTask).
THEOREM ThreadsStayWithinLimit == Spec => []ThreadsWithinLimit
BY ThreadsCounted, PTL
=============================================================================
