-------------------------- MODULE SchedulerProofs --------------------------
(***************************************************************************)
(* Theorems about the scheduler for every set of requests, every shape of  *)
(* the tree, every number of permits and of attempts; and, at the end, of  *)
(* what it sends to the V1 contract.                                       *)
(***************************************************************************)
EXTENDS Scheduler, TLAPS, FiniteSetTheorems, SequenceTheorems, DataLemmas

-----------------------------------------------------------------------------
(* The tasks of a request are closed under dependency.                     *)

\* The nodes that there are circuits for.
Shapes == [node_type : NodeTypes, round : Nat, depth : INITIAL_DEPTH .. MAX_DEPTH,
           initial_depth : {INITIAL_DEPTH}]

LEMMA ShapesAreNodes == Shapes \subseteq NodeShapes
  BY CircuitAssumption DEF Shapes, NodeShapes, WellFormed

LEMMA ChildHasShape ==
  ASSUME NEW p \in Shapes, p.depth # p.initial_depth
  PROVE  /\ Child(p) \in Shapes
         /\ Child(p).depth = ChildDepth(p)
         /\ Child(p).node_type = "Leaf" <=> Child(p).depth = INITIAL_DEPTH
  <1>1. /\ Child(p) \in NodeShapes /\ Child(p).depth = ChildDepth(p)
        /\ Child(p).initial_depth = p.initial_depth
        /\ Child(p).node_type = "Leaf" <=> Child(p).depth = Child(p).initial_depth
    BY ShapesAreNodes, ChildIsNearer
  <1>2. ChildDepth(p) \in INITIAL_DEPTH .. MAX_DEPTH /\ p.initial_depth = INITIAL_DEPTH
    BY CircuitAssumption DEF Shapes, ChildDepth
  <1>3. QED
    BY <1>1, <1>2 DEF Shapes, NodeShapes

LEMMA FinalShape == FinalParams \in Shapes /\ FinalParams \in NodeShapes
  BY CircuitAssumption, TaskTreeAssumption, ShapesAreNodes
     DEF FinalParams, Params, Shapes, NodeTypes

\* The recursion from a request's top task reaches every dependency.
LEMMA TreesClosed ==
    /\ \A r \in Requests : Admissible(r) => Top(r) \in AllTasks
    /\ \A t \in AllTasks : DependencySet(t) \subseteq AllTasks
  <1>1. ASSUME NEW r \in Requests
        PROVE  /\ Top(r) \in Tree(r)
               /\ \A t \in Tree(r) : DependencySet(t) \subseteq Tree(r)
    <2>1. Top(r).params = FinalParams
      BY DEF Top, Task
    <2>2. QED
      BY <2>1, FinalShape, TreeClosed DEF Tree
  <1>2. QED
    BY <1>1 DEF AllTasks

-----------------------------------------------------------------------------
Proving == {t \in AllTasks : at[t] = "proving"}

\* Every request starts with all its attempts and sends only while some are left.
AttemptsLeft ==
    \A r \in Requests :
        /\ phase[r] \in {"new", "running"} => attempts[r] = 0
        /\ phase[r] = "sending" => attempts[r] < retry_send_threshold

\* The permits are counted by a set that no step makes infinite.
PermitsCounted ==
    /\ IsFiniteSet(Proving)
    /\ permits + Cardinality(Proving) = DISPATCHER_CONCURRENCY

\* Accepting a request finds none of its tasks under way.
NotStarted ==
    \A t \in AllTasks, r \in Requests :
        t.request = r /\ phase[r] = "new" => at[t] = "absent"

IInv == TypeOK /\ AttemptsLeft /\ HolderIsSender /\ NotStarted /\ PermitsCounted

LEMMA Initially == Init => IInv
  <1> SUFFICES ASSUME Init PROVE IInv
    OBVIOUS
  <1> USE SchedulerAssumption DEF Init
  <1>1. TypeOK
    <2>1. recorded \in [Requests -> Seq(AllTasks)]
      <3>1. <<>> \in Seq(AllTasks)
        OBVIOUS
      <3>2. QED
        BY <3>1
    <2>2. permits \in 0 .. DISPATCHER_CONCURRENCY
      OBVIOUS
    <2>3. attempts \in [Requests -> 0 .. retry_send_threshold]
      OBVIOUS
    <2>4. QED
      BY <2>1, <2>2, <2>3 DEF TypeOK
  <1>2. AttemptsLeft
    BY DEF AttemptsLeft
  <1>3. HolderIsSender
    BY DEF HolderIsSender
  <1>4. PermitsCounted
    <2>1. Proving = {}
      BY DEF Proving
    <2>2. IsFiniteSet({}) /\ Cardinality({}) = 0
      BY FS_EmptySet
    <2>3. QED
      BY <2>1, <2>2 DEF PermitsCounted
  <1>5. NotStarted
    BY DEF NotStarted
  <1>6. QED
    BY <1>1, <1>2, <1>3, <1>4, <1>5 DEF IInv

LEMMA Counts ==
  ASSUME TypeOK, PermitsCounted
  PROVE  Cardinality(Proving) \in Nat /\ permits \in Nat
  <1>1. Cardinality(Proving) \in Nat
    BY FS_CardinalityType DEF PermitsCounted
  <1>2. permits \in 0 .. DISPATCHER_CONCURRENCY /\ DISPATCHER_CONCURRENCY \in Nat
    BY SchedulerAssumption DEF TypeOK
  <1>3. QED
    BY <1>1, <1>2

\* What a step may do to the permits and to the futures that hold them.
PermitsKept == PermitsCounted' /\ permits' \in 0 .. DISPATCHER_CONCURRENCY

LEMMA SamePermits ==
  ASSUME TypeOK, PermitsCounted, permits' = permits, Proving' = Proving
  PROVE  PermitsKept
  BY DEF PermitsCounted, PermitsKept, TypeOK

LEMMA NeitherProves ==
  ASSUME TypeOK, PermitsCounted, NEW t \in AllTasks, NEW w,
         at[t] # "proving", w # "proving",
         at' = [at EXCEPT ![t] = w], permits' = permits
  PROVE  PermitsKept
  <1>1. Proving' = Proving
    BY DEF Proving, TypeOK
  <1>2. QED
    BY <1>1, SamePermits

LEMMA StartsProving ==
  ASSUME TypeOK, PermitsCounted, NEW t \in AllTasks, at[t] # "proving",
         permits > 0,
         at' = [at EXCEPT ![t] = "proving"], permits' = permits - 1
  PROVE  PermitsKept
  <1>1. Proving' = Proving \cup {t} /\ t \notin Proving
    BY DEF Proving, TypeOK
  <1>2. /\ IsFiniteSet(Proving \cup {t})
        /\ Cardinality(Proving \cup {t}) = Cardinality(Proving) + 1
    BY <1>1, FS_AddElement DEF PermitsCounted
  <1>3. permits - 1 + Cardinality(Proving) + 1 = DISPATCHER_CONCURRENCY
    BY Counts DEF PermitsCounted
  <1>4. PermitsCounted'
    BY <1>1, <1>2, <1>3, Counts DEF PermitsCounted
  <1>5. permits' \in 0 .. DISPATCHER_CONCURRENCY
    BY <1>3, Counts
  <1>6. QED
    BY <1>4, <1>5 DEF PermitsKept

LEMMA StopsProving ==
  ASSUME TypeOK, PermitsCounted, NEW t \in AllTasks, NEW w, w # "proving",
         at[t] = "proving", at' = [at EXCEPT ![t] = w], permits' = permits + 1
  PROVE  PermitsKept
  <1>1. Proving' = Proving \ {t} /\ t \in Proving
    BY DEF Proving, TypeOK
  <1>2. /\ IsFiniteSet(Proving \ {t})
        /\ Cardinality(Proving \ {t}) = Cardinality(Proving) - 1
    BY <1>1, FS_RemoveElement DEF PermitsCounted
  <1>3. Cardinality(Proving \ {t}) \in Nat
    BY <1>2, FS_CardinalityType
  <1>4. /\ permits + 1 + (Cardinality(Proving) - 1) = DISPATCHER_CONCURRENCY
        /\ Cardinality(Proving) - 1 \in Nat
    BY <1>2, <1>3, Counts DEF PermitsCounted
  <1>5. PermitsCounted'
    BY <1>1, <1>2, <1>4, Counts DEF PermitsCounted
  <1>6. permits' \in 0 .. DISPATCHER_CONCURRENCY
    BY <1>4, Counts
  <1>7. QED
    BY <1>5, <1>6 DEF PermitsKept

-----------------------------------------------------------------------------
(* Steps of a task leave the server alone.                                 *)

Places == {"absent", "waiting", "proving", "fetching", "recording", "done", "failed"}

LEMMA ServerLeftAlone ==
  ASSUME IInv, UNCHANGED server, PermitsKept,
         \/ at' = at
         \/ \E t \in AllTasks, w \in Places :
               at[t] # "absent" /\ at' = [at EXCEPT ![t] = w],
         at' \in [AllTasks -> Places],
         job' \in [AllTasks -> {"none", "RUNNING", "DONE", "FAILED"}],
         recorded' \in [Requests -> Seq(AllTasks)]
  PROVE  IInv'
  <1>1. TypeOK'
    BY DEF IInv, TypeOK, PermitsKept, server, Places
  <1>2. AttemptsLeft'
    BY DEF IInv, AttemptsLeft, server
  <1>3. HolderIsSender'
    BY DEF IInv, HolderIsSender, server
  <1>4. NotStarted'
    <2>1. \A u \in AllTasks : at[u] = "absent" => at'[u] = "absent"
      BY DEF IInv, TypeOK
    <2>2. QED
      BY <2>1 DEF IInv, NotStarted, server
  <1>5. QED
    BY <1>1, <1>2, <1>3, <1>4 DEF IInv, PermitsKept

LEMMA SubmitKeeps ==
  ASSUME IInv, NEW t \in AllTasks, Submit(t)
  PROVE  IInv'
  <1> USE DEF IInv
  <1>1. /\ at[t] = "waiting" /\ permits > 0
        /\ UNCHANGED server /\ UNCHANGED recorded
    BY DEF Submit, Ready
  <1>2. CASE /\ at' = [at EXCEPT ![t] = "proving"]
             /\ job' = [job EXCEPT ![t] = "RUNNING"]
             /\ permits' = permits - 1
    <2>1. PermitsKept
      BY <1>1, <1>2, StartsProving
    <2>2. QED
      BY <1>1, <1>2, <2>1, ServerLeftAlone DEF TypeOK, Places
  <1>3. CASE /\ at' = [at EXCEPT ![t] = "failed"]
             /\ job' \in {job, [job EXCEPT ![t] = "RUNNING"]}
             /\ UNCHANGED permits
    <2>1. PermitsKept
      BY <1>1, <1>3, NeitherProves
    <2>2. QED
      BY <1>1, <1>3, <2>1, ServerLeftAlone DEF TypeOK, Places
  <1>4. QED
    BY <1>2, <1>3 DEF Submit

LEMMA PollKeeps ==
  ASSUME IInv, NEW t \in AllTasks, Poll(t)
  PROVE  IInv'
  <1> USE DEF IInv
  <1>1. PICK w \in {"fetching", "failed"} : at' = [at EXCEPT ![t] = w]
    BY DEF Poll
  <1>2. /\ at[t] = "proving" /\ permits' = permits + 1
        /\ UNCHANGED <<server, job, recorded>>
    BY DEF Poll
  <1>3. PermitsKept
    BY <1>1, <1>2, StopsProving
  <1>4. QED
    BY <1>1, <1>2, <1>3, ServerLeftAlone DEF TypeOK, Places

\* The steps of a future that holds no permit.
LEMMA QuietStepKeeps ==
  ASSUME IInv, NEW t \in AllTasks, FailWithDependency(t) \/ Fetch(t) \/ Record(t)
  PROVE  IInv'
  <1> USE DEF IInv
  <1>1. PICK w \in Places \ {"proving"} : at' = [at EXCEPT ![t] = w]
    BY DEF FailWithDependency, Fetch, Record, Places
  <1>2. /\ at[t] # "proving" /\ at[t] # "absent" /\ permits' = permits
        /\ UNCHANGED <<server, job>>
    BY DEF FailWithDependency, Fetch, Record
  <1>3. recorded' \in [Requests -> Seq(AllTasks)]
    <2>1. ASSUME NEW r \in Requests
          PROVE  Append(recorded[r], t) \in Seq(AllTasks)
      <3>1. recorded[r] \in Seq(AllTasks)
        BY DEF TypeOK
      <3>2. QED
        BY <3>1, AppendProperties
    <2>2. CASE Record(t)
      BY <2>1, <2>2 DEF TypeOK, Record
    <2>3. CASE UNCHANGED recorded
      BY <2>3 DEF TypeOK
    <2>4. QED
      BY <2>2, <2>3 DEF FailWithDependency, Fetch
  <1>4. PermitsKept
    BY <1>1, <1>2, NeitherProves
  <1>5. /\ at' \in [AllTasks -> Places]
        /\ job' \in [AllTasks -> {"none", "RUNNING", "DONE", "FAILED"}]
    BY <1>1, <1>2 DEF TypeOK, Places
  <1>6. QED
    BY <1>1, <1>2, <1>3, <1>4, <1>5, ServerLeftAlone

LEMMA FinishJobKeeps ==
  ASSUME IInv, NEW t \in AllTasks, FinishJob(t)
  PROVE  IInv'
  <1> USE DEF IInv
  <1>1. /\ UNCHANGED <<server, at, permits, recorded>>
        /\ job' \in [AllTasks -> {"none", "RUNNING", "DONE", "FAILED"}]
    BY DEF FinishJob, TypeOK
  <1>2. Proving' = Proving
    BY <1>1 DEF Proving
  <1>3. PermitsKept
    BY <1>1, <1>2, SamePermits
  <1>4. QED
    BY <1>1, <1>3, ServerLeftAlone DEF TypeOK, Places

-----------------------------------------------------------------------------
(* Steps of a request leave every future but its own alone.                *)

Phases == {"new", "rejected", "running", "lost", "sending", "fulfilled", "gave up"}

LEMMA TasksLeftAlone ==
  ASSUME IInv, UNCHANGED <<at, job, permits, recorded>>,
         phase' \in [Requests -> Phases],
         holder' \in Requests \cup {NoRequest},
         attempts' \in [Requests -> 0 .. retry_send_threshold],
         AttemptsLeft', HolderIsSender',
         \A r \in Requests : phase'[r] = "new" => phase[r] = "new"
  PROVE  IInv'
  <1>1. Proving' = Proving
    BY DEF Proving
  <1>2. PermitsKept
    BY <1>1, SamePermits DEF IInv
  <1>3. TypeOK'
    BY DEF IInv, TypeOK, Phases
  <1>4. NotStarted'
    BY DEF IInv, NotStarted
  <1>5. QED
    BY <1>2, <1>3, <1>4 DEF IInv, PermitsKept

\* A step that moves r to phase w without a send in it.
LEMMA PhaseMoves ==
  ASSUME IInv, NEW r \in Requests, NEW w \in Phases \ {"new", "running", "sending"},
         phase' = [phase EXCEPT ![r] = w],
         UNCHANGED <<at, job, permits, recorded, attempts>>,
         \/ phase[r] # "sending" /\ holder' = holder
         \/ phase[r] = "sending" /\ holder' = NoRequest
  PROVE  IInv'
  <1> USE DEF IInv
  <1>1. phase' \in [Requests -> Phases]
    BY DEF TypeOK, Phases
  <1>2. \A q \in Requests : phase'[q] = IF q = r THEN w ELSE phase[q]
    BY DEF TypeOK
  <1>3. AttemptsLeft'
    BY <1>2 DEF AttemptsLeft
  <1>4. HolderIsSender'
    <2>1. CASE phase[r] # "sending" /\ holder' = holder
      BY <1>2, <2>1 DEF HolderIsSender
    <2>2. CASE phase[r] = "sending" /\ holder' = NoRequest
      BY <1>2, <2>2, SchedulerAssumption DEF HolderIsSender
    <2>3. QED
      BY <2>1, <2>2
  <1>5. QED
    BY <1>1, <1>2, <1>3, <1>4, TasksLeftAlone DEF TypeOK

LEMMA AcceptKeeps ==
  ASSUME IInv, NEW r \in Requests, Accept(r)
  PROVE  IInv'
  <1> USE DEF IInv
  <1>1. /\ phase[r] = "new" /\ phase' = [phase EXCEPT ![r] = "running"]
        /\ at' = [t \in AllTasks |-> IF t.request = r THEN "waiting" ELSE at[t]]
        /\ UNCHANGED <<job, permits, holder, recorded, attempts>>
    BY DEF Accept
  <1>2. \A q \in Requests : phase'[q] = IF q = r THEN "running" ELSE phase[q]
    BY <1>1 DEF TypeOK
  <1>3. AttemptsLeft'
    BY <1>1, <1>2 DEF AttemptsLeft
  <1>4. HolderIsSender'
    BY <1>1, <1>2 DEF HolderIsSender
  <1>5. PermitsKept
    <2>1. \A t \in AllTasks : at[t] = "proving" <=> at'[t] = "proving"
      BY <1>1 DEF NotStarted
    <2>2. Proving' = Proving
      BY <2>1 DEF Proving
    <2>3. QED
      BY <1>1, <2>2, SamePermits
  <1>6. NotStarted'
    BY <1>1, <1>2 DEF NotStarted
  <1>7. TypeOK'
    <2>1. phase' \in [Requests -> Phases]
      BY <1>1 DEF TypeOK, Phases
    <2>2. at' \in [AllTasks -> Places]
      BY <1>1 DEF TypeOK, Places
    <2>3. QED
      BY <1>1, <1>5, <2>1, <2>2 DEF TypeOK, PermitsKept, Phases, Places
  <1>8. QED
    BY <1>3, <1>4, <1>5, <1>6, <1>7 DEF PermitsKept

LEMMA RefuseAndLoseKeep ==
  ASSUME IInv, NEW r \in Requests, Refuse(r) \/ Lose(r)
  PROVE  IInv'
  <1>1. PICK w \in {"rejected", "lost"} : phase' = [phase EXCEPT ![r] = w]
    BY DEF Refuse, Lose
  <1>2. /\ phase[r] # "sending" /\ holder' = holder
        /\ UNCHANGED <<at, job, permits, recorded, attempts>>
    BY DEF Refuse, Lose
  <1>3. QED
    BY <1>1, <1>2, PhaseMoves DEF Phases

LEMMA StartSendingKeeps ==
  ASSUME IInv, NEW r \in Requests, StartSending(r)
  PROVE  IInv'
  <1> USE DEF IInv
  <1>1. /\ phase[r] = "running" /\ holder = NoRequest
        /\ UNCHANGED <<at, job, permits, recorded, attempts>>
    BY DEF StartSending
  <1>2. CASE phase' = [phase EXCEPT ![r] = "lost"] /\ holder' = holder
    BY <1>1, <1>2, PhaseMoves DEF Phases
  <1>3. CASE phase' = [phase EXCEPT ![r] = "sending"] /\ holder' = r
    <2>1. \A q \in Requests : phase'[q] = IF q = r THEN "sending" ELSE phase[q]
      BY <1>3 DEF TypeOK
    <2>2. AttemptsLeft'
      BY <1>1, <2>1, SchedulerAssumption DEF AttemptsLeft
    <2>3. HolderIsSender'
      BY <1>1, <1>3, <2>1, SchedulerAssumption DEF HolderIsSender
    <2>4. phase' \in [Requests -> Phases]
      BY <1>3 DEF TypeOK, Phases
    <2>5. QED
      BY <1>1, <1>3, <2>1, <2>2, <2>3, <2>4, TasksLeftAlone DEF TypeOK
  <1>4. QED
    BY <1>2, <1>3 DEF StartSending

LEMMA SendKeeps ==
  ASSUME IInv, NEW r \in Requests, Send(r)
  PROVE  IInv'
  <1> USE DEF IInv
  <1>1. phase[r] = "sending" /\ UNCHANGED <<at, job, permits, recorded>>
    BY DEF Send, SendConfirmed, SendDropped, SendFails
  <1>2. CASE SendConfirmed(r) \/ SendDropped(r)
    <2>1. PICK w \in {"fulfilled", "lost"} :
             phase' = [phase EXCEPT ![r] = w] /\ holder' = NoRequest
      BY <1>2 DEF SendConfirmed, SendDropped, Release
    <2>2. UNCHANGED attempts
      BY <1>2 DEF SendConfirmed, SendDropped
    <2>3. QED
      BY <1>1, <2>1, <2>2, PhaseMoves DEF Phases
  <1>3. CASE SendFails(r)
    <2>1. attempts' = [attempts EXCEPT ![r] = attempts[r] + 1]
      BY <1>3 DEF SendFails
    <2>2. /\ attempts[r] \in Nat /\ attempts[r] + 1 <= retry_send_threshold
          /\ attempts'[r] = attempts[r] + 1
          /\ \A q \in Requests \ {r} : attempts'[q] = attempts[q]
      <3>1. attempts[r] \in 0 .. retry_send_threshold /\ retry_send_threshold \in Nat
        BY SchedulerAssumption DEF TypeOK
      <3>2. attempts[r] < retry_send_threshold
        BY <1>1 DEF AttemptsLeft
      <3>3. /\ attempts'[r] = attempts[r] + 1
            /\ \A q \in Requests \ {r} : attempts'[q] = attempts[q]
        BY <2>1 DEF TypeOK
      <3>4. QED
        BY <3>1, <3>2, <3>3
    <2>3. attempts' \in [Requests -> 0 .. retry_send_threshold]
      <3>1. attempts[r] + 1 \in 0 .. retry_send_threshold
        BY <2>2, SchedulerAssumption
      <3>2. QED
        BY <2>1, <3>1 DEF TypeOK
    <2>4. CASE attempts'[r] < retry_send_threshold /\ UNCHANGED <<phase, holder>>
      <3>1. AttemptsLeft'
        BY <1>1, <2>2, <2>4 DEF AttemptsLeft
      <3>2. HolderIsSender'
        BY <2>4 DEF HolderIsSender
      <3>3. phase' \in [Requests -> Phases]
        BY <2>4 DEF TypeOK, Phases
      <3>4. QED
        BY <1>1, <2>3, <2>4, <3>1, <3>2, <3>3, TasksLeftAlone DEF TypeOK
    <2>5. CASE phase' = [phase EXCEPT ![r] = "gave up"] /\ holder' = NoRequest
      <3>1. \A q \in Requests : phase'[q] = IF q = r THEN "gave up" ELSE phase[q]
        BY <2>5 DEF TypeOK
      <3>2. AttemptsLeft'
        BY <2>2, <3>1 DEF AttemptsLeft
      <3>3. HolderIsSender'
        <4>1. \A q \in Requests : phase'[q] # "sending" /\ q # NoRequest
          BY <1>1, <3>1, SchedulerAssumption DEF HolderIsSender
        <4>2. QED
          BY <2>5, <4>1 DEF HolderIsSender
      <3>4. phase' \in [Requests -> Phases]
        BY <2>5 DEF TypeOK, Phases
      <3>5. QED
        BY <1>1, <2>3, <2>5, <3>1, <3>2, <3>3, <3>4, TasksLeftAlone DEF TypeOK
    <2>6. QED
      BY <1>3, <2>4, <2>5 DEF SendFails, Release
  <1>4. QED
    BY <1>2, <1>3 DEF Send

-----------------------------------------------------------------------------
LEMMA Preserved == IInv /\ [Next]_vars => IInv'
  <1> SUFFICES ASSUME IInv, [Next]_vars PROVE IInv'
    OBVIOUS
  <1>1. ASSUME NEW t \in AllTasks, TaskStep(t) \/ FinishJob(t)
        PROVE  IInv'
    BY <1>1, SubmitKeeps, PollKeeps, QuietStepKeeps, FinishJobKeeps DEF TaskStep
  <1>2. ASSUME NEW r \in Requests, RequestStep(r) \/ Send(r)
        PROVE  IInv'
    BY <1>2, AcceptKeeps, RefuseAndLoseKeep, StartSendingKeeps, SendKeeps
       DEF RequestStep
  <1>3. CASE UNCHANGED vars
    <2>1. UNCHANGED <<phase, at, job, permits, holder, recorded, attempts>>
      BY <1>3 DEF vars
    <2>2. TypeOK' /\ AttemptsLeft' /\ HolderIsSender' /\ NotStarted'
      BY <2>1 DEF IInv, TypeOK, AttemptsLeft, HolderIsSender, NotStarted
    <2>3. PermitsCounted'
      BY <2>1 DEF IInv, PermitsCounted, Proving
    <2>4. QED
      BY <2>2, <2>3 DEF IInv
  <1>4. QED
    BY <1>1, <1>2, <1>3 DEF Next

LEMMA Invariant == Spec => []IInv
  BY Initially, Preserved, PTL DEF Spec

\* Type correctness of the scheduler, whatever is posted to it: the tasks, the
\* dispatcher's jobs, the tracker and the counters of the retry loop.
THEOREM TypeCorrect == Spec => []TypeOK
  <1>1. IInv => TypeOK
    BY DEF IInv
  <1>2. QED
    BY <1>1, Invariant, PTL

\* No path through the executor keeps a permit or gives one back twice.
THEOREM PermitsNeverLeak == Spec => []PermitsConserved
  <1>1. IInv => PermitsConserved
    BY DEF IInv, PermitsCounted, PermitsConserved, Proving
  <1>2. QED
    BY <1>1, Invariant, PTL

\* No way out of a send, a panic or giving up included, keeps the mutex.
THEOREM MutexNeverLeaks == Spec => []HolderIsSender
  <1>1. IInv => HolderIsSender
    BY DEF IInv
  <1>2. QED
    BY <1>1, Invariant, PTL

-----------------------------------------------------------------------------
(* The scheduler implements the task graph.                                *)

\* Past the wait for its dependencies a task has them all.
NeedsObtained ==
    \A t \in AllTasks :
        at[t] \in {"proving", "fetching", "recording", "done"}
            => DependencySet(t) \subseteq Obtained

\* A request whose top task is obtained has something in the tracker.
TopRecorded ==
    \A r \in Requests :
        Admissible(r) /\ at[Top(r)] = "done" => recorded[r] # <<>>

\* The summary tells a request lost while it was proved from one lost while it
\* was sent.
SummariesTell ==
    /\ summary \in [Requests -> Seq(AllTasks)]
    /\ \A r \in Requests :
          /\ phase[r] \in {"new", "running"} => summary[r] = <<>>
          /\ phase[r] = "running" => Admissible(r)
          /\ phase[r] \in {"sending", "fulfilled", "gave up"} => summary[r] # <<>>

GInv == IInv /\ NeedsObtained /\ TopRecorded /\ SummariesTell

LEMMA GInitially == Init => GInv /\ Graph!Init
  <1> SUFFICES ASSUME Init PROVE GInv /\ Graph!Init
    OBVIOUS
  <1> USE DEF Init
  <1>1. NeedsObtained
    BY DEF NeedsObtained
  <1>2. Obtained = {}
    BY DEF Obtained
  <1>3. SummariesTell
    <2>1. <<>> \in Seq(AllTasks)
      OBVIOUS
    <2>2. QED
      BY <2>1 DEF SummariesTell
  <1>4. TopRecorded
    BY TreesClosed DEF TopRecorded
  <1>5. Outcomes = [r \in Requests |-> "open"]
    BY DEF Outcomes, Outcome
  <1>6. QED
    BY <1>1, <1>2, <1>3, <1>4, <1>5, Initially DEF GInv, Graph!Init

\* What a step of the task graph is when no request changes its outcome.
LEMMA OutcomesKept ==
  ASSUME UNCHANGED <<phase, summary>>
  PROVE  Outcomes' = Outcomes
  BY DEF Outcomes, Outcome

LEMMA TaskMoves ==
  ASSUME GInv, NEW t \in AllTasks, NEW w \in Places,
         at[t] # "done", at' = [at EXCEPT ![t] = w], UNCHANGED server,
         w \in {"proving", "fetching", "recording", "done"}
            => DependencySet(t) \subseteq Obtained,
         IF w = "done" THEN recorded' = [recorded EXCEPT ![t.request] = Append(@, t)]
         ELSE recorded' = recorded
  PROVE  /\ NeedsObtained' /\ TopRecorded' /\ SummariesTell'
         /\ [Graph!Next]_(Graph!vars)
  <1> USE DEF GInv
  <1>1. /\ \A u \in AllTasks : at'[u] = IF u = t THEN w ELSE at[u]
        /\ t \notin Obtained
    BY DEF IInv, TypeOK, Obtained
  <1>2. Obtained' = IF w = "done" THEN Obtained \cup {t} ELSE Obtained
    BY <1>1 DEF Obtained
  <1>3. NeedsObtained'
    BY <1>1, <1>2 DEF NeedsObtained
  <1>4. TopRecorded'
    <2>1. ASSUME NEW r \in Requests, Admissible(r), at'[Top(r)] = "done"
          PROVE  recorded'[r] # <<>>
      <3>1. Top(r) \in AllTasks /\ recorded[r] \in Seq(AllTasks)
        BY <2>1, TreesClosed DEF IInv, TypeOK
      <3>2. Append(recorded[r], t) # <<>>
        <4>1. \A q \in Seq(AllTasks) : Append(q, t) # <<>>
          BY AppendProperties
        <4>2. QED
          BY <3>1, <4>1
      <3>3. CASE Top(r) = t
        <4>1. w = "done" /\ t.request = r
          BY <1>1, <2>1, <3>3 DEF Top, Task
        <4>2. recorded'[r] = Append(recorded[r], t)
          BY <4>1 DEF IInv, TypeOK
        <4>3. QED
          BY <3>2, <4>2
      <3>4. CASE Top(r) # t
        <4>1. recorded[r] # <<>>
          BY <1>1, <2>1, <3>1, <3>4 DEF TopRecorded
        <4>2. recorded'[r] = recorded[r] \/ recorded'[r] = Append(recorded[r], t)
          BY DEF IInv, TypeOK
        <4>3. QED
          BY <3>2, <4>1, <4>2
      <3>5. QED
        BY <3>3, <3>4
    <2>2. QED
      BY <2>1 DEF TopRecorded, Admissible, NumClaims
  <1>5. SummariesTell'
    BY DEF SummariesTell, server
  <1>6. Outcomes' = Outcomes
    BY OutcomesKept DEF server
  <1>7. CASE w = "done"
    <2>1. Needs[t] \subseteq Obtained
      BY <1>7 DEF Needs
    <2>2. Graph!Obtain(t)
      BY <1>1, <1>2, <1>6, <1>7, <2>1 DEF Graph!Obtain
    <2>3. QED
      BY <1>3, <1>4, <1>5, <2>2 DEF Graph!Next
  <1>8. CASE w # "done"
    BY <1>2, <1>3, <1>4, <1>5, <1>6, <1>8 DEF Graph!vars
  <1>9. QED
    BY <1>7, <1>8

LEMMA TaskStepMaps ==
  ASSUME GInv, NEW t \in AllTasks, TaskStep(t) \/ FinishJob(t)
  PROVE  /\ NeedsObtained' /\ TopRecorded' /\ SummariesTell'
         /\ [Graph!Next]_(Graph!vars)
  <1> USE DEF GInv
  <1>1. CASE Submit(t)
    <2>1. PICK w \in {"proving", "failed"} : at' = [at EXCEPT ![t] = w]
      BY <1>1 DEF Submit
    <2>2. DependencySet(t) \subseteq Obtained
      BY <1>1, TreesClosed DEF Submit, Ready, Finished, Obtained
    <2>3. at[t] # "done" /\ UNCHANGED server /\ recorded' = recorded
      BY <1>1 DEF Submit, Ready
    <2>4. QED
      BY <2>1, <2>2, <2>3, TaskMoves DEF Places
  <1>2. CASE Poll(t) \/ Fetch(t)
    <2>1. PICK w \in {"fetching", "recording", "failed"} : at' = [at EXCEPT ![t] = w]
      BY <1>2 DEF Poll, Fetch
    <2>2. at[t] \in {"proving", "fetching"} /\ UNCHANGED server /\ recorded' = recorded
      BY <1>2 DEF Poll, Fetch
    <2>3. DependencySet(t) \subseteq Obtained
      BY <2>2 DEF NeedsObtained
    <2>4. QED
      BY <2>1, <2>2, <2>3, TaskMoves DEF Places
  <1>3. CASE Record(t)
    <2>1. /\ at[t] = "recording" /\ at' = [at EXCEPT ![t] = "done"] /\ UNCHANGED server
          /\ recorded' = [recorded EXCEPT ![t.request] = Append(@, t)]
      BY <1>3 DEF Record
    <2>2. DependencySet(t) \subseteq Obtained
      BY <2>1 DEF NeedsObtained
    <2>3. QED
      BY <2>1, <2>2, TaskMoves DEF Places
  <1>4. CASE FailWithDependency(t)
    <2>1. /\ at[t] = "waiting" /\ at' = [at EXCEPT ![t] = "failed"]
          /\ UNCHANGED server /\ recorded' = recorded
      BY <1>4 DEF FailWithDependency
    <2>2. QED
      BY <2>1, TaskMoves DEF Places
  <1>5. CASE FinishJob(t)
    <2>1. UNCHANGED <<server, at, recorded>>
      BY <1>5 DEF FinishJob
    <2>2. Obtained' = Obtained
      BY <2>1 DEF Obtained
    <2>3. Outcomes' = Outcomes
      BY <2>1, OutcomesKept DEF server
    <2>4. NeedsObtained' /\ TopRecorded' /\ SummariesTell'
      BY <2>1, <2>2 DEF NeedsObtained, TopRecorded, SummariesTell, server
    <2>5. QED
      BY <2>2, <2>3, <2>4 DEF Graph!vars
  <1>6. QED
    BY <1>1, <1>2, <1>3, <1>4, <1>5 DEF TaskStep

OutcomeWith(w, s) ==
    CASE w \in {"new", "running"} -> "open"
      [] w \in {"sending", "fulfilled", "gave up"} -> "served"
      [] OTHER -> IF s = <<>> THEN "abandoned" ELSE "served"

\* A step of one request's handler or future, and what the task graph sees of it.
RequestMoves(r, w, s) ==
    /\ phase' = [phase EXCEPT ![r] = w]
    /\ summary' = [summary EXCEPT ![r] = s]
    /\ UNCHANGED recorded /\ Obtained' = Obtained
    /\ \A t \in AllTasks :
          at'[t] = at[t] \/ (at'[t] = "waiting" /\ at[t] = "absent")
    /\ w \in {"new", "running"} => s = <<>>
    /\ w = "running" => Admissible(r)
    /\ w \in {"sending", "fulfilled", "gave up"} => s # <<>>

Mapped(r, outcome) ==
    /\ NeedsObtained' /\ TopRecorded' /\ SummariesTell'
    /\ Obtained' = Obtained
    /\ Outcomes' = [Outcomes EXCEPT ![r] = outcome]

LEMMA RequestMovesMap ==
  ASSUME GInv, NEW r \in Requests, NEW w \in Phases, NEW s \in Seq(AllTasks),
         RequestMoves(r, w, s)
  PROVE  Mapped(r, OutcomeWith(w, s))
  <1> USE DEF GInv, RequestMoves
  <1>1. \A q \in Requests :
           /\ phase'[q] = IF q = r THEN w ELSE phase[q]
           /\ summary'[q] = IF q = r THEN s ELSE summary[q]
    BY DEF IInv, TypeOK, SummariesTell
  <1>2. NeedsObtained'
    BY DEF NeedsObtained
  <1>3. TopRecorded'
    BY TreesClosed DEF TopRecorded, Admissible, NumClaims
  <1>4. SummariesTell'
    <2>1. summary' \in [Requests -> Seq(AllTasks)]
      BY DEF SummariesTell
    <2>2. QED
      BY <1>1, <2>1 DEF SummariesTell, Admissible, NumClaims
  <1>5. \A q \in Requests : Outcome(q)' =
           IF q # r THEN Outcome(q) ELSE OutcomeWith(w, s)
    BY <1>1 DEF Outcome, OutcomeWith
  <1>6. QED
    BY <1>2, <1>3, <1>4, <1>5 DEF Outcomes, Mapped

LEMMA AcceptOrRefuseMaps ==
  ASSUME GInv, NEW r \in Requests, Accept(r) \/ Refuse(r)
  PROVE  /\ NeedsObtained' /\ TopRecorded' /\ SummariesTell'
         /\ [Graph!Next]_(Graph!vars)
  <1> USE DEF GInv
  <1>1. phase[r] = "new" /\ summary[r] = <<>> /\ UNCHANGED <<recorded, summary>>
    BY DEF Accept, Refuse, SummariesTell
  <1>2. /\ summary' = [summary EXCEPT ![r] = <<>>]
        /\ <<>> \in Seq(AllTasks)
    BY <1>1 DEF SummariesTell
  <1>3. Outcomes[r] = "open" /\ Outcomes = [Outcomes EXCEPT ![r] = "open"]
    BY <1>1 DEF Outcomes, Outcome
  <1>4. CASE Accept(r)
    <2>1. \A t \in AllTasks :
             at'[t] = at[t] \/ (at'[t] = "waiting" /\ at[t] = "absent")
      BY <1>1, <1>4 DEF Accept, IInv, NotStarted
    <2>2. Obtained' = Obtained
      BY <2>1 DEF Obtained
    <2>3. phase' = [phase EXCEPT ![r] = "running"] /\ Admissible(r)
      BY <1>4 DEF Accept
    <2>4. Mapped(r, "open")
      <3>1. RequestMoves(r, "running", <<>>)
        BY <1>1, <1>2, <2>1, <2>2, <2>3 DEF RequestMoves
      <3>2. Mapped(r, OutcomeWith("running", <<>>))
        BY <1>2, <2>1, <3>1, RequestMovesMap DEF Phases
      <3>3. OutcomeWith("running", <<>>) = "open"
        BY DEF OutcomeWith
      <3>4. QED
        BY <3>2, <3>3
    <2>5. Outcomes' = Outcomes
      BY <1>3, <2>4 DEF Mapped
    <2>6. QED
      BY <2>2, <2>4, <2>5 DEF Graph!vars, Mapped
  <1>5. CASE Refuse(r)
    <2>1. UNCHANGED at /\ phase' = [phase EXCEPT ![r] = "rejected"]
      BY <1>5 DEF Refuse
    <2>2. Obtained' = Obtained
      BY <2>1 DEF Obtained
    <2>3. Mapped(r, "abandoned")
      <3>1. RequestMoves(r, "rejected", <<>>)
        BY <1>1, <1>2, <2>1, <2>2 DEF RequestMoves
      <3>2. Mapped(r, OutcomeWith("rejected", <<>>))
        BY <1>2, <2>1, <3>1, RequestMovesMap DEF Phases
      <3>3. OutcomeWith("rejected", <<>>) = "abandoned"
        BY DEF OutcomeWith
      <3>4. QED
        BY <3>2, <3>3
    <2>4. Graph!Abandon(r)
      BY <1>3, <2>2, <2>3 DEF Graph!Abandon, Mapped
    <2>5. QED
      BY <2>3, <2>4 DEF Graph!Next, Mapped
  <1>6. QED
    BY <1>4, <1>5

LEMMA LoseOrStartMaps ==
  ASSUME GInv, NEW r \in Requests, Lose(r) \/ StartSending(r)
  PROVE  /\ NeedsObtained' /\ TopRecorded' /\ SummariesTell'
         /\ [Graph!Next]_(Graph!vars)
  <1> USE DEF GInv
  <1>1. phase[r] = "running" /\ summary[r] = <<>> /\ UNCHANGED <<at, recorded>>
    BY DEF Lose, StartSending, SummariesTell
  <1>2. Outcomes[r] = "open" /\ Obtained' = Obtained
    BY <1>1 DEF Outcomes, Outcome, Obtained
  <1>3. CASE phase' = [phase EXCEPT ![r] = "lost"] /\ UNCHANGED summary
    <2>1. summary' = [summary EXCEPT ![r] = <<>>] /\ <<>> \in Seq(AllTasks)
      BY <1>1, <1>3 DEF SummariesTell
    <2>2. Mapped(r, "abandoned")
      <3>1. RequestMoves(r, "lost", <<>>)
        BY <1>1, <1>2, <1>3, <2>1 DEF RequestMoves
      <3>2. Mapped(r, OutcomeWith("lost", <<>>))
        BY <1>2, <2>1, <3>1, RequestMovesMap DEF Phases
      <3>3. OutcomeWith("lost", <<>>) = "abandoned"
        BY DEF OutcomeWith
      <3>4. QED
        BY <3>2, <3>3
    <2>3. Graph!Abandon(r)
      BY <1>2, <2>2 DEF Graph!Abandon, Mapped
    <2>4. QED
      BY <2>2, <2>3 DEF Graph!Next, Mapped
  <1>4. CASE /\ StartSending(r)
             /\ phase' = [phase EXCEPT ![r] = "sending"]
             /\ summary' = [summary EXCEPT ![r] = recorded[r]]
    <2>1. Top(r) \in Obtained /\ recorded[r] # <<>>
      BY <1>1, <1>4, TreesClosed
         DEF StartSending, Finished, Obtained, TopRecorded, SummariesTell
    <2>2. recorded[r] \in Seq(AllTasks)
      BY DEF IInv, TypeOK
    <2>3. Mapped(r, "served")
      <3>1. RequestMoves(r, "sending", recorded[r])
        BY <1>1, <1>2, <1>4, <2>1, <2>2 DEF RequestMoves
      <3>2. Mapped(r, OutcomeWith("sending", recorded[r]))
        BY <2>2, <3>1, RequestMovesMap DEF Phases
      <3>3. OutcomeWith("sending", recorded[r]) = "served"
        BY <2>1 DEF OutcomeWith
      <3>4. QED
        BY <3>2, <3>3
    <2>4. Graph!Serve(r)
      BY <1>2, <2>1, <2>3 DEF Graph!Serve, TopOf, Mapped
    <2>5. QED
      BY <2>3, <2>4 DEF Graph!Next, Mapped
  <1>5. QED
    BY <1>3, <1>4 DEF Lose, StartSending

LEMMA SendMaps ==
  ASSUME GInv, NEW r \in Requests, Send(r)
  PROVE  /\ NeedsObtained' /\ TopRecorded' /\ SummariesTell'
         /\ [Graph!Next]_(Graph!vars)
  <1> USE DEF GInv
  <1>1. phase[r] = "sending" /\ UNCHANGED <<at, recorded, summary>>
    BY DEF Send, SendConfirmed, SendDropped, SendFails
  <1>2. PICK w \in {"sending", "fulfilled", "lost", "gave up"} :
           phase' = [phase EXCEPT ![r] = w]
    <2>1. phase = [phase EXCEPT ![r] = "sending"]
      BY <1>1 DEF IInv, TypeOK
    <2>2. QED
      BY <2>1 DEF Send, SendConfirmed, SendDropped, SendFails, Release
  <1>3. /\ summary[r] \in Seq(AllTasks) /\ summary[r] # <<>>
        /\ summary' = [summary EXCEPT ![r] = summary[r]]
    BY <1>1 DEF SummariesTell
  <1>4. Outcomes = [Outcomes EXCEPT ![r] = "served"] /\ Obtained' = Obtained
    BY <1>1 DEF Outcomes, Outcome, Obtained
  <1>5. Mapped(r, "served")
    <2>1. RequestMoves(r, w, summary[r])
      BY <1>1, <1>2, <1>3, <1>4 DEF RequestMoves
    <2>2. Mapped(r, OutcomeWith(w, summary[r]))
      BY <1>2, <1>3, <2>1, RequestMovesMap DEF Phases
    <2>3. OutcomeWith(w, summary[r]) = "served"
      BY <1>2, <1>3 DEF OutcomeWith
    <2>4. QED
      BY <2>2, <2>3
  <1>6. Outcomes' = Outcomes
    BY <1>4, <1>5 DEF Mapped
  <1>7. QED
    BY <1>4, <1>5, <1>6 DEF Graph!vars, Mapped

LEMMA StepMaps == GInv /\ [Next]_vars => GInv' /\ [Graph!Next]_(Graph!vars)
  <1> SUFFICES ASSUME GInv, [Next]_vars PROVE GInv' /\ [Graph!Next]_(Graph!vars)
    OBVIOUS
  <1>1. IInv'
    BY Preserved DEF GInv
  <1>2. ASSUME NEW t \in AllTasks, TaskStep(t) \/ FinishJob(t)
        PROVE  GInv' /\ [Graph!Next]_(Graph!vars)
    BY <1>1, <1>2, TaskStepMaps DEF GInv
  <1>3. ASSUME NEW r \in Requests, RequestStep(r) \/ Send(r)
        PROVE  GInv' /\ [Graph!Next]_(Graph!vars)
    BY <1>1, <1>3, AcceptOrRefuseMaps, LoseOrStartMaps, SendMaps DEF GInv, RequestStep
  <1>4. CASE UNCHANGED vars
    <2>1. UNCHANGED <<phase, at, recorded, summary>>
      BY <1>4 DEF vars
    <2>2. Obtained' = Obtained
      BY <2>1 DEF Obtained
    <2>3. Outcomes' = Outcomes
      BY <2>1, OutcomesKept
    <2>4. NeedsObtained' /\ TopRecorded' /\ SummariesTell'
      BY <2>1, <2>2 DEF GInv, NeedsObtained, TopRecorded, SummariesTell
    <2>5. QED
      BY <1>1, <2>2, <2>3, <2>4 DEF GInv, Graph!vars
  <1>5. QED
    BY <1>2, <1>3, <1>4 DEF Next

\* However its futures interleave and whatever fails, the scheduler obtains every
\* task after the tasks it needs, and serves a request only with the
\* proof of its top task, for every set of requests and every shape of the trees.
THEOREM SchedulerImplementsTaskGraph == Spec => ImplementsTaskGraph
  BY GInitially, StepMaps, PTL DEF Spec, ImplementsTaskGraph, Graph!Spec

-----------------------------------------------------------------------------
(* What a task is.  A proof is a snark, so what is known of the circuits,   *)
(* and of every snark they can make, is known of the tasks' proofs.         *)

Pool == INSTANCE ProofPoolProofs WITH
    LeafInputs <- LeafInput, MaxSnarks <- 0, snarks <- {}

\* The pool has the circuits of the scheduler's prover.
LEMMA PoolAssumptions == LeafInput \subseteq Pool!LeafInput /\ 0 \in Nat
  BY DEF LeafInput, Pool!LeafInput

LEMMA Capacities ==
    \A d \in INITIAL_DEPTH .. MAX_DEPTH :
        /\ Capacity(d) \in Nat \ {0}
        /\ d > INITIAL_DEPTH => Capacity(d) = 2 * Capacity(d - 1)
  <1>1. \A d \in INITIAL_DEPTH .. MAX_DEPTH :
           /\ Pool!Capacity(d) \in Nat \ {0}
           /\ d > INITIAL_DEPTH => Pool!Capacity(d) = 2 * Pool!Capacity(d - 1)
    BY PoolAssumptions, CircuitAssumption, Pool!Capacities
  <1>2. ASSUME NEW d PROVE Pool!Capacity(d) = Capacity(d)
    BY Zenon DEF Capacity, Pool!Capacity
  <1>3. QED
    BY <1>1, <1>2

\* A task stands for some consecutive claims of its request, at least one and
\* at most as many as its circuit has room for.
Planned(t) ==
    /\ t.request \in Requests /\ Admissible(t.request)
    /\ t.params \in Shapes
    /\ t.params.node_type = "Leaf" <=> t.params.depth = INITIAL_DEPTH
    /\ t.start \in Nat /\ t.end \in Nat /\ t.end <= NumClaims(t.request)
    /\ NumProofs(t) \in 1 .. Capacity(t.params.depth)
    /\ t.claims = SubSeq(ClaimsOf[t.request], t.start + 1, t.end)

\* How many pieces of c positions n positions make, when two suffice.
LEMMA PieceCount ==
  ASSUME NEW n \in Nat, NEW c \in Nat, c # 0, n # 0, n <= c + c
  PROVE  (n + c - 1) \div c = IF n <= c THEN 1 ELSE 2
  OBVIOUS

\* The room below a node: an Evm node's one child has as much as the node, any
\* other node's two children have as much together.
LEMMA ChildRoom ==
  ASSUME NEW t, Planned(t), ~ IsLeafTask(t)
  PROVE  /\ Child(t.params) \in Shapes
         /\ Child(t.params).node_type = "Leaf"
               <=> Child(t.params).depth = INITIAL_DEPTH
         /\ Child(t.params).depth = IF t.params.node_type = "Evm" THEN t.params.depth
                                    ELSE t.params.depth - 1
         /\ Capacity(Child(t.params).depth) \in Nat \ {0}
         /\ Capacity(t.params.depth) =
               IF t.params.node_type = "Evm" THEN Capacity(Child(t.params).depth)
               ELSE Capacity(Child(t.params).depth) + Capacity(Child(t.params).depth)
  <1> DEFINE p == t.params
  <1>1. /\ p \in Shapes /\ p.depth # p.initial_depth
        /\ p.initial_depth = INITIAL_DEPTH
        /\ INITIAL_DEPTH \in Nat /\ p.depth \in INITIAL_DEPTH .. MAX_DEPTH
        /\ MAX_DEPTH \in Nat /\ p.round \in Nat
    BY CircuitAssumption DEF Planned, IsLeafTask, Shapes
  <1> HIDE DEF p
  <1>2. Child(p) \in Shapes
    BY <1>1, ChildHasShape
  <1>3. /\ Child(p).node_type = "Leaf" <=> Child(p).depth = INITIAL_DEPTH
        /\ Child(p).depth = IF p.node_type = "Evm" THEN p.depth ELSE p.depth - 1
    BY <1>1, ChildHasShape DEF ChildDepth
  <1>4. p.node_type # "Evm" =>
           p.depth \in INITIAL_DEPTH .. MAX_DEPTH /\ p.depth > INITIAL_DEPTH
    BY <1>1
  <1>5. Child(p).depth \in INITIAL_DEPTH .. MAX_DEPTH
    BY <1>2 DEF Shapes
  <1>6. Capacity(Child(p).depth) \in Nat \ {0}
    BY <1>5, Capacities
  <1>7. CASE p.node_type = "Evm"
    BY <1>2, <1>3, <1>6, <1>7 DEF p
  <1>8. CASE p.node_type # "Evm"
    <2>1. Capacity(p.depth) = 2 * Capacity(p.depth - 1)
      BY <1>4, <1>8, Capacities
    <2>2. QED
      BY <1>2, <1>3, <1>6, <1>8, <2>1 DEF p
  <1>9. QED
    BY <1>7, <1>8

\* A task that is not a leaf is cut in one piece or in two, the first one full
\* when there are two.
Half(t) == Capacity(Child(t.params).depth)
Pieces(t) == IF NumProofs(t) <= Half(t) THEN 1 ELSE 2
EndOfPiece(t, k) ==
    IF k = 1 /\ NumProofs(t) > Half(t) THEN t.start + Half(t) ELSE t.end

LEMMA Cut ==
  ASSUME NEW t, Planned(t), ~ IsLeafTask(t)
  PROVE  /\ Half(t) \in Nat \ {0} /\ Pieces(t) \in {1, 2}
         /\ NumProofs(t) \in Nat /\ NumProofs(t) # 0
         /\ NumProofs(t) <= Half(t) + Half(t)
         /\ t.params.node_type = "Evm" => Pieces(t) = 1
         /\ Dependencies(t) = [k \in 1 .. Pieces(t) |-> Piece(t, Half(t), k)]
         /\ DOMAIN Dependencies(t) = 1 .. Pieces(t)
  <1> DEFINE c == Half(t)
             n == NumProofs(t)
  <1>1. /\ c \in Nat \ {0}
        /\ Capacity(t.params.depth) = IF t.params.node_type = "Evm" THEN c ELSE c + c
    BY ChildRoom DEF Half
  <1>2. n \in Nat /\ n # 0 /\ n <= Capacity(t.params.depth)
    BY <1>1 DEF Planned
  <1>3. Dependencies(t) = [k \in 1 .. (n + c - 1) \div c |-> Piece(t, c, k)]
    BY Zenon DEF Dependencies, Half, Capacity
  <1> HIDE DEF c, n
  <1>4. n <= c + c /\ (t.params.node_type = "Evm" => n <= c)
    BY <1>1, <1>2
  <1>5. (n + c - 1) \div c = IF n <= c THEN 1 ELSE 2
    BY <1>1, <1>2, <1>4, PieceCount
  <1>6. Dependencies(t) = [k \in 1 .. Pieces(t) |-> Piece(t, c, k)]
    BY <1>3, <1>5 DEF Pieces, c, n
  <1>7. QED
    BY <1>1, <1>2, <1>4, <1>6 DEF Pieces, c, n

\* What the k-th piece is: planned in its turn, of the same request, and with the
\* claims of its part of the task.
LEMMA PiecePlanned ==
  ASSUME NEW t, Planned(t), ~ IsLeafTask(t), NEW k \in 1 .. Pieces(t)
  PROVE  LET d == Piece(t, Half(t), k)
         IN  /\ Planned(d)
             /\ d.request = t.request /\ d.params = Child(t.params)
             /\ d.start = (IF k = 1 THEN t.start ELSE t.start + Half(t))
             /\ d.end = EndOfPiece(t, k)
             /\ \A i \in 1 .. NumProofs(d) :
                   d.claims[i] = t.claims[d.start - t.start + i]
  <1> DEFINE d == Piece(t, Half(t), k)
             c == Half(t)
             Q == ClaimsOf[t.request]
             from == IF k = 1 THEN t.start ELSE t.start + c
             to == EndOfPiece(t, k)
             from0 == t.start + (k - 1) * c
             to0 == IF from0 + c < t.end THEN from0 + c ELSE t.end
  <1>1. Q \in Seq(Claims) /\ t.claims = SubSeq(Q, t.start + 1, t.end)
    BY TaskTreeAssumption DEF Planned
  <1>2. /\ c \in Nat \ {0} /\ Pieces(t) \in {1, 2} /\ k \in {1, 2}
        /\ t.end - t.start \in Nat /\ t.end - t.start # 0
        /\ t.end - t.start <= c + c
        /\ k = 2 => t.end - t.start > c
        /\ Pieces(t) = 1 => t.end - t.start <= c
    BY Cut DEF NumProofs, Pieces
  <1>3. /\ t.start \in Nat /\ t.end \in Nat /\ t.end <= Len(Q) /\ Len(Q) \in Nat
    BY TaskTreeAssumption DEF Planned, NumClaims
  <1>4. d = Task(t.request, Child(t.params), from0, to0,
                 SubSeq(t.claims, from0 - t.start + 1, to0 - t.start))
    BY Zenon DEF Piece
  <1> HIDE DEF c, Q, d
  <1>5. from0 = from /\ to0 = to
    <2>1. from0 = from
      BY <1>2, <1>3
    <2>2. to = IF k = 1 /\ t.end - t.start > c THEN t.start + c ELSE t.end
      BY DEF EndOfPiece, NumProofs, c
    <2>3. QED
      BY <1>2, <1>3, <2>1, <2>2
  <1>6. /\ from \in Nat /\ to \in Nat /\ t.start <= from /\ to <= t.end
        /\ to - from \in 1 .. c
    <2>1. to = IF k = 1 /\ t.end - t.start > c THEN t.start + c ELSE t.end
      BY DEF EndOfPiece, NumProofs, c
    <2>2. CASE k = 1
      BY <1>2, <1>3, <2>1, <2>2
    <2>3. CASE k = 2
      BY <1>2, <1>3, <2>1, <2>3
    <2>4. QED
      BY <1>2, <2>2, <2>3
  <1> HIDE DEF from0, to0, from, to
  <1>7. d = Task(t.request, Child(t.params), from, to,
                 SubSeq(t.claims, from - t.start + 1, to - t.start))
    BY <1>4, <1>5
  <1>8. /\ d.request = t.request /\ d.params = Child(t.params)
        /\ d.start = from /\ d.end = to
        /\ d.claims = SubSeq(t.claims, from - t.start + 1, to - t.start)
    BY <1>7 DEF Task
  <1>9. t.claims \in Seq(Claims) /\ Len(t.claims) = t.end - t.start
    <2>1. \A i \in t.start + 1 .. t.end : Q[i] \in Claims
      BY <1>1, <1>3
    <2> DEFINE i == t.start + 1
               j == t.end
    <2>2. i \in Int /\ j \in Int /\ i <= j /\ j - i + 1 = t.end - t.start
      BY <1>2, <1>3
    <2>3. t.claims = SubSeq(Q, i, j) /\ \A m \in i .. j : Q[m] \in Claims
      BY <1>1, <2>1
    <2> HIDE DEF i, j
    <2>4. SubSeq(Q, i, j) \in Seq(Claims) /\ Len(SubSeq(Q, i, j)) = j - i + 1
      BY <2>2, <2>3, SubSeqProperties
    <2>5. QED
      BY <2>2, <2>3, <2>4
  <1>10. d.claims = SubSeq(Q, from + 1, to)
    <2> DEFINE i == t.start + 1
               m == from - t.start + 1
               n == to - t.start
    <2>1. i \in 1 .. Len(Q) /\ t.end \in 1 .. Len(Q)
      BY <1>2, <1>3
    <2>2. m \in 1 .. t.end - i + 1 /\ n \in 1 .. t.end - i + 1
      <3>1. /\ from \in Int /\ to \in Int /\ t.start \in Int /\ t.end \in Int
            /\ t.start <= from /\ from < to /\ to <= t.end
        BY <1>2, <1>3, <1>6
      <3>2. QED
        BY <3>1
    <2>3. i + m - 1 = from + 1 /\ i + n - 1 = to
      BY <1>3, <1>6
    <2>4. SubSeq(SubSeq(Q, i, t.end), m, n) = SubSeq(Q, i + m - 1, i + n - 1)
      <3> HIDE DEF i, m, n
      <3>1. QED
        BY <1>1, <2>1, <2>2, PartOfPart
    <2>5. QED
      BY <1>1, <1>8, <2>3, <2>4
  <1>11. ASSUME NEW i \in 1 .. to - from
         PROVE  d.claims[i] = t.claims[from - t.start + i]
    <2>1. \A j \in from - t.start + 1 .. to - t.start : t.claims[j] \in Claims
      <3>1. \A j \in from - t.start + 1 .. to - t.start : j \in 1 .. t.end - t.start
        BY <1>3, <1>6
      <3>2. QED
        BY <1>9, <3>1
    <2>2. /\ from - t.start + 1 \in Int /\ to - t.start \in Int
          /\ (to - t.start) - (from - t.start + 1) + 1 = to - from
          /\ (from - t.start + 1) + i - 1 = from - t.start + i
      <3>1. t.start \in Int /\ from \in Int /\ to \in Int /\ i \in Int
        BY <1>3, <1>6
      <3>2. QED
        BY <3>1
    <2>3. d.claims[i] = t.claims[(from - t.start + 1) + i - 1]
      BY <1>8, <2>1, <2>2, SubSeqProperties
    <2>4. QED
      BY <2>2, <2>3
  <1>12. Planned(d)
    <2>1. NumProofs(d) \in 1 .. Capacity(d.params.depth)
      BY <1>6, <1>8 DEF NumProofs, Half, c
    <2>2. /\ d.params \in Shapes
          /\ d.params.node_type = "Leaf" <=> d.params.depth = INITIAL_DEPTH
      BY <1>8, ChildRoom
    <2>3. d.start \in Nat /\ d.end \in Nat /\ d.end <= NumClaims(d.request)
      BY <1>3, <1>6, <1>8 DEF NumClaims, Q
    <2>4. d.claims = SubSeq(ClaimsOf[d.request], d.start + 1, d.end)
      BY <1>8, <1>10 DEF Q
    <2>5. QED
      BY <1>8, <2>1, <2>2, <2>3, <2>4 DEF Planned
  <1>13. QED
    BY <1>8, <1>11, <1>12 DEF NumProofs, d, c, from, to

LEMMA DependencyPlanned ==
  ASSUME NEW t, Planned(t), NEW d \in DependencySet(t)
  PROVE  Planned(d) /\ d.request = t.request
  <1>1. ~ IsLeafTask(t)
    BY DependencyIsPiece
  <1>2. PICK k \in 1 .. Pieces(t) : d = Piece(t, Half(t), k)
    BY <1>1, Cut DEF DependencySet
  <1>3. QED
    BY <1>1, <1>2, PiecePlanned, Zenon

LEMMA TasksPlanned ==
    /\ \A t \in AllTasks : Planned(t) /\ t \in Tree(t.request)
    /\ \A r \in Requests : Admissible(r) =>
          /\ Top(r) \in AllTasks /\ Tree(r) \subseteq AllTasks
          /\ \A t \in Tree(r) : t.request = r
  <1>1. ASSUME NEW r \in Requests, Admissible(r)
        PROVE  Tree(r) \subseteq {t \in Tree(r) : Planned(t) /\ t.request = r}
    <2> DEFINE T == {t \in Tree(r) : Planned(t) /\ t.request = r}
    <2>1. /\ Top(r).params = FinalParams /\ Top(r).request = r
          /\ Top(r).start = 0 /\ Top(r).end = Len(ClaimsOf[r])
          /\ Top(r).claims = ClaimsOf[r]
      BY DEF Top, Task, NumClaims
    <2>2. /\ FinalParams \in Shapes
          /\ FinalParams.node_type = "Evm" /\ FinalParams.depth = MAX_DEPTH
          /\ MAX_DEPTH # INITIAL_DEPTH
      BY CircuitAssumption, TaskTreeAssumption
         DEF FinalParams, Params, Shapes, NodeTypes
    <2>3. ClaimsOf[r] \in Seq(Claims) /\ Len(ClaimsOf[r]) \in Nat
      BY TaskTreeAssumption
    <2>4. ClaimsOf[r] = SubSeq(ClaimsOf[r], 0 + 1, Len(ClaimsOf[r]))
      BY <2>3, SubSeqFull
    <2>5. Len(ClaimsOf[r]) - 0 \in 1 .. Capacity(MAX_DEPTH)
      <3>1. Capacity(MAX_DEPTH) \in Nat
        BY CircuitAssumption, Capacities
      <3>2. QED
        BY <1>1, <2>3, <3>1 DEF Admissible, NumClaims
    <2>6. Planned(Top(r))
      BY <1>1, <2>1, <2>2, <2>3, <2>4, <2>5 DEF Planned, NumProofs, NumClaims
    <2>7. /\ Top(r) \in Tree(r)
          /\ \A u \in Tree(r) : DependencySet(u) \subseteq Tree(r)
      BY <2>1, FinalShape, TreeClosed DEF Tree
    <2>8. Top(r) \in T
      BY <2>1, <2>6, <2>7
    <2>9. ASSUME NEW u \in T PROVE DependencySet(u) \subseteq T
      BY <2>7, <2>9, DependencyPlanned
    <2> HIDE DEF T
    <2>10. Tree(r) \subseteq T
      BY <2>1, <2>8, <2>9, FinalShape, TreeReached DEF Tree
    <2>11. QED
      BY <2>10 DEF T
  <1>2. QED
    BY <1>1, TreesClosed DEF AllTasks

-----------------------------------------------------------------------------
(* What is proved of a task.                                                *)

LEMMA LeafOfPool ==
  ASSUME NEW in \in LeafInput, LeafAccepts(in)
  PROVE  Pool!SnarkOK(LeafSnark(in))
  <1>1. Pool!LeafAccepts(in)
    BY Zenon DEF LeafAccepts, Pool!LeafAccepts, Count, Pool!Count, Capacity,
                 Pool!Capacity
  <1>2. Pool!SnarkOK(Pool!LeafSnark(in))
    BY <1>1, PoolAssumptions, CircuitAssumption, Pool!LeafOK, Zenon
  <1>3. Pool!LeafSnark(in) = LeafSnark(in)
    BY Zenon DEF LeafSnark, Pool!LeafSnark, Count, Pool!Count, RootOf, Pool!RootOf,
                 Layers, Pool!Layers, MaskedLeaves, Pool!MaskedLeaves,
                 Level, Pool!Level, Leaf, Pool!Leaf, Node, Pool!Node
  <1>4. QED
    BY <1>2, <1>3

LEMMA JoinOfPool ==
  ASSUME NEW left, NEW right, NEW n \in Nat,
         Pool!SnarkOK(left), Pool!SnarkOK(right), JoinAccepts(left, right, n)
  PROVE  Pool!SnarkOK(JoinSnark(left, right, n))
  <1>1. Pool!JoinAccepts(left, right, n)
    BY Zenon DEF JoinAccepts, Pool!JoinAccepts, JoinedEnd, Pool!JoinedEnd,
                 IsSecondDummy, Pool!IsSecondDummy, Count, Pool!Count, Capacity,
                 Pool!Capacity
  <1>2. Pool!SnarkOK(Pool!JoinSnark(left, right, n))
    BY <1>1, PoolAssumptions, CircuitAssumption, Pool!JoinOK, Zenon
  <1>3. Pool!DummyClaimRoot = DummyClaimRoot
    BY Zenon DEF DummyClaimRoot, Pool!DummyClaimRoot, Leaf, Pool!Leaf, Node, Pool!Node
  <1>4. Pool!JoinSnark(left, right, n) = JoinSnark(left, right, n)
    BY <1>3, Zenon DEF JoinSnark, Pool!JoinSnark, JoinedEnd, Pool!JoinedEnd,
                       IsSecondDummy, Pool!IsSecondDummy, Capacity, Pool!Capacity,
                       RightClaimRoot, Pool!RightClaimRoot, Node, Pool!Node
  <1>5. QED
    BY <1>2, <1>4

\* The snark s proves the claims of the task t, in their order, and its positions.
Answers(s, t) ==
    /\ Pool!SnarkOK(s)
    /\ s.depth = t.params.depth /\ s.start = t.start /\ s.end = t.end
    /\ s.vk = VK /\ s.root = RootIn[t.request]
    /\ \A k \in 1 .. NumProofs(t) : s.slots[k] = t.claims[k]

LEMMA ClaimsOfTask ==
  ASSUME NEW t, Planned(t)
  PROVE  /\ t.claims \in Seq(Claims) /\ Len(t.claims) = NumProofs(t)
         /\ NumProofs(t) \in Nat /\ NumProofs(t) # 0
         /\ NumProofs(t) <= Capacity(t.params.depth)
         /\ Capacity(t.params.depth) \in Nat
         /\ \A k \in 1 .. NumProofs(t) :
               /\ t.claims[k] \in Claims
               /\ \E j \in 1 .. NumClaims(t.request) :
                     t.claims[k] = ClaimsOf[t.request][j]
  <1> DEFINE Q == ClaimsOf[t.request]
             a == t.start
             b == t.end
  <1>1. /\ a \in Nat /\ b \in Nat /\ b <= Len(Q) /\ Len(Q) \in Nat
        /\ b - a \in 1 .. Capacity(t.params.depth)
    BY TaskTreeAssumption DEF Planned, NumClaims, NumProofs
  <1>2. Q \in Seq(Claims) /\ t.claims = SubSeq(Q, a + 1, b)
    BY TaskTreeAssumption DEF Planned
  <1>3. Capacity(t.params.depth) \in Nat
    BY Capacities DEF Planned, Shapes
  <1> HIDE DEF Q, a, b
  <1>4. \A i \in a + 1 .. b : i \in 1 .. Len(Q) /\ Q[i] \in Claims
    BY <1>1, <1>2
  <1>5. a + 1 \in Int /\ b \in Int /\ a + 1 <= b /\ b - (a + 1) + 1 = b - a
    BY <1>1, <1>3
  <1>6. /\ t.claims \in Seq(Claims) /\ Len(t.claims) = b - a
        /\ \A k \in 1 .. b - a : t.claims[k] = Q[(a + 1) + k - 1]
    BY <1>2, <1>4, <1>5, SubSeqProperties
  <1>7. ASSUME NEW k \in 1 .. b - a
        PROVE  (a + 1) + k - 1 \in a + 1 .. b
    BY <1>1, <1>3
  <1>8. ASSUME NEW k \in 1 .. b - a
        PROVE  t.claims[k] \in Claims /\ \E j \in 1 .. Len(Q) : t.claims[k] = Q[j]
    BY <1>4, <1>6, <1>7
  <1>9. b - a \in Nat /\ b - a # 0 /\ b - a <= Capacity(t.params.depth)
    BY <1>1, <1>3
  <1>10. QED
    BY <1>3, <1>6, <1>8, <1>9, Zenon DEF NumProofs, NumClaims, Q, a, b

\* A leaf task's witness is one a leaf circuit accepts exactly when the claims of
\* the task were proved; the padding repeats one of them.
LEMMA LeafTask ==
  ASSUME NEW t, Planned(t), t.params.node_type = "Leaf", NEW snarks
  PROVE  /\ Honest(t.request) => Provable(t, snarks)
         /\ Provable(t, snarks) => Answers(ProofOf(t, snarks), t)
  <1> DEFINE w == LeafWitness(t)
             c == Capacity(INITIAL_DEPTH)
  <1>1. /\ t.params.depth = INITIAL_DEPTH /\ t.request \in Requests
        /\ t.start \in Nat /\ t.end \in Nat /\ c \in Nat
        /\ t.end - t.start \in Nat /\ t.end - t.start # 0 /\ t.end - t.start <= c
    BY ClaimsOfTask, CircuitAssumption, Capacities DEF Planned, NumProofs
  <1>2. t.claims \in Seq(Claims) /\ Len(t.claims) = t.end - t.start
    BY ClaimsOfTask DEF NumProofs
  <1>3. w.vk = VK /\ w.root = RootIn[t.request] /\ w.start = t.start /\ w.end = t.end
    BY DEF LeafWitness
  <1>4. w.slots = [s \in 1 .. c |->
                      IF s <= Len(t.claims) THEN t.claims[s] ELSE t.claims[1]]
    BY DEF LeafWitness
  <1>5. /\ Provable(t, snarks) <=> Len(t.claims) = Count(t) /\ LeafAccepts(w)
        /\ ProofOf(t, snarks) = LeafSnark(w)
    BY DEF Provable, ProofOf
  <1> HIDE DEF w, c
  <1>6. w.slots \in Seq(Claims) /\ Len(w.slots) = c /\ DOMAIN w.slots = 1 .. c
    <2>1. \A s \in 1 .. c : w.slots[s] \in Claims
      BY <1>1, <1>2, <1>4
    <2>2. w.slots \in [1 .. c -> Claims]
      BY <1>4, <2>1
    <2>3. w.slots \in Seq(Claims)
      BY <1>1, <2>2, SeqDef
    <2>4. QED
      BY <1>1, <2>2, <2>3, LenProperties
  <1>7. ASSUME Honest(t.request) PROVE LeafAccepts(w)
    <2>1. ASSUME NEW k \in 1 .. t.end - t.start
          PROVE  t.claims[k] \in Proven[<<VK, RootIn[t.request]>>]
      BY <1>7, ClaimsOfTask DEF Honest, NumProofs
    <2>2. ASSUME NEW s \in DOMAIN w.slots
          PROVE  w.slots[s] \in Proven[<<w.vk, w.root>>]
      <3>1. s \in 1 .. c
        BY <1>6
      <3>2. 1 \in 1 .. t.end - t.start
            /\ (s <= t.end - t.start => s \in 1 .. t.end - t.start)
        BY <1>1, <3>1
      <3>3. \E k \in 1 .. t.end - t.start : w.slots[s] = t.claims[k]
        BY <1>2, <1>4, <3>1, <3>2
      <3>4. QED
        BY <1>3, <2>1, <3>3
    <2>3. w.start < w.end /\ Count(w) <= c
      BY <1>1, <1>3 DEF Count
    <2>4. QED
      BY <1>6, <2>2, <2>3 DEF LeafAccepts, c
  <1>8. ASSUME LeafAccepts(w) PROVE Answers(LeafSnark(w), t)
    <2> DEFINE s == LeafSnark(w)
    <2>1. w \in LeafInput
      <3>1. w = [vk |-> w.vk, root |-> w.root, start |-> w.start, end |-> w.end,
                 slots |-> w.slots]
        BY DEF w, LeafWitness
      <3>2. w.vk \in VKeys /\ w.root \in Roots
        BY <1>1, <1>3, TaskTreeAssumption
      <3>3. QED
        BY <1>1, <1>3, <1>6, <3>1, <3>2 DEF LeafInput
    <2>2. Pool!SnarkOK(s)
      BY <1>8, <2>1, LeafOfPool
    <2>3. /\ s.depth = INITIAL_DEPTH /\ s.start = w.start /\ s.end = w.end
          /\ s.vk = w.vk /\ s.root = w.root /\ s.slots = w.slots
      BY DEF LeafSnark
    <2> HIDE DEF s
    <2>4. ASSUME NEW k \in 1 .. t.end - t.start PROVE s.slots[k] = t.claims[k]
      <3>1. k \in 1 .. c /\ k <= Len(t.claims)
        BY <1>1, <1>2
      <3>2. QED
        BY <1>4, <2>3, <3>1
    <2>5. QED
      BY <1>1, <1>3, <2>2, <2>3, <2>4 DEF Answers, NumProofs, s
  <1>9. QED
    BY <1>2, <1>5, <1>7, <1>8 DEF Count

\* The snarks a node's prover is given are those of its pieces, in order.
LEMMA ResultsInOrder ==
  ASSUME NEW t, Planned(t), ~ IsLeafTask(t)
  PROVE  /\ Results(t) = [k \in 1 .. Pieces(t) |-> proof[Piece(t, Half(t), k)]]
         /\ Len(Results(t)) = Pieces(t)
         /\ \A k \in 1 .. Pieces(t) : Piece(t, Half(t), k) \in DependencySet(t)
  <1> DEFINE R == Results(t)
  <1>1. /\ Dependencies(t) = [k \in 1 .. Pieces(t) |-> Piece(t, Half(t), k)]
        /\ DOMAIN Dependencies(t) = 1 .. Pieces(t) /\ Pieces(t) \in Nat
    BY Cut
  <1>2. R = [k \in 1 .. Pieces(t) |-> proof[Piece(t, Half(t), k)]]
    BY <1>1 DEF Results
  <1> HIDE DEF R
  <1>3. R = [k \in 1 .. Pieces(t) |-> R[k]]
    BY <1>2
  <1>4. Len(R) = Pieces(t)
    BY <1>1, <1>3, FunctionLength
  <1>5. QED
    BY <1>1, <1>2, <1>4 DEF R, DependencySet

LEMMA FirstPiece ==
  ASSUME NEW t, Planned(t), ~ IsLeafTask(t)
  PROVE  LET d == Piece(t, Half(t), 1)
         IN  /\ d.request = t.request /\ d.params = Child(t.params)
             /\ d.start = t.start /\ d.end = EndOfPiece(t, 1)
             /\ \A i \in 1 .. NumProofs(d) :
                   d.claims[i] = t.claims[d.start - t.start + i]
  <1> DEFINE d == Piece(t, Half(t), 1)
  <1>1. 1 \in 1 .. Pieces(t)
    BY Cut
  <1>2. /\ d.request = t.request /\ d.params = Child(t.params)
        /\ d.start = (IF 1 = 1 THEN t.start ELSE t.start + Half(t))
        /\ d.end = EndOfPiece(t, 1)
        /\ \A i \in 1 .. NumProofs(d) : d.claims[i] = t.claims[d.start - t.start + i]
    BY <1>1, PiecePlanned, Zenon
  <1>3. QED
    BY <1>2, Zenon

\* An Evm node's one piece is the whole task.
LEMMA EvmTask ==
  ASSUME NEW t, Planned(t), t.params.node_type = "Evm",
         \A d \in DependencySet(t) : Answers(proof[d], d)
  PROVE  Provable(t, Results(t)) /\ Answers(ProofOf(t, Results(t)), t)
  <1>1. ~ IsLeafTask(t)
    BY DEF IsLeafTask, Planned, Shapes
  <1> DEFINE d == Piece(t, Half(t), 1)
  <1>2. /\ Pieces(t) = 1 /\ NumProofs(t) <= Half(t)
        /\ d \in DependencySet(t)
        /\ Len(Results(t)) = 1 /\ Results(t)[1] = proof[d]
    BY <1>1, Cut, ResultsInOrder DEF Pieces
  <1>3. /\ d.request = t.request /\ d.params = Child(t.params)
        /\ d.start = t.start /\ d.end = EndOfPiece(t, 1)
        /\ \A i \in 1 .. NumProofs(d) : d.claims[i] = t.claims[d.start - t.start + i]
    BY <1>1, FirstPiece, Zenon
  <1>4. Answers(proof[d], d)
    BY <1>2
  <1> HIDE DEF d
  <1>5. /\ d.end = t.end /\ d.params.depth = t.params.depth
        /\ Half(t) \in Nat /\ NumProofs(t) \in Nat
    BY <1>1, <1>2, <1>3, Cut, ChildRoom DEF EndOfPiece
  <1>6. \A i \in 1 .. NumProofs(t) : d.claims[i] = t.claims[i]
    <2>1. t.start \in Nat /\ NumProofs(d) = NumProofs(t)
      BY <1>3, <1>5 DEF Planned, NumProofs
    <2>2. \A i \in 1 .. NumProofs(t) : d.start - t.start + i = i
      BY <1>3, <1>5, <2>1
    <2>3. QED
      BY <1>3, <2>1, <2>2
  <1>7. Answers(proof[d], t)
    BY <1>3, <1>4, <1>5, <1>6 DEF Answers, NumProofs
  <1>8. QED
    BY <1>2, <1>7 DEF Provable, ProofOf

\* Two pieces, or one and its clone, are what the circuit of their parent joins.
LEMMA JoinTask ==
  ASSUME NEW t, Planned(t), t.params.node_type \notin {"Leaf", "Evm"},
         \A d \in DependencySet(t) : Answers(proof[d], d)
  PROVE  Provable(t, Results(t)) /\ Answers(ProofOf(t, Results(t)), t)
  <1> DEFINE c == Half(t)
             n == t.end - t.start
             d1 == Piece(t, Half(t), 1)
             d2 == Piece(t, Half(t), IF Pieces(t) = 2 THEN 2 ELSE 1)
             left == proof[d1]
             right == proof[d2]
  <1>1. ~ IsLeafTask(t)
    BY DEF IsLeafTask, Planned, Shapes
  <1>2. /\ c \in Nat /\ c # 0 /\ n \in Nat /\ n # 0 /\ n <= c + c
        /\ Pieces(t) = IF n <= c THEN 1 ELSE 2
        /\ t.start \in Nat /\ t.end \in Nat
    BY <1>1, Cut DEF NumProofs, Pieces, Planned
  <1>3. d1 \in DependencySet(t) /\ d2 \in DependencySet(t)
    BY <1>1, <1>2, ResultsInOrder
  <1>4. /\ Len(Results(t)) = Pieces(t)
        /\ WithDummy(Results(t))[1] = left /\ WithDummy(Results(t))[2] = right
    <2>1. /\ Len(Results(t)) = Pieces(t) /\ Results(t)[1] = left
          /\ Pieces(t) = 2 => Results(t)[2] = right
          /\ Pieces(t) = 1 => right = left
      <3>1. 1 \in 1 .. Pieces(t) /\ (Pieces(t) = 2 => 2 \in 1 .. Pieces(t))
        BY <1>2
      <3>2. /\ Results(t) = [k \in 1 .. Pieces(t) |-> proof[Piece(t, Half(t), k)]]
            /\ Len(Results(t)) = Pieces(t)
        BY <1>1, ResultsInOrder
      <3>3. QED
        BY <3>1, <3>2
    <2>2. CASE Pieces(t) = 2
      BY <2>1, <2>2 DEF WithDummy
    <2>3. CASE Pieces(t) = 1
      <3>1. WithDummy(Results(t)) = <<Results(t)[1], Results(t)[1]>>
        BY <2>1, <2>3 DEF WithDummy
      <3>2. QED
        BY <2>1, <2>3, <3>1
    <2>4. QED
      BY <1>2, <2>1, <2>2, <2>3
  <1>5. /\ d1.request = t.request /\ d1.params = Child(t.params)
        /\ d1.start = t.start /\ d1.end = EndOfPiece(t, 1)
        /\ \A i \in 1 .. NumProofs(d1) : d1.claims[i] = t.claims[d1.start - t.start + i]
    BY <1>1, FirstPiece, Zenon
  <1>6. /\ d2.request = t.request /\ d2.params = Child(t.params)
        /\ d2.start = (IF Pieces(t) = 2 THEN t.start + c ELSE t.start)
        /\ d2.end = t.end
        /\ \A i \in 1 .. NumProofs(d2) : d2.claims[i] = t.claims[d2.start - t.start + i]
    <2>1. CASE Pieces(t) = 2
      <3>1. 2 \in 1 .. Pieces(t) /\ d2 = Piece(t, Half(t), 2) /\ EndOfPiece(t, 2) = t.end
        BY <2>1 DEF EndOfPiece
      <3>2. LET d == Piece(t, Half(t), 2)
            IN  /\ d.request = t.request /\ d.params = Child(t.params)
                /\ d.start = (IF 2 = 1 THEN t.start ELSE t.start + Half(t))
                /\ d.end = EndOfPiece(t, 2)
                /\ \A i \in 1 .. NumProofs(d) :
                      d.claims[i] = t.claims[d.start - t.start + i]
        BY <1>1, <3>1, PiecePlanned, Zenon
      <3>3. QED
        BY <2>1, <3>1, <3>2
    <2>2. CASE Pieces(t) = 1
      <3>1. d2 = d1 /\ EndOfPiece(t, 1) = t.end
        BY <1>2, <2>2 DEF EndOfPiece, NumProofs
      <3>2. QED
        BY <1>5, <2>2, <3>1
    <2>3. QED
      BY <1>2, <2>1, <2>2
  <1>7. Answers(left, d1) /\ Answers(right, d2)
    BY <1>3
  <1>8. /\ Child(t.params).depth = t.params.depth - 1
        /\ t.params.depth \in Nat /\ t.params.depth <= MAX_DEPTH
        /\ Capacity(t.params.depth - 1) = c
        /\ MAX_DEPTH \in Nat
    <2>1. Child(t.params).depth = t.params.depth - 1
      BY <1>1, ChildRoom
    <2>2. t.params.depth \in INITIAL_DEPTH .. MAX_DEPTH
      BY DEF Planned, Shapes
    <2>3. QED
      BY <2>1, <2>2, CircuitAssumption DEF Half
  <1>9. d1.end = IF n <= c THEN t.end ELSE t.start + c
    BY <1>2, <1>5 DEF EndOfPiece, NumProofs
  <1> HIDE DEF c, n, d1, d2
  <1>10. /\ left.depth = t.params.depth - 1 /\ left.start = t.start
         /\ left.end = (IF n <= c THEN t.end ELSE t.start + c)
         /\ left.vk = VK /\ left.root = RootIn[t.request]
         /\ Pool!SnarkOK(left)
         /\ \A k \in 1 .. NumProofs(d1) : left.slots[k] = d1.claims[k]
    BY <1>5, <1>7, <1>8, <1>9 DEF Answers
  <1>11. /\ right.depth = t.params.depth - 1
         /\ right.start = (IF n <= c THEN t.start ELSE t.start + c)
         /\ right.end = t.end
         /\ right.vk = VK /\ right.root = RootIn[t.request]
         /\ Pool!SnarkOK(right)
         /\ \A k \in 1 .. NumProofs(d2) : right.slots[k] = d2.claims[k]
    BY <1>2, <1>6, <1>7, <1>8 DEF Answers
  <1> HIDE DEF left, right
  <1>12. /\ Count(left) = (IF n <= c THEN n ELSE c)
         /\ Count(right) = (IF n <= c THEN n ELSE n - c)
    BY <1>2, <1>10, <1>11 DEF Count, n
  <1>13. IsSecondDummy(left, Count(t)) <=> n <= c
    BY <1>8, <1>10 DEF IsSecondDummy, Count, n
  <1>14. JoinedEnd(left, right, Count(t)) = t.end
    BY <1>10, <1>11, <1>13 DEF JoinedEnd
  <1>15. JoinAccepts(left, right, Count(t))
    <2>1. Count(t) = n /\ n # 0
      BY <1>2 DEF Count, n
    <2>2. Count(left) \in 0 .. c /\ Count(right) \in 0 .. c
      BY <1>2, <1>12
    <2>3. IsSecondDummy(left, Count(t)) \/ (left.end = right.start /\ Count(left) = c)
      BY <1>10, <1>11, <1>12, <1>13
    <2>4. Count(t) = JoinedEnd(left, right, Count(t)) - left.start
      BY <1>10, <1>14 DEF Count
    <2>5. left.depth = right.depth /\ left.depth < MAX_DEPTH
      BY <1>8, <1>10, <1>11
    <2>6. Capacity(left.depth) = c
      BY <1>8, <1>10
    <2>7. QED
      BY <1>10, <1>11, <2>1, <2>2, <2>3, <2>4, <2>5, <2>6 DEF JoinAccepts
  <1>16. /\ Provable(t, Results(t))
         /\ ProofOf(t, Results(t)) = JoinSnark(left, right, Count(t))
    <2>1. Len(Results(t)) \in {1, 2}
      BY <1>2, <1>4
    <2>2. QED
      BY <1>4, <1>15, <2>1 DEF Provable, ProofOf
  <1> DEFINE s == JoinSnark(left, right, Count(t))
  <1>17. Pool!SnarkOK(s)
    <2>1. Count(t) \in Nat
      BY <1>2 DEF Count, n
    <2>2. QED
      BY <1>10, <1>11, <1>15, <2>1, JoinOfPool
  <1>18. /\ s.depth = left.depth + 1 /\ s.start = left.start
         /\ s.end = t.end
         /\ s.vk = left.vk /\ s.root = left.root /\ s.slots = left.slots \o right.slots
    BY <1>14 DEF JoinSnark
  <1> HIDE DEF s
  <1>19. ASSUME NEW k \in 1 .. n PROVE s.slots[k] = t.claims[k]
    <2>1. /\ left.slots \in Seq(Claims) /\ Len(left.slots) = c
          /\ right.slots \in Seq(Claims) /\ Len(right.slots) = c
      <3>1. \A d : Pool!Capacity(d) = Capacity(d)
        BY Zenon DEF Capacity, Pool!Capacity
      <3>2. QED
        BY <1>8, <1>10, <1>11, <3>1 DEF Pool!SnarkOK, Pool!SnarkTyped
    <2>2. Joined(left.slots, right.slots, c, c)
      BY <1>2, <2>1, ConcatJoins, Zenon
    <2>3. CASE k <= c
      <3>1. k \in 1 .. c /\ k \in 1 .. NumProofs(d1) /\ d1.start - t.start + k = k
        BY <1>2, <1>5, <1>9, <2>3 DEF NumProofs, n
      <3>2. s.slots[k] = left.slots[k]
        BY <1>18, <2>2, <3>1 DEF Joined
      <3>3. QED
        BY <1>5, <1>10, <3>1, <3>2
    <2>4. CASE ~(k <= c)
      <3>1. /\ ~(n <= c) /\ k - c \in 1 .. c /\ c + (k - c) = k
            /\ k - c \in 1 .. NumProofs(d2) /\ d2.start - t.start + (k - c) = k
        BY <1>2, <1>6, <2>4 DEF NumProofs, n
      <3>2. s.slots[k] = right.slots[k - c]
        BY <1>18, <2>2, <3>1 DEF Joined
      <3>3. QED
        BY <1>6, <1>11, <3>1, <3>2
    <2>5. QED
      BY <2>3, <2>4
  <1>20. Answers(s, t)
    <2>1. s.depth = t.params.depth
      BY <1>8, <1>10, <1>18
    <2>2. s.start = t.start /\ s.end = t.end /\ s.vk = VK /\ s.root = RootIn[t.request]
      BY <1>10, <1>18
    <2>3. QED
      BY <1>17, <1>19, <2>1, <2>2 DEF Answers, NumProofs, n
  <1>21. QED
    BY <1>16, <1>20 DEF s

-----------------------------------------------------------------------------
(* The jobs and the proofs the dispatcher has of them.                     *)

\* A task has a job only once its dependencies are obtained, and is past the
\* polling only once the job is done.
JobsFollow ==
    \A t \in AllTasks :
        /\ at[t] \in {"absent", "waiting"} => job[t] = "none"
        /\ at[t] \in {"fetching", "recording", "done"} => job[t] = "DONE"
        /\ job[t] # "none" => DependencySet(t) \subseteq Obtained

\* What a job that is done has proved is the task it is the job of.
ProofsAnswer ==
    /\ DOMAIN proof = AllTasks
    /\ \A t \in AllTasks : job[t] = "DONE" => Answers(proof[t], t)

FInv == GInv /\ JobsFollow /\ ProofsAnswer

LEMMA WitnessOfJob ==
  ASSUME JobsFollow, ProofsAnswer, NEW t \in AllTasks, job[t] # "none"
  PROVE  /\ Honest(t.request) => Provable(t, Results(t))
         /\ Provable(t, Results(t)) => Answers(ProofOf(t, Results(t)), t)
  <1>1. Planned(t)
    BY TasksPlanned
  <1>2. \A d \in DependencySet(t) : Answers(proof[d], d)
    BY TreesClosed DEF JobsFollow, ProofsAnswer, Obtained
  <1>3. CASE t.params.node_type = "Leaf"
    BY <1>1, <1>3, LeafTask
  <1>4. CASE t.params.node_type = "Evm"
    BY <1>1, <1>2, <1>4, EvmTask
  <1>5. CASE t.params.node_type \notin {"Leaf", "Evm"}
    BY <1>1, <1>2, <1>5, JoinTask
  <1>6. QED
    BY <1>3, <1>4, <1>5

\* A step of a task's future never takes back what a job did.
LEMMA FutureKeepsJobs ==
  ASSUME FInv, NEW t \in AllTasks, NEW w \in Places \ {"absent", "waiting"},
         at[t] # "done", at' = [at EXCEPT ![t] = w], proof' = proof,
         \/ job' = job
         \/ /\ at[t] = "waiting" /\ DependencySet(t) \subseteq Obtained
            /\ job' = [job EXCEPT ![t] = "RUNNING"],
         w \in {"fetching", "recording", "done"} => job' = job /\ job[t] = "DONE"
  PROVE  JobsFollow' /\ ProofsAnswer'
  <1>1. /\ \A u \in AllTasks : at'[u] = IF u = t THEN w ELSE at[u]
        /\ \A u \in AllTasks : job'[u] = job[u] \/ (u = t /\ job'[u] = "RUNNING")
    BY DEF FInv, GInv, IInv, TypeOK
  <1>2. Obtained \subseteq Obtained'
    BY <1>1 DEF Obtained
  <1>3. JobsFollow'
    <2> SUFFICES ASSUME NEW u \in AllTasks
                 PROVE  /\ at'[u] \in {"absent", "waiting"} => job'[u] = "none"
                        /\ at'[u] \in {"fetching", "recording", "done"}
                              => job'[u] = "DONE"
                        /\ job'[u] # "none" => DependencySet(u) \subseteq Obtained'
      BY DEF JobsFollow
    <2>1. CASE u # t
      BY <1>1, <1>2, <2>1 DEF FInv, JobsFollow
    <2>2. CASE u = t
      <3>1. job'[t] # "none" => DependencySet(t) \subseteq Obtained
        BY <1>1 DEF FInv, JobsFollow
      <3>2. QED
        BY <1>1, <1>2, <2>2, <3>1 DEF FInv, JobsFollow
    <2>3. QED
      BY <2>1, <2>2
  <1>4. ProofsAnswer'
    <2>1. \A u \in AllTasks : job'[u] = "DONE" => job[u] = "DONE"
      BY <1>1
    <2>2. QED
      BY <2>1 DEF FInv, ProofsAnswer
  <1>5. QED
    BY <1>3, <1>4

LEMMA JobsKept ==
  ASSUME FInv, NEW t \in AllTasks, TaskStep(t) \/ FinishJob(t)
  PROVE  JobsFollow' /\ ProofsAnswer'
  <1> USE DEF FInv, GInv
  <1>1. CASE Submit(t)
    <2>1. PICK w \in {"proving", "failed"} : at' = [at EXCEPT ![t] = w]
      BY <1>1 DEF Submit
    <2>2. DependencySet(t) \subseteq Obtained
      BY <1>1, TreesClosed DEF Submit, Ready, Finished, Obtained
    <2>3. /\ at[t] = "waiting" /\ proof' = proof
          /\ job' = job \/ job' = [job EXCEPT ![t] = "RUNNING"]
      BY <1>1 DEF Submit, Ready
    <2>4. QED
      BY <2>1, <2>2, <2>3, FutureKeepsJobs DEF Places
  <1>2. CASE Poll(t) \/ Fetch(t) \/ Record(t) \/ FailWithDependency(t)
    <2>1. PICK w \in {"fetching", "recording", "done", "failed"} :
             /\ at' = [at EXCEPT ![t] = w]
             /\ w \in {"fetching", "recording", "done"} => job[t] = "DONE"
      BY <1>2 DEF Poll, Fetch, Record, FailWithDependency, JobsFollow
    <2>2. at[t] # "done" /\ job' = job /\ proof' = proof
      BY <1>2 DEF Poll, Fetch, Record, FailWithDependency
    <2>3. QED
      BY <2>1, <2>2, FutureKeepsJobs DEF Places
  <1>3. CASE FinishJob(t)
    <2>1. job[t] = "RUNNING" /\ at' = at
      BY <1>3 DEF FinishJob
    <2>2. at[t] \notin {"absent", "waiting", "fetching", "recording", "done"}
      BY <2>1 DEF JobsFollow
    <2>3. Obtained' = Obtained
      BY <2>1 DEF Obtained
    <2>4. CASE /\ Provable(t, Results(t))
               /\ job' = [job EXCEPT ![t] = "DONE"]
               /\ proof' = [proof EXCEPT ![t] = ProofOf(t, Results(t))]
      <3>1. Answers(ProofOf(t, Results(t)), t)
        BY <2>1, <2>4, WitnessOfJob
      <3>2. /\ \A u \in AllTasks : job'[u] = IF u = t THEN "DONE" ELSE job[u]
            /\ \A u \in AllTasks :
                  proof'[u] = IF u = t THEN ProofOf(t, Results(t)) ELSE proof[u]
            /\ DOMAIN proof' = AllTasks
        BY <2>4 DEF IInv, TypeOK, ProofsAnswer
      <3>3. JobsFollow'
        BY <2>1, <2>2, <2>3, <3>2 DEF JobsFollow
      <3>4. ProofsAnswer'
        BY <3>1, <3>2 DEF ProofsAnswer
      <3>5. QED
        BY <3>3, <3>4
    <2>5. CASE job' = [job EXCEPT ![t] = "FAILED"] /\ UNCHANGED proof
      <3>1. \A u \in AllTasks : job'[u] = IF u = t THEN "FAILED" ELSE job[u]
        BY <2>5 DEF IInv, TypeOK
      <3>2. JobsFollow'
        BY <2>1, <2>2, <2>3, <3>1 DEF JobsFollow
      <3>3. ProofsAnswer'
        BY <2>5, <3>1 DEF ProofsAnswer
      <3>4. QED
        BY <3>2, <3>3
    <2>6. QED
      BY <1>3, <2>4, <2>5 DEF FinishJob
  <1>4. QED
    BY <1>1, <1>2, <1>3 DEF TaskStep

\* The server's steps leave the jobs alone, and start no future again.
LEMMA ServerKeepsJobs ==
  ASSUME FInv, NEW r \in Requests, RequestStep(r) \/ Send(r)
  PROVE  JobsFollow' /\ ProofsAnswer'
  <1>1. /\ UNCHANGED <<job, proof>>
        /\ \A t \in AllTasks :
              at'[t] = at[t] \/ (at'[t] = "waiting" /\ at[t] = "absent")
    BY DEF FInv, GInv, IInv, NotStarted, RequestStep, Accept, Refuse, Lose,
           StartSending, Send, SendConfirmed, SendDropped, SendFails
  <1>2. Obtained' = Obtained
    BY <1>1 DEF Obtained
  <1>3. QED
    BY <1>1, <1>2 DEF FInv, JobsFollow, ProofsAnswer

LEMMA FInvariant == Spec => []FInv
  <1>1. Init => FInv
    <2> SUFFICES ASSUME Init PROVE FInv
      OBVIOUS
    <2>1. JobsFollow
      BY DEF Init, JobsFollow
    <2>2. ProofsAnswer
      BY DEF Init, ProofsAnswer
    <2>3. QED
      BY <2>1, <2>2, GInitially DEF FInv
  <1>2. FInv /\ [Next]_vars => FInv'
    <2> SUFFICES ASSUME FInv, [Next]_vars PROVE FInv'
      OBVIOUS
    <2>1. GInv'
      BY StepMaps DEF FInv
    <2>2. ASSUME NEW t \in AllTasks, TaskStep(t) \/ FinishJob(t) PROVE FInv'
      BY <2>1, <2>2, JobsKept DEF FInv
    <2>3. ASSUME NEW r \in Requests, RequestStep(r) \/ Send(r) PROVE FInv'
      BY <2>1, <2>3, ServerKeepsJobs DEF FInv
    <2>4. CASE UNCHANGED vars
      BY <2>1, <2>4 DEF vars, FInv, JobsFollow, ProofsAnswer, Obtained
    <2>5. QED
      BY <2>2, <2>3, <2>4 DEF Next
  <1>3. QED
    BY <1>1, <1>2, PTL DEF Spec

\* Whatever the size of a request and the order its tasks end in, the circuits
\* accept every witness put together for it, when its claims are good.
THEOREM EveryWitnessFits == Spec => []WitnessesFit
  <1>1. FInv => WitnessesFit
    BY WitnessOfJob DEF FInv, WitnessesFit
  <1>2. QED
    BY <1>1, FInvariant, PTL

-----------------------------------------------------------------------------
(* What the tracker has recorded, and what a request that ended leaves.    *)

\* The tracker lists the obtained tasks of each request, once, each after those
\* it depends on.
TrackerInOrder ==
    /\ \A t \in AllTasks :
          at[t] = "done" <=> \E k \in DOMAIN recorded[t.request] :
                                recorded[t.request][k] = t
    /\ \A r \in Requests : \A k \in DOMAIN recorded[r] :
          /\ recorded[r][k].request = r
          /\ \A j \in DOMAIN recorded[r] : recorded[r][j] = recorded[r][k] => j = k
          /\ \A d \in DependencySet(recorded[r][k]) :
                \E j \in 1 .. k - 1 : recorded[r][j] = d

Ended(t) == Finished(t) \/ Failed(t)

\* A future goes on when the futures below it have ended, and a request when its
\* top task's has.
EndedBelow ==
    /\ \A t \in AllTasks : at[t] \notin {"absent", "waiting"} =>
          \A d \in DependencySet(t) : Ended(d)
    /\ \A r \in Requests : phase[r] \notin {"new", "rejected", "running"} =>
          Admissible(r) /\ Ended(Top(r))
    /\ \A r \in Sent : Finished(Top(r))

\* The summary q of the request r lists all its tasks, once and in order.
SummaryTells(r, q) ==
    /\ Len(q) = Cardinality(Tree(r))
    /\ \A t \in Tree(r) : \E k \in DOMAIN q :
          /\ q[k] = t
          /\ \A d \in DependencySet(t) : \E j \in 1 .. k - 1 : q[j] = d
SummariesWritten == \A r \in Sent : SummaryTells(r, summary[r])

EInv == FInv /\ TrackerInOrder /\ EndedBelow /\ SummariesWritten

\* Ended tasks stay so, and a finished one stays finished.
Onward ==
    \A t \in AllTasks : /\ Finished(t) => Finished(t)'
                        /\ Failed(t) => Failed(t)'

LEMMA TaskStepEnds ==
  ASSUME EInv, NEW t \in AllTasks, TaskStep(t) \/ FinishJob(t)
  PROVE  /\ UNCHANGED server
         /\ Onward
         /\ \A u \in AllTasks : at'[u] \notin {"absent", "waiting"} =>
               \A d \in DependencySet(u) : Ended(d)
  <1> USE DEF EInv, FInv, GInv
  <1>1. CASE FinishJob(t)
    BY <1>1 DEF FinishJob, Onward, Finished, Failed, EndedBelow
  <1>2. CASE TaskStep(t)
    <2>1. PICK w \in Places : at' = [at EXCEPT ![t] = w]
      BY <1>2 DEF TaskStep, FailWithDependency, Submit, Poll, Fetch, Record, Places
    <2>2. at[t] \notin {"done", "failed"} /\ UNCHANGED server
      BY <1>2 DEF TaskStep, FailWithDependency, Submit, Ready, Poll, Fetch, Record
    <2>3. \A u \in AllTasks : at'[u] = IF u = t THEN w ELSE at[u]
      BY <2>1 DEF IInv, TypeOK
    <2>4. \A d \in DependencySet(t) : Ended(d)
      <3>1. CASE at[t] = "waiting"
        BY <1>2, <3>1 DEF TaskStep, FailWithDependency, Submit, Ready, Poll, Fetch,
                          Record, Ended
      <3>2. CASE at[t] # "waiting"
        <4>1. at[t] # "absent"
          BY <1>2 DEF TaskStep, FailWithDependency, Submit, Ready, Poll, Fetch, Record
        <4>2. QED
          BY <3>2, <4>1 DEF EndedBelow
      <3>3. QED
        BY <3>1, <3>2
    <2>5. Onward
      BY <2>2, <2>3 DEF Onward, Finished, Failed
    <2>6. QED
      BY <2>2, <2>3, <2>4, <2>5 DEF EndedBelow
  <1>3. QED
    BY <1>1, <1>2

LEMMA TaskStepKeepsEnded ==
  ASSUME EInv, NEW t \in AllTasks, TaskStep(t) \/ FinishJob(t)
  PROVE  EndedBelow' /\ SummariesWritten'
  <1>1. /\ UNCHANGED <<phase, summary>> /\ Onward
        /\ \A u \in AllTasks : at'[u] \notin {"absent", "waiting"} =>
              \A d \in DependencySet(u) : Ended(d)
    BY TaskStepEnds DEF server
  <1>2. \A u \in AllTasks : Ended(u) => Ended(u)'
    BY <1>1 DEF Onward, Ended
  <1>3. Sent' = Sent
    BY <1>1 DEF Sent
  <1>4. SummariesWritten'
    BY <1>1, <1>3 DEF EInv, SummariesWritten
  <1>5. EndedBelow'
    <2>1. \A u \in AllTasks : at'[u] \notin {"absent", "waiting"} =>
             \A d \in DependencySet(u) : Ended(d)'
      BY <1>1, <1>2, TreesClosed
    <2>2. \A r \in Requests : phase'[r] \notin {"new", "rejected", "running"} =>
             Admissible(r) /\ Ended(Top(r))'
      BY <1>1, <1>2, TreesClosed DEF EInv, EndedBelow
    <2>3. \A r \in Sent : Admissible(r)
      BY DEF EInv, EndedBelow, Sent
    <2>4. \A r \in Sent' : Finished(Top(r))'
      BY <1>1, <1>3, <2>3, TreesClosed DEF EInv, EndedBelow, Onward, Sent
    <2>5. QED
      BY <2>1, <2>2, <2>4 DEF EndedBelow, Admissible, NumClaims
  <1>6. QED
    BY <1>4, <1>5

\* Recording a task puts it behind its dependencies, which are recorded already.
LEMMA TaskStepKeepsOrder ==
  ASSUME EInv, NEW t \in AllTasks, TaskStep(t) \/ FinishJob(t)
  PROVE  TrackerInOrder'
  <1> USE DEF EInv, FInv, GInv
  <1>1. CASE Record(t)
    <2> DEFINE r == t.request
               q == recorded[r]
               n == Len(q)
               q1 == Append(q, t)
    <2>1. /\ at[t] = "recording" /\ at' = [at EXCEPT ![t] = "done"]
          /\ recorded' = [recorded EXCEPT ![r] = q1]
          /\ r \in Requests /\ q \in Seq(AllTasks)
      <3>1. r \in Requests
        BY TasksPlanned DEF Planned
      <3>2. QED
        BY <1>1, <3>1 DEF Record, IInv, TypeOK
    <2>2. /\ \A u \in AllTasks : at'[u] = IF u = t THEN "done" ELSE at[u]
          /\ \A s \in Requests : recorded'[s] = IF s = r THEN q1 ELSE recorded[s]
      BY <2>1 DEF IInv, TypeOK
    <2>3. /\ n \in Nat /\ DOMAIN q = 1 .. n /\ \A k \in 1 .. n : q[k] \in AllTasks
      BY <2>1, LenProperties, ElementOfSeq
    <2>4. /\ q1 \in Seq(AllTasks) /\ Len(q1) = n + 1
          /\ \A k \in 1 .. n : q1[k] = q[k]
          /\ q1[n + 1] = t
      BY <2>1, AppendProperties
    <2>5. DOMAIN q1 = 1 .. n + 1
      BY <2>4, LenProperties
    <2>6. \A k \in 1 .. n : q[k] # t
      BY <2>1, <2>3 DEF TrackerInOrder
    <2>7. \A d \in DependencySet(t) : \E j \in 1 .. n : q[j] = d
      <3>1. \A d \in DependencySet(t) : d \in AllTasks /\ at[d] = "done" /\ d.request = r
        BY <2>1, TasksPlanned, TreesClosed, DependencyPlanned DEF NeedsObtained, Obtained
      <3>2. QED
        BY <2>3, <3>1 DEF TrackerInOrder
    <2> HIDE DEF q, q1, n
    <2>8. \A k \in 1 .. n : k \in 1 .. n + 1
      BY <2>3
    <2>9. ASSUME NEW k \in 1 .. n + 1
          PROVE  k \in 1 .. n \/ k = n + 1
      BY <2>3
    <2>10. ASSUME NEW u \in AllTasks
           PROVE  at'[u] = "done" <=>
                     \E k \in DOMAIN recorded'[u.request] : recorded'[u.request][k] = u
      <3>1. u.request \in Requests
        BY TasksPlanned DEF Planned
      <3>2. CASE u = t
        <4>1. n + 1 \in 1 .. n + 1
          BY <2>3
        <4>2. QED
          BY <2>2, <2>4, <2>5, <3>1, <3>2, <4>1
      <3>3. CASE u # t /\ u.request = r
        <4>1. (\E k \in 1 .. n + 1 : q1[k] = u) <=> (\E k \in 1 .. n : q[k] = u)
          BY <2>4, <2>8, <2>9, <3>3
        <4>2. at[u] = "done" <=> \E k \in 1 .. n : q[k] = u
          BY <2>3, <3>3 DEF TrackerInOrder, q
        <4>3. QED
          BY <2>2, <2>5, <3>1, <3>3, <4>1, <4>2
      <3>4. CASE u.request # r
        BY <2>2, <3>1, <3>4 DEF TrackerInOrder
      <3>5. QED
        BY <3>2, <3>3, <3>4
    <2>11. ASSUME NEW k \in 1 .. n + 1
           PROVE  /\ q1[k].request = r
                  /\ \A j \in 1 .. n + 1 : q1[j] = q1[k] => j = k
                  /\ \A d \in DependencySet(q1[k]) : \E j \in 1 .. k - 1 : q1[j] = d
      <3>1. CASE k \in 1 .. n
        <4>1. /\ q[k].request = r
              /\ \A j \in 1 .. n : q[j] = q[k] => j = k
              /\ \A d \in DependencySet(q[k]) : \E j \in 1 .. k - 1 : q[j] = d
          <5>1. \A i \in DOMAIN q :
                   /\ q[i].request = r
                   /\ \A j \in DOMAIN q : q[j] = q[i] => j = i
                   /\ \A d \in DependencySet(q[i]) : \E j \in 1 .. i - 1 : q[j] = d
            BY <2>1 DEF TrackerInOrder, q
          <5>2. QED
            BY <2>3, <3>1, <5>1
        <4>2. \A j \in 1 .. k - 1 : j \in 1 .. n
          BY <2>3, <3>1
        <4>3. QED
          BY <2>4, <2>6, <2>9, <3>1, <4>1, <4>2
      <3>2. CASE k = n + 1
        <4>1. k - 1 = n
          BY <2>3, <3>2
        <4>2. \A j \in 1 .. n + 1 : q1[j] = t => j = n + 1
          BY <2>4, <2>6, <2>9
        <4>3. \A d \in DependencySet(t) : \E j \in 1 .. n : q1[j] = d
          BY <2>4, <2>7
        <4>4. QED
          BY <2>4, <3>2, <4>1, <4>2, <4>3
      <3>3. QED
        BY <2>9, <3>1, <3>2
    <2>12. ASSUME NEW s \in Requests, NEW k \in DOMAIN recorded'[s]
           PROVE  /\ recorded'[s][k].request = s
                  /\ \A j \in DOMAIN recorded'[s] :
                        recorded'[s][j] = recorded'[s][k] => j = k
                  /\ \A d \in DependencySet(recorded'[s][k]) :
                        \E j \in 1 .. k - 1 : recorded'[s][j] = d
      <3>1. CASE s = r
        <4>1. recorded'[s] = q1 /\ k \in 1 .. n + 1
          BY <2>2, <2>5, <3>1
        <4>2. QED
          BY <2>5, <2>11, <3>1, <4>1
      <3>2. CASE s # r
        BY <2>2, <3>2 DEF TrackerInOrder
      <3>3. QED
        BY <3>1, <3>2
    <2>13. QED
      BY <2>10, <2>12 DEF TrackerInOrder
  <1>2. CASE ~ Record(t)
    <2>1. recorded' = recorded
      BY <1>2 DEF TaskStep, FailWithDependency, Submit, Poll, Fetch, FinishJob
    <2>2. \A u \in AllTasks : at'[u] = "done" <=> at[u] = "done"
      <3>1. CASE FinishJob(t)
        BY <3>1 DEF FinishJob
      <3>2. CASE ~ FinishJob(t)
        <4>1. PICK w \in {"proving", "fetching", "recording", "failed"} :
                 at' = [at EXCEPT ![t] = w] /\ at[t] # "done"
          BY <1>2, <3>2 DEF TaskStep, FailWithDependency, Submit, Ready, Poll, Fetch
        <4>2. QED
          BY <4>1 DEF IInv, TypeOK
      <3>3. QED
        BY <3>1, <3>2
    <2>3. QED
      BY <2>1, <2>2 DEF TrackerInOrder
  <1>3. QED
    BY <1>1, <1>2

LEMMA TreeUnder ==
  ASSUME NEW r \in Requests, Admissible(r), NEW T, Top(r) \in T,
         \A u \in T : u \in AllTasks => DependencySet(u) \subseteq T
  PROVE  Tree(r) \subseteq T
  <1>1. Top(r).params = FinalParams
    BY DEF Top, Task
  <1>2. Tree(r) \subseteq AllTasks
    BY TasksPlanned
  <1>3. QED
    BY <1>1, <1>2, FinalShape, TreeReached DEF Tree

LEMMA TreeEnded ==
  ASSUME EndedBelow, NEW r \in Requests, Admissible(r), Ended(Top(r))
  PROVE  \A t \in Tree(r) : Ended(t)
  <1> DEFINE T == {t \in AllTasks : Ended(t)}
  <1>1. Top(r) \in T
    BY TasksPlanned
  <1>2. \A u \in T : DependencySet(u) \subseteq T
    BY TreesClosed DEF EndedBelow, Ended, Finished, Failed
  <1> HIDE DEF T
  <1>3. Tree(r) \subseteq T
    BY <1>1, <1>2, TreeUnder
  <1>4. QED
    BY <1>3 DEF T

LEMMA TreeObtained ==
  ASSUME NeedsObtained, NEW r \in Requests, Admissible(r), Finished(Top(r))
  PROVE  Tree(r) \subseteq Obtained
  <1>1. Top(r) \in Obtained
    BY TasksPlanned DEF Obtained, Finished
  <1>2. \A u \in Obtained : DependencySet(u) \subseteq Obtained
    BY DEF NeedsObtained, Obtained
  <1>3. QED
    BY <1>1, <1>2, TreeUnder

\* When the top task is obtained the tracker has the whole tree in order.
LEMMA TrackerComplete ==
  ASSUME TypeOK, NeedsObtained, TrackerInOrder,
         NEW r \in Requests, Admissible(r), Finished(Top(r))
  PROVE  SummaryTells(r, recorded[r])
  <1> DEFINE q == recorded[r]
  <1>1. q \in Seq(AllTasks) /\ Len(q) \in Nat /\ DOMAIN q = 1 .. Len(q)
    BY LenProperties DEF TypeOK
  <1>2. \A k \in DOMAIN q :
           /\ q[k].request = r
           /\ \A j \in DOMAIN q : q[j] = q[k] => j = k
           /\ \A d \in DependencySet(q[k]) : \E j \in 1 .. k - 1 : q[j] = d
    BY DEF TrackerInOrder
  <1>3. \A k \in DOMAIN q : q[k] \in Tree(r)
    BY <1>1, <1>2, TasksPlanned, ElementOfSeq
  <1>4. \A t \in Tree(r) : \E k \in DOMAIN q : q[k] = t
    <2>1. \A t \in Tree(r) : t \in AllTasks /\ at[t] = "done" /\ t.request = r
      BY TasksPlanned, TreeObtained DEF Obtained
    <2>2. QED
      BY <2>1 DEF TrackerInOrder
  <1> HIDE DEF q
  <1>5. Len(q) = Cardinality(Tree(r))
    <2>1. q = [k \in 1 .. Len(q) |-> q[k]]
      BY <1>1, LenProperties
    <2>2. q \in [1 .. Len(q) -> Tree(r)]
      BY <1>1, <1>3, <2>1
    <2>3. q \in Bijection(1 .. Len(q), Tree(r))
      BY <1>1, <1>2, <1>4, <2>2
         DEF Bijection, Injection, Surjection, IsInjective
    <2>4. ExistsBijection(1 .. Len(q), Tree(r))
      BY <2>3 DEF ExistsBijection
    <2>5. QED
      BY <1>1, <2>4, FS_CountingElements
  <1>6. ASSUME NEW t \in Tree(r)
        PROVE  \E k \in DOMAIN q :
                  /\ q[k] = t
                  /\ \A d \in DependencySet(t) : \E j \in 1 .. k - 1 : q[j] = d
    <2>1. PICK k \in DOMAIN q : q[k] = t
      BY <1>4
    <2>2. \A d \in DependencySet(t) : \E j \in 1 .. k - 1 : q[j] = d
      BY <1>2, <2>1, Zenon
    <2>3. QED
      BY <2>1, <2>2, Zenon
  <1>7. QED
    BY <1>5, <1>6, Zenon DEF SummaryTells, q

LEMMA ServerKeepsEnded ==
  ASSUME EInv, NEW r \in Requests, RequestStep(r) \/ Send(r)
  PROVE  TrackerInOrder' /\ EndedBelow' /\ SummariesWritten'
  <1> USE DEF EInv, FInv, GInv
  <1>1. /\ UNCHANGED recorded
        /\ \A t \in AllTasks :
              at'[t] = at[t] \/ (at'[t] = "waiting" /\ at[t] = "absent")
    BY DEF IInv, NotStarted, RequestStep, Accept, Refuse, Lose,
           StartSending, Send, SendConfirmed, SendDropped, SendFails
  <1>2. \A t \in AllTasks : /\ at'[t] = "done" <=> at[t] = "done"
                            /\ Finished(t)' <=> Finished(t)
                            /\ Ended(t)' <=> Ended(t)
    BY <1>1 DEF Finished, Failed, Ended
  <1>3. TrackerInOrder'
    <2>1. recorded' = recorded /\ \A t \in AllTasks : at'[t] = "done" <=> at[t] = "done"
      BY <1>1, <1>2
    <2>2. QED
      BY <2>1 DEF TrackerInOrder
  <1>4. PICK w \in Phases : phase' = [phase EXCEPT ![r] = w]
    <2>1. phase = [phase EXCEPT ![r] = phase[r]]
      BY DEF IInv, TypeOK
    <2>2. phase[r] \in Phases
      BY DEF IInv, TypeOK, Phases
    <2>3. QED
      BY <2>1, <2>2 DEF RequestStep, Accept, Refuse, Lose, StartSending, Send,
                        SendConfirmed, SendDropped, SendFails, Release, Phases
  <1>5. \A s \in Requests : phase'[s] = IF s = r THEN w ELSE phase[s]
    BY <1>4 DEF IInv, TypeOK
  <1>6. w \notin {"new", "rejected", "running"} => Admissible(r) /\ Ended(Top(r))
    <2>1. CASE Lose(r) \/ StartSending(r)
      BY <2>1 DEF Lose, StartSending, SummariesTell, Ended
    <2>2. CASE Send(r)
      BY <2>2 DEF Send, SendConfirmed, SendDropped, SendFails, EndedBelow
    <2>3. CASE Accept(r) \/ Refuse(r)
      <3>1. phase'[r] \in {"running", "rejected"}
        BY <2>3 DEF Accept, Refuse, IInv, TypeOK
      <3>2. QED
        BY <1>5, <3>1
    <2>4. QED
      BY <2>1, <2>2, <2>3 DEF RequestStep
  <1>7. w \in {"sending", "fulfilled", "gave up"} =>
           /\ Finished(Top(r)) /\ Admissible(r)
           /\ \/ summary' = [summary EXCEPT ![r] = recorded[r]]
              \/ r \in Sent /\ summary' = summary
    <2>1. CASE Lose(r) \/ Accept(r) \/ Refuse(r)
      <3>1. phase'[r] \in {"running", "rejected", "lost"}
        BY <2>1 DEF Lose, Accept, Refuse, IInv, TypeOK
      <3>2. QED
        BY <1>5, <3>1
    <2>2. CASE StartSending(r)
      <3>1. CASE phase' = [phase EXCEPT ![r] = "lost"]
        BY <1>5, <3>1 DEF IInv, TypeOK
      <3>2. CASE phase' # [phase EXCEPT ![r] = "lost"]
        BY <2>2, <3>2 DEF StartSending, SummariesTell
      <3>3. QED
        BY <3>1, <3>2
    <2>3. CASE Send(r)
      <3>1. phase[r] = "sending" /\ summary' = summary
        BY <2>3 DEF Send, SendConfirmed, SendDropped, SendFails
      <3>2. QED
        BY <3>1 DEF EndedBelow, Sent
    <2>4. QED
      BY <2>1, <2>2, <2>3 DEF RequestStep
  <1>8. \A s \in Requests : s # r =>
           summary'[s] = summary[s] /\ (s \in Sent' => s \in Sent)
    <2>1. \A s \in Requests : s # r => summary'[s] = summary[s]
      BY DEF SummariesTell, RequestStep, Accept, Refuse, Lose,
             StartSending, Send, SendConfirmed, SendDropped, SendFails
    <2>2. QED
      BY <1>5, <2>1 DEF Sent
  <1>9. EndedBelow'
    <2>1. \A t \in AllTasks : at'[t] \notin {"absent", "waiting"} =>
             \A d \in DependencySet(t) : Ended(d)'
      BY <1>1, <1>2, TreesClosed DEF EndedBelow
    <2>2. \A s \in Requests : phase'[s] \notin {"new", "rejected", "running"} =>
             Admissible(s) /\ Ended(Top(s))'
      BY <1>2, <1>5, <1>6, TreesClosed DEF EndedBelow
    <2>3. ASSUME NEW s \in Sent' PROVE Finished(Top(s))'
      <3>1. CASE s = r
        <4>1. Finished(Top(r)) /\ Admissible(r)
          BY <1>5, <1>7, <2>3, <3>1 DEF Sent
        <4>2. QED
          BY <1>2, <3>1, <4>1, TreesClosed
      <3>2. CASE s # r
        <4>1. s \in Requests /\ s \in Sent
          BY <1>8, <2>3, <3>2 DEF Sent
        <4>2. Admissible(s) /\ Finished(Top(s))
          BY <4>1 DEF Sent, EndedBelow
        <4>3. QED
          BY <1>2, <4>1, <4>2, TreesClosed
      <3>3. QED
        BY <3>1, <3>2
    <2>4. QED
      BY <2>1, <2>2, <2>3 DEF EndedBelow, Admissible, NumClaims
  <1>10. SummariesWritten'
    <2>1. ASSUME NEW s \in Sent' PROVE SummaryTells(s, summary'[s])
      <3>1. s \in Requests
        BY <2>1 DEF Sent
      <3>2. CASE s \in Sent /\ summary'[s] = summary[s]
        BY <3>2 DEF SummariesWritten
      <3>3. CASE ~(s \in Sent /\ summary'[s] = summary[s])
        <4>1. s = r /\ w \in {"sending", "fulfilled", "gave up"}
          BY <1>5, <1>8, <2>1, <3>1, <3>3 DEF Sent
        <4>2. /\ Finished(Top(r)) /\ Admissible(r)
              /\ summary'[r] = recorded[r]
          BY <1>7, <3>3, <4>1 DEF SummariesTell
        <4>3. QED
          BY <4>1, <4>2, TrackerComplete DEF IInv
      <3>4. QED
        BY <3>2, <3>3
    <2>2. QED
      BY <2>1, Zenon DEF SummariesWritten
  <1>11. QED
    BY <1>3, <1>9, <1>10

LEMMA EInvariant == Spec => []EInv
  <1>1. Init => EInv
    <2> SUFFICES ASSUME Init PROVE EInv
      OBVIOUS
    <2>1. FInv
      <3>1. JobsFollow
        BY DEF Init, JobsFollow
      <3>2. ProofsAnswer
        BY DEF Init, ProofsAnswer
      <3>3. QED
        BY <3>1, <3>2, GInitially DEF FInv
    <2>2. Sent = {} /\ SummariesWritten
      BY DEF Init, Sent, SummariesWritten
    <2>3. EndedBelow
      BY <2>2 DEF Init, EndedBelow
    <2>4. TrackerInOrder
      <3>1. \A r \in Requests : DOMAIN recorded[r] = {}
        BY DEF Init
      <3>2. \A t \in AllTasks : t.request \in Requests
        BY TasksPlanned DEF Planned
      <3>3. QED
        BY <3>1, <3>2 DEF Init, TrackerInOrder
    <2>5. QED
      BY <2>1, <2>2, <2>3, <2>4 DEF EInv
  <1>2. EInv /\ FInv' /\ [Next]_vars => EInv'
    <2> SUFFICES ASSUME EInv, FInv', [Next]_vars PROVE EInv'
      OBVIOUS
    <2>1. ASSUME NEW t \in AllTasks, TaskStep(t) \/ FinishJob(t) PROVE EInv'
      BY <2>1, TaskStepKeepsEnded, TaskStepKeepsOrder DEF EInv
    <2>2. ASSUME NEW r \in Requests, RequestStep(r) \/ Send(r) PROVE EInv'
      BY <2>2, ServerKeepsEnded DEF EInv
    <2>3. CASE UNCHANGED vars
      <3>1. TrackerInOrder'
        BY <2>3 DEF vars, EInv, TrackerInOrder
      <3>2. EndedBelow'
        BY <2>3 DEF vars, EInv, EndedBelow, Sent, Ended, Finished, Failed
      <3>3. SummariesWritten'
        BY <2>3 DEF vars, EInv, SummariesWritten, Sent
      <3>4. QED
        BY <3>1, <3>2, <3>3 DEF EInv
    <2>4. QED
      BY <2>1, <2>2, <2>3 DEF Next
  <1>3. QED
    BY <1>1, <1>2, FInvariant, PTL DEF Spec

\* When a request's future is past its proof, with it or without, none of the
\* request's futures still wants a permit, a job or the tracker
\* (join_all, recursive_request.rs; the spawned task of scheduler_server.rs).
THEOREM NoFutureLeftBehind == Spec => []NothingLeftBehind
  <1>1. EInv => NothingLeftBehind
    BY TreeEnded DEF EInv, EndedBelow, NothingLeftBehind, Ended
  <1>2. QED
    BY <1>1, EInvariant, PTL

\* The summary written before sending lists each task of the request once, each
\* after the tasks it depends on, however the requests interleave in the tracker.
THEOREM SummaryOfEveryTask == Spec => []SummaryComplete
  <1>1. EInv => SummaryComplete
    BY Zenon DEF EInv, SummariesWritten, SummaryTells, SummaryComplete
  <1>2. QED
    BY <1>1, EInvariant, PTL

\* The proof of a request that is sent, slot by slot.
LEMMA SentProofs ==
  ASSUME EInv, NEW r \in Sent
  PROVE  LET s == proof[Top(r)]
             n == NumClaims(r)
         IN  /\ ClaimsOf[r] \in Seq(Claims) /\ Len(ClaimsOf[r]) = n /\ n \in Nat \ {0}
             /\ n <= Capacity(MAX_DEPTH) /\ Capacity(MAX_DEPTH) \in Nat
             /\ s.depth = MAX_DEPTH /\ s.start = 0 /\ s.end = n
             /\ s.vk = VK /\ s.root = RootIn[r] /\ Pool!SnarkOK(s)
             /\ \A k \in 1 .. n : s.slots[k] = ClaimsOf[r][k]
             /\ s.slots \in Seq(Claims) /\ Len(s.slots) = Capacity(MAX_DEPTH)
  <1> DEFINE s == proof[Top(r)]
             n == NumClaims(r)
  <1>1. r \in Requests /\ Admissible(r) /\ at[Top(r)] = "done"
    <2>1. r \in Requests /\ phase[r] \in {"sending", "fulfilled", "gave up"}
      BY Zenon DEF Sent
    <2>2. EndedBelow /\ phase[r] \notin {"new", "rejected", "running"}
      BY <2>1, Zenon DEF EInv
    <2>3. QED
      BY <2>1, <2>2, Zenon DEF EndedBelow, Finished
  <1>2. Top(r) \in AllTasks
    BY <1>1, TasksPlanned
  <1>3. Answers(s, Top(r)) /\ Planned(Top(r))
    BY <1>1, <1>2, TasksPlanned DEF EInv, FInv, JobsFollow, ProofsAnswer
  <1>4. /\ Top(r).request = r /\ Top(r).params.depth = MAX_DEPTH
        /\ Top(r).start = 0 /\ Top(r).end = n /\ Top(r).claims = ClaimsOf[r]
    BY DEF Top, Task, FinalParams, Params
  <1>5. ClaimsOf[r] \in Seq(Claims) /\ Len(ClaimsOf[r]) = n /\ n \in Nat \ {0}
    BY <1>1, TaskTreeAssumption DEF NumClaims, Admissible
  <1> HIDE DEF s, n
  <1>6. /\ s.depth = MAX_DEPTH /\ s.start = 0 /\ s.end = n
        /\ s.vk = VK /\ s.root = RootIn[r] /\ Pool!SnarkOK(s)
        /\ \A k \in 1 .. n : s.slots[k] = ClaimsOf[r][k]
    BY <1>3, <1>4, <1>5 DEF Answers, NumProofs
  <1>7. n <= Capacity(MAX_DEPTH) /\ Capacity(MAX_DEPTH) \in Nat
    BY <1>3, <1>4, <1>5, ClaimsOfTask DEF NumProofs
  <1>8. s.slots \in Seq(Claims) /\ Len(s.slots) = Capacity(MAX_DEPTH)
    <2>1. \A d : Pool!Capacity(d) = Capacity(d)
      BY Zenon DEF Capacity, Pool!Capacity
    <2>2. QED
      BY <1>6, <2>1 DEF Pool!SnarkOK, Pool!SnarkTyped
  <1>9. QED
    BY <1>5, <1>6, <1>7, <1>8 DEF s, n

\* The proof that is sent is one of the request's claims, all of them, in order
\* and each of them proved, whatever shape the request was cut in.
THEOREM SentProofIsOfRequest == Spec => []SentProofCoversRequest
  <1>1. ASSUME EInv, NEW r \in Sent
        PROVE  LET s == proof[Top(r)]
               IN  /\ Honest(r)
                   /\ s.depth = MAX_DEPTH /\ s.start = 0 /\ s.end = NumClaims(r)
                   /\ s.vk = VK /\ s.root = RootIn[r]
                   /\ SubSeq(s.slots, 1, NumClaims(r)) = ClaimsOf[r]
    <2> DEFINE s == proof[Top(r)]
               n == NumClaims(r)
    <2>1. /\ ClaimsOf[r] \in Seq(Claims) /\ Len(ClaimsOf[r]) = n /\ n \in Nat \ {0}
          /\ n <= Capacity(MAX_DEPTH) /\ Capacity(MAX_DEPTH) \in Nat
          /\ s.depth = MAX_DEPTH /\ s.start = 0 /\ s.end = n
          /\ s.vk = VK /\ s.root = RootIn[r] /\ Pool!SnarkOK(s)
          /\ \A k \in 1 .. n : s.slots[k] = ClaimsOf[r][k]
          /\ s.slots \in Seq(Claims) /\ Len(s.slots) = Capacity(MAX_DEPTH)
      BY <1>1, SentProofs
    <2> HIDE DEF s, n
    <2>2. \A k \in 1 .. n : k \in DOMAIN s.slots /\ s.slots[k] \in Claims
      BY <2>1
    <2>3. Honest(r)
      BY <2>1, <2>2 DEF Honest, n, Pool!SnarkOK, Pool!Witnessed
    <2>4. SubSeq(s.slots, 1, n) = ClaimsOf[r]
      <3>1. /\ SubSeq(s.slots, 1, n) \in Seq(Claims)
            /\ Len(SubSeq(s.slots, 1, n)) = IF 1 <= n THEN n - 1 + 1 ELSE 0
            /\ \A k \in 1 .. n - 1 + 1 : SubSeq(s.slots, 1, n)[k] = s.slots[1 + k - 1]
        BY <2>1, <2>2, SubSeqProperties
      <3>2. /\ Len(SubSeq(s.slots, 1, n)) = n
            /\ \A k \in 1 .. n : SubSeq(s.slots, 1, n)[k] = s.slots[k]
        BY <2>1, <3>1
      <3>3. QED
        BY <2>1, <3>1, <3>2, SeqEqual
    <2>5. QED
      BY <2>1, <2>3, <2>4 DEF s, n
  <1>2. EInv => SentProofCoversRequest
    BY <1>1, Zenon DEF SentProofCoversRequest
  <1>3. QED
    BY <1>2, EInvariant, PTL

-----------------------------------------------------------------------------
(* What the V1 contract makes of it.  The contract has the scheduler's key *)
(* and the root circuit's capacity; of its state only validRoots is looked *)
(* at before the loop, and that may be anything.                           *)

CONSTANT PROVER
VARIABLE validRoots

Contract == INSTANCE GrantsV1 WITH
    VKEY_HASH <- VK, MAX_NUM_CLAIMS <- Capacity(MAX_DEPTH),
    GenuineRoots <- {}, Grants <- {}, Amount <- <<>>, Addresses <- {},
    ZeroAddress <- ZeroClaim.receiver, Distributor <- 0, Nullifiers <- {},
    MaxSupply <- 0, Calls <- {}, wld <- 0, supply <- 0, openGrants <- {},
    nullifierHashes <- {}, claimed <- <<>>,
    phase <- 0, call <- 0, i <- 0, saved <- 0, receipt <- 0

\* V1ClaimParams::new (contract_client.rs:22-53) on a request and its last proof s.
ClaimParams(r, s) ==
    [sender |-> PROVER, vkeyHash |-> VK, numClaims |-> NumClaims(r), root |-> RootIn[r],
     grantIds |-> [k \in 1 .. NumClaims(r) |-> ClaimsOf[r][k].grant],
     receivers |-> [k \in 1 .. NumClaims(r) |-> ClaimsOf[r][k].receiver],
     nullifiers |-> [k \in 1 .. NumClaims(r) |-> ClaimsOf[r][k].nullifier],
     proof |-> [valid |-> TRUE,
                output |-> Contract!CircuitOutput(s.vk, s.root, Count(s), s.slots)]]

\* Three words, then those of the three arrays.
Counted(vk, root, n, gs, rs, ns) ==
    Len(Contract!Packed(vk, root, n, gs, rs, ns)) = 3 + Len(gs) + Len(rs) + Len(ns)

LEMMA WordsCounted ==
  ASSUME NEW S, NEW vk \in S, NEW root \in S, NEW n \in S,
         NEW gs \in Seq(S), NEW rs \in Seq(S), NEW ns \in Seq(S)
  PROVE  Counted(vk, root, n, gs, rs, ns)
  <1> DEFINE head == <<vk, root, n>>
             a == head \o gs
             b == a \o rs
  <1>1. head \in Seq(S) /\ Len(head) = 3
    OBVIOUS
  <1> HIDE DEF head
  <1>2. a \in Seq(S) /\ Len(a) = Len(head) + Len(gs)
    BY <1>1, ConcatProperties, Zenon
  <1> HIDE DEF a
  <1>3. b \in Seq(S) /\ Len(b) = Len(a) + Len(rs)
    BY <1>2, ConcatProperties, Zenon
  <1> HIDE DEF b
  <1>4. Len(b \o ns) = Len(b) + Len(ns)
    BY <1>3, ConcatProperties, Zenon
  <1>5. Contract!Packed(vk, root, n, gs, rs, ns) = b \o ns
    BY Zenon DEF Contract!Packed, b, a, head
  <1>6. QED
    BY <1>1, <1>2, <1>3, <1>4, <1>5 DEF Counted

\* From end to end: what the scheduler sends for a request, with the proof that its
\* tasks came to, passes every check that V1 has before its loop exactly when the
\* World ID root is still valid and the batch is full, however the request was cut
\* and its proofs were obtained.
THEOREM SentBatchAccepted ==
  Spec => [](\A r \in Sent :
                Contract!Accepts(ClaimParams(r, proof[Top(r)]))
                    <=> RootIn[r] \in validRoots /\ NumClaims(r) = Capacity(MAX_DEPTH))
  <1>1. ASSUME EInv, NEW r \in Sent
        PROVE  Contract!Accepts(ClaimParams(r, proof[Top(r)]))
                  <=> RootIn[r] \in validRoots /\ NumClaims(r) = Capacity(MAX_DEPTH)
    <2> DEFINE s == proof[Top(r)]
               n == NumClaims(r)
               c == ClaimParams(r, s)
               m == Capacity(MAX_DEPTH)
               gs == [k \in 1 .. n |-> ClaimsOf[r][k].grant]
               rs == [k \in 1 .. n |-> ClaimsOf[r][k].receiver]
               ns == [k \in 1 .. n |-> ClaimsOf[r][k].nullifier]
    <2>1. /\ ClaimsOf[r] \in Seq(Claims) /\ Len(ClaimsOf[r]) = n /\ n \in Nat \ {0}
          /\ n <= m /\ m \in Nat
          /\ s.depth = MAX_DEPTH /\ s.start = 0 /\ s.end = n
          /\ s.vk = VK /\ s.root = RootIn[r] /\ Pool!SnarkOK(s)
          /\ \A k \in 1 .. n : s.slots[k] = ClaimsOf[r][k]
          /\ s.slots \in Seq(Claims) /\ Len(s.slots) = m
      BY <1>1, SentProofs
    <2>2. /\ c.sender = PROVER /\ c.vkeyHash = VK /\ c.numClaims = n /\ c.root = RootIn[r]
          /\ c.grantIds = gs /\ c.receivers = rs /\ c.nullifiers = ns /\ c.proof.valid
          /\ c.proof.output = Contract!CircuitOutput(s.vk, s.root, Count(s), s.slots)
      BY DEF ClaimParams
    <2>3. Contract!SameLengths(c)
      <3>1. gs = [k \in 1 .. n |-> gs[k]] /\ rs = [k \in 1 .. n |-> rs[k]]
            /\ ns = [k \in 1 .. n |-> ns[k]]
        OBVIOUS
      <3> HIDE DEF gs, rs, ns, n, c, s
      <3>2. Len(gs) = n /\ Len(rs) = n /\ Len(ns) = n
        BY <2>1, <3>1, FunctionLength
      <3>3. QED
        BY <2>2, <3>2 DEF Contract!SameLengths
    <2>4. Contract!DerivedOutput(c) = Contract!Packed(VK, RootIn[r], n, gs, rs, ns)
      <3> HIDE DEF gs, rs, ns, n, c, s
      <3>1. QED
        BY <2>2 DEF Contract!DerivedOutput
    <2>5. c.proof.output = Contract!Packed(VK, RootIn[r], n,
                               [k \in 1 .. m |-> s.slots[k].grant],
                               [k \in 1 .. m |-> s.slots[k].receiver],
                               [k \in 1 .. m |-> s.slots[k].nullifier])
      <3> HIDE DEF gs, rs, ns, n, c, s, m
      <3>1. Count(s) = n /\ DOMAIN s.slots = 1 .. m
        BY <2>1 DEF Count
      <3>2. QED
        BY <2>1, <2>2, <3>1 DEF Contract!CircuitOutput
    <2> HIDE DEF n, c, s, m
    <2>6. c.proof.output = Contract!DerivedOutput(c) <=> n = m
      <3>1. ASSUME n = m PROVE c.proof.output = Contract!DerivedOutput(c)
        <4>1. /\ gs = [k \in 1 .. m |-> s.slots[k].grant]
              /\ rs = [k \in 1 .. m |-> s.slots[k].receiver]
              /\ ns = [k \in 1 .. m |-> s.slots[k].nullifier]
          BY <2>1, <3>1
        <4>2. QED
          BY <2>4, <2>5, <4>1
      <3>2. ASSUME c.proof.output = Contract!DerivedOutput(c) PROVE n = m
        <4> DEFINE gm == [k \in 1 .. m |-> s.slots[k].grant]
                   rm == [k \in 1 .. m |-> s.slots[k].receiver]
                   nm == [k \in 1 .. m |-> s.slots[k].nullifier]
                   S == {VK, RootIn[r], n}
                           \cup {gs[k] : k \in 1 .. n} \cup {rs[k] : k \in 1 .. n}
                           \cup {ns[k] : k \in 1 .. n}
                           \cup {gm[k] : k \in 1 .. m} \cup {rm[k] : k \in 1 .. m}
                           \cup {nm[k] : k \in 1 .. m}
        <4>1. c.proof.output = Contract!Packed(VK, RootIn[r], n, gm, rm, nm)
          BY <2>5, Zenon
        <4> HIDE DEF gs, rs, ns, gm, rm, nm
        <4>2. VK \in S /\ RootIn[r] \in S /\ n \in S
          OBVIOUS
        <4>3. /\ gs \in [1 .. n -> S] /\ rs \in [1 .. n -> S] /\ ns \in [1 .. n -> S]
              /\ gm \in [1 .. m -> S] /\ rm \in [1 .. m -> S] /\ nm \in [1 .. m -> S]
          BY Zenon DEF gs, rs, ns, gm, rm, nm
        <4> HIDE DEF S
        <4>4. \A l \in Nat : \A f \in [1 .. l -> S] : f \in Seq(S) /\ Len(f) = l
          <5> TAKE l \in Nat
          <5> TAKE f \in [1 .. l -> S]
          <5>1. f \in Seq(S)
            BY SeqDef
          <5>2. QED
            BY <5>1, LenProperties
        <4>5. n \in Nat /\ m \in Nat
          BY <2>1
        <4>6. /\ gs \in Seq(S) /\ rs \in Seq(S) /\ ns \in Seq(S)
              /\ gm \in Seq(S) /\ rm \in Seq(S) /\ nm \in Seq(S)
              /\ Len(gs) = n /\ Len(rs) = n /\ Len(ns) = n
              /\ Len(gm) = m /\ Len(rm) = m /\ Len(nm) = m
          BY <4>3, <4>4, <4>5, Zenon
        <4>7. /\ Counted(VK, RootIn[r], n, gs, rs, ns)
              /\ Counted(VK, RootIn[r], n, gm, rm, nm)
          BY <4>2, <4>6, WordsCounted, Zenon
        <4>8. 3 + n + n + n = 3 + m + m + m
          BY <2>4, <3>2, <4>1, <4>6, <4>7 DEF Counted
        <4>9. QED
          BY <4>5, <4>8
      <3>3. QED
        BY <3>1, <3>2
    <2>7. Contract!Authorised(c.sender) /\ (c.numClaims <= m <=> TRUE)
      BY <2>1, <2>2 DEF Contract!Authorised
    <2>8. Contract!Accepts(c) <=> RootIn[r] \in validRoots /\ n = m
      BY <2>2, <2>3, <2>6, <2>7, Zenon DEF Contract!Accepts, m
    <2>9. QED
      BY <2>8 DEF c, n, s, m
  <1>2. EInv => \A r \in Sent :
                   Contract!Accepts(ClaimParams(r, proof[Top(r)]))
                      <=> RootIn[r] \in validRoots /\ NumClaims(r) = Capacity(MAX_DEPTH)
    BY <1>1, Zenon
  <1>3. QED
    BY <1>2, EInvariant, PTL
=============================================================================
