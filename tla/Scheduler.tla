----------------------------- MODULE Scheduler -----------------------------
(***************************************************************************)
(* The production scheduler: one future per task of a request, all of them *)
(* sharing the dispatcher's permits, and one mutex over the task tracker   *)
(* shared by all the requests.  The dispatcher and the chain are external. *)
(*                                                                         *)
(* A step runs from one await to the next.  The recursion down to the      *)
(* leaves awaits nothing but its children, so accepting a request starts   *)
(* all its tasks.                                                          *)
(***************************************************************************)
EXTENDS TaskTree

CONSTANTS
    DISPATCHER_CONCURRENCY, \* permits
    retry_send_threshold,   \* attempts to send one transaction
    NoRequest               \* nobody holds the tracker's mutex

ASSUME SchedulerAssumption ==
    /\ DISPATCHER_CONCURRENCY \in Nat \ {0}
    /\ retry_send_threshold \in Nat \ {0}
    /\ NoRequest \notin Requests
    /\ IsFiniteSet(Requests)

VARIABLES
    phase,      \* phase[r]: how far the server is with a request
    at,         \* at[t]: the await at which the task's future is
    job,        \* job[t]: the dispatcher's task for it
    proof,      \* proof[t]: the proof that the dispatcher has of it
    permits,    \* free permits of proof_concurrency_semaphore
    holder,     \* the request whose future holds the tracker's mutex
    recorded,   \* request_id_to_tasks
    summary,    \* summary[r]: the execution summary written to disk
    attempts    \* attempts[r]: sends that ended in an error

vars == <<phase, at, job, proof, permits, holder, recorded, summary, attempts>>
server == <<phase, holder, summary, attempts>>

NoProof == <<>>
AllTasks == UNION {Tree(r) : r \in {q \in Requests : Admissible(q)}}

Init ==
    /\ phase = [r \in Requests |-> "new"]
    /\ at = [t \in AllTasks |-> "absent"]
    /\ job = [t \in AllTasks |-> "none"]
    /\ proof = [t \in AllTasks |-> NoProof]
    /\ permits = DISPATCHER_CONCURRENCY
    /\ holder = NoRequest
    /\ recorded = [r \in Requests |-> <<>>]
    /\ summary = [r \in Requests |-> <<>>]
    /\ attempts = [r \in Requests |-> 0]

-----------------------------------------------------------------------------
(* The handler of POST /tasks.                                             *)

Accept(r) ==
    /\ phase[r] = "new"
    /\ Admissible(r)
    /\ phase' = [phase EXCEPT ![r] = "running"]
    /\ at' = [t \in AllTasks |-> IF t.request = r THEN "waiting" ELSE at[t]]
    /\ UNCHANGED <<job, proof, permits, holder, recorded, summary, attempts>>

Refuse(r) ==
    /\ phase[r] = "new"
    /\ ~ Admissible(r)
    /\ phase' = [phase EXCEPT ![r] = "rejected"]
    /\ UNCHANGED <<at, job, proof, permits, holder, recorded, summary, attempts>>

-----------------------------------------------------------------------------
(* A task's future.                                                        *)

FinishedUnrecorded(t) == at[t] \in {"recording", "done"}
Finished(t) == at[t] = "done"
Failed(t) == at[t] = "failed"

\* join_all returns the results in the order of the dependencies.
ResultsAsRecorded(t) ==
    LET own == SelectSeq(recorded[t.request], LAMBDA d : d \in DependencySet(t))
    IN  [k \in DOMAIN own |-> proof[own[k]]]
Results(t) == [k \in DOMAIN Dependencies(t) |-> proof[Dependencies(t)[k]]]

\* It waits for every dependency, also after one has failed.
FailWithFirst(t) ==
    /\ at[t] = "waiting"
    /\ \E d \in DependencySet(t) : Failed(d)
    /\ at' = [at EXCEPT ![t] = "failed"]
    /\ UNCHANGED <<server, job, proof, permits, recorded>>
FailWithDependency(t) ==
    /\ at[t] = "waiting"
    /\ \A d \in DependencySet(t) : Finished(d) \/ Failed(d)
    /\ \E d \in DependencySet(t) : Failed(d)
    /\ at' = [at EXCEPT ![t] = "failed"]
    /\ UNCHANGED <<server, job, proof, permits, recorded>>

\* A permit, then POST to the dispatcher; a failed POST drops the permit,
\* whether or not the dispatcher got the request.
Ready(t) ==
    /\ at[t] = "waiting"
    /\ \A d \in DependencySet(t) : Finished(d)
    /\ permits > 0

Submit(t) ==
    /\ Ready(t)
    /\ \/ /\ at' = [at EXCEPT ![t] = "proving"]
          /\ job' = [job EXCEPT ![t] = "RUNNING"]
          /\ permits' = permits - 1
       \/ /\ at' = [at EXCEPT ![t] = "failed"]
          /\ job' \in {job, [job EXCEPT ![t] = "RUNNING"]}
          /\ UNCHANGED permits
    /\ UNCHANGED <<server, proof, recorded>>

\* Polling ends with the job, or with an error that says nothing of the job.
PollKeepingPermit(t) ==
    /\ at[t] = "proving"
    /\ \/ /\ job[t] = "DONE"
          /\ at' = [at EXCEPT ![t] = "fetching"]
          /\ permits' = permits + 1
       \/ /\ job[t] = "FAILED"
          /\ at' = [at EXCEPT ![t] = "failed"]
          /\ UNCHANGED permits
       \/ /\ at' = [at EXCEPT ![t] = "failed"]
          /\ permits' = permits + 1
    /\ UNCHANGED <<server, job, proof, recorded>>
Poll(t) ==
    /\ at[t] = "proving"
    /\ \/ /\ job[t] = "DONE"
          /\ at' = [at EXCEPT ![t] = "fetching"]
       \/ at' = [at EXCEPT ![t] = "failed"]
    /\ permits' = permits + 1
    /\ UNCHANGED <<server, job, proof, recorded>>

Fetch(t) ==
    /\ at[t] = "fetching"
    /\ at' \in {[at EXCEPT ![t] = "recording"], [at EXCEPT ![t] = "failed"]}
    /\ UNCHANGED <<server, job, proof, permits, recorded>>

Record(t) ==
    /\ at[t] = "recording"
    /\ holder = NoRequest
    /\ recorded' = [recorded EXCEPT ![t.request] = Append(@, t)]
    /\ at' = [at EXCEPT ![t] = "done"]
    /\ UNCHANGED <<server, job, proof, permits>>

-----------------------------------------------------------------------------
(* The spawned future of a request, once recursive_gen_proof has returned. *)

\* unwrap() on an error, a panic that only the log shows.
Lose(r) ==
    /\ phase[r] = "running"
    /\ Failed(Top(r))
    /\ phase' = [phase EXCEPT ![r] = "lost"]
    /\ UNCHANGED <<at, job, proof, permits, holder, recorded, summary, attempts>>

\* The mutex is taken to write the summary and kept for the sends.  Writing
\* may panic, which drops the guard.
StartSendingPoisoned(r) ==
    /\ phase[r] = "running"
    /\ Finished(Top(r))
    /\ holder = NoRequest
    /\ holder' = r
    /\ \/ /\ phase' = [phase EXCEPT ![r] = "sending"]
          /\ summary' = [summary EXCEPT ![r] = recorded[r]]
       \/ /\ phase' = [phase EXCEPT ![r] = "lost"]
          /\ UNCHANGED summary
    /\ UNCHANGED <<at, job, proof, permits, recorded, attempts>>
StartSending(r) ==
    /\ phase[r] = "running"
    /\ Finished(Top(r))
    /\ holder = NoRequest
    /\ \/ /\ phase' = [phase EXCEPT ![r] = "sending"]
          /\ summary' = [summary EXCEPT ![r] = recorded[r]]
          /\ holder' = r
       \/ /\ phase' = [phase EXCEPT ![r] = "lost"]
          /\ UNCHANGED <<holder, summary>>
    /\ UNCHANGED <<at, job, proof, permits, recorded, attempts>>

Release(r, outcome) ==
    /\ phase' = [phase EXCEPT ![r] = outcome]
    /\ holder' = NoRequest

\* One call of fulfill: a receipt, an error, or a transaction that the node has
\* dropped, on whose missing receipt the client panics.
SendConfirmed(r) ==
    /\ phase[r] = "sending"
    /\ Release(r, "fulfilled")
    /\ UNCHANGED <<at, job, proof, permits, recorded, summary, attempts>>

SendDropped(r) ==
    /\ phase[r] = "sending"
    /\ Release(r, "lost")
    /\ UNCHANGED <<at, job, proof, permits, recorded, summary, attempts>>

SendFails(r) ==
    /\ phase[r] = "sending"
    /\ attempts' = [attempts EXCEPT ![r] = @ + 1]
    /\ IF attempts'[r] < retry_send_threshold THEN UNCHANGED <<phase, holder>>
       ELSE Release(r, "gave up")
    /\ UNCHANGED <<at, job, proof, permits, recorded, summary>>

-----------------------------------------------------------------------------
(* External: the dispatcher and its provers.  A prover fails on a witness  *)
(* that the circuit does not accept, and for reasons of its own.           *)

FinishJob(t) ==
    /\ job[t] = "RUNNING"
    /\ \/ /\ Provable(t, Results(t))
          /\ job' = [job EXCEPT ![t] = "DONE"]
          /\ proof' = [proof EXCEPT ![t] = ProofOf(t, Results(t))]
       \/ /\ job' = [job EXCEPT ![t] = "FAILED"]
          /\ UNCHANGED proof
    /\ UNCHANGED <<server, at, permits, recorded>>

TaskStep(t) ==
    FailWithDependency(t) \/ Submit(t) \/ Poll(t) \/ Fetch(t) \/ Record(t)

RequestStep(r) == Accept(r) \/ Refuse(r) \/ Lose(r) \/ StartSending(r)

Send(r) == SendConfirmed(r) \/ SendDropped(r) \/ SendFails(r)

Next ==
    \/ \E t \in AllTasks : TaskStep(t) \/ FinishJob(t)
    \/ \E r \in Requests : RequestStep(r) \/ Send(r)

Spec == Init /\ [][Next]_vars

-----------------------------------------------------------------------------
(* A request runs in one spawned future, which tokio polls as long as any  *)
(* of the tasks joined in it can go on.  That the dispatcher ends its jobs *)
(* and the chain answers every send are assumptions about the outside.     *)

SpawnedStep(r) ==
    \/ Lose(r) \/ StartSending(r)
    \/ \E t \in AllTasks :
          /\ t.request = r
          /\ TaskStep(t)
          /\ at[t] = "proving" => job[t] # "RUNNING"

SchedulerFairness == \A r \in Requests : WF_vars(SpawnedStep(r))
DispatcherFairness == WF_vars(\E t \in AllTasks : FinishJob(t))
ChainFairness == \A r \in Requests : WF_vars(Send(r))

LiveSpec == Spec /\ SchedulerFairness /\ DispatcherFairness /\ ChainFairness

-----------------------------------------------------------------------------
TypeOK ==
    /\ phase \in [Requests -> {"new", "rejected", "running", "lost", "sending",
                               "fulfilled", "gave up"}]
    /\ at \in [AllTasks -> {"absent", "waiting", "proving", "fetching",
                            "recording", "done", "failed"}]
    /\ job \in [AllTasks -> {"none", "RUNNING", "DONE", "FAILED"}]
    /\ permits \in 0 .. DISPATCHER_CONCURRENCY
    /\ holder \in Requests \cup {NoRequest}
    /\ recorded \in [Requests -> Seq(AllTasks)]
    /\ attempts \in [Requests -> 0 .. retry_send_threshold]

\* The tracker's mutex is held exactly while its holder sends, and so by one
\* request at a time: no way out, panics included, leaves it behind.
HolderIsSender == \A r \in Requests : phase[r] = "sending" <=> holder = r

\* Every permit is free or held by a future that polls: no path through the
\* executor, errors included, keeps one or gives one back twice.
PermitsConserved ==
    permits + Cardinality({t \in AllTasks : at[t] = "proving"})
        = DISPATCHER_CONCURRENCY

Honest(r) == \A k \in 1 .. NumClaims(r) : ClaimsOf[r][k] \in Proven[<<VK, RootIn[r]>>]

\* Whatever size a request has and in whatever order its tasks finish, the
\* circuits accept every witness the scheduler puts together from good claims:
\* the split, the order of the results and the dummies fit their constraints.
WitnessesFit ==
    \A t \in AllTasks :
        job[t] # "none" /\ Honest(t.request) => Provable(t, Results(t))

Sent == {r \in Requests : phase[r] \in {"sending", "fulfilled", "gave up"}}

\* The proof that is sent counts the request's claims, all of them, in the order
\* of its calldata, and none of them was unproven.
SentProofCoversRequest ==
    \A r \in Sent :
        LET s == proof[Top(r)]
        IN  /\ Honest(r)
            /\ s.depth = MAX_DEPTH /\ s.start = 0 /\ s.end = NumClaims(r)
            /\ s.vk = VK /\ s.root = RootIn[r]
            /\ SubSeq(s.slots, 1, NumClaims(r)) = ClaimsOf[r]

\* The summary written before sending lists every task of the request, once,
\* each after the tasks it depends on.
SummaryComplete ==
    \A r \in Sent :
        /\ Len(summary[r]) = Cardinality(Tree(r))
        /\ \A t \in Tree(r) : \E k \in DOMAIN summary[r] :
              /\ summary[r][k] = t
              /\ \A d \in DependencySet(t) : \E j \in 1 .. k - 1 : summary[r][j] = d

\* When the future of a request gets past its proof, with the proof or without,
\* no task of the request is left behind it: none still wants a permit, a job or
\* the tracker.
NothingLeftBehind ==
    \A r \in Requests : phase[r] \notin {"new", "rejected", "running"} =>
        \A t \in Tree(r) : Finished(t) \/ Failed(t)

\* Whatever order its futures take, the scheduler is the task graph: a task is
\* obtained when it is in the tracker, a request served when its sends begin.
Obtained == {t \in AllTasks : at[t] = "done"}
Outcome(r) ==
    CASE phase[r] \in {"new", "running"} -> "open"
      [] phase[r] \in {"sending", "fulfilled", "gave up"} -> "served"
      [] OTHER -> IF summary[r] = <<>> THEN "abandoned" ELSE "served"
Outcomes == [r \in Requests |-> Outcome(r)]

Needs == [t \in AllTasks |-> DependencySet(t)]
TopOf == [r \in Requests |-> Top(r)]
Graph == INSTANCE TaskGraph WITH
    Tasks <- AllTasks,
    obtained <- Obtained,
    outcome <- Outcomes
ImplementsTaskGraph == Graph!Spec

\* Every accepted request is fulfilled, given up or lost: neither permits nor
\* the tracker's mutex, which both requests need, can strand it.
RequestsEnd ==
    []<>(\A r \in Requests : phase[r] \notin {"running", "sending"})

-----------------------------------------------------------------------------
(* What the documentation says and the code does not do.                   *)

\* "The maximum number of concurrent tasks is configurable": the dispatcher
\* never works on more of the scheduler's tasks than there are permits.
ConcurrencyLimited ==
    Cardinality({t \in AllTasks : job[t] = "RUNNING"}) <= DISPATCHER_CONCURRENCY
=============================================================================
