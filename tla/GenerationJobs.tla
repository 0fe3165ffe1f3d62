--------------------------- MODULE GenerationJobs ---------------------------
(***************************************************************************)
(* The queue of template generation jobs (meta/jobs.py), the workers that  *)
(* drain it (generation_pipeline.py, scripts/meta_worker.py), the requests *)
(* that fill it (ingest.py) and the reviews that send a draft back to it   *)
(* (review_actions.py).  The processes share one database.                 *)
(*                                                                         *)
(* A transaction that has made its first write is one action: SQLite has   *)
(* one writer.  What a transaction reads before its first write, or a      *)
(* process before it opens the transaction, may be stale when it is used,  *)
(* so those reads are actions of their own.  A conditional UPDATE          *)
(* evaluates its condition again and is one action with the read before.   *)
(*                                                                         *)
(* Jobs and drafts are sequences in the order of created_at.  Time is left *)
(* out: a lease is live or lapsed, a cooldown runs or is over.             *)
(***************************************************************************)
EXTENDS Integers, Sequences, FiniteSets

CONSTANTS
    Key,            \* fingerprint keys
    Teacher,        \* sessions that ask for builds
    Nobody,         \* owner_session_id IS NULL
    Filer,          \* requests that ask for a job, in flight at once
    NoJob,          \* such a request is not about to insert one
    Worker,         \* worker processes
    NoWorker,       \* lease_owner IS NULL
    Review,         \* requests that reject a draft, in flight at once
    Threshold,      \* fingerprint_observation_threshold
    MaxAttempts,    \* job_max_attempts
    MaxRefinements, \* meta_draft_max_refinements
    MaxObserved,    \* bound on the observations of a key
    MaxJobs,        \* bound on the jobs
    MaxDrafts,      \* bound on the drafts
    MaxReviews,     \* bound on the rejections
    MaxCrashes,     \* bound on the crashes of workers
    MaxOverruns     \* bound on the leases that lapse under a live worker

ASSUME ScopesAssumption == Nobody \notin Teacher /\ NoWorker \notin Worker

ASSUME JobBoundsAssumption ==
    /\ Threshold \in Nat
    /\ MaxAttempts \in Nat \ {0}
    /\ MaxRefinements \in Nat \ {0}
    /\ MaxObserved \in Nat
    /\ MaxJobs \in Nat
    /\ MaxDrafts \in Nat
    /\ MaxReviews \in Nat
    /\ MaxCrashes \in Nat
    /\ MaxOverruns \in Nat

VARIABLES
    observed,       \* eligible observations of each key
    versions,       \* the <<key, scope>> with an enabled template version
    jobs,           \* generation_jobs
    drafts,         \* template_drafts
    asked,          \* the job each request is about to insert
    work,           \* what each worker holds
    review,         \* what each rejecting request holds
    reviews,        \* rejections so far
    crashes,        \* crashes of workers so far
    overruns        \* leases lapsed under a live worker so far

vars == <<observed, versions, jobs, drafts, asked, work, review,
          reviews, crashes, overruns>>

-----------------------------------------------------------------------------

Scope == Teacher \union {Nobody}

JobStatus == {"queued", "running", "succeeded", "failed", "needs_manual"}

\* evidence counts the trigger observations, attempt the recorded failures;
\* lapsed and cooling compare lease_expires_at and cooldown_until with now.
Job ==
    [key : Key, scope : Scope, status : JobStatus, attempt : Nat, evidence : Nat,
     holder : Worker \union {NoWorker}, lapsed : BOOLEAN, cooling : BOOLEAN]

\* What a request whose checks have passed inserts.
NewJob == [key : Key, scope : Scope, attempt : Nat, evidence : Nat]

ASSUME NoJobAssumption == NoJob \notin NewJob

\* job and parent are positions in jobs and drafts, parent 0 for none.
\* sentBack is not in the code: the rejection that stands put the job back in
\* the queue.
Draft ==
    [job : Nat, revision : Nat, parent : Nat, sentBack : BOOLEAN,
     status : {"pending_review", "rejected", "approved"}]

\* A worker between claiming a job and finishing it.
Work ==
    [at : {"idle", "generating", "persisted"}, job : Nat, revision : Nat, parent : Nat]

\* A rejecting request: requeue and refine have read the draft they reject,
\* refining has committed the rejection and generates the next revision.
Rejecting == [at : {"idle", "requeue", "refine", "refining"}, draft : Nat]

\* A lease has a holder exactly while the job runs, and what the processes
\* hold exists.
TypeOK ==
    /\ observed \in [Key -> Nat]
    /\ versions \subseteq Key \X Scope
    /\ jobs \in Seq(Job)
    /\ drafts \in Seq(Draft)
    /\ asked \in [Filer -> NewJob \union {NoJob}]
    /\ work \in [Worker -> Work]
    /\ review \in [Review -> Rejecting]
    /\ reviews \in Nat /\ crashes \in Nat /\ overruns \in Nat
    /\ \A j \in DOMAIN jobs : (jobs[j].holder # NoWorker) <=> (jobs[j].status = "running")
    /\ \A d \in DOMAIN drafts : drafts[d].job \in DOMAIN jobs
    /\ \A w \in Worker : work[w].at # "idle" => work[w].job \in DOMAIN jobs
    /\ \A v \in Review : review[v].at # "idle" => review[v].draft \in DOMAIN drafts

Idle == [at |-> "idle", job |-> 0, revision |-> 0, parent |-> 0]
NoRejection == [at |-> "idle", draft |-> 0]

Init ==
    /\ observed = [k \in Key |-> 0]
    /\ versions = {}
    /\ jobs = <<>>
    /\ drafts = <<>>
    /\ asked = [f \in Filer |-> NoJob]
    /\ work = [w \in Worker |-> Idle]
    /\ review = [v \in Review |-> NoRejection]
    /\ reviews = 0 /\ crashes = 0 /\ overruns = 0

-----------------------------------------------------------------------------
(* Filling the queue *)

Active(j) == jobs[j].status \in {"queued", "running"}

\* has_active_job; also the rows the partial unique index covers.
HasActiveJob(k, o) ==
    \E j \in DOMAIN jobs : jobs[j].key = k /\ jobs[j].scope = o /\ Active(j)

\* Mutant: no unique index.
NoIndex(j, k, o) == TRUE

\* uq_active_job_per_fingerprint lets job j be active for key k and owner o.
IndexAdmits(j, k, o) ==
    \A i \in DOMAIN jobs \ {j} : ~(jobs[i].key = k /\ jobs[i].scope = o /\ Active(i))

\* One more problem of shape k is filed and tagged.
Observe(k) ==
    /\ observed[k] < MaxObserved
    /\ observed' = [observed EXCEPT ![k] = @ + 1]
    /\ UNCHANGED <<versions, jobs, drafts, asked, work, review, reviews, crashes, overruns>>

\* The newest of the jobs in J whose key is k, as a set.
LatestOf(k, J) ==
    {j \in J : jobs[j].key = k /\ \A i \in J : jobs[i].key = k => i <= j}

(***************************************************************************)
(* evaluate_and_enqueue's reason to go on after the prior job, when J are  *)
(* the jobs that latest_job searches.  A prior job that is still active    *)
(* belongs to a teacher and does not matter.                               *)
(***************************************************************************)
PriorAllows(k, J) ==
    \A p \in LatestOf(k, J) :
        /\ jobs[p].status \notin {"succeeded", "needs_manual"}
        /\ jobs[p].status = "failed" =>
             /\ jobs[p].attempt < MaxAttempts
             /\ ~jobs[p].cooling
             /\ observed[k] > jobs[p].evidence

\* The checks of evaluate_and_enqueue.
ThresholdAllows(k, J) ==
    /\ \A o \in Scope : <<k, o>> \notin versions
    /\ ~HasActiveJob(k, Nobody)
    /\ observed[k] >= Threshold
    /\ PriorAllows(k, J)

\* The attempts a new threshold job inherits from a failed one.
Inherited(k) ==
    IF \E p \in LatestOf(k, DOMAIN jobs) : jobs[p].status = "failed"
    THEN jobs[CHOOSE p \in LatestOf(k, DOMAIN jobs) : TRUE].attempt
    ELSE 0

\* f is about to insert a; MaxJobs bounds the inserts under way too.
Ask(f, a) ==
    /\ asked[f] = NoJob
    /\ Len(jobs) + Cardinality({g \in Filer : asked[g] # NoJob}) < MaxJobs
    /\ asked' = [asked EXCEPT ![f] = a]
    /\ UNCHANGED <<observed, versions, jobs, drafts, work, review, reviews, crashes, overruns>>

\* evaluate_and_enqueue up to its insert.
AskByThreshold(f, k) ==
    /\ ThresholdAllows(k, DOMAIN jobs)
    /\ Ask(f, [key |-> k, scope |-> Nobody, attempt |-> Inherited(k), evidence |-> observed[k]])

\* enqueue_on_demand up to its insert.
AskOnDemand(f, k, t) ==
    /\ observed[k] > 0
    /\ <<k, Nobody>> \notin versions /\ <<k, t>> \notin versions
    /\ ~HasActiveJob(k, t)
    /\ Ask(f, [key |-> k, scope |-> t, attempt |-> 0, evidence |-> observed[k]])

\* The insert, unless the unique index rejects it.
Insert(f) ==
    LET a == asked[f] IN
    /\ a # NoJob
    /\ asked' = [asked EXCEPT ![f] = NoJob]
    /\ jobs' = IF IndexAdmits(0, a.key, a.scope)
               THEN Append(jobs, [key |-> a.key, scope |-> a.scope, status |-> "queued",
                                  attempt |-> a.attempt, evidence |-> a.evidence,
                                  holder |-> NoWorker, lapsed |-> FALSE, cooling |-> FALSE])
               ELSE jobs
    /\ UNCHANGED <<observed, versions, drafts, work, review, reviews, crashes, overruns>>

-----------------------------------------------------------------------------
(* Draining the queue *)

\* Mutant: an expired lease is not looked for.
ClaimableQueued(j) == jobs[j].status = "queued" /\ ~jobs[j].cooling

\* _claimable
Claimable(j) ==
    \/ jobs[j].status = "queued" /\ ~jobs[j].cooling
    \/ jobs[j].status = "running" /\ jobs[j].lapsed

\* Mutant: the lease stays on the row.
StillLeased(j, status) == [jobs EXCEPT ![j].status = status, ![j].lapsed = FALSE]

\* The jobs with a new status for j, and nobody's lease on it.
Released(j, status) ==
    [jobs EXCEPT ![j].status = status, ![j].holder = NoWorker, ![j].lapsed = FALSE]

\* Mutant: the job of the draft is not compared.
AnyRejection(j) == {d \in DOMAIN drafts : drafts[d].status = "rejected"}

\* The rejected drafts of job j.
Rejections(j) ==
    {d \in DOMAIN drafts : drafts[d].job = j /\ drafts[d].status = "rejected"}

\* _latest_rejection: the query's ties are broken by the database.
LatestRejection(j) ==
    {d \in Rejections(j) :
        \A e \in Rejections(j) : drafts[e].revision <= drafts[d].revision}

(***************************************************************************)
(* The first transaction of run_generation_job: claim_next_job takes the   *)
(* oldest claimable job, and the draft to refine, if any, is read.         *)
(***************************************************************************)
Claim(w) ==
    /\ work[w].at = "idle"
    /\ \E j \in DOMAIN jobs :
         /\ Claimable(j)
         /\ \A i \in 1..j - 1 : ~Claimable(i)
         /\ jobs' = [jobs EXCEPT ![j].status = "running", ![j].holder = w,
                                 ![j].lapsed = FALSE]
         /\ \/ /\ Rejections(j) = {}
               /\ work' = [work EXCEPT ![w] =
                     [at |-> "generating", job |-> j, revision |-> 1, parent |-> 0]]
            \/ \E d \in LatestRejection(j) :
                 work' = [work EXCEPT ![w] =
                     [at |-> "generating", job |-> j,
                      revision |-> drafts[d].revision + 1, parent |-> d]]
    /\ UNCHANGED <<observed, versions, drafts, asked, review, reviews, crashes, overruns>>

\* persist_reviewable_draft: nobody asks whether the lease still holds.
Persist(w) ==
    /\ work[w].at = "generating"
    /\ Len(drafts) < MaxDrafts
    /\ drafts' = Append(drafts,
           [job |-> work[w].job, revision |-> work[w].revision, parent |-> work[w].parent,
            sentBack |-> FALSE, status |-> "pending_review"])
    /\ work' = [work EXCEPT ![w].at = "persisted"]
    /\ UNCHANGED <<observed, versions, jobs, asked, review, reviews, crashes, overruns>>

\* Mutant: the lease owner is not compared.
RunningHolds(w) == jobs[work[w].job].status = "running"

\* The condition of complete_job and fail_job.
Holds(w) ==
    /\ jobs[work[w].job].status = "running"
    /\ jobs[work[w].job].holder = w

\* Mutant: the job is completed before the draft is persisted.
GeneratingOrPersisted(w) == work[w].at # "idle"

HasPersisted(w) == work[w].at = "persisted"

\* complete_job, whose result the worker does not look at.
Complete(w) ==
    /\ HasPersisted(w)
    /\ jobs' = IF Holds(w) THEN Released(work[w].job, "succeeded") ELSE jobs
    /\ work' = [work EXCEPT ![w] = Idle]
    /\ UNCHANGED <<observed, versions, drafts, asked, review, reviews, crashes, overruns>>

(***************************************************************************)
(* fail_job after an exception.  A failed job is never claimed again.      *)
(***************************************************************************)
Fail(w) ==
    /\ work[w].at = "generating"
    /\ \/ ~Holds(w) /\ jobs' = jobs
       \/ LET j == work[w].job
              last == jobs[j].attempt + 1 >= MaxAttempts
          IN  /\ Holds(w)
              /\ jobs' = [Released(j, IF last THEN "needs_manual" ELSE "failed") EXCEPT
                            ![j].attempt = jobs[j].attempt + 1, ![j].cooling = ~last]
    /\ work' = [work EXCEPT ![w] = Idle]
    /\ UNCHANGED <<observed, versions, drafts, asked, review, reviews, crashes, overruns>>

\* CandidateGenerationExhausted: mark_needs_manual compares nothing.
Exhaust(w) ==
    /\ work[w].at = "generating"
    /\ jobs' = Released(work[w].job, "needs_manual")
    /\ work' = [work EXCEPT ![w] = Idle]
    /\ UNCHANGED <<observed, versions, drafts, asked, review, reviews, crashes, overruns>>

\* A worker process dies and is started again, under the same name or another.
Crash(w) ==
    /\ work[w].at # "idle"
    /\ crashes < MaxCrashes
    /\ crashes' = crashes + 1
    /\ work' = [work EXCEPT ![w] = Idle]
    /\ UNCHANGED <<observed, versions, jobs, drafts, asked, review, reviews, overruns>>

\* Whether the worker that took the lease of j is still at it.
Attended(j) ==
    \E w \in Worker : jobs[j].holder = w /\ work[w].at # "idle" /\ work[w].job = j

Lapse(j) ==
    /\ jobs[j].status = "running"
    /\ ~jobs[j].lapsed
    /\ jobs' = [jobs EXCEPT ![j].lapsed = TRUE]
    /\ UNCHANGED <<observed, versions, drafts, asked, work, review, reviews, crashes>>

\* The lease of a worker that is gone runs out ...
LeaseRunsOut(j) == ~Attended(j) /\ Lapse(j) /\ UNCHANGED overruns

\* ... and so may that of one that takes too long: nothing renews it.
Overrun(j) ==
    /\ Attended(j)
    /\ overruns < MaxOverruns
    /\ Lapse(j)
    /\ overruns' = overruns + 1

CooldownEnds(j) ==
    /\ jobs[j].cooling
    /\ jobs' = [jobs EXCEPT ![j].cooling = FALSE]
    /\ UNCHANGED <<observed, versions, drafts, asked, work, review, reviews, crashes, overruns>>

-----------------------------------------------------------------------------
(* Reviewing the drafts *)

(***************************************************************************)
(* approve_draft_service claims the draft by its status and publishes a    *)
(* version.  A teacher publishes for herself or, if shared, for everybody, *)
(* which replaces her own version; a reviewer publishes for everybody.     *)
(* The preconditions are not modelled: an approval may fail for any reason.*)
(***************************************************************************)
Approve(d, byTeacher, shared) ==
    LET job == jobs[drafts[d].job] IN
    /\ drafts[d].status = "pending_review"
    /\ IF byTeacher THEN job.scope # Nobody ELSE shared
    /\ drafts' = [drafts EXCEPT ![d].status = "approved"]
    /\ versions' = (IF byTeacher THEN versions \ {<<job.key, job.scope>>} ELSE versions)
                     \union {<<job.key, IF shared THEN Nobody ELSE job.scope>>}
    /\ UNCHANGED <<observed, jobs, asked, work, review, reviews, crashes, overruns>>

\* requeue_for_refinement and reject_and_refine read the draft.  A teacher
\* requeues her own drafts, a reviewer refines any.
BeginReject(v, d, path) ==
    /\ review[v].at = "idle"
    /\ reviews < MaxReviews
    /\ drafts[d].status = "pending_review"
    /\ path = "requeue" => jobs[drafts[d].job].scope # Nobody
    /\ reviews' = reviews + 1
    /\ review' = [review EXCEPT ![v] = [at |-> path, draft |-> d]]
    /\ UNCHANGED <<observed, versions, jobs, drafts, asked, work, crashes, overruns>>

Rejected(v) == drafts[review[v].draft]

\* Both mark the job for manual authoring when the draft is the last revision.
GiveUp(v) ==
    /\ review[v].at \in {"requeue", "refine"}
    /\ Rejected(v).revision >= MaxRefinements
    /\ drafts' = [drafts EXCEPT ![review[v].draft].status = "rejected"]
    /\ jobs' = Released(Rejected(v).job, "needs_manual")
    /\ review' = [review EXCEPT ![v] = NoRejection]
    /\ UNCHANGED <<observed, versions, asked, work, reviews, crashes, overruns>>

(***************************************************************************)
(* The rest of requeue_for_refinement: the draft is rejected whatever it   *)
(* has become, and the job goes back to the queue.  If the unique index    *)
(* objects the whole transaction is undone.                                *)
(***************************************************************************)
Requeue(v) ==
    LET j == Rejected(v).job
        admitted == IndexAdmits(j, jobs[j].key, jobs[j].scope)
    IN
    /\ review[v].at = "requeue"
    /\ Rejected(v).revision < MaxRefinements
    /\ drafts' = IF admitted
                 THEN [drafts EXCEPT ![review[v].draft].status = "rejected",
                                     ![review[v].draft].sentBack = TRUE]
                 ELSE drafts
    /\ jobs' = IF admitted THEN [Released(j, "queued") EXCEPT ![j].cooling = FALSE] ELSE jobs
    /\ review' = [review EXCEPT ![v] = NoRejection]
    /\ UNCHANGED <<observed, versions, asked, work, reviews, crashes, overruns>>

\* The first transaction of reject_and_refine.
Refine(v) ==
    /\ review[v].at = "refine"
    /\ Rejected(v).revision < MaxRefinements
    /\ drafts' = [drafts EXCEPT ![review[v].draft].status = "rejected"]
    /\ review' = [review EXCEPT ![v].at = "refining"]
    /\ UNCHANGED <<observed, versions, jobs, asked, work, reviews, crashes, overruns>>

\* Its generation succeeded: the next revision is persisted.
Refined(v) ==
    /\ review[v].at = "refining"
    /\ Len(drafts) < MaxDrafts
    /\ drafts' = Append(drafts,
           [job |-> Rejected(v).job, revision |-> Rejected(v).revision + 1,
            parent |-> review[v].draft, sentBack |-> FALSE, status |-> "pending_review"])
    /\ review' = [review EXCEPT ![v] = NoRejection]
    /\ UNCHANGED <<observed, versions, jobs, asked, work, reviews, crashes, overruns>>

\* Its generation failed: the draft goes back to the reviewer, whoever's
\* rejection it was that stood.
RefineFailed(v) ==
    /\ review[v].at = "refining"
    /\ drafts' = IF Rejected(v).status = "rejected"
                 THEN [drafts EXCEPT ![review[v].draft].status = "pending_review",
                                     ![review[v].draft].sentBack = FALSE]
                 ELSE drafts
    /\ review' = [review EXCEPT ![v] = NoRejection]
    /\ UNCHANGED <<observed, versions, jobs, asked, work, reviews, crashes, overruns>>

\* The server dies with the request in flight.
Abandon(v) ==
    /\ review[v].at # "idle"
    /\ review' = [review EXCEPT ![v] = NoRejection]
    /\ UNCHANGED <<observed, versions, jobs, drafts, asked, work, reviews, crashes, overruns>>

-----------------------------------------------------------------------------
(* The specification *)

\* One turn of the loop of run_worker.
Work1(w) == Claim(w) \/ Persist(w) \/ Complete(w) \/ Fail(w) \/ Exhaust(w)

Requests ==
    \/ \E k \in Key : Observe(k)
    \/ \E f \in Filer :
         \/ \E k \in Key : AskByThreshold(f, k) \/ \E t \in Teacher : AskOnDemand(f, k, t)
         \/ Insert(f)

Time == \E j \in DOMAIN jobs : LeaseRunsOut(j) \/ Overrun(j) \/ CooldownEnds(j)

Reviewing ==
    \/ \E d \in DOMAIN drafts :
         \/ \E byTeacher, shared \in BOOLEAN : Approve(d, byTeacher, shared)
         \/ \E v \in Review, path \in {"requeue", "refine"} : BeginReject(v, d, path)
    \/ \E v \in Review :
         GiveUp(v) \/ Requeue(v) \/ Refine(v) \/ Refined(v) \/ RefineFailed(v) \/ Abandon(v)

Next ==
    \/ Requests
    \/ \E w \in Worker : Work1(w) \/ Crash(w)
    \/ Time
    \/ Reviewing

\* The workers poll for ever, and time passes.
Fairness ==
    /\ \A w \in Worker : WF_vars(Work1(w))
    /\ WF_vars(\E j \in DOMAIN jobs : LeaseRunsOut(j))
    /\ WF_vars(\E j \in DOMAIN jobs : CooldownEnds(j))

Spec == Init /\ [][Next]_vars /\ Fairness

-----------------------------------------------------------------------------
(* What the queue promises *)

(***************************************************************************)
(* An owner never has two builds of one shape in flight, whatever requests *)
(* race to insert one and whatever rejections make a finished job active   *)
(* again (has_active_job, uq_active_job_per_fingerprint).                  *)
(***************************************************************************)
OneActiveJob ==
    \A i, j \in DOMAIN jobs :
        Active(i) /\ Active(j) /\ jobs[i].key = jobs[j].key /\ jobs[i].scope = jobs[j].scope
            => i = j

(***************************************************************************)
(* A job that has succeeded has left a draft, although the draft and the   *)
(* completion are separate transactions and the lease may lapse, or the    *)
(* worker die, before, between and after them.                             *)
(***************************************************************************)
SucceededHasDraft ==
    \A j \in DOMAIN jobs : jobs[j].status = "succeeded" =>
        \E d \in DOMAIN drafts : drafts[d].job = j

(***************************************************************************)
(* A rejection that put its job back in the queue, and that no failed      *)
(* inline refinement took back, is answered: the job does not succeed      *)
(* again without a draft of a higher revision.  A worker that generated    *)
(* before the rejection, and completes after it, does not pass for the     *)
(* answer (requeue_for_refinement, complete_job).                          *)
(***************************************************************************)
RejectionAnswered ==
    \A d \in DOMAIN drafts :
        drafts[d].sentBack /\ jobs[drafts[d].job].status = "succeeded" =>
            \E e \in DOMAIN drafts :
                drafts[e].job = drafts[d].job /\ drafts[e].revision > drafts[d].revision

(***************************************************************************)
(* A draft that refines another is its next revision, is of the same job   *)
(* and was made after it, also when workers with lapsed leases and inline  *)
(* refinements fork the chain that the review page walks (_attempts).      *)
(***************************************************************************)
RevisionChain ==
    \A d \in DOMAIN drafts :
        LET p == drafts[d].parent IN
        IF p = 0 THEN drafts[d].revision = 1
        ELSE p \in 1..d - 1 /\ drafts[p].job = drafts[d].job
                            /\ drafts[d].revision = drafts[p].revision + 1

(***************************************************************************)
(* A job in flight ends: crashed workers, lapsed leases and workers that   *)
(* finish a job that is no longer theirs do not keep it in flight for ever *)
(* (_claimable), if crashes, overruns and rejections end.                  *)
(***************************************************************************)
JobsEnd == \A j \in 1..MaxJobs :
    (j \in DOMAIN jobs /\ Active(j)) ~> (j \in DOMAIN jobs /\ ~Active(j))
=============================================================================
