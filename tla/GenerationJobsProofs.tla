------------------------ MODULE GenerationJobsProofs ------------------------
(***************************************************************************)
(* Theorems about GenerationJobs, for any sets of workers, teachers, keys  *)
(* and rejecting requests and any bounds.                                  *)
(***************************************************************************)
EXTENDS GenerationJobs, SequenceTheorems, TLAPS

-----------------------------------------------------------------------------
(* What the actions do to the rows of jobs and drafts *)

\* A job has a holder exactly while it runs.
Leased(r) == (r.holder # NoWorker) <=> (r.status = "running")

\* jobs' differs from jobs in j at most.
OnlyJob(j) ==
    /\ jobs' \in Seq(Job)
    /\ DOMAIN jobs' = DOMAIN jobs
    /\ \A i \in DOMAIN jobs : i # j => jobs'[i] = jobs[i]

LEMMA JobChanges ==
    ASSUME jobs \in Seq(Job), NEW j \in DOMAIN jobs, NEW r \in Job,
           jobs' = [jobs EXCEPT ![j] = r]
    PROVE  OnlyJob(j) /\ jobs'[j] = r
<1>1. j \in 1..Len(jobs)
  OBVIOUS
<1>2. jobs' \in Seq(Job) /\ Len(jobs') = Len(jobs)
  BY <1>1, ExceptSeq
<1>3. QED
  BY <1>1, <1>2 DEF OnlyJob

\* The job with status s and nobody's lease.
LEMMA ReleasedChanges ==
    ASSUME jobs \in Seq(Job), NEW j \in DOMAIN jobs, NEW s \in JobStatus,
           jobs' = Released(j, s)
    PROVE  /\ OnlyJob(j)
           /\ jobs'[j] = [jobs[j] EXCEPT !.status = s, !.holder = NoWorker, !.lapsed = FALSE]
<1> DEFINE r == [jobs[j] EXCEPT !.status = s, !.holder = NoWorker, !.lapsed = FALSE]
<1>1. jobs' = [jobs EXCEPT ![j] = r]
  BY DEF Released
<1>2. jobs[j] \in Job /\ s \in JobStatus
  OBVIOUS
<1>3. r \in Job
  BY <1>2 DEF Job
<1> HIDE DEF r
<1>4. OnlyJob(j) /\ jobs'[j] = r
  BY <1>1, <1>3, JobChanges
<1>5. QED
  BY <1>4 DEF r

LEMMA JobAdded ==
    ASSUME jobs \in Seq(Job), NEW r \in Job, jobs' = Append(jobs, r)
    PROVE  /\ jobs' \in Seq(Job)
           /\ DOMAIN jobs' = DOMAIN jobs \union {Len(jobs) + 1}
           /\ Len(jobs) + 1 \notin DOMAIN jobs
           /\ jobs'[Len(jobs) + 1] = r
           /\ \A i \in DOMAIN jobs : jobs'[i] = jobs[i]
  OBVIOUS

LEMMA DraftAdded ==
    ASSUME drafts \in Seq(Draft), NEW r \in Draft, drafts' = Append(drafts, r)
    PROVE  /\ drafts' \in Seq(Draft)
           /\ DOMAIN drafts' = DOMAIN drafts \union {Len(drafts) + 1}
           /\ Len(drafts) + 1 \notin DOMAIN drafts
           /\ drafts'[Len(drafts) + 1] = r
           /\ \A i \in DOMAIN drafts : drafts'[i] = drafts[i]
  OBVIOUS

\* drafts' differs from drafts in the status and the mark of d at most.
OnlyDraft(d) ==
    /\ drafts' \in Seq(Draft)
    /\ DOMAIN drafts' = DOMAIN drafts
    /\ \A i \in DOMAIN drafts : i # d => drafts'[i] = drafts[i]
    /\ drafts'[d].job = drafts[d].job
    /\ drafts'[d].revision = drafts[d].revision
    /\ drafts'[d].parent = drafts[d].parent

LEMMA RowChanges ==
    ASSUME drafts \in Seq(Draft), NEW d \in DOMAIN drafts, NEW r \in Draft,
           drafts' = [drafts EXCEPT ![d] = r]
    PROVE  /\ drafts' \in Seq(Draft) /\ DOMAIN drafts' = DOMAIN drafts
           /\ drafts'[d] = r
           /\ \A i \in DOMAIN drafts : i # d => drafts'[i] = drafts[i]
<1>1. d \in 1..Len(drafts)
  OBVIOUS
<1>2. drafts' \in Seq(Draft) /\ Len(drafts') = Len(drafts)
  BY <1>1, ExceptSeq
<1>3. QED
  BY <1>1, <1>2

LEMMA DraftChanges ==
    ASSUME drafts \in Seq(Draft), NEW d \in DOMAIN drafts,
           NEW s \in {"pending_review", "rejected", "approved"}, NEW b \in BOOLEAN,
           drafts' = [drafts EXCEPT ![d].status = s, ![d].sentBack = b]
    PROVE  OnlyDraft(d) /\ drafts'[d].status = s /\ drafts'[d].sentBack = b
<1> DEFINE r == [drafts[d] EXCEPT !.status = s, !.sentBack = b]
<1>1. drafts' = [drafts EXCEPT ![d] = r]
  OBVIOUS
<1>2. drafts[d] \in Draft /\ d \in 1..Len(drafts)
  OBVIOUS
<1>3. r \in Draft
  BY <1>2 DEF Draft
<1>4. /\ r.job = drafts[d].job /\ r.revision = drafts[d].revision
      /\ r.parent = drafts[d].parent /\ r.status = s /\ r.sentBack = b
  BY <1>2 DEF Draft
<1> HIDE DEF r
<1>5. /\ drafts' \in Seq(Draft) /\ DOMAIN drafts' = DOMAIN drafts
      /\ drafts'[d] = r /\ \A i \in DOMAIN drafts : i # d => drafts'[i] = drafts[i]
  BY <1>1, <1>3, RowChanges
<1>6. QED
  BY <1>4, <1>5 DEF OnlyDraft

LEMMA DraftStatusChanges ==
    ASSUME drafts \in Seq(Draft), NEW d \in DOMAIN drafts,
           NEW s \in {"pending_review", "rejected", "approved"},
           drafts' = [drafts EXCEPT ![d].status = s]
    PROVE  OnlyDraft(d) /\ drafts'[d].status = s /\ drafts'[d].sentBack = drafts[d].sentBack
<1>1. drafts[d] \in Draft
  OBVIOUS
<1>2. drafts[d].sentBack \in BOOLEAN
  BY <1>1 DEF Draft
<1>3. drafts' = [drafts EXCEPT ![d].status = s, ![d].sentBack = drafts[d].sentBack]
  BY <1>1 DEF Draft
<1>4. QED
  BY <1>2, <1>3, DraftChanges

-----------------------------------------------------------------------------
(* The parts of the type invariant *)

CounterTypes ==
    /\ observed \in [Key -> Nat]
    /\ versions \subseteq Key \X Scope
    /\ reviews \in Nat /\ crashes \in Nat /\ overruns \in Nat

AskTypes == asked \in [Filer -> NewJob \union {NoJob}]

RowTypes ==
    /\ jobs \in Seq(Job)
    /\ drafts \in Seq(Draft)
    /\ \A j \in DOMAIN jobs : Leased(jobs[j])
    /\ \A d \in DOMAIN drafts : drafts[d].job \in DOMAIN jobs

WorkTypes ==
    /\ work \in [Worker -> Work]
    /\ \A w \in Worker : work[w].at # "idle" => work[w].job \in DOMAIN jobs

ReviewTypes ==
    /\ review \in [Review -> Rejecting]
    /\ \A v \in Review : review[v].at # "idle" => review[v].draft \in DOMAIN drafts

LEMMA TypeParts ==
    TypeOK <=> CounterTypes /\ AskTypes /\ RowTypes /\ WorkTypes /\ ReviewTypes
  BY DEF TypeOK, CounterTypes, AskTypes, RowTypes, WorkTypes, ReviewTypes, Leased

LEMMA TypePartsNext ==
    TypeOK' <=> CounterTypes' /\ AskTypes' /\ RowTypes' /\ WorkTypes' /\ ReviewTypes'
  BY DEF TypeOK, CounterTypes, AskTypes, RowTypes, WorkTypes, ReviewTypes, Leased

\* No row ever disappears, so what a process holds stays there.
LEMMA WorkKept ==
    ASSUME TypeOK, DOMAIN jobs \subseteq DOMAIN jobs', work' = work
    PROVE  WorkTypes'
  BY DEF TypeOK, WorkTypes

LEMMA ReviewKept ==
    ASSUME TypeOK, DOMAIN drafts \subseteq DOMAIN drafts', review' = review
    PROVE  ReviewTypes'
  BY DEF TypeOK, ReviewTypes

LEMMA WorkChanges ==
    ASSUME TypeOK, NEW w \in Worker, NEW u \in Work, u.at # "idle" => u.job \in DOMAIN jobs',
           DOMAIN jobs \subseteq DOMAIN jobs', work' = [work EXCEPT ![w] = u]
    PROVE  WorkTypes'
  BY DEF TypeOK, WorkTypes

LEMMA ReviewChanges ==
    ASSUME TypeOK, NEW v \in Review, NEW u \in Rejecting,
           u.at # "idle" => u.draft \in DOMAIN drafts',
           DOMAIN drafts \subseteq DOMAIN drafts', review' = [review EXCEPT ![v] = u]
    PROVE  ReviewTypes'
  BY DEF TypeOK, ReviewTypes

LEMMA RowsKept ==
    ASSUME TypeOK, jobs' = jobs, drafts' = drafts
    PROVE  RowTypes'
  BY DEF TypeOK, RowTypes, Leased

LEMMA JobTyped ==
    ASSUME TypeOK, NEW j \in DOMAIN jobs, OnlyJob(j), Leased(jobs'[j]), drafts' = drafts
    PROVE  RowTypes'
  BY DEF TypeOK, RowTypes, OnlyJob, Leased

LEMMA DraftTyped ==
    ASSUME TypeOK, NEW d \in DOMAIN drafts, OnlyDraft(d), jobs' = jobs
    PROVE  RowTypes'
  BY DEF TypeOK, RowTypes, OnlyDraft, Leased

LEMMA JobAndDraftTyped ==
    ASSUME TypeOK, NEW j \in DOMAIN jobs, NEW d \in DOMAIN drafts,
           OnlyJob(j), Leased(jobs'[j]), OnlyDraft(d)
    PROVE  RowTypes'
  BY DEF TypeOK, RowTypes, OnlyJob, OnlyDraft, Leased

LEMMA NewJobTyped ==
    ASSUME TypeOK, NEW r \in Job, Leased(r), jobs' = Append(jobs, r), drafts' = drafts
    PROVE  RowTypes'
<1>1. jobs \in Seq(Job)
  BY DEF TypeOK
<1>2. QED
  BY <1>1, JobAdded DEF TypeOK, RowTypes, Leased

LEMMA NewDraftTyped ==
    ASSUME TypeOK, NEW r \in Draft, r.job \in DOMAIN jobs, drafts' = Append(drafts, r),
           jobs' = jobs
    PROVE  RowTypes'
<1>1. drafts \in Seq(Draft)
  BY DEF TypeOK
<1>2. QED
  BY <1>1, DraftAdded DEF TypeOK, RowTypes, Leased

-----------------------------------------------------------------------------
(* Every action keeps the types *)

LEMMA ScopeType == Teacher \subseteq Scope /\ Nobody \in Scope
  BY DEF Scope

LEMMA ObserveTyped ==
    ASSUME TypeOK, NEW k \in Key, Observe(k)
    PROVE  TypeOK'
<1>1. CounterTypes'
  <2>1. observed[k] \in Nat
    BY DEF TypeOK
  <2>2. observed[k] + 1 \in Nat
    BY <2>1
  <2>3. QED
    BY <2>2 DEF Observe, TypeOK, CounterTypes
<1>2. AskTypes'
  BY DEF Observe, TypeOK, AskTypes
<1>3. jobs' = jobs /\ drafts' = drafts /\ work' = work /\ review' = review
  BY DEF Observe
<1>4. QED
  BY <1>1, <1>2, <1>3, RowsKept, WorkKept, ReviewKept, TypePartsNext

LEMMA AskTyped ==
    ASSUME TypeOK, NEW f \in Filer, NEW a \in NewJob, Ask(f, a)
    PROVE  TypeOK'
<1>1. CounterTypes' /\ AskTypes'
  BY DEF Ask, TypeOK, CounterTypes, AskTypes
<1>2. jobs' = jobs /\ drafts' = drafts /\ work' = work /\ review' = review
  BY DEF Ask
<1>3. QED
  BY <1>1, <1>2, RowsKept, WorkKept, ReviewKept, TypePartsNext

LEMMA AskByThresholdTyped ==
    ASSUME TypeOK, NEW f \in Filer, NEW k \in Key, AskByThreshold(f, k)
    PROVE  TypeOK'
<1>1. Inherited(k) \in Nat
  <2>1. CASE \E p \in LatestOf(k, DOMAIN jobs) : jobs[p].status = "failed"
    <3> DEFINE p == CHOOSE p \in LatestOf(k, DOMAIN jobs) : TRUE
    <3>1. p \in LatestOf(k, DOMAIN jobs)
      BY <2>1
    <3>2. p \in DOMAIN jobs
      BY <3>1 DEF LatestOf
    <3>3. jobs[p] \in Job
      BY <3>2 DEF TypeOK
    <3>4. jobs[p].attempt \in Nat
      BY <3>3 DEF Job
    <3>5. QED
      BY <2>1, <3>4 DEF Inherited
  <2>2. CASE ~\E p \in LatestOf(k, DOMAIN jobs) : jobs[p].status = "failed"
    BY <2>2 DEF Inherited
  <2>3. QED
    BY <2>1, <2>2
<1>2. observed[k] \in Nat
  BY DEF TypeOK
<1> DEFINE a == [key |-> k, scope |-> Nobody, attempt |-> Inherited(k), evidence |-> observed[k]]
<1>3. a \in NewJob
  BY <1>1, <1>2, ScopeType DEF NewJob
<1>4. Ask(f, a)
  BY DEF AskByThreshold
<1> HIDE DEF a
<1>5. QED
  BY <1>3, <1>4, AskTyped

LEMMA AskOnDemandTyped ==
    ASSUME TypeOK, NEW f \in Filer, NEW k \in Key, NEW t \in Teacher, AskOnDemand(f, k, t)
    PROVE  TypeOK'
<1>1. observed[k] \in Nat
  BY DEF TypeOK
<1> DEFINE a == [key |-> k, scope |-> t, attempt |-> 0, evidence |-> observed[k]]
<1>2. a \in NewJob
  BY <1>1, ScopeType DEF NewJob
<1>3. Ask(f, a)
  BY DEF AskOnDemand
<1> HIDE DEF a
<1>4. QED
  BY <1>2, <1>3, AskTyped

\* The job that request f inserts.
Inserted(f) ==
    [key |-> asked[f].key, scope |-> asked[f].scope, status |-> "queued",
     attempt |-> asked[f].attempt, evidence |-> asked[f].evidence,
     holder |-> NoWorker, lapsed |-> FALSE, cooling |-> FALSE]

LEMMA InsertedType ==
    ASSUME TypeOK, NEW f \in Filer, asked[f] # NoJob
    PROVE  Inserted(f) \in Job
<1>1. asked[f] \in NewJob
  BY DEF TypeOK
<1>2. QED
  BY <1>1 DEF NewJob, Job, JobStatus, Inserted

LEMMA InsertTyped ==
    ASSUME TypeOK, NEW f \in Filer, Insert(f)
    PROVE  TypeOK'
<1>1. CounterTypes' /\ AskTypes'
  BY DEF Insert, TypeOK, CounterTypes, AskTypes
<1>2. drafts' = drafts /\ work' = work /\ review' = review
  BY DEF Insert
<1>3. CASE jobs' = jobs
  BY <1>1, <1>2, <1>3, RowsKept, WorkKept, ReviewKept, TypePartsNext
<1>4. CASE jobs' = Append(jobs, Inserted(f))
  <2>1. Inserted(f) \in Job
    BY InsertedType DEF Insert
  <2>2. Leased(Inserted(f))
    BY DEF Leased, Inserted
  <2>3. RowTypes'
    BY <1>2, <1>4, <2>1, <2>2, NewJobTyped
  <2>4. jobs \in Seq(Job)
    BY DEF TypeOK
  <2>5. DOMAIN jobs \subseteq DOMAIN jobs'
    BY <1>4, <2>1, <2>4, JobAdded
  <2>6. QED
    BY <1>1, <1>2, <2>3, <2>5, WorkKept, ReviewKept, TypePartsNext
<1>5. QED
  BY <1>3, <1>4 DEF Insert, Inserted

\* Job j gets status s and holder h; key, scope and the other jobs stay.
Becomes(j, s, h) ==
    /\ OnlyJob(j)
    /\ jobs'[j].key = jobs[j].key
    /\ jobs'[j].scope = jobs[j].scope
    /\ jobs'[j].status = s
    /\ jobs'[j].holder = h

LEMMA ReleasedBecomes ==
    ASSUME TypeOK, NEW j \in DOMAIN jobs, NEW s \in JobStatus, jobs' = Released(j, s)
    PROVE  Becomes(j, s, NoWorker)
<1>1. jobs \in Seq(Job)
  BY DEF TypeOK
<1>2. jobs[j] \in Job
  BY <1>1
<1>3. /\ OnlyJob(j)
      /\ jobs'[j] = [jobs[j] EXCEPT !.status = s, !.holder = NoWorker, !.lapsed = FALSE]
  BY <1>1, ReleasedChanges
<1>4. QED
  BY <1>2, <1>3 DEF Becomes, Job

\* Any other change of the row, with explicit values for its fields.
LEMMA RowBecomes ==
    ASSUME TypeOK, NEW j \in DOMAIN jobs, NEW s \in JobStatus,
           NEW h \in Worker \union {NoWorker}, NEW n \in Nat, NEW l \in BOOLEAN, NEW c \in BOOLEAN,
           jobs' = [jobs EXCEPT ![j] = [jobs[j] EXCEPT
               !.status = s, !.holder = h, !.attempt = n, !.lapsed = l, !.cooling = c]]
    PROVE  Becomes(j, s, h)
<1> DEFINE r == [jobs[j] EXCEPT
               !.status = s, !.holder = h, !.attempt = n, !.lapsed = l, !.cooling = c]
<1>1. jobs \in Seq(Job)
  BY DEF TypeOK
<1>2. jobs[j] \in Job
  BY <1>1
<1>3. r \in Job
  BY <1>2 DEF Job
<1>4. /\ r.key = jobs[j].key /\ r.scope = jobs[j].scope
      /\ r.status = s /\ r.holder = h
  BY <1>2 DEF Job
<1>5. jobs' = [jobs EXCEPT ![j] = r]
  OBVIOUS
<1> HIDE DEF r
<1>6. OnlyJob(j) /\ jobs'[j] = r
  BY <1>1, <1>3, <1>5, JobChanges
<1>7. QED
  BY <1>4, <1>6 DEF Becomes

LEMMA BecomesTyped ==
    ASSUME TypeOK, NEW j \in DOMAIN jobs, NEW s, NEW h, Becomes(j, s, h),
           (h # NoWorker) <=> (s = "running"), drafts' = drafts
    PROVE  RowTypes' /\ DOMAIN jobs' = DOMAIN jobs
  BY JobTyped DEF Becomes, OnlyJob, Leased

LEMMA WorkerType == \A w \in Worker : w # NoWorker
  BY ScopesAssumption

\* The job that w takes and the revision it is to make of it.
LEMMA ClaimEffect ==
    ASSUME TypeOK, NEW w \in Worker, Claim(w)
    PROVE  \E j \in DOMAIN jobs, u \in Work :
             /\ Claimable(j)
             /\ Becomes(j, "running", w)
             /\ work' = [work EXCEPT ![w] = u]
             /\ u.at = "generating" /\ u.job = j
             /\ \/ Rejections(j) = {} /\ u.parent = 0 /\ u.revision = 1
                \/ \E d \in LatestRejection(j) :
                     u.parent = d /\ u.revision = drafts[d].revision + 1
<1>1. PICK j \in DOMAIN jobs :
         /\ Claimable(j)
         /\ jobs' = [jobs EXCEPT ![j].status = "running", ![j].holder = w,
                                 ![j].lapsed = FALSE]
         /\ \/ /\ Rejections(j) = {}
               /\ work' = [work EXCEPT ![w] =
                     [at |-> "generating", job |-> j, revision |-> 1, parent |-> 0]]
            \/ \E d \in LatestRejection(j) :
                 work' = [work EXCEPT ![w] =
                     [at |-> "generating", job |-> j,
                      revision |-> drafts[d].revision + 1, parent |-> d]]
  BY DEF Claim
<1>2. jobs[j] \in Job
  BY DEF TypeOK
<1>3. /\ jobs[j].attempt \in Nat /\ jobs[j].cooling \in BOOLEAN
      /\ "running" \in JobStatus /\ w \in Worker \union {NoWorker}
  BY <1>2 DEF Job, JobStatus
<1>4. jobs' = [jobs EXCEPT ![j] = [jobs[j] EXCEPT !.status = "running", !.holder = w,
          !.attempt = jobs[j].attempt, !.lapsed = FALSE, !.cooling = jobs[j].cooling]]
  BY <1>1, <1>2 DEF Job
<1>5. Becomes(j, "running", w)
  BY <1>3, <1>4, RowBecomes
<1>6. j \in Nat
  BY DEF TypeOK
<1>7. CASE /\ Rejections(j) = {}
           /\ work' = [work EXCEPT ![w] =
                 [at |-> "generating", job |-> j, revision |-> 1, parent |-> 0]]
  <2> DEFINE u == [at |-> "generating", job |-> j, revision |-> 1, parent |-> 0]
  <2>1. u \in Work
    BY <1>6 DEF Work
  <2>2. QED
    BY <1>1, <1>5, <1>7, <2>1
<1>8. ASSUME NEW d \in LatestRejection(j),
             work' = [work EXCEPT ![w] = [at |-> "generating", job |-> j,
                      revision |-> drafts[d].revision + 1, parent |-> d]]
      PROVE  \E u \in Work :
               /\ work' = [work EXCEPT ![w] = u]
               /\ u.at = "generating" /\ u.job = j
               /\ u.parent = d /\ u.revision = drafts[d].revision + 1
  <2> DEFINE u == [at |-> "generating", job |-> j,
                   revision |-> drafts[d].revision + 1, parent |-> d]
  <2>1. d \in DOMAIN drafts
    BY <1>8 DEF LatestRejection, Rejections
  <2>2. drafts[d] \in Draft /\ d \in Nat
    BY <2>1 DEF TypeOK
  <2>3. drafts[d].revision + 1 \in Nat
    BY <2>2 DEF Draft
  <2>4. u \in Work
    BY <1>6, <2>2, <2>3 DEF Work
  <2>5. QED
    BY <1>8, <2>4
<1>9. QED
  BY <1>1, <1>5, <1>7, <1>8

LEMMA ClaimTyped ==
    ASSUME TypeOK, NEW w \in Worker, Claim(w)
    PROVE  TypeOK'
<1>1. PICK j \in DOMAIN jobs, u \in Work :
         Becomes(j, "running", w) /\ work' = [work EXCEPT ![w] = u] /\ u.job = j
  BY ClaimEffect
<1>2. CounterTypes' /\ AskTypes' /\ drafts' = drafts /\ review' = review
  BY DEF Claim, TypeOK, CounterTypes, AskTypes
<1>3. RowTypes' /\ DOMAIN jobs' = DOMAIN jobs
  BY <1>1, <1>2, WorkerType, BecomesTyped
<1>4. WorkTypes' /\ ReviewTypes'
  BY <1>1, <1>2, <1>3, WorkChanges, ReviewKept
<1>5. QED
  BY <1>2, <1>3, <1>4, TypePartsNext

\* A worker or a rejecting request that holds nothing any more.
LEMMA IdleType == Idle \in Work /\ Idle.at = "idle"
  BY DEF Idle, Work

LEMMA NoRejectionType == NoRejection \in Rejecting /\ NoRejection.at = "idle"
  BY DEF NoRejection, Rejecting

\* The draft that w appends.
Made(w) ==
    [job |-> work[w].job, revision |-> work[w].revision, parent |-> work[w].parent,
     sentBack |-> FALSE, status |-> "pending_review"]

LEMMA PersistEffect ==
    ASSUME TypeOK, NEW w \in Worker, Persist(w)
    PROVE  /\ Made(w) \in Draft /\ work[w].job \in DOMAIN jobs
           /\ drafts' = Append(drafts, Made(w))
           /\ \E u \in Work :
                /\ work' = [work EXCEPT ![w] = u]
                /\ u.at = "persisted" /\ u.job = work[w].job
<1>1. work[w] \in Work /\ work[w].job \in DOMAIN jobs
  BY DEF TypeOK, Persist
<1>2. Made(w) \in Draft
  BY <1>1 DEF Work, Draft, Made
<1>3. drafts' = Append(drafts, Made(w))
  BY DEF Persist, Made
<1> DEFINE u == [work[w] EXCEPT !.at = "persisted"]
<1>4. u \in Work /\ u.at = "persisted" /\ u.job = work[w].job
  BY <1>1 DEF Work
<1>5. work' = [work EXCEPT ![w] = u]
  BY DEF Persist
<1> HIDE DEF u
<1>6. QED
  BY <1>1, <1>2, <1>3, <1>4, <1>5

LEMMA PersistTyped ==
    ASSUME TypeOK, NEW w \in Worker, Persist(w)
    PROVE  TypeOK'
<1>1. CounterTypes' /\ AskTypes' /\ jobs' = jobs /\ review' = review
  BY DEF Persist, TypeOK, CounterTypes, AskTypes
<1>2. /\ Made(w) \in Draft /\ work[w].job \in DOMAIN jobs
      /\ drafts' = Append(drafts, Made(w))
  BY PersistEffect
<1>3. PICK u \in Work : /\ work' = [work EXCEPT ![w] = u]
                        /\ u.at = "persisted" /\ u.job = work[w].job
  BY PersistEffect
<1>4. RowTypes'
  BY <1>1, <1>2, NewDraftTyped DEF Made
<1>5. DOMAIN drafts \subseteq DOMAIN drafts'
  BY <1>2, DraftAdded DEF TypeOK
<1>6. WorkTypes' /\ ReviewTypes'
  BY <1>1, <1>2, <1>3, <1>5, WorkChanges, ReviewKept
<1>7. QED
  BY <1>1, <1>4, <1>6, TypePartsNext

LEMMA StatusTypes ==
    /\ "queued" \in JobStatus /\ "running" \in JobStatus /\ "succeeded" \in JobStatus
    /\ "failed" \in JobStatus /\ "needs_manual" \in JobStatus
  BY DEF JobStatus

LEMMA CompleteEffect ==
    ASSUME TypeOK, NEW w \in Worker, Complete(w)
    PROVE  /\ work[w].job \in DOMAIN jobs
           /\ \/ jobs' = jobs
              \/ Holds(w) /\ Becomes(work[w].job, "succeeded", NoWorker)
<1>1. work[w].job \in DOMAIN jobs
  BY DEF TypeOK, Complete, HasPersisted
<1>2. CASE Holds(w)
  <2>1. jobs' = Released(work[w].job, "succeeded")
    BY <1>2 DEF Complete
  <2>2. QED
    BY <1>1, <1>2, <2>1, ReleasedBecomes, StatusTypes
<1>3. CASE ~Holds(w)
  BY <1>1, <1>3 DEF Complete
<1>4. QED
  BY <1>2, <1>3

LEMMA FailEffect ==
    ASSUME TypeOK, NEW w \in Worker, Fail(w)
    PROVE  /\ work[w].job \in DOMAIN jobs
           /\ \/ jobs' = jobs
              \/ \E s \in {"failed", "needs_manual"} : Becomes(work[w].job, s, NoWorker)
<1> DEFINE j == work[w].job
           last == jobs[j].attempt + 1 >= MaxAttempts
           s == IF last THEN "needs_manual" ELSE "failed"
           n == jobs[j].attempt + 1
           c == ~last
<1>1. j \in DOMAIN jobs
  BY DEF TypeOK, Fail
<1>2. jobs[j] \in Job
  BY <1>1 DEF TypeOK
<1>3. n \in Nat
  BY <1>2 DEF Job
<1>4. s \in JobStatus /\ s \in {"failed", "needs_manual"} /\ c \in BOOLEAN
  BY StatusTypes
<1>5. CASE jobs' = jobs
  BY <1>1, <1>5
<1>6. CASE jobs' = [Released(j, s) EXCEPT ![j].attempt = n, ![j].cooling = c]
  <2> HIDE DEF s, n, c, last
  <2>1. jobs' = [jobs EXCEPT ![j] = [jobs[j] EXCEPT
            !.status = s, !.holder = NoWorker, !.attempt = n, !.lapsed = FALSE, !.cooling = c]]
    BY <1>1, <1>2, <1>6 DEF Released, TypeOK, Job
  <2>2. Becomes(j, s, NoWorker)
    BY <1>1, <1>3, <1>4, <2>1, RowBecomes
  <2>3. QED
    BY <1>1, <1>4, <2>2
<1>7. QED
  BY <1>5, <1>6 DEF Fail

LEMMA ExhaustEffect ==
    ASSUME TypeOK, NEW w \in Worker, Exhaust(w)
    PROVE  work[w].job \in DOMAIN jobs /\ Becomes(work[w].job, "needs_manual", NoWorker)
<1>1. work[w].job \in DOMAIN jobs
  BY DEF TypeOK, Exhaust
<1>2. jobs' = Released(work[w].job, "needs_manual")
  BY DEF Exhaust
<1>3. QED
  BY <1>1, <1>2, ReleasedBecomes, StatusTypes

LEMMA DoneTyped ==
    ASSUME TypeOK, NEW w \in Worker, Complete(w) \/ Fail(w) \/ Exhaust(w)
    PROVE  TypeOK'
<1>1. /\ CounterTypes' /\ AskTypes' /\ drafts' = drafts /\ review' = review
      /\ work' = [work EXCEPT ![w] = Idle]
  BY DEF Complete, Fail, Exhaust, TypeOK, CounterTypes, AskTypes
<1>2. \/ jobs' = jobs
      \/ \E j \in DOMAIN jobs, s \in {"succeeded", "failed", "needs_manual"} :
            Becomes(j, s, NoWorker)
  BY CompleteEffect, FailEffect, ExhaustEffect
<1>3. RowTypes' /\ DOMAIN jobs' = DOMAIN jobs
  BY <1>1, <1>2, RowsKept, BecomesTyped
<1>4. WorkTypes' /\ ReviewTypes'
  BY <1>1, <1>3, IdleType, WorkChanges, ReviewKept
<1>5. QED
  BY <1>1, <1>3, <1>4, TypePartsNext

LEMMA CrashTyped ==
    ASSUME TypeOK, NEW w \in Worker, Crash(w)
    PROVE  TypeOK'
<1>1. crashes + 1 \in Nat
  BY DEF TypeOK
<1>2. /\ CounterTypes' /\ AskTypes' /\ jobs' = jobs /\ drafts' = drafts /\ review' = review
      /\ work' = [work EXCEPT ![w] = Idle]
  BY <1>1 DEF Crash, TypeOK, CounterTypes, AskTypes
<1>3. WorkTypes' /\ ReviewTypes' /\ RowTypes'
  BY <1>2, IdleType, WorkChanges, ReviewKept, RowsKept
<1>4. QED
  BY <1>2, <1>3, TypePartsNext

\* Time changes neither the status nor the holder of a job.
LEMMA TimeEffect ==
    ASSUME TypeOK, NEW j \in DOMAIN jobs, LeaseRunsOut(j) \/ Overrun(j) \/ CooldownEnds(j)
    PROVE  Becomes(j, jobs[j].status, jobs[j].holder)
<1>1. jobs[j] \in Job
  BY DEF TypeOK
<1>2. /\ jobs[j].status \in JobStatus /\ jobs[j].holder \in Worker \union {NoWorker}
      /\ jobs[j].attempt \in Nat /\ jobs[j].lapsed \in BOOLEAN /\ jobs[j].cooling \in BOOLEAN
  BY <1>1 DEF Job
<1>3. CASE jobs' = [jobs EXCEPT ![j].lapsed = TRUE]
  <2>1. jobs' = [jobs EXCEPT ![j] = [jobs[j] EXCEPT
            !.status = jobs[j].status, !.holder = jobs[j].holder, !.attempt = jobs[j].attempt,
            !.lapsed = TRUE, !.cooling = jobs[j].cooling]]
    BY <1>1, <1>3 DEF Job
  <2>2. QED
    BY <1>2, <2>1, RowBecomes
<1>4. CASE jobs' = [jobs EXCEPT ![j].cooling = FALSE]
  <2>1. jobs' = [jobs EXCEPT ![j] = [jobs[j] EXCEPT
            !.status = jobs[j].status, !.holder = jobs[j].holder, !.attempt = jobs[j].attempt,
            !.lapsed = jobs[j].lapsed, !.cooling = FALSE]]
    BY <1>1, <1>4 DEF Job
  <2>2. QED
    BY <1>2, <2>1, RowBecomes
<1>5. QED
  BY <1>3, <1>4 DEF LeaseRunsOut, Overrun, CooldownEnds, Lapse

LEMMA TimeTyped ==
    ASSUME TypeOK, NEW j \in DOMAIN jobs, LeaseRunsOut(j) \/ Overrun(j) \/ CooldownEnds(j)
    PROVE  TypeOK'
<1>1. overruns + 1 \in Nat
  BY DEF TypeOK
<1>2. overruns' = overruns \/ overruns' = overruns + 1
  BY DEF LeaseRunsOut, Overrun, CooldownEnds
<1>3. /\ observed' = observed /\ versions' = versions /\ reviews' = reviews
      /\ crashes' = crashes /\ asked' = asked
      /\ drafts' = drafts /\ review' = review /\ work' = work
  BY DEF LeaseRunsOut, Overrun, CooldownEnds, Lapse
<1>4. CounterTypes' /\ AskTypes'
  BY <1>1, <1>2, <1>3 DEF TypeOK, CounterTypes, AskTypes
<1>5. Becomes(j, jobs[j].status, jobs[j].holder)
  BY TimeEffect
<1>6. (jobs[j].holder # NoWorker) <=> (jobs[j].status = "running")
  BY DEF TypeOK
<1>7. RowTypes' /\ DOMAIN jobs' = DOMAIN jobs
  BY <1>3, <1>5, <1>6, BecomesTyped
<1>8. WorkTypes' /\ ReviewTypes'
  BY <1>3, <1>7, WorkKept, ReviewKept
<1>9. QED
  BY <1>4, <1>7, <1>8, TypePartsNext

LEMMA ApproveEffect ==
    ASSUME TypeOK, NEW d \in DOMAIN drafts, NEW byTeacher \in BOOLEAN, NEW shared \in BOOLEAN,
           Approve(d, byTeacher, shared)
    PROVE  OnlyDraft(d) /\ drafts'[d].status = "approved"
           /\ drafts'[d].sentBack = drafts[d].sentBack
  BY DraftStatusChanges DEF Approve, TypeOK

LEMMA ApproveTyped ==
    ASSUME TypeOK, NEW d \in DOMAIN drafts, NEW byTeacher \in BOOLEAN, NEW shared \in BOOLEAN,
           Approve(d, byTeacher, shared)
    PROVE  TypeOK'
<1>1. drafts[d].job \in DOMAIN jobs
  BY DEF TypeOK
<1>2. jobs[drafts[d].job] \in Job
  BY <1>1 DEF TypeOK
<1> DEFINE job == jobs[drafts[d].job]
<1>3. job.key \in Key /\ job.scope \in Scope
  BY <1>2 DEF Job
<1> HIDE DEF job
<1>4. versions' \subseteq versions \union {<<job.key, job.scope>>, <<job.key, Nobody>>}
  BY DEF Approve, job
<1>5. versions' \subseteq Key \X Scope
  BY <1>3, <1>4, ScopeType DEF TypeOK
<1>6. /\ CounterTypes' /\ AskTypes' /\ jobs' = jobs /\ review' = review /\ work' = work
  BY <1>5 DEF Approve, TypeOK, CounterTypes, AskTypes
<1>7. OnlyDraft(d)
  BY ApproveEffect
<1>8. RowTypes' /\ WorkTypes' /\ ReviewTypes'
  BY <1>6, <1>7, DraftTyped, WorkKept, ReviewKept DEF OnlyDraft
<1>9. QED
  BY <1>6, <1>8, TypePartsNext

LEMMA BeginRejectTyped ==
    ASSUME TypeOK, NEW v \in Review, NEW d \in DOMAIN drafts,
           NEW path \in {"requeue", "refine"}, BeginReject(v, d, path)
    PROVE  TypeOK'
<1>1. reviews + 1 \in Nat
  BY DEF TypeOK
<1>2. /\ CounterTypes' /\ AskTypes' /\ jobs' = jobs /\ drafts' = drafts /\ work' = work
  BY <1>1 DEF BeginReject, TypeOK, CounterTypes, AskTypes
<1> DEFINE u == [at |-> path, draft |-> d]
<1>3. u \in Rejecting /\ u.draft = d
  BY DEF Rejecting, TypeOK
<1>4. review' = [review EXCEPT ![v] = u]
  BY DEF BeginReject
<1> HIDE DEF u
<1>5. RowTypes' /\ WorkTypes' /\ ReviewTypes'
  BY <1>2, <1>3, <1>4, RowsKept, WorkKept, ReviewChanges
<1>6. QED
  BY <1>2, <1>5, TypePartsNext

\* The draft a rejecting request has read, and its job.
LEMMA RejectedType ==
    ASSUME TypeOK, NEW v \in Review, review[v].at # "idle"
    PROVE  /\ review[v].draft \in DOMAIN drafts
           /\ Rejected(v) \in Draft
           /\ Rejected(v).job \in DOMAIN jobs
  BY DEF TypeOK, Rejected

LEMMA GiveUpEffect ==
    ASSUME TypeOK, NEW v \in Review, GiveUp(v)
    PROVE  /\ review[v].draft \in DOMAIN drafts /\ Rejected(v).job \in DOMAIN jobs
           /\ Becomes(Rejected(v).job, "needs_manual", NoWorker)
           /\ OnlyDraft(review[v].draft)
           /\ drafts'[review[v].draft].status = "rejected"
           /\ drafts'[review[v].draft].sentBack = drafts[review[v].draft].sentBack
<1>1. review[v].draft \in DOMAIN drafts /\ Rejected(v).job \in DOMAIN jobs
  BY RejectedType DEF GiveUp
<1>2. Becomes(Rejected(v).job, "needs_manual", NoWorker)
  BY <1>1, ReleasedBecomes, StatusTypes DEF GiveUp
<1>3. QED
  BY <1>1, <1>2, DraftStatusChanges DEF GiveUp, TypeOK

LEMMA RequeueEffect ==
    ASSUME TypeOK, NEW v \in Review, Requeue(v)
    PROVE  /\ review[v].draft \in DOMAIN drafts /\ Rejected(v).job \in DOMAIN jobs
           /\ \/ jobs' = jobs /\ drafts' = drafts
              \/ /\ LET j == Rejected(v).job IN IndexAdmits(j, jobs[j].key, jobs[j].scope)
                 /\ Becomes(Rejected(v).job, "queued", NoWorker)
                 /\ OnlyDraft(review[v].draft)
                 /\ drafts'[review[v].draft].status = "rejected"
                 /\ drafts'[review[v].draft].sentBack = TRUE
<1> DEFINE d == review[v].draft
           j == Rejected(v).job
<1>1. d \in DOMAIN drafts /\ j \in DOMAIN jobs
  BY RejectedType DEF Requeue
<1>2. CASE IndexAdmits(j, jobs[j].key, jobs[j].scope)
  <2>1. /\ drafts' = [drafts EXCEPT ![d].status = "rejected", ![d].sentBack = TRUE]
        /\ jobs' = [Released(j, "queued") EXCEPT ![j].cooling = FALSE]
    BY <1>2 DEF Requeue
  <2> HIDE DEF d, j
  <2>2. jobs[j] \in Job
    BY <1>1 DEF TypeOK
  <2>3. jobs[j].attempt \in Nat
    BY <2>2 DEF Job
  <2>4. jobs' = [jobs EXCEPT ![j] = [jobs[j] EXCEPT !.status = "queued", !.holder = NoWorker,
            !.attempt = jobs[j].attempt, !.lapsed = FALSE, !.cooling = FALSE]]
    BY <1>1, <2>1, <2>2 DEF Released, TypeOK, Job
  <2>5. Becomes(j, "queued", NoWorker)
    BY <1>1, <2>3, <2>4, RowBecomes, StatusTypes
  <2>6. OnlyDraft(d) /\ drafts'[d].status = "rejected" /\ drafts'[d].sentBack = TRUE
    BY <1>1, <2>1, DraftChanges DEF TypeOK
  <2>7. QED
    BY <1>1, <1>2, <2>5, <2>6 DEF d, j
<1>3. CASE ~IndexAdmits(j, jobs[j].key, jobs[j].scope)
  BY <1>1, <1>3 DEF Requeue
<1>4. QED
  BY <1>2, <1>3

LEMMA RejectTyped ==
    ASSUME TypeOK, NEW v \in Review, GiveUp(v) \/ Requeue(v)
    PROVE  TypeOK'
<1>1. /\ CounterTypes' /\ AskTypes' /\ work' = work
      /\ review' = [review EXCEPT ![v] = NoRejection]
  BY DEF GiveUp, Requeue, TypeOK, CounterTypes, AskTypes
<1>2. \/ jobs' = jobs /\ drafts' = drafts
      \/ \E j \in DOMAIN jobs, d \in DOMAIN drafts, s \in {"queued", "needs_manual"} :
            Becomes(j, s, NoWorker) /\ OnlyDraft(d)
  BY GiveUpEffect, RequeueEffect
<1>3. RowTypes' /\ DOMAIN jobs' = DOMAIN jobs /\ DOMAIN drafts' = DOMAIN drafts
  BY <1>2, RowsKept, JobAndDraftTyped DEF Becomes, OnlyJob, OnlyDraft, Leased
<1>4. WorkTypes' /\ ReviewTypes'
  BY <1>1, <1>3, NoRejectionType, WorkKept, ReviewChanges
<1>5. QED
  BY <1>1, <1>3, <1>4, TypePartsNext

LEMMA RefineEffect ==
    ASSUME TypeOK, NEW v \in Review, Refine(v)
    PROVE  /\ review[v].draft \in DOMAIN drafts
           /\ OnlyDraft(review[v].draft)
           /\ drafts'[review[v].draft].status = "rejected"
           /\ drafts'[review[v].draft].sentBack = drafts[review[v].draft].sentBack
<1>1. review[v].draft \in DOMAIN drafts
  BY RejectedType DEF Refine
<1>2. QED
  BY <1>1, DraftStatusChanges DEF Refine, TypeOK

LEMMA RefineTyped ==
    ASSUME TypeOK, NEW v \in Review, Refine(v)
    PROVE  TypeOK'
<1>1. CounterTypes' /\ AskTypes' /\ work' = work /\ jobs' = jobs
  BY DEF Refine, TypeOK, CounterTypes, AskTypes
<1>2. review[v].draft \in DOMAIN drafts /\ OnlyDraft(review[v].draft)
  BY RefineEffect
<1> DEFINE u == [review[v] EXCEPT !.at = "refining"]
<1>3. review[v] \in Rejecting
  BY DEF TypeOK
<1>4. u \in Rejecting /\ u.draft = review[v].draft
  BY <1>3 DEF Rejecting
<1>5. review' = [review EXCEPT ![v] = u]
  BY DEF Refine
<1> HIDE DEF u
<1>6. DOMAIN drafts' = DOMAIN drafts
  BY <1>2 DEF OnlyDraft
<1>7. RowTypes' /\ WorkTypes' /\ ReviewTypes'
  BY <1>1, <1>2, <1>4, <1>5, <1>6, DraftTyped, WorkKept, ReviewChanges
<1>8. QED
  BY <1>1, <1>7, TypePartsNext

\* The draft that v appends.
MadeInline(v) ==
    [job |-> Rejected(v).job, revision |-> Rejected(v).revision + 1,
     parent |-> review[v].draft, sentBack |-> FALSE, status |-> "pending_review"]

LEMMA RefinedEffect ==
    ASSUME TypeOK, NEW v \in Review, Refined(v)
    PROVE  /\ MadeInline(v) \in Draft /\ Rejected(v).job \in DOMAIN jobs
           /\ review[v].draft \in DOMAIN drafts
           /\ drafts' = Append(drafts, MadeInline(v))
<1>1. /\ review[v].draft \in DOMAIN drafts /\ Rejected(v) \in Draft
      /\ Rejected(v).job \in DOMAIN jobs
  BY RejectedType DEF Refined
<1>2. Rejected(v).revision + 1 \in Nat /\ Rejected(v).job \in Nat
  BY <1>1 DEF Draft
<1>3. review[v].draft \in Nat
  BY <1>1 DEF TypeOK
<1>4. MadeInline(v) \in Draft
  BY <1>2, <1>3 DEF Draft, MadeInline
<1>5. QED
  BY <1>1, <1>4 DEF Refined, MadeInline

LEMMA RefinedTyped ==
    ASSUME TypeOK, NEW v \in Review, Refined(v)
    PROVE  TypeOK'
<1>1. /\ CounterTypes' /\ AskTypes' /\ work' = work /\ jobs' = jobs
      /\ review' = [review EXCEPT ![v] = NoRejection]
  BY DEF Refined, TypeOK, CounterTypes, AskTypes
<1>2. /\ MadeInline(v) \in Draft /\ MadeInline(v).job \in DOMAIN jobs
      /\ drafts' = Append(drafts, MadeInline(v))
  BY RefinedEffect DEF MadeInline
<1>3. RowTypes'
  BY <1>1, <1>2, NewDraftTyped
<1>4. DOMAIN drafts \subseteq DOMAIN drafts'
  BY <1>2, DraftAdded DEF TypeOK
<1>5. WorkTypes' /\ ReviewTypes'
  BY <1>1, <1>4, NoRejectionType, WorkKept, ReviewChanges
<1>6. QED
  BY <1>1, <1>3, <1>5, TypePartsNext

LEMMA RefineFailedEffect ==
    ASSUME TypeOK, NEW v \in Review, RefineFailed(v)
    PROVE  \/ drafts' = drafts
           \/ /\ review[v].draft \in DOMAIN drafts
              /\ OnlyDraft(review[v].draft)
              /\ drafts'[review[v].draft].sentBack = FALSE
<1>1. review[v].draft \in DOMAIN drafts
  BY RejectedType DEF RefineFailed
<1>2. QED
  BY <1>1, DraftChanges DEF RefineFailed, TypeOK

LEMMA EndedTyped ==
    ASSUME TypeOK, NEW v \in Review, RefineFailed(v) \/ Abandon(v)
    PROVE  TypeOK'
<1>1. /\ CounterTypes' /\ AskTypes' /\ work' = work /\ jobs' = jobs
      /\ review' = [review EXCEPT ![v] = NoRejection]
  BY DEF RefineFailed, Abandon, TypeOK, CounterTypes, AskTypes
<1>2. drafts' = drafts \/ \E d \in DOMAIN drafts : OnlyDraft(d)
  BY RefineFailedEffect DEF Abandon
<1>3. RowTypes' /\ DOMAIN drafts' = DOMAIN drafts
  BY <1>1, <1>2, RowsKept, DraftTyped DEF OnlyDraft
<1>4. WorkTypes' /\ ReviewTypes'
  BY <1>1, <1>3, NoRejectionType, WorkKept, ReviewChanges
<1>5. QED
  BY <1>1, <1>3, <1>4, TypePartsNext

LEMMA NextTyped == TypeOK /\ [Next]_vars => TypeOK'
<1> SUFFICES ASSUME TypeOK, [Next]_vars PROVE TypeOK'
  OBVIOUS
<1>1. CASE Requests
  BY <1>1, ObserveTyped, AskByThresholdTyped, AskOnDemandTyped, InsertTyped DEF Requests
<1>2. CASE \E w \in Worker : Work1(w) \/ Crash(w)
  BY <1>2, ClaimTyped, PersistTyped, DoneTyped, CrashTyped DEF Work1
<1>3. CASE Time
  BY <1>3, TimeTyped DEF Time
<1>4. CASE Reviewing
  BY <1>4, ApproveTyped, BeginRejectTyped, RejectTyped, RefineTyped, RefinedTyped, EndedTyped
     DEF Reviewing
<1>5. CASE UNCHANGED vars
  BY <1>5 DEF vars, TypeOK
<1>6. QED
  BY <1>1, <1>2, <1>3, <1>4, <1>5 DEF Next

LEMMA InitTyped == Init => TypeOK
  BY IdleType, NoRejectionType DEF Init, TypeOK

(***************************************************************************)
(* Whatever requests, workers and reviews do, the rows keep their types, a *)
(* lease has a holder exactly while its job runs, and no process holds a   *)
(* row that is not there.                                                  *)
(***************************************************************************)
THEOREM JobsTypeCorrect == Spec => []TypeOK
  BY InitTyped, NextTyped, PTL DEF Spec

-----------------------------------------------------------------------------
(* One active job of a shape and owner *)

\* A job that changes is active only if it was, or if the index admits it.
LEMMA BecomesOne ==
    ASSUME TypeOK, OneActiveJob, NEW j \in DOMAIN jobs, NEW s, NEW h, Becomes(j, s, h),
           s \in {"queued", "running"} =>
               Active(j) \/ IndexAdmits(j, jobs[j].key, jobs[j].scope)
    PROVE  OneActiveJob'
<1> SUFFICES ASSUME NEW a \in DOMAIN jobs', NEW b \in DOMAIN jobs',
                    Active(a)', Active(b)', jobs'[a].key = jobs'[b].key,
                    jobs'[a].scope = jobs'[b].scope, a # b
             PROVE  FALSE
  BY DEF OneActiveJob
<1>1. /\ DOMAIN jobs' = DOMAIN jobs
      /\ \A i \in DOMAIN jobs : i # j => jobs'[i] = jobs[i]
  BY DEF Becomes, OnlyJob
<1>2. CASE a # j /\ b # j
  BY <1>1, <1>2 DEF OneActiveJob, Active
<1>3. ASSUME NEW i \in DOMAIN jobs, i # j, Active(i)', Active(j)',
             jobs'[i].key = jobs'[j].key, jobs'[i].scope = jobs'[j].scope
      PROVE  FALSE
  <2>1. Active(i) /\ jobs[i].key = jobs[j].key /\ jobs[i].scope = jobs[j].scope
    BY <1>1, <1>3 DEF Active, Becomes
  <2>2. s \in {"queued", "running"}
    BY <1>3 DEF Active, Becomes
  <2>3. ~Active(j)
    BY <1>3, <2>1 DEF OneActiveJob
  <2>4. ~IndexAdmits(j, jobs[j].key, jobs[j].scope)
    BY <1>3, <2>1 DEF IndexAdmits
  <2>5. QED
    BY <2>2, <2>3, <2>4
<1>4. QED
  BY <1>1, <1>2, <1>3

LEMMA InsertOne ==
    ASSUME TypeOK, OneActiveJob, NEW f \in Filer, Insert(f)
    PROVE  OneActiveJob'
<1>1. CASE jobs' = jobs
  BY <1>1 DEF OneActiveJob, Active
<1>2. CASE jobs' # jobs
  <2>1. /\ IndexAdmits(0, asked[f].key, asked[f].scope)
        /\ jobs' = Append(jobs, Inserted(f)) /\ asked[f] # NoJob
    BY <1>2 DEF Insert, Inserted
  <2>2. Inserted(f) \in Job /\ jobs \in Seq(Job)
    BY <2>1, InsertedType DEF TypeOK
  <2> DEFINE n == Len(jobs) + 1
  <2>3. /\ DOMAIN jobs' = DOMAIN jobs \union {n} /\ n \notin DOMAIN jobs
        /\ jobs'[n] = Inserted(f) /\ \A i \in DOMAIN jobs : jobs'[i] = jobs[i]
    BY <2>1, <2>2, JobAdded
  <2> HIDE DEF n
  <2>4. 0 \notin DOMAIN jobs
    BY <2>2
  <2>5. \A i \in DOMAIN jobs :
           ~(jobs[i].key = asked[f].key /\ jobs[i].scope = asked[f].scope /\ Active(i))
    BY <2>1, <2>4 DEF IndexAdmits
  <2>6. \A i \in DOMAIN jobs : Active(i)' <=> Active(i)
    BY <2>3 DEF Active
  <2>7. jobs'[n].key = asked[f].key /\ jobs'[n].scope = asked[f].scope
    BY <2>3 DEF Inserted
  <2>8. QED
    BY <2>3, <2>5, <2>6, <2>7 DEF OneActiveJob
<1>3. QED
  BY <1>1, <1>2

LEMMA NextOne == TypeOK /\ OneActiveJob /\ [Next]_vars => OneActiveJob'
<1> SUFFICES ASSUME TypeOK, OneActiveJob, [Next]_vars PROVE OneActiveJob'
  OBVIOUS
<1>1. CASE jobs' = jobs
  BY <1>1 DEF OneActiveJob, Active
<1>2. CASE \E f \in Filer : Insert(f)
  BY <1>2, InsertOne
<1>3. ASSUME NEW w \in Worker, Claim(w) PROVE OneActiveJob'
  <2>1. PICK j \in DOMAIN jobs : Claimable(j) /\ Becomes(j, "running", w)
    BY <1>3, ClaimEffect
  <2>2. Active(j)
    BY <2>1 DEF Claimable, Active
  <2>3. QED
    BY <2>1, <2>2, BecomesOne
<1>4. ASSUME NEW w \in Worker, Complete(w) \/ Fail(w) \/ Exhaust(w), jobs' # jobs
      PROVE  OneActiveJob'
  <2>1. \E j \in DOMAIN jobs, s \in {"succeeded", "failed", "needs_manual"} :
            Becomes(j, s, NoWorker)
    BY <1>4, CompleteEffect, FailEffect, ExhaustEffect
  <2>2. QED
    BY <2>1, BecomesOne
<1>5. ASSUME NEW j \in DOMAIN jobs, LeaseRunsOut(j) \/ Overrun(j) \/ CooldownEnds(j)
      PROVE  OneActiveJob'
  <2>1. Becomes(j, jobs[j].status, jobs[j].holder)
    BY <1>5, TimeEffect
  <2>2. QED
    BY <2>1, BecomesOne DEF Active
<1>6. ASSUME NEW v \in Review, GiveUp(v) PROVE OneActiveJob'
  BY <1>6, GiveUpEffect, BecomesOne
<1>7. ASSUME NEW v \in Review, Requeue(v), jobs' # jobs PROVE OneActiveJob'
  BY <1>7, RequeueEffect, BecomesOne
<1>8. ASSUME NEW v \in Review, Refine(v) \/ Refined(v) \/ RefineFailed(v) \/ Abandon(v)
      PROVE  jobs' = jobs
  BY <1>8 DEF Refine, Refined, RefineFailed, Abandon
<1>9. ASSUME NEW d \in DOMAIN drafts,
             \/ \E byTeacher, shared \in BOOLEAN : Approve(d, byTeacher, shared)
             \/ \E v \in Review, path \in {"requeue", "refine"} : BeginReject(v, d, path)
      PROVE  jobs' = jobs
  BY <1>9 DEF Approve, BeginReject
<1>10. ASSUME NEW w \in Worker, Persist(w) \/ Crash(w) PROVE jobs' = jobs
  BY <1>10 DEF Persist, Crash
<1>11. CASE Requests
  BY <1>1, <1>2, <1>11 DEF Requests, Observe, AskByThreshold, AskOnDemand, Ask
<1>12. CASE UNCHANGED vars
  BY <1>1, <1>12 DEF vars
<1>13. CASE \E w \in Worker : Work1(w) \/ Crash(w)
  BY <1>1, <1>3, <1>4, <1>10, <1>13 DEF Work1
<1>14. CASE Time
  BY <1>5, <1>14 DEF Time
<1>15. CASE Reviewing
  BY <1>1, <1>6, <1>7, <1>8, <1>9, <1>15 DEF Reviewing
<1>16. QED
  BY <1>11, <1>12, <1>13, <1>14, <1>15 DEF Next

(***************************************************************************)
(* An owner never has two builds of one shape in flight, for any number of *)
(* requests that race to insert one and of rejections that make a finished *)
(* job active again (uq_active_job_per_fingerprint).                       *)
(***************************************************************************)
THEOREM OneJobInFlight == Spec => []OneActiveJob
<1>1. Init => OneActiveJob
  BY DEF Init, OneActiveJob
<1>2. QED
  BY <1>1, InitTyped, NextTyped, NextOne, PTL DEF Spec

-----------------------------------------------------------------------------
(* What a step may do to drafts, jobs and leases *)

\* No draft goes away or changes its job, its revision or its parent.
DraftsGrow ==
    /\ DOMAIN drafts \subseteq DOMAIN drafts'
    /\ \A d \in DOMAIN drafts :
         /\ drafts'[d].job = drafts[d].job
         /\ drafts'[d].revision = drafts[d].revision
         /\ drafts'[d].parent = drafts[d].parent

LEMMA OnlyDraftGrows ==
    ASSUME NEW d \in DOMAIN drafts, OnlyDraft(d)
    PROVE  DraftsGrow
  BY DEF OnlyDraft, DraftsGrow

LEMMA AppendGrows ==
    ASSUME TypeOK, NEW r \in Draft, drafts' = Append(drafts, r)
    PROVE  DraftsGrow
  BY DraftAdded DEF DraftsGrow, TypeOK

\* The drafts of d that the next state has, one action at a time: kept,
\* changed in status and mark, or joined by a new one that nobody has marked.
LEMMA DraftsStep ==
    ASSUME TypeOK, [Next]_vars
    PROVE  /\ DraftsGrow
           /\ \/ drafts' = drafts
              \/ \E d \in DOMAIN drafts : OnlyDraft(d)
              \/ \E w \in Worker : Persist(w)
              \/ \E v \in Review : Refined(v)
<1>1. CASE drafts' = drafts
  BY <1>1 DEF DraftsGrow
<1>2. ASSUME NEW w \in Worker, Persist(w) PROVE DraftsGrow
  BY <1>2, PersistEffect, AppendGrows
<1>3. ASSUME NEW v \in Review, Refined(v) PROVE DraftsGrow
  BY <1>3, RefinedEffect, AppendGrows
<1>4. CASE \E d \in DOMAIN drafts : OnlyDraft(d)
  BY <1>4, OnlyDraftGrows
<1>5. ASSUME NEW v \in Review, GiveUp(v) \/ Requeue(v) \/ Refine(v) \/ RefineFailed(v)
      PROVE  drafts' = drafts \/ \E d \in DOMAIN drafts : OnlyDraft(d)
  BY <1>5, GiveUpEffect, RequeueEffect, RefineEffect, RefineFailedEffect
<1>6. ASSUME NEW d \in DOMAIN drafts, NEW byTeacher \in BOOLEAN, NEW shared \in BOOLEAN,
             Approve(d, byTeacher, shared)
      PROVE  OnlyDraft(d)
  BY <1>6, ApproveEffect
<1>7. ASSUME \/ Requests
             \/ \E w \in Worker : Claim(w) \/ Complete(w) \/ Fail(w) \/ Exhaust(w) \/ Crash(w)
             \/ Time
             \/ \E v \in Review : Abandon(v)
             \/ \E d \in DOMAIN drafts, v \in Review, path \in {"requeue", "refine"} :
                   BeginReject(v, d, path)
             \/ UNCHANGED vars
      PROVE  drafts' = drafts
  BY <1>7 DEF Requests, Observe, AskByThreshold, AskOnDemand, Ask, Insert, Claim, Complete,
              Fail, Exhaust, Crash, Time, LeaseRunsOut, Overrun, CooldownEnds, Lapse,
              Abandon, BeginReject, vars
<1>8. CASE Reviewing
  BY <1>1, <1>3, <1>4, <1>5, <1>6, <1>7, <1>8 DEF Reviewing
<1>9. CASE \E w \in Worker : Work1(w) \/ Crash(w)
  BY <1>1, <1>2, <1>7, <1>9 DEF Work1
<1>10. QED
  BY <1>1, <1>7, <1>8, <1>9 DEF Next

\* What a step may do to job j: leave its lease alone, end it, lease it to a
\* worker that claims it, or let its holder complete it.
JobMoves(j) ==
    /\ j \in DOMAIN jobs'
    /\ \/ jobs'[j].status = jobs[j].status /\ jobs'[j].holder = jobs[j].holder
       \/ /\ jobs'[j].holder = NoWorker
          /\ jobs'[j].status \in {"failed", "needs_manual", "queued"}
       \/ \E w \in Worker : /\ Claim(w) /\ jobs'[j].holder = w
                            /\ jobs'[j].status = "running"
       \/ \E w \in Worker : /\ Complete(w) /\ Holds(w) /\ work[w].job = j
                            /\ jobs'[j].holder = NoWorker

\* Every step moves a job that was there in one of these ways.
LEMMA JobStep ==
    ASSUME TypeOK, [Next]_vars, NEW j \in DOMAIN jobs
    PROVE  JobMoves(j)
<1>1. ASSUME jobs' = jobs PROVE JobMoves(j)
  BY <1>1 DEF JobMoves
<1>2. ASSUME NEW i \in DOMAIN jobs, OnlyJob(i), i # j PROVE JobMoves(j)
  BY <1>2 DEF OnlyJob, JobMoves
<1>3. ASSUME NEW i \in DOMAIN jobs, NEW s \in {"failed", "needs_manual", "queued"},
             Becomes(i, s, NoWorker)
      PROVE  JobMoves(j)
  BY <1>2, <1>3 DEF Becomes, OnlyJob, JobMoves
<1>4. ASSUME NEW f \in Filer, Insert(f) PROVE JobMoves(j)
  <2>1. CASE jobs' = jobs
    BY <1>1, <2>1
  <2>2. CASE jobs' # jobs
    <3>1. jobs' = Append(jobs, Inserted(f)) /\ asked[f] # NoJob
      BY <1>4, <2>2 DEF Insert, Inserted
    <3>2. Inserted(f) \in Job /\ jobs \in Seq(Job)
      BY <3>1, InsertedType DEF TypeOK
    <3>3. j \in DOMAIN jobs' /\ jobs'[j] = jobs[j]
      BY <3>1, <3>2, JobAdded
    <3>4. QED
      BY <3>3 DEF JobMoves
  <2>3. QED
    BY <2>1, <2>2
<1>5. ASSUME NEW w \in Worker, Claim(w) PROVE JobMoves(j)
  <2>1. PICK i \in DOMAIN jobs : Becomes(i, "running", w)
    BY <1>5, ClaimEffect
  <2>2. QED
    BY <1>2, <1>5, <2>1 DEF Becomes, OnlyJob, JobMoves
<1>6. ASSUME NEW w \in Worker, Complete(w) PROVE JobMoves(j)
  <2>1. CASE Holds(w) /\ Becomes(work[w].job, "succeeded", NoWorker)
    BY <1>2, <1>6, <2>1, CompleteEffect DEF Becomes, OnlyJob, JobMoves
  <2>2. QED
    BY <1>1, <1>6, <2>1, CompleteEffect
<1>7. ASSUME NEW w \in Worker, Fail(w) \/ Exhaust(w) PROVE JobMoves(j)
  BY <1>1, <1>3, <1>7, FailEffect, ExhaustEffect
<1>8. ASSUME NEW i \in DOMAIN jobs, LeaseRunsOut(i) \/ Overrun(i) \/ CooldownEnds(i)
      PROVE  JobMoves(j)
  <2>1. Becomes(i, jobs[i].status, jobs[i].holder)
    BY <1>8, TimeEffect
  <2>2. QED
    BY <1>2, <2>1 DEF Becomes, OnlyJob, JobMoves
<1>9. ASSUME NEW v \in Review, GiveUp(v) \/ Requeue(v) PROVE JobMoves(j)
  BY <1>1, <1>3, <1>9, GiveUpEffect, RequeueEffect
<1>10. ASSUME NEW w \in Worker, Persist(w) \/ Crash(w) PROVE jobs' = jobs
  BY <1>10 DEF Persist, Crash
<1>11. ASSUME NEW v \in Review, Refine(v) \/ Refined(v) \/ RefineFailed(v) \/ Abandon(v)
       PROVE  jobs' = jobs
  BY <1>11 DEF Refine, Refined, RefineFailed, Abandon
<1>12. CASE Requests
  <2>1. ASSUME NEW k \in Key, Observe(k) PROVE jobs' = jobs
    BY <2>1 DEF Observe
  <2>2. ASSUME NEW f \in Filer, NEW k \in Key,
               AskByThreshold(f, k) \/ \E t \in Teacher : AskOnDemand(f, k, t)
        PROVE  jobs' = jobs
    BY <2>2 DEF AskByThreshold, AskOnDemand, Ask
  <2>3. QED
    BY <1>1, <1>4, <1>12, <2>1, <2>2 DEF Requests
<1>13. CASE \E w \in Worker : Work1(w) \/ Crash(w)
  BY <1>1, <1>5, <1>6, <1>7, <1>10, <1>13 DEF Work1
<1>14. CASE Time
  BY <1>8, <1>14 DEF Time
<1>15. CASE Reviewing
  <2>1. ASSUME NEW d \in DOMAIN drafts, NEW byTeacher \in BOOLEAN, NEW shared \in BOOLEAN,
               Approve(d, byTeacher, shared)
        PROVE  jobs' = jobs
    BY <2>1 DEF Approve
  <2>2. ASSUME NEW d \in DOMAIN drafts, NEW v \in Review, NEW path \in {"requeue", "refine"},
               BeginReject(v, d, path)
        PROVE  jobs' = jobs
    BY <2>2 DEF BeginReject
  <2>3. QED
    BY <1>1, <1>9, <1>11, <1>15, <2>1, <2>2 DEF Reviewing
<1>16. CASE UNCHANGED vars
  BY <1>1, <1>16 DEF vars
<1>17. QED
  BY <1>12, <1>13, <1>14, <1>15, <1>16 DEF Next

\* A job that was not there is queued.
LEMMA NewJobStep ==
    ASSUME TypeOK, [Next]_vars, NEW j \in DOMAIN jobs', j \notin DOMAIN jobs
    PROVE  jobs'[j].status = "queued"
<1>1. ASSUME NEW f \in Filer, Insert(f) PROVE jobs'[j].status = "queued"
  <2>1. jobs' = Append(jobs, Inserted(f)) /\ asked[f] # NoJob
    BY <1>1 DEF Insert, Inserted
  <2>2. Inserted(f) \in Job /\ jobs \in Seq(Job)
    BY <1>1, <2>1, InsertedType DEF TypeOK
  <2>3. jobs'[j] = Inserted(f)
    BY <2>1, <2>2, JobAdded
  <2>4. QED
    BY <2>3 DEF Inserted
<1>2. \A i \in DOMAIN jobs : \A s, h : ~Becomes(i, s, h)
  BY DEF Becomes, OnlyJob
<1>3. jobs' # jobs
  OBVIOUS
<1>4. ~Time
  BY <1>2, TimeEffect DEF Time
<1>5. ~\E w \in Worker : Work1(w) \/ Crash(w)
  <2>1. ASSUME NEW w \in Worker PROVE ~Claim(w)
    BY <1>2, ClaimEffect
  <2>2. ASSUME NEW w \in Worker PROVE ~Complete(w) /\ ~Fail(w) /\ ~Exhaust(w)
    BY <1>2, <1>3, CompleteEffect, FailEffect, ExhaustEffect
  <2>3. QED
    BY <1>3, <2>1, <2>2 DEF Work1, Persist, Crash
<1>6. ~Reviewing
  <2>1. ASSUME NEW v \in Review PROVE ~GiveUp(v) /\ ~Requeue(v)
    BY <1>2, <1>3, GiveUpEffect, RequeueEffect
  <2>2. QED
    BY <1>3, <2>1 DEF Reviewing, Approve, BeginReject, Refine, Refined, RefineFailed, Abandon
<1>7. Requests
  BY <1>3, <1>4, <1>5, <1>6 DEF Next, vars
<1>8. QED
  BY <1>1, <1>3, <1>7 DEF Requests, Observe, AskByThreshold, AskOnDemand, Ask

\* What a step may do to what worker w holds.
LEMMA WorkStep ==
    ASSUME TypeOK, [Next]_vars, NEW w \in Worker
    PROVE  work'[w] = work[w] \/ work'[w] = Idle \/ Claim(w) \/ Persist(w)
<1>1. CASE work' = work
  BY <1>1
<1>2. ASSUME NEW x \in Worker, NEW u, work' = [work EXCEPT ![x] = u], x # w
      PROVE  work'[w] = work[w]
  BY <1>2 DEF TypeOK
<1>3. ASSUME NEW x \in Worker, Complete(x) \/ Fail(x) \/ Exhaust(x) \/ Crash(x)
      PROVE  work'[w] = work[w] \/ work'[w] = Idle
  <2>1. work' = [work EXCEPT ![x] = Idle]
    BY <1>3 DEF Complete, Fail, Exhaust, Crash
  <2>2. QED
    BY <2>1 DEF TypeOK
<1>4. ASSUME NEW x \in Worker, Claim(x) \/ Persist(x), x # w
      PROVE  work'[w] = work[w]
  BY <1>2, <1>4, ClaimEffect, PersistEffect
<1>5. CASE \E x \in Worker : Work1(x) \/ Crash(x)
  BY <1>3, <1>4, <1>5 DEF Work1
<1>6. CASE Requests
  BY <1>1, <1>6 DEF Requests, Observe, AskByThreshold, AskOnDemand, Ask, Insert
<1>7. CASE Time
  BY <1>1, <1>7 DEF Time, LeaseRunsOut, Overrun, CooldownEnds, Lapse
<1>8. CASE Reviewing
  BY <1>1, <1>8 DEF Reviewing, Approve, BeginReject, GiveUp, Requeue, Refine, Refined,
                    RefineFailed, Abandon
<1>9. CASE UNCHANGED vars
  BY <1>1, <1>9 DEF vars
<1>10. QED
  BY <1>5, <1>6, <1>7, <1>8, <1>9 DEF Next

-----------------------------------------------------------------------------
(* A job that has succeeded has left a draft *)

\* So has one whose worker is about to complete it.
PersistedHasDraft ==
    \A w \in Worker : work[w].at = "persisted" =>
        \E d \in DOMAIN drafts : drafts[d].job = work[w].job

LEMMA PersistedKept ==
    ASSUME TypeOK, PersistedHasDraft, [Next]_vars
    PROVE  PersistedHasDraft'
<1> SUFFICES ASSUME NEW w \in Worker, work'[w].at = "persisted"
             PROVE  \E d \in DOMAIN drafts' : drafts'[d].job = work'[w].job
  BY DEF PersistedHasDraft
<1>1. CASE work'[w] = work[w]
  <2>1. PICK d \in DOMAIN drafts : drafts[d].job = work[w].job
    BY <1>1 DEF PersistedHasDraft
  <2>2. QED
    BY <1>1, <2>1, DraftsStep DEF DraftsGrow
<1>2. CASE Persist(w)
  <2>1. /\ Made(w) \in Draft /\ drafts' = Append(drafts, Made(w))
        /\ \E u \in Work : work' = [work EXCEPT ![w] = u] /\ u.job = work[w].job
    BY <1>2, PersistEffect
  <2>2. work'[w].job = work[w].job
    BY <2>1 DEF TypeOK
  <2>3. Len(drafts) + 1 \in DOMAIN drafts' /\ drafts'[Len(drafts) + 1] = Made(w)
    BY <2>1, DraftAdded DEF TypeOK
  <2>4. QED
    BY <2>2, <2>3 DEF Made
<1>3. CASE Claim(w)
  <2>1. PICK u \in Work : work' = [work EXCEPT ![w] = u] /\ u.at = "generating"
    BY <1>3, ClaimEffect
  <2>2. QED
    BY <2>1 DEF TypeOK
<1>4. QED
  BY <1>1, <1>2, <1>3, WorkStep, IdleType

LEMMA SucceededKept ==
    ASSUME TypeOK, PersistedHasDraft, SucceededHasDraft, [Next]_vars
    PROVE  SucceededHasDraft'
<1> SUFFICES ASSUME NEW j \in DOMAIN jobs', jobs'[j].status = "succeeded"
             PROVE  \E d \in DOMAIN drafts' : drafts'[d].job = j
  BY DEF SucceededHasDraft
<1>1. j \in DOMAIN jobs
  BY NewJobStep
<1>2. \E d \in DOMAIN drafts : drafts[d].job = j
  <2>1. CASE jobs[j].status = "succeeded"
    BY <1>1, <2>1 DEF SucceededHasDraft
  <2>2. CASE \E w \in Worker : Complete(w) /\ work[w].job = j
    BY <2>2 DEF Complete, HasPersisted, PersistedHasDraft
  <2>3. QED
    BY <1>1, <2>1, <2>2, JobStep DEF JobMoves
<1>3. QED
  BY <1>2, DraftsStep DEF DraftsGrow

(***************************************************************************)
(* No lapse, crash or late completion makes a job succeed that no draft    *)
(* was persisted for (persist_reviewable_draft, complete_job).             *)
(***************************************************************************)
THEOREM SuccessLeavesDraft == Spec => []SucceededHasDraft
<1>1. Init => PersistedHasDraft /\ SucceededHasDraft
  BY IdleType DEF Init, PersistedHasDraft, SucceededHasDraft
<1>2. QED
  BY <1>1, InitTyped, NextTyped, PersistedKept, SucceededKept, PTL DEF Spec

-----------------------------------------------------------------------------
(* The drafts of a job are a chain of revisions *)

\* What a worker holds is the first revision, or the next one of a draft.
HeldRooted ==
    \A w \in Worker : work[w].at # "idle" =>
        LET p == work[w].parent IN
        IF p = 0 THEN work[w].revision = 1
        ELSE p \in DOMAIN drafts /\ drafts[p].job = work[w].job
                                 /\ work[w].revision = drafts[p].revision + 1

LEMMA ClaimRooted ==
    ASSUME TypeOK, NEW w \in Worker, Claim(w)
    PROVE  LET p == work'[w].parent IN
           IF p = 0 THEN work'[w].revision = 1
           ELSE p \in DOMAIN drafts /\ drafts[p].job = work'[w].job
                                    /\ work'[w].revision = drafts[p].revision + 1
<1>1. PICK j \in DOMAIN jobs, u \in Work :
         /\ work' = [work EXCEPT ![w] = u] /\ u.job = j
         /\ \/ u.parent = 0 /\ u.revision = 1
            \/ \E d \in LatestRejection(j) :
                 u.parent = d /\ u.revision = drafts[d].revision + 1
  BY ClaimEffect
<1>2. work'[w] = u
  BY <1>1 DEF TypeOK
<1>3. \A d \in LatestRejection(j) : d \in DOMAIN drafts /\ d # 0 /\ drafts[d].job = j
  BY DEF LatestRejection, Rejections, TypeOK
<1>4. QED
  BY <1>1, <1>2, <1>3

LEMMA RootedKept ==
    ASSUME TypeOK, HeldRooted, [Next]_vars
    PROVE  HeldRooted'
<1> SUFFICES ASSUME NEW w \in Worker, work'[w].at # "idle"
             PROVE  LET p == work'[w].parent IN
                    IF p = 0 THEN work'[w].revision = 1
                    ELSE p \in DOMAIN drafts' /\ drafts'[p].job = work'[w].job
                                              /\ work'[w].revision = drafts'[p].revision + 1
  BY DEF HeldRooted
<1>1. DraftsGrow
  BY DraftsStep
<1>2. CASE work'[w] = work[w]
  BY <1>1, <1>2 DEF HeldRooted, DraftsGrow
<1>3. CASE Persist(w)
  <2>1. /\ work'[w].job = work[w].job /\ work'[w].revision = work[w].revision
        /\ work'[w].parent = work[w].parent /\ work[w].at # "idle"
    BY <1>3 DEF Persist, TypeOK, Work
  <2>2. QED
    BY <1>1, <2>1 DEF HeldRooted, DraftsGrow
<1>4. CASE Claim(w)
  BY <1>1, <1>4, ClaimRooted DEF DraftsGrow
<1>5. QED
  BY <1>2, <1>3, <1>4, WorkStep, IdleType

\* A draft appended after its parent continues the chain.
LEMMA AppendChain ==
    ASSUME TypeOK, RevisionChain, NEW r \in Draft, drafts' = Append(drafts, r),
           IF r.parent = 0 THEN r.revision = 1
           ELSE r.parent \in DOMAIN drafts /\ drafts[r.parent].job = r.job
                                           /\ r.revision = drafts[r.parent].revision + 1
    PROVE  RevisionChain'
<1> DEFINE n == Len(drafts) + 1
<1>1. /\ DOMAIN drafts' = DOMAIN drafts \union {n} /\ drafts'[n] = r
      /\ \A d \in DOMAIN drafts : drafts'[d] = drafts[d]
  BY DraftAdded DEF TypeOK
<1>2. DOMAIN drafts = 1..n - 1 /\ n \in Nat
  BY DEF TypeOK
<1> HIDE DEF n
<1>3. ASSUME NEW d \in DOMAIN drafts
      PROVE  LET p == drafts'[d].parent IN
             IF p = 0 THEN drafts'[d].revision = 1
             ELSE p \in 1..d - 1 /\ drafts'[p].job = drafts'[d].job
                                 /\ drafts'[d].revision = drafts'[p].revision + 1
  <2>1. 1..d - 1 \subseteq DOMAIN drafts
    BY <1>2
  <2>2. QED
    BY <1>1, <2>1 DEF RevisionChain
<1>4. LET p == drafts'[n].parent IN
      IF p = 0 THEN drafts'[n].revision = 1
      ELSE p \in 1..n - 1 /\ drafts'[p].job = drafts'[n].job
                          /\ drafts'[n].revision = drafts'[p].revision + 1
  BY <1>1, <1>2
<1>5. QED
  BY <1>1, <1>3, <1>4 DEF RevisionChain

LEMMA ChainKept ==
    ASSUME TypeOK, HeldRooted, RevisionChain, [Next]_vars
    PROVE  RevisionChain'
<1>1. CASE drafts' = drafts
  BY <1>1 DEF RevisionChain
<1>2. CASE \E d \in DOMAIN drafts : OnlyDraft(d)
  <2>1. DOMAIN drafts' = DOMAIN drafts /\ DraftsGrow
    BY <1>2, OnlyDraftGrows DEF OnlyDraft
  <2>2. \A d \in DOMAIN drafts : 1..d - 1 \subseteq DOMAIN drafts
    BY DEF TypeOK
  <2>3. QED
    BY <2>1, <2>2 DEF RevisionChain, DraftsGrow
<1>3. ASSUME NEW w \in Worker, Persist(w) PROVE RevisionChain'
  <2>1. Made(w) \in Draft /\ drafts' = Append(drafts, Made(w))
    BY <1>3, PersistEffect
  <2>2. work[w].at # "idle"
    BY <1>3 DEF Persist
  <2>3. QED
    BY <2>1, <2>2, AppendChain DEF HeldRooted, Made
<1>4. ASSUME NEW v \in Review, Refined(v) PROVE RevisionChain'
  <2>1. /\ MadeInline(v) \in Draft /\ drafts' = Append(drafts, MadeInline(v))
        /\ review[v].draft \in DOMAIN drafts
    BY <1>4, RefinedEffect
  <2>2. review[v].draft # 0
    BY <2>1 DEF TypeOK
  <2>3. QED
    BY <2>1, <2>2, AppendChain DEF MadeInline, Rejected
<1>5. QED
  BY <1>1, <1>2, <1>3, <1>4, DraftsStep

(***************************************************************************)
(* However workers with lapsed leases and inline refinements fork them,    *)
(* the drafts of a job stay a chain that ends at a first revision: what    *)
(* _attempts of the review page walks never loops and never breaks off.    *)
(***************************************************************************)
THEOREM DraftsChain == Spec => []RevisionChain
<1>1. Init => HeldRooted /\ RevisionChain
  BY IdleType DEF Init, HeldRooted, RevisionChain
<1>2. QED
  BY <1>1, InitTyped, NextTyped, RootedKept, ChainKept, PTL DEF Spec

-----------------------------------------------------------------------------
(* A rejection that sends its job back is answered *)

Answered(d) ==
    \E e \in DOMAIN drafts :
        drafts[e].job = drafts[d].job /\ drafts[e].revision > drafts[d].revision

\* A worker that may still complete the job of d brings the answer with it: it
\* generates a higher revision, or has persisted one.
Pending(w, d) ==
    Holds(w) /\ work[w].at # "idle" /\ work[w].job = drafts[d].job
        => \/ Answered(d)
           \/ work[w].at = "generating" /\ work[w].revision > drafts[d].revision

\* What stands of a rejection that sent its job back, until it is answered.
Standing ==
    \A d \in DOMAIN drafts : drafts[d].sentBack =>
        /\ drafts[d].status = "rejected"
        /\ jobs[drafts[d].job].status = "succeeded" => Answered(d)
        /\ \A w \in Worker : Pending(w, d)

LEMMA AnsweredStays ==
    ASSUME TypeOK, [Next]_vars, NEW d \in DOMAIN drafts, Answered(d)
    PROVE  Answered(d)'
  BY DraftsStep DEF DraftsGrow, Answered

\* Where a mark comes from: it was there, and a rejection stays one, or the
\* rejection has just put the job in the queue, without a holder.
MarkMoves(d) ==
    drafts'[d].sentBack =>
        /\ d \in DOMAIN drafts
        /\ \/ /\ drafts[d].sentBack
              /\ drafts[d].status = "rejected" => drafts'[d].status = "rejected"
           \/ /\ drafts'[d].status = "rejected"
              /\ drafts[d].job \in DOMAIN jobs
              /\ jobs'[drafts[d].job].status = "queued"
              /\ jobs'[drafts[d].job].holder = NoWorker

LEMMA MarkKept ==
    ASSUME NEW d \in DOMAIN drafts, NEW c \in DOMAIN drafts, OnlyDraft(c),
           drafts'[c].sentBack => drafts[c].sentBack,
           drafts[c].status = "rejected" => ~drafts'[c].sentBack \/ drafts'[c].status = "rejected"
    PROVE  MarkMoves(d)
  BY DEF OnlyDraft, MarkMoves

LEMMA MarkAppended ==
    ASSUME TypeOK, NEW r \in Draft, drafts' = Append(drafts, r), ~r.sentBack,
           NEW d \in DOMAIN drafts'
    PROVE  MarkMoves(d)
  BY DraftAdded DEF TypeOK, MarkMoves

LEMMA MarkStep ==
    ASSUME TypeOK, [Next]_vars, NEW d \in DOMAIN drafts'
    PROVE  MarkMoves(d)
<1>1. ASSUME drafts' = drafts PROVE MarkMoves(d)
  BY <1>1 DEF MarkMoves
<1>2. ASSUME NEW w \in Worker, Persist(w) PROVE MarkMoves(d)
  BY <1>2, PersistEffect, MarkAppended DEF Made
<1>3. ASSUME NEW v \in Review, Refined(v) PROVE MarkMoves(d)
  BY <1>3, RefinedEffect, MarkAppended DEF MadeInline
<1>4. ASSUME NEW v \in Review, GiveUp(v) \/ Refine(v) PROVE MarkMoves(d)
  <2>1. /\ review[v].draft \in DOMAIN drafts /\ OnlyDraft(review[v].draft)
        /\ drafts'[review[v].draft].status = "rejected"
        /\ drafts'[review[v].draft].sentBack = drafts[review[v].draft].sentBack
    BY <1>4, GiveUpEffect, RefineEffect
  <2>2. QED
    BY <2>1, MarkKept DEF OnlyDraft
<1>5. ASSUME NEW v \in Review, RefineFailed(v) PROVE MarkMoves(d)
  <2>1. \/ drafts' = drafts
        \/ /\ review[v].draft \in DOMAIN drafts /\ OnlyDraft(review[v].draft)
           /\ drafts'[review[v].draft].sentBack = FALSE
    BY <1>5, RefineFailedEffect
  <2>2. QED
    BY <1>1, <2>1, MarkKept DEF OnlyDraft
<1>6. ASSUME NEW c \in DOMAIN drafts, NEW byTeacher \in BOOLEAN, NEW shared \in BOOLEAN,
             Approve(c, byTeacher, shared)
      PROVE  MarkMoves(d)
  <2>1. /\ OnlyDraft(c) /\ drafts'[c].sentBack = drafts[c].sentBack
        /\ drafts[c].status # "rejected"
    BY <1>6, ApproveEffect DEF Approve
  <2>2. QED
    BY <2>1, MarkKept DEF OnlyDraft
<1>7. ASSUME NEW v \in Review, Requeue(v) PROVE MarkMoves(d)
  <2> DEFINE c == review[v].draft
             j == Rejected(v).job
  <2>1. CASE drafts' = drafts
    BY <1>1, <2>1
  <2>2. CASE drafts' # drafts
    <3>1. /\ c \in DOMAIN drafts /\ j \in DOMAIN jobs /\ j = drafts[c].job
          /\ Becomes(j, "queued", NoWorker) /\ OnlyDraft(c)
          /\ drafts'[c].status = "rejected"
      BY <1>7, <2>2, RequeueEffect DEF Rejected
    <3> HIDE DEF c, j
    <3>2. QED
      BY <3>1 DEF MarkMoves, OnlyDraft, Becomes
  <2>3. QED
    BY <2>1, <2>2
<1>8. CASE Reviewing
  <2>1. ASSUME NEW v \in Review, Abandon(v) PROVE drafts' = drafts
    BY <2>1 DEF Abandon
  <2>2. ASSUME NEW c \in DOMAIN drafts, NEW v \in Review, NEW path \in {"requeue", "refine"},
               BeginReject(v, c, path)
        PROVE  drafts' = drafts
    BY <2>2 DEF BeginReject
  <2>3. QED
    BY <1>1, <1>3, <1>4, <1>5, <1>6, <1>7, <1>8, <2>1, <2>2 DEF Reviewing
<1>9. CASE \E w \in Worker : Work1(w) \/ Crash(w)
  <2>1. ASSUME NEW w \in Worker, Claim(w) \/ Complete(w) \/ Fail(w) \/ Exhaust(w) \/ Crash(w)
        PROVE  drafts' = drafts
    BY <2>1 DEF Claim, Complete, Fail, Exhaust, Crash
  <2>2. QED
    BY <1>1, <1>2, <1>9, <2>1 DEF Work1
<1>10. CASE Requests
  <2>1. drafts' = drafts
    BY <1>10 DEF Requests, Observe, AskByThreshold, AskOnDemand, Ask, Insert
  <2>2. QED
    BY <1>1, <2>1
<1>11. CASE Time
  <2>1. drafts' = drafts
    BY <1>11 DEF Time, LeaseRunsOut, Overrun, CooldownEnds, Lapse
  <2>2. QED
    BY <1>1, <2>1
<1>12. CASE UNCHANGED vars
  BY <1>1, <1>12 DEF vars
<1>13. QED
  BY <1>8, <1>9, <1>10, <1>11, <1>12 DEF Next

\* A worker that holds its job after a step has claimed it in the step, or
\* held it before.
LEMMA HoldsStep ==
    ASSUME TypeOK, [Next]_vars, NEW w \in Worker, work'[w].at # "idle", Holds(w)'
    PROVE  \/ Claim(w)
           \/ /\ Holds(w) /\ work[w].at # "idle" /\ work'[w].job = work[w].job
              /\ work'[w] = work[w] \/ Persist(w)
<1>1. SUFFICES ASSUME ~Claim(w) PROVE
           /\ Holds(w) /\ work[w].at # "idle" /\ work'[w].job = work[w].job
           /\ work'[w] = work[w] \/ Persist(w)
  OBVIOUS
<1>2. work'[w] = work[w] \/ Persist(w)
  BY <1>1, WorkStep, IdleType
<1>3. work[w].at # "idle" /\ work'[w].job = work[w].job
  BY <1>2 DEF Persist, TypeOK, Work
<1>4. work[w].job \in DOMAIN jobs
  BY <1>3 DEF TypeOK
<1>5. jobs'[work[w].job].status = "running" /\ jobs'[work[w].job].holder = w
  BY <1>3 DEF Holds
<1>6. Holds(w)
  BY <1>1, <1>4, <1>5, JobStep, WorkerType DEF JobMoves, Holds
<1>7. QED
  BY <1>2, <1>3, <1>6

\* A worker that claims the job of a rejected draft makes a higher revision.
LEMMA ClaimAnswers ==
    ASSUME TypeOK, NEW w \in Worker, Claim(w), NEW d \in DOMAIN drafts,
           drafts[d].status = "rejected", work'[w].job = drafts[d].job
    PROVE  work'[w].at = "generating" /\ work'[w].revision > drafts[d].revision
<1>1. PICK j \in DOMAIN jobs, u \in Work :
         /\ work' = [work EXCEPT ![w] = u] /\ u.at = "generating" /\ u.job = j
         /\ \/ Rejections(j) = {} /\ u.parent = 0 /\ u.revision = 1
            \/ \E e \in LatestRejection(j) :
                 u.parent = e /\ u.revision = drafts[e].revision + 1
  BY ClaimEffect
<1>2. work'[w] = u
  BY <1>1 DEF TypeOK
<1>3. d \in Rejections(j)
  BY <1>1, <1>2 DEF Rejections
<1>4. PICK e \in LatestRejection(j) : u.revision = drafts[e].revision + 1
  BY <1>1, <1>3
<1>5. e \in DOMAIN drafts /\ drafts[d].revision <= drafts[e].revision
  BY <1>3, <1>4 DEF LatestRejection, Rejections
<1>6. drafts[d] \in Draft /\ drafts[e] \in Draft
  BY <1>5 DEF TypeOK
<1>7. drafts[d].revision \in Nat /\ drafts[e].revision \in Nat
  BY <1>6 DEF Draft
<1>8. QED
  BY <1>1, <1>2, <1>4, <1>5, <1>7

LEMMA StandingKept ==
    ASSUME TypeOK, Standing, [Next]_vars
    PROVE  Standing'
<1> SUFFICES ASSUME NEW d \in DOMAIN drafts', drafts'[d].sentBack
             PROVE  /\ drafts'[d].status = "rejected"
                    /\ jobs'[drafts'[d].job].status = "succeeded" => Answered(d)'
                    /\ \A w \in Worker : Pending(w, d)'
  BY DEF Standing
<1>1. d \in DOMAIN drafts
  BY MarkStep DEF MarkMoves
<1> DEFINE j == drafts[d].job
<1>2. /\ drafts'[d].job = j /\ drafts'[d].revision = drafts[d].revision
      /\ j \in DOMAIN jobs
  BY <1>1, DraftsStep DEF DraftsGrow, TypeOK
<1> HIDE DEF j
<1>3. CASE /\ drafts'[d].status = "rejected"
           /\ jobs'[j].status = "queued" /\ jobs'[j].holder = NoWorker
  BY <1>2, <1>3, WorkerType DEF Pending, Holds
<1>4. CASE /\ drafts[d].sentBack
           /\ drafts[d].status = "rejected" => drafts'[d].status = "rejected"
  <2>1. /\ drafts[d].status = "rejected" /\ drafts'[d].status = "rejected"
        /\ jobs[j].status = "succeeded" => Answered(d)
        /\ \A w \in Worker : Pending(w, d)
    BY <1>1, <1>4 DEF Standing, j
  <2>2. ASSUME jobs'[j].status = "succeeded" PROVE Answered(d)'
    <3>1. CASE jobs[j].status = "succeeded"
      BY <1>1, <2>1, <3>1, AnsweredStays
    <3>2. ASSUME NEW w \in Worker, Complete(w), Holds(w), work[w].job = j PROVE Answered(d)'
      <4>1. Answered(d)
        BY <2>1, <3>2 DEF Pending, Complete, HasPersisted, j
      <4>2. QED
        BY <1>1, <4>1, AnsweredStays
    <3>3. QED
      BY <1>2, <2>2, <3>1, <3>2, JobStep DEF JobMoves
  <2>3. ASSUME NEW w \in Worker, work'[w].at # "idle", Holds(w)', work'[w].job = j
        PROVE  \/ Answered(d)'
               \/ work'[w].at = "generating" /\ work'[w].revision > drafts'[d].revision
    <3>1. CASE Claim(w)
      BY <1>1, <1>2, <2>1, <2>3, <3>1, ClaimAnswers DEF j
    <3>2. CASE Answered(d)
      BY <1>1, <3>2, AnsweredStays
    <3>3. CASE /\ Holds(w) /\ work[w].at # "idle" /\ work'[w] = work[w] /\ ~Answered(d)
      BY <1>2, <2>1, <2>3, <3>3 DEF Pending, j
    <3>4. CASE /\ Holds(w) /\ work[w].job = j /\ Persist(w) /\ ~Answered(d)
      <4>1. work[w].at = "generating"
        BY <3>4 DEF Persist
      <4>2. work[w].revision > drafts[d].revision
        BY <2>1, <3>4, <4>1 DEF Pending, j
      <4>3. Made(w) \in Draft /\ drafts' = Append(drafts, Made(w))
        BY <3>4, PersistEffect
      <4>4. Len(drafts) + 1 \in DOMAIN drafts' /\ drafts'[Len(drafts) + 1] = Made(w)
        BY <4>3, DraftAdded DEF TypeOK
      <4>5. Made(w).job = j /\ Made(w).revision > drafts[d].revision
        BY <3>4, <4>2 DEF Made
      <4>6. QED
        BY <1>2, <4>4, <4>5 DEF Answered
    <3>5. QED
      BY <2>3, <3>1, <3>2, <3>3, <3>4, HoldsStep
  <2>4. QED
    BY <1>2, <2>1, <2>2, <2>3 DEF Pending
<1>5. QED
  BY <1>3, <1>4, MarkStep DEF MarkMoves, j

(***************************************************************************)
(* A worker that generated before a rejection and completes after it never *)
(* passes for the answer: after the rejection it no longer holds the job,  *)
(* and whoever claims the job next continues from the latest rejection     *)
(* (requeue_for_refinement, _latest_rejection, complete_job).              *)
(***************************************************************************)
THEOREM RejectionsAnswered == Spec => []RejectionAnswered
<1>1. Init => Standing
  BY DEF Init, Standing
<1>2. Standing => RejectionAnswered
  BY DEF Standing, RejectionAnswered, Answered
<1>3. QED
  BY <1>1, <1>2, InitTyped, NextTyped, StandingKept, PTL DEF Spec
=============================================================================
