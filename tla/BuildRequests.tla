---------------------------- MODULE BuildRequests ---------------------------
(***************************************************************************)
(* A teacher asks for a template for one problem (teacher_api.py): the     *)
(* request is recorded on the session, and a background task tags the      *)
(* problem through the quota, files a job for its shape, and writes the    *)
(* outcome into the request it was started for, be it still recorded or    *)
(* not.  A request that ended with nothing to judge can be cleared.        *)
(*                                                                         *)
(* A request object and its task are one row, numbered in the order they   *)
(* are made, so that a number is the identity of the object.  What workers *)
(* and reviews make of a job is the component of GenerationJobs; here only *)
(* an owner's latest job per shape is followed, with the drafts of it to   *)
(* judge and the number of those still at work on it.                      *)
(***************************************************************************)
EXTENDS BedrockQuota, Sequences

CONSTANTS
    Candidate,      \* problems of the uploaded decks
    Teacher,        \* sessions
    TeacherOf,      \* the session a candidate belongs to
    ClientOf,       \* the address a session comes from
    Shape,          \* fingerprint keys
    None,           \* no shape, no request
    TaggerAttempts, \* fingerprint_tagger_max_attempts
    MaxRequests,    \* requests made at all
    MaxDrafts,      \* drafts of a job to judge at once
    MaxOthers       \* workers that lost a job and rejections of its drafts, at once

ASSUME BuildsAssumption ==
    /\ TeacherOf \in [Candidate -> Teacher] /\ ClientOf \in [Teacher -> Client]
    /\ None \notin Shape
    /\ TaggerAttempts \in Nat \ {0} /\ MaxRequests \in Nat
    /\ MaxDrafts \in Nat /\ MaxOthers \in Nat

VARIABLES
    row,            \* every TemplateRequest made, with its background task
    held,           \* template_requests: the request recorded for a candidate
    tag,            \* the current tag of a candidate's observation
    job,            \* the latest job of a shape and owner, and the request that filed it
    available,      \* the shapes of which a session can reach an enabled version
    clear           \* a clear_build in flight

vars == <<quotaVars, row, held, tag, job, available, clear>>

\* "persisted" is a running job whose draft is in but which is not completed;
\* late counts the workers that lost the job and still generate for it,
\* rejecting the rejections that have read their draft and are not done.
NoJob == [status |-> "none", drafts |-> 0, approved |-> FALSE, late |-> 0, rejecting |-> 0, by |-> 0]

\* The job that request n files.
NewJob(n) == [NoJob EXCEPT !.status = "queued", !.by = n]

Init ==
    /\ QuotaInit
    /\ row = <<>>
    /\ held = [c \in Candidate |-> 0]
    /\ tag = [c \in Candidate |-> None]
    /\ job = [k \in Shape |-> [t \in Teacher |-> NoJob]]
    /\ available = {}
    /\ clear = [at |-> "none"]

-----------------------------------------------------------------------------
(* The request and its task *)

\* request_build: any earlier request of the candidate is replaced.
RequestBuild(c) ==
    /\ Len(row) < MaxRequests
    /\ row' = Append(row, [cand |-> c, at |-> "observing", tries |-> 0, found |-> None,
                           key |-> None, error |-> "none"])
    /\ held' = [held EXCEPT ![c] = Len(row')]
    /\ UNCHANGED <<quotaVars, tag, job, available, clear>>

At(n, stage) == n \in DOMAIN row /\ row[n].at = stage
Owner(n) == TeacherOf[row[n].cand]
Address(n) == ClientOf[Owner(n)]

GoesTo(n, stage) == row' = [row EXCEPT ![n].at = stage]

\* The task returns its outcome, which is not yet in the request.
Returns(n, error) == row' = [row EXCEPT ![n].at = error]

\* The observation is filed; a current tag of it is used again.
Observe(n) ==
    /\ At(n, "observing")
    /\ IF tag[row[n].cand] = None
       THEN GoesTo(n, "ip")
       ELSE row' = [row EXCEPT ![n].at = "checking", ![n].found = tag[row[n].cand]]
    /\ UNCHANGED <<quotaVars, held, tag, job, available, clear>>

AttemptsLeft(n) == row[n].tries + 1 < TaggerAttempts

\* An attempt to tag fails, a refusal of the quota like any other error: it is
\* tried again from the first counter on.
AttemptFails(n) ==
    IF AttemptsLeft(n)
    THEN row' = [row EXCEPT ![n].at = "ip", ![n].tries = @ + 1]
    ELSE row' = [row EXCEPT ![n].at = "untagged", ![n].tries = 0]

PassIp(n) ==
    /\ At(n, "ip")
    /\ \/ TakeIp(Address(n), TRUE) /\ GoesTo(n, "day")
       \/ TakeIp(Address(n), FALSE) /\ AttemptFails(n)
    /\ UNCHANGED <<held, tag, job, available, clear>>

PassDay(n) ==
    /\ At(n, "day")
    /\ \/ TakeDay(TRUE) /\ GoesTo(n, "calling")
       \/ TakeDay(FALSE) /\ AttemptFails(n)
    /\ UNCHANGED <<held, tag, job, available, clear>>

\* The model names a shape, or the call fails, or its answer is no fingerprint.
Converse(n) ==
    /\ At(n, "calling")
    /\ \/ \E k \in Shape : row' = [row EXCEPT ![n].at = "storing", ![n].tries = 0, ![n].found = k]
       \/ AttemptFails(n)
    /\ UNCHANGED <<quotaVars, held, tag, job, available, clear>>

\* store_tag: the new tag is the current one.
StoreTag(n) ==
    /\ At(n, "storing")
    /\ tag' = [tag EXCEPT ![row[n].cand] = row[n].found]
    /\ GoesTo(n, "checking")
    /\ UNCHANGED <<quotaVars, held, job, available, clear>>

Reaches(n) == <<row[n].found, Owner(n)>> \in available

\* has_version_available_to.
CheckAvailable(n) ==
    /\ At(n, "checking")
    /\ IF Reaches(n) THEN Returns(n, "available") ELSE GoesTo(n, "enqueueing")
    /\ UNCHANGED <<quotaVars, held, tag, job, available, clear>>

Active(k, t) == job[k][t].status \in {"queued", "running", "persisted"}

\* Mutant: a request that gets no job is reported like one that does.
OutcomeAlways(filed) == "queued"

OutcomeOf(filed) == IF filed THEN "queued" ELSE "building"

\* enqueue_on_demand looks again for a version, then for an active job, and
\* inserts one.  Whoever loses the race for it is told the same.
EnqueueOnDemand(n) ==
    LET k == row[n].found
        files == ~ Reaches(n) /\ ~ Active(k, Owner(n))
    IN  /\ At(n, "enqueueing")
        /\ job' = IF files THEN [job EXCEPT ![k][Owner(n)] = NewJob(n)] ELSE job
        /\ Returns(n, OutcomeOf(files))
        /\ UNCHANGED <<quotaVars, held, tag, available, clear>>

\* The database refuses a transaction: the task says so and ends.
DatabaseFails(n) ==
    /\ \/ At(n, "observing") \/ At(n, "storing") \/ At(n, "checking") \/ At(n, "enqueueing")
    /\ row' = [row EXCEPT ![n].at = "untagged", ![n].found = IF At(n, "storing") THEN None ELSE @]
    /\ UNCHANGED <<quotaVars, held, tag, job, available, clear>>

\* run_build writes the outcome into its request, under the lock: the shape,
\* if one was found and stored, and what is wrong, if anything.
Report(n) ==
    /\ \E outcome \in {"queued", "building", "available", "untagged"} :
          /\ At(n, outcome)
          /\ row' = [row EXCEPT ![n] =
                 [row[n] EXCEPT !.at = "done", !.tries = 0, !.found = None, !.key = row[n].found,
                                !.error = IF outcome = "queued" THEN "none" ELSE outcome]]
    /\ UNCHANGED <<quotaVars, held, tag, job, available, clear>>

Task(n) ==
    \/ Observe(n)
    \/ PassIp(n)
    \/ PassDay(n)
    \/ Converse(n)
    \/ StoreTag(n)
    \/ CheckAvailable(n)
    \/ EnqueueOnDemand(n)
    \/ DatabaseFails(n)
    \/ Report(n)

-----------------------------------------------------------------------------
(* What becomes of a job *)

JobBecomes(k, t, new) ==
    /\ job' = [job EXCEPT ![k][t] = new]
    /\ UNCHANGED <<quotaVars, row, held, tag, clear>>

\* Who loses a job it still generates for goes on with it, unless it has died.
LateWith(j, late) ==
    {n \in {late, late + 1} : n = late \/ (j.status = "running" /\ n + j.rejecting <= MaxOthers)}

\* claim_next_job takes a queued job, or a running one whose lease has lapsed.
Claim(k, t) ==
    LET j == job[k][t] IN
    /\ Active(k, t)
    /\ \E late \in LateWith(j, j.late) :
          JobBecomes(k, t, [j EXCEPT !.status = "running", !.late = late])
    /\ UNCHANGED available

\* The holder persists its draft, ...
Persist(k, t) ==
    /\ job[k][t].status = "running" /\ job[k][t].drafts < MaxDrafts
    /\ JobBecomes(k, t, [job[k][t] EXCEPT !.status = "persisted", !.drafts = @ + 1])
    /\ UNCHANGED available

\* ... and completes the job; or it ends it in vain, by fail_job or
\* mark_needs_manual.
Finish(k, t) ==
    /\ \/ /\ job[k][t].status = "persisted"
          /\ JobBecomes(k, t, [job[k][t] EXCEPT !.status = "succeeded"])
       \/ /\ job[k][t].status = "running"
          /\ \E status \in {"failed", "needs_manual"} :
                JobBecomes(k, t, [job[k][t] EXCEPT !.status = status])
    /\ UNCHANGED available

\* A worker that lost the job persists a draft like any other, gives the job up
\* for whoever holds it by now (mark_needs_manual), or changes nothing.
LateWorker(k, t) ==
    LET j == job[k][t] IN
    /\ j.late > 0
    /\ \/ /\ j.drafts < MaxDrafts
          /\ JobBecomes(k, t, [j EXCEPT !.drafts = @ + 1, !.late = @ - 1])
       \/ \E late \in LateWith(j, j.late - 1) :
             JobBecomes(k, t, [j EXCEPT !.status = "needs_manual", !.late = late])
       \/ JobBecomes(k, t, [j EXCEPT !.late = @ - 1])
    /\ UNCHANGED available

\* Both ways to reject a draft read it first.
BeginReject(k, t) ==
    /\ job[k][t].drafts > 0 /\ job[k][t].late + job[k][t].rejecting < MaxOthers
    /\ JobBecomes(k, t, [job[k][t] EXCEPT !.rejecting = @ + 1])
    /\ UNCHANGED available

\* The draft is rejected whatever it has become: one to judge, the approved one,
\* or one rejected before.
Rejected(j) ==
    {j, [j EXCEPT !.approved = FALSE]} \union
    (IF j.drafts > 0 THEN {[j EXCEPT !.drafts = @ - 1]} ELSE {})

\* requeue_for_refinement hands the job back to the queue, or, like
\* reject_and_refine, gives it up if the draft is the last revision.
SendBack(k, t) ==
    /\ job[k][t].rejecting > 0
    /\ \E j \in Rejected(job[k][t]), status \in {"queued", "needs_manual"} :
          \E late \in LateWith(j, j.late) :
             JobBecomes(k, t, [j EXCEPT !.status = status, !.late = late, !.rejecting = @ - 1])
    /\ UNCHANGED available

\* reject_and_refine rejects the draft and generates the next one inline.
Refine(k, t) ==
    /\ job[k][t].rejecting > 0
    /\ \E j \in Rejected(job[k][t]) : JobBecomes(k, t, j)
    /\ UNCHANGED available

\* It persists that one or takes its rejection back, or its server has died.
Refined(k, t) ==
    LET j == [job[k][t] EXCEPT !.rejecting = @ - 1] IN
    /\ job[k][t].rejecting > 0
    /\ \/ j.drafts < MaxDrafts /\ JobBecomes(k, t, [j EXCEPT !.drafts = @ + 1])
       \/ JobBecomes(k, t, j)
    /\ UNCHANGED available

\* approve_draft_service claims a draft to judge and publishes a version.
Approve(k, t) ==
    /\ job[k][t].drafts > 0
    /\ JobBecomes(k, t, [job[k][t] EXCEPT !.drafts = @ - 1, !.approved = TRUE])
    /\ available' = available \union {<<k, t>>}

JobMoves(k, t) ==
    \/ Claim(k, t)
    \/ Persist(k, t)
    \/ Finish(k, t)
    \/ LateWorker(k, t)
    \/ BeginReject(k, t)
    \/ SendBack(k, t)
    \/ Refine(k, t)
    \/ Refined(k, t)
    \/ Approve(k, t)

\* A version of a shape is shared with everyone.
Shared(k) ==
    /\ ~ \A t \in Teacher : <<k, t>> \in available
    /\ available' = available \union ({k} \X Teacher)
    /\ UNCHANGED <<quotaVars, row, held, tag, job, clear>>

-----------------------------------------------------------------------------
(* Stages and clearing *)

\* What _stage_for tells of a job: which of a draft to judge and an approved one
\* has the higher revision is left out, both keep a request from being cleared.
JobStage(j) ==
    CASE j.drafts > 0 -> "ready"
      [] j.drafts = 0 /\ j.approved -> "approved"
      [] j.drafts = 0 /\ ~ j.approved /\ j.status \in {"running", "persisted"} -> "building"
      [] j.drafts = 0 /\ ~ j.approved /\ j.status \in {"queued", "failed", "succeeded"} -> "queued"
      [] OTHER -> IF j.status = "none" THEN "filed" ELSE "needs_manual"

\* _stage_for, of the fields of a request.
StageFor(key, error, t) ==
    CASE error = "available" -> "already_available"
      [] error \notin {"available", "none"} -> "failed"
      [] error = "none" /\ key = None -> "filed"
      [] OTHER -> JobStage(job[key][t])

Clearable == {"failed", "needs_manual", "already_available"}

\* clear_build copies the fields of the request under the lock, ...
BeginClear(c) ==
    /\ clear.at = "none" /\ held[c] # 0
    /\ clear' = [at |-> "copied", cand |-> c, original |-> held[c], quiet |-> FALSE,
                 key |-> row[held[c]].key, error |-> row[held[c]].error]
    /\ UNCHANGED <<quotaVars, row, held, tag, job, available>>

\* Nobody is at work on a job but who holds it.
Quiet(j) == j.late = 0 /\ j.rejecting = 0

\* No job that request n filed has anyone else at work on it.
QuietFor(n) == \A k \in Shape, t \in Teacher : job[k][t].by = n => Quiet(job[k][t])

\* ... resolves their stage without it, ...  quiet is not in the code: it keeps
\* who else was at work on the job at that moment.
ResolveClear ==
    /\ clear.at = "copied"
    /\ clear' = IF StageFor(clear.key, clear.error, TeacherOf[clear.cand]) \in Clearable
                THEN [clear EXCEPT !.at = "resolved", !.quiet = QuietFor(clear.original)]
                ELSE [at |-> "none"]
    /\ UNCHANGED <<quotaVars, row, held, tag, job, available>>

\* Mutant: whatever is recorded by now goes.
AnyRequest(c, original) == held[c] # 0

SameRequest(c, original) == held[c] = original

\* ... and deletes the request if it is still the one recorded.
EndClear ==
    /\ clear.at = "resolved"
    /\ held' = IF SameRequest(clear.cand, clear.original) THEN [held EXCEPT ![clear.cand] = 0] ELSE held
    /\ clear' = [at |-> "none"]
    /\ UNCHANGED <<quotaVars, row, tag, job, available>>

-----------------------------------------------------------------------------
Quota ==
    /\ \/ WorkerCalls
       \/ RedisFails
       \/ RedisReturns
       \/ HourPasses
    /\ UNCHANGED <<row, held, tag, job, available, clear>>

Next ==
    \/ Quota
    \/ \E n \in DOMAIN row : Task(n)
    \/ \E c \in Candidate : RequestBuild(c) \/ BeginClear(c)
    \/ ResolveClear
    \/ EndClear
    \/ \E k \in Shape : Shared(k) \/ \E t \in Teacher : JobMoves(k, t)

\* A task runs on a thread of its own, and every call it makes returns.
Spec == Init /\ [][Next]_vars /\ \A n \in 1 .. MaxRequests : WF_vars(Task(n))

-----------------------------------------------------------------------------
(* Properties *)

\* Nothing can become of the job any more: a person has to author by hand.
Settled(j) == j.status = "needs_manual" /\ j.drafts = 0 /\ ~ j.approved /\ Quiet(j)

\* A clear never forgets a request that replaced the one it looked at, nor one
\* whose task still runs, nor one whose job is in flight or has a draft to judge,
\* unless a worker that lost the job, or a rejection, was still under way when the
\* clear looked: these may bring a job back that needs a person by hand.
ClearHidesNothing ==
    [][\A c \in Candidate : held[c] # 0 /\ held'[c] = 0 =>
          /\ At(held[c], "done")
          /\ clear.quiet => \A k \in Shape :
                job[k][TeacherOf[c]].by = held[c] => Settled(job[k][TeacherOf[c]])]_vars

\* Whatever fails on the way, no request reports progress for ever that nothing
\* is behind: it ends with what is wrong, or with a job of its owner's.
NeverFiledForever ==
    \A n \in 1 .. MaxRequests :
        n \in DOMAIN row ~> n \in DOMAIN row /\ StageFor(row[n].key, row[n].error, Owner(n)) # "filed"
=============================================================================
