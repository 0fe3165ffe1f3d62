# A TLA+ verification of the storyboard and template-generation service

The repository turns a teacher's worksheet into short maths animations. A
teacher uploads a document; a model discovers problems in it; each problem gets
a *scene* made from a template; the teacher reviews, combines and approves
scenes; approved scenes are rendered to clips. A problem no template fits is
*filed*, and a background worker generates a new template for its shape, which
is reviewed and published.

This directory holds TLA+ models of the parts of the backend that keep shared
state under concurrent requests, and of the compiler that turns a template's
teaching plan into the scene that is played; the TLC runs that check them on small
instances; and proofs that hold for instances of every size. Paths below are
relative to the repository; `PROJECT.json` maps every definition to its lines.

## Inventory

| Part | State | Operations | What is hard |
|---|---|---|---|
| Storyboard review and rendering (`routes.py`, `models/scene.py`, `pipeline/process_scene.py`, `pipeline/mismatch.py`, the session fields of `session.py`) | per session: scenes, screen order, requested template, members of combined scenes, ids claimed by a render, kept clip | build, edit, approve, reject, acknowledge, retry, combine, ungroup, render | handlers run on a thread pool; they read a scene, do minutes of work without the lock and then write; `retry` and `build` write without the lock |
| Generation jobs and drafts (`meta/jobs.py`, `generation_pipeline.py`, `drafts.py`, `review_actions.py`, `scripts/meta_worker.py`) | `generation_jobs`, `template_drafts`; what each worker and each rejecting request holds | enqueue by threshold or on demand, claim, persist, complete, fail, give up; reject and requeue, reject and refine inline | several processes on one database; leases that expire under a live worker; crashes; a transaction that reads before its first write |
| Template publication (`meta/approval.py`, `promotion.py`, `dynamic_templates.py`) | `template_versions`, snapshots pinned to a session | approve, promote, load a snapshot | unique indexes per owner, names shared between scopes, revocation |
| Draft evidence (`meta/revalidation.py`, `review_api.py`, `fixture_answers.py`) | fixtures, validation and quality reports, artifact hash | edit a fixture, record an answer, revalidate | evidence written for params read minutes ago |
| Teacher build requests (`meta/teacher_api.py`, `ingest.py`) | the session's build requests | request, status, clear, and a background task | a task that outlives the entry it fills in |
| Media store (`session.py`) | clip and thumbnail registries, reserved paths, files | reserve, register, abort, sweep, enforce caps, evict sessions | keep-sets that are stale when the deletion happens, several ids for one file |
| Render slots (`render/full_render.py`) | one semaphore, deadlines | wait, run a subprocess, time out | a slot not given back, a wait past the deadline |
| Bedrock quota (`quota.py`) | kill switch, per-address and global counters in Redis | check, take | increments before comparisons, Redis lost half way, calendar windows |
| Frontend render queue (`lib/useRenderQueue.js`) | pending ids, in-flight flag | dispatch effect, drain, errors | an effect that reruns on every identity change |
| Expression and parameter language (`meta/dsl`) | none: pure functions | parse and evaluate expressions, guards and parameter documents | exact rationals, limits, what raises and what is false |
| Scene compiler (`meta/v3`, `dsl/teaching_plan.py`) | the books the expander keeps while it walks the beats; the renderer's clock | check a plan, expand its beats, schedule, judge, resolve for a fixture, lay out, play | tables in two modules that must agree, moves staged once whatever the author wrote, sums of times and lengths at their limits |
| Fixtures and grounding (`meta/fixture_mutation.py`, `validation*.py`, `generation_pipeline.py`, `pipeline/grounding.py`) | the attempts of one drafting | repair the fixtures of a proposal, validate it, ask again, record answers | repairs in an order that matters, a bounded number of attempts |
| Static templates (`templates`) | none: pure functions | params, guard and answer of each | not modelled: see the end |
| Ingestion and prompts, drawing, views, deployment | | | not modelled: see the end |

How they interact: `build` assembles scenes from the problems of the session
and the enabled template versions in its snapshot; `render` goes through the
render slots and registers its clip in the media store; an unsupported problem
becomes an observation and may enqueue a job; a worker turns a job into a
draft; a review publishes the draft as a version or sends the job back to the
queue; every model call takes from the quota.

The hazards, each at its line, are listed in `PROJECT.json` with the properties
that would catch each going wrong.

## Modules

| Module | Models | Checked as |
|---|---|---|
| `Scenes` | one scene: the fields the handlers read and the predicates they share | through `Storyboard` |
| `Storyboard` | the board of one session under concurrent requests | `MCStoryboard` with `Review.cfg`, `Board.cfg`, `Release.cfg` |
| `StoryboardProofs` | theorems about the scenes, the board and the combinations of `Storyboard` | tlapm |
| `GenerationJobs` | the job queue, its workers, the requests and the reviews that fill it | `MCGenerationJobs` with `Jobs.cfg`, `JobsEnd.cfg` |
| `GenerationJobsProofs` | theorems about `GenerationJobs` | tlapm |
| `TemplateLibrary` | what publishing promises to readers of the library (abstract) | as a property of `Publication` |
| `Publication` | evidence, approval, promotion and loading of templates | `MCPublication` with `Publication.cfg` |
| `PublicationProofs` | theorems about `Publication`, and that it implements `TemplateLibrary` | tlapm |
| `MediaStore` | clips, thumbnails, render slots, sessions and the media volume | `MCMediaStore` with `Media.cfg` |
| `MediaStoreProofs` | theorems about `MediaStore` | tlapm |
| `BedrockQuota` | the call counters in Redis, with outages | through `BuildRequests` |
| `BuildRequests` | a teacher's build requests and their background tasks | `MCBuildRequests` with `Builds.cfg` |
| `BuildRequestsProofs` | theorems about `BuildRequests` and `BedrockQuota` | tlapm |
| `Quantities` | how numbers and rationals compare, what may be absent | through the modules below |
| `Rationals` | exact arithmetic on rationals in lowest terms | through the modules below |
| `Lists` | what is kept of a list, a dictionary with an entry written | through the modules below |
| `Expressions` | expressions and guard predicates over rationals | through the modules below |
| `Parameters` | parameter documents, what their class accepts, grounding in a text | through `CandidateFixtures` |
| `FixtureSearch` | the search for values that violate a bound or fail a predicate | through `MCCandidateFixtures` |
| `CandidateFixtures` | the drafting loop and the repairs of proposed fixtures, for any language of documents | `MCCandidateFixtures` with `Fixtures.cfg` |
| `TeachingPlans` | teaching plans and the checks on one | through `SceneCompiler` |
| `Strategies` | what each strategy demands, and the beat it stages its move on | through `SceneCompiler` |
| `BeatExpansion` | one beat into actions, and the expander's books | through `SceneCompiler` |
| `LessonTimeline` | when actions play | through `SceneCompiler` |
| `QualityGates` | the static quality gates | through `SceneCompiler` |
| `Measuring` | what a visual measures for one fixture | through `SceneCompiler` |
| `Resolution` | a compiled program resolved for one fixture | through `SceneCompiler` |
| `SceneCompiler` | the life of a plan, from its checks to the renderer's clock, for any language of expressions | `MCSceneCompiler` with `Authoring.cfg`, `Unresolved.cfg` |
| `SceneCompilerProofs` | theorems about `SceneCompiler`: the expander and its books | tlapm |
| `LessonTimelineProofs` | theorems about `SceneCompiler`: the scheduler and the time of a lesson | tlapm |
| `LessonLayout` | rows, sides, scale and boxes of a lesson | through `LessonPlacement` |
| `LessonPlacement` | one pass of the layout | `MCLessonPlacement` with `Layout.cfg` |
| `AuthoringProofs` | theorems about `CandidateFixtures` and `LessonPlacement` | tlapm |

The last ones build on each other: `Quantities` <- `Rationals` <- `TeachingPlans` (with `Lists`) <- `Strategies` <-
`BeatExpansion` <- `LessonTimeline` <- `QualityGates`, which `Resolution` (with
`Measuring`) and `SceneCompiler` extend. What an expression is, whether it compiles and what it is worth are
constants of `TeachingPlans`, since `Expressions` is recursive and nothing is proved of a module that reaches
it; `MCSceneCompiler` puts `Expressions` in their place. `Rationals` <- `Expressions` <- `Parameters` <- `FixtureSearch`, which `MCCandidateFixtures` puts into `CandidateFixtures`;
`Quantities` <- `LessonLayout` <- `LessonPlacement`;
`BedrockQuota` <- `BuildRequests`; `Scenes` <- `Storyboard`.

### Storyboard

A *request* is a handler in flight. `pc[r]` says where it is between two of its
critical sections, `seen[r]` holds the Scene objects it has read, `ids[r]` the
ids it works on. Everything a handler does under `session_lock` is one action
(`CommitEdit`, `CommitApprove`, `CommitChain`, `Ungroup`, `ClaimBatch`,
`Publish`, `ReleaseBatch`, ...); what it reads before taking the lock is the
preceding action (`BeginEdit`, `BeginApprove`, `BeginChain`, ...). `retry`
writes without the lock and without comparing revisions (`CommitRetry`), and
`build` clears and refills four fields one after another (`ClearScenes` ...
`RecordRequested`), so each is an action of its own. A refusal changes nothing:
it is the negation of a guard, and `Refuse` ends a request whose second step is
refused or whose slow work failed.

Data is abstract: a problem, a params value, a template and an answer are model
values; `TemplateOf` and `AnswerOf` say which template a params value belongs
to and which answer it computes. Hashes of params are the params themselves. The
clip a scene keeps is what the clip shows, so that the cache can be wrong.
What the language model answers (which params, which stated answer, whether it
fails) is a nondeterministic choice. Two fields are history and not in the code:
`assembly` numbers the assemblies of a scene, `mixed` says that a request which
began before a retry wrote to what the retry put there.

Runs (`SceneId`s and the two drawings are symmetric in the safety runs; the
liveness run uses no symmetry, and problems are symmetric where all are offered
the same template):

* `review`: one scene, two requests of every kind but combining. `ApprovalSound`,
  `NoDoubleRender`, `CacheHonest`, `ServedClipApproved`. One scene is enough
  because these relate one scene's revision, approval and clip; two requests
  because every comparison in the code is between a read and a write of one
  request against one writer in between. `MaxRevision` lets a scene be written
  often enough to leave a revision, reach another and return.
* `board`: three scenes, of which two are combined, and a fourth id for the combination;
  build, retry, combine and ungroup, of which one request at most is a build.
  `BoardWhole`, `ChainOfCurrentScenes`, `ProblemsKept`. The third scene gives the
  combination a neighbour, so that it matters which positions of the screen order
  combining and ungrouping replace. Edits are in `review`.
* `release`: two scenes, batches of up to two. `ClaimsReleased`, under
  weak fairness of the rest of each request.

`ApprovalSound` and `ServedClipApproved` carry the proviso "unless a retry replaced
the scene meanwhile": see the first two of the divergences below.

Fairness: a request that has begun goes on (`WF` of the steps after the first):
its thread is scheduled, and each model call and each render ends by its
timeout. Nothing obliges a client to send a request.

### Generation jobs

Jobs and drafts are sequences in the order of `created_at`, which is the order
`claim_next_job` and `latest_job` use; `parent` and `job` are positions. Time is
left out: `lapsed` stands for `lease_expires_at <= now`, `cooling` for
`cooldown_until > now`. A transaction is one action from its first write on, as
it is on SQLite, which has one writer, and what it read before that is a step of its
own: `AskByThreshold` and `AskOnDemand` leave with the filing request (`Filer`) what
its `Insert` turns into a job or not, `BeginReject` reads the draft that `Requeue`,
`Refine` or `GiveUp` then writes without looking again. On a database with
several writers the actions are coarser than the code where a transaction reads
a row another one is writing. The conditional `UPDATE`s (`claim_next_job`,
`complete_job`, `fail_job`, `approve_draft_service`) evaluate their condition
again and are one action.

A worker claims (`Claim`, with the rejected draft it continues from), persists
its draft (`Persist`) or fails (`Fail`, `Exhaust`), and completes the job
(`Complete`) whether or not the job is still its own. `Overrun` lets the lease of
a worker at work run out: nothing renews a lease. `Crash` loses what a
worker holds. `Abandon` loses a rejecting request. `RefineFailed` gives the
draft back to the reviewer whoever's rejection stands. Approval publishes a
version, which closes both ways into the queue for the shape; its preconditions
belong to `Publication` and are left open here. Nothing in the code withdraws a
published version except a replacement.

Runs (workers and requests are interchangeable in the safety run; the liveness
run uses no symmetry):

* `jobs`: one shape, one teacher beside the ownerless scope, two filing requests,
  two workers, two rejecting requests, two jobs, three drafts, one overrun.
  `OneActiveJob`, `SucceededHasDraft`, `RejectionAnswered`, `RevisionChain`. Two
  jobs are the least that can collide on the index, two workers the least that
  can share a job, three drafts give a fork (two of one revision) and its
  continuation.
* `jobs_end`: one filing and one rejecting request, two drafts, one crash, and
  two observations, so that a failed job gets new evidence and a successor.
  `JobsEnd`: a job in flight ends.

`RejectionAnswered` leaves out a rejection that a failed inline refinement has
taken back: the code then starts the requeued job again at revision 1. A failed inline
refinement reads the status of its draft and writes it in one step here; in the code a decision may fall in between.

Fairness: workers poll for ever and their generation ends (`WF` of a worker's
turn); leases of workers that are gone run out and cooldowns end. Requests,
reviews, crashes and overruns are not fair. Crashes and overruns are bounded: a worker
that takes longer than the lease each time would keep a job in flight for ever. Crashes
are explored in `jobs_end` and overruns in `jobs`; a crashed worker's lease lapses and
is taken over the way an overrun one is.

Deadlock is not checked in the runs whose clients stop at a bound.

### Publication

A draft is a row of `draft`, its fixtures a row of `fixture`, and `version` the live
and replaced rows of `template_versions` in the order of insertion. Contents are
abstract: a draft's scene program is the release of the compiler that made it (its
artifact hash with it), a report is the release that wrote it, a fixture's params
count its edits. A request goes through its transactions one by one: `BeginEdit`
loads a draft and a fixture and `CommitEdit` flushes what was assigned (`Flushed`
writes only columns that changed, as SQLAlchemy does); `BeginRevalidation` takes
`revalidate_draft` up to its second reading of the draft, after the render, and
`WriteEvidence` writes what came of it; `RecordAnswers` is the transaction with which a teacher's
approval begins; `TeacherApproval` and `AdminApproval` (both `CheckApproval`) and `Approve` split
where `approve_draft_service` has read the evidence and then claims the draft;
`BeginRejection` reads the draft that `Reject` then overwrites, and `RefineFailed` gives it
back (what jobs make of a rejection is `GenerationJobs`);
`BeginPromotion` and `Promote` share a private version. `IndexesAdmit` is the
two partial unique indexes. `Deploy` is a new release of compiler and renderer;
`Visible` and `Loaded` are what a session's snapshot offers and what a version loads.

`TemplateLibrary` says what readers may rely on: one live template for each owner
and kind, replaced in one step, never back. `ImplementsLibrary` is `Library!Spec`
under the mapping `Live`, so every step of every interleaving publishes, shares, or
changes nothing a reader sees.

Run `publication`: two drafts of one or two kinds, of a teacher or of nobody, two fixtures,
two requests, one edit or rejection, two releases. `LoadsWhatWasApproved`, `OneTemplateOffered`,
`SharedMeetsTheBar`, `ImplementsLibrary`. Two drafts give one replacement, with every choice of
kinds, owners and names; two requests any race of approval, rejection, promotion, revalidation and
edit; an edit is enough to make evidence stale and a second release to make a report
or program old. `BuiltFrom = {1}` with `Configured = 2` is the case in which the bar
of a private approval (as many fixtures as there were observations) is below the shared one.

### Media store and render slots

`entries` holds the registrations of clips and thumbnails in the order they were made,
so that "the oldest of its kind" is the first position; `disk` says in which session's
directory a file is, `reserved` the paths a render may write. Each method of the
store runs under its lock and is one action (`Register` in `Publish` and `Keep`,
`Sweep`, `Upload`, `Serialize`); the directory of an evicted session goes in a step of its
own (`RemoveDirectory`), as it does in the code. `Restart` loses the memory and the
renders in flight and keeps the disk. A render (`Begin`, `Acquire`, `Start`, `RenderEnds`, `RenderFails`,
`Publish` or `Abort`, `Respond`) waits for the semaphore; a clip has a deadline
while it waits (`DeadlineWaiting`) and once it has the slot (`DeadlineStarting`), a thumbnail has none.

Run `media`: one stored session and a second that evicts it, two clips of which one
is large and one thumbnail, two requests, one slot, budgets of two. Each budget is
one file short of what the requests make, so that every eviction happens, and each
session may be the one whose render outlives it. `RegisteredFilesExist`,
`ClipsAccounted`, `BudgetKept`, `RendersEnd`. A clip that alone is larger than the session's budget displaces
itself as it is registered: `BudgetKept` says that the newest clip stays only of clips that fit, and no clip of the run is that large.

Fairness: a thread with a slot goes on, and its subprocess ends or is killed at its timeout
(`WF` of `Proceed`); a thread that waits for a slot is woken again and again as slots
come free and is not passed over for ever (`SF` of `Acquire`: `threading.Semaphore`
notifies the longest waiter; that newcomers do not take every slot before it is
an assumption about the threads, not something the code enforces).

### Quota and build requests

`BedrockQuota` has two counters, `ipCount` of the client and hour and `dayCount` of the
day. `TakeIp` and `TakeDay` are one `INCR` each with what the caller concludes; an
`INCR` that fails may have counted (`Incremented`). `RedisFails`, `RedisReturns`,
`HourPasses` and calls of workers, which have no client (`WorkerCalls`), come at any time. The
kill switch is off and both caps are set. What Redis may lose in a crash of its own (a
second of writes) is left out.

In `BuildRequests`, `row[n]` is the n-th TemplateRequest object with its task, and
`held` which of them the session records for a problem; an object that was replaced is
still written by its task. The steps of the task are its transactions and calls
(`Observe`, `PassIp`, `PassDay`, `Converse`, `StoreTag`, `CheckAvailable`,
`EnqueueOnDemand`, `Report`), each of which may be refused (`AttemptFails`, `DatabaseFails`).
`clear_build` copies the fields under the lock, resolves the stage without it and deletes
under it again (`BeginClear`, `ResolveClear`, `EndClear`). What workers and reviews do to a job
(`JobMoves`) is followed for the latest job of a shape and owner: its status, its drafts to judge,
whether one is approved, and how many are at work on it besides its holder, workers that lost their lease
(`late`) and rejections (`rejecting`). `mark_needs_manual` and the persisting of a draft
ask for no lease, so a job that needs a person by hand may come back (`LateWorker`, `SendBack`, `Refined`).

Run `builds`: one problem of one teacher, one shape, two requests, two tagging attempts,
caps of one call each, one change of the hour, one draft to judge, one late worker or one rejection
at a time. `CallsWithinCaps`,
`ClearHidesNothing`, `NeverFiledForever`. Two requests are the least of which one
replaces the other while its task runs or a clear looks at it, and race to file the job; a cap of one is
exhausted by the first call; one late worker is the least that brings a job back. Fairness: a task is a thread whose calls return
(`WF` of `Task`); nothing is assumed of Redis, of jobs or of clients.

### The scene compiler

Everything here is a pure function of one plan and one fixture, but for the order in
which it works: the expander walks the beats and keeps books of what it has already
shown (`ExpandBeat` takes and returns them), and the renderer keeps a clock. `SceneCompiler` is that
life as a state machine: `Validate` (`Admissible`), `Expand` once per beat, `Compile` (`Schedulable`),
`Judge` (`QualityPassed`), `Resolve` for the values of a fixture, `PlayGroup`
and `Finish`. A refusal is final, and the gates are evaluated in the order of the code
only where the order can be told. Numbers are exact rationals, as in the code; times whole
microseconds; lengths hundredths of a unit, rounded down. A plan is a record of those fields the
compiler reads; wording and colour are left out, and so are gates on wording.

Run `authoring`: over nine thousand plans, enumerated in `MCSceneCompiler`: for each strategy one
small picture, and four beats whose kinds, targets and actions vary, one of them with the
id of another, plans that name the last part of a class or the one after, plans whose
walk fills the timeline to its cap of forty entries and over it, plans of two and five visuals,
lessons of three beats of every kind, with a rotation of one to three turns and without (`ShortLessons`), and a grid of a negative
number of rows and columns, whose product says how many cells it has; four fixtures, among them
one that the contract admits and the measurer does not expect (half a thing). Four beats
are enough to open, to work twice, so that a move has two beats to be staged on, and to
conclude. `RolesAsPlayed`, which compares the books with the renderer: `BuiltRole` is what a part is
built in, `Reaches` which parts a change repaints, and the targets are all that a plan may name, wholes and parts, whether or not
anything has recoloured them; `OwnMoveOnce`, `WalksOnScreen`; `CompilerKeepsGates`, which says that the gates an
author cannot repair never refuse what the compiler makes: those on the stages of the answer
(`CompilerStagesAnswer`), on repeated reveals (`NothingShownTwice`), and on the length of the scene, the hold of
its conclusion and idle time (`CompilerKeepsTime`), each with a mutant of its own; `RenderedInBudget`, the measure the probe takes of a program that passed the gates: it plays
for 12 to 24 seconds and its last group holds for 3; `CountedTargetsAreDrawn`.

Run `unresolved` is the finding in `PROJECT.json`: the boundary of an inequality and the parts
of an equation's bar are validated, compiled and judged, but are not handed to the
measurer, so these programs resolve for no fixture. `CountedTargetsAreDrawn` therefore
speaks of the kinds whose fields all arrive (`HandedOver`).

`Measuring` gives all short texts one size, a label visual and an answer another; where the tick labels, point
labels and axis titles of a plane go, and which count labels would collide, is left out, and
a wedge's callout has the worst height it can have.

`LessonPlacement` arranges measured visuals (`Arrange`), finds the scale (`FindScale`) and
places them (`Place`). A lesson that may be laid out (`Lesson`) has visuals that take some room,
no two of one name (`validate_unique_visual_refs`), and callouts whose anchor is a part of their
visual. The boxes are a set: that each visual has one is part of `WellPlaced`. Run `layout`: almost nine thousand lessons of the sizes the measurers
produce, one to four visuals, callouts on any of them, an answer or none.
`WellPlaced`, `CalloutsClear`. The sizes are the extremes of each kind (a plane that is
as high as the frame, a bar as wide), so that every branch of the arrangement is taken and the
scale is bounded by width, by height, or not at all.

### Fixtures

A proposal is a parameter document, a guard, an answer and its fixtures. The repairs ask little of
the documents: does the guard compile, does the class accept these values, are they grounded in
that text, which predicates do they fail. `CandidateFixtures` takes these questions as constant
operators (`GuardIsSound`, `Accepts`, `GroundedIn`, `Failing`, ...), so that it holds of any language;
`Fixtures.cfg` answers them with what `Parameters` and `FixtureSearch` translate from the
code. Two assumptions say what is relied on of the answers, and TLC evaluates them on every
proposal of the run: values put below a minimum are not accepted (`BoundsAssumption`), and what
has an answer still has one with its defaults filled in (`CompletionAssumption`).
`Repair` is the sequence of repairs of `generate_and_validate_revision`, each an operator; `Verdict` is
`validate_candidate` up to the plan, whose verdict is arbitrary, as the plan is the
model's. A value of a fixture has the type of its field already: the coercions of the compiled class (`"3"` to 3)
are the identity here. The loop (`OffSchema`, `ModelFails`, `Refuse`, `RefusePlan`, `RepairRaises`, `Persist`, `Exhaust`)
remembers what was refused and why. Text and enumerated fields are sets of
phrases, which no guard reads.

Run `fixtures`: over six hundred proposals, all lists of up to two or three fixtures from
seven templates (a sum, a division by what may be zero, an ordered list, a named fraction, a
guard that reads a list, a product whose total is said twice, a number that may be left out), two attempts. `SoundSurvives`, `RepairsOnlyHelp`, `TiesAreWitnessed`,
`ExamplesCountOnce`. Three fixtures let two of one observation stand beside one of another;
the repairs look at no more than that at once. The pools hold what the schema allows and the prompt
does not ask for, a boundary fixture and a positive that are to be rejected. They mark what the
properties cannot say. A proposal that would pass, whose rejecting fixtures are all boundary ones and
whose document has no number of its own, fails its job: `ensure_negative_fixtures` looks at the kind,
finds no negative and cannot make one (`NegativeAtHand` in `RepairsOnlyHelp` sets it aside). A positive
that is to be rejected takes the place of an example of its observation and is kept, but is no
example (`PositivesAreExamples`, and `examples` in `ExamplesCountOnce`).

`TiesAreWitnessed` says where the search for a rejecting fixture always succeeds. The search evaluates the
whole guard on the params of the first example as they are written, one value changed, and a raise counts for
nothing: so it speaks of guards of plain terms without a division that evaluate there (`NeverRaises`). And
it speaks of predicates that some single change breaks (`Ties`): a sum or an equality that reads each of its values
once, a product with a total of its own, two different values in strict order, or in any order when neither
is negative (it is the candidate -1 that breaks `non_decreasing`). A predicate such as `equals(a, a)`, a
product that is zero twice over or a literal bound that the field's own bounds imply has no witness to find.

The bound `MaxAttempts = 2` gives a first proposal and one that follows a refusal; the loop keeps
nothing else.

## Divergences

What the code does although a comment, a docstring or a test says otherwise, or
what a reader would not expect. Each was met while modelling; where a property
has a proviso, it is for one of these.

* An approval that began before a retry passes its comparison after it, because a retry
  restarts the scene at revision 0: the guard on the mismatch looked at the scene before
  (`routes.py:1182-1185` says the revision anchors the approval to what was looked at).
  Acknowledging the mismatch of an approved scene makes its approval stale.
* Two concurrent builds of one session leave an id in the screen order without a scene:
  they fill the four fields without the lock. Hence `Builder` has one member.
* A failed job is never claimed again (`_claimable`), although the status page calls it
  "between tries" (`teacher_api.py:262-263`). A new observation files a successor.
* `latest_job` ignores the owner: a teacher's finished build stands in the way of the
  threshold queue (`test_job_enqueue.py` says it is a scope of its own).
* A rejection writes the status of the draft without looking again (`review_actions.py:65`), so
  an approval in between is overwritten, and the version stays live. A failed inline
  refinement gives a draft back whoever's rejection stands; after both the draft of a live
  version is pending again, and validating it under a later release changes the scene program
  that the version loads, where `dynamic_templates.py:144-146` says it never changes. Without its
  condition `Standing`, `LoadsWhatWasApproved` is violated by that history.
* An edit of a fixture between the check of the evidence and the claim publishes a draft without
  evidence; `SharedMeetsTheBar` leaves such drafts out. `revalidate_draft` writes its
  evidence for the params it read minutes ago if the draft is still pending (`revalidation.py:3-6`
  says evidence for old params must not survive an edit).
* The cap per client is of the calendar hour, not rolling (`quota.py:6`, `config.py:32`). An
  `INCR` may count although Redis failed to answer.
* A second request for the problem of a job in flight is told "building" in its error field and shows
  as failed, so the teacher may clear it: `ClearHidesNothing` speaks of the request that filed the job.
* A job in `needs_manual_authoring` is not done with. `mark_needs_manual` (`jobs.py:349`) looks neither at the lease nor
  at the status, so that a worker whose lease lapsed gives up a job another one holds, and that one, like an inline
  refinement, persists its draft without looking at the job (`generation_pipeline.py:172`); a rejection that read its
  draft before puts the job back in the queue. A clear that saw such a job as `needs_manual` hides a draft
  to judge, where `teacher_api.py:404-408` says a build that can be cleared has finished without leaving anything to
  judge. `ClearHidesNothing` claims nothing of the job if a late worker or a rejection was under way
  when the clear looked (`quiet`); without that condition the run `builds` violates it. Nor does it follow an
  owner's earlier jobs of the shape.
* A walk with a slot for every step may cut its beat into slots shorter than an action's minimum,
  whose actions overrun the beat: a scene declared to last 16 seconds then plays for up to
  23.1, and three entries over the cap of forty would take it past the 24 it may last
  (`RenderedInBudget`). That holds of beats with ids of their own: nothing rejects a plan whose beats share an id
  (`UniqueIds`), the strategy's slots and floors go by id (`beat_expander.py:285-287`), and several beats with the floor
  of a rotation of four turns of 45 degrees leave the rest slots that are short enough for the renderer to pass 24 seconds. The
  runs have no rotation of more than three turns.
* A rotation of a single turn in a lesson of three beats, one each to organize, to focus and to
  conclude: the turn makes its beat short (1.1 seconds at least), the beat that organizes is left with 4.3
  seconds, an action lasts 4 at most, and the gate `unexplained_idle_time` (`quality.py:241`) refuses the lesson although
  every beat acts. `test_quality.py:188-191` says an idle gap only appears when a beat compiles to
  zero actions. `CompilerKeepsTime` leaves this shape out (`OneTurnInFocus`), and it is the only one.
* A plan whose beats share an id is not refused; `OwnMoveOnce` and the properties of
  the gates speak of plans with ids of their own. A visual named `evaluated_answer` collides
  with the answer's card.
* `ray_shade`, `signed_hop` and `distance_from_zero` accept a plan in which no beat qualifies for the
  strategy's own move, and stage none. A part that was revealed is faded in a second time
  with its whole; the walks of an alignment or a bridge may begin before their supporting
  visuals are on screen (`WalksOnScreen` speaks of the strategies that wait).
* The expander's books give a part that has none of its own the role of its whole (`beat_expander.py:1149-1153`), and the
  renderer does not always: it builds the segments of a bar at or over its value neutral (`renderer.py:281-294`), the
  boundary and the ray of a line in focus (`renderer.py:880-895`) and the names of the target unit in no role at all
  (`renderer.py:942-944`), so that a first change of such a part to the role of its whole is left out although the learner
  would see it. Two names for one part (an edge and its length, `renderer.py:240-241`; a segment and a region, `renderer.py:820-828`)
  have two entries on the books. A visual that the author transforms takes the look of another, which
  the books do not follow. `RolesAsPlayed` claims nothing of these (`Followed`); without `BuiltAsWhole` the run
  `authoring` violates it. Nor does it look into one slot, where a reveal that is played with a
  change of the same target may fade it in as it was.
* A polygon's vertices and pivot are not among the expressions of a plan that are
  checked for their size.
* Fixtures: a guard that reads an optional field gets no witness for any of its predicates while the first
  example leaves that field to its default: every trial raises `missing_value` (`expression.py:189-190`,
  `fixture_mutation.py:219-224`), and validation refuses the proposal (`guard_predicate_coverage_incomplete`) although witnesses exist. The run `fixtures` has such proposals; `NeverRaises` excludes them
  from `TiesAreWitnessed`.
* Fixtures: the preview uses raw values, so a positive fixture that omits an optional field with a default fails it; a
  `ValueError` of a repair leaves the loop and fails the job; an ill-formed positive
  that comes first makes the duplicate filter drop the well-formed one behind it;
  `not_equals` against a literal may stay without its witness; and a refusal by
  validation replaces a reviewer's feedback as the advice to the model.
* The frontend's queue dispatches a batch again while an id in it is unanswered
  (`useRenderQueue.js:7` calls it fire-once).

## What is proved

`StoryboardProofs` proves, for any sets of scenes, requests, templates and
problems and any bounds:

* `TypeCorrect`: `Spec => []TypeOK`. The inductive invariant is `Typed`, which
  adds that a request holds a scene for every id it works on (`Held`).
* `OneRenderPerScene`: `Spec => []NoDoubleRender`, from `Typed`: every step
  either keeps the batches of the render requests, adds a batch disjoint from
  what is claimed, or removes one batch.
* `ApprovalsSound`: `Spec => []ApprovalSound`. It is not inductive: the guard of
  an approval is evaluated on what was read. `Sound` adds that a
  scene a request has read *precedes* the stored one (`Snapshots`: within one assembly
  its revision is not larger, and at equal revision what the guard looks at is equal),
  that assemblies are not ahead of the counter (`Drawn`), and that what an
  approval in flight has read was settled (`ApprovingSettled`).
* `CacheHonesty`: `Spec => []CacheHonest`.
* `ServedClipsApproved`: `Spec => ServedClipApproved`, an action property, from `Sound`
  and `CacheHonest`.

The module also proves the three properties of the board, for any number of scenes, requests
and problems. Each theorem has the hypothesis `OneBuild` (`Builder` has at most one member,
as in every run) and is false without it: two builds of a session leave an id in the screen order
without a scene (see Divergences). Nothing else is bounded: any number of combinations,
undoings, edits, reviews, retries and renders go on beside that build. Two inductive
invariants stand behind them, each checked by TLC on the instance of `Board.cfg` before it was proved:

* `Whole`. `BoardWhole` speaks of the state alone, but the handlers rely on more: a uuid that was
  not drawn yet is nowhere (`FreshUnused`), what a combining request has read may still be
  combined and an id a build has stored is nobody's yet (`RequestsMidway`), an id is on the
  board once (`BoardStored`), and no scene is a member of two combinations
  (`CombinationsWhole`). `BoardStaysWhole`: `Spec => []BoardWhole`.
* `Told`, about which problems are shown where: no two scenes on the board show one problem
  (`ShownOnce`), a combination shows what its members show (`MembersShown`), a retry stores a scene of the
  problem its id has always had (`RetriesFaithful`), and what a build has still to assemble is not
  on the board (`PicksPending`). `ProblemsStay`: `Spec => ProblemsKept`, an action property.
* `ChainsAreCurrent`: `Spec => ChainOfCurrentScenes`, from `Whole`: a combination is stored only
  if every member is what it was when it was read.

`GenerationJobsProofs` proves the safety properties of the job queue, for any sets of
shapes, teachers, workers and requests and any bounds. Each action's effect is
first reduced to a lemma of one form (`Becomes`: job `j` gets status `s` and holder
`h`; `OnlyDraft`: one draft changes its status or mark; or a row is appended), and
further lemmas say what any step does to a job (`JobStep`), a draft (`DraftsStep`,
`MarkStep`) and a worker (`WorkStep`):

* `JobsTypeCorrect`: `Spec => []TypeOK`, which is inductive.
* `OneJobInFlight`: `Spec => []OneActiveJob`. A row that changes or is added is active
  only if it was, or if the index admits it (`BecomesOne`, `InsertOne`).
* `SuccessLeavesDraft`: `Spec => []SucceededHasDraft`, with `PersistedHasDraft`: a worker
  between its two transactions has left a draft of its job.
* `DraftsChain`: `Spec => []RevisionChain`, with `HeldRooted`: what a worker has read
  about the draft it continues stays true while it generates.
* `RejectionsAnswered`: `Spec => []RejectionAnswered`, with `Standing`: while the
  rejection stands and is unanswered, whoever holds the job is generating a higher
  revision. It is preserved because a rejection that puts the job back leaves it
  without a holder, and a claim continues from the latest rejection.

`PublicationProofs` proves the properties of the library, for any finite sets of drafts and
fixtures and any sets of sessions, kinds, names and requests. `Typed` (`AlwaysTyped`) is
inductive: the rows are well formed, and what each request in flight was let through for still
holds (`Promises`: a claim was checked against this release's program, a promotion has the
evidence it was checked for). What a step may do to drafts, fixtures, versions and requests is
summed up once (`Moves`), and each property is preserved by every step that moves so:

* `VersionsLoadWhatWasApproved`: `Spec => []LoadsWhatWasApproved`.
* `SharedVersionsMeetTheBar`: `Spec => []SharedMeetsTheBar`; the promise of a shared publication and of a
  promotion is what makes it inductive, as the evidence is counted one step before the claim.
* `PublicationTypes`: `Spec => []TypeOK`, whose last part, that a draft has at most
  one version more than there were rejections, needs a count over sets of drafts (`Counted`: the
  versions of the drafts in a set, and the rejections of them under way, are at most the rejections
  so far and the approvals that stand).
* `OneTemplateEach`: `Spec => []OneTemplateOffered`, from `Distinct`, which is what the two unique
  indexes say together about the rows of one owner.
* `PublicationImplementsLibrary`: `Spec => ImplementsLibrary`. Every step is a step of `TemplateLibrary` under
  the mapping `Live` or leaves it alone; it needs that an owner has one enabled version for a kind
  (`OneEnabledVersion`), since `Live` chooses it.

`MediaStoreProofs` proves the safety properties of the media store, for any sessions and
files, a finite set of requests, and any limits. The inductive invariant `MediaInv` adds to the properties
that the reservations and the free slots are those the requests stand for (`ReservedRight`,
`FreeRight`), that all who refer to a file are of one session, in whose directory it is
(`Owned`), and that a file which is being made is nobody else's yet (`Private`):
without these a deletion on behalf of one session could take a file of another. `MediaTypes`,
`RegisteredFilesStay`, `ClipsAreAccounted` follow from it; `BudgetsAreKept` (`Spec =>
BudgetKept`) also shows that a step which registers a clip that fits displaces others before it.

`BuildRequestsProofs` proves, for any clients, sessions, problems and shapes and any bounds:

* `CallsStayWithinCaps`: `Spec => []CallsWithinCaps`, from `QuotaInv`: a counter is never below the
  calls it let through, although an `INCR` may count and fail.
* `ClearsHideNothing`: `Spec => ClearHidesNothing`, an action property, from `BuildInv`: a job belongs to
  the owner of the request that filed it and the row of that request says so (`Filed`), and
  what a clear has resolved outside the lock is final if nobody but a holder was at work on the job then (`Clearing`):
  a job that needs a person by hand, without drafts, late workers and rejections, has no next move (`JobGoes`).

`AuthoringProofs` proves both properties of the layout (`LayoutSpec`), for every lesson: any number of visuals of
any sizes, and any callouts whose anchors lie in their visuals (`LessonsAssumption`). The
inductive invariant is short: `OnCourse` (`StaysOnCourse`) says that arrangement, scale and boxes are
those of the lesson that was handed in. What it means is the work of the lemmas about the operators:

* `ArrangementPlaces`: after any number of visuals, each is in one place of one stack, or is the
  primary or the answer (`Sorted`). This is an induction on the number of visuals. The
  library's induction theorems take an operator, which no prover here can instantiate, so
  `NatInd` states induction about a set and is proved from the well-foundedness of the naturals.
* `BeforeFacts`: the cursor over a stack exists, and whatever comes later in a stack comes after
  what is before it and a gap; again by induction.
* `ScaleFits`: the scale is at most every limit, so each extent fits, the pad included.
* `Column`, `RegionsApart`, `RegionsInside`: the frame is divided into the band of the primary, what
  is left and right of it, the rows above and the rows below; the regions are apart and inside the frame,
  whatever the pads are. `StacksStand` puts each visual in the region of its stack, `StackApart`
  keeps the visuals of one stack apart.
* `RoomAndPad`: below the primary, room, gap and pad are together as high as a callout at every scale;
  `BesideKeepsClear`: a visual that passed the test for the smallest scale keeps clear of the
  callout at every scale that is allowed.

`LessonsAreWellPlaced`: `LayoutSpec => []WellPlaced`. `CalloutsStayClear`: `LayoutSpec => []CalloutsClear`. The second
needs that a lesson below the least scale is refused: the test beside the primary is
made at that scale.

`AuthoringProofs` also proves three of the four properties of the repairs, for any proposals and for any language
of documents. `JudgedLast` (`DraftsWereJudged`), the inductive invariant, says that what was
judged is one of the proposals, and that a kept draft is the one judged last, which passed. The rest
is about the operators:

* `KeptSelects`: what is kept of a list is embedded in it, in its order and without a gap at a place
  that is to be kept. `KeptBase`: the first example is the first one still, when it is kept.
* `RepairExtends`: after the two drops the repair only appends rejecting negatives, by induction on the
  predicates of the guard, so that every positive of a draft was proposed (`PositivesWereLeft`).
* `RepairKeepsSound`: of the positives of an observation only those that do not speculate are left
  when the first of them is chosen; that is the order of the drops. Hence `SoundExamplesSurvive`: `Spec =>
  []SoundSurvives`.
* `RepairKeepsPassing`: of a proposal that passes, the drops keep every rejecting fixture and the first
  example, so every predicate keeps its witness and no other is looked for; a negative that has to be added
  passes by `BoundsAssumption`. Hence `RepairsHelp`: `Spec => []RepairsOnlyHelp`.
* `PassedCountsOnce`, from `OnePositiveEach`. Hence `KeptExamplesCountOnce`: `Spec => []ExamplesCountOnce`; that the
  example has an answer when its defaults are filled in is `CompletionAssumption`.

`SceneCompilerProofs` and `LessonTimelineProofs` prove five of the six properties of the compiler, for every plan that the
document's validators admit: any number of visuals and parts, any lists of targets and custom actions. The
first inductive invariant is `CompilerInv` (`CompilerAlways`): the plan is valid, past the checks it is
admissible (`Admissible`), what was compiled is the schedule of the expanded beats and fits its scene,
what was accepted passed the gates, and `BeatsStaged`, which is where the work is. `BeatsStaged` says
of every beat expanded so far that it did what a beat of its place and kind does (`BeatStaged`),
and that the expander's books agree with all the actions so far (`Agree`): a role on the books is the
role shown (`RolesKept`), what the actions reveal and what the books have as revealed are the same,
and nothing is revealed twice if no list of targets asks for it (`RevealsKept`). The argument:

* Lists: what is kept of a list (`KeptSelects`), joined lists, and `FlattenSeq` by the places its parts begin
  at (`FlattenByParts`, `OffsetsOrder`). They need induction on lengths (`NatInd`, as in the layout).
* The books: each thing the expander does (a reveal, a change of role, a callout, a custom action, a walk)
  takes books that agree to books that agree, and stages only moves of certain classes
  (`Goes`, proved for one step, `RoleChanged`, `RevealsMore`, `Restyled`, and composed by
  `GoesThen`). `RolesAsPlayed` needs the case that a change to a whole drops the books of its
  parts and not those of deferred parts.
* The selectors: each strategy's beat is one that works, and at most one beat has its id
  (`RegroupSelected` ... `WorkSelected`, `WorkedIsOne`). With `KindActed` and `BeatIsExpanded` a beat
  stages the moves of a class whole and in order if it is the selected one, and none of them otherwise.
* The whole: `BeatsGrow` adds a beat; `SchedulePlays` says that the timeline plays the
  actions of the beats in order; `ClassRuns` carries a class that one beat stages to the timeline.

That a compiled program keeps the gates on time, in `LessonTimelineProofs`, rests on a second invariant beside it, `TimeInv`
(`TimeAlways`): every beat is what `Expanded` makes of it, and, in a lesson that takes pairs away, no value is
faded on the books before the beat that takes them away (`Bright`), and that beat has the actions
for all its pairs (`PairsKept`). It is needed because the scheduler counts the slots of a beat by
the actions it finds: a value that had faded before would be passed over, and the beat would have fewer slots
than its share of the scene reckons with.

* `BrightBeat`: no beat but that one gives a value the neutral role, whatever its targets and
  custom actions are, since the checks on the plan keep the author's roles off the values. `PairsGo`: the walk from
  the ends inwards names each value once (`PartnersDiffer`), finds none of them faded, and so stages
  one action for each. `PairsConclude`: there is one value left to call out.
* `LengthIs`, `LastsLong`: the beats share what the floors leave of the scene by their weights; the scene lasts 12
  to 24 seconds and its conclusion 3 at least. The sums are over three to five beats (`SumOfFew`), the integer
  divisions are bounded by products (`ShareAtMost`).
* `LengthCapped`: a beat before the conclusion lasts at most as many times the longest action as it has slots for
  certain, and a fifth of a second. This is where the lesson of a single turn fails (`TurnBesides`).
* `SlotsAre`, `ScheduleTimes`: which slot an action plays in, and when it begins and ends. `FirstSlotFollows` and
  `OtherSlotFollows` find the entry that ends at most a fifth of a second before; hence `NothingIdle`. An entry
  may cost its beat a microsecond of rounding, so the cap on entries has to be below the microseconds of that fifth
  (`EntriesAssumption`).
* `LastActs`: the last beat has an action, the answer's or the callout of what is left, which `ConclusionHolds` needs.

That the renderer stays in its budget (`RenderedInBudgetAlways`) rests on a third invariant, `ClockInv`. The scheduler gives every
action three tenths of a second at least, also in a slot that is shorter, and the renderer waits for what it plays: the clock it
keeps runs behind the schedule, never ahead of it. `ClockInv` says, at every group the renderer has reached, how far behind it
can be (`Clock`, `LateAt`): no more than the slots played so far lack of those three tenths (`Behind`).

* `OneIsGrouped`: only one beat may have more actions than slots for certain, the one its strategy selected for the walk;
  `OneIsTight`: every other beat has room for all its slots (`SlotsFit`), so it lacks nothing.
* `ActionsAtMost`, `TotalsAtMost`, `LengthAtLeast`: how many actions the other beats must have, so how many of the entries are
  left for the walk, and how long its beat is at least. `BudgetOf`: what its slots lack (`Lack`), the scene's length and the
  hold at its end are together no more than 24 seconds. The bound is close and is a matter of the code's numbers: it holds for a cap of forty entries
  and not for one of forty-three, so `EntriesAssumption` allows forty (`scene_program.py:243`) or fewer. A walk of pairs has a
  slot for each two actions (`PairsInSlots`).
* `InOrder`, `GroupsAre`: a later entry begins later, and the actions that begin together are a run of entries, which the
  renderer plays as one group. `FirstLate`, `NextLate`, `LastLate` follow its clock through one group;
  `ClockGoesOn` is the step of the invariant. `ClockStops` draws the conclusion at the last group, whose hold is what the
  schedule left it (`ConclusionHold`), since the renderer falls no further behind in it.
* It is said of lessons whose beats have names of their own (`UniqueIds`): when several beats share the id of the selected one,
  each has the floor of a walk, and the scene can be longer than its budget. See Divergences.

`RolesAsPlayedAlways`, `OwnMoveOnceAlways`, `WalksOnScreenAlways`, `CompilerKeepsGatesAlways` and `RenderedInBudgetAlways` state the
properties as theorems of `Spec`, `CompilerStagesAnswerAlways` and `NothingShownTwiceAlways` two of the parts
of the last. That the compiler checks for a literal where a walk
needs a count, and that `target_label` and the answer are out of the author's reach, are what
the proofs use of the checks on a plan.

The proofs use the named assumptions on the constants (`ScopesAssumption`,
`JobBoundsAssumption`, `NoSceneAssumption`, ...), which TLC evaluates in every run. That drafts, fixtures
and requests are finite sets is assumed where a proof counts them.

Only model-checked:

* Liveness (`ClaimsReleased`, `JobsEnd`, `RendersEnd`, `NeverFiledForever`): liveness under
  fairness, and `ENABLED`, are out of the prover's reach.
* `TiesAreWitnessed`: it says that the search of `FixtureSearch` finds values that fail a predicate, which
  depends on what expressions evaluate to.
* `CountedTargetsAreDrawn`: two tables of fifteen kinds of parts compared through the evaluation of a fixture,
  which depends on what expressions evaluate to.

Every other safety and action property is a theorem.

## Plan

What is left, in this order:

1. Abstract specifications and refinements by proof: a scene as a register with compare-and-swap that
   `Storyboard` implements; a queue that delivers each job to its holder, which
   `GenerationJobs` implements.
