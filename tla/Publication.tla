---------------------------- MODULE Publication ----------------------------
(***************************************************************************)
(* From a persisted draft to a live template: the evidence of a draft      *)
(* (review_api.update_fixture, revalidation.py, fixture_answers.py), its   *)
(* approval (approval.py, teacher_api.approve) or rejection                *)
(* (review_actions.py), sharing (promotion.py) and what sessions load      *)
(* (dynamic_templates.py).                                                 *)
(*                                                                         *)
(* A request is a sequence of steps: a transaction is one action from its  *)
(* first write on; what it has read before that may be stale and is a step *)
(* of its own.  Reads of one transaction with no write in between are one  *)
(* action.  The documents of a draft never change, so its scene program    *)
(* and artifact hash are given by the release of the program that compiled *)
(* it, and a report by the release that wrote it.                          *)
(***************************************************************************)
EXTENDS Integers, Sequences, FiniteSets

CONSTANTS
    Draft,          \* drafts
    Fingerprint,    \* kinds of problem
    Session,        \* teachers' sessions
    Shared,         \* owner_session_id IS NULL
    Name,           \* well-formed template names that no static template has
    Fixture,        \* positions of the grounded positive fixtures of a draft
    Request,        \* requests in flight at once
    Configured,     \* meta_required_fixture_count
    BuiltFrom,      \* how many observations a job is filed for
    MaxChanges,     \* bound on the edits of fixtures and the rejections, together
    MaxRelease,     \* bound on the releases deployed
    NoVersion       \* no live version, in the library

ASSUME PublicationAssumption ==
    /\ Shared \notin Session
    /\ Configured \in Nat /\ BuiltFrom \subseteq Nat /\ MaxChanges \in Nat /\ MaxRelease \in Nat \ {0}
    /\ NoVersion \notin Nat
    /\ IsFiniteSet(Draft) /\ IsFiniteSet(Fixture)

VARIABLES
    draft,          \* template_drafts
    fixture,        \* template_draft_fixtures
    version,        \* template_versions, in the order of insertion
    req,            \* what each request holds
    release,        \* DSL_COMPILER_VERSION and DYNAMIC_RENDERER_VERSION
    publishShared,  \* meta_teacher_publish_shared
    edits,          \* edits so far
    rejections      \* rejections so far

vars == <<draft, fixture, version, req, release, publishShared, edits, rejections>>

Scope == Session \union {Shared}
Params == 0 .. MaxChanges
Release == 1 .. MaxRelease

\* builtFrom counts the trigger observations of the job, grounded holds the
\* positive fixtures with an observation.  A draft of a job without an owner
\* behaves like one its owner leaves to the admin.  report is the release whose
\* reports are stored, 0 for none; both reports and the preview are written and
\* cleared together.
DraftRow ==
    [fp : Fingerprint, owner : Session, builtFrom : BuiltFrom, grounded : SUBSET Fixture,
     status : {"absent", "pending_review", "rejected", "approved"},
     program : Release \union {0}, report : Release \union {0}]

FixtureRow == [params : Params, structural : BOOLEAN, recorded : BOOLEAN]

VersionRow ==
    [fp : Fingerprint, name : Name, draft : Draft, hash : Release,
     status : {"enabled", "disabled"}, owner : Scope]

Idle == [op |-> "idle"]

Init ==
    /\ draft \in [Draft -> [fp : Fingerprint, owner : Session, builtFrom : BuiltFrom,
                            grounded : {{}}, status : {"absent"}, program : {0}, report : {0}]]
    /\ fixture = [d \in Draft |-> [f \in Fixture |->
           [params |-> 0, structural |-> FALSE, recorded |-> FALSE]]]
    /\ version = <<>>
    /\ req = [r \in Request |-> Idle]
    /\ release = 1
    /\ publishShared \in BOOLEAN
    /\ edits = 0 /\ rejections = 0

-----------------------------------------------------------------------------
(* Drafts and their evidence *)

\* What a flush leaves in a column that a transaction loaded and assigned: an
\* assignment of the loaded value is not written.
Flushed(loaded, assigned, stored) == IF assigned = loaded THEN stored ELSE assigned

\* A worker stores a candidate that passed every gate.
Persist(d) ==
    /\ draft[d].status = "absent"
    /\ \E fs \in (SUBSET Fixture) \ {{}} :
          /\ draft' = [draft EXCEPT ![d] = [@ EXCEPT !.status = "pending_review", !.grounded = fs,
                                            !.program = release, !.report = release]]
          /\ fixture' = [fixture EXCEPT ![d] =
                 [f \in Fixture |-> [@[f] EXCEPT !.structural = f \in fs]]]
    /\ UNCHANGED <<version, req, release, publishShared, edits, rejections>>

\* The reviewer sends a fixture back with an answer, and new or the same params.
BeginEdit(r, d, f) ==
    /\ req[r] = Idle
    /\ draft[d].status = "pending_review" /\ f \in draft[d].grounded
    /\ \E p \in {fixture[d][f].params, edits + 1} :
          /\ p = edits + 1 => edits + rejections < MaxChanges
          /\ edits' = IF p = edits + 1 THEN p ELSE edits
          /\ req' = [req EXCEPT ![r] = [op |-> "edit", draft |-> d, fixture |-> f, params |-> p,
                         row |-> fixture[d][f], report |-> draft[d].report]]
    /\ UNCHANGED <<draft, fixture, version, release, publishShared, rejections>>

\* Changed params void the evidence of the fixture and of the draft.
CommitEdit(r) ==
    /\ req[r].op = "edit"
    /\ LET q == req[r]
           changed == q.params # q.row.params
           old == fixture[q.draft][q.fixture]
       IN  /\ fixture' = [fixture EXCEPT ![q.draft][q.fixture] =
                 [params |-> Flushed(q.row.params, q.params, old.params),
                  structural |-> IF changed THEN Flushed(q.row.structural, FALSE, old.structural)
                                 ELSE old.structural,
                  recorded |-> TRUE]]
           /\ draft' = [draft EXCEPT ![q.draft].report =
                 IF changed THEN Flushed(q.report, 0, @) ELSE @]
    /\ req' = [req EXCEPT ![r] = Idle]
    /\ UNCHANGED <<version, release, publishShared, edits, rejections>>

\* revalidate_draft renders the fixtures it read without a transaction, and reads
\* the pending draft again before it writes the evidence, of every grounded fixture;
\* a failure writes nothing.
BeginRevalidation(r, d) ==
    /\ req[r] = Idle
    /\ draft[d].status = "pending_review"
    /\ req' = [req EXCEPT ![r] = [op |-> "evidence", draft |-> d, row |-> draft[d],
                   structural |-> [f \in Fixture |-> fixture[d][f].structural]]]
    /\ UNCHANGED <<draft, fixture, version, release, publishShared, edits, rejections>>

WriteEvidence(r) ==
    /\ req[r].op = "evidence"
    /\ LET q == req[r]
           d == q.draft
       IN  /\ draft' = [draft EXCEPT
                 ![d].program = Flushed(q.row.program, release, draft[d].program),
                 ![d].report = Flushed(q.row.report, release, draft[d].report)]
           /\ fixture' = [fixture EXCEPT ![d] = [f \in Fixture |->
                 IF f \notin draft[d].grounded THEN fixture[d][f]
                 ELSE [fixture[d][f] EXCEPT
                         !.structural = Flushed(q.structural[f], TRUE, fixture[d][f].structural)]]]
    /\ req' = [req EXCEPT ![r] = Idle]
    /\ UNCHANGED <<version, release, publishShared, edits, rejections>>

-----------------------------------------------------------------------------
(* Approval *)

Enabled(i) == version[i].status = "enabled"

\* Mutant: a name has no index of its own.
IndexOnKind(rows, new) ==
    ~ \E i \in DOMAIN rows :
        /\ rows[i].status = "enabled" /\ rows[i].owner = new.owner
        /\ rows[i].fp = new.fp

\* uq_enabled_version_per_fingerprint and uq_enabled_version_per_template_name.
IndexesAdmit(rows, new) ==
    ~ \E i \in DOMAIN rows :
        /\ rows[i].status = "enabled" /\ rows[i].owner = new.owner
        /\ rows[i].fp = new.fp \/ rows[i].name = new.name

\* _verified_fixture_count: every fixture here has an observation of its own.
Verified(d) == Cardinality({f \in Fixture : fixture[d][f].recorded /\ fixture[d][f].structural})

RequiredFixtures(d, scope) ==
    IF scope = Shared \/ draft[d].builtFrom > Configured THEN Configured
    ELSE IF draft[d].builtFrom = 0 THEN 1 ELSE draft[d].builtFrom

\* Mutant: reports of an earlier release will do.
AnyRelease(d, scope) ==
    /\ draft[d].status = "pending_review"
    /\ draft[d].report # 0 /\ draft[d].report = draft[d].program
    /\ Verified(d) >= RequiredFixtures(d, scope)

\* Both reports are about the stored artifact and this release, and enough
\* fixtures are verified.
Publishable(d, scope) ==
    /\ draft[d].status = "pending_review"
    /\ draft[d].report # 0 /\ draft[d].report = draft[d].program
    /\ draft[d].report = release
    /\ Verified(d) >= RequiredFixtures(d, scope)

NameReserved(n, scope) ==
    \E i \in DOMAIN version :
        /\ Enabled(i) /\ version[i].name = n
        /\ scope # Shared => version[i].owner \in {Shared, scope}

ReplacesOwn(n, fp, scope) ==
    \E i \in DOMAIN version :
        /\ Enabled(i) /\ version[i].name = n
        /\ version[i].fp = fp /\ version[i].owner = scope

NameAvailable(d, n, scope) ==
    ReplacesOwn(n, draft[d].fp, scope) \/ ~ NameReserved(n, scope)

\* A teacher approves a draft of their own session: the answers the answer
\* expression determines are recorded first, in a transaction of their own.
RecordAnswers(r, d, n) ==
    /\ req[r] = Idle
    /\ draft[d].status = "pending_review"
    /\ fixture' = [fixture EXCEPT ![d] = [f \in Fixture |->
           [fixture[d][f] EXCEPT !.recorded = fixture[d][f].recorded \/ fixture[d][f].structural]]]
    /\ req' = [req EXCEPT ![r] = [op |-> "approve", draft |-> d, name |-> n, caller |-> draft[d].owner,
                   scope |-> IF publishShared THEN Shared ELSE draft[d].owner]]
    /\ UNCHANGED <<draft, version, release, publishShared, edits, rejections>>

\* approve_draft_service finds draft d in order to be published for scope.
CheckApproval(r, d, n, caller, scope) ==
    /\ Publishable(d, scope)
    /\ NameAvailable(d, n, scope)
    /\ req' = [req EXCEPT ![r] = [op |-> "publish", draft |-> d, name |-> n,
                   caller |-> caller, scope |-> scope, hash |-> draft[d].program]]
    /\ UNCHANGED <<draft, fixture, version, release, publishShared, edits, rejections>>

\* The admin approves any draft, for everybody.
AdminApproval(r, d, n) ==
    /\ req[r] = Idle
    /\ CheckApproval(r, d, n, Shared, Shared)

TeacherApproval(r) ==
    /\ req[r].op = "approve"
    /\ CheckApproval(r, req[r].draft, req[r].name, req[r].caller, req[r].scope)

\* Mutant: every owner's version goes.
ReplacedAnyOwner(fp, caller, scope) ==
    {i \in DOMAIN version : Enabled(i) /\ version[i].fp = fp}

\* The versions a publication for scope by caller replaces.
Replaced(fp, caller, scope) ==
    {i \in DOMAIN version :
        /\ Enabled(i) /\ version[i].fp = fp
        /\ version[i].owner \in {caller, scope}}

WithoutReplaced(fp, caller, scope) ==
    [i \in DOMAIN version |->
        IF i \in Replaced(fp, caller, scope) THEN [version[i] EXCEPT !.status = "disabled"]
        ELSE version[i]]

\* Mutant: the claim does not look at the status again.
ClaimAnyway(d) == TRUE

\* The conditional UPDATE finds the draft as it is now.
Claimable(d) == draft[d].status = "pending_review"

\* Claim the draft, disable what it replaces, insert the version: a lost claim
\* or a unique index undoes all of it.
Approve(r) ==
    /\ req[r].op = "publish"
    /\ LET q == req[r]
           d == q.draft
           new == [fp |-> draft[d].fp, name |-> q.name, draft |-> d, hash |-> q.hash,
                   status |-> "enabled", owner |-> q.scope]
           rest == WithoutReplaced(new.fp, q.caller, q.scope)
       IN  /\ Claimable(d)
           /\ IndexesAdmit(rest, new)
           /\ draft' = [draft EXCEPT ![d].status = "approved"]
           /\ version' = Append(rest, new)
    /\ req' = [req EXCEPT ![r] = Idle]
    /\ UNCHANGED <<fixture, release, publishShared, edits, rejections>>

-----------------------------------------------------------------------------
(* Rejection *)

\* The draft is read, and the rejection recorded, in one transaction whose first
\* write comes later.
BeginRejection(r, d) ==
    /\ req[r] = Idle
    /\ draft[d].status = "pending_review"
    /\ edits + rejections < MaxChanges
    /\ rejections' = rejections + 1
    /\ req' = [req EXCEPT ![r] = [op |-> "reject", draft |-> d]]
    /\ UNCHANGED <<draft, fixture, version, release, publishShared, edits>>

\* The status is written without a condition.  The next attempt is left to a
\* worker or to an author, or the request generates it itself.
Reject(r) ==
    /\ req[r].op = "reject"
    /\ draft' = [draft EXCEPT ![req[r].draft].status = "rejected"]
    /\ req' \in {[req EXCEPT ![r] = Idle],
                 [req EXCEPT ![r] = [op |-> "refine", draft |-> req[r].draft]]}
    /\ UNCHANGED <<fixture, version, release, publishShared, edits, rejections>>

\* Generating failed: the draft goes back to the reviewer.  A success persists
\* another draft.
RefineFailed(r) ==
    /\ req[r].op = "refine"
    /\ draft' = [draft EXCEPT ![req[r].draft].status = IF @ = "rejected" THEN "pending_review" ELSE @]
    /\ req' = [req EXCEPT ![r] = Idle]
    /\ UNCHANGED <<fixture, version, release, publishShared, edits, rejections>>

-----------------------------------------------------------------------------
(* Sharing *)

\* Mutant: the bar of the private approval is trusted.
PromotableAsApproved(i) ==
    /\ Enabled(i) /\ version[i].owner # Shared
    /\ \A j \in DOMAIN version \ {i} : Enabled(j) =>
          /\ version[j].name # version[i].name
          /\ version[j].owner = Shared => version[j].fp # version[i].fp

\* promote_version checks the evidence for everybody and that no other enabled
\* version would clash; then it clears the owner, without looking again.
Promotable(i) ==
    /\ Enabled(i) /\ version[i].owner # Shared
    /\ Verified(version[i].draft) >= Configured
    /\ \A j \in DOMAIN version \ {i} : Enabled(j) =>
          /\ version[j].name # version[i].name
          /\ version[j].owner = Shared => version[j].fp # version[i].fp

BeginPromotion(r, i) ==
    /\ req[r] = Idle
    /\ Promotable(i)
    /\ req' = [req EXCEPT ![r] = [op |-> "promote", version |-> i]]
    /\ UNCHANGED <<draft, fixture, version, release, publishShared, edits, rejections>>

Promote(r) ==
    /\ req[r].op = "promote"
    /\ LET i == req[r].version
           shared == [version[i] EXCEPT !.owner = Shared]
       IN  /\ Enabled(i) => IndexesAdmit([version EXCEPT ![i].status = "disabled"], shared)
           /\ version' = [version EXCEPT ![i] = shared]
    /\ req' = [req EXCEPT ![r] = Idle]
    /\ UNCHANGED <<draft, fixture, release, publishShared, edits, rejections>>

\* Any request may be refused, lose its race, fail or be abandoned.
GiveUp(r) ==
    /\ req[r] # Idle
    /\ req' = [req EXCEPT ![r] = Idle]
    /\ UNCHANGED <<draft, fixture, version, release, publishShared, edits, rejections>>

-----------------------------------------------------------------------------
(* Using the library *)

\* The versions session s is offered by load_enabled_snapshot: shared ones
\* unless s has its own for the fingerprint, own ones over shared ones of the
\* same name.
Visible(s) ==
    LET own == {i \in DOMAIN version : Enabled(i) /\ version[i].owner = s}
        shared == {i \in DOMAIN version : Enabled(i) /\ version[i].owner = Shared
                        /\ \A j \in own : version[j].fp # version[i].fp}
    IN  own \union {i \in shared : \A j \in own : version[j].name # version[i].name}

\* get_dynamic_template compiles the documents and takes the scene program of
\* the draft as it is now; it keeps the result for the version until a restart.
Loaded(i) == draft[version[i].draft].program

\* A new release restarts the server: requests are gone.
Deploy ==
    /\ release < MaxRelease
    /\ release' = release + 1
    /\ req' = [r \in Request |-> Idle]
    /\ UNCHANGED <<draft, fixture, version, publishShared, edits, rejections>>

Next ==
    \/ Deploy
    \/ \E d \in Draft : Persist(d)
    \/ \E r \in Request :
          \/ CommitEdit(r)
          \/ WriteEvidence(r)
          \/ TeacherApproval(r)
          \/ Approve(r)
          \/ Reject(r)
          \/ RefineFailed(r)
          \/ Promote(r)
          \/ GiveUp(r)
          \/ \E i \in DOMAIN version : BeginPromotion(r, i)
          \/ \E d \in Draft :
                \/ BeginRevalidation(r, d)
                \/ BeginRejection(r, d)
                \/ \E f \in Fixture : BeginEdit(r, d, f)
                \/ \E n \in Name : RecordAnswers(r, d, n) \/ AdminApproval(r, d, n)

Spec == Init /\ [][Next]_vars

-----------------------------------------------------------------------------
(* Properties *)

\* The versions that publishing draft d made.
Made(d) == {i \in DOMAIN version : version[i].draft = d}

\* The rows are well formed.  An approved draft has a version and no draft is published
\* twice, except that a rejection may have overwritten an approval.
TypeOK ==
    /\ draft \in [Draft -> DraftRow]
    /\ fixture \in [Draft -> [Fixture -> FixtureRow]]
    /\ version \in Seq(VersionRow)
    /\ \A d \in Draft : draft[d].status = "approved" => Made(d) # {}
    /\ \A d \in Draft : Cardinality(Made(d)) <= 1 + rejections
    /\ rejections \in 0 .. MaxChanges
    /\ release \in Release /\ publishShared \in BOOLEAN /\ edits \in 0 .. MaxChanges

\* However approvals, promotions, replacements and revalidations interleave, and
\* across releases, what a version loads is what was approved: the scene program
\* of its draft has the version's artifact hash, so the cache is never stale.  Only a
\* rejection that overwrote the approval may let the draft be validated anew.
Standing(d) == draft[d].status = "approved" /\ Cardinality(Made(d)) = 1

LoadsWhatWasApproved ==
    \A i \in DOMAIN version : Standing(version[i].draft) => Loaded(i) = version[i].hash

\* However approvals race for a name, and whatever is promoted meanwhile, a session
\* is offered one template for each kind and under each name, its own where it has
\* one: the indexes see one owner at a time, and the snapshot does the rest.
OneTemplateOffered ==
    \A s \in Session :
        /\ \A i \in DOMAIN version : Enabled(i) /\ version[i].owner = s => i \in Visible(s)
        /\ \A i, j \in Visible(s) :
              version[i].fp = version[j].fp \/ version[i].name = version[j].name => i = j

\* The relaxed bar of a private approval does not travel with a version that is
\* shared later: unless a fixture of its draft was edited, which may happen between
\* the check of the evidence and the claim, a shared version has all of it.
Edited(d) == \E f \in Fixture : fixture[d][f].params # 0

SharedMeetsTheBar ==
    \A i \in DOMAIN version :
        version[i].owner = Shared /\ ~ Edited(version[i].draft) => Verified(version[i].draft) >= Configured

\* The live versions of the library.
Live == [s \in Scope |-> [fp \in Fingerprint |->
    LET rows == {i \in DOMAIN version : Enabled(i) /\ version[i].owner = s /\ version[i].fp = fp}
    IN  IF rows = {} THEN NoVersion ELSE CHOOSE i \in rows : TRUE]]

Library == INSTANCE TemplateLibrary WITH
    live <- Live, issued <- DOMAIN version, Version <- 1 .. (Cardinality(Draft) + MaxChanges)

\* Publication implements the library.
ImplementsLibrary == Library!Spec
=============================================================================
