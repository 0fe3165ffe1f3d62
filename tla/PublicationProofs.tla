------------------------- MODULE PublicationProofs -------------------------
(***************************************************************************)
(* Theorems about Publication, for any sets of drafts, sessions, kinds,    *)
(* names, fixtures and requests and any bounds: type correctness, that     *)
(* versions load what was approved, that a shared version has the evidence *)
(* for everybody, and that publishing implements TemplateLibrary.          *)
(***************************************************************************)
EXTENDS Publication, FiniteSetTheorems, TLAPS

-----------------------------------------------------------------------------
(* The inductive invariant *)

EditReq ==
    [op : {"edit"}, draft : Draft, fixture : Fixture, params : Params,
     row : FixtureRow, report : Release \union {0}]
EvidenceReq ==
    [op : {"evidence"}, draft : Draft, row : DraftRow, structural : [Fixture -> BOOLEAN]]
ApproveReq == [op : {"approve"}, draft : Draft, name : Name, caller : Scope, scope : Scope]
PublishReq ==
    [op : {"publish"}, draft : Draft, name : Name, caller : Scope, scope : Scope, hash : Release]
PromoteReq == [op : {"promote"}, version : Nat]
RejectReq == [op : {"reject", "refine"}, draft : Draft]

Req == {Idle} \union EditReq \union EvidenceReq \union ApproveReq \union PublishReq
         \union PromoteReq \union RejectReq

\* Everything but the bookkeeping of what was published.
Rows ==
    /\ draft \in [Draft -> DraftRow]
    /\ fixture \in [Draft -> [Fixture -> FixtureRow]]
    /\ version \in Seq(VersionRow)
    /\ req \in [Request -> Req]
    /\ release \in Release /\ publishShared \in BOOLEAN
    /\ edits \in 0 .. MaxChanges /\ rejections \in 0 .. MaxChanges

\* Draft d has the evidence for everybody, or a fixture of it was edited.
Bar(d) == ~ Edited(d) => Verified(d) >= Configured

\* What request q was let through for still holds when it goes on.
Promise(q) ==
    /\ q.op \notin {"idle", "promote"} => draft[q.draft].status # "absent"
    /\ q.op \in {"approve", "publish"} => q.scope \in {q.caller, Shared}
    /\ q.op = "publish" => q.hash = release /\ draft[q.draft].program = release
    /\ q.op = "evidence" /\ draft[q.draft].status = "approved" => draft[q.draft].program = release
    /\ q.op = "publish" /\ q.scope = Shared => Bar(q.draft)
    /\ q.op = "promote" => q.version \in DOMAIN version /\ Bar(version[q.version].draft)
    /\ q.op = "edit" /\ q.params # q.row.params => q.params # 0

Promises == \A r \in Request : Promise(req[r])

\* What is published was stored before.
Stored == \A i \in DOMAIN version : draft[version[i].draft].status # "absent"

Typed == Rows /\ Promises /\ Stored

-----------------------------------------------------------------------------
(* Types *)

\* What a request holds is told by its op.
LEMMA ReqByOp ==
    ASSUME NEW q \in Req
    PROVE  /\ q.op \in {"idle", "edit", "evidence", "approve", "publish", "promote", "reject", "refine"}
           /\ q.op = "idle" <=> q = Idle
           /\ q.op = "edit" => q \in EditReq
           /\ q.op = "evidence" => q \in EvidenceReq
           /\ q.op = "approve" => q \in ApproveReq
           /\ q.op = "publish" => q \in PublishReq
           /\ q.op = "promote" => q \in PromoteReq
           /\ q.op \in {"reject", "refine"} => q \in RejectReq
BY DEF Req, Idle, EditReq, EvidenceReq, ApproveReq, PublishReq, PromoteReq, RejectReq

\* What the constants are.
LEMMA ConstantTypes ==
    /\ MaxChanges \in Nat /\ Params = 0 .. MaxChanges
    /\ Shared \in Scope /\ Session \subseteq Scope
    /\ Configured \in Nat /\ 1 \in Release /\ Release \subseteq Nat \ {0}
    /\ IsFiniteSet(Draft) /\ IsFiniteSet(Fixture)
BY PublicationAssumption DEF Params, Scope, Release

LEMMA PersistRows ==
    ASSUME Rows, NEW d \in Draft, Persist(d)
    PROVE  Rows'
<1>1. PICK fs \in (SUBSET Fixture) \ {{}} :
         /\ draft' = [draft EXCEPT ![d] = [@ EXCEPT !.status = "pending_review", !.grounded = fs,
                                           !.program = release, !.report = release]]
         /\ fixture' = [fixture EXCEPT ![d] = [f \in Fixture |-> [@[f] EXCEPT !.structural = f \in fs]]]
  BY DEF Persist
<1> DEFINE row == [draft[d] EXCEPT !.status = "pending_review", !.grounded = fs,
                                   !.program = release, !.report = release]
           all == [f \in Fixture |-> [fixture[d][f] EXCEPT !.structural = f \in fs]]
<1>2. row \in DraftRow
  <2>1. draft[d] \in DraftRow /\ release \in Release
    BY DEF Rows
  <2>2. QED
    BY <2>1 DEF DraftRow
<1>3. all \in [Fixture -> FixtureRow]
  <2>1. SUFFICES ASSUME NEW f \in Fixture
                 PROVE  [fixture[d][f] EXCEPT !.structural = f \in fs] \in FixtureRow
    OBVIOUS
  <2>2. fixture[d][f] \in FixtureRow /\ (f \in fs) \in BOOLEAN
    BY DEF Rows
  <2>3. QED
    BY <2>2 DEF FixtureRow
<1>4. draft' = [draft EXCEPT ![d] = row] /\ fixture' = [fixture EXCEPT ![d] = all]
  BY <1>1
<1> HIDE DEF row, all
<1>5. draft' \in [Draft -> DraftRow] /\ fixture' \in [Draft -> [Fixture -> FixtureRow]]
  BY <1>2, <1>3, <1>4 DEF Rows
<1>6. QED
  BY <1>5 DEF Rows, Persist

LEMMA BeginEditRows ==
    ASSUME Rows, NEW r \in Request, NEW d \in Draft, NEW f \in Fixture, BeginEdit(r, d, f)
    PROVE  Rows'
<1>1. PICK p \in {fixture[d][f].params, edits + 1} :
         /\ p = edits + 1 => edits + rejections < MaxChanges
         /\ edits' = IF p = edits + 1 THEN p ELSE edits
         /\ req' = [req EXCEPT ![r] = [op |-> "edit", draft |-> d, fixture |-> f, params |-> p,
                        row |-> fixture[d][f], report |-> draft[d].report]]
  BY DEF BeginEdit
<1>2. fixture[d][f] \in FixtureRow /\ draft[d] \in DraftRow
  BY DEF Rows
<1>3. p \in Params /\ edits' \in 0 .. MaxChanges
  BY <1>1, <1>2, ConstantTypes DEF Rows, FixtureRow
<1>4. [op |-> "edit", draft |-> d, fixture |-> f, params |-> p,
       row |-> fixture[d][f], report |-> draft[d].report] \in EditReq
  BY <1>2, <1>3 DEF EditReq, DraftRow
<1>5. req' \in [Request -> Req]
  BY <1>1, <1>4 DEF Rows, Req
<1>6. QED
  BY <1>3, <1>5 DEF Rows, BeginEdit

\* What an edit writes: one fixture and one report, and only what it changes.
LEMMA CommitEditWrites ==
    ASSUME Rows, NEW r \in Request, CommitEdit(r)
    PROVE  \E d \in Draft, f \in Fixture, row \in FixtureRow, n \in Release \union {0} :
             /\ draft' = [draft EXCEPT ![d] = [draft[d] EXCEPT !.report = n]]
             /\ fixture' = [fixture EXCEPT ![d] = [fixture[d] EXCEPT ![f] = row]]
             /\ row.recorded
             /\ \/ row.params = fixture[d][f].params /\ row.structural = fixture[d][f].structural
                \/ req[r].params # req[r].row.params /\ row.params = req[r].params
<1> DEFINE q == req[r]
           d == q.draft
           f == q.fixture
           old == fixture[d][f]
           params == Flushed(q.row.params, q.params, old.params)
           structural == IF q.params # q.row.params THEN Flushed(q.row.structural, FALSE, old.structural)
                         ELSE old.structural
           row == [params |-> params, structural |-> structural, recorded |-> TRUE]
           n == IF q.params # q.row.params THEN Flushed(q.report, 0, draft[d].report) ELSE draft[d].report
<1>1. q \in EditReq
  BY ReqByOp DEF Rows, CommitEdit
<1>2. d \in Draft /\ f \in Fixture /\ q.params \in Params
  BY <1>1 DEF EditReq
<1>3. old \in FixtureRow /\ draft[d] \in DraftRow
  BY <1>2 DEF Rows
<1>4. /\ params \in {q.params, old.params} /\ structural \in {FALSE, old.structural}
      /\ n \in {0, draft[d].report}
  BY DEF Flushed
<1>5. row \in FixtureRow /\ n \in Release \union {0}
  BY <1>2, <1>3, <1>4 DEF FixtureRow, DraftRow
<1>6. row.params = params /\ row.structural = structural /\ row.recorded
  BY <1>3 DEF FixtureRow
<1>7. \/ params = old.params /\ structural = old.structural
      \/ q.params # q.row.params /\ params = q.params
  BY DEF Flushed
<1>8. draft' = [draft EXCEPT ![d] = [draft[d] EXCEPT !.report = n]]
  BY DEF CommitEdit
<1>9. fixture' = [fixture EXCEPT ![d] = [fixture[d] EXCEPT ![f] = row]]
  BY DEF CommitEdit
<1>10. QED
  BY <1>2, <1>5, <1>6, <1>7, <1>8, <1>9

LEMMA CommitEditRows ==
    ASSUME Rows, NEW r \in Request, CommitEdit(r)
    PROVE  Rows'
<1>1. PICK d \in Draft, f \in Fixture, row \in FixtureRow, n \in Release \union {0} :
         /\ draft' = [draft EXCEPT ![d] = [draft[d] EXCEPT !.report = n]]
         /\ fixture' = [fixture EXCEPT ![d] = [fixture[d] EXCEPT ![f] = row]]
  BY CommitEditWrites
<1>2. [draft[d] EXCEPT !.report = n] \in DraftRow
  BY DEF Rows, DraftRow
<1>3. draft' \in [Draft -> DraftRow] /\ fixture' \in [Draft -> [Fixture -> FixtureRow]]
  BY <1>1, <1>2 DEF Rows
<1>4. req' \in [Request -> Req]
  BY DEF Rows, CommitEdit, Req
<1>5. QED
  BY <1>3, <1>4 DEF Rows, CommitEdit

LEMMA BeginRevalidationRows ==
    ASSUME Rows, NEW r \in Request, NEW d \in Draft, BeginRevalidation(r, d)
    PROVE  Rows'
<1>1. [op |-> "evidence", draft |-> d, row |-> draft[d],
       structural |-> [f \in Fixture |-> fixture[d][f].structural]] \in EvidenceReq
  BY DEF Rows, EvidenceReq, FixtureRow
<1>2. QED
  BY <1>1 DEF Rows, BeginRevalidation, Req

\* What a revalidation writes: the program and the reports become those of this
\* release or stay, and no result of a fixture is taken away.
LEMMA WriteEvidenceWrites ==
    ASSUME Rows, NEW r \in Request, WriteEvidence(r)
    PROVE  \E all \in [Fixture -> FixtureRow], row \in DraftRow :
             LET d == req[r].draft
             IN  /\ d \in Draft
                 /\ draft' = [draft EXCEPT ![d] = row]
                 /\ fixture' = [fixture EXCEPT ![d] = all]
                 /\ row.program \in {release, draft[d].program}
                 /\ \A field \in {"fp", "owner", "builtFrom", "grounded", "status"} :
                       row[field] = draft[d][field]
                 /\ \A f \in Fixture :
                       /\ all[f].params = fixture[d][f].params
                       /\ all[f].recorded = fixture[d][f].recorded
                       /\ fixture[d][f].structural => all[f].structural
<1> DEFINE q == req[r]
           d == q.draft
           program == Flushed(q.row.program, release, draft[d].program)
           report == Flushed(q.row.report, release, draft[d].report)
           row == [draft[d] EXCEPT !.program = program, !.report = report]
           new(f) == IF f \notin draft[d].grounded THEN fixture[d][f]
                     ELSE [fixture[d][f] EXCEPT
                             !.structural = Flushed(q.structural[f], TRUE, fixture[d][f].structural)]
           all == [f \in Fixture |-> new(f)]
<1>1. q \in EvidenceReq
  BY ReqByOp DEF Rows, WriteEvidence
<1>2. d \in Draft /\ draft[d] \in DraftRow /\ release \in Release
  BY <1>1 DEF EvidenceReq, Rows
<1>3. program \in {release, draft[d].program} /\ report \in {release, draft[d].report}
  BY DEF Flushed
<1>4. /\ row \in DraftRow /\ row.program = program
      /\ row.fp = draft[d].fp /\ row.owner = draft[d].owner /\ row.builtFrom = draft[d].builtFrom
      /\ row.grounded = draft[d].grounded /\ row.status = draft[d].status
  BY <1>2, <1>3 DEF DraftRow
<1>5. ASSUME NEW f \in Fixture
      PROVE  /\ new(f) \in FixtureRow
             /\ new(f).params = fixture[d][f].params
             /\ new(f).recorded = fixture[d][f].recorded
             /\ fixture[d][f].structural => new(f).structural
  <2>1. fixture[d][f] \in FixtureRow
    BY <1>2 DEF Rows
  <2>2. PICK b \in {TRUE, fixture[d][f].structural} : Flushed(q.structural[f], TRUE, fixture[d][f].structural) = b
    BY DEF Flushed
  <2>3. new(f) = fixture[d][f] \/ new(f) = [fixture[d][f] EXCEPT !.structural = b]
    BY <2>2
  <2>4. QED
    BY <2>1, <2>2, <2>3 DEF FixtureRow
<1>6. draft' = [draft EXCEPT ![d] = row]
  BY DEF WriteEvidence
<1>7. fixture' = [fixture EXCEPT ![d] = all]
  BY DEF WriteEvidence
<1> HIDE DEF new
<1>8. all \in [Fixture -> FixtureRow]
  BY <1>5
<1>9. \A field \in {"fp", "owner", "builtFrom", "grounded", "status"} : row[field] = draft[d][field]
  BY <1>4
<1> HIDE DEF row, all
<1>10. QED
  BY <1>2, <1>3, <1>4, <1>5, <1>6, <1>7, <1>8, <1>9 DEF all

LEMMA WriteEvidenceRows ==
    ASSUME Rows, NEW r \in Request, WriteEvidence(r)
    PROVE  Rows'
<1>1. PICK all \in [Fixture -> FixtureRow], row \in DraftRow :
         /\ req[r].draft \in Draft
         /\ draft' = [draft EXCEPT ![req[r].draft] = row]
         /\ fixture' = [fixture EXCEPT ![req[r].draft] = all]
  BY WriteEvidenceWrites
<1>2. draft' \in [Draft -> DraftRow] /\ fixture' \in [Draft -> [Fixture -> FixtureRow]]
  BY <1>1 DEF Rows
<1>3. QED
  BY <1>2 DEF Rows, WriteEvidence, Req

\* The answers that a teacher's approval records are recorded for good.
LEMMA RecordAnswersWrites ==
    ASSUME Rows, NEW r \in Request, NEW d \in Draft, NEW n \in Name, RecordAnswers(r, d, n)
    PROVE  \E all \in [Fixture -> FixtureRow], q \in ApproveReq :
             /\ fixture' = [fixture EXCEPT ![d] = all]
             /\ \A f \in Fixture :
                   /\ all[f].params = fixture[d][f].params
                   /\ all[f].structural = fixture[d][f].structural
                   /\ fixture[d][f].recorded => all[f].recorded
             /\ req' = [req EXCEPT ![r] = q]
             /\ q.draft = d /\ q.scope \in {q.caller, Shared}
<1> DEFINE new(f) == [fixture[d][f] EXCEPT !.recorded = fixture[d][f].recorded \/ fixture[d][f].structural]
           all == [f \in Fixture |-> new(f)]
           q == [op |-> "approve", draft |-> d, name |-> n, caller |-> draft[d].owner,
                 scope |-> IF publishShared THEN Shared ELSE draft[d].owner]
<1>1. draft[d].owner \in Scope
  BY ConstantTypes DEF Rows, DraftRow
<1>2. q \in ApproveReq /\ q.scope \in {q.caller, Shared}
  BY <1>1, ConstantTypes DEF ApproveReq
<1>3. ASSUME NEW f \in Fixture
      PROVE  /\ new(f) \in FixtureRow
             /\ new(f).params = fixture[d][f].params
             /\ new(f).structural = fixture[d][f].structural
             /\ fixture[d][f].recorded => new(f).recorded
  <2>1. fixture[d][f] \in FixtureRow
    BY DEF Rows
  <2>2. PICK b \in BOOLEAN : b = (fixture[d][f].recorded \/ fixture[d][f].structural)
    OBVIOUS
  <2>3. new(f) = [fixture[d][f] EXCEPT !.recorded = b]
    BY <2>2
  <2>4. new(f).recorded = b
    BY <2>1, <2>3 DEF FixtureRow
  <2>5. QED
    BY <2>1, <2>2, <2>3, <2>4 DEF FixtureRow
<1>4. fixture' = [fixture EXCEPT ![d] = all] /\ req' = [req EXCEPT ![r] = q]
  BY DEF RecordAnswers
<1> HIDE DEF new, q
<1>5. all \in [Fixture -> FixtureRow]
  BY <1>3
<1>6. q.draft = d
  BY DEF q
<1>7. \A f \in Fixture : all[f] = new(f)
  OBVIOUS
<1> HIDE DEF all
<1>8. \A f \in Fixture :
        /\ all[f].params = fixture[d][f].params
        /\ all[f].structural = fixture[d][f].structural
        /\ fixture[d][f].recorded => all[f].recorded
  BY <1>3, <1>7
<1>9. QED
  BY <1>2, <1>4, <1>5, <1>6, <1>8

LEMMA RecordAnswersRows ==
    ASSUME Rows, NEW r \in Request, NEW d \in Draft, NEW n \in Name, RecordAnswers(r, d, n)
    PROVE  Rows'
<1>1. PICK all \in [Fixture -> FixtureRow], q \in ApproveReq :
         fixture' = [fixture EXCEPT ![d] = all] /\ req' = [req EXCEPT ![r] = q]
  BY RecordAnswersWrites
<1>2. fixture' \in [Draft -> [Fixture -> FixtureRow]] /\ req' \in [Request -> Req]
  BY <1>1 DEF Rows, Req
<1>3. QED
  BY <1>2 DEF Rows, RecordAnswers

\* The request of an approval that was found in order.
LEMMA CheckApprovalTakes ==
    ASSUME Rows, NEW r \in Request, NEW d \in Draft, NEW n \in Name, NEW caller \in Scope,
           NEW scope \in Scope, CheckApproval(r, d, n, caller, scope)
    PROVE  \E q \in PublishReq :
             /\ req' = [req EXCEPT ![r] = q]
             /\ q.draft = d /\ q.caller = caller /\ q.scope = scope
             /\ q.hash = release /\ draft[d].program = release
<1> DEFINE q == [op |-> "publish", draft |-> d, name |-> n, caller |-> caller, scope |-> scope,
                 hash |-> draft[d].program]
<1>1. draft[d].program = release /\ release \in Release
  BY DEF CheckApproval, Publishable, Rows
<1>2. q \in PublishReq
  BY <1>1 DEF PublishReq
<1>3. QED
  BY <1>1, <1>2 DEF CheckApproval

LEMMA CheckApprovalRows ==
    ASSUME Rows, NEW r \in Request, NEW d \in Draft, NEW n \in Name, NEW caller \in Scope,
           NEW scope \in Scope, CheckApproval(r, d, n, caller, scope)
    PROVE  Rows'
<1>1. PICK q \in PublishReq : req' = [req EXCEPT ![r] = q]
  BY CheckApprovalTakes
<1>2. QED
  BY <1>1 DEF Rows, CheckApproval, Req

\* The version that the request of an approval makes.
New(q) ==
    [fp |-> draft[q.draft].fp, name |-> q.name, draft |-> q.draft, hash |-> q.hash,
     status |-> "enabled", owner |-> q.scope]

LEMMA ApproveWrites ==
    ASSUME Rows, NEW r \in Request, Approve(r)
    PROVE  LET q == req[r]
               d == q.draft
               rest == WithoutReplaced(draft[d].fp, q.caller, q.scope)
           IN  /\ q \in PublishReq /\ d \in Draft /\ New(q) \in VersionRow
               /\ draft[d].status = "pending_review"
               /\ rest \in Seq(VersionRow) /\ DOMAIN rest = DOMAIN version
               /\ IndexesAdmit(rest, New(q))
               /\ version' = Append(rest, New(q))
               /\ draft' = [draft EXCEPT ![d].status = "approved"]
<1> DEFINE q == req[r]
           d == q.draft
           rest == WithoutReplaced(draft[d].fp, q.caller, q.scope)
<1>1. q \in PublishReq
  BY ReqByOp DEF Rows, Approve
<1>2. d \in Draft /\ New(q) \in VersionRow
  BY <1>1 DEF PublishReq, New, VersionRow, Rows, DraftRow
<1>3. rest \in Seq(VersionRow) /\ DOMAIN rest = DOMAIN version
  <2>1. ASSUME NEW i \in DOMAIN version PROVE rest[i] \in VersionRow
    <3>1. version[i] \in VersionRow
      BY DEF Rows
    <3>2. rest[i] \in {version[i], [version[i] EXCEPT !.status = "disabled"]}
      BY DEF WithoutReplaced
    <3>3. QED
      BY <3>1, <3>2 DEF VersionRow
  <2>2. DOMAIN rest = 1 .. Len(version) /\ Len(version) \in Nat
    BY DEF WithoutReplaced, Rows
  <2>3. rest = [i \in 1 .. Len(version) |-> rest[i]]
    BY DEF WithoutReplaced, Rows
  <2> HIDE DEF rest
  <2>4. \A i \in 1 .. Len(version) : rest[i] \in VersionRow
    BY <2>1, <2>2 DEF Rows
  <2>5. rest \in [1 .. Len(version) -> VersionRow]
    BY <2>3, <2>4
  <2>6. QED
    BY <2>2, <2>5 DEF Rows
<1>4. IndexesAdmit(rest, New(q)) /\ version' = Append(rest, New(q))
  BY DEF Approve, New
<1>5. draft[d].status = "pending_review" /\ draft' = [draft EXCEPT ![d].status = "approved"]
  BY DEF Approve, Claimable
<1>6. QED
  BY <1>1, <1>2, <1>3, <1>4, <1>5

LEMMA ApproveRows ==
    ASSUME Rows, NEW r \in Request, Approve(r)
    PROVE  Rows'
<1> DEFINE d == req[r].draft
<1>1. /\ d \in Draft /\ draft' = [draft EXCEPT ![d].status = "approved"]
      /\ version' \in Seq(VersionRow)
  BY ApproveWrites
<1>2. draft' \in [Draft -> DraftRow]
  <2> HIDE DEF d
  <2>1. [draft[d] EXCEPT !.status = "approved"] \in DraftRow
    BY <1>1 DEF Rows, DraftRow
  <2>2. draft' = [draft EXCEPT ![d] = [draft[d] EXCEPT !.status = "approved"]]
    BY <1>1
  <2>3. QED
    BY <1>1, <2>1, <2>2 DEF Rows
<1>3. QED
  BY <1>1, <1>2 DEF Rows, Approve, Req

LEMMA RejectionRows ==
    ASSUME Rows, NEW r \in Request
    PROVE  /\ \A d \in Draft : BeginRejection(r, d) => Rows'
           /\ Reject(r) => Rows'
           /\ RefineFailed(r) => Rows'
<1>1. ASSUME NEW d \in Draft, BeginRejection(r, d) PROVE Rows'
  <2>1. [op |-> "reject", draft |-> d] \in Req
    BY DEF Req, RejectReq
  <2>2. rejections' \in 0 .. MaxChanges
    BY <1>1, ConstantTypes DEF BeginRejection, Rows
  <2>3. QED
    BY <1>1, <2>1, <2>2 DEF BeginRejection, Rows
<1>2. ASSUME Reject(r) PROVE Rows'
  <2>1. PICK d \in Draft : d = req[r].draft
    BY <1>2, ReqByOp DEF Reject, Rows, RejectReq
  <2>2. [draft[d] EXCEPT !.status = "rejected"] \in DraftRow
    BY DEF Rows, DraftRow
  <2>3. draft' = [draft EXCEPT ![d] = [draft[d] EXCEPT !.status = "rejected"]]
    BY <1>2, <2>1 DEF Reject
  <2>4. [op |-> "refine", draft |-> d] \in Req /\ Idle \in Req
    BY DEF Req, RejectReq
  <2>5. req' \in [Request -> Req]
    BY <1>2, <2>1, <2>4 DEF Reject, Rows
  <2>6. QED
    BY <1>2, <2>2, <2>3, <2>5 DEF Rows, Reject
<1>3. ASSUME RefineFailed(r) PROVE Rows'
  <2>1. PICK d \in Draft : d = req[r].draft
    BY <1>3, ReqByOp DEF RefineFailed, Rows, RejectReq
  <2>2. PICK st \in {draft[d].status, "pending_review"} :
           draft' = [draft EXCEPT ![d] = [draft[d] EXCEPT !.status = st]]
    BY <1>3, <2>1 DEF RefineFailed
  <2>3. [draft[d] EXCEPT !.status = st] \in DraftRow
    BY DEF Rows, DraftRow
  <2>4. QED
    BY <1>3, <2>2, <2>3 DEF Rows, RefineFailed, Req
<1>4. QED
  BY <1>1, <1>2, <1>3

LEMMA BeginPromotionRows ==
    ASSUME Rows, NEW r \in Request, NEW i \in DOMAIN version, BeginPromotion(r, i)
    PROVE  Rows'
<1>1. [op |-> "promote", version |-> i] \in Req
  BY DEF Rows, Req, PromoteReq
<1>2. QED
  BY <1>1 DEF Rows, BeginPromotion

\* A promotion clears the owner of its version.
LEMMA PromoteWrites ==
    ASSUME Rows, Promises, NEW r \in Request, Promote(r)
    PROVE  LET i == req[r].version
               shared == [version[i] EXCEPT !.owner = Shared]
           IN  /\ i \in DOMAIN version /\ shared \in VersionRow
               /\ Enabled(i) => IndexesAdmit([version EXCEPT ![i].status = "disabled"], shared)
               /\ version' = [version EXCEPT ![i] = shared]
               /\ version' \in Seq(VersionRow) /\ DOMAIN version' = DOMAIN version
<1> DEFINE i == req[r].version
           shared == [version[i] EXCEPT !.owner = Shared]
<1>1. req[r].op = "promote"
  BY DEF Promote
<1>2. i \in DOMAIN version
  BY <1>1 DEF Promises, Promise
<1>3. version[i] \in VersionRow
  BY <1>2 DEF Rows
<1>4. shared \in VersionRow
  BY <1>3, ConstantTypes DEF VersionRow
<1>5. version' = [version EXCEPT ![i] = shared]
  BY DEF Promote
<1>6. Enabled(i) => IndexesAdmit([version EXCEPT ![i].status = "disabled"], shared)
  BY DEF Promote
<1> HIDE DEF i, shared
<1>7. version' \in Seq(VersionRow) /\ DOMAIN version' = DOMAIN version
  BY <1>2, <1>4, <1>5 DEF Rows
<1>8. QED
  BY <1>2, <1>4, <1>5, <1>6, <1>7 DEF i, shared

LEMMA PromoteRows ==
    ASSUME Rows, Promises, NEW r \in Request, Promote(r)
    PROVE  Rows'
<1>1. version' \in Seq(VersionRow)
  BY PromoteWrites
<1>2. QED
  BY <1>1 DEF Rows, Promote, Req

LEMMA DeployRows ==
    ASSUME Rows, Deploy
    PROVE  Rows'
<1>1. release' \in Release
  BY PublicationAssumption DEF Rows, Deploy, Release
<1>2. QED
  BY <1>1 DEF Rows, Deploy, Req

-----------------------------------------------------------------------------
(* What a step may do to drafts, fixtures, versions and requests *)

DraftMoves ==
    \A d \in Draft :
        /\ draft'[d].fp = draft[d].fp
        /\ draft'[d].program \in {release, draft[d].program}
        /\ draft[d].status = "approved" => draft'[d].program = draft[d].program
        /\ \/ draft'[d].status = draft[d].status
           \/ draft[d].status # "absent" /\ draft'[d].status = "rejected"
           \/ draft[d].status \in {"absent", "rejected"} /\ draft'[d].status = "pending_review"
           \/ /\ draft[d].status = "pending_review" /\ draft'[d].status = "approved"
              /\ draft[d].program = release
              /\ \E i \in DOMAIN version' : i \notin DOMAIN version /\ version'[i].draft = d

\* The params of a fixture change for good, and unless they do its evidence stays.
FixtureMoves ==
    \A d \in Draft : draft[d].status # "absent" => \A f \in Fixture :
        /\ fixture[d][f].params # 0 => fixture'[d][f].params # 0
        /\ \/ fixture'[d][f].params # 0
           \/ /\ fixture[d][f].recorded => fixture'[d][f].recorded
              /\ fixture[d][f].structural => fixture'[d][f].structural

VersionMoves ==
    /\ DOMAIN version \subseteq DOMAIN version'
    /\ \A i \in DOMAIN version :
          /\ version'[i].draft = version[i].draft /\ version'[i].hash = version[i].hash
          /\ version'[i].owner = Shared => version[i].owner = Shared \/ Bar(version[i].draft)
    /\ \A i \in DOMAIN version' : i \notin DOMAIN version =>
          /\ version'[i].draft \in Draft
          /\ draft[version'[i].draft].status = "pending_review"
          /\ version'[i].hash = release /\ draft[version'[i].draft].program = release
          /\ version'[i].owner = Shared => Bar(version'[i].draft)

RequestMoves ==
    \A r \in Request : req'[r] \in {req[r], Idle} \/ \E q \in Req : req'[r] = q /\ Promise(q)'

Moves == Rows' /\ DraftMoves /\ FixtureMoves /\ VersionMoves /\ RequestMoves

\* Nothing moves but one draft.
LEMMA OneDraft ==
    ASSUME Rows, NEW d \in Draft, NEW row \in DraftRow, draft' = [draft EXCEPT ![d] = row],
           row.fp = draft[d].fp,
           row.program \in {release, draft[d].program},
           draft[d].status = "approved" => row.program = draft[d].program,
           \/ row.status = draft[d].status
           \/ draft[d].status # "absent" /\ row.status = "rejected"
           \/ draft[d].status \in {"absent", "rejected"} /\ row.status = "pending_review"
           \/ /\ draft[d].status = "pending_review" /\ row.status = "approved"
              /\ draft[d].program = release
              /\ \E i \in DOMAIN version' : i \notin DOMAIN version /\ version'[i].draft = d
    PROVE  DraftMoves
BY DEF Rows, DraftMoves

LEMMA SameDrafts == UNCHANGED draft => DraftMoves
BY DEF DraftMoves

LEMMA SameFixtures == UNCHANGED fixture => FixtureMoves
BY DEF FixtureMoves

LEMMA SameVersions == UNCHANGED version => VersionMoves
BY DEF VersionMoves

\* One fixture row of a draft is replaced by one with as much evidence, or other params.
LEMMA OneDraftsFixtures ==
    ASSUME Rows, NEW d \in Draft, NEW all \in [Fixture -> FixtureRow],
           fixture' = [fixture EXCEPT ![d] = all],
           \A f \in Fixture :
              /\ fixture[d][f].params # 0 => all[f].params # 0
              /\ \/ all[f].params # 0
                 \/ /\ fixture[d][f].recorded => all[f].recorded
                    /\ fixture[d][f].structural => all[f].structural
    PROVE  FixtureMoves
<1> SUFFICES ASSUME NEW e \in Draft, NEW f \in Fixture
             PROVE  /\ fixture[e][f].params # 0 => fixture'[e][f].params # 0
                    /\ \/ fixture'[e][f].params # 0
                       \/ /\ fixture[e][f].recorded => fixture'[e][f].recorded
                          /\ fixture[e][f].structural => fixture'[e][f].structural
  BY DEF FixtureMoves
<1>1. CASE e = d
  <2>1. fixture'[e][f] = all[f]
    BY <1>1 DEF Rows
  <2>2. QED
    BY <1>1, <2>1
<1>2. CASE e # d
  <2>1. fixture'[e][f] = fixture[e][f]
    BY <1>2 DEF Rows
  <2>2. QED
    BY <2>1
<1>3. QED
  BY <1>1, <1>2

LEMMA OneRequest ==
    ASSUME Rows, NEW r \in Request, NEW q \in Req, req' = [req EXCEPT ![r] = q],
           q = Idle \/ Promise(q)'
    PROVE  RequestMoves
BY DEF Rows, RequestMoves

LEMMA PersistMoves ==
    ASSUME Typed, NEW d \in Draft, Persist(d)
    PROVE  Moves
<1> USE DEF Typed
<1>1. PICK fs \in (SUBSET Fixture) \ {{}} :
         draft' = [draft EXCEPT ![d] = [@ EXCEPT !.status = "pending_review", !.grounded = fs,
                                                !.program = release, !.report = release]]
  BY DEF Persist
<1> DEFINE row == [draft[d] EXCEPT !.status = "pending_review", !.grounded = fs,
                                   !.program = release, !.report = release]
<1>2. /\ row \in DraftRow /\ row.fp = draft[d].fp /\ row.program = release
      /\ row.status = "pending_review" /\ draft[d].status = "absent"
  <2>1. draft[d] \in DraftRow /\ release \in Release /\ draft[d].status = "absent"
    BY DEF Rows, Persist
  <2>2. QED
    BY <2>1 DEF DraftRow
<1>3. draft' = [draft EXCEPT ![d] = row]
  BY <1>1
<1> HIDE DEF row
<1>4. DraftMoves
  BY <1>2, <1>3, OneDraft
<1>5. FixtureMoves
  <2>1. \A e \in Draft : e # d => fixture'[e] = fixture[e]
    BY DEF Persist, Rows
  <2>2. QED
    BY <1>2, <2>1 DEF FixtureMoves
<1>6. RequestMoves
  BY DEF RequestMoves, Persist
<1>7. QED
  BY <1>4, <1>5, <1>6, PersistRows, SameVersions DEF Moves, Persist

LEMMA BeginEditMoves ==
    ASSUME Typed, NEW r \in Request, NEW d \in Draft, NEW f \in Fixture, BeginEdit(r, d, f)
    PROVE  Moves
<1> USE DEF Typed
<1>1. PICK p \in {fixture[d][f].params, edits + 1} :
         req' = [req EXCEPT ![r] = [op |-> "edit", draft |-> d, fixture |-> f, params |-> p,
                        row |-> fixture[d][f], report |-> draft[d].report]]
  BY DEF BeginEdit
<1>2. draft'[d].status # "absent" /\ edits + 1 # 0
  BY DEF BeginEdit, Rows
<1>3. PICK q \in Req :
         q = [op |-> "edit", draft |-> d, fixture |-> f, params |-> p,
              row |-> fixture[d][f], report |-> draft[d].report]
  <2>1. req'[r] \in Req
    BY BeginEditRows DEF Rows
  <2>2. QED
    BY <1>1, <2>1 DEF Rows
<1>4. q.op = "edit" /\ q.draft = d /\ q.params = p /\ q.row = fixture[d][f]
  BY <1>3
<1>5. Promise(q)'
  BY <1>2, <1>4 DEF Promise
<1>6. RequestMoves
  BY <1>1, <1>3, <1>5, OneRequest
<1>7. QED
  BY <1>6, BeginEditRows, SameDrafts, SameFixtures, SameVersions DEF Moves, BeginEdit

LEMMA CommitEditMoves ==
    ASSUME Typed, NEW r \in Request, CommitEdit(r)
    PROVE  Moves
<1> USE DEF Typed
<1>1. PICK d \in Draft, f \in Fixture, row \in FixtureRow, n \in Release \union {0} :
         /\ draft' = [draft EXCEPT ![d] = [draft[d] EXCEPT !.report = n]]
         /\ fixture' = [fixture EXCEPT ![d] = [fixture[d] EXCEPT ![f] = row]]
         /\ row.recorded
         /\ \/ row.params = fixture[d][f].params /\ row.structural = fixture[d][f].structural
            \/ req[r].params # req[r].row.params /\ row.params = req[r].params
  BY CommitEditWrites
<1>2. DraftMoves
  <2>1. /\ [draft[d] EXCEPT !.report = n] \in DraftRow
        /\ [draft[d] EXCEPT !.report = n].fp = draft[d].fp
        /\ [draft[d] EXCEPT !.report = n].program = draft[d].program
        /\ [draft[d] EXCEPT !.report = n].status = draft[d].status
    BY DEF Rows, DraftRow
  <2>2. QED
    BY <1>1, <2>1, OneDraft
<1>3. FixtureMoves
  <2>1. req[r].params # req[r].row.params => req[r].params # 0
    BY DEF CommitEdit, Promises, Promise
  <2>2. /\ fixture[d][f].params # 0 => row.params # 0
        /\ \/ row.params # 0
           \/ row.recorded /\ row.structural = fixture[d][f].structural
    BY <1>1, <2>1
  <2> DEFINE all == [fixture[d] EXCEPT ![f] = row]
  <2>3. all \in [Fixture -> FixtureRow] /\ all[f] = row
    BY DEF Rows
  <2>4. \A g \in Fixture : g # f => all[g] = fixture[d][g]
    BY DEF Rows
  <2>5. fixture' = [fixture EXCEPT ![d] = all]
    BY <1>1
  <2> HIDE DEF all
  <2>6. ASSUME NEW g \in Fixture
        PROVE  /\ fixture[d][g].params # 0 => all[g].params # 0
               /\ \/ all[g].params # 0
                  \/ /\ fixture[d][g].recorded => all[g].recorded
                     /\ fixture[d][g].structural => all[g].structural
    BY <2>2, <2>3, <2>4
  <2>7. QED
    BY <2>3, <2>5, <2>6, OneDraftsFixtures
<1>4. RequestMoves
  BY DEF CommitEdit, RequestMoves, Rows
<1>5. QED
  BY <1>2, <1>3, <1>4, CommitEditRows, SameVersions DEF Moves, CommitEdit

LEMMA BeginRevalidationMoves ==
    ASSUME Typed, NEW r \in Request, NEW d \in Draft, BeginRevalidation(r, d)
    PROVE  Moves
<1> USE DEF Typed
<1>1. PICK q \in Req : /\ q.op = "evidence" /\ q.draft = d
                       /\ req' = [req EXCEPT ![r] = q]
  <2>1. req'[r] \in Req
    BY BeginRevalidationRows DEF Rows
  <2>2. req'[r].op = "evidence" /\ req'[r].draft = d /\ req' = [req EXCEPT ![r] = req'[r]]
    BY DEF BeginRevalidation, Rows
  <2>3. QED
    BY <2>1, <2>2
<1>2. draft' = draft /\ draft[d].status = "pending_review"
  BY DEF BeginRevalidation
<1>3. Promise(q)'
  BY <1>1, <1>2 DEF Promise
<1>4. QED
  BY <1>1, <1>3, OneRequest, BeginRevalidationRows, SameDrafts, SameFixtures, SameVersions
     DEF Moves, BeginRevalidation

LEMMA WriteEvidenceMoves ==
    ASSUME Typed, NEW r \in Request, WriteEvidence(r)
    PROVE  Moves
<1> USE DEF Typed
<1> DEFINE d == req[r].draft
<1>1. PICK all \in [Fixture -> FixtureRow], row \in DraftRow :
         /\ d \in Draft
         /\ draft' = [draft EXCEPT ![d] = row]
         /\ fixture' = [fixture EXCEPT ![d] = all]
         /\ row.program \in {release, draft[d].program}
         /\ \A field \in {"fp", "owner", "builtFrom", "grounded", "status"} :
               row[field] = draft[d][field]
         /\ \A f \in Fixture :
               /\ all[f].params = fixture[d][f].params
               /\ all[f].recorded = fixture[d][f].recorded
               /\ fixture[d][f].structural => all[f].structural
  BY WriteEvidenceWrites
<1> HIDE DEF d
<1>2. row.fp = draft[d].fp /\ row.status = draft[d].status
  BY <1>1
<1>3. DraftMoves
  <2>1. req[r].op = "evidence"
    BY DEF WriteEvidence
  <2>2. draft[d].status = "approved" => draft[d].program = release
    BY <2>1 DEF Promises, Promise, d
  <2>3. QED
    BY <1>1, <1>2, <2>2, OneDraft
<1>4. \A f \in Fixture :
        /\ fixture[d][f].params # 0 => all[f].params # 0
        /\ \/ all[f].params # 0
           \/ /\ fixture[d][f].recorded => all[f].recorded
              /\ fixture[d][f].structural => all[f].structural
  BY <1>1
<1>5. FixtureMoves
  BY <1>1, <1>4, OneDraftsFixtures
<1>6. RequestMoves
  BY DEF WriteEvidence, RequestMoves, Rows
<1>7. QED
  BY <1>3, <1>5, <1>6, WriteEvidenceRows, SameVersions DEF Moves, WriteEvidence

LEMMA RecordAnswersMoves ==
    ASSUME Typed, NEW r \in Request, NEW d \in Draft, NEW n \in Name, RecordAnswers(r, d, n)
    PROVE  Moves
<1> USE DEF Typed
<1>1. PICK all \in [Fixture -> FixtureRow], q \in ApproveReq :
         /\ fixture' = [fixture EXCEPT ![d] = all]
         /\ \A f \in Fixture :
               /\ all[f].params = fixture[d][f].params
               /\ all[f].structural = fixture[d][f].structural
               /\ fixture[d][f].recorded => all[f].recorded
         /\ req' = [req EXCEPT ![r] = q]
         /\ q.draft = d /\ q.scope \in {q.caller, Shared}
  BY RecordAnswersWrites
<1>2. \A f \in Fixture :
        /\ fixture[d][f].params # 0 => all[f].params # 0
        /\ \/ all[f].params # 0
           \/ /\ fixture[d][f].recorded => all[f].recorded
              /\ fixture[d][f].structural => all[f].structural
  BY <1>1
<1>3. FixtureMoves
  BY <1>1, <1>2, OneDraftsFixtures
<1>4. q.op = "approve" /\ q \in Req
  BY DEF ApproveReq, Req
<1>5. draft' = draft /\ draft[d].status = "pending_review"
  BY DEF RecordAnswers
<1>6. Promise(q)'
  BY <1>1, <1>4, <1>5 DEF Promise
<1>7. QED
  BY <1>1, <1>3, <1>4, <1>6, OneRequest, RecordAnswersRows, SameDrafts, SameVersions
     DEF Moves, RecordAnswers

LEMMA CheckApprovalMoves ==
    ASSUME Typed, NEW r \in Request, NEW d \in Draft, NEW n \in Name, NEW caller \in Scope,
           NEW scope \in {caller, Shared}, CheckApproval(r, d, n, caller, scope)
    PROVE  Moves
<1> USE DEF Typed
<1>1. scope \in Scope
  BY ConstantTypes
<1>2. PICK q \in PublishReq :
         /\ req' = [req EXCEPT ![r] = q]
         /\ q.draft = d /\ q.caller = caller /\ q.scope = scope
         /\ q.hash = release /\ draft[d].program = release
  BY <1>1, CheckApprovalTakes
<1>3. q.op = "publish" /\ q \in Req
  BY DEF PublishReq, Req
<1>4. draft' = draft /\ release' = release /\ draft[d].status = "pending_review"
  BY DEF CheckApproval, Publishable
<1>5. Promise(q)'
  <2>1. scope = Shared => Bar(d)
    BY DEF CheckApproval, Publishable, RequiredFixtures, Bar
  <2>2. Bar(d)' <=> Bar(d)
    BY DEF CheckApproval, Bar, Edited, Verified
  <2>3. QED
    BY <1>2, <1>3, <1>4, <2>1, <2>2 DEF Promise
<1>6. Rows'
  BY <1>1, CheckApprovalRows
<1>7. QED
  BY <1>2, <1>3, <1>5, <1>6, OneRequest, SameDrafts, SameFixtures, SameVersions
     DEF Moves, CheckApproval

LEMMA AdminApprovalMoves ==
    ASSUME Typed, NEW r \in Request, NEW d \in Draft, NEW n \in Name, AdminApproval(r, d, n)
    PROVE  Moves
BY CheckApprovalMoves, ConstantTypes DEF AdminApproval

\* A teacher's approval goes on for the draft, caller and scope it was begun for.
LEMMA TeacherApprovalChecks ==
    ASSUME Typed, NEW r \in Request, TeacherApproval(r)
    PROVE  \E d \in Draft, n \in Name, caller \in Scope : \E scope \in {caller, Shared} :
             CheckApproval(r, d, n, caller, scope)
<1> USE DEF Typed
<1>1. req[r] \in ApproveReq /\ req[r].op = "approve"
  BY ReqByOp DEF Rows, TeacherApproval
<1>2. req[r].scope \in {req[r].caller, Shared}
  BY <1>1 DEF Promises, Promise
<1>3. req[r].draft \in Draft /\ req[r].name \in Name /\ req[r].caller \in Scope
  BY <1>1 DEF ApproveReq
<1>4. QED
  BY <1>2, <1>3 DEF TeacherApproval

LEMMA TeacherApprovalMoves ==
    ASSUME Typed, NEW r \in Request, TeacherApproval(r)
    PROVE  Moves
BY TeacherApprovalChecks, CheckApprovalMoves

LEMMA ApproveMoves ==
    ASSUME Typed, NEW r \in Request, Approve(r)
    PROVE  Moves
<1> USE DEF Typed
<1> DEFINE q == req[r]
           d == q.draft
           rest == WithoutReplaced(draft[d].fp, q.caller, q.scope)
<1>1. /\ q \in PublishReq /\ d \in Draft /\ New(q) \in VersionRow
      /\ draft[d].status = "pending_review"
      /\ rest \in Seq(VersionRow) /\ DOMAIN rest = DOMAIN version
      /\ version' = Append(rest, New(q))
      /\ draft' = [draft EXCEPT ![d].status = "approved"]
  BY ApproveWrites
<1>2. /\ draft[d].program = release /\ q.hash = release
      /\ q.scope = Shared => Bar(d)
  BY <1>1 DEF Promises, Promise, PublishReq
<1>3. /\ DOMAIN version' = DOMAIN version \union {Len(rest) + 1} /\ Len(rest) + 1 \notin DOMAIN version
      /\ \A i \in DOMAIN version : version'[i] = rest[i]
      /\ version'[Len(rest) + 1] = New(q)
  <2> HIDE DEF rest
  <2>1. QED
    BY <1>1
<1>4. New(q).draft = d /\ New(q).hash = q.hash /\ New(q).owner = q.scope
  BY DEF New
<1>5. DraftMoves
  <2> DEFINE row == [draft[d] EXCEPT !.status = "approved"]
  <2> HIDE DEF d
  <2>1. /\ row \in DraftRow /\ row.fp = draft[d].fp /\ row.program = draft[d].program
        /\ row.status = "approved"
    BY <1>1 DEF Rows, DraftRow
  <2>2. draft' = [draft EXCEPT ![d] = row]
    BY <1>1
  <2> HIDE DEF row, rest
  <2>3. \E i \in DOMAIN version' : i \notin DOMAIN version /\ version'[i].draft = d
    BY <1>3, <1>4
  <2>4. QED
    BY <1>1, <1>2, <2>1, <2>2, <2>3, OneDraft
<1>6. VersionMoves
  <2>1. \A i \in DOMAIN version : /\ rest[i].draft = version[i].draft /\ rest[i].hash = version[i].hash
                                 /\ rest[i].owner = version[i].owner
    <3>1. ASSUME NEW i \in DOMAIN version
          PROVE  /\ rest[i].draft = version[i].draft /\ rest[i].hash = version[i].hash
                 /\ rest[i].owner = version[i].owner
      <4>1. version[i] \in VersionRow
        BY DEF Rows
      <4>2. rest[i] \in {version[i], [version[i] EXCEPT !.status = "disabled"]}
        BY DEF WithoutReplaced
      <4>3. QED
        BY <4>1, <4>2 DEF VersionRow
    <3>2. QED
      BY <3>1
  <2> HIDE DEF rest, d
  <2>2. QED
    BY <1>1, <1>2, <1>3, <1>4, <2>1 DEF VersionMoves
<1>7. RequestMoves
  BY DEF Approve, RequestMoves, Rows
<1>8. QED
  BY <1>5, <1>6, <1>7, ApproveRows, SameFixtures DEF Moves, Approve

LEMMA BeginRejectionMoves ==
    ASSUME Typed, NEW r \in Request, NEW d \in Draft, BeginRejection(r, d)
    PROVE  Moves
<1> USE DEF Typed
<1>1. PICK q \in Req : q.op = "reject" /\ q.draft = d /\ req' = [req EXCEPT ![r] = q]
  <2>1. [op |-> "reject", draft |-> d] \in Req
    BY DEF Req, RejectReq
  <2>2. QED
    BY <2>1 DEF BeginRejection
<1>2. draft' = draft /\ draft[d].status = "pending_review"
  BY DEF BeginRejection
<1>3. Promise(q)'
  BY <1>1, <1>2 DEF Promise
<1>4. QED
  BY <1>1, <1>3, OneRequest, RejectionRows, SameDrafts, SameFixtures, SameVersions
     DEF Moves, BeginRejection

\* A rejection and a failed refinement are about a draft that exists.
LEMMA RejectedDraft ==
    ASSUME Typed, NEW r \in Request, req[r].op \in {"reject", "refine"}
    PROVE  req[r].draft \in Draft /\ draft[req[r].draft] \in DraftRow /\ draft[req[r].draft].status # "absent"
BY ReqByOp DEF Typed, Rows, Promises, Promise, RejectReq

LEMMA RejectMoves ==
    ASSUME Typed, NEW r \in Request, Reject(r)
    PROVE  Moves
<1> USE DEF Typed
<1>1. PICK d \in Draft : d = req[r].draft /\ draft[d] \in DraftRow /\ draft[d].status # "absent"
  BY RejectedDraft DEF Reject
<1> DEFINE row == [draft[d] EXCEPT !.status = "rejected"]
<1>2. row \in DraftRow /\ row.fp = draft[d].fp /\ row.program = draft[d].program /\ row.status = "rejected"
  BY <1>1 DEF DraftRow
<1>3. draft' = [draft EXCEPT ![d] = row]
  BY <1>1 DEF Reject
<1> HIDE DEF row
<1>4. DraftMoves
  BY <1>1, <1>2, <1>3, OneDraft
<1>5. RequestMoves
  <2>1. draft'[d].status # "absent"
    BY <1>2, <1>3 DEF Rows
  <2>2. PICK q \in Req : q = [op |-> "refine", draft |-> d]
    BY DEF Req, RejectReq
  <2>3. Promise(q)'
    BY <2>1, <2>2 DEF Promise
  <2>4. req' = [req EXCEPT ![r] = Idle] \/ req' = [req EXCEPT ![r] = q]
    BY <1>1, <2>2 DEF Reject
  <2>5. Idle \in Req
    BY DEF Req
  <2>6. QED
    BY <2>3, <2>4, <2>5, OneRequest
<1>6. QED
  BY <1>4, <1>5, RejectionRows, SameFixtures, SameVersions DEF Moves, Reject

LEMMA RefineFailedMoves ==
    ASSUME Typed, NEW r \in Request, RefineFailed(r)
    PROVE  Moves
<1> USE DEF Typed
<1>1. PICK d \in Draft : d = req[r].draft /\ draft[d] \in DraftRow
  BY RejectedDraft DEF RefineFailed
<1> DEFINE status == IF draft[d].status = "rejected" THEN "pending_review" ELSE draft[d].status
           row == [draft[d] EXCEPT !.status = status]
<1>2. row \in DraftRow /\ row.fp = draft[d].fp /\ row.program = draft[d].program /\ row.status = status
  BY <1>1 DEF DraftRow
<1>3. draft' = [draft EXCEPT ![d] = row]
  BY <1>1 DEF RefineFailed
<1> HIDE DEF row
<1>4. DraftMoves
  BY <1>1, <1>2, <1>3, OneDraft
<1>5. RequestMoves
  BY DEF RefineFailed, RequestMoves, Rows
<1>6. QED
  BY <1>4, <1>5, RejectionRows, SameFixtures, SameVersions DEF Moves, RefineFailed

LEMMA BeginPromotionMoves ==
    ASSUME Typed, NEW r \in Request, NEW i \in DOMAIN version, BeginPromotion(r, i)
    PROVE  Moves
<1> USE DEF Typed
<1>1. PICK q \in Req : q = [op |-> "promote", version |-> i]
  <2>1. i \in Nat
    BY DEF Rows
  <2>2. [op |-> "promote", version |-> i] \in Req
    BY <2>1 DEF Req, PromoteReq
  <2>3. QED
    BY <2>2
<1>2. version' = version
  BY DEF BeginPromotion
<1>3. Promise(q)'
  <2>1. Bar(version[i].draft)
    BY DEF BeginPromotion, Promotable, Bar
  <2>2. Bar(version[i].draft)'
    BY <2>1 DEF BeginPromotion, Bar, Edited, Verified
  <2>3. QED
    BY <1>1, <1>2, <2>2 DEF Promise
<1>4. req' = [req EXCEPT ![r] = q]
  BY <1>1 DEF BeginPromotion
<1>5. QED
  BY <1>3, <1>4, OneRequest, BeginPromotionRows, SameDrafts, SameFixtures, SameVersions
     DEF Moves, BeginPromotion

LEMMA PromoteMoves ==
    ASSUME Typed, NEW r \in Request, Promote(r)
    PROVE  Moves
<1> USE DEF Typed
<1> DEFINE i == req[r].version
           shared == [version[i] EXCEPT !.owner = Shared]
<1>1. /\ i \in DOMAIN version /\ version' = [version EXCEPT ![i] = shared]
      /\ DOMAIN version' = DOMAIN version
  BY PromoteWrites
<1>2. version[i] \in VersionRow
  BY <1>1 DEF Rows
<1>3. shared.draft = version[i].draft /\ shared.hash = version[i].hash
  BY <1>2 DEF VersionRow
<1>4. Bar(version[i].draft)
  BY DEF Promote, Promises, Promise
<1> HIDE DEF i, shared
<1>5. VersionMoves
  BY <1>1, <1>3, <1>4 DEF VersionMoves
<1>6. RequestMoves
  BY DEF Promote, RequestMoves, Rows
<1>7. QED
  BY <1>5, <1>6, PromoteRows, SameDrafts, SameFixtures DEF Moves, Promote

LEMMA GiveUpMoves ==
    ASSUME Typed, NEW r \in Request, GiveUp(r)
    PROVE  Moves
<1> USE DEF Typed
<1>1. Rows'
  BY DEF GiveUp, Rows, Req
<1>2. RequestMoves
  BY DEF GiveUp, RequestMoves, Rows
<1>3. QED
  BY <1>1, <1>2, SameDrafts, SameFixtures, SameVersions DEF Moves, GiveUp

LEMMA DeployMoves ==
    ASSUME Typed, Deploy
    PROVE  Moves
BY DeployRows, SameDrafts, SameFixtures, SameVersions DEF Typed, Moves, Deploy, RequestMoves

\* Whatever happens, drafts, fixtures, versions and requests move like this.
LEMMA NextMoves ==
    ASSUME Typed, [Next]_vars
    PROVE  Moves
<1>1. CASE UNCHANGED vars
  <2>1. Rows' /\ RequestMoves
    BY <1>1 DEF vars, Typed, Rows, RequestMoves
  <2>2. QED
    BY <1>1, <2>1, SameDrafts, SameFixtures, SameVersions DEF vars, Moves
<1>2. CASE Next
  BY <1>2, DeployMoves, PersistMoves, CommitEditMoves, WriteEvidenceMoves, TeacherApprovalMoves,
     ApproveMoves, RejectMoves, RefineFailedMoves, PromoteMoves, GiveUpMoves, BeginPromotionMoves,
     BeginRevalidationMoves, BeginRejectionMoves, BeginEditMoves, RecordAnswersMoves,
     AdminApprovalMoves
     DEF Next
<1>3. QED
  BY <1>1, <1>2

\* A release ends every request, and nothing else changes it.
LEMMA ReleaseStays ==
    ASSUME [Next]_vars
    PROVE  release' = release \/ req' = [r \in Request |-> Idle]
<1>1. CASE UNCHANGED vars
  BY <1>1 DEF vars
<1>2. CASE Deploy
  BY <1>2 DEF Deploy
<1>3. CASE \E d \in Draft : Persist(d)
  BY <1>3 DEF Persist
<1>4. ASSUME NEW r \in Request,
             \/ CommitEdit(r) \/ WriteEvidence(r) \/ TeacherApproval(r) \/ Approve(r) \/ Reject(r)
             \/ RefineFailed(r) \/ Promote(r) \/ GiveUp(r)
      PROVE  release' = release
  BY <1>4 DEF CommitEdit, WriteEvidence, TeacherApproval, CheckApproval, Approve, Reject, RefineFailed,
     Promote, GiveUp
<1>5. ASSUME NEW r \in Request, NEW i \in DOMAIN version, BeginPromotion(r, i)
      PROVE  release' = release
  BY <1>5 DEF BeginPromotion
<1>6. ASSUME NEW r \in Request, NEW d \in Draft,
             \/ BeginRevalidation(r, d) \/ BeginRejection(r, d)
             \/ \E f \in Fixture : BeginEdit(r, d, f)
             \/ \E n \in Name : RecordAnswers(r, d, n) \/ AdminApproval(r, d, n)
      PROVE  release' = release
  BY <1>6 DEF BeginRevalidation, BeginRejection, BeginEdit, RecordAnswers, AdminApproval, CheckApproval
<1>7. QED
  BY <1>1, <1>2, <1>3, <1>4, <1>5, <1>6 DEF Next

\* Evidence is lost only where a fixture is edited.
LEMMA BarKept ==
    ASSUME Rows, Rows', FixtureMoves, NEW d \in Draft, draft[d].status # "absent", Bar(d)
    PROVE  Bar(d)'
<1> SUFFICES ASSUME ~ Edited(d)' PROVE Verified(d)' >= Configured
  BY DEF Bar
<1> DEFINE proved == {f \in Fixture : fixture[d][f].recorded /\ fixture[d][f].structural}
<1>1. \A f \in Fixture : fixture'[d][f].params = 0
  BY DEF Edited
<1>2. \A f \in Fixture : fixture[d][f].params = 0
  BY <1>1 DEF FixtureMoves
<1>3. Verified(d) >= Configured
  BY <1>2 DEF Bar, Edited
<1>4. proved \subseteq proved'
  BY <1>1 DEF FixtureMoves
<1>5. IsFiniteSet(proved) /\ IsFiniteSet(proved') /\ Cardinality(proved) <= Cardinality(proved')
  <2>1. proved' \subseteq Fixture
    OBVIOUS
  <2> HIDE DEF proved
  <2>2. IsFiniteSet(proved')
    BY <2>1, ConstantTypes, FS_Subset
  <2>3. QED
    BY <1>4, <2>2, FS_Subset
<1>6. Verified(d) = Cardinality(proved) /\ Verified(d)' = Cardinality(proved')
  BY DEF Verified
<1> HIDE DEF proved
<1>7. QED
  BY <1>3, <1>5, <1>6, ConstantTypes, FS_CardinalityType

\* While the release stays, what a request was let through for goes on to hold.
LEMMA PromiseKept ==
    ASSUME Typed, NEW q \in Req, Promise(q), Moves, release' = release
    PROVE  Promise(q)'
<1>1. q.op \notin {"idle", "promote"} => q.draft \in Draft
  BY ReqByOp DEF EditReq, EvidenceReq, ApproveReq, PublishReq, RejectReq
<1>2. ASSUME q.draft \in Draft, draft[q.draft].status # "absent"
      PROVE  draft'[q.draft].status # "absent"
  BY <1>2 DEF Moves, DraftMoves
<1>3. ASSUME q.draft \in Draft, draft[q.draft].program = release
      PROVE  draft'[q.draft].program = release
  BY <1>3 DEF Moves, DraftMoves
<1>4. ASSUME q.draft \in Draft, q.op = "evidence", draft'[q.draft].status = "approved"
      PROVE  draft[q.draft].program = release
  BY <1>4 DEF Moves, DraftMoves, Promise
<1>5. ASSUME q.op = "publish", q.scope = Shared
      PROVE  Bar(q.draft)'
  <2>1. Bar(q.draft) /\ draft[q.draft].status # "absent" /\ q.draft \in Draft
    BY <1>1, <1>5 DEF Promise
  <2>2. QED
    BY <2>1, BarKept DEF Typed, Moves
<1>6. ASSUME q.op = "promote"
      PROVE  q.version \in DOMAIN version' /\ Bar(version[q.version].draft)'
  <2>1. PICK i \in DOMAIN version : i = q.version /\ Bar(version[i].draft)
    BY <1>6 DEF Promise
  <2>2. PICK d \in Draft : d = version[i].draft
    <3>1. version[i] \in VersionRow
      BY DEF Typed, Rows
    <3>2. QED
      BY <3>1 DEF VersionRow
  <2>3. Bar(d)'
    BY <2>1, <2>2, BarKept DEF Typed, Stored, Moves
  <2>4. i \in DOMAIN version' /\ version'[i].draft = d
    BY <2>2 DEF Moves, VersionMoves
  <2>5. QED
    BY <2>1, <2>3, <2>4 DEF Bar, Edited, Verified
<1>7. QED
  BY <1>1, <1>2, <1>3, <1>4, <1>5, <1>6 DEF Promise

LEMMA NextTyped ==
    ASSUME Typed, [Next]_vars
    PROVE  Typed'
<1>1. Moves
  BY NextMoves
<1>2. Promises'
  <2> SUFFICES ASSUME NEW r \in Request PROVE Promise(req[r])'
    BY DEF Promises
  <2>1. PICK q \in Req : q = req'[r]
    BY <1>1 DEF Moves, Rows
  <2>2. Promise(q)'
    <3>1. CASE q = Idle
      BY <3>1 DEF Promise, Idle
    <3>2. CASE q = req[r] /\ release' = release
      <4>1. Promise(q)
        BY <3>2 DEF Typed, Promises
      <4>2. QED
        BY <1>1, <3>2, <4>1, PromiseKept DEF Typed, Moves
    <3>3. CASE \E p \in Req : q = p /\ Promise(p)'
      BY <3>3
    <3>4. QED
      BY <1>1, <2>1, <3>1, <3>2, <3>3, ReleaseStays DEF Moves, RequestMoves
  <2>3. QED
    BY <2>1, <2>2 DEF Promise
<1>3. Stored'
  <2> SUFFICES ASSUME NEW i \in DOMAIN version' PROVE draft'[version'[i].draft].status # "absent"
    BY DEF Stored
  <2>1. version'[i].draft \in Draft /\ draft[version'[i].draft].status # "absent"
    <3>1. CASE i \in DOMAIN version
      <4>1. version[i] \in VersionRow
        BY <3>1 DEF Typed, Rows
      <4>2. QED
        BY <1>1, <3>1, <4>1 DEF Typed, Stored, Moves, VersionMoves, VersionRow
    <3>2. CASE i \notin DOMAIN version
      BY <1>1, <3>2 DEF Moves, VersionMoves
    <3>3. QED
      BY <3>1, <3>2
  <2>2. QED
    BY <1>1, <2>1 DEF Moves, DraftMoves
<1>4. QED
  BY <1>1, <1>2, <1>3 DEF Typed, Moves

LEMMA InitTyped == Init => Typed
<1> SUFFICES ASSUME Init PROVE Typed
  OBVIOUS
<1>1. Rows
  BY ConstantTypes DEF Init, Rows, DraftRow, FixtureRow, Req, Idle
<1>2. Promises /\ Stored
  BY DEF Init, Promises, Promise, Stored, Idle
<1>3. QED
  BY <1>1, <1>2 DEF Typed

-----------------------------------------------------------------------------
(* What a version loads, and who may see it *)

\* An approved draft has a version.
ApprovedMade == \A d \in Draft : draft[d].status = "approved" => Made(d) # {}

\* The versions of a draft, in sets that grow.
LEMMA MadeMoves ==
    ASSUME Typed, Moves
    PROVE  \A d \in Draft :
             /\ Made(d) \subseteq Made(d)'
             /\ IsFiniteSet(Made(d)) /\ IsFiniteSet(Made(d)')
             /\ draft'[d].status = "approved" /\ draft[d].status # "approved" =>
                   \E i \in Made(d)' : i \notin DOMAIN version
<1>1. DOMAIN version = 1 .. Len(version) /\ Len(version) \in Nat
  BY DEF Typed, Rows
<1>2. DOMAIN version' = 1 .. Len(version') /\ Len(version') \in Nat
  BY DEF Moves, Rows
<1>3. IsFiniteSet(DOMAIN version) /\ IsFiniteSet(DOMAIN version')
  BY <1>1, <1>2, FS_Interval
<1> SUFFICES ASSUME NEW d \in Draft
             PROVE  /\ Made(d) \subseteq Made(d)'
                    /\ IsFiniteSet(Made(d)) /\ IsFiniteSet(Made(d)')
                    /\ draft'[d].status = "approved" /\ draft[d].status # "approved" =>
                          \E i \in Made(d)' : i \notin DOMAIN version
  OBVIOUS
<1>4. Made(d) \subseteq Made(d)'
  BY DEF Moves, VersionMoves, Made
<1>5. Made(d) \subseteq DOMAIN version /\ Made(d)' \subseteq DOMAIN version'
  BY DEF Made
<1>6. IsFiniteSet(Made(d)) /\ IsFiniteSet(Made(d)')
  BY <1>3, <1>5, FS_Subset
<1>7. ASSUME draft'[d].status = "approved", draft[d].status # "approved"
      PROVE  \E i \in Made(d)' : i \notin DOMAIN version
  <2>1. \E i \in DOMAIN version' : i \notin DOMAIN version /\ version'[i].draft = d
    BY <1>7 DEF Moves, DraftMoves
  <2>2. QED
    BY <2>1 DEF Made
<1>8. QED
  BY <1>4, <1>6, <1>7

\* A set that is contained in one of one member has no two members.
LEMMA OnlyMember ==
    ASSUME NEW S, NEW T, S \subseteq T, IsFiniteSet(T), Cardinality(T) = 1, S # {}
    PROVE  Cardinality(S) = 1 /\ \A x, y \in T : x = y
<1>1. PICK x : T = {x}
  BY FS_Singleton
<1>2. S = {x}
  BY <1>1
<1>3. QED
  BY <1>1, <1>2, FS_Singleton

LEMMA NextLoads ==
    ASSUME Typed, Moves, LoadsWhatWasApproved
    PROVE  LoadsWhatWasApproved'
<1> SUFFICES ASSUME NEW i \in DOMAIN version', Standing(version[i].draft)'
             PROVE  draft'[version'[i].draft].program = version'[i].hash
  BY DEF LoadsWhatWasApproved, Loaded
<1>1. PICK d \in Draft : d = version'[i].draft
  <2>1. version'[i] \in VersionRow
    BY DEF Moves, Rows
  <2>2. QED
    BY <2>1 DEF VersionRow
<1>2. draft'[d].status = "approved" /\ Cardinality(Made(d)') = 1 /\ i \in Made(d)'
  BY <1>1 DEF Standing, Made
<1>3. CASE i \notin DOMAIN version
  BY <1>1, <1>3 DEF Moves, VersionMoves, DraftMoves
<1>4. CASE i \in DOMAIN version
  <2>1. version[i].draft = d /\ version'[i].hash = version[i].hash /\ i \in Made(d)
    BY <1>1, <1>4 DEF Moves, VersionMoves, Made
  <2>2. Cardinality(Made(d)) = 1 /\ \A j \in Made(d)' : j = i
    BY <1>2, <2>1, MadeMoves, OnlyMember
  <2>3. draft[d].status = "approved"
    BY <1>2, <1>4, <2>2, MadeMoves
  <2>4. draft[d].program = version[i].hash
    BY <1>4, <2>1, <2>2, <2>3 DEF LoadsWhatWasApproved, Standing, Loaded
  <2>5. QED
    BY <1>1, <2>1, <2>3, <2>4 DEF Moves, DraftMoves
<1>5. QED
  BY <1>3, <1>4

LEMMA NextApprovedMade ==
    ASSUME Typed, Moves, ApprovedMade
    PROVE  ApprovedMade'
BY MadeMoves DEF ApprovedMade

LEMMA NextShared ==
    ASSUME Typed, Moves, SharedMeetsTheBar
    PROVE  SharedMeetsTheBar'
<1> SUFFICES ASSUME NEW i \in DOMAIN version', version'[i].owner = Shared
             PROVE  Bar(version[i].draft)'
  BY DEF SharedMeetsTheBar, Bar
<1>1. PICK d \in Draft : d = version'[i].draft
  <2>1. version'[i] \in VersionRow
    BY DEF Moves, Rows
  <2>2. QED
    BY <2>1 DEF VersionRow
<1>2. Bar(d) /\ draft[d].status # "absent"
  <2>1. CASE i \in DOMAIN version
    <3>1. version[i].draft = d /\ (version[i].owner = Shared \/ Bar(d))
      BY <1>1, <2>1 DEF Moves, VersionMoves
    <3>2. QED
      BY <2>1, <3>1 DEF SharedMeetsTheBar, Bar, Typed, Stored
  <2>2. CASE i \notin DOMAIN version
    BY <1>1, <2>2 DEF Moves, VersionMoves
  <2>3. QED
    BY <2>1, <2>2
<1>3. Bar(d)'
  BY <1>2, BarKept DEF Typed, Moves
<1>4. QED
  BY <1>1, <1>3 DEF Bar, Edited, Verified

\* Every reachable state is well formed, and what requests in flight were let
\* through for still holds: the drafts exist, the program that is published is the
\* one of this release, and the evidence is still there.
THEOREM AlwaysTyped == Spec => []Typed
<1>1. Init => Typed
  BY InitTyped
<1>2. Typed /\ [Next]_vars => Typed'
  BY NextTyped
<1>3. QED
  BY <1>1, <1>2, PTL DEF Spec

\* However approvals, promotions, replacements, revalidations and releases
\* interleave, a version loads the scene program it was approved with
\* (dynamic_templates.py caches it), as long as no rejection overwrote the approval.
THEOREM VersionsLoadWhatWasApproved == Spec => []LoadsWhatWasApproved
<1>1. Init => LoadsWhatWasApproved
  BY DEF Init, LoadsWhatWasApproved
<1>2. Typed /\ [Next]_vars => Moves
  BY NextMoves
<1>3. Typed /\ Moves /\ LoadsWhatWasApproved => LoadsWhatWasApproved'
  BY NextLoads
<1>4. QED
  BY <1>1, <1>2, <1>3, AlwaysTyped, PTL DEF Spec

\* A version everybody sees has the evidence that is asked for a template for
\* everybody (approval.py, promotion.py), unless a fixture of its draft was edited
\* after its evidence was counted.
THEOREM SharedVersionsMeetTheBar == Spec => []SharedMeetsTheBar
<1>1. Init => SharedMeetsTheBar
  BY DEF Init, SharedMeetsTheBar
<1>2. Typed /\ [Next]_vars => Moves
  BY NextMoves
<1>3. Typed /\ Moves /\ SharedMeetsTheBar => SharedMeetsTheBar'
  BY NextShared
<1>4. QED
  BY <1>1, <1>2, <1>3, AlwaysTyped, PTL DEF Spec

-----------------------------------------------------------------------------
(* How many versions a draft has *)

\* The versions, the rejections under way and the approved ones among drafts D.
MadeIn(D) == {i \in DOMAIN version : version[i].draft \in D}
RejectingIn(D) == {r \in Request : req[r].op = "reject" /\ req[r].draft \in D}
ApprovedIn(D) == {d \in D : draft[d].status = "approved"}

\* A version was published by an approval that stands or that a rejection, begun
\* before it, has overwritten.
Counted ==
    \A D \in SUBSET Draft :
        /\ IsFiniteSet(RejectingIn(D))
        /\ Cardinality(MadeIn(D)) + Cardinality(RejectingIn(D)) <= rejections + Cardinality(ApprovedIn(D))

\* A step that neither publishes nor rejects.
Quiet ==
    /\ rejections' = rejections /\ DOMAIN version' = DOMAIN version
    /\ \A d \in Draft : draft'[d].status = "rejected" => draft[d].status = "rejected"
    /\ \A r \in Request : req'[r].op = "reject" => req'[r] = req[r]

LEMMA QuietOrCounted ==
    ASSUME Typed, [Next]_vars
    PROVE  Quiet \/ \E r \in Request : Approve(r) \/ Reject(r) \/ \E d \in Draft : BeginRejection(r, d)
<1> USE DEF Typed, Rows
<1>1. CASE UNCHANGED vars
  BY <1>1 DEF vars, Quiet
<1>2. CASE Deploy
  BY <1>2 DEF Deploy, Quiet, Idle
<1>3. ASSUME NEW d \in Draft, Persist(d) PROVE Quiet
  <2>1. DraftMoves /\ draft[d].status = "absent"
    BY <1>3, PersistMoves DEF Moves, Persist
  <2>2. \A e \in Draft \ {d} : draft'[e] = draft[e]
    BY <1>3 DEF Persist
  <2>3. draft'[d].status # "rejected"
    BY <2>1 DEF DraftMoves
  <2>4. QED
    BY <1>3, <2>2, <2>3 DEF Persist, Quiet
<1>4. ASSUME NEW r \in Request, CommitEdit(r) PROVE Quiet
  <2>1. PICK d \in Draft, n \in Release \union {0} : draft' = [draft EXCEPT ![d] = [draft[d] EXCEPT !.report = n]]
    BY <1>4, CommitEditWrites
  <2>2. [draft[d] EXCEPT !.report = n].status = draft[d].status
    BY DEF DraftRow
  <2>3. \A e \in Draft : draft'[e].status = draft[e].status
    BY <2>1, <2>2
  <2>4. QED
    BY <1>4, <2>3 DEF CommitEdit, Quiet, Idle
<1>5. ASSUME NEW r \in Request, WriteEvidence(r) PROVE Quiet
  <2>1. PICK d \in Draft, row \in DraftRow : draft' = [draft EXCEPT ![d] = row] /\ row.status = draft[d].status
    <3>1. PICK row \in DraftRow :
            /\ req[r].draft \in Draft
            /\ draft' = [draft EXCEPT ![req[r].draft] = row]
            /\ \A field \in {"fp", "owner", "builtFrom", "grounded", "status"} :
                  row[field] = draft[req[r].draft][field]
      BY <1>5, WriteEvidenceWrites
    <3>2. row.status = draft[req[r].draft].status
      BY <3>1
    <3>3. QED
      BY <3>1, <3>2
  <2>2. \A e \in Draft : draft'[e].status = draft[e].status
    BY <2>1
  <2>3. QED
    BY <1>5, <2>2 DEF WriteEvidence, Quiet, Idle
<1>6. ASSUME NEW r \in Request, RefineFailed(r) PROVE Quiet
  <2>1. PICK d \in Draft : d = req[r].draft /\ draft[d] \in DraftRow
    BY <1>6, RejectedDraft DEF RefineFailed
  <2>2. PICK st : /\ draft' = [draft EXCEPT ![d] = [draft[d] EXCEPT !.status = st]]
                  /\ st = IF draft[d].status = "rejected" THEN "pending_review" ELSE draft[d].status
    BY <1>6, <2>1 DEF RefineFailed
  <2>3. [draft[d] EXCEPT !.status = st].status = st
    BY <2>1 DEF DraftRow
  <2>4. \A e \in Draft : draft'[e].status = "rejected" => draft[e].status = "rejected"
    BY <2>2, <2>3
  <2>5. QED
    BY <1>6, <2>4 DEF RefineFailed, Quiet, Idle
<1>7. ASSUME NEW r \in Request, Promote(r) PROVE Quiet
  <2>1. DOMAIN version' = DOMAIN version
    BY <1>7, PromoteWrites
  <2>2. QED
    BY <1>7, <2>1 DEF Promote, Quiet, Idle
<1>8. ASSUME NEW r \in Request, GiveUp(r) PROVE Quiet
  BY <1>8 DEF GiveUp, Quiet, Idle
<1>9. ASSUME NEW r \in Request, TeacherApproval(r) PROVE Quiet
  BY <1>9 DEF TeacherApproval, CheckApproval, Quiet
<1>10. ASSUME NEW r \in Request, NEW i \in DOMAIN version, BeginPromotion(r, i) PROVE Quiet
  BY <1>10 DEF BeginPromotion, Quiet
<1>11. ASSUME NEW r \in Request, NEW d \in Draft, BeginRevalidation(r, d) PROVE Quiet
  BY <1>11 DEF BeginRevalidation, Quiet
<1>12. ASSUME NEW r \in Request, NEW d \in Draft, NEW f \in Fixture, BeginEdit(r, d, f) PROVE Quiet
  BY <1>12 DEF BeginEdit, Quiet
<1>13. ASSUME NEW r \in Request, NEW d \in Draft, NEW n \in Name, RecordAnswers(r, d, n) PROVE Quiet
  BY <1>13 DEF RecordAnswers, Quiet
<1>14. ASSUME NEW r \in Request, NEW d \in Draft, NEW n \in Name, AdminApproval(r, d, n) PROVE Quiet
  BY <1>14 DEF AdminApproval, CheckApproval, Quiet
<1>15. QED
  BY <1>1, <1>2, <1>3, <1>4, <1>5, <1>6, <1>7, <1>8, <1>9, <1>10, <1>11, <1>12, <1>13, <1>14
     DEF Next

\* All of these are finite sets of versions and drafts.
LEMMA CountedSets ==
    ASSUME Rows, NEW D \in SUBSET Draft
    PROVE  /\ IsFiniteSet(MadeIn(D)) /\ IsFiniteSet(ApprovedIn(D))
           /\ Cardinality(MadeIn(D)) \in Nat /\ Cardinality(ApprovedIn(D)) \in Nat
<1>1. DOMAIN version = 1 .. Len(version) /\ Len(version) \in Nat
  BY DEF Rows
<1>2. IsFiniteSet(DOMAIN version) /\ MadeIn(D) \subseteq DOMAIN version
  BY <1>1, FS_Interval DEF MadeIn
<1>3. IsFiniteSet(Draft) /\ ApprovedIn(D) \subseteq Draft
  BY ConstantTypes DEF ApprovedIn
<1>4. IsFiniteSet(MadeIn(D)) /\ IsFiniteSet(ApprovedIn(D))
  BY <1>2, <1>3, FS_Subset
<1>5. QED
  BY <1>4, FS_CardinalityType

LEMMA QuietCounted ==
    ASSUME Typed, Moves, Quiet, Counted
    PROVE  Counted'
<1> SUFFICES ASSUME NEW D \in SUBSET Draft
             PROVE  /\ IsFiniteSet(RejectingIn(D)')
                    /\ Cardinality(MadeIn(D)') + Cardinality(RejectingIn(D)')
                          <= rejections' + Cardinality(ApprovedIn(D)')
  BY DEF Counted
<1>1. MadeIn(D)' = MadeIn(D)
  BY DEF MadeIn, Quiet, Moves, VersionMoves
<1>2. ApprovedIn(D)' = ApprovedIn(D)
  BY DEF ApprovedIn, Quiet, Moves, DraftMoves
<1>3. RejectingIn(D)' \subseteq RejectingIn(D)
  BY DEF RejectingIn, Quiet
<1>4. IsFiniteSet(RejectingIn(D))
  BY DEF Counted
<1>5. /\ IsFiniteSet(RejectingIn(D)') /\ Cardinality(RejectingIn(D)') <= Cardinality(RejectingIn(D))
      /\ Cardinality(RejectingIn(D)') \in Nat /\ Cardinality(RejectingIn(D)) \in Nat
  BY <1>3, <1>4, FS_Subset, FS_CardinalityType
<1>6. /\ Cardinality(MadeIn(D)) + Cardinality(RejectingIn(D)) <= rejections + Cardinality(ApprovedIn(D))
      /\ rejections' = rejections /\ rejections \in Nat
  BY DEF Counted, Quiet, Typed, Rows
<1>7. Cardinality(MadeIn(D)) \in Nat /\ Cardinality(ApprovedIn(D)) \in Nat
  BY CountedSets DEF Typed
<1>8. QED
  BY <1>1, <1>2, <1>5, <1>6, <1>7

\* One more element in a finite set.
LEMMA OneMore ==
    ASSUME NEW S, NEW T, NEW x, IsFiniteSet(S), x \notin S, T = S \union {x}
    PROVE  IsFiniteSet(T) /\ Cardinality(T) = Cardinality(S) + 1
BY FS_AddElement

LEMMA AtMostOneMore ==
    ASSUME NEW S, NEW x, IsFiniteSet(S)
    PROVE  /\ IsFiniteSet(S \union {x})
           /\ Cardinality(S \union {x}) <= Cardinality(S) + 1
           /\ Cardinality(S \union {x}) \in Nat
<1>1. IsFiniteSet(S \union {x}) /\ Cardinality(S) \in Nat
  BY FS_AddElement, FS_CardinalityType
<1>2. Cardinality(S \union {x}) \in {Cardinality(S), Cardinality(S) + 1}
  BY FS_AddElement
<1>3. QED
  BY <1>1, <1>2

LEMMA ApproveCounted ==
    ASSUME Typed, Moves, Counted, NEW r \in Request, Approve(r)
    PROVE  Counted'
<1> USE DEF Typed
<1> SUFFICES ASSUME NEW D \in SUBSET Draft
             PROVE  /\ IsFiniteSet(RejectingIn(D)')
                    /\ Cardinality(MadeIn(D)') + Cardinality(RejectingIn(D)')
                          <= rejections' + Cardinality(ApprovedIn(D)')
  BY DEF Counted
<1>1. PICK d \in Draft, i \in DOMAIN version' :
        /\ draft[d].status = "pending_review"
        /\ draft' = [draft EXCEPT ![d].status = "approved"]
        /\ i \notin DOMAIN version /\ DOMAIN version' = DOMAIN version \union {i}
        /\ version'[i].draft = d
  <2> DEFINE d == req[r].draft
             rest == WithoutReplaced(draft[d].fp, req[r].caller, req[r].scope)
  <2>1. /\ d \in Draft /\ draft[d].status = "pending_review"
        /\ draft' = [draft EXCEPT ![d].status = "approved"]
        /\ rest \in Seq(VersionRow) /\ DOMAIN rest = DOMAIN version
        /\ version' = Append(rest, New(req[r]))
    BY ApproveWrites
  <2>2. New(req[r]).draft = d
    BY DEF New
  <2> HIDE DEF d, rest
  <2>3. /\ DOMAIN version' = DOMAIN version \union {Len(rest) + 1}
        /\ Len(rest) + 1 \notin DOMAIN version
        /\ version'[Len(rest) + 1] = New(req[r])
    BY <2>1
  <2>4. QED
    BY <2>1, <2>2, <2>3
<1>2. draft'[d].status = "approved" /\ \A e \in Draft \ {d} : draft'[e] = draft[e]
  <2>1. draft[d] \in DraftRow
    BY DEF Rows
  <2>2. draft' = [draft EXCEPT ![d] = [draft[d] EXCEPT !.status = "approved"]]
    BY <1>1
  <2>3. QED
    BY <2>1, <2>2 DEF Rows, DraftRow
<1>3. RejectingIn(D)' \subseteq RejectingIn(D) /\ rejections' = rejections
  BY DEF RejectingIn, Approve, Idle, Rows
<1>4. IsFiniteSet(RejectingIn(D))
  BY DEF Counted
<1>5. /\ IsFiniteSet(RejectingIn(D)') /\ Cardinality(RejectingIn(D)') <= Cardinality(RejectingIn(D))
      /\ Cardinality(RejectingIn(D)') \in Nat /\ Cardinality(RejectingIn(D)) \in Nat
  BY <1>3, <1>4, FS_Subset, FS_CardinalityType
<1>6. /\ Cardinality(MadeIn(D)) + Cardinality(RejectingIn(D)) <= rejections + Cardinality(ApprovedIn(D))
      /\ rejections \in Nat
      /\ IsFiniteSet(MadeIn(D)) /\ IsFiniteSet(ApprovedIn(D))
      /\ Cardinality(MadeIn(D)) \in Nat /\ Cardinality(ApprovedIn(D)) \in Nat
  BY CountedSets DEF Counted, Rows
<1>7. CASE d \in D
  <2>1. MadeIn(D)' = MadeIn(D) \union {i} /\ i \notin MadeIn(D)
    BY <1>1, <1>7 DEF MadeIn, Moves, VersionMoves
  <2>2. ApprovedIn(D)' = ApprovedIn(D) \union {d} /\ d \notin ApprovedIn(D)
    BY <1>1, <1>2, <1>7 DEF ApprovedIn
  <2>3. /\ Cardinality(MadeIn(D)') = Cardinality(MadeIn(D)) + 1
        /\ Cardinality(ApprovedIn(D)') = Cardinality(ApprovedIn(D)) + 1
    BY <1>6, <2>1, <2>2, OneMore
  <2>4. QED
    BY <1>3, <1>5, <1>6, <2>3
<1>8. CASE d \notin D
  <2>1. MadeIn(D)' = MadeIn(D)
    BY <1>1, <1>8 DEF MadeIn, Moves, VersionMoves
  <2>2. ApprovedIn(D)' = ApprovedIn(D)
    BY <1>2, <1>8 DEF ApprovedIn
  <2>3. QED
    BY <1>3, <1>5, <1>6, <2>1, <2>2
<1>9. QED
  BY <1>7, <1>8

LEMMA BeginRejectionCounted ==
    ASSUME Typed, Moves, Counted, NEW r \in Request, NEW d \in Draft, BeginRejection(r, d)
    PROVE  Counted'
<1> USE DEF Typed
<1> SUFFICES ASSUME NEW D \in SUBSET Draft
             PROVE  /\ IsFiniteSet(RejectingIn(D)')
                    /\ Cardinality(MadeIn(D)') + Cardinality(RejectingIn(D)')
                          <= rejections' + Cardinality(ApprovedIn(D)')
  BY DEF Counted
<1>1. MadeIn(D)' = MadeIn(D) /\ ApprovedIn(D)' = ApprovedIn(D)
  BY DEF MadeIn, ApprovedIn, BeginRejection
<1>2. rejections' = rejections + 1 /\ rejections \in Nat
  BY DEF BeginRejection, Rows
<1>3. /\ Cardinality(MadeIn(D)) + Cardinality(RejectingIn(D)) <= rejections + Cardinality(ApprovedIn(D))
      /\ IsFiniteSet(RejectingIn(D))
      /\ Cardinality(RejectingIn(D)) \in Nat
      /\ Cardinality(MadeIn(D)) \in Nat /\ Cardinality(ApprovedIn(D)) \in Nat
  BY CountedSets, FS_CardinalityType DEF Counted
<1>4. RejectingIn(D)' \subseteq RejectingIn(D) \union {r}
  BY DEF RejectingIn, BeginRejection, Rows
<1>5. /\ IsFiniteSet(RejectingIn(D) \union {r})
      /\ Cardinality(RejectingIn(D) \union {r}) <= Cardinality(RejectingIn(D)) + 1
      /\ Cardinality(RejectingIn(D) \union {r}) \in Nat
  BY <1>3, AtMostOneMore
<1>6. /\ IsFiniteSet(RejectingIn(D)')
      /\ Cardinality(RejectingIn(D)') <= Cardinality(RejectingIn(D) \union {r})
      /\ Cardinality(RejectingIn(D)') \in Nat
  BY <1>4, <1>5, FS_Subset, FS_CardinalityType
<1>7. QED
  BY <1>1, <1>2, <1>3, <1>5, <1>6

LEMMA RejectCounted ==
    ASSUME Typed, Moves, Counted, NEW r \in Request, Reject(r)
    PROVE  Counted'
<1> USE DEF Typed
<1> SUFFICES ASSUME NEW D \in SUBSET Draft
             PROVE  /\ IsFiniteSet(RejectingIn(D)')
                    /\ Cardinality(MadeIn(D)') + Cardinality(RejectingIn(D)')
                          <= rejections' + Cardinality(ApprovedIn(D)')
  BY DEF Counted
<1>1. PICK d \in Draft : d = req[r].draft /\ draft' = [draft EXCEPT ![d].status = "rejected"]
  BY RejectedDraft DEF Reject
<1>2. \A e \in Draft \ {d} : draft'[e] = draft[e]
  BY <1>1
<1>3. MadeIn(D)' = MadeIn(D) /\ rejections' = rejections
  BY DEF MadeIn, Reject
<1>4. /\ Cardinality(MadeIn(D)) + Cardinality(RejectingIn(D)) <= rejections + Cardinality(ApprovedIn(D))
      /\ rejections \in Nat
      /\ IsFiniteSet(RejectingIn(D)) /\ IsFiniteSet(ApprovedIn(D)) /\ IsFiniteSet(ApprovedIn(D)')
      /\ Cardinality(RejectingIn(D)) \in Nat /\ Cardinality(MadeIn(D)) \in Nat
      /\ Cardinality(ApprovedIn(D)) \in Nat /\ Cardinality(ApprovedIn(D)') \in Nat
  <2>1. IsFiniteSet(ApprovedIn(D)') /\ Cardinality(ApprovedIn(D)') \in Nat
    <3>1. ApprovedIn(D)' \subseteq Draft
      BY DEF ApprovedIn
    <3>2. QED
      BY <3>1, ConstantTypes, FS_Subset, FS_CardinalityType
  <2>2. QED
    BY <2>1, CountedSets, FS_CardinalityType DEF Counted, Rows
<1>5. req'[r].op # "reject" /\ \A q \in Request \ {r} : req'[q] = req[q]
  BY DEF Reject, Idle, Rows
<1>6. CASE d \in D
  <2>1. RejectingIn(D)' = RejectingIn(D) \ {r} /\ r \in RejectingIn(D)
    BY <1>1, <1>5, <1>6 DEF RejectingIn, Reject
  <2>2. IsFiniteSet(RejectingIn(D)') /\ Cardinality(RejectingIn(D)') = Cardinality(RejectingIn(D)) - 1
    BY <1>4, <2>1, FS_RemoveElement
  <2>3. ApprovedIn(D) \subseteq ApprovedIn(D)' \union {d}
    BY <1>2 DEF ApprovedIn
  <2>4. /\ IsFiniteSet(ApprovedIn(D)' \union {d})
        /\ Cardinality(ApprovedIn(D)' \union {d}) <= Cardinality(ApprovedIn(D)') + 1
        /\ Cardinality(ApprovedIn(D)' \union {d}) \in Nat
    BY <1>4, AtMostOneMore
  <2>5. Cardinality(ApprovedIn(D)) <= Cardinality(ApprovedIn(D)' \union {d})
    BY <2>3, <2>4, FS_Subset
  <2>6. QED
    BY <1>3, <1>4, <2>2, <2>4, <2>5
<1>7. CASE d \notin D
  <2>1. RejectingIn(D)' = RejectingIn(D)
    BY <1>1, <1>5, <1>7 DEF RejectingIn
  <2>2. ApprovedIn(D)' = ApprovedIn(D)
    BY <1>2, <1>7 DEF ApprovedIn
  <2>3. QED
    BY <1>3, <1>4, <2>1, <2>2
<1>8. QED
  BY <1>6, <1>7

LEMMA NextCounted ==
    ASSUME Typed, Moves, Counted, [Next]_vars
    PROVE  Counted'
BY QuietOrCounted, QuietCounted, ApproveCounted, BeginRejectionCounted, RejectCounted

LEMMA InitCounted == Init => Counted
<1> SUFFICES ASSUME Init, NEW D \in SUBSET Draft
             PROVE  /\ IsFiniteSet(RejectingIn(D))
                    /\ Cardinality(MadeIn(D)) + Cardinality(RejectingIn(D)) <= rejections + Cardinality(ApprovedIn(D))
  BY DEF Counted
<1>1. Typed
  BY InitTyped
<1>2. MadeIn(D) = {} /\ RejectingIn(D) = {} /\ rejections = 0
  BY DEF Init, MadeIn, RejectingIn, Idle
<1>3. IsFiniteSet({}) /\ Cardinality({}) = 0
  BY FS_EmptySet
<1>4. Cardinality(ApprovedIn(D)) \in Nat
  BY <1>1, CountedSets DEF Typed
<1>5. QED
  BY <1>2, <1>3, <1>4

\* The type invariant, from the counts of the versions of one draft.
LEMMA CountedTypes ==
    ASSUME Typed, Counted, ApprovedMade
    PROVE  TypeOK
<1> SUFFICES ASSUME NEW d \in Draft PROVE Cardinality(Made(d)) <= 1 + rejections
  BY DEF TypeOK, Typed, Rows, ApprovedMade
<1>1. /\ Cardinality(MadeIn({d})) + Cardinality(RejectingIn({d})) <= rejections + Cardinality(ApprovedIn({d}))
      /\ Cardinality(RejectingIn({d})) \in Nat
  BY FS_CardinalityType DEF Counted
<1>2. Made(d) = MadeIn({d})
  BY DEF Made, MadeIn
<1>3. /\ Cardinality(MadeIn({d})) \in Nat /\ Cardinality(ApprovedIn({d})) \in Nat /\ rejections \in Nat
  BY CountedSets DEF Typed, Rows
<1>4. Cardinality(ApprovedIn({d})) <= 1
  <2>1. ApprovedIn({d}) \subseteq {d} /\ IsFiniteSet({d}) /\ Cardinality({d}) = 1
    BY FS_Singleton DEF ApprovedIn
  <2>2. QED
    BY <2>1, FS_Subset
<1>5. QED
  BY <1>1, <1>2, <1>3, <1>4

\* A draft is published once for each approval: a claim that was lost publishes
\* nothing (the conditional UPDATE of approval.py), and only a rejection whose
\* status write overwrote an approval lets a draft be published again.
THEOREM PublicationTypes == Spec => []TypeOK
<1>1. Init => Counted /\ ApprovedMade
  BY InitCounted DEF Init, ApprovedMade
<1>2. Typed /\ [Next]_vars => Moves
  BY NextMoves
<1>3. Typed /\ Moves /\ Counted /\ ApprovedMade /\ [Next]_vars => Counted' /\ ApprovedMade'
  BY NextCounted, NextApprovedMade
<1>4. Typed /\ Counted /\ ApprovedMade => TypeOK
  BY CountedTypes
<1>5. QED
  BY <1>1, <1>2, <1>3, <1>4, AlwaysTyped, PTL DEF Spec

-----------------------------------------------------------------------------
(* Publication implements TemplateLibrary *)

\* The enabled versions of owner s for fingerprint f.
RowsOf(s, f) == {i \in DOMAIN version : Enabled(i) /\ version[i].owner = s /\ version[i].fp = f}

\* An owner has at most one enabled version for a fingerprint.
Single == \A s \in Scope, f \in Fingerprint : \A i, j \in RowsOf(s, f) : i = j

\* What is live: the only enabled version, or none.
Shown ==
    \A s \in Scope, f \in Fingerprint :
        /\ RowsOf(s, f) = {} => Live[s][f] = NoVersion
        /\ \A i \in RowsOf(s, f) : Live[s][f] = i

LEMMA LiveIs ==
    ASSUME Single
    PROVE  Shown
<1> SUFFICES ASSUME NEW s \in Scope, NEW f \in Fingerprint
             PROVE  /\ RowsOf(s, f) = {} => Live[s][f] = NoVersion
                    /\ \A i \in RowsOf(s, f) : Live[s][f] = i
  BY DEF Shown
<1>1. Live[s][f] = IF RowsOf(s, f) = {} THEN NoVersion ELSE CHOOSE i \in RowsOf(s, f) : TRUE
  BY DEF Live, RowsOf
<1>2. RowsOf(s, f) # {} => (CHOOSE i \in RowsOf(s, f) : TRUE) \in RowsOf(s, f)
  OBVIOUS
<1>3. QED
  BY <1>1, <1>2 DEF Single

\* Live does not change where the enabled versions do not.
LEMMA LiveSame ==
    ASSUME NEW s \in Scope, NEW f \in Fingerprint, RowsOf(s, f)' = RowsOf(s, f)
    PROVE  Live'[s][f] = Live[s][f]
<1>1. Live[s][f] = IF RowsOf(s, f) = {} THEN NoVersion ELSE CHOOSE i \in RowsOf(s, f) : TRUE
  BY DEF Live, RowsOf
<1>2. Live'[s][f] = IF RowsOf(s, f)' = {} THEN NoVersion ELSE CHOOSE i \in RowsOf(s, f)' : TRUE
  BY DEF Live, RowsOf
<1>3. QED
  BY <1>1, <1>2

\* Only an approval and a promotion change the versions.
LEMMA OnlyPublished ==
    ASSUME [Next]_vars
    PROVE  UNCHANGED version \/ \E r \in Request : Approve(r) \/ Promote(r)
<1>1. CASE UNCHANGED vars
  BY <1>1 DEF vars
<1>2. CASE Deploy
  BY <1>2 DEF Deploy
<1>3. CASE \E d \in Draft : Persist(d)
  BY <1>3 DEF Persist
<1>4. ASSUME NEW r \in Request,
             \/ CommitEdit(r) \/ WriteEvidence(r) \/ TeacherApproval(r) \/ Reject(r)
             \/ RefineFailed(r) \/ GiveUp(r)
      PROVE  UNCHANGED version
  BY <1>4 DEF CommitEdit, WriteEvidence, TeacherApproval, CheckApproval, Reject, RefineFailed, GiveUp
<1>5. ASSUME NEW r \in Request, NEW i \in DOMAIN version, BeginPromotion(r, i)
      PROVE  UNCHANGED version
  BY <1>5 DEF BeginPromotion
<1>6. ASSUME NEW r \in Request, NEW d \in Draft,
             \/ BeginRevalidation(r, d) \/ BeginRejection(r, d)
             \/ \E f \in Fixture : BeginEdit(r, d, f)
             \/ \E n \in Name : RecordAnswers(r, d, n) \/ AdminApproval(r, d, n)
      PROVE  UNCHANGED version
  BY <1>6 DEF BeginRevalidation, BeginRejection, BeginEdit, RecordAnswers, AdminApproval, CheckApproval
<1>7. QED
  BY <1>1, <1>2, <1>3, <1>4, <1>5, <1>6 DEF Next

\* An approval leaves its version as the only one of its scope and kind, and its caller
\* with none of a smaller scope.
LEMMA ApproveRowsOf ==
    ASSUME Typed, NEW r \in Request, Approve(r)
    PROVE  \E caller \in Scope, scope \in Scope, f \in Fingerprint, v \in Nat :
             /\ scope \in {caller, Shared}
             /\ v \notin DOMAIN version /\ DOMAIN version' = DOMAIN version \union {v}
             /\ RowsOf(scope, f)' = {v}
             /\ caller # scope => RowsOf(caller, f)' = {}
             /\ \A s \in Scope, g \in Fingerprint :
                   g # f \/ s \notin {caller, scope} => RowsOf(s, g)' = RowsOf(s, g)
<1> USE DEF Typed
<1> DEFINE q == req[r]
           rest == WithoutReplaced(draft[q.draft].fp, q.caller, q.scope)
<1>1. /\ q \in PublishReq /\ q.draft \in Draft
      /\ rest \in Seq(VersionRow) /\ DOMAIN rest = DOMAIN version
      /\ version' = Append(rest, New(q))
  BY ApproveWrites
<1>2. q.caller \in Scope /\ q.scope \in Scope /\ q.scope \in {q.caller, Shared}
  BY <1>1 DEF Promises, Promise, PublishReq
<1>3. draft[q.draft].fp \in Fingerprint /\ Len(version) + 1 \in Nat
  BY <1>1 DEF Rows, DraftRow
<1>4. PICK caller \in Scope, scope \in Scope, f \in Fingerprint, v \in Nat :
        caller = q.caller /\ scope = q.scope /\ f = draft[q.draft].fp /\ v = Len(version) + 1
  BY <1>2, <1>3
<1>5. New(q).fp = f /\ New(q).owner = scope /\ New(q).status = "enabled"
  BY <1>4 DEF New
<1>6. \A i \in DOMAIN version :
        /\ rest[i].fp = version[i].fp /\ rest[i].owner = version[i].owner
        /\ rest[i].status = IF i \in Replaced(f, caller, scope) THEN "disabled" ELSE version[i].status
  <2>1. ASSUME NEW i \in DOMAIN version
        PROVE  /\ rest[i].fp = version[i].fp /\ rest[i].owner = version[i].owner
               /\ rest[i].status = IF i \in Replaced(f, caller, scope) THEN "disabled" ELSE version[i].status
    <3>1. version[i] \in VersionRow
      BY DEF Rows
    <3>2. rest[i] = IF i \in Replaced(f, caller, scope) THEN [version[i] EXCEPT !.status = "disabled"]
                    ELSE version[i]
      BY <1>4 DEF WithoutReplaced
    <3>3. QED
      BY <3>1, <3>2 DEF VersionRow
  <2>2. QED
    BY <2>1
<1> HIDE DEF rest
<1>7. /\ v \notin DOMAIN version /\ DOMAIN version' = DOMAIN version \union {v}
      /\ \A i \in DOMAIN version : version'[i] = rest[i]
      /\ version'[v] = New(q)
  <2>1. Len(rest) = Len(version)
    BY <1>1 DEF Rows
  <2>2. QED
    BY <1>1, <1>4, <2>1 DEF Rows
<1> HIDE DEF q
<1>8. ASSUME NEW s \in Scope, NEW g \in Fingerprint, NEW i \in DOMAIN version
      PROVE  i \in RowsOf(s, g)' <=> i \in RowsOf(s, g) /\ ~ (g = f /\ s \in {caller, scope})
  BY <1>6, <1>7 DEF RowsOf, Enabled, Replaced
<1>9. ASSUME NEW s \in Scope, NEW g \in Fingerprint
      PROVE  v \in RowsOf(s, g)' <=> s = scope /\ g = f
  BY <1>5, <1>7 DEF RowsOf, Enabled
<1>10. ASSUME NEW s \in Scope, NEW g \in Fingerprint
       PROVE  RowsOf(s, g) \subseteq DOMAIN version /\ RowsOf(s, g)' \subseteq DOMAIN version \union {v}
  BY <1>7 DEF RowsOf
<1>11. RowsOf(scope, f)' = {v} /\ (caller # scope => RowsOf(caller, f)' = {})
  BY <1>8, <1>9, <1>10
<1>12. \A s \in Scope, g \in Fingerprint :
         g # f \/ s \notin {caller, scope} => RowsOf(s, g)' = RowsOf(s, g)
  <2>1. ASSUME NEW s \in Scope, NEW g \in Fingerprint, g # f \/ s \notin {caller, scope}
        PROVE  RowsOf(s, g)' = RowsOf(s, g)
    <3>1. \A i \in DOMAIN version : i \in RowsOf(s, g)' <=> i \in RowsOf(s, g)
      BY <1>8, <2>1
    <3>2. v \notin RowsOf(s, g)'
      BY <1>9, <2>1
    <3>3. QED
      BY <1>10, <3>1, <3>2
  <2>2. QED
    BY <2>1
<1>13. QED
  BY <1>2, <1>4, <1>7, <1>11, <1>12

\* A promotion moves one enabled version to everybody, where there is none for its
\* kind, or changes nothing that is live.
LEMMA PromoteRowsOf ==
    ASSUME Typed, NEW r \in Request, Promote(r)
    PROVE  /\ DOMAIN version' = DOMAIN version
           /\ \/ \A s \in Scope, g \in Fingerprint : RowsOf(s, g)' = RowsOf(s, g)
              \/ \E i \in DOMAIN version, o \in Scope, f \in Fingerprint :
                    /\ o # Shared /\ i \in RowsOf(o, f) /\ RowsOf(Shared, f) = {}
                    /\ RowsOf(Shared, f)' = {i} /\ RowsOf(o, f)' = RowsOf(o, f) \ {i}
                    /\ \A s \in Scope, g \in Fingerprint :
                          g # f \/ s \notin {o, Shared} => RowsOf(s, g)' = RowsOf(s, g)
<1> USE DEF Typed
<1>1. PICK i \in DOMAIN version : i = req[r].version
  BY PromoteWrites
<1> DEFINE shared == [version[i] EXCEPT !.owner = Shared]
           without == [version EXCEPT ![i].status = "disabled"]
<1>2. /\ Enabled(i) => IndexesAdmit(without, shared)
      /\ version' = [version EXCEPT ![i] = shared] /\ DOMAIN version' = DOMAIN version
  BY <1>1, PromoteWrites
<1>3. version[i] \in VersionRow
  BY DEF Rows
<1>4. PICK o \in Scope, f \in Fingerprint : o = version[i].owner /\ f = version[i].fp
  BY <1>3 DEF VersionRow
<1>5. shared.owner = Shared /\ shared.fp = f /\ shared.status = version[i].status
  BY <1>3, <1>4 DEF VersionRow
<1>6. Enabled(i) => \A j \in DOMAIN version \ {i} :
        ~ (Enabled(j) /\ version[j].owner = Shared /\ version[j].fp = f)
  <2>1. DOMAIN without = DOMAIN version /\ \A j \in DOMAIN version \ {i} : without[j] = version[j]
    OBVIOUS
  <2> HIDE DEF without, shared
  <2>2. ASSUME Enabled(i), NEW j \in DOMAIN version \ {i}
        PROVE  ~ (Enabled(j) /\ version[j].owner = Shared /\ version[j].fp = f)
    BY <1>2, <1>5, <2>1, <2>2 DEF IndexesAdmit, Enabled
  <2>3. QED
    BY <2>2
<1> HIDE DEF shared, without
<1>7. version'[i] = shared /\ \A j \in DOMAIN version \ {i} : version'[j] = version[j]
  BY <1>2
<1>8. ASSUME NEW s \in Scope, NEW g \in Fingerprint, NEW j \in DOMAIN version
      PROVE  j \in RowsOf(s, g)' <=>
               IF j = i THEN Enabled(i) /\ s = Shared /\ g = f ELSE j \in RowsOf(s, g)
  BY <1>2, <1>5, <1>7 DEF RowsOf, Enabled
<1>9. ASSUME NEW s \in Scope, NEW g \in Fingerprint
      PROVE  /\ RowsOf(s, g) \subseteq DOMAIN version /\ RowsOf(s, g)' \subseteq DOMAIN version
             /\ i \in RowsOf(s, g) <=> Enabled(i) /\ s = o /\ g = f
  BY <1>2, <1>4 DEF RowsOf
<1>10. CASE ~ Enabled(i) \/ o = Shared
  <2>1. ASSUME NEW s \in Scope, NEW g \in Fingerprint PROVE RowsOf(s, g)' = RowsOf(s, g)
    <3>1. \A j \in DOMAIN version : j \in RowsOf(s, g)' <=> j \in RowsOf(s, g)
      BY <1>8, <1>9, <1>10
    <3>2. RowsOf(s, g) \subseteq DOMAIN version /\ RowsOf(s, g)' \subseteq DOMAIN version
      BY <1>9
    <3>3. QED
      BY <3>1, <3>2
  <2>2. QED
    BY <1>2, <2>1
<1>11. CASE Enabled(i) /\ o # Shared
  <2>1. Shared \in Scope
    BY ConstantTypes
  <2>2. i \in RowsOf(o, f) /\ RowsOf(Shared, f) = {}
    <3>1. i \in RowsOf(o, f) /\ i \notin RowsOf(Shared, f)
      BY <1>9, <1>11, <2>1
    <3>2. \A j \in DOMAIN version \ {i} : j \notin RowsOf(Shared, f)
      BY <1>6, <1>11 DEF RowsOf
    <3>3. QED
      BY <1>9, <2>1, <3>1, <3>2
  <2>3. RowsOf(Shared, f)' = {i}
    BY <1>8, <1>9, <1>11, <2>1, <2>2
  <2>4. RowsOf(o, f)' = RowsOf(o, f) \ {i}
    BY <1>8, <1>9, <1>11, <2>1
  <2>5. \A s \in Scope, g \in Fingerprint : g # f \/ s \notin {o, Shared} => RowsOf(s, g)' = RowsOf(s, g)
    <3>1. ASSUME NEW s \in Scope, NEW g \in Fingerprint, g # f \/ s \notin {o, Shared}
          PROVE  RowsOf(s, g)' = RowsOf(s, g)
      BY <1>8, <1>9, <3>1
    <3>2. QED
      BY <3>1
  <2>6. QED
    BY <1>2, <1>11, <2>2, <2>3, <2>4, <2>5
<1>12. QED
  BY <1>10, <1>11

LEMMA NextSingle ==
    ASSUME Typed, Single, [Next]_vars
    PROVE  Single'
<1> SUFFICES ASSUME NEW s \in Scope, NEW g \in Fingerprint
             PROVE  \A i, j \in RowsOf(s, g)' : i = j
  BY DEF Single
<1>1. \A i, j \in RowsOf(s, g) : i = j
  BY DEF Single
<1>2. CASE UNCHANGED version
  BY <1>1, <1>2 DEF RowsOf, Enabled
<1>3. ASSUME NEW r \in Request, Approve(r) PROVE \A i, j \in RowsOf(s, g)' : i = j
  <2>1. PICK caller \in Scope, scope \in Scope, f \in Fingerprint, v \in Nat :
          /\ scope \in {caller, Shared}
          /\ v \notin DOMAIN version /\ DOMAIN version' = DOMAIN version \union {v}
          /\ RowsOf(scope, f)' = {v}
          /\ caller # scope => RowsOf(caller, f)' = {}
          /\ \A t \in Scope, h \in Fingerprint :
                h # f \/ t \notin {caller, scope} => RowsOf(t, h)' = RowsOf(t, h)
    BY <1>3, ApproveRowsOf
  <2>2. RowsOf(s, g)' \in {{v}, {}, RowsOf(s, g)}
    BY <2>1
  <2>3. QED
    BY <1>1, <2>2
<1>4. ASSUME NEW r \in Request, Promote(r) PROVE \A i, j \in RowsOf(s, g)' : i = j
  BY <1>1, <1>4, PromoteRowsOf
<1>5. QED
  BY <1>2, <1>3, <1>4, OnlyPublished

\* An owner has at most one enabled version for a kind of problem, although the unique
\* indexes only see one statement at a time.
THEOREM OneEnabledVersion == Spec => []Single
<1>1. Init => Single
  BY DEF Init, Single, RowsOf
<1>2. QED
  BY <1>1, NextSingle, AlwaysTyped, PTL DEF Spec

\* The versions never outnumber the identities of the library.
Bounded == DOMAIN version \subseteq 1 .. (Cardinality(Draft) + MaxChanges)

LEMMA VersionsBounded ==
    ASSUME Typed, Counted
    PROVE  Bounded
<1> USE DEF Typed
<1>1. DOMAIN version = 1 .. Len(version) /\ Len(version) \in Nat
  BY DEF Rows
<1>2. MadeIn(Draft) = DOMAIN version
  <2>1. \A i \in DOMAIN version : version[i] \in VersionRow
    BY DEF Rows
  <2>2. QED
    BY <2>1 DEF MadeIn, VersionRow
<1>3. Cardinality(DOMAIN version) = Len(version)
  <2>1. Cardinality(1 .. Len(version)) = IF 1 > Len(version) THEN 0 ELSE Len(version) - 1 + 1
    BY <1>1, FS_Interval
  <2>2. QED
    BY <1>1, <2>1
<1>4. /\ Cardinality(MadeIn(Draft)) + Cardinality(RejectingIn(Draft)) <= rejections + Cardinality(ApprovedIn(Draft))
      /\ Cardinality(RejectingIn(Draft)) \in Nat /\ Cardinality(ApprovedIn(Draft)) \in Nat
  BY CountedSets, FS_CardinalityType DEF Counted
<1>5. Cardinality(ApprovedIn(Draft)) <= Cardinality(Draft) /\ Cardinality(Draft) \in Nat
  <2>1. ApprovedIn(Draft) \subseteq Draft
    BY DEF ApprovedIn
  <2>2. QED
    BY <2>1, ConstantTypes, FS_Subset, FS_CardinalityType
<1>6. rejections <= MaxChanges /\ rejections \in Nat /\ MaxChanges \in Nat
  BY ConstantTypes DEF Rows
<1>7. Len(version) <= Cardinality(Draft) + MaxChanges
  BY <1>1, <1>2, <1>3, <1>4, <1>5, <1>6
<1>8. QED
  BY <1>1, <1>5, <1>6, <1>7 DEF Bounded

\* What is live is a version or none, for every owner and kind.
LiveMaps == [Scope -> [Fingerprint -> Nat \union {NoVersion}]]
LiveTyped == Live \in LiveMaps

LEMMA LiveType ==
    ASSUME Rows
    PROVE  LiveTyped
<1> DEFINE row(s, g) == {i \in DOMAIN version : Enabled(i) /\ version[i].owner = s /\ version[i].fp = g}
           one(s, g) == IF row(s, g) = {} THEN NoVersion ELSE CHOOSE i \in row(s, g) : TRUE
<1>1. ASSUME NEW s \in Scope, NEW g \in Fingerprint PROVE one(s, g) \in Nat \union {NoVersion}
  <2>1. row(s, g) \subseteq Nat
    BY DEF Rows
  <2> HIDE DEF row
  <2>2. QED
    BY <2>1
<1>2. Live = [s \in Scope |-> [g \in Fingerprint |-> one(s, g)]]
  BY DEF Live
<1> HIDE DEF one
<1>3. QED
  BY <1>1, <1>2 DEF LiveTyped, LiveMaps

\* M differs from L for one kind and two owners.
Changed(L, a, b, f, x, y) == [L EXCEPT ![a][f] = x, ![b][f] = y]

Differs(M, L, a, b, f, x, y) ==
    /\ M[b][f] = y
    /\ a # b => M[a][f] = x
    /\ \A s \in Scope, g \in Fingerprint : g # f \/ s \notin {a, b} => M[s][g] = L[s][g]

LEMMA TwoChanged ==
    ASSUME NEW L \in LiveMaps, NEW M \in LiveMaps,
           NEW a \in Scope, NEW b \in Scope, NEW f \in Fingerprint, NEW x, NEW y,
           Differs(M, L, a, b, f, x, y)
    PROVE  M = Changed(L, a, b, f, x, y)
<1> USE DEF LiveMaps, Differs
<1> DEFINE mid == [L EXCEPT ![a] = [L[a] EXCEPT ![f] = x]]
           new == [mid EXCEPT ![b] = [mid[b] EXCEPT ![f] = y]]
<1>1. \A s \in Scope : /\ DOMAIN mid[s] = Fingerprint /\ mid[s] = [g \in Fingerprint |-> mid[s][g]]
                       /\ \A g \in Fingerprint : mid[s][g] = IF s = a /\ g = f THEN x ELSE L[s][g]
  <2>1. ASSUME NEW s \in Scope
        PROVE  /\ DOMAIN mid[s] = Fingerprint /\ mid[s] = [g \in Fingerprint |-> mid[s][g]]
               /\ \A g \in Fingerprint : mid[s][g] = IF s = a /\ g = f THEN x ELSE L[s][g]
    <3>1. CASE s = a
      BY <3>1
    <3>2. CASE s # a
      BY <3>2
    <3>3. QED
      BY <3>1, <3>2
  <2>2. QED
    BY <2>1
<1>2. mid = [s \in Scope |-> mid[s]]
  OBVIOUS
<1> HIDE DEF mid
<1>3. new = [s \in Scope |-> new[s]]
  BY <1>2
<1>4. ASSUME NEW s \in Scope PROVE new[s] = M[s]
  <2>1. CASE s = b
    <3>1. new[s] = [mid[b] EXCEPT ![f] = y]
      BY <1>2, <2>1
    <3>2. ASSUME NEW g \in Fingerprint PROVE [mid[b] EXCEPT ![f] = y][g] = M[b][g]
      <4>1. CASE g = f
        BY <1>1, <4>1
      <4>2. CASE g # f
        <5>1. [mid[b] EXCEPT ![f] = y][g] = mid[b][g] /\ mid[b][g] = L[b][g]
          BY <1>1, <4>2
        <5>2. M[b][g] = L[b][g]
          BY <4>2
        <5>3. QED
          BY <5>1, <5>2
      <4>3. QED
        BY <4>1, <4>2
    <3>3. [mid[b] EXCEPT ![f] = y] = [g \in Fingerprint |-> [mid[b] EXCEPT ![f] = y][g]]
      BY <1>1
    <3>4. M[b] = [g \in Fingerprint |-> M[b][g]]
      OBVIOUS
    <3>5. QED
      BY <2>1, <3>1, <3>2, <3>3, <3>4
  <2>2. CASE s # b
    <3>1. new[s] = mid[s]
      BY <1>2, <2>2
    <3>2. ASSUME NEW g \in Fingerprint PROVE mid[s][g] = M[s][g]
      <4>1. CASE s = a /\ g = f
        BY <1>1, <2>2, <4>1
      <4>2. CASE ~ (s = a /\ g = f)
        <5>1. g # f \/ s \notin {a, b}
          BY <2>2, <4>2
        <5>2. M[s][g] = L[s][g]
          BY <5>1
        <5>3. QED
          BY <1>1, <4>2, <5>2
      <4>3. QED
        BY <4>1, <4>2
    <3>3. M[s] = [g \in Fingerprint |-> M[s][g]]
      OBVIOUS
    <3>4. QED
      BY <1>1, <3>1, <3>2, <3>3
  <2>3. QED
    BY <2>1, <2>2
<1>5. M = [s \in Scope |-> M[s]]
  OBVIOUS
<1>6. M = new
  <2> HIDE DEF new
  <2>1. QED
    BY <1>3, <1>4, <1>5
<1>7. QED
  BY <1>6 DEF mid, Changed

\* An approval publishes in the library.
LEMMA ApprovePublishes ==
    ASSUME Typed, LiveTyped, LiveTyped', Shown', Bounded', NEW r \in Request, Approve(r)
    PROVE  Library!Next
<1>1. PICK caller \in Scope, scope \in Scope, f \in Fingerprint, v \in Nat :
        /\ scope \in {caller, Shared}
        /\ v \notin DOMAIN version /\ DOMAIN version' = DOMAIN version \union {v}
        /\ RowsOf(scope, f)' = {v}
        /\ caller # scope => RowsOf(caller, f)' = {}
        /\ \A s \in Scope, g \in Fingerprint :
              g # f \/ s \notin {caller, scope} => RowsOf(s, g)' = RowsOf(s, g)
  BY ApproveRowsOf
<1>2. v \in 1 .. (Cardinality(Draft) + MaxChanges)
  BY <1>1 DEF Bounded
<1>3. Live'[scope][f] = v /\ (caller # scope => Live'[caller][f] = NoVersion)
  BY <1>1 DEF Shown
<1>4. \A s \in Scope, g \in Fingerprint : g # f \/ s \notin {caller, scope} => Live'[s][g] = Live[s][g]
  BY <1>1, LiveSame
<1>5. Live' = [Live EXCEPT ![caller][f] = NoVersion, ![scope][f] = v]
  <2>1. Differs(Live', Live, caller, scope, f, NoVersion, v)
    BY <1>3, <1>4 DEF Differs
  <2>2. Live' = Changed(Live, caller, scope, f, NoVersion, v)
    BY <2>1, TwoChanged DEF LiveTyped
  <2>3. QED
    BY <2>2 DEF Changed
<1>6. Library!Publish(caller, scope, f, v)
  BY <1>1, <1>5 DEF Library!Publish
<1>7. QED
  BY <1>1, <1>2, <1>6 DEF Library!Next

\* A promotion shares in the library, or changes nothing there.
LEMMA PromoteShares ==
    ASSUME Typed, LiveTyped, LiveTyped', Single, Shown, Shown', NEW r \in Request, Promote(r)
    PROVE  Library!Next \/ UNCHANGED <<Live, DOMAIN version>>
<1>1. CASE \A s \in Scope, g \in Fingerprint : RowsOf(s, g)' = RowsOf(s, g)
  <2>1. \A s \in Scope, g \in Fingerprint : Live'[s][g] = Live[s][g]
    BY <1>1, LiveSame
  <2>2. Live' = Live
    BY <2>1 DEF LiveTyped, LiveMaps
  <2>3. QED
    BY <2>2, PromoteRowsOf
<1>2. ASSUME NEW i \in DOMAIN version, NEW o \in Scope, NEW f \in Fingerprint,
             o # Shared, i \in RowsOf(o, f), RowsOf(Shared, f) = {},
             RowsOf(Shared, f)' = {i}, RowsOf(o, f)' = RowsOf(o, f) \ {i},
             \A s \in Scope, g \in Fingerprint :
                g # f \/ s \notin {o, Shared} => RowsOf(s, g)' = RowsOf(s, g),
             DOMAIN version' = DOMAIN version
      PROVE  Library!Next
  <2>1. Shared \in Scope /\ i \in Nat /\ NoVersion \notin Nat
    BY PublicationAssumption, ConstantTypes DEF Typed, Rows
  <2>2. Live[o][f] = i /\ Live[Shared][f] = NoVersion /\ i # NoVersion
    BY <1>2, <2>1 DEF Shown
  <2>3. RowsOf(o, f)' = {}
    BY <1>2 DEF Single
  <2>4. Live'[Shared][f] = i /\ Live'[o][f] = NoVersion
    BY <1>2, <2>1, <2>3 DEF Shown
  <2>5. \A s \in Scope, g \in Fingerprint : g # f \/ s \notin {Shared, o} => Live'[s][g] = Live[s][g]
    BY <1>2, LiveSame
  <2>6. Live' = [Live EXCEPT ![Shared][f] = i, ![o][f] = NoVersion]
    <3>1. Differs(Live', Live, Shared, o, f, i, NoVersion)
      BY <2>4, <2>5 DEF Differs
    <3>2. Live' = Changed(Live, Shared, o, f, i, NoVersion)
      BY <2>1, <3>1, TwoChanged DEF LiveTyped
    <3>3. QED
      BY <3>2 DEF Changed
  <2>7. Library!Share(o, f)
    BY <1>2, <2>2, <2>6 DEF Library!Share
  <2>8. QED
    BY <2>7 DEF Library!Next
<1>3. QED
  BY <1>1, <1>2, PromoteRowsOf

LEMMA InitLibrary == Init => Library!Init
BY DEF Init, Library!Init, Live, Scope

LEMMA NextLibrary ==
    ASSUME Typed, LiveTyped, LiveTyped', Single, Shown, Shown', Bounded', [Next]_vars
    PROVE  Library!Next \/ UNCHANGED <<Live, DOMAIN version>>
<1>1. CASE UNCHANGED version
  BY <1>1 DEF Live, Enabled
<1>2. QED
  BY <1>1, OnlyPublished, ApprovePublishes, PromoteShares

\* Publication implements the library: every owner has at most one live template for a
\* kind of problem, publishing and sharing replace it in one step, and a version that
\* was replaced never comes back, whatever requests do in between.
THEOREM PublicationImplementsLibrary == Spec => ImplementsLibrary
<1>1. Init => Library!Init /\ Counted /\ Single
  BY InitLibrary, InitCounted DEF Init, Single, RowsOf
<1>2. Typed => LiveTyped
  BY LiveType DEF Typed
<1>3. Single => Shown
  BY LiveIs
<1>4. Typed /\ Counted => Bounded
  BY VersionsBounded
<1>5. Typed /\ Counted /\ Single /\ [Next]_vars => Counted' /\ Single'
  BY NextMoves, NextCounted, NextSingle
<1>6. /\ Typed /\ LiveTyped /\ LiveTyped' /\ Single /\ Shown /\ Shown' /\ Bounded' /\ [Next]_vars
      => [Library!Next]_<<Live, DOMAIN version>>
  BY NextLibrary
<1>7. QED
  BY <1>1, <1>2, <1>3, <1>4, <1>5, <1>6, AlwaysTyped, PTL DEF Spec, ImplementsLibrary, Library!Spec

-----------------------------------------------------------------------------
(* What a session is offered *)

\* Enabled versions of one owner are of different kinds and have different names.
Distinct ==
    \A i, j \in DOMAIN version :
        /\ Enabled(i) /\ Enabled(j) /\ version[i].owner = version[j].owner
        /\ version[i].fp = version[j].fp \/ version[i].name = version[j].name
        => i = j

\* What the indexes compare in a row is in the row of before, if it is enabled.
LEMMA RestSame ==
    ASSUME Rows, NEW fp, NEW caller, NEW scope, NEW i \in DOMAIN version,
           WithoutReplaced(fp, caller, scope)[i].status = "enabled"
    PROVE  WithoutReplaced(fp, caller, scope)[i] = version[i]
<1>1. WithoutReplaced(fp, caller, scope)[i] =
        IF i \in Replaced(fp, caller, scope) THEN [version[i] EXCEPT !.status = "disabled"]
        ELSE version[i]
  BY DEF WithoutReplaced
<1>2. [version[i] EXCEPT !.status = "disabled"].status = "disabled"
  BY DEF Rows, VersionRow
<1>3. QED
  BY <1>1, <1>2

LEMMA ApproveDistinct ==
    ASSUME Typed, Distinct, NEW r \in Request, Approve(r)
    PROVE  Distinct'
<1>1. PICK rest, new :
        /\ rest \in Seq(VersionRow) /\ DOMAIN rest = DOMAIN version
        /\ \A i \in DOMAIN version : rest[i].status = "enabled" => rest[i] = version[i]
        /\ new \in VersionRow /\ IndexesAdmit(rest, new) /\ version' = Append(rest, new)
  <2>1. Rows
    BY DEF Typed
  <2>2. \A i \in DOMAIN version :
          LET rest == WithoutReplaced(draft[req[r].draft].fp, req[r].caller, req[r].scope)
          IN  rest[i].status = "enabled" => rest[i] = version[i]
    BY <2>1, RestSame
  <2>3. QED
    BY <2>1, <2>2, ApproveWrites
<1>2. /\ DOMAIN version' = 1 .. (Len(rest) + 1) /\ DOMAIN rest = 1 .. Len(rest) /\ Len(rest) \in Nat
      /\ \A i \in DOMAIN rest : version'[i] = rest[i]
      /\ version'[Len(rest) + 1] = new
  BY <1>1
<1>3. ASSUME NEW i \in DOMAIN version', NEW j \in DOMAIN version', i # j,
             Enabled(i)', Enabled(j)', version'[i].owner = version'[j].owner,
             version'[i].fp = version'[j].fp \/ version'[i].name = version'[j].name
      PROVE  FALSE
  <2>1. CASE i \in DOMAIN rest /\ j \in DOMAIN rest
    <3>1. rest[i].status = "enabled" /\ rest[j].status = "enabled"
      BY <1>2, <1>3, <2>1 DEF Enabled
    <3>2. version'[i] = version[i] /\ version'[j] = version[j]
      BY <1>1, <1>2, <2>1, <3>1
    <3>3. QED
      BY <1>1, <1>3, <2>1, <3>2 DEF Distinct, Enabled
  <2>2. CASE i \in DOMAIN rest /\ j \notin DOMAIN rest
    <3>1. j = Len(rest) + 1
      BY <1>2, <2>2
    <3>2. QED
      BY <1>1, <1>2, <1>3, <2>2, <3>1 DEF IndexesAdmit, Enabled
  <2>3. CASE i \notin DOMAIN rest /\ j \in DOMAIN rest
    <3>1. i = Len(rest) + 1
      BY <1>2, <2>3
    <3>2. QED
      BY <1>1, <1>2, <1>3, <2>3, <3>1 DEF IndexesAdmit, Enabled
  <2>4. CASE i \notin DOMAIN rest /\ j \notin DOMAIN rest
    <3>1. i = Len(rest) + 1 /\ j = Len(rest) + 1
      BY <1>2, <2>4
    <3>2. QED
      BY <1>3, <3>1
  <2>5. QED
    BY <2>1, <2>2, <2>3, <2>4
<1>4. QED
  BY <1>3 DEF Distinct

LEMMA PromoteDistinct ==
    ASSUME Typed, Distinct, NEW r \in Request, Promote(r)
    PROVE  Distinct'
<1> DEFINE k == req[r].version
           shared == [version[k] EXCEPT !.owner = Shared]
<1>1. /\ k \in DOMAIN version
      /\ Enabled(k) => IndexesAdmit([version EXCEPT ![k].status = "disabled"], shared)
      /\ version' = [version EXCEPT ![k] = shared] /\ DOMAIN version' = DOMAIN version
  BY PromoteWrites DEF Typed
<1>2. version[k] \in VersionRow
  BY <1>1 DEF Typed, Rows
<1>3. /\ shared.status = version[k].status /\ shared.fp = version[k].fp
      /\ shared.name = version[k].name
  BY <1>2 DEF VersionRow
<1>4. \A i \in DOMAIN version : i # k => [version EXCEPT ![k].status = "disabled"][i] = version[i]
  OBVIOUS
<1>5. /\ version'[k] = shared /\ \A i \in DOMAIN version : i # k => version'[i] = version[i]
  BY <1>1
<1>6. DOMAIN [version EXCEPT ![k].status = "disabled"] = DOMAIN version
  OBVIOUS
<1> HIDE DEF shared, k
<1>7. ASSUME NEW i \in DOMAIN version, i # k, Enabled(i), Enabled(k), version[i].owner = shared.owner
      PROVE  version[i].fp # shared.fp /\ version[i].name # shared.name
  BY <1>1, <1>4, <1>6, <1>7 DEF IndexesAdmit, Enabled
<1>8. ASSUME NEW i \in DOMAIN version', NEW j \in DOMAIN version', i # j,
             Enabled(i)', Enabled(j)', version'[i].owner = version'[j].owner,
             version'[i].fp = version'[j].fp \/ version'[i].name = version'[j].name
      PROVE  FALSE
  <2>1. CASE i # k /\ j # k
    BY <1>1, <1>5, <1>8, <2>1 DEF Distinct, Enabled
  <2>2. CASE i = k
    BY <1>1, <1>3, <1>5, <1>7, <1>8, <2>2 DEF Enabled
  <2>3. CASE j = k
    BY <1>1, <1>3, <1>5, <1>7, <1>8, <2>3 DEF Enabled
  <2>4. QED
    BY <2>1, <2>2, <2>3
<1>9. QED
  BY <1>8 DEF Distinct

LEMMA NextDistinct ==
    ASSUME Typed, Distinct, [Next]_vars
    PROVE  Distinct'
<1>1. CASE UNCHANGED version
  BY <1>1 DEF Distinct, Enabled
<1>2. QED
  BY <1>1, OnlyPublished, ApproveDistinct, PromoteDistinct

\* Own versions are distinct among themselves, shared ones too, and of those that
\* clash with an own version none is offered.
LEMMA DistinctOffers ==
    ASSUME Distinct
    PROVE  OneTemplateOffered
<1> SUFFICES ASSUME NEW s \in Session
             PROVE  /\ \A i \in DOMAIN version : Enabled(i) /\ version[i].owner = s => i \in Visible(s)
                    /\ \A i, j \in Visible(s) :
                          version[i].fp = version[j].fp \/ version[i].name = version[j].name => i = j
  BY DEF OneTemplateOffered
<1>1. \A i \in DOMAIN version : Enabled(i) /\ version[i].owner = s => i \in Visible(s)
  BY DEF Visible
<1>2. ASSUME NEW i \in Visible(s), NEW j \in Visible(s), version[i].owner # version[j].owner
      PROVE  version[i].fp # version[j].fp /\ version[i].name # version[j].name
  BY <1>2 DEF Visible
<1>3. \A i \in Visible(s) : i \in DOMAIN version /\ Enabled(i)
  BY DEF Visible
<1>4. QED
  BY <1>1, <1>2, <1>3 DEF Distinct

\* However approvals race for a name and whatever is promoted meanwhile, each session
\* is offered one template for each kind and under each name, its own first.
THEOREM OneTemplateEach == Spec => []OneTemplateOffered
<1>1. Init => Distinct
  BY DEF Init, Distinct
<1>2. QED
  BY <1>1, NextDistinct, DistinctOffers, AlwaysTyped, PTL DEF Spec

=============================================================================
