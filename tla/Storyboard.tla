----------------------------- MODULE Storyboard -----------------------------
(***************************************************************************)
(* The storyboard of one session under concurrent HTTP requests            *)
(* (routes.py, session.py).  FastAPI runs the synchronous handlers on a    *)
(* thread pool, so two requests of one teacher (two tabs, a client retry,  *)
(* a slow render and a click) interleave.  A handler is split at the       *)
(* places where it does not hold session_lock: it reads a scene, does slow *)
(* work (a model call, a thumbnail, a render) and then writes.  What a     *)
(* handler does under the lock is one action.                              *)
(*                                                                         *)
(* A request that the code refuses (400, 404, 409, 422) leaves the session *)
(* as it is: refusals are the guards of the actions, and Refuse ends a     *)
(* request whose second step is refused or whose slow work failed.         *)
(***************************************************************************)
EXTENDS Scenes, FiniteSets, Functions

CONSTANTS
    SceneId,        \* the uuids scenes get
    NoScene,        \* session.scenes has no entry
    NoTemplate,     \* session.scene_requested_template has no entry
    Request,        \* requests that may be in flight at once
    Builder,        \* those that may be a POST /storyboard
    Kinds,          \* the endpoints the clients use
    Offered,        \* session.options: the templates offered for candidates
    MaxPicks,       \* bound on the picks of one POST /storyboard
    MaxItems,       \* the largest combination: 4 in the code
    MaxBatch,       \* MAX_RENDER_BATCH
    MaxRevision,    \* bound on the writes to one scene
    MaxAssembly     \* bound on the retries of a session

ASSUME NoSceneAssumption == NoScene \notin Scene

ASSUME NoTemplateAssumption == NoTemplate \notin Template

ASSUME OfferedAssumption == Offered \subseteq Candidate \X Template

ASSUME BoundsAssumption ==
    /\ MaxPicks \in Nat
    /\ MaxItems \in Nat
    /\ MaxBatch \in Nat
    /\ MaxRevision \in Nat
    /\ MaxAssembly \in Nat

VARIABLES
    scenes,         \* session.scenes
    order,          \* session.scene_order
    requested,      \* session.scene_requested_template
    members,        \* session.scene_chain_members, <<>> for no entry
    rendering,      \* session.rendering_scene_ids
    clip,           \* session.scene_clip_id, as what that clip shows
    pc,             \* where each request is
    seen,           \* the Scene objects each request holds
    ids,            \* the scene ids it works on, in its own order
    left,           \* the scenes of its render batch still to be rendered
    picks,          \* the picks it has still to assemble
    fresh,          \* uuids not yet drawn
    assemblies      \* runs of the pipeline by retry, so far

session == <<scenes, order, requested, members, rendering, clip>>
local == <<pc, seen, ids, left, picks>>
vars == <<session, local, fresh, assemblies>>

-----------------------------------------------------------------------------

\* Positions in the code that hold no lock and have work still to do.
Phase == {"idle", "edit", "approve", "reject", "acknowledge", "retry",
          "chain", "batch", "drawing", "build", "append", "request",
          "clear_scenes", "clear_order", "clear_requested", "clear_members"}

SceneMap == [SceneId -> Scene \union {NoScene}]

TypeOK ==
    /\ scenes \in SceneMap
    /\ order \in Seq(SceneId)
    /\ requested \in [SceneId -> Template \union {NoTemplate}]
    /\ members \in [SceneId -> Seq(SceneId)]
    /\ rendering \in SUBSET SceneId
    /\ clip \in [SceneId -> Seq(Content)]
    /\ pc \in [Request -> Phase]
    /\ seen \in [Request -> SceneMap]
    /\ ids \in [Request -> Seq(SceneId)]
    /\ left \in [Request -> SUBSET SceneId]
    /\ picks \in [Request -> Seq(Candidate \X Template)]
    /\ fresh \in SUBSET SceneId
    /\ assemblies \in Nat

Nothing == [id \in SceneId |-> NoScene]

Init ==
    /\ scenes = Nothing
    /\ order = <<>>
    /\ requested = [id \in SceneId |-> NoTemplate]
    /\ members = [id \in SceneId |-> <<>>]
    /\ rendering = {}
    /\ clip = [id \in SceneId |-> <<>>]
    /\ pc = [r \in Request |-> "idle"]
    /\ seen = [r \in Request |-> Nothing]
    /\ ids = [r \in Request |-> <<>>]
    /\ left = [r \in Request |-> {}]
    /\ picks = [r \in Request |-> <<>>]
    /\ fresh = SceneId
    /\ assemblies = 0

-----------------------------------------------------------------------------
(* Helpers *)

OnBoard == Range(order)

\* _lookup_active_scene
Active(id) == scenes[id] # NoScene /\ id \in OnBoard

\* r moves to phase p holding the scenes of S, with ids q.
Hold(r, p, S, q) ==
    /\ pc' = [pc EXCEPT ![r] = p]
    /\ seen' = [seen EXCEPT ![r] = [id \in SceneId |->
                    IF id \in S THEN scenes[id] ELSE NoScene]]
    /\ ids' = [ids EXCEPT ![r] = q]
    /\ UNCHANGED <<left, picks>>

\* The response is sent: r holds nothing.
Finish(r) ==
    /\ pc' = [pc EXCEPT ![r] = "idle"]
    /\ seen' = [seen EXCEPT ![r] = Nothing]
    /\ ids' = [ids EXCEPT ![r] = <<>>]
    /\ left' = [left EXCEPT ![r] = {}]
    /\ picks' = [picks EXCEPT ![r] = <<>>]

\* Mutant: the element after the gap is lost.
SpliceTooWide(s, i, j, t) == SubSeq(s, 1, i) \o t \o SubSeq(s, j + 1, Len(s))

\* s with the elements between i and j (excluded) replaced by t.
Splice(s, i, j, t) == SubSeq(s, 1, i) \o t \o SubSeq(s, j, Len(s))

\* The request's scene, as the request read it.
Target(r) == ids[r][1]
Base(r) == seen[r][Target(r)]

-----------------------------------------------------------------------------
(* Requests that write one scene: read, work, compare and write *)

\* The bound on the revisions of a scene: no write is begun past it.
RevisionBound(id) == scenes[id].revision < MaxRevision

\* What every single-scene endpoint does first.
BeginWrite(r, kind, id) ==
    /\ pc[r] = "idle"
    /\ kind \in Kinds
    /\ Active(id)
    /\ RevisionBound(id)
    /\ Hold(r, kind, {id}, <<id>>)
    /\ UNCHANGED <<session, fresh, assemblies>>

\* PATCH /storyboard/{id}, up to the thumbnail render.
BeginEdit(r, id) == BeginWrite(r, "edit", id)

\* POST .../approve: the mismatch guard looks at the scene just read.
BeginApprove(r, id) ==
    /\ BeginWrite(r, "approve", id)
    /\ MismatchSettled(scenes[id])

\* POST .../reject
BeginReject(r, id) == BeginWrite(r, "reject", id)

\* POST .../acknowledge-mismatch
BeginAcknowledge(r, id) ==
    /\ BeginWrite(r, "acknowledge", id)
    /\ Mismatch(scenes[id])

\* Mutant: the revision is not compared.
UnracedOnBoard(r) == Active(Target(r))

\* The test of _write_scene_cas.
Unraced(r) ==
    /\ Active(Target(r))
    /\ scenes[Target(r)].revision = Base(r).revision

\* _write_scene_cas: updated replaces the current scene.
WriteCas(r, updated) ==
    /\ Unraced(r)
    /\ scenes' = [scenes EXCEPT ![Target(r)] = [updated EXCEPT
           !.mixed = @ \/ Base(r).assembly # updated.assembly]]
    /\ Finish(r)
    /\ UNCHANGED <<order, requested, members, rendering, clip, fresh, assemblies>>

\* Params an edit of s can carry: any of its template.  A combined scene may
\* be given more or fewer items than it has members.
EditsOf(s) ==
    {q \in UNION {[1..n -> Content] : n \in IF IsChained(s) THEN 2..MaxItems ELSE {1}} :
        \A i \in DOMAIN q : TemplateOf[q[i]] = SceneTemplate(s)}

(***************************************************************************)
(* The edit's write.  A change of the params or of the grade revokes the   *)
(* review decision and the acknowledgement and bumps the revision; a patch *)
(* that changes nothing does neither.  The updates come from the scene the *)
(* request read and land on the current one.                               *)
(***************************************************************************)
CommitEdit(r) ==
    /\ pc[r] = "edit"
    /\ \E items \in EditsOf(Base(r)), regraded \in BOOLEAN :
         LET changed == items # Base(r).items \/ regraded
             current == scenes[Target(r)]
         IN  WriteCas(r, [current EXCEPT
                 !.items = items,
                 !.status = IF changed /\ Base(r).status \in {"approved", "rejected"}
                            THEN "pending_review" ELSE @,
                 !.acknowledged = ~changed /\ @,
                 !.revision = Base(r).revision + IF changed THEN 1 ELSE 0])

CommitApprove(r) ==
    /\ pc[r] = "approve"
    /\ WriteCas(r, [scenes[Target(r)] EXCEPT
           !.status = "approved",
           !.approvedRevision = Base(r).revision + 1,
           !.revision = Base(r).revision + 1])

CommitReject(r) ==
    /\ pc[r] = "reject"
    /\ WriteCas(r, [scenes[Target(r)] EXCEPT
           !.status = "rejected",
           !.revision = Base(r).revision + 1])

CommitAcknowledge(r) ==
    /\ pc[r] = "acknowledge"
    /\ WriteCas(r, [scenes[Target(r)] EXCEPT
           !.acknowledged = TRUE,
           !.revision = Base(r).revision + 1])

\* Mutant: the template first asked for may be missing.
RetryableUnrequested(id) == Active(id) /\ ~IsChained(scenes[id])

\* What retry_scene requires of scene id.
Retryable(id) ==
    /\ Active(id)
    /\ ~IsChained(scenes[id])
    /\ requested[id] # NoTemplate

(***************************************************************************)
(* POST .../retry reads the scene, its candidate and the template first    *)
(* asked for, runs the assembly pipeline, and stores the result under the  *)
(* old id: without the lock and without comparing revisions.               *)
(***************************************************************************)
BeginRetry(r, id) ==
    /\ pc[r] = "idle"
    /\ "retry" \in Kinds
    /\ Retryable(id)
    /\ pc' = [pc EXCEPT ![r] = "retry"]
    /\ ids' = [ids EXCEPT ![r] = <<id>>]
    /\ picks' = [picks EXCEPT ![r] = << <<scenes[id].sources[1], requested[id]>> >>]
    /\ UNCHANGED <<session, seen, left, fresh, assemblies>>

CommitRetry(r) ==
    /\ pc[r] = "retry"
    /\ assemblies < MaxAssembly
    /\ assemblies' = assemblies + 1
    /\ \E s \in Assembled(picks[r][1][1], picks[r][1][2], assemblies + 1) :
         scenes' = [scenes EXCEPT ![Target(r)] = s]
    /\ Finish(r)
    /\ UNCHANGED <<order, requested, members, rendering, clip, fresh>>

-----------------------------------------------------------------------------
(* Combining scenes and taking a combination apart *)

\* The part of chain_scenes that decides whether scene s may be combined.
Combinable(s) ==
    /\ s.status = "pending_review"
    /\ ~IsChained(s)
    /\ MismatchSettled(s)

\* POST /storyboard/chain, up to the thumbnail render.
BeginChain(r, q) ==
    /\ pc[r] = "idle"
    /\ "chain" \in Kinds
    /\ IsInjective(q)
    /\ \A i \in DOMAIN q :
         /\ Active(q[i])
         /\ Combinable(scenes[q[i]])
         /\ SceneTemplate(scenes[q[i]]) = SceneTemplate(scenes[q[1]])
    /\ SceneTemplate(scenes[q[1]]) \in Chainable
    /\ Hold(r, "chain", Range(q), q)
    /\ UNCHANGED <<session, fresh, assemblies>>

\* Strictly increasing choices of n positions of a sequence of length m.
Positions(n, m) ==
    {f \in [1..n -> 1..m] : \A i, j \in 1..n : i < j => f[i] < f[j]}

\* Mutant: the members are only looked up again.
MembersOnBoard(r) == \A i \in DOMAIN ids[r] : Active(ids[r][i])

\* Every member is on the board and still the scene that was read.  (The code
\* compares object identity, so it also refuses a member that a patch without
\* effect rewrote with equal fields.)
MembersCurrent(r) ==
    \A i \in DOMAIN ids[r] : Active(ids[r][i]) /\ scenes[ids[r][i]] = seen[r][ids[r][i]]

(***************************************************************************)
(* The part of chain_scenes under the lock: the members leave the board,   *)
(* the new scene takes the place of the first of them and remembers them   *)
(* in screen order.                                                        *)
(***************************************************************************)
CommitChain(r) ==
    LET q == ids[r]
        read(i) == seen[r][q[i]]
    IN
    /\ pc[r] = "chain"
    /\ MembersCurrent(r)
    /\ \E new \in fresh, rest \in 0..Len(order) :
       \E first \in 1..rest + 1,
          at \in Positions(Len(q), Len(order)), keep \in Positions(rest, Len(order)) :
         /\ rest + Len(q) = Len(order)
         /\ first = at[1]
         /\ \A i \in 1..Len(order) : (i \in Range(at)) = (order[i] \in Range(q))
         /\ Range(keep) \intersect Range(at) = {}
         /\ order' = Splice([i \in 1..rest |-> order[keep[i]]], first - 1, first, <<new>>)
         /\ members' = [members EXCEPT ![new] = [i \in 1..Len(q) |-> order[at[i]]]]
         /\ scenes' = [scenes EXCEPT ![new] = NewScene(
                [i \in 1..Len(q) |-> read(i).sources[1]],
                [i \in 1..Len(q) |-> read(i).items[1]],
                NoAnswer, "pending_review", assemblies)]
         /\ fresh' = fresh \ {new}
    /\ Finish(r)
    /\ UNCHANGED <<requested, rendering, clip, assemblies>>

(***************************************************************************)
(* POST .../ungroup, all of it under the lock.  scene_order.index raises   *)
(* when the id is off the board, before anything is written; the deletion  *)
(* raises when scenes has no entry, after the board was rewritten.         *)
(***************************************************************************)
Ungroup(id) ==
    /\ "ungroup" \in Kinds
    /\ members[id] # <<>>
    /\ \E i \in DOMAIN order :
         /\ order[i] = id
         /\ order' = Splice(order, i - 1, i + 1, members[id])
    /\ scenes' = [scenes EXCEPT ![id] = NoScene]
    /\ members' = IF scenes[id] = NoScene THEN members
                  ELSE [members EXCEPT ![id] = <<>>]
    /\ UNCHANGED <<requested, rendering, clip, local, fresh, assemblies>>

\* A request whose slow work fails, or whose write is refused, just ends.
Refuse(r) ==
    /\ \/ pc[r] \in {"edit", "retry", "chain"}
       \/ pc[r] \in {"approve", "reject", "acknowledge"} /\ ~Unraced(r)
    /\ Finish(r)
    /\ UNCHANGED <<session, fresh, assemblies>>

-----------------------------------------------------------------------------
(* Rendering the approved scenes *)

\* The scenes a render request claimed.
Batch(r) == {id \in SceneId : seen[r][id] # NoScene}

\* Mutant: scenes in another request's hands are not looked for.
ValidUnlocked(ready) == ready # {} /\ Cardinality(ready) <= MaxBatch

\* _require_valid_render_batch
ValidRenderBatch(ready) ==
    /\ ready # {}
    /\ Cardinality(ready) <= MaxBatch
    /\ ready \intersect rendering = {}

(***************************************************************************)
(* _claim_render_batch: every render-ready scene of the board, unless one  *)
(* of them is in another request's hands.  The walk over scene_order       *)
(* raises, and claims nothing, when an id has no scene.                    *)
(***************************************************************************)
ClaimBatch(r) ==
    /\ pc[r] = "idle"
    /\ "render" \in Kinds
    /\ \A id \in OnBoard : scenes[id] # NoScene
    /\ LET ready == {id \in OnBoard : RenderReady(scenes[id])} IN
         /\ ValidRenderBatch(ready)
         /\ rendering' = rendering \union ready
         /\ left' = [left EXCEPT ![r] = ready]
         /\ seen' = [seen EXCEPT ![r] = [id \in SceneId |->
                         IF id \in ready THEN scenes[id] ELSE NoScene]]
    /\ pc' = [pc EXCEPT ![r] = "batch"]
    /\ UNCHANGED <<scenes, order, requested, members, clip, ids, picks, fresh, assemblies>>

\* Mutant: an approval of later content will do.
StillApproved(r, id) == scenes[id] # NoScene /\ RenderReady(scenes[id])

\* The test both publication and the cache make under the lock: the scene is
\* still approved at the revision that was claimed.
StillCurrent(r, id) ==
    /\ scenes[id] # NoScene
    /\ RenderReady(scenes[id])
    /\ scenes[id].revision = seen[r][id].revision

\* The render of scene id is over, one way or another.
NextInBatch(r, id) ==
    /\ pc' = [pc EXCEPT ![r] = "batch"]
    /\ ids' = [ids EXCEPT ![r] = <<>>]
    /\ left' = [left EXCEPT ![r] = @ \ {id}]
    /\ UNCHANGED <<seen, picks>>

\* Mutant: a scene keeps the first clip id it was given.
ShowsFirst(id, content) ==
    clip' = IF clip[id] = <<>> THEN [clip EXCEPT ![id] = content] ELSE clip

\* What a response for scene id shows.
Shows(id, content) == clip' = [clip EXCEPT ![id] = content]

\* _resolve_cached_clip finds a clip of these params: it hands out the clip
\* id, registering the file again if the id was evicted.
ServeCached(r, id) ==
    /\ pc[r] = "batch"
    /\ id \in left[r]
    /\ StillCurrent(r, id)
    /\ scenes[id].rendered = seen[r][id].items
    /\ \/ UNCHANGED clip
       \/ Shows(id, scenes[id].rendered)
    /\ NextInBatch(r, id)
    /\ UNCHANGED <<scenes, order, requested, members, rendering, fresh, assemblies>>

\* The cache misses (the file may have been evicted): the render starts.
StartRender(r, id) ==
    /\ pc[r] = "batch"
    /\ id \in left[r]
    /\ pc' = [pc EXCEPT ![r] = "drawing"]
    /\ ids' = [ids EXCEPT ![r] = <<id>>]
    /\ UNCHANGED <<session, seen, left, picks, fresh, assemblies>>

\* The batch deadline has passed, or the stored params no longer validate.
SkipScene(r, id) ==
    /\ pc[r] = "batch"
    /\ id \in left[r]
    /\ NextInBatch(r, id)
    /\ UNCHANGED <<session, fresh, assemblies>>

\* The render succeeded, the scene is still current and the file registers.
Publish(r) ==
    LET id == Target(r) IN
    /\ pc[r] = "drawing"
    /\ StillCurrent(r, id)
    /\ scenes' = [scenes EXCEPT ![id] = [@ EXCEPT !.rendered = seen[r][id].items]]
    /\ Shows(id, seen[r][id].items)
    /\ NextInBatch(r, id)
    /\ UNCHANGED <<order, requested, members, rendering, fresh, assemblies>>

\* The scene was superseded, the render failed or timed out, or eviction
\* won the race for the file: the output is deleted.
Discard(r) ==
    /\ pc[r] = "drawing"
    /\ NextInBatch(r, Target(r))
    /\ UNCHANGED <<session, fresh, assemblies>>

\* Mutant: only the scenes whose render is over are released.
ReleaseRendered(r) ==
    /\ pc[r] = "batch"
    /\ rendering' = rendering \ (Batch(r) \ left[r])
    /\ Finish(r)
    /\ UNCHANGED <<scenes, order, requested, members, clip, fresh, assemblies>>

\* The finally of /render: after the last scene, or early when an exception
\* escapes _render_scene (a template that no longer resolves).
ReleaseBatch(r) ==
    /\ pc[r] = "batch"
    /\ rendering' = rendering \ Batch(r)
    /\ Finish(r)
    /\ UNCHANGED <<scenes, order, requested, members, clip, fresh, assemblies>>

-----------------------------------------------------------------------------
(* Building a storyboard: no step of it holds session_lock *)

\* The picks of a request: distinct candidates, each with a template that
\* was offered for it.
PickLists ==
    {p \in UNION {[1..n -> Offered] : n \in 0..MaxPicks} :
        \A i, j \in DOMAIN p : p[i][1] = p[j][1] => i = j}

\* POST /storyboard, once every pick is validated.
BeginBuild(r) ==
    /\ pc[r] = "idle"
    /\ "build" \in Kinds
    /\ r \in Builder
    /\ \E p \in PickLists : picks' = [picks EXCEPT ![r] = p]
    /\ pc' = [pc EXCEPT ![r] = "clear_scenes"]
    /\ UNCHANGED <<session, seen, ids, left, fresh, assemblies>>

\* r goes from phase p to phase q.
Step(r, p, q) ==
    /\ pc[r] = p
    /\ pc' = [pc EXCEPT ![r] = q]
    /\ UNCHANGED <<seen, left, rendering, clip, assemblies>>

ClearScenes(r) ==
    /\ Step(r, "clear_scenes", "clear_order")
    /\ scenes' = Nothing
    /\ UNCHANGED <<order, requested, members, ids, picks, fresh>>

ClearOrder(r) ==
    /\ Step(r, "clear_order", "clear_requested")
    /\ order' = <<>>
    /\ UNCHANGED <<scenes, requested, members, ids, picks, fresh>>

ClearRequested(r) ==
    /\ Step(r, "clear_requested", "clear_members")
    /\ requested' = [id \in SceneId |-> NoTemplate]
    /\ UNCHANGED <<scenes, order, members, ids, picks, fresh>>

\* Mutant: the map of combined scenes is not cleared.
KeepMembers(r) ==
    /\ Step(r, "clear_members", "build")
    /\ UNCHANGED <<scenes, order, requested, members, ids, picks, fresh>>

ClearMembers(r) ==
    /\ Step(r, "clear_members", "build")
    /\ members' = [id \in SceneId |-> <<>>]
    /\ UNCHANGED <<scenes, order, requested, ids, picks, fresh>>

\* The next pick is assembled and its scene stored, ...
StoreScene(r) ==
    /\ picks[r] # <<>>
    /\ Step(r, "build", "append")
    /\ \E id \in fresh,
          s \in Assembled(picks[r][1][1], picks[r][1][2], assemblies) :
         /\ scenes' = [scenes EXCEPT ![id] = s]
         /\ ids' = [ids EXCEPT ![r] = <<id>>]
         /\ fresh' = fresh \ {id}
    /\ UNCHANGED <<order, requested, members, picks>>

\* ... put on the board, ...
AppendScene(r) ==
    /\ Step(r, "append", "request")
    /\ order' = Append(order, Target(r))
    /\ UNCHANGED <<scenes, requested, members, ids, picks, fresh>>

\* ... and its template remembered for retries.
RecordRequested(r) ==
    /\ Step(r, "request", "build")
    /\ requested' = [requested EXCEPT ![Target(r)] = picks[r][1][2]]
    /\ ids' = [ids EXCEPT ![r] = <<>>]
    /\ picks' = [picks EXCEPT ![r] = Tail(@)]
    /\ UNCHANGED <<scenes, order, members, fresh>>

\* The response, or a quota or kill-switch error that leaves the rest of the
\* picks unbuilt.
EndBuild(r) ==
    /\ pc[r] = "build"
    /\ Finish(r)
    /\ UNCHANGED <<session, fresh, assemblies>>

-----------------------------------------------------------------------------
(* The specification *)

\* A client sends a request.
Begin(r) ==
    \/ \E id \in SceneId :
         \/ BeginEdit(r, id)
         \/ BeginApprove(r, id)
         \/ BeginReject(r, id)
         \/ BeginAcknowledge(r, id)
         \/ BeginRetry(r, id)
    \/ \E n \in 2..MaxItems : \E q \in [1..n -> OnBoard] : BeginChain(r, q)
    \/ ClaimBatch(r)
    \/ BeginBuild(r)

\* The server goes on with one.
Proceed(r) ==
    \/ CommitEdit(r)
    \/ CommitApprove(r)
    \/ CommitReject(r)
    \/ CommitAcknowledge(r)
    \/ CommitRetry(r)
    \/ CommitChain(r)
    \/ Refuse(r)
    \/ \E id \in SceneId :
         \/ ServeCached(r, id)
         \/ StartRender(r, id)
         \/ SkipScene(r, id)
    \/ Publish(r)
    \/ Discard(r)
    \/ ReleaseBatch(r)
    \/ ClearScenes(r)
    \/ ClearOrder(r)
    \/ ClearRequested(r)
    \/ ClearMembers(r)
    \/ StoreScene(r)
    \/ AppendScene(r)
    \/ RecordRequested(r)
    \/ EndBuild(r)

Next ==
    \/ \E r \in Request : Begin(r) \/ Proceed(r)
    \/ \E id \in SceneId : Ungroup(id)

\* A handler that has begun goes on: its thread is scheduled and everything
\* it waits for (a model call, a render subprocess) is bounded by a timeout.
\* Nothing obliges a client to send a request.
Fairness == \A r \in Request : WF_vars(Proceed(r))

Spec == Init /\ [][Next]_vars /\ Fairness

-----------------------------------------------------------------------------
(* What the handlers promise *)

(***************************************************************************)
(* Approving compares revisions, so that a scene is never approved with a  *)
(* stated answer that contradicts the computed one and that nobody has     *)
(* acknowledged, however edits, acknowledgements and approvals interleave  *)
(* (approve_scene, _write_scene_cas, edit_scene): unless a request that    *)
(* began before a retry of the scene wrote to what the retry put there.    *)
(***************************************************************************)
ApprovalSound ==
    \A id \in SceneId :
        (scenes[id] # NoScene /\ scenes[id].status = "approved" /\ ~scenes[id].mixed)
            => MismatchSettled(scenes[id])

\* A scene is in the hands of the render requests that claimed it, of one at
\* most, and rendering_scene_ids is exactly what they have claimed: no scene
\* is rendered twice at once and none stays locked when its batch is over,
\* whatever retries, edits and rebuilds happen meanwhile.
NoDoubleRender ==
    /\ \A r1, r2 \in Request : r1 # r2 /\ pc[r1] \in {"batch", "drawing"}
                                     /\ pc[r2] \in {"batch", "drawing"}
                                   => Batch(r1) \intersect Batch(r2) = {}
    /\ rendering = {id \in SceneId : \E r \in Request :
                        pc[r] \in {"batch", "drawing"} /\ id \in Batch(r)}

(***************************************************************************)
(* A clip handed to the client for a scene, fresh or from the cache, shows *)
(* the content that is approved at that moment, with its mismatch settled, *)
(* although the scene may have been edited and approved again while the    *)
(* render ran (_render_scene, _resolve_cached_clip): again unless a retry  *)
(* replaced the scene meanwhile.                                           *)
(***************************************************************************)
ServedClipApproved ==
    [][\A r \in Request, id \in SceneId :
         (/\ ServeCached(r, id) \/ (Publish(r) /\ id = Target(r))
          /\ scenes[id].assembly = seen[r][id].assembly
          /\ ~scenes[id].mixed)
         => /\ clip'[id] = scenes[id].items
            /\ scenes'[id].status = "approved"
            /\ MismatchSettled(scenes'[id])]_vars

\* The clip id kept for a scene shows what its rendered_params_hash says, so
\* the cache never answers with a clip of other params: across edits that go
\* back to earlier params, re-renders, evictions and retries.
CacheHonest ==
    \A id \in SceneId :
        (scenes[id] # NoScene /\ scenes[id].rendered # <<>>)
            => clip[id] = scenes[id].rendered

\* Requests between the first and the last clear of a build.
Clearing(phases) == \E r \in Request : pc[r] \in phases

(***************************************************************************)
(* Every id of the board has a scene and every combined scene is on the    *)
(* board while its members are off it and still stored, so that a claim, a *)
(* lookup and an ungroup find what they index: except between the clears   *)
(* of a build, which hold no lock.                                         *)
(***************************************************************************)
BoardWhole ==
    /\ ~Clearing({"clear_order"}) => \A id \in OnBoard : scenes[id] # NoScene
    /\ ~Clearing({"clear_order", "clear_requested", "clear_members"}) =>
         \A id \in SceneId : members[id] # <<>> =>
             /\ id \in OnBoard
             /\ \A m \in Range(members[id]) : scenes[m] # NoScene /\ m \notin OnBoard

\* The problems the board shows, position by position.
Shown(i) == IF scenes[order[i]] = NoScene THEN {} ELSE Range(scenes[order[i]].sources)

(***************************************************************************)
(* Combining, ungrouping, editing, reviewing, retrying and rendering       *)
(* neither lose a problem from the board nor show one twice; only a build  *)
(* changes which problems are on it (chain_scenes, ungroup_scene).         *)
(***************************************************************************)
ProblemsKept ==
    [][~Clearing({"clear_scenes", "clear_order", "clear_requested",
                  "clear_members", "build", "append", "request"})
       => /\ UNION {Shown(i) : i \in DOMAIN order}'
               = UNION {Shown(i) : i \in DOMAIN order}
          /\ \A i, j \in DOMAIN order' : i # j => (Shown(i) \intersect Shown(j))' = {}]_vars

(***************************************************************************)
(* A combined scene is made of what its members are when it is committed:  *)
(* each is awaiting review with its mismatch settled, has the template of  *)
(* the others, and its params are an item of the combination, although the *)
(* members were read before a slow thumbnail render (chain_scenes).        *)
(***************************************************************************)
ChainOfCurrentScenes ==
    [][\A c \in SceneId : (members[c] = <<>> /\ members'[c] # <<>>) =>
         \A i \in DOMAIN members'[c] :
             LET m == scenes'[members'[c][i]] IN
             /\ m # NoScene
             /\ m.status = "pending_review" /\ MismatchSettled(m)
             /\ SceneTemplate(m) = SceneTemplate(scenes'[c])
             /\ \E k \in DOMAIN scenes'[c].items :
                  /\ scenes'[c].items[k] = m.items[1]
                  /\ scenes'[c].sources[k] = m.sources[1]]_vars

\* Every scene a render request claims is released again, whether its render
\* succeeds, fails, times out or raises (the finally of /render).
ClaimsReleased == \A id \in SceneId : id \in rendering ~> id \notin rendering
=============================================================================
