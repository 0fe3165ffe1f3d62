-------------------------- MODULE StoryboardProofs --------------------------
(***************************************************************************)
(* Theorems about Storyboard, for every set of scenes, requests, problems  *)
(* and templates: type correctness, that a scene is in the hands of one    *)
(* render request at most, that approvals are sound, and, for one build at *)
(* a time, what is on the board, what a combination is made of, and that   *)
(* only a build changes which problems the board shows.                    *)
(***************************************************************************)
EXTENDS Storyboard, FiniteSetTheorems, TLAPS

Writing == {"edit", "approve", "reject", "acknowledge"}

(***************************************************************************)
(* What a request holds at each of its phases.                             *)
(***************************************************************************)
Held ==
    \A r \in Request :
        /\ pc[r] \in Writing \union {"drawing", "retry", "chain", "append", "request"}
             => ids[r] # <<>>
        /\ pc[r] \in Writing \union {"drawing"} => Base(r) # NoScene
        /\ pc[r] \in {"retry", "append", "request"} => picks[r] # <<>>
        /\ pc[r] \notin {"batch", "drawing"} => left[r] = {}
        /\ left[r] \subseteq Batch(r)

Typed == TypeOK /\ Held

-----------------------------------------------------------------------------

\* A constructed scene is a scene: the constructor sets every field.
LEMMA NewSceneType ==
    ASSUME NEW sources \in Seq(Candidate) \ {<<>>},
           NEW items \in Seq(Content) \ {<<>>},
           NEW stated \in Answer \union {NoAnswer},
           NEW status \in Status,
           NEW n \in Nat
    PROVE  NewScene(sources, items, stated, status, n) \in Scene
BY DEF NewScene, Scene

\* assemble_scene returns a scene of its candidate, at revision 0, that is
\* not approved.
LEMMA AssembledType ==
    ASSUME NEW c \in Candidate, NEW t \in Template, NEW n \in Nat,
           NEW s \in Assembled(c, t, n)
    PROVE  /\ s \in Scene
           /\ s.assembly = n
           /\ s.status # "approved"
<1>1. PICK p \in Content, a \in Answer \union {NoAnswer},
           st \in {"pending_review", "fallback"} :
           s = NewScene(<<c>>, <<p>>, a, st, n)
  <2>1. \/ \E p \in {q \in Content : TemplateOf[q] = t},
              a \in {NoAnswer} \union (IF t \in AnswerStating THEN Answer ELSE {}) :
              s = NewScene(<<c>>, <<p>>, a, "pending_review", n)
        \/ \E p \in {q \in Content : TemplateOf[q] = TextCard /\ t # TextCard} :
              s = NewScene(<<c>>, <<p>>, NoAnswer, "fallback", n)
    BY DEF Assembled
  <2>2. QED
    BY <2>1
<1>2. /\ <<c>> \in Seq(Candidate) \ {<<>>}
      /\ <<p>> \in Seq(Content) \ {<<>>}
  OBVIOUS
<1>3. s \in Scene
  BY <1>1, <1>2, NewSceneType DEF Status
<1>4. QED
  BY <1>1, <1>3 DEF NewScene

\* Every element of the board is a scene id.
LEMMA BoardType ==
    ASSUME TypeOK
    PROVE  OnBoard \subseteq SceneId
BY DEF TypeOK, OnBoard, Range

\* Replacing a part of a sequence by another sequence gives a sequence.
LEMMA SpliceType ==
    ASSUME NEW S, NEW s \in Seq(S), NEW t \in Seq(S),
           NEW i \in 0..Len(s), NEW j \in 1..Len(s) + 1
    PROVE  Splice(s, i, j, t) \in Seq(S)
BY DEF Splice

-----------------------------------------------------------------------------
(* Types: what a request does to its own fields *)

LocalType ==
    /\ pc \in [Request -> Phase]
    /\ seen \in [Request -> SceneMap]
    /\ ids \in [Request -> Seq(SceneId)]
    /\ left \in [Request -> SUBSET SceneId]
    /\ picks \in [Request -> Seq(Candidate \X Template)]

SessionType ==
    /\ scenes \in SceneMap
    /\ order \in Seq(SceneId)
    /\ requested \in [SceneId -> Template \union {NoTemplate}]
    /\ members \in [SceneId -> Seq(SceneId)]
    /\ rendering \in SUBSET SceneId
    /\ clip \in [SceneId -> Seq(Content)]
    /\ fresh \in SUBSET SceneId
    /\ assemblies \in Nat

\* The types of the session and those of its requests, apart, ...
LEMMA TypeParts == TypeOK <=> LocalType /\ SessionType
BY DEF TypeOK, LocalType, SessionType

\* ... in the next state as well.
LEMMA TypePartsNext == TypeOK' <=> LocalType' /\ SessionType'
BY DEF TypeOK, LocalType, SessionType

\* The map without scenes is a scene map.
LEMMA NothingType == Nothing \in SceneMap
BY DEF Nothing, SceneMap

\* A request that ends holds nothing, and the others hold what they held.
LEMMA FinishHeld ==
    ASSUME LocalType, Held, NEW r \in Request, Finish(r)
    PROVE  LocalType' /\ Held'
<1>1. LocalType'
  BY NothingType DEF LocalType, Finish, Phase
<1>2. ASSUME NEW q \in Request, q # r
      PROVE  /\ pc'[q] = pc[q] /\ seen'[q] = seen[q] /\ ids'[q] = ids[q]
             /\ picks'[q] = picks[q] /\ left'[q] = left[q]
  BY <1>2 DEF LocalType, Finish
<1>3. pc'[r] = "idle" /\ left'[r] = {}
  BY DEF LocalType, Finish
<1>4. Held'
  BY <1>2, <1>3 DEF Held, Base, Target, Writing, Batch
<1>5. QED
  BY <1>1, <1>4

\* A request that starts holds scenes that exist.
LEMMA HoldHeld ==
    ASSUME TypeOK, Held, NEW r \in Request, pc[r] = "idle",
           NEW p \in Writing \union {"chain"},
           NEW S \in SUBSET SceneId, NEW q \in Seq(SceneId), q # <<>>,
           q[1] \in S, scenes[q[1]] # NoScene,
           Hold(r, p, S, q)
    PROVE  LocalType' /\ Held'
<1>1. LocalType'
  BY DEF TypeOK, LocalType, Hold, SceneMap, Phase, Writing
<1>2. ASSUME NEW x \in Request, x # r
      PROVE  /\ pc'[x] = pc[x] /\ seen'[x] = seen[x] /\ ids'[x] = ids[x]
             /\ picks'[x] = picks[x] /\ left'[x] = left[x]
  BY <1>2 DEF TypeOK, Hold
<1>3. pc'[r] = p /\ ids'[r] = q /\ left'[r] = {}
  BY DEF TypeOK, Held, Hold
<1>5. seen'[r][q[1]] = scenes[q[1]]
  BY DEF TypeOK, Hold
<1>6. Held'
  BY <1>2, <1>3, <1>5 DEF Held, Base, Target, Writing, Batch
<1>7. QED
  BY <1>1, <1>6

-----------------------------------------------------------------------------
(* Types: one lemma per group of actions *)

\* A request that reads a scene to write it later.
LEMMA BeginWriteTyped ==
    ASSUME Typed, NEW r \in Request, NEW p \in Writing, NEW id \in SceneId,
           BeginWrite(r, p, id)
    PROVE  Typed'
<1>1. LocalType' /\ Held'
  <2>1. /\ <<id>> \in Seq(SceneId) /\ <<id>> # <<>> /\ <<id>>[1] \in {id}
        /\ scenes[<<id>>[1]] # NoScene
    BY DEF BeginWrite, Active
  <2>2. QED
    BY <2>1, HoldHeld DEF Typed, BeginWrite
<1>2. SessionType'
  BY DEF Typed, BeginWrite, session, TypeOK, SessionType
<1>3. QED
  BY <1>1, <1>2, TypePartsNext DEF Typed

\* A compare-and-swap write of a scene.
LEMMA WriteCasTyped ==
    ASSUME Typed, NEW r \in Request, NEW updated \in Scene, WriteCas(r, updated)
    PROVE  Typed'
<1>1. LocalType' /\ Held'
  BY FinishHeld, TypeParts DEF Typed, WriteCas
<1>2. [updated EXCEPT !.mixed = @ \/ Base(r).assembly # updated.assembly] \in Scene
  BY DEF Scene
<1>3. SessionType'
  BY <1>2 DEF Typed, WriteCas, TypeOK, SessionType, SceneMap
<1>4. QED
  BY <1>1, <1>3, TypePartsNext DEF Typed

\* The scene a request compares with is a scene, and so is the one it read.
LEMMA UnracedType ==
    ASSUME Typed, NEW r \in Request, Unraced(r), pc[r] \in Writing
    PROVE  /\ Target(r) \in SceneId
           /\ scenes[Target(r)] \in Scene
           /\ Base(r) \in Scene
<1>1. Target(r) \in SceneId
  BY BoardType DEF Typed, Unraced, Active
<1>2. scenes[Target(r)] \in Scene
  BY <1>1 DEF Typed, TypeOK, Unraced, Active, SceneMap
<1>3. Base(r) \in Scene
  BY <1>1 DEF Typed, TypeOK, Held, SceneMap, Base
<1>4. QED
  BY <1>1, <1>2, <1>3

\* PATCH stores a scene: its params have as many items as before.
LEMMA CommitEditTyped ==
    ASSUME Typed, NEW r \in Request, CommitEdit(r)
    PROVE  Typed'
<1>1. PICK items \in EditsOf(Base(r)), regraded \in BOOLEAN :
        LET changed == items # Base(r).items \/ regraded
            current == scenes[Target(r)]
        IN  WriteCas(r, [current EXCEPT
                !.items = items,
                !.status = IF changed /\ Base(r).status \in {"approved", "rejected"}
                           THEN "pending_review" ELSE @,
                !.acknowledged = ~changed /\ @,
                !.revision = Base(r).revision + IF changed THEN 1 ELSE 0])
  BY DEF CommitEdit
<1>2. /\ scenes[Target(r)] \in Scene
      /\ Base(r) \in Scene
  BY <1>1, UnracedType DEF CommitEdit, WriteCas, Writing
<1>3. items \in Seq(Content) \ {<<>>}
  <2>1. PICK n \in Nat \ {0} : items \in [1..n -> Content]
    BY BoundsAssumption DEF EditsOf
  <2>2. QED
    BY <2>1
<1> DEFINE changed == items # Base(r).items \/ regraded
           updated == [scenes[Target(r)] EXCEPT
               !.items = items,
               !.status = IF changed /\ Base(r).status \in {"approved", "rejected"}
                          THEN "pending_review" ELSE @,
               !.acknowledged = ~changed /\ @,
               !.revision = Base(r).revision + IF changed THEN 1 ELSE 0]
<1>4. updated \in Scene
  <2>1. Base(r).revision + (IF changed THEN 1 ELSE 0) \in Nat
    BY <1>2 DEF Scene
  <2>2. (IF changed /\ Base(r).status \in {"approved", "rejected"}
         THEN "pending_review" ELSE scenes[Target(r)].status) \in Status
    BY <1>2 DEF Scene, Status
  <2>3. (~changed /\ scenes[Target(r)].acknowledged) \in BOOLEAN
    OBVIOUS
  <2>4. QED
    BY <1>2, <1>3, <2>1, <2>2, <2>3 DEF Scene
<1>5. WriteCas(r, updated)
  BY <1>1
<1> HIDE DEF updated
<1>6. QED
  BY <1>4, <1>5, WriteCasTyped

\* Approval stores a scene.
LEMMA CommitApproveTyped ==
    ASSUME Typed, NEW r \in Request, CommitApprove(r)
    PROVE  Typed'
<1>1. /\ scenes[Target(r)] \in Scene
      /\ Base(r) \in Scene
  BY UnracedType DEF CommitApprove, WriteCas, Writing
<1> DEFINE updated == [scenes[Target(r)] EXCEPT
               !.status = "approved",
               !.approvedRevision = Base(r).revision + 1,
               !.revision = Base(r).revision + 1]
<1>2. updated \in Scene
  <2>1. Base(r).revision + 1 \in Nat
    BY <1>1 DEF Scene
  <2>2. QED
    BY <1>1, <2>1 DEF Scene, Status
<1>3. WriteCas(r, updated)
  BY DEF CommitApprove
<1> HIDE DEF updated
<1>4. QED
  BY <1>2, <1>3, WriteCasTyped

\* Rejection stores a scene.
LEMMA CommitRejectTyped ==
    ASSUME Typed, NEW r \in Request, CommitReject(r)
    PROVE  Typed'
<1>1. scenes[Target(r)] \in Scene /\ Base(r) \in Scene
  BY UnracedType DEF CommitReject, WriteCas, Writing
<1> DEFINE updated == [scenes[Target(r)] EXCEPT
               !.status = "rejected",
               !.revision = Base(r).revision + 1]
<1>2. updated \in Scene
  <2>1. Base(r).revision + 1 \in Nat
    BY <1>1 DEF Scene
  <2>2. QED
    BY <1>1, <2>1 DEF Scene, Status
<1>3. WriteCas(r, updated)
  BY DEF CommitReject
<1> HIDE DEF updated
<1>4. QED
  BY <1>2, <1>3, WriteCasTyped

\* Acknowledgement stores a scene.
LEMMA CommitAcknowledgeTyped ==
    ASSUME Typed, NEW r \in Request, CommitAcknowledge(r)
    PROVE  Typed'
<1>1. scenes[Target(r)] \in Scene /\ Base(r) \in Scene
  BY UnracedType DEF CommitAcknowledge, WriteCas, Writing
<1> DEFINE updated == [scenes[Target(r)] EXCEPT
               !.acknowledged = TRUE,
               !.revision = Base(r).revision + 1]
<1>2. updated \in Scene
  <2>1. Base(r).revision + 1 \in Nat
    BY <1>1 DEF Scene
  <2>2. QED
    BY <1>1, <2>1 DEF Scene, Status
<1>3. WriteCas(r, updated)
  BY DEF CommitAcknowledge
<1> HIDE DEF updated
<1>4. QED
  BY <1>2, <1>3, WriteCasTyped

\* A retry remembers a candidate and a template.
LEMMA BeginRetryTyped ==
    ASSUME Typed, NEW r \in Request, NEW id \in SceneId, BeginRetry(r, id)
    PROVE  Typed'
<1>1. scenes[id] \in Scene
  BY DEF Typed, TypeOK, SceneMap, BeginRetry, Active, Retryable
<1>2. <<scenes[id].sources[1], requested[id]>> \in Candidate \X Template
  BY <1>1 DEF Typed, TypeOK, BeginRetry, Scene, Retryable
<1>3. TypeOK'
  BY <1>2 DEF Typed, TypeOK, BeginRetry, session, Phase
<1>4. Held'
  BY DEF Typed, TypeOK, BeginRetry, Held, Base, Target, Writing, Batch
<1>5. QED
  BY <1>3, <1>4 DEF Typed

\* A retry stores what the pipeline returns, a scene.
LEMMA CommitRetryTyped ==
    ASSUME Typed, NEW r \in Request, CommitRetry(r)
    PROVE  Typed'
<1>1. picks[r][1][1] \in Candidate /\ picks[r][1][2] \in Template
  BY DEF Typed, TypeOK, Held, CommitRetry
<1>2. assemblies + 1 \in Nat /\ Target(r) \in SceneId
  BY DEF Typed, TypeOK, Held, CommitRetry, Target
<1>3. LocalType' /\ Held'
  BY FinishHeld, TypeParts DEF Typed, CommitRetry
<1>4. SessionType'
  BY <1>1, <1>2, AssembledType DEF Typed, TypeOK, SessionType, CommitRetry, SceneMap
<1>5. QED
  BY <1>3, <1>4, TypePartsNext DEF Typed

\* A request to combine holds the scenes it names.
LEMMA BeginChainTyped ==
    ASSUME Typed, NEW r \in Request, NEW n \in 2..MaxItems, NEW q \in [1..n -> OnBoard],
           BeginChain(r, q)
    PROVE  Typed'
<1>1. q \in Seq(SceneId) /\ q # <<>> /\ 1 \in DOMAIN q
  BY BoardType DEF Typed
<1>2. Range(q) \in SUBSET SceneId /\ q[1] \in Range(q)
  BY <1>1 DEF Range
<1>3. scenes[q[1]] # NoScene
  BY <1>1 DEF BeginChain, Active
<1>4. LocalType' /\ Held'
  BY <1>1, <1>2, <1>3, HoldHeld DEF Typed, BeginChain
<1>5. SessionType'
  BY DEF Typed, BeginChain, session, TypeOK, SessionType
<1>6. QED
  BY <1>4, <1>5, TypePartsNext DEF Typed

\* Combining rewrites the board into a board and stores a scene.
LEMMA CommitChainTyped ==
    ASSUME Typed, NEW r \in Request, CommitChain(r)
    PROVE  Typed'
<1> DEFINE q == ids[r]
           read(i) == seen[r][q[i]]
<1>1. LocalType' /\ Held'
  BY FinishHeld, TypeParts DEF Typed, CommitChain
<1>2. PICK new \in fresh, rest \in 0..Len(order) :
        \E first \in 1..rest + 1,
           at \in Positions(Len(q), Len(order)), keep \in Positions(rest, Len(order)) :
         /\ order' = Splice([i \in 1..rest |-> order[keep[i]]], first - 1, first, <<new>>)
         /\ members' = [members EXCEPT ![new] = [i \in 1..Len(q) |-> order[at[i]]]]
         /\ scenes' = [scenes EXCEPT ![new] = NewScene(
                [i \in 1..Len(q) |-> read(i).sources[1]],
                [i \in 1..Len(q) |-> read(i).items[1]],
                NoAnswer, "pending_review", assemblies)]
         /\ fresh' = fresh \ {new}
  BY DEF CommitChain
<1>3. PICK first \in 1..rest + 1,
           at \in Positions(Len(q), Len(order)), keep \in Positions(rest, Len(order)) :
         /\ order' = Splice([i \in 1..rest |-> order[keep[i]]], first - 1, first, <<new>>)
         /\ members' = [members EXCEPT ![new] = [i \in 1..Len(q) |-> order[at[i]]]]
         /\ scenes' = [scenes EXCEPT ![new] = NewScene(
                [i \in 1..Len(q) |-> read(i).sources[1]],
                [i \in 1..Len(q) |-> read(i).items[1]],
                NoAnswer, "pending_review", assemblies)]
         /\ fresh' = fresh \ {new}
  BY <1>2
<1>4. new \in SceneId /\ order \in Seq(SceneId) /\ rest \in Nat
  BY DEF Typed, TypeOK
<1>5. q \in Seq(SceneId) /\ Len(q) \in Nat \ {0} /\ DOMAIN q = 1..Len(q)
  BY DEF Typed, TypeOK, Held, CommitChain
<1>6. order' \in Seq(SceneId)
  <2> DEFINE others == [i \in 1..rest |-> order[keep[i]]]
  <2>1. keep \in [1..rest -> 1..Len(order)]
    BY DEF Positions
  <2>2. others \in Seq(SceneId) /\ Len(others) = rest
    BY <1>4, <2>1
  <2>3. <<new>> \in Seq(SceneId)
    BY <1>4
  <2>4. first - 1 \in 0..rest /\ first \in 1..rest + 1
    BY <1>4
  <2> HIDE DEF others
  <2>5. Splice(others, first - 1, first, <<new>>) \in Seq(SceneId)
    BY <2>2, <2>3, <2>4, SpliceType
  <2>6. QED
    BY <1>3, <2>5 DEF others
<1>7. members' \in [SceneId -> Seq(SceneId)]
  <2>1. at \in [1..Len(q) -> 1..Len(order)]
    BY DEF Positions
  <2>2. [i \in 1..Len(q) |-> order[at[i]]] \in Seq(SceneId)
    BY <1>4, <1>5, <2>1
  <2>3. QED
    BY <1>3, <2>2 DEF Typed, TypeOK
<1>8. scenes' \in SceneMap
  <2>1. ASSUME NEW i \in 1..Len(q)
        PROVE  read(i) \in Scene
    <3>1. scenes[q[i]] = read(i) /\ scenes[q[i]] # NoScene
      BY <1>5 DEF CommitChain, Active, MembersCurrent
    <3>2. q[i] \in SceneId
      BY <1>5
    <3>3. QED
      BY <3>1, <3>2 DEF Typed, TypeOK, SceneMap
  <2>2. ASSUME NEW i \in 1..Len(q)
        PROVE  read(i).sources[1] \in Candidate /\ read(i).items[1] \in Content
    <3> HIDE DEF read
    <3>1. read(i) \in Scene
      BY <2>1
    <3>2. QED
      BY <3>1 DEF Scene
  <2> DEFINE sources == [i \in 1..Len(q) |-> read(i).sources[1]]
             items == [i \in 1..Len(q) |-> read(i).items[1]]
  <2>3. /\ sources \in Seq(Candidate) \ {<<>>}
        /\ items \in Seq(Content) \ {<<>>}
    BY <1>5, <2>2
  <2>4. assemblies \in Nat /\ NoAnswer \in Answer \union {NoAnswer}
        /\ "pending_review" \in Status
    BY DEF Typed, TypeOK, Status
  <2>5. NewScene(sources, items, NoAnswer, "pending_review", assemblies) \in Scene
    BY <2>3, <2>4, NewSceneType
  <2>6. QED
    BY <1>3, <2>5 DEF Typed, TypeOK, SceneMap
<1>9. SessionType'
  BY <1>3, <1>6, <1>7, <1>8 DEF Typed, TypeOK, SessionType, CommitChain
<1>10. QED
  BY <1>1, <1>9, TypePartsNext DEF Typed

\* Ungrouping splices the members into the board.
LEMMA UngroupTyped ==
    ASSUME Typed, NEW id \in SceneId, Ungroup(id)
    PROVE  Typed'
<1>1. LocalType' /\ Held'
  BY TypeParts DEF Typed, Ungroup, local, LocalType, Held, Base, Target, Batch
<1>2. PICK i \in DOMAIN order : order' = Splice(order, i - 1, i + 1, members[id])
  BY DEF Ungroup
<1>3. order' \in Seq(SceneId)
  <2>1. /\ order \in Seq(SceneId) /\ members[id] \in Seq(SceneId)
        /\ i - 1 \in 0..Len(order) /\ i + 1 \in 1..Len(order) + 1
    BY DEF Typed, TypeOK
  <2>2. QED
    BY <1>2, <2>1, SpliceType
<1>4. SessionType'
  BY <1>3 DEF Typed, TypeOK, SessionType, Ungroup, SceneMap
<1>5. QED
  BY <1>1, <1>4, TypePartsNext DEF Typed

\* A refused request changes nothing but itself.
LEMMA RefuseTyped ==
    ASSUME Typed, NEW r \in Request, Refuse(r)
    PROVE  Typed'
<1>1. LocalType' /\ Held'
  BY FinishHeld, TypeParts DEF Typed, Refuse
<1>2. SessionType'
  BY DEF Typed, TypeOK, SessionType, Refuse, session
<1>3. QED
  BY <1>1, <1>2, TypePartsNext DEF Typed

\* Rendering requests: what they do to the fields of the request.
LEMMA NextInBatchHeld ==
    ASSUME LocalType, Held, NEW r \in Request, NEW id \in SceneId, NextInBatch(r, id),
           pc[r] \in {"batch", "drawing"}
    PROVE  LocalType' /\ Held'
<1>1. LocalType'
  BY DEF LocalType, NextInBatch, Phase
<1>2. ASSUME NEW q \in Request, q # r
      PROVE  pc'[q] = pc[q] /\ ids'[q] = ids[q] /\ left'[q] = left[q]
  BY <1>2 DEF LocalType, NextInBatch
<1>3. pc'[r] = "batch" /\ seen' = seen /\ picks' = picks /\ left'[r] \subseteq left[r]
  BY DEF LocalType, NextInBatch
<1>4. Held'
  BY <1>2, <1>3 DEF Held, Base, Target, Writing, Batch
<1>5. QED
  BY <1>1, <1>4

\* A claim holds the scenes it claims.
LEMMA ClaimBatchTyped ==
    ASSUME Typed, NEW r \in Request, ClaimBatch(r)
    PROVE  Typed'
<1>1. OnBoard \subseteq SceneId
  BY BoardType DEF Typed
<1>2. TypeOK'
  BY <1>1 DEF Typed, TypeOK, ClaimBatch, Phase, SceneMap
<1>3. ASSUME NEW q \in Request, q # r
      PROVE  pc'[q] = pc[q] /\ seen'[q] = seen[q] /\ left'[q] = left[q]
  BY <1>3 DEF Typed, TypeOK, ClaimBatch
<1>4. /\ pc'[r] = "batch" /\ ids' = ids /\ picks' = picks
      /\ \A id \in left'[r] : id \in SceneId /\ seen'[r][id] # NoScene
  BY <1>1 DEF Typed, TypeOK, ClaimBatch
<1>5. Held'
  BY <1>3, <1>4 DEF Typed, Held, Base, Target, Writing, Batch
<1>6. QED
  BY <1>2, <1>5 DEF Typed

\* The cache hands out a clip of the scene it looked up.
LEMMA ServeCachedTyped ==
    ASSUME Typed, NEW r \in Request, NEW id \in SceneId, ServeCached(r, id)
    PROVE  Typed'
<1>1. LocalType' /\ Held'
  BY NextInBatchHeld, TypeParts DEF Typed, ServeCached
<1>2. scenes[id].rendered \in Seq(Content)
  BY DEF Typed, TypeOK, ServeCached, StillCurrent, SceneMap, Scene
<1>3. SessionType'
  BY <1>2 DEF Typed, TypeOK, SessionType, ServeCached, Shows
<1>4. QED
  BY <1>1, <1>3, TypePartsNext DEF Typed

\* A skipped scene leaves the batch.
LEMMA SkipSceneTyped ==
    ASSUME Typed, NEW r \in Request, NEW id \in SceneId, SkipScene(r, id)
    PROVE  Typed'
<1>1. LocalType' /\ Held'
  BY NextInBatchHeld, TypeParts DEF Typed, SkipScene
<1>2. SessionType'
  BY DEF Typed, TypeOK, SessionType, SkipScene, session
<1>3. QED
  BY <1>1, <1>2, TypePartsNext DEF Typed

\* A render that starts is of a scene of its batch.
LEMMA StartRenderTyped ==
    ASSUME Typed, NEW r \in Request, NEW id \in SceneId, StartRender(r, id)
    PROVE  Typed'
<1>1. TypeOK'
  BY DEF Typed, TypeOK, StartRender, session, Phase
<1>2. ASSUME NEW q \in Request, q # r
      PROVE  pc'[q] = pc[q] /\ ids'[q] = ids[q]
  BY <1>2 DEF Typed, TypeOK, StartRender
<1>3. /\ pc'[r] = "drawing" /\ ids'[r] = <<id>>
      /\ seen' = seen /\ left' = left /\ picks' = picks
      /\ seen[r][id] # NoScene
  BY DEF Typed, TypeOK, StartRender, Held, Batch
<1>4. Held'
  BY <1>2, <1>3 DEF Typed, Held, Base, Target, Writing, Batch
<1>5. QED
  BY <1>1, <1>4 DEF Typed

\* The scene being drawn is a scene id, and the request holds the scene.
LEMMA DrawingType ==
    ASSUME Typed, NEW r \in Request, pc[r] = "drawing"
    PROVE  Target(r) \in SceneId /\ Base(r) \in Scene
<1>1. Target(r) \in SceneId
  BY DEF Typed, TypeOK, Held, Target
<1>2. QED
  BY <1>1 DEF Typed, TypeOK, Held, SceneMap, Base

\* Publication stores a scene with the params rendered.
LEMMA PublishTyped ==
    ASSUME Typed, NEW r \in Request, Publish(r)
    PROVE  Typed'
<1>1. Target(r) \in SceneId /\ Base(r) \in Scene
  BY DrawingType DEF Publish
<1>2. LocalType' /\ Held'
  BY <1>1, NextInBatchHeld, TypeParts DEF Typed, Publish
<1>3. scenes[Target(r)] \in Scene /\ Base(r).items \in Seq(Content)
  BY <1>1 DEF Typed, TypeOK, Publish, StillCurrent, SceneMap, Scene
<1>4. [scenes[Target(r)] EXCEPT !.rendered = Base(r).items] \in Scene
  BY <1>3 DEF Scene
<1>5. SessionType'
  BY <1>1, <1>3, <1>4
  DEF Typed, TypeOK, SessionType, Publish, Shows, SceneMap, Base
<1>6. QED
  BY <1>2, <1>5, TypePartsNext DEF Typed

\* A discarded render changes nothing but its request.
LEMMA DiscardTyped ==
    ASSUME Typed, NEW r \in Request, Discard(r)
    PROVE  Typed'
<1>1. LocalType' /\ Held'
  BY DrawingType, NextInBatchHeld, TypeParts DEF Typed, Discard
<1>2. SessionType'
  BY DEF Typed, TypeOK, SessionType, Discard, session
<1>3. QED
  BY <1>1, <1>2, TypePartsNext DEF Typed

\* A release takes scene ids out of rendering_scene_ids.
LEMMA ReleaseBatchTyped ==
    ASSUME Typed, NEW r \in Request, ReleaseBatch(r)
    PROVE  Typed'
<1>1. LocalType' /\ Held'
  BY FinishHeld, TypeParts DEF Typed, ReleaseBatch
<1>2. SessionType'
  BY DEF Typed, TypeOK, SessionType, ReleaseBatch
<1>3. QED
  BY <1>1, <1>2, TypePartsNext DEF Typed

\* A step of a build that moves only its phase keeps what requests hold.
LEMMA StepHeld ==
    ASSUME Typed, NEW r \in Request, NEW p \in Phase,
           NEW q \in {"clear_order", "clear_requested", "clear_members", "build"},
           p \notin {"batch", "drawing"},
           Step(r, p, q), ids' = ids, picks' = picks
    PROVE  Held'
<1>1. ASSUME NEW x \in Request, x # r
      PROVE  pc'[x] = pc[x]
  BY <1>1 DEF Typed, TypeOK, Step
<1>2. pc'[r] = q /\ seen' = seen /\ left' = left
  BY DEF Typed, TypeOK, Step
<1>3. left[r] = {}
  BY DEF Typed, Held, Step
<1>4. QED
  BY <1>1, <1>2, <1>3 DEF Typed, Held, Base, Target, Writing, Batch

\* A build holds picks that were offered.
LEMMA BeginBuildTyped ==
    ASSUME Typed, NEW r \in Request, BeginBuild(r)
    PROVE  Typed'
<1>1. PICK p \in PickLists : picks' = [picks EXCEPT ![r] = p]
  BY DEF BeginBuild
<1>2. p \in Seq(Candidate \X Template)
  <2>1. PICK n \in 0..MaxPicks : p \in [1..n -> Offered]
    BY DEF PickLists
  <2>2. QED
    BY <2>1, BoundsAssumption, OfferedAssumption
<1>3. TypeOK'
  BY <1>1, <1>2 DEF Typed, TypeOK, BeginBuild, session, Phase
<1>4. ASSUME NEW x \in Request, x # r
      PROVE  pc'[x] = pc[x] /\ picks'[x] = picks[x]
  BY <1>1, <1>4 DEF Typed, TypeOK, BeginBuild
<1>5. /\ pc'[r] = "clear_scenes" /\ pc[r] = "idle"
      /\ seen' = seen /\ left' = left /\ ids' = ids
  BY DEF Typed, TypeOK, BeginBuild
<1>6. Held'
  BY <1>4, <1>5 DEF Typed, Held, Base, Target, Writing, Batch
<1>7. QED
  BY <1>3, <1>6 DEF Typed

\* The four clears empty what they clear.
LEMMA ClearsTyped ==
    ASSUME Typed, NEW r \in Request,
           \/ ClearScenes(r) \/ ClearOrder(r) \/ ClearRequested(r) \/ ClearMembers(r)
    PROVE  Typed'
<1>1. CASE ClearScenes(r)
  <2>1. Held'
    BY <1>1, StepHeld DEF ClearScenes, Phase
  <2>2. QED
    BY <1>1, <2>1, NothingType DEF Typed, TypeOK, ClearScenes, Step, Phase
<1>2. CASE ClearOrder(r)
  <2>1. Held'
    BY <1>2, StepHeld DEF ClearOrder, Phase
  <2>2. QED
    BY <1>2, <2>1 DEF Typed, TypeOK, ClearOrder, Step, Phase
<1>3. CASE ClearRequested(r)
  <2>1. Held'
    BY <1>3, StepHeld DEF ClearRequested, Phase
  <2>2. QED
    BY <1>3, <2>1 DEF Typed, TypeOK, ClearRequested, Step, Phase
<1>4. CASE ClearMembers(r)
  <2>1. Held'
    BY <1>4, StepHeld DEF ClearMembers, Phase
  <2>2. QED
    BY <1>4, <2>1 DEF Typed, TypeOK, ClearMembers, Step, Phase
<1>5. QED
  BY <1>1, <1>2, <1>3, <1>4

\* A build stores what the pipeline returns, under a new id.
LEMMA StoreSceneTyped ==
    ASSUME Typed, NEW r \in Request, StoreScene(r)
    PROVE  Typed'
<1>1. picks[r][1][1] \in Candidate /\ picks[r][1][2] \in Template /\ assemblies \in Nat
  BY DEF Typed, TypeOK, StoreScene
<1>2. PICK id \in fresh, s \in Assembled(picks[r][1][1], picks[r][1][2], assemblies) :
        /\ scenes' = [scenes EXCEPT ![id] = s]
        /\ ids' = [ids EXCEPT ![r] = <<id>>]
        /\ fresh' = fresh \ {id}
  BY DEF StoreScene
<1>3. s \in Scene /\ id \in SceneId
  BY <1>1, AssembledType DEF Typed, TypeOK
<1>4. TypeOK'
  BY <1>2, <1>3 DEF Typed, TypeOK, StoreScene, Step, Phase, SceneMap
<1>5. ASSUME NEW x \in Request, x # r
      PROVE  pc'[x] = pc[x] /\ ids'[x] = ids[x]
  BY <1>2, <1>5 DEF Typed, TypeOK, StoreScene, Step
<1>6. /\ pc[r] = "build" /\ pc'[r] = "append" /\ ids'[r] = <<id>> /\ picks[r] # <<>>
      /\ seen' = seen /\ left' = left /\ picks' = picks
  BY <1>2 DEF Typed, TypeOK, StoreScene, Step
<1>7. Held'
  BY <1>5, <1>6 DEF Typed, Held, Base, Target, Writing, Batch
<1>8. QED
  BY <1>4, <1>7 DEF Typed

\* A build appends the id it stored.
LEMMA AppendSceneTyped ==
    ASSUME Typed, NEW r \in Request, AppendScene(r)
    PROVE  Typed'
<1>1. Target(r) \in SceneId
  BY DEF Typed, TypeOK, Held, AppendScene, Step, Target
<1>2. TypeOK'
  BY <1>1 DEF Typed, TypeOK, AppendScene, Step, Phase
<1>3. ASSUME NEW x \in Request, x # r
      PROVE  pc'[x] = pc[x]
  BY <1>3 DEF Typed, TypeOK, AppendScene, Step
<1>4. /\ pc[r] = "append" /\ pc'[r] = "request"
      /\ seen' = seen /\ left' = left /\ picks' = picks /\ ids' = ids
  BY DEF Typed, TypeOK, AppendScene, Step
<1>5. Held'
  BY <1>3, <1>4 DEF Typed, Held, Base, Target, Writing, Batch
<1>6. QED
  BY <1>2, <1>5 DEF Typed

\* A build remembers the template of its first pick and drops the pick.
LEMMA RecordRequestedTyped ==
    ASSUME Typed, NEW r \in Request, RecordRequested(r)
    PROVE  Typed'
<1>1. picks[r] \in Seq(Candidate \X Template) /\ picks[r] # <<>>
  BY DEF Typed, TypeOK, Held, RecordRequested, Step
<1>2. Tail(picks[r]) \in Seq(Candidate \X Template) /\ picks[r][1][2] \in Template
  BY <1>1
<1>3. TypeOK'
  <2>1. picks' \in [Request -> Seq(Candidate \X Template)]
    BY <1>2 DEF Typed, TypeOK, RecordRequested
  <2>2. requested' \in [SceneId -> Template \union {NoTemplate}]
    BY <1>2 DEF Typed, TypeOK, RecordRequested
  <2>3. ids' \in [Request -> Seq(SceneId)] /\ pc' \in [Request -> Phase]
    BY DEF Typed, TypeOK, RecordRequested, Step, Phase
  <2>4. QED
    BY <2>1, <2>2, <2>3 DEF Typed, TypeOK, RecordRequested, Step
<1>4. ASSUME NEW x \in Request, x # r
      PROVE  pc'[x] = pc[x] /\ ids'[x] = ids[x] /\ picks'[x] = picks[x]
  BY <1>4 DEF Typed, TypeOK, RecordRequested, Step
<1>5. /\ pc[r] = "request" /\ pc'[r] = "build"
      /\ seen' = seen /\ left' = left
  BY DEF Typed, TypeOK, RecordRequested, Step
<1>6. Held'
  BY <1>4, <1>5 DEF Typed, Held, Base, Target, Writing, Batch
<1>7. QED
  BY <1>3, <1>6 DEF Typed

\* A build that ends holds nothing.
LEMMA EndBuildTyped ==
    ASSUME Typed, NEW r \in Request, EndBuild(r)
    PROVE  Typed'
<1>1. LocalType' /\ Held'
  BY FinishHeld, TypeParts DEF Typed, EndBuild
<1>2. SessionType'
  BY DEF Typed, TypeOK, SessionType, EndBuild, session
<1>3. QED
  BY <1>1, <1>2, TypePartsNext DEF Typed

-----------------------------------------------------------------------------
(* Types: the specification *)

\* A session starts empty, and so do its requests.
LEMMA InitTyped == Init => Typed
BY NothingType DEF Init, Typed, TypeOK, Held, Phase, Writing, SceneMap, Batch

\* Requests that begin keep the types.
LEMMA BeginTyped ==
    ASSUME Typed, NEW r \in Request, Begin(r)
    PROVE  Typed'
<1>1. ASSUME NEW id \in SceneId, BeginEdit(r, id) PROVE Typed'
  BY <1>1, BeginWriteTyped DEF BeginEdit, Writing
<1>2. ASSUME NEW id \in SceneId, BeginApprove(r, id) PROVE Typed'
  BY <1>2, BeginWriteTyped DEF BeginApprove, Writing
<1>3. ASSUME NEW id \in SceneId, BeginReject(r, id) PROVE Typed'
  BY <1>3, BeginWriteTyped DEF BeginReject, Writing
<1>4. ASSUME NEW id \in SceneId, BeginAcknowledge(r, id) PROVE Typed'
  BY <1>4, BeginWriteTyped DEF BeginAcknowledge, Writing
<1>5. ASSUME NEW id \in SceneId, BeginRetry(r, id) PROVE Typed'
  BY <1>5, BeginRetryTyped
<1>6. ASSUME NEW n \in 2..MaxItems, NEW q \in [1..n -> OnBoard], BeginChain(r, q) PROVE Typed'
  BY <1>6, BeginChainTyped
<1>7. CASE ClaimBatch(r)
  BY <1>7, ClaimBatchTyped
<1>8. CASE BeginBuild(r)
  BY <1>8, BeginBuildTyped
<1>9. QED
  BY <1>1, <1>2, <1>3, <1>4, <1>5, <1>6, <1>7, <1>8 DEF Begin

\* Requests that go on keep the types.
LEMMA ProceedTyped ==
    ASSUME Typed, NEW r \in Request, Proceed(r)
    PROVE  Typed'
<1>1. CASE CommitEdit(r) \/ CommitApprove(r) \/ CommitReject(r) \/ CommitAcknowledge(r)
  BY <1>1, CommitEditTyped, CommitApproveTyped, CommitRejectTyped, CommitAcknowledgeTyped
<1>2. CASE CommitRetry(r) \/ CommitChain(r) \/ Refuse(r)
  BY <1>2, CommitRetryTyped, CommitChainTyped, RefuseTyped
<1>3. ASSUME NEW id \in SceneId,
             ServeCached(r, id) \/ StartRender(r, id) \/ SkipScene(r, id)
      PROVE  Typed'
  BY <1>3, ServeCachedTyped, StartRenderTyped, SkipSceneTyped
<1>4. CASE Publish(r) \/ Discard(r) \/ ReleaseBatch(r)
  BY <1>4, PublishTyped, DiscardTyped, ReleaseBatchTyped
<1>5. CASE ClearScenes(r) \/ ClearOrder(r) \/ ClearRequested(r) \/ ClearMembers(r)
  BY <1>5, ClearsTyped
<1>6. CASE StoreScene(r) \/ AppendScene(r) \/ RecordRequested(r) \/ EndBuild(r)
  BY <1>6, StoreSceneTyped, AppendSceneTyped, RecordRequestedTyped, EndBuildTyped
<1>7. QED
  BY <1>1, <1>2, <1>3, <1>4, <1>5, <1>6 DEF Proceed

\* Every step keeps the types.
LEMMA NextTyped == Typed /\ [Next]_vars => Typed'
<1> SUFFICES ASSUME Typed, [Next]_vars PROVE Typed'
  OBVIOUS
<1>1. ASSUME NEW r \in Request, Begin(r) \/ Proceed(r) PROVE Typed'
  BY <1>1, BeginTyped, ProceedTyped
<1>2. ASSUME NEW id \in SceneId, Ungroup(id) PROVE Typed'
  BY <1>2, UngroupTyped
<1>3. CASE UNCHANGED vars
  BY <1>3 DEF vars, session, local, Typed, TypeOK, Held, Base, Target, Batch
<1>4. QED
  BY <1>1, <1>2, <1>3 DEF Next

\* Every state of the session and of its requests is well-typed: no handler
\* stores something that is not a scene, and no request goes on with a scene
\* it does not hold.
THEOREM TypeCorrect == Spec => []TypeOK
<1>1. Typed => TypeOK
  BY DEF Typed
<1>2. QED
  BY <1>1, InitTyped, NextTyped, PTL DEF Spec

-----------------------------------------------------------------------------
(* Render claims *)

InRender(r) == pc[r] \in {"batch", "drawing"}

\* A step that moves no request into or out of rendering and leaves the
\* batches alone.
BatchesKept ==
    /\ rendering' = rendering
    /\ \A r \in Request :
         /\ InRender(r)' = InRender(r)
         /\ InRender(r) => seen'[r] = seen[r]

\* Such a step keeps batches apart.
LEMMA BatchesKeptSafe ==
    ASSUME NoDoubleRender, BatchesKept
    PROVE  NoDoubleRender'
<1>1. \A r \in Request : InRender(r) => Batch(r)' = Batch(r)
  BY DEF BatchesKept, Batch
<1>2. \A r1, r2 \in Request : r1 # r2 /\ InRender(r1)' /\ InRender(r2)'
        => (Batch(r1) \intersect Batch(r2))' = {}
  BY <1>1 DEF NoDoubleRender, BatchesKept, InRender
<1>3. rendering' = {id \in SceneId : \E r \in Request : InRender(r)' /\ id \in Batch(r)'}
  BY <1>1 DEF NoDoubleRender, BatchesKept, InRender
<1>4. QED
  BY <1>2, <1>3 DEF NoDoubleRender, InRender

\* A claim takes scenes nobody else has claimed.
LEMMA ClaimBatchSafe ==
    ASSUME Typed, NoDoubleRender, NEW r \in Request, ClaimBatch(r)
    PROVE  NoDoubleRender'
<1> DEFINE ready == {id \in OnBoard : RenderReady(scenes[id])}
<1>1. ready \subseteq SceneId
  BY BoardType DEF Typed
<1>2. /\ ready \intersect rendering = {}
      /\ rendering' = rendering \union ready
      /\ pc' = [pc EXCEPT ![r] = "batch"]
      /\ seen' = [seen EXCEPT ![r] = [id \in SceneId |->
                      IF id \in ready THEN scenes[id] ELSE NoScene]]
      /\ pc[r] = "idle"
      /\ \A id \in ready : scenes[id] # NoScene
  BY DEF ClaimBatch, ValidRenderBatch
<1> HIDE DEF ready
<1>3. Batch(r)' = ready /\ InRender(r)'
  BY <1>1, <1>2 DEF Typed, TypeOK, Batch, InRender
<1>4. \A x \in Request : x # r => Batch(x)' = Batch(x) /\ InRender(x)' = InRender(x)
  BY <1>2 DEF Typed, TypeOK, Batch, InRender
<1>5. ~InRender(r)
  BY <1>2 DEF InRender
<1>6. \A x \in Request : InRender(x) => Batch(x) \subseteq rendering
  BY DEF NoDoubleRender, InRender, Batch
<1>7. \A r1, r2 \in Request : r1 # r2 /\ InRender(r1)' /\ InRender(r2)'
        => (Batch(r1) \intersect Batch(r2))' = {}
  BY <1>2, <1>3, <1>4, <1>6 DEF NoDoubleRender, InRender
<1>8. rendering' = {id \in SceneId : \E x \in Request : InRender(x)' /\ id \in Batch(x)'}
  BY <1>1, <1>2, <1>3, <1>4, <1>5 DEF NoDoubleRender, InRender
<1>9. QED
  BY <1>7, <1>8 DEF NoDoubleRender, InRender

\* A release gives back what the request had claimed and nothing else.
LEMMA ReleaseBatchSafe ==
    ASSUME Typed, NoDoubleRender, NEW r \in Request, ReleaseBatch(r)
    PROVE  NoDoubleRender'
<1>1. /\ pc' = [pc EXCEPT ![r] = "idle"]
      /\ seen' = [seen EXCEPT ![r] = Nothing]
      /\ rendering' = rendering \ Batch(r)
      /\ InRender(r)
  BY DEF ReleaseBatch, Finish, InRender
<1>2. ~InRender(r)'
  BY <1>1 DEF Typed, TypeOK, InRender
<1>3. \A x \in Request : x # r => Batch(x)' = Batch(x) /\ InRender(x)' = InRender(x)
  BY <1>1 DEF Typed, TypeOK, Batch, InRender
<1>4. \A r1, r2 \in Request : r1 # r2 /\ InRender(r1)' /\ InRender(r2)'
        => (Batch(r1) \intersect Batch(r2))' = {}
  BY <1>2, <1>3 DEF NoDoubleRender, InRender
<1>5. rendering' = {id \in SceneId : \E x \in Request : InRender(x)' /\ id \in Batch(x)'}
  BY <1>1, <1>2, <1>3 DEF NoDoubleRender, InRender
<1>6. QED
  BY <1>4, <1>5 DEF NoDoubleRender, InRender

\* A request that is not rendering ends without touching a batch.
LEMMA FinishKeepsBatches ==
    ASSUME Typed, NEW r \in Request, ~InRender(r), Finish(r), rendering' = rendering
    PROVE  BatchesKept
BY DEF Typed, TypeOK, Finish, InRender, BatchesKept

\* A request that is not rendering starts something else.
LEMMA HoldKeepsBatches ==
    ASSUME Typed, NEW r \in Request, ~InRender(r),
           NEW p \in Writing \union {"chain"}, NEW S, NEW q,
           Hold(r, p, S, q), rendering' = rendering
    PROVE  BatchesKept
BY DEF Typed, TypeOK, Hold, InRender, BatchesKept, Writing

\* A batch goes from scene to scene with its claim.
LEMMA NextInBatchKeepsBatches ==
    ASSUME Typed, NEW r \in Request, InRender(r), NEW id, NextInBatch(r, id),
           rendering' = rendering
    PROVE  BatchesKept
BY DEF Typed, TypeOK, NextInBatch, InRender, BatchesKept

\* A build does not touch claims.
LEMMA StepKeepsBatches ==
    ASSUME Typed, NEW r \in Request, NEW p, NEW q,
           p \notin {"batch", "drawing"}, q \notin {"batch", "drawing"}, Step(r, p, q)
    PROVE  BatchesKept
BY DEF Typed, TypeOK, Step, InRender, BatchesKept

\* Only a claim and a release change the batches.
LEMMA BeginSafe ==
    ASSUME Typed, NoDoubleRender, NEW r \in Request, Begin(r)
    PROVE  NoDoubleRender'
<1>1. ASSUME NEW id \in SceneId, NEW p \in Writing, BeginWrite(r, p, id)
      PROVE  BatchesKept
  BY <1>1, HoldKeepsBatches DEF BeginWrite, session, InRender
<1>2. ASSUME NEW id \in SceneId,
             \/ BeginEdit(r, id) \/ BeginApprove(r, id)
             \/ BeginReject(r, id) \/ BeginAcknowledge(r, id)
      PROVE  BatchesKept
  BY <1>1, <1>2 DEF BeginEdit, BeginApprove, BeginReject, BeginAcknowledge, Writing
<1>3. ASSUME NEW id \in SceneId, BeginRetry(r, id) PROVE BatchesKept
  BY <1>3 DEF Typed, TypeOK, BeginRetry, session, InRender, BatchesKept
<1>4. ASSUME NEW n \in 2..MaxItems, NEW q \in [1..n -> OnBoard], BeginChain(r, q)
      PROVE  BatchesKept
  BY <1>4, HoldKeepsBatches DEF BeginChain, session, InRender
<1>5. CASE BeginBuild(r)
  <2>1. BatchesKept
    BY <1>5 DEF Typed, TypeOK, BeginBuild, session, InRender, BatchesKept
  <2>2. QED
    BY <2>1, BatchesKeptSafe
<1>6. CASE ClaimBatch(r)
  BY <1>6, ClaimBatchSafe
<1>7. QED
  BY <1>2, <1>3, <1>4, <1>5, <1>6, BatchesKeptSafe DEF Begin

\* A request that goes on changes no claim but by releasing its own.
LEMMA ProceedSafe ==
    ASSUME Typed, NoDoubleRender, NEW r \in Request, Proceed(r)
    PROVE  NoDoubleRender'
<1>1. CASE CommitEdit(r) \/ CommitApprove(r) \/ CommitReject(r) \/ CommitAcknowledge(r)
  <2>1. pc[r] \in Writing /\ Finish(r) /\ rendering' = rendering
    BY <1>1 DEF CommitEdit, CommitApprove, CommitReject, CommitAcknowledge, WriteCas, Writing
  <2>2. QED
    BY <2>1, FinishKeepsBatches, BatchesKeptSafe DEF InRender, Writing
<1>2. CASE CommitRetry(r) \/ CommitChain(r) \/ Refuse(r) \/ EndBuild(r)
  <2>1. ~InRender(r) /\ Finish(r) /\ rendering' = rendering
    BY <1>2 DEF CommitRetry, CommitChain, Refuse, EndBuild, session, InRender
  <2>2. QED
    BY <2>1, FinishKeepsBatches, BatchesKeptSafe
<1>3. ASSUME NEW id \in SceneId, ServeCached(r, id) \/ SkipScene(r, id)
      PROVE  NoDoubleRender'
  <2>1. InRender(r) /\ NextInBatch(r, id) /\ rendering' = rendering
    BY <1>3 DEF ServeCached, SkipScene, session, InRender
  <2>2. QED
    BY <2>1, NextInBatchKeepsBatches, BatchesKeptSafe
<1>4. CASE Publish(r) \/ Discard(r)
  <2>1. InRender(r) /\ NextInBatch(r, Target(r)) /\ rendering' = rendering
    BY <1>4 DEF Publish, Discard, session, InRender
  <2>2. QED
    BY <2>1, NextInBatchKeepsBatches, BatchesKeptSafe
<1>5. ASSUME NEW id \in SceneId, StartRender(r, id) PROVE NoDoubleRender'
  <2>1. BatchesKept
    BY <1>5 DEF Typed, TypeOK, StartRender, session, InRender, BatchesKept
  <2>2. QED
    BY <2>1, BatchesKeptSafe
<1>6. CASE ReleaseBatch(r)
  BY <1>6, ReleaseBatchSafe
<1>7. CASE \/ ClearScenes(r) \/ ClearOrder(r) \/ ClearRequested(r) \/ ClearMembers(r)
           \/ StoreScene(r) \/ AppendScene(r) \/ RecordRequested(r)
  BY <1>7, StepKeepsBatches, BatchesKeptSafe
  DEF ClearScenes, ClearOrder, ClearRequested, ClearMembers,
      StoreScene, AppendScene, RecordRequested
<1>8. QED
  BY <1>1, <1>2, <1>3, <1>4, <1>5, <1>6, <1>7 DEF Proceed

\* Every step keeps batches apart.
LEMMA NextSafe == Typed /\ NoDoubleRender /\ [Next]_vars => NoDoubleRender'
<1> SUFFICES ASSUME Typed, NoDoubleRender, [Next]_vars PROVE NoDoubleRender'
  OBVIOUS
<1>1. ASSUME NEW id \in SceneId, Ungroup(id) PROVE NoDoubleRender'
  BY <1>1, BatchesKeptSafe DEF Ungroup, local, BatchesKept, InRender
<1>2. CASE UNCHANGED vars
  BY <1>2, BatchesKeptSafe DEF vars, session, local, BatchesKept, InRender
<1>3. QED
  BY <1>1, <1>2, BeginSafe, ProceedSafe DEF Next

\* No scene is in two render batches at once, and rendering_scene_ids holds
\* the scenes of the batches in flight and no others.
THEOREM OneRenderPerScene == Spec => []NoDoubleRender
<1>1. Init => NoDoubleRender
  BY DEF Init, NoDoubleRender
<1>2. QED
  BY <1>1, InitTyped, NextTyped, NextSafe, PTL DEF Spec

-----------------------------------------------------------------------------
(***************************************************************************)
(* Approvals.  The invariant: within one assembly of a scene on which no   *)
(* write of an earlier one landed, the revision names the content.  A      *)
(* request whose snapshot has the revision of the scene holds the scene's  *)
(* params, stated answer, acknowledgement and status; an approval in       *)
(* flight holds a snapshot the mismatch guard let through.                 *)
(***************************************************************************)
SameReview(s, t) ==
    /\ s.items = t.items
    /\ s.stated = t.stated
    /\ s.acknowledged = t.acknowledged
    /\ s.status = t.status

\* Of snapshot s and scene t of the same assembly, what their revisions say.
Precedes(s, t) ==
    /\ s.revision <= t.revision
    /\ s.revision = t.revision => SameReview(s, t)

Snapshots ==
    \A r \in Request, id \in SceneId : seen[r][id] # NoScene =>
        /\ seen[r][id].assembly <= assemblies
        /\ id \notin fresh
        /\ (scenes[id] # NoScene /\ ~scenes[id].mixed
              /\ seen[r][id].assembly = scenes[id].assembly)
             => Precedes(seen[r][id], scenes[id])

Drawn ==
    /\ \A id \in SceneId : scenes[id] # NoScene =>
           id \notin fresh /\ scenes[id].assembly <= assemblies
    /\ \A r \in Request : pc[r] = "retry" => Target(r) \notin fresh

ApprovingSettled ==
    \A r \in Request : pc[r] = "approve" => MismatchSettled(Base(r))

Sound == Snapshots /\ Drawn /\ ApprovingSettled /\ ApprovalSound

\* The mismatch guard depends on the reviewed fields only.
LEMMA SettledBySameReview ==
    ASSUME NEW s, NEW t, SameReview(s, t), MismatchSettled(s)
    PROVE  MismatchSettled(t)
BY DEF SameReview, MismatchSettled, Mismatch

(***************************************************************************)
(* How a step may change the scene under an id: remove it, put a newly     *)
(* assembled one there that no request has seen, or update it so that a    *)
(* changed review has a higher revision and an approval is settled.        *)
(***************************************************************************)
Renewed(id) ==
    /\ scenes'[id].assembly <= assemblies'
    /\ scenes'[id].status # "approved"
    /\ \A r \in Request : seen[r][id] # NoScene =>
           seen[r][id].assembly # scenes'[id].assembly

Updated(s, t) ==
    /\ t.assembly = s.assembly
    /\ ~t.mixed => /\ ~s.mixed
                   /\ Precedes(s, t)
                   /\ t.status = "approved" => MismatchSettled(t)

Evolves(id) ==
    \/ scenes'[id] = NoScene
    \/ /\ scenes'[id] # NoScene
       /\ id \notin fresh'
       /\ \/ Renewed(id)
          \/ scenes[id] # NoScene /\ Updated(scenes[id], scenes'[id])

\* How a step may change what the requests hold.
Snaps ==
    /\ \A r \in Request, id \in SceneId :
         \/ seen'[r][id] = seen[r][id]
         \/ seen'[r][id] = NoScene
         \/ seen'[r][id] = scenes'[id]
    /\ \A r \in Request : pc'[r] = "approve" => MismatchSettled(Base(r)')
    /\ \A r \in Request : pc'[r] = "retry" => Target(r)' \notin fresh'

\* Precedence is transitive along an update.
LEMMA PrecedesTransitive ==
    ASSUME NEW s \in Scene, NEW t \in Scene, NEW u \in Scene,
           Precedes(s, t), Precedes(t, u)
    PROVE  Precedes(s, u)
<1>1. s.revision \in Nat /\ t.revision \in Nat /\ u.revision \in Nat
  BY DEF Scene
<1>2. QED
  BY <1>1 DEF Precedes, SameReview

\* Steps that evolve scenes and snapshots so keep approvals sound.
LEMMA EvolvesSound ==
    ASSUME Typed, Typed', Sound, Snaps, \A id \in SceneId : Evolves(id),
           fresh' \subseteq fresh, assemblies <= assemblies'
    PROVE  Sound'
<1>1. assemblies \in Nat /\ assemblies' \in Nat
  BY DEF Typed, TypeOK
<1>2. ASSUME NEW id \in SceneId, scenes'[id] # NoScene
      PROVE  /\ id \notin fresh' /\ scenes'[id].assembly <= assemblies'
             /\ (scenes'[id].status = "approved" /\ ~scenes'[id].mixed)
                  => MismatchSettled(scenes'[id])
  <2>1. CASE Renewed(id)
    BY <1>2, <2>1 DEF Evolves, Renewed
  <2>2. CASE scenes[id] # NoScene /\ Updated(scenes[id], scenes'[id])
    <3>1. scenes[id] \in Scene
      BY <2>2 DEF Typed, TypeOK, SceneMap
    <3>2. scenes[id].assembly <= assemblies /\ scenes[id].assembly \in Nat
      BY <2>2, <3>1 DEF Sound, Drawn, Scene
    <3>3. QED
      BY <1>1, <1>2, <2>2, <3>2 DEF Evolves, Updated
  <2>3. QED
    BY <1>2, <2>1, <2>2 DEF Evolves
<1>3. ASSUME NEW r \in Request, NEW id \in SceneId, seen'[r][id] # NoScene
      PROVE  /\ seen'[r][id].assembly <= assemblies'
             /\ id \notin fresh'
             /\ (scenes'[id] # NoScene /\ ~scenes'[id].mixed
                   /\ seen'[r][id].assembly = scenes'[id].assembly)
                  => Precedes(seen'[r][id], scenes'[id])
  <2>1. CASE seen'[r][id] = scenes'[id]
    <3>1. scenes'[id] \in Scene
      BY <1>3, <2>1 DEF Typed, TypeOK, SceneMap
    <3>2. QED
      BY <1>2, <1>3, <2>1, <3>1 DEF Precedes, SameReview, Scene
  <2>2. CASE seen'[r][id] = seen[r][id]
    <3>1. seen[r][id] \in Scene /\ seen[r][id].assembly \in Nat
      BY <1>3, <2>2 DEF Typed, TypeOK, SceneMap, Scene
    <3>2. /\ seen[r][id].assembly <= assemblies
          /\ id \notin fresh
      BY <1>3, <2>2 DEF Sound, Snapshots
    <3>3. ASSUME scenes'[id] # NoScene, ~scenes'[id].mixed,
                 seen[r][id].assembly = scenes'[id].assembly
          PROVE  Precedes(seen[r][id], scenes'[id])
      <4>1. scenes[id] # NoScene /\ Updated(scenes[id], scenes'[id])
        BY <1>3, <2>2, <3>3 DEF Evolves, Renewed
      <4>2. scenes[id] \in Scene /\ scenes'[id] \in Scene
        BY <4>1, <3>3 DEF Typed, TypeOK, SceneMap
      <4>3. Precedes(scenes[id], scenes'[id]) /\ ~scenes[id].mixed
        BY <3>3, <4>1 DEF Updated
      <4>4. Precedes(seen[r][id], scenes[id])
        BY <1>3, <2>2, <3>3, <4>1, <4>3 DEF Sound, Snapshots, Updated
      <4>5. QED
        BY <3>1, <4>2, <4>3, <4>4, PrecedesTransitive
    <3>4. QED
      BY <1>1, <2>2, <3>1, <3>2, <3>3
  <2>3. QED
    BY <1>3, <2>1, <2>2 DEF Snaps
<1>4. Snapshots'
  BY <1>3 DEF Snapshots
<1>5. Drawn'
  BY <1>2 DEF Drawn, Snaps
<1>6. ApprovingSettled'
  BY DEF ApprovingSettled, Snaps
<1>7. ApprovalSound'
  BY <1>2 DEF ApprovalSound
<1>8. QED
  BY <1>4, <1>5, <1>6, <1>7 DEF Sound

-----------------------------------------------------------------------------
(* Approvals: what each action does to scenes and snapshots *)

\* A scene that is left alone is an update of itself.
LEMMA KeptEvolves ==
    ASSUME Typed, Sound, NEW id \in SceneId,
           scenes'[id] = scenes[id], fresh' \subseteq fresh
    PROVE  Evolves(id)
<1>1. CASE scenes[id] = NoScene
  BY <1>1 DEF Evolves
<1>2. CASE scenes[id] # NoScene
  <2>1. scenes[id] \in Scene
    BY <1>2 DEF Typed, TypeOK, SceneMap
  <2>2. Updated(scenes[id], scenes[id])
    BY <1>2, <2>1 DEF Updated, Precedes, SameReview, Sound, ApprovalSound, Scene
  <2>3. id \notin fresh'
    BY <1>2 DEF Sound, Drawn
  <2>4. QED
    BY <1>2, <2>2, <2>3 DEF Evolves
<1>3. QED
  BY <1>1, <1>2

\* Only one request changes what it holds.
LEMMA OneRequestSnaps ==
    ASSUME Typed, Sound, NEW r \in Request, fresh' \subseteq fresh,
           \A q \in Request : q # r =>
               pc'[q] = pc[q] /\ seen'[q] = seen[q] /\ ids'[q] = ids[q],
           \A id \in SceneId : seen'[r][id] \in {seen[r][id], NoScene, scenes'[id]},
           pc'[r] = "approve" => MismatchSettled(Base(r)'),
           pc'[r] = "retry" => Target(r)' \notin fresh'
    PROVE  Snaps
<1>1. ASSUME NEW q \in Request, NEW id \in SceneId
      PROVE  seen'[q][id] \in {seen[q][id], NoScene, scenes'[id]}
  BY <1>1
<1>2. ASSUME NEW q \in Request, pc'[q] = "approve"
      PROVE  MismatchSettled(Base(q)')
  BY <1>2 DEF Sound, ApprovingSettled, Base, Target
<1>3. ASSUME NEW q \in Request, pc'[q] = "retry"
      PROVE  Target(q)' \notin fresh'
  BY <1>3 DEF Sound, Drawn, Target
<1>4. QED
  BY <1>1, <1>2, <1>3 DEF Snaps

\* A request that ends forgets its snapshots.
LEMMA FinishSnaps ==
    ASSUME Typed, Sound, NEW r \in Request, Finish(r), fresh' \subseteq fresh
    PROVE  Snaps
<1>1. /\ pc'[r] = "idle"
      /\ \A id \in SceneId : seen'[r][id] = NoScene
      /\ \A q \in Request : q # r =>
             pc'[q] = pc[q] /\ seen'[q] = seen[q] /\ ids'[q] = ids[q]
  BY DEF Typed, TypeOK, Finish, Nothing
<1>2. QED
  BY <1>1, OneRequestSnaps

\* A request that starts holds scenes as they are; an approval starts with a
\* settled one.
LEMMA HoldSnaps ==
    ASSUME Typed, Sound, NEW r \in Request, NEW p \in Writing \union {"chain"},
           NEW S \in SUBSET SceneId, NEW q \in Seq(SceneId),
           Hold(r, p, S, q), scenes' = scenes, fresh' = fresh,
           p = "approve" => q[1] \in S /\ MismatchSettled(scenes[q[1]])
    PROVE  Snaps
<1>1. /\ pc'[r] = p
      /\ ids'[r] = q
      /\ \A id \in SceneId :
             seen'[r][id] = IF id \in S THEN scenes[id] ELSE NoScene
      /\ \A x \in Request : x # r =>
             pc'[x] = pc[x] /\ seen'[x] = seen[x] /\ ids'[x] = ids[x]
  BY DEF Typed, TypeOK, Hold
<1>2. p = "approve" => Base(r)' = scenes[q[1]]
  BY <1>1 DEF Base, Target
<1>3. pc'[r] # "retry"
  BY <1>1 DEF Writing
<1>4. QED
  BY <1>1, <1>2, <1>3, OneRequestSnaps

\* A step of a request that keeps its snapshots.
LEMMA StepSnaps ==
    ASSUME Typed, Sound, NEW r \in Request, NEW p,
           pc' = [pc EXCEPT ![r] = p], p \notin {"approve", "retry"},
           seen' = seen, fresh' \subseteq fresh,
           \A q \in Request : q # r => ids'[q] = ids[q]
    PROVE  Snaps
<1>1. /\ pc'[r] = p
      /\ \A q \in Request : q # r => pc'[q] = pc[q]
  BY DEF Typed, TypeOK
<1>2. QED
  BY <1>1, OneRequestSnaps

\* A step that writes no scene.
LEMMA UnwrittenSound ==
    ASSUME Typed, Typed', Sound, Snaps, scenes' = scenes,
           fresh' \subseteq fresh, assemblies' = assemblies
    PROVE  Sound'
<1>1. \A id \in SceneId : Evolves(id)
  BY KeptEvolves
<1>2. assemblies <= assemblies'
  BY DEF Typed, TypeOK
<1>3. QED
  BY <1>1, <1>2, EvolvesSound

\* A step that writes one.
LEMMA WrittenSound ==
    ASSUME Typed, Typed', Sound, Snaps, NEW id \in SceneId, NEW s,
           scenes' = [scenes EXCEPT ![id] = s], Evolves(id),
           fresh' \subseteq fresh, assemblies <= assemblies'
    PROVE  Sound'
<1>1. \A x \in SceneId : x # id => scenes'[x] = scenes[x]
  BY DEF Typed, TypeOK, SceneMap
<1>2. \A x \in SceneId : Evolves(x)
  BY <1>1, KeptEvolves
<1>3. QED
  BY <1>2, EvolvesSound

-----------------------------------------------------------------------------
(* Approvals: the writes that compare revisions *)

\* If no retry came between, what passes the comparison of revisions is the
\* scene the request looked at.
LEMMA ComparedReview ==
    ASSUME Typed, Sound, NEW r \in Request, pc[r] \in Writing, Unraced(r),
           Base(r).assembly = scenes[Target(r)].assembly,
           ~scenes[Target(r)].mixed
    PROVE  SameReview(Base(r), scenes[Target(r)])
<1>1. Target(r) \in SceneId /\ scenes[Target(r)] # NoScene
  BY UnracedType DEF Unraced, Active
<1>2. Base(r) # NoScene
  BY DEF Typed, Held
<1>3. QED
  BY <1>1, <1>2 DEF Sound, Snapshots, Precedes, Unraced, Base

\* A compare-and-swap write is sound if it is sound for what the request
\* looked at.
LEMMA WriteCasSound ==
    ASSUME Typed, Sound, NEW r \in Request, pc[r] \in Writing,
           NEW updated \in Scene, WriteCas(r, updated),
           updated.assembly = scenes[Target(r)].assembly,
           updated.mixed = scenes[Target(r)].mixed,
           SameReview(Base(r), scenes[Target(r)]) /\ ~scenes[Target(r)].mixed =>
               /\ Precedes(scenes[Target(r)], updated)
               /\ updated.status = "approved" => MismatchSettled(updated)
    PROVE  Sound'
<1> DEFINE id == Target(r)
           stored == [updated EXCEPT !.mixed = @ \/ Base(r).assembly # updated.assembly]
<1>1. /\ Unraced(r)
      /\ scenes' = [scenes EXCEPT ![id] = stored]
      /\ Finish(r) /\ fresh' = fresh /\ assemblies' = assemblies
  BY DEF WriteCas
<1>2. id \in SceneId /\ scenes[id] \in Scene /\ scenes[id] # NoScene
  BY <1>1, UnracedType DEF Unraced, Active
<1>3. Typed'
  BY WriteCasTyped
<1>4. Snaps
  BY <1>1, FinishSnaps
<1>5. /\ scenes'[id] = stored
      /\ stored \in Scene
      /\ stored.assembly = updated.assembly /\ stored.status = updated.status
      /\ stored.items = updated.items /\ stored.stated = updated.stated
      /\ stored.acknowledged = updated.acknowledged
      /\ stored.revision = updated.revision
      /\ stored.mixed = (updated.mixed \/ Base(r).assembly # updated.assembly)
  BY <1>1, <1>2 DEF Typed, TypeOK, SceneMap, Scene
<1> HIDE DEF id, stored
<1>6. Updated(scenes[id], stored)
  <2>1. ASSUME ~stored.mixed
        PROVE  /\ ~scenes[id].mixed
               /\ Precedes(scenes[id], stored)
               /\ stored.status = "approved" => MismatchSettled(stored)
    <3>1. ~scenes[id].mixed /\ Base(r).assembly = scenes[id].assembly
      BY <1>5, <2>1 DEF id
    <3>2. SameReview(Base(r), scenes[id])
      BY <1>1, <3>1, ComparedReview DEF id
    <3>3. /\ Precedes(scenes[id], updated)
          /\ updated.status = "approved" => MismatchSettled(updated)
      BY <3>1, <3>2 DEF id
    <3>4. SameReview(updated, stored)
      BY <1>5 DEF SameReview
    <3>5. QED
      BY <1>5, <3>1, <3>3, <3>4, SettledBySameReview DEF Precedes, SameReview
  <2>2. QED
    BY <1>5, <2>1 DEF Updated, id
<1>7. stored # NoScene /\ id \notin fresh
  BY <1>2, <1>5, NoSceneAssumption DEF Sound, Drawn
<1>8. Evolves(id)
  BY <1>1, <1>2, <1>5, <1>6, <1>7 DEF Evolves
<1>9. assemblies <= assemblies'
  BY <1>1 DEF Typed, TypeOK
<1>10. QED
  BY <1>1, <1>2, <1>3, <1>4, <1>8, <1>9, WrittenSound

\* An edit that changes something leaves no approval, one that changes
\* nothing leaves the review as it is.
LEMMA CommitEditSound ==
    ASSUME Typed, Sound, NEW r \in Request, CommitEdit(r)
    PROVE  Sound'
<1>1. PICK items \in EditsOf(Base(r)), regraded \in BOOLEAN :
        LET changed == items # Base(r).items \/ regraded
            current == scenes[Target(r)]
        IN  WriteCas(r, [current EXCEPT
                !.items = items,
                !.status = IF changed /\ Base(r).status \in {"approved", "rejected"}
                           THEN "pending_review" ELSE @,
                !.acknowledged = ~changed /\ @,
                !.revision = Base(r).revision + IF changed THEN 1 ELSE 0])
  BY DEF CommitEdit
<1> DEFINE changed == items # Base(r).items \/ regraded
           current == scenes[Target(r)]
           status == IF changed /\ Base(r).status \in {"approved", "rejected"}
                     THEN "pending_review" ELSE current.status
           revision == Base(r).revision + IF changed THEN 1 ELSE 0
           updated == [current EXCEPT
               !.items = items,
               !.status = IF changed /\ Base(r).status \in {"approved", "rejected"}
                          THEN "pending_review" ELSE @,
               !.acknowledged = ~changed /\ @,
               !.revision = Base(r).revision + IF changed THEN 1 ELSE 0]
<1>2. /\ current \in Scene /\ Base(r) \in Scene /\ Target(r) \in SceneId
      /\ current.revision = Base(r).revision
  BY <1>1, UnracedType DEF CommitEdit, WriteCas, Writing, Unraced
<1>3. items \in Seq(Content) \ {<<>>}
  <2>1. PICK n \in Nat \ {0} : items \in [1..n -> Content]
    BY BoundsAssumption DEF EditsOf
  <2>2. QED
    BY <2>1
<1>4. /\ revision \in Nat
      /\ changed => current.revision < revision
      /\ ~changed => revision = current.revision
  BY <1>2 DEF Scene
<1>5. status \in Status
  BY <1>2 DEF Scene, Status
<1>6. /\ updated.items = items
      /\ updated.status = status
      /\ updated.acknowledged = (~changed /\ current.acknowledged)
      /\ updated.revision = revision
      /\ updated.stated = current.stated
      /\ updated.assembly = current.assembly
      /\ updated.mixed = current.mixed
  BY <1>2 DEF Scene
<1>7. updated \in Scene
  <2>1. (~changed /\ current.acknowledged) \in BOOLEAN
    OBVIOUS
  <2>2. QED
    BY <1>2, <1>3, <1>4, <1>5, <2>1 DEF Scene
<1>8. WriteCas(r, updated) /\ pc[r] \in Writing
  BY <1>1 DEF CommitEdit, Writing
<1>9. current # NoScene
  BY <1>2, NoSceneAssumption
<1> HIDE DEF updated, revision
<1>10. ASSUME SameReview(Base(r), current), ~current.mixed
       PROVE  /\ Precedes(current, updated)
              /\ updated.status = "approved" => MismatchSettled(updated)
  <2>1. CASE changed
    <3>1. status # "approved"
      BY <1>10, <2>1 DEF SameReview
    <3>2. QED
      BY <1>2, <1>4, <1>6, <2>1, <3>1 DEF Precedes, Scene
  <2>2. CASE ~changed
    <3>1. SameReview(current, updated)
      BY <1>2, <1>6, <1>10, <2>2 DEF SameReview, Scene
    <3>2. current.status = "approved" => MismatchSettled(current)
      BY <1>2, <1>9, <1>10 DEF Sound, ApprovalSound
    <3>3. QED
      BY <1>2, <1>4, <1>6, <2>2, <3>1, <3>2, SettledBySameReview
      DEF Precedes, SameReview, Scene
  <2>3. QED
    BY <2>1, <2>2
<1>11. QED
  BY <1>6, <1>7, <1>8, <1>10, WriteCasSound

\* What is approved is the scene the mismatch guard let through.
LEMMA CommitApproveSound ==
    ASSUME Typed, Sound, NEW r \in Request, CommitApprove(r)
    PROVE  Sound'
<1> DEFINE current == scenes[Target(r)]
           updated == [current EXCEPT
               !.status = "approved",
               !.approvedRevision = Base(r).revision + 1,
               !.revision = Base(r).revision + 1]
<1>1. WriteCas(r, updated) /\ pc[r] = "approve"
  BY DEF CommitApprove
<1>2. /\ current \in Scene /\ Base(r) \in Scene
      /\ current.revision = Base(r).revision
  BY <1>1, UnracedType DEF WriteCas, Writing, Unraced
<1>3. Base(r).revision + 1 \in Nat /\ current.revision < Base(r).revision + 1
  BY <1>2 DEF Scene
<1>4. updated \in Scene
  BY <1>2, <1>3 DEF Scene, Status
<1>5. /\ updated.items = current.items
      /\ updated.stated = current.stated
      /\ updated.acknowledged = current.acknowledged
      /\ updated.revision = Base(r).revision + 1
      /\ updated.assembly = current.assembly
      /\ updated.mixed = current.mixed
  BY <1>2 DEF Scene
<1> HIDE DEF updated
<1>6. ASSUME SameReview(Base(r), current)
      PROVE  Precedes(current, updated) /\ MismatchSettled(updated)
  <2>1. MismatchSettled(current)
    BY <1>1, <1>6, SettledBySameReview DEF Sound, ApprovingSettled
  <2>2. MismatchSettled(updated)
    BY <1>5, <2>1 DEF MismatchSettled, Mismatch
  <2>3. Precedes(current, updated)
    BY <1>2, <1>3, <1>5 DEF Precedes, Scene
  <2>4. QED
    BY <2>2, <2>3
<1>7. pc[r] \in Writing
  BY <1>1 DEF Writing
<1>8. QED
  BY <1>1, <1>4, <1>5, <1>6, <1>7, WriteCasSound

\* A rejected scene is not approved.
LEMMA CommitRejectSound ==
    ASSUME Typed, Sound, NEW r \in Request, CommitReject(r)
    PROVE  Sound'
<1> DEFINE current == scenes[Target(r)]
           updated == [current EXCEPT
               !.status = "rejected",
               !.revision = Base(r).revision + 1]
<1>1. WriteCas(r, updated) /\ pc[r] \in Writing
  BY DEF CommitReject, Writing
<1>2. /\ current \in Scene /\ Base(r) \in Scene
      /\ current.revision = Base(r).revision
  BY <1>1, UnracedType DEF WriteCas, Unraced
<1>3. Base(r).revision + 1 \in Nat /\ current.revision < Base(r).revision + 1
  BY <1>2 DEF Scene
<1>4. updated \in Scene
  BY <1>2, <1>3 DEF Scene, Status
<1>5. /\ updated.status = "rejected"
      /\ updated.revision = Base(r).revision + 1
      /\ updated.assembly = current.assembly
      /\ updated.mixed = current.mixed
  BY <1>2 DEF Scene
<1> HIDE DEF updated
<1>6. Precedes(current, updated)
  BY <1>2, <1>3, <1>5 DEF Precedes, Scene
<1>7. QED
  BY <1>1, <1>4, <1>5, <1>6, WriteCasSound

\* An acknowledgement settles the mismatch.
LEMMA CommitAcknowledgeSound ==
    ASSUME Typed, Sound, NEW r \in Request, CommitAcknowledge(r)
    PROVE  Sound'
<1> DEFINE current == scenes[Target(r)]
           updated == [current EXCEPT
               !.acknowledged = TRUE,
               !.revision = Base(r).revision + 1]
<1>1. WriteCas(r, updated) /\ pc[r] \in Writing
  BY DEF CommitAcknowledge, Writing
<1>2. /\ current \in Scene /\ Base(r) \in Scene
      /\ current.revision = Base(r).revision
  BY <1>1, UnracedType DEF WriteCas, Unraced
<1>3. Base(r).revision + 1 \in Nat /\ current.revision < Base(r).revision + 1
  BY <1>2 DEF Scene
<1>4. updated \in Scene
  BY <1>2, <1>3 DEF Scene
<1>5. /\ updated.acknowledged
      /\ updated.revision = Base(r).revision + 1
      /\ updated.assembly = current.assembly
      /\ updated.mixed = current.mixed
  BY <1>2 DEF Scene
<1> HIDE DEF updated
<1>6. Precedes(current, updated) /\ MismatchSettled(updated)
  BY <1>2, <1>3, <1>5 DEF Precedes, Scene, MismatchSettled
<1>7. QED
  BY <1>1, <1>4, <1>5, <1>6, WriteCasSound

-----------------------------------------------------------------------------
(* Approvals: the other writes *)

\* A newly assembled or combined scene under an id no request has seen.
LEMMA NewSceneEvolves ==
    ASSUME Typed, Sound, NEW id \in fresh, NEW s \in Scene,
           scenes' = [scenes EXCEPT ![id] = s], id \notin fresh',
           s.assembly = assemblies, assemblies' = assemblies, s.status # "approved"
    PROVE  Evolves(id)
<1>1. id \in SceneId /\ assemblies \in Nat
  BY DEF Typed, TypeOK
<1>2. scenes'[id] = s /\ s # NoScene
  BY <1>1, NoSceneAssumption DEF Typed, TypeOK, SceneMap
<1>3. \A r \in Request : seen[r][id] = NoScene
  BY <1>1 DEF Sound, Snapshots
<1>4. Renewed(id)
  BY <1>1, <1>2, <1>3 DEF Renewed
<1>5. QED
  BY <1>2, <1>4 DEF Evolves

\* A retried scene belongs to an assembly nobody has seen.
LEMMA CommitRetrySound ==
    ASSUME Typed, Sound, NEW r \in Request, CommitRetry(r)
    PROVE  Sound'
<1> DEFINE id == Target(r)
<1>1. /\ picks[r][1][1] \in Candidate /\ picks[r][1][2] \in Template
      /\ id \in SceneId /\ id \notin fresh
      /\ assemblies \in Nat
  BY DEF Typed, TypeOK, Held, CommitRetry, Target, Sound, Drawn
<1>2. PICK s \in Assembled(picks[r][1][1], picks[r][1][2], assemblies + 1) :
         scenes' = [scenes EXCEPT ![id] = s]
  BY DEF CommitRetry
<1>3. s \in Scene /\ s.assembly = assemblies + 1 /\ s.status # "approved"
  BY <1>1, AssembledType
<1>4. scenes'[id] = s /\ s # NoScene
  BY <1>1, <1>2, <1>3, NoSceneAssumption DEF Typed, TypeOK, SceneMap
<1>5. fresh' = fresh /\ assemblies' = assemblies + 1 /\ Finish(r)
  BY DEF CommitRetry
<1> HIDE DEF id
<1>6. \A x \in Request : seen[x][id] # NoScene => seen[x][id].assembly # s.assembly
  <2>1. ASSUME NEW x \in Request, seen[x][id] # NoScene
        PROVE  seen[x][id].assembly <= assemblies /\ seen[x][id].assembly \in Nat
    BY <1>1, <2>1 DEF Sound, Snapshots, Typed, TypeOK, SceneMap, Scene
  <2>2. QED
    BY <1>1, <1>3, <2>1
<1>7. Renewed(id)
  BY <1>1, <1>3, <1>4, <1>5, <1>6 DEF Renewed
<1>8. Evolves(id)
  BY <1>1, <1>4, <1>5, <1>7 DEF Evolves
<1>9. Snaps
  BY <1>5, FinishSnaps
<1>10. Typed' /\ assemblies <= assemblies'
  BY <1>1, <1>5, CommitRetryTyped
<1>11. QED
  BY <1>1, <1>2, <1>5, <1>8, <1>9, <1>10, WrittenSound

\* A combined scene is new and awaits review.
LEMMA CommitChainSound ==
    ASSUME Typed, Sound, NEW r \in Request, CommitChain(r)
    PROVE  Sound'
<1>0. PICK new \in fresh : \E sources, items :
        /\ scenes' = [scenes EXCEPT ![new] =
               NewScene(sources, items, NoAnswer, "pending_review", assemblies)]
        /\ fresh' = fresh \ {new}
  BY DEF CommitChain
<1>1. PICK sources, items :
        /\ scenes' = [scenes EXCEPT ![new] =
               NewScene(sources, items, NoAnswer, "pending_review", assemblies)]
        /\ fresh' = fresh \ {new}
  BY <1>0
<1> DEFINE s == NewScene(sources, items, NoAnswer, "pending_review", assemblies)
<1>2. Typed'
  BY CommitChainTyped
<1>3. new \in SceneId /\ assemblies \in Nat
  BY DEF Typed, TypeOK
<1>4. s.assembly = assemblies /\ s.status = "pending_review"
  BY DEF NewScene
<1>5. scenes'[new] = s
  BY <1>1, <1>3 DEF Typed, TypeOK, SceneMap
<1> HIDE DEF s
<1>6. Finish(r) /\ assemblies' = assemblies
  BY DEF CommitChain
<1>7. Snaps
  BY <1>1, <1>6, FinishSnaps
<1>8. Evolves(new)
  <2>1. CASE s = NoScene
    BY <1>5, <2>1 DEF Evolves
  <2>2. CASE s # NoScene
    <3>1. s \in Scene
      BY <1>2, <1>3, <1>5, <2>2 DEF Typed, TypeOK, SceneMap
    <3>2. scenes' = [scenes EXCEPT ![new] = s]
      BY <1>1 DEF s
    <3>3. new \notin fresh'
      BY <1>1
    <3>4. s.status # "approved"
      BY <1>4
    <3>5. QED
      BY <1>4, <1>6, <3>1, <3>2, <3>3, <3>4, NewSceneEvolves
  <2>3. QED
    BY <2>1, <2>2
<1>9. scenes' = [scenes EXCEPT ![new] = s] /\ fresh' \subseteq fresh
      /\ assemblies <= assemblies'
  BY <1>1, <1>3, <1>6 DEF s
<1>10. QED
  BY <1>2, <1>3, <1>7, <1>8, <1>9, WrittenSound

\* A scene of a new storyboard is new and not approved.
LEMMA StoreSceneSound ==
    ASSUME Typed, Sound, NEW r \in Request, StoreScene(r)
    PROVE  Sound'
<1>1. picks[r][1][1] \in Candidate /\ picks[r][1][2] \in Template /\ assemblies \in Nat
  BY DEF Typed, TypeOK, StoreScene
<1>2. PICK id \in fresh, s \in Assembled(picks[r][1][1], picks[r][1][2], assemblies) :
        /\ scenes' = [scenes EXCEPT ![id] = s]
        /\ ids' = [ids EXCEPT ![r] = <<id>>]
        /\ fresh' = fresh \ {id}
  BY DEF StoreScene
<1>3. s \in Scene /\ s.assembly = assemblies /\ s.status # "approved" /\ id \in SceneId
  BY <1>1, AssembledType DEF Typed, TypeOK
<1>4. /\ pc' = [pc EXCEPT ![r] = "append"] /\ seen' = seen /\ assemblies' = assemblies
      /\ \A q \in Request : q # r => ids'[q] = ids[q]
  BY <1>2 DEF Typed, TypeOK, StoreScene, Step
<1>5. Evolves(id)
  BY <1>2, <1>3, <1>4, NewSceneEvolves
<1>6. Snaps
  BY <1>2, <1>4, StepSnaps
<1>7. Typed' /\ assemblies <= assemblies' /\ fresh' \subseteq fresh
  BY <1>1, <1>2, <1>4, StoreSceneTyped
<1>8. QED
  BY <1>2, <1>3, <1>5, <1>6, <1>7, WrittenSound

\* Publication changes what a scene's clip is, not what was reviewed.
LEMMA PublishSound ==
    ASSUME Typed, Sound, NEW r \in Request, Publish(r)
    PROVE  Sound'
<1> DEFINE id == Target(r)
           s == scenes[id]
           t == [s EXCEPT !.rendered = seen[r][id].items]
<1>1. id \in SceneId
  BY DrawingType DEF Publish
<1>2. s \in Scene /\ s # NoScene
  BY <1>1 DEF Typed, TypeOK, SceneMap, Publish, StillCurrent
<1>3. scenes' = [scenes EXCEPT ![id] = t]
  BY DEF Publish
<1>4. /\ pc' = [pc EXCEPT ![r] = "batch"] /\ seen' = seen
      /\ ids' = [ids EXCEPT ![r] = <<>>]
      /\ fresh' = fresh /\ assemblies' = assemblies
  BY DEF Publish, NextInBatch
<1>5. /\ t.items = s.items /\ t.stated = s.stated /\ t.acknowledged = s.acknowledged
      /\ t.status = s.status /\ t.revision = s.revision
      /\ t.assembly = s.assembly /\ t.mixed = s.mixed
  BY <1>2 DEF Scene
<1>6. Typed'
  BY PublishTyped
<1>7. scenes'[id] = t
  BY <1>1, <1>3 DEF Typed, TypeOK, SceneMap
<1>8. t # NoScene
  <2>1. seen[r][id].items \in Seq(Content)
    BY DrawingType DEF Publish, Base, Scene
  <2>2. t \in Scene
    BY <1>2, <2>1 DEF Scene
  <2>3. QED
    BY <2>2, NoSceneAssumption
<1>9. id \notin fresh
  BY <1>1, <1>2 DEF Sound, Drawn
<1>10. s.status = "approved" /\ ~s.mixed => MismatchSettled(s)
  BY <1>1, <1>2 DEF Sound, ApprovalSound
<1> HIDE DEF id, s, t
<1>11. Updated(s, t)
  BY <1>2, <1>5, <1>10, SettledBySameReview DEF Updated, Precedes, SameReview, Scene
<1>12. Evolves(id)
  BY <1>2, <1>4, <1>7, <1>8, <1>9, <1>11 DEF Evolves, s
<1>13. \A q \in Request : q # r => ids'[q] = ids[q]
  BY <1>4 DEF Typed, TypeOK
<1>14. Snaps
  BY <1>4, <1>13, StepSnaps
<1>15. assemblies <= assemblies' /\ fresh' \subseteq fresh
  BY <1>4 DEF Typed, TypeOK
<1>16. QED
  BY <1>1, <1>3, <1>6, <1>12, <1>14, <1>15, WrittenSound

\* Ungrouping removes a scene.
LEMMA UngroupSound ==
    ASSUME Typed, Sound, NEW id \in SceneId, Ungroup(id)
    PROVE  Sound'
<1>1. /\ scenes' = [scenes EXCEPT ![id] = NoScene]
      /\ pc' = pc /\ seen' = seen /\ ids' = ids
      /\ fresh' = fresh /\ assemblies' = assemblies
  BY DEF Ungroup, local
<1>2. Evolves(id)
  BY <1>1 DEF Evolves, Typed, TypeOK, SceneMap
<1>3. Snaps
  BY <1>1 DEF Snaps, Sound, ApprovingSettled, Drawn, Base, Target
<1>4. Typed'
  BY UngroupTyped
<1>5. assemblies <= assemblies'
  BY <1>1 DEF Typed, TypeOK
<1>6. QED
  BY <1>1, <1>2, <1>3, <1>4, <1>5, WrittenSound

\* A build starts by removing every scene.
LEMMA ClearScenesSound ==
    ASSUME Typed, Sound, NEW r \in Request, ClearScenes(r)
    PROVE  Sound'
<1>1. /\ scenes' = Nothing /\ pc' = [pc EXCEPT ![r] = "clear_order"]
      /\ seen' = seen /\ ids' = ids /\ fresh' = fresh /\ assemblies' = assemblies
  BY DEF ClearScenes, Step
<1>2. \A id \in SceneId : Evolves(id)
  BY <1>1 DEF Evolves, Nothing
<1>3. Snaps
  BY <1>1, StepSnaps
<1>4. Typed'
  BY ClearsTyped
<1>5. assemblies <= assemblies'
  BY <1>1 DEF Typed, TypeOK
<1>6. QED
  BY <1>1, <1>2, <1>3, <1>4, <1>5, EvolvesSound

-----------------------------------------------------------------------------
(* Approvals: the specification *)

\* Nothing is stored and nothing approved before the first request.
LEMMA InitSound == Init => Sound
BY DEF Init, Sound, Snapshots, Drawn, ApprovingSettled, ApprovalSound, Nothing

\* A request that begins reads scenes as they are.
LEMMA BeginSound ==
    ASSUME Typed, Sound, NEW r \in Request, Begin(r)
    PROVE  Sound'
<1>1. Typed' /\ scenes' = scenes /\ fresh' = fresh /\ assemblies' = assemblies
  <2>1. Typed'
    BY BeginTyped
  <2>2. scenes' = scenes /\ fresh' = fresh /\ assemblies' = assemblies
    BY DEF Begin, BeginEdit, BeginApprove, BeginReject, BeginAcknowledge, BeginWrite,
           BeginRetry, BeginChain, ClaimBatch, BeginBuild, session
  <2>3. QED
    BY <2>1, <2>2
<1>2. ASSUME NEW id \in SceneId, NEW p \in Writing, BeginWrite(r, p, id),
             p = "approve" => MismatchSettled(scenes[id])
      PROVE  Snaps
  <2>1. <<id>> \in Seq(SceneId) /\ <<id>>[1] = id /\ {id} \in SUBSET SceneId
    OBVIOUS
  <2>2. QED
    BY <1>1, <1>2, <2>1, HoldSnaps DEF BeginWrite
<1>3. ASSUME NEW id \in SceneId,
             \/ BeginEdit(r, id) \/ BeginApprove(r, id)
             \/ BeginReject(r, id) \/ BeginAcknowledge(r, id)
      PROVE  Snaps
  BY <1>2, <1>3 DEF BeginEdit, BeginApprove, BeginReject, BeginAcknowledge, Writing
<1>4. ASSUME NEW id \in SceneId, BeginRetry(r, id) PROVE Snaps
  <2>1. /\ pc'[r] = "retry" /\ ids'[r] = <<id>> /\ seen' = seen
        /\ \A q \in Request : q # r => pc'[q] = pc[q] /\ ids'[q] = ids[q]
    BY <1>4 DEF Typed, TypeOK, BeginRetry
  <2>2. id \notin fresh
    BY <1>4 DEF BeginRetry, Active, Sound, Drawn, Retryable
  <2>3. Target(r)' = id
    BY <2>1 DEF Target
  <2>4. QED
    BY <1>1, <2>1, <2>2, <2>3, OneRequestSnaps
<1>5. ASSUME NEW n \in 2..MaxItems, NEW q \in [1..n -> OnBoard], BeginChain(r, q)
      PROVE  Snaps
  <2>1. q \in Seq(SceneId) /\ Range(q) \in SUBSET SceneId
    BY BoardType DEF Typed, Range
  <2>2. QED
    BY <1>1, <1>5, <2>1, HoldSnaps DEF BeginChain
<1>6. ASSUME ClaimBatch(r) PROVE Snaps
  <2>1. /\ pc'[r] = "batch" /\ ids' = ids
        /\ \A id \in SceneId : seen'[r][id] \in {scenes[id], NoScene}
        /\ \A q \in Request : q # r => pc'[q] = pc[q] /\ seen'[q] = seen[q]
    BY <1>6 DEF Typed, TypeOK, ClaimBatch
  <2>2. QED
    BY <1>1, <2>1, OneRequestSnaps
<1>7. ASSUME BeginBuild(r) PROVE Snaps
  <2>1. pc' = [pc EXCEPT ![r] = "clear_scenes"] /\ seen' = seen /\ ids' = ids
    BY <1>7 DEF BeginBuild
  <2>2. QED
    BY <1>1, <2>1, StepSnaps
<1>8. Snaps
  BY <1>3, <1>4, <1>5, <1>6, <1>7 DEF Begin
<1>9. QED
  BY <1>1, <1>8, UnwrittenSound

\* A request that goes on without writing a scene keeps its snapshots.
LEMMA ReadingSound ==
    ASSUME Typed, Sound, NEW r \in Request,
           \/ Refuse(r) \/ EndBuild(r) \/ ReleaseBatch(r) \/ Discard(r)
           \/ \E id \in SceneId :
                 ServeCached(r, id) \/ StartRender(r, id) \/ SkipScene(r, id)
           \/ ClearOrder(r) \/ ClearRequested(r) \/ ClearMembers(r)
           \/ AppendScene(r) \/ RecordRequested(r)
    PROVE  Sound'
<1>1. Typed'
  BY ProceedTyped DEF Proceed
<1>2. scenes' = scenes /\ fresh' = fresh /\ assemblies' = assemblies
  BY DEF Refuse, EndBuild, ReleaseBatch, Discard, ServeCached, StartRender, SkipScene,
         ClearOrder, ClearRequested, ClearMembers, AppendScene, RecordRequested,
         Step, session
<1>3. ASSUME Refuse(r) \/ EndBuild(r) \/ ReleaseBatch(r) PROVE Snaps
  BY <1>2, <1>3, FinishSnaps DEF Refuse, EndBuild, ReleaseBatch
<1>4. ASSUME \/ Discard(r)
             \/ \E id \in SceneId :
                   ServeCached(r, id) \/ StartRender(r, id) \/ SkipScene(r, id)
      PROVE  Snaps
  <2>0. PICK p \in {"batch", "drawing"} :
            \E q : pc' = [pc EXCEPT ![r] = p] /\ ids' = [ids EXCEPT ![r] = q] /\ seen' = seen
    BY <1>4 DEF Discard, ServeCached, StartRender, SkipScene, NextInBatch
  <2>1. PICK q : pc' = [pc EXCEPT ![r] = p] /\ ids' = [ids EXCEPT ![r] = q] /\ seen' = seen
    BY <2>0
  <2>2. \A x \in Request : x # r => ids'[x] = ids[x]
    BY <2>1 DEF Typed, TypeOK
  <2>3. QED
    BY <1>2, <2>1, <2>2, StepSnaps
<1>5. ASSUME \/ ClearOrder(r) \/ ClearRequested(r) \/ ClearMembers(r)
             \/ AppendScene(r) \/ RecordRequested(r)
      PROVE  Snaps
  <2>1. PICK p \in {"clear_requested", "clear_members", "build", "request"} :
            pc' = [pc EXCEPT ![r] = p] /\ seen' = seen
    BY <1>5 DEF ClearOrder, ClearRequested, ClearMembers, AppendScene, RecordRequested, Step
  <2>2. \A x \in Request : x # r => ids'[x] = ids[x]
    BY <1>5 DEF ClearOrder, ClearRequested, ClearMembers, AppendScene, RecordRequested,
                Typed, TypeOK
  <2>3. QED
    BY <1>2, <2>1, <2>2, StepSnaps
<1>6. Snaps
  BY <1>3, <1>4, <1>5
<1>7. QED
  BY <1>1, <1>2, <1>6, UnwrittenSound

\* Every step keeps approvals sound.
LEMMA NextSound == Typed /\ Sound /\ [Next]_vars => Sound'
<1> SUFFICES ASSUME Typed, Sound, [Next]_vars PROVE Sound'
  OBVIOUS
<1>1. ASSUME NEW r \in Request, Proceed(r) PROVE Sound'
  <2>1. CASE CommitEdit(r) \/ CommitApprove(r) \/ CommitReject(r) \/ CommitAcknowledge(r)
    BY <2>1, CommitEditSound, CommitApproveSound, CommitRejectSound, CommitAcknowledgeSound
  <2>2. CASE CommitRetry(r) \/ CommitChain(r) \/ StoreScene(r) \/ Publish(r) \/ ClearScenes(r)
    BY <2>2, CommitRetrySound, CommitChainSound, StoreSceneSound, PublishSound, ClearScenesSound
  <2>3. QED
    BY <1>1, <2>1, <2>2, ReadingSound DEF Proceed
<1>2. CASE UNCHANGED vars
  BY <1>2 DEF vars, session, local, Sound, Snapshots, Drawn, ApprovingSettled,
              ApprovalSound, Precedes, Base, Target
<1>3. QED
  BY <1>1, <1>2, BeginSound, UngroupSound DEF Next

\* An approved scene has no unacknowledged mismatch, unless a request that
\* began before a retry wrote to what the retry stored.
THEOREM ApprovalsSound == Spec => []ApprovalSound
<1>1. Sound => ApprovalSound
  BY DEF Sound
<1>2. QED
  BY <1>1, InitTyped, NextTyped, InitSound, NextSound, PTL DEF Spec

-----------------------------------------------------------------------------
(* Clips *)

\* The cache record of a scene follows the scene: whoever writes a clip or a
\* record writes both, and every other write keeps or drops the record.
RecordKept ==
    /\ clip' = clip
    /\ \A id \in SceneId :
         \/ scenes'[id] = NoScene
         \/ scenes'[id].rendered = <<>>
         \/ scenes[id] # NoScene /\ scenes'[id].rendered = scenes[id].rendered

\* A step that neither publishes nor registers keeps the cache honest.
LEMMA RecordKeptHonest ==
    ASSUME CacheHonest, RecordKept
    PROVE  CacheHonest'
BY DEF CacheHonest, RecordKept

\* A write to an existing scene keeps its record.
LEMMA WriteCasRecord ==
    ASSUME Typed, NEW r \in Request, pc[r] \in Writing,
           NEW updated, WriteCas(r, updated), "rendered" \in DOMAIN updated,
           updated.rendered = scenes[Target(r)].rendered
    PROVE  RecordKept
<1>1. /\ Target(r) \in SceneId /\ scenes[Target(r)] # NoScene
  BY UnracedType DEF WriteCas, Unraced, Active
<1> DEFINE stored == [updated EXCEPT !.mixed = @ \/ Base(r).assembly # updated.assembly]
<1>2. stored.rendered = updated.rendered
  OBVIOUS
<1>3. scenes' = [scenes EXCEPT ![Target(r)] = stored] /\ clip' = clip
  BY DEF WriteCas
<1> HIDE DEF stored
<1>4. QED
  BY <1>1, <1>2, <1>3 DEF RecordKept, Typed, TypeOK, SceneMap

\* So do the four review endpoints.
LEMMA ReviewKeepsRecord ==
    ASSUME Typed, NEW r \in Request,
           CommitEdit(r) \/ CommitApprove(r) \/ CommitReject(r) \/ CommitAcknowledge(r)
    PROVE  RecordKept
<1>1. PICK updated :
        /\ WriteCas(r, updated)
        /\ scenes[Target(r)] \in Scene =>
              "rendered" \in DOMAIN updated /\ updated.rendered = scenes[Target(r)].rendered
  <2>1. CASE CommitEdit(r)
    <3>1. PICK items \in EditsOf(Base(r)), regraded \in BOOLEAN :
            LET changed == items # Base(r).items \/ regraded
                current == scenes[Target(r)]
            IN  WriteCas(r, [current EXCEPT
                    !.items = items,
                    !.status = IF changed /\ Base(r).status \in {"approved", "rejected"}
                               THEN "pending_review" ELSE @,
                    !.acknowledged = ~changed /\ @,
                    !.revision = Base(r).revision + IF changed THEN 1 ELSE 0])
      BY <2>1 DEF CommitEdit
    <3> DEFINE changed == items # Base(r).items \/ regraded
               updated == [scenes[Target(r)] EXCEPT
                   !.items = items,
                   !.status = IF changed /\ Base(r).status \in {"approved", "rejected"}
                              THEN "pending_review" ELSE @,
                   !.acknowledged = ~changed /\ @,
                   !.revision = Base(r).revision + IF changed THEN 1 ELSE 0]
    <3>2. WriteCas(r, updated)
      BY <3>1
    <3>3. scenes[Target(r)] \in Scene =>
            "rendered" \in DOMAIN updated /\ updated.rendered = scenes[Target(r)].rendered
      BY DEF Scene
    <3>4. QED
      BY <3>2, <3>3
  <2>2. CASE CommitApprove(r)
    <3> DEFINE updated == [scenes[Target(r)] EXCEPT
                   !.status = "approved",
                   !.approvedRevision = Base(r).revision + 1,
                   !.revision = Base(r).revision + 1]
    <3>1. WriteCas(r, updated)
      BY <2>2 DEF CommitApprove
    <3>2. scenes[Target(r)] \in Scene =>
            "rendered" \in DOMAIN updated /\ updated.rendered = scenes[Target(r)].rendered
      BY DEF Scene
    <3>3. QED
      BY <3>1, <3>2
  <2>3. CASE CommitReject(r)
    <3> DEFINE updated == [scenes[Target(r)] EXCEPT
                   !.status = "rejected",
                   !.revision = Base(r).revision + 1]
    <3>1. WriteCas(r, updated)
      BY <2>3 DEF CommitReject
    <3>2. scenes[Target(r)] \in Scene =>
            "rendered" \in DOMAIN updated /\ updated.rendered = scenes[Target(r)].rendered
      BY DEF Scene
    <3>3. QED
      BY <3>1, <3>2
  <2>4. CASE CommitAcknowledge(r)
    <3> DEFINE updated == [scenes[Target(r)] EXCEPT
                   !.acknowledged = TRUE,
                   !.revision = Base(r).revision + 1]
    <3>1. WriteCas(r, updated)
      BY <2>4 DEF CommitAcknowledge
    <3>2. scenes[Target(r)] \in Scene =>
            "rendered" \in DOMAIN updated /\ updated.rendered = scenes[Target(r)].rendered
      BY DEF Scene
    <3>3. QED
      BY <3>1, <3>2
  <2>5. QED
    BY <2>1, <2>2, <2>3, <2>4
<1>2. pc[r] \in Writing
  BY DEF CommitEdit, CommitApprove, CommitReject, CommitAcknowledge, Writing
<1>3. scenes[Target(r)] \in Scene
  BY <1>1, <1>2, UnracedType DEF WriteCas
<1>4. QED
  BY <1>1, <1>2, <1>3, WriteCasRecord

\* What a retry and a build store has not been rendered yet.
LEMMA AssembledUnrendered ==
    ASSUME NEW c, NEW t, NEW n, NEW s \in Assembled(c, t, n)
    PROVE  s.rendered = <<>>
<1>1. PICK p, a, st : s = NewScene(<<c>>, <<p>>, a, st, n)
  <2>1. \/ \E p \in {q \in Content : TemplateOf[q] = t},
              a \in {NoAnswer} \union (IF t \in AnswerStating THEN Answer ELSE {}) :
              s = NewScene(<<c>>, <<p>>, a, "pending_review", n)
        \/ \E p \in {q \in Content : TemplateOf[q] = TextCard /\ t # TextCard} :
              s = NewScene(<<c>>, <<p>>, NoAnswer, "fallback", n)
    BY DEF Assembled
  <2>2. QED
    BY <2>1
<1>2. QED
  BY <1>1 DEF NewScene

\* A scene stored with an empty record needs no clip.
LEMMA StoredUnrendered ==
    ASSUME Typed, NEW id \in SceneId, NEW s, s.rendered = <<>> \/ s = NoScene,
           scenes' = [scenes EXCEPT ![id] = s], clip' = clip
    PROVE  RecordKept
BY DEF Typed, TypeOK, SceneMap, RecordKept

\* Every step keeps the cache record of every scene honest.
LEMMA NextHonest == Typed /\ CacheHonest /\ [Next]_vars => CacheHonest'
<1> SUFFICES ASSUME Typed, CacheHonest, [Next]_vars PROVE CacheHonest'
  OBVIOUS
<1>1. ASSUME NEW r \in Request, NEW id \in SceneId, ServeCached(r, id)
      PROVE  CacheHonest'
  <2>1. scenes' = scenes /\ (clip' = clip \/ clip' = [clip EXCEPT ![id] = scenes[id].rendered])
    BY <1>1 DEF ServeCached, Shows
  <2>2. QED
    BY <2>1 DEF CacheHonest, Typed, TypeOK
<1>2. ASSUME NEW r \in Request, Publish(r) PROVE CacheHonest'
  <2>1. Target(r) \in SceneId
    BY <1>2, DrawingType DEF Publish
  <2>2. scenes[Target(r)] \in Scene
    BY <1>2, <2>1 DEF Typed, TypeOK, SceneMap, Publish, StillCurrent
  <2>3. /\ scenes' = [scenes EXCEPT ![Target(r)] =
                [scenes[Target(r)] EXCEPT !.rendered = seen[r][Target(r)].items]]
        /\ clip' = [clip EXCEPT ![Target(r)] = seen[r][Target(r)].items]
    BY <1>2 DEF Publish, Shows
  <2>4. scenes'[Target(r)].rendered = seen[r][Target(r)].items
    BY <2>1, <2>2, <2>3 DEF Typed, TypeOK, SceneMap, Scene
  <2>5. QED
    BY <2>1, <2>3, <2>4 DEF CacheHonest, Typed, TypeOK, SceneMap
<1>3. ASSUME NEW r \in Request,
             CommitRetry(r) \/ CommitChain(r) \/ StoreScene(r) \/ ClearScenes(r)
      PROVE  RecordKept
  <2>1. CASE CommitRetry(r)
    <3>1. PICK s \in Assembled(picks[r][1][1], picks[r][1][2], assemblies + 1) :
             scenes' = [scenes EXCEPT ![Target(r)] = s]
      BY <2>1 DEF CommitRetry
    <3>2. Target(r) \in SceneId /\ clip' = clip
      BY <2>1 DEF Typed, TypeOK, Held, CommitRetry, Target
    <3>3. QED
      BY <3>1, <3>2, AssembledUnrendered, StoredUnrendered
  <2>2. CASE CommitChain(r)
    <3>0. PICK new \in fresh : \E sources, items :
            scenes' = [scenes EXCEPT ![new] =
                NewScene(sources, items, NoAnswer, "pending_review", assemblies)]
      BY <2>2 DEF CommitChain
    <3>1. PICK sources, items :
            scenes' = [scenes EXCEPT ![new] =
                NewScene(sources, items, NoAnswer, "pending_review", assemblies)]
      BY <3>0
    <3> DEFINE s == NewScene(sources, items, NoAnswer, "pending_review", assemblies)
    <3>2. s.rendered = <<>>
      BY DEF NewScene
    <3>3. new \in SceneId /\ clip' = clip
      BY <2>2 DEF CommitChain, Typed, TypeOK
    <3> HIDE DEF s
    <3>4. QED
      BY <3>1, <3>2, <3>3, StoredUnrendered DEF s
  <2>3. CASE StoreScene(r)
    <3>1. PICK id \in fresh, s \in Assembled(picks[r][1][1], picks[r][1][2], assemblies) :
            scenes' = [scenes EXCEPT ![id] = s]
      BY <2>3 DEF StoreScene
    <3>2. id \in SceneId /\ clip' = clip
      BY <2>3 DEF StoreScene, Step, Typed, TypeOK
    <3>3. QED
      BY <3>1, <3>2, AssembledUnrendered, StoredUnrendered
  <2>4. CASE ClearScenes(r)
    BY <2>4 DEF ClearScenes, Step, RecordKept, Nothing
  <2>5. QED
    BY <1>3, <2>1, <2>2, <2>3, <2>4
<1>4. ASSUME NEW r \in Request,
             \/ Begin(r)
             \/ Refuse(r) \/ EndBuild(r) \/ ReleaseBatch(r) \/ Discard(r)
             \/ \E id \in SceneId : StartRender(r, id) \/ SkipScene(r, id)
             \/ ClearOrder(r) \/ ClearRequested(r) \/ ClearMembers(r)
             \/ AppendScene(r) \/ RecordRequested(r)
      PROVE  CacheHonest'
  <2>1. scenes' = scenes /\ clip' = clip
    BY <1>4 DEF Begin, BeginEdit, BeginApprove, BeginReject, BeginAcknowledge, BeginWrite,
           BeginRetry, BeginChain, ClaimBatch, BeginBuild, session,
           Refuse, EndBuild, ReleaseBatch, Discard, StartRender, SkipScene,
           ClearOrder, ClearRequested, ClearMembers, AppendScene, RecordRequested, Step
  <2>2. QED
    BY <2>1 DEF CacheHonest
<1>5. ASSUME NEW r \in Request, Proceed(r) PROVE CacheHonest'
  BY <1>1, <1>2, <1>3, <1>4, <1>5, ReviewKeepsRecord, RecordKeptHonest DEF Proceed
<1>6. ASSUME NEW id \in SceneId, Ungroup(id) PROVE CacheHonest'
  <2>1. RecordKept
    BY <1>6, StoredUnrendered DEF Ungroup
  <2>2. QED
    BY <2>1, RecordKeptHonest
<1>7. CASE UNCHANGED vars
  BY <1>7 DEF vars, session, CacheHonest
<1>8. QED
  BY <1>4, <1>5, <1>6, <1>7 DEF Next

\* The clip kept for a scene always shows the params its record names.
THEOREM CacheHonesty == Spec => []CacheHonest
<1>1. Init => CacheHonest
  BY DEF Init, CacheHonest, Nothing
<1>2. QED
  BY <1>1, InitTyped, NextTyped, NextHonest, PTL DEF Spec

\* A render that is still current shows the scene as it is.
LEMMA CurrentItems ==
    ASSUME Typed, Sound, NEW r \in Request, NEW id \in SceneId, StillCurrent(r, id),
           seen[r][id] # NoScene, ~scenes[id].mixed,
           scenes[id].assembly = seen[r][id].assembly
    PROVE  scenes[id].items = seen[r][id].items /\ MismatchSettled(scenes[id])
<1>1. Precedes(seen[r][id], scenes[id])
  BY DEF Sound, Snapshots, StillCurrent
<1>2. QED
  BY <1>1 DEF Precedes, SameReview, StillCurrent, RenderReady, Sound, ApprovalSound

\* Whatever is handed to the client for a scene shows what is approved.
LEMMA ServedSafe ==
    ASSUME Typed, Sound, CacheHonest, NEW r \in Request, NEW id \in SceneId,
           ServeCached(r, id) \/ (Publish(r) /\ id = Target(r)),
           scenes[id].assembly = seen[r][id].assembly, ~scenes[id].mixed
    PROVE  /\ clip'[id] = scenes[id].items
           /\ scenes'[id].status = "approved"
           /\ MismatchSettled(scenes'[id])
<1>1. CASE ServeCached(r, id)
  <2>1. StillCurrent(r, id) /\ scenes' = scenes /\ scenes[id].rendered = seen[r][id].items
        /\ (clip' = clip \/ clip' = [clip EXCEPT ![id] = scenes[id].rendered])
    BY <1>1 DEF ServeCached, Shows
  <2>2. seen[r][id] # NoScene
    BY <1>1 DEF ServeCached, Typed, Held, Batch
  <2>3. scenes[id].items = seen[r][id].items /\ MismatchSettled(scenes[id])
    BY <2>1, <2>2, CurrentItems
  <2>4. scenes[id] \in Scene
    BY <2>1 DEF StillCurrent, Typed, TypeOK, SceneMap
  <2>5. scenes[id].rendered # <<>>
    BY <2>1, <2>3, <2>4 DEF Scene
  <2>6. clip[id] = scenes[id].rendered
    BY <2>1, <2>5 DEF CacheHonest, StillCurrent
  <2>7. clip'[id] = scenes[id].items
    BY <2>1, <2>3, <2>6 DEF Typed, TypeOK
  <2>8. QED
    BY <2>1, <2>3, <2>7 DEF StillCurrent, RenderReady
<1>2. CASE Publish(r) /\ id = Target(r)
  <2>1. /\ StillCurrent(r, id)
        /\ clip' = [clip EXCEPT ![id] = seen[r][id].items]
        /\ scenes' = [scenes EXCEPT ![id] = [scenes[id] EXCEPT !.rendered = seen[r][id].items]]
    BY <1>2 DEF Publish, Shows
  <2>2. seen[r][id] # NoScene
    BY <1>2 DEF Publish, Typed, Held, Base
  <2>3. scenes[id].items = seen[r][id].items /\ MismatchSettled(scenes[id])
    BY <2>1, <2>2, CurrentItems
  <2>4. scenes[id] \in Scene
    BY <2>1 DEF StillCurrent, Typed, TypeOK, SceneMap
  <2>5. SameReview(scenes[id], scenes'[id])
    BY <2>1, <2>4 DEF SameReview, Scene, Typed, TypeOK, SceneMap
  <2>6. MismatchSettled(scenes'[id]) /\ scenes'[id].status = "approved"
    BY <2>1, <2>3, <2>5, SettledBySameReview DEF SameReview, StillCurrent, RenderReady
  <2>7. clip'[id] = scenes[id].items
    BY <2>1, <2>3 DEF Typed, TypeOK
  <2>8. QED
    BY <2>6, <2>7
<1>3. QED
  BY <1>1, <1>2

\* A clip handed to the client, fresh or cached, shows what is approved then.
THEOREM ServedClipsApproved == Spec => ServedClipApproved
<1> DEFINE Served ==
        \A r \in Request, id \in SceneId :
         (/\ ServeCached(r, id) \/ (Publish(r) /\ id = Target(r))
          /\ scenes[id].assembly = seen[r][id].assembly
          /\ ~scenes[id].mixed)
         => /\ clip'[id] = scenes[id].items
            /\ scenes'[id].status = "approved"
            /\ MismatchSettled(scenes'[id])
<1>1. Typed /\ Sound /\ CacheHonest => [Served]_vars
  BY ServedSafe
<1>2. Init => CacheHonest
  BY DEF Init, CacheHonest, Nothing
<1>3. ServedClipApproved <=> [][Served]_vars
  BY DEF ServedClipApproved
<1>4. QED
  BY <1>1, <1>2, <1>3, InitTyped, NextTyped, InitSound, NextSound, NextHonest, PTL DEF Spec

-----------------------------------------------------------------------------
(* The board.  These theorems are about one build at a time (OneBuild): two  *)
(* builds of a session fill session.scenes and session.scene_order without   *)
(* the lock, and the one clears what the other has stored and not yet put on *)
(* the board.                                                                *)

\* One client builds at a time.
OneBuild == \A r1, r2 \in Builder : r1 = r2

Building == {"clear_scenes", "clear_order", "clear_requested", "clear_members",
             "build", "append", "request"}

\* Between the first clear and the second the board lists scenes that are
\* gone, and until the last one the combinations are those of the old board.
Gone == {"clear_order"}
Stale == {"clear_order", "clear_requested", "clear_members"}

\* A uuid not yet drawn is nowhere.
FreshUnused ==
    \A id \in fresh :
        /\ id \notin OnBoard
        /\ members[id] = <<>>
        /\ \A c \in SceneId : id \notin Range(members[c])

\* What has members is a chained scene, in every phase of a build.
MembersChained ==
    \A c \in SceneId : scenes[c] # NoScene /\ members[c] # <<>> => IsChained(scenes[c])

\* The id a build has stored and not yet put on the board.
Waiting(id) ==
    /\ scenes[id] # NoScene
    /\ id \notin OnBoard
    /\ id \notin fresh
    /\ members[id] = <<>>
    /\ \A c \in SceneId : id \notin Range(members[c])

\* What the handlers rely on in the middle of a request.
Midway(r) ==
    /\ pc[r] = "retry" => Target(r) \notin fresh /\ members[Target(r)] = <<>>
    /\ pc[r] = "chain" =>
         /\ Len(ids[r]) >= 2
         /\ \A i \in DOMAIN ids[r] :
              /\ Combinable(seen[r][ids[r][i]])
              /\ SceneTemplate(seen[r][ids[r][i]]) = SceneTemplate(seen[r][ids[r][1]])
    /\ pc[r] \in Building => r \in Builder
    /\ pc[r] = "append" => Waiting(Target(r))
    /\ pc[r] \in {"clear_requested", "clear_members"} => order = <<>>

RequestsMidway == \A r \in Request : Midway(r)

BoardStored ==
    ~Clearing(Gone) =>
        /\ IsInjective(order)
        /\ \A id \in OnBoard : scenes[id] # NoScene

\* A combination is on the board, its members are stored and off it, and no
\* scene is in two places of combinations.
Combination(c) ==
    /\ c \in OnBoard
    /\ IsInjective(members[c])
    /\ \A m \in Range(members[c]) : scenes[m] # NoScene /\ m \notin OnBoard
    /\ \A d \in SceneId : d # c => Range(members[d]) \intersect Range(members[c]) = {}

CombinationsWhole ==
    ~Clearing(Stale) => \A c \in SceneId : members[c] # <<>> => Combination(c)

Whole ==
    /\ FreshUnused
    /\ MembersChained
    /\ RequestsMidway
    /\ BoardStored
    /\ CombinationsWhole

-----------------------------------------------------------------------------
(* The problems on the board *)

\* The problems scene id is about.
Sources(id) == IF scenes[id] = NoScene THEN {} ELSE Range(scenes[id].sources)

OnShow == UNION {Sources(id) : id \in OnBoard}

\* A retry stores a scene of the candidate the id has always had.
RetriesFaithful ==
    \A r \in Request : pc[r] = "retry" =>
        /\ scenes[Target(r)] # NoScene =>
               scenes[Target(r)].sources = <<picks[r][1][1]>>
        /\ \A q \in Request : pc[q] = "retry" /\ Target(q) = Target(r) =>
               picks[q][1][1] = picks[r][1][1]

\* No problem is shown by two scenes.
ShownOnce ==
    ~Clearing(Gone) =>
        \A a, b \in OnBoard : a # b => Sources(a) \intersect Sources(b) = {}

\* A combination shows what its members show, each of which has its own.
MembersShown ==
    ~Clearing(Stale) =>
        \A c \in SceneId : members[c] # <<>> =>
            /\ Sources(c) = UNION {Sources(m) : m \in Range(members[c])}
            /\ \A a, b \in Range(members[c]) : a # b => Sources(a) \intersect Sources(b) = {}

\* The picks a build has still to assemble are of problems that are neither
\* on the board nor in the hands of the build twice.
Pending(r) ==
    /\ pc[r] \in Building =>
         \A i, j \in DOMAIN picks[r] : picks[r][i][1] = picks[r][j][1] => i = j
    /\ pc[r] \in {"build", "append"} =>
         \A i \in DOMAIN picks[r] : picks[r][i][1] \notin OnShow
    /\ pc[r] = "append" => Sources(Target(r)) = {picks[r][1][1]}
    /\ pc[r] = "request" =>
         \A i \in DOMAIN picks[r] : i # 1 => picks[r][i][1] \notin OnShow

PicksPending == \A r \in Request : Pending(r)

Told ==
    /\ RetriesFaithful
    /\ ShownOnce
    /\ MembersShown
    /\ PicksPending

-----------------------------------------------------------------------------
(* Splicing and choosing positions *)

\* u is what Splice makes, position by position.
Spliced(u, S, s, i, j, t) ==
    /\ u \in Seq(S)
    /\ Len(u) = i + Len(t) + (Len(s) - j + 1)
    /\ \A k \in 1..i : u[k] = s[k]
    /\ \A k \in 1..Len(t) : u[i + k] = t[k]
    /\ \A k \in j..Len(s) : u[i + Len(t) + (k - j + 1)] = s[k]

\* What Splice puts where.
LEMMA SpliceAt ==
    ASSUME NEW S, NEW s \in Seq(S), NEW t \in Seq(S),
           NEW i \in 0..Len(s), NEW j \in 1..Len(s) + 1
    PROVE  Spliced(Splice(s, i, j, t), S, s, i, j, t)
<1> DEFINE a == SubSeq(s, 1, i)
           b == SubSeq(s, j, Len(s))
<1>1. Len(s) \in Nat /\ Len(t) \in Nat /\ i \in Int /\ j \in Int
  OBVIOUS
<1>2. a \in Seq(S) /\ Len(a) = i /\ \A k \in 1..i : a[k] = s[k]
  BY <1>1
<1>3. /\ b \in Seq(S) /\ Len(b) = Len(s) - j + 1
      /\ \A k \in 1..Len(s) - j + 1 : b[k] = s[j + k - 1]
  BY <1>1
<1> HIDE DEF a, b
<1>4. /\ a \o t \in Seq(S) /\ Len(a \o t) = i + Len(t)
      /\ \A k \in 1..i : (a \o t)[k] = a[k]
      /\ \A k \in 1..Len(t) : (a \o t)[i + k] = t[k]
  BY <1>1, <1>2
<1> DEFINE c == a \o t
<1> HIDE DEF c
<1>5. /\ c \o b \in Seq(S) /\ Len(c \o b) = Len(c) + Len(b)
      /\ \A k \in 1..Len(c) : (c \o b)[k] = c[k]
      /\ \A k \in 1..Len(b) : (c \o b)[Len(c) + k] = b[k]
  <2>1. c \in Seq(S) /\ b \in Seq(S)
    BY <1>3, <1>4 DEF c
  <2>2. c \o b \in Seq(S) /\ Len(c \o b) = Len(c) + Len(b)
    BY <2>1
  <2>3. \A k \in 1..Len(c) : (c \o b)[k] = c[k]
    BY <2>1
  <2>4. \A k \in 1..Len(b) : (c \o b)[Len(c) + k] = b[k]
    BY <2>1
  <2>5. QED
    BY <2>2, <2>3, <2>4
<1>6. Splice(s, i, j, t) = c \o b
  BY DEF Splice, a, b, c
<1>7. \A k \in 1..i : (c \o b)[k] = s[k]
  BY <1>1, <1>2, <1>4, <1>5 DEF c
<1>8. \A k \in 1..Len(t) : (c \o b)[i + k] = t[k]
  BY <1>1, <1>2, <1>4, <1>5 DEF c
<1>9. ASSUME NEW k \in j..Len(s)
      PROVE  (c \o b)[i + Len(t) + (k - j + 1)] = s[k]
  <2>1. k - j + 1 \in 1..Len(b) /\ Len(c) = i + Len(t)
    BY <1>1, <1>3, <1>4 DEF c
  <2>2. (c \o b)[Len(c) + (k - j + 1)] = b[k - j + 1]
    BY <1>5, <2>1
  <2>3. b[k - j + 1] = s[j + (k - j + 1) - 1]
    BY <1>3, <2>1
  <2>4. j + (k - j + 1) - 1 = k
    BY <1>1
  <2>5. QED
    BY <2>1, <2>2, <2>3, <2>4
<1>10. QED
  BY <1>3, <1>4, <1>5, <1>6, <1>7, <1>8, <1>9 DEF c, Spliced

\* The elements of s before and after a gap.
Beside(s, i, j) == {s[k] : k \in {n \in 1..Len(s) : n <= i \/ j <= n}}

\* A splice has the elements beside the gap and those put in it, ...
LEMMA SpliceRange ==
    ASSUME NEW S, NEW s \in Seq(S), NEW t \in Seq(S),
           NEW i \in 0..Len(s), NEW j \in 1..Len(s) + 1
    PROVE  Range(Splice(s, i, j, t)) = Beside(s, i, j) \union Range(t)
<1> DEFINE u == Splice(s, i, j, t)
<1>1. /\ u \in Seq(S)
      /\ Len(u) = i + Len(t) + (Len(s) - j + 1)
      /\ \A k \in 1..i : u[k] = s[k]
      /\ \A k \in 1..Len(t) : u[i + k] = t[k]
      /\ \A k \in j..Len(s) : u[i + Len(t) + (k - j + 1)] = s[k]
  <2>1. Spliced(u, S, s, i, j, t)
    BY SpliceAt
  <2>2. QED
    BY <2>1 DEF Spliced
<1>2. Len(s) \in Nat /\ Len(t) \in Nat /\ i \in Int /\ j \in Int
  OBVIOUS
<1> HIDE DEF u
<1>3. DOMAIN u = 1..Len(u) /\ DOMAIN t = 1..Len(t)
  BY <1>1
<1>4. ASSUME NEW k \in DOMAIN u PROVE u[k] \in Beside(s, i, j) \union Range(t)
  <2>1. k \in 1..i + Len(t) + (Len(s) - j + 1)
    BY <1>1, <1>3
  <2>2. CASE k <= i
    <3>1. k \in {n \in 1..Len(s) : n <= i \/ j <= n} /\ u[k] = s[k]
      BY <1>1, <1>2, <2>1, <2>2
    <3>2. QED
      BY <3>1 DEF Beside
  <2>3. CASE i < k /\ k <= i + Len(t)
    <3>1. k - i \in 1..Len(t) /\ i + (k - i) = k
      BY <1>2, <2>1, <2>3
    <3>2. u[k] = t[k - i]
      BY <1>1, <3>1
    <3>3. QED
      BY <1>3, <3>1, <3>2 DEF Range
  <2>4. CASE i + Len(t) < k
    <3> DEFINE n == k - i - Len(t) + j - 1
    <3>1. n \in j..Len(s) /\ i + Len(t) + (n - j + 1) = k
      BY <1>2, <2>1, <2>4
    <3> HIDE DEF n
    <3>2. u[k] = s[n]
      BY <1>1, <3>1
    <3>3. n \in {m \in 1..Len(s) : m <= i \/ j <= m}
      BY <1>2, <3>1
    <3>4. QED
      BY <3>2, <3>3 DEF Beside
  <2>5. QED
    BY <1>2, <2>1, <2>2, <2>3, <2>4
<1>5. ASSUME NEW x \in Beside(s, i, j) PROVE x \in Range(u)
  <2>1. PICK k \in 1..Len(s) : (k <= i \/ j <= k) /\ x = s[k]
    BY DEF Beside
  <2>2. CASE k <= i
    <3>1. k \in DOMAIN u /\ u[k] = s[k]
      BY <1>1, <1>2, <1>3, <2>2
    <3>2. QED
      BY <2>1, <3>1 DEF Range
  <2>3. CASE j <= k
    <3> DEFINE n == i + Len(t) + (k - j + 1)
    <3>1. k \in j..Len(s) /\ n \in 1..Len(u)
      BY <1>1, <1>2, <2>3
    <3>2. u[n] = s[k]
      BY <1>1, <3>1
    <3> HIDE DEF n
    <3>3. QED
      BY <1>3, <2>1, <3>1, <3>2 DEF Range
  <2>4. QED
    BY <2>1, <2>2, <2>3
<1>6. ASSUME NEW x \in Range(t) PROVE x \in Range(u)
  <2>1. PICK k \in 1..Len(t) : x = t[k]
    BY <1>3 DEF Range
  <2>2. i + k \in 1..Len(u) /\ u[i + k] = t[k]
    BY <1>1, <1>2
  <2>3. QED
    BY <1>3, <2>1, <2>2 DEF Range
<1>7. QED
  <2>1. Range(u) \subseteq Beside(s, i, j) \union Range(t)
    BY <1>4 DEF Range
  <2>2. QED
    BY <1>5, <1>6, <2>1 DEF u

\* ... each once, when they are distinct.
LEMMA SpliceInjective ==
    ASSUME NEW S, NEW s \in Seq(S), NEW t \in Seq(S),
           NEW i \in 0..Len(s), NEW j \in 1..Len(s) + 1, i < j,
           IsInjective(s), IsInjective(t), Beside(s, i, j) \intersect Range(t) = {}
    PROVE  IsInjective(Splice(s, i, j, t))
<1> DEFINE u == Splice(s, i, j, t)
<1>1. /\ u \in Seq(S)
      /\ Len(u) = i + Len(t) + (Len(s) - j + 1)
      /\ \A k \in 1..i : u[k] = s[k]
      /\ \A k \in 1..Len(t) : u[i + k] = t[k]
      /\ \A k \in j..Len(s) : u[i + Len(t) + (k - j + 1)] = s[k]
  <2>1. Spliced(u, S, s, i, j, t)
    BY SpliceAt
  <2>2. QED
    BY <2>1 DEF Spliced
<1>2. Len(s) \in Nat /\ Len(t) \in Nat /\ i \in Int /\ j \in Int
  OBVIOUS
<1> HIDE DEF u
<1>3. DOMAIN u = 1..Len(u) /\ DOMAIN t = 1..Len(t) /\ DOMAIN s = 1..Len(s)
  BY <1>1
<1> DEFINE Old(k) == IF k <= i THEN k ELSE k - i - Len(t) + j - 1
<1>4. ASSUME NEW k \in DOMAIN u, k <= i \/ i + Len(t) < k
      PROVE  Old(k) \in 1..Len(s) /\ u[k] = s[Old(k)] /\ u[k] \in Beside(s, i, j)
  <2>1. k \in 1..i + Len(t) + (Len(s) - j + 1)
    BY <1>1, <1>3
  <2>2. CASE k <= i
    <3>1. k \in {n \in 1..Len(s) : n <= i \/ j <= n} /\ u[k] = s[k] /\ Old(k) = k
      BY <1>1, <1>2, <2>1, <2>2
    <3>2. QED
      BY <3>1 DEF Beside
  <2>3. CASE i + Len(t) < k
    <3>1. Old(k) = k - i - Len(t) + j - 1
      BY <1>2, <2>1, <2>3
    <3>2. Old(k) \in j..Len(s) /\ i + Len(t) + (Old(k) - j + 1) = k
      BY <1>2, <2>1, <2>3, <3>1
    <3> HIDE DEF Old
    <3>3. u[k] = s[Old(k)] /\ Old(k) \in {n \in 1..Len(s) : n <= i \/ j <= n}
      BY <1>1, <1>2, <3>2
    <3>4. QED
      BY <3>3 DEF Beside
  <2>4. QED
    BY <1>4, <2>2, <2>3
<1>5. ASSUME NEW k \in DOMAIN u, ~(k <= i \/ i + Len(t) < k)
      PROVE  k - i \in 1..Len(t) /\ u[k] = t[k - i] /\ u[k] \in Range(t)
  <2>1. k - i \in 1..Len(t) /\ i + (k - i) = k
    BY <1>1, <1>2, <1>3, <1>5
  <2>2. u[k] = t[k - i]
    BY <1>1, <2>1
  <2>3. QED
    BY <1>3, <2>1, <2>2 DEF Range
<1>6. ASSUME NEW k \in DOMAIN u, NEW n \in DOMAIN u, u[k] = u[n]
      PROVE  k = n
  <2>1. k \in 1..Len(u) /\ n \in 1..Len(u)
    BY <1>3
  <2>2. CASE (k <= i \/ i + Len(t) < k) /\ (n <= i \/ i + Len(t) < n)
    <3>1. Old(k) \in 1..Len(s) /\ Old(n) \in 1..Len(s) /\ s[Old(k)] = s[Old(n)]
      BY <1>4, <1>6, <2>2
    <3>2. Old(k) = Old(n)
      BY <1>3, <3>1 DEF IsInjective
    <3>3. QED
      BY <1>2, <2>1, <2>2, <3>2
  <2>3. CASE ~(k <= i \/ i + Len(t) < k) /\ ~(n <= i \/ i + Len(t) < n)
    <3>1. k - i \in 1..Len(t) /\ n - i \in 1..Len(t) /\ t[k - i] = t[n - i]
      BY <1>5, <1>6, <2>3
    <3>2. k - i = n - i
      BY <1>3, <3>1 DEF IsInjective
    <3>3. QED
      BY <1>2, <2>1, <3>2
  <2>4. CASE (k <= i \/ i + Len(t) < k) /\ ~(n <= i \/ i + Len(t) < n)
    BY <1>4, <1>5, <1>6, <2>4
  <2>5. CASE ~(k <= i \/ i + Len(t) < k) /\ (n <= i \/ i + Len(t) < n)
    BY <1>4, <1>5, <1>6, <2>5
  <2>6. QED
    BY <2>2, <2>3, <2>4, <2>5
<1>7. QED
  BY <1>6 DEF IsInjective, u

\* Increasing positions are distinct, ...
LEMMA PositionsInjective ==
    ASSUME NEW n \in Nat, NEW m \in Nat, NEW f \in Positions(n, m)
    PROVE  f \in Injection(1..n, 1..m)
<1>1. f \in [1..n -> 1..m] /\ \A i, j \in 1..n : i < j => f[i] < f[j]
  BY DEF Positions
<1>2. ASSUME NEW i \in 1..n, NEW j \in 1..n, f[i] = f[j] PROVE i = j
  <2>1. f[i] \in Int /\ f[j] \in Int /\ i \in Int /\ j \in Int
    BY <1>1
  <2>2. ~(i < j) /\ ~(j < i)
    BY <1>1, <1>2, <2>1
  <2>3. QED
    BY <2>1, <2>2
<1>3. QED
  BY <1>1, <1>2 DEF Injection, IsInjective

\* ... and as many as their number.
LEMMA PositionsCardinality ==
    ASSUME NEW n \in Nat, NEW m \in Nat, NEW f \in Positions(n, m)
    PROVE  /\ Range(f) \in SUBSET (1..m)
           /\ IsFiniteSet(Range(f))
           /\ Cardinality(Range(f)) = n
<1>1. f \in Injection(1..n, 1..m)
  BY PositionsInjective
<1>2. f \in Bijection(1..n, Range(f))
  BY <1>1 DEF Injection, Bijection, Surjection, Range
<1>3. IsFiniteSet(1..n) /\ Cardinality(1..n) = n
  BY FS_Interval
<1>4. IsFiniteSet(Range(f)) /\ Cardinality(Range(f)) = Cardinality(1..n)
  BY <1>2, <1>3, FS_Bijection DEF ExistsBijection
<1>5. QED
  BY <1>1, <1>3, <1>4 DEF Injection, Range

\* Two disjoint choices of all positions leave none out.
LEMMA PositionsCover ==
    ASSUME NEW n \in Nat, NEW k \in Nat, NEW m \in Nat, m = n + k,
           NEW f \in Positions(n, m), NEW g \in Positions(k, m),
           Range(f) \intersect Range(g) = {}
    PROVE  Range(f) \union Range(g) = 1..m
<1>1. /\ Range(f) \in SUBSET (1..m) /\ IsFiniteSet(Range(f)) /\ Cardinality(Range(f)) = n
      /\ Range(g) \in SUBSET (1..m) /\ IsFiniteSet(Range(g)) /\ Cardinality(Range(g)) = k
  BY PositionsCardinality
<1>2. Cardinality(Range(f) \union Range(g)) = n + k
  <2>1. Cardinality(Range(f) \union Range(g))
          = Cardinality(Range(f)) + Cardinality(Range(g)) - Cardinality(Range(f) \cap Range(g))
    BY <1>1, FS_Union
  <2>2. Cardinality(Range(f) \cap Range(g)) = 0
    BY FS_EmptySet
  <2>3. QED
    BY <1>1, <2>1, <2>2
<1>3. IsFiniteSet(1..m) /\ Cardinality(1..m) = n + k
  BY FS_Interval
<1>4. Range(f) \union Range(g) \in SUBSET (1..m)
  BY <1>1
<1>5. QED
  BY <1>2, <1>3, <1>4, FS_Subset

-----------------------------------------------------------------------------
(* What combining and ungrouping do to the board *)

\* What combining does to the board, with the new scene under id new: the
\* ids of the request leave it, new joins it and remembers them.
Chains(r, new) ==
    /\ new \in fresh
    /\ fresh' = fresh \ {new}
    /\ scenes' = [scenes EXCEPT ![new] = NewScene(
           [i \in 1..Len(ids[r]) |-> seen[r][ids[r][i]].sources[1]],
           [i \in 1..Len(ids[r]) |-> seen[r][ids[r][i]].items[1]],
           NoAnswer, "pending_review", assemblies)]
    /\ \A c \in SceneId : c # new => members'[c] = members[c]
    /\ Range(members'[new]) = Range(ids[r])
    /\ members'[new] # <<>>
    /\ IsInjective(order) => IsInjective(members'[new])
    /\ OnBoard' = (OnBoard \ Range(ids[r])) \union {new}
    /\ (IsInjective(order) /\ new \notin OnBoard) => IsInjective(order')

\* at are the positions of s where the elements of q stand.
Stand(at, s, q) == \A i \in 1..Len(s) : i \in Range(at) <=> s[i] \in Range(q)

\* others is s without the elements of q.
Remaining(others, s, q) ==
    /\ others \in Seq(SceneId)
    /\ Range(others) = Range(s) \ Range(q)
    /\ IsInjective(s) => IsInjective(others)

\* The scenes not chosen stay on the board, in their order.
LEMMA OthersStay ==
    ASSUME NEW s \in Seq(SceneId), NEW q \in Seq(SceneId), NEW rest \in Nat,
           rest + Len(q) = Len(s),
           NEW at \in Positions(Len(q), Len(s)), NEW keep \in Positions(rest, Len(s)),
           Stand(at, s, q), Range(keep) \intersect Range(at) = {}
    PROVE  Remaining([i \in 1..rest |-> s[keep[i]]], s, q)
<1> DEFINE others == [i \in 1..rest |-> s[keep[i]]]
<1>1. Len(q) \in Nat /\ Len(s) \in Nat /\ DOMAIN s = 1..Len(s)
  OBVIOUS
<1>2. /\ keep \in [1..rest -> 1..Len(s)]
      /\ \A i, j \in 1..rest : keep[i] = keep[j] => i = j
  BY <1>1, PositionsInjective DEF Injection, IsInjective
<1>3. others \in Seq(SceneId) /\ DOMAIN others = 1..rest
  BY <1>1, <1>2
<1>4. Range(keep) \union Range(at) = 1..Len(s)
  <2>1. Len(s) = rest + Len(q)
    OBVIOUS
  <2>2. QED
    BY <1>1, <2>1, PositionsCover
<1>5. Range(others) = Range(s) \ Range(q)
  <2>1. ASSUME NEW i \in 1..rest PROVE s[keep[i]] \in Range(s) \ Range(q)
    <3>1. keep[i] \in Range(keep) /\ keep[i] \in 1..Len(s)
      BY <1>2 DEF Range
    <3>2. keep[i] \notin Range(at)
      BY <3>1
    <3>3. s[keep[i]] \notin Range(q)
      BY <3>1, <3>2 DEF Stand
    <3>4. QED
      BY <1>1, <3>1, <3>3 DEF Range
  <2>2. ASSUME NEW x \in Range(s) \ Range(q) PROVE x \in Range(others)
    <3>1. PICK k \in 1..Len(s) : x = s[k]
      BY <1>1 DEF Range
    <3>2. k \in Range(keep)
      BY <1>4, <2>2, <3>1 DEF Stand
    <3>3. PICK i \in 1..rest : k = keep[i]
      BY <1>2, <3>2 DEF Range
    <3>4. QED
      BY <3>1, <3>3 DEF Range
  <2>3. Range(others) \subseteq Range(s) \ Range(q)
    BY <1>3, <2>1 DEF Range
  <2> HIDE DEF others
  <2>4. QED
    BY <2>2, <2>3
<1>6. ASSUME IsInjective(s) PROVE IsInjective(others)
  BY <1>1, <1>2, <1>3, <1>6 DEF IsInjective
<1>7. QED
  BY <1>3, <1>5, <1>6 DEF Remaining

\* chain_scenes: the ids asked for, and no others, make way for the new one.
LEMMA ChainEffect ==
    ASSUME Typed, NEW r \in Request, CommitChain(r)
    PROVE  \E new \in fresh : Chains(r, new)
<1>1. PICK new \in fresh, rest \in 0..Len(order) :
       \E first \in 1..rest + 1,
          at \in Positions(Len(ids[r]), Len(order)), keep \in Positions(rest, Len(order)) :
         /\ rest + Len(ids[r]) = Len(order)
         /\ first = at[1]
         /\ \A i \in 1..Len(order) : (i \in Range(at)) = (order[i] \in Range(ids[r]))
         /\ Range(keep) \intersect Range(at) = {}
         /\ order' = Splice([i \in 1..rest |-> order[keep[i]]], first - 1, first, <<new>>)
         /\ members' = [members EXCEPT ![new] = [i \in 1..Len(ids[r]) |-> order[at[i]]]]
         /\ scenes' = [scenes EXCEPT ![new] = NewScene(
                [i \in 1..Len(ids[r]) |-> seen[r][ids[r][i]].sources[1]],
                [i \in 1..Len(ids[r]) |-> seen[r][ids[r][i]].items[1]],
                NoAnswer, "pending_review", assemblies)]
         /\ fresh' = fresh \ {new}
  BY DEF CommitChain
<1>2. PICK first \in 1..rest + 1,
           at \in Positions(Len(ids[r]), Len(order)), keep \in Positions(rest, Len(order)) :
         /\ rest + Len(ids[r]) = Len(order)
         /\ first = at[1]
         /\ \A i \in 1..Len(order) : (i \in Range(at)) = (order[i] \in Range(ids[r]))
         /\ Range(keep) \intersect Range(at) = {}
         /\ order' = Splice([i \in 1..rest |-> order[keep[i]]], first - 1, first, <<new>>)
         /\ members' = [members EXCEPT ![new] = [i \in 1..Len(ids[r]) |-> order[at[i]]]]
         /\ scenes' = [scenes EXCEPT ![new] = NewScene(
                [i \in 1..Len(ids[r]) |-> seen[r][ids[r][i]].sources[1]],
                [i \in 1..Len(ids[r]) |-> seen[r][ids[r][i]].items[1]],
                NoAnswer, "pending_review", assemblies)]
         /\ fresh' = fresh \ {new}
  BY <1>1
<1> DEFINE q == ids[r]
           others == [i \in 1..rest |-> order[keep[i]]]
           ms == [i \in 1..Len(q) |-> order[at[i]]]
<1>3. /\ new \in SceneId /\ order \in Seq(SceneId) /\ q \in Seq(SceneId)
      /\ rest \in Nat /\ Len(order) \in Nat /\ Len(q) \in Nat
      /\ DOMAIN order = 1..Len(order) /\ DOMAIN q = 1..Len(q)
      /\ members \in [SceneId -> Seq(SceneId)]
  BY DEF Typed, TypeOK
<1>4. Len(q) > 0
  BY <1>3 DEF Typed, Held, CommitChain
<1>5. \A i \in 1..Len(q) : q[i] \in OnBoard
  BY <1>3 DEF CommitChain, MembersCurrent, Active
<1>6. /\ others \in Seq(SceneId)
      /\ Range(others) = OnBoard \ Range(q)
      /\ IsInjective(order) => IsInjective(others)
  <2>1. /\ rest + Len(q) = Len(order)
        /\ at \in Positions(Len(q), Len(order))
        /\ Stand(at, order, q)
        /\ Range(keep) \intersect Range(at) = {}
    BY <1>2 DEF Stand
  <2>2. Remaining([i \in 1..rest |-> order[keep[i]]], order, q)
    BY <1>3, <2>1, OthersStay
  <2>3. QED
    BY <2>2 DEF Remaining, OnBoard
<1>7. Len(others) = rest /\ first - 1 \in 0..Len(others) /\ first \in 1..Len(others) + 1
  BY <1>3
<1>8. <<new>> \in Seq(SceneId) /\ Range(<<new>>) = {new} /\ IsInjective(<<new>>)
  BY <1>3 DEF Range, IsInjective
<1>9. Beside(others, first - 1, first) = Range(others)
  <2>1. DOMAIN others = 1..Len(others)
    BY <1>7
  <2>2. {n \in 1..Len(others) : n <= first - 1 \/ first <= n} = 1..Len(others)
    BY <1>7
  <2> HIDE DEF others
  <2>3. QED
    BY <2>1, <2>2 DEF Beside, Range
<1>10. order' = Splice(others, first - 1, first, <<new>>)
  BY <1>2
<1> HIDE DEF others
<1>11. OnBoard' = (OnBoard \ Range(q)) \union {new}
  <2> DEFINE one == <<new>>
  <2>0. one \in Seq(SceneId) /\ Range(one) = {new} /\ order' = Splice(others, first - 1, first, one)
    BY <1>8, <1>10
  <2> HIDE DEF one
  <2>1. Range(Splice(others, first - 1, first, one))
            = Beside(others, first - 1, first) \union Range(one)
    BY <1>6, <1>7, <2>0, SpliceRange
  <2>3. Range(order') = Range(others) \union {new}
    BY <1>9, <2>0, <2>1
  <2>4. QED
    BY <1>6, <2>3 DEF OnBoard
<1>12. ASSUME IsInjective(order), new \notin OnBoard PROVE IsInjective(order')
  <2>1. IsInjective(others) /\ Beside(others, first - 1, first) \intersect Range(<<new>>) = {}
    BY <1>6, <1>8, <1>9, <1>12
  <2>2. first - 1 < first
    BY <1>3
  <2>3. QED
    BY <1>6, <1>7, <1>8, <1>10, <2>1, <2>2, SpliceInjective
<1>13. /\ at \in [1..Len(q) -> 1..Len(order)]
       /\ \A i, j \in 1..Len(q) : at[i] = at[j] => i = j
  <2>1. at \in Injection(1..Len(q), 1..Len(order))
    BY <1>3, PositionsInjective
  <2>2. DOMAIN at = 1..Len(q)
    BY <2>1 DEF Injection
  <2>3. QED
    BY <2>1, <2>2 DEF Injection, IsInjective
<1>14. ms \in Seq(SceneId) /\ Len(ms) = Len(q) /\ DOMAIN ms = 1..Len(q)
  <2>1. ASSUME NEW i \in 1..Len(q) PROVE order[at[i]] \in SceneId
    <3>1. at[i] \in DOMAIN order
      BY <1>3, <1>13
    <3>2. \A k \in DOMAIN order : order[k] \in SceneId
      BY DEF Typed, TypeOK
    <3>3. QED
      BY <3>1, <3>2
  <2>2. QED
    BY <1>3, <2>1
<1>15. members'[new] = ms /\ \A c \in SceneId : c # new => members'[c] = members[c]
  BY <1>2, <1>3
<1>16. Range(ms) = Range(q)
  <2>1. ASSUME NEW i \in 1..Len(q) PROVE order[at[i]] \in Range(q)
    <3>1. at[i] \in 1..Len(order) /\ at[i] \in Range(at)
      BY <1>13 DEF Range
    <3>2. QED
      BY <1>2, <3>1
  <2>2. ASSUME NEW i \in 1..Len(q) PROVE q[i] \in Range(ms)
    <3>1. PICK k \in 1..Len(order) : order[k] = q[i]
      BY <1>3, <1>5 DEF OnBoard, Range
    <3>2. order[k] \in Range(q)
      BY <1>3, <3>1 DEF Range
    <3>3. k \in Range(at)
      BY <1>2, <3>2
    <3>4. PICK j \in 1..Len(q) : at[j] = k
      BY <1>13, <3>3 DEF Range
    <3>5. j \in DOMAIN ms /\ ms[j] = q[i]
      BY <3>1, <3>4
    <3>6. QED
      BY <3>5 DEF Range
  <2>3. QED
    BY <1>3, <1>14, <2>1, <2>2 DEF Range
<1>17. ASSUME IsInjective(order) PROVE IsInjective(ms)
  <2>1. ASSUME NEW i \in 1..Len(q), NEW j \in 1..Len(q), order[at[i]] = order[at[j]]
        PROVE  i = j
    <3>1. at[i] \in DOMAIN order /\ at[j] \in DOMAIN order
      BY <1>3, <1>13
    <3>2. at[i] = at[j]
      BY <1>17, <2>1, <3>1 DEF IsInjective
    <3>3. QED
      BY <1>13, <3>2
  <2>2. \A i \in 1..Len(q) : ms[i] = order[at[i]]
    OBVIOUS
  <2> HIDE DEF ms
  <2>3. QED
    BY <1>14, <2>1, <2>2 DEF IsInjective
<1>18. ms # <<>>
  BY <1>4, <1>14
<1>19. QED
  BY <1>2, <1>11, <1>12, <1>15, <1>16, <1>17, <1>18 DEF Chains

\* What ungrouping id does to the board: its members take its place.
Ungroups(id) ==
    /\ members[id] # <<>>
    /\ id \in OnBoard
    /\ fresh' = fresh
    /\ scenes' = [scenes EXCEPT ![id] = NoScene]
    /\ \A c \in SceneId : members'[c] \in {members[c], <<>>}
    /\ scenes[id] # NoScene =>
         /\ members'[id] = <<>>
         /\ \A c \in SceneId : c # id => members'[c] = members[c]
    /\ OnBoard' \subseteq OnBoard \union Range(members[id])
    /\ IsInjective(order) => OnBoard' = (OnBoard \ {id}) \union Range(members[id])
    /\ (/\ IsInjective(order) /\ IsInjective(members[id])
        /\ OnBoard \intersect Range(members[id]) = {})
       => IsInjective(order')

\* ungroup_scene: the members return to the place of the combination.
LEMMA UngroupEffect ==
    ASSUME Typed, NEW id \in SceneId, Ungroup(id)
    PROVE  Ungroups(id)
<1>1. PICK i \in DOMAIN order :
         order[i] = id /\ order' = Splice(order, i - 1, i + 1, members[id])
  BY DEF Ungroup
<1>2. /\ order \in Seq(SceneId) /\ members[id] \in Seq(SceneId)
      /\ Len(order) \in Nat /\ DOMAIN order = 1..Len(order) /\ i \in Int
      /\ i - 1 \in 0..Len(order) /\ i + 1 \in 1..Len(order) + 1 /\ i - 1 < i + 1
  BY DEF Typed, TypeOK
<1>3. Range(order') = Beside(order, i - 1, i + 1) \union Range(members[id])
  BY <1>1, <1>2, SpliceRange
<1>4. Beside(order, i - 1, i + 1) \subseteq OnBoard
  BY <1>2 DEF Beside, OnBoard, Range
<1>5. ASSUME IsInjective(order) PROVE Beside(order, i - 1, i + 1) = OnBoard \ {id}
  <2>1. ASSUME NEW x \in Beside(order, i - 1, i + 1) PROVE x # id
    <3>1. PICK k \in 1..Len(order) : (k <= i - 1 \/ i + 1 <= k) /\ x = order[k]
      BY DEF Beside
    <3>2. k # i
      BY <1>2, <3>1
    <3>3. QED
      BY <1>1, <1>2, <1>5, <3>1, <3>2 DEF IsInjective
  <2>2. ASSUME NEW x \in OnBoard \ {id} PROVE x \in Beside(order, i - 1, i + 1)
    <3>1. PICK k \in 1..Len(order) : x = order[k]
      BY <1>2 DEF OnBoard, Range
    <3>2. k # i
      BY <1>1, <2>2, <3>1
    <3>3. k \in {n \in 1..Len(order) : n <= i - 1 \/ i + 1 <= n}
      BY <1>2, <3>2
    <3>4. QED
      BY <3>1, <3>3 DEF Beside
  <2>3. QED
    BY <1>4, <2>1, <2>2
<1>6. ASSUME IsInjective(order), IsInjective(members[id]),
             OnBoard \intersect Range(members[id]) = {}
      PROVE  IsInjective(order')
  <2>1. Beside(order, i - 1, i + 1) \intersect Range(members[id]) = {}
    BY <1>4, <1>6
  <2>2. QED
    BY <1>1, <1>2, <1>6, <2>1, SpliceInjective
<1>7. id \in OnBoard
  BY <1>1 DEF OnBoard, Range
<1>8. /\ \A c \in SceneId : members'[c] \in {members[c], <<>>}
      /\ scenes[id] # NoScene =>
           members'[id] = <<>> /\ \A c \in SceneId : c # id => members'[c] = members[c]
  BY DEF Ungroup, Typed, TypeOK
<1>9. fresh' = fresh /\ scenes' = [scenes EXCEPT ![id] = NoScene] /\ members[id] # <<>>
  BY DEF Ungroup
<1>10. OnBoard' = Range(order')
  BY DEF OnBoard
<1>11. QED
  BY <1>3, <1>4, <1>5, <1>6, <1>7, <1>8, <1>9, <1>10 DEF Ungroups

-----------------------------------------------------------------------------
(* Steps that leave the board alone *)

\* A stored scene is stored with the sources it had, and where a scene
\* appears there are no members.
SourcesKept(id) ==
    /\ scenes[id] # NoScene =>
           scenes'[id] # NoScene /\ scenes'[id].sources = scenes[id].sources
    /\ scenes[id] = NoScene /\ scenes'[id] # NoScene => members[id] = <<>>

\* Request r alone has moved, not out of a phase of the clears, and nothing
\* has happened to the board.
Quiet(r) ==
    /\ order' = order /\ members' = members /\ fresh' = fresh
    /\ \A id \in SceneId : SourcesKept(id)
    /\ \A q \in Request : q # r =>
         /\ pc'[q] = pc[q] /\ ids'[q] = ids[q]
         /\ seen'[q] = seen[q] /\ picks'[q] = picks[q]
    /\ pc[r] \in Gone => pc'[r] \in Gone
    /\ pc[r] \in Stale => pc'[r] \in Stale

\* While a build is before or after its clears nothing is being cleared.
LEMMA NothingCleared ==
    ASSUME Whole, OneBuild, NEW r \in Request,
           pc[r] \in {"clear_scenes", "build", "append", "request"}
    PROVE  ~Clearing(Gone) /\ ~Clearing(Stale)
<1>1. ASSUME NEW q \in Request, pc[q] \in Stale PROVE FALSE
  <2>1. pc[q] \in Building /\ pc[r] \in Building
    BY <1>1 DEF Stale, Building
  <2>2. q \in Builder /\ r \in Builder
    BY <2>1 DEF Whole, RequestsMidway, Midway
  <2>3. q = r
    BY <2>2 DEF OneBuild
  <2>4. QED
    BY <1>1, <2>3 DEF Stale
<1>2. QED
  BY <1>1 DEF Clearing, Gone, Stale

\* What is being cleared is still being cleared.
LEMMA QuietClears ==
    ASSUME NEW r \in Request, Quiet(r)
    PROVE  /\ Clearing(Gone) => Clearing(Gone)'
           /\ Clearing(Stale) => Clearing(Stale)'
BY DEF Quiet, Clearing

\* The request that moved apart, such a step keeps the board whole.
LEMMA QuietWhole ==
    ASSUME Typed, Whole, NEW r \in Request, Quiet(r), Midway(r)'
    PROVE  Whole'
<1>1. /\ OnBoard' = OnBoard /\ members' = members /\ order' = order /\ fresh' = fresh
      /\ \A id \in SceneId : SourcesKept(id)
      /\ OnBoard \subseteq SceneId
  BY BoardType DEF Quiet, OnBoard, Typed
<1>2. FreshUnused'
  BY <1>1 DEF Whole, FreshUnused
<1>3. MembersChained'
  <2>1. ASSUME NEW c \in SceneId, scenes'[c] # NoScene, members[c] # <<>>
        PROVE  IsChained(scenes'[c])
    <3>1. scenes[c] # NoScene /\ scenes'[c].sources = scenes[c].sources
      BY <1>1, <2>1 DEF SourcesKept
    <3>2. IsChained(scenes[c])
      BY <2>1, <3>1 DEF Whole, MembersChained
    <3>3. QED
      BY <3>1, <3>2 DEF IsChained
  <2>2. QED
    BY <1>1, <2>1 DEF MembersChained
<1>4. RequestsMidway'
  <2>1. ASSUME NEW q \in Request, q # r PROVE Midway(q)'
    <3>1. /\ pc'[q] = pc[q] /\ ids'[q] = ids[q] /\ seen'[q] = seen[q]
          /\ Midway(q)
      BY <2>1 DEF Quiet, Whole, RequestsMidway
    <3>2. Target(q)' = Target(q)
      BY <3>1 DEF Target
    <3>3. ASSUME pc[q] = "append" PROVE Waiting(Target(q))'
      <4>1. Waiting(Target(q)) /\ Target(q) \in SceneId
        BY <3>1, <3>3 DEF Midway, Typed, TypeOK, Held, Target
      <4>2. scenes'[Target(q)] # NoScene
        BY <1>1, <4>1 DEF Waiting, SourcesKept
      <4>3. QED
        BY <1>1, <3>2, <4>1, <4>2 DEF Waiting
    <3>4. QED
      BY <1>1, <3>1, <3>2, <3>3 DEF Midway
  <2>2. QED
    BY <2>1 DEF RequestsMidway
<1>5. BoardStored'
  BY <1>1, QuietClears DEF Whole, BoardStored, SourcesKept
<1>6. CombinationsWhole'
  <2>1. ASSUME NEW c \in SceneId, Combination(c) PROVE Combination(c)'
    <3>1. Range(members[c]) \subseteq SceneId
      BY DEF Typed, TypeOK, Range
    <3>2. QED
      BY <1>1, <2>1, <3>1 DEF Combination, SourcesKept
  <2>2. QED
    BY <1>1, <2>1, QuietClears DEF Whole, CombinationsWhole
<1>7. QED
  BY <1>2, <1>3, <1>4, <1>5, <1>6 DEF Whole

\* A stored scene shows the problems it showed.
LEMMA SourcesStay ==
    ASSUME NEW id \in SceneId, SourcesKept(id), scenes[id] # NoScene
    PROVE  Sources(id)' = Sources(id)
BY DEF Sources, SourcesKept

\* So the board shows the problems it showed, each once.
LEMMA QuietTold ==
    ASSUME Typed, OneBuild, Whole, Told, NEW r \in Request, Quiet(r),
           RetriesFaithful', Pending(r)'
    PROVE  Told'
<1>1. /\ OnBoard' = OnBoard /\ members' = members
      /\ \A id \in SceneId : SourcesKept(id)
      /\ OnBoard \subseteq SceneId
  BY BoardType DEF Quiet, OnBoard, Typed
<1>2. ASSUME ~Clearing(Gone), NEW id \in OnBoard
      PROVE  Sources(id)' = Sources(id)
  <2>1. scenes[id] # NoScene
    BY <1>2 DEF Whole, BoardStored
  <2>2. QED
    BY <1>1, <2>1, SourcesStay
<1>3. ShownOnce'
  BY <1>1, <1>2, QuietClears DEF Told, ShownOnce
<1>4. MembersShown'
  <2> SUFFICES ASSUME ~Clearing(Stale)', NEW c \in SceneId, members[c] # <<>>
               PROVE  /\ Sources(c)' = UNION {Sources(m)' : m \in Range(members[c])}
                      /\ \A a, b \in Range(members[c]) : a # b =>
                             Sources(a)' \intersect Sources(b)' = {}
    BY <1>1 DEF MembersShown
  <2>1. ~Clearing(Stale)
    BY QuietClears
  <2>2. ~Clearing(Gone)
    BY <2>1 DEF Clearing, Stale, Gone
  <2>3. Combination(c)
    BY <2>1 DEF Whole, CombinationsWhole
  <2>4. Sources(c)' = Sources(c)
    BY <1>2, <2>2, <2>3 DEF Combination
  <2>5. ASSUME NEW m \in Range(members[c]) PROVE Sources(m)' = Sources(m)
    <3>1. m \in SceneId
      BY DEF Typed, TypeOK, Range
    <3>2. scenes[m] # NoScene
      BY <2>3 DEF Combination
    <3>3. QED
      BY <1>1, <3>1, <3>2, SourcesStay
  <2>6. /\ Sources(c) = UNION {Sources(m) : m \in Range(members[c])}
        /\ \A a, b \in Range(members[c]) : a # b => Sources(a) \intersect Sources(b) = {}
    BY <2>1 DEF Told, MembersShown
  <2>7. QED
    BY <2>4, <2>5, <2>6
<1>5. PicksPending'
  <2>1. ASSUME NEW q \in Request, q # r PROVE Pending(q)'
    <3>1. pc'[q] = pc[q] /\ ids'[q] = ids[q] /\ picks'[q] = picks[q] /\ Pending(q)
      BY <2>1 DEF Quiet, Told, PicksPending
    <3>2. ASSUME pc[q] \in {"build", "append", "request"} PROVE OnShow' = OnShow
      <4>1. ~Clearing(Gone)
        BY <3>2, NothingCleared
      <4>2. QED
        BY <1>1, <1>2, <4>1 DEF OnShow
    <3>3. ASSUME pc[q] = "append" PROVE Sources(Target(q))' = Sources(Target(q))
      <4>1. Waiting(Target(q)) /\ Target(q) \in SceneId
        BY <3>1, <3>3 DEF Whole, RequestsMidway, Midway, Typed, TypeOK, Held, Target
      <4>2. Target(q)' = Target(q)
        BY <3>1 DEF Target
      <4>3. QED
        BY <1>1, <4>1, <4>2, SourcesStay DEF Waiting
    <3>4. QED
      BY <3>1, <3>2, <3>3 DEF Pending
  <2>2. QED
    BY <2>1 DEF PicksPending
<1>6. QED
  BY <1>3, <1>4, <1>5 DEF Told

\* The requests that retry have held their id and pick before, and found at
\* that id nothing but a scene of the same sources.
RetriesStay ==
    /\ \A q \in Request : pc'[q] = "retry" =>
           pc[q] = "retry" /\ ids'[q] = ids[q] /\ picks'[q] = picks[q]
    /\ \A id \in SceneId \ fresh : scenes'[id] # NoScene =>
           scenes[id] # NoScene /\ scenes'[id].sources = scenes[id].sources

\* The id a retry works on is an id, and drawn.
LEMMA RetryTarget ==
    ASSUME Typed, Whole, NEW r \in Request, pc[r] = "retry"
    PROVE  Target(r) \in SceneId \ fresh
BY DEF Typed, TypeOK, Held, Whole, RequestsMidway, Midway, Target

LEMMA RetriesKept ==
    ASSUME Typed, Whole, Told, RetriesStay
    PROVE  RetriesFaithful'
<1> SUFFICES ASSUME NEW r \in Request, pc'[r] = "retry"
             PROVE  /\ (scenes[Target(r)] # NoScene =>
                          scenes[Target(r)].sources = <<picks[r][1][1]>>)'
                    /\ \A q \in Request : (pc[q] = "retry" /\ Target(q) = Target(r) =>
                          picks[q][1][1] = picks[r][1][1])'
  BY DEF RetriesFaithful
<1>1. /\ pc[r] = "retry" /\ Target(r)' = Target(r) /\ picks'[r] = picks[r]
      /\ Target(r) \in SceneId \ fresh
  BY RetryTarget DEF RetriesStay, Target
<1>2. (scenes[Target(r)] # NoScene => scenes[Target(r)].sources = <<picks[r][1][1]>>)'
  BY <1>1 DEF RetriesStay, Told, RetriesFaithful
<1>3. ASSUME NEW q \in Request, pc'[q] = "retry", Target(q)' = Target(r)'
      PROVE  picks'[q][1][1] = picks'[r][1][1]
  <2>1. pc[q] = "retry" /\ Target(q) = Target(r) /\ picks'[q] = picks[q]
    BY <1>1, <1>3 DEF RetriesStay, Target
  <2>2. QED
    BY <1>1, <2>1 DEF Told, RetriesFaithful
<1>4. QED
  BY <1>2, <1>3

\* r ends, reads a scene or renders: the step neither starts nor goes on with
\* a retry, a combination or a build, and no scene appears.
Still(r) ==
    /\ Quiet(r)
    /\ pc'[r] \notin {"retry", "chain"} \union Building
    /\ \A id \in SceneId : scenes[id] = NoScene => scenes'[id] = NoScene

LEMMA StillKeeps ==
    ASSUME Typed, OneBuild, Whole, Told, NEW r \in Request, Still(r)
    PROVE  Whole' /\ Told'
<1>1. Quiet(r) /\ Midway(r)'
  BY DEF Still, Midway, Building
<1>2. Pending(r)'
  BY DEF Still, Pending, Building
<1>3. RetriesStay
  BY DEF Still, Quiet, RetriesStay, SourcesKept
<1>4. QED
  BY <1>1, <1>2, <1>3, QuietWhole, QuietTold, RetriesKept

\* A step of r that writes no scene, and the phases it is at.
LEMMA ReadingStill ==
    ASSUME NEW r \in Request,
           scenes' = scenes, order' = order, members' = members, fresh' = fresh,
           \A q \in Request : q # r =>
               /\ pc'[q] = pc[q] /\ ids'[q] = ids[q]
               /\ seen'[q] = seen[q] /\ picks'[q] = picks[q],
           pc[r] \notin Stale
    PROVE  Quiet(r)
BY DEF Quiet, SourcesKept, Gone, Stale

\* The response ends r alone.
LEMMA FinishAlone ==
    ASSUME Typed, NEW r \in Request, Finish(r)
    PROVE  /\ pc'[r] = "idle"
           /\ \A q \in Request : q # r =>
                /\ pc'[q] = pc[q] /\ ids'[q] = ids[q]
                /\ seen'[q] = seen[q] /\ picks'[q] = picks[q]
BY DEF Finish, Typed, TypeOK

\* So does a step between two scenes of a batch.
LEMMA NextInBatchAlone ==
    ASSUME Typed, NEW r \in Request, NEW id, NextInBatch(r, id)
    PROVE  /\ pc'[r] = "batch"
           /\ \A q \in Request : q # r =>
                /\ pc'[q] = pc[q] /\ ids'[q] = ids[q]
                /\ seen'[q] = seen[q] /\ picks'[q] = picks[q]
BY DEF NextInBatch, Typed, TypeOK

\* Requests that read scenes to review them, and renders.
LEMMA ReadersStill ==
    ASSUME Typed, NEW r \in Request,
           \/ Refuse(r) \/ ReleaseBatch(r) \/ EndBuild(r) \/ Discard(r) \/ ClaimBatch(r)
           \/ \E id \in SceneId :
                \/ BeginEdit(r, id) \/ BeginApprove(r, id)
                \/ BeginReject(r, id) \/ BeginAcknowledge(r, id)
                \/ ServeCached(r, id) \/ StartRender(r, id) \/ SkipScene(r, id)
    PROVE  Still(r)
<1>1. scenes' = scenes /\ order' = order /\ members' = members /\ fresh' = fresh
  BY DEF Refuse, ReleaseBatch, EndBuild, Discard, ClaimBatch, BeginEdit, BeginApprove,
         BeginReject, BeginAcknowledge, BeginWrite, ServeCached, StartRender, SkipScene, session
<1>2. pc[r] \notin Stale
  BY DEF Refuse, ReleaseBatch, EndBuild, Discard, ClaimBatch, BeginEdit, BeginApprove,
         BeginReject, BeginAcknowledge, BeginWrite, ServeCached, StartRender, SkipScene, Stale
<1>3. /\ pc'[r] \notin {"retry", "chain"} \union Building
      /\ \A q \in Request : q # r =>
           /\ pc'[q] = pc[q] /\ ids'[q] = ids[q]
           /\ seen'[q] = seen[q] /\ picks'[q] = picks[q]
  <2>1. CASE Refuse(r) \/ ReleaseBatch(r) \/ EndBuild(r)
    BY <2>1, FinishAlone DEF Refuse, ReleaseBatch, EndBuild, Building
  <2>2. CASE Discard(r) \/ \E id \in SceneId : ServeCached(r, id) \/ SkipScene(r, id)
    BY <2>2, NextInBatchAlone DEF Discard, ServeCached, SkipScene, Building
  <2>3. CASE ClaimBatch(r)
    BY <2>3 DEF ClaimBatch, Typed, TypeOK, Building
  <2>4. CASE \E id \in SceneId : StartRender(r, id)
    BY <2>4 DEF StartRender, Typed, TypeOK, Building
  <2>5. CASE \E id \in SceneId : \/ BeginEdit(r, id) \/ BeginApprove(r, id)
                                 \/ BeginReject(r, id) \/ BeginAcknowledge(r, id)
    <3>1. PICK id \in SceneId, p \in Writing : BeginWrite(r, p, id)
      BY <2>5 DEF BeginEdit, BeginApprove, BeginReject, BeginAcknowledge, Writing
    <3>2. QED
      BY <3>1 DEF BeginWrite, Hold, Typed, TypeOK, Building, Writing
  <2>6. QED
    BY <2>1, <2>2, <2>3, <2>4, <2>5
<1>4. QED
  BY <1>1, <1>2, <1>3, ReadingStill DEF Still

\* A write that keeps the sources of its scene.
LEMMA WriteCasStill ==
    ASSUME Typed, NEW r \in Request, pc[r] \in Writing,
           NEW updated \in Scene, WriteCas(r, updated),
           updated.sources = scenes[Target(r)].sources
    PROVE  Still(r)
<1> DEFINE stored == [updated EXCEPT !.mixed = @ \/ Base(r).assembly # updated.assembly]
<1>1. /\ Target(r) \in SceneId /\ scenes[Target(r)] # NoScene
  BY UnracedType DEF WriteCas, Unraced, Active
<1>2. stored.sources = updated.sources /\ stored \in Scene
  BY DEF Scene
<1>3. /\ scenes' = [scenes EXCEPT ![Target(r)] = stored] /\ Finish(r)
      /\ order' = order /\ members' = members /\ fresh' = fresh
  BY DEF WriteCas
<1> HIDE DEF stored
<1>4. stored # NoScene
  BY <1>2, NoSceneAssumption
<1>5. \A id \in SceneId : /\ SourcesKept(id)
                          /\ scenes[id] = NoScene => scenes'[id] = NoScene
  BY <1>1, <1>2, <1>3, <1>4 DEF SourcesKept, Typed, TypeOK, SceneMap
<1>6. pc[r] \notin Stale
  BY DEF Writing, Stale
<1>7. QED
  BY <1>3, <1>5, <1>6, FinishAlone DEF Still, Quiet, Building, Gone, Stale

\* The four review endpoints do.
LEMMA ReviewStill ==
    ASSUME Typed, NEW r \in Request,
           CommitEdit(r) \/ CommitApprove(r) \/ CommitReject(r) \/ CommitAcknowledge(r)
    PROVE  Still(r)
<1>1. pc[r] \in Writing
  BY DEF CommitEdit, CommitApprove, CommitReject, CommitAcknowledge, Writing
<1>2. CASE CommitEdit(r)
  <2>1. PICK items \in EditsOf(Base(r)), regraded \in BOOLEAN :
          LET changed == items # Base(r).items \/ regraded
              current == scenes[Target(r)]
          IN  WriteCas(r, [current EXCEPT
                  !.items = items,
                  !.status = IF changed /\ Base(r).status \in {"approved", "rejected"}
                             THEN "pending_review" ELSE @,
                  !.acknowledged = ~changed /\ @,
                  !.revision = Base(r).revision + IF changed THEN 1 ELSE 0])
    BY <1>2 DEF CommitEdit
  <2> DEFINE changed == items # Base(r).items \/ regraded
             updated == [scenes[Target(r)] EXCEPT
                 !.items = items,
                 !.status = IF changed /\ Base(r).status \in {"approved", "rejected"}
                            THEN "pending_review" ELSE @,
                 !.acknowledged = ~changed /\ @,
                 !.revision = Base(r).revision + IF changed THEN 1 ELSE 0]
  <2>2. WriteCas(r, updated)
    BY <2>1
  <2>3. scenes[Target(r)] \in Scene /\ Base(r) \in Scene
    BY <1>1, <2>2, UnracedType DEF WriteCas
  <2>4. items \in Seq(Content) \ {<<>>}
    <3>1. PICK n \in Nat \ {0} : items \in [1..n -> Content]
      BY BoundsAssumption DEF EditsOf
    <3>2. QED
      BY <3>1
  <2>5. updated \in Scene /\ updated.sources = scenes[Target(r)].sources
    <3>1. Base(r).revision + (IF changed THEN 1 ELSE 0) \in Nat
      BY <2>3 DEF Scene
    <3>2. (IF changed /\ Base(r).status \in {"approved", "rejected"}
           THEN "pending_review" ELSE scenes[Target(r)].status) \in Status
      BY <2>3 DEF Scene, Status
    <3>3. (~changed /\ scenes[Target(r)].acknowledged) \in BOOLEAN
      OBVIOUS
    <3>4. updated \in Scene
      BY <2>3, <2>4, <3>1, <3>2, <3>3 DEF Scene
    <3>5. updated.sources = scenes[Target(r)].sources
      BY <2>3 DEF Scene
    <3>6. QED
      BY <3>4, <3>5
  <2> HIDE DEF updated
  <2>6. QED
    BY <1>1, <2>2, <2>5, WriteCasStill
<1>3. CASE CommitApprove(r)
  <2> DEFINE updated == [scenes[Target(r)] EXCEPT
                 !.status = "approved",
                 !.approvedRevision = Base(r).revision + 1,
                 !.revision = Base(r).revision + 1]
  <2>1. WriteCas(r, updated)
    BY <1>3 DEF CommitApprove
  <2>2. scenes[Target(r)] \in Scene /\ Base(r) \in Scene
    BY <1>1, <2>1, UnracedType DEF WriteCas
  <2>3. updated \in Scene /\ updated.sources = scenes[Target(r)].sources
    <3>1. Base(r).revision + 1 \in Nat
      BY <2>2 DEF Scene
    <3>2. updated \in Scene
      BY <2>2, <3>1 DEF Scene, Status
    <3>3. updated.sources = scenes[Target(r)].sources
      BY <2>2 DEF Scene
    <3>4. QED
      BY <3>2, <3>3
  <2> HIDE DEF updated
  <2>4. QED
    BY <1>1, <2>1, <2>3, WriteCasStill
<1>4. CASE CommitReject(r)
  <2> DEFINE updated == [scenes[Target(r)] EXCEPT
                 !.status = "rejected",
                 !.revision = Base(r).revision + 1]
  <2>1. WriteCas(r, updated)
    BY <1>4 DEF CommitReject
  <2>2. scenes[Target(r)] \in Scene /\ Base(r) \in Scene
    BY <1>1, <2>1, UnracedType DEF WriteCas
  <2>3. updated \in Scene /\ updated.sources = scenes[Target(r)].sources
    <3>1. Base(r).revision + 1 \in Nat
      BY <2>2 DEF Scene
    <3>2. updated \in Scene
      BY <2>2, <3>1 DEF Scene, Status
    <3>3. updated.sources = scenes[Target(r)].sources
      BY <2>2 DEF Scene
    <3>4. QED
      BY <3>2, <3>3
  <2> HIDE DEF updated
  <2>4. QED
    BY <1>1, <2>1, <2>3, WriteCasStill
<1>5. CASE CommitAcknowledge(r)
  <2> DEFINE updated == [scenes[Target(r)] EXCEPT
                 !.acknowledged = TRUE,
                 !.revision = Base(r).revision + 1]
  <2>1. WriteCas(r, updated)
    BY <1>5 DEF CommitAcknowledge
  <2>2. scenes[Target(r)] \in Scene /\ Base(r) \in Scene
    BY <1>1, <2>1, UnracedType DEF WriteCas
  <2>3. updated \in Scene /\ updated.sources = scenes[Target(r)].sources
    <3>1. Base(r).revision + 1 \in Nat
      BY <2>2 DEF Scene
    <3>2. updated \in Scene
      BY <2>2, <3>1 DEF Scene, Status
    <3>3. updated.sources = scenes[Target(r)].sources
      BY <2>2 DEF Scene
    <3>4. QED
      BY <3>2, <3>3
  <2> HIDE DEF updated
  <2>4. QED
    BY <1>1, <2>1, <2>3, WriteCasStill
<1>6. QED
  BY <1>2, <1>3, <1>4, <1>5

\* A published clip keeps everything but the record of the clip.
LEMMA PublishStill ==
    ASSUME Typed, NEW r \in Request, Publish(r)
    PROVE  Still(r)
<1> DEFINE id == Target(r)
           stored == [scenes[id] EXCEPT !.rendered = seen[r][id].items]
<1>1. id \in SceneId /\ scenes[id] # NoScene /\ pc[r] = "drawing"
  BY DrawingType DEF Publish, StillCurrent
<1>2. scenes[id] \in Scene /\ seen[r][id] \in Scene
  BY <1>1 DEF Typed, TypeOK, Held, SceneMap, Base
<1>3. stored \in Scene /\ stored.sources = scenes[id].sources
  BY <1>2 DEF Scene
<1>4. /\ scenes' = [scenes EXCEPT ![id] = stored] /\ NextInBatch(r, id)
      /\ order' = order /\ members' = members /\ fresh' = fresh
  BY DEF Publish
<1> HIDE DEF stored, id
<1>5. stored # NoScene
  BY <1>3, NoSceneAssumption
<1>6. \A x \in SceneId : /\ SourcesKept(x)
                         /\ scenes[x] = NoScene => scenes'[x] = NoScene
  BY <1>1, <1>3, <1>4, <1>5 DEF SourcesKept, Typed, TypeOK, SceneMap
<1>7. QED
  BY <1>1, <1>4, <1>6, NextInBatchAlone DEF Still, Quiet, Building, Gone, Stale

-----------------------------------------------------------------------------
(* The first and the last steps of retries, combinations and builds *)

\* A scene that can be looked up has been drawn, and is no combination unless
\* it is chained.
LEMMA ActiveDrawn ==
    ASSUME Typed, Whole, NEW id \in SceneId, Active(id)
    PROVE  /\ id \notin fresh
           /\ ~IsChained(scenes[id]) => members[id] = <<>>
BY DEF Active, Whole, FreshUnused, MembersChained

\* A retry holds an id that has been drawn, and the candidate of its scene.
LEMMA BeginRetryKeeps ==
    ASSUME Typed, OneBuild, Whole, Told, NEW r \in Request, NEW id \in SceneId,
           BeginRetry(r, id)
    PROVE  Whole' /\ Told'
<1>1. /\ pc[r] = "idle" /\ pc'[r] = "retry" /\ ids'[r] = <<id>>
      /\ picks'[r] = << <<scenes[id].sources[1], requested[id]>> >>
      /\ scenes' = scenes /\ order' = order /\ members' = members /\ fresh' = fresh
      /\ \A q \in Request : q # r =>
           /\ pc'[q] = pc[q] /\ ids'[q] = ids[q]
           /\ seen'[q] = seen[q] /\ picks'[q] = picks[q]
  BY DEF BeginRetry, session, Typed, TypeOK
<1>2. Quiet(r)
  BY <1>1, ReadingStill DEF Stale
<1>3. id \notin fresh /\ members[id] = <<>> /\ scenes[id] # NoScene
  BY ActiveDrawn DEF BeginRetry, Retryable, Active
<1>4. Target(r)' = id
  BY <1>1 DEF Target
<1>5. Midway(r)'
  BY <1>1, <1>3, <1>4 DEF Midway, Building
<1>6. Pending(r)'
  BY <1>1 DEF Pending, Building
<1>7. scenes[id].sources = <<scenes[id].sources[1]>>
  <2>1. scenes[id] \in Scene /\ ~IsChained(scenes[id])
    BY <1>3 DEF Typed, TypeOK, SceneMap, BeginRetry, Retryable
  <2>2. scenes[id].sources \in Seq(Candidate) \ {<<>>} /\ ~(Len(scenes[id].sources) > 1)
    BY <2>1 DEF Scene, IsChained
  <2>3. QED
    BY <2>2
<1>8. RetriesFaithful'
  <2>1. ASSUME NEW q \in Request, pc'[q] = "retry", q # r
        PROVE  /\ pc[q] = "retry" /\ Target(q)' = Target(q) /\ picks'[q] = picks[q]
               /\ scenes[Target(q)] # NoScene => scenes[Target(q)].sources = <<picks[q][1][1]>>
    BY <1>1, <2>1 DEF Target, Told, RetriesFaithful
  <2>2. ASSUME NEW q \in Request, pc'[q] = "retry", Target(q)' = id
        PROVE  picks'[q][1][1] = scenes[id].sources[1]
    <3>1. CASE q = r
      BY <1>1, <3>1
    <3>2. CASE q # r
      <4>1. scenes[id].sources = <<picks[q][1][1]>> /\ picks'[q] = picks[q]
        BY <1>3, <2>1, <2>2, <3>2
      <4>2. QED
        BY <4>1
    <3>3. QED
      BY <3>1, <3>2
  <2>3. ASSUME NEW q \in Request, pc'[q] = "retry"
        PROVE  /\ (scenes[Target(q)] # NoScene =>
                      scenes[Target(q)].sources = <<picks[q][1][1]>>)'
               /\ \A p \in Request : (pc[p] = "retry" /\ Target(p) = Target(q) =>
                      picks[p][1][1] = picks[q][1][1])'
    <3>1. CASE Target(q)' = id
      BY <1>1, <1>7, <2>2, <2>3, <3>1
    <3>2. CASE Target(q)' # id
      <4>1. q # r
        BY <1>4, <3>2
      <4>2. \A p \in Request : pc'[p] = "retry" /\ Target(p)' = Target(q)' =>
                p # r /\ pc[p] = "retry" /\ Target(p) = Target(q) /\ picks'[p] = picks[p]
        BY <1>4, <2>1, <2>3, <3>2, <4>1
      <4>3. \A p \in Request : pc[p] = "retry" /\ Target(p) = Target(q) =>
                picks[p][1][1] = picks[q][1][1]
        BY <2>1, <2>3, <4>1 DEF Told, RetriesFaithful
      <4>4. QED
        BY <1>1, <2>1, <2>3, <4>1, <4>2, <4>3
    <3>3. QED
      BY <3>1, <3>2
  <2>4. QED
    BY <2>3 DEF RetriesFaithful
<1>9. QED
  BY <1>2, <1>5, <1>6, <1>8, QuietWhole, QuietTold

\* A combination is begun with scenes that can be combined.
LEMMA BeginChainKeeps ==
    ASSUME Typed, OneBuild, Whole, Told, NEW r \in Request,
           NEW n \in 2..MaxItems, NEW q \in [1..n -> OnBoard], BeginChain(r, q)
    PROVE  Whole' /\ Told'
<1>0. n \in Nat /\ n >= 2 /\ q \in Seq(SceneId) /\ Len(q) = n /\ DOMAIN q = 1..n
  BY BoundsAssumption, BoardType DEF Typed
<1>1. /\ pc[r] = "idle" /\ pc'[r] = "chain" /\ ids'[r] = q
      /\ \A id \in Range(q) : id \in SceneId => seen'[r][id] = scenes[id]
      /\ scenes' = scenes /\ order' = order /\ members' = members /\ fresh' = fresh
      /\ \A x \in Request : x # r =>
           /\ pc'[x] = pc[x] /\ ids'[x] = ids[x]
           /\ seen'[x] = seen[x] /\ picks'[x] = picks[x]
  BY DEF BeginChain, Hold, session, Typed, TypeOK
<1>2. Quiet(r)
  BY <1>1, ReadingStill DEF Stale
<1>3. ASSUME NEW i \in 1..n
      PROVE  /\ seen'[r][q[i]] = scenes[q[i]]
             /\ Combinable(scenes[q[i]])
             /\ SceneTemplate(scenes[q[i]]) = SceneTemplate(scenes[q[1]])
  <2>1. q[i] \in Range(q) /\ q[i] \in SceneId
    BY <1>0 DEF Range
  <2>2. QED
    BY <1>0, <1>1, <2>1 DEF BeginChain
<1>4. Midway(r)'
  <2>1. 1 \in 1..n
    BY <1>0
  <2>2. Len(ids'[r]) >= 2 /\ DOMAIN ids'[r] = 1..n
    BY <1>0, <1>1
  <2>3. \A i \in 1..n :
           /\ Combinable(seen'[r][ids'[r][i]])
           /\ SceneTemplate(seen'[r][ids'[r][i]]) = SceneTemplate(seen'[r][ids'[r][1]])
    BY <1>1, <1>3, <2>1
  <2>4. (/\ Len(ids[r]) >= 2
         /\ \A i \in DOMAIN ids[r] :
              /\ Combinable(seen[r][ids[r][i]])
              /\ SceneTemplate(seen[r][ids[r][i]]) = SceneTemplate(seen[r][ids[r][1]]))'
    BY <2>2, <2>3 DEF Combinable, SceneTemplate, IsChained, MismatchSettled, Mismatch
  <2>5. QED
    BY <1>1, <2>4 DEF Midway, Building
<1>5. Pending(r)'
  BY <1>1 DEF Pending, Building
<1>6. RetriesStay
  BY <1>1 DEF RetriesStay
<1>7. QED
  BY <1>2, <1>4, <1>5, <1>6, QuietWhole, QuietTold, RetriesKept

\* A build is begun by one that may, with distinct candidates.
LEMMA BeginBuildKeeps ==
    ASSUME Typed, OneBuild, Whole, Told, NEW r \in Request, BeginBuild(r)
    PROVE  Whole' /\ Told'
<1>1. PICK p \in PickLists : picks' = [picks EXCEPT ![r] = p]
  BY DEF BeginBuild
<1>2. /\ pc[r] = "idle" /\ pc'[r] = "clear_scenes" /\ picks'[r] = p /\ r \in Builder
      /\ scenes' = scenes /\ order' = order /\ members' = members /\ fresh' = fresh
      /\ \A x \in Request : x # r =>
           /\ pc'[x] = pc[x] /\ ids'[x] = ids[x]
           /\ seen'[x] = seen[x] /\ picks'[x] = picks[x]
  BY <1>1 DEF BeginBuild, session, Typed, TypeOK
<1>3. Quiet(r)
  BY <1>2, ReadingStill DEF Stale
<1>4. Midway(r)'
  BY <1>2 DEF Midway
<1>5. Pending(r)'
  <2>1. \A i, j \in DOMAIN p : p[i][1] = p[j][1] => i = j
    BY DEF PickLists
  <2>2. QED
    BY <1>2, <2>1 DEF Pending
<1>6. RetriesStay
  BY <1>2 DEF RetriesStay
<1>7. QED
  BY <1>3, <1>4, <1>5, <1>6, QuietWhole, QuietTold, RetriesKept

\* Remembering the template drops the pick whose scene is on the board.
LEMMA RecordRequestedKeeps ==
    ASSUME Typed, OneBuild, Whole, Told, NEW r \in Request, RecordRequested(r)
    PROVE  Whole' /\ Told'
<1>1. /\ pc[r] = "request" /\ pc'[r] = "build" /\ picks'[r] = Tail(picks[r])
      /\ scenes' = scenes /\ order' = order /\ members' = members /\ fresh' = fresh
      /\ \A x \in Request : x # r =>
           /\ pc'[x] = pc[x] /\ ids'[x] = ids[x]
           /\ seen'[x] = seen[x] /\ picks'[x] = picks[x]
  BY DEF RecordRequested, Step, Typed, TypeOK
<1>2. Quiet(r)
  BY <1>1, ReadingStill DEF Stale
<1>3. Midway(r) /\ Pending(r)
  BY DEF Whole, RequestsMidway, Told, PicksPending
<1>4. Midway(r)'
  BY <1>1, <1>3 DEF Midway, Building
<1>5. Pending(r)'
  <2>1. picks[r] \in Seq(Candidate \X Template) /\ picks[r] # <<>>
    BY <1>1 DEF Typed, TypeOK, Held
  <2>2. /\ DOMAIN Tail(picks[r]) = 1..Len(picks[r]) - 1
        /\ \A i \in 1..Len(picks[r]) - 1 : Tail(picks[r])[i] = picks[r][i + 1]
    BY <2>1
  <2>3. ASSUME NEW i \in DOMAIN Tail(picks[r])
        PROVE  i + 1 \in DOMAIN picks[r] /\ i + 1 # 1 /\ i \in Int
               /\ Tail(picks[r])[i] = picks[r][i + 1]
    BY <2>1, <2>2
  <2>4. ASSUME NEW i \in DOMAIN Tail(picks[r]), NEW j \in DOMAIN Tail(picks[r]),
               Tail(picks[r])[i][1] = Tail(picks[r])[j][1]
        PROVE  i = j
    <3>1. picks[r][i + 1][1] = picks[r][j + 1][1]
      BY <2>3, <2>4
    <3>2. i + 1 = j + 1
      BY <1>1, <1>3, <2>3, <3>1 DEF Pending, Building
    <3>3. QED
      BY <2>3, <3>2
  <2>5. ASSUME NEW i \in DOMAIN Tail(picks[r])
        PROVE  Tail(picks[r])[i][1] \notin OnShow
    BY <1>1, <1>3, <2>3 DEF Pending
  <2>6. OnShow' = OnShow
    BY <1>1 DEF OnShow, OnBoard, Sources
  <2> DEFINE rest == Tail(picks[r])
  <2> HIDE DEF rest
  <2>7. /\ picks'[r] = rest
        /\ \A i, j \in DOMAIN rest : rest[i][1] = rest[j][1] => i = j
        /\ \A i \in DOMAIN rest : rest[i][1] \notin OnShow'
    BY <1>1, <2>4, <2>5, <2>6 DEF rest
  <2>8. QED
    BY <1>1, <2>7 DEF Pending
<1>6. RetriesStay
  BY <1>1 DEF RetriesStay
<1>7. QED
  BY <1>2, <1>4, <1>5, <1>6, QuietWhole, QuietTold, RetriesKept

\* Clearing the templates asked for leaves the empty board as it is.
LEMMA ClearRequestedKeeps ==
    ASSUME Typed, OneBuild, Whole, Told, NEW r \in Request, ClearRequested(r)
    PROVE  Whole' /\ Told'
<1>1. /\ pc[r] = "clear_requested" /\ pc'[r] = "clear_members" /\ picks' = picks
      /\ scenes' = scenes /\ order' = order /\ members' = members /\ fresh' = fresh
      /\ \A x \in Request : x # r =>
           /\ pc'[x] = pc[x] /\ ids'[x] = ids[x]
           /\ seen'[x] = seen[x] /\ picks'[x] = picks[x]
  BY DEF ClearRequested, Step, Typed, TypeOK
<1>2. Quiet(r)
  BY <1>1 DEF Quiet, SourcesKept, Gone, Stale
<1>3. Midway(r) /\ Pending(r)
  BY DEF Whole, RequestsMidway, Told, PicksPending
<1>4. Midway(r)'
  BY <1>1, <1>3 DEF Midway, Building
<1>5. Pending(r)'
  BY <1>1, <1>3 DEF Pending, Building
<1>6. RetriesStay
  BY <1>1 DEF RetriesStay
<1>7. QED
  BY <1>2, <1>4, <1>5, <1>6, QuietWhole, QuietTold, RetriesKept

\* What assemble_scene returns is about the candidate it was asked for.
LEMMA AssembledSources ==
    ASSUME NEW c, NEW t, NEW n, NEW s \in Assembled(c, t, n)
    PROVE  s.sources = <<c>>
<1>1. PICK p, a, st : s = NewScene(<<c>>, <<p>>, a, st, n)
  <2>1. \/ \E p \in {q \in Content : TemplateOf[q] = t},
              a \in {NoAnswer} \union (IF t \in AnswerStating THEN Answer ELSE {}) :
              s = NewScene(<<c>>, <<p>>, a, "pending_review", n)
        \/ \E p \in {q \in Content : TemplateOf[q] = TextCard /\ t # TextCard} :
              s = NewScene(<<c>>, <<p>>, NoAnswer, "fallback", n)
    BY DEF Assembled
  <2>2. QED
    BY <2>1
<1>2. QED
  BY <1>1 DEF NewScene

\* A retry stores a scene of the same sources, or one where there was none.
LEMMA CommitRetryQuiet ==
    ASSUME Typed, Whole, Told, NEW r \in Request, CommitRetry(r)
    PROVE  Quiet(r)
<1> DEFINE id == Target(r)
           c == picks[r][1][1]
<1>1. c \in Candidate /\ picks[r][1][2] \in Template /\ assemblies + 1 \in Nat
  BY DEF Typed, TypeOK, Held, CommitRetry
<1>2. PICK s \in Assembled(c, picks[r][1][2], assemblies + 1) :
          scenes' = [scenes EXCEPT ![id] = s]
  BY DEF CommitRetry
<1>3. s # NoScene /\ s.sources = <<c>>
  BY <1>1, AssembledType, AssembledSources, NoSceneAssumption
<1>4. /\ pc[r] = "retry" /\ Finish(r)
      /\ order' = order /\ members' = members /\ fresh' = fresh
  BY DEF CommitRetry
<1>5. \A q \in Request : q # r =>
        /\ pc'[q] = pc[q] /\ ids'[q] = ids[q]
        /\ seen'[q] = seen[q] /\ picks'[q] = picks[q]
  BY <1>4, FinishAlone
<1>6. id \in SceneId /\ members[id] = <<>>
  BY <1>4, RetryTarget DEF Whole, RequestsMidway, Midway
<1>7. scenes[id] # NoScene => scenes[id].sources = <<c>>
  BY <1>4 DEF Told, RetriesFaithful
<1>8. /\ scenes'[id] = s
      /\ \A x \in SceneId : x # id => scenes'[x] = scenes[x]
  BY <1>2, <1>6 DEF Typed, TypeOK, SceneMap
<1>9. ASSUME NEW x \in SceneId PROVE SourcesKept(x)
  BY <1>3, <1>6, <1>7, <1>8 DEF SourcesKept
<1>10. QED
  BY <1>4, <1>5, <1>9 DEF Quiet, Gone, Stale

\* It is about the candidate every retry of that id has.
LEMMA CommitRetryKeeps ==
    ASSUME Typed, OneBuild, Whole, Told, NEW r \in Request, CommitRetry(r)
    PROVE  Whole' /\ Told'
<1> DEFINE id == Target(r)
           c == picks[r][1][1]
<1>1. c \in Candidate /\ picks[r][1][2] \in Template /\ assemblies + 1 \in Nat
  BY DEF Typed, TypeOK, Held, CommitRetry
<1>2. PICK s \in Assembled(c, picks[r][1][2], assemblies + 1) :
          scenes' = [scenes EXCEPT ![id] = s]
  BY DEF CommitRetry
<1>3. s \in Scene /\ s # NoScene /\ s.sources = <<c>>
  BY <1>1, AssembledType, AssembledSources, NoSceneAssumption
<1>4. /\ pc[r] = "retry" /\ Finish(r)
      /\ order' = order /\ members' = members /\ fresh' = fresh
  BY DEF CommitRetry
<1>5. /\ pc'[r] = "idle"
      /\ \A q \in Request : q # r =>
           /\ pc'[q] = pc[q] /\ ids'[q] = ids[q]
           /\ seen'[q] = seen[q] /\ picks'[q] = picks[q]
  BY <1>4, FinishAlone
<1>6. id \in SceneId /\ members[id] = <<>>
  BY <1>4, RetryTarget DEF Whole, RequestsMidway, Midway
<1>7. scenes[id] # NoScene => scenes[id].sources = <<c>>
  BY <1>4 DEF Told, RetriesFaithful
<1>8. /\ scenes'[id] = s
      /\ \A x \in SceneId : x # id => scenes'[x] = scenes[x]
  BY <1>2, <1>6 DEF Typed, TypeOK, SceneMap
<1>9. Quiet(r)
  BY CommitRetryQuiet
<1>10. Midway(r)' /\ Pending(r)'
  BY <1>5 DEF Midway, Pending, Building
<1>11. RetriesFaithful'
  <2>1. ASSUME NEW q \in Request, pc'[q] = "retry"
        PROVE  /\ q # r /\ pc[q] = "retry" /\ Target(q)' = Target(q) /\ picks'[q] = picks[q]
               /\ Target(q) = id => picks[q][1][1] = c
    BY <1>4, <1>5, <2>1 DEF Target, Told, RetriesFaithful
  <2> HIDE DEF id, c
  <2>2. ASSUME NEW q \in Request, pc'[q] = "retry"
        PROVE  (scenes[Target(q)] # NoScene =>
                    scenes[Target(q)].sources = <<picks[q][1][1]>>)'
    <3>1. Target(q) \in SceneId
      BY <2>1, <2>2, RetryTarget
    <3>2. CASE Target(q) = id
      BY <1>3, <1>8, <2>1, <2>2, <3>2
    <3>3. CASE Target(q) # id
      BY <1>8, <2>1, <2>2, <3>1, <3>3 DEF Told, RetriesFaithful
    <3>4. QED
      BY <3>2, <3>3
  <2>3. ASSUME NEW q \in Request, pc'[q] = "retry",
               NEW p \in Request, pc'[p] = "retry", Target(p)' = Target(q)'
        PROVE  picks'[p][1][1] = picks'[q][1][1]
    BY <2>1, <2>3 DEF Told, RetriesFaithful
  <2>4. QED
    BY <2>2, <2>3 DEF RetriesFaithful
<1>12. QED
  BY <1>9, <1>10, <1>11, QuietWhole, QuietTold

-----------------------------------------------------------------------------
(* Clearing the board *)

\* r, which builds, is the only request whose phase has moved.
LEMMA StepAlone ==
    ASSUME Typed, NEW r \in Request, NEW p, NEW q, Step(r, p, q)
    PROVE  /\ pc[r] = p /\ pc'[r] = q
           /\ \A x \in Request : x # r => pc'[x] = pc[x]
           /\ seen' = seen
BY DEF Step, Typed, TypeOK

\* One request builds.
LEMMA BuilderAlone ==
    ASSUME Whole, OneBuild, NEW r \in Request, pc[r] \in Building,
           NEW q \in Request, pc[q] \in Building
    PROVE  q = r
BY DEF Whole, RequestsMidway, Midway, OneBuild

\* The scenes are gone; the board and the combinations still name them.
LEMMA ClearScenesKeeps ==
    ASSUME Typed, OneBuild, Whole, Told, NEW r \in Request, ClearScenes(r)
    PROVE  Whole' /\ Told'
<1>1. /\ pc[r] = "clear_scenes" /\ pc'[r] = "clear_order"
      /\ \A x \in Request : x # r => pc'[x] = pc[x]
      /\ scenes' = Nothing /\ order' = order /\ members' = members /\ fresh' = fresh
      /\ seen' = seen /\ ids' = ids /\ picks' = picks
  BY StepAlone DEF ClearScenes
<1>2. Clearing(Gone)' /\ Clearing(Stale)'
  BY <1>1 DEF Clearing, Gone, Stale
<1>3. OnBoard' = OnBoard /\ \A id \in SceneId : scenes'[id] = NoScene
  BY <1>1 DEF OnBoard, Nothing
<1>4. FreshUnused' /\ MembersChained'
  BY <1>1, <1>3 DEF Whole, FreshUnused, MembersChained
<1>5. RequestsMidway'
  <2>1. ASSUME NEW q \in Request PROVE Midway(q)'
    <3>1. Midway(q) /\ Target(q)' = Target(q)
      BY <1>1 DEF Whole, RequestsMidway, Target
    <3>2. CASE q = r
      <4>1. r \in Builder
        BY <1>1, <3>1, <3>2 DEF Midway, Building
      <4>2. QED
        BY <1>1, <3>2, <4>1 DEF Midway
    <3>3. CASE q # r
      <4>1. pc'[q] = pc[q] /\ pc[q] \notin Building
        BY <1>1, <3>3, BuilderAlone DEF Building
      <4>2. QED
        BY <1>1, <3>1, <4>1 DEF Midway, Building
    <3>4. QED
      BY <3>2, <3>3
  <2>2. QED
    BY <2>1 DEF RequestsMidway
<1>6. Whole'
  BY <1>2, <1>4, <1>5 DEF Whole, BoardStored, CombinationsWhole
<1>7. RetriesStay
  BY <1>1, <1>3 DEF RetriesStay
<1>8. PicksPending'
  <2>1. ASSUME NEW q \in Request PROVE Pending(q)'
    <3>1. Pending(q)
      BY DEF Told, PicksPending
    <3>2. CASE q = r
      BY <1>1, <3>1, <3>2 DEF Pending, Building
    <3>3. CASE q # r
      <4>1. pc'[q] = pc[q] /\ pc[q] \notin Building
        BY <1>1, <3>3, BuilderAlone DEF Building
      <4>2. QED
        BY <4>1 DEF Pending, Building
    <3>4. QED
      BY <3>2, <3>3
  <2>2. QED
    BY <2>1 DEF PicksPending
<1>9. Told'
  BY <1>2, <1>7, <1>8, RetriesKept DEF Told, ShownOnce, MembersShown
<1>10. QED
  BY <1>6, <1>9

\* The board is empty: whatever requests have stored since the first clear is
\* off it.
LEMMA ClearOrderKeeps ==
    ASSUME Typed, OneBuild, Whole, Told, NEW r \in Request, ClearOrder(r)
    PROVE  Whole' /\ Told'
<1>1. /\ pc[r] = "clear_order" /\ pc'[r] = "clear_requested"
      /\ \A x \in Request : x # r => pc'[x] = pc[x]
      /\ scenes' = scenes /\ order' = <<>> /\ members' = members /\ fresh' = fresh
      /\ seen' = seen /\ ids' = ids /\ picks' = picks
  BY StepAlone DEF ClearOrder
<1>2. Clearing(Stale)'
  BY <1>1 DEF Clearing, Stale
<1>3. OnBoard' = {} /\ IsInjective(order')
  BY <1>1 DEF OnBoard, Range, IsInjective
<1>4. FreshUnused' /\ MembersChained' /\ BoardStored'
  BY <1>1, <1>3 DEF Whole, FreshUnused, MembersChained, BoardStored
<1>5. ASSUME NEW q \in Request, q # r
      PROVE  pc'[q] = pc[q] /\ pc[q] \notin Building
  BY <1>1, <1>5, BuilderAlone DEF Building
<1>6. RequestsMidway'
  <2>1. ASSUME NEW q \in Request PROVE Midway(q)'
    <3>1. Midway(q) /\ Target(q)' = Target(q)
      BY <1>1 DEF Whole, RequestsMidway, Target
    <3>2. CASE q = r
      <4>1. r \in Builder
        BY <1>1, <3>1, <3>2 DEF Midway, Building
      <4>2. QED
        BY <1>1, <3>2, <4>1 DEF Midway
    <3>3. CASE q # r
      BY <1>1, <1>5, <3>1, <3>3 DEF Midway, Building
    <3>4. QED
      BY <3>2, <3>3
  <2>2. QED
    BY <2>1 DEF RequestsMidway
<1>7. Whole'
  BY <1>2, <1>4, <1>6 DEF Whole, CombinationsWhole
<1>8. RetriesStay
  BY <1>1 DEF RetriesStay
<1>9. PicksPending'
  <2>1. ASSUME NEW q \in Request PROVE Pending(q)'
    <3>1. Pending(q)
      BY DEF Told, PicksPending
    <3>2. CASE q = r
      BY <1>1, <3>1, <3>2 DEF Pending, Building
    <3>3. CASE q # r
      BY <1>5, <3>3 DEF Pending, Building
    <3>4. QED
      BY <3>2, <3>3
  <2>2. QED
    BY <2>1 DEF PicksPending
<1>10. Told'
  BY <1>2, <1>3, <1>8, <1>9, RetriesKept DEF Told, ShownOnce, MembersShown
<1>11. QED
  BY <1>7, <1>10

\* There are no combinations any more.
LEMMA ClearMembersKeeps ==
    ASSUME Typed, OneBuild, Whole, Told, NEW r \in Request, ClearMembers(r)
    PROVE  Whole' /\ Told'
<1>1. /\ pc[r] = "clear_members" /\ pc'[r] = "build"
      /\ \A x \in Request : x # r => pc'[x] = pc[x]
      /\ scenes' = scenes /\ order' = order /\ fresh' = fresh
      /\ members' = [id \in SceneId |-> <<>>]
      /\ seen' = seen /\ ids' = ids /\ picks' = picks
  BY StepAlone DEF ClearMembers
<1>2. Midway(r) /\ order = <<>>
  BY <1>1 DEF Whole, RequestsMidway, Midway
<1>3. OnBoard' = {} /\ OnShow' = {} /\ IsInjective(order')
  BY <1>1, <1>2 DEF OnBoard, OnShow, Range, IsInjective
<1>4. \A c \in SceneId : members'[c] = <<>> /\ Range(members'[c]) = {}
  BY <1>1 DEF Range
<1>5. FreshUnused' /\ MembersChained' /\ BoardStored' /\ CombinationsWhole'
  BY <1>1, <1>3, <1>4 DEF Whole, FreshUnused, MembersChained, BoardStored, CombinationsWhole,
                          Typed, TypeOK
<1>6. ASSUME NEW q \in Request, q # r
      PROVE  pc'[q] = pc[q] /\ pc[q] \notin Building
  BY <1>1, <1>6, BuilderAlone DEF Building
<1>7. RequestsMidway'
  <2>1. ASSUME NEW q \in Request PROVE Midway(q)'
    <3>1. Midway(q) /\ Target(q)' = Target(q)
      BY <1>1 DEF Whole, RequestsMidway, Target
    <3>2. CASE q = r
      <4>1. r \in Builder
        BY <1>1, <3>1, <3>2 DEF Midway, Building
      <4>2. QED
        BY <1>1, <3>2, <4>1 DEF Midway
    <3>3. CASE q # r
      <4>1. pc[q] = "retry" => Target(q) \in SceneId
        BY RetryTarget
      <4>2. QED
        BY <1>1, <1>4, <1>6, <3>1, <3>3, <4>1 DEF Midway, Building
    <3>4. QED
      BY <3>2, <3>3
  <2>2. QED
    BY <2>1 DEF RequestsMidway
<1>8. Whole'
  BY <1>5, <1>7 DEF Whole
<1>9. RetriesStay
  BY <1>1 DEF RetriesStay
<1>10. PicksPending'
  <2>1. ASSUME NEW q \in Request PROVE Pending(q)'
    <3>1. Pending(q)
      BY DEF Told, PicksPending
    <3>2. CASE q = r
      BY <1>1, <1>3, <3>1, <3>2 DEF Pending, Building
    <3>3. CASE q # r
      BY <1>6, <3>3 DEF Pending, Building
    <3>4. QED
      BY <3>2, <3>3
  <2>2. QED
    BY <2>1 DEF PicksPending
<1>11. Told'
  BY <1>3, <1>4, <1>9, <1>10, RetriesKept DEF Told, ShownOnce, MembersShown
<1>12. QED
  BY <1>8, <1>11

-----------------------------------------------------------------------------
(* Filling the board *)

\* A scene stored under a new id touches neither the board nor the
\* combinations.
LEMMA StoreSceneKeeps ==
    ASSUME Typed, OneBuild, Whole, Told, NEW r \in Request, StoreScene(r)
    PROVE  Whole' /\ Told'
<1> DEFINE c == picks[r][1][1]
<1>1. c \in Candidate /\ picks[r][1][2] \in Template /\ assemblies \in Nat
      /\ picks[r] # <<>> /\ 1 \in DOMAIN picks[r]
  BY DEF Typed, TypeOK, StoreScene
<1>2. PICK id \in fresh, s \in Assembled(c, picks[r][1][2], assemblies) :
         /\ scenes' = [scenes EXCEPT ![id] = s]
         /\ ids' = [ids EXCEPT ![r] = <<id>>]
         /\ fresh' = fresh \ {id}
  BY DEF StoreScene
<1>3. s \in Scene /\ s # NoScene /\ s.sources = <<c>>
  BY <1>1, AssembledType, AssembledSources, NoSceneAssumption
<1>4. id \in SceneId
  BY DEF Typed, TypeOK
<1>5. /\ pc[r] = "build" /\ pc'[r] = "append"
      /\ \A x \in Request : x # r => pc'[x] = pc[x]
      /\ order' = order /\ members' = members /\ seen' = seen /\ picks' = picks
  BY StepAlone DEF StoreScene
<1>6. /\ scenes'[id] = s /\ ids'[r] = <<id>>
      /\ \A x \in SceneId : x # id => scenes'[x] = scenes[x]
      /\ \A q \in Request : q # r => ids'[q] = ids[q]
  BY <1>2, <1>4 DEF Typed, TypeOK, SceneMap
<1>7. /\ id \notin OnBoard /\ members[id] = <<>>
      /\ \A d \in SceneId : id \notin Range(members[d])
  BY DEF Whole, FreshUnused
<1>8. OnBoard' = OnBoard /\ OnBoard \subseteq SceneId
  BY <1>5, BoardType DEF OnBoard, Typed
<1>9. FreshUnused'
  BY <1>2, <1>5, <1>8 DEF Whole, FreshUnused
<1>10. MembersChained'
  BY <1>5, <1>6, <1>7 DEF Whole, MembersChained
<1>11. ~Clearing(Gone) /\ ~Clearing(Stale)
  BY <1>5, NothingCleared
<1>12. BoardStored'
  <2>1. \A x \in OnBoard : scenes'[x] # NoScene
    BY <1>6, <1>7, <1>8, <1>11 DEF Whole, BoardStored
  <2>2. QED
    BY <1>5, <1>8, <1>11, <2>1 DEF Whole, BoardStored
<1>13. \A d \in SceneId : Range(members[d]) \subseteq SceneId \ {id}
  BY <1>7 DEF Typed, TypeOK, Range
<1>14. CombinationsWhole'
  <2>1. ASSUME NEW d \in SceneId, members[d] # <<>> PROVE Combination(d)'
    <3>1. Combination(d)
      BY <1>11, <2>1 DEF Whole, CombinationsWhole
    <3>2. QED
      BY <1>5, <1>6, <1>8, <1>13, <3>1 DEF Combination
  <2>2. QED
    BY <1>5, <2>1 DEF CombinationsWhole
<1>15. ASSUME NEW q \in Request, q # r
       PROVE  pc'[q] = pc[q] /\ pc[q] \notin Building /\ Target(q)' = Target(q)
  BY <1>5, <1>6, <1>15, BuilderAlone DEF Building, Target
<1>16. Target(r)' = id
  BY <1>6 DEF Target
<1>17. Waiting(id)'
  BY <1>2, <1>3, <1>5, <1>6, <1>7, <1>8 DEF Waiting
<1>18. RequestsMidway'
  <2>1. ASSUME NEW q \in Request PROVE Midway(q)'
    <3>1. Midway(q)
      BY DEF Whole, RequestsMidway
    <3>2. CASE q = r
      <4>1. r \in Builder
        BY <1>5, <3>1, <3>2 DEF Midway, Building
      <4>2. Waiting(Target(r))'
        BY <1>16, <1>17
      <4>3. QED
        BY <1>5, <3>2, <4>1, <4>2 DEF Midway
    <3>3. CASE q # r
      BY <1>2, <1>5, <1>6, <1>15, <3>1, <3>3 DEF Midway, Building
    <3>4. QED
      BY <3>2, <3>3
  <2>2. QED
    BY <2>1 DEF RequestsMidway
<1>19. Whole'
  BY <1>9, <1>10, <1>12, <1>14, <1>18 DEF Whole
<1>20. \A x \in SceneId : x # id => Sources(x)' = Sources(x)
  BY <1>6 DEF Sources
<1>21. OnShow' = OnShow
  BY <1>7, <1>8, <1>20 DEF OnShow
<1>22. Sources(id)' = {c}
  BY <1>3, <1>6 DEF Sources, Range
<1>23. ShownOnce'
  BY <1>7, <1>8, <1>11, <1>20 DEF Told, ShownOnce
<1>24. MembersShown'
  <2>1. ASSUME NEW d \in SceneId, members[d] # <<>>
        PROVE  /\ Sources(d)' = UNION {Sources(m)' : m \in Range(members[d])}
               /\ \A a, b \in Range(members[d]) : a # b =>
                      Sources(a)' \intersect Sources(b)' = {}
    <3>1. /\ Sources(d) = UNION {Sources(m) : m \in Range(members[d])}
          /\ \A a, b \in Range(members[d]) : a # b => Sources(a) \intersect Sources(b) = {}
      BY <1>11, <2>1 DEF Told, MembersShown
    <3>2. d # id
      BY <1>7, <2>1
    <3>3. Sources(d)' = Sources(d) /\ \A m \in Range(members[d]) : Sources(m)' = Sources(m)
      BY <1>13, <1>20, <3>2
    <3>4. QED
      BY <3>1, <3>3
  <2>2. QED
    BY <1>5, <2>1 DEF MembersShown
<1>25. PicksPending'
  <2>1. ASSUME NEW q \in Request PROVE Pending(q)'
    <3>1. Pending(q)
      BY DEF Told, PicksPending
    <3>2. CASE q = r
      <4>1. Sources(Target(r))' = {picks'[r][1][1]}
        BY <1>5, <1>16, <1>22
      <4>2. QED
        BY <1>5, <1>21, <3>1, <3>2, <4>1 DEF Pending, Building
    <3>3. CASE q # r
      BY <1>15, <3>3 DEF Pending, Building
    <3>4. QED
      BY <3>2, <3>3
  <2>2. QED
    BY <2>1 DEF PicksPending
<1>26. RetriesStay
  BY <1>5, <1>6, <1>15 DEF RetriesStay
<1>27. Told'
  BY <1>23, <1>24, <1>25, <1>26, RetriesKept DEF Told
<1>28. QED
  BY <1>19, <1>27

\* The scene stored last joins the board, and its problem is new there.
LEMMA AppendSceneKeeps ==
    ASSUME Typed, OneBuild, Whole, Told, NEW r \in Request, AppendScene(r)
    PROVE  Whole' /\ Told'
<1>1. /\ pc[r] = "append" /\ pc'[r] = "request"
      /\ \A x \in Request : x # r => pc'[x] = pc[x]
      /\ scenes' = scenes /\ order' = Append(order, Target(r)) /\ members' = members
      /\ fresh' = fresh /\ seen' = seen /\ ids' = ids /\ picks' = picks
  BY StepAlone DEF AppendScene
<1>2. PICK id \in SceneId : id = Target(r)
  BY <1>1 DEF Typed, TypeOK, Held, Target
<1>3. Waiting(id)
  BY <1>1, <1>2 DEF Whole, RequestsMidway, Midway
<1>4. ~Clearing(Gone) /\ ~Clearing(Stale)
  BY <1>1, NothingCleared
<1>5. /\ order \in Seq(SceneId) /\ order' = Append(order, id)
      /\ DOMAIN order = 1..Len(order) /\ DOMAIN order' = 1..Len(order) + 1
      /\ order'[Len(order) + 1] = id
      /\ \A k \in 1..Len(order) : order'[k] = order[k]
      /\ Len(order) \in Nat
  BY <1>1, <1>2 DEF Typed, TypeOK
<1>6. OnBoard' = OnBoard \union {id}
  <2>1. OnBoard' \subseteq OnBoard \union {id}
    BY <1>5 DEF OnBoard, Range
  <2>2. OnBoard \subseteq OnBoard'
    BY <1>5 DEF OnBoard, Range
  <2>3. id \in OnBoard'
    BY <1>5 DEF OnBoard, Range
  <2>4. QED
    BY <2>1, <2>2, <2>3
<1>7. IsInjective(order')
  <2>1. IsInjective(order)
    BY <1>4 DEF Whole, BoardStored
  <2>2. \A k \in 1..Len(order) : order[k] # id
    BY <1>3, <1>5 DEF Waiting, OnBoard, Range
  <2>3. QED
    BY <1>5, <2>1, <2>2 DEF IsInjective
<1>8. FreshUnused'
  BY <1>1, <1>3, <1>6 DEF Whole, FreshUnused, Waiting
<1>9. MembersChained'
  BY <1>1 DEF Whole, MembersChained
<1>10. BoardStored'
  BY <1>1, <1>3, <1>4, <1>6, <1>7 DEF Whole, BoardStored, Waiting
<1>11. CombinationsWhole'
  <2>1. ASSUME NEW d \in SceneId, members[d] # <<>> PROVE Combination(d)'
    <3>1. Combination(d) /\ id \notin Range(members[d])
      BY <1>3, <1>4, <2>1 DEF Whole, CombinationsWhole, Waiting
    <3>2. QED
      BY <1>1, <1>6, <3>1 DEF Combination
  <2>2. QED
    BY <1>1, <2>1 DEF CombinationsWhole
<1>12. ASSUME NEW q \in Request, q # r
       PROVE  pc'[q] = pc[q] /\ pc[q] \notin Building
  BY <1>1, <1>12, BuilderAlone DEF Building
<1>13. RequestsMidway'
  <2>1. ASSUME NEW q \in Request PROVE Midway(q)'
    <3>1. Midway(q) /\ Target(q)' = Target(q)
      BY <1>1 DEF Whole, RequestsMidway, Target
    <3>2. CASE q = r
      <4>1. r \in Builder
        BY <1>1, <3>1, <3>2 DEF Midway, Building
      <4>2. QED
        BY <1>1, <3>2, <4>1 DEF Midway
    <3>3. CASE q # r
      BY <1>1, <1>12, <3>1, <3>3 DEF Midway, Building
    <3>4. QED
      BY <3>2, <3>3
  <2>2. QED
    BY <2>1 DEF RequestsMidway
<1>14. Whole'
  BY <1>8, <1>9, <1>10, <1>11, <1>13 DEF Whole
<1>15. \A x \in SceneId : Sources(x)' = Sources(x)
  BY <1>1 DEF Sources
<1>16. OnBoard \subseteq SceneId
  BY BoardType DEF Typed
<1>17. Pending(r) /\ Sources(id) = {picks[r][1][1]} /\ 1 \in DOMAIN picks[r]
  <2>1. Pending(r)
    BY DEF Told, PicksPending
  <2>2. picks[r] # <<>> /\ picks[r] \in Seq(Candidate \X Template)
    BY <1>1 DEF Typed, TypeOK, Held
  <2>3. Sources(id) = {picks[r][1][1]}
    BY <1>1, <1>2, <2>1 DEF Pending
  <2>4. QED
    BY <2>1, <2>2, <2>3
<1>18. OnShow' = OnShow \union {picks[r][1][1]}
  BY <1>6, <1>15, <1>16, <1>17 DEF OnShow
<1>19. picks[r][1][1] \notin OnShow
  BY <1>1, <1>17 DEF Pending
<1>20. ShownOnce'
  <2>1. ASSUME NEW a \in OnBoard PROVE Sources(a) \intersect Sources(id) = {}
    BY <1>17, <1>19 DEF OnShow
  <2>2. \A a, b \in OnBoard : a # b => Sources(a) \intersect Sources(b) = {}
    BY <1>4 DEF Told, ShownOnce
  <2>3. ASSUME NEW a \in OnBoard \union {id}, NEW b \in OnBoard \union {id}, a # b
        PROVE  Sources(a) \intersect Sources(b) = {}
    BY <2>1, <2>2, <2>3
  <2>4. QED
    BY <1>6, <1>15, <1>16, <2>3 DEF ShownOnce
<1>21. MembersShown'
  <2>1. \A d \in SceneId : Range(members[d]) \subseteq SceneId
    BY DEF Typed, TypeOK, Range
  <2>2. ASSUME NEW d \in SceneId, members[d] # <<>>
        PROVE  /\ Sources(d)' = UNION {Sources(m)' : m \in Range(members[d])}
               /\ \A a, b \in Range(members[d]) : a # b =>
                      Sources(a)' \intersect Sources(b)' = {}
    <3>1. /\ Sources(d) = UNION {Sources(m) : m \in Range(members[d])}
          /\ \A a, b \in Range(members[d]) : a # b => Sources(a) \intersect Sources(b) = {}
      BY <1>4, <2>2 DEF Told, MembersShown
    <3>2. QED
      BY <1>15, <2>1, <3>1
  <2>3. QED
    BY <1>1, <2>2 DEF MembersShown
<1>22. PicksPending'
  <2>1. ASSUME NEW q \in Request PROVE Pending(q)'
    <3>1. CASE q = r
      <4>1. ASSUME NEW i \in DOMAIN picks[r], i # 1
            PROVE  picks[r][i][1] \notin OnShow'
        <5>1. picks[r][i][1] # picks[r][1][1]
          BY <1>1, <1>17, <4>1 DEF Pending, Building
        <5>2. QED
          BY <1>1, <1>17, <1>18, <5>1 DEF Pending
      <4>2. \A i, j \in DOMAIN picks[r] : picks[r][i][1] = picks[r][j][1] => i = j
        BY <1>1, <1>17 DEF Pending, Building
      <4>3. QED
        BY <1>1, <3>1, <4>1, <4>2 DEF Pending
    <3>2. CASE q # r
      BY <1>12, <3>2 DEF Pending, Building
    <3>3. QED
      BY <3>1, <3>2
  <2>2. QED
    BY <2>1 DEF PicksPending
<1>23. RetriesStay
  BY <1>1, <1>12 DEF RetriesStay
<1>24. Told'
  BY <1>20, <1>21, <1>22, <1>23, RetriesKept DEF Told
<1>25. QED
  BY <1>14, <1>24

-----------------------------------------------------------------------------
(* Combining *)

\* When the write of a combination is let through, its ids are on the board,
\* as they were read, and none of them is a combination.
Mergeable(r) ==
    /\ Len(ids[r]) >= 2
    /\ DOMAIN ids[r] = 1..Len(ids[r])
    /\ \A i \in DOMAIN ids[r] :
         /\ ids[r][i] \in SceneId
         /\ ids[r][i] \in OnBoard
         /\ scenes[ids[r][i]] = seen[r][ids[r][i]]
         /\ scenes[ids[r][i]] \in Scene
         /\ Combinable(scenes[ids[r][i]])
         /\ SceneTemplate(scenes[ids[r][i]]) = SceneTemplate(scenes[ids[r][1]])
         /\ members[ids[r][i]] = <<>>

LEMMA ChainMergeable ==
    ASSUME Typed, Whole, NEW r \in Request, CommitChain(r)
    PROVE  Mergeable(r)
<1>1. pc[r] = "chain" /\ MembersCurrent(r)
  BY DEF CommitChain
<1>2. /\ Len(ids[r]) >= 2
      /\ \A i \in DOMAIN ids[r] :
           /\ Combinable(seen[r][ids[r][i]])
           /\ SceneTemplate(seen[r][ids[r][i]]) = SceneTemplate(seen[r][ids[r][1]])
  BY <1>1 DEF Whole, RequestsMidway, Midway
<1>3. ids[r] \in Seq(SceneId) /\ DOMAIN ids[r] = 1..Len(ids[r]) /\ 1 \in DOMAIN ids[r]
  BY <1>2 DEF Typed, TypeOK
<1>4. ASSUME NEW i \in DOMAIN ids[r]
      PROVE  /\ ids[r][i] \in SceneId
             /\ Active(ids[r][i])
             /\ scenes[ids[r][i]] = seen[r][ids[r][i]]
             /\ scenes[ids[r][i]] \in Scene
  <2>1. ids[r][i] \in SceneId
    BY <1>3
  <2>2. Active(ids[r][i]) /\ scenes[ids[r][i]] = seen[r][ids[r][i]]
    BY <1>1 DEF MembersCurrent
  <2>3. QED
    BY <2>1, <2>2 DEF Active, Typed, TypeOK, SceneMap
<1>5. ASSUME NEW i \in DOMAIN ids[r] PROVE members[ids[r][i]] = <<>>
  <2>1. ~IsChained(scenes[ids[r][i]])
    BY <1>2, <1>4 DEF Combinable
  <2>2. QED
    BY <1>4, <2>1, ActiveDrawn
<1>6. QED
  BY <1>2, <1>3, <1>4, <1>5 DEF Mergeable, Active

\* The new scene is about the problems of its members.
Merged(r, new) ==
    /\ scenes'[new] # NoScene
    /\ IsChained(scenes'[new])
    /\ Sources(new)' = UNION {Sources(m) : m \in Range(ids[r])}

LEMMA ChainMerged ==
    ASSUME Typed, NEW r \in Request, Mergeable(r), NEW new \in fresh, Chains(r, new)
    PROVE  Merged(r, new)
<1> DEFINE q == ids[r]
           sources == [i \in 1..Len(q) |-> seen[r][q[i]].sources[1]]
           items == [i \in 1..Len(q) |-> seen[r][q[i]].items[1]]
           s == NewScene(sources, items, NoAnswer, "pending_review", assemblies)
<1>1. Len(q) \in Nat /\ Len(q) >= 2 /\ DOMAIN q = 1..Len(q)
  BY DEF Mergeable, Typed, TypeOK
<1>2. ASSUME NEW i \in 1..Len(q)
      PROVE  /\ seen[r][q[i]].sources[1] \in Candidate
             /\ seen[r][q[i]].items[1] \in Content
             /\ Sources(q[i]) = {seen[r][q[i]].sources[1]}
  <2>1. /\ scenes[q[i]] = seen[r][q[i]] /\ scenes[q[i]] \in Scene
        /\ ~IsChained(scenes[q[i]])
    BY <1>1 DEF Mergeable, Combinable
  <2>2. PICK t : t = seen[r][q[i]]
    OBVIOUS
  <2>3. /\ t \in Scene /\ t.sources \in Seq(Candidate) \ {<<>>}
        /\ t.items \in Seq(Content) \ {<<>>} /\ ~(Len(t.sources) > 1)
    BY <2>1, <2>2 DEF Scene, IsChained
  <2>4. t.sources[1] \in Candidate /\ t.items[1] \in Content /\ DOMAIN t.sources = {1}
    BY <2>3
  <2>5. Range(t.sources) = {t.sources[1]}
    BY <2>4 DEF Range
  <2>6. scenes[q[i]] # NoScene
    BY <2>1, NoSceneAssumption
  <2>7. QED
    BY <2>1, <2>2, <2>4, <2>5, <2>6 DEF Sources
<1>3. sources \in Seq(Candidate) \ {<<>>} /\ items \in Seq(Content) \ {<<>>}
      /\ Len(sources) = Len(q)
  BY <1>1, <1>2
<1>4. assemblies \in Nat /\ NoAnswer \in Answer \union {NoAnswer} /\ "pending_review" \in Status
  BY DEF Typed, TypeOK, Status
<1>5. Range(sources) = UNION {Sources(m) : m \in Range(q)}
  <2>1. ASSUME NEW x \in Range(sources) PROVE x \in UNION {Sources(m) : m \in Range(q)}
    <3>1. PICK i \in 1..Len(q) : x = seen[r][q[i]].sources[1]
      BY DEF Range
    <3>2. x \in Sources(q[i]) /\ q[i] \in Range(q)
      BY <1>1, <1>2, <3>1 DEF Range
    <3>3. QED
      BY <3>2
  <2>2. ASSUME NEW m \in Range(q), NEW x \in Sources(m) PROVE x \in Range(sources)
    <3>1. PICK i \in 1..Len(q) : m = q[i]
      BY <1>1 DEF Range
    <3>2. x = seen[r][q[i]].sources[1]
      BY <1>2, <2>2, <3>1
    <3>3. sources[i] = x /\ i \in DOMAIN sources
      BY <3>2
    <3>4. QED
      BY <3>3 DEF Range
  <2> HIDE DEF sources
  <2>3. QED
    BY <2>1, <2>2
<1>6. scenes'[new] = s
  <2>1. new \in SceneId
    BY DEF Typed, TypeOK
  <2>2. scenes' = [scenes EXCEPT ![new] = s]
    BY DEF Chains
  <2> HIDE DEF s
  <2>3. QED
    BY <2>1, <2>2 DEF Typed, TypeOK, SceneMap
<1> HIDE DEF sources, items
<1>7. s \in Scene /\ s.sources = sources
  BY <1>3, <1>4, NewSceneType DEF NewScene
<1>8. s # NoScene
  BY <1>7, NoSceneAssumption
<1>9. IsChained(s)
  BY <1>1, <1>3, <1>7 DEF IsChained
<1>10. Sources(new)' = Range(sources)
  BY <1>6, <1>7, <1>8 DEF Sources
<1>11. QED
  BY <1>5, <1>6, <1>8, <1>9, <1>10 DEF Merged

\* A request that ends was clearing nothing, so what is being cleared still is.
LEMMA FinishClears ==
    ASSUME Typed, NEW r \in Request, pc[r] \notin Stale, Finish(r)
    PROVE  /\ Clearing(Gone) => Clearing(Gone)'
           /\ Clearing(Stale) => Clearing(Stale)'
BY FinishAlone DEF Clearing, Gone, Stale

\* What a combination changes, for the ids that are in use.
Merging(r, new) ==
    /\ Range(ids[r]) \subseteq OnBoard
    /\ Range(ids[r]) # {}
    /\ \A m \in Range(ids[r]) : scenes[m] # NoScene /\ members[m] = <<>>
    /\ new \notin OnBoard
    /\ members[new] = <<>>
    /\ \A c \in SceneId : new \notin Range(members[c])
    /\ \A c \in SceneId : c # new =>
         scenes'[c] = scenes[c] /\ members'[c] = members[c] /\ Sources(c)' = Sources(c)

LEMMA ChainMerging ==
    ASSUME Typed, Whole, NEW r \in Request, Mergeable(r), NEW new \in fresh, Chains(r, new)
    PROVE  Merging(r, new)
<1>1. new \in SceneId
  BY DEF Typed, TypeOK
<1>2. \A m \in Range(ids[r]) : m \in OnBoard /\ scenes[m] # NoScene /\ members[m] = <<>>
  BY NoSceneAssumption DEF Mergeable, Range
<1>3. ids[r][1] \in Range(ids[r])
  BY DEF Mergeable, Range
<1>4. \A c \in SceneId : c # new => scenes'[c] = scenes[c]
  BY DEF Chains, Typed, TypeOK, SceneMap
<1>5. \A c \in SceneId : c # new => Sources(c)' = Sources(c)
  BY <1>4 DEF Sources
<1>6. \A c \in SceneId : c # new => members'[c] = members[c]
  BY DEF Chains
<1>7. new \notin OnBoard /\ members[new] = <<>> /\ \A c \in SceneId : new \notin Range(members[c])
  BY DEF Whole, FreshUnused
<1>8. QED
  BY <1>2, <1>3, <1>4, <1>5, <1>6, <1>7 DEF Merging

\* Combining keeps the board whole: the members leave it together, and the
\* combination, which is on it, is the only one that has them.
LEMMA CommitChainWhole ==
    ASSUME Typed, Whole, NEW r \in Request, CommitChain(r)
    PROVE  Whole'
<1>1. PICK new \in fresh : Chains(r, new)
  BY ChainEffect
<1>2. Mergeable(r) /\ Merged(r, new) /\ Merging(r, new)
  BY <1>1, ChainMergeable, ChainMerged, ChainMerging
<1>3. /\ Range(ids[r]) \subseteq OnBoard
      /\ Range(ids[r]) # {}
      /\ \A m \in Range(ids[r]) : scenes[m] # NoScene /\ members[m] = <<>>
      /\ new \notin OnBoard
      /\ members[new] = <<>>
      /\ \A c \in SceneId : new \notin Range(members[c])
      /\ \A c \in SceneId : c # new => scenes'[c] = scenes[c] /\ members'[c] = members[c]
  BY <1>2 DEF Merging
<1>4. scenes'[new] # NoScene /\ IsChained(scenes'[new])
  BY <1>2 DEF Merged
<1>5. /\ OnBoard' = (OnBoard \ Range(ids[r])) \union {new}
      /\ fresh' = fresh \ {new}
      /\ Range(members'[new]) = Range(ids[r])
      /\ members'[new] # <<>>
      /\ IsInjective(order) => IsInjective(members'[new]) /\ IsInjective(order')
  BY <1>1, <1>3 DEF Chains
<1>6. new \in SceneId /\ OnBoard \subseteq SceneId /\ fresh \subseteq SceneId
  BY BoardType DEF Typed, TypeOK
<1>7. \A c \in SceneId : Range(members[c]) \subseteq SceneId
  BY DEF Typed, TypeOK, Range
<1>8. /\ pc[r] = "chain" /\ pc'[r] = "idle"
      /\ \A q \in Request : q # r =>
           pc'[q] = pc[q] /\ ids'[q] = ids[q] /\ seen'[q] = seen[q]
  BY FinishAlone DEF CommitChain
<1>9. /\ Clearing(Gone) => Clearing(Gone)'
      /\ Clearing(Stale) => Clearing(Stale)'
  <2>1. Finish(r) /\ pc[r] \notin Stale
    BY <1>8 DEF CommitChain, Stale
  <2>2. QED
    BY <2>1, FinishClears
<1>10. FreshUnused'
  <2>1. ASSUME NEW f \in fresh, f # new
        PROVE  /\ f \notin OnBoard' /\ members'[f] = <<>>
               /\ \A c \in SceneId : f \notin Range(members'[c])
    <3>1. f \in SceneId /\ f \notin OnBoard /\ members[f] = <<>>
          /\ \A c \in SceneId : f \notin Range(members[c])
      BY <1>6 DEF Whole, FreshUnused
    <3>2. \A c \in SceneId : f \notin Range(members'[c])
      BY <1>3, <1>5, <3>1
    <3>3. QED
      BY <1>3, <1>5, <2>1, <3>1, <3>2
  <2>2. QED
    BY <1>5, <2>1 DEF FreshUnused
<1>11. MembersChained'
  BY <1>3, <1>4 DEF Whole, MembersChained
<1>12. RequestsMidway'
  <2>1. ASSUME NEW q \in Request PROVE Midway(q)'
    <3>1. CASE q = r
      BY <1>8, <3>1 DEF Midway, Building
    <3>2. CASE q # r
      <4>1. /\ Midway(q) /\ Target(q)' = Target(q)
            /\ pc'[q] = pc[q] /\ ids'[q] = ids[q] /\ seen'[q] = seen[q]
        BY <1>8, <3>2 DEF Whole, RequestsMidway, Target
      <4>2. pc[q] \notin {"clear_requested", "clear_members"}
        BY <1>3, <4>1 DEF Midway, OnBoard, Range
      <4>3. ASSUME pc[q] = "retry"
            PROVE  Target(q) \notin fresh' /\ members'[Target(q)] = <<>>
        BY <1>3, <1>5, <4>1, <4>3, RetryTarget DEF Midway
      <4>4. ASSUME pc[q] = "append" PROVE Waiting(Target(q))'
        <5>1. Target(q) \in SceneId
          BY <4>4 DEF Typed, TypeOK, Held, Target
        <5>2. Waiting(Target(q)) /\ Target(q) # new
          BY <4>1, <4>4 DEF Midway, Waiting
        <5>3. \A c \in SceneId : Target(q) \notin Range(members'[c])
          BY <1>3, <1>5, <5>2 DEF Waiting
        <5>4. Target(q) \notin OnBoard' /\ Target(q) \notin fresh'
              /\ scenes'[Target(q)] # NoScene /\ members'[Target(q)] = <<>>
          BY <1>3, <1>5, <5>1, <5>2 DEF Waiting
        <5>5. QED
          BY <4>1, <5>3, <5>4 DEF Waiting
      <4>5. QED
        BY <4>1, <4>2, <4>3, <4>4 DEF Midway
    <3>3. QED
      BY <3>1, <3>2
  <2>2. QED
    BY <2>1 DEF RequestsMidway
<1>13. BoardStored'
  <2>1. ASSUME ~Clearing(Gone)
        PROVE  IsInjective(order') /\ \A id \in OnBoard' : scenes'[id] # NoScene
    <3>1. IsInjective(order) /\ \A id \in OnBoard : scenes[id] # NoScene
      BY <2>1 DEF Whole, BoardStored
    <3>2. ASSUME NEW id \in OnBoard' PROVE scenes'[id] # NoScene
      BY <1>3, <1>4, <1>5, <1>6, <3>1
    <3>3. QED
      BY <1>5, <3>1, <3>2
  <2>2. QED
    BY <1>9, <2>1 DEF BoardStored
<1>14. CombinationsWhole'
  <2>1. ASSUME ~Clearing(Stale), NEW c \in SceneId, members'[c] # <<>>
        PROVE  Combination(c)'
    <3>1. IsInjective(order)
      BY <2>1 DEF Whole, BoardStored, Clearing, Gone, Stale
    <3>2. \A d \in SceneId : members[d] # <<>> => Combination(d)
      BY <2>1 DEF Whole, CombinationsWhole
    <3>3. \A d \in SceneId : Range(members[d]) \intersect OnBoard = {}
      <4>1. ASSUME NEW d \in SceneId, NEW m \in Range(members[d]) PROVE m \notin OnBoard
        <5>1. members[d] # <<>>
          BY <4>1 DEF Range
        <5>2. QED
          BY <3>2, <5>1 DEF Combination
      <4>2. QED
        BY <4>1
    <3>4. CASE c = new
      <4>1. new \in OnBoard' /\ IsInjective(members'[new])
        BY <1>5, <3>1
      <4>2. \A m \in Range(members'[new]) : scenes'[m] # NoScene /\ m \notin OnBoard'
        BY <1>3, <1>5, <1>6
      <4>3. \A d \in SceneId : d # new => Range(members'[d]) \intersect Range(members'[new]) = {}
        BY <1>3, <1>5, <3>3
      <4>4. QED
        BY <3>4, <4>1, <4>2, <4>3 DEF Combination
    <3>5. CASE c # new
      <4>1. Combination(c) /\ members'[c] = members[c]
        BY <1>3, <2>1, <3>2, <3>5
      <4>2. c \in OnBoard'
        BY <1>3, <1>5, <2>1, <4>1 DEF Combination
      <4>3. \A m \in Range(members[c]) : scenes'[m] # NoScene /\ m \notin OnBoard'
        BY <1>3, <1>5, <1>7, <4>1 DEF Combination
      <4>4. ASSUME NEW d \in SceneId, d # c
            PROVE  Range(members'[d]) \intersect Range(members[c]) = {}
        <5>1. CASE d = new
          BY <1>3, <1>5, <3>3, <5>1
        <5>2. CASE d # new
          BY <1>3, <4>1, <4>4, <5>2 DEF Combination
        <5>3. QED
          BY <5>1, <5>2
      <4>5. IsInjective(members[c])
        BY <4>1 DEF Combination
      <4>6. QED
        BY <4>1, <4>2, <4>3, <4>4, <4>5 DEF Combination
    <3>6. QED
      BY <3>4, <3>5
  <2>2. QED
    BY <1>9, <2>1 DEF CombinationsWhole
<1>15. QED
  BY <1>10, <1>11, <1>12, <1>13, <1>14 DEF Whole

\* The combination shows what its members showed, so the board shows the
\* problems it showed.
LEMMA ChainShows ==
    ASSUME Typed, Whole, NEW r \in Request, CommitChain(r)
    PROVE  OnShow' = OnShow
<1>1. PICK new \in fresh : Chains(r, new)
  BY ChainEffect
<1>2. Mergeable(r) /\ Merged(r, new) /\ Merging(r, new)
  BY <1>1, ChainMergeable, ChainMerged, ChainMerging
<1>3. /\ OnBoard' = (OnBoard \ Range(ids[r])) \union {new}
      /\ Sources(new)' = UNION {Sources(m) : m \in Range(ids[r])}
      /\ Range(ids[r]) \subseteq OnBoard
      /\ new \notin OnBoard
      /\ \A c \in SceneId : c # new => Sources(c)' = Sources(c)
  BY <1>1, <1>2 DEF Chains, Merged, Merging
<1>4. OnBoard \subseteq SceneId
  BY BoardType DEF Typed
<1>5. \A c \in OnBoard : Sources(c)' = Sources(c)
  BY <1>3, <1>4
<1>6. QED
  <2>1. ASSUME NEW x \in OnShow' PROVE x \in OnShow
    <3>1. PICK c \in OnBoard' : x \in Sources(c)'
      BY DEF OnShow
    <3>2. CASE c = new
      BY <1>3, <3>1, <3>2 DEF OnShow
    <3>3. CASE c # new
      BY <1>3, <1>5, <3>1, <3>3 DEF OnShow
    <3>4. QED
      BY <3>2, <3>3
  <2>2. ASSUME NEW x \in OnShow PROVE x \in OnShow'
    <3>1. PICK c \in OnBoard : x \in Sources(c)
      BY DEF OnShow
    <3>2. CASE c \in Range(ids[r])
      <4>1. x \in Sources(new)' /\ new \in OnBoard'
        BY <1>3, <3>1, <3>2
      <4>2. QED
        BY <4>1 DEF OnShow
    <3>3. CASE c \notin Range(ids[r])
      <4>1. x \in Sources(c)' /\ c \in OnBoard'
        BY <1>3, <1>5, <3>1, <3>3
      <4>2. QED
        BY <4>1 DEF OnShow
    <3>4. QED
      BY <3>2, <3>3
  <2>3. QED
    BY <2>1, <2>2

\* Each once.
LEMMA CommitChainTold ==
    ASSUME Typed, OneBuild, Whole, Told, NEW r \in Request, CommitChain(r)
    PROVE  Told'
<1>1. PICK new \in fresh : Chains(r, new)
  BY ChainEffect
<1>2. Mergeable(r) /\ Merged(r, new) /\ Merging(r, new)
  BY <1>1, ChainMergeable, ChainMerged, ChainMerging
<1>3. /\ OnBoard' = (OnBoard \ Range(ids[r])) \union {new}
      /\ Sources(new)' = UNION {Sources(m) : m \in Range(ids[r])}
      /\ Range(members'[new]) = Range(ids[r])
      /\ Range(ids[r]) \subseteq OnBoard
      /\ new \notin OnBoard
      /\ members[new] = <<>>
      /\ \A c \in SceneId : new \notin Range(members[c])
      /\ \A c \in SceneId : c # new =>
           scenes'[c] = scenes[c] /\ members'[c] = members[c] /\ Sources(c)' = Sources(c)
  BY <1>1, <1>2 DEF Chains, Merged, Merging
<1>4. OnBoard \subseteq SceneId /\ new \in SceneId
  BY BoardType DEF Typed, TypeOK
<1>5. \A c \in SceneId : Range(members[c]) \subseteq SceneId
  BY DEF Typed, TypeOK, Range
<1>6. /\ pc[r] = "chain" /\ pc'[r] = "idle"
      /\ \A q \in Request : q # r =>
           pc'[q] = pc[q] /\ ids'[q] = ids[q] /\ picks'[q] = picks[q]
  BY FinishAlone DEF CommitChain
<1>7. /\ Clearing(Gone) => Clearing(Gone)'
      /\ Clearing(Stale) => Clearing(Stale)'
  <2>1. Finish(r) /\ pc[r] \notin Stale
    BY <1>6 DEF CommitChain, Stale
  <2>2. QED
    BY <2>1, FinishClears
<1>8. ShownOnce'
  <2>1. ASSUME ~Clearing(Gone), NEW a \in OnBoard', NEW b \in OnBoard', a # b
        PROVE  Sources(a)' \intersect Sources(b)' = {}
    <3>1. \A x, y \in OnBoard : x # y => Sources(x) \intersect Sources(y) = {}
      BY <2>1 DEF Told, ShownOnce
    <3>2. ASSUME NEW x \in OnBoard \ Range(ids[r])
          PROVE  Sources(x)' \intersect Sources(new)' = {}
      <4>1. Sources(x)' = Sources(x)
        BY <1>3, <1>4
      <4>2. \A m \in Range(ids[r]) : Sources(x) \intersect Sources(m) = {}
        BY <1>3, <3>1
      <4>3. QED
        BY <1>3, <4>1, <4>2
    <3>3. CASE a = new
      BY <1>3, <2>1, <3>2, <3>3
    <3>4. CASE b = new
      BY <1>3, <2>1, <3>2, <3>4
    <3>5. CASE a # new /\ b # new
      BY <1>3, <1>4, <2>1, <3>1, <3>5
    <3>6. QED
      BY <3>3, <3>4, <3>5
  <2>2. QED
    BY <1>7, <2>1 DEF ShownOnce
<1>9. MembersShown'
  <2>1. ASSUME ~Clearing(Stale), NEW c \in SceneId, members'[c] # <<>>
        PROVE  /\ Sources(c)' = UNION {Sources(m)' : m \in Range(members'[c])}
               /\ \A a, b \in Range(members'[c]) : a # b =>
                      Sources(a)' \intersect Sources(b)' = {}
    <3>1. CASE c = new
      <4>1. \A m \in Range(ids[r]) : Sources(m)' = Sources(m)
        BY <1>3, <1>4
      <4>2. \A a, b \in Range(ids[r]) : a # b => Sources(a) \intersect Sources(b) = {}
        BY <1>3, <2>1 DEF Told, ShownOnce, Clearing, Gone, Stale
      <4>3. QED
        BY <1>3, <3>1, <4>1, <4>2
    <3>2. CASE c # new
      <4>1. members'[c] = members[c] /\ Sources(c)' = Sources(c)
        BY <1>3, <3>2
      <4>2. \A m \in Range(members[c]) : Sources(m)' = Sources(m)
        BY <1>3, <1>5
      <4>3. /\ Sources(c) = UNION {Sources(m) : m \in Range(members[c])}
            /\ \A a, b \in Range(members[c]) : a # b => Sources(a) \intersect Sources(b) = {}
        BY <2>1, <4>1 DEF Told, MembersShown
      <4>4. QED
        BY <4>1, <4>2, <4>3
    <3>3. QED
      BY <3>1, <3>2
  <2>2. QED
    BY <1>7, <2>1 DEF MembersShown
<1>10. PicksPending'
  <2>1. ASSUME NEW q \in Request PROVE Pending(q)'
    <3>1. CASE q = r
      BY <1>6, <3>1 DEF Pending, Building
    <3>2. CASE q # r
      <4>1. /\ Pending(q) /\ Target(q)' = Target(q)
            /\ pc'[q] = pc[q] /\ picks'[q] = picks[q]
        BY <1>6, <3>2 DEF Told, PicksPending, Target
      <4>2. OnShow' = OnShow
        BY ChainShows
      <4>3. ASSUME pc[q] = "append" PROVE Sources(Target(q))' = Sources(Target(q))
        <5>1. Target(q) \in SceneId
          BY <4>3 DEF Typed, TypeOK, Held, Target
        <5>2. Waiting(Target(q))
          BY <4>3 DEF Whole, RequestsMidway, Midway
        <5>3. Target(q) # new
          BY <5>2 DEF Waiting
        <5>4. QED
          BY <1>3, <4>1, <5>1, <5>3
      <4>4. QED
        BY <4>1, <4>2, <4>3 DEF Pending
    <3>3. QED
      BY <3>1, <3>2
  <2>2. QED
    BY <2>1 DEF PicksPending
<1>11. RetriesStay
  BY <1>3, <1>6 DEF RetriesStay
<1>12. QED
  BY <1>8, <1>9, <1>10, <1>11, RetriesKept DEF Told

-----------------------------------------------------------------------------
(* Taking a combination apart *)

\* While the board lists something no build has just emptied it.
LEMMA BoardNotEmptied ==
    ASSUME Whole, OnBoard # {}, ~Clearing(Gone)
    PROVE  ~Clearing(Stale)
<1>1. ASSUME NEW r \in Request, pc[r] \in {"clear_requested", "clear_members"} PROVE FALSE
  BY <1>1 DEF Whole, RequestsMidway, Midway, OnBoard, Range
<1>2. QED
  BY <1>1 DEF Clearing, Gone, Stale

\* What ungrouping changes when the board is whole: the members are on it, the
\* combination is nowhere.
Parting(id) ==
    /\ scenes[id] # NoScene
    /\ Combination(id)
    /\ members[id] # <<>>
    /\ members'[id] = <<>>
    /\ \A c \in SceneId : c # id => members'[c] = members[c]
    /\ OnBoard' = (OnBoard \ {id}) \union Range(members[id])
    /\ IsInjective(order')

LEMMA UngroupParting ==
    ASSUME Typed, Whole, NEW id \in SceneId, Ungroups(id), ~Clearing(Gone)
    PROVE  Parting(id)
<1>1. members[id] # <<>> /\ id \in OnBoard
  BY DEF Ungroups
<1>2. ~Clearing(Stale)
  BY <1>1, BoardNotEmptied
<1>3. Combination(id)
  BY <1>1, <1>2 DEF Whole, CombinationsWhole
<1>4. IsInjective(order) /\ scenes[id] # NoScene
  BY <1>1 DEF Whole, BoardStored
<1>5. IsInjective(members[id]) /\ OnBoard \intersect Range(members[id]) = {}
  BY <1>3 DEF Combination
<1>6. QED
  BY <1>1, <1>3, <1>4, <1>5 DEF Ungroups, Parting

\* Ungrouping keeps the board whole: the combination goes and its members
\* return, which no other combination has.
LEMMA UngroupWhole ==
    ASSUME Typed, Whole, NEW id \in SceneId, Ungroup(id)
    PROVE  Whole'
<1>1. Ungroups(id)
  BY UngroupEffect
<1>2. pc' = pc /\ ids' = ids /\ seen' = seen /\ picks' = picks
  BY DEF Ungroup, local
<1>3. /\ id \in OnBoard /\ fresh' = fresh
      /\ \A c \in SceneId : members'[c] \in {members[c], <<>>}
      /\ OnBoard' \subseteq OnBoard \union Range(members[id])
  BY <1>1 DEF Ungroups
<1>4. /\ scenes'[id] = NoScene
      /\ \A c \in SceneId : c # id => scenes'[c] = scenes[c]
  BY <1>1 DEF Ungroups, Typed, TypeOK, SceneMap
<1>5. Range(<<>>) = {}
  BY DEF Range
<1>6. \A c \in SceneId : Range(members'[c]) \subseteq Range(members[c])
  BY <1>3, <1>5
<1>7. FreshUnused'
  <2>1. ASSUME NEW f \in fresh
        PROVE  /\ f \notin OnBoard' /\ members'[f] = <<>>
               /\ \A c \in SceneId : f \notin Range(members'[c])
    <3>1. f \in SceneId /\ f \notin OnBoard /\ members[f] = <<>>
          /\ \A c \in SceneId : f \notin Range(members[c])
      BY DEF Whole, FreshUnused, Typed, TypeOK
    <3>2. QED
      BY <1>3, <1>6, <3>1
  <2>2. QED
    BY <1>3, <2>1 DEF FreshUnused
<1>8. MembersChained'
  <2>1. ASSUME NEW c \in SceneId, scenes'[c] # NoScene, members'[c] # <<>>
        PROVE  IsChained(scenes'[c])
    <3>1. scenes'[c] = scenes[c] /\ members[c] # <<>>
      BY <1>3, <1>4, <2>1
    <3>2. QED
      BY <2>1, <3>1 DEF Whole, MembersChained
  <2>2. QED
    BY <2>1 DEF MembersChained
<1>9. RequestsMidway'
  <2>1. ASSUME NEW q \in Request PROVE Midway(q)'
    <3>1. Midway(q) /\ Target(q)' = Target(q)
      BY <1>2 DEF Whole, RequestsMidway, Target
    <3>2. pc[q] \notin {"clear_requested", "clear_members"}
      BY <1>3, <3>1 DEF Midway, OnBoard, Range
    <3>3. ASSUME pc[q] = "retry" PROVE members'[Target(q)] = <<>>
      BY <1>3, <3>1, <3>3, RetryTarget DEF Midway
    <3>4. ASSUME pc[q] = "append" PROVE Waiting(Target(q))'
      <4>1. Target(q) \in SceneId
        BY <3>4 DEF Typed, TypeOK, Held, Target
      <4>2. Waiting(Target(q)) /\ Target(q) # id
        BY <1>3, <3>1, <3>4 DEF Midway, Waiting
      <4>3. Target(q) \notin OnBoard' /\ scenes'[Target(q)] # NoScene
            /\ members'[Target(q)] = <<>>
        BY <1>3, <1>4, <4>1, <4>2 DEF Waiting
      <4>4. \A c \in SceneId : Target(q) \notin Range(members'[c])
        BY <1>6, <4>2 DEF Waiting
      <4>5. QED
        BY <1>3, <3>1, <4>2, <4>3, <4>4 DEF Waiting
    <3>5. QED
      BY <1>2, <1>3, <3>1, <3>2, <3>3, <3>4 DEF Midway
  <2>2. QED
    BY <2>1 DEF RequestsMidway
<1>10. BoardStored'
  <2>1. ASSUME ~Clearing(Gone)
        PROVE  IsInjective(order') /\ \A x \in OnBoard' : scenes'[x] # NoScene
    <3>1. Parting(id)
      BY <1>1, <2>1, UngroupParting
    <3>2. \A x \in OnBoard : scenes[x] # NoScene
      BY <2>1 DEF Whole, BoardStored
    <3>3. OnBoard \subseteq SceneId /\ Range(members[id]) \subseteq SceneId
      BY BoardType DEF Typed, TypeOK, Range
    <3>4. \A m \in Range(members[id]) : scenes[m] # NoScene /\ m # id
      BY <3>1 DEF Parting, Combination
    <3>5. QED
      BY <1>4, <3>1, <3>2, <3>3, <3>4 DEF Parting
  <2>2. QED
    BY <1>2, <2>1 DEF BoardStored, Clearing
<1>11. CombinationsWhole'
  <2>1. ASSUME ~Clearing(Stale), NEW c \in SceneId, members'[c] # <<>>
        PROVE  Combination(c)'
    <3>1. ~Clearing(Gone)
      BY <2>1 DEF Clearing, Gone, Stale
    <3>2. Parting(id)
      BY <1>1, <3>1, UngroupParting
    <3>3. c # id /\ members'[c] = members[c] /\ members[c] # <<>>
      BY <2>1, <3>2 DEF Parting
    <3>4. Combination(c)
      BY <2>1, <3>3 DEF Whole, CombinationsWhole
    <3>5. c \in OnBoard' /\ IsInjective(members'[c])
      BY <3>2, <3>3, <3>4 DEF Parting, Combination
    <3>6. ASSUME NEW m \in Range(members[c])
          PROVE  scenes'[m] # NoScene /\ m \notin OnBoard'
      <4>1. m \in SceneId
        BY DEF Typed, TypeOK, Range
      <4>2. m \notin Range(members[id])
        BY <3>3, <3>4 DEF Combination
      <4>3. m \notin OnBoard /\ scenes[m] # NoScene
        BY <3>4 DEF Combination
      <4>4. QED
        BY <1>3, <1>4, <4>1, <4>2, <4>3
    <3>7. \A d \in SceneId : d # c => Range(members'[d]) \intersect Range(members[c]) = {}
      BY <1>6, <3>4 DEF Combination
    <3>8. QED
      BY <3>3, <3>5, <3>6, <3>7 DEF Combination
  <2>2. QED
    BY <1>2, <2>1 DEF CombinationsWhole, Clearing
<1>12. QED
  BY <1>7, <1>8, <1>9, <1>10, <1>11 DEF Whole

\* The members show what the combination showed.
LEMMA UngroupShows ==
    ASSUME Typed, Whole, Told, NEW id \in SceneId, Ungroup(id), ~Clearing(Gone)
    PROVE  /\ \A c \in SceneId : c # id => Sources(c)' = Sources(c)
           /\ Sources(id) = UNION {Sources(m) : m \in Range(members[id])}
           /\ OnShow' = OnShow
<1>1. Ungroups(id) /\ Parting(id)
  BY UngroupEffect, UngroupParting
<1>2. \A c \in SceneId : c # id => scenes'[c] = scenes[c]
  BY <1>1 DEF Ungroups, Typed, TypeOK, SceneMap
<1>3. \A c \in SceneId : c # id => Sources(c)' = Sources(c)
  BY <1>2 DEF Sources
<1>4. ~Clearing(Stale)
  BY <1>1, BoardNotEmptied DEF Parting, Combination
<1>5. Sources(id) = UNION {Sources(m) : m \in Range(members[id])}
  BY <1>1, <1>4 DEF Told, MembersShown, Parting
<1>6. /\ OnBoard' = (OnBoard \ {id}) \union Range(members[id])
      /\ id \in OnBoard /\ id \notin Range(members[id])
      /\ OnBoard \subseteq SceneId /\ Range(members[id]) \subseteq SceneId
  BY <1>1, BoardType DEF Parting, Combination, Typed, TypeOK, Range
<1>7. \A c \in OnBoard' : Sources(c)' = Sources(c)
  BY <1>3, <1>6
<1>8. ASSUME NEW x \in OnShow' PROVE x \in OnShow
  <2>1. PICK c \in OnBoard' : x \in Sources(c)
    BY <1>7 DEF OnShow
  <2>2. CASE c \in Range(members[id])
    BY <1>5, <1>6, <2>1, <2>2 DEF OnShow
  <2>3. CASE c \notin Range(members[id])
    BY <1>6, <2>1, <2>3 DEF OnShow
  <2>4. QED
    BY <2>2, <2>3
<1>9. ASSUME NEW x \in OnShow PROVE x \in OnShow'
  <2>1. PICK c \in OnBoard : x \in Sources(c)
    BY DEF OnShow
  <2>2. PICK d \in OnBoard' : x \in Sources(d)
    BY <1>5, <1>6, <2>1
  <2>3. QED
    BY <1>7, <2>2 DEF OnShow
<1>10. QED
  BY <1>3, <1>5, <1>8, <1>9

\* Each once.
LEMMA UngroupTold ==
    ASSUME Typed, OneBuild, Whole, Told, NEW id \in SceneId, Ungroup(id)
    PROVE  Told'
<1>1. Ungroups(id)
  BY UngroupEffect
<1>2. pc' = pc /\ ids' = ids /\ picks' = picks
  BY DEF Ungroup, local
<1>3. /\ scenes'[id] = NoScene /\ id \in OnBoard
      /\ \A c \in SceneId : c # id => scenes'[c] = scenes[c]
  BY <1>1 DEF Ungroups, Typed, TypeOK, SceneMap
<1>4. \A c \in SceneId : Range(members[c]) \subseteq SceneId
  BY DEF Typed, TypeOK, Range
<1>5. ShownOnce'
  <2>1. ASSUME ~Clearing(Gone), NEW a \in OnBoard', NEW b \in OnBoard', a # b
        PROVE  Sources(a)' \intersect Sources(b)' = {}
    <3>1. /\ \A c \in SceneId : c # id => Sources(c)' = Sources(c)
          /\ Sources(id) = UNION {Sources(m) : m \in Range(members[id])}
      BY <2>1, UngroupShows
    <3>2. Parting(id)
      BY <1>1, <2>1, UngroupParting
    <3>3. /\ OnBoard' = (OnBoard \ {id}) \union Range(members[id])
          /\ id \notin Range(members[id]) /\ members[id] # <<>>
          /\ OnBoard \subseteq SceneId
      BY <1>3, <3>2, BoardType DEF Parting, Combination, Typed
    <3>4. \A x, y \in OnBoard : x # y => Sources(x) \intersect Sources(y) = {}
      BY <2>1 DEF Told, ShownOnce
    <3>5. \A x, y \in Range(members[id]) : x # y => Sources(x) \intersect Sources(y) = {}
      <4>1. ~Clearing(Stale)
        BY <1>3, <2>1, BoardNotEmptied
      <4>2. QED
        BY <3>3, <4>1 DEF Told, MembersShown
    <3>6. \A x \in OnBoard \ {id}, y \in Range(members[id]) : Sources(x) \intersect Sources(y) = {}
      <4>1. ASSUME NEW x \in OnBoard \ {id}, NEW y \in Range(members[id])
            PROVE  Sources(x) \intersect Sources(y) = {}
        <5>1. Sources(x) \intersect Sources(id) = {}
          BY <1>3, <3>4
        <5>2. Sources(y) \subseteq Sources(id)
          BY <3>1
        <5>3. QED
          BY <5>1, <5>2
      <4>2. QED
        BY <4>1
    <3>7. Sources(a)' = Sources(a) /\ Sources(b)' = Sources(b)
      BY <1>4, <3>1, <3>3
    <3>8. Sources(a) \intersect Sources(b) = {}
      BY <2>1, <3>3, <3>4, <3>5, <3>6
    <3>9. QED
      BY <3>7, <3>8
  <2>2. QED
    BY <1>2, <2>1 DEF ShownOnce, Clearing
<1>6. MembersShown'
  <2>1. ASSUME ~Clearing(Stale), NEW c \in SceneId, members'[c] # <<>>
        PROVE  /\ Sources(c)' = UNION {Sources(m)' : m \in Range(members'[c])}
               /\ \A a, b \in Range(members'[c]) : a # b =>
                      Sources(a)' \intersect Sources(b)' = {}
    <3>1. ~Clearing(Gone)
      BY <2>1 DEF Clearing, Gone, Stale
    <3>2. Parting(id) /\ \A d \in SceneId : d # id => Sources(d)' = Sources(d)
      BY <1>1, <3>1, UngroupParting, UngroupShows
    <3>3. c # id /\ members'[c] = members[c] /\ members[c] # <<>>
      BY <2>1, <3>2 DEF Parting
    <3>4. Combination(c)
      BY <2>1, <3>3 DEF Whole, CombinationsWhole
    <3>5. id \notin Range(members[c])
      BY <1>3, <3>4 DEF Combination
    <3>6. Sources(c)' = Sources(c) /\ \A m \in Range(members[c]) : Sources(m)' = Sources(m)
      BY <1>4, <3>2, <3>3, <3>5
    <3>7. /\ Sources(c) = UNION {Sources(m) : m \in Range(members[c])}
          /\ \A a, b \in Range(members[c]) : a # b => Sources(a) \intersect Sources(b) = {}
      BY <2>1, <3>3 DEF Told, MembersShown
    <3>8. QED
      BY <3>3, <3>6, <3>7
  <2>2. QED
    BY <1>2, <2>1 DEF MembersShown, Clearing
<1>7. PicksPending'
  <2>1. ASSUME NEW q \in Request PROVE Pending(q)'
    <3>1. Pending(q) /\ Target(q)' = Target(q)
      BY <1>2 DEF Told, PicksPending, Target
    <3>2. ASSUME pc[q] \in {"build", "append", "request"}
          PROVE  /\ OnShow' = OnShow
                 /\ \A c \in SceneId : c # id => Sources(c)' = Sources(c)
      <4>1. ~Clearing(Gone)
        BY <3>2, NothingCleared
      <4>2. QED
        BY <4>1, UngroupShows
    <3>3. ASSUME pc[q] = "append" PROVE Sources(Target(q))' = Sources(Target(q))
      <4>1. Target(q) \in SceneId
        BY <3>3 DEF Typed, TypeOK, Held, Target
      <4>2. Waiting(Target(q))
        BY <3>3 DEF Whole, RequestsMidway, Midway
      <4>3. Target(q) # id
        BY <1>3, <4>2 DEF Waiting
      <4>4. QED
        BY <3>1, <3>2, <3>3, <4>1, <4>3
    <3>4. QED
      BY <1>2, <3>1, <3>2, <3>3 DEF Pending
  <2>2. QED
    BY <2>1 DEF PicksPending
<1>8. RetriesStay
  BY <1>2, <1>3 DEF RetriesStay
<1>9. QED
  BY <1>5, <1>6, <1>7, <1>8, RetriesKept DEF Told

-----------------------------------------------------------------------------
(* The specification *)

\* A session starts with an empty board.
LEMMA InitWhole == Init => Whole /\ Told
<1> SUFFICES ASSUME Init PROVE Whole /\ Told
  OBVIOUS
<1>1. /\ \A r \in Request : pc[r] = "idle"
      /\ \A id \in SceneId : scenes[id] = NoScene /\ members[id] = <<>>
      /\ order = <<>>
  BY DEF Init, Nothing
<1>2. OnBoard = {} /\ IsInjective(order) /\ \A id \in SceneId : Range(members[id]) = {}
  BY <1>1 DEF OnBoard, Range, IsInjective
<1>3. fresh \subseteq SceneId
  BY DEF Init
<1>4. Whole
  BY <1>1, <1>2, <1>3 DEF Whole, FreshUnused, MembersChained, RequestsMidway, Midway,
                          BoardStored, CombinationsWhole, Building
<1>5. Told
  BY <1>1, <1>2 DEF Told, RetriesFaithful, ShownOnce, MembersShown, PicksPending, Pending,
                    Building
<1>6. QED
  BY <1>4, <1>5

\* Every step keeps the board whole and its problems told once.
LEMMA NextWhole ==
    ASSUME OneBuild, Typed, Whole, Told, [Next]_vars
    PROVE  Whole' /\ Told'
<1>1. ASSUME NEW r \in Request, Begin(r) PROVE Whole' /\ Told'
  <2>1. ASSUME NEW id \in SceneId, \/ BeginEdit(r, id) \/ BeginApprove(r, id)
                                   \/ BeginReject(r, id) \/ BeginAcknowledge(r, id)
        PROVE  Whole' /\ Told'
    BY <2>1, ReadersStill, StillKeeps
  <2>2. ASSUME NEW id \in SceneId, BeginRetry(r, id) PROVE Whole' /\ Told'
    BY <2>2, BeginRetryKeeps
  <2>3. ASSUME NEW n \in 2..MaxItems, NEW q \in [1..n -> OnBoard], BeginChain(r, q)
        PROVE  Whole' /\ Told'
    BY <2>3, BeginChainKeeps
  <2>4. CASE ClaimBatch(r)
    BY <2>4, ReadersStill, StillKeeps
  <2>5. CASE BeginBuild(r)
    BY <2>5, BeginBuildKeeps
  <2>6. QED
    BY <1>1, <2>1, <2>2, <2>3, <2>4, <2>5 DEF Begin
<1>2. ASSUME NEW r \in Request, Proceed(r) PROVE Whole' /\ Told'
  <2>1. CASE CommitEdit(r) \/ CommitApprove(r) \/ CommitReject(r) \/ CommitAcknowledge(r)
    BY <2>1, ReviewStill, StillKeeps
  <2>2. CASE CommitRetry(r)
    BY <2>2, CommitRetryKeeps
  <2>3. CASE CommitChain(r)
    BY <2>3, CommitChainWhole, CommitChainTold
  <2>4. CASE Refuse(r) \/ ReleaseBatch(r) \/ EndBuild(r) \/ Discard(r)
    BY <2>4, ReadersStill, StillKeeps
  <2>5. ASSUME NEW id \in SceneId,
               ServeCached(r, id) \/ StartRender(r, id) \/ SkipScene(r, id)
        PROVE  Whole' /\ Told'
    BY <2>5, ReadersStill, StillKeeps
  <2>6. CASE Publish(r)
    BY <2>6, PublishStill, StillKeeps
  <2>7. CASE ClearScenes(r) \/ ClearOrder(r) \/ ClearRequested(r) \/ ClearMembers(r)
    BY <2>7, ClearScenesKeeps, ClearOrderKeeps, ClearRequestedKeeps, ClearMembersKeeps
  <2>8. CASE StoreScene(r) \/ AppendScene(r) \/ RecordRequested(r)
    BY <2>8, StoreSceneKeeps, AppendSceneKeeps, RecordRequestedKeeps
  <2>9. QED
    BY <1>2, <2>1, <2>2, <2>3, <2>4, <2>5, <2>6, <2>7, <2>8 DEF Proceed
<1>3. ASSUME NEW id \in SceneId, Ungroup(id) PROVE Whole' /\ Told'
  BY <1>3, UngroupWhole, UngroupTold
<1>4. CASE UNCHANGED vars
  <2>1. /\ scenes' = scenes /\ order' = order /\ members' = members /\ fresh' = fresh
        /\ pc' = pc /\ ids' = ids /\ seen' = seen /\ picks' = picks
    BY <1>4 DEF vars, session, local
  <2>2. Whole'
    BY <2>1 DEF Whole, FreshUnused, MembersChained, RequestsMidway, Midway, BoardStored,
                CombinationsWhole, Combination, Waiting, OnBoard, Target, Clearing
  <2>3. Told'
    <3>1. RetriesFaithful'
      BY <2>1 DEF Told, RetriesFaithful, Target
    <3>2. ShownOnce'
      BY <2>1 DEF Told, ShownOnce, Sources, OnBoard, Clearing
    <3>3. MembersShown'
      <4>1. Clearing(Stale)' = Clearing(Stale)
        BY <2>1 DEF Clearing
      <4>2. \A id : Sources(id)' = Sources(id)
        BY <2>1 DEF Sources
      <4>3. MembersShown
        BY DEF Told
      <4>4. ASSUME ~Clearing(Stale), NEW c \in SceneId, members[c] # <<>>
            PROVE  /\ Sources(c)' = UNION {Sources(m)' : m \in Range(members[c])}
                   /\ \A a, b \in Range(members[c]) : a # b =>
                          Sources(a)' \intersect Sources(b)' = {}
        <5>1. /\ Sources(c) = UNION {Sources(m) : m \in Range(members[c])}
              /\ \A a, b \in Range(members[c]) : a # b => Sources(a) \intersect Sources(b) = {}
          BY <4>3, <4>4 DEF MembersShown
        <5>2. QED
          BY <4>2, <5>1
      <4>5. QED
        BY <2>1, <4>1, <4>4 DEF MembersShown
    <3>4. ASSUME NEW r \in Request PROVE Pending(r)'
      <4>1. Pending(r)
        BY DEF Told, PicksPending
      <4>2. OnShow' = OnShow /\ Sources(Target(r))' = Sources(Target(r))
        BY <2>1 DEF OnShow, OnBoard, Sources, Target
      <4>3. QED
        BY <2>1, <4>1, <4>2 DEF Pending
    <3>5. QED
      BY <3>1, <3>2, <3>3, <3>4 DEF Told, PicksPending
  <2>4. QED
    BY <2>2, <2>3
<1>5. QED
  BY <1>1, <1>2, <1>3, <1>4 DEF Next

\* With one build at a time, every id of the board has a scene, and every
\* combination is on it, its members stored and off it: whenever a claim, a
\* lookup or an ungroup reads the board between the clears of builds.
THEOREM BoardStaysWhole ==
    ASSUME OneBuild
    PROVE  Spec => []BoardWhole
<1>1. Init => Typed /\ Whole /\ Told
  BY InitTyped, InitWhole
<1>2. Typed /\ Whole /\ Told /\ [Next]_vars => (Typed /\ Whole /\ Told)'
  BY NextTyped, NextWhole
<1>3. Whole => BoardWhole
  BY DEF Whole, BoardWhole, BoardStored, CombinationsWhole, Combination, Gone, Stale
<1>4. QED
  BY <1>1, <1>2, <1>3, PTL DEF Spec

-----------------------------------------------------------------------------
(* The problems of the board, and what a combination is made of *)

\* Outside builds the stored scenes show what they showed, and the board is
\* the same.
LEMMA QuietShows ==
    ASSUME Typed, Whole, NEW r \in Request, Quiet(r), ~Clearing(Gone)
    PROVE  OnShow' = OnShow
<1>1. /\ OnBoard' = OnBoard /\ OnBoard \subseteq SceneId
      /\ \A id \in SceneId : SourcesKept(id)
  BY BoardType DEF Quiet, OnBoard, Typed
<1>2. \A id \in OnBoard : Sources(id)' = Sources(id)
  BY <1>1, SourcesStay DEF Whole, BoardStored
<1>3. QED
  BY <1>1, <1>2 DEF OnShow

\* A step that changes neither scenes nor board shows what was shown.
LEMMA SameShows ==
    ASSUME scenes' = scenes, order' = order
    PROVE  OnShow' = OnShow
BY DEF OnShow, OnBoard, Sources

\* Who builds nothing begins no clear but by beginning a build, and shows
\* what was shown.
LEMMA OutsideBuilds ==
    ASSUME OneBuild, Typed, Whole, Told, Next, ~Clearing(Building)
    PROVE  OnShow' = OnShow /\ ~Clearing(Gone)'
<1>0. /\ \A r \in Request : pc[r] \notin Building
      /\ ~Clearing(Gone)
  BY DEF Clearing, Building, Gone
<1>1. ASSUME NEW r \in Request, pc'[r] \notin Gone,
             \A q \in Request : q # r => pc'[q] = pc[q]
      PROVE  ~Clearing(Gone)'
  BY <1>0, <1>1 DEF Clearing
<1>2. ASSUME NEW r \in Request, Still(r) PROVE OnShow' = OnShow /\ ~Clearing(Gone)'
  BY <1>0, <1>1, <1>2, QuietShows DEF Still, Quiet, Building, Gone
<1>3. ASSUME NEW r \in Request, Begin(r) PROVE OnShow' = OnShow /\ ~Clearing(Gone)'
  <2>1. ASSUME NEW id \in SceneId, \/ BeginEdit(r, id) \/ BeginApprove(r, id)
                                   \/ BeginReject(r, id) \/ BeginAcknowledge(r, id)
        PROVE  OnShow' = OnShow /\ ~Clearing(Gone)'
    BY <1>2, <2>1, ReadersStill
  <2>2. ASSUME NEW id \in SceneId, BeginRetry(r, id)
        PROVE  OnShow' = OnShow /\ ~Clearing(Gone)'
    <3>1. pc'[r] = "retry" /\ \A q \in Request : q # r => pc'[q] = pc[q]
      BY <2>2 DEF BeginRetry, Typed, TypeOK
    <3>2. scenes' = scenes /\ order' = order
      BY <2>2 DEF BeginRetry, session
    <3>3. QED
      BY <1>1, <3>1, <3>2, SameShows DEF Gone
  <2>3. ASSUME NEW n \in 2..MaxItems, NEW q \in [1..n -> OnBoard], BeginChain(r, q)
        PROVE  OnShow' = OnShow /\ ~Clearing(Gone)'
    <3>1. pc'[r] = "chain" /\ \A x \in Request : x # r => pc'[x] = pc[x]
      BY <2>3 DEF BeginChain, Hold, Typed, TypeOK
    <3>2. scenes' = scenes /\ order' = order
      BY <2>3 DEF BeginChain, session
    <3>3. QED
      BY <1>1, <3>1, <3>2, SameShows DEF Gone
  <2>4. CASE ClaimBatch(r)
    BY <1>2, <2>4, ReadersStill
  <2>5. CASE BeginBuild(r)
    <3>1. pc'[r] = "clear_scenes" /\ \A x \in Request : x # r => pc'[x] = pc[x]
      BY <2>5 DEF BeginBuild, Typed, TypeOK
    <3>2. scenes' = scenes /\ order' = order
      BY <2>5 DEF BeginBuild, session
    <3>3. QED
      BY <1>1, <3>1, <3>2, SameShows DEF Gone
  <2>6. QED
    BY <1>3, <2>1, <2>2, <2>3, <2>4, <2>5 DEF Begin
<1>4. ASSUME NEW r \in Request, Proceed(r) PROVE OnShow' = OnShow /\ ~Clearing(Gone)'
  <2>1. CASE CommitEdit(r) \/ CommitApprove(r) \/ CommitReject(r) \/ CommitAcknowledge(r)
    BY <1>2, <2>1, ReviewStill
  <2>2. CASE CommitRetry(r)
    <3>1. Quiet(r)
      BY <2>2, CommitRetryQuiet
    <3>2. pc'[r] = "idle" /\ \A q \in Request : q # r => pc'[q] = pc[q]
      BY <2>2, FinishAlone DEF CommitRetry
    <3>3. QED
      BY <1>0, <1>1, <3>1, <3>2, QuietShows DEF Gone
  <2>3. CASE CommitChain(r)
    <3>1. pc'[r] = "idle" /\ \A q \in Request : q # r => pc'[q] = pc[q]
      BY <2>3, FinishAlone DEF CommitChain
    <3>2. QED
      BY <1>1, <2>3, <3>1, ChainShows DEF Gone
  <2>4. CASE Refuse(r) \/ ReleaseBatch(r) \/ EndBuild(r) \/ Discard(r)
    BY <1>2, <2>4, ReadersStill
  <2>5. ASSUME NEW id \in SceneId,
               ServeCached(r, id) \/ StartRender(r, id) \/ SkipScene(r, id)
        PROVE  OnShow' = OnShow /\ ~Clearing(Gone)'
    BY <1>2, <2>5, ReadersStill
  <2>6. CASE Publish(r)
    BY <1>2, <2>6, PublishStill
  <2>7. CASE \/ ClearScenes(r) \/ ClearOrder(r) \/ ClearRequested(r) \/ ClearMembers(r)
             \/ StoreScene(r) \/ AppendScene(r) \/ RecordRequested(r)
    BY <1>0, <2>7 DEF ClearScenes, ClearOrder, ClearRequested, ClearMembers, StoreScene,
                      AppendScene, RecordRequested, Step, Building
  <2>8. QED
    BY <1>4, <2>1, <2>2, <2>3, <2>4, <2>5, <2>6, <2>7 DEF Proceed
<1>5. ASSUME NEW id \in SceneId, Ungroup(id) PROVE OnShow' = OnShow /\ ~Clearing(Gone)'
  <2>1. OnShow' = OnShow
    BY <1>0, <1>5, UngroupShows
  <2>2. pc' = pc
    BY <1>5 DEF Ungroup, local
  <2>3. QED
    BY <1>0, <2>1, <2>2 DEF Clearing
<1>6. QED
  BY <1>3, <1>4, <1>5 DEF Next

\* What the board shows, position by position.
LEMMA ShownIsOnShow == UNION {Shown(i) : i \in DOMAIN order} = OnShow
BY DEF Shown, Sources, OnShow, OnBoard, Range

\* With one build at a time, nothing but a build changes which problems are
\* on the board, and none is on it twice, across combinations, their undoing,
\* edits, reviews, retries and renders of any number of requests.
THEOREM ProblemsStay ==
    ASSUME OneBuild
    PROVE  Spec => ProblemsKept
<1>1. Init => Typed /\ Whole /\ Told
  BY InitTyped, InitWhole
<1>2. Typed /\ Whole /\ Told /\ [Next]_vars => (Typed /\ Whole /\ Told)'
  BY NextTyped, NextWhole
<1>3. Typed /\ Whole /\ Told /\ [Next]_vars =>
        [~Clearing({"clear_scenes", "clear_order", "clear_requested",
                    "clear_members", "build", "append", "request"})
         => /\ UNION {Shown(i) : i \in DOMAIN order}'
                 = UNION {Shown(i) : i \in DOMAIN order}
            /\ \A i, j \in DOMAIN order' : i # j => (Shown(i) \intersect Shown(j))' = {}]_vars
  <2> SUFFICES ASSUME Typed, Whole, Told, Next, ~Clearing(Building)
               PROVE  /\ UNION {Shown(i) : i \in DOMAIN order}'
                           = UNION {Shown(i) : i \in DOMAIN order}
                      /\ \A i, j \in DOMAIN order' : i # j => (Shown(i) \intersect Shown(j))' = {}
    BY DEF Building
  <2>1. OnShow' = OnShow /\ ~Clearing(Gone)'
    BY OutsideBuilds
  <2>2. Whole' /\ Told'
    BY NextWhole
  <2>3. UNION {Shown(i) : i \in DOMAIN order}' = OnShow'
    BY DEF Shown, Sources, OnShow, OnBoard, Range
  <2>4. ASSUME NEW i \in DOMAIN order', NEW j \in DOMAIN order', i # j
        PROVE  (Shown(i) \intersect Shown(j))' = {}
    <3>1. order'[i] # order'[j]
      BY <2>1, <2>2, <2>4 DEF Whole, BoardStored, IsInjective
    <3>2. /\ Shown(i)' = Sources(order[i])' /\ order'[i] \in OnBoard'
          /\ Shown(j)' = Sources(order[j])' /\ order'[j] \in OnBoard'
      BY <2>4 DEF Shown, Sources, OnBoard, Range
    <3>3. Sources(order[i])' \intersect Sources(order[j])' = {}
      BY <2>1, <2>2, <3>1, <3>2 DEF Told, ShownOnce
    <3>4. QED
      BY <3>2, <3>3
  <2>5. QED
    BY <2>1, <2>3, <2>4, ShownIsOnShow
<1>4. QED
  BY <1>1, <1>2, <1>3, PTL DEF Spec, ProblemsKept

\* Only combining gives an id members.
LEMMA OnlyChainsCombine ==
    ASSUME Typed, [Next]_vars, ~\E r \in Request : CommitChain(r), NEW c \in SceneId
    PROVE  members'[c] \in {members[c], <<>>}
<1>1. ASSUME NEW r \in Request, Begin(r) PROVE members' = members
  BY <1>1 DEF Begin, BeginEdit, BeginApprove, BeginReject, BeginAcknowledge, BeginWrite,
              BeginRetry, BeginChain, ClaimBatch, BeginBuild, session
<1>2. ASSUME NEW r \in Request, Proceed(r) PROVE members'[c] \in {members[c], <<>>}
  <2>1. CASE CommitEdit(r) \/ CommitApprove(r) \/ CommitReject(r) \/ CommitAcknowledge(r)
    BY <2>1 DEF CommitEdit, CommitApprove, CommitReject, CommitAcknowledge, WriteCas
  <2>2. CASE \/ CommitRetry(r) \/ Refuse(r) \/ Publish(r) \/ Discard(r) \/ ReleaseBatch(r)
             \/ \E id \in SceneId : ServeCached(r, id) \/ StartRender(r, id) \/ SkipScene(r, id)
    BY <2>2 DEF CommitRetry, Refuse, Publish, Discard, ReleaseBatch, ServeCached, StartRender,
                SkipScene, session
  <2>3. CASE \/ ClearScenes(r) \/ ClearOrder(r) \/ ClearRequested(r) \/ ClearMembers(r)
             \/ StoreScene(r) \/ AppendScene(r) \/ RecordRequested(r) \/ EndBuild(r)
    BY <2>3 DEF ClearScenes, ClearOrder, ClearRequested, ClearMembers, StoreScene,
                AppendScene, RecordRequested, EndBuild, session
  <2>4. QED
    BY <1>2, <2>1, <2>2, <2>3 DEF Proceed
<1>3. ASSUME NEW id \in SceneId, Ungroup(id) PROVE members'[c] \in {members[c], <<>>}
  BY <1>3, UngroupEffect DEF Ungroups
<1>4. CASE UNCHANGED vars
  BY <1>4 DEF vars, session
<1>5. QED
  BY <1>1, <1>2, <1>3, <1>4 DEF Next

\* A combination is made of the scenes as they are when it is stored.
LEMMA ChainIsCurrent ==
    ASSUME Typed, Whole, NEW r \in Request, CommitChain(r),
           NEW c \in SceneId, members[c] = <<>>, members'[c] # <<>>,
           NEW i \in DOMAIN members'[c]
    PROVE  LET m == scenes'[members'[c][i]] IN
           /\ m # NoScene
           /\ m.status = "pending_review" /\ MismatchSettled(m)
           /\ SceneTemplate(m) = SceneTemplate(scenes'[c])
           /\ \E k \in DOMAIN scenes'[c].items :
                /\ scenes'[c].items[k] = m.items[1]
                /\ scenes'[c].sources[k] = m.sources[1]
<1>1. PICK new \in fresh : Chains(r, new)
  BY ChainEffect
<1>2. Mergeable(r) /\ Merging(r, new)
  BY <1>1, ChainMergeable, ChainMerging
<1>3. c = new
  BY <1>1 DEF Chains
<1>4. members'[c][i] \in Range(ids[r])
  BY <1>1, <1>3 DEF Chains, Range
<1>5. PICK k \in DOMAIN ids[r] : members'[c][i] = ids[r][k]
  BY <1>4 DEF Range
<1>6. PICK id \in SceneId : id = ids[r][k]
  BY <1>2 DEF Mergeable
<1>7. /\ scenes[id] = seen[r][id] /\ Combinable(scenes[id])
      /\ SceneTemplate(scenes[id]) = SceneTemplate(scenes[ids[r][1]])
      /\ scenes[ids[r][1]] = seen[r][ids[r][1]]
      /\ DOMAIN ids[r] = 1..Len(ids[r]) /\ 1 \in DOMAIN ids[r]
  <2>1. Len(ids[r]) >= 2 /\ DOMAIN ids[r] = 1..Len(ids[r])
    BY <1>2 DEF Mergeable
  <2>2. 1 \in DOMAIN ids[r]
    BY <2>1
  <2>3. /\ scenes[ids[r][1]] = seen[r][ids[r][1]]
        /\ scenes[ids[r][k]] = seen[r][ids[r][k]] /\ Combinable(scenes[ids[r][k]])
        /\ SceneTemplate(scenes[ids[r][k]]) = SceneTemplate(scenes[ids[r][1]])
    BY <1>2, <2>2 DEF Mergeable
  <2>4. QED
    BY <1>6, <2>1, <2>2, <2>3
<1>8. id # new
  <2>1. id \in OnBoard
    BY <1>2, <1>6 DEF Mergeable
  <2>2. QED
    BY <1>2, <2>1 DEF Merging
<1>9. scenes'[id] = scenes[id]
  BY <1>2, <1>8 DEF Merging
<1>10. scenes'[new] = NewScene(
           [n \in 1..Len(ids[r]) |-> seen[r][ids[r][n]].sources[1]],
           [n \in 1..Len(ids[r]) |-> seen[r][ids[r][n]].items[1]],
           NoAnswer, "pending_review", assemblies)
  BY <1>1, <1>3 DEF Chains, Typed, TypeOK, SceneMap
<1>11. /\ DOMAIN scenes'[new].items = DOMAIN ids[r]
       /\ scenes'[new].items[k] = seen[r][id].items[1]
       /\ scenes'[new].sources[k] = seen[r][id].sources[1]
       /\ scenes'[new].items[1] = seen[r][ids[r][1]].items[1]
  <2>1. /\ scenes'[new].items = [n \in 1..Len(ids[r]) |-> seen[r][ids[r][n]].items[1]]
        /\ scenes'[new].sources = [n \in 1..Len(ids[r]) |-> seen[r][ids[r][n]].sources[1]]
    BY <1>10 DEF NewScene
  <2>2. k \in 1..Len(ids[r]) /\ 1 \in 1..Len(ids[r])
    BY <1>7
  <2>3. QED
    BY <1>6, <1>7, <2>1, <2>2
<1>12. SceneTemplate(scenes'[new]) = SceneTemplate(scenes[id])
  BY <1>7, <1>11 DEF SceneTemplate
<1>13. scenes[id] # NoScene
  <2>1. scenes[id] \in Scene
    BY <1>2, <1>6 DEF Mergeable
  <2>2. QED
    BY <2>1, NoSceneAssumption
<1>14. scenes'[members'[c][i]] = scenes[id]
  BY <1>5, <1>6, <1>9
<1>15. scenes[id].status = "pending_review" /\ MismatchSettled(scenes[id])
  BY <1>7 DEF Combinable
<1>16. \E n \in DOMAIN scenes'[c].items :
         /\ scenes'[c].items[n] = scenes[id].items[1]
         /\ scenes'[c].sources[n] = scenes[id].sources[1]
  BY <1>3, <1>7, <1>11
<1>17. QED
  BY <1>3, <1>12, <1>13, <1>14, <1>15, <1>16

\* With one build at a time, what is combined is combined as it is at the
\* commit: awaiting review, its mismatch settled, of one template, although
\* it was read before the thumbnail was rendered.
THEOREM ChainsAreCurrent ==
    ASSUME OneBuild
    PROVE  Spec => ChainOfCurrentScenes
<1>1. Init => Typed /\ Whole /\ Told
  BY InitTyped, InitWhole
<1>2. Typed /\ Whole /\ Told /\ [Next]_vars => (Typed /\ Whole /\ Told)'
  BY NextTyped, NextWhole
<1>3. Typed /\ Whole /\ Told /\ [Next]_vars =>
        [\A c \in SceneId : (members[c] = <<>> /\ members'[c] # <<>>) =>
           \A i \in DOMAIN members'[c] :
               LET m == scenes'[members'[c][i]] IN
               /\ m # NoScene
               /\ m.status = "pending_review" /\ MismatchSettled(m)
               /\ SceneTemplate(m) = SceneTemplate(scenes'[c])
               /\ \E k \in DOMAIN scenes'[c].items :
                    /\ scenes'[c].items[k] = m.items[1]
                    /\ scenes'[c].sources[k] = m.sources[1]]_vars
  <2> SUFFICES ASSUME Typed, Whole, Next,
                      NEW c \in SceneId, members[c] = <<>>, members'[c] # <<>>,
                      NEW i \in DOMAIN members'[c]
               PROVE  LET m == scenes'[members'[c][i]] IN
                      /\ m # NoScene
                      /\ m.status = "pending_review" /\ MismatchSettled(m)
                      /\ SceneTemplate(m) = SceneTemplate(scenes'[c])
                      /\ \E k \in DOMAIN scenes'[c].items :
                           /\ scenes'[c].items[k] = m.items[1]
                           /\ scenes'[c].sources[k] = m.sources[1]
    OBVIOUS
  <2>1. PICK r \in Request : CommitChain(r)
    BY OnlyChainsCombine
  <2>2. QED
    BY <2>1, ChainIsCurrent
<1>4. QED
  BY <1>1, <1>2, <1>3, PTL DEF Spec, ChainOfCurrentScenes
=============================================================================
