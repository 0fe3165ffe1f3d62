-------------------------- MODULE MediaStoreProofs --------------------------
(***************************************************************************)
(* Theorems about MediaStore, for any sessions, files and requests and any *)
(* limits: the registries, the reservations, the slots and the disk agree, *)
(* and the budget of a session is kept without losing its newest clip.     *)
(***************************************************************************)
EXTENDS MediaStore, FiniteSetTheorems, TLAPS

-----------------------------------------------------------------------------
(* What is kept of a sequence *)

\* The rank of a position among positions S.
Rank(S, i) == Cardinality({j \in S : j <= i})

LEMMA RankType ==
    ASSUME NEW S \in SUBSET Nat, IsFiniteSet(S), NEW i \in S
    PROVE  Rank(S, i) \in 1 .. Cardinality(S)
<1> DEFINE T == {j \in S : j <= i}
<1>1. T \in SUBSET S /\ i \in T
  OBVIOUS
<1> HIDE DEF T
<1>2. IsFiniteSet(T) /\ Cardinality(T) <= Cardinality(S)
  BY <1>1, FS_Subset
<1>3. Cardinality(T) \in Nat /\ Cardinality(T) # 0 /\ Cardinality(S) \in Nat
  BY <1>1, <1>2, FS_CardinalityType, FS_EmptySet
<1>4. QED
  BY <1>2, <1>3 DEF Rank, T

LEMMA RankLess ==
    ASSUME NEW S \in SUBSET Nat, IsFiniteSet(S), NEW i \in S, NEW j \in S, i < j
    PROVE  Rank(S, i) # Rank(S, j)
<1> DEFINE T(k) == {m \in S : m <= k}
<1>1. T(i) \in SUBSET T(j) /\ T(j) \in SUBSET S /\ j \in T(j) /\ j \notin T(i)
  <2>1. i \in Nat /\ j \in Nat /\ S \subseteq Nat
    OBVIOUS
  <2>2. \A m \in S : m <= i => m <= j
    BY <2>1
  <2>3. j \in T(j) /\ j \notin T(i)
    BY <2>1
  <2>4. QED
    BY <2>2, <2>3
<1>2. IsFiniteSet(T(j))
  BY <1>1, FS_Subset
<1> HIDE DEF T
<1>3. Cardinality(T(j)) = Cardinality(T(i)) => T(j) = T(i)
  BY <1>1, <1>2, FS_Subset
<1>4. QED
  BY <1>1, <1>3 DEF Rank, T

\* Every position has a rank of its own, and every rank is that of a position.
LEMMA NthType ==
    ASSUME NEW S \in SUBSET Nat, IsFiniteSet(S), NEW n \in 1 .. Cardinality(S)
    PROVE  Nth(S, n) \in S /\ Rank(S, Nth(S, n)) = n
<1> DEFINE rank == [i \in S |-> Rank(S, i)]
           ranks == 1 .. Cardinality(S)
<1>1. Cardinality(S) \in Nat
  BY FS_CardinalityType
<1>2. IsFiniteSet(ranks) /\ Cardinality(ranks) = Cardinality(S)
  BY <1>1, FS_Interval
<1>3. rank \in [S -> ranks]
  BY RankType
<1>4. ASSUME NEW i \in S, NEW j \in S, Rank(S, i) = Rank(S, j) PROVE i = j
  <2>1. i \in Nat /\ j \in Nat
    OBVIOUS
  <2>2. i < j \/ j < i \/ i = j
    BY <2>1
  <2>3. QED
    BY <1>4, <2>2, RankLess
<1>5. rank \in Injection(S, ranks)
  BY <1>3, <1>4 DEF Injection, IsInjective
<1>6. rank \in Surjection(S, ranks)
  BY <1>2, <1>5, FS_Injection
<1>7. PICK i \in S : Rank(S, i) = n
  BY <1>6 DEF Surjection
<1>8. QED
  BY <1>7 DEF Nth, Rank

LEMMA NthUnique ==
    ASSUME NEW S \in SUBSET Nat, IsFiniteSet(S), NEW i \in S
    PROVE  Nth(S, Rank(S, i)) = i
<1>1. Rank(S, i) \in 1 .. Cardinality(S)
  BY RankType
<1>2. PICK j \in S : j = Nth(S, Rank(S, i)) /\ Rank(S, j) = Rank(S, i)
  BY <1>1, NthType
<1>3. i \in Nat /\ j \in Nat
  OBVIOUS
<1>4. i < j \/ j < i \/ i = j
  BY <1>3
<1>5. QED
  BY <1>2, <1>4, RankLess

\* The positions of what is kept.
Place(es, dropped) == [n \in 1 .. Cardinality(DOMAIN es \ dropped) |-> Nth(DOMAIN es \ dropped, n)]

\* One sequence has what another one has at positions S, each of them once.
Holds(new, place, es, S) ==
    /\ place \in Bijection(DOMAIN new, S)
    /\ \A n \in DOMAIN new : new[n] = es[place[n]]

LEMMA KeptPlaces ==
    ASSUME NEW S, NEW es \in Seq(S), NEW dropped
    PROVE  /\ Kept(es, dropped) \in Seq(S)
           /\ Len(Kept(es, dropped)) = Cardinality(DOMAIN es \ dropped)
           /\ Holds(Kept(es, dropped), Place(es, dropped), es, DOMAIN es \ dropped)
<1> DEFINE kept == DOMAIN es \ dropped
           new == 1 .. Cardinality(kept)
           place == [n \in new |-> Nth(kept, n)]
<1>1. kept \in SUBSET Nat /\ IsFiniteSet(kept)
  <2>1. DOMAIN es = 1 .. Len(es) /\ Len(es) \in Nat
    OBVIOUS
  <2>2. IsFiniteSet(DOMAIN es)
    BY <2>1, FS_Interval
  <2>3. kept \in SUBSET (DOMAIN es)
    OBVIOUS
  <2>4. QED
    BY <2>1, <2>2, <2>3, FS_Subset
<1>2. kept \subseteq DOMAIN es /\ kept = DOMAIN es \ dropped
  OBVIOUS
<1>3. Kept(es, dropped) = [n \in new |-> es[Nth(kept, n)]] /\ Place(es, dropped) = place
  BY DEF Kept, Place
<1> HIDE DEF kept
<1>4. Cardinality(kept) \in Nat
  BY <1>1, FS_CardinalityType
<1>5. \A n \in new : Nth(kept, n) \in kept /\ Rank(kept, Nth(kept, n)) = n
  BY <1>1, NthType
<1>6. \A i \in kept : Rank(kept, i) \in new /\ Nth(kept, Rank(kept, i)) = i
  BY <1>1, RankType, NthUnique
<1>7. place \in Bijection(new, kept)
  <2>1. place \in [new -> kept]
    BY <1>5
  <2>2. \A m, n \in new : place[m] = place[n] => m = n
    BY <1>5
  <2>3. \A i \in kept : \E n \in new : place[n] = i
    BY <1>6
  <2>4. QED
    BY <2>1, <2>2, <2>3 DEF Bijection, Injection, Surjection, IsInjective
<1>8. /\ Kept(es, dropped) \in Seq(S) /\ Len(Kept(es, dropped)) = Cardinality(kept)
      /\ DOMAIN Kept(es, dropped) = new
  <2>1. \A n \in new : Nth(kept, n) \in DOMAIN es
    BY <1>2, <1>5
  <2>2. \A i \in DOMAIN es : es[i] \in S
    OBVIOUS
  <2>3. \A n \in new : es[Nth(kept, n)] \in S
    BY <2>1, <2>2
  <2>4. QED
    BY <1>3, <1>4, <2>3
<1>9. \A n \in new : Kept(es, dropped)[n] = es[place[n]]
  BY <1>3
<1> HIDE DEF new, place
<1>10. QED
  BY <1>2, <1>3, <1>7, <1>8, <1>9 DEF Holds

LEMMA KeptElements ==
    ASSUME NEW S, NEW es \in Seq(S), NEW dropped
    PROVE  /\ \A n \in DOMAIN Kept(es, dropped) : \E i \in DOMAIN es \ dropped : Kept(es, dropped)[n] = es[i]
           /\ \A i \in DOMAIN es \ dropped : \E n \in DOMAIN Kept(es, dropped) : Kept(es, dropped)[n] = es[i]
<1>1. Holds(Kept(es, dropped), Place(es, dropped), es, DOMAIN es \ dropped)
  BY KeptPlaces
<1>2. PICK kept, place, rest : kept = Kept(es, dropped) /\ place = Place(es, dropped) /\ rest = DOMAIN es \ dropped
  OBVIOUS
<1>3. place \in Bijection(DOMAIN kept, rest) /\ \A n \in DOMAIN kept : kept[n] = es[place[n]]
  BY <1>1, <1>2 DEF Holds
<1>4. /\ \A n \in DOMAIN kept : place[n] \in rest
      /\ \A i \in rest : \E n \in DOMAIN kept : place[n] = i
  BY <1>3 DEF Bijection, Injection, Surjection
<1>5. /\ \A n \in DOMAIN kept : \E i \in rest : kept[n] = es[i]
      /\ \A i \in rest : \E n \in DOMAIN kept : kept[n] = es[i]
  BY <1>3, <1>4
<1>6. QED
  BY <1>2, <1>5

-----------------------------------------------------------------------------
(* The inductive invariant *)

\* The types of the variables.
Shapes ==
    /\ sessions \in Seq(Session) /\ condemned \subseteq Session
    /\ entries \in Seq(Entry)
    /\ disk \in [File -> Session \union {None}]
    /\ shown \in [Session -> File \union {None}]
    /\ req \in [Request -> Job \union {Idle}]

\* A session is stored once, in as many as fit, and not condemned then.
Separate ==
    /\ Len(sessions) <= MaxSessions
    /\ \A i, j \in DOMAIN sessions : sessions[i] = sessions[j] => i = j
    /\ \A i \in DOMAIN sessions : sessions[i] \notin condemned

\* The requests for which a clip is reserved, and those that hold a slot.
Reserving == {r \in Request : req[r] # Idle /\ req[r].op = "clip" /\ ~ At(r, "served")}
Busy == {r \in Request : At(r, "starting") \/ At(r, "rendering")}

ReservedRight == reserved = {req[r].file : r \in Reserving}
FreeRight == free = Slots - Cardinality(Busy)

\* Who refers to a file: a registration, a scene or a request of a session.
Claims(f, s) ==
    \/ \E i \in DOMAIN entries : entries[i].file = f /\ entries[i].session = s
    \/ shown[s] = f
    \/ \E r \in Request : req[r] # Idle /\ req[r].file = f /\ req[r].session = s

\* All that refer to a file are of one session, and it is in the directory of
\* that session if anywhere.
Owned ==
    \A f \in File, s \in Session : Claims(f, s) =>
        /\ \A t \in Session : Claims(f, t) => s = t
        /\ disk[f] \in {None, s}

\* A file that is being made is nobody else's yet.
Unclaimed(r) ==
    /\ \A i \in DOMAIN entries : entries[i].file # req[r].file
    /\ \A s \in Session : shown[s] # req[r].file

Private ==
    /\ \A r \in Request : req[r] # Idle =>
          /\ req[r].file \in Video <=> req[r].op = "clip"
          /\ \A q \in Request \ {r} : req[q] # Idle => req[q].file # req[r].file
          /\ ~ At(r, "served") => Unclaimed(r)
    /\ \A s \in Session : shown[s] \notin Video

MediaInv ==
    /\ Shapes /\ Separate /\ ReservedRight /\ FreeRight /\ Owned /\ Private
    /\ RegisteredFilesExist /\ ClipsAccounted

LEMMA TypeParts == TypeOK <=>
    /\ Shapes /\ ReservedRight /\ FreeRight /\ Len(sessions) <= MaxSessions
    /\ \A i \in DOMAIN sessions : sessions[i] \notin condemned
BY DEF TypeOK, Shapes, ReservedRight, FreeRight, Stored, Reserving, Busy

\* A job is not idle.
LEMMA JobFields ==
    ASSUME Shapes, NEW r \in Request, req[r] # Idle
    PROVE  /\ req[r] \in Job /\ req[r].file \in File /\ req[r].session \in Session
           /\ req[r].op \in Kind /\ req[r].at \in Stage
<1>1. req[r] \in Job
  BY DEF Shapes
<1>2. QED
  BY <1>1 DEF Job

LEMMA JobNotIdle ==
    ASSUME NEW j \in Job
    PROVE  j # Idle
BY DEF Job, Idle, Kind

-----------------------------------------------------------------------------
(* What steps do to requests *)

\* A request goes to another stage.
Goes(r, stage) ==
    /\ req[r] # Idle /\ req' \in [Request -> Job \union {Idle}]
    /\ req'[r] # Idle /\ req'[r].at = stage
    /\ req'[r].op = req[r].op /\ req'[r].file = req[r].file /\ req'[r].session = req[r].session
    /\ \A q \in Request \ {r} : req'[q] = req[q]

LEMMA GoesToGoes ==
    ASSUME Shapes, NEW r \in Request, req[r] # Idle, NEW stage \in Stage, GoesTo(r, stage)
    PROVE  Goes(r, stage)
<1>1. req[r] \in Job
  BY DEF Shapes
<1> DEFINE new == [req[r] EXCEPT !.at = stage]
<1>2. /\ new \in Job /\ new.at = stage /\ new.op = req[r].op
      /\ new.file = req[r].file /\ new.session = req[r].session
  BY <1>1 DEF Job
<1>3. req' = [req EXCEPT ![r] = new]
  BY DEF GoesTo
<1> HIDE DEF new
<1>4. new # Idle
  BY <1>2, JobNotIdle
<1>5. req' \in [Request -> Job \union {Idle}] /\ req'[r] = new /\ \A q \in Request \ {r} : req'[q] = req[q]
  BY <1>2, <1>3 DEF Shapes
<1>6. QED
  BY <1>2, <1>4, <1>5 DEF Goes

\* No request comes to refer to another file, and what was handed out stays so.
Carries ==
    \A q \in Request : req'[q] # Idle =>
        /\ req[q] # Idle /\ req'[q].op = req[q].op /\ req'[q].file = req[q].file
        /\ req'[q].session = req[q].session
        /\ req[q].at = "served" => req'[q].at = "served"

LEMMA GoesCarries ==
    ASSUME NEW r \in Request, NEW stage, Goes(r, stage), ~ At(r, "served")
    PROVE  Carries
BY DEF Goes, Carries, At

LEMMA StaysCarries ==
    ASSUME UNCHANGED req
    PROVE  Carries
BY DEF Carries

\* A request that is over.
LEMMA OverCarries ==
    ASSUME Shapes, NEW r \in Request, req' = [req EXCEPT ![r] = Idle]
    PROVE  /\ Carries /\ req' \in [Request -> Job \union {Idle}]
           /\ req'[r] = Idle /\ \A q \in Request \ {r} : req'[q] = req[q]
BY DEF Shapes, Carries

-----------------------------------------------------------------------------
(* What steps do to registrations and files *)

\* What is left of registrations es is left with its files, and what is dropped
\* takes along the files that nobody else has.
Drops(es, claimed) ==
    /\ entries' \in Seq(Entry)
    /\ \A n \in DOMAIN entries' : \E i \in DOMAIN es : entries'[n] = es[i]
    /\ disk' \in [File -> Session \union {None}]
    /\ \A f \in File : disk'[f] \in {None, disk[f]}
    /\ \A n \in DOMAIN entries' : disk'[entries'[n].file] = disk[entries'[n].file]
    /\ \A f \in File : f \in claimed => disk'[f] = disk[f]
    /\ \A i \in DOMAIN es : disk'[es[i].file] # None =>
          es[i].file \in claimed \/ \E n \in DOMAIN entries' : entries'[n].file = es[i].file

LEMMA KeptDrops ==
    ASSUME Shapes, NEW es \in Seq(Entry), NEW dropped \in SUBSET (DOMAIN es), NEW claimed,
           entries' = Kept(es, dropped), disk' = Unlinked(Orphans(es, dropped, claimed))
    PROVE  Drops(es, claimed)
<1>1. entries' \in Seq(Entry)
  BY KeptPlaces
<1>2. /\ \A n \in DOMAIN entries' : \E i \in DOMAIN es \ dropped : entries'[n] = es[i]
      /\ \A i \in DOMAIN es \ dropped : \E n \in DOMAIN entries' : entries'[n] = es[i]
  BY KeptElements
<1>3. \A i \in DOMAIN es : es[i].file \in File
  <2>1. \A i \in DOMAIN es : es[i] \in Entry
    OBVIOUS
  <2>2. QED
    BY <2>1 DEF Entry
<1>4. PICK gone : gone = Orphans(es, dropped, claimed)
  OBVIOUS
<1>5. /\ \A f \in gone : f \notin claimed
      /\ \A i \in DOMAIN es \ dropped : es[i].file \notin gone
      /\ \A i \in dropped : es[i].file \in gone \/ es[i].file \in claimed
                              \/ \E j \in DOMAIN es \ dropped : es[i].file = es[j].file
  BY <1>4 DEF Orphans
<1>6. /\ disk' \in [File -> Session \union {None}]
      /\ \A f \in File : disk'[f] = IF f \in gone THEN None ELSE disk[f]
  BY <1>4 DEF Unlinked, Shapes
<1>7. \A f \in File : disk'[f] \in {None, disk[f]} /\ (f \in claimed => disk'[f] = disk[f])
  BY <1>5, <1>6
<1>8. ASSUME NEW n \in DOMAIN entries' PROVE disk'[entries'[n].file] = disk[entries'[n].file]
  BY <1>2, <1>3, <1>5, <1>6
<1>9. ASSUME NEW i \in DOMAIN es, disk'[es[i].file] # None, es[i].file \notin claimed
      PROVE  \E n \in DOMAIN entries' : entries'[n].file = es[i].file
  <2>1. es[i].file \notin gone
    BY <1>3, <1>6, <1>9
  <2>2. PICK j \in DOMAIN es \ dropped : es[i].file = es[j].file
    BY <1>5, <1>9, <2>1
  <2>3. QED
    BY <1>2, <2>2
<1>10. QED
  BY <1>1, <1>2, <1>6, <1>7, <1>8, <1>9 DEF Drops

\* What is dropped for a new registration are registrations.
LEMMA RoomPositions ==
    ASSUME NEW es, NEW e
    PROVE  Room(es, e) \subseteq DOMAIN es
BY DEF Room, OldestOver, CountOver, OfKind, OfSession

\* A registration comes last, and what it displaces goes.
LEMMA RegisterDrops ==
    ASSUME Shapes, NEW e \in Entry, Register(e)
    PROVE  /\ Drops(Append(entries, e), reserved \ {e.file}) /\ reserved' = reserved \ {e.file}
           /\ Append(entries, e) \in Seq(Entry)
<1> DEFINE es == Append(entries, e)
<1>1. es \in Seq(Entry)
  BY DEF Shapes
<1>2. Room(es, e) \in SUBSET (DOMAIN es)
  BY RoomPositions
<1>3. /\ entries' = Kept(es, Room(es, e)) /\ reserved' = reserved \ {e.file}
      /\ disk' = Unlinked(Orphans(es, Room(es, e), reserved \ {e.file}))
  BY DEF Register, Unreserved
<1> HIDE DEF es
<1>4. Drops(es, reserved \ {e.file})
  BY <1>1, <1>2, <1>3, KeptDrops
<1>5. QED
  BY <1>1, <1>3, <1>4 DEF es

\* What is registered afterwards was so before, or is the new one.
Registers(e) ==
    /\ \A n \in DOMAIN entries' : entries'[n] = e \/ \E i \in DOMAIN entries : entries'[n] = entries[i]
    /\ \A f \in File : (f = e.file \/ \E i \in DOMAIN entries : entries[i].file = f) /\ disk'[f] # None =>
          f \in reserved' \/ \E n \in DOMAIN entries' : entries'[n].file = f

LEMMA RegisterRegisters ==
    ASSUME Shapes, NEW e \in Entry, Register(e)
    PROVE  Registers(e)
<1> DEFINE es == Append(entries, e)
<1>1. Drops(es, reserved') /\ es \in Seq(Entry)
  BY RegisterDrops
<1>2. /\ \A i \in DOMAIN es : es[i] = e \/ \E j \in DOMAIN entries : es[i] = entries[j]
      /\ \A j \in DOMAIN entries : \E i \in DOMAIN es : es[i] = entries[j]
      /\ \E i \in DOMAIN es : es[i] = e
  <2>1. entries \in Seq(Entry)
    BY DEF Shapes
  <2>2. /\ DOMAIN es = DOMAIN entries \union {Len(entries) + 1} /\ es[Len(entries) + 1] = e
        /\ \A j \in DOMAIN entries : es[j] = entries[j]
    BY <2>1
  <2> HIDE DEF es
  <2>3. QED
    BY <2>2
<1> HIDE DEF es
<1>3. \A n \in DOMAIN entries' : entries'[n] = e \/ \E i \in DOMAIN entries : entries'[n] = entries[i]
  BY <1>1, <1>2 DEF Drops
<1>4. \A i \in DOMAIN es : disk'[es[i].file] # None =>
          es[i].file \in reserved' \/ \E n \in DOMAIN entries' : entries'[n].file = es[i].file
  BY <1>1 DEF Drops
<1>5. QED
  BY <1>2, <1>3, <1>4 DEF Registers

-----------------------------------------------------------------------------
(* What keeps the parts of the invariant *)

\* Nobody comes to refer to a file of another session.
NoNewClaims == \A f \in File, s \in Session : Claims(f, s)' => Claims(f, s)

\* A file comes only into the directory of a session that refers to it.
DiskClaimed == \A f \in File : disk'[f] \in {None, disk[f]} \/ Claims(f, disk'[f])

OldEntries == \A n \in DOMAIN entries' : Claims(entries'[n].file, entries'[n].session)
OldShown == \A s \in Session : shown'[s] # None => Claims(shown'[s], s)

LEMMA ClaimsStay ==
    ASSUME Carries, OldEntries, OldShown
    PROVE  NoNewClaims
<1> SUFFICES ASSUME NEW f \in File, NEW s \in Session, Claims(f, s)'
             PROVE  Claims(f, s)
  BY DEF NoNewClaims
<1>1. CASE \E n \in DOMAIN entries' : entries'[n].file = f /\ entries'[n].session = s
  BY <1>1 DEF OldEntries
<1>2. CASE shown'[s] = f
  BY <1>2, MediaAssumption DEF OldShown
<1>3. CASE \E r \in Request : req'[r] # Idle /\ req'[r].file = f /\ req'[r].session = s
  BY <1>3 DEF Carries, Claims
<1>4. QED
  BY <1>1, <1>2, <1>3 DEF Claims

LEMMA OwnedStays ==
    ASSUME Shapes, Shapes', Owned, NoNewClaims, DiskClaimed
    PROVE  Owned'
<1> SUFFICES ASSUME NEW f \in File, NEW s \in Session, Claims(f, s)'
             PROVE  /\ \A t \in Session : Claims(f, t)' => s = t
                    /\ disk'[f] \in {None, s}
  BY DEF Owned
<1>1. Claims(f, s)
  BY DEF NoNewClaims
<1>2. \A t \in Session : Claims(f, t) => s = t
  BY <1>1 DEF Owned
<1>3. \A t \in Session : Claims(f, t)' => s = t
  BY <1>2 DEF NoNewClaims
<1>4. disk[f] \in {None, s}
  BY <1>1 DEF Owned
<1>5. disk'[f] \in Session \union {None}
  BY DEF Shapes
<1>6. disk'[f] \in {None, disk[f]} \/ Claims(f, disk'[f])
  BY DEF DiskClaimed
<1>7. disk'[f] \in {None, s}
  BY <1>2, <1>4, <1>5, <1>6
<1>8. QED
  BY <1>3, <1>7

\* Whoever still makes a file keeps it for itself.
StayUnclaimed == \A r \in Request : req'[r] # Idle /\ ~ At(r, "served")' => Unclaimed(r)'
NoVideoShown == \A s \in Session : shown'[s] \notin Video

LEMMA PrivateStays ==
    ASSUME Private, Carries, StayUnclaimed, NoVideoShown
    PROVE  Private'
BY DEF Private, Carries, StayUnclaimed, NoVideoShown

\* Registrations of old files and pictures leave a file that is being made alone.
OnlyOld ==
    /\ \A n \in DOMAIN entries' : \E i \in DOMAIN entries : entries'[n].file = entries[i].file
    /\ \A s \in Session : shown'[s] \in {None, shown[s]}

LEMMA OldUnclaimed ==
    ASSUME Shapes, Private, Carries, OnlyOld
    PROVE  StayUnclaimed /\ NoVideoShown
<1>1. NoVideoShown
  BY MediaAssumption DEF OnlyOld, NoVideoShown, Private
<1>2. ASSUME NEW r \in Request, req'[r] # Idle, ~ At(r, "served")' PROVE Unclaimed(r)'
  <2>1. req[r] # Idle /\ req'[r].file = req[r].file /\ ~ At(r, "served")
    BY <1>2 DEF Carries, At
  <2>2. Unclaimed(r)
    BY <2>1 DEF Private
  <2>3. req[r].file \in File
    BY <2>1, JobFields
  <2>4. QED
    BY <2>1, <2>2, <2>3, MediaAssumption DEF Unclaimed, OnlyOld
<1>3. QED
  BY <1>1, <1>2 DEF StayUnclaimed

LEMMA OldClaimed ==
    ASSUME UNCHANGED entries, UNCHANGED shown
    PROVE  OldEntries /\ OldShown /\ OnlyOld
BY DEF OldEntries, OldShown, OnlyOld, Claims

\* The slots of requests that go from stage to stage.
LEMMA BusyFinite == IsFiniteSet(Busy) /\ Cardinality(Busy) \in Nat
<1>1. Busy \in SUBSET Request
  BY DEF Busy
<1>2. IsFiniteSet(Busy)
  BY <1>1, MediaAssumption, FS_Subset
<1>3. QED
  BY <1>2, FS_CardinalityType

LEMMA SlotTaken ==
    ASSUME FreeRight, NEW r \in Request, r \notin Busy, Busy' = Busy \union {r}, free' = free - 1
    PROVE  FreeRight'
<1>1. Cardinality(Busy') = Cardinality(Busy) + 1
  BY BusyFinite, FS_AddElement
<1>2. QED
  BY <1>1, BusyFinite, MediaAssumption DEF FreeRight

LEMMA SlotReturned ==
    ASSUME FreeRight, NEW r \in Request, r \in Busy, Busy' = Busy \ {r}, free' = free + 1
    PROVE  FreeRight'
<1>1. Cardinality(Busy') = Cardinality(Busy) - 1
  BY BusyFinite, FS_RemoveElement
<1>2. QED
  BY <1>1, BusyFinite, MediaAssumption DEF FreeRight

LEMMA SlotsKept ==
    ASSUME FreeRight, Busy' = Busy, free' = free
    PROVE  FreeRight'
BY DEF FreeRight

\* A request among others that goes to another stage.
LEMMA GoesBusy ==
    ASSUME NEW r \in Request, NEW stage \in Stage, Goes(r, stage)
    PROVE  Busy' = IF stage \in {"starting", "rendering"} THEN Busy \union {r} ELSE Busy \ {r}
<1>1. \A q \in Request \ {r} : q \in Busy' <=> q \in Busy
  BY DEF Goes, Busy, At
<1>2. r \in Busy' <=> stage \in {"starting", "rendering"}
  BY DEF Goes, Busy, At
<1>3. Busy \subseteq Request /\ Busy' \subseteq Request
  BY DEF Busy
<1>4. QED
  BY <1>1, <1>2, <1>3

LEMMA GoesReserving ==
    ASSUME NEW r \in Request, NEW stage \in Stage, Goes(r, stage), ReservedRight, reserved' = reserved,
           ~ At(r, "served"), stage # "served" \/ req[r].op # "clip"
    PROVE  ReservedRight'
<1>1. Reserving' = Reserving
  BY DEF Goes, Reserving, At
<1>2. \A q \in Reserving : req'[q].file = req[q].file
  BY DEF Goes, Reserving
<1>3. QED
  BY <1>1, <1>2 DEF ReservedRight

\* A clip whose reservation ends.
LEMMA ReservationEnds ==
    ASSUME ReservedRight, Private, NEW r \in Request, r \in Reserving,
           Reserving' = Reserving \ {r}, \A q \in Request \ {r} : req'[q] = req[q],
           reserved' = reserved \ {req[r].file}
    PROVE  ReservedRight'
<1>1. \A q \in Reserving : q # r => req[q].file # req[r].file
  BY DEF Private, Reserving
<1>2. reserved' = {req[q].file : q \in Reserving \ {r}}
  BY <1>1 DEF ReservedRight
<1>3. \A q \in Reserving \ {r} : req'[q].file = req[q].file
  BY DEF Reserving
<1>4. QED
  BY <1>2, <1>3 DEF ReservedRight

-----------------------------------------------------------------------------
(* Steps of requests *)

\* A request that touches neither registries nor files.
LEMMA QuietInv ==
    ASSUME MediaInv, UNCHANGED <<sessions, condemned, entries, reserved, disk, shown>>,
           Carries, req' \in [Request -> Job \union {Idle}], ReservedRight', FreeRight'
    PROVE  MediaInv'
<1> USE DEF MediaInv
<1>1. Shapes' /\ Separate'
  BY DEF Shapes, Separate
<1>2. OldEntries /\ OldShown /\ OnlyOld /\ NoNewClaims
  BY OldClaimed, ClaimsStay
<1>3. Owned'
  BY <1>1, <1>2, OwnedStays DEF DiskClaimed
<1>4. Private'
  BY <1>2, OldUnclaimed, PrivateStays
<1>5. RegisteredFilesExist' /\ ClipsAccounted'
  BY DEF RegisteredFilesExist, ClipsAccounted, Stored
<1>6. QED
  BY <1>1, <1>3, <1>4, <1>5

LEMMA StagesOfRender == {"waiting", "starting", "rendering", "rendered", "failed", "served"} = Stage
BY DEF Stage

LEMMA AcquireInv ==
    ASSUME MediaInv, NEW r \in Request, Acquire(r)
    PROVE  MediaInv'
<1> USE DEF MediaInv
<1>1. Goes(r, "starting") /\ "starting" \in Stage /\ r \notin Busy /\ ~ At(r, "served")
  BY GoesToGoes, StagesOfRender DEF Acquire, At, Busy
<1>2. Busy' = Busy \union {r}
  BY <1>1, GoesBusy
<1>3. FreeRight'
  BY <1>1, <1>2, SlotTaken DEF Acquire
<1>4. ReservedRight'
  BY <1>1, GoesReserving DEF Acquire
<1>5. Carries /\ req' \in [Request -> Job \union {Idle}]
  BY <1>1, GoesCarries DEF Goes
<1>6. QED
  BY <1>3, <1>4, <1>5, QuietInv DEF Acquire

LEMMA DeadlineInv ==
    ASSUME MediaInv, NEW r \in Request, DeadlineWaiting(r) \/ DeadlineStarting(r)
    PROVE  MediaInv'
<1> USE DEF MediaInv
<1>1. Goes(r, "failed") /\ "failed" \in Stage /\ ~ At(r, "served")
  BY GoesToGoes, StagesOfRender DEF DeadlineWaiting, DeadlineStarting, At
<1>2. Busy' = Busy \ {r}
  BY <1>1, GoesBusy
<1>3. FreeRight'
  <2>1. CASE DeadlineWaiting(r)
    <3>1. r \notin Busy /\ free' = free
      BY <2>1 DEF DeadlineWaiting, Busy, At
    <3>2. QED
      BY <1>2, <3>1, SlotsKept
  <2>2. CASE DeadlineStarting(r)
    <3>1. r \in Busy /\ free' = free + 1
      BY <2>2 DEF DeadlineStarting, Busy, At, GivesSlotBack
    <3>2. QED
      BY <1>2, <3>1, SlotReturned
  <2>3. QED
    BY <2>1, <2>2
<1>4. ReservedRight'
  BY <1>1, GoesReserving DEF DeadlineWaiting, DeadlineStarting
<1>5. Carries /\ req' \in [Request -> Job \union {Idle}]
  BY <1>1, GoesCarries DEF Goes
<1>6. QED
  BY <1>3, <1>4, <1>5, QuietInv DEF DeadlineWaiting, DeadlineStarting

LEMMA StartInv ==
    ASSUME MediaInv, NEW r \in Request, Start(r)
    PROVE  MediaInv'
<1> USE DEF MediaInv
<1>1. Goes(r, "rendering") /\ "rendering" \in Stage /\ r \in Busy /\ ~ At(r, "served")
  BY GoesToGoes, StagesOfRender DEF Start, At, Busy
<1>2. Busy' = Busy
  BY <1>1, GoesBusy
<1>3. FreeRight'
  BY <1>2, SlotsKept DEF Start
<1>4. ReservedRight'
  BY <1>1, GoesReserving DEF Start
<1>5. Carries /\ req' \in [Request -> Job \union {Idle}]
  BY <1>1, GoesCarries DEF Goes
<1>6. QED
  BY <1>3, <1>4, <1>5, QuietInv DEF Start

LEMMA RespondInv ==
    ASSUME MediaInv, NEW r \in Request, Respond(r)
    PROVE  MediaInv'
<1> USE DEF MediaInv
<1>1. /\ Carries /\ req' \in [Request -> Job \union {Idle}]
      /\ req'[r] = Idle /\ \A q \in Request \ {r} : req'[q] = req[q]
  BY OverCarries DEF Respond
<1>2. r \notin Busy /\ r \notin Reserving
  BY DEF Respond, At, Busy, Reserving
<1>3. Busy' = Busy /\ Reserving' = Reserving
  BY <1>1, <1>2 DEF Busy, Reserving, At
<1>4. FreeRight'
  BY <1>3, SlotsKept DEF Respond
<1>5. ReservedRight'
  <2>1. \A q \in Reserving : req'[q].file = req[q].file
    BY <1>1, <1>2 DEF Reserving
  <2>2. QED
    BY <1>3, <2>1 DEF ReservedRight, Respond
<1>6. QED
  BY <1>1, <1>4, <1>5, QuietInv DEF Respond

\* The directory that a render writes to is that of its session, and the file
\* is its own; that of a clip is reserved.
LEMMA RenderInv ==
    ASSUME MediaInv, NEW r \in Request, RenderEnds(r) \/ RenderFails(r)
    PROVE  MediaInv'
<1> USE DEF MediaInv
<1>1. PICK stage \in {"rendered", "failed"} : GoesTo(r, stage)
  BY DEF RenderEnds, RenderFails
<1>2. /\ req[r] # Idle /\ req[r].at = "rendering" /\ ~ At(r, "served") /\ r \in Busy
      /\ free' = free + 1 /\ UNCHANGED <<sessions, condemned, entries, reserved, shown>>
      /\ disk' \in {disk, [disk EXCEPT ![req[r].file] = req[r].session]}
  BY DEF RenderEnds, RenderFails, At, Busy, GivesSlotBack
<1>3. stage \in Stage /\ Goes(r, stage)
  BY <1>1, <1>2, GoesToGoes DEF Stage
<1>4. Busy' = Busy \ {r}
  BY <1>3, GoesBusy
<1>5. FreeRight'
  BY <1>2, <1>4, SlotReturned
<1>6. ReservedRight'
  BY <1>2, <1>3, GoesReserving
<1>7. Carries /\ req' \in [Request -> Job \union {Idle}]
  BY <1>2, <1>3, GoesCarries DEF Goes
<1>8. /\ req[r].file \in File /\ req[r].session \in Session
      /\ Claims(req[r].file, req[r].session) /\ Unclaimed(r)
  BY <1>2, JobFields DEF Claims, Private
<1>9. /\ disk' \in [File -> Session \union {None}]
      /\ \A f \in File \ {req[r].file} : disk'[f] = disk[f]
      /\ disk'[req[r].file] \in {disk[req[r].file], req[r].session}
  BY <1>2, <1>8 DEF Shapes
<1>10. Shapes' /\ Separate'
  BY <1>2, <1>7, <1>9 DEF Shapes, Separate
<1>11. OldEntries /\ OldShown /\ OnlyOld /\ NoNewClaims
  BY <1>2, <1>7, OldClaimed, ClaimsStay
<1>12. Owned'
  <2>1. DiskClaimed
    BY <1>8, <1>9 DEF DiskClaimed
  <2>2. QED
    BY <1>10, <1>11, <2>1, OwnedStays
<1>13. Private'
  BY <1>7, <1>11, OldUnclaimed, PrivateStays
<1>14. RegisteredFilesExist'
  <2>1. \A i \in DOMAIN entries : entries[i].file \in File /\ entries[i].file # req[r].file
    <3>1. \A i \in DOMAIN entries : entries[i] \in Entry
      BY DEF Shapes
    <3>2. QED
      BY <1>8, <3>1 DEF Entry, Unclaimed
  <2>2. QED
    BY <1>2, <1>9, <2>1 DEF RegisteredFilesExist, Stored
<1>15. ClipsAccounted'
  <2>1. ASSUME NEW f \in Video, f = req[r].file PROVE f \in reserved'
    <3>1. req[r].op = "clip"
      BY <1>2, <2>1 DEF Private
    <3>2. r \in Reserving
      BY <1>2, <3>1 DEF Reserving
    <3>3. QED
      BY <1>2, <2>1, <3>2 DEF ReservedRight
  <2>2. QED
    BY <1>2, <1>9, <2>1, MediaAssumption DEF ClipsAccounted
<1>16. QED
  BY <1>5, <1>6, <1>10, <1>12, <1>13, <1>14, <1>15

\* What is registered is claimed, and its file is in a directory or it is not.
LEMMA EntryFields ==
    ASSUME Shapes, NEW i \in DOMAIN entries
    PROVE  /\ entries[i] \in Entry /\ entries[i].file \in File /\ entries[i].session \in Session
           /\ Claims(entries[i].file, entries[i].session)
<1>1. entries[i] \in Entry
  BY DEF Shapes
<1>2. QED
  BY <1>1 DEF Entry, Claims

\* A registration of a file that is on disk and that its session refers to.
Registering(e) ==
    /\ e \in Entry /\ Register(e) /\ Claims(e.file, e.session) /\ disk[e.file] # None
    /\ UNCHANGED <<sessions, condemned, shown>>

LEMMA RegisteringOwned ==
    ASSUME MediaInv, NEW e, Registering(e), Carries, Shapes'
    PROVE  Owned'
<1> USE DEF MediaInv
<1>1. Registers(e) /\ \A f \in File : disk'[f] \in {None, disk[f]}
  BY RegisterRegisters, RegisterDrops DEF Registering, Drops
<1>2. OldEntries
  BY <1>1, EntryFields DEF Registers, OldEntries, Registering
<1>3. OldShown
  BY DEF OldShown, Registering, Claims
<1>4. QED
  BY <1>1, <1>2, <1>3, ClaimsStay, OwnedStays DEF DiskClaimed

LEMMA RegisteringFiles ==
    ASSUME MediaInv, NEW e, Registering(e)
    PROVE  RegisteredFilesExist'
<1> USE DEF MediaInv
<1>1. Registers(e) /\ e \in Entry
  BY RegisterRegisters DEF Registering
<1>2. \A n \in DOMAIN entries' : disk'[entries'[n].file] = disk[entries'[n].file]
  BY RegisterDrops DEF Registering, Drops
<1>3. \A s : Stored(s)' = Stored(s)
  BY DEF Registering, Stored
<1>4. ASSUME NEW n \in DOMAIN entries', Stored(entries'[n].session)
      PROVE  disk[entries'[n].file] # None
  BY <1>1, <1>4 DEF Registers, Registering, RegisteredFilesExist
<1>5. QED
  BY <1>2, <1>3, <1>4 DEF RegisteredFilesExist

LEMMA RegisteringClips ==
    ASSUME MediaInv, NEW e, Registering(e)
    PROVE  ClipsAccounted'
<1> USE DEF MediaInv
<1>1. /\ Registers(e) /\ e \in Entry /\ reserved' = reserved \ {e.file} /\ condemned' = condemned
      /\ \A f \in File : disk'[f] \in {None, disk[f]}
  BY RegisterRegisters, RegisterDrops DEF Registering, Drops
<1> SUFFICES ASSUME NEW f \in Video, disk'[f] # None
             PROVE  \/ f \in reserved'
                    \/ disk'[f] \in condemned'
                    \/ \E n \in DOMAIN entries' : entries'[n].file = f
  BY DEF ClipsAccounted
<1>2. f \in File /\ disk'[f] = disk[f]
  BY <1>1, MediaAssumption
<1>3. f \in reserved \/ disk[f] \in condemned \/ \E i \in DOMAIN entries : entries[i].file = f
  BY <1>2 DEF ClipsAccounted
<1>4. f = e.file \/ (\E i \in DOMAIN entries : entries[i].file = f) =>
        f \in reserved' \/ \E n \in DOMAIN entries' : entries'[n].file = f
  BY <1>1, <1>2 DEF Registers
<1>5. QED
  BY <1>1, <1>2, <1>3, <1>4

\* A clip is registered once its reservation ends.
LEMMA PublishInv ==
    ASSUME MediaInv, NEW r \in Request, Publish(r)
    PROVE  MediaInv'
<1> USE DEF MediaInv
<1> DEFINE e == [kind |-> "clip", file |-> req[r].file, session |-> req[r].session]
<1>1. /\ req[r] # Idle /\ req[r].at = "rendered" /\ req[r].op = "clip" /\ ~ At(r, "served")
      /\ r \notin Busy /\ r \in Reserving
  BY DEF Publish, At, Busy, Reserving
<1>2. Goes(r, "served") /\ "served" \in Stage
  BY <1>1, GoesToGoes, StagesOfRender DEF Publish
<1>3. Registering(e) /\ e.file = req[r].file
  BY <1>1, JobFields DEF Publish, Registering, Entry, Kind, Claims
<1> HIDE DEF e
<1>4. reserved' = reserved \ {req[r].file} /\ Registers(e)
  BY <1>3, RegisterDrops, RegisterRegisters DEF Registering
<1>5. Carries /\ req' \in [Request -> Job \union {Idle}]
  BY <1>1, <1>2, GoesCarries DEF Goes
<1>6. entries' \in Seq(Entry) /\ disk' \in [File -> Session \union {None}]
  BY <1>3, RegisterDrops DEF Registering, Drops
<1>7. Shapes' /\ Separate'
  BY <1>3, <1>5, <1>6 DEF Shapes, Separate, Registering
<1>8. FreeRight'
  <2>1. Busy' = Busy
    BY <1>1, <1>2, GoesBusy
  <2>2. QED
    BY <2>1, SlotsKept DEF Publish
<1>9. ReservedRight'
  <2>1. Reserving' = Reserving \ {r} /\ \A q \in Request \ {r} : req'[q] = req[q]
    BY <1>2 DEF Goes, Reserving, At
  <2>2. QED
    BY <1>1, <1>4, <2>1, ReservationEnds
<1>10. Private'
  <2>1. ASSUME NEW q \in Request, req'[q] # Idle, ~ At(q, "served")' PROVE Unclaimed(q)'
    <3>1. q # r /\ req'[q] = req[q] /\ req[q] # Idle /\ ~ At(q, "served")
      BY <1>2, <2>1 DEF Goes, At
    <3>2. Unclaimed(q) /\ req[q].file # e.file
      BY <1>1, <1>3, <3>1 DEF Private
    <3>3. QED
      BY <1>3, <1>4, <3>1, <3>2 DEF Unclaimed, Registers, Registering
  <2>2. StayUnclaimed /\ NoVideoShown
    BY <1>3, <2>1 DEF StayUnclaimed, NoVideoShown, Private, Registering
  <2>3. QED
    BY <1>5, <2>2, PrivateStays
<1>11. QED
  BY <1>3, <1>5, <1>7, <1>8, <1>9, <1>10, RegisteringOwned, RegisteringFiles, RegisteringClips

\* A thumbnail is registered of a file that nobody makes any more; it is not
\* reserved.
LEMMA SerializeInv ==
    ASSUME MediaInv, NEW s \in Session, Serialize(s)
    PROVE  MediaInv'
<1> USE DEF MediaInv
<1>1. UNCHANGED <<sessions, condemned, free, req>> /\ shown[s] # None
  BY DEF Serialize
<1>2. /\ Carries /\ req' \in [Request -> Job \union {Idle}]
      /\ Busy' = Busy /\ Reserving' = Reserving
  BY <1>1, StaysCarries DEF Shapes, Busy, Reserving, At
<1>3. FreeRight'
  BY <1>1, <1>2, SlotsKept
<1>4. CASE disk[shown[s]] = None
  <2>1. shown' = [shown EXCEPT ![s] = None] /\ UNCHANGED <<entries, reserved, disk>>
    BY <1>4 DEF Serialize
  <2>2. shown' \in [Session -> File \union {None}] /\ \A t \in Session : shown'[t] \in {None, shown[t]}
    BY <2>1 DEF Shapes
  <2>3. Shapes' /\ Separate'
    BY <1>1, <2>1, <2>2 DEF Shapes, Separate
  <2>4. ReservedRight'
    BY <1>1, <1>2, <2>1 DEF ReservedRight
  <2>5. OldEntries /\ OldShown /\ OnlyOld
    BY <2>1, <2>2 DEF OldEntries, OldShown, OnlyOld, Claims
  <2>6. Owned' /\ Private'
    BY <1>2, <2>1, <2>3, <2>5, ClaimsStay, OwnedStays, OldUnclaimed, PrivateStays DEF DiskClaimed
  <2>7. RegisteredFilesExist' /\ ClipsAccounted'
    BY <1>1, <2>1 DEF RegisteredFilesExist, ClipsAccounted, Stored
  <2>8. QED
    BY <1>3, <2>3, <2>4, <2>6, <2>7
<1>5. CASE disk[shown[s]] # None
  <2> DEFINE e == [kind |-> "thumbnail", file |-> shown[s], session |-> s]
  <2>1. shown[s] \in File /\ shown[s] \notin Video
    BY <1>1 DEF Shapes, Private
  <2>2. Registering(e) /\ e.file = shown[s]
    BY <1>1, <1>5, <2>1 DEF Serialize, Registering, Entry, Kind, Claims
  <2> HIDE DEF e
  <2>3. reserved' = reserved
    <3>1. reserved' = reserved \ {shown[s]}
      BY <2>2, RegisterDrops DEF Registering
    <3>2. shown[s] \notin reserved
      BY <2>1 DEF ReservedRight, Reserving, Private
    <3>3. QED
      BY <3>1, <3>2
  <2>4. entries' \in Seq(Entry) /\ disk' \in [File -> Session \union {None}] /\ Registers(e)
    BY <2>2, RegisterDrops, RegisterRegisters DEF Registering, Drops
  <2>5. Shapes' /\ Separate'
    BY <1>2, <2>2, <2>4 DEF Shapes, Separate, Registering
  <2>6. ReservedRight'
    BY <1>1, <1>2, <2>3 DEF ReservedRight
  <2>7. Private'
    <3>1. ASSUME NEW q \in Request, req'[q] # Idle, ~ At(q, "served")' PROVE Unclaimed(q)'
      <4>1. req'[q] = req[q] /\ req[q] # Idle /\ ~ At(q, "served")
        BY <1>1, <3>1 DEF At
      <4>2. Unclaimed(q) /\ req[q].file # e.file
        BY <2>2, <4>1 DEF Private, Unclaimed
      <4>3. QED
        BY <2>2, <2>4, <4>1, <4>2 DEF Unclaimed, Registers, Registering
    <3>2. StayUnclaimed /\ NoVideoShown
      BY <2>2, <3>1 DEF StayUnclaimed, NoVideoShown, Private, Registering
    <3>3. QED
      BY <1>2, <3>2, PrivateStays
  <2>8. QED
    BY <1>2, <1>3, <2>2, <2>5, <2>6, <2>7, RegisteringOwned, RegisteringFiles, RegisteringClips
<1>6. QED
  BY <1>4, <1>5

\* An aborted clip is not registered, so that its file is nobody's.
LEMMA AbortInv ==
    ASSUME MediaInv, NEW r \in Request, Abort(r)
    PROVE  MediaInv'
<1> USE DEF MediaInv
<1>1. /\ req[r] # Idle /\ req[r].op = "clip" /\ ~ At(r, "served")
      /\ r \notin Busy /\ r \in Reserving
  BY DEF Abort, At, Busy, Reserving
<1>2. /\ Carries /\ req' \in [Request -> Job \union {Idle}]
      /\ req'[r] = Idle /\ \A q \in Request \ {r} : req'[q] = req[q]
  BY OverCarries DEF Abort
<1>3. /\ UNCHANGED <<sessions, condemned, entries, shown, free>>
      /\ reserved' = reserved \ {req[r].file} /\ disk' = [disk EXCEPT ![req[r].file] = None]
  BY DEF Abort, Unreserved, Deleted
<1>4. req[r].file \in File /\ Unclaimed(r)
  BY <1>1, JobFields DEF Private
<1>5. /\ disk' \in [File -> Session \union {None}] /\ disk'[req[r].file] = None
      /\ \A f \in File \ {req[r].file} : disk'[f] = disk[f]
  BY <1>3, <1>4 DEF Shapes
<1>6. Shapes' /\ Separate'
  BY <1>2, <1>3, <1>5 DEF Shapes, Separate
<1>7. Busy' = Busy /\ Reserving' = Reserving \ {r}
  BY <1>1, <1>2 DEF Busy, Reserving, At
<1>8. FreeRight' /\ ReservedRight'
  BY <1>1, <1>2, <1>3, <1>7, SlotsKept, ReservationEnds
<1>9. OldEntries /\ OldShown /\ OnlyOld /\ NoNewClaims
  BY <1>2, <1>3, OldClaimed, ClaimsStay
<1>10. Owned'
  <2>1. DiskClaimed
    BY <1>5 DEF DiskClaimed
  <2>2. QED
    BY <1>6, <1>9, <2>1, OwnedStays
<1>11. Private'
  BY <1>2, <1>9, OldUnclaimed, PrivateStays
<1>12. RegisteredFilesExist'
  <2>1. \A i \in DOMAIN entries : disk'[entries[i].file] = disk[entries[i].file]
    BY <1>4, <1>5, EntryFields DEF Unclaimed
  <2>2. QED
    BY <1>3, <2>1 DEF RegisteredFilesExist, Stored
<1>13. ClipsAccounted'
  BY <1>3, <1>5, MediaAssumption DEF ClipsAccounted
<1>14. QED
  BY <1>6, <1>8, <1>10, <1>11, <1>12, <1>13

\* The scene shows the file that was made for it.
LEMMA KeepInv ==
    ASSUME MediaInv, NEW r \in Request, Keep(r)
    PROVE  MediaInv'
<1> USE DEF MediaInv
<1>1. /\ req[r] # Idle /\ req[r].op # "clip" /\ ~ At(r, "served") /\ r \notin Busy
      /\ UNCHANGED <<sessions, condemned, entries, reserved, disk, free>>
  BY DEF Keep, At, Busy
<1>2. Goes(r, "served") /\ "served" \in Stage
  BY <1>1, GoesToGoes, StagesOfRender DEF Keep
<1>3. Carries /\ req' \in [Request -> Job \union {Idle}]
  BY <1>1, <1>2, GoesCarries DEF Goes
<1>4. req[r].file \in File \ Video /\ req[r].session \in Session /\ Claims(req[r].file, req[r].session)
  BY <1>1, JobFields DEF Private, Claims
<1>5. /\ shown' \in [Session -> File \union {None}]
      /\ \A s \in Session :
            shown'[s] \in {None, shown[s]} \/ (s = req[r].session /\ shown'[s] = req[r].file)
  BY <1>4 DEF Keep, Shapes
<1>6. Shapes' /\ Separate'
  BY <1>1, <1>3, <1>5 DEF Shapes, Separate
<1>7. FreeRight'
  <2>1. Busy' = Busy
    BY <1>1, <1>2, GoesBusy
  <2>2. QED
    BY <1>1, <2>1, SlotsKept
<1>8. ReservedRight'
  BY <1>1, <1>2, GoesReserving
<1>9. Owned'
  <2>1. OldEntries /\ OldShown
    BY <1>1, <1>4, <1>5 DEF OldEntries, OldShown, Claims
  <2>2. DiskClaimed
    BY <1>1 DEF DiskClaimed
  <2>3. QED
    BY <1>3, <1>6, <2>1, <2>2, ClaimsStay, OwnedStays
<1>10. Private'
  <2>1. ASSUME NEW q \in Request, req'[q] # Idle, ~ At(q, "served")' PROVE Unclaimed(q)'
    <3>1. q # r /\ req'[q] = req[q] /\ req[q] # Idle /\ ~ At(q, "served")
      BY <1>2, <2>1 DEF Goes, At
    <3>2. Unclaimed(q) /\ req[q].file # req[r].file /\ req[q].file \in File
      BY <1>1, <3>1, JobFields DEF Private
    <3>3. QED
      BY <1>1, <1>5, <3>1, <3>2, MediaAssumption DEF Unclaimed
  <2>2. NoVideoShown
    BY <1>4, <1>5, MediaAssumption DEF NoVideoShown, Private
  <2>3. QED
    BY <1>3, <2>1, <2>2, PrivateStays DEF StayUnclaimed
<1>11. RegisteredFilesExist' /\ ClipsAccounted'
  BY <1>1 DEF RegisteredFilesExist, ClipsAccounted, Stored
<1>12. QED
  BY <1>6, <1>7, <1>8, <1>9, <1>10, <1>11

-----------------------------------------------------------------------------
(* Steps of the store *)

\* Registrations that go, with or without their files.
LEMMA SweepInv ==
    ASSUME MediaInv, Sweep
    PROVE  MediaInv'
<1> USE DEF MediaInv
<1>1. UNCHANGED <<sessions, condemned, reserved, shown, free, req>>
  BY DEF Sweep
<1>2. Drops(entries, reserved)
  <2> DEFINE dropped == OldestOver(entries, DOMAIN entries, MediaBytes)
  <2>1. dropped \in SUBSET (DOMAIN entries)
    BY DEF OldestOver
  <2>2. entries' = Kept(entries, dropped) /\ disk' = Unlinked(Orphans(entries, dropped, reserved))
    BY DEF Sweep
  <2>3. entries \in Seq(Entry)
    BY DEF Shapes
  <2> HIDE DEF dropped
  <2>4. QED
    BY <2>1, <2>2, <2>3, KeptDrops
<1>3. /\ Carries /\ req' \in [Request -> Job \union {Idle}]
      /\ Busy' = Busy /\ Reserving' = Reserving
  BY <1>1, StaysCarries DEF Shapes, Busy, Reserving, At
<1>4. FreeRight' /\ ReservedRight'
  BY <1>1, <1>3, SlotsKept DEF ReservedRight
<1>5. Shapes' /\ Separate'
  BY <1>1, <1>2, <1>3 DEF Shapes, Separate, Drops
<1>6. /\ \A n \in DOMAIN entries' : \E i \in DOMAIN entries : entries'[n] = entries[i]
      /\ \A f \in File : disk'[f] \in {None, disk[f]}
      /\ \A n \in DOMAIN entries' : disk'[entries'[n].file] = disk[entries'[n].file]
  BY <1>2 DEF Drops
<1>7. OldEntries /\ OldShown /\ OnlyOld
  BY <1>1, <1>6, EntryFields DEF OldEntries, OldShown, OnlyOld, Claims
<1>8. Owned' /\ Private'
  BY <1>3, <1>5, <1>6, <1>7, ClaimsStay, OwnedStays, OldUnclaimed, PrivateStays DEF DiskClaimed
<1>9. RegisteredFilesExist'
  BY <1>1, <1>6 DEF RegisteredFilesExist, Stored
<1>10. ClipsAccounted'
  <2> SUFFICES ASSUME NEW f \in Video, disk'[f] # None
               PROVE  \/ f \in reserved'
                      \/ disk'[f] \in condemned'
                      \/ \E n \in DOMAIN entries' : entries'[n].file = f
    BY DEF ClipsAccounted
  <2>1. f \in File /\ disk'[f] = disk[f]
    BY <1>6, MediaAssumption
  <2>2. f \in reserved \/ disk[f] \in condemned \/ \E i \in DOMAIN entries : entries[i].file = f
    BY <2>1 DEF ClipsAccounted
  <2>3. QED
    BY <1>1, <1>2, <2>1, <2>2 DEF Drops
<1>11. QED
  BY <1>4, <1>5, <1>8, <1>9, <1>10

\* A directory goes with the files in it, none of which a stored session has.
LEMMA RemoveDirectoryInv ==
    ASSUME MediaInv, NEW s \in Session, RemoveDirectory(s)
    PROVE  MediaInv'
<1> USE DEF MediaInv
<1>1. /\ UNCHANGED <<sessions, entries, reserved, shown, free, req>>
      /\ s \in condemned /\ condemned' = condemned \ {s}
  BY DEF RemoveDirectory
<1>2. /\ disk' \in [File -> Session \union {None}]
      /\ \A f \in File : disk'[f] = IF disk[f] = s THEN None ELSE disk[f]
  BY DEF RemoveDirectory, Unlinked, Shapes
<1>3. /\ Carries /\ req' \in [Request -> Job \union {Idle}]
      /\ Busy' = Busy /\ Reserving' = Reserving
  BY <1>1, StaysCarries DEF Shapes, Busy, Reserving, At
<1>4. FreeRight' /\ ReservedRight'
  BY <1>1, <1>3, SlotsKept DEF ReservedRight
<1>5. Shapes' /\ Separate'
  BY <1>1, <1>2, <1>3 DEF Shapes, Separate
<1>6. OldEntries /\ OldShown /\ OnlyOld
  BY <1>1, OldClaimed
<1>7. Owned' /\ Private'
  BY <1>2, <1>3, <1>5, <1>6, ClaimsStay, OwnedStays, OldUnclaimed, PrivateStays DEF DiskClaimed
<1>8. RegisteredFilesExist'
  <2> SUFFICES ASSUME NEW i \in DOMAIN entries, Stored(entries[i].session)
               PROVE  disk'[entries[i].file] # None
    BY <1>1 DEF RegisteredFilesExist, Stored
  <2>1. entries[i].file \in File /\ entries[i].session \in Session /\ Claims(entries[i].file, entries[i].session)
    BY EntryFields
  <2>2. disk[entries[i].file] = entries[i].session
    BY <2>1 DEF Owned, RegisteredFilesExist
  <2>3. entries[i].session # s
    BY <1>1 DEF Separate, Stored
  <2>4. QED
    BY <1>2, <2>1, <2>2, <2>3, MediaAssumption
<1>9. ClipsAccounted'
  BY <1>1, <1>2, MediaAssumption DEF ClipsAccounted
<1>10. QED
  BY <1>4, <1>5, <1>7, <1>8, <1>9

\* The store after an upload.
LEMMA UploadSessions ==
    ASSUME MediaInv, NEW s \in Session, Upload(s)
    PROVE  /\ sessions' \in Seq(Session) /\ condemned' \subseteq Session
           /\ Separate'
           /\ \A t \in Session : Stored(t)' => t = s \/ (Stored(t) /\ t \notin condemned')
<1> USE DEF MediaInv
<1>1. sessions \in Seq(Session) /\ Len(sessions) <= MaxSessions /\ ~ Stored(s) /\ s \notin condemned
  BY DEF Shapes, Separate, Upload, Unused
<1>2. \A i \in DOMAIN sessions : sessions[i] # s /\ sessions[i] \in Session
  BY <1>1 DEF Stored
<1>3. CASE Len(sessions) < MaxSessions
  <2>1. sessions' = Append(sessions, s) /\ condemned' = condemned
    BY <1>3 DEF Upload
  <2>2. /\ sessions' \in Seq(Session) /\ Len(sessions') = Len(sessions) + 1
        /\ DOMAIN sessions' = DOMAIN sessions \union {Len(sessions) + 1}
        /\ sessions'[Len(sessions) + 1] = s /\ \A i \in DOMAIN sessions : sessions'[i] = sessions[i]
    BY <1>1, <2>1
  <2>3. \A i, j \in DOMAIN sessions' : sessions'[i] = sessions'[j] => i = j
    BY <1>2, <2>2 DEF Separate
  <2>4. \A i \in DOMAIN sessions' : sessions'[i] \notin condemned'
    BY <1>1, <2>1, <2>2 DEF Separate
  <2>5. Len(sessions') <= MaxSessions
    BY <1>1, <1>3, <2>2, MediaAssumption
  <2>6. Separate'
    BY <2>3, <2>4, <2>5 DEF Separate
  <2>7. QED
    BY <2>1, <2>2, <2>6 DEF Stored, Shapes, Separate
<1>4. CASE ~ Len(sessions) < MaxSessions
  <2>1. /\ sessions' = Append(Tail(sessions), s)
        /\ condemned' = condemned \union {Head(sessions)}
    BY <1>4 DEF Upload
  <2>2. Len(sessions) \in Nat \ {0} /\ Len(sessions) = MaxSessions
    BY <1>1, <1>4, MediaAssumption
  <2>3. /\ sessions' \in Seq(Session) /\ Len(sessions') = Len(sessions)
        /\ sessions'[Len(sessions)] = s /\ DOMAIN sessions' = 1 .. Len(sessions)
        /\ \A i \in 1 .. Len(sessions) - 1 : sessions'[i] = sessions[i + 1]
        /\ Head(sessions) = sessions[1] /\ 1 \in DOMAIN sessions
    BY <1>1, <2>1, <2>2
  <2>4. \A i \in DOMAIN sessions' : i = Len(sessions) \/ (i \in 1 .. Len(sessions) - 1 /\ i + 1 \in DOMAIN sessions)
    BY <2>2, <2>3
  <2>5. ASSUME NEW i \in DOMAIN sessions', NEW j \in DOMAIN sessions', sessions'[i] = sessions'[j]
        PROVE  i = j
    <3>1. i \in Nat /\ j \in Nat
      BY <2>3
    <3>2. CASE i = Len(sessions) \/ j = Len(sessions)
      BY <1>2, <2>3, <2>4, <2>5, <3>2
    <3>3. CASE i # Len(sessions) /\ j # Len(sessions)
      <4>1. sessions[i + 1] = sessions[j + 1] /\ i + 1 \in DOMAIN sessions /\ j + 1 \in DOMAIN sessions
        BY <2>3, <2>4, <2>5, <3>3
      <4>2. i + 1 = j + 1
        BY <4>1 DEF Separate
      <4>3. QED
        BY <3>1, <4>2
    <3>4. QED
      BY <3>2, <3>3
  <2>6. ASSUME NEW i \in DOMAIN sessions'
        PROVE  /\ sessions'[i] \notin condemned'
               /\ sessions'[i] = s \/ Stored(sessions'[i])
    <3>1. CASE i = Len(sessions)
      BY <1>1, <1>2, <2>1, <2>3, <3>1
    <3>2. CASE i # Len(sessions)
      <4>1. sessions'[i] = sessions[i + 1] /\ i + 1 \in DOMAIN sessions /\ i + 1 # 1
        BY <2>2, <2>3, <2>4, <3>2
      <4>2. sessions[i + 1] # sessions[1]
        BY <2>3, <4>1 DEF Separate
      <4>3. QED
        BY <2>1, <2>3, <4>1, <4>2 DEF Separate, Stored
    <3>3. QED
      BY <3>1, <3>2
  <2>7. Len(sessions') <= MaxSessions
    BY <2>2, <2>3, MediaAssumption
  <2>8. Separate'
    BY <2>5, <2>6, <2>7 DEF Separate
  <2>9. condemned' \subseteq Session
    BY <1>2, <2>1, <2>3 DEF Shapes
  <2>10. QED
    BY <2>3, <2>6, <2>8, <2>9 DEF Stored
<1>5. QED
  BY <1>3, <1>4

\* The registrations of an evicted session go at once, its files later.
LEMMA UploadInv ==
    ASSUME MediaInv, NEW s \in Session, Upload(s)
    PROVE  MediaInv'
<1> USE DEF MediaInv
<1>1. /\ UNCHANGED <<reserved, disk, free, req>> /\ Unused(s)
      /\ shown' = [shown EXCEPT ![s] = None] /\ condemned \subseteq condemned'
  BY DEF Upload
<1>2. /\ shown' \in [Session -> File \union {None}]
      /\ \A t \in Session : shown'[t] \in {None, shown[t]}
  BY <1>1 DEF Shapes
<1>3. /\ entries' \in Seq(Entry)
      /\ \A n \in DOMAIN entries' : \E i \in DOMAIN entries :
            entries'[n] = entries[i] /\ entries[i].session \notin condemned' \ condemned
      /\ \A i \in DOMAIN entries :
            entries[i].session \in condemned' \/ \E n \in DOMAIN entries' : entries'[n] = entries[i]
  <2>1. entries \in Seq(Entry)
    BY DEF Shapes
  <2>2. CASE Len(sessions) < MaxSessions
    <3>1. entries' = entries /\ condemned' = condemned
      BY <2>2 DEF Upload
    <3>2. QED
      BY <2>1, <3>1
  <2>3. CASE ~ Len(sessions) < MaxSessions
    <3> DEFINE evicted == OfSession(entries, Head(sessions))
    <3>1. /\ entries' = Kept(entries, evicted) /\ condemned' = condemned \union {Head(sessions)}
          /\ \A i \in DOMAIN entries : i \in evicted <=> entries[i].session = Head(sessions)
      BY <2>3 DEF Upload, OfSession
    <3> HIDE DEF evicted
    <3>2. entries' \in Seq(Entry)
      BY <2>1, <3>1, KeptPlaces
    <3>3. /\ \A n \in DOMAIN entries' : \E i \in DOMAIN entries \ evicted : entries'[n] = entries[i]
          /\ \A i \in DOMAIN entries \ evicted : \E n \in DOMAIN entries' : entries'[n] = entries[i]
      BY <2>1, <3>1, KeptElements
    <3>4. QED
      BY <3>1, <3>2, <3>3
  <2>4. QED
    BY <2>2, <2>3
<1>4. /\ Carries /\ req' \in [Request -> Job \union {Idle}]
      /\ Busy' = Busy /\ Reserving' = Reserving
  BY <1>1, StaysCarries DEF Shapes, Busy, Reserving, At
<1>5. FreeRight' /\ ReservedRight'
  BY <1>1, <1>4, SlotsKept DEF ReservedRight
<1>6. Shapes' /\ Separate'
  BY <1>1, <1>2, <1>3, <1>4, UploadSessions DEF Shapes
<1>7. OldEntries /\ OldShown /\ OnlyOld
  BY <1>2, <1>3, EntryFields DEF OldEntries, OldShown, OnlyOld, Claims
<1>8. Owned' /\ Private'
  BY <1>1, <1>4, <1>6, <1>7, ClaimsStay, OwnedStays, OldUnclaimed, PrivateStays DEF DiskClaimed
<1>9. RegisteredFilesExist'
  <2> SUFFICES ASSUME NEW n \in DOMAIN entries', Stored(entries[n].session)'
               PROVE  disk'[entries'[n].file] # None
    BY DEF RegisteredFilesExist
  <2>1. PICK i \in DOMAIN entries : entries'[n] = entries[i]
    BY <1>3
  <2>2. entries[i].session \in Session /\ entries[i].session # s
    BY <1>1, EntryFields DEF Unused, OfSession
  <2>3. Stored(entries[i].session)
    <3>1. PICK t \in Session : t = entries[i].session
      BY <2>2
    <3>2. Stored(t)'
      BY <2>1, <3>1 DEF Stored
    <3>3. QED
      BY <2>2, <3>1, <3>2, UploadSessions
  <2>4. QED
    BY <1>1, <2>1, <2>3 DEF RegisteredFilesExist
<1>10. ClipsAccounted'
  <2> SUFFICES ASSUME NEW f \in Video, disk[f] # None
               PROVE  \/ f \in reserved
                      \/ disk[f] \in condemned'
                      \/ \E n \in DOMAIN entries' : entries'[n].file = f
    BY <1>1 DEF ClipsAccounted
  <2>1. CASE \E i \in DOMAIN entries : entries[i].file = f
    <3>1. PICK i \in DOMAIN entries : entries[i].file = f
      BY <2>1
    <3>2. disk[f] = entries[i].session
      BY <3>1, EntryFields DEF Owned
    <3>3. QED
      BY <1>3, <3>1, <3>2
  <2>2. CASE ~ \E i \in DOMAIN entries : entries[i].file = f
    BY <1>1, <2>2 DEF ClipsAccounted
  <2>3. QED
    BY <2>1, <2>2
<1>11. QED
  BY <1>5, <1>6, <1>8, <1>9, <1>10

LEMMA RestartInv ==
    ASSUME MediaInv, Restart
    PROVE  MediaInv'
<1> USE DEF MediaInv
<1>1. /\ sessions' = <<>> /\ condemned' = {} /\ entries' = <<>> /\ reserved' = {} /\ free' = Slots
      /\ disk' = [f \in File |-> None] /\ shown' = [s \in Session |-> None]
      /\ req' = [r \in Request |-> Idle]
  BY DEF Restart
<1>2. Shapes' /\ Separate'
  BY <1>1, MediaAssumption DEF Shapes, Separate
<1>3. Busy' = {} /\ Reserving' = {}
  BY <1>1 DEF Busy, Reserving, At
<1>4. FreeRight' /\ ReservedRight'
  BY <1>1, <1>3, FS_EmptySet, MediaAssumption DEF FreeRight, ReservedRight
<1>5. Owned' /\ Private'
  BY <1>1, MediaAssumption DEF Owned, Claims, Private
<1>6. RegisteredFilesExist' /\ ClipsAccounted'
  BY <1>1, MediaAssumption DEF RegisteredFilesExist, ClipsAccounted
<1>7. QED
  BY <1>2, <1>4, <1>5, <1>6

LEMMA MediaStarts == Init => MediaInv
<1> SUFFICES ASSUME Init PROVE MediaInv
  OBVIOUS
<1>1. /\ sessions = <<>> /\ condemned = {} /\ entries = <<>> /\ reserved = {} /\ free = Slots
      /\ disk = [f \in File |-> None] /\ shown = [s \in Session |-> None]
      /\ req = [r \in Request |-> Idle]
  BY DEF Init
<1>2. Shapes /\ Separate
  BY <1>1, MediaAssumption DEF Shapes, Separate
<1>3. Busy = {} /\ Reserving = {}
  BY <1>1 DEF Busy, Reserving, At
<1>4. FreeRight /\ ReservedRight
  BY <1>1, <1>3, FS_EmptySet, MediaAssumption DEF FreeRight, ReservedRight
<1>5. Owned /\ Private
  BY <1>1, MediaAssumption DEF Owned, Claims, Private
<1>6. RegisteredFilesExist /\ ClipsAccounted
  BY <1>1, MediaAssumption DEF RegisteredFilesExist, ClipsAccounted
<1>7. QED
  BY <1>2, <1>4, <1>5, <1>6 DEF MediaInv

\* The session of a request becomes the most recently used one.
LEMMA BeginSessions ==
    ASSUME Shapes, Separate, NEW s \in Session, Stored(s),
           sessions' = Append(Kept(sessions, {i \in DOMAIN sessions : sessions[i] = s}), s),
           condemned' = condemned
    PROVE  /\ sessions' \in Seq(Session) /\ Separate'
           /\ \A t \in Session : Stored(t)' => Stored(t)
<1>1. /\ sessions \in Seq(Session) /\ Len(sessions) <= MaxSessions /\ Len(sessions) \in Nat
      /\ DOMAIN sessions = 1 .. Len(sessions)
  BY DEF Shapes, Separate
<1>2. PICK own, rest, place, others :
        /\ own = {i \in DOMAIN sessions : sessions[i] = s} /\ others = DOMAIN sessions \ own
        /\ rest = Kept(sessions, own) /\ place = Place(sessions, own)
  OBVIOUS
<1>3. rest \in Seq(Session) /\ Len(rest) = Cardinality(others) /\ Holds(rest, place, sessions, others)
  <2>1. /\ Kept(sessions, own) \in Seq(Session)
        /\ Len(Kept(sessions, own)) = Cardinality(DOMAIN sessions \ own)
        /\ Holds(Kept(sessions, own), Place(sessions, own), sessions, DOMAIN sessions \ own)
    BY <1>1, KeptPlaces
  <2>2. QED
    BY <1>2, <2>1
<1>4. /\ \A i \in DOMAIN rest : place[i] \in others /\ rest[i] = sessions[place[i]]
      /\ \A i, j \in DOMAIN rest : place[i] = place[j] => i = j
  BY <1>3 DEF Holds, Bijection, Injection, IsInjective
<1>5. \A i \in others : i \in DOMAIN sessions /\ sessions[i] # s
  BY <1>2
<1>6. Len(rest) < Len(sessions)
  <2>1. PICK k \in DOMAIN sessions : sessions[k] = s
    BY DEF Stored
  <2>2. IsFiniteSet(DOMAIN sessions) /\ Cardinality(DOMAIN sessions) = Len(sessions)
    <3>1. PICK n \in Nat : n = Len(sessions)
      BY <1>1
    <3>2. IsFiniteSet(1 .. n) /\ Cardinality(1 .. n) = n
      BY FS_Interval
    <3>3. QED
      BY <1>1, <3>1, <3>2
  <2>3. others \in SUBSET (DOMAIN sessions) /\ others # DOMAIN sessions
    BY <1>2, <2>1
  <2>4. /\ Cardinality(others) <= Cardinality(DOMAIN sessions) /\ IsFiniteSet(others)
        /\ Cardinality(others) # Cardinality(DOMAIN sessions)
    BY <2>2, <2>3, FS_Subset
  <2>5. Cardinality(others) \in Nat
    BY <2>4, FS_CardinalityType
  <2>6. QED
    BY <1>1, <1>3, <2>2, <2>4, <2>5
<1>7. sessions' = Append(rest, s)
  BY <1>2
<1>8. /\ sessions' \in Seq(Session) /\ Len(rest) \in Nat /\ Len(sessions') = Len(rest) + 1
      /\ DOMAIN sessions' = DOMAIN rest \union {Len(rest) + 1} /\ sessions'[Len(rest) + 1] = s
      /\ \A i \in DOMAIN rest : sessions'[i] = rest[i]
  <2>1. rest \in Seq(Session)
    BY <1>3
  <2>2. /\ Append(rest, s) \in Seq(Session) /\ Len(rest) \in Nat /\ Len(Append(rest, s)) = Len(rest) + 1
        /\ DOMAIN Append(rest, s) = 1 .. Len(rest) + 1 /\ DOMAIN rest = 1 .. Len(rest)
        /\ Append(rest, s)[Len(rest) + 1] = s
        /\ \A i \in 1 .. Len(rest) : Append(rest, s)[i] = rest[i]
    BY <2>1
  <2>3. 1 .. Len(rest) + 1 = 1 .. Len(rest) \union {Len(rest) + 1}
    BY <2>2
  <2>4. QED
    BY <1>7, <2>2, <2>3
<1>9. \A i, j \in DOMAIN sessions' : sessions'[i] = sessions'[j] => i = j
  <2>1. \A i, j \in DOMAIN rest : rest[i] = rest[j] => i = j
    BY <1>4, <1>5 DEF Separate
  <2>2. \A i \in DOMAIN rest : rest[i] # s
    BY <1>4, <1>5
  <2>3. QED
    BY <1>8, <2>1, <2>2
<1>10. \A i \in DOMAIN sessions' : \E j \in DOMAIN sessions : sessions'[i] = sessions[j]
  BY <1>4, <1>5, <1>8 DEF Stored
<1>11. Separate'
  <2>1. Len(sessions') <= MaxSessions
    BY <1>1, <1>6, <1>8, MediaAssumption
  <2>2. \A i \in DOMAIN sessions' : sessions'[i] \notin condemned'
    BY <1>10 DEF Separate
  <2>3. QED
    BY <1>9, <2>1, <2>2 DEF Separate
<1>12. QED
  BY <1>8, <1>10, <1>11 DEF Stored

\* A new request has a file that nobody refers to.
LEMMA BeginInv ==
    ASSUME MediaInv, NEW r \in Request, NEW k \in Kind, NEW s \in Session, Begin(r, k, s)
    PROVE  MediaInv'
<1> USE DEF MediaInv
<1>1. PICK f \in File :
        /\ Fresh(f) /\ (f \in Video <=> k = "clip")
        /\ req' = [req EXCEPT ![r] = [op |-> k, at |-> "waiting", session |-> s, file |-> f]]
        /\ reserved' = IF k = "clip" THEN reserved \union {f} ELSE reserved
  BY DEF Begin
<1>2. /\ UNCHANGED <<condemned, entries, disk, shown, free>> /\ req[r] = Idle /\ Stored(s)
      /\ sessions' = Append(Kept(sessions, {i \in DOMAIN sessions : sessions[i] = s}), s)
  BY DEF Begin
<1> DEFINE new == [op |-> k, at |-> "waiting", session |-> s, file |-> f]
<1>3. new \in Job /\ new.op = k /\ new.at = "waiting" /\ new.session = s /\ new.file = f
  BY DEF Job, Stage
<1>4. new # Idle
  BY <1>3, JobNotIdle
<1> HIDE DEF new
<1>5. req' \in [Request -> Job \union {Idle}] /\ req'[r] = new /\ \A q \in Request \ {r} : req'[q] = req[q]
  BY <1>1, <1>3 DEF Shapes, new
<1>6. /\ sessions' \in Seq(Session) /\ Separate'
      /\ \A t \in Session : Stored(t)' => Stored(t)
  BY <1>2, BeginSessions
<1>7. Shapes'
  BY <1>2, <1>5, <1>6 DEF Shapes
<1>8. /\ disk[f] = None /\ f \notin reserved
      /\ \A i \in DOMAIN entries : entries[i].file # f
      /\ \A t \in Session : shown[t] # f
      /\ \A q \in Request : req[q] # Idle => req[q].file # f
  BY <1>1 DEF Fresh
<1>9. FreeRight'
  <2>1. Busy' = Busy
    BY <1>2, <1>3, <1>5 DEF Busy, At
  <2>2. QED
    BY <1>2, <2>1, SlotsKept
<1>10. ReservedRight'
  <2>1. Reserving' = IF k = "clip" THEN Reserving \union {r} ELSE Reserving
    BY <1>2, <1>3, <1>4, <1>5 DEF Reserving, At
  <2>2. r \notin Reserving /\ \A q \in Reserving : req'[q].file = req[q].file
    BY <1>2, <1>5 DEF Reserving
  <2>3. reserved = {req[q].file : q \in Reserving}
    BY DEF ReservedRight
  <2>4. CASE k = "clip"
    <3>1. {req'[q].file : q \in Reserving \union {r}} = {req[q].file : q \in Reserving} \union {f}
      BY <1>3, <1>5, <2>2
    <3>2. QED
      BY <1>1, <2>1, <2>3, <2>4, <3>1 DEF ReservedRight
  <2>5. CASE k # "clip"
    BY <1>1, <2>1, <2>2, <2>3, <2>5 DEF ReservedRight
  <2>6. QED
    BY <2>4, <2>5
<1>11. Owned'
  <2>1. ASSUME NEW g \in File, NEW t \in Session, Claims(g, t)'
        PROVE  IF g = f THEN t = s ELSE Claims(g, t)
    BY <1>2, <1>3, <1>5, <1>8, <2>1 DEF Claims
  <2> SUFFICES ASSUME NEW g \in File, NEW t \in Session, Claims(g, t)'
               PROVE  /\ \A u \in Session : Claims(g, u)' => t = u
                      /\ disk'[g] \in {None, t}
    BY DEF Owned
  <2>2. CASE g = f
    BY <1>2, <1>8, <2>1, <2>2
  <2>3. CASE g # f
    <3>1. Claims(g, t) /\ \A u \in Session : Claims(g, u)' => Claims(g, u)
      BY <2>1, <2>3
    <3>2. QED
      BY <1>2, <3>1 DEF Owned
  <2>4. QED
    BY <2>2, <2>3
<1>12. Private'
  <2>1. \A q \in Request \ {r} : Unclaimed(q)' <=> Unclaimed(q)
    BY <1>2, <1>5 DEF Unclaimed
  <2>2. Unclaimed(r)'
    BY <1>2, <1>3, <1>5, <1>8 DEF Unclaimed
  <2>3. ASSUME NEW q \in Request, req'[q] # Idle
        PROVE  /\ req'[q].file \in Video <=> req'[q].op = "clip"
               /\ \A p \in Request \ {q} : req'[p] # Idle => req'[p].file # req'[q].file
               /\ ~ At(q, "served")' => Unclaimed(q)'
    <3>1. CASE q = r
      BY <1>1, <1>3, <1>5, <1>8, <2>2, <3>1
    <3>2. CASE q # r
      <4>1. req'[q] = req[q] /\ req[q] # Idle /\ (At(q, "served")' <=> At(q, "served"))
        BY <1>5, <2>3, <3>2 DEF At
      <4>2. \A p \in Request \ {q} : req'[p] # Idle => req'[p].file # req'[q].file
        BY <1>3, <1>5, <1>8, <4>1 DEF Private
      <4>3. QED
        BY <2>1, <3>2, <4>1, <4>2 DEF Private
    <3>3. QED
      BY <3>1, <3>2
  <2>4. QED
    BY <1>2, <2>3 DEF Private
<1>13. RegisteredFilesExist'
  <2>1. \A i \in DOMAIN entries : Stored(entries[i].session)' => Stored(entries[i].session)
    <3>1. ASSUME NEW i \in DOMAIN entries, Stored(entries[i].session)' PROVE Stored(entries[i].session)
      <4>1. PICK t \in Session : t = entries[i].session
        BY EntryFields
      <4>2. Stored(t)'
        BY <1>2, <3>1, <4>1 DEF Stored
      <4>3. QED
        BY <1>6, <4>1, <4>2
    <3>2. QED
      BY <3>1
  <2>2. QED
    BY <1>2, <2>1 DEF RegisteredFilesExist
<1>14. ClipsAccounted'
  BY <1>1, <1>2 DEF ClipsAccounted
<1>15. QED
  BY <1>6, <1>7, <1>9, <1>10, <1>11, <1>12, <1>13, <1>14

LEMMA MediaStep == MediaInv /\ [Next]_vars => MediaInv'
<1> SUFFICES ASSUME MediaInv, [Next]_vars PROVE MediaInv'
  OBVIOUS
<1>1. ASSUME NEW r \in Request, Proceed(r) PROVE MediaInv'
  BY <1>1, DeadlineInv, StartInv, RenderInv, PublishInv, AbortInv, KeepInv, RespondInv DEF Proceed
<1>2. ASSUME NEW r \in Request, Acquire(r) PROVE MediaInv'
  BY <1>2, AcquireInv
<1>3. ASSUME NEW r \in Request, NEW k \in Kind, NEW s \in Session, Begin(r, k, s) PROVE MediaInv'
  BY <1>3, BeginInv
<1>4. ASSUME NEW s \in Session, Upload(s) \/ RemoveDirectory(s) \/ Serialize(s) PROVE MediaInv'
  BY <1>4, UploadInv, RemoveDirectoryInv, SerializeInv
<1>5. CASE Sweep
  BY <1>5, SweepInv
<1>6. CASE Restart
  BY <1>6, RestartInv
<1>7. CASE UNCHANGED vars
  BY <1>7 DEF vars, MediaInv, Shapes, Separate, ReservedRight, FreeRight, Busy, Reserving, At, Owned,
              Claims, Private, Unclaimed, RegisteredFilesExist, ClipsAccounted, Stored
<1>8. QED
  BY <1>1, <1>2, <1>3, <1>4, <1>5, <1>6, <1>7 DEF Next

-----------------------------------------------------------------------------
(* The budget of a session *)

LEMMA PositionsFinite ==
    ASSUME NEW S, NEW es \in Seq(S), NEW T \in SUBSET (DOMAIN es)
    PROVE  IsFiniteSet(T) /\ T \in SUBSET Nat /\ Cardinality(T) \in Nat
<1>1. PICK n \in Nat : DOMAIN es = 1 .. n
  OBVIOUS
<1>2. IsFiniteSet(1 .. n)
  BY FS_Interval
<1>3. IsFiniteSet(T)
  BY <1>1, <1>2, FS_Subset
<1>4. QED
  BY <1>1, <1>3, FS_CardinalityType

\* More registrations have more bytes.
LEMMA BytesGrow ==
    ASSUME NEW es \in Seq(Entry), NEW S \in SUBSET (DOMAIN es), NEW T \in SUBSET S
    PROVE  Bytes(es, S) \in Nat /\ Bytes(es, T) \in Nat /\ Bytes(es, T) <= Bytes(es, S)
<1> DEFINE LargeIn(U) == {i \in U : es[i].file \in Large}
<1>1. /\ T \in SUBSET (DOMAIN es) /\ LargeIn(S) \in SUBSET (DOMAIN es) /\ LargeIn(T) \in SUBSET (DOMAIN es)
      /\ LargeIn(T) \in SUBSET LargeIn(S)
  OBVIOUS
<1>2. Bytes(es, S) = Cardinality(S) + Cardinality(LargeIn(S)) /\ Bytes(es, T) = Cardinality(T) + Cardinality(LargeIn(T))
  BY DEF Bytes
<1> HIDE DEF LargeIn
<1>3. /\ IsFiniteSet(S) /\ IsFiniteSet(LargeIn(S)) /\ Cardinality(S) \in Nat /\ Cardinality(T) \in Nat
      /\ Cardinality(LargeIn(S)) \in Nat /\ Cardinality(LargeIn(T)) \in Nat
  BY <1>1, PositionsFinite
<1>4. Cardinality(T) <= Cardinality(S)
  BY <1>3, FS_Subset
<1>5. Cardinality(LargeIn(T)) <= Cardinality(LargeIn(S))
  BY <1>1, <1>3, FS_Subset
<1>6. QED
  BY <1>2, <1>3, <1>4, <1>5

LEMMA NoBytes == \A es : Bytes(es, {}) = 0
<1>1. ASSUME NEW es PROVE {i \in {} : es[i].file \in Large} = {}
  OBVIOUS
<1>2. QED
  BY <1>1, FS_EmptySet DEF Bytes

\* Some position is the first.
LEMMA FirstPosition ==
    ASSUME NEW S \in SUBSET Nat, IsFiniteSet(S), S # {}
    PROVE  \E m \in S : \A i \in S : m <= i
<1>1. Cardinality(S) \in Nat /\ Cardinality(S) # 0
  BY FS_CardinalityType, FS_EmptySet
<1>2. 1 \in 1 .. Cardinality(S)
  BY <1>1
<1>3. PICK m \in S : Rank(S, m) = 1
  BY <1>2, NthType
<1> DEFINE T == {j \in S : j <= m}
<1>4. T \in SUBSET S /\ m \in T /\ Cardinality(T) = 1
  BY <1>3 DEF Rank
<1>5. IsFiniteSet(T)
  BY <1>4, FS_Subset
<1> HIDE DEF T
<1>6. PICK x : T = {x}
  BY <1>4, <1>5, FS_Singleton
<1>7. ASSUME NEW i \in S PROVE m <= i
  <2>1. i \in Nat /\ m \in Nat
    OBVIOUS
  <2>2. i <= m => i = m
    BY <1>4, <1>6 DEF T
  <2>3. QED
    BY <2>1, <2>2
<1>8. QED
  BY <1>7

\* What is left after the oldest are gone fits.
LEMMA OldestOverFits ==
    ASSUME NEW es \in Seq(Entry), NEW S \in SUBSET (DOMAIN es), NEW cap \in Nat
    PROVE  Bytes(es, S \ OldestOver(es, S, cap)) <= cap
<1> DEFINE From(i) == {j \in S : j >= i}
           rest == S \ OldestOver(es, S, cap)
<1>1. rest \in SUBSET S /\ \A i \in rest : ~ Bytes(es, From(i)) > cap
  BY DEF OldestOver
<1> HIDE DEF rest
<1>2. rest \in SUBSET (DOMAIN es)
  BY <1>1
<1>3. rest \in SUBSET Nat /\ IsFiniteSet(rest)
  BY <1>2, PositionsFinite
<1>4. CASE rest = {}
  <2>1. Bytes(es, rest) = 0
    BY <1>4, NoBytes
  <2>2. Bytes(es, rest) <= cap
    BY <2>1
  <2>3. QED
    BY <2>2 DEF rest
<1>5. CASE rest # {}
  <2>1. PICK m \in rest : \A i \in rest : m <= i
    BY <1>3, <1>5, FirstPosition
  <2>2. rest \in SUBSET From(m)
    BY <1>1, <1>3, <2>1
  <2>3. From(m) \in SUBSET (DOMAIN es)
    OBVIOUS
  <2>4. ~ Bytes(es, From(m)) > cap
    BY <1>1, <2>1
  <2> HIDE DEF From
  <2>5. /\ Bytes(es, From(m)) \in Nat /\ Bytes(es, rest) \in Nat
        /\ Bytes(es, rest) <= Bytes(es, From(m))
    BY <2>2, <2>3, BytesGrow
  <2>6. Bytes(es, rest) <= cap
    BY <2>4, <2>5
  <2>7. QED
    BY <2>6 DEF rest
<1>6. QED
  BY <1>4, <1>5

\* The positions among S of elements of a set.
In(es, S, X) == {i \in S : es[i] \in X}

\* As many registrations of a set are left as there were in other positions.
LEMMA HoldsCount ==
    ASSUME NEW X, NEW new, NEW place, NEW es, NEW S, IsFiniteSet(S), Holds(new, place, es, S)
    PROVE  Cardinality(In(new, DOMAIN new, X)) = Cardinality(In(es, S, X))
<1> DEFINE A == {n \in DOMAIN new : new[n] \in X}
           B == {i \in S : es[i] \in X}
           f == [i \in B |-> CHOOSE n \in DOMAIN new : place[n] = i]
<1>1. /\ \A n \in DOMAIN new : place[n] \in S /\ new[n] = es[place[n]]
      /\ \A m, n \in DOMAIN new : place[m] = place[n] => m = n
      /\ \A i \in S : \E n \in DOMAIN new : place[n] = i
  BY DEF Holds, Bijection, Injection, Surjection, IsInjective
<1>2. \A i \in B : f[i] \in DOMAIN new /\ place[f[i]] = i
  BY <1>1
<1>3. \A i \in B : f[i] \in A
  BY <1>1, <1>2
<1>4. \A n \in A : place[n] \in B /\ f[place[n]] = n
  BY <1>1, <1>2
<1>5. f \in [B -> A]
  BY <1>3
<1> HIDE DEF f
<1>6. f \in Bijection(B, A)
  BY <1>2, <1>4, <1>5 DEF Bijection, Injection, Surjection, IsInjective
<1>7. B \in SUBSET S
  OBVIOUS
<1> HIDE DEF A, B
<1>8. IsFiniteSet(B) /\ ExistsBijection(B, A)
  BY <1>6, <1>7, FS_Subset DEF ExistsBijection
<1>9. Cardinality(A) = Cardinality(B)
  BY <1>8, FS_Bijection
<1>10. QED
  BY <1>9 DEF A, B, In

\* The bytes of a session that are left are those in other positions.
LEMMA KeptBytes ==
    ASSUME NEW es \in Seq(Entry), NEW dropped, NEW s
    PROVE  Bytes(Kept(es, dropped), OfSession(Kept(es, dropped), s)) = Bytes(es, OfSession(es, s) \ dropped)
<1>1. PICK new, place, rest :
        new = Kept(es, dropped) /\ place = Place(es, dropped) /\ rest = DOMAIN es \ dropped
  OBVIOUS
<1>2. new \in Seq(Entry) /\ Holds(new, place, es, rest)
  <2>1. Kept(es, dropped) \in Seq(Entry) /\ Holds(Kept(es, dropped), Place(es, dropped), es, DOMAIN es \ dropped)
    BY KeptPlaces
  <2>2. QED
    BY <1>1, <2>1
<1>3. IsFiniteSet(rest)
  BY <1>1, PositionsFinite
<1> DEFINE X == {e \in Entry : e.session = s}
           Y == {e \in X : e.file \in Large}
<1> HIDE DEF X, Y
<1>4. /\ Cardinality(In(new, DOMAIN new, X)) = Cardinality(In(es, rest, X))
      /\ Cardinality(In(new, DOMAIN new, Y)) = Cardinality(In(es, rest, Y))
  BY <1>2, <1>3, HoldsCount
<1>5. \A n \in DOMAIN new : new[n] \in Entry
  BY <1>2
<1>6. \A i \in DOMAIN es : es[i] \in Entry
  OBVIOUS
<1>7. /\ In(new, DOMAIN new, X) = OfSession(new, s)
      /\ In(new, DOMAIN new, Y) = {n \in OfSession(new, s) : new[n].file \in Large}
  BY <1>5 DEF OfSession, X, Y, In
<1>8. /\ In(es, rest, X) = OfSession(es, s) \ dropped
      /\ In(es, rest, Y) = {i \in OfSession(es, s) \ dropped : es[i].file \in Large}
  BY <1>1, <1>6 DEF OfSession, X, Y, In
<1>9. Bytes(new, OfSession(new, s)) = Bytes(es, OfSession(es, s) \ dropped)
  BY <1>4, <1>7, <1>8 DEF Bytes
<1>10. QED
  BY <1>1, <1>9

\* Whatever else is dropped, no session gets more bytes.
LEMMA KeptWithin ==
    ASSUME NEW es \in Seq(Entry), NEW dropped, NEW s, NEW cap \in Nat, Bytes(es, OfSession(es, s)) <= cap
    PROVE  Bytes(Kept(es, dropped), OfSession(Kept(es, dropped), s)) <= cap
<1>1. PICK S \in SUBSET (DOMAIN es) : S = OfSession(es, s)
  BY DEF OfSession
<1>2. PICK T \in SUBSET S : T = OfSession(es, s) \ dropped
  BY <1>1
<1>3. Bytes(es, S) \in Nat /\ Bytes(es, T) \in Nat /\ Bytes(es, T) <= Bytes(es, S)
  BY BytesGrow
<1>4. Bytes(es, T) <= cap
  BY <1>1, <1>3
<1>5. QED
  BY <1>2, <1>4, KeptBytes

\* A registration has what came before in its session make room.
LEMMA RegisterWithin ==
    ASSUME Shapes, WithinBudget, NEW e \in Entry, Register(e)
    PROVE  WithinBudget'
<1>1. PICK es, dropped : es = Append(entries, e) /\ dropped = Room(es, e)
  OBVIOUS
<1>2. entries' = Kept(es, dropped)
  BY <1>1 DEF Register
<1>3. es \in Seq(Entry) /\ entries \in Seq(Entry)
  BY <1>1 DEF Shapes
<1>4. SessionBytes \in Nat
  BY MediaAssumption
<1>5. ASSUME NEW s \in Session
      PROVE  Bytes(Kept(es, dropped), OfSession(Kept(es, dropped), s)) <= SessionBytes
  <2>1. CASE s = e.session
    <3>1. PICK over : over = CountOver(OfKind(es, e.kind), MaxEntries)
      OBVIOUS
    <3>2. PICK S \in SUBSET (DOMAIN es) : S = OfSession(es, s) \ over
      BY DEF OfSession
    <3>3. dropped = over \union OldestOver(es, S, SessionBytes)
      BY <1>1, <2>1, <3>1, <3>2 DEF Room
    <3>4. OfSession(es, s) \ dropped = S \ OldestOver(es, S, SessionBytes)
      BY <3>2, <3>3
    <3>5. Bytes(es, S \ OldestOver(es, S, SessionBytes)) <= SessionBytes
      BY <1>3, <1>4, OldestOverFits
    <3>6. QED
      BY <1>3, <3>4, <3>5, KeptBytes
  <2>2. CASE s # e.session
    <3>1. /\ DOMAIN es = DOMAIN entries \union {Len(entries) + 1} /\ es[Len(entries) + 1] = e
          /\ \A i \in DOMAIN entries : es[i] = entries[i]
      BY <1>1, <1>3
    <3>2. OfSession(es, s) = OfSession(entries, s)
      BY <2>2, <3>1 DEF OfSession
    <3>3. {i \in OfSession(es, s) : es[i].file \in Large}
            = {i \in OfSession(entries, s) : entries[i].file \in Large}
      BY <3>1, <3>2 DEF OfSession
    <3>4. Bytes(es, OfSession(es, s)) <= SessionBytes
      BY <3>2, <3>3 DEF Bytes, WithinBudget
    <3>5. QED
      BY <1>3, <1>4, <3>4, KeptWithin
  <2>3. QED
    BY <2>1, <2>2
<1>6. QED
  BY <1>2, <1>5 DEF WithinBudget

\* Nothing else registers anything.
LEMMA OthersWithin ==
    ASSUME Shapes, WithinBudget, NEW dropped, entries' = Kept(entries, dropped)
    PROVE  WithinBudget'
<1>1. entries \in Seq(Entry) /\ SessionBytes \in Nat
  BY MediaAssumption DEF Shapes
<1>2. ASSUME NEW s \in Session
      PROVE  Bytes(Kept(entries, dropped), OfSession(Kept(entries, dropped), s)) <= SessionBytes
  BY <1>1, KeptWithin DEF WithinBudget
<1>3. QED
  BY <1>2 DEF WithinBudget

LEMMA NothingWithin ==
    \A es : es = <<>> => \A s : Bytes(es, OfSession(es, s)) <= SessionBytes
<1>1. \A es, s : es = <<>> => OfSession(es, s) = {}
  BY DEF OfSession
<1>2. ASSUME NEW es, NEW s, es = <<>> PROVE Bytes(es, OfSession(es, s)) <= SessionBytes
  <2>1. OfSession(es, s) = {}
    BY <1>1, <1>2
  <2>2. Bytes(es, OfSession(es, s)) = 0
    BY <2>1, NoBytes
  <2>3. QED
    BY <2>2, MediaAssumption
<1>3. QED
  BY <1>2

LEMMA SerializeWithin ==
    ASSUME MediaInv, WithinBudget, NEW s \in Session, Serialize(s)
    PROVE  WithinBudget'
<1>1. CASE disk[shown[s]] = None
  BY <1>1 DEF Serialize, WithinBudget
<1>2. CASE disk[shown[s]] # None
  <2>1. shown[s] \in File
    BY DEF Serialize, MediaInv, Shapes
  <2>2. PICK e \in Entry : Register(e)
    BY <1>2, <2>1 DEF Serialize, Entry, Kind
  <2>3. QED
    BY <2>2, RegisterWithin DEF MediaInv
<1>3. QED
  BY <1>1, <1>2

LEMMA PublishWithin ==
    ASSUME MediaInv, WithinBudget, NEW r \in Request, Publish(r)
    PROVE  WithinBudget'
<1>1. req[r] # Idle
  BY DEF Publish, At
<1>2. PICK e \in Entry : Register(e)
  BY <1>1, JobFields DEF Publish, Entry, Kind, MediaInv
<1>3. QED
  BY <1>2, RegisterWithin DEF MediaInv

LEMMA BudgetStep == MediaInv /\ WithinBudget /\ [Next]_vars => WithinBudget'
<1> SUFFICES ASSUME MediaInv, WithinBudget, [Next]_vars PROVE WithinBudget'
  OBVIOUS
<1>1. CASE entries' = entries
  BY <1>1 DEF WithinBudget
<1>2. ASSUME NEW r \in Request, Proceed(r) PROVE WithinBudget'
  BY <1>1, <1>2, PublishWithin
     DEF Proceed, DeadlineWaiting, Start, RenderEnds, RenderFails, DeadlineStarting, Abort, Keep, Respond
<1>3. ASSUME NEW s \in Session, Upload(s) PROVE WithinBudget'
  <2>1. entries' = entries \/ \E dropped : entries' = Kept(entries, dropped)
    BY <1>3 DEF Upload
  <2>2. QED
    BY <1>1, <2>1, OthersWithin DEF MediaInv
<1>4. ASSUME NEW s \in Session, Serialize(s) PROVE WithinBudget'
  BY <1>4, SerializeWithin
<1>5. CASE Sweep
  <2>1. \E dropped : entries' = Kept(entries, dropped)
    BY <1>5 DEF Sweep
  <2>2. QED
    BY <2>1, OthersWithin DEF MediaInv
<1>6. CASE Restart
  BY <1>6, NothingWithin DEF Restart, WithinBudget
<1>7. ASSUME NEW s \in Session, RemoveDirectory(s) PROVE WithinBudget'
  BY <1>1, <1>7 DEF RemoveDirectory
<1>8. ASSUME NEW r \in Request, Acquire(r) PROVE WithinBudget'
  BY <1>1, <1>8 DEF Acquire
<1>9. ASSUME NEW r \in Request, NEW k \in Kind, NEW s \in Session, Begin(r, k, s) PROVE WithinBudget'
  BY <1>1, <1>9 DEF Begin
<1>10. CASE UNCHANGED vars
  BY <1>1, <1>10 DEF vars
<1>11. QED
  BY <1>2, <1>3, <1>4, <1>5, <1>6, <1>7, <1>8, <1>9, <1>10 DEF Next

\* A rendered clip is served only as it is registered.
LEMMA OnlyPublishServes ==
    ASSUME MediaInv, [Next]_vars, NEW r \in Request, At(r, "rendered"), At(r, "served")', req[r].op = "clip"
    PROVE  Publish(r)
<1> USE DEF MediaInv
<1>1. req[r].at = "rendered" /\ req[r] # Idle /\ req'[r] # req[r] /\ req'[r] # Idle /\ req'[r].at = "served"
  BY DEF At
<1>2. ASSUME NEW q \in Request, NEW stage \in {"starting", "rendering", "failed", "rendered"},
             req[q] # Idle, GoesTo(q, stage)
      PROVE  FALSE
  <2>1. Goes(q, stage)
    BY <1>2, GoesToGoes DEF Stage
  <2>2. QED
    BY <1>1, <2>1 DEF Goes
<1>3. ASSUME NEW q \in Request, Proceed(q) PROVE Publish(r)
  <2>1. CASE Publish(q)
    <3>1. req[q] # Idle /\ GoesTo(q, "served") /\ "served" \in Stage
      BY <2>1 DEF Publish, At, Stage
    <3>2. Goes(q, "served")
      BY <3>1, GoesToGoes
    <3>3. q = r
      BY <1>1, <3>2 DEF Goes
    <3>4. QED
      BY <2>1, <3>3
  <2>2. CASE Keep(q)
    <3>1. req[q] # Idle /\ GoesTo(q, "served") /\ "served" \in Stage /\ req[q].op = "thumbnail"
      BY <2>2 DEF Keep, At, Stage
    <3>2. Goes(q, "served")
      BY <3>1, GoesToGoes
    <3>3. q = r
      BY <1>1, <3>2 DEF Goes
    <3>4. QED
      BY <3>1, <3>3
  <2>3. CASE Abort(q) \/ Respond(q)
    <3>1. req' = [req EXCEPT ![q] = Idle]
      BY <2>3 DEF Abort, Respond
    <3>2. QED
      BY <1>1, <3>1, OverCarries
  <2>4. CASE DeadlineWaiting(q) \/ Start(q) \/ RenderEnds(q) \/ RenderFails(q) \/ DeadlineStarting(q)
    BY <1>2, <2>4 DEF DeadlineWaiting, Start, RenderEnds, RenderFails, DeadlineStarting, At
  <2>5. QED
    BY <1>3, <2>1, <2>2, <2>3, <2>4 DEF Proceed
<1>4. ASSUME NEW q \in Request, Acquire(q) PROVE FALSE
  BY <1>2, <1>4 DEF Acquire, At
<1>5. ASSUME NEW q \in Request, NEW k \in Kind, NEW s \in Session, Begin(q, k, s) PROVE FALSE
  <2>1. req[q] = Idle /\ \E new : req' = [req EXCEPT ![q] = new]
    BY <1>5 DEF Begin
  <2>2. QED
    BY <1>1, <2>1 DEF Shapes
<1>6. req' # req
  BY <1>1
<1>7. ~ Restart
  BY <1>1 DEF Restart
<1>8. QED
  BY <1>3, <1>4, <1>5, <1>6, <1>7 DEF Next, Sweep, Upload, RemoveDirectory, Serialize, vars

\* The last registration is not displaced by those before it.
LEMMA NewestRegistered ==
    ASSUME Shapes, NEW e \in Entry, Register(e), e.file \in Large => SessionBytes > 1
    PROVE  \E i \in DOMAIN entries' : entries'[i] = e
<1>1. PICK es, last : es = Append(entries, e) /\ last = Len(entries) + 1
  OBVIOUS
<1>2. entries' = Kept(es, Room(es, e))
  BY <1>1 DEF Register
<1>3. es \in Seq(Entry) /\ last \in Nat /\ DOMAIN es = 1 .. last /\ es[last] = e /\ last \in DOMAIN es
  BY <1>1 DEF Shapes
<1>4. Cardinality({last}) = 1 /\ IsFiniteSet({last}) /\ Cardinality({}) = 0
  BY FS_Singleton, FS_EmptySet
<1>5. \A S \in SUBSET (DOMAIN es) : last \in S => {j \in S : j >= last} = {last}
  BY <1>3
<1>6. last \notin CountOver(OfKind(es, e.kind), MaxEntries)
  <2>1. PICK S \in SUBSET (DOMAIN es) : S = OfKind(es, e.kind)
    BY DEF OfKind
  <2>2. last \in S => Cardinality({j \in S : j >= last}) = 1
    BY <1>4, <1>5
  <2>3. QED
    BY <2>1, <2>2, MediaAssumption DEF CountOver
<1>7. Bytes(es, {last}) <= SessionBytes
  <2>1. CASE e.file \in Large
    <3>1. {i \in {last} : es[i].file \in Large} = {last}
      BY <1>3, <2>1
    <3>2. Bytes(es, {last}) = 1 + 1
      BY <1>4, <3>1 DEF Bytes
    <3>3. SessionBytes \in Nat /\ SessionBytes > 1
      BY <2>1, MediaAssumption
    <3>4. QED
      BY <3>2, <3>3
  <2>2. CASE e.file \notin Large
    <3>1. {i \in {last} : es[i].file \in Large} = {}
      BY <1>3, <2>2
    <3>2. Bytes(es, {last}) = 1 + 0
      BY <1>4, <3>1 DEF Bytes
    <3>3. SessionBytes \in Nat \ {0}
      BY MediaAssumption
    <3>4. QED
      BY <3>2, <3>3
  <2>3. QED
    BY <2>1, <2>2
<1>8. Bytes(es, {last}) \in Nat
  <2>1. {last} \in SUBSET (DOMAIN es)
    BY <1>3
  <2>2. QED
    BY <1>3, <2>1, BytesGrow
<1>9. \A S \in SUBSET (DOMAIN es) : last \notin OldestOver(es, S, SessionBytes)
  BY <1>5, <1>7, <1>8, MediaAssumption DEF OldestOver
<1>10. last \notin Room(es, e)
  <2>1. OfSession(es, e.session) \ CountOver(OfKind(es, e.kind), MaxEntries) \in SUBSET (DOMAIN es)
    BY DEF OfSession
  <2>2. QED
    BY <1>6, <1>9, <2>1 DEF Room
<1>11. last \in DOMAIN es \ Room(es, e)
  BY <1>3, <1>10
<1>12. \E n \in DOMAIN Kept(es, Room(es, e)) : Kept(es, Room(es, e))[n] = es[last]
  BY <1>3, <1>11, KeptElements
<1>13. QED
  BY <1>2, <1>3, <1>12

LEMMA NewestStep == MediaInv /\ [Next]_vars => NewestStays
<1> SUFFICES ASSUME MediaInv, [Next]_vars, NEW r \in Request,
                    At(r, "rendered"), At(r, "served")', req[r].op = "clip",
                    req[r].file \in Large => SessionBytes > 1
             PROVE  \E i \in DOMAIN entries' : entries'[i].file = req[r].file
  BY DEF NewestStays
<1>1. Publish(r)
  BY OnlyPublishServes
<1>2. req[r] # Idle
  BY DEF At
<1>3. PICK e \in Entry : Register(e) /\ e.file = req[r].file
  BY <1>1, <1>2, JobFields DEF Publish, Entry, Kind, MediaInv
<1>4. QED
  BY <1>3, NewestRegistered DEF MediaInv

LEMMA BudgetStarts == Init => WithinBudget
BY NothingWithin DEF Init, WithinBudget

-----------------------------------------------------------------------------
(* Theorems *)

\* The reservations of the store are those of the clips that are being made, and
\* the free slots of the renderer those that no render holds, through deadlines,
\* failed renders, aborts and restarts; no stored session is condemned.
THEOREM MediaTypes == Spec => []TypeOK
<1>1. MediaInv => TypeOK
  BY TypeParts DEF MediaInv, Separate
<1>2. QED
  BY <1>1, MediaStarts, MediaStep, PTL DEF Spec

\* An id of a stored session is never a dead link: whatever evictions, budgets,
\* sweeps and aborts remove, the file of what stays registered stays
\* (_delete_orphaned_files_locked, abort, create of session.py).
THEOREM RegisteredFilesStay == Spec => []RegisteredFilesExist
<1>1. MediaInv => RegisteredFilesExist
  BY DEF MediaInv
<1>2. QED
  BY <1>1, MediaStarts, MediaStep, PTL DEF Spec

\* No clip is left on the disk that nobody would ever remove, however late its
\* render ends and whoever is evicted meanwhile.
THEOREM ClipsAreAccounted == Spec => []ClipsAccounted
<1>1. MediaInv => ClipsAccounted
  BY DEF MediaInv
<1>2. QED
  BY <1>1, MediaStarts, MediaStep, PTL DEF Spec

\* Every step leaves each session within its bytes, clips and thumbnails
\* together, and a clip that is handed out is registered then, if it fits at all
\* (register_clip and _enforce_session_bytes_locked).
THEOREM BudgetsAreKept == Spec => BudgetKept
<1>1. MediaInv /\ WithinBudget /\ [Next]_vars => [WithinBudget' /\ NewestStays]_vars
  BY BudgetStep, NewestStep
<1>2. QED
  BY <1>1, MediaStarts, MediaStep, BudgetStarts, BudgetStep, PTL DEF Spec, BudgetKept

=============================================================================
