----------------------------- MODULE MediaStore -----------------------------
(***************************************************************************)
(* The files of the server: the session store with its registries of clips *)
(* and thumbnails (session.py), the renders that write them through a      *)
(* bounded number of slots (full_render.py), and the sweep of the media    *)
(* volume (main.py).                                                       *)
(*                                                                         *)
(* Every method of the store is one action, as it runs under the lock; the *)
(* directory of an evicted session is removed after the lock is released.  *)
(* A session keeps the thumbnail of one scene.  Every file has size 1 but  *)
(* those in Large, which have size 2.  The registrations of both kinds are *)
(* one sequence in the order of created_at, so a position stands for an id *)
(* and the heads of the two OrderedDicts for the oldest of their kind.     *)
(***************************************************************************)
EXTENDS Integers, Sequences, FiniteSets

CONSTANTS
    Session,        \* identities of sessions
    File,           \* paths below the session directories
    Video,          \* those that end in .mp4
    Large,          \* the files of size 2
    Request,        \* requests in flight at once
    None,           \* no session, no file
    MaxSessions,    \* max_sessions
    MaxEntries,     \* max_clips and max_thumbnails
    SessionBytes,   \* max_bytes_per_session
    MediaBytes,     \* media_max_bytes
    Slots           \* RENDER_MAX_PARALLEL

ASSUME MediaAssumption ==
    /\ Large \subseteq File /\ Video \subseteq File /\ None \notin File /\ None \notin Session
    /\ IsFiniteSet(Request)
    /\ MaxSessions \in Nat \ {0} /\ MaxEntries \in Nat \ {0}
    /\ SessionBytes \in Nat \ {0} /\ MediaBytes \in Nat \ {0} /\ Slots \in Nat \ {0}

VARIABLES
    sessions,       \* SessionStore._sessions, least recently used first
    condemned,      \* evicted sessions whose directory is still to be removed
    entries,        \* _clips and _thumbnails
    reserved,       \* _reserved
    disk,           \* the session in whose directory a file is, None for no file
    shown,          \* the thumbnail_path of a session's scene
    free,           \* free render slots
    req             \* what each request holds

vars == <<sessions, condemned, entries, reserved, disk, shown, free, req>>

Kind == {"clip", "thumbnail"}
Entry == [kind : Kind, file : File, session : Session]
Idle == [op |-> "idle"]
Stage == {"waiting", "starting", "rendering", "rendered", "failed", "served"}
Job == [op : Kind, at : Stage, session : Session, file : File]

Init ==
    /\ sessions = <<>> /\ condemned = {} /\ entries = <<>>
    /\ reserved = {}
    /\ disk = [f \in File |-> None]
    /\ shown = [s \in Session |-> None]
    /\ free = Slots
    /\ req = [r \in Request |-> Idle]

-----------------------------------------------------------------------------
(* Registries *)

\* The bytes of the registrations at positions S.
Bytes(es, S) == Cardinality(S) + Cardinality({i \in S : es[i].file \in Large})

\* The n-th of the positions S.
Nth(S, n) == CHOOSE i \in S : Cardinality({j \in S : j <= i}) = n

\* What is left of a sequence without the positions dropped.
Kept(es, dropped) ==
    LET kept == DOMAIN es \ dropped
    IN  [n \in 1 .. Cardinality(kept) |-> es[Nth(kept, n)]]

\* What has to go, oldest first, until the rest of S fits into cap bytes.
OldestOver(es, S, cap) == {i \in S : Bytes(es, {j \in S : j >= i}) > cap}

CountOver(S, cap) == {i \in S : Cardinality({j \in S : j >= i}) > cap}

OfSession(es, s) == {i \in DOMAIN es : es[i].session = s}
OfKind(es, k) == {i \in DOMAIN es : es[i].kind = k}

\* Mutant: only the bytes of the new kind count.
RoomForKind(es, e) ==
    LET over == CountOver(OfKind(es, e.kind), MaxEntries)
    IN  over \union OldestOver(es, (OfSession(es, e.session) \intersect OfKind(es, e.kind)) \ over, SessionBytes)

\* The registrations a new one displaces: those beyond the number of its kind,
\* then those beyond the bytes of its session.
Room(es, e) ==
    LET over == CountOver(OfKind(es, e.kind), MaxEntries)
    IN  over \union OldestOver(es, OfSession(es, e.session) \ over, SessionBytes)

\* Mutant: a reservation outlives the file it is for.
StillReserved(f) == reserved

\* What stays reserved once file f is registered or given up.
Unreserved(f) == reserved \ {f}

\* Mutant: the files of all dropped registrations go.
OrphansOfDropped(es, dropped, claimed) == {es[i].file : i \in dropped}

\* The files that dropped registrations leave to nobody.
Orphans(es, dropped, claimed) ==
    {es[i].file : i \in dropped} \ ({es[i].file : i \in DOMAIN es \ dropped} \union claimed)

Unlinked(fs) == [f \in File |-> IF f \in fs THEN None ELSE disk[f]]

\* register_clip and register_thumbnail of a file that exists.
Register(e) ==
    LET es == Append(entries, e)
        dropped == Room(es, e)
        claimed == Unreserved(e.file)
    IN  /\ entries' = Kept(es, dropped)
        /\ reserved' = claimed
        /\ disk' = Unlinked(Orphans(es, dropped, claimed))

\* The periodic sweep: enforce_global_cap.
Sweep ==
    LET dropped == OldestOver(entries, DOMAIN entries, MediaBytes)
    IN  /\ dropped # {}
        /\ entries' = Kept(entries, dropped)
        /\ disk' = Unlinked(Orphans(entries, dropped, reserved))
    /\ UNCHANGED <<sessions, condemned, reserved, shown, free, req>>

-----------------------------------------------------------------------------
(* Sessions *)

Stored(s) == \E i \in DOMAIN sessions : sessions[i] = s

InFlight(s) == \E r \in Request : req[r] # Idle /\ req[r].session = s

\* A name that has never been used, or of which nothing is left.
Unused(s) ==
    /\ ~ Stored(s) /\ ~ InFlight(s) /\ s \notin condemned
    /\ OfSession(entries, s) = {}
    /\ \A f \in File : disk[f] # s

\* An upload creates a session.  One too many evicts the least recently used
\* one with its registrations; its directory goes after the lock is released.
Upload(s) ==
    /\ Unused(s)
    /\ shown' = [shown EXCEPT ![s] = None]
    /\ IF Len(sessions) < MaxSessions
       THEN /\ sessions' = Append(sessions, s)
            /\ UNCHANGED <<condemned, entries>>
       ELSE /\ sessions' = Append(Tail(sessions), s)
            /\ condemned' = condemned \union {Head(sessions)}
            /\ entries' = Kept(entries, OfSession(entries, Head(sessions)))
    /\ UNCHANGED <<reserved, disk, free, req>>

RemoveDirectory(s) ==
    /\ s \in condemned
    /\ condemned' = condemned \ {s}
    /\ disk' = Unlinked({f \in File : disk[f] = s})
    /\ UNCHANGED <<sessions, entries, reserved, shown, free, req>>

\* _scene_out registers the thumbnail of the scene whenever it shows it, for the
\* session that the request got from the store.
Serialize(s) ==
    /\ Stored(s) \/ InFlight(s)
    /\ shown[s] # None
    /\ IF disk[shown[s]] = None
       THEN /\ shown' = [shown EXCEPT ![s] = None]
            /\ UNCHANGED <<entries, reserved, disk>>
       ELSE /\ Register([kind |-> "thumbnail", file |-> shown[s], session |-> s])
            /\ UNCHANGED shown
    /\ UNCHANGED <<sessions, condemned, free, req>>

\* The server restarts: its memory is gone, and sweep_orphans keeps no file.
Restart ==
    /\ sessions' = <<>> /\ condemned' = {} /\ entries' = <<>> /\ reserved' = {}
    /\ disk' = [f \in File |-> None]
    /\ shown' = [s \in Session |-> None]
    /\ free' = Slots
    /\ req' = [r \in Request |-> Idle]

-----------------------------------------------------------------------------
(* Renders *)

\* A name that nothing refers to any more: the code draws a new one.
Fresh(f) ==
    /\ disk[f] = None /\ f \notin reserved
    /\ \A i \in DOMAIN entries : entries[i].file # f
    /\ \A s \in Session : shown[s] # f
    /\ \A r \in Request : req[r] # Idle => req[r].file # f

\* A request gets its session from the store and names its file; a clip's name
\* is reserved.
Begin(r, k, s) ==
    /\ req[r] = Idle /\ Stored(s)
    /\ \E f \in File :
          /\ Fresh(f) /\ (f \in Video <=> k = "clip")
          /\ req' = [req EXCEPT ![r] = [op |-> k, at |-> "waiting", session |-> s, file |-> f]]
          /\ reserved' = IF k = "clip" THEN reserved \union {f} ELSE reserved
    /\ sessions' = Append(Kept(sessions, {i \in DOMAIN sessions : sessions[i] = s}), s)
    /\ UNCHANGED <<condemned, entries, disk, shown, free>>

GoesTo(r, stage) == req' = [req EXCEPT ![r].at = stage]

At(r, stage) == req[r] # Idle /\ req[r].at = stage

Acquire(r) ==
    /\ At(r, "waiting")
    /\ free > 0 /\ free' = free - 1
    /\ GoesTo(r, "starting")
    /\ UNCHANGED <<sessions, condemned, entries, reserved, disk, shown>>

\* The job of a clip has a deadline, which may pass before or while it waits...
DeadlineWaiting(r) ==
    /\ At(r, "waiting") /\ req[r].op = "clip"
    /\ GoesTo(r, "failed")
    /\ UNCHANGED <<sessions, condemned, entries, reserved, disk, shown, free>>

\* Mutant: a slot taken too late is not given back.
KeepsSlot == free

\* The finally that gives the slot back.
GivesSlotBack == free + 1

\* ... or once it has the slot.
DeadlineStarting(r) ==
    /\ At(r, "starting") /\ req[r].op = "clip"
    /\ GoesTo(r, "failed") /\ free' = GivesSlotBack
    /\ UNCHANGED <<sessions, condemned, entries, reserved, disk, shown>>

Start(r) ==
    /\ At(r, "starting")
    /\ GoesTo(r, "rendering")
    /\ UNCHANGED <<sessions, condemned, entries, reserved, disk, shown, free>>

\* The worker makes the directory if it is gone and moves the file there last.
RenderEnds(r) ==
    /\ At(r, "rendering")
    /\ disk' = [disk EXCEPT ![req[r].file] = req[r].session]
    /\ GoesTo(r, "rendered") /\ free' = GivesSlotBack
    /\ UNCHANGED <<sessions, condemned, entries, reserved, shown>>

\* It fails, or is killed after its timeout, with or without the file.
RenderFails(r) ==
    /\ At(r, "rendering")
    /\ disk' \in {disk, [disk EXCEPT ![req[r].file] = req[r].session]}
    /\ GoesTo(r, "failed") /\ free' = GivesSlotBack
    /\ UNCHANGED <<sessions, condemned, entries, reserved, shown>>

\* A clip that still shows the approved scene is registered, if it is there.
Publish(r) ==
    /\ At(r, "rendered") /\ req[r].op = "clip"
    /\ disk[req[r].file] # None
    /\ Register([kind |-> "clip", file |-> req[r].file, session |-> req[r].session])
    /\ GoesTo(r, "served")
    /\ UNCHANGED <<sessions, condemned, shown, free>>

\* Mutant: only the reservation is given back.
OnlyReleases(r) == disk

Deleted(r) == [disk EXCEPT ![req[r].file] = None]

\* A failed, superseded or vanished clip is aborted.
Abort(r) ==
    /\ At(r, "rendered") \/ At(r, "failed")
    /\ req[r].op = "clip"
    /\ reserved' = Unreserved(req[r].file)
    /\ disk' = Deleted(r)
    /\ req' = [req EXCEPT ![r] = Idle]
    /\ UNCHANGED <<sessions, condemned, entries, shown, free>>

\* A rendered thumbnail becomes that of the scene, a failed one is no preview.
Keep(r) ==
    /\ At(r, "rendered") \/ At(r, "failed")
    /\ req[r].op = "thumbnail"
    /\ shown' = [shown EXCEPT ![req[r].session] = IF At(r, "rendered") THEN req[r].file ELSE None]
    /\ GoesTo(r, "served")
    /\ UNCHANGED <<sessions, condemned, entries, reserved, disk, free>>

Respond(r) ==
    /\ At(r, "served")
    /\ req' = [req EXCEPT ![r] = Idle]
    /\ UNCHANGED <<sessions, condemned, entries, reserved, disk, shown, free>>

-----------------------------------------------------------------------------
Proceed(r) ==
    \/ DeadlineWaiting(r)
    \/ Start(r)
    \/ RenderEnds(r)
    \/ RenderFails(r)
    \/ DeadlineStarting(r)
    \/ Publish(r)
    \/ Abort(r)
    \/ Keep(r)
    \/ Respond(r)

Next ==
    \/ Sweep
    \/ Restart
    \/ \E s \in Session : Upload(s) \/ RemoveDirectory(s) \/ Serialize(s)
    \/ \E r \in Request :
          \/ Proceed(r) \/ Acquire(r)
          \/ \E k \in Kind, s \in Session : Begin(r, k, s)

\* A worker ends or is killed after its timeout; a request is worked off; a
\* thread that waits for a slot is woken again and again as slots come free.
Fairness ==
    \A r \in Request : WF_vars(Proceed(r)) /\ SF_vars(Acquire(r))

Spec == Init /\ [][Next]_vars
FairSpec == Spec /\ Fairness

-----------------------------------------------------------------------------
(* Properties *)

\* The store is well formed, and slots are held by the renders that have one.
TypeOK ==
    /\ sessions \in Seq(Session) /\ Len(sessions) <= MaxSessions
    /\ condemned \subseteq {s \in Session : ~ Stored(s)}
    /\ entries \in Seq(Entry)
    /\ disk \in [File -> Session \union {None}]
    /\ shown \in [Session -> File \union {None}]
    /\ req \in [Request -> Job \union {Idle}]
    /\ reserved = {req[r].file : r \in {q \in Request : req[q] # Idle /\ req[q].op = "clip" /\ ~ At(q, "served")}}
    /\ free = Slots - Cardinality({r \in Request : At(r, "starting") \/ At(r, "rendering")})

\* Whatever is evicted, displaced or aborted meanwhile, the file of every
\* registration of a stored session is there: no id of theirs is a dead link.
RegisteredFilesExist ==
    \A i \in DOMAIN entries : Stored(entries[i].session) => disk[entries[i].file] # None

\* No clip is left behind on the disk, however late its render ends: it is
\* reserved or registered, or its directory is about to go.
ClipsAccounted ==
    \A f \in Video : disk[f] # None =>
        \/ f \in reserved
        \/ disk[f] \in condemned
        \/ \E i \in DOMAIN entries : entries[i].file = f

\* The bytes of a session stay within its budget, clips and thumbnails together;
\* but whoever is displaced for it, a new clip that fits into the budget of its
\* session stays: the id that is handed out is live.
WithinBudget ==
    \A s \in Session : Bytes(entries, OfSession(entries, s)) <= SessionBytes

NewestStays ==
    \A r \in Request : At(r, "rendered") /\ At(r, "served")' /\ req[r].op = "clip"
           /\ (req[r].file \in Large => SessionBytes > 1)
       => \E i \in DOMAIN entries' : entries'[i].file = req[r].file

BudgetKept == [][WithinBudget' /\ NewestStays]_vars

\* Every render comes to an end, clips by their deadline and thumbnails because
\* every slot comes free.
RendersEnd == \A r \in Request : req[r] # Idle ~> req[r] = Idle
=============================================================================
