------------------------ MODULE BuildRequestsProofs ------------------------
(***************************************************************************)
(* Theorems about BuildRequests and the quota it goes through, for any     *)
(* clients, sessions, candidates and shapes, any caps and any number of    *)
(* requests: no cap is exceeded, and clearing a build forgets nothing that *)
(* still is under way or has a result to judge.                            *)
(***************************************************************************)
EXTENDS BuildRequests, TLAPS

-----------------------------------------------------------------------------
(* The quota *)

\* No counter let more calls through than it counted, nor more than its cap.
QuotaInv ==
    /\ ipCount \in [Client -> Nat] /\ dayCount \in Nat
    /\ admitted \in [ip : [Client -> Nat], day : Nat]
    /\ \A c \in Client : admitted.ip[c] <= ipCount[c] /\ admitted.ip[c] <= IpCap
    /\ admitted.day <= dayCount /\ admitted.day <= DayCap

\* A call that passes was counted, and is within the cap.
LEMMA PassCounts ==
    ASSUME NEW count \in Nat, NEW n \in Incremented(count), NEW cap \in Nat
    PROVE  /\ n \in Nat /\ count <= n
           /\ Passes(n, cap) => n = count + 1 /\ n <= cap
BY DEF Incremented, Passes

LEMMA TakeIpQuota ==
    ASSUME QuotaInv, NEW c \in Client, NEW passes \in BOOLEAN, TakeIp(c, passes)
    PROVE  QuotaInv'
<1> USE QuotaAssumption DEF QuotaInv
<1>1. PICK n \in Incremented(ipCount[c]) : ipCount' = [ipCount EXCEPT ![c] = n] /\ passes = Passes(n, IpCap)
  BY DEF TakeIp
<1>2. /\ n \in Nat /\ ipCount[c] <= n
      /\ passes => n = ipCount[c] + 1 /\ n <= IpCap
  BY <1>1, PassCounts
<1>3. dayCount' = dayCount
  BY DEF TakeIp
<1>4. ipCount' \in [Client -> Nat] /\ ipCount'[c] = n /\ \A b \in Client \ {c} : ipCount'[b] = ipCount[b]
  BY <1>1, <1>2
<1>5. CASE passes
  <2>1. admitted' = [admitted EXCEPT !.ip = [admitted.ip EXCEPT ![c] = admitted.ip[c] + 1]]
    BY <1>5 DEF TakeIp
  <2> DEFINE ip == [admitted.ip EXCEPT ![c] = admitted.ip[c] + 1]
  <2>2. /\ ip \in [Client -> Nat] /\ ip[c] = admitted.ip[c] + 1
        /\ \A b \in Client \ {c} : ip[b] = admitted.ip[b]
    OBVIOUS
  <2> HIDE DEF ip
  <2>3. admitted' \in [ip : [Client -> Nat], day : Nat] /\ admitted'.ip = ip /\ admitted'.day = admitted.day
    BY <2>1, <2>2 DEF ip
  <2>4. ASSUME NEW b \in Client PROVE ip[b] <= ipCount'[b] /\ ip[b] <= IpCap
    BY <1>2, <1>4, <1>5, <2>2
  <2>5. QED
    BY <1>3, <1>4, <2>3, <2>4
<1>6. CASE ~ passes
  <2>1. admitted' = admitted
    BY <1>6 DEF TakeIp
  <2>2. ASSUME NEW b \in Client PROVE admitted.ip[b] <= ipCount'[b]
    BY <1>2, <1>4
  <2>3. QED
    BY <1>3, <1>4, <2>1, <2>2
<1>7. QED
  BY <1>5, <1>6

LEMMA TakeDayQuota ==
    ASSUME QuotaInv, NEW passes \in BOOLEAN, TakeDay(passes)
    PROVE  QuotaInv'
<1> USE QuotaAssumption DEF QuotaInv
<1>1. PICK n \in Incremented(dayCount) : dayCount' = n /\ passes = Passes(n, DayCap)
  BY DEF TakeDay
<1>2. /\ n \in Nat /\ dayCount <= n
      /\ passes => n = dayCount + 1 /\ n <= DayCap
  BY <1>1, PassCounts
<1>3. ipCount' = ipCount
  BY DEF TakeDay
<1>4. CASE passes
  <2>1. admitted' = [admitted EXCEPT !.day = admitted.day + 1]
    BY <1>4 DEF TakeDay
  <2>2. /\ admitted' \in [ip : [Client -> Nat], day : Nat]
        /\ admitted'.ip = admitted.ip /\ admitted'.day = admitted.day + 1
    BY <2>1
  <2>3. QED
    BY <1>1, <1>2, <1>3, <1>4, <2>2
<1>5. CASE ~ passes
  <2>1. admitted' = admitted
    BY <1>5 DEF TakeDay
  <2>2. QED
    BY <1>1, <1>2, <1>3, <2>1
<1>6. QED
  BY <1>4, <1>5

\* What happens without a request.
LEMMA QuotaStep ==
    ASSUME QuotaInv, Quota
    PROVE  QuotaInv'
<1>1. CASE WorkerCalls
  BY <1>1, TakeDayQuota DEF WorkerCalls
<1>2. CASE RedisFails \/ RedisReturns
  BY <1>2 DEF QuotaInv, RedisFails, RedisReturns
<1>3. CASE HourPasses
  <2>1. NoCalls \in [Client -> Nat] /\ \A c \in Client : NoCalls[c] = 0
    BY DEF NoCalls
  <2>2. PICK newDay \in BOOLEAN :
          /\ ipCount' = NoCalls
          /\ dayCount' = IF newDay THEN 0 ELSE dayCount
          /\ admitted' = [ip |-> NoCalls, day |-> IF newDay THEN 0 ELSE admitted.day]
    BY <1>3 DEF HourPasses
  <2>3. /\ admitted'.ip = NoCalls /\ admitted'.day = (IF newDay THEN 0 ELSE admitted.day)
        /\ admitted' \in [ip : [Client -> Nat], day : Nat]
    BY <2>1, <2>2 DEF QuotaInv
  <2>4. QED
    BY <2>1, <2>2, <2>3, QuotaAssumption DEF QuotaInv
<1>4. QED
  BY <1>1, <1>2, <1>3 DEF Quota

LEMMA QuotaStarts == QuotaInit => QuotaInv
BY QuotaAssumption DEF QuotaInit, QuotaInv, NoCalls

-----------------------------------------------------------------------------
(* Requests, jobs and clearing *)

RowStages ==
    {"observing", "ip", "day", "calling", "storing", "checking", "enqueueing",
     "queued", "building", "available", "untagged", "done"}
Row ==
    [cand : Candidate, at : RowStages, tries : Nat, found : Shape \union {None},
     key : Shape \union {None}, error : {"none", "building", "available", "untagged"}]

JobStatus == {"none", "queued", "running", "persisted", "succeeded", "failed", "needs_manual"}
JobRow ==
    [status : JobStatus, drafts : Nat, approved : BOOLEAN, late : Nat, rejecting : Nat, by : Nat]

ClearRow ==
    {[at |-> "none"]} \union
    [at : {"copied", "resolved"}, cand : Candidate, original : Nat, quiet : BOOLEAN,
     key : Shape \union {None}, error : {"none", "building", "available", "untagged"}]

Typed ==
    /\ row \in Seq(Row)
    /\ held \in [Candidate -> Nat] /\ tag \in [Candidate -> Shape \union {None}]
    /\ job \in [Shape -> [Teacher -> JobRow]]
    /\ clear \in ClearRow

\* A row says nothing before its task has ended, and has a shape from its tag on.
Sound(r) ==
    /\ r.at # "done" => r.key = None /\ r.error = "none"
    /\ r.at \in {"storing", "checking", "enqueueing", "queued"} => r.found \in Shape

RowsSound == \A n \in DOMAIN row : Sound(row[n])

Recorded == \A c \in Candidate : held[c] # 0 => held[c] \in DOMAIN row /\ row[held[c]].cand = c

\* A job belongs to the owner of the request that filed it, which says so.
FiledBy(k, t, n) ==
    /\ n \in DOMAIN row /\ Owner(n) = t
    /\ \/ row[n].at = "queued" /\ row[n].found = k
       \/ row[n].at = "done" /\ row[n].error = "none" /\ row[n].key = k

Filed == \A k \in Shape, t \in Teacher : job[k][t].by # 0 => FiledBy(k, t, job[k][t].by)

\* What a clear has copied is what its request ended with, and what it has
\* resolved stays so if nobody else was at work on the job.
Clearing ==
    /\ clear.at # "none" => clear.original \in DOMAIN row /\ row[clear.original].cand = clear.cand
    /\ clear.at = "copied" =>
          \/ clear.key = None /\ clear.error = "none"
          \/ /\ row[clear.original].at = "done"
             /\ clear.key = row[clear.original].key /\ clear.error = row[clear.original].error
    /\ clear.at = "resolved" =>
          /\ row[clear.original].at = "done"
          /\ clear.quiet => \A k \in Shape, t \in Teacher :
                job[k][t].by = clear.original => Settled(job[k][t])

BuildInv == Typed /\ RowsSound /\ Recorded /\ Filed /\ Clearing

\* One row becomes another.
LEMMA OneRow ==
    ASSUME Typed, NEW n \in DOMAIN row, NEW new \in Row, row' = [row EXCEPT ![n] = new]
    PROVE  /\ row' \in Seq(Row) /\ DOMAIN row' = DOMAIN row
           /\ row'[n] = new /\ \A m \in DOMAIN row \ {n} : row'[m] = row[m]
BY DEF Typed

\* What a step of a task makes of its row.
Advances(n, new) ==
    /\ row' = [row EXCEPT ![n] = new]
    /\ new.cand = row[n].cand /\ row[n].at # "done" /\ Sound(new)
    /\ row[n].at = "queued" => new.at = "done" /\ new.error = "none" /\ new.key = row[n].found

\* ... and of the job.
Files(n, new) ==
    /\ row[n].at = "enqueueing" /\ new.at = "queued" /\ new.found = row[n].found
    /\ job' = [job EXCEPT ![row[n].found] =
                   [job[row[n].found] EXCEPT ![Owner(n)] = NewJob(n)]]

TaskMoves(n) ==
    /\ \E new \in Row : Advances(n, new) /\ (job' = job \/ Files(n, new))
    /\ held' = held /\ clear' = clear /\ tag' \in [Candidate -> Shape \union {None}]

\* A row with another stage, count and shape.
With(r, at, tries, found) == [r EXCEPT !.at = at, !.tries = tries, !.found = found]

LEMMA RowWith ==
    ASSUME NEW r \in Row, NEW at \in RowStages, NEW tries \in Nat, NEW found \in Shape \union {None}
    PROVE  /\ With(r, at, tries, found) \in Row
           /\ With(r, at, tries, found).cand = r.cand /\ With(r, at, tries, found).at = at
           /\ With(r, at, tries, found).found = found
           /\ With(r, at, tries, found).key = r.key /\ With(r, at, tries, found).error = r.error
BY DEF Row, With

\* A row that only goes to another stage, counts an attempt or gets a shape.
LEMMA WithStage ==
    ASSUME NEW r \in Row, NEW at
    PROVE  [r EXCEPT !.at = at] = With(r, at, r.tries, r.found)
BY DEF Row, With

LEMMA WithTries ==
    ASSUME NEW r \in Row, NEW at, NEW tries
    PROVE  [r EXCEPT !.at = at, !.tries = tries] = With(r, at, tries, r.found)
BY DEF Row, With

LEMMA WithFound ==
    ASSUME NEW r \in Row, NEW at, NEW found
    PROVE  [r EXCEPT !.at = at, !.found = found] = With(r, at, r.tries, found)
BY DEF Row, With

LEMMA RowFields ==
    ASSUME Typed, NEW n \in DOMAIN row
    PROVE  /\ row[n] \in Row /\ row[n].cand \in Candidate /\ row[n].at \in RowStages
           /\ row[n].tries \in Nat /\ row[n].found \in Shape \union {None}
<1>1. row[n] \in Row
  BY DEF Typed
<1>2. QED
  BY <1>1 DEF Row

Becomes(n, new) == row' = [row EXCEPT ![n] = new]

\* A task that has not ended goes on to a stage with a shape, if it needs one there.
MayGo(n, at, found) ==
    /\ row[n].at \notin {"done", "queued"}
    /\ at \in {"storing", "checking", "enqueueing", "queued"} => found \in Shape

LEMMA GoesOn ==
    ASSUME Typed, RowsSound, NEW n \in DOMAIN row, NEW at \in RowStages \ {"done"}, NEW tries \in Nat,
           NEW found \in Shape \union {None},
           Becomes(n, With(row[n], at, tries, found)), MayGo(n, at, found)
    PROVE  \E new \in Row : Advances(n, new) /\ new.at = at /\ new.found = found
<1> USE DEF MayGo, Becomes
<1> DEFINE new == With(row[n], at, tries, found)
<1>1. /\ new \in Row /\ new.cand = row[n].cand /\ new.at = at
      /\ new.found = found /\ new.key = row[n].key /\ new.error = row[n].error
  BY RowFields, RowWith
<1>2. row[n].key = None /\ row[n].error = "none"
  BY DEF RowsSound, Sound
<1>3. row' = [row EXCEPT ![n] = new]
  OBVIOUS
<1> HIDE DEF new
<1>4. Sound(new)
  BY <1>1, <1>2 DEF Sound
<1>5. QED
  BY <1>1, <1>3, <1>4 DEF Advances

LEMMA ObserveMoves ==
    ASSUME BuildInv, NEW n \in DOMAIN row, Observe(n)
    PROVE  TaskMoves(n)
<1> USE DEF BuildInv
<1>1. /\ row[n] \in Row /\ row[n].cand \in Candidate
      /\ row[n].tries \in Nat /\ row[n].found \in Shape \union {None}
  BY RowFields
<1>2. row[n].at = "observing"
  BY DEF Observe, At
<1>3. tag[row[n].cand] \in Shape \union {None}
  BY <1>1 DEF Typed
<1>4. PICK at \in {"ip", "checking"}, found \in Shape \union {None} :
        /\ row' = [row EXCEPT ![n] = With(row[n], at, row[n].tries, found)]
        /\ at = "checking" => found \in Shape
  <2>1. CASE tag[row[n].cand] = None
    <3>1. row' = [row EXCEPT ![n] = [row[n] EXCEPT !.at = "ip"]]
      BY <2>1 DEF Observe, GoesTo
    <3>2. row' = [row EXCEPT ![n] = With(row[n], "ip", row[n].tries, row[n].found)]
      BY <1>1, <3>1, WithStage
    <3>3. QED
      BY <1>1, <3>2
  <2>2. CASE tag[row[n].cand] # None
    <3>1. row' = [row EXCEPT ![n] = [row[n] EXCEPT !.at = "checking", !.found = tag[row[n].cand]]]
      BY <2>2 DEF Observe
    <3>2. PICK k \in Shape : k = tag[row[n].cand]
      BY <1>3, <2>2
    <3>3. [row[n] EXCEPT !.at = "checking", !.found = k] = With(row[n], "checking", row[n].tries, k)
      BY <1>1, WithFound
    <3>4. row' = [row EXCEPT ![n] = With(row[n], "checking", row[n].tries, k)]
      BY <3>1, <3>2, <3>3
    <3>5. QED
      BY <3>4
  <2>3. QED
    BY <2>1, <2>2
<1>5. \E new \in Row : Advances(n, new)
  <2>1. at \in RowStages \ {"done"} /\ at \notin {"storing", "enqueueing", "queued"}
    BY DEF RowStages
  <2>2. QED
    BY <1>1, <1>2, <1>4, <2>1, GoesOn DEF MayGo, Becomes
<1>6. QED
  BY <1>5 DEF TaskMoves, Observe, Typed

\* A task that is told at which stage it goes on and keeps its shape.
LEMMA KeepsShape ==
    ASSUME BuildInv, NEW n \in DOMAIN row, NEW at \in RowStages \ {"done"}, NEW tries \in Nat,
           \/ row' = [row EXCEPT ![n] = [row[n] EXCEPT !.at = at]]
           \/ row' = [row EXCEPT ![n] = [row[n] EXCEPT !.at = at, !.tries = tries]],
           MayGo(n, at, row[n].found)
    PROVE  \E new \in Row : Advances(n, new) /\ new.at = at /\ new.found = row[n].found
<1> USE DEF BuildInv
<1>1. row[n] \in Row /\ row[n].tries \in Nat /\ row[n].found \in Shape \union {None}
  BY RowFields
<1>2. /\ [row[n] EXCEPT !.at = at] = With(row[n], at, row[n].tries, row[n].found)
      /\ [row[n] EXCEPT !.at = at, !.tries = tries] = With(row[n], at, tries, row[n].found)
  BY <1>1, WithStage, WithTries
<1>3. CASE row' = [row EXCEPT ![n] = [row[n] EXCEPT !.at = at]]
  <2>1. Becomes(n, With(row[n], at, row[n].tries, row[n].found))
    BY <1>2, <1>3 DEF Becomes
  <2>2. QED
    BY <1>1, <2>1, GoesOn
<1>4. CASE row' = [row EXCEPT ![n] = [row[n] EXCEPT !.at = at, !.tries = tries]]
  <2>1. Becomes(n, With(row[n], at, tries, row[n].found))
    BY <1>2, <1>4 DEF Becomes
  <2>2. QED
    BY <1>1, <2>1, GoesOn
<1>5. QED
  BY <1>3, <1>4

LEMMA FailedAttempt ==
    ASSUME BuildInv, NEW n \in DOMAIN row, row[n].at \in {"ip", "day", "calling"}, AttemptFails(n)
    PROVE  \E new \in Row : Advances(n, new)
<1>1. row[n].tries \in Nat
  BY RowFields DEF BuildInv
<1>2. PICK at \in {"ip", "untagged"}, tries \in Nat :
        row' = [row EXCEPT ![n] = [row[n] EXCEPT !.at = at, !.tries = tries]]
  <2>1. CASE AttemptsLeft(n)
    <3>1. row' = [row EXCEPT ![n] = [row[n] EXCEPT !.at = "ip", !.tries = row[n].tries + 1]]
      BY <2>1 DEF AttemptFails
    <3>2. row[n].tries + 1 \in Nat
      BY <1>1
    <3>3. QED
      BY <3>1, <3>2
  <2>2. CASE ~ AttemptsLeft(n)
    <3>1. row' = [row EXCEPT ![n] = [row[n] EXCEPT !.at = "untagged", !.tries = 0]]
      BY <2>2 DEF AttemptFails
    <3>2. QED
      BY <3>1
  <2>3. QED
    BY <2>1, <2>2
<1>3. at \in RowStages \ {"done"} /\ at \notin {"storing", "checking", "enqueueing", "queued"}
  BY DEF RowStages
<1>4. QED
  BY <1>2, <1>3, KeepsShape DEF MayGo

LEMMA CallMoves ==
    ASSUME BuildInv, NEW n \in DOMAIN row, PassIp(n) \/ PassDay(n) \/ Converse(n)
    PROVE  TaskMoves(n)
<1> USE DEF BuildInv
<1>1. row[n].at \in {"ip", "day", "calling"}
  BY DEF PassIp, PassDay, Converse, At
<1>2. row[n] \in Row /\ row[n].tries \in Nat /\ row[n].found \in Shape \union {None}
  BY RowFields
<1>3. UNCHANGED <<held, job, clear, tag>>
  BY DEF PassIp, PassDay, Converse
<1>4. \/ AttemptFails(n)
      \/ \E at \in {"day", "calling"} : row' = [row EXCEPT ![n] = [row[n] EXCEPT !.at = at]]
      \/ \E k \in Shape : row' = [row EXCEPT ![n] = [row[n] EXCEPT !.at = "storing", !.tries = 0, !.found = k]]
  BY DEF PassIp, PassDay, Converse, GoesTo
<1>5. \E new \in Row : Advances(n, new)
  <2>1. CASE AttemptFails(n)
    BY <1>1, <2>1, FailedAttempt
  <2>2. ASSUME NEW at \in {"day", "calling"}, row' = [row EXCEPT ![n] = [row[n] EXCEPT !.at = at]]
        PROVE  \E new \in Row : Advances(n, new)
    <3>1. at \in RowStages \ {"done"} /\ at \notin {"storing", "checking", "enqueueing", "queued"}
      BY DEF RowStages
    <3>2. QED
      BY <1>1, <1>2, <2>2, <3>1, KeepsShape DEF MayGo
  <2>3. ASSUME NEW k \in Shape,
               row' = [row EXCEPT ![n] = [row[n] EXCEPT !.at = "storing", !.tries = 0, !.found = k]]
        PROVE  \E new \in Row : Advances(n, new)
    <3>1. row' = [row EXCEPT ![n] = With(row[n], "storing", 0, k)]
      BY <2>3 DEF With
    <3>2. "storing" \in RowStages \ {"done"} /\ 0 \in Nat
      BY DEF RowStages
    <3>3. QED
      BY <1>1, <3>1, <3>2, GoesOn DEF MayGo, Becomes
  <2>4. QED
    BY <1>4, <2>1, <2>2, <2>3
<1>6. QED
  BY <1>3, <1>5 DEF TaskMoves, Typed

LEMMA StoreTagMoves ==
    ASSUME BuildInv, NEW n \in DOMAIN row, StoreTag(n)
    PROVE  TaskMoves(n)
<1> USE DEF BuildInv
<1>1. row[n].at = "storing" /\ row[n].cand \in Candidate
  BY RowFields DEF StoreTag, At
<1>2. row[n].found \in Shape
  BY <1>1 DEF RowsSound, Sound
<1>3. row' = [row EXCEPT ![n] = [row[n] EXCEPT !.at = "checking"]]
  BY DEF StoreTag, GoesTo
<1>4. \E new \in Row : Advances(n, new)
  <2>1. "checking" \in RowStages \ {"done"} /\ 0 \in Nat
    BY DEF RowStages
  <2>2. QED
    BY <1>1, <1>2, <1>3, <2>1, KeepsShape DEF MayGo
<1>5. tag' \in [Candidate -> Shape \union {None}]
  BY <1>1, <1>2 DEF StoreTag, Typed
<1>6. QED
  BY <1>4, <1>5 DEF TaskMoves, StoreTag

LEMMA CheckAvailableMoves ==
    ASSUME BuildInv, NEW n \in DOMAIN row, CheckAvailable(n)
    PROVE  TaskMoves(n)
<1> USE DEF BuildInv
<1>1. row[n].at = "checking"
  BY DEF CheckAvailable, At
<1>2. row[n].found \in Shape
  BY <1>1 DEF RowsSound, Sound
<1>3. PICK at \in {"available", "enqueueing"} : row' = [row EXCEPT ![n] = [row[n] EXCEPT !.at = at]]
  BY DEF CheckAvailable, GoesTo, Returns
<1>4. \E new \in Row : Advances(n, new)
  <2>1. at \in RowStages \ {"done"} /\ 0 \in Nat
    BY DEF RowStages
  <2>2. QED
    BY <1>1, <1>2, <1>3, <2>1, KeepsShape DEF MayGo
<1>5. QED
  BY <1>4 DEF TaskMoves, CheckAvailable, Typed

LEMMA EnqueueMoves ==
    ASSUME BuildInv, NEW n \in DOMAIN row, EnqueueOnDemand(n)
    PROVE  TaskMoves(n)
<1> USE DEF BuildInv
<1>1. row[n].at = "enqueueing"
  BY DEF EnqueueOnDemand, At
<1>2. row[n].found \in Shape
  BY <1>1 DEF RowsSound, Sound
<1>3. PICK files \in BOOLEAN :
        /\ job' = IF files THEN [job EXCEPT ![row[n].found][Owner(n)] = NewJob(n)] ELSE job
        /\ row' = [row EXCEPT ![n] = [row[n] EXCEPT !.at = OutcomeOf(files)]]
  BY DEF EnqueueOnDemand, Returns
<1>4. OutcomeOf(files) \in RowStages \ {"done"} /\ (files => OutcomeOf(files) = "queued") /\ 0 \in Nat
  BY DEF RowStages, OutcomeOf
<1>5. PICK new \in Row : Advances(n, new) /\ new.at = OutcomeOf(files) /\ new.found = row[n].found
  BY <1>1, <1>2, <1>3, <1>4, KeepsShape DEF MayGo
<1>6. job' = job \/ Files(n, new)
  BY <1>1, <1>3, <1>4, <1>5 DEF Files
<1>7. QED
  BY <1>5, <1>6 DEF TaskMoves, EnqueueOnDemand, Typed

LEMMA DatabaseFailsMoves ==
    ASSUME BuildInv, NEW n \in DOMAIN row, DatabaseFails(n)
    PROVE  TaskMoves(n)
<1> USE DEF BuildInv
<1>1. row[n].at \in {"observing", "storing", "checking", "enqueueing"}
  BY DEF DatabaseFails, At
<1>2. row[n] \in Row /\ row[n].tries \in Nat /\ row[n].found \in Shape \union {None}
  BY RowFields
<1>3. PICK found \in Shape \union {None} :
        row' = [row EXCEPT ![n] = [row[n] EXCEPT !.at = "untagged", !.found = found]]
  BY <1>2 DEF DatabaseFails
<1>4. [row[n] EXCEPT !.at = "untagged", !.found = found] = With(row[n], "untagged", row[n].tries, found)
  BY <1>2, WithFound
<1>5. Becomes(n, With(row[n], "untagged", row[n].tries, found))
  BY <1>3, <1>4 DEF Becomes
<1>6. "untagged" \in RowStages \ {"done"} /\ MayGo(n, "untagged", found)
  BY <1>1 DEF RowStages, MayGo
<1>7. \E new \in Row : Advances(n, new)
  BY <1>2, <1>5, <1>6, GoesOn
<1>8. QED
  BY <1>7 DEF TaskMoves, DatabaseFails, Typed

LEMMA ReportMoves ==
    ASSUME BuildInv, NEW n \in DOMAIN row, Report(n)
    PROVE  TaskMoves(n)
<1> USE DEF BuildInv
<1>1. row[n] \in Row /\ row[n].found \in Shape \union {None}
  BY RowFields
<1>2. PICK outcome \in {"queued", "building", "available", "untagged"} :
        /\ At(n, outcome)
        /\ row' = [row EXCEPT ![n] = [row[n] EXCEPT !.at = "done", !.tries = 0,
                        !.found = None, !.key = row[n].found,
                        !.error = IF outcome = "queued" THEN "none" ELSE outcome]]
  BY DEF Report
<1>3. PICK error \in {"none", "building", "available", "untagged"} :
        error = IF outcome = "queued" THEN "none" ELSE outcome
  OBVIOUS
<1> DEFINE new == [row[n] EXCEPT !.at = "done", !.tries = 0, !.found = None, !.key = row[n].found,
                                 !.error = error]
<1>4. /\ new \in Row /\ new.cand = row[n].cand /\ new.at = "done" /\ new.key = row[n].found
      /\ new.error = error
  BY <1>1 DEF Row, RowStages
<1>5. row' = [row EXCEPT ![n] = new]
  BY <1>2, <1>3
<1> HIDE DEF new
<1>6. Advances(n, new)
  BY <1>2, <1>3, <1>4, <1>5 DEF Advances, Sound, At
<1>7. QED
  BY <1>4, <1>6 DEF TaskMoves, Report, Typed

LEMMA EveryTaskMoves ==
    ASSUME BuildInv, NEW n \in DOMAIN row, Task(n)
    PROVE  TaskMoves(n)
BY ObserveMoves, CallMoves, StoreTagMoves, CheckAvailableMoves, EnqueueMoves, DatabaseFailsMoves,
   ReportMoves DEF Task

LEMMA NewJobRow ==
    ASSUME NEW n \in Nat
    PROVE  NewJob(n) \in JobRow /\ NewJob(n).by = n
BY DEF NewJob, NoJob, JobRow, JobStatus

LEMMA OwnerType ==
    ASSUME Typed, NEW n \in DOMAIN row
    PROVE  Owner(n) \in Teacher /\ Address(n) \in Client
BY RowFields, BuildsAssumption DEF Owner, Address

LEMMA TaskInv ==
    ASSUME BuildInv, NEW n \in DOMAIN row, TaskMoves(n)
    PROVE  BuildInv'
<1> USE DEF BuildInv
<1>1. PICK new \in Row : Advances(n, new) /\ (job' = job \/ Files(n, new))
  BY DEF TaskMoves
<1>2. /\ row' \in Seq(Row) /\ DOMAIN row' = DOMAIN row
      /\ row'[n] = new /\ \A m \in DOMAIN row \ {n} : row'[m] = row[m]
  BY <1>1, OneRow DEF Advances
<1>3. /\ new.cand = row[n].cand /\ row[n].at # "done" /\ Sound(new)
      /\ row[n].at = "queued" => new.at = "done" /\ new.error = "none" /\ new.key = row[n].found
  BY <1>1 DEF Advances
<1>4. held' = held /\ clear' = clear
  BY DEF TaskMoves
<1>5. \A m \in DOMAIN row : row'[m].cand = row[m].cand /\ (row[m].at = "done" => row'[m] = row[m])
  BY <1>2, <1>3
<1>6. Owner(n) \in Teacher /\ n \in Nat \ {0}
  BY OwnerType DEF Typed
<1>7. ASSUME Files(n, new)
      PROVE  /\ row[n].found \in Shape /\ row[n].at = "enqueueing"
             /\ job' \in [Shape -> [Teacher -> JobRow]]
             /\ \A k \in Shape, t \in Teacher :
                   job'[k][t] = IF k = row[n].found /\ t = Owner(n) THEN NewJob(n)
                                ELSE job[k][t]
  <2>1. row[n].at = "enqueueing" /\ row[n].found \in Shape
    BY <1>7 DEF Files, RowsSound, Sound
  <2>2. NewJob(n) \in JobRow
    BY <1>6, NewJobRow
  <2> DEFINE new1 == [job[row[n].found] EXCEPT ![Owner(n)] = NewJob(n)]
  <2>3. /\ new1 \in [Teacher -> JobRow]
        /\ \A t \in Teacher : new1[t] = IF t = Owner(n) THEN NewJob(n)
                                        ELSE job[row[n].found][t]
    BY <1>6, <2>1, <2>2 DEF Typed
  <2>4. job' = [job EXCEPT ![row[n].found] = new1]
    BY <1>7 DEF Files
  <2> HIDE DEF new1
  <2>5. /\ job' \in [Shape -> [Teacher -> JobRow]] /\ job'[row[n].found] = new1
        /\ \A k \in Shape \ {row[n].found} : job'[k] = job[k]
    BY <2>1, <2>3, <2>4 DEF Typed
  <2>6. QED
    BY <2>1, <2>3, <2>5
<1>8. Typed'
  <2>1. job' \in [Shape -> [Teacher -> JobRow]]
    BY <1>1, <1>7 DEF Typed
  <2>2. QED
    BY <1>2, <1>4, <2>1 DEF Typed, TaskMoves
<1>9. RowsSound'
  BY <1>2, <1>3 DEF RowsSound
<1>10. Recorded'
  BY <1>2, <1>4, <1>5 DEF Recorded
<1>11. Filed'
  <2> SUFFICES ASSUME NEW k \in Shape, NEW t \in Teacher, job'[k][t].by # 0
               PROVE  FiledBy(k, t, job[k][t].by)'
    BY DEF Filed
  <2>1. PICK m : m = job'[k][t].by
    OBVIOUS
  <2>2. SUFFICES FiledBy(k, t, m)'
    BY <2>1 DEF FiledBy, Owner
  <2>3. ASSUME FiledBy(k, t, m) PROVE FiledBy(k, t, m)'
    BY <1>2, <1>3, <1>5, <2>3 DEF FiledBy, Owner
  <2>4. CASE job'[k][t] = job[k][t]
    BY <2>1, <2>3, <2>4 DEF Filed
  <2>5. CASE job'[k][t] # job[k][t]
    <3>1. Files(n, new) /\ k = row[n].found /\ t = Owner(n) /\ job'[k][t] = NewJob(n)
      BY <1>1, <1>7, <2>5
    <3>2. m = n /\ new.at = "queued" /\ new.found = k
      BY <1>6, <2>1, <3>1, NewJobRow DEF Files
    <3>3. Owner(n)' = t
      BY <1>5, <3>1 DEF Owner
    <3>4. QED
      BY <1>2, <3>2, <3>3 DEF FiledBy
  <2>6. QED
    BY <2>4, <2>5
<1>12. Clearing'
  <2>1. \A k \in Shape, t \in Teacher :
          clear.at = "resolved" /\ job'[k][t].by = clear.original => job'[k][t] = job[k][t]
    <3>1. ASSUME NEW k \in Shape, NEW t \in Teacher, clear.at = "resolved",
                 job'[k][t].by = clear.original, job'[k][t] # job[k][t]
          PROVE  FALSE
      <4>1. job'[k][t] = NewJob(n)
        BY <1>1, <1>7, <3>1
      <4>2. clear.original = n
        BY <1>6, <3>1, <4>1, NewJobRow
      <4>3. QED
        BY <1>3, <3>1, <4>2 DEF Clearing
    <3>2. QED
      BY <3>1
  <2>2. QED
    BY <1>2, <1>4, <1>5, <2>1 DEF Clearing
<1>13. QED
  BY <1>8, <1>9, <1>10, <1>11, <1>12

\* A new request is the last row, and nothing is known of it.
LEMMA RequestBuildInv ==
    ASSUME BuildInv, NEW c \in Candidate, RequestBuild(c)
    PROVE  BuildInv'
<1> USE DEF BuildInv
<1> DEFINE new == [cand |-> c, at |-> "observing", tries |-> 0, found |-> None, key |-> None, error |-> "none"]
<1>1. /\ new \in Row /\ new.cand = c /\ Sound(new)
  BY DEF Row, RowStages, Sound
<1>2. row' = Append(row, new)
  BY DEF RequestBuild
<1> HIDE DEF new
<1>3. /\ row' \in Seq(Row) /\ Len(row') = Len(row) + 1 /\ Len(row) \in Nat
      /\ DOMAIN row' = DOMAIN row \union {Len(row')} /\ row'[Len(row')] = new
      /\ \A n \in DOMAIN row : row'[n] = row[n]
  BY <1>1, <1>2 DEF Typed
<1>4. held' = [held EXCEPT ![c] = Len(row')] /\ job' = job /\ clear' = clear /\ tag' = tag
  BY DEF RequestBuild
<1>5. Typed'
  BY <1>3, <1>4 DEF Typed
<1>6. RowsSound'
  BY <1>1, <1>3 DEF RowsSound
<1>7. Recorded'
  <2> SUFFICES ASSUME NEW d \in Candidate, held'[d] # 0
               PROVE  held'[d] \in DOMAIN row' /\ row'[held'[d]].cand = d
    BY DEF Recorded
  <2>1. CASE d = c
    BY <1>1, <1>3, <1>4, <2>1 DEF Typed
  <2>2. CASE d # c
    <3>1. held'[d] = held[d]
      BY <1>4, <2>2 DEF Typed
    <3>2. QED
      BY <1>3, <3>1 DEF Recorded
  <2>3. QED
    BY <2>1, <2>2
<1>8. Filed'
  BY <1>3, <1>4 DEF Filed, FiledBy, Owner
<1>9. Clearing'
  BY <1>3, <1>4 DEF Clearing
<1>10. QED
  BY <1>5, <1>6, <1>7, <1>8, <1>9

\* What a move makes of a job that is not settled.
Moves(k, t, new) ==
    /\ job' = [job EXCEPT ![k][t] = new]
    /\ new \in JobRow /\ new.by = job[k][t].by /\ ~ Settled(job[k][t])

LEMMA LateCount ==
    ASSUME NEW j \in JobRow, NEW late \in Nat, NEW n \in LateWith(j, late)
    PROVE  n \in Nat
BY DEF LateWith

LEMMA RejectedRow ==
    ASSUME NEW j \in JobRow, NEW i \in Rejected(j)
    PROVE  i \in JobRow /\ i.by = j.by /\ i.rejecting = j.rejecting
<1>1. CASE i = j
  BY <1>1
<1>2. CASE i = [j EXCEPT !.approved = FALSE]
  BY <1>2 DEF JobRow
<1>3. CASE j.drafts > 0 /\ i = [j EXCEPT !.drafts = j.drafts - 1]
  <2>1. j.drafts - 1 \in Nat
    BY <1>3 DEF JobRow
  <2>2. QED
    BY <1>3, <2>1 DEF JobRow
<1>4. QED
  BY <1>1, <1>2, <1>3 DEF Rejected

\* A job that is settled goes nowhere, and one that is not keeps who filed it.
LEMMA JobGoes ==
    ASSUME Typed, NEW k \in Shape, NEW t \in Teacher, JobMoves(k, t)
    PROVE  \E new : Moves(k, t, new)
<1>1. job[k][t] \in JobRow
  BY DEF Typed
<1> DEFINE j == job[k][t]
<1>2. /\ j \in JobRow /\ j.status \in JobStatus /\ j.drafts \in Nat /\ j.approved \in BOOLEAN
      /\ j.late \in Nat /\ j.rejecting \in Nat /\ j.by \in Nat
  BY <1>1 DEF JobRow
<1>3. j = job[k][t]
  OBVIOUS
<1> HIDE DEF j
<1>4. CASE Claim(k, t)
  <2>1. PICK late \in LateWith(j, j.late) : JobBecomes(k, t, [j EXCEPT !.status = "running", !.late = late])
    BY <1>3, <1>4 DEF Claim
  <2>2. late \in Nat
    BY <1>2, LateCount
  <2>3. j.status \in {"queued", "running", "persisted"}
    BY <1>3, <1>4 DEF Claim, Active
  <2>4. Moves(k, t, [j EXCEPT !.status = "running", !.late = late])
    BY <1>2, <1>3, <2>1, <2>2, <2>3 DEF Moves, JobBecomes, JobRow, JobStatus, Settled
  <2>5. QED
    BY <2>4
<1>5. CASE Persist(k, t)
  <2>1. JobBecomes(k, t, [j EXCEPT !.status = "persisted", !.drafts = j.drafts + 1])
    BY <1>3, <1>5 DEF Persist
  <2>2. j.status = "running" /\ ~ Settled(j)
    BY <1>3, <1>5 DEF Persist, Settled
  <2>3. PICK drafts \in Nat : drafts = j.drafts + 1
    BY <1>2
  <2>4. [j EXCEPT !.status = "persisted", !.drafts = drafts] \in JobRow
    BY <1>2, <2>3 DEF JobRow, JobStatus
  <2>5. Moves(k, t, [j EXCEPT !.status = "persisted", !.drafts = drafts])
    BY <1>2, <1>3, <2>1, <2>2, <2>3, <2>4 DEF Moves, JobBecomes, JobRow
  <2>6. QED
    BY <2>5
<1>6. CASE Finish(k, t)
  <2>1. PICK status \in JobStatus : JobBecomes(k, t, [j EXCEPT !.status = status])
    BY <1>3, <1>6 DEF Finish, JobStatus
  <2>2. j.status # "needs_manual"
    BY <1>3, <1>6 DEF Finish
  <2>3. Moves(k, t, [j EXCEPT !.status = status])
    BY <1>2, <1>3, <2>1, <2>2 DEF Moves, JobBecomes, JobRow, Settled
  <2>4. QED
    BY <2>3
<1>7. CASE LateWorker(k, t)
  <2>1. j.late > 0 /\ j.late - 1 \in Nat
    <3>1. j.late > 0
      BY <1>3, <1>7 DEF LateWorker
    <3>2. QED
      BY <1>2, <3>1
  <2>2. ~ Settled(j)
    BY <1>2, <2>1 DEF Settled, Quiet
  <2>3. CASE JobBecomes(k, t, [j EXCEPT !.drafts = j.drafts + 1, !.late = j.late - 1])
    <3>1. PICK drafts \in Nat : drafts = j.drafts + 1
      BY <1>2
    <3>2. PICK late \in Nat : late = j.late - 1
      BY <2>1
    <3>3. [j EXCEPT !.drafts = drafts, !.late = late] \in JobRow
      BY <1>2 DEF JobRow
    <3>4. Moves(k, t, [j EXCEPT !.drafts = drafts, !.late = late])
      BY <1>2, <1>3, <2>2, <2>3, <3>1, <3>2, <3>3 DEF Moves, JobBecomes, JobRow
    <3>5. QED
      BY <3>4
  <2>4. ASSUME NEW late \in LateWith(j, j.late - 1),
               JobBecomes(k, t, [j EXCEPT !.status = "needs_manual", !.late = late])
        PROVE  \E new : Moves(k, t, new)
    <3>1. late \in Nat
      BY <1>2, <2>1, LateCount
    <3>2. Moves(k, t, [j EXCEPT !.status = "needs_manual", !.late = late])
      BY <1>2, <1>3, <2>2, <2>4, <3>1 DEF Moves, JobBecomes, JobRow, JobStatus
    <3>3. QED
      BY <3>2
  <2>5. CASE JobBecomes(k, t, [j EXCEPT !.late = j.late - 1])
    <3>1. Moves(k, t, [j EXCEPT !.late = j.late - 1])
      BY <1>2, <1>3, <2>1, <2>2, <2>5 DEF Moves, JobBecomes, JobRow
    <3>2. QED
      BY <3>1
  <2>6. QED
    BY <1>3, <1>7, <2>3, <2>4, <2>5 DEF LateWorker
<1>8. CASE BeginReject(k, t)
  <2>1. JobBecomes(k, t, [j EXCEPT !.rejecting = j.rejecting + 1]) /\ j.drafts > 0
    BY <1>3, <1>8 DEF BeginReject
  <2>2. Moves(k, t, [j EXCEPT !.rejecting = j.rejecting + 1])
    BY <1>2, <1>3, <2>1 DEF Moves, JobBecomes, JobRow, Settled
  <2>3. QED
    BY <2>2
<1>9. CASE SendBack(k, t)
  <2>1. PICK i \in Rejected(j), status \in {"queued", "needs_manual"} :
          \E late \in LateWith(i, i.late) :
             JobBecomes(k, t, [i EXCEPT !.status = status, !.late = late, !.rejecting = i.rejecting - 1])
    BY <1>3, <1>9 DEF SendBack
  <2>2. PICK late \in LateWith(i, i.late) :
          JobBecomes(k, t, [i EXCEPT !.status = status, !.late = late, !.rejecting = i.rejecting - 1])
    BY <2>1
  <2>3. i \in JobRow /\ i.by = j.by /\ i.rejecting = j.rejecting
    BY <1>2, RejectedRow
  <2>4. late \in Nat
    BY <2>3, LateCount DEF JobRow
  <2>5. j.rejecting > 0
    BY <1>3, <1>9 DEF SendBack
  <2>6. ~ Settled(j) /\ i.rejecting - 1 \in Nat
    BY <1>2, <2>3, <2>5 DEF Settled, Quiet
  <2>7. [i EXCEPT !.status = status, !.late = late, !.rejecting = i.rejecting - 1] \in JobRow
    BY <2>3, <2>4, <2>6 DEF JobRow, JobStatus
  <2>8. Moves(k, t, [i EXCEPT !.status = status, !.late = late, !.rejecting = i.rejecting - 1])
    BY <1>3, <2>2, <2>3, <2>6, <2>7 DEF Moves, JobBecomes, JobRow
  <2>9. QED
    BY <2>8
<1>10. CASE Refine(k, t)
  <2>1. PICK i \in Rejected(j) : JobBecomes(k, t, i)
    BY <1>3, <1>10 DEF Refine
  <2>2. j.rejecting > 0
    BY <1>3, <1>10 DEF Refine
  <2>3. i \in JobRow /\ i.by = j.by /\ ~ Settled(j)
    BY <1>2, <2>2, RejectedRow DEF Settled, Quiet
  <2>4. Moves(k, t, i)
    BY <1>3, <2>1, <2>3 DEF Moves, JobBecomes
  <2>5. QED
    BY <2>4
<1>11. CASE Refined(k, t)
  <2> DEFINE i == [j EXCEPT !.rejecting = j.rejecting - 1]
  <2>1. j.rejecting > 0 /\ (JobBecomes(k, t, [i EXCEPT !.drafts = i.drafts + 1]) \/ JobBecomes(k, t, i))
    BY <1>3, <1>11 DEF Refined
  <2>2. j.rejecting - 1 \in Nat /\ ~ Settled(j)
    BY <1>2, <2>1 DEF Settled, Quiet
  <2>3. i \in JobRow /\ i.by = j.by
    BY <1>2, <2>2 DEF JobRow
  <2> HIDE DEF i
  <2>4. [i EXCEPT !.drafts = i.drafts + 1] \in JobRow /\ [i EXCEPT !.drafts = i.drafts + 1].by = j.by
    BY <2>3 DEF JobRow
  <2>5. Moves(k, t, i) \/ Moves(k, t, [i EXCEPT !.drafts = i.drafts + 1])
    BY <1>3, <2>1, <2>2, <2>3, <2>4 DEF Moves, JobBecomes
  <2>6. QED
    BY <2>5
<1>12. CASE Approve(k, t)
  <2>1. JobBecomes(k, t, [j EXCEPT !.drafts = j.drafts - 1, !.approved = TRUE]) /\ j.drafts > 0
    BY <1>3, <1>12 DEF Approve
  <2>2. j.drafts - 1 \in Nat /\ ~ Settled(j)
    BY <1>2, <2>1 DEF Settled
  <2>3. Moves(k, t, [j EXCEPT !.drafts = j.drafts - 1, !.approved = TRUE])
    BY <1>2, <1>3, <2>1, <2>2 DEF Moves, JobBecomes, JobRow
  <2>4. QED
    BY <2>3
<1>13. QED
  BY <1>4, <1>5, <1>6, <1>7, <1>8, <1>9, <1>10, <1>11, <1>12 DEF JobMoves

LEMMA JobKeepsRest ==
    ASSUME NEW k \in Shape, NEW t \in Teacher, JobMoves(k, t)
    PROVE  UNCHANGED <<quotaVars, row, held, tag, clear>>
BY DEF JobMoves, Claim, Persist, Finish, LateWorker, BeginReject, SendBack, Refine, Refined, Approve, JobBecomes

LEMMA JobMovesInv ==
    ASSUME BuildInv, NEW k \in Shape, NEW t \in Teacher, JobMoves(k, t)
    PROVE  BuildInv'
<1> USE DEF BuildInv
<1>1. PICK new : Moves(k, t, new)
  BY JobGoes
<1>2. /\ job' \in [Shape -> [Teacher -> JobRow]]
      /\ \A s \in Shape, u \in Teacher :
            job'[s][u].by = job[s][u].by /\ (Settled(job[s][u]) => job'[s][u] = job[s][u])
  <2>1. job[k] \in [Teacher -> JobRow]
    BY DEF Typed
  <2>2. new \in JobRow /\ new.by = job[k][t].by /\ ~ Settled(job[k][t])
    BY <1>1 DEF Moves
  <2> DEFINE jobs == [job[k] EXCEPT ![t] = new]
  <2>3. job' = [job EXCEPT ![k] = jobs]
    BY <1>1 DEF Moves
  <2>4. jobs \in [Teacher -> JobRow] /\ jobs[t] = new /\ \A u \in Teacher \ {t} : jobs[u] = job[k][u]
    BY <2>1, <2>2
  <2> HIDE DEF jobs
  <2>5. /\ job' \in [Shape -> [Teacher -> JobRow]] /\ job'[k] = jobs
        /\ \A s \in Shape \ {k} : job'[s] = job[s]
    BY <2>3, <2>4 DEF Typed
  <2>6. ASSUME NEW s \in Shape, NEW u \in Teacher
        PROVE  job'[s][u].by = job[s][u].by /\ (Settled(job[s][u]) => job'[s][u] = job[s][u])
    <3>1. CASE s = k /\ u = t
      BY <2>2, <2>4, <2>5, <3>1
    <3>2. CASE s # k \/ u # t
      BY <2>4, <2>5, <3>2
    <3>3. QED
      BY <3>1, <3>2
  <2>7. QED
    BY <2>5, <2>6
<1>3. UNCHANGED <<row, held, tag, clear>>
  BY JobKeepsRest
<1>4. Typed' /\ RowsSound' /\ Recorded'
  BY <1>2, <1>3 DEF Typed, RowsSound, Recorded
<1>5. Filed'
  BY <1>2, <1>3 DEF Filed, FiledBy, Owner
<1>6. Clearing'
  <2>1. ASSUME clear.at = "resolved", clear.quiet, NEW s \in Shape, NEW u \in Teacher,
               job'[s][u].by = clear.original
        PROVE  Settled(job'[s][u])
    BY <1>2, <2>1 DEF Clearing
  <2>2. QED
    BY <1>3, <2>1 DEF Clearing
<1>7. QED
  BY <1>4, <1>5, <1>6

LEMMA BeginClearInv ==
    ASSUME BuildInv, NEW c \in Candidate, BeginClear(c)
    PROVE  BuildInv'
<1> USE DEF BuildInv
<1>1. held[c] \in DOMAIN row /\ row[held[c]].cand = c /\ held[c] \in Nat
  BY DEF BeginClear, Recorded, Typed
<1>2. row[held[c]] \in Row
  BY <1>1 DEF Typed
<1>3. clear' = [at |-> "copied", cand |-> c, original |-> held[c], quiet |-> FALSE,
                key |-> row[held[c]].key, error |-> row[held[c]].error]
  BY DEF BeginClear
<1>4. UNCHANGED <<row, held, tag, job>>
  BY DEF BeginClear
<1>5. clear' \in ClearRow
  BY <1>1, <1>2, <1>3 DEF ClearRow, Row
<1>6. Typed' /\ RowsSound' /\ Recorded' /\ Filed'
  BY <1>4, <1>5 DEF Typed, RowsSound, Recorded, Filed, FiledBy, Owner
<1>7. \/ row[held[c]].at = "done"
      \/ row[held[c]].key = None /\ row[held[c]].error = "none"
  BY <1>1 DEF RowsSound, Sound
<1>8. Clearing'
  BY <1>1, <1>3, <1>4, <1>7 DEF Clearing
<1>9. QED
  BY <1>6, <1>8

\* A job of which nothing is told but that it needs a person by hand.
LEMMA ByHand ==
    ASSUME NEW j \in JobRow, JobStage(j) \in Clearable
    PROVE  j.status = "needs_manual" /\ j.drafts = 0 /\ ~ j.approved
<1>1. j.drafts \in Nat /\ j.approved \in BOOLEAN /\ j.status \in JobStatus
  BY DEF JobRow
<1>2. j.drafts = 0 /\ ~ j.approved
  BY <1>1 DEF JobStage, Clearable
<1>3. j.status \notin {"running", "persisted", "queued", "failed", "succeeded"}
  BY <1>1, <1>2 DEF JobStage, Clearable
<1>4. j.status # "none"
  BY <1>1, <1>2, <1>3 DEF JobStage, Clearable
<1>5. QED
  BY <1>1, <1>2, <1>3, <1>4 DEF JobStatus

\* A request with a stage that can be cleared has ended, and its job, if it
\* filed one, needs a person by hand: an error means that it filed none.
LEMMA ResolveClearInv ==
    ASSUME BuildInv, ResolveClear
    PROVE  BuildInv'
<1> USE DEF BuildInv
<1>1. UNCHANGED <<row, held, tag, job>> /\ clear.at = "copied"
  BY DEF ResolveClear
<1>2. /\ clear.cand \in Candidate /\ clear.original \in Nat /\ clear.key \in Shape \union {None}
      /\ clear.error \in {"none", "building", "available", "untagged"}
  BY <1>1 DEF Typed, ClearRow
<1>3. clear.original \in DOMAIN row /\ row[clear.original].cand = clear.cand
  BY <1>1 DEF Clearing
<1> DEFINE t == TeacherOf[clear.cand]
<1>4. CASE StageFor(clear.key, clear.error, t) \notin Clearable
  <2>1. clear' = [at |-> "none"]
    BY <1>4 DEF ResolveClear
  <2>2. Typed' /\ RowsSound' /\ Recorded' /\ Filed'
    BY <1>1, <2>1 DEF Typed, ClearRow, RowsSound, Recorded, Filed, FiledBy, Owner
  <2>3. Clearing'
    BY <2>1 DEF Clearing
  <2>4. QED
    BY <2>2, <2>3
<1>5. CASE StageFor(clear.key, clear.error, t) \in Clearable
  <2>1. clear' = [clear EXCEPT !.at = "resolved", !.quiet = QuietFor(clear.original)]
    BY <1>5 DEF ResolveClear
  <2>2. /\ clear' \in ClearRow /\ clear'.at = "resolved" /\ clear'.original = clear.original
        /\ clear'.cand = clear.cand /\ clear'.quiet = QuietFor(clear.original)
    <3>1. clear \in [at : {"copied", "resolved"}, cand : Candidate, original : Nat, quiet : BOOLEAN,
                    key : Shape \union {None}, error : {"none", "building", "available", "untagged"}]
      BY <1>1 DEF Typed, ClearRow
    <3>2. QuietFor(clear.original) \in BOOLEAN
      BY DEF QuietFor
    <3> DEFINE quiet == QuietFor(clear.original)
    <3> HIDE DEF quiet
    <3>3. clear' = [clear EXCEPT !.at = "resolved", !.quiet = quiet] /\ quiet \in BOOLEAN
      BY <2>1, <3>2 DEF quiet
    <3>4. /\ clear' \in ClearRow /\ clear'.at = "resolved" /\ clear'.original = clear.original
          /\ clear'.cand = clear.cand /\ clear'.quiet = quiet
      BY <3>1, <3>3 DEF ClearRow
    <3>5. QED
      BY <3>4 DEF quiet
  <2>3. Typed' /\ RowsSound' /\ Recorded' /\ Filed'
    BY <1>1, <2>2 DEF Typed, RowsSound, Recorded, Filed, FiledBy, Owner
  <2>4. \/ clear.error # "none"
        \/ clear.key # None /\ JobStage(job[clear.key][t]) \in Clearable
    BY <1>5 DEF StageFor, Clearable
  <2>5. /\ row[clear.original].at = "done" /\ clear.key = row[clear.original].key
        /\ clear.error = row[clear.original].error
    BY <1>1, <2>4 DEF Clearing
  <2>6. ASSUME NEW k \in Shape, NEW u \in Teacher, job[k][u].by = clear.original, QuietFor(clear.original)
        PROVE  Settled(job[k][u])
    <3>1. clear.original # 0
      BY <1>3 DEF Typed
    <3>2. FiledBy(k, u, clear.original)
      BY <2>6, <3>1 DEF Filed
    <3>3. u = t /\ row[clear.original].error = "none" /\ row[clear.original].key = k
      BY <1>3, <2>5, <3>2 DEF FiledBy, Owner
    <3>4. JobStage(job[k][u]) \in Clearable /\ job[k][u] \in JobRow
      BY <2>4, <2>5, <3>3 DEF Typed
    <3>5. Quiet(job[k][u])
      BY <2>6 DEF QuietFor
    <3>6. QED
      BY <3>4, <3>5, ByHand DEF Settled
  <2>7. Clearing'
    BY <1>1, <1>3, <2>2, <2>5, <2>6 DEF Clearing
  <2>8. QED
    BY <2>3, <2>7
<1>6. QED
  BY <1>4, <1>5

LEMMA EndClearInv ==
    ASSUME BuildInv, EndClear
    PROVE  BuildInv'
<1> USE DEF BuildInv
<1>1. UNCHANGED <<row, tag, job>> /\ clear' = [at |-> "none"]
  BY DEF EndClear
<1>2. clear.cand \in Candidate
  BY DEF EndClear, Typed, ClearRow
<1>3. held' \in [Candidate -> Nat] /\ \A c \in Candidate : held'[c] = held[c] \/ held'[c] = 0
  BY <1>2 DEF EndClear, Typed
<1>4. Typed' /\ RowsSound' /\ Recorded' /\ Filed'
  BY <1>1, <1>3 DEF Typed, ClearRow, RowsSound, Recorded, Filed, FiledBy, Owner
<1>5. Clearing'
  BY <1>1 DEF Clearing
<1>6. QED
  BY <1>4, <1>5

LEMMA RestStays ==
    ASSUME BuildInv, UNCHANGED <<row, held, tag, job, clear>>
    PROVE  BuildInv'
BY DEF BuildInv, Typed, RowsSound, Recorded, Filed, FiledBy, Owner, Clearing

LEMMA BuildStarts == Init => BuildInv
<1> SUFFICES ASSUME Init PROVE BuildInv
  OBVIOUS
<1>1. row = <<>> /\ clear = [at |-> "none"] /\ held = [c \in Candidate |-> 0]
  BY DEF Init
<1>2. NoJob \in JobRow /\ NoJob.by = 0
  BY DEF NoJob, JobRow, JobStatus
<1>3. \A k \in Shape, t \in Teacher : job[k][t] = NoJob
  BY DEF Init
<1>4. Typed
  BY <1>1, <1>2 DEF Init, Typed, ClearRow
<1>5. RowsSound /\ Recorded /\ Clearing
  BY <1>1 DEF RowsSound, Recorded, Clearing
<1>6. Filed
  BY <1>2, <1>3 DEF Filed
<1>7. QED
  BY <1>4, <1>5, <1>6 DEF BuildInv

LEMMA BuildStep == BuildInv /\ [Next]_vars => BuildInv'
<1> SUFFICES ASSUME BuildInv, [Next]_vars PROVE BuildInv'
  OBVIOUS
<1>1. CASE Quota
  BY <1>1, RestStays DEF Quota
<1>2. ASSUME NEW n \in DOMAIN row, Task(n) PROVE BuildInv'
  BY <1>2, EveryTaskMoves, TaskInv
<1>3. ASSUME NEW c \in Candidate, RequestBuild(c) PROVE BuildInv'
  BY <1>3, RequestBuildInv
<1>4. ASSUME NEW c \in Candidate, BeginClear(c) PROVE BuildInv'
  BY <1>4, BeginClearInv
<1>5. CASE ResolveClear
  BY <1>5, ResolveClearInv
<1>6. CASE EndClear
  BY <1>6, EndClearInv
<1>7. ASSUME NEW k \in Shape, Shared(k) PROVE BuildInv'
  BY <1>7, RestStays DEF Shared
<1>8. ASSUME NEW k \in Shape, NEW t \in Teacher, JobMoves(k, t) PROVE BuildInv'
  BY <1>8, JobMovesInv
<1>9. CASE UNCHANGED vars
  BY <1>9, RestStays DEF vars
<1>10. QED
  BY <1>1, <1>2, <1>3, <1>4, <1>5, <1>6, <1>7, <1>8, <1>9 DEF Next

\* A task changes the counters only where it passes one of them.
LEMMA TaskQuota ==
    ASSUME QuotaInv, Typed, NEW n \in DOMAIN row, Task(n)
    PROVE  QuotaInv'
<1>1. CASE PassIp(n)
  BY <1>1, OwnerType, TakeIpQuota DEF PassIp
<1>2. CASE PassDay(n)
  BY <1>2, TakeDayQuota DEF PassDay
<1>3. CASE UNCHANGED quotaVars
  BY <1>3 DEF quotaVars, QuotaInv
<1>4. QED
  BY <1>1, <1>2, <1>3
     DEF Task, Observe, Converse, StoreTag, CheckAvailable, EnqueueOnDemand, DatabaseFails, Report

LEMMA QuotaNext == BuildInv /\ QuotaInv /\ [Next]_vars => QuotaInv'
<1> SUFFICES ASSUME BuildInv, QuotaInv, [Next]_vars PROVE QuotaInv'
  OBVIOUS
<1>1. CASE Quota
  BY <1>1, QuotaStep
<1>2. ASSUME NEW n \in DOMAIN row, Task(n) PROVE QuotaInv'
  BY <1>2, TaskQuota DEF BuildInv
<1>3. CASE UNCHANGED quotaVars
  BY <1>3 DEF quotaVars, QuotaInv
<1>4. ASSUME NEW k \in Shape, NEW t \in Teacher, JobMoves(k, t) PROVE UNCHANGED quotaVars
  BY <1>4, JobKeepsRest
<1>5. QED
  BY <1>1, <1>2, <1>3, <1>4 DEF Next, RequestBuild, BeginClear, ResolveClear, EndClear, Shared, vars

\* Only the end of a clear takes a request from its candidate: the one it copied.
LEMMA OnlyClearsForget ==
    ASSUME BuildInv, [Next]_vars, NEW c \in Candidate, held[c] # 0, held'[c] = 0
    PROVE  /\ At(held[c], "done")
           /\ clear.quiet => \A k \in Shape :
                 job[k][TeacherOf[c]].by = held[c] => Settled(job[k][TeacherOf[c]])
<1> USE DEF BuildInv
<1>1. ASSUME NEW d \in Candidate, RequestBuild(d) PROVE FALSE
  <2>1. Len(row') # 0
    BY <1>1 DEF RequestBuild, Typed
  <2>2. held' = [held EXCEPT ![d] = Len(row')]
    BY <1>1 DEF RequestBuild
  <2>3. QED
    BY <2>1, <2>2 DEF Typed
<1>2. ASSUME NEW n \in DOMAIN row, Task(n) PROVE FALSE
  BY <1>2, EveryTaskMoves DEF TaskMoves
<1>0. ASSUME NEW k \in Shape, NEW t \in Teacher, JobMoves(k, t) PROVE FALSE
  BY <1>0, JobKeepsRest
<1>3. EndClear
  BY <1>1, <1>2, <1>0 DEF Next, Quota, BeginClear, ResolveClear, Shared, vars
<1>4. held[c] = clear.original /\ clear.at = "resolved"
  BY <1>3 DEF EndClear, SameRequest, Typed
<1>5. TeacherOf[c] \in Teacher /\ held[c] \in DOMAIN row
  BY BuildsAssumption DEF Recorded
<1>6. QED
  BY <1>4, <1>5 DEF Clearing, At

-----------------------------------------------------------------------------
(* Theorems *)

\* Between one reset of the counters and the next, no address gets more model
\* calls through than its cap per hour and all together no more than the cap of
\* a day (_take and enforce of quota.py), with Redis and without it, whoever
\* calls and however the tasks' attempts and retries interleave.
THEOREM CallsStayWithinCaps == Spec => []CallsWithinCaps
<1>1. Init => QuotaInv
  BY QuotaStarts DEF Init
<1>2. QuotaInv => CallsWithinCaps
  BY DEF QuotaInv, CallsWithinCaps
<1>3. QED
  BY <1>1, <1>2, BuildStarts, BuildStep, QuotaNext, PTL DEF Spec

\* clear_build resolves the stage of a request without the lock and deletes it
\* afterwards under the lock: what it deletes is the request it resolved, that
\* one's task has ended, and the latest job of its shape, if the request filed it,
\* does not wait, run or have a draft to judge nor ever will, however requests,
\* tasks and jobs move between its three steps; unless, when it resolved the stage,
\* a worker that had lost the job, or a rejection of a draft, was under way.
THEOREM ClearsHideNothing == Spec => ClearHidesNothing
<1>1. BuildInv /\ [Next]_vars =>
        [\A c \in Candidate : held[c] # 0 /\ held'[c] = 0 =>
            /\ At(held[c], "done")
            /\ clear.quiet => \A k \in Shape :
                  job[k][TeacherOf[c]].by = held[c] => Settled(job[k][TeacherOf[c]])]_vars
  BY OnlyClearsForget
<1>2. QED
  BY <1>1, BuildStarts, BuildStep, PTL DEF Spec, ClearHidesNothing

=============================================================================
