------------------------ MODULE ReplyDelivery_proofs ------------------------
(***************************************************************************)
(* What the delivery of replies keeps for any number of processes, hits,   *)
(* retries and faults, with and without coalescing and with either queue.  *)
(***************************************************************************)
EXTENDS ReplyDelivery, FiniteSetTheorems, SequenceTheorems, TLAPS

-----------------------------------------------------------------------------
(* The inductive invariant, part by part *)

\* The rows there are; a reply known to a hit, a task or Redis is one of them.
Known == 1 .. Len(rows)

Shared ==
    /\ deploy \in Deployments
    /\ rows \in Seq(Status) /\ Len(rows) <= hits
    /\ redis \in [pending : Replies \cup {None}, schedule : Jobs \cup {None}, later : BOOLEAN]
    /\ redis.pending # None => redis.pending \in Known
    /\ asked \in [Replies -> Nat]
    /\ \A r \in Replies : r \notin Known => asked[r] = 0
    /\ confirmed \in [Replies -> Nat]
    /\ hits \in 0 .. MaxHits /\ faults \in 0 .. MaxFaults

HitsFit ==
    /\ hit \in [Procs -> Hit \cup {None}]
    /\ \A p \in Procs : hit[p] # None => hit[p].reply \in Known

\* What a task holds at each of its statements.
Fits(x) ==
    /\ x.kind = "deliver" => x.pc \in {"queued", "load", "send", "stamp"}
    /\ x.kind = "deliver" \/ x.pc \in {"load", "send", "stamp"} => x.reply \in Known
    /\ x.pc \in {"timer", "queued", "get", "load", "send"} => x.result = "failed"

Tasks == 1 .. Len(jobs)
TasksFit ==
    /\ jobs \in Seq(Job \cup {None})
    /\ \A j \in Tasks : jobs[j] # None => Fits(jobs[j])

\* The queue of a process holds its waiting tasks, each once.
Waiting(p) == {j \in Tasks : jobs[j] # None /\ jobs[j].pc = "queued" /\ jobs[j].proc = p}
QueueFits(p) ==
    /\ queue[p] \in Seq(Nat)
    /\ \A n \in 1 .. Len(queue[p]) : queue[p][n] \in Waiting(p)
    /\ \A j \in Waiting(p) : \E n \in 1 .. Len(queue[p]) : queue[p][n] = j
    /\ \A m, n \in 1 .. Len(queue[p]) : queue[p][m] = queue[p][n] => m = n
QueuesFit == DOMAIN queue = Procs /\ \A p \in Procs : QueueFits(p)

\* The hits in progress, and those that are about to ask for reply r once more.
Active == {p \in Procs : hit[p] # None}
Asking(r) == {p \in Procs : hit[p] # None /\ hit[p].pc = "commit" /\ hit[p].reply = r}
Counted ==
    /\ IsFiniteSet(Active)
    /\ Len(jobs) + Cardinality(Active) <= hits
    /\ \A r \in Replies : asked[r] + Cardinality(Asking(r)) <= hits

TypeInv == Shared /\ HitsFit /\ TasksFit /\ QueuesFit /\ Counted

-----------------------------------------------------------------------------
(* Tasks *)

Pcs == Running \cup {"timer", "queued"}

\* Task j, of value x so far, gets value y.
Is(y, x, pc, reply, loaded, result) ==
    /\ y \in Job /\ y.kind = x.kind /\ y.proc = x.proc
    /\ y.pc = pc /\ y.reply = reply /\ y.loaded = loaded /\ y.result = result

Turns(j, y) == j \in Tasks /\ jobs[j] # None /\ jobs' = [jobs EXCEPT ![j] = y]

LEMMA Updated ==
  ASSUME NEW x \in Job, NEW pc \in Pcs
  PROVE  /\ Is([x EXCEPT !.pc = pc], x, pc, x.reply, x.loaded, x.result)
         /\ \A s \in Status :
               Is([x EXCEPT !.pc = pc, !.loaded = s], x, pc, x.reply, s, x.result)
         /\ Is([x EXCEPT !.pc = pc, !.result = "sent"], x, pc, x.reply, x.loaded, "sent")
         /\ \A r \in Replies \cup {None} :
               Is([x EXCEPT !.reply = r, !.pc = pc], x, pc, r, x.loaded, x.result)
         /\ x.attempt < SendRetries =>
               Is([x EXCEPT !.attempt = @ + 1], x, x.pc, x.reply, x.loaded, x.result)
<1>1. Is([x EXCEPT !.pc = pc], x, pc, x.reply, x.loaded, x.result)
  BY DEF Job, Is, Pcs
<1>2. ASSUME NEW s \in Status
      PROVE  Is([x EXCEPT !.pc = pc, !.loaded = s], x, pc, x.reply, s, x.result)
  BY DEF Job, Is, Pcs
<1>3. Is([x EXCEPT !.pc = pc, !.result = "sent"], x, pc, x.reply, x.loaded, "sent")
  BY DEF Job, Is, Pcs
<1>4. ASSUME NEW r \in Replies \cup {None}
      PROVE  Is([x EXCEPT !.reply = r, !.pc = pc], x, pc, r, x.loaded, x.result)
  BY DEF Job, Is, Pcs
<1>5. x.attempt < SendRetries =>
         Is([x EXCEPT !.attempt = @ + 1], x, x.pc, x.reply, x.loaded, x.result)
  BY DeliveryAssumption DEF Job, Is
<1> QED
  BY <1>1, <1>2, <1>3, <1>4, <1>5

LEMMA Living ==
  ASSUME TasksFit, NEW j, Live(j)
  PROVE  j \in Tasks /\ jobs[j] \in Job /\ jobs[j] # None /\ Fits(jobs[j]) /\ jobs[j].pc \in Pcs
<1>1. j \in Tasks /\ jobs[j] # None
  BY DEF Live, TasksFit, Tasks
<1>2. jobs[j] \in Job
  BY <1>1 DEF TasksFit, Tasks
<1> QED
  BY <1>1, <1>2 DEF TasksFit, Job, Pcs

\* One task changes.
LEMMA TurnTasks ==
  ASSUME TasksFit, NEW j, NEW y \in Job \cup {None}, Turns(j, y)
  PROVE  /\ jobs' \in Seq(Job \cup {None}) /\ Len(jobs') = Len(jobs) /\ Tasks' = Tasks
         /\ jobs'[j] = y
         /\ \A i \in Tasks : i # j => jobs'[i] = jobs[i]
<1>1. jobs \in Seq(Job \cup {None}) /\ j \in 1 .. Len(jobs)
  BY DEF TasksFit, Turns, Tasks
<1> QED
  BY <1>1, ExceptSeq DEF Turns, Tasks

\* One task is created.
LEMMA AddTask ==
  ASSUME TasksFit, NEW y \in Job, jobs' = Append(jobs, y)
  PROVE  /\ jobs' \in Seq(Job \cup {None}) /\ Len(jobs') = Len(jobs) + 1
         /\ Len(jobs) \in Nat /\ Tasks' = Tasks \cup {Len(jobs) + 1}
         /\ Len(jobs) + 1 \notin Tasks
         /\ jobs'[Len(jobs) + 1] = y
         /\ \A i \in Tasks : jobs'[i] = jobs[i]
<1>1. jobs \in Seq(Job \cup {None}) /\ y \in Job \cup {None}
  BY DEF TasksFit
<1>2. Len(jobs) \in Nat
  BY <1>1
<1>3. jobs' \in Seq(Job \cup {None}) /\ Len(jobs') = Len(jobs) + 1
      /\ jobs'[Len(jobs) + 1] = y /\ \A i \in 1 .. Len(jobs) : jobs'[i] = jobs[i]
  BY <1>1, AppendProperties
<1> QED
  BY <1>2, <1>3 DEF Tasks

LEMMA TurnFits ==
  ASSUME TasksFit, NEW j, NEW y \in Job \cup {None}, Turns(j, y),
         y # None => Fits(y), UNCHANGED Known
  PROVE  TasksFit'
<1>1. ASSUME NEW i \in Tasks, jobs'[i] # None PROVE Fits(jobs[i])'
  BY <1>1, TurnTasks DEF TasksFit, Fits
<1> QED
  BY <1>1, TurnTasks DEF TasksFit

\* A task that neither was nor will be waiting for a thread.
LEMMA TurnQueues ==
  ASSUME TasksFit, QueuesFit, NEW j, NEW y \in Job \cup {None}, Turns(j, y),
         jobs[j].pc # "queued", y # None => y.pc # "queued", UNCHANGED queue
  PROVE  QueuesFit'
<1>1. \A p \in Procs : Waiting(p)' = Waiting(p)
  BY TurnTasks DEF Waiting
<1> QED
  BY <1>1 DEF QueuesFit, QueueFits

LEMMA SameCounted ==
  ASSUME Counted, UNCHANGED <<hit, asked, hits>>, Len(jobs') = Len(jobs)
  PROVE  Counted'
  BY DEF Counted, Active, Asking

-----------------------------------------------------------------------------
(* The steps of a task *)

LEMMA LoadTurn ==
  ASSUME Shared, TasksFit, NEW j, Load(j)
  PROVE  \E y : /\ Turns(j, y)
                /\ Is(y, jobs[j], "send", jobs[j].reply, rows[jobs[j].reply], jobs[j].result)
<1>1. Live(j) /\ jobs[j].pc = "load"
  BY DEF Load, At
<1>2. jobs[j].reply \in Known /\ j \in Tasks /\ jobs[j] \in Job
  BY <1>1, Living DEF Fits
<1>3. rows[jobs[j].reply] \in Status
  BY <1>2 DEF Shared, Known
<1> DEFINE y == [jobs[j] EXCEPT !.pc = "send", !.loaded = rows[jobs[j].reply]]
<1>4. Is(y, jobs[j], "send", jobs[j].reply, rows[jobs[j].reply], jobs[j].result)
  BY <1>2, <1>3, Updated DEF Pcs, Running
<1>5. Turns(j, y)
  BY <1>1, <1>2 DEF Load, Turns, Live
<1> QED
  BY <1>4, <1>5

LEMMA SendTurn ==
  ASSUME TasksFit, NEW j, Send(j)
  PROVE  \E y : Turns(j, y) /\
            \/ /\ Is(y, jobs[j], "stamp", jobs[j].reply, jobs[j].loaded, "sent")
               /\ confirmed' = [confirmed EXCEPT ![jobs[j].reply] = @ + 1]
            \/ /\ Is(y, jobs[j], "send", jobs[j].reply, jobs[j].loaded, jobs[j].result)
               /\ UNCHANGED confirmed
            \/ /\ Is(y, jobs[j], "stamp", jobs[j].reply, jobs[j].loaded, jobs[j].result)
               /\ UNCHANGED confirmed
<1>1. Live(j) /\ jobs[j].pc = "send"
  BY DEF Send, At
<1>2. j \in Tasks /\ jobs[j] \in Job /\ jobs[j] # None
  BY <1>1, Living
<1>3. "stamp" \in Pcs
  BY DEF Pcs, Running
<1>4. CASE /\ confirmed' = [confirmed EXCEPT ![jobs[j].reply] = @ + 1]
           /\ jobs' = [jobs EXCEPT ![j].pc = "stamp", ![j].result = "sent"]
  <2> DEFINE y == [jobs[j] EXCEPT !.pc = "stamp", !.result = "sent"]
  <2>1. Is(y, jobs[j], "stamp", jobs[j].reply, jobs[j].loaded, "sent")
    BY <1>2, <1>3, Updated
  <2>2. Turns(j, y)
    BY <1>2, <1>4 DEF Turns
  <2> QED
    BY <1>4, <2>1, <2>2
<1>5. CASE /\ UNCHANGED confirmed
           /\ jobs' = IF jobs[j].attempt < SendRetries
                      THEN [jobs EXCEPT ![j].attempt = @ + 1]
                      ELSE [jobs EXCEPT ![j].pc = "stamp"]
  <2>1. CASE jobs[j].attempt < SendRetries
    <3> DEFINE y == [jobs[j] EXCEPT !.attempt = @ + 1]
    <3>1. Is(y, jobs[j], "send", jobs[j].reply, jobs[j].loaded, jobs[j].result)
      BY <1>1, <1>2, <1>3, <2>1, Updated
    <3>2. jobs' = [jobs EXCEPT ![j] = [jobs[j] EXCEPT !.attempt = @ + 1]]
      BY <1>5, <2>1, Zenon
    <3> QED
      BY <1>2, <1>5, <3>1, <3>2 DEF Turns
  <2>2. CASE ~(jobs[j].attempt < SendRetries)
    <3> DEFINE y == [jobs[j] EXCEPT !.pc = "stamp"]
    <3>1. Is(y, jobs[j], "stamp", jobs[j].reply, jobs[j].loaded, jobs[j].result)
      BY <1>2, <1>3, Updated
    <3>2. Turns(j, y)
      BY <1>2, <1>5, <2>2 DEF Turns
    <3> QED
      BY <1>5, <3>1, <3>2
  <2> QED
    BY <2>1, <2>2
<1> QED
  BY <1>4, <1>5 DEF Send

\* A delivery ends; a flush goes on to its finally clause.
Finishes(j, y) ==
    \/ y = None /\ jobs[j].kind = "deliver"
    \/ /\ Is(y, jobs[j], "delete", jobs[j].reply, jobs[j].loaded, jobs[j].result)
       /\ jobs[j].kind = "flush"

LEMMA AfterTurn ==
  ASSUME TasksFit, NEW j, Live(j), jobs' = [jobs EXCEPT ![j] = AfterDelivery(j)]
  PROVE  \E y : Turns(j, y) /\ Finishes(j, y)
<1>1. j \in Tasks /\ jobs[j] \in Job /\ jobs[j] # None
  BY Living
<1>2. Turns(j, AfterDelivery(j))
  BY <1>1 DEF Turns
<1>3. Finishes(j, AfterDelivery(j))
  <2>1. jobs[j].kind \in {"deliver", "flush"}
    BY <1>1 DEF Job
  <2>2. Is([jobs[j] EXCEPT !.pc = "delete"], jobs[j], "delete", jobs[j].reply,
           jobs[j].loaded, jobs[j].result)
    BY <1>1, Updated DEF Pcs, Running
  <2> QED
    BY <2>1, <2>2 DEF AfterDelivery, Finishes
<1> QED
  BY <1>2, <1>3
LEMMA GetTurn ==
  ASSUME Shared, TasksFit, NEW j, FlushGet(j)
  PROVE  \E y : Turns(j, y) /\
            \/ /\ redis.pending = None
               /\ Is(y, jobs[j], "delete", None, jobs[j].loaded, jobs[j].result)
            \/ /\ redis.pending # None
               /\ Is(y, jobs[j], "load", redis.pending, jobs[j].loaded, jobs[j].result)
<1>1. j \in Tasks /\ jobs[j] \in Job /\ jobs[j] # None
  BY Living DEF FlushGet, At
<1> DEFINE next == IF redis.pending = None THEN "delete" ELSE "load"
<1> DEFINE y == [jobs[j] EXCEPT !.reply = redis.pending, !.pc = next]
<1>2. redis.pending \in Replies \cup {None} /\ next \in Pcs
  BY DEF Shared, Pcs, Running
<1>3. Is(y, jobs[j], next, redis.pending, jobs[j].loaded, jobs[j].result)
  <2> HIDE DEF next
  <2> QED
    BY <1>1, <1>2, Updated
<1>4. Turns(j, y)
  BY <1>1 DEF FlushGet, Turns
<1> QED
  <2> HIDE DEF y
  <2> QED
    BY <1>3, <1>4

\* The other steps of a flush only move it on, or end it.
MovesOn(j, next) ==
    \E y : Turns(j, y) /\ Is(y, jobs[j], next, jobs[j].reply, jobs[j].loaded, jobs[j].result)

LEMMA FlushTurn ==
  ASSUME TasksFit, NEW j, FlushDelete(j) \/ ReleaseGet(j) \/ ReleaseDelete(j)
  PROVE  \/ FlushDelete(j) /\ MovesOn(j, "release")
         \/ ReleaseGet(j) /\ redis.schedule = j /\ MovesOn(j, "release_write")
         \/ ReleaseGet(j) /\ redis.schedule # j /\ Turns(j, None)
         \/ ReleaseDelete(j) /\ Turns(j, None)
<1>1. j \in Tasks /\ jobs[j] \in Job /\ jobs[j] # None
  BY Living DEF FlushDelete, ReleaseGet, ReleaseDelete, At
<1>2. \A pc \in {"release", "release_write"} :
         Is([jobs[j] EXCEPT !.pc = pc], jobs[j], pc, jobs[j].reply, jobs[j].loaded,
            jobs[j].result)
  BY <1>1, Updated DEF Pcs, Running
<1>3. CASE FlushDelete(j)
  <2>1. Turns(j, [jobs[j] EXCEPT !.pc = "release"])
    BY <1>1, <1>3 DEF FlushDelete, Turns
  <2> QED
    BY <1>2, <1>3, <2>1 DEF MovesOn
<1>4. CASE ReleaseGet(j) /\ redis.schedule = j
  <2>1. Turns(j, [jobs[j] EXCEPT !.pc = "release_write"])
    BY <1>1, <1>4 DEF ReleaseGet, Turns
  <2> QED
    BY <1>2, <1>4, <2>1 DEF MovesOn
<1>5. CASE ReleaseGet(j) /\ redis.schedule # j
  BY <1>1, <1>5 DEF ReleaseGet, Turns
<1>6. CASE ReleaseDelete(j)
  BY <1>1, <1>6 DEF ReleaseDelete, Turns
<1> QED
  BY <1>3, <1>4, <1>5, <1>6

LEMMA FlushErrorTurn ==
  ASSUME TasksFit, NEW j, FlushRedisError(j)
  PROVE  \/ At(j, "get") /\ MovesOn(j, "delete")
         \/ At(j, "delete") /\ MovesOn(j, "release")
         \/ (At(j, "release") \/ At(j, "release_write")) /\ Turns(j, None)
<1>1. PICK pc \in {"get", "delete", "release", "release_write"} :
          /\ At(j, pc)
          /\ jobs' = [jobs EXCEPT ![j] = CASE pc = "get" -> [@ EXCEPT !.pc = "delete"]
                                           [] pc = "delete" -> [@ EXCEPT !.pc = "release"]
                                           [] OTHER -> None]
  BY DEF FlushRedisError
<1>2. j \in Tasks /\ jobs[j] \in Job /\ jobs[j] # None
  BY <1>1, Living DEF At
<1>3. \A next \in {"delete", "release"} :
         Is([jobs[j] EXCEPT !.pc = next], jobs[j], next, jobs[j].reply, jobs[j].loaded,
            jobs[j].result)
  BY <1>2, Updated DEF Pcs, Running
<1>4. CASE pc = "get"
  <2>1. Turns(j, [jobs[j] EXCEPT !.pc = "delete"])
    BY <1>1, <1>2, <1>4 DEF Turns
  <2> QED
    BY <1>1, <1>3, <1>4, <2>1 DEF MovesOn
<1>5. CASE pc = "delete"
  <2>1. Turns(j, [jobs[j] EXCEPT !.pc = "release"])
    BY <1>1, <1>2, <1>5 DEF Turns
  <2> QED
    BY <1>1, <1>3, <1>5, <2>1 DEF MovesOn
<1>6. CASE pc \in {"release", "release_write"}
  BY <1>1, <1>2, <1>6 DEF Turns
<1> QED
  BY <1>4, <1>5, <1>6

\* A task gets a thread, or a place in the queue.
LEMMA ThreadTurn ==
  ASSUME TasksFit, NEW j, NEW next \in Pcs, Live(j), jobs' = [jobs EXCEPT ![j].pc = next]
  PROVE  MovesOn(j, next)
<1>1. j \in Tasks /\ jobs[j] \in Job /\ jobs[j] # None
  BY Living
<1>2. Is([jobs[j] EXCEPT !.pc = next], jobs[j], next, jobs[j].reply, jobs[j].loaded,
         jobs[j].result)
  BY <1>1, Updated
<1>3. Turns(j, [jobs[j] EXCEPT !.pc = next])
  BY <1>1 DEF Turns
<1> QED
  BY <1>2, <1>3 DEF MovesOn

-----------------------------------------------------------------------------
(* Types *)

LEMMA TurnType ==
  ASSUME TypeInv, NEW j, NEW y \in Job \cup {None}, Turns(j, y), y # None => Fits(y),
         jobs[j].pc # "queued", y # None => y.pc # "queued",
         UNCHANGED <<hit, asked, hits, queue>>, Len(rows') = Len(rows), Shared'
  PROVE  TypeInv'
<1>1. UNCHANGED Known
  BY DEF Known
<1>2. HitsFit'
  BY <1>1 DEF TypeInv, HitsFit
<1>3. TasksFit' /\ QueuesFit'
  BY <1>1, TurnFits, TurnQueues DEF TypeInv
<1>4. Counted'
  BY TurnTasks, SameCounted DEF TypeInv
<1> QED
  BY <1>2, <1>3, <1>4 DEF TypeInv

LEMMA SharedKept ==
  ASSUME Shared, UNCHANGED <<deploy, rows, redis, asked, confirmed, hits>>,
         faults' \in 0 .. MaxFaults
  PROVE  Shared'
  BY DEF Shared, Known

\* Rows are numbered by the hits that wrote them.
LEMMA KnownReplies == Shared => Known \subseteq Replies
<1> SUFFICES ASSUME Shared PROVE Known \subseteq Replies
  OBVIOUS
<1>1. Len(rows) \in Nat /\ Len(rows) <= hits /\ hits \in 0 .. MaxHits
  BY DEF Shared
<1> QED
  BY <1>1, DeliveryAssumption DEF Known, Replies

\* A row is stamped.
LEMMA SharedStamped ==
  ASSUME Shared, NEW r \in Known, NEW s \in Status, rows' \in {rows, [rows EXCEPT ![r] = s]},
         UNCHANGED <<deploy, redis, confirmed, hits, faults>>,
         asked' \in {asked, [asked EXCEPT ![r] = @ + 1]}
  PROVE  Shared' /\ Len(rows') = Len(rows)
<1>1. rows' \in Seq(Status) /\ Len(rows') = Len(rows)
  <2>1. rows \in Seq(Status) /\ r \in 1 .. Len(rows)
    BY DEF Shared, Known
  <2> QED
    BY <2>1, ExceptSeq
<1>2. r \in Replies
  BY KnownReplies
<1>3. asked' \in [Replies -> Nat] /\ \A q \in Replies : q # r => asked'[q] = asked[q]
  BY <1>2 DEF Shared
<1>4. UNCHANGED Known
  BY <1>1 DEF Known
<1> QED
  BY <1>1, <1>3, <1>4 DEF Shared

LEMMA FlushKind ==
  ASSUME NEW x \in Job, Fits(x), x.pc \notin {"queued", "load", "send", "stamp"}
  PROVE  x.kind = "flush"
  BY DEF Job, Fits

LEMMA TaskType ==
  ASSUME TypeInv, NEW j,
         Load(j) \/ Send(j) \/ Stamp(j) \/ FlushGet(j) \/ FlushDelete(j) \/ ReleaseGet(j)
            \/ ReleaseDelete(j) \/ DeliverError(j) \/ FlushRedisError(j)
  PROVE  TypeInv'
<1>1. Shared /\ TasksFit
  BY DEF TypeInv
<1>2. j \in Tasks /\ jobs[j] \in Job /\ Fits(jobs[j]) /\ Live(j)
  BY <1>1, Living DEF Load, Send, Stamp, FlushGet, FlushDelete, ReleaseGet, ReleaseDelete,
     DeliverError, FlushRedisError, At
<1>3. CASE Load(j)
  <2>1. Shared'
    BY <1>1, <1>3, SharedKept DEF Load, OnlyJobs, bounds, Shared
  <2>2. PICK y : /\ Turns(j, y)
                 /\ Is(y, jobs[j], "send", jobs[j].reply, rows[jobs[j].reply], jobs[j].result)
    BY <1>1, <1>3, LoadTurn
  <2>3. Fits(y) /\ jobs[j].pc = "load"
    BY <1>2, <1>3, <2>2 DEF Is, Fits, Load, At
  <2> QED
    BY <1>3, <2>1, <2>2, <2>3, TurnType DEF Is, Load, OnlyJobs, bounds
<1>4. CASE Send(j)
  <2>1. PICK y : Turns(j, y) /\
            \/ /\ Is(y, jobs[j], "stamp", jobs[j].reply, jobs[j].loaded, "sent")
               /\ confirmed' = [confirmed EXCEPT ![jobs[j].reply] = @ + 1]
            \/ /\ Is(y, jobs[j], "send", jobs[j].reply, jobs[j].loaded, jobs[j].result)
               /\ UNCHANGED confirmed
            \/ /\ Is(y, jobs[j], "stamp", jobs[j].reply, jobs[j].loaded, jobs[j].result)
               /\ UNCHANGED confirmed
    BY <1>1, <1>4, SendTurn
  <2>2. jobs[j].pc = "send" /\ jobs[j].reply \in Known
    BY <1>2, <1>4 DEF Send, At, Fits
  <2>3. Fits(y) /\ y.pc # "queued" /\ y \in Job
    BY <1>2, <2>1, <2>2 DEF Is, Fits
  <2>4. confirmed' \in [Replies -> Nat]
    <3>1. jobs[j].reply \in Replies /\ confirmed \in [Replies -> Nat]
      BY <1>1, <2>2, KnownReplies DEF Shared
    <3>2. UNCHANGED confirmed \/ confirmed' = [confirmed EXCEPT ![jobs[j].reply] = @ + 1]
      BY <2>1
    <3> QED
      BY <3>1, <3>2
  <2>5. Shared'
    BY <1>1, <1>4, <2>4 DEF Send, Shared, bounds, Known
  <2> QED
    BY <1>4, <2>1, <2>2, <2>3, <2>5, TurnType DEF Send, bounds
<1>5. CASE Stamp(j) \/ DeliverError(j)
  <2>1. PICK y : Turns(j, y) /\ Finishes(j, y)
    BY <1>1, <1>2, <1>5, AfterTurn DEF Stamp, DeliverError
  <2>2. jobs[j].pc \in {"load", "stamp"} /\ jobs[j].reply \in Known /\ jobs[j].result \in Status
    BY <1>2, <1>5 DEF Stamp, DeliverError, At, Fits, Job, Status
  <2>3. y \in Job \cup {None} /\ (y # None => Fits(y) /\ y.pc # "queued")
    BY <2>1 DEF Finishes, Is, Fits
  <2>4. Shared' /\ Len(rows') = Len(rows)
    <3>1. CASE Stamp(j)
      BY <1>1, <2>2, <3>1, SharedStamped DEF Stamp, bounds
    <3>2. CASE DeliverError(j)
      <4>1. faults' \in 0 .. MaxFaults
        BY <1>1, <3>2, DeliveryAssumption DEF DeliverError, Fault, Shared
      <4> QED
        BY <1>1, <3>2, <4>1, SharedKept DEF DeliverError, Fault
    <3> QED
      BY <1>5, <3>1, <3>2
  <2> QED
    BY <1>5, <2>1, <2>2, <2>3, <2>4, TurnType DEF Stamp, DeliverError, Fault, bounds
<1>6. CASE FlushGet(j)
  <2>1. PICK y : Turns(j, y) /\
            \/ /\ redis.pending = None
               /\ Is(y, jobs[j], "delete", None, jobs[j].loaded, jobs[j].result)
            \/ /\ redis.pending # None
               /\ Is(y, jobs[j], "load", redis.pending, jobs[j].loaded, jobs[j].result)
    BY <1>1, <1>6, GetTurn
  <2>2. jobs[j].pc = "get" /\ jobs[j].kind = "flush"
    BY <1>2, <1>6, FlushKind DEF FlushGet, At
  <2>3. y \in Job /\ Fits(y) /\ y.pc # "queued"
    BY <1>1, <1>2, <2>1, <2>2 DEF Is, Fits, Shared
  <2>4. Shared'
    BY <1>1, <1>6, SharedKept DEF FlushGet, OnlyJobs, bounds, Shared
  <2> QED
    BY <1>6, <2>1, <2>2, <2>3, <2>4, TurnType DEF FlushGet, OnlyJobs, bounds
<1>7. CASE FlushDelete(j) \/ ReleaseGet(j) \/ ReleaseDelete(j) \/ FlushRedisError(j)
  <2>1. jobs[j].pc \in {"get", "delete", "release", "release_write"} /\ jobs[j].kind = "flush"
    BY <1>2, <1>7, FlushKind DEF FlushDelete, ReleaseGet, ReleaseDelete, FlushRedisError, At
  <2>2. \/ Turns(j, None)
        \/ MovesOn(j, "delete") \/ MovesOn(j, "release") \/ MovesOn(j, "release_write")
    BY <1>1, <1>7, FlushTurn, FlushErrorTurn
  <2>3. PICK y \in Job \cup {None} :
           Turns(j, y) /\ (y # None => Fits(y) /\ y.pc # "queued")
    <3>1. ASSUME NEW next \in {"delete", "release", "release_write"}, NEW y, Turns(j, y),
                 Is(y, jobs[j], next, jobs[j].reply, jobs[j].loaded, jobs[j].result)
          PROVE  y \in Job /\ Turns(j, y) /\ Fits(y) /\ y.pc # "queued"
      BY <2>1, <3>1 DEF Is, Fits
    <3> QED
      BY <2>2, <3>1 DEF MovesOn
  <2>4. Shared' /\ UNCHANGED <<rows, hit, asked, hits, queue>>
    <3>1. CASE FlushDelete(j) \/ ReleaseDelete(j)
      BY <1>1, <3>1 DEF FlushDelete, ReleaseDelete, Shared, Known, bounds
    <3>2. CASE ReleaseGet(j)
      BY <1>1, <3>2, SharedKept DEF ReleaseGet, OnlyJobs, bounds, Shared
    <3>3. CASE FlushRedisError(j)
      <4>1. faults' \in 0 .. MaxFaults
        BY <1>1, <3>3, DeliveryAssumption DEF FlushRedisError, Fault, Shared
      <4> QED
        BY <1>1, <3>3, <4>1, SharedKept DEF FlushRedisError, Fault
    <3> QED
      BY <1>7, <3>1, <3>2, <3>3
  <2> QED
    BY <2>1, <2>3, <2>4, TurnType
<1> QED
  BY <1>3, <1>4, <1>5, <1>6, <1>7
-----------------------------------------------------------------------------
(* Counting *)

In(x, S) == IF x \in S THEN 1 ELSE 0

\* Two sets that differ in one element at most.
LEMMA Recount ==
  ASSUME NEW S, NEW T, NEW x, IsFiniteSet(S), T \ {x} = S \ {x}
  PROVE  /\ IsFiniteSet(T) /\ Cardinality(S) \in Nat /\ Cardinality(T) \in Nat
         /\ Cardinality(T) + In(x, S) = Cardinality(S) + In(x, T)
<1>1. IsFiniteSet(S \ {x}) /\ Cardinality(S \ {x}) = Cardinality(S) - In(x, S)
  BY FS_RemoveElement, FS_CardinalityType DEF In
<1>2. IsFiniteSet((S \ {x}) \cup {x})
      /\ Cardinality((S \ {x}) \cup {x}) = Cardinality(S \ {x}) + 1
  BY <1>1, FS_AddElement
<1>3. T = S \ {x} \/ T = (S \ {x}) \cup {x}
  OBVIOUS
<1>4. x \in T <=> T = (S \ {x}) \cup {x}
  BY <1>3
<1>5. IsFiniteSet(T) /\ Cardinality(T) = Cardinality(S \ {x}) + In(x, T)
  <2>1. CASE x \in T
    BY <1>2, <1>4, <2>1 DEF In
  <2>2. CASE x \notin T
    <3>1. T = S \ {x}
      BY <1>3, <2>2
    <3>2. Cardinality(S \ {x}) \in Nat
      BY <1>1, FS_CardinalityType
    <3> QED
      BY <1>1, <2>2, <3>1, <3>2 DEF In
  <2> QED
    BY <2>1, <2>2
<1>6. Cardinality(S) \in Nat /\ Cardinality(T) \in Nat
  BY <1>5, FS_CardinalityType
<1> QED
  BY <1>1, <1>5, <1>6 DEF In

\* The hit of one process changes.
HitTurns(p, h) == hit' = [hit EXCEPT ![p] = h]

LEMMA HitSet ==
  ASSUME HitsFit, NEW p \in Procs, NEW h \in Hit \cup {None}, HitTurns(p, h)
  PROVE  /\ hit' \in [Procs -> Hit \cup {None}] /\ hit'[p] = h
         /\ \A q \in Procs : q # p => hit'[q] = hit[q]
  BY DEF HitsFit, HitTurns

Asks(h, r) == h # None /\ h.pc = "commit" /\ h.reply = r

LEMMA HitCount ==
  ASSUME HitsFit, Counted, NEW p \in Procs, NEW h \in Hit \cup {None}, HitTurns(p, h)
  PROVE  /\ IsFiniteSet(Active') /\ Cardinality(Active) \in Nat /\ Cardinality(Active') \in Nat
         /\ Cardinality(Active') + (IF hit[p] # None THEN 1 ELSE 0)
              = Cardinality(Active) + (IF h # None THEN 1 ELSE 0)
         /\ \A r \in Replies :
              /\ Cardinality(Asking(r)) \in Nat /\ Cardinality(Asking(r)') \in Nat
              /\ Cardinality(Asking(r)') + (IF Asks(hit[p], r) THEN 1 ELSE 0)
                   = Cardinality(Asking(r)) + (IF Asks(h, r) THEN 1 ELSE 0)
<1>1. IsFiniteSet(Active)
  BY DEF Counted
<1>2. Active' \ {p} = Active \ {p} /\ (p \in Active <=> hit[p] # None)
      /\ (p \in Active' <=> h # None)
  BY HitSet DEF Active
<1>3. /\ IsFiniteSet(Active') /\ Cardinality(Active) \in Nat /\ Cardinality(Active') \in Nat
      /\ Cardinality(Active') + In(p, Active) = Cardinality(Active) + In(p, Active')
  BY <1>1, <1>2, Recount
<1>4. ASSUME NEW r \in Replies
      PROVE  /\ Cardinality(Asking(r)) \in Nat /\ Cardinality(Asking(r)') \in Nat
             /\ Cardinality(Asking(r)') + (IF Asks(hit[p], r) THEN 1 ELSE 0)
                  = Cardinality(Asking(r)) + (IF Asks(h, r) THEN 1 ELSE 0)
  <2>1. IsFiniteSet(Asking(r))
    BY <1>1, FS_Subset DEF Asking, Active
  <2>2. Asking(r)' \ {p} = Asking(r) \ {p} /\ (p \in Asking(r) <=> Asks(hit[p], r))
        /\ (p \in Asking(r)' <=> Asks(h, r))
    BY HitSet DEF Asking, Asks
  <2>3. /\ Cardinality(Asking(r)) \in Nat /\ Cardinality(Asking(r)') \in Nat
        /\ Cardinality(Asking(r)') + In(p, Asking(r)) = Cardinality(Asking(r)) + In(p, Asking(r)')
    BY <2>1, <2>2, Recount
  <2> QED
    BY <2>2, <2>3 DEF In
<1> QED
  BY <1>2, <1>3, <1>4 DEF In

-----------------------------------------------------------------------------
(* Queues *)

LEMMA QueueSame ==
  ASSUME QueuesFit, UNCHANGED queue, \A p \in Procs : Waiting(p)' = Waiting(p)
  PROVE  QueuesFit'
  BY SMTT(30) DEF QueuesFit, QueueFits

LEMMA QueueGrows ==
  ASSUME QueuesFit, NEW p \in Procs, NEW j \in Nat, j \notin Waiting(p),
         Waiting(p)' = Waiting(p) \cup {j},
         \A q \in Procs : q # p => Waiting(q)' = Waiting(q),
         queue' = [queue EXCEPT ![p] = Append(@, j)]
  PROVE  QueuesFit'
<1> DEFINE s == queue[p]
           t == Append(s, j)
<1>1. s \in Seq(Nat) /\ Len(s) \in Nat
  BY DEF QueuesFit, QueueFits
<1>2. t \in Seq(Nat) /\ Len(t) = Len(s) + 1 /\ t[Len(s) + 1] = j
      /\ \A n \in 1 .. Len(s) : t[n] = s[n]
  BY <1>1, AppendProperties
<1>3. queue'[p] = t /\ DOMAIN queue' = Procs /\ \A q \in Procs : q # p => queue'[q] = queue[q]
  BY DEF QueuesFit
<1>4. \A n \in 1 .. Len(t) : n \in 1 .. Len(s) \/ n = Len(s) + 1
  BY <1>1, <1>2
<1>5. /\ \A n \in 1 .. Len(s) : s[n] \in Waiting(p)
      /\ \A i \in Waiting(p) : \E n \in 1 .. Len(s) : s[n] = i
      /\ \A m, n \in 1 .. Len(s) : s[m] = s[n] => m = n
  BY DEF QueuesFit, QueueFits
<1> HIDE DEF s, t
<1>6. \A n \in 1 .. Len(t) : t[n] \in Waiting(p)'
  BY <1>2, <1>4, <1>5
<1>7. \A i \in Waiting(p)' : \E n \in 1 .. Len(t) : t[n] = i
  BY <1>1, <1>2, <1>5
<1>8. \A m, n \in 1 .. Len(t) : t[m] = t[n] => m = n
  BY <1>2, <1>4, <1>5
<1>9. QueueFits(p)'
  <2>1. queue'[p] \in Seq(Nat)
    BY <1>2, <1>3
  <2>2. \A n \in 1 .. Len(queue'[p]) : queue'[p][n] \in Waiting(p)'
    BY <1>3, <1>6
  <2>3. \A i \in Waiting(p)' : \E n \in 1 .. Len(queue'[p]) : queue'[p][n] = i
    BY <1>3, <1>7
  <2>4. \A m, n \in 1 .. Len(queue'[p]) : queue'[p][m] = queue'[p][n] => m = n
    BY <1>3, <1>8
  <2> QED
    BY <2>1, <2>2, <2>3, <2>4 DEF QueueFits
<1>10. ASSUME NEW q \in Procs, q # p PROVE QueueFits(q)'
  BY <1>3, <1>10 DEF QueuesFit, QueueFits
<1> QED
  BY <1>3, <1>9, <1>10 DEF QueuesFit

LEMMA QueueShrinks ==
  ASSUME QueuesFit, NEW p \in Procs, queue[p] # <<>>,
         Waiting(p)' = Waiting(p) \ {Head(queue[p])},
         \A q \in Procs : q # p => Waiting(q)' = Waiting(q),
         queue' = [queue EXCEPT ![p] = Tail(@)]
  PROVE  QueuesFit'
<1> DEFINE s == queue[p]
           t == Tail(s)
<1>1. s \in Seq(Nat) /\ Len(s) \in Nat /\ s # <<>>
  BY DEF QueuesFit, QueueFits
<1>2. t \in Seq(Nat) /\ Len(t) = Len(s) - 1 /\ Head(s) = s[1]
      /\ \A n \in 1 .. Len(t) : t[n] = s[n + 1]
  BY <1>1, HeadTailProperties
<1>3. queue'[p] = t /\ DOMAIN queue' = Procs /\ \A q \in Procs : q # p => queue'[q] = queue[q]
  BY DEF QueuesFit
<1>4. Len(s) >= 1 /\ \A n \in 1 .. Len(t) : n + 1 \in 1 .. Len(s) /\ n + 1 # 1
  BY <1>1, <1>2
<1>5. /\ \A n \in 1 .. Len(s) : s[n] \in Waiting(p)
      /\ \A i \in Waiting(p) : \E n \in 1 .. Len(s) : s[n] = i
      /\ \A m, n \in 1 .. Len(s) : s[m] = s[n] => m = n
  BY DEF QueuesFit, QueueFits
<1>6. Waiting(p)' = Waiting(p) \ {s[1]} /\ 1 \in 1 .. Len(s)
  BY <1>1, <1>2, <1>4
<1> HIDE DEF s, t
<1>7. \A n \in 1 .. Len(t) : t[n] \in Waiting(p)'
  BY <1>2, <1>4, <1>5, <1>6
<1>8. \A i \in Waiting(p)' : \E n \in 1 .. Len(t) : t[n] = i
  <2> SUFFICES ASSUME NEW i \in Waiting(p)' PROVE \E n \in 1 .. Len(t) : t[n] = i
    OBVIOUS
  <2>1. PICK n \in 1 .. Len(s) : s[n] = i
    BY <1>5, <1>6
  <2>2. n # 1 /\ n - 1 \in 1 .. Len(t) /\ (n - 1) + 1 = n
    BY <1>1, <1>2, <1>6, <2>1
  <2> QED
    BY <1>2, <2>1, <2>2
<1>9. \A m, n \in 1 .. Len(t) : t[m] = t[n] => m = n
  <2> SUFFICES ASSUME NEW m \in 1 .. Len(t), NEW n \in 1 .. Len(t), t[m] = t[n] PROVE m = n
    OBVIOUS
  <2>1. s[m + 1] = s[n + 1] /\ m + 1 \in 1 .. Len(s) /\ n + 1 \in 1 .. Len(s)
    BY <1>2, <1>4
  <2>2. m + 1 = n + 1
    BY <1>5, <2>1
  <2> QED
    BY <2>2
<1>10. QueueFits(p)'
  <2>1. queue'[p] \in Seq(Nat)
    BY <1>2, <1>3
  <2>0. queue'[p] = t
    BY <1>3
  <2>2. \A n \in 1 .. Len(queue'[p]) : queue'[p][n] \in Waiting(p)'
    BY <2>0, <1>7
  <2>3. \A i \in Waiting(p)' : \E n \in 1 .. Len(queue'[p]) : queue'[p][n] = i
    BY <2>0, <1>8
  <2>4. \A m, n \in 1 .. Len(queue'[p]) : queue'[p][m] = queue'[p][n] => m = n
    <3> SUFFICES ASSUME NEW m \in 1 .. Len(queue'[p]), NEW n \in 1 .. Len(queue'[p]),
                        queue'[p][m] = queue'[p][n]
                 PROVE  m = n
      OBVIOUS
    <3>1. m \in 1 .. Len(t) /\ n \in 1 .. Len(t) /\ t[m] = t[n]
      BY <2>0
    <3> QED
      BY <3>1, <1>9
  <2> QED
    BY <2>1, <2>2, <2>3, <2>4 DEF QueueFits
<1>11. ASSUME NEW q \in Procs, q # p PROVE QueueFits(q)'
  BY <1>3, <1>11 DEF QueuesFit, QueueFits
<1> QED
  BY <1>3, <1>10, <1>11 DEF QueuesFit
-----------------------------------------------------------------------------
(* Types, continued: threads, hits and failures *)

LEMMA FirstFits ==
  ASSUME TasksFit, NEW j, Live(j), jobs[j].pc \in {"timer", "queued"}
  PROVE  /\ First(j) \in {"get", "load"} /\ First(j) \in Pcs
         /\ jobs[j].kind = "flush" => First(j) = "get"
         /\ jobs[j].kind = "deliver" => First(j) = "load" /\ jobs[j].pc = "queued"
         /\ jobs[j].kind \in {"deliver", "flush"}
         /\ \A y : \A next \in {First(j), "queued"} :
               Is(y, jobs[j], next, jobs[j].reply, jobs[j].loaded, jobs[j].result) => Fits(y)
<1>1. jobs[j] \in Job /\ Fits(jobs[j]) /\ jobs[j].kind \in {"deliver", "flush"}
  BY Living DEF Job
<1>2. jobs[j].kind = "deliver" => jobs[j].pc = "queued"
  BY <1>1 DEF Fits
<1>3. ASSUME NEW y, NEW next \in {First(j), "queued"},
             Is(y, jobs[j], next, jobs[j].reply, jobs[j].loaded, jobs[j].result)
      PROVE  Fits(y)
  BY <1>1, <1>3 DEF Is, Fits, First
<1> QED
  BY <1>1, <1>2, <1>3 DEF First, Pcs, Running

LEMMA ThreadType ==
  ASSUME TypeInv,
         (\E j \in DOMAIN jobs : FireTimer(j)) \/ (\E p \in Procs : StartJob(p))
  PROVE  TypeInv'
<1>1. Shared /\ TasksFit /\ QueuesFit /\ HitsFit /\ Counted
  BY DEF TypeInv
<1>2. UNCHANGED <<rows, hit, asked, hits>> /\ Shared'
  <2>1. UNCHANGED <<deploy, rows, hit, redis, asked, confirmed, hits, faults>>
    BY DEF FireTimer, StartJob, bounds
  <2> QED
    BY <1>1, <2>1, SharedKept DEF Shared
<1>3. UNCHANGED Known /\ HitsFit'
  BY <1>1, <1>2 DEF HitsFit, Known
<1>4. ASSUME NEW j, NEW next, MovesOn(j, next), Live(j),
             jobs[j].pc \in {"timer", "queued"}, next \in {First(j), "queued"}
      PROVE  /\ TasksFit' /\ Counted' /\ Tasks' = Tasks
             /\ jobs'[j] # None /\ jobs'[j].proc = jobs[j].proc /\ jobs'[j].pc = next
             /\ \A i \in Tasks : i # j => jobs'[i] = jobs[i]
  <2>1. PICK y : Turns(j, y) /\ Is(y, jobs[j], next, jobs[j].reply, jobs[j].loaded, jobs[j].result)
    BY <1>4 DEF MovesOn
  <2>2. y \in Job /\ Fits(y)
    BY <1>1, <1>4, <2>1, FirstFits DEF Is
  <2>3. TasksFit' /\ Counted'
    BY <1>1, <1>2, <1>3, <2>1, <2>2, TurnFits, TurnTasks, SameCounted
  <2> QED
    BY <1>1, <2>1, <2>2, <2>3, TurnTasks, NoneAssumption DEF Is
<1>5. ASSUME NEW j \in DOMAIN jobs, FireTimer(j) PROVE TypeInv'
  <2>1. Live(j) /\ jobs[j].pc = "timer" /\ j \in Tasks /\ jobs[j] \in Job
    BY <1>1, <1>5, Living DEF FireTimer, At
  <2>2. jobs[j].proc \in Procs /\ j \notin Waiting(jobs[j].proc) /\ j \in Nat
    BY <1>1, <2>1 DEF Job, Waiting, TasksFit, Tasks
  <2>3. CASE deploy.threaded
    <3>1. MovesOn(j, "queued")
      BY <1>1, <1>5, <2>1, <2>3, ThreadTurn DEF FireTimer, Pcs
    <3>2. /\ TasksFit' /\ Counted' /\ Tasks' = Tasks
          /\ jobs'[j] # None /\ jobs'[j].proc = jobs[j].proc /\ jobs'[j].pc = "queued"
          /\ \A i \in Tasks : i # j => jobs'[i] = jobs[i]
      BY <1>4, <2>1, <3>1
    <3>3. Waiting(jobs[j].proc)' = Waiting(jobs[j].proc) \cup {j}
      BY <2>1, <3>2 DEF Waiting
    <3>4. \A q \in Procs : q # jobs[j].proc => Waiting(q)' = Waiting(q)
      BY <2>1, <3>2 DEF Waiting
    <3>5. QueuesFit'
      <4>1. PICK p \in Procs : p = jobs[j].proc
        BY <2>2
      <4>2. queue' = [queue EXCEPT ![p] = Append(@, j)]
        BY <1>5, <2>3, <4>1 DEF FireTimer
      <4>3. Waiting(p)' = Waiting(p) \cup {j}
        BY <2>1, <3>2, <4>1 DEF Waiting
      <4> QED
        BY <1>1, <2>2, <3>4, <4>1, <4>2, <4>3, QueueGrows
    <3> QED
      BY <1>2, <1>3, <3>2, <3>5 DEF TypeInv
  <2>4. CASE ~deploy.threaded
    <3>1. MovesOn(j, First(j)) /\ UNCHANGED queue
      BY <1>1, <1>5, <2>1, <2>4, ThreadTurn, FirstFits DEF FireTimer
    <3>2. /\ TasksFit' /\ Counted' /\ Tasks' = Tasks /\ jobs'[j].pc \in {"get", "load"}
          /\ \A i \in Tasks : i # j => jobs'[i] = jobs[i]
      BY <1>1, <1>4, <2>1, <3>1, FirstFits
    <3>3. \A q \in Procs : Waiting(q)' = Waiting(q)
      BY <2>1, <3>2 DEF Waiting
    <3> QED
      BY <1>1, <1>2, <1>3, <3>1, <3>2, <3>3, QueueSame DEF TypeInv
  <2> QED
    BY <2>3, <2>4
<1>6. ASSUME NEW p \in Procs, StartJob(p) PROVE TypeInv'
  <2>1. PICK j : j = Head(queue[p])
    OBVIOUS
  <2>2. j \in Waiting(p)
    <3>1. QueueFits(p) /\ queue[p] # <<>>
      BY <1>1, <1>6 DEF QueuesFit, StartJob
    <3>2. j = queue[p][1] /\ 1 \in 1 .. Len(queue[p])
      BY <2>1, <3>1 DEF QueueFits
    <3> QED
      BY <3>1, <3>2 DEF QueueFits
  <2>3. j \in Tasks /\ Live(j) /\ jobs[j].pc = "queued" /\ jobs[j].proc = p
    BY <1>1, <2>2 DEF Waiting, Live, TasksFit, Tasks
  <2>4. MovesOn(j, First(j)) /\ queue' = [queue EXCEPT ![p] = Tail(@)]
    BY <1>1, <1>6, <2>1, <2>3, ThreadTurn, FirstFits DEF StartJob
  <2>5. /\ TasksFit' /\ Counted' /\ Tasks' = Tasks /\ jobs'[j].pc \in {"get", "load"}
        /\ \A i \in Tasks : i # j => jobs'[i] = jobs[i]
    BY <1>1, <1>4, <2>3, <2>4, FirstFits
  <2>6. Waiting(p)' = Waiting(p) \ {j} /\ \A q \in Procs : q # p => Waiting(q)' = Waiting(q)
    BY <2>3, <2>5 DEF Waiting
  <2>7. QueuesFit'
    BY <1>1, <1>6, <2>1, <2>4, <2>6, QueueShrinks DEF StartJob
  <2> QED
    BY <1>2, <1>3, <2>5, <2>7 DEF TypeInv
<1> QED
  BY <1>5, <1>6

\* The value that a hit's step leaves in its process.
LEMMA HitStepType ==
  ASSUME TypeInv, NEW p \in Procs, NEW h \in Hit \cup {None}, HitTurns(p, h),
         h # None => h.reply \in Known', Known \subseteq Known'
  PROVE  HitsFit'
  BY HitSet DEF TypeInv, HitsFit

LEMMA TasksKept ==
  ASSUME TasksFit, UNCHANGED jobs, Known \subseteq Known'
  PROVE  TasksFit' /\ \A p \in Procs : Waiting(p)' = Waiting(p)
<1>1. \A j \in Tasks : jobs[j] # None => Fits(jobs[j])'
  BY DEF TasksFit, Fits
<1> QED
  BY <1>1 DEF TasksFit, Tasks, Waiting

LEMMA BeginType ==
  ASSUME TypeInv, NEW p \in Procs, Reply(p) \/ ReplayRead(p)
  PROVE  TypeInv'
<1>1. Shared /\ TasksFit /\ QueuesFit /\ HitsFit /\ Counted
  BY DEF TypeInv
<1>2. /\ hit[p] = None /\ hits' = hits + 1 /\ hits' \in 1 .. MaxHits
      /\ hits \in Nat /\ Len(rows) \in Nat /\ Len(rows) <= hits
      /\ UNCHANGED <<deploy, queue, redis, confirmed, jobs, faults>>
  <2>1. hits \in 0 .. MaxHits /\ Len(rows) \in Nat
    BY <1>1 DEF Shared
  <2> QED
    BY <1>1, <2>1, DeliveryAssumption DEF Reply, ReplayRead, BeginHit, Shared
<1>3. CASE Reply(p)
  <2>r. PICK r : r = Len(rows) + 1
    OBVIOUS
  <2> DEFINE h == [reply |-> r, loaded |-> "processing", pc |-> HandOver]
  <2>1. rows' \in Seq(Status) /\ Len(rows') = r
    <3>1. rows \in Seq(Status) /\ "processing" \in Status
      BY <1>1 DEF Shared, Status
    <3> QED
      BY <1>3, <2>r, <3>1, AppendProperties DEF Reply
  <2>2. r \in Replies /\ r \notin Known /\ r \in Known' /\ Known \subseteq Known'
    BY <1>2, <2>r, <2>1, DeliveryAssumption DEF Replies, Known
  <2>3. h \in Hit /\ h # None /\ h.pc # "commit"
    <3>1. h \in Hit
      BY <2>2 DEF Hit, HandOver, Status
    <3> QED
      BY <3>1, NoneAssumption DEF HandOver
  <2>4. HitTurns(p, h)
    BY <1>3, <2>1 DEF Reply, HitTurns
  <2>5. asked' = [asked EXCEPT ![r] = 1]
    BY <1>3, <2>1 DEF Reply
  <2>6. asked' \in [Replies -> Nat] /\ asked'[r] = 1 /\ asked[r] = 0
        /\ \A q \in Replies : q # r => asked'[q] = asked[q]
    BY <1>1, <2>2, <2>5 DEF Shared
  <2>7. Shared'
    <3>1. \A q \in Replies : q \notin Known' => asked'[q] = 0
      BY <1>1, <2>2, <2>6 DEF Shared
    <3>2. rows' \in Seq(Status) /\ Len(rows') <= hits'
      BY <1>2, <2>r, <2>1
    <3>3. redis' = redis /\ (redis.pending # None => redis.pending \in Known')
      BY <1>1, <1>2, <2>2 DEF Shared
    <3>4. /\ deploy' \in Deployments /\ confirmed' \in [Replies -> Nat]
          /\ hits' \in 0 .. MaxHits /\ faults' \in 0 .. MaxFaults
      BY <1>1, <1>2 DEF Shared
    <3> QED
      BY <1>1, <2>6, <3>1, <3>2, <3>3, <3>4 DEF Shared
  <2>8. HitsFit' /\ TasksFit' /\ QueuesFit'
    <3>1. h.reply \in Known'
      BY <2>2
    <3> HIDE DEF h
    <3> QED
      BY <1>1, <1>2, <2>2, <2>3, <2>4, <3>1, HitStepType, TasksKept, QueueSame
  <2>9. Counted'
    <3> HIDE DEF h
    <3>1. /\ IsFiniteSet(Active') /\ Cardinality(Active) \in Nat
          /\ Cardinality(Active') = Cardinality(Active) + 1
      BY <1>1, <1>2, <2>3, <2>4, HitCount
    <3>2. \A q \in Replies : Cardinality(Asking(q)') = Cardinality(Asking(q))
                             /\ Cardinality(Asking(q)) \in Nat
      BY <1>1, <1>2, <2>3, <2>4, HitCount DEF Asks
    <3>3. Asking(r) = {}
      BY <1>1, <2>2 DEF HitsFit, Asking
    <3>4. \A q \in Replies : asked'[q] + Cardinality(Asking(q)') <= hits'
      <4>1. Cardinality(Asking(r)) = 0 /\ hits' >= 1
        BY <1>2, <3>3, FS_EmptySet
      <4>2. \A q \in Replies : asked[q] \in Nat /\ asked[q] + Cardinality(Asking(q)) <= hits
        BY <1>1 DEF Counted, Shared
      <4> QED
        BY <1>2, <2>2, <2>6, <3>2, <4>1, <4>2
    <3>5. Len(jobs') + Cardinality(Active') <= hits'
      <4>1. Len(jobs) \in Nat
        BY <1>1 DEF TasksFit
      <4> QED
        BY <1>1, <1>2, <3>1, <4>1 DEF Counted
    <3> QED
      BY <3>1, <3>4, <3>5 DEF Counted
  <2> QED
    BY <2>7, <2>8, <2>9 DEF TypeInv
<1>4. CASE ReplayRead(p)
  <2> DEFINE h == [reply |-> Len(rows), loaded |-> rows[Len(rows)], pc |-> "commit"]
  <2>1. Len(rows) \in Known /\ rows \in Seq(Status) /\ UNCHANGED <<rows, asked>>
    BY <1>1, <1>2, <1>4 DEF ReplayRead, Shared, Known
  <2>2. h \in Hit /\ h # None
    <3>1. h \in Hit
      BY <1>1, <2>1, KnownReplies DEF Hit, Known
    <3> QED
      BY <3>1, NoneAssumption
  <2>3. HitTurns(p, h) /\ h.reply \in Known
    BY <1>4, <2>1 DEF ReplayRead, HitTurns
  <2>4. UNCHANGED Known
    BY <2>1 DEF Known
  <2>5. Shared'
    BY <1>1, <1>2, <2>1, <2>4 DEF Shared
  <2> HIDE DEF h
  <2>6. HitsFit' /\ TasksFit' /\ QueuesFit'
    BY <1>1, <1>2, <2>2, <2>3, <2>4, HitStepType, TasksKept, QueueSame
  <2>7. Counted'
    <3>1. /\ IsFiniteSet(Active') /\ Cardinality(Active) \in Nat
          /\ Cardinality(Active') = Cardinality(Active) + 1
      BY <1>1, <1>2, <2>2, <2>3, HitCount
    <3>2. \A q \in Replies : /\ Cardinality(Asking(q)) \in Nat /\ Cardinality(Asking(q)') \in Nat
                             /\ Cardinality(Asking(q)') <= Cardinality(Asking(q)) + 1
      BY <1>1, <1>2, <2>2, <2>3, HitCount DEF Asks
    <3>3. \A q \in Replies : asked[q] \in Nat /\ asked[q] + Cardinality(Asking(q)) <= hits
      BY <1>1 DEF Counted, Shared
    <3>4. \A q \in Replies : asked'[q] + Cardinality(Asking(q)') <= hits'
      BY <1>2, <2>1, <3>2, <3>3
    <3>5. Len(jobs') + Cardinality(Active') <= hits'
      <4>1. Len(jobs) \in Nat
        BY <1>1 DEF TasksFit
      <4> QED
        BY <1>1, <1>2, <3>1, <4>1 DEF Counted
    <3> QED
      BY <3>1, <3>4, <3>5 DEF Counted
  <2> QED
    BY <2>5, <2>6, <2>7 DEF TypeInv
<1> QED
  BY <1>3, <1>4

\* A hit goes on with its reply.
LEMMA HitGoesOn ==
  ASSUME HitsFit, NEW p \in Procs, hit[p] # None,
         NEW next \in {"enqueue", "pending", "schedule"},
         hit' = [hit EXCEPT ![p].pc = next]
  PROVE  \E h \in Hit : /\ HitTurns(p, h) /\ h # None /\ h.pc = next
                        /\ h.reply = hit[p].reply /\ h.loaded = hit[p].loaded
                        /\ h.reply \in Known
<1>1. hit[p] \in Hit /\ hit[p].reply \in Known
  BY DEF HitsFit
<1>2. PICK h : h = [hit[p] EXCEPT !.pc = next]
  OBVIOUS
<1>3. h \in Hit /\ h.pc = next /\ h.reply = hit[p].reply /\ h.loaded = hit[p].loaded
  BY <1>1, <1>2 DEF Hit
<1>4. hit' = [hit EXCEPT ![p] = h]
  BY <1>2
<1> QED
  BY <1>1, <1>3, <1>4, NoneAssumption DEF HitTurns

\* A step of a hit that creates no task and asks for no reply.
LEMMA HitMovesType ==
  ASSUME TypeInv, NEW p \in Procs, NEW h \in Hit \cup {None}, HitTurns(p, h), Shared',
         hit[p] # None, hit[p].pc # "commit",
         h # None => h.pc # "commit" /\ h.reply \in Known,
         UNCHANGED <<rows, jobs, queue, asked, hits>>
  PROVE  TypeInv'
<1>1. Shared /\ TasksFit /\ QueuesFit /\ HitsFit /\ Counted
  BY DEF TypeInv
<1>2. UNCHANGED Known
  BY DEF Known
<1>3. HitsFit' /\ TasksFit' /\ QueuesFit'
  BY <1>1, <1>2, HitStepType, TasksKept, QueueSame
<1>4. Counted'
  <2>1. /\ IsFiniteSet(Active') /\ Cardinality(Active) \in Nat /\ Cardinality(Active') \in Nat
        /\ Cardinality(Active') <= Cardinality(Active)
    BY <1>1, HitCount
  <2>2. \A q \in Replies : Cardinality(Asking(q)') = Cardinality(Asking(q))
    BY <1>1, HitCount DEF Asks
  <2>3. Len(jobs) \in Nat /\ hits \in Nat
    BY <1>1, DeliveryAssumption DEF TasksFit, Shared
  <2> QED
    BY <1>1, <2>1, <2>2, <2>3 DEF Counted
<1> QED
  BY <1>3, <1>4 DEF TypeInv

LEMMA ReplayType ==
  ASSUME TypeInv, NEW p \in Procs, ReplayCommit(p)
  PROVE  TypeInv'
<1>1. Shared /\ TasksFit /\ QueuesFit /\ HitsFit /\ Counted
  BY DEF TypeInv
<1>2. hit[p] # None /\ hit[p].pc = "commit" /\ hit[p].reply \in Known
  BY <1>1 DEF ReplayCommit, HitsFit
<1>3. PICK r \in Known : r = hit[p].reply
  BY <1>2
<1>4. HandOver \in {"enqueue", "pending", "schedule"} /\ HandOver # "commit"
  BY DEF HandOver
<1>5. PICK h \in Hit : HitTurns(p, h) /\ h # None /\ h.pc = HandOver /\ h.reply \in Known
  BY <1>1, <1>2, <1>4, HitGoesOn DEF ReplayCommit
<1>6. Shared' /\ Len(rows') = Len(rows)
  <2>1. rows' \in {rows, [rows EXCEPT ![r] = "processing"]} /\ "processing" \in Status
    BY <1>3 DEF ReplayCommit, Status
  <2>2. asked' = [asked EXCEPT ![r] = @ + 1]
    BY <1>3 DEF ReplayCommit
  <2>3. UNCHANGED <<deploy, redis, confirmed, hits, faults>>
    BY DEF ReplayCommit, bounds
  <2> QED
    BY <1>1, <2>1, <2>2, <2>3, SharedStamped
<1>7. UNCHANGED <<Known, jobs, queue, hits>>
  BY <1>6 DEF Known, ReplayCommit, bounds
<1>8. HitsFit' /\ TasksFit' /\ QueuesFit'
  BY <1>1, <1>5, <1>7, HitStepType, TasksKept, QueueSame
<1>9. Counted'
  <2>1. /\ IsFiniteSet(Active') /\ Cardinality(Active) \in Nat /\ Cardinality(Active') \in Nat
        /\ Cardinality(Active') = Cardinality(Active)
    BY <1>1, <1>2, <1>5, HitCount
  <2>2. r \in Replies
    BY <1>1, KnownReplies
  <2>3. \A q \in Replies : asked[q] \in Nat /\ asked'[q] = asked[q] + (IF q = r THEN 1 ELSE 0)
    BY <1>1, <1>3, <2>2 DEF ReplayCommit, Shared
  <2>4. \A q \in Replies :
           /\ Cardinality(Asking(q)) \in Nat /\ Cardinality(Asking(q)') \in Nat
           /\ Cardinality(Asking(q)') + (IF q = r THEN 1 ELSE 0) = Cardinality(Asking(q))
    BY <1>1, <1>2, <1>3, <1>4, <1>5, HitCount DEF Asks
  <2>5. \A q \in Replies : asked[q] + Cardinality(Asking(q)) <= hits
    BY <1>1 DEF Counted
  <2>6. \A q \in Replies : asked'[q] + Cardinality(Asking(q)') <= hits'
    BY <1>7, <2>3, <2>4, <2>5
  <2> QED
    BY <1>1, <1>7, <2>1, <2>6 DEF Counted
<1> QED
  BY <1>6, <1>8, <1>9 DEF TypeInv

\* A hit hands over to a task of its own: the tasks and the hits in progress are no
\* more than the hits there were.
LEMMA HitEnds ==
  ASSUME TypeInv, NEW p \in Procs, HitTurns(p, None), hit[p] # None, hit[p].pc # "commit",
         UNCHANGED <<asked, hits>>, Len(jobs') \in {Len(jobs), Len(jobs) + 1}
  PROVE  Counted' /\ Len(jobs) + 1 <= hits
<1>1. HitsFit /\ Counted /\ Len(jobs) \in Nat /\ hits \in Nat
  BY DeliveryAssumption DEF TypeInv, TasksFit, Shared
<1>2. /\ IsFiniteSet(Active') /\ Cardinality(Active) \in Nat /\ Cardinality(Active') \in Nat
      /\ Cardinality(Active') + 1 = Cardinality(Active)
  BY <1>1, HitCount
<1>3. \A q \in Replies : Cardinality(Asking(q)') = Cardinality(Asking(q))
  BY <1>1, HitCount DEF Asks
<1> QED
  BY <1>1, <1>2, <1>3 DEF Counted

LEMMA NewTask ==
  ASSUME Shared, NEW kind \in {"deliver", "flush"}, NEW p \in Procs,
         NEW r \in Replies \cup {None}, NEW pc \in Pcs
  PROVE  /\ NewJob(kind, p, r, pc) \in Job /\ NewJob(kind, p, r, pc) # None
         /\ NewJob(kind, p, r, pc).kind = kind /\ NewJob(kind, p, r, pc).proc = p
         /\ NewJob(kind, p, r, pc).pc = pc /\ NewJob(kind, p, r, pc).reply = r
         /\ NewJob(kind, p, r, pc).result = "failed"
         /\ NewJob(kind, p, r, pc).loaded = "processing"
<1>1. NewJob(kind, p, r, pc) \in Job
  BY DeliveryAssumption DEF NewJob, Job, Pcs, Status
<1> QED
  BY <1>1, NoneAssumption DEF NewJob

LEMMA EnqueueType ==
  ASSUME TypeInv, NEW p \in Procs, Enqueue(p)
  PROVE  TypeInv'
<1>1. Shared /\ TasksFit /\ QueuesFit /\ HitsFit /\ Counted
  BY DEF TypeInv
<1>2. hit[p] # None /\ hit[p].pc = "enqueue" /\ hit[p].reply \in Known
  BY <1>1 DEF Enqueue, HitsFit
<1>3. PICK pc \in {"queued", "load"} : pc = IF deploy.threaded THEN "queued" ELSE "load"
  OBVIOUS
<1>4. PICK y : y = NewJob("deliver", p, hit[p].reply, pc)
  OBVIOUS
<1>5. /\ y \in Job /\ y # None /\ y.kind = "deliver" /\ y.proc = p /\ y.pc = pc
      /\ y.reply = hit[p].reply /\ y.result = "failed"
  BY <1>1, <1>2, <1>4, NewTask, KnownReplies DEF Pcs, Running
<1>6. jobs' = Append(jobs, y)
  BY <1>3, <1>4 DEF Enqueue
<1>7. UNCHANGED <<deploy, rows, redis, asked, confirmed, hits, faults, Known>>
  BY DEF Enqueue, bounds, Known
<1>8. Shared' /\ HitsFit'
  <2>1. HitTurns(p, None)
    BY DEF Enqueue, HitTurns
  <2> QED
    BY <1>1, <1>7, <2>1, SharedKept, HitStepType DEF Shared
<1>9. PICK j : j = Len(jobs) + 1
  OBVIOUS
<1>10. /\ jobs' \in Seq(Job \cup {None}) /\ Len(jobs') = j /\ Len(jobs) \in Nat /\ j \in Nat
       /\ Tasks' = Tasks \cup {j} /\ j \notin Tasks /\ jobs'[j] = y
       /\ \A i \in Tasks : jobs'[i] = jobs[i]
  <2>1. /\ jobs' \in Seq(Job \cup {None}) /\ Len(jobs') = j /\ Len(jobs) \in Nat
        /\ Tasks' = Tasks \cup {j} /\ j \notin Tasks /\ jobs'[j] = y
        /\ \A i \in Tasks : jobs'[i] = jobs[i]
    BY <1>1, <1>5, <1>6, <1>9, AddTask
  <2> QED
    BY <1>9, <2>1
<1>11. TasksFit'
  <2>1. Fits(y)
    BY <1>2, <1>5 DEF Fits
  <2>2. ASSUME NEW i \in Tasks', jobs'[i] # None PROVE Fits(jobs[i])'
    BY <1>1, <1>7, <1>10, <2>1, <2>2 DEF TasksFit, Fits
  <2> QED
    BY <1>10, <2>2 DEF TasksFit
<1>12. QueuesFit'
  <2>1. \A q \in Procs : q # p => Waiting(q)' = Waiting(q)
    BY <1>5, <1>10 DEF Waiting
  <2>2. CASE deploy.threaded
    <3>1. Waiting(p)' = Waiting(p) \cup {j} /\ j \notin Waiting(p)
      BY <1>3, <1>5, <1>10, <2>2 DEF Waiting
    <3>2. queue' = [queue EXCEPT ![p] = Append(@, j)]
      BY <1>10, <2>2 DEF Enqueue
    <3> QED
      BY <1>1, <1>10, <2>1, <3>1, <3>2, QueueGrows
  <2>3. CASE ~deploy.threaded
    <3>1. Waiting(p)' = Waiting(p)
      BY <1>3, <1>5, <1>10, <2>3 DEF Waiting
    <3>2. UNCHANGED queue
      BY <2>3 DEF Enqueue
    <3> QED
      BY <1>1, <2>1, <3>1, <3>2, QueueSame
  <2> QED
    BY <2>2, <2>3
<1>13. Counted'
  <2>1. HitTurns(p, None)
    BY DEF Enqueue, HitTurns
  <2> QED
    BY <1>2, <1>7, <1>9, <1>10, <2>1, HitEnds
<1> QED
  BY <1>8, <1>11, <1>12, <1>13 DEF TypeInv

LEMMA ScheduleType ==
  ASSUME TypeInv, NEW p \in Procs, SetSchedule(p)
  PROVE  TypeInv'
<1>1. Shared /\ TasksFit /\ QueuesFit /\ HitsFit /\ Counted
  BY DEF TypeInv
<1>2. hit[p] # None /\ hit[p].pc = "schedule" /\ HitTurns(p, None)
  BY DEF SetSchedule, HitTurns
<1>3. UNCHANGED <<deploy, rows, queue, asked, confirmed, hits, faults, Known>>
  BY DEF SetSchedule, bounds, Known
<1>4. CASE redis.schedule # None
  <2>1. UNCHANGED <<jobs, redis>>
    BY <1>4 DEF SetSchedule
  <2>2. Shared'
    BY <1>1, <1>3, <2>1, SharedKept DEF Shared
  <2> QED
    BY <1>2, <1>3, <2>1, <2>2, HitMovesType
<1>5. CASE redis.schedule = None
  <2>1. PICK y : y = NewJob("flush", p, None, "timer")
    OBVIOUS
  <2>2. /\ y \in Job /\ y # None /\ y.kind = "flush" /\ y.pc = "timer" /\ y.reply = None
        /\ y.result = "failed"
    BY <1>1, <2>1, NewTask DEF Pcs
  <2>3. jobs' = Append(jobs, y) /\ redis' = [redis EXCEPT !.schedule = Len(jobs'), !.later = FALSE]
    BY <1>5, <2>1 DEF SetSchedule
  <2>4. PICK j : j = Len(jobs) + 1
    OBVIOUS
  <2>5. /\ jobs' \in Seq(Job \cup {None}) /\ Len(jobs') = j /\ Len(jobs) \in Nat
        /\ Tasks' = Tasks \cup {j} /\ j \notin Tasks /\ jobs'[j] = y
        /\ \A i \in Tasks : jobs'[i] = jobs[i]
    BY <1>1, <2>2, <2>3, <2>4, AddTask
  <2>6. TasksFit'
    <3>1. Fits(y)
      BY <2>2 DEF Fits
    <3>2. ASSUME NEW i \in Tasks', jobs'[i] # None PROVE Fits(jobs[i])'
      BY <1>1, <1>3, <2>5, <3>1, <3>2 DEF TasksFit, Fits
    <3> QED
      BY <2>5, <3>2 DEF TasksFit
  <2>7. QueuesFit'
    <3>1. \A q \in Procs : Waiting(q)' = Waiting(q)
      BY <2>2, <2>5 DEF Waiting
    <3> QED
      BY <1>1, <1>3, <3>1, QueueSame
  <2>8. Counted' /\ j <= hits
    BY <1>2, <1>3, <2>4, <2>5, HitEnds
  <2>9. HitsFit'
    BY <1>2, <1>3, HitStepType
  <2>10. Shared'
    <3>1. j \in Jobs
      BY <1>1, <2>4, <2>5, <2>8, DeliveryAssumption DEF Shared, Jobs
    <3> QED
      BY <1>1, <1>3, <2>3, <2>5, <3>1 DEF Shared
  <2> QED
    BY <2>6, <2>7, <2>8, <2>9, <2>10 DEF TypeInv
<1> QED
  BY <1>4, <1>5

LEMMA HandingType ==
  ASSUME TypeInv, NEW p \in Procs, SetPending(p) \/ HitRedisError(p)
  PROVE  TypeInv'
<1>1. Shared /\ HitsFit
  BY DEF TypeInv
<1>2. /\ hit[p] # None /\ hit[p].pc \in {"pending", "schedule"} /\ hit[p] \in Hit
      /\ hit[p].reply \in Known
  BY <1>1 DEF SetPending, HitRedisError, HitsFit
<1>3. UNCHANGED <<deploy, rows, jobs, queue, asked, confirmed, hits, Known>>
  BY DEF SetPending, HitRedisError, Fault, bounds, Known
<1>4. Shared'
  <2>1. CASE SetPending(p)
    <3>1. hit[p].reply \in Replies /\ UNCHANGED faults
      BY <1>1, <1>2, <2>1, KnownReplies DEF SetPending, bounds
    <3>2. (redis.schedule # None) \in BOOLEAN
      OBVIOUS
    <3>3. PICK b \in BOOLEAN : b = (redis.schedule # None)
      BY <3>2
    <3>4. redis' = [redis EXCEPT !.pending = hit[p].reply, !.later = b]
      BY <2>1, <3>3 DEF SetPending
    <3> QED
      BY <1>1, <1>2, <1>3, <3>1, <3>4 DEF Shared
  <2>2. CASE HitRedisError(p)
    <3>1. faults' \in 0 .. MaxFaults /\ UNCHANGED redis
      BY <1>1, <2>2, DeliveryAssumption DEF HitRedisError, Fault, Shared
    <3> QED
      BY <1>1, <1>3, <3>1, SharedKept
  <2> QED
    BY <2>1, <2>2
<1>5. CASE hit' = [hit EXCEPT ![p].pc = "schedule"]
  <2>1. PICK h \in Hit : HitTurns(p, h) /\ h # None /\ h.pc = "schedule" /\ h.reply \in Known
    BY <1>1, <1>2, <1>5, HitGoesOn
  <2> QED
    BY <1>2, <1>3, <1>4, <2>1, HitMovesType
<1>6. CASE HitTurns(p, None)
  BY <1>2, <1>3, <1>4, <1>6, HitMovesType
<1> QED
  BY <1>5, <1>6 DEF SetPending, HitRedisError, HitTurns

\* Tasks are lost with their process, or with their timer.
LEMMA LostTasks ==
  ASSUME TasksFit, NEW gone, jobs' = Lost(gone), UNCHANGED Known
  PROVE  /\ TasksFit' /\ Len(jobs') = Len(jobs) /\ Tasks' = Tasks
         /\ \A i \in Tasks :
               jobs'[i] = IF jobs[i] # None /\ gone[i] THEN None ELSE jobs[i]
<1>1. DOMAIN jobs = Tasks /\ Len(jobs) \in Nat /\ \A i \in Tasks : jobs[i] \in Job \cup {None}
  BY DEF TasksFit, Tasks
<1>2. jobs' = [i \in Tasks |-> IF jobs[i] # None /\ gone[i] THEN None ELSE jobs[i]]
  BY <1>1 DEF Lost, Live
<1>3. \A i \in Tasks : jobs'[i] = IF jobs[i] # None /\ gone[i] THEN None ELSE jobs[i]
  BY <1>2
<1>4. jobs' \in [1 .. Len(jobs) -> Job \cup {None}]
  BY <1>1, <1>2, <1>3 DEF Tasks
<1>5. jobs' \in Seq(Job \cup {None}) /\ Len(jobs') = Len(jobs)
  <2>1. jobs' \in Seq(Job \cup {None})
    BY <1>1, <1>4, SeqDef
  <2> QED
    BY <1>1, <1>4, <2>1, LenProperties
<1>6. ASSUME NEW i \in Tasks, jobs'[i] # None PROVE Fits(jobs[i])'
  BY <1>3, <1>6 DEF TasksFit, Fits
<1> QED
  BY <1>3, <1>5, <1>6 DEF TasksFit, Tasks

LEMMA LossType ==
  ASSUME TypeInv, NEW p \in Procs, Crash(p) \/ Shutdown(p)
  PROVE  TypeInv'
<1>1. Shared /\ TasksFit /\ QueuesFit /\ HitsFit /\ Counted
  BY DEF TypeInv
<1>2. UNCHANGED <<deploy, rows, redis, asked, confirmed, hits, Known>>
      /\ faults' \in 0 .. MaxFaults
  BY <1>1, DeliveryAssumption DEF Crash, Shutdown, Fault, Shared, Known
<1>3. Shared'
  BY <1>1, <1>2, SharedKept
<1>4. HitTurns(p, None) \/ UNCHANGED hit
  BY DEF Crash, Shutdown, HitTurns
<1>5. HitsFit'
  BY <1>1, <1>2, <1>4, HitStepType DEF HitsFit
<1>6. \E gone : jobs' = Lost(gone)
  BY DEF Crash, Shutdown
<1>7. TasksFit' /\ Len(jobs') = Len(jobs)
  BY <1>1, <1>2, <1>6, LostTasks
<1>8. Counted'
  <2>1. CASE HitTurns(p, None)
    <3>1. /\ IsFiniteSet(Active') /\ Cardinality(Active) \in Nat /\ Cardinality(Active') \in Nat
          /\ Cardinality(Active') <= Cardinality(Active)
      BY <1>1, <2>1, HitCount
    <3>2. \A q \in Replies : /\ Cardinality(Asking(q)) \in Nat /\ Cardinality(Asking(q)') \in Nat
                             /\ Cardinality(Asking(q)') <= Cardinality(Asking(q))
      BY <1>1, <2>1, HitCount DEF Asks
    <3>3. Len(jobs) \in Nat /\ hits \in Nat /\ \A q \in Replies : asked[q] \in Nat
      BY <1>1, DeliveryAssumption DEF TasksFit, Shared
    <3> QED
      BY <1>1, <1>2, <1>7, <3>1, <3>2, <3>3 DEF Counted
  <2>2. CASE UNCHANGED hit
    BY <1>1, <1>2, <1>7, <2>2, SameCounted
  <2> QED
    BY <1>4, <2>1, <2>2
<1>9. QueuesFit'
  <2>1. CASE Crash(p)
    <3>1. PICK gone : gone = [j \in DOMAIN jobs |-> Live(j) /\ jobs[j].proc = p]
      OBVIOUS
    <3>2. /\ Tasks' = Tasks
          /\ \A i \in Tasks : jobs'[i] = IF jobs[i] # None /\ gone[i] THEN None ELSE jobs[i]
      BY <1>1, <1>2, <2>1, <3>1, LostTasks DEF Crash
    <3>3. \A i \in Tasks : jobs[i] # None => gone[i] = (jobs[i].proc = p)
      BY <1>1, <3>1 DEF Live, TasksFit, Tasks
    <3>4. Waiting(p)' = {} /\ \A q \in Procs : q # p => Waiting(q)' = Waiting(q)
      BY <3>2, <3>3 DEF Waiting
    <3>5. DOMAIN queue' = Procs /\ queue'[p] = <<>> /\ \A q \in Procs : q # p => queue'[q] = queue[q]
      BY <1>1, <2>1 DEF Crash, QueuesFit
    <3>6. QueueFits(p)'
      BY <3>4, <3>5 DEF QueueFits
    <3>7. ASSUME NEW q \in Procs, q # p PROVE QueueFits(q)'
      <4>1. QueueFits(q) /\ Waiting(q)' = Waiting(q) /\ queue'[q] = queue[q]
        BY <1>1, <3>4, <3>5, <3>7 DEF QueuesFit
      <4> QED
        BY <4>1 DEF QueueFits
    <3> QED
      BY <3>5, <3>6, <3>7 DEF QueuesFit
  <2>2. CASE Shutdown(p)
    <3>1. PICK gone : gone = [j \in DOMAIN jobs |->
                                Live(j) /\ jobs[j].proc = p /\ jobs[j].pc = "timer"]
      OBVIOUS
    <3>2. /\ Tasks' = Tasks
          /\ \A i \in Tasks : jobs'[i] = IF jobs[i] # None /\ gone[i] THEN None ELSE jobs[i]
      BY <1>1, <1>2, <2>2, <3>1, LostTasks DEF Shutdown
    <3>3. \A i \in Tasks :
             jobs[i] # None => gone[i] = (jobs[i].proc = p /\ jobs[i].pc = "timer")
      BY <1>1, <3>1 DEF Live, TasksFit, Tasks
    <3>4. \A q \in Procs : Waiting(q)' = Waiting(q)
      BY <3>2, <3>3 DEF Waiting
    <3> QED
      BY <1>1, <2>2, <3>4, QueueSame DEF Shutdown
  <2> QED
    BY <2>1, <2>2
<1> QED
  BY <1>3, <1>5, <1>7, <1>8, <1>9 DEF TypeInv

LEMMA ExpireType ==
  ASSUME TypeInv, Expire
  PROVE  TypeInv'
<1>1. UNCHANGED <<deploy, rows, hit, jobs, queue, asked, confirmed, hits, Known>>
      /\ faults' \in 0 .. MaxFaults
  BY DeliveryAssumption DEF Expire, Fault, TypeInv, Shared, Known
<1>2. Shared'
  <2>1. redis' \in [pending : Replies \cup {None}, schedule : Jobs \cup {None}, later : BOOLEAN]
        /\ redis'.pending \in {redis.pending, None}
    <3>1. redis \in [pending : Replies \cup {None}, schedule : Jobs \cup {None},
                     later : BOOLEAN]
      BY DEF TypeInv, Shared
    <3>2. CASE redis' = [redis EXCEPT !.pending = None]
      BY <3>1, <3>2
    <3>3. CASE redis' = [pending |-> IF redis.later THEN redis.pending ELSE None,
                         schedule |-> None, later |-> FALSE]
      BY <3>1, <3>3
    <3> QED
      BY <3>2, <3>3 DEF Expire
  <2> QED
    BY <1>1, <2>1 DEF TypeInv, Shared
<1>3. HitsFit' /\ TasksFit' /\ Counted'
  BY <1>1, TasksKept, SameCounted DEF TypeInv, HitsFit
<1>4. QueuesFit'
  BY <1>1, TasksKept, QueueSame DEF TypeInv
<1> QED
  BY <1>2, <1>3, <1>4 DEF TypeInv

LEMMA InitType == Init => TypeInv
<1> SUFFICES ASSUME Init PROVE TypeInv
  OBVIOUS
<1>1. Shared
  BY DeliveryAssumption DEF Init, Shared, Known, Replies, Jobs, Status
<1>2. HitsFit
  BY DEF Init, HitsFit
<1>3. TasksFit /\ Tasks = {}
  BY DEF Init, TasksFit, Tasks
<1>4. QueuesFit
  BY <1>3 DEF Init, QueuesFit, QueueFits, Waiting
<1>5. Counted
  <2>1. Active = {} /\ \A r \in Replies : Asking(r) = {} /\ asked[r] = 0
    BY DEF Init, Active, Asking
  <2>2. jobs = <<>> /\ hits = 0
    BY DEF Init
  <2> QED
    BY <2>1, <2>2, FS_EmptySet DEF Counted
<1> QED
  BY <1>1, <1>2, <1>3, <1>4, <1>5 DEF TypeInv

LEMMA NextType == TypeInv /\ [Next]_vars => TypeInv'
<1> SUFFICES ASSUME TypeInv, [Next]_vars PROVE TypeInv'
  OBVIOUS
<1>1. ASSUME NEW p \in Procs,
             \/ Reply(p) \/ ReplayRead(p) \/ HitStep(p)
             \/ StartJob(p) \/ Crash(p) \/ Shutdown(p) \/ HitRedisError(p)
      PROVE  TypeInv'
  BY <1>1, BeginType, ReplayType, EnqueueType, HandingType, ScheduleType, ThreadType, LossType
     DEF HitStep
<1>2. ASSUME NEW j \in DOMAIN jobs, JobStep(j) \/ DeliverError(j) \/ FlushRedisError(j)
      PROVE  TypeInv'
  BY <1>2, ThreadType, TaskType DEF JobStep
<1>3. CASE UNCHANGED vars
  BY <1>3, TasksKept, QueueSame, SameCounted
     DEF vars, bounds, TypeInv, Shared, HitsFit, Known
<1> QED
  BY <1>1, <1>2, <1>3, ExpireType DEF Next

\* Whatever the processes, the hits and the faults, every variable has its type, and the
\* tasks that wait for a thread are in the queue of their process (TypeOK).
THEOREM DeliveryTypes == Spec => []TypeOK
<1>1. TypeInv => TypeOK
  <2> SUFFICES ASSUME TypeInv PROVE TypeOK
    OBVIOUS
  <2>1. Shared /\ HitsFit /\ TasksFit /\ QueuesFit /\ Counted
    BY DEF TypeInv
  <2>2. Len(jobs) <= hits
    <3>1. Cardinality(Active) \in Nat /\ Len(jobs) \in Nat /\ hits \in Nat
      BY <2>1, FS_CardinalityType, DeliveryAssumption DEF Counted, TasksFit, Shared
    <3> QED
      BY <2>1, <3>1 DEF Counted
  <2>3. asked \in [Replies -> 0 .. MaxHits]
    <3>1. \A r \in Replies : Cardinality(Asking(r)) \in Nat
      BY <2>1, FS_Subset, FS_CardinalityType DEF Counted, Asking, Active
    <3>2. \A r \in Replies : asked[r] \in 0 .. MaxHits
      BY <2>1, <3>1, DeliveryAssumption DEF Counted, Shared
    <3> QED
      BY <2>1, <3>2 DEF Shared
  <2>4. ASSUME NEW p \in Procs
        PROVE  {queue[p][n] : n \in 1 .. Len(queue[p])}
                  = {j \in DOMAIN jobs : At(j, "queued") /\ jobs[j].proc = p}
    <3>1. {j \in DOMAIN jobs : At(j, "queued") /\ jobs[j].proc = p} = Waiting(p)
      BY <2>1 DEF At, Live, Waiting, TasksFit, Tasks
    <3>2. QueueFits(p)
      BY <2>1 DEF QueuesFit
    <3> QED
      BY <3>1, <3>2 DEF QueueFits
  <2> QED
    BY <2>1, <2>2, <2>3, <2>4 DEF TypeOK, Shared, HitsFit, TasksFit
<1> QED
  BY <1>1, InitType, NextType, PTL DEF Spec

-----------------------------------------------------------------------------
(* What the steps do to the tasks, for the invariants that follow *)

\* Task j is created with value y.
Creates(j, y) ==
    /\ j \in Nat \ Tasks /\ Tasks' = Tasks \cup {j} /\ jobs'[j] = y
    /\ \A i \in Tasks : jobs'[i] = jobs[i]
    /\ y \in Job /\ y # None /\ y.result = "failed" /\ y.loaded = "processing"

LEMMA EnqueueCreates ==
  ASSUME TypeInv, NEW p \in Procs, Enqueue(p)
  PROVE  \E j, y : /\ Creates(j, y) /\ y.kind = "deliver" /\ y.pc \in {"queued", "load"}
                   /\ y.reply = hit[p].reply
<1>1. Shared /\ TasksFit /\ hit[p].reply \in Replies
  BY KnownReplies DEF TypeInv, HitsFit, Enqueue
<1>2. PICK pc \in {"queued", "load"} : pc = IF deploy.threaded THEN "queued" ELSE "load"
  OBVIOUS
<1>3. PICK y : y = NewJob("deliver", p, hit[p].reply, pc)
  OBVIOUS
<1>4. /\ y \in Job /\ y # None /\ y.kind = "deliver" /\ y.pc = pc /\ y.reply = hit[p].reply
      /\ y.result = "failed" /\ y.loaded = "processing"
  BY <1>1, <1>3, NewTask DEF Pcs, Running
<1>5. jobs' = Append(jobs, y)
  BY <1>2, <1>3 DEF Enqueue
<1>6. PICK j : j = Len(jobs) + 1
  OBVIOUS
<1>7. Creates(j, y)
  <2>1. /\ Len(jobs) \in Nat /\ Tasks' = Tasks \cup {j} /\ j \notin Tasks /\ jobs'[j] = y
        /\ \A i \in Tasks : jobs'[i] = jobs[i]
    BY <1>1, <1>4, <1>5, <1>6, AddTask
  <2> QED
    BY <1>4, <1>6, <2>1 DEF Creates
<1> QED
  BY <1>4, <1>7

LEMMA ScheduleCreates ==
  ASSUME TypeInv, NEW p \in Procs, SetSchedule(p), redis.schedule = None
  PROVE  \E j, y : /\ Creates(j, y) /\ y.kind = "flush" /\ y.pc = "timer" /\ y.reply = None
                   /\ redis' = [redis EXCEPT !.schedule = j, !.later = FALSE]
<1>1. Shared /\ TasksFit
  BY DEF TypeInv
<1>2. PICK y : y = NewJob("flush", p, None, "timer")
  OBVIOUS
<1>3. /\ y \in Job /\ y # None /\ y.kind = "flush" /\ y.pc = "timer" /\ y.reply = None
      /\ y.result = "failed" /\ y.loaded = "processing"
  BY <1>1, <1>2, NewTask DEF Pcs
<1>4. jobs' = Append(jobs, y) /\ redis' = [redis EXCEPT !.schedule = Len(jobs'), !.later = FALSE]
  BY <1>2 DEF SetSchedule
<1>5. PICK j : j = Len(jobs) + 1
  OBVIOUS
<1>6. /\ Len(jobs') = j /\ Len(jobs) \in Nat /\ Tasks' = Tasks \cup {j} /\ j \notin Tasks
      /\ jobs'[j] = y /\ \A i \in Tasks : jobs'[i] = jobs[i]
  BY <1>1, <1>3, <1>4, <1>5, AddTask
<1>7. Creates(j, y)
  BY <1>3, <1>5, <1>6 DEF Creates
<1>8. redis' = [redis EXCEPT !.schedule = j, !.later = FALSE]
  BY <1>4, <1>6
<1> QED
  BY <1>3, <1>7, <1>8

LEMMA StartTurn ==
  ASSUME TypeInv, NEW p \in Procs, StartJob(p)
  PROVE  \E j : /\ Live(j) /\ jobs[j].pc = "queued"
                /\ MovesOn(j, First(j)) /\ First(j) \in Pcs
<1>1. PICK j : j = Head(queue[p])
  OBVIOUS
<1>2. QueueFits(p) /\ queue[p] # <<>> /\ TasksFit
  BY DEF TypeInv, QueuesFit, StartJob
<1>3. j = queue[p][1] /\ 1 \in 1 .. Len(queue[p])
  BY <1>1, <1>2 DEF QueueFits
<1>4. Live(j) /\ jobs[j].pc = "queued"
  BY <1>2, <1>3 DEF QueueFits, Waiting, Live, TasksFit, Tasks
<1>5. MovesOn(j, First(j)) /\ First(j) \in Pcs
  BY <1>1, <1>2, <1>4, ThreadTurn, FirstFits DEF StartJob
<1> QED
  BY <1>4, <1>5

\* Some tasks are lost, the others stay as they are.
Loses == Tasks' = Tasks /\ \A i \in Tasks : jobs'[i] \in {jobs[i], None}

LEMMA Losses ==
  ASSUME TypeInv, NEW p \in Procs, Crash(p) \/ Shutdown(p)
  PROVE  Loses
<1>1. TasksFit /\ UNCHANGED Known
  BY DEF TypeInv, Crash, Shutdown, Known
<1>2. \E gone : jobs' = Lost(gone)
  BY DEF Crash, Shutdown
<1>3. PICK gone : /\ Tasks' = Tasks
                  /\ \A i \in Tasks : jobs'[i] = IF jobs[i] # None /\ gone[i] THEN None ELSE jobs[i]
  BY <1>1, <1>2, LostTasks
<1> QED
  BY <1>3 DEF Loses

\* A hit, a fault in Redis or the clock leaves the tasks alone.
LEMMA Untouched ==
  ASSUME TypeInv, UNCHANGED jobs
  PROVE  Loses
  BY DEF Loses, Tasks

-----------------------------------------------------------------------------
(* A row marked "sent" was accepted *)

Accepted ==
    /\ \A j \in Tasks : jobs[j] # None /\ jobs[j].result = "sent" =>
          jobs[j].reply \in Replies /\ confirmed[jobs[j].reply] > 0
    /\ \A r \in Known : rows[r] = "sent" => confirmed[r] > 0

LEMMA AcceptedTurn ==
  ASSUME TypeInv, Accepted, NEW j, NEW y \in Job \cup {None}, Turns(j, y), UNCHANGED confirmed,
         y # None => y.result = jobs[j].result /\ (y.reply = jobs[j].reply \/ y.result = "failed"),
         UNCHANGED rows
  PROVE  Accepted'
<1>1. /\ Tasks' = Tasks /\ j \in Tasks /\ jobs[j] # None /\ jobs'[j] = y
      /\ \A i \in Tasks : i # j => jobs'[i] = jobs[i]
  BY TurnTasks DEF TypeInv, Turns
<1>2. ASSUME NEW i \in Tasks, jobs'[i] # None, jobs'[i].result = "sent"
      PROVE  jobs'[i].reply \in Replies /\ confirmed[jobs'[i].reply] > 0
  BY <1>1, <1>2 DEF Accepted
<1> QED
  BY <1>1, <1>2 DEF Accepted, Known

LEMMA AcceptedRest ==
  ASSUME Accepted, UNCHANGED confirmed,
         Loses \/ \E j, y : Creates(j, y),
         \A r \in Known' : rows'[r] = "sent" => r \in Known /\ rows[r] = "sent"
  PROVE  Accepted'
<1>1. ASSUME NEW i \in Tasks', jobs'[i] # None, jobs'[i].result = "sent"
      PROVE  i \in Tasks /\ jobs'[i] = jobs[i]
  BY <1>1 DEF Loses, Creates
<1> QED
  BY <1>1 DEF Accepted

LEMMA NextAccepted == TypeInv /\ Accepted /\ [Next]_vars => Accepted'
<1> SUFFICES ASSUME TypeInv, Accepted, [Next]_vars PROVE Accepted'
  OBVIOUS
<1>1. Shared /\ TasksFit /\ rows \in Seq(Status) /\ Len(rows) \in Nat
  BY DEF TypeInv, Shared
<1>2. ASSUME NEW p \in Procs, Reply(p) PROVE Accepted'
  <2>1. \A r \in Known' : rows'[r] = "sent" => r \in Known /\ rows[r] = "sent"
    <3>1. rows' = Append(rows, "processing") /\ "processing" \in Status
      BY <1>2 DEF Reply, Status
    <3>2. Len(rows') = Len(rows) + 1 /\ rows'[Len(rows) + 1] = "processing"
          /\ \A n \in 1 .. Len(rows) : rows'[n] = rows[n]
      BY <1>1, <3>1, AppendProperties
    <3> QED
      BY <1>1, <3>2 DEF Known
  <2> QED
    BY <1>2, <2>1, AcceptedRest, Untouched DEF Reply, BeginHit
<1>3. ASSUME NEW p \in Procs, ReplayCommit(p) PROVE Accepted'
  <2>1. \A r \in Known' : rows'[r] = "sent" => r \in Known /\ rows[r] = "sent"
    <3>1. hit[p].reply \in 1 .. Len(rows)
      BY <1>3 DEF ReplayCommit, TypeInv, HitsFit, Known
    <3>2. rows' \in {rows, [rows EXCEPT ![hit[p].reply] = "processing"]}
      BY <1>3 DEF ReplayCommit
    <3> QED
      BY <1>1, <3>1, <3>2 DEF Known
  <2> QED
    BY <1>3, <2>1, AcceptedRest, Untouched DEF ReplayCommit
<1>4. ASSUME NEW p \in Procs, Enqueue(p) PROVE Accepted'
  BY <1>4, EnqueueCreates, AcceptedRest DEF Enqueue, Known
<1>5. ASSUME NEW p \in Procs, SetSchedule(p) PROVE Accepted'
  BY <1>5, ScheduleCreates, AcceptedRest, Untouched DEF SetSchedule, Known
<1>6. ASSUME NEW p \in Procs,
             ReplayRead(p) \/ SetPending(p) \/ HitRedisError(p) \/ Crash(p) \/ Shutdown(p)
      PROVE  Accepted'
  BY <1>6, Losses, AcceptedRest, Untouched
     DEF ReplayRead, BeginHit, SetPending, HitRedisError, Crash, Shutdown, Known
<1>7. ASSUME Expire \/ UNCHANGED vars PROVE Accepted'
  BY <1>7, AcceptedRest, Untouched DEF Expire, vars, Known
<1>8. ASSUME NEW j, NEW next \in Pcs, MovesOn(j, next), UNCHANGED <<rows, confirmed>>
      PROVE  Accepted'
  BY <1>8, AcceptedTurn DEF MovesOn, Is
<1>9. ASSUME NEW j, FireTimer(j) PROVE Accepted'
  <2>1. Live(j) /\ First(j) \in Pcs
    BY <1>1, <1>9, FirstFits DEF FireTimer, At
  <2>2. PICK next \in Pcs : jobs' = [jobs EXCEPT ![j].pc = next]
    BY <1>9, <2>1 DEF FireTimer, Pcs
  <2> QED
    BY <1>1, <1>8, <1>9, <2>1, <2>2, ThreadTurn DEF FireTimer
<1>10. ASSUME NEW p \in Procs, StartJob(p) PROVE Accepted'
  <2>1. \E j : MovesOn(j, First(j)) /\ First(j) \in Pcs
    BY <1>10, StartTurn
  <2> QED
    BY <1>8, <1>10, <2>1 DEF StartJob
<1>11. ASSUME NEW j, Load(j) PROVE Accepted'
  BY <1>1, <1>11, LoadTurn, AcceptedTurn DEF Is, Load, OnlyJobs
<1>12. ASSUME NEW j, Send(j) PROVE Accepted'
  <2>1. PICK y : Turns(j, y) /\
            \/ /\ Is(y, jobs[j], "stamp", jobs[j].reply, jobs[j].loaded, "sent")
               /\ confirmed' = [confirmed EXCEPT ![jobs[j].reply] = @ + 1]
            \/ /\ Is(y, jobs[j], "send", jobs[j].reply, jobs[j].loaded, jobs[j].result)
               /\ UNCHANGED confirmed
            \/ /\ Is(y, jobs[j], "stamp", jobs[j].reply, jobs[j].loaded, jobs[j].result)
               /\ UNCHANGED confirmed
    BY <1>1, <1>12, SendTurn
  <2>2. UNCHANGED rows
    BY <1>12 DEF Send
  <2>3. CASE UNCHANGED confirmed /\ y.result = jobs[j].result /\ y.reply = jobs[j].reply /\ y \in Job
    BY <2>1, <2>2, <2>3, AcceptedTurn
  <2>4. CASE /\ Is(y, jobs[j], "stamp", jobs[j].reply, jobs[j].loaded, "sent")
             /\ confirmed' = [confirmed EXCEPT ![jobs[j].reply] = @ + 1]
    <3>1. jobs[j].reply \in Replies
      BY <1>1, <1>12, Living, KnownReplies DEF Send, At, Fits
    <3>2. /\ confirmed'[jobs[j].reply] > 0
          /\ \A r \in Replies : confirmed[r] > 0 => confirmed'[r] > 0
      BY <1>1, <2>4, <3>1 DEF Shared
    <3>3. /\ Tasks' = Tasks /\ jobs'[j] = y /\ y.reply = jobs[j].reply
          /\ \A i \in Tasks : i # j => jobs'[i] = jobs[i]
      BY <1>1, <2>1, <2>4, TurnTasks DEF Is
    <3>4. ASSUME NEW i \in Tasks, jobs'[i] # None, jobs'[i].result = "sent"
          PROVE  jobs'[i].reply \in Replies /\ confirmed'[jobs'[i].reply] > 0
      BY <3>1, <3>2, <3>3, <3>4 DEF Accepted
    <3>5. \A r \in Known : rows[r] = "sent" => confirmed'[r] > 0
      BY <1>1, <3>2, KnownReplies DEF Accepted
    <3> QED
      BY <2>2, <3>3, <3>4, <3>5 DEF Accepted, Known
  <2> QED
    BY <2>1, <2>3, <2>4 DEF Is
<1>13. ASSUME NEW j, Stamp(j) \/ DeliverError(j) PROVE Accepted'
  <2>1. Live(j) /\ UNCHANGED confirmed
    BY <1>13 DEF Stamp, DeliverError, At
  <2>2. PICK y : Turns(j, y) /\ Finishes(j, y)
    BY <1>1, <1>13, <2>1, AfterTurn DEF Stamp, DeliverError
  <2>3. CASE UNCHANGED rows
    BY <2>1, <2>2, <2>3, AcceptedTurn DEF Finishes, Is
  <2>4. CASE Stamp(j) /\ rows' # rows
    <3>1. rows' = [rows EXCEPT ![jobs[j].reply] = jobs[j].result]
      BY <2>4 DEF Stamp
    <3>2. jobs[j].reply \in 1 .. Len(rows) /\ j \in Tasks /\ jobs[j] # None
      BY <1>1, <2>1, <2>4, Living DEF Stamp, At, Fits, Known
    <3>3. \A r \in Known' : rows'[r] = "sent" => confirmed'[r] > 0
      <4>1. Known' = Known /\ rows'[jobs[j].reply] = jobs[j].result
            /\ \A r \in Known : r # jobs[j].reply => rows'[r] = rows[r]
        BY <1>1, <3>1, <3>2 DEF Known
      <4> QED
        BY <2>1, <3>2, <4>1 DEF Accepted
    <3>4. /\ Tasks' = Tasks /\ jobs'[j] = y
          /\ \A i \in Tasks : i # j => jobs'[i] = jobs[i]
      BY <1>1, <2>2, TurnTasks DEF Finishes, Is
    <3>5. ASSUME NEW i \in Tasks, jobs'[i] # None, jobs'[i].result = "sent"
          PROVE  jobs'[i].reply \in Replies /\ confirmed'[jobs'[i].reply] > 0
      BY <2>1, <2>2, <3>2, <3>4, <3>5 DEF Accepted, Finishes, Is
    <3> QED
      BY <3>3, <3>4, <3>5 DEF Accepted
  <2> QED
    BY <1>13, <2>3, <2>4 DEF DeliverError
<1>14. ASSUME NEW j, FlushGet(j) PROVE Accepted'
  <2>1. PICK y : Turns(j, y) /\
            \/ /\ redis.pending = None
               /\ Is(y, jobs[j], "delete", None, jobs[j].loaded, jobs[j].result)
            \/ /\ redis.pending # None
               /\ Is(y, jobs[j], "load", redis.pending, jobs[j].loaded, jobs[j].result)
    BY <1>1, <1>14, GetTurn
  <2>2. jobs[j].result = "failed"
    BY <1>1, <1>14, Living DEF FlushGet, At, Fits
  <2> QED
    BY <1>14, <2>1, <2>2, AcceptedTurn DEF Is, FlushGet, OnlyJobs
<1>15. ASSUME NEW j, FlushDelete(j) \/ ReleaseGet(j) \/ ReleaseDelete(j) \/ FlushRedisError(j)
       PROVE  Accepted'
  <2>1. UNCHANGED <<rows, confirmed>>
    BY <1>15 DEF FlushDelete, ReleaseGet, ReleaseDelete, FlushRedisError, OnlyJobs
  <2>2. Turns(j, None) \/ \E next \in Pcs : MovesOn(j, next)
    BY <1>1, <1>15, FlushTurn, FlushErrorTurn DEF Pcs, Running
  <2> QED
    BY <1>8, <2>1, <2>2, AcceptedTurn
<1> QED
  BY <1>2, <1>3, <1>4, <1>5, <1>6, <1>7, <1>9, <1>10, <1>11, <1>12, <1>13, <1>14, <1>15
     DEF Next, HitStep, JobStep

\* A row is marked "sent" only if the provider accepted the reply, whatever tasks, replays,
\* retries, crashes and failed commits come between: the operator who replays the rows
\* marked "failed" misses none (SentWasAccepted).
THEOREM SentWasAcceptedAlways == Spec => []SentWasAccepted
<1>1. Init => Accepted
  <2> SUFFICES ASSUME Init PROVE Accepted
    OBVIOUS
  <2>1. Tasks = {} /\ Known = {}
    BY DEF Init, Tasks, Known
  <2> QED
    BY <2>1 DEF Accepted
<1>2. TypeInv /\ Accepted => SentWasAccepted
  BY DEF TypeInv, Shared, Accepted, SentWasAccepted, Known
<1> QED
  BY <1>1, <1>2, InitType, NextType, NextAccepted, PTL DEF Spec

-----------------------------------------------------------------------------
(* One flush per burst window *)

\* Without faults the schedule key names the one flush there is.
Scheduled == faults = 0 =>
    \A j \in Tasks : jobs[j] # None /\ jobs[j].kind = "flush" => redis.schedule = j

LEMMA ScheduledTurn ==
  ASSUME TypeInv, Scheduled, NEW j, NEW y \in Job \cup {None}, Turns(j, y),
         y # None => y.kind = jobs[j].kind, UNCHANGED <<redis.schedule, faults>>
  PROVE  Scheduled'
<1>1. /\ Tasks' = Tasks /\ j \in Tasks /\ jobs[j] # None /\ jobs'[j] = y
      /\ \A i \in Tasks : i # j => jobs'[i] = jobs[i]
  BY TurnTasks DEF TypeInv, Turns
<1>2. ASSUME faults = 0, NEW i \in Tasks, jobs'[i] # None, jobs'[i].kind = "flush"
      PROVE  redis.schedule = i
  BY <1>1, <1>2 DEF Scheduled
<1> QED
  BY <1>1, <1>2 DEF Scheduled

LEMMA ScheduledRest ==
  ASSUME Scheduled, UNCHANGED <<redis.schedule, faults>>,
         Loses \/ \E j, y : Creates(j, y) /\ y.kind = "deliver"
  PROVE  Scheduled'
<1>1. ASSUME NEW i \in Tasks', jobs'[i] # None, jobs'[i].kind = "flush"
      PROVE  i \in Tasks /\ jobs'[i] = jobs[i]
  BY <1>1 DEF Loses, Creates
<1> QED
  BY <1>1 DEF Scheduled

LEMMA NextScheduled == TypeInv /\ Scheduled /\ [Next]_vars => Scheduled'
<1> SUFFICES ASSUME TypeInv, Scheduled, [Next]_vars PROVE Scheduled'
  OBVIOUS
<1>1. Shared /\ TasksFit /\ faults \in Nat
  BY DeliveryAssumption DEF TypeInv, Shared
<1>2. ASSUME Fault PROVE Scheduled'
  BY <1>1, <1>2 DEF Fault, Scheduled
<1>3. ASSUME NEW p \in Procs, Reply(p) \/ ReplayRead(p) \/ ReplayCommit(p) \/ SetPending(p)
      PROVE  Scheduled'
  <2>1. redis'.schedule = redis.schedule /\ UNCHANGED <<faults, jobs>>
    BY <1>1, <1>3 DEF Reply, ReplayRead, BeginHit, ReplayCommit, SetPending, bounds, Shared
  <2> QED
    BY <2>1, ScheduledRest, Untouched
<1>4. ASSUME NEW p \in Procs, Enqueue(p) PROVE Scheduled'
  BY <1>4, EnqueueCreates, ScheduledRest DEF Enqueue, bounds
<1>5. ASSUME NEW p \in Procs, SetSchedule(p) PROVE Scheduled'
  <2>1. CASE redis.schedule # None
    BY <1>5, <2>1, ScheduledRest, Untouched DEF SetSchedule, bounds
  <2>2. CASE redis.schedule = None
    <3>1. PICK j, y : /\ Creates(j, y)
                      /\ redis' = [redis EXCEPT !.schedule = j, !.later = FALSE]
      BY <1>5, <2>2, ScheduleCreates
    <3>2. redis'.schedule = j
      BY <1>1, <3>1 DEF Shared
    <3>3. ASSUME faults = 0, NEW i \in Tasks', jobs'[i] # None, jobs'[i].kind = "flush"
          PROVE  i = j
      <4>1. CASE i \in Tasks
        <5>1. jobs[i] # None /\ jobs[i].kind = "flush"
          BY <3>1, <3>3, <4>1 DEF Creates
        <5>2. redis.schedule = i /\ i \in Nat
          BY <1>1, <3>3, <4>1, <5>1 DEF Scheduled, TasksFit, Tasks
        <5> QED
          BY <2>2, <5>2, DeliveryAssumption
      <4> QED
        BY <3>1, <3>3, <4>1 DEF Creates
    <3>4. UNCHANGED faults
      BY <1>5 DEF SetSchedule, bounds
    <3> QED
      BY <3>2, <3>3, <3>4 DEF Scheduled
  <2> QED
    BY <2>1, <2>2
<1>6. ASSUME NEW j, NEW next \in Pcs, MovesOn(j, next), UNCHANGED <<redis.schedule, faults>>
      PROVE  Scheduled'
  BY <1>6, ScheduledTurn DEF MovesOn, Is
<1>7. ASSUME NEW j, FireTimer(j) PROVE Scheduled'
  <2>1. Live(j) /\ First(j) \in Pcs
    BY <1>1, <1>7, FirstFits DEF FireTimer, At
  <2>2. PICK next \in Pcs : jobs' = [jobs EXCEPT ![j].pc = next]
    BY <1>7, <2>1 DEF FireTimer, Pcs
  <2> QED
    BY <1>1, <1>6, <1>7, <2>1, <2>2, ThreadTurn DEF FireTimer, bounds
<1>8. ASSUME NEW p \in Procs, StartJob(p) PROVE Scheduled'
  <2>1. \E j : MovesOn(j, First(j)) /\ First(j) \in Pcs
    BY <1>8, StartTurn
  <2> QED
    BY <1>6, <1>8, <2>1 DEF StartJob, bounds
<1>9. ASSUME NEW j, Load(j) \/ Send(j) \/ Stamp(j) \/ FlushGet(j) PROVE Scheduled'
  <2>1. UNCHANGED <<redis, faults>>
    BY <1>9 DEF Load, Send, Stamp, FlushGet, OnlyJobs, bounds
  <2>2. \E y \in Job \cup {None} : Turns(j, y) /\ (y # None => y.kind = jobs[j].kind)
    BY <1>1, <1>9, LoadTurn, SendTurn, GetTurn, AfterTurn DEF Is, Finishes, Stamp, At
  <2> QED
    BY <2>1, <2>2, ScheduledTurn
<1>10. ASSUME NEW j, FlushDelete(j) \/ ReleaseGet(j) PROVE Scheduled'
  <2>1. redis'.schedule = redis.schedule /\ UNCHANGED faults
    BY <1>1, <1>10 DEF FlushDelete, ReleaseGet, OnlyJobs, bounds, Shared
  <2>2. Turns(j, None) \/ \E next \in Pcs : MovesOn(j, next)
    BY <1>1, <1>10, FlushTurn DEF Pcs, Running
  <2> QED
    BY <1>6, <2>1, <2>2, ScheduledTurn
<1>11. ASSUME NEW j, ReleaseDelete(j) PROVE Scheduled'
  <2>1. Turns(j, None) /\ UNCHANGED faults
    BY <1>1, <1>11, FlushTurn DEF ReleaseDelete, ReleaseGet, FlushDelete, At, bounds
  <2>2. j \in Tasks /\ jobs[j] # None /\ jobs[j].kind = "flush"
    BY <1>1, <1>11, Living, FlushKind DEF ReleaseDelete, At
  <2>3. /\ Tasks' = Tasks /\ jobs'[j] = None
        /\ \A i \in Tasks : i # j => jobs'[i] = jobs[i]
    BY <1>1, <2>1, TurnTasks
  <2>4. faults = 0 => \A i \in Tasks : jobs'[i] # None => jobs'[i].kind # "flush"
    BY <2>2, <2>3 DEF Scheduled
  <2> QED
    BY <2>1, <2>3, <2>4 DEF Scheduled
<1>12. CASE UNCHANGED vars
  BY <1>12, ScheduledRest, Untouched DEF vars, bounds
<1> QED
  BY <1>2, <1>3, <1>4, <1>5, <1>7, <1>8, <1>9, <1>10, <1>11, <1>12
     DEF Next, HitStep, JobStep, Crash, Shutdown, HitRedisError, DeliverError, FlushRedisError,
         Expire

\* While nothing fails, one flush at most is pending or running, of all processes
\* together, at every moment of any burst (OneFlush).
THEOREM OneFlushAlways == Spec => []OneFlush
<1>1. Init => Scheduled
  <2> SUFFICES ASSUME Init PROVE Scheduled
    OBVIOUS
  <2>1. Tasks = {}
    BY DEF Init, Tasks
  <2> QED
    BY <2>1 DEF Scheduled
<1>2. TypeInv /\ Scheduled => OneFlush
  BY DEF TypeInv, TasksFit, Tasks, Scheduled, OneFlush, Live
<1> QED
  BY <1>1, <1>2, InitType, NextType, NextScheduled, PTL DEF Spec

-----------------------------------------------------------------------------
(* Sends per hit *)

One(b) == IF b THEN 1 ELSE 0

\* Who will still send reply r: hits that hand it over...
Hands(h, r) == h # None /\ h.reply = r /\ h.pc \in {"enqueue", "pending"}
Handing(r) == {p \in Procs : Hands(hit[p], r)}

\* ...tasks that have it...
Carries(x, r) ==
    /\ x # None /\ x.reply = r
    /\ x.pc \in {"load", "send"} \/ (x.kind = "deliver" /\ x.pc = "queued")
Carrying(r) == {j \in Tasks : Carries(jobs[j], r)}

\* ...the pending key, unless the scheduled flush has read it and will delete it...
Holds(x) == x # None /\ x.kind = "flush" /\ x.pc \in {"load", "send", "stamp", "delete"}
Owned == \E j \in Tasks : redis.schedule = j /\ Holds(jobs[j])
Loose(r) == One(redis.pending = r /\ ~Owned)

\* ...and flushes that no schedule names any more: each can send once, or release the
\* schedule of another flush.
Strays(x) == x # None /\ x.kind = "flush" /\ x.pc \in {"timer", "queued", "get", "release_write"}
Stray == {j \in Tasks : Strays(jobs[j]) /\ redis.schedule # j}

\* All of them together have been asked for, or follow a fault.
BudgetOf(r) ==
    confirmed[r] + Cardinality(Handing(r)) + Cardinality(Carrying(r)) + Loose(r)
      + Cardinality(Stray) <= asked[r] + faults
Budget == \A r \in Replies : BudgetOf(r)

LEMMA NoneNoReply == None \notin Replies /\ None \notin Jobs
  BY DeliveryAssumption DEF Replies, Jobs

LEMMA Numbers ==
  ASSUME TypeInv
  PROVE  /\ IsFiniteSet(Stray) /\ Cardinality(Stray) \in Nat /\ faults \in Nat
         /\ \A r : /\ IsFiniteSet(Handing(r)) /\ Cardinality(Handing(r)) \in Nat
                   /\ IsFiniteSet(Carrying(r)) /\ Cardinality(Carrying(r)) \in Nat
                   /\ Loose(r) \in {0, 1}
         /\ \A r \in Replies : confirmed[r] \in Nat /\ asked[r] \in Nat
<1>1. IsFiniteSet(Tasks)
  <2>1. Len(jobs) \in Nat
    BY DEF TypeInv, TasksFit
  <2> QED
    BY <2>1, FS_Interval DEF Tasks
<1>2. IsFiniteSet(Stray) /\ Cardinality(Stray) \in Nat
  BY <1>1, FS_Subset, FS_CardinalityType DEF Stray
<1>3. ASSUME NEW r
      PROVE  /\ IsFiniteSet(Handing(r)) /\ Cardinality(Handing(r)) \in Nat
             /\ IsFiniteSet(Carrying(r)) /\ Cardinality(Carrying(r)) \in Nat
             /\ Loose(r) \in {0, 1}
  <2>1. Handing(r) \subseteq Active /\ IsFiniteSet(Active)
    BY DEF Handing, Hands, Active, TypeInv, Counted
  <2>2. IsFiniteSet(Handing(r)) /\ Cardinality(Handing(r)) \in Nat
    BY <2>1, FS_Subset, FS_CardinalityType
  <2>3. IsFiniteSet(Carrying(r)) /\ Cardinality(Carrying(r)) \in Nat
    BY <1>1, FS_Subset, FS_CardinalityType DEF Carrying
  <2> QED
    BY <2>2, <2>3 DEF Loose, One
<1>4. faults \in Nat /\ \A r \in Replies : confirmed[r] \in Nat /\ asked[r] \in Nat
  BY DeliveryAssumption DEF TypeInv, Shared
<1> QED
  BY <1>2, <1>3, <1>4

\* The counts after a step of one hit, after a step of one task and after a creation.
LEMMA HandCount ==
  ASSUME TypeInv, NEW p \in Procs, NEW h \in Hit \cup {None}, HitTurns(p, h), NEW r
  PROVE  /\ Cardinality(Handing(r)') \in Nat
         /\ Cardinality(Handing(r)') + One(Hands(hit[p], r))
              = Cardinality(Handing(r)) + One(Hands(h, r))
<1>1. IsFiniteSet(Handing(r))
  BY Numbers
<1>2. Handing(r)' \ {p} = Handing(r) \ {p} /\ (p \in Handing(r) <=> Hands(hit[p], r))
      /\ (p \in Handing(r)' <=> Hands(h, r))
  BY HitSet DEF Handing, Hands, TypeInv
<1>3. /\ Cardinality(Handing(r)) \in Nat /\ Cardinality(Handing(r)') \in Nat
      /\ Cardinality(Handing(r)') + In(p, Handing(r)) = Cardinality(Handing(r)) + In(p, Handing(r)')
  BY <1>1, <1>2, Recount
<1> QED
  BY <1>2, <1>3 DEF In, One

LEMMA CarryCount ==
  ASSUME TypeInv, NEW j, NEW y \in Job \cup {None}, Turns(j, y), NEW r
  PROVE  /\ Cardinality(Carrying(r)') \in Nat
         /\ Cardinality(Carrying(r)') + One(Carries(jobs[j], r))
              = Cardinality(Carrying(r)) + One(Carries(y, r))
<1>1. IsFiniteSet(Carrying(r))
  BY Numbers
<1>2. /\ Tasks' = Tasks /\ j \in Tasks /\ jobs'[j] = y
      /\ \A i \in Tasks : i # j => jobs'[i] = jobs[i]
  BY TurnTasks DEF TypeInv, Turns
<1>3. Carrying(r)' \ {j} = Carrying(r) \ {j} /\ (j \in Carrying(r) <=> Carries(jobs[j], r))
      /\ (j \in Carrying(r)' <=> Carries(y, r))
  BY <1>2 DEF Carrying, Carries
<1>4. /\ Cardinality(Carrying(r)) \in Nat /\ Cardinality(Carrying(r)') \in Nat
      /\ Cardinality(Carrying(r)') + In(j, Carrying(r))
           = Cardinality(Carrying(r)) + In(j, Carrying(r)')
  BY <1>1, <1>3, Recount
<1> QED
  BY <1>3, <1>4 DEF In, One

LEMMA StrayCount ==
  ASSUME TypeInv, NEW j, NEW y \in Job \cup {None}, Turns(j, y), UNCHANGED redis.schedule
  PROVE  /\ Cardinality(Stray') \in Nat
         /\ Cardinality(Stray') + One(Strays(jobs[j]) /\ redis.schedule # j)
              = Cardinality(Stray) + One(Strays(y) /\ redis.schedule # j)
<1>1. IsFiniteSet(Stray)
  BY Numbers
<1>2. /\ Tasks' = Tasks /\ j \in Tasks /\ jobs'[j] = y
      /\ \A i \in Tasks : i # j => jobs'[i] = jobs[i]
  BY TurnTasks DEF TypeInv, Turns
<1>3. Stray' \ {j} = Stray \ {j} /\ (j \in Stray <=> Strays(jobs[j]) /\ redis.schedule # j)
      /\ (j \in Stray' <=> Strays(y) /\ redis.schedule # j)
  BY <1>2 DEF Stray, Strays
<1>4. /\ Cardinality(Stray) \in Nat /\ Cardinality(Stray') \in Nat
      /\ Cardinality(Stray') + In(j, Stray) = Cardinality(Stray) + In(j, Stray')
  BY <1>1, <1>3, Recount
<1> QED
  BY <1>3, <1>4 DEF In, One

LEMMA CreateCount ==
  ASSUME TypeInv, NEW j, NEW y, Creates(j, y), NEW r
  PROVE  /\ Cardinality(Carrying(r)') \in Nat
         /\ Cardinality(Carrying(r)') = Cardinality(Carrying(r)) + One(Carries(y, r))
<1>1. IsFiniteSet(Carrying(r))
  BY Numbers
<1>2. Carrying(r)' \ {j} = Carrying(r) \ {j} /\ j \notin Carrying(r)
      /\ (j \in Carrying(r)' <=> Carries(y, r))
  BY DEF Creates, Carrying, Carries
<1>3. /\ Cardinality(Carrying(r)) \in Nat /\ Cardinality(Carrying(r)') \in Nat
      /\ Cardinality(Carrying(r)') + In(j, Carrying(r))
           = Cardinality(Carrying(r)) + In(j, Carrying(r)')
  BY <1>1, <1>2, Recount
<1> QED
  BY <1>2, <1>3 DEF In, One

\* A hit changes, the tasks and Redis do not.
LEMMA SameTasks ==
  ASSUME TypeInv, UNCHANGED <<jobs, redis>>, NEW r
  PROVE  UNCHANGED <<Carrying(r), Stray, Loose(r), Owned>>
<1>1. Tasks' = Tasks
  BY DEF Tasks
<1>2. UNCHANGED Owned
  BY <1>1 DEF Owned, Holds
<1> QED
  BY <1>1, <1>2 DEF Carrying, Carries, Stray, Strays, Loose

LEMMA SameHands ==
  ASSUME UNCHANGED hit, NEW r
  PROVE  UNCHANGED Handing(r)
  BY DEF Handing, Hands

\* A step of a task that finds no new reply to send and disowns none.
LEMMA BudgetTurn ==
  ASSUME TypeInv, Budget, NEW j, NEW y \in Job \cup {None}, Turns(j, y),
         UNCHANGED <<hit, redis, asked, faults>>,
         confirmed' \in [Replies -> Nat],
         \A r \in Replies : confirmed'[r] + One(Carries(y, r))
                              <= confirmed[r] + One(Carries(jobs[j], r)),
         Strays(y) /\ redis.schedule # j => Strays(jobs[j]),
         Holds(jobs[j]) => Holds(y)
  PROVE  Budget'
<1> SUFFICES ASSUME NEW r \in Replies PROVE BudgetOf(r)'
  BY DEF Budget
<1>1. BudgetOf(r)
  BY DEF Budget
<1>2. UNCHANGED Handing(r)
  BY SameHands
<1>3. /\ Cardinality(Carrying(r)') \in Nat
      /\ Cardinality(Carrying(r)') + One(Carries(jobs[j], r))
           = Cardinality(Carrying(r)) + One(Carries(y, r))
  BY CarryCount
<1>4. /\ Cardinality(Stray') \in Nat
      /\ Cardinality(Stray') <= Cardinality(Stray)
  <2>1. /\ Cardinality(Stray') \in Nat
        /\ Cardinality(Stray') + One(Strays(jobs[j]) /\ redis.schedule # j)
             = Cardinality(Stray) + One(Strays(y) /\ redis.schedule # j)
    BY StrayCount
  <2> QED
    BY <2>1, Numbers DEF One
<1>5. Loose(r)' \in {0, 1} /\ Loose(r)' <= Loose(r)
  <2>1. /\ Tasks' = Tasks /\ j \in Tasks /\ jobs'[j] = y
        /\ \A i \in Tasks : i # j => jobs'[i] = jobs[i]
    BY TurnTasks DEF TypeInv, Turns
  <2>2. Owned => Owned'
    BY <2>1 DEF Owned, Holds
  <2> QED
    BY <2>2 DEF Loose, One
<1>6. confirmed'[r] \in Nat /\ confirmed'[r] + One(Carries(y, r))
                                 <= confirmed[r] + One(Carries(jobs[j], r))
  OBVIOUS
<1> QED
  BY <1>1, <1>2, <1>3, <1>4, <1>5, <1>6, Numbers DEF BudgetOf, One

\* A fault: one credit for one reply that lost its owner or one flush that went astray.
LEMMA BudgetFault ==
  ASSUME TypeInv, Budget, faults' = faults + 1, UNCHANGED <<asked, confirmed>>,
         \A r \in Replies : Handing(r)' \subseteq Handing(r) /\ Carrying(r)' \subseteq Carrying(r),
         \/ Stray' \subseteq Stray
         \/ \E i : /\ Stray' \subseteq Stray \cup {i}
                   /\ \A r \in Replies : redis'.pending = r /\ ~Owned' =>
                                            redis.pending = r /\ ~Owned
  PROVE  Budget'
<1> SUFFICES ASSUME NEW r \in Replies PROVE BudgetOf(r)'
  BY DEF Budget
<1>1. BudgetOf(r)
  BY DEF Budget
<1>2. /\ Cardinality(Handing(r)') \in Nat
      /\ Cardinality(Handing(r)') <= Cardinality(Handing(r))
  BY Numbers, FS_Subset, FS_CardinalityType
<1>3. /\ Cardinality(Carrying(r)') \in Nat
      /\ Cardinality(Carrying(r)') <= Cardinality(Carrying(r))
  BY Numbers, FS_Subset, FS_CardinalityType
<1>4. Loose(r)' \in {0, 1}
  BY DEF Loose, One
<1>5. /\ Cardinality(Stray') \in Nat
      /\ Cardinality(Stray') + Loose(r)' <= Cardinality(Stray) + Loose(r) + 1
  <2>1. CASE Stray' \subseteq Stray
    <3>1. Cardinality(Stray') \in Nat /\ Cardinality(Stray') <= Cardinality(Stray)
      BY <2>1, Numbers, FS_Subset, FS_CardinalityType
    <3> QED
      BY <1>4, <3>1, Numbers
  <2>2. ASSUME NEW i, Stray' \subseteq Stray \cup {i},
               redis'.pending = r /\ ~Owned' => redis.pending = r /\ ~Owned
        PROVE  /\ Cardinality(Stray') \in Nat
               /\ Cardinality(Stray') + Loose(r)' <= Cardinality(Stray) + Loose(r) + 1
    <3>1. /\ IsFiniteSet(Stray \cup {i}) /\ Cardinality(Stray \cup {i}) \in Nat
          /\ Cardinality(Stray \cup {i}) <= Cardinality(Stray) + 1
      <4>1. IsFiniteSet(Stray) /\ Cardinality(Stray) \in Nat
        BY Numbers
      <4>2. IsFiniteSet(Stray \cup {i})
            /\ Cardinality(Stray \cup {i}) \in {Cardinality(Stray), Cardinality(Stray) + 1}
        BY <4>1, FS_AddElement
      <4> QED
        BY <4>1, <4>2
    <3>2. Cardinality(Stray') \in Nat /\ Cardinality(Stray') <= Cardinality(Stray \cup {i})
      BY <2>2, <3>1, FS_Subset, FS_CardinalityType
    <3>3. Loose(r)' <= Loose(r)
      BY <2>2 DEF Loose, One
    <3> QED
      BY <1>4, <3>1, <3>2, <3>3, Numbers
  <2> QED
    BY <2>1, <2>2
<1> QED
  BY <1>1, <1>2, <1>3, <1>4, <1>5, Numbers DEF BudgetOf

\* The schedule is gone: the flush it named either goes astray or disowns the reply.
LEMMA Unscheduled ==
  ASSUME TypeInv, Loses, redis'.schedule = None, redis'.pending \in {redis.pending, None}
  PROVE  \/ Stray' \subseteq Stray
         \/ \E i : /\ Stray' \subseteq Stray \cup {i}
                   /\ \A r \in Replies : redis'.pending = r /\ ~Owned' =>
                                            redis.pending = r /\ ~Owned
<1>1. \A i \in Tasks : jobs'[i] # None => jobs'[i] = jobs[i]
  BY DEF Loses
<1>2. Stray' \subseteq Stray \cup {redis.schedule}
  BY <1>1 DEF Stray, Strays, Loses
<1>3. CASE redis.schedule \in Stray'
  <2>1. Strays(jobs[redis.schedule])
    BY <1>1, <1>3 DEF Stray, Strays, Loses
  <2>2. ~Owned
    BY <2>1 DEF Owned, Holds, Strays
  <2>3. \A r \in Replies : redis'.pending = r => redis.pending = r
    BY NoneNoReply
  <2> QED
    BY <1>2, <2>2, <2>3
<1>4. CASE redis.schedule \notin Stray'
  BY <1>2, <1>4
<1> QED
  BY <1>3, <1>4

LEMMA HitBudget ==
  ASSUME TypeInv, Budget, NEW p \in Procs,
         Reply(p) \/ ReplayRead(p) \/ ReplayCommit(p)
  PROVE  Budget'
<1> SUFFICES ASSUME NEW r \in Replies PROVE BudgetOf(r)'
  BY DEF Budget
<1>1. BudgetOf(r) /\ Shared /\ HitsFit
  BY DEF Budget, TypeInv
<1>2. UNCHANGED <<jobs, redis, confirmed, faults>>
  BY DEF Reply, ReplayRead, BeginHit, ReplayCommit, bounds
<1>3. UNCHANGED <<Carrying(r), Stray, Loose(r)>>
  BY <1>2, SameTasks
<1>4. \E h \in Hit :
         /\ HitTurns(p, h) /\ h # None /\ asked'[r] \in Nat
         /\ asked'[r] - asked[r] >= One(Hands(h, r)) - One(Hands(hit[p], r))
  <2>1. CASE Reply(p)
    <3>1. PICK n : n = Len(rows) + 1
      OBVIOUS
    <3>2. n \in Replies /\ n \notin Known /\ Len(rows') = n
      <4>1. rows \in Seq(Status) /\ "processing" \in Status /\ hits \in Nat /\ hits + 1 <= MaxHits
        BY <1>1, <2>1, DeliveryAssumption DEF Reply, BeginHit, Shared, Status
      <4>2. Len(rows) \in Nat /\ Len(rows') = Len(rows) + 1 /\ Len(rows) <= hits
        BY <1>1, <2>1, <4>1, AppendProperties DEF Reply, Shared
      <4> QED
        BY <3>1, <4>1, <4>2, DeliveryAssumption DEF Replies, Known
    <3>3. PICK h : h = [reply |-> n, loaded |-> "processing", pc |-> HandOver]
      OBVIOUS
    <3>4. h \in Hit /\ h # None /\ h.reply = n
      <4>1. h \in Hit /\ h.reply = n
        BY <3>2, <3>3 DEF Hit, HandOver, Status
      <4> QED
        BY <4>1, NoneAssumption
    <3>5. HitTurns(p, h)
      BY <2>1, <3>2, <3>3 DEF Reply, HitTurns
    <3>6. asked' = [asked EXCEPT ![n] = 1]
      BY <2>1, <3>2 DEF Reply
    <3>7. /\ asked'[r] = IF r = n THEN 1 ELSE asked[r]
          /\ asked[r] \in Nat /\ (r = n => asked[r] = 0)
      BY <1>1, <3>2, <3>6 DEF Shared
    <3>8. asked'[r] - asked[r] = One(r = n) /\ asked'[r] \in Nat
      BY <3>7 DEF One
    <3>9. One(Hands(h, r)) <= One(r = n) /\ One(Hands(hit[p], r)) \in {0, 1}
          /\ One(Hands(h, r)) \in {0, 1} /\ One(r = n) \in {0, 1}
      BY <3>4 DEF Hands, One
    <3> QED
      BY <3>4, <3>5, <3>8, <3>9
  <2>2. CASE ReplayRead(p)
    <3>1. PICK h : h = [reply |-> Len(rows), loaded |-> rows[Len(rows)], pc |-> "commit"]
      OBVIOUS
    <3>2. h \in Hit /\ h # None /\ h.pc = "commit"
      <4>1. Len(rows) \in Known /\ rows \in Seq(Status)
        BY <1>1, <2>2 DEF ReplayRead, Shared, Known
      <4>2. h \in Hit /\ h.pc = "commit"
        BY <1>1, <3>1, <4>1, KnownReplies DEF Hit, Known
      <4> QED
        BY <4>2, NoneAssumption
    <3>3. HitTurns(p, h) /\ UNCHANGED asked /\ asked[r] \in Nat
      BY <1>1, <2>2, <3>1 DEF ReplayRead, HitTurns, Shared
    <3> QED
      BY <3>2, <3>3 DEF Hands, One
  <2>3. CASE ReplayCommit(p)
    <3>1. hit[p] # None /\ hit[p].pc = "commit" /\ hit[p].reply \in Known
      BY <1>1, <2>3 DEF ReplayCommit, HitsFit
    <3>2. HandOver \in {"enqueue", "pending", "schedule"}
      BY DEF HandOver
    <3>3. PICK h \in Hit : HitTurns(p, h) /\ h # None /\ h.reply = hit[p].reply
      BY <1>1, <2>3, <3>1, <3>2, HitGoesOn DEF ReplayCommit
    <3>4. hit[p].reply \in Replies
      BY <1>1, <3>1, KnownReplies
    <3>5. asked[r] \in Nat /\ asked'[r] = asked[r] + One(r = hit[p].reply)
      BY <1>1, <2>3, <3>4 DEF ReplayCommit, Shared, One
    <3>6. One(Hands(h, r)) <= One(r = hit[p].reply) /\ One(Hands(hit[p], r)) = 0
      BY <3>1, <3>3 DEF Hands, One
    <3>7. One(Hands(h, r)) \in {0, 1} /\ One(r = hit[p].reply) \in {0, 1}
      BY DEF One
    <3> QED
      BY <3>3, <3>5, <3>6, <3>7
  <2> QED
    BY <2>1, <2>2, <2>3
<1>5. PICK h \in Hit :
         /\ HitTurns(p, h) /\ h # None /\ asked'[r] \in Nat
         /\ asked'[r] - asked[r] >= One(Hands(h, r)) - One(Hands(hit[p], r))
  BY <1>4
<1>6. /\ Cardinality(Handing(r)') \in Nat
      /\ Cardinality(Handing(r)') + One(Hands(hit[p], r))
           = Cardinality(Handing(r)) + One(Hands(h, r))
  BY <1>5, HandCount
<1>7. One(Hands(hit[p], r)) \in {0, 1} /\ One(Hands(h, r)) \in {0, 1}
  BY DEF One
<1> QED
  BY <1>1, <1>2, <1>3, <1>5, <1>6, <1>7, Numbers DEF BudgetOf

LEMMA HandOverBudget ==
  ASSUME TypeInv, Budget, NEW p \in Procs, Enqueue(p) \/ SetPending(p) \/ SetSchedule(p)
  PROVE  Budget'
<1> SUFFICES ASSUME NEW r \in Replies PROVE BudgetOf(r)'
  BY DEF Budget
<1>1. BudgetOf(r) /\ Shared /\ HitsFit /\ TasksFit
  BY DEF Budget, TypeInv
<1>2. UNCHANGED <<asked, confirmed, faults>>
  BY DEF Enqueue, SetPending, SetSchedule, bounds
<1>3. CASE Enqueue(p)
  <2>1. PICK j, y : /\ Creates(j, y) /\ y.kind = "deliver" /\ y.pc \in {"queued", "load"}
                    /\ y.reply = hit[p].reply
    BY <1>3, EnqueueCreates
  <2>2. /\ Cardinality(Carrying(r)') \in Nat
        /\ Cardinality(Carrying(r)') = Cardinality(Carrying(r)) + One(Carries(y, r))
    BY <2>1, CreateCount
  <2>3. /\ Cardinality(Handing(r)') \in Nat
        /\ Cardinality(Handing(r)') + One(Hands(hit[p], r))
             = Cardinality(Handing(r)) + One(Hands(None, r))
    BY <1>3, HandCount DEF Enqueue, HitTurns
  <2>4. One(Carries(y, r)) = One(Hands(hit[p], r)) /\ One(Hands(None, r)) = 0
        /\ One(Hands(hit[p], r)) \in {0, 1}
    BY <1>3, <2>1 DEF Creates, Carries, Hands, One, Enqueue
  <2>5. UNCHANGED redis /\ Stray' = Stray
    <3>1. UNCHANGED redis
      BY <1>3 DEF Enqueue
    <3>2. ~Strays(y)
      BY <2>1 DEF Strays
    <3>3. ASSUME NEW i PROVE i \in Stray' <=> i \in Stray
      BY <2>1, <3>1, <3>2 DEF Creates, Stray, Strays
    <3> QED
      BY <3>1, <3>3
  <2>6. Owned' = Owned
    BY <2>1, <2>5 DEF Creates, Owned, Holds
  <2>7. Loose(r)' = Loose(r)
    BY <2>5, <2>6 DEF Loose
  <2> QED
    BY <1>1, <1>2, <2>2, <2>3, <2>4, <2>5, <2>7, Numbers DEF BudgetOf
<1>4. CASE SetPending(p)
  <2>1. hit[p] # None /\ hit[p].pc = "pending" /\ UNCHANGED jobs
    BY <1>4 DEF SetPending
  <2>2. redis'.pending = hit[p].reply /\ redis'.schedule = redis.schedule
    BY <1>1, <1>4 DEF SetPending, Shared
  <2>3. PICK h \in Hit : HitTurns(p, h) /\ h # None /\ h.pc = "schedule"
    BY <1>1, <1>4, <2>1, HitGoesOn DEF SetPending
  <2>4. /\ Cardinality(Handing(r)') \in Nat
        /\ Cardinality(Handing(r)') + One(Hands(hit[p], r))
             = Cardinality(Handing(r)) + One(Hands(h, r))
    BY <2>3, HandCount
  <2>5. One(Hands(hit[p], r)) = One(r = hit[p].reply) /\ One(Hands(h, r)) = 0
    BY <2>1, <2>3 DEF Hands, One
  <2>6. UNCHANGED <<Carrying(r), Stray>>
    BY <2>1, <2>2 DEF Carrying, Carries, Stray, Strays, Tasks
  <2>7. Loose(r)' \in {0, 1} /\ Loose(r)' <= One(r = hit[p].reply)
        /\ One(r = hit[p].reply) \in {0, 1}
    BY <2>2 DEF Loose, One
  <2> QED
    BY <1>1, <1>2, <2>4, <2>5, <2>6, <2>7, Numbers DEF BudgetOf
<1>5. CASE SetSchedule(p)
  <2>1. /\ Cardinality(Handing(r)') \in Nat
        /\ Cardinality(Handing(r)') = Cardinality(Handing(r))
    <3>1. hit[p].pc = "schedule" /\ HitTurns(p, None)
      BY <1>5 DEF SetSchedule, HitTurns
    <3>2. One(Hands(hit[p], r)) = 0 /\ One(Hands(None, r)) = 0
      BY <3>1 DEF Hands, One
    <3>3. /\ Cardinality(Handing(r)') \in Nat
          /\ Cardinality(Handing(r)') + One(Hands(hit[p], r))
               = Cardinality(Handing(r)) + One(Hands(None, r))
      BY <3>1, HandCount
    <3> QED
      BY <3>2, <3>3, Numbers
  <2>2. CASE redis.schedule # None
    <3>1. UNCHANGED <<jobs, redis>>
      BY <1>5, <2>2 DEF SetSchedule
    <3>2. UNCHANGED <<Carrying(r), Stray, Loose(r)>>
      BY <3>1, SameTasks
    <3> QED
      BY <1>1, <1>2, <2>1, <3>2, Numbers DEF BudgetOf
  <2>3. CASE redis.schedule = None
    <3>1. PICK j, y : /\ Creates(j, y) /\ y.kind = "flush" /\ y.pc = "timer"
                      /\ redis' = [redis EXCEPT !.schedule = j, !.later = FALSE]
      BY <1>5, <2>3, ScheduleCreates
    <3>2. /\ Cardinality(Carrying(r)') \in Nat
          /\ Cardinality(Carrying(r)') = Cardinality(Carrying(r)) + One(Carries(y, r))
      BY <3>1, CreateCount
    <3>3. One(Carries(y, r)) = 0
      BY <3>1 DEF Carries, One
    <3>4. redis'.schedule = j /\ redis'.pending = redis.pending
      BY <1>1, <3>1 DEF Shared
    <3>5. None \notin Tasks
      BY <1>1, DeliveryAssumption DEF Tasks, TasksFit
    <3>6. Stray' = Stray
      BY <2>3, <3>1, <3>4, <3>5 DEF Creates, Stray, Strays
    <3>7. ~Owned /\ ~Owned'
      BY <2>3, <3>1, <3>4, <3>5 DEF Creates, Owned, Holds
    <3>8. Loose(r)' = Loose(r)
      BY <3>4, <3>7 DEF Loose
    <3> QED
      BY <1>1, <1>2, <2>1, <3>2, <3>3, <3>6, <3>8, Numbers DEF BudgetOf
  <2> QED
    BY <2>2, <2>3
<1> QED
  BY <1>3, <1>4, <1>5

\* The steps of a task that leave Redis alone.
LEMMA TaskBudget ==
  ASSUME TypeInv, Budget,
         \/ \E j \in DOMAIN jobs : FireTimer(j) \/ Load(j) \/ Send(j) \/ Stamp(j) \/ ReleaseGet(j)
         \/ \E p \in Procs : StartJob(p)
  PROVE  Budget'
<1>1. Shared /\ TasksFit /\ UNCHANGED <<hit, redis, asked, faults>>
  BY DEF TypeInv, FireTimer, Load, Send, Stamp, ReleaseGet, StartJob, OnlyJobs, bounds
<1>2. ASSUME NEW j, Live(j), jobs[j].pc \in {"timer", "queued"},
             MovesOn(j, First(j)) \/ (MovesOn(j, "queued") /\ jobs[j].kind = "flush"),
             UNCHANGED confirmed
      PROVE  Budget'
  <2>1. /\ First(j) \in {"get", "load"} /\ jobs[j].kind \in {"deliver", "flush"}
        /\ jobs[j].kind = "flush" => First(j) = "get"
        /\ jobs[j].kind = "deliver" => First(j) = "load" /\ jobs[j].pc = "queued"
    BY <1>1, <1>2, FirstFits
  <2>2. PICK y, next :
           /\ Turns(j, y)
           /\ Is(y, jobs[j], next, jobs[j].reply, jobs[j].loaded, jobs[j].result)
           /\ next = First(j) \/ (next = "queued" /\ jobs[j].kind = "flush")
    BY <1>2 DEF MovesOn
  <2>3. /\ \A r \in Replies : Carries(y, r) => Carries(jobs[j], r)
        /\ Strays(y) => Strays(jobs[j])
        /\ ~Holds(jobs[j]) /\ y \in Job
    BY <1>2, <2>1, <2>2 DEF Is, Carries, Strays, Holds, Turns
  <2>4. confirmed \in [Replies -> Nat]
    BY <1>1 DEF Shared
  <2>5. \A r \in Replies : confirmed'[r] + One(Carries(y, r))
                             <= confirmed[r] + One(Carries(jobs[j], r))
    BY <1>2, <2>3, <2>4 DEF One
  <2> QED
    BY <1>1, <1>2, <2>2, <2>3, <2>4, <2>5, BudgetTurn
<1>3. ASSUME NEW j, FireTimer(j) PROVE Budget'
  <2>1. Live(j) /\ jobs[j].pc = "timer" /\ jobs[j].kind = "flush"
    BY <1>1, <1>3, Living, FlushKind DEF FireTimer, At
  <2>2. MovesOn(j, First(j)) \/ MovesOn(j, "queued")
    <3>1. First(j) \in Pcs /\ "queued" \in Pcs
      BY <1>1, <2>1, FirstFits DEF Pcs
    <3>2. PICK next \in {First(j), "queued"} : jobs' = [jobs EXCEPT ![j].pc = next]
      BY <1>3 DEF FireTimer
    <3> QED
      BY <1>1, <2>1, <3>1, <3>2, ThreadTurn
  <2> QED
    BY <1>2, <1>3, <2>1, <2>2 DEF FireTimer
<1>4. ASSUME NEW p \in Procs, StartJob(p) PROVE Budget'
  BY <1>2, <1>4, StartTurn DEF StartJob
<1>5. ASSUME NEW j, Load(j) PROVE Budget'
  <2>1. PICK y : /\ Turns(j, y)
                 /\ Is(y, jobs[j], "send", jobs[j].reply, rows[jobs[j].reply], jobs[j].result)
    BY <1>1, <1>5, LoadTurn
  <2>2. jobs[j].pc = "load"
    BY <1>5 DEF Load, At
  <2>3. /\ \A r \in Replies : Carries(y, r) => Carries(jobs[j], r)
        /\ ~Strays(y) /\ (Holds(jobs[j]) => Holds(y)) /\ y \in Job
    BY <2>1, <2>2, NoneAssumption DEF Is, Carries, Strays, Holds, Turns
  <2>4. confirmed \in [Replies -> Nat] /\ UNCHANGED confirmed
    BY <1>1, <1>5 DEF Shared, Load, OnlyJobs
  <2>5. \A r \in Replies : confirmed'[r] + One(Carries(y, r))
                             <= confirmed[r] + One(Carries(jobs[j], r))
    BY <2>3, <2>4 DEF One
  <2> QED
    BY <1>1, <2>1, <2>3, <2>4, <2>5, BudgetTurn
<1>6. ASSUME NEW j, Send(j) PROVE Budget'
  <2>1. PICK y : Turns(j, y) /\
            \/ /\ Is(y, jobs[j], "stamp", jobs[j].reply, jobs[j].loaded, "sent")
               /\ confirmed' = [confirmed EXCEPT ![jobs[j].reply] = @ + 1]
            \/ /\ Is(y, jobs[j], "send", jobs[j].reply, jobs[j].loaded, jobs[j].result)
               /\ UNCHANGED confirmed
            \/ /\ Is(y, jobs[j], "stamp", jobs[j].reply, jobs[j].loaded, jobs[j].result)
               /\ UNCHANGED confirmed
    BY <1>1, <1>6, SendTurn
  <2>2. jobs[j].pc = "send" /\ jobs[j] # None /\ jobs[j].reply \in Replies
    BY <1>1, <1>6, Living, KnownReplies DEF Send, At, Fits
  <2>3. ~Strays(y) /\ (Holds(jobs[j]) => Holds(y)) /\ y \in Job
    BY <2>1, <2>2, NoneAssumption DEF Is, Strays, Holds
  <2>4. \A r \in Replies : /\ One(Carries(jobs[j], r)) = One(r = jobs[j].reply)
                           /\ One(Carries(y, r)) \in {0, 1}
                           /\ One(Carries(y, r)) <= One(r = jobs[j].reply)
                           /\ y.pc = "stamp" => One(Carries(y, r)) = 0
    BY <2>1, <2>2 DEF Is, Carries, One
  <2>5. /\ confirmed \in [Replies -> Nat] /\ confirmed' \in [Replies -> Nat]
        /\ \A r \in Replies : \/ confirmed'[r] = confirmed[r]
                              \/ y.pc = "stamp" /\ confirmed'[r] = confirmed[r] + One(r = jobs[j].reply)
    <3>1. confirmed \in [Replies -> Nat]
      BY <1>1 DEF Shared
    <3>2. CASE UNCHANGED confirmed
      BY <3>1, <3>2
    <3>3. CASE y.pc = "stamp" /\ confirmed' = [confirmed EXCEPT ![jobs[j].reply] = @ + 1]
      BY <2>2, <3>1, <3>3 DEF One
    <3> QED
      BY <2>1, <3>2, <3>3 DEF Is
  <2>6. \A r \in Replies : confirmed'[r] + One(Carries(y, r))
                             <= confirmed[r] + One(Carries(jobs[j], r))
    BY <2>4, <2>5 DEF One
  <2> QED
    BY <1>1, <2>1, <2>3, <2>5, <2>6, BudgetTurn
<1>7. ASSUME NEW j, Stamp(j) PROVE Budget'
  <2>1. Live(j) /\ jobs[j].pc = "stamp"
    BY <1>7 DEF Stamp, At
  <2>2. PICK y : Turns(j, y) /\ Finishes(j, y)
    BY <1>1, <1>7, <2>1, AfterTurn DEF Stamp
  <2>3. /\ \A r \in Replies : ~Carries(y, r)
        /\ ~Strays(y) /\ (Holds(jobs[j]) => Holds(y)) /\ y \in Job \cup {None}
    BY <2>1, <2>2, NoneAssumption DEF Finishes, Is, Carries, Strays, Holds
  <2>4. confirmed \in [Replies -> Nat] /\ UNCHANGED confirmed
    BY <1>1, <1>7 DEF Shared, Stamp
  <2>5. \A r \in Replies : confirmed'[r] + One(Carries(y, r))
                             <= confirmed[r] + One(Carries(jobs[j], r))
    BY <2>3, <2>4 DEF One
  <2> QED
    BY <1>1, <2>2, <2>3, <2>4, <2>5, BudgetTurn
<1>8. ASSUME NEW j, ReleaseGet(j) PROVE Budget'
  <2>1. jobs[j].pc = "release"
    BY <1>8 DEF ReleaseGet, At
  <2>2. \/ redis.schedule = j /\ MovesOn(j, "release_write")
        \/ Turns(j, None)
    BY <1>1, <1>8, <2>1, FlushTurn DEF FlushDelete, ReleaseDelete, At
  <2>3. PICK y \in Job \cup {None} :
           Turns(j, y) /\ (y # None => y.pc = "release_write" /\ redis.schedule = j)
    BY <2>2 DEF MovesOn, Is
  <2>4. /\ \A r \in Replies : ~Carries(y, r)
        /\ (Strays(y) => redis.schedule = j) /\ ~Holds(jobs[j])
    BY <2>1, <2>3 DEF Carries, Strays, Holds
  <2>5. confirmed \in [Replies -> Nat] /\ UNCHANGED confirmed
    BY <1>1, <1>8 DEF Shared, ReleaseGet, OnlyJobs
  <2>6. \A r \in Replies : confirmed'[r] + One(Carries(y, r))
                             <= confirmed[r] + One(Carries(jobs[j], r))
    BY <2>4, <2>5 DEF One
  <2> QED
    BY <1>1, <2>3, <2>4, <2>5, <2>6, BudgetTurn
<1> QED
  BY <1>3, <1>4, <1>5, <1>6, <1>7, <1>8

LEMMA FlushBudget ==
  ASSUME TypeInv, Budget, NEW j, FlushGet(j) \/ FlushDelete(j) \/ ReleaseDelete(j)
  PROVE  Budget'
<1> SUFFICES ASSUME NEW r \in Replies PROVE BudgetOf(r)'
  BY DEF Budget
<1>1. BudgetOf(r) /\ Shared /\ TasksFit
  BY DEF Budget, TypeInv
<1>2. UNCHANGED <<asked, confirmed, faults, Handing(r)>>
  BY SameHands DEF FlushGet, FlushDelete, ReleaseDelete, OnlyJobs, bounds
<1>3. j \in Tasks /\ jobs[j] # None /\ jobs[j].kind = "flush"
  BY <1>1, Living, FlushKind DEF FlushGet, FlushDelete, ReleaseDelete, At
<1>4. CASE FlushGet(j)
  <2>1. PICK y : Turns(j, y) /\
            \/ /\ redis.pending = None
               /\ Is(y, jobs[j], "delete", None, jobs[j].loaded, jobs[j].result)
            \/ /\ redis.pending # None
               /\ Is(y, jobs[j], "load", redis.pending, jobs[j].loaded, jobs[j].result)
    BY <1>1, <1>4, GetTurn
  <2>2. jobs[j].pc = "get" /\ UNCHANGED redis /\ y \in Job /\ y # None
    BY <1>4, <2>1, NoneAssumption DEF FlushGet, At, OnlyJobs, Is
  <2>3. /\ One(Carries(jobs[j], r)) = 0 /\ One(Carries(y, r)) = One(redis.pending = r)
        /\ Strays(jobs[j]) /\ ~Strays(y) /\ ~Holds(jobs[j]) /\ Holds(y)
    BY <1>3, <2>1, <2>2, NoneNoReply DEF Carries, One, Strays, Holds, Is
  <2>4. /\ Cardinality(Carrying(r)') \in Nat
        /\ Cardinality(Carrying(r)') = Cardinality(Carrying(r)) + One(redis.pending = r)
    <3>1. /\ Cardinality(Carrying(r)') \in Nat
          /\ Cardinality(Carrying(r)') + One(Carries(jobs[j], r))
               = Cardinality(Carrying(r)) + One(Carries(y, r))
      BY <2>1, <2>2, CarryCount
    <3> QED
      BY <2>3, <3>1, Numbers
  <2>5. /\ Cardinality(Stray') \in Nat
        /\ Cardinality(Stray') + One(redis.schedule # j) = Cardinality(Stray)
    <3>1. /\ Cardinality(Stray') \in Nat
          /\ Cardinality(Stray') + One(Strays(jobs[j]) /\ redis.schedule # j)
               = Cardinality(Stray) + One(Strays(y) /\ redis.schedule # j)
      BY <2>1, <2>2, StrayCount
    <3> QED
      BY <2>3, <3>1, Numbers DEF One
  <2>6. /\ Tasks' = Tasks /\ jobs'[j] = y
        /\ \A i \in Tasks : i # j => jobs'[i] = jobs[i]
    BY <1>1, <2>1, <2>2, TurnTasks
  <2>7. CASE redis.schedule = j
    <3>1. ~Owned /\ Owned'
      BY <1>3, <2>2, <2>3, <2>6, <2>7 DEF Owned, Holds
    <3>2. Loose(r) = One(redis.pending = r) /\ Loose(r)' = 0
      BY <3>1 DEF Loose, One
    <3> QED
      BY <1>1, <1>2, <2>4, <2>5, <2>7, <3>2, Numbers DEF BudgetOf, One
  <2>8. CASE redis.schedule # j
    <3>1. Owned' <=> Owned
      BY <2>2, <2>6, <2>8 DEF Owned, Holds
    <3>2. Loose(r)' = Loose(r)
      BY <2>2, <3>1 DEF Loose, One
    <3>3. One(redis.pending = r) \in {0, 1} /\ One(redis.schedule # j) = 1
      BY <2>8 DEF One
    <3> QED
      BY <1>1, <1>2, <2>4, <2>5, <3>2, <3>3, Numbers DEF BudgetOf
  <2> QED
    BY <2>7, <2>8
<1>5. CASE FlushDelete(j)
  <2>1. PICK y : Turns(j, y) /\ Is(y, jobs[j], "release", jobs[j].reply, jobs[j].loaded, jobs[j].result)
    BY <1>1, <1>5, FlushTurn DEF MovesOn, FlushDelete, ReleaseGet, ReleaseDelete, At
  <2>2. jobs[j].pc = "delete" /\ y \in Job
    BY <1>5, <2>1 DEF FlushDelete, At, Is
  <2>3. redis'.pending = None /\ redis'.schedule = redis.schedule
    BY <1>1, <1>5 DEF FlushDelete, Shared
  <2>4. ~Carries(jobs[j], r) /\ ~Carries(y, r) /\ ~Strays(jobs[j]) /\ ~Strays(y)
    BY <1>3, <2>1, <2>2 DEF Carries, Strays, Is
  <2>5. /\ Cardinality(Carrying(r)') \in Nat
        /\ Cardinality(Carrying(r)') + One(Carries(jobs[j], r))
             = Cardinality(Carrying(r)) + One(Carries(y, r))
    BY <2>1, <2>2, CarryCount
  <2>6. /\ Cardinality(Stray') \in Nat
        /\ Cardinality(Stray') + One(Strays(jobs[j]) /\ redis.schedule # j)
             = Cardinality(Stray) + One(Strays(y) /\ redis.schedule # j)
    BY <2>1, <2>2, <2>3, StrayCount
  <2>7. Loose(r)' = 0
    BY <2>3, NoneNoReply DEF Loose, One
  <2> QED
    BY <1>1, <1>2, <2>4, <2>5, <2>6, <2>7, Numbers DEF BudgetOf, One
<1>6. CASE ReleaseDelete(j)
  <2>1. Turns(j, None) /\ jobs[j].pc = "release_write"
    BY <1>1, <1>6, FlushTurn DEF FlushDelete, ReleaseGet, ReleaseDelete, At
  <2>2. redis'.pending = redis.pending /\ redis'.schedule = None
    BY <1>1, <1>6 DEF ReleaseDelete, Shared
  <2>3. /\ Tasks' = Tasks /\ jobs'[j] = None
        /\ \A i \in Tasks : i # j => jobs'[i] = jobs[i]
    BY <1>1, <2>1, TurnTasks
  <2>4. Cardinality(Carrying(r)') = Cardinality(Carrying(r))
    <3>1. ~Carries(jobs[j], r) /\ ~Carries(None, r)
      BY <1>3, <2>1 DEF Carries
    <3>2. /\ Cardinality(Carrying(r)') \in Nat
          /\ Cardinality(Carrying(r)') + One(Carries(jobs[j], r))
               = Cardinality(Carrying(r)) + One(Carries(None, r))
      BY <2>1, CarryCount
    <3> QED
      BY <3>1, <3>2, Numbers DEF One
  <2>5. Loses
    BY <2>3 DEF Loses
  <2>6. Cardinality(Stray') + Loose(r)' <= Cardinality(Stray) + Loose(r)
        /\ Cardinality(Stray') \in Nat /\ Loose(r)' \in {0, 1}
    <3>1. Loose(r)' \in {0, 1} /\ j \notin Stray'
      BY <2>3 DEF Loose, One, Stray, Strays
    <3>2. CASE redis.schedule = j
      <4>1. Stray' \subseteq Stray /\ ~Owned
        <5>1. ASSUME NEW i \in Stray' PROVE i \in Stray
          BY <2>3, <3>1, <3>2 DEF Stray, Strays
        <5>2. ~Holds(jobs[j])
          BY <2>1 DEF Holds
        <5> QED
          BY <3>2, <5>1, <5>2 DEF Owned
      <4>2. Loose(r)' <= Loose(r)
        BY <2>2, <4>1 DEF Loose, One
      <4>3. Cardinality(Stray') \in Nat /\ Cardinality(Stray') <= Cardinality(Stray)
        BY <4>1, Numbers, FS_Subset, FS_CardinalityType
      <4> QED
        BY <3>1, <4>2, <4>3, Numbers
    <3>3. CASE redis.schedule # j
      <4>1. /\ IsFiniteSet(Stray \ {j})
            /\ Cardinality(Stray \ {j}) = Cardinality(Stray) - 1
        <5>1. j \in Stray
          BY <1>3, <2>1, <3>3 DEF Stray, Strays
        <5> QED
          BY <5>1, Numbers, FS_RemoveElement
      <4>2. CASE Stray' \subseteq Stray
        <5>1. Stray' \subseteq Stray \ {j}
          BY <3>1, <4>2
        <5>2. Cardinality(Stray') \in Nat /\ Cardinality(Stray') <= Cardinality(Stray \ {j})
          BY <4>1, <5>1, FS_Subset, FS_CardinalityType
        <5> QED
          BY <3>1, <4>1, <5>2, Numbers
      <4>3. ASSUME NEW i, Stray' \subseteq Stray \cup {i},
                   redis'.pending = r /\ ~Owned' => redis.pending = r /\ ~Owned
            PROVE  Cardinality(Stray') + Loose(r)' <= Cardinality(Stray) + Loose(r)
                   /\ Cardinality(Stray') \in Nat
        <5>1. Stray' \subseteq (Stray \ {j}) \cup {i}
          BY <3>1, <4>3
        <5>2. /\ IsFiniteSet((Stray \ {j}) \cup {i})
              /\ Cardinality((Stray \ {j}) \cup {i})
                   \in {Cardinality(Stray \ {j}), Cardinality(Stray \ {j}) + 1}
          BY <4>1, FS_AddElement
        <5>3. /\ Cardinality(Stray') \in Nat
              /\ Cardinality((Stray \ {j}) \cup {i}) \in Nat
              /\ Cardinality(Stray') <= Cardinality((Stray \ {j}) \cup {i})
          BY <5>1, <5>2, FS_Subset, FS_CardinalityType
        <5>4. Loose(r)' <= Loose(r)
          BY <4>3 DEF Loose, One
        <5> QED
          BY <3>1, <4>1, <5>2, <5>3, <5>4, Numbers
      <4>4. \/ Stray' \subseteq Stray
            \/ \E i : /\ Stray' \subseteq Stray \cup {i}
                      /\ redis'.pending = r /\ ~Owned' => redis.pending = r /\ ~Owned
        BY <2>2, <2>5, Unscheduled
      <4> QED
        BY <3>1, <4>2, <4>3, <4>4
    <3> QED
      BY <3>2, <3>3
  <2> QED
    BY <1>1, <1>2, <2>4, <2>6, Numbers DEF BudgetOf
<1> QED
  BY <1>4, <1>5, <1>6

\* A fault that only loses tasks, or moves one past what it carried.
LEMMA FaultBudget ==
  ASSUME TypeInv, Budget,
         \/ \E p \in Procs : Crash(p) \/ Shutdown(p) \/ HitRedisError(p)
         \/ \E j \in DOMAIN jobs : DeliverError(j) \/ FlushRedisError(j)
         \/ Expire
  PROVE  Budget'
<1>1. Shared /\ TasksFit /\ HitsFit /\ faults' = faults + 1 /\ UNCHANGED <<asked, confirmed>>
  BY DEF TypeInv, Crash, Shutdown, HitRedisError, DeliverError, FlushRedisError, Expire, Fault
<1>2. ASSUME Loses, NEW r PROVE Carrying(r)' \subseteq Carrying(r)
  BY <1>2 DEF Loses, Carrying, Carries
<1>3. ASSUME Loses, UNCHANGED redis PROVE Stray' \subseteq Stray
  BY <1>3 DEF Loses, Stray, Strays
<1>4. ASSUME UNCHANGED hit \/ \E p \in Procs : HitTurns(p, None), NEW r
      PROVE  Handing(r)' \subseteq Handing(r)
  BY <1>1, <1>4, HitSet DEF Handing, Hands
<1>5. ASSUME NEW p \in Procs, Crash(p) \/ Shutdown(p) PROVE Budget'
  <2>1. Loses /\ UNCHANGED redis /\ (UNCHANGED hit \/ HitTurns(p, None))
    BY <1>5, Losses DEF Crash, Shutdown, HitTurns
  <2> QED
    BY <1>1, <1>2, <1>3, <1>4, <2>1, BudgetFault
<1>6. ASSUME NEW p \in Procs, HitRedisError(p) PROVE Budget'
  <2>1. UNCHANGED <<jobs, redis>>
    BY <1>6 DEF HitRedisError
  <2>2. ASSUME NEW r PROVE Handing(r)' \subseteq Handing(r)
    <3>1. CASE HitTurns(p, None)
      BY <1>4, <3>1
    <3>2. CASE hit' = [hit EXCEPT ![p].pc = "schedule"]
      <4>1. PICK h \in Hit : HitTurns(p, h) /\ h.pc = "schedule"
        BY <1>1, <1>6, <3>2, HitGoesOn DEF HitRedisError
      <4> QED
        BY <1>1, <4>1, HitSet DEF Handing, Hands
    <3> QED
      BY <1>6, <3>1, <3>2 DEF HitRedisError, HitTurns
  <2> QED
    BY <1>1, <1>2, <1>3, <2>1, <2>2, Untouched, BudgetFault
<1>7. ASSUME NEW j, DeliverError(j) \/ FlushRedisError(j) PROVE Budget'
  <2>1. UNCHANGED <<hit, redis>> /\ Live(j)
    BY <1>7 DEF DeliverError, FlushRedisError, At
  <2>2. PICK y \in Job \cup {None} :
           /\ Turns(j, y)
           /\ y # None => y.pc \in {"delete", "release"}
    <3>1. CASE DeliverError(j)
      <4>1. PICK y : Turns(j, y) /\ Finishes(j, y)
        BY <1>1, <2>1, <3>1, AfterTurn DEF DeliverError
      <4> QED
        BY <4>1 DEF Finishes, Is
    <3>2. CASE FlushRedisError(j)
      BY <1>1, <3>2, FlushErrorTurn DEF MovesOn, Is
    <3> QED
      BY <1>7, <3>1, <3>2
  <2>3. /\ Tasks' = Tasks /\ jobs'[j] = y
        /\ \A i \in Tasks : i # j => jobs'[i] = jobs[i]
    BY <1>1, <2>2, TurnTasks
  <2>4. ~Strays(y) /\ \A r : ~Carries(y, r)
    BY <2>2 DEF Strays, Carries
  <2>5. ASSUME NEW r PROVE Carrying(r)' \subseteq Carrying(r)
    BY <2>3, <2>4 DEF Carrying, Carries
  <2>6. Stray' \subseteq Stray
    BY <2>1, <2>3, <2>4 DEF Stray, Strays
  <2> QED
    BY <1>1, <1>4, <2>1, <2>5, <2>6, BudgetFault
<1>8. ASSUME Expire PROVE Budget'
  <2>1. UNCHANGED <<hit, jobs>> /\ Loses
    BY <1>8, Untouched DEF Expire
  <2>2. CASE redis'.schedule = None /\ redis'.pending \in {redis.pending, None}
    BY <1>1, <1>2, <1>4, <2>1, <2>2, Unscheduled, BudgetFault
  <2>3. CASE redis'.schedule = redis.schedule
    <3>1. Stray' \subseteq Stray
      BY <2>1, <2>3 DEF Stray, Strays, Tasks
    <3> QED
      BY <1>1, <1>2, <1>4, <2>1, <3>1, BudgetFault
  <2> QED
    BY <1>1, <1>8, <2>2, <2>3 DEF Expire, Shared
<1> QED
  BY <1>5, <1>6, <1>7, <1>8

LEMMA NextBudget == TypeInv /\ Budget /\ [Next]_vars => Budget'
<1> SUFFICES ASSUME TypeInv, Budget, [Next]_vars PROVE Budget'
  OBVIOUS
<1>1. CASE UNCHANGED vars
  <2> SUFFICES ASSUME NEW r \in Replies PROVE BudgetOf(r)'
    BY DEF Budget
  <2>1. UNCHANGED <<Handing(r), Carrying(r), Stray, Loose(r), confirmed, asked, faults>>
    BY <1>1, SameTasks, SameHands DEF vars, bounds
  <2> QED
    BY <2>1 DEF Budget, BudgetOf
<1> QED
  BY <1>1, HitBudget, HandOverBudget, TaskBudget, FlushBudget, FaultBudget
     DEF Next, HitStep, JobStep

\* The provider confirms a reply no more often than hits asked for it, one more for each
\* crash, failed command or expired key: however the hits, the flushes, their timers and
\* the releases of the schedule overlap (SentOncePerHit).
THEOREM SentOncePerHitAlways == Spec => []SentOncePerHit
<1>1. Init => Budget
  <2> SUFFICES ASSUME Init, NEW r \in Replies PROVE BudgetOf(r)
    BY DEF Budget
  <2>1. Tasks = {} /\ \A p \in Procs : hit[p] = None
    BY DEF Init, Tasks
  <2>2. Handing(r) = {} /\ Carrying(r) = {} /\ Stray = {}
    BY <2>1 DEF Handing, Hands, Carrying, Stray
  <2>3. redis.pending = None /\ confirmed[r] = 0 /\ asked[r] = 0 /\ faults = 0
    BY DEF Init
  <2>4. Loose(r) = 0
    BY <2>3, NoneNoReply DEF Loose, One
  <2> QED
    BY <2>2, <2>3, <2>4, FS_EmptySet DEF BudgetOf
<1>2. TypeInv /\ Budget => SentOncePerHit
  <2> SUFFICES ASSUME TypeInv, Budget, NEW r \in Replies PROVE confirmed[r] <= asked[r] + faults
    BY DEF SentOncePerHit
  <2>1. BudgetOf(r)
    BY DEF Budget
  <2> QED
    BY <2>1, Numbers DEF BudgetOf
<1> QED
  BY <1>1, <1>2, InitType, NextType, NextBudget, PTL DEF Spec

-----------------------------------------------------------------------------
(* No row is left "processing" *)

\* Who will stamp reply r: a hit that is about to queue its delivery, or a delivery that
\* has not read the row yet, or that read it as "processing".
Queues(h, r) == h # None /\ h.reply = r /\ h.pc = "enqueue"
Stamps(x, r) ==
    /\ x # None /\ x.kind = "deliver" /\ x.reply = r
    /\ x.pc \in {"queued", "load"} \/ (x.pc \in {"send", "stamp"} /\ x.loaded = "processing")
Cleaner(r) == (\E p \in Procs : Queues(hit[p], r)) \/ \E j \in Tasks : Stamps(jobs[j], r)

Settling == faults = 0 /\ ~deploy.coalesce =>
    /\ \A p \in Procs : hit[p] # None => hit[p].pc \in {"commit", "enqueue"}
    /\ \A r \in Known : rows[r] = "processing" => Cleaner(r)

LEMMA SettlingTurn ==
  ASSUME TypeInv, Settling, NEW j, NEW y \in Job \cup {None}, Turns(j, y),
         UNCHANGED <<deploy, hit, faults, Known>>,
         \A r \in Known : rows'[r] = "processing" =>
            rows[r] = "processing" /\ (Stamps(jobs[j], r) => Stamps(y, r))
  PROVE  Settling'
<1>1. /\ Tasks' = Tasks /\ j \in Tasks /\ jobs'[j] = y
      /\ \A i \in Tasks : i # j => jobs'[i] = jobs[i]
  BY TurnTasks DEF TypeInv, Turns
<1>2. ASSUME NEW r \in Known, Cleaner(r), rows'[r] = "processing" PROVE Cleaner(r)'
  <2>1. CASE \E p \in Procs : Queues(hit[p], r)
    BY <2>1 DEF Cleaner, Queues
  <2>2. CASE \E i \in Tasks : Stamps(jobs[i], r)
    BY <1>1, <1>2, <2>2 DEF Cleaner, Stamps
  <2> QED
    BY <1>2, <2>1, <2>2 DEF Cleaner
<1> QED
  BY <1>2 DEF Settling

\* A hit begins or asks again: its reply is the only one that becomes "processing".
LEMMA SettlingHit ==
  ASSUME TypeInv, Settling, NEW p \in Procs, NEW h \in Hit, HitTurns(p, h), h # None,
         UNCHANGED <<deploy, jobs, faults>>, ~deploy.coalesce => h.pc \in {"commit", "enqueue"},
         \A r : ~Queues(hit[p], r),
         \A r \in Known' : rows'[r] = "processing" =>
            (r \in Known /\ rows[r] = "processing") \/ (~deploy.coalesce => Queues(h, r))
  PROVE  Settling'
<1>1. /\ hit'[p] = h /\ \A q \in Procs : q # p => hit'[q] = hit[q]
  BY HitSet DEF TypeInv
<1>2. Tasks' = Tasks
  BY DEF Tasks
<1>3. ASSUME NEW r, Cleaner(r) PROVE Cleaner(r)'
  <2>1. CASE \E q \in Procs : Queues(hit[q], r)
    BY <1>1, <2>1 DEF Cleaner, Queues
  <2>2. CASE \E i \in Tasks : Stamps(jobs[i], r)
    BY <1>2, <2>2 DEF Cleaner, Stamps
  <2> QED
    BY <1>3, <2>1, <2>2 DEF Cleaner
<1>4. ASSUME NEW r, Queues(h, r) PROVE Cleaner(r)'
  BY <1>1, <1>4 DEF Cleaner, Queues
<1>5. ASSUME faults' = 0, ~deploy'.coalesce, NEW r \in Known', rows'[r] = "processing"
      PROVE  Cleaner(r)'
  BY <1>3, <1>4, <1>5 DEF Settling
<1>6. ASSUME faults' = 0, ~deploy'.coalesce, NEW q \in Procs, hit'[q] # None
      PROVE  hit'[q].pc \in {"commit", "enqueue"}
  BY <1>1, <1>6 DEF Settling
<1> QED
  BY <1>5, <1>6 DEF Settling

LEMMA NextSettling == TypeInv /\ Settling /\ [Next]_vars => Settling'
<1> SUFFICES ASSUME TypeInv, Settling, [Next]_vars PROVE Settling'
  OBVIOUS
<1>1. Shared /\ TasksFit /\ HitsFit /\ faults \in Nat /\ rows \in Seq(Status) /\ Len(rows) \in Nat
  BY DeliveryAssumption DEF TypeInv, Shared
<1>2. ASSUME Fault PROVE Settling'
  BY <1>1, <1>2 DEF Fault, Settling
<1>3. ASSUME NEW p \in Procs, Reply(p) PROVE Settling'
  <2>1. PICK n : n = Len(rows) + 1
    OBVIOUS
  <2>2. /\ Len(rows') = n /\ n \in Replies
        /\ \A r \in Known' : r = n \/ (r \in Known /\ rows'[r] = rows[r])
    <3>1. "processing" \in Status /\ hits \in Nat /\ hits + 1 <= MaxHits /\ Len(rows) <= hits
      BY <1>1, <1>3, DeliveryAssumption DEF Reply, BeginHit, Shared, Status
    <3>2. Len(rows') = Len(rows) + 1 /\ \A i \in 1 .. Len(rows) : rows'[i] = rows[i]
      BY <1>1, <1>3, <3>1, AppendProperties DEF Reply
    <3> QED
      BY <1>1, <2>1, <3>1, <3>2, DeliveryAssumption DEF Replies, Known
  <2>3. PICK h : h = [reply |-> n, loaded |-> "processing", pc |-> HandOver]
    OBVIOUS
  <2>4. h \in Hit /\ h # None /\ h.reply = n /\ h.pc = HandOver
    <3>1. h \in Hit /\ h.reply = n /\ h.pc = HandOver
      BY <2>2, <2>3 DEF Hit, HandOver, Status
    <3> QED
      BY <3>1, NoneAssumption
  <2>5. HitTurns(p, h) /\ hit[p] = None /\ UNCHANGED <<deploy, jobs, faults>>
    BY <1>3, <2>2, <2>3 DEF Reply, BeginHit, HitTurns
  <2>6. ~deploy.coalesce => h.pc = "enqueue" /\ Queues(h, n)
    BY <2>4 DEF HandOver, Queues
  <2>7. \A r : ~Queues(hit[p], r)
    BY <2>5 DEF Queues
  <2> QED
    BY <2>2, <2>4, <2>5, <2>6, <2>7, SettlingHit
<1>4. ASSUME NEW p \in Procs, ReplayRead(p) PROVE Settling'
  <2>1. PICK h : h = [reply |-> Len(rows), loaded |-> rows[Len(rows)], pc |-> "commit"]
    OBVIOUS
  <2>2. h \in Hit /\ h # None /\ h.pc = "commit"
    <3>1. Len(rows) \in Known
      BY <1>1, <1>4 DEF ReplayRead, Known
    <3>2. h \in Hit /\ h.pc = "commit"
      BY <1>1, <2>1, <3>1, KnownReplies DEF Hit, Known
    <3> QED
      BY <3>2, NoneAssumption
  <2>3. HitTurns(p, h) /\ hit[p] = None /\ UNCHANGED <<deploy, jobs, faults, rows, Known>>
    BY <1>4, <2>1 DEF ReplayRead, BeginHit, HitTurns, Known
  <2>4. \A r : ~Queues(hit[p], r)
    BY <2>3 DEF Queues
  <2> QED
    BY <2>2, <2>3, <2>4, SettlingHit
<1>5. ASSUME NEW p \in Procs, ReplayCommit(p) PROVE Settling'
  <2>1. hit[p] # None /\ hit[p].pc = "commit" /\ hit[p].reply \in 1 .. Len(rows)
    BY <1>1, <1>5 DEF ReplayCommit, HitsFit, Known
  <2>2. HandOver \in {"enqueue", "pending", "schedule"}
    BY DEF HandOver
  <2>3. PICK h \in Hit : HitTurns(p, h) /\ h # None /\ h.pc = HandOver /\ h.reply = hit[p].reply
    BY <1>1, <1>5, <2>1, <2>2, HitGoesOn DEF ReplayCommit
  <2>4. ~deploy.coalesce => h.pc = "enqueue" /\ Queues(h, hit[p].reply)
    BY <2>3 DEF HandOver, Queues
  <2>5. Known' = Known /\ \A r \in Known : r = hit[p].reply \/ rows'[r] = rows[r]
    BY <1>1, <1>5, <2>1 DEF ReplayCommit, Known
  <2>6. \A r : ~Queues(hit[p], r)
    BY <2>1 DEF Queues
  <2>7. UNCHANGED <<deploy, jobs, faults>>
    BY <1>5 DEF ReplayCommit, bounds
  <2> QED
    BY <2>3, <2>4, <2>5, <2>6, <2>7, SettlingHit
<1>6. ASSUME NEW p \in Procs, Enqueue(p) PROVE Settling'
  <2>1. PICK j, y : /\ Creates(j, y) /\ y.kind = "deliver" /\ y.pc \in {"queued", "load"}
                    /\ y.reply = hit[p].reply
    BY <1>6, EnqueueCreates
  <2>2. UNCHANGED <<deploy, rows, faults, Known>> /\ HitTurns(p, None)
    BY <1>6 DEF Enqueue, bounds, Known, HitTurns
  <2>3. hit'[p] = None /\ \A q \in Procs : q # p => hit'[q] = hit[q]
    BY <1>1, <2>2, HitSet
  <2>4. ASSUME NEW r, Cleaner(r) PROVE Cleaner(r)'
    <3>1. CASE Queues(hit[p], r)
      <4>1. Stamps(y, r)
        BY <2>1, <3>1 DEF Creates, Queues, Stamps
      <4> QED
        BY <2>1, <4>1 DEF Creates, Cleaner, Stamps
    <3>2. CASE \E q \in Procs : q # p /\ Queues(hit[q], r)
      BY <2>3, <3>2 DEF Cleaner, Queues
    <3>3. CASE \E i \in Tasks : Stamps(jobs[i], r)
      BY <2>1, <3>3 DEF Creates, Cleaner, Stamps
    <3> QED
      BY <2>4, <3>1, <3>2, <3>3 DEF Cleaner
  <2> QED
    BY <2>2, <2>3, <2>4 DEF Settling
<1>7. ASSUME NEW p \in Procs, SetPending(p) \/ SetSchedule(p) PROVE Settling'
  <2>1. hit[p] # None /\ hit[p].pc \in {"pending", "schedule"} /\ UNCHANGED <<deploy, faults>>
    BY <1>7 DEF SetPending, SetSchedule, bounds
  <2> QED
    BY <2>1 DEF Settling
<1>8. ASSUME NEW j, NEW y \in Job \cup {None}, Turns(j, y),
             UNCHANGED <<deploy, hit, rows, faults>>,
             \A r : Stamps(jobs[j], r) => Stamps(y, r)
      PROVE  Settling'
  BY <1>8, SettlingTurn DEF Known
<1>9. ASSUME NEW j, FireTimer(j) PROVE Settling'
  <2>1. Live(j) /\ jobs[j].pc = "timer" /\ "queued" \in Pcs
    BY <1>9 DEF FireTimer, At, Pcs
  <2>2. PICK next \in Pcs : MovesOn(j, next)
    <3>1. First(j) \in Pcs
      BY <1>1, <2>1, FirstFits
    <3>2. PICK next \in Pcs : jobs' = [jobs EXCEPT ![j].pc = next]
      BY <1>9, <2>1, <3>1 DEF FireTimer
    <3> QED
      BY <1>1, <2>1, <3>2, ThreadTurn
  <2>3. \A r : ~Stamps(jobs[j], r)
    BY <2>1 DEF Stamps
  <2> QED
    BY <1>8, <1>9, <2>2, <2>3 DEF MovesOn, Is, FireTimer, bounds
<1>10. ASSUME NEW p \in Procs, StartJob(p) PROVE Settling'
  <2>1. PICK j : Live(j) /\ jobs[j].pc = "queued" /\ MovesOn(j, First(j))
    BY <1>10, StartTurn
  <2>2. PICK y : Turns(j, y) /\ Is(y, jobs[j], First(j), jobs[j].reply, jobs[j].loaded, jobs[j].result)
    BY <2>1 DEF MovesOn
  <2>3. jobs[j].kind = "deliver" => First(j) = "load"
    BY <1>1, <2>1, FirstFits
  <2>4. \A r : Stamps(jobs[j], r) => Stamps(y, r)
    BY <2>1, <2>2, <2>3, NoneAssumption DEF Is, Stamps
  <2> QED
    BY <1>8, <1>10, <2>2, <2>4 DEF Is, StartJob, bounds
<1>11. ASSUME NEW j, Load(j) PROVE Settling'
  <2>1. PICK y : /\ Turns(j, y)
                 /\ Is(y, jobs[j], "send", jobs[j].reply, rows[jobs[j].reply], jobs[j].result)
    BY <1>1, <1>11, LoadTurn
  <2>2. UNCHANGED <<deploy, hit, rows, faults, Known>>
    BY <1>11 DEF Load, OnlyJobs, bounds, Known
  <2>3. \A r \in Known : rows[r] = "processing" /\ Stamps(jobs[j], r) => Stamps(y, r)
    BY <2>1, NoneAssumption DEF Is, Stamps
  <2> QED
    BY <2>1, <2>2, <2>3, SettlingTurn DEF Is
<1>12. ASSUME NEW j, Send(j) PROVE Settling'
  <2>1. PICK y : Turns(j, y) /\
            \/ /\ Is(y, jobs[j], "stamp", jobs[j].reply, jobs[j].loaded, "sent")
               /\ confirmed' = [confirmed EXCEPT ![jobs[j].reply] = @ + 1]
            \/ /\ Is(y, jobs[j], "send", jobs[j].reply, jobs[j].loaded, jobs[j].result)
               /\ UNCHANGED confirmed
            \/ /\ Is(y, jobs[j], "stamp", jobs[j].reply, jobs[j].loaded, jobs[j].result)
               /\ UNCHANGED confirmed
    BY <1>1, <1>12, SendTurn
  <2>2. jobs[j].pc = "send"
    BY <1>12 DEF Send, At
  <2>3. \A r : Stamps(jobs[j], r) => Stamps(y, r)
    BY <2>1, <2>2, NoneAssumption DEF Is, Stamps
  <2> QED
    BY <1>8, <1>12, <2>1, <2>3 DEF Is, Send, bounds
<1>13. ASSUME NEW j, Stamp(j) PROVE Settling'
  <2>1. Live(j) /\ jobs[j].pc = "stamp" /\ UNCHANGED <<deploy, hit, faults>>
    BY <1>13 DEF Stamp, At, bounds
  <2>2. PICK y : Turns(j, y) /\ Finishes(j, y)
    BY <1>1, <1>13, <2>1, AfterTurn DEF Stamp
  <2>3. jobs[j] \in Job /\ jobs[j].reply \in 1 .. Len(rows)
    BY <1>1, <2>1, Living DEF Fits, Known
  <2>4. jobs[j].result \in {"sent", "failed"} /\ \A r : r # jobs[j].reply => ~Stamps(jobs[j], r)
    BY <2>3 DEF Job, Stamps
  <2>5. Known' = Known /\ \A r \in Known : r # jobs[j].reply => rows'[r] = rows[r]
    BY <1>1, <1>13, <2>3 DEF Stamp, Known
  <2>6. \/ rows'[jobs[j].reply] # "processing"
        \/ rows' = rows /\ ~Stamps(jobs[j], jobs[j].reply)
    <3>1. CASE jobs[j].result = jobs[j].loaded
      BY <1>13, <2>1, <2>4, <3>1 DEF Stamp, Stamps
    <3>2. CASE jobs[j].result # jobs[j].loaded
      BY <1>1, <1>13, <2>3, <2>4, <3>2 DEF Stamp
    <3> QED
      BY <3>1, <3>2
  <2>7. \A r \in Known : rows'[r] = "processing" =>
           rows[r] = "processing" /\ (Stamps(jobs[j], r) => Stamps(y, r))
    BY <2>4, <2>5, <2>6
  <2> QED
    BY <2>1, <2>2, <2>5, <2>7, SettlingTurn DEF Finishes, Is
<1>14. ASSUME NEW j, FlushGet(j) \/ FlushDelete(j) \/ ReleaseGet(j) \/ ReleaseDelete(j)
       PROVE  Settling'
  <2>1. jobs[j].kind = "flush" /\ UNCHANGED <<deploy, hit, rows, faults>>
    BY <1>1, <1>14, Living, FlushKind
       DEF FlushGet, FlushDelete, ReleaseGet, ReleaseDelete, At, OnlyJobs, bounds
  <2>2. \E y \in Job \cup {None} : Turns(j, y)
    BY <1>1, <1>14, GetTurn, FlushTurn DEF MovesOn, Is
  <2>3. \A r : ~Stamps(jobs[j], r)
    BY <2>1 DEF Stamps
  <2> QED
    BY <1>8, <2>1, <2>2, <2>3
<1>15. CASE UNCHANGED vars
  <2>1. \A r : Cleaner(r)' <=> Cleaner(r)
    BY <1>15 DEF vars, Cleaner, Tasks, Queues, Stamps
  <2> QED
    BY <1>15, <2>1 DEF vars, bounds, Settling, Known
<1> QED
  BY <1>2, <1>3, <1>4, <1>5, <1>6, <1>7, <1>9, <1>10, <1>11, <1>12, <1>13, <1>14, <1>15
     DEF Next, HitStep, JobStep, Crash, Shutdown, HitRedisError, DeliverError, FlushRedisError,
         Expire

\* Without coalescing and without faults, every reply's row is stamped by the time nothing
\* is in progress, however the deliveries of a reply and of its replays overlap
\* (RepliesSettle).
THEOREM RepliesSettleAlways == Spec => []RepliesSettle
<1>1. Init => Settling
  <2> SUFFICES ASSUME Init PROVE Settling
    OBVIOUS
  <2>1. Known = {} /\ \A p \in Procs : hit[p] = None
    BY DEF Init, Known
  <2> QED
    BY <2>1 DEF Settling
<1>2. TypeInv /\ Settling => RepliesSettle
  <2> SUFFICES ASSUME TypeInv, Settling, Quiet, faults = 0, ~deploy.coalesce,
                      NEW r \in DOMAIN rows, rows[r] = "processing"
               PROVE  FALSE
    BY DEF RepliesSettle
  <2>1. Cleaner(r)
    BY DEF TypeInv, Shared, Settling, Known
  <2>2. \A j \in Tasks : jobs[j] = None
    BY DEF TypeInv, TasksFit, Tasks, Quiet
  <2> QED
    BY <2>1, <2>2 DEF Cleaner, Queues, Stamps, Quiet
<1> QED
  BY <1>1, <1>2, InitType, NextType, NextSettling, PTL DEF Spec
=============================================================================
