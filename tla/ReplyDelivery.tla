---------------------------- MODULE ReplyDelivery ----------------------------
(***************************************************************************)
(* From the commit of a reply to the customer's phone: the background      *)
(* queue of each server process, the transport's retries, the stamp on the *)
(* outgoing row and, where burst coalescing is on, the pending reply and   *)
(* its schedule in Redis.  One customer; Conversation has the hits up to   *)
(* the commit.  A process handles one hit at a time and runs its queue in  *)
(* threads of its own.                                                     *)
(***************************************************************************)
EXTENDS Naturals, Sequences, FiniteSets

CONSTANTS
    Procs,          \* server processes
    Deployments,    \* [coalesce, threaded]: WHATSAPP_BURST_COALESCE_ENABLED with Redis;
                    \* ThreadedQueue or InProcessQueue
    Threads,        \* max_workers of the thread pool (4 in the code)
    SendRetries,    \* _SEND_RETRIES (2 in the code)
    MaxHits,        \* bound on the webhook hits that queue a reply
    MaxFaults,      \* bound on crashes, shutdowns, failed Redis and database calls, and
                    \* Redis keys that expire under a flush
    None

ASSUME DeliveryAssumption ==
    /\ Deployments \subseteq [coalesce : BOOLEAN, threaded : BOOLEAN]
    /\ Threads \in Nat \ {0} /\ SendRetries \in Nat
    /\ MaxHits \in Nat /\ MaxFaults \in Nat
    /\ None \notin Nat

Replies == 1 .. MaxHits         \* outgoing_messages, in created_at order
Jobs == 1 .. MaxHits            \* background tasks, in order of creation
Status == {"processing", "sent", "failed"}

\* A hit past its commit, or replaying: its reply and the status it loaded.
Hit == [reply : Replies, loaded : Status, pc : {"commit", "enqueue", "pending", "schedule"}]

\* A _deliver_outgoing_message or _flush_coalesced_reply; a flush is its own token.
Running == {"get", "load", "send", "stamp", "delete", "release", "release_write"}
Job == [kind : {"deliver", "flush"}, proc : Procs, pc : Running \cup {"timer", "queued"},
        reply : Replies \cup {None}, loaded : Status, attempt : 0 .. SendRetries,
        result : {"sent", "failed"}]

ASSUME NoneAssumption == None \notin Hit \cup Job

VARIABLES
    deploy,     \* the deployment, fixed for a behaviour
    rows,       \* status of each committed outgoing row
    hit,        \* the hit in progress in each process
    jobs,       \* every task ever created; None when it is over or lost
    queue,      \* per process, the tasks waiting for a thread
    redis,      \* [pending, schedule, later]: the two keys, by reply and by flush;
                \* later: pending was set after schedule
    asked,      \* per reply, the hits that asked for its delivery
    confirmed,  \* per reply, the sends that the provider answered with success
    hits, faults

bounds == <<hits, faults>>
vars == <<deploy, rows, hit, jobs, queue, redis, asked, confirmed, bounds>>

Init ==
    /\ deploy \in Deployments
    /\ rows = <<>>
    /\ hit = [p \in Procs |-> None]
    /\ jobs = <<>>
    /\ queue = [p \in Procs |-> <<>>]
    /\ redis = [pending |-> None, schedule |-> None, later |-> FALSE]
    /\ asked = [r \in Replies |-> 0]
    /\ confirmed = [r \in Replies |-> 0]
    /\ hits = 0 /\ faults = 0

Live(j) == j \in DOMAIN jobs /\ jobs[j] # None

-----------------------------------------------------------------------------
(* The hit: commit, then hand the reply over *)

HandOver == IF deploy.coalesce THEN "pending" ELSE "enqueue"

\* InProcessQueue delivers before the hit's response is sent.
Answering(p) == \E j \in DOMAIN jobs : Live(j) /\ jobs[j].kind = "deliver" /\ jobs[j].proc = p

BeginHit(p) ==
    /\ hit[p] = None
    /\ deploy.threaded \/ ~Answering(p)
    /\ hits < MaxHits
    /\ hits' = hits + 1
    /\ UNCHANGED <<deploy, queue, redis, confirmed, jobs, faults>>

\* A new message: the reply's row is inserted and marked "processing" in one commit.
Reply(p) ==
    /\ BeginHit(p)
    /\ rows' = Append(rows, "processing")
    /\ hit' = [hit EXCEPT ![p] = [reply |-> Len(rows'), loaded |-> "processing",
                                  pc |-> HandOver]]
    /\ asked' = [asked EXCEPT ![Len(rows')] = 1]

\* A provider retry replays the last outgoing row it reads...
ReplayRead(p) ==
    /\ BeginHit(p)
    /\ rows # <<>>
    /\ hit' = [hit EXCEPT ![p] = [reply |-> Len(rows), loaded |-> rows[Len(rows)],
                                  pc |-> "commit"]]
    /\ UNCHANGED <<rows, asked>>

\* ...and marks it "processing" again: an UPDATE only if it read something else.
ReplayCommit(p) ==
    /\ hit[p] # None /\ hit[p].pc = "commit"
    /\ rows' = IF hit[p].loaded = "processing" THEN rows
               ELSE [rows EXCEPT ![hit[p].reply] = "processing"]
    /\ asked' = [asked EXCEPT ![hit[p].reply] = @ + 1]
    /\ hit' = [hit EXCEPT ![p].pc = HandOver]
    /\ UNCHANGED <<deploy, jobs, queue, redis, confirmed, bounds>>

NewJob(kind, p, reply, pc) ==
    [kind |-> kind, proc |-> p, pc |-> pc, reply |-> reply, loaded |-> "processing",
     attempt |-> 0, result |-> "failed"]

\* get_queue().enqueue: to the pool's queue, or run at once by the calling thread.
Enqueue(p) ==
    /\ hit[p] # None /\ hit[p].pc = "enqueue"
    /\ jobs' = Append(jobs, NewJob("deliver", p, hit[p].reply,
                                   IF deploy.threaded THEN "queued" ELSE "load"))
    /\ queue' = IF deploy.threaded THEN [queue EXCEPT ![p] = Append(@, Len(jobs'))] ELSE queue
    /\ hit' = [hit EXCEPT ![p] = None]
    /\ UNCHANGED <<deploy, rows, redis, asked, confirmed, bounds>>

\* The latest reply replaces the pending one.
SetPending(p) ==
    /\ hit[p] # None /\ hit[p].pc = "pending"
    /\ redis' = [redis EXCEPT !.pending = hit[p].reply, !.later = redis.schedule # None]
    /\ hit' = [hit EXCEPT ![p].pc = "schedule"]
    /\ UNCHANGED <<deploy, rows, jobs, queue, asked, confirmed, bounds>>

\* SET NX of the schedule key; who sets it starts the timer of a flush.
SetSchedule(p) ==
    /\ hit[p] # None /\ hit[p].pc = "schedule"
    /\ IF redis.schedule = None
       THEN /\ jobs' = Append(jobs, NewJob("flush", p, None, "timer"))
            /\ redis' = [redis EXCEPT !.schedule = Len(jobs'), !.later = FALSE]
       ELSE UNCHANGED <<jobs, redis>>
    /\ hit' = [hit EXCEPT ![p] = None]
    /\ UNCHANGED <<deploy, rows, queue, asked, confirmed, bounds>>

HitStep(p) == ReplayCommit(p) \/ Enqueue(p) \/ SetPending(p) \/ SetSchedule(p)

-----------------------------------------------------------------------------
(* The queue of a process *)

At(j, pc) == Live(j) /\ jobs[j].pc = pc
First(j) == IF jobs[j].kind = "flush" THEN "get" ELSE "load"

OnlyJobs == UNCHANGED <<deploy, rows, hit, queue, redis, asked, confirmed, bounds>>

\* The burst window is over: the timer's thread submits the flush, or runs it.
FireTimer(j) ==
    /\ At(j, "timer")
    /\ jobs' = [jobs EXCEPT ![j].pc = IF deploy.threaded THEN "queued" ELSE First(j)]
    /\ queue' = IF deploy.threaded THEN [queue EXCEPT ![jobs[j].proc] = Append(@, j)] ELSE queue
    /\ UNCHANGED <<deploy, rows, hit, redis, asked, confirmed, bounds>>

Busy(p) == Cardinality({j \in DOMAIN jobs : Live(j) /\ jobs[j].proc = p /\ jobs[j].pc \in Running})

\* A free thread takes the oldest task.
StartJob(p) ==
    /\ queue[p] # <<>>
    /\ Busy(p) < Threads
    /\ jobs' = [jobs EXCEPT ![Head(queue[p])].pc = First(Head(queue[p]))]
    /\ queue' = [queue EXCEPT ![p] = Tail(@)]
    /\ UNCHANGED <<deploy, rows, hit, redis, asked, confirmed, bounds>>

-----------------------------------------------------------------------------
(* _deliver_outgoing_message *)

\* A fresh session reads the row.
Load(j) ==
    /\ At(j, "load")
    /\ jobs' = [jobs EXCEPT ![j].pc = "send", ![j].loaded = rows[jobs[j].reply]]
    /\ OnlyJobs

\* Changed forms: one attempt too many; the loop goes on after a success; a refused send
\* ends as "sent".
SendOnceMore(j) ==
    /\ At(j, "send")
    /\ \/ /\ confirmed' = [confirmed EXCEPT ![jobs[j].reply] = @ + 1]
          /\ jobs' = [jobs EXCEPT ![j].pc = "stamp", ![j].result = "sent"]
       \/ /\ UNCHANGED confirmed
          /\ jobs' = IF jobs[j].attempt <= SendRetries
                     THEN [jobs EXCEPT ![j].attempt = @ + 1]
                     ELSE [jobs EXCEPT ![j].pc = "stamp"]
    /\ UNCHANGED <<deploy, rows, hit, queue, redis, asked, bounds>>

SendAgain(j) ==
    /\ At(j, "send")
    /\ \E ok \in BOOLEAN :
          /\ confirmed' = [confirmed EXCEPT ![jobs[j].reply] = @ + IF ok THEN 1 ELSE 0]
          /\ jobs' = [jobs EXCEPT ![j] =
                IF @.attempt < SendRetries THEN [@ EXCEPT !.attempt = @ + 1]
                ELSE [@ EXCEPT !.pc = "stamp", !.result = IF ok THEN "sent" ELSE "failed"]]
    /\ UNCHANGED <<deploy, rows, hit, queue, redis, asked, bounds>>

SendBlind(j) ==
    /\ At(j, "send")
    /\ jobs' = [jobs EXCEPT ![j].pc = "stamp", ![j].result = "sent"]
    /\ \/ confirmed' = [confirmed EXCEPT ![jobs[j].reply] = @ + 1]
       \/ UNCHANGED confirmed
    /\ UNCHANGED <<deploy, rows, hit, queue, redis, asked, bounds>>

\* One attempt of _send_with_retry: the provider accepts it, or an error comes back
\* (which the customer may have received all the same).
Send(j) ==
    /\ At(j, "send")
    /\ \/ /\ confirmed' = [confirmed EXCEPT ![jobs[j].reply] = @ + 1]
          /\ jobs' = [jobs EXCEPT ![j].pc = "stamp", ![j].result = "sent"]
       \/ /\ UNCHANGED confirmed
          /\ jobs' = IF jobs[j].attempt < SendRetries
                     THEN [jobs EXCEPT ![j].attempt = @ + 1]
                     ELSE [jobs EXCEPT ![j].pc = "stamp"]
    /\ UNCHANGED <<deploy, rows, hit, queue, redis, asked, bounds>>

AfterDelivery(j) == IF jobs[j].kind = "flush" THEN [jobs[j] EXCEPT !.pc = "delete"] ELSE None

\* Changed form: the outcome is committed only when the message went out.
StampSentOnly(j) ==
    /\ At(j, "stamp")
    /\ rows' = IF jobs[j].result = "sent" THEN [rows EXCEPT ![jobs[j].reply] = "sent"] ELSE rows
    /\ jobs' = [jobs EXCEPT ![j] = AfterDelivery(j)]
    /\ UNCHANGED <<deploy, hit, queue, redis, asked, confirmed, bounds>>

\* The outcome is committed: an UPDATE if it differs from the status loaded.
Stamp(j) ==
    /\ At(j, "stamp")
    /\ rows' = IF jobs[j].result = jobs[j].loaded THEN rows
               ELSE [rows EXCEPT ![jobs[j].reply] = jobs[j].result]
    /\ jobs' = [jobs EXCEPT ![j] = AfterDelivery(j)]
    /\ UNCHANGED <<deploy, hit, queue, redis, asked, confirmed, bounds>>

-----------------------------------------------------------------------------
(* _flush_coalesced_reply *)

\* Changed form: the schedule is released before the reply is delivered.
FlushGetEarly(j) ==
    /\ At(j, "get")
    /\ jobs' = [jobs EXCEPT ![j].reply = redis.pending,
                            ![j].pc = IF redis.pending = None THEN "delete" ELSE "load"]
    /\ redis' = [redis EXCEPT !.schedule = None]
    /\ UNCHANGED <<deploy, rows, hit, queue, asked, confirmed, bounds>>

FlushGet(j) ==
    /\ At(j, "get")
    /\ jobs' = [jobs EXCEPT ![j].reply = redis.pending,
                            ![j].pc = IF redis.pending = None THEN "delete" ELSE "load"]
    /\ OnlyJobs

\* finally: whatever is pending by now is deleted...
FlushDelete(j) ==
    /\ At(j, "delete")
    /\ redis' = [redis EXCEPT !.pending = None, !.later = FALSE]
    /\ jobs' = [jobs EXCEPT ![j].pc = "release"]
    /\ UNCHANGED <<deploy, rows, hit, queue, asked, confirmed, bounds>>

\* ...and compare_and_delete releases the schedule: a GET, then a DEL.
ReleaseGet(j) ==
    /\ At(j, "release")
    /\ jobs' = [jobs EXCEPT ![j] = IF redis.schedule = j THEN [@ EXCEPT !.pc = "release_write"]
                                   ELSE None]
    /\ OnlyJobs

ReleaseDelete(j) ==
    /\ At(j, "release_write")
    /\ redis' = [redis EXCEPT !.schedule = None, !.later = FALSE]
    /\ jobs' = [jobs EXCEPT ![j] = None]
    /\ UNCHANGED <<deploy, rows, hit, queue, asked, confirmed, bounds>>

JobStep(j) ==
    \/ FireTimer(j)
    \/ Load(j)
    \/ Send(j)
    \/ Stamp(j)
    \/ FlushGet(j)
    \/ FlushDelete(j)
    \/ ReleaseGet(j)
    \/ ReleaseDelete(j)

-----------------------------------------------------------------------------
(* Failures and the passing of time *)

Fault == faults < MaxFaults /\ faults' = faults + 1 /\ UNCHANGED hits

Lost(gone) == [j \in DOMAIN jobs |-> IF Live(j) /\ gone[j] THEN None ELSE jobs[j]]

\* A process dies: its hit, its queue, its threads and its timers with it.
Crash(p) ==
    /\ Fault
    /\ jobs' = Lost([j \in DOMAIN jobs |-> Live(j) /\ jobs[j].proc = p])
    /\ queue' = [queue EXCEPT ![p] = <<>>]
    /\ hit' = [hit EXCEPT ![p] = None]
    /\ UNCHANGED <<deploy, rows, redis, asked, confirmed>>

\* ThreadedQueue.shutdown(wait=True) between hits: the timers are cancelled, the rest
\* is waited for.
Shutdown(p) ==
    /\ Fault
    /\ hit[p] = None
    /\ jobs' = Lost([j \in DOMAIN jobs |-> Live(j) /\ jobs[j].proc = p /\ jobs[j].pc = "timer"])
    /\ UNCHANGED <<deploy, rows, hit, queue, redis, asked, confirmed>>

\* A database error or a transport that cannot be resolved: the task's session is
\* rolled back and nothing is stamped.
DeliverError(j) ==
    /\ Fault
    /\ At(j, "load") \/ At(j, "stamp")
    /\ jobs' = [jobs EXCEPT ![j] = AfterDelivery(j)]
    /\ UNCHANGED <<deploy, rows, hit, queue, redis, asked, confirmed>>

\* A Redis command of a hit fails: the client answers False and the hit goes on.
HitRedisError(p) ==
    /\ Fault
    /\ hit[p] # None /\ hit[p].pc \in {"pending", "schedule"}
    /\ hit' = [hit EXCEPT ![p] = IF @.pc = "pending" THEN [@ EXCEPT !.pc = "schedule"] ELSE None]
    /\ UNCHANGED <<deploy, rows, jobs, queue, redis, asked, confirmed>>

\* A Redis command of a flush fails: a GET reads nothing, a DEL deletes nothing.
FlushRedisError(j) ==
    /\ Fault
    /\ \E pc \in {"get", "delete", "release", "release_write"} :
          /\ At(j, pc)
          /\ jobs' = [jobs EXCEPT ![j] = CASE pc = "get" -> [@ EXCEPT !.pc = "delete"]
                                           [] pc = "delete" -> [@ EXCEPT !.pc = "release"]
                                           [] OTHER -> None]
    /\ UNCHANGED <<deploy, rows, hit, queue, redis, asked, confirmed>>

\* The 31 seconds of a key are over while a flush waits for a thread or is sending.
\* Both keys live equally long, so the one set first goes first.
Expire ==
    /\ Fault
    /\ \/ /\ redis.schedule # None
          /\ redis' = [pending |-> IF redis.later THEN redis.pending ELSE None,
                       schedule |-> None, later |-> FALSE]
       \/ /\ redis.pending # None /\ ~redis.later
          /\ redis' = [redis EXCEPT !.pending = None]
    /\ UNCHANGED <<deploy, rows, hit, jobs, queue, asked, confirmed>>

-----------------------------------------------------------------------------
Next ==
    \/ \E p \in Procs : \/ Reply(p) \/ ReplayRead(p) \/ HitStep(p)
                        \/ StartJob(p) \/ Crash(p) \/ Shutdown(p) \/ HitRedisError(p)
    \/ \E j \in DOMAIN jobs : JobStep(j) \/ DeliverError(j) \/ FlushRedisError(j)
    \/ Expire

Spec == Init /\ [][Next]_vars

-----------------------------------------------------------------------------
(* Properties *)

\* Every variable has its type; the tasks that wait for a thread are in the queue of
\* their process, once each.
TypeOK ==
    /\ deploy \in Deployments
    /\ rows \in Seq(Status) /\ Len(rows) <= hits
    /\ hit \in [Procs -> Hit \cup {None}]
    /\ jobs \in Seq(Job \cup {None}) /\ Len(jobs) <= hits
    /\ redis \in [pending : Replies \cup {None}, schedule : Jobs \cup {None}, later : BOOLEAN]
    /\ \A p \in Procs :
          {queue[p][n] : n \in 1 .. Len(queue[p])}
            = {j \in DOMAIN jobs : At(j, "queued") /\ jobs[j].proc = p}
    /\ asked \in [Replies -> 0 .. MaxHits]
    /\ confirmed \in [Replies -> Nat]
    /\ hits \in 0 .. MaxHits /\ faults \in 0 .. MaxFaults

\* The operator replays the rows marked "failed": a row marked "sent" is one the
\* provider accepted, whatever tasks, retries and replays stamped it meanwhile.
SentWasAccepted == \A r \in DOMAIN rows : rows[r] = "sent" => confirmed[r] > 0

\* "coalesces burst messages to avoid duplicate replies": the provider confirms a reply
\* no more often than hits asked for it.  A pending key that could not be deleted, or a
\* schedule that expired before its flush ran, costs one duplicate at most.
SentOncePerHit == \A r \in Replies : confirmed[r] <= asked[r] + faults

\* "only one delayed flush job is scheduled per burst window".
OneFlush ==
    faults = 0 =>
        \A i, j \in DOMAIN jobs :
            Live(i) /\ Live(j) /\ jobs[i].kind = "flush" /\ jobs[j].kind = "flush" => i = j

Quiet == (\A p \in Procs : hit[p] = None) /\ \A j \in DOMAIN jobs : jobs[j] = None

\* Without coalescing every reply is stamped: however its deliveries and those of its
\* replays overlap, no row is left "processing" when nothing is in progress any more.
RepliesSettle ==
    Quiet /\ faults = 0 /\ ~deploy.coalesce => \A r \in DOMAIN rows : rows[r] # "processing"
=============================================================================
