---------------------------- MODULE Conversation ----------------------------
(***************************************************************************)
(* POST /webhooks/whatsapp/{tenant_id} for one customer of one tenant:     *)
(* content dedup, the per-conversation lock and the intake service, up to  *)
(* the commit of the reply; ReplyDelivery takes the reply from there.  A   *)
(* worker is a server process and handles one webhook hit at a time.       *)
(* Dedup keys and the lock live in Redis when it is configured and in      *)
(* tables otherwise; the session, the incoming and the outgoing messages   *)
(* are rows, read at READ COMMITTED and written in one transaction.        *)
(***************************************************************************)
EXTENDS Naturals, Sequences, FiniteSets

CONSTANTS
    Workers,        \* server processes
    Messages,       \* provider message ids
    Bodies,         \* (phone, text) hashes
    BodyOf,         \* the text of each message
    Deployments,    \* [redis, aware]: is REDIS_URL set; does the driver return
                    \* timestamptz columns offset-aware (psycopg) or naive (sqlite)
    LockAttempts,   \* retries of ConversationLockRepository.acquire (3 in the code)
    MaxHits,        \* bound on webhook hits, first deliveries and retries
    MaxCrashes,     \* bound on worker crashes
    MaxOutages,     \* bound on failed Redis commands
    TtlExpires,     \* may a lock's TTL run out while its holder is at work?
    None

ASSUME BodyAssumption == BodyOf \in [Messages -> Bodies]
ASSUME DeploymentAssumption == Deployments \subseteq [redis : BOOLEAN, aware : BOOLEAN]
ASSUME BoundAssumption ==
    /\ LockAttempts \in Nat \ {0}
    /\ MaxHits \in Nat /\ MaxCrashes \in Nat /\ MaxOutages \in Nat
    /\ TtlExpires \in BOOLEAN
    /\ None \notin Workers

\* A row of outgoing_messages.  told is what its text says: an appointment was booked,
\* data of the message was noted, or neither (a greeting, a refusal, the menu again).
Told == {"plain", "noted", "booked"}
OutRow == [msg : Messages, told : Told]

\* The conversation_sessions row.  ctx: the messages whose extracted data is merged
\* into context; greeted: last_message_seq > 0; stale: untouched for two hours.
SessionRow == [ctx : SUBSET Messages, greeted : BOOLEAN, stale : BOOLEAN]

\* Locals of a hit.  backend: of the lock it holds; attempt: of the table lock; read:
\* the key or lock row its SELECT found; seen and greeted: the session it loaded;
\* alone: no other hit was in intake since it entered.
Job == [msg : Messages, backend : {"redis", "db"}, attempt : 0 .. LockAttempts - 1,
        read : {"none", "live", "expired", "free"}, seen : SUBSET Messages,
        greeted : BOOLEAN, alone : BOOLEAN]

ASSUME NoneAssumption == None \notin Job \cup SessionRow

Intake == {"find", "reset", "record", "insert", "advance", "replay"}
Pc == Intake \cup {"idle", "dedup", "key_write", "lock", "lock_read", "lock_write",
                   "release", "release_write", "raised"}

VARIABLES
    deploy,     \* the deployment, fixed for a behaviour
    redis,      \* [keys: texts within the dedup window, lock: the token's worker]
    keys,       \* idempotency_keys, by text: "none", "live" or "expired"
    lock,       \* conversation_locks row: "none", "live", "expired" (still active), "free"
    session,    \* committed session row, or None; a returning customer starts with one
    incoming,   \* committed incoming_messages
    outs,       \* committed outgoing_messages, in created_at order
    booked,     \* messages whose appointment is committed
    tx,         \* uncommitted writes of each worker: "session", "reset", "incoming"
    pc, job,    \* the next statement of each worker, and its locals
    hits, crashes, outages

tables == <<session, incoming, outs, booked>>
bounds == <<hits, crashes, outages>>
vars == <<deploy, redis, keys, lock, tables, tx, pc, job, bounds>>

NewJob(m) == [msg |-> m, backend |-> "db", attempt |-> 0, read |-> "none", seen |-> {},
              greeted |-> FALSE, alone |-> FALSE]

Init ==
    /\ deploy \in Deployments
    /\ redis = [keys |-> {}, lock |-> None]
    /\ keys = [b \in Bodies |-> "none"]
    /\ lock = "none"
    /\ session \in {None, [ctx |-> {}, greeted |-> TRUE, stale |-> FALSE]}
    /\ incoming = {} /\ outs = <<>> /\ booked = {}
    /\ tx = [w \in Workers |-> {}]
    /\ pc = [w \in Workers |-> "idle"]
    /\ job = [w \in Workers |-> None]
    /\ hits = 0 /\ crashes = 0 /\ outages = 0

-----------------------------------------------------------------------------
(* Steps of a hit *)

Goto(w, label) == pc' = [pc EXCEPT ![w] = label]

\* The hit is over: its response is sent and its database session closed.
End(w) ==
    /\ Goto(w, "idle")
    /\ job' = [job EXCEPT ![w] = None]
    /\ tx' = [tx EXCEPT ![w] = {}]

Others(w) == Workers \ {w}
InIntake(w) == pc[w] \in Intake

\* Entering the section the lock is there to protect.
Enter(w, backend) ==
    LET company == {v \in Others(w) : InIntake(v)}
    IN /\ Goto(w, "find")
       /\ job' = [v \in Workers |->
                    IF v = w THEN [job[w] EXCEPT !.backend = backend, !.alone = company = {}]
                    ELSE IF v \in company THEN [job[v] EXCEPT !.alone = FALSE]
                    ELSE job[v]]

\* A webhook hit for message m, accepted by the signature, bot-enabled and jailbreak
\* checks.  The provider sends a message again when it likes.
Receive(w, m) ==
    /\ pc[w] = "idle"
    /\ hits < MaxHits
    /\ hits' = hits + 1
    /\ job' = [job EXCEPT ![w] = NewJob(m)]
    /\ Goto(w, "dedup")
    /\ UNCHANGED <<deploy, redis, keys, lock, tables, tx, crashes, outages>>

\* _record_dedup_key with Redis configured: a SET NX that writes nothing makes the hit
\* a "burst-duplicate".
RecordKeyInRedis(w) ==
    LET body == BodyOf[job[w].msg]
    IN /\ pc[w] = "dedup" /\ deploy.redis
       /\ IF body \notin redis.keys
          THEN /\ redis' = [redis EXCEPT !.keys = @ \cup {body}]
               /\ Goto(w, "lock")
               /\ UNCHANGED <<job, tx>>
          ELSE End(w) /\ UNCHANGED redis
       /\ UNCHANGED <<deploy, keys, lock, tables, bounds>>

\* IdempotencyKeyRepository.record, its SELECT: expires_at > now compares an aware
\* with a naive timestamp when the driver returns aware ones.
RecordKeyRead(w) ==
    LET found == keys[BodyOf[job[w].msg]]
    IN /\ pc[w] = "dedup" /\ ~deploy.redis
       /\ IF found # "none" /\ deploy.aware THEN Goto(w, "raised") /\ UNCHANGED <<job, tx>>
          ELSE IF found = "live" THEN End(w)
          ELSE /\ job' = [job EXCEPT ![w].read = found]
               /\ Goto(w, "key_write")
               /\ UNCHANGED tx
       /\ UNCHANGED <<deploy, redis, keys, lock, tables, bounds>>

\* Its DELETE of an expired row, its INSERT, and the commit of the route; the unique
\* key is already taken when another hit recorded the same text since.
RecordKeyWrite(w) ==
    LET body == BodyOf[job[w].msg]
    IN /\ pc[w] = "key_write"
       /\ IF keys[body] = job[w].read
          THEN /\ keys' = [keys EXCEPT ![body] = "live"]
               /\ Goto(w, "lock")
               /\ UNCHANGED <<job, tx>>
          ELSE End(w) /\ UNCHANGED keys
       /\ UNCHANGED <<deploy, redis, lock, tables, bounds>>

\* _acquire_conversation_lock: SET NX in Redis, and the table when that fails.
AcquireInRedis(w) ==
    /\ pc[w] = "lock"
    /\ IF deploy.redis /\ redis.lock = None
       THEN redis' = [redis EXCEPT !.lock = w] /\ Enter(w, "redis")
       ELSE Goto(w, "lock_read") /\ UNCHANGED <<redis, job>>
    /\ UNCHANGED <<deploy, keys, lock, tables, tx, bounds>>

\* Changed form: one attempt too many.
TryAgainOnceMore(w) ==
    IF job[w].attempt < LockAttempts
    THEN /\ job' = [job EXCEPT ![w].attempt = @ + 1]
         /\ Goto(w, "lock_read")
         /\ UNCHANGED tx
    ELSE End(w)

\* The lock was not obtained: roll back, sleep and read again, or "lock-contention".
TryAgain(w) ==
    IF job[w].attempt + 1 < LockAttempts
    THEN /\ job' = [job EXCEPT ![w].attempt = @ + 1]
         /\ Goto(w, "lock_read")
         /\ UNCHANGED tx
    ELSE End(w)

\* ConversationLockRepository.acquire, its SELECT.  now is taken before the first
\* attempt: a lock that was valid then stays valid for the later ones.
LockRead(w) ==
    LET held == \/ lock = "live"
                \/ lock = "expired" /\ job[w].attempt > 0
    IN /\ pc[w] = "lock_read"
       /\ IF lock # "none" /\ deploy.aware THEN Goto(w, "raised") /\ UNCHANGED <<job, tx>>
          ELSE IF held THEN TryAgain(w)
          ELSE /\ job' = [job EXCEPT ![w].read = lock]
               /\ Goto(w, "lock_write")
               /\ UNCHANGED tx
       /\ UNCHANGED <<deploy, redis, keys, lock, tables, bounds>>

\* Its INSERT, guarded by the unique constraint.
LockInsert(w) ==
    /\ pc[w] = "lock_write" /\ job[w].read = "none"
    /\ IF lock = "none" THEN lock' = "live" /\ Enter(w, "db") /\ UNCHANGED tx
                        ELSE TryAgain(w) /\ UNCHANGED lock
    /\ UNCHANGED <<deploy, redis, keys, tables, bounds>>

\* Its UPDATE by primary key, whatever the row has become since the SELECT.  Only
\* changed columns are written: is_active, loaded as TRUE, stays as it is now.
LockUpdate(w) ==
    /\ pc[w] = "lock_write" /\ job[w].read # "none"
    /\ lock' = IF job[w].read = "expired" /\ lock = "free" THEN "free" ELSE "live"
    /\ Enter(w, "db")
    /\ UNCHANGED <<deploy, redis, keys, tables, tx, bounds>>

\* The TypeError leaves the route: a 500 that the provider may retry.
Raise(w) ==
    /\ pc[w] = "raised"
    /\ End(w)
    /\ UNCHANGED <<deploy, redis, keys, lock, tables, bounds>>

-----------------------------------------------------------------------------
(* handle_inbound *)

\* PostgreSQL row waits: the uncommitted writes of v that w's next statement meets.
WaitsFor(w, v) ==
    /\ v # w
    /\ CASE pc[w] = "find" -> "session" \in tx[v]
         [] pc[w] \in {"reset", "advance"} -> "reset" \in tx[v]
         [] pc[w] = "insert" -> "incoming" \in tx[v] /\ job[v].msg = job[w].msg
         [] OTHER -> FALSE
Ready(w) == \A v \in Workers : ~WaitsFor(w, v)

\* find_or_create, and the staleness test on what it found.
FindSession(w) ==
    /\ pc[w] = "find" /\ Ready(w)
    /\ IF session = None
       THEN /\ tx' = [tx EXCEPT ![w] = {"session"}]
            /\ Goto(w, "record")
            /\ UNCHANGED job
       ELSE /\ job' = [job EXCEPT ![w].seen = session.ctx, ![w].greeted = session.greeted]
            /\ Goto(w, IF session.stale THEN "reset" ELSE "record")
            /\ UNCHANGED tx
    /\ UNCHANGED <<deploy, redis, keys, lock, tables, bounds>>

\* _reset_session: flushed here, committed with the rest.
ResetSession(w) ==
    /\ pc[w] = "reset" /\ Ready(w)
    /\ job' = [job EXCEPT ![w].seen = {}, ![w].greeted = FALSE]
    /\ tx' = [tx EXCEPT ![w] = @ \cup {"reset"}]
    /\ Goto(w, "record")
    /\ UNCHANGED <<deploy, redis, keys, lock, tables, bounds>>

\* IncomingMessageRepository.record, its SELECT.
RecordIncoming(w) ==
    /\ pc[w] = "record"
    /\ Goto(w, IF job[w].msg \in incoming THEN "replay" ELSE "insert")
    /\ UNCHANGED <<deploy, redis, keys, lock, tables, tx, job, bounds>>

\* Changed form: provider_message_id is not unique.
InsertAgain(w) ==
    /\ pc[w] = "insert" /\ Ready(w)
    /\ tx' = [tx EXCEPT ![w] = @ \cup {"incoming"}]
    /\ Goto(w, "advance")
    /\ UNCHANGED <<deploy, redis, keys, lock, tables, job, bounds>>

\* Its INSERT; when uq_incoming_provider_message refuses it the whole transaction is
\* rolled back and the hit becomes a retry.
InsertIncoming(w) ==
    /\ pc[w] = "insert" /\ Ready(w)
    /\ IF job[w].msg \in incoming
       THEN tx' = [tx EXCEPT ![w] = {}] /\ Goto(w, "replay")
       ELSE tx' = [tx EXCEPT ![w] = @ \cup {"incoming"}] /\ Goto(w, "advance")
    /\ UNCHANGED <<deploy, redis, keys, lock, tables, job, bounds>>

\* What process_recorded_inbound may answer: the first message of a session, and any
\* greeting, is greeted; others are classified, and a confirmation books or is refused.
Outcomes(w) == IF job[w].greeted THEN Told ELSE {"plain"}
Extracts(told) == told # "plain"

\* Changed form: the context is replaced by what this message says.
ReplacedContext(w, told) == {IF Extracts(told) THEN {job[w].msg} ELSE {}}

\* advance() merges into the context this hit loaded; when the merge changes nothing
\* the column is not written.
MergedContext(w, told) ==
    IF Extracts(told) THEN {job[w].seen \cup {job[w].msg}}
    ELSE {job[w].seen} \cup (IF session = None \/ "reset" \in tx[w] THEN {} ELSE {session.ctx})

\* process_recorded_inbound and the route's commit: the incoming row, the appointment,
\* the session and the outgoing row become visible together.
Advance(w) ==
    /\ pc[w] = "advance" /\ Ready(w)
    /\ \E told \in Outcomes(w) : \E ctx \in MergedContext(w, told) :
          /\ session' = [ctx |-> ctx, greeted |-> TRUE, stale |-> FALSE]
          /\ outs' = Append(outs, [msg |-> job[w].msg, told |-> told])
          /\ booked' = IF told = "booked" THEN booked \cup {job[w].msg} ELSE booked
    /\ incoming' = incoming \cup {job[w].msg}
    /\ tx' = [tx EXCEPT ![w] = {}]
    /\ Goto(w, "release")
    /\ UNCHANGED <<deploy, redis, keys, lock, job, bounds>>

\* Changed form: the booking service commits what it wrote.
IntakeErrorAfterBooking(w) ==
    /\ pc[w] = "advance"
    /\ booked' \in {booked, booked \cup {job[w].msg}}
    /\ tx' = [tx EXCEPT ![w] = {}]
    /\ Goto(w, "release")
    /\ UNCHANGED <<deploy, redis, keys, lock, session, incoming, outs, job, bounds>>

\* An exception of the intake service, such as the IntegrityError of a slot booked
\* meanwhile, and one of a cycle of row waits that PostgreSQL aborts: "error".
IntakeError(w) ==
    /\ \/ pc[w] = "advance"
       \/ \E v \in Workers : WaitsFor(w, v) /\ WaitsFor(v, w)
    /\ tx' = [tx EXCEPT ![w] = {}]
    /\ Goto(w, "release")
    /\ UNCHANGED <<deploy, redis, keys, lock, tables, job, bounds>>

\* A webhook retry: no new rows, and the last reply of the session goes out again;
\* the reset of a stale session is committed all the same.
Replay(w) ==
    /\ pc[w] = "replay"
    /\ session' = IF "reset" \in tx[w] THEN [ctx |-> {}, greeted |-> FALSE, stale |-> FALSE]
                                       ELSE session
    /\ tx' = [tx EXCEPT ![w] = {}]
    /\ Goto(w, "release")
    /\ UNCHANGED <<deploy, redis, keys, lock, incoming, outs, booked, job, bounds>>

-----------------------------------------------------------------------------
(* After the commit *)

\* _release_conversation_lock, its GET or SELECT.  The table's row is looked up by
\* customer alone.
ReleaseRead(w) ==
    LET mine == IF job[w].backend = "redis" THEN redis.lock = w
                                            ELSE lock \in {"live", "expired"}
    IN /\ pc[w] = "release"
       /\ IF mine THEN Goto(w, "release_write") /\ UNCHANGED <<job, tx>> ELSE End(w)
       /\ UNCHANGED <<deploy, redis, keys, lock, tables, bounds>>

\* Its DEL or UPDATE: whoever holds the lock by now.
ReleaseWrite(w) ==
    /\ pc[w] = "release_write"
    /\ IF job[w].backend = "redis"
       THEN redis' = [redis EXCEPT !.lock = None] /\ UNCHANGED lock
       ELSE lock' = "free" /\ UNCHANGED redis
    /\ End(w)
    /\ UNCHANGED <<deploy, keys, tables, bounds>>

-----------------------------------------------------------------------------
(* Failures and the passing of time *)

\* A worker process dies with its transaction; the locks stay.
Crash(w) ==
    /\ pc[w] # "idle"
    /\ crashes < MaxCrashes
    /\ crashes' = crashes + 1
    /\ End(w)
    /\ UNCHANGED <<deploy, redis, keys, lock, tables, hits, outages>>

\* A Redis command fails or times out.  The client answers False and stays available:
\* the hit is a "burst-duplicate", goes to the table's lock, or leaves its lock behind.
RedisError(w) ==
    /\ deploy.redis
    /\ outages < MaxOutages
    /\ outages' = outages + 1
    /\ \/ pc[w] = "lock" /\ Goto(w, "lock_read") /\ UNCHANGED <<job, tx>>
       \/ pc[w] = "dedup" /\ End(w)
       \/ pc[w] \in {"release", "release_write"} /\ job[w].backend = "redis" /\ End(w)
    /\ UNCHANGED <<deploy, redis, keys, lock, tables, hits, crashes>>

\* The ten seconds of a dedup key are over.
ExpireKey(b) ==
    /\ \/ b \in redis.keys /\ redis' = [redis EXCEPT !.keys = @ \ {b}] /\ UNCHANGED keys
       \/ keys[b] = "live" /\ keys' = [keys EXCEPT ![b] = "expired"] /\ UNCHANGED redis
    /\ UNCHANGED <<deploy, lock, tables, tx, pc, job, bounds>>

\* The thirty seconds of a lock are over: soon enough for a hit still at work, when
\* TtlExpires, and in any case once the hits are over.
ExpireLock ==
    /\ TtlExpires \/ \A w \in Workers : pc[w] = "idle"
    /\ \/ redis.lock # None /\ redis' = [redis EXCEPT !.lock = None] /\ UNCHANGED lock
       \/ lock = "live" /\ lock' = "expired" /\ UNCHANGED redis
    /\ UNCHANGED <<deploy, keys, tables, tx, pc, job, bounds>>

\* The customer is silent for two hours (with no hit in progress).
AgeSession ==
    /\ session # None /\ ~session.stale
    /\ \A w \in Workers : pc[w] = "idle"
    /\ session' = [session EXCEPT !.stale = TRUE]
    /\ UNCHANGED <<deploy, redis, keys, lock, incoming, outs, booked, tx, pc, job, bounds>>

-----------------------------------------------------------------------------
Step(w) ==
    \/ RecordKeyInRedis(w)
    \/ RecordKeyRead(w)
    \/ RecordKeyWrite(w)
    \/ AcquireInRedis(w)
    \/ LockRead(w)
    \/ LockInsert(w)
    \/ LockUpdate(w)
    \/ Raise(w)
    \/ FindSession(w)
    \/ ResetSession(w)
    \/ RecordIncoming(w)
    \/ InsertIncoming(w)
    \/ Advance(w)
    \/ IntakeError(w)
    \/ Replay(w)
    \/ ReleaseRead(w)
    \/ ReleaseWrite(w)

Next ==
    \/ \E w \in Workers : Step(w) \/ Crash(w) \/ RedisError(w) \/ \E m \in Messages : Receive(w, m)
    \/ \E b \in Bodies : ExpireKey(b)
    \/ ExpireLock
    \/ AgeSession

Spec == Init /\ [][Next]_vars

-----------------------------------------------------------------------------
(* Properties *)

\* Every variable has its type; a hit holds writes in its transaction only while the
\* intake service runs.
TypeOK ==
    /\ deploy \in Deployments
    /\ redis \in [keys : SUBSET Bodies, lock : Workers \cup {None}]
    /\ keys \in [Bodies -> {"none", "live", "expired"}]
    /\ lock \in {"none", "live", "expired", "free"}
    /\ session \in SessionRow \cup {None}
    /\ incoming \subseteq Messages /\ booked \subseteq Messages
    /\ outs \in Seq(OutRow)
    /\ tx \in [Workers -> SUBSET {"session", "reset", "incoming"}]
    /\ pc \in [Workers -> Pc]
    /\ job \in [Workers -> Job \cup {None}]
    /\ \A w \in Workers : /\ pc[w] = "idle" <=> job[w] = None
                          /\ tx[w] # {} => InIntake(w)
    /\ hits \in 0 .. MaxHits /\ crashes \in 0 .. MaxCrashes /\ outages \in 0 .. MaxOutages

\* uq_incoming_provider_message "keeps the platform from ever producing duplicate
\* work": however often the provider retries, and although the lock lets two hits of
\* one message through, a message in the log has exactly one reply of its own.
Replies(m) == {i \in 1 .. Len(outs) : outs[i].msg = m}
AnsweredOnce ==
    \A m \in Messages : Cardinality(Replies(m)) = (IF m \in incoming THEN 1 ELSE 0)

\* The customer is told of an appointment if and only if it is in the table: no crash,
\* rollback or retry separates the booking from its message.
BookedAsTold == booked = {outs[i].msg : i \in {j \in 1 .. Len(outs) : outs[j].told = "booked"}}

\* A hit that had the conversation to itself forgets nothing the customer said
\* before, unless it found the session stale.
NothingForgotten ==
    [][\A w \in Workers :
          (outs' # outs /\ pc[w] = "advance" /\ pc'[w] = "release" /\ job[w].alone /\ session # None
             /\ "reset" \notin tx[w])
          => session.ctx \subseteq session'.ctx]_vars

\* "Ensures only one worker processes messages for a given customer at a time."
LockExclusive == \A v, w \in Workers : InIntake(v) /\ InIntake(w) => v = w
=============================================================================
