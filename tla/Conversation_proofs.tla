------------------------ MODULE Conversation_proofs -------------------------
(***************************************************************************)
(* What the intake of one customer's messages keeps for any number of      *)
(* processes, messages, retries, crashes and outages, with or without      *)
(* Redis, and although its lock does not exclude.                          *)
(***************************************************************************)
EXTENDS Conversation, FiniteSetTheorems, TLAPS

-----------------------------------------------------------------------------
(* Types *)

\* TypeOK in two parts: what Redis and the tables hold, and what a process does.
Stored ==
    /\ deploy \in Deployments
    /\ redis \in [keys : SUBSET Bodies, lock : Workers \cup {None}]
    /\ keys \in [Bodies -> {"none", "live", "expired"}]
    /\ lock \in {"none", "live", "expired", "free"}
    /\ session \in SessionRow \cup {None}
    /\ incoming \subseteq Messages /\ booked \subseteq Messages
    /\ outs \in Seq(OutRow)
    /\ hits \in 0 .. MaxHits /\ crashes \in 0 .. MaxCrashes /\ outages \in 0 .. MaxOutages

Writes == SUBSET {"session", "reset", "incoming"}

Locals ==
    /\ tx \in [Workers -> Writes]
    /\ pc \in [Workers -> Pc]
    /\ job \in [Workers -> Job \cup {None}]
    /\ \A w \in Workers : /\ pc[w] = "idle" <=> job[w] = None
                          /\ tx[w] # {} => InIntake(w)

LEMMA TypeParts == TypeOK <=> Stored /\ Locals
  BY DEF TypeOK, Stored, Locals, Writes

\* A process that is not idle has a hit.
LEMMA Working ==
  ASSUME Locals, NEW w \in Workers, pc[w] # "idle"
  PROVE  job[w] \in Job
  BY DEF Locals

\* The new values of one process.
Becomes(w, next, j, t) ==
    /\ pc' = [pc EXCEPT ![w] = next]
    /\ job' = [job EXCEPT ![w] = j]
    /\ tx' = [tx EXCEPT ![w] = t]

LEMMA BecomesType ==
  ASSUME Locals, NEW w \in Workers, NEW next \in Pc, NEW j \in Job \cup {None},
         NEW t \in Writes, next = "idle" <=> j = None, t # {} => next \in Intake,
         Becomes(w, next, j, t)
  PROVE  Locals'
<1>1. \A v \in Workers : v # w => pc'[v] = pc[v] /\ job'[v] = job[v] /\ tx'[v] = tx[v]
  BY DEF Locals, Becomes
<1>2. pc'[w] = next /\ job'[w] = j /\ tx'[w] = t
  BY DEF Locals, Becomes
<1>3. tx' \in [Workers -> Writes] /\ pc' \in [Workers -> Pc]
      /\ job' \in [Workers -> Job \cup {None}]
  BY DEF Locals, Becomes
<1>4. ASSUME NEW v \in Workers
      PROVE  (pc'[v] = "idle" <=> job'[v] = None) /\ (tx'[v] # {} => pc'[v] \in Intake)
  BY <1>1, <1>2 DEF Locals, InIntake
<1> QED
  BY <1>3, <1>4 DEF Locals, InIntake

\* A process that only moves on keeps its hit.
LEMMA KeepsHit ==
  ASSUME Locals, NEW w \in Workers
  PROVE  /\ UNCHANGED job => job' = [job EXCEPT ![w] = job[w]]
         /\ UNCHANGED tx => tx' = [tx EXCEPT ![w] = tx[w]]
         /\ tx[w] \in Writes
  BY DEF Locals

LEMMA EndType ==
  ASSUME Locals, NEW w \in Workers, End(w)
  PROVE  Locals'
<1>1. Becomes(w, "idle", None, {})
  BY DEF End, Goto, Becomes
<1> QED
  BY <1>1, BecomesType DEF Pc, Writes

\* A step from outside the intake to another label outside it, or from inside to inside.
LEMMA GotoType ==
  ASSUME Locals, NEW w \in Workers, pc[w] # "idle", NEW next \in Pc \ {"idle"},
         InIntake(w) => next \in Intake, Goto(w, next), UNCHANGED <<job, tx>>
  PROVE  Locals'
<1>1. Becomes(w, next, job[w], tx[w])
  BY KeepsHit DEF Goto, Becomes
<1>2. tx[w] # {} => next \in Intake
  BY DEF Locals
<1> QED
  BY <1>1, <1>2, BecomesType, KeepsHit, Working, NoneAssumption

\* The hits that an update of one local makes.
LEMMA JobTypes ==
  ASSUME NEW j \in Job
  PROVE  /\ \A r \in {"none", "live", "expired", "free"} : [j EXCEPT !.read = r] \in Job
         /\ j.attempt + 1 < LockAttempts => [j EXCEPT !.attempt = @ + 1] \in Job
         /\ \A a \in BOOLEAN : [j EXCEPT !.alone = a] \in Job
         /\ \A b \in {"redis", "db"}, a \in BOOLEAN :
               [j EXCEPT !.backend = b, !.alone = a] \in Job
         /\ \A s \in SUBSET Messages, g \in BOOLEAN :
               [j EXCEPT !.seen = s, !.greeted = g] \in Job
<1>1. \A r \in {"none", "live", "expired", "free"} : [j EXCEPT !.read = r] \in Job
  BY DEF Job
<1>2. j.attempt + 1 < LockAttempts => [j EXCEPT !.attempt = @ + 1] \in Job
  BY BoundAssumption DEF Job
<1>3. \A a \in BOOLEAN : [j EXCEPT !.alone = a] \in Job
  BY DEF Job
<1>4. \A b \in {"redis", "db"}, a \in BOOLEAN :
         [j EXCEPT !.backend = b, !.alone = a] \in Job
  BY DEF Job
<1>5. \A s \in SUBSET Messages, g \in BOOLEAN :
         [j EXCEPT !.seen = s, !.greeted = g] \in Job
  BY DEF Job
<1> QED
  BY <1>1, <1>2, <1>3, <1>4, <1>5

LEMMA LocalType ==
  ASSUME Locals, NEW w \in Workers, pc[w] # "idle", NEW next \in Pc \ {"idle"},
         NEW j \in Job, NEW t \in Writes, t # {} => next \in Intake,
         Becomes(w, next, j, t)
  PROVE  Locals'
  BY BecomesType, NoneAssumption

LEMMA EnterType ==
  ASSUME Locals, NEW w \in Workers, pc[w] # "idle", ~InIntake(w),
         NEW backend \in {"redis", "db"}, Enter(w, backend), UNCHANGED tx
  PROVE  Locals'
<1> DEFINE company == {v \in Others(w) : InIntake(v)}
<1>1. pc' \in [Workers -> Pc] /\ pc'[w] = "find"
      /\ \A v \in Workers : v # w => pc'[v] = pc[v]
  BY DEF Locals, Enter, Goto, Pc, Intake
<1>2. ASSUME NEW v \in Workers
      PROVE  job'[v] \in Job \cup {None} /\ (pc'[v] = "idle" <=> job'[v] = None)
  <2>1. CASE v = w
    <3> DEFINE alone == company = {}
    <3>1. job'[v] = [job[w] EXCEPT !.backend = backend, !.alone = alone]
      BY <2>1 DEF Enter
    <3>2. job[w] \in Job
      BY Working
    <3>3. \/ job'[v] = [job[w] EXCEPT !.backend = backend, !.alone = TRUE]
          \/ job'[v] = [job[w] EXCEPT !.backend = backend, !.alone = FALSE]
      <4>1. alone = TRUE \/ alone = FALSE
        OBVIOUS
      <4> HIDE DEF alone
      <4> QED
        BY <3>1, <4>1
    <3>4. job'[v] \in Job
      BY <3>2, <3>3, JobTypes
    <3> QED
      BY <2>1, <3>4, <1>1, NoneAssumption
  <2>2. CASE v # w /\ v \in company
    <3>1. job'[v] = [job[v] EXCEPT !.alone = FALSE]
      BY <2>2 DEF Enter
    <3>2. pc[v] # "idle"
      BY <2>2 DEF InIntake, Intake
    <3>3. job[v] \in Job
      BY <3>2, Working
    <3>4. job'[v] \in Job
      BY <3>1, <3>3, JobTypes
    <3> QED
      BY <2>2, <3>2, <3>4, <1>1, NoneAssumption
  <2>3. CASE v # w /\ v \notin company
    <3>1. job'[v] = job[v]
      BY <2>3 DEF Enter
    <3> QED
      BY <2>3, <3>1, <1>1 DEF Locals
  <2> QED
    BY <2>1, <2>2, <2>3
<1>3. job' \in [Workers -> Job \cup {None}]
  <2>1. job' = [v \in Workers |-> job'[v]]
    BY DEF Enter
  <2> QED
    BY <2>1, <1>2
<1>4. \A v \in Workers : tx'[v] # {} => pc'[v] \in Intake
  BY <1>1 DEF Locals, InIntake
<1> QED
  BY <1>1, <1>2, <1>3, <1>4 DEF Locals, InIntake

LEMMA TryAgainType ==
  ASSUME Locals, NEW w \in Workers, pc[w] # "idle", ~InIntake(w), TryAgain(w)
  PROVE  Locals'
<1>1. CASE End(w)
  BY <1>1, EndType
<1>2. CASE /\ job[w].attempt + 1 < LockAttempts
           /\ job' = [job EXCEPT ![w].attempt = @ + 1]
           /\ Goto(w, "lock_read") /\ UNCHANGED tx
  <2>1. [job[w] EXCEPT !.attempt = @ + 1] \in Job
    BY <1>2, Working, JobTypes
  <2>2. Becomes(w, "lock_read", [job[w] EXCEPT !.attempt = @ + 1], tx[w])
    BY <1>2, KeepsHit DEF Becomes, Goto
  <2>3. tx[w] = {}
    BY DEF Locals
  <2> QED
    BY <2>1, <2>2, <2>3, LocalType DEF Pc, Writes
<1> QED
  BY <1>1, <1>2 DEF TryAgain

\* The statements before the intake.
LEMMA GateLocals ==
  ASSUME Locals, Stored, NEW w \in Workers,
         \/ RecordKeyInRedis(w) \/ RecordKeyRead(w) \/ RecordKeyWrite(w)
         \/ AcquireInRedis(w) \/ LockRead(w) \/ LockInsert(w) \/ LockUpdate(w) \/ Raise(w)
  PROVE  Locals'
<1>1. CASE RecordKeyInRedis(w)
  BY <1>1, EndType, GotoType DEF RecordKeyInRedis, InIntake, Intake, Pc
<1>2. CASE RecordKeyRead(w)
  <2> DEFINE found == keys[BodyOf[job[w].msg]]
  <2>1. pc[w] = "dedup"
    BY <1>2 DEF RecordKeyRead
  <2>2. job[w] \in Job
    BY <2>1, Working
  <2>3. found \in {"none", "live", "expired"}
    BY <2>2, BodyAssumption DEF Stored, Job
  <2>4. CASE Goto(w, "raised") /\ UNCHANGED <<job, tx>>
    BY <2>1, <2>4, GotoType DEF InIntake, Intake, Pc
  <2>5. CASE End(w)
    BY <2>5, EndType
  <2>6. CASE job' = [job EXCEPT ![w].read = found] /\ Goto(w, "key_write") /\ UNCHANGED tx
    <3>1. [job[w] EXCEPT !.read = found] \in Job
      BY <2>2, <2>3, JobTypes
    <3>2. Becomes(w, "key_write", [job[w] EXCEPT !.read = found], tx[w])
      BY <2>6, KeepsHit DEF Becomes, Goto
    <3>3. tx[w] = {}
      BY <2>1 DEF Locals, InIntake, Intake
    <3> QED
      BY <2>1, <3>1, <3>2, <3>3, LocalType DEF Pc, Writes
  <2> QED
    BY <1>2, <2>4, <2>5, <2>6 DEF RecordKeyRead
<1>3. CASE RecordKeyWrite(w)
  BY <1>3, EndType, GotoType DEF RecordKeyWrite, InIntake, Intake, Pc
<1>4. CASE AcquireInRedis(w)
  <2>1. CASE Enter(w, "redis")
    BY <1>4, <2>1, EnterType DEF AcquireInRedis, InIntake, Intake
  <2>2. CASE Goto(w, "lock_read") /\ UNCHANGED job
    BY <1>4, <2>2, GotoType DEF AcquireInRedis, InIntake, Intake, Pc
  <2> QED
    BY <1>4, <2>1, <2>2 DEF AcquireInRedis
<1>5. CASE LockRead(w)
  <2>1. pc[w] = "lock_read"
    BY <1>5 DEF LockRead
  <2>2. CASE Goto(w, "raised") /\ UNCHANGED <<job, tx>>
    BY <2>1, <2>2, GotoType DEF InIntake, Intake, Pc
  <2>3. CASE TryAgain(w)
    BY <2>1, <2>3, TryAgainType DEF InIntake, Intake
  <2>4. CASE job' = [job EXCEPT ![w].read = lock] /\ Goto(w, "lock_write") /\ UNCHANGED tx
    <3>1. [job[w] EXCEPT !.read = lock] \in Job
      BY <2>1, Working, JobTypes DEF Stored
    <3>2. Becomes(w, "lock_write", [job[w] EXCEPT !.read = lock], tx[w])
      BY <2>4, KeepsHit DEF Becomes, Goto
    <3>3. tx[w] = {}
      BY <2>1 DEF Locals, InIntake, Intake
    <3> QED
      BY <2>1, <3>1, <3>2, <3>3, LocalType DEF Pc, Writes
  <2> QED
    BY <1>5, <2>2, <2>3, <2>4 DEF LockRead
<1>6. CASE LockInsert(w)
  <2>1. CASE Enter(w, "db") /\ UNCHANGED tx
    BY <1>6, <2>1, EnterType DEF LockInsert, InIntake, Intake
  <2>2. CASE TryAgain(w)
    BY <1>6, <2>2, TryAgainType DEF LockInsert, InIntake, Intake
  <2> QED
    BY <1>6, <2>1, <2>2 DEF LockInsert
<1>7. CASE LockUpdate(w)
  BY <1>7, EnterType DEF LockUpdate, InIntake, Intake
<1>8. CASE Raise(w)
  BY <1>8, EndType DEF Raise
<1> QED
  BY <1>1, <1>2, <1>3, <1>4, <1>5, <1>6, <1>7, <1>8

\* The statements of the intake, and the release of the lock.
LEMMA IntakeLocals ==
  ASSUME Locals, Stored, NEW w \in Workers,
         \/ FindSession(w) \/ ResetSession(w) \/ RecordIncoming(w) \/ InsertIncoming(w)
         \/ Advance(w) \/ IntakeError(w) \/ Replay(w) \/ ReleaseRead(w) \/ ReleaseWrite(w)
  PROVE  Locals'
<1> USE DEF Goto
<1>1. CASE FindSession(w)
  <2>1. pc[w] = "find" /\ job[w] \in Job
    BY <1>1, Working DEF FindSession
  <2>2. CASE session = None
    <3>1. Becomes(w, "record", job[w], {"session"})
      BY <1>1, <2>2, KeepsHit DEF FindSession, Becomes
    <3> QED
      BY <2>1, <3>1, LocalType DEF Pc, Intake, Writes
  <2>3. CASE session # None
    <3> DEFINE next == IF session.stale THEN "reset" ELSE "record"
    <3> DEFINE j == [job[w] EXCEPT !.seen = session.ctx, !.greeted = session.greeted]
    <3>1. session.ctx \in SUBSET Messages /\ session.greeted \in BOOLEAN
      BY <2>3 DEF Stored, SessionRow
    <3>2. j \in Job
      BY <2>1, <3>1, JobTypes
    <3>3. Becomes(w, next, j, tx[w])
      BY <1>1, <2>3, KeepsHit DEF FindSession, Becomes
    <3>4. next \in Intake
      BY DEF Intake
    <3> QED
      <4> HIDE DEF j, next
      <4> QED
        BY <2>1, <3>2, <3>3, <3>4, LocalType, KeepsHit DEF Pc, Intake
  <2> QED
    BY <2>2, <2>3
<1>2. CASE ResetSession(w)
  <2>1. pc[w] = "reset" /\ job[w] \in Job
    BY <1>2, Working DEF ResetSession
  <2> DEFINE j == [job[w] EXCEPT !.seen = {}, !.greeted = FALSE]
  <2>2. j \in Job
    BY <2>1, JobTypes
  <2>3. Becomes(w, "record", j, tx[w] \cup {"reset"})
    BY <1>2 DEF ResetSession, Becomes
  <2>4. tx[w] \cup {"reset"} \in Writes
    BY KeepsHit DEF Writes
  <2> HIDE DEF j
  <2> QED
    BY <2>1, <2>2, <2>3, <2>4, LocalType DEF Pc, Intake
<1>3. CASE RecordIncoming(w)
  BY <1>3, GotoType DEF RecordIncoming, Pc, Intake
<1>4. CASE InsertIncoming(w)
  <2>1. pc[w] = "insert" /\ job[w] \in Job
    BY <1>4, Working DEF InsertIncoming
  <2>2. \/ Becomes(w, "replay", job[w], {})
        \/ Becomes(w, "advance", job[w], tx[w] \cup {"incoming"})
    BY <1>4, KeepsHit DEF InsertIncoming, Becomes
  <2>3. {} \in Writes /\ tx[w] \cup {"incoming"} \in Writes
    BY KeepsHit DEF Writes
  <2> QED
    BY <2>1, <2>2, <2>3, LocalType DEF Pc, Intake
<1>5. CASE Advance(w) \/ IntakeError(w) \/ Replay(w)
  <2>1. pc[w] # "idle" /\ job[w] \in Job
    <3>1. \A v \in Workers : WaitsFor(w, v) => pc[w] \in {"find", "reset", "advance", "insert"}
      BY DEF WaitsFor
    <3> QED
      BY <1>5, <3>1, Working DEF Advance, IntakeError, Replay
  <2>2. Becomes(w, "release", job[w], {})
    BY <1>5, KeepsHit DEF Advance, IntakeError, Replay, Becomes
  <2> QED
    BY <2>1, <2>2, LocalType DEF Pc, Writes
<1>6. CASE ReleaseRead(w)
  BY <1>6, EndType, GotoType DEF ReleaseRead, InIntake, Intake, Pc
<1>7. CASE ReleaseWrite(w)
  BY <1>7, EndType DEF ReleaseWrite
<1> QED
  BY <1>1, <1>2, <1>3, <1>4, <1>5, <1>6, <1>7

\* What Redis and the tables hold after a step: TypeOK's other half.
LEMMA StepStored ==
  ASSUME Locals, Stored, NEW w \in Workers, Step(w)
  PROVE  Stored'
<1>1. CASE RecordKeyInRedis(w)
  <2>1. job[w] \in Job
    BY <1>1, Working DEF RecordKeyInRedis
  <2>2. BodyOf[job[w].msg] \in Bodies
    BY <2>1, BodyAssumption DEF Job
  <2> QED
    BY <1>1, <2>2 DEF RecordKeyInRedis, Stored, tables, bounds
<1>2. CASE RecordKeyRead(w) \/ LockRead(w) \/ Raise(w) \/ FindSession(w) \/ ResetSession(w)
           \/ RecordIncoming(w) \/ InsertIncoming(w) \/ IntakeError(w) \/ ReleaseRead(w)
  BY <1>2 DEF RecordKeyRead, LockRead, Raise, FindSession, ResetSession, RecordIncoming,
     InsertIncoming, IntakeError, ReleaseRead, Stored, tables, bounds
<1>3. CASE RecordKeyWrite(w)
  BY <1>3 DEF RecordKeyWrite, Stored, tables, bounds
<1>4. CASE AcquireInRedis(w) \/ LockInsert(w) \/ LockUpdate(w) \/ ReleaseWrite(w)
  BY <1>4 DEF AcquireInRedis, LockInsert, LockUpdate, ReleaseWrite, Stored, tables, bounds
<1>5. CASE Advance(w)
  <2>1. job[w] \in Job
    BY <1>5, Working DEF Advance
  <2>2. PICK told \in Outcomes(w) : \E ctx \in MergedContext(w, told) :
          /\ session' = [ctx |-> ctx, greeted |-> TRUE, stale |-> FALSE]
          /\ outs' = Append(outs, [msg |-> job[w].msg, told |-> told])
          /\ booked' = IF told = "booked" THEN booked \cup {job[w].msg} ELSE booked
    BY <1>5 DEF Advance
  <2>3. told \in Told
    BY DEF Outcomes, Told
  <2>4. MergedContext(w, told) \subseteq SUBSET Messages
    BY <2>1 DEF MergedContext, Job, Stored, SessionRow
  <2>5. session' \in SessionRow
    BY <2>2, <2>4 DEF SessionRow
  <2>6. outs' \in Seq(OutRow) /\ booked' \subseteq Messages /\ incoming' \subseteq Messages
    BY <1>5, <2>1, <2>2, <2>3 DEF OutRow, Job, Stored, Advance
  <2> QED
    BY <1>5, <2>5, <2>6 DEF Advance, Stored, bounds
<1>6. CASE Replay(w)
  BY <1>6 DEF Replay, Stored, SessionRow, bounds
<1> QED
  BY <1>1, <1>2, <1>3, <1>4, <1>5, <1>6 DEF Step

LEMMA NextType ==
  ASSUME TypeOK, [Next]_vars
  PROVE  TypeOK'
<1> USE TypeParts
<1>1. ASSUME NEW w \in Workers, Step(w) PROVE TypeOK'
  <2>1. Locals'
    BY <1>1, GateLocals, IntakeLocals DEF Step
  <2>2. Stored'
    BY <1>1, StepStored
  <2> QED
    BY <2>1, <2>2 DEF TypeOK, Stored, Locals, Writes, InIntake
<1>2. ASSUME NEW w \in Workers, Crash(w) PROVE Stored' /\ Locals'
  BY <1>2, EndType, BoundAssumption DEF Crash, Stored, tables
<1>3. ASSUME NEW w \in Workers, RedisError(w) PROVE Stored' /\ Locals'
  <2>1. Stored'
    BY <1>3, BoundAssumption DEF RedisError, Stored, tables
  <2>2. Locals'
    BY <1>3, EndType, GotoType DEF RedisError, InIntake, Intake, Pc
  <2> QED
    BY <2>1, <2>2
<1>4. ASSUME NEW w \in Workers, NEW m \in Messages, Receive(w, m) PROVE Stored' /\ Locals'
  <2>1. Stored'
    BY <1>4, BoundAssumption DEF Receive, Stored, tables
  <2>2. NewJob(m) \in Job
    BY BoundAssumption DEF NewJob, Job
  <2>3. Becomes(w, "dedup", NewJob(m), tx[w]) /\ tx[w] = {}
    BY <1>4, KeepsHit DEF Receive, Becomes, Goto, Locals, InIntake, Intake
  <2> QED
    BY <2>1, <2>2, <2>3, BecomesType, NoneAssumption DEF Pc, Writes
<1>5. ASSUME (\E b \in Bodies : ExpireKey(b)) \/ ExpireLock \/ AgeSession \/ UNCHANGED vars
      PROVE  Stored' /\ Locals'
  <2>1. UNCHANGED <<pc, job, tx>>
    BY <1>5 DEF ExpireKey, ExpireLock, AgeSession, vars
  <2>2. Locals'
    BY <2>1 DEF Locals, InIntake
  <2>3. ASSUME NEW b \in Bodies, ExpireKey(b) PROVE Stored'
    BY <2>3 DEF ExpireKey, Stored, tables, bounds
  <2>4. ASSUME ExpireLock \/ UNCHANGED vars PROVE Stored'
    BY <2>4 DEF ExpireLock, Stored, tables, bounds, vars
  <2>5. ASSUME AgeSession PROVE Stored'
    BY <2>5 DEF AgeSession, Stored, SessionRow, bounds
  <2> QED
    BY <1>5, <2>2, <2>3, <2>4, <2>5
<1>6. Stored' /\ Locals' => TypeOK'
  BY DEF TypeOK, Stored, Locals, Writes, InIntake
<1> QED
  BY <1>1, <1>2, <1>3, <1>4, <1>5, <1>6 DEF Next

LEMMA InitType == Init => TypeOK
<1> SUFFICES ASSUME Init PROVE TypeOK
  OBVIOUS
<1>1. Stored
  <2>1. session \in SessionRow \cup {None}
    <3>1. [ctx |-> {}, greeted |-> TRUE, stale |-> FALSE] \in SessionRow
      BY DEF SessionRow
    <3> QED
      BY <3>1 DEF Init
  <2>2. outs \in Seq(OutRow)
    BY DEF Init
  <2>3. redis \in [keys : SUBSET Bodies, lock : Workers \cup {None}]
    BY DEF Init
  <2>4. keys \in [Bodies -> {"none", "live", "expired"}]
    BY DEF Init
  <2> QED
    BY <2>1, <2>2, <2>3, <2>4, BoundAssumption DEF Init, Stored
<1>2. Locals
  BY DEF Init, Locals, Writes, Pc, InIntake, Intake
<1> QED
  BY <1>1, <1>2, TypeParts

\* Every variable keeps its type, whatever the hits, crashes and outages: in particular
\* nothing is left in a transaction once the intake service has returned or raised.
THEOREM IntakeTypes == Spec => []TypeOK
  BY InitType, NextType, PTL DEF Spec
-----------------------------------------------------------------------------
(* What a step does to the processes in the intake *)

\* The step of w leaves the others where they are; that w enters may end their being
\* alone.
Spares(w) ==
    \A v \in Workers \ {w} :
        /\ pc'[v] = pc[v] /\ tx'[v] = tx[v]
        /\ \/ job'[v] = job[v]
           \/ InIntake(v) /\ job'[v] = [job[v] EXCEPT !.alone = FALSE]

\* w is outside the intake after the step, and what it had not committed is gone.
Outside(w) == pc'[w] \notin Intake /\ tx'[w] = {} /\ UNCHANGED tables

\* w enters, alone only if nobody else is inside; whoever is inside is alone no more.
Enters(w) ==
    /\ pc'[w] = "find" /\ tx'[w] = {} /\ UNCHANGED tables
    /\ job'[w].alone => \A v \in Workers \ {w} : ~InIntake(v)
    /\ \A v \in Workers \ {w} : InIntake(v) => job'[v] = [job[v] EXCEPT !.alone = FALSE]

Writing(w) ==
    \/ FindSession(w) \/ ResetSession(w) \/ RecordIncoming(w) \/ InsertIncoming(w)
    \/ Advance(w) \/ Replay(w)

LEMMA EntersEffect ==
  ASSUME Locals, NEW w \in Workers, pc[w] # "idle", ~InIntake(w),
         NEW backend, Enter(w, backend), UNCHANGED <<tx, tables>>
  PROVE  Spares(w) /\ Enters(w)
<1> DEFINE company == {v \in Others(w) : InIntake(v)}
<1>1. pc'[w] = "find" /\ tx'[w] = {} /\ \A v \in Workers \ {w} : pc'[v] = pc[v] /\ tx'[v] = tx[v]
  BY DEF Locals, Enter, Goto
<1>2. \A v \in company : job'[v] = [job[v] EXCEPT !.alone = FALSE]
  BY DEF Enter, Others
<1>3. \A v \in Workers \ {w} : v \notin company => job'[v] = job[v]
  BY DEF Enter
<1>4. job'[w].alone => company = {}
  <2> DEFINE alone == company = {}
  <2>1. job'[w] = [job[w] EXCEPT !.backend = backend, !.alone = alone]
    BY DEF Enter
  <2>2. DOMAIN job[w] = {"msg", "backend", "attempt", "read", "seen", "greeted", "alone"}
    BY Working DEF Job
  <2>3. job'[w].alone = alone
    <3> HIDE DEF alone
    <3> QED
      BY <2>1, <2>2
  <2> QED
    BY <2>3
<1>5. \A v \in Workers \ {w} : InIntake(v) <=> v \in company
  BY DEF Others
<1> QED
  BY <1>1, <1>2, <1>3, <1>4, <1>5 DEF Spares, Enters

\* A step outside the intake, or one that leaves it.
LEMMA OutsideEffect ==
  ASSUME Locals, NEW w \in Workers, NEW next \in Pc \ Intake, NEW j, NEW t,
         Becomes(w, next, j, t), t = {}, UNCHANGED tables
  PROVE  Spares(w) /\ Outside(w)
<1>1. pc'[w] = next /\ tx'[w] = t
  BY DEF Locals, Becomes
<1>2. \A v \in Workers \ {w} : pc'[v] = pc[v] /\ tx'[v] = tx[v] /\ job'[v] = job[v]
  BY DEF Locals, Becomes
<1> QED
  BY <1>1, <1>2 DEF Spares, Outside

LEMMA EndEffect ==
  ASSUME Locals, NEW w \in Workers, End(w), UNCHANGED tables
  PROVE  Spares(w) /\ Outside(w)
<1>1. Becomes(w, "idle", None, {})
  BY DEF End, Goto, Becomes
<1> QED
  BY <1>1, OutsideEffect DEF Pc, Intake

LEMMA GotoEffect ==
  ASSUME Locals, NEW w \in Workers, ~InIntake(w), NEW next \in Pc \ Intake,
         Goto(w, next), UNCHANGED <<job, tx, tables>>
  PROVE  Spares(w) /\ Outside(w)
<1>1. Becomes(w, next, job[w], tx[w]) /\ tx[w] = {}
  BY KeepsHit DEF Goto, Becomes, Locals
<1> QED
  BY <1>1, OutsideEffect

LEMMA UpdateEffect ==
  ASSUME Locals, NEW w \in Workers, ~InIntake(w), NEW next \in Pc \ Intake, NEW j,
         Goto(w, next), job' = [job EXCEPT ![w] = j], UNCHANGED <<tx, tables>>
  PROVE  Spares(w) /\ Outside(w)
<1>1. Becomes(w, next, j, tx[w]) /\ tx[w] = {}
  BY KeepsHit DEF Goto, Becomes, Locals
<1> QED
  BY <1>1, OutsideEffect

LEMMA TryAgainEffect ==
  ASSUME Locals, NEW w \in Workers, ~InIntake(w), TryAgain(w), UNCHANGED tables
  PROVE  Spares(w) /\ Outside(w)
<1>1. CASE End(w)
  BY <1>1, EndEffect
<1>2. CASE /\ job' = [job EXCEPT ![w].attempt = @ + 1]
           /\ Goto(w, "lock_read") /\ UNCHANGED tx
  BY <1>2, UpdateEffect DEF Pc, Intake
<1> QED
  BY <1>1, <1>2 DEF TryAgain

\* The statements outside the intake.
LEMMA GateEffect ==
  ASSUME Locals, NEW w \in Workers,
         \/ RecordKeyInRedis(w) \/ RecordKeyRead(w) \/ RecordKeyWrite(w)
         \/ AcquireInRedis(w) \/ LockRead(w) \/ LockInsert(w) \/ LockUpdate(w) \/ Raise(w)
         \/ ReleaseRead(w) \/ ReleaseWrite(w)
  PROVE  Spares(w) /\ (Outside(w) \/ Enters(w))
<1>1. UNCHANGED tables /\ pc[w] # "idle" /\ ~InIntake(w)
  BY DEF RecordKeyInRedis, RecordKeyRead, RecordKeyWrite, AcquireInRedis, LockRead,
     LockInsert, LockUpdate, Raise, ReleaseRead, ReleaseWrite, InIntake, Intake
<1>2. CASE RecordKeyInRedis(w) \/ RecordKeyWrite(w)
  BY <1>1, <1>2, EndEffect, GotoEffect DEF RecordKeyInRedis, RecordKeyWrite, Pc, Intake
<1>3. CASE RecordKeyRead(w)
  BY <1>1, <1>3, EndEffect, GotoEffect, UpdateEffect DEF RecordKeyRead, Pc, Intake
<1>4. CASE AcquireInRedis(w)
  BY <1>1, <1>4, EntersEffect, GotoEffect DEF AcquireInRedis, Pc, Intake
<1>5. CASE LockRead(w)
  BY <1>1, <1>5, GotoEffect, TryAgainEffect, UpdateEffect DEF LockRead, Pc, Intake
<1>6. CASE LockInsert(w)
  BY <1>1, <1>6, EntersEffect, TryAgainEffect DEF LockInsert
<1>7. CASE LockUpdate(w)
  BY <1>1, <1>7, EntersEffect DEF LockUpdate
<1>8. CASE Raise(w) \/ ReleaseRead(w) \/ ReleaseWrite(w)
  BY <1>1, <1>8, EndEffect, GotoEffect DEF Raise, ReleaseRead, ReleaseWrite, Pc, Intake
<1> QED
  BY <1>2, <1>3, <1>4, <1>5, <1>6, <1>7, <1>8

LEMMA Effects ==
  ASSUME Locals, NEW w \in Workers,
         Step(w) \/ Crash(w) \/ RedisError(w) \/ \E m \in Messages : Receive(w, m)
  PROVE  Spares(w) /\ (Outside(w) \/ Enters(w) \/ Writing(w))
<1>1. CASE IntakeError(w)
  <2>1. Becomes(w, "release", job[w], {}) /\ UNCHANGED tables
    BY <1>1, KeepsHit DEF IntakeError, Becomes, Goto
  <2> QED
    BY <2>1, OutsideEffect DEF Pc, Intake
<1>2. CASE Writing(w)
  BY <1>2 DEF Writing, Spares, FindSession, ResetSession, RecordIncoming, InsertIncoming,
     Advance, Replay, Goto, Locals
<1>3. CASE Crash(w)
  BY <1>3, EndEffect DEF Crash
<1>4. CASE RedisError(w)
  BY <1>4, EndEffect, GotoEffect DEF RedisError, Pc, Intake, InIntake
<1>5. ASSUME NEW m \in Messages, Receive(w, m) PROVE Spares(w) /\ Outside(w)
  BY <1>5, UpdateEffect DEF Receive, Pc, Intake, InIntake
<1> QED
  BY <1>1, <1>2, <1>3, <1>4, <1>5, GateEffect DEF Step, Writing
-----------------------------------------------------------------------------
(* The log of messages and replies *)

\* One message, one row waiting to be committed: the unique constraint makes the second
\* INSERT wait for the first transaction's end, and fail if it committed.
OneInsert ==
    /\ \A w \in Workers : /\ "incoming" \in tx[w] <=> pc[w] = "advance"
                          /\ pc[w] = "advance" => job[w].msg \notin incoming
    /\ \A v, w \in Workers :
          pc[v] = "advance" /\ pc[w] = "advance" /\ job[v].msg = job[w].msg => v = w

LogInv == TypeOK /\ OneInsert /\ AnsweredOnce /\ BookedAsTold

\* The replies to a message after one more was written.
LEMMA OneMoreReply ==
  ASSUME outs \in Seq(OutRow), NEW m \in Messages, NEW told \in Told,
         outs' = Append(outs, [msg |-> m, told |-> told])
  PROVE  /\ \A n \in Messages : n # m => Replies(n)' = Replies(n)
         /\ Replies(m)' = Replies(m) \cup {Len(outs) + 1}
         /\ {outs'[i].msg : i \in {j \in 1 .. Len(outs') : outs'[j].told = "booked"}}
              = {outs[i].msg : i \in {j \in 1 .. Len(outs) : outs[j].told = "booked"}}
                  \cup (IF told = "booked" THEN {m} ELSE {})
<1>1. /\ Len(outs) \in Nat /\ Len(outs') = Len(outs) + 1
      /\ \A i \in 1 .. Len(outs) : outs'[i] = outs[i]
      /\ outs'[Len(outs) + 1] = [msg |-> m, told |-> told]
  BY DEF OutRow
<1>2. 1 .. Len(outs') = 1 .. Len(outs) \cup {Len(outs) + 1} /\ Len(outs) + 1 \notin 1 .. Len(outs)
  BY <1>1
<1>3. \A n \in Messages : n # m => Replies(n)' = Replies(n)
  BY <1>1, <1>2 DEF Replies
<1>4. Replies(m)' = Replies(m) \cup {Len(outs) + 1}
  BY <1>1, <1>2 DEF Replies
<1> DEFINE Rows(o) == {j \in 1 .. Len(o) : o[j].told = "booked"}
<1>5. Rows(outs') = Rows(outs) \cup (IF told = "booked" THEN {Len(outs) + 1} ELSE {})
  BY <1>1, <1>2
<1>6. {outs'[i].msg : i \in Rows(outs')}
        = {outs[i].msg : i \in Rows(outs)} \cup (IF told = "booked" THEN {m} ELSE {})
  <2>1. \A i \in Rows(outs) : i \in 1 .. Len(outs)
    OBVIOUS
  <2> QED
    BY <1>1, <1>5, <2>1
<1> QED
  BY <1>3, <1>4, <1>6

\* A message without a logged row has no reply.
LEMMA Unanswered ==
  ASSUME LogInv, NEW m \in Messages, m \notin incoming
  PROVE  Replies(m) = {}
<1>1. Len(outs) \in Nat
  BY DEF LogInv, TypeOK
<1>2. IsFiniteSet(1 .. Len(outs))
  BY <1>1, FS_Interval
<1>3. IsFiniteSet(Replies(m))
  BY <1>2, FS_Subset DEF Replies
<1>4. Cardinality(Replies(m)) = 0
  BY DEF LogInv, AnsweredOnce
<1> QED
  BY <1>3, <1>4, FS_EmptySet

\* The commit of a reply.
LEMMA AdvanceLog ==
  ASSUME LogInv, NEW w \in Workers, Advance(w)
  PROVE  AnsweredOnce' /\ BookedAsTold'
<1>1. PICK m \in Messages : m = job[w].msg
  <2>1. job[w] \in Job
    BY Working, TypeParts DEF LogInv, Advance
  <2> QED
    BY <2>1 DEF Job
<1>2. m \notin incoming /\ incoming' = incoming \cup {m}
  BY <1>1 DEF LogInv, OneInsert, Advance
<1>3. PICK told \in Outcomes(w) :
         /\ outs' = Append(outs, [msg |-> m, told |-> told])
         /\ booked' = IF told = "booked" THEN booked \cup {m} ELSE booked
  BY <1>1 DEF Advance
<1>4. told \in Told
  BY DEF Outcomes, Told
<1>5. outs \in Seq(OutRow) /\ Len(outs) \in Nat
  BY DEF LogInv, TypeOK
<1>6. /\ \A n \in Messages : n # m => Replies(n)' = Replies(n)
      /\ Replies(m)' = Replies(m) \cup {Len(outs) + 1}
      /\ {outs'[i].msg : i \in {j \in 1 .. Len(outs') : outs'[j].told = "booked"}}
           = {outs[i].msg : i \in {j \in 1 .. Len(outs) : outs[j].told = "booked"}}
               \cup (IF told = "booked" THEN {m} ELSE {})
  BY <1>3, <1>4, <1>5, OneMoreReply
<1>7. AnsweredOnce'
  <2>1. Replies(m)' = {Len(outs) + 1}
    BY <1>1, <1>2, <1>6, Unanswered
  <2>2. Cardinality(Replies(m)') = 1
    BY <2>1, FS_Singleton
  <2>3. \A n \in Messages : n # m =>
           Cardinality(Replies(n)') = (IF n \in incoming' THEN 1 ELSE 0)
    BY <1>2, <1>6 DEF LogInv, AnsweredOnce
  <2> QED
    BY <1>2, <2>2, <2>3 DEF AnsweredOnce
<1>8. BookedAsTold'
  BY <1>3, <1>6 DEF LogInv, BookedAsTold
<1> QED
  BY <1>7, <1>8

LEMMA SameLog ==
  ASSUME AnsweredOnce /\ BookedAsTold, UNCHANGED <<incoming, outs, booked>>
  PROVE  AnsweredOnce' /\ BookedAsTold'
<1>1. \A m \in Messages : Replies(m)' = Replies(m)
  BY DEF Replies
<1> QED
  BY <1>1 DEF AnsweredOnce, BookedAsTold

\* Other processes may only lose "alone".
LEMMA SparesMessages ==
  ASSUME Locals, NEW w \in Workers, Spares(w), NEW v \in Workers \ {w}, pc[v] \in Intake
  PROVE  job'[v].msg = job[v].msg
<1>1. job[v] \in Job
  BY Working DEF Intake
<1> QED
  BY <1>1 DEF Spares, Job

LEMMA WorkerLog ==
  ASSUME LogInv, NEW w \in Workers, Locals', Spares(w), Outside(w) \/ Enters(w) \/ Writing(w)
  PROVE  OneInsert' /\ AnsweredOnce' /\ BookedAsTold'
<1>1. Locals
  BY TypeParts DEF LogInv
<1>2. \A v \in Workers \ {w} :
         /\ pc'[v] = pc[v] /\ tx'[v] = tx[v]
         /\ pc[v] = "advance" => job'[v].msg = job[v].msg
  BY <1>1, SparesMessages DEF Spares, Intake
<1>3. CASE /\ Outside(w) \/ Enters(w) \/ FindSession(w) \/ ResetSession(w) \/ RecordIncoming(w)
              \/ Replay(w) \/ (InsertIncoming(w) /\ pc'[w] # "advance")
  <2>1. pc'[w] # "advance" /\ "incoming" \notin tx'[w]
    BY <1>1, <1>3 DEF Outside, Enters, Intake, FindSession, ResetSession, RecordIncoming, Replay,
       InsertIncoming, Goto, Locals, LogInv, OneInsert
  <2>2. UNCHANGED <<incoming, outs, booked>>
    BY <1>3 DEF Outside, Enters, FindSession, ResetSession, RecordIncoming, Replay,
       InsertIncoming, tables
  <2>3. OneInsert'
    BY <1>2, <2>1, <2>2 DEF LogInv, OneInsert
  <2> QED
    BY <2>2, <2>3, SameLog DEF LogInv
<1>4. CASE InsertIncoming(w) /\ pc'[w] = "advance"
  <2>1. pc[w] = "insert" /\ Ready(w) /\ UNCHANGED <<job, incoming, outs, booked>>
    BY <1>4 DEF InsertIncoming, tables
  <2>2. job[w].msg \notin incoming /\ "incoming" \in tx'[w]
    BY <1>1, <1>4 DEF InsertIncoming, Goto, Locals
  <2>3. \A v \in Workers : v # w /\ pc[v] = "advance" => job[v].msg # job[w].msg
    <3>1. \A v \in Workers : v # w /\ "incoming" \in tx[v] /\ job[v].msg = job[w].msg
                               => WaitsFor(w, v)
      BY <2>1 DEF WaitsFor
    <3> QED
      BY <2>1, <3>1 DEF Ready, LogInv, OneInsert
  <2>4. OneInsert'
    BY <1>2, <1>4, <2>1, <2>2, <2>3 DEF LogInv, OneInsert
  <2> QED
    BY <2>1, <2>4, SameLog DEF LogInv
<1>5. CASE Advance(w)
  <2>1. /\ pc[w] = "advance" /\ pc'[w] = "release" /\ tx'[w] = {}
        /\ incoming' = incoming \cup {job[w].msg}
    BY <1>1, <1>5 DEF Advance, Goto, Locals
  <2>2. OneInsert'
    BY <1>2, <2>1 DEF LogInv, OneInsert
  <2> QED
    BY <1>5, <2>2, AdvanceLog
<1> QED
  BY <1>3, <1>4, <1>5 DEF Writing

LEMMA NextLog ==
  ASSUME LogInv, [Next]_vars
  PROVE  LogInv'
<1>1. TypeOK' /\ Locals /\ Locals'
  <2>1. TypeOK'
    BY NextType DEF LogInv
  <2>2. TypeOK' => Locals'
    BY DEF TypeOK, Locals, Writes, InIntake
  <2> QED
    BY <2>1, <2>2, TypeParts DEF LogInv
<1>2. ASSUME NEW w \in Workers,
             Step(w) \/ Crash(w) \/ RedisError(w) \/ \E m \in Messages : Receive(w, m)
      PROVE  LogInv'
  BY <1>1, <1>2, Effects, WorkerLog DEF LogInv
<1>3. ASSUME (\E b \in Bodies : ExpireKey(b)) \/ ExpireLock \/ AgeSession \/ UNCHANGED vars
      PROVE  LogInv'
  <2>1. UNCHANGED <<pc, job, tx, incoming, outs, booked>>
    BY <1>3 DEF ExpireKey, ExpireLock, AgeSession, vars, tables
  <2>2. OneInsert'
    BY <2>1 DEF LogInv, OneInsert
  <2> QED
    BY <1>1, <2>1, <2>2, SameLog DEF LogInv
<1> QED
  BY <1>2, <1>3 DEF Next

LEMMA InitLog == Init => LogInv
<1> SUFFICES ASSUME Init PROVE LogInv
  OBVIOUS
<1>1. OneInsert
  BY DEF Init, OneInsert
<1>2. \A m \in Messages : Replies(m) = {}
  BY DEF Init, Replies
<1>3. AnsweredOnce
  BY <1>2, FS_EmptySet DEF Init, AnsweredOnce
<1>4. BookedAsTold
  BY DEF Init, BookedAsTold
<1> QED
  BY <1>1, <1>3, <1>4, InitType DEF LogInv

\* However often a message is delivered, by whichever processes, it is answered exactly
\* once if it is logged and never otherwise: uq_incoming_provider_message, not the lock,
\* keeps the promise.
THEOREM AnsweredOnceAlways == Spec => []AnsweredOnce
<1>1. LogInv => AnsweredOnce
  BY DEF LogInv
<1> QED
  BY <1>1, InitLog, NextLog, PTL DEF Spec

\* The appointments in the table are the ones the customer was told of: a booking and
\* its message are committed together or not at all.
THEOREM BookedAsToldAlways == Spec => []BookedAsTold
<1>1. LogInv => BookedAsTold
  BY DEF LogInv
<1> QED
  BY <1>1, InitLog, NextLog, PTL DEF Spec
-----------------------------------------------------------------------------
(* A hit that has the conversation to itself *)

\* A hit that is alone really is; and what it loaded is still what the table holds,
\* unless it is about to reset the session.
Undisturbed(w) ==
    InIntake(w) /\ job[w].alone =>
        /\ \A v \in Workers \ {w} : ~InIntake(v)
        /\ pc[w] \in {"reset", "record", "insert", "advance"} /\ "reset" \notin tx[w]
              /\ session # None => session.ctx \subseteq job[w].seen

AloneInv == TypeOK /\ \A w \in Workers : Undisturbed(w)

\* A step of another process.
LEMMA OtherAlone ==
  ASSUME AloneInv, Locals, NEW v \in Workers, Spares(v),
         Outside(v) \/ Enters(v) \/ Writing(v), NEW w \in Workers \ {v}
  PROVE  Undisturbed(w)'
<1> SUFFICES ASSUME InIntake(w)', job'[w].alone
             PROVE  Undisturbed(w)'
  BY DEF Undisturbed
<1>1. InIntake(w) /\ pc'[w] = pc[w] /\ tx'[w] = tx[w]
  BY DEF Spares, InIntake
<1>2. job[w] \in Job
  BY <1>1, Working DEF InIntake, Intake
<1>3. [job[w] EXCEPT !.alone = FALSE].alone = FALSE
  BY <1>2 DEF Job
<1>4. job'[w] = job[w] /\ ~Enters(v)
  BY <1>1, <1>3 DEF Spares, Enters
<1>5. Undisturbed(w)
  BY DEF AloneInv
<1>6. ~InIntake(v)
  BY <1>1, <1>4, <1>5 DEF Undisturbed
<1>7. Outside(v)
  BY <1>4, <1>6 DEF Writing, InIntake, Intake, FindSession, ResetSession, RecordIncoming,
     InsertIncoming, Advance, Replay
<1>8. \A u \in Workers \ {w} : ~InIntake(u)'
  BY <1>1, <1>4, <1>5, <1>7 DEF Undisturbed, Outside, Spares, InIntake
<1> QED
  BY <1>1, <1>4, <1>5, <1>7, <1>8 DEF Undisturbed, Outside, tables

\* Its own step.
LEMMA OwnAlone ==
  ASSUME AloneInv, Locals, NEW w \in Workers, Spares(w),
         Outside(w) \/ Enters(w) \/ Writing(w)
  PROVE  Undisturbed(w)'
<1>1. CASE Outside(w)
  BY <1>1 DEF Outside, Undisturbed, InIntake
<1>2. CASE Enters(w)
  BY <1>2 DEF Enters, Spares, Undisturbed, InIntake
<1>3. CASE Writing(w)
  <2>1. InIntake(w) /\ job[w] \in Job
    BY <1>3, Working DEF Writing, InIntake, Intake, FindSession, ResetSession,
       RecordIncoming, InsertIncoming, Advance, Replay
  <2>2. job'[w].alone = job[w].alone
    BY <1>3, <2>1 DEF Writing, FindSession, ResetSession, RecordIncoming, InsertIncoming,
       Advance, Replay, Job, Locals
  <2>3. job[w].alone => \A v \in Workers \ {w} : ~InIntake(v)'
    BY <2>1 DEF AloneInv, Undisturbed, Spares, InIntake
  <2>4. ASSUME pc'[w] \in {"reset", "record", "insert", "advance"}, "reset" \notin tx'[w],
               session' # None, job[w].alone
        PROVE  session'.ctx \subseteq job'[w].seen
    <3>1. CASE FindSession(w)
      <4>1. session # None /\ session' = session
        BY <2>4, <3>1 DEF FindSession, tables
      <4>2. job' = [job EXCEPT ![w] = [job[w] EXCEPT !.seen = session.ctx,
                                                    !.greeted = session.greeted]]
        BY <3>1, <4>1 DEF FindSession
      <4>3. job'[w].seen = session.ctx
        BY <2>1, <4>2 DEF Job, Locals
      <4> QED
        BY <4>1, <4>3
    <3>2. CASE ResetSession(w)
      BY <2>4, <3>2 DEF ResetSession, Locals
    <3>3. CASE RecordIncoming(w) \/ InsertIncoming(w)
      <4>1. session' = session /\ job' = job /\ "reset" \notin tx[w]
            /\ pc[w] \in {"record", "insert"}
        BY <2>4, <3>3 DEF RecordIncoming, InsertIncoming, tables, Goto, Locals
      <4> QED
        BY <2>1, <2>4, <4>1 DEF AloneInv, Undisturbed
    <3>4. CASE Advance(w) \/ Replay(w)
      BY <2>4, <3>4 DEF Advance, Replay, Goto, Locals
    <3> QED
      BY <1>3, <3>1, <3>2, <3>3, <3>4 DEF Writing
  <2> QED
    BY <2>2, <2>3, <2>4 DEF Undisturbed
<1> QED
  BY <1>1, <1>2, <1>3

LEMMA NextAlone ==
  ASSUME AloneInv, [Next]_vars
  PROVE  AloneInv'
<1>1. TypeOK' /\ Locals
  BY NextType, TypeParts DEF AloneInv
<1>2. ASSUME NEW w \in Workers,
             Step(w) \/ Crash(w) \/ RedisError(w) \/ \E m \in Messages : Receive(w, m)
      PROVE  AloneInv'
  BY <1>1, <1>2, Effects, OtherAlone, OwnAlone DEF AloneInv
<1>3. ASSUME (\E b \in Bodies : ExpireKey(b)) \/ ExpireLock \/ UNCHANGED vars
      PROVE  AloneInv'
  BY <1>1, <1>3 DEF ExpireKey, ExpireLock, vars, tables, AloneInv, Undisturbed, InIntake
<1>4. ASSUME AgeSession PROVE AloneInv'
  BY <1>1, <1>4 DEF AgeSession, AloneInv, Undisturbed, InIntake, Intake
<1> QED
  BY <1>2, <1>3, <1>4 DEF Next

LEMMA InitAlone == Init => AloneInv
  BY InitType DEF Init, AloneInv, Undisturbed, InIntake, Intake

\* The commit of a hit that was alone.
LEMMA CommitForgetsNothing ==
  ASSUME AloneInv, [Next]_vars, NEW w \in Workers, outs' # outs, pc[w] = "advance",
         pc'[w] = "release", job[w].alone, session # None, "reset" \notin tx[w]
  PROVE  session.ctx \subseteq session'.ctx
<1>1. Locals
  BY TypeParts DEF AloneInv
<1>2. PICK v \in Workers : Step(v) \/ Crash(v) \/ RedisError(v) \/ \E m \in Messages : Receive(v, m)
  BY DEF Next, ExpireKey, ExpireLock, AgeSession, vars, tables
<1>3. Spares(v) /\ (Outside(v) \/ Enters(v) \/ Writing(v))
  BY <1>1, <1>2, Effects
<1>4. v = w
  BY <1>3 DEF Spares
<1>5. Advance(w)
  BY <1>3, <1>4 DEF Outside, Enters, Writing, FindSession, ResetSession, RecordIncoming,
     InsertIncoming, Replay, tables
<1>6. PICK told \in Outcomes(w) : \E ctx \in MergedContext(w, told) :
         session' = [ctx |-> ctx, greeted |-> TRUE, stale |-> FALSE]
  BY <1>5 DEF Advance
<1>7. session.ctx \subseteq job[w].seen
  BY DEF AloneInv, Undisturbed, InIntake, Intake
<1>8. \A ctx \in MergedContext(w, told) : session.ctx \subseteq ctx
  BY <1>7 DEF MergedContext
<1> QED
  BY <1>6, <1>8

\* A hit that nobody overlapped adds to what the customer said before; only a session
\* found stale starts afresh.
THEOREM NothingForgottenAlways == Spec => NothingForgotten
<1>1. AloneInv /\ [Next]_vars =>
        [\A w \in Workers :
            (outs' # outs /\ pc[w] = "advance" /\ pc'[w] = "release" /\ job[w].alone
               /\ session # None /\ "reset" \notin tx[w])
            => session.ctx \subseteq session'.ctx]_vars
  BY CommitForgetsNothing
<1> QED
  BY <1>1, InitAlone, NextAlone, PTL DEF Spec, NothingForgotten
=============================================================================
