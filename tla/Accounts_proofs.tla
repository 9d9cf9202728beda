--------------------------- MODULE Accounts_proofs ---------------------------
(***************************************************************************)
(* Accounts for any number of requests, users, tokens and tenants.         *)
(***************************************************************************)
EXTENDS Accounts, TLAPS

\* A row under the key x is of the kind of x.
OfKind(d, x, row) ==
    /\ x \in Emails => row \in TenantUser
    /\ x \in Tokens => row \in ApiToken /\ d[row.user] # None
    /\ x \in Tenants => row \in Tenant

\* What a session holds is of use at its stage: it changes rows that exist, to rows of their
\* kind; it never turns a token's revocation back.
Fits(d, t) ==
    /\ \A x \in Keys : t.own[x] # None => OfKind(d, x, t.own[x])
    /\ \A k \in Tokens : t.own[k] # None /\ d[k] # None /\ d[k].revoked => t.own[k].revoked
    /\ t.pc \in {"use", "handle"} =>
        t.op \in Authenticated /\ t.token \in Tokens /\ d[t.token] # None /\ t.me \in TenantUser
    /\ t.pc = "flush" =>
        /\ t.key \in Keys /\ OfKind(d, t.key, t.now)
        /\ t.op = "create_tenant" => t.key \in Tenants
        /\ t.loaded # None =>
            /\ OfKind(d, t.key, t.loaded) /\ d[t.key] # None
            /\ t.key \in Tokens => t.now.revoked /\ ~t.loaded.revoked
    /\ t.pc = "settings" => t.key \in Tenants /\ t.own[t.key] # None

\* A row is locked by the request that wrote it.
Apart == \A r, q \in Requests : r # q => \A x \in Keys : tx[r].own[x] = None \/ tx[q].own[x] = None

Inv == TypeOK /\ (\A r \in Requests : Fits(db, tx[r])) /\ Apart

-----------------------------------------------------------------------------
(* The UPDATE of the changed columns.                                       *)

LEMMA MergedUser ==
    ASSUME NEW was \in TenantUser, NEW now \in TenantUser, NEW cur \in TenantUser
    PROVE  Merged(was, now, cur) \in TenantUser
BY DEF Merged, TenantUser

LEMMA MergedToken ==
    ASSUME NEW was \in ApiToken, NEW now \in ApiToken, NEW cur \in ApiToken
    PROVE  /\ Merged(was, now, cur) \in ApiToken
           /\ Merged(was, now, cur).user \in {now.user, cur.user}
           /\ Merged(was, now, cur).revoked =
                IF now.revoked # was.revoked THEN now.revoked ELSE cur.revoked
BY DEF Merged, ApiToken

LEMMA MergedTenant ==
    ASSUME NEW was \in Tenant, NEW now \in Tenant, NEW cur \in Tenant
    PROVE  Merged(was, now, cur) \in Tenant
BY DEF Merged, Tenant

\* Rows of a kind are rows, none of them None.
LEMMA Kinds ==
    ASSUME NEW x \in Keys, NEW row, OfKind(db, x, row)
    PROVE  row \in Row /\ row # None
BY DatabasesAssumption DEF OfKind, Row, Keys

\* The committed row of a key is of the key's kind.
LEMMA DatabaseRow ==
    ASSUME TypeOK, NEW x \in Keys, db[x] # None
    PROVE  OfKind(db, x, db[x])
BY DEF TypeOK, Database, OfKind

\* So is the UPDATE of one, and it keeps a revocation.
LEMMA MergedKind ==
    ASSUME TypeOK, NEW x \in Keys, db[x] # None, NEW was, OfKind(db, x, was), NEW now, OfKind(db, x, now),
           x \in Tokens => now.revoked /\ ~was.revoked
    PROVE  /\ OfKind(db, x, Merged(was, now, db[x]))
           /\ x \in Tokens => Merged(was, now, db[x]).revoked
<1>1. CASE x \in Emails
  BY <1>1, DatabaseRow, MergedUser, AccountsAssumption DEF OfKind
<1>2. CASE x \in Tokens
  <2>1. was \in ApiToken /\ now \in ApiToken /\ db[x] \in ApiToken
    BY <1>2, DatabaseRow DEF OfKind
  <2>2. db[now.user] # None /\ db[db[x].user] # None
    BY <1>2, DatabaseRow DEF OfKind
  <2> QED
    BY <1>2, <2>1, <2>2, MergedToken, AccountsAssumption DEF OfKind
<1>3. CASE x \in Tenants
  BY <1>3, DatabaseRow, MergedTenant, AccountsAssumption DEF OfKind
<1> QED
  BY <1>1, <1>2, <1>3 DEF Keys

-----------------------------------------------------------------------------
(* Steps that leave the database alone.                                     *)

\* The session of r becomes t, which writes nothing that another has locked.
LEMMA GoKeeps ==
    ASSUME Inv, NEW r \in Requests, NEW t \in Session, Fits(db, t), Go(r, t),
           \A x \in Keys : t.own[x] # None => tx[r].own[x] # None \/ ~Locked(r, x)
    PROVE  Inv'
<1>1. db' = db /\ tx' = [tx EXCEPT ![r] = t]
  BY DEF Go
<1>2. tx \in [Requests -> Session]
  BY DEF Inv, TypeOK
<1>3. tx' \in [Requests -> Session] /\ tx'[r] = t /\ \A q \in Requests \ {r} : tx'[q] = tx[q]
  BY <1>1, <1>2
<1>4. TypeOK'
  BY <1>1, <1>3 DEF Inv, TypeOK, Database
<1>5. \A q \in Requests : Fits(db', tx'[q])
  BY <1>1, <1>3 DEF Inv
<1>6. Apart'
  <2> SUFFICES ASSUME NEW p \in Requests, NEW q \in Requests, p # q, NEW x \in Keys
               PROVE  tx'[p].own[x] = None \/ tx'[q].own[x] = None
    BY DEF Apart
  <2> QED
    BY <1>3 DEF Inv, Apart, Locked
<1> QED
  BY <1>4, <1>5, <1>6 DEF Inv

\* A session that ends.
LEMMA EndKeeps ==
    ASSUME Inv, NEW r \in Requests, NEW pc \in Over, End(r, pc)
    PROVE  Inv'
<1> DEFINE t == [Idle EXCEPT !.pc = pc]
<1>1. t \in Session
  BY DEF Session, Idle, Over
<1>2. Fits(db, t)
  BY DEF Fits, Idle, Over, Keys
<1> QED
  BY <1>1, <1>2, GoKeeps DEF End, Idle

\* A session that is about to flush a change: of a handler, or of a route of its own.
Sets(t, key, loaded, now) ==
    [t EXCEPT !.pc = "flush", !.key = key, !.loaded = loaded, !.now = now]

LEMMA SetsFits ==
    ASSUME Inv, NEW t \in Session, Fits(db, t), NEW key \in Keys, NEW loaded, NEW now,
           OfKind(db, key, now), t.op # "create_tenant" \/ key \in Tenants,
           loaded # None =>
            /\ OfKind(db, key, loaded) /\ db[key] # None
            /\ key \in Tokens => now.revoked /\ ~loaded.revoked
    PROVE  Sets(t, key, loaded, now) \in Session /\ Fits(db, Sets(t, key, loaded, now))
<1>1. loaded \in Row \cup {None} /\ now \in Row \cup {None}
  BY Kinds
<1>2. Sets(t, key, loaded, now) \in Session
  BY <1>1 DEF Sets, Session, Stages, HasRead
<1>3. Fits(db, Sets(t, key, loaded, now))
  BY DEF Sets, Fits, Session
<1> QED
  BY <1>2, <1>3

LEMMA ChangeKeeps ==
    ASSUME Inv, NEW r \in Requests, tx[r].pc = "handle", NEW key \in Emails, NEW loaded, NEW now,
           now \in TenantUser, loaded # None => loaded \in TenantUser /\ db[key] # None,
           Change(r, key, loaded, now)
    PROVE  Inv'
<1>1. tx[r] \in Session /\ Fits(db, tx[r])
  BY DEF Inv, TypeOK
<1>2. key \in Keys /\ key \notin Tokens /\ key \notin Tenants
  BY AccountsAssumption DEF Keys
<1>3. OfKind(db, key, now) /\ (loaded # None => OfKind(db, key, loaded))
  BY <1>2 DEF OfKind
<1>4. tx[r].op # "create_tenant"
  BY <1>1 DEF Fits, Authenticated
<1> DEFINE t == Sets(tx[r], key, loaded, now)
<1>5. t \in Session /\ Fits(db, t)
  BY <1>1, <1>2, <1>3, <1>4, SetsFits
<1>6. t.own = tx[r].own
  BY <1>1 DEF Sets, Session
<1> QED
  BY <1>5, <1>6, GoKeeps DEF Change, Sets

LEMMA StartKeeps ==
    ASSUME Inv, NEW r \in Requests, NEW op \in Ops, NEW key \in Keys, NEW loaded, NEW now,
           OfKind(db, key, now), op # "create_tenant" \/ key \in Tenants,
           loaded # None =>
            /\ OfKind(db, key, loaded) /\ db[key] # None
            /\ key \in Tokens => now.revoked /\ ~loaded.revoked,
           Start(r, op, key, loaded, now)
    PROVE  Inv'
<1> DEFINE s == [Idle EXCEPT !.op = op]
           t == Sets(s, key, loaded, now)
<1>1. s \in Session /\ Fits(db, s) /\ s.op = op
  BY DEF Session, Idle, Fits, Keys
<1>2. t \in Session /\ Fits(db, t)
  BY <1>1, SetsFits
<1>3. t = [Idle EXCEPT !.pc = "flush", !.op = op, !.key = key, !.loaded = loaded, !.now = now]
  BY DEF Sets, Idle
<1>4. \A x \in Keys : t.own[x] = None
  BY DEF Sets, Idle
<1> QED
  BY <1>2, <1>3, <1>4, GoKeeps DEF Start

-----------------------------------------------------------------------------
(* The bearer look-up and the handlers.                                     *)

\* A session in a handler, and the user its principal is.
LEMMA HandlerUser ==
    ASSUME Inv, NEW r \in Requests, tx[r].pc = "handle"
    PROVE  /\ tx[r].me \in TenantUser /\ Principal(r) \in Emails /\ db[Principal(r)] # None
           /\ \A e \in Emails : db[e] # None => db[e] \in TenantUser
<1>1. tx[r].me \in TenantUser /\ tx[r].token \in Tokens /\ db[tx[r].token] # None
  BY DEF Inv, Fits
<1>2. db[tx[r].token] \in ApiToken /\ db[db[tx[r].token].user] # None
  BY <1>1 DEF Inv, TypeOK, Database
<1>3. Principal(r) \in Emails /\ db[Principal(r)] # None
  BY <1>2 DEF Principal, ApiToken
<1>4. \A e \in Emails : db[e] \in TenantUser \cup {None}
  BY DEF Inv, TypeOK, Database
<1> QED
  BY <1>1, <1>3, <1>4

LEMMA VerifyBearerKeeps ==
    ASSUME Inv, NEW r \in Requests, VerifyBearer(r)
    PROVE  Inv'
<1> PICK k \in Tokens, op \in Authenticated :
        /\ db[k] # None
        /\ LET me == db[db[k].user] IN
           IF db[k].revoked \/ ~me.active THEN End(r, "refused")
           ELSE Go(r, [Idle EXCEPT !.pc = "use", !.op = op, !.token = k, !.me = me])
  BY DEF VerifyBearer
<1> DEFINE me == db[db[k].user]
           t == [Idle EXCEPT !.pc = "use", !.op = op, !.token = k, !.me = me]
<1>1. CASE End(r, "refused")
  BY <1>1, EndKeeps DEF Over
<1>2. CASE Go(r, t)
  <2>1. me \in TenantUser
    BY DEF Inv, TypeOK, Database, ApiToken
  <2>2. t \in Session
    BY <2>1 DEF Session, Idle, Stages, HasRead, Ops
  <2>3. Fits(db, t)
    BY <2>1 DEF Fits, Idle, Keys
  <2>4. \A x \in Keys : t.own[x] = None
    BY DEF Idle
  <2> QED
    BY <1>2, <2>2, <2>3, <2>4, GoKeeps
<1> QED
  BY <1>1, <1>2

\* last_used_at is written on the row as it is now, revocation included.
LEMMA UseTokenKeeps ==
    ASSUME Inv, NEW r \in Requests, UseToken(r)
    PROVE  Inv'
<1> DEFINE k == tx[r].token
           t == [tx[r] EXCEPT !.own[k] = db[k], !.pc = "handle"]
           u == [tx[r] EXCEPT !.pc = "handle"]
<1>1. /\ tx[r] \in Session /\ Fits(db, tx[r]) /\ tx[r].pc = "use"
      /\ k \in Tokens /\ k \in Keys /\ db[k] # None
  BY DEF Inv, TypeOK, UseToken, Fits, Keys
<1>2. CASE Go(r, t) /\ ~Locked(r, k)
  <2>1. db[k] \in Row \cup {None} /\ OfKind(db, k, db[k])
    BY <1>1, DatabaseRow DEF Inv, TypeOK, Database
  <2>2. t \in Session
    BY <1>1, <2>1 DEF Session, Stages, HasRead
  <2>3. \A x \in Keys : t.own[x] = IF x = k THEN db[k] ELSE tx[r].own[x]
    BY <1>1 DEF Session
  <2>4. Fits(db, t)
    BY <1>1, <2>1, <2>3 DEF Fits, Session, Keys
  <2>5. Go(r, t) /\ \A x \in Keys : t.own[x] # None => tx[r].own[x] # None \/ ~Locked(r, x)
    BY <1>2, <2>3
  <2> HIDE DEF t
  <2> QED
    BY <2>2, <2>4, <2>5, GoKeeps
<1>3. CASE Go(r, u)
  <2>1. u \in Session /\ u.own = tx[r].own
    BY <1>1 DEF Session, Stages, HasRead
  <2>2. Fits(db, u)
    BY <1>1 DEF Fits, Session
  <2> QED
    BY <1>3, <2>1, <2>2, GoKeeps
<1> QED
  BY <1>2, <1>3 DEF UseToken

LEMMA CreateTenantUserKeeps ==
    ASSUME Inv, NEW r \in Requests, CreateTenantUser(r)
    PROVE  Inv'
<1>1. tx[r].pc = "handle"
  BY DEF CreateTenantUser, Handling
<1> PICK e \in Emails, role \in Roles, b \in Barbers \cup {None} :
        \/ End(r, "refused")
        \/ Change(r, e, db[e],
                [(IF db[e] = None THEN NewUser(tx[r].me.tenant, r) ELSE db[e])
                    EXCEPT !.role = role, !.barber = b])
  BY DEF CreateTenantUser
<1> DEFINE user == IF db[e] = None THEN NewUser(tx[r].me.tenant, r) ELSE db[e]
           now == [user EXCEPT !.role = role, !.barber = b]
<1>2. tx[r].me.tenant \in Tenants
  BY <1>1, HandlerUser DEF TenantUser
<1>3. NewUser(tx[r].me.tenant, r) \in TenantUser
  BY <1>2 DEF NewUser, TenantUser, Roles
<1>4. user \in TenantUser
  BY <1>1, <1>3, HandlerUser
<1>5. now \in TenantUser
  BY <1>4 DEF TenantUser
<1>6. CASE Change(r, e, db[e], now)
  BY <1>1, <1>5, <1>6, HandlerUser, ChangeKeeps
<1> QED
  BY <1>6, EndKeeps DEF Over

LEMMA UpdateTenantUserKeeps ==
    ASSUME Inv, NEW r \in Requests, UpdateTenantUser(r)
    PROVE  Inv'
<1>1. tx[r].pc = "handle"
  BY DEF UpdateTenantUser, Handling
<1> PICK e \in Emails, role \in Roles \cup {None}, active \in BOOLEAN \cup {None},
         named \in BOOLEAN, b \in Barbers \cup {None} :
        LET user == db[e]
            effective == IF role = None THEN user.role ELSE role
        IN
        IF \/ ~CheckPermission(tx[r].me.role) \/ user = None \/ user.tenant # tx[r].me.tenant
           \/ role # None /\ e = Principal(r) /\ role # user.role
           \/ role \notin TenantAssignableRoles \cup {None}
           \/ ~ResolveBarberLink(r, b) \/ (effective = "barber" /\ b = None)
        THEN End(r, "refused")
        ELSE Change(r, e, user,
                [user EXCEPT !.role = effective, !.barber = LinkAfter(user, effective, b),
                             !.active = IF active = None THEN @ ELSE active,
                             !.name = IF named THEN r ELSE @])
  BY DEF UpdateTenantUser
<1> DEFINE user == db[e]
           effective == IF role = None THEN user.role ELSE role
           now == [user EXCEPT !.role = effective, !.barber = LinkAfter(user, effective, b),
                               !.active = IF active = None THEN @ ELSE active,
                               !.name = IF named THEN r ELSE @]
<1>2. CASE user # None /\ Change(r, e, user, now)
  <2>1. user \in TenantUser
    BY <1>1, <1>2, HandlerUser
  <2>2. LinkAfter(user, effective, b) \in Barbers \cup {None}
    BY DEF LinkAfter
  <2>3. effective \in Roles
    BY <2>1 DEF TenantUser
  <2>4. now \in TenantUser
    BY <2>1, <2>2, <2>3 DEF TenantUser
  <2> QED
    BY <1>1, <1>2, <2>1, <2>4, ChangeKeeps
<1> QED
  BY <1>2, EndKeeps DEF Over

LEMMA UpdateBarberLinkKeeps ==
    ASSUME Inv, NEW r \in Requests, UpdateBarberLink(r)
    PROVE  Inv'
<1>1. tx[r].pc = "handle"
  BY DEF UpdateBarberLink, Handling
<1> PICK e \in Emails, b \in Barbers \cup {None} :
        \/ End(r, "refused")
        \/ db[e] # None /\ Change(r, e, db[e], [db[e] EXCEPT !.barber = b])
  BY DEF UpdateBarberLink
<1> DEFINE now == [db[e] EXCEPT !.barber = b]
<1>2. CASE db[e] # None /\ Change(r, e, db[e], now)
  <2>1. db[e] \in TenantUser
    BY <1>1, <1>2, HandlerUser
  <2>2. now \in TenantUser
    BY <2>1 DEF TenantUser
  <2> QED
    BY <1>1, <1>2, <2>1, <2>2, ChangeKeeps
<1> QED
  BY <1>2, EndKeeps DEF Over

LEMMA UpdateMeKeeps ==
    ASSUME Inv, NEW r \in Requests, UpdateMe(r)
    PROVE  Inv'
<1> DEFINE me == db[Principal(r)]
           now == [me EXCEPT !.name = r]
<1>1. tx[r].pc = "handle" /\ Change(r, Principal(r), me, now)
  BY DEF UpdateMe, Handling
<1>2. Principal(r) \in Emails
  BY <1>1, HandlerUser
<1>4. me \in TenantUser
  BY <1>1, HandlerUser
<1>5. now \in TenantUser
  BY <1>4 DEF TenantUser
<1> QED
  BY <1>1, <1>2, <1>4, <1>5, ChangeKeeps

-----------------------------------------------------------------------------
(* The routes without a bearer look-up of a tenant's user.                  *)

LEMMA LoginKeeps ==
    ASSUME Inv, NEW r \in Requests, Login(r)
    PROVE  Inv'
<1> PICK e \in Emails, k \in Tokens :
        db[e] # None /\ Start(r, "login", k, None, [user |-> e, revoked |-> FALSE])
  BY DEF Login
<1>1. k \in Keys /\ OfKind(db, k, [user |-> e, revoked |-> FALSE])
  BY AccountsAssumption DEF OfKind, Keys, ApiToken
<1> QED
  BY <1>1, StartKeeps DEF Ops

LEMMA LogoutKeeps ==
    ASSUME Inv, NEW r \in Requests, Logout(r)
    PROVE  Inv'
<1> PICK k \in Tokens : /\ db[k] # None /\ ~db[k].revoked
                        /\ Start(r, "logout", k, db[k], [db[k] EXCEPT !.revoked = TRUE])
  BY DEF Logout
<1> DEFINE now == [db[k] EXCEPT !.revoked = TRUE]
<1>1. k \in Keys /\ OfKind(db, k, db[k])
  BY DatabaseRow DEF Keys, Inv
<1>2. db[k] \in ApiToken /\ db[db[k].user] # None
  BY <1>1 DEF OfKind
<1>3. now \in ApiToken /\ now.user = db[k].user /\ now.revoked
  BY <1>2 DEF ApiToken
<1>4. OfKind(db, k, now)
  BY <1>2, <1>3, AccountsAssumption DEF OfKind
<1>5. "logout" \in Ops /\ Start(r, "logout", k, db[k], now)
  BY DEF Ops
<1> HIDE DEF now
<1> QED
  BY <1>1, <1>3, <1>4, <1>5, StartKeeps

LEMMA CreateSuperadminUserKeeps ==
    ASSUME Inv, NEW r \in Requests, CreateSuperadminUser(r)
    PROVE  Inv'
<1> PICK e \in Emails, tenant \in Tenants, role \in Roles :
        Start(r, "superadmin_user", e, db[e],
              [(IF db[e] = None THEN NewUser(tenant, r) ELSE db[e]) EXCEPT !.role = role])
  BY DEF CreateSuperadminUser
<1> DEFINE user == IF db[e] = None THEN NewUser(tenant, r) ELSE db[e]
           now == [user EXCEPT !.role = role]
<1>1. user \in TenantUser
  BY DEF Inv, TypeOK, Database, NewUser, TenantUser, Roles
<1>2. now \in TenantUser
  BY <1>1 DEF TenantUser
<1>3. e \in Keys /\ OfKind(db, e, now) /\ (db[e] # None => OfKind(db, e, db[e]))
  BY <1>2, DatabaseRow, AccountsAssumption DEF OfKind, Keys, Inv
<1> QED
  BY <1>3, AccountsAssumption, StartKeeps DEF Ops, Keys

LEMMA NewTenantKeeps ==
    ASSUME Inv, NEW r \in Requests, NEW status \in Statuses, NEW settings \in BOOLEAN,
           NewTenant(r, status, settings)
    PROVE  Inv'
<1> DEFINE now == [status |-> status, settings |-> settings]
<1> PICK s \in Tenants : Start(r, "create_tenant", s, None, now)
  BY DEF NewTenant
<1>1. s \in Keys /\ OfKind(db, s, now)
  BY AccountsAssumption DEF OfKind, Keys, Tenant
<1> QED
  BY <1>1, StartKeeps DEF Ops

LEMMA SetStatusKeeps ==
    ASSUME Inv, NEW r \in Requests, NEW status \in Statuses, SetStatus(r, status)
    PROVE  Inv'
<1> PICK s \in Tenants : /\ db[s] # None
                         /\ Start(r, "status", s, db[s], [db[s] EXCEPT !.status = status])
  BY DEF SetStatus
<1> DEFINE now == [db[s] EXCEPT !.status = status]
<1>1. s \in Keys /\ s \notin Tokens /\ OfKind(db, s, db[s]) /\ db[s] \in Tenant
  BY DatabaseRow, AccountsAssumption DEF Keys, Inv, OfKind
<1>2. now \in Tenant
  BY <1>1 DEF Tenant
<1>3. OfKind(db, s, now)
  BY <1>1, <1>2, AccountsAssumption DEF OfKind
<1> QED
  BY <1>1, <1>3, StartKeeps DEF Ops

-----------------------------------------------------------------------------
(* The statements.                                                          *)

\* A flush that writes row under the key of r, which nobody else has locked.
LEMMA WriteKeeps ==
    ASSUME Inv, NEW r \in Requests, tx[r].pc \in {"flush", "settings"}, tx[r].key \in Keys,
           tx[r].own[tx[r].key] # None \/ ~Locked(r, tx[r].key),
           NEW row, OfKind(db, tx[r].key, row),
           tx[r].key \in Tokens /\ db[tx[r].key] # None => row.revoked,
           NEW pc \in {"settings", "commit"}, pc = "settings" => tx[r].key \in Tenants,
           Go(r, [tx[r] EXCEPT !.own[tx[r].key] = row, !.pc = pc])
    PROVE  Inv'
<1> DEFINE t == [tx[r] EXCEPT !.own[tx[r].key] = row, !.pc = pc]
<1>1. tx[r] \in Session /\ Fits(db, tx[r])
  BY DEF Inv, TypeOK
<1>2. row \in Row /\ row # None
  BY Kinds
<1>3. t \in Session
  BY <1>1, <1>2 DEF Session, Stages, HasRead
<1>4. /\ \A x \in Keys : t.own[x] = IF x = tx[r].key THEN row ELSE tx[r].own[x]
      /\ t.key = tx[r].key /\ t.pc = pc
  BY <1>1 DEF Session
<1>5. Fits(db, t)
  BY <1>1, <1>2, <1>4 DEF Fits, Keys
<1>6. Go(r, t) /\ \A x \in Keys : t.own[x] # None => tx[r].own[x] # None \/ ~Locked(r, x)
  BY <1>4
<1> HIDE DEF t
<1> QED
  BY <1>3, <1>5, <1>6, GoKeeps

LEMMA InsertKeeps ==
    ASSUME Inv, NEW r \in Requests, Insert(r)
    PROVE  Inv'
<1> DEFINE t == tx[r]
<1>1. t.pc = "flush" /\ t.loaded = None /\ ~Locked(r, t.key)
  BY DEF Insert
<1>2. /\ t.key \in Keys /\ OfKind(db, t.key, t.now) /\ (t.op = "create_tenant" => t.key \in Tenants)
      /\ t \in Session
  BY <1>1 DEF Inv, Fits, TypeOK
<1>3. CASE db[t.key] # None
  BY <1>3, <1>1, EndKeeps DEF Insert, Over
<1>4. CASE db[t.key] = None /\ t.op = "create_tenant" /\ t.now.settings
  <2> DEFINE row == [t.now EXCEPT !.settings = FALSE]
  <2>1. t.now \in Tenant /\ t.key \in Tenants
    BY <1>2, <1>4 DEF OfKind
  <2>2. row \in Tenant
    BY <2>1 DEF Tenant
  <2>3. OfKind(db, t.key, row)
    BY <2>1, <2>2, AccountsAssumption DEF OfKind
  <2>4. Go(r, [t EXCEPT !.own[t.key] = row, !.pc = "settings"])
    BY <1>4 DEF Insert
  <2> QED
    BY <1>1, <1>2, <1>4, <2>1, <2>3, <2>4, WriteKeeps
<1>5. CASE db[t.key] = None /\ ~(t.op = "create_tenant" /\ t.now.settings)
  <2>1. Go(r, [t EXCEPT !.own[t.key] = t.now, !.pc = "commit"])
    BY <1>5 DEF Insert
  <2> QED
    BY <1>1, <1>2, <1>5, <2>1, WriteKeeps
<1> QED
  BY <1>3, <1>4, <1>5

LEMMA InsertSettingsKeeps ==
    ASSUME Inv, NEW r \in Requests, InsertSettings(r)
    PROVE  Inv'
<1> DEFINE t == tx[r]
           row == [t.own[t.key] EXCEPT !.settings = TRUE]
<1>1. t.pc = "settings" /\ Go(r, [t EXCEPT !.own[t.key].settings = TRUE, !.pc = "commit"])
  BY DEF InsertSettings
<1>2. t.key \in Tenants /\ t.key \in Keys /\ t.own[t.key] # None /\ t \in Session
  BY <1>1 DEF Inv, Fits, Keys, TypeOK
<1>3. t.own[t.key] \in Tenant
  BY <1>2 DEF Inv, Fits, OfKind
<1>4. row \in Tenant
  BY <1>3 DEF Tenant
<1>5. OfKind(db, t.key, row) /\ t.key \notin Tokens
  BY <1>2, <1>4, AccountsAssumption DEF OfKind
<1>6. Go(r, [t EXCEPT !.own[t.key] = row, !.pc = "commit"])
  BY <1>1, <1>2
<1> QED
  BY <1>1, <1>2, <1>5, <1>6, WriteKeeps

LEMMA UpdateRowKeeps ==
    ASSUME Inv, NEW r \in Requests, UpdateRow(r)
    PROVE  Inv'
<1> DEFINE t == tx[r]
           row == Merged(t.loaded, t.now, db[t.key])
<1>1. t.pc = "flush" /\ t.loaded # None
  BY DEF UpdateRow
<1>2. /\ t \in Session /\ Fits(db, t) /\ t.key \in Keys /\ OfKind(db, t.key, t.now)
      /\ OfKind(db, t.key, t.loaded) /\ db[t.key] # None
      /\ t.key \in Tokens => t.now.revoked /\ ~t.loaded.revoked
  BY <1>1 DEF Inv, Fits, TypeOK
<1>3. CASE t.now = t.loaded
  <2> DEFINE u == [t EXCEPT !.pc = "commit"]
  <2>1. u \in Session /\ u.own = t.own
    BY <1>2 DEF Session, Stages, HasRead
  <2>2. Fits(db, u)
    BY <1>2 DEF Fits, Session
  <2>3. Go(r, u)
    BY <1>3 DEF UpdateRow
  <2> QED
    BY <2>1, <2>2, <2>3, GoKeeps
<1>4. CASE t.now # t.loaded
  <2>1. ~Locked(r, t.key) /\ Go(r, [t EXCEPT !.own[t.key] = row, !.pc = "commit"])
    BY <1>4 DEF UpdateRow
  <2>2. OfKind(db, t.key, row) /\ (t.key \in Tokens => row.revoked)
    BY <1>2, MergedKind DEF Inv
  <2> QED
    BY <1>1, <1>2, <2>1, <2>2, WriteKeeps
<1> QED
  BY <1>3, <1>4

\* A commit publishes the rows of one request, of which no other has written any.
LEMMA CommitKeeps ==
    ASSUME Inv, NEW r \in Requests, Commit(r)
    PROVE  Inv' /\ \A k \in Tokens : db[k] # None /\ db[k].revoked => db'[k].revoked
<1> DEFINE s == [Idle EXCEPT !.pc = IF Audited(tx[r].op) THEN "stored" ELSE "done"]
<1>1. /\ db' = [x \in Keys |-> IF tx[r].own[x] # None THEN tx[r].own[x] ELSE db[x]]
      /\ tx' = [q \in Requests |-> IF q = r THEN s
                 ELSE IF tx[q].pc \in HasRead THEN [tx[q] EXCEPT !.overtaken = TRUE] ELSE tx[q]]
  BY DEF Commit, View
<1>2. tx[r] \in Session /\ Fits(db, tx[r]) /\ TypeOK
  BY DEF Inv, TypeOK
<1>3. \A x \in Keys : db[x] # None => db'[x] # None
  BY <1>1
<1>4. \A x \in Keys : \A row : OfKind(db, x, row) => OfKind(db', x, row)
  BY <1>3 DEF OfKind, ApiToken, Keys
<1>5. \A x \in Keys : db'[x] # None => OfKind(db', x, db'[x])
  <2> SUFFICES ASSUME NEW x \in Keys, db'[x] # None PROVE OfKind(db', x, db'[x])
    OBVIOUS
  <2>1. OfKind(db, x, db'[x])
    BY <1>1, <1>2, DatabaseRow DEF Fits
  <2> QED
    BY <2>1, <1>4
<1>6. Database(db)'
  <2>1. \A x \in Keys : db'[x] \in Row \cup {None}
    BY <1>1, <1>2 DEF TypeOK, Database, Session
  <2> QED
    BY <1>1, <1>5, <2>1 DEF Database, OfKind, Keys
<1>7. s \in Session /\ (\A x \in Keys : s.own[x] = None) /\ s.pc \in {"stored", "done"}
  BY DEF Session, Idle, Over
<1> HIDE DEF s
<1>t. \A q \in Requests : tx[q] \in Session
  BY DEF Inv, TypeOK
<1>s. \A q \in Requests : tx'[q] \in Session
  <2> SUFFICES ASSUME NEW q \in Requests PROVE tx'[q] \in Session
    OBVIOUS
  <2>1. tx'[q] = s \/ tx'[q] = tx[q] \/ tx'[q] = [tx[q] EXCEPT !.overtaken = TRUE]
    BY <1>1
  <2>2. tx[q] \in Session
    BY <1>t
  <2> QED
    BY <1>7, <2>1, <2>2 DEF Session
<1>8. \A q \in Requests : /\ tx'[q] \in Session
                           /\ q # r => /\ tx'[q].own = tx[q].own /\ tx'[q].pc = tx[q].pc
                                       /\ tx'[q].op = tx[q].op /\ tx'[q].token = tx[q].token
                                       /\ tx'[q].me = tx[q].me /\ tx'[q].key = tx[q].key
                                       /\ tx'[q].loaded = tx[q].loaded /\ tx'[q].now = tx[q].now
  BY <1>1, <1>s, <1>t DEF Session
<1>9. TypeOK'
  <2>1. tx' \in [Requests -> Session]
    <3>1. tx' = [q \in Requests |-> tx'[q]]
      BY <1>1
    <3> QED
      BY <1>s, <3>1
  <2> QED
    BY <1>6, <2>1 DEF TypeOK
<1>10. ASSUME NEW q \in Requests PROVE Fits(db', tx'[q])
  <2>1. CASE q = r
    BY <1>1, <1>7, <2>1 DEF Fits, Keys
  <2>2. CASE q # r
    <3> DEFINE t == tx'[q]
    <3>1. Fits(db, tx[q])
      BY DEF Inv
    <3>0. /\ t.own = tx[q].own /\ t.pc = tx[q].pc /\ t.op = tx[q].op /\ t.token = tx[q].token
          /\ t.me = tx[q].me /\ t.key = tx[q].key /\ t.loaded = tx[q].loaded /\ t.now = tx[q].now
      BY <1>1, <2>2 DEF Inv, TypeOK, Session
    <3> HIDE DEF t
    <3>2. \A x \in Keys : t.own[x] # None => db'[x] = db[x]
      BY <1>1, <2>2, <3>0 DEF Inv, Apart
    <3>3. \A x \in Keys : t.own[x] # None => OfKind(db', x, t.own[x])
      BY <1>4, <3>0, <3>1 DEF Fits
    <3>4. \A k \in Tokens : t.own[k] # None /\ db'[k] # None /\ db'[k].revoked => t.own[k].revoked
      <4> SUFFICES ASSUME NEW k \in Tokens, t.own[k] # None, db'[k] # None, db'[k].revoked
                   PROVE  t.own[k].revoked
        OBVIOUS
      <4>1. k \in Keys /\ db'[k] = db[k] /\ t.own = tx[q].own
        BY <3>0, <3>2 DEF Keys
      <4> QED
        BY <3>1, <4>1 DEF Fits
    <3>5. t.pc \in {"use", "handle"} =>
            t.op \in Authenticated /\ t.token \in Tokens /\ db'[t.token] # None /\ t.me \in TenantUser
      BY <1>3, <3>0, <3>1 DEF Fits, Keys
    <3>6. t.pc = "flush" =>
            /\ t.key \in Keys /\ OfKind(db', t.key, t.now)
            /\ t.op = "create_tenant" => t.key \in Tenants
            /\ t.loaded # None =>
                /\ OfKind(db', t.key, t.loaded) /\ db'[t.key] # None
                /\ t.key \in Tokens => t.now.revoked /\ ~t.loaded.revoked
      BY <1>3, <1>4, <3>0, <3>1 DEF Fits
    <3>7. t.pc = "settings" => t.key \in Tenants /\ t.own[t.key] # None
      BY <3>0, <3>1 DEF Fits
    <3>8. Fits(db', t)
      BY <3>3, <3>4, <3>5, <3>6, <3>7 DEF Fits
    <3> QED
      BY <3>8 DEF t
  <2> QED
    BY <2>1, <2>2
<1>11. Apart'
  <2> SUFFICES ASSUME NEW p \in Requests, NEW q \in Requests, p # q, NEW x \in Keys
               PROVE  tx'[p].own[x] = None \/ tx'[q].own[x] = None
    BY DEF Apart
  <2> QED
    BY <1>1, <1>7, <1>8 DEF Inv, Apart
<1>12. \A k \in Tokens : db[k] # None /\ db[k].revoked => db'[k].revoked
  BY <1>1, <1>2 DEF Fits, Keys
<1> QED
  BY <1>9, <1>10, <1>11, <1>12 DEF Inv

\* The two steps after a commit, and those of a process that dies.
LEMMA EndingKeeps ==
    ASSUME Inv, NEW r \in Requests, WriteAudit(r) \/ Crash(r) \/ Read(r)
    PROVE  Inv'
BY EndKeeps DEF WriteAudit, Crash, Read, Over

-----------------------------------------------------------------------------
(* What a request read, and what becomes of the row it changes.             *)

\* A user's tenant and a token's user never change.
SameIdentity(x, row, of) ==
    /\ x \in Emails => row.tenant = of.tenant
    /\ x \in Tokens => row.user = of.user

\* The create for an email that another tenant registered.
ForeignCreate(op, me, loaded) ==
    op = "create_user" /\ loaded # None /\ loaded.tenant # me.tenant

Unchecked == {"barber_link", "superadmin_user"}
UserOps == {"create_user", "update_user", "update_me"} \cup Unchecked

\* The change a handler makes to the row it loaded: where it sets a barber, it is one of the
\* row's tenant; where it sets the role barber, it sets a barber.
Aim(x, op, me, loaded, now) ==
    /\ loaded # None => SameIdentity(x, now, loaded)
    /\ x \in Emails =>
        /\ op \in UserOps
        /\ op \notin Unchecked /\ Unlinked(now) => Unlinked(loaded)
        /\ Foreign(now) => \/ loaded # None /\ now.barber = loaded.barber
                           \/ ForeignCreate(op, me, loaded)

\* The rows written: of the rows they replace, and no user's before the last flush.
Writes(d, t) ==
    \A x \in Keys : t.own[x] # None =>
        /\ d[x] # None => SameIdentity(x, t.own[x], d[x])
        /\ x \in Tokens \/ (t.pc \in {"settings", "commit"} /\ x = t.key)

\* The principal in memory is of the tenant of its row.
Knows(d, t) ==
    t.pc \in {"use", "handle"} => t.me.tenant = d[d[t.token].user].tenant

\* The row a request changes is the one in the table, from the look-up to the commit.
Plans(d, t) ==
    t.pc \in {"flush", "settings", "commit"} =>
        /\ t.key \in Keys /\ Aim(t.key, t.op, t.me, t.loaded, t.now)
        /\ ~t.overtaken => t.loaded = d[t.key]
        /\ t.pc = "flush" =>
            /\ t.own[t.key] = None
            /\ t.loaded # None => SameIdentity(t.key, t.loaded, d[t.key])
        /\ t.pc = "settings" =>
            /\ t.now \in Tenant /\ t.now.settings
            /\ t.own[t.key] = [t.now EXCEPT !.settings = FALSE]

\* What a commit will publish: the answer, unless overtaken, and no link across tenants that
\* was not there.
Publishes(d, t) ==
    t.pc = "commit" =>
        /\ ~t.overtaken => t.now = IF t.own[t.key] # None THEN t.own[t.key] ELSE d[t.key]
        /\ t.key \in Emails /\ t.own[t.key] # None /\ Foreign(t.own[t.key]) =>
            Foreign(d[t.key]) \/ ForeignCreate(t.op, t.me, t.loaded)

Follows(d, t) == Writes(d, t) /\ Knows(d, t) /\ Plans(d, t) /\ Publishes(d, t)

Followed == \A r \in Requests : Follows(db, tx[r])

LEMMA GoFollows ==
    ASSUME Inv, Followed, NEW r \in Requests, NEW t, Follows(db, t), Go(r, t)
    PROVE  Followed'
<1>1. db' = db /\ tx' = [tx EXCEPT ![r] = t] /\ tx \in [Requests -> Session]
  BY DEF Go, Inv, TypeOK
<1>2. \A q \in Requests : tx'[q] = IF q = r THEN t ELSE tx[q]
  BY <1>1
<1>3. \A q \in Requests : Follows(db, tx'[q])
  BY <1>2 DEF Followed
<1>4. \A q \in Requests : Follows(db', tx'[q])
  BY <1>1, <1>3
<1> QED
  BY <1>4 DEF Followed

LEMMA EndFollows ==
    ASSUME Inv, Followed, NEW r \in Requests, NEW pc \in Over \cup {"stored"}, End(r, pc)
    PROVE  Followed'
<1> DEFINE t == [Idle EXCEPT !.pc = pc]
<1>1. t.pc \in Over \cup {"stored"} /\ \A x \in Keys : t.own[x] = None
  BY DEF Idle
<1>2. Go(r, t)
  BY DEF End
<1> HIDE DEF t
<1>3. Follows(db, t)
  BY <1>1 DEF Follows, Writes, Knows, Plans, Publishes, Over
<1> QED
  BY <1>2, <1>3, GoFollows

\* A handler that goes on to its flush.
LEMMA ChangeFollows ==
    ASSUME Inv, Followed, NEW r \in Requests, tx[r].pc = "handle", NEW key \in Emails,
           NEW now, now \in TenantUser,
           Aim(key, tx[r].op, tx[r].me, db[key], now), Change(r, key, db[key], now)
    PROVE  Followed'
<1> DEFINE t == Sets(tx[r], key, db[key], now)
<1>1. tx[r] \in Session /\ Follows(db, tx[r]) /\ key \in Keys /\ key \notin Tokens
  BY AccountsAssumption DEF Inv, TypeOK, Followed, Keys
<1>2. /\ t.pc = "flush" /\ t.key = key /\ t.loaded = db[key] /\ t.now = now
      /\ t.own = tx[r].own /\ t.op = tx[r].op /\ t.me = tx[r].me /\ t.overtaken = tx[r].overtaken
  BY <1>1 DEF Sets, Session
<1>3. Go(r, t)
  BY DEF Change, Sets
<1> HIDE DEF t
<1>4. \A x \in Keys : t.own[x] # None => x \in Tokens
  BY <1>1, <1>2 DEF Follows, Writes
<1>5. Writes(db, t)
  BY <1>1, <1>2, <1>4 DEF Follows, Writes
<1>6. SameIdentity(key, db[key], db[key]) \/ db[key] = None
  BY <1>1, HandlerUser DEF SameIdentity
<1>7. Plans(db, t)
  BY <1>1, <1>2, <1>4, <1>6, HandlerUser DEF Plans
<1>8. Follows(db, t)
  BY <1>2, <1>5, <1>7 DEF Follows, Knows, Publishes
<1> QED
  BY <1>3, <1>8, GoFollows

\* A route without a bearer look-up.
LEMMA StartFollows ==
    ASSUME Inv, Followed, NEW r \in Requests, NEW op, NEW key \in Keys, NEW now,
           Aim(key, op, None, db[key], now), Start(r, op, key, db[key], now)
    PROVE  Followed'
<1> DEFINE t == [Idle EXCEPT !.pc = "flush", !.op = op, !.key = key, !.loaded = db[key], !.now = now]
<1>1. /\ t.pc = "flush" /\ t.key = key /\ t.loaded = db[key] /\ t.now = now
      /\ t.op = op /\ t.me = None /\ \A x \in Keys : t.own[x] = None
  BY DEF Idle
<1>2. Go(r, t)
  BY DEF Start
<1> HIDE DEF t
<1>3. Follows(db, t)
  BY <1>1 DEF Follows, Writes, Knows, Plans, Publishes, SameIdentity
<1> QED
  BY <1>2, <1>3, GoFollows

LEMMA VerifyBearerFollows ==
    ASSUME Inv, Followed, NEW r \in Requests, VerifyBearer(r)
    PROVE  Followed'
<1> PICK k \in Tokens, op \in Authenticated :
        /\ db[k] # None
        /\ LET me == db[db[k].user] IN
           IF db[k].revoked \/ ~me.active THEN End(r, "refused")
           ELSE Go(r, [Idle EXCEPT !.pc = "use", !.op = op, !.token = k, !.me = me])
  BY DEF VerifyBearer
<1> DEFINE me == db[db[k].user]
           t == [Idle EXCEPT !.pc = "use", !.op = op, !.token = k, !.me = me]
<1>1. CASE End(r, "refused")
  BY <1>1, EndFollows DEF Over
<1>2. CASE Go(r, t)
  <2>1. t.pc = "use" /\ t.me = db[db[t.token].user] /\ \A x \in Keys : t.own[x] = None
    BY DEF Idle
  <2>2. Follows(db, t)
    BY <2>1 DEF Follows, Writes, Knows, Plans, Publishes
  <2> QED
    BY <1>2, <2>2, GoFollows
<1> QED
  BY <1>1, <1>2

LEMMA UseTokenFollows ==
    ASSUME Inv, Followed, NEW r \in Requests, UseToken(r)
    PROVE  Followed'
<1> DEFINE k == tx[r].token
           t == [tx[r] EXCEPT !.own[k] = db[k], !.pc = "handle"]
           u == [tx[r] EXCEPT !.pc = "handle"]
<1>1. /\ tx[r] \in Session /\ Follows(db, tx[r]) /\ tx[r].pc = "use" /\ k \in Tokens
  BY DEF Inv, TypeOK, Fits, UseToken, Followed
<1>2. CASE Go(r, t)
  <2>1. /\ t.pc = "handle" /\ t.token = tx[r].token /\ t.me = tx[r].me
        /\ t.overtaken = tx[r].overtaken
        /\ \A x \in Keys : t.own[x] = IF x = k THEN db[k] ELSE tx[r].own[x]
    BY <1>1 DEF Session
  <2> HIDE DEF t
  <2>2. Writes(db, t)
    BY <1>1, <2>1 DEF Follows, Writes, SameIdentity
  <2>3. Follows(db, t)
    BY <1>1, <2>1, <2>2 DEF Follows, Knows, Plans, Publishes
  <2> QED
    BY <1>2, <2>3, GoFollows
<1>3. CASE Go(r, u)
  <2>1. /\ u.pc = "handle" /\ u.token = tx[r].token /\ u.me = tx[r].me
        /\ u.overtaken = tx[r].overtaken /\ u.own = tx[r].own
    BY <1>1 DEF Session
  <2> HIDE DEF u
  <2>2. Follows(db, u)
    BY <1>1, <2>1 DEF Follows, Writes, Knows, Plans, Publishes
  <2> QED
    BY <1>3, <2>2, GoFollows
<1> QED
  BY <1>2, <1>3 DEF UseToken

\* The barber found belongs to the principal's tenant: the row linked is of that tenant too,
\* but for a create that met another's.
LEMMA CreateTenantUserFollows ==
    ASSUME Inv, Followed, NEW r \in Requests, CreateTenantUser(r)
    PROVE  Followed'
<1>1. tx[r].pc = "handle" /\ tx[r].op = "create_user"
  BY DEF CreateTenantUser, Handling
<1> PICK e \in Emails, role \in Roles, b \in Barbers \cup {None} :
        \/ End(r, "refused")
        \/ /\ ResolveBarberLink(r, b) /\ ~(role = "barber" /\ b = None)
           /\ Change(r, e, db[e],
                [(IF db[e] = None THEN NewUser(tx[r].me.tenant, r) ELSE db[e])
                    EXCEPT !.role = role, !.barber = b])
  BY DEF CreateTenantUser
<1> DEFINE user == IF db[e] = None THEN NewUser(tx[r].me.tenant, r) ELSE db[e]
           now == [user EXCEPT !.role = role, !.barber = b]
<1>2. CASE /\ ResolveBarberLink(r, b) /\ ~(role = "barber" /\ b = None)
           /\ Change(r, e, db[e], now)
  <2>1. tx[r].me.tenant \in Tenants
    BY <1>1, HandlerUser DEF TenantUser
  <2>2. user \in TenantUser /\ (db[e] = None => user.tenant = tx[r].me.tenant)
    BY <1>1, <2>1, HandlerUser DEF NewUser, TenantUser, Roles
  <2>3. now \in TenantUser /\ now.tenant = user.tenant /\ now.role = role /\ now.barber = b
    BY <2>2 DEF TenantUser
  <2>4. PICK n : n = now
    OBVIOUS
  <2>5. ~Unlinked(n)
    BY <1>2, <2>3, <2>4 DEF Unlinked
  <2>6. Foreign(n) => ForeignCreate(tx[r].op, tx[r].me, db[e])
    BY <1>1, <1>2, <2>2, <2>3, <2>4 DEF Foreign, ForeignCreate, ResolveBarberLink
  <2>7. db[e] # None => n.tenant = db[e].tenant
    BY <2>3, <2>4
  <2>8. Aim(e, tx[r].op, tx[r].me, db[e], n)
    BY <1>1, <2>5, <2>6, <2>7, AccountsAssumption DEF Aim, SameIdentity, UserOps
  <2>9. n \in TenantUser /\ Change(r, e, db[e], n)
    BY <1>2, <2>3, <2>4
  <2> QED
    BY <1>1, <2>8, <2>9, ChangeFollows
<1> QED
  BY <1>2, EndFollows DEF Over

LEMMA UpdateTenantUserFollows ==
    ASSUME Inv, Followed, NEW r \in Requests, UpdateTenantUser(r)
    PROVE  Followed'
<1>1. tx[r].pc = "handle" /\ tx[r].op = "update_user"
  BY DEF UpdateTenantUser, Handling
<1> PICK e \in Emails, role \in Roles \cup {None}, active \in BOOLEAN \cup {None},
         named \in BOOLEAN, b \in Barbers \cup {None} :
        LET user == db[e]
            effective == IF role = None THEN user.role ELSE role
        IN
        IF \/ ~CheckPermission(tx[r].me.role) \/ user = None \/ user.tenant # tx[r].me.tenant
           \/ role # None /\ e = Principal(r) /\ role # user.role
           \/ role \notin TenantAssignableRoles \cup {None}
           \/ ~ResolveBarberLink(r, b) \/ (effective = "barber" /\ b = None)
        THEN End(r, "refused")
        ELSE Change(r, e, user,
                [user EXCEPT !.role = effective, !.barber = LinkAfter(user, effective, b),
                             !.active = IF active = None THEN @ ELSE active,
                             !.name = IF named THEN r ELSE @])
  BY DEF UpdateTenantUser
<1> DEFINE user == db[e]
           effective == IF role = None THEN user.role ELSE role
           now == [user EXCEPT !.role = effective, !.barber = LinkAfter(user, effective, b),
                               !.active = IF active = None THEN @ ELSE active,
                               !.name = IF named THEN r ELSE @]
<1>2. CASE /\ user # None /\ user.tenant = tx[r].me.tenant /\ ResolveBarberLink(r, b)
           /\ ~(effective = "barber" /\ b = None) /\ Change(r, e, user, now)
  <2>1. user \in TenantUser
    BY <1>1, <1>2, HandlerUser
  <2>2. LinkAfter(user, effective, b) \in {b, None} /\ effective \in Roles
    BY <2>1 DEF LinkAfter, TenantUser
  <2>3. /\ now \in TenantUser /\ now.tenant = user.tenant /\ now.role = effective
        /\ now.barber = LinkAfter(user, effective, b)
    BY <2>1, <2>2 DEF TenantUser
  <2>4. PICK n : n = now
    OBVIOUS
  <2>5. ~Unlinked(n)
    BY <1>2, <2>3, <2>4 DEF Unlinked, LinkAfter
  <2>6. ~Foreign(n)
    BY <1>2, <2>2, <2>3, <2>4 DEF Foreign, ResolveBarberLink
  <2>7. n.tenant = user.tenant
    BY <2>3, <2>4
  <2>8. Aim(e, tx[r].op, tx[r].me, db[e], n)
    BY <1>1, <2>5, <2>6, <2>7, AccountsAssumption DEF Aim, SameIdentity, UserOps
  <2>9. n \in TenantUser /\ Change(r, e, db[e], n)
    BY <1>2, <2>3, <2>4
  <2> QED
    BY <1>1, <2>8, <2>9, ChangeFollows
<1> QED
  BY <1>2, EndFollows DEF Over

LEMMA UpdateBarberLinkFollows ==
    ASSUME Inv, Followed, NEW r \in Requests, UpdateBarberLink(r)
    PROVE  Followed'
<1>1. tx[r].pc = "handle" /\ tx[r].op = "barber_link"
  BY DEF UpdateBarberLink, Handling
<1> PICK e \in Emails, b \in Barbers \cup {None} :
        \/ End(r, "refused")
        \/ /\ db[e] # None /\ db[e].tenant = tx[r].me.tenant /\ ResolveBarberLink(r, b)
           /\ Change(r, e, db[e], [db[e] EXCEPT !.barber = b])
  BY DEF UpdateBarberLink
<1> DEFINE user == db[e]
           now == [user EXCEPT !.barber = b]
<1>2. CASE /\ user # None /\ user.tenant = tx[r].me.tenant /\ ResolveBarberLink(r, b)
           /\ Change(r, e, user, now)
  <2>1. user \in TenantUser
    BY <1>1, <1>2, HandlerUser
  <2>2. now \in TenantUser /\ now.tenant = user.tenant /\ now.barber = b
    BY <2>1 DEF TenantUser
  <2>3. PICK n : n = now
    OBVIOUS
  <2>4. ~Foreign(n) /\ n.tenant = user.tenant
    BY <1>2, <2>2, <2>3 DEF Foreign, ResolveBarberLink
  <2>5. Aim(e, tx[r].op, tx[r].me, db[e], n)
    BY <1>1, <2>4, AccountsAssumption DEF Aim, SameIdentity, UserOps, Unchecked
  <2>6. n \in TenantUser /\ Change(r, e, db[e], n)
    BY <1>2, <2>2, <2>3
  <2> QED
    BY <1>1, <2>5, <2>6, ChangeFollows
<1> QED
  BY <1>2, EndFollows DEF Over

LEMMA UpdateMeFollows ==
    ASSUME Inv, Followed, NEW r \in Requests, UpdateMe(r)
    PROVE  Followed'
<1> DEFINE e == Principal(r)
           me == db[e]
           now == [me EXCEPT !.name = r]
<1>1. tx[r].pc = "handle" /\ tx[r].op = "update_me" /\ Change(r, e, me, now)
  BY DEF UpdateMe, Handling
<1>2. e \in Emails /\ me \in TenantUser
  BY <1>1, HandlerUser
<1>3. /\ now \in TenantUser /\ now.tenant = me.tenant /\ now.role = me.role
      /\ now.barber = me.barber
  BY <1>2 DEF TenantUser
<1>4. PICK n : n = now
  OBVIOUS
<1>5. me # None
  BY <1>2, DatabasesAssumption DEF Row
<1>6. Aim(e, tx[r].op, tx[r].me, me, n)
  BY <1>1, <1>2, <1>3, <1>4, <1>5, AccountsAssumption
     DEF Aim, SameIdentity, UserOps, Unlinked
<1>7. n \in TenantUser /\ Change(r, e, db[e], n)
  BY <1>1, <1>3, <1>4
<1> HIDE DEF e, me
<1> QED
  BY <1>1, <1>2, <1>6, <1>7, ChangeFollows DEF me

LEMMA RouteFollows ==
    ASSUME Inv, Followed, NEW r \in Requests, Route(r)
    PROVE  Followed'
<1>1. CASE VerifyBearer(r)
  BY <1>1, VerifyBearerFollows
<1>2. CASE Login(r)
  <2> PICK e \in Emails, k \in Tokens :
        /\ \A q \in Requests : View(q, k) = None
        /\ Start(r, "login", k, None, [user |-> e, revoked |-> FALSE])
    BY <1>2 DEF Login
  <2>1. k \in Keys /\ k \notin Emails /\ db[k] = None
    BY AccountsAssumption DEF Keys, View
  <2>2. Aim(k, "login", None, db[k], [user |-> e, revoked |-> FALSE])
    BY <2>1 DEF Aim
  <2> QED
    BY <2>1, <2>2, StartFollows
<1>3. CASE Logout(r)
  <2> PICK k \in Tokens :
        db[k] # None /\ Start(r, "logout", k, db[k], [db[k] EXCEPT !.revoked = TRUE])
    BY <1>3 DEF Logout
  <2>1. k \in Keys /\ k \notin Emails /\ db[k] \in ApiToken
    BY AccountsAssumption DEF Keys, Inv, TypeOK, Database
  <2>2. [db[k] EXCEPT !.revoked = TRUE].user = db[k].user
    BY <2>1 DEF ApiToken
  <2>3. Aim(k, "logout", None, db[k], [db[k] EXCEPT !.revoked = TRUE])
    BY <2>1, <2>2 DEF Aim, SameIdentity
  <2> QED
    BY <2>1, <2>3, StartFollows
<1>4. CASE CreateSuperadminUser(r)
  <2> PICK e \in Emails, tenant \in Tenants, role \in Roles :
        Start(r, "superadmin_user", e, db[e],
              [(IF db[e] = None THEN NewUser(tenant, r) ELSE db[e]) EXCEPT !.role = role])
    BY <1>4 DEF CreateSuperadminUser
  <2> DEFINE user == IF db[e] = None THEN NewUser(tenant, r) ELSE db[e]
             now == [user EXCEPT !.role = role]
  <2>1. user \in TenantUser /\ (db[e] = None => user.barber = None)
    BY DEF Inv, TypeOK, Database, NewUser, TenantUser, Roles
  <2>2. now.tenant = user.tenant /\ now.barber = user.barber
    BY <2>1 DEF TenantUser
  <2>3. PICK n : n = now
    OBVIOUS
  <2>4. e \in Keys /\ e \notin Tokens
    BY AccountsAssumption DEF Keys
  <2>5. Aim(e, "superadmin_user", None, db[e], n)
    BY <2>1, <2>2, <2>3, <2>4 DEF Aim, SameIdentity, UserOps, Unchecked, Foreign
  <2> QED
    BY <2>3, <2>4, <2>5, StartFollows
<1>5. ASSUME NEW status \in Statuses, NEW settings \in BOOLEAN, NewTenant(r, status, settings)
      PROVE  Followed'
  <2> PICK s \in Tenants : /\ db[s] = None
                           /\ Start(r, "create_tenant", s, None, [status |-> status, settings |-> settings])
    BY <1>5 DEF NewTenant
  <2>1. s \in Keys /\ s \notin Emails
    BY AccountsAssumption DEF Keys
  <2>2. Aim(s, "create_tenant", None, db[s], [status |-> status, settings |-> settings])
    BY <2>1 DEF Aim
  <2> QED
    BY <2>1, <2>2, StartFollows
<1>6. ASSUME NEW status \in Statuses, SetStatus(r, status)
      PROVE  Followed'
  <2> PICK s \in Tenants : Start(r, "status", s, db[s], [db[s] EXCEPT !.status = status])
    BY <1>6 DEF SetStatus
  <2>1. s \in Keys /\ s \notin Emails /\ s \notin Tokens
    BY AccountsAssumption DEF Keys
  <2>2. Aim(s, "status", None, db[s], [db[s] EXCEPT !.status = status])
    BY <2>1 DEF Aim, SameIdentity
  <2> QED
    BY <2>1, <2>2, StartFollows
<1> QED
  BY <1>1, <1>2, <1>3, <1>4, <1>5, <1>6
     DEF Route, CreateTenant, CreateSuperadminTenant, UpdateTenantStatus, SoftDeleteTenant, Statuses

LEMMA HandlerFollows ==
    ASSUME Inv, Followed, NEW r \in Requests, Handler(r)
    PROVE  Followed'
BY CreateTenantUserFollows, UpdateTenantUserFollows, UpdateBarberLinkFollows, UpdateMeFollows,
   EndFollows DEF Handler, Read, Over

\* A flush that writes row under the key of r.
LEMMA WriteFollows ==
    ASSUME Inv, Followed, NEW r \in Requests, tx[r].pc \in {"flush", "settings"},
           NEW row, row # None, db[tx[r].key] # None => SameIdentity(tx[r].key, row, db[tx[r].key]),
           NEW pc \in {"settings", "commit"},
           pc = "settings" =>
            /\ tx[r].now \in Tenant /\ tx[r].now.settings
            /\ row = [tx[r].now EXCEPT !.settings = FALSE],
           pc = "commit" =>
            /\ ~tx[r].overtaken => row = tx[r].now
            /\ tx[r].key \in Emails /\ Foreign(row) =>
                Foreign(db[tx[r].key]) \/ ForeignCreate(tx[r].op, tx[r].me, tx[r].loaded),
           Go(r, [tx[r] EXCEPT !.own[tx[r].key] = row, !.pc = pc])
    PROVE  Followed'
<1> DEFINE t == [tx[r] EXCEPT !.own[tx[r].key] = row, !.pc = pc]
<1>1. tx[r] \in Session /\ Follows(db, tx[r])
  BY DEF Inv, TypeOK, Followed
<1>2. tx[r].key \in Keys
  BY <1>1 DEF Follows, Plans
<1>3. /\ \A x \in Keys : t.own[x] = IF x = tx[r].key THEN row ELSE tx[r].own[x]
      /\ t.key = tx[r].key /\ t.pc = pc /\ t.op = tx[r].op /\ t.me = tx[r].me
      /\ t.loaded = tx[r].loaded /\ t.now = tx[r].now /\ t.overtaken = tx[r].overtaken
  BY <1>1 DEF Session
<1>4. Go(r, t)
  OBVIOUS
<1> HIDE DEF t
<1>5. Writes(db, t)
  BY <1>1, <1>2, <1>3 DEF Follows, Writes
<1>6. Plans(db, t)
  BY <1>1, <1>2, <1>3 DEF Follows, Plans
<1>7. Publishes(db, t)
  BY <1>2, <1>3 DEF Publishes
<1>8. Follows(db, t)
  BY <1>3, <1>5, <1>6, <1>7 DEF Follows, Knows
<1> QED
  BY <1>4, <1>8, GoFollows

\* The UPDATE of the changed columns: it keeps whose the row is, and it is the row in memory
\* when the row in memory was the committed one.
LEMMA MergedSame ==
    ASSUME TypeOK, NEW x \in Keys, db[x] # None, NEW was, OfKind(db, x, was),
           NEW now, OfKind(db, x, now), SameIdentity(x, now, was), SameIdentity(x, was, db[x])
    PROVE  /\ SameIdentity(x, Merged(was, now, db[x]), db[x])
           /\ was = db[x] => Merged(was, now, db[x]) = now
           /\ x \in Emails =>
                Merged(was, now, db[x]).barber
                    = IF now.barber # was.barber THEN now.barber ELSE db[x].barber
<1>1. CASE x \in Emails
  <2>1. was \in TenantUser /\ now \in TenantUser /\ db[x] \in TenantUser
    BY <1>1, DatabaseRow DEF OfKind
  <2>2. /\ Merged(was, now, db[x]).tenant = db[x].tenant
        /\ Merged(was, now, db[x]).barber
            = IF now.barber # was.barber THEN now.barber ELSE db[x].barber
    BY <1>1, <2>1 DEF Merged, TenantUser, SameIdentity
  <2>3. was = db[x] => Merged(was, now, db[x]) = now
    BY <2>1 DEF Merged, TenantUser
  <2> QED
    BY <1>1, <2>2, <2>3, AccountsAssumption DEF SameIdentity
<1>2. CASE x \in Tokens
  <2>1. was \in ApiToken /\ now \in ApiToken /\ db[x] \in ApiToken
    BY <1>2, DatabaseRow DEF OfKind
  <2>2. Merged(was, now, db[x]).user = db[x].user
    BY <1>2, <2>1 DEF Merged, ApiToken, SameIdentity
  <2>3. was = db[x] => Merged(was, now, db[x]) = now
    BY <2>1 DEF Merged, ApiToken
  <2> QED
    BY <1>2, <2>2, <2>3, AccountsAssumption DEF SameIdentity
<1>3. CASE x \in Tenants
  <2>1. was \in Tenant /\ now \in Tenant /\ db[x] \in Tenant
    BY <1>3, DatabaseRow DEF OfKind
  <2>2. was = db[x] => Merged(was, now, db[x]) = now
    BY <2>1 DEF Merged, Tenant
  <2> QED
    BY <1>3, <2>2, AccountsAssumption DEF SameIdentity
<1> QED
  BY <1>1, <1>2, <1>3 DEF Keys

LEMMA InsertFollows ==
    ASSUME Inv, Followed, NEW r \in Requests, Insert(r)
    PROVE  Followed'
<1> DEFINE t == tx[r]
<1>1. t.pc = "flush" /\ t.loaded = None
  BY DEF Insert
<1>2. /\ t.key \in Keys /\ OfKind(db, t.key, t.now) /\ (t.op = "create_tenant" => t.key \in Tenants)
      /\ Aim(t.key, t.op, t.me, None, t.now) /\ t.now # None
  BY <1>1, Kinds DEF Inv, Fits, Followed, Follows, Plans
<1>3. t.key \in Emails => ~Foreign(t.now)
  BY <1>2 DEF Aim, ForeignCreate
<1>4. CASE db[t.key] # None
  BY <1>1, <1>4, EndFollows DEF Insert, Over
<1>5. CASE db[t.key] = None /\ t.op = "create_tenant" /\ t.now.settings
  <2> DEFINE row == [t.now EXCEPT !.settings = FALSE]
  <2>1. t.now \in Tenant /\ t.key \in Tenants
    BY <1>2, <1>5 DEF OfKind
  <2>2. row \in Tenant
    BY <2>1 DEF Tenant
  <2>3. row # None
    BY <2>2, DatabasesAssumption DEF Row
  <2>4. Go(r, [t EXCEPT !.own[t.key] = row, !.pc = "settings"])
    BY <1>5 DEF Insert
  <2> HIDE DEF t
  <2> QED
    BY <1>1, <1>5, <2>1, <2>3, <2>4, WriteFollows DEF t
<1>6. CASE db[t.key] = None /\ ~(t.op = "create_tenant" /\ t.now.settings)
  <2>1. Go(r, [t EXCEPT !.own[t.key] = t.now, !.pc = "commit"])
    BY <1>6 DEF Insert
  <2> HIDE DEF t
  <2> QED
    BY <1>1, <1>2, <1>3, <1>6, <2>1, WriteFollows DEF t
<1> QED
  BY <1>4, <1>5, <1>6

LEMMA InsertSettingsFollows ==
    ASSUME Inv, Followed, NEW r \in Requests, InsertSettings(r)
    PROVE  Followed'
<1> DEFINE t == tx[r]
<1>1. t.pc = "settings" /\ Go(r, [t EXCEPT !.own[t.key].settings = TRUE, !.pc = "commit"])
  BY DEF InsertSettings
<1>2. /\ t \in Session /\ t.key \in Keys /\ t.key \in Tenants
      /\ t.now \in Tenant /\ t.now.settings /\ t.own[t.key] = [t.now EXCEPT !.settings = FALSE]
  BY <1>1 DEF Inv, TypeOK, Fits, Followed, Follows, Plans
<1>3. [t.own[t.key] EXCEPT !.settings = TRUE] = t.now
  BY <1>2 DEF Tenant
<1>4. Go(r, [t EXCEPT !.own[t.key] = t.now, !.pc = "commit"])
  BY <1>1, <1>2, <1>3
<1>5. t.now # None /\ t.key \notin Emails /\ t.key \notin Tokens
  BY <1>2, DatabasesAssumption, AccountsAssumption DEF Row
<1>6. db[t.key] # None => SameIdentity(t.key, t.now, db[t.key])
  BY <1>5 DEF SameIdentity
<1> HIDE DEF t
<1> QED
  BY <1>1, <1>4, <1>5, <1>6, WriteFollows DEF t

LEMMA UpdateRowFollows ==
    ASSUME Inv, Followed, NEW r \in Requests, UpdateRow(r)
    PROVE  Followed'
<1> DEFINE t == tx[r]
           row == Merged(t.loaded, t.now, db[t.key])
<1>1. t.pc = "flush" /\ t.loaded # None
  BY DEF UpdateRow
<1>2. /\ t \in Session /\ t.key \in Keys /\ OfKind(db, t.key, t.now)
      /\ OfKind(db, t.key, t.loaded) /\ db[t.key] # None
      /\ t.key \in Tokens => t.now.revoked /\ ~t.loaded.revoked
  BY <1>1 DEF Inv, Fits, TypeOK
<1>3. /\ Follows(db, t) /\ Aim(t.key, t.op, t.me, t.loaded, t.now) /\ t.own[t.key] = None
      /\ SameIdentity(t.key, t.loaded, db[t.key]) /\ (~t.overtaken => t.loaded = db[t.key])
  BY <1>1 DEF Followed, Follows, Plans
<1>4. CASE t.now = t.loaded
  <2> DEFINE u == [t EXCEPT !.pc = "commit"]
  <2>1. /\ u.pc = "commit" /\ u.own = t.own /\ u.key = t.key /\ u.op = t.op /\ u.me = t.me
        /\ u.loaded = t.loaded /\ u.now = t.now /\ u.overtaken = t.overtaken
    BY <1>2 DEF Session
  <2>2. Go(r, u)
    BY <1>4 DEF UpdateRow
  <2> HIDE DEF u, t
  <2>3. Writes(db, u)
    BY <1>1, <1>3, <2>1 DEF Follows, Writes
  <2>4. Plans(db, u) /\ Publishes(db, u)
    BY <1>1, <1>3, <1>4, <2>1 DEF Follows, Plans, Publishes
  <2>5. Follows(db, u)
    BY <2>1, <2>3, <2>4 DEF Follows, Knows
  <2> QED
    BY <2>2, <2>5, GoFollows
<1>5. CASE t.now # t.loaded
  <2>1. Go(r, [t EXCEPT !.own[t.key] = row, !.pc = "commit"])
    BY <1>5 DEF UpdateRow
  <2>2. SameIdentity(t.key, t.now, t.loaded)
    BY <1>1, <1>3 DEF Aim
  <2>3. /\ SameIdentity(t.key, row, db[t.key])
        /\ t.loaded = db[t.key] => row = t.now
        /\ t.key \in Emails =>
            row.barber = IF t.now.barber # t.loaded.barber THEN t.now.barber ELSE db[t.key].barber
    BY <1>2, <1>3, <2>2, MergedSame DEF Inv
  <2>4. row # None
    BY <1>2, MergedKind, Kinds DEF Inv
  <2>5. t.key \in Emails /\ Foreign(row) => Foreign(db[t.key]) \/ ForeignCreate(t.op, t.me, t.loaded)
    <3> SUFFICES ASSUME t.key \in Emails, Foreign(row), ~ForeignCreate(t.op, t.me, t.loaded)
                 PROVE  Foreign(db[t.key])
      OBVIOUS
    <3>1. row.tenant = db[t.key].tenant /\ t.now.tenant = row.tenant
      BY <1>3, <2>2, <2>3 DEF SameIdentity
    <3>2. t.now # None
      BY <1>2, Kinds
    <3>3. CASE t.now.barber = t.loaded.barber
      BY <1>2, <2>3, <3>1, <3>3 DEF Foreign
    <3>4. CASE t.now.barber # t.loaded.barber
      <4>1. Foreign(t.now)
        BY <2>3, <3>1, <3>2, <3>4 DEF Foreign
      <4> QED
        BY <1>3, <3>4, <4>1 DEF Aim
    <3> QED
      BY <3>3, <3>4
  <2> HIDE DEF row, t
  <2>6. /\ t = tx[r] /\ (~t.overtaken => row = t.now)
    BY <1>3, <2>3 DEF t
  <2> QED
    BY <1>1, <2>1, <2>3, <2>4, <2>5, <2>6, WriteFollows
<1> QED
  BY <1>4, <1>5

\* The commit of r: whose the rows are stays, those that others have written stay, and every
\* request under way is overtaken.
LEMMA CommitFollows ==
    ASSUME Inv, Followed, NEW r \in Requests, Commit(r)
    PROVE  Followed'
<1> DEFINE s == [Idle EXCEPT !.pc = IF Audited(tx[r].op) THEN "stored" ELSE "done"]
<1>1. /\ db' = [x \in Keys |-> IF tx[r].own[x] # None THEN tx[r].own[x] ELSE db[x]]
      /\ tx' = [q \in Requests |-> IF q = r THEN s
                 ELSE IF tx[q].pc \in HasRead THEN [tx[q] EXCEPT !.overtaken = TRUE] ELSE tx[q]]
  BY DEF Commit, View
<1>2. tx[r] \in Session /\ Fits(db, tx[r]) /\ Writes(db, tx[r]) /\ TypeOK
  BY DEF Inv, TypeOK, Followed, Follows
<1>3. \A x \in Keys : db[x] # None => db'[x] # None /\ SameIdentity(x, db'[x], db[x])
  BY <1>1, <1>2 DEF Writes, SameIdentity
<1>4. (\A x \in Keys : s.own[x] = None) /\ s.pc \in {"stored", "done"}
  BY DEF Idle
<1> HIDE DEF s
<1>5. ASSUME NEW q \in Requests PROVE Follows(db', tx'[q])
  <2>1. CASE q = r
    BY <1>1, <1>4, <2>1 DEF Follows, Writes, Knows, Plans, Publishes
  <2>2. CASE q # r
    <3> DEFINE t == tx'[q]
    <3>1. tx[q] \in Session /\ Fits(db, tx[q]) /\ Follows(db, tx[q])
      BY DEF Inv, TypeOK, Followed
    <3>2. /\ t.own = tx[q].own /\ t.pc = tx[q].pc /\ t.op = tx[q].op /\ t.token = tx[q].token
          /\ t.me = tx[q].me /\ t.key = tx[q].key /\ t.loaded = tx[q].loaded /\ t.now = tx[q].now
          /\ t.pc \in HasRead => t.overtaken
      BY <1>1, <2>2, <3>1 DEF Session, HasRead
    <3> HIDE DEF t
    <3>3. \A x \in Keys : t.own[x] # None => db'[x] = db[x]
      BY <1>1, <2>2, <3>2 DEF Inv, Apart
    <3>4. Writes(db', t)
      BY <3>1, <3>2, <3>3 DEF Follows, Writes
    <3>5. Knows(db', t)
      <4> SUFFICES ASSUME t.pc \in {"use", "handle"}
                   PROVE  t.me.tenant = db'[db'[t.token].user].tenant
        BY <3>2 DEF Knows, Stages, HasRead
      <4>1. t.token \in Tokens /\ db[t.token] # None
        BY <3>1, <3>2 DEF Fits
      <4>2. db[t.token].user \in Emails /\ db[db[t.token].user] # None
        BY <1>2, <4>1 DEF TypeOK, Database, ApiToken
      <4>3. db'[t.token].user = db[t.token].user
        BY <1>3, <4>1 DEF SameIdentity, Keys
      <4>4. db'[db[t.token].user].tenant = db[db[t.token].user].tenant
        BY <1>3, <4>2 DEF SameIdentity, Keys
      <4> QED
        BY <3>1, <3>2, <4>3, <4>4 DEF Follows, Knows
    <3>6. Plans(db', t)
      <4> SUFFICES ASSUME t.pc \in {"flush", "settings", "commit"}
                   PROVE  Plans(db', t)
        BY DEF Plans
      <4>1. t.key \in Keys /\ Aim(t.key, t.op, t.me, t.loaded, t.now) /\ t.overtaken
        BY <3>1, <3>2 DEF Follows, Plans, Stages, HasRead
      <4>2. t.pc = "flush" => t.own[t.key] = None /\ (t.loaded # None => db[t.key] # None)
        BY <3>1, <3>2 DEF Follows, Plans, Fits
      <4>3. t.pc = "flush" /\ t.loaded # None => SameIdentity(t.key, t.loaded, db'[t.key])
        BY <1>3, <3>1, <3>2, <4>1, <4>2 DEF Follows, Plans, SameIdentity
      <4> QED
        BY <3>1, <3>2, <4>1, <4>2, <4>3 DEF Follows, Plans
    <3>7. Publishes(db', t)
      <4> SUFFICES ASSUME t.pc = "commit"
                   PROVE  Publishes(db', t)
        BY DEF Publishes
      <4>1. t.overtaken /\ t.key \in Keys
        BY <3>1, <3>2 DEF Stages, HasRead, Follows, Plans
      <4> QED
        BY <3>1, <3>2, <3>3, <4>1 DEF Follows, Publishes
    <3>8. Follows(db', t)
      BY <3>4, <3>5, <3>6, <3>7 DEF Follows
    <3> QED
      BY <3>8 DEF t
  <2> QED
    BY <2>1, <2>2
<1> QED
  BY <1>5 DEF Followed

LEMMA NextFollows ==
    ASSUME Inv, Followed, [Next]_vars
    PROVE  Followed'
<1>1. CASE UNCHANGED vars
  BY <1>1 DEF vars, Followed, Follows, Writes, Knows, Plans, Publishes
<1>2. CASE Terminated
  BY <1>1, <1>2 DEF Terminated
<1>3. ASSUME NEW r \in Requests, Statement(r) \/ Crash(r) PROVE Followed'
  BY <1>3, UseTokenFollows, InsertFollows, InsertSettingsFollows, UpdateRowFollows,
     CommitFollows, EndFollows DEF Statement, Crash, WriteAudit, Over
<1> QED
  BY <1>1, <1>2, <1>3, RouteFollows, HandlerFollows DEF Next

\* A step changes the session of its request only, but for the commit.
LEMMA Goes ==
    ASSUME NEW q, Route(q) \/ Handler(q) \/ Statement(q) \/ Crash(q)
    PROVE  Commit(q) \/ \E t : Go(q, t)
<1>1. Route(q) => \E t : Go(q, t)
  BY DEF Route, VerifyBearer, Login, Logout, CreateSuperadminUser, CreateTenant,
     CreateSuperadminTenant, NewTenant, UpdateTenantStatus, SoftDeleteTenant, SetStatus,
     Start, End
<1>2. Handler(q) => \E t : Go(q, t)
  <2>1. CreateTenantUser(q) => \E t : Go(q, t)
    BY DEF CreateTenantUser, Change, End
  <2>2. UpdateTenantUser(q) => \E t : Go(q, t)
    <3> SUFFICES ASSUME UpdateTenantUser(q) PROVE \E t : Go(q, t)
      OBVIOUS
    <3>1. \/ End(q, "refused")
          \/ \E e, loaded, now : Change(q, e, loaded, now)
      BY DEF UpdateTenantUser
    <3> QED
      BY <3>1 DEF Change, End
  <2>3. UpdateBarberLink(q) => \E t : Go(q, t)
    BY DEF UpdateBarberLink, Change, End
  <2>4. UpdateMe(q) \/ Read(q) => \E t : Go(q, t)
    BY DEF UpdateMe, Read, Change, End
  <2> QED
    BY <2>1, <2>2, <2>3, <2>4 DEF Handler
<1>3. Statement(q) => Commit(q) \/ \E t : Go(q, t)
  BY DEF Statement, UseToken, Insert, InsertSettings, UpdateRow, WriteAudit, End
<1>4. Crash(q) => \E t : Go(q, t)
  BY DEF Crash, End
<1> QED
  BY <1>1, <1>2, <1>3, <1>4

\* Only a commit changes the rows; it changes a user's row to the one its request has written.
LEMMA CommitsOnly ==
    ASSUME Inv, Followed, Next, NEW e \in Emails, db'[e] # db[e]
    PROVE  \E r \in Requests : /\ Commits(r) /\ tx[r].key = e
                               /\ tx[r].own[e] # None /\ db'[e] = tx[r].own[e]
<1>0. PICK r \in Requests : Route(r) \/ Handler(r) \/ Statement(r) \/ Crash(r)
  BY DEF Next, Terminated, vars
<1>1. Commit(r)
  BY <1>0, Goes DEF Go
<1>2. e \in Keys /\ e \notin Tokens
  BY AccountsAssumption DEF Keys
<1>3. tx[r].own[e] # None /\ db'[e] = tx[r].own[e]
  BY <1>1, <1>2 DEF Commit, View
<1>4. tx[r].key = e
  BY <1>2, <1>3 DEF Followed, Follows, Writes
<1>5. tx'[r] = [Idle EXCEPT !.pc = IF Audited(tx[r].op) THEN "stored" ELSE "done"]
  BY <1>1 DEF Commit
<1>6. Commits(r)
  BY <1>1, <1>5 DEF Commits, Commit, Idle
<1> QED
  BY <1>3, <1>4, <1>6

\* A commit is seen in no step but Commit.
LEMMA StepOfCommit ==
    ASSUME Inv, Next, NEW r \in Requests, Commits(r)
    PROVE  Commit(r)
<1>1. tx[r].pc = "commit" /\ tx'[r].pc \in {"stored", "done"} /\ tx \in [Requests -> Session]
  BY DEF Commits, Inv, TypeOK
<1>2. PICK q \in Requests : Route(q) \/ Handler(q) \/ Statement(q) \/ Crash(q)
  BY <1>1 DEF Next, Terminated, vars
<1>3. Commit(q) \/ \E t : Go(q, t)
  BY <1>2, Goes
<1>4. CASE q # r
  <2>1. CASE Commit(q)
    BY <1>1, <1>4, <2>1 DEF Commit, Session
  <2>2. ASSUME NEW t, Go(q, t) PROVE FALSE
    BY <1>1, <1>4, <2>2 DEF Go
  <2> QED
    BY <1>3, <2>1, <2>2
<1>5. CASE q = r
  <2>1. ~Route(r)
    BY <1>1 DEF Route, VerifyBearer, Login, Logout, CreateSuperadminUser, CreateTenant,
       CreateSuperadminTenant, NewTenant, UpdateTenantStatus, SoftDeleteTenant, SetStatus, Start
  <2>2. ~Handler(r)
    BY <1>1 DEF Handler, CreateTenantUser, UpdateTenantUser, UpdateBarberLink, UpdateMe, Read,
       Handling
  <2>3. Statement(r) => Commit(r)
    BY <1>1 DEF Statement, UseToken, Insert, InsertSettings, UpdateRow, WriteAudit
  <2>4. ~Crash(r)
    BY <1>1 DEF Crash, End, Go, Idle, Stages, HasRead
  <2> QED
    BY <1>2, <1>5, <2>1, <2>2, <2>3, <2>4
<1> QED
  BY <1>4, <1>5

-----------------------------------------------------------------------------
(* The theorems.                                                            *)

LEMMA InitInv == Init => Inv
<1> SUFFICES ASSUME Init PROVE Inv
  OBVIOUS
<1>1. Database(db)
  BY DatabasesAssumption DEF Init
<1>2. Idle \in Session /\ (\A x \in Keys : Idle.own[x] = None) /\ Idle.pc = "idle"
  BY DEF Session, Idle
<1>3. \A r \in Requests : tx[r] = Idle
  BY DEF Init
<1>4. TypeOK
  BY <1>1, <1>2 DEF TypeOK, Init
<1>5. \A r \in Requests : Fits(db, tx[r])
  BY <1>2, <1>3 DEF Fits, Keys
<1>6. Apart
  BY <1>2, <1>3 DEF Apart
<1> QED
  BY <1>4, <1>5, <1>6 DEF Inv

\* Only a commit writes the database.
LEMMA RoutesRead ==
    ASSUME NEW r \in Requests, Route(r)
    PROVE  UNCHANGED db
<1>1. ASSUME VerifyBearer(r) PROVE UNCHANGED db
  BY <1>1 DEF VerifyBearer, End, Go
<1>2. ASSUME Login(r) PROVE UNCHANGED db
  BY <1>2 DEF Login, Start, Go
<1>3. ASSUME Logout(r) PROVE UNCHANGED db
  BY <1>3 DEF Logout, Start, Go
<1>4. ASSUME CreateSuperadminUser(r) PROVE UNCHANGED db
  BY <1>4 DEF CreateSuperadminUser, Start, Go
<1>5. ASSUME NEW status, NEW settings, NewTenant(r, status, settings) PROVE UNCHANGED db
  BY <1>5 DEF NewTenant, Start, Go
<1>6. ASSUME NEW status, SetStatus(r, status) PROVE UNCHANGED db
  BY <1>6 DEF SetStatus, Start, Go
<1> QED
  BY <1>1, <1>2, <1>3, <1>4, <1>5, <1>6
     DEF Route, CreateTenant, CreateSuperadminTenant, UpdateTenantStatus, SoftDeleteTenant

LEMMA HandlersRead ==
    ASSUME NEW r \in Requests, Handler(r)
    PROVE  UNCHANGED db
<1>1. ASSUME CreateTenantUser(r) PROVE UNCHANGED db
  BY <1>1 DEF CreateTenantUser, Change, End, Go
<1>2. ASSUME UpdateTenantUser(r) PROVE UNCHANGED db
  BY <1>2 DEF UpdateTenantUser, Change, End, Go
<1>3. ASSUME UpdateBarberLink(r) PROVE UNCHANGED db
  BY <1>3 DEF UpdateBarberLink, Change, End, Go
<1>4. ASSUME UpdateMe(r) PROVE UNCHANGED db
  BY <1>4 DEF UpdateMe, Change, Go
<1>5. ASSUME Read(r) PROVE UNCHANGED db
  BY <1>5 DEF Read, End, Go
<1> QED
  BY <1>1, <1>2, <1>3, <1>4, <1>5 DEF Handler

LEMMA NextInv ==
    ASSUME Inv, [Next]_vars
    PROVE  Inv' /\ \A k \in Tokens : db[k] # None /\ db[k].revoked => db'[k].revoked
<1>1. CASE UNCHANGED vars
  BY <1>1 DEF vars, Inv, TypeOK, Database, Fits, OfKind, Apart, Locked
<1>2. CASE Terminated
  BY <1>1, <1>2 DEF Terminated
<1>3. ASSUME NEW r \in Requests, Route(r) PROVE Inv' /\ UNCHANGED db
  <2>1. Inv'
    BY <1>3, VerifyBearerKeeps, LoginKeeps, LogoutKeeps, CreateSuperadminUserKeeps,
       NewTenantKeeps, SetStatusKeeps
       DEF Route, CreateTenant, CreateSuperadminTenant, UpdateTenantStatus, SoftDeleteTenant, Statuses
  <2>2. UNCHANGED db
    BY <1>3, RoutesRead
  <2> QED
    BY <2>1, <2>2
<1>4. ASSUME NEW r \in Requests, Handler(r) PROVE Inv' /\ UNCHANGED db
  <2>1. Inv'
    BY <1>4, CreateTenantUserKeeps, UpdateTenantUserKeeps, UpdateBarberLinkKeeps, UpdateMeKeeps,
       EndingKeeps DEF Handler
  <2>2. UNCHANGED db
    BY <1>4, HandlersRead
  <2> QED
    BY <2>1, <2>2
<1>5. ASSUME NEW r \in Requests, Statement(r), ~Commit(r) PROVE Inv' /\ UNCHANGED db
  <2>1. Inv'
    BY <1>5, UseTokenKeeps, InsertKeeps, InsertSettingsKeeps, UpdateRowKeeps, EndingKeeps
       DEF Statement
  <2>2. UNCHANGED db
    <3>1. ASSUME UseToken(r) \/ InsertSettings(r) \/ WriteAudit(r) PROVE UNCHANGED db
      BY <3>1 DEF UseToken, InsertSettings, WriteAudit, End, Go
    <3>2. ASSUME Insert(r) \/ UpdateRow(r) PROVE UNCHANGED db
      BY <3>2 DEF Insert, UpdateRow, End, Go
    <3> QED
      BY <1>5, <3>1, <3>2 DEF Statement
  <2> QED
    BY <2>1, <2>2
<1>6. ASSUME NEW r \in Requests, Crash(r) PROVE Inv' /\ UNCHANGED db
  BY <1>6, EndingKeeps DEF Crash, End, Go
<1> QED
  BY <1>1, <1>2, <1>3, <1>4, <1>5, <1>6, CommitKeeps DEF Next, vars

\* Whatever requests overlap, the rows and what the sessions hold of them are well formed: a
\* token's user exists, and an UPDATE meets a row of the kind it was made for.
THEOREM TypesHold == Spec => []TypeOK
<1>1. Init => Inv
  BY InitInv
<1>2. Inv /\ [Next]_vars => Inv'
  BY NextInv
<1>3. Inv => TypeOK
  BY DEF Inv
<1> QED
  BY <1>1, <1>2, <1>3, PTL DEF Spec

\* A token that was logged out stays revoked, however many requests were let in with it
\* before and write its last_used_at later: the row is locked between that UPDATE and the
\* commit, and the UPDATE does not send the column.
THEOREM RevocationHolds == Spec => RevokedStays
<1>1. Init => Inv
  BY InitInv
<1>2. Inv /\ [Next]_vars => Inv'
  BY NextInv
<1>3. Inv /\ [Next]_vars =>
        [\A k \in Tokens : db[k] # None /\ db[k].revoked => db'[k].revoked]_vars
  BY NextInv
<1> QED
  BY <1>1, <1>2, <1>3, PTL DEF Spec, RevokedStays

LEMMA InitFollows == Init => Followed
<1> SUFFICES ASSUME Init PROVE Followed
  OBVIOUS
<1>1. (\A x \in Keys : Idle.own[x] = None) /\ Idle.pc = "idle"
  BY DEF Idle
<1>2. \A r \in Requests : tx[r] = Idle
  BY DEF Init
<1> QED
  BY <1>1, <1>2 DEF Followed, Follows, Writes, Knows, Plans, Publishes

LEMMA Following == Spec => [](Inv /\ Followed)
<1>1. Init => Inv /\ Followed
  BY InitInv, InitFollows
<1>2. Inv /\ Followed /\ [Next]_vars => (Inv /\ Followed)'
  BY NextInv, NextFollows
<1> QED
  BY <1>1, <1>2, PTL DEF Spec

\* However requests overlap, a user is never newly linked to a barber of another tenant but by
\* a create for an email that the other tenant registered.
THEOREM LinksInTenant == Spec => LinkInTenant
<1>1. ASSUME Inv, Followed, Next, NEW e \in Emails, Foreign(db'[e]), ~Foreign(db[e])
      PROVE  \E r \in Requests : /\ Commits(r) /\ tx[r].op = "create_user" /\ tx[r].loaded # None
                                 /\ tx[r].loaded.tenant # tx[r].me.tenant
  <2>1. PICK r \in Requests : /\ Commits(r) /\ tx[r].key = e
                              /\ tx[r].own[e] # None /\ db'[e] = tx[r].own[e]
    BY <1>1, CommitsOnly
  <2>2. ForeignCreate(tx[r].op, tx[r].me, tx[r].loaded)
    BY <1>1, <2>1 DEF Followed, Follows, Publishes, Commits
  <2> QED
    BY <2>1, <2>2 DEF ForeignCreate
<1>2. Inv /\ Followed /\ [Next]_vars =>
        [\A e \in Emails : Foreign(db'[e]) /\ ~Foreign(db[e]) =>
            \E r \in Requests : /\ Commits(r) /\ tx[r].op = "create_user" /\ tx[r].loaded # None
                                /\ tx[r].loaded.tenant # tx[r].me.tenant]_vars
  BY <1>1
<1> QED
  BY <1>2, Following, PTL DEF Spec, LinkInTenant

\* A user with the role barber comes to have no barber only by a route that does not look at
\* the role, or by requests that overtook each other.
THEOREM BarberRoleStaysLinked == Spec => BarberRoleLinked
<1>1. ASSUME Inv, Followed, Next, NEW e \in Emails, Unlinked(db'[e]), ~Unlinked(db[e])
      PROVE  \E r \in Requests :
                /\ Commits(r) /\ tx[r].key = e
                /\ tx[r].op \in {"barber_link", "superadmin_user"} \/ tx[r].overtaken
  <2>1. PICK r \in Requests : /\ Commits(r) /\ tx[r].key = e
                              /\ tx[r].own[e] # None /\ db'[e] = tx[r].own[e]
    BY <1>1, CommitsOnly
  <2>2. CASE ~tx[r].overtaken
    <3>1. tx[r].pc = "commit" /\ Plans(db, tx[r]) /\ Publishes(db, tx[r])
      BY <1>1, <2>1 DEF Commits, Followed, Follows
    <3>2. tx[r].now = db'[e] /\ tx[r].loaded = db[e]
      BY <2>1, <2>2, <3>1 DEF Plans, Publishes
    <3>3. tx[r].op \in Unchecked
      BY <1>1, <2>1, <3>1, <3>2 DEF Plans, Aim
    <3> QED
      BY <2>1, <3>3 DEF Unchecked
  <2> QED
    BY <2>1, <2>2
<1>2. Inv /\ Followed /\ [Next]_vars =>
        [\A e \in Emails : Unlinked(db'[e]) /\ ~Unlinked(db[e]) =>
            \E r \in Requests :
                /\ Commits(r) /\ tx[r].key = e
                /\ tx[r].op \in {"barber_link", "superadmin_user"} \/ tx[r].overtaken]_vars
  BY <1>1
<1> QED
  BY <1>2, Following, PTL DEF Spec, BarberRoleLinked

\* A request that nobody overtook answers with the row it stored: all columns, and a new
\* tenant's settings with it.
THEOREM AnswersAreStored == Spec => AnsweredAsStored
<1>1. ASSUME Inv, Followed, Next, NEW r \in Requests, Commits(r), ~tx[r].overtaken
      PROVE  db'[tx[r].key] = tx[r].now
  <2>1. tx[r].pc = "commit" /\ tx[r].key \in Keys
        /\ tx[r].now = IF tx[r].own[tx[r].key] # None THEN tx[r].own[tx[r].key] ELSE db[tx[r].key]
    BY <1>1 DEF Commits, Followed, Follows, Plans, Publishes
  <2>2. Commit(r)
    BY <1>1, <2>1, StepOfCommit
  <2> QED
    BY <2>1, <2>2 DEF Commit, View
<1>2. Inv /\ Followed /\ [Next]_vars =>
        [\A r \in Requests : Commits(r) /\ ~tx[r].overtaken => db'[tx[r].key] = tx[r].now]_vars
  BY <1>1
<1> QED
  BY <1>2, Following, PTL DEF Spec, AnsweredAsStored
=============================================================================
