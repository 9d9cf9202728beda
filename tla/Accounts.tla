------------------------------- MODULE Accounts -------------------------------
(***************************************************************************)
(* Tenants, their users and the users' bearer tokens: the superadmin's     *)
(* routes, the tenant's own, and the authentication that comes before      *)
(* them.  The bearer look-up, the handler and its UPDATEs share one        *)
(* session and one transaction; the session keeps a row as it was first    *)
(* loaded and sends only the columns that differ from that; PostgreSQL     *)
(* keeps changed rows locked to the end of the transaction.  The audit     *)
(* entry is a second transaction.  Passwords, which only decide whether a  *)
(* login is refused, and the superadmins' own accounts are left out.       *)
(***************************************************************************)
EXTENDS FiniteSets

CONSTANTS
    Requests,
    Emails,         \* a user is named by its email, unique over all tenants
    Tokens,         \* issued ones and those a login may still issue
    Tenants,        \* by slug
    Barbers, BarberTenant,      \* no route deletes a barber or moves it
    InitialDatabases,
    None

Keys == Emails \cup Tokens \cup Tenants

ASSUME AccountsAssumption ==
    /\ BarberTenant \in [Barbers -> Tenants]
    /\ Emails \cap Tokens = {} /\ Emails \cap Tenants = {} /\ Tokens \cap Tenants = {}
    /\ None \notin Barbers \cup Keys \cup Requests
    /\ "initial" \notin Requests

Roles == {"owner", "admin", "staff", "barber", "viewer"}
TenantAssignableRoles == {"staff", "barber"}
CheckPermission(role) == role \in {"owner", "admin"}     \* manage_tenant_users

TenantUser == [tenant : Tenants, role : Roles, active : BOOLEAN,
               name : Requests \cup {"initial"}, barber : Barbers \cup {None}]
ApiToken == [user : Emails, revoked : BOOLEAN]
Statuses == {"trial", "active", "churned"}
Tenant == [status : Statuses, settings : BOOLEAN]
Row == TenantUser \cup ApiToken \cup Tenant

\* A database: each key has a row of its kind or none, and a token's user exists.
Database(d) ==
    /\ d \in [Keys -> Row \cup {None}]
    /\ \A e \in Emails : d[e] \in TenantUser \cup {None}
    /\ \A k \in Tokens : d[k] \in ApiToken \cup {None} /\ (d[k] # None => d[d[k].user] # None)
    /\ \A s \in Tenants : d[s] \in Tenant \cup {None}

ASSUME DatabasesAssumption ==
    /\ None \notin Row
    /\ \A d \in InitialDatabases : Database(d)

VARIABLES
    db,         \* the committed rows
    tx          \* per request: where it is and what its session holds

vars == <<db, tx>>

HasRead == {"flush", "settings", "commit"}      \* the row the request changes
Stages == {"use", "handle"} \cup HasRead
Over == {"done", "failed", "refused", "unaudited"}
Authenticated == {"create_user", "update_user", "barber_link", "update_me", "read"}

\* me: the Principal, its row's values at the bearer look-up; loaded and now: the row the
\* request changes, as first loaded and as set since; own: the rows written so far.
Idle == [pc |-> "idle", op |-> None, token |-> None, me |-> None, key |-> None,
         loaded |-> None, now |-> None, own |-> [x \in Keys |-> None], overtaken |-> FALSE]

Ops == Authenticated \cup {"login", "logout", "superadmin_user", "create_tenant", "status"}
Session == [pc : {"idle", "stored"} \cup Stages \cup Over, op : Ops \cup {None},
            token : Tokens \cup {None}, me : TenantUser \cup {None}, key : Keys \cup {None},
            loaded : Row \cup {None}, now : Row \cup {None}, own : [Keys -> Row \cup {None}],
            overtaken : BOOLEAN]

Init == db \in InitialDatabases /\ tx = [r \in Requests |-> Idle]

View(r, x) == IF tx[r].own[x] # None THEN tx[r].own[x] ELSE db[x]
Locked(r, x) == \E q \in Requests \ {r} : tx[q].own[x] # None

Go(r, t) == tx' = [tx EXCEPT ![r] = t] /\ UNCHANGED db

\* Rollback, and the session closes.
End(r, pc) == Go(r, [Idle EXCEPT !.pc = pc])

-----------------------------------------------------------------------------
(* verify_bearer, the dependency of every tenant route.                     *)

VerifyBearer(r) ==
    /\ tx[r].pc = "idle"
    /\ \E k \in Tokens, op \in Authenticated :
        /\ db[k] # None
        /\ LET me == db[db[k].user] IN
           IF db[k].revoked \/ ~me.active THEN End(r, "refused")
           ELSE Go(r, [Idle EXCEPT !.pc = "use", !.op = op, !.token = k, !.me = me])

UseWholeRow(r) ==           \* mutant: the UPDATE sends the row as it was read
    /\ tx[r].pc = "use" /\ ~Locked(r, tx[r].token)
    /\ Go(r, [tx[r] EXCEPT !.own[tx[r].token] = [db[tx[r].token] EXCEPT !.revoked = FALSE],
                           !.pc = "handle"])

\* last_used_at is flushed and locks the token's row; a flush that fails is rolled back and
\* the request goes on.
UseToken(r) ==
    /\ tx[r].pc = "use" /\ ~Locked(r, tx[r].token)
    /\ \/ Go(r, [tx[r] EXCEPT !.own[tx[r].token] = db[tx[r].token], !.pc = "handle"])
       \/ Go(r, [tx[r] EXCEPT !.pc = "handle"])

-----------------------------------------------------------------------------
(* The handlers, up to their flush.                                         *)

Change(r, key, loaded, now) ==
    Go(r, [tx[r] EXCEPT !.pc = "flush", !.key = key, !.loaded = loaded, !.now = now])

Start(r, op, key, loaded, now) ==
    /\ tx[r].pc = "idle"
    /\ Go(r, [Idle EXCEPT !.pc = "flush", !.op = op, !.key = key, !.loaded = loaded, !.now = now])

Handling(r, op) == tx[r].pc = "handle" /\ tx[r].op = op

Principal(r) == db[tx[r].token].user

AnyBarber(r, b) == b \in Barbers \cup {None}        \* mutant: not limited to the tenant

\* The barber to link, or none; one of another tenant is not found.
ResolveBarberLink(r, b) == b = None \/ BarberTenant[b] = tx[r].me.tenant

NewUser(tenant, r) ==
    [tenant |-> tenant, role |-> "admin", active |-> TRUE, name |-> r, barber |-> None]

\* The service returns the row of a registered email, of whatever tenant; the route changes it.
CreateTenantUser(r) ==
    /\ Handling(r, "create_user")
    /\ \E e \in Emails, role \in Roles, b \in Barbers \cup {None} :
        IF \/ ~CheckPermission(tx[r].me.role) \/ role \notin TenantAssignableRoles
           \/ ~ResolveBarberLink(r, b) \/ (role = "barber" /\ b = None)
        THEN End(r, "refused")
        ELSE Change(r, e, db[e],
                [(IF db[e] = None THEN NewUser(tx[r].me.tenant, r) ELSE db[e])
                    EXCEPT !.role = role, !.barber = b])

LinkKept(user, role, b) == user.barber         \* mutant: the link is not looked at

\* Asked for, or forced by the role; any other role without one loses its link.
LinkAfter(user, role, b) == IF b # None \/ role = "barber" THEN b ELSE None

UpdateTenantUser(r) ==
    /\ Handling(r, "update_user")
    /\ \E e \in Emails, role \in Roles \cup {None}, active \in BOOLEAN \cup {None},
          named \in BOOLEAN, b \in Barbers \cup {None} :
        LET user == db[e]
            effective == IF role = None THEN user.role ELSE role
        IN
        IF \/ ~CheckPermission(tx[r].me.role) \/ user = None \/ user.tenant # tx[r].me.tenant
           \/ role # None /\ e = Principal(r) /\ role # user.role
           \/ role \notin TenantAssignableRoles \cup {None}
           \/ ~ResolveBarberLink(r, b) \/ (effective = "barber" /\ b = None)
        THEN End(r, "refused")
        ELSE Change(r, e, user,
                [user EXCEPT !.role = effective, !.barber = LinkAfter(user, effective, b),
                             !.active = IF active = None THEN @ ELSE active,
                             !.name = IF named THEN r ELSE @])

\* The role is not looked at: a user with role barber may lose its link.
UpdateBarberLink(r) ==
    /\ Handling(r, "barber_link")
    /\ \E e \in Emails, b \in Barbers \cup {None} :
        IF \/ ~CheckPermission(tx[r].me.role) \/ db[e] = None
           \/ db[e].tenant # tx[r].me.tenant \/ ~ResolveBarberLink(r, b)
        THEN End(r, "refused")
        ELSE Change(r, e, db[e], [db[e] EXCEPT !.barber = b])

UpdateMe(r) ==
    /\ Handling(r, "update_me")
    /\ LET e == Principal(r) IN Change(r, e, db[e], [db[e] EXCEPT !.name = r])

\* A GET never commits: its last_used_at is rolled back.
Read(r) == Handling(r, "read") /\ End(r, "done")

LoginUnknown(r) ==          \* mutant: an unknown email is not refused
    \E e \in Emails, k \in Tokens :
        /\ db[e] # None => db[e].active
        /\ \A q \in Requests : View(q, k) = None /\ tx[q].key # k
        /\ Start(r, "login", k, None, [user |-> e, revoked |-> FALSE])

Login(r) ==
    \E e \in Emails, k \in Tokens :
        /\ db[e] # None /\ db[e].active
        /\ \A q \in Requests : View(q, k) = None /\ tx[q].key # k      \* a random token
        /\ Start(r, "login", k, None, [user |-> e, revoked |-> FALSE])

Logout(r) ==
    \E k \in Tokens :
        /\ db[k] # None /\ ~db[k].revoked
        /\ Start(r, "logout", k, db[k], [db[k] EXCEPT !.revoked = TRUE])

\* The superadmin names any role, and no barber.
CreateSuperadminUser(r) ==
    \E e \in Emails, tenant \in Tenants, role \in Roles :
        /\ db[tenant] # None
        /\ Start(r, "superadmin_user", e, db[e],
                [(IF db[e] = None THEN NewUser(tenant, r) ELSE db[e]) EXCEPT !.role = role])

\* A slug that is taken is 409.
NewTenant(r, status, settings) ==
    \E s \in Tenants :
        /\ db[s] = None
        /\ Start(r, "create_tenant", s, None, [status |-> status, settings |-> settings])

CreateTenant(r) == NewTenant(r, "trial", FALSE)
CreateSuperadminTenant(r) ==
    \E status \in Statuses, settings \in BOOLEAN : NewTenant(r, status, settings)

SetStatus(r, status) ==
    \E s \in Tenants :
        /\ db[s] # None
        /\ Start(r, "status", s, db[s], [db[s] EXCEPT !.status = status])

UpdateTenantStatus(r) == \E status \in Statuses : SetStatus(r, status)
SoftDeleteTenant(r) == SetStatus(r, "churned")

-----------------------------------------------------------------------------
(* The session's statements.                                                *)

MergedNothing(loaded, now, current) == current      \* mutant: the change is not noticed

\* Only the columns that differ from what was loaded are sent.
Merged(loaded, now, current) ==
    [c \in DOMAIN now |-> IF now[c] # loaded[c] THEN now[c] ELSE current[c]]

Insert(r) ==
    LET t == tx[r] IN
    /\ t.pc = "flush" /\ t.loaded = None /\ ~Locked(r, t.key)
    /\ IF db[t.key] # None THEN End(r, "failed")        \* IntegrityError: 409 or 500
       ELSE IF t.op = "create_tenant" /\ t.now.settings
       THEN Go(r, [t EXCEPT !.own[t.key] = [t.now EXCEPT !.settings = FALSE], !.pc = "settings"])
       ELSE Go(r, [t EXCEPT !.own[t.key] = t.now, !.pc = "commit"])

InsertSettings(r) ==
    /\ tx[r].pc = "settings"
    /\ Go(r, [tx[r] EXCEPT !.own[tx[r].key].settings = TRUE, !.pc = "commit"])

UpdateRow(r) ==
    LET t == tx[r] IN
    /\ t.pc = "flush" /\ t.loaded # None
    /\ IF t.now = t.loaded THEN Go(r, [t EXCEPT !.pc = "commit"])
       ELSE /\ ~Locked(r, t.key)
            /\ Go(r, [t EXCEPT !.own[t.key] = Merged(t.loaded, t.now, db[t.key]), !.pc = "commit"])

Audited(op) == op \in {"create_user", "update_user", "barber_link"}

Commit(r) ==
    /\ tx[r].pc = "commit"
    /\ db' = [x \in Keys |-> View(r, x)]
    /\ tx' = [q \in Requests |->
                IF q = r THEN [Idle EXCEPT !.pc = IF Audited(tx[r].op) THEN "stored" ELSE "done"]
                ELSE IF tx[q].pc \in HasRead THEN [tx[q] EXCEPT !.overtaken = TRUE]
                ELSE tx[q]]

WriteAudit(r) == tx[r].pc = "stored" /\ End(r, "done")

\* The process dies or the connection breaks.
Crash(r) ==
    \/ tx[r].pc \in Stages /\ End(r, "failed")
    \/ tx[r].pc = "stored" /\ End(r, "unaudited")

Route(r) ==
    \/ VerifyBearer(r) \/ Login(r) \/ Logout(r) \/ CreateSuperadminUser(r)
    \/ CreateTenant(r) \/ CreateSuperadminTenant(r) \/ UpdateTenantStatus(r) \/ SoftDeleteTenant(r)

Handler(r) ==
    \/ CreateTenantUser(r) \/ UpdateTenantUser(r) \/ UpdateBarberLink(r) \/ UpdateMe(r) \/ Read(r)

Statement(r) ==
    \/ UseToken(r) \/ Insert(r) \/ InsertSettings(r) \/ UpdateRow(r) \/ Commit(r) \/ WriteAudit(r)

Terminated == (\A r \in Requests : tx[r].pc \in Over) /\ UNCHANGED vars

Next == (\E r \in Requests : Route(r) \/ Handler(r) \/ Statement(r) \/ Crash(r)) \/ Terminated

Spec == Init /\ [][Next]_vars

-----------------------------------------------------------------------------
TypeOK ==
    /\ Database(db)
    /\ tx \in [Requests -> Session]

Commits(r) == tx[r].pc = "commit" /\ tx'[r].pc \in {"stored", "done"}

\* A user is linked to a barber of its own tenant.  The one way out is a create for an email
\* that another tenant registered: it changes that tenant's user.
Foreign(user) == user # None /\ user.barber # None /\ BarberTenant[user.barber] # user.tenant

LinkInTenant ==
    [][\A e \in Emails : Foreign(db'[e]) /\ ~Foreign(db[e]) =>
        \E r \in Requests : /\ Commits(r) /\ tx[r].op = "create_user" /\ tx[r].loaded # None
                            /\ tx[r].loaded.tenant # tx[r].me.tenant]_vars

\* A revoked token never works again: requests that were let in before the logout and write
\* its last_used_at after it leave the revocation alone.
RevokedStays ==
    [][\A k \in Tokens : db[k] # None /\ db[k].revoked => db'[k].revoked]_vars

\* "barber role requires a linked barber_id": a user with the role comes to have no link only
\* by PUT barber-link, by the superadmin's create, or by requests that overtook each other.
Unlinked(user) == user # None /\ user.role = "barber" /\ user.barber = None

BarberRoleLinked ==
    [][\A e \in Emails : Unlinked(db'[e]) /\ ~Unlinked(db[e]) =>
        \E r \in Requests : /\ Commits(r) /\ tx[r].key = e
                            /\ tx[r].op \in {"barber_link", "superadmin_user"} \/ tx[r].overtaken]_vars

\* The answer is the row in memory.  It is the committed row, all columns and a new tenant's
\* settings included, unless another request committed since the row was read.
AnsweredAsStored ==
    [][\A r \in Requests : Commits(r) /\ ~tx[r].overtaken => db'[tx[r].key] = tx[r].now]_vars
=============================================================================
