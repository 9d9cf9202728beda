----------------------------- MODULE CatalogImport -----------------------------
(***************************************************************************)
(* A tenant's services, barbers and weekly schedules, and who adds to      *)
(* them: the three pasted-sheet imports (a preview, then an apply of its   *)
(* lists by the client, perhaps a second time), the onboarding template,   *)
(* and the single-row routes.  Services are matched by code, barbers by    *)
(* name, schedules by barber, weekday and start; only the schedules have   *)
(* a unique constraint.  The schedules are those of one weekday, a sheet   *)
(* is the rows that parsing yields, and the columns an import compares are *)
(* one value.  A flush is one step: it waits for the rows and the slots it *)
(* needs, but two flushes cannot deadlock (ProviderConfigs has that).      *)
(***************************************************************************)
EXTENDS Naturals, FiniteSets, Sequences, Functions

CONSTANTS
    Requests,
    MaxRows,            \* bound on the rows ever created
    Keys, Values,       \* codes, names or starts; and what else a row holds
    Sheets,             \* the pasted contents
    InitialCatalogs,
    Template,           \* per kind, the rows of the onboarding template
    None, Gone

Ids == 1 .. MaxRows
Kinds == {"service", "barber", "schedule"}

\* of: the barber of a schedule row.
Row == [kind : Kinds, of : Ids \cup {None}, key : Keys, value : Values]

\* name: the barber's name in a schedule row; fault: what its validation finds, and whether
\* the preview's response model can still show the row.
Faults == {"valid", "invalid", "unshowable"}
SheetRow == [name : Keys, key : Keys, value : Values, fault : Faults]

\* Where a row may stand in a sheet or in the template; a list of an import is a set of these.
Positions == {1} \cup UNION {DOMAIN s : s \in Sheets \cup {Template[kind] : kind \in Kinds}}

Change == [key : Keys, value : Values]

Rows(c, kind) == {i \in Ids : c[i] \in Row /\ c[i].kind = kind}

\* A schedule has a barber, and no barber has two schedules that start together.
Sound(c) ==
    /\ \A i \in Rows(c, "schedule") : c[i].of \in Rows(c, "barber")
    /\ \A i, j \in Rows(c, "schedule") :
            i # j => <<c[i].of, c[i].key>> # <<c[j].of, c[j].key>>

\* The template has one schedule per weekday for a barber of its own.
ASSUME CatalogAssumption ==
    /\ MaxRows \in Nat
    /\ Sheets \subseteq Seq(SheetRow)
    /\ Template \in [Kinds -> Seq(SheetRow)]
    /\ \A s \in Range(Template["schedule"]) : \E b \in Range(Template["barber"]) : s.name = b.key
    /\ \A j, k \in DOMAIN Template["schedule"] :
            Template["schedule"][j].name = Template["schedule"][k].name => j = k
    /\ {None, Gone} \cap (Row \cup Ids \cup Change) = {} /\ None # Gone
    /\ \A c \in InitialCatalogs : c \in [Ids -> Row \cup {None, Gone}] /\ Sound(c)

VARIABLES
    catalog,    \* the committed rows
    tx          \* per request: where it is and what it holds

vars == <<catalog, tx>>

Stages == {"previewed", "template_barbers", "template_schedules", "flush", "commit", "stored"}
Over == {"done", "failed", "refused", "unaudited"}
\* create, update: the lists of the preview; barbers: what the names of the template stand
\* for; inserts, changes, remove: what the flush has to send; loaded: the rows as the session
\* read them; own: the rows written so far; overtaken: whether another request committed since
\* it began; again: whether the lists were applied before.
Request == [pc : {"idle"} \cup Stages \cup Over,
            op : {"import", "template", "create", "edit", "delete", None},
            kind : Kinds \cup {None}, sheet : Sheets \cup {<<>>},
            create : SUBSET Positions, update : SUBSET Positions,
            barbers : [Keys -> Ids \cup {None}],
            inserts : [Positions -> Row \cup {None}], remove : Ids \cup {None},
            changes : [Ids -> Change \cup {None}], loaded : [Ids -> Row \cup {None, Gone}],
            own : [Ids -> Row \cup {None, Gone}], overtaken : BOOLEAN, again : BOOLEAN]

Nothing == [i \in Ids |-> None]
NoInserts == [j \in Positions |-> None]
Idle == [pc |-> "idle", op |-> None, kind |-> None, sheet |-> <<>>, create |-> {},
         update |-> {}, barbers |-> [k \in Keys |-> None], inserts |-> NoInserts, remove |-> None,
         changes |-> Nothing, loaded |-> Nothing, own |-> Nothing, overtaken |-> FALSE,
         again |-> FALSE]

Init == catalog \in InitialCatalogs /\ tx = [r \in Requests |-> Idle]

-----------------------------------------------------------------------------
Named(c, kind, key) == {i \in Rows(c, kind) : c[i].key = key}
Slot(c, barber, key) == {i \in Named(c, "schedule", key) : c[i].of = barber}
View(r) == [i \in Ids |-> IF tx[r].own[i] # None THEN tx[r].own[i] ELSE catalog[i]]

Go(r, t) == tx' = [tx EXCEPT ![r] = t] /\ UNCHANGED catalog

\* Rollback, and the session closes; the client of an import keeps its lists.
Left(t, pc) ==
    IF t.op = "import" /\ ~t.again
    THEN [Idle EXCEPT !.pc = pc, !.op = t.op, !.kind = t.kind, !.sheet = t.sheet,
                      !.create = t.create, !.update = t.update]
    ELSE [Idle EXCEPT !.pc = pc]
End(r, pc) == Go(r, Left(tx[r], pc))

\* What a look-up dictionary of the listed rows may hold: of several rows with one key, the
\* one that was listed last, in no particular order.  Schedules are looked up by their barber.
Lookups(c, kind) ==
    LET listed == IF kind = "schedule" THEN "barber" ELSE kind IN
    {f \in [Keys -> Rows(c, listed) \cup {None}] :
        \A k \in Keys : IF Named(c, listed, k) = {} THEN f[k] = None ELSE f[k] \in Named(c, listed, k)}

MatchAnyBarber(c, kind, f, s) ==        \* mutant: the slot is looked up without its barber
    IF kind = "schedule"
    THEN IF Named(c, kind, s.key) = {} THEN None ELSE CHOOSE i \in Named(c, kind, s.key) : TRUE
    ELSE f[s.key]

\* The row that a sheet row matches, or None.
Match(c, kind, f, s) ==
    IF kind = "schedule"
    THEN IF Slot(c, f[s.name], s.key) = {} THEN None ELSE CHOOSE i \in Slot(c, f[s.name], s.key) : TRUE
    ELSE f[s.key]

\* The barber of a schedule row must be known.
Faulty(kind, f, s) == s.fault # "valid" \/ (kind = "schedule" /\ f[s.name] = None)

NewRow(kind, barber, s) ==
    [kind |-> kind, of |-> IF kind = "schedule" THEN barber ELSE None,
     key |-> s.key, value |-> s.value]

-----------------------------------------------------------------------------
(* The imports.                                                             *)

\* classify_rows: what is neither, is unchanged or invalid.
Creates(c, kind, f, s) == ~Faulty(kind, f, s) /\ Match(c, kind, f, s) = None
Updates(c, kind, f, s) ==
    /\ ~Faulty(kind, f, s) /\ Match(c, kind, f, s) # None
    /\ c[Match(c, kind, f, s)].value # s.value

\* An invalid row that the response model does not admit makes the whole preview fail.
Preview(r, kind) ==
    /\ tx[r].pc = "idle"
    /\ \E sheet \in Sheets, f \in Lookups(catalog, kind) :
        IF \E j \in DOMAIN sheet : sheet[j].fault = "unshowable" THEN End(r, "failed")
        ELSE Go(r, [Idle EXCEPT
                        !.pc = "previewed", !.op = "import", !.kind = kind, !.sheet = sheet,
                        !.create = {j \in DOMAIN sheet : Creates(catalog, kind, f, sheet[j])},
                        !.update = {j \in DOMAIN sheet : Updates(catalog, kind, f, sheet[j])}])

PreviewServicesImport(r) == Preview(r, "service")
PreviewBarbersImport(r) == Preview(r, "barber")
PreviewSchedulesImport(r) == Preview(r, "schedule")

\* The changes to the matched rows: of two sheet rows for one, the later.
Changes(c, t, f) ==
    LET To(i) == {j \in t.update : Match(c, t.kind, f, t.sheet[j]) = i}
        Last(i) == t.sheet[CHOOSE j \in To(i) : \A k \in To(i) : k <= j] IN
    [i \in Ids |-> IF To(i) = {} THEN None ELSE [key |-> Last(i).key, value |-> Last(i).value]]

\* Creates are inserted as they are, updates are matched again.
ApplyImport(r, kind) ==
    LET t == tx[r] IN
    /\ t.pc = "previewed" /\ t.kind = kind
    /\ IF t.create \cup t.update = {} THEN End(r, "refused")
       ELSE \E f \in Lookups(catalog, kind) :
            IF \/ \E j \in t.create \cup t.update : Faulty(kind, f, t.sheet[j])
               \/ \E j \in t.update : Match(catalog, kind, f, t.sheet[j]) = None
            THEN End(r, "refused")
            ELSE Go(r, [t EXCEPT !.pc = "flush", !.changes = Changes(catalog, t, f), !.loaded = catalog,
                            !.inserts = [j \in Positions |-> IF j \notin t.create THEN None
                                ELSE NewRow(kind, f[t.sheet[j].name], t.sheet[j])]])

ApplyServicesImport(r) == ApplyImport(r, "service")
ApplyBarbersImport(r) == ApplyImport(r, "barber")
ApplySchedulesImport(r) == ApplyImport(r, "schedule")

\* The client has no answer, or a failure, and sends the same lists again.
ApplyAgain(r) ==
    LET t == tx[r] IN
    /\ t.op = "import" /\ t.pc \in {"done", "failed", "unaudited"} /\ ~t.again
    /\ Go(r, [t EXCEPT !.pc = "previewed", !.again = TRUE])

-----------------------------------------------------------------------------
(* The template: services by code, barbers by name, schedules by barber and *)
(* weekday, each flushed before the next.                                   *)

MissingAtStart(kind, present) ==        \* mutant: what was just added is not remembered
    {j \in DOMAIN Template[kind] : Template[kind][j].key \notin present}

\* The template rows to add; a second one with the same code or name is skipped too.
Missing(kind, present) ==
    LET rows == Template[kind] IN
    {j \in DOMAIN rows : /\ rows[j].key \notin present
                         /\ \A k \in 1 .. j - 1 : rows[k].key # rows[j].key}

KeysOf(c, kind) == {c[i].key : i \in Rows(c, kind)}
Additions(c, kind) ==
    [j \in Positions |-> IF j \in Missing(kind, KeysOf(c, kind))
                         THEN NewRow(kind, None, Template[kind][j]) ELSE None]

ApplyTemplate(r) ==
    /\ tx[r].pc = "idle"
    /\ Go(r, [Idle EXCEPT !.pc = "flush", !.op = "template", !.kind = "service",
                          !.inserts = Additions(catalog, "service")])

\* Each barber that exists is looked up by name, which fails when there are two.
TemplateBarbers(r) ==
    LET t == tx[r]
        c == View(r)
        names == {s.key : s \in Range(Template["barber"])}
    IN
    /\ t.pc = "template_barbers"
    /\ IF \E k \in names : Cardinality(Named(c, "barber", k)) > 1 THEN End(r, "failed")
       ELSE Go(r, [t EXCEPT !.pc = "flush", !.kind = "barber",
                !.barbers = [k \in Keys |-> IF k \in names /\ Named(c, "barber", k) # {}
                                THEN CHOOSE i \in Named(c, "barber", k) : TRUE ELSE None],
                !.inserts = Additions(c, "barber")])

\* A barber with any schedule on the weekday is left alone; two of them make the look-up fail.
TemplateSchedules(r) ==
    LET t == tx[r]
        c == View(r)
        Barber(k) == IF t.barbers[k] # None THEN t.barbers[k]
                     ELSE CHOOSE i \in Named(t.own, "barber", k) : TRUE
        Of(b) == {i \in Rows(c, "schedule") : c[i].of = b}
        rows == Template["schedule"]
    IN
    /\ t.pc = "template_schedules"
    /\ IF \E s \in Range(rows) : Cardinality(Of(Barber(s.name))) > 1
       THEN End(r, "failed")
       ELSE Go(r, [t EXCEPT !.pc = "flush", !.kind = "schedule",
                !.inserts = [j \in Positions |->
                    IF j \in DOMAIN rows /\ Of(Barber(rows[j].name)) = {}
                    THEN NewRow("schedule", Barber(rows[j].name), rows[j]) ELSE None]])

-----------------------------------------------------------------------------
(* The single-row routes; barbers are never deleted.                        *)

Inserting(r, row) ==
    /\ tx[r].pc = "idle"
    /\ Go(r, [Idle EXCEPT !.pc = "flush", !.op = "create", !.inserts[1] = row])

CreateService(r) ==
    \E k \in Keys, v \in Values :
        Inserting(r, [kind |-> "service", of |-> None, key |-> k, value |-> v])
CreateBarber(r) ==
    \E k \in Keys, v \in Values :
        Inserting(r, [kind |-> "barber", of |-> None, key |-> k, value |-> v])
CreateSchedule(r) ==        \* of a barber of the tenant, or 404
    \E b \in Rows(catalog, "barber"), k \in Keys, v \in Values :
        Inserting(r, [kind |-> "schedule", of |-> b, key |-> k, value |-> v])

Editing(r, kind) ==
    /\ tx[r].pc = "idle"
    /\ \E i \in Rows(catalog, kind), to \in Change :
        Go(r, [Idle EXCEPT !.pc = "flush", !.op = "edit", !.loaded[i] = catalog[i], !.changes[i] = to])

UpdateService(r) == Editing(r, "service")
UpdateBarber(r) == Editing(r, "barber")
UpdateSchedule(r) == Editing(r, "schedule")

Deleting(r, i) == Go(r, [Idle EXCEPT !.pc = "flush", !.op = "delete", !.remove = i])

DeleteService(r) ==
    /\ tx[r].pc = "idle"
    /\ \E i \in Rows(catalog, "service") :
        \/ Deleting(r, i)
        \/ End(r, "refused")        \* in use by appointments: 409

DeleteSchedule(r) == tx[r].pc = "idle" /\ \E i \in Rows(catalog, "schedule") : Deleting(r, i)

-----------------------------------------------------------------------------
(* The flush and the commit.                                                *)

Others(r) == Requests \ {r}
Unused == {i \in Ids : catalog[i] = None /\ \A q \in Requests : tx[q].own[i] = None}

\* The rows a flush has an UPDATE or a DELETE for.
Touched(t) ==
    {i \in Ids : /\ t.changes[i] # None
                 /\ t.changes[i] # [key |-> t.loaded[i].key, value |-> t.loaded[i].value]}
    \cup ({t.remove} \cap Ids)

\* An UPDATE sets the columns that differ from the row as it was loaded.
Written(t, i) ==
    LET to == t.changes[i]
        was == t.loaded[i] IN
    IF i = t.remove \/ catalog[i] = Gone THEN Gone
    ELSE [catalog[i] EXCEPT !.key = IF to.key # was.key THEN to.key ELSE @,
                            !.value = IF to.value # was.value THEN to.value ELSE @]

\* Which of the ids not used yet the new rows get; one way stands for all.
Inserts(t) == {j \in Positions : t.inserts[j] # None}
Places(t) == Injection(Inserts(t), Unused)
Place(t) == CHOOSE place \in Places(t) : TRUE

\* Everything r has written once its flush is through.
Flushed(r) ==
    LET t == tx[r]
        place == Place(t) IN
    [i \in Ids |-> IF i \in Range(place)
                   THEN t.inserts[CHOOSE j \in Inserts(t) : place[j] = i]
                   ELSE IF i \in Touched(t) THEN Written(t, i) ELSE t.own[i]]

NoClash(rows, i, j) == FALSE        \* mutant: no unique constraint

\* uq_barber_schedule_slot
Clash(rows, i, j) ==
    /\ i # j /\ rows[i] \in Row /\ rows[j] \in Row
    /\ rows[i].kind = "schedule" /\ rows[j].kind = "schedule"
    /\ rows[i].of = rows[j].of /\ rows[i].key = rows[j].key

\* A row that another has changed, or a slot it takes or gives up, has to wait for its commit.
MustWait(r) ==
    LET new == Flushed(r) IN
    \E q \in Others(r), j \in Ids :
        /\ tx[q].own[j] # None
        /\ \/ j \in Touched(tx[r])
           \/ \E i \in Ids : new[i] # None
                /\ \/ Clash([new EXCEPT ![j] = tx[q].own[j]], i, j)
                   \/ Clash([new EXCEPT ![j] = catalog[j]], i, j)

FlushFails(r) ==
    LET new == Flushed(r)
        after == [i \in Ids |-> IF new[i] # None THEN new[i] ELSE catalog[i]] IN
    \/ \E i \in Touched(tx[r]) : catalog[i] = Gone              \* StaleDataError, or a 404
    \/ \E i, j \in Ids : new[i] # None /\ Clash(after, i, j)    \* IntegrityError

Flush(r) ==
    LET t == tx[r] IN
    /\ t.pc = "flush"
    /\ Places(t) # {}
    /\ ~MustWait(r)
    /\ IF FlushFails(r) THEN End(r, "failed")
       ELSE Go(r, [t EXCEPT !.own = Flushed(r), !.inserts = NoInserts, !.remove = None,
                !.changes = Nothing, !.loaded = Nothing,
                !.pc = IF t.op # "template" \/ t.kind = "schedule" THEN "commit"
                       ELSE IF t.kind = "service" THEN "template_barbers"
                       ELSE "template_schedules"])

\* An import and a template still have their audit entry to write, in a transaction of its own.
Commit(r) ==
    LET t == tx[r] IN
    /\ t.pc = "commit"
    /\ catalog' = View(r)
    /\ tx' = [q \in Requests |->
                IF q = r THEN IF t.op \in {"import", "template"}
                              THEN [t EXCEPT !.pc = "stored", !.own = Nothing]
                              ELSE Left(t, "done")
                ELSE IF tx[q].pc \in Stages THEN [tx[q] EXCEPT !.overtaken = TRUE]
                ELSE tx[q]]

Audit(r) == tx[r].pc = "stored" /\ End(r, "done")

Crash(r) ==
    /\ tx[r].pc \in Stages
    /\ End(r, IF tx[r].pc = "stored" THEN "unaudited" ELSE "failed")

Terminated == (\A r \in Requests : tx[r].pc \in Over) /\ UNCHANGED vars

Import(r) ==
    \/ PreviewServicesImport(r) \/ PreviewBarbersImport(r) \/ PreviewSchedulesImport(r)
    \/ ApplyServicesImport(r) \/ ApplyBarbersImport(r) \/ ApplySchedulesImport(r)
    \/ ApplyAgain(r)

Onboard(r) == ApplyTemplate(r) \/ TemplateBarbers(r) \/ TemplateSchedules(r)

SingleRow(r) ==
    \/ CreateService(r) \/ CreateBarber(r) \/ CreateSchedule(r)
    \/ UpdateService(r) \/ UpdateBarber(r) \/ UpdateSchedule(r)
    \/ DeleteService(r) \/ DeleteSchedule(r)

Statement(r) == Flush(r) \/ Commit(r) \/ Audit(r)

Next ==
    \/ \E r \in Requests : Import(r) \/ Onboard(r) \/ SingleRow(r) \/ Statement(r) \/ Crash(r)
    \/ Terminated

Spec == Init /\ [][Next]_vars

-----------------------------------------------------------------------------
(* The type invariant: rows and requests are well formed, a schedule has a *)
(* barber, and no barber has two schedules that start together, whichever  *)
(* of the routes, imports and templates wrote them.                        *)
TypeOK ==
    /\ catalog \in [Ids -> Row \cup {None, Gone}] /\ Sound(catalog)
    /\ tx \in [Requests -> Request]

Commits(r, op) == tx[r].op = op /\ tx[r].pc = "commit" /\ tx'[r].pc = "stored"

\* The rows that a row of the sheet t may stand for: its barber's name may be ambiguous.
Claimed(c, t, s) ==
    {i \in Named(c, t.kind, s.key) :
        t.kind = "schedule" => c[i].of \in Named(c, "barber", s.name)}

NamedOnce(t) ==
    \A j, k \in DOMAIN t.sheet : j # k =>
        \/ t.sheet[j].key # t.sheet[k].key
        \/ t.kind = "schedule" /\ t.sheet[j].name # t.sheet[k].name

\* Every valid row of the sheet is stored with its columns, in the row that was there or in
\* one new row, and every other row of the catalog is as before.
Settled(c, d, t) ==
    LET Known(s) == t.kind = "schedule" => Named(c, "barber", s.name) # {}
        Ambiguous(s) == t.kind = "schedule" /\ Cardinality(Named(c, "barber", s.name)) > 1
        valid == {s \in Range(t.sheet) : s.fault = "valid" /\ Known(s)}
    IN
    /\ \A s \in valid :
        /\ \E i \in Claimed(d, t, s) : d[i].value = s.value
        /\ \/ Ambiguous(s)
           \/ Cardinality(Claimed(d, t, s)) =
                IF Claimed(c, t, s) = {} THEN 1 ELSE Cardinality(Claimed(c, t, s))
    /\ \A i \in Ids : d[i] = c[i] \/ \E s \in valid : i \in Claimed(d, t, s)

\* An import that is applied with the catalog as it was previewed does what the preview told.
\* It is about a sheet that names nothing twice, and its first apply: the lists of an apply
\* are not checked against what was created since, so a second apply creates the services
\* and the barbers again.
ImportSettles ==
    [][\A r \in Requests :
        Commits(r, "import") /\ ~tx[r].overtaken /\ ~tx[r].again /\ NamedOnce(tx[r]) =>
            Settled(catalog, catalog', tx[r])]_vars

Added(c, d) == {i \in Ids : c[i] = None /\ d[i] # None}

\* Each code, name and barber's weekday of the template is there, and none that was there,
\* and none of its own, was added twice.
Complete(c, d) ==
    /\ \A kind \in {"service", "barber"} : \A s \in Range(Template[kind]) :
        Named(d, kind, s.key) # {}
    /\ \A s \in Range(Template["schedule"]) :
        \E i \in Rows(d, "schedule") : d[i].of \in Named(d, "barber", s.name)
    /\ \A i \in Added(c, d) : \A j \in Ids \ {i} :
        d[j] \in Row /\ d[j].kind = d[i].kind =>
            IF d[i].kind = "schedule" THEN d[j].of # d[i].of ELSE d[j].key # d[i].key

\* A template never changes a row that exists, and, with no commit of another in between, it
\* adds exactly what is missing.
TemplateOnlyAdds ==
    [][\A r \in Requests :
        Commits(r, "template") =>
            /\ \A i \in Ids \ Added(catalog, catalog') : catalog'[i] = catalog[i]
            /\ ~tx[r].overtaken => Complete(catalog, catalog')]_vars

=============================================================================
