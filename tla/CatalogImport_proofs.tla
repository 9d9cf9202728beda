------------------------ MODULE CatalogImport_proofs ------------------------
(***************************************************************************)
(* The catalog of a tenant, for any number of requests, rows, sheets and   *)
(* any template: its rows stay sound, a template adds what is missing, and *)
(* an import stores what its preview told.                                 *)
(***************************************************************************)
EXTENDS CatalogImport, FiniteSetTheorems, NaturalsInduction, WellFoundedInduction, TLAPS

-----------------------------------------------------------------------------
(* The inductive invariant.                                                 *)

\* What a request that has written own sees.
Seen(c, own) == [i \in Ids |-> IF own[i] # None THEN own[i] ELSE c[i]]

\* The unique constraint of the schedules, between two rows.
Conflict(a, b) ==
    /\ a \in Row /\ b \in Row /\ a.kind = "schedule" /\ b.kind = "schedule"
    /\ a.of = b.of /\ a.key = b.key

\* own can stand for the row c[i]: a new row, a change that leaves it what it is, or a delete.
Replaces(c, own, i) ==
    \/ c[i] = None /\ own[i] \in Row
    \/ /\ c[i] \in Row
       /\ \/ own[i] = Gone /\ c[i].kind # "barber"
          \/ own[i] \in Row /\ own[i].kind = c[i].kind /\ own[i].of = c[i].of

\* The pcs at which a request may have rows that are not committed, or be about to send some.
Writing == {"flush", "template_barbers", "template_schedules", "commit"}

\* What a request may hold at its stage.
Staged(t) ==
    /\ t.pc \notin Writing \/ (t.pc = "flush" /\ t.op # "template") => t.own = Nothing
    /\ t.pc \in {"template_barbers", "template_schedules"} => t.op = "template"
    /\ t.pc = "previewed" => t.op = "import"
    /\ t.op = "template" /\ t.pc = "flush" => t.kind \in Kinds
    /\ t.create \cup t.update \subseteq DOMAIN t.sheet

\* The rows it has written, and those it is about to, rest on rows that exist.
Grounded(c, t) ==
    /\ \A i \in Ids : t.own[i] # None => Replaces(c, t.own, i)
    /\ \A i \in Rows(t.own, "schedule") : t.own[i].of \in Rows(Seen(c, t.own), "barber")
    /\ \A j \in Inserts(t) :
        t.inserts[j].kind = "schedule" => t.inserts[j].of \in Rows(Seen(c, t.own), "barber")
    /\ \A k \in Keys : t.barbers[k] # None => t.barbers[k] \in Rows(Seen(c, t.own), "barber")
    /\ \A i \in Ids : t.changes[i] # None => c[i] # None
    /\ t.remove \in Ids => c[t.remove] # None /\ t.remove \notin Rows(c, "barber")

TemplateNames == {s.key : s \in Range(Template["barber"])}

\* A template knows a row for each of its barbers, or has just added one.
KnowsBarbers(t) ==
    \A k \in TemplateNames : t.op = "template" /\ t.barbers[k] = None =>
        /\ t.pc = "flush" /\ t.kind = "barber" =>
            \E j \in Inserts(t) : t.inserts[j].kind = "barber" /\ t.inserts[j].key = k
        /\ t.pc = "template_schedules" => Named(t.own, "barber", k) # {}

Fits(c, t) == Staged(t) /\ Grounded(c, t) /\ KnowsBarbers(t)

\* Nobody takes a slot that is taken.
Free(c, t) ==
    \A i, j \in Ids : i # j => ~Conflict(Seen(c, t.own)[i], Seen(c, t.own)[j])

\* The waits: no two requests have written one row, or two rows for one slot.
Apart ==
    \A q, r \in Requests : q # r =>
        \A i, j \in Ids : tx[q].own[i] # None /\ tx[r].own[j] # None =>
            i # j /\ ~Conflict(tx[q].own[i], tx[r].own[j])

Inv ==
    /\ TypeOK
    /\ \A r \in Requests : Fits(catalog, tx[r]) /\ Free(catalog, tx[r])
    /\ Apart

-----------------------------------------------------------------------------
(* What the constants and the fields are.                                   *)

LEMMA Distinct ==
  /\ None \notin Row /\ None \notin Ids /\ None \notin Change /\ None # Gone
  /\ Gone \notin Row /\ Gone \notin Ids
  BY CatalogAssumption

LEMMA SheetRows ==
  ASSUME NEW sheet \in Sheets \cup {<<>>}
  PROVE  /\ DOMAIN sheet \subseteq Positions
         /\ \A j \in DOMAIN sheet : sheet[j] \in SheetRow /\ j \in Nat
<1>1. CASE sheet \in Sheets
  <2>1. sheet \in Seq(SheetRow)
    BY <1>1, CatalogAssumption
  <2>2. DOMAIN sheet \subseteq Positions
    BY <1>1 DEF Positions
  <2>3. \A j \in DOMAIN sheet : sheet[j] \in SheetRow /\ j \in Nat
    BY <2>1
  <2> QED
    BY <2>2, <2>3
<1>2. CASE sheet = <<>>
  BY <1>2
<1> QED
  BY <1>1, <1>2

LEMMA TemplateRows ==
  ASSUME NEW kind \in Kinds
  PROVE  /\ DOMAIN Template[kind] \subseteq Positions
         /\ \A j \in DOMAIN Template[kind] : Template[kind][j] \in SheetRow /\ j \in Nat
         /\ \E n \in Nat : DOMAIN Template[kind] = 1 .. n
<1>1. Template[kind] \in Seq(SheetRow)
  BY CatalogAssumption
<1>2. DOMAIN Template[kind] \subseteq Positions
  BY DEF Positions
<1>3. DOMAIN Template[kind] = 1 .. Len(Template[kind]) /\ Len(Template[kind]) \in Nat
  BY <1>1
<1>4. \A j \in DOMAIN Template[kind] : Template[kind][j] \in SheetRow /\ j \in Nat
  BY <1>1
<1> QED
  BY <1>2, <1>3, <1>4

LEMMA NamesAreKeys ==
  /\ TemplateNames \subseteq Keys
  /\ \A s \in Range(Template["schedule"]) : s.name \in TemplateNames
<1>1. \A s \in Range(Template["barber"]) : s.key \in Keys
  BY TemplateRows DEF Range, Kinds, SheetRow
<1>2. TemplateNames \subseteq Keys
  BY <1>1 DEF TemplateNames
<1>3. \A s \in Range(Template["schedule"]) : s.name \in TemplateNames
  BY CatalogAssumption DEF TemplateNames
<1> QED
  BY <1>2, <1>3

LEMMA SheetRowFields ==
  ASSUME NEW s \in SheetRow
  PROVE  s.name \in Keys /\ s.key \in Keys /\ s.value \in Values
  BY DEF SheetRow

LEMMA NewRowType ==
  ASSUME NEW kind \in Kinds, NEW s \in SheetRow, NEW barber,
         kind = "schedule" => barber \in Ids
  PROVE  /\ NewRow(kind, barber, s) \in Row
         /\ NewRow(kind, barber, s).kind = kind /\ NewRow(kind, barber, s).key = s.key
         /\ NewRow(kind, barber, s).value = s.value
         /\ kind = "schedule" => NewRow(kind, barber, s).of = barber
  BY SheetRowFields DEF NewRow, Row

\* A set of numbers that is not empty has a first element, and a last if it is finite.
LEMMA First ==
  ASSUME NEW T \in SUBSET Nat, T # {}
  PROVE  \E x \in T : \A y \in T : x <= y
<1>1. PICK x \in T : \A y \in T : ~ (<<y, x>> \in OpToRel(<, Nat))
  BY NatLessThanWellFounded, WFMin
<1>2. \A y \in T : x <= y
  <2> TAKE y \in T
  <2>1. ~(y < x)
    BY <1>1 DEF OpToRel
  <2> QED
    BY <2>1
<1> QED
  BY <1>2

LEMMA Latest ==
  ASSUME NEW n \in Nat, NEW T \in SUBSET (1 .. n), T # {}
  PROVE  \E x \in T : \A y \in T : y <= x
<1> DEFINE U == {n - x : x \in T}
<1>6. \A x \in T : x \in Nat /\ n - x \in Nat
  OBVIOUS
<1>1. U \subseteq Nat
  BY <1>6
<1>5. U # {}
  OBVIOUS
<1>2. PICK u \in U : \A y \in U : u <= y
  <2> HIDE DEF U
  <2> QED
    BY <1>1, <1>5, First
<1>3. PICK x \in T : u = n - x
  BY <1>2
<1>4. \A y \in T : y <= x
  <2> TAKE y \in T
  <2>1. n - y \in U
    OBVIOUS
  <2> QED
    BY <1>2, <1>3, <2>1
<1> QED
  BY <1>4

-----------------------------------------------------------------------------
(* Steps of one request that write nothing.                                 *)

LEMMA IdleType ==
  /\ Idle \in Request /\ Nothing \in [Ids -> Row \cup {None, Gone}]
  /\ Idle.own = Nothing /\ Idle.changes = Nothing /\ Idle.inserts = NoInserts
  /\ Idle.remove = None /\ Idle.create = {} /\ Idle.update = {} /\ Idle.pc = "idle"
  /\ Idle.op = None /\ \A k \in Keys : Idle.barbers[k] = None
<1>1. Idle.own = Nothing /\ Idle.changes = Nothing /\ Idle.inserts = NoInserts
      /\ Idle.remove = None /\ Idle.create = {} /\ Idle.update = {} /\ Idle.pc = "idle"
      /\ Idle.op = None /\ \A k \in Keys : Idle.barbers[k] = None
  BY DEF Idle
<1>2. Nothing \in [Ids -> Row \cup {None, Gone}] /\ Nothing \in [Ids -> Change \cup {None}]
  BY DEF Nothing
<1>3. NoInserts \in [Positions -> Row \cup {None}]
  BY DEF NoInserts
<1>4. Idle \in Request
  BY <1>2, <1>3 DEF Idle, Request
<1> QED
  BY <1>1, <1>2, <1>4

\* The rows and changes of a request that has none.
LEMMA EmptyHanded ==
  /\ \A i \in Ids : Nothing[i] = None
  /\ \A t : t.inserts = NoInserts => Inserts(t) = {}
  /\ \A c : Seen(c, Nothing) = [i \in Ids |-> c[i]]
  /\ Rows(Nothing, "schedule") = {}
<1>1. \A i \in Ids : Nothing[i] = None
  BY DEF Nothing
<1>2. ASSUME NEW t, t.inserts = NoInserts
      PROVE  Inserts(t) = {}
  BY <1>2 DEF Inserts, NoInserts
<1>3. \A c : Seen(c, Nothing) = [i \in Ids |-> c[i]]
  BY <1>1 DEF Seen
<1>4. Rows(Nothing, "schedule") = {}
  BY <1>1, Distinct DEF Rows
<1> QED
  BY <1>1, <1>2, <1>3, <1>4

\* A request that has written nothing and has nothing to send but what is given here.
LEMMA FreshGrounded ==
  ASSUME NEW c, NEW t, t.own = Nothing, \A k \in Keys : t.barbers[k] = None,
         \A j \in Inserts(t) :
            t.inserts[j].kind = "schedule" => t.inserts[j].of \in Rows(c, "barber"),
         \A i \in Ids : t.changes[i] # None => c[i] # None,
         t.remove \in Ids => c[t.remove] # None /\ t.remove \notin Rows(c, "barber")
  PROVE  Grounded(c, t)
<1>1. Rows(Seen(c, Nothing), "barber") = Rows(c, "barber")
  BY EmptyHanded DEF Rows
<1>2. Rows(t.own, "schedule") = {} /\ \A i \in Ids : t.own[i] = None
  BY EmptyHanded
<1> QED
  BY <1>1, <1>2 DEF Grounded

LEMMA FreeAtStart ==
  ASSUME NEW c, Sound(c), NEW t, t.own = Nothing
  PROVE  Free(c, t)
<1> SUFFICES ASSUME NEW i \in Ids, NEW j \in Ids, i # j,
                    Conflict(Seen(c, t.own)[i], Seen(c, t.own)[j])
             PROVE  FALSE
  BY DEF Free
<1>1. Conflict(c[i], c[j])
  BY EmptyHanded
<1>2. i \in Rows(c, "schedule") /\ j \in Rows(c, "schedule")
  BY <1>1 DEF Conflict, Rows
<1> QED
  BY <1>1, <1>2 DEF Sound, Conflict

LEMMA GoKeeps ==
  ASSUME Inv, NEW r \in Requests, NEW t \in Request, Fits(catalog, t),
         t.own = tx[r].own \/ t.own = Nothing, Go(r, t)
  PROVE  Inv'
<1>1. catalog' = catalog /\ tx' = [tx EXCEPT ![r] = t]
  BY DEF Go
<1>2. /\ tx \in [Requests -> Request] /\ Sound(catalog)
      /\ catalog \in [Ids -> Row \cup {None, Gone}]
  BY DEF Inv, TypeOK
<1>3. tx'[r] = t /\ \A q \in Requests \ {r} : tx'[q] = tx[q]
  BY <1>1, <1>2
<1>4. TypeOK'
  BY <1>1, <1>2 DEF TypeOK
<1>5. Free(catalog, t)
  <2>1. CASE t.own = Nothing
    BY <1>2, <2>1, FreeAtStart
  <2>2. CASE t.own = tx[r].own
    BY <2>2 DEF Inv, Free
  <2> QED
    BY <2>1, <2>2
<1>6. \A q \in Requests : Fits(catalog, tx'[q]) /\ Free(catalog, tx'[q])
  BY <1>3, <1>5 DEF Inv
<1>7. ASSUME NEW q \in Requests, NEW p \in Requests, q # p, NEW i \in Ids, NEW j \in Ids,
             tx'[q].own[i] # None, tx'[p].own[j] # None
      PROVE  i # j /\ ~Conflict(tx'[q].own[i], tx'[p].own[j])
  <2>1. \A o \in Requests, k \in Ids : tx'[o].own[k] # None => tx'[o].own = tx[o].own
    BY <1>3, EmptyHanded
  <2> QED
    BY <1>7, <2>1 DEF Inv, Apart
<1> QED
  BY <1>1, <1>4, <1>6, <1>7 DEF Inv, Apart

LEMMA LeftType ==
  ASSUME NEW t \in Request, NEW pc \in Over
  PROVE  /\ Left(t, pc) \in Request /\ Left(t, pc).own = Nothing /\ Left(t, pc).pc = pc
         /\ Left(t, pc).changes = Nothing /\ Left(t, pc).inserts = NoInserts
         /\ Left(t, pc).remove = None /\ \A k \in Keys : Left(t, pc).barbers[k] = None
         /\ Left(t, pc).create \cup Left(t, pc).update \subseteq t.create \cup t.update
         /\ Left(t, pc).sheet = t.sheet \/ Left(t, pc).create \cup Left(t, pc).update = {}
<1>1. CASE t.op = "import" /\ ~t.again
  <2>1. Left(t, pc) = [Idle EXCEPT !.pc = pc, !.op = t.op, !.kind = t.kind, !.sheet = t.sheet,
                                   !.create = t.create, !.update = t.update]
    BY <1>1 DEF Left
  <2> PICK u : u = Left(t, pc)
    OBVIOUS
  <2>2. u \in Request
    BY <2>1, IdleType, ZenonT(30) DEF Request
  <2>3. /\ u.own = Nothing /\ u.pc = pc /\ u.changes = Nothing /\ u.inserts = NoInserts
        /\ u.remove = None /\ u.barbers = Idle.barbers
        /\ u.create = t.create /\ u.update = t.update /\ u.sheet = t.sheet
    BY <2>1, IdleType DEF Request
  <2> QED
    BY <2>2, <2>3, IdleType
<1>2. CASE ~(t.op = "import" /\ ~t.again)
  <2>1. Left(t, pc) = [Idle EXCEPT !.pc = pc]
    BY <1>2 DEF Left
  <2> PICK u : u = Left(t, pc)
    OBVIOUS
  <2>2. u \in Request
    BY <2>1, IdleType, ZenonT(30) DEF Request
  <2>3. /\ u.own = Nothing /\ u.pc = pc /\ u.changes = Nothing /\ u.inserts = NoInserts
        /\ u.remove = None /\ u.barbers = Idle.barbers /\ u.create = {} /\ u.update = {}
    BY <2>1, IdleType DEF Request
  <2> QED
    BY <2>2, <2>3, IdleType
<1> QED
  BY <1>1, <1>2

LEMMA LeftFits ==
  ASSUME NEW c, NEW t \in Request, t.create \cup t.update \subseteq DOMAIN t.sheet,
         NEW pc \in Over
  PROVE  Fits(c, Left(t, pc))
<1> DEFINE u == Left(t, pc)
<1>1. /\ u.own = Nothing /\ u.pc = pc /\ u.changes = Nothing /\ u.inserts = NoInserts
      /\ u.remove = None /\ \A k \in Keys : u.barbers[k] = None
      /\ u.create \cup u.update \subseteq DOMAIN u.sheet
  BY LeftType
<1>2. pc \notin Writing
  BY DEF Over, Writing
<1> HIDE DEF u
<1>3. Grounded(c, u)
  BY <1>1, EmptyHanded, FreshGrounded, Distinct
<1>4. Staged(u)
  BY <1>1, <1>2 DEF Staged, Writing, Over
<1>5. KnowsBarbers(u)
  BY <1>1, <1>2 DEF KnowsBarbers, Writing
<1>6. Fits(c, u)
  BY <1>3, <1>4, <1>5 DEF Fits
<1> QED
  BY <1>6 DEF u

LEMMA EndKeeps ==
  ASSUME Inv, NEW r \in Requests, NEW pc \in Over, End(r, pc)
  PROVE  Inv'
<1>1. tx[r] \in Request /\ tx[r].create \cup tx[r].update \subseteq DOMAIN tx[r].sheet
  BY DEF Inv, TypeOK, Fits, Staged
<1> QED
  BY <1>1, LeftType, LeftFits, GoKeeps DEF End

-----------------------------------------------------------------------------
(* Where a request begins.                                                  *)

LEMMA BeginKeeps ==
  ASSUME Inv, NEW r \in Requests, NEW t \in Request, Go(r, t), Staged(t), KnowsBarbers(t),
         t.own = Nothing, \A k \in Keys : t.barbers[k] = None,
         \A j \in Inserts(t) :
            t.inserts[j].kind = "schedule" => t.inserts[j].of \in Rows(catalog, "barber"),
         \A i \in Ids : t.changes[i] # None => catalog[i] # None,
         t.remove \in Ids => catalog[t.remove] # None /\ t.remove \notin Rows(catalog, "barber")
  PROVE  Inv'
<1>1. Grounded(catalog, t)
  BY FreshGrounded
<1> QED
  BY <1>1, GoKeeps DEF Fits

LEMMA PreviewKeeps ==
  ASSUME Inv, NEW r \in Requests, NEW kind \in Kinds, Preview(r, kind)
  PROVE  Inv'
<1>1. CASE End(r, "failed")
  BY <1>1, EndKeeps DEF Over
<1>2. ASSUME NEW sheet \in Sheets, NEW create \in SUBSET DOMAIN sheet,
             NEW update \in SUBSET DOMAIN sheet,
             Go(r, [Idle EXCEPT !.pc = "previewed", !.op = "import", !.kind = kind,
                                !.sheet = sheet, !.create = create, !.update = update])
      PROVE  Inv'
  <2> DEFINE t == [Idle EXCEPT !.pc = "previewed", !.op = "import", !.kind = kind,
                               !.sheet = sheet, !.create = create, !.update = update]
  <2>1. create \subseteq Positions /\ update \subseteq Positions
    BY SheetRows
  <2>2. t \in Request
    BY <2>1, IdleType DEF Request, Stages
  <2>3. /\ t.own = Nothing /\ \A k \in Keys : t.barbers[k] = None
        /\ t.inserts = NoInserts /\ t.changes = Nothing /\ t.remove = None
        /\ t.pc = "previewed" /\ t.op = "import" /\ t.create = create /\ t.update = update
        /\ t.sheet = sheet
    BY IdleType DEF Request
  <2>4. Go(r, t)
    BY <1>2
  <2> HIDE DEF t
  <2>5. Staged(t) /\ KnowsBarbers(t)
    BY <2>3 DEF Staged, KnowsBarbers, Writing
  <2> QED
    BY <2>2, <2>3, <2>4, <2>5, EmptyHanded, Distinct, BeginKeeps
<1>3. PICK sheet \in Sheets, f \in Lookups(catalog, kind) :
        \/ End(r, "failed")
        \/ Go(r, [Idle EXCEPT !.pc = "previewed", !.op = "import", !.kind = kind,
                    !.sheet = sheet,
                    !.create = {j \in DOMAIN sheet : Creates(catalog, kind, f, sheet[j])},
                    !.update = {j \in DOMAIN sheet : Updates(catalog, kind, f, sheet[j])}])
  BY DEF Preview
<1> DEFINE create == {j \in DOMAIN sheet : Creates(catalog, kind, f, sheet[j])}
           update == {j \in DOMAIN sheet : Updates(catalog, kind, f, sheet[j])}
<1>4. create \in SUBSET DOMAIN sheet /\ update \in SUBSET DOMAIN sheet
  OBVIOUS
<1>5. \/ End(r, "failed")
      \/ Go(r, [Idle EXCEPT !.pc = "previewed", !.op = "import", !.kind = kind,
                            !.sheet = sheet, !.create = create, !.update = update])
  BY <1>3
<1> HIDE DEF create, update
<1> QED
  BY <1>1, <1>2, <1>4, <1>5

LEMMA InsertingKeeps ==
  ASSUME Inv, NEW r \in Requests, NEW row \in Row, Inserting(r, row),
         row.kind = "schedule" => row.of \in Rows(catalog, "barber")
  PROVE  Inv'
<1> DEFINE t == [Idle EXCEPT !.pc = "flush", !.op = "create", !.inserts[1] = row]
<1>1. 1 \in Positions
  BY DEF Positions
<1>2. t.inserts = [NoInserts EXCEPT ![1] = row]
  BY DEF Idle
<1>3. \A j \in Positions : t.inserts[j] = IF j = 1 THEN row ELSE None
  BY <1>1, <1>2 DEF NoInserts
<1>4. t.inserts \in [Positions -> Row \cup {None}]
  BY <1>1, <1>2 DEF NoInserts
<1>5. t \in Request
  BY <1>4, IdleType DEF Request, Stages
<1>6. /\ t.own = Nothing /\ \A k \in Keys : t.barbers[k] = None
      /\ t.changes = Nothing /\ t.remove = None /\ t.pc = "flush" /\ t.op = "create"
      /\ t.create = {} /\ t.update = {}
  BY IdleType DEF Request
<1>7. Go(r, t)
  BY DEF Inserting
<1> HIDE DEF t
<1>8. Staged(t) /\ KnowsBarbers(t)
  BY <1>6 DEF Staged, KnowsBarbers, Writing
<1>9. \A j \in Inserts(t) :
        t.inserts[j].kind = "schedule" => t.inserts[j].of \in Rows(catalog, "barber")
  BY <1>3 DEF Inserts
<1> QED
  BY <1>5, <1>6, <1>7, <1>8, <1>9, EmptyHanded, Distinct, BeginKeeps

LEMMA EditingKeeps ==
  ASSUME Inv, NEW r \in Requests, NEW kind \in Kinds, Editing(r, kind)
  PROVE  Inv'
<1>1. PICK i \in Rows(catalog, kind), to \in Change :
        Go(r, [Idle EXCEPT !.pc = "flush", !.op = "edit", !.loaded[i] = catalog[i],
                           !.changes[i] = to])
  BY DEF Editing
<1> DEFINE t == [Idle EXCEPT !.pc = "flush", !.op = "edit", !.loaded[i] = catalog[i],
                             !.changes[i] = to]
<1>2. i \in Ids /\ catalog[i] \in Row
  BY DEF Rows
<1>3. t.changes = [Nothing EXCEPT ![i] = to] /\ t.loaded = [Nothing EXCEPT ![i] = catalog[i]]
  BY DEF Idle
<1>4. t.changes \in [Ids -> Change \cup {None}] /\ t.loaded \in [Ids -> Row \cup {None, Gone}]
  <2>1. [Nothing EXCEPT ![i] = to] \in [Ids -> Change \cup {None}]
    BY <1>2 DEF Nothing
  <2>2. [Nothing EXCEPT ![i] = catalog[i]] \in [Ids -> Row \cup {None, Gone}]
    BY <1>2 DEF Nothing
  <2> QED
    BY <1>3, <2>1, <2>2
<1>5. \A j \in Ids : t.changes[j] = IF j = i THEN to ELSE None
  BY <1>2, <1>3 DEF Nothing
<1>6. t \in Request
  BY <1>4, IdleType, ZenonT(30) DEF Request, Stages
<1>7. /\ t.own = Nothing /\ \A k \in Keys : t.barbers[k] = None
      /\ t.inserts = NoInserts /\ t.remove = None /\ t.pc = "flush" /\ t.op = "edit"
      /\ t.create = {} /\ t.update = {}
  BY IdleType DEF Request
<1>8. Go(r, t)
  BY <1>1
<1> HIDE DEF t
<1>9. Staged(t) /\ KnowsBarbers(t)
  BY <1>7 DEF Staged, KnowsBarbers, Writing
<1>10. \A j \in Ids : t.changes[j] # None => catalog[j] # None
  BY <1>2, <1>5, Distinct
<1> QED
  BY <1>6, <1>7, <1>8, <1>9, <1>10, EmptyHanded, Distinct, BeginKeeps

LEMMA DeletingKeeps ==
  ASSUME Inv, NEW r \in Requests,
         NEW i \in Rows(catalog, "service") \cup Rows(catalog, "schedule"), Deleting(r, i)
  PROVE  Inv'
<1> DEFINE t == [Idle EXCEPT !.pc = "flush", !.op = "delete", !.remove = i]
<1>1. i \in Ids /\ catalog[i] \in Row /\ i \notin Rows(catalog, "barber")
  BY DEF Rows
<1>2. t \in Request
  BY <1>1, IdleType DEF Request, Stages
<1>3. /\ t.own = Nothing /\ \A k \in Keys : t.barbers[k] = None
      /\ t.changes = Nothing /\ t.inserts = NoInserts /\ t.remove = i /\ t.pc = "flush" /\ t.op = "delete"
      /\ t.create = {} /\ t.update = {}
  BY IdleType DEF Request
<1>4. Go(r, t)
  BY DEF Deleting
<1> HIDE DEF t
<1>5. Staged(t) /\ KnowsBarbers(t)
  BY <1>3 DEF Staged, KnowsBarbers, Writing
<1>6. catalog[t.remove] # None /\ t.remove \notin Rows(catalog, "barber")
  BY <1>1, <1>3, Distinct
<1>7. Inserts(t) = {} /\ \A j \in Ids : t.changes[j] = None
  BY <1>3, EmptyHanded
<1> QED
  BY <1>2, <1>3, <1>4, <1>5, <1>6, <1>7, BeginKeeps

-----------------------------------------------------------------------------
(* What an import looks up.                                                 *)

LEMMA LookupRows ==
  ASSUME NEW c, NEW kind \in Kinds, NEW f \in Lookups(c, kind), NEW k \in Keys
  PROVE  /\ f[k] = None \/ f[k] \in Ids
         /\ kind = "schedule" =>
                IF Named(c, "barber", k) = {} THEN f[k] = None ELSE f[k] \in Named(c, "barber", k)
         /\ kind # "schedule" =>
                IF Named(c, kind, k) = {} THEN f[k] = None ELSE f[k] \in Named(c, kind, k)
<1> DEFINE listed == IF kind = "schedule" THEN "barber" ELSE kind
<1>1. f \in [Keys -> Rows(c, listed) \cup {None}]
  BY DEF Lookups
<1>2. IF Named(c, listed, k) = {} THEN f[k] = None ELSE f[k] \in Named(c, listed, k)
  BY DEF Lookups
<1>3. f[k] = None \/ f[k] \in Ids
  BY <1>1 DEF Rows
<1> QED
  BY <1>2, <1>3

\* A sheet row matches a row of its kind and key, and of its barber if it is a schedule.
LEMMA MatchRow ==
  ASSUME NEW c, NEW kind \in Kinds, NEW f \in Lookups(c, kind), NEW s \in SheetRow
  PROVE  \/ Match(c, kind, f, s) = None
         \/ /\ Match(c, kind, f, s) \in Named(c, kind, s.key)
            /\ Match(c, kind, f, s) \in Ids /\ c[Match(c, kind, f, s)] \in Row
            /\ kind = "schedule" => c[Match(c, kind, f, s)].of = f[s.name]
<1>1. s.key \in Keys /\ s.name \in Keys
  BY SheetRowFields
<1>2. CASE kind = "schedule"
  <2> DEFINE slot == Slot(c, f[s.name], s.key)
  <2>1. Match(c, kind, f, s) = IF slot = {} THEN None ELSE CHOOSE i \in slot : TRUE
    BY <1>2 DEF Match
  <2>2. CASE slot = {}
    BY <2>1, <2>2
  <2>3. CASE slot # {}
    <3> HIDE DEF slot
    <3>1. Match(c, kind, f, s) \in slot
      BY <2>1, <2>3
    <3> QED
      BY <1>2, <3>1 DEF slot, Slot, Named, Rows
  <2> QED
    BY <2>2, <2>3
<1>3. CASE kind # "schedule"
  <2>1. Match(c, kind, f, s) = f[s.key]
    BY <1>3 DEF Match
  <2>2. f[s.key] = None \/ f[s.key] \in Named(c, kind, s.key)
    BY <1>1, <1>3, LookupRows
  <2> QED
    BY <1>3, <2>1, <2>2 DEF Named, Rows
<1> QED
  BY <1>2, <1>3

\* A changed row is one that an update matches, and takes the columns of the latest that does.
LEMMA ChangesAre ==
  ASSUME NEW c, NEW t \in Request, t.kind \in Kinds, t.update \subseteq DOMAIN t.sheet,
         NEW f \in Lookups(c, t.kind)
  PROVE  /\ Changes(c, t, f) \in [Ids -> Change \cup {None}]
         /\ \A i \in Ids : Changes(c, t, f)[i] # None =>
                /\ c[i] \in Row
                /\ \E j \in t.update : /\ Match(c, t.kind, f, t.sheet[j]) = i
                                       /\ Changes(c, t, f)[i] = [key |-> t.sheet[j].key,
                                                                 value |-> t.sheet[j].value]
         /\ \A i \in Ids, j \in t.update :
                Match(c, t.kind, f, t.sheet[j]) = i => Changes(c, t, f)[i] # None
<1> DEFINE To(i) == {j \in t.update : Match(c, t.kind, f, t.sheet[j]) = i}
           Chosen(i) == CHOOSE j \in To(i) : \A k \in To(i) : k <= j
           Column(j) == [key |-> t.sheet[j].key, value |-> t.sheet[j].value]
<1>1. Changes(c, t, f) = [i \in Ids |-> IF To(i) = {} THEN None ELSE Column(Chosen(i))]
  BY DEF Changes
<1>2. t.sheet \in Sheets \cup {<<>>}
  BY DEF Request
<1>3. \A j \in t.update : t.sheet[j] \in SheetRow
  BY <1>2, SheetRows
<1>4. \A j \in t.update : Column(j) \in Change
  BY <1>3, SheetRowFields DEF Change
<1>5. ASSUME NEW i \in Ids, To(i) # {}
      PROVE  Chosen(i) \in To(i)
  <2>0. <<>> \in Seq(SheetRow)
    OBVIOUS
  <2>1. t.sheet \in Seq(SheetRow)
    BY <1>2, <2>0, CatalogAssumption
  <2>2. DOMAIN t.sheet = 1 .. Len(t.sheet) /\ Len(t.sheet) \in Nat
    BY <2>1
  <2>3. To(i) \in SUBSET (1 .. Len(t.sheet))
    BY <2>2
  <2> HIDE DEF To
  <2>4. \E j \in To(i) : \A k \in To(i) : k <= j
    BY <1>5, <2>2, <2>3, Latest
  <2> QED
    BY <2>4
<1>6. ASSUME NEW i \in Ids
      PROVE  Changes(c, t, f)[i] = IF To(i) = {} THEN None ELSE Column(Chosen(i))
  BY <1>1
<1>7. ASSUME NEW i \in Ids, To(i) # {}
      PROVE  Chosen(i) \in t.update /\ Match(c, t.kind, f, t.sheet[Chosen(i)]) = i
             /\ Column(Chosen(i)) \in Change
  BY <1>4, <1>5, <1>7
<1>8. Changes(c, t, f) \in [Ids -> Change \cup {None}]
  <2> HIDE DEF To, Column, Chosen
  <2> QED
    BY <1>1, <1>7
<1>9. ASSUME NEW i \in Ids, Changes(c, t, f)[i] # None
      PROVE  /\ c[i] \in Row
             /\ \E j \in t.update : /\ Match(c, t.kind, f, t.sheet[j]) = i
                                    /\ Changes(c, t, f)[i] = Column(j)
  <2>1. To(i) # {}
    BY <1>6, <1>9
  <2>2. Changes(c, t, f)[i] = Column(Chosen(i))
    BY <1>6, <2>1
  <2>3. Chosen(i) \in t.update /\ Match(c, t.kind, f, t.sheet[Chosen(i)]) = i
    BY <1>7, <2>1
  <2>4. c[i] \in Row
    BY <1>3, <2>3, MatchRow, Distinct, ZenonT(30)
  <2> HIDE DEF Chosen, Column
  <2> QED
    BY <2>2, <2>3, <2>4
<1>10. ASSUME NEW i \in Ids, NEW j \in t.update, Match(c, t.kind, f, t.sheet[j]) = i
       PROVE  Changes(c, t, f)[i] # None
  <2>1. To(i) # {}
    BY <1>10
  <2>2. Changes(c, t, f)[i] \in Change
    BY <1>6, <1>7, <2>1
  <2> QED
    BY <2>2, Distinct
<1> QED
  BY <1>8, <1>9, <1>10

\* The rows an import is about to insert.
ToInsert(t, f) ==
    [j \in Positions |-> IF j \notin t.create THEN None
                         ELSE NewRow(t.kind, f[t.sheet[j].name], t.sheet[j])]

LEMMA ToInsertType ==
  ASSUME NEW c, NEW t \in Request, t.kind \in Kinds, t.create \subseteq DOMAIN t.sheet,
         NEW f \in Lookups(c, t.kind), \A j \in t.create : ~Faulty(t.kind, f, t.sheet[j])
  PROVE  /\ ToInsert(t, f) \in [Positions -> Row \cup {None}]
         /\ \A j \in Positions : ToInsert(t, f)[j] # None => j \in t.create
         /\ \A j \in t.create :
                /\ j \in Positions /\ ToInsert(t, f)[j] \in Row
                /\ ToInsert(t, f)[j] = NewRow(t.kind, f[t.sheet[j].name], t.sheet[j])
                /\ ToInsert(t, f)[j].kind = t.kind
                /\ t.kind = "schedule" => ToInsert(t, f)[j].of \in Named(c, "barber", t.sheet[j].name)
<1>1. t.sheet \in Sheets \cup {<<>>}
  BY DEF Request
<1>2. ASSUME NEW j \in t.create
      PROVE  /\ j \in Positions /\ t.sheet[j] \in SheetRow
             /\ NewRow(t.kind, f[t.sheet[j].name], t.sheet[j]) \in Row
             /\ NewRow(t.kind, f[t.sheet[j].name], t.sheet[j]).kind = t.kind
             /\ t.kind = "schedule" =>
                    /\ NewRow(t.kind, f[t.sheet[j].name], t.sheet[j]).of = f[t.sheet[j].name]
                    /\ f[t.sheet[j].name] \in Named(c, "barber", t.sheet[j].name)
  <2>1. j \in Positions /\ t.sheet[j] \in SheetRow
    BY <1>1, SheetRows
  <2>2. t.sheet[j].name \in Keys
    BY <2>1, SheetRowFields
  <2>3. t.kind = "schedule" => f[t.sheet[j].name] # None
    BY DEF Faulty
  <2>4. t.kind = "schedule" => f[t.sheet[j].name] \in Named(c, "barber", t.sheet[j].name)
    BY <2>2, <2>3, LookupRows
  <2>5. t.kind = "schedule" => f[t.sheet[j].name] \in Ids
    BY <2>4 DEF Named, Rows
  <2> QED
    BY <2>1, <2>4, <2>5, NewRowType
<1>3. \A j \in Positions : ToInsert(t, f)[j] =
        IF j \notin t.create THEN None ELSE NewRow(t.kind, f[t.sheet[j].name], t.sheet[j])
  BY DEF ToInsert
<1>4. ToInsert(t, f) \in [Positions -> Row \cup {None}]
  BY <1>2 DEF ToInsert
<1> QED
  BY <1>2, <1>3, <1>4

-----------------------------------------------------------------------------
(* The steps of an import and of a template.                                *)

\* What the apply of an import leaves, when it is not refused.
Sent(t, u, c, f) ==
    /\ u \in Request /\ u.pc = "flush" /\ u.changes = Changes(c, t, f) /\ u.loaded = c
    /\ u.inserts = ToInsert(t, f) /\ u.op = "import" /\ u.kind = t.kind /\ u.sheet = t.sheet
    /\ u.create = t.create /\ u.update = t.update /\ u.barbers = t.barbers
    /\ u.own = Nothing /\ u.remove = t.remove /\ u.overtaken = t.overtaken
    /\ u.again = t.again

LEMMA ApplyImportSends ==
  ASSUME Inv, NEW r \in Requests, NEW kind \in Kinds, ApplyImport(r, kind), ~End(r, "refused")
  PROVE  \E f \in Lookups(catalog, kind) :
            /\ \A j \in tx[r].create \cup tx[r].update : ~Faulty(kind, f, tx[r].sheet[j])
            /\ \A j \in tx[r].update : Match(catalog, kind, f, tx[r].sheet[j]) # None
            /\ Go(r, tx'[r]) /\ Sent(tx[r], tx'[r], catalog, f)
<1> DEFINE t == tx[r]
<1>1. /\ t \in Request /\ t.pc = "previewed" /\ t.kind = kind /\ Staged(t)
      /\ catalog \in [Ids -> Row \cup {None, Gone}] /\ tx \in [Requests -> Request]
  BY DEF ApplyImport, Inv, TypeOK, Fits
<1>2. PICK f \in Lookups(catalog, kind) :
        /\ \A j \in t.create \cup t.update : ~Faulty(kind, f, t.sheet[j])
        /\ \A j \in t.update : Match(catalog, kind, f, t.sheet[j]) # None
        /\ Go(r, [t EXCEPT !.pc = "flush", !.changes = Changes(catalog, t, f),
                           !.loaded = catalog, !.inserts = ToInsert(t, f)])
  BY <1>1 DEF ApplyImport, ToInsert
<1> DEFINE u == [t EXCEPT !.pc = "flush", !.changes = Changes(catalog, t, f),
                          !.loaded = catalog, !.inserts = ToInsert(t, f)]
<1>3. Go(r, u)
  BY <1>2
<1>4. t.own = Nothing /\ t.op = "import" /\ t.create \cup t.update \subseteq DOMAIN t.sheet
  BY <1>1 DEF Staged, Writing
<1> HIDE DEF t
<1>5. Changes(catalog, t, f) \in [Ids -> Change \cup {None}]
  BY <1>1, <1>4, ChangesAre
<1>6. ToInsert(t, f) \in [Positions -> Row \cup {None}]
  BY <1>1, <1>2, <1>4, ToInsertType
<1>7. u \in Request
  BY <1>1, <1>5, <1>6 DEF Request, Stages
<1>8. Sent(t, u, catalog, f)
  BY <1>1, <1>4, <1>7 DEF Sent, Request
<1> HIDE DEF u
<1>9. tx'[r] = u
  BY <1>1, <1>3 DEF Go
<1> QED
  BY <1>2, <1>3, <1>8, <1>9 DEF t

LEMMA ApplyImportKeeps ==
  ASSUME Inv, NEW r \in Requests, NEW kind \in Kinds, ApplyImport(r, kind)
  PROVE  Inv'
<1>1. CASE End(r, "refused")
  BY <1>1, EndKeeps DEF Over
<1>2. CASE ~End(r, "refused")
  <2> PICK t : t = tx[r]
    OBVIOUS
  <2> PICK u : u = tx'[r]
    OBVIOUS
  <2>1. t \in Request /\ t.kind = kind /\ Staged(t) /\ Grounded(catalog, t)
        /\ t.own = Nothing
    BY DEF ApplyImport, Inv, TypeOK, Fits, Staged, Writing
  <2>2. PICK f \in Lookups(catalog, kind) :
          /\ \A j \in t.create \cup t.update : ~Faulty(kind, f, t.sheet[j])
          /\ Go(r, u) /\ Sent(t, u, catalog, f)
    BY <1>2, ApplyImportSends
  <2>3. t.create \cup t.update \subseteq DOMAIN t.sheet
    BY <2>1 DEF Staged
  <2>4. /\ u \in Request /\ u.pc = "flush" /\ u.changes = Changes(catalog, t, f)
        /\ u.inserts = ToInsert(t, f) /\ u.op = "import" /\ u.kind = t.kind
        /\ u.sheet = t.sheet /\ u.create = t.create /\ u.update = t.update
        /\ u.barbers = t.barbers /\ u.own = Nothing /\ u.remove = t.remove
    BY <2>2 DEF Sent
  <2>5. Staged(u) /\ KnowsBarbers(u)
    BY <2>3, <2>4 DEF Staged, KnowsBarbers, Writing
  <2>6. \A i \in Ids : u.changes[i] # None => catalog[i] # None
    BY <2>1, <2>3, <2>4, ChangesAre, Distinct
  <2>7. ASSUME NEW j \in Inserts(u), u.inserts[j].kind = "schedule"
        PROVE  u.inserts[j].of \in Rows(catalog, "barber")
    <3>1. j \in Positions /\ ToInsert(t, f)[j] # None
      BY <2>4 DEF Inserts
    <3>2. j \in t.create /\ ToInsert(t, f)[j].kind = t.kind
      BY <2>1, <2>2, <2>3, <3>1, ToInsertType
    <3>3. u.inserts[j].of \in Named(catalog, "barber", t.sheet[j].name)
      BY <2>1, <2>2, <2>3, <2>4, <2>7, <3>2, ToInsertType
    <3> QED
      BY <3>3 DEF Named
  <2>8. Rows(Seen(catalog, Nothing), "barber") = Rows(catalog, "barber")
    BY EmptyHanded DEF Rows
  <2>9. Grounded(catalog, u)
    <3>1. /\ \A k \in Keys : u.barbers[k] # None => u.barbers[k] \in Rows(catalog, "barber")
          /\ u.remove \in Ids =>
                catalog[u.remove] # None /\ u.remove \notin Rows(catalog, "barber")
      BY <2>1, <2>4, <2>8 DEF Grounded
    <3>2. Rows(u.own, "schedule") = {} /\ \A i \in Ids : u.own[i] = None
      BY <2>4, EmptyHanded
    <3>3. Rows(Seen(catalog, u.own), "barber") = Rows(catalog, "barber")
      BY <2>4, <2>8
    <3> QED
      BY <2>6, <2>7, <3>1, <3>2, <3>3 DEF Grounded
  <2> QED
    BY <2>2, <2>4, <2>5, <2>9, GoKeeps DEF Fits
<1> QED
  BY <1>1, <1>2

LEMMA ApplyAgainKeeps ==
  ASSUME Inv, NEW r \in Requests, ApplyAgain(r)
  PROVE  Inv'
<1> DEFINE t == tx[r]
           u == [t EXCEPT !.pc = "previewed", !.again = TRUE]
<1>1. t \in Request /\ Staged(t) /\ Grounded(catalog, t) /\ t.op = "import"
      /\ t.pc \in {"done", "failed", "unaudited"} /\ Go(r, u)
  BY DEF ApplyAgain, Inv, TypeOK, Fits
<1> HIDE DEF t
<1>2. u \in Request
  BY <1>1 DEF Request, Stages
<1>3. /\ u.pc = "previewed" /\ u.op = t.op /\ u.own = t.own /\ u.create = t.create
      /\ u.update = t.update /\ u.sheet = t.sheet /\ u.inserts = t.inserts
      /\ u.barbers = t.barbers /\ u.changes = t.changes /\ u.remove = t.remove
  BY <1>1 DEF Request
<1> HIDE DEF u
<1>4. t.own = Nothing
  BY <1>1 DEF Staged, Writing
<1>5. Staged(u)
  BY <1>1, <1>3, <1>4 DEF Staged, Writing
<1>6. Grounded(catalog, u)
  BY <1>1, <1>3 DEF Grounded, Inserts
<1>7. KnowsBarbers(u)
  BY <1>1, <1>3 DEF KnowsBarbers
<1> QED
  BY <1>1, <1>2, <1>3, <1>5, <1>6, <1>7, GoKeeps DEF Fits, t

LEMMA AdditionsType ==
  ASSUME NEW c, NEW kind \in Kinds, kind # "schedule"
  PROVE  /\ Additions(c, kind) \in [Positions -> Row \cup {None}]
         /\ \A j \in Positions : Additions(c, kind)[j] # None =>
                /\ j \in Missing(kind, KeysOf(c, kind))
                /\ Additions(c, kind)[j] = NewRow(kind, None, Template[kind][j])
         /\ \A j \in Missing(kind, KeysOf(c, kind)) :
                /\ j \in Positions
                /\ Additions(c, kind)[j] = NewRow(kind, None, Template[kind][j])
                /\ Additions(c, kind)[j] \in Row /\ Additions(c, kind)[j].kind = kind
                /\ Additions(c, kind)[j].key = Template[kind][j].key
<1> DEFINE missing == Missing(kind, KeysOf(c, kind))
<1>1. missing \subseteq DOMAIN Template[kind]
  BY DEF Missing
<1>2. \A j \in missing : j \in Positions /\ Template[kind][j] \in SheetRow
  BY <1>1, TemplateRows
<1> HIDE DEF missing
<1>3. \A j \in missing : /\ NewRow(kind, None, Template[kind][j]) \in Row
                         /\ NewRow(kind, None, Template[kind][j]).kind = kind
                         /\ NewRow(kind, None, Template[kind][j]).key = Template[kind][j].key
  BY <1>2, NewRowType
<1>4. Additions(c, kind) =
        [j \in Positions |-> IF j \in missing THEN NewRow(kind, None, Template[kind][j]) ELSE None]
  BY DEF Additions, missing
<1>5. \A j \in Positions : Additions(c, kind)[j] =
        IF j \in missing THEN NewRow(kind, None, Template[kind][j]) ELSE None
  BY <1>4
<1>6. Additions(c, kind) \in [Positions -> Row \cup {None}]
  BY <1>3, <1>4
<1>7. /\ \A j \in Positions : Additions(c, kind)[j] # None =>
            j \in missing /\ Additions(c, kind)[j] = NewRow(kind, None, Template[kind][j])
      /\ \A j \in missing :
            /\ j \in Positions
            /\ Additions(c, kind)[j] = NewRow(kind, None, Template[kind][j])
            /\ Additions(c, kind)[j] \in Row /\ Additions(c, kind)[j].kind = kind
            /\ Additions(c, kind)[j].key = Template[kind][j].key
  BY <1>2, <1>3, <1>5
<1> QED
  BY <1>6, <1>7 DEF missing

\* What is not there is added.
LEMMA AdditionsCover ==
  ASSUME NEW c, NEW kind \in Kinds, kind # "schedule", NEW k \in DOMAIN Template[kind],
         Template[kind][k].key \notin KeysOf(c, kind)
  PROVE  \E j \in Missing(kind, KeysOf(c, kind)) : Template[kind][j].key = Template[kind][k].key
<1> DEFINE rows == Template[kind]
           T == {j \in DOMAIN rows : rows[j].key = rows[k].key}
<1>1. PICK n \in Nat : DOMAIN rows = 1 .. n
  BY TemplateRows
<1>2. T \in SUBSET Nat /\ T # {}
  BY <1>1
<1>3. PICK j \in T : \A i \in T : j <= i
  <2> HIDE DEF T
  <2> QED
    BY <1>2, First
<1>4. j \in 1 .. n /\ rows[j].key = rows[k].key
  BY <1>1
<1>5. ASSUME NEW i \in 1 .. j - 1
      PROVE  rows[i].key # rows[j].key
  <2>1. i \in DOMAIN rows /\ ~(j <= i)
    BY <1>1, <1>4
  <2> QED
    BY <1>3, <1>4, <2>1
<1>6. j \in Missing(kind, KeysOf(c, kind))
  BY <1>1, <1>4, <1>5 DEF Missing
<1> QED
  BY <1>4, <1>6

LEMMA ApplyTemplateKeeps ==
  ASSUME Inv, NEW r \in Requests, ApplyTemplate(r)
  PROVE  Inv'
<1> DEFINE t == [Idle EXCEPT !.pc = "flush", !.op = "template", !.kind = "service",
                             !.inserts = Additions(catalog, "service")]
<1>0. "service" \in Kinds
  BY DEF Kinds
<1>1. t \in Request
  BY <1>0, AdditionsType, IdleType DEF Request, Stages
<1>2. /\ t.own = Nothing /\ \A k \in Keys : t.barbers[k] = None
      /\ t.inserts = Additions(catalog, "service") /\ t.remove = None /\ t.changes = Nothing
      /\ t.pc = "flush" /\ t.op = "template" /\ t.kind = "service"
      /\ t.create = {} /\ t.update = {}
  BY IdleType DEF Request
<1>3. Go(r, t)
  BY DEF ApplyTemplate
<1> HIDE DEF t
<1>4. Staged(t) /\ KnowsBarbers(t)
  BY <1>0, <1>2 DEF Staged, KnowsBarbers, Writing
<1>5. \A j \in Inserts(t) : t.inserts[j].kind = "service"
  BY <1>0, <1>2, AdditionsType DEF Inserts
<1> QED
  BY <1>1, <1>2, <1>3, <1>4, <1>5, EmptyHanded, Distinct, BeginKeeps

LEMMA NotThere ==
  ASSUME NEW c, NEW kind, NEW k
  PROVE  Named(c, kind, k) = {} <=> k \notin KeysOf(c, kind)
  BY DEF Named, KeysOf

\* What TemplateBarbers leaves, when each name is that of one barber.
Asked(t, u, c) ==
    /\ u \in Request /\ u.pc = "flush" /\ u.kind = "barber" /\ u.op = "template"
    /\ u.inserts = Additions(c, "barber") /\ u.own = t.own /\ u.changes = t.changes
    /\ u.remove = t.remove /\ u.create = t.create /\ u.update = t.update /\ u.sheet = t.sheet
    /\ u.overtaken = t.overtaken
    /\ \A k \in Keys :
            IF k \in TemplateNames /\ Named(c, "barber", k) # {}
            THEN u.barbers[k] \in Named(c, "barber", k) ELSE u.barbers[k] = None

LEMMA TemplateBarbersSends ==
  ASSUME Inv, NEW r \in Requests, TemplateBarbers(r), ~End(r, "failed")
  PROVE  Go(r, tx'[r]) /\ Asked(tx[r], tx'[r], Seen(catalog, tx[r].own))
<1> DEFINE t == tx[r]
           c == View(r)
           Which(k) == IF k \in TemplateNames /\ Named(c, "barber", k) # {}
                       THEN CHOOSE i \in Named(c, "barber", k) : TRUE ELSE None
           u == [t EXCEPT !.pc = "flush", !.kind = "barber",
                          !.barbers = [k \in Keys |-> Which(k)],
                          !.inserts = Additions(c, "barber")]
<1>1. Go(r, u)
  BY DEF TemplateBarbers, TemplateNames
<1>2. c = Seen(catalog, t.own)
  BY DEF View, Seen
<1>3. t \in Request /\ t.op = "template" /\ tx \in [Requests -> Request]
  BY DEF TemplateBarbers, Inv, TypeOK, Fits, Staged
<1> HIDE DEF t, c
<1>4. "barber" \in Kinds
  BY DEF Kinds
<1>5. Additions(c, "barber") \in [Positions -> Row \cup {None}]
  BY <1>4, AdditionsType
<1>6. \A k \in Keys : IF k \in TemplateNames /\ Named(c, "barber", k) # {}
                      THEN Which(k) \in Named(c, "barber", k) ELSE Which(k) = None
  OBVIOUS
<1>7. [k \in Keys |-> Which(k)] \in [Keys -> Ids \cup {None}]
  BY <1>6 DEF Named, Rows
<1>8. \A k \in Keys : [kk \in Keys |-> Which(kk)][k] = Which(k)
  OBVIOUS
<1> HIDE DEF Which
<1>9. u \in Request
  BY <1>3, <1>4, <1>5, <1>7 DEF Request, Stages
<1>10. /\ u.pc = "flush" /\ u.kind = "barber" /\ u.op = "template"
       /\ u.inserts = Additions(c, "barber") /\ u.own = t.own /\ u.changes = t.changes
       /\ u.remove = t.remove /\ u.create = t.create /\ u.update = t.update
       /\ u.sheet = t.sheet /\ u.overtaken = t.overtaken
       /\ u.barbers = [k \in Keys |-> Which(k)]
  BY <1>3 DEF Request
<1> HIDE DEF u
<1>11. Asked(t, u, c)
  BY <1>6, <1>8, <1>9, <1>10 DEF Asked
<1>12. tx'[r] = u
  BY <1>1, <1>3 DEF Go
<1> QED
  BY <1>1, <1>2, <1>11, <1>12 DEF t

LEMMA TemplateBarbersKeeps ==
  ASSUME Inv, NEW r \in Requests, TemplateBarbers(r)
  PROVE  Inv'
<1>1. CASE End(r, "failed")
  BY <1>1, EndKeeps DEF Over
<1>2. CASE ~End(r, "failed")
  <2> PICK t : t = tx[r]
    OBVIOUS
  <2> PICK u : u = tx'[r]
    OBVIOUS
  <2> DEFINE c == Seen(catalog, t.own)
  <2>1. t \in Request /\ Staged(t) /\ Grounded(catalog, t)
    BY DEF Inv, TypeOK, Fits
  <2>2. Go(r, u) /\ Asked(t, u, c)
    BY <1>2, TemplateBarbersSends
  <2> HIDE DEF c
  <2>3. /\ u \in Request /\ u.pc = "flush" /\ u.kind = "barber" /\ u.op = "template"
        /\ u.inserts = Additions(c, "barber") /\ u.own = t.own /\ u.changes = t.changes
        /\ u.remove = t.remove /\ u.create = t.create /\ u.update = t.update
        /\ u.sheet = t.sheet
    BY <2>2 DEF Asked
  <2>4. "barber" \in Kinds
    BY DEF Kinds
  <2>5. Staged(u)
    BY <2>1, <2>3, <2>4 DEF Staged, Writing
  <2>6. ASSUME NEW k \in TemplateNames, u.barbers[k] = None
        PROVE  \E j \in Inserts(u) : u.inserts[j].kind = "barber" /\ u.inserts[j].key = k
    <3>1. PICK j \in DOMAIN Template["barber"] : k = Template["barber"][j].key
      BY DEF TemplateNames, Range
    <3>2. k \in Keys /\ Named(c, "barber", k) = {}
      BY <2>2, <2>6, NamesAreKeys, Distinct DEF Asked, Named, Rows
    <3>3. PICK m \in Missing("barber", KeysOf(c, "barber")) : Template["barber"][m].key = k
      BY <2>4, <3>1, <3>2, NotThere, AdditionsCover
    <3> QED
      BY <2>3, <2>4, <3>3, AdditionsType, Distinct DEF Inserts
  <2>7. KnowsBarbers(u)
    BY <2>3, <2>6 DEF KnowsBarbers
  <2>8. \A k \in Keys : u.barbers[k] # None => u.barbers[k] \in Rows(c, "barber")
    BY <2>2 DEF Asked, Named
  <2>9. \A j \in Inserts(u) : u.inserts[j].kind = "barber"
    BY <2>3, <2>4, AdditionsType DEF Inserts
  <2>10. Grounded(catalog, u)
    BY <2>1, <2>3, <2>8, <2>9 DEF Grounded, c
  <2> QED
    BY <2>2, <2>3, <2>5, <2>7, <2>10, GoKeeps DEF Fits
<1> QED
  BY <1>1, <1>2

\* What TemplateSchedules leaves, with the rows B that the names of its barbers stand for.
Planned(t, u, c, B) ==
    /\ \A k \in TemplateNames :
        /\ B[k] \in Rows(c, "barber")
        /\ IF t.barbers[k] # None THEN B[k] = t.barbers[k] ELSE B[k] \in Named(t.own, "barber", k)
    /\ u \in Request /\ u.pc = "flush" /\ u.kind = "schedule" /\ u.op = "template"
    /\ u.own = t.own /\ u.changes = t.changes /\ u.barbers = t.barbers
    /\ u.remove = t.remove /\ u.create = t.create /\ u.update = t.update /\ u.sheet = t.sheet
    /\ u.overtaken = t.overtaken
    /\ \A j \in Positions : u.inserts[j] =
            IF /\ j \in DOMAIN Template["schedule"]
               /\ \A i \in Rows(c, "schedule") : c[i].of # B[Template["schedule"][j].name]
            THEN NewRow("schedule", B[Template["schedule"][j].name], Template["schedule"][j])
            ELSE None

LEMMA ScheduleNames ==
  ASSUME NEW j \in DOMAIN Template["schedule"]
  PROVE  /\ j \in Positions /\ Template["schedule"][j] \in SheetRow
         /\ Template["schedule"][j].name \in TemplateNames
  BY TemplateRows, NamesAreKeys DEF Range, Kinds

\* A barber that the request wrote is one that it sees.
LEMMA OwnSeen ==
  ASSUME NEW c, NEW own, NEW kind, NEW k, NEW i \in Named(own, kind, k)
  PROVE  i \in Named(Seen(c, own), kind, k)
  BY Distinct DEF Named, Rows, Seen

LEMMA TemplateSchedulesSends ==
  ASSUME Inv, NEW r \in Requests, TemplateSchedules(r), ~End(r, "failed")
  PROVE  /\ Go(r, tx'[r])
         /\ \E B : Planned(tx[r], tx'[r], Seen(catalog, tx[r].own), B)
<1> DEFINE t == tx[r]
           c == View(r)
           rows == Template["schedule"]
           Barber(k) == IF t.barbers[k] # None THEN t.barbers[k]
                        ELSE CHOOSE i \in Named(t.own, "barber", k) : TRUE
           Of(b) == {i \in Rows(c, "schedule") : c[i].of = b}
           B == [k \in TemplateNames |-> Barber(k)]
           inserts == [j \in Positions |->
                         IF j \in DOMAIN rows /\ Of(Barber(rows[j].name)) = {}
                         THEN NewRow("schedule", Barber(rows[j].name), rows[j]) ELSE None]
           u == [t EXCEPT !.pc = "flush", !.kind = "schedule", !.inserts = inserts]
<1>1. Go(r, u)
  BY DEF TemplateSchedules
<1>2. c = Seen(catalog, t.own)
  BY DEF View, Seen
<1>3. /\ t \in Request /\ t.op = "template" /\ t.pc = "template_schedules"
      /\ tx \in [Requests -> Request] /\ Grounded(catalog, t) /\ KnowsBarbers(t)
  BY DEF TemplateSchedules, Inv, TypeOK, Fits, Staged
<1> HIDE DEF t, c
<1>4. ASSUME NEW k \in TemplateNames
      PROVE  /\ B[k] = Barber(k) /\ B[k] \in Rows(c, "barber")
             /\ IF t.barbers[k] # None THEN B[k] = t.barbers[k]
                ELSE B[k] \in Named(t.own, "barber", k)
  <2>1. B[k] = Barber(k) /\ k \in Keys
    BY NamesAreKeys
  <2>2. CASE t.barbers[k] # None
    BY <1>2, <1>3, <2>1, <2>2 DEF Grounded
  <2>3. CASE t.barbers[k] = None
    <3>1. Named(t.own, "barber", k) # {}
      BY <1>3, <2>3 DEF KnowsBarbers
    <3>2. Barber(k) \in Named(t.own, "barber", k)
      BY <2>3, <3>1
    <3>3. Barber(k) \in Rows(c, "barber")
      BY <1>2, <3>2, OwnSeen DEF Named
    <3> QED
      BY <2>1, <2>3, <3>2, <3>3
  <2> QED
    BY <2>2, <2>3
<1> HIDE DEF B, Barber
<1>5. ASSUME NEW j \in DOMAIN rows
      PROVE  /\ j \in Positions /\ rows[j].name \in TemplateNames
             /\ Barber(rows[j].name) = B[rows[j].name]
             /\ NewRow("schedule", B[rows[j].name], rows[j]) \in Row
  <2>1. j \in Positions /\ rows[j] \in SheetRow /\ rows[j].name \in TemplateNames
    BY ScheduleNames
  <2>2. B[rows[j].name] \in Ids
    BY <1>4, <2>1 DEF Rows
  <2>3. "schedule" \in Kinds
    BY DEF Kinds
  <2>4. NewRow("schedule", B[rows[j].name], rows[j]) \in Row
    BY <2>1, <2>2, <2>3, NewRowType
  <2> QED
    BY <1>4, <2>1, <2>4
<1>6. \A b : Of(b) = {} <=> \A i \in Rows(c, "schedule") : c[i].of # b
  OBVIOUS
<1> HIDE DEF Of
<1>7. ASSUME NEW j \in Positions
      PROVE  inserts[j] =
                IF j \in DOMAIN rows /\ \A i \in Rows(c, "schedule") : c[i].of # B[rows[j].name]
                THEN NewRow("schedule", B[rows[j].name], rows[j]) ELSE None
  BY <1>5, <1>6
<1>8. inserts \in [Positions -> Row \cup {None}]
  BY <1>5
<1> HIDE DEF inserts
<1>9. u \in Request
  BY <1>3, <1>8 DEF Request, Stages, Kinds
<1>10. /\ u.pc = "flush" /\ u.kind = "schedule" /\ u.op = "template" /\ u.own = t.own
       /\ u.changes = t.changes /\ u.remove = t.remove /\ u.create = t.create
       /\ u.update = t.update /\ u.sheet = t.sheet /\ u.overtaken = t.overtaken
       /\ u.barbers = t.barbers /\ u.inserts = inserts
  BY <1>3 DEF Request
<1> HIDE DEF u
<1>11. Planned(t, u, c, B)
  BY <1>4, <1>7, <1>9, <1>10 DEF Planned
<1>12. tx'[r] = u
  BY <1>1, <1>3 DEF Go
<1> QED
  BY <1>1, <1>2, <1>11, <1>12 DEF t

LEMMA TemplateSchedulesKeeps ==
  ASSUME Inv, NEW r \in Requests, TemplateSchedules(r)
  PROVE  Inv'
<1>1. CASE End(r, "failed")
  BY <1>1, EndKeeps DEF Over
<1>2. CASE ~End(r, "failed")
  <2> PICK t : t = tx[r]
    OBVIOUS
  <2> PICK u : u = tx'[r]
    OBVIOUS
  <2> PICK c : c = Seen(catalog, t.own)
    OBVIOUS
  <2>1. t \in Request /\ Staged(t) /\ Grounded(catalog, t)
    BY DEF Inv, TypeOK, Fits
  <2>2. PICK B : Go(r, u) /\ Planned(t, u, c, B)
    BY <1>2, TemplateSchedulesSends
  <2>3. /\ u \in Request /\ u.pc = "flush" /\ u.kind = "schedule" /\ u.op = "template"
        /\ u.own = t.own /\ u.changes = t.changes /\ u.barbers = t.barbers
        /\ u.remove = t.remove /\ u.create = t.create /\ u.update = t.update
        /\ u.sheet = t.sheet
    BY <2>2 DEF Planned
  <2>4. Staged(u)
    BY <2>1, <2>3 DEF Staged, Writing, Kinds
  <2>5. KnowsBarbers(u)
    BY <2>3 DEF KnowsBarbers
  <2>6. ASSUME NEW j \in Inserts(u)
        PROVE  u.inserts[j].of \in Rows(c, "barber")
    <3>1. /\ j \in DOMAIN Template["schedule"]
          /\ u.inserts[j] = NewRow("schedule", B[Template["schedule"][j].name],
                                   Template["schedule"][j])
      BY <2>2 DEF Inserts, Planned
    <3>2. B[Template["schedule"][j].name] \in Rows(c, "barber")
      BY <2>2, <3>1, ScheduleNames DEF Planned
    <3> QED
      BY <3>1, <3>2 DEF NewRow
  <2>7. Grounded(catalog, u)
    BY <2>1, <2>3, <2>6 DEF Grounded
  <2> QED
    BY <2>2, <2>3, <2>4, <2>5, <2>7, GoKeeps DEF Fits
<1> QED
  BY <1>1, <1>2

-----------------------------------------------------------------------------
(* The flush.                                                               *)

\* Every insert gets a place of its own, where nobody has a row; the other rows are those
\* that the flush touches, and what was written before.
LEMMA FlushPlaces ==
  ASSUME NEW r \in Requests, Places(tx[r]) # {}
  PROVE  \E place \in [Inserts(tx[r]) -> Unused] :
            /\ \A j \in Inserts(tx[r]) : Flushed(r)[place[j]] = tx[r].inserts[j]
            /\ \A j, k \in Inserts(tx[r]) : place[j] = place[k] => j = k
            /\ \A i \in Ids : (\A j \in Inserts(tx[r]) : place[j] # i) =>
                    Flushed(r)[i] = IF i \in Touched(tx[r]) THEN Written(tx[r], i)
                                    ELSE tx[r].own[i]
<1> DEFINE t == tx[r]
           place == Place(t)
<1>1. place \in Injection(Inserts(t), Unused)
  BY DEF Place, Places
<1>2. /\ place \in [Inserts(t) -> Unused]
      /\ \A j, k \in Inserts(t) : place[j] = place[k] => j = k
  BY <1>1 DEF Injection, IsInjective
<1>3. Flushed(r) = [i \in Ids |-> IF i \in Range(place)
                        THEN t.inserts[CHOOSE j \in Inserts(t) : place[j] = i]
                        ELSE IF i \in Touched(t) THEN Written(t, i) ELSE t.own[i]]
  BY DEF Flushed
<1> HIDE DEF t, place
<1>4. \A i : i \in Range(place) <=> \E j \in Inserts(t) : place[j] = i
  BY <1>2 DEF Range
<1>5. ASSUME NEW j \in Inserts(t)
      PROVE  Flushed(r)[place[j]] = t.inserts[j]
  <2>1. place[j] \in Ids
    BY <1>2 DEF Unused
  <2>2. (CHOOSE k \in Inserts(t) : place[k] = place[j]) = j
    BY <1>2
  <2> QED
    BY <1>3, <1>4, <2>1, <2>2
<1>6. ASSUME NEW i \in Ids, \A j \in Inserts(t) : place[j] # i
      PROVE  Flushed(r)[i] = IF i \in Touched(t) THEN Written(t, i) ELSE t.own[i]
  BY <1>3, <1>4, <1>6
<1> QED
  BY <1>2, <1>5, <1>6 DEF t

LEMMA WrittenRow ==
  ASSUME Inv, NEW r \in Requests, NEW i \in Touched(tx[r]), catalog[i] # Gone
  PROVE  /\ i \in Ids /\ catalog[i] \in Row
         /\ IF i = tx[r].remove
            THEN Written(tx[r], i) = Gone /\ catalog[i].kind # "barber"
            ELSE /\ tx[r].changes[i] \in Change /\ Written(tx[r], i) \in Row
                 /\ Written(tx[r], i).kind = catalog[i].kind
                 /\ Written(tx[r], i).of = catalog[i].of
                 /\ Written(tx[r], i).key =
                        IF tx[r].changes[i].key # tx[r].loaded[i].key
                        THEN tx[r].changes[i].key ELSE catalog[i].key
                 /\ Written(tx[r], i).value =
                        IF tx[r].changes[i].value # tx[r].loaded[i].value
                        THEN tx[r].changes[i].value ELSE catalog[i].value
<1> PICK t : t = tx[r]
  OBVIOUS
<1>1. i \in Ids /\ (t.changes[i] # None \/ t.remove = i)
  BY DEF Touched
<1>2. t \in Request /\ Grounded(catalog, t) /\ catalog \in [Ids -> Row \cup {None, Gone}]
  BY DEF Inv, TypeOK, Fits
<1>3. catalog[i] \in Row
  BY <1>1, <1>2 DEF Grounded
<1>4. CASE i = t.remove
  <2>1. Written(t, i) = Gone
    BY <1>4 DEF Written
  <2>2. i \notin Rows(catalog, "barber")
    BY <1>1, <1>2, <1>4 DEF Grounded
  <2>3. catalog[i].kind # "barber"
    BY <1>1, <1>3, <2>2 DEF Rows
  <2> QED
    BY <1>1, <1>3, <1>4, <2>1, <2>3
<1>5. CASE i # t.remove
  <2>1. t.changes[i] \in Change
    BY <1>1, <1>2, <1>5 DEF Request
  <2>2. PICK to : to = t.changes[i]
    OBVIOUS
  <2>3. PICK was : was = t.loaded[i]
    OBVIOUS
  <2>4. Written(t, i) = [catalog[i] EXCEPT
            !.key = IF to.key # was.key THEN to.key ELSE catalog[i].key,
            !.value = IF to.value # was.value THEN to.value ELSE catalog[i].value]
    BY <1>3, <1>5, <2>2, <2>3 DEF Written
  <2>5. to.key \in Keys /\ to.value \in Values
    BY <2>1, <2>2 DEF Change
  <2>6. PICK row \in Row : row = catalog[i]
    BY <1>3
  <2>7. PICK key \in Keys : key = IF to.key # was.key THEN to.key ELSE row.key
    BY <2>5 DEF Row
  <2>8. PICK value \in Values : value = IF to.value # was.value THEN to.value ELSE row.value
    BY <2>5 DEF Row
  <2>9. Written(t, i) = [row EXCEPT !.key = key, !.value = value]
    BY <2>4, <2>6, <2>7, <2>8
  <2>10. /\ Written(t, i) \in Row
         /\ Written(t, i).kind = row.kind /\ Written(t, i).of = row.of
         /\ Written(t, i).key = key /\ Written(t, i).value = value
    BY <2>9 DEF Row
  <2> QED
    BY <1>1, <1>3, <1>5, <2>1, <2>2, <2>3, <2>6, <2>7, <2>8, <2>10
<1> QED
  BY <1>4, <1>5

\* Every row that is written after the flush is one of three: new in a place that nobody
\* uses, touched, or written before.
LEMMA FlushedRow ==
  ASSUME Inv, NEW r \in Requests, Places(tx[r]) # {}, ~FlushFails(r), NEW i \in Ids,
         Flushed(r)[i] # None
  PROVE  \/ /\ catalog[i] = None /\ \A q \in Requests : tx[q].own[i] = None
            /\ \E j \in Inserts(tx[r]) : Flushed(r)[i] = tx[r].inserts[j]
            /\ Flushed(r)[i] \in Row
         \/ /\ i \in Touched(tx[r]) /\ catalog[i] \in Row
            /\ \/ Flushed(r)[i] = Gone /\ catalog[i].kind # "barber"
               \/ /\ Flushed(r)[i] \in Row /\ Flushed(r)[i].kind = catalog[i].kind
                  /\ Flushed(r)[i].of = catalog[i].of
         \/ i \notin Touched(tx[r]) /\ Flushed(r)[i] = tx[r].own[i]
<1> PICK t : t = tx[r]
  OBVIOUS
<1>1. PICK place \in [Inserts(t) -> Unused] :
        /\ \A j \in Inserts(t) : Flushed(r)[place[j]] = t.inserts[j]
        /\ (\A j \in Inserts(t) : place[j] # i) =>
                Flushed(r)[i] = IF i \in Touched(t) THEN Written(t, i) ELSE t.own[i]
  BY FlushPlaces
<1>2. CASE \E j \in Inserts(t) : place[j] = i
  <2>1. PICK j \in Inserts(t) : place[j] = i
    BY <1>2
  <2>2. i \in Unused /\ Flushed(r)[i] = t.inserts[j]
    BY <1>1, <2>1
  <2>3. t.inserts[j] \in Row
    BY DEF Inserts, Inv, TypeOK, Request
  <2> QED
    BY <2>2, <2>3 DEF Unused
<1>3. CASE i \in Touched(t) /\ \A j \in Inserts(t) : place[j] # i
  <2>1. Flushed(r)[i] = Written(t, i)
    BY <1>1, <1>3
  <2>2. catalog[i] # Gone
    BY <1>3 DEF FlushFails
  <2> QED
    BY <1>3, <2>1, <2>2, WrittenRow
<1>4. CASE i \notin Touched(t) /\ \A j \in Inserts(t) : place[j] # i
  BY <1>1, <1>4
<1> QED
  BY <1>2, <1>3, <1>4

LEMMA OwnStays ==
  ASSUME Inv, NEW r \in Requests, Places(tx[r]) # {}, ~FlushFails(r), NEW i \in Ids,
         tx[r].own[i] # None
  PROVE  Flushed(r)[i] # None
<1> PICK t : t = tx[r]
  OBVIOUS
<1>1. PICK place \in [Inserts(t) -> Unused] :
        /\ \A j \in Inserts(t) : Flushed(r)[place[j]] = t.inserts[j]
        /\ (\A j \in Inserts(t) : place[j] # i) =>
                Flushed(r)[i] = IF i \in Touched(t) THEN Written(t, i) ELSE t.own[i]
  BY FlushPlaces
<1>2. \A j \in Inserts(t) : place[j] # i
  BY <1>1 DEF Unused
<1>3. CASE i \in Touched(t)
  <2>1. catalog[i] # Gone
    BY <1>3 DEF FlushFails
  <2>2. Written(t, i) = Gone \/ Written(t, i) \in Row
    BY <1>3, <2>1, WrittenRow
  <2> QED
    BY <1>1, <1>2, <1>3, <2>2, Distinct
<1> QED
  BY <1>1, <1>2, <1>3

LEMMA FlushReplaces ==
  ASSUME Inv, NEW r \in Requests, Places(tx[r]) # {}, ~FlushFails(r), NEW i \in Ids,
         Flushed(r)[i] # None
  PROVE  Replaces(catalog, Flushed(r), i)
<1>1. tx[r].own[i] # None => Replaces(catalog, tx[r].own, i)
  BY DEF Inv, Fits, Grounded
<1> QED
  BY <1>1, FlushedRow DEF Replaces

\* A barber that exists is one after any change that a request may have written.
LEMMA SeenBarbers ==
  ASSUME NEW c, NEW own, \A i \in Ids : own[i] # None => Replaces(c, own, i)
  PROVE  Rows(c, "barber") \subseteq Rows(Seen(c, own), "barber")
<1> SUFFICES ASSUME NEW i \in Rows(c, "barber")
             PROVE  i \in Rows(Seen(c, own), "barber")
  OBVIOUS
<1>1. i \in Ids /\ c[i] \in Row /\ c[i].kind = "barber"
  BY DEF Rows
<1>2. Seen(c, own)[i] = IF own[i] # None THEN own[i] ELSE c[i]
  BY <1>1 DEF Seen
<1>3. own[i] # None => own[i] \in Row /\ own[i].kind = "barber"
  BY <1>1, Distinct DEF Replaces
<1> QED
  BY <1>1, <1>2, <1>3 DEF Rows

LEMMA FlushKeepsBarbers ==
  ASSUME Inv, NEW r \in Requests, Places(tx[r]) # {}, ~FlushFails(r)
  PROVE  Rows(Seen(catalog, tx[r].own), "barber") \subseteq Rows(Seen(catalog, Flushed(r)), "barber")
<1> PICK t : t = tx[r]
  OBVIOUS
<1> PICK new : new = Flushed(r)
  OBVIOUS
<1> SUFFICES ASSUME NEW i \in Rows(Seen(catalog, t.own), "barber")
             PROVE  i \in Rows(Seen(catalog, new), "barber")
  OBVIOUS
<1>1. /\ i \in Ids
      /\ IF t.own[i] # None THEN t.own[i] \in Row /\ t.own[i].kind = "barber"
         ELSE catalog[i] \in Row /\ catalog[i].kind = "barber"
  BY DEF Rows, Seen
<1>2. t.own[i] # None => Replaces(catalog, t.own, i)
  BY <1>1 DEF Inv, Fits, Grounded
<1>3. t.own[i] # None => new[i] # None
  BY <1>1, OwnStays
<1>4. new[i] # None => new[i] \in Row /\ new[i].kind = "barber"
  <2> HAVE new[i] # None
  <2>1. \/ catalog[i] = None /\ t.own[i] = None
        \/ /\ catalog[i] \in Row
           /\ \/ new[i] = Gone /\ catalog[i].kind # "barber"
              \/ new[i] \in Row /\ new[i].kind = catalog[i].kind
        \/ new[i] = t.own[i]
    BY <1>1, FlushedRow
  <2>2. catalog[i] \in Row => catalog[i].kind = "barber"
    BY <1>1, <1>2, Distinct DEF Replaces
  <2> QED
    BY <1>1, <2>1, <2>2, Distinct
<1> QED
  BY <1>1, <1>3, <1>4 DEF Rows, Seen

\* What a flush that does not fail leaves.
Landed(t, u, new) ==
    /\ u \in Request /\ u.own = new /\ u.inserts = NoInserts /\ u.remove = None
    /\ u.changes = Nothing /\ u.op = t.op /\ u.kind = t.kind /\ u.sheet = t.sheet
    /\ u.create = t.create /\ u.update = t.update /\ u.barbers = t.barbers
    /\ u.overtaken = t.overtaken /\ u.again = t.again
    /\ u.pc = IF t.op # "template" \/ t.kind = "schedule" THEN "commit"
              ELSE IF t.kind = "service" THEN "template_barbers" ELSE "template_schedules"

LEMMA FlushLands ==
  ASSUME Inv, NEW r \in Requests, Flush(r), ~End(r, "failed")
  PROVE  /\ tx[r].pc = "flush" /\ Places(tx[r]) # {} /\ ~MustWait(r) /\ ~FlushFails(r)
         /\ Landed(tx[r], tx'[r], Flushed(r))
         /\ catalog' = catalog /\ tx' = [tx EXCEPT ![r] = tx'[r]]
<1> DEFINE t == tx[r]
           new == Flushed(r)
           pc == IF t.op # "template" \/ t.kind = "schedule" THEN "commit"
                 ELSE IF t.kind = "service" THEN "template_barbers" ELSE "template_schedules"
           u == [t EXCEPT !.own = new, !.inserts = NoInserts, !.remove = None,
                          !.changes = Nothing, !.loaded = Nothing, !.pc = pc]
<1>1. /\ t.pc = "flush" /\ Places(t) # {} /\ ~MustWait(r) /\ ~FlushFails(r)
      /\ tx' = [tx EXCEPT ![r] = u] /\ catalog' = catalog
  BY DEF Flush, Go
<1>2. t \in Request /\ tx \in [Requests -> Request]
  BY DEF Inv, TypeOK
<1>3. \A i \in Ids : new[i] \in Row \cup {None, Gone}
  BY <1>1, FlushReplaces DEF Replaces
<1>4. new = [i \in Ids |-> new[i]]
  BY DEF Flushed
<1>5. pc \in Stages
  BY DEF Stages
<1> HIDE DEF t, new, pc
<1>6. new \in [Ids -> Row \cup {None, Gone}]
  BY <1>3, <1>4
<1>7. NoInserts \in [Positions -> Row \cup {None}] /\ Nothing \in [Ids -> Change \cup {None}]
      /\ Nothing \in [Ids -> Row \cup {None, Gone}]
  BY DEF NoInserts, Nothing
<1>8. u \in Request
  BY <1>2, <1>5, <1>6, <1>7 DEF Request
<1>9. /\ u.own = new /\ u.inserts = NoInserts /\ u.remove = None
      /\ u.changes = Nothing /\ u.op = t.op /\ u.kind = t.kind /\ u.sheet = t.sheet
      /\ u.create = t.create /\ u.update = t.update /\ u.barbers = t.barbers
      /\ u.overtaken = t.overtaken /\ u.again = t.again /\ u.pc = pc
  BY <1>2 DEF Request
<1> HIDE DEF u
<1>10. tx'[r] = u
  BY <1>1, <1>2
<1> QED
  BY <1>1, <1>8, <1>9, <1>10 DEF Landed, t, new, pc

LEMMA FlushGrounded ==
  ASSUME Inv, NEW r \in Requests, Flush(r), ~End(r, "failed")
  PROVE  Grounded(catalog, tx'[r])
<1> PICK t : t = tx[r]
  OBVIOUS
<1> PICK u : u = tx'[r]
  OBVIOUS
<1> PICK new : new = Flushed(r)
  OBVIOUS
<1>1. Places(t) # {} /\ ~FlushFails(r) /\ Landed(t, u, new)
  BY FlushLands
<1>2. /\ u.own = new /\ u.inserts = NoInserts /\ u.remove = None
      /\ u.changes = Nothing /\ u.barbers = t.barbers
  BY <1>1 DEF Landed
<1>3. t \in Request /\ Grounded(catalog, t) /\ Sound(catalog)
  BY DEF Inv, TypeOK, Fits
<1>4. \A i \in Ids : new[i] # None => Replaces(catalog, new, i)
  BY <1>1, FlushReplaces
<1>5. Rows(Seen(catalog, t.own), "barber") \subseteq Rows(Seen(catalog, new), "barber")
  BY <1>1, FlushKeepsBarbers
<1>6. Rows(catalog, "barber") \subseteq Rows(Seen(catalog, new), "barber")
  BY <1>4, SeenBarbers
<1>7. ASSUME NEW i \in Rows(new, "schedule")
      PROVE  new[i].of \in Rows(Seen(catalog, new), "barber")
  <2>1. i \in Ids /\ new[i] \in Row /\ new[i].kind = "schedule" /\ new[i] # None
    BY <1>7, Distinct DEF Rows
  <2>2. \/ \E j \in Inserts(t) : new[i] = t.inserts[j]
        \/ /\ catalog[i] \in Row
           /\ new[i].kind = catalog[i].kind /\ new[i].of = catalog[i].of
        \/ new[i] = t.own[i]
    BY <1>1, <2>1, FlushedRow, Distinct
  <2>3. CASE \E j \in Inserts(t) : new[i] = t.inserts[j]
    BY <1>3, <1>5, <2>1, <2>3 DEF Grounded
  <2>4. CASE catalog[i] \in Row /\ new[i].kind = catalog[i].kind /\ new[i].of = catalog[i].of
    BY <1>3, <1>6, <2>1, <2>4 DEF Sound, Rows
  <2>5. CASE new[i] = t.own[i]
    <3>1. i \in Rows(t.own, "schedule")
      BY <2>1, <2>5 DEF Rows
    <3> QED
      BY <1>3, <1>5, <2>5, <3>1 DEF Grounded
  <2> QED
    BY <2>2, <2>3, <2>4, <2>5
<1>8. \A k \in Keys : u.barbers[k] # None => u.barbers[k] \in Rows(Seen(catalog, new), "barber")
  BY <1>2, <1>3, <1>5 DEF Grounded
<1>9. Inserts(u) = {} /\ (\A i \in Ids : u.changes[i] = None) /\ u.remove \notin Ids
  BY <1>2, EmptyHanded, Distinct
<1> QED
  BY <1>2, <1>4, <1>7, <1>8, <1>9 DEF Grounded

LEMMA FlushStaged ==
  ASSUME Inv, NEW r \in Requests, Flush(r), ~End(r, "failed")
  PROVE  Staged(tx'[r]) /\ KnowsBarbers(tx'[r])
<1> PICK t : t = tx[r]
  OBVIOUS
<1> PICK u : u = tx'[r]
  OBVIOUS
<1> PICK new : new = Flushed(r)
  OBVIOUS
<1>1. t.pc = "flush" /\ Places(t) # {} /\ ~FlushFails(r) /\ Landed(t, u, new)
  BY FlushLands
<1>2. /\ u.own = new /\ u.op = t.op /\ u.kind = t.kind /\ u.sheet = t.sheet
      /\ u.create = t.create /\ u.update = t.update /\ u.barbers = t.barbers
      /\ u.pc = IF t.op # "template" \/ t.kind = "schedule" THEN "commit"
                ELSE IF t.kind = "service" THEN "template_barbers" ELSE "template_schedules"
  BY <1>1 DEF Landed
<1>3. t \in Request /\ Staged(t) /\ KnowsBarbers(t)
  BY DEF Inv, TypeOK, Fits
<1>4. u.pc \in Writing /\ u.pc # "flush" /\ u.pc # "previewed"
  BY <1>2 DEF Writing
<1>5. Staged(u)
  BY <1>2, <1>3, <1>4 DEF Staged
<1>6. ASSUME NEW k \in TemplateNames, u.op = "template", u.barbers[k] = None,
             u.pc = "template_schedules"
      PROVE  Named(u.own, "barber", k) # {}
  <2>1. t.kind = "barber"
    BY <1>1, <1>2, <1>3, <1>6 DEF Staged, Kinds
  <2>2. PICK j \in Inserts(t) : t.inserts[j].kind = "barber" /\ t.inserts[j].key = k
    BY <1>1, <1>2, <1>3, <1>6, <2>1 DEF KnowsBarbers
  <2>3. PICK place \in [Inserts(t) -> Unused] : new[place[j]] = t.inserts[j]
    BY <1>1, FlushPlaces
  <2>4. place[j] \in Ids /\ t.inserts[j] \in Row
    BY <1>3 DEF Unused, Inserts, Request
  <2>5. place[j] \in Named(new, "barber", k)
    BY <2>2, <2>3, <2>4 DEF Named, Rows
  <2> QED
    BY <1>2, <2>5
<1>7. KnowsBarbers(u)
  BY <1>4, <1>6 DEF KnowsBarbers
<1> QED
  BY <1>5, <1>7

LEMMA FlushFree ==
  ASSUME Inv, NEW r \in Requests, Flush(r), ~End(r, "failed")
  PROVE  Free(catalog, tx'[r])
<1> PICK new : new = Flushed(r)
  OBVIOUS
<1>1. ~FlushFails(r) /\ tx'[r].own = new
  BY FlushLands DEF Landed
<1> SUFFICES ASSUME NEW i \in Ids, NEW j \in Ids, i # j,
                    Conflict(Seen(catalog, new)[i], Seen(catalog, new)[j])
             PROVE  FALSE
  BY <1>1 DEF Free
<1>2. Clash(Seen(catalog, new), i, j) /\ Clash(Seen(catalog, new), j, i)
  BY DEF Clash, Conflict
<1>3. new[i] = None /\ new[j] = None
  BY <1>1, <1>2 DEF FlushFails, Seen
<1>4. Conflict(catalog[i], catalog[j])
  BY <1>3 DEF Seen
<1>5. i \in Rows(catalog, "schedule") /\ j \in Rows(catalog, "schedule")
  BY <1>4 DEF Conflict, Rows
<1> QED
  BY <1>4, <1>5 DEF Inv, TypeOK, Sound, Conflict

\* A row or a slot that another request has taken is waited for.
LEMMA FlushApart ==
  ASSUME Inv, NEW r \in Requests, Flush(r), ~End(r, "failed"), NEW q \in Requests, q # r,
         NEW i \in Ids, NEW j \in Ids, Flushed(r)[i] # None, tx[q].own[j] # None
  PROVE  i # j /\ ~Conflict(Flushed(r)[i], tx[q].own[j])
<1> PICK new : new = Flushed(r)
  OBVIOUS
<1>1. Places(tx[r]) # {} /\ ~FlushFails(r) /\ ~MustWait(r)
  BY FlushLands
<1>2. /\ j \notin Touched(tx[r])
      /\ ~Clash([new EXCEPT ![j] = tx[q].own[j]], i, j)
  BY <1>1 DEF MustWait, Others
<1>3. i # j
  <2> SUFFICES ASSUME i = j
               PROVE  FALSE
    OBVIOUS
  <2>1. new[i] = tx[r].own[i]
    BY <1>1, <1>2, FlushedRow
  <2> QED
    BY <2>1 DEF Inv, Apart
<1>4. new = [k \in Ids |-> new[k]]
  BY DEF Flushed
<1>5. /\ [new EXCEPT ![j] = tx[q].own[j]][i] = new[i]
      /\ [new EXCEPT ![j] = tx[q].own[j]][j] = tx[q].own[j]
  BY <1>3, <1>4
<1> QED
  BY <1>2, <1>3, <1>5 DEF Clash, Conflict

LEMMA FlushKeeps ==
  ASSUME Inv, NEW r \in Requests, Flush(r)
  PROVE  Inv'
<1>1. CASE End(r, "failed")
  BY <1>1, EndKeeps DEF Over
<1>2. CASE ~End(r, "failed")
  <2>1. /\ tx' = [tx EXCEPT ![r] = tx'[r]] /\ catalog' = catalog
        /\ tx'[r] \in Request /\ tx'[r].own = Flushed(r)
    BY <1>2, FlushLands DEF Landed
  <2>2. \A q \in Requests \ {r} : tx'[q] = tx[q]
    BY <2>1 DEF Inv, TypeOK
  <2>3. TypeOK'
    BY <2>1 DEF Inv, TypeOK
  <2>4. Fits(catalog, tx'[r]) /\ Free(catalog, tx'[r])
    BY <1>2, FlushGrounded, FlushStaged, FlushFree DEF Fits
  <2>5. \A q \in Requests : Fits(catalog, tx'[q]) /\ Free(catalog, tx'[q])
    BY <2>2, <2>4 DEF Inv
  <2>6. \A q \in Requests \ {r}, i, j \in Ids :
          tx'[q].own[j] # None /\ tx'[r].own[i] # None =>
            i # j /\ ~Conflict(tx'[r].own[i], tx'[q].own[j])
    BY <1>2, <2>1, <2>2, FlushApart
  <2>7. \A a, b : Conflict(a, b) => Conflict(b, a)
    BY DEF Conflict
  <2>8. ASSUME NEW p \in Requests, NEW q \in Requests, p # q, NEW i \in Ids, NEW j \in Ids,
               tx'[p].own[i] # None, tx'[q].own[j] # None
        PROVE  i # j /\ ~Conflict(tx'[p].own[i], tx'[q].own[j])
    <3>1. CASE p = r
      BY <2>6, <2>8, <3>1
    <3>2. CASE q = r
      BY <2>6, <2>7, <2>8, <3>2
    <3>3. CASE p # r /\ q # r
      BY <2>2, <2>8, <3>3 DEF Inv, Apart
    <3> QED
      BY <3>1, <3>2, <3>3
  <2> QED
    BY <2>1, <2>3, <2>5, <2>8 DEF Inv, Apart
<1> QED
  BY <1>1, <1>2

-----------------------------------------------------------------------------
(* The commit.                                                              *)

LEMMA CommitRows ==
  ASSUME Inv, NEW r \in Requests, Commit(r)
  PROVE  /\ catalog' = Seen(catalog, tx[r].own)
         /\ catalog' \in [Ids -> Row \cup {None, Gone}]
         /\ \A i \in Ids : catalog'[i] = IF tx[r].own[i] # None THEN tx[r].own[i] ELSE catalog[i]
         /\ \A i \in Ids : catalog[i] # None =>
                catalog'[i] # None /\ (i \in Rows(catalog', "barber") <=> i \in Rows(catalog, "barber"))
<1>1. catalog' = Seen(catalog, tx[r].own)
  BY DEF Commit, View, Seen
<1>2. /\ tx[r].own \in [Ids -> Row \cup {None, Gone}]
      /\ catalog \in [Ids -> Row \cup {None, Gone}]
      /\ \A i \in Ids : tx[r].own[i] # None => Replaces(catalog, tx[r].own, i)
  BY DEF Inv, TypeOK, Request, Fits, Grounded
<1>3. \A i \in Ids : catalog'[i] = IF tx[r].own[i] # None THEN tx[r].own[i] ELSE catalog[i]
  BY <1>1 DEF Seen
<1>4. catalog' \in [Ids -> Row \cup {None, Gone}]
  BY <1>1, <1>2 DEF Seen
<1>5. ASSUME NEW i \in Ids, catalog[i] # None
      PROVE  /\ catalog'[i] # None
             /\ i \in Rows(catalog', "barber") <=> i \in Rows(catalog, "barber")
  BY <1>2, <1>3, <1>5, Distinct DEF Replaces, Rows
<1> QED
  BY <1>1, <1>3, <1>4, <1>5

LEMMA CommitSound ==
  ASSUME Inv, NEW r \in Requests, Commit(r)
  PROVE  Sound(catalog')
<1> PICK d : d = catalog'
  OBVIOUS
<1> PICK own : own = tx[r].own
  OBVIOUS
<1>1. /\ d = Seen(catalog, own)
      /\ \A i \in Ids : d[i] = IF own[i] # None THEN own[i] ELSE catalog[i]
  BY CommitRows
<1>2. \A i, j \in Ids : i # j => ~Conflict(d[i], d[j])
  BY <1>1 DEF Inv, Free
<1>3. \A i, j \in Rows(d, "schedule") : i # j => <<d[i].of, d[i].key>> # <<d[j].of, d[j].key>>
  BY <1>2 DEF Conflict, Rows
<1>4. ASSUME NEW i \in Rows(d, "schedule")
      PROVE  d[i].of \in Rows(d, "barber")
  <2>1. i \in Ids /\ d[i] \in Row /\ d[i].kind = "schedule"
    BY DEF Rows
  <2>2. CASE own[i] # None
    <3>1. i \in Rows(own, "schedule") /\ d[i] = own[i]
      BY <1>1, <2>1, <2>2 DEF Rows
    <3> QED
      BY <1>1, <3>1 DEF Inv, Fits, Grounded
  <2>3. CASE own[i] = None
    <3>1. i \in Rows(catalog, "schedule") /\ d[i] = catalog[i]
      BY <1>1, <2>1, <2>3 DEF Rows
    <3>2. d[i].of \in Rows(catalog, "barber")
      BY <3>1 DEF Inv, TypeOK, Sound
    <3>3. Rows(catalog, "barber") \subseteq Rows(d, "barber")
      BY <1>1, SeenBarbers DEF Inv, Fits, Grounded
    <3> QED
      BY <3>2, <3>3
  <2> QED
    BY <2>2, <2>3
<1> QED
  BY <1>3, <1>4 DEF Sound

\* What a commit leaves of the request that commits, and of another.
Stored(t, u) ==
    /\ u.own = Nothing
    /\ IF t.op \in {"import", "template"}
       THEN /\ u.pc = "stored" /\ u.op = t.op /\ u.kind = t.kind /\ u.sheet = t.sheet
            /\ u.create = t.create /\ u.update = t.update /\ u.barbers = t.barbers
            /\ u.inserts = t.inserts /\ u.remove = t.remove /\ u.changes = t.changes
       ELSE u = Left(t, "done")

Passed(t, u) ==
    /\ u.pc = t.pc /\ u.op = t.op /\ u.kind = t.kind /\ u.sheet = t.sheet
    /\ u.create = t.create /\ u.update = t.update /\ u.barbers = t.barbers
    /\ u.inserts = t.inserts /\ u.remove = t.remove /\ u.changes = t.changes
    /\ u.loaded = t.loaded /\ u.own = t.own /\ u.again = t.again
    /\ u.overtaken = (t.pc \in Stages \/ t.overtaken)

LEMMA CommitTx ==
  ASSUME Inv, NEW r \in Requests, Commit(r)
  PROVE  /\ tx' \in [Requests -> Request] /\ Stored(tx[r], tx'[r])
         /\ \A q \in Requests \ {r} : Passed(tx[q], tx'[q])
<1>1. tx \in [Requests -> Request]
  BY DEF Inv, TypeOK
<1>2. tx' = [q \in Requests |->
                IF q = r THEN IF tx[r].op \in {"import", "template"}
                              THEN [tx[r] EXCEPT !.pc = "stored", !.own = Nothing]
                              ELSE Left(tx[r], "done")
                ELSE IF tx[q].pc \in Stages THEN [tx[q] EXCEPT !.overtaken = TRUE]
                ELSE tx[q]]
  BY DEF Commit
<1>3. tx'[r] \in Request /\ Stored(tx[r], tx'[r])
  <2>1. CASE tx[r].op \in {"import", "template"}
    <3>1. tx'[r] = [tx[r] EXCEPT !.pc = "stored", !.own = Nothing]
      BY <1>2, <2>1
    <3>2. tx'[r] \in Request
      BY <1>1, <3>1, IdleType DEF Request, Stages
    <3>3. Stored(tx[r], tx'[r])
      BY <1>1, <2>1, <3>1 DEF Request, Stored
    <3> QED
      BY <3>2, <3>3
  <2>2. CASE tx[r].op \notin {"import", "template"}
    <3>1. tx'[r] = Left(tx[r], "done") /\ "done" \in Over
      BY <1>2, <2>2 DEF Over
    <3> QED
      BY <1>1, <2>2, <3>1, LeftType DEF Stored
  <2> QED
    BY <2>1, <2>2
<1>4. ASSUME NEW q \in Requests \ {r}
      PROVE  tx'[q] \in Request /\ Passed(tx[q], tx'[q])
  <2> PICK t : t = tx[q]
    OBVIOUS
  <2> PICK u : u = tx'[q]
    OBVIOUS
  <2>1. t \in Request
    BY <1>1
  <2>2. CASE t.pc \in Stages
    <3>1. u = [t EXCEPT !.overtaken = TRUE]
      BY <1>2, <2>2
    <3>2. u \in Request
      BY <2>1, <3>1 DEF Request
    <3>3. Passed(t, u)
      BY <2>1, <2>2, <3>1 DEF Request, Passed
    <3> QED
      BY <3>2, <3>3
  <2>3. CASE t.pc \notin Stages
    <3>1. u = t
      BY <1>2, <2>3
    <3>2. t.overtaken \in BOOLEAN
      BY <2>1 DEF Request
    <3> QED
      BY <2>1, <2>3, <3>1, <3>2 DEF Passed
  <2> QED
    BY <2>2, <2>3
<1>5. tx' = [q \in Requests |-> tx'[q]]
  BY <1>2
<1>6. tx' \in [Requests -> Request]
  BY <1>3, <1>4, <1>5
<1> QED
  BY <1>3, <1>4, <1>6

LEMMA CommitOwn ==
  ASSUME Inv, NEW r \in Requests, Commit(r)
  PROVE  Fits(catalog', tx'[r]) /\ Free(catalog', tx'[r])
<1> PICK t : t = tx[r]
  OBVIOUS
<1> PICK u : u = tx'[r]
  OBVIOUS
<1>1. Stored(t, u) /\ t \in Request /\ Staged(t) /\ Grounded(catalog, t)
  BY CommitTx DEF Inv, TypeOK, Fits
<1>2. u.own = Nothing
  BY <1>1 DEF Stored
<1>3. Free(catalog', u)
  BY <1>2, CommitSound, FreeAtStart
<1>4. CASE t.op \in {"import", "template"}
  <2>1. /\ u.pc = "stored" /\ u.op = t.op /\ u.kind = t.kind /\ u.sheet = t.sheet
        /\ u.create = t.create /\ u.update = t.update /\ u.barbers = t.barbers
        /\ u.inserts = t.inserts /\ u.remove = t.remove /\ u.changes = t.changes
    BY <1>1, <1>4 DEF Stored
  <2>2. Staged(u) /\ KnowsBarbers(u)
    BY <1>1, <1>2, <2>1 DEF Staged, KnowsBarbers, Writing
  <2>3. Seen(catalog, t.own) = catalog'
    BY CommitRows
  <2>4. Rows(Seen(catalog', Nothing), "barber") = Rows(catalog', "barber")
    BY EmptyHanded DEF Rows
  <2>5. /\ \A k \in Keys : u.barbers[k] # None => u.barbers[k] \in Rows(catalog', "barber")
        /\ \A j \in Inserts(u) :
              u.inserts[j].kind = "schedule" => u.inserts[j].of \in Rows(catalog', "barber")
    BY <1>1, <2>1, <2>3 DEF Grounded, Inserts
  <2>6. \A i \in Ids : u.changes[i] # None => catalog'[i] # None
    BY <1>1, <2>1, CommitRows DEF Grounded
  <2>7. u.remove \in Ids => catalog'[u.remove] # None /\ u.remove \notin Rows(catalog', "barber")
    BY <1>1, <2>1, CommitRows DEF Grounded
  <2>8. Rows(u.own, "schedule") = {} /\ \A i \in Ids : u.own[i] = None
    BY <1>2, EmptyHanded
  <2>9. Grounded(catalog', u)
    BY <1>2, <2>4, <2>5, <2>6, <2>7, <2>8 DEF Grounded
  <2> QED
    BY <1>3, <2>2, <2>9 DEF Fits
<1>5. CASE t.op \notin {"import", "template"}
  <2>1. u = Left(t, "done") /\ "done" \in Over
    BY <1>1, <1>5 DEF Stored, Over
  <2> QED
    BY <1>1, <1>3, <2>1, LeftFits DEF Staged
<1> QED
  BY <1>4, <1>5

LEMMA CommitOthers ==
  ASSUME Inv, NEW r \in Requests, Commit(r), NEW q \in Requests \ {r}
  PROVE  Fits(catalog', tx'[q]) /\ Free(catalog', tx'[q])
<1> PICK t : t = tx[q]
  OBVIOUS
<1> PICK u : u = tx'[q]
  OBVIOUS
<1> PICK d : d = catalog'
  OBVIOUS
<1> PICK own : own = tx[r].own
  OBVIOUS
<1>1. Passed(t, u) /\ t \in Request /\ Staged(t) /\ Grounded(catalog, t) /\ KnowsBarbers(t)
  BY CommitTx DEF Inv, TypeOK, Fits
<1>2. /\ u.pc = t.pc /\ u.op = t.op /\ u.kind = t.kind /\ u.sheet = t.sheet
      /\ u.create = t.create /\ u.update = t.update /\ u.barbers = t.barbers
      /\ u.inserts = t.inserts /\ u.remove = t.remove /\ u.changes = t.changes
      /\ u.own = t.own
  BY <1>1 DEF Passed
<1>3. Staged(u) /\ KnowsBarbers(u)
  BY <1>1, <1>2 DEF Staged, KnowsBarbers, Inserts
<1>4. /\ \A i \in Ids : d[i] = IF own[i] # None THEN own[i] ELSE catalog[i]
      /\ \A i \in Ids : catalog[i] # None =>
            d[i] # None /\ (i \in Rows(d, "barber") <=> i \in Rows(catalog, "barber"))
      /\ d = Seen(catalog, own)
  BY CommitRows
<1>5. \A i, j \in Ids : t.own[i] # None /\ own[j] # None =>
            i # j /\ ~Conflict(t.own[i], own[j]) /\ ~Conflict(own[j], t.own[i])
  <2> SUFFICES ASSUME NEW i \in Ids, NEW j \in Ids, t.own[i] # None, own[j] # None
               PROVE  i # j /\ ~Conflict(t.own[i], own[j]) /\ ~Conflict(own[j], t.own[i])
    OBVIOUS
  <2>1. i # j /\ ~Conflict(t.own[i], own[j])
    BY DEF Inv, Apart
  <2>2. ~Conflict(own[j], t.own[i])
    BY DEF Inv, Apart
  <2> QED
    BY <2>1, <2>2
<1>6. \A i \in Ids : t.own[i] # None => d[i] = catalog[i]
  BY <1>4, <1>5
<1>7. Rows(Seen(catalog, t.own), "barber") \subseteq Rows(Seen(d, t.own), "barber")
  <2> SUFFICES ASSUME NEW i \in Rows(Seen(catalog, t.own), "barber")
               PROVE  i \in Rows(Seen(d, t.own), "barber")
    OBVIOUS
  <2>1. CASE t.own[i] # None
    BY <2>1 DEF Rows, Seen
  <2>2. CASE t.own[i] = None
    <3>1. i \in Rows(catalog, "barber") /\ catalog[i] # None
      BY <2>2, Distinct DEF Rows, Seen
    <3>2. i \in Rows(d, "barber")
      BY <1>4, <3>1 DEF Rows
    <3> QED
      BY <2>2, <3>2 DEF Rows, Seen
  <2> QED
    BY <2>1, <2>2
<1>8. Grounded(d, u)
  <2>1. \A i \in Ids : u.own[i] # None => Replaces(d, u.own, i)
    BY <1>1, <1>2, <1>6 DEF Grounded, Replaces
  <2>2. \A i \in Rows(u.own, "schedule") : u.own[i].of \in Rows(Seen(d, u.own), "barber")
    BY <1>1, <1>2, <1>7 DEF Grounded
  <2>3. \A j \in Inserts(u) : u.inserts[j].kind = "schedule" =>
            u.inserts[j].of \in Rows(Seen(d, u.own), "barber")
    BY <1>1, <1>2, <1>7 DEF Grounded, Inserts
  <2>4. \A k \in Keys : u.barbers[k] # None => u.barbers[k] \in Rows(Seen(d, u.own), "barber")
    BY <1>1, <1>2, <1>7 DEF Grounded
  <2>5. \A i \in Ids : u.changes[i] # None => d[i] # None
    BY <1>1, <1>2, <1>4 DEF Grounded
  <2>6. u.remove \in Ids => d[u.remove] # None /\ u.remove \notin Rows(d, "barber")
    BY <1>1, <1>2, <1>4 DEF Grounded
  <2> QED
    BY <2>1, <2>2, <2>3, <2>4, <2>5, <2>6 DEF Grounded
<1>9. Free(d, u)
  <2> SUFFICES ASSUME NEW i \in Ids, NEW j \in Ids, i # j,
                      Conflict(Seen(d, t.own)[i], Seen(d, t.own)[j])
               PROVE  FALSE
    BY <1>2 DEF Free
  <2>1. \A k \in Ids : Seen(d, t.own)[k] = IF t.own[k] # None THEN t.own[k]
                                           ELSE IF own[k] # None THEN own[k] ELSE catalog[k]
    BY <1>4 DEF Seen
  <2>2. /\ ~Conflict(Seen(catalog, t.own)[i], Seen(catalog, t.own)[j])
        /\ ~Conflict(Seen(catalog, own)[i], Seen(catalog, own)[j])
    BY DEF Inv, Free
  <2>3. \A k \in {i, j} :
          /\ Seen(catalog, t.own)[k] = IF t.own[k] # None THEN t.own[k] ELSE catalog[k]
          /\ Seen(catalog, own)[k] = IF own[k] # None THEN own[k] ELSE catalog[k]
    BY DEF Seen
  <2> QED
    BY <1>5, <2>1, <2>2, <2>3
<1> QED
  BY <1>3, <1>8, <1>9 DEF Fits

LEMMA CommitKeeps ==
  ASSUME Inv, NEW r \in Requests, Commit(r)
  PROVE  Inv'
<1>1. TypeOK'
  BY CommitTx, CommitRows, CommitSound DEF TypeOK
<1>2. \A q \in Requests : Fits(catalog', tx'[q]) /\ Free(catalog', tx'[q])
  BY CommitOwn, CommitOthers
<1>3. tx'[r].own = Nothing /\ \A q \in Requests \ {r} : tx'[q].own = tx[q].own
  BY CommitTx DEF Stored, Passed
<1>4. \A i \in Ids : Nothing[i] = None
  BY EmptyHanded
<1>5. ASSUME NEW p \in Requests, NEW q \in Requests, p # q, NEW i \in Ids, NEW j \in Ids,
             tx'[p].own[i] # None, tx'[q].own[j] # None
      PROVE  i # j /\ ~Conflict(tx'[p].own[i], tx'[q].own[j])
  <2>1. p # r /\ q # r
    BY <1>3, <1>4, <1>5
  <2> QED
    BY <1>3, <1>5, <2>1 DEF Inv, Apart
<1> QED
  BY <1>1, <1>2, <1>5 DEF Inv, Apart

-----------------------------------------------------------------------------
(* Every step keeps the invariant.                                          *)

LEMMA InitInv == Init => Inv
<1> SUFFICES ASSUME Init
             PROVE  Inv
  OBVIOUS
<1>1. TypeOK
  BY CatalogAssumption, IdleType DEF Init, TypeOK
<1>2. \A r \in Requests : tx[r] = Idle
  BY DEF Init
<1>3. Free(catalog, Idle)
  BY <1>1, IdleType, FreeAtStart DEF TypeOK
<1>4. Grounded(catalog, Idle)
  BY IdleType, EmptyHanded, Distinct, FreshGrounded
<1>5. Staged(Idle) /\ KnowsBarbers(Idle)
  BY IdleType DEF Staged, KnowsBarbers, Writing
<1>6. Apart
  BY <1>2, IdleType, EmptyHanded DEF Apart
<1> QED
  BY <1>1, <1>2, <1>3, <1>4, <1>5, <1>6 DEF Inv, Fits

LEMMA ImportStep ==
  ASSUME Inv, NEW r \in Requests, Import(r)
  PROVE  Inv'
<1>1. \/ \E kind \in Kinds : Preview(r, kind) \/ ApplyImport(r, kind)
      \/ ApplyAgain(r)
  BY DEF Import, Kinds, PreviewServicesImport, PreviewBarbersImport, PreviewSchedulesImport,
         ApplyServicesImport, ApplyBarbersImport, ApplySchedulesImport
<1> QED
  BY <1>1, PreviewKeeps, ApplyImportKeeps, ApplyAgainKeeps

LEMMA OnboardStep ==
  ASSUME Inv, NEW r \in Requests, Onboard(r)
  PROVE  Inv'
  BY ApplyTemplateKeeps, TemplateBarbersKeeps, TemplateSchedulesKeeps DEF Onboard

LEMMA SingleRowStep ==
  ASSUME Inv, NEW r \in Requests, SingleRow(r)
  PROVE  Inv'
<1>1. ASSUME NEW kind \in Kinds, Editing(r, kind)
      PROVE  Inv'
  BY <1>1, EditingKeeps
<1>2. CASE UpdateService(r) \/ UpdateBarber(r) \/ UpdateSchedule(r)
  BY <1>1, <1>2 DEF UpdateService, UpdateBarber, UpdateSchedule, Kinds
<1>3. CASE CreateService(r)
  <2>1. PICK k \in Keys, v \in Values :
          Inserting(r, [kind |-> "service", of |-> None, key |-> k, value |-> v])
    BY <1>3 DEF CreateService
  <2>2. [kind |-> "service", of |-> None, key |-> k, value |-> v] \in Row
    BY DEF Row, Kinds
  <2> QED
    BY <2>1, <2>2, InsertingKeeps
<1>4. CASE CreateBarber(r)
  <2>1. PICK k \in Keys, v \in Values :
          Inserting(r, [kind |-> "barber", of |-> None, key |-> k, value |-> v])
    BY <1>4 DEF CreateBarber
  <2>2. [kind |-> "barber", of |-> None, key |-> k, value |-> v] \in Row
    BY DEF Row, Kinds
  <2> QED
    BY <2>1, <2>2, InsertingKeeps
<1>5. CASE CreateSchedule(r)
  <2>1. PICK b \in Rows(catalog, "barber"), k \in Keys, v \in Values :
          Inserting(r, [kind |-> "schedule", of |-> b, key |-> k, value |-> v])
    BY <1>5 DEF CreateSchedule
  <2>2. [kind |-> "schedule", of |-> b, key |-> k, value |-> v] \in Row
    BY DEF Row, Rows, Kinds
  <2> QED
    BY <2>1, <2>2, InsertingKeeps
<1>6. CASE DeleteService(r) \/ DeleteSchedule(r)
  <2>1. \/ End(r, "refused")
        \/ \E i \in Rows(catalog, "service") \cup Rows(catalog, "schedule") : Deleting(r, i)
    BY <1>6 DEF DeleteService, DeleteSchedule
  <2>2. "refused" \in Over
    BY DEF Over
  <2> QED
    BY <2>1, <2>2, EndKeeps, DeletingKeeps
<1> QED
  BY <1>2, <1>3, <1>4, <1>5, <1>6 DEF SingleRow

LEMMA EndStep ==
  ASSUME Inv, NEW r \in Requests, Audit(r) \/ Crash(r)
  PROVE  Inv'
<1>1. \E pc \in Over : End(r, pc)
  BY DEF Audit, Crash, Over
<1> QED
  BY <1>1, EndKeeps

LEMMA StutterKeeps ==
  ASSUME Inv, UNCHANGED vars
  PROVE  Inv'
<1>1. catalog' = catalog /\ tx' = tx
  BY DEF vars
<1> QED
  BY <1>1 DEF Inv, TypeOK, Apart

LEMMA StepKeeps ==
  ASSUME Inv, [Next]_vars
  PROVE  Inv'
<1>1. ASSUME NEW r \in Requests, Import(r) \/ Onboard(r) \/ SingleRow(r)
      PROVE  Inv'
  BY <1>1, ImportStep, OnboardStep, SingleRowStep
<1>2. ASSUME NEW r \in Requests, Statement(r) \/ Crash(r)
      PROVE  Inv'
  BY <1>2, FlushKeeps, CommitKeeps, EndStep DEF Statement
<1>3. CASE UNCHANGED vars
  BY <1>3, StutterKeeps
<1> QED
  BY <1>1, <1>2, <1>3 DEF Next, Terminated

LEMMA InvAlways == Spec => []Inv
<1>1. Inv /\ [Next]_vars => Inv'
  BY StepKeeps
<1> QED
  BY <1>1, InitInv, PTL DEF Spec

\* Rows and requests are well formed, a schedule has a barber, and no barber has two
\* schedules that start together, whichever routes, imports and templates overlap.
THEOREM TypesOfCatalog == Spec => []TypeOK
<1>1. Inv => TypeOK
  BY DEF Inv
<1> QED
  BY <1>1, InvAlways, PTL

-----------------------------------------------------------------------------
(* What a step does to one request.                                         *)

Moves(r) ==
    \/ tx'[r] = tx[r] /\ catalog' = catalog
    \/ Passed(tx[r], tx'[r]) /\ \E q \in Requests \ {r} : Commit(q)
    \/ tx'[r].pc \in Over
    \/ tx'[r].pc = "flush" /\ tx'[r].op \in {"create", "edit", "delete"}
    \/ \E kind \in Kinds :
        \/ Preview(r, kind) /\ ~End(r, "failed")
        \/ ApplyImport(r, kind) /\ ~End(r, "refused")
    \/ ApplyAgain(r)
    \/ ApplyTemplate(r)
    \/ TemplateBarbers(r) /\ ~End(r, "failed")
    \/ TemplateSchedules(r) /\ ~End(r, "failed")
    \/ Flush(r) /\ ~End(r, "failed")
    \/ Commit(r)

LEMMA GoesTo ==
  ASSUME Inv, NEW r \in Requests, NEW t, Go(r, t)
  PROVE  tx'[r] = t /\ catalog' = catalog /\ \A q \in Requests \ {r} : tx'[q] = tx[q]
  BY DEF Go, Inv, TypeOK

LEMMA EndMoves ==
  ASSUME Inv, NEW r \in Requests, NEW pc \in Over, End(r, pc)
  PROVE  tx'[r].pc \in Over /\ catalog' = catalog /\ \A q \in Requests \ {r} : tx'[q] = tx[q]
<1>1. tx[r] \in Request
  BY DEF Inv, TypeOK
<1> QED
  BY <1>1, GoesTo, LeftType DEF End

LEMMA SingleRowMoves ==
  ASSUME Inv, NEW r \in Requests, SingleRow(r)
  PROVE  /\ catalog' = catalog /\ \A q \in Requests \ {r} : tx'[q] = tx[q]
         /\ tx'[r].pc \in Over \/ (tx'[r].pc = "flush" /\ tx'[r].op \in {"create", "edit", "delete"})
<1>1. ASSUME NEW row, Inserting(r, row)
      PROVE  /\ catalog' = catalog /\ \A q \in Requests \ {r} : tx'[q] = tx[q]
             /\ tx'[r].pc = "flush" /\ tx'[r].op \in {"create", "edit", "delete"}
  <2> DEFINE u == [Idle EXCEPT !.pc = "flush", !.op = "create", !.inserts[1] = row]
  <2>1. u.pc = "flush" /\ u.op = "create"
    BY DEF Idle
  <2>2. Go(r, u)
    BY <1>1 DEF Inserting
  <2> HIDE DEF u
  <2> QED
    BY <2>1, <2>2, GoesTo
<1>2. ASSUME NEW kind, Editing(r, kind)
      PROVE  /\ catalog' = catalog /\ \A q \in Requests \ {r} : tx'[q] = tx[q]
             /\ tx'[r].pc = "flush" /\ tx'[r].op \in {"create", "edit", "delete"}
  <2>1. PICK i \in Rows(catalog, kind), to \in Change :
          Go(r, [Idle EXCEPT !.pc = "flush", !.op = "edit", !.loaded[i] = catalog[i],
                             !.changes[i] = to])
    BY <1>2 DEF Editing
  <2> DEFINE u == [Idle EXCEPT !.pc = "flush", !.op = "edit", !.loaded[i] = catalog[i],
                               !.changes[i] = to]
  <2>2. u.pc = "flush" /\ u.op = "edit"
    BY DEF Idle
  <2>3. Go(r, u)
    BY <2>1
  <2> HIDE DEF u
  <2> QED
    BY <2>2, <2>3, GoesTo
<1>3. ASSUME NEW i, Deleting(r, i)
      PROVE  /\ catalog' = catalog /\ \A q \in Requests \ {r} : tx'[q] = tx[q]
             /\ tx'[r].pc = "flush" /\ tx'[r].op \in {"create", "edit", "delete"}
  <2> DEFINE u == [Idle EXCEPT !.pc = "flush", !.op = "delete", !.remove = i]
  <2>1. u.pc = "flush" /\ u.op = "delete"
    BY DEF Idle
  <2>2. Go(r, u)
    BY <1>3 DEF Deleting
  <2> HIDE DEF u
  <2> QED
    BY <2>1, <2>2, GoesTo
<1>4. CASE CreateService(r) \/ CreateBarber(r) \/ CreateSchedule(r)
  <2>1. \E row : Inserting(r, row)
    BY <1>4 DEF CreateService, CreateBarber, CreateSchedule
  <2> QED
    BY <1>1, <2>1
<1>5. CASE UpdateService(r) \/ UpdateBarber(r) \/ UpdateSchedule(r)
  BY <1>2, <1>5 DEF UpdateService, UpdateBarber, UpdateSchedule
<1>6. CASE DeleteService(r) \/ DeleteSchedule(r)
  <2>1. End(r, "refused") \/ \E i : Deleting(r, i)
    BY <1>6 DEF DeleteService, DeleteSchedule
  <2>2. "refused" \in Over
    BY DEF Over
  <2> QED
    BY <1>3, <2>1, <2>2, EndMoves
<1> QED
  BY <1>4, <1>5, <1>6 DEF SingleRow

\* One request takes the step; only a commit changes the catalog or another request.
LEMMA OneMoves ==
  ASSUME Inv, NEW r \in Requests,
         Import(r) \/ Onboard(r) \/ SingleRow(r) \/ Statement(r) \/ Crash(r)
  PROVE  \/ Commit(r)
         \/ /\ Moves(r)
            /\ catalog' = catalog /\ \A q \in Requests \ {r} : tx'[q] = tx[q]
<1> DEFINE Alone == catalog' = catalog /\ \A q \in Requests \ {r} : tx'[q] = tx[q]
<1>1. ASSUME NEW pc \in Over, End(r, pc)
      PROVE  Moves(r) /\ Alone
  BY <1>1, EndMoves DEF Moves
<1>2. "failed" \in Over /\ "refused" \in Over /\ "done" \in Over /\ "unaudited" \in Over
  BY DEF Over
<1>3. \A t : Go(r, t) => Alone
  BY GoesTo
<1>4. CASE Import(r)
  <2>1. ASSUME NEW kind \in Kinds, Preview(r, kind)
        PROVE  Moves(r) /\ Alone
    <3>1. CASE End(r, "failed")
      BY <1>1, <1>2, <3>1
    <3>2. CASE ~End(r, "failed")
      <4>1. \E t : Go(r, t)
        BY <2>1, <3>2 DEF Preview
      <4> QED
        BY <1>3, <2>1, <3>2, <4>1 DEF Moves
    <3> QED
      BY <3>1, <3>2
  <2>2. ASSUME NEW kind \in Kinds, ApplyImport(r, kind)
        PROVE  Moves(r) /\ Alone
    <3>1. CASE End(r, "refused")
      BY <1>1, <1>2, <3>1
    <3>2. CASE ~End(r, "refused")
      <4>1. \E t : Go(r, t)
        BY <2>2, <3>2, ApplyImportSends
      <4> QED
        BY <1>3, <2>2, <3>2, <4>1 DEF Moves
    <3> QED
      BY <3>1, <3>2
  <2>3. ASSUME ApplyAgain(r)
        PROVE  Moves(r) /\ Alone
    BY <1>3, <2>3 DEF ApplyAgain, Moves
  <2>4. \/ \E kind \in Kinds : Preview(r, kind) \/ ApplyImport(r, kind)
        \/ ApplyAgain(r)
    BY <1>4 DEF Import, Kinds, PreviewServicesImport, PreviewBarbersImport,
                PreviewSchedulesImport, ApplyServicesImport, ApplyBarbersImport,
                ApplySchedulesImport
  <2> QED
    BY <2>1, <2>2, <2>3, <2>4
<1>5. CASE Onboard(r)
  <2>1. ASSUME ApplyTemplate(r)
        PROVE  Moves(r) /\ Alone
    BY <1>3, <2>1 DEF ApplyTemplate, Moves
  <2>2. ASSUME TemplateBarbers(r)
        PROVE  Moves(r) /\ Alone
    <3>1. CASE End(r, "failed")
      BY <1>1, <1>2, <3>1
    <3>2. CASE ~End(r, "failed")
      BY <1>3, <2>2, <3>2, TemplateBarbersSends DEF Moves
    <3> QED
      BY <3>1, <3>2
  <2>3. ASSUME TemplateSchedules(r)
        PROVE  Moves(r) /\ Alone
    <3>1. CASE End(r, "failed")
      BY <1>1, <1>2, <3>1
    <3>2. CASE ~End(r, "failed")
      BY <1>3, <2>3, <3>2, TemplateSchedulesSends DEF Moves
    <3> QED
      BY <3>1, <3>2
  <2> QED
    BY <1>5, <2>1, <2>2, <2>3 DEF Onboard
<1>6. CASE SingleRow(r)
  BY <1>6, SingleRowMoves DEF Moves
<1>7. CASE Flush(r)
  <2>1. CASE End(r, "failed")
    BY <1>1, <1>2, <2>1
  <2>2. CASE ~End(r, "failed")
    <3>1. catalog' = catalog /\ tx' = [tx EXCEPT ![r] = tx'[r]]
      BY <1>7, <2>2, FlushLands
    <3>2. Alone
      BY <3>1 DEF Inv, TypeOK
    <3> QED
      BY <1>7, <2>2, <3>2 DEF Moves
  <2> QED
    BY <2>1, <2>2
<1>8. CASE Audit(r) \/ Crash(r)
  <2>1. \E pc \in Over : End(r, pc)
    BY <1>2, <1>8 DEF Audit, Crash
  <2> QED
    BY <1>1, <2>1
<1> QED
  BY <1>4, <1>5, <1>6, <1>7, <1>8 DEF Statement

LEMMA EachMoves ==
  ASSUME Inv, [Next]_vars, NEW r \in Requests
  PROVE  Moves(r)
<1>1. CASE UNCHANGED vars
  BY <1>1 DEF vars, Moves
<1>2. ASSUME NEW q \in Requests,
             Import(q) \/ Onboard(q) \/ SingleRow(q) \/ Statement(q) \/ Crash(q)
      PROVE  Moves(r)
  <2>1. CASE Commit(q)
    BY <2>1, CommitTx DEF Moves
  <2>2. CASE ~Commit(q) /\ q = r
    BY <1>2, <2>2, OneMoves
  <2>3. CASE ~Commit(q) /\ q # r
    BY <1>2, <2>3, OneMoves DEF Moves
  <2> QED
    BY <2>1, <2>2, <2>3
<1> QED
  BY <1>1, <1>2 DEF Next, Terminated

-----------------------------------------------------------------------------
(* The template adds what is missing.                                       *)

\* What no two rows of a kind should have alike: a barber has one schedule of the weekday.
Mark(row) == IF row.kind = "schedule" THEN row.of ELSE row.key

NoTwins(c, d) ==
    \A i \in Added(c, d), j \in Ids :
        i # j /\ d[j] \in Row /\ d[j].kind = d[i].kind => Mark(d[j]) # Mark(d[i])

Covered(d, kind) ==
    \A k \in DOMAIN Template[kind] : Named(d, kind, Template[kind][k].key) # {}

Scheduled(d) ==
    \A k \in DOMAIN Template["schedule"] : \E i \in Rows(d, "schedule") :
        d[i].of \in Named(d, "barber", Template["schedule"][k].name)

KnownBarbers(d, t) ==
    \A k \in TemplateNames : t.barbers[k] # None => t.barbers[k] \in Named(d, "barber", k)

\* The schedules to insert, each of a barber that has the name and no schedule yet.
Assigned(d, t) ==
    \A j \in Positions :
        IF j \notin DOMAIN Template["schedule"] THEN t.inserts[j] = None
        ELSE \E b \in Named(d, "barber", Template["schedule"][j].name) :
                t.inserts[j] = IF \A i \in Rows(d, "schedule") : d[i].of # b
                               THEN NewRow("schedule", b, Template["schedule"][j]) ELSE None

Onboarding(t) == t.op = "template" /\ t.pc \in Writing

\* A template has nothing to change or to remove, and all that it has written is new.
OnlyAdds(c, t) ==
    /\ t.changes = Nothing /\ t.remove = None
    /\ \A i \in Ids : t.own[i] # None => c[i] = None /\ t.own[i] \in Row

\* How far a template is that nobody has overtaken, with d what it sees.
Progress(d, t) ==
    \/ t.pc = "flush" /\ t.kind = "service" /\ t.inserts = Additions(d, "service")
    \/ t.pc = "template_barbers" /\ Covered(d, "service")
    \/ /\ t.pc = "flush" /\ t.kind = "barber" /\ t.inserts = Additions(d, "barber")
       /\ Covered(d, "service") /\ KnownBarbers(d, t)
    \/ /\ t.pc = "template_schedules" /\ KnownBarbers(d, t)
       /\ Covered(d, "service") /\ Covered(d, "barber")
    \/ /\ t.pc = "flush" /\ t.kind = "schedule" /\ Assigned(d, t)
       /\ Covered(d, "service") /\ Covered(d, "barber")
    \/ t.pc = "commit" /\ Covered(d, "service") /\ Covered(d, "barber") /\ Scheduled(d)

Adding(c, t) ==
    Onboarding(t) =>
        /\ OnlyAdds(c, t)
        /\ ~t.overtaken => NoTwins(c, Seen(c, t.own)) /\ Progress(Seen(c, t.own), t)

TemplateInv == Inv /\ \A r \in Requests : Adding(catalog, tx[r])

\* e is d with the rows that t inserts, each in a place of its own.
Extends(d, e, t) ==
    \E place \in [Inserts(t) -> Ids] :
        /\ \A j \in Inserts(t) : d[place[j]] = None /\ e[place[j]] = t.inserts[j]
        /\ \A j, k \in Inserts(t) : place[j] = place[k] => j = k
        /\ \A i \in Ids : e[i] = d[i] \/ \E j \in Inserts(t) : place[j] = i

\* The inserts are like no row of d, nor like each other.
Fresh(d, t) ==
    \A j \in Inserts(t) :
        /\ \A k \in Inserts(t) : k # j /\ t.inserts[k].kind = t.inserts[j].kind =>
                Mark(t.inserts[k]) # Mark(t.inserts[j])
        /\ \A i \in Ids : d[i] \in Row /\ d[i].kind = t.inserts[j].kind =>
                Mark(d[i]) # Mark(t.inserts[j])

LEMMA ExtendNoTwins ==
  ASSUME NEW c, NEW d, NEW e, NEW t, Extends(d, e, t), NoTwins(c, d), Fresh(d, t),
         \A i \in Added(c, d) : d[i] \in Row
  PROVE  NoTwins(c, e)
<1>1. PICK place \in [Inserts(t) -> Ids] :
        /\ \A j \in Inserts(t) : d[place[j]] = None /\ e[place[j]] = t.inserts[j]
        /\ \A j, k \in Inserts(t) : place[j] = place[k] => j = k
        /\ \A i \in Ids : e[i] = d[i] \/ \E j \in Inserts(t) : place[j] = i
  BY DEF Extends
<1> SUFFICES ASSUME NEW i \in Added(c, e), NEW h \in Ids, i # h, e[h] \in Row,
                    e[h].kind = e[i].kind
             PROVE  Mark(e[h]) # Mark(e[i])
  BY DEF NoTwins
<1>2. i \in Ids /\ c[i] = None /\ e[i] # None
  BY DEF Added
<1>3. CASE e[i] = d[i] /\ e[h] = d[h]
  <2>1. i \in Added(c, d)
    BY <1>2, <1>3 DEF Added
  <2> QED
    BY <1>3, <2>1 DEF NoTwins
<1>4. CASE e[i] = d[i] /\ \E k \in Inserts(t) : place[k] = h
  <2>1. PICK k \in Inserts(t) : place[k] = h
    BY <1>4
  <2>2. i \in Added(c, d)
    BY <1>2, <1>4 DEF Added
  <2>3. e[h] = t.inserts[k] /\ d[i] \in Row
    BY <1>1, <2>1, <2>2
  <2> QED
    BY <1>2, <1>4, <2>3 DEF Fresh
<1>5. CASE (\E j \in Inserts(t) : place[j] = i) /\ e[h] = d[h]
  <2>1. PICK j \in Inserts(t) : place[j] = i
    BY <1>5
  <2>2. e[i] = t.inserts[j]
    BY <1>1, <2>1
  <2> QED
    BY <1>5, <2>2 DEF Fresh
<1>6. CASE (\E j \in Inserts(t) : place[j] = i) /\ \E k \in Inserts(t) : place[k] = h
  <2>1. PICK j \in Inserts(t), k \in Inserts(t) : place[j] = i /\ place[k] = h
    BY <1>6
  <2>2. e[i] = t.inserts[j] /\ e[h] = t.inserts[k] /\ k # j
    BY <1>1, <2>1
  <2> QED
    BY <2>2 DEF Fresh
<1> QED
  BY <1>1, <1>2, <1>3, <1>4, <1>5, <1>6

\* What was there is there still, and every insert is.
LEMMA ExtendNamed ==
  ASSUME NEW d, NEW e, NEW t, Extends(d, e, t)
  PROVE  /\ \A kind, k : Named(d, kind, k) \subseteq Named(e, kind, k)
         /\ \A kind : \A i \in Rows(d, kind) : i \in Rows(e, kind) /\ e[i] = d[i]
         /\ \A j \in Inserts(t) : \E i \in Ids : e[i] = t.inserts[j]
<1>1. PICK place \in [Inserts(t) -> Ids] :
        /\ \A j \in Inserts(t) : d[place[j]] = None /\ e[place[j]] = t.inserts[j]
        /\ \A i \in Ids : e[i] = d[i] \/ \E j \in Inserts(t) : place[j] = i
  BY DEF Extends
<1>2. \A i \in Ids : d[i] \in Row => e[i] = d[i]
  BY <1>1, Distinct
<1>3. \A kind : \A i \in Rows(d, kind) : i \in Rows(e, kind) /\ e[i] = d[i]
  BY <1>2 DEF Rows
<1>4. \A kind, k : Named(d, kind, k) \subseteq Named(e, kind, k)
  BY <1>3 DEF Named
<1>5. \A j \in Inserts(t) : \E i \in Ids : e[i] = t.inserts[j]
  BY <1>1
<1> QED
  BY <1>3, <1>4, <1>5

LEMMA AdditionsFresh ==
  ASSUME NEW d, NEW t, NEW kind \in Kinds, kind # "schedule", t.inserts = Additions(d, kind)
  PROVE  Fresh(d, t)
<1>1. ASSUME NEW j \in Inserts(t)
      PROVE  /\ j \in Missing(kind, KeysOf(d, kind)) /\ t.inserts[j].kind = kind
             /\ t.inserts[j].key = Template[kind][j].key
  <2>1. j \in Positions /\ Additions(d, kind)[j] # None
    BY DEF Inserts
  <2>2. j \in Missing(kind, KeysOf(d, kind))
    BY <2>1, AdditionsType
  <2> QED
    BY <2>2, AdditionsType
<1>2. ASSUME NEW j \in Inserts(t), NEW k \in Inserts(t), k # j
      PROVE  Mark(t.inserts[k]) # Mark(t.inserts[j])
  <2>1. j \in DOMAIN Template[kind] /\ k \in DOMAIN Template[kind]
    BY <1>1 DEF Missing
  <2>2. PICK n \in Nat : DOMAIN Template[kind] = 1 .. n
    BY TemplateRows
  <2>3. j \in 1 .. k - 1 \/ k \in 1 .. j - 1
    BY <1>2, <2>1, <2>2
  <2>4. Template[kind][j].key # Template[kind][k].key
    BY <1>1, <2>3 DEF Missing
  <2> QED
    BY <1>1, <2>4 DEF Mark
<1>3. ASSUME NEW j \in Inserts(t), NEW i \in Ids, d[i] \in Row, d[i].kind = t.inserts[j].kind
      PROVE  Mark(d[i]) # Mark(t.inserts[j])
  <2>1. d[i].key \in KeysOf(d, kind)
    BY <1>1, <1>3 DEF KeysOf, Rows
  <2>2. Template[kind][j].key \notin KeysOf(d, kind)
    BY <1>1 DEF Missing
  <2> QED
    BY <1>1, <1>3, <2>1, <2>2 DEF Mark
<1> QED
  BY <1>2, <1>3 DEF Fresh

LEMMA AdditionsCovered ==
  ASSUME NEW d, NEW e, NEW t, NEW kind \in Kinds, kind # "schedule",
         t.inserts = Additions(d, kind), Extends(d, e, t)
  PROVE  Covered(e, kind)
<1> SUFFICES ASSUME NEW k \in DOMAIN Template[kind]
             PROVE  Named(e, kind, Template[kind][k].key) # {}
  BY DEF Covered
<1>1. CASE Template[kind][k].key \in KeysOf(d, kind)
  <2>1. Named(d, kind, Template[kind][k].key) # {}
    BY <1>1, NotThere
  <2> QED
    BY <2>1, ExtendNamed
<1>2. CASE Template[kind][k].key \notin KeysOf(d, kind)
  <2>1. PICK j \in Missing(kind, KeysOf(d, kind)) : Template[kind][j].key = Template[kind][k].key
    BY <1>2, AdditionsCover
  <2>2. /\ j \in Positions /\ t.inserts[j] \in Row /\ t.inserts[j].kind = kind
        /\ t.inserts[j].key = Template[kind][k].key
    BY <2>1, AdditionsType
  <2>3. j \in Inserts(t)
    BY <2>2, Distinct DEF Inserts
  <2>4. PICK i \in Ids : e[i] = t.inserts[j]
    BY <2>3, ExtendNamed
  <2>5. i \in Named(e, kind, Template[kind][k].key)
    BY <2>2, <2>4 DEF Named, Rows
  <2> QED
    BY <2>5
<1> QED
  BY <1>1, <1>2

LEMMA AssignedInserts ==
  ASSUME NEW d, NEW t, Assigned(d, t), NEW j \in Inserts(t)
  PROVE  /\ j \in DOMAIN Template["schedule"]
         /\ \E b \in Named(d, "barber", Template["schedule"][j].name) :
                /\ \A i \in Rows(d, "schedule") : d[i].of # b
                /\ t.inserts[j] \in Row /\ t.inserts[j].kind = "schedule" /\ t.inserts[j].of = b
<1>1. j \in Positions /\ t.inserts[j] # None
  BY DEF Inserts
<1>2. j \in DOMAIN Template["schedule"]
  BY <1>1 DEF Assigned
<1>3. PICK b \in Named(d, "barber", Template["schedule"][j].name) :
        t.inserts[j] = IF \A i \in Rows(d, "schedule") : d[i].of # b
                       THEN NewRow("schedule", b, Template["schedule"][j]) ELSE None
  BY <1>1, <1>2 DEF Assigned
<1>4. /\ \A i \in Rows(d, "schedule") : d[i].of # b
      /\ t.inserts[j] = NewRow("schedule", b, Template["schedule"][j])
  BY <1>1, <1>3
<1>5. b \in Ids /\ "schedule" \in Kinds
  BY DEF Named, Rows, Kinds
<1>6. Template["schedule"][j] \in SheetRow
  BY <1>2, ScheduleNames
<1> QED
  BY <1>2, <1>4, <1>5, <1>6, NewRowType

LEMMA AssignedFresh ==
  ASSUME NEW d, NEW t, Assigned(d, t)
  PROVE  Fresh(d, t)
<1>1. ASSUME NEW j \in Inserts(t), NEW k \in Inserts(t), k # j
      PROVE  Mark(t.inserts[k]) # Mark(t.inserts[j])
  <2> DEFINE rows == Template["schedule"]
  <2>1. PICK a \in Named(d, "barber", rows[j].name) :
          t.inserts[j].kind = "schedule" /\ t.inserts[j].of = a
    BY AssignedInserts
  <2>2. PICK b \in Named(d, "barber", rows[k].name) :
          t.inserts[k].kind = "schedule" /\ t.inserts[k].of = b
    BY AssignedInserts
  <2>3. j \in DOMAIN rows /\ k \in DOMAIN rows
    BY AssignedInserts
  <2>4. rows[j].name # rows[k].name
    BY <1>1, <2>3, CatalogAssumption
  <2>5. a # b
    BY <2>4 DEF Named
  <2> QED
    BY <2>1, <2>2, <2>5 DEF Mark
<1>2. ASSUME NEW j \in Inserts(t), NEW i \in Ids, d[i] \in Row, d[i].kind = t.inserts[j].kind
      PROVE  Mark(d[i]) # Mark(t.inserts[j])
  <2>1. PICK b : /\ \A h \in Rows(d, "schedule") : d[h].of # b
                 /\ t.inserts[j].kind = "schedule" /\ t.inserts[j].of = b
    BY AssignedInserts
  <2>2. i \in Rows(d, "schedule")
    BY <1>2, <2>1 DEF Rows
  <2> QED
    BY <1>2, <2>1, <2>2 DEF Mark
<1> QED
  BY <1>1, <1>2 DEF Fresh

LEMMA AssignedScheduled ==
  ASSUME NEW d, NEW e, NEW t, Assigned(d, t), Extends(d, e, t)
  PROVE  Scheduled(e)
<1> SUFFICES ASSUME NEW k \in DOMAIN Template["schedule"]
             PROVE  \E i \in Rows(e, "schedule") :
                        e[i].of \in Named(e, "barber", Template["schedule"][k].name)
  BY DEF Scheduled
<1>1. k \in Positions /\ Template["schedule"][k] \in SheetRow
  BY ScheduleNames
<1>2. PICK b \in Named(d, "barber", Template["schedule"][k].name) :
        t.inserts[k] = IF \A i \in Rows(d, "schedule") : d[i].of # b
                       THEN NewRow("schedule", b, Template["schedule"][k]) ELSE None
  BY <1>1 DEF Assigned
<1>3. b \in Named(e, "barber", Template["schedule"][k].name)
  BY ExtendNamed
<1>4. CASE \A i \in Rows(d, "schedule") : d[i].of # b
  <2>1. t.inserts[k] = NewRow("schedule", b, Template["schedule"][k])
    BY <1>2, <1>4
  <2>2. b \in Ids /\ "schedule" \in Kinds
    BY DEF Named, Rows, Kinds
  <2>3. t.inserts[k] \in Row /\ t.inserts[k].kind = "schedule" /\ t.inserts[k].of = b
    BY <1>1, <2>1, <2>2, NewRowType
  <2>4. k \in Inserts(t)
    BY <1>1, <2>3, Distinct DEF Inserts
  <2>5. PICK i \in Ids : e[i] = t.inserts[k]
    BY <2>4, ExtendNamed
  <2> QED
    BY <1>3, <2>3, <2>5 DEF Rows
<1>5. CASE ~ \A i \in Rows(d, "schedule") : d[i].of # b
  <2>1. PICK i \in Rows(d, "schedule") : d[i].of = b
    BY <1>5
  <2>2. i \in Rows(e, "schedule") /\ e[i].of = b
    BY <2>1, ExtendNamed
  <2> QED
    BY <1>3, <2>2
<1> QED
  BY <1>4, <1>5

LEMMA NothingTouched ==
  ASSUME NEW t, t.changes = Nothing, t.remove = None
  PROVE  Touched(t) = {}
  BY Distinct, EmptyHanded DEF Touched

LEMMA FlushExtends ==
  ASSUME Inv, NEW r \in Requests, OnlyAdds(catalog, tx[r]), Places(tx[r]) # {}
  PROVE  Extends(Seen(catalog, tx[r].own), Seen(catalog, Flushed(r)), tx[r])
<1> PICK t : t = tx[r]
  OBVIOUS
<1> PICK new : new = Flushed(r)
  OBVIOUS
<1> PICK d : d = Seen(catalog, t.own)
  OBVIOUS
<1> PICK e : e = Seen(catalog, new)
  OBVIOUS
<1>1. PICK place \in [Inserts(t) -> Unused] :
        /\ \A j \in Inserts(t) : new[place[j]] = t.inserts[j]
        /\ \A j, k \in Inserts(t) : place[j] = place[k] => j = k
        /\ \A i \in Ids : (\A j \in Inserts(t) : place[j] # i) =>
                new[i] = IF i \in Touched(t) THEN Written(t, i) ELSE t.own[i]
  BY FlushPlaces
<1>2. Touched(t) = {}
  BY NothingTouched DEF OnlyAdds
<1>3. place \in [Inserts(t) -> Ids]
  BY <1>1 DEF Unused
<1>4. ASSUME NEW j \in Inserts(t)
      PROVE  d[place[j]] = None /\ e[place[j]] = t.inserts[j]
  <2>1. place[j] \in Ids /\ catalog[place[j]] = None /\ t.own[place[j]] = None
    BY <1>1 DEF Unused
  <2>2. new[place[j]] = t.inserts[j] /\ t.inserts[j] # None
    BY <1>1 DEF Inserts
  <2> QED
    BY <2>1, <2>2 DEF Seen
<1>5. ASSUME NEW i \in Ids, \A j \in Inserts(t) : place[j] # i
      PROVE  e[i] = d[i]
  <2>1. new[i] = t.own[i]
    BY <1>1, <1>2, <1>5
  <2> QED
    BY <2>1 DEF Seen
<1> QED
  BY <1>1, <1>3, <1>4, <1>5 DEF Extends

LEMMA AddedRows ==
  ASSUME NEW c, NEW t, OnlyAdds(c, t), NEW i \in Added(c, Seen(c, t.own))
  PROVE  Seen(c, t.own)[i] \in Row
  BY DEF OnlyAdds, Added, Seen

LEMMA FlushAdds ==
  ASSUME Inv, NEW r \in Requests, Adding(catalog, tx[r]), Flush(r), ~End(r, "failed")
  PROVE  Adding(catalog, tx'[r])
<1> PICK t : t = tx[r]
  OBVIOUS
<1> PICK u : u = tx'[r]
  OBVIOUS
<1> PICK new : new = Flushed(r)
  OBVIOUS
<1> PICK d : d = Seen(catalog, t.own)
  OBVIOUS
<1> PICK e : e = Seen(catalog, new)
  OBVIOUS
<1> SUFFICES ASSUME Onboarding(u)
             PROVE  /\ OnlyAdds(catalog, u)
                    /\ ~u.overtaken => NoTwins(catalog, e) /\ Progress(e, u)
  BY FlushLands DEF Adding, Landed
<1>1. t.pc = "flush" /\ Places(t) # {} /\ ~FlushFails(r) /\ Landed(t, u, new)
  BY FlushLands
<1>2. /\ u.own = new /\ u.remove = None /\ u.changes = Nothing /\ u.op = t.op
      /\ u.kind = t.kind /\ u.barbers = t.barbers /\ u.overtaken = t.overtaken
      /\ u.pc = IF t.op # "template" \/ t.kind = "schedule" THEN "commit"
                ELSE IF t.kind = "service" THEN "template_barbers" ELSE "template_schedules"
  BY <1>1 DEF Landed
<1>3. t.op = "template" /\ Onboarding(t)
  BY <1>1, <1>2 DEF Onboarding, Writing
<1>4. OnlyAdds(catalog, t)
  BY <1>3 DEF Adding
<1>5. Touched(t) = {}
  BY <1>4, NothingTouched DEF OnlyAdds
<1>6. OnlyAdds(catalog, u)
  <2> SUFFICES ASSUME NEW i \in Ids, new[i] # None
               PROVE  catalog[i] = None /\ new[i] \in Row
    BY <1>2 DEF OnlyAdds
  <2>1. \/ catalog[i] = None /\ new[i] \in Row
        \/ new[i] = t.own[i]
    BY <1>1, <1>5, FlushedRow
  <2> QED
    BY <1>4, <2>1 DEF OnlyAdds
<1>7. ASSUME ~u.overtaken
      PROVE  NoTwins(catalog, e) /\ Progress(e, u)
  <2>1. NoTwins(catalog, d) /\ Progress(d, t)
    BY <1>2, <1>3, <1>7 DEF Adding
  <2>2. Extends(d, e, t)
    BY <1>1, <1>4, FlushExtends
  <2>3. \A i \in Added(catalog, d) : d[i] \in Row
    BY <1>4, AddedRows
  <2>4. \A kind \in Kinds : Covered(d, kind) => Covered(e, kind)
    BY <2>2, ExtendNamed DEF Covered
  <2>5. KnownBarbers(d, t) => KnownBarbers(e, u)
    BY <1>2, <2>2, ExtendNamed DEF KnownBarbers
  <2>6. "service" \in Kinds /\ "barber" \in Kinds
    BY DEF Kinds
  <2>7. CASE t.kind = "service" /\ t.inserts = Additions(d, "service")
    <3>1. Fresh(d, t)
      BY <2>6, <2>7, AdditionsFresh
    <3>2. Covered(e, "service")
      BY <2>2, <2>6, <2>7, AdditionsCovered
    <3>3. u.pc = "template_barbers"
      BY <1>2, <1>3, <2>7
    <3> QED
      BY <2>1, <2>2, <2>3, <3>1, <3>2, <3>3, ExtendNoTwins DEF Progress
  <2>8. CASE /\ t.kind = "barber" /\ t.inserts = Additions(d, "barber")
             /\ Covered(d, "service") /\ KnownBarbers(d, t)
    <3>1. Fresh(d, t)
      BY <2>6, <2>8, AdditionsFresh
    <3>2. Covered(e, "barber") /\ Covered(e, "service") /\ KnownBarbers(e, u)
      BY <2>2, <2>4, <2>5, <2>6, <2>8, AdditionsCovered
    <3>3. u.pc = "template_schedules"
      BY <1>2, <1>3, <2>8
    <3> QED
      BY <2>1, <2>2, <2>3, <3>1, <3>2, <3>3, ExtendNoTwins DEF Progress
  <2>9. CASE /\ t.kind = "schedule" /\ Assigned(d, t)
             /\ Covered(d, "service") /\ Covered(d, "barber")
    <3>1. Fresh(d, t)
      BY <2>9, AssignedFresh
    <3>2. Scheduled(e) /\ Covered(e, "service") /\ Covered(e, "barber")
      BY <2>2, <2>4, <2>6, <2>9, AssignedScheduled
    <3>3. u.pc = "commit"
      BY <1>2, <2>9
    <3> QED
      BY <2>1, <2>2, <2>3, <3>1, <3>2, <3>3, ExtendNoTwins DEF Progress
  <2> QED
    BY <1>1, <2>1, <2>7, <2>8, <2>9 DEF Progress
<1> QED
  BY <1>6, <1>7

LEMMA BeginAdds ==
  ASSUME Inv, NEW r \in Requests, ApplyTemplate(r)
  PROVE  Adding(catalog, tx'[r])
<1> DEFINE v == [Idle EXCEPT !.pc = "flush", !.op = "template", !.kind = "service",
                             !.inserts = Additions(catalog, "service")]
<1>1. /\ v.own = Nothing /\ v.changes = Nothing /\ v.remove = None /\ v.pc = "flush"
      /\ v.kind = "service" /\ v.inserts = Additions(catalog, "service")
  BY DEF Idle
<1>2. tx'[r] = v
  BY GoesTo DEF ApplyTemplate
<1> HIDE DEF v
<1>3. catalog = [i \in Ids |-> catalog[i]]
  BY DEF Inv, TypeOK
<1>4. Seen(catalog, Nothing) = catalog /\ \A i \in Ids : Nothing[i] = None
  BY <1>3, EmptyHanded
<1>5. OnlyAdds(catalog, v)
  BY <1>1, <1>4 DEF OnlyAdds
<1>6. NoTwins(catalog, catalog)
  BY DEF NoTwins, Added
<1> QED
  BY <1>1, <1>2, <1>4, <1>5, <1>6 DEF Adding, Progress

LEMMA BarbersAdd ==
  ASSUME Inv, NEW r \in Requests, Adding(catalog, tx[r]), TemplateBarbers(r), ~End(r, "failed")
  PROVE  Adding(catalog, tx'[r])
<1> PICK t : t = tx[r]
  OBVIOUS
<1> PICK u : u = tx'[r]
  OBVIOUS
<1> PICK d : d = Seen(catalog, t.own)
  OBVIOUS
<1>1. Asked(t, u, d)
  BY TemplateBarbersSends
<1>2. t.pc = "template_barbers" /\ t.op = "template"
  BY DEF TemplateBarbers, Inv, Fits, Staged
<1>3. Onboarding(t)
  BY <1>2 DEF Onboarding, Writing
<1>4. /\ u.own = t.own /\ u.changes = t.changes /\ u.remove = t.remove /\ u.pc = "flush"
      /\ u.kind = "barber" /\ u.inserts = Additions(d, "barber") /\ u.overtaken = t.overtaken
  BY <1>1 DEF Asked
<1>5. OnlyAdds(catalog, u)
  BY <1>3, <1>4 DEF Adding, OnlyAdds
<1>6. KnownBarbers(d, u)
  BY <1>1, NamesAreKeys DEF Asked, KnownBarbers
<1>7. ~t.overtaken => NoTwins(catalog, d) /\ Covered(d, "service")
  BY <1>2, <1>3 DEF Adding, Progress
<1> QED
  BY <1>4, <1>5, <1>6, <1>7 DEF Adding, Progress

LEMMA SchedulesAdd ==
  ASSUME Inv, NEW r \in Requests, Adding(catalog, tx[r]), TemplateSchedules(r), ~End(r, "failed")
  PROVE  Adding(catalog, tx'[r])
<1> PICK t : t = tx[r]
  OBVIOUS
<1> PICK u : u = tx'[r]
  OBVIOUS
<1> PICK d : d = Seen(catalog, t.own)
  OBVIOUS
<1>1. PICK B : Planned(t, u, d, B)
  BY TemplateSchedulesSends
<1>2. t.pc = "template_schedules" /\ t.op = "template"
  BY DEF TemplateSchedules, Inv, Fits, Staged
<1>3. Onboarding(t)
  BY <1>2 DEF Onboarding, Writing
<1>4. /\ u.own = t.own /\ u.changes = t.changes /\ u.remove = t.remove /\ u.pc = "flush"
      /\ u.kind = "schedule" /\ u.overtaken = t.overtaken
  BY <1>1 DEF Planned
<1>5. OnlyAdds(catalog, u)
  BY <1>3, <1>4 DEF Adding, OnlyAdds
<1>6. ASSUME ~t.overtaken
      PROVE  /\ NoTwins(catalog, d) /\ Covered(d, "service") /\ Covered(d, "barber")
             /\ Assigned(d, u)
  <2>1. NoTwins(catalog, d) /\ Covered(d, "service") /\ Covered(d, "barber") /\ KnownBarbers(d, t)
    BY <1>2, <1>3, <1>6 DEF Adding, Progress
  <2>2. ASSUME NEW k \in TemplateNames
        PROVE  B[k] \in Named(d, "barber", k)
    <3>1. IF t.barbers[k] # None THEN B[k] = t.barbers[k] ELSE B[k] \in Named(t.own, "barber", k)
      BY <1>1 DEF Planned
    <3> QED
      BY <2>1, <3>1, OwnSeen DEF KnownBarbers
  <2>3. ASSUME NEW j \in Positions
        PROVE  IF j \notin DOMAIN Template["schedule"] THEN u.inserts[j] = None
               ELSE \E b \in Named(d, "barber", Template["schedule"][j].name) :
                       u.inserts[j] = IF \A i \in Rows(d, "schedule") : d[i].of # b
                                      THEN NewRow("schedule", b, Template["schedule"][j]) ELSE None
    <3>1. u.inserts[j] = IF /\ j \in DOMAIN Template["schedule"]
                            /\ \A i \in Rows(d, "schedule") :
                                    d[i].of # B[Template["schedule"][j].name]
                         THEN NewRow("schedule", B[Template["schedule"][j].name],
                                     Template["schedule"][j])
                         ELSE None
      BY <1>1 DEF Planned
    <3>2. j \in DOMAIN Template["schedule"] =>
            B[Template["schedule"][j].name] \in Named(d, "barber", Template["schedule"][j].name)
      BY <2>2, ScheduleNames
    <3> QED
      BY <3>1, <3>2
  <2> QED
    BY <2>1, <2>3 DEF Assigned
<1> QED
  BY <1>4, <1>5, <1>6 DEF Adding, Progress

\* What a preview that does not fail leaves.
Shown(u, c, kind, sheet, f) ==
    /\ u.pc = "previewed" /\ u.op = "import" /\ u.kind = kind /\ u.sheet = sheet
    /\ u.create = {j \in DOMAIN sheet : Creates(c, kind, f, sheet[j])}
    /\ u.update = {j \in DOMAIN sheet : Updates(c, kind, f, sheet[j])}
    /\ u.remove = None /\ ~u.overtaken /\ ~u.again

LEMMA PreviewShows ==
  ASSUME Inv, NEW r \in Requests, NEW kind \in Kinds, Preview(r, kind), ~End(r, "failed")
  PROVE  /\ catalog' = catalog
         /\ \E sheet \in Sheets, f \in Lookups(catalog, kind) :
                Shown(tx'[r], catalog, kind, sheet, f)
<1>1. PICK sheet \in Sheets, f \in Lookups(catalog, kind) :
        Go(r, [Idle EXCEPT !.pc = "previewed", !.op = "import", !.kind = kind,
                    !.sheet = sheet,
                    !.create = {j \in DOMAIN sheet : Creates(catalog, kind, f, sheet[j])},
                    !.update = {j \in DOMAIN sheet : Updates(catalog, kind, f, sheet[j])}])
  BY DEF Preview
<1> DEFINE create == {j \in DOMAIN sheet : Creates(catalog, kind, f, sheet[j])}
           update == {j \in DOMAIN sheet : Updates(catalog, kind, f, sheet[j])}
           u == [Idle EXCEPT !.pc = "previewed", !.op = "import", !.kind = kind,
                             !.sheet = sheet, !.create = create, !.update = update]
<1>2. Go(r, u)
  BY <1>1
<1> HIDE DEF create, update
<1>3. /\ u.pc = "previewed" /\ u.op = "import" /\ u.kind = kind /\ u.sheet = sheet
      /\ u.create = create /\ u.update = update /\ u.remove = None
      /\ ~u.overtaken /\ ~u.again
  BY DEF Idle
<1> HIDE DEF u
<1>4. tx'[r] = u /\ catalog' = catalog
  BY <1>2, GoesTo
<1> QED
  BY <1>3, <1>4 DEF Shown, create, update

LEMMA AgainMoves ==
  ASSUME Inv, NEW r \in Requests, ApplyAgain(r)
  PROVE  tx'[r].pc = "previewed" /\ tx'[r].again /\ tx'[r].op = "import" /\ catalog' = catalog
<1> PICK t : t = tx[r]
  OBVIOUS
<1>1. t \in Request /\ t.op = "import" /\ Go(r, [t EXCEPT !.pc = "previewed", !.again = TRUE])
  BY DEF ApplyAgain, Inv, TypeOK
<1> DEFINE u == [t EXCEPT !.pc = "previewed", !.again = TRUE]
<1>2. u.pc = "previewed" /\ u.again /\ u.op = "import"
  BY <1>1 DEF Request
<1>3. Go(r, u)
  BY <1>1
<1> HIDE DEF u
<1> QED
  BY <1>2, <1>3, GoesTo

LEMMA PassedAdds ==
  ASSUME Inv, NEW r \in Requests, NEW q \in Requests \ {r}, Commit(q),
         Passed(tx[r], tx'[r]), Adding(catalog, tx[r])
  PROVE  Adding(catalog', tx'[r])
<1> PICK t : t = tx[r]
  OBVIOUS
<1> PICK u : u = tx'[r]
  OBVIOUS
<1>1. /\ u.pc = t.pc /\ u.op = t.op /\ u.own = t.own /\ u.changes = t.changes
      /\ u.remove = t.remove /\ u.overtaken = (t.pc \in Stages \/ t.overtaken)
  BY DEF Passed
<1> SUFFICES ASSUME Onboarding(u)
             PROVE  OnlyAdds(catalog', u) /\ u.overtaken
  BY DEF Adding
<1>2. Onboarding(t) /\ u.overtaken
  BY <1>1 DEF Onboarding, Writing, Stages
<1>3. \A i \in Ids : t.own[i] # None => catalog'[i] = catalog[i]
  BY CommitRows DEF Inv, Apart
<1>4. OnlyAdds(catalog, t)
  BY <1>2 DEF Adding
<1>5. OnlyAdds(catalog', u)
  BY <1>1, <1>3, <1>4 DEF OnlyAdds
<1> QED
  BY <1>2, <1>5

LEMMA TemplateStep ==
  ASSUME TemplateInv, [Next]_vars
  PROVE  TemplateInv'
<1>1. Inv /\ Inv'
  BY StepKeeps DEF TemplateInv
<1>2. ASSUME NEW r \in Requests
      PROVE  Adding(catalog', tx'[r])
  <2>1. Moves(r) /\ Adding(catalog, tx[r])
    BY <1>1, EachMoves DEF TemplateInv
  <2>2. CASE tx'[r].pc \in Over \/ tx'[r].op \in {"create", "edit", "delete", "import"}
    BY <2>2 DEF Adding, Onboarding, Over, Writing
  <2>3. CASE tx'[r] = tx[r] /\ catalog' = catalog
    BY <2>1, <2>3
  <2>4. CASE Passed(tx[r], tx'[r]) /\ \E q \in Requests \ {r} : Commit(q)
    BY <1>1, <2>1, <2>4, PassedAdds
  <2>5. ASSUME NEW kind \in Kinds, Preview(r, kind), ~End(r, "failed")
        PROVE  tx'[r].op = "import"
    BY <1>1, <2>5, PreviewShows DEF Shown
  <2>6. ASSUME NEW kind \in Kinds, ApplyImport(r, kind), ~End(r, "refused")
        PROVE  tx'[r].op = "import"
    BY <1>1, <2>6, ApplyImportSends DEF Sent
  <2>7. CASE ApplyAgain(r)
    BY <1>1, <2>2, <2>7, AgainMoves
  <2>8. CASE ApplyTemplate(r)
    <3>1. catalog' = catalog
      BY <2>8 DEF ApplyTemplate, Go
    <3> QED
      BY <1>1, <2>8, <3>1, BeginAdds
  <2>9. CASE TemplateBarbers(r) /\ ~End(r, "failed")
    <3>1. catalog' = catalog
      BY <1>1, <2>9, TemplateBarbersSends DEF Go
    <3> QED
      BY <1>1, <2>1, <2>9, <3>1, BarbersAdd
  <2>10. CASE TemplateSchedules(r) /\ ~End(r, "failed")
    <3>1. catalog' = catalog
      BY <1>1, <2>10, TemplateSchedulesSends DEF Go
    <3> QED
      BY <1>1, <2>1, <2>10, <3>1, SchedulesAdd
  <2>11. CASE Flush(r) /\ ~End(r, "failed")
    <3>1. catalog' = catalog
      BY <1>1, <2>11, FlushLands
    <3> QED
      BY <1>1, <2>1, <2>11, <3>1, FlushAdds
  <2>12. CASE Commit(r)
    <3>1. Stored(tx[r], tx'[r]) /\ tx[r] \in Request
      BY <1>1, <2>12, CommitTx DEF Inv, TypeOK
    <3>2. tx'[r].pc = "stored" \/ tx'[r].pc \in Over
      BY <3>1, LeftType DEF Stored, Over
    <3> QED
      BY <3>2 DEF Adding, Onboarding, Over, Writing
  <2> QED
    BY <2>1, <2>2, <2>3, <2>4, <2>5, <2>6, <2>7, <2>8, <2>9, <2>10, <2>11, <2>12 DEF Moves
<1> QED
  BY <1>1, <1>2 DEF TemplateInv

LEMMA InitTemplate == Init => TemplateInv
<1> SUFFICES ASSUME Init
             PROVE  TemplateInv
  OBVIOUS
<1>1. \A r \in Requests : tx[r].op = None /\ tx[r].pc = "idle"
  BY IdleType DEF Init
<1>2. \A r \in Requests : Adding(catalog, tx[r])
  BY <1>1 DEF Adding, Onboarding, Writing
<1> QED
  BY <1>2, InitInv DEF TemplateInv

\* Only the commit of a request stores what it has written.
LEMMA CommitsIsCommit ==
  ASSUME Inv, [Next]_vars, NEW r \in Requests, NEW op, Commits(r, op)
  PROVE  Commit(r)
<1>1. Moves(r) /\ tx[r].pc = "commit" /\ tx'[r].pc = "stored"
  BY EachMoves DEF Commits
<1>2. ASSUME NEW kind \in Kinds, Preview(r, kind) \/ ApplyImport(r, kind)
      PROVE  FALSE
  BY <1>1, <1>2 DEF Preview, ApplyImport
<1>3. ~(Passed(tx[r], tx'[r])) /\ tx'[r].pc \notin Over
  BY <1>1 DEF Passed, Over
<1>4. ~ApplyAgain(r) /\ ~ApplyTemplate(r)
  BY <1>1 DEF ApplyAgain, ApplyTemplate
<1>5. ~TemplateBarbers(r) /\ ~TemplateSchedules(r)
  BY <1>1 DEF TemplateBarbers, TemplateSchedules
<1>6. ~Flush(r)
  BY <1>1 DEF Flush
<1> QED
  BY <1>1, <1>2, <1>3, <1>4, <1>5, <1>6 DEF Moves

LEMMA AddsOnly ==
  ASSUME TemplateInv, NEW r \in Requests, Commit(r), tx[r].op = "template"
  PROVE  /\ \A i \in Ids \ Added(catalog, catalog') : catalog'[i] = catalog[i]
         /\ ~tx[r].overtaken => Complete(catalog, catalog')
<1> PICK t : t = tx[r]
  OBVIOUS
<1> PICK d : d = catalog'
  OBVIOUS
<1>1. Inv /\ Adding(catalog, t) /\ t.pc = "commit" /\ t.op = "template"
  BY DEF TemplateInv, Commit
<1>2. Onboarding(t) /\ OnlyAdds(catalog, t)
  BY <1>1 DEF Adding, Onboarding, Writing
<1>3. /\ d = Seen(catalog, t.own)
      /\ \A i \in Ids : d[i] = IF t.own[i] # None THEN t.own[i] ELSE catalog[i]
  BY <1>1, CommitRows
<1>4. \A i \in Ids \ Added(catalog, d) : d[i] = catalog[i]
  BY <1>2, <1>3 DEF OnlyAdds, Added
<1>5. ASSUME ~t.overtaken
      PROVE  Complete(catalog, d)
  <2>1. /\ NoTwins(catalog, d) /\ Covered(d, "service") /\ Covered(d, "barber")
        /\ Scheduled(d)
    BY <1>1, <1>2, <1>3, <1>5 DEF Adding, Progress
  <2>2. \A kind \in {"service", "barber"} : \A s \in Range(Template[kind]) :
            Named(d, kind, s.key) # {}
    BY <2>1 DEF Covered, Range
  <2>3. \A s \in Range(Template["schedule"]) : \E i \in Rows(d, "schedule") :
            d[i].of \in Named(d, "barber", s.name)
    BY <2>1 DEF Scheduled, Range
  <2>4. \A i \in Added(catalog, d) : \A j \in Ids \ {i} :
            d[j] \in Row /\ d[j].kind = d[i].kind =>
                IF d[i].kind = "schedule" THEN d[j].of # d[i].of ELSE d[j].key # d[i].key
    BY <2>1 DEF NoTwins, Mark
  <2> QED
    BY <2>2, <2>3, <2>4 DEF Complete
<1> QED
  BY <1>4, <1>5

\* A template never changes a row that exists; one that nobody overtakes leaves every service,
\* barber and weekday of the template there, and adds none that was there, nor one twice.
THEOREM TemplateAddsOnly == Spec => TemplateOnlyAdds
<1>1. TemplateInv /\ [Next]_vars => TemplateInv'
  BY TemplateStep
<1>2. TemplateInv /\ [Next]_vars =>
        \A r \in Requests :
            Commits(r, "template") =>
                /\ \A i \in Ids \ Added(catalog, catalog') : catalog'[i] = catalog[i]
                /\ ~tx[r].overtaken => Complete(catalog, catalog')
  <2> SUFFICES ASSUME TemplateInv, [Next]_vars, NEW r \in Requests, Commits(r, "template")
               PROVE  /\ \A i \in Ids \ Added(catalog, catalog') : catalog'[i] = catalog[i]
                      /\ ~tx[r].overtaken => Complete(catalog, catalog')
    OBVIOUS
  <2>1. Commit(r) /\ tx[r].op = "template"
    BY CommitsIsCommit DEF TemplateInv, Commits
  <2> QED
    BY <2>1, AddsOnly
<1> QED
  BY <1>1, <1>2, InitTemplate, PTL DEF Spec, TemplateOnlyAdds

-----------------------------------------------------------------------------
(* An import stores what its preview told.                                  *)

\* The lists are those of a preview of c, with the look-up f.
Told(c, t, f) ==
    /\ t.create = {j \in DOMAIN t.sheet : Creates(c, t.kind, f, t.sheet[j])}
    /\ t.update = {j \in DOMAIN t.sheet : Updates(c, t.kind, f, t.sheet[j])}

\* What the flush has to send comes from c, with the look-up g.
Resent(c, t, g) ==
    /\ t.changes = Changes(c, t, g) /\ t.loaded = c /\ t.inserts = ToInsert(t, g)
    /\ \A j \in t.create \cup t.update : ~Faulty(t.kind, g, t.sheet[j])
    /\ \A j \in t.update : Match(c, t.kind, g, t.sheet[j]) # None

\* An import that nobody has overtaken, at its first apply.
Settling(c, t) ==
    t.op = "import" /\ ~t.overtaken /\ ~t.again =>
        /\ t.pc \in {"previewed", "flush"} =>
            t.kind \in Kinds /\ t.remove = None /\ \E f \in Lookups(c, t.kind) : Told(c, t, f)
        /\ t.pc = "flush" => \E g \in Lookups(c, t.kind) : Resent(c, t, g)
        /\ t.pc = "commit" /\ NamedOnce(t) => Settled(c, Seen(c, t.own), t)

ImportInv == Inv /\ \A r \in Requests : Settling(catalog, tx[r])

LEMMA IdsFinite ==
  ASSUME NEW S \in SUBSET Ids
  PROVE  IsFiniteSet(S)
<1>1. MaxRows \in Int /\ 1 \in Int
  BY CatalogAssumption
<1>2. IsFiniteSet(1 .. MaxRows)
  BY <1>1, FS_Interval
<1> QED
  BY <1>2, FS_Subset DEF Ids

LEMMA AtMostOneElement ==
  ASSUME NEW S \in SUBSET Ids, ~(Cardinality(S) > 1), NEW x \in S, NEW y \in S
  PROVE  x = y
<1>1. IsFiniteSet(S)
  BY IdsFinite
<1>2. Cardinality(S) \in Nat /\ Cardinality(S) # 0
  BY <1>1, FS_CardinalityType, FS_EmptySet
<1>3. Cardinality(S) = 1
  BY <1>2
<1>4. PICK z : S = {z}
  BY <1>1, <1>3, FS_Singleton
<1> QED
  BY <1>4

LEMMA NamedIds ==
  ASSUME NEW c, NEW kind, NEW k
  PROVE  Named(c, kind, k) \in SUBSET Ids
  BY DEF Named, Rows

\* A sheet row is faultless if it is valid and, a schedule's, its barber is known: whichever
\* of several barbers of one name a look-up finds.
LEMMA Faultless ==
  ASSUME NEW c, NEW kind \in Kinds, NEW f \in Lookups(c, kind), NEW s \in SheetRow
  PROVE  /\ ~Faulty(kind, f, s) <=>
                s.fault = "valid" /\ (kind = "schedule" => Named(c, "barber", s.name) # {})
         /\ kind = "schedule" /\ ~Faulty(kind, f, s) => f[s.name] \in Named(c, "barber", s.name)
<1>1. s.name \in Keys
  BY SheetRowFields
<1>2. kind = "schedule" =>
        IF Named(c, "barber", s.name) = {} THEN f[s.name] = None
        ELSE f[s.name] \in Named(c, "barber", s.name)
  BY <1>1, LookupRows
<1>3. None \notin Named(c, "barber", s.name)
  BY Distinct DEF Named, Rows
<1> QED
  BY <1>2, <1>3 DEF Faulty

LEMMA MatchClaimed ==
  ASSUME NEW c, NEW t, t.kind \in Kinds, NEW f \in Lookups(c, t.kind), NEW s \in SheetRow,
         ~Faulty(t.kind, f, s), Match(c, t.kind, f, s) # None
  PROVE  /\ Match(c, t.kind, f, s) \in Claimed(c, t, s) /\ Match(c, t.kind, f, s) \in Ids
         /\ c[Match(c, t.kind, f, s)] \in Row
<1>1. /\ Match(c, t.kind, f, s) \in Named(c, t.kind, s.key)
      /\ Match(c, t.kind, f, s) \in Ids /\ c[Match(c, t.kind, f, s)] \in Row
      /\ t.kind = "schedule" => c[Match(c, t.kind, f, s)].of = f[s.name]
  BY MatchRow
<1>2. t.kind = "schedule" => f[s.name] \in Named(c, "barber", s.name)
  BY Faultless
<1> QED
  BY <1>1, <1>2 DEF Claimed

\* Without a match nothing is claimed, but where the barber's name is ambiguous.
LEMMA NoMatchUnclaimed ==
  ASSUME NEW c, NEW t, t.kind \in Kinds, NEW f \in Lookups(c, t.kind), NEW s \in SheetRow,
         ~Faulty(t.kind, f, s), Match(c, t.kind, f, s) = None,
         ~(t.kind = "schedule" /\ Cardinality(Named(c, "barber", s.name)) > 1)
  PROVE  Claimed(c, t, s) = {}
<1> SUFFICES ASSUME NEW i \in Claimed(c, t, s)
             PROVE  FALSE
  OBVIOUS
<1>1. i \in Named(c, t.kind, s.key) /\ i \in Ids
  BY DEF Claimed, Named, Rows
<1>2. CASE t.kind = "schedule"
  <2>1. c[i].of \in Named(c, "barber", s.name) /\ f[s.name] \in Named(c, "barber", s.name)
    BY <1>2, Faultless DEF Claimed
  <2>2. c[i].of = f[s.name]
    BY <1>2, <2>1, NamedIds, AtMostOneElement
  <2>3. i \in Slot(c, f[s.name], s.key)
    BY <1>1, <1>2, <2>2 DEF Slot
  <2>4. Match(c, t.kind, f, s) \in Slot(c, f[s.name], s.key)
    BY <1>2, <2>3 DEF Match
  <2>5. Match(c, t.kind, f, s) \in Ids
    BY <2>4 DEF Slot, Named, Rows
  <2> QED
    BY <2>5, Distinct
<1>3. CASE t.kind # "schedule"
  <2>1. Match(c, t.kind, f, s) = f[s.key] /\ s.key \in Keys
    BY <1>3, SheetRowFields DEF Match
  <2>2. f[s.key] \in Named(c, t.kind, s.key)
    BY <1>1, <1>3, <2>1, LookupRows
  <2>3. f[s.key] \in Ids
    BY <2>2 DEF Named, Rows
  <2> QED
    BY <2>1, <2>3, Distinct
<1> QED
  BY <1>2, <1>3

\* A sheet that names nothing twice has one row that claims a row of the catalog.
LEMMA OneClaims ==
  ASSUME NEW c, NEW t, NamedOnce(t), NEW j \in DOMAIN t.sheet, NEW k \in DOMAIN t.sheet,
         NEW i \in Claimed(c, t, t.sheet[j]), i \in Claimed(c, t, t.sheet[k])
  PROVE  j = k
<1>1. t.sheet[j].key = t.sheet[k].key
  BY DEF Claimed, Named
<1>2. t.kind = "schedule" => t.sheet[j].name = t.sheet[k].name
  BY DEF Claimed, Named
<1> QED
  BY <1>1, <1>2 DEF NamedOnce

-----------------------------------------------------------------------------
(* What the flush of an import does to the catalog.                         *)

\* d is c after the import t: place has the new rows, and a row that the look-up g matches
\* has the value of its sheet row.
Applied(c, d, t, g, place) ==
    /\ place \in [t.create -> Ids]
    /\ \A j, k \in t.create : place[j] = place[k] => j = k
    /\ \A j \in t.create : c[place[j]] = None /\ d[place[j]] = ToInsert(t, g)[j]
    /\ \A i \in Ids : (\A j \in t.create : place[j] # i) =>
            IF Changes(c, t, g)[i] = None THEN d[i] = c[i]
            ELSE /\ c[i] \in Row /\ d[i] \in Row
                 /\ d[i].kind = c[i].kind /\ d[i].of = c[i].of /\ d[i].key = c[i].key
                 /\ d[i].value = Changes(c, t, g)[i].value

\* An import of the catalog c: its lists, and the look-ups of its preview and its apply.
Prepared(c, t, f, g) ==
    /\ t \in Request /\ t.kind \in Kinds /\ f \in Lookups(c, t.kind) /\ g \in Lookups(c, t.kind)
    /\ Told(c, t, f)
    /\ \A j \in t.create \cup t.update : ~Faulty(t.kind, g, t.sheet[j])
    /\ \A j \in t.update : Match(c, t.kind, g, t.sheet[j]) # None

LEMMA PreparedRows ==
  ASSUME NEW c, NEW t, NEW f, NEW g, Prepared(c, t, f, g)
  PROVE  /\ t.create \subseteq DOMAIN t.sheet /\ t.update \subseteq DOMAIN t.sheet
         /\ \A j \in DOMAIN t.sheet : t.sheet[j] \in SheetRow /\ j \in Positions
<1>1. t.create \subseteq DOMAIN t.sheet /\ t.update \subseteq DOMAIN t.sheet
  BY DEF Prepared, Told
<1>2. t.sheet \in Sheets \cup {<<>>}
  BY DEF Prepared, Request
<1> QED
  BY <1>1, <1>2, SheetRows

LEMMA ChangeMade ==
  ASSUME NEW c, NEW t \in Request, t.kind \in Kinds, t.update \subseteq DOMAIN t.sheet,
         NEW g \in Lookups(c, t.kind), NEW j \in t.update,
         Match(c, t.kind, g, t.sheet[j]) \in Ids
  PROVE  Changes(c, t, g)[Match(c, t.kind, g, t.sheet[j])] # None
<1>1. \A i \in Ids, k \in t.update :
        Match(c, t.kind, g, t.sheet[k]) = i => Changes(c, t, g)[i] # None
  BY ChangesAre
<1> QED
  BY <1>1

\* The change to i is that of a sheet row which matches it.
Comes(c, t, g, i) ==
    \E j \in t.update : /\ Match(c, t.kind, g, t.sheet[j]) = i
                        /\ Changes(c, t, g)[i].key = t.sheet[j].key
                        /\ Changes(c, t, g)[i].value = t.sheet[j].value

LEMMA ChangeComes ==
  ASSUME NEW c, NEW t \in Request, t.kind \in Kinds, t.update \subseteq DOMAIN t.sheet,
         NEW g \in Lookups(c, t.kind), NEW i \in Ids, Changes(c, t, g)[i] # None
  PROVE  c[i] \in Row /\ Changes(c, t, g)[i] \in Change /\ Comes(c, t, g, i)
<1> DEFINE Column(j) == [key |-> t.sheet[j].key, value |-> t.sheet[j].value]
<1>1. /\ Changes(c, t, g) \in [Ids -> Change \cup {None}]
      /\ c[i] \in Row
      /\ \E j \in t.update : /\ Match(c, t.kind, g, t.sheet[j]) = i
                             /\ Changes(c, t, g)[i] = Column(j)
  BY ChangesAre
<1>2. \A j : Column(j).key = t.sheet[j].key /\ Column(j).value = t.sheet[j].value
  OBVIOUS
<1> HIDE DEF Column
<1>3. PICK h : h = Changes(c, t, g)
  OBVIOUS
<1>4. Comes(c, t, g, i)
  BY <1>1, <1>2, <1>3 DEF Comes
<1> QED
  BY <1>1, <1>3, <1>4

\* The changes are those that the sheet names, if it names nothing twice.
LEMMA ChangeClaims ==
  ASSUME NEW c, NEW t, NEW f, NEW g, Prepared(c, t, f, g), NamedOnce(t), NEW i \in Ids,
         Changes(c, t, g)[i] # None
  PROVE  \E j \in t.update : /\ i \in Claimed(c, t, t.sheet[j])
                             /\ Changes(c, t, g)[i].value = t.sheet[j].value
                             /\ \A k \in DOMAIN t.sheet : i \in Claimed(c, t, t.sheet[k]) => k = j
<1>1. t \in Request /\ t.kind \in Kinds /\ t.update \subseteq DOMAIN t.sheet
      /\ g \in Lookups(c, t.kind)
  BY PreparedRows DEF Prepared
<1>0. Comes(c, t, g, i)
  BY <1>1, ChangeComes
<1>2. PICK j \in t.update :
        /\ Match(c, t.kind, g, t.sheet[j]) = i
        /\ Changes(c, t, g)[i].value = t.sheet[j].value
  BY <1>0 DEF Comes
<1>3. t.sheet[j] \in SheetRow /\ ~Faulty(t.kind, g, t.sheet[j]) /\ j \in DOMAIN t.sheet
  BY <1>1, PreparedRows DEF Prepared
<1>4. i \in Claimed(c, t, t.sheet[j])
  BY <1>1, <1>2, <1>3, MatchClaimed, Distinct
<1>5. \A k \in DOMAIN t.sheet : i \in Claimed(c, t, t.sheet[k]) => k = j
  BY <1>3, <1>4, OneClaims
<1> QED
  BY <1>2, <1>4, <1>5

\* Rows that were there keep what they are named by, and the new ones are of the import's kind.
LEMMA AppliedRows ==
  ASSUME NEW c, NEW d, NEW t, NEW f, NEW g, NEW place, Prepared(c, t, f, g),
         Applied(c, d, t, g, place)
  PROVE  /\ \A i \in Ids : c[i] \in Row =>
                /\ d[i] \in Row /\ d[i].kind = c[i].kind /\ d[i].of = c[i].of
                /\ d[i].key = c[i].key
         /\ \A j \in t.create :
                /\ place[j] \in Ids /\ d[place[j]] \in Row /\ d[place[j]].kind = t.kind
                /\ d[place[j]].key = t.sheet[j].key /\ d[place[j]].value = t.sheet[j].value
                /\ t.kind = "schedule" =>
                        d[place[j]].of \in Named(c, "barber", t.sheet[j].name)
         /\ \A i \in Ids : d[i] \in Row => c[i] \in Row \/ \E j \in t.create : place[j] = i
<1>1. /\ t \in Request /\ t.kind \in Kinds /\ g \in Lookups(c, t.kind)
      /\ t.create \subseteq DOMAIN t.sheet /\ \A j \in t.create : ~Faulty(t.kind, g, t.sheet[j])
  BY PreparedRows DEF Prepared
<1>2. \A i \in Ids : c[i] \in Row =>
        /\ d[i] \in Row /\ d[i].kind = c[i].kind /\ d[i].of = c[i].of /\ d[i].key = c[i].key
  <2> SUFFICES ASSUME NEW i \in Ids, c[i] \in Row
               PROVE  /\ d[i] \in Row /\ d[i].kind = c[i].kind /\ d[i].of = c[i].of
                      /\ d[i].key = c[i].key
    OBVIOUS
  <2>1. \A j \in t.create : place[j] # i
    BY Distinct DEF Applied
  <2> QED
    BY <2>1 DEF Applied
<1>3. ASSUME NEW j \in t.create
      PROVE  /\ place[j] \in Ids /\ d[place[j]] \in Row /\ d[place[j]].kind = t.kind
             /\ d[place[j]].key = t.sheet[j].key /\ d[place[j]].value = t.sheet[j].value
             /\ t.kind = "schedule" =>
                     d[place[j]].of \in Named(c, "barber", t.sheet[j].name)
  <2>1. place[j] \in Ids /\ d[place[j]] = ToInsert(t, g)[j]
    BY DEF Applied
  <2>2. /\ ToInsert(t, g)[j] \in Row /\ ToInsert(t, g)[j].kind = t.kind
        /\ ToInsert(t, g)[j] = NewRow(t.kind, g[t.sheet[j].name], t.sheet[j])
        /\ t.kind = "schedule" =>
              ToInsert(t, g)[j].of \in Named(c, "barber", t.sheet[j].name)
    BY <1>1, ToInsertType
  <2>3. /\ ToInsert(t, g)[j].key = t.sheet[j].key
        /\ ToInsert(t, g)[j].value = t.sheet[j].value
    BY <2>2 DEF NewRow
  <2> QED
    BY <2>1, <2>2, <2>3
<1>4. ASSUME NEW i \in Ids, d[i] \in Row, \A j \in t.create : place[j] # i
      PROVE  c[i] \in Row
  BY <1>4 DEF Applied
<1> QED
  BY <1>2, <1>3, <1>4

LEMMA ClaimedIs ==
  ASSUME NEW c, NEW t, NEW s, NEW i
  PROVE  i \in Claimed(c, t, s) <=>
            /\ i \in Ids /\ c[i] \in Row /\ c[i].kind = t.kind /\ c[i].key = s.key
            /\ t.kind = "schedule" => c[i].of \in Named(c, "barber", s.name)
  BY DEF Claimed, Named, Rows

\* An import keeps who is named what, and it adds names of its own kind only.
LEMMA NamedKept ==
  ASSUME NEW c, NEW d, NEW t, NEW f, NEW g, NEW place, Prepared(c, t, f, g),
         Applied(c, d, t, g, place), NEW kind, NEW k
  PROVE  /\ Named(c, kind, k) \subseteq Named(d, kind, k)
         /\ kind # t.kind => Named(d, kind, k) \subseteq Named(c, kind, k)
<1>1. \A i \in Ids : c[i] \in Row =>
        d[i] \in Row /\ d[i].kind = c[i].kind /\ d[i].key = c[i].key
  BY AppliedRows
<1>2. ASSUME NEW i \in Ids, d[i] \in Row, d[i].kind # t.kind
      PROVE  c[i] \in Row
  BY <1>2, AppliedRows
<1>3. Named(c, kind, k) \subseteq Named(d, kind, k)
  BY <1>1 DEF Named, Rows
<1>4. kind # t.kind => Named(d, kind, k) \subseteq Named(c, kind, k)
  BY <1>1, <1>2 DEF Named, Rows
<1> QED
  BY <1>3, <1>4

LEMMA ClaimedStays ==
  ASSUME NEW c, NEW d, NEW t, NEW f, NEW g, NEW place, Prepared(c, t, f, g),
         Applied(c, d, t, g, place), NEW s
  PROVE  /\ Claimed(c, t, s) \subseteq Claimed(d, t, s)
         /\ \A i \in Claimed(d, t, s) : c[i] \in Row => i \in Claimed(c, t, s)
<1>1. \A i \in Ids : c[i] \in Row =>
        /\ d[i] \in Row /\ d[i].kind = c[i].kind /\ d[i].of = c[i].of /\ d[i].key = c[i].key
  BY AppliedRows
<1>2. /\ Named(c, "barber", s.name) \subseteq Named(d, "barber", s.name)
      /\ t.kind = "schedule" => Named(d, "barber", s.name) \subseteq Named(c, "barber", s.name)
  BY NamedKept
<1>3. ASSUME NEW i \in Claimed(c, t, s)
      PROVE  i \in Claimed(d, t, s)
  BY <1>1, <1>2, ClaimedIs
<1>4. ASSUME NEW i \in Claimed(d, t, s), c[i] \in Row
      PROVE  i \in Claimed(c, t, s)
  BY <1>1, <1>2, <1>4, ClaimedIs
<1> QED
  BY <1>3, <1>4

\* A created row is claimed by its sheet row.
LEMMA PlacedClaimed ==
  ASSUME NEW c, NEW d, NEW t, NEW f, NEW g, NEW place, Prepared(c, t, f, g),
         Applied(c, d, t, g, place), NEW j \in t.create
  PROVE  /\ place[j] \in Claimed(d, t, t.sheet[j]) /\ d[place[j]].value = t.sheet[j].value
         /\ place[j] \in Ids /\ c[place[j]] = None /\ j \in DOMAIN t.sheet
<1>1. /\ place[j] \in Ids /\ d[place[j]] \in Row /\ d[place[j]].kind = t.kind
      /\ d[place[j]].key = t.sheet[j].key /\ d[place[j]].value = t.sheet[j].value
      /\ t.kind = "schedule" => d[place[j]].of \in Named(c, "barber", t.sheet[j].name)
  BY AppliedRows
<1>2. Named(c, "barber", t.sheet[j].name) \subseteq Named(d, "barber", t.sheet[j].name)
  BY NamedKept
<1>3. c[place[j]] = None
  BY DEF Applied
<1>4. j \in DOMAIN t.sheet
  BY PreparedRows
<1> QED
  BY <1>1, <1>2, <1>3, <1>4, ClaimedIs

\* A sheet row that is valid, with a barber that is known.
Valid(c, t, s) == s.fault = "valid" /\ (t.kind = "schedule" => Named(c, "barber", s.name) # {})

LEMMA ValidRows ==
  ASSUME NEW c, NEW t, NEW f, NEW g, Prepared(c, t, f, g), NEW j \in DOMAIN t.sheet
  PROVE  /\ t.sheet[j] \in SheetRow
         /\ Valid(c, t, t.sheet[j]) <=> ~Faulty(t.kind, f, t.sheet[j])
         /\ Valid(c, t, t.sheet[j]) <=> ~Faulty(t.kind, g, t.sheet[j])
         /\ j \in t.create <=>
                Valid(c, t, t.sheet[j]) /\ Match(c, t.kind, f, t.sheet[j]) = None
         /\ j \in t.update <=>
                /\ Valid(c, t, t.sheet[j]) /\ Match(c, t.kind, f, t.sheet[j]) # None
                /\ c[Match(c, t.kind, f, t.sheet[j])].value # t.sheet[j].value
<1>1. t.sheet[j] \in SheetRow
  BY PreparedRows
<1>2. t.kind \in Kinds /\ f \in Lookups(c, t.kind) /\ g \in Lookups(c, t.kind)
  BY DEF Prepared
<1>3. Valid(c, t, t.sheet[j]) <=> ~Faulty(t.kind, f, t.sheet[j])
  BY <1>1, <1>2, Faultless DEF Valid
<1>4. Valid(c, t, t.sheet[j]) <=> ~Faulty(t.kind, g, t.sheet[j])
  BY <1>1, <1>2, Faultless DEF Valid
<1>5. j \in t.create <=> Creates(c, t.kind, f, t.sheet[j])
  BY DEF Prepared, Told
<1>6. j \in t.update <=> Updates(c, t.kind, f, t.sheet[j])
  BY DEF Prepared, Told
<1>7. j \in t.create <=>
        Valid(c, t, t.sheet[j]) /\ Match(c, t.kind, f, t.sheet[j]) = None
  BY <1>3, <1>5 DEF Creates
<1>8. j \in t.update <=>
        /\ Valid(c, t, t.sheet[j]) /\ Match(c, t.kind, f, t.sheet[j]) # None
        /\ c[Match(c, t.kind, f, t.sheet[j])].value # t.sheet[j].value
  BY <1>3, <1>6 DEF Updates
<1> QED
  BY <1>1, <1>3, <1>4, <1>7, <1>8

\* The row that a sheet row matches was there; it is changed only for that sheet row.
LEMMA MatchedRow ==
  ASSUME NEW c, NEW d, NEW t, NEW f, NEW g, NEW place, Prepared(c, t, f, g),
         Applied(c, d, t, g, place), NamedOnce(t), NEW j \in DOMAIN t.sheet,
         NEW m \in Claimed(c, t, t.sheet[j])
  PROVE  /\ Changes(c, t, g)[m] = None => d[m] = c[m]
         /\ Changes(c, t, g)[m] # None => j \in t.update /\ d[m].value = t.sheet[j].value
<1>1. m \in Ids /\ c[m] \in Row
  BY ClaimedIs
<1>2. \A k \in t.create : place[k] # m
  BY <1>1, Distinct DEF Applied
<1>3. Changes(c, t, g)[m] = None => d[m] = c[m]
  BY <1>1, <1>2 DEF Applied
<1>4. ASSUME Changes(c, t, g)[m] # None
      PROVE  j \in t.update /\ d[m].value = t.sheet[j].value
  <2>1. d[m].value = Changes(c, t, g)[m].value
    BY <1>1, <1>2, <1>4 DEF Applied
  <2>2. PICK k \in t.update :
          /\ Changes(c, t, g)[m].value = t.sheet[k].value
          /\ \A h \in DOMAIN t.sheet : m \in Claimed(c, t, t.sheet[h]) => h = k
    BY <1>1, <1>4, ChangeClaims
  <2>3. j = k
    BY <2>2
  <2> QED
    BY <2>1, <2>2, <2>3
<1> QED
  BY <1>3, <1>4

\* A valid row is stored with its columns.
LEMMA StoredValue ==
  ASSUME NEW c, NEW d, NEW t, NEW f, NEW g, NEW place, Prepared(c, t, f, g),
         Applied(c, d, t, g, place), NamedOnce(t), NEW j \in DOMAIN t.sheet,
         Valid(c, t, t.sheet[j])
  PROVE  \E i \in Claimed(d, t, t.sheet[j]) : d[i].value = t.sheet[j].value
<1>1. /\ t \in Request /\ t.kind \in Kinds
      /\ f \in Lookups(c, t.kind) /\ g \in Lookups(c, t.kind)
      /\ t.update \subseteq DOMAIN t.sheet /\ t.sheet[j] \in SheetRow
      /\ ~Faulty(t.kind, f, t.sheet[j]) /\ ~Faulty(t.kind, g, t.sheet[j])
  BY PreparedRows, ValidRows DEF Prepared
<1>2. Claimed(c, t, t.sheet[j]) \subseteq Claimed(d, t, t.sheet[j])
  BY ClaimedStays
<1>3. CASE j \in t.create
  BY <1>3, PlacedClaimed
<1>4. CASE j \in t.update
  <2> DEFINE m == Match(c, t.kind, g, t.sheet[j])
  <2>1. m # None
    BY <1>4 DEF Prepared
  <2>2. m \in Claimed(c, t, t.sheet[j]) /\ m \in Ids
    BY <1>1, <2>1, MatchClaimed
  <2>3. Changes(c, t, g)[m] # None
    BY <1>1, <1>4, <2>2, ChangeMade
  <2> HIDE DEF m
  <2>4. d[m].value = t.sheet[j].value
    BY <2>2, <2>3, MatchedRow
  <2> QED
    BY <1>2, <2>2, <2>4
<1>5. CASE j \notin t.create /\ j \notin t.update
  <2> DEFINE m == Match(c, t.kind, f, t.sheet[j])
  <2>1. m # None /\ c[m].value = t.sheet[j].value
    BY <1>5, ValidRows
  <2>2. m \in Claimed(c, t, t.sheet[j])
    BY <1>1, <2>1, MatchClaimed
  <2> HIDE DEF m
  <2>3. d[m] = c[m]
    BY <1>5, <2>2, MatchedRow
  <2> QED
    BY <1>2, <2>1, <2>2, <2>3
<1> QED
  BY <1>3, <1>4, <1>5

\* A row that is claimed was there, or it is the one that was created for its sheet row.
LEMMA ClaimedBefore ==
  ASSUME NEW c, NEW d, NEW t, NEW f, NEW g, NEW place, Prepared(c, t, f, g),
         Applied(c, d, t, g, place), NamedOnce(t), NEW j \in DOMAIN t.sheet,
         NEW i \in Claimed(d, t, t.sheet[j])
  PROVE  i \in Claimed(c, t, t.sheet[j]) \/ (j \in t.create /\ i = place[j])
<1>1. i \in Ids /\ d[i] \in Row
  BY ClaimedIs
<1>2. CASE c[i] \in Row
  BY <1>2, ClaimedStays
<1>3. CASE c[i] \notin Row
  <2>1. PICK k \in t.create : place[k] = i
    BY <1>1, <1>3, AppliedRows
  <2>2. i \in Claimed(d, t, t.sheet[k]) /\ k \in DOMAIN t.sheet
    BY <2>1, PlacedClaimed
  <2>3. j = k
    BY <2>2, OneClaims
  <2> QED
    BY <2>1, <2>3
<1> QED
  BY <1>2, <1>3

\* It is stored in the rows that were there, or in one new row.
LEMMA StoredOnce ==
  ASSUME NEW c, NEW d, NEW t, NEW f, NEW g, NEW place, Prepared(c, t, f, g),
         Applied(c, d, t, g, place), NamedOnce(t), NEW j \in DOMAIN t.sheet,
         Valid(c, t, t.sheet[j]),
         ~(t.kind = "schedule" /\ Cardinality(Named(c, "barber", t.sheet[j].name)) > 1)
  PROVE  Cardinality(Claimed(d, t, t.sheet[j])) =
            IF Claimed(c, t, t.sheet[j]) = {} THEN 1 ELSE Cardinality(Claimed(c, t, t.sheet[j]))
<1>1. /\ t.kind \in Kinds /\ f \in Lookups(c, t.kind)
      /\ t.sheet[j] \in SheetRow /\ ~Faulty(t.kind, f, t.sheet[j])
  BY ValidRows DEF Prepared
<1>2. Claimed(c, t, t.sheet[j]) \subseteq Claimed(d, t, t.sheet[j])
  BY ClaimedStays
<1>3. CASE j \in t.create
  <2>1. Match(c, t.kind, f, t.sheet[j]) = None
    BY <1>3, ValidRows
  <2>2. Claimed(c, t, t.sheet[j]) = {}
    BY <1>1, <2>1, NoMatchUnclaimed
  <2>3. \A i \in Claimed(d, t, t.sheet[j]) : i = place[j]
    BY <2>2, ClaimedBefore
  <2>4. place[j] \in Claimed(d, t, t.sheet[j])
    BY <1>3, PlacedClaimed
  <2>5. Claimed(d, t, t.sheet[j]) = {place[j]}
    BY <2>3, <2>4
  <2>6. Cardinality({place[j]}) = 1
    BY FS_Singleton
  <2> QED
    BY <2>2, <2>5, <2>6
<1>4. CASE j \notin t.create
  <2>1. Match(c, t.kind, f, t.sheet[j]) # None
    BY <1>4, ValidRows
  <2>2. Claimed(c, t, t.sheet[j]) # {}
    BY <1>1, <2>1, MatchClaimed
  <2>3. Claimed(d, t, t.sheet[j]) \subseteq Claimed(c, t, t.sheet[j])
    BY <1>4, ClaimedBefore
  <2>4. Claimed(d, t, t.sheet[j]) = Claimed(c, t, t.sheet[j])
    BY <1>2, <2>3
  <2> QED
    BY <2>2, <2>4
<1> QED
  BY <1>3, <1>4

\* No other row of the catalog changes.
LEMMA OthersStay ==
  ASSUME NEW c, NEW d, NEW t, NEW f, NEW g, NEW place, Prepared(c, t, f, g),
         Applied(c, d, t, g, place), NamedOnce(t), NEW i \in Ids, d[i] # c[i]
  PROVE  \E j \in DOMAIN t.sheet : Valid(c, t, t.sheet[j]) /\ i \in Claimed(d, t, t.sheet[j])
<1>1. CASE \E j \in t.create : place[j] = i
  BY <1>1, PlacedClaimed, ValidRows
<1>2. CASE \A j \in t.create : place[j] # i
  <2>1. Changes(c, t, g)[i] # None
    BY <1>2 DEF Applied
  <2>2. PICK j \in t.update : i \in Claimed(c, t, t.sheet[j])
    BY <2>1, ChangeClaims
  <2>3. j \in DOMAIN t.sheet
    BY PreparedRows
  <2>4. Valid(c, t, t.sheet[j]) /\ i \in Claimed(d, t, t.sheet[j])
    BY <2>2, <2>3, ValidRows, ClaimedStays
  <2> QED
    BY <2>3, <2>4
<1> QED
  BY <1>1, <1>2

LEMMA AppliedSettles ==
  ASSUME NEW c, NEW d, NEW t, NEW f, NEW g, NEW place, Prepared(c, t, f, g),
         Applied(c, d, t, g, place), NamedOnce(t)
  PROVE  Settled(c, d, t)
<1> DEFINE valid == {s \in Range(t.sheet) :
                        s.fault = "valid" /\
                        (t.kind = "schedule" => Named(c, "barber", s.name) # {})}
<1>1. \A s \in valid : \E j \in DOMAIN t.sheet : s = t.sheet[j] /\ Valid(c, t, t.sheet[j])
  BY DEF Range, Valid
<1>2. \A j \in DOMAIN t.sheet : Valid(c, t, t.sheet[j]) => t.sheet[j] \in valid
  BY DEF Range, Valid
<1>3. Settled(c, d, t) <=>
        /\ \A s \in valid :
            /\ \E i \in Claimed(d, t, s) : d[i].value = s.value
            /\ \/ t.kind = "schedule" /\ Cardinality(Named(c, "barber", s.name)) > 1
               \/ Cardinality(Claimed(d, t, s)) =
                    IF Claimed(c, t, s) = {} THEN 1 ELSE Cardinality(Claimed(c, t, s))
        /\ \A i \in Ids : d[i] = c[i] \/ \E s \in valid : i \in Claimed(d, t, s)
  BY DEF Settled
<1> HIDE DEF valid
<1>4. ASSUME NEW s \in valid
      PROVE  /\ \E i \in Claimed(d, t, s) : d[i].value = s.value
             /\ \/ t.kind = "schedule" /\ Cardinality(Named(c, "barber", s.name)) > 1
                \/ Cardinality(Claimed(d, t, s)) =
                     IF Claimed(c, t, s) = {} THEN 1 ELSE Cardinality(Claimed(c, t, s))
  <2>1. PICK j \in DOMAIN t.sheet : s = t.sheet[j] /\ Valid(c, t, t.sheet[j])
    BY <1>1
  <2>2. \E i \in Claimed(d, t, s) : d[i].value = s.value
    BY <2>1, StoredValue
  <2>3. \/ t.kind = "schedule" /\ Cardinality(Named(c, "barber", s.name)) > 1
        \/ Cardinality(Claimed(d, t, s)) =
             IF Claimed(c, t, s) = {} THEN 1 ELSE Cardinality(Claimed(c, t, s))
    BY <2>1, StoredOnce
  <2> QED
    BY <2>2, <2>3
<1>5. ASSUME NEW i \in Ids, d[i] # c[i]
      PROVE  \E s \in valid : i \in Claimed(d, t, s)
  BY <1>2, <1>5, OthersStay
<1> QED
  BY <1>3, <1>4, <1>5

\* A change leaves the code, the name or the start as it was: the row was found by it.
LEMMA ChangeKey ==
  ASSUME NEW c, NEW t, NEW f, NEW g, Prepared(c, t, f, g), NEW i \in Ids,
         Changes(c, t, g)[i] # None
  PROVE  /\ c[i] \in Row /\ Changes(c, t, g)[i] \in Change
         /\ Changes(c, t, g)[i].key = c[i].key
<1>1. t \in Request /\ t.kind \in Kinds /\ t.update \subseteq DOMAIN t.sheet
      /\ g \in Lookups(c, t.kind)
  BY PreparedRows DEF Prepared
<1>2. c[i] \in Row /\ Changes(c, t, g)[i] \in Change /\ Comes(c, t, g, i)
  BY <1>1, ChangeComes
<1>3. PICK j \in t.update :
        /\ Match(c, t.kind, g, t.sheet[j]) = i
        /\ Changes(c, t, g)[i].key = t.sheet[j].key
  BY <1>2 DEF Comes
<1>4. t.sheet[j] \in SheetRow
  BY <1>1, PreparedRows
<1>5. i \in Named(c, t.kind, t.sheet[j].key)
  BY <1>1, <1>3, <1>4, MatchRow, Distinct
<1> QED
  BY <1>2, <1>3, <1>5 DEF Named

LEMMA FlushApplies ==
  ASSUME Inv, NEW r \in Requests, Flush(r), ~End(r, "failed"), tx[r].op = "import",
         NEW f, NEW g, Prepared(catalog, tx[r], f, g), Resent(catalog, tx[r], g),
         tx[r].remove = None
  PROVE  \E place : Applied(catalog, Seen(catalog, Flushed(r)), tx[r], g, place)
<1> PICK t : t = tx[r]
  OBVIOUS
<1>1. /\ t \in Request /\ t.kind \in Kinds /\ g \in Lookups(catalog, t.kind)
      /\ t.create \subseteq DOMAIN t.sheet /\ \A j \in t.create : ~Faulty(t.kind, g, t.sheet[j])
  BY PreparedRows DEF Prepared
<1>2. t.pc = "flush" /\ Places(t) # {} /\ ~FlushFails(r)
  BY FlushLands
<1>3. \A i \in Ids : t.own[i] = None
  BY <1>2, EmptyHanded DEF Inv, Fits, Staged
<1>4. /\ t.inserts = ToInsert(t, g) /\ t.loaded = catalog /\ t.changes = Changes(catalog, t, g)
      /\ t.remove = None
  BY DEF Resent
<1>5. /\ \A j \in Positions : ToInsert(t, g)[j] # None => j \in t.create
      /\ \A j \in t.create : j \in Positions /\ ToInsert(t, g)[j] \in Row
  BY <1>1, ToInsertType
<1>6. Inserts(t) = t.create
  BY <1>4, <1>5, Distinct DEF Inserts
<1>0. PICK place \in [Inserts(tx[r]) -> Unused] :
        /\ \A j \in Inserts(tx[r]) : Flushed(r)[place[j]] = tx[r].inserts[j]
        /\ \A j, k \in Inserts(tx[r]) : place[j] = place[k] => j = k
        /\ \A i \in Ids : (\A j \in Inserts(tx[r]) : place[j] # i) =>
                Flushed(r)[i] = IF i \in Touched(tx[r]) THEN Written(tx[r], i)
                                ELSE tx[r].own[i]
  BY <1>2, FlushPlaces
<1>7. /\ place \in [t.create -> Unused]
      /\ \A j \in t.create : Flushed(r)[place[j]] = t.inserts[j]
      /\ \A j, k \in t.create : place[j] = place[k] => j = k
      /\ \A i \in Ids : (\A j \in t.create : place[j] # i) =>
                Flushed(r)[i] = IF i \in Touched(t) THEN Written(t, i) ELSE t.own[i]
  BY <1>0, <1>6
<1> PICK d : d = Seen(catalog, Flushed(r))
  OBVIOUS
<1>8. \A i \in Ids : d[i] = IF Flushed(r)[i] # None THEN Flushed(r)[i] ELSE catalog[i]
  BY DEF Seen
<1>9. \A j \in t.create : place[j] \in Ids /\ catalog[place[j]] = None
  BY <1>7 DEF Unused
<1>10. \A j \in t.create : d[place[j]] = ToInsert(t, g)[j]
  BY <1>4, <1>5, <1>7, <1>8, <1>9, Distinct
<1>11. ASSUME NEW i \in Ids, \A j \in t.create : place[j] # i
       PROVE  IF Changes(catalog, t, g)[i] = None THEN d[i] = catalog[i]
              ELSE /\ catalog[i] \in Row /\ d[i] \in Row
                   /\ d[i].kind = catalog[i].kind /\ d[i].of = catalog[i].of
                   /\ d[i].key = catalog[i].key
                   /\ d[i].value = Changes(catalog, t, g)[i].value
  <2>1. Flushed(r)[i] = IF i \in Touched(t) THEN Written(t, i) ELSE None
    BY <1>3, <1>7, <1>11
  <2>2. i \in Touched(t) <=>
            /\ t.changes[i] # None
            /\ t.changes[i] # [key |-> catalog[i].key, value |-> catalog[i].value]
    BY <1>4, Distinct DEF Touched
  <2>3. CASE Changes(catalog, t, g)[i] = None
    BY <1>4, <1>8, <2>1, <2>2, <2>3
  <2>4. CASE Changes(catalog, t, g)[i] # None
    <3>1. /\ catalog[i] \in Row /\ t.changes[i] \in Change
          /\ t.changes[i].key = catalog[i].key
      BY <1>4, <2>4, ChangeKey
    <3>2. CASE i \notin Touched(t)
      <4>1. d[i] = catalog[i]
        BY <1>8, <2>1, <3>2
      <4>2. t.changes[i] = [key |-> catalog[i].key, value |-> catalog[i].value]
        BY <1>4, <2>2, <2>4, <3>2
      <4>3. t.changes[i].value = catalog[i].value
        BY <4>2
      <4> QED
        BY <1>4, <2>4, <3>1, <4>1, <4>3
    <3>3. CASE i \in Touched(t)
      <4>1. catalog[i] # Gone /\ i # t.remove
        BY <1>4, <3>1, Distinct
      <4>2. /\ Written(t, i) \in Row /\ Written(t, i).kind = catalog[i].kind
            /\ Written(t, i).of = catalog[i].of
            /\ Written(t, i).key = IF t.changes[i].key # t.loaded[i].key
                                   THEN t.changes[i].key ELSE catalog[i].key
            /\ Written(t, i).value = IF t.changes[i].value # t.loaded[i].value
                                     THEN t.changes[i].value ELSE catalog[i].value
        BY <3>3, <4>1, WrittenRow
      <4>3. d[i] = Written(t, i)
        BY <1>8, <2>1, <3>3, <4>2, Distinct
      <4>4. d[i].key = catalog[i].key /\ d[i].value = t.changes[i].value
        BY <1>4, <3>1, <4>2, <4>3
      <4> QED
        BY <1>4, <2>4, <3>1, <4>2, <4>3, <4>4
    <3> QED
      BY <3>2, <3>3
  <2> QED
    BY <2>3, <2>4
<1>12. place \in [t.create -> Ids]
  BY <1>7, <1>9
<1>13. Applied(catalog, d, t, g, place)
  BY <1>7, <1>9, <1>10, <1>11, <1>12 DEF Applied
<1> QED
  BY <1>13

LEMMA FlushSettles ==
  ASSUME Inv, NEW r \in Requests, Flush(r), ~End(r, "failed"), Settling(catalog, tx[r])
  PROVE  Settling(catalog, tx'[r])
<1> PICK t : t = tx[r]
  OBVIOUS
<1> PICK u : u = tx'[r]
  OBVIOUS
<1>1. /\ u.own = Flushed(r) /\ u.op = t.op /\ u.kind = t.kind /\ u.sheet = t.sheet
      /\ u.overtaken = t.overtaken /\ u.again = t.again
      /\ t.op = "import" => u.pc = "commit"
  BY FlushLands DEF Landed
<1>2. t.pc = "flush" /\ t \in Request
  BY FlushLands DEF Inv, TypeOK
<1> SUFFICES ASSUME t.op = "import", ~t.overtaken, ~t.again, NamedOnce(u)
             PROVE  Settled(catalog, Seen(catalog, u.own), u)
  BY <1>1 DEF Settling
<1>3. /\ t.kind \in Kinds /\ t.remove = None
      /\ \E f \in Lookups(catalog, t.kind) : Told(catalog, t, f)
      /\ \E g \in Lookups(catalog, t.kind) : Resent(catalog, t, g)
  BY <1>2 DEF Settling
<1>4. PICK f \in Lookups(catalog, t.kind) : Told(catalog, t, f)
  BY <1>3
<1>5. PICK g \in Lookups(catalog, t.kind) : Resent(catalog, t, g)
  BY <1>3
<1>6. Prepared(catalog, t, f, g)
  BY <1>2, <1>3, <1>4, <1>5 DEF Prepared, Resent
<1>7. PICK place : Applied(catalog, Seen(catalog, Flushed(r)), t, g, place)
  BY <1>3, <1>5, <1>6, FlushApplies
<1>8. NamedOnce(t)
  BY <1>1 DEF NamedOnce
<1>9. Settled(catalog, Seen(catalog, Flushed(r)), t)
  BY <1>6, <1>7, <1>8, AppliedSettles
<1>10. \A c, s : Claimed(c, u, s) = Claimed(c, t, s)
  BY <1>1 DEF Claimed
<1> QED
  BY <1>1, <1>9, <1>10 DEF Settled

LEMMA TemplateBegins ==
  ASSUME Inv, NEW r \in Requests, ApplyTemplate(r)
  PROVE  tx'[r].op = "template"
<1> DEFINE u == [Idle EXCEPT !.pc = "flush", !.op = "template", !.kind = "service",
                             !.inserts = Additions(catalog, "service")]
<1>1. Go(r, u)
  BY DEF ApplyTemplate
<1>2. u.op = "template"
  BY DEF Idle
<1> HIDE DEF u
<1> QED
  BY <1>1, <1>2, GoesTo

LEMMA PreviewSettles ==
  ASSUME Inv, NEW r \in Requests, NEW kind \in Kinds, Preview(r, kind), ~End(r, "failed")
  PROVE  Settling(catalog', tx'[r])
<1> PICK u : u = tx'[r]
  OBVIOUS
<1>1. catalog' = catalog
  BY PreviewShows
<1>2. PICK sheet \in Sheets, f \in Lookups(catalog, kind) : Shown(u, catalog, kind, sheet, f)
  BY PreviewShows
<1>3. Told(catalog, u, f) /\ u.kind = kind /\ u.remove = None /\ u.pc = "previewed"
  BY <1>2 DEF Shown, Told
<1> QED
  BY <1>1, <1>3 DEF Settling

LEMMA ApplySettles ==
  ASSUME Inv, NEW r \in Requests, NEW kind \in Kinds, ApplyImport(r, kind), ~End(r, "refused"),
         Settling(catalog, tx[r])
  PROVE  Settling(catalog', tx'[r])
<1> PICK t : t = tx[r]
  OBVIOUS
<1> PICK u : u = tx'[r]
  OBVIOUS
<1>1. PICK g \in Lookups(catalog, kind) :
        /\ \A j \in t.create \cup t.update : ~Faulty(kind, g, t.sheet[j])
        /\ \A j \in t.update : Match(catalog, kind, g, t.sheet[j]) # None
        /\ Go(r, u) /\ Sent(t, u, catalog, g)
  BY ApplyImportSends
<1>2. catalog' = catalog /\ t.pc = "previewed" /\ t.kind = kind
  BY <1>1 DEF Go, ApplyImport
<1>3. t.op = "import"
  BY <1>2 DEF Inv, Fits, Staged
<1>4. /\ u.pc = "flush" /\ u.kind = t.kind /\ u.sheet = t.sheet /\ u.create = t.create
      /\ u.update = t.update /\ u.remove = t.remove /\ u.loaded = catalog
      /\ u.overtaken = t.overtaken /\ u.again = t.again
      /\ u.changes = Changes(catalog, t, g) /\ u.inserts = ToInsert(t, g)
  BY <1>1 DEF Sent
<1> SUFFICES ASSUME ~t.overtaken, ~t.again
             PROVE  /\ u.kind \in Kinds /\ u.remove = None
                    /\ \E f \in Lookups(catalog, u.kind) : Told(catalog, u, f)
                    /\ \E h \in Lookups(catalog, u.kind) : Resent(catalog, u, h)
  BY <1>2, <1>4 DEF Settling
<1>5. /\ t.kind \in Kinds /\ t.remove = None
      /\ \E f \in Lookups(catalog, t.kind) : Told(catalog, t, f)
  BY <1>2, <1>3 DEF Settling
<1>6. PICK f \in Lookups(catalog, t.kind) : Told(catalog, t, f)
  BY <1>5
<1>7. Told(catalog, u, f)
  BY <1>4, <1>6 DEF Told
<1>8. Changes(catalog, u, g) = Changes(catalog, t, g) /\ ToInsert(u, g) = ToInsert(t, g)
  <2> DEFINE To(v, i) == {j \in v.update : Match(catalog, v.kind, g, v.sheet[j]) = i}
             Last(S) == CHOOSE j \in S : \A k \in S : k <= j
             Column(s) == [key |-> s.key, value |-> s.value]
             Of(v, i) == IF To(v, i) = {} THEN None ELSE Column(v.sheet[Last(To(v, i))])
  <2>1. /\ Changes(catalog, u, g) = [i \in Ids |-> Of(u, i)]
        /\ Changes(catalog, t, g) = [i \in Ids |-> Of(t, i)]
    BY DEF Changes
  <2>4. \A i : To(u, i) = To(t, i)
    BY <1>4
  <2> HIDE DEF To, Last, Column
  <2>5. \A i : Of(u, i) = Of(t, i)
    BY <1>4, <2>4
  <2> HIDE DEF Of
  <2>2. Changes(catalog, u, g) = Changes(catalog, t, g)
    BY <2>1, <2>5
  <2>3. ToInsert(u, g) = ToInsert(t, g)
    BY <1>4 DEF ToInsert
  <2> QED
    BY <2>2, <2>3
<1>9. Resent(catalog, u, g)
  BY <1>1, <1>2, <1>4, <1>8 DEF Resent
<1> QED
  BY <1>2, <1>4, <1>5, <1>6, <1>7, <1>9

LEMMA SettlingStep ==
  ASSUME ImportInv, [Next]_vars
  PROVE  ImportInv'
<1>1. Inv /\ Inv'
  BY StepKeeps DEF ImportInv
<1>2. ASSUME NEW r \in Requests
      PROVE  Settling(catalog', tx'[r])
  <2>1. Moves(r) /\ Settling(catalog, tx[r])
    BY <1>1, EachMoves DEF ImportInv
  <2>2. CASE \/ tx'[r].pc \notin {"previewed", "flush", "commit"}
             \/ tx'[r].op # "import" \/ tx'[r].overtaken \/ tx'[r].again
    BY <2>2 DEF Settling
  <2>3. CASE tx'[r] = tx[r] /\ catalog' = catalog
    BY <2>1, <2>3
  <2>4. CASE Passed(tx[r], tx'[r])
    BY <2>2, <2>4 DEF Passed, Stages
  <2>5. CASE tx'[r].pc \in Over
    BY <2>2, <2>5 DEF Over
  <2>6. CASE tx'[r].op \in {"create", "edit", "delete"}
    BY <2>2, <2>6
  <2>7. ASSUME NEW kind \in Kinds, Preview(r, kind), ~End(r, "failed")
        PROVE  Settling(catalog', tx'[r])
    BY <1>1, <2>7, PreviewSettles
  <2>8. ASSUME NEW kind \in Kinds, ApplyImport(r, kind), ~End(r, "refused")
        PROVE  Settling(catalog', tx'[r])
    BY <1>1, <2>1, <2>8, ApplySettles
  <2>9. CASE ApplyAgain(r)
    BY <1>1, <2>2, <2>9, AgainMoves
  <2>10. CASE ApplyTemplate(r)
    BY <1>1, <2>2, <2>10, TemplateBegins
  <2>11. CASE TemplateBarbers(r) /\ ~End(r, "failed")
    BY <1>1, <2>2, <2>11, TemplateBarbersSends DEF Asked
  <2>12. CASE TemplateSchedules(r) /\ ~End(r, "failed")
    <3>1. \E B : Planned(tx[r], tx'[r], Seen(catalog, tx[r].own), B)
      BY <1>1, <2>12, TemplateSchedulesSends
    <3> QED
      BY <2>2, <3>1 DEF Planned
  <2>13. CASE Flush(r) /\ ~End(r, "failed")
    <3>1. catalog' = catalog
      BY <1>1, <2>13, FlushLands
    <3> QED
      BY <1>1, <2>1, <2>13, <3>1, FlushSettles
  <2>14. CASE Commit(r)
    <3>1. Stored(tx[r], tx'[r]) /\ tx[r] \in Request
      BY <1>1, <2>14, CommitTx DEF Inv, TypeOK
    <3>2. tx'[r].pc = "stored" \/ tx'[r].pc \in Over
      BY <3>1, LeftType DEF Stored, Over
    <3> QED
      BY <2>2, <3>2 DEF Over
  <2> QED
    BY <2>1, <2>3, <2>4, <2>5, <2>6, <2>7, <2>8, <2>9, <2>10, <2>11, <2>12, <2>13, <2>14 DEF Moves
<1> QED
  BY <1>1, <1>2 DEF ImportInv

LEMMA InitImport == Init => ImportInv
<1> SUFFICES ASSUME Init
             PROVE  ImportInv
  OBVIOUS
<1>1. \A r \in Requests : tx[r].op = None /\ tx[r].pc = "idle"
  BY IdleType DEF Init
<1>2. \A r \in Requests : Settling(catalog, tx[r])
  BY <1>1 DEF Settling
<1> QED
  BY <1>2, InitInv DEF ImportInv

\* An import that nobody overtakes, at its first apply, stores every valid row of a sheet that
\* names nothing twice, once, and changes no other row of the catalog.
THEOREM ImportsSettle == Spec => ImportSettles
<1>1. ImportInv /\ [Next]_vars => ImportInv'
  BY SettlingStep
<1>2. ImportInv /\ [Next]_vars =>
        \A r \in Requests :
            Commits(r, "import") /\ ~tx[r].overtaken /\ ~tx[r].again /\ NamedOnce(tx[r]) =>
                Settled(catalog, catalog', tx[r])
  <2> SUFFICES ASSUME ImportInv, [Next]_vars, NEW r \in Requests, Commits(r, "import"),
                      ~tx[r].overtaken, ~tx[r].again, NamedOnce(tx[r])
               PROVE  Settled(catalog, catalog', tx[r])
    OBVIOUS
  <2>1. Commit(r) /\ tx[r].op = "import" /\ tx[r].pc = "commit"
    BY CommitsIsCommit DEF ImportInv, Commits
  <2>2. Settled(catalog, Seen(catalog, tx[r].own), tx[r])
    BY <2>1 DEF ImportInv, Settling
  <2>3. catalog' = Seen(catalog, tx[r].own)
    BY <2>1, CommitRows DEF ImportInv
  <2> QED
    BY <2>2, <2>3
<1> QED
  BY <1>1, <1>2, InitImport, PTL DEF Spec, ImportSettles

=============================================================================
