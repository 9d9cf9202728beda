--------------------------- MODULE ProviderConfigs ---------------------------
(***************************************************************************)
(* The provider_configs rows of one tenant and one kind, statement by      *)
(* statement: the superadmin's routes and the tenant's own sheets routes.  *)
(* A request is one transaction; the routes keep the rows they loaded, so  *)
(* its session has them as first loaded and sends an UPDATE only for what  *)
(* differs from that.  PostgreSQL keeps a lock on each changed row to the  *)
(* end of the transaction and a partial unique index on the active ones.   *)
(* The audit entries of the sheets routes are left out: TenantSettings has *)
(* that second transaction.                                                *)
(***************************************************************************)
EXTENDS Naturals, FiniteSets, Sequences, Functions

CONSTANTS
    Requests,
    MaxRows,        \* bound on the rows ever created
    MaxInitial,     \* bound on the rows at the start
    None,
    Gone            \* a deleted row

Ids == 1 .. MaxRows         \* primary keys: uuid4, so not in the order of creation
Row == [active : BOOLEAN, born : Ids]      \* born: the order of created_at

ASSUME ProvidersAssumption ==
    /\ MaxRows \in Nat /\ MaxInitial \in Nat
    /\ {None, Gone} \cap (Row \cup Ids \cup BOOLEAN) = {} /\ None # Gone
    /\ None \notin {"create", "update", "activate", "delete", "sweep"}

VARIABLES
    table,      \* per id, the committed row; None before it is created, Gone after
    tx          \* per request: where it is and what its session holds

vars == <<table, tx>>

Stages == {"select_active", "select_siblings", "reselect", "flush1", "flush2", "insert",
           "delete", "commit"}
Over == {"done", "failed", "refused"}

\* held: the rows loaded; was and now: those active as first read and as set since;
\* own: the rows written so far; todo: the statements left of a flush or a sweep, by row.
Session == [pc : {"idle"} \cup Stages \cup Over,
            op : {"create", "update", "activate", "delete", "sweep", None},
            target : Ids \cup {None}, want : BOOLEAN \cup {None}, relabel : BOOLEAN,
            held : SUBSET Ids, was : SUBSET Ids, now : SUBSET Ids,
            own : [Ids -> Row \cup {Gone, None}], todo : Seq(Ids),
            overtaken : BOOLEAN]        \* whether another request committed since it began

Nothing == [i \in Ids |-> None]
Idle == [pc |-> "idle", op |-> None, target |-> None, want |-> None, relabel |-> FALSE,
         held |-> {}, was |-> {}, now |-> {}, own |-> Nothing, todo |-> <<>>,
         overtaken |-> FALSE]

Existing(rows) == {i \in Ids : rows[i] \in Row}
Active(rows) == {i \in Existing(rows) : rows[i].active}

Init ==
    /\ table \in [Ids -> Row \cup {None}]
    /\ Cardinality(Active(table)) <= 1
    /\ LET E == Existing(table) IN
        /\ {table[i].born : i \in E} = 1 .. Cardinality(E)
        /\ Cardinality(E) <= MaxInitial
    /\ tx = [r \in Requests |-> Idle]

-----------------------------------------------------------------------------
(* PostgreSQL and the session.                                              *)

View(r) == [i \in Ids |-> IF tx[r].own[i] # None THEN tx[r].own[i] ELSE table[i]]

LockedBy(r, i) == {q \in Requests \ {r} : tx[q].own[i] # None}

NoRivals(r, i) == {}        \* mutant: no partial unique index

\* Another active row, as r sees it or of a transaction that is not committed yet.
Rivals(r, i) ==
    {j \in Ids \ {i} :
        \/ j \in Active(View(r))
        \/ \E q \in Requests \ {r} : tx[q].own[j] \in Row /\ tx[q].own[j].active}

\* The transactions whose end an entry for i in the index has to wait for.
IndexWaits(r, i) == UNION {LockedBy(r, j) : j \in Rivals(r, i)}

AtCommit(t) == t.pc = "commit" \/ (t.pc = "flush2" /\ t.todo = <<>>)

Activates(t, i) == i \in t.now \ t.was

Sending(t) == t.pc \in {"flush1", "flush2"} /\ t.todo # <<>>

WaitsFor(r) ==
    LET t == tx[r] IN
    CASE Sending(t) -> LockedBy(r, Head(t.todo))
                \cup (IF Activates(t, Head(t.todo)) THEN IndexWaits(r, Head(t.todo)) ELSE {})
      [] t.pc = "delete" -> LockedBy(r, Head(t.todo))
      [] t.pc = "insert" -> IF t.want THEN IndexWaits(r, 0) ELSE {}
      [] OTHER -> {}

LoadAgain(t, rows, ids) ==      \* mutant: the session does not know what it holds
    [t EXCEPT !.was = @ \cup (ids \cap Active(rows)), !.now = @ \cup (ids \cap Active(rows))]

\* Read the rows that the session does not hold yet; those it holds stay as they are.
Load(t, rows, ids) ==
    LET active == (ids \cap Active(rows)) \ t.held IN
    [t EXCEPT !.held = @ \cup ids, !.was = @ \cup active, !.now = @ \cup active]

Changed(t) == (t.was \ t.now) \cup (t.now \ t.was) \cup (IF t.relabel THEN {t.target} ELSE {})

\* The lists of a set in an order, a relation, with ties in any order.
InOrder(ids, before) ==
    {list \in Surjection(1 .. Cardinality(ids), ids) :
        \A j, k \in DOMAIN list : j < k => <<list[k], list[j]>> \notin before}

\* What t becomes when a flush begins: its UPDATEs go out in the order of the primary keys.
ByKey == {p \in Ids \X Ids : p[1] < p[2]}

Flushing(t, pc) == {[t EXCEPT !.todo = list, !.pc = pc] : list \in InOrder(Changed(t), ByKey)}

Go(r, t) == tx' = [tx EXCEPT ![r] = t] /\ UNCHANGED table

EndLeaking(r, pc) == Go(r, [tx[r] EXCEPT !.pc = pc])        \* mutant: no rollback

\* Rollback, and the session closes.
End(r, pc) == Go(r, [Idle EXCEPT !.pc = pc])

-----------------------------------------------------------------------------
(* The routes, up to and with their first SELECT.                           *)

Begin(r, t) == tx[r].pc = "idle" /\ Go(r, t)

Creating(active) == [Idle EXCEPT !.op = "create", !.want = active,
                                 !.pc = IF active THEN "select_active" ELSE "insert"]

\* Bound: there is an id left for every create in progress.
Creates(r, active) ==
    /\ Cardinality({i \in Ids : \E q \in Requests : View(q)[i] # None})
         + Cardinality({q \in Requests : tx[q].op = "create" /\ tx[q].pc \in Stages \ {"commit"}})
         < MaxRows
    /\ Begin(r, Creating(active))

CreateProviderConfig(r) == \E active \in BOOLEAN : Creates(r, active)

\* update: turned on after the active row is looked up, turned off at once.
Updating(t) ==
    IF t.want = TRUE THEN {[t EXCEPT !.pc = "select_active"]}
    ELSE Flushing([t EXCEPT !.now = IF t.want = FALSE THEN @ \ {t.target} ELSE @], "flush2")

UpdateProviderConfig(r) ==
    \E i \in Existing(table), want \in BOOLEAN \cup {None}, relabel \in BOOLEAN :
        \E t \in Updating(Load([Idle EXCEPT !.op = "update", !.target = i, !.want = want,
                                             !.relabel = relabel], table, {i})) : Begin(r, t)

ActivateProviderConfig(r) ==
    \E i \in Existing(table) :
        Begin(r, Load([Idle EXCEPT !.op = "activate", !.target = i, !.want = TRUE,
                                   !.pc = "select_siblings"], table, {i}))

DeleteProviderConfig(r) ==
    \E i \in Existing(table) :
        Begin(r, [Idle EXCEPT !.op = "delete", !.todo = <<i>>, !.pc = "delete"])

\* list_for_kind: the active row first, then by age; the sheets routes take the first.
ActiveFirst ==
    {p \in Ids \X Ids : IF table[p[1]].active = table[p[2]].active
                        THEN table[p[1]].born < table[p[2]].born
                        ELSE table[p[1]].active}

Listings == InOrder(Existing(table), ActiveFirst)

Listed(r, op, want, relabel) ==
    \E list \in Listings :
        Begin(r, Load([Idle EXCEPT !.op = op, !.target = Head(list), !.want = want,
                                   !.relabel = relabel, !.pc = "reselect"],
                      table, Existing(table)))

PutSheetsConfig(r) ==
    \E want \in BOOLEAN :
        \/ Existing(table) = {} /\ Creates(r, want)
        \/ Existing(table) # {} /\ Listed(r, "update", want, TRUE)

PatchSheetsConfig(r) ==
    \E want \in BOOLEAN \cup {None}, relabel \in BOOLEAN :
        Existing(table) # {} /\ Listed(r, "update", want, relabel)

\* An active row is returned as it is.
ActivateSheetsConfig(r) ==
    /\ Existing(table) # {} /\ Active(table) = {}
    /\ Listed(r, "activate", TRUE, FALSE)

DeleteSheetsConfig(r) ==
    /\ Existing(table) # {}
    /\ \E list \in Listings :
        Begin(r, [Idle EXCEPT !.op = "sweep", !.todo = list, !.pc = "delete"])

-----------------------------------------------------------------------------
(* The statements.                                                          *)

\* get_by_id again: the session returns the row it holds, or finds that it was deleted.
Reselect(r) ==
    LET t == tx[r] IN
    /\ t.pc = "reselect"
    /\ IF t.target \notin Existing(table) THEN End(r, "refused")
       ELSE IF t.op = "activate" THEN Go(r, [t EXCEPT !.pc = "select_siblings"])
       ELSE \E u \in Updating(t) : Go(r, u)

\* The deactivation is flushed with the target's new label; without a sibling nothing is.
SelectActive(r) ==
    LET siblings == Active(View(r)) \ {tx[r].target} IN
    /\ tx[r].pc = "select_active"
    /\ \E t \in {Load(tx[r], View(r), Active(View(r)))} :
        \E u \in IF siblings = {} THEN {[t EXCEPT !.pc = "flush1"]}
                 ELSE Flushing([t EXCEPT !.now = @ \ siblings], "flush1") : Go(r, u)

SelectSiblings(r) ==
    /\ tx[r].pc = "select_siblings"
    /\ \E t \in {Load(tx[r], View(r), Existing(View(r)))} :
        \E u \in Flushing([t EXCEPT !.now = @ \ (Existing(View(r)) \ {t.target})], "flush1") :
            Go(r, u)

ActivateNever(r) ==         \* mutant: the target's own activation is forgotten
    /\ tx[r].pc = "flush1" /\ tx[r].todo = <<>>
    /\ Go(r, [tx[r] EXCEPT !.pc = IF tx[r].op = "create" THEN "insert" ELSE "flush2"])

\* The deactivations are sent: now the new row, or the target itself.
ActivateTarget(r) ==
    /\ tx[r].pc = "flush1" /\ tx[r].todo = <<>>
    /\ IF tx[r].op = "create" THEN Go(r, [tx[r] EXCEPT !.pc = "insert"])
       ELSE \E u \in Flushing([tx[r] EXCEPT !.now = @ \cup {tx[r].target}], "flush2") : Go(r, u)

\* Only the changed columns are sent.
Written(r, i) ==
    LET t == tx[r] IN
    [View(r)[i] EXCEPT !.active = IF (i \in t.now) = (i \in t.was) THEN @ ELSE i \in t.now]

UpdateRow(r) ==
    LET t == tx[r]
        i == Head(t.todo)
    IN
    /\ Sending(t) /\ WaitsFor(r) = {}
    /\ IF i \notin Existing(View(r)) \/ (Activates(t, i) /\ Rivals(r, i) # {})
       THEN End(r, "failed")        \* StaleDataError, IntegrityError
       ELSE Go(r, [t EXCEPT !.own[i] = Written(r, i), !.todo = Tail(@),
                            !.was = (@ \ {i}) \cup (t.now \cap {i}),
                            !.relabel = @ /\ i # t.target])

NewBorn == 1 + Cardinality({i \in Ids : \E q \in Requests : View(q)[i] # None})

InsertRow(r) ==
    LET t == tx[r] IN
    /\ t.pc = "insert" /\ WaitsFor(r) = {}
    /\ IF t.want /\ Rivals(r, 0) # {} THEN End(r, "failed")
       ELSE \E i \in Ids :
            /\ \A q \in Requests : View(q)[i] = None
            /\ Go(r, [t EXCEPT !.own[i] = [active |-> t.want, born |-> NewBorn],
                               !.target = i, !.pc = "commit"])

\* A DELETE that matches nothing: 404 for a single one, ignored in the sweep.
DeleteRow(r) ==
    LET t == tx[r]
        i == Head(t.todo)
        rest == [t EXCEPT !.todo = Tail(@), !.pc = IF Tail(t.todo) = <<>> THEN "commit" ELSE @]
    IN
    /\ t.pc = "delete" /\ WaitsFor(r) = {}
    /\ CASE i \in Existing(table) -> Go(r, [rest EXCEPT !.own[i] = Gone])
         [] i \notin Existing(table) /\ t.op = "sweep" -> Go(r, rest)
         [] OTHER -> End(r, "refused")

Commit(r) ==
    /\ AtCommit(tx[r])
    /\ table' = View(r)
    /\ tx' = [q \in Requests |->
                IF q = r THEN [Idle EXCEPT !.pc = "done"]
                ELSE IF tx[q].pc \notin Stages THEN tx[q]
                ELSE [tx[q] EXCEPT !.overtaken = TRUE]]

\* The process dies or the connection breaks.
Crash(r) == tx[r].pc \in Stages /\ End(r, "failed")

\* PostgreSQL aborts one of a circle of waiting transactions.
DeadlockAbort(r) ==
    /\ \E circle \in SUBSET Requests :
        r \in circle /\ \A q \in circle : WaitsFor(q) \cap circle # {}
    /\ End(r, "failed")

Route(r) ==
    \/ CreateProviderConfig(r) \/ UpdateProviderConfig(r) \/ ActivateProviderConfig(r)
    \/ DeleteProviderConfig(r) \/ PutSheetsConfig(r) \/ PatchSheetsConfig(r)
    \/ ActivateSheetsConfig(r) \/ DeleteSheetsConfig(r)

Statement(r) ==
    \/ Reselect(r) \/ SelectActive(r) \/ SelectSiblings(r) \/ ActivateTarget(r)
    \/ UpdateRow(r) \/ InsertRow(r) \/ DeleteRow(r) \/ Commit(r)
    \/ DeadlockAbort(r)

Terminated == (\A r \in Requests : tx[r].pc \in Over) /\ UNCHANGED vars

Next == (\E r \in Requests : Route(r) \/ Statement(r) \/ Crash(r)) \/ Terminated

Spec == Init /\ [][Next]_vars /\ \A r \in Requests : WF_vars(Statement(r))

-----------------------------------------------------------------------------
TypeOK ==
    /\ table \in [Ids -> Row \cup {None, Gone}]
    /\ tx \in [Requests -> Session]
    /\ \A r \in Requests : /\ tx[r].pc = "delete" => tx[r].todo # <<>>
                          /\ tx[r].was \subseteq tx[r].held

\* At most one active row of a kind, committed or as any transaction in progress sees it,
\* however many activations, creations and deletions overlap.
OneActive ==
    /\ Cardinality(Active(table)) <= 1
    /\ \A r \in Requests : Cardinality(Active(View(r))) <= 1

\* A row created as active is the active one when the request is answered; a row that is
\* activated is, unless another request committed in between.
SwitchTakesEffect ==
    [][\A r \in Requests :
        AtCommit(tx[r]) /\ tx'[r].pc = "done" /\ tx[r].want = TRUE
        /\ (tx[r].op = "create" \/ ~tx[r].overtaken) => Active(table') = {tx[r].target}]_vars

\* Every request ends, though it waits for rows and index entries of others: no circle of
\* waits outlives the deadlock detector, and who fails lets go of its rows.
RequestsEnd == \A r \in Requests : tx[r].pc \in Stages ~> tx[r].pc \in Over
=============================================================================
