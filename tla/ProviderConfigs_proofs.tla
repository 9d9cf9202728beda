----------------------- MODULE ProviderConfigs_proofs -----------------------
(***************************************************************************)
(* One active configuration of a kind, for any number of requests and rows *)
(* and whatever routes they call.                                          *)
(***************************************************************************)
EXTENDS ProviderConfigs, FiniteSetTheorems, TLAPS

-----------------------------------------------------------------------------
(* The inductive invariant.                                                 *)

\* A session, as far as this argument goes: a record with the rows written so far, and
\* with a row to insert that is active or not.
Writes(t) ==
    /\ t = [f \in DOMAIN t |-> t[f]] /\ {"own", "pc", "op", "want"} \subseteq DOMAIN t
    /\ t.own = [i \in Ids |-> t.own[i]]
    /\ t.op = "create" => t.want \in BOOLEAN
    /\ t.pc = "insert" => t.op = "create"

Shape ==
    /\ table = [i \in Ids |-> table[i]]
    /\ tx = [r \in Requests |-> tx[r]]
    /\ \A r \in Requests : Writes(tx[r])

AtMostOne(rows) == \A i, j \in Active(rows) : i = j

\* r has an uncommitted active row i.
Claims(r, i) == tx[r].own[i] \in Row /\ tx[r].own[i].active

\* The waits for row locks and index entries: no two requests have written one row, and
\* no two have an active row that is not committed.
Apart ==
    \A q, r \in Requests : q # r =>
        \A i, j \in Ids : /\ tx[q].own[i] = None \/ tx[r].own[i] = None
                          /\ ~(Claims(q, i) /\ Claims(r, j))

Inv ==
    /\ Shape
    /\ AtMostOne(table) /\ \A r \in Requests : AtMostOne(View(r))
    /\ Apart

-----------------------------------------------------------------------------
(* The session.                                                             *)

\* t is the session s, or a new one, with other fields than the written rows changed.
Kept(s, t) == Writes(t) /\ t.own \in {s.own, Nothing}

LEMMA IdleWrites == Writes(Idle) /\ Idle.own = Nothing
<1>1. Idle = [f \in DOMAIN Idle |-> Idle[f]] /\ {"own", "pc", "op", "want"} \subseteq DOMAIN Idle
  BY DEF Idle
<1>2. Idle.own = Nothing /\ Idle.op = None /\ Idle.pc = "idle"
  BY DEF Idle
<1> QED
  BY <1>1, <1>2, ProvidersAssumption DEF Writes, Nothing

\* A session that goes on, to another statement than an insert.
LEMMA OnWrites ==
  ASSUME NEW t, Writes(t), NEW u, DOMAIN u = DOMAIN t, u = [f \in DOMAIN u |-> u[f]],
         u.own = t.own, u.op = t.op, u.want = t.want, u.pc # "insert"
  PROVE  Writes(u)
  BY DEF Writes

LEMMA LoadKept ==
  ASSUME NEW t, Writes(t), NEW rows, NEW ids
  PROVE  Writes(Load(t, rows, ids)) /\ Load(t, rows, ids).own = t.own
<1> DEFINE active == (ids \cap Active(rows)) \ t.held
<1>1. Load(t, rows, ids) =
        [t EXCEPT !.held = @ \cup ids, !.was = @ \cup active, !.now = @ \cup active]
  BY DEF Load
<1> HIDE DEF active
<1> QED
  BY <1>1 DEF Writes

LEMMA FlushingKept ==
  ASSUME NEW t, Writes(t), NEW pc, pc # "insert", NEW u \in Flushing(t, pc)
  PROVE  Writes(u) /\ u.own = t.own
<1>1. PICK list : u = [t EXCEPT !.todo = list, !.pc = pc]
  BY DEF Flushing
<1>2. DOMAIN u = DOMAIN t /\ u = [f \in DOMAIN u |-> u[f]]
  BY <1>1
<1>3. u.own = t.own /\ u.op = t.op /\ u.want = t.want /\ u.pc = pc
  BY <1>1 DEF Writes
<1> QED
  BY <1>2, <1>3, OnWrites

LEMMA UpdatingKept ==
  ASSUME NEW t, Writes(t), NEW v \in Updating(t)
  PROVE  Writes(v) /\ v.own = t.own
<1>1. CASE t.want = TRUE
  <2>1. v = [t EXCEPT !.pc = "select_active"]
    BY <1>1 DEF Updating
  <2> QED
    BY <2>1 DEF Writes
<1>2. CASE t.want # TRUE
  <2> DEFINE u == [t EXCEPT !.now = IF t.want = FALSE THEN @ \ {t.target} ELSE @]
  <2>1. Writes(u) /\ u.own = t.own
    BY DEF Writes
  <2>2. v \in Flushing(u, "flush2")
    BY <1>2 DEF Updating
  <2> HIDE DEF u
  <2> QED
    BY <2>1, <2>2, FlushingKept
<1> QED
  BY <1>1, <1>2

\* A step of r that writes no row, or drops what it wrote.
Quiet(r) ==
    /\ table' = table
    /\ \A q \in Requests : q # r => tx'[q] = tx[q]
    /\ tx' = [q \in Requests |-> tx'[q]]
    /\ Kept(tx[r], tx'[r])

LEMMA GoQuiet ==
  ASSUME Shape, NEW r \in Requests, NEW t, Kept(tx[r], t), Go(r, t)
  PROVE  Quiet(r)
  BY DEF Shape, Go, Quiet

LEMMA BeginQuiet ==
  ASSUME Shape, NEW r \in Requests, NEW t, Writes(t), t.own = Nothing, Begin(r, t)
  PROVE  Quiet(r)
  BY GoQuiet DEF Begin, Kept

LEMMA EndQuiet ==
  ASSUME Shape, NEW r \in Requests, NEW pc, pc # "insert", End(r, pc)
  PROVE  Quiet(r)
<1>1. Kept(tx[r], [Idle EXCEPT !.pc = pc])
  BY IdleWrites DEF Kept, Writes
<1> QED
  BY <1>1, GoQuiet DEF End

LEMMA CreatesQuiet ==
  ASSUME Shape, NEW r \in Requests, NEW active \in BOOLEAN, Creates(r, active)
  PROVE  Quiet(r)
<1>1. Writes(Creating(active)) /\ Creating(active).own = Nothing
  BY IdleWrites DEF Creating, Writes
<1> QED
  BY <1>1, BeginQuiet DEF Creates

LEMMA ListedQuiet ==
  ASSUME Shape, NEW r \in Requests, NEW op, op # "create", NEW want, NEW relabel,
         Listed(r, op, want, relabel)
  PROVE  Quiet(r)
<1> PICK list \in Listings :
        Begin(r, Load([Idle EXCEPT !.op = op, !.target = Head(list), !.want = want,
                                   !.relabel = relabel, !.pc = "reselect"],
                      table, Existing(table)))
  BY DEF Listed
<1> DEFINE t == [Idle EXCEPT !.op = op, !.target = Head(list), !.want = want,
                             !.relabel = relabel, !.pc = "reselect"]
<1>1. Writes(t) /\ t.own = Nothing
  <2>1. DOMAIN t = DOMAIN Idle /\ t = [f \in DOMAIN t |-> t[f]]
    OBVIOUS
  <2>2. t.own = Nothing /\ t.op = op /\ t.pc = "reselect"
    BY DEF Idle
  <2> HIDE DEF t
  <2> QED
    BY <2>1, <2>2, IdleWrites DEF Writes, Nothing
<1>2. Begin(r, Load(t, table, Existing(table)))
  OBVIOUS
<1> HIDE DEF t
<1> QED
  BY <1>1, <1>2, LoadKept, BeginQuiet

\* The routes only read.
LEMMA RouteQuiet ==
  ASSUME Shape, NEW r \in Requests, Route(r)
  PROVE  Quiet(r)
<1>1. CASE CreateProviderConfig(r)
  BY <1>1, CreatesQuiet DEF CreateProviderConfig
<1>2. CASE UpdateProviderConfig(r)
  <2> PICK i \in Existing(table), want \in BOOLEAN \cup {None}, relabel \in BOOLEAN :
        \E v \in Updating(Load([Idle EXCEPT !.op = "update", !.target = i, !.want = want,
                                             !.relabel = relabel], table, {i})) : Begin(r, v)
    BY <1>2 DEF UpdateProviderConfig
  <2> DEFINE t == [Idle EXCEPT !.op = "update", !.target = i, !.want = want,
                               !.relabel = relabel]
  <2>1. Writes(t) /\ t.own = Nothing
    <3>1. DOMAIN t = DOMAIN Idle /\ t = [f \in DOMAIN t |-> t[f]]
      OBVIOUS
    <3>2. t.own = Nothing /\ t.op = "update" /\ t.pc = "idle"
      BY DEF Idle
    <3> HIDE DEF t
    <3> QED
      BY <3>1, <3>2, IdleWrites DEF Writes, Nothing
  <2> HIDE DEF t
  <2>2. Writes(Load(t, table, {i})) /\ Load(t, table, {i}).own = Nothing
    BY <2>1, LoadKept
  <2>3. \A v \in Updating(Load(t, table, {i})) : Writes(v) /\ v.own = Nothing
    BY <2>2, UpdatingKept
  <2>4. \E v \in Updating(Load(t, table, {i})) : Begin(r, v)
    BY DEF t
  <2> QED
    BY <2>3, <2>4, BeginQuiet
<1>3. CASE ActivateProviderConfig(r)
  <2> PICK i \in Existing(table) :
        Begin(r, Load([Idle EXCEPT !.op = "activate", !.target = i, !.want = TRUE,
                                   !.pc = "select_siblings"], table, {i}))
    BY <1>3 DEF ActivateProviderConfig
  <2> DEFINE t == [Idle EXCEPT !.op = "activate", !.target = i, !.want = TRUE,
                               !.pc = "select_siblings"]
  <2>1. Writes(t) /\ t.own = Nothing
    BY IdleWrites DEF Writes
  <2>2. Begin(r, Load(t, table, {i}))
    OBVIOUS
  <2> HIDE DEF t
  <2> QED
    BY <2>1, <2>2, LoadKept, BeginQuiet
<1>4. CASE DeleteProviderConfig(r)
  <2> PICK i \in Existing(table) :
        Begin(r, [Idle EXCEPT !.op = "delete", !.todo = <<i>>, !.pc = "delete"])
    BY <1>4 DEF DeleteProviderConfig
  <2> DEFINE t == [Idle EXCEPT !.op = "delete", !.todo = <<i>>, !.pc = "delete"]
  <2>1. Writes(t) /\ t.own = Nothing
    BY IdleWrites DEF Writes
  <2>2. Begin(r, t)
    OBVIOUS
  <2> HIDE DEF t
  <2> QED
    BY <2>1, <2>2, BeginQuiet
<1>5. CASE PutSheetsConfig(r)
  BY <1>5, CreatesQuiet, ListedQuiet DEF PutSheetsConfig
<1>6. CASE PatchSheetsConfig(r)
  BY <1>6, ListedQuiet DEF PatchSheetsConfig
<1>7. CASE ActivateSheetsConfig(r)
  BY <1>7, ListedQuiet DEF ActivateSheetsConfig
<1>8. CASE DeleteSheetsConfig(r)
  <2> PICK list \in Listings :
        Begin(r, [Idle EXCEPT !.op = "sweep", !.todo = list, !.pc = "delete"])
    BY <1>8 DEF DeleteSheetsConfig
  <2> DEFINE t == [Idle EXCEPT !.op = "sweep", !.todo = list, !.pc = "delete"]
  <2>1. Writes(t) /\ t.own = Nothing
    BY IdleWrites DEF Writes
  <2>2. Begin(r, t)
    OBVIOUS
  <2> HIDE DEF t
  <2> QED
    BY <2>1, <2>2, BeginQuiet
<1> QED
  BY <1>1, <1>2, <1>3, <1>4, <1>5, <1>6, <1>7, <1>8 DEF Route

-----------------------------------------------------------------------------
(* The statements.                                                          *)

\* r writes row i, after the waits for it and, if it makes it active, for its rivals.
Sets(r, i, row) ==
    /\ table' = table
    /\ tx' = [q \in Requests |-> tx'[q]]
    /\ \A q \in Requests : q # r => tx'[q] = tx[q]
    /\ Writes(tx'[r]) /\ row # None
    /\ tx'[r].own = [tx[r].own EXCEPT ![i] = row]
    /\ LockedBy(r, i) = {}
    /\ row \in Row /\ row.active =>
         Rivals(r, i) = {} \/ (View(r)[i] \in Row /\ View(r)[i].active)

LEMMA GoSets ==
  ASSUME Shape, NEW r \in Requests, NEW i \in Ids, NEW row, row # None,
         NEW t, Writes(t), t.own = [tx[r].own EXCEPT ![i] = row], Go(r, t),
         LockedBy(r, i) = {},
         row \in Row /\ row.active =>
            Rivals(r, i) = {} \/ (View(r)[i] \in Row /\ View(r)[i].active)
  PROVE  Sets(r, i, row)
  BY DEF Shape, Go, Sets

\* None and Gone are no rows.
LEMMA Markers == None \notin Row /\ Gone \notin Row /\ None # Gone
  BY ProvidersAssumption

LEMMA QuietKeeps ==
  ASSUME Inv, NEW r \in Requests, Quiet(r)
  PROVE  Inv'
<1>1. \A q \in Requests : Writes(tx'[q]) /\ tx'[q].own \in {tx[q].own, Nothing}
  BY DEF Inv, Shape, Quiet, Kept
<1>2. Shape'
  BY <1>1 DEF Inv, Shape, Quiet
<1>3. \A q \in Requests, i \in Ids : tx'[q].own[i] = tx[q].own[i] \/ tx'[q].own[i] = None
  BY <1>1 DEF Nothing
<1>4. \A q \in Requests, i \in Ids : Claims(q, i)' => Claims(q, i)
  BY <1>3, Markers DEF Claims
<1>5. Apart'
  BY <1>3, <1>4 DEF Inv, Apart
<1>6. ASSUME NEW q \in Requests PROVE AtMostOne(View(q)')
  <2>1. View(q)' \in {View(q), table}
    <3>1. CASE tx'[q].own = tx[q].own
      BY <3>1 DEF View, Quiet
    <3>2. CASE tx'[q].own = Nothing
      <4>1. View(q)' = [i \in Ids |-> table[i]]
        BY <3>2 DEF View, Quiet, Nothing
      <4> QED
        BY <4>1 DEF Inv, Shape
    <3> QED
      BY <1>1, <3>1, <3>2
  <2> QED
    BY <2>1 DEF Inv
<1>7. AtMostOne(table')
  BY DEF Inv, Quiet
<1>8. \A q \in Requests : AtMostOne(View(q))'
  BY <1>6 DEF AtMostOne
<1> QED
  BY <1>2, <1>5, <1>7, <1>8 DEF Inv, AtMostOne

LEMMA SetsKeeps ==
  ASSUME Inv, NEW r \in Requests, NEW i \in Ids, NEW row, Sets(r, i, row)
  PROVE  Inv'
<1>1. \A k \in Ids : tx'[r].own[k] = IF k = i THEN row ELSE tx[r].own[k]
  BY DEF Inv, Shape, Writes, Sets
<1>2. /\ \A q \in Requests : q # r => tx'[q] = tx[q]
      /\ table' = table /\ row # None
  BY DEF Sets
<1>3. Shape'
  BY <1>2 DEF Inv, Shape, Sets
<1>4. \A q \in Requests : q # r => tx[q].own[i] = None
  BY DEF Sets, LockedBy
<1>5. \A k \in Ids : View(r)'[k] = IF k = i THEN row ELSE View(r)[k]
  BY <1>1, <1>2 DEF View
<1>6. ASSUME row \in Row, row.active, NEW k \in Ids, k # i PROVE k \notin Active(View(r))
  <2>1. CASE Rivals(r, i) = {}
    BY <1>6, <2>1 DEF Rivals
  <2>2. CASE View(r)[i] \in Row /\ View(r)[i].active
    BY <1>6, <2>2 DEF Inv, AtMostOne, Active, Existing
  <2> QED
    BY <1>6, <2>1, <2>2 DEF Sets
<1>7. AtMostOne(View(r)')
  <2>1. \A k \in Ids : k \in Active(View(r)') =>
          IF k = i THEN row \in Row /\ row.active ELSE k \in Active(View(r))
    BY <1>5 DEF Active, Existing
  <2>2. Active(View(r)') \subseteq Ids
    BY DEF Active, Existing
  <2>3. AtMostOne(View(r))
    BY DEF Inv
  <2> QED
    BY <1>6, <2>1, <2>2, <2>3 DEF AtMostOne
<1>8. ASSUME NEW q \in Requests PROVE AtMostOne(View(q)')
  <2>1. CASE q = r
    BY <1>7, <2>1
  <2>2. CASE q # r
    <3>1. View(q)' = View(q)
      BY <1>2, <2>2 DEF View
    <3> QED
      BY <3>1 DEF Inv
  <2> QED
    BY <2>1, <2>2
<1>9. ASSUME row \in Row, row.active, NEW q \in Requests, q # r, NEW j \in Ids
      PROVE  ~Claims(q, j)
  <2>1. CASE j = i
    BY <1>4, <1>9, <2>1, Markers DEF Claims
  <2>2. CASE j # i /\ Rivals(r, i) = {}
    BY <1>9, <2>2 DEF Rivals, Claims
  <2>3. CASE j # i /\ View(r)[i] \in Row /\ View(r)[i].active
    <3>1. CASE tx[r].own[i] # None
      <4>1. Claims(r, i)
        BY <2>3, <3>1 DEF View, Claims
      <4> QED
        BY <1>9, <4>1 DEF Inv, Apart
    <3>2. CASE tx[r].own[i] = None /\ Claims(q, j)
      <4>1. View(q)[i] = View(r)[i] /\ View(q)[j] = tx[q].own[j]
        BY <1>4, <1>9, <3>2, Markers DEF View, Claims
      <4>2. i \in Active(View(q)) /\ j \in Active(View(q))
        BY <2>3, <3>2, <4>1 DEF Active, Existing, Claims
      <4> QED
        BY <2>3, <4>2 DEF Inv, AtMostOne
    <3> QED
      BY <3>1, <3>2
  <2> QED
    BY <1>9, <2>1, <2>2, <2>3 DEF Sets
<1>10. Apart'
  <2> SUFFICES ASSUME NEW p \in Requests, NEW q \in Requests, p # q, NEW j \in Ids, NEW k \in Ids
               PROVE  /\ tx'[p].own[j] = None \/ tx'[q].own[j] = None
                      /\ ~(Claims(p, j)' /\ Claims(q, k)')
    BY DEF Apart
  <2>1. CASE p # r /\ q # r
    BY <1>2, <2>1 DEF Inv, Apart, Claims
  <2>2. CASE p = r
    BY <1>1, <1>2, <1>4, <1>9, <2>2 DEF Inv, Apart, Claims
  <2>3. CASE q = r
    BY <1>1, <1>2, <1>4, <1>9, <2>3 DEF Inv, Apart, Claims
  <2> QED
    BY <2>1, <2>2, <2>3
<1>11. AtMostOne(table') /\ \A q \in Requests : AtMostOne(View(q))'
  BY <1>2, <1>8 DEF Inv, AtMostOne
<1> QED
  BY <1>3, <1>10, <1>11 DEF Inv, AtMostOne

\* A commit publishes what r saw; the others see it under their own writes.
LEMMA CommitKeeps ==
  ASSUME Inv, NEW r \in Requests, Commit(r)
  PROVE  Inv'
<1>1. table' = View(r) /\ tx' = [q \in Requests |-> tx'[q]]
  BY DEF Commit
<1>2. Writes(tx'[r]) /\ tx'[r].own = Nothing
  BY IdleWrites DEF Commit, Writes
<1>3. \A q \in Requests : q # r => Writes(tx'[q]) /\ tx'[q].own = tx[q].own
  BY DEF Commit, Inv, Shape, Writes
<1>4. View(r) = [i \in Ids |-> View(r)[i]]
  BY DEF View
<1>5. Shape'
  BY <1>1, <1>2, <1>3, <1>4 DEF Shape
<1>6. Apart'
  BY <1>2, <1>3, Markers DEF Inv, Apart, Claims, Nothing
<1>7. ASSUME NEW q \in Requests PROVE AtMostOne(View(q)')
  <2>1. CASE q = r
    <3>1. View(q)' = [i \in Ids |-> View(r)[i]]
      BY <1>1, <1>2, <2>1 DEF View, Nothing
    <3>2. View(q)' = View(r)
      BY <1>4, <3>1
    <3> QED
      BY <3>2 DEF Inv
  <2>2. CASE q # r
    <3>1. \A k \in Ids : View(q)'[k] = IF tx[q].own[k] # None THEN tx[q].own[k] ELSE View(r)[k]
      BY <1>1, <1>3, <2>2 DEF View
    <3>2. ASSUME NEW j \in Ids, NEW k \in Ids, tx[q].own[j] # None, tx[q].own[k] = None,
                 Claims(q, j), View(r)[k] \in Row, View(r)[k].active
          PROVE  FALSE
      <4>1. CASE tx[r].own[k] # None
        <5>1. Claims(r, k)
          BY <3>2, <4>1 DEF View, Claims
        <5> QED
          BY <2>2, <3>2, <5>1 DEF Inv, Apart
      <4>2. CASE tx[r].own[k] = None
        <5>1. View(q)[k] = View(r)[k] /\ View(q)[j] = tx[q].own[j]
          BY <3>2, <4>2 DEF View
        <5>2. j \in Active(View(q)) /\ k \in Active(View(q))
          BY <3>2, <5>1 DEF Active, Existing, Claims
        <5> QED
          BY <3>2, <5>2 DEF Inv, AtMostOne
      <4> QED
        BY <4>1, <4>2
    <3>3. ASSUME NEW j \in Active(View(q)'), NEW k \in Active(View(q)') PROVE j = k
      <4>1. /\ j \in Ids /\ View(q)'[j] \in Row /\ View(q)'[j].active
            /\ k \in Ids /\ View(q)'[k] \in Row /\ View(q)'[k].active
        BY <3>3 DEF Active, Existing
      <4>2. CASE tx[q].own[j] # None /\ tx[q].own[k] # None
        <5>1. View(q)[j] = View(q)'[j] /\ View(q)[k] = View(q)'[k]
          BY <3>1, <4>1, <4>2 DEF View
        <5> QED
          BY <4>1, <5>1 DEF Inv, AtMostOne, Active, Existing
      <4>3. CASE tx[q].own[j] # None /\ tx[q].own[k] = None
        BY <3>1, <3>2, <4>1, <4>3 DEF Claims
      <4>4. CASE tx[q].own[j] = None /\ tx[q].own[k] # None
        BY <3>1, <3>2, <4>1, <4>4 DEF Claims
      <4>5. CASE tx[q].own[j] = None /\ tx[q].own[k] = None
        BY <3>1, <4>1, <4>5 DEF Inv, AtMostOne, Active, Existing
      <4> QED
        BY <4>2, <4>3, <4>4, <4>5
    <3> QED
      BY <3>3 DEF AtMostOne
  <2> QED
    BY <2>1, <2>2
<1>8. AtMostOne(table') /\ \A q \in Requests : AtMostOne(View(q))'
  BY <1>1, <1>7 DEF Inv, AtMostOne
<1> QED
  BY <1>5, <1>6, <1>8 DEF Inv, AtMostOne

LEMMA SelectQuiet ==
  ASSUME Shape, NEW r \in Requests, SelectActive(r) \/ SelectSiblings(r) \/ ActivateTarget(r)
  PROVE  Quiet(r)
<1>1. Writes(tx[r])
  BY DEF Shape
<1>2. CASE SelectActive(r)
  <2> DEFINE t == Load(tx[r], View(r), Active(View(r)))
             siblings == Active(View(r)) \ {tx[r].target}
             u == [t EXCEPT !.now = @ \ siblings]
  <2>1. Writes(t) /\ t.own = tx[r].own
    BY <1>1, LoadKept
  <2>2. Go(r, [t EXCEPT !.pc = "flush1"]) \/ \E v \in Flushing(u, "flush1") : Go(r, v)
    BY <1>2 DEF SelectActive
  <2> HIDE DEF t, siblings
  <2>3. Kept(tx[r], [t EXCEPT !.pc = "flush1"]) /\ Writes(u) /\ u.own = tx[r].own
    BY <2>1 DEF Kept, Writes
  <2> HIDE DEF u
  <2>4. \A v \in Flushing(u, "flush1") : Kept(tx[r], v)
    BY <2>3, FlushingKept DEF Kept
  <2> QED
    BY <2>2, <2>3, <2>4, GoQuiet
<1>3. CASE SelectSiblings(r)
  <2> DEFINE t == Load(tx[r], View(r), Existing(View(r)))
             u == [t EXCEPT !.now = @ \ (Existing(View(r)) \ {t.target})]
  <2>1. Writes(t) /\ t.own = tx[r].own
    BY <1>1, LoadKept
  <2>2. \E v \in Flushing(u, "flush1") : Go(r, v)
    BY <1>3 DEF SelectSiblings
  <2> HIDE DEF t
  <2>3. Writes(u) /\ u.own = tx[r].own
    BY <2>1 DEF Writes
  <2> HIDE DEF u
  <2>4. \A v \in Flushing(u, "flush1") : Kept(tx[r], v)
    BY <2>3, FlushingKept DEF Kept
  <2> QED
    BY <2>2, <2>4, GoQuiet
<1>4. CASE ActivateTarget(r)
  <2> DEFINE t == [tx[r] EXCEPT !.pc = "insert"]
             u == [tx[r] EXCEPT !.now = @ \cup {tx[r].target}]
  <2>1. (tx[r].op = "create" /\ Go(r, t)) \/ \E v \in Flushing(u, "flush2") : Go(r, v)
    BY <1>4 DEF ActivateTarget
  <2>2. Kept(tx[r], t) \/ tx[r].op # "create"
    BY <1>1 DEF Kept, Writes
  <2>3. Writes(u) /\ u.own = tx[r].own
    <3>1. tx[r].pc # "insert"
      BY <1>4 DEF ActivateTarget
    <3> QED
      BY <1>1, <3>1 DEF Writes
  <2> HIDE DEF t, u
  <2>4. \A v \in Flushing(u, "flush2") : Kept(tx[r], v)
    BY <2>3, FlushingKept DEF Kept
  <2> QED
    BY <2>1, <2>2, <2>4, GoQuiet
<1> QED
  BY <1>2, <1>3, <1>4

LEMMA ReselectQuiet ==
  ASSUME Shape, NEW r \in Requests, Reselect(r)
  PROVE  Quiet(r)
<1> DEFINE t == [tx[r] EXCEPT !.pc = "select_siblings"]
<1>1. Writes(tx[r])
  BY DEF Shape
<1>2. End(r, "refused") \/ Go(r, t) \/ \E v \in Updating(tx[r]) : Go(r, v)
  BY DEF Reselect
<1>3. Kept(tx[r], t)
  BY <1>1 DEF Kept, Writes
<1> HIDE DEF t
<1>4. \A v \in Updating(tx[r]) : Kept(tx[r], v)
  BY <1>1, UpdatingKept DEF Kept
<1> QED
  BY <1>2, <1>3, <1>4, EndQuiet, GoQuiet

\* The statements that write, when they succeed.
WritesRow(r) == \E i \in Ids : Sets(r, i, tx'[r].own[i])

LEMMA UpdateSets ==
  ASSUME Shape, NEW r \in Requests, UpdateRow(r)
  PROVE  Quiet(r) \/ WritesRow(r)
<1> DEFINE i == Head(tx[r].todo)
           row == Written(r, i)
           t == [tx[r] EXCEPT !.own[i] = row, !.todo = Tail(@),
                              !.was = (@ \ {i}) \cup (tx[r].now \cap {i}),
                              !.relabel = @ /\ i # tx[r].target]
<1>1. CASE End(r, "failed")
  BY <1>1, EndQuiet
<1>2. CASE /\ i \in Existing(View(r)) /\ ~(Activates(tx[r], i) /\ Rivals(r, i) # {})
           /\ Go(r, t)
  <2>1. LockedBy(r, i) = {}
    <3>1. Sending(tx[r]) /\ WaitsFor(r) = {}
      BY DEF UpdateRow
    <3>2. tx[r].pc # "delete" /\ tx[r].pc # "insert"
      BY <3>1 DEF Sending
    <3>3. LockedBy(r, i) \subseteq WaitsFor(r)
      BY <3>1, <3>2, Zenon DEF WaitsFor
    <3> QED
      BY <3>1, <3>3
  <2>2. i \in Ids /\ View(r)[i] \in Row
    BY <1>2 DEF Existing
  <2> DEFINE on == IF (i \in tx[r].now) = (i \in tx[r].was) THEN View(r)[i].active
                   ELSE i \in tx[r].now
  <2>3. on \in BOOLEAN /\ (on => Activates(tx[r], i) \/ View(r)[i].active)
    <3>1. View(r)[i].active \in BOOLEAN
      BY <2>2 DEF Row
    <3>2. CASE i \in tx[r].now /\ i \in tx[r].was
      BY <3>1, <3>2
    <3>3. CASE i \in tx[r].now /\ i \notin tx[r].was
      BY <3>3 DEF Activates
    <3>4. CASE i \notin tx[r].now /\ i \in tx[r].was
      <4>1. ~((i \in tx[r].now) = (i \in tx[r].was))
        BY <3>4
      <4>2. ~on
        BY <3>4, <4>1, Zenon
      <4> QED
        BY <4>1, <3>4
    <3>5. CASE i \notin tx[r].now /\ i \notin tx[r].was
      BY <3>1, <3>5
    <3> QED
      BY <3>2, <3>3, <3>4, <3>5
  <2>4. row = [View(r)[i] EXCEPT !.active = on]
    BY DEF Written
  <2> HIDE DEF on, row
  <2>5. row \in Row /\ row.active = on
    BY <2>2, <2>3, <2>4 DEF Row
  <2>6. row.active => Rivals(r, i) = {} \/ View(r)[i].active
    BY <1>2, <2>3, <2>5
  <2>7. Writes(tx[r])
    BY DEF Shape
  <2> HIDE DEF i, row
  <2>8. Writes(t) /\ t.own = [tx[r].own EXCEPT ![i] = row]
    BY <2>7 DEF Writes
  <2>9. t.own[i] = row /\ tx'[r] = t
    BY <1>2, <2>2, <2>7, <2>8 DEF Writes, Go, Shape
  <2>10. row # None
    BY <2>5, Markers
  <2> HIDE DEF t
  <2>11. Sets(r, i, row)
    BY <1>2, <2>1, <2>2, <2>6, <2>8, <2>10, GoSets
  <2> QED
    BY <2>2, <2>9, <2>11 DEF WritesRow
<1> QED
  BY <1>1, <1>2 DEF UpdateRow

LEMMA IdsFinite == IsFiniteSet(Ids) /\ Cardinality(Ids) = MaxRows
  BY FS_Interval, ProvidersAssumption DEF Ids

\* There is an order of creation for a row whose id is free.
LEMMA BornInRange ==
  ASSUME NEW i \in Ids, \A q \in Requests : View(q)[i] = None
  PROVE  NewBorn \in Ids
<1> DEFINE used == {j \in Ids : \E q \in Requests : View(q)[j] # None}
<1>1. IsFiniteSet(Ids \ {i}) /\ Cardinality(Ids \ {i}) = MaxRows - 1
  BY IdsFinite, FS_RemoveElement
<1>2. used \subseteq Ids \ {i}
  OBVIOUS
<1>3. NewBorn = 1 + Cardinality(used)
  BY DEF NewBorn
<1> HIDE DEF used
<1>4. Cardinality(used) \in Nat /\ Cardinality(used) <= MaxRows - 1
  BY <1>1, <1>2, FS_Subset, FS_CardinalityType
<1> QED
  BY <1>3, <1>4, ProvidersAssumption DEF Ids

LEMMA InsertSets ==
  ASSUME Shape, NEW r \in Requests, InsertRow(r)
  PROVE  Quiet(r) \/ WritesRow(r)
<1> DEFINE row == [active |-> tx[r].want, born |-> NewBorn]
<1>1. CASE End(r, "failed")
  BY <1>1, EndQuiet
<1>2. ASSUME NEW i \in Ids, ~(tx[r].want /\ Rivals(r, 0) # {}),
             \A q \in Requests : View(q)[i] = None,
             Go(r, [tx[r] EXCEPT !.own[i] = row, !.target = i, !.pc = "commit"])
      PROVE  WritesRow(r)
  <2> DEFINE t == [tx[r] EXCEPT !.own[i] = row, !.target = i, !.pc = "commit"]
  <2>1. LockedBy(r, i) = {}
    BY <1>2 DEF LockedBy, View
  <2>2. row.active => Rivals(r, i) = {}
    <3>1. row.active = tx[r].want
      OBVIOUS
    <3>2. Rivals(r, i) \subseteq Rivals(r, 0)
      BY DEF Rivals, Ids
    <3> HIDE DEF row
    <3> QED
      BY <1>2, <3>1, <3>2
  <2>3. row # None
    <3>1. row \in Row
      BY <1>2, BornInRange DEF InsertRow, Row, Shape, Writes
    <3> QED
      BY <3>1, Markers
  <2>4. Writes(tx[r])
    BY DEF Shape
  <2> HIDE DEF row
  <2>5. Writes(t) /\ t.own = [tx[r].own EXCEPT ![i] = row]
    BY <2>4 DEF Writes
  <2>6. t.own[i] = row /\ tx'[r] = t
    BY <1>2, <2>4, <2>5 DEF Writes, Go, Shape
  <2>7. Go(r, t)
    BY <1>2
  <2> HIDE DEF t
  <2>8. Sets(r, i, row)
    BY <2>1, <2>2, <2>3, <2>5, <2>7, GoSets
  <2> QED
    BY <2>6, <2>8 DEF WritesRow
<1> QED
  BY <1>1, <1>2 DEF InsertRow

LEMMA DeleteSets ==
  ASSUME Shape, NEW r \in Requests, DeleteRow(r)
  PROVE  Quiet(r) \/ WritesRow(r)
<1> DEFINE i == Head(tx[r].todo)
           rest == [tx[r] EXCEPT !.todo = Tail(@),
                                 !.pc = IF Tail(tx[r].todo) = <<>> THEN "commit" ELSE @]
           t == [rest EXCEPT !.own[i] = Gone]
<1>1. tx[r].pc = "delete" /\ WaitsFor(r) = {}
  BY DEF DeleteRow
<1>2. LockedBy(r, i) = {}
  <2>1. ~Sending(tx[r])
    BY <1>1 DEF Sending
  <2>2. LockedBy(r, i) \subseteq WaitsFor(r)
    BY <1>1, <2>1 DEF WaitsFor
  <2> QED
    BY <1>1, <2>2
<1>3. Writes(tx[r])
  BY DEF Shape
<1>4. Writes(rest) /\ rest.own = tx[r].own
  <2>1. DOMAIN rest = DOMAIN tx[r] /\ rest = [f \in DOMAIN rest |-> rest[f]]
    OBVIOUS
  <2>2. /\ rest.own = tx[r].own /\ rest.op = tx[r].op /\ rest.want = tx[r].want
        /\ rest.pc # "insert"
    BY <1>1, <1>3 DEF Writes
  <2> HIDE DEF rest
  <2> QED
    BY <1>3, <2>1, <2>2, OnWrites
<1>5. \/ i \in Ids /\ Go(r, t)
      \/ Go(r, rest)
      \/ End(r, "refused")
  BY DEF DeleteRow, Existing
<1> HIDE DEF i, rest
<1>6. ASSUME i \in Ids, Go(r, t) PROVE WritesRow(r)
  <2>1. Writes(t) /\ t.own = [tx[r].own EXCEPT ![i] = Gone]
    BY <1>4 DEF Writes
  <2>2. t.own[i] = Gone /\ tx'[r] = t
    BY <1>3, <1>6, <2>1 DEF Writes, Go, Shape
  <2> HIDE DEF t
  <2>3. Sets(r, i, Gone)
    BY <1>2, <1>6, <2>1, Markers, GoSets
  <2> QED
    BY <1>6, <2>2, <2>3 DEF WritesRow
<1> QED
  BY <1>4, <1>5, <1>6, GoQuiet, EndQuiet DEF Kept

-----------------------------------------------------------------------------

\* Statements that are waited for keep the active row alone; a commit only publishes.
LEMMA NextKeeps ==
  ASSUME Inv, NEW r \in Requests, Route(r) \/ Statement(r) \/ Crash(r)
  PROVE  Inv'
<1>1. Shape
  BY DEF Inv
<1>2. CASE Commit(r)
  BY <1>2, CommitKeeps
<1>3. CASE Route(r)
  BY <1>1, <1>3, RouteQuiet, QuietKeeps
<1>4. CASE Crash(r) \/ DeadlockAbort(r)
  BY <1>1, <1>4, EndQuiet, QuietKeeps DEF Crash, DeadlockAbort
<1>5. CASE Reselect(r)
  BY <1>1, <1>5, ReselectQuiet, QuietKeeps
<1>6. CASE SelectActive(r) \/ SelectSiblings(r) \/ ActivateTarget(r)
  BY <1>1, <1>6, SelectQuiet, QuietKeeps
<1>7. CASE UpdateRow(r) \/ InsertRow(r) \/ DeleteRow(r)
  <2>1. Quiet(r) \/ WritesRow(r)
    BY <1>1, <1>7, UpdateSets, InsertSets, DeleteSets
  <2> QED
    BY <2>1, QuietKeeps, SetsKeeps DEF WritesRow
<1> QED
  BY <1>2, <1>3, <1>4, <1>5, <1>6, <1>7 DEF Statement

\* AtMostOne is what the counting says.
LEMMA OneIsAtMostOne ==
  ASSUME NEW rows
  PROVE  AtMostOne(rows) <=> Cardinality(Active(rows)) <= 1
<1> DEFINE A == Active(rows)
<1>1. IsFiniteSet(A)
  <2>1. A \subseteq Ids
    BY DEF Active, Existing
  <2> QED
    BY <2>1, IdsFinite, FS_Subset
<1>2. AtMostOne(rows) <=> \A i, j \in A : i = j
  BY DEF AtMostOne
<1> HIDE DEF A
<1>3. ASSUME \A i, j \in A : i = j PROVE Cardinality(A) <= 1
  <2>1. CASE A = {}
    BY <2>1, FS_EmptySet
  <2>2. CASE A # {}
    <3>1. PICK i \in A : A = {i}
      BY <1>3, <2>2
    <3> QED
      BY <3>1, FS_Singleton
  <2> QED
    BY <2>1, <2>2
<1>4. ASSUME Cardinality(A) <= 1, NEW i \in A, NEW j \in A PROVE i = j
  <2> SUFFICES ASSUME i # j PROVE FALSE
    OBVIOUS
  <2>1. IsFiniteSet({j}) /\ Cardinality({j}) = 1
    BY FS_Singleton
  <2>2. Cardinality({j} \cup {i}) = 2
    BY <2>1, FS_AddElement
  <2>3. Cardinality({j} \cup {i}) <= Cardinality(A)
    BY <1>1, FS_Subset
  <2>4. Cardinality(A) \in Nat
    BY <1>1, FS_CardinalityType
  <2> QED
    BY <1>4, <2>2, <2>3, <2>4
<1> QED
  BY <1>2, <1>3, <1>4 DEF A

LEMMA OneActiveInvariant == Spec => []Inv
<1>1. Init => Inv
  <2> SUFFICES ASSUME Init PROVE Inv
    OBVIOUS
  <2>1. \A r \in Requests : tx[r] = Idle
    BY DEF Init
  <2>2. Shape
    BY <2>1, IdleWrites DEF Init, Shape
  <2>3. AtMostOne(table)
    BY OneIsAtMostOne DEF Init
  <2>4. \A r \in Requests : View(r) = table
    BY <2>1, <2>2, IdleWrites DEF View, Nothing, Shape
  <2>5. Apart
    BY <2>1, IdleWrites, Markers DEF Apart, Claims, Nothing
  <2> QED
    BY <2>2, <2>3, <2>4, <2>5 DEF Inv
<1>2. Inv /\ [Next]_vars => Inv'
  <2> SUFFICES ASSUME Inv, [Next]_vars PROVE Inv'
    OBVIOUS
  <2>1. CASE UNCHANGED vars
    BY <2>1 DEF vars, Inv, Shape, AtMostOne, Active, Existing, View, Apart, Claims
  <2> QED
    BY <2>1, NextKeeps DEF Next, Terminated
<1> QED
  BY <1>1, <1>2, PTL DEF Spec

\* At most one configuration of a kind is active, for the table and for what every request
\* sees, whatever activations, creations, edits and deletions of any number of rows overlap.
THEOREM OneActiveAlways == Spec => []OneActive
<1>1. Inv => OneActive
  BY OneIsAtMostOne DEF Inv, OneActive
<1> QED
  BY <1>1, OneActiveInvariant, PTL

-----------------------------------------------------------------------------
(* Types, and what a switch commits.                                        *)

\* Where the requests of each kind may be.
OpFits(t) ==
    /\ t.pc = "select_active" => t.op \in {"create", "update"}
    /\ t.pc = "select_siblings" => t.op = "activate"
    /\ t.pc = "flush1" => t.op \in {"create", "update", "activate"}
    /\ t.pc \in {"reselect", "flush2"} => t.op \in {"update", "activate"}
    /\ t.pc = "insert" => t.op = "create"
    /\ t.pc = "delete" => t.op \in {"delete", "sweep"} /\ t.todo # <<>>
    /\ t.pc = "commit" => t.op \in {"create", "delete", "sweep"}

\* A session works on rows it has loaded; an update or an activation has a target.
Typed(t) ==
    /\ t \in Session
    /\ t.was \subseteq t.held /\ t.now \subseteq t.held
    /\ t.op = "create" => t.want \in BOOLEAN
    /\ t.op \in {"update", "activate"} => t.target \in Ids
    /\ t.op \in {"delete", "sweep"} => t.was = {} /\ t.want # TRUE
    /\ t.relabel => t.op = "update"
    /\ OpFits(t)

\* A switch that is about to commit has its target on, or the UPDATE for it in its list;
\* a created row is what it was asked to be.
Switches(t) ==
    /\ t.op \in {"update", "activate"} => t.target \in t.held
    /\ t.pc = "flush2" /\ t.want = TRUE =>
         /\ t.target \in t.now
         /\ t.target \in t.was \/ \E k \in DOMAIN t.todo : t.todo[k] = t.target
    /\ t.pc = "commit" /\ t.op = "create" =>
         /\ t.target \in Ids /\ t.own[t.target] \in Row
         /\ t.own[t.target].active = t.want

Fits(t) == Typed(t) /\ Switches(t)

\* What session t sees of the rows.
Sees(t, rows) == [i \in Ids |-> IF t.own[i] # None THEN t.own[i] ELSE rows[i]]

\* What a request that none overtook believes to be active is.
Believes(t, rows) == t.pc \in Stages /\ ~t.overtaken => t.was \subseteq Active(Sees(t, rows))

SwitchInv ==
    /\ table \in [Ids -> Row \cup {None, Gone}]
    /\ tx = [r \in Requests |-> tx[r]]
    /\ \A r \in Requests : Fits(tx[r]) /\ Believes(tx[r], table)

LEMMA IdleFits ==
  /\ Fits(Idle) /\ Idle.pc = "idle" /\ Idle.op = None /\ Idle.was = {} /\ Idle.now = {}
  /\ Idle.held = {} /\ ~Idle.overtaken /\ Idle.own = Nothing /\ Idle.relabel = FALSE
  /\ Idle.want = None
<1>1. Idle \in Session
  BY DEF Idle, Session, Nothing
<1>2. /\ Idle.pc = "idle" /\ Idle.op = None /\ Idle.was = {} /\ Idle.now = {}
      /\ Idle.held = {} /\ ~Idle.overtaken /\ Idle.own = Nothing /\ Idle.relabel = FALSE
      /\ Idle.want = None
  BY DEF Idle
<1> QED
  BY <1>1, <1>2, ProvidersAssumption DEF Fits, Typed, OpFits, Switches

\* A list in some order of a set of rows.
LEMMA ListOf ==
  ASSUME NEW ids \in SUBSET Ids, NEW list \in Surjection(1 .. Cardinality(ids), ids)
  PROVE  /\ list \in Seq(Ids) /\ \A i \in ids : \E k \in DOMAIN list : list[k] = i
         /\ ids # {} => list # <<>> /\ Head(list) \in ids
<1>1. Cardinality(ids) \in Nat /\ IsFiniteSet(ids)
  BY IdsFinite, FS_Subset, FS_CardinalityType
<1>2. /\ list \in [1 .. Cardinality(ids) -> ids]
      /\ \A i \in ids : \E k \in 1 .. Cardinality(ids) : list[k] = i
  BY DEF Surjection
<1>3. list \in Seq(ids) /\ Len(list) = Cardinality(ids)
  BY <1>1, <1>2
<1>4. list \in Seq(Ids)
  BY <1>3
<1>5. ASSUME ids # {} PROVE list # <<>> /\ Head(list) \in ids
  <2>1. PICK i \in ids : TRUE
    BY <1>5
  <2>2. Cardinality(ids) > 0
    BY <1>1, <1>2, <2>1
  <2> QED
    BY <1>2, <1>3, <2>2
<1> QED
  BY <1>2, <1>4, <1>5

\* t and u differ in what is loaded at most.
LoadedMore(t, u) ==
    /\ u.pc = t.pc /\ u.op = t.op /\ u.want = t.want /\ u.target = t.target
    /\ u.relabel = t.relabel /\ u.todo = t.todo /\ u.own = t.own /\ u.overtaken = t.overtaken

LEMMA LoadTyped ==
  ASSUME NEW t, Typed(t), t.op \in {"create", "update", "activate", None},
         NEW rows, NEW ids \in SUBSET Ids
  PROVE  LET u == Load(t, rows, ids) IN
         /\ Typed(u) /\ LoadedMore(t, u)
         /\ u.held = t.held \cup ids
         /\ u.was \subseteq t.was \cup Active(rows)
         /\ t.now \subseteq u.now
<1> DEFINE u == Load(t, rows, ids)
           active == (ids \cap Active(rows)) \ t.held
<1>1. active \subseteq ids /\ active \subseteq Active(rows)
  OBVIOUS
<1>2. u = [t EXCEPT !.held = @ \cup ids, !.was = @ \cup active, !.now = @ \cup active]
  BY DEF Load
<1> HIDE DEF active, u
<1>3. /\ u \in Session /\ u.held = t.held \cup ids /\ u.was = t.was \cup active
      /\ u.now = t.now \cup active /\ LoadedMore(t, u)
  BY <1>1, <1>2 DEF Typed, Session, LoadedMore
<1>4. Typed(u)
  BY <1>1, <1>3, ProvidersAssumption DEF Typed, OpFits, LoadedMore
<1> QED
  BY <1>1, <1>3, <1>4 DEF u

LEMMA FlushingTyped ==
  ASSUME NEW t, Typed(t), NEW pc \in {"flush1", "flush2"},
         t.op \in {"update", "activate"} \/ (t.op = "create" /\ pc = "flush1"),
         t.op \in {"update", "activate"} => t.target \in t.held,
         pc = "flush2" /\ t.want = TRUE => t.target \in t.now,
         NEW u \in Flushing(t, pc)
  PROVE  /\ Fits(u) /\ u.pc = pc /\ u.own = t.own /\ u.was = t.was
         /\ u.overtaken = t.overtaken
<1>1. Changed(t) \in SUBSET Ids
  BY DEF Changed, Typed, Session
<1>2. PICK list \in Surjection(1 .. Cardinality(Changed(t)), Changed(t)) :
        u = [t EXCEPT !.todo = list, !.pc = pc]
  BY DEF Flushing, InOrder
<1>3. list \in Seq(Ids) /\ \A i \in Changed(t) : \E k \in DOMAIN list : list[k] = i
  BY <1>1, ListOf
<1>4. u \in Session
  BY <1>2, <1>3 DEF Typed, Session, Stages
<1>5. /\ u.held = t.held /\ u.was = t.was /\ u.now = t.now /\ u.pc = pc /\ u.op = t.op
      /\ u.want = t.want /\ u.target = t.target /\ u.relabel = t.relabel /\ u.todo = list
      /\ u.own = t.own /\ u.overtaken = t.overtaken
  BY <1>2 DEF Typed, Session
<1>6. Typed(u)
  BY <1>4, <1>5 DEF Typed, OpFits
<1>7. Switches(u)
  BY <1>3, <1>5 DEF Switches, Changed
<1> QED
  BY <1>5, <1>6, <1>7 DEF Fits

LEMMA UpdatingFits ==
  ASSUME NEW t, Typed(t), t.op = "update", t.target \in t.held, NEW u \in Updating(t)
  PROVE  Fits(u) /\ u.own = t.own /\ u.was = t.was /\ u.overtaken = t.overtaken
<1>1. CASE t.want = TRUE
  <2>1. u = [t EXCEPT !.pc = "select_active"]
    BY <1>1 DEF Updating
  <2>2. /\ u \in Session /\ u.held = t.held /\ u.was = t.was /\ u.now = t.now
        /\ u.pc = "select_active" /\ u.op = t.op /\ u.target = t.target
        /\ u.relabel = t.relabel /\ u.own = t.own /\ u.overtaken = t.overtaken
    BY <2>1 DEF Typed, Session, Stages
  <2> QED
    BY <2>2 DEF Fits, Typed, OpFits, Switches
<1>2. CASE t.want # TRUE
  <2> DEFINE now == IF t.want = FALSE THEN t.now \ {t.target} ELSE t.now
             v == [t EXCEPT !.now = now]
  <2>1. now \subseteq t.now
    OBVIOUS
  <2>2. u \in Flushing(v, "flush2")
    <3>1. v = [t EXCEPT !.now = IF t.want = FALSE THEN @ \ {t.target} ELSE @]
      OBVIOUS
    <3> QED
      BY <1>2, <3>1 DEF Updating
  <2> HIDE DEF now
  <2>3. /\ v \in Session /\ v.held = t.held /\ v.was = t.was /\ v.now = now /\ v.pc = t.pc
        /\ v.op = t.op /\ v.target = t.target /\ v.relabel = t.relabel /\ v.want = t.want
        /\ v.own = t.own /\ v.overtaken = t.overtaken /\ v.todo = t.todo
    BY <2>1 DEF Typed, Session
  <2> HIDE DEF v
  <2>4. Typed(v)
    BY <2>1, <2>3 DEF Typed, OpFits
  <2> QED
    BY <1>2, <2>2, <2>3, <2>4, FlushingTyped
<1> QED
  BY <1>1, <1>2

LEMMA GoFits ==
  ASSUME SwitchInv, NEW r \in Requests, NEW t, Fits(t), Believes(t, table), Go(r, t)
  PROVE  SwitchInv'
<1>1. tx' = [tx EXCEPT ![r] = t] /\ table' = table
  BY DEF Go
<1>2. tx' = [q \in Requests |-> tx'[q]]
  BY <1>1 DEF SwitchInv
<1>3. ASSUME NEW q \in Requests PROVE Fits(tx'[q]) /\ Believes(tx'[q], table)
  BY <1>1 DEF SwitchInv
<1> QED
  BY <1>1, <1>2, <1>3 DEF SwitchInv

\* A request begins with what it read.
LEMMA BeginFits ==
  ASSUME SwitchInv, NEW r \in Requests, NEW t, Fits(t), t.own = Nothing,
         t.was \subseteq Active(table), Begin(r, t)
  PROVE  SwitchInv'
<1>1. Go(r, t)
  BY DEF Begin
<1>2. Active(Sees(t, table)) = Active(table)
  BY DEF Sees, Nothing, Active, Existing
<1>3. Believes(t, table)
  BY <1>2 DEF Believes
<1> QED
  BY <1>1, <1>3, GoFits

LEMMA EndFits ==
  ASSUME SwitchInv, NEW r \in Requests, NEW pc \in Over, End(r, pc)
  PROVE  SwitchInv'
<1> DEFINE u == [Idle EXCEPT !.pc = pc]
<1>1. /\ u \in Session /\ u.pc = pc /\ u.op = None /\ u.was = {} /\ u.now = {}
      /\ u.held = {} /\ u.relabel = FALSE
  BY IdleFits DEF Fits, Typed, Session
<1>2. Go(r, u)
  BY DEF End
<1> HIDE DEF u
<1>3. Fits(u) /\ Believes(u, table)
  BY <1>1, ProvidersAssumption DEF Fits, Typed, OpFits, Switches, Over, Believes, Stages
<1> QED
  BY <1>2, <1>3, GoFits

LEMMA ListedFits ==
  ASSUME SwitchInv, NEW r \in Requests, NEW op \in {"update", "activate"},
         NEW want \in BOOLEAN \cup {None}, NEW relabel \in BOOLEAN,
         relabel => op = "update", Existing(table) # {}, Listed(r, op, want, relabel)
  PROVE  SwitchInv'
<1>1. PICK list \in Listings :
        Begin(r, Load([Idle EXCEPT !.op = op, !.target = Head(list), !.want = want,
                                   !.relabel = relabel, !.pc = "reselect"],
                      table, Existing(table)))
  BY DEF Listed
<1> DEFINE t == [Idle EXCEPT !.op = op, !.target = Head(list), !.want = want,
                             !.relabel = relabel, !.pc = "reselect"]
           u == Load(t, table, Existing(table))
<1>2. Existing(table) \in SUBSET Ids
  BY DEF Existing
<1>3. Head(list) \in Existing(table)
  BY <1>2, ListOf DEF Listings, InOrder
<1>4. /\ t \in Session /\ t.op = op /\ t.target = Head(list) /\ t.want = want
      /\ t.relabel = relabel /\ t.pc = "reselect" /\ t.held = {} /\ t.was = {} /\ t.now = {}
      /\ t.own = Nothing
  <2>1. Idle \in Session /\ Head(list) \in Ids
    BY <1>2, <1>3, IdleFits DEF Fits, Typed
  <2>2. t \in Session
    BY <2>1 DEF Session, Stages
  <2> QED
    BY <2>2, IdleFits DEF Idle
<1>5. Begin(r, u)
  BY <1>1
<1> HIDE DEF t
<1>6. Typed(t)
  BY <1>2, <1>3, <1>4 DEF Typed, OpFits
<1>7. /\ Typed(u) /\ LoadedMore(t, u)
      /\ u.held = Existing(table) /\ u.was \subseteq Active(table)
  <2>1. t.op \in {"create", "update", "activate", None}
    BY <1>4
  <2>2. /\ Typed(u) /\ LoadedMore(t, u) /\ u.held = t.held \cup Existing(table)
        /\ u.was \subseteq t.was \cup Active(table)
    BY <1>2, <1>6, <2>1, LoadTyped
  <2> QED
    BY <1>4, <2>2
<1> HIDE DEF u
<1>8. u.pc = "reselect" /\ u.op = op /\ u.target = Head(list) /\ u.own = Nothing
  BY <1>4, <1>7 DEF LoadedMore
<1>9. Fits(u)
  BY <1>3, <1>7, <1>8 DEF Fits, Switches
<1> QED
  BY <1>5, <1>7, <1>8, <1>9, BeginFits

LEMMA CreatesFits ==
  ASSUME SwitchInv, NEW r \in Requests, NEW active \in BOOLEAN, Creates(r, active)
  PROVE  SwitchInv'
<1> DEFINE t == Creating(active)
<1>1. /\ t \in Session /\ t.op = "create" /\ t.want = active /\ t.held = {} /\ t.was = {}
      /\ t.now = {} /\ t.own = Nothing /\ t.relabel = FALSE
      /\ t.pc \in {"select_active", "insert"}
  <2>1. Idle \in Session
    BY IdleFits DEF Fits, Typed
  <2>2. PICK pc \in {"select_active", "insert"} :
          t = [Idle EXCEPT !.op = "create", !.want = active, !.pc = pc]
    BY DEF Creating
  <2>3. t \in Session
    BY <2>1, <2>2, ZenonT(30) DEF Session, Stages
  <2> QED
    BY <2>2, <2>3 DEF Idle
<1>2. Begin(r, t)
  BY DEF Creates
<1> HIDE DEF t
<1>3. Fits(t)
  BY <1>1 DEF Fits, Typed, OpFits, Switches
<1> QED
  BY <1>1, <1>2, <1>3, BeginFits

\* An update or an activation of row i, as it is when the row has been loaded.
LEMMA TargetLoaded ==
  ASSUME NEW i \in Existing(table), NEW t \in Session, Typed(t), t.target = i,
         t.op \in {"update", "activate"}, t.pc \in {"idle", "select_siblings"},
         t.held = {}, t.was = {}, t.own = Nothing, ~t.overtaken,
         NEW u, u = Load(t, table, {i})
  PROVE  /\ Fits(u) /\ u.own = Nothing /\ u.was \subseteq Active(table)
         /\ u.target \in u.held /\ u.op = t.op
<1>1. i \in Ids
  BY DEF Existing
<1>2. /\ Typed(u) /\ LoadedMore(t, u)
      /\ u.held = t.held \cup {i} /\ u.was \subseteq Active(table)
  <2>1. {i} \in SUBSET Ids /\ t.op \in {"create", "update", "activate", None}
    BY <1>1
  <2> QED
    BY <2>1, LoadTyped
<1> QED
  BY <1>2 DEF Fits, Switches, LoadedMore

LEMMA RouteFits ==
  ASSUME SwitchInv, NEW r \in Requests, Route(r)
  PROVE  SwitchInv'
<1>1. CASE CreateProviderConfig(r)
  BY <1>1, CreatesFits DEF CreateProviderConfig
<1>2. CASE UpdateProviderConfig(r)
  <2>1. PICK i \in Existing(table), want \in BOOLEAN \cup {None}, relabel \in BOOLEAN :
        \E v \in Updating(Load([Idle EXCEPT !.op = "update", !.target = i, !.want = want,
                                             !.relabel = relabel], table, {i})) : Begin(r, v)
    BY <1>2 DEF UpdateProviderConfig
  <2> DEFINE t == [Idle EXCEPT !.op = "update", !.target = i, !.want = want,
                               !.relabel = relabel]
             u == Load(t, table, {i})
  <2>2. /\ t \in Session /\ t.op = "update" /\ t.target = i /\ t.want = want /\ t.pc = "idle"
        /\ t.held = {} /\ t.was = {} /\ t.now = {} /\ t.own = Nothing /\ ~t.overtaken
    <3>1. Idle \in Session /\ i \in Ids
      BY IdleFits DEF Fits, Typed, Existing
    <3>2. t \in Session
      BY <3>1 DEF Session
    <3> QED
      BY <3>2 DEF Idle
  <2>3. \E v \in Updating(u) : Begin(r, v)
    BY <2>1
  <2> HIDE DEF t
  <2>4. Typed(t)
    BY <2>2 DEF Typed, OpFits, Existing
  <2>5. /\ Fits(u) /\ u.own = Nothing /\ u.was \subseteq Active(table)
        /\ u.target \in u.held /\ u.op = "update"
    BY <2>2, <2>4, TargetLoaded
  <2> HIDE DEF u
  <2> QED
    BY <2>3, <2>5, UpdatingFits, BeginFits DEF Fits
<1>3. CASE ActivateProviderConfig(r)
  <2>1. PICK i \in Existing(table) :
        Begin(r, Load([Idle EXCEPT !.op = "activate", !.target = i, !.want = TRUE,
                                   !.pc = "select_siblings"], table, {i}))
    BY <1>3 DEF ActivateProviderConfig
  <2> DEFINE t == [Idle EXCEPT !.op = "activate", !.target = i, !.want = TRUE,
                               !.pc = "select_siblings"]
             u == Load(t, table, {i})
  <2>2. /\ t \in Session /\ t.op = "activate" /\ t.target = i /\ t.pc = "select_siblings"
        /\ t.held = {} /\ t.was = {} /\ t.now = {} /\ t.own = Nothing /\ ~t.overtaken
        /\ t.relabel = FALSE
    BY IdleFits DEF Fits, Typed, Session, Existing, Stages
  <2>3. Begin(r, u)
    BY <2>1
  <2> HIDE DEF t
  <2>4. Typed(t)
    BY <2>2 DEF Typed, OpFits, Existing
  <2>5. Fits(u) /\ u.own = Nothing /\ u.was \subseteq Active(table)
    BY <2>2, <2>4, TargetLoaded
  <2> HIDE DEF u
  <2> QED
    BY <2>3, <2>5, BeginFits
<1>4. ASSUME NEW op \in {"delete", "sweep"}, NEW todo \in Seq(Ids), todo # <<>>,
             Begin(r, [Idle EXCEPT !.op = op, !.todo = todo, !.pc = "delete"])
      PROVE  SwitchInv'
  <2> DEFINE t == [Idle EXCEPT !.op = op, !.todo = todo, !.pc = "delete"]
  <2>1. /\ t \in Session /\ t.op = op /\ t.pc = "delete" /\ t.held = {} /\ t.was = {}
        /\ t.now = {} /\ t.own = Nothing /\ t.todo = todo /\ t.relabel = FALSE
        /\ t.want = None
    BY IdleFits DEF Fits, Typed, Session, Stages
  <2>2. Begin(r, t)
    BY <1>4
  <2> HIDE DEF t
  <2>3. Fits(t)
    BY <1>4, <2>1, ProvidersAssumption DEF Fits, Typed, OpFits, Switches
  <2> QED
    BY <2>1, <2>2, <2>3, BeginFits
<1>5. CASE DeleteProviderConfig(r)
  <2>1. PICK i \in Existing(table) :
        Begin(r, [Idle EXCEPT !.op = "delete", !.todo = <<i>>, !.pc = "delete"])
    BY <1>5 DEF DeleteProviderConfig
  <2>2. <<i>> \in Seq(Ids) /\ <<i>> # <<>>
    BY DEF Existing
  <2> QED
    BY <1>4, <2>1, <2>2
<1>6. CASE DeleteSheetsConfig(r)
  <2>1. PICK list \in Listings :
        Begin(r, [Idle EXCEPT !.op = "sweep", !.todo = list, !.pc = "delete"])
    BY <1>6 DEF DeleteSheetsConfig
  <2>2. list \in Seq(Ids) /\ list # <<>>
    <3>1. Existing(table) \in SUBSET Ids /\ Existing(table) # {}
      BY <1>6 DEF Existing, DeleteSheetsConfig
    <3> QED
      BY <3>1, ListOf DEF Listings, InOrder
  <2> QED
    BY <1>4, <2>1, <2>2
<1>7. CASE PutSheetsConfig(r)
  BY <1>7, CreatesFits, ListedFits DEF PutSheetsConfig
<1>8. CASE PatchSheetsConfig(r)
  BY <1>8, ListedFits DEF PatchSheetsConfig
<1>9. CASE ActivateSheetsConfig(r)
  BY <1>9, ListedFits DEF ActivateSheetsConfig
<1> QED
  BY <1>1, <1>2, <1>3, <1>5, <1>6, <1>7, <1>8, <1>9 DEF Route

LEMMA ViewTyped ==
  ASSUME SwitchInv, NEW r \in Requests
  PROVE  View(r) = Sees(tx[r], table) /\ View(r) \in [Ids -> Row \cup {None, Gone}]
<1>1. tx[r].own \in [Ids -> Row \cup {Gone, None}]
  BY DEF SwitchInv, Fits, Typed, Session
<1> QED
  BY <1>1 DEF SwitchInv, View, Sees

\* A session that writes nothing believes what it believed and what it has just read.
LEMMA StillBelieves ==
  ASSUME SwitchInv, NEW r \in Requests, tx[r].pc \in Stages,
         NEW u, u.own = tx[r].own, u.overtaken = tx[r].overtaken,
         u.was \subseteq tx[r].was \cup Active(View(r))
  PROVE  Believes(u, table)
<1>1. Sees(u, table) = View(r)
  BY DEF Sees, View
<1>2. ~tx[r].overtaken => tx[r].was \subseteq Active(View(r))
  BY ViewTyped DEF SwitchInv, Believes
<1> QED
  BY <1>1, <1>2 DEF Believes

LEMMA SelectFits ==
  ASSUME SwitchInv, NEW r \in Requests,
         Reselect(r) \/ SelectActive(r) \/ SelectSiblings(r) \/ ActivateTarget(r)
  PROVE  SwitchInv'
<1> DEFINE s == tx[r]
<1>1. Fits(s) /\ Typed(s) /\ s \in Session
  BY DEF SwitchInv, Fits, Typed
<1>2. s.pc \in Stages
  BY DEF Reselect, SelectActive, SelectSiblings, ActivateTarget, Stages
<1>3. View(r) \in [Ids -> Row \cup {None, Gone}]
  BY ViewTyped
<1>4. Active(View(r)) \in SUBSET Ids /\ Existing(View(r)) \in SUBSET Ids
  BY DEF Active, Existing
<1>5. CASE Reselect(r)
  <2>1. s.op \in {"update", "activate"} /\ s.target \in s.held
    BY <1>1, <1>5 DEF Fits, Typed, OpFits, Switches, Reselect
  <2>2. CASE End(r, "refused")
    BY <2>2, EndFits DEF Over
  <2>3. CASE s.op = "activate" /\ Go(r, [s EXCEPT !.pc = "select_siblings"])
    <3> DEFINE u == [s EXCEPT !.pc = "select_siblings"]
    <3>1. u \in Session
      BY <1>1 DEF Session, Stages
    <3>2. /\ u.pc = "select_siblings" /\ u.op = s.op /\ u.target = s.target
          /\ u.relabel = s.relabel /\ u.own = s.own /\ u.overtaken = s.overtaken
          /\ u.held = s.held /\ u.was = s.was /\ u.now = s.now /\ u.want = s.want
      BY <1>1 DEF Session
    <3>3. Go(r, u)
      BY <2>3
    <3> HIDE DEF u
    <3>4. Fits(u)
      BY <1>1, <2>1, <2>3, <3>1, <3>2 DEF Fits, Typed, OpFits, Switches
    <3> QED
      BY <1>2, <3>2, <3>3, <3>4, StillBelieves, GoFits
  <2>4. CASE s.op = "update" /\ \E u \in Updating(s) : Go(r, u)
    <3>1. PICK u \in Updating(s) : Go(r, u)
      BY <2>4
    <3>2. Fits(u) /\ u.own = s.own /\ u.was = s.was /\ u.overtaken = s.overtaken
      BY <1>1, <2>1, <2>4, UpdatingFits
    <3> QED
      BY <1>2, <3>1, <3>2, StillBelieves, GoFits
  <2> QED
    BY <1>5, <2>1, <2>2, <2>3, <2>4 DEF Reselect
<1>6. CASE SelectActive(r)
  <2> DEFINE siblings == Active(View(r)) \ {s.target}
             t == Load(s, View(r), Active(View(r)))
             v == [t EXCEPT !.now = @ \ siblings]
             w == [t EXCEPT !.pc = "flush1"]
  <2>1. s.op \in {"create", "update"} /\ (s.op = "update" => s.target \in s.held)
    BY <1>1, <1>6 DEF Fits, Typed, OpFits, Switches, SelectActive
  <2>2. PICK u : Go(r, u) /\ (u = w \/ u \in Flushing(v, "flush1"))
    BY <1>6 DEF SelectActive
  <2>3. /\ Typed(t) /\ LoadedMore(s, t) /\ t.held = s.held \cup Active(View(r))
        /\ t.was \subseteq s.was \cup Active(View(r))
    <3>1. s.op \in {"create", "update", "activate", None}
      BY <2>1
    <3> QED
      BY <1>1, <1>4, <3>1, LoadTyped
  <2> HIDE DEF t, siblings
  <2>4. /\ v \in Session /\ v.held = t.held /\ v.was = t.was /\ v.now \subseteq t.now
        /\ LoadedMore(t, v)
    BY <2>3 DEF Typed, Session, LoadedMore
  <2>5. /\ w \in Session /\ w.held = t.held /\ w.was = t.was /\ w.now = t.now
        /\ w.pc = "flush1" /\ w.op = t.op /\ w.want = t.want /\ w.target = t.target
        /\ w.relabel = t.relabel /\ w.own = t.own /\ w.overtaken = t.overtaken
    BY <2>3 DEF Typed, Session, Stages
  <2> HIDE DEF v, w
  <2>6. Typed(v)
    BY <2>3, <2>4 DEF Typed, OpFits, LoadedMore
  <2>7. CASE u = w
    <3>1. Fits(w)
      BY <2>1, <2>3, <2>5 DEF Fits, Typed, OpFits, Switches, LoadedMore
    <3>2. /\ w.own = s.own /\ w.overtaken = s.overtaken
          /\ w.was \subseteq s.was \cup Active(View(r))
      BY <2>3, <2>5 DEF LoadedMore
    <3> QED
      BY <1>2, <2>2, <2>7, <3>1, <3>2, StillBelieves, GoFits
  <2>8. CASE u \in Flushing(v, "flush1")
    <3>1. /\ v.op \in {"create", "update"} /\ (v.op = "update" => v.target \in v.held)
      BY <2>1, <2>3, <2>4 DEF LoadedMore
    <3>2. /\ Fits(u) /\ u.own = v.own /\ u.was = v.was /\ u.overtaken = v.overtaken
      BY <2>6, <2>8, <3>1, FlushingTyped
    <3>3. /\ u.own = s.own /\ u.overtaken = s.overtaken
          /\ u.was \subseteq s.was \cup Active(View(r))
      BY <2>3, <2>4, <3>2 DEF LoadedMore
    <3> QED
      BY <1>2, <2>2, <3>2, <3>3, StillBelieves, GoFits
  <2> QED
    BY <2>2, <2>7, <2>8
<1>7. CASE SelectSiblings(r)
  <2> DEFINE t == Load(s, View(r), Existing(View(r)))
             v == [t EXCEPT !.now = @ \ (Existing(View(r)) \ {t.target})]
  <2>1. s.op = "activate" /\ s.target \in s.held
    BY <1>1, <1>7 DEF Fits, Typed, OpFits, Switches, SelectSiblings
  <2>2. PICK u \in Flushing(v, "flush1") : Go(r, u)
    BY <1>7 DEF SelectSiblings
  <2>3. /\ Typed(t) /\ LoadedMore(s, t) /\ t.held = s.held \cup Existing(View(r))
        /\ t.was \subseteq s.was \cup Active(View(r))
    <3>1. s.op \in {"create", "update", "activate", None}
      BY <2>1
    <3> QED
      BY <1>1, <1>4, <3>1, LoadTyped
  <2> HIDE DEF t
  <2>4. /\ v \in Session /\ v.held = t.held /\ v.was = t.was /\ v.now \subseteq t.now
        /\ LoadedMore(t, v)
    BY <2>3 DEF Typed, Session, LoadedMore
  <2> HIDE DEF v
  <2>5. Typed(v)
    BY <2>3, <2>4 DEF Typed, OpFits, LoadedMore
  <2>6. v.op = "activate" /\ v.target \in v.held
    BY <2>1, <2>3, <2>4 DEF LoadedMore
  <2>7. /\ Fits(u) /\ u.own = v.own /\ u.was = v.was /\ u.overtaken = v.overtaken
    BY <2>5, <2>6, FlushingTyped
  <2>8. /\ u.own = s.own /\ u.overtaken = s.overtaken
        /\ u.was \subseteq s.was \cup Active(View(r))
    BY <2>3, <2>4, <2>7 DEF LoadedMore
  <2> QED
    BY <1>2, <2>2, <2>7, <2>8, StillBelieves, GoFits
<1>8. CASE ActivateTarget(r)
  <2>1. s.op \in {"create", "update", "activate"}
    BY <1>1, <1>8 DEF Typed, OpFits, ActivateTarget
  <2>2. CASE s.op = "create" /\ Go(r, [s EXCEPT !.pc = "insert"])
    <3> DEFINE u == [s EXCEPT !.pc = "insert"]
    <3>1. /\ u \in Session /\ u.pc = "insert" /\ u.op = s.op /\ u.target = s.target
          /\ u.relabel = s.relabel /\ u.own = s.own /\ u.overtaken = s.overtaken
          /\ u.held = s.held /\ u.was = s.was /\ u.now = s.now /\ u.want = s.want
      BY <1>1 DEF Session, Stages
    <3>2. Go(r, u)
      BY <2>2
    <3> HIDE DEF u
    <3>3. Fits(u)
      BY <1>1, <2>2, <3>1 DEF Fits, Typed, OpFits, Switches
    <3> QED
      BY <1>2, <3>1, <3>2, <3>3, StillBelieves, GoFits
  <2>3. ASSUME s.op \in {"update", "activate"},
               NEW u \in Flushing([s EXCEPT !.now = @ \cup {s.target}], "flush2"), Go(r, u)
        PROVE  SwitchInv'
    <3> DEFINE v == [s EXCEPT !.now = @ \cup {s.target}]
    <3>1. s.target \in s.held /\ s.target \in Ids
      BY <1>1, <2>3 DEF Fits, Typed, Switches
    <3>2. /\ v \in Session /\ v.held = s.held /\ v.was = s.was /\ v.now = s.now \cup {s.target}
          /\ LoadedMore(s, v)
      BY <1>1, <3>1 DEF Session, LoadedMore
    <3>3. u \in Flushing(v, "flush2")
      BY <2>3
    <3> HIDE DEF v
    <3>4. Typed(v)
      BY <1>1, <3>1, <3>2 DEF Typed, OpFits, LoadedMore
    <3>5. v.op \in {"update", "activate"} /\ v.target \in v.held /\ v.target \in v.now
      BY <2>3, <3>1, <3>2 DEF LoadedMore
    <3>6. /\ Fits(u) /\ u.own = v.own /\ u.was = v.was /\ u.overtaken = v.overtaken
      BY <3>3, <3>4, <3>5, FlushingTyped
    <3>7. u.own = s.own /\ u.was = s.was /\ u.overtaken = s.overtaken
      BY <3>2, <3>6 DEF LoadedMore
    <3> QED
      BY <1>2, <2>3, <3>6, <3>7, StillBelieves, GoFits
  <2> QED
    BY <1>8, <2>1, <2>2, <2>3 DEF ActivateTarget
<1> QED
  BY <1>5, <1>6, <1>7, <1>8

\* A row is changed or marked deleted where its value so far is known.
LEMMA UpdateFits ==
  ASSUME SwitchInv, NEW r \in Requests, UpdateRow(r)
  PROVE  SwitchInv'
<1> DEFINE s == tx[r]
           i == Head(s.todo)
           row == Written(r, i)
<1>1. Fits(s) /\ Typed(s) /\ s \in Session /\ Believes(s, table)
  BY DEF SwitchInv, Fits, Typed
<1>2. s.todo # <<>> /\ s.pc \in {"flush1", "flush2"}
  BY DEF UpdateRow, Sending
<1>3. CASE End(r, "failed")
  BY <1>3, EndFits DEF Over
<1>4. ASSUME i \in Existing(View(r)),
             Go(r, [s EXCEPT !.own[i] = row, !.todo = Tail(@),
                             !.was = (@ \ {i}) \cup (s.now \cap {i}),
                             !.relabel = @ /\ i # s.target])
      PROVE  SwitchInv'
  <2>1. i \in Ids /\ View(r)[i] \in Row
    BY <1>4 DEF Existing
  <2> DEFINE on == IF (i \in s.now) = (i \in s.was) THEN View(r)[i].active ELSE i \in s.now
  <2>2. View(r)[i].active \in BOOLEAN
    BY <2>1 DEF Row
  <2>3. /\ on \in BOOLEAN
        /\ i \in s.now /\ i \notin s.was => on
        /\ i \in s.now /\ i \in s.was => on = View(r)[i].active
    <3>1. CASE i \in s.now /\ i \in s.was
      BY <2>2, <3>1
    <3>2. CASE i \in s.now /\ i \notin s.was
      BY <3>2
    <3>3. CASE i \notin s.now /\ i \in s.was
      <4>1. ~((i \in s.now) = (i \in s.was))
        BY <3>3
      <4> QED
        BY <4>1, <3>3
    <3>4. CASE i \notin s.now /\ i \notin s.was
      BY <2>2, <3>4
    <3> QED
      BY <3>1, <3>2, <3>3, <3>4
  <2>4. row = [View(r)[i] EXCEPT !.active = on]
    BY DEF Written
  <2> HIDE DEF on
  <2>5. row \in Row /\ row.active = on
    BY <2>1, <2>3, <2>4 DEF Row
  <2> HIDE DEF row
  <2>6. PICK relabel \in BOOLEAN : relabel = (s.relabel /\ i # s.target)
    BY <1>1 DEF Session
  <2> DEFINE own == [s.own EXCEPT ![i] = row]
             was == (s.was \ {i}) \cup (s.now \cap {i})
             u == [s EXCEPT !.own = own, !.todo = Tail(s.todo), !.was = was,
                            !.relabel = relabel]
  <2>7. Go(r, u)
    BY <1>4, <2>6
  <2>8. Tail(s.todo) \in Seq(Ids) /\ s.todo \in Seq(Ids)
    BY <1>1, <1>2 DEF Session
  <2>9. was \subseteq s.held /\ own \in [Ids -> Row \cup {Gone, None}] /\ s.held \subseteq Ids
    BY <1>1, <2>1, <2>5 DEF Typed, Session
  <2> HIDE DEF own, was
  <2>10. /\ u \in Session /\ u.pc = s.pc /\ u.op = s.op /\ u.target = s.target
         /\ u.relabel = relabel /\ u.own = own /\ u.overtaken = s.overtaken
         /\ u.held = s.held /\ u.was = was /\ u.now = s.now /\ u.want = s.want
         /\ u.todo = Tail(s.todo)
    BY <1>1, <2>8, <2>9, ZenonT(30) DEF Session
  <2> HIDE DEF u
  <2>11. Typed(u)
    <3>1. s.op \in {"create", "update", "activate"} /\ (relabel => s.relabel)
      BY <1>1, <1>2, <2>6 DEF Typed, OpFits
    <3> QED
      BY <1>1, <1>2, <2>9, <2>10, <3>1, ProvidersAssumption DEF Typed, OpFits
  <2>12. ASSUME s.pc = "flush2", s.want = TRUE
         PROVE  s.target \in was \/ \E k \in DOMAIN Tail(s.todo) : Tail(s.todo)[k] = s.target
    <3>1. /\ s.target \in s.now
          /\ s.target \in s.was \/ \E k \in DOMAIN s.todo : s.todo[k] = s.target
      BY <1>1, <2>12 DEF Fits, Switches
    <3>2. CASE s.target = i
      BY <3>1, <3>2 DEF was
    <3>3. CASE s.target # i /\ s.target \in s.was
      BY <3>3 DEF was
    <3>4. ASSUME s.target # i, NEW k \in DOMAIN s.todo, s.todo[k] = s.target
          PROVE  \E j \in DOMAIN Tail(s.todo) : Tail(s.todo)[j] = s.target
      <4>1. k \in 2 .. Len(s.todo)
        BY <1>2, <2>8, <3>4
      <4>2. k - 1 \in DOMAIN Tail(s.todo) /\ Tail(s.todo)[k - 1] = s.todo[k]
        BY <1>2, <2>8, <4>1
      <4> QED
        BY <3>4, <4>2
    <3> QED
      BY <3>1, <3>2, <3>3, <3>4
  <2>13. Switches(u)
    <3>1. u.pc # "commit"
      BY <1>2, <2>10
    <3>2. u.op \in {"update", "activate"} => u.target \in u.held
      BY <1>1, <2>10 DEF Fits, Switches
    <3>3. u.pc = "flush2" /\ u.want = TRUE =>
            /\ u.target \in u.now
            /\ u.target \in u.was \/ \E k \in DOMAIN u.todo : u.todo[k] = u.target
      BY <1>1, <2>10, <2>12 DEF Fits, Switches
    <3> QED
      BY <3>1, <3>2, <3>3 DEF Switches
  <2>14. Believes(u, table)
    <3> SUFFICES ASSUME ~s.overtaken, NEW j \in was PROVE j \in Active(Sees(u, table))
      BY <2>10 DEF Believes
    <3>1. s.was \subseteq Active(View(r))
      BY <1>1, <1>2, ViewTyped DEF Believes, Stages
    <3>2. Sees(u, table) = [View(r) EXCEPT ![i] = row]
      BY <1>1, <2>1, <2>5, <2>10, Markers DEF Sees, View, own, Session
    <3>3. CASE j # i
      <4>1. j \in Active(View(r))
        BY <3>1, <3>3 DEF was
      <4> QED
        BY <3>2, <3>3, <4>1, ViewTyped DEF Active, Existing
    <3>4. CASE j = i
      <4>1. row.active
        BY <2>3, <2>5, <3>1, <3>4 DEF was, Active
      <4> QED
        BY <2>1, <2>5, <3>2, <3>4, <4>1, ViewTyped DEF Active, Existing
    <3> QED
      BY <3>3, <3>4
  <2> QED
    BY <2>7, <2>11, <2>13, <2>14, GoFits DEF Fits
<1> QED
  BY <1>3, <1>4 DEF UpdateRow

LEMMA InsertFits ==
  ASSUME SwitchInv, NEW r \in Requests, InsertRow(r)
  PROVE  SwitchInv'
<1> DEFINE s == tx[r]
           row == [active |-> s.want, born |-> NewBorn]
<1>1. Fits(s) /\ Typed(s) /\ s \in Session /\ Believes(s, table) /\ s.pc = "insert"
  BY DEF SwitchInv, Fits, Typed, InsertRow
<1>2. s.op = "create" /\ s.want \in BOOLEAN
  BY <1>1 DEF Typed, OpFits
<1>3. CASE End(r, "failed")
  BY <1>3, EndFits DEF Over
<1>4. ASSUME NEW i \in Ids, \A q \in Requests : View(q)[i] = None,
             Go(r, [s EXCEPT !.own[i] = row, !.target = i, !.pc = "commit"])
      PROVE  SwitchInv'
  <2>1. row \in Row /\ row.active = s.want
    BY <1>2, <1>4, BornInRange DEF Row
  <2> HIDE DEF row
  <2> DEFINE own == [s.own EXCEPT ![i] = row]
             u == [s EXCEPT !.own = own, !.target = i, !.pc = "commit"]
  <2>2. Go(r, u)
    BY <1>4
  <2>3. own \in [Ids -> Row \cup {Gone, None}] /\ own[i] = row
    BY <1>1, <2>1 DEF Session
  <2> HIDE DEF own
  <2>4. /\ u \in Session /\ u.pc = "commit" /\ u.op = s.op /\ u.target = i
        /\ u.relabel = s.relabel /\ u.own = own /\ u.overtaken = s.overtaken
        /\ u.held = s.held /\ u.was = s.was /\ u.now = s.now /\ u.want = s.want
    BY <1>1, <2>3 DEF Session, Stages
  <2> HIDE DEF u
  <2>5. Fits(u)
    BY <1>1, <1>2, <2>1, <2>3, <2>4 DEF Fits, Typed, OpFits, Switches
  <2>6. Believes(u, table)
    <3> SUFFICES ASSUME ~s.overtaken, NEW j \in s.was PROVE j \in Active(Sees(u, table))
      BY <2>4 DEF Believes
    <3>1. j \in Active(View(r))
      BY <1>1, ViewTyped DEF Believes, Stages
    <3>2. Sees(u, table) = [View(r) EXCEPT ![i] = row]
      <4>1. s.own \in [Ids -> Row \cup {Gone, None}] /\ row # None
        BY <1>1, <2>1, Markers DEF Session
      <4>2. own = [s.own EXCEPT ![i] = row]
        BY DEF own
      <4>3. Sees(u, table) = [k \in Ids |-> IF own[k] # None THEN own[k] ELSE table[k]]
        BY <2>4 DEF Sees
      <4>4. View(r) = [k \in Ids |-> IF s.own[k] # None THEN s.own[k] ELSE table[k]]
        BY DEF View
      <4> QED
        BY <1>4, <4>1, <4>2, <4>3, <4>4
    <3>3. j # i
      BY <1>4, <3>1, Markers DEF Active, Existing
    <3> QED
      BY <3>1, <3>2, <3>3, ViewTyped DEF Active, Existing
  <2> QED
    BY <2>2, <2>5, <2>6, GoFits
<1> QED
  BY <1>3, <1>4 DEF InsertRow

LEMMA DeleteFits ==
  ASSUME SwitchInv, NEW r \in Requests, DeleteRow(r)
  PROVE  SwitchInv'
<1> DEFINE s == tx[r]
           i == Head(s.todo)
           rest == [s EXCEPT !.todo = Tail(@),
                             !.pc = IF Tail(s.todo) = <<>> THEN "commit" ELSE @]
           t == [rest EXCEPT !.own[i] = Gone]
<1>1. Fits(s) /\ Typed(s) /\ s \in Session /\ s.pc = "delete"
  BY DEF SwitchInv, Fits, Typed, DeleteRow
<1>2. /\ s.op \in {"delete", "sweep"} /\ s.todo # <<>> /\ s.was = {} /\ ~s.relabel
      /\ s.want # TRUE
  BY <1>1 DEF Typed, OpFits
<1>3. \/ i \in Ids /\ Go(r, t)
      \/ Go(r, rest)
      \/ End(r, "refused")
  BY DEF DeleteRow, Existing
<1>4. PICK pc \in {"delete", "commit"} :
        /\ pc = IF Tail(s.todo) = <<>> THEN "commit" ELSE s.pc
        /\ pc = "delete" => Tail(s.todo) # <<>>
  BY <1>1
<1>5. Tail(s.todo) \in Seq(Ids)
  BY <1>1, <1>2 DEF Session
<1>6. rest = [s EXCEPT !.todo = Tail(s.todo), !.pc = pc]
  BY <1>4
<1> HIDE DEF rest
<1>7. /\ rest \in Session /\ rest.pc = pc /\ rest.op = s.op /\ rest.todo = Tail(s.todo)
      /\ rest.relabel = s.relabel /\ rest.held = s.held /\ rest.was = {} /\ rest.now = s.now
      /\ rest.want = s.want
  BY <1>1, <1>2, <1>5, <1>6 DEF Session, Stages
<1>8. Fits(rest) /\ Believes(rest, table)
  BY <1>1, <1>2, <1>4, <1>7 DEF Fits, Typed, OpFits, Switches, Believes
<1>9. ASSUME i \in Ids PROVE Fits(t) /\ Believes(t, table)
  <2> HIDE DEF i
  <2>1. /\ t \in Session /\ t.pc = pc /\ t.op = s.op /\ t.todo = Tail(s.todo)
        /\ t.relabel = s.relabel /\ t.held = s.held /\ t.was = {} /\ t.now = s.now
        /\ t.want = s.want
    BY <1>7, <1>9 DEF Session
  <2> HIDE DEF t
  <2> QED
    BY <1>1, <1>2, <1>4, <2>1 DEF Fits, Typed, OpFits, Switches, Believes
<1> HIDE DEF t
<1> QED
  BY <1>3, <1>8, <1>9, GoFits, EndFits DEF Over

\* A commit overtakes every request in progress, and so owes them nothing.
LEMMA CommitFits ==
  ASSUME SwitchInv, NEW r \in Requests, Commit(r)
  PROVE  SwitchInv'
<1>1. table' \in [Ids -> Row \cup {None, Gone}] /\ tx' = [q \in Requests |-> tx'[q]]
  BY ViewTyped DEF Commit
<1>2. ASSUME NEW q \in Requests PROVE Fits(tx'[q]) /\ Believes(tx'[q], table')
  <2>1. Fits(tx[q]) /\ Typed(tx[q]) /\ tx[q] \in Session
    BY DEF SwitchInv, Fits, Typed
  <2>2. CASE q = r
    <3> DEFINE u == [Idle EXCEPT !.pc = "done"]
    <3>1. tx'[q] = u
      BY <2>2 DEF Commit
    <3>2. /\ u \in Session /\ u.pc = "done" /\ u.op = None /\ u.was = {} /\ u.now = {}
          /\ u.held = {} /\ u.relabel = FALSE
      BY IdleFits DEF Fits, Typed, Session, Over
    <3> HIDE DEF u
    <3>3. Fits(u) /\ Believes(u, table')
      BY <3>2, ProvidersAssumption DEF Fits, Typed, OpFits, Switches, Believes, Stages
    <3> QED
      BY <3>1, <3>3
  <2>3. CASE q # r /\ tx[q].pc \notin Stages
    <3>1. tx'[q] = tx[q]
      BY <2>3 DEF Commit
    <3> QED
      BY <2>1, <2>3, <3>1 DEF Believes
  <2>4. CASE q # r /\ tx[q].pc \in Stages
    <3> DEFINE u == [tx[q] EXCEPT !.overtaken = TRUE]
    <3>3. /\ u \in Session /\ u.pc = tx[q].pc /\ u.op = tx[q].op /\ u.target = tx[q].target
          /\ u.want = tx[q].want /\ u.relabel = tx[q].relabel /\ u.held = tx[q].held
          /\ u.was = tx[q].was /\ u.now = tx[q].now /\ u.own = tx[q].own
          /\ u.todo = tx[q].todo /\ u.overtaken = TRUE
      BY <2>1 DEF Session
    <3>4. tx'[q] = u
      BY <2>4 DEF Commit
    <3> HIDE DEF u
    <3>5. Fits(u) /\ Believes(u, table')
      BY <2>1, <3>3 DEF Fits, Typed, OpFits, Switches, Believes
    <3> QED
      BY <3>4, <3>5
  <2> QED
    BY <2>2, <2>3, <2>4
<1> QED
  BY <1>1, <1>2 DEF SwitchInv

LEMMA NextFits ==
  ASSUME SwitchInv, [Next]_vars
  PROVE  SwitchInv'
<1>1. ASSUME NEW r \in Requests, Route(r) \/ Statement(r) \/ Crash(r) PROVE SwitchInv'
  BY <1>1, RouteFits, SelectFits, UpdateFits, InsertFits, DeleteFits, CommitFits,
     EndFits DEF Statement, Crash, DeadlockAbort, Over
<1>2. CASE UNCHANGED vars
  BY <1>2 DEF vars, SwitchInv
<1> QED
  BY <1>1, <1>2 DEF Next, Terminated

LEMMA InitFits == Init => SwitchInv
<1> SUFFICES ASSUME Init PROVE SwitchInv
  OBVIOUS
<1>1. tx = [r \in Requests |-> tx[r]] /\ \A r \in Requests : tx[r] = Idle
  BY DEF Init
<1>2. Believes(Idle, table)
  BY IdleFits DEF Believes, Stages
<1> QED
  BY <1>1, <1>2, IdleFits DEF Init, SwitchInv

\* Every variable keeps its type; a DELETE has a row to delete, and a session has loaded
\* every row it takes for active (TypeOK), in any interleaving of the routes.
THEOREM TypesOfConfigs == Spec => []TypeOK
<1>1. SwitchInv => TypeOK
  BY DEF SwitchInv, Fits, Typed, OpFits, TypeOK
<1> QED
  BY <1>1, InitFits, NextFits, PTL DEF Spec

\* Only its own commit answers a request that is about to commit.
LEMMA OnlyCommitAnswers ==
  ASSUME SwitchInv, [Next]_vars, NEW r \in Requests, AtCommit(tx[r]), tx'[r].pc = "done"
  PROVE  Commit(r)
<1>1. tx[r].pc \in {"commit", "flush2"} /\ (tx[r].pc = "flush2" => tx[r].todo = <<>>)
  BY DEF AtCommit
<1>2. ASSUME NEW q \in Requests, NEW t, Go(q, t) PROVE tx'[r] = IF q = r THEN t ELSE tx[r]
  BY <1>2 DEF Go, SwitchInv
<1>3. ASSUME NEW q \in Requests, End(q, "failed") PROVE FALSE
  <2>1. tx'[r] = [Idle EXCEPT !.pc = "failed"] \/ tx'[r] = tx[r]
    BY <1>2, <1>3 DEF End
  <2>2. [Idle EXCEPT !.pc = "failed"].pc = "failed"
    BY DEF Idle
  <2> QED
    BY <1>1, <2>1, <2>2
<1>4. ASSUME NEW q \in Requests, q # r, NEW t, Go(q, t) PROVE FALSE
  BY <1>1, <1>2, <1>4
<1>5. CASE UNCHANGED vars
  BY <1>1, <1>5 DEF vars
<1>6. ASSUME NEW q \in Requests, Commit(q), q # r PROVE FALSE
  <2>1. tx[r] \in Session
    BY DEF SwitchInv, Fits, Typed
  <2>2. tx'[r] = [tx[r] EXCEPT !.overtaken = TRUE]
    BY <1>1, <1>6 DEF Commit, Stages
  <2>3. tx'[r].pc = tx[r].pc
    BY <2>1, <2>2 DEF Session
  <2> QED
    BY <1>1, <2>3
<1>7. ASSUME NEW q \in Requests, Route(q) PROVE FALSE
  <2>1. tx[q].pc = "idle" /\ \E t : Go(q, t)
    BY <1>7 DEF Route, CreateProviderConfig, UpdateProviderConfig, ActivateProviderConfig,
       DeleteProviderConfig, PutSheetsConfig, PatchSheetsConfig, ActivateSheetsConfig,
       DeleteSheetsConfig, Creates, Listed, Begin
  <2> QED
    BY <1>1, <1>4, <2>1
<1>8. ASSUME NEW q \in Requests, Reselect(q) \/ SelectActive(q) \/ SelectSiblings(q)
                              \/ ActivateTarget(q)
      PROVE  FALSE
  <2>1. /\ tx[q].pc \in {"reselect", "select_active", "select_siblings", "flush1"}
        /\ \E t : Go(q, t)
    BY <1>8 DEF Reselect, SelectActive, SelectSiblings, ActivateTarget, End
  <2> QED
    BY <1>1, <1>4, <2>1
<1>9. ASSUME NEW q \in Requests, UpdateRow(q) \/ InsertRow(q) \/ DeleteRow(q) PROVE FALSE
  <2>1. /\ tx[q].pc \in {"insert", "delete"} \/ tx[q].todo # <<>>
        /\ tx[q].pc # "commit" /\ \E t : Go(q, t)
    BY <1>9 DEF UpdateRow, InsertRow, DeleteRow, Sending, End
  <2> QED
    BY <1>1, <1>4, <2>1
<1> QED
  BY <1>3, <1>5, <1>6, <1>7, <1>8, <1>9
     DEF Next, Terminated, Statement, Crash, DeadlockAbort

\* The row a switch was asked for is the one active row of what it commits.
LEMMA CommitSwitches ==
  ASSUME SwitchInv, Inv, NEW r \in Requests, Commit(r), tx[r].want = TRUE,
         tx[r].op = "create" \/ ~tx[r].overtaken
  PROVE  Active(table') = {tx[r].target}
<1> DEFINE s == tx[r]
<1>1. Typed(s) /\ Switches(s) /\ Believes(s, table) /\ View(r) = Sees(s, table)
  BY ViewTyped DEF SwitchInv, Fits
<1>2. s.target \in Active(View(r))
  <2>1. CASE s.pc = "commit"
    <3>1. s.op = "create"
      BY <1>1, <2>1 DEF Typed, OpFits
    <3>2. s.target \in Ids /\ s.own[s.target] \in Row /\ s.own[s.target].active
      BY <1>1, <2>1, <3>1 DEF Switches
    <3> QED
      BY <3>2, Markers DEF Active, Existing, View
  <2>2. CASE s.pc = "flush2" /\ s.todo = <<>>
    <3>1. s.op # "create" /\ ~s.overtaken
      BY <1>1, <2>2 DEF Typed, OpFits
    <3>2. s.target \in s.was
      BY <1>1, <2>2 DEF Switches
    <3> QED
      BY <1>1, <2>2, <3>1, <3>2 DEF Believes, Stages
  <2> QED
    BY <2>1, <2>2 DEF Commit, AtCommit
<1>3. AtMostOne(View(r)) /\ table' = View(r)
  BY DEF Inv, Commit
<1> QED
  BY <1>2, <1>3 DEF AtMostOne

\* A row created as active, or switched on by a request that no other overtook, is the one
\* active row when the request is answered, although the session sends its UPDATEs from
\* what it loaded statements earlier (SwitchTakesEffect).
THEOREM SwitchesTakeEffect == Spec => SwitchTakesEffect
<1>1. SwitchInv /\ Inv /\ [Next]_vars =>
        [\A r \in Requests :
           AtCommit(tx[r]) /\ tx'[r].pc = "done" /\ tx[r].want = TRUE
           /\ (tx[r].op = "create" \/ ~tx[r].overtaken) => Active(table') = {tx[r].target}]_vars
  BY OnlyCommitAnswers, CommitSwitches
<1>2. SwitchInv /\ [Next]_vars => SwitchInv'
  BY NextFits
<1> QED
  BY <1>1, <1>2, InitFits, OneActiveInvariant, PTL DEF Spec, SwitchTakesEffect
=============================================================================
