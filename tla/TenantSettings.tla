---------------------------- MODULE TenantSettings ----------------------------
(***************************************************************************)
(* The tenant_settings row: one JSON document that fourteen routes read,   *)
(* change in memory and write back whole. A request loads the row and      *)
(* changes a copy of its document; upsert_settings gets the row again and  *)
(* assigns the copy; the commit writes it, and the audit entry is a second *)
(* transaction. Where the route no longer holds the instance it loaded,    *)
(* the second read is a new SELECT. Where it does, the copy shares its     *)
(* sections with the instance, and the ORM sees a change only when the set *)
(* of sections differs. A value is named by the request that asked for it. *)
(***************************************************************************)
EXTENDS FiniteSets

CONSTANTS
    Requests,       \* the requests of a behaviour; each runs at most once
    InitialRows,    \* the rows a tenant may have: [present, drafted], sets of sections
    None

Sections == {"bot", "business", "booking", "data", "features"}

\* Groups of keys that the routes change together, and the section that holds them.
FieldsOf == [bot |-> {"enabled", "greeting"}, business |-> {"profile"},
             booking |-> {"closed_dates", "ranges", "identity"},
             data |-> {"source"}, features |-> {"flags"}]
Fields == UNION {FieldsOf[s] : s \in Sections}

Values == Requests \cup {"unset", "default", "template", "initial"}
Drafts == [fields : SUBSET Fields, by : Requests \cup {"initial"}]

Document == [present : SUBSET Sections, live : [Fields -> Values],
             draft : [Sections -> Drafts \cup {None}]]

ASSUME SettingsAssumption ==
    /\ InitialRows \subseteq [present : SUBSET Sections, drafted : SUBSET Sections]
    /\ None \notin Drafts /\ None \notin Sections /\ None \notin Document
    /\ Requests \cap {"unset", "default", "template", "initial"} = {}

VARIABLES
    row,        \* the committed document, or None while the tenant has no row
    req,        \* per request: what its two reads gave, the document in memory, how far it is
    audit       \* the requests with a committed audit entry

vars == <<row, req, audit>>

EmptyDoc == [present |-> {}, live |-> [f \in Fields |-> "unset"],
             draft |-> [s \in Sections |-> None]]

\* Every key of the sections present is set; those drafted have a draft of every key.
InitialDoc(i) ==
    [present |-> i.present,
     live |-> [f \in Fields |->
                IF \E s \in i.present : f \in FieldsOf[s] THEN "initial" ELSE "unset"],
     draft |-> [s \in Sections |->
                IF s \in i.present \cap i.drafted
                THEN [fields |-> FieldsOf[s], by |-> "initial"] ELSE None]]

Working == {"changed", "assigned"}
Committed == {"stored", "crashed", "done"}

Request == [pc : {"idle", "changed", "assigned", "failed"} \cup Committed,
            kind : {"put", "identity", "template", "draft", "publish", "discard", None},
            section : Sections \cup {None}, loaded : Document \cup {None},
            found : Document \cup {None}, doc : Document,
            asked : SUBSET Fields, audited : BOOLEAN]

Fresh == [pc |-> "idle", kind |-> None, section |-> None, loaded |-> None, found |-> None,
          doc |-> EmptyDoc, asked |-> {}, audited |-> FALSE]

Init ==
    /\ row \in {None} \cup {InitialDoc(i) : i \in InitialRows}
    /\ req = [r \in Requests |-> Fresh]
    /\ audit = {}

Loaded == IF row = None THEN EmptyDoc ELSE row

-----------------------------------------------------------------------------
(* What the helpers of the routes do to the document they loaded.           *)

EnsuredAlone(doc, secs, defaults) ==        \* mutant: the other sections are not kept
    [EmptyDoc EXCEPT !.present = secs,
                !.live = [f \in Fields |->
                    IF f \in defaults /\ doc.live[f] = "unset" THEN "default"
                    ELSE IF f \in defaults THEN doc.live[f] ELSE "unset"]]

Filled(live, fields, value) ==
    [f \in Fields |-> IF f \in fields /\ live[f] = "unset" THEN value ELSE live[f]]

\* Add the missing sections of secs and the missing keys of defaults; keep the rest.
Ensured(doc, secs, defaults) ==
    [present |-> doc.present \cup secs, live |-> Filled(doc.live, defaults, "default"),
     draft |-> doc.draft]

Put(doc, fields, v) ==
    [doc EXCEPT !.live = [f \in Fields |-> IF f \in fields THEN v ELSE @[f]]]

OpsConfigAsIs == Loaded     \* mutant: the missing sections are not added

OpsConfig == Ensured(Loaded, {"bot", "booking"}, {"enabled", "closed_dates", "ranges"})
SuperadminOpsConfig == Ensured(Loaded, {"bot", "booking"}, {"enabled", "closed_dates"})
BotConfig == Ensured(Loaded, {"bot", "business"}, {"greeting", "profile"})
SuperadminBotConfig == Ensured(Loaded, {"bot", "business"}, {"greeting", "profile"})
DataConfig == Ensured(Loaded, {"data"}, {"source"})
FeatureConfig == Ensured(Loaded, {"features"}, {"flags"})

Begin(r, kind, section, doc, asked, audited) ==
    /\ req[r].pc = "idle"
    /\ req' = [req EXCEPT ![r] =
                [pc |-> "changed", kind |-> kind, section |-> section, loaded |-> row,
                 found |-> None, doc |-> doc, asked |-> asked, audited |-> audited]]
    /\ UNCHANGED <<row, audit>>

Update(r, doc, fields) ==
    \E asked \in SUBSET fields : Begin(r, "put", None, Put(doc, asked, r), asked, TRUE)

-----------------------------------------------------------------------------
(* The routes, up to their first commit.                                    *)

UpdateOperations(r) == Update(r, OpsConfig, {"enabled", "closed_dates"})
UpdateCalendarOverrides(r) == Update(r, OpsConfig, {"closed_dates", "ranges"})
UpdateTenantOperations(r) == Update(r, SuperadminOpsConfig, {"enabled", "closed_dates"})
UpdateConfig(r) == Update(r, BotConfig, {"greeting", "profile"})
UpdateTenantConfig(r) == Update(r, SuperadminBotConfig, {"greeting", "profile"})
UpdateDataSettings(r) == Update(r, DataConfig, {"source"})
UpdateSuperadminDataSettings(r) == Update(r, DataConfig, {"source"})
UpdateFeatures(r) == Update(r, FeatureConfig, {"flags"})
UpdateSuperadminFeatures(r) == Update(r, FeatureConfig, {"flags"})

\* The one route that writes no audit entry.
UpdateIdentitySettings(r) ==
    Begin(r, "identity", None, Put(Ensured(Loaded, {"booking"}, {}), {"identity"}, r),
          {"identity"}, FALSE)

\* Only what is missing: the template has sections bot and business.
ApplyTemplate(r) ==
    LET doc == Ensured(Loaded, {"bot", "business"}, {})
        filled == [doc EXCEPT !.live = Filled(@, {"enabled", "greeting", "profile"}, "template")]
    IN  Begin(r, "template", None, filled, {}, TRUE)

DraftSections == Sections \ {"features"}

SavedLive(doc, s, fields, r) == Put(Ensured(doc, {s}, {}), fields, r)    \* mutant

SavedDraft(doc, s, fields, r) ==
    [Ensured(doc, {s}, {}) EXCEPT !.draft[s] = [fields |-> fields, by |-> r]]

SaveDraft(r) ==
    \E s \in DraftSections : \E fields \in SUBSET FieldsOf[s] \ {{}} :
        Begin(r, "draft", s, SavedDraft(Loaded, s, fields, r), {}, TRUE)

\* pop("_draft") and merge it; a section without a draft is refused with 400.
PublishDraft(r) ==
    \E s \in DraftSections :
        LET draft == Loaded.draft[s] IN
        /\ draft # None
        /\ Begin(r, "publish", s, [Put(Loaded, draft.fields, draft.by) EXCEPT !.draft[s] = None],
                 draft.fields, TRUE)

DiscardDraft(r) ==
    \E s \in DraftSections :
        Begin(r, "discard", s, [Loaded EXCEPT !.draft[s] = None], {}, Loaded.draft[s] # None)

-----------------------------------------------------------------------------
(* upsert_settings and the two commits.                                     *)

\* A local of the route keeps the loaded instance in the session's weak identity map. The
\* other routes load it in a helper, whose local is gone when the helper returns.
Holds(q) == q.kind \in {"identity", "template"} /\ q.loaded # None

\* upsert_settings gets the row once more: the instance held, or a SELECT.
Upsert(r) ==
    /\ req[r].pc = "changed"
    /\ req' = [req EXCEPT ![r].pc = "assigned",
                          ![r].found = IF Holds(req[r]) THEN req[r].loaded ELSE row]
    /\ UNCHANGED <<row, audit>>

DirtyShared(q) ==       \* mutant: every route holds the instance
    q.found = None \/ q.doc.present # q.found.present

\* The flush compares the assigned document with what the instance was loaded with; the one
\* held shares its sections with the assigned document, so their contents are always equal.
Dirty(q) == IF Holds(q) THEN q.doc.present # q.found.present ELSE q.doc # q.found

After(q, pc) ==
    [q EXCEPT !.pc = pc, !.loaded = None, !.found = None, !.doc = EmptyDoc, !.asked = {}]

Ended(q) == After(q, IF q.audited THEN "stored" ELSE "done")

Swallowed(r) ==         \* mutant: the conflict is taken for "already there"
    /\ req' = [req EXCEPT ![r] = After(@, "failed")]
    /\ audit' = audit \cup {r}
    /\ UNCHANGED row

Refused(r) ==
    /\ req' = [req EXCEPT ![r] = After(@, "failed")]
    /\ UNCHANGED <<row, audit>>

\* The insert of a request that twice found no row meets the primary key: 500, rolled back.
Conflict(r) ==
    /\ req[r].pc = "assigned" /\ req[r].found = None /\ row # None
    /\ Refused(r)

Store(r) ==
    /\ req[r].pc = "assigned" /\ (req[r].found = None => row = None)
    /\ row' = IF Dirty(req[r]) THEN req[r].doc ELSE row
    /\ req' = [req EXCEPT ![r] = Ended(@)]
    /\ UNCHANGED audit

AuditUncommitted(r) ==      \* mutant: audit.log without the second commit
    /\ req[r].pc = "stored"
    /\ req' = [req EXCEPT ![r].pc = "done"]
    /\ UNCHANGED <<row, audit>>

WriteAudit(r) ==
    /\ req[r].pc = "stored"
    /\ audit' = audit \cup {r}
    /\ req' = [req EXCEPT ![r].pc = "done"]
    /\ UNCHANGED row

\* The process dies, or the database fails the commit: what was not committed is rolled back.
Crash(r) ==
    \/ /\ req[r].pc \in Working /\ Refused(r)
    \/ /\ req[r].pc = "stored"
       /\ req' = [req EXCEPT ![r].pc = "crashed"]
       /\ UNCHANGED <<row, audit>>

Route(r) ==
    \/ UpdateOperations(r) \/ UpdateCalendarOverrides(r) \/ UpdateTenantOperations(r)
    \/ UpdateConfig(r) \/ UpdateTenantConfig(r)
    \/ UpdateDataSettings(r) \/ UpdateSuperadminDataSettings(r)
    \/ UpdateFeatures(r) \/ UpdateSuperadminFeatures(r) \/ UpdateIdentitySettings(r)
    \/ ApplyTemplate(r) \/ SaveDraft(r) \/ PublishDraft(r) \/ DiscardDraft(r)

Proceed(r) == Upsert(r) \/ Conflict(r) \/ Store(r) \/ WriteAudit(r)

\* Nothing is in progress and no request is left in the bound.
Terminated ==
    /\ \A r \in Requests : req[r].pc \notin Working \cup {"idle", "stored"}
    /\ UNCHANGED vars

Next == (\E r \in Requests : Route(r) \/ Proceed(r) \/ Crash(r)) \/ Terminated

\* A handler runs to its end unless its process dies.
Spec == Init /\ [][Next]_vars /\ \A r \in Requests : WF_vars(Proceed(r))

-----------------------------------------------------------------------------
TypeOK ==
    /\ row \in Document \cup {None}
    /\ row # None => \A s \in Sections \ row.present :
        row.draft[s] = None /\ \A f \in FieldsOf[s] : row.live[f] = "unset"
    /\ req \in [Requests -> Request]
    /\ audit \subseteq Requests

\* The document of the first read.
Seen(q) == IF q.loaded = None THEN EmptyDoc ELSE q.loaded

\* What a request changes beyond what it was asked to is at most what others committed since it
\* loaded the document: of the rest every section, value and draft stays, the template's
\* included ("only adds what's missing"), even when its second read finds another document.
PreservesOthers ==
    [][\A r \in Requests :
        req[r].pc \in Working /\ req'[r].pc \in Committed /\ row # None =>
            LET seen == Seen(req[r]) IN
            /\ seen.present \cap row.present \subseteq row'.present
            /\ \A f \in Fields \ req[r].asked :
                row.live[f] = seen.live[f] /\ row.live[f] # "unset" => row'.live[f] = row.live[f]
            /\ \A s \in Sections \ {req[r].section} :
                row.draft[s] = seen.draft[s] => row'.draft[s] = row.draft[s]]_vars

\* What a refused or rolled back request asked for is stored nowhere, not in a draft, not by
\* another request that wrote the whole document, and no audit entry tells of it.
RefusedLeavesNothing ==
    \A r \in Requests : req[r].pc \in {"idle", "failed"} =>
        /\ r \notin audit
        /\ row # None => /\ \A f \in Fields : row.live[f] # r
                         /\ \A s \in Sections : row.draft[s] # None => row.draft[s].by # r

\* A value saved as a draft is not what the bot and the booking rules read until a publish of
\* its section has been committed.
DraftStaysPrivate ==
    row # None => \A f \in Fields : \A r \in Requests :
        row.live[f] = r /\ req[r].kind = "draft" =>
            \E p \in Requests : req[p].kind = "publish" /\ req[p].pc \in Committed
                                /\ f \in FieldsOf[req[p].section]

\* "The change is recorded in the audit log": the entry follows the settings' own commit,
\* unless the process dies or the second commit fails in between.
ChangesAudited ==
    \A r \in Requests : req[r].pc = "stored" ~> (r \in audit \/ req[r].pc = "crashed")

\* What a PUT or a saved draft answered with 200 is in the committed document, however stale
\* its reads, where the route's helper has let go of the instance it loaded.
SavedIsStored ==
    [][\A r \in Requests :
        req[r].pc \in Working /\ req'[r].pc \in Committed =>
            LET q == req[r] IN
            /\ q.kind = "put" => \A f \in q.asked : row'.live[f] = r
            /\ q.kind = "draft" => row'.draft[q.section] # None /\ row'.draft[q.section].by = r]_vars

\* What a PUT answered with 200 is in the committed document when it answers.  Refuted by the
\* identity route: where the section exists already no UPDATE is sent.
AcknowledgedStored ==
    [][\A r \in Requests :
        req[r].kind \in {"put", "identity"} /\ req[r].pc \in Working /\ req'[r].pc \in Committed =>
            \A f \in req[r].asked : row'.live[f] = r]_vars
=============================================================================
