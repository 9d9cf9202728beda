------------------------ MODULE TenantSettings_proofs ------------------------
(***************************************************************************)
(* For any number of settings requests and any initial rows: the documents *)
(* keep their types, a request that was refused or rolled back has left    *)
(* nothing behind, a draft is live only once published, a document changed *)
(* on a copy is stored as assigned, and a commit keeps what others wrote.  *)
(***************************************************************************)
EXTENDS TenantSettings, TLAPS

Named(doc, p) ==
    \/ \E f \in Fields : doc.live[f] = p
    \/ \E s \in Sections : doc.draft[s] # None /\ doc.draft[s].by = p

\* The fields are in those sections.
Within(fields, secs) == \A s \in Sections \ secs : FieldsOf[s] \cap fields = {}

\* What every document in the table and in memory satisfies.
Sound(doc) ==
    /\ doc \in Document
    /\ \A s \in Sections \ doc.present :
        doc.draft[s] = None /\ \A f \in FieldsOf[s] : doc.live[f] = "unset"
    /\ \A s \in Sections : doc.draft[s] # None => doc.draft[s].fields \subseteq FieldsOf[s]

\* The document e has no name live that was not live in d.
NoNewLive(d, e) == \A f \in Fields : \A p \in Requests : e.live[f] = p => d.live[f] = p

\* What request r makes of the document d it loaded: it adds no name but its own.
Derived(d, doc, r, kind, section) ==
    /\ Sound(doc)
    /\ \A f \in Fields : \A p \in Requests :
        doc.live[f] = p =>
            \/ d.live[f] = p
            \/ kind \in {"put", "identity"} /\ p = r
            \/ kind = "publish" /\ f \in FieldsOf[section] /\ Named(d, p)
    /\ \A s \in Sections :
        doc.draft[s] # None =>
            doc.draft[s].by = r \/ (d.draft[s] # None /\ doc.draft[s].by = d.draft[s].by)

Published(f) ==
    \E p \in Requests : req[p].kind = "publish" /\ req[p].pc \in Committed
                        /\ f \in FieldsOf[req[p].section]

\* Nothing tells of a request before its commit.
Unseen(r) ==
    /\ r \notin audit
    /\ row # None => ~Named(row, r)
    /\ \A q \in Requests \ {r} : req[q].pc \in Working => ~Named(req[q].doc, r)

\* A draft's values are live in the table, or in the document of a publish to come.
Private ==
    \A f \in Fields : \A p \in Requests :
        req[p].kind = "draft" =>
            /\ row # None /\ row.live[f] = p => Published(f)
            /\ \A q \in Requests :
                req[q].pc \in Working /\ req[q].doc.live[f] = p =>
                    \/ Published(f)
                    \/ req[q].kind = "publish" /\ f \in FieldsOf[req[q].section]

Inv ==
    /\ TypeOK
    /\ row # None => Sound(row)
    /\ \A r \in Requests : req[r].pc \in Working => Sound(req[r].doc)
    /\ \A r \in Requests : req[r].pc \notin Committed => Unseen(r)
    /\ Private

-----------------------------------------------------------------------------
(* The documents that the routes compute.                                   *)

LEMMA EmptySound == Sound(EmptyDoc) /\ \A p \in Requests : ~Named(EmptyDoc, p)
<1>1. EmptyDoc \in Document
    BY SMT DEF EmptyDoc, Document, Values
<1>2. /\ \A f \in Fields : EmptyDoc.live[f] = "unset"
      /\ \A s \in Sections : EmptyDoc.draft[s] = None
    BY SMT DEF EmptyDoc
<1>3. \A s \in Sections : FieldsOf[s] \subseteq Fields
    BY DEF Fields
<1>4. "unset" \notin Requests
    BY SettingsAssumption
<1>. QED BY <1>1, <1>2, <1>3, <1>4, SMT DEF Sound, Named

LEMMA FilledValues ==
    ASSUME NEW live \in [Fields -> Values], NEW fields,
           NEW value \in Values \ Requests
    PROVE  /\ Filled(live, fields, value) \in [Fields -> Values]
           /\ \A f \in Fields \ fields : Filled(live, fields, value)[f] = live[f]
           /\ \A f \in Fields : \A p \in Requests : Filled(live, fields, value)[f] = p => live[f] = p
BY SMT DEF Filled

\* Missing sections are added and missing keys filled in: the names in the document stay.
LEMMA FillSound ==
    ASSUME NEW d, Sound(d), NEW secs, NEW fields,
           NEW value \in Values \ Requests,
           Within(fields, d.present \cup secs),
           NEW e \in Document, e.present = d.present \cup secs, e.draft = d.draft,
           e.live = Filled(d.live, fields, value)
    PROVE  /\ Sound(e)
           /\ NoNewLive(d, e)
<1>0. d.live \in [Fields -> Values]
    BY DEF Sound, Document
<1>2. /\ e.live \in [Fields -> Values]
      /\ \A f \in Fields \ fields : e.live[f] = d.live[f]
      /\ NoNewLive(d, e)
    BY <1>0, FilledValues DEF NoNewLive
<1>4. \A s \in Sections \ (d.present \cup secs) : \A f \in FieldsOf[s] : e.live[f] = "unset"
  <2>. SUFFICES ASSUME NEW s \in Sections \ (d.present \cup secs), NEW f \in FieldsOf[s]
                PROVE  e.live[f] = "unset"
      OBVIOUS
  <2>1. f \in Fields \ fields
      BY DEF Fields, Within
  <2>2. d.live[f] = "unset"
      BY DEF Sound
  <2>. QED BY <1>2, <2>1, <2>2
<1>5. Sound(e)
    BY <1>4, SMT DEF Sound
<1>. QED BY <1>2, <1>5

LEMMA EnsuredSound ==
    ASSUME NEW d, Sound(d), NEW secs \in SUBSET Sections, NEW fields \in SUBSET Fields,
           Within(fields, d.present \cup secs)
    PROVE  LET e == Ensured(d, secs, fields) IN
           /\ Sound(e)
           /\ NoNewLive(d, e)
           /\ e.draft = d.draft
           /\ e.present = d.present \cup secs
<1>1. d \in Document
    BY DEF Sound
<1>2. "default" \in Values \ Requests
    BY SettingsAssumption DEF Values
<1>. DEFINE e == Ensured(d, secs, fields)
<1>3. e.present = d.present \cup secs /\ e.draft = d.draft /\ e.live = Filled(d.live, fields, "default")
    BY DEF Ensured
<1>4. e \in Document
    BY <1>1, <1>2, FilledValues, SMT DEF Document, Ensured
<1>. HIDE DEF e
<1>5. Sound(e) /\ NoNewLive(d, e)
    BY <1>2, <1>3, <1>4, FillSound
<1>. QED BY <1>3, <1>5 DEF e

LEMMA PutSound ==
    ASSUME NEW d, Sound(d), NEW fields \in SUBSET Fields, NEW v \in Values,
           Within(fields, d.present)
    PROVE  /\ Sound(Put(d, fields, v))
           /\ \A f \in Fields : Put(d, fields, v).live[f] = IF f \in fields THEN v ELSE d.live[f]
           /\ Put(d, fields, v).draft = d.draft
           /\ Put(d, fields, v).present = d.present
<1>. DEFINE e == Put(d, fields, v)
            live == [f \in Fields |-> IF f \in fields THEN v ELSE d.live[f]]
<1>0. d \in Document
    BY DEF Sound
<1>1. e = [present |-> d.present, live |-> live, draft |-> d.draft]
    BY <1>0, SMT DEF Put, Document
<1>2. live \in [Fields -> Values]
    BY <1>0, SMT DEF Document
<1>3. e \in Document
    BY <1>0, <1>1, <1>2, SMT DEF Document
<1>5. \A s \in Sections \ d.present : \A f \in FieldsOf[s] : live[f] = "unset"
  <2>. SUFFICES ASSUME NEW s \in Sections \ d.present, NEW f \in FieldsOf[s]
                PROVE  live[f] = "unset"
      OBVIOUS
  <2>1. f \in Fields /\ f \notin fields
      BY DEF Fields, Within
  <2>. QED BY <2>1, SMT DEF Sound
<1>6. \A f \in Fields : live[f] = IF f \in fields THEN v ELSE d.live[f]
    OBVIOUS
<1>. HIDE DEF e, live
<1>7. Sound(e)
    BY <1>1, <1>3, <1>5, SMT DEF Sound
<1>. QED BY <1>1, <1>6, <1>7, SMT DEF e

LEMMA DraftSound ==
    ASSUME NEW d, Sound(d), NEW s \in Sections, NEW x \in Drafts \cup {None},
           x # None => s \in d.present /\ x.fields \subseteq FieldsOf[s]
    PROVE  /\ Sound([d EXCEPT !.draft[s] = x])
           /\ [d EXCEPT !.draft[s] = x].live = d.live
           /\ \A t \in Sections : [d EXCEPT !.draft[s] = x].draft[t] = IF t = s THEN x ELSE d.draft[t]
<1>. DEFINE e == [d EXCEPT !.draft[s] = x]
<1>0. d \in Document
    BY DEF Sound
<1>1. /\ e = [present |-> d.present, live |-> d.live, draft |-> [d.draft EXCEPT ![s] = x]]
      /\ e \in Document
    BY <1>0, SMT DEF Document
<1>2. \A t \in Sections : e.draft[t] = IF t = s THEN x ELSE d.draft[t]
    BY <1>0, <1>1, SMT DEF Document
<1>. HIDE DEF e
<1>3. Sound(e)
    BY <1>1, <1>2, SMT DEF Sound
<1>. QED BY <1>1, <1>2, <1>3, SMT DEF e

LEMMA WithinMore ==
    ASSUME NEW fields, NEW secs, Within(fields, secs), NEW more, NEW part \in SUBSET fields
    PROVE  Within(part, more \cup secs)
BY DEF Within

\* The sections each route ensures hold the fields it touches.
LEMMA Groups ==
    /\ Within({"enabled", "closed_dates", "ranges"}, {"bot", "booking"})
    /\ Within({"greeting", "profile"}, {"bot", "business"})
    /\ Within({"enabled", "greeting", "profile"}, {"bot", "business"})
    /\ Within({"source"}, {"data"})
    /\ Within({"flags"}, {"features"})
    /\ Within({"identity"}, {"booking"})
<1>. SUFFICES ASSUME NEW s \in Sections
              PROVE  /\ s \notin {"bot", "booking"} =>
                            FieldsOf[s] \cap {"enabled", "closed_dates", "ranges"} = {}
                     /\ s \notin {"bot", "business"} =>
                            FieldsOf[s] \cap {"enabled", "greeting", "profile"} = {}
                     /\ s # "data" => FieldsOf[s] \cap {"source"} = {}
                     /\ s # "features" => FieldsOf[s] \cap {"flags"} = {}
                     /\ s # "booking" => FieldsOf[s] \cap {"identity"} = {}
    BY DEF Within
<1>1. CASE s = "bot" BY <1>1 DEF FieldsOf
<1>2. CASE s = "business" BY <1>2 DEF FieldsOf
<1>3. CASE s = "booking" BY <1>3 DEF FieldsOf
<1>4. CASE s = "data" BY <1>4 DEF FieldsOf
<1>5. CASE s = "features" BY <1>5 DEF FieldsOf
<1>. QED BY <1>1, <1>2, <1>3, <1>4, <1>5 DEF Sections

LEMMA UpdateDerived ==
    ASSUME NEW d, Sound(d), NEW r \in Requests, NEW secs \in SUBSET Sections,
           NEW defaults \in SUBSET Fields, Within(defaults, secs),
           NEW keys \in SUBSET Fields, Within(keys, secs), NEW asked \in SUBSET keys
    PROVE  \A kind \in {"put", "identity"} :
                Derived(d, Put(Ensured(d, secs, defaults), asked, r), r, kind, None)
<1>. DEFINE e == Ensured(d, secs, defaults)
            v == r
            doc == Put(e, asked, v)
<1>1. Within(defaults, d.present \cup secs) /\ Within(asked, d.present \cup secs)
    BY WithinMore
<1>2. /\ Sound(e) /\ NoNewLive(d, e)
      /\ e.draft = d.draft
      /\ e.present = d.present \cup secs
    BY <1>1, EnsuredSound
<1>3. r \in Values
    BY DEF Values
<1>. HIDE DEF e
<1>. asked \in SUBSET Fields /\ Within(asked, e.present) /\ v \in Values
    BY <1>1, <1>2, <1>3
<1>. HIDE DEF v
<1>4. /\ Sound(doc)
      /\ \A f \in Fields : doc.live[f] = IF f \in asked THEN v ELSE e.live[f]
      /\ doc.draft = e.draft
  <2>1. Sound(e)
    BY <1>2
  <2>2. Sound(doc)
    BY <2>1, PutSound
  <2>3. \A f \in Fields : doc.live[f] = IF f \in asked THEN v ELSE e.live[f]
    BY <2>1, PutSound
  <2>4. doc.draft = e.draft
    BY <2>1, PutSound
  <2>. QED BY <2>2, <2>3, <2>4
<1>. HIDE DEF doc
<1>5. \A f \in Fields : \A p \in Requests : doc.live[f] = p => d.live[f] = p \/ p = r
    BY <1>2, <1>4 DEF NoNewLive, v
<1>6. \A kind \in {"put", "identity"} : Derived(d, doc, r, kind, None)
    BY <1>2, <1>4, <1>5 DEF Derived
<1>. QED BY <1>6 DEF doc, e, v

LEMMA TemplateDerived ==
    ASSUME NEW d, Sound(d), NEW r \in Requests
    PROVE  LET ensured == Ensured(d, {"bot", "business"}, {})
               doc == [ensured EXCEPT !.live =
                        Filled(@, {"enabled", "greeting", "profile"}, "template")]
           IN  Derived(d, doc, r, "template", None)
<1>. DEFINE secs == {"bot", "business"}
            fields == {"enabled", "greeting", "profile"}
            e == Ensured(d, secs, {})
            doc == [e EXCEPT !.live = Filled(@, fields, "template")]
<1>1. /\ secs \in SUBSET Sections
      /\ Within({}, d.present \cup secs)
      /\ Within(fields, d.present \cup secs)
    BY Groups, WithinMore DEF Sections, Within
<1>2. "template" \in Values \ Requests
    BY SettingsAssumption DEF Values
<1>. HIDE DEF secs, fields
<1>3. /\ Sound(e) /\ NoNewLive(d, e)
      /\ e.draft = d.draft
      /\ e.present = d.present \cup secs
    BY <1>1, EnsuredSound
<1>. HIDE DEF e
<1>4. e \in Document
    BY <1>3 DEF Sound
<1>5. /\ doc \in Document /\ doc.present = e.present /\ doc.draft = e.draft
      /\ doc.live = Filled(e.live, fields, "template")
    BY <1>2, <1>4, FilledValues, SMT DEF Document
<1>. HIDE DEF doc
<1>6. Within(fields, e.present \cup {})
    BY <1>1, <1>3
<1>7. doc.present = e.present \cup {}
    BY <1>5
<1>8. Sound(doc) /\ NoNewLive(e, doc)
    BY <1>2, <1>3, <1>5, <1>6, <1>7, FillSound
<1>9. Derived(d, doc, r, "template", None)
    BY <1>3, <1>5, <1>8 DEF Derived, NoNewLive
<1>. QED BY <1>9 DEF doc, e, secs, fields

LEMMA SaveDerived ==
    ASSUME NEW d, Sound(d), NEW r \in Requests, NEW s \in Sections,
           NEW fields \in SUBSET FieldsOf[s]
    PROVE  Derived(d, SavedDraft(d, s, fields, r), r, "draft", s)
<1>. DEFINE secs == {s}
            e == Ensured(d, secs, {})
            x == [fields |-> fields, by |-> r]
            doc == [e EXCEPT !.draft[s] = x]
<1>1. secs \in SUBSET Sections /\ s \in secs /\ Within({}, d.present \cup secs)
    BY DEF Within
<1>. HIDE DEF secs
<1>0. {} \in SUBSET Fields
    OBVIOUS
<1>2. x \in Drafts /\ x.by = r /\ x.fields = fields
  <2>1. fields \subseteq Fields
    BY DEF Fields
  <2>. QED BY <2>1 DEF Drafts
<1>3. /\ Sound(e) /\ NoNewLive(d, e)
      /\ e.draft = d.draft
      /\ e.present = d.present \cup secs
    BY <1>0, <1>1, EnsuredSound
<1>. HIDE DEF e, x
<1>. s \in e.present
    BY <1>1, <1>3
<1>4. /\ Sound(doc) /\ doc.live = e.live
      /\ \A t \in Sections : doc.draft[t] = IF t = s THEN x ELSE e.draft[t]
    BY <1>2, <1>3, DraftSound
<1>. HIDE DEF doc
<1>5. Derived(d, doc, r, "draft", s)
    BY <1>2, <1>3, <1>4 DEF Derived, NoNewLive
<1>. QED BY <1>5 DEF doc, e, secs, x, SavedDraft

LEMMA PublishDerived ==
    ASSUME NEW d, Sound(d), NEW r \in Requests, NEW s \in Sections, d.draft[s] # None
    PROVE  LET doc == [Put(d, d.draft[s].fields, d.draft[s].by) EXCEPT !.draft[s] = None]
           IN  Derived(d, doc, r, "publish", s)
<1>. DEFINE x == d.draft[s]
            e == Put(d, x.fields, x.by)
            doc == [e EXCEPT !.draft[s] = None]
<1>1. /\ x \in Drafts /\ x.fields \subseteq FieldsOf[s] /\ s \in d.present
    BY DEF Sound, Document
<1>2. x.fields \in SUBSET Fields /\ x.by \in Values
    BY <1>1 DEF Drafts, Values
<1>3. Within(x.fields, d.present)
  <2>. SUFFICES ASSUME NEW t \in Sections \ d.present
                PROVE  FieldsOf[t] \cap FieldsOf[s] = {}
      BY <1>1 DEF Within
  <2>1. t # s
      BY <1>1
  <2>. QED BY <2>1, SMT DEF FieldsOf, Sections
<1>4. Named(d, x.by)
    BY DEF Named
<1>. HIDE DEF x
<1>5. /\ Sound(e)
      /\ \A f \in Fields : e.live[f] = IF f \in x.fields THEN x.by ELSE d.live[f]
      /\ e.draft = d.draft
    BY <1>2, <1>3, PutSound
<1>. HIDE DEF e
<1>6. /\ Sound(doc) /\ doc.live = e.live
      /\ \A t \in Sections : doc.draft[t] = IF t = s THEN None ELSE e.draft[t]
    BY <1>5, DraftSound
<1>. HIDE DEF doc
<1>7. Derived(d, doc, r, "publish", s)
    BY <1>1, <1>4, <1>5, <1>6 DEF Derived
<1>. QED BY <1>7 DEF doc, e, x

LEMMA DiscardDerived ==
    ASSUME NEW d, Sound(d), NEW r \in Requests, NEW s \in Sections
    PROVE  Derived(d, [d EXCEPT !.draft[s] = None], r, "discard", s)
<1>. DEFINE doc == [d EXCEPT !.draft[s] = None]
<1>1. /\ Sound(doc) /\ doc.live = d.live
      /\ \A t \in Sections : doc.draft[t] = IF t = s THEN None ELSE d.draft[t]
    BY DraftSound
<1>. HIDE DEF doc
<1>2. Derived(d, doc, r, "discard", s)
    BY <1>1 DEF Derived
<1>. QED BY <1>2 DEF doc

-----------------------------------------------------------------------------
(* The steps.                                                               *)

LEMMA LoadedSound ==
    ASSUME Inv
    PROVE  /\ Sound(Loaded)
           /\ \A p \in Requests : Named(Loaded, p) => row # None /\ Named(row, p)
           /\ \A f \in Fields : \A p \in Requests :
                Loaded.live[f] = p => row # None /\ row.live[f] = p
<1>1. CASE row = None
    BY <1>1, EmptySound DEF Loaded, Named
<1>2. CASE row # None
    BY <1>2 DEF Loaded, Inv
<1>. QED BY <1>1, <1>2

Kinds == {"put", "identity", "template", "draft", "publish", "discard", None}

\* A route leaves a document in memory and nothing else.
LEMMA BeginKeeps ==
    ASSUME Inv, NEW r \in Requests, NEW kind \in Kinds, NEW section \in Sections \cup {None},
           NEW doc, Derived(Loaded, doc, r, kind, section), NEW asked \in SUBSET Fields,
           NEW audited \in BOOLEAN, Begin(r, kind, section, doc, asked, audited),
           kind = "publish" => section \in Sections
    PROVE  Inv'
<1>. DEFINE q == [pc |-> "changed", kind |-> kind, section |-> section, loaded |-> row,
                  found |-> None, doc |-> doc, asked |-> asked, audited |-> audited]
<1>1. /\ req[r].pc = "idle" /\ Unseen(r)
      /\ req' = [req EXCEPT ![r] = q]
      /\ row' = row /\ audit' = audit
    BY DEF Inv, Begin, Committed
<1>2. q \in Request
    BY DEF Request, Kinds, Derived, Sound, Inv, TypeOK
<1>3. /\ q.pc \in Working /\ q.kind = kind /\ q.section = section /\ q.doc = doc
      /\ q.pc \notin Committed
    BY DEF Committed, Working
<1>. HIDE DEF q
<1>4. req \in [Requests -> Request]
    BY DEF Inv, TypeOK
<1>5. req'[r] = q /\ \A p \in Requests \ {r} : req'[p] = req[p]
    BY <1>1, <1>4
<1>6. TypeOK'
    BY <1>1, <1>2, <1>4 DEF Inv, TypeOK
<1>7. \A p \in Requests \ {r} : Unseen(p) => ~Named(doc, p)
    BY LoadedSound, SMT DEF Derived, Named, Unseen
<1>8. ASSUME NEW p \in Requests, req'[p].pc \notin Committed PROVE Unseen(p)'
  <2>1. CASE p = r
    BY <1>1, <1>5, <2>1 DEF Unseen
  <2>2. CASE p # r
    <3>1. Unseen(p) /\ ~Named(doc, p)
      BY <1>5, <1>7, <1>8, <2>2 DEF Inv
    <3>. QED BY <1>1, <1>3, <1>5, <2>2, <3>1 DEF Unseen
  <2>. QED BY <2>1, <2>2
<1>9. \A f \in Fields : Published(f) => Published(f)'
    BY <1>1, <1>5, SMT DEF Published, Committed
<1>10. Private'
  <2>. SUFFICES ASSUME NEW f \in Fields, NEW p \in Requests, req'[p].kind = "draft"
                PROVE  /\ row # None /\ row.live[f] = p => Published(f)'
                       /\ \A t \in Requests :
                            req'[t].pc \in Working /\ req'[t].doc.live[f] = p =>
                                \/ Published(f)'
                                \/ req'[t].kind = "publish" /\ f \in FieldsOf[req'[t].section]
      BY <1>1 DEF Private
  <2>1. row # None /\ row.live[f] = p => Published(f)
    <3>1. CASE p = r
      BY <1>1, <3>1 DEF Unseen, Named
    <3>2. CASE p # r
      BY <1>5, <3>2 DEF Inv, Private
    <3>. QED BY <3>1, <3>2
  <2>2. ASSUME NEW t \in Requests \ {r}, req[t].pc \in Working, req[t].doc.live[f] = p
        PROVE  Published(f) \/ (req[t].kind = "publish" /\ f \in FieldsOf[req[t].section])
    <3>1. CASE p = r
      BY <1>1, <2>2, <3>1 DEF Unseen, Named
    <3>2. CASE p # r
      BY <1>5, <2>2, <3>2 DEF Inv, Private
    <3>. QED BY <3>1, <3>2
  <2>3. doc.live[f] = p => Published(f) \/ (kind = "publish" /\ f \in FieldsOf[section])
    <3>1. doc.live[f] = p =>
            \/ Loaded.live[f] = p
            \/ kind \in {"put", "identity"} /\ p = r
            \/ kind = "publish" /\ f \in FieldsOf[section]
      BY DEF Derived
    <3>2. kind \in {"put", "identity"} => p # r
      BY <1>3, <1>5
    <3>. QED BY <2>1, <3>1, <3>2, LoadedSound
  <2>. QED BY <1>3, <1>5, <1>9, <2>1, <2>2, <2>3
<1>11. \A p \in Requests : req'[p].pc \in Working => Sound(req'[p].doc)
    BY <1>3, <1>5 DEF Inv, Derived
<1>. QED BY <1>1, <1>6, <1>8, <1>10, <1>11 DEF Inv

LEMMA UpdateKeeps ==
    ASSUME Inv, NEW r \in Requests, NEW secs \in SUBSET Sections, NEW defaults, NEW keys,
           NEW group \in SUBSET Fields, Within(group, secs),
           defaults \subseteq group, keys \subseteq group,
           Update(r, Ensured(Loaded, secs, defaults), keys)
    PROVE  Inv'
<1>1. PICK asked \in SUBSET keys :
        Begin(r, "put", None, Put(Ensured(Loaded, secs, defaults), asked, r), asked, TRUE)
    BY DEF Update
<1>2. /\ defaults \in SUBSET Fields /\ keys \in SUBSET Fields /\ asked \in SUBSET Fields
      /\ Within(defaults, secs) /\ Within(keys, secs)
    BY DEF Within
<1>. DEFINE doc == Put(Ensured(Loaded, secs, defaults), asked, r)
<1>3. Derived(Loaded, doc, r, "put", None)
    BY <1>2, LoadedSound, UpdateDerived
<1>. HIDE DEF doc
<1>4. Begin(r, "put", None, doc, asked, TRUE)
    BY <1>1 DEF doc
<1>. QED BY <1>2, <1>3, <1>4, BeginKeeps DEF Kinds

LEMMA RouteKeeps ==
    ASSUME Inv, NEW r \in Requests, Route(r)
    PROVE  Inv'
<1>1. /\ {"bot", "booking"} \in SUBSET Sections /\ {"bot", "business"} \in SUBSET Sections
      /\ {"data"} \in SUBSET Sections /\ {"features"} \in SUBSET Sections
      /\ {"booking"} \in SUBSET Sections
    BY DEF Sections
<1>2. /\ {"enabled", "closed_dates", "ranges"} \in SUBSET Fields
      /\ {"greeting", "profile"} \in SUBSET Fields
      /\ {"source"} \in SUBSET Fields /\ {"flags"} \in SUBSET Fields
      /\ {"identity"} \in SUBSET Fields
    BY DEF Fields, FieldsOf, Sections
<1>3. CASE UpdateOperations(r) \/ UpdateCalendarOverrides(r)
    BY <1>1, <1>2, <1>3, Groups, UpdateKeeps DEF UpdateOperations, UpdateCalendarOverrides, OpsConfig
<1>4. CASE UpdateTenantOperations(r)
    BY <1>1, <1>2, <1>4, Groups, UpdateKeeps DEF UpdateTenantOperations, SuperadminOpsConfig
<1>5. CASE UpdateConfig(r) \/ UpdateTenantConfig(r)
    BY <1>1, <1>2, <1>5, Groups, UpdateKeeps
    DEF UpdateConfig, UpdateTenantConfig, BotConfig, SuperadminBotConfig
<1>6. CASE UpdateDataSettings(r) \/ UpdateSuperadminDataSettings(r)
    BY <1>1, <1>2, <1>6, Groups, UpdateKeeps
    DEF UpdateDataSettings, UpdateSuperadminDataSettings, DataConfig
<1>7. CASE UpdateFeatures(r) \/ UpdateSuperadminFeatures(r)
    BY <1>1, <1>2, <1>7, Groups, UpdateKeeps
    DEF UpdateFeatures, UpdateSuperadminFeatures, FeatureConfig
<1>8. CASE UpdateIdentitySettings(r)
  <2>. DEFINE keys == {"identity"}
              secs == {"booking"}
              doc == Put(Ensured(Loaded, secs, {}), keys, r)
  <2>1. /\ keys \in SUBSET Fields /\ secs \in SUBSET Sections
        /\ Within(keys, secs) /\ Within({}, secs)
      BY <1>1, <1>2, Groups DEF Within
  <2>2. Begin(r, "identity", None, doc, keys, FALSE)
      BY <1>8 DEF UpdateIdentitySettings
  <2>. HIDE DEF keys, secs
  <2>3. Derived(Loaded, doc, r, "identity", None)
      BY <2>1, LoadedSound, UpdateDerived
  <2>. HIDE DEF doc
  <2>. QED BY <2>1, <2>2, <2>3, BeginKeeps DEF Kinds
<1>9. CASE ApplyTemplate(r)
  <2>. DEFINE ensured == Ensured(Loaded, {"bot", "business"}, {})
              doc == [ensured EXCEPT !.live =
                        Filled(@, {"enabled", "greeting", "profile"}, "template")]
  <2>1. Begin(r, "template", None, doc, {}, TRUE)
      BY <1>9 DEF ApplyTemplate
  <2>2. Derived(Loaded, doc, r, "template", None)
      BY LoadedSound, TemplateDerived
  <2>. HIDE DEF doc
  <2>. QED BY <2>1, <2>2, BeginKeeps DEF Kinds
<1>10. CASE SaveDraft(r)
  <2>1. PICK s \in DraftSections : \E fields \in SUBSET FieldsOf[s] \ {{}} :
          Begin(r, "draft", s, SavedDraft(Loaded, s, fields, r), {}, TRUE)
      BY <1>10 DEF SaveDraft
  <2>2. PICK keys \in SUBSET FieldsOf[s] :
          Begin(r, "draft", s, SavedDraft(Loaded, s, keys, r), {}, TRUE)
      BY <2>1
  <2>3. s \in Sections
      BY DEF DraftSections
  <2>. DEFINE doc == SavedDraft(Loaded, s, keys, r)
  <2>4. Derived(Loaded, doc, r, "draft", s)
      BY <2>3, LoadedSound, SaveDerived
  <2>. HIDE DEF doc
  <2>5. Begin(r, "draft", s, doc, {}, TRUE)
      BY <2>2 DEF doc
  <2>. QED BY <2>3, <2>4, <2>5, BeginKeeps DEF Kinds
<1>11. CASE PublishDraft(r)
  <2>1. PICK s \in DraftSections :
          /\ Loaded.draft[s] # None
          /\ Begin(r, "publish", s,
                   [Put(Loaded, Loaded.draft[s].fields, Loaded.draft[s].by) EXCEPT !.draft[s] = None],
                   Loaded.draft[s].fields, TRUE)
      BY <1>11 DEF PublishDraft
  <2>2. s \in Sections
      BY DEF DraftSections
  <2>. DEFINE asked == Loaded.draft[s].fields
              doc == [Put(Loaded, asked, Loaded.draft[s].by) EXCEPT !.draft[s] = None]
  <2>3. Derived(Loaded, doc, r, "publish", s)
      BY <2>1, <2>2, LoadedSound, PublishDerived
  <2>4. asked \in SUBSET Fields
      BY <2>1, <2>2, LoadedSound DEF Sound, Fields
  <2>. HIDE DEF doc
  <2>5. Begin(r, "publish", s, doc, asked, TRUE)
      BY <2>1 DEF doc
  <2>. HIDE DEF asked
  <2>. QED BY <2>2, <2>3, <2>4, <2>5, BeginKeeps DEF Kinds
<1>12. CASE DiscardDraft(r)
  <2>1. PICK s \in DraftSections :
          Begin(r, "discard", s, [Loaded EXCEPT !.draft[s] = None], {}, Loaded.draft[s] # None)
      BY <1>12 DEF DiscardDraft
  <2>2. s \in Sections
      BY DEF DraftSections
  <2>. DEFINE doc == [Loaded EXCEPT !.draft[s] = None]
              audited == Loaded.draft[s] # None
  <2>3. Derived(Loaded, doc, r, "discard", s)
      BY <2>2, LoadedSound, DiscardDerived
  <2>4. audited \in BOOLEAN
      OBVIOUS
  <2>. HIDE DEF doc, audited
  <2>5. Begin(r, "discard", s, doc, {}, audited)
      BY <2>1 DEF doc, audited
  <2>. QED BY <2>2, <2>3, <2>4, <2>5, BeginKeeps DEF Kinds
<1>. QED BY <1>3, <1>4, <1>5, <1>6, <1>7, <1>8, <1>9, <1>10, <1>11, <1>12 DEF Route

LEMMA AfterRequest ==
    ASSUME NEW q \in Request, NEW pc \in {"failed"} \cup Committed
    PROVE  /\ After(q, pc) \in Request
           /\ After(q, pc).pc = pc /\ After(q, pc).kind = q.kind
           /\ After(q, pc).section = q.section
<1>1. EmptyDoc \in Document
    BY EmptySound DEF Sound
<1>. DEFINE pcs == {"idle", "changed", "assigned", "failed"} \cup Committed
            secs == Sections \cup {None}
            docs == Document \cup {None}
            asks == SUBSET Fields
<1>2. /\ Request = [pc : pcs, kind : Kinds, section : secs, loaded : docs, found : docs,
                    doc : Document, asked : asks, audited : BOOLEAN]
      /\ pc \in pcs /\ None \in docs /\ {} \in asks
    BY DEF Request, Kinds
<1>. HIDE DEF pcs, secs, docs, asks
<1>3. After(q, pc) = [pc |-> pc, kind |-> q.kind, section |-> q.section, loaded |-> None,
                      found |-> None, doc |-> EmptyDoc, asked |-> {}, audited |-> q.audited]
  <2>1. q = [pc |-> q.pc, kind |-> q.kind, section |-> q.section, loaded |-> q.loaded,
             found |-> q.found, doc |-> q.doc, asked |-> q.asked, audited |-> q.audited]
    BY <1>2, SMT
  <2>2. After(q, pc) = [[[[[q EXCEPT !.pc = pc] EXCEPT !.loaded = None] EXCEPT !.found = None]
                            EXCEPT !.doc = EmptyDoc] EXCEPT !.asked = {}]
    BY SMT DEF After
  <2>. QED BY <2>1, <2>2
<1>. QED BY <1>1, <1>2, <1>3, SMT

\* A request that ends without a commit leaves the table and the audit log as they are.
LEMMA RefusedKeeps ==
    ASSUME Inv, NEW r \in Requests, req[r].pc \in Working, Refused(r)
    PROVE  Inv'
<1>. DEFINE q == After(req[r], "failed")
<1>1. /\ req \in [Requests -> Request]
      /\ req' = [req EXCEPT ![r] = q] /\ row' = row /\ audit' = audit
    BY DEF Inv, TypeOK, Refused
<1>2. q \in Request /\ q.pc = "failed" /\ q.kind = req[r].kind
    BY <1>1, AfterRequest
<1>3. req[r].pc \notin Committed /\ q.pc \notin Committed /\ q.pc \notin Working
    BY <1>2 DEF Committed, Working
<1>. HIDE DEF q
<1>4. req'[r] = q /\ \A p \in Requests \ {r} : req'[p] = req[p]
    BY <1>1
<1>5. TypeOK'
    BY <1>1, <1>2 DEF Inv, TypeOK
<1>6. \A p \in Requests : Unseen(p) => Unseen(p)'
    BY <1>1, <1>3, <1>4, SMT DEF Unseen
<1>7. \A p \in Requests : req'[p].pc \notin Committed => Unseen(p)'
    BY <1>3, <1>4, <1>6 DEF Inv
<1>8. \A f \in Fields : Published(f) => Published(f)'
    BY <1>3, <1>4, SMT DEF Published
<1>9. Private'
  <2>. SUFFICES ASSUME NEW f \in Fields, NEW p \in Requests, req'[p].kind = "draft"
                PROVE  /\ row # None /\ row.live[f] = p => Published(f)'
                       /\ \A t \in Requests :
                            req'[t].pc \in Working /\ req'[t].doc.live[f] = p =>
                                \/ Published(f)'
                                \/ req'[t].kind = "publish" /\ f \in FieldsOf[req'[t].section]
      BY <1>1 DEF Private
  <2>1. req[p].kind = "draft"
      BY <1>2, <1>4
  <2>. QED BY <1>3, <1>4, <1>8, <2>1 DEF Inv, Private
<1>10. \A p \in Requests : req'[p].pc \in Working => Sound(req'[p].doc)
    BY <1>3, <1>4 DEF Inv
<1>. QED BY <1>1, <1>5, <1>7, <1>9, <1>10 DEF Inv

\* The commit publishes the document in memory, or sends nothing.
LEMMA StoreKeeps ==
    ASSUME Inv, NEW r \in Requests, Store(r)
    PROVE  Inv'
<1>. DEFINE q == Ended(req[r])
<1>1. /\ req \in [Requests -> Request] /\ req[r].pc \in Working /\ Sound(req[r].doc)
      /\ req' = [req EXCEPT ![r] = q] /\ audit' = audit
      /\ row' = req[r].doc \/ row' = row
    BY DEF Inv, TypeOK, Store, Working
<1>2. /\ q \in Request /\ q.pc \in {"stored", "done"}
      /\ q.kind = req[r].kind /\ q.section = req[r].section
  <2>. DEFINE pc == IF req[r].audited THEN "stored" ELSE "done"
  <2>1. pc \in Committed /\ pc \in {"stored", "done"} /\ q = After(req[r], pc)
      BY DEF Ended, Committed
  <2>. HIDE DEF pc, q
  <2>. QED BY <1>1, <2>1, AfterRequest
<1>3. q.pc \in Committed /\ req[r].pc \notin Committed /\ q.pc \notin Working
    BY <1>1, <1>2 DEF Committed, Working
<1>. HIDE DEF q
<1>4. req'[r] = q /\ \A p \in Requests \ {r} : req'[p] = req[p]
    BY <1>1
<1>5. row' # None => Sound(row')
    BY <1>1 DEF Inv
<1>6. TypeOK'
    BY <1>1, <1>2, <1>5 DEF Inv, TypeOK, Sound
<1>7. ASSUME NEW p \in Requests, req'[p].pc \notin Committed PROVE Unseen(p)'
  <2>1. p # r /\ Unseen(p) /\ req'[p] = req[p]
      BY <1>3, <1>4, <1>7 DEF Inv
  <2>2. ~Named(req[r].doc, p)
      BY <1>1, <2>1 DEF Unseen
  <2>3. row' # None => ~Named(row', p)
      BY <1>1, <2>1, <2>2 DEF Unseen
  <2>4. \A t \in Requests \ {p} : req'[t].pc \in Working => ~Named(req'[t].doc, p)
      BY <1>3, <1>4, <2>1 DEF Unseen
  <2>. QED BY <1>1, <2>1, <2>3, <2>4 DEF Unseen
<1>8. \A f \in Fields : Published(f) => Published(f)'
    BY <1>2, <1>3, <1>4, SMT DEF Published
<1>9. ASSUME NEW f \in Fields, req[r].kind = "publish", f \in FieldsOf[req[r].section]
      PROVE  Published(f)'
    BY <1>2, <1>3, <1>4, <1>9 DEF Published
<1>10. Private'
  <2>. SUFFICES ASSUME NEW f \in Fields, NEW p \in Requests, req'[p].kind = "draft"
                PROVE  /\ row' # None /\ row'.live[f] = p => Published(f)'
                       /\ \A t \in Requests :
                            req'[t].pc \in Working /\ req'[t].doc.live[f] = p =>
                                \/ Published(f)'
                                \/ req'[t].kind = "publish" /\ f \in FieldsOf[req'[t].section]
      BY DEF Private
  <2>1. req[p].kind = "draft"
      BY <1>2, <1>4
  <2>2. req[r].doc.live[f] = p => Published(f)'
      BY <1>1, <1>8, <1>9, <2>1 DEF Inv, Private
  <2>3. row # None /\ row.live[f] = p => Published(f)'
      BY <1>8, <2>1 DEF Inv, Private
  <2>4. row' # None /\ row'.live[f] = p => Published(f)'
      BY <1>1, <2>2, <2>3
  <2>5. ASSUME NEW t \in Requests, req'[t].pc \in Working, req'[t].doc.live[f] = p
        PROVE  Published(f)' \/ (req'[t].kind = "publish" /\ f \in FieldsOf[req'[t].section])
      BY <1>3, <1>4, <1>8, <2>1, <2>5 DEF Inv, Private
  <2>. QED BY <2>4, <2>5
<1>11. \A p \in Requests : req'[p].pc \in Working => Sound(req'[p].doc)
    BY <1>3, <1>4 DEF Inv
<1>. QED BY <1>5, <1>6, <1>7, <1>10, <1>11 DEF Inv

\* The second read of upsert_settings changes nothing else.
LEMMA UpsertKeeps ==
    ASSUME Inv, NEW r \in Requests, Upsert(r)
    PROVE  Inv'
<1>. DEFINE found == IF Holds(req[r]) THEN req[r].loaded ELSE row
            q == [req[r] EXCEPT !.pc = "assigned", !.found = found]
<1>1. /\ req \in [Requests -> Request] /\ req[r].pc = "changed"
      /\ req' = [req EXCEPT ![r] = q] /\ row' = row /\ audit' = audit
    BY DEF Inv, TypeOK, Upsert
<1>2. req[r] \in Request /\ found \in Document \cup {None}
    BY <1>1 DEF Inv, TypeOK, Request
<1>. HIDE DEF found
<1>3. /\ q \in Request /\ q.pc = "assigned" /\ q.doc = req[r].doc
      /\ q.kind = req[r].kind /\ q.section = req[r].section
    BY <1>2, ZenonT(30) DEF Request
<1>. HIDE DEF q
<1>4. /\ req[r].pc \in Working /\ q.pc \in Working
      /\ req[r].pc \notin Committed /\ q.pc \notin Committed
    BY <1>1, <1>3 DEF Working, Committed
<1>5. req'[r] = q /\ \A p \in Requests \ {r} : req'[p] = req[p]
    BY <1>1
<1>6. TypeOK'
    BY <1>1, <1>3 DEF Inv, TypeOK
<1>7. \A p \in Requests : Unseen(p) => Unseen(p)'
    BY <1>1, <1>3, <1>4, <1>5, SMT DEF Unseen
<1>8. \A p \in Requests : req'[p].pc \notin Committed => Unseen(p)'
    BY <1>4, <1>5, <1>7 DEF Inv
<1>9. \A f \in Fields : Published(f) => Published(f)'
    BY <1>4, <1>5, SMT DEF Published
<1>10. Private'
  <2>. SUFFICES ASSUME NEW f \in Fields, NEW p \in Requests, req'[p].kind = "draft"
                PROVE  /\ row # None /\ row.live[f] = p => Published(f)'
                       /\ \A t \in Requests :
                            req'[t].pc \in Working /\ req'[t].doc.live[f] = p =>
                                \/ Published(f)'
                                \/ req'[t].kind = "publish" /\ f \in FieldsOf[req'[t].section]
      BY <1>1 DEF Private
  <2>1. req[p].kind = "draft"
      BY <1>3, <1>5
  <2>. QED BY <1>3, <1>4, <1>5, <1>9, <2>1 DEF Inv, Private
<1>11. \A p \in Requests : req'[p].pc \in Working => Sound(req'[p].doc)
    BY <1>3, <1>4, <1>5 DEF Inv
<1>. QED BY <1>1, <1>6, <1>8, <1>10, <1>11 DEF Inv

\* After its commit a request changes nothing but its own progress and the audit log.
LEMMA FinishKeeps ==
    ASSUME Inv, NEW r \in Requests, req[r].pc = "stored", NEW pc \in {"done", "crashed"},
           req' = [req EXCEPT ![r].pc = pc], row' = row, audit' \in {audit, audit \cup {r}}
    PROVE  Inv'
<1>. DEFINE q == [req[r] EXCEPT !.pc = pc]
<1>1. req \in [Requests -> Request] /\ req' = [req EXCEPT ![r] = q]
    BY DEF Inv, TypeOK
<1>2. /\ q \in Request /\ q.pc = pc /\ q.kind = req[r].kind /\ q.section = req[r].section
    BY <1>1, SMT DEF Request, Committed
<1>3. q.pc \in Committed /\ req[r].pc \in Committed /\ q.pc \notin Working
    BY <1>2 DEF Committed, Working
<1>. HIDE DEF q
<1>4. req'[r] = q /\ \A p \in Requests \ {r} : req'[p] = req[p]
    BY <1>1
<1>5. TypeOK'
    BY <1>1, <1>2 DEF Inv, TypeOK
<1>6. ASSUME NEW p \in Requests, req'[p].pc \notin Committed PROVE Unseen(p)'
  <2>1. p # r /\ Unseen(p)
      BY <1>3, <1>4, <1>6 DEF Inv
  <2>. QED BY <1>3, <1>4, <2>1 DEF Unseen
<1>7. \A f \in Fields : Published(f) => Published(f)'
    BY <1>2, <1>3, <1>4, SMT DEF Published
<1>8. Private'
  <2>. SUFFICES ASSUME NEW f \in Fields, NEW p \in Requests, req'[p].kind = "draft"
                PROVE  /\ row # None /\ row.live[f] = p => Published(f)'
                       /\ \A t \in Requests :
                            req'[t].pc \in Working /\ req'[t].doc.live[f] = p =>
                                \/ Published(f)'
                                \/ req'[t].kind = "publish" /\ f \in FieldsOf[req'[t].section]
      BY DEF Private
  <2>1. req[p].kind = "draft"
      BY <1>2, <1>4
  <2>2. row # None /\ row.live[f] = p => Published(f)'
      BY <1>7, <2>1 DEF Inv, Private
  <2>3. ASSUME NEW t \in Requests, req'[t].pc \in Working, req'[t].doc.live[f] = p
        PROVE  Published(f)' \/ (req'[t].kind = "publish" /\ f \in FieldsOf[req'[t].section])
    <3>1. req'[t] = req[t]
        BY <1>3, <1>4, <2>3
    <3>. QED BY <1>7, <2>1, <2>3, <3>1 DEF Inv, Private
  <2>. QED BY <1>3, <2>2, <2>3
<1>9. \A p \in Requests : req'[p].pc \in Working => Sound(req'[p].doc)
    BY <1>3, <1>4 DEF Inv
<1>. QED BY <1>5, <1>6, <1>8, <1>9 DEF Inv

-----------------------------------------------------------------------------
LEMMA InitialDocSound ==
    ASSUME NEW i \in InitialRows
    PROVE  Sound(InitialDoc(i)) /\ \A p \in Requests : ~Named(InitialDoc(i), p)
<1>. DEFINE d == InitialDoc(i)
<1>1. i.present \subseteq Sections
    BY SettingsAssumption
<1>2. /\ d.present = i.present
      /\ \A f \in Fields : d.live[f] \in {"initial", "unset"}
      /\ \A f \in Fields :
            (~ \E s \in i.present : f \in FieldsOf[s]) => d.live[f] = "unset"
      /\ \A s \in Sections :
            d.draft[s] \in {None, [fields |-> FieldsOf[s], by |-> "initial"]}
      /\ \A s \in Sections \ i.present : d.draft[s] = None
    BY SMT DEF InitialDoc
<1>3. \A s \in Sections : FieldsOf[s] \subseteq Fields
    BY DEF Fields
<1>4. d \in Document
  <2>1. /\ d.live \in [Fields -> Values]
        /\ d.draft \in [Sections -> Drafts \cup {None}]
      BY <1>2, <1>3 DEF InitialDoc, Values, Drafts
  <2>. QED BY <1>1, <2>1 DEF InitialDoc, Document
<1>5. "initial" \notin Requests /\ "unset" \notin Requests
    BY SettingsAssumption
<1>6. \A s, t \in Sections : \A f \in FieldsOf[s] : f \in FieldsOf[t] => s = t
    BY SMT DEF FieldsOf, Sections
<1>. HIDE DEF d
<1>7. Sound(d)
    BY <1>1, <1>2, <1>3, <1>4, <1>6, SMT DEF Sound
<1>8. \A p \in Requests : ~Named(d, p)
    BY <1>2, <1>5, SMT DEF Named
<1>. QED BY <1>7, <1>8 DEF d

LEMMA InitInv == Init => Inv
<1>. SUFFICES ASSUME Init PROVE Inv
    OBVIOUS
<1>1. /\ Fresh \in Request /\ Fresh.pc = "idle" /\ Fresh.kind = None
      /\ Fresh.pc \notin Committed /\ Fresh.pc \notin Working
    BY EmptySound DEF Fresh, Request, Committed, Working, Sound
<1>2. row # None => Sound(row) /\ \A p \in Requests : ~Named(row, p)
    BY InitialDocSound DEF Init
<1>3. /\ req = [r \in Requests |-> Fresh]
      /\ \A r \in Requests : req[r] = Fresh
      /\ audit = {}
    BY DEF Init
<1>4. TypeOK
    BY <1>1, <1>2, <1>3 DEF TypeOK, Sound
<1>5. \A r \in Requests : Unseen(r)
    BY <1>1, <1>2, <1>3 DEF Unseen
<1>6. Private
    BY <1>1, <1>2, <1>3 DEF Private, Named
<1>. QED BY <1>1, <1>2, <1>3, <1>4, <1>5, <1>6 DEF Inv

LEMMA NextInv == Inv /\ [Next]_vars => Inv'
<1>. SUFFICES ASSUME Inv, [Next]_vars PROVE Inv'
    OBVIOUS
<1>1. ASSUME NEW r \in Requests, Route(r) PROVE Inv'
    BY <1>1, RouteKeeps
<1>2. ASSUME NEW r \in Requests, Proceed(r) PROVE Inv'
  <2>0. CASE Upsert(r)
      BY <2>0, UpsertKeeps
  <2>1. CASE Conflict(r)
      BY <2>1, RefusedKeeps DEF Conflict, Working
  <2>2. CASE Store(r)
      BY <2>2, StoreKeeps
  <2>3. CASE WriteAudit(r)
      BY <2>3, FinishKeeps DEF WriteAudit
  <2>. QED BY <1>2, <2>0, <2>1, <2>2, <2>3 DEF Proceed
<1>3. ASSUME NEW r \in Requests, Crash(r) PROVE Inv'
    BY <1>3, RefusedKeeps, FinishKeeps DEF Crash
<1>4. CASE UNCHANGED vars
    BY <1>4 DEF vars, Inv, TypeOK, Unseen, Private, Published
<1>. QED BY <1>1, <1>2, <1>3, <1>4 DEF Next, Terminated

LEMMA InvAlways == Spec => []Inv
<1>. QED BY InitInv, NextInv, PTL DEF Spec

\* The committed document is a document, and only the sections present have keys or drafts.
THEOREM TypesAlways == Spec => []TypeOK
<1>1. Inv => TypeOK
    BY DEF Inv
<1>. QED BY <1>1, InvAlways, PTL

\* What a refused, crashed or not yet committed request asked for is nowhere in the settings.
THEOREM NothingLeft == Spec => []RefusedLeavesNothing
<1>1. Inv => RefusedLeavesNothing
    BY DEF Inv, RefusedLeavesNothing, Unseen, Named, Committed
<1>. QED BY <1>1, InvAlways, PTL

\* Drafts stay private until they are published, whoever overtakes whom.
THEOREM DraftsPrivate == Spec => []DraftStaysPrivate
<1>1. Inv => DraftStaysPrivate
    BY DEF Inv, DraftStaysPrivate, Private, Published
<1>. QED BY <1>1, InvAlways, PTL

-----------------------------------------------------------------------------
(* What a route leaves alone.                                               *)

\* The document doc has all that d has, but for the fields asked for and the draft of section.
Keeps(d, doc, asked, section) ==
    /\ d.present \subseteq doc.present
    /\ \A f \in Fields \ asked : d.live[f] # "unset" => doc.live[f] = d.live[f]
    /\ \A s \in Sections \ {section} : doc.draft[s] = d.draft[s]

\* Every request in progress will write what it loaded, and its own change.
Loyal ==
    \A r \in Requests : req[r].pc \in Working =>
        Keeps(Seen(req[r]), req[r].doc, req[r].asked, req[r].section)

LEMMA FilledKeeps ==
    ASSUME NEW live, NEW fields, NEW value, NEW f \in Fields, live[f] # "unset"
    PROVE  Filled(live, fields, value)[f] = live[f]
BY DEF Filled

LEMMA UpdateLoyal ==
    ASSUME NEW d, NEW r, NEW secs, NEW defaults, NEW asked
    PROVE  Keeps(d, Put(Ensured(d, secs, defaults), asked, r), asked, None)
<1>. DEFINE live == Filled(d.live, defaults, "default")
            doc == Put(Ensured(d, secs, defaults), asked, r)
<1>1. doc = [present |-> d.present \cup secs,
             live |-> [f \in Fields |-> IF f \in asked THEN r ELSE live[f]],
             draft |-> d.draft]
    BY DEF Put, Ensured
<1>2. \A f \in Fields : d.live[f] # "unset" => live[f] = d.live[f]
    BY FilledKeeps
<1>. HIDE DEF live, doc
<1>3. Keeps(d, doc, asked, None)
    BY <1>1, <1>2 DEF Keeps
<1>. QED BY <1>3 DEF doc

\* "Only adds what's missing."
LEMMA TemplateLoyal ==
    ASSUME NEW d
    PROVE  Keeps(d, [Ensured(d, {"bot", "business"}, {}) EXCEPT !.live =
                        Filled(@, {"enabled", "greeting", "profile"}, "template")], {}, None)
<1>. DEFINE e == Ensured(d, {"bot", "business"}, {})
            live == Filled(e.live, {"enabled", "greeting", "profile"}, "template")
            doc == [e EXCEPT !.live = live]
<1>1. e = [present |-> d.present \cup {"bot", "business"},
           live |-> Filled(d.live, {}, "default"), draft |-> d.draft]
    BY DEF Ensured
<1>2. \A f \in Fields : d.live[f] # "unset" => e.live[f] = d.live[f]
    BY <1>1, FilledKeeps
<1>3. \A f \in Fields : d.live[f] # "unset" => live[f] = d.live[f]
    BY <1>2, FilledKeeps
<1>4. doc.present = e.present /\ doc.live = live /\ doc.draft = e.draft
    BY <1>1
<1>. HIDE DEF live, doc
<1>5. Keeps(d, doc, {}, None)
    BY <1>1, <1>3, <1>4 DEF Keeps
<1>. QED BY <1>5 DEF doc, live

LEMMA SaveLoyal ==
    ASSUME NEW d, NEW r, NEW s \in Sections, NEW fields, d.draft \in [Sections -> Drafts \cup {None}]
    PROVE  Keeps(d, SavedDraft(d, s, fields, r), {}, s)
<1>. DEFINE e == Ensured(d, {s}, {})
            x == [fields |-> fields, by |-> r]
            doc == [e EXCEPT !.draft[s] = x]
<1>1. e = [present |-> d.present \cup {s}, live |-> Filled(d.live, {}, "default"),
           draft |-> d.draft]
    BY DEF Ensured
<1>2. \A f \in Fields : d.live[f] # "unset" => e.live[f] = d.live[f]
    BY <1>1, FilledKeeps
<1>. HIDE DEF x
<1>3. /\ doc.present = e.present /\ doc.live = e.live
      /\ \A t \in Sections \ {s} : doc.draft[t] = d.draft[t]
    BY <1>1
<1>. HIDE DEF doc
<1>4. Keeps(d, doc, {}, s)
    BY <1>1, <1>2, <1>3 DEF Keeps
<1>. QED BY <1>4 DEF doc, x, SavedDraft

LEMMA PublishLoyal ==
    ASSUME NEW d \in Document, NEW s \in Sections, NEW fields, NEW v
    PROVE  Keeps(d, [Put(d, fields, v) EXCEPT !.draft[s] = None], fields, s)
<1>. DEFINE e == Put(d, fields, v)
            doc == [e EXCEPT !.draft[s] = None]
<1>1. e = [present |-> d.present, draft |-> d.draft,
           live |-> [f \in Fields |-> IF f \in fields THEN v ELSE d.live[f]]]
    BY DEF Put, Document
<1>2. d.draft \in [Sections -> Drafts \cup {None}]
    BY DEF Document
<1>3. /\ doc.present = e.present /\ doc.live = e.live
      /\ \A t \in Sections \ {s} : doc.draft[t] = d.draft[t]
    BY <1>1, <1>2
<1>. HIDE DEF doc
<1>4. Keeps(d, doc, fields, s)
    BY <1>1, <1>3 DEF Keeps
<1>. QED BY <1>4 DEF doc

LEMMA DiscardLoyal ==
    ASSUME NEW d \in Document, NEW s \in Sections
    PROVE  Keeps(d, [d EXCEPT !.draft[s] = None], {}, s)
BY DEF Keeps, Document

LEMMA BeginLoyal ==
    ASSUME Inv, Loyal, NEW r \in Requests, NEW kind, NEW section, NEW doc, NEW asked,
           NEW audited, Begin(r, kind, section, doc, asked, audited),
           Keeps(Loaded, doc, asked, section)
    PROVE  Loyal'
<1>. DEFINE q == [pc |-> "changed", kind |-> kind, section |-> section, loaded |-> row,
                  found |-> None, doc |-> doc, asked |-> asked, audited |-> audited]
<1>1. req' = [req EXCEPT ![r] = q] /\ req \in [Requests -> Request]
    BY DEF Begin, Inv, TypeOK
<1>2. Seen(q) = Loaded /\ q.doc = doc /\ q.asked = asked /\ q.section = section
    BY DEF Seen, Loaded
<1>. HIDE DEF q
<1>3. \A p \in Requests : req'[p] = IF p = r THEN q ELSE req[p]
    BY <1>1
<1>4. SUFFICES ASSUME NEW p \in Requests, req'[p].pc \in Working
               PROVE  Keeps(Seen(req'[p]), req'[p].doc, req'[p].asked, req'[p].section)
    BY DEF Loyal, Keeps, Seen
<1>5. CASE p = r
    BY <1>2, <1>3, <1>5
<1>6. CASE p # r
    BY <1>3, <1>4, <1>6 DEF Loyal
<1>. QED BY <1>5, <1>6

LEMMA RouteLoyal ==
    ASSUME Inv, Loyal, NEW r \in Requests, Route(r)
    PROVE  Loyal'
<1>1. Loaded \in Document /\ Loaded.draft \in [Sections -> Drafts \cup {None}]
    BY LoadedSound DEF Sound, Document
<1>2. ASSUME NEW secs, NEW defaults, NEW keys, Update(r, Ensured(Loaded, secs, defaults), keys)
      PROVE  Loyal'
    BY <1>2, UpdateLoyal, BeginLoyal DEF Update
<1>3. CASE UpdateIdentitySettings(r)
    BY <1>3, UpdateLoyal, BeginLoyal DEF UpdateIdentitySettings
<1>4. CASE ApplyTemplate(r)
    BY <1>4, TemplateLoyal, BeginLoyal DEF ApplyTemplate
<1>5. CASE SaveDraft(r)
  <2>1. PICK s \in DraftSections : \E fields \in SUBSET FieldsOf[s] \ {{}} :
          Begin(r, "draft", s, SavedDraft(Loaded, s, fields, r), {}, TRUE)
      BY <1>5 DEF SaveDraft
  <2>2. PICK fields \in SUBSET FieldsOf[s] \ {{}} :
          Begin(r, "draft", s, SavedDraft(Loaded, s, fields, r), {}, TRUE)
      BY <2>1
  <2>. QED BY <1>1, <2>2, SaveLoyal, BeginLoyal DEF DraftSections
<1>6. CASE PublishDraft(r)
  <2>1. PICK s \in Sections :
          Begin(r, "publish", s,
                [Put(Loaded, Loaded.draft[s].fields, Loaded.draft[s].by) EXCEPT !.draft[s] = None],
                Loaded.draft[s].fields, TRUE)
      BY <1>6 DEF PublishDraft, DraftSections
  <2>. DEFINE fields == Loaded.draft[s].fields
              doc == [Put(Loaded, fields, Loaded.draft[s].by) EXCEPT !.draft[s] = None]
  <2>2. Keeps(Loaded, doc, fields, s)
      BY <1>1, PublishLoyal
  <2>. HIDE DEF doc, fields
  <2>3. Begin(r, "publish", s, doc, fields, TRUE)
      BY <2>1 DEF doc, fields
  <2>. QED BY <2>2, <2>3, BeginLoyal
<1>7. CASE DiscardDraft(r)
  <2>1. PICK s \in Sections :
          Begin(r, "discard", s, [Loaded EXCEPT !.draft[s] = None], {}, Loaded.draft[s] # None)
      BY <1>7 DEF DiscardDraft, DraftSections
  <2>. QED BY <1>1, <2>1, DiscardLoyal, BeginLoyal
<1>. QED BY <1>2, <1>3, <1>4, <1>5, <1>6, <1>7
    DEF Route, UpdateOperations, UpdateCalendarOverrides, UpdateTenantOperations, UpdateConfig,
        UpdateTenantConfig, UpdateDataSettings, UpdateSuperadminDataSettings, UpdateFeatures,
        UpdateSuperadminFeatures, OpsConfig, SuperadminOpsConfig, BotConfig,
        SuperadminBotConfig, DataConfig, FeatureConfig

\* The other steps leave the documents in memory alone, or end the request.
LEMMA OthersLeave ==
    ASSUME Inv, NEW r \in Requests, Proceed(r) \/ Crash(r), NEW p \in Requests,
           req'[p].pc \in Working
    PROVE  /\ req[p].pc \in Working
           /\ req'[p].kind = req[p].kind /\ req'[p].section = req[p].section
           /\ req'[p].loaded = req[p].loaded
           /\ req'[p].doc = req[p].doc /\ req'[p].asked = req[p].asked
           /\ req'[p].found \in {req[p].found, req[p].loaded, row}
<1>1. req[r] \in Request /\ req \in [Requests -> Request]
    BY DEF Inv, TypeOK
<1>2. CASE Upsert(r)
  <2>. DEFINE found == IF Holds(req[r]) THEN req[r].loaded ELSE row
              q == [req[r] EXCEPT !.pc = "assigned", !.found = found]
  <2>1. req' = [req EXCEPT ![r] = q] /\ req[r].pc \in Working /\ found \in {req[r].loaded, row}
      BY <1>2 DEF Upsert, Working
  <2>. HIDE DEF found
  <2>2. /\ q.kind = req[r].kind /\ q.section = req[r].section /\ q.loaded = req[r].loaded
        /\ q.doc = req[r].doc /\ q.asked = req[r].asked /\ q.found = found
      BY <1>1, SMT DEF Request
  <2>. HIDE DEF q
  <2>3. CASE p = r
      BY <1>1, <2>1, <2>2, <2>3
  <2>4. CASE p # r
      BY <1>1, <2>1, <2>4
  <2>. QED BY <2>3, <2>4
<1>3. CASE ~Upsert(r)
  <2>1. \A pc \in {"failed", "stored", "done"} : After(req[r], pc).pc \notin Working
      BY <1>1, AfterRequest DEF Committed, Working
  <2>2. Ended(req[r]).pc \notin Working
      BY <2>1 DEF Ended
  <2>3. \A pc \in {"done", "crashed"} : [req[r] EXCEPT !.pc = pc].pc \notin Working
      BY <1>1 DEF Request, Working
  <2>4. \/ req' = [req EXCEPT ![r] = After(req[r], "failed")]
        \/ req' = [req EXCEPT ![r] = Ended(req[r])]
        \/ \E pc \in {"done", "crashed"} : req' = [req EXCEPT ![r] = [req[r] EXCEPT !.pc = pc]]
      BY <1>1, <1>3 DEF Proceed, Conflict, Store, WriteAudit, Crash, Refused
  <2>5. \E q : req' = [req EXCEPT ![r] = q] /\ q.pc \notin Working
      BY <2>1, <2>2, <2>3, <2>4
  <2>6. req'[p] = req[p]
      BY <1>1, <2>5
  <2>. QED BY <2>6
<1>. QED BY <1>2, <1>3

LEMMA NextLoyal ==
    ASSUME Inv, Loyal, [Next]_vars
    PROVE  Loyal'
<1>1. ASSUME NEW r \in Requests, Proceed(r) \/ Crash(r)
      PROVE  Loyal'
  <2>. SUFFICES ASSUME NEW p \in Requests, req'[p].pc \in Working
                PROVE  Keeps(Seen(req'[p]), req'[p].doc, req'[p].asked, req'[p].section)
      BY DEF Loyal, Keeps, Seen
  <2>1. /\ req[p].pc \in Working /\ Seen(req'[p]) = Seen(req[p])
        /\ req'[p].doc = req[p].doc /\ req'[p].asked = req[p].asked
        /\ req'[p].section = req[p].section
      BY <1>1, OthersLeave DEF Seen
  <2>. QED BY <2>1 DEF Loyal
<1>2. CASE UNCHANGED vars
    BY <1>2 DEF vars, Loyal, Keeps, Seen
<1>. QED BY <1>1, <1>2, RouteLoyal DEF Next, Terminated

\* The request that commits is the one that stores, and what it stores is its own document.
LEMMA CommitStores ==
    ASSUME Inv, Next, NEW r \in Requests, req[r].pc \in Working, req'[r].pc \in Committed
    PROVE  Store(r)
<1>1. PICK p \in Requests : Route(p) \/ Proceed(p) \/ Crash(p)
    BY DEF Next, Terminated, vars, Committed, Working
<1>2. req \in [Requests -> Request]
    BY DEF Inv, TypeOK
<1>3. req[r].pc \notin Committed /\ req[r].pc \notin {"idle", "stored"}
    BY DEF Committed, Working
<1>4. ASSUME NEW q, req' = [req EXCEPT ![p] = q], q.pc \notin Committed
      PROVE  FALSE
  <2>1. CASE p = r
      BY <1>2, <1>4, <2>1
  <2>2. CASE p # r
      BY <1>2, <1>3, <1>4, <2>2
  <2>. QED BY <2>1, <2>2
<1>5. CASE Route(p)
  <2>1. \E kind, section, doc, asked, audited : Begin(p, kind, section, doc, asked, audited)
      BY <1>5 DEF Route, UpdateOperations, UpdateCalendarOverrides, UpdateTenantOperations,
         UpdateConfig, UpdateTenantConfig, UpdateDataSettings, UpdateSuperadminDataSettings,
         UpdateFeatures, UpdateSuperadminFeatures, UpdateIdentitySettings, ApplyTemplate,
         SaveDraft, PublishDraft, DiscardDraft, Update
  <2>2. PICK kind, section, doc, asked, audited : Begin(p, kind, section, doc, asked, audited)
      BY <2>1
  <2>. DEFINE q == [pc |-> "changed", kind |-> kind, section |-> section, loaded |-> row,
                    found |-> None, doc |-> doc, asked |-> asked, audited |-> audited]
  <2>3. req' = [req EXCEPT ![p] = q] /\ q.pc \notin Committed
      BY <2>2 DEF Begin, Committed
  <2>. HIDE DEF q
  <2>. QED BY <1>4, <2>3
<1>6. CASE Conflict(p) \/ (Crash(p) /\ req[p].pc \in Working)
  <2>1. req' = [req EXCEPT ![p] = After(req[p], "failed")]
      BY <1>6 DEF Conflict, Crash, Refused, Working
  <2>2. After(req[p], "failed").pc \notin Committed
      BY <1>2, AfterRequest DEF Committed
  <2>. QED BY <1>4, <2>1, <2>2
<1>7. CASE Upsert(p)
  <2>. DEFINE q == [req[p] EXCEPT !.pc = "assigned",
                        !.found = IF Holds(req[p]) THEN req[p].loaded ELSE row]
  <2>1. req' = [req EXCEPT ![p] = q]
      BY <1>7 DEF Upsert
  <2>2. q.pc \notin Committed
      BY <1>2 DEF Request, Committed
  <2>. HIDE DEF q
  <2>. QED BY <1>4, <2>1, <2>2
<1>8. CASE WriteAudit(p) \/ (Crash(p) /\ req[p].pc \notin Working)
  <2>1. p # r
      BY <1>3, <1>8 DEF WriteAudit, Crash
  <2>2. \E q : req' = [req EXCEPT ![p] = q]
      BY <1>8 DEF WriteAudit, Crash
  <2>. QED BY <1>2, <1>3, <2>1, <2>2
<1>9. CASE Store(p)
  <2>1. p # r => req'[r] = req[r]
      BY <1>2, <1>9 DEF Store
  <2>. QED BY <1>3, <1>9, <2>1
<1>. QED BY <1>1, <1>5, <1>6, <1>7, <1>8, <1>9 DEF Proceed

-----------------------------------------------------------------------------
(* What a route was asked is in the document it writes.                     *)

Asks(q, r) ==
    /\ q.kind = "put" => \A f \in q.asked : q.doc.live[f] = r
    /\ q.kind = "draft" =>
        /\ q.section \in Sections
        /\ q.doc.draft[q.section] # None /\ q.doc.draft[q.section].by = r

\* The document in memory has what was asked, and neither read has found it in the table.
Pending ==
    \A r \in Requests : req[r].pc \in Working =>
        /\ Asks(req[r], r)
        /\ req[r].loaded # None => ~Named(req[r].loaded, r)
        /\ req[r].found # None => ~Named(req[r].found, r)

LEMMA BeginPending ==
    ASSUME Inv, Pending, NEW r \in Requests, NEW kind, NEW section, NEW doc, NEW asked,
           NEW audited, Begin(r, kind, section, doc, asked, audited),
           kind = "put" => \A f \in asked : doc.live[f] = r,
           kind = "draft" =>
                section \in Sections /\ doc.draft[section] # None /\ doc.draft[section].by = r
    PROVE  Pending'
<1>. DEFINE q == [pc |-> "changed", kind |-> kind, section |-> section, loaded |-> row,
                  found |-> None, doc |-> doc, asked |-> asked, audited |-> audited]
<1>1. /\ req' = [req EXCEPT ![r] = q] /\ req \in [Requests -> Request]
      /\ req[r].pc \notin Committed
    BY DEF Begin, Inv, TypeOK, Committed
<1>2. row # None => ~Named(row, r)
    BY <1>1 DEF Inv, Unseen
<1>3. Asks(q, r) /\ q.loaded = row /\ q.found = None
    BY DEF Asks
<1>. HIDE DEF q
<1>4. \A p \in Requests : req'[p] = IF p = r THEN q ELSE req[p]
    BY <1>1
<1>. SUFFICES ASSUME NEW p \in Requests, req'[p].pc \in Working
              PROVE  /\ Asks(req'[p], p)
                     /\ req'[p].loaded # None => ~Named(req'[p].loaded, p)
                     /\ req'[p].found # None => ~Named(req'[p].found, p)
    BY DEF Pending, Asks, Named
<1>5. CASE p = r
    BY <1>2, <1>3, <1>4, <1>5
<1>6. CASE p # r
    BY <1>4, <1>6 DEF Pending
<1>. QED BY <1>5, <1>6

LEMMA RoutePending ==
    ASSUME Inv, Pending, NEW r \in Requests, Route(r)
    PROVE  Pending'
<1>1. Loaded.draft \in [Sections -> Drafts \cup {None}]
    BY LoadedSound DEF Sound, Document
<1>2. ASSUME NEW d, NEW keys \in SUBSET Fields, Update(r, d, keys)
      PROVE  Pending'
  <2>1. PICK asked \in SUBSET keys : Begin(r, "put", None, Put(d, asked, r), asked, TRUE)
      BY <1>2 DEF Update
  <2>. DEFINE doc == Put(d, asked, r)
  <2>2. \A f \in asked : doc.live[f] = r
      BY DEF Put
  <2>3. Begin(r, "put", None, doc, asked, TRUE)
      BY <2>1
  <2>. HIDE DEF doc
  <2>. QED BY <2>2, <2>3, BeginPending
<1>3. CASE SaveDraft(r)
  <2>1. PICK s \in DraftSections : \E fields \in SUBSET FieldsOf[s] \ {{}} :
          Begin(r, "draft", s, SavedDraft(Loaded, s, fields, r), {}, TRUE)
      BY <1>3 DEF SaveDraft
  <2>2. PICK fields \in SUBSET FieldsOf[s] :
          Begin(r, "draft", s, SavedDraft(Loaded, s, fields, r), {}, TRUE)
      BY <2>1
  <2>3. s \in Sections
      BY DEF DraftSections
  <2>. DEFINE doc == SavedDraft(Loaded, s, fields, r)
  <2>4. doc.draft[s] = [fields |-> fields, by |-> r]
      BY <1>1, <2>3 DEF SavedDraft, Ensured
  <2>5. fields \in SUBSET Fields
      BY <2>3 DEF Fields
  <2>6. doc.draft[s] # None /\ doc.draft[s].by = r
      BY <2>4, <2>5, SettingsAssumption DEF Drafts
  <2>7. Begin(r, "draft", s, doc, {}, TRUE)
      BY <2>2
  <2>. HIDE DEF doc
  <2>. QED BY <2>3, <2>6, <2>7, BeginPending
<1>4. ASSUME NEW kind \in Kinds \ {"put", "draft"}, NEW section, NEW doc, NEW asked, NEW audited,
             Begin(r, kind, section, doc, asked, audited)
      PROVE  Pending'
    BY <1>4, BeginPending
<1>5. /\ {"enabled", "closed_dates", "ranges"} \in SUBSET Fields
      /\ {"greeting", "profile"} \in SUBSET Fields
      /\ {"source"} \in SUBSET Fields /\ {"flags"} \in SUBSET Fields
    BY DEF Fields, FieldsOf, Sections
<1>6. CASE \/ UpdateOperations(r) \/ UpdateCalendarOverrides(r) \/ UpdateTenantOperations(r)
           \/ UpdateConfig(r) \/ UpdateTenantConfig(r)
           \/ UpdateDataSettings(r) \/ UpdateSuperadminDataSettings(r)
           \/ UpdateFeatures(r) \/ UpdateSuperadminFeatures(r)
    BY <1>2, <1>5, <1>6 DEF UpdateOperations, UpdateCalendarOverrides, UpdateTenantOperations,
       UpdateConfig, UpdateTenantConfig, UpdateDataSettings, UpdateSuperadminDataSettings,
       UpdateFeatures, UpdateSuperadminFeatures
<1>7. CASE UpdateIdentitySettings(r) \/ ApplyTemplate(r) \/ PublishDraft(r) \/ DiscardDraft(r)
    BY <1>4, <1>7 DEF UpdateIdentitySettings, ApplyTemplate, PublishDraft, DiscardDraft, Kinds
<1>. QED BY <1>3, <1>6, <1>7 DEF Route

LEMMA NextPending ==
    ASSUME Inv, Pending, [Next]_vars
    PROVE  Pending'
<1>1. ASSUME NEW r \in Requests, Proceed(r) \/ Crash(r)
      PROVE  Pending'
  <2>. SUFFICES ASSUME NEW p \in Requests, req'[p].pc \in Working
                PROVE  /\ Asks(req'[p], p)
                       /\ req'[p].loaded # None => ~Named(req'[p].loaded, p)
                       /\ req'[p].found # None => ~Named(req'[p].found, p)
      BY DEF Pending, Asks, Named
  <2>1. /\ req[p].pc \in Working /\ Asks(req[p], p) = Asks(req'[p], p)
        /\ req'[p].loaded = req[p].loaded
        /\ req'[p].found \in {req[p].found, req[p].loaded, row}
      BY <1>1, OthersLeave DEF Asks
  <2>2. row # None => ~Named(row, p)
      BY <2>1 DEF Inv, Unseen, Working, Committed
  <2>. QED BY <2>1, <2>2 DEF Pending
<1>2. CASE UNCHANGED vars
    BY <1>2 DEF vars, Pending, Asks, Named
<1>. QED BY <1>1, <1>2, RoutePending DEF Next, Terminated

\* What a PUT or a saved draft answered with 200 is in the committed document, however stale
\* its reads, where the route's helper has let go of the instance it loaded.
THEOREM SavedAlways == Spec => SavedIsStored
<1>. DEFINE Step ==
        \A r \in Requests :
            req[r].pc \in Working /\ req'[r].pc \in Committed =>
                LET q == req[r] IN
                /\ q.kind = "put" => \A f \in q.asked : row'.live[f] = r
                /\ q.kind = "draft" =>
                    row'.draft[q.section] # None /\ row'.draft[q.section].by = r
<1>1. Init => Pending
    BY DEF Init, Pending, Fresh, Working
<1>2. ASSUME Inv, Pending, Next PROVE Step
  <2>. SUFFICES ASSUME NEW r \in Requests, req[r].pc \in Working, req'[r].pc \in Committed
                PROVE  LET q == req[r] IN
                       /\ q.kind = "put" => \A f \in q.asked : row'.live[f] = r
                       /\ q.kind = "draft" =>
                            row'.draft[q.section] # None /\ row'.draft[q.section].by = r
      OBVIOUS
  <2>. DEFINE q == req[r]
  <2>1. /\ row' = IF Dirty(q) THEN q.doc ELSE row
        /\ q \in Request /\ Asks(q, r) /\ (q.found # None => ~Named(q.found, r))
      BY <1>2, CommitStores DEF Store, Pending, Inv, TypeOK
  <2>2. CASE q.kind = "draft" \/ (q.kind = "put" /\ q.asked # {})
    <3>1. Named(q.doc, r)
        BY <2>1, <2>2 DEF Named, Asks, Request
    <3>2. q.doc # q.found /\ ~Holds(q)
      <4>1. q.found = None => q.doc # q.found
          BY <2>1, SettingsAssumption DEF Request
      <4>2. q.found # None => q.doc # q.found
          BY <2>1, <3>1
      <4>3. ~Holds(q)
          BY <2>2 DEF Holds
      <4>. QED BY <4>1, <4>2, <4>3
    <3>3. row' = q.doc
        BY <2>1, <3>2 DEF Dirty
    <3>. QED BY <2>1, <2>2, <3>3 DEF Asks
  <2>3. CASE q.kind # "draft" /\ (q.kind = "put" => q.asked = {})
      BY <2>3
  <2>. QED BY <2>2, <2>3
<1>3. Inv /\ Pending /\ [Next]_vars => Pending' /\ [Step]_vars
    BY <1>2, NextPending
<1>. QED BY <1>1, <1>3, InvAlways, PTL DEF Spec, SavedIsStored

\* What a request changes beyond what it was asked to is at most what others committed since
\* it loaded the document, on any of the fourteen routes.
THEOREM OthersPreserved == Spec => PreservesOthers
<1>. DEFINE Step ==
        \A r \in Requests :
            req[r].pc \in Working /\ req'[r].pc \in Committed /\ row # None =>
                LET seen == Seen(req[r]) IN
                /\ seen.present \cap row.present \subseteq row'.present
                /\ \A f \in Fields \ req[r].asked :
                    row.live[f] = seen.live[f] /\ row.live[f] # "unset" =>
                        row'.live[f] = row.live[f]
                /\ \A s \in Sections \ {req[r].section} :
                    row.draft[s] = seen.draft[s] => row'.draft[s] = row.draft[s]
<1>1. Init => Loyal
    BY DEF Init, Loyal, Fresh, Working
<1>2. ASSUME Inv, Loyal, Next PROVE Step
  <2>. SUFFICES ASSUME NEW r \in Requests, req[r].pc \in Working, req'[r].pc \in Committed,
                       row # None
                PROVE  LET seen == Seen(req[r]) IN
                       /\ seen.present \cap row.present \subseteq row'.present
                       /\ \A f \in Fields \ req[r].asked :
                            row.live[f] = seen.live[f] /\ row.live[f] # "unset" =>
                                row'.live[f] = row.live[f]
                       /\ \A s \in Sections \ {req[r].section} :
                            row.draft[s] = seen.draft[s] => row'.draft[s] = row.draft[s]
      OBVIOUS
  <2>1. row' = row \/ row' = req[r].doc
      BY <1>2, CommitStores DEF Store
  <2>2. Keeps(Seen(req[r]), req[r].doc, req[r].asked, req[r].section)
      BY <1>2 DEF Loyal
  <2>. QED BY <2>1, <2>2 DEF Keeps
<1>3. Inv /\ Loyal /\ [Next]_vars => Loyal' /\ [Step]_vars
    BY <1>2, NextLoyal
<1>. QED BY <1>1, <1>3, InvAlways, PTL DEF Spec, PreservesOthers
=============================================================================
