\* Two overlapping requests of any route, on a tenant without a row or with some sections,
\* drafts among them.
SPECIFICATION Spec
CONSTANTS
    Requests = {r1, r2}
    InitialRows <- Rows
    None = None
INVARIANTS TypeOK RefusedLeavesNothing DraftStaysPrivate
PROPERTIES PreservesOthers  ChangesAudited
