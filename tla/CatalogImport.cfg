\* Two overlapping requests, imports with their second apply included.
SPECIFICATION Spec
CONSTANTS
    Requests = {r1, r2}
    MaxRows = 5
    Keys = {"k1", "k2"}
    Values = {"v1", "v2"}
    Sheets <- MCSheets
    InitialCatalogs <- MCCatalogs
    Template <- MCTemplate
    None = None
    Gone = Gone
INVARIANT TypeOK
PROPERTIES ImportSettles TemplateOnlyAdds
