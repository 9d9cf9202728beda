--------------------------- MODULE MCCatalogImport ---------------------------
(* Small instances of CatalogImport. *)
EXTENDS CatalogImport

A(key, value, fault) == [name |-> "k1", key |-> key, value |-> value, fault |-> fault]
In(name, key, value) == [name |-> name, key |-> key, value |-> value, fault |-> "valid"]

\* One row, two rows, one thing twice, rows in error, and two barbers' rows.
MCSheets ==
    {<<A("k1", "v1", "valid"), A("k2", "v2", "valid")>>,
     <<A("k1", "v1", "valid"), A("k1", "v2", "valid")>>,
     <<A("k1", "v2", "valid"), A("k2", "v1", "invalid")>>,
     <<A("k1", "v1", "unshowable")>>,
     <<In("k1", "k1", "v2"), In("k2", "k1", "v1")>>}

\* As the Peluqueria template has it, one code for two services.
MCTemplate ==
    [service |-> <<A("k1", "v1", "valid"), A("k1", "v2", "valid")>>,
     barber |-> <<A("k1", "v1", "valid")>>, schedule |-> <<A("k1", "v1", "valid")>>]

R(kind, of, key, value) == [kind |-> kind, of |-> of, key |-> key, value |-> value]
Of(rows) == [i \in Ids |-> IF i \in DOMAIN rows THEN rows[i] ELSE None]

\* Nothing yet, one of each, two barbers, and two rows of one code or name.
MCCatalogs ==
    {Of(<<>>),
     Of(<<R("service", None, "k1", "v1")>>),
     Of(<<R("barber", None, "k1", "v1"), R("schedule", 1, "k1", "v1")>>),
     Of(<<R("barber", None, "k1", "v1"), R("barber", None, "k2", "v1"),
          R("schedule", 2, "k1", "v2")>>),
     Of(<<R("service", None, "k2", "v1"), R("service", None, "k2", "v2")>>),
     Of(<<R("barber", None, "k1", "v1"), R("barber", None, "k1", "v2")>>),
     Of(<<R("barber", None, "k1", "v1"), R("schedule", 1, "k1", "v1"),
          R("schedule", 1, "k2", "v1")>>)}
=============================================================================
