------------------------- MODULE CatalogProperties --------------------------
(***************************************************************************)
(* Which catalog is in force, whatever calls are cut off.                  *)
(***************************************************************************)
EXTENDS Catalog

Steps ==
  {"end", "look", "read", "unreadable", "copy", "fill", "discard", "quarantine",
   "spare", "replace", "missing", "fallback", "finish", "undone", "bundled",
   "stage", "write", "reread", "keep", "older", "forget", "retire", "commit",
   "failed", "vacant", "restore", "begin", "current", "aside", "back", "swap", "exchange"}

\* Every variable has its type.
CatalogTypeOK ==
  /\ disk \in [CatalogFiles -> Catalogs \cup {NoCatalog, Torn}]
  /\ writes \in [Commands -> {Directory!Closed} \cup [at : {"file"}, file : CatalogFiles]]
  /\ command \in [Commands -> [do : {"none", "status", "refresh", "rollback"},
                               at : Steps, new : Catalogs \cup {Bundled},
                               got : Catalogs \cup {Bundled}]]
  /\ may \subseteq Catalogs \cup {Bundled}
  /\ overlapped \in BOOLEAN

\* The catalog in f, if it can be read.
CatalogIn(f, otherwise) == IF ReadValid(f) THEN disk[f] ELSE otherwise

\* What active would return if no one else touched the files, Torn for an error.
InForce ==
  CatalogIn("active",
            IF IsFile("active") THEN CatalogIn("previous", Torn)
            ELSE CatalogIn("staged", CatalogIn("previous", Bundled)))

\* As long as no two calls are made at once, and whatever call is killed or
\* fails at any access to a file: the catalog that a refresh has activated, or
\* a status or rollback has reported, stays in force until a later refresh puts
\* its own in place, or a rollback (or a call that cannot read active) puts the
\* previous one there, or, cut off, one that an earlier refresh had staged.  In
\* between one of them can always be had: there is never an error, and never
\* the bundled catalog again.
CatalogHolds == overlapped \/ InForce \in may
=============================================================================
