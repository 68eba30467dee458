------------------------ MODULE ContextStoreHistory ------------------------
(***************************************************************************)
(* The committed rows of ContextStore read as the chains of VersionHistory:*)
(* a context's versions in the order list_versions gives them.             *)
(***************************************************************************)
EXTENDS ContextStore

\* list_versions: ORDER BY created_at.
Before(db, c, v) ==
    {w \in VersionsOf(db, c) : db.ver[w].created_at < db.ver[v].created_at}
Nth(db, c, i) ==
    {v \in VersionsOf(db, c) : Cardinality(Before(db, c, v)) = i - 1}
Entry(db, v) == [version |-> v, parent |-> db.ver[v].parent]
HistoryOf(db, c) ==
    [i \in 1 .. Cardinality(VersionsOf(db, c)) |->
        Entry(db, CHOOSE v \in Nth(db, c, i) : TRUE)]

History == INSTANCE VersionHistory
            WITH history <- [c \in Contexts |-> HistoryOf(disk, c)]

\* One request at a time on a clock that moves forward, with crashes: every
\* commit creates a chain, appends to one, or deletes one, or changes none.
RefinesHistory == History!Spec
=============================================================================
