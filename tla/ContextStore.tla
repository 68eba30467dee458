---------------------------- MODULE ContextStore ----------------------------
(***************************************************************************)
(* The Context_Store of the contexa daemon: the contexts and               *)
(* context_versions tables, the one SQLAlchemy session every request       *)
(* shares, and the worker threads that run create, update, update_label,   *)
(* delete and get on it.  A request is a sequence of steps, because other  *)
(* requests run between any two of its session calls.                      *)
(***************************************************************************)
EXTENDS Integers, FiniteSets

CONSTANTS
    Threads,     \* worker threads of the server, one request each at a time
    Contexts,    \* context ids that uuid4 may hand out
    Versions,    \* version ids that uuid4 may hand out
    Labels,      \* labels, the null label among them
    Tags,        \* version tags
    Tag,         \* the tag of a version id: its first 8 hex digits
    None,        \* no row, no version, no thread
    ClockSteps,  \* what the wall clock may move by between two flushes
    MaxTime      \* bound of the wall clock

ASSUME IdsAssumption ==
    /\ None \notin Contexts \cup Versions \cup Labels \cup Threads
    /\ Tag \in [Versions -> Tags]

ASSUME ClockAssumption == ClockSteps \subseteq Int /\ MaxTime \in Nat

VARIABLES
    tables,     \* the rows as the session's connection sees them
    disk,       \* the committed rows, which survive a crash
    pending,    \* the session's unflushed objects, of every request
    poisoned,   \* a flush failed: the session wants a rollback() first
    committer,  \* the thread inside commit(), or None
    clock,      \* the wall clock that stamps created_at
    minted,     \* ids uuid4 has handed out: it does not repeat itself
    req,        \* the request each thread is running
    stored,     \* <<c, v>> for which create or update has answered 201/200
    removed     \* contexts for which delete has answered 204

database == <<tables, disk, poisoned, committer, clock>>
answers == <<stored, removed>>
vars == <<tables, disk, pending, poisoned, committer, clock, minted, req,
          stored, removed>>

-----------------------------------------------------------------------------
(* Types. *)

Time == 0 .. MaxTime
NewVersion == [context : Contexts, parent : Versions \cup {None}]
VersionRow == [context : Contexts, parent : Versions \cup {None},
               created_at : Time]

ASSUME RowAssumption == None \notin NewVersion \cup VersionRow

Tables == [ctx : [Contexts -> Labels \cup {None}],
           ver : [Versions -> VersionRow \cup {None}]]

PendingObjects == [ctx   : [Contexts -> Labels \cup {None}],
                   ver   : [Versions -> NewVersion \cup {None}],
                   label : [Contexts -> Labels \cup {None}],
                   gone  : SUBSET Contexts]

Ops == {"create", "update", "label", "delete", "get"}
Steps == {"idle", "add_context", "add_version", "find", "read_latest",
          "set_label", "mark_deleted", "flush", "commit", "reload"}
Outcomes == {"none", "ok", "not_found", "error"}

Request == [op : Ops \cup {None}, step : Steps, ctx : Contexts \cup {None},
            ver : Versions \cup {None}, parent : Versions \cup {None},
            label : Labels \cup {None}, out : Outcomes]

TypeOK ==
    /\ tables \in Tables
    /\ disk \in Tables
    /\ pending \in PendingObjects
    /\ poisoned \in BOOLEAN
    /\ committer \in Threads \cup {None}
    /\ clock \in Time
    /\ minted \subseteq Contexts \cup Versions
    /\ req \in [Threads -> Request]
    /\ stored \subseteq Contexts \X Versions
    /\ removed \subseteq Contexts

-----------------------------------------------------------------------------
(* Queries and the unit of work. *)

NoObjects == [ctx   |-> [c \in Contexts |-> None],
              ver   |-> [v \in Versions |-> None],
              label |-> [c \in Contexts |-> None],
              gone  |-> {}]

VersionsOf(db, c) ==
    {v \in Versions : db.ver[v] # None /\ db.ver[v].context = c}

\* _get_latest_version_record: ORDER BY created_at DESC LIMIT 1.  Rows with
\* the same created_at come back in whatever order the database likes.
Latest(db, c) ==
    {v \in VersionsOf(db, c) : \A w \in VersionsOf(db, c) :
        db.ver[w].created_at <= db.ver[v].created_at}

\* created_at is the time of the INSERT, not of the request.
Stamped(row, now) ==
    [context |-> row.context, parent |-> row.parent, created_at |-> now]

\* Variant of InsertedVersions: a flush stamps every row (onupdate).
RestampedVersions(objs, db, now) ==
    [v \in Versions |->
        IF objs.ver[v] # None THEN Stamped(objs.ver[v], now)
        ELSE IF db.ver[v] # None THEN Stamped(db.ver[v], now) ELSE None]

\* The rows after the INSERTs and UPDATEs of a flush.
InsertedVersions(objs, db, now) ==
    [v \in Versions |->
        IF objs.ver[v] # None THEN Stamped(objs.ver[v], now) ELSE db.ver[v]]
InsertedContexts(objs, db) ==
    [c \in Contexts |->
        IF objs.ctx[c] # None THEN objs.ctx[c]
        ELSE IF objs.label[c] # None /\ db.ctx[c] # None
             THEN objs.label[c] ELSE db.ctx[c]]
Inserted(objs, db, now) ==
    [ctx |-> InsertedContexts(objs, db), ver |-> InsertedVersions(objs, db, now)]

\* The schema's constraints on the rows a flush inserts: the foreign key on
\* contexts and the unique (context_id, version_tag).
ForeignKey(db) ==
    \A v \in Versions : db.ver[v] # None => db.ctx[db.ver[v].context] # None
UniqueTag(db) ==
    \A v, w \in Versions :
        /\ v # w /\ db.ver[v] # None /\ db.ver[w] # None
        /\ db.ver[v].context = db.ver[w].context
        => Tag[v] # Tag[w]

\* Variant of Deleted: the delete does not cascade.
DeletedAlone(gone, db) ==
    [db EXCEPT !.ctx = [c \in Contexts |-> IF c \in gone THEN None ELSE @[c]]]

\* DELETE of the marked contexts, cascading to their versions.
Deleted(gone, db) ==
    [ctx |-> [c \in Contexts |-> IF c \in gone THEN None ELSE db.ctx[c]],
     ver |-> [v \in Versions |->
                IF db.ver[v] # None /\ db.ver[v].context \in gone
                THEN None ELSE db.ver[v]]]

IdleRequest(o) == [op |-> None, step |-> "idle", ctx |-> None, ver |-> None,
                   parent |-> None, label |-> None, out |-> o]

Init ==
    /\ tables = [ctx |-> NoObjects.ctx, ver |-> NoObjects.ver]
    /\ disk = tables
    /\ pending = NoObjects
    /\ poisoned = FALSE
    /\ committer = None
    /\ clock = 0
    /\ minted = {}
    /\ req = [t \in Threads |-> IdleRequest("none")]
    /\ stored = {}
    /\ removed = {}

-----------------------------------------------------------------------------
(* Requests arrive. *)

Idle(t) == req[t].step = "idle"

\* The ids a request will hand out are new; drawing them on arrival rather
\* than just before the INSERT keeps an update from running out of them.
Begin(t, op, c, v, l, step) ==
    /\ Idle(t)
    /\ req' = [req EXCEPT ![t] =
                [IdleRequest("none") EXCEPT !.op = op, !.ctx = c, !.ver = v,
                    !.label = l, !.step = step]]
    /\ UNCHANGED <<database, pending, answers>>

BeginCreate(t, c, v, l) ==
    /\ {c, v} \cap minted = {}
    /\ minted' = minted \cup {c, v}
    /\ Begin(t, "create", c, v, l, "add_context")

BeginUpdate(t, c, v) ==
    /\ v \notin minted
    /\ minted' = minted \cup {v}
    /\ Begin(t, "update", c, v, None, "find")

BeginOn(t, op, c, l) ==
    /\ UNCHANGED minted
    /\ Begin(t, op, c, None, l, "find")

-----------------------------------------------------------------------------
(* Steps of a request. *)

At(t, step) == req[t].step = step
Goto(t, step) == req' = [req EXCEPT ![t].step = step]
Finish(t, o) == req' = [req EXCEPT ![t] = IdleRequest(o)]

\* The session can emit SQL for t: no failed flush awaits a rollback.
Usable == ~poisoned

AddContext(t) ==
    /\ At(t, "add_context")
    /\ pending' = [pending EXCEPT !.ctx[req[t].ctx] = req[t].label]
    /\ Goto(t, "add_version")
    /\ UNCHANGED <<database, minted, answers>>

AddVersion(t) ==
    /\ At(t, "add_version")
    /\ pending' = [pending EXCEPT !.ver[req[t].ver] =
                    [context |-> req[t].ctx, parent |-> req[t].parent]]
    /\ Goto(t, "flush")
    /\ UNCHANGED <<database, minted, answers>>

AfterFind(op) == CASE op = "label"  -> "set_label"
                   [] op = "delete" -> "mark_deleted"
                   [] OTHER         -> "read_latest"

\* session.get(ContextRecord, context_id)
Find(t) ==
    /\ At(t, "find") /\ Usable
    /\ IF tables.ctx[req[t].ctx] = None
       THEN Finish(t, "not_found")
       ELSE Goto(t, AfterFind(req[t].op))
    /\ UNCHANGED <<database, pending, minted, answers>>

\* Variant of ReadParent: any version of the context may be the parent.
ReadParentAny(t) ==
    /\ At(t, "read_latest") /\ req[t].op = "update" /\ Usable
    /\ \E p \in VersionsOf(tables, req[t].ctx) \cup {None} :
        req' = [req EXCEPT ![t].parent = p, ![t].step = "add_version"]
    /\ UNCHANGED <<database, pending, minted, answers>>

\* update: the latest row becomes the parent, if there is one.
ReadParent(t) ==
    /\ At(t, "read_latest") /\ req[t].op = "update" /\ Usable
    /\ \E p \in Versions \cup {None} :
        /\ IF Latest(tables, req[t].ctx) = {} THEN p = None
           ELSE p \in Latest(tables, req[t].ctx)
        /\ req' = [req EXCEPT ![t].parent = p, ![t].step = "add_version"]
    /\ UNCHANGED <<database, pending, minted, answers>>

\* get: the latest row is the answer.
ReadLatest(t) ==
    /\ At(t, "read_latest") /\ req[t].op = "get" /\ Usable
    /\ Finish(t, IF Latest(tables, req[t].ctx) = {} THEN "not_found" ELSE "ok")
    /\ UNCHANGED <<database, pending, minted, answers>>

\* Variant of SetLabel: the object is not the session's.
SetLabelDetached(t) ==
    /\ At(t, "set_label")
    /\ Goto(t, "flush")
    /\ UNCHANGED <<database, pending, minted, answers>>

\* ctx.label = label on the shared object; on the object of a row that is
\* gone the assignment reaches no table.
SetLabel(t) ==
    /\ At(t, "set_label")
    /\ pending' = IF tables.ctx[req[t].ctx] = None THEN pending
                  ELSE [pending EXCEPT !.label[req[t].ctx] = req[t].label]
    /\ Goto(t, "flush")
    /\ UNCHANGED <<database, minted, answers>>

\* session.delete(ctx) raises once another request has deleted the row.
MarkDeleted(t) ==
    /\ At(t, "mark_deleted") /\ Usable
    /\ IF tables.ctx[req[t].ctx] = None
       THEN Finish(t, "error") /\ UNCHANGED pending
       ELSE /\ pending' = [pending EXCEPT !.gone = @ \cup {req[t].ctx}]
            /\ Goto(t, "flush")
    /\ UNCHANGED <<database, minted, answers>>

\* commit(), first half: the flush writes the pending objects of EVERY
\* request; a row that breaks a constraint rolls the transaction back, drops
\* all pending objects and leaves the session wanting a rollback().
Flush(t) ==
    /\ At(t, "flush") /\ Usable /\ committer = None
    /\ \E d \in ClockSteps :
        LET now == IF pending.ver = NoObjects.ver THEN clock ELSE clock + d
            new == Inserted(pending, tables, now)
        IN  /\ now \in Time
            /\ IF ForeignKey(new) /\ UniqueTag(new)
               THEN /\ tables' = Deleted(pending.gone, new)
                    /\ committer' = t
                    /\ poisoned' = poisoned
                    /\ Goto(t, "commit")
               ELSE /\ tables' = disk
                    /\ committer' = None
                    /\ poisoned' = TRUE
                    /\ Finish(t, "error")
            /\ clock' = now
    /\ pending' = NoObjects
    /\ UNCHANGED <<disk, minted, answers>>

\* Variant of Commit: the transaction is only flushed.
CommitFlushOnly(t) ==
    /\ At(t, "commit")
    /\ committer' = None
    /\ IF req[t].op = "delete"
       THEN Finish(t, "ok") /\ removed' = removed \cup {req[t].ctx}
       ELSE Goto(t, "reload") /\ UNCHANGED removed
    /\ UNCHANGED <<tables, disk, pending, poisoned, clock, minted, stored>>

\* commit(), second half: COMMIT.  It expires every object of the session, so
\* an attribute that another request has set since the flush is forgotten;
\* delete has nothing left to do.
Commit(t) ==
    /\ At(t, "commit")
    /\ disk' = tables
    /\ committer' = None
    /\ pending' = [pending EXCEPT !.label = NoObjects.label]
    /\ IF req[t].op = "delete"
       THEN Finish(t, "ok") /\ removed' = removed \cup {req[t].ctx}
       ELSE Goto(t, "reload") /\ UNCHANGED removed
    /\ UNCHANGED <<tables, poisoned, clock, minted, stored>>

\* create and update refresh the version they wrote, update_label reads the
\* context's attributes again; a row deleted meanwhile makes either fail,
\* unless update_label still finds the attributes loaded.
Reload(t) ==
    /\ At(t, "reload") /\ Usable
    /\ \/ /\ req[t].op # "label" /\ tables.ver[req[t].ver] # None
          /\ Finish(t, "ok")
          /\ stored' = stored \cup {<<req[t].ctx, req[t].ver>>}
       \/ /\ req[t].op = "label"
          /\ Finish(t, "ok")
          /\ UNCHANGED stored
       \/ /\ IF req[t].op = "label" THEN tables.ctx[req[t].ctx] = None
             ELSE tables.ver[req[t].ver] = None
          /\ Finish(t, "error")
          /\ UNCHANGED stored
    /\ UNCHANGED <<database, pending, minted, removed>>

\* Variants of Refused: the failure is answered as a missing context; a
\* poisoned session blocks the call.
RefusedAsNotFound(t) ==
    /\ req[t].step \in {"find", "read_latest", "mark_deleted", "flush", "reload"}
    /\ poisoned \/ committer \notin {None, t}
    /\ Finish(t, "not_found")
    /\ UNCHANGED <<database, pending, minted, answers>>
RefusedBusyOnly(t) ==
    /\ req[t].step \in {"find", "read_latest", "mark_deleted", "flush", "reload"}
    /\ committer \notin {None, t}
    /\ Finish(t, "error")
    /\ UNCHANGED <<database, pending, minted, answers>>

\* A session call fails: always once the session is poisoned, possibly while
\* another thread is inside commit().  Nobody calls rollback(), so what the
\* request has added stays pending for the next flush.
Refused(t) ==
    /\ req[t].step \in {"find", "read_latest", "mark_deleted", "flush", "reload"}
    /\ poisoned \/ committer \notin {None, t}
    /\ Finish(t, "error")
    /\ UNCHANGED <<database, pending, minted, answers>>

-----------------------------------------------------------------------------
(* The process ends and starts again on the same database file. *)

Restart ==
    /\ pending' = NoObjects
    /\ poisoned' = FALSE
    /\ committer' = None
    /\ req' = [t \in Threads |-> IdleRequest("none")]
    /\ UNCHANGED <<clock, minted, answers>>

Crash == tables' = disk /\ UNCHANGED disk /\ Restart

\* SIGTERM with no request in flight: main()'s finally block commits what
\* refused requests left pending, and ignores the failure of that commit.
Shutdown ==
    /\ \A t \in Threads : Idle(t)
    /\ LET new == Inserted(pending, tables, clock)
       IN  disk' = IF Usable /\ ForeignKey(new) /\ UniqueTag(new)
                   THEN Deleted(pending.gone, new) ELSE disk
    /\ tables' = disk'
    /\ Restart

Step(t) ==
    \/ \E c \in Contexts, v \in Versions, l \in Labels : BeginCreate(t, c, v, l)
    \/ \E c \in Contexts, v \in Versions : BeginUpdate(t, c, v)
    \/ \E op \in {"delete", "get"}, c \in Contexts : BeginOn(t, op, c, None)
    \/ \E c \in Contexts, l \in Labels : BeginOn(t, "label", c, l)
    \/ AddContext(t) \/ AddVersion(t) \/ Find(t) \/ ReadParent(t)
    \/ ReadLatest(t) \/ SetLabel(t) \/ MarkDeleted(t) \/ Flush(t)
    \/ Commit(t) \/ Reload(t) \/ Refused(t)

Next == (\E t \in Threads : Step(t)) \/ Crash \/ Shutdown

Spec == Init /\ [][Next]_vars

\* A step of a request in progress, as module SdkStore asks for it.
Advance(t) == ~Idle(t) /\ Step(t)

-----------------------------------------------------------------------------
(* Properties. *)

\* The parent of a stored version is a stored version of the same context:
\* no interleaving of update, delete, failed flush and crash leaves a version
\* whose history cannot be walked (update 182-197, the cascade of delete).
ParentStored(db) ==
    \A v \in Versions :
        db.ver[v] # None /\ db.ver[v].parent # None =>
            LET p == db.ver[v].parent
            IN  db.ver[p] # None /\ db.ver[p].context = db.ver[v].context
HistoryClosed ==
    \A db \in {tables, disk} : ForeignKey(db) /\ ParentStored(db)

\* What create or update has answered for is in the committed rows, across
\* crashes and other requests' failed flushes, until its context is deleted;
\* and a context whose deletion was answered never comes back.
AnswersDurable ==
    /\ \A cv \in stored : disk.ctx[cv[1]] # None =>
            disk.ver[cv[2]] # None /\ disk.ver[cv[2]].context = cv[1]
    /\ \A c \in removed : disk.ctx[c] = None /\ tables.ctx[c] = None

\* Committed rows are append-only: a version never changes, and goes only
\* together with its context.
VersionsImmutable ==
    [][\A v \in Versions : disk.ver[v] # None =>
        \/ disk'.ver[v] = disk.ver[v]
        \/ disk'.ver[v] = None /\ disk'.ctx[disk.ver[v].context] = None]_vars
=============================================================================
