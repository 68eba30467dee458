----------------------------- MODULE TrustStore -----------------------------
(***************************************************************************)
(* The Trust_Store of the contexa daemon: the devices and trust_entries    *)
(* tables, reached through the one SQLAlchemy session that every request   *)
(* of the daemon shares.  add_trusted and remove_trusted are sequences of  *)
(* session calls; a write of another store stands for all the commits that *)
(* context and sync requests run on the same session (ContextStore).       *)
(***************************************************************************)
EXTENDS FiniteSets

CONSTANTS
    Threads,  \* worker threads of the server
    Devices,  \* device ids, this device's among them
    Self,     \* this device
    Keys,     \* public keys that parse
    SelfKey,  \* this device's public key
    BadKeys,  \* byte strings that are no public key
    None      \* no row, no thread

ASSUME TrustAssumption ==
    /\ None \notin Devices \cup Keys \cup BadKeys \cup Threads
    /\ None \notin {"trusted", "revoked", "once", "twice", "add", "remove", "other"}
    /\ Keys \cap BadKeys = {} /\ "twice" \notin Keys
    /\ Self \in Devices /\ SelfKey \in Keys

VARIABLES
    tables,     \* the rows as the session's connection sees them
    disk,       \* the committed rows
    pending,    \* unflushed objects and attributes, of every request
    poisoned,   \* a flush failed: the session wants a rollback() first
    committer,  \* the thread inside commit(), or None
    req,        \* the request each thread is running
    entered,    \* devices an add was answered 201 for
    said        \* what the last answered request made of a device, until the
                \* next request for it arrives

database == <<tables, disk, poisoned, committer>>
answers == <<entered, said>>
vars == <<tables, disk, pending, poisoned, committer, req, entered, said>>

-----------------------------------------------------------------------------
(* Types. *)

Standing == {"trusted", "revoked"}
Tables == [dev   : [Devices -> Keys \cup {None}],
           trust : [Devices -> Standing \cup {None}]]

\* dev and trust: objects to insert, at most one or several of a device;
\* mark: the value set on the revoked attribute of a stored entry.
PendingObjects == [dev   : [Devices -> Keys \cup {None, "twice"}],
                   trust : [Devices -> {None, "once", "twice"}],
                   mark  : [Devices -> Standing \cup {None}]]

Steps == {"idle", "find_device", "find_entry", "add_device", "add_entry",
          "find_revoked", "set_mark", "flush", "commit", "reload"}

\* sole: no request for the same device ran meanwhile; missed: the mark was
\* set while another request was inside commit(); out: the answer, where a
\* property asks for it.
Request == [op : {"add", "remove", "other", None}, step : Steps,
            dev : Devices \cup {None}, key : Keys \cup BadKeys \cup {None},
            sole : BOOLEAN, missed : BOOLEAN,
            out : {"none", "not_found"}]

TypeOK ==
    /\ tables \in Tables /\ disk \in Tables
    /\ pending \in PendingObjects
    /\ poisoned \in BOOLEAN
    /\ committer \in Threads \cup {None}
    /\ req \in [Threads -> Request]
    /\ entered \subseteq Devices
    /\ said \in [Devices -> [standing : Standing, missed : BOOLEAN] \cup {None}]

-----------------------------------------------------------------------------
(* The session. *)

NoObjects == [dev   |-> [d \in Devices |-> None],
              trust |-> [d \in Devices |-> None],
              mark  |-> [d \in Devices |-> None]]

\* Variant of Insertable: a device that is there is replaced (merge, not add).
InsertableOver(objs, db) ==
    \A d \in Devices :
        /\ objs.dev[d] # "twice"
        /\ objs.trust[d] # None =>
            /\ objs.trust[d] = "once" /\ db.trust[d] = None
            /\ db.dev[d] # None \/ objs.dev[d] # None

\* The primary keys of the two tables, and the entry's foreign key.
Insertable(objs, db) ==
    \A d \in Devices :
        /\ objs.dev[d] # None => objs.dev[d] # "twice" /\ db.dev[d] = None
        /\ objs.trust[d] # None =>
            /\ objs.trust[d] = "once" /\ db.trust[d] = None
            /\ db.dev[d] # None \/ objs.dev[d] # None

\* Variant of Flushed: an entry is deleted when it is revoked.
FlushedDeleting(objs, db) ==
    [dev   |-> [d \in Devices |-> IF objs.dev[d] # None THEN objs.dev[d]
                                  ELSE db.dev[d]],
     trust |-> [d \in Devices |-> IF objs.trust[d] # None THEN "trusted"
                                  ELSE IF objs.mark[d] = "revoked" THEN None
                                  ELSE db.trust[d]]]

\* The rows after the INSERTs and UPDATEs of a flush that breaks no constraint.
Flushed(objs, db) ==
    [dev   |-> [d \in Devices |-> IF objs.dev[d] # None THEN objs.dev[d]
                                  ELSE db.dev[d]],
     trust |-> [d \in Devices |-> IF objs.trust[d] # None THEN "trusted"
                                  ELSE IF objs.mark[d] # None THEN objs.mark[d]
                                  ELSE db.trust[d]]]

\* An entry as the session's identity map has it: an attribute that is set
\* and not flushed is seen by every request.
Entry(d) == IF pending.mark[d] # None THEN pending.mark[d] ELSE tables.trust[d]

\* register_self: the device's own row, once.
register_self(db) ==
    [db EXCEPT !.dev[Self] = IF @ = None THEN SelfKey ELSE @]

IdleRequest(o) == [op |-> None, step |-> "idle", dev |-> None, key |-> None,
                   sole |-> FALSE, missed |-> FALSE, out |-> o]

Init ==
    /\ tables = register_self([dev |-> NoObjects.dev, trust |-> NoObjects.trust])
    /\ disk = tables
    /\ pending = NoObjects
    /\ poisoned = FALSE
    /\ committer = None
    /\ req = [t \in Threads |-> IdleRequest("none")]
    /\ entered = {}
    /\ said = [d \in Devices |-> None]

-----------------------------------------------------------------------------
(* Requests arrive. *)

At(t, step) == req[t].step = step
Idle(t) == At(t, "idle")
Goto(t, step) == req' = [req EXCEPT ![t].step = step]
Finish(t, o) == req' = [req EXCEPT ![t] = IdleRequest(o)]

\* A request for device d; with it nobody who works on d is alone any more.
Begin(t, op, d, k, step) ==
    /\ Idle(t)
    /\ req' = [u \in Threads |->
                IF u = t THEN [IdleRequest("none") EXCEPT !.op = op, !.dev = d,
                                !.key = k, !.step = step,
                                !.sole = \A w \in Threads : req[w].dev # d]
                ELSE [req[u] EXCEPT !.sole = @ /\ req[u].dev # d]]
    /\ said' = [said EXCEPT ![d] = None]
    /\ UNCHANGED <<database, pending, entered>>

BeginAdd(t, d, k) == Begin(t, "add", d, k, "find_device")
BeginRemove(t, d) == Begin(t, "remove", d, None, "find_revoked")

\* A request of the Context_Store or of the sync log, about to commit.
BeginOther(t) ==
    /\ Idle(t)
    /\ req' = [req EXCEPT ![t] =
                [IdleRequest("none") EXCEPT !.op = "other", !.step = "flush"]]
    /\ UNCHANGED <<database, pending, answers>>

-----------------------------------------------------------------------------
(* add_trusted and remove_trusted. *)

Usable == ~poisoned

\* existing = session.get(DeviceRecord); only the key of a new device must parse.
FindDevice(t) ==
    /\ At(t, "find_device") /\ Usable
    /\ \/ /\ tables.dev[req[t].dev] # None
          /\ Goto(t, "find_entry")
       \/ /\ tables.dev[req[t].dev] = None /\ req[t].key \in Keys
          /\ Goto(t, "add_device")
       \/ /\ tables.dev[req[t].dev] = None /\ req[t].key \in BadKeys
          /\ Finish(t, "none")
    /\ UNCHANGED <<database, pending, answers>>

AddDevice(t) ==
    /\ At(t, "add_device")
    /\ pending' = [pending EXCEPT !.dev[req[t].dev] =
                    IF @ = None THEN req[t].key ELSE "twice"]
    /\ Goto(t, "add_entry")
    /\ UNCHANGED <<database, answers>>

\* trust = session.get(TrustEntryRecord): refuse, trust again, or insert.
FindEntry(t) ==
    /\ At(t, "find_entry") /\ Usable
    /\ LET e == Entry(req[t].dev)
       IN  \/ e = "trusted" /\ Finish(t, "none")
           \/ e = "revoked" /\ Goto(t, "set_mark")
           \/ e = None /\ Goto(t, "add_entry")
    /\ UNCHANGED <<database, pending, answers>>

AddEntry(t) ==
    /\ At(t, "add_entry")
    /\ pending' = [pending EXCEPT !.trust[req[t].dev] =
                    IF @ = None THEN "once" ELSE "twice"]
    /\ Goto(t, "flush")
    /\ UNCHANGED <<database, answers>>

\* remove_trusted: the entry, revoked or not.
FindRevoked(t) ==
    /\ At(t, "find_revoked") /\ Usable
    /\ IF Entry(req[t].dev) = None THEN Finish(t, "not_found")
       ELSE Goto(t, "set_mark")
    /\ UNCHANGED <<database, pending, answers>>

Meant(t) == IF req[t].op = "add" THEN "trusted" ELSE "revoked"

\* trust.revoked = ...: no SQL, seen by all, written by the next flush.
SetMark(t) ==
    /\ At(t, "set_mark")
    /\ pending' = [pending EXCEPT !.mark[req[t].dev] = Meant(t)]
    /\ req' = [req EXCEPT ![t].step = "flush", ![t].missed = committer # None]
    /\ UNCHANGED <<database, answers>>

\* commit(), first half: the flush writes the objects of every request.  If a
\* row breaks a constraint, one of another request's insert too, the
\* transaction is rolled back and all that was pending is dropped.
Flush(t) ==
    /\ At(t, "flush") /\ Usable /\ committer = None
    /\ \/ /\ Insertable(pending, tables)
          /\ tables' = Flushed(pending, tables)
          /\ committer' = t
          /\ Goto(t, "commit")
          /\ UNCHANGED poisoned
       \/ /\ ~Insertable(pending, tables) \/ req[t].op = "other"
          /\ poisoned' = TRUE
          /\ Finish(t, "none")
          /\ UNCHANGED <<tables, committer>>
    /\ pending' = NoObjects
    /\ UNCHANGED <<disk, answers>>

Answered(t) ==
    /\ Finish(t, "none")
    /\ said' = IF req[t].sole
               THEN [said EXCEPT ![req[t].dev] =
                        [standing |-> Meant(t), missed |-> req[t].missed]]
               ELSE said

\* commit(), second half: COMMIT, which expires every object of the session:
\* a mark set since the flush is forgotten.
Commit(t) ==
    /\ At(t, "commit")
    /\ disk' = tables
    /\ committer' = None
    /\ pending' = [pending EXCEPT !.mark = NoObjects.mark]
    /\ \/ req[t].op = "add" /\ Goto(t, "reload") /\ UNCHANGED said
       \/ req[t].op = "remove" /\ Answered(t)
       \/ req[t].op = "other" /\ Finish(t, "none") /\ UNCHANGED said
    /\ UNCHANGED <<tables, poisoned, entered>>

\* add_trusted reads both records again for its answer.
Reload(t) ==
    /\ At(t, "reload") /\ Usable
    /\ Answered(t)
    /\ entered' = entered \cup {req[t].dev}
    /\ UNCHANGED <<database, pending>>

\* Variant of Refused: the failure of the commit is swallowed.
RefusedQuietly(t) ==
    /\ req[t].step \in {"find_device", "find_entry", "find_revoked", "flush", "reload"}
    /\ poisoned \/ committer \notin {None, t}
    /\ IF At(t, "flush") /\ req[t].op = "remove" THEN Answered(t)
       ELSE Finish(t, "none") /\ UNCHANGED said
    /\ UNCHANGED <<database, pending, entered>>

\* A session call fails: always once the session is poisoned, possibly while
\* another thread is inside commit().
Refused(t) ==
    /\ req[t].step \in {"find_device", "find_entry", "find_revoked", "flush", "reload"}
    /\ poisoned \/ committer \notin {None, t}
    /\ Finish(t, "none")
    /\ UNCHANGED <<database, pending, answers>>

-----------------------------------------------------------------------------
(* The process ends and starts again on the same database file. *)

Restart ==
    /\ tables' = disk'
    /\ pending' = NoObjects
    /\ poisoned' = FALSE
    /\ committer' = None
    /\ req' = [t \in Threads |-> IdleRequest("none")]
    /\ UNCHANGED answers

Crash == disk' = register_self(disk) /\ Restart

\* SIGTERM with no request in flight: what refused requests left pending is
\* committed, if it can be.
Shutdown ==
    /\ \A t \in Threads : Idle(t)
    /\ disk' = register_self(IF Usable /\ Insertable(pending, tables)
                             THEN Flushed(pending, tables) ELSE disk)
    /\ Restart

Step(t) ==
    \/ \E d \in Devices, k \in Keys \cup BadKeys : BeginAdd(t, d, k)
    \/ \E d \in Devices : BeginRemove(t, d)
    \/ BeginOther(t)
    \/ FindDevice(t) \/ AddDevice(t) \/ FindEntry(t) \/ AddEntry(t)
    \/ FindRevoked(t) \/ SetMark(t) \/ Flush(t) \/ Commit(t) \/ Reload(t)
    \/ Refused(t)

Next == (\E t \in Threads : Step(t)) \/ Crash \/ Shutdown

Spec == Init /\ [][Next]_vars

-----------------------------------------------------------------------------
(* Properties. *)

\* The key a device was registered with is never replaced: not by trusting it
\* again under another key, not by two adds at once, a rollback or a restart
\* (add_trusted 112-136, register_self).
KeyKept ==
    [][\A d \in Devices : disk.dev[d] # None => disk'.dev[d] = disk.dev[d]]_vars

\* Revocation keeps the entry: a device that was answered as trusted has its
\* entry, and the key it is checked with, on disk from then on.
EntryKept ==
    /\ \A d \in entered : disk.trust[d] # None
    /\ \A db \in {tables, disk} : \A d \in Devices :
        db.trust[d] # None => db.dev[d] # None

\* remove_trusted raises DeviceNotFoundError only of a device no add was
\* answered for: once trusted, a device can always be revoked (line 157).
EnteredIsFound ==
    [][\A t \in Threads :
        req'[t].out = "not_found" /\ ~Idle(t) => req[t].dev \notin entered]_vars

\* An answered add or remove that no request for the same device overlapped is
\* what the disk says until the next such request, whatever other requests
\* commit, lose or are refused, and across restarts; unless the attribute was
\* set while another request was inside commit().
AnswersHold ==
    \A d \in Devices : said[d] # None =>
        said[d].missed \/ disk.trust[d] = said[d].standing
=============================================================================
