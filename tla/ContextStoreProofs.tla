------------------------- MODULE ContextStoreProofs -------------------------
(***************************************************************************)
(* Type correctness of the Context_Store and the closure of its history    *)
(* under parents, the immutability of its rows and the durability of its   *)
(* answers; then what the SDK's callers may rely on, whose invariant is    *)
(* built on the store's: for any number of threads, calls, contexts and    *)
(* versions.  Last, that the store of one request at a time implements the *)
(* chains of VersionHistory.                                               *)
(***************************************************************************)
EXTENDS SdkStore, ContextStoreHistory, FiniteSetTheorems, SequenceTheorems,
        WellFoundedInduction, TLAPS

-----------------------------------------------------------------------------
(* The inductive invariant. *)

\* The steps each operation takes.
StepsOf(op) ==
    CASE op = "create" -> {"add_context", "add_version", "flush", "commit", "reload"}
      [] op = "update" -> {"find", "read_latest", "add_version", "flush", "commit",
                           "reload"}
      [] op = "label"  -> {"find", "set_label", "flush", "commit", "reload"}
      [] op = "delete" -> {"find", "mark_deleted", "flush", "commit"}
      [] op = "get"    -> {"find", "read_latest"}

Proper(r) ==
    /\ r.op \in Ops /\ r.step \in StepsOf(r.op) /\ r.ctx \in Contexts
    /\ r.op \in {"create", "update"} => r.ver \in Versions
    /\ r.op = "create" => r.parent = None
Requests == \A t \in Threads : ~Idle(t) => Proper(req[t])

\* Between two transactions the connection sees what is on disk.
Synced == committer = None => tables = disk

\* Every id in use was handed out.
Minted ==
    /\ \A c \in Contexts :
        tables.ctx[c] # None \/ disk.ctx[c] # None \/ pending.ctx[c] # None => c \in minted
    /\ \A v \in Versions :
        tables.ver[v] # None \/ disk.ver[v] # None \/ pending.ver[v] # None => v \in minted

\* A version id drawn and not yet added is in no table and nobody else's.
Making(t) ==
    /\ req[t].op \in {"create", "update"}
    /\ req[t].step \in {"find", "read_latest", "add_context", "add_version"}
FreshVersions ==
    \A t \in Threads : Making(t) =>
        /\ req[t].ver \in minted
        /\ tables.ver[req[t].ver] = None /\ pending.ver[req[t].ver] = None
        /\ \A u \in Threads : Making(u) /\ req[u].ver = req[t].ver => u = t
FreshContexts ==
    \A t \in Threads : At(t, "add_context") =>
        /\ req[t].ctx \in minted
        /\ tables.ctx[req[t].ctx] = None /\ pending.ctx[req[t].ctx] = None
        /\ \A u \in Threads : At(u, "add_context") /\ req[u].ctx = req[t].ctx => u = t

\* What is pending is not in the tables yet.
PendingNew == \A v \in Versions : pending.ver[v] # None => tables.ver[v] = None

\* A context that is gone for good: no insert of it is to come.
Dead(c) ==
    /\ c \in minted /\ tables.ctx[c] = None /\ pending.ctx[c] = None
    /\ \A t \in Threads : At(t, "add_context") => req[t].ctx # c

\* The parent p chosen for a version of c is still stored, or c is gone, so
\* that the flush of the version will break the foreign key.
Link(c, p) ==
    \/ p = None
    \/ tables.ver[p] # None /\ tables.ver[p].context = c
    \/ Dead(c)
Links ==
    /\ \A v \in Versions : pending.ver[v] # None =>
        Link(pending.ver[v].context, pending.ver[v].parent)
    /\ \A t \in Threads : At(t, "add_version") => Link(req[t].ctx, req[t].parent)

Rest ==
    /\ Requests /\ Synced /\ Minted /\ FreshVersions /\ FreshContexts
    /\ PendingNew /\ Links /\ HistoryClosed
IInv == TypeOK /\ Rest

-----------------------------------------------------------------------------
(* Requests. *)

\* The steps of an operation are steps of the type invariant.
LEMMA StepsTyped ==
  ASSUME NEW op \in Ops PROVE StepsOf(op) \subseteq Steps
BY DEF StepsOf, Ops, Steps

\* The request of an idle thread is well typed.
LEMMA IdleTyped ==
  ASSUME NEW o \in Outcomes
  PROVE  IdleRequest(o) \in Request /\ IdleRequest(o).step = "idle"
BY DEF IdleRequest, Request, Ops, Steps, Outcomes

\* Goto changes one field of one request.
LEMMA Gone ==
  ASSUME TypeOK, NEW t \in Threads, NEW s \in Steps, Goto(t, s)
  PROVE  /\ req' \in [Threads -> Request]
         /\ req'[t] = [req[t] EXCEPT !.step = s]
         /\ \A u \in Threads : u # t => req'[u] = req[u]
BY DEF TypeOK, Goto, Request

\* Finish leaves its thread idle and the others alone.
LEMMA Finished ==
  ASSUME TypeOK, NEW t \in Threads, NEW o \in Outcomes, Finish(t, o)
  PROVE  /\ req' \in [Threads -> Request] /\ req'[t].step = "idle"
         /\ \A u \in Threads : u # t => req'[u] = req[u]
BY IdleTyped DEF TypeOK, Finish

\* A step of t that leaves the rows and the pending objects alone.
LEMMA RequestOnly ==
  ASSUME IInv, NEW t \in Threads,
         UNCHANGED <<tables, disk, pending.ctx, pending.ver, committer>>,
         minted \subseteq minted',
         req' \in [Threads -> Request],
         \A u \in Threads : u # t => req'[u] = req[u],
         req'[t].step # "idle" => Proper(req'[t]),
         Making(t)' => \/ Making(t) /\ req'[t].ver = req[t].ver
                       \/ req'[t].ver \in minted' \ minted,
         At(t, "add_context")' => req'[t].ctx \in minted' \ minted,
         At(t, "add_version")' => Link(req'[t].ctx, req'[t].parent)
  PROVE  Rest'
<1> USE DEF IInv, Rest
<1>1. Requests'
  BY DEF Requests, Idle, At
<1>2. Synced' /\ PendingNew' /\ HistoryClosed'
  BY DEF Synced, PendingNew, HistoryClosed, ForeignKey, ParentStored
<1>3. Minted'
  BY DEF Minted
<1>4. FreshVersions'
  <2> SUFFICES ASSUME NEW u \in Threads, Making(u)'
               PROVE  /\ req'[u].ver \in minted'
                      /\ tables'.ver[req'[u].ver] = None /\ pending'.ver[req'[u].ver] = None
                      /\ \A w \in Threads : Making(w)' /\ req'[w].ver = req'[u].ver => w = u
    BY DEF FreshVersions
  <2>1. req'[u].ver \in Versions
    BY <1>1 DEF Making, Requests, Idle, At, Proper
  <2>2. \A w \in Threads : Making(w)' =>
            \/ Making(w) /\ req'[w].ver = req[w].ver
            \/ w = t /\ req'[w].ver \in minted' \ minted
    BY DEF Making
  <2> QED
    BY <2>1, <2>2 DEF FreshVersions, Minted
<1>5. FreshContexts'
  <2> SUFFICES ASSUME NEW u \in Threads, At(u, "add_context")'
               PROVE  /\ req'[u].ctx \in minted'
                      /\ tables'.ctx[req'[u].ctx] = None /\ pending'.ctx[req'[u].ctx] = None
                      /\ \A w \in Threads :
                            At(w, "add_context")' /\ req'[w].ctx = req'[u].ctx => w = u
    BY DEF FreshContexts, At
  <2>1. req'[u].ctx \in Contexts
    BY <1>1 DEF Requests, Idle, At, Proper
  <2>2. \A w \in Threads : At(w, "add_context")' =>
            \/ At(w, "add_context") /\ req'[w].ctx = req[w].ctx
            \/ w = t /\ req'[w].ctx \in minted' \ minted
    BY DEF At
  <2> QED
    BY <2>1, <2>2 DEF FreshContexts, Minted
<1>6. Links'
  <2>1. \A c : Dead(c) => Dead(c)'
    BY DEF Dead, At
  <2>2. \A v \in Versions : pending.ver[v] # None =>
            Link(pending.ver[v].context, pending.ver[v].parent)'
    BY <2>1 DEF Links, Link, Dead
  <2>3. ASSUME NEW u \in Threads, At(u, "add_version")'
        PROVE  Link(req[u].ctx, req[u].parent)'
    <3>1. CASE u = t
      BY <2>1, <2>3, <3>1 DEF Link, Dead
    <3>2. CASE u # t
      BY <2>1, <2>3, <3>2 DEF Links, At, Link, Dead
    <3> QED BY <3>1, <3>2
  <2> QED BY <2>2, <2>3 DEF Links
<1> QED BY <1>1, <1>2, <1>3, <1>4, <1>5, <1>6

\* Types hold when only requests and ids change.
LEMMA TypeKept ==
  ASSUME TypeOK, UNCHANGED <<database, pending, answers>>,
         req' \in [Threads -> Request], minted' \subseteq Contexts \cup Versions
  PROVE  TypeOK'
BY DEF TypeOK, database, answers

\* A request that is answered, and changes nothing else here.
LEMMA FinishIInv ==
  ASSUME IInv, NEW t \in Threads, NEW o \in Outcomes, Finish(t, o),
         UNCHANGED <<tables, disk, pending.ctx, pending.ver, committer, minted>>
  PROVE  Rest' /\ req' \in [Threads -> Request]
<1>1. /\ req' \in [Threads -> Request] /\ req'[t].step = "idle"
      /\ \A u \in Threads : u # t => req'[u] = req[u]
  BY Finished DEF IInv
<1>2. ~Making(t)' /\ ~At(t, "add_context")' /\ ~At(t, "add_version")'
  BY <1>1 DEF Making, At
<1> QED BY <1>1, <1>2, RequestOnly

\* A request that goes on, not to the making of a version.
LEMMA GotoIInv ==
  ASSUME IInv, NEW t \in Threads, NEW s \in Steps, Goto(t, s), ~Idle(t),
         s \in StepsOf(req[t].op), s \notin {"add_context", "add_version"},
         s \in {"find", "read_latest"} => req[t].step \in {"find", "read_latest"},
         UNCHANGED <<tables, disk, pending.ctx, pending.ver, committer, minted>>
  PROVE  Rest' /\ req' \in [Threads -> Request]
<1>1. /\ req' \in [Threads -> Request]
      /\ req'[t] = [req[t] EXCEPT !.step = s]
      /\ \A u \in Threads : u # t => req'[u] = req[u]
  BY Gone DEF IInv
<1>2. req[t] \in Request
  BY DEF IInv, TypeOK
<1>3. /\ req'[t].step = s /\ req'[t].op = req[t].op /\ req'[t].ctx = req[t].ctx
      /\ req'[t].ver = req[t].ver /\ req'[t].parent = req[t].parent
  BY <1>1, <1>2 DEF Request
<1>4. Proper(req'[t])
  BY <1>3 DEF IInv, Rest, Requests, Proper
<1>5. Making(t)' => Making(t)
  BY <1>3 DEF Making
<1> QED BY <1>1, <1>3, <1>4, <1>5, RequestOnly DEF At

-----------------------------------------------------------------------------
(* Arrivals. *)

\* A request that arrives, with the ids drawn for it.
LEMMA BeginIInv ==
  ASSUME IInv, NEW t \in Threads, NEW op \in Ops, NEW c \in Contexts,
         NEW v \in Versions \cup {None}, NEW l \in Labels \cup {None},
         NEW step \in StepsOf(op), Begin(t, op, c, v, l, step),
         step # "add_version",
         minted \subseteq minted', minted' \subseteq Contexts \cup Versions,
         op \in {"create", "update"} => v \in Versions /\ v \in minted' \ minted,
         step = "add_context" => c \in minted' \ minted
  PROVE  IInv'
<1> DEFINE r == [IdleRequest("none") EXCEPT !.op = op, !.ctx = c, !.ver = v,
                    !.label = l, !.step = step]
<1>1. IdleRequest("none") \in Request
  BY IdleTyped DEF Outcomes
<1>2. /\ r \in Request /\ r.op = op /\ r.step = step /\ r.ctx = c /\ r.ver = v
      /\ r.parent = None
  BY <1>1, StepsTyped DEF Request, IdleRequest
<1>3. /\ req' \in [Threads -> Request] /\ req'[t] = r
      /\ \A u \in Threads : u # t => req'[u] = req[u]
  BY <1>2 DEF Begin, IInv, TypeOK
<1>4. Proper(r)
  BY <1>2 DEF Proper
<1>5. Making(t)' => req'[t].ver \in minted' \ minted
  BY <1>2, <1>3 DEF Making
<1>6. /\ At(t, "add_context")' => req'[t].ctx \in minted' \ minted
      /\ ~At(t, "add_version")'
  BY <1>2, <1>3 DEF At
<1>7. UNCHANGED <<tables, disk, pending, committer>>
  BY DEF Begin, database
<1>8. Rest'
  BY <1>3, <1>4, <1>5, <1>6, <1>7, RequestOnly
<1>9. TypeOK'
  BY <1>3, TypeKept DEF Begin, IInv
<1> QED BY <1>8, <1>9 DEF IInv

\* BeginCreate keeps the invariant.
LEMMA BeginCreateIInv ==
  ASSUME IInv, NEW t \in Threads, NEW c \in Contexts, NEW v \in Versions,
         NEW l \in Labels, BeginCreate(t, c, v, l)
  PROVE  IInv'
<1>1. minted \subseteq Contexts \cup Versions
  BY DEF IInv, TypeOK
<1>2. "create" \in Ops /\ "add_context" \in StepsOf("create")
  BY DEF Ops, StepsOf
<1>3. /\ Begin(t, "create", c, v, l, "add_context")
      /\ minted' = minted \cup {c, v} /\ c \notin minted /\ v \notin minted
  BY DEF BeginCreate
<1> QED BY <1>1, <1>2, <1>3, BeginIInv

\* BeginUpdate keeps the invariant.
LEMMA BeginUpdateIInv ==
  ASSUME IInv, NEW t \in Threads, NEW c \in Contexts, NEW v \in Versions,
         BeginUpdate(t, c, v)
  PROVE  IInv'
<1>1. minted \subseteq Contexts \cup Versions
  BY DEF IInv, TypeOK
<1>2. "update" \in Ops /\ "find" \in StepsOf("update")
  BY DEF Ops, StepsOf
<1>3. /\ Begin(t, "update", c, v, None, "find")
      /\ minted' = minted \cup {v} /\ v \notin minted
  BY DEF BeginUpdate
<1> QED BY <1>1, <1>2, <1>3, BeginIInv

\* BeginOn keeps the invariant.
LEMMA BeginOnIInv ==
  ASSUME IInv, NEW t \in Threads, NEW op \in {"label", "delete", "get"},
         NEW c \in Contexts, NEW l \in Labels \cup {None}, BeginOn(t, op, c, l)
  PROVE  IInv'
<1>1. minted \subseteq Contexts \cup Versions
  BY DEF IInv, TypeOK
<1>2. op \in Ops /\ "find" \in StepsOf(op) /\ op \notin {"create", "update"}
  BY DEF Ops, StepsOf
<1>3. Begin(t, op, c, None, l, "find") /\ minted' = minted
  BY DEF BeginOn
<1> QED BY <1>1, <1>2, <1>3, BeginIInv

-----------------------------------------------------------------------------
(* The steps of a request that only read. *)

\* Find keeps the invariant.
LEMMA FindIInv ==
  ASSUME IInv, NEW t \in Threads, Find(t)
  PROVE  IInv'
<1>1. UNCHANGED <<tables, disk, pending, committer, minted>>
  BY DEF Find, database
<1>2. At(t, "find") /\ Proper(req[t])
  BY DEF Find, At, Idle, IInv, Rest, Requests
<1>3. req[t].op \in {"update", "label", "delete", "get"}
  BY <1>2 DEF At, Proper, StepsOf, Ops
<1>4. Rest' /\ req' \in [Threads -> Request]
  <2>1. CASE Finish(t, "not_found")
    BY <1>1, <2>1, FinishIInv DEF Outcomes
  <2>2. CASE Goto(t, AfterFind(req[t].op))
    <3>1. /\ AfterFind(req[t].op) \in StepsOf(req[t].op)
          /\ AfterFind(req[t].op) \in {"set_label", "mark_deleted", "read_latest"}
      BY <1>3 DEF AfterFind, StepsOf
    <3>2. AfterFind(req[t].op) \in Steps
      BY <3>1 DEF Steps
    <3> QED BY <1>1, <1>2, <2>2, <3>1, <3>2, GotoIInv DEF At, Idle
  <2> QED BY <2>1, <2>2 DEF Find
<1> QED BY <1>4, TypeKept DEF Find, IInv, TypeOK

\* ReadParent keeps the invariant.
LEMMA ReadParentIInv ==
  ASSUME IInv, NEW t \in Threads, ReadParent(t)
  PROVE  IInv'
<1>1. UNCHANGED <<tables, disk, pending, committer, minted>>
  BY DEF ReadParent, database
<1>2. PICK p \in Versions \cup {None} :
        /\ IF Latest(tables, req[t].ctx) = {} THEN p = None
           ELSE p \in Latest(tables, req[t].ctx)
        /\ req' = [req EXCEPT ![t].parent = p, ![t].step = "add_version"]
  BY DEF ReadParent
<1>3. /\ At(t, "read_latest") /\ req[t].op = "update" /\ Proper(req[t])
      /\ req \in [Threads -> Request]
  BY DEF ReadParent, At, Idle, IInv, Rest, Requests, TypeOK
<1>4. /\ req' \in [Threads -> Request]
      /\ req'[t].step = "add_version" /\ req'[t].parent = p
      /\ req'[t].op = req[t].op /\ req'[t].ctx = req[t].ctx /\ req'[t].ver = req[t].ver
      /\ \A u \in Threads : u # t => req'[u] = req[u]
  <2> DEFINE next == [req[t] EXCEPT !.parent = p, !.step = "add_version"]
  <2>1. req[t] \in Request
    BY <1>3
  <2>2. next \in Request
    BY <2>1 DEF Request, Steps
  <2>3. /\ next.step = "add_version" /\ next.parent = p
        /\ next.op = req[t].op /\ next.ctx = req[t].ctx /\ next.ver = req[t].ver
    BY <2>1 DEF Request
  <2>4. req' = [req EXCEPT ![t] = next]
    BY <1>2
  <2> HIDE DEF next
  <2> QED BY <1>3, <2>2, <2>3, <2>4
<1>5. Link(req[t].ctx, p)
  BY <1>2 DEF Link, Latest, VersionsOf
<1>6. Proper(req'[t]) /\ Making(t)
  BY <1>3, <1>4 DEF Proper, StepsOf, Making, At
<1>7. Rest'
  BY <1>1, <1>4, <1>5, <1>6, RequestOnly DEF At
<1> QED BY <1>4, <1>7, TypeKept DEF ReadParent, IInv, TypeOK

\* ReadLatest keeps the invariant.
LEMMA ReadLatestIInv ==
  ASSUME IInv, NEW t \in Threads, ReadLatest(t)
  PROVE  IInv'
<1>1. UNCHANGED <<tables, disk, pending, committer, minted>>
  BY DEF ReadLatest, database
<1>2. Rest' /\ req' \in [Threads -> Request]
  BY <1>1, FinishIInv DEF ReadLatest, Outcomes
<1> QED BY <1>2, TypeKept DEF ReadLatest, IInv, TypeOK

\* Refused keeps the invariant.
LEMMA RefusedIInv ==
  ASSUME IInv, NEW t \in Threads, Refused(t)
  PROVE  IInv'
<1>1. UNCHANGED <<tables, disk, pending, committer, minted>>
  BY DEF Refused, database
<1>2. Rest' /\ req' \in [Threads -> Request]
  BY <1>1, FinishIInv DEF Refused, Outcomes
<1> QED BY <1>2, TypeKept DEF Refused, IInv, TypeOK

\* Reload keeps the invariant.
LEMMA ReloadIInv ==
  ASSUME IInv, NEW t \in Threads, Reload(t)
  PROVE  IInv'
<1>1. UNCHANGED <<tables, disk, pending, committer, minted>>
  BY DEF Reload, database
<1>2. Rest' /\ req' \in [Threads -> Request]
  BY <1>1, FinishIInv DEF Reload, Outcomes
<1>3. Proper(req[t]) /\ req[t].step = "reload"
  BY DEF Reload, At, Idle, IInv, Rest, Requests
<1>4. req[t].op # "label" => <<req[t].ctx, req[t].ver>> \in Contexts \X Versions
  BY <1>3 DEF Proper, StepsOf, Ops
<1>5. stored' \subseteq Contexts \X Versions
  BY <1>4 DEF Reload, IInv, TypeOK
<1> QED BY <1>2, <1>5 DEF Reload, IInv, TypeOK, database

-----------------------------------------------------------------------------
(* The steps of a request that add to the session. *)

\* The parts of the pending objects are well typed.
LEMMA PendingTyped ==
  ASSUME TypeOK
  PROVE  /\ pending.ctx \in [Contexts -> Labels \cup {None}]
         /\ pending.ver \in [Versions -> NewVersion \cup {None}]
         /\ pending.label \in [Contexts -> Labels \cup {None}]
         /\ pending.gone \subseteq Contexts
BY DEF TypeOK, PendingObjects

\* Types hold when only requests and pending objects change.
LEMMA TypeAdded ==
  ASSUME TypeOK, UNCHANGED <<database, minted, answers>>,
         req' \in [Threads -> Request], pending' \in PendingObjects
  PROVE  TypeOK'
BY DEF TypeOK, database, answers

\* AddContext keeps the invariant.
LEMMA AddContextIInv ==
  ASSUME IInv, NEW t \in Threads, AddContext(t)
  PROVE  IInv'
<1> DEFINE c == req[t].ctx
<1>1. /\ At(t, "add_context") /\ Proper(req[t]) /\ req[t] \in Request
      /\ UNCHANGED <<tables, disk, committer, minted>>
  BY DEF AddContext, At, Idle, IInv, Rest, Requests, TypeOK, database
<1>2. /\ req[t].op = "create" /\ c \in Contexts /\ req[t].ver \in Versions
      /\ req[t].parent = None
  BY <1>1 DEF At, Proper, StepsOf, Ops
<1>3. /\ req' \in [Threads -> Request]
      /\ req'[t] = [req[t] EXCEPT !.step = "add_version"]
      /\ \A u \in Threads : u # t => req'[u] = req[u]
  BY Gone DEF AddContext, IInv, Steps
<1>4. /\ req'[t].step = "add_version" /\ req'[t].op = "create" /\ req'[t].ctx = c
      /\ req'[t].ver = req[t].ver /\ req'[t].parent = None
  BY <1>1, <1>2, <1>3 DEF Request
<1>5. /\ pending' \in PendingObjects
      /\ pending'.ver = pending.ver
      /\ \A x \in Contexts : x # c => pending'.ctx[x] = pending.ctx[x]
  BY <1>1, <1>2, PendingTyped DEF AddContext, PendingObjects, Request, IInv, TypeOK
<1>6. TypeOK'
  BY <1>3, <1>5, TypeAdded DEF AddContext, IInv
<1>7. Requests'
  BY <1>2, <1>3, <1>4 DEF IInv, Rest, Requests, Idle, At, Proper, StepsOf, Ops
<1>8. Synced' /\ PendingNew' /\ HistoryClosed'
  BY <1>1, <1>5 DEF IInv, Rest, Synced, PendingNew, HistoryClosed, ForeignKey, ParentStored
<1>9. Minted'
  BY <1>1, <1>5 DEF IInv, Rest, Minted, FreshContexts
<1>10. FreshVersions'
  <2>1. \A u \in Threads : Making(u)' => Making(u) /\ req'[u].ver = req[u].ver
    BY <1>1, <1>2, <1>3, <1>4 DEF Making, At
  <2> QED BY <1>1, <1>5, <2>1 DEF IInv, Rest, FreshVersions
<1>11. FreshContexts'
  <2> SUFFICES ASSUME NEW u \in Threads, At(u, "add_context")'
               PROVE  /\ req'[u].ctx \in minted'
                      /\ tables'.ctx[req'[u].ctx] = None /\ pending'.ctx[req'[u].ctx] = None
                      /\ \A w \in Threads :
                            At(w, "add_context")' /\ req'[w].ctx = req'[u].ctx => w = u
    BY DEF FreshContexts, At
  <2>1. u # t /\ At(u, "add_context") /\ req'[u].ctx = req[u].ctx
    BY <1>3, <1>4 DEF At
  <2>2. req[u].ctx \in Contexts /\ req[u].ctx # c
    BY <1>1, <2>1 DEF IInv, Rest, Requests, Idle, At, Proper, FreshContexts
  <2>3. \A w \in Threads : At(w, "add_context")' =>
            At(w, "add_context") /\ req'[w].ctx = req[w].ctx
    BY <1>3, <1>4 DEF At
  <2> QED BY <1>1, <1>5, <2>1, <2>2, <2>3 DEF IInv, Rest, FreshContexts
<1>12. Links'
  <2>1. \A x \in Contexts : Dead(x) => Dead(x)'
    BY <1>1, <1>3, <1>4, <1>5 DEF Dead, At
  <2>2. \A v \in Versions : pending.ver[v] # None =>
            Link(pending.ver[v].context, pending.ver[v].parent)'
    <3>1. \A v \in Versions : pending.ver[v] # None => pending.ver[v].context \in Contexts
      BY PendingTyped DEF IInv, NewVersion
    <3> QED BY <1>1, <1>5, <2>1, <3>1 DEF IInv, Rest, Links, Link, Dead
  <2>3. ASSUME NEW u \in Threads, At(u, "add_version")'
        PROVE  Link(req[u].ctx, req[u].parent)'
    <3>1. CASE u = t
      BY <1>4, <3>1 DEF Link
    <3>2. CASE u # t
      <4>1. At(u, "add_version") /\ req[u].ctx \in Contexts
        BY <1>3, <2>3, <3>2 DEF IInv, Rest, Requests, Idle, At, Proper
      <4> QED BY <1>1, <1>3, <2>1, <3>2, <4>1 DEF IInv, Rest, Links, Link, Dead
    <3> QED BY <3>1, <3>2
  <2> QED BY <1>5, <2>2, <2>3 DEF Links
<1> QED BY <1>6, <1>7, <1>8, <1>9, <1>10, <1>11, <1>12 DEF IInv, Rest

\* SetLabel keeps the invariant.
LEMMA SetLabelIInv ==
  ASSUME IInv, NEW t \in Threads, SetLabel(t)
  PROVE  IInv'
<1>1. /\ At(t, "set_label") /\ Proper(req[t]) /\ req[t] \in Request
      /\ UNCHANGED <<tables, disk, committer, minted>>
  BY DEF SetLabel, At, Idle, IInv, Rest, Requests, TypeOK, database
<1>2. "flush" \in StepsOf(req[t].op) /\ "flush" \in Steps /\ ~Idle(t)
  BY <1>1 DEF At, Idle, Proper, StepsOf, Ops, Steps
<1>3. pending' \in PendingObjects /\ pending'.ctx = pending.ctx /\ pending'.ver = pending.ver
  BY <1>1, PendingTyped DEF SetLabel, PendingObjects, Request, IInv, Proper, TypeOK
<1>4. Rest' /\ req' \in [Threads -> Request]
  BY <1>1, <1>2, <1>3, GotoIInv DEF SetLabel
<1> QED BY <1>3, <1>4, TypeAdded DEF SetLabel, IInv

\* MarkDeleted keeps the invariant.
LEMMA MarkDeletedIInv ==
  ASSUME IInv, NEW t \in Threads, MarkDeleted(t)
  PROVE  IInv'
<1>1. /\ At(t, "mark_deleted") /\ Proper(req[t]) /\ req[t] \in Request
      /\ UNCHANGED <<tables, disk, committer, minted>>
  BY DEF MarkDeleted, At, Idle, IInv, Rest, Requests, TypeOK, database
<1>2. "flush" \in StepsOf(req[t].op) /\ "flush" \in Steps /\ ~Idle(t)
  BY <1>1 DEF At, Idle, Proper, StepsOf, Ops, Steps
<1>3. pending' \in PendingObjects /\ pending'.ctx = pending.ctx /\ pending'.ver = pending.ver
  BY <1>1, PendingTyped DEF MarkDeleted, PendingObjects, IInv, Proper, TypeOK
<1>4. Rest' /\ req' \in [Threads -> Request]
  <2>1. CASE Finish(t, "error")
    BY <1>1, <1>3, <2>1, FinishIInv DEF Outcomes
  <2>2. CASE Goto(t, "flush")
    BY <1>1, <1>2, <1>3, <2>2, GotoIInv
  <2> QED BY <2>1, <2>2 DEF MarkDeleted
<1> QED BY <1>3, <1>4, TypeAdded DEF MarkDeleted, IInv

\* AddVersion keeps the invariant.
LEMMA AddVersionIInv ==
  ASSUME IInv, NEW t \in Threads, AddVersion(t)
  PROVE  IInv'
<1> DEFINE w == req[t].ver
<1>1. /\ At(t, "add_version") /\ Proper(req[t]) /\ req[t] \in Request
      /\ UNCHANGED <<tables, disk, committer, minted>>
  BY DEF AddVersion, At, Idle, IInv, Rest, Requests, TypeOK, database
<1>2. /\ req[t].op \in {"create", "update"} /\ req[t].ctx \in Contexts /\ w \in Versions
      /\ Making(t) /\ "flush" \in StepsOf(req[t].op)
  BY <1>1 DEF At, Proper, StepsOf, Ops, Making
<1>3. /\ req' \in [Threads -> Request]
      /\ req'[t] = [req[t] EXCEPT !.step = "flush"]
      /\ \A u \in Threads : u # t => req'[u] = req[u]
  BY Gone DEF AddVersion, IInv, Steps
<1>4. /\ req'[t].step = "flush" /\ req'[t].op = req[t].op /\ req'[t].ctx = req[t].ctx
      /\ req'[t].ver = w /\ req'[t].parent = req[t].parent
  BY <1>1, <1>3 DEF Request
<1>5. /\ pending' \in PendingObjects
      /\ pending'.ctx = pending.ctx
      /\ pending'.ver[w] = [context |-> req[t].ctx, parent |-> req[t].parent]
      /\ \A v \in Versions : v # w => pending'.ver[v] = pending.ver[v]
  <2>1. [context |-> req[t].ctx, parent |-> req[t].parent] \in NewVersion
    BY <1>1, <1>2 DEF NewVersion, Request
  <2> QED BY <1>2, <2>1, PendingTyped DEF AddVersion, PendingObjects, IInv, TypeOK
<1>6. TypeOK'
  BY <1>3, <1>5, TypeAdded DEF AddVersion, IInv
<1>7. Requests'
  BY <1>1, <1>2, <1>3, <1>4 DEF IInv, Rest, Requests, Idle, At, Proper
<1>8. w \in minted /\ tables.ver[w] = None
  BY <1>2 DEF IInv, Rest, FreshVersions
<1>9. Synced' /\ PendingNew' /\ HistoryClosed' /\ Minted'
  BY <1>1, <1>5, <1>8 DEF IInv, Rest, Synced, PendingNew, HistoryClosed, ForeignKey,
                          ParentStored, Minted
<1>10. FreshVersions'
  <2>1. \A u \in Threads : Making(u)' =>
            Making(u) /\ req'[u].ver = req[u].ver /\ req[u].ver # w
    BY <1>2, <1>3, <1>4 DEF Making, IInv, Rest, FreshVersions
  <2>2. \A u \in Threads : Making(u) => req[u].ver \in Versions
    BY DEF IInv, Rest, Requests, Idle, At, Proper, Making
  <2> QED BY <1>1, <1>5, <2>1, <2>2 DEF IInv, Rest, FreshVersions
<1>11. FreshContexts'
  <2>1. \A u \in Threads : At(u, "add_context")' =>
            At(u, "add_context") /\ req'[u].ctx = req[u].ctx
    BY <1>3, <1>4 DEF At
  <2> QED BY <1>1, <1>5, <2>1 DEF IInv, Rest, FreshContexts
<1>12. Links'
  <2>1. \A x : Dead(x) => Dead(x)'
    BY <1>1, <1>3, <1>4, <1>5 DEF Dead, At
  <2>2. \A v \in Versions : pending.ver[v] # None =>
            Link(pending.ver[v].context, pending.ver[v].parent)
    BY DEF IInv, Rest, Links
  <2>3. Link(req[t].ctx, req[t].parent)
    BY <1>1 DEF IInv, Rest, Links
  <2>4. ASSUME NEW v \in Versions, (pending.ver[v] # None)'
        PROVE  Link(pending.ver[v].context, pending.ver[v].parent)'
    <3>1. CASE v = w
      BY <1>1, <1>5, <2>1, <2>3, <3>1 DEF Link, Dead
    <3>2. CASE v # w
      BY <1>1, <1>5, <2>1, <2>2, <2>4, <3>2 DEF Link, Dead
    <3> QED BY <3>1, <3>2
  <2>5. ASSUME NEW u \in Threads, At(u, "add_version")'
        PROVE  Link(req[u].ctx, req[u].parent)'
    <3>1. u # t /\ At(u, "add_version") /\ req'[u] = req[u]
      BY <1>3, <1>4, <2>5 DEF At
    <3>2. Link(req[u].ctx, req[u].parent)
      BY <3>1 DEF IInv, Rest, Links
    <3> QED BY <1>1, <2>1, <3>1, <3>2 DEF Link, Dead
  <2> QED BY <2>4, <2>5 DEF Links
<1> QED BY <1>6, <1>7, <1>9, <1>10, <1>11, <1>12 DEF IInv, Rest

-----------------------------------------------------------------------------
(* What a flush writes. *)

\* What an insert makes of each row: only pending ones are new, and they are as
\* they were pending.
LEMMA InsertedRows ==
  ASSUME TypeOK, NEW now \in Time
  PROVE  /\ Inserted(pending, tables, now) \in Tables
         /\ \A v \in Versions :
                /\ pending.ver[v] = None =>
                        Inserted(pending, tables, now).ver[v] = tables.ver[v]
                /\ pending.ver[v] # None =>
                        /\ Inserted(pending, tables, now).ver[v].context
                                = pending.ver[v].context
                        /\ Inserted(pending, tables, now).ver[v].parent
                                = pending.ver[v].parent
         /\ \A c \in Contexts : tables.ctx[c] = None /\ pending.ctx[c] = None =>
                Inserted(pending, tables, now).ctx[c] = None
<1> DEFINE new == Inserted(pending, tables, now)
<1>1. new = [ctx |-> InsertedContexts(pending, tables),
             ver |-> InsertedVersions(pending, tables, now)]
  BY DEF Inserted
<1>2. /\ tables.ctx \in [Contexts -> Labels \cup {None}]
      /\ tables.ver \in [Versions -> VersionRow \cup {None}]
  BY DEF TypeOK, Tables
<1>3. \A v \in Versions : pending.ver[v] # None =>
        Stamped(pending.ver[v], now) \in VersionRow
  BY PendingTyped DEF NewVersion, VersionRow, Stamped
<1>4. InsertedVersions(pending, tables, now) \in [Versions -> VersionRow \cup {None}]
  BY <1>2, <1>3 DEF InsertedVersions
<1>5. InsertedContexts(pending, tables) \in [Contexts -> Labels \cup {None}]
  BY <1>2, PendingTyped DEF InsertedContexts
<1>6. new \in Tables
  BY <1>1, <1>4, <1>5 DEF Tables
<1>7. \A v \in Versions :
        /\ pending.ver[v] = None => new.ver[v] = tables.ver[v]
        /\ pending.ver[v] # None => new.ver[v] = Stamped(pending.ver[v], now)
  BY <1>1 DEF InsertedVersions
<1>8. \A c \in Contexts : tables.ctx[c] = None /\ pending.ctx[c] = None =>
        new.ctx[c] = None
  BY <1>1 DEF InsertedContexts
<1>9. \A v \in Versions : pending.ver[v] # None =>
        /\ new.ver[v].context = pending.ver[v].context
        /\ new.ver[v].parent = pending.ver[v].parent
  <2>1. \A row : Stamped(row, now).context = row.context /\ Stamped(row, now).parent = row.parent
    BY DEF Stamped
  <2> HIDE DEF new
  <2> QED BY <1>7, <2>1
<1>10. \A v \in Versions : pending.ver[v] = None => new.ver[v] = tables.ver[v]
  BY <1>7
<1> HIDE DEF new
<1> QED BY <1>6, <1>8, <1>9, <1>10 DEF new

\* A delete that cascades leaves no row without what it refers to.
LEMMA DeletedClosed ==
  ASSUME NEW db \in Tables, NEW gone, ForeignKey(db), ParentStored(db)
  PROVE  /\ Deleted(gone, db) \in Tables
         /\ ForeignKey(Deleted(gone, db)) /\ ParentStored(Deleted(gone, db))
<1> DEFINE left == Deleted(gone, db)
<1>1. /\ \A c \in Contexts : left.ctx[c] = IF c \in gone THEN None ELSE db.ctx[c]
      /\ \A v \in Versions : left.ver[v] =
            IF db.ver[v] # None /\ db.ver[v].context \in gone THEN None ELSE db.ver[v]
  BY DEF Deleted
<1>2. /\ db.ctx \in [Contexts -> Labels \cup {None}]
      /\ db.ver \in [Versions -> VersionRow \cup {None}]
  BY DEF Tables
<1>3. left \in Tables
  BY <1>2 DEF Deleted, Tables
<1>4. \A v \in Versions : db.ver[v] # None =>
        db.ver[v].context \in Contexts /\ db.ver[v].parent \in Versions \cup {None}
  BY <1>2 DEF VersionRow
<1>5. ForeignKey(left)
  BY <1>1, <1>4 DEF ForeignKey
<1>6. ParentStored(left)
  BY <1>1, <1>4 DEF ParentStored
<1> QED BY <1>3, <1>5, <1>6

\* Rows that satisfy the foreign key have their parents stored: a parent that
\* was deleted meanwhile belongs to a context that is gone for good.
LEMMA WrittenClosed ==
  ASSUME IInv, NEW now \in Time, ForeignKey(Inserted(pending, tables, now))
  PROVE  ParentStored(Inserted(pending, tables, now))
<1> DEFINE new == Inserted(pending, tables, now)
<1> SUFFICES ASSUME NEW v \in Versions, new.ver[v] # None, new.ver[v].parent # None
             PROVE  LET p == new.ver[v].parent
                    IN  new.ver[p] # None /\ new.ver[p].context = new.ver[v].context
  BY DEF ParentStored
<1> DEFINE p == new.ver[v].parent
           c == new.ver[v].context
<1>1. p \in Versions /\ c \in Contexts
  BY InsertedRows DEF IInv, Tables, VersionRow
<1>2. tables.ver[p] # None /\ tables.ver[p].context = c
  <2>1. CASE pending.ver[v] = None
    BY <2>1, InsertedRows DEF IInv, Rest, HistoryClosed, ParentStored
  <2>2. CASE pending.ver[v] # None
    <3>1. p = pending.ver[v].parent /\ c = pending.ver[v].context
      BY <2>2, InsertedRows DEF IInv
    <3>2. Link(c, p)
      BY <2>2, <3>1 DEF IInv, Rest, Links
    <3>3. ~Dead(c)
      <4>1. new.ctx[c] # None
        BY DEF ForeignKey
      <4> QED BY <1>1, <4>1, InsertedRows DEF IInv, Dead
    <3> QED BY <3>2, <3>3 DEF Link
  <2> QED BY <2>1, <2>2
<1>3. new.ver[p] = tables.ver[p]
  BY <1>1, <1>2, InsertedRows DEF IInv, Rest, PendingNew
<1> QED BY <1>2, <1>3

-----------------------------------------------------------------------------
(* The commit. *)

\* An empty session has nothing pending.
LEMMA NothingPending ==
  /\ NoObjects \in PendingObjects
  /\ \A c \in Contexts : NoObjects.ctx[c] = None
  /\ \A v \in Versions : NoObjects.ver[v] = None
BY DEF NoObjects, PendingObjects

\* What Flush and Commit have in common: a request goes on or ends, no id is
\* handed out, and a row that is new was pending.
LEMMA FlushedRest ==
  ASSUME IInv, NEW t \in Threads, minted' = minted, ~Making(t), ~At(t, "add_context"),
         req' \in [Threads -> Request],
         \A u \in Threads : u # t => req'[u] = req[u],
         req'[t].step \in {"idle", "commit", "reload"},
         req'[t].step # "idle" => Proper(req'[t]),
         \A c \in Contexts : pending'.ctx[c] \in {None, pending.ctx[c]},
         \A v \in Versions : pending'.ver[v] \in {None, pending.ver[v]},
         \A c \in Contexts : tables.ctx[c] = None /\ pending.ctx[c] = None =>
            tables'.ctx[c] = None,
         \A v \in Versions : tables.ver[v] = None /\ pending.ver[v] = None =>
            tables'.ver[v] = None,
         \A v \in Versions, c \in Contexts :
            tables.ver[v] # None /\ tables.ver[v].context = c =>
                tables'.ver[v] = tables.ver[v] \/ Dead(c)'
  PROVE  Requests' /\ FreshVersions' /\ FreshContexts'
         /\ \A u \in Threads : At(u, "add_version")' => Link(req[u].ctx, req[u].parent)'
<1> USE DEF IInv, Rest
<1>1. Requests'
  BY DEF Requests, Idle, At
<1>2. \A u \in Threads : Making(u)' => u # t /\ Making(u) /\ req'[u].ver = req[u].ver
  BY DEF Making
<1>3. \A u \in Threads : Making(u) => req[u].ver \in Versions
  BY DEF Requests, Idle, At, Proper, Making
<1>4. FreshVersions'
  BY <1>2, <1>3 DEF FreshVersions
<1>5. \A u \in Threads : At(u, "add_context")' =>
        u # t /\ At(u, "add_context") /\ req'[u].ctx = req[u].ctx
  BY DEF At
<1>6. \A u \in Threads : At(u, "add_context") => req[u].ctx \in Contexts
  BY DEF Requests, Idle, At, Proper
<1>7. FreshContexts'
  BY <1>5, <1>6 DEF FreshContexts
<1>8. \A c \in Contexts : Dead(c) => Dead(c)'
  BY <1>5 DEF Dead
<1>9. ASSUME NEW u \in Threads, At(u, "add_version")'
      PROVE  Link(req[u].ctx, req[u].parent)'
  <2>1. At(u, "add_version") /\ req'[u] = req[u]
    BY <1>9 DEF At
  <2>2. Link(req[u].ctx, req[u].parent)
    BY <2>1 DEF Links
  <2>3. req[u] \in Request /\ req[u].ctx \in Contexts
    BY <2>1 DEF TypeOK, Requests, Idle, At, Proper
  <2>4. req[u].parent \in Versions \cup {None}
    BY <2>3 DEF Request
  <2> QED BY <1>8, <2>1, <2>2, <2>3, <2>4 DEF Link, Dead
<1> QED BY <1>1, <1>4, <1>7, <1>9

\* Flush keeps the invariant.
LEMMA FlushIInv ==
  ASSUME IInv, NEW t \in Threads, Flush(t)
  PROVE  IInv'
<1>1. PICK d \in ClockSteps :
        LET now == IF pending.ver = NoObjects.ver THEN clock ELSE clock + d
            new == Inserted(pending, tables, now)
        IN  /\ now \in Time
            /\ IF ForeignKey(new) /\ UniqueTag(new)
               THEN /\ tables' = Deleted(pending.gone, new)
                    /\ committer' = t /\ poisoned' = poisoned /\ Goto(t, "commit")
               ELSE /\ tables' = disk /\ committer' = None /\ poisoned' = TRUE
                    /\ Finish(t, "error")
            /\ clock' = now
  BY DEF Flush
<1> DEFINE now == IF pending.ver = NoObjects.ver THEN clock ELSE clock + d
           new == Inserted(pending, tables, now)
<1>2. /\ At(t, "flush") /\ committer = None /\ pending' = NoObjects
      /\ UNCHANGED <<disk, minted, answers>> /\ now \in Time /\ clock' = now
  BY <1>1 DEF Flush
<1>3. /\ Proper(req[t]) /\ req[t] \in Request /\ ~Making(t) /\ ~At(t, "add_context")
      /\ tables = disk
  BY <1>2 DEF At, Idle, Making, IInv, Rest, Requests, Synced, TypeOK
<1> HIDE DEF now
<1>4. /\ \A c \in Contexts : pending'.ctx[c] = None
      /\ \A v \in Versions : pending'.ver[v] = None
      /\ pending' \in PendingObjects
  BY <1>2, NothingPending
<1>5. CASE ForeignKey(new) /\ UniqueTag(new)
  <2>1. tables' = Deleted(pending.gone, new) /\ committer' = t /\ poisoned' = poisoned
        /\ Goto(t, "commit")
    BY <1>1, <1>5 DEF now
  <2>2. /\ req' \in [Threads -> Request]
        /\ req'[t] = [req[t] EXCEPT !.step = "commit"]
        /\ \A u \in Threads : u # t => req'[u] = req[u]
    BY <2>1, Gone DEF IInv, Steps
  <2>3. req'[t].step = "commit" /\ Proper(req'[t])
    BY <1>2, <1>3, <2>2 DEF Request, Proper, StepsOf, Ops, At
  <2>4. new \in Tables /\ ParentStored(new)
    BY <1>2, <1>5, InsertedRows, WrittenClosed DEF IInv
  <2>5. tables' \in Tables /\ ForeignKey(tables') /\ ParentStored(tables')
    BY <1>5, <2>1, <2>4, DeletedClosed
  <2>6. /\ \A c \in Contexts :
            tables'.ctx[c] = IF c \in pending.gone THEN None ELSE new.ctx[c]
        /\ \A v \in Versions :
            \/ tables'.ver[v] = new.ver[v]
            \/ tables'.ver[v] = None /\ new.ver[v].context \in pending.gone
    <3> HIDE DEF new
    <3> QED BY <2>1 DEF Deleted
  <2>7. \A c \in Contexts : tables.ctx[c] = None /\ pending.ctx[c] = None =>
            tables'.ctx[c] = None
    BY <1>2, <2>6, InsertedRows DEF IInv
  <2>8. \A v \in Versions : tables.ver[v] = None /\ pending.ver[v] = None =>
            tables'.ver[v] = None
    BY <1>2, <2>6, InsertedRows DEF IInv
  <2>9. ASSUME NEW v \in Versions, NEW c \in Contexts,
               tables.ver[v] # None, tables.ver[v].context = c
        PROVE  tables'.ver[v] = tables.ver[v] \/ Dead(c)'
    <3>1. new.ver[v] = tables.ver[v]
      BY <1>2, <2>9, InsertedRows DEF IInv, Rest, PendingNew
    <3>2. tables.ctx[c] # None /\ c \in minted
      <4>1. ForeignKey(tables)
        BY DEF IInv, Rest, HistoryClosed
      <4>2. tables.ctx[c] # None
        BY <2>9, <4>1 DEF ForeignKey
      <4> QED BY <4>2 DEF IInv, Rest, Minted
    <3>3. \A u \in Threads : At(u, "add_context")' => req'[u].ctx # c
      <4>1. \A u \in Threads : At(u, "add_context")' =>
                At(u, "add_context") /\ req'[u].ctx = req[u].ctx
        BY <2>2, <2>3 DEF At
      <4> QED BY <3>2, <4>1 DEF IInv, Rest, FreshContexts
    <3>4. CASE c \in pending.gone
      BY <1>2, <1>4, <2>6, <3>2, <3>3, <3>4 DEF Dead
    <3> QED BY <2>6, <2>9, <3>1, <3>4
  <2>10. /\ Requests' /\ FreshVersions' /\ FreshContexts'
         /\ \A u \in Threads : At(u, "add_version")' => Link(req[u].ctx, req[u].parent)'
    BY <1>2, <1>3, <1>4, <2>2, <2>3, <2>7, <2>8, <2>9, FlushedRest
  <2>11. Synced' /\ PendingNew' /\ HistoryClosed'
    BY <1>2, <1>4, <2>1, <2>5, IdsAssumption
       DEF Synced, PendingNew, HistoryClosed, IInv, Rest
  <2>12. Minted'
    BY <1>2, <1>4, <2>7, <2>8 DEF Minted, IInv, Rest
  <2>13. Links'
    BY <1>4, <2>10 DEF Links
  <2>14. TypeOK'
    BY <1>2, <1>4, <2>1, <2>2, <2>5 DEF TypeOK, IInv, answers
  <2> QED BY <2>10, <2>11, <2>12, <2>13, <2>14 DEF IInv, Rest
<1>6. CASE ~(ForeignKey(new) /\ UniqueTag(new))
  <2>1. tables' = tables /\ committer' = None /\ poisoned' = TRUE /\ Finish(t, "error")
    BY <1>1, <1>3, <1>6 DEF now
  <2>2. /\ req' \in [Threads -> Request] /\ req'[t].step = "idle"
        /\ \A u \in Threads : u # t => req'[u] = req[u]
    BY <2>1, Finished DEF IInv, Outcomes
  <2>3. /\ Requests' /\ FreshVersions' /\ FreshContexts'
        /\ \A u \in Threads : At(u, "add_version")' => Link(req[u].ctx, req[u].parent)'
    BY <1>2, <1>3, <1>4, <2>1, <2>2, FlushedRest
  <2>4. Synced' /\ PendingNew' /\ HistoryClosed'
    BY <1>2, <1>3, <1>4, <2>1 DEF Synced, PendingNew, HistoryClosed, IInv, Rest
  <2>5. Minted'
    BY <1>2, <1>4, <2>1 DEF Minted, IInv, Rest
  <2>6. Links'
    BY <1>4, <2>3 DEF Links
  <2>7. TypeOK'
    BY <1>2, <1>4, <2>1, <2>2 DEF TypeOK, IInv, answers
  <2> QED BY <2>3, <2>4, <2>5, <2>6, <2>7 DEF IInv, Rest
<1> QED BY <1>5, <1>6

\* Commit keeps the invariant.
LEMMA CommitIInv ==
  ASSUME IInv, NEW t \in Threads, Commit(t)
  PROVE  IInv'
<1>1. /\ At(t, "commit") /\ disk' = tables /\ committer' = None
      /\ UNCHANGED <<tables, pending.ctx, pending.ver, poisoned, clock, minted, stored>>
      /\ pending' \in PendingObjects
  <2>1. NoObjects.label \in [Contexts -> Labels \cup {None}]
    BY DEF NoObjects
  <2>2. pending \in PendingObjects
    BY DEF IInv, TypeOK
  <2> QED BY <2>1, <2>2 DEF Commit, PendingObjects
<1>2. Proper(req[t]) /\ req[t] \in Request /\ ~Making(t) /\ ~At(t, "add_context")
  BY <1>1 DEF At, Idle, Making, IInv, Rest, Requests, TypeOK
<1>3. /\ req' \in [Threads -> Request] /\ req'[t].step \in {"idle", "reload"}
      /\ req'[t].step # "idle" => Proper(req'[t])
      /\ \A u \in Threads : u # t => req'[u] = req[u]
      /\ removed' \subseteq Contexts
  <2>1. CASE req[t].op = "delete"
    <3>1. Finish(t, "ok") /\ removed' = removed \cup {req[t].ctx}
      BY <2>1 DEF Commit
    <3>2. /\ req' \in [Threads -> Request] /\ req'[t].step = "idle"
          /\ \A u \in Threads : u # t => req'[u] = req[u]
      BY <3>1, Finished DEF IInv, Outcomes
    <3> QED BY <1>2, <3>1, <3>2 DEF Proper, IInv, TypeOK
  <2>2. CASE req[t].op # "delete"
    <3>1. Goto(t, "reload") /\ removed' = removed
      BY <2>2 DEF Commit
    <3>2. /\ req' \in [Threads -> Request]
          /\ req'[t] = [req[t] EXCEPT !.step = "reload"]
          /\ \A u \in Threads : u # t => req'[u] = req[u]
      BY <3>1, Gone DEF IInv, Steps
    <3>3. req'[t].step = "reload" /\ Proper(req'[t])
      BY <1>1, <1>2, <2>2, <3>2 DEF Request, Proper, StepsOf, Ops, At
    <3> QED BY <3>1, <3>2, <3>3 DEF IInv, TypeOK
  <2> QED BY <2>1, <2>2
<1>4. /\ Requests' /\ FreshVersions' /\ FreshContexts'
      /\ \A u \in Threads : At(u, "add_version")' => Link(req[u].ctx, req[u].parent)'
  BY <1>1, <1>2, <1>3, FlushedRest
<1>5. Synced' /\ PendingNew' /\ HistoryClosed' /\ Minted'
  BY <1>1 DEF Synced, PendingNew, HistoryClosed, Minted, IInv, Rest
<1>6. Links'
  <2>1. \A c : Dead(c) => Dead(c)'
    BY <1>1, <1>3 DEF Dead, At
  <2>2. \A v \in Versions : pending.ver[v] # None =>
            Link(pending.ver[v].context, pending.ver[v].parent)'
    BY <1>1, <2>1 DEF IInv, Rest, Links, Link, Dead
  <2> QED BY <1>1, <1>4, <2>2 DEF Links
<1>7. TypeOK'
  BY <1>1, <1>3 DEF TypeOK, IInv
<1> QED BY <1>4, <1>5, <1>6, <1>7 DEF IInv, Rest

-----------------------------------------------------------------------------
(* The process ends and starts again. *)

\* A restart keeps the invariant if what it leaves on disk is closed and has no row
\* from nowhere.
LEMMA RestartIInv ==
  ASSUME IInv, Restart, tables' = disk', disk' \in Tables,
         ForeignKey(disk'), ParentStored(disk'),
         \A c \in Contexts : disk'.ctx[c] # None =>
            tables.ctx[c] # None \/ disk.ctx[c] # None \/ pending.ctx[c] # None,
         \A v \in Versions : disk'.ver[v] # None =>
            tables.ver[v] # None \/ disk.ver[v] # None \/ pending.ver[v] # None
  PROVE  IInv'
<1>1. /\ req' \in [Threads -> Request]
      /\ \A t \in Threads : req'[t].step = "idle"
  BY IdleTyped DEF Restart, Outcomes
<1>2. /\ \A c \in Contexts : pending'.ctx[c] = None
      /\ \A v \in Versions : pending'.ver[v] = None
      /\ pending' \in PendingObjects
  BY NothingPending DEF Restart
<1>3. Requests' /\ FreshVersions' /\ FreshContexts' /\ Links'
  BY <1>1, <1>2 DEF Requests, Idle, At, FreshVersions, Making, FreshContexts, Links
<1>4. Synced' /\ PendingNew' /\ HistoryClosed'
  BY <1>2 DEF Synced, PendingNew, HistoryClosed
<1>5. Minted'
  BY <1>2 DEF Minted, IInv, Rest, Restart
<1>6. TypeOK'
  BY <1>1, <1>2 DEF TypeOK, IInv, Restart, answers
<1> QED BY <1>3, <1>4, <1>5, <1>6 DEF IInv, Rest

\* Crash keeps the invariant.
LEMMA CrashIInv ==
  ASSUME IInv, Crash
  PROVE  IInv'
BY RestartIInv DEF Crash, IInv, Rest, HistoryClosed, TypeOK

\* Shutdown keeps the invariant.
LEMMA ShutdownIInv ==
  ASSUME IInv, Shutdown
  PROVE  IInv'
<1> DEFINE new == Inserted(pending, tables, clock)
<1>1. Restart /\ tables' = disk' /\ clock \in Time
  BY DEF Shutdown, IInv, TypeOK
<1>2. CASE Usable /\ ForeignKey(new) /\ UniqueTag(new)
  <2>1. disk' = Deleted(pending.gone, new)
    BY <1>2 DEF Shutdown
  <2>2. new \in Tables /\ ParentStored(new)
    BY <1>1, <1>2, InsertedRows, WrittenClosed DEF IInv
  <2>3. disk' \in Tables /\ ForeignKey(disk') /\ ParentStored(disk')
    BY <1>2, <2>1, <2>2, DeletedClosed
  <2>4. /\ \A c \in Contexts : new.ctx[c] # None =>
            tables.ctx[c] # None \/ pending.ctx[c] # None
        /\ \A v \in Versions : new.ver[v] # None =>
            tables.ver[v] # None \/ pending.ver[v] # None
    BY <1>1, InsertedRows DEF IInv
  <2>5. /\ \A c \in Contexts : disk'.ctx[c] \in {None, new.ctx[c]}
        /\ \A v \in Versions : disk'.ver[v] \in {None, new.ver[v]}
    <3> HIDE DEF new
    <3> QED BY <2>1 DEF Deleted
  <2> QED BY <1>1, <2>3, <2>4, <2>5, RestartIInv
<1>3. CASE ~(Usable /\ ForeignKey(new) /\ UniqueTag(new))
  <2>1. disk' = disk
    BY <1>3 DEF Shutdown
  <2> QED BY <1>1, <2>1, RestartIInv DEF IInv, Rest, HistoryClosed, TypeOK
<1> QED BY <1>2, <1>3

-----------------------------------------------------------------------------
(* Theorems. *)

\* The store opens with no row and no request: the invariant holds.
THEOREM InitIInv == Init => IInv
<1> SUFFICES ASSUME Init PROVE IInv
  OBVIOUS
<1>1. /\ \A c \in Contexts : tables.ctx[c] = None /\ disk.ctx[c] = None /\ pending.ctx[c] = None
      /\ \A v \in Versions : tables.ver[v] = None /\ disk.ver[v] = None /\ pending.ver[v] = None
      /\ tables \in Tables /\ disk = tables /\ pending \in PendingObjects
  BY NothingPending DEF Init, Tables, PendingObjects, NoObjects
<1>2. /\ req \in [Threads -> Request]
      /\ \A t \in Threads : req[t].step = "idle"
  BY IdleTyped DEF Init, Outcomes
<1>3. TypeOK
  <2>1. 0 \in Time
    BY ClockAssumption DEF Time
  <2> QED BY <1>1, <1>2, <2>1 DEF Init, TypeOK
<1>4. Requests /\ FreshVersions /\ FreshContexts /\ Links
  BY <1>1, <1>2 DEF Requests, Idle, At, FreshVersions, Making, FreshContexts, Links
<1>5. Synced /\ Minted /\ PendingNew /\ HistoryClosed
  BY <1>1 DEF Synced, Minted, PendingNew, HistoryClosed, ForeignKey, ParentStored
<1> QED BY <1>3, <1>4, <1>5 DEF IInv, Rest

\* Whatever the request of thread t does, the invariant survives it.
LEMMA StepIInv ==
  ASSUME IInv, NEW t \in Threads, Step(t)
  PROVE  IInv'
<1>1. ASSUME NEW c \in Contexts, NEW v \in Versions, NEW l \in Labels,
             BeginCreate(t, c, v, l)
      PROVE  IInv'
  BY <1>1, BeginCreateIInv
<1>2. ASSUME NEW c \in Contexts, NEW v \in Versions, BeginUpdate(t, c, v)
      PROVE  IInv'
  BY <1>2, BeginUpdateIInv
<1>3. ASSUME NEW op \in {"delete", "get"}, NEW c \in Contexts, BeginOn(t, op, c, None)
      PROVE  IInv'
  BY <1>3, BeginOnIInv
<1>4. ASSUME NEW c \in Contexts, NEW l \in Labels, BeginOn(t, "label", c, l)
      PROVE  IInv'
  BY <1>4, BeginOnIInv
<1>5. CASE AddContext(t)
  BY <1>5, AddContextIInv
<1>6. CASE AddVersion(t)
  BY <1>6, AddVersionIInv
<1>7. CASE Find(t)
  BY <1>7, FindIInv
<1>8. CASE ReadParent(t)
  BY <1>8, ReadParentIInv
<1>9. CASE ReadLatest(t)
  BY <1>9, ReadLatestIInv
<1>10. CASE SetLabel(t)
  BY <1>10, SetLabelIInv
<1>11. CASE MarkDeleted(t)
  BY <1>11, MarkDeletedIInv
<1>12. CASE Flush(t)
  BY <1>12, FlushIInv
<1>13. CASE Commit(t)
  BY <1>13, CommitIInv
<1>14. CASE Reload(t)
  BY <1>14, ReloadIInv
<1>15. CASE Refused(t)
  BY <1>15, RefusedIInv
<1> QED BY <1>1, <1>2, <1>3, <1>4, <1>5, <1>6, <1>7, <1>8, <1>9, <1>10, <1>11, <1>12,
           <1>13, <1>14, <1>15 DEF Step

\* The invariant says nothing of how a stutter comes about.
LEMMA StutterIInv ==
  ASSUME IInv, UNCHANGED vars
  PROVE  IInv'
<1>1. TypeOK'
  BY DEF IInv, TypeOK, vars
<1>2. Requests' /\ Synced' /\ Minted' /\ PendingNew' /\ HistoryClosed'
  BY DEF IInv, Rest, Requests, Idle, At, Synced, Minted, PendingNew, HistoryClosed, vars
<1>3. FreshVersions' /\ FreshContexts' /\ Links'
  BY DEF IInv, Rest, FreshVersions, Making, FreshContexts, At, Links, Link, Dead, vars
<1> QED BY <1>1, <1>2, <1>3 DEF IInv, Rest

\* No step of a request, no crash and no shutdown breaks the invariant.
THEOREM NextIInv == IInv /\ [Next]_vars => IInv'
<1> SUFFICES ASSUME IInv, [Next]_vars PROVE IInv'
  OBVIOUS
<1>1. CASE \E t \in Threads : Step(t)
  BY <1>1, StepIInv
<1>2. CASE Crash
  BY <1>2, CrashIInv
<1>3. CASE Shutdown
  BY <1>3, ShutdownIInv
<1>4. CASE UNCHANGED vars
  BY <1>4, StutterIInv
<1> QED BY <1>1, <1>2, <1>3, <1>4 DEF Next

\* The invariant holds of every reachable state of the store.
THEOREM Invariant == Spec => []IInv
BY InitIInv, NextIInv, PTL DEF Spec

\* Type correctness of the Context_Store.
THEOREM TypeCorrect == Spec => []TypeOK
<1>1. IInv => TypeOK
  BY DEF IInv
<1> QED BY <1>1, Invariant, PTL

\* No interleaving of requests, failed flushes, crashes and shutdowns leaves a
\* stored version whose context or parent is not stored (update 182-201, the
\* cascade of delete).
THEOREM HistoryIsClosed == Spec => []HistoryClosed
<1>1. IInv => HistoryClosed
  BY DEF IInv, Rest
<1> QED BY <1>1, Invariant, PTL

-----------------------------------------------------------------------------
(* Committed versions do not change. *)

\* The rows of the later database are those of the earlier one, but for new
\* versions and for contexts that went with all they had.
Succeeds(later, earlier) ==
    \A v \in Versions : earlier.ver[v] # None =>
        \/ later.ver[v] = earlier.ver[v]
        \/ later.ver[v] = None /\ later.ctx[earlier.ver[v].context] = None

\* The thread inside commit() is at its second half, and what it is about to
\* commit succeeds what is on disk.
Committing ==
    /\ committer # None => committer \in Threads /\ At(committer, "commit")
    /\ Succeeds(tables, disk)

\* A flush writes rows that succeed those of the tables.
LEMMA WrittenSucceeds ==
  ASSUME IInv, NEW now \in Time
  PROVE  Succeeds(Deleted(pending.gone, Inserted(pending, tables, now)), tables)
<1> DEFINE new == Inserted(pending, tables, now)
           left == Deleted(pending.gone, new)
<1> SUFFICES ASSUME NEW v \in Versions, tables.ver[v] # None
             PROVE  \/ left.ver[v] = tables.ver[v]
                    \/ left.ver[v] = None /\ left.ctx[tables.ver[v].context] = None
  BY DEF Succeeds
<1>1. new.ver[v] = tables.ver[v]
  BY InsertedRows DEF IInv, Rest, PendingNew
<1>2. tables.ver[v].context \in Contexts
  BY DEF IInv, TypeOK, Tables, VersionRow
<1>3. /\ \A c \in Contexts : left.ctx[c] = IF c \in pending.gone THEN None ELSE new.ctx[c]
      /\ left.ver[v] = IF new.ver[v] # None /\ new.ver[v].context \in pending.gone
                       THEN None ELSE new.ver[v]
  <2> HIDE DEF new
  <2> QED BY DEF Deleted
<1> QED BY <1>1, <1>2, <1>3

\* Rows that do not change succeed themselves.
LEMMA SucceedsItself == ASSUME NEW db PROVE Succeeds(db, db)
BY DEF Succeeds

\* A step of another thread, or one before the commit, leaves Committing be.
LEMMA CommittingKept ==
  ASSUME Committing, NEW t \in Threads, ~At(t, "commit"),
         UNCHANGED <<tables, disk, committer>>,
         \A u \in Threads : u # t => req'[u] = req[u]
  PROVE  Committing'
BY DEF Committing, Succeeds, At

\* No step breaks what a commit under way may do to the disk.
LEMMA NextCommitting ==
  ASSUME IInv, Committing, [Next]_vars
  PROVE  Committing'
<1> USE DEF IInv
<1>1. ASSUME NEW t \in Threads, Step(t), ~Flush(t), ~Commit(t)
      PROVE  Committing'
  <2>1. UNCHANGED <<tables, disk, committer>>
    BY <1>1 DEF Step, BeginCreate, BeginUpdate, BeginOn, Begin, AddContext, AddVersion, Find,
                ReadParent, ReadLatest, SetLabel, MarkDeleted, Reload, Refused, database
  <2>2. ~At(t, "commit")
    BY <1>1 DEF Step, BeginCreate, BeginUpdate, BeginOn, Begin, Idle, AddContext, AddVersion,
                Find, ReadParent, ReadLatest, SetLabel, MarkDeleted, Reload, Refused, At
  <2>3. \A u \in Threads : u # t => req'[u] = req[u]
    BY <1>1 DEF Step, BeginCreate, BeginUpdate, BeginOn, Begin, AddContext, AddVersion, Find,
                ReadParent, ReadLatest, SetLabel, MarkDeleted, Reload, Refused, Goto, Finish,
                TypeOK
  <2> QED BY <2>1, <2>2, <2>3, CommittingKept
<1>2. ASSUME NEW t \in Threads, Flush(t)
      PROVE  Committing'
  <2>1. PICK now \in Time :
            \/ /\ tables' = Deleted(pending.gone, Inserted(pending, tables, now))
               /\ committer' = t /\ Goto(t, "commit")
            \/ tables' = disk /\ committer' = None
    BY <1>2 DEF Flush
  <2>2. tables = disk /\ disk' = disk
    BY <1>2 DEF Flush, Rest, Synced
  <2>3. Succeeds(tables', disk')
    BY <2>1, <2>2, WrittenSucceeds, SucceedsItself
  <2>4. Goto(t, "commit") => At(t, "commit")'
    BY DEF Goto, At, TypeOK, Request
  <2> QED BY <2>1, <2>3, <2>4, IdsAssumption DEF Committing, Succeeds, At
<1>3. ASSUME NEW t \in Threads, Commit(t)
      PROVE  Committing'
  BY <1>3, SucceedsItself DEF Commit, Committing, Succeeds
<1>4. ASSUME Crash \/ Shutdown
      PROVE  Committing'
  <2>1. tables' = disk' /\ committer' = None
    BY <1>4 DEF Crash, Shutdown, Restart
  <2> QED BY <2>1, SucceedsItself DEF Committing, Succeeds
<1>5. CASE UNCHANGED vars
  BY <1>5 DEF vars, Committing, Succeeds, At
<1> QED BY <1>1, <1>2, <1>3, <1>4, <1>5 DEF Next

\* Whatever the step, a version on disk stays as it is or goes with its context.
LEMMA NextSucceeds ==
  ASSUME IInv, Committing, [Next]_vars
  PROVE  \A v \in Versions : disk.ver[v] # None =>
            \/ disk'.ver[v] = disk.ver[v]
            \/ disk'.ver[v] = None /\ disk'.ctx[disk.ver[v].context] = None
<1>1. CASE disk' = disk
  BY <1>1
<1>2. CASE disk' = tables
  BY <1>2 DEF Committing, Succeeds
<1>3. CASE Shutdown
  <2>1. committer = None
    BY <1>3 DEF Shutdown, Idle, At, Committing
  <2>2. tables = disk /\ clock \in Time
    BY <2>1 DEF IInv, Rest, Synced, TypeOK
  <2>3. disk' \in {disk, Deleted(pending.gone, Inserted(pending, tables, clock))}
    BY <1>3 DEF Shutdown
  <2> QED BY <1>1, <2>2, <2>3, WrittenSucceeds DEF Succeeds
<1>4. ASSUME NEW t \in Threads, Step(t)
      PROVE  disk' \in {disk, tables}
  BY <1>4 DEF Step, BeginCreate, BeginUpdate, BeginOn, Begin, AddContext, AddVersion, Find,
              ReadParent, ReadLatest, SetLabel, MarkDeleted, Flush, Commit, Reload, Refused,
              database
<1>5. Crash \/ UNCHANGED vars => disk' = disk
  BY DEF Crash, vars
<1> QED BY <1>1, <1>2, <1>3, <1>4, <1>5 DEF Next

\* Committed versions are append-only: a version never changes, and goes only
\* together with its context.
THEOREM Immutability == Spec => VersionsImmutable
<1>1. Init => Committing
  BY SucceedsItself DEF Init, Committing, Succeeds
<1>2. IInv /\ Committing /\ [Next]_vars => Committing'
  BY NextCommitting
<1>3. Spec => []Committing
  BY <1>1, <1>2, Invariant, PTL DEF Spec
<1>4. IInv /\ Committing /\ [Next]_vars =>
        [\A v \in Versions : disk.ver[v] # None =>
            \/ disk'.ver[v] = disk.ver[v]
            \/ disk'.ver[v] = None /\ disk'.ctx[disk.ver[v].context] = None]_vars
  BY NextSucceeds
<1> QED BY <1>3, <1>4, Invariant, PTL DEF Spec, VersionsImmutable

-----------------------------------------------------------------------------
(* Answers last. *)

\* A context whose insert is behind it.
Entered(c) ==
    /\ c \in minted /\ pending.ctx[c] = None
    /\ \A t \in Threads : At(t, "add_context") => req[t].ctx # c

\* Gone from the disk, and for good.
Vanished(c) == Entered(c) /\ tables.ctx[c] = None /\ disk.ctx[c] = None

\* Where version v of context c is on its way to the disk, unless c goes.
Added(c, v) == pending.ver[v] # None /\ pending.ver[v].context = c
Written(c, v) == (tables.ver[v] # None /\ tables.ver[v].context = c) \/ Dead(c)
Lasts(c, v) == (disk.ver[v] # None /\ disk.ver[v].context = c) \/ Vanished(c)

Inserts == \A c \in Contexts :
    tables.ctx[c] # None \/ disk.ctx[c] # None \/ c \in pending.gone => Entered(c)

\* What a request has done so far of what its answer will say.
Promised(t) ==
    LET c == req[t].ctx
        v == req[t].ver
    IN  /\ req[t].op \in {"create", "update"} =>
            /\ At(t, "flush") => poisoned \/ Added(c, v) \/ Written(c, v)
            /\ At(t, "commit") => Written(c, v)
            /\ At(t, "reload") => Lasts(c, v)
        /\ req[t].op = "delete" =>
            /\ At(t, "flush") => poisoned \/ c \in pending.gone \/ Dead(c)
            /\ At(t, "commit") => Dead(c)

Lasting ==
    /\ Inserts
    /\ \A t \in Threads : Promised(t)
    /\ \A cv \in stored : Lasts(cv[1], cv[2])
    /\ \A c \in removed : Vanished(c)

\* What a request hands out and adds, whichever step it takes.
LEMMA StepDraws ==
  ASSUME IInv, NEW t \in Threads, Step(t)
  PROVE  /\ minted \subseteq minted'
         /\ \A u \in Threads : At(u, "add_context")' =>
                \/ At(u, "add_context") /\ req'[u].ctx = req[u].ctx
                \/ req'[u].ctx \notin minted
         /\ \A c \in Contexts :
                \/ pending'.ctx[c] \in {None, pending.ctx[c]}
                \/ At(t, "add_context") /\ req[t].ctx = c
<1> USE DEF IInv
<1>1. req \in [Threads -> Request]
  BY DEF TypeOK
<1>2. ASSUME NEW c \in Contexts, NEW v \in Versions, NEW l \in Labels,
             BeginCreate(t, c, v, l)
      PROVE  /\ minted \subseteq minted' /\ pending' = pending
             /\ \A u \in Threads : u # t => req'[u] = req[u]
             /\ req'[t].ctx = c /\ c \notin minted
  BY <1>1, <1>2 DEF BeginCreate, Begin, IdleRequest
<1>3. ASSUME NEW op \in Ops, NEW c \in Contexts, NEW v \in Versions \cup {None},
             NEW l \in Labels \cup {None}, Begin(t, op, c, v, l, "find")
      PROVE  /\ pending' = pending /\ ~At(t, "add_context")'
             /\ \A u \in Threads : u # t => req'[u] = req[u]
  BY <1>1, <1>3 DEF Begin, IdleRequest, At
<1>4. CASE \/ AddContext(t) \/ AddVersion(t) \/ Find(t) \/ ReadParent(t)
           \/ ReadLatest(t) \/ SetLabel(t) \/ MarkDeleted(t) \/ Flush(t)
           \/ Commit(t) \/ Reload(t) \/ Refused(t)
  <2>1. minted' = minted /\ \A u \in Threads : u # t => req'[u] = req[u]
    BY <1>1, <1>4 DEF AddContext, AddVersion, Find, ReadParent, ReadLatest, SetLabel,
                      MarkDeleted, Flush, Commit, Reload, Refused, Goto, Finish
  <2>2. ~At(t, "add_context")'
    <3>1. ASSUME NEW s, Goto(t, s), s # "add_context"
          PROVE  ~At(t, "add_context")'
      BY <1>1, <3>1 DEF Goto, At, Request
    <3>2. ASSUME NEW o, Finish(t, o)
          PROVE  ~At(t, "add_context")'
      BY <1>1, <3>2 DEF Finish, At, IdleRequest
    <3>3. ReadParent(t) => ~At(t, "add_context")'
      BY <1>1 DEF ReadParent, At, Request
    <3>4. AfterFind(req[t].op) # "add_context"
      BY DEF AfterFind
    <3> QED
      BY <1>4, <3>1, <3>2, <3>3, <3>4
      DEF AddContext, AddVersion, Find, ReadLatest, SetLabel, MarkDeleted, Flush, Commit,
          Reload, Refused
  <2>3. \A c \in Contexts :
            \/ pending'.ctx[c] \in {None, pending.ctx[c]}
            \/ At(t, "add_context") /\ req[t].ctx = c
    <3>1. CASE AddContext(t)
      BY <3>1, PendingTyped DEF AddContext
    <3>2. CASE Flush(t)
      BY <3>2, NothingPending DEF Flush
    <3>3. CASE ~AddContext(t) /\ ~Flush(t)
      <4>1. pending'.ctx = pending.ctx
        BY <1>4, <3>3, PendingTyped
        DEF AddVersion, Find, ReadParent, ReadLatest, SetLabel, MarkDeleted, Commit,
            Reload, Refused, TypeOK, PendingObjects
      <4> QED BY <4>1
    <3> QED BY <3>1, <3>2, <3>3
  <2> QED BY <2>1, <2>2, <2>3 DEF At
<1>5. CASE \E c \in Contexts, v \in Versions, l \in Labels : BeginCreate(t, c, v, l)
  BY <1>2, <1>5 DEF At
<1>6. CASE \E c \in Contexts, v \in Versions : BeginUpdate(t, c, v)
  BY <1>3, <1>6 DEF At, BeginUpdate, Ops
<1>7. CASE \/ \E op \in {"delete", "get"}, c \in Contexts : BeginOn(t, op, c, None)
           \/ \E c \in Contexts, l \in Labels : BeginOn(t, "label", c, l)
  BY <1>3, <1>7 DEF At, BeginOn, Ops
<1> QED BY <1>4, <1>5, <1>6, <1>7 DEF Step

\* What the rows become: those of the later tables succeed those of the earlier.
LEMMA StepWrites ==
  ASSUME IInv, NEW t \in Threads, Step(t)
  PROVE  /\ Succeeds(tables', tables)
         /\ \A c \in Contexts : tables'.ctx[c] # None =>
                tables.ctx[c] # None \/ pending.ctx[c] # None
         /\ disk' \in {disk, tables'}
         /\ ~Flush(t) => tables' = tables
<1> USE DEF IInv
<1>1. CASE Flush(t)
  <2>1. PICK now \in Time :
            \/ tables' = Deleted(pending.gone, Inserted(pending, tables, now))
            \/ tables' = disk
    BY <1>1 DEF Flush
  <2>2. tables = disk /\ disk' = disk
    BY <1>1 DEF Flush, Rest, Synced
  <2>3. CASE tables' = disk
    BY <1>1, <2>2, <2>3, SucceedsItself
  <2>4. \A c \in Contexts :
            Deleted(pending.gone, Inserted(pending, tables, now)).ctx[c]
                \in {None, Inserted(pending, tables, now).ctx[c]}
    BY DEF Deleted
  <2>5. CASE tables' = Deleted(pending.gone, Inserted(pending, tables, now))
    <3>1. Succeeds(tables', tables)
      BY <2>5, WrittenSucceeds
    <3>2. \A c \in Contexts : tables.ctx[c] = None /\ pending.ctx[c] = None =>
                Inserted(pending, tables, now).ctx[c] = None
      BY InsertedRows
    <3> QED BY <1>1, <2>2, <2>4, <2>5, <3>1, <3>2
  <2> QED BY <2>1, <2>3, <2>5
<1>2. CASE ~Flush(t)
  <2>1. tables' = tables /\ disk' \in {disk, tables'}
    BY <1>2 DEF Step, BeginCreate, BeginUpdate, BeginOn, Begin, AddContext, AddVersion, Find,
                ReadParent, ReadLatest, SetLabel, MarkDeleted, Commit, Reload, Refused,
                database
  <2> QED BY <2>1, SucceedsItself
<1> QED BY <1>1, <1>2

\* An insert that is behind a context stays behind it.
LEMMA EnteredStays ==
  ASSUME IInv, NEW t \in Threads, Step(t), NEW c \in Contexts, Entered(c)
  PROVE  Entered(c)'
BY StepDraws DEF Entered

\* A context the open transaction has deleted stays deleted in it.
LEMMA DeadStays ==
  ASSUME IInv, NEW t \in Threads, Step(t), NEW c \in Contexts, Dead(c)
  PROVE  Dead(c)'
BY EnteredStays, StepWrites DEF Dead, Entered

\* A version in the open transaction stays in it, unless its context goes.
LEMMA WrittenStays ==
  ASSUME IInv, Inserts, NEW t \in Threads, Step(t), NEW c \in Contexts, NEW v \in Versions,
         Written(c, v)
  PROVE  Written(c, v)'
<1>1. CASE Dead(c)
  BY <1>1, DeadStays DEF Written
<1>2. CASE tables.ver[v] # None /\ tables.ver[v].context = c
  <2>1. \/ tables'.ver[v] = tables.ver[v]
        \/ tables'.ver[v] = None /\ tables'.ctx[c] = None
    BY <1>2, StepWrites DEF Succeeds
  <2>2. tables.ctx[c] # None
    BY <1>2 DEF IInv, Rest, HistoryClosed, ForeignKey
  <2>3. Entered(c)'
    BY <2>2, EnteredStays DEF Inserts
  <2> QED BY <1>2, <2>1, <2>3 DEF Written, Dead, Entered
<1> QED BY <1>1, <1>2 DEF Written

\* What a step that neither flushes nor adds a version does to the session.
LEMMA StepWaits ==
  ASSUME IInv, NEW t \in Threads, Step(t), ~Flush(t), ~AddVersion(t)
  PROVE  /\ pending'.ver = pending.ver /\ poisoned' = poisoned
         /\ pending.gone \subseteq pending'.gone
         /\ \A c \in pending'.gone : c \in pending.gone \/ tables.ctx[c] # None
<1>1. pending \in PendingObjects
  BY DEF IInv, TypeOK
<1>2. poisoned' = poisoned
  BY DEF Step, BeginCreate, BeginUpdate, BeginOn, Begin, AddContext, Find, ReadParent,
         ReadLatest, SetLabel, MarkDeleted, Commit, Reload, Refused, database
<1>3. CASE AddContext(t)
  BY <1>1, <1>2, <1>3 DEF AddContext, PendingObjects
<1>4. CASE SetLabel(t)
  BY <1>1, <1>2, <1>4 DEF SetLabel, PendingObjects
<1>5. CASE MarkDeleted(t)
  BY <1>1, <1>2, <1>5 DEF MarkDeleted, PendingObjects
<1>6. CASE Commit(t)
  BY <1>1, <1>2, <1>6 DEF Commit, PendingObjects
<1>7. CASE ~AddContext(t) /\ ~SetLabel(t) /\ ~MarkDeleted(t) /\ ~Commit(t)
  <2>1. pending' = pending
    BY <1>7 DEF Step, BeginCreate, BeginUpdate, BeginOn, Begin, Find, ReadParent, ReadLatest,
                Reload, Refused
  <2> QED BY <1>2, <2>1
<1> QED BY <1>3, <1>4, <1>5, <1>6, <1>7

\* A context whose insert a flush has written.
LEMMA FlushedEntered ==
  ASSUME IInv, NEW t \in Threads, Flush(t), NEW c \in Contexts, pending.ctx[c] # None
  PROVE  Entered(c)'
<1>1. c \in minted
  BY DEF IInv, Rest, Minted
<1>2. \A u \in Threads : At(u, "add_context") => req[u].ctx # c
  BY DEF IInv, Rest, FreshContexts
<1>3. pending'.ctx[c] = None
  BY NothingPending DEF Flush
<1>4. Step(t)
  BY DEF Step
<1> QED BY <1>1, <1>2, <1>3, <1>4, StepDraws DEF Entered

\* No step of a request reopens the insert of a context that has a row.
LEMMA InsertsStays ==
  ASSUME IInv, Inserts, NEW t \in Threads, Step(t)
  PROVE  Inserts'
<1> SUFFICES ASSUME NEW c \in Contexts,
                    tables'.ctx[c] # None \/ disk'.ctx[c] # None \/ c \in pending'.gone
             PROVE  Entered(c)'
  BY DEF Inserts
<1>1. CASE tables.ctx[c] # None \/ disk.ctx[c] # None \/ c \in pending.gone
  BY <1>1, EnteredStays DEF Inserts
<1>2. CASE ~(tables.ctx[c] # None \/ disk.ctx[c] # None \/ c \in pending.gone)
  <2>1. c \notin pending'.gone
    <3>1. CASE Flush(t)
      BY <3>1 DEF Flush, NoObjects
    <3>2. CASE AddVersion(t)
      BY <1>2, <3>2 DEF AddVersion, IInv, TypeOK, PendingObjects
    <3> QED BY <1>2, <3>1, <3>2, StepWaits
  <2>2. tables'.ctx[c] # None
    BY <1>2, <2>1, StepWrites
  <2>3. pending.ctx[c] # None
    BY <1>2, <2>2, StepWrites
  <2>4. Flush(t)
    BY <1>2, <2>2, StepWrites
  <2> QED BY <2>3, <2>4, FlushedEntered
<1> QED BY <1>1, <1>2

\* What a flush makes of an object that waits for it.
LEMMA FlushOutcome ==
  ASSUME IInv, Inserts, NEW t \in Threads, Flush(t), ~poisoned',
         NEW c \in Contexts
  PROVE  /\ \A v \in Versions : Added(c, v) => Written(c, v)'
         /\ c \in pending.gone => Dead(c)'
<1>1. PICK now \in Time :
        /\ ForeignKey(Inserted(pending, tables, now))
        /\ tables' = Deleted(pending.gone, Inserted(pending, tables, now))
  BY DEF Flush
<1> DEFINE new == Inserted(pending, tables, now)
<1>2. /\ tables'.ctx[c] = IF c \in pending.gone THEN None ELSE new.ctx[c]
      /\ \A v \in Versions : tables'.ver[v] =
            IF new.ver[v] # None /\ new.ver[v].context \in pending.gone
            THEN None ELSE new.ver[v]
  <2> HIDE DEF new
  <2> QED BY <1>1 DEF Deleted, new
<1>3. Step(t)
  BY DEF Step
<1>4. ASSUME c \in pending.gone
      PROVE  Dead(c)'
  BY <1>2, <1>3, <1>4, EnteredStays DEF Inserts, Entered, Dead
<1>5. ASSUME NEW v \in Versions, Added(c, v)
      PROVE  Written(c, v)'
  <2>1. new.ver[v].context = c
    BY <1>5, InsertedRows DEF IInv, Added
  <2>2. new.ver[v] # None
    <3>1. pending.ver[v] \in NewVersion
      BY <1>5, PendingTyped DEF IInv, Added
    <3>2. Stamped(pending.ver[v], now) \in VersionRow
      BY <3>1 DEF NewVersion, VersionRow, Stamped
    <3>3. new.ver[v] = Stamped(pending.ver[v], now)
      BY <1>5 DEF Added, Inserted, InsertedVersions
    <3> QED BY <3>2, <3>3, RowAssumption
  <2>3. CASE c \in pending.gone
    BY <1>4, <2>3 DEF Written
  <2>4. CASE c \notin pending.gone
    <3> HIDE DEF new
    <3> QED BY <1>2, <2>1, <2>2, <2>4 DEF Written
  <2> QED BY <2>3, <2>4
<1> QED BY <1>4, <1>5

\* An object waits until it is flushed, or the session is poisoned.
LEMMA WaitingStays ==
  ASSUME IInv, Inserts, NEW t \in Threads, Step(t), NEW c \in Contexts
  PROVE  /\ poisoned => poisoned'
         /\ \A v \in Versions : Added(c, v) =>
                poisoned' \/ Added(c, v)' \/ Written(c, v)'
         /\ c \in pending.gone => poisoned' \/ c \in pending'.gone \/ Dead(c)'
<1> USE DEF IInv
<1>1. CASE Flush(t)
  <2>1. poisoned => poisoned'
    BY <1>1 DEF Flush, Usable
  <2> QED BY <1>1, <2>1, FlushOutcome
<1>2. CASE AddVersion(t)
  <2>1. At(t, "add_version") /\ Proper(req[t]) /\ poisoned' = poisoned
    BY <1>2 DEF AddVersion, database, Rest, Requests, Idle, At
  <2>2. Making(t)
    BY <2>1 DEF At, Proper, StepsOf, Ops, Making
  <2>3. pending.ver[req[t].ver] = None
    BY <2>2 DEF Rest, FreshVersions
  <2>4. /\ pending'.gone = pending.gone
        /\ \A v \in Versions : v # req[t].ver => pending'.ver[v] = pending.ver[v]
    BY <1>2, PendingTyped DEF AddVersion, TypeOK, PendingObjects
  <2> QED BY <2>1, <2>3, <2>4 DEF Added
<1>3. CASE ~Flush(t) /\ ~AddVersion(t)
  <2>1. /\ pending'.ver = pending.ver /\ poisoned' = poisoned
        /\ pending.gone \subseteq pending'.gone
    BY <1>3, StepWaits
  <2> QED BY <2>1 DEF Added
<1> QED BY <1>1, <1>2, <1>3

\* What is on the disk for good stays there, whoever steps.
LEMMA LastsStays ==
  ASSUME IInv, Inserts, Committing, NEW t \in Threads, Step(t),
         NEW c \in Contexts, NEW v \in Versions
  PROVE  /\ Vanished(c) => Vanished(c)'
         /\ Lasts(c, v) => Lasts(c, v)'
<1>1. Vanished(c) => Vanished(c)'
  BY EnteredStays, StepWrites DEF Vanished, Entered
<1>2. ASSUME disk.ver[v] # None, disk.ver[v].context = c
      PROVE  Lasts(c, v)'
  <2>1. \/ disk'.ver[v] = disk.ver[v]
        \/ disk'.ver[v] = None /\ disk'.ctx[c] = None
    BY <1>2, NextSucceeds DEF Next
  <2>2. disk.ctx[c] # None
    BY <1>2 DEF IInv, Rest, HistoryClosed, ForeignKey
  <2>3. Entered(c)'
    BY <2>2, EnteredStays DEF Inserts
  <2>4. disk'.ctx[c] = None => tables'.ctx[c] = None
    BY <2>2, StepWrites
  <2> QED BY <1>2, <2>1, <2>3, <2>4 DEF Lasts, Vanished
<1> QED BY <1>1, <1>2 DEF Lasts

\* What another thread's step leaves of a promise.
LEMMA OthersPromised ==
  ASSUME IInv, Lasting, Committing, NEW t \in Threads, Step(t), NEW u \in Threads,
         req'[u] = req[u]
  PROVE  Promised(u)'
<1> DEFINE c == req[u].ctx
           v == req[u].ver
<1>1. Promised(u) /\ Inserts
  BY DEF Lasting
<1>2. CASE Idle(u)
  BY <1>2 DEF Promised, Idle, At
<1>3. CASE ~Idle(u)
  <2>1. c \in Contexts /\ (req[u].op \in {"create", "update"} => v \in Versions)
    BY <1>3 DEF IInv, Rest, Requests, Proper
  <2>2. /\ poisoned => poisoned'
        /\ Dead(c) => Dead(c)'
        /\ c \in pending.gone => poisoned' \/ c \in pending'.gone \/ Dead(c)'
    BY <1>1, <2>1, WaitingStays, DeadStays
  <2>3. ASSUME req[u].op \in {"create", "update"}
        PROVE  /\ Added(c, v) => poisoned' \/ Added(c, v)' \/ Written(c, v)'
               /\ Written(c, v) => Written(c, v)'
               /\ Lasts(c, v) => Lasts(c, v)'
    BY <1>1, <2>1, <2>3, WaitingStays, WrittenStays, LastsStays
  <2>4. ASSUME req[u].op \in {"create", "update"}
        PROVE  /\ At(u, "flush") => poisoned' \/ Added(c, v)' \/ Written(c, v)'
               /\ At(u, "commit") => Written(c, v)'
               /\ At(u, "reload") => Lasts(c, v)'
    BY <1>1, <2>2, <2>3, <2>4 DEF Promised
  <2>5. ASSUME req[u].op = "delete"
        PROVE  /\ At(u, "flush") => poisoned' \/ c \in pending'.gone \/ Dead(c)'
               /\ At(u, "commit") => Dead(c)'
    BY <1>1, <2>2, <2>5 DEF Promised
  <2>6. /\ Added(c, v)' <=> Added(req[u].ctx, req[u].ver)'
        /\ \A s : At(u, s)' <=> At(u, s)
    BY DEF Added, At
  <2> QED BY <2>4, <2>5, <2>6
          DEF Promised, At, Added, Written, Lasts, Dead, Vanished, Entered
<1> QED BY <1>2, <1>3

\* The steps that leave a promise of the thread itself.
LEMMA Promising ==
  ASSUME IInv, NEW t \in Threads, Step(t), ~AddVersion(t), ~SetLabel(t), ~MarkDeleted(t),
         ~Flush(t), ~Commit(t)
  PROVE  Promised(t)'
<1>1. req \in [Threads -> Request]
  BY DEF IInv, TypeOK
<1> SUFFICES req'[t].step \notin {"flush", "commit", "reload"}
  BY DEF Promised, At
<1>2. ASSUME NEW s, Goto(t, s), s \notin {"flush", "commit", "reload"}
      PROVE  req'[t].step \notin {"flush", "commit", "reload"}
  BY <1>1, <1>2 DEF Goto, Request
<1>3. ASSUME NEW o, Finish(t, o)
      PROVE  req'[t].step \notin {"flush", "commit", "reload"}
  BY <1>1, <1>3 DEF Finish, IdleRequest
<1>4. ASSUME NEW op, NEW c, NEW v, NEW l, NEW s \in {"find", "add_context"},
             Begin(t, op, c, v, l, s)
      PROVE  req'[t].step \notin {"flush", "commit", "reload"}
  BY <1>1, <1>4 DEF Begin, IdleRequest
<1>5. ReadParent(t) => req'[t].step \notin {"flush", "commit", "reload"}
  BY <1>1 DEF ReadParent, Request
<1>6. AfterFind(req[t].op) \notin {"flush", "commit", "reload"}
  BY DEF AfterFind
<1>7. CASE AddContext(t) \/ Find(t) \/ ReadLatest(t) \/ Reload(t) \/ Refused(t)
  BY <1>2, <1>3, <1>6, <1>7 DEF AddContext, Find, ReadLatest, Reload, Refused
<1>8. CASE \/ \E c \in Contexts, v \in Versions, l \in Labels : BeginCreate(t, c, v, l)
           \/ \E c \in Contexts, v \in Versions : BeginUpdate(t, c, v)
           \/ \E op \in {"delete", "get"}, c \in Contexts : BeginOn(t, op, c, None)
           \/ \E c \in Contexts, l \in Labels : BeginOn(t, "label", c, l)
  BY <1>4, <1>8 DEF BeginCreate, BeginUpdate, BeginOn
<1> QED BY <1>5, <1>7, <1>8 DEF Step

\* What a request's own step makes of its promise.
LEMMA OwnPromised ==
  ASSUME IInv, Lasting, Committing, NEW t \in Threads, Step(t)
  PROVE  Promised(t)'
<1>0. PICK c, v : c = req[t].ctx /\ v = req[t].ver
  OBVIOUS
<1>1. Promised(t) /\ Inserts /\ req[t] \in Request
  BY DEF Lasting, IInv, TypeOK
<1>2. CASE ~AddVersion(t) /\ ~SetLabel(t) /\ ~MarkDeleted(t) /\ ~Flush(t) /\ ~Commit(t)
  BY <1>2, Promising
<1>3. ASSUME NEW s \in Steps, Goto(t, s)
      PROVE  /\ req'[t].op = req[t].op /\ req'[t].ctx = c /\ req'[t].ver = v
             /\ req'[t].step = s
  BY <1>0, <1>1, <1>3, Gone DEF IInv, Request
<1>4. ASSUME NEW o \in Outcomes, Finish(t, o)
      PROVE  Promised(t)'
  BY <1>4, Finished DEF IInv, Promised, At
<1>5. ~Idle(t) => Proper(req[t])
  BY DEF IInv, Rest, Requests
<1>6. CASE AddVersion(t)
  <2>1. At(t, "add_version") /\ Goto(t, "flush") /\ Proper(req[t])
    BY <1>5, <1>6 DEF AddVersion, At, Idle
  <2>2. req[t].op \in {"create", "update"} /\ c \in Contexts /\ v \in Versions
    BY <1>0, <2>1 DEF At, Proper, StepsOf, Ops
  <2>3. pending'.ver[v] = [context |-> c, parent |-> req[t].parent]
    BY <1>0, <1>6, <2>2, PendingTyped DEF AddVersion, IInv, TypeOK, PendingObjects
  <2>4. [context |-> c, parent |-> req[t].parent] \in NewVersion
    BY <1>1, <2>2 DEF NewVersion, Request
  <2>5. Added(c, v)'
    BY <1>3, <2>1, <2>3, <2>4, RowAssumption DEF Added, Steps
  <2> QED BY <1>3, <2>1, <2>2, <2>5 DEF Promised, At, Steps, Added
<1>7. CASE SetLabel(t)
  <2>1. At(t, "set_label") /\ Goto(t, "flush") /\ Proper(req[t])
    BY <1>5, <1>7 DEF SetLabel, At, Idle
  <2>2. req[t].op = "label"
    BY <2>1 DEF At, Proper, StepsOf, Ops
  <2> QED BY <1>3, <2>1, <2>2 DEF Promised, Steps
<1>8. CASE MarkDeleted(t)
  <2>1. At(t, "mark_deleted") /\ Proper(req[t])
    BY <1>5, <1>8 DEF MarkDeleted, At, Idle
  <2>2. req[t].op = "delete"
    BY <2>1 DEF At, Proper, StepsOf, Ops
  <2>3. CASE Goto(t, "flush") /\ c \in pending'.gone
    BY <1>3, <2>2, <2>3 DEF Promised, At, Steps
  <2>4. CASE Finish(t, "error")
    BY <1>4, <2>4 DEF Outcomes
  <2> QED BY <1>0, <1>8, <2>3, <2>4 DEF MarkDeleted, IInv, TypeOK, PendingObjects
<1>9. CASE Flush(t)
  <2>1. CASE Goto(t, "commit") /\ poisoned' = poisoned
    <3>1. /\ At(t, "flush") /\ Proper(req[t]) /\ ~poisoned /\ ~poisoned'
      BY <1>5, <1>9, <2>1 DEF Flush, Usable, At, Idle
    <3>2. c \in Contexts /\ (req[t].op \in {"create", "update"} => v \in Versions)
      BY <1>0, <3>1 DEF Proper
    <3>3. ASSUME req[t].op \in {"create", "update"}
          PROVE  Written(c, v)'
      BY <1>0, <1>1, <1>9, <3>1, <3>2, <3>3, FlushOutcome, WrittenStays DEF Promised
    <3>4. ASSUME req[t].op = "delete"
          PROVE  Dead(c)'
      BY <1>0, <1>1, <1>9, <3>1, <3>2, <3>4, FlushOutcome, DeadStays DEF Promised
    <3> QED BY <1>3, <2>1, <3>3, <3>4 DEF Promised, At, Steps, Written, Dead
  <2>2. CASE Finish(t, "error")
    BY <1>4, <2>2 DEF Outcomes
  <2> QED BY <1>9, <2>1, <2>2 DEF Flush
<1>10. CASE Commit(t)
  <2>1. At(t, "commit") /\ Proper(req[t]) /\ disk' = tables /\ tables' = tables
    BY <1>5, <1>10 DEF Commit, At, Idle
  <2>2. CASE req[t].op = "delete"
    BY <1>4, <1>10, <2>2 DEF Commit, Outcomes
  <2>3. CASE req[t].op # "delete"
    <3>1. Goto(t, "reload")
      BY <1>10, <2>3 DEF Commit
    <3>2. ASSUME req[t].op \in {"create", "update"}
          PROVE  Lasts(c, v)'
      <4>1. c \in Contexts /\ v \in Versions /\ Written(c, v)
        BY <1>0, <1>1, <2>1, <3>2 DEF Proper, Promised
      <4>2. Dead(c) => Entered(c)' /\ tables.ctx[c] = None
        BY <4>1, EnteredStays DEF Dead, Entered
      <4> QED BY <2>1, <4>1, <4>2 DEF Written, Lasts, Vanished
    <3> QED BY <1>3, <2>3, <3>1, <3>2 DEF Promised, At, Steps, Lasts, Vanished, Entered
  <2> QED BY <2>2, <2>3
<1> QED BY <1>2, <1>6, <1>7, <1>8, <1>9, <1>10

\* Lasting survives a step of a request.
LEMMA StepLasting ==
  ASSUME IInv, Lasting, Committing, NEW t \in Threads, Step(t)
  PROVE  Lasting'
<1>1. Inserts'
  BY InsertsStays DEF Lasting
<1>2. ASSUME NEW u \in Threads
      PROVE  Promised(u)'
  <2>1. u # t => req'[u] = req[u]
    BY DEF IInv, TypeOK, Step, BeginCreate, BeginUpdate, BeginOn, Begin, AddContext, AddVersion,
           Find, ReadParent, ReadLatest, SetLabel, MarkDeleted, Flush, Commit, Reload, Refused,
           Goto, Finish
  <2> QED BY <2>1, OthersPromised, OwnPromised
<1>3. ~Idle(t) => Proper(req[t])
  BY DEF IInv, Rest, Requests
<1>4. ASSUME NEW cv \in stored'
      PROVE  Lasts(cv[1], cv[2])'
  <2>1. CASE cv \in stored
    <3>1. cv[1] \in Contexts /\ cv[2] \in Versions
      BY <2>1 DEF IInv, TypeOK
    <3> QED BY <2>1, <3>1, LastsStays DEF Lasting
  <2>2. CASE cv \notin stored
    <3>1. Reload(t) /\ req[t].op # "label" /\ cv = <<req[t].ctx, req[t].ver>>
      BY <1>4, <2>2 DEF Step, BeginCreate, BeginUpdate, BeginOn, Begin, AddContext, AddVersion,
                        Find, ReadParent, ReadLatest, SetLabel, MarkDeleted, Flush, Commit,
                        Reload, Refused, answers
    <3>2. At(t, "reload") /\ Proper(req[t])
      BY <1>3, <3>1 DEF Reload, At, Idle
    <3>3. req[t].op \in {"create", "update"}
      BY <3>1, <3>2 DEF At, Proper, StepsOf, Ops
    <3>4. cv[1] \in Contexts /\ cv[2] \in Versions /\ Lasts(cv[1], cv[2])
      BY <3>1, <3>2, <3>3 DEF Proper, Lasting, Promised
    <3> QED BY <3>4, LastsStays DEF Lasting
  <2> QED BY <2>1, <2>2
<1>5. ASSUME NEW c \in removed'
      PROVE  Vanished(c)'
  <2>1. CASE c \in removed
    <3>1. c \in Contexts
      BY <2>1 DEF IInv, TypeOK
    <3> QED BY <2>1, <3>1, EnteredStays, StepWrites DEF Lasting, Vanished, Entered
  <2>2. CASE c \notin removed
    <3>1. Commit(t) /\ req[t].op = "delete" /\ c = req[t].ctx
      BY <1>5, <2>2 DEF Step, BeginCreate, BeginUpdate, BeginOn, Begin, AddContext, AddVersion,
                        Find, ReadParent, ReadLatest, SetLabel, MarkDeleted, Flush, Commit,
                        Reload, Refused, answers
    <3>2. At(t, "commit") /\ Proper(req[t]) /\ disk' = tables /\ tables' = tables
      BY <1>3, <3>1 DEF Commit, At, Idle
    <3>3. c \in Contexts /\ Dead(c)
      BY <3>1, <3>2 DEF Proper, Lasting, Promised
    <3> QED BY <3>2, <3>3, EnteredStays DEF Dead, Entered, Vanished
  <2> QED BY <2>1, <2>2
<1> QED BY <1>1, <1>2, <1>4, <1>5 DEF Lasting

\* A restart answers nothing, has nothing under way, and brings nothing back.
LEMMA RestartLasting ==
  ASSUME IInv, Lasting, Committing, Crash \/ Shutdown
  PROVE  Lasting'
<1>1. /\ \A t \in Threads : req'[t].step = "idle"
      /\ \A c \in Contexts : pending'.ctx[c] = None
      /\ pending'.gone = {} /\ tables' = disk'
      /\ UNCHANGED <<minted, stored, removed>>
  BY NothingPending DEF Crash, Shutdown, Restart, IdleRequest, NoObjects, answers
<1>2. \A c \in Contexts : c \in minted => Entered(c)'
  BY <1>1 DEF Entered, At
<1>3. Inserts'
  <2>1. IInv'
    BY NextIInv DEF Next
  <2> QED BY <1>1, <1>2, <2>1 DEF Inserts, IInv, Rest, Minted
<1>4. \A t \in Threads : Promised(t)'
  BY <1>1 DEF Promised, At
<1>5. ASSUME NEW c \in Contexts, Vanished(c)
      PROVE  Vanished(c)'
  <2>1. CASE Crash
    BY <1>1, <1>2, <1>5, <2>1 DEF Crash, Vanished, Entered
  <2>2. CASE Shutdown
    <3>1. clock \in Time
      BY DEF IInv, TypeOK
    <3>2. Inserted(pending, tables, clock).ctx[c] = None
      BY <1>5, <3>1, InsertedRows DEF IInv, Vanished, Entered
    <3>3. Deleted(pending.gone, Inserted(pending, tables, clock)).ctx[c]
            \in {None, Inserted(pending, tables, clock).ctx[c]}
      BY DEF Deleted
    <3>4. disk'.ctx[c] = None
      BY <1>5, <2>2, <3>2, <3>3 DEF Shutdown, Vanished
    <3> QED BY <1>1, <1>2, <1>5, <3>4 DEF Vanished, Entered
  <2> QED BY <2>1, <2>2
<1>6. ASSUME NEW c \in Contexts, NEW v \in Versions, Lasts(c, v)
      PROVE  Lasts(c, v)'
  <2>1. CASE Vanished(c)
    BY <1>5, <2>1 DEF Lasts
  <2>2. CASE disk.ver[v] # None /\ disk.ver[v].context = c
    <3>1. \/ disk'.ver[v] = disk.ver[v]
          \/ disk'.ver[v] = None /\ disk'.ctx[c] = None
      BY <2>2, NextSucceeds DEF Next
    <3>2. c \in minted
      BY <2>2 DEF IInv, Rest, HistoryClosed, ForeignKey, Minted
    <3> QED BY <1>1, <1>2, <2>2, <3>1, <3>2 DEF Lasts, Vanished
  <2> QED BY <1>6, <2>1, <2>2 DEF Lasts
<1>7. \A cv \in stored : cv[1] \in Contexts /\ cv[2] \in Versions /\ Lasts(cv[1], cv[2])
  BY DEF IInv, TypeOK, Lasting
<1>8. \A c \in removed : c \in Contexts /\ Vanished(c)
  BY DEF IInv, TypeOK, Lasting
<1> QED BY <1>1, <1>3, <1>4, <1>5, <1>6, <1>7, <1>8 DEF Lasting

\* A step that changes nothing keeps every promise.
LEMMA StutterLasting ==
  ASSUME Lasting, UNCHANGED vars
  PROVE  Lasting'
BY DEF Lasting, Inserts, Promised, Added, Written, Lasts, Vanished, Dead, Entered, At, vars

\* What create or update has answered for is on disk until its context is
\* deleted, across crashes and other requests' failed flushes, and a context
\* whose deletion was answered never comes back: for any threads and ids.
THEOREM Durability == Spec => []AnswersDurable
<1>1. Init => Lasting
  <2> SUFFICES ASSUME Init PROVE Lasting
    OBVIOUS
  <2>1. \A t \in Threads : req[t].step = "idle"
    BY DEF Init, IdleRequest
  <2> QED BY <2>1 DEF Init, NoObjects, Lasting, Inserts, Promised, At
<1>2. IInv /\ Committing /\ Lasting /\ [Next]_vars => Lasting'
  BY StepLasting, RestartLasting, StutterLasting DEF Next
<1>3. Init => Committing
  BY SucceedsItself DEF Init, Committing, Succeeds
<1>4. IInv /\ Committing /\ [Next]_vars => Committing'
  BY NextCommitting
<1>5. Lasting => AnswersDurable
  BY DEF Lasting, Lasts, Vanished, AnswersDurable
<1> QED BY <1>1, <1>2, <1>3, <1>4, <1>5, Invariant, PTL DEF Spec

-----------------------------------------------------------------------------
(* The SDK's calls: the invariant of the composition with SdkStore. *)

\* An answer was given for a version of context c.
Known(c) == \E v \in Versions : <<c, v>> \in stored

\* Somebody has asked for the deletion of context c.
Condemned(c) == Of(c, {"delete"}) # {}

\* What is known of a call by how far it and its request have come.
Booked(q) ==
    /\ ~Made(q) => /\ work[q] = "none" /\ call[q].op = None /\ call[q].ver = None
                   /\ call[q].result = "none" /\ ~call[q].existed /\ ~call[q].deleted
    /\ Waiting(q) => call[q].result = "none"
    /\ call[q].op = "create" => ~call[q].existed /\ ~call[q].deleted
    /\ Made(q) =>
        /\ call[q].op \in Ops /\ (call[q].op # "create" => call[q].ctx \in Contexts)
        /\ call[q].label \in IF call[q].op \in {"create", "label"} THEN Labels ELSE {None}
    /\ work[q] = "queued" => call[q].ver = None
    /\ work[q] = "invalid" \/ call[q].result = "connection_error" => call[q].ver = None
    /\ call[q].result = "connection_error" => work[q] = "none"
    /\ call[q].result \in {"returned", "not_found", "validation"} =>
        call[q].result = raise_for_status(work[q])
    /\ call[q].ver # None => call[q].op \in {"create", "update"}

\* The thread that runs a request runs what its call asked for, and no other
\* thread does.
Serving(t) ==
    /\ worker[t] = None <=> Idle(t)
    /\ \A q \in Calls : worker[t] = q =>
        /\ work[q] = "running"
        /\ req[t].op = call[q].op /\ req[t].ctx = call[q].ctx
        /\ req[t].op \in {"create", "update"} => req[t].ver = call[q].ver
        /\ req[t].op = "label" => req[t].label = call[q].label
        /\ \A u \in Threads : worker[u] = q => u = t

\* A version id that was handed out and will never be written.
Unwritten(v) ==
    /\ v \in minted
    /\ tables.ver[v] = None /\ disk.ver[v] = None /\ pending.ver[v] = None
    /\ \A t \in Threads : Making(t) => req[t].ver # v

\* What the session and the disk have of ids that requests will yet write, of
\* who is inside commit(), and of contexts nobody asks to delete.
Kept ==
    /\ \A t \in Threads : Making(t) => disk.ver[req[t].ver] = None
    /\ \A t \in Threads : At(t, "commit") => committer = t
    /\ \A c \in Contexts : ~Condemned(c) =>
        /\ c \notin pending.gone
        /\ disk.ctx[c] # None => tables.ctx[c] # None
        /\ \A v \in Versions : <<c, v>> \in stored => disk.ctx[c] # None

\* The thread runs create or update; each of these writes a version of its own.
Writes(t) == ~Idle(t) /\ req[t].op \in {"create", "update"}
Owned ==
    \A t \in Threads : Writes(t) =>
        LET v == req[t].ver
            c == req[t].ctx
        IN  /\ v \in minted
            /\ \A u \in Threads : Writes(u) /\ req[u].ver = v => u = t
            /\ tables.ver[v] # None => tables.ver[v].context = c
            /\ pending.ver[v] # None => pending.ver[v].context = c

\* What was answered before a call was made decides its answer.
Ordered(q) ==
    /\ call[q].existed => Known(call[q].ctx)
    /\ call[q].existed /\ work[q] = "not_found" => Condemned(call[q].ctx)
    /\ call[q].deleted =>
        /\ call[q].ctx \in removed /\ work[q] # "ok"
        /\ \A t \in Threads : worker[t] = q => At(t, "find")

\* What a request that has ended has left behind.
Answered(q) ==
    /\ work[q] = "ok" /\ call[q].op \in {"create", "update"} =>
        <<call[q].ctx, call[q].ver>> \in stored
    /\ work[q] = "not_found" /\ call[q].ver # None => Unwritten(call[q].ver)

\* A label call that no other of its context ran beside, and whose attribute
\* no commit() took away.
Alone(q) ==
    /\ Made(q) /\ call[q].op = "label" /\ ~call[q].contended
    => \A p \in Of(call[q].ctx, {"label"}) : p # q => ~InProgress(p)
Undisturbed(q) ==
    /\ Made(q) /\ call[q].op = "label" /\ ~Condemned(call[q].ctx)
    /\ ~call[q].contended /\ ~call[q].missed

\* Where the label l of context c is on its way to the disk.
LabelPending(c, l) == tables.ctx[c] # None /\ committer = None /\ pending.label[c] = l
LabelWritten(c, l) == tables.ctx[c] = l /\ pending.label[c] = None
Carried(t, c, l) ==
    /\ At(t, "set_label") => tables.ctx[c] # None
    /\ At(t, "flush") => poisoned \/ LabelPending(c, l) \/ LabelWritten(c, l)
    /\ At(t, "commit") => LabelWritten(c, l)
    /\ At(t, "reload") => LabelWritten(c, l) /\ disk.ctx[c] = l
Labelled(q) ==
    LET c == call[q].ctx
        l == call[q].label
    IN  Undisturbed(q) =>
        /\ work[q] = "ok" => LabelWritten(c, l) /\ disk.ctx[c] = l
        /\ \A t \in Threads : worker[t] = q => Carried(t, c, l)

StoreIInv == IInv /\ Committing /\ Lasting
CallsBooked == \A q \in Calls : Booked(q) /\ Ordered(q) /\ Answered(q) /\ Alone(q) /\ Labelled(q)
Served == \A t \in Threads : Serving(t)
SdkIInv == StoreIInv /\ Owned /\ SdkTypeOK /\ Served /\ Kept /\ CallsBooked
-----------------------------------------------------------------------------
(* What a step of the store does to rows that the calls ask about. *)

\* A nonempty set of naturals has a least element.
LEMMA LeastTime ==
  ASSUME NEW S \in SUBSET Nat, S # {}
  PROVE  \E n \in S : \A m \in S : n <= m
<1> DEFINE Less == {p \in Nat \X Nat : p[1] < p[2]}
<1>1. OpToRel(<, Nat) = Less
  BY DEF OpToRel
<1>2. \A m \in S, n \in S : m < n => <<m, n>> \in Less
  OBVIOUS
<1> HIDE DEF Less
<1>3. IsWellFoundedOn(Less, Nat)
  BY <1>1, NatLessThanWellFounded
<1>4. PICK n \in S : \A m \in S : ~ (<<m, n>> \in Less)
  BY <1>3, WFMin
<1>5. \A m \in S : m \in Nat /\ n \in Nat /\ ~(m < n)
  BY <1>2, <1>4
<1> QED BY <1>5

\* A context that has versions has a latest one.
LEMMA LatestExists ==
  ASSUME NEW db \in Tables, NEW c \in Contexts, VersionsOf(db, c) # {}
  PROVE  Latest(db, c) # {}
<1> DEFINE left == {MaxTime - db.ver[v].created_at : v \in VersionsOf(db, c)}
<1>1. \A v \in VersionsOf(db, c) : v \in Versions /\ db.ver[v].created_at \in Time
  BY DEF VersionsOf, Tables, VersionRow
<1>2. left \in SUBSET Nat
  BY <1>1, ClockAssumption DEF Time
<1>3. left # {}
  OBVIOUS
<1>4. PICK least \in left : \A n \in left : least <= n
  <2> HIDE DEF left
  <2> QED BY <1>2, <1>3, LeastTime
<1>5. PICK v \in VersionsOf(db, c) : least = MaxTime - db.ver[v].created_at
  BY <1>4
<1>6. \A w \in VersionsOf(db, c) : db.ver[w].created_at <= db.ver[v].created_at
  <2> TAKE w \in VersionsOf(db, c)
  <2>1. MaxTime - db.ver[v].created_at <= MaxTime - db.ver[w].created_at
    BY <1>4, <1>5
  <2> QED BY <1>1, <2>1, ClockAssumption DEF Time
<1> QED BY <1>6 DEF Latest

\* A context with a row that nobody has marked for deletion keeps it, and a
\* flush writes to it the label that waits.
LEMMA RowKept ==
  ASSUME IInv, Inserts, NEW t \in Threads, Step(t), NEW c \in Contexts,
         c \notin pending.gone, tables.ctx[c] # None
  PROVE  /\ tables'.ctx[c] # None
         /\ pending.label[c] = None => tables'.ctx[c] = tables.ctx[c]
         /\ Flush(t) => /\ pending'.label[c] = None
                        /\ poisoned' \/ pending.label[c] = None
                                     \/ tables'.ctx[c] = pending.label[c]
<1>1. CASE ~Flush(t)
  BY <1>1, StepWrites
<1>2. CASE Flush(t)
  <2>1. PICK now \in Time :
            \/ tables' = Deleted(pending.gone, Inserted(pending, tables, now))
            \/ tables' = disk /\ poisoned'
    BY <1>2 DEF Flush
  <2>2. tables = disk /\ pending'.label[c] = None
    BY <1>2 DEF Flush, IInv, Rest, Synced, NoObjects
  <2>3. pending.ctx[c] = None
    BY DEF Inserts, Entered
  <2>4. Inserted(pending, tables, now).ctx[c]
            = IF pending.label[c] # None THEN pending.label[c] ELSE tables.ctx[c]
    BY <2>3 DEF Inserted, InsertedContexts
  <2>5. Deleted(pending.gone, Inserted(pending, tables, now)).ctx[c]
            = Inserted(pending, tables, now).ctx[c]
    BY DEF Deleted
  <2> QED BY <2>1, <2>2, <2>4, <2>5
<1> QED BY <1>1, <1>2

\* Which version ids a step draws and which it adds.
LEMMA VersionDraws ==
  ASSUME IInv, NEW t \in Threads, Step(t)
  PROVE  /\ \A u \in Threads : Making(u)' =>
                \/ Making(u) /\ req'[u].ver = req[u].ver
                \/ req'[u].ver \notin minted
         /\ \A v \in Versions :
                \/ pending'.ver[v] \in {None, pending.ver[v]}
                \/ Making(t) /\ req[t].ver = v
<1> USE DEF IInv
<1>1. req \in [Threads -> Request] /\ \A u \in Threads : ~Idle(u) => Proper(req[u])
  BY DEF TypeOK, Rest, Requests
<1>2. \A u \in Threads : u # t => req'[u] = req[u]
  BY <1>1 DEF Step, BeginCreate, BeginUpdate, BeginOn, Begin, AddContext, AddVersion, Find,
              ReadParent, ReadLatest, SetLabel, MarkDeleted, Flush, Commit, Reload, Refused,
              Goto, Finish
<1>3. Making(t)' => (Making(t) /\ req'[t].ver = req[t].ver) \/ req'[t].ver \notin minted
  <2>1. ASSUME NEW s, Goto(t, s)
        PROVE  req'[t].ver = req[t].ver /\ req'[t].op = req[t].op /\ req'[t].step = s
    BY <1>1, <2>1 DEF Goto, Request
  <2>2. ASSUME NEW o, Finish(t, o)
        PROVE  ~Making(t)'
    BY <1>1, <2>2 DEF Finish, IdleRequest, Making
  <2>3. ASSUME NEW op, NEW c, NEW v, NEW l, NEW s, Begin(t, op, c, v, l, s)
        PROVE  req'[t].ver = v /\ req'[t].op = op
    BY <1>1, <2>3 DEF Begin, IdleRequest
  <2>4. CASE \E c \in Contexts, v \in Versions, l \in Labels : BeginCreate(t, c, v, l)
    BY <2>3, <2>4 DEF BeginCreate
  <2>5. CASE \E c \in Contexts, v \in Versions : BeginUpdate(t, c, v)
    BY <2>3, <2>5 DEF BeginUpdate
  <2>6. CASE \/ \E op \in {"delete", "get"}, c \in Contexts : BeginOn(t, op, c, None)
             \/ \E c \in Contexts, l \in Labels : BeginOn(t, "label", c, l)
    BY <2>3, <2>6 DEF BeginOn, Making
  <2>7. CASE AddContext(t) \/ Find(t)
    <3>1. AddContext(t) => req[t].op = "create"
      BY <1>1 DEF AddContext, At, Idle, Proper, StepsOf, Ops
    <3> QED BY <2>1, <2>2, <2>7, <3>1 DEF AddContext, Find, Making, At
  <2>8. CASE ReadParent(t)
    BY <1>1, <2>8 DEF ReadParent, Request, Making, At
  <2>9. CASE AddVersion(t) \/ ReadLatest(t) \/ SetLabel(t) \/ MarkDeleted(t) \/ Flush(t)
             \/ Commit(t) \/ Reload(t) \/ Refused(t)
    BY <2>1, <2>2, <2>9 DEF AddVersion, ReadLatest, SetLabel, MarkDeleted, Flush, Commit,
                            Reload, Refused, Making
  <2> QED BY <2>4, <2>5, <2>6, <2>7, <2>8, <2>9 DEF Step
<1>4. ASSUME NEW v \in Versions
      PROVE  \/ pending'.ver[v] \in {None, pending.ver[v]}
             \/ Making(t) /\ req[t].ver = v
  <2>1. CASE AddVersion(t)
    <3>1. Making(t)
      BY <1>1, <2>1 DEF AddVersion, At, Idle, Proper, StepsOf, Ops, Making
    <3> QED BY <2>1, <3>1, PendingTyped DEF AddVersion, TypeOK, PendingObjects
  <2>2. CASE Flush(t)
    BY <2>2, NothingPending DEF Flush
  <2>3. CASE ~AddVersion(t) /\ ~Flush(t)
    BY <2>3, StepWaits
  <2> QED BY <2>1, <2>2, <2>3
<1> QED BY <1>2, <1>3, <1>4 DEF Making

\* No step writes a version that nobody has added.
LEMMA VersionWrites ==
  ASSUME IInv, NEW t \in Threads, Step(t), NEW v \in Versions
  PROVE  tables'.ver[v] # None => tables.ver[v] # None \/ pending.ver[v] # None
<1>1. CASE Flush(t)
  <2>1. PICK now \in Time :
            \/ tables' = Deleted(pending.gone, Inserted(pending, tables, now))
            \/ tables' = disk
    BY <1>1 DEF Flush
  <2>2. tables = disk
    BY <1>1 DEF Flush, IInv, Rest, Synced
  <2>3. pending.ver[v] = None => Inserted(pending, tables, now).ver[v] = tables.ver[v]
    BY InsertedRows DEF IInv
  <2>4. Deleted(pending.gone, Inserted(pending, tables, now)).ver[v]
            \in {None, Inserted(pending, tables, now).ver[v]}
    BY DEF Deleted
  <2> QED BY <2>1, <2>2, <2>3, <2>4
<1> QED BY <1>1, StepWrites

\* An unwritten version stays so, whatever the store does.
LEMMA UnwrittenStays ==
  ASSUME IInv, [Next]_vars, NEW v \in Versions, Unwritten(v)
  PROVE  Unwritten(v)'
<1>1. ASSUME NEW t \in Threads, Step(t)
      PROVE  Unwritten(v)'
  BY <1>1, VersionDraws, VersionWrites, StepDraws, StepWrites DEF Unwritten
<1>2. CASE Crash \/ Shutdown
  <2>1. /\ \A t \in Threads : ~Making(t)'
        /\ pending'.ver[v] = None /\ tables' = disk' /\ minted' = minted
    BY <1>2, NothingPending DEF Crash, Shutdown, Restart, IdleRequest, Making
  <2>2. clock \in Time
    BY DEF IInv, TypeOK
  <2>3. Inserted(pending, tables, clock).ver[v] = None
    BY <2>2, InsertedRows DEF IInv, Unwritten
  <2>4. Deleted(pending.gone, Inserted(pending, tables, clock)).ver[v]
            \in {None, Inserted(pending, tables, clock).ver[v]}
    BY DEF Deleted
  <2>5. disk'.ver[v] = None
    BY <1>2, <2>3, <2>4 DEF Crash, Shutdown, Unwritten
  <2> QED BY <2>1, <2>5 DEF Unwritten
<1>3. CASE UNCHANGED vars
  BY <1>3 DEF vars, Unwritten, Making
<1> QED BY <1>1, <1>2, <1>3 DEF Next

-----------------------------------------------------------------------------
(* How calls change. *)

\* What a call keeps from being made, if it is not create's context.
SameArguments(p) ==
    /\ call'[p].op = call[p].op /\ call'[p].label = call[p].label
    /\ call'[p].existed = call[p].existed /\ call'[p].deleted = call[p].deleted
SameIds(p) == call'[p].ctx = call[p].ctx /\ call'[p].ver = call[p].ver
SameEnd(p) == call'[p].at = call[p].at /\ call'[p].result = call[p].result
Notes(p) ==
    /\ call[p].contended => call'[p].contended
    /\ call[p].missed => call'[p].missed

\* A call that is made leaves the others as they are, but for its effect on
\* what they can be held to.
LEMMA AsksOthers ==
  ASSUME SdkTypeOK, NEW q \in Calls, NEW op, NEW arg, NEW at, NEW result,
         Asked(q, op, arg, at, result), NEW p \in Calls, p # q
  PROVE  /\ call'[p] \in Call
         /\ SameArguments(p) /\ SameIds(p) /\ SameEnd(p) /\ Notes(p)
         /\ Contends(op, arg.ctx, p) => call'[p].contended
<1>1. PICK was \in Call : was = call[p]
  BY DEF SdkTypeOK
<1>2. PICK more \in BOOLEAN : more = (was.contended \/ Contends(op, arg.ctx, p))
  BY <1>1 DEF Call
<1>3. PICK last : last = [was EXCEPT !.contended = more]
  OBVIOUS
<1>4. call'[p] = last
  BY <1>1, <1>2, <1>3 DEF Asked
<1>5. /\ last \in Call /\ last.op = was.op /\ last.ctx = was.ctx
      /\ last.label = was.label /\ last.at = was.at
      /\ last.result = was.result /\ last.ver = was.ver
      /\ last.existed = was.existed /\ last.deleted = was.deleted
      /\ last.missed = was.missed /\ last.contended = more
  BY <1>1, <1>3 DEF Call
<1> QED BY <1>1, <1>2, <1>4, <1>5 DEF SameArguments, SameIds, SameEnd, Notes

\* A call that is made knows what was answered before.
LEMMA AsksCall ==
  ASSUME SdkTypeOK, NEW q \in Calls, NEW op \in Ops, NEW arg \in Arguments(op),
         NEW at \in {"waiting", "over"}, NEW result \in Results,
         Asked(q, op, arg, at, result)
  PROVE  /\ call' \in [Calls -> Call]
         /\ call'[q].op = op /\ call'[q].ctx = arg.ctx /\ call'[q].label = arg.label
         /\ call'[q].at = at /\ call'[q].result = result /\ call'[q].ver = None
         /\ call'[q].existed <=> Known(arg.ctx)
         /\ call'[q].deleted <=> (arg.ctx \in removed)
         /\ call'[q].contended <=> (\E r \in Of(arg.ctx, {"label"}) : ~Settled(r))
         /\ arg.ctx \in Contexts \cup {None} /\ (op # "create" => arg.ctx \in Contexts)
         /\ arg.ctx = None <=> op = "create"
         /\ arg.label \in IF op \in {"create", "label"} THEN Labels ELSE {None}
<1>1. /\ arg.ctx \in Contexts \cup {None} /\ (op # "create" => arg.ctx \in Contexts)
      /\ arg.ctx = None <=> op = "create"
      /\ arg.label \in IF op \in {"create", "label"} THEN Labels ELSE {None}
  BY IdsAssumption DEF Arguments
<1>2. PICK e \in BOOLEAN : e = (\E v \in Versions : <<arg.ctx, v>> \in stored)
  OBVIOUS
<1>3. PICK d \in BOOLEAN : d = (arg.ctx \in removed)
  <2>1. (arg.ctx \in removed) \in BOOLEAN
    OBVIOUS
  <2> QED BY <2>1
<1>4. PICK b \in BOOLEAN : b = (\E r \in Of(arg.ctx, {"label"}) : ~Settled(r))
  OBVIOUS
<1>5. PICK new : new = [op |-> op, ctx |-> arg.ctx, ver |-> None, label |-> arg.label,
                        at |-> at, result |-> result, existed |-> e, deleted |-> d,
                        contended |-> b, missed |-> FALSE]
  OBVIOUS
<1>6. call'[q] = new
  BY <1>2, <1>3, <1>4, <1>5 DEF Asked
<1>7. arg.ctx \in Contexts \cup {None} /\ arg.label \in Labels \cup {None}
  BY <1>1
<1>8. /\ new \in Call /\ new.op = op /\ new.ctx = arg.ctx /\ new.label = arg.label
      /\ new.at = at /\ new.result = result /\ new.ver = None
      /\ new.existed = e /\ new.deleted = d /\ new.contended = b
  BY <1>5, <1>7 DEF Call
<1>9. call' \in [Calls -> Call]
  <2>1. \A p \in Calls : call'[p] \in Call
    BY <1>6, <1>8, AsksOthers
  <2>2. call' = [p \in Calls |-> call'[p]]
    BY DEF Asked
  <2> QED BY <2>1, <2>2
<1> QED BY <1>1, <1>2, <1>3, <1>4, <1>6, <1>8, <1>9 DEF Known

\* The end of a call changes only how it ended.
LEMMA EndsCall ==
  ASSUME SdkTypeOK, NEW q \in Calls, NEW result \in Results, Ends(q, result)
  PROVE  /\ call' \in [Calls -> Call]
         /\ SameArguments(q) /\ SameIds(q) /\ Notes(q)
         /\ call'[q].at = "over" /\ call'[q].result = result
         /\ call'[q].contended = call[q].contended /\ call'[q].missed = call[q].missed
         /\ \A p \in Calls : p # q => call'[p] = call[p]
<1> DEFINE new == [call[q] EXCEPT !.at = "over", !.result = result]
<1>1. call \in [Calls -> Call]
  BY DEF SdkTypeOK
<1>2. call' = [call EXCEPT ![q] = new]
  BY <1>1 DEF Ends
<1>3. /\ new \in Call /\ new.op = call[q].op /\ new.ctx = call[q].ctx /\ new.label = call[q].label
      /\ new.at = "over" /\ new.result = result /\ new.ver = call[q].ver
      /\ new.existed = call[q].existed /\ new.deleted = call[q].deleted
      /\ new.contended = call[q].contended /\ new.missed = call[q].missed
  BY <1>1 DEF Call
<1> HIDE DEF new
<1> QED BY <1>1, <1>2, <1>3 DEF SameArguments, SameIds, Notes

\* What the caller is told.
LEMMA Replies ==
  ASSUME NEW reply
  PROVE  /\ raise_for_status(reply) \in Results \ {"none", "connection_error", "escaped"}
         /\ raise_for_status(reply) = "returned" => reply = "ok"
         /\ raise_for_status(reply) = "not_found" => reply = "not_found"
         /\ raise_for_status(reply) = "validation" => reply = "invalid"
BY DEF raise_for_status, Results

\* Taking a request gives the call the ids that its request draws.
LEMMA TakesCall ==
  ASSUME SdkTypeOK, NEW q \in Calls, Takes(q)
  PROVE  /\ call' \in [Calls -> Call]
         /\ SameArguments(q) /\ SameEnd(q) /\ Notes(q)
         /\ call'[q].contended = call[q].contended /\ call'[q].missed = call[q].missed
         /\ call[q].op # "create" => call'[q].ctx = call[q].ctx
         /\ call[q].op \notin {"create", "update"} => call'[q].ver = call[q].ver
         /\ \A p \in Calls : p # q => call'[p] = call[p]
<1>1. call \in [Calls -> Call]
  BY DEF SdkTypeOK
<1>2. PICK c \in Contexts \cup {None}, v \in Versions \cup {None} :
        /\ call' = [call EXCEPT ![q] = [call[q] EXCEPT !.ctx = c, !.ver = v]]
        /\ call[q].op # "create" => c = call[q].ctx
        /\ call[q].op \notin {"create", "update"} => v = call[q].ver
  <2>1. CASE \E c \in Contexts, v \in Versions :
                call[q].op = "create" /\ call' = [call EXCEPT ![q].ctx = c, ![q].ver = v]
    BY <1>1, <2>1
  <2>2. CASE \E v \in Versions :
                call[q].op = "update" /\ call' = [call EXCEPT ![q].ver = v]
    <3>1. PICK v \in Versions :
                call[q].op = "update" /\ call' = [call EXCEPT ![q].ver = v]
      BY <2>2
    <3>2. PICK old \in Call : old = call[q]
      BY <1>1
    <3>3. [old EXCEPT !.ver = v] = [old EXCEPT !.ctx = old.ctx, !.ver = v]
      BY DEF Call
    <3>4. old.ctx \in Contexts \cup {None}
      BY DEF Call
    <3>5. call' = [call EXCEPT ![q] = [old EXCEPT !.ver = v]]
      BY <1>1, <3>1, <3>2
    <3> QED BY <3>1, <3>2, <3>3, <3>4, <3>5
  <2>3. CASE call[q].op \in {"label", "delete", "get"} /\ UNCHANGED call
    <3>1. PICK old \in Call : old = call[q]
      BY <1>1
    <3>2. old = [old EXCEPT !.ctx = old.ctx, !.ver = old.ver]
      BY DEF Call
    <3>3. old.ctx \in Contexts \cup {None} /\ old.ver \in Versions \cup {None}
      BY DEF Call
    <3>4. call' = [call EXCEPT ![q] = old]
      BY <1>1, <2>3, <3>1
    <3> QED BY <2>3, <3>1, <3>2, <3>3, <3>4
  <2> QED BY <2>1, <2>2, <2>3 DEF Takes
<1>3. PICK old \in Call : old = call[q]
  BY <1>1
<1>4. PICK new : new = [old EXCEPT !.ctx = c, !.ver = v]
  OBVIOUS
<1>5. /\ new \in Call /\ new.op = old.op /\ new.ctx = c /\ new.label = old.label
      /\ new.at = old.at /\ new.result = old.result /\ new.ver = v
      /\ new.existed = old.existed /\ new.deleted = old.deleted
      /\ new.contended = old.contended /\ new.missed = old.missed
  BY <1>3, <1>4 DEF Call
<1>6. call' = [call EXCEPT ![q] = new]
  BY <1>2, <1>3, <1>4
<1>7. call'[q] = new /\ (\A p \in Calls : p # q => call'[p] = call[p]) /\ call' \in [Calls -> Call]
  BY <1>1, <1>5, <1>6
<1> QED BY <1>2, <1>3, <1>5, <1>7 DEF SameArguments, SameEnd, Notes

\* Serving a request notes whether its label was set inside a commit.
LEMMA ServesCall ==
  ASSUME SdkTypeOK, NEW t \in Threads, Serves(t)
  PROVE  /\ call' \in [Calls -> Call]
         /\ \A p \in Calls : SameArguments(p) /\ SameIds(p) /\ SameEnd(p) /\ Notes(p)
         /\ \A p \in Calls : /\ call'[p].contended = call[p].contended
                             /\ p # worker[t] => call'[p] = call[p]
         /\ At(t, "set_label") /\ committer # None =>
                \A p \in Calls : worker[t] = p => call'[p].missed
<1>1. call \in [Calls -> Call]
  BY DEF SdkTypeOK
<1>2. CASE worker[t] \notin Calls
  <2>1. call' = call
    BY <1>1, <1>2 DEF Serves
  <2> QED BY <1>1, <1>2, <2>1 DEF SameArguments, SameIds, SameEnd, Notes
<1>3. CASE worker[t] \in Calls
  <2>1. PICK q \in Calls : worker[t] = q
    BY <1>3
  <2>2. PICK old \in Call : old = call[q]
    BY <1>1
  <2>3. PICK more \in BOOLEAN :
            more = (old.missed \/ (At(t, "set_label") /\ committer # None))
    BY DEF Call
  <2>4. PICK new : new = [old EXCEPT !.missed = more]
    OBVIOUS
  <2>5. /\ new \in Call /\ new.op = old.op /\ new.ctx = old.ctx /\ new.label = old.label
        /\ new.at = old.at /\ new.result = old.result /\ new.ver = old.ver
        /\ new.existed = old.existed /\ new.deleted = old.deleted
        /\ new.contended = old.contended /\ new.missed = more
    BY <2>2, <2>4 DEF Call
  <2>6. call' = [call EXCEPT ![q] = new]
    BY <1>1, <2>1, <2>2, <2>3, <2>4 DEF Serves
  <2>7. call'[q] = new /\ (\A p \in Calls : p # q => call'[p] = call[p])
        /\ call' \in [Calls -> Call]
    BY <1>1, <2>5, <2>6
  <2> QED BY <2>1, <2>2, <2>3, <2>5, <2>7 DEF SameArguments, SameIds, SameEnd, Notes
<1> QED BY <1>2, <1>3

\* A dying daemon ends the calls that wait for it.
LEMMA DiesCall ==
  ASSUME SdkTypeOK, Dies
  PROVE  /\ call' \in [Calls -> Call]
         /\ \A p \in Calls :
                /\ SameArguments(p) /\ SameIds(p) /\ Notes(p)
                /\ call'[p].contended = call[p].contended /\ call'[p].missed = call[p].missed
                /\ \/ Waiting(p) /\ call'[p].at = "over" /\ call'[p].result = "escaped"
                   \/ ~Waiting(p) /\ SameEnd(p)
<1>1. call \in [Calls -> Call]
  BY DEF SdkTypeOK
<1> DEFINE new(p) == [call[p] EXCEPT !.at = "over", !.result = "escaped"]
<1>2. ASSUME NEW p \in Calls
      PROVE  /\ new(p) \in Call /\ new(p).op = call[p].op /\ new(p).ctx = call[p].ctx
             /\ new(p).label = call[p].label /\ new(p).ver = call[p].ver
             /\ new(p).existed = call[p].existed /\ new(p).deleted = call[p].deleted
             /\ new(p).contended = call[p].contended /\ new(p).missed = call[p].missed
             /\ new(p).at = "over" /\ new(p).result = "escaped"
  <2>1. PICK old \in Call : old = call[p]
    BY <1>1
  <2>2. PICK last : last = [old EXCEPT !.at = "over", !.result = "escaped"]
    OBVIOUS
  <2>3. /\ last \in Call /\ last.op = old.op /\ last.ctx = old.ctx /\ last.label = old.label
        /\ last.ver = old.ver /\ last.existed = old.existed /\ last.deleted = old.deleted
        /\ last.contended = old.contended /\ last.missed = old.missed
        /\ last.at = "over" /\ last.result = "escaped"
    BY <2>1, <2>2 DEF Call, Results
  <2>4. new(p) = last
    BY <2>1, <2>2
  <2> HIDE DEF new
  <2> QED BY <2>1, <2>3, <2>4
<1>3. call' = [p \in Calls |-> IF Waiting(p) THEN new(p) ELSE call[p]]
  BY DEF Dies
<1> HIDE DEF new
<1>4. call' \in [Calls -> Call]
  BY <1>1, <1>2, <1>3
<1> QED BY <1>2, <1>3, <1>4 DEF SameArguments, SameIds, SameEnd, Notes

-----------------------------------------------------------------------------
(* Every step of the composition is a step of the store or leaves it alone. *)

\* The request that a free thread takes is one that the store can begin.
LEMMA TakesSteps ==
  ASSUME SdkTypeOK, NEW q \in Calls, Booked(q), Takes(q)
  PROVE  \E t \in Threads :
            /\ worker[t] = None /\ Idle(t) /\ Step(t)
            /\ worker' = [worker EXCEPT ![t] = q]
            /\ req'[t].op = call[q].op /\ req'[t].ctx = call'[q].ctx
            /\ req'[t].op \in {"create", "update"} =>
                req'[t].ver = call'[q].ver /\ req'[t].ver \notin minted
            /\ req'[t].op = "label" => req'[t].label = call[q].label
            /\ req'[t].step = IF req'[t].op = "create" THEN "add_context" ELSE "find"
            /\ \A u \in Threads : u # t => req'[u] = req[u]
            /\ UNCHANGED <<database, pending, answers>>
<1>1. /\ req \in [Threads -> Request] /\ call \in [Calls -> Call]
  BY DEF SdkTypeOK, TypeOK
<1>2. /\ Made(q) /\ call[q].op \in Ops /\ (call[q].op # "create" => call[q].ctx \in Contexts)
      /\ call[q].label \in IF call[q].op \in {"create", "label"} THEN Labels ELSE {None}
  BY DEF Takes, Booked
<1>3. PICK t \in Threads :
        /\ worker[t] = None /\ worker' = [worker EXCEPT ![t] = q]
        /\ \/ \E c \in Contexts, v \in Versions :
                /\ call[q].op = "create" /\ BeginCreate(t, c, v, call[q].label)
                /\ call' = [call EXCEPT ![q].ctx = c, ![q].ver = v]
           \/ \E v \in Versions :
                /\ call[q].op = "update" /\ BeginUpdate(t, call[q].ctx, v)
                /\ call' = [call EXCEPT ![q].ver = v]
           \/ /\ call[q].op \in {"label", "delete", "get"}
              /\ BeginOn(t, call[q].op, call[q].ctx, call[q].label)
              /\ UNCHANGED call
  BY DEF Takes
<1>4. ASSUME NEW op, NEW c, NEW v, NEW l, NEW s, Begin(t, op, c, v, l, s)
      PROVE  /\ Idle(t) /\ req'[t].op = op /\ req'[t].ctx = c /\ req'[t].ver = v
             /\ req'[t].label = l /\ req'[t].step = s
             /\ \A u \in Threads : u # t => req'[u] = req[u]
             /\ UNCHANGED <<database, pending, answers>>
  BY <1>1, <1>4 DEF Begin, IdleRequest
<1>5. CASE \E c \in Contexts, v \in Versions :
                /\ call[q].op = "create" /\ BeginCreate(t, c, v, call[q].label)
                /\ call' = [call EXCEPT ![q].ctx = c, ![q].ver = v]
  <2>1. PICK c \in Contexts, v \in Versions :
                /\ call[q].op = "create" /\ BeginCreate(t, c, v, call[q].label)
                /\ call' = [call EXCEPT ![q].ctx = c, ![q].ver = v]
    BY <1>5
  <2>2. call'[q].ctx = c /\ call'[q].ver = v
    <3>1. PICK old \in Call : old = call[q]
      BY <1>1
    <3>2. call'[q] = [old EXCEPT !.ctx = c, !.ver = v]
      BY <1>1, <2>1, <3>1
    <3> QED BY <3>1, <3>2 DEF Call
  <2>3. Begin(t, "create", c, v, call[q].label, "add_context") /\ v \notin minted
    BY <2>1 DEF BeginCreate
  <2>4. Step(t)
    BY <1>2, <2>1 DEF Step
  <2>5. /\ Idle(t) /\ req'[t].op = "create" /\ req'[t].ctx = c /\ req'[t].ver = v
        /\ req'[t].step = "add_context"
        /\ \A u \in Threads : u # t => req'[u] = req[u]
        /\ UNCHANGED <<database, pending, answers>>
    BY <1>4, <2>3
  <2> QED BY <1>3, <2>1, <2>2, <2>3, <2>4, <2>5
<1>6. CASE \E v \in Versions :
                /\ call[q].op = "update" /\ BeginUpdate(t, call[q].ctx, v)
                /\ call' = [call EXCEPT ![q].ver = v]
  <2>1. PICK v \in Versions :
                /\ call[q].op = "update" /\ BeginUpdate(t, call[q].ctx, v)
                /\ call' = [call EXCEPT ![q].ver = v]
    BY <1>6
  <2>2. call'[q].ctx = call[q].ctx /\ call'[q].ver = v
    <3>1. PICK old \in Call : old = call[q]
      BY <1>1
    <3>2. call'[q] = [old EXCEPT !.ver = v]
      BY <1>1, <2>1, <3>1
    <3> QED BY <3>1, <3>2 DEF Call
  <2>3. Begin(t, "update", call[q].ctx, v, None, "find") /\ v \notin minted
    BY <2>1 DEF BeginUpdate
  <2>4. Step(t)
    BY <1>2, <2>1 DEF Step
  <2>5. /\ Idle(t) /\ req'[t].op = "update" /\ req'[t].ctx = call[q].ctx /\ req'[t].ver = v
        /\ req'[t].step = "find"
        /\ \A u \in Threads : u # t => req'[u] = req[u]
        /\ UNCHANGED <<database, pending, answers>>
    BY <1>4, <2>3
  <2> QED BY <1>3, <2>1, <2>2, <2>3, <2>4, <2>5
<1>7. CASE /\ call[q].op \in {"label", "delete", "get"}
           /\ BeginOn(t, call[q].op, call[q].ctx, call[q].label)
           /\ UNCHANGED call
  <2>1. Begin(t, call[q].op, call[q].ctx, None, call[q].label, "find")
    BY <1>7 DEF BeginOn
  <2>2. Step(t)
    BY <1>2, <1>7 DEF Step
  <2>3. /\ Idle(t) /\ req'[t].op = call[q].op /\ req'[t].ctx = call[q].ctx
        /\ req'[t].label = call[q].label /\ req'[t].step = "find"
        /\ \A u \in Threads : u # t => req'[u] = req[u]
        /\ UNCHANGED <<database, pending, answers>>
    BY <1>4, <2>1
  <2> QED BY <1>3, <1>7, <2>2, <2>3
<1> QED BY <1>3, <1>5, <1>6, <1>7

\* What the composition does to the store.
LEMMA SdkSteps ==
  ASSUME SdkTypeOK, \A q \in Calls : Booked(q), [SdkNext]_sdkvars
  PROVE  [Next]_vars
<1>1. ASSUME NEW q \in Calls, Takes(q)
      PROVE  Next
  BY <1>1, TakesSteps DEF Next
<1>2. ASSUME NEW t \in Threads, Serves(t)
      PROVE  Next
  BY <1>2 DEF Serves, Advance, Next
<1>3. Stops \/ Dies => Next
  BY DEF Stops, Dies, Next
<1>4. ASSUME NEW q \in Calls, NEW op \in Ops, NEW arg \in Arguments(op), Asks(q, op, arg)
      PROVE  UNCHANGED vars
  BY <1>4 DEF Asks
<1>5. ASSUME NEW q \in Calls, Hears(q) \/ TimesOut(q) \/ Rejects(q)
      PROVE  UNCHANGED vars
  BY <1>5 DEF Hears, TimesOut, Rejects
<1>6. Starts \/ Drains => UNCHANGED vars
  BY DEF Starts, Drains
<1>7. UNCHANGED sdkvars => UNCHANGED vars
  BY DEF sdkvars, vars
<1> QED BY <1>1, <1>2, <1>3, <1>4, <1>5, <1>6, <1>7 DEF SdkNext

\* What a step does to the request that it serves, and how the request ends.
LEMMA ServedRequest ==
  ASSUME IInv, NEW t \in Threads, ~Idle(t), Step(t)
  PROVE  /\ \A u \in Threads : u # t => req'[u] = req[u]
         /\ \/ /\ req'[t].step # "idle" /\ req'[t].op = req[t].op /\ req'[t].ctx = req[t].ctx
               /\ req'[t].ver = req[t].ver /\ req'[t].label = req[t].label
               /\ req'[t].step # "find"
            \/ /\ req'[t].step = "idle" /\ req'[t].out = "error"
            \/ /\ req'[t].step = "idle" /\ req'[t].out = "not_found"
               /\ \/ At(t, "find") /\ tables.ctx[req[t].ctx] = None
                  \/ At(t, "read_latest") /\ req[t].op = "get" /\ Latest(tables, req[t].ctx) = {}
            \/ /\ req'[t].step = "idle" /\ req'[t].out = "ok" /\ ~At(t, "find")
               /\ req[t].op \in {"create", "update"} =>
                    /\ Reload(t) /\ tables.ver[req[t].ver] # None
                    /\ stored' = stored \cup {<<req[t].ctx, req[t].ver>>}
               /\ req[t].op = "label" => Reload(t)
         /\ At(t, "find") /\ tables.ctx[req[t].ctx] = None => req'[t].step = "idle"
<1>1. req \in [Threads -> Request] /\ Proper(req[t])
  BY DEF IInv, TypeOK, Rest, Requests
<1>2. ASSUME NEW s, Goto(t, s)
      PROVE  /\ req'[t].step = s /\ req'[t].op = req[t].op /\ req'[t].ctx = req[t].ctx
             /\ req'[t].ver = req[t].ver /\ req'[t].label = req[t].label
             /\ \A u \in Threads : u # t => req'[u] = req[u]
  <2>1. PICK old \in Request : old = req[t]
    BY <1>1
  <2>2. req' = [req EXCEPT ![t] = [old EXCEPT !.step = s]]
    BY <1>1, <1>2, <2>1 DEF Goto
  <2>3. PICK new : new = [old EXCEPT !.step = s]
    OBVIOUS
  <2>4. /\ new.step = s /\ new.op = old.op /\ new.ctx = old.ctx
        /\ new.ver = old.ver /\ new.label = old.label
    BY <2>3 DEF Request
  <2> QED BY <1>1, <2>1, <2>2, <2>3, <2>4
<1>3. ASSUME NEW o, Finish(t, o)
      PROVE  /\ req'[t].step = "idle" /\ req'[t].out = o
             /\ \A u \in Threads : u # t => req'[u] = req[u]
  BY <1>1, <1>3 DEF Finish, IdleRequest
<1>4. CASE AddContext(t) \/ AddVersion(t) \/ SetLabel(t)
  BY <1>2, <1>4 DEF AddContext, AddVersion, SetLabel, At
<1>5. CASE Find(t)
  <2>1. AfterFind(req[t].op) \notin {"idle", "find"}
    BY DEF AfterFind
  <2> QED BY <1>2, <1>3, <1>5, <2>1 DEF Find
<1>6. CASE ReadParent(t)
  <2>1. PICK p \in Versions \cup {None} :
            req' = [req EXCEPT ![t].parent = p, ![t].step = "add_version"]
    BY <1>6 DEF ReadParent
  <2>2. PICK old \in Request : old = req[t]
    BY <1>1
  <2>3. PICK new : new = [old EXCEPT !.parent = p, !.step = "add_version"]
    OBVIOUS
  <2>4. req'[t] = new /\ \A u \in Threads : u # t => req'[u] = req[u]
    BY <1>1, <2>1, <2>2, <2>3
  <2>5. /\ new.step = "add_version" /\ new.op = old.op /\ new.ctx = old.ctx
        /\ new.ver = old.ver /\ new.label = old.label
    BY <2>2, <2>3 DEF Request
  <2>6. ~At(t, "find")
    BY <1>6 DEF ReadParent, At
  <2> QED BY <2>2, <2>4, <2>5, <2>6
<1>7. CASE ReadLatest(t)
  <2>1. At(t, "read_latest") /\ req[t].op = "get" /\ ~At(t, "find")
        /\ Finish(t, IF Latest(tables, req[t].ctx) = {} THEN "not_found" ELSE "ok")
    BY <1>7 DEF ReadLatest, At
  <2>2. CASE Latest(tables, req[t].ctx) = {}
    <3>1. Finish(t, "not_found")
      BY <2>1, <2>2
    <3> QED BY <1>3, <2>1, <2>2, <3>1
  <2>3. CASE Latest(tables, req[t].ctx) # {}
    <3>1. Finish(t, "ok")
      BY <2>1, <2>3
    <3> QED BY <1>3, <2>1, <3>1
  <2> QED BY <2>2, <2>3
<1>8. CASE MarkDeleted(t)
  BY <1>2, <1>3, <1>8 DEF MarkDeleted, At
<1>9. CASE Flush(t)
  BY <1>2, <1>3, <1>9 DEF Flush, At
<1>10. CASE Commit(t)
  <2>1. At(t, "commit") /\ ~At(t, "find")
    BY <1>10 DEF Commit, At
  <2> QED BY <1>2, <1>3, <1>10, <2>1 DEF Commit
<1>11. CASE Reload(t)
  <2>1. At(t, "reload") /\ ~At(t, "find") /\ req[t].op \in {"create", "update", "label"}
    BY <1>1, <1>11 DEF Reload, At, Proper, StepsOf, Ops
  <2> QED BY <1>3, <1>11, <2>1 DEF Reload
<1>12. CASE Refused(t)
  BY <1>3, <1>12 DEF Refused
<1>13. CASE \/ \E c \in Contexts, v \in Versions, l \in Labels : BeginCreate(t, c, v, l)
            \/ \E c \in Contexts, v \in Versions : BeginUpdate(t, c, v)
            \/ \E op \in {"delete", "get"}, c \in Contexts : BeginOn(t, op, c, None)
            \/ \E c \in Contexts, l \in Labels : BeginOn(t, "label", c, l)
  BY <1>13 DEF BeginCreate, BeginUpdate, BeginOn, Begin
<1> QED BY <1>4, <1>5, <1>6, <1>7, <1>8, <1>9, <1>10, <1>11, <1>12, <1>13 DEF Step

-----------------------------------------------------------------------------
(* The books of calls, threads and requests. *)

\* What was asked for stays.
LEMMA CallsChange ==
  ASSUME SdkTypeOK, \A q \in Calls : Booked(q), [SdkNext]_sdkvars, NEW q \in Calls, Made(q)
  PROVE  /\ Made(q)' /\ SameArguments(q) /\ Notes(q)
         /\ call[q].op # "create" => call'[q].ctx = call[q].ctx
         /\ work[q] # "queued" => SameIds(q)
<1> USE DEF Made
<1>0. call' = call => /\ Made(q)' /\ SameArguments(q) /\ Notes(q) /\ SameIds(q)
  BY DEF SameArguments, Notes, SameIds
<1>1. ASSUME NEW p \in Calls, NEW op \in Ops, NEW arg \in Arguments(op), Asks(p, op, arg)
      PROVE  /\ Made(q)' /\ SameArguments(q) /\ Notes(q) /\ SameIds(q)
  <2>1. p # q
    BY <1>1 DEF Asks
  <2>2. PICK at \in {"waiting", "over"}, result \in Results : Asked(p, op, arg, at, result)
    BY <1>1 DEF Asks, Results
  <2> QED BY <2>1, <2>2, AsksOthers DEF SameArguments, SameIds, SameEnd, Notes
<1>2. ASSUME NEW p \in Calls, Hears(p) \/ TimesOut(p)
      PROVE  /\ Made(q)' /\ SameArguments(q) /\ Notes(q) /\ SameIds(q)
  <2>1. PICK result \in Results : Ends(p, result)
    BY <1>2, Replies DEF Hears, TimesOut, Results
  <2> QED BY <1>0, <2>1, EndsCall DEF SameArguments, Notes, SameIds
<1>3. ASSUME NEW p \in Calls, Takes(p)
      PROVE  /\ Made(q)' /\ SameArguments(q) /\ Notes(q)
             /\ call[q].op # "create" => call'[q].ctx = call[q].ctx
             /\ work[q] # "queued" => SameIds(q)
  <2>1. CASE p = q
    BY <1>3, <2>1, TakesCall DEF SameEnd, Takes
  <2>2. CASE p # q
    BY <1>3, <2>2, TakesCall DEF SameArguments, Notes, SameIds
  <2> QED BY <2>1, <2>2
<1>4. ASSUME NEW t \in Threads, Serves(t)
      PROVE  /\ Made(q)' /\ SameArguments(q) /\ Notes(q) /\ SameIds(q)
  BY <1>4, ServesCall DEF SameEnd
<1>5. CASE Dies
  BY <1>5, DiesCall DEF SameArguments, SameIds, SameEnd, Notes, Waiting
<1>6. ASSUME NEW p \in Calls, Rejects(p)
      PROVE  call' = call
  BY <1>6 DEF Rejects
<1>7. Starts \/ Drains \/ Stops \/ UNCHANGED sdkvars => call' = call
  BY DEF Starts, Drains, Stops, sdkvars
<1> QED BY <1>0, <1>1, <1>2, <1>3, <1>4, <1>5, <1>6, <1>7 DEF SdkNext, SameIds

\* How a request gets from one state to another.
LEMMA WorkChanges ==
  ASSUME SdkTypeOK, [SdkNext]_sdkvars, NEW q \in Calls
  PROVE  \/ work'[q] = work[q]
         \/ ~Made(q) /\ Waiting(q)' /\ work'[q] = "queued"
         \/ Rejects(q) /\ work'[q] = "invalid"
         \/ Takes(q) /\ work'[q] = "running"
         \/ \E t \in Threads : /\ Serves(t) /\ worker[t] = q /\ req'[t].step = "idle"
                               /\ work'[q] = req'[t].out
         \/ Dies /\ InProgress(q) /\ work'[q] = "none"
<1>1. work \in [Calls -> Works]
  BY DEF SdkTypeOK
<1>2. ASSUME NEW p \in Calls, NEW op \in Ops, NEW arg \in Arguments(op), Asks(p, op, arg)
      PROVE  work'[q] = work[q] \/ (~Made(q) /\ Waiting(q)' /\ work'[q] = "queued")
  <2>1. CASE work' = work
    BY <2>1
  <2>2. CASE Asked(p, op, arg, "waiting", "none") /\ work' = [work EXCEPT ![p] = "queued"]
    <3>1. call'[p].at = "waiting" /\ ~Made(p)
      BY <1>2, <2>2, AsksCall DEF Results, Asks
    <3> QED BY <1>1, <2>2, <3>1 DEF Waiting
  <2> QED BY <1>2, <2>1, <2>2 DEF Asks
<1>3. ASSUME NEW p \in Calls, Rejects(p)
      PROVE  work'[q] = work[q] \/ (Rejects(q) /\ work'[q] = "invalid")
  BY <1>1, <1>3 DEF Rejects
<1>4. ASSUME NEW p \in Calls, Takes(p)
      PROVE  work'[q] = work[q] \/ (Takes(q) /\ work'[q] = "running")
  <2>1. work' = [work EXCEPT ![p] = "running"]
    BY <1>4 DEF Takes
  <2> QED BY <1>1, <1>4, <2>1
<1>5. ASSUME NEW t \in Threads, Serves(t)
      PROVE  \/ work'[q] = work[q]
             \/ worker[t] = q /\ req'[t].step = "idle" /\ work'[q] = req'[t].out
  BY <1>1, <1>5 DEF Serves
<1>6. CASE Dies
  BY <1>1, <1>6 DEF Dies
<1>7. ASSUME NEW p \in Calls, Hears(p) \/ TimesOut(p)
      PROVE  work'[q] = work[q]
  BY <1>7 DEF Hears, TimesOut
<1>8. Starts \/ Drains \/ Stops \/ UNCHANGED sdkvars => work'[q] = work[q]
  BY DEF Starts, Drains, Stops, sdkvars
<1> QED BY <1>2, <1>3, <1>4, <1>5, <1>6, <1>7, <1>8 DEF SdkNext

\* Type correctness of the calls.
LEMMA CallsTyped ==
  ASSUME SdkTypeOK, TypeOK', [SdkNext]_sdkvars
  PROVE  SdkTypeOK'
<1>1. /\ call \in [Calls -> Call] /\ work \in [Calls -> Works]
      /\ worker \in [Threads -> Calls \cup {None}] /\ daemon \in {"up", "draining", "down"}
  BY DEF SdkTypeOK
<1>2. ASSUME NEW q \in Calls, NEW op \in Ops, NEW arg \in Arguments(op), Asks(q, op, arg)
      PROVE  SdkTypeOK'
  <2>1. PICK at \in {"waiting", "over"}, result \in Results : Asked(q, op, arg, at, result)
    BY <1>2 DEF Asks, Results
  <2>2. call' \in [Calls -> Call]
    BY <2>1, AsksCall
  <2>3. work' \in [Calls -> Works] /\ UNCHANGED <<daemon, worker>>
    BY <1>1, <1>2 DEF Asks, Works
  <2> QED BY <1>1, <2>2, <2>3 DEF SdkTypeOK
<1>3. ASSUME NEW q \in Calls, Hears(q) \/ TimesOut(q)
      PROVE  SdkTypeOK'
  <2>1. PICK result \in Results : Ends(q, result)
    BY <1>3, Replies DEF Hears, TimesOut, Results
  <2>2. call' \in [Calls -> Call]
    BY <2>1, EndsCall
  <2> QED BY <1>1, <1>3, <2>2 DEF SdkTypeOK, Hears, TimesOut
<1>4. ASSUME NEW q \in Calls, Takes(q)
      PROVE  SdkTypeOK'
  <2>1. /\ call' \in [Calls -> Call] /\ daemon' = daemon
        /\ work' = [work EXCEPT ![q] = "running"]
        /\ \E t \in Threads : worker' = [worker EXCEPT ![t] = q]
    BY <1>4, TakesCall DEF Takes
  <2>2. work' \in [Calls -> Works] /\ worker' \in [Threads -> Calls \cup {None}]
    BY <1>1, <2>1 DEF Works
  <2> QED BY <1>1, <2>1, <2>2 DEF SdkTypeOK
<1>5. ASSUME NEW t \in Threads, Serves(t)
      PROVE  SdkTypeOK'
  <2>1. call' \in [Calls -> Call] /\ daemon' = daemon /\ req'[t].out \in Works
    BY <1>5, ServesCall DEF Serves, TypeOK, Request, Outcomes, Works
  <2>2. work' \in [Calls -> Works] /\ worker' \in [Threads -> Calls \cup {None}]
    <3>1. CASE req'[t].step = "idle"
      <4>1. /\ work' = [work EXCEPT ![worker[t]] = req'[t].out]
            /\ worker' = [worker EXCEPT ![t] = None]
        BY <1>5, <3>1 DEF Serves
      <4> QED BY <1>1, <2>1, <4>1
    <3>2. CASE req'[t].step # "idle"
      BY <1>1, <1>5, <3>2 DEF Serves
    <3> QED BY <3>1, <3>2
  <2> QED BY <1>1, <2>1, <2>2 DEF SdkTypeOK
<1>6. CASE Dies
  <2>1. call' \in [Calls -> Call] /\ daemon' = "down"
    BY <1>6, DiesCall DEF Dies
  <2>2. work' \in [Calls -> Works] /\ worker' \in [Threads -> Calls \cup {None}]
    BY <1>1, <1>6 DEF Dies, Works
  <2> QED BY <2>1, <2>2 DEF SdkTypeOK
<1>7. ASSUME NEW q \in Calls, Rejects(q)
      PROVE  SdkTypeOK'
  <2>1. work' \in [Calls -> Works] /\ UNCHANGED <<daemon, call, worker>>
    BY <1>1, <1>7 DEF Rejects, Works
  <2> QED BY <1>1, <2>1 DEF SdkTypeOK
<1>8. CASE Starts \/ Drains \/ Stops
  BY <1>1, <1>8 DEF Starts, Drains, Stops, SdkTypeOK
<1>9. CASE UNCHANGED sdkvars
  BY <1>1, <1>9 DEF sdkvars, SdkTypeOK
<1> QED BY <1>2, <1>3, <1>4, <1>5, <1>6, <1>7, <1>8, <1>9 DEF SdkNext

\* A request under way or not yet made has no answer that its call could have.
LEMMA NoAnswerYet ==
  ASSUME NEW q \in Calls, Booked(q), InProgress(q)
  PROVE  call[q].result \notin {"returned", "not_found", "validation", "connection_error"}
BY DEF Booked, InProgress, raise_for_status

\* The books of a call that nothing happens to.
LEMMA BookedKept ==
  ASSUME NEW q \in Calls, Booked(q), SameArguments(q), SameIds(q), SameEnd(q), work'[q] = work[q]
  PROVE  Booked(q)'
BY DEF Booked, SameArguments, SameIds, SameEnd, Made, Waiting

\* The books of the calls survive every step.
LEMMA BookedStays ==
  ASSUME IInv, SdkTypeOK, Served, \A q \in Calls : Booked(q), [SdkNext]_sdkvars,
         NEW q \in Calls
  PROVE  Booked(q)'
<1>1. Booked(q) /\ call \in [Calls -> Call] /\ work \in [Calls -> Works]
  BY DEF SdkTypeOK
<1>2. ASSUME call'[q] = call[q], work'[q] = work[q]
      PROVE  Booked(q)'
  BY <1>1, <1>2, BookedKept DEF SameArguments, SameIds, SameEnd
<1>3. ASSUME NEW p \in Calls, NEW op \in Ops, NEW arg \in Arguments(op), Asks(p, op, arg)
      PROVE  Booked(q)'
  <2>1. PICK at \in {"waiting", "over"}, result \in Results :
            /\ Asked(p, op, arg, at, result)
            /\ \/ at = "waiting" /\ result = "none" /\ work' = [work EXCEPT ![p] = "queued"]
               \/ at = "over" /\ result = "connection_error" /\ work' = work
    BY <1>3 DEF Asks, Results
  <2>2. CASE p # q
    BY <1>1, <2>1, <2>2, AsksOthers, BookedKept
  <2>3. CASE p = q
    <3>1. /\ call'[q].op = op /\ call'[q].ctx = arg.ctx /\ call'[q].label = arg.label
          /\ call'[q].at = at /\ call'[q].result = result /\ call'[q].ver = None
          /\ op # "create" => arg.ctx \in Contexts
          /\ arg.label \in IF op \in {"create", "label"} THEN Labels ELSE {None}
      BY <2>1, <2>3, AsksCall
    <3>2. /\ call'[q].existed => Known(arg.ctx)
          /\ call'[q].deleted => arg.ctx \in removed
          /\ op = "create" => arg.ctx = None
      BY <2>1, <2>3, AsksCall
    <3>3. op = "create" => ~call'[q].existed /\ ~call'[q].deleted
      <4>1. stored \subseteq Contexts \X Versions /\ removed \subseteq Contexts
        BY DEF SdkTypeOK, TypeOK
      <4>2. None \notin removed /\ ~Known(None)
        BY <4>1, IdsAssumption DEF Known
      <4> QED BY <3>2, <4>2
    <3>4. work'[q] = IF at = "waiting" THEN "queued" ELSE "none"
      BY <1>1, <1>3, <2>1, <2>3 DEF Asks, Booked
    <3> QED BY <2>1, <3>1, <3>3, <3>4 DEF Booked, Made, Waiting, Ops, raise_for_status
  <2> QED BY <2>2, <2>3
<1>4. ASSUME NEW p \in Calls, Hears(p) \/ TimesOut(p)
      PROVE  Booked(q)'
  <2>1. PICK result \in Results :
            /\ Ends(p, result)
            /\ result = "escaped" \/ result = raise_for_status(work[p])
            /\ result \notin {"none", "connection_error"}
    BY <1>4, Replies DEF Hears, TimesOut, Results
  <2>2. work' = work /\ Waiting(p)
    BY <1>4 DEF Hears, TimesOut
  <2>3. CASE p # q
    BY <1>2, <2>1, <2>2, <2>3, EndsCall
  <2>4. CASE p = q
    <3>1. /\ SameArguments(q) /\ SameIds(q) /\ call'[q].at = "over" /\ call'[q].result = result
      BY <2>1, <2>4, EndsCall
    <3> QED BY <1>1, <2>1, <2>2, <2>4, <3>1
            DEF Booked, Made, Waiting, SameArguments, SameIds
  <2> QED BY <2>3, <2>4
<1>5. ASSUME NEW p \in Calls, Rejects(p)
      PROVE  Booked(q)'
  <2>1. call' = call /\ work[p] = "queued" /\ work' = [work EXCEPT ![p] = "invalid"]
    BY <1>5 DEF Rejects
  <2>2. CASE p # q
    BY <1>1, <1>2, <2>1, <2>2
  <2>3. CASE p = q
    BY <1>1, <2>1, <2>3, NoAnswerYet DEF InProgress, Booked, Made, Waiting
  <2> QED BY <2>2, <2>3
<1>6. ASSUME NEW p \in Calls, Takes(p)
      PROVE  Booked(q)'
  <2>1. work[p] = "queued" /\ work' = [work EXCEPT ![p] = "running"]
    BY <1>6 DEF Takes
  <2>2. CASE p # q
    BY <1>1, <1>2, <1>6, <2>1, <2>2, TakesCall
  <2>3. CASE p = q
    <3>1. /\ SameArguments(q) /\ SameEnd(q) /\ Made(q)
          /\ call[q].op # "create" => call'[q].ctx = call[q].ctx
          /\ call[q].op \notin {"create", "update"} => call'[q].ver = call[q].ver
      BY <1>1, <1>6, <2>1, <2>3, TakesCall DEF Booked
    <3> QED BY <1>1, <2>1, <2>3, <3>1, NoAnswerYet
            DEF InProgress, Booked, Made, Waiting, SameArguments, SameEnd
  <2> QED BY <2>2, <2>3
<1>7. ASSUME NEW t \in Threads, Serves(t)
      PROVE  Booked(q)'
  <2>1. SameArguments(q) /\ SameIds(q) /\ SameEnd(q)
    BY <1>7, ServesCall
  <2>2. CASE work'[q] = work[q]
    BY <1>1, <2>1, <2>2, BookedKept
  <2>3. CASE work'[q] # work[q]
    <3>1. req'[t].step = "idle" /\ worker[t] = q /\ work'[q] = req'[t].out
      BY <1>1, <1>7, <2>3 DEF Serves
    <3>2. work[q] = "running"
      BY <3>1 DEF Served, Serving
    <3>3. work'[q] \in {"ok", "not_found", "error"}
      BY <1>7, <3>1, ServedRequest DEF Serves, Advance
    <3> QED BY <1>1, <2>1, <3>2, <3>3, NoAnswerYet
            DEF InProgress, Booked, Made, Waiting, SameArguments, SameIds, SameEnd
  <2> QED BY <2>2, <2>3
<1>8. CASE Dies
  <2>1. /\ SameArguments(q) /\ SameIds(q)
        /\ \/ Waiting(q) /\ call'[q].at = "over" /\ call'[q].result = "escaped"
           \/ ~Waiting(q) /\ SameEnd(q)
        /\ work'[q] = IF InProgress(q) THEN "none" ELSE work[q]
    BY <1>8, DiesCall DEF Dies
  <2> QED BY <1>1, <2>1, NoAnswerYet
          DEF InProgress, Booked, Made, Waiting, SameArguments, SameIds, SameEnd
<1>9. Starts \/ Drains \/ Stops \/ UNCHANGED sdkvars => call' = call /\ work' = work
  BY DEF Starts, Drains, Stops, sdkvars
<1> QED BY <1>2, <1>3, <1>4, <1>5, <1>6, <1>7, <1>8, <1>9 DEF SdkNext

\* A thread that is left alone goes on serving its call.
LEMMA ServingKept ==
  ASSUME SdkTypeOK, \A q \in Calls : Booked(q), [SdkNext]_sdkvars,
         NEW t \in Threads, Serving(t), worker'[t] = worker[t], req'[t] = req[t],
         NEW q \in Calls, worker[t] = q, work'[q] = "running"
  PROVE  /\ req'[t].op = call'[q].op /\ req'[t].ctx = call'[q].ctx
         /\ req'[t].op \in {"create", "update"} => req'[t].ver = call'[q].ver
         /\ req'[t].op = "label" => req'[t].label = call'[q].label
<1>1. /\ work[q] = "running" /\ req[t].op = call[q].op /\ req[t].ctx = call[q].ctx
      /\ req[t].op \in {"create", "update"} => req[t].ver = call[q].ver
      /\ req[t].op = "label" => req[t].label = call[q].label
  BY DEF Serving
<1>2. Made(q)
  BY <1>1 DEF Booked
<1>3. SameArguments(q) /\ SameIds(q)
  BY <1>1, <1>2, CallsChange
<1> QED BY <1>1, <1>3 DEF SameArguments, SameIds

\* Each thread serves its own call after every step.
LEMMA ServedStays ==
  ASSUME IInv, SdkTypeOK, Served, \A q \in Calls : Booked(q), [SdkNext]_sdkvars
  PROVE  Served'
<1>1. /\ call \in [Calls -> Call] /\ work \in [Calls -> Works] /\ None \notin Calls
      /\ worker \in [Threads -> Calls \cup {None}] /\ req \in [Threads -> Request]
  BY CallsAssumption DEF SdkTypeOK, TypeOK, Calls
<1>2. \A t \in Threads : Serving(t)
  BY DEF Served
<1>3. ASSUME worker' = worker, req' = req,
             \A q \in Calls : work[q] = "running" => work'[q] = "running"
      PROVE  Served'
  <2> SUFFICES ASSUME NEW t \in Threads PROVE Serving(t)'
    BY DEF Served
  <2>1. worker'[t] = None <=> Idle(t)'
    BY <1>2, <1>3 DEF Serving, Idle
  <2>2. ASSUME NEW q \in Calls, worker'[t] = q
        PROVE  /\ work'[q] = "running"
               /\ \A u \in Threads : worker'[u] = q => u = t
    BY <1>2, <1>3, <2>2 DEF Serving
  <2>3. ASSUME NEW q \in Calls, worker'[t] = q
        PROVE  /\ req'[t].op = call'[q].op /\ req'[t].ctx = call'[q].ctx
               /\ req'[t].op \in {"create", "update"} => req'[t].ver = call'[q].ver
               /\ req'[t].op = "label" => req'[t].label = call'[q].label
    BY <1>2, <1>3, <2>2, <2>3, ServingKept
  <2> QED BY <2>1, <2>2, <2>3 DEF Serving
<1>4. ASSUME NEW p \in Calls, NEW op \in Ops, NEW arg \in Arguments(op), Asks(p, op, arg)
      PROVE  Served'
  <2>1. worker' = worker /\ req' = req /\ ~Made(p)
        /\ (work' = work \/ work' = [work EXCEPT ![p] = "queued"])
    BY <1>4 DEF Asks, vars
  <2>2. work[p] = "none"
    BY <2>1 DEF Booked
  <2> QED BY <1>1, <1>3, <2>1, <2>2
<1>5. ASSUME NEW p \in Calls, Hears(p) \/ TimesOut(p) \/ Rejects(p)
      PROVE  Served'
  <2>1. worker' = worker /\ req' = req
        /\ (work' = work \/ (work[p] = "queued" /\ work' = [work EXCEPT ![p] = "invalid"]))
    BY <1>5 DEF Hears, TimesOut, Rejects, vars
  <2> QED BY <1>1, <1>3, <2>1
<1>6. Starts \/ Drains \/ UNCHANGED sdkvars => Served'
  BY <1>3 DEF Starts, Drains, vars, sdkvars
<1>7. CASE Stops \/ Dies
  <2>1. /\ \A t \in Threads : Idle(t)' /\ worker'[t] = None
    <3>1. \A t \in Threads : Idle(t)'
      <4>1. Restart
        BY <1>7 DEF Stops, Dies, Shutdown, Crash
      <4> QED BY <4>1 DEF Restart, Idle, IdleRequest
    <3>2. CASE Stops
      BY <1>2, <3>1, <3>2 DEF Stops, Shutdown, Serving
    <3>3. CASE Dies
      BY <3>1, <3>3 DEF Dies
    <3> QED BY <1>7, <3>2, <3>3
  <2> QED BY <1>1, <2>1 DEF Served, Serving
<1>8. ASSUME NEW p \in Calls, Takes(p)
      PROVE  Served'
  <2>1. PICK t \in Threads :
            /\ worker[t] = None
            /\ worker' = [worker EXCEPT ![t] = p]
            /\ req'[t].op = call[p].op /\ req'[t].ctx = call'[p].ctx
            /\ req'[t].op \in {"create", "update"} => req'[t].ver = call'[p].ver
            /\ req'[t].op = "label" => req'[t].label = call[p].label
            /\ req'[t].step = IF req'[t].op = "create" THEN "add_context" ELSE "find"
            /\ \A u \in Threads : u # t => req'[u] = req[u]
    BY <1>8, TakesSteps
  <2>2. work[p] = "queued" /\ work' = [work EXCEPT ![p] = "running"]
    BY <1>8 DEF Takes
  <2>3. call'[p].op = call[p].op /\ call'[p].label = call[p].label
    BY <1>8, TakesCall DEF SameArguments
  <2>4. \A u \in Threads : worker[u] # p
    BY <1>2, <2>2 DEF Serving
  <2>5. Serving(t)'
    BY <1>1, <2>1, <2>2, <2>3, <2>4 DEF Serving, Idle
  <2>6. ASSUME NEW u \in Threads, u # t
        PROVE  Serving(u)'
    <3>1. worker'[u] = worker[u] /\ req'[u] = req[u]
      BY <1>1, <2>1, <2>6
    <3>2. \A q \in Calls : worker[u] = q => q # p /\ work'[q] = "running"
      BY <1>1, <1>2, <2>2, <2>4 DEF Serving
    <3>3. \A q \in Calls : worker[u] = q => \A w \in Threads : worker'[w] = q => w = u
      BY <1>1, <1>2, <2>1, <3>2 DEF Serving
    <3>4. worker'[u] = None <=> Idle(u)'
      BY <1>2, <3>1 DEF Serving, Idle
    <3>5. \A q \in Calls : worker'[u] = q =>
            /\ req'[u].op = call'[q].op /\ req'[u].ctx = call'[q].ctx
            /\ req'[u].op \in {"create", "update"} => req'[u].ver = call'[q].ver
            /\ req'[u].op = "label" => req'[u].label = call'[q].label
      BY <1>2, <3>1, <3>2, ServingKept
    <3> QED BY <3>1, <3>2, <3>3, <3>4, <3>5 DEF Serving
  <2> QED BY <2>5, <2>6 DEF Served
<1>9. ASSUME NEW t \in Threads, Serves(t)
      PROVE  Served'
  <2>1. ~Idle(t) /\ Step(t)
    BY <1>9 DEF Serves, Advance
  <2>2. PICK p \in Calls : worker[t] = p /\ work[p] = "running"
    BY <1>1, <1>2, <2>1 DEF Serving
  <2>3. \A u \in Threads : u # t => req'[u] = req[u] /\ worker'[u] = worker[u] /\ worker[u] # p
    <3>1. \A u \in Threads : u # t => req'[u] = req[u]
      BY <2>1, ServedRequest
    <3>2. \A u \in Threads : u # t => worker'[u] = worker[u]
      BY <1>1, <1>9 DEF Serves
    <3> QED BY <1>2, <2>2, <3>1, <3>2 DEF Serving
  <2>4. \A q \in Calls : q # p => work'[q] = work[q]
    BY <1>1, <1>9, <2>2 DEF Serves
  <2>5. ASSUME NEW u \in Threads, u # t
        PROVE  Serving(u)'
    <3>1. worker'[u] = worker[u] /\ req'[u] = req[u] /\ worker[u] # p
      BY <2>3, <2>5
    <3>2. \A q \in Calls : worker[u] = q => work'[q] = "running"
      BY <1>2, <2>4, <3>1 DEF Serving
    <3>3. worker'[t] \in {None, p}
      BY <1>1, <1>9, <2>2 DEF Serves
    <3>4. ASSUME NEW q \in Calls, worker[u] = q, NEW w \in Threads, worker'[w] = q
          PROVE  w = u
      <4>1. w # t
        BY <1>1, <3>1, <3>3, <3>4
      <4>2. worker[w] = q
        BY <2>3, <3>4, <4>1
      <4> QED BY <1>2, <3>4, <4>2 DEF Serving
    <3>5. worker'[u] = None <=> Idle(u)'
      BY <1>2, <3>1 DEF Serving, Idle
    <3>6. \A q \in Calls : worker'[u] = q =>
            /\ req'[u].op = call'[q].op /\ req'[u].ctx = call'[q].ctx
            /\ req'[u].op \in {"create", "update"} => req'[u].ver = call'[q].ver
            /\ req'[u].op = "label" => req'[u].label = call'[q].label
      BY <1>2, <3>1, <3>2, ServingKept
    <3> QED BY <3>1, <3>2, <3>4, <3>5, <3>6 DEF Serving
  <2>6. CASE req'[t].step = "idle"
    <3>1. worker'[t] = None
      BY <1>1, <1>9, <2>6 DEF Serves
    <3>2. Serving(t)'
      BY <1>1, <2>6, <3>1 DEF Serving, Idle
    <3> QED BY <2>5, <3>2 DEF Served
  <2>7. CASE req'[t].step # "idle"
    <3>1. work' = work /\ worker' = worker
      BY <1>9, <2>7 DEF Serves
    <3>2. /\ req'[t].op = req[t].op /\ req'[t].ctx = req[t].ctx
          /\ req'[t].ver = req[t].ver /\ req'[t].label = req[t].label
      BY <2>1, <2>7, ServedRequest
    <3>3. SameArguments(p) /\ SameIds(p)
      BY <1>9, ServesCall
    <3>4. /\ req[t].op = call[p].op /\ req[t].ctx = call[p].ctx
          /\ req[t].op \in {"create", "update"} => req[t].ver = call[p].ver
          /\ req[t].op = "label" => req[t].label = call[p].label
          /\ \A u \in Threads : worker[u] = p => u = t
      BY <1>2, <2>2 DEF Serving
    <3>5. Serving(t)'
      BY <1>1, <2>2, <2>7, <3>1, <3>2, <3>3, <3>4 DEF Serving, Idle, SameArguments, SameIds
    <3> QED BY <2>5, <3>5 DEF Served
  <2> QED BY <2>6, <2>7
<1> QED BY <1>4, <1>5, <1>6, <1>7, <1>8, <1>9 DEF SdkNext

-----------------------------------------------------------------------------
(* Contexts that nobody asks to delete. *)

\* A deletion that was asked for stays asked for.
LEMMA CondemnedStays ==
  ASSUME SdkTypeOK, \A q \in Calls : Booked(q), [SdkNext]_sdkvars, NEW c \in Contexts,
         Condemned(c)
  PROVE  Condemned(c)'
<1>1. PICK q \in Calls : Made(q) /\ call[q].ctx = c /\ call[q].op = "delete"
  BY DEF Condemned, Of
<1>2. Made(q)' /\ SameArguments(q) /\ call'[q].ctx = call[q].ctx
  BY <1>1, CallsChange
<1>3. Made(q)' /\ call'[q].ctx = c /\ call'[q].op = "delete"
  BY <1>1, <1>2 DEF SameArguments
<1> QED BY <1>3 DEF Condemned, Of

\* A thread runs what some call has asked for.
LEMMA Served1 ==
  ASSUME SdkTypeOK, Served, \A q \in Calls : Booked(q), NEW t \in Threads, ~Idle(t)
  PROVE  \E q \in Calls :
            /\ worker[t] = q /\ work[q] = "running" /\ Made(q)
            /\ req[t].op = call[q].op /\ req[t].ctx = call[q].ctx
            /\ req[t].op \in {"create", "update"} => req[t].ver = call[q].ver
            /\ req[t].op = "label" => req[t].label = call[q].label
<1>1. PICK q \in Calls : worker[t] = q
  BY DEF SdkTypeOK, Served, Serving
<1> QED BY <1>1 DEF Served, Serving, Booked

\* What a step of the store does to who commits and to what is to be deleted.
LEMMA CommitsAndMarks ==
  ASSUME IInv, NEW t \in Threads, Step(t)
  PROVE  /\ \A u \in Threads : At(u, "commit")' =>
                \/ u = t /\ Flush(t) /\ committer' = t
                \/ At(u, "commit") /\ ~Commit(t)
                \/ At(u, "commit") /\ u # t /\ Commit(t)
         /\ ~Flush(t) /\ ~Commit(t) => committer' = committer
         /\ \A c \in pending'.gone : \/ c \in pending.gone
                                     \/ MarkDeleted(t) /\ req[t].ctx = c
<1>1. req \in [Threads -> Request] /\ pending \in PendingObjects
  BY DEF IInv, TypeOK
<1>2. \A u \in Threads : u # t => req'[u] = req[u]
  BY <1>1 DEF Step, BeginCreate, BeginUpdate, BeginOn, Begin, AddContext, AddVersion, Find,
              ReadParent, ReadLatest, SetLabel, MarkDeleted, Flush, Commit, Reload, Refused,
              Goto, Finish
<1>3. At(t, "commit")' => Flush(t) /\ committer' = t
  <2>1. ASSUME NEW s, Goto(t, s), s # "commit"
        PROVE  ~At(t, "commit")'
    BY <1>1, <2>1 DEF Goto, At, Request
  <2>2. ASSUME NEW o, Finish(t, o)
        PROVE  ~At(t, "commit")'
    BY <1>1, <2>2 DEF Finish, At, IdleRequest
  <2>3. ASSUME NEW op, NEW c, NEW v, NEW l, NEW s \in {"find", "add_context"},
               Begin(t, op, c, v, l, s)
        PROVE  ~At(t, "commit")'
    BY <1>1, <2>3 DEF Begin, At, IdleRequest
  <2>4. ReadParent(t) => ~At(t, "commit")'
    BY <1>1 DEF ReadParent, At, Request
  <2>5. AfterFind(req[t].op) # "commit"
    BY DEF AfterFind
  <2>6. CASE Flush(t)
    BY <2>2, <2>6 DEF Flush
  <2>7. CASE \/ AddContext(t) \/ AddVersion(t) \/ Find(t) \/ ReadLatest(t) \/ SetLabel(t)
             \/ MarkDeleted(t) \/ Commit(t) \/ Reload(t) \/ Refused(t)
    BY <2>1, <2>2, <2>5, <2>7 DEF AddContext, AddVersion, Find, ReadLatest, SetLabel,
                                  MarkDeleted, Commit, Reload, Refused
  <2>8. CASE \/ \E c \in Contexts, v \in Versions, l \in Labels : BeginCreate(t, c, v, l)
             \/ \E c \in Contexts, v \in Versions : BeginUpdate(t, c, v)
             \/ \E op \in {"delete", "get"}, c \in Contexts : BeginOn(t, op, c, None)
             \/ \E c \in Contexts, l \in Labels : BeginOn(t, "label", c, l)
    BY <2>3, <2>8 DEF BeginCreate, BeginUpdate, BeginOn
  <2> QED BY <2>4, <2>6, <2>7, <2>8 DEF Step
<1>4. ~Flush(t) /\ ~Commit(t) => committer' = committer
  BY DEF Step, BeginCreate, BeginUpdate, BeginOn, Begin, AddContext, AddVersion, Find,
         ReadParent, ReadLatest, SetLabel, MarkDeleted, Reload, Refused, database
<1>5. ASSUME NEW c \in pending'.gone
      PROVE  c \in pending.gone \/ (MarkDeleted(t) /\ req[t].ctx = c)
  <2>1. CASE Flush(t)
    BY <1>5, <2>1 DEF Flush, NoObjects
  <2>2. CASE MarkDeleted(t)
    BY <1>1, <1>5, <2>2 DEF MarkDeleted, PendingObjects
  <2>3. CASE AddContext(t)
    BY <1>1, <1>5, <2>3 DEF AddContext, PendingObjects
  <2>4. CASE AddVersion(t)
    BY <1>1, <1>5, <2>4 DEF AddVersion, PendingObjects
  <2>5. CASE SetLabel(t)
    BY <1>1, <1>5, <2>5 DEF SetLabel, PendingObjects
  <2>6. CASE Commit(t)
    BY <1>1, <1>5, <2>6 DEF Commit, PendingObjects
  <2>7. CASE /\ ~Flush(t) /\ ~MarkDeleted(t) /\ ~AddContext(t) /\ ~AddVersion(t)
             /\ ~SetLabel(t) /\ ~Commit(t)
    <3>1. pending' = pending
      BY <2>7 DEF Step, BeginCreate, BeginUpdate, BeginOn, Begin, Find, ReadParent,
                  ReadLatest, Reload, Refused
    <3> QED BY <1>5, <3>1
  <2> QED BY <2>1, <2>2, <2>3, <2>4, <2>5, <2>6, <2>7
<1> QED BY <1>2, <1>3, <1>4, <1>5 DEF At

\* A shutdown writes no deletion that nobody has marked.
LEMMA ShutdownKeeps ==
  ASSUME IInv, Shutdown, committer = None, NEW c \in Contexts, c \notin pending.gone,
         disk.ctx[c] # None
  PROVE  /\ disk'.ctx[c] # None
         /\ pending.label[c] = None /\ pending.ctx[c] = None => disk'.ctx[c] = disk.ctx[c]
<1>1. tables = disk
  BY DEF IInv, Rest, Synced
<1>2. /\ Inserted(pending, tables, clock).ctx[c] # None
      /\ pending.label[c] = None /\ pending.ctx[c] = None =>
            Inserted(pending, tables, clock).ctx[c] = disk.ctx[c]
  BY <1>1 DEF Inserted, InsertedContexts
<1>3. Deleted(pending.gone, Inserted(pending, tables, clock)).ctx[c]
            = Inserted(pending, tables, clock).ctx[c]
  BY DEF Deleted
<1> QED BY <1>2, <1>3 DEF Shutdown

\* Which rows of a version a step adds and writes, and for whom.
LEMMA StepRows ==
  ASSUME IInv, NEW t \in Threads, Step(t)
  PROVE  /\ \A u \in Threads : u # t => req'[u] = req[u]
         /\ Writes(t)' => \/ Writes(t) /\ req'[t].ver = req[t].ver /\ req'[t].ctx = req[t].ctx
                          \/ req'[t].ver \notin minted /\ req'[t].ver \in minted'
         /\ \A v \in Versions :
                /\ \/ pending'.ver[v] \in {None, pending.ver[v]}
                   \/ Writes(t) /\ req[t].ver = v /\ pending'.ver[v].context = req[t].ctx
                /\ \/ tables'.ver[v] \in {None, tables.ver[v]}
                   \/ pending.ver[v] # None /\ tables'.ver[v].context = pending.ver[v].context
<1> USE DEF IInv
<1>1. /\ req \in [Threads -> Request] /\ \A u \in Threads : ~Idle(u) => Proper(req[u])
  BY DEF TypeOK, Rest, Requests
<1>2. CASE Idle(t)
  <2>1. ASSUME NEW op, NEW c, NEW v, NEW l, NEW s, Begin(t, op, c, v, l, s)
        PROVE  /\ req'[t].ver = v /\ req'[t].op = op
               /\ \A u \in Threads : u # t => req'[u] = req[u]
               /\ pending' = pending /\ tables' = tables
    BY <1>1, <2>1 DEF Begin, IdleRequest, database
  <2>2. CASE \E c \in Contexts, v \in Versions, l \in Labels : BeginCreate(t, c, v, l)
    BY <2>1, <2>2 DEF BeginCreate
  <2>3. CASE \E c \in Contexts, v \in Versions : BeginUpdate(t, c, v)
    BY <2>1, <2>3 DEF BeginUpdate
  <2>4. CASE \/ \E op \in {"delete", "get"}, c \in Contexts : BeginOn(t, op, c, None)
             \/ \E c \in Contexts, l \in Labels : BeginOn(t, "label", c, l)
    BY <2>1, <2>4 DEF BeginOn, Writes
  <2> QED BY <1>2, <2>2, <2>3, <2>4
          DEF Step, Idle, AddContext, AddVersion, Find, ReadParent, ReadLatest, SetLabel,
              MarkDeleted, Flush, Commit, Reload, Refused, At
<1>3. CASE ~Idle(t)
  <2>1. /\ \A u \in Threads : u # t => req'[u] = req[u]
        /\ Writes(t)' => Writes(t) /\ req'[t].ver = req[t].ver /\ req'[t].ctx = req[t].ctx
    BY <1>3, ServedRequest DEF Writes, Idle
  <2>2. ASSUME NEW v \in Versions
        PROVE  \/ pending'.ver[v] \in {None, pending.ver[v]}
               \/ Writes(t) /\ req[t].ver = v /\ pending'.ver[v].context = req[t].ctx
    <3>1. CASE AddVersion(t)
      <4>1. Writes(t) /\ req[t].ver \in Versions
        BY <1>1, <1>3, <3>1 DEF AddVersion, At, Proper, StepsOf, Ops, Writes
      <4> QED BY <3>1, <4>1, PendingTyped DEF AddVersion, TypeOK, PendingObjects
    <3>2. CASE Flush(t)
      BY <3>2, NothingPending DEF Flush
    <3>3. CASE ~AddVersion(t) /\ ~Flush(t)
      BY <3>3, StepWaits
    <3> QED BY <3>1, <3>2, <3>3
  <2>3. ASSUME NEW v \in Versions
        PROVE  \/ tables'.ver[v] \in {None, tables.ver[v]}
               \/ pending.ver[v] # None /\ tables'.ver[v].context = pending.ver[v].context
    <3>1. CASE Flush(t)
      <4>1. PICK now \in Time :
                \/ tables' = Deleted(pending.gone, Inserted(pending, tables, now))
                \/ tables' = disk
        BY <3>1 DEF Flush
      <4>2. tables = disk
        BY <3>1 DEF Flush, Rest, Synced
      <4>3. \/ Inserted(pending, tables, now).ver[v] = tables.ver[v]
            \/ /\ pending.ver[v] # None
               /\ Inserted(pending, tables, now).ver[v].context = pending.ver[v].context
        BY DEF Inserted, InsertedVersions, Stamped
      <4>4. Deleted(pending.gone, Inserted(pending, tables, now)).ver[v]
                \in {None, Inserted(pending, tables, now).ver[v]}
        BY DEF Deleted
      <4> QED BY <4>1, <4>2, <4>3, <4>4
    <3> QED BY <3>1, StepWrites
  <2> QED BY <2>1, <2>2, <2>3
<1> QED BY <1>2, <1>3

\* Whatever the store does, a request writes versions of its own only.
LEMMA OwnedStays ==
  ASSUME IInv, Owned, [Next]_vars
  PROVE  Owned'
<1>1. ASSUME NEW t \in Threads, Step(t)
      PROVE  Owned'
  <2>1. IInv'
    BY <1>1, StepIInv
  <2> SUFFICES ASSUME NEW u \in Threads, Writes(u)'
               PROVE  /\ req'[u].ver \in minted'
                      /\ \A w \in Threads : Writes(w)' /\ req'[w].ver = req'[u].ver => w = u
                      /\ tables'.ver[req'[u].ver] # None =>
                            tables'.ver[req'[u].ver].context = req'[u].ctx
                      /\ pending'.ver[req'[u].ver] # None =>
                            pending'.ver[req'[u].ver].context = req'[u].ctx
    BY DEF Owned
  <2>2. ASSUME NEW w \in Threads, Writes(w)'
        PROVE  \/ Writes(w) /\ req'[w].ver = req[w].ver /\ req'[w].ctx = req[w].ctx
               \/ w = t /\ req'[w].ver \notin minted /\ req'[w].ver \in minted'
    BY <1>1, <2>2, StepRows DEF Writes, Idle
  <2>3. minted \subseteq minted'
    BY <1>1, StepDraws
  <2>4. \A w \in Threads : Writes(w) => req[w].ver \in minted
    BY DEF Owned
  <2>5. req'[u].ver \in Versions
    BY <2>1 DEF IInv, Rest, Requests, Proper, Writes, Idle
  <2>6. CASE u = t /\ req'[u].ver \notin minted /\ req'[u].ver \in minted'
    <3>1. tables.ver[req'[u].ver] = None /\ pending.ver[req'[u].ver] = None
      BY <2>5, <2>6 DEF IInv, Rest, Minted
    <3>2. ~(Writes(t) /\ req[t].ver = req'[u].ver)
      BY <2>4, <2>6
    <3> QED BY <1>1, <2>2, <2>4, <2>5, <2>6, <3>1, <3>2, StepRows
  <2>7. CASE Writes(u) /\ req'[u].ver = req[u].ver /\ req'[u].ctx = req[u].ctx
    <3>1. PICK v \in Versions : v = req[u].ver
      BY <2>5, <2>7
    <3>2. \A w \in Threads : Writes(w) /\ req[w].ver = v => w = u
      BY <2>7, <3>1 DEF Owned
    <3>3. /\ v \in minted
          /\ tables.ver[v] # None => tables.ver[v].context = req[u].ctx
          /\ pending.ver[v] # None => pending.ver[v].context = req[u].ctx
      BY <2>7, <3>1 DEF Owned
    <3>4. \A w \in Threads : Writes(w)' /\ req'[w].ver = v => w = u
      BY <2>2, <3>2, <3>3
    <3>5. tables'.ver[v] # None => tables'.ver[v].context = req[u].ctx
      BY <1>1, <3>3, StepRows
    <3>6. pending'.ver[v] # None => pending'.ver[v].context = req[u].ctx
      BY <1>1, <3>2, <3>3, StepRows
    <3> QED BY <2>3, <2>7, <3>1, <3>3, <3>4, <3>5, <3>6
  <2> QED BY <2>2, <2>6, <2>7
<1>2. CASE Crash \/ Shutdown
  BY <1>2 DEF Crash, Shutdown, Restart, IdleRequest, Owned, Writes, Idle
<1>3. CASE UNCHANGED vars
  BY <1>3 DEF vars, Owned, Writes, Idle
<1> QED BY <1>1, <1>2, <1>3 DEF Next

\* Only the reload of create or update adds an answer.
LEMMA StepAnswers ==
  ASSUME IInv, NEW t \in Threads, Step(t)
  PROVE  /\ stored \subseteq stored'
         /\ \A cv \in stored' : \/ cv \in stored
                               \/ /\ At(t, "reload") /\ Writes(t)
                                  /\ cv = <<req[t].ctx, req[t].ver>>
                                  /\ tables.ver[req[t].ver] # None
<1>1. CASE Reload(t)
  <2>1. At(t, "reload") /\ Proper(req[t]) /\ ~Idle(t)
    BY <1>1 DEF Reload, At, Idle, IInv, Rest, Requests
  <2>2. req[t].op # "label" => Writes(t)
    BY <2>1 DEF At, Proper, StepsOf, Ops, Writes
  <2> QED BY <1>1, <2>1, <2>2 DEF Reload
<1>2. CASE ~Reload(t)
  <2>1. stored' = stored
    BY <1>2 DEF Step, BeginCreate, BeginUpdate, BeginOn, Begin, AddContext, AddVersion, Find,
                ReadParent, ReadLatest, SetLabel, MarkDeleted, Flush, Commit, Refused, answers
  <2> QED BY <2>1
<1> QED BY <1>1, <1>2

\* Nothing happens to a context that nobody asks to delete.
LEMMA KeptStays ==
  ASSUME StoreIInv, Owned, SdkTypeOK, Served, \A q \in Calls : Booked(q), Kept, [SdkNext]_sdkvars
  PROVE  Kept'
<1> USE DEF StoreIInv
<1>1. [Next]_vars
  BY SdkSteps
<1>2. \A c \in Contexts : ~Condemned(c)' => ~Condemned(c)
  BY CondemnedStays
<1>3. CASE UNCHANGED vars
  BY <1>2, <1>3 DEF Kept, Making, At, vars
<1>4. CASE Crash \/ Shutdown
  <2>1. /\ \A t \in Threads : ~Making(t)' /\ ~At(t, "commit")'
        /\ pending'.gone = {} /\ tables' = disk' /\ stored' = stored
    <3>1. Restart /\ tables' = disk'
      BY <1>4 DEF Crash, Shutdown
    <3> QED BY <3>1 DEF Restart, IdleRequest, NoObjects, Making, At, answers
  <2>2. ASSUME NEW c \in Contexts, ~Condemned(c), disk.ctx[c] # None
        PROVE  disk'.ctx[c] # None
    <3>1. CASE Crash
      BY <2>2, <3>1 DEF Crash
    <3>2. CASE Shutdown
      <4>1. committer = None
        BY <3>2 DEF Shutdown, Committing, Idle, At
      <4> QED BY <2>2, <3>2, <4>1, ShutdownKeeps DEF Kept
    <3> QED BY <1>4, <3>1, <3>2
  <2> QED BY <1>2, <2>1, <2>2 DEF Kept
<1>5. ASSUME NEW t \in Threads, Step(t)
      PROVE  Kept'
  <2>1. ASSUME NEW u \in Threads, Making(u)'
        PROVE  disk'.ver[req'[u].ver] = None
    <3>1. IInv'
      BY <1>5, StepIInv
    <3>2. req'[u].ver \in Versions
      BY <2>1, <3>1 DEF IInv, Rest, Requests, Making, Idle, At, Proper
    <3>3. /\ tables.ver[req'[u].ver] = None /\ pending.ver[req'[u].ver] = None
          /\ disk.ver[req'[u].ver] = None
      BY <1>5, <2>1, <3>2, VersionDraws DEF Kept, IInv, Rest, FreshVersions, Minted
    <3> QED BY <1>5, <3>2, <3>3, VersionWrites, StepWrites
  <2>2. ASSUME NEW u \in Threads, At(u, "commit")'
        PROVE  committer' = u
    <3>1. CASE u = t /\ Flush(t) /\ committer' = t
      BY <3>1
    <3>2. CASE At(u, "commit") /\ ~Commit(t)
      <4>1. committer = u
        BY <3>2 DEF Kept
      <4>2. ~Flush(t)
        BY <4>1, IdsAssumption DEF Flush
      <4> QED BY <1>5, <3>2, <4>1, <4>2, CommitsAndMarks
    <3>3. CASE At(u, "commit") /\ u # t /\ Commit(t)
      BY <3>3 DEF Kept, Commit
    <3> QED BY <1>5, <2>2, <3>1, <3>2, <3>3, CommitsAndMarks
  <2>3. ASSUME NEW c \in Contexts, ~Condemned(c)
        PROVE  /\ c \notin pending'.gone
               /\ disk.ctx[c] # None => disk'.ctx[c] # None
               /\ disk'.ctx[c] # None => tables'.ctx[c] # None
               /\ \A v \in Versions : <<c, v>> \in stored' => disk'.ctx[c] # None
    <3>1. c \notin pending.gone /\ (disk.ctx[c] # None => tables.ctx[c] # None)
      BY <2>3 DEF Kept
    <3>2. c \notin pending'.gone
      <4> SUFFICES ASSUME MarkDeleted(t), req[t].ctx = c PROVE FALSE
        BY <1>5, <3>1, CommitsAndMarks
      <4>1. MarkDeleted(t) /\ req[t].ctx = c
        OBVIOUS
      <4>2. ~Idle(t) /\ req[t].op = "delete"
        BY <4>1 DEF MarkDeleted, At, Idle, IInv, Rest, Requests, Proper, StepsOf, Ops
      <4>3. PICK q \in Calls : Made(q) /\ req[t].op = call[q].op /\ req[t].ctx = call[q].ctx
        BY <4>2, Served1
      <4>4. q \in Of(c, {"delete"})
        BY <4>1, <4>2, <4>3 DEF Of
      <4> QED BY <2>3, <4>4 DEF Condemned
    <3>3. tables.ctx[c] # None => tables'.ctx[c] # None
      BY <1>5, <3>1, RowKept DEF Lasting
    <3>4. disk' \in {disk, tables'}
      BY <1>5, StepWrites
    <3>5. disk.ctx[c] # None => disk'.ctx[c] # None
      BY <3>1, <3>3, <3>4
    <3>6. disk'.ctx[c] # None => tables'.ctx[c] # None
      BY <3>1, <3>3, <3>4
    <3>7. ASSUME NEW v \in Versions, <<c, v>> \in stored'
          PROVE  disk'.ctx[c] # None
      <4>1. CASE <<c, v>> \in stored
        BY <2>3, <3>5, <4>1 DEF Kept
      <4>2. CASE <<c, v>> \notin stored
        <5>1. /\ At(t, "reload") /\ Writes(t) /\ c = req[t].ctx /\ v = req[t].ver
              /\ tables.ver[v] # None
          BY <1>5, <3>7, <4>2, StepAnswers
        <5>4. Lasts(c, v)
          BY <5>1 DEF Lasting, Promised, Writes
        <5>5. \/ disk.ver[v] # None /\ disk.ver[v].context = c
              \/ Vanished(c)
          BY <5>4 DEF Lasts
        <5>6. CASE Vanished(c)
          <6>2. tables.ver[v].context = c
            BY <5>1 DEF Owned
          <6>3. tables.ctx[c] # None
            BY <5>1, <6>2 DEF IInv, Rest, HistoryClosed, ForeignKey
          <6> QED BY <5>6, <6>3 DEF Vanished
        <5>7. CASE disk.ver[v] # None /\ disk.ver[v].context = c
          BY <3>5, <5>7 DEF IInv, Rest, HistoryClosed, ForeignKey
        <5> QED BY <5>5, <5>6, <5>7
      <4> QED BY <4>1, <4>2
    <3> QED BY <3>2, <3>5, <3>6, <3>7
  <2> QED BY <1>2, <2>1, <2>2, <2>3 DEF Kept
<1> QED BY <1>1, <1>3, <1>4, <1>5 DEF Next

-----------------------------------------------------------------------------
(* What the requests that have ended have left behind. *)

\* A request that looks for its context writes nothing.
LEMMA Finding ==
  ASSUME NEW t \in Threads, Step(t), At(t, "find")
  PROVE  UNCHANGED <<tables, disk, poisoned, committer, pending, minted, stored, removed>>
BY DEF Step, BeginCreate, BeginUpdate, BeginOn, Begin, Idle, AddContext, AddVersion, Find,
       ReadParent, ReadLatest, SetLabel, MarkDeleted, Flush, Commit, Reload, Refused, At,
       database, answers

\* No step forgets an answer.
LEMMA AnswersStay ==
  ASSUME IInv, [Next]_vars
  PROVE  stored \subseteq stored' /\ removed \subseteq removed'
<1>1. ASSUME NEW t \in Threads, Step(t)
      PROVE  removed \subseteq removed'
  BY <1>1 DEF Step, BeginCreate, BeginUpdate, BeginOn, Begin, AddContext, AddVersion, Find,
              ReadParent, ReadLatest, SetLabel, MarkDeleted, Flush, Commit, Reload, Refused,
              answers
<1>2. Crash \/ Shutdown \/ UNCHANGED vars => UNCHANGED answers
  BY DEF Crash, Shutdown, Restart, vars, answers
<1> QED BY <1>1, <1>2, StepAnswers DEF Next, answers

\* The version of a request that ends without its context is never written.
LEMMA NotFoundUnwritten ==
  ASSUME IInv, Kept, NEW t \in Threads, Step(t), At(t, "find"), Making(t),
         req'[t].step = "idle", NEW v \in Versions, req[t].ver = v
  PROVE  Unwritten(v)'
<1>2. /\ v \in minted /\ tables.ver[v] = None /\ pending.ver[v] = None /\ disk.ver[v] = None
      /\ \A u \in Threads : Making(u) /\ req[u].ver = v => u = t
  BY DEF IInv, Rest, FreshVersions, Kept
<1>3. \A u \in Threads : Making(u)' => u # t /\ Making(u) /\ req'[u].ver = req[u].ver
  BY StepRows DEF Making
<1> QED BY <1>2, <1>3, Finding DEF Unwritten

\* How a request that has been served ends.
LEMMA RequestEnds ==
  ASSUME SdkTypeOK, Served, \A q \in Calls : Booked(q), [SdkNext]_sdkvars,
         NEW q \in Calls, work'[q] # work[q], work'[q] \in {"ok", "not_found"}
  PROVE  \E t \in Threads :
            /\ Serves(t) /\ ~Idle(t) /\ Step(t) /\ worker[t] = q /\ Made(q)
            /\ req'[t].step = "idle" /\ work'[q] = req'[t].out
            /\ req[t].op = call[q].op /\ req[t].ctx = call[q].ctx
            /\ req[t].op \in {"create", "update"} => req[t].ver = call[q].ver
            /\ req[t].op = "label" => req[t].label = call[q].label
            /\ SameArguments(q) /\ SameIds(q)
<1>1. PICK t \in Threads :
            /\ Serves(t) /\ worker[t] = q /\ req'[t].step = "idle" /\ work'[q] = req'[t].out
  BY WorkChanges
<1>2. ~Idle(t) /\ Step(t)
  BY <1>1 DEF Serves, Advance
<1>3. /\ Made(q) /\ req[t].op = call[q].op /\ req[t].ctx = call[q].ctx
      /\ req[t].op \in {"create", "update"} => req[t].ver = call[q].ver
      /\ req[t].op = "label" => req[t].label = call[q].label
  BY <1>1, <1>2, Served1
<1>4. SameArguments(q) /\ SameIds(q)
  BY <1>1, ServesCall
<1> QED BY <1>1, <1>2, <1>3, <1>4

\* An answered request keeps what it wrote, an unwritten version stays so.
LEMMA AnsweredStays ==
  ASSUME StoreIInv, SdkTypeOK, Served, \A q \in Calls : Booked(q), Kept, [SdkNext]_sdkvars,
         NEW q \in Calls, Answered(q)
  PROVE  Answered(q)'
<1> USE DEF StoreIInv
<1>1. [Next]_vars /\ stored \subseteq stored'
  BY SdkSteps, AnswersStay
<1>2. call[q].ver \in Versions \cup {None}
  BY DEF SdkTypeOK, Call
<1>3. CASE work'[q] \notin {"ok", "not_found"}
  BY <1>3 DEF Answered
<1>4. CASE work'[q] = work[q] /\ work[q] \in {"ok", "not_found"}
  <2>1. Made(q)
    BY <1>4 DEF Booked
  <2>2. SameArguments(q) /\ SameIds(q)
    BY <1>4, <2>1, CallsChange
  <2>3. ASSUME NEW v \in Versions, work[q] = "not_found", call[q].ver = v
        PROVE  Unwritten(v)'
    BY <1>1, <2>3, IdsAssumption, UnwrittenStays DEF Answered
  <2> QED BY <1>1, <1>2, <1>4, <2>2, <2>3 DEF Answered, SameArguments, SameIds, Unwritten
<1>5. CASE work'[q] # work[q] /\ work'[q] \in {"ok", "not_found"}
  <2>1. PICK t \in Threads :
            /\ Serves(t) /\ ~Idle(t) /\ Step(t) /\ worker[t] = q /\ Made(q)
            /\ req'[t].step = "idle" /\ work'[q] = req'[t].out
            /\ req[t].op = call[q].op /\ req[t].ctx = call[q].ctx
            /\ req[t].op \in {"create", "update"} => req[t].ver = call[q].ver
            /\ SameArguments(q) /\ SameIds(q)
    BY <1>5, RequestEnds
  <2>2. ASSUME work'[q] = "ok", call[q].op \in {"create", "update"}
        PROVE  <<call[q].ctx, call[q].ver>> \in stored'
    <3>1. req'[t].out = "ok" /\ req[t].op \in {"create", "update"}
      BY <2>1, <2>2
    <3>2. stored' = stored \cup {<<req[t].ctx, req[t].ver>>}
      BY <2>1, <3>1, ServedRequest
    <3> QED BY <2>1, <3>1, <3>2
  <2>3. ASSUME NEW v \in Versions, work'[q] = "not_found", call[q].ver = v
        PROVE  Unwritten(v)'
    <3>1. req[t].op \in {"create", "update"} /\ req[t].ver = v
      BY <2>1, <2>3, IdsAssumption DEF Booked
    <3>2. At(t, "find") /\ Making(t)
      BY <2>1, <2>3, <3>1, ServedRequest DEF Making, At
    <3> QED BY <2>1, <3>1, <3>2, NotFoundUnwritten
  <2> QED BY <1>2, <2>1, <2>2, <2>3 DEF Answered, SameArguments, SameIds, Unwritten
<1> QED BY <1>3, <1>4, <1>5

-----------------------------------------------------------------------------
(* Calls and the threads that serve them, step by step. *)

\* A call is made by being asked.
LEMMA MadeBy ==
  ASSUME SdkTypeOK, \A p \in Calls : Booked(p), [SdkNext]_sdkvars, NEW q \in Calls,
         ~Made(q), Made(q)'
  PROVE  \E op \in Ops : \E arg \in Arguments(op) : Asks(q, op, arg)
<1>1. ASSUME NEW p \in Calls, NEW op \in Ops, NEW arg \in Arguments(op), Asks(p, op, arg)
      PROVE  p = q
  <2>1. PICK at \in {"waiting", "over"}, result \in Results : Asked(p, op, arg, at, result)
    BY <1>1 DEF Asks, Results
  <2> QED BY <2>1, AsksOthers DEF SameEnd, Made
<1>2. ASSUME NEW p \in Calls, Hears(p) \/ TimesOut(p)
      PROVE  FALSE
  <2>1. (\E result \in Results : Ends(p, result)) /\ Waiting(p)
    BY <1>2, Replies DEF Hears, TimesOut, Results
  <2> QED BY <2>1, EndsCall DEF Waiting, Made
<1>3. ASSUME NEW p \in Calls, Takes(p)
      PROVE  FALSE
  <2>1. CASE p = q
    BY <1>3, <2>1, TakesCall DEF SameEnd, Made
  <2>2. CASE p # q
    BY <1>3, <2>2, TakesCall DEF Made
  <2> QED BY <2>1, <2>2
<1>4. ASSUME NEW t \in Threads, Serves(t)
      PROVE  FALSE
  BY <1>4, ServesCall DEF SameEnd, Made
<1>5. CASE Dies
  BY <1>5, DiesCall DEF SameEnd, Made, Waiting
<1>6. ASSUME NEW p \in Calls, Rejects(p)
      PROVE  FALSE
  BY <1>6 DEF Rejects, Made
<1>7. Starts \/ Drains \/ Stops \/ UNCHANGED sdkvars => FALSE
  BY DEF Starts, Drains, Stops, sdkvars, Made
<1> QED BY <1>1, <1>2, <1>3, <1>4, <1>5, <1>6, <1>7 DEF SdkNext

\* What a call knows when it is made, and what it does to the others.
LEMMA Beginnings ==
  ASSUME SdkTypeOK, \A p \in Calls : Booked(p), Served, [SdkNext]_sdkvars, NEW q \in Calls,
         ~Made(q), Made(q)'
  PROVE  /\ work'[q] \in {"none", "queued"}
         /\ \A t \in Threads : worker'[t] # q
         /\ call'[q].existed => Known(call'[q].ctx)
         /\ call'[q].deleted => call'[q].ctx \in removed
         /\ ~call'[q].contended => \A r \in Of(call'[q].ctx, {"label"}) : ~InProgress(r)
         /\ \A p \in Calls : p # q =>
                /\ SameArguments(p) /\ SameIds(p) /\ SameEnd(p) /\ work'[p] = work[p]
                /\ /\ call'[q].op = "label" /\ call[p].op = "label"
                   /\ call[p].ctx = call'[q].ctx
                   => call'[p].contended
<1>1. PICK op \in Ops : \E arg \in Arguments(op) : Asks(q, op, arg)
  BY MadeBy
<1>2. PICK arg \in Arguments(op) : Asks(q, op, arg)
  BY <1>1
<1>3. PICK at \in {"waiting", "over"}, result \in Results : Asked(q, op, arg, at, result)
  BY <1>2 DEF Asks, Results
<1>4. work[q] = "none" /\ work \in [Calls -> Works]
  BY DEF Booked, SdkTypeOK
<1>5. /\ work'[q] \in {"none", "queued"} /\ worker' = worker
      /\ \A p \in Calls : p # q => work'[p] = work[p]
  BY <1>2, <1>4 DEF Asks
<1>6. \A t \in Threads : worker[t] # q
  BY <1>4 DEF Served, Serving
<1>7. /\ call'[q].ctx = arg.ctx /\ call'[q].op = op
      /\ call'[q].existed <=> Known(arg.ctx)
      /\ call'[q].deleted <=> (arg.ctx \in removed)
      /\ call'[q].contended <=> (\E r \in Of(arg.ctx, {"label"}) : ~Settled(r))
  BY <1>3, AsksCall
<1>8. \A p \in Calls : p # q =>
        /\ SameArguments(p) /\ SameIds(p) /\ SameEnd(p)
        /\ Contends(op, arg.ctx, p) => call'[p].contended
  BY <1>3, AsksOthers
<1>9. ~call'[q].contended => \A r \in Of(arg.ctx, {"label"}) : ~InProgress(r)
  BY <1>7 DEF Settled
<1>10. ASSUME NEW p \in Calls, p # q, op = "label", call[p].op = "label",
              call[p].ctx = arg.ctx
       PROVE  call'[p].contended
  BY <1>8, <1>10 DEF Contends
<1> QED BY <1>5, <1>6, <1>7, <1>8, <1>9, <1>10

\* How a thread comes to serve the call it serves.
LEMMA WorkerChanges ==
  ASSUME IInv, SdkTypeOK, Served, \A p \in Calls : Booked(p), [SdkNext]_sdkvars,
         NEW t \in Threads, NEW q \in Calls, worker'[t] = q
  PROVE  \/ worker[t] = q /\ req'[t] = req[t]
         \/ worker[t] = q /\ Serves(t) /\ Step(t) /\ ~Idle(t) /\ req'[t].step # "idle"
         \/ /\ Takes(q) /\ Made(q)
            /\ req'[t].step = IF call[q].op = "create" THEN "add_context" ELSE "find"
<1>1. /\ worker \in [Threads -> Calls \cup {None}] /\ None \notin Calls
      /\ \A u \in Threads : worker[u] = None <=> Idle(u)
  BY CallsAssumption DEF SdkTypeOK, Calls, Served, Serving
<1>2. ASSUME NEW p \in Calls, Takes(p)
      PROVE  \/ worker[t] = q /\ req'[t] = req[t]
             \/ /\ Takes(q) /\ Made(q)
                /\ req'[t].step = IF call[q].op = "create" THEN "add_context" ELSE "find"
  <2>1. PICK u \in Threads :
            /\ worker' = [worker EXCEPT ![u] = p]
            /\ req'[u].op = call[p].op
            /\ req'[u].step = IF req'[u].op = "create" THEN "add_context" ELSE "find"
            /\ \A w \in Threads : w # u => req'[w] = req[w]
    BY <1>2, TakesSteps
  <2>2. Made(p)
    BY <1>2 DEF Takes, Booked
  <2>3. CASE t = u
    BY <1>1, <1>2, <2>1, <2>2, <2>3
  <2>4. CASE t # u
    BY <1>1, <2>1, <2>4
  <2> QED BY <2>3, <2>4
<1>3. ASSUME NEW u \in Threads, Serves(u)
      PROVE  \/ worker[t] = q /\ req'[t] = req[t]
             \/ worker[t] = q /\ Serves(t) /\ Step(t) /\ ~Idle(t) /\ req'[t].step # "idle"
  <2>1. Step(u) /\ ~Idle(u)
    BY <1>3 DEF Serves, Advance
  <2>2. \A w \in Threads : w # u => req'[w] = req[w]
    BY <2>1, ServedRequest
  <2>3. \/ req'[u].step = "idle" /\ worker' = [worker EXCEPT ![u] = None]
        \/ req'[u].step # "idle" /\ worker' = worker
    BY <1>3 DEF Serves
  <2> QED BY <1>1, <1>3, <2>1, <2>2, <2>3
<1>4. CASE Dies
  BY <1>1, <1>4 DEF Dies
<1>5. CASE Stops
  <2>1. worker' = worker /\ Idle(t)
    BY <1>5 DEF Stops, Shutdown
  <2> QED BY <1>1, <2>1
<1>6. ASSUME NEW p \in Calls, NEW op \in Ops, NEW arg \in Arguments(op), Asks(p, op, arg)
      PROVE  worker' = worker /\ req' = req
  BY <1>6 DEF Asks, vars
<1>7. ASSUME NEW p \in Calls, Hears(p) \/ TimesOut(p) \/ Rejects(p)
      PROVE  worker' = worker /\ req' = req
  BY <1>7 DEF Hears, TimesOut, Rejects, vars
<1>8. Starts \/ Drains \/ UNCHANGED sdkvars => worker' = worker /\ req' = req
  BY DEF Starts, Drains, vars, sdkvars
<1> QED BY <1>2, <1>3, <1>4, <1>5, <1>6, <1>7, <1>8 DEF SdkNext

-----------------------------------------------------------------------------
(* The order of answers. *)

\* A context that an answer was given for, and that nobody asks to delete, is
\* there for every session call.
LEMMA KnownFound ==
  ASSUME StoreIInv, Kept, NEW c \in Contexts, Known(c), ~Condemned(c)
  PROVE  tables.ctx[c] # None /\ Latest(tables, c) # {}
<1> USE DEF StoreIInv, IInv
<1>1. PICK v \in Versions : <<c, v>> \in stored
  BY DEF Known
<1>2. disk.ctx[c] # None /\ tables.ctx[c] # None
  BY <1>1 DEF Kept
<1>3. Lasts(c, v)
  BY <1>1 DEF Lasting
<1>4. disk.ver[v] # None /\ disk.ver[v].context = c
  BY <1>2, <1>3 DEF Lasts, Vanished
<1>5. tables.ver[v] = disk.ver[v]
  BY <1>2, <1>4 DEF Committing, Succeeds
<1>6. v \in VersionsOf(tables, c)
  BY <1>4, <1>5 DEF VersionsOf
<1> QED BY <1>2, <1>6, LatestExists DEF TypeOK

\* What was answered before a call is made still decides its answer.
LEMMA OrderedStays ==
  ASSUME StoreIInv, SdkTypeOK, Served, \A p \in Calls : Booked(p), Kept, [SdkNext]_sdkvars,
         NEW q \in Calls, Ordered(q), Booked(q)'
  PROVE  Ordered(q)'
<1> USE DEF StoreIInv
<1>1. [Next]_vars /\ stored \subseteq stored' /\ removed \subseteq removed'
  BY SdkSteps, AnswersStay
<1>2. CASE ~Made(q)'
  BY <1>2 DEF Booked, Ordered
<1>3. CASE ~Made(q) /\ Made(q)'
  <2>1. /\ work'[q] \in {"none", "queued"} /\ \A t \in Threads : worker'[t] # q
        /\ call'[q].existed => Known(call'[q].ctx)
        /\ call'[q].deleted => call'[q].ctx \in removed
    BY <1>3, Beginnings
  <2> QED BY <1>1, <2>1 DEF Ordered, Known
<1>4. CASE Made(q)
  <2>1. PICK c : c = call[q].ctx
    OBVIOUS
  <2>2. CASE ~call[q].existed /\ ~call[q].deleted
    BY <1>4, <2>2, CallsChange DEF SameArguments, Ordered
  <2>3. CASE call[q].existed \/ call[q].deleted
    <3>1. call[q].op # "create" /\ c \in Contexts
      BY <1>4, <2>1, <2>3 DEF Booked
    <3>2. SameArguments(q) /\ call'[q].ctx = c
      BY <1>4, <2>1, <3>1, CallsChange
    <3>3. call[q].existed => Known(c)'
      BY <1>1, <2>1 DEF Ordered, Known
    <3>4. ASSUME call[q].existed, work'[q] = "not_found"
          PROVE  Condemned(c)
      <4>1. CASE work'[q] = work[q]
        BY <2>1, <3>4, <4>1 DEF Ordered
      <4>2. CASE work'[q] # work[q]
        <5>1. PICK t \in Threads :
                /\ ~Idle(t) /\ Step(t) /\ req[t].ctx = c
                /\ req'[t].step = "idle" /\ req'[t].out = "not_found"
          BY <2>1, <3>4, <4>2, RequestEnds
        <5>2. tables.ctx[c] = None \/ Latest(tables, c) = {}
          BY <5>1, ServedRequest
        <5> QED BY <2>1, <3>1, <3>4, <5>2, KnownFound DEF Ordered
      <4> QED BY <4>1, <4>2
    <3>5. Condemned(c) => Condemned(c)'
      BY <3>1, CondemnedStays
    <3>6. ASSUME call[q].deleted
          PROVE  /\ c \in removed' /\ work'[q] # "ok"
                 /\ \A t \in Threads : worker'[t] = q => At(t, "find")'
      <4>1. /\ c \in removed /\ work[q] # "ok"
            /\ \A t \in Threads : worker[t] = q => At(t, "find")
        BY <2>1, <3>6 DEF Ordered
      <4>2. tables.ctx[c] = None
        BY <4>1 DEF Lasting, Vanished
      <4>3. work'[q] # "ok"
        <5> SUFFICES ASSUME work'[q] = "ok" PROVE FALSE
          OBVIOUS
        <5>1. PICK t \in Threads :
                /\ ~Idle(t) /\ Step(t) /\ worker[t] = q
                /\ req'[t].step = "idle" /\ req'[t].out = "ok"
          BY <4>1, RequestEnds
        <5> QED BY <4>1, <5>1, ServedRequest
      <4>4. ASSUME NEW t \in Threads, worker'[t] = q
            PROVE  At(t, "find")'
        <5>1. CASE worker[t] = q /\ req'[t] = req[t]
          BY <4>1, <5>1 DEF At
        <5>2. CASE worker[t] = q /\ Serves(t) /\ Step(t) /\ ~Idle(t) /\ req'[t].step # "idle"
          <6>1. req[t].ctx = c
            BY <2>1, <5>2 DEF Served, Serving
          <6> QED BY <4>1, <4>2, <5>2, <6>1, ServedRequest
        <5>3. CASE req'[t].step = IF call[q].op = "create" THEN "add_context" ELSE "find"
          BY <3>1, <5>3 DEF At
        <5> QED BY <4>4, <5>1, <5>2, <5>3, WorkerChanges
      <4> QED BY <1>1, <4>1, <4>3, <4>4
    <3> QED BY <3>2, <3>3, <3>4, <3>5, <3>6
            DEF SameArguments, Ordered, Known, Condemned, Of, Made
  <2> QED BY <2>2, <2>3
<1> QED BY <1>2, <1>3, <1>4

\* A request that has ended or not begun is not begun again.
LEMMA InProgressStays ==
  ASSUME SdkTypeOK, Served, \A p \in Calls : Booked(p), [SdkNext]_sdkvars, NEW q \in Calls,
         Made(q), ~InProgress(q), IInv
  PROVE  ~InProgress(q)'
<1>1. ASSUME NEW t \in Threads, worker[t] = q
      PROVE  FALSE
  BY <1>1 DEF Served, Serving, InProgress
<1>2. ~Rejects(q) /\ ~Takes(q)
  BY DEF Rejects, Takes, InProgress
<1> QED BY <1>1, <1>2, WorkChanges DEF InProgress

\* The label calls beside which a call runs are noted.
LEMMA AloneStays ==
  ASSUME IInv, SdkTypeOK, Served, \A p \in Calls : Booked(p), [SdkNext]_sdkvars,
         NEW q \in Calls, Alone(q)
  PROVE  Alone(q)'
<1> SUFFICES ASSUME Made(q)', call'[q].op = "label", ~call'[q].contended, NEW p \in Calls, p # q,
                    Made(p)', call'[p].op = "label", call'[p].ctx = call'[q].ctx
             PROVE  ~InProgress(p)'
  BY DEF Alone, Of, Made
<1>1. Made(q)'
  OBVIOUS
<1>2. CASE ~Made(q)
  <2>1. /\ \A r \in Of(call'[q].ctx, {"label"}) : ~InProgress(r)
        /\ SameArguments(p) /\ SameIds(p) /\ SameEnd(p) /\ work'[p] = work[p]
    BY <1>1, <1>2, Beginnings
  <2>2. p \in Of(call'[q].ctx, {"label"})
    BY <2>1 DEF Of, SameArguments, SameIds, SameEnd, Made
  <2> QED BY <2>1, <2>2 DEF InProgress
<1>3. CASE Made(q) /\ ~Made(p)
  <2>1. SameArguments(q) /\ Made(q)' /\ (call[q].op # "create" => call'[q].ctx = call[q].ctx)
    BY <1>3, CallsChange
  <2>2. call[q].op = "label" /\ call[q].ctx = call'[p].ctx
    BY <2>1 DEF SameArguments
  <2> QED BY <1>3, <2>2, Beginnings
<1>4. CASE Made(q) /\ Made(p)
  <2>1. /\ SameArguments(q) /\ Notes(q) /\ (call[q].op # "create" => call'[q].ctx = call[q].ctx)
        /\ SameArguments(p) /\ (call[p].op # "create" => call'[p].ctx = call[p].ctx)
    BY <1>4, CallsChange
  <2>2. /\ call[q].op = "label" /\ ~call[q].contended /\ call[p].op = "label"
        /\ call[p].ctx = call[q].ctx
    BY <2>1 DEF SameArguments, Notes
  <2>3. ~InProgress(p)
    BY <1>4, <2>2 DEF Alone, Of
  <2> QED BY <1>4, <2>3, InProgressStays
<1> QED BY <1>2, <1>3, <1>4

-----------------------------------------------------------------------------
(* Labels. *)

\* Only set_label asks for a new label of a context.
LEMMA LabelChange ==
  ASSUME IInv, NEW t \in Threads, Step(t), NEW c \in Contexts
  PROVE  /\ \/ pending'.label[c] \in {None, pending.label[c]}
            \/ SetLabel(t) /\ req[t].ctx = c
         /\ \/ pending'.label[c] = pending.label[c] \/ Flush(t) \/ Commit(t)
            \/ SetLabel(t) /\ req[t].ctx = c
<1>1. pending \in PendingObjects
  BY DEF IInv, TypeOK
<1>2. CASE Flush(t)
  BY <1>2 DEF Flush, NoObjects
<1>3. CASE Commit(t)
  BY <1>1, <1>3 DEF Commit, PendingObjects, NoObjects
<1>4. CASE SetLabel(t)
  BY <1>1, <1>4 DEF SetLabel, PendingObjects
<1>5. CASE AddContext(t)
  BY <1>1, <1>5 DEF AddContext, PendingObjects
<1>6. CASE AddVersion(t)
  BY <1>1, <1>6 DEF AddVersion, PendingObjects
<1>7. CASE MarkDeleted(t)
  BY <1>1, <1>7 DEF MarkDeleted, PendingObjects
<1>8. CASE /\ ~Flush(t) /\ ~MarkDeleted(t) /\ ~AddContext(t) /\ ~AddVersion(t)
           /\ ~SetLabel(t) /\ ~Commit(t)
  <2>1. pending' = pending
    BY <1>8 DEF Step, BeginCreate, BeginUpdate, BeginOn, Begin, Find, ReadParent,
                ReadLatest, Reload, Refused
  <2> QED BY <2>1
<1> QED BY <1>2, <1>3, <1>4, <1>5, <1>6, <1>7, <1>8

\* What another request's step makes of a label on its way to the disk.
LEMMA LabelKept ==
  ASSUME StoreIInv, Kept, NEW t \in Threads, Step(t), NEW c \in Contexts, NEW l \in Labels,
         ~Condemned(c), ~(SetLabel(t) /\ req[t].ctx = c)
  PROVE  /\ LabelWritten(c, l) => LabelWritten(c, l)'
         /\ LabelWritten(c, l) /\ disk.ctx[c] = l => disk'.ctx[c] = l
         /\ LabelPending(c, l) => poisoned' \/ LabelPending(c, l)' \/ LabelWritten(c, l)'
<1> USE DEF StoreIInv
<1>1. c \notin pending.gone /\ Inserts /\ l # None
  BY IdsAssumption DEF Kept, Lasting
<1>2. ASSUME LabelWritten(c, l)
      PROVE  /\ LabelWritten(c, l)'
             /\ disk.ctx[c] = l => disk'.ctx[c] = l
  <2>1. tables.ctx[c] # None /\ pending.label[c] = None
    BY <1>1, <1>2 DEF LabelWritten
  <2>2. tables'.ctx[c] = l
    BY <1>1, <1>2, <2>1, RowKept DEF LabelWritten
  <2>3. pending'.label[c] = None
    BY <2>1, LabelChange
  <2>4. disk' \in {disk, tables'}
    BY StepWrites
  <2> QED BY <2>2, <2>3, <2>4 DEF LabelWritten
<1>3. ASSUME LabelPending(c, l)
      PROVE  poisoned' \/ LabelPending(c, l)' \/ LabelWritten(c, l)'
  <2>1. tables.ctx[c] # None /\ committer = None /\ pending.label[c] = l
    BY <1>3 DEF LabelPending
  <2>2. CASE Flush(t)
    BY <1>1, <2>1, <2>2, RowKept DEF LabelWritten
  <2>3. ~Commit(t)
    <3>1. At(t, "commit") => committer = t
      BY DEF Kept
    <3> QED BY <2>1, <3>1, IdsAssumption DEF Commit
  <2>4. CASE ~Flush(t)
    <3>1. committer' = committer
      BY <2>3, <2>4, CommitsAndMarks
    <3>2. tables' = tables
      BY <2>4, StepWrites
    <3>3. pending'.label[c] = l
      BY <2>1, <2>3, <2>4, LabelChange
    <3> QED BY <2>1, <3>1, <3>2, <3>3 DEF LabelPending
  <2> QED BY <2>2, <2>4
<1> QED BY <1>2, <1>3

\* Who sets the label of a context whose call runs alone.
LEMMA SetterIsAlone ==
  ASSUME IInv, SdkTypeOK, Served, \A p \in Calls : Booked(p), NEW q \in Calls,
         Made(q), call[q].op = "label", ~call[q].contended, Alone(q),
         NEW t \in Threads, SetLabel(t), req[t].ctx = call[q].ctx
  PROVE  worker[t] = q
<1>1. ~Idle(t) /\ req[t].op = "label"
  BY DEF SetLabel, At, Idle, IInv, Rest, Requests, Proper, StepsOf, Ops
<1>2. PICK p \in Calls : /\ worker[t] = p /\ work[p] = "running" /\ Made(p)
                         /\ req[t].op = call[p].op /\ req[t].ctx = call[p].ctx
  BY <1>1, Served1
<1>3. p \in Of(call[q].ctx, {"label"}) /\ InProgress(p)
  BY <1>1, <1>2 DEF Of, InProgress
<1> QED BY <1>2, <1>3 DEF Alone

\* A request carries its label one step further.
LEMMA LabelOwn ==
  ASSUME StoreIInv, Kept, NEW t \in Threads, Step(t), ~Idle(t), req'[t].step # "idle",
         NEW c \in Contexts, NEW l \in Labels, ~Condemned(c),
         req[t].op = "label", req[t].ctx = c, req[t].label = l,
         At(t, "set_label") => committer = None, Carried(t, c, l)
  PROVE  Carried(t, c, l)'
<1> USE DEF StoreIInv
<1>1. /\ c \notin pending.gone /\ Inserts /\ l # None
      /\ req \in [Threads -> Request] /\ pending \in PendingObjects
      /\ Proper(req[t])
  BY IdsAssumption DEF Kept, Lasting, IInv, TypeOK, Rest, Requests
<1>2. req[t].step \in {"find", "set_label", "flush", "commit", "reload"}
  BY <1>1 DEF Proper, StepsOf
<1>3. ASSUME NEW s \in Steps, Goto(t, s)
      PROVE  req'[t].step = s
  BY <1>3, Gone DEF IInv, Request
<1>4. ASSUME NEW o \in Outcomes, Finish(t, o)
      PROVE  FALSE
  BY <1>4, Finished DEF IInv
<1>5. CASE At(t, "find")
  <2>1. Find(t)
    BY <1>2, <1>4, <1>5
    DEF Step, BeginCreate, BeginUpdate, BeginOn, Begin, Idle, AddContext, AddVersion,
        ReadParent, ReadLatest, SetLabel, MarkDeleted, Flush, Commit, Reload, Refused, At,
        Outcomes
  <2>2. tables.ctx[c] # None /\ Goto(t, "set_label") /\ tables' = tables
    BY <1>4, <2>1 DEF Find, AfterFind, Outcomes, database
  <2>3. req'[t].step = "set_label"
    BY <1>3, <2>2 DEF Steps
  <2> QED BY <2>2, <2>3 DEF Carried, At
<1>6. CASE At(t, "set_label")
  <2>1. SetLabel(t)
    BY <1>2, <1>4, <1>6
    DEF Step, BeginCreate, BeginUpdate, BeginOn, Begin, Idle, AddContext, AddVersion, Find,
        ReadParent, ReadLatest, MarkDeleted, Flush, Commit, Reload, Refused, At, Outcomes
  <2>2. tables.ctx[c] # None /\ committer = None
    BY <1>6 DEF Carried
  <2>3. /\ pending' = [pending EXCEPT !.label[c] = l] /\ req'[t].step = "flush"
        /\ UNCHANGED <<tables, committer>>
    BY <1>3, <2>1, <2>2 DEF SetLabel, Steps, database
  <2>4. pending'.label[c] = l
    BY <1>1, <2>3 DEF PendingObjects
  <2> QED BY <2>2, <2>3, <2>4 DEF Carried, LabelPending, At
<1>7. CASE At(t, "flush")
  <2>1. Flush(t)
    BY <1>2, <1>4, <1>7
    DEF Step, BeginCreate, BeginUpdate, BeginOn, Begin, Idle, AddContext, AddVersion, Find,
        ReadParent, ReadLatest, SetLabel, MarkDeleted, Commit, Reload, Refused, At, Outcomes
  <2>2. ~poisoned /\ Goto(t, "commit") /\ poisoned' = poisoned
    BY <1>4, <2>1 DEF Flush, Usable, Outcomes
  <2>3. req'[t].step = "commit"
    BY <1>3, <2>2 DEF Steps
  <2>4. LabelPending(c, l) \/ LabelWritten(c, l)
    BY <1>7, <2>2 DEF Carried
  <2>5. tables.ctx[c] # None
    BY <1>1, <2>4 DEF LabelPending, LabelWritten
  <2>6. LabelWritten(c, l)'
    BY <1>1, <2>1, <2>2, <2>4, <2>5, RowKept DEF LabelPending, LabelWritten
  <2> QED BY <2>3, <2>6 DEF Carried, LabelWritten, At
<1>8. CASE At(t, "commit")
  <2>1. Commit(t)
    BY <1>2, <1>4, <1>8
    DEF Step, BeginCreate, BeginUpdate, BeginOn, Begin, Idle, AddContext, AddVersion, Find,
        ReadParent, ReadLatest, SetLabel, MarkDeleted, Flush, Reload, Refused, At, Outcomes
  <2>2. /\ LabelWritten(c, l) /\ disk' = tables /\ tables' = tables
        /\ pending' = [pending EXCEPT !.label = NoObjects.label] /\ Goto(t, "reload")
    BY <1>8, <2>1 DEF Carried, Commit
  <2>3. pending'.label[c] = None
    BY <1>1, <2>2 DEF PendingObjects, NoObjects
  <2>4. req'[t].step = "reload"
    BY <1>3, <2>2 DEF Steps
  <2> QED BY <2>2, <2>3, <2>4 DEF Carried, LabelWritten, At
<1>9. CASE At(t, "reload")
  <2>1. Reload(t) \/ Refused(t)
    BY <1>2, <1>9
    DEF Step, BeginCreate, BeginUpdate, BeginOn, Begin, Idle, AddContext, AddVersion, Find,
        ReadParent, ReadLatest, SetLabel, MarkDeleted, Flush, Commit, At
  <2> QED BY <1>4, <2>1 DEF Reload, Refused, Outcomes
<1> QED BY <1>2, <1>5, <1>6, <1>7, <1>8, <1>9 DEF At

\* A label on the disk survives a restart.
LEMMA LabelRestart ==
  ASSUME StoreIInv, Kept, Crash \/ Shutdown, NEW c \in Contexts, NEW l \in Labels,
         ~Condemned(c), LabelWritten(c, l), disk.ctx[c] = l
  PROVE  LabelWritten(c, l)' /\ disk'.ctx[c] = l
<1> USE DEF StoreIInv
<1>1. /\ c \notin pending.gone /\ disk.ctx[c] # None /\ pending.label[c] = None
      /\ pending.ctx[c] = None
  BY IdsAssumption DEF Kept, Lasting, Inserts, Entered, LabelWritten
<1>2. tables' = disk' /\ pending'.label[c] = None
  BY DEF Crash, Shutdown, Restart, NoObjects
<1>3. disk'.ctx[c] = l
  <2>1. CASE Crash
    BY <2>1 DEF Crash
  <2>2. CASE Shutdown
    <3>1. committer = None
      BY <2>2 DEF Shutdown, Committing, Idle, At
    <3> QED BY <1>1, <2>2, <3>1, ShutdownKeeps
  <2> QED BY <2>1, <2>2
<1> QED BY <1>2, <1>3 DEF LabelWritten

\* The label of an undisturbed call goes to the disk and stays there.
LEMMA LabelledStays ==
  ASSUME StoreIInv, Owned, SdkTypeOK, Served, \A p \in Calls : Booked(p), Kept,
         [SdkNext]_sdkvars, NEW q \in Calls, Alone(q), Labelled(q)
  PROVE  Labelled(q)'
<1> USE DEF StoreIInv
<1> SUFFICES ASSUME Undisturbed(q)'
             PROVE  Labelled(q)'
  BY DEF Labelled
<1>1. [Next]_vars
  BY SdkSteps
<1>2. CASE ~Made(q)
  <2>1. Made(q)'
    BY DEF Undisturbed
  <2>2. work'[q] \in {"none", "queued"} /\ \A t \in Threads : worker'[t] # q
    BY <1>2, <2>1, Beginnings
  <2> QED BY <2>2 DEF Labelled
<1>3. CASE Made(q)
  <2>1. PICK c, l : c = call[q].ctx /\ l = call[q].label
    OBVIOUS
  <2>2. /\ SameArguments(q) /\ Notes(q) /\ (call[q].op # "create" => call'[q].ctx = call[q].ctx)
    BY <1>3, CallsChange
  <2>3. /\ call[q].op = "label" /\ ~call[q].contended /\ ~call[q].missed
        /\ call'[q].ctx = c /\ call'[q].label = l /\ ~call'[q].missed
    BY <2>1, <2>2 DEF Undisturbed, SameArguments, Notes
  <2>4. c \in Contexts /\ l \in Labels
    BY <1>3, <2>1, <2>3 DEF Booked
  <2>5. ~Condemned(c)' /\ ~Condemned(c)
    <3>1. ~Condemned(c)'
      BY <2>3 DEF Undisturbed, Condemned, Of
    <3> QED BY <2>4, <3>1, CondemnedStays
  <2>6. /\ work[q] = "ok" => LabelWritten(c, l) /\ disk.ctx[c] = l
        /\ \A t \in Threads : worker[t] = q => Carried(t, c, l)
    BY <1>3, <2>1, <2>3, <2>5 DEF Labelled, Undisturbed
  <2>7. ASSUME NEW t \in Threads, SetLabel(t), req[t].ctx = c
        PROVE  worker[t] = q
    BY <1>3, <2>1, <2>3, <2>7, SetterIsAlone
  <2>8. ASSUME work[q] = "ok"
        PROVE  LabelWritten(c, l)' /\ disk'.ctx[c] = l
    <3>1. \A t \in Threads : worker[t] # q
      BY <2>8 DEF Served, Serving
    <3>2. ASSUME NEW t \in Threads, Step(t)
          PROVE  LabelWritten(c, l)' /\ disk'.ctx[c] = l
      BY <2>4, <2>5, <2>6, <2>7, <2>8, <3>1, <3>2, LabelKept
    <3>3. CASE Crash \/ Shutdown
      BY <2>4, <2>5, <2>6, <2>8, <3>3, LabelRestart
    <3>4. CASE UNCHANGED vars
      BY <2>6, <2>8, <3>4 DEF vars, LabelWritten
    <3> QED BY <1>1, <3>2, <3>3, <3>4 DEF Next
  <2>9. ASSUME NEW t \in Threads, worker[t] = q, req'[t] = req[t]
        PROVE  Carried(t, c, l)'
    <3>1. Carried(t, c, l) /\ ~Idle(t)
      BY <2>6, <2>9, CallsAssumption DEF Served, Serving, Calls
    <3>2. ASSUME NEW u \in Threads, Step(u)
          PROVE  Carried(t, c, l)'
      <4>1. CASE SetLabel(u) /\ req[u].ctx = c
        <5>1. u = t
          BY <2>7, <2>9, <4>1 DEF Served, Serving
        <5>2. req'[t].step = "flush" /\ req[t].step = "set_label"
          BY <4>1, <5>1, Gone DEF SetLabel, IInv, Steps, At, TypeOK, Request
        <5> QED BY <2>9, <5>2
      <4>2. CASE ~(SetLabel(u) /\ req[u].ctx = c)
        <5>1. /\ LabelWritten(c, l) => LabelWritten(c, l)'
              /\ LabelWritten(c, l) /\ disk.ctx[c] = l => disk'.ctx[c] = l
              /\ LabelPending(c, l) => poisoned' \/ LabelPending(c, l)' \/ LabelWritten(c, l)'
          BY <2>4, <2>5, <3>1, <3>2, <4>2, LabelKept
        <5>2. poisoned => poisoned'
          BY <2>4, <3>2, WaitingStays DEF Lasting
        <5>3. tables.ctx[c] # None => tables'.ctx[c] # None
          BY <2>4, <2>5, <3>2, RowKept DEF Lasting, Kept
        <5> QED BY <2>9, <3>1, <5>1, <5>2, <5>3 DEF Carried, At, LabelWritten, LabelPending
      <4> QED BY <4>1, <4>2
    <3>3. CASE Crash \/ Shutdown
      <4>1. req'[t].step = "idle"
        BY <3>3 DEF Crash, Shutdown, Restart, IdleRequest
      <4> QED BY <2>9, <3>1, <4>1 DEF Idle
    <3>4. CASE UNCHANGED vars
      BY <3>1, <3>4 DEF vars, Carried, At, LabelWritten, LabelPending
    <3> QED BY <1>1, <3>2, <3>3, <3>4 DEF Next
  <2>10. ASSUME NEW t \in Threads, worker'[t] = q
         PROVE  Carried(t, c, l)'
    <3>1. CASE worker[t] = q /\ req'[t] = req[t]
      BY <2>6, <2>9, <3>1
    <3>2. CASE worker[t] = q /\ Serves(t) /\ Step(t) /\ ~Idle(t) /\ req'[t].step # "idle"
      <4>1. Carried(t, c, l)
        BY <2>6, <3>2
      <4>2. req[t].op = "label" /\ req[t].ctx = c /\ req[t].label = l
        BY <2>1, <2>3, <3>2 DEF Served, Serving
      <4>3. At(t, "set_label") => committer = None
        BY <2>3, <3>2, ServesCall
      <4> QED BY <2>4, <2>5, <3>2, <4>1, <4>2, <4>3, LabelOwn
    <3>3. CASE /\ Takes(q)
               /\ req'[t].step = IF call[q].op = "create" THEN "add_context" ELSE "find"
      BY <2>3, <3>3 DEF Carried, At
    <3> QED BY <2>10, <3>1, <3>2, <3>3, WorkerChanges
  <2>11. ASSUME work'[q] = "ok"
         PROVE  LabelWritten(c, l)' /\ disk'.ctx[c] = l
    <3>1. CASE work'[q] = work[q]
      BY <2>8, <2>11, <3>1
    <3>2. CASE work'[q] # work[q]
      <4>1. PICK t \in Threads :
                /\ ~Idle(t) /\ Step(t) /\ worker[t] = q /\ req[t].op = "label"
                /\ req'[t].step = "idle" /\ req'[t].out = "ok"
        BY <2>3, <2>11, <3>2, RequestEnds
      <4>2. Reload(t)
        BY <4>1, ServedRequest
      <4>3. LabelWritten(c, l) /\ disk.ctx[c] = l
        BY <2>6, <4>1, <4>2 DEF Carried, Reload
      <4> QED BY <4>2, <4>3 DEF Reload, database, LabelWritten
    <3> QED BY <3>1, <3>2
  <2> QED BY <2>3, <2>10, <2>11 DEF Labelled, LabelWritten, Carried, LabelPending, At
<1> QED BY <1>2, <1>3

-----------------------------------------------------------------------------
(* The invariant, and what follows from it. *)

\* The daemon's first start, on an empty database or on one with a context.
LEMMA SdkInitIInv == SdkInit => SdkIInv
<1> SUFFICES ASSUME SdkInit PROVE SdkIInv
  OBVIOUS
<1>1. /\ \A t \in Threads : req[t] = IdleRequest("none") /\ worker[t] = None
      /\ pending = NoObjects /\ committer = None /\ poisoned = FALSE /\ disk = tables
      /\ removed = {} /\ clock = 0
  BY DEF SdkInit, Init, OldStore
<1>2. OldContext \in Contexts /\ OldVersion \in Versions
  BY CallsAssumption DEF OldContext, OldVersion
<1>3. StoreIInv
  <2>1. CASE Init
    <3>1. IInv
      BY <2>1, InitIInv
    <3>2. Committing /\ Lasting
      <4>1. \A t \in Threads : req[t].step = "idle"
        BY <1>1 DEF IdleRequest
      <4> QED BY <2>1, <4>1, SucceedsItself
              DEF Init, NoObjects, Committing, Succeeds, Lasting, Inserts, Promised, At
    <3> QED BY <3>1, <3>2 DEF StoreIInv
  <2>2. CASE \E l \in Labels : OldStore(l)
    <3>1. PICK l \in Labels : OldStore(l)
      BY <2>2
    <3>2. PICK row : row = [context |-> OldContext, parent |-> None, created_at |-> 0]
      OBVIOUS
    <3>3. /\ tables.ctx = [NoObjects.ctx EXCEPT ![OldContext] = l]
          /\ tables.ver = [NoObjects.ver EXCEPT ![OldVersion] = row]
          /\ tables = [ctx |-> tables.ctx, ver |-> tables.ver]
          /\ minted = {OldContext, OldVersion} /\ stored = {<<OldContext, OldVersion>>}
      BY <3>1, <3>2 DEF OldStore, Rows
    <3>4. /\ row \in VersionRow /\ row # None /\ row.context = OldContext /\ row.parent = None
          /\ l # None
      BY <1>2, <3>2, RowAssumption, IdsAssumption, ClockAssumption DEF VersionRow, Time
    <3>5. /\ \A c \in Contexts : tables.ctx[c] = IF c = OldContext THEN l ELSE None
          /\ \A v \in Versions : tables.ver[v] = IF v = OldVersion THEN row ELSE None
      BY <3>3 DEF NoObjects
    <3>6. /\ tables.ctx \in [Contexts -> Labels \cup {None}]
          /\ tables.ver \in [Versions -> VersionRow \cup {None}]
      BY <3>3, <3>4, <3>5 DEF NoObjects
    <3>7. TypeOK
      <4>1. tables \in Tables /\ pending \in PendingObjects
        BY <1>1, <3>3, <3>6 DEF Tables, PendingObjects, NoObjects
      <4>2. req \in [Threads -> Request] /\ clock \in Time
        <5>1. req = [t \in Threads |-> IdleRequest("none")]
          BY <3>1 DEF OldStore
        <5> QED BY <1>1, <5>1, IdleTyped, ClockAssumption DEF Outcomes, Time
      <4>3. minted \subseteq Contexts \cup Versions
        BY <1>2, <3>3
      <4>4. stored \subseteq Contexts \X Versions
        BY <1>2, <3>3
      <4>5. disk \in Tables /\ poisoned \in BOOLEAN /\ committer = None /\ removed = {}
        BY <1>1, <4>1
      <4> QED BY <4>1, <4>2, <4>3, <4>4, <4>5 DEF TypeOK
    <3>8. /\ \A t \in Threads : req[t].step = "idle"
          /\ \A c \in Contexts : pending.ctx[c] = None
          /\ \A v \in Versions : pending.ver[v] = None
          /\ pending.gone = {}
      BY <1>1 DEF IdleRequest, NoObjects
    <3>9. Rest
      <4>1. HistoryClosed
        BY <1>1, <1>2, <3>4, <3>5 DEF HistoryClosed, ForeignKey, ParentStored
      <4>2. Minted
        BY <1>1, <3>3, <3>5, <3>8 DEF Minted
      <4>3. Requests /\ Synced /\ FreshVersions /\ FreshContexts /\ PendingNew /\ Links
        BY <1>1, <3>8 DEF Requests, Idle, Synced, FreshVersions, Making, FreshContexts, At,
                          PendingNew, Links
      <4> QED BY <4>1, <4>2, <4>3 DEF Rest
    <3>10. Committing
      BY <1>1, SucceedsItself DEF Committing, Succeeds
    <3>11. Lasting
      <4>1. Inserts
        BY <1>1, <3>3, <3>5, <3>8 DEF Inserts, Entered, At
      <4>2. Lasts(OldContext, OldVersion)
        BY <1>1, <1>2, <3>4, <3>5 DEF Lasts
      <4>3. \A cv \in stored : cv[1] = OldContext /\ cv[2] = OldVersion
        BY <3>3
      <4> QED BY <1>1, <3>8, <4>1, <4>2, <4>3 DEF Lasting, Promised, At
    <3> QED BY <3>7, <3>9, <3>10, <3>11 DEF StoreIInv, IInv
  <2> QED BY <2>1, <2>2 DEF SdkInit
<1>4. \A q \in Calls : /\ call[q].op = None /\ call[q].ctx = None /\ call[q].ver = None
                       /\ call[q].label = None /\ call[q].at = "unmade"
                       /\ call[q].result = "none" /\ ~call[q].existed /\ ~call[q].deleted
                       /\ ~call[q].contended /\ ~call[q].missed /\ work[q] = "none"
  BY DEF SdkInit
<1>5. SdkTypeOK
  BY <1>3 DEF StoreIInv, IInv, SdkInit, SdkTypeOK, Call, Results, Works
<1>6. Owned /\ Served
  <2>1. \A t \in Threads : Idle(t) /\ worker[t] = None /\ None \notin Calls
    BY <1>1, CallsAssumption DEF Idle, IdleRequest, Calls
  <2> QED BY <2>1 DEF Owned, Writes, Served, Serving
<1>7. Kept
  <2>1. /\ \A t \in Threads : ~Making(t) /\ ~At(t, "commit")
        /\ pending.gone = {}
    BY <1>1 DEF IdleRequest, Making, At, NoObjects
  <2>2. \A c \in Contexts, v \in Versions : <<c, v>> \in stored => disk.ctx[c] # None
    <3>1. CASE Init
      BY <3>1 DEF Init
    <3>2. CASE \E l \in Labels : OldStore(l)
      <4>1. PICK l \in Labels : OldStore(l)
        BY <3>2
      <4>2. disk.ctx[OldContext] = l /\ stored = {<<OldContext, OldVersion>>} /\ l # None
        BY <1>2, <4>1, IdsAssumption DEF OldStore, Rows, NoObjects
      <4> QED BY <4>2
    <3> QED BY <3>1, <3>2 DEF SdkInit
  <2> QED BY <1>1, <2>1, <2>2 DEF Kept
<1>8. CallsBooked
  <2>1. \A q \in Calls : ~Made(q) /\ ~Waiting(q)
    BY <1>4 DEF Made, Waiting
  <2> SUFFICES ASSUME NEW q \in Calls
               PROVE  Booked(q) /\ Ordered(q) /\ Answered(q) /\ Alone(q) /\ Labelled(q)
    BY DEF CallsBooked
  <2>2. Booked(q) /\ Ordered(q) /\ Answered(q)
    BY <1>4, <2>1 DEF Booked, Ordered, Answered
  <2>3. Alone(q) /\ Labelled(q)
    BY <2>1 DEF Alone, Labelled, Undisturbed
  <2> QED BY <2>2, <2>3
<1> QED BY <1>3, <1>5, <1>6, <1>7, <1>8 DEF SdkIInv

\* Every step of the calls, the daemon and the store keeps the invariant.
LEMMA SdkNextIInv == SdkIInv /\ [SdkNext]_sdkvars => SdkIInv'
<1> SUFFICES ASSUME SdkIInv, [SdkNext]_sdkvars PROVE SdkIInv'
  OBVIOUS
<1>1. /\ StoreIInv /\ IInv /\ Owned /\ SdkTypeOK /\ Served /\ Kept
      /\ \A q \in Calls : Booked(q)
      /\ \A q \in Calls : Ordered(q) /\ Answered(q) /\ Alone(q) /\ Labelled(q)
  BY DEF SdkIInv, StoreIInv, CallsBooked
<1>2. [Next]_vars
  BY <1>1, SdkSteps
<1>3. StoreIInv'
  <2>1. IInv' /\ Committing'
    BY <1>1, <1>2, NextIInv, NextCommitting DEF StoreIInv
  <2>2. Lasting'
    BY <1>1, <1>2, StepLasting, RestartLasting, StutterLasting DEF StoreIInv, Next
  <2> QED BY <2>1, <2>2 DEF StoreIInv
<1>4. Owned'
  BY <1>1, <1>2, OwnedStays
<1>5. SdkTypeOK'
  BY <1>1, <1>3, CallsTyped DEF StoreIInv, IInv
<1>6. Served'
  BY <1>1, ServedStays
<1>7. Kept'
  BY <1>1, KeptStays
<1>8. ASSUME NEW q \in Calls
      PROVE  (Booked(q) /\ Ordered(q) /\ Answered(q) /\ Alone(q) /\ Labelled(q))'
  <2>1. Booked(q)'
    BY <1>1, BookedStays
  <2>2. Ordered(q)'
    BY <1>1, <2>1, OrderedStays
  <2>3. Answered(q)' /\ Alone(q)'
    BY <1>1, AnsweredStays, AloneStays
  <2>4. Labelled(q)'
    BY <1>1, LabelledStays
  <2> QED BY <2>1, <2>2, <2>3, <2>4
<1> QED BY <1>3, <1>4, <1>5, <1>6, <1>7, <1>8 DEF SdkIInv, CallsBooked

\* The invariant of the SDK, the daemon and its store, for any number of
\* calls, threads, contexts and versions.
THEOREM SdkInvariant == SdkSpec => []SdkIInv
BY SdkInitIInv, SdkNextIInv, PTL DEF SdkSpec

\* Calls, requests and threads are always of their types.
THEOREM SdkTypeCorrect == SdkSpec => []SdkTypeOK
<1>1. SdkIInv => SdkTypeOK
  BY DEF SdkIInv
<1> QED BY <1>1, SdkInvariant, PTL

\* A call that ends with a connection, not-found or validation error has
\* written nothing and never will: it may be made again.
THEOREM FailuresTouchNothing == SdkSpec => []FailedUntouched
<1>1. SdkIInv => FailedUntouched
  <2> SUFFICES ASSUME SdkIInv, NEW q \in Calls, call[q].ver # None,
                      call[q].result \in {"connection_error", "not_found", "validation"}
               PROVE  /\ work[q] \notin {"queued", "running"}
                      /\ \A db \in {tables, disk, pending} : db.ver[call[q].ver] = None
    BY DEF FailedUntouched
  <2>1. Booked(q) /\ Answered(q)
    BY DEF SdkIInv, CallsBooked
  <2>2. work[q] = "not_found"
    BY <2>1, Replies DEF Booked
  <2> QED BY <2>1, <2>2 DEF Answered, Unwritten
<1> QED BY <1>1, SdkInvariant, PTL

\* What create_context and update_context have returned is committed until
\* somebody asks for the deletion of the context.
THEOREM ReturnedStays == SdkSpec => []ReturnedHolds
<1>1. SdkIInv => ReturnedHolds
  <2> SUFFICES ASSUME SdkIInv, NEW q \in Calls, call[q].result = "returned",
                      call[q].op \in {"create", "update"}, ~Condemned(call[q].ctx)
               PROVE  disk.ver[call[q].ver] # None /\ disk.ver[call[q].ver].context = call[q].ctx
    BY DEF ReturnedHolds, Condemned
  <2>1. Booked(q) /\ Answered(q) /\ Kept /\ Lasting /\ TypeOK
    BY DEF SdkIInv, CallsBooked, StoreIInv, SdkTypeOK
  <2>2. work[q] = "ok"
    BY <2>1, Replies DEF Booked
  <2>3. <<call[q].ctx, call[q].ver>> \in stored
    BY <2>1, <2>2 DEF Answered
  <2>4. call[q].ctx \in Contexts /\ call[q].ver \in Versions
    BY <2>1, <2>3 DEF TypeOK
  <2>5. Lasts(call[q].ctx, call[q].ver) /\ disk.ctx[call[q].ctx] # None
    BY <2>1, <2>3, <2>4 DEF Lasting, Kept
  <2> QED BY <2>5 DEF Lasts, Vanished
<1> QED BY <1>1, SdkInvariant, PTL

\* The label that update_label has returned for is committed until another
\* call that may change it is made.
THEOREM LabelStays == SdkSpec => []LabelHolds
<1>1. SdkIInv => LabelHolds
  <2> SUFFICES ASSUME SdkIInv, NEW q \in Calls, call[q].result = "returned",
                      call[q].op = "label", ~call[q].contended, ~call[q].missed,
                      ~Condemned(call[q].ctx)
               PROVE  disk.ctx[call[q].ctx] = call[q].label
    BY DEF LabelHolds, Condemned
  <2>1. Booked(q) /\ Labelled(q)
    BY DEF SdkIInv, CallsBooked
  <2>2. work[q] = "ok" /\ Made(q)
    BY <2>1, Replies DEF Booked
  <2> QED BY <2>1, <2>2 DEF Labelled, Undisturbed
<1> QED BY <1>1, SdkInvariant, PTL

\* Calls see those that were answered before they were made, across restarts.
THEOREM CallsOrdered == SdkSpec => []CallsInOrder
<1>1. SdkIInv => CallsInOrder
  <2> SUFFICES ASSUME SdkIInv, NEW q \in Calls
               PROVE  /\ call[q].existed /\ call[q].result = "not_found" =>
                            Condemned(call[q].ctx)
                      /\ call[q].deleted => call[q].result # "returned"
    BY DEF CallsInOrder, Condemned
  <2>1. Booked(q) /\ Ordered(q)
    BY DEF SdkIInv, CallsBooked
  <2>2. /\ call[q].result = "not_found" => work[q] = "not_found"
        /\ call[q].result = "returned" => work[q] = "ok"
    BY <2>1, Replies DEF Booked
  <2> QED BY <2>1, <2>2 DEF Ordered
<1> QED BY <1>1, SdkInvariant, PTL

\* What holds of the store alone holds of it under the SDK, on a database that
\* earlier runs have left.
THEOREM SdkDurability == SdkSpec => [](AnswersDurable /\ HistoryClosed)
<1>1. SdkIInv => AnswersDurable /\ HistoryClosed
  BY DEF SdkIInv, StoreIInv, IInv, Rest, Lasting, Lasts, Vanished, AnswersDurable
<1> QED BY <1>1, SdkInvariant, PTL

-----------------------------------------------------------------------------
(* One request at a time: the chains of VersionHistory. *)

\* The versions of a context are finitely many, stored at different times, and
\* each place of the list that list_versions gives is somebody's.
Ranked(db, c) ==
    /\ IsFiniteSet(VersionsOf(db, c))
    /\ \A v, w \in VersionsOf(db, c) :
            v # w => db.ver[v].created_at # db.ver[w].created_at
    /\ \A i \in 1 .. Cardinality(VersionsOf(db, c)) : Nth(db, c, i) # {}

\* Every context has its list, which is empty only without the context.
Listed(db) ==
    \A c \in Contexts :
        Ranked(db, c) /\ (db.ctx[c] # None => VersionsOf(db, c) # {})

\* No row is later than the clock.
Dated(db) == \A v \in Versions : db.ver[v] # None => db.ver[v].created_at <= clock

\* The parent of the next version of c.
Follows(db, c, p) ==
    IF VersionsOf(db, c) = {} THEN p = None ELSE p \in Latest(db, c)

\* What one commit does to the versions: it stores one at the end of a list,
\* removes a list, or changes none.
SameRows(old, new) == \A w \in Versions : new.ver[w] = old.ver[w]
Extended(old, new, c, v) ==
    /\ old.ver[v] = None /\ new.ver[v] # None
    /\ new.ver[v].context = c /\ Follows(old, c, new.ver[v].parent)
    /\ \A w \in Versions : w # v => new.ver[w] = old.ver[w]
    /\ \A w \in VersionsOf(old, c) : old.ver[w].created_at < new.ver[v].created_at
Emptied(old, new, c) ==
    /\ VersionsOf(old, c) # {}
    /\ \A w \in Versions : new.ver[w] =
            IF old.ver[w] # None /\ old.ver[w].context = c THEN None ELSE old.ver[w]
OneChange(old, new) ==
    \/ SameRows(old, new)
    \/ \E c \in Contexts, v \in Versions : Extended(old, new, c, v)
    \/ \E c \in Contexts : Emptied(old, new, c)

\* What is pending is what the only request has added.
Mine(t) ==
    /\ \A v \in Versions : pending.ver[v] # None =>
            /\ req[t].op \in {"create", "update"} /\ req[t].step = "flush"
            /\ v = req[t].ver
            /\ pending.ver[v].context = req[t].ctx
            /\ pending.ver[v].parent = req[t].parent
    /\ \A c \in Contexts : pending.ctx[c] # None =>
            /\ req[t].op = "create" /\ req[t].step \in {"add_version", "flush"}
            /\ c = req[t].ctx
            /\ req[t].step = "flush" => pending.ver[req[t].ver] # None
    /\ \A c \in pending.gone :
            req[t].op = "delete" /\ req[t].step = "flush" /\ c = req[t].ctx

\* What the request has read is still so.
Seen(t) ==
    /\ req[t].op = "create" /\ req[t].step \in {"add_version", "flush"} =>
            tables.ctx[req[t].ctx] = None
    /\ req[t].op = "update" /\ req[t].step \in {"add_version", "flush"} =>
            Follows(tables, req[t].ctx, req[t].parent)
    /\ req[t].op = "delete" /\ req[t].step = "flush" =>
            tables.ctx[req[t].ctx] # None

Sequential(t) ==
    /\ Listed(tables) /\ Listed(disk) /\ Dated(tables) /\ Dated(disk)
    /\ OneChange(disk, tables)
    /\ ~poisoned => Mine(t)
    /\ Seen(t)
-----------------------------------------------------------------------------
(* Lists of versions. *)

\* A context whose rows do not change keeps its list.
LEMMA SameList ==
  ASSUME NEW old, NEW new, NEW c, Ranked(old, c),
         VersionsOf(new, c) = VersionsOf(old, c),
         \A v \in VersionsOf(old, c) : new.ver[v] = old.ver[v]
  PROVE  Ranked(new, c) /\ HistoryOf(new, c) = HistoryOf(old, c)
<1> DEFINE V == VersionsOf(old, c)
           n == Cardinality(V)
<1>1. \A v \in V : Before(new, c, v) = Before(old, c, v)
  BY DEF Before
<1>2. \A i \in 1 .. n : Nth(new, c, i) = Nth(old, c, i)
  BY <1>1 DEF Nth
<1>3. \A i \in 1 .. n :
        Entry(new, CHOOSE v \in Nth(old, c, i) : TRUE)
            = Entry(old, CHOOSE v \in Nth(old, c, i) : TRUE)
  <2> SUFFICES ASSUME NEW i \in 1 .. n
               PROVE  Entry(new, CHOOSE v \in Nth(old, c, i) : TRUE)
                        = Entry(old, CHOOSE v \in Nth(old, c, i) : TRUE)
    OBVIOUS
  <2>1. (CHOOSE v \in Nth(old, c, i) : TRUE) \in Nth(old, c, i)
    BY DEF Ranked
  <2>2. Nth(old, c, i) \subseteq V
    BY DEF Nth
  <2>3. new.ver[CHOOSE v \in Nth(old, c, i) : TRUE]
            = old.ver[CHOOSE v \in Nth(old, c, i) : TRUE]
    BY <2>1, <2>2
  <2> QED BY <2>3 DEF Entry
<1>4. HistoryOf(new, c) = HistoryOf(old, c)
  BY <1>2, <1>3 DEF HistoryOf
<1>5. Ranked(new, c)
  BY <1>2 DEF Ranked
<1> QED BY <1>4, <1>5

\* A context without versions has the empty list.
LEMMA NoList ==
  ASSUME NEW db, NEW c, VersionsOf(db, c) = {}
  PROVE  Ranked(db, c) /\ HistoryOf(db, c) = <<>>
<1>1. IsFiniteSet(VersionsOf(db, c)) /\ Cardinality(VersionsOf(db, c)) = 0
  BY FS_EmptySet
<1>2. 1 .. 0 = {}
  OBVIOUS
<1> QED BY <1>1, <1>2 DEF Ranked, HistoryOf

\* The entry of the latest version is the last of the list.
LEMMA LastPlace ==
  ASSUME NEW db \in Tables, NEW c \in Contexts, Ranked(db, c), NEW p \in Latest(db, c)
  PROVE  /\ Cardinality(VersionsOf(db, c)) \in Nat \ {0}
         /\ Nth(db, c, Cardinality(VersionsOf(db, c))) = {p}
<1> DEFINE V == VersionsOf(db, c)
           n == Cardinality(V)
<1>1. /\ IsFiniteSet(V) /\ p \in V /\ n \in Nat
      /\ \A w \in V : db.ver[w].created_at \in Int
  BY FS_CardinalityType DEF Ranked, Latest, VersionsOf, Tables, VersionRow, Time
<1>2. IsFiniteSet(V \ {p}) /\ Cardinality(V \ {p}) = n - 1
  BY <1>1, FS_RemoveElement
<1>3. n # 0
  BY <1>1, FS_EmptySet
<1>4. Before(db, c, p) = V \ {p}
  <2>1. \A w \in V : w # p => db.ver[w].created_at < db.ver[p].created_at
    BY <1>1 DEF Ranked, Latest
  <2> QED BY <1>1, <2>1 DEF Before
<1>5. ASSUME NEW w \in V, w # p
      PROVE  Cardinality(Before(db, c, w)) # n - 1
  <2>1. /\ Before(db, c, w) \subseteq V \ {p}
        /\ w \notin Before(db, c, w)
    BY <1>1, <1>5 DEF Before, Latest
  <2>2. IsFiniteSet((V \ {p}) \ {w}) /\ Cardinality((V \ {p}) \ {w}) = n - 1 - 1
    BY <1>2, <1>5, FS_RemoveElement
  <2>3. /\ Cardinality(Before(db, c, w)) <= n - 1 - 1
        /\ Cardinality(Before(db, c, w)) \in Nat
    <3>1. Before(db, c, w) \in SUBSET ((V \ {p}) \ {w})
      BY <2>1
    <3> QED BY <2>2, <3>1, FS_Subset, FS_CardinalityType
  <2> QED BY <1>1, <2>3
<1>6. Nth(db, c, n) = {p}
  BY <1>1, <1>2, <1>4, <1>5 DEF Nth
<1> QED BY <1>1, <1>3, <1>6

\* A version stored later than those of its context takes the place after them.
LEMMA NextPlace ==
  ASSUME NEW old \in Tables, NEW new \in Tables, NEW c \in Contexts, NEW v \in Versions,
         Ranked(old, c), Extended(old, new, c, v)
  PROVE  /\ Cardinality(VersionsOf(old, c)) \in Nat
         /\ Cardinality(VersionsOf(new, c)) = Cardinality(VersionsOf(old, c)) + 1
         /\ \A i \in 1 .. Cardinality(VersionsOf(old, c)) : Nth(new, c, i) = Nth(old, c, i)
         /\ Nth(new, c, Cardinality(VersionsOf(new, c))) = {v}
         /\ Ranked(new, c)
<1> DEFINE V == VersionsOf(old, c)
           n == Cardinality(V)
<1>1. /\ IsFiniteSet(V) /\ n \in Nat /\ v \notin V
      /\ VersionsOf(new, c) = V \cup {v}
      /\ \A w \in V : new.ver[w] = old.ver[w]
  BY FS_CardinalityType DEF Ranked, Extended, VersionsOf
<1>2. IsFiniteSet(V \cup {v}) /\ Cardinality(V \cup {v}) = n + 1
  BY <1>1, FS_AddElement
<1>3. /\ \A w \in V : old.ver[w].created_at \in Int
      /\ new.ver[v].created_at \in Int
      /\ \A w \in V : old.ver[w].created_at < new.ver[v].created_at
  BY DEF VersionsOf, Tables, VersionRow, Time, Extended
<1>4. \A w \in V : Before(new, c, w) = Before(old, c, w)
  BY <1>1, <1>3 DEF Before
<1>5. Before(new, c, v) = V
  BY <1>1, <1>3 DEF Before
<1>6. ASSUME NEW w \in V
      PROVE  Cardinality(Before(old, c, w)) \in Nat /\ Cardinality(Before(old, c, w)) < n
  <2>1. Before(old, c, w) \in SUBSET (V \ {w})
    BY <1>3 DEF Before
  <2>2. IsFiniteSet(V \ {w}) /\ Cardinality(V \ {w}) = n - 1
    BY <1>1, FS_RemoveElement
  <2> QED BY <1>1, <2>1, <2>2, FS_Subset, FS_CardinalityType
<1>7. \A i \in 1 .. n : Nth(new, c, i) = Nth(old, c, i)
  BY <1>1, <1>4, <1>5 DEF Nth
<1>8. Nth(new, c, n + 1) = {v}
  BY <1>1, <1>4, <1>5, <1>6 DEF Nth
<1>9. Ranked(new, c)
  <2>1. \A w, u \in VersionsOf(new, c) :
            w # u => new.ver[w].created_at # new.ver[u].created_at
    BY <1>1, <1>3 DEF Ranked
  <2>2. ASSUME NEW i \in 1 .. n + 1
        PROVE  Nth(new, c, i) # {}
    <3>1. CASE i \in 1 .. n
      BY <1>7, <3>1 DEF Ranked
    <3>2. CASE i = n + 1
      BY <1>8, <3>2
    <3> QED BY <1>1, <3>1, <3>2
  <2> QED BY <1>1, <1>2, <2>1, <2>2 DEF Ranked
<1> QED BY <1>1, <1>2, <1>7, <1>8, <1>9

\* The entries of a list are versions of its context.
LEMMA EntriesStored ==
  ASSUME NEW db, NEW c, Ranked(db, c), NEW i \in 1 .. Cardinality(VersionsOf(db, c))
  PROVE  HistoryOf(db, c)[i].version \in VersionsOf(db, c)
<1>1. (CHOOSE v \in Nth(db, c, i) : TRUE) \in Nth(db, c, i)
  BY DEF Ranked
<1>2. Nth(db, c, i) \subseteq VersionsOf(db, c)
  BY DEF Nth
<1>3. HistoryOf(db, c)[i] = Entry(db, CHOOSE v \in Nth(db, c, i) : TRUE)
  BY DEF HistoryOf
<1> QED BY <1>1, <1>2, <1>3 DEF Entry

\* What Append does, entry by entry.
LEMMA AppendedIs ==
  ASSUME NEW S, NEW s \in Seq(S), NEW e \in S
  PROVE  Append(s, e) = [i \in 1 .. Len(s) + 1 |-> IF i <= Len(s) THEN s[i] ELSE e]
<1>1. Append(s, e) \in Seq(S) /\ Len(Append(s, e)) = Len(s) + 1 /\ Len(s) \in Nat
  OBVIOUS
<1>2. Append(s, e) \in [1 .. Len(s) + 1 -> S]
  BY <1>1, LenProperties
<1>3. \A i \in 1 .. Len(s) + 1 :
        Append(s, e)[i] = IF i <= Len(s) THEN s[i] ELSE e
  BY <1>1
<1> QED BY <1>1, <1>2, <1>3

\* The list of a context that gets a version is its old list and the version,
\* whose parent is the last of the old list.
LEMMA GrownList ==
  ASSUME NEW old \in Tables, NEW new \in Tables, NEW c \in Contexts, NEW v \in Versions,
         Ranked(old, c), Extended(old, new, c, v)
  PROVE  /\ HistoryOf(new, c) = Append(HistoryOf(old, c), Entry(new, v))
         /\ VersionsOf(old, c) # {} =>
                /\ HistoryOf(old, c) # <<>>
                /\ new.ver[v].parent
                    = HistoryOf(old, c)[Len(HistoryOf(old, c))].version
<1> DEFINE V == VersionsOf(old, c)
           n == Cardinality(V)
           h == HistoryOf(old, c)
           E == {h[i] : i \in 1 .. n}
<1>1. /\ n \in Nat /\ Cardinality(VersionsOf(new, c)) = n + 1
      /\ \A i \in 1 .. n : Nth(new, c, i) = Nth(old, c, i)
      /\ Nth(new, c, n + 1) = {v}
  BY NextPlace
<1>2. h = [i \in 1 .. n |-> Entry(old, CHOOSE w \in Nth(old, c, i) : TRUE)]
  BY DEF HistoryOf
<1>3. h \in [1 .. n -> E]
  BY <1>2
<1>4. h \in Seq(E) /\ Len(h) = n
  BY <1>1, <1>3
<1>5. Append(h, Entry(new, v))
        = [i \in 1 .. n + 1 |-> IF i <= n THEN h[i] ELSE Entry(new, v)]
  <2> DEFINE e == Entry(new, v)
  <2>1. h \in Seq(E \cup {e}) /\ e \in E \cup {e}
    BY <1>4
  <2> QED BY <1>4, <2>1, AppendedIs
<1>6. ASSUME NEW i \in 1 .. n
      PROVE  Entry(new, CHOOSE w \in Nth(new, c, i) : TRUE) = h[i]
  <2> DEFINE w == CHOOSE w \in Nth(old, c, i) : TRUE
  <2>1. w \in Nth(old, c, i) /\ Nth(old, c, i) \subseteq V
    BY DEF Ranked, Nth
  <2>2. new.ver[w] = old.ver[w]
    BY <2>1 DEF VersionsOf, Extended
  <2>3. Entry(new, w) = Entry(old, w)
    BY <2>2 DEF Entry
  <2>4. Nth(new, c, i) = Nth(old, c, i)
    BY <1>1
  <2> QED BY <1>2, <2>3, <2>4
<1>7. (CHOOSE w \in Nth(new, c, n + 1) : TRUE) = v
  BY <1>1
<1>8. HistoryOf(new, c)
        = [i \in 1 .. n + 1 |-> Entry(new, CHOOSE w \in Nth(new, c, i) : TRUE)]
  BY <1>1 DEF HistoryOf
<1>9. \A i \in 1 .. n + 1 : Entry(new, CHOOSE w \in Nth(new, c, i) : TRUE)
            = IF i <= n THEN h[i] ELSE Entry(new, v)
  <2> SUFFICES ASSUME NEW i \in 1 .. n + 1
               PROVE  Entry(new, CHOOSE w \in Nth(new, c, i) : TRUE)
                        = IF i <= n THEN h[i] ELSE Entry(new, v)
    OBVIOUS
  <2>1. CASE i <= n
    BY <1>1, <1>6, <2>1
  <2>2. CASE i = n + 1
    BY <1>1, <1>7, <2>2
  <2> QED BY <1>1, <2>1, <2>2
<1>10. HistoryOf(new, c) = Append(h, Entry(new, v))
  BY <1>5, <1>8, <1>9
<1>11. ASSUME V # {}
       PROVE  h # <<>> /\ new.ver[v].parent = h[Len(h)].version
  <2> DEFINE p == new.ver[v].parent
  <2>1. p \in Latest(old, c)
    BY <1>11 DEF Extended, Follows
  <2>2. n # 0 /\ Nth(old, c, n) = {p}
    BY <2>1, LastPlace
  <2>3. h[n] = Entry(old, p)
    <3>1. n \in 1 .. n
      BY <1>1, <2>2
    <3>2. h[n] = Entry(old, CHOOSE w \in Nth(old, c, n) : TRUE)
      BY <1>2, <3>1
    <3>3. (CHOOSE w \in Nth(old, c, n) : TRUE) = p
      BY <2>2
    <3> QED BY <3>2, <3>3
  <2>4. h[n].version = p
    BY <2>3 DEF Entry
  <2>5. h[Len(h)] = h[n]
    BY <1>4
  <2>6. h # <<>>
    BY <1>4, <2>2
  <2> QED BY <2>4, <2>5, <2>6
<1> QED BY <1>10, <1>11

\* A change of the committed rows is a step of the abstract chains.
LEMMA AbstractStep ==
  ASSUME disk \in Tables, disk' \in Tables, Listed(disk), OneChange(disk, disk')
  PROVE  [History!Next]_([c \in Contexts |-> HistoryOf(disk, c)])
<1> DEFINE h == [c \in Contexts |-> HistoryOf(disk, c)]
<1>1. \A c \in Contexts : Ranked(disk, c)
  BY DEF Listed
<1>2. ASSUME NEW c \in Contexts,
             VersionsOf(disk', c) = VersionsOf(disk, c),
             \A v \in VersionsOf(disk, c) : disk'.ver[v] = disk.ver[v]
      PROVE  HistoryOf(disk', c) = HistoryOf(disk, c)
  BY <1>1, <1>2, SameList
<1>3. CASE SameRows(disk, disk')
  <2>1. \A c \in Contexts : /\ VersionsOf(disk', c) = VersionsOf(disk, c)
                            /\ \A v \in VersionsOf(disk, c) : disk'.ver[v] = disk.ver[v]
    BY <1>3 DEF SameRows, VersionsOf
  <2> QED BY <1>2, <2>1
<1>4. ASSUME NEW c \in Contexts, NEW v \in Versions, Extended(disk, disk', c, v)
      PROVE  History!Next
  <2>1. \A d \in Contexts : d # c =>
            HistoryOf(disk', d) = HistoryOf(disk, d)
    <3> SUFFICES ASSUME NEW d \in Contexts, d # c
                 PROVE  HistoryOf(disk', d) = HistoryOf(disk, d)
      OBVIOUS
    <3>1. /\ VersionsOf(disk', d) = VersionsOf(disk, d)
          /\ \A w \in VersionsOf(disk, d) : disk'.ver[w] = disk.ver[w]
      BY <1>4 DEF Extended, VersionsOf
    <3> QED BY <1>2, <3>1
  <2>2. HistoryOf(disk', c) = Append(HistoryOf(disk, c), Entry(disk', v))
    BY <1>1, <1>4, GrownList
  <2>3. h' = [h EXCEPT ![c] = Append(HistoryOf(disk, c), Entry(disk', v))]
    BY <2>1, <2>2
  <2>4. \A d \in Contexts : \A i \in DOMAIN h[d] : h[d][i].version # v
    <3> SUFFICES ASSUME NEW d \in Contexts, NEW i \in DOMAIN h[d]
                 PROVE  h[d][i].version # v
      OBVIOUS
    <3>1. i \in 1 .. Cardinality(VersionsOf(disk, d))
      BY DEF HistoryOf
    <3>2. h[d][i].version \in VersionsOf(disk, d)
      BY <1>1, <3>1, EntriesStored
    <3> QED BY <1>4, <3>2 DEF Extended, VersionsOf
  <2>5. CASE VersionsOf(disk, c) = {}
    <3>1. HistoryOf(disk, c) = <<>>
      BY <2>5, NoList
    <3>2. Entry(disk', v) = [version |-> v, parent |-> None]
      BY <1>4, <2>5 DEF Entry, Extended, Follows
    <3>3. h[c] = <<>>
      BY <3>1
    <3>4. h' = [h EXCEPT ![c] = <<[version |-> v, parent |-> None]>>]
      BY <2>3, <3>1, <3>2
    <3> QED BY <2>4, <3>3, <3>4 DEF History!Next, History!Create
  <2>6. CASE VersionsOf(disk, c) # {}
    <3>1. /\ h[c] # <<>>
          /\ Entry(disk', v) = [version |-> v, parent |-> h[c][Len(h[c])].version]
      BY <1>1, <1>4, <2>6, GrownList DEF Entry
    <3>2. h' = [h EXCEPT ![c] =
                    Append(@, [version |-> v, parent |-> @[Len(@)].version])]
      BY <2>3, <3>1
    <3> QED BY <2>4, <3>1, <3>2 DEF History!Next, History!Update
  <2> QED BY <2>5, <2>6
<1>5. ASSUME NEW c \in Contexts, Emptied(disk, disk', c)
      PROVE  History!Next
  <2>1. VersionsOf(disk', c) = {}
    BY <1>5 DEF Emptied, VersionsOf
  <2>2. ASSUME NEW d \in Contexts, d # c
        PROVE  HistoryOf(disk', d) = HistoryOf(disk, d)
    <3>1. /\ VersionsOf(disk', d) = VersionsOf(disk, d)
          /\ \A w \in VersionsOf(disk, d) : disk'.ver[w] = disk.ver[w]
      BY <1>5, <2>2 DEF Emptied, VersionsOf
    <3> QED BY <1>2, <3>1
  <2>3. h' = [h EXCEPT ![c] = <<>>]
    BY <2>1, <2>2, NoList
  <2>4. h[c] # <<>>
    <3>1. IsFiniteSet(VersionsOf(disk, c)) /\ VersionsOf(disk, c) # {}
      BY <1>1, <1>5 DEF Ranked, Emptied
    <3>2. Cardinality(VersionsOf(disk, c)) \in Nat \ {0}
      BY <3>1, FS_EmptySet, FS_CardinalityType
    <3>3. 1 \in DOMAIN h[c]
      BY <3>2 DEF HistoryOf
    <3> QED BY <3>3
  <2> QED BY <2>3, <2>4 DEF History!Next, History!Delete
<1> QED BY <1>3, <1>4, <1>5 DEF OneChange

-----------------------------------------------------------------------------
(* The only request. *)

\* One change leaves every list in order.
LEMMA RankedKept ==
  ASSUME NEW old \in Tables, NEW new \in Tables, Listed(old), OneChange(old, new),
         NEW c \in Contexts
  PROVE  Ranked(new, c)
<1>1. Ranked(old, c)
  BY DEF Listed
<1>2. CASE /\ VersionsOf(new, c) = VersionsOf(old, c)
           /\ \A v \in VersionsOf(old, c) : new.ver[v] = old.ver[v]
  BY <1>1, <1>2, SameList
<1>3. CASE SameRows(old, new)
  <2>1. /\ VersionsOf(new, c) = VersionsOf(old, c)
        /\ \A v \in VersionsOf(old, c) : new.ver[v] = old.ver[v]
    BY <1>3 DEF SameRows, VersionsOf
  <2> QED BY <1>2, <2>1
<1>4. ASSUME NEW d \in Contexts, NEW v \in Versions, Extended(old, new, d, v)
      PROVE  Ranked(new, c)
  <2>1. CASE c = d
    BY <1>1, <1>4, <2>1, NextPlace
  <2>2. CASE c # d
    <3>1. /\ VersionsOf(new, c) = VersionsOf(old, c)
          /\ \A w \in VersionsOf(old, c) : new.ver[w] = old.ver[w]
      BY <1>4, <2>2 DEF Extended, VersionsOf
    <3> QED BY <1>2, <3>1
  <2> QED BY <2>1, <2>2
<1>5. ASSUME NEW d \in Contexts, Emptied(old, new, d)
      PROVE  Ranked(new, c)
  <2>1. CASE c = d
    <3>1. VersionsOf(new, c) = {}
      BY <1>5, <2>1 DEF Emptied, VersionsOf
    <3> QED BY <3>1, NoList
  <2>2. CASE c # d
    <3>1. /\ VersionsOf(new, c) = VersionsOf(old, c)
          /\ \A w \in VersionsOf(old, c) : new.ver[w] = old.ver[w]
      BY <1>5, <2>2 DEF Emptied, VersionsOf
    <3> QED BY <1>2, <3>1
  <2> QED BY <2>1, <2>2
<1> QED BY <1>3, <1>4, <1>5 DEF OneChange

\* What a flush writes of one request is one change, and the lists it leaves
\* are in order.
LEMMA WrittenOnce ==
  ASSUME IInv, NEW t \in Threads, Listed(tables), Dated(tables), Mine(t), Seen(t),
         req[t].step \in {"idle", "flush"}, NEW now \in Time, now >= clock,
         (\E v \in Versions : pending.ver[v] # None) => now > clock,
         ForeignKey(Inserted(pending, tables, now))
  PROVE  /\ OneChange(tables, Deleted(pending.gone, Inserted(pending, tables, now)))
         /\ Listed(Deleted(pending.gone, Inserted(pending, tables, now)))
         /\ \A v \in Versions :
                Deleted(pending.gone, Inserted(pending, tables, now)).ver[v] # None =>
                    Deleted(pending.gone, Inserted(pending, tables, now)).ver[v].created_at
                        <= now
<1> DEFINE new == Inserted(pending, tables, now)
           left == Deleted(pending.gone, new)
<1>1. /\ tables \in Tables /\ new \in Tables /\ clock \in Time
      /\ ForeignKey(tables) /\ ParentStored(new)
  BY InsertedRows, WrittenClosed DEF IInv, TypeOK, Rest, HistoryClosed
<1>2. left \in Tables
  BY <1>1, DeletedClosed
<1>3. /\ \A v \in Versions : pending.ver[v] = None => new.ver[v] = tables.ver[v]
      /\ \A v \in Versions : pending.ver[v] # None =>
            new.ver[v] = Stamped(pending.ver[v], now)
  <2>1. new.ver = [v \in Versions |-> IF pending.ver[v] # None
                    THEN Stamped(pending.ver[v], now) ELSE tables.ver[v]]
    BY DEF Inserted, InsertedVersions
  <2> HIDE DEF new
  <2> QED BY <2>1
<1>4. \A c \in Contexts : tables.ctx[c] = None /\ pending.ctx[c] = None => new.ctx[c] = None
  BY InsertedRows DEF IInv
<1>5. /\ \A c \in Contexts : left.ctx[c] = IF c \in pending.gone THEN None ELSE new.ctx[c]
      /\ \A v \in Versions : left.ver[v] =
            IF new.ver[v] # None /\ new.ver[v].context \in pending.gone
            THEN None ELSE new.ver[v]
  <2> HIDE DEF new
  <2> QED BY DEF Deleted
<1>6. /\ \A v \in Versions : tables.ver[v] # None =>
            tables.ver[v].created_at \in Int /\ tables.ver[v].created_at <= clock
      /\ clock \in Int /\ now \in Int
  BY <1>1 DEF Dated, Time, Tables, VersionRow
<1>7. \A v \in Versions : pending.ver[v] # None =>
        /\ Stamped(pending.ver[v], now).created_at = now
        /\ Stamped(pending.ver[v], now).context = pending.ver[v].context
        /\ Stamped(pending.ver[v], now).parent = pending.ver[v].parent
        /\ Stamped(pending.ver[v], now) # None
  <2>1. \A row : /\ Stamped(row, now).created_at = now
                 /\ Stamped(row, now).context = row.context
                 /\ Stamped(row, now).parent = row.parent
    BY DEF Stamped
  <2>2. \A row \in NewVersion : Stamped(row, now) \in VersionRow
    BY DEF Stamped, NewVersion, VersionRow
  <2>3. \A v \in Versions : pending.ver[v] # None => pending.ver[v] \in NewVersion
    BY PendingTyped DEF IInv
  <2> QED BY <2>1, <2>2, <2>3, RowAssumption
<1>8. \A v \in Versions : left.ver[v] # None => left.ver[v].created_at <= now
  <2> HIDE DEF new, left
  <2> QED BY <1>3, <1>5, <1>6, <1>7
<1>9. \A c \in Contexts : tables.ctx[c] # None => VersionsOf(tables, c) # {}
  BY DEF Listed
<1> HIDE DEF new, left
<1>10. ASSUME NEW v \in Versions, pending.ver[v] # None
       PROVE  /\ OneChange(tables, left)
              /\ \A c \in Contexts : left.ctx[c] # None => VersionsOf(left, c) # {}
  <2> DEFINE c == req[t].ctx
  <2>1. /\ req[t].op \in {"create", "update"} /\ req[t].step = "flush" /\ v = req[t].ver
        /\ pending.ver[v].context = c /\ pending.ver[v].parent = req[t].parent
        /\ pending.gone = {}
        /\ \A w \in Versions : w # v => pending.ver[w] = None
    BY <1>10, PendingTyped DEF Mine, IInv
  <2>2. c \in Contexts /\ (req[t].op = "create" => req[t].parent = None)
    BY <2>1 DEF IInv, Rest, Requests, Proper, Idle
  <2>3. /\ left.ver[v] # None /\ left.ver[v].context = c
        /\ left.ver[v].parent = req[t].parent /\ left.ver[v].created_at = now
        /\ \A w \in Versions : w # v => left.ver[w] = tables.ver[w]
    BY <1>3, <1>5, <1>7, <1>10, <2>1
  <2>4. tables.ver[v] = None
    BY <1>10 DEF IInv, Rest, PendingNew
  <2>5. Follows(tables, c, req[t].parent)
    <3>1. CASE req[t].op = "create"
      <4>1. tables.ctx[c] = None
        BY <2>1, <3>1 DEF Seen
      <4>2. VersionsOf(tables, c) = {}
        BY <1>1, <4>1 DEF ForeignKey, VersionsOf
      <4> QED BY <2>2, <3>1, <4>2 DEF Follows
    <3>2. CASE req[t].op = "update"
      BY <2>1, <3>2 DEF Seen
    <3> QED BY <2>1, <3>1, <3>2
  <2>6. now > clock
    BY <1>10
  <2>7. \A w \in VersionsOf(tables, c) : tables.ver[w].created_at < left.ver[v].created_at
    BY <1>6, <2>3, <2>6 DEF VersionsOf
  <2>8. Extended(tables, left, c, v)
    BY <2>3, <2>4, <2>5, <2>7 DEF Extended
  <2>9. ASSUME NEW d \in Contexts, left.ctx[d] # None
        PROVE  VersionsOf(left, d) # {}
    <3>1. CASE d = c
      BY <2>3, <3>1 DEF VersionsOf
    <3>2. CASE d # c
      <4>1. tables.ctx[d] # None
        <5>1. pending.ctx[d] = None
          BY <3>2 DEF Mine
        <5> QED BY <1>4, <1>5, <2>1, <2>9, <5>1
      <4>2. VersionsOf(left, d) = VersionsOf(tables, d)
        BY <2>3, <2>4, <3>2 DEF VersionsOf
      <4> QED BY <1>9, <4>1, <4>2
    <3> QED BY <3>1, <3>2
  <2> QED BY <2>2, <2>8, <2>9 DEF OneChange
<1>11. ASSUME \A v \in Versions : pending.ver[v] = None
       PROVE  /\ OneChange(tables, left)
              /\ \A c \in Contexts : left.ctx[c] # None => VersionsOf(left, c) # {}
  <2>1. \A v \in Versions : new.ver[v] = tables.ver[v]
    BY <1>3, <1>11
  <2>2. \A c \in Contexts : left.ctx[c] # None => tables.ctx[c] # None /\ c \notin pending.gone
    <3>1. ASSUME NEW c \in Contexts, pending.ctx[c] # None, left.ctx[c] # None
          PROVE  tables.ctx[c] # None
      <4>1. /\ req[t].op = "create" /\ req[t].step \in {"add_version", "flush"}
            /\ req[t].step = "flush" => pending.ver[req[t].ver] # None
        BY <3>1 DEF Mine
      <4>2. req[t].ver \in Versions
        BY <4>1 DEF IInv, Rest, Requests, Proper, Idle
      <4>3. req[t].step = "add_version"
        BY <1>11, <4>1, <4>2
      <4> QED BY <4>3
    <3> QED BY <1>4, <1>5, <3>1
  <2>3. CASE pending.gone = {}
    <3>1. SameRows(tables, left)
      BY <1>5, <2>1, <2>3 DEF SameRows
    <3>2. \A c \in Contexts : VersionsOf(left, c) = VersionsOf(tables, c)
      BY <3>1 DEF SameRows, VersionsOf
    <3> QED BY <1>9, <2>2, <3>1, <3>2 DEF OneChange
  <2>4. ASSUME NEW c \in pending.gone
        PROVE  /\ OneChange(tables, left)
               /\ \A d \in Contexts : left.ctx[d] # None => VersionsOf(left, d) # {}
    <3>1. /\ req[t].op = "delete" /\ req[t].step = "flush" /\ c = req[t].ctx
          /\ pending.gone = {c} /\ c \in Contexts
      BY <2>4, PendingTyped DEF Mine, IInv, TypeOK, PendingObjects
    <3>2. tables.ctx[c] # None
      BY <3>1 DEF Seen
    <3>3. Emptied(tables, left, c)
      BY <1>5, <1>9, <2>1, <3>1, <3>2 DEF Emptied
    <3>4. ASSUME NEW d \in Contexts, left.ctx[d] # None
          PROVE  VersionsOf(left, d) # {}
      <4>1. d # c /\ tables.ctx[d] # None
        BY <2>2, <2>4, <3>4
      <4>2. VersionsOf(left, d) = VersionsOf(tables, d)
        BY <3>3, <4>1 DEF Emptied, VersionsOf
      <4> QED BY <1>9, <4>1, <4>2
    <3> QED BY <3>1, <3>3, <3>4 DEF OneChange
  <2> QED BY <2>3, <2>4
<1>12. /\ OneChange(tables, left)
       /\ \A c \in Contexts : left.ctx[c] # None => VersionsOf(left, c) # {}
  BY <1>10, <1>11
<1>13. Listed(left)
  BY <1>1, <1>2, <1>12, RankedKept DEF Listed
<1> QED BY <1>8, <1>12, <1>13 DEF left, new

\* A step that leaves the rows and the clock alone.
LEMMA RowsUntouched ==
  ASSUME NEW t \in Threads, Sequential(t), UNCHANGED database,
         ~poisoned => Mine(t)', Seen(t)'
  PROVE  Sequential(t)' /\ OneChange(disk, disk')
<1>1. UNCHANGED <<tables, disk, poisoned, clock>>
  BY DEF database
<1>2. /\ Listed(tables)' /\ Listed(disk)' /\ Dated(tables)' /\ Dated(disk)'
      /\ OneChange(disk, tables)'
  BY <1>1 DEF Sequential, Dated
<1>3. OneChange(disk, disk')
  BY <1>1 DEF OneChange, SameRows
<1> QED BY <1>1, <1>2, <1>3 DEF Sequential

\* A step before the request has added or decided anything.
LEMMA NothingAdded ==
  ASSUME NEW t \in Threads, Sequential(t), UNCHANGED <<database, pending>>,
         poisoned \/ req[t].step \notin {"add_version", "flush"},
         req'[t].step \notin {"add_version", "flush"}
  PROVE  Sequential(t)' /\ OneChange(disk, disk')
<1>1. ~poisoned => Mine(t)'
  BY DEF Sequential, Mine
<1>2. Seen(t)'
  BY DEF Seen
<1> QED BY <1>1, <1>2, RowsUntouched

\* Arrivals, reads and refusals of the only request.
LEMMA ReadsSequential ==
  ASSUME IInv, NEW t \in Threads, Threads = {t}, Sequential(t),
         \/ \E c \in Contexts, v \in Versions, l \in Labels : BeginCreate(t, c, v, l)
         \/ \E c \in Contexts, v \in Versions : BeginUpdate(t, c, v)
         \/ \E op \in {"delete", "get"}, c \in Contexts : BeginOn(t, op, c, None)
         \/ \E c \in Contexts, l \in Labels : BeginOn(t, "label", c, l)
         \/ Find(t) \/ ReadLatest(t) \/ Reload(t) \/ Refused(t)
  PROVE  Sequential(t)' /\ OneChange(disk, disk')
<1>1. ASSUME NEW op, NEW c, NEW v, NEW l, NEW s \in {"add_context", "find"},
             Begin(t, op, c, v, l, s)
      PROVE  Sequential(t)' /\ OneChange(disk, disk')
  <2>1. UNCHANGED <<database, pending>> /\ req[t].step = "idle"
    BY <1>1 DEF Begin, Idle
  <2>2. req'[t].step = s
    BY <1>1 DEF Begin, IdleRequest, IInv, TypeOK
  <2> QED BY <2>1, <2>2, NothingAdded
<1>2. CASE Find(t)
  <2>1. UNCHANGED <<database, pending>> /\ req[t].step = "find"
    BY <1>2 DEF Find, At
  <2>2. req'[t].step \in {"idle", "set_label", "mark_deleted", "read_latest"}
    BY <1>2 DEF Find, Finish, Goto, AfterFind, IdleRequest, IInv, TypeOK, Request
  <2> QED BY <2>1, <2>2, NothingAdded
<1>3. CASE ReadLatest(t) \/ Reload(t)
  <2>1. /\ UNCHANGED <<database, pending>> /\ req[t].step \in {"read_latest", "reload"}
        /\ req'[t].step = "idle"
    BY <1>3 DEF ReadLatest, Reload, At, Finish, IdleRequest, IInv, TypeOK
  <2> QED BY <2>1, NothingAdded
<1>4. CASE Refused(t)
  <2>1. /\ UNCHANGED <<database, pending>> /\ req'[t].step = "idle"
        /\ req[t].step # "add_version"
    BY <1>4 DEF Refused, Finish, IdleRequest, IInv, TypeOK
  <2>2. poisoned
    BY <1>4 DEF Refused, IInv, TypeOK
  <2> QED BY <2>1, <2>2, NothingAdded
<1> QED BY <1>1, <1>2, <1>3, <1>4 DEF BeginCreate, BeginUpdate, BeginOn

\* The steps in which the only request adds and decides.
LEMMA AddsSequential ==
  ASSUME IInv, NEW t \in Threads, Threads = {t}, Sequential(t),
         \/ AddContext(t) \/ AddVersion(t) \/ ReadParent(t) \/ SetLabel(t)
         \/ MarkDeleted(t)
  PROVE  Sequential(t)' /\ OneChange(disk, disk')
<1>1. /\ TypeOK /\ (~Idle(t) => Proper(req[t]))
      /\ pending.ctx \in [Contexts -> Labels \cup {None}]
      /\ pending.ver \in [Versions -> NewVersion \cup {None}]
      /\ pending.gone \subseteq Contexts
      /\ req \in [Threads -> Request]
  BY PendingTyped DEF IInv, Rest, Requests, TypeOK
<1>2. Seen(t) /\ (~poisoned => Mine(t))
  BY DEF Sequential
<1>3. UNCHANGED database /\ tables' = tables /\ ~Idle(t) /\ Proper(req[t])
  BY <1>1 DEF AddContext, AddVersion, ReadParent, SetLabel, MarkDeleted, database, At, Idle
<1>4. CASE AddContext(t)
  <2>1. /\ req[t].op = "create" /\ req[t].step = "add_context" /\ req[t].ctx \in Contexts
    BY <1>3, <1>4 DEF AddContext, At, Proper, StepsOf, Ops
  <2>2. /\ pending'.ver = pending.ver /\ pending'.gone = pending.gone
        /\ \A c \in Contexts : c # req[t].ctx => pending'.ctx[c] = pending.ctx[c]
    BY <1>1, <1>4 DEF AddContext, TypeOK, PendingObjects
  <2>3. req'[t] = [req[t] EXCEPT !.step = "add_version"]
    BY <1>1, <1>4, Gone DEF AddContext, Steps
  <2>4. /\ req'[t].op = "create" /\ req'[t].step = "add_version"
        /\ req'[t].ctx = req[t].ctx
    BY <1>1, <2>1, <2>3 DEF Request
  <2>5. ~poisoned => Mine(t)'
    BY <1>2, <2>1, <2>2, <2>4 DEF Mine
  <2>6. tables.ctx[req[t].ctx] = None
    BY <2>1 DEF IInv, Rest, FreshContexts, At
  <2>7. Seen(t)'
    BY <1>3, <2>4, <2>6 DEF Seen
  <2> QED BY <1>3, <2>5, <2>7, RowsUntouched
<1>5. CASE AddVersion(t)
  <2>1. /\ req[t].op \in {"create", "update"} /\ req[t].step = "add_version"
        /\ req[t].ctx \in Contexts /\ req[t].ver \in Versions
    BY <1>3, <1>5 DEF AddVersion, At, Proper, StepsOf, Ops
  <2> DEFINE row == [context |-> req[t].ctx, parent |-> req[t].parent]
  <2>2. /\ pending'.ctx = pending.ctx /\ pending'.gone = pending.gone
        /\ pending'.ver[req[t].ver] = row
        /\ \A v \in Versions : v # req[t].ver => pending'.ver[v] = pending.ver[v]
    BY <1>1, <1>5, <2>1 DEF AddVersion, TypeOK, PendingObjects
  <2>3. req'[t] = [req[t] EXCEPT !.step = "flush"]
    BY <1>1, <1>5, Gone DEF AddVersion, Steps
  <2>4. /\ req'[t].op = req[t].op /\ req'[t].step = "flush"
        /\ req'[t].ctx = req[t].ctx /\ req'[t].ver = req[t].ver
        /\ req'[t].parent = req[t].parent
    BY <1>1, <2>3 DEF Request
  <2>5. row \in NewVersion /\ row # None
    <3>1. req[t].parent \in Versions \cup {None}
      BY <1>1 DEF Request
    <3> QED BY <2>1, <3>1, RowAssumption DEF NewVersion
  <2>6. ~poisoned => Mine(t)'
    BY <1>2, <2>1, <2>2, <2>4, <2>5 DEF Mine
  <2>7. Seen(t)'
    BY <1>2, <1>3, <2>1, <2>4 DEF Seen
  <2> QED BY <1>3, <2>6, <2>7, RowsUntouched
<1>6. CASE ReadParent(t)
  <2>1. PICK p \in Versions \cup {None} :
            /\ IF Latest(tables, req[t].ctx) = {} THEN p = None
               ELSE p \in Latest(tables, req[t].ctx)
            /\ req' = [req EXCEPT ![t].parent = p, ![t].step = "add_version"]
    BY <1>6 DEF ReadParent
  <2>2. /\ req[t].op = "update" /\ req[t].step = "read_latest" /\ pending' = pending
        /\ req[t].ctx \in Contexts
    BY <1>3, <1>6 DEF ReadParent, At, Proper
  <2>3. /\ req'[t].op = "update" /\ req'[t].step = "add_version"
        /\ req'[t].ctx = req[t].ctx /\ req'[t].parent = p
    BY <1>1, <2>1, <2>2 DEF Request
  <2>4. ~poisoned => Mine(t)'
    BY <1>2, <2>2 DEF Mine
  <2>5. Latest(tables, req[t].ctx) = {} => VersionsOf(tables, req[t].ctx) = {}
    BY <1>1, <2>2, LatestExists DEF TypeOK
  <2>6. Latest(tables, req[t].ctx) \subseteq VersionsOf(tables, req[t].ctx)
    BY DEF Latest
  <2>7. Seen(t)'
    BY <1>3, <2>1, <2>3, <2>5, <2>6 DEF Seen, Follows
  <2> QED BY <1>3, <2>4, <2>7, RowsUntouched
<1>7. CASE SetLabel(t)
  <2>1. /\ req[t].op = "label" /\ req[t].step = "set_label"
    BY <1>3, <1>7 DEF SetLabel, At, Proper, StepsOf, Ops
  <2>2. /\ pending'.ver = pending.ver /\ pending'.gone = pending.gone
        /\ pending'.ctx = pending.ctx
    BY <1>1, <1>7 DEF SetLabel, TypeOK, PendingObjects
  <2>3. req'[t] = [req[t] EXCEPT !.step = "flush"]
    BY <1>1, <1>7, Gone DEF SetLabel, Steps
  <2>4. req'[t].op = "label"
    BY <1>1, <2>1, <2>3 DEF Request
  <2>5. ~poisoned => Mine(t)'
    BY <1>2, <2>1, <2>2 DEF Mine
  <2>6. Seen(t)'
    BY <2>4 DEF Seen
  <2> QED BY <1>3, <2>5, <2>6, RowsUntouched
<1>8. CASE MarkDeleted(t)
  <2>1. /\ req[t].op = "delete" /\ req[t].step = "mark_deleted" /\ req[t].ctx \in Contexts
    BY <1>3, <1>8 DEF MarkDeleted, At, Proper, StepsOf, Ops
  <2>2. CASE tables.ctx[req[t].ctx] = None
    <3>1. pending' = pending /\ req'[t].step = "idle"
      BY <1>1, <1>8, <2>2 DEF MarkDeleted, Finish, IdleRequest
    <3> QED BY <1>3, <2>1, <3>1, NothingAdded
  <2>3. CASE tables.ctx[req[t].ctx] # None
    <3>1. /\ pending'.ver = pending.ver /\ pending'.ctx = pending.ctx
          /\ pending'.gone = pending.gone \cup {req[t].ctx}
      BY <1>1, <1>8, <2>3 DEF MarkDeleted, TypeOK, PendingObjects
    <3>2. req'[t] = [req[t] EXCEPT !.step = "flush"]
      BY <1>1, <1>8, <2>3, Gone DEF MarkDeleted, Steps
    <3>3. /\ req'[t].op = "delete" /\ req'[t].step = "flush" /\ req'[t].ctx = req[t].ctx
      BY <1>1, <2>1, <3>2 DEF Request
    <3>4. ~poisoned => Mine(t)'
      BY <1>2, <2>1, <3>1, <3>3 DEF Mine
    <3>5. Seen(t)'
      BY <1>3, <2>3, <3>3 DEF Seen
    <3> QED BY <1>3, <3>4, <3>5, RowsUntouched
  <2> QED BY <2>2, <2>3
<1> QED BY <1>4, <1>5, <1>6, <1>7, <1>8

\* The flush of the only request makes the one change that its commit is for.
LEMMA FlushSequential ==
  ASSUME IInv, NEW t \in Threads, \A d \in ClockSteps : d > 0, Sequential(t), Flush(t)
  PROVE  Sequential(t)' /\ OneChange(disk, disk')
<1>1. /\ ~poisoned /\ tables = disk /\ disk' = disk /\ Mine(t) /\ Seen(t)
      /\ req[t].step = "flush" /\ Listed(tables) /\ Dated(tables)
  BY DEF Flush, Usable, At, IInv, Rest, Synced, Sequential
<1>2. OneChange(disk, disk')
  BY <1>1 DEF OneChange, SameRows
<1>3. PICK d \in ClockSteps :
        LET now == IF pending.ver = NoObjects.ver THEN clock ELSE clock + d
            new == Inserted(pending, tables, now)
        IN  /\ now \in Time /\ clock' = now
            /\ IF ForeignKey(new) /\ UniqueTag(new)
               THEN /\ tables' = Deleted(pending.gone, new)
                    /\ poisoned' = poisoned /\ Goto(t, "commit")
               ELSE /\ tables' = disk /\ poisoned' = TRUE
                    /\ Finish(t, "error")
  BY DEF Flush
<1> DEFINE now == IF pending.ver = NoObjects.ver THEN clock ELSE clock + d
           new == Inserted(pending, tables, now)
<1>4. /\ now \in Time /\ clock' = now /\ clock \in Int /\ d \in Int /\ d > 0
  BY <1>3, ClockAssumption DEF IInv, TypeOK, Time
<1>5. now >= clock
  BY <1>4
<1>6. (\E v \in Versions : pending.ver[v] # None) => now > clock
  BY <1>4, NothingPending
<1>7. req'[t].step \in {"idle", "commit"}
  BY <1>3 DEF Goto, Finish, IdleRequest, IInv, TypeOK, Request
<1>8. Seen(t)'
  BY <1>7 DEF Seen
<1>9. Mine(t)'
  BY NothingPending DEF Flush, Mine, NoObjects
<1>10. \A v \in Versions : disk.ver[v] # None => disk.ver[v].created_at <= now
  <2>1. \A v \in Versions : disk.ver[v] # None =>
            disk.ver[v].created_at \in Int /\ disk.ver[v].created_at <= clock
    BY <1>1 DEF Dated, IInv, TypeOK, Tables, VersionRow, Time
  <2>2. now \in Int
    BY <1>4 DEF Time
  <2> HIDE DEF now
  <2> QED BY <1>4, <1>5, <2>1, <2>2
<1>11. Dated(disk)' /\ Listed(disk)'
  BY <1>1, <1>4, <1>10 DEF Dated
<1>12. CASE ForeignKey(new) /\ UniqueTag(new)
  <2>1. tables' = Deleted(pending.gone, new)
    BY <1>3, <1>12
  <2>2. /\ OneChange(tables, tables') /\ Listed(tables')
        /\ \A v \in Versions : tables'.ver[v] # None => tables'.ver[v].created_at <= now
    <3> HIDE DEF now
    <3> QED BY <1>1, <1>4, <1>5, <1>6, <1>12, <2>1, WrittenOnce
  <2>3. Dated(tables)' /\ Listed(tables)' /\ OneChange(disk, tables)'
    BY <1>1, <1>4, <2>2 DEF Dated
  <2> QED BY <1>2, <1>8, <1>9, <1>11, <2>3 DEF Sequential
<1>13. CASE ~(ForeignKey(new) /\ UniqueTag(new))
  <2>1. tables' = disk'
    BY <1>1, <1>3, <1>13
  <2>2. Dated(tables)' /\ Listed(tables)' /\ OneChange(disk, tables)'
    BY <1>11, <2>1 DEF Dated, Listed, OneChange, SameRows
  <2> QED BY <1>2, <1>8, <1>9, <1>11, <2>2 DEF Sequential
<1> QED BY <1>12, <1>13

\* The commit of the only request makes its change to the disk.
LEMMA CommitSequential ==
  ASSUME IInv, NEW t \in Threads, Sequential(t), Commit(t)
  PROVE  Sequential(t)' /\ OneChange(disk, disk')
<1>1. /\ disk' = tables /\ tables' = tables /\ clock' = clock /\ poisoned' = poisoned
      /\ req[t].step = "commit"
      /\ pending'.ver = pending.ver /\ pending'.ctx = pending.ctx
      /\ pending'.gone = pending.gone
  BY DEF Commit, At, IInv, TypeOK, PendingObjects
<1>2. req'[t].step \in {"idle", "reload"}
  BY DEF Commit, Goto, Finish, IdleRequest, IInv, TypeOK, Request
<1>3. Seen(t)'
  BY <1>2 DEF Seen
<1>4. ~poisoned => Mine(t)'
  BY <1>1 DEF Sequential, Mine
<1>5. OneChange(disk, disk')
  BY <1>1 DEF Sequential
<1>6. /\ Dated(tables)' /\ Dated(disk)' /\ Listed(tables)' /\ Listed(disk)'
      /\ OneChange(disk, tables)'
  BY <1>1 DEF Sequential, Dated, OneChange, SameRows
<1> QED BY <1>1, <1>3, <1>4, <1>5, <1>6 DEF Sequential

\* After a restart that leaves the disk one change on, all is in order.
LEMMA RestartSequential ==
  ASSUME IInv, NEW t \in Threads, Restart, tables' = disk', Listed(disk'),
         \A v \in Versions : disk'.ver[v] # None => disk'.ver[v].created_at <= clock
  PROVE  Sequential(t)'
<1>1. req'[t].step = "idle" /\ clock' = clock
  BY DEF Restart, IdleRequest
<1>2. Seen(t)'
  BY <1>1 DEF Seen
<1>3. Mine(t)'
  BY NothingPending DEF Restart, Mine, NoObjects
<1>4. /\ Dated(tables)' /\ Dated(disk)' /\ Listed(tables)' /\ Listed(disk)'
      /\ OneChange(disk, tables)'
  BY <1>1 DEF Dated, OneChange, SameRows
<1> QED BY <1>2, <1>3, <1>4 DEF Sequential

\* A crash and a shutdown write nothing that the only request has not committed.
LEMMA RestartsSequential ==
  ASSUME IInv, Committing, NEW t \in Threads, Sequential(t), Crash \/ Shutdown
  PROVE  Sequential(t)' /\ OneChange(disk, disk')
<1>1. CASE Crash
  <2>1. Restart /\ tables' = disk' /\ disk' = disk
    BY <1>1 DEF Crash
  <2>2. OneChange(disk, disk')
    BY <2>1 DEF OneChange, SameRows
  <2> QED BY <2>1, <2>2, RestartSequential DEF Sequential, Dated
<1>2. CASE Shutdown
  <2> DEFINE new == Inserted(pending, tables, clock)
  <2>1. Restart /\ tables' = disk' /\ Idle(t) /\ committer = None
    BY <1>2 DEF Shutdown, Idle, At, Committing
  <2>2. /\ tables = disk /\ clock \in Time /\ clock \in Int
        /\ req[t].step = "idle" /\ Seen(t) /\ Listed(tables) /\ Dated(tables)
    BY <2>1 DEF IInv, Rest, Synced, TypeOK, Time, Idle, Sequential
  <2>3. CASE Usable /\ ForeignKey(new) /\ UniqueTag(new)
    <3>1. Mine(t) /\ disk' = Deleted(pending.gone, new)
      BY <1>2, <2>3 DEF Shutdown, Usable, Sequential
    <3>2. \A v \in Versions : pending.ver[v] = None
      BY <2>2, <3>1 DEF Mine
    <3>3. /\ OneChange(disk, disk') /\ Listed(disk')
          /\ \A v \in Versions : disk'.ver[v] # None => disk'.ver[v].created_at <= clock
      BY <2>2, <2>3, <3>1, <3>2, WrittenOnce
    <3> QED BY <2>1, <3>3, RestartSequential
  <2>4. CASE ~(Usable /\ ForeignKey(new) /\ UniqueTag(new))
    <3>1. disk' = disk
      BY <1>2, <2>4 DEF Shutdown
    <3>2. OneChange(disk, disk')
      BY <3>1 DEF OneChange, SameRows
    <3> QED BY <2>1, <3>1, <3>2, RestartSequential DEF Sequential, Dated
  <2> QED BY <2>3, <2>4
<1> QED BY <1>1, <1>2

\* Whatever the step, the only request's order stays and the disk changes once.
LEMMA NextSequential ==
  ASSUME NEW t, Threads = {t}, \A d \in ClockSteps : d > 0,
         IInv, Committing, Sequential(t), [Next]_vars
  PROVE  Sequential(t)' /\ OneChange(disk, disk')
<1>1. t \in Threads
  OBVIOUS
<1>2. ASSUME Step(t)
      PROVE  Sequential(t)' /\ OneChange(disk, disk')
  BY <1>1, <1>2, ReadsSequential, AddsSequential, FlushSequential, CommitSequential DEF Step
<1>3. CASE Crash \/ Shutdown
  BY <1>1, <1>3, RestartsSequential
<1>4. CASE UNCHANGED vars
  <2>1. UNCHANGED <<tables, disk, pending, poisoned, clock, req>>
    BY <1>4 DEF vars
  <2> QED BY <2>1 DEF Sequential, Dated, Mine, Seen, OneChange, SameRows
<1> QED BY <1>2, <1>3, <1>4 DEF Next

\* One request at a time, on a clock that moves forward whenever rows are
\* stored, the committed rows are the chains of VersionHistory: every commit
\* creates a chain, appends to one with its last version as parent, deletes one
\* or changes none, and a crash none.
THEOREM OneRequestRefines ==
  ASSUME NEW t, Threads = {t}, \A d \in ClockSteps : d > 0
  PROVE  Spec => RefinesHistory
<1>1. Init => Committing /\ Sequential(t) /\ History!Init
  <2> SUFFICES ASSUME Init PROVE Committing /\ Sequential(t) /\ History!Init
    OBVIOUS
  <2>1. /\ disk = tables /\ pending = NoObjects /\ committer = None
        /\ \A c \in Contexts : tables.ctx[c] = None
        /\ \A v \in Versions : tables.ver[v] = None
    BY NothingPending DEF Init
  <2>2. \A c \in Contexts : VersionsOf(tables, c) = {}
    BY <2>1 DEF VersionsOf
  <2>3. Committing
    BY <2>1, SucceedsItself DEF Committing
  <2>4. Listed(tables) /\ Listed(disk) /\ Dated(tables) /\ Dated(disk)
    BY <2>1, <2>2, NoList DEF Listed, Dated
  <2>5. Mine(t) /\ OneChange(disk, tables)
    BY <2>1, NothingPending DEF Mine, NoObjects, OneChange, SameRows
  <2>6. Seen(t)
    BY DEF Init, Seen, IdleRequest
  <2>7. \A c \in Contexts : HistoryOf(disk, c) = <<>>
    BY <2>1, <2>2, NoList
  <2>8. History!Init
    BY <2>7 DEF History!Init
  <2> QED BY <2>3, <2>4, <2>5, <2>6, <2>8 DEF Sequential
<1>2. ASSUME IInv, IInv', Committing, Sequential(t), [Next]_vars
      PROVE  /\ Committing' /\ Sequential(t)'
             /\ [History!Next]_([c \in Contexts |-> HistoryOf(disk, c)])
  <2>1. Committing'
    BY <1>2, NextCommitting
  <2>2. Sequential(t)' /\ OneChange(disk, disk')
    BY <1>2, NextSequential
  <2>3. disk \in Tables /\ disk' \in Tables /\ Listed(disk)
    BY <1>2 DEF IInv, TypeOK, Sequential
  <2> QED BY <2>1, <2>2, <2>3, AbstractStep
<1> QED BY <1>1, <1>2, Invariant, PTL DEF Spec, RefinesHistory, History!Spec
=============================================================================
