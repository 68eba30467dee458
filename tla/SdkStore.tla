------------------------------- MODULE SdkStore -------------------------------
(***************************************************************************)
(* The Python SDK on the Context_Store: ContexaClient's calls, the HTTP    *)
(* connection each of them opens, and the daemon that takes it up on a     *)
(* worker thread.  A call may end before its request does: the SDK has a   *)
(* timeout, the daemon none.                                               *)
(***************************************************************************)
EXTENDS ContextStore

CONSTANT MaxCalls   \* bound on the calls that programs make

ASSUME CallsAssumption ==
    /\ MaxCalls \in Nat /\ None \notin 1 .. MaxCalls
    /\ Contexts # {} /\ Versions # {}

Calls == 1 .. MaxCalls      \* numbered in the order in which they are made

VARIABLES
    daemon,     \* does it listen, drain or not run?
    call,       \* what a program asked for, and what it was told
    work,       \* where its request is
    worker      \* the call whose request a thread runs

sdk == <<daemon, call, work, worker>>
sdkvars == <<tables, disk, pending, poisoned, committer, clock, minted, req,
             stored, removed, daemon, call, work, worker>>

Results == {"none", "returned", "not_found", "validation", "daemon_error",
            "connection_error", "escaped"}
\* The last four fields are for the properties: what had been answered of the
\* context when the call was made, which calls were under way or came after,
\* and whether the label was set inside another thread's commit().
Call == [op : Ops \cup {None}, ctx : Contexts \cup {None}, ver : Versions \cup {None},
         label : Labels \cup {None}, at : {"unmade", "waiting", "over"}, result : Results,
         existed : BOOLEAN, deleted : BOOLEAN, contended : BOOLEAN, missed : BOOLEAN]
Works == {"none", "queued", "running", "ok", "not_found", "invalid", "error"}

SdkTypeOK ==
    /\ TypeOK
    /\ daemon \in {"up", "draining", "down"}
    /\ call \in [Calls -> Call]
    /\ work \in [Calls -> Works]
    /\ worker \in [Threads -> Calls \cup {None}]

\* The database file as earlier runs of the daemon have left it: empty, or
\* with a context of one version; which ids they have does not matter.
OldContext == CHOOSE c \in Contexts : TRUE
OldVersion == CHOOSE v \in Versions : TRUE
Rows(l) ==
    [ctx |-> [NoObjects.ctx EXCEPT ![OldContext] = l],
     ver |-> [NoObjects.ver EXCEPT ![OldVersion] =
                [context |-> OldContext, parent |-> None, created_at |-> 0]]]
OldStore(l) ==
    /\ tables = Rows(l) /\ disk = tables
    /\ minted = {OldContext, OldVersion} /\ stored = {<<OldContext, OldVersion>>}
    /\ pending = NoObjects /\ poisoned = FALSE /\ committer = None /\ clock = 0
    /\ req = [t \in Threads |-> IdleRequest("none")]
    /\ removed = {}

SdkInit ==
    /\ Init \/ \E l \in Labels : OldStore(l)
    /\ daemon = "down"
    /\ call = [q \in Calls |->
            [op |-> None, ctx |-> None, ver |-> None, label |-> None,
             at |-> "unmade", result |-> "none", existed |-> FALSE,
             deleted |-> FALSE, contended |-> FALSE, missed |-> FALSE]]
    /\ work = [q \in Calls |-> "none"]
    /\ worker = [t \in Threads |-> None]

-----------------------------------------------------------------------------
(* The client. *)

Made(q) == call[q].at # "unmade"
Waiting(q) == call[q].at = "waiting"
InProgress(q) == work[q] \in {"queued", "running"}
Settled(q) == ~Waiting(q) /\ ~InProgress(q)
Of(c, ops) == {q \in Calls : Made(q) /\ call[q].ctx = c /\ call[q].op \in ops}
Arguments(op) == [ctx : IF op = "create" THEN {None} ELSE Contexts,
                  label : IF op \in {"create", "label"} THEN Labels ELSE {None}]

\* Bound: no more calls than there are ids for.
Unserved(ops) == {q \in Calls : call[q].op \in ops /\ work[q] = "queued"}
IdsLeft(op) ==
    /\ op = "create" =>
            Cardinality(Unserved({"create"})) < Cardinality(Contexts \ minted)
    /\ op \in {"create", "update"} =>
            Cardinality(Unserved({"create", "update"})) < Cardinality(Versions \ minted)

\* A call of the same context that may change its label or remove it.
Contends(op, c, p) == op \in {"label", "delete"} /\ call[p].op = "label" /\ call[p].ctx = c

Asked(q, op, arg, at, result) ==
    call' = [p \in Calls |->
        IF p = q
        THEN [op |-> op, ctx |-> arg.ctx, ver |-> None, label |-> arg.label,
              at |-> at, result |-> result,
              existed |-> \E v \in Versions : <<arg.ctx, v>> \in stored,
              deleted |-> arg.ctx \in removed,
              contended |-> \E r \in Of(arg.ctx, {"label"}) : ~Settled(r),
              missed |-> FALSE]
        ELSE [call[p] EXCEPT !.contended = @ \/ Contends(op, arg.ctx, p)]]

\* _get, _post, _put, _patch and _delete connect and send the request, or
\* find nobody listening.
Asks(q, op, arg) ==
    /\ ~Made(q) /\ (\A p \in 1 .. q - 1 : Made(p)) /\ IdsLeft(op)
    /\ \/ /\ daemon = "up"
          /\ Asked(q, op, arg, "waiting", "none")
          /\ work' = [work EXCEPT ![q] = "queued"]
       \/ /\ daemon # "up"
          /\ Asked(q, op, arg, "over", "connection_error")
          /\ UNCHANGED work
    /\ UNCHANGED <<vars, daemon, worker>>

Ends(q, result) == call' = [call EXCEPT ![q].at = "over", ![q].result = result]

\* Variant of raise_for_status: only the documented codes are errors.
raise_for_4xx(reply) ==
    CASE reply = "not_found" -> "not_found"
      [] reply = "invalid"   -> "validation"
      [] OTHER               -> "returned"

raise_for_status(reply) ==
    CASE reply = "ok"        -> "returned"
      [] reply = "not_found" -> "not_found"
      [] reply = "invalid"   -> "validation"
      [] OTHER               -> "daemon_error"

\* The response arrives.
Hears(q) ==
    /\ Waiting(q) /\ ~InProgress(q)
    /\ Ends(q, raise_for_status(work[q]))
    /\ UNCHANGED <<vars, daemon, work, worker>>

\* Variant of TimesOut: every httpx error is a connection error.
TimesOutUnreachable(q) ==
    /\ Waiting(q)
    /\ Ends(q, "connection_error")
    /\ UNCHANGED <<vars, daemon, work, worker>>

\* httpx.TimeoutException is no ConnectError: it escapes as it is, and the
\* daemon goes on with the request.
TimesOut(q) ==
    /\ Waiting(q)
    /\ Ends(q, "escaped")
    /\ UNCHANGED <<vars, daemon, work, worker>>

-----------------------------------------------------------------------------
(* The daemon. *)

\* The body does not fit the schema: no handler runs.
Rejects(q) ==
    /\ work[q] = "queued" /\ call[q].op \in {"create", "update", "label"}
    /\ work' = [work EXCEPT ![q] = "invalid"]
    /\ UNCHANGED <<vars, daemon, call, worker>>

\* Variant of Takes: the pool remembers the request by its thread.
TakesByThread(q) ==
    /\ work[q] = "queued"
    /\ \E t \in Threads :
        /\ worker[t] = None
        /\ BeginOn(t, call[q].op, call[q].ctx, call[q].label)
        /\ worker' = [worker EXCEPT ![t] = t]
    /\ work' = [work EXCEPT ![q] = "running"]
    /\ UNCHANGED <<daemon, call>>

\* A free thread of the pool runs the route.
Takes(q) ==
    /\ work[q] = "queued"
    /\ \E t \in Threads :
        /\ worker[t] = None
        /\ worker' = [worker EXCEPT ![t] = q]
        /\ \/ \E c \in Contexts, v \in Versions :
                /\ call[q].op = "create" /\ BeginCreate(t, c, v, call[q].label)
                /\ call' = [call EXCEPT ![q].ctx = c, ![q].ver = v]
           \/ \E v \in Versions :
                /\ call[q].op = "update" /\ BeginUpdate(t, call[q].ctx, v)
                /\ call' = [call EXCEPT ![q].ver = v]
           \/ /\ call[q].op \in {"label", "delete", "get"}
              /\ BeginOn(t, call[q].op, call[q].ctx, call[q].label)
              /\ UNCHANGED call
    /\ work' = [work EXCEPT ![q] = "running"]
    /\ UNCHANGED daemon

\* One step of the handler; its end is the response.
Serves(t) ==
    /\ Advance(t)
    /\ LET q == worker[t]
       IN  /\ IF req'[t].step = "idle"
              THEN /\ work' = [work EXCEPT ![q] = req'[t].out]
                   /\ worker' = [worker EXCEPT ![t] = None]
              ELSE UNCHANGED <<work, worker>>
           /\ call' = [call EXCEPT ![q].missed =
                            @ \/ (At(t, "set_label") /\ committer # None)]
    /\ UNCHANGED daemon

Starts ==
    /\ daemon = "down"
    /\ daemon' = "up"
    /\ UNCHANGED <<vars, call, work, worker>>

\* SIGTERM: the sockets stop listening, what has come in is still served.
Drains ==
    /\ daemon = "up"
    /\ daemon' = "draining"
    /\ UNCHANGED <<vars, call, work, worker>>

Stops ==
    /\ daemon = "draining" /\ \A q \in Calls : ~InProgress(q)
    /\ Shutdown
    /\ daemon' = "down"
    /\ UNCHANGED <<call, work, worker>>

\* The process dies, and every connection with it: the error that the caller
\* sees is no ConnectError either.
Dies ==
    /\ daemon # "down"
    /\ Crash
    /\ daemon' = "down"
    /\ call' = [q \in Calls |-> IF Waiting(q)
                THEN [call[q] EXCEPT !.at = "over", !.result = "escaped"] ELSE call[q]]
    /\ work' = [q \in Calls |-> IF InProgress(q) THEN "none" ELSE work[q]]
    /\ worker' = [t \in Threads |-> None]

SdkNext ==
    \/ \E q \in Calls :
        \/ \E op \in Ops : \E arg \in Arguments(op) : Asks(q, op, arg)
        \/ Hears(q) \/ TimesOut(q) \/ Rejects(q) \/ Takes(q)
    \/ \E t \in Threads : Serves(t)
    \/ Starts \/ Drains \/ Stops \/ Dies

SdkSpec == SdkInit /\ [][SdkNext]_sdkvars

\* The operating system schedules the threads, the pool serves its queue, and
\* a response arrives.  No fairness for calls, crashes, starts and shutdowns.
SdkFairSpec ==
    /\ SdkSpec
    /\ \A t \in Threads : WF_sdkvars(Serves(t))
    /\ \A q \in Calls : WF_sdkvars(Hears(q)) /\ WF_sdkvars(Takes(q))

-----------------------------------------------------------------------------
(* Properties. *)

\* A call that ends with ContexaConnectionError, ContexaNotFoundError or
\* ContexaValidationError has written nothing and never will, so that it may
\* be made again: only a timeout, a lost connection and a 5xx leave it open
\* whether the request was carried out (_post 82, _raise_for_status).
FailedUntouched ==
    \A q \in Calls :
        call[q].result \in {"connection_error", "not_found", "validation"} /\ call[q].ver # None =>
            /\ work[q] \notin {"queued", "running"}
            /\ \A db \in {tables, disk, pending} : db.ver[call[q].ver] = None

\* What create_context and update_context have returned is committed until
\* somebody asks for the deletion of the context.
ReturnedHolds ==
    \A q \in Calls : call[q].result = "returned" /\ call[q].op \in {"create", "update"} =>
        \/ disk.ver[call[q].ver] # None /\ disk.ver[call[q].ver].context = call[q].ctx
        \/ Of(call[q].ctx, {"delete"}) # {}

\* A label that update_label has returned for is committed until another call
\* that may change it is made, if none was under way.  The exception: the
\* attribute was set while another thread was inside commit() (update_label
\* 224), and is then expired unwritten.
LabelHolds ==
    \A q \in Calls :
        /\ call[q].result = "returned" /\ call[q].op = "label"
        /\ ~call[q].contended /\ ~call[q].missed /\ Of(call[q].ctx, {"delete"}) = {}
        => disk.ctx[call[q].ctx] = call[q].label

\* Calls see those that were answered before they were made, across restarts:
\* a context that create or update was answered for is not found only if
\* somebody asked for its deletion, and a deleted one stays unknown.
CallsInOrder ==
    \A q \in Calls :
        /\ call[q].existed /\ call[q].result = "not_found" =>
                Of(call[q].ctx, {"delete"}) # {}
        /\ call[q].deleted => call[q].result # "returned"

\* Every call ends and so does its request, without the help of a timeout:
\* nobody waits for ever for a thread, a lock or a poisoned session.
EveryCallEnds == \A q \in Calls : ~Settled(q) ~> Settled(q)
=============================================================================
