----------------------------- MODULE SyncEngine -----------------------------
(***************************************************************************)
(* The Sync_Engine: sync_with_peer against a store that the daemon's API   *)
(* changes meanwhile, the sync_log it writes through the shared session,   *)
(* and the in-memory queue of queue_pending and retry_pending.  One caller *)
(* runs the engine; between any two of its session calls the API commits,  *)
(* and a session call may be refused (ContextStore).                       *)
(***************************************************************************)
EXTENDS Ancestry, Sequences

CONSTANTS
    Contexts,     \* context ids
    MaxVersions,  \* bound on the versions of a context
    MaxRetries,   \* SyncEngine's max_retries
    Base,         \* SyncEngine's backoff_base
    MaxCalls,     \* bound on the calls of sync_with_peer and queue_pending
    MaxRefusals,  \* bound on the session calls that are refused
    MaxTime       \* bound of the wall clock

\* The n-th version of a context here, and one that only the peer has.
Versions == Contexts \X (1 .. MaxVersions)
PeerOnly(c) == <<c, 0>>
AllVersions == Contexts \X (0 .. MaxVersions)

\* The first 8 digits of a version id, never an id itself.
Tag(v) == <<v[1], v[2], "tag">>

ASSUME EngineAssumption ==
    /\ None \notin AllVersions \cup Contexts \cup {Tag(v) : v \in AllVersions}
    /\ {MaxVersions, Base, MaxTime} \subseteq Nat \ {0}
    /\ {MaxRetries, MaxCalls, MaxRefusals} \subseteq Nat

VARIABLES
    history,    \* the chain of each context in the Context_Store
    calls,      \* how many calls have been made
    call,       \* the call in progress
    queue,      \* _pending
    log,        \* the committed rows of sync_log, oldest first
    unflushed,  \* rows whose commit was refused, pending in the session
    clock,      \* the wall clock
    returned,   \* the last sync cycle that returned, as its caller sees it
    queued,     \* the operations queued since the process started
    tried,      \* when each operation was attempted
    refusals    \* how many session calls of the engine were refused

engine == <<call, queue, log, unflushed, returned, queued, tried, refusals>>
vars == <<history, calls, clock, engine>>

Store == INSTANCE VersionHistory

-----------------------------------------------------------------------------
(* Types. *)

CallIds == 1 .. MaxCalls
Time == 0 .. MaxTime

\* What the peer says it has: a version of each of some contexts.
Offer == UNION {[S -> AllVersions] : S \in SUBSET Contexts}
Result == [id : CallIds, offer : Offer, accepted : SUBSET Contexts,
           conflicts : SUBSET Contexts]
Cycle == [kind : {"sync"}, id : CallIds, offer : Offer,
          at : {"summaries", "next", "compare"}, known : SUBSET Contexts,
          todo : SUBSET Contexts, accepted : SUBSET Contexts,
          conflicts : SUBSET Contexts, local : Versions \cup {None},
          ctx : Contexts \cup {None}]

Operation == [id : CallIds, attempts : 0 .. MaxRetries, last_attempt : Time]
Retry == [kind : {"retry"}, next : 1 .. MaxCalls + 1, keep : Seq(Operation)]
NoCall == [kind |-> "none"]

Row == [call : CallIds, ctx : Contexts \cup {None},
        status : {"success", "conflict", "pending", "failed"}]

TypeOK ==
    /\ refusals \in 0 .. MaxRefusals
    /\ calls \in 0 .. MaxCalls /\ clock \in Time
    /\ call \in Cycle \cup Retry \cup {NoCall}
    /\ queue \in Seq(Operation)
    /\ log \in Seq(Row) /\ unflushed \in Seq(Row)
    /\ returned \in Result \cup {None}
    /\ queued \subseteq CallIds /\ tried \in [CallIds -> Seq(Time)]

-----------------------------------------------------------------------------
(* The Context_Store, changed by the API. *)

VersionIds(c) == {history[c][i].version : i \in DOMAIN history[c]}
NextVersion(c) == <<c, Len(history[c]) + 1>>

Init ==
    /\ history \in [Contexts -> {<<>>} \cup
            {<<[version |-> v, parent |-> None]>> : v \in Contexts \X {1}}]
    /\ \A c \in Contexts : VersionIds(c) \subseteq {<<c, 1>>}
    /\ calls = 0 /\ call = NoCall
    /\ queue = <<>> /\ log = <<>> /\ unflushed = <<>>
    /\ clock = 1    \* a first backoff, or more, after the 0.0 of last_attempt
    /\ returned = None /\ queued = {}
    /\ tried = [i \in CallIds |-> <<>>] /\ refusals = 0

\* A context created now has an id that no peer has heard of.
StoreChanges ==
    /\ \E c \in Contexts :
        \/ Store!Delete(c)
        \/ NextVersion(c) \in Versions /\ Store!Update(c, NextVersion(c))
    /\ UNCHANGED <<calls, clock, engine>>

Tick ==
    /\ clock < MaxTime
    /\ clock' = clock + 1
    /\ UNCHANGED <<history, calls, engine>>

-----------------------------------------------------------------------------
(* The sync log. *)

\* _write_sync_log: the commit takes the rows of refused commits with it.
WriteSyncLog(row) ==
    /\ log' = log \o unflushed \o <<row>>
    /\ unflushed' = <<>>
    /\ UNCHANGED refusals

Refusal == refusals < MaxRefusals /\ refusals' = refusals + 1

\* The commit is refused: it raises, and the row stays in the session.
LogRefused(row) ==
    /\ Refusal
    /\ unflushed' = Append(unflushed, row)
    /\ UNCHANGED log

\* A request of the API commits the session, or a failed flush empties it.
SessionChanges ==
    /\ unflushed # <<>>
    /\ log' \in {log, log \o unflushed}
    /\ unflushed' = <<>>
    /\ UNCHANGED <<history, calls, clock, call, queue, returned,
                   queued, tried, refusals>>

-----------------------------------------------------------------------------
(* sync_with_peer. *)

\* The call ends with an exception.
Raise == call' = NoCall

\* The peer is not trusted now, or has not the user's identity (the API may
\* change either between any two calls): the result is empty, no cycle starts.
RejectSync ==
    /\ call = NoCall /\ calls < MaxCalls
    /\ calls' = calls + 1
    /\ UNCHANGED <<history, clock, engine>>

BeginSync(offer) ==
    /\ call = NoCall /\ calls < MaxCalls
    /\ calls' = calls + 1
    /\ call' = [kind |-> "sync", id |-> calls + 1, offer |-> offer,
                at |-> "summaries", known |-> {}, todo |-> DOMAIN offer,
                accepted |-> {}, conflicts |-> {}, local |-> None, ctx |-> None]
    /\ UNCHANGED <<history, clock, queue, log, unflushed, returned,
                   queued, tried, refusals>>

\* list_all, and the push entries: they are built, but go nowhere.
Summarise ==
    /\ call.kind = "sync" /\ call.at = "summaries"
    /\ call' = [call EXCEPT !.at = "next",
                            !.known = {c \in Contexts : history[c] # <<>>}]
    /\ UNCHANGED <<history, calls, clock, queue, log, unflushed,
                   returned, queued, tried, refusals>>

\* Variant of Note: accepting a context is not logged.
NoteQuietly(c, status) ==
    /\ call' = [call EXCEPT !.at = "next", !.todo = @ \ {c}, !.local = None, !.ctx = None,
                !.accepted = IF status = "success" THEN @ \cup {c} ELSE @,
                !.conflicts = IF status = "conflict" THEN @ \cup {c} ELSE @]
    /\ IF status = "conflict"
       THEN WriteSyncLog([call |-> call.id, ctx |-> c, status |-> status])
       ELSE UNCHANGED <<log, unflushed, refusals>>

\* Variant of Note: after a refused commit the context is taken up again.
NoteAgain(c, status) ==
    LET row == [call |-> call.id, ctx |-> c, status |-> status]
    IN  \/ /\ call' = [call EXCEPT !.at = "next", !.todo = @ \ {c},
                        !.local = None, !.ctx = None,
                        !.accepted = IF status = "success" THEN @ \cup {c} ELSE @,
                        !.conflicts = IF status = "conflict" THEN @ \cup {c} ELSE @]
           /\ WriteSyncLog(row)
        \/ /\ call' = [call EXCEPT !.at = "next", !.local = None, !.ctx = None]
           /\ LogRefused(row)

\* One of the peer's contexts is dealt with: the result first, then the row.
Note(c, status) ==
    LET row == [call |-> call.id, ctx |-> c, status |-> status]
    IN  \/ /\ call' = [call EXCEPT !.at = "next", !.todo = @ \ {c},
                        !.local = None, !.ctx = None,
                        !.accepted = IF status = "success" THEN @ \cup {c} ELSE @,
                        !.conflicts = IF status = "conflict" THEN @ \cup {c} ELSE @]
           /\ WriteSyncLog(row)
        \/ Raise /\ LogRefused(row)

\* A context missing from the summaries is accepted, though nothing stores it.
NextUnknown(c) ==
    /\ call.kind = "sync" /\ call.at = "next" /\ c \in call.todo \ call.known
    /\ Note(c, "success")
    /\ UNCHANGED <<history, calls, clock, queue, returned, queued, tried>>

\* A context of the summaries is read again; deleted since, it raises.
NextKnown(c) ==
    /\ call.kind = "sync" /\ call.at = "next" /\ c \in call.todo \cap call.known
    /\ IF history[c] = <<>> THEN Raise
       ELSE call' = [call EXCEPT !.at = "compare", !.ctx = c,
                        !.local = history[c][Len(history[c])].version]
    /\ UNCHANGED <<history, calls, clock, queue, log, unflushed,
                   returned, queued, tried, refusals>>

VersionMap(c) ==
    [v \in VersionIds(c) |->
        (CHOOSE r \in {history[c][i] : i \in DOMAIN history[c]} : r.version = v).parent]

\* What is compared with the chain is the peer's tag.
InConflict(c) ==
    detect_conflict(call.local, Tag(call.offer[c]), VersionMap(c))

Compare ==
    /\ call.kind = "sync" /\ call.at = "compare"
    /\ Note(call.ctx, IF InConflict(call.ctx) THEN "conflict" ELSE "success")
    /\ UNCHANGED <<history, calls, clock, queue, returned, queued, tried>>

\* A read is refused: the cycle raises, wherever it has got to.
ReadRefused ==
    /\ call.kind = "sync"
    /\ Raise /\ Refusal
    /\ UNCHANGED <<history, calls, clock, queue, log, unflushed,
                   returned, queued, tried>>

EndSync ==
    /\ call.kind = "sync" /\ call.at = "next" /\ call.todo = {}
    /\ returned' = [id |-> call.id, offer |-> call.offer,
                    accepted |-> call.accepted, conflicts |-> call.conflicts]
    /\ call' = NoCall
    /\ UNCHANGED <<history, calls, clock, queue, log, unflushed,
                   queued, tried, refusals>>

-----------------------------------------------------------------------------
(* queue_pending and retry_pending. *)

\* Variant of queue_pending: an operation has no last attempt yet.
queue_pending_untried ==
    /\ call = NoCall /\ calls < MaxCalls
    /\ LET id == calls + 1
           row == [call |-> id, ctx |-> None, status |-> "pending"]
       IN  /\ calls' = id
           /\ queue' = Append(queue, [id |-> id, attempts |-> 0, last_attempt |-> None])
           /\ queued' = queued \cup {id}
           /\ WriteSyncLog(row) \/ LogRefused(row)
    /\ UNCHANGED <<history, clock, call, returned, tried>>

queue_pending ==
    /\ call = NoCall /\ calls < MaxCalls
    /\ LET id == calls + 1
           row == [call |-> id, ctx |-> None, status |-> "pending"]
       IN  /\ calls' = id
           /\ queue' = Append(queue, [id |-> id, attempts |-> 0, last_attempt |-> 0])
           /\ queued' = queued \cup {id}
           /\ WriteSyncLog(row) \/ LogRefused(row)
    /\ UNCHANGED <<history, clock, call, returned, tried>>

BeginRetry ==
    /\ call = NoCall /\ queue # <<>>
    /\ call' = [kind |-> "retry", next |-> 1, keep |-> <<>>]
    /\ UNCHANGED <<history, calls, clock, queue, log, unflushed,
                   returned, queued, tried, refusals>>

AtOperation == call.kind = "retry" /\ call.next <= Len(queue)
Keep(op) == call' = [call EXCEPT !.next = @ + 1, !.keep = Append(@, op)]

\* Variant of Exhaust: the test is > max_retries - 1.
ExhaustEarly ==
    /\ AtOperation /\ queue[call.next].attempts > MaxRetries - 2
    /\ call' = [call EXCEPT !.next = @ + 1]
    /\ WriteSyncLog([call |-> queue[call.next].id, ctx |-> None, status |-> "failed"])
    /\ UNCHANGED <<history, calls, clock, queue, returned, queued, tried>>

\* An operation out of retries is logged and left out of what is kept.
Exhaust ==
    /\ AtOperation /\ queue[call.next].attempts >= MaxRetries
    /\ LET row == [call |-> queue[call.next].id, ctx |-> None, status |-> "failed"]
       IN  \/ call' = [call EXCEPT !.next = @ + 1] /\ WriteSyncLog(row)
           \/ Raise /\ LogRefused(row)
    /\ UNCHANGED <<history, calls, clock, queue, returned, queued, tried>>

get_backoff_delay(attempt) == Base ^ attempt
Waiting(op) == clock - op.last_attempt < get_backoff_delay(op.attempts)

\* Variant of Wait: a waiting operation is not kept.
WaitDropping ==
    /\ AtOperation
    /\ queue[call.next].attempts < MaxRetries /\ Waiting(queue[call.next])
    /\ call' = [call EXCEPT !.next = @ + 1]
    /\ UNCHANGED <<history, calls, clock, queue, log, unflushed,
                   returned, queued, tried, refusals>>

Wait ==
    /\ AtOperation
    /\ queue[call.next].attempts < MaxRetries /\ Waiting(queue[call.next])
    /\ Keep(queue[call.next])
    /\ UNCHANGED <<history, calls, clock, queue, log, unflushed,
                   returned, queued, tried, refusals>>

\* The attempt is counted on the object that the queue holds; nothing is sent.
Attempt ==
    /\ AtOperation
    /\ LET op == queue[call.next]
           again == [op EXCEPT !.attempts = @ + 1, !.last_attempt = clock]
       IN  /\ op.attempts < MaxRetries /\ ~Waiting(op)
           /\ queue' = [queue EXCEPT ![call.next] = again]
           /\ Keep(again)
           /\ tried' = [tried EXCEPT ![op.id] = Append(@, clock)]
    /\ UNCHANGED <<history, calls, clock, log, unflushed, returned,
                   queued, refusals>>

\* Variant of EndRetry: the queue is not replaced.
EndRetryKeepingAll ==
    /\ call.kind = "retry" /\ call.next > Len(queue)
    /\ call' = NoCall
    /\ UNCHANGED <<history, calls, clock, queue, log, unflushed,
                   returned, queued, tried, refusals>>

EndRetry ==
    /\ call.kind = "retry" /\ call.next > Len(queue)
    /\ queue' = call.keep
    /\ call' = NoCall
    /\ UNCHANGED <<history, calls, clock, log, unflushed, returned,
                   queued, tried, refusals>>

-----------------------------------------------------------------------------
\* The daemon restarts: the tables are on disk, all else was in memory.
Restart ==
    /\ call' = NoCall /\ queue' = <<>> /\ unflushed' = <<>>
    /\ queued' = {}
    /\ UNCHANGED <<history, calls, clock, log, returned, tried, refusals>>

\* What a peer can offer: a version it has from us, or one of its own.
Offered(S) == {o \in [S -> AllVersions] :
                \A c \in S : o[c] = PeerOnly(c) \/ o[c] \in VersionIds(c)}

Next ==
    \/ StoreChanges \/ Tick \/ SessionChanges \/ Restart
    \/ \E S \in SUBSET Contexts : \E offer \in Offered(S) : BeginSync(offer)
    \/ RejectSync \/ Summarise \/ Compare \/ ReadRefused \/ EndSync
    \/ \E c \in Contexts : NextUnknown(c) \/ NextKnown(c)
    \/ queue_pending \/ BeginRetry \/ Exhaust \/ Wait \/ Attempt \/ EndRetry

Spec == Init /\ [][Next]_vars

-----------------------------------------------------------------------------
(* Properties. *)

Rows(id, c) == {i \in DOMAIN log : log[i].call = id /\ log[i].ctx = c}
Failures(id) == {i \in DOMAIN log : log[i].call = id /\ log[i].status = "failed"}

\* A cycle that returned has accounted for each context of the peer once, and
\* the log says of it what the caller was told (sync_with_peer 253-285): rows
\* whose commit was refused belong to cycles that raised.
ReturnedCycleIsLogged ==
    returned # None =>
        /\ returned.accepted \cup returned.conflicts = DOMAIN returned.offer
        /\ returned.accepted \cap returned.conflicts = {}
        /\ \A c \in DOMAIN returned.offer :
            \E i \in DOMAIN log :
                /\ Rows(returned.id, c) = {i}
                /\ log[i].status = IF c \in returned.accepted THEN "success"
                                   ELSE "conflict"

\* Whatever became of a cycle, it is in the log at most once for each context:
\* also one that raised halfway, at a context deleted since or at a refused
\* commit, whose row some other request of the session, or the next write of
\* the engine, commits later or not at all (sync_with_peer 253-282).
CycleLoggedOnce ==
    \A i, j \in DOMAIN log :
        /\ log[i].ctx # None
        /\ log[i].call = log[j].call /\ log[i].ctx = log[j].ctx
        => i = j

\* An operation queued since the start is in the queue or was logged as
\* failed, also after retries that raised halfway (retry_pending 298-320).
NothingDropped ==
    \A id \in queued :
        (\E i \in DOMAIN queue : queue[i].id = id) \/ Failures(id) # {}

\* An operation logged as failed was attempted max_retries times, each attempt
\* at least its backoff after the one before.
FailedAfterBackoff ==
    \A id \in CallIds : Failures(id) # {} =>
        /\ Len(tried[id]) = MaxRetries
        /\ \A n \in 1 .. MaxRetries - 1 :
            tried[id][n + 1] - tried[id][n] >= Base ^ n

\* A failure is logged once, and once more at most for each session call that
\* was refused: a retry that raises on the row of one operation leaves the
\* queue as it was, with those whose rows it has written (retry_pending 298-320).
FailureLoggedOnce ==
    \A id \in CallIds : Cardinality(Failures(id)) <= 1 + refusals

\* What docs/TESTING.md says of the conflict check: a fast-forward is never
\* flagged, so no version of our own chain is.
FastForwardNotFlagged ==
    [][\A c \in Contexts :
        call.kind = "sync" /\ call'.kind = "sync" /\ c \in call'.conflicts \ call.conflicts
        => call.offer[c] \notin VersionIds(c)]_vars
=============================================================================
