-------------------------- MODULE SyncEngineProofs --------------------------
(***************************************************************************)
(* The Sync_Engine's books are right, for any contexts, peers, retries and *)
(* backoff base: what sync_log says of the cycles that returned and of     *)
(* those that did not, that no queued operation is lost, and what a logged *)
(* failure means.                                                          *)
(***************************************************************************)
EXTENDS SyncEngine, Integers, FiniteSetTheorems, SequenceTheorems, TLAPS

-----------------------------------------------------------------------------
(* The inductive invariant. *)

Chains ==
    history \in [Contexts -> Seq([version : Versions, parent : Versions \cup {None}])]

\* Every row is of a call that was made.
RowsOfCalls ==
    /\ \A i \in DOMAIN log : log[i].call <= calls
    /\ \A i \in DOMAIN unflushed : unflushed[i].call <= calls

\* The rows a cycle writes about context c.
Rowed(id, c) == {r \in Row : r.call = id /\ r.ctx = c}
Places(rows, R) == {i \in DOMAIN rows : rows[i] \in R}

\* What rows say of a context that cycle id has dealt with.
Told(rows, id, c, accepted) ==
    \E i \in DOMAIN rows :
        /\ Places(rows, Rowed(id, c)) = {i}
        /\ rows[i].status = IF c \in accepted THEN "success" ELSE "conflict"

\* No row of cycle id is among those that wait in the session.
Absent(rows, id) == \A c \in Contexts : Places(rows, Rowed(id, c)) = {}

\* The cycle in progress: its result and its rows agree, and nothing is said
\* of the contexts still to do.
CycleBooked ==
    call.kind = "sync" =>
        /\ call.id = calls
        /\ call.at = "compare" => call.ctx \in call.todo
        /\ call.todo \subseteq DOMAIN call.offer
        /\ call.accepted \cup call.conflicts = DOMAIN call.offer \ call.todo
        /\ call.accepted \cap call.conflicts = {}
        /\ Absent(unflushed, call.id)
        /\ \A c \in call.todo : Places(log, Rowed(call.id, c)) = {}
        /\ \A c \in DOMAIN call.offer \ call.todo : Told(log, call.id, c, call.accepted)

\* The cycle that returned last, and none since has its number.
ReturnedBooked ==
    returned # None =>
        /\ returned.id <= calls
        /\ call.kind = "sync" => returned.id # call.id
        /\ returned.accepted \cup returned.conflicts = DOMAIN returned.offer
        /\ returned.accepted \cap returned.conflicts = {}
        /\ Absent(unflushed, returned.id)
        /\ \A c \in DOMAIN returned.offer : Told(log, returned.id, c, returned.accepted)

\* Operations are queued in the order of their calls, and each knows what was
\* tried of it.
Ordered(ops) ==
    \A i \in DOMAIN ops :
        /\ ops[i].id >= i
        /\ \A j \in DOMAIN ops : i < j => ops[i].id < ops[j].id
Counted(op, times) ==
    /\ op.attempts = Len(times)
    /\ op.attempts > 0 => op.last_attempt = times[op.attempts]
QueueBooked ==
    /\ Ordered(queue)
    /\ \A i \in DOMAIN queue : queue[i].id <= calls /\ Counted(queue[i], tried[queue[i].id])

\* Of the operations a retry has been through, it keeps those not logged.
Kept(id) == \E k \in DOMAIN call.keep : call.keep[k].id = id
RetryBooked ==
    call.kind = "retry" =>
        /\ call.next \in 1 .. Len(queue) + 1
        /\ Ordered(call.keep) /\ Len(call.keep) < call.next
        /\ \A k \in DOMAIN call.keep :
            \E i \in 1 .. call.next - 1 : call.keep[k] = queue[i]
        /\ \A i \in 1 .. call.next - 1 :
            Kept(queue[i].id) \/ Failures(queue[i].id) # {}

\* A failure that is logged, or waits to be.
Failed(id) == {r \in Row : r.call = id /\ r.status = "failed"}
Doomed(id) == Places(log, Failed(id)) \cup Places(unflushed, Failed(id)) # {}

\* What was tried before: the backoffs were kept, and the failed ones were
\* tried to the end.
TriedBooked ==
    /\ \A id \in CallIds : id > calls => tried[id] = <<>>
    /\ \A id \in CallIds :
        /\ \A n \in 1 .. Len(tried[id]) - 1 :
            tried[id][n + 1] - tried[id][n] >= Base ^ n
        /\ Doomed(id) => Len(tried[id]) = MaxRetries

IInv ==
    /\ TypeOK /\ Chains /\ RowsOfCalls
    /\ CycleBooked /\ ReturnedBooked
    /\ QueueBooked /\ RetryBooked /\ NothingDropped
    /\ TriedBooked
-----------------------------------------------------------------------------
(* The log as steps change it. *)

\* What a step may do to the rows, if those it writes anew are the set rows.
Adds(rows) ==
    /\ log' \in Seq(Row) /\ unflushed' \in Seq(Row)
    /\ \A i \in DOMAIN log : i \in DOMAIN log' /\ log'[i] = log[i]
    /\ \A R \in SUBSET Row :
        /\ Places(log, R) \subseteq Places(log', R)
        /\ Places(log', R) \cup Places(unflushed', R) # {} =>
            Places(log, R) \cup Places(unflushed, R) # {} \/ rows \cap R # {}
        /\ Places(unflushed, R) = {} /\ rows \cap R = {} =>
            Places(log', R) = Places(log, R) /\ Places(unflushed', R) = {}

\* A step that leaves the log and the session alone adds nothing.
LEMMA AddsNothing ==
  ASSUME TypeOK, UNCHANGED <<log, unflushed>>, NEW rows
  PROVE  Adds(rows)
BY DEF TypeOK, Adds

\* A restart forgets the rows that wait, and so does a failed flush.
LEMMA AddsForgetting ==
  ASSUME TypeOK, log' = log, unflushed' = <<>>
  PROVE  Adds({})
<1>1. unflushed' \in Seq(Row) /\ \A R : Places(unflushed', R) = {}
  BY DEF Places
<1>2. log' \in Seq(Row)
  BY DEF TypeOK
<1> QED BY <1>1, <1>2 DEF Adds

\* A sequence that is another one and a row behind it.
LEMMA PlacesAppended ==
  ASSUME NEW s \in Seq(Row), NEW r \in Row, NEW R
  PROVE  /\ Places(Append(s, r), R) =
                Places(s, R) \cup (IF r \in R THEN {Len(s) + 1} ELSE {})
         /\ \A i \in DOMAIN s : i \in DOMAIN Append(s, r) /\ Append(s, r)[i] = s[i]
         /\ Len(s) + 1 \notin DOMAIN s
         /\ Append(s, r)[Len(s) + 1] = r
<1>1. /\ DOMAIN Append(s, r) = 1 .. Len(s) + 1 /\ DOMAIN s = 1 .. Len(s)
      /\ Len(s) \in Nat
      /\ \A i \in 1 .. Len(s) : Append(s, r)[i] = s[i]
      /\ Append(s, r)[Len(s) + 1] = r
  BY AppendProperties, LenProperties
<1> QED BY <1>1 DEF Places

\* A sequence that is two others in a row.
LEMMA PlacesJoined ==
  ASSUME NEW s \in Seq(Row), NEW t \in Seq(Row), NEW R
  PROVE  /\ Places(s \o t, R) =
                Places(s, R) \cup {Len(s) + j : j \in Places(t, R)}
         /\ \A i \in DOMAIN s : i \in DOMAIN (s \o t) /\ (s \o t)[i] = s[i]
<1>1. /\ DOMAIN (s \o t) = 1 .. Len(s) + Len(t)
      /\ DOMAIN s = 1 .. Len(s) /\ DOMAIN t = 1 .. Len(t)
      /\ Len(s) \in Nat /\ Len(t) \in Nat
  BY ConcatProperties, LenProperties
<1>2. \A i \in 1 .. Len(s) : (s \o t)[i] = s[i]
  BY <1>1, ConcatProperties
<1>3. \A j \in 1 .. Len(t) : (s \o t)[Len(s) + j] = t[j]
  <2> TAKE j \in 1 .. Len(t)
  <2>1. Len(s) + j \in 1 .. Len(s) + Len(t) /\ ~(Len(s) + j <= Len(s))
        /\ Len(s) + j - Len(s) = j
    BY <1>1
  <2> QED BY <2>1, ConcatProperties
<1>4. ASSUME NEW i \in 1 .. Len(s) + Len(t), i \notin 1 .. Len(s)
      PROVE  i - Len(s) \in 1 .. Len(t) /\ i = Len(s) + (i - Len(s))
             /\ (s \o t)[i] = t[i - Len(s)]
  <2>1. i - Len(s) \in 1 .. Len(t) /\ i = Len(s) + (i - Len(s))
    BY <1>1, <1>4
  <2> QED BY <1>3, <2>1
<1>5. ASSUME NEW i \in Places(s \o t, R)
      PROVE  i \in Places(s, R) \cup {Len(s) + j : j \in Places(t, R)}
  <2>1. i \in 1 .. Len(s) + Len(t) /\ (s \o t)[i] \in R
    BY <1>1 DEF Places
  <2>2. CASE i \in 1 .. Len(s)
    BY <1>1, <1>2, <2>1, <2>2 DEF Places
  <2>3. CASE i \notin 1 .. Len(s)
    <3> DEFINE j == i - Len(s)
    <3>1. j \in Places(t, R) /\ i = Len(s) + j
      BY <1>1, <1>4, <2>1, <2>3 DEF Places
    <3> QED BY <3>1
  <2> QED BY <2>2, <2>3
<1>6. Places(s, R) \subseteq Places(s \o t, R)
  BY <1>1, <1>2 DEF Places
<1>7. ASSUME NEW j \in Places(t, R)
      PROVE  Len(s) + j \in Places(s \o t, R)
  <2>1. j \in 1 .. Len(t) /\ t[j] \in R
    BY <1>1 DEF Places
  <2>2. Len(s) + j \in 1 .. Len(s) + Len(t)
    BY <1>1, <2>1
  <2> QED BY <1>1, <1>3, <2>1, <2>2 DEF Places
<1> QED BY <1>1, <1>2, <1>5, <1>6, <1>7

\* A commit takes the rows that wait along.
LEMMA AddsWaiting ==
  ASSUME TypeOK, log' = log \o unflushed, unflushed' = <<>>
  PROVE  Adds({})
<1>1. log \in Seq(Row) /\ unflushed \in Seq(Row)
  BY DEF TypeOK
<1>2. log' \in Seq(Row) /\ unflushed' \in Seq(Row) /\ \A R : Places(unflushed', R) = {}
  BY <1>1, ConcatProperties DEF Places
<1>3. \A R : Places(log', R) = Places(log, R) \cup {Len(log) + j : j \in Places(unflushed, R)}
  BY <1>1, PlacesJoined
<1>4. \A i \in DOMAIN log : i \in DOMAIN log' /\ log'[i] = log[i]
  BY <1>1, PlacesJoined
<1> QED BY <1>2, <1>3, <1>4 DEF Adds

\* Writing a row adds that row, and its place is the last.
LEMMA AddsWritten ==
  ASSUME TypeOK, NEW row \in Row, WriteSyncLog(row)
  PROVE  /\ Adds({row})
         /\ unflushed' = <<>>
         /\ \A R \in SUBSET Row : row \in R /\ Places(unflushed, R) = {} =>
                \E i \in DOMAIN log' :
                    /\ Places(log', R) = Places(log, R) \cup {i}
                    /\ log'[i] = row
         /\ \A R \in SUBSET Row : row \in R => Places(log', R) # {}
<1> DEFINE joined == log \o unflushed
           last == Len(joined) + 1
<1>1. log \in Seq(Row) /\ unflushed \in Seq(Row) /\ joined \in Seq(Row)
  BY ConcatProperties DEF TypeOK
<1>2. log' = Append(joined, row) /\ unflushed' = <<>>
  BY <1>1, AppendIsConcat DEF WriteSyncLog
<1>3. /\ log' \in Seq(Row) /\ unflushed' \in Seq(Row)
      /\ \A R : Places(unflushed', R) = {}
  BY <1>1, <1>2, AppendProperties DEF Places
<1>4. \A R : Places(joined, R) = Places(log, R) \cup {Len(log) + j : j \in Places(unflushed, R)}
  BY <1>1, PlacesJoined
<1>5. \A i \in DOMAIN log : i \in DOMAIN joined /\ joined[i] = log[i]
  BY <1>1, PlacesJoined
<1> HIDE DEF joined
<1>6. \A R : Places(log', R) = Places(joined, R) \cup (IF row \in R THEN {last} ELSE {})
  BY <1>1, <1>2, PlacesAppended
<1>7. /\ \A i \in DOMAIN joined : i \in DOMAIN log' /\ log'[i] = joined[i]
      /\ log'[last] = row /\ last \in DOMAIN log'
  BY <1>1, <1>2, PlacesAppended, AppendProperties, LenProperties
<1>8. Adds({row})
  <2>1. \A i \in DOMAIN log : i \in DOMAIN log' /\ log'[i] = log[i]
    BY <1>5, <1>7
  <2>2. ASSUME NEW R \in SUBSET Row
        PROVE  /\ Places(log, R) \subseteq Places(log', R)
               /\ Places(log', R) \cup Places(unflushed', R) # {} =>
                    \/ Places(log, R) \cup Places(unflushed, R) # {}
                    \/ {row} \cap R # {}
               /\ Places(unflushed, R) = {} /\ {row} \cap R = {} =>
                    Places(log', R) = Places(log, R) /\ Places(unflushed', R) = {}
    <3>1. /\ Places(unflushed', R) = {}
          /\ Places(log', R) = Places(joined, R) \cup (IF row \in R THEN {last} ELSE {})
          /\ Places(joined, R) =
                Places(log, R) \cup {Len(log) + j : j \in Places(unflushed, R)}
      BY <1>3, <1>4, <1>6
    <3> QED BY <3>1
  <2> QED BY <1>3, <2>1, <2>2 DEF Adds
<1>9. ASSUME NEW R \in SUBSET Row, row \in R
      PROVE  /\ Places(log', R) # {}
             /\ Places(unflushed, R) = {} => Places(log', R) = Places(log, R) \cup {last}
  BY <1>4, <1>6, <1>9
<1> QED BY <1>2, <1>7, <1>8, <1>9

\* A refused commit leaves its row in the session.
LEMMA AddsRefused ==
  ASSUME TypeOK, NEW row \in Row, LogRefused(row)
  PROVE  Adds({row})
<1>1. unflushed \in Seq(Row) /\ log \in Seq(Row)
  BY DEF TypeOK
<1>2. /\ log' = log /\ unflushed' = Append(unflushed, row)
      /\ unflushed' \in Seq(Row)
  BY <1>1, AppendProperties DEF LogRefused
<1>3. \A R : Places(unflushed', R) =
                Places(unflushed, R) \cup (IF row \in R THEN {Len(unflushed) + 1} ELSE {})
  BY <1>1, <1>2, PlacesAppended
<1> QED BY <1>1, <1>2, <1>3 DEF Adds

\* The sets of rows in the invariant and in the properties are the same.
LEMMA SameRows ==
  ASSUME TypeOK
  PROVE  /\ \A id, c : Rows(id, c) = Places(log, Rowed(id, c))
         /\ \A id : Failures(id) = Places(log, Failed(id))
<1>1. \A i \in DOMAIN log : log[i] \in Row
  BY LenProperties, ElementOfSeq DEF TypeOK
<1> QED BY <1>1 DEF Rows, Failures, Places, Rowed, Failed
-----------------------------------------------------------------------------
(* What the rows of a step leave of the invariant. *)

\* Rows of calls that were made.
LEMMA RowsOfCallsKept ==
  ASSUME TypeOK, RowsOfCalls, calls' \in Nat, calls <= calls',
         NEW rows \in SUBSET Row, Adds(rows), \A r \in rows : r.call <= calls'
  PROVE  RowsOfCalls'
<1> DEFINE R == {r \in Row : ~(r.call <= calls')}
<1>1. /\ \A i \in DOMAIN log : log[i] \in Row
      /\ \A i \in DOMAIN unflushed : unflushed[i] \in Row
      /\ \A i \in DOMAIN log' : log'[i] \in Row
      /\ \A i \in DOMAIN unflushed' : unflushed'[i] \in Row
  BY LenProperties, ElementOfSeq DEF TypeOK, Adds
<1>2. calls \in Nat /\ \A r \in Row : r.call \in Nat
  BY EngineAssumption DEF TypeOK, EngineAssumption, CallIds, Row
<1>3. Places(log, R) \cup Places(unflushed, R) = {}
  BY <1>1, <1>2 DEF RowsOfCalls, Places
<1>4. rows \cap R = {}
  OBVIOUS
<1>5. Places(log', R) \cup Places(unflushed', R) = {}
  BY <1>3, <1>4 DEF Adds
<1> QED BY <1>1, <1>5 DEF RowsOfCalls, Places

\* What the log says of a context stays true.
LEMMA ToldKept ==
  ASSUME TypeOK, NEW rows \in SUBSET Row, Adds(rows),
         NEW id, NEW c, NEW accepted, Told(log, id, c, accepted),
         Places(unflushed, Rowed(id, c)) = {}, rows \cap Rowed(id, c) = {}
  PROVE  /\ Told(log', id, c, accepted)
         /\ Places(unflushed', Rowed(id, c)) = {}
<1>1. Rowed(id, c) \in SUBSET Row
  BY DEF Rowed
<1>2. Places(log', Rowed(id, c)) = Places(log, Rowed(id, c))
      /\ Places(unflushed', Rowed(id, c)) = {}
  BY <1>1 DEF Adds
<1>3. \A i \in DOMAIN log : i \in DOMAIN log' /\ log'[i] = log[i]
  BY DEF Adds
<1> QED BY <1>2, <1>3 DEF Told

\* The books of the last cycle are closed.
LEMMA ReturnedKept ==
  ASSUME TypeOK, ReturnedBooked, returned' = returned, calls' \in Nat, calls <= calls',
         NEW rows \in SUBSET Row, Adds(rows),
         call'.kind = "sync" => returned = None \/ returned.id # call'.id,
         \A r \in rows : r.ctx \in Contexts => returned = None \/ r.call # returned.id
  PROVE  ReturnedBooked'
<1> SUFFICES ASSUME returned # None
             PROVE  ReturnedBooked'
  BY DEF ReturnedBooked
<1>1. returned \in Result /\ returned.id \in Nat /\ calls \in Nat
  BY EngineAssumption DEF TypeOK, Result, CallIds, EngineAssumption
<1>2. DOMAIN returned.offer \subseteq Contexts
  BY <1>1 DEF Result, Offer
<1>3. \A c \in Contexts : rows \cap Rowed(returned.id, c) = {}
  BY DEF Rowed
<1>4. \A c \in Contexts : Places(unflushed, Rowed(returned.id, c)) = {}
  BY DEF ReturnedBooked, Absent
<1>5. \A c \in Contexts : Places(unflushed', Rowed(returned.id, c)) = {}
  BY <1>3, <1>4 DEF Adds, Rowed
<1>6. \A c \in DOMAIN returned.offer : Told(log', returned.id, c, returned.accepted)
  BY <1>2, <1>3, <1>4, ToldKept DEF ReturnedBooked
<1> QED BY <1>1, <1>5, <1>6 DEF ReturnedBooked, Absent

\* The books of a cycle in progress, when nothing more is said in it.
LEMMA CycleKept ==
  ASSUME TypeOK, CycleBooked, Adds({}), calls' = calls,
         call'.kind = "sync" =>
            /\ call.kind = "sync" /\ call'.id = call.id /\ call'.offer = call.offer
            /\ call'.todo = call.todo /\ call'.accepted = call.accepted
            /\ call'.conflicts = call.conflicts
            /\ call'.at = "compare" => call'.ctx \in call'.todo
  PROVE  CycleBooked'
<1> SUFFICES ASSUME call'.kind = "sync"
             PROVE  CycleBooked'
  BY DEF CycleBooked
<1>1. call \in Cycle
  BY DEF TypeOK, Retry, NoCall
<1>2. DOMAIN call.offer \subseteq Contexts
  BY <1>1 DEF Cycle, Offer
<1>3. \A c \in Contexts : Places(unflushed, Rowed(call.id, c)) = {}
  BY DEF CycleBooked, Absent
<1>4. \A c \in Contexts : /\ Places(unflushed', Rowed(call.id, c)) = {}
                          /\ Places(log', Rowed(call.id, c)) = Places(log, Rowed(call.id, c))
  BY <1>3 DEF Adds, Rowed
<1>5. \A c \in DOMAIN call.offer \ call.todo : Told(log', call.id, c, call.accepted)
  BY <1>2, <1>3, ToldKept DEF CycleBooked
<1> QED BY <1>2, <1>4, <1>5 DEF CycleBooked, Absent

\* What was tried of the failed ones, when nothing is tried.
LEMMA TriedKept ==
  ASSUME TypeOK, TriedBooked, tried' = tried, calls' \in Nat, calls <= calls',
         NEW rows \in SUBSET Row, Adds(rows),
         \A r \in rows : r.status = "failed" => Len(tried[r.call]) = MaxRetries
  PROVE  TriedBooked'
<1>1. calls \in Nat /\ CallIds \subseteq Nat
  BY EngineAssumption DEF TypeOK, CallIds, EngineAssumption
<1>2. \A id \in CallIds : id > calls' => tried'[id] = <<>>
  BY <1>1 DEF TriedBooked
<1>3. ASSUME NEW id \in CallIds, Doomed(id)'
      PROVE  Len(tried'[id]) = MaxRetries
  <2>1. Failed(id) \in SUBSET Row
    BY DEF Failed
  <2>2. Doomed(id) \/ rows \cap Failed(id) # {}
    BY <1>3, <2>1 DEF Adds, Doomed
  <2> QED BY <2>2 DEF TriedBooked, Failed
<1> QED BY <1>2, <1>3 DEF TriedBooked

\* What was logged as failed stays logged.
LEMMA FailuresKept ==
  ASSUME TypeOK, TypeOK', NEW rows \in SUBSET Row, Adds(rows)
  PROVE  /\ \A id : Failures(id) \subseteq Failures(id)'
         /\ \A id : unflushed = <<>> /\ rows \cap Failed(id) = {} =>
                Failures(id)' = Failures(id)
<1>1. \A id : Failures(id) = Places(log, Failed(id))
  BY SameRows
<1>2. \A id : Failures(id)' = Places(log', Failed(id))
  <2>1. \A i \in DOMAIN log' : log'[i] \in Row
    BY LenProperties, ElementOfSeq DEF TypeOK
  <2> QED BY <2>1 DEF Failures, Places, Failed
<1>3. \A id : Failed(id) \in SUBSET Row
  BY DEF Failed
<1>4. unflushed = <<>> => \A id : Places(unflushed, Failed(id)) = {}
  BY DEF Places
<1> QED BY <1>1, <1>2, <1>3, <1>4 DEF Adds
-----------------------------------------------------------------------------
(* Steps outside of a retry. *)

\* What is known of the calls and of the numbers.
LEMMA Numbers ==
  ASSUME TypeOK
  PROVE  /\ calls \in Nat /\ clock \in Nat /\ refusals \in Nat
         /\ CallIds \subseteq Nat /\ Time \subseteq Nat
         /\ MaxRetries \in Nat /\ MaxCalls \in Nat
BY EngineAssumption DEF TypeOK, EngineAssumption, CallIds, Time

\* The operations that are queued, and those that a retry keeps.
LEMMA OperationsTyped ==
  ASSUME TypeOK
  PROVE  /\ Len(queue) \in Nat /\ DOMAIN queue = 1 .. Len(queue)
         /\ \A i \in DOMAIN queue :
                /\ queue[i] \in Operation /\ queue[i].id \in CallIds
                /\ queue[i].attempts \in 0 .. MaxRetries
                /\ queue[i].last_attempt \in Time
<1>1. queue \in Seq(Operation)
  BY DEF TypeOK
<1>2. \A i \in DOMAIN queue : queue[i] \in Operation
  BY <1>1, LenProperties, ElementOfSeq
<1> QED BY <1>1, <1>2, LenProperties DEF Operation

\* A call is of the kind it says.
LEMMA KindsOfCall ==
  ASSUME TypeOK
  PROVE  /\ call.kind = "sync" => call \in Cycle
         /\ call.kind = "retry" => call \in Retry
         /\ call.kind \notin {"sync", "retry"} => call = NoCall
BY DEF TypeOK, Cycle, Retry, NoCall

\* A step that leaves the queue alone and is no step of a retry keeps what is
\* said of operations.
LEMMA OperationsKept ==
  ASSUME IInv, TypeOK', calls <= calls', UNCHANGED <<queue, queued, tried>>,
         call' = call \/ (call.kind # "retry" /\ call'.kind # "retry"),
         NEW rows \in SUBSET Row, Adds(rows),
         \A r \in rows : r.call <= calls' /\ r.status # "failed"
  PROVE  /\ RowsOfCalls' /\ QueueBooked' /\ RetryBooked' /\ NothingDropped'
         /\ TriedBooked'
<1>1. TypeOK /\ calls \in Nat /\ calls' \in Nat /\ CallIds \subseteq Nat
  BY EngineAssumption DEF IInv, TypeOK, CallIds, EngineAssumption
<1>2. RowsOfCalls'
  BY <1>1, RowsOfCallsKept DEF IInv
<1>3. QueueBooked'
  <2>1. \A i \in DOMAIN queue : queue[i].id \in CallIds
    BY <1>1, OperationsTyped
  <2>2. \A i \in DOMAIN queue : queue[i].id <= calls
    BY DEF IInv, QueueBooked
  <2>3. ASSUME NEW i \in DOMAIN queue
        PROVE  queue[i].id <= calls'
    <3>1. queue[i].id \in Nat /\ queue[i].id <= calls
      BY <1>1, <2>1, <2>2
    <3> QED BY <1>1, <3>1
  <2> QED BY <2>3 DEF IInv, QueueBooked
<1>4. \A id : Failures(id) \subseteq Failures(id)'
  BY <1>1, FailuresKept
<1>5. RetryBooked'
  <2>1. CASE call' = call
    BY <1>4, <2>1 DEF IInv, RetryBooked, Kept
  <2>2. CASE call'.kind # "retry"
    BY <2>2 DEF RetryBooked
  <2> QED BY <2>1, <2>2
<1>6. NothingDropped'
  BY <1>4 DEF IInv, NothingDropped
<1>7. TriedBooked'
  BY <1>1, TriedKept DEF IInv
<1> QED BY <1>2, <1>3, <1>5, <1>6, <1>7

\* The chains of the store stay chains.
LEMMA ChainsKept ==
  ASSUME Chains, NEW c \in Contexts,
         Store!Delete(c) \/ (NextVersion(c) \in Versions /\ Store!Update(c, NextVersion(c)))
  PROVE  Chains'
<1> DEFINE Link == [version : Versions, parent : Versions \cup {None}]
<1>1. history[c] \in Seq(Link)
  BY DEF Chains
<1>2. CASE Store!Delete(c)
  <2>1. history' = [history EXCEPT ![c] = <<>>]
    BY <1>2 DEF Store!Delete
  <2>2. <<>> \in Seq(Link)
    BY EmptySeq
  <2> HIDE DEF Link
  <2>3. history' \in [Contexts -> Seq(Link)]
    BY <2>1, <2>2 DEF Chains, Link
  <2> QED BY <2>3 DEF Chains, Link
<1>3. CASE NextVersion(c) \in Versions /\ Store!Update(c, NextVersion(c))
  <2> DEFINE row == [version |-> NextVersion(c),
                     parent |-> history[c][Len(history[c])].version]
  <2>1. Len(history[c]) \in 1 .. Len(history[c])
    BY <1>1, <1>3, EmptySeq, LenProperties DEF Store!Update
  <2>2. row \in Link
    BY <1>1, <1>3, <2>1, ElementOfSeq
  <2>3. Append(history[c], row) \in Seq(Link)
    BY <1>1, <2>2, AppendProperties
  <2>4. history' = [history EXCEPT ![c] = Append(history[c], row)]
    BY <1>3 DEF Store!Update
  <2> QED BY <2>3, <2>4 DEF Chains
<1> QED BY <1>2, <1>3

\* The API changes the store; time passes; a call is turned away.
LEMMA AsideIInv ==
  ASSUME IInv, StoreChanges \/ Tick \/ RejectSync
  PROVE  IInv'
<1>1. UNCHANGED engine /\ calls' \in Nat /\ calls <= calls' /\ calls' \in 0 .. MaxCalls
      /\ clock' \in Time /\ (calls' = calls \/ call = NoCall)
  <2>1. TypeOK
    BY DEF IInv
  <2>2. calls \in 0 .. MaxCalls /\ clock \in Time
    BY <2>1 DEF TypeOK
  <2>3. CASE StoreChanges
    BY <2>1, <2>2, <2>3, Numbers DEF StoreChanges
  <2>4. CASE Tick
    BY <2>1, <2>2, <2>4, Numbers, EngineAssumption DEF Tick, Time, EngineAssumption
  <2>5. CASE RejectSync
    BY <2>1, <2>2, <2>5, Numbers DEF RejectSync
  <2> QED BY <2>3, <2>4, <2>5
<1>2. TypeOK'
  BY <1>1 DEF IInv, TypeOK, engine
<1>3. Chains'
  BY ChainsKept DEF IInv, Chains, StoreChanges, Tick, RejectSync
<1>4. Adds({})
  BY <1>1, AddsNothing DEF IInv, engine
<1>5. RowsOfCalls' /\ QueueBooked' /\ RetryBooked' /\ NothingDropped' /\ TriedBooked'
  BY <1>1, <1>2, <1>4, OperationsKept DEF engine, IInv
<1>6. CycleBooked'
  BY <1>1, <1>4, CycleKept DEF IInv, engine, NoCall, CycleBooked
<1>7. ReturnedBooked'
  BY <1>1, <1>4, ReturnedKept DEF IInv, engine, ReturnedBooked
<1> QED BY <1>2, <1>3, <1>5, <1>6, <1>7 DEF IInv

\* The session commits or loses the rows that wait.
LEMMA SessionIInv ==
  ASSUME IInv, SessionChanges
  PROVE  IInv'
<1>1. UNCHANGED <<history, calls, clock, call, queue, returned, queued, tried, refusals>>
      /\ unflushed' = <<>> /\ unflushed # <<>>
  BY DEF SessionChanges
<1>2. Adds({})
  BY AddsForgetting, AddsWaiting DEF SessionChanges, IInv
<1>3. TypeOK'
  BY <1>1, <1>2 DEF IInv, TypeOK, Adds
<1>4. RowsOfCalls' /\ QueueBooked' /\ RetryBooked' /\ NothingDropped' /\ TriedBooked'
  BY <1>1, <1>2, <1>3, Numbers, OperationsKept DEF IInv
<1>5. CycleBooked'
  BY <1>1, <1>2, CycleKept DEF IInv, CycleBooked
<1>6. ReturnedBooked'
  BY <1>1, <1>2, Numbers, ReturnedKept DEF IInv, ReturnedBooked
<1> QED BY <1>1, <1>3, <1>4, <1>5, <1>6 DEF IInv, Chains
-----------------------------------------------------------------------------
(* Steps of a cycle. *)

\* A call that ends without writing.
LEMMA EndsIInv ==
  ASSUME IInv, call.kind = "sync", call' = NoCall, refusals' \in 0 .. MaxRefusals,
         returned' = returned,
         UNCHANGED <<history, calls, clock, queue, log, unflushed, queued, tried>>
  PROVE  IInv'
<1>1. TypeOK'
  BY DEF IInv, TypeOK
<1>2. Adds({})
  BY AddsNothing DEF IInv
<1>3. call.kind # "retry" /\ call'.kind \notin {"sync", "retry"}
  BY DEF NoCall
<1>4. RowsOfCalls' /\ QueueBooked' /\ RetryBooked' /\ NothingDropped' /\ TriedBooked'
  BY <1>1, <1>2, <1>3, Numbers, OperationsKept DEF IInv
<1>5. CycleBooked' /\ ReturnedBooked'
  BY <1>2, <1>3, Numbers, ReturnedKept DEF IInv, CycleBooked
<1> QED BY <1>1, <1>4, <1>5 DEF IInv, Chains

\* A cycle that goes on without writing.
LEMMA MovesIInv ==
  ASSUME IInv, call.kind = "sync", call' \in Cycle,
         call'.id = call.id, call'.offer = call.offer, call'.todo = call.todo,
         call'.accepted = call.accepted, call'.conflicts = call.conflicts,
         call'.at = "compare" => call'.ctx \in call'.todo,
         UNCHANGED <<history, calls, clock, queue, log, unflushed, returned,
                     queued, tried, refusals>>
  PROVE  IInv'
<1>1. TypeOK'
  BY DEF IInv, TypeOK
<1>2. Adds({})
  BY AddsNothing DEF IInv
<1>3. call.kind # "retry" /\ call'.kind = "sync"
  BY DEF Cycle
<1>4. RowsOfCalls' /\ QueueBooked' /\ RetryBooked' /\ NothingDropped' /\ TriedBooked'
  BY <1>1, <1>2, <1>3, Numbers, OperationsKept DEF IInv
<1>5. CycleBooked'
  BY <1>2, CycleKept DEF IInv
<1>6. ReturnedBooked'
  BY <1>2, Numbers, ReturnedKept DEF IInv, ReturnedBooked
<1> QED BY <1>1, <1>4, <1>5, <1>6 DEF IInv, Chains

\* BeginSync keeps the invariant: no row has the number of the new cycle.
LEMMA BeginSyncIInv ==
  ASSUME IInv, NEW S \in SUBSET Contexts, NEW offer \in Offered(S), BeginSync(offer)
  PROVE  IInv'
<1>1. /\ call = NoCall /\ calls' = calls + 1 /\ calls + 1 \in CallIds /\ calls \in Nat
      /\ calls' \in 0 .. MaxCalls
      /\ UNCHANGED <<history, clock, queue, log, unflushed, returned, queued, tried, refusals>>
  BY Numbers DEF BeginSync, IInv, TypeOK, CallIds
<1>2. offer \in Offer /\ DOMAIN offer = S
  BY DEF Offered, Offer
<1>3. /\ call'.kind = "sync" /\ call'.id = calls + 1 /\ call'.offer = offer
      /\ call'.at = "summaries" /\ call'.todo = S
      /\ call'.accepted = {} /\ call'.conflicts = {}
  BY <1>2 DEF BeginSync
<1>4. call' \in Cycle
  <2> HIDE DEF Offer
  <2> QED BY <1>1, <1>2 DEF BeginSync, Cycle
<1>5. TypeOK'
  BY <1>1, <1>4 DEF IInv, TypeOK
<1>6. Adds({})
  BY <1>1, AddsNothing DEF IInv
<1>7. RowsOfCalls' /\ QueueBooked' /\ RetryBooked' /\ NothingDropped' /\ TriedBooked'
  <2>1. call.kind # "retry" /\ call'.kind # "retry" /\ calls <= calls'
    BY <1>1, <1>3 DEF NoCall
  <2> QED BY <1>1, <1>5, <1>6, <2>1, OperationsKept DEF IInv
<1>8. \A c : /\ Places(log, Rowed(calls + 1, c)) = {}
             /\ Places(unflushed, Rowed(calls + 1, c)) = {}
  <2>1. ~(calls + 1 <= calls)
    BY <1>1
  <2> QED BY <2>1 DEF IInv, RowsOfCalls, Places, Rowed
<1>9. CycleBooked'
  BY <1>1, <1>2, <1>3, <1>8 DEF CycleBooked, Absent
<1>10. ReturnedBooked'
  <2>1. returned = None \/ returned.id # calls + 1
    <3>1. returned # None => returned.id <= calls
      BY DEF IInv, ReturnedBooked
    <3> QED BY <1>1, <3>1
  <2>2. calls <= calls'
    BY <1>1
  <2> QED BY <1>1, <1>3, <1>6, <2>1, <2>2, ReturnedKept DEF IInv
<1> QED BY <1>1, <1>5, <1>7, <1>9, <1>10 DEF IInv, Chains

\* Summarise keeps the invariant.
LEMMA SummariseIInv ==
  ASSUME IInv, Summarise
  PROVE  IInv'
<1>1. call \in Cycle
  BY KindsOfCall DEF IInv, Summarise
<1>2. call' = [call EXCEPT !.at = "next",
                           !.known = {c \in Contexts : history[c] # <<>>}]
  BY DEF Summarise
<1>3. /\ call' \in Cycle /\ call'.at = "next"
      /\ call'.id = call.id /\ call'.offer = call.offer /\ call'.todo = call.todo
      /\ call'.accepted = call.accepted /\ call'.conflicts = call.conflicts
  <2> HIDE DEF Offer
  <2> QED BY <1>1, <1>2 DEF Cycle
<1> QED BY <1>3, MovesIInv DEF Summarise

\* NextKnown keeps the invariant.
LEMMA NextKnownIInv ==
  ASSUME IInv, NEW c \in Contexts, NextKnown(c)
  PROVE  IInv'
<1>1. CASE history[c] = <<>>
  BY <1>1, EndsIInv DEF NextKnown, Raise, IInv, TypeOK
<1>2. CASE history[c] # <<>>
  <2> DEFINE last == history[c][Len(history[c])].version
  <2>1. last \in Versions
    <3> DEFINE Link == [version : Versions, parent : Versions \cup {None}]
    <3>1. history[c] \in Seq(Link)
      BY DEF IInv, Chains
    <3> HIDE DEF Link
    <3>2. Len(history[c]) \in 1 .. Len(history[c])
      BY <1>2, <3>1, EmptySeq, LenProperties
    <3>3. history[c][Len(history[c])] \in Link
      BY <3>1, <3>2, ElementOfSeq
    <3> QED BY <3>3 DEF Link
  <2>2. call \in Cycle
    BY KindsOfCall DEF IInv, NextKnown
  <2>3. call' = [call EXCEPT !.at = "compare", !.ctx = c, !.local = last]
    BY <1>2 DEF NextKnown
  <2> HIDE DEF last
  <2>4. /\ call' \in Cycle /\ call'.at = "compare" /\ call'.ctx = c
        /\ call'.id = call.id /\ call'.offer = call.offer /\ call'.todo = call.todo
        /\ call'.accepted = call.accepted /\ call'.conflicts = call.conflicts
    BY <2>1, <2>2, <2>3 DEF Cycle
  <2> QED BY <2>4, MovesIInv DEF NextKnown
<1> QED BY <1>1, <1>2

\* ReadRefused keeps the invariant.
LEMMA ReadRefusedIInv ==
  ASSUME IInv, ReadRefused
  PROVE  IInv'
<1>1. /\ call.kind = "sync" /\ call' = NoCall
      /\ UNCHANGED <<history, calls, clock, queue, log, unflushed, returned, queued, tried>>
  BY DEF ReadRefused, Raise
<1>2. refusals' \in 0 .. MaxRefusals
  BY Numbers, EngineAssumption DEF ReadRefused, Refusal, IInv, TypeOK, EngineAssumption
<1> QED BY <1>1, <1>2, EndsIInv

\* EndSync keeps the invariant: the result takes over the books of the cycle.
LEMMA EndSyncIInv ==
  ASSUME IInv, EndSync
  PROVE  IInv'
<1>1. /\ call \in Cycle /\ call.kind = "sync" /\ call.todo = {} /\ call' = NoCall
      /\ UNCHANGED <<history, calls, clock, queue, log, unflushed, queued, tried, refusals>>
      /\ returned' = [id |-> call.id, offer |-> call.offer,
                      accepted |-> call.accepted, conflicts |-> call.conflicts]
  BY KindsOfCall DEF IInv, EndSync
<1>2. returned' \in Result
  BY <1>1 DEF Cycle, Result
<1>3. TypeOK'
  BY <1>1, <1>2 DEF IInv, TypeOK
<1>4. Adds({})
  BY <1>1, AddsNothing DEF IInv
<1>5. call.kind # "retry" /\ call'.kind \notin {"sync", "retry"}
  BY <1>1 DEF NoCall
<1>6. RowsOfCalls' /\ QueueBooked' /\ RetryBooked' /\ NothingDropped' /\ TriedBooked'
  BY <1>1, <1>3, <1>4, <1>5, Numbers, OperationsKept DEF IInv
<1>7. CycleBooked'
  BY <1>5 DEF CycleBooked
<1>8. ReturnedBooked'
  <2>1. calls \in Nat
    BY Numbers DEF IInv
  <2>2. CycleBooked
    BY DEF IInv
  <2>3. /\ call.id = calls /\ call.accepted \cap call.conflicts = {}
        /\ call.accepted \cup call.conflicts = DOMAIN call.offer
        /\ Absent(unflushed, call.id)
        /\ \A c \in DOMAIN call.offer : Told(log, call.id, c, call.accepted)
    BY <1>1, <2>2 DEF CycleBooked
  <2>4. call.id <= calls
    BY <2>1, <2>3
  <2> QED BY <1>1, <1>5, <2>3, <2>4 DEF ReturnedBooked
<1> QED BY <1>1, <1>3, <1>6, <1>7, <1>8 DEF IInv, Chains

\* The books of a cycle when one more context is dealt with and its row is
\* written.
LEMMA CycleNoted ==
  ASSUME TypeOK, CycleBooked, call.kind = "sync", NEW c \in call.todo,
         NEW status \in {"success", "conflict"}, calls' = calls,
         NEW row \in Row, row.call = call.id, row.ctx = c, row.status = status,
         WriteSyncLog(row),
         call'.kind = "sync", call'.at = "next", call'.id = call.id,
         call'.offer = call.offer, call'.todo = call.todo \ {c},
         call'.accepted = call.accepted \cup (IF status = "success" THEN {c} ELSE {}),
         call'.conflicts = call.conflicts \cup (IF status = "conflict" THEN {c} ELSE {})
  PROVE  CycleBooked'
<1>1. DOMAIN call.offer \subseteq Contexts
  BY KindsOfCall DEF Cycle, Offer
<1>2. /\ call.id = calls /\ c \in DOMAIN call.offer
      /\ call.todo \subseteq DOMAIN call.offer
      /\ call.accepted \cup call.conflicts = DOMAIN call.offer \ call.todo
      /\ call.accepted \cap call.conflicts = {}
      /\ \A d \in Contexts : Places(unflushed, Rowed(call.id, d)) = {}
      /\ \A d \in call.todo : Places(log, Rowed(call.id, d)) = {}
      /\ \A d \in DOMAIN call.offer \ call.todo : Told(log, call.id, d, call.accepted)
  BY DEF CycleBooked, Absent
<1>3. Adds({row}) /\ unflushed' = <<>>
  BY AddsWritten
<1>4. \A d \in Contexts \ {c} : {row} \cap Rowed(call.id, d) = {}
  BY DEF Rowed
<1>5. ASSUME NEW d \in call.todo \ {c}
      PROVE  Places(log', Rowed(call.id, d)) = {}
  <2>1. d \in Contexts /\ Rowed(call.id, d) \in SUBSET Row
    BY <1>1, <1>2 DEF Rowed
  <2> QED BY <1>2, <1>3, <1>4, <2>1 DEF Adds
<1>6. ASSUME NEW d \in DOMAIN call.offer \ call.todo
      PROVE  Told(log', call.id, d, call'.accepted)
  <2>1. d \in Contexts \ {c} /\ (d \in call'.accepted <=> d \in call.accepted)
    BY <1>1
  <2>2. Told(log', call.id, d, call.accepted)
    BY <1>2, <1>3, <1>4, <2>1, ToldKept
  <2> QED BY <2>1, <2>2 DEF Told
<1>7. Told(log', call.id, c, call'.accepted)
  <2> DEFINE R == Rowed(call.id, c)
  <2>1. /\ R \in SUBSET Row /\ row \in R
        /\ Places(unflushed, R) = {} /\ Places(log, R) = {}
    BY <1>1, <1>2 DEF Rowed
  <2> HIDE DEF R
  <2>2. PICK i \in DOMAIN log' : Places(log', R) = Places(log, R) \cup {i} /\ log'[i] = row
    BY <2>1, AddsWritten
  <2>3. Places(log', R) = {i} /\ log'[i].status = status
    BY <2>1, <2>2
  <2>4. c \in call'.accepted <=> status = "success"
    BY <1>2
  <2> QED BY <2>3, <2>4 DEF Told, R
<1>8. Absent(unflushed', call.id)
  BY <1>3 DEF Absent, Places
<1>9. \A d \in DOMAIN call.offer \ call'.todo : Told(log', call.id, d, call'.accepted)
  BY <1>6, <1>7
<1>10. /\ call'.accepted \cup call'.conflicts = DOMAIN call.offer \ call'.todo
       /\ call'.accepted \cap call'.conflicts = {}
       /\ call'.todo \subseteq DOMAIN call.offer
  BY <1>2
<1> QED BY <1>2, <1>5, <1>8, <1>9, <1>10 DEF CycleBooked

\* Note keeps the invariant.
LEMMA NoteIInv ==
  ASSUME IInv, call.kind = "sync", NEW c \in call.todo,
         NEW status \in {"success", "conflict"}, Note(c, status),
         UNCHANGED <<history, calls, clock, queue, returned, queued, tried>>
  PROVE  IInv'
<1> DEFINE row == [call |-> call.id, ctx |-> c, status |-> status]
<1>1. call \in Cycle /\ call.kind # "retry" /\ TypeOK /\ calls \in Nat
  BY KindsOfCall, Numbers DEF IInv
<1>2. row \in Row /\ row.call = call.id /\ row.ctx = c /\ row.status = status
  BY <1>1 DEF Cycle, Row
<1>3. row.call <= calls /\ (returned = None \/ returned.id # call.id)
  BY <1>1, <1>2 DEF IInv, CycleBooked, ReturnedBooked
<1>4. CASE Raise /\ LogRefused(row)
  <2>1. refusals' \in 0 .. MaxRefusals
    BY <1>4, Numbers, EngineAssumption DEF LogRefused, Refusal, IInv, TypeOK, EngineAssumption
  <2>2. Adds({row})
    BY <1>1, <1>2, <1>4, AddsRefused
  <2>3. call' = NoCall /\ call'.kind \notin {"sync", "retry"}
    BY <1>4 DEF Raise, NoCall
  <2>4. TypeOK'
    BY <2>1, <2>2, <2>3 DEF IInv, TypeOK, Adds
  <2> HIDE DEF row
  <2>5. RowsOfCalls' /\ QueueBooked' /\ RetryBooked' /\ NothingDropped' /\ TriedBooked'
    BY <1>1, <1>2, <1>3, <2>1, <2>2, <2>3, <2>4, OperationsKept
  <2>6. CycleBooked'
    BY <2>3 DEF CycleBooked
  <2>7. ReturnedBooked'
    BY <1>1, <1>2, <1>3, <2>2, <2>3, ReturnedKept DEF IInv
  <2> QED BY <2>4, <2>5, <2>6, <2>7 DEF IInv, Chains
<1>5. CASE ~(Raise /\ LogRefused(row))
  <2>1. WriteSyncLog(row)
        /\ call' = [call EXCEPT !.at = "next", !.todo = call.todo \ {c},
                        !.local = None, !.ctx = None,
                        !.accepted = IF status = "success" THEN call.accepted \cup {c}
                                     ELSE call.accepted,
                        !.conflicts = IF status = "conflict" THEN call.conflicts \cup {c}
                                      ELSE call.conflicts]
    BY <1>5 DEF Note
  <2>2. c \in Contexts
    BY <1>1 DEF Cycle
  <2>3. /\ call' \in Cycle /\ call'.kind = "sync" /\ call'.at = "next"
        /\ call'.id = call.id /\ call'.offer = call.offer
        /\ call'.todo = call.todo \ {c}
        /\ call'.accepted = call.accepted \cup (IF status = "success" THEN {c} ELSE {})
        /\ call'.conflicts = call.conflicts \cup (IF status = "conflict" THEN {c} ELSE {})
    <3> HIDE DEF Offer
    <3> QED BY <1>1, <2>1, <2>2 DEF Cycle
  <2>4. Adds({row}) /\ unflushed' = <<>> /\ refusals' = refusals
    BY <1>1, <1>2, <2>1, AddsWritten DEF WriteSyncLog
  <2> HIDE DEF row
  <2>5. TypeOK'
    BY <2>3, <2>4 DEF IInv, TypeOK, Adds
  <2>6. RowsOfCalls' /\ QueueBooked' /\ RetryBooked' /\ NothingDropped' /\ TriedBooked'
    BY <1>1, <1>2, <1>3, <2>3, <2>4, <2>5, OperationsKept
  <2>7. CycleBooked'
    BY <1>1, <1>2, <2>1, <2>3, CycleNoted DEF IInv
  <2>8. ReturnedBooked'
    BY <1>1, <1>2, <1>3, <2>3, <2>4, ReturnedKept DEF IInv
  <2> QED BY <2>5, <2>6, <2>7, <2>8 DEF IInv, Chains
<1> QED BY <1>4, <1>5

\* NextUnknown and Compare keep the invariant.
LEMMA ComparesIInv ==
  ASSUME IInv, Compare \/ \E c \in Contexts : NextUnknown(c)
  PROVE  IInv'
<1>1. CASE Compare
  <2> DEFINE status == IF InConflict(call.ctx) THEN "conflict" ELSE "success"
  <2>1. call.ctx \in call.todo /\ status \in {"success", "conflict"}
    BY <1>1 DEF Compare, IInv, CycleBooked
  <2>2. /\ call.kind = "sync" /\ Note(call.ctx, status)
        /\ UNCHANGED <<history, calls, clock, queue, returned, queued, tried>>
    BY <1>1 DEF Compare
  <2> HIDE DEF status
  <2> QED BY <2>1, <2>2, NoteIInv
<1>2. ASSUME NEW c \in Contexts, NextUnknown(c)
      PROVE  IInv'
  BY <1>2, NoteIInv DEF NextUnknown
<1> QED BY <1>1, <1>2

-----------------------------------------------------------------------------
(* Steps of the queue. *)

\* A step that is none of a cycle, and writes no row of one, keeps what is
\* said of cycles.
LEMMA CyclesKept ==
  ASSUME IInv, calls' \in Nat, calls <= calls', call'.kind # "sync",
         UNCHANGED <<history, returned>>,
         NEW rows \in SUBSET Row, Adds(rows),
         \A r \in rows : r.call <= calls' /\ r.ctx = None
  PROVE  Chains' /\ RowsOfCalls' /\ CycleBooked' /\ ReturnedBooked'
<1>1. None \notin Contexts
  BY EngineAssumption DEF EngineAssumption
<1>2. RowsOfCalls'
  BY RowsOfCallsKept DEF IInv
<1>3. ReturnedBooked'
  BY <1>1, ReturnedKept DEF IInv
<1> QED BY <1>2, <1>3 DEF IInv, Chains, CycleBooked

\* queue_pending keeps the invariant.
LEMMA QueuePendingIInv ==
  ASSUME IInv, queue_pending
  PROVE  IInv'
<1> DEFINE id == calls + 1
           op == [id |-> id, attempts |-> 0, last_attempt |-> 0]
           row == [call |-> id, ctx |-> None, status |-> "pending"]
<1>1. /\ call = NoCall /\ id \in CallIds /\ calls \in Nat /\ calls' = id
      /\ queue' = Append(queue, op) /\ queued' = queued \cup {id}
      /\ UNCHANGED <<history, clock, call, returned, tried>>
      /\ WriteSyncLog(row) \/ LogRefused(row)
      /\ call.kind \notin {"sync", "retry"} /\ TypeOK
      /\ id \in 0 .. MaxCalls
  BY Numbers DEF queue_pending, IInv, TypeOK, CallIds, NoCall
<1>2. row \in Row /\ row.call = id /\ row.ctx = None /\ row.status = "pending"
  BY <1>1 DEF Row
<1>3. op \in Operation /\ op.id = id /\ op.attempts = 0
  BY <1>1, Numbers, EngineAssumption DEF Operation, Time, EngineAssumption
<1> HIDE DEF row, op
<1>4. /\ Adds({row}) /\ refusals' \in 0 .. MaxRefusals
  <2>1. CASE WriteSyncLog(row)
    BY <1>1, <1>2, <2>1, AddsWritten DEF WriteSyncLog, TypeOK
  <2>2. CASE LogRefused(row)
    <3>1. refusals' = refusals + 1 /\ refusals < MaxRefusals
      BY <2>2 DEF LogRefused, Refusal
    <3>2. refusals' \in 0 .. MaxRefusals
      BY <1>1, <3>1, Numbers, EngineAssumption DEF EngineAssumption
    <3>3. Adds({row})
      BY <1>1, <1>2, <2>2, AddsRefused
    <3> QED BY <3>2, <3>3
  <2> QED BY <1>1, <2>1, <2>2
<1>5. queue' \in Seq(Operation)
  BY <1>1, <1>3, AppendProperties DEF TypeOK
<1>6. TypeOK'
  BY <1>1, <1>4, <1>5 DEF TypeOK, Adds
<1>7. Chains' /\ RowsOfCalls' /\ CycleBooked' /\ ReturnedBooked'
  BY <1>1, <1>2, <1>4, CyclesKept
<1>8. /\ DOMAIN queue = 1 .. Len(queue) /\ DOMAIN queue' = 1 .. Len(queue) + 1
      /\ Len(queue) \in Nat
      /\ \A i \in DOMAIN queue : queue'[i] = queue[i]
      /\ queue'[Len(queue) + 1] = op
  BY <1>1, <1>3, <1>5, AppendProperties, LenProperties, OperationsTyped DEF TypeOK
<1>9. /\ \A i \in DOMAIN queue : queue[i].id \in Nat /\ queue[i].id <= calls
      /\ \A i \in DOMAIN queue : Counted(queue[i], tried[queue[i].id])
      /\ Ordered(queue)
  BY <1>1, Numbers, OperationsTyped DEF IInv, QueueBooked
<1>10. Len(queue) <= calls
  <2>1. CASE Len(queue) = 0
    BY <1>1, <2>1
  <2>2. CASE Len(queue) # 0
    <3>1. Len(queue) \in DOMAIN queue
      BY <1>8, <2>2
    <3>2. queue[Len(queue)].id >= Len(queue) /\ queue[Len(queue)].id <= calls
          /\ queue[Len(queue)].id \in Nat
      BY <1>9, <3>1 DEF Ordered
    <3> QED BY <1>1, <1>8, <3>2
  <2> QED BY <2>1, <2>2
<1>11. QueueBooked'
  <2>1. ASSUME NEW i \in DOMAIN queue'
        PROVE  /\ queue'[i].id >= i /\ queue'[i].id <= calls'
               /\ \A j \in DOMAIN queue' : i < j => queue'[i].id < queue'[j].id
               /\ Counted(queue'[i], tried'[queue'[i].id])
    <3>1. CASE i \in DOMAIN queue
      <4>1. queue'[i] = queue[i] /\ queue[i].id <= calls /\ queue[i].id \in Nat
            /\ queue[i].id >= i /\ Counted(queue[i], tried[queue[i].id])
        BY <1>8, <1>9, <3>1 DEF Ordered
      <4>2. ASSUME NEW j \in DOMAIN queue', i < j
            PROVE  queue'[i].id < queue'[j].id
        <5>1. CASE j \in DOMAIN queue
          BY <1>8, <1>9, <3>1, <4>2, <5>1 DEF Ordered
        <5>2. CASE j \notin DOMAIN queue
          <6>1. queue'[j] = op
            BY <1>8, <5>2
          <6> QED BY <1>1, <1>3, <4>1, <6>1
        <5> QED BY <5>1, <5>2
      <4>3. queue'[i].id <= calls'
        BY <1>1, <4>1
      <4> QED BY <1>1, <4>1, <4>2, <4>3
    <3>2. CASE i \notin DOMAIN queue
      <4>1. i = Len(queue) + 1 /\ queue'[i] = op
        BY <1>8, <3>2
      <4>2. tried[id] = <<>>
        <5>1. TriedBooked /\ id > calls
          BY <1>1 DEF IInv
        <5> QED BY <1>1, <5>1 DEF TriedBooked
      <4>3. Counted(op, tried[id])
        BY <1>3, <4>2 DEF Counted
      <4>4. \A j \in DOMAIN queue' : ~(i < j)
        BY <1>8, <4>1
      <4>5. op.id >= i /\ op.id <= calls'
        BY <1>1, <1>3, <1>8, <1>10, <4>1
      <4> QED BY <1>1, <1>3, <4>1, <4>3, <4>4, <4>5
    <3> QED BY <3>1, <3>2
  <2> QED BY <2>1 DEF QueueBooked, Ordered
<1>12. RetryBooked'
  BY <1>1 DEF RetryBooked
<1>13. \A f : Failures(f) \subseteq Failures(f)'
  BY <1>1, <1>2, <1>4, <1>6, FailuresKept
<1>14. NothingDropped'
  <2>1. \A i \in DOMAIN queue : i \in DOMAIN queue' /\ queue'[i] = queue[i]
    BY <1>8
  <2>2. Len(queue) + 1 \in DOMAIN queue' /\ queue'[Len(queue) + 1].id = id
    BY <1>3, <1>8
  <2> QED BY <1>1, <1>13, <2>1, <2>2 DEF IInv, NothingDropped
<1>15. TriedBooked'
  <2>1. calls <= calls' /\ calls' \in Nat
    BY <1>1
  <2>2. \A r \in {row} : r.status = "failed" => Len(tried[r.call]) = MaxRetries
    BY <1>2
  <2>3. TriedBooked /\ tried' = tried /\ {row} \in SUBSET Row
    BY <1>1, <1>2 DEF IInv
  <2> QED BY <1>1, <1>4, <2>1, <2>2, <2>3, TriedKept
<1> QED BY <1>6, <1>7, <1>11, <1>12, <1>14, <1>15 DEF IInv

\* The ids of the queue, where a retry is in it.
LEMMA AtOperationIds ==
  ASSUME IInv, AtOperation
  PROVE  /\ call \in Retry /\ call.kind = "retry"
         /\ call.next \in DOMAIN queue /\ call.next \in Nat
         /\ DOMAIN queue = 1 .. Len(queue) /\ Len(queue) \in Nat
         /\ Len(queue) <= MaxCalls
         /\ \A i \in DOMAIN queue : queue[i].id \in Nat /\ i \in Nat
         /\ \A i, j \in DOMAIN queue : queue[i].id = queue[j].id => i = j
         /\ call.keep \in Seq(Operation) /\ Len(call.keep) \in Nat
         /\ DOMAIN call.keep = 1 .. Len(call.keep) /\ Len(call.keep) < call.next
         /\ \A k \in DOMAIN call.keep : \E i \in 1 .. call.next - 1 :
                i \in DOMAIN queue /\ call.keep[k] = queue[i]
         /\ Ordered(queue) /\ Ordered(call.keep)
<1>1. /\ call \in Retry /\ call.kind = "retry" /\ call.next <= Len(queue)
      /\ call.next \in 1 .. Len(queue) + 1
  BY KindsOfCall DEF AtOperation, IInv, RetryBooked
<1>2. /\ DOMAIN queue = 1 .. Len(queue) /\ Len(queue) \in Nat
      /\ \A i \in DOMAIN queue : queue[i].id \in Nat /\ queue[i].id \in CallIds
  BY Numbers, OperationsTyped DEF IInv
<1>3. call.next \in DOMAIN queue /\ call.next \in Nat
  BY <1>1, <1>2
<1>4. call.keep \in Seq(Operation)
  BY <1>1 DEF Retry
<1>5. Ordered(queue)
  BY DEF IInv, QueueBooked
<1>6. ASSUME NEW i \in DOMAIN queue, NEW j \in DOMAIN queue, queue[i].id = queue[j].id
      PROVE  i = j
  <2>1. ~(i < j) /\ ~(j < i)
    BY <1>2, <1>5, <1>6 DEF Ordered
  <2> QED BY <1>2, <2>1
<1>7. Len(queue) <= MaxCalls
  <2>1. Len(queue) \in DOMAIN queue
    BY <1>1, <1>2
  <2>2. queue[Len(queue)].id >= Len(queue) /\ queue[Len(queue)].id \in 1 .. MaxCalls
    BY <1>2, <1>5, <2>1 DEF Ordered, CallIds
  <2> QED BY <1>2, <2>2, Numbers DEF IInv
<1>8. RetryBooked
  BY DEF IInv
<1>9. /\ Len(call.keep) < call.next /\ Ordered(call.keep)
      /\ \A k \in DOMAIN call.keep : \E i \in 1 .. call.next - 1 : call.keep[k] = queue[i]
  BY <1>1, <1>8 DEF RetryBooked
<1>10. 1 .. call.next - 1 \subseteq DOMAIN queue
  BY <1>1, <1>2
<1> QED BY <1>1, <1>2, <1>3, <1>4, <1>5, <1>6, <1>7, <1>9, <1>10, LenProperties

\* A retry that keeps an operation, changed or not, and goes on.
LEMMA KeepsBooked ==
  ASSUME IInv, AtOperation, NEW op \in Operation, op.id = queue[call.next].id,
         queue' = [queue EXCEPT ![call.next] = op], Keep(op),
         UNCHANGED <<log, unflushed, queued, refusals>>
  PROVE  /\ call' \in Retry /\ call'.kind = "retry" /\ queue' \in Seq(Operation)
         /\ Ordered(queue') /\ RetryBooked' /\ NothingDropped'
<1> DEFINE n == call.next
           keep == Append(call.keep, op)
<1>1. /\ call \in Retry /\ call.kind = "retry" /\ n \in DOMAIN queue /\ n \in Nat
      /\ DOMAIN queue = 1 .. Len(queue) /\ Len(queue) \in Nat /\ Len(queue) <= MaxCalls
      /\ \A i \in DOMAIN queue : queue[i].id \in Nat /\ i \in Nat
      /\ \A i, j \in DOMAIN queue : queue[i].id = queue[j].id => i = j
      /\ call.keep \in Seq(Operation) /\ Len(call.keep) \in Nat
      /\ DOMAIN call.keep = 1 .. Len(call.keep) /\ Len(call.keep) < n
      /\ Ordered(queue) /\ Ordered(call.keep)
  BY AtOperationIds
<1>2. \A k \in DOMAIN call.keep : \E i \in 1 .. n - 1 :
        i \in DOMAIN queue /\ call.keep[k] = queue[i]
  BY AtOperationIds
<1>3. /\ keep \in Seq(Operation) /\ Len(keep) = Len(call.keep) + 1
      /\ DOMAIN keep = 1 .. Len(call.keep) + 1
      /\ \A k \in DOMAIN call.keep : keep[k] = call.keep[k]
      /\ keep[Len(call.keep) + 1] = op
  BY <1>1, AppendProperties, LenProperties
<1> HIDE DEF keep
<1>4. call' = [call EXCEPT !.next = n + 1, !.keep = keep]
  BY DEF Keep, keep
<1>5. /\ call' \in Retry /\ call'.kind = "retry"
      /\ call'.next = n + 1 /\ call'.keep = keep
  <2>1. n + 1 \in 1 .. MaxCalls + 1
    BY <1>1, Numbers DEF IInv
  <2> HIDE DEF n
  <2> QED BY <1>1, <1>3, <1>4, <2>1 DEF Retry
<1>6. /\ queue' \in Seq(Operation) /\ Len(queue') = Len(queue)
      /\ DOMAIN queue' = DOMAIN queue /\ queue'[n] = op
      /\ \A i \in DOMAIN queue : i # n => queue'[i] = queue[i]
      /\ \A i \in DOMAIN queue : queue'[i].id = queue[i].id
  <2>1. queue \in Seq(Operation)
    BY DEF IInv, TypeOK
  <2>2. queue' \in Seq(Operation) /\ Len(queue') = Len(queue)
    BY <1>1, <2>1, ExceptSeq
  <2> QED BY <1>1, <2>1, <2>2, LenProperties
<1>7. Ordered(queue')
  BY <1>1, <1>6 DEF Ordered
<1>8. \A k \in DOMAIN keep : \E i \in 1 .. n : keep[k] = queue'[i] /\ i \in DOMAIN queue
  <2> TAKE k \in DOMAIN keep
  <2>1. CASE k \in DOMAIN call.keep
    <3>1. PICK i \in 1 .. n - 1 : i \in DOMAIN queue /\ call.keep[k] = queue[i]
      BY <1>2, <2>1
    <3>2. i \in 1 .. n /\ i # n
      BY <1>1, <3>1
    <3> QED BY <1>3, <1>6, <2>1, <3>1, <3>2
  <2>2. CASE k \notin DOMAIN call.keep
    <3>1. keep[k] = op /\ n \in 1 .. n
      BY <1>1, <1>3, <2>2
    <3> QED BY <1>1, <1>6, <3>1
  <2> QED BY <2>1, <2>2
<1>9. \A k \in DOMAIN call.keep : call.keep[k].id < op.id /\ call.keep[k].id \in Nat
  <2> TAKE k \in DOMAIN call.keep
  <2>1. PICK i \in 1 .. n - 1 : i \in DOMAIN queue /\ call.keep[k] = queue[i]
    BY <1>2
  <2>2. i < n
    BY <1>1, <2>1
  <2> QED BY <1>1, <2>1, <2>2 DEF Ordered
<1>10. Ordered(keep)
  <2>1. ASSUME NEW k \in DOMAIN keep
        PROVE  /\ keep[k].id >= k
               /\ \A j \in DOMAIN keep : k < j => keep[k].id < keep[j].id
    <3>1. CASE k \in DOMAIN call.keep
      <4>1. keep[k] = call.keep[k] /\ call.keep[k].id >= k
        BY <1>1, <1>3, <3>1 DEF Ordered
      <4>2. ASSUME NEW j \in DOMAIN keep, k < j
            PROVE  keep[k].id < keep[j].id
        <5>1. CASE j \in DOMAIN call.keep
          BY <1>1, <1>3, <3>1, <4>2, <5>1 DEF Ordered
        <5>2. CASE j \notin DOMAIN call.keep
          <6>1. keep[j] = op
            BY <1>1, <1>3, <5>2
          <6> QED BY <1>9, <3>1, <4>1, <6>1
        <5> QED BY <5>1, <5>2
      <4> QED BY <4>1, <4>2
    <3>2. CASE k \notin DOMAIN call.keep
      <4>1. k = Len(call.keep) + 1 /\ keep[k] = op
        BY <1>1, <1>3, <3>2
      <4>2. op.id >= n /\ op.id \in Nat
        BY <1>1 DEF Ordered
      <4>3. op.id >= k /\ \A j \in DOMAIN keep : ~(k < j)
        BY <1>1, <1>3, <4>1, <4>2
      <4> QED BY <4>1, <4>3
    <3> QED BY <3>1, <3>2
  <2> QED BY <2>1 DEF Ordered
<1>11. \A id : Failures(id)' = Failures(id)
  BY DEF Failures
<1>12. \A id : Kept(id)' <=> Kept(id) \/ id = op.id
  <2> TAKE id
  <2>1. Kept(id) => Kept(id)'
    BY <1>1, <1>3, <1>5 DEF Kept
  <2>2. id = op.id => Kept(id)'
    <3>1. Len(call.keep) + 1 \in DOMAIN keep
      BY <1>1, <1>3
    <3> QED BY <1>3, <1>5, <3>1 DEF Kept
  <2>3. ASSUME NEW k \in DOMAIN keep, keep[k].id = id
        PROVE  Kept(id) \/ id = op.id
    <3>1. k \in DOMAIN call.keep \/ k = Len(call.keep) + 1
      BY <1>1, <1>3
    <3> QED BY <1>3, <2>3, <3>1 DEF Kept
  <2> QED BY <1>5, <2>1, <2>2, <2>3 DEF Kept
<1>13. RetryBooked'
  <2>1. /\ call'.next \in 1 .. Len(queue') + 1
        /\ Len(call'.keep) < call'.next
        /\ call'.next - 1 = n
    BY <1>1, <1>3, <1>5, <1>6
  <2>2. ASSUME NEW i \in 1 .. n, NEW id, id = queue'[i].id
        PROVE  Kept(id)' \/ Failures(id)' # {}
    <3>1. CASE i = n
      BY <1>6, <1>12, <2>2, <3>1
    <3>2. CASE i # n
      <4>1. i \in 1 .. call.next - 1 /\ i \in DOMAIN queue
        BY <1>1, <3>2
      <4>2. Kept(queue[i].id) \/ Failures(queue[i].id) # {}
        BY <1>1, <4>1 DEF IInv, RetryBooked
      <4> QED BY <1>6, <1>11, <1>12, <2>2, <3>2, <4>1, <4>2
    <3> QED BY <3>1, <3>2
  <2>3. \A k \in DOMAIN keep : \E i \in 1 .. n : keep[k] = queue'[i]
    BY <1>8
  <2> QED BY <1>5, <1>10, <2>1, <2>2, <2>3 DEF RetryBooked, Kept, Failures
<1>14. NothingDropped'
  BY <1>6, <1>11 DEF IInv, NothingDropped
<1> QED BY <1>5, <1>6, <1>7, <1>13, <1>14

\* Waiting keeps the invariant.
LEMMA WaitIInv ==
  ASSUME IInv, Wait
  PROVE  IInv'
<1> DEFINE op == queue[call.next]
<1>1. /\ AtOperation /\ Keep(op) /\ queue' = queue
      /\ UNCHANGED <<history, calls, clock, queue, log, unflushed,
                     returned, queued, tried, refusals>>
  BY DEF Wait
<1>2. TypeOK /\ calls \in Nat
  BY Numbers DEF IInv
<1>3. op \in Operation /\ queue = [queue EXCEPT ![call.next] = op]
  <2>1. call.next \in DOMAIN queue
    BY <1>1, AtOperationIds
  <2>2. op \in Operation
    BY <1>2, <2>1, OperationsTyped
  <2>3. queue = [i \in 1 .. Len(queue) |-> queue[i]]
    BY <1>2, LenProperties DEF TypeOK
  <2> QED BY <2>2, <2>3
<1>4. /\ call' \in Retry /\ call'.kind = "retry"
      /\ RetryBooked' /\ NothingDropped'
  <2> HIDE DEF op
  <2>1. op.id = queue[call.next].id
    BY DEF op
  <2> QED BY <1>1, <1>3, <2>1, KeepsBooked
<1>5. TypeOK'
  BY <1>1, <1>2, <1>4 DEF TypeOK
<1>6. Adds({})
  BY <1>1, <1>2, AddsNothing
<1>7. Chains' /\ RowsOfCalls' /\ CycleBooked' /\ ReturnedBooked'
  BY <1>1, <1>2, <1>4, <1>6, CyclesKept
<1>8. QueueBooked'
  BY <1>1 DEF IInv, QueueBooked
<1>9. TriedBooked'
  BY <1>1, <1>2, <1>6, TriedKept DEF IInv
<1> QED BY <1>4, <1>5, <1>7, <1>8, <1>9 DEF IInv

\* An attempt keeps the invariant: it is spaced as the operation says, and the
\* operation was not failed yet.
LEMMA AttemptIInv ==
  ASSUME IInv, Attempt
  PROVE  IInv'
<1> DEFINE n == call.next
           op == queue[n]
           again == [op EXCEPT !.attempts = @ + 1, !.last_attempt = clock]
<1>1. /\ AtOperation /\ op.attempts < MaxRetries /\ ~Waiting(op)
      /\ queue' = [queue EXCEPT ![n] = again] /\ Keep(again)
      /\ tried' = [tried EXCEPT ![op.id] = Append(@, clock)]
      /\ UNCHANGED <<history, calls, clock, log, unflushed, returned,
                     queued, refusals>>
  BY DEF Attempt
<1>2. TypeOK /\ calls \in Nat /\ MaxRetries \in Nat /\ clock \in Time
      /\ CallIds \subseteq Nat /\ Time \subseteq Nat
  BY Numbers DEF IInv, TypeOK
<1>3. n \in DOMAIN queue /\ op \in Operation /\ op.id \in CallIds
      /\ op.attempts \in 0 .. MaxRetries /\ op.last_attempt \in Time
  <2>1. n \in DOMAIN queue
    BY <1>1, AtOperationIds
  <2> QED BY <1>2, <2>1, OperationsTyped
<1>4. /\ again \in Operation /\ again.id = op.id
      /\ again.attempts = op.attempts + 1 /\ again.last_attempt = clock
  <2> HIDE DEF op
  <2>1. op.attempts + 1 \in 0 .. MaxRetries
    BY <1>1, <1>2, <1>3
  <2> QED BY <1>2, <1>3, <2>1 DEF Operation
<1>5. Counted(op, tried[op.id]) /\ op.id <= calls
  BY <1>3 DEF IInv, QueueBooked
<1> HIDE DEF again
<1>6. /\ call' \in Retry /\ call'.kind = "retry" /\ queue' \in Seq(Operation)
      /\ Ordered(queue') /\ RetryBooked' /\ NothingDropped'
  BY <1>1, <1>4, KeepsBooked
<1> HIDE DEF op
<1>7. /\ tried \in [CallIds -> Seq(Time)] /\ tried[op.id] \in Seq(Time)
      /\ Len(tried[op.id]) = op.attempts
  BY <1>2, <1>3, <1>5 DEF TypeOK, Counted
<1>8. /\ tried' \in [CallIds -> Seq(Time)]
      /\ tried'[op.id] \in Seq(Time)
      /\ Len(tried'[op.id]) = op.attempts + 1
      /\ \A k \in 1 .. op.attempts : tried'[op.id][k] = tried[op.id][k]
      /\ tried'[op.id][op.attempts + 1] = clock
      /\ \A id \in CallIds : id # op.id => tried'[id] = tried[id]
  <2>1. Append(tried[op.id], clock) \in Seq(Time)
    BY <1>2, <1>7, AppendProperties
  <2>2. tried'[op.id] = Append(tried[op.id], clock)
    BY <1>1, <1>3, <1>7
  <2>3. /\ Len(tried'[op.id]) = op.attempts + 1
        /\ \A k \in 1 .. op.attempts : tried'[op.id][k] = tried[op.id][k]
        /\ tried'[op.id][op.attempts + 1] = clock
    BY <1>2, <1>7, <2>2, AppendProperties
  <2> QED BY <1>1, <1>7, <2>1, <2>2, <2>3
<1>9. TypeOK'
  BY <1>1, <1>2, <1>6, <1>8 DEF TypeOK
<1>10. Adds({})
  BY <1>1, <1>2, AddsNothing
<1>11. Chains' /\ RowsOfCalls' /\ CycleBooked' /\ ReturnedBooked'
  BY <1>1, <1>2, <1>6, <1>10, CyclesKept
<1>12. QueueBooked'
  <2>1. /\ DOMAIN queue' = DOMAIN queue /\ queue'[n] = again
        /\ \A i \in DOMAIN queue : i # n => queue'[i] = queue[i]
    <3>1. queue = [i \in 1 .. Len(queue) |-> queue[i]]
      BY <1>2, LenProperties DEF TypeOK
    <3> QED BY <1>1, <1>3, <3>1
  <2>2. \A i \in DOMAIN queue : i # n => queue[i].id # op.id /\ queue[i].id \in CallIds
    <3>1. \A i, j \in DOMAIN queue : queue[i].id = queue[j].id => i = j
      BY <1>1, AtOperationIds
    <3>2. \A i \in DOMAIN queue : queue[i].id \in CallIds
      BY <1>2, OperationsTyped
    <3> QED BY <1>3, <3>1, <3>2 DEF op
  <2>3. Counted(again, tried'[op.id])
    <3>1. op.attempts + 1 > 0
      BY <1>2, <1>3
    <3> QED BY <1>4, <1>8 DEF Counted
  <2>4. ASSUME NEW i \in DOMAIN queue
        PROVE  queue'[i].id <= calls' /\ Counted(queue'[i], tried'[queue'[i].id])
    <3>1. CASE i = n
      BY <1>1, <1>4, <1>5, <2>1, <2>3, <3>1
    <3>2. CASE i # n
      <4>1. queue'[i] = queue[i] /\ tried'[queue[i].id] = tried[queue[i].id]
        BY <1>8, <2>1, <2>2, <3>2
      <4>2. queue[i].id <= calls /\ Counted(queue[i], tried[queue[i].id])
        BY DEF IInv, QueueBooked
      <4> QED BY <1>1, <4>1, <4>2
    <3> QED BY <3>1, <3>2
  <2> QED BY <1>6, <2>1, <2>4 DEF QueueBooked
<1>13. TriedBooked'
  <2>1. TriedBooked
    BY DEF IInv
  <2>2. ASSUME NEW id \in CallIds, id > calls'
        PROVE  tried'[id] = <<>>
    <3>1. id # op.id
      BY <1>1, <1>2, <1>3, <1>5, <2>2
    <3> QED BY <1>1, <1>8, <2>1, <2>2, <3>1 DEF TriedBooked
  <2>3. ASSUME NEW k \in 1 .. op.attempts
        PROVE  tried'[op.id][k + 1] - tried'[op.id][k] >= Base ^ k
    <3>1. CASE k < op.attempts
      <4>1. k \in 1 .. Len(tried[op.id]) - 1 /\ k + 1 \in 1 .. op.attempts
        BY <1>2, <1>3, <1>7, <3>1
      <4>2. tried[op.id][k + 1] - tried[op.id][k] >= Base ^ k
        BY <1>3, <2>1, <4>1 DEF TriedBooked
      <4> QED BY <1>8, <4>1, <4>2
    <3>2. CASE k = op.attempts
      <4>1. op.last_attempt = tried[op.id][k]
        BY <1>2, <1>3, <1>5, <3>2 DEF Counted
      <4>2. ~(clock - op.last_attempt < Base ^ k)
        BY <1>1, <3>2 DEF Waiting, get_backoff_delay
      <4>3. Base ^ k \in Int
        <5>1. Base \in Int /\ Base > 0 /\ k \in Int /\ k >= 0
          BY <1>2, <1>3, EngineAssumption DEF EngineAssumption
        <5> QED BY <5>1
      <4>4. tried'[op.id][k + 1] = clock /\ tried'[op.id][k] = op.last_attempt
        BY <1>8, <3>2, <4>1
      <4>5. clock \in Int /\ op.last_attempt \in Int
        BY <1>2, <1>3
      <4>6. ASSUME NEW x \in Int, NEW y \in Int, NEW d \in Int, ~(x - y < d)
            PROVE  x - y >= d
        BY <4>6
      <4>7. clock - op.last_attempt >= Base ^ k
        BY <4>2, <4>3, <4>5, <4>6
      <4> QED BY <4>4, <4>7
    <3> QED BY <1>2, <1>3, <3>1, <3>2
  <2>4. ~Doomed(op.id)
    <3>1. Len(tried[op.id]) # MaxRetries
      BY <1>1, <1>2, <1>3, <1>7
    <3> QED BY <1>3, <2>1, <3>1 DEF TriedBooked
  <2>5. \A id : Doomed(id)' <=> Doomed(id)
    BY <1>1 DEF Doomed, Places
  <2>6. ASSUME NEW id \in CallIds
        PROVE  /\ \A k \in 1 .. Len(tried'[id]) - 1 :
                    tried'[id][k + 1] - tried'[id][k] >= Base ^ k
               /\ Doomed(id)' => Len(tried'[id]) = MaxRetries
    <3>1. CASE id = op.id
      <4>1. 1 .. Len(tried'[id]) - 1 = 1 .. op.attempts
        BY <1>2, <1>3, <1>8, <3>1
      <4> QED BY <2>3, <2>4, <2>5, <3>1, <4>1
    <3>2. CASE id # op.id
      BY <1>8, <2>1, <2>5, <3>2 DEF TriedBooked
    <3> QED BY <3>1, <3>2
  <2> QED BY <2>2, <2>6 DEF TriedBooked
<1> QED BY <1>6, <1>9, <1>11, <1>12, <1>13 DEF IInv

\* Giving an operation up keeps the invariant, whether its row is written or
\* refused.
LEMMA ExhaustIInv ==
  ASSUME IInv, Exhaust
  PROVE  IInv'
<1> DEFINE n == call.next
           id == queue[n].id
           row == [call |-> id, ctx |-> None, status |-> "failed"]
<1>1. /\ AtOperation /\ queue[n].attempts >= MaxRetries
      /\ \/ call' = [call EXCEPT !.next = @ + 1] /\ WriteSyncLog(row)
         \/ Raise /\ LogRefused(row)
      /\ UNCHANGED <<history, calls, clock, queue, returned, queued, tried>>
  BY DEF Exhaust
<1>2. /\ TypeOK /\ calls \in Nat /\ MaxRetries \in Nat /\ refusals \in 0 .. MaxRefusals
      /\ CallIds \subseteq Nat
  BY Numbers DEF IInv, TypeOK
<1>3. /\ n \in DOMAIN queue /\ n \in Nat /\ call \in Retry /\ call.kind = "retry"
      /\ \A i \in DOMAIN queue : i \in Nat
      /\ \A i, j \in DOMAIN queue : queue[i].id = queue[j].id => i = j
      /\ \A k \in DOMAIN call.keep : \E i \in 1 .. n - 1 :
            i \in DOMAIN queue /\ call.keep[k] = queue[i]
      /\ Ordered(call.keep) /\ Len(call.keep) < n
      /\ Len(queue) \in Nat /\ DOMAIN queue = 1 .. Len(queue) /\ Len(queue) <= MaxCalls
      /\ Len(call.keep) \in Nat
  BY <1>1, AtOperationIds
<1>4. id \in CallIds /\ queue[n].attempts = MaxRetries /\ id <= calls /\ id \in Nat
      /\ Counted(queue[n], tried[id])
  <2>1. /\ queue[n].id \in CallIds /\ queue[n].attempts \in 0 .. MaxRetries
    BY <1>2, <1>3, OperationsTyped
  <2>2. Counted(queue[n], tried[queue[n].id]) /\ queue[n].id <= calls
    BY <1>3 DEF IInv, QueueBooked
  <2> QED BY <1>1, <1>2, <2>1, <2>2
<1>5. Len(tried[id]) = MaxRetries
  BY <1>4 DEF Counted
<1> HIDE DEF id, n
<1>6. row \in Row /\ row.call = id /\ row.ctx = None /\ row.status = "failed"
  BY <1>4 DEF Row
<1> HIDE DEF row
<1>7. Adds({row}) /\ {row} \in SUBSET Row
  BY <1>1, <1>2, <1>6, AddsWritten, AddsRefused
<1>8. call'.kind # "sync" /\ call' \in Retry \cup {NoCall} /\ refusals' \in 0 .. MaxRefusals
  <2>1. CASE call' = [call EXCEPT !.next = @ + 1] /\ WriteSyncLog(row)
    <3>1. n + 1 \in 1 .. MaxCalls + 1
      BY <1>2, <1>3, Numbers
    <3> QED BY <1>2, <1>3, <2>1, <3>1 DEF Retry, WriteSyncLog, n
  <2>2. CASE Raise /\ LogRefused(row)
    <3>1. refusals' = refusals + 1 /\ refusals < MaxRefusals /\ MaxRefusals \in Nat
      BY <2>2, EngineAssumption DEF LogRefused, Refusal, EngineAssumption
    <3> QED BY <1>2, <2>2, <3>1 DEF Raise, NoCall
  <2> QED BY <1>1, <2>1, <2>2
<1>9. TypeOK'
  BY <1>1, <1>2, <1>7, <1>8 DEF TypeOK, Adds
<1>10. Chains' /\ RowsOfCalls' /\ CycleBooked' /\ ReturnedBooked'
  <2>1. \A r \in {row} : r.call <= calls' /\ r.ctx = None
    BY <1>1, <1>4, <1>6
  <2>2. calls' \in Nat /\ calls <= calls'
    BY <1>1, <1>2
  <2> QED BY <1>1, <1>7, <1>8, <2>1, <2>2, CyclesKept
<1>11. QueueBooked'
  BY <1>1 DEF IInv, QueueBooked
<1>12. /\ \A f : Failures(f) \subseteq Failures(f)'
       /\ \A f : unflushed = <<>> /\ {row} \cap Failed(f) = {} =>
            Failures(f)' = Failures(f)
  BY <1>2, <1>7, <1>9, FailuresKept
<1>13. NothingDropped'
  BY <1>1, <1>12 DEF IInv, NothingDropped
<1>14. TriedBooked'
  <2>1. \A r \in {row} : r.status = "failed" => Len(tried[r.call]) = MaxRetries
    BY <1>5, <1>6
  <2>2. calls' \in Nat /\ calls <= calls' /\ tried' = tried
    BY <1>1, <1>2
  <2>3. TriedBooked
    BY DEF IInv
  <2> QED BY <1>2, <1>7, <2>1, <2>2, <2>3, TriedKept
<1>15. ASSUME call' = [call EXCEPT !.next = @ + 1], WriteSyncLog(row)
       PROVE  RetryBooked'
  <2>1. call'.next = n + 1 /\ call'.keep = call.keep /\ call'.kind = "retry"
    BY <1>3, <1>15 DEF Retry, n
  <2>2. \A f : Kept(f)' <=> Kept(f)
    BY <2>1 DEF Kept
  <2>3. row \in Failed(id) /\ Failed(id) \in SUBSET Row
    BY <1>6 DEF Failed
  <2>4. /\ unflushed' = <<>>
        /\ Places(log', Failed(id)) # {}
        /\ Places(unflushed, Failed(id)) = {} =>
            \E i \in DOMAIN log' : Places(log', Failed(id)) = Places(log, Failed(id)) \cup {i}
    BY <1>2, <1>6, <1>15, <2>3, AddsWritten
  <2>5. /\ \A f : Failures(f) = Places(log, Failed(f))
        /\ \A f : Failures(f)' = Places(log', Failed(f))
    <3>1. \A f : Failures(f) = Places(log, Failed(f))
      BY <1>2, SameRows
    <3>2. \A i \in DOMAIN log' : log'[i] \in Row
      BY <1>9, LenProperties, ElementOfSeq DEF TypeOK
    <3> QED BY <3>1, <3>2 DEF Failures, Places, Failed
  <2>6. /\ n + 1 \in 1 .. Len(queue) + 1 /\ Len(call.keep) < n + 1 /\ n + 1 - 1 = n
    BY <1>3
  <2>7. \A k \in DOMAIN call.keep : \E i \in 1 .. n : call.keep[k] = queue[i]
    <3>1. 1 .. n - 1 \subseteq 1 .. n
      BY <1>3
    <3> QED BY <1>3, <3>1
  <2>8. ASSUME NEW i \in 1 .. n, NEW f, f = queue[i].id
        PROVE  Kept(f)' \/ Failures(f)' # {}
    <3>1. CASE i = n
      BY <2>4, <2>5, <2>8, <3>1 DEF id
    <3>2. CASE i # n
      <4>1. i \in 1 .. n - 1
        BY <1>3, <3>2
      <4>2. Kept(queue[i].id) \/ Failures(queue[i].id) # {}
        BY <1>3, <4>1 DEF IInv, RetryBooked, n
      <4> QED BY <1>12, <2>2, <2>8, <4>2
    <3> QED BY <3>1, <3>2
  <2>9. queue' = queue /\ Ordered(call.keep) /\ call'.next - 1 = n
    BY <1>1, <1>3, <2>1
  <2> QED BY <2>1, <2>6, <2>7, <2>8, <2>9 DEF RetryBooked, Kept, Failures
<1>16. ASSUME Raise, LogRefused(row)
       PROVE  RetryBooked'
  BY <1>16 DEF Raise, NoCall, RetryBooked
<1>17. RetryBooked'
  BY <1>1, <1>15, <1>16
<1> QED BY <1>9, <1>10, <1>11, <1>13, <1>14, <1>17 DEF IInv

\* The start of a retry keeps the invariant.
LEMMA BeginRetryIInv ==
  ASSUME IInv, BeginRetry
  PROVE  IInv'
<1>1. /\ call = NoCall /\ call' = [kind |-> "retry", next |-> 1, keep |-> <<>>]
      /\ UNCHANGED <<history, calls, clock, queue, log, unflushed, returned,
                     queued, tried, refusals>>
  BY DEF BeginRetry
<1>2. TypeOK /\ calls \in Nat /\ MaxCalls \in Nat
  BY Numbers DEF IInv
<1>3. call' \in Retry /\ call'.kind = "retry" /\ call'.next = 1 /\ call'.keep = <<>>
  BY <1>1, <1>2, EmptySeq DEF Retry
<1>4. TypeOK'
  BY <1>1, <1>2, <1>3 DEF TypeOK
<1>5. Adds({})
  BY <1>1, <1>2, AddsNothing
<1>6. Chains' /\ RowsOfCalls' /\ CycleBooked' /\ ReturnedBooked'
  BY <1>1, <1>2, <1>3, <1>5, CyclesKept
<1>7. QueueBooked' /\ NothingDropped'
  BY <1>1 DEF IInv, QueueBooked, NothingDropped, Failures
<1>8. RetryBooked'
  <2>1. Len(queue) \in Nat /\ Len(<<>>) = 0 /\ DOMAIN <<>> = {}
    BY <1>2, OperationsTyped, EmptySeq
  <2>2. 1 \in 1 .. Len(queue) + 1 /\ Len(<<>>) < 1 /\ 1 .. 1 - 1 = {}
    BY <2>1
  <2> QED BY <1>1, <1>3, <2>1, <2>2 DEF RetryBooked, Ordered
<1>9. TriedBooked'
  BY <1>1, <1>2, <1>5, TriedKept DEF IInv
<1> QED BY <1>4, <1>6, <1>7, <1>8, <1>9 DEF IInv

\* The end of a retry keeps the invariant: what it leaves out was logged.
LEMMA EndRetryIInv ==
  ASSUME IInv, EndRetry
  PROVE  IInv'
<1> DEFINE keep == call.keep
<1>1. /\ call.kind = "retry" /\ call.next > Len(queue)
      /\ queue' = keep /\ call' = NoCall
      /\ UNCHANGED <<history, calls, clock, log, unflushed, returned,
                     queued, tried, refusals>>
  BY DEF EndRetry
<1>2. /\ TypeOK /\ calls \in Nat /\ Len(queue) \in Nat
      /\ DOMAIN queue = 1 .. Len(queue) /\ call \in Retry
  BY <1>1, Numbers, OperationsTyped, KindsOfCall DEF IInv
<1>3. /\ call.next \in 1 .. Len(queue) + 1 /\ Ordered(keep)
      /\ \A k \in DOMAIN keep : \E i \in 1 .. call.next - 1 : keep[k] = queue[i]
      /\ \A i \in 1 .. call.next - 1 : Kept(queue[i].id) \/ Failures(queue[i].id) # {}
  BY <1>1 DEF IInv, RetryBooked
<1>4. 1 .. call.next - 1 = DOMAIN queue
  BY <1>1, <1>2, <1>3
<1>5. \A k \in DOMAIN keep : \E i \in DOMAIN queue : keep[k] = queue[i]
  BY <1>3, <1>4
<1>6. keep \in Seq(Operation)
  BY <1>2 DEF Retry
<1>7. TypeOK'
  BY <1>1, <1>2, <1>6 DEF TypeOK
<1>8. Adds({})
  BY <1>1, <1>2, AddsNothing
<1>9. Chains' /\ RowsOfCalls' /\ CycleBooked' /\ ReturnedBooked'
  <2>1. call'.kind # "sync"
    BY <1>1 DEF NoCall
  <2> QED BY <1>1, <1>2, <1>8, <2>1, CyclesKept
<1>10. QueueBooked'
  <2>1. \A i \in DOMAIN queue : queue[i].id <= calls /\ Counted(queue[i], tried[queue[i].id])
    BY DEF IInv, QueueBooked
  <2>2. ASSUME NEW k \in DOMAIN keep
        PROVE  keep[k].id <= calls /\ Counted(keep[k], tried[keep[k].id])
    BY <1>5, <2>1
  <2> QED BY <1>1, <1>3, <2>2 DEF QueueBooked
<1>11. RetryBooked'
  BY <1>1 DEF RetryBooked, NoCall
<1>12. NothingDropped'
  <2> SUFFICES ASSUME NEW id \in queued
               PROVE  (\E k \in DOMAIN keep : keep[k].id = id) \/ Failures(id) # {}
    BY <1>1 DEF NothingDropped, Failures
  <2>1. CASE Failures(id) # {}
    BY <2>1
  <2>2. CASE Failures(id) = {}
    <3>1. PICK i \in DOMAIN queue : queue[i].id = id
      BY <2>2 DEF IInv, NothingDropped
    <3>2. Kept(id)
      BY <1>3, <1>4, <2>2, <3>1
    <3> QED BY <3>2 DEF Kept
  <2> QED BY <2>1, <2>2
<1>13. TriedBooked'
  BY <1>1, <1>2, <1>8, TriedKept DEF IInv
<1> QED BY <1>7, <1>9, <1>10, <1>11, <1>12, <1>13 DEF IInv

\* A restart keeps the invariant: what was in memory owes nothing any more.
LEMMA RestartIInv ==
  ASSUME IInv, Restart
  PROVE  IInv'
<1>1. /\ call' = NoCall /\ queue' = <<>> /\ unflushed' = <<>> /\ queued' = {}
      /\ UNCHANGED <<history, calls, clock, log, returned, tried, refusals>>
  BY DEF Restart
<1>2. TypeOK /\ calls \in Nat
  BY Numbers DEF IInv
<1>3. TypeOK'
  BY <1>1, <1>2, EmptySeq DEF TypeOK
<1>4. Adds({})
  BY <1>1, <1>2, AddsForgetting
<1>5. call'.kind \notin {"sync", "retry"}
  BY <1>1 DEF NoCall
<1>6. Chains' /\ RowsOfCalls' /\ CycleBooked' /\ ReturnedBooked'
  BY <1>1, <1>2, <1>4, <1>5, CyclesKept
<1>7. QueueBooked' /\ RetryBooked' /\ NothingDropped'
  BY <1>1, <1>5, EmptySeq DEF QueueBooked, Ordered, RetryBooked, NothingDropped
<1>8. TriedBooked'
  BY <1>1, <1>2, <1>4, TriedKept DEF IInv
<1> QED BY <1>3, <1>6, <1>7, <1>8 DEF IInv

-----------------------------------------------------------------------------
(* The theorems. *)

\* The daemon starts with the invariant.
LEMMA InitIInv == Init => IInv
<1> SUFFICES ASSUME Init
             PROVE  IInv
  OBVIOUS
<1>1. /\ calls = 0 /\ call = NoCall /\ queue = <<>> /\ log = <<>> /\ unflushed = <<>>
      /\ clock = 1 /\ returned = None /\ queued = {} /\ refusals = 0
      /\ tried = [i \in CallIds |-> <<>>]
  BY DEF Init
<1>2. call.kind \notin {"sync", "retry"} /\ DOMAIN <<>> = {} /\ Len(<<>>) = 0
  BY <1>1, EmptySeq DEF NoCall
<1>3. TypeOK
  <2>1. 1 \in Time /\ 0 \in 0 .. MaxRefusals /\ 0 \in 0 .. MaxCalls
    BY EngineAssumption DEF EngineAssumption, Time
  <2>2. tried \in [CallIds -> Seq(Time)]
    BY <1>1, EmptySeq
  <2> QED BY <1>1, <2>1, <2>2, EmptySeq DEF TypeOK
<1>4. Chains
  <2> DEFINE Entry == [version : Versions, parent : Versions \cup {None}]
             First == {<<[version |-> v, parent |-> None]>> : v \in Contexts \X {1}}
  <2>1. Contexts \X {1} \subseteq Versions
    BY EngineAssumption DEF EngineAssumption, Versions
  <2>2. \A v \in Versions : <<[version |-> v, parent |-> None]>> \in Seq(Entry)
    OBVIOUS
  <2>3. {<<>>} \cup First \subseteq Seq(Entry)
    BY <2>1, <2>2, EmptySeq
  <2>4. history \in [Contexts -> {<<>>} \cup First]
    BY DEF Init
  <2> HIDE DEF Entry, First
  <2>5. history \in [Contexts -> Seq(Entry)]
    BY <2>3, <2>4
  <2> QED BY <2>5 DEF Chains, Entry
<1>5. RowsOfCalls /\ CycleBooked /\ ReturnedBooked
  BY <1>1, <1>2 DEF RowsOfCalls, CycleBooked, ReturnedBooked
<1>6. QueueBooked /\ RetryBooked /\ NothingDropped
  BY <1>1, <1>2 DEF QueueBooked, Ordered, RetryBooked, NothingDropped
<1>7. \A id : Failures(id) = {} /\ ~Doomed(id)
  BY <1>1, <1>2 DEF Failures, Doomed, Places
<1>8. TriedBooked
  <2>1. \A id \in CallIds : tried[id] = <<>>
    BY <1>1
  <2>2. 1 .. Len(<<>>) - 1 = {}
    BY <1>2
  <2> QED BY <1>7, <2>1, <2>2 DEF TriedBooked
<1> QED BY <1>3, <1>4, <1>5, <1>6, <1>8 DEF IInv

\* Every step keeps the invariant.
LEMMA NextIInv == IInv /\ [Next]_vars => IInv'
<1> SUFFICES ASSUME IInv, [Next]_vars
             PROVE  IInv'
  OBVIOUS
<1>1. CASE UNCHANGED vars
  <2>1. UNCHANGED <<history, calls, clock, call, queue, log, unflushed,
                    returned, queued, tried, refusals>>
    BY <1>1 DEF vars, engine
  <2>2. TypeOK' /\ Chains' /\ RowsOfCalls'
    BY <2>1 DEF IInv, TypeOK, Chains, RowsOfCalls
  <2>3. CycleBooked' /\ ReturnedBooked'
    BY <2>1 DEF IInv, CycleBooked, ReturnedBooked, Absent, Told, Places
  <2>4. QueueBooked' /\ RetryBooked' /\ NothingDropped'
    BY <2>1 DEF IInv, QueueBooked, RetryBooked, Kept, Failures, NothingDropped
  <2>5. TriedBooked'
    BY <2>1 DEF IInv, TriedBooked, Doomed, Places
  <2> QED BY <2>2, <2>3, <2>4, <2>5 DEF IInv
<1>2. CASE StoreChanges \/ Tick \/ RejectSync
  BY <1>2, AsideIInv
<1>3. CASE SessionChanges
  BY <1>3, SessionIInv
<1>4. CASE Restart
  BY <1>4, RestartIInv
<1>5. CASE \E S \in SUBSET Contexts : \E offer \in Offered(S) : BeginSync(offer)
  BY <1>5, BeginSyncIInv
<1>6. CASE Summarise
  BY <1>6, SummariseIInv
<1>7. CASE Compare \/ \E c \in Contexts : NextUnknown(c)
  BY <1>7, ComparesIInv
<1>8. CASE \E c \in Contexts : NextKnown(c)
  BY <1>8, NextKnownIInv
<1>9. CASE ReadRefused
  BY <1>9, ReadRefusedIInv
<1>10. CASE EndSync
  BY <1>10, EndSyncIInv
<1>11. CASE queue_pending
  BY <1>11, QueuePendingIInv
<1>12. CASE BeginRetry
  BY <1>12, BeginRetryIInv
<1>13. CASE Exhaust
  BY <1>13, ExhaustIInv
<1>14. CASE Wait
  BY <1>14, WaitIInv
<1>15. CASE Attempt
  BY <1>15, AttemptIInv
<1>16. CASE EndRetry
  BY <1>16, EndRetryIInv
<1> QED BY <1>1, <1>2, <1>3, <1>4, <1>5, <1>6, <1>7, <1>8, <1>9, <1>10, <1>11,
           <1>12, <1>13, <1>14, <1>15, <1>16 DEF Next

\* The invariant holds in every behaviour.
THEOREM Invariance == Spec => []IInv
BY InitIInv, NextIInv, PTL DEF Spec

\* The variables have their types.
THEOREM TypeCorrect == Spec => []TypeOK
<1>1. IInv => TypeOK
  BY DEF IInv
<1> QED BY <1>1, Invariance, PTL

\* Of a cycle that returned, the log says what its caller was told: each of
\* the peer's contexts in one row, accepted or in conflict, whatever the store
\* and the session did in between (sync_with_peer).
THEOREM ReturnedIsLogged == Spec => []ReturnedCycleIsLogged
<1>1. IInv => ReturnedCycleIsLogged
  <2> SUFFICES ASSUME IInv, returned # None
               PROVE  ReturnedCycleIsLogged
    BY DEF ReturnedCycleIsLogged
  <2>1. /\ returned.accepted \cup returned.conflicts = DOMAIN returned.offer
        /\ returned.accepted \cap returned.conflicts = {}
        /\ \A c \in DOMAIN returned.offer : Told(log, returned.id, c, returned.accepted)
    BY DEF IInv, ReturnedBooked
  <2>2. \A id, c : Rows(id, c) = Places(log, Rowed(id, c))
    BY SameRows DEF IInv
  <2>3. \A c \in DOMAIN returned.offer : \E i \in DOMAIN log :
            /\ Rows(returned.id, c) = {i}
            /\ log[i].status = IF c \in returned.accepted THEN "success" ELSE "conflict"
    BY <2>1, <2>2 DEF Told
  <2> QED BY <2>1, <2>3 DEF ReturnedCycleIsLogged
<1> QED BY <1>1, Invariance, PTL

\* An operation queued since the start is in the queue or logged as failed,
\* also after a retry that raised halfway (retry_pending).
THEOREM NothingIsDropped == Spec => []NothingDropped
<1>1. IInv => NothingDropped
  BY DEF IInv
<1> QED BY <1>1, Invariance, PTL

\* An operation logged as failed was attempted max_retries times, and none of
\* the attempts came before its backoff (get_backoff_delay, retry_pending).
THEOREM BackoffKept == Spec => []FailedAfterBackoff
<1>1. IInv => FailedAfterBackoff
  <2> SUFFICES ASSUME IInv, NEW id \in CallIds, Failures(id) # {}
               PROVE  /\ Len(tried[id]) = MaxRetries
                      /\ \A n \in 1 .. MaxRetries - 1 :
                            tried[id][n + 1] - tried[id][n] >= Base ^ n
    BY DEF FailedAfterBackoff
  <2>1. Doomed(id)
    BY SameRows DEF IInv, Doomed
  <2> QED BY <2>1 DEF IInv, TriedBooked
<1> QED BY <1>1, Invariance, PTL

-----------------------------------------------------------------------------
(* Rows of cycles, those of the cycles that raised included. *)

\* At most one row in R, of those in s and in t together.
Once(s, t, R) ==
    /\ \A i, j \in Places(s, R) : i = j
    /\ \A i, j \in Places(t, R) : i = j
    /\ Places(s, R) = {} \/ Places(t, R) = {}

\* Of each cycle and context one row, committed or waiting in the session.
RowsOnce ==
    \A id \in CallIds, c \in Contexts : Once(log, unflushed, Rowed(id, c))

\* A commit of the rows that wait adds none.
LEMMA OnceJoined ==
  ASSUME NEW s \in Seq(Row), NEW t \in Seq(Row), NEW R, Once(s, t, R)
  PROVE  Once(s \o t, <<>>, R)
<1>1. /\ Places(s \o t, R) = Places(s, R) \cup {Len(s) + j : j \in Places(t, R)}
      /\ Places(<<>>, R) = {}
  BY PlacesJoined DEF Places
<1> QED BY <1>1 DEF Once

\* A row behind rows that have none like it.
LEMMA OnceAppended ==
  ASSUME NEW s \in Seq(Row), NEW r \in Row, NEW R,
         \A i, j \in Places(s, R) : i = j, r \in R => Places(s, R) = {}
  PROVE  \A i, j \in Places(Append(s, r), R) : i = j
BY PlacesAppended

\* A row that is written, or waits after a refused commit, is the first of its
\* kind.
LEMMA OnceWritten ==
  ASSUME TypeOK, NEW R, NEW row \in Row, Once(log, unflushed, R),
         row \in R => Places(log, R) = {} /\ Places(unflushed, R) = {},
         WriteSyncLog(row) \/ LogRefused(row)
  PROVE  Once(log', unflushed', R)
<1>1. log \in Seq(Row) /\ unflushed \in Seq(Row)
  BY DEF TypeOK
<1>2. CASE WriteSyncLog(row)
  <2> DEFINE joined == log \o unflushed
  <2>1. /\ joined \in Seq(Row) /\ log' = Append(joined, row) /\ unflushed' = <<>>
    BY <1>1, <1>2, ConcatProperties, AppendIsConcat DEF WriteSyncLog
  <2>2. /\ Once(joined, <<>>, R)
        /\ Places(joined, R) = Places(log, R) \cup {Len(log) + j : j \in Places(unflushed, R)}
    BY <1>1, OnceJoined, PlacesJoined
  <2> HIDE DEF joined
  <2>3. /\ \A i, j \in Places(joined, R) : i = j
        /\ row \in R => Places(joined, R) = {}
    BY <2>2 DEF Once
  <2>4. \A i, j \in Places(Append(joined, row), R) : i = j
    BY <2>1, <2>3, OnceAppended
  <2>5. Places(<<>>, R) = {}
    BY DEF Places
  <2> QED BY <2>1, <2>4, <2>5 DEF Once
<1>3. CASE LogRefused(row)
  <2>1. log' = log /\ unflushed' = Append(unflushed, row)
    BY <1>3 DEF LogRefused
  <2>2. \A i, j \in Places(Append(unflushed, row), R) : i = j
    BY <1>1, OnceAppended DEF Once
  <2>3. Places(Append(unflushed, row), R) =
            Places(unflushed, R) \cup (IF row \in R THEN {Len(unflushed) + 1} ELSE {})
    BY <1>1, PlacesAppended
  <2>4. Once(log, Append(unflushed, row), R)
    BY <1>1, <2>2, <2>3 DEF Once
  <2> QED BY <2>1, <2>4
<1> QED BY <1>2, <1>3

\* Every step keeps the rows of cycles single: a cycle writes of a context it
\* has not written of, and nothing else writes of contexts.
LEMMA NextOnce == IInv /\ RowsOnce /\ [Next]_vars => RowsOnce'
<1> SUFFICES ASSUME IInv, RowsOnce, [Next]_vars,
                    NEW id \in CallIds, NEW c \in Contexts
             PROVE  Once(log', unflushed', Rowed(id, c))
  BY DEF RowsOnce
<1>1. TypeOK /\ Once(log, unflushed, Rowed(id, c)) /\ None \notin Contexts
  BY EngineAssumption DEF IInv, RowsOnce, EngineAssumption
<1>2. CASE UNCHANGED <<log, unflushed>>
  BY <1>1, <1>2
<1>3. CASE log' \in {log, log \o unflushed} /\ unflushed' = <<>>
  <2>1. log \in Seq(Row) /\ unflushed \in Seq(Row)
    BY <1>1 DEF TypeOK
  <2>2. Places(<<>>, Rowed(id, c)) = {}
    BY DEF Places
  <2>3. CASE log' = log
    BY <1>1, <1>3, <2>2, <2>3 DEF Once
  <2>4. CASE log' = log \o unflushed
    BY <1>1, <1>3, <2>1, <2>4, OnceJoined
  <2> QED BY <1>3, <2>3, <2>4
<1>4. ASSUME NEW d \in call.todo, NEW status \in {"success", "conflict"},
             call.kind = "sync", Note(d, status)
      PROVE  Once(log', unflushed', Rowed(id, c))
  <2> DEFINE row == [call |-> call.id, ctx |-> d, status |-> status]
  <2>1. call \in Cycle
    BY <1>1, <1>4, KindsOfCall
  <2>2. row \in Row
    BY <2>1 DEF Cycle, Row
  <2>3. WriteSyncLog(row) \/ LogRefused(row)
    BY <1>4 DEF Note
  <2>4. row.call = call.id /\ row.ctx = d
    OBVIOUS
  <2> HIDE DEF row
  <2>5. row \in Rowed(id, c) =>
            Places(log, Rowed(id, c)) = {} /\ Places(unflushed, Rowed(id, c)) = {}
    BY <1>4, <2>4 DEF IInv, CycleBooked, Absent, Rowed
  <2> QED BY <1>1, <2>2, <2>3, <2>5, OnceWritten
<1>5. ASSUME NEW row \in Row, row.ctx = None, WriteSyncLog(row) \/ LogRefused(row)
      PROVE  Once(log', unflushed', Rowed(id, c))
  <2>1. row \notin Rowed(id, c)
    BY <1>1, <1>5 DEF Rowed
  <2> QED BY <1>1, <1>5, <2>1, OnceWritten
<1>6. CASE \/ UNCHANGED vars \/ StoreChanges \/ Tick \/ RejectSync \/ Summarise
           \/ ReadRefused \/ EndSync \/ BeginRetry \/ Wait \/ Attempt \/ EndRetry
           \/ \E S \in SUBSET Contexts : \E offer \in Offered(S) : BeginSync(offer)
           \/ \E d \in Contexts : NextKnown(d)
  <2>1. UNCHANGED <<log, unflushed>>
    BY <1>6 DEF vars, engine, StoreChanges, Tick, RejectSync, Summarise, ReadRefused,
                EndSync, BeginRetry, Wait, Attempt, EndRetry, BeginSync, NextKnown
  <2> QED BY <1>2, <2>1
<1>7. CASE SessionChanges \/ Restart
  BY <1>3, <1>7 DEF SessionChanges, Restart
<1>8. CASE Compare
  <2> DEFINE status == IF InConflict(call.ctx) THEN "conflict" ELSE "success"
  <2>1. call.ctx \in call.todo /\ status \in {"success", "conflict"}
    BY <1>8 DEF Compare, IInv, CycleBooked
  <2>2. call.kind = "sync" /\ Note(call.ctx, status)
    BY <1>8 DEF Compare
  <2> HIDE DEF status
  <2> QED BY <1>4, <2>1, <2>2
<1>9. CASE \E d \in Contexts : NextUnknown(d)
  BY <1>4, <1>9 DEF NextUnknown
<1>10. CASE queue_pending
  <2> DEFINE row == [call |-> calls + 1, ctx |-> None, status |-> "pending"]
  <2>1. row \in Row
    BY <1>1, <1>10, Numbers DEF queue_pending, CallIds, Row
  <2>2. WriteSyncLog(row) \/ LogRefused(row)
    BY <1>10 DEF queue_pending
  <2> QED BY <1>5, <2>1, <2>2
<1>11. CASE Exhaust
  <2> DEFINE row == [call |-> queue[call.next].id, ctx |-> None, status |-> "failed"]
  <2>1. WriteSyncLog(row) \/ LogRefused(row)
    BY <1>11 DEF Exhaust
  <2>2. row \in Row
    <3>1. call.next \in DOMAIN queue
      BY <1>11, AtOperationIds DEF Exhaust
    <3>2. queue[call.next].id \in CallIds
      BY <1>1, <3>1, OperationsTyped
    <3> QED BY <3>2 DEF Row
  <2> QED BY <1>5, <2>1, <2>2
<1> QED BY <1>6, <1>7, <1>8, <1>9, <1>10, <1>11 DEF Next

\* Whatever became of a cycle, each context is in the log at most once for it
\* (sync_with_peer).
THEOREM CyclesLoggedOnce == Spec => []CycleLoggedOnce
<1>1. Init => RowsOnce
  BY DEF Init, RowsOnce, Once, Places
<1>2. IInv /\ RowsOnce => CycleLoggedOnce
  <2> SUFFICES ASSUME IInv, RowsOnce, NEW i \in DOMAIN log, NEW j \in DOMAIN log,
                      log[i].ctx # None, log[i].call = log[j].call,
                      log[i].ctx = log[j].ctx
               PROVE  i = j
    BY DEF CycleLoggedOnce
  <2>1. log[i] \in Row /\ log[j] \in Row
    BY LenProperties, ElementOfSeq DEF IInv, TypeOK
  <2>2. log[i].call \in CallIds /\ log[i].ctx \in Contexts
    BY <2>1 DEF Row
  <2>3. {i, j} \subseteq Places(log, Rowed(log[i].call, log[i].ctx))
    BY <2>1 DEF Places, Rowed
  <2> QED BY <2>2, <2>3 DEF RowsOnce, Once
<1> QED BY <1>1, <1>2, NextOnce, Invariance, PTL DEF Spec

-----------------------------------------------------------------------------
(* How often a failure is logged. *)

\* The rows that say of operation id that it failed, committed or waiting.
FailCount(id) ==
    Cardinality(Places(log, Failed(id))) + Cardinality(Places(unflushed, Failed(id)))

\* The retry in progress, or the next one, may write such a row.
Due(id) ==
    \E j \in DOMAIN queue :
        queue[j].id = id /\ (call.kind = "retry" => j >= call.next \/ Kept(id))

\* One row that no refusal accounts for at most, and that only when the
\* operation will not be looked at again.
FailuresCounted ==
    \A id \in CallIds :
        /\ FailCount(id) <= 1 + refusals
        /\ Due(id) => FailCount(id) <= refusals

\* Places are finitely many.
LEMMA PlacesFinite ==
  ASSUME NEW s \in Seq(Row), NEW R
  PROVE  /\ IsFiniteSet(Places(s, R)) /\ Cardinality(Places(s, R)) \in Nat
         /\ Places(<<>>, R) = {} /\ Cardinality(Places(<<>>, R)) = 0
<1>1. DOMAIN s = 1 .. Len(s) /\ Len(s) \in Int
  BY LenProperties
<1>2. IsFiniteSet(DOMAIN s)
  BY <1>1, FS_Interval
<1>3. Places(s, R) \in SUBSET (DOMAIN s)
  BY DEF Places
<1>4. IsFiniteSet(Places(s, R))
  BY <1>2, <1>3, FS_Subset
<1>5. Places(<<>>, R) = {}
  BY DEF Places
<1> QED BY <1>4, <1>5, FS_CardinalityType, FS_EmptySet

\* A commit of the rows that wait makes no more of them.
LEMMA CountJoined ==
  ASSUME NEW s \in Seq(Row), NEW t \in Seq(Row), NEW R
  PROVE  Cardinality(Places(s \o t, R)) <= Cardinality(Places(s, R)) + Cardinality(Places(t, R))
<1> DEFINE S == Places(s, R)
           T == Places(t, R)
           moved == {Len(s) + j : j \in T}
           move == [j \in T |-> Len(s) + j]
<1>1. IsFiniteSet(S) /\ IsFiniteSet(T) /\ Cardinality(S) \in Nat /\ Cardinality(T) \in Nat
  BY PlacesFinite
<1>2. move \in Surjection(T, moved)
  BY DEF Surjection
<1>3. IsFiniteSet(moved) /\ Cardinality(moved) <= Cardinality(T)
  <2> HIDE DEF T, moved, move
  <2> QED BY <1>1, <1>2, FS_Surjection
<1>4. Places(s \o t, R) = S \cup moved
  BY PlacesJoined
<1> HIDE DEF S, T, moved
<1>5. /\ Cardinality(S \cup moved) = Cardinality(S) + Cardinality(moved)
                - Cardinality(S \cap moved)
      /\ IsFiniteSet(S \cap moved)
  BY <1>1, <1>3, FS_Union, FS_Subset
<1>6. Cardinality(moved) \in Nat /\ Cardinality(S \cap moved) \in Nat
  BY <1>3, <1>5, FS_CardinalityType
<1>7. Cardinality(S \cup moved) <= Cardinality(S) + Cardinality(T)
  BY <1>1, <1>3, <1>5, <1>6
<1> QED BY <1>4, <1>7 DEF S, T

\* A row more is one more at most.
LEMMA CountAppended ==
  ASSUME NEW s \in Seq(Row), NEW r \in Row, NEW R
  PROVE  Cardinality(Places(Append(s, r), R)) <=
            Cardinality(Places(s, R)) + (IF r \in R THEN 1 ELSE 0)
<1>1. IsFiniteSet(Places(s, R)) /\ Cardinality(Places(s, R)) \in Nat
  BY PlacesFinite
<1>2. Places(Append(s, r), R) =
            Places(s, R) \cup (IF r \in R THEN {Len(s) + 1} ELSE {})
  BY PlacesAppended
<1>3. CASE r \in R
  <2>1. Places(Append(s, r), R) = Places(s, R) \cup {Len(s) + 1}
    BY <1>2, <1>3
  <2>2. Cardinality(Places(s, R) \cup {Len(s) + 1}) <= Cardinality(Places(s, R)) + 1
    <3> DEFINE S == Places(s, R)
               x == Len(s) + 1
    <3>1. IsFiniteSet(S) /\ Cardinality(S) \in Nat
      BY <1>1
    <3> HIDE DEF S, x
    <3>2. Cardinality(S \cup {x}) = IF x \in S THEN Cardinality(S) ELSE Cardinality(S) + 1
      BY <3>1, FS_AddElement
    <3>3. Cardinality(S \cup {x}) <= Cardinality(S) + 1
      BY <3>1, <3>2
    <3> QED BY <3>3 DEF S, x
  <2> QED BY <1>3, <2>1, <2>2
<1>4. CASE r \notin R
  <2>1. Places(Append(s, r), R) = Places(s, R)
    BY <1>2, <1>4
  <2> QED BY <1>1, <1>4, <2>1
<1> QED BY <1>3, <1>4

\* What a step that writes row, or has its commit refused, adds.
LEMMA CountWritten ==
  ASSUME TypeOK, TypeOK', NEW row \in Row, WriteSyncLog(row) \/ LogRefused(row), NEW id
  PROVE  /\ FailCount(id) \in Nat /\ FailCount(id)' \in Nat
         /\ FailCount(id)' <= FailCount(id) + (IF row \in Failed(id) THEN 1 ELSE 0)
<1> DEFINE F == Failed(id)
           k == IF row \in F THEN 1 ELSE 0
<1>1. /\ log \in Seq(Row) /\ unflushed \in Seq(Row)
      /\ log' \in Seq(Row) /\ unflushed' \in Seq(Row)
  BY DEF TypeOK
<1>2. /\ Cardinality(Places(log, F)) \in Nat /\ Cardinality(Places(unflushed, F)) \in Nat
      /\ Cardinality(Places(log', F)) \in Nat /\ Cardinality(Places(unflushed', F)) \in Nat
  BY <1>1, PlacesFinite
<1>3. /\ FailCount(id) = Cardinality(Places(log, F)) + Cardinality(Places(unflushed, F))
      /\ FailCount(id)' = Cardinality(Places(log', F)) + Cardinality(Places(unflushed', F))
  BY DEF FailCount, Failed
<1>4. CASE WriteSyncLog(row)
  <2> DEFINE joined == log \o unflushed
  <2>1. /\ joined \in Seq(Row) /\ log' = Append(joined, row) /\ unflushed' = <<>>
    BY <1>1, <1>4, ConcatProperties, AppendIsConcat DEF WriteSyncLog
  <2>2. Cardinality(Places(joined, F)) <=
            Cardinality(Places(log, F)) + Cardinality(Places(unflushed, F))
    BY <1>1, CountJoined
  <2> HIDE DEF joined
  <2>3. Cardinality(Places(joined, F)) \in Nat /\ Cardinality(Places(unflushed', F)) = 0
    BY <2>1, PlacesFinite
  <2>4. Cardinality(Places(Append(joined, row), F)) <= Cardinality(Places(joined, F)) + k
    BY <2>1, CountAppended
  <2>5. Cardinality(Places(log', F)) <= Cardinality(Places(joined, F)) + k
    BY <2>1, <2>4
  <2>6. k \in Nat
    OBVIOUS
  <2> HIDE DEF F, k
  <2>7. FailCount(id)' <= FailCount(id) + k
    BY <1>2, <1>3, <2>2, <2>3, <2>5, <2>6
  <2> QED BY <1>2, <1>3, <2>7 DEF F, k
<1>5. CASE LogRefused(row)
  <2>1. log' = log /\ unflushed' = Append(unflushed, row)
    BY <1>5 DEF LogRefused
  <2>2. Cardinality(Places(Append(unflushed, row), F)) <= Cardinality(Places(unflushed, F)) + k
    BY <1>1, CountAppended
  <2>3. /\ Cardinality(Places(unflushed', F)) <= Cardinality(Places(unflushed, F)) + k
        /\ Cardinality(Places(log', F)) = Cardinality(Places(log, F))
    BY <2>1, <2>2
  <2>4. k \in Nat
    OBVIOUS
  <2> HIDE DEF F, k
  <2>5. FailCount(id)' <= FailCount(id) + k
    BY <1>2, <1>3, <2>3, <2>4
  <2> QED BY <1>2, <1>3, <2>5 DEF F, k
<1> QED BY <1>4, <1>5

\* A commit, a rollback or a restart adds none.
LEMMA CountKept ==
  ASSUME TypeOK, TypeOK', NEW id,
         \/ UNCHANGED <<log, unflushed>>
         \/ log' \in {log, log \o unflushed} /\ unflushed' = <<>>
  PROVE  /\ FailCount(id) \in Nat /\ FailCount(id)' \in Nat
         /\ FailCount(id)' <= FailCount(id)
<1> DEFINE F == Failed(id)
<1>1. /\ log \in Seq(Row) /\ unflushed \in Seq(Row)
      /\ log' \in Seq(Row) /\ unflushed' \in Seq(Row)
  BY DEF TypeOK
<1>2. /\ Cardinality(Places(log, F)) \in Nat /\ Cardinality(Places(unflushed, F)) \in Nat
      /\ Cardinality(Places(log', F)) \in Nat /\ Cardinality(Places(unflushed', F)) \in Nat
  BY <1>1, PlacesFinite
<1>3. /\ FailCount(id) = Cardinality(Places(log, F)) + Cardinality(Places(unflushed, F))
      /\ FailCount(id)' = Cardinality(Places(log', F)) + Cardinality(Places(unflushed', F))
  BY DEF FailCount, Failed
<1>4. CASE UNCHANGED <<log, unflushed>>
  <2>1. FailCount(id)' = FailCount(id)
    BY <1>3, <1>4
  <2> QED BY <1>2, <1>3, <2>1
<1>5. CASE log' \in {log, log \o unflushed} /\ unflushed' = <<>>
  <2>1. Cardinality(Places(<<>>, F)) = 0
    BY <1>1, PlacesFinite
  <2>2. Cardinality(Places(log \o unflushed, F)) <=
            Cardinality(Places(log, F)) + Cardinality(Places(unflushed, F))
    BY <1>1, CountJoined
  <2>3. Cardinality(Places(unflushed', F)) = 0
    BY <1>5, <2>1
  <2> HIDE DEF F
  <2>4. Cardinality(Places(log', F)) <=
            Cardinality(Places(log, F)) + Cardinality(Places(unflushed, F))
    <3>1. CASE log' = log
      <4>1. Cardinality(Places(log', F)) = Cardinality(Places(log, F))
        BY <3>1
      <4> QED BY <1>2, <4>1
    <3>2. CASE log' = log \o unflushed
      BY <2>2, <3>2
    <3> QED BY <1>5, <3>1, <3>2
  <2> QED BY <1>2, <1>3, <2>3, <2>4
<1> QED BY <1>4, <1>5

\* A step that adds no such row, and makes no operation due again unless a
\* session call is refused in it.
LEMMA CountFrame ==
  ASSUME TypeOK, TypeOK', NEW id, refusals <= refusals',
         FailCount(id) \in Nat, FailCount(id)' \in Nat,
         FailCount(id)' <= FailCount(id),
         FailCount(id) <= 1 + refusals,
         Due(id) => FailCount(id) <= refusals,
         Due(id)' => Due(id) \/ refusals + 1 <= refusals'
  PROVE  /\ FailCount(id)' <= 1 + refusals'
         /\ Due(id)' => FailCount(id)' <= refusals'
<1>1. refusals \in Nat /\ refusals' \in Nat
  BY EngineAssumption DEF TypeOK, EngineAssumption
<1> QED BY <1>1

\* Steps that are none of a retry leave due what was.
LEMMA DueAside ==
  ASSUME NEW id, queue' = queue,
         call' = call \/ (call.kind # "retry" /\ call'.kind # "retry")
  PROVE  Due(id)' => Due(id)
BY DEF Due, Kept

\* Steps of a retry, and its end, make nothing due that was not.
LEMMA DueInRetry ==
  ASSUME IInv, Wait \/ Attempt \/ BeginRetry \/ EndRetry, NEW id
  PROVE  Due(id)' => Due(id)
<1>1. CASE BeginRetry
  <2>1. call.kind # "retry" /\ queue' = queue
    BY <1>1 DEF BeginRetry, NoCall
  <2> QED BY <2>1 DEF Due
<1>2. CASE EndRetry
  <2>1. call.kind = "retry" /\ queue' = call.keep
    BY <1>2 DEF EndRetry
  <2>2. \A k \in DOMAIN call.keep : \E i \in DOMAIN queue : call.keep[k] = queue[i]
    <3>1. /\ call.next \in 1 .. Len(queue) + 1
          /\ \A k \in DOMAIN call.keep : \E i \in 1 .. call.next - 1 : call.keep[k] = queue[i]
      BY <2>1 DEF IInv, RetryBooked
    <3>2. DOMAIN queue = 1 .. Len(queue) /\ Len(queue) \in Nat
      BY OperationsTyped DEF IInv
    <3>3. 1 .. call.next - 1 \subseteq DOMAIN queue
      BY <3>1, <3>2
    <3> QED BY <3>1, <3>3
  <2>3. SUFFICES ASSUME NEW k \in DOMAIN call.keep, call.keep[k].id = id
                 PROVE  Due(id)
    BY <2>1 DEF Due
  <2>4. Kept(id) /\ \E i \in DOMAIN queue : queue[i].id = id
    BY <2>2, <2>3 DEF Kept
  <2> QED BY <2>4 DEF Due
<1>3. CASE Wait \/ Attempt
  <2>1. AtOperation
    BY <1>3 DEF Wait, Attempt
  <2>2. /\ call \in Retry /\ call.kind = "retry" /\ call.next \in DOMAIN queue
        /\ call.next \in Nat /\ call.keep \in Seq(Operation)
        /\ DOMAIN queue = 1 .. Len(queue) /\ Len(queue) \in Nat
    BY <2>1, AtOperationIds
  <2>3. PICK op : /\ call' = [call EXCEPT !.next = @ + 1, !.keep = Append(@, op)]
                  /\ op.id = queue[call.next].id /\ op \in Operation
                  /\ DOMAIN queue' = DOMAIN queue
                  /\ \A i \in DOMAIN queue : queue'[i].id = queue[i].id
    <3>1. queue \in Seq(Operation) /\ \A i \in DOMAIN queue : queue[i] \in Operation
      BY OperationsTyped DEF IInv, TypeOK
    <3>2. CASE Wait
      BY <2>2, <3>1, <3>2 DEF Wait, Keep
    <3>3. CASE Attempt
      <4> DEFINE op == queue[call.next]
                 again == [op EXCEPT !.attempts = @ + 1, !.last_attempt = clock]
      <4>1. /\ op \in Operation /\ op.attempts \in Nat /\ op.attempts < MaxRetries
            /\ op.attempts \in 0 .. MaxRetries /\ clock \in Time
            /\ queue' = [queue EXCEPT ![call.next] = again]
            /\ call' = [call EXCEPT !.next = @ + 1, !.keep = Append(@, again)]
        <5>1. TypeOK /\ clock \in Time
          BY DEF IInv, TypeOK
        <5>2. op \in Operation /\ op.attempts \in 0 .. MaxRetries
          BY <2>2, <5>1, OperationsTyped
        <5>3. op.attempts \in Nat
          BY <5>2, EngineAssumption DEF EngineAssumption
        <5>4. /\ op.attempts < MaxRetries
              /\ queue' = [queue EXCEPT ![call.next] = again]
              /\ call' = [call EXCEPT !.next = @ + 1, !.keep = Append(@, again)]
          BY <3>3 DEF Attempt, Keep
        <5> QED BY <5>1, <5>2, <5>3, <5>4
      <4>2. op = queue[call.next]
        OBVIOUS
      <4> HIDE DEF op
      <4>3. again \in Operation /\ again.id = op.id
        <5>1. op \in Operation /\ clock \in Time /\ op.attempts + 1 \in 0 .. MaxRetries
          BY <4>1, EngineAssumption DEF EngineAssumption
        <5> QED BY <5>1 DEF Operation
      <4> HIDE DEF again
      <4> QED BY <2>2, <3>1, <4>1, <4>2, <4>3
    <3> QED BY <1>3, <3>2, <3>3
  <2>4. call'.kind = "retry" /\ call'.next = call.next + 1
        /\ call'.keep = Append(call.keep, op)
    BY <2>2, <2>3 DEF Retry
  <2>5. \A k \in DOMAIN call'.keep :
            call'.keep[k] = op \/ (k \in DOMAIN call.keep /\ call'.keep[k] = call.keep[k])
    BY <2>2, <2>3, <2>4, AppendProperties, LenProperties
  <2>6. Kept(id)' => Kept(id) \/ queue[call.next].id = id
    BY <2>3, <2>5 DEF Kept
  <2>7. queue[call.next].id = id => Due(id)
    BY <2>2 DEF Due
  <2>8. ASSUME NEW j \in DOMAIN queue, queue[j].id = id, j >= call'.next \/ Kept(id)'
        PROVE  Due(id)
    <3>1. j \in Nat /\ (j >= call.next + 1 => j >= call.next)
      BY <2>2
    <3> QED BY <2>4, <2>6, <2>7, <2>8, <3>1 DEF Due
  <2> QED BY <2>3, <2>4, <2>8 DEF Due
<1> QED BY <1>1, <1>2, <1>3

\* The retry writes of the operation it is at: the row is one of an operation
\* that was due, and is no longer if the row could be written.
LEMMA CountExhausted ==
  ASSUME IInv, TypeOK', FailuresCounted, Exhaust, NEW id \in CallIds
  PROVE  /\ FailCount(id)' <= 1 + refusals'
         /\ Due(id)' => FailCount(id)' <= refusals'
<1> DEFINE n == call.next
           row == [call |-> queue[n].id, ctx |-> None, status |-> "failed"]
<1>1. /\ call \in Retry /\ call.kind = "retry" /\ n \in DOMAIN queue /\ n \in Nat
      /\ \A i \in DOMAIN queue : i \in Nat
      /\ \A i, j \in DOMAIN queue : queue[i].id = queue[j].id => i = j
      /\ \A k \in DOMAIN call.keep : \E i \in 1 .. n - 1 :
            i \in DOMAIN queue /\ call.keep[k] = queue[i]
  BY AtOperationIds DEF Exhaust
<1>2. TypeOK /\ queue[n].id \in CallIds /\ row \in Row
  <2>1. TypeOK /\ queue[n].id \in CallIds
    BY <1>1, OperationsTyped DEF IInv
  <2> QED BY <2>1 DEF Row
<1>3. row \in Failed(id) => queue[n].id = id
  BY DEF Failed
<1>4. /\ WriteSyncLog(row) \/ LogRefused(row)
      /\ queue' = queue
      /\ \/ call' = [call EXCEPT !.next = @ + 1] /\ refusals' = refusals
         \/ refusals' = refusals + 1
  BY DEF Exhaust, WriteSyncLog, LogRefused, Refusal
<1> HIDE DEF row
<1>5. /\ FailCount(id) \in Nat /\ FailCount(id)' \in Nat
      /\ FailCount(id)' <= FailCount(id) + (IF row \in Failed(id) THEN 1 ELSE 0)
  BY <1>2, <1>4, CountWritten
<1>6. /\ FailCount(id) <= 1 + refusals
      /\ Due(id) => FailCount(id) <= refusals
      /\ refusals \in Nat /\ refusals' \in Nat
  BY <1>2, EngineAssumption DEF FailuresCounted, TypeOK, EngineAssumption
<1>7. queue[n].id = id => Due(id)
  BY <1>1 DEF Due
<1>8. CASE queue[n].id = id
  <2>1. FailCount(id)' <= 1 + refusals
    BY <1>5, <1>6, <1>7, <1>8
  <2>2. CASE refusals' = refusals + 1
    BY <1>5, <1>6, <2>1, <2>2
  <2>3. CASE call' = [call EXCEPT !.next = @ + 1] /\ refusals' = refusals
    <3>1. call'.kind = "retry" /\ call'.next = n + 1 /\ call'.keep = call.keep
      BY <1>1, <2>3 DEF Retry
    <3>2. ASSUME NEW k \in DOMAIN call.keep
          PROVE  call.keep[k].id # id
      <4>1. PICK i \in 1 .. n - 1 : i \in DOMAIN queue /\ call.keep[k] = queue[i]
        BY <1>1
      <4>2. i # n
        BY <1>1
      <4> QED BY <1>1, <1>8, <4>1, <4>2
    <3>3. \A j \in DOMAIN queue : queue[j].id = id => ~(j >= n + 1)
      BY <1>1, <1>8
    <3>4. ~Due(id)'
      BY <1>4, <3>1, <3>2, <3>3 DEF Due, Kept
    <3> QED BY <2>1, <2>3, <3>4
  <2> QED BY <1>4, <2>2, <2>3
<1>9. CASE queue[n].id # id
  <2>1. FailCount(id)' <= FailCount(id)
    BY <1>3, <1>5, <1>9
  <2>2. refusals <= refusals'
    BY <1>4, <1>6
  <2>3. Due(id)' => Due(id) \/ refusals + 1 <= refusals'
    <3>1. CASE call' = [call EXCEPT !.next = @ + 1]
      <4>1. call'.kind = "retry" /\ call'.next = n + 1 /\ call'.keep = call.keep
        BY <1>1, <3>1 DEF Retry
      <4>2. \A j \in DOMAIN queue : j >= n + 1 => j >= n
        BY <1>1
      <4> QED BY <1>4, <4>1, <4>2 DEF Due, Kept
    <3>2. CASE refusals' = refusals + 1
      BY <1>6, <3>2
    <3> QED BY <1>4, <3>1, <3>2
  <2> QED BY <1>2, <1>5, <1>6, <2>1, <2>2, <2>3, CountFrame
<1> QED BY <1>8, <1>9

\* Every step keeps the count.
LEMMA NextCounted == IInv /\ IInv' /\ FailuresCounted /\ [Next]_vars => FailuresCounted'
<1> SUFFICES ASSUME IInv, IInv', FailuresCounted, [Next]_vars, NEW id \in CallIds
             PROVE  /\ FailCount(id)' <= 1 + refusals'
                    /\ Due(id)' => FailCount(id)' <= refusals'
  BY DEF FailuresCounted
<1>1. /\ TypeOK /\ TypeOK' /\ refusals \in Nat /\ refusals' \in Nat
      /\ FailCount(id) <= 1 + refusals
      /\ Due(id) => FailCount(id) <= refusals
  <2>1. TypeOK /\ TypeOK'
    BY DEF IInv
  <2>2. refusals \in 0 .. MaxRefusals /\ refusals' \in 0 .. MaxRefusals
    BY <2>1 DEF TypeOK
  <2>3. refusals \in Nat /\ refusals' \in Nat
    BY <2>2, EngineAssumption DEF EngineAssumption
  <2> QED BY <2>1, <2>3 DEF FailuresCounted
<1>2. CASE Exhaust
  BY <1>1, <1>2, CountExhausted
<1>3. ASSUME NEW row \in Row, WriteSyncLog(row) \/ LogRefused(row), row.status # "failed",
             queue' = queue, call.kind # "retry", call'.kind # "retry"
      PROVE  /\ FailCount(id)' <= 1 + refusals'
             /\ Due(id)' => FailCount(id)' <= refusals'
  <2>1. row \notin Failed(id)
    BY <1>3 DEF Failed
  <2>2. FailCount(id) \in Nat /\ FailCount(id)' \in Nat /\ FailCount(id)' <= FailCount(id)
    BY <1>1, <1>3, <2>1, CountWritten
  <2>3. refusals <= refusals'
    BY <1>1, <1>3 DEF WriteSyncLog, LogRefused, Refusal
  <2>4. Due(id)' => Due(id)
    BY <1>3, DueAside
  <2> QED BY <1>1, <2>2, <2>3, <2>4, CountFrame
<1>4. ASSUME \/ UNCHANGED <<log, unflushed>>
             \/ log' \in {log, log \o unflushed} /\ unflushed' = <<>>,
             refusals <= refusals', Due(id)' => Due(id)
      PROVE  /\ FailCount(id)' <= 1 + refusals'
             /\ Due(id)' => FailCount(id)' <= refusals'
  BY <1>1, <1>4, CountKept, CountFrame
<1>5. CASE \/ UNCHANGED vars \/ StoreChanges \/ Tick \/ RejectSync \/ Summarise
           \/ ReadRefused \/ EndSync \/ SessionChanges
           \/ \E S \in SUBSET Contexts : \E offer \in Offered(S) : BeginSync(offer)
           \/ \E c \in Contexts : NextKnown(c)
  <2>1. /\ \/ UNCHANGED <<log, unflushed>>
           \/ log' \in {log, log \o unflushed} /\ unflushed' = <<>>
        /\ refusals' \in {refusals, refusals + 1} /\ queue' = queue
    BY <1>5 DEF vars, engine, StoreChanges, Tick, RejectSync, Summarise, ReadRefused,
                Refusal, EndSync, SessionChanges, BeginSync, NextKnown
  <2>2. call' = call \/ (call.kind # "retry" /\ call'.kind # "retry")
    <3>1. CASE UNCHANGED vars \/ StoreChanges \/ Tick \/ RejectSync \/ SessionChanges
      BY <3>1 DEF vars, engine, StoreChanges, Tick, RejectSync, SessionChanges
    <3>2. CASE ReadRefused \/ EndSync
      BY <3>2 DEF ReadRefused, Raise, EndSync, NoCall
    <3>3. CASE \E S \in SUBSET Contexts : \E offer \in Offered(S) : BeginSync(offer)
      BY <3>3 DEF BeginSync, NoCall
    <3>4. CASE Summarise
      <4>1. call \in Cycle
        BY <1>1, <3>4, KindsOfCall DEF Summarise
      <4> QED BY <3>4, <4>1 DEF Summarise, Cycle
    <3>5. CASE \E c \in Contexts : NextKnown(c)
      <4>1. call \in Cycle /\ call.kind = "sync"
        BY <1>1, <3>5, KindsOfCall DEF NextKnown
      <4>2. call' = NoCall \/ \E c, v : call' = [call EXCEPT !.at = "compare", !.ctx = c, !.local = v]
        BY <3>5 DEF NextKnown, Raise
      <4>3. CASE call' = NoCall
        BY <4>1, <4>3 DEF NoCall
      <4>4. ASSUME NEW c, NEW v, call' = [call EXCEPT !.at = "compare", !.ctx = c, !.local = v]
            PROVE  call'.kind = "sync"
        BY <4>1, <4>4 DEF Cycle
      <4> QED BY <4>1, <4>2, <4>3, <4>4
    <3> QED BY <1>5, <3>1, <3>2, <3>3, <3>4, <3>5
  <2>3. refusals <= refusals' /\ (Due(id)' => Due(id))
    BY <1>1, <2>1, <2>2, DueAside
  <2> QED BY <1>4, <2>1, <2>3
<1>6. CASE Wait \/ Attempt \/ BeginRetry \/ EndRetry
  <2>1. UNCHANGED <<log, unflushed, refusals>>
    BY <1>6 DEF Wait, Attempt, BeginRetry, EndRetry
  <2> QED BY <1>1, <1>4, <1>6, <2>1, DueInRetry
<1>7. CASE Restart
  <2>1. log' = log /\ unflushed' = <<>> /\ refusals' = refusals /\ queue' = <<>>
    BY <1>7 DEF Restart
  <2>2. ~Due(id)'
    BY <2>1 DEF Due
  <2> QED BY <1>1, <1>4, <2>1, <2>2
<1>8. ASSUME NEW c, NEW status \in {"success", "conflict"}, call.kind = "sync",
             c \in call.todo, Note(c, status), queue' = queue
      PROVE  /\ FailCount(id)' <= 1 + refusals'
             /\ Due(id)' => FailCount(id)' <= refusals'
  <2> DEFINE row == [call |-> call.id, ctx |-> c, status |-> status]
  <2>1. call \in Cycle
    BY <1>1, <1>8, KindsOfCall
  <2>2. row \in Row /\ row.status # "failed"
    BY <1>8, <2>1 DEF Cycle, Row
  <2>3. WriteSyncLog(row) \/ LogRefused(row)
    BY <1>8 DEF Note
  <2>4. call'.kind # "retry"
    <3>1. CASE call' = NoCall
      BY <3>1 DEF NoCall
    <3>2. CASE call' # NoCall
      <4>1. call' = [call EXCEPT !.at = "next", !.todo = @ \ {c}, !.local = None, !.ctx = None,
                !.accepted = IF status = "success" THEN @ \cup {c} ELSE @,
                !.conflicts = IF status = "conflict" THEN @ \cup {c} ELSE @]
        BY <1>8, <3>2 DEF Note, Raise
      <4> QED BY <1>8, <2>1, <4>1 DEF Cycle
    <3> QED BY <3>1, <3>2
  <2> QED BY <1>3, <1>8, <2>2, <2>3, <2>4
<1>9. CASE Compare
  <2> DEFINE status == IF InConflict(call.ctx) THEN "conflict" ELSE "success"
  <2>1. call.ctx \in call.todo /\ status \in {"success", "conflict"}
    BY <1>9 DEF Compare, IInv, CycleBooked
  <2>2. call.kind = "sync" /\ Note(call.ctx, status) /\ queue' = queue
    BY <1>9 DEF Compare
  <2> HIDE DEF status
  <2> QED BY <1>8, <2>1, <2>2
<1>10. CASE \E c \in Contexts : NextUnknown(c)
  BY <1>8, <1>10 DEF NextUnknown
<1>11. CASE queue_pending
  <2> DEFINE new == calls + 1
             row == [call |-> new, ctx |-> None, status |-> "pending"]
             op == [id |-> new, attempts |-> 0, last_attempt |-> 0]
  <2>1. /\ call = NoCall /\ call' = call /\ new \in CallIds /\ calls \in Nat
        /\ queue' = Append(queue, op) /\ (WriteSyncLog(row) \/ LogRefused(row))
    BY <1>1, <1>11, Numbers DEF queue_pending, CallIds
  <2>2. row \in Row /\ row \notin Failed(id)
    BY <2>1 DEF Row, Failed
  <2>3. FailCount(id) \in Nat /\ FailCount(id)' \in Nat /\ FailCount(id)' <= FailCount(id)
    BY <1>1, <2>1, <2>2, CountWritten
  <2>4. refusals <= refusals'
    BY <1>1, <2>1 DEF WriteSyncLog, LogRefused, Refusal
  <2>5. CASE id = new
    <3>1. Places(log, Failed(id)) = {} /\ Places(unflushed, Failed(id)) = {}
      <4>1. ~(id <= calls)
        BY <2>1, <2>5
      <4> QED BY <4>1 DEF IInv, RowsOfCalls, Places, Failed
    <3>2. FailCount(id) = 0
      BY <3>1, FS_EmptySet DEF FailCount
    <3> QED BY <1>1, <2>3, <3>2
  <2>6. CASE id # new
    <3>1. queue \in Seq(Operation) /\ Len(queue) \in Nat /\ DOMAIN queue = 1 .. Len(queue)
      BY <1>1, OperationsTyped DEF TypeOK
    <3>2. /\ DOMAIN Append(queue, op) = 1 .. Len(queue) + 1
          /\ \A j \in 1 .. Len(queue) : Append(queue, op)[j] = queue[j]
          /\ Append(queue, op)[Len(queue) + 1] = op
      <4>1. op \in Operation
        BY <1>1, <2>1, EngineAssumption DEF Operation, EngineAssumption, Time
      <4> HIDE DEF op
      <4> QED BY <3>1, <4>1, AppendProperties, LenProperties
    <3>3. op.id # id
      BY <2>6
    <3> HIDE DEF op
    <3>4. \A j \in DOMAIN queue' : queue'[j].id = id => j \in DOMAIN queue /\ queue[j].id = id
      BY <2>1, <3>1, <3>2, <3>3
    <3>5. Due(id)' => Due(id)
      BY <2>1, <3>4 DEF Due, NoCall
    <3> QED BY <1>1, <2>3, <2>4, <3>5, CountFrame
  <2> QED BY <2>5, <2>6
<1> QED BY <1>2, <1>5, <1>6, <1>7, <1>9, <1>10, <1>11 DEF Next

\* A failure is logged once, and once more at most for each session call that
\* was refused (retry_pending leaves it out of what it keeps).
THEOREM LoggedOnce == Spec => []FailureLoggedOnce
<1>1. Init => FailuresCounted
  <2> SUFFICES ASSUME Init, NEW id \in CallIds
               PROVE  FailCount(id) <= 1 + refusals /\ (Due(id) => FailCount(id) <= refusals)
    BY DEF FailuresCounted
  <2>1. log = <<>> /\ unflushed = <<>> /\ refusals = 0
    BY DEF Init
  <2>2. Places(log, Failed(id)) = {} /\ Places(unflushed, Failed(id)) = {}
    BY <2>1 DEF Places
  <2>3. FailCount(id) = 0
    BY <2>2, FS_EmptySet DEF FailCount
  <2> QED BY <2>1, <2>3
<1>2. IInv /\ FailuresCounted => FailureLoggedOnce
  <2> SUFFICES ASSUME IInv, FailuresCounted, NEW id \in CallIds
               PROVE  Cardinality(Failures(id)) <= 1 + refusals
    BY DEF FailureLoggedOnce
  <2>1. log \in Seq(Row) /\ unflushed \in Seq(Row) /\ refusals \in 0 .. MaxRefusals
    BY DEF IInv, TypeOK
  <2>2. /\ Cardinality(Places(log, Failed(id))) \in Nat
        /\ Cardinality(Places(unflushed, Failed(id))) \in Nat
    BY <2>1, PlacesFinite
  <2>3. Failures(id) = Places(log, Failed(id))
    BY SameRows DEF IInv
  <2>4. FailCount(id) <= 1 + refusals /\ refusals \in Nat
    BY <2>1, EngineAssumption DEF FailuresCounted, EngineAssumption
  <2> QED BY <2>2, <2>3, <2>4 DEF FailCount
<1> QED BY <1>1, <1>2, NextCounted, Invariance, PTL DEF Spec

=============================================================================
