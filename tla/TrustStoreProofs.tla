-------------------------- MODULE TrustStoreProofs --------------------------
(***************************************************************************)
(* Proofs about the Trust_Store, for any threads, devices and keys.        *)
(***************************************************************************)
EXTENDS TrustStore, TLAPS

-----------------------------------------------------------------------------
(* The inductive invariant. *)

\* What the step of a request says of the rest of it.
Proper(r) ==
    /\ r.step \in {"find_device", "add_device", "find_entry", "add_entry", "reload"}
        => r.op = "add"
    /\ r.step = "find_revoked" => r.op = "remove"
    /\ r.step = "set_mark" => r.op \in {"add", "remove"}
    /\ r.step = "idle" <=> r.op = None
    /\ r.op \in {"add", "remove"} <=> r.dev # None
    /\ r.step = "add_device" => r.key \in Keys
    /\ r.step # "idle" => r.out = "none"
    /\ r.sole => r.dev # None
Requests == \A t \in Threads : Proper(req[t])

\* One thread at most is inside commit(), and it is the committer.
OneCommitter == \A t \in Threads : At(t, "commit") <=> committer = t
CommitterKnown == committer # None => committer \in Threads

\* Between two transactions the connection sees what is on disk; inside one,
\* rows have only been added, and keys not changed.
Synced == committer = None => tables = disk
Grown ==
    \A d \in Devices :
        /\ disk.dev[d] # None => tables.dev[d] = disk.dev[d]
        /\ disk.trust[d] # None => tables.trust[d] # None

\* Marks are set on stored entries, and entries have their devices.
MarksStored ==
    /\ \A d \in Devices : pending.mark[d] # None => tables.trust[d] # None
    /\ \A t \in Threads : At(t, "set_mark") => tables.trust[req[t].dev] # None
    /\ \A t \in Threads : req[t].op = "remove" /\ ~At(t, "find_revoked") =>
            tables.trust[req[t].dev] # None
DevicesStored ==
    /\ \A d \in Devices : tables.trust[d] # None => tables.dev[d] # None
    /\ \A d \in Devices : disk.trust[d] # None => disk.dev[d] # None

\* An add on its way to its answer has its entry pending, stored, committed.
OnItsWay(t) ==
    LET d == req[t].dev
    IN  /\ At(t, "flush") => \/ poisoned \/ pending.trust[d] # None
                             \/ tables.trust[d] # None
        /\ At(t, "commit") => tables.trust[d] # None
        /\ At(t, "reload") => disk.trust[d] # None
Adds == \A t \in Threads : req[t].op = "add" => OnItsWay(t)
Entered == \A d \in entered : disk.trust[d] # None

\* Nobody overlaps a request that is alone on its device, nor an answer.
Alone ==
    /\ \A t, u \in Threads : req[t].sole /\ t # u => req[u].dev # req[t].dev
    /\ \A d \in Devices : said[d] # None => \A t \in Threads : req[t].dev # d

\* A request alone on its device that has set its mark outside of any commit:
\* the mark waits for a flush, or a flush, its own or not, has written it.
Ready(t) ==
    LET d == req[t].dev
    IN  /\ At(t, "flush") =>
            \/ poisoned \/ pending.trust[d] # None
            \/ pending.mark[d] = Meant(t) /\ committer = None
            \/ pending.mark[d] = None /\ tables.trust[d] = Meant(t)
        /\ At(t, "commit") => tables.trust[d] = Meant(t)
        /\ At(t, "reload") =>
            /\ pending.mark[d] = None
            /\ tables.trust[d] = Meant(t) /\ disk.trust[d] = Meant(t)
AloneReady ==
    \A t \in Threads : req[t].sole /\ ~req[t].missed /\ req[t].dev # None => Ready(t)

\* What an answer said is in the tables and on disk, and no mark will change it.
SaidHolds ==
    \A d \in Devices : said[d] # None /\ ~said[d].missed =>
        /\ tables.trust[d] = said[d].standing /\ disk.trust[d] = said[d].standing
        /\ pending.mark[d] = None

Rest ==
    /\ Requests /\ OneCommitter /\ CommitterKnown /\ Synced /\ Grown
    /\ MarksStored /\ DevicesStored /\ Adds /\ Entered /\ Alone /\ AloneReady
    /\ SaidHolds
IInv == TypeOK /\ Rest

-----------------------------------------------------------------------------
(* Requests. *)

\* The request of an idle thread is well typed.
LEMMA IdleTyped ==
  ASSUME NEW o \in {"none", "not_found"}
  PROVE  /\ IdleRequest(o) \in Request /\ IdleRequest(o).step = "idle"
         /\ IdleRequest(o).op = None /\ IdleRequest(o).dev = None
         /\ IdleRequest(o).sole = FALSE
BY DEF IdleRequest, Request, Steps

\* Goto changes one field of one request.
LEMMA Gone ==
  ASSUME TypeOK, NEW t \in Threads, NEW s \in Steps, Goto(t, s)
  PROVE  /\ req' \in [Threads -> Request]
         /\ req'[t].step = s
         /\ /\ req'[t].op = req[t].op /\ req'[t].dev = req[t].dev
            /\ req'[t].key = req[t].key /\ req'[t].sole = req[t].sole
            /\ req'[t].missed = req[t].missed /\ req'[t].out = req[t].out
         /\ \A u \in Threads : u # t => req'[u] = req[u]
BY DEF TypeOK, Goto, Request

\* Finish leaves an idle request, and the others as they are.
LEMMA Finished ==
  ASSUME TypeOK, NEW t \in Threads, NEW o \in {"none", "not_found"}, Finish(t, o)
  PROVE  /\ req' \in [Threads -> Request]
         /\ req'[t].step = "idle" /\ req'[t].op = None /\ req'[t].dev = None
         /\ req'[t].sole = FALSE
         /\ \A u \in Threads : u # t => req'[u] = req[u]
BY IdleTyped DEF TypeOK, Finish

\* A step of t that changes nothing but its own request.
LEMMA RequestOnly ==
  ASSUME IInv, NEW t \in Threads, UNCHANGED <<database, pending, answers>>,
         req' \in [Threads -> Request],
         \A u \in Threads : u # t => req'[u] = req[u],
         Proper(req'[t]), ~At(t, "commit"),
         req'[t].step \notin {"flush", "commit", "reload"},
         req'[t].sole => req[t].sole /\ req'[t].dev = req[t].dev,
         req'[t].dev \in {None, req[t].dev},
         At(t, "set_mark")' => tables.trust[req'[t].dev] # None,
         req'[t].op = "remove" /\ ~At(t, "find_revoked")' =>
            tables.trust[req'[t].dev] # None
  PROVE  IInv'
<1> USE DEF IInv, Rest, database, answers
<1>1. TypeOK' /\ Requests'
  BY DEF TypeOK, Requests
<1>2. OneCommitter' /\ CommitterKnown' /\ Synced' /\ Grown' /\ Entered' /\ DevicesStored'
  BY DEF OneCommitter, CommitterKnown, Synced, Grown, Entered, DevicesStored, At
<1>3. MarksStored'
  BY DEF MarksStored, At
<1>4. Adds'
  BY DEF Adds, OnItsWay, At
<1>5. Alone'
  <2>1. ASSUME NEW u \in Threads, NEW w \in Threads, req'[u].sole, u # w
        PROVE  req'[w].dev # req'[u].dev
    <3>1. req[u].sole /\ req'[u].dev = req[u].dev
      BY <2>1
    <3>2. req[w].dev # req[u].dev /\ req[u].dev # None
      BY <2>1, <3>1 DEF Alone, Requests, Proper
    <3> QED BY <3>1, <3>2
  <2>2. ASSUME NEW d \in Devices, said[d] # None, NEW w \in Threads
        PROVE  req'[w].dev # d
    <3>1. req[w].dev # d
      BY <2>2 DEF Alone
    <3> QED BY <2>2, <3>1, TrustAssumption
  <2> QED BY <2>1, <2>2 DEF Alone
<1>6. AloneReady'
  BY DEF AloneReady, Ready, Meant, At
<1>7. SaidHolds'
  BY DEF SaidHolds
<1> QED BY <1>1, <1>2, <1>3, <1>4, <1>5, <1>6, <1>7

-----------------------------------------------------------------------------
(* The steps. *)

\* A request that goes on to its next step keeps the invariant.
LEMMA MovesIInv ==
  ASSUME IInv, NEW t \in Threads, UNCHANGED <<database, pending, answers>>,
         NEW s \in {"add_device", "find_entry", "add_entry", "set_mark"}, Goto(t, s),
         ~Idle(t), ~At(t, "commit"),
         s # "set_mark" => req[t].op = "add",
         s = "set_mark" => req[t].op \in {"add", "remove"} /\ tables.trust[req[t].dev] # None,
         s = "add_device" => req[t].key \in Keys
  PROVE  IInv'
<1>1. s \in Steps /\ Proper(req[t]) /\ TypeOK
  BY DEF Steps, IInv, Rest, Requests
<1>2. /\ req' \in [Threads -> Request]
      /\ req'[t].step = s
      /\ /\ req'[t].op = req[t].op /\ req'[t].dev = req[t].dev
         /\ req'[t].key = req[t].key /\ req'[t].sole = req[t].sole
         /\ req'[t].missed = req[t].missed /\ req'[t].out = req[t].out
      /\ \A u \in Threads : u # t => req'[u] = req[u]
  BY <1>1, Gone
<1>3. Proper(req'[t])
  BY <1>1, <1>2 DEF Proper, Idle, At
<1> QED BY <1>2, <1>3, RequestOnly DEF At, database, answers

\* A request that ends before its commit keeps the invariant.
LEMMA EndsIInv ==
  ASSUME IInv, NEW t \in Threads, UNCHANGED <<database, pending, answers>>,
         NEW o \in {"none", "not_found"}, Finish(t, o), ~At(t, "commit")
  PROVE  IInv'
<1>1. /\ req' \in [Threads -> Request]
      /\ req'[t].step = "idle" /\ req'[t].op = None /\ req'[t].dev = None
      /\ req'[t].sole = FALSE
      /\ \A u \in Threads : u # t => req'[u] = req[u]
  BY Finished DEF IInv
<1>2. Proper(req'[t])
  BY <1>1, TrustAssumption DEF Proper
<1>3. req'[t].op # "remove" /\ ~At(t, "set_mark")'
  BY <1>1, TrustAssumption DEF At
<1> QED BY <1>1, <1>2, <1>3, RequestOnly DEF database, answers

\* FindDevice keeps the invariant.
LEMMA FindDeviceIInv ==
  ASSUME IInv, NEW t \in Threads, FindDevice(t)
  PROVE  IInv'
<1>1. /\ At(t, "find_device") /\ UNCHANGED <<database, pending, answers>>
      /\ req[t].op = "add"
  BY DEF FindDevice, IInv, Rest, Requests, Proper, At
<1> QED BY <1>1, MovesIInv, EndsIInv DEF FindDevice, At, Idle

\* FindEntry keeps the invariant.
LEMMA FindEntryIInv ==
  ASSUME IInv, NEW t \in Threads, FindEntry(t)
  PROVE  IInv'
<1>1. /\ At(t, "find_entry") /\ UNCHANGED <<database, pending, answers>>
      /\ req[t].op = "add" /\ req[t].dev \in Devices
  BY DEF FindEntry, IInv, Rest, Requests, Proper, At, TypeOK, Request
<1>2. Entry(req[t].dev) = "revoked" => tables.trust[req[t].dev] # None
  BY <1>1, TrustAssumption DEF Entry, IInv, Rest, MarksStored
<1> QED BY <1>1, <1>2, MovesIInv, EndsIInv DEF FindEntry, At, Idle

\* FindRevoked keeps the invariant.
LEMMA FindRevokedIInv ==
  ASSUME IInv, NEW t \in Threads, FindRevoked(t)
  PROVE  IInv'
<1>1. /\ At(t, "find_revoked") /\ UNCHANGED <<database, pending, answers>>
      /\ req[t].op = "remove" /\ req[t].dev \in Devices
  BY DEF FindRevoked, IInv, Rest, Requests, Proper, At, TypeOK, Request
<1>2. Entry(req[t].dev) # None => tables.trust[req[t].dev] # None
  BY <1>1 DEF Entry, IInv, Rest, MarksStored
<1> QED BY <1>1, <1>2, MovesIInv, EndsIInv DEF FindRevoked, At, Idle

\* Refused keeps the invariant.
LEMMA RefusedIInv ==
  ASSUME IInv, NEW t \in Threads, Refused(t)
  PROVE  IInv'
BY EndsIInv DEF Refused, At

\* An object to insert leaves the rows alone.
LEMMA AddDeviceIInv ==
  ASSUME IInv, NEW t \in Threads, AddDevice(t)
  PROVE  IInv'
<1> USE DEF IInv, Rest
<1>1. /\ At(t, "add_device") /\ UNCHANGED <<tables, disk, poisoned, committer, answers>>
      /\ Proper(req[t]) /\ req[t].dev \in Devices /\ req[t].key \in Keys
  BY DEF AddDevice, Requests, Proper, At, TypeOK, Request, database
<1>2. /\ req' \in [Threads -> Request]
      /\ req'[t].step = "add_entry"
      /\ /\ req'[t].op = req[t].op /\ req'[t].dev = req[t].dev
         /\ req'[t].key = req[t].key /\ req'[t].sole = req[t].sole
         /\ req'[t].missed = req[t].missed /\ req'[t].out = req[t].out
      /\ \A u \in Threads : u # t => req'[u] = req[u]
  BY Gone DEF AddDevice, Steps
<1>3. /\ pending' \in PendingObjects
      /\ pending'.trust = pending.trust /\ pending'.mark = pending.mark
  BY <1>1 DEF AddDevice, PendingObjects, TypeOK
<1>4. TypeOK' /\ Requests'
  BY <1>1, <1>2, <1>3 DEF TypeOK, Requests, Proper, At, answers
<1>5. OneCommitter' /\ CommitterKnown' /\ Synced' /\ Grown' /\ Entered' /\ DevicesStored'
  BY <1>1, <1>2 DEF OneCommitter, CommitterKnown, Synced, Grown, Entered, DevicesStored,
                    At, answers
<1>6. MarksStored' /\ Adds' /\ SaidHolds' /\ Alone'
  BY <1>1, <1>2, <1>3 DEF MarksStored, Adds, OnItsWay, SaidHolds, Alone, At, answers, Proper
<1>7. AloneReady'
  BY <1>1, <1>2, <1>3 DEF AloneReady, Ready, Meant, At
<1> QED BY <1>4, <1>5, <1>6, <1>7

\* AddEntry keeps the invariant.
LEMMA AddEntryIInv ==
  ASSUME IInv, NEW t \in Threads, AddEntry(t)
  PROVE  IInv'
<1> USE DEF IInv, Rest
<1>1. /\ At(t, "add_entry") /\ UNCHANGED <<tables, disk, poisoned, committer, answers>>
      /\ Proper(req[t]) /\ req[t].dev \in Devices
  BY DEF AddEntry, Requests, Proper, At, TypeOK, Request, database
<1>2. /\ req' \in [Threads -> Request]
      /\ req'[t].step = "flush"
      /\ /\ req'[t].op = req[t].op /\ req'[t].dev = req[t].dev
         /\ req'[t].key = req[t].key /\ req'[t].sole = req[t].sole
         /\ req'[t].missed = req[t].missed /\ req'[t].out = req[t].out
      /\ \A u \in Threads : u # t => req'[u] = req[u]
  BY Gone DEF AddEntry, Steps
<1>3. /\ pending' \in PendingObjects /\ pending'.mark = pending.mark
      /\ \A d \in Devices : pending.trust[d] # None => pending'.trust[d] # None
      /\ pending'.trust[req[t].dev] # None
  BY <1>1, TrustAssumption DEF AddEntry, PendingObjects, TypeOK
<1>4. TypeOK' /\ Requests'
  BY <1>1, <1>2, <1>3, TrustAssumption DEF TypeOK, Requests, Proper, At, answers
<1>5. OneCommitter' /\ CommitterKnown' /\ Synced' /\ Grown' /\ Entered' /\ DevicesStored'
  BY <1>1, <1>2 DEF OneCommitter, CommitterKnown, Synced, Grown, Entered, DevicesStored,
                    At, answers
<1>6. MarksStored' /\ SaidHolds' /\ Alone'
  BY <1>1, <1>2, <1>3 DEF MarksStored, SaidHolds, Alone, At, answers, Proper
<1>7. \A u \in Threads : req[u].dev # None => req[u].dev \in Devices
  BY DEF TypeOK, Request
<1>8. Adds'
  BY <1>1, <1>2, <1>3, <1>7, TrustAssumption DEF Adds, OnItsWay, At, Requests, Proper
<1>9. AloneReady'
  BY <1>1, <1>2, <1>3, <1>7 DEF AloneReady, Ready, Meant, At
<1> QED BY <1>4, <1>5, <1>6, <1>8, <1>9

\* SetMark keeps the invariant.
LEMMA SetMarkIInv ==
  ASSUME IInv, NEW t \in Threads, SetMark(t)
  PROVE  IInv'
<1> USE DEF IInv, Rest
<1>1. /\ At(t, "set_mark") /\ UNCHANGED <<tables, disk, poisoned, committer, answers>>
      /\ Proper(req[t]) /\ req[t].dev \in Devices /\ req[t].op \in {"add", "remove"}
      /\ tables.trust[req[t].dev] # None
  BY DEF SetMark, Requests, Proper, At, TypeOK, Request, database, MarksStored
<1>2. /\ req' \in [Threads -> Request]
      /\ req'[t].step = "flush" /\ req'[t].missed = (committer # None)
      /\ /\ req'[t].op = req[t].op /\ req'[t].dev = req[t].dev
         /\ req'[t].key = req[t].key /\ req'[t].sole = req[t].sole
         /\ req'[t].out = req[t].out
      /\ \A u \in Threads : u # t => req'[u] = req[u]
  BY DEF SetMark, TypeOK, Request, Steps
<1>3. /\ pending' \in PendingObjects /\ pending'.trust = pending.trust
      /\ pending'.mark[req[t].dev] = Meant(t)
      /\ \A d \in Devices : d # req[t].dev => pending'.mark[d] = pending.mark[d]
  BY <1>1 DEF SetMark, PendingObjects, TypeOK, Meant, Standing
<1>4. TypeOK' /\ Requests'
  BY <1>1, <1>2, <1>3 DEF TypeOK, Requests, Proper, At, answers
<1>5. OneCommitter' /\ CommitterKnown' /\ Synced' /\ Grown' /\ Entered' /\ DevicesStored'
  BY <1>1, <1>2 DEF OneCommitter, CommitterKnown, Synced, Grown, Entered, DevicesStored,
                    At, answers
<1>6. MarksStored' /\ Alone'
  BY <1>1, <1>2, <1>3 DEF MarksStored, Alone, At, answers, Proper
<1>7. Adds'
  BY <1>1, <1>2, <1>3 DEF Adds, OnItsWay, At, Requests
<1>8. SaidHolds'
  BY <1>1, <1>3 DEF SaidHolds, Alone, answers
<1>9. AloneReady'
  <2> SUFFICES ASSUME NEW u \in Threads, req'[u].sole, ~req'[u].missed, req'[u].dev # None
               PROVE  Ready(u)'
    BY DEF AloneReady
  <2>1. CASE u = t
    BY <1>1, <1>2, <1>3, <2>1 DEF Ready, Meant, At
  <2>2. CASE u # t
    <3>1. req'[u] = req[u] /\ req[t].dev # req[u].dev /\ req[u].dev \in Devices
      BY <1>2, <2>2 DEF Alone, TypeOK, Request
    <3> QED BY <1>1, <1>3, <3>1 DEF AloneReady, Ready, Meant, At
  <2> QED BY <2>1, <2>2
<1> QED BY <1>4, <1>5, <1>6, <1>7, <1>8, <1>9

\* A request arrives: nothing said of its device counts any more, and nobody
\* who works on the device is alone.
LEMMA BeginIInv ==
  ASSUME IInv, NEW t \in Threads, NEW d \in Devices,
         NEW op \in {"add", "remove"}, NEW k \in Keys \cup BadKeys \cup {None},
         NEW s \in {"find_device", "find_revoked"},
         s = "find_device" => op = "add", s = "find_revoked" => op = "remove",
         Begin(t, op, d, k, s)
  PROVE  IInv'
<1> USE DEF IInv, Rest
<1>1. /\ Idle(t) /\ UNCHANGED <<tables, disk, poisoned, committer, pending, entered>>
      /\ Proper(req[t]) /\ req[t].dev = None
  BY TrustAssumption DEF Begin, Requests, Proper, Idle, At, database
<1>2. /\ req' \in [Threads -> Request]
      /\ req'[t].step = s /\ req'[t].op = op /\ req'[t].dev = d /\ req'[t].out = "none"
      /\ req'[t].sole => \A u \in Threads : req[u].dev # d
      /\ \A u \in Threads : u # t =>
            /\ req'[u].step = req[u].step /\ req'[u].op = req[u].op
            /\ req'[u].dev = req[u].dev /\ req'[u].key = req[u].key
            /\ req'[u].missed = req[u].missed /\ req'[u].out = req[u].out
            /\ req'[u].sole => req[u].sole /\ req[u].dev # d
  <2> DEFINE alone == \A w \in Threads : req[w].dev # d
             new == [op |-> op, step |-> s, dev |-> d, key |-> k, sole |-> alone,
                     missed |-> FALSE, out |-> "none"]
  <2>1. /\ req'[t] = new
        /\ \A u \in Threads : u # t =>
            req'[u] = [req[u] EXCEPT !.sole = @ /\ req[u].dev # d]
    BY DEF Begin, IdleRequest
  <2>2. alone \in BOOLEAN /\ new \in Request
    BY DEF Request, Steps
  <2>3. ASSUME NEW u \in Threads, u # t
        PROVE  /\ req'[u] \in Request
               /\ req'[u].step = req[u].step /\ req'[u].op = req[u].op
               /\ req'[u].dev = req[u].dev /\ req'[u].key = req[u].key
               /\ req'[u].missed = req[u].missed /\ req'[u].out = req[u].out
               /\ req'[u].sole => req[u].sole /\ req[u].dev # d
    <3> DEFINE b == req[u].sole /\ req[u].dev # d
    <3>1. req'[u] = [req[u] EXCEPT !.sole = b]
      BY <2>1, <2>3
    <3>2. b \in BOOLEAN /\ req[u] \in Request /\ (b => req[u].sole /\ req[u].dev # d)
      BY DEF TypeOK
    <3> HIDE DEF b
    <3> QED BY <3>1, <3>2 DEF Request
  <2>4. req' \in [Threads -> Request]
    <3>1. req' = [u \in Threads |-> req'[u]]
      BY DEF Begin
    <3>2. \A u \in Threads : req'[u] \in Request
      BY <2>1, <2>2, <2>3
    <3> QED BY <3>1, <3>2
  <2> QED BY <2>1, <2>3, <2>4
<1>3. /\ said' \in [Devices -> [standing : Standing, missed : BOOLEAN] \cup {None}]
      /\ said'[d] = None /\ \A e \in Devices : e # d => said'[e] = said[e]
  BY DEF Begin, TypeOK
<1>4. TypeOK'
  BY <1>1, <1>2, <1>3 DEF TypeOK
<1>5. Requests'
  BY <1>1, <1>2, TrustAssumption DEF Requests, Proper
<1>6. OneCommitter' /\ CommitterKnown' /\ Synced' /\ Grown' /\ Entered' /\ DevicesStored'
  BY <1>1, <1>2 DEF OneCommitter, CommitterKnown, Synced, Grown, Entered, DevicesStored,
                    At, Idle
<1>7. MarksStored' /\ Adds'
  BY <1>1, <1>2 DEF MarksStored, Adds, OnItsWay, At
<1>8. Alone'
  BY <1>1, <1>2, <1>3 DEF Alone, Requests, Proper
<1>9. AloneReady'
  BY <1>1, <1>2 DEF AloneReady, Ready, Meant, At
<1>10. SaidHolds'
  BY <1>1, <1>3 DEF SaidHolds
<1> QED BY <1>4, <1>5, <1>6, <1>7, <1>8, <1>9, <1>10

\* BeginOther keeps the invariant.
LEMMA BeginOtherIInv ==
  ASSUME IInv, NEW t \in Threads, BeginOther(t)
  PROVE  IInv'
<1> USE DEF IInv, Rest
<1>1. /\ Idle(t) /\ UNCHANGED <<tables, disk, poisoned, committer, pending, entered, said>>
  BY DEF BeginOther, database, answers
<1>2. /\ req' \in [Threads -> Request]
      /\ req'[t].step = "flush" /\ req'[t].op = "other" /\ req'[t].dev = None
      /\ req'[t].out = "none" /\ req'[t].sole = FALSE
      /\ \A u \in Threads : u # t => req'[u] = req[u]
  BY DEF BeginOther, IdleRequest, TypeOK, Request, Steps
<1>3. TypeOK'
  BY <1>1, <1>2 DEF TypeOK
<1>4. Requests'
  BY <1>1, <1>2, TrustAssumption DEF Requests, Proper
<1>5. OneCommitter' /\ CommitterKnown' /\ Synced' /\ Grown' /\ Entered' /\ DevicesStored'
  BY <1>1, <1>2 DEF OneCommitter, CommitterKnown, Synced, Grown, Entered, DevicesStored,
                    At, Idle
<1>6. MarksStored' /\ Adds'
  BY <1>1, <1>2 DEF MarksStored, Adds, OnItsWay, At
<1>7. Alone'
  BY <1>1, <1>2, TrustAssumption DEF Alone, Requests, Proper
<1>8. AloneReady' /\ SaidHolds'
  BY <1>1, <1>2 DEF AloneReady, Ready, Meant, At, SaidHolds
<1> QED BY <1>3, <1>4, <1>5, <1>6, <1>7, <1>8

-----------------------------------------------------------------------------
(* commit(). *)

\* What a flush that breaks no constraint does to the rows.
LEMMA FlushedRows ==
  ASSUME tables \in Tables, pending \in PendingObjects, Insertable(pending, tables),
         MarksStored, DevicesStored
  PROVE  LET new == Flushed(pending, tables)
         IN  /\ new \in Tables
             /\ \A d \in Devices :
                /\ tables.dev[d] # None => new.dev[d] = tables.dev[d]
                /\ new.trust[d] # None => new.dev[d] # None
                /\ pending.trust[d] # None => new.trust[d] = "trusted" /\ tables.trust[d] = None
                /\ pending.trust[d] = None /\ pending.mark[d] # None =>
                    new.trust[d] = pending.mark[d]
                /\ pending.trust[d] = None /\ pending.mark[d] = None =>
                    new.trust[d] = tables.trust[d]
                /\ tables.trust[d] # None => new.trust[d] # None
<1>1. \A d \in Devices : pending.dev[d] # None => pending.dev[d] \in Keys
  BY DEF Insertable, PendingObjects
<1>2. Flushed(pending, tables) \in Tables
  BY <1>1 DEF Flushed, Tables, PendingObjects, Standing
<1> QED BY <1>1, <1>2, TrustAssumption DEF Flushed, Insertable, MarksStored, DevicesStored

\* Flush keeps the invariant.
LEMMA FlushIInv ==
  ASSUME IInv, NEW t \in Threads, Flush(t)
  PROVE  IInv'
<1> USE DEF IInv, Rest
<1>1. /\ At(t, "flush") /\ ~poisoned /\ committer = None
      /\ UNCHANGED <<disk, entered, said>> /\ pending' = NoObjects
      /\ Proper(req[t]) /\ tables = disk
  BY DEF Flush, Requests, Usable, answers, Synced
<1>2. /\ pending' \in PendingObjects
      /\ \A d \in Devices : pending'.mark[d] = None /\ pending'.trust[d] = None
  BY <1>1 DEF PendingObjects, NoObjects
<1>3. \A u \in Threads : ~At(u, "commit")
  BY <1>1, TrustAssumption DEF OneCommitter
<1>4. \A u \in Threads : req[u].dev # None => req[u].dev \in Devices
  BY DEF TypeOK, Request
<1>5. CASE /\ Insertable(pending, tables) /\ tables' = Flushed(pending, tables)
           /\ committer' = t /\ Goto(t, "commit") /\ UNCHANGED poisoned
  <2>1. /\ tables' \in Tables
        /\ \A d \in Devices :
            /\ tables.dev[d] # None => tables'.dev[d] = tables.dev[d]
            /\ tables'.trust[d] # None => tables'.dev[d] # None
            /\ pending.trust[d] # None => tables'.trust[d] = "trusted" /\ tables.trust[d] = None
            /\ pending.trust[d] = None /\ pending.mark[d] # None =>
                tables'.trust[d] = pending.mark[d]
            /\ pending.trust[d] = None /\ pending.mark[d] = None =>
                tables'.trust[d] = tables.trust[d]
            /\ tables.trust[d] # None => tables'.trust[d] # None
    BY <1>5, FlushedRows DEF TypeOK
  <2>2. /\ req' \in [Threads -> Request]
        /\ req'[t].step = "commit"
        /\ /\ req'[t].op = req[t].op /\ req'[t].dev = req[t].dev
           /\ req'[t].key = req[t].key /\ req'[t].sole = req[t].sole
           /\ req'[t].missed = req[t].missed /\ req'[t].out = req[t].out
        /\ \A u \in Threads : u # t => req'[u] = req[u]
    BY <1>5, Gone DEF Steps
  <2>3. TypeOK' /\ Requests'
    BY <1>1, <1>2, <1>5, <2>1, <2>2 DEF TypeOK, Requests, Proper, At
  <2>4. OneCommitter' /\ CommitterKnown' /\ Synced'
    BY <1>3, <1>5, <2>2, TrustAssumption DEF OneCommitter, CommitterKnown, Synced, At
  <2>5. Grown' /\ Entered' /\ DevicesStored'
    BY <1>1, <2>1 DEF Grown, Entered, DevicesStored
  <2>6. MarksStored'
    BY <1>1, <1>2, <1>4, <2>1, <2>2, TrustAssumption
    DEF MarksStored, At, Requests, Proper
  <2>7. Adds'
    <3> SUFFICES ASSUME NEW u \in Threads, req'[u].op = "add"
                 PROVE  OnItsWay(u)'
      BY DEF Adds
    <3>1. req[u].op = "add" /\ req'[u].dev = req[u].dev /\ req[u].dev \in Devices
      BY <1>4, <2>2 DEF Requests, Proper
    <3>2. At(u, "flush") => tables'.trust[req[u].dev] # None
      BY <1>1, <2>1, <3>1, TrustAssumption DEF Adds, OnItsWay
    <3> QED BY <1>1, <1>3, <2>1, <2>2, <3>1, <3>2 DEF Adds, OnItsWay, At
  <2>8. Alone'
    BY <1>1, <2>2 DEF Alone, Requests, Proper
  <2>9. \A u \in Threads :
            req[u].sole /\ ~req[u].missed /\ req[u].dev # None /\ At(u, "flush") =>
                tables'.trust[req[u].dev] = Meant(u)
    <3> SUFFICES ASSUME NEW u \in Threads, req[u].sole, ~req[u].missed,
                        req[u].dev # None, At(u, "flush")
                 PROVE  tables'.trust[req[u].dev] = Meant(u)
      OBVIOUS
    <3> DEFINE d == req[u].dev
    <3>1. /\ d \in Devices /\ req[u].op \in {"add", "remove"} /\ Meant(u) # None
          /\ \/ pending.trust[d] # None
             \/ pending.mark[d] = Meant(u)
             \/ pending.mark[d] = None /\ tables.trust[d] = Meant(u)
      BY <1>1, <1>4, TrustAssumption DEF AloneReady, Ready, Requests, Proper, Meant
    <3>2. CASE pending.trust[d] # None
      <4>1. tables'.trust[d] = "trusted" /\ tables.trust[d] = None
        BY <2>1, <3>1, <3>2
      <4>2. req[u].op # "remove"
        BY <4>1 DEF MarksStored, At
      <4> QED BY <3>1, <4>1, <4>2 DEF Meant
    <3>3. CASE pending.trust[d] = None
      BY <2>1, <3>1, <3>3
    <3> QED BY <3>2, <3>3
  <2>10. AloneReady'
    <3> SUFFICES ASSUME NEW u \in Threads, req'[u].sole, ~req'[u].missed, req'[u].dev # None
                 PROVE  Ready(u)'
      BY DEF AloneReady
    <3>1. /\ req[u].sole /\ ~req[u].missed /\ req'[u].dev = req[u].dev
          /\ req[u].dev \in Devices /\ Meant(u)' = Meant(u)
      BY <1>4, <2>2 DEF Meant
    <3>2. CASE u = t
      BY <1>1, <2>2, <2>9, <3>1, <3>2 DEF Ready, At
    <3>3. CASE u # t
      <4>1. req'[u] = req[u] /\ Ready(u)
        BY <2>2, <3>1, <3>3 DEF AloneReady
      <4>2. At(u, "reload") => tables'.trust[req[u].dev] = Meant(u)
        BY <2>1, <3>1, <4>1, TrustAssumption DEF Ready, Meant
      <4> QED BY <1>1, <1>2, <1>3, <2>9, <3>1, <4>1, <4>2 DEF Ready, At
    <3> QED BY <3>2, <3>3
  <2>11. SaidHolds'
    <3> SUFFICES ASSUME NEW d \in Devices, said[d] # None, ~said[d].missed
                 PROVE  tables'.trust[d] = said[d].standing
      BY <1>1, <1>2 DEF SaidHolds
    <3>1. tables.trust[d] = said[d].standing /\ pending.mark[d] = None
      BY DEF SaidHolds
    <3>2. said[d].standing # None
      BY TrustAssumption DEF TypeOK, Standing
    <3> QED BY <2>1, <3>1, <3>2
  <2> QED BY <2>3, <2>4, <2>5, <2>6, <2>7, <2>8, <2>10, <2>11
<1>6. CASE poisoned' = TRUE /\ Finish(t, "none") /\ UNCHANGED <<tables, committer>>
  <2>1. /\ req' \in [Threads -> Request]
        /\ req'[t].step = "idle" /\ req'[t].op = None /\ req'[t].dev = None
        /\ req'[t].sole = FALSE
        /\ \A u \in Threads : u # t => req'[u] = req[u]
    BY <1>6, Finished
  <2>2. Proper(req'[t]) /\ TypeOK'
    BY <1>1, <1>2, <1>6, <2>1, TrustAssumption DEF Proper, TypeOK
  <2>3. Requests' /\ OneCommitter' /\ CommitterKnown' /\ Synced' /\ Grown' /\ Entered'
        /\ DevicesStored'
    BY <1>1, <1>6, <2>1, <2>2, TrustAssumption
    DEF Requests, OneCommitter, CommitterKnown, Synced, Grown, Entered, DevicesStored, At
  <2>4. MarksStored' /\ Adds'
    BY <1>1, <1>2, <1>6, <2>1, TrustAssumption DEF MarksStored, Adds, OnItsWay, At
  <2>5. Alone'
    BY <1>1, <2>1, TrustAssumption DEF Alone, Requests, Proper
  <2>6. AloneReady' /\ SaidHolds'
    BY <1>1, <1>2, <1>4, <1>6, <2>1 DEF AloneReady, Ready, Meant, At, SaidHolds
  <2> QED BY <2>2, <2>3, <2>4, <2>5, <2>6
<1> QED BY <1>5, <1>6 DEF Flush

\* Commit keeps the invariant.
LEMMA CommitIInv ==
  ASSUME IInv, NEW t \in Threads, Commit(t)
  PROVE  IInv'
<1> USE DEF IInv, Rest
<1>1. /\ At(t, "commit") /\ disk' = tables /\ committer = t /\ committer' = None
      /\ UNCHANGED <<tables, poisoned, entered>> /\ Proper(req[t])
  BY DEF Commit, OneCommitter, Requests
<1>2. /\ pending' \in PendingObjects /\ pending'.trust = pending.trust
      /\ \A d \in Devices : pending'.mark[d] = None
  BY DEF Commit, TypeOK, PendingObjects, NoObjects
<1>3. \A u \in Threads : u # t => ~At(u, "commit")
  BY <1>1 DEF OneCommitter
<1>4. \A u \in Threads : req[u].dev # None => req[u].dev \in Devices
  BY DEF TypeOK, Request
<1>5. /\ req' \in [Threads -> Request]
      /\ \A u \in Threads : u # t => req'[u] = req[u]
      /\ \/ /\ req'[t].step = "reload" /\ req[t].op = "add"
            /\ req'[t].op = req[t].op /\ req'[t].dev = req[t].dev
            /\ req'[t].key = req[t].key /\ req'[t].sole = req[t].sole
            /\ req'[t].missed = req[t].missed /\ req'[t].out = req[t].out
            /\ said' = said
         \/ /\ req'[t].step = "idle" /\ req'[t].op = None /\ req'[t].dev = None
            /\ req'[t].sole = FALSE
  <2>1. CASE req[t].op = "add" /\ Goto(t, "reload") /\ UNCHANGED said
    BY <2>1, Gone DEF Steps
  <2>2. CASE Finish(t, "none")
    BY <2>2, Finished
  <2> QED BY <2>1, <2>2 DEF Commit, Answered
<1>5a. said' # said => req[t].op = "remove" /\ Answered(t)
  BY DEF Commit
<1>6. ASSUME req[t].op = "remove", Answered(t), said' # said
      PROVE  /\ req[t].sole /\ req[t].dev \in Devices
             /\ said' = [said EXCEPT ![req[t].dev] =
                            [standing |-> "revoked", missed |-> req[t].missed]]
             /\ ~req[t].missed => tables.trust[req[t].dev] = "revoked"
  <2>1. req[t].sole /\ req[t].dev \in Devices /\ req[t].dev # None
    BY <1>1, <1>4, <1>6 DEF Answered, Proper
  <2>2. Meant(t) = "revoked"
    BY <1>6 DEF Meant
  <2> QED BY <1>1, <1>6, <2>1, <2>2 DEF Answered, AloneReady, Ready
<1>7. said' \in [Devices -> [standing : Standing, missed : BOOLEAN] \cup {None}]
  <2>1. req[t].missed \in BOOLEAN
    BY DEF TypeOK, Request
  <2> QED BY <1>5a, <1>6, <2>1 DEF TypeOK, Standing
<1>8. TypeOK' /\ Requests'
  BY <1>1, <1>2, <1>5, <1>7, TrustAssumption DEF TypeOK, Requests, Proper, At
<1>9. OneCommitter' /\ CommitterKnown' /\ Synced' /\ Grown' /\ DevicesStored'
  BY <1>1, <1>3, <1>5, TrustAssumption
  DEF OneCommitter, CommitterKnown, Synced, Grown, DevicesStored, At
<1>10. Entered'
  BY <1>1 DEF Entered, Grown, TypeOK
<1>11. MarksStored'
  BY <1>1, <1>2, <1>5, TrustAssumption DEF MarksStored, At
<1>12. Adds'
  <2> SUFFICES ASSUME NEW u \in Threads, req'[u].op = "add"
               PROVE  OnItsWay(u)'
    BY DEF Adds
  <2>1. req[u].op = "add" /\ req'[u].dev = req[u].dev /\ req[u].dev \in Devices
    BY <1>4, <1>5, TrustAssumption DEF Requests, Proper
  <2>2. At(u, "reload") => tables.trust[req[u].dev] # None
    BY <2>1 DEF Adds, OnItsWay, Grown
  <2> QED BY <1>1, <1>2, <1>3, <1>5, <2>1, <2>2 DEF Adds, OnItsWay, At
<1>13. Alone'
  <2>1. \A u, w \in Threads : req'[u].sole /\ u # w => req'[w].dev # req'[u].dev
    BY <1>5 DEF Alone, Requests, Proper
  <2>2. ASSUME NEW d \in Devices, said'[d] # None, NEW u \in Threads
        PROVE  req'[u].dev # d
    <3>1. CASE said[d] # None
      BY <1>5, <2>2, <3>1, TrustAssumption DEF Alone
    <3>2. CASE said[d] = None
      <4>1. req[t].op = "remove" /\ Answered(t) /\ said' # said
        BY <1>5a, <2>2, <3>2
      <4>2. req[t].sole /\ d = req[t].dev
        BY <1>6, <2>2, <3>2, <4>1 DEF TypeOK
      <4>3. req'[t].dev = None
        BY <1>5, <4>1
      <4> QED BY <1>5, <4>2, <4>3, TrustAssumption DEF Alone
    <3> QED BY <3>1, <3>2
  <2> QED BY <2>1, <2>2 DEF Alone
<1>14. AloneReady'
  <2> SUFFICES ASSUME NEW u \in Threads, req'[u].sole, ~req'[u].missed, req'[u].dev # None
               PROVE  Ready(u)'
    BY DEF AloneReady
  <2>1. /\ req[u].sole /\ ~req[u].missed /\ req'[u].dev = req[u].dev
        /\ req[u].dev \in Devices /\ Meant(u)' = Meant(u) /\ Ready(u)
    BY <1>4, <1>5 DEF Meant, AloneReady
  <2>2. CASE u = t
    BY <1>1, <1>2, <1>5, <2>1, <2>2 DEF Ready, At
  <2>3. CASE u # t
    <3>1. req'[u] = req[u]
      BY <1>5, <2>3
    <3> QED BY <1>1, <1>2, <1>3, <2>1, <2>3, <3>1, TrustAssumption DEF Ready, At
  <2> QED BY <2>2, <2>3
<1>15. SaidHolds'
  <2> SUFFICES ASSUME NEW d \in Devices, said'[d] # None, ~said'[d].missed
               PROVE  tables.trust[d] = said'[d].standing
    BY <1>1, <1>2 DEF SaidHolds
  <2>1. CASE said' = said
    BY <2>1 DEF SaidHolds
  <2>2. CASE req[t].op = "remove" /\ Answered(t) /\ said' # said
    BY <1>6, <2>2 DEF SaidHolds, TypeOK
  <2> QED BY <1>5a, <2>1, <2>2
<1> QED BY <1>8, <1>9, <1>10, <1>11, <1>12, <1>13, <1>14, <1>15

\* The answer of an add.
LEMMA ReloadIInv ==
  ASSUME IInv, NEW t \in Threads, Reload(t)
  PROVE  IInv'
<1> USE DEF IInv, Rest
<1>1. /\ At(t, "reload") /\ UNCHANGED <<tables, disk, poisoned, committer, pending>>
      /\ Proper(req[t]) /\ req[t].op = "add" /\ req[t].dev \in Devices
      /\ entered' = entered \cup {req[t].dev} /\ Finish(t, "none")
  BY DEF Reload, Requests, Proper, At, TypeOK, Request, database, Answered
<1>2. /\ req' \in [Threads -> Request]
      /\ req'[t].step = "idle" /\ req'[t].op = None /\ req'[t].dev = None
      /\ req'[t].sole = FALSE
      /\ \A u \in Threads : u # t => req'[u] = req[u]
  BY <1>1, Finished
<1>3. /\ said' # said => req[t].sole /\
            said' = [said EXCEPT ![req[t].dev] =
                        [standing |-> "trusted", missed |-> req[t].missed]]
      /\ said' \in [Devices -> [standing : Standing, missed : BOOLEAN] \cup {None}]
  <2>1. Meant(t) = "trusted" /\ req[t].missed \in BOOLEAN
    BY <1>1 DEF Meant, TypeOK, Request
  <2> QED BY <2>1 DEF Reload, Answered, TypeOK, Standing
<1>4. Proper(req'[t]) /\ TypeOK'
  BY <1>1, <1>2, <1>3, TrustAssumption DEF Proper, TypeOK
<1>5. Requests' /\ OneCommitter' /\ CommitterKnown' /\ Synced' /\ Grown' /\ DevicesStored'
  BY <1>1, <1>2, <1>4 DEF Requests, OneCommitter, CommitterKnown, Synced, Grown,
                          DevicesStored, At
<1>6. MarksStored' /\ Adds' /\ AloneReady'
  BY <1>1, <1>2, TrustAssumption DEF MarksStored, Adds, OnItsWay, AloneReady, Ready, Meant, At
<1>7. Entered'
  BY <1>1 DEF Entered, Adds, OnItsWay
<1>8. Alone'
  <2>1. \A u, w \in Threads : req'[u].sole /\ u # w => req'[w].dev # req'[u].dev
    BY <1>2 DEF Alone, Requests, Proper
  <2>2. ASSUME NEW d \in Devices, said'[d] # None, NEW u \in Threads
        PROVE  req'[u].dev # d
    <3>1. CASE said[d] # None
      BY <1>2, <2>2, <3>1, TrustAssumption DEF Alone
    <3>2. CASE said[d] = None
      <4>1. req[t].sole /\ d = req[t].dev
        BY <1>3, <2>2, <3>2 DEF TypeOK
      <4> QED BY <1>2, <4>1, TrustAssumption DEF Alone
    <3> QED BY <3>1, <3>2
  <2> QED BY <2>1, <2>2 DEF Alone
<1>9. SaidHolds'
  <2> SUFFICES ASSUME NEW d \in Devices, said'[d] # None, ~said'[d].missed
               PROVE  /\ tables.trust[d] = said'[d].standing
                      /\ disk.trust[d] = said'[d].standing /\ pending.mark[d] = None
    BY <1>1 DEF SaidHolds
  <2>1. CASE said' = said
    BY <2>1 DEF SaidHolds
  <2>2. CASE said' # said /\ d = req[t].dev
    <3>1. req[t].sole /\ ~req[t].missed /\ said'[d].standing = "trusted"
      BY <1>1, <1>3, <2>2 DEF TypeOK
    <3>2. Ready(t) /\ Meant(t) = "trusted"
      BY <1>1, <3>1, TrustAssumption DEF AloneReady, Meant
    <3> QED BY <1>1, <2>2, <3>1, <3>2 DEF Ready
  <2>3. CASE said' # said /\ d # req[t].dev
    BY <1>3, <2>3 DEF SaidHolds, TypeOK
  <2> QED BY <2>1, <2>2, <2>3
<1> QED BY <1>4, <1>5, <1>6, <1>7, <1>8, <1>9

-----------------------------------------------------------------------------
(* The process ends and starts again. *)

\* What a restart may find on disk: at least what was there, each entry with
\* its device, and every answer as it was given.
LEMMA RestartIInv ==
  ASSUME IInv, Restart, disk' \in Tables,
         \A d \in Devices : /\ disk'.trust[d] # None => disk'.dev[d] # None
                            /\ disk.trust[d] # None => disk'.trust[d] # None
                            /\ said[d] # None /\ ~said[d].missed =>
                                disk'.trust[d] = disk.trust[d]
  PROVE  IInv'
<1> USE DEF IInv, Rest
<1>1. /\ \A t \in Threads : req'[t] = IdleRequest("none")
      /\ req' \in [Threads -> Request]
      /\ tables' = disk' /\ pending' = NoObjects /\ poisoned' = FALSE /\ committer' = None
      /\ UNCHANGED <<entered, said>>
  BY IdleTyped DEF Restart, answers
<1>2. /\ pending' \in PendingObjects
      /\ \A d \in Devices : pending'.mark[d] = None
  BY <1>1 DEF PendingObjects, NoObjects
<1>3. TypeOK'
  BY <1>1, <1>2 DEF TypeOK
<1>4. Requests' /\ OneCommitter' /\ CommitterKnown' /\ Synced' /\ Grown'
  BY <1>1, TrustAssumption DEF Requests, Proper, OneCommitter, CommitterKnown, Synced, Grown,
                               At, IdleRequest
<1>5. MarksStored' /\ DevicesStored' /\ Adds' /\ AloneReady'
  BY <1>1, <1>2, TrustAssumption
  DEF MarksStored, DevicesStored, Adds, AloneReady, At, IdleRequest
<1>6. Entered' /\ SaidHolds'
  BY <1>1, <1>2 DEF Entered, SaidHolds, TypeOK
<1>7. Alone'
  BY <1>1, TrustAssumption DEF Alone, IdleRequest
<1> QED BY <1>3, <1>4, <1>5, <1>6, <1>7

\* register_self touches one device, and no entry.
LEMMA Registered ==
  ASSUME NEW db \in Tables
  PROVE  /\ register_self(db) \in Tables
         /\ register_self(db).trust = db.trust
         /\ \A d \in Devices : db.dev[d] # None => register_self(db).dev[d] = db.dev[d]
BY TrustAssumption DEF register_self, Tables

\* Crash keeps the invariant.
LEMMA CrashIInv ==
  ASSUME IInv, Crash
  PROVE  IInv'
<1>1. disk \in Tables /\ disk' = register_self(disk)
  BY DEF Crash, IInv, TypeOK
<1>2. \A d \in Devices : disk.trust[d] # None => disk.dev[d] # None
  BY DEF IInv, Rest, DevicesStored
<1> QED BY <1>1, <1>2, Registered, RestartIInv DEF Crash

\* Shutdown keeps the invariant.
LEMMA ShutdownIInv ==
  ASSUME IInv, Shutdown
  PROVE  IInv'
<1> USE DEF IInv, Rest
<1>1. tables = disk
  BY TrustAssumption DEF Shutdown, Idle, At, OneCommitter, CommitterKnown, Synced
<1>2. PICK db : /\ db \in {disk, Flushed(pending, tables)}
                /\ db = disk \/ Insertable(pending, tables)
                /\ disk' = register_self(db)
  BY DEF Shutdown
<1>3. CASE db = disk
  <2>1. disk \in Tables /\ disk' = register_self(disk)
    BY <1>2, <1>3 DEF TypeOK
  <2>2. \A d \in Devices : disk.trust[d] # None => disk.dev[d] # None
    BY DEF DevicesStored
  <2> QED BY <2>1, <2>2, Registered, RestartIInv DEF Shutdown
<1>4. CASE db = Flushed(pending, tables) /\ Insertable(pending, tables)
  <2>1. /\ db \in Tables
        /\ \A d \in Devices :
            /\ db.trust[d] # None => db.dev[d] # None
            /\ pending.trust[d] # None => tables.trust[d] = None
            /\ pending.trust[d] = None /\ pending.mark[d] = None =>
                db.trust[d] = tables.trust[d]
            /\ tables.trust[d] # None => db.trust[d] # None
    BY <1>4, FlushedRows DEF TypeOK
  <2>2. ASSUME NEW d \in Devices, said[d] # None, ~said[d].missed
        PROVE  db.trust[d] = disk.trust[d]
    <3>1. tables.trust[d] = said[d].standing /\ pending.mark[d] = None
      BY <2>2 DEF SaidHolds
    <3>2. said[d].standing # None
      BY <2>2, TrustAssumption DEF TypeOK, Standing
    <3> QED BY <1>1, <2>1, <3>1, <3>2
  <2>3. /\ register_self(db) \in Tables /\ register_self(db).trust = db.trust
        /\ \A d \in Devices : db.dev[d] # None => register_self(db).dev[d] = db.dev[d]
    BY <2>1, Registered
  <2> QED BY <1>1, <1>2, <2>1, <2>2, <2>3, RestartIInv DEF Shutdown
<1> QED BY <1>2, <1>3, <1>4

-----------------------------------------------------------------------------
(* The theorems. *)

\* The store opens with this device's row and no request: the invariant holds.
THEOREM InitIInv == Init => IInv
<1> SUFFICES ASSUME Init PROVE IInv
  OBVIOUS
<1> DEFINE empty == [dev |-> NoObjects.dev, trust |-> NoObjects.trust]
<1>1. empty \in Tables /\ tables = register_self(empty) /\ disk = tables
  BY DEF Init, Tables, NoObjects
<1>2. /\ tables \in Tables
      /\ \A d \in Devices : tables.trust[d] = None
  BY <1>1, Registered DEF NoObjects
<1>3. /\ \A t \in Threads : req[t] = IdleRequest("none")
      /\ req \in [Threads -> Request]
      /\ pending = NoObjects /\ poisoned = FALSE /\ committer = None
      /\ entered = {} /\ said = [d \in Devices |-> None]
  BY IdleTyped DEF Init
<1>4. /\ pending \in PendingObjects
      /\ \A d \in Devices : pending.mark[d] = None
  BY <1>3 DEF PendingObjects, NoObjects
<1>5. TypeOK
  BY <1>1, <1>2, <1>3, <1>4 DEF TypeOK
<1>6. Requests /\ OneCommitter /\ CommitterKnown /\ Synced /\ Grown /\ Entered
  BY <1>1, <1>3, TrustAssumption
  DEF Requests, Proper, OneCommitter, CommitterKnown, Synced, Grown, Entered, At,
      IdleRequest
<1>7. MarksStored /\ DevicesStored /\ Adds /\ AloneReady
  BY <1>1, <1>2, <1>3, <1>4, TrustAssumption
  DEF MarksStored, DevicesStored, Adds, AloneReady, At, IdleRequest
<1>8. Alone /\ SaidHolds
  BY <1>3 DEF Alone, SaidHolds, IdleRequest
<1> QED BY <1>5, <1>6, <1>7, <1>8 DEF IInv, Rest

\* No step of a request, no crash and no shutdown breaks the invariant.
THEOREM NextIInv == IInv /\ [Next]_vars => IInv'
<1> SUFFICES ASSUME IInv, [Next]_vars PROVE IInv'
  OBVIOUS
<1>1. ASSUME NEW t \in Threads, Step(t) PROVE IInv'
  <2>1. ASSUME NEW d \in Devices, NEW k \in Keys \cup BadKeys, BeginAdd(t, d, k)
        PROVE  IInv'
    BY <2>1, BeginIInv DEF BeginAdd
  <2>2. ASSUME NEW d \in Devices, BeginRemove(t, d) PROVE IInv'
    BY <2>2, BeginIInv DEF BeginRemove
  <2> QED
    BY <1>1, <2>1, <2>2, BeginOtherIInv, FindDeviceIInv, AddDeviceIInv, FindEntryIInv,
       AddEntryIInv, FindRevokedIInv, SetMarkIInv, FlushIInv, CommitIInv, ReloadIInv,
       RefusedIInv
    DEF Step
<1>2. CASE UNCHANGED vars
  <2> USE DEF vars, IInv, Rest
  <2>1. TypeOK' /\ Requests' /\ OneCommitter' /\ CommitterKnown' /\ Synced' /\ Grown'
    BY <1>2 DEF TypeOK, Requests, OneCommitter, CommitterKnown, Synced, Grown, At
  <2>2. MarksStored' /\ DevicesStored' /\ Adds' /\ Entered' /\ Alone' /\ AloneReady'
        /\ SaidHolds'
    BY <1>2 DEF MarksStored, DevicesStored, Adds, OnItsWay, Entered, Alone, AloneReady,
                Ready, Meant, SaidHolds, At
  <2> QED BY <2>1, <2>2
<1> QED BY <1>1, <1>2, CrashIInv, ShutdownIInv DEF Next

\* The invariant holds of every reachable state of the store.
THEOREM Invariant == Spec => []IInv
BY InitIInv, NextIInv, PTL DEF Spec

\* Type correctness of the Trust_Store.
THEOREM TypeCorrect == Spec => []TypeOK
<1>1. IInv => TypeOK
  BY DEF IInv
<1> QED BY <1>1, Invariant, PTL

\* An answered add or remove that nobody overlapped on its device stays true
\* on disk, unless its attribute was set while another request was inside
\* commit().
THEOREM AnswersKept == Spec => []AnswersHold
<1>1. IInv => AnswersHold
  BY DEF IInv, Rest, SaidHolds, AnswersHold
<1> QED BY <1>1, Invariant, PTL

\* A device that was answered as trusted keeps its entry and its key.
THEOREM EntriesKept == Spec => []EntryKept
<1>1. IInv => EntryKept
  <2> SUFFICES ASSUME IInv PROVE EntryKept
    OBVIOUS
  <2>1. \A d \in entered : disk.trust[d] # None
    BY DEF IInv, Rest, Entered
  <2>2. \A d \in Devices : /\ tables.trust[d] # None => tables.dev[d] # None
                           /\ disk.trust[d] # None => disk.dev[d] # None
    BY DEF IInv, Rest, DevicesStored
  <2> QED BY <2>1, <2>2 DEF EntryKept
<1> QED BY <1>1, Invariant, PTL

\* The key of a registered device is never replaced.
THEOREM KeysKept == Spec => KeyKept
<1>1. IInv /\ [Next]_vars => \A d \in Devices : disk.dev[d] # None => disk'.dev[d] = disk.dev[d]
  <2> SUFFICES ASSUME IInv, [Next]_vars, NEW d \in Devices, disk.dev[d] # None
               PROVE  disk'.dev[d] = disk.dev[d]
    OBVIOUS
  <2> USE DEF IInv, Rest
  <2>1. CASE disk' = disk
    BY <2>1
  <2>2. ASSUME NEW t \in Threads, Step(t)
        PROVE  disk' \in {disk, tables}
    BY <2>2 DEF Step, BeginAdd, BeginRemove, Begin, BeginOther, FindDevice, AddDevice,
                FindEntry, AddEntry, FindRevoked, SetMark, Flush, Commit, Reload, Refused,
                database
  <2>3. CASE disk' = tables
    BY <2>3 DEF Grown
  <2>4. ASSUME Crash \/ Shutdown
        PROVE  disk'.dev[d] = disk.dev[d]
    <3>1. ASSUME NEW db \in Tables, db.dev[d] = disk.dev[d], disk' = register_self(db)
          PROVE  disk'.dev[d] = disk.dev[d]
      BY <3>1, Registered
    <3>2. CASE disk' = register_self(disk)
      BY <3>1, <3>2 DEF TypeOK
    <3>3. CASE /\ Shutdown /\ Insertable(pending, tables)
               /\ disk' = register_self(Flushed(pending, tables))
      <4>1. tables = disk
        BY <3>3, TrustAssumption DEF Shutdown, Idle, At, OneCommitter, CommitterKnown, Synced
      <4>2. /\ Flushed(pending, tables) \in Tables
            /\ Flushed(pending, tables).dev[d] = tables.dev[d]
        BY <3>3, <4>1, FlushedRows DEF TypeOK
      <4> QED BY <3>1, <3>3, <4>1, <4>2
    <3> QED BY <2>4, <3>2, <3>3 DEF Crash, Shutdown
  <2>5. UNCHANGED vars => disk' = disk
    BY DEF vars
  <2> QED BY <2>1, <2>2, <2>3, <2>4, <2>5 DEF Next
<1>2. IInv /\ [Next]_vars =>
        [\A d \in Devices : disk.dev[d] # None => disk'.dev[d] = disk.dev[d]]_vars
  BY <1>1
<1> QED BY <1>2, Invariant, PTL DEF Spec, KeyKept

\* remove_trusted finds every device that an add was answered for.
THEOREM EnteredFound == Spec => EnteredIsFound
<1> DEFINE A == \A t \in Threads :
        req'[t].out = "not_found" /\ ~Idle(t) => req[t].dev \notin entered
<1>1. IInv /\ [Next]_vars => A
  <2> SUFFICES ASSUME IInv, [Next]_vars, NEW u \in Threads,
                      req'[u].out = "not_found", ~Idle(u)
               PROVE  req[u].dev \notin entered
    OBVIOUS
  <2> USE DEF IInv, Rest
  <2>1. req[u].out = "none" /\ req[u] \in Request
    BY DEF Requests, Proper, Idle, At, TypeOK
  <2>2. ASSUME NEW t \in Threads, Step(t)
        PROVE  u = t /\ FindRevoked(t) /\ Entry(req[t].dev) = None
    <3>1. CASE u # t
      <4>1. \A x : \/ req' = [req EXCEPT ![t] = x]
                  \/ req' = [req EXCEPT ![t].step = x]
                  => req'[u] = req[u]
        BY <3>1 DEF TypeOK
      <4>2. (\E s : Goto(t, s)) \/ (\E o : Finish(t, o)) => req'[u] = req[u]
        BY <4>1 DEF Goto, Finish
      <4>3. BeginOther(t) \/ SetMark(t) => req'[u] = req[u]
        BY <3>1 DEF BeginOther, SetMark, TypeOK
      <4>4. ASSUME NEW d, NEW op, NEW k, NEW s, Begin(t, op, d, k, s)
            PROVE  req'[u].out = req[u].out
        <5>1. req'[u] = [req[u] EXCEPT !.sole = @ /\ req[u].dev # d]
          BY <3>1, <4>4 DEF Begin
        <5> QED BY <2>1, <5>1 DEF Request
      <4>5. \/ \E s : Goto(t, s)
            \/ \E o : Finish(t, o)
            \/ BeginOther(t) \/ SetMark(t)
            \/ \E d, op, k, s : Begin(t, op, d, k, s)
        BY <2>2 DEF Step, BeginAdd, BeginRemove, FindDevice, AddDevice, FindEntry,
            AddEntry, FindRevoked, Flush, Commit, Reload, Refused, Answered
      <4> QED BY <2>1, <4>2, <4>3, <4>4, <4>5
    <3>2. CASE u = t
      <4>1. ~Idle(t)
        BY <3>2
      <4>2. \A s : Goto(t, s) => req'[t].out = "none"
        BY <2>1, <3>2 DEF Goto, TypeOK, Request
      <4>3. Finish(t, "none") => req'[t].out = "none"
        BY DEF Finish, IdleRequest, TypeOK
      <4>4. SetMark(t) => req'[t].out = "none"
        BY <2>1, <3>2 DEF SetMark, TypeOK, Request
      <4> QED BY <2>2, <3>2, <4>1, <4>2, <4>3, <4>4
          DEF Step, BeginAdd, BeginRemove, Begin, BeginOther, FindDevice, AddDevice,
              FindEntry, AddEntry, FindRevoked, Flush, Commit, Reload, Refused, Answered
    <3> QED BY <3>1, <3>2
  <2>3. ASSUME Crash \/ Shutdown PROVE req'[u].out = "none"
    BY <2>3 DEF Crash, Shutdown, Restart, IdleRequest
  <2>4. UNCHANGED vars => req'[u].out = "none"
    BY <2>1 DEF vars
  <2>5. Entry(req[u].dev) = None => req[u].dev \notin entered
    <3> SUFFICES ASSUME req[u].dev \in entered, Entry(req[u].dev) = None
                 PROVE  FALSE
      OBVIOUS
    <3>1. req[u].dev \in Devices /\ disk.trust[req[u].dev] # None
      BY DEF Entered, TypeOK
    <3> QED BY <3>1 DEF Grown, Entry
  <2> QED BY <2>2, <2>3, <2>4, <2>5 DEF Next
<1>2. IInv /\ [Next]_vars => [A]_vars
  BY <1>1
<1> QED BY <1>2, Invariant, PTL DEF Spec, EnteredIsFound

=============================================================================
