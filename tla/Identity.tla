------------------------------ MODULE Identity ------------------------------
(***************************************************************************)
(* The OAuth identity of the user: the device flow of login, refresh, the  *)
(* question who is logged in, and logout, called by any process of the     *)
(* user on the one file identity.json.  A step is one access to the file,  *)
(* one request to the provider, or a sleep.  Times are what is left of     *)
(* them, in units of a tick.                                               *)
(***************************************************************************)
EXTENDS Naturals, FiniteSets

CONSTANTS
    Procs,     \* processes that call the functions of auth
    Accounts,  \* identity ids (the sub claim)
    None,      \* no file, no token, nobody
    Torn,      \* a file that is not JSON: truncated, or two writes in one
    Attempts,  \* max_attempts of poll_for_token
    Interval,  \* the interval the provider asks for
    SlowDown,  \* what a slow_down adds to it
    Life,      \* expires_in of an access token
    Buffer     \* what is_expired takes off it

ASSUME IdentityAssumption ==
    /\ {Attempts, Interval, SlowDown, Life, Buffer} \subseteq Nat
    /\ Attempts > 0
    /\ None # Torn
    /\ {None, Torn, "nobody"} \cap Accounts = {}
    /\ None \notin {"login", "refresh", "ask", "logout", "nobody"}
    /\ \A t \in {None, Torn} : t \notin [sub : Accounts, access : Accounts,
            refresh : Accounts \cup {None}, left : Nat, valid : Nat,
            late : BOOLEAN]

VARIABLES
    file,      \* identity.json
    call,      \* the call each process is in
    code,      \* the provider's side of each device flow
    meant,     \* whom the last undisturbed login or logout left logged in
    spoilt     \* a save was cut short, or two of them ran at once

vars == <<file, call, code, meant, spoilt>>

-----------------------------------------------------------------------------
(* Types. *)

\* Whose identity_id, access_token and refresh_token; the last may be empty.
\* left: up to expires_at; valid: as long as the provider takes the access token;
\* late: expires_at was worked out more than the buffer after the provider sold
\* the token (the program has no such field: it is for the properties).
Token == [sub : Accounts, access : Accounts, refresh : Accounts \cup {None},
          left : 0 .. Life, valid : 0 .. Life, late : BOOLEAN]

MaxInterval == Interval + Attempts * SlowDown

Writing == {"truncate", "write"}
Steps == {"idle", "start", "sleep", "poll", "userinfo", "load", "post", "posted",
          "check", "unlink"} \cup Writing

\* interval and tries are poll_for_token's; wait: what is left of its sleep;
\* sole: no other call that may disturb this one ran beside it; out: the
\* identity get_identity_id returned last.
Call == [op : {"login", "refresh", "ask", "logout", None}, at : Steps,
         token : Token \cup {None}, interval : 0 .. MaxInterval,
         wait : 0 .. MaxInterval, tries : 0 .. Attempts, sole : BOOLEAN,
         out : Accounts \cup {None}]

\* pace: the seconds the provider wants between two polls, since: those that
\* went by since the last one, as far as they count.
Code == [user : Accounts \cup {None}, pace : 0 .. MaxInterval, since : 0 .. MaxInterval]

TypeOK ==
    /\ file \in Token \cup {None, Torn}
    /\ call \in [Procs -> Call]
    /\ code \in [Procs -> Code]
    /\ meant \in Accounts \cup {"nobody", None}
    /\ spoilt \in BOOLEAN

IdleCall(out) == [op |-> None, at |-> "idle", token |-> None, interval |-> 0,
                  wait |-> 0, tries |-> 0, sole |-> FALSE, out |-> out]
NoCode == [user |-> None, pace |-> 0, since |-> 0]

Init ==
    /\ file = None
    /\ call = [p \in Procs |-> IdleCall(None)]
    /\ code = [p \in Procs |-> NoCode]
    /\ meant = None
    /\ spoilt = FALSE

-----------------------------------------------------------------------------
(* Calls begin and end. *)

At(p, step) == call[p].at = step
Goto(p, step) == call' = [call EXCEPT ![p].at = step]
Return(p, out) == call' = [call EXCEPT ![p] = IdleCall(out)]
Raise(p) == Return(p, None)

\* A question takes no harm from a refresh.
Disturbs(op, other) ==
    op \in {"login", "logout"} \/ (op = "refresh" /\ other # "ask")

Begin(p, op, step) ==
    /\ At(p, "idle")
    /\ call' = [q \in Procs |->
            IF q = p THEN [IdleCall(None) EXCEPT !.op = op, !.at = step,
                            !.sole = \A r \in Procs : ~Disturbs(call[r].op, op)]
            ELSE [call[q] EXCEPT !.sole = @ /\ ~Disturbs(op, call[q].op)]]
    /\ meant' = IF op \in {"login", "logout"} THEN None ELSE meant
    /\ UNCHANGED <<file, code, spoilt>>

login(p) == Begin(p, "login", "start")
refresh_token(p) == Begin(p, "refresh", "load")
get_identity_id(p) == Begin(p, "ask", "load")
clear_token(p) == Begin(p, "logout", "unlink")

\* The process is killed.
Die(p) ==
    /\ ~At(p, "idle")
    /\ Raise(p)
    /\ spoilt' = (spoilt \/ At(p, "write"))
    /\ code' = [code EXCEPT ![p] = NoCode]
    /\ UNCHANGED <<file, meant>>

\* A request fails: no connection, no byte for longer than httpx waits for one
\* (which puts no limit on the whole answer), or an error for an answer.
RequestFails(p) ==
    /\ call[p].at \in {"start", "poll", "userinfo", "post", "posted"}
    /\ Raise(p)
    /\ code' = [code EXCEPT ![p] = NoCode]
    /\ UNCHANGED <<file, meant, spoilt>>

-----------------------------------------------------------------------------
(* login: the device flow. *)

\* Variant of StartDeviceFlow: one round too many.
StartDeviceFlowOver(p) ==
    /\ At(p, "start")
    /\ call' = [call EXCEPT ![p].at = "sleep", ![p].interval = Interval,
                            ![p].wait = Interval, ![p].tries = Attempts + 1]
    /\ code' = [code EXCEPT ![p] = [user |-> None, pace |-> Interval, since |-> 0]]
    /\ UNCHANGED <<file, meant, spoilt>>

\* The device code, and the interval to poll at.
StartDeviceFlow(p) ==
    /\ At(p, "start")
    /\ call' = [call EXCEPT ![p].at = "sleep", ![p].interval = Interval,
                            ![p].wait = Interval, ![p].tries = Attempts]
    /\ code' = [code EXCEPT ![p] = [user |-> None, pace |-> Interval, since |-> 0]]
    /\ UNCHANGED <<file, meant, spoilt>>

\* The user enters the code, as one account or another.
Approve(p) ==
    /\ At(p, "sleep") /\ code[p].user = None
    /\ \E a \in Accounts : code' = [code EXCEPT ![p].user = a]
    /\ UNCHANGED <<file, call, meant, spoilt>>

\* time.sleep(interval) is over.
Wake(p) ==
    /\ At(p, "sleep") /\ call[p].wait = 0
    /\ Goto(p, "poll")
    /\ UNCHANGED <<file, code, meant, spoilt>>

\* Variant of Continue: the loop starts from the interval it was given.
ContinueAtFirstPace(p, slower) ==
    IF call[p].tries = 1 THEN Raise(p)
    ELSE call' = [call EXCEPT ![p].at = "sleep", ![p].tries = @ - 1,
                              ![p].wait = Interval]

\* The next round of the loop, if there is one.
Continue(p, slower) ==
    IF call[p].tries = 1 THEN Raise(p)
    ELSE call' = [call EXCEPT ![p].at = "sleep", ![p].tries = @ - 1,
                              ![p].interval = @ + slower,
                              ![p].wait = call[p].interval + slower]

\* More than the buffer went by since the provider sold the token.
Late(t) == t.valid + Buffer < Life

\* The provider's answer is a token if the user has entered the code, else to
\* go on as before, or slower; a refusal or an expired code is RequestFails.
Poll(p) ==
    /\ At(p, "poll")
    /\ \/ /\ code[p].user # None
          /\ \E r \in {code[p].user, None} :
                call' = [call EXCEPT ![p].at = "userinfo",
                    ![p].token = [sub |-> code[p].user, access |-> code[p].user,
                                  refresh |-> r, left |-> Life, valid |-> Life,
                                  late |-> FALSE]]
          /\ code' = [code EXCEPT ![p] = NoCode]
       \/ \E slower \in {0, SlowDown} :
          /\ code[p].user = None
          /\ Continue(p, slower)
          /\ code' = [code EXCEPT ![p] =
                IF call[p].tries = 1 THEN NoCode
                ELSE [code[p] EXCEPT !.since = 0, !.pace = code[p].pace + slower]]
    /\ UNCHANGED <<file, meant, spoilt>>

\* The token and the userinfo are there, after however long; expires_in counts
\* from here.
FetchUserinfo(p) ==
    /\ At(p, "userinfo")
    /\ call' = [call EXCEPT ![p].at = "truncate", ![p].token.left = Life,
                            ![p].token.late = Late(call[p].token),
                            ![p].token.sub = call[p].token.access]
    /\ UNCHANGED <<file, code, meant, spoilt>>

-----------------------------------------------------------------------------
(* The file. *)

\* Whom a login or a logout that nothing ran beside leaves logged in.
Settle(p, who) == meant' = IF call[p].sole /\ call[p].op # "refresh" THEN who ELSE meant

\* write_text: the file is opened, then written; over what another call has
\* written meanwhile, the end of that may stay.
Truncate(p) ==
    /\ At(p, "truncate")
    /\ file' = Torn
    /\ spoilt' = (spoilt \/ \E q \in Procs : At(q, "write"))
    /\ Goto(p, "write")
    /\ UNCHANGED <<code, meant>>

Write(p) ==
    /\ At(p, "write")
    /\ file' \in IF file = Torn THEN {call[p].token} ELSE {call[p].token, Torn}
    /\ Settle(p, call[p].token.sub)
    /\ Return(p, None)
    /\ UNCHANGED <<code, spoilt>>

\* unlink; a file that another call has open is then no longer the file, and
\* what it writes is lost.
Unlink(p) ==
    /\ At(p, "unlink")
    /\ file' = None
    /\ call' = [q \in Procs |-> IF q = p \/ At(q, "write") THEN IdleCall(None) ELSE call[q]]
    /\ Settle(p, "nobody")
    /\ UNCHANGED <<code, spoilt>>

\* load_token: raises if there is no file, or no JSON in it; refresh_token
\* raises if there is nothing to refresh with.
Load(p) ==
    /\ At(p, "load")
    /\ \/ /\ file \in {None, Torn}
          /\ Raise(p)
       \/ /\ file \notin {None, Torn}
          /\ IF call[p].op = "refresh" /\ file.refresh = None THEN Raise(p)
             ELSE call' = [call EXCEPT ![p].token = file,
                            ![p].at = IF call[p].op = "ask" THEN "check" ELSE "post"]
    /\ UNCHANGED <<file, code, meant, spoilt>>

\* Variant of Check: there is no buffer.
CheckToTheEnd(p) ==
    /\ At(p, "check")
    /\ IF call[p].token.left = 0 THEN Raise(p) ELSE Return(p, call[p].token.sub)
    /\ UNCHANGED <<file, code, meant, spoilt>>

\* Variant of Check: a token that has expired is removed.
CheckAndClear(p) ==
    /\ At(p, "check")
    /\ \/ /\ call[p].token.left > Buffer
          /\ Return(p, call[p].token.sub)
          /\ UNCHANGED file
       \/ call[p].token.left <= Buffer /\ Raise(p) /\ file' = None
    /\ UNCHANGED <<code, meant, spoilt>>

\* is_expired, with its buffer.
Check(p) ==
    /\ At(p, "check")
    /\ IF call[p].token.left <= Buffer THEN Raise(p) ELSE Return(p, call[p].token.sub)
    /\ UNCHANGED <<file, code, meant, spoilt>>

\* The provider sells an access token for the refresh token.
Post(p) ==
    /\ At(p, "post")
    /\ call' = [call EXCEPT ![p].at = "posted",
                            ![p].token.access = call[p].token.refresh,
                            ![p].token.valid = Life]
    /\ UNCHANGED <<file, code, meant, spoilt>>

\* Variant of Posted: the rest of the token is read again from the file.
PostedReread(p) ==
    /\ At(p, "posted")
    /\ call' = [call EXCEPT ![p].at = "truncate", ![p].token =
            [(IF file \in {None, Torn} THEN call[p].token ELSE file) EXCEPT
                !.access = call[p].token.access, !.valid = call[p].token.valid,
                !.late = Late(call[p].token), !.left = Life]]
    /\ UNCHANGED <<file, code, meant, spoilt>>

\* It goes into the token that was loaded; expires_in counts from here, however
\* long the answer took.
Posted(p) ==
    /\ At(p, "posted")
    /\ call' = [call EXCEPT ![p].at = "truncate", ![p].token.left = Life,
                            ![p].token.late = Late(call[p].token)]
    /\ UNCHANGED <<file, code, meant, spoilt>>

-----------------------------------------------------------------------------

Less(n) == IF n = 0 THEN 0 ELSE n - 1
Older(t) == IF t \in {None, Torn} THEN t
            ELSE [t EXCEPT !.left = Less(@), !.valid = Less(@)]

\* Time goes by for the tokens, the sleepers and the provider.
Tick ==
    /\ file' = Older(file)
    /\ call' = [p \in Procs |-> [call[p] EXCEPT !.token = Older(@), !.wait = Less(@)]]
    /\ code' = [p \in Procs |->
            [code[p] EXCEPT !.since = IF @ < code[p].pace THEN @ + 1 ELSE @]]
    /\ UNCHANGED <<meant, spoilt>>

Run(p) ==
    \/ StartDeviceFlow(p) \/ Wake(p) \/ Poll(p) \/ FetchUserinfo(p)
    \/ Truncate(p) \/ Write(p) \/ Unlink(p) \/ Load(p) \/ Check(p) \/ Post(p)
    \/ Posted(p) \/ RequestFails(p)

Next ==
    \/ \E p \in Procs :
        \/ login(p) \/ refresh_token(p) \/ get_identity_id(p) \/ clear_token(p)
        \/ Run(p) \/ Approve(p) \/ Die(p)
    \/ Tick

Spec == Init /\ [][Next]_vars

-----------------------------------------------------------------------------
(* Properties. *)

\* Who is logged in is up to login and logout: once one of them has ended with
\* no other change beside it, refreshes, questions, crashes and time leave the
\* file as it was, until the next login or logout begins; a save that was cut
\* short or ran into another one is all that makes the file unreadable.
AnswerStands ==
    /\ meant = "nobody" => file = None
    /\ meant \in Accounts =>
        IF file = Torn THEN spoilt \/ \E p \in Procs : At(p, "write")
        ELSE file # None /\ file.sub = meant

\* A stored token is of one account in all its parts, whichever login and
\* refresh ran at once (login 225-231, refresh_token 262-264).
TokenOfOneAccount ==
    file \notin {None, Torn} =>
        file.access = file.sub /\ file.refresh \in {file.sub, None}

\* get_identity_id answers with nobody else than who is logged in, unless a
\* login or a logout ran into the call, and, if the answers that brought the
\* token took no longer than the buffer, never on a token the provider takes no
\* more.  expires_at is counted from after the answers (230, 263), which nothing
\* bounds; the buffer of is_expired makes up for that, over refreshes and saves
\* that cross, up to its own length.
AnswerIsLoggedIn ==
    [][\A p \in Procs :
        call'[p].out # None /\ At(p, "check") =>
            /\ meant \in Accounts /\ call[p].sole => call'[p].out = meant
            /\ ~call[p].token.late => call[p].token.valid > 0]_vars

\* The device flow keeps the provider's pace: no poll comes sooner after the
\* last than the provider wants by then (RFC 8628; poll_for_token 160-180).
PaceKept ==
    [][\A p \in Procs : At(p, "poll") /\ ~At(p, "poll")' =>
        code[p].since >= code[p].pace]_vars
=============================================================================
