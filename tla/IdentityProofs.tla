---------------------------- MODULE IdentityProofs ----------------------------
(***************************************************************************)
(* Proofs about Identity, for any processes, accounts and durations.       *)
(***************************************************************************)
EXTENDS Identity, TLAPS

-----------------------------------------------------------------------------
(* The inductive invariant. *)

\* A token, however long it lasts.
AnyToken == [sub : Accounts, access : Accounts, refresh : Accounts \cup {None},
             left : Nat, valid : Nat, late : BOOLEAN]

\* What it is for a token to be of one account.
OfOne(t) == t.access = t.sub /\ t.refresh \in {t.sub, None}
Tokens == {t \in AnyToken : OfOne(t)}

\* Every call has the fields of Call, with durations of any length.
AnyCall == [op : {"login", "refresh", "ask", "logout", None}, at : Steps,
            token : AnyToken \cup {None}, interval : Nat, wait : Nat,
            tries : Nat, sole : BOOLEAN, out : Accounts \cup {None}]
Calls == call \in [Procs -> AnyCall]
Codes == code \in [Procs -> [user : Accounts \cup {None}, pace : Nat, since : Nat]]

FileOfOne == file \in Tokens \cup {None, Torn}

\* A call at one of these steps has a token.
Holding == {"userinfo", "post", "posted", "check"} \cup Writing

\* The token of a call is of one account too: what a refresh has loaded keeps
\* its account through the POST, which is made with that account's refresh
\* token, and is saved whatever the file has become by then.
CallOfOne(c) ==
    /\ c.at \in Holding => c.token \in Tokens
    /\ c.at = "load" => c.op \in {"refresh", "ask"}
    /\ c.at = "post" => c.token.refresh # None
    /\ c.at \in {"sleep", "poll"} => c.tries # 0
CallsOfOne == \A p \in Procs : CallOfOne(call[p])

IInv == Calls /\ Codes /\ FileOfOne /\ CallsOfOne

-----------------------------------------------------------------------------
(* Lemmas about the operators. *)

\* A clock that counts down stays a natural number.
LEMMA LessNat == \A n \in Nat : Less(n) \in Nat
BY DEF Less

\* The durations and what is computed of them are natural numbers.
LEMMA DurationsNat ==
    /\ Attempts \in Nat /\ Interval \in Nat /\ SlowDown \in Nat /\ Life \in Nat
    /\ Attempts # 0
<1>1. {Attempts, Interval, SlowDown, Life, Buffer} \subseteq Nat
    BY IdentityAssumption DEF IdentityAssumption
<1>2. Attempts > 0
    BY IdentityAssumption DEF IdentityAssumption
<1> QED
    BY <1>1, <1>2

\* Time changes neither the accounts of a token nor that it is one.
LEMMA OlderToken ==
    ASSUME NEW t \in Tokens
    PROVE  Older(t) \in Tokens /\ Older(t).refresh = t.refresh
<1>1. Less(t.left) \in Nat /\ Less(t.valid) \in Nat
    BY LessNat DEF Tokens, AnyToken
<1> QED
    BY <1>1 DEF Older, Tokens, AnyToken, OfOne

\* A token that ages is still a token.
LEMMA OlderAny ==
    ASSUME NEW t \in AnyToken \cup {None}
    PROVE  Older(t) \in AnyToken \cup {None}
<1>1. t \in AnyToken => Less(t.left) \in Nat /\ Less(t.valid) \in Nat
    BY LessNat DEF AnyToken
<1> QED
    BY <1>1 DEF Older, AnyToken

\* A call that has ended.
LEMMA IdleCallOfOne ==
    ASSUME NEW o \in Accounts \cup {None}
    PROVE  IdleCall(o) \in AnyCall /\ CallOfOne(IdleCall(o))
BY DEF IdleCall, AnyCall, CallOfOne, Holding, Writing, Steps

\* What a step of one process owes to the invariant: its own call.
LEMMA OneCall ==
    ASSUME Calls, CallsOfOne, NEW p \in Procs, NEW c \in AnyCall, CallOfOne(c),
           call' = [call EXCEPT ![p] = c]
    PROVE  Calls' /\ CallsOfOne'
BY DEF Calls, CallsOfOne

\* A call that returns keeps the claims about calls.
LEMMA Returns ==
    ASSUME Calls, CallsOfOne, NEW p \in Procs, NEW o \in Accounts \cup {None},
           Return(p, o)
    PROVE  Calls' /\ CallsOfOne'
BY IdleCallOfOne, OneCall DEF Return

\* A call that raises keeps the claims about calls.
LEMMA Raises ==
    ASSUME Calls, CallsOfOne, NEW p \in Procs, Raise(p)
    PROVE  Calls' /\ CallsOfOne'
BY Returns DEF Raise

-----------------------------------------------------------------------------
(* The invariant is inductive. *)

\* The invariant holds initially.
LEMMA InitIInv == Init => IInv
<1> SUFFICES ASSUME Init PROVE IInv
    OBVIOUS
<1>1. IdleCall(None) \in AnyCall /\ CallOfOne(IdleCall(None))
    BY IdleCallOfOne
<1>2. Calls /\ CallsOfOne
    BY <1>1 DEF Init, Calls, CallsOfOne
<1>3. Codes /\ FileOfOne
    BY DEF Init, NoCode, Codes, FileOfOne
<1> QED
    BY <1>2, <1>3 DEF IInv

\* A call begins, and may disturb the others.
LEMMA BeginIInv ==
    ASSUME IInv, NEW p \in Procs,
           login(p) \/ refresh_token(p) \/ get_identity_id(p) \/ clear_token(p)
    PROVE  IInv'
<1>1. PICK op, step : /\ Begin(p, op, step)
                      /\ \/ op = "login" /\ step = "start"
                         \/ op = "refresh" /\ step = "load"
                         \/ op = "ask" /\ step = "load"
                         \/ op = "logout" /\ step = "unlink"
    BY DEF login, refresh_token, get_identity_id, clear_token
<1>2. /\ [IdleCall(None) EXCEPT !.op = op, !.at = step,
            !.sole = \A r \in Procs : ~Disturbs(call[r].op, op)] \in AnyCall
      /\ CallOfOne([IdleCall(None) EXCEPT !.op = op, !.at = step,
            !.sole = \A r \in Procs : ~Disturbs(call[r].op, op)])
    BY <1>1 DEF IdleCall, AnyCall, CallOfOne, Holding, Writing, Steps
<1>3. ASSUME NEW q \in Procs, NEW s \in BOOLEAN
      PROVE  /\ [call[q] EXCEPT !.sole = s] \in AnyCall
             /\ CallOfOne([call[q] EXCEPT !.sole = s])
    BY DEF IInv, Calls, CallsOfOne, AnyCall, CallOfOne
<1>4. \A q \in Procs : (call[q].sole /\ ~Disturbs(op, call[q].op)) \in BOOLEAN
    OBVIOUS
<1>5. Calls' /\ CallsOfOne'
    BY <1>1, <1>2, <1>3, <1>4 DEF Begin, Calls, CallsOfOne
<1>6. Codes' /\ FileOfOne'
    BY <1>1 DEF Begin, IInv, Codes, FileOfOne
<1> QED
    BY <1>5, <1>6 DEF IInv

\* A call is killed or fails.
LEMMA EndsIInv ==
    ASSUME IInv, NEW p \in Procs, Die(p) \/ RequestFails(p)
    PROVE  IInv'
<1>1. Calls' /\ CallsOfOne'
    BY Raises DEF IInv, Die, RequestFails
<1>2. Codes'
    BY DEF IInv, Codes, Die, RequestFails, NoCode
<1>3. FileOfOne'
    BY DEF IInv, FileOfOne, Die, RequestFails
<1> QED
    BY <1>1, <1>2, <1>3 DEF IInv

\* The device flow: only what the user approves gets a token, and all of it is
\* for that account.
LEMMA DeviceFlowIInv ==
    ASSUME IInv, NEW p \in Procs,
           StartDeviceFlow(p) \/ Approve(p) \/ Wake(p) \/ Poll(p) \/ FetchUserinfo(p)
    PROVE  IInv'
<1> USE DEF IInv
<1>0. call[p] \in AnyCall /\ CallOfOne(call[p]) /\ code[p].user \in Accounts \cup {None}
    BY DEF Calls, CallsOfOne, Codes
<1>1. CASE StartDeviceFlow(p)
    <2> DEFINE c == [call[p] EXCEPT !.at = "sleep", !.interval = Interval,
                                    !.wait = Interval, !.tries = Attempts]
    <2>1. c \in AnyCall /\ CallOfOne(c)
        BY <1>0, DurationsNat DEF AnyCall, CallOfOne, Holding, Writing, Steps
    <2>2. call' = [call EXCEPT ![p] = c]
        BY <1>1 DEF StartDeviceFlow, Calls
    <2>3. Calls' /\ CallsOfOne'
        BY <2>1, <2>2, OneCall
    <2>4. Codes' /\ FileOfOne'
        BY <1>1, DurationsNat DEF StartDeviceFlow, Codes, FileOfOne
    <2> QED
        BY <2>3, <2>4
<1>2. CASE Approve(p)
    BY <1>2 DEF Approve, Calls, CallsOfOne, Codes, FileOfOne
<1>3. CASE Wake(p)
    <2> DEFINE c == [call[p] EXCEPT !.at = "poll"]
    <2>1. c \in AnyCall /\ CallOfOne(c)
        BY <1>0, <1>3 DEF Wake, At, AnyCall, CallOfOne, Holding, Writing, Steps
    <2>2. call' = [call EXCEPT ![p] = c]
        BY <1>3 DEF Wake, Goto, Calls
    <2>3. Calls' /\ CallsOfOne'
        BY <2>1, <2>2, OneCall
    <2> QED
        BY <1>3, <2>3 DEF Wake, Codes, FileOfOne
<1>4. CASE Poll(p)
    <2>1. FileOfOne'
        BY <1>4 DEF Poll, FileOfOne
    <2>2. CASE /\ code[p].user # None
               /\ \E r \in {code[p].user, None} :
                    call' = [call EXCEPT ![p].at = "userinfo",
                        ![p].token = [sub |-> code[p].user, access |-> code[p].user,
                                      refresh |-> r, left |-> Life, valid |-> Life,
                                      late |-> FALSE]]
               /\ code' = [code EXCEPT ![p] = NoCode]
        <3>1. PICK r \in {code[p].user, None} :
                call' = [call EXCEPT ![p].at = "userinfo",
                    ![p].token = [sub |-> code[p].user, access |-> code[p].user,
                                  refresh |-> r, left |-> Life, valid |-> Life,
                                  late |-> FALSE]]
            BY <2>2
        <3> DEFINE t == [sub |-> code[p].user, access |-> code[p].user,
                         refresh |-> r, left |-> Life, valid |-> Life, late |-> FALSE]
                   c == [call[p] EXCEPT !.at = "userinfo", !.token = t]
        <3>2. t \in Tokens
            BY <1>0, <2>2, DurationsNat DEF Tokens, AnyToken, OfOne
        <3> HIDE DEF t
        <3>3. c \in AnyCall /\ CallOfOne(c)
            BY <1>0, <3>2, DurationsNat
            DEF AnyCall, CallOfOne, Holding, Writing, Steps, Tokens
        <3>4. call' = [call EXCEPT ![p] = c]
            BY <3>1 DEF t, Calls
        <3>5. Calls' /\ CallsOfOne'
            BY <3>3, <3>4, OneCall
        <3>6. Codes'
            BY <2>2 DEF Codes, NoCode
        <3> QED
            BY <2>1, <3>5, <3>6
    <2>3. ASSUME NEW slower \in {0, SlowDown}, Continue(p, slower),
                 code' = [code EXCEPT ![p] =
                    IF call[p].tries = 1 THEN NoCode
                    ELSE [code[p] EXCEPT !.since = 0,
                                         !.pace = code[p].pace + slower]]
          PROVE  IInv'
        <3>1. slower \in Nat
            BY DurationsNat
        <3>3. CASE call[p].tries = 1
            <4>1. Continue(p, slower) => Raise(p)
                BY <3>3 DEF Continue
            <4>2. code' = [code EXCEPT ![p] = NoCode]
                BY <2>3, <3>3
            <4>3. Codes'
                BY <4>2 DEF Codes, NoCode
            <4> QED
                BY <2>1, <2>3, <4>1, <4>3, Raises
        <3>4. CASE call[p].tries # 1
            <4> DEFINE n == call[p].tries - 1
                       i == call[p].interval + slower
                       c == [call[p] EXCEPT !.at = "sleep", !.tries = n,
                                            !.interval = i, !.wait = i]
            <4>0. call[p].tries \in Nat /\ call[p].tries # 0
                BY <1>0, <1>4 DEF Poll, At, AnyCall, CallOfOne
            <4>4. n \in Nat /\ n # 0
                BY <4>0, <3>4
            <4>5. i \in Nat
                BY <1>0, <3>1 DEF AnyCall
            <4>2. call' = [call EXCEPT ![p] = c]
                BY <2>3, <3>4 DEF Continue, Calls
            <4> HIDE DEF n, i
            <4>1. c \in AnyCall /\ CallOfOne(c)
                BY <1>0, <4>4, <4>5 DEF AnyCall, CallOfOne, Holding, Writing, Steps
            <4>3. Calls' /\ CallsOfOne'
                BY <4>1, <4>2, OneCall
            <4> DEFINE k == code[p].pace + slower
                       d == [code[p] EXCEPT !.since = 0, !.pace = k]
            <4>6. k \in Nat
                BY <3>1 DEF Codes
            <4>7. code' = [code EXCEPT ![p] = d]
                BY <2>3, <3>4
            <4> HIDE DEF k
            <4>8. d \in [user : Accounts \cup {None}, pace : Nat, since : Nat]
                BY <4>6 DEF Codes
            <4>9. Codes'
                BY <4>7, <4>8 DEF Codes
            <4> QED
                BY <2>1, <4>3, <4>9
        <3> QED
            BY <3>3, <3>4
    <2> QED
        BY <1>4, <2>2, <2>3 DEF Poll
<1>5. CASE FetchUserinfo(p)
    <2>1. call[p].token \in Tokens
        BY <1>0, <1>5 DEF FetchUserinfo, At, CallOfOne, Holding
    <2> DEFINE l == Late(call[p].token)
               t == [call[p].token EXCEPT !.left = Life, !.late = l,
                                          !.sub = call[p].token.access]
               c == [call[p] EXCEPT !.at = "truncate", !.token = t]
    <2>6. l \in BOOLEAN
        BY DEF Late
    <2>3. call' = [call EXCEPT ![p] = c]
        <3>1. call \in [Procs -> AnyCall]
            BY DEF Calls
        <3>2. call' = [call EXCEPT ![p].at = "truncate", ![p].token.left = Life,
                                   ![p].token.late = l,
                                   ![p].token.sub = call[p].token.access]
            BY <1>5 DEF FetchUserinfo
        <3> HIDE DEF l
        <3> QED
            BY <3>1, <3>2
    <2> HIDE DEF l
    <2>2. t \in Tokens
        BY <2>1, <2>6, DurationsNat DEF Tokens, AnyToken, OfOne
    <2> HIDE DEF t
    <2>4. c \in AnyCall /\ CallOfOne(c)
        BY <1>0, <2>2 DEF AnyCall, CallOfOne, Holding, Writing, Steps, Tokens
    <2>5. Calls' /\ CallsOfOne'
        BY <2>3, <2>4, OneCall
    <2> QED
        BY <1>5, <2>5 DEF FetchUserinfo, Codes, FileOfOne
<1> QED
    BY <1>1, <1>2, <1>3, <1>4, <1>5

\* A step on the file: a save writes the token of its call, whose accounts are
\* one whatever the file is by then.
LEMMA FileIInv ==
    ASSUME IInv, NEW p \in Procs,
           Truncate(p) \/ Write(p) \/ Unlink(p) \/ Load(p) \/ Check(p)
    PROVE  IInv'
<1> USE DEF IInv
<1>0. call[p] \in AnyCall /\ CallOfOne(call[p])
    BY DEF Calls, CallsOfOne
<1>1. CASE Truncate(p)
    <2> DEFINE c == [call[p] EXCEPT !.at = "write"]
    <2>1. c \in AnyCall /\ CallOfOne(c)
        BY <1>0, <1>1 DEF Truncate, At, AnyCall, CallOfOne, Holding, Writing, Steps
    <2>2. call' = [call EXCEPT ![p] = c]
        BY <1>1 DEF Truncate, Goto, Calls
    <2>3. Calls' /\ CallsOfOne'
        BY <2>1, <2>2, OneCall
    <2> QED
        BY <1>1, <2>3 DEF Truncate, Codes, FileOfOne
<1>2. CASE Write(p)
    <2>1. Calls' /\ CallsOfOne'
        BY <1>2, Returns DEF Write
    <2>2. call[p].token \in Tokens
        BY <1>0, <1>2 DEF Write, At, CallOfOne, Holding, Writing
    <2> QED
        BY <1>2, <2>1, <2>2 DEF Write, Codes, FileOfOne
<1>3. CASE Unlink(p)
    <2>1. IdleCall(None) \in AnyCall /\ CallOfOne(IdleCall(None))
        BY IdleCallOfOne
    <2>2. Calls' /\ CallsOfOne'
        BY <1>3, <2>1 DEF Unlink, Calls, CallsOfOne
    <2> QED
        BY <1>3, <2>2 DEF Unlink, Codes, FileOfOne
<1>4. CASE Load(p)
    <2>1. Codes' /\ FileOfOne'
        BY <1>4 DEF Load, Codes, FileOfOne
    <2>2. CASE Raise(p)
        BY <2>1, <2>2, Raises
    <2>3. CASE ~Raise(p)
        <3> DEFINE s == IF call[p].op = "ask" THEN "check" ELSE "post"
                   c == [call[p] EXCEPT !.token = file, !.at = s]
        <3>1. /\ file \in Tokens /\ call[p].op \in {"refresh", "ask"}
              /\ call[p].op = "refresh" => file.refresh # None
              /\ call' = [call EXCEPT ![p].token = file, ![p].at = s]
            BY <1>0, <1>4, <2>3 DEF Load, At, CallOfOne, FileOfOne
        <3>2. s \in {"check", "post"} /\ (s = "post" => file.refresh # None)
            BY <3>1
        <3>3. call' = [call EXCEPT ![p] = c]
            BY <3>1 DEF Calls
        <3> HIDE DEF s
        <3>4. c \in AnyCall /\ CallOfOne(c)
            BY <1>0, <3>1, <3>2
            DEF AnyCall, CallOfOne, Holding, Writing, Steps, Tokens
        <3>5. Calls' /\ CallsOfOne'
            BY <3>3, <3>4, OneCall
        <3> QED
            BY <2>1, <3>5
    <2> QED
        BY <2>2, <2>3
<1>5. CASE Check(p)
    <2>1. CASE call[p].token.left <= Buffer
        BY <1>5, <2>1, Raises DEF Check, Codes, FileOfOne
    <2>2. CASE ~(call[p].token.left <= Buffer)
        <3>1. call[p].token.sub \in Accounts
            BY <1>0, <1>5 DEF Check, At, CallOfOne, Holding, Tokens, AnyToken
        <3> QED
            BY <1>5, <2>2, <3>1, Returns DEF Check, Codes, FileOfOne
    <2> QED
        BY <2>1, <2>2
<1> QED
    BY <1>1, <1>2, <1>3, <1>4, <1>5

\* A refresh gets an access token for the account of the refresh token it has
\* loaded, and puts it next to the rest of the token it has loaded.
LEMMA RefreshIInv ==
    ASSUME IInv, NEW p \in Procs, Post(p) \/ Posted(p)
    PROVE  IInv'
<1> USE DEF IInv
<1>0. call[p] \in AnyCall /\ CallOfOne(call[p])
    BY DEF Calls, CallsOfOne
<1>1. call[p].token \in Tokens
    BY <1>0 DEF Post, Posted, At, CallOfOne, Holding
<1>2. CASE Post(p)
    <2> DEFINE t == [call[p].token EXCEPT !.access = call[p].token.refresh,
                                          !.valid = Life]
               c == [call[p] EXCEPT !.at = "posted", !.token = t]
    <2>1. call[p].token.refresh # None
        BY <1>0, <1>2 DEF Post, At, CallOfOne
    <2>2. t \in Tokens
        BY <1>1, <2>1, DurationsNat DEF Tokens, AnyToken, OfOne
    <2>3. call' = [call EXCEPT ![p] = c]
        BY <1>2 DEF Post, Calls
    <2> HIDE DEF t
    <2>4. c \in AnyCall /\ CallOfOne(c)
        BY <1>0, <2>2, DurationsNat
        DEF AnyCall, CallOfOne, Holding, Writing, Steps, Tokens
    <2>5. Calls' /\ CallsOfOne'
        BY <2>3, <2>4, OneCall
    <2> QED
        BY <1>2, <2>5 DEF Post, Codes, FileOfOne
<1>3. CASE Posted(p)
    <2> DEFINE l == Late(call[p].token)
               t == [call[p].token EXCEPT !.left = Life, !.late = l]
               c == [call[p] EXCEPT !.at = "truncate", !.token = t]
    <2>5. l \in BOOLEAN
        BY DEF Late
    <2> HIDE DEF l
    <2>1. t \in Tokens
        BY <1>1, <2>5, DurationsNat DEF Tokens, AnyToken, OfOne
    <2>2. call' = [call EXCEPT ![p] = c]
        BY <1>3 DEF Posted, Calls, l
    <2> HIDE DEF t
    <2>3. c \in AnyCall /\ CallOfOne(c)
        BY <1>0, <2>1 DEF AnyCall, CallOfOne, Holding, Writing, Steps, Tokens
    <2>4. Calls' /\ CallsOfOne'
        BY <2>2, <2>3, OneCall
    <2> QED
        BY <1>3, <2>4 DEF Posted, Codes, FileOfOne
<1> QED
    BY <1>2, <1>3

\* Time goes by.
LEMMA TickIInv ==
    ASSUME IInv, Tick
    PROVE  IInv'
<1> USE DEF IInv
<1>1. FileOfOne'
    <2>1. CASE file \in Tokens
        BY <2>1, OlderToken DEF Tick, FileOfOne
    <2>2. CASE file \in {None, Torn}
        BY <2>2 DEF Tick, FileOfOne, Older
    <2> QED
        BY <2>1, <2>2 DEF FileOfOne
<1>2. ASSUME NEW p \in Procs
      PROVE  call'[p] \in AnyCall /\ CallOfOne(call'[p])
    <2> DEFINE t == Older(call[p].token)
               w == Less(call[p].wait)
    <2>1. call[p] \in AnyCall /\ CallOfOne(call[p])
        BY DEF Calls, CallsOfOne
    <2>2. call'[p] = [call[p] EXCEPT !.token = t, !.wait = w]
        BY DEF Tick
    <2>3. t \in AnyToken \cup {None} /\ w \in Nat
        BY <2>1, OlderAny, LessNat DEF AnyCall
    <2>4. call[p].token \in Tokens => t \in Tokens /\ t.refresh = call[p].token.refresh
        BY OlderToken
    <2> HIDE DEF t, w
    <2> QED
        BY <2>1, <2>2, <2>3, <2>4 DEF AnyCall, CallOfOne, Holding
<1>3. Calls' /\ CallsOfOne'
    BY <1>2 DEF Tick, Calls, CallsOfOne
<1>4. Codes'
    <2>1. ASSUME NEW p \in Procs
          PROVE  code'[p] \in [user : Accounts \cup {None}, pace : Nat, since : Nat]
        <3> DEFINE n == IF code[p].since < code[p].pace THEN code[p].since + 1
                        ELSE code[p].since
        <3>1. code'[p] = [code[p] EXCEPT !.since = n]
            BY DEF Tick
        <3>2. n \in Nat
            BY DEF Codes
        <3> HIDE DEF n
        <3> QED
            BY <3>1, <3>2 DEF Codes
    <2> QED
        BY <2>1 DEF Tick, Codes
<1> QED
    BY <1>1, <1>3, <1>4

\* No step leaves the invariant.
LEMMA StepIInv == IInv /\ [Next]_vars => IInv'
<1> SUFFICES ASSUME IInv, [Next]_vars PROVE IInv'
    OBVIOUS
<1>1. ASSUME NEW p \in Procs,
             \/ login(p) \/ refresh_token(p) \/ get_identity_id(p) \/ clear_token(p)
             \/ Run(p) \/ Approve(p) \/ Die(p)
      PROVE  IInv'
    BY <1>1, BeginIInv, EndsIInv, DeviceFlowIInv, FileIInv, RefreshIInv DEF Run
<1>2. CASE Tick
    BY <1>2, TickIInv
<1>3. CASE UNCHANGED vars
    BY <1>3 DEF vars, IInv, Calls, Codes, FileOfOne, CallsOfOne
<1> QED
    BY <1>1, <1>2, <1>3 DEF Next

-----------------------------------------------------------------------------

\* A stored token is of one account in all its parts, for any processes,
\* accounts and durations, and whichever login, refresh and logout ran at once.
THEOREM AccountsAgree == Spec => []TokenOfOneAccount
<1>1. IInv => TokenOfOneAccount
    BY DEF IInv, FileOfOne, TokenOfOneAccount, Tokens, OfOne
<1> QED
    BY <1>1, InitIInv, StepIInv, PTL DEF Spec
-----------------------------------------------------------------------------
(* Who is logged in: the books that AnswerStands and the action properties     *)
(* need beside the accounts of the tokens.                                     *)

\* What each kind of call does, and where it may be found; only a call that has
\* ended has an answer.
RoleOf(op, at) ==
    /\ op = "login" => at \in {"start", "sleep", "poll", "userinfo"} \cup Writing
    /\ op = "refresh" => at \in {"load", "post", "posted"} \cup Writing
    /\ op = "ask" => at \in {"load", "check"}
    /\ op = "logout" => at = "unlink"
    /\ op = None => at = "idle"
Roles == \A p \in Procs :
            RoleOf(call[p].op, call[p].at) /\ (call[p].op # None => call[p].out = None)

\* A call that nothing disturbed has nothing beside it that would have, and
\* while somebody logs in or out nobody is meant.
Changing == {"login", "logout"}
Undisturbed ==
    \A p, q \in Procs : call[p].sole /\ p # q => ~Disturbs(call[q].op, call[p].op)
Settling == \A p \in Procs : call[p].op \in Changing => meant = None

\* A save that is under way has the file to itself, or something is spoilt.
Saves ==
    ~spoilt =>
        /\ \A p, q \in Procs : At(p, "write") /\ At(q, "write") => p = q
        /\ file = Torn <=> \E p \in Procs : At(p, "write")

\* Whoever is meant is in the file and in the hands of the refreshes, and of the
\* questions that nothing disturbed.
FileMeant ==
    /\ meant = "nobody" => file = None
    /\ meant \in Accounts => file # None /\ (file # Torn => file.sub = meant)
CallMeant(p) ==
    /\ call[p].op = "refresh" /\ ~At(p, "load") =>
        meant # "nobody" /\ (meant \in Accounts => call[p].token.sub = meant)
    /\ At(p, "check") /\ call[p].sole /\ meant \in Accounts => call[p].token.sub = meant
Meant == FileMeant /\ \A p \in Procs : CallMeant(p)

\* The expiry of a token that is stored, checked or saved is no more than the
\* buffer past its end, unless its answers took longer than that: the validity
\* of an access token and the expiry set beside it come from the same request,
\* whichever refreshes cross.
Good(t) == ~t.late => t.left <= t.valid + Buffer
Fresh ==
    /\ file \notin {None, Torn} => Good(file)
    /\ \A p \in Procs :
            call[p].at \in {"check"} \cup Writing => Good(call[p].token)

\* A sleeper sleeps as long as the provider wants.
Paced ==
    \A p \in Procs :
        /\ call[p].at \in {"sleep", "poll"} => code[p].pace = call[p].interval
        /\ At(p, "sleep") => code[p].pace <= code[p].since + call[p].wait
        /\ At(p, "poll") => code[p].pace <= code[p].since

\* Durations and rounds keep within their bounds.
Lasts(t) == t.left <= Life /\ t.valid <= Life
Bounded ==
    /\ file \notin {None, Torn} => Lasts(file)
    /\ \A p \in Procs :
        /\ call[p].token # None => Lasts(call[p].token)
        /\ call[p].tries <= Attempts /\ call[p].wait <= MaxInterval
        /\ call[p].interval + call[p].tries * SlowDown <= MaxInterval
        /\ code[p].pace <= MaxInterval /\ code[p].since <= code[p].pace

\* The two marks.
Marks == meant \in Accounts \cup {"nobody", None} /\ spoilt \in BOOLEAN

Stands == /\ Roles /\ Undisturbed /\ Settling /\ Saves /\ Meant
          /\ Fresh /\ Paced /\ Bounded /\ Marks

-----------------------------------------------------------------------------
(* What the steps do to the calls, field by field. *)

Others(p) == \A q \in Procs : q # p => call'[q] = call[q]

\* Process p comes to a step of the call it is in.
Comes(p, at, token, interval, wait, tries) ==
    /\ call'[p].op = call[p].op /\ (call'[p].sole <=> call[p].sole)
    /\ call'[p].out = call[p].out
    /\ call'[p].at = at /\ call'[p].token = token /\ call'[p].interval = interval
    /\ call'[p].wait = wait /\ call'[p].tries = tries

\* Its call ends.
Idle(p, out) ==
    /\ call'[p].op = None /\ ~call'[p].sole /\ call'[p].out = out
    /\ call'[p].at = "idle" /\ call'[p].token = None /\ call'[p].interval = 0
    /\ call'[p].wait = 0 /\ call'[p].tries = 0

\* The provider's side of it.
CodeIs(p, user, pace, since) ==
    /\ code'[p].user = user /\ code'[p].pace = pace /\ code'[p].since = since
    /\ \A q \in Procs : q # p => code'[q] = code[q]

\* The fields of a call and of a code are of their types.
LEMMA CallFields ==
    ASSUME IInv, NEW p \in Procs
    PROVE  /\ call[p] \in AnyCall /\ call[p].at \in Steps
           /\ call[p].op \in {"login", "refresh", "ask", "logout", None}
           /\ call[p].token \in AnyToken \cup {None} /\ call[p].interval \in Nat
           /\ call[p].wait \in Nat /\ call[p].tries \in Nat /\ call[p].sole \in BOOLEAN
           /\ call[p].out \in Accounts \cup {None}
           /\ call[p].at \in Holding => call[p].token \in Tokens
           /\ code[p].user \in Accounts \cup {None}
           /\ code[p].pace \in Nat /\ code[p].since \in Nat
<1>1. call[p] \in AnyCall /\ CallOfOne(call[p])
    BY DEF IInv, Calls, CallsOfOne
<1>2. code[p] \in [user : Accounts \cup {None}, pace : Nat, since : Nat]
    BY DEF IInv, Codes
<1> QED
    BY <1>1, <1>2 DEF AnyCall, CallOfOne

\* A token is none of the marks of a file that has no token.
LEMMA TokensAreTokens ==
    ASSUME NEW t \in Tokens
    PROVE  /\ t # None /\ t # Torn /\ t.sub \in Accounts /\ t.access = t.sub
           /\ t.refresh \in {t.sub, None} /\ t.left \in Nat /\ t.valid \in Nat
BY IdentityAssumption DEF IdentityAssumption, Tokens, AnyToken, OfOne

\* A call that returns or raises.
LEMMA Ends ==
    ASSUME IInv, NEW p \in Procs, NEW out, Return(p, out)
    PROVE  Idle(p, out) /\ Others(p)
<1>1. call'[p] = IdleCall(out) /\ Others(p)
    BY DEF Return, IInv, Calls, Others
<1> QED
    BY <1>1 DEF Idle, IdleCall

\* The device flow as far as the poll.
LEMMA FlowSteps ==
    ASSUME IInv, NEW p \in Procs
    PROVE  /\ StartDeviceFlow(p) =>
                /\ At(p, "start") /\ Others(p) /\ CodeIs(p, None, Interval, 0)
                /\ Comes(p, "sleep", call[p].token, Interval, Interval, Attempts)
                /\ UNCHANGED <<file, meant, spoilt>>
           /\ Approve(p) =>
                /\ call' = call /\ UNCHANGED <<file, meant, spoilt>>
                /\ \E a : CodeIs(p, a, code[p].pace, code[p].since)
           /\ Wake(p) =>
                /\ At(p, "sleep") /\ call[p].wait = 0 /\ Others(p)
                /\ Comes(p, "poll", call[p].token, call[p].interval, call[p].wait,
                         call[p].tries)
                /\ UNCHANGED <<file, code, meant, spoilt>>
<1>1. call[p] \in AnyCall /\ code[p] \in [user : Accounts \cup {None}, pace : Nat, since : Nat]
      /\ call \in [Procs -> AnyCall]
      /\ code \in [Procs -> [user : Accounts \cup {None}, pace : Nat, since : Nat]]
    BY DEF IInv, Calls, Codes
<1>2. ASSUME StartDeviceFlow(p)
      PROVE  /\ Others(p) /\ CodeIs(p, None, Interval, 0)
             /\ Comes(p, "sleep", call[p].token, Interval, Interval, Attempts)
    <2>1. call'[p] = [call[p] EXCEPT !.at = "sleep", !.interval = Interval,
                                     !.wait = Interval, !.tries = Attempts]
          /\ Others(p)
        BY <1>1, <1>2 DEF StartDeviceFlow, Others
    <2>2. CodeIs(p, None, Interval, 0)
        BY <1>1, <1>2 DEF StartDeviceFlow, CodeIs
    <2> QED
        BY <1>1, <2>1, <2>2 DEF Comes, AnyCall
<1>3. ASSUME Approve(p)
      PROVE  \E a : CodeIs(p, a, code[p].pace, code[p].since)
    <2>1. PICK a \in Accounts : code' = [code EXCEPT ![p].user = a]
        BY <1>3 DEF Approve
    <2>2. code'[p] = [code[p] EXCEPT !.user = a] /\ \A q \in Procs : q # p => code'[q] = code[q]
        BY <1>1, <2>1
    <2>3. CodeIs(p, a, code[p].pace, code[p].since)
        BY <1>1, <2>2 DEF CodeIs
    <2> QED
        BY <2>3
<1>4. ASSUME Wake(p)
      PROVE  /\ Others(p)
             /\ Comes(p, "poll", call[p].token, call[p].interval, call[p].wait, call[p].tries)
    <2>1. call'[p] = [call[p] EXCEPT !.at = "poll"] /\ Others(p)
        BY <1>1, <1>4 DEF Wake, Goto, Others
    <2> QED
        BY <1>1, <2>1 DEF Comes, AnyCall
<1> QED
    BY <1>2, <1>3, <1>4 DEF StartDeviceFlow, Approve, Wake

\* The poll: a token of the account that approved, an end, or a slower sleep.
LEMMA PollSteps ==
    ASSUME IInv, NEW p \in Procs, Poll(p)
    PROVE  /\ At(p, "poll") /\ Others(p) /\ UNCHANGED <<file, meant, spoilt>>
           /\ \/ /\ CodeIs(p, None, 0, 0)
                 /\ \E t \in Tokens :
                    /\ t.left = Life /\ t.valid = Life
                    /\ Comes(p, "userinfo", t, call[p].interval, call[p].wait,
                             call[p].tries)
              \/ Idle(p, None) /\ CodeIs(p, None, 0, 0)
              \/ \E slower \in {0, SlowDown} :
                    /\ call[p].tries \notin {0, 1}
                    /\ Comes(p, "sleep", call[p].token, call[p].interval + slower,
                             call[p].interval + slower, call[p].tries - 1)
                    /\ CodeIs(p, None, code[p].pace + slower, 0)
<1>1. call[p] \in AnyCall /\ code[p] \in [user : Accounts \cup {None}, pace : Nat, since : Nat]
      /\ call \in [Procs -> AnyCall] /\ CallOfOne(call[p])
      /\ code \in [Procs -> [user : Accounts \cup {None}, pace : Nat, since : Nat]]
    BY DEF IInv, Calls, Codes, CallsOfOne
<1>2. At(p, "poll") /\ UNCHANGED <<file, meant, spoilt>>
    BY DEF Poll
<1>3. CASE code[p].user # None
    <2>1. PICK r \in {code[p].user, None} :
            call' = [call EXCEPT ![p].at = "userinfo",
                ![p].token = [sub |-> code[p].user, access |-> code[p].user,
                              refresh |-> r, left |-> Life, valid |-> Life,
                              late |-> FALSE]]
        BY <1>3 DEF Poll
    <2> DEFINE t == [sub |-> code[p].user, access |-> code[p].user,
                     refresh |-> r, left |-> Life, valid |-> Life, late |-> FALSE]
    <2>2. t \in Tokens /\ t.left = Life /\ t.valid = Life
        BY <1>1, <1>3, DurationsNat DEF Tokens, AnyToken, OfOne
    <2>3. call' = [call EXCEPT ![p].at = "userinfo", ![p].token = t]
        BY <2>1
    <2> HIDE DEF t
    <2>4. call'[p] = [call[p] EXCEPT !.at = "userinfo", !.token = t] /\ Others(p)
        BY <1>1, <2>3 DEF Others
    <2>5. Comes(p, "userinfo", t, call[p].interval, call[p].wait, call[p].tries)
        BY <1>1, <2>4 DEF Comes, AnyCall
    <2>6. CodeIs(p, None, 0, 0)
        BY <1>1, <1>3 DEF Poll, CodeIs, NoCode
    <2> QED
        BY <1>2, <2>2, <2>4, <2>5, <2>6
<1>4. CASE code[p].user = None
    <2>1. PICK slower \in {0, SlowDown} :
            /\ Continue(p, slower)
            /\ code' = [code EXCEPT ![p] =
                    IF call[p].tries = 1 THEN NoCode
                    ELSE [code[p] EXCEPT !.since = 0, !.pace = code[p].pace + slower]]
        BY <1>4 DEF Poll
    <2>2. CASE call[p].tries = 1
        <3>1. Idle(p, None) /\ Others(p)
            BY <2>1, <2>2, Ends DEF Continue, Raise
        <3>2. code' = [code EXCEPT ![p] = NoCode]
            BY <2>1, <2>2
        <3>3. CodeIs(p, None, 0, 0)
            BY <1>1, <3>2 DEF CodeIs, NoCode
        <3> QED
            BY <1>2, <3>1, <3>3
    <2>3. CASE call[p].tries # 1
        <3> DEFINE n == call[p].tries - 1
                   i == call[p].interval + slower
                   k == code[p].pace + slower
        <3>1. call' = [call EXCEPT ![p].at = "sleep", ![p].tries = n,
                                   ![p].interval = i, ![p].wait = i]
            BY <2>1, <2>3 DEF Continue
        <3>2. code' = [code EXCEPT ![p] = [code[p] EXCEPT !.since = 0, !.pace = k]]
            BY <2>1, <2>3
        <3> HIDE DEF n, i, k
        <3>3. call'[p] = [call[p] EXCEPT !.at = "sleep", !.tries = n, !.interval = i,
                                         !.wait = i]
              /\ Others(p)
            BY <1>1, <3>1 DEF Others
        <3>4. Comes(p, "sleep", call[p].token, i, i, n)
            BY <1>1, <3>3 DEF Comes, AnyCall
        <3>5. code'[p] = [code[p] EXCEPT !.since = 0, !.pace = k]
              /\ \A q \in Procs : q # p => code'[q] = code[q]
            BY <1>1, <3>2
        <3>6. CodeIs(p, None, k, 0)
            BY <1>1, <1>4, <3>5 DEF CodeIs
        <3>7. call[p].tries \notin {0, 1}
            BY <1>1, <1>2, <2>3 DEF At, CallOfOne
        <3> QED
            BY <1>2, <3>3, <3>4, <3>6, <3>7 DEF n, i, k
    <2> QED
        BY <2>2, <2>3
<1> QED
    BY <1>3, <1>4

\* The answers of the provider, and what is made of them: the token stays of the
\* account it was of, and the mark of a late answer is set as it should be.
LEMMA AnswerSteps ==
    ASSUME IInv, NEW p \in Procs
    PROVE  /\ FetchUserinfo(p) =>
                /\ At(p, "userinfo") /\ Others(p)
                /\ UNCHANGED <<file, code, meant, spoilt>>
                /\ \E t \in Tokens :
                    /\ t.left = Life /\ t.valid = call[p].token.valid
                    /\ t.late <=> Late(call[p].token)
                    /\ Comes(p, "truncate", t, call[p].interval, call[p].wait,
                             call[p].tries)
           /\ Post(p) =>
                /\ At(p, "post") /\ Others(p) /\ UNCHANGED <<file, code, meant, spoilt>>
                /\ \E t \in Tokens :
                    /\ t.sub = call[p].token.sub
                    /\ t.left = call[p].token.left /\ t.valid = Life
                    /\ Comes(p, "posted", t, call[p].interval, call[p].wait,
                             call[p].tries)
           /\ Posted(p) =>
                /\ At(p, "posted") /\ Others(p)
                /\ UNCHANGED <<file, code, meant, spoilt>>
                /\ \E t \in Tokens :
                    /\ t.sub = call[p].token.sub
                    /\ t.left = Life /\ t.valid = call[p].token.valid
                    /\ t.late <=> Late(call[p].token)
                    /\ Comes(p, "truncate", t, call[p].interval, call[p].wait,
                             call[p].tries)
<1>1. call[p] \in AnyCall /\ call \in [Procs -> AnyCall] /\ CallOfOne(call[p])
    BY DEF IInv, Calls, CallsOfOne
<1>2. ASSUME FetchUserinfo(p)
      PROVE  /\ Others(p)
             /\ \E t \in Tokens :
                    /\ t.left = Life /\ t.valid = call[p].token.valid
                    /\ t.late <=> Late(call[p].token)
                    /\ Comes(p, "truncate", t, call[p].interval, call[p].wait,
                             call[p].tries)
    <2>1. call[p].token \in Tokens
        BY <1>1, <1>2 DEF FetchUserinfo, At, CallOfOne, Holding
    <2> DEFINE l == Late(call[p].token)
               t == [call[p].token EXCEPT !.left = Life, !.late = l,
                                          !.sub = call[p].token.access]
    <2>6. l \in BOOLEAN /\ (l <=> Late(call[p].token))
        BY DEF Late
    <2>3. call' = [call EXCEPT ![p] = [call[p] EXCEPT !.at = "truncate", !.token = t]]
        BY <1>1, <1>2 DEF FetchUserinfo
    <2> HIDE DEF l
    <2>2. /\ t \in Tokens /\ t.left = Life /\ t.valid = call[p].token.valid
          /\ t.late <=> Late(call[p].token)
        BY <2>1, <2>6, DurationsNat DEF Tokens, AnyToken, OfOne
    <2> HIDE DEF t
    <2>4. call'[p] = [call[p] EXCEPT !.at = "truncate", !.token = t] /\ Others(p)
        BY <1>1, <2>3 DEF Others
    <2>5. Comes(p, "truncate", t, call[p].interval, call[p].wait, call[p].tries)
        BY <1>1, <2>4 DEF Comes, AnyCall
    <2> QED
        BY <2>2, <2>4, <2>5
<1>3. ASSUME Post(p)
      PROVE  /\ Others(p)
             /\ \E t \in Tokens :
                    /\ t.sub = call[p].token.sub
                    /\ t.left = call[p].token.left /\ t.valid = Life
                    /\ Comes(p, "posted", t, call[p].interval, call[p].wait,
                             call[p].tries)
    <2>1. call[p].token \in Tokens /\ call[p].token.refresh # None
        BY <1>1, <1>3 DEF Post, At, CallOfOne, Holding
    <2> DEFINE t == [call[p].token EXCEPT !.access = call[p].token.refresh, !.valid = Life]
    <2>2. /\ t \in Tokens /\ t.sub = call[p].token.sub
          /\ t.left = call[p].token.left /\ t.valid = Life
        BY <2>1, DurationsNat DEF Tokens, AnyToken, OfOne
    <2>3. call' = [call EXCEPT ![p] = [call[p] EXCEPT !.at = "posted", !.token = t]]
        BY <1>1, <1>3 DEF Post
    <2> HIDE DEF t
    <2>4. call'[p] = [call[p] EXCEPT !.at = "posted", !.token = t] /\ Others(p)
        BY <1>1, <2>3 DEF Others
    <2>5. Comes(p, "posted", t, call[p].interval, call[p].wait, call[p].tries)
        BY <1>1, <2>4 DEF Comes, AnyCall
    <2> QED
        BY <2>2, <2>4, <2>5
<1>4. ASSUME Posted(p)
      PROVE  /\ Others(p)
             /\ \E t \in Tokens :
                    /\ t.sub = call[p].token.sub
                    /\ t.left = Life /\ t.valid = call[p].token.valid
                    /\ t.late <=> Late(call[p].token)
                    /\ Comes(p, "truncate", t, call[p].interval, call[p].wait,
                             call[p].tries)
    <2>1. call[p].token \in Tokens
        BY <1>1, <1>4 DEF Posted, At, CallOfOne, Holding
    <2> DEFINE l == Late(call[p].token)
               t == [call[p].token EXCEPT !.left = Life, !.late = l]
    <2>6. l \in BOOLEAN /\ (l <=> Late(call[p].token))
        BY DEF Late
    <2>3. call' = [call EXCEPT ![p] = [call[p] EXCEPT !.at = "truncate", !.token = t]]
        BY <1>1, <1>4 DEF Posted
    <2> HIDE DEF l
    <2>2. /\ t \in Tokens /\ t.sub = call[p].token.sub
          /\ t.left = Life /\ t.valid = call[p].token.valid
          /\ t.late <=> Late(call[p].token)
        BY <2>1, <2>6, DurationsNat DEF Tokens, AnyToken, OfOne
    <2> HIDE DEF t
    <2>4. call'[p] = [call[p] EXCEPT !.at = "truncate", !.token = t] /\ Others(p)
        BY <1>1, <2>3 DEF Others
    <2>5. Comes(p, "truncate", t, call[p].interval, call[p].wait, call[p].tries)
        BY <1>1, <2>4 DEF Comes, AnyCall
    <2> QED
        BY <2>2, <2>4, <2>5
<1> QED
    BY <1>2, <1>3, <1>4 DEF FetchUserinfo, Post, Posted

\* The steps on the file.
LEMMA FileSteps ==
    ASSUME IInv, NEW p \in Procs
    PROVE  /\ Truncate(p) =>
                /\ At(p, "truncate") /\ Others(p) /\ file' = Torn
                /\ spoilt' = (spoilt \/ \E q \in Procs : At(q, "write"))
                /\ Comes(p, "write", call[p].token, call[p].interval, call[p].wait,
                         call[p].tries)
                /\ UNCHANGED <<code, meant>>
           /\ Write(p) =>
                /\ At(p, "write") /\ Others(p) /\ Idle(p, None)
                /\ file' = call[p].token \/ (file # Torn /\ file' = Torn)
                /\ Settle(p, call[p].token.sub) /\ UNCHANGED <<code, spoilt>>
           /\ Unlink(p) =>
                /\ At(p, "unlink") /\ Idle(p, None) /\ file' = None
                /\ \A q \in Procs : At(q, "write") => Idle(q, None)
                /\ \A q \in Procs : q # p /\ ~At(q, "write") => call'[q] = call[q]
                /\ Settle(p, "nobody") /\ UNCHANGED <<code, spoilt>>
           /\ Load(p) =>
                /\ At(p, "load") /\ Others(p) /\ UNCHANGED <<file, code, meant, spoilt>>
                /\ \/ Idle(p, None)
                   \/ /\ file \in Tokens
                      /\ Comes(p, IF call[p].op = "ask" THEN "check" ELSE "post", file,
                               call[p].interval, call[p].wait, call[p].tries)
           /\ Check(p) =>
                /\ At(p, "check") /\ Others(p) /\ UNCHANGED <<file, code, meant, spoilt>>
                /\ \/ Idle(p, None)
                   \/ Idle(p, call[p].token.sub) /\ ~(call[p].token.left <= Buffer)
<1>1. call[p] \in AnyCall /\ call \in [Procs -> AnyCall] /\ CallOfOne(call[p])
    BY DEF IInv, Calls, CallsOfOne
<1>2. ASSUME Truncate(p)
      PROVE  /\ Others(p)
             /\ Comes(p, "write", call[p].token, call[p].interval, call[p].wait,
                      call[p].tries)
    <2>1. call'[p] = [call[p] EXCEPT !.at = "write"] /\ Others(p)
        BY <1>1, <1>2 DEF Truncate, Goto, Others
    <2> QED
        BY <1>1, <2>1 DEF Comes, AnyCall
<1>3. ASSUME Write(p)
      PROVE  Others(p) /\ Idle(p, None) /\ (file' = call[p].token \/ (file # Torn /\ file' = Torn))
    <2>1. Return(p, None) /\ file' \in IF file = Torn THEN {call[p].token} ELSE {call[p].token, Torn}
        BY <1>3 DEF Write
    <2>2. Others(p) /\ Idle(p, None)
        BY <2>1, Ends
    <2> QED
        BY <2>1, <2>2
<1>4. ASSUME Unlink(p)
      PROVE  /\ Idle(p, None) /\ \A q \in Procs : At(q, "write") => Idle(q, None)
             /\ \A q \in Procs : q # p /\ ~At(q, "write") => call'[q] = call[q]
    <2>1. /\ call'[p] = IdleCall(None)
          /\ \A q \in Procs : At(q, "write") => call'[q] = IdleCall(None)
          /\ \A q \in Procs : q # p /\ ~At(q, "write") => call'[q] = call[q]
        BY <1>4 DEF Unlink
    <2> QED
        BY <2>1 DEF Idle, IdleCall
<1>5. ASSUME Load(p)
      PROVE  /\ Others(p)
             /\ \/ Idle(p, None)
                \/ /\ file \in Tokens
                   /\ Comes(p, IF call[p].op = "ask" THEN "check" ELSE "post", file,
                            call[p].interval, call[p].wait, call[p].tries)
    <2>1. CASE Raise(p)
        BY <2>1, Ends DEF Raise
    <2>2. CASE ~Raise(p)
        <3> DEFINE s == IF call[p].op = "ask" THEN "check" ELSE "post"
        <3>1. file \in Tokens /\ call' = [call EXCEPT ![p].token = file, ![p].at = s]
            BY <1>5, <2>2 DEF Load, IInv, FileOfOne
        <3> HIDE DEF s
        <3>2. call'[p] = [call[p] EXCEPT !.token = file, !.at = s] /\ Others(p)
            BY <1>1, <3>1 DEF Others
        <3>3. Comes(p, s, file, call[p].interval, call[p].wait, call[p].tries)
            BY <1>1, <3>2 DEF Comes, AnyCall
        <3> QED
            BY <3>1, <3>2, <3>3 DEF s
    <2> QED
        BY <2>1, <2>2
<1>6. ASSUME Check(p)
      PROVE  /\ Others(p)
             /\ \/ Idle(p, None)
                \/ Idle(p, call[p].token.sub) /\ ~(call[p].token.left <= Buffer)
    BY <1>6, Ends DEF Check, Raise
<1> QED
    BY <1>2, <1>3, <1>4, <1>5, <1>6 DEF Truncate, Write, Unlink, Load, Check

\* A call is killed or fails.
LEMMA EndSteps ==
    ASSUME IInv, NEW p \in Procs
    PROVE  /\ Die(p) =>
                /\ Idle(p, None) /\ Others(p) /\ CodeIs(p, None, 0, 0)
                /\ spoilt' = (spoilt \/ At(p, "write")) /\ UNCHANGED <<file, meant>>
           /\ RequestFails(p) =>
                /\ call[p].at \in {"start", "poll", "userinfo", "post", "posted"}
                /\ Idle(p, None) /\ Others(p) /\ CodeIs(p, None, 0, 0)
                /\ UNCHANGED <<file, meant, spoilt>>
<1>1. Raise(p) => Idle(p, None) /\ Others(p)
    BY Ends DEF Raise
<1>2. code' = [code EXCEPT ![p] = NoCode] => CodeIs(p, None, 0, 0)
    BY DEF IInv, Codes, CodeIs, NoCode
<1> QED
    BY <1>1, <1>2 DEF Die, RequestFails

\* A call begins: it has nothing, and disturbs others.
Begins(p, op, step) ==
    /\ At(p, "idle")
    /\ call'[p].op = op /\ call'[p].at = step /\ call'[p].out = None
    /\ call'[p].sole <=> \A q \in Procs : ~Disturbs(call[q].op, op)
    /\ call'[p].token = None /\ call'[p].interval = 0 /\ call'[p].wait = 0
    /\ call'[p].tries = 0
    /\ \A q \in Procs : q # p =>
        /\ call'[q].op = call[q].op /\ call'[q].at = call[q].at /\ call'[q].out = call[q].out
        /\ call'[q].sole <=> call[q].sole /\ ~Disturbs(op, call[q].op)
        /\ call'[q].token = call[q].token /\ call'[q].interval = call[q].interval
        /\ call'[q].wait = call[q].wait /\ call'[q].tries = call[q].tries
    /\ meant' = IF op \in Changing THEN None ELSE meant
    /\ UNCHANGED <<file, code, spoilt>>

\* Each kind of call begins at a step of its own.
Kinds == {<<"login", "start">>, <<"refresh", "load">>, <<"ask", "load">>,
          <<"logout", "unlink">>}

\* So do the four calls.
LEMMA BeginSteps ==
    ASSUME IInv, NEW p \in Procs,
           login(p) \/ refresh_token(p) \/ get_identity_id(p) \/ clear_token(p)
    PROVE  \E op, step : <<op, step>> \in Kinds /\ Begins(p, op, step)
<1>1. PICK op, step : Begin(p, op, step) /\ <<op, step>> \in Kinds
    BY DEF login, refresh_token, get_identity_id, clear_token, Kinds
<1>2. At(p, "idle") /\ (meant' = IF op \in Changing THEN None ELSE meant)
      /\ UNCHANGED <<file, code, spoilt>>
    BY <1>1 DEF Begin, Changing
<1>3. \A q \in Procs : call[q] \in AnyCall
    BY DEF IInv, Calls
<1> DEFINE s == \A r \in Procs : ~Disturbs(call[r].op, op)
<1>4. call'[p] = [IdleCall(None) EXCEPT !.op = op, !.at = step, !.sole = s]
    BY <1>1 DEF Begin
<1>5. /\ call'[p].op = op /\ call'[p].at = step /\ call'[p].out = None
      /\ call'[p].sole = s
      /\ call'[p].token = None /\ call'[p].interval = 0 /\ call'[p].wait = 0
      /\ call'[p].tries = 0
    <2> HIDE DEF s
    <2> QED
        BY <1>4 DEF IdleCall
<1>6. ASSUME NEW q \in Procs, q # p
      PROVE  /\ call'[q].op = call[q].op /\ call'[q].at = call[q].at
             /\ call'[q].out = call[q].out
             /\ call'[q].sole <=> call[q].sole /\ ~Disturbs(op, call[q].op)
             /\ call'[q].token = call[q].token /\ call'[q].interval = call[q].interval
             /\ call'[q].wait = call[q].wait /\ call'[q].tries = call[q].tries
    <2> DEFINE u == call[q].sole /\ ~Disturbs(op, call[q].op)
    <2>1. call'[q] = [call[q] EXCEPT !.sole = u]
        BY <1>1, <1>6 DEF Begin
    <2>2. u \in BOOLEAN
        OBVIOUS
    <2> HIDE DEF u
    <2>3. /\ call'[q].op = call[q].op /\ call'[q].at = call[q].at
          /\ call'[q].out = call[q].out /\ call'[q].sole = u
          /\ call'[q].token = call[q].token /\ call'[q].interval = call[q].interval
          /\ call'[q].wait = call[q].wait /\ call'[q].tries = call[q].tries
        BY <1>3, <2>1 DEF AnyCall
    <2> QED
        BY <2>3 DEF u
<1>7. call'[p].sole <=> s
    BY <1>5
<1>8. Begins(p, op, step)
    BY <1>2, <1>5, <1>6, <1>7 DEF Begins
<1> QED
    BY <1>1, <1>8

\* A token that ages.
Aged(t, u) == /\ u.sub = t.sub /\ (u.late <=> t.late)
              /\ u.left = Less(t.left) /\ u.valid = Less(t.valid)

\* Time takes from the times and from nothing else.
LEMMA TickSteps ==
    ASSUME IInv, Tick, NEW p \in Procs
    PROVE  /\ call'[p].op = call[p].op /\ call'[p].at = call[p].at
           /\ (call'[p].sole <=> call[p].sole) /\ call'[p].out = call[p].out
           /\ call'[p].interval = call[p].interval /\ call'[p].tries = call[p].tries
           /\ call'[p].wait = Less(call[p].wait)
           /\ call[p].token = None => call'[p].token = None
           /\ call[p].token # None => call'[p].token # None
                                      /\ Aged(call[p].token, call'[p].token)
           /\ code'[p].user = code[p].user /\ code'[p].pace = code[p].pace
           /\ code'[p].since = IF code[p].since < code[p].pace THEN code[p].since + 1
                               ELSE code[p].since
           /\ UNCHANGED <<meant, spoilt>>
<1>1. call[p] \in AnyCall
      /\ code[p] \in [user : Accounts \cup {None}, pace : Nat, since : Nat]
    BY DEF IInv, Calls, Codes
<1> DEFINE t == Older(call[p].token)
           w == Less(call[p].wait)
           n == IF code[p].since < code[p].pace THEN code[p].since + 1 ELSE code[p].since
<1>2. call'[p] = [call[p] EXCEPT !.token = t, !.wait = w]
      /\ code'[p] = [code[p] EXCEPT !.since = n] /\ UNCHANGED <<meant, spoilt>>
    BY DEF Tick
<1>3. call[p].token = None => t = None
    BY DEF Older
<1>4. call[p].token # None => t # None /\ Aged(call[p].token, t)
    <2>1. SUFFICES ASSUME call[p].token \in AnyToken
                   PROVE  t # None /\ Aged(call[p].token, t)
        BY <1>1 DEF AnyCall
    <2> DEFINE a == Less(call[p].token.left)
               b == Less(call[p].token.valid)
    <2>2. call[p].token \notin {None, Torn} /\ a \in Nat /\ b \in Nat
        BY <2>1, LessNat, IdentityAssumption DEF IdentityAssumption, AnyToken
    <2>3. t = [call[p].token EXCEPT !.left = a, !.valid = b]
        BY <2>2 DEF Older
    <2>4. None \notin AnyToken
        BY IdentityAssumption DEF IdentityAssumption, AnyToken
    <2> HIDE DEF t, a, b
    <2>5. t \in AnyToken /\ t.sub = call[p].token.sub /\ t.left = a /\ t.valid = b
          /\ (t.late <=> call[p].token.late)
        BY <2>1, <2>2, <2>3 DEF AnyToken
    <2> QED
        BY <2>4, <2>5 DEF Aged, a, b
<1> HIDE DEF t, w, n
<1>5. /\ call'[p].op = call[p].op /\ call'[p].at = call[p].at
      /\ (call'[p].sole <=> call[p].sole) /\ call'[p].out = call[p].out
      /\ call'[p].interval = call[p].interval /\ call'[p].tries = call[p].tries
      /\ call'[p].wait = w /\ call'[p].token = t
    BY <1>1, <1>2 DEF AnyCall
<1>6. code'[p].user = code[p].user /\ code'[p].pace = code[p].pace /\ code'[p].since = n
    BY <1>1, <1>2
<1> QED
    BY <1>2, <1>3, <1>4, <1>5, <1>6 DEF w, n

\* And so for the file.
LEMMA TickFile ==
    ASSUME IInv, Tick
    PROVE  /\ file \in {None, Torn} => file' = file
           /\ file \notin {None, Torn} => file' \notin {None, Torn} /\ Aged(file, file')
<1>1. file \in {None, Torn} => file' = file
    BY DEF Tick, Older
<1>2. ASSUME file \notin {None, Torn}
      PROVE  file' \notin {None, Torn} /\ Aged(file, file')
    <2> DEFINE a == Less(file.left)
               b == Less(file.valid)
    <2>1. file \in AnyToken /\ a \in Nat /\ b \in Nat
        BY <1>2, LessNat DEF IInv, FileOfOne, Tokens, AnyToken
    <2>2. file' = [file EXCEPT !.left = a, !.valid = b]
        BY <1>2 DEF Tick, Older
    <2>3. None \notin AnyToken /\ Torn \notin AnyToken
        BY IdentityAssumption DEF IdentityAssumption, AnyToken
    <2> HIDE DEF a, b
    <2>4. file' \in AnyToken /\ file'.sub = file.sub /\ file'.left = a /\ file'.valid = b
          /\ (file'.late <=> file.late)
        BY <2>1, <2>2 DEF AnyToken
    <2> QED
        BY <2>3, <2>4 DEF Aged, a, b
<1> QED
    BY <1>1, <1>2

-----------------------------------------------------------------------------
(* Roles, what runs undisturbed, and who is meant. *)

\* A call goes on in its role, or has ended.
Goes(q) == /\ call'[q].op = call[q].op /\ (call'[q].sole <=> call[q].sole)
           /\ call'[q].out = call[q].out /\ RoleOf(call'[q].op, call'[q].at)
Gone(q) == call'[q].op = None /\ ~call'[q].sole /\ call'[q].at = "idle"

\* Only a login or a logout that nothing disturbed changes who is meant.
MeantMoves ==
    \/ meant' = meant
    \/ \E p \in Procs :
        /\ call[p].sole /\ call[p].op \in Changing /\ Gone(p)
        /\ \/ At(p, "write") /\ meant' = call[p].token.sub
           \/ At(p, "unlink") /\ meant' = "nobody"

\* The names are told apart.
LEMMA Names ==
    /\ None \notin {"login", "refresh", "ask", "logout", "nobody"}
    /\ None \notin Accounts /\ Torn \notin Accounts /\ "nobody" \notin Accounts
    /\ None # Torn
BY IdentityAssumption DEF IdentityAssumption

\* What the steps of a call under way are to its role.
LEMMA RoleSteps ==
    ASSUME IInv, Roles, NEW p \in Procs, Run(p) \/ Approve(p) \/ Die(p)
    PROVE  \A q \in Procs : Goes(q) \/ Gone(q)
<1>1. /\ RoleOf(call[p].op, call[p].at)
      /\ call[p].op \in {"login", "refresh", "ask", "logout", None}
      /\ (At(p, "load") => call[p].op \in {"refresh", "ask"})
    BY CallFields DEF Roles, IInv, CallsOfOne, CallOfOne, At
<1>2. ASSUME NEW q \in Procs, call'[q] = call[q]
      PROVE  Goes(q)
    BY <1>2 DEF Roles, Goes
<1>3. ASSUME NEW q \in Procs, NEW out, Idle(q, out)
      PROVE  Gone(q)
    BY <1>3 DEF Idle, Gone
<1>4. ASSUME NEW at, NEW t, NEW i, NEW w, NEW n, Comes(p, at, t, i, w, n),
             RoleOf(call[p].op, at)
      PROVE  Goes(p)
    BY <1>4 DEF Comes, Goes
<1>5. ASSUME Others(p), Goes(p) \/ Gone(p)
      PROVE  \A q \in Procs : Goes(q) \/ Gone(q)
    BY <1>2, <1>5 DEF Others
<1>6. ASSUME StartDeviceFlow(p) \/ Wake(p)
      PROVE  \A q \in Procs : Goes(q) \/ Gone(q)
    <2>1. RoleOf(call[p].op, "sleep") /\ RoleOf(call[p].op, "poll")
        BY <1>1, <1>6, FlowSteps, Names DEF At, RoleOf, Writing
    <2> QED
        BY <1>4, <1>5, <1>6, <2>1, FlowSteps
<1>7. ASSUME Approve(p)
      PROVE  \A q \in Procs : Goes(q) \/ Gone(q)
    BY <1>2, <1>7, FlowSteps
<1>8. ASSUME Poll(p)
      PROVE  \A q \in Procs : Goes(q) \/ Gone(q)
    <2>1. RoleOf(call[p].op, "sleep") /\ RoleOf(call[p].op, "userinfo")
        BY <1>1, <1>8, PollSteps, Names DEF At, RoleOf, Writing
    <2> QED
        BY <1>3, <1>4, <1>5, <1>8, <2>1, PollSteps
<1>9. ASSUME FetchUserinfo(p) \/ Post(p) \/ Posted(p)
      PROVE  \A q \in Procs : Goes(q) \/ Gone(q)
    <2>1. /\ FetchUserinfo(p) \/ Posted(p) => RoleOf(call[p].op, "truncate")
          /\ Post(p) => RoleOf(call[p].op, "posted")
        BY <1>1, AnswerSteps, Names DEF At, RoleOf, Writing
    <2> QED
        BY <1>4, <1>5, <1>9, <2>1, AnswerSteps
<1>10. ASSUME Truncate(p)
       PROVE  \A q \in Procs : Goes(q) \/ Gone(q)
    <2>1. RoleOf(call[p].op, "write")
        BY <1>1, <1>10, FileSteps, Names DEF At, RoleOf, Writing
    <2> QED
        BY <1>4, <1>5, <1>10, <2>1, FileSteps
<1>11. ASSUME Unlink(p)
       PROVE  \A q \in Procs : Goes(q) \/ Gone(q)
    BY <1>2, <1>3, <1>11, FileSteps
<1>12. ASSUME Load(p)
       PROVE  \A q \in Procs : Goes(q) \/ Gone(q)
    <2> DEFINE s == IF call[p].op = "ask" THEN "check" ELSE "post"
    <2>1. RoleOf(call[p].op, s)
        BY <1>1, <1>12, FileSteps, Names DEF At, RoleOf
    <2>2. Idle(p, None) \/ Comes(p, s, file, call[p].interval, call[p].wait, call[p].tries)
        BY <1>12, FileSteps
    <2> HIDE DEF s
    <2> QED
        BY <1>3, <1>4, <1>5, <1>12, <2>1, <2>2, FileSteps
<1>13. ASSUME Write(p) \/ Check(p) \/ RequestFails(p) \/ Die(p)
       PROVE  \A q \in Procs : Goes(q) \/ Gone(q)
    BY <1>3, <1>5, <1>13, FileSteps, EndSteps
<1> QED
    BY <1>6, <1>7, <1>8, <1>9, <1>10, <1>11, <1>12, <1>13 DEF Run

\* Who is meant changes with the end of a call that nothing disturbed.
LEMMA MeantSteps ==
    ASSUME IInv, Roles, NEW p \in Procs, Run(p) \/ Approve(p) \/ Die(p)
    PROVE  MeantMoves
<1>1. ASSUME NEW who, Settle(p, who), Gone(p),
             RoleOf(call[p].op, "write") \/ RoleOf(call[p].op, "unlink")
      PROVE  \/ meant' = meant
             \/ call[p].sole /\ call[p].op \in Changing /\ Gone(p) /\ meant' = who
    BY <1>1, CallFields, Names DEF Settle, RoleOf, Changing, Writing
<1>2. RoleOf(call[p].op, call[p].at)
    BY DEF Roles
<1>3. CASE Write(p)
    <2>1. Settle(p, call[p].token.sub) /\ Gone(p) /\ At(p, "write")
        BY <1>3, FileSteps DEF Idle, Gone
    <2> QED
        BY <1>1, <1>2, <2>1 DEF MeantMoves, At
<1>4. CASE Unlink(p)
    <2>1. Settle(p, "nobody") /\ Gone(p) /\ At(p, "unlink")
        BY <1>4, FileSteps DEF Idle, Gone
    <2> QED
        BY <1>1, <1>2, <2>1 DEF MeantMoves, At
<1>5. CASE ~Write(p) /\ ~Unlink(p)
    BY <1>5, FlowSteps, PollSteps, AnswerSteps, FileSteps, EndSteps DEF Run, MeantMoves
<1> QED
    BY <1>3, <1>4, <1>5

\* A call that nothing disturbs stays alone with what would disturb it.
LEMMA RolesKept ==
    ASSUME IInv, Roles, Undisturbed, Settling,
           \A q \in Procs : Goes(q) \/ Gone(q), MeantMoves
    PROVE  Roles' /\ Undisturbed' /\ Settling'
<1>1. \A q \in Procs : call'[q].op # None => Goes(q)
    BY DEF Gone
<1>2. Roles'
    <2>1. ASSUME NEW q \in Procs
          PROVE  RoleOf(call'[q].op, call'[q].at) /\ (call'[q].op # None => call'[q].out = None)
        BY <1>1, Names DEF Goes, Gone, Roles, RoleOf
    <2> QED
        BY <2>1 DEF Roles
<1>3. Undisturbed'
    <2>1. ASSUME NEW p \in Procs, NEW q \in Procs, call'[p].sole, p # q
          PROVE  ~Disturbs(call'[q].op, call'[p].op)
        <3>1. Goes(p) /\ call[p].sole /\ ~Disturbs(call[q].op, call[p].op)
            BY <2>1 DEF Goes, Gone, Undisturbed
        <3> QED
            BY <1>1, <3>1, Names DEF Goes, Disturbs
    <2> QED
        BY <2>1 DEF Undisturbed
<1>4. Settling'
    <2>1. ASSUME NEW q \in Procs, call'[q].op \in Changing
          PROVE  meant' = None
        <3>1. Goes(q) /\ call[q].op \in Changing /\ meant = None
            BY <1>1, <2>1, Names DEF Goes, Changing, Settling
        <3>2. ~\E p \in Procs : call[p].sole /\ Gone(p)
            BY <2>1, <3>1, Names DEF Gone, Undisturbed, Disturbs, Changing
        <3> QED
            BY <3>1, <3>2 DEF MeantMoves
    <2> QED
        BY <2>1 DEF Settling
<1> QED
    BY <1>2, <1>3, <1>4

\* A call that begins takes note of what runs, and is noted by it.
LEMMA RolesBegin ==
    ASSUME IInv, Roles, Undisturbed, Settling, NEW p \in Procs,
           NEW op, NEW step, <<op, step>> \in Kinds, Begins(p, op, step)
    PROVE  Roles' /\ Undisturbed' /\ Settling'
<1>1. RoleOf(op, step) /\ op # None
    BY Names DEF Kinds, RoleOf, Writing
<1>2. Roles'
    <2>1. ASSUME NEW q \in Procs
          PROVE  RoleOf(call'[q].op, call'[q].at) /\ (call'[q].op # None => call'[q].out = None)
        BY <1>1 DEF Begins, Roles
    <2> QED
        BY <2>1 DEF Roles
<1>3. Undisturbed'
    <2>1. ASSUME NEW r \in Procs, NEW q \in Procs, call'[r].sole, r # q
          PROVE  ~Disturbs(call'[q].op, call'[r].op)
        BY <2>1 DEF Begins, Undisturbed
    <2> QED
        BY <2>1 DEF Undisturbed
<1>4. Settling'
    BY DEF Begins, Settling
<1> QED
    BY <1>2, <1>3, <1>4

\* The roles, step by step.
LEMMA RolesStep ==
    ASSUME IInv, Roles, Undisturbed, Settling, [Next]_vars
    PROVE  Roles' /\ Undisturbed' /\ Settling'
<1>1. ASSUME NEW p \in Procs,
             login(p) \/ refresh_token(p) \/ get_identity_id(p) \/ clear_token(p)
      PROVE  Roles' /\ Undisturbed' /\ Settling'
    BY <1>1, BeginSteps, RolesBegin
<1>2. ASSUME NEW p \in Procs, Run(p) \/ Approve(p) \/ Die(p)
      PROVE  Roles' /\ Undisturbed' /\ Settling'
    BY <1>2, RoleSteps, MeantSteps, RolesKept
<1>3. CASE Tick
    <2>1. ASSUME NEW q \in Procs
          PROVE  Goes(q)
        BY <1>3, TickSteps DEF Goes, Roles
    <2>2. MeantMoves
        BY <1>3 DEF Tick, MeantMoves
    <2> QED
        BY <2>1, <2>2, RolesKept
<1>4. CASE UNCHANGED vars
    BY <1>4, RolesKept DEF vars, Goes, Roles, MeantMoves
<1> QED
    BY <1>1, <1>2, <1>3, <1>4 DEF Next

\* The marks are what they may be, step by step.
LEMMA MarksStep ==
    ASSUME IInv, Roles, Marks, [Next]_vars
    PROVE  Marks'
<1>1. ASSUME MeantMoves
      PROVE  meant' \in Accounts \cup {"nobody", None}
    BY <1>1, CallFields, TokensAreTokens DEF MeantMoves, Marks, At, Holding, Writing
<1>2. ASSUME NEW p \in Procs, NEW op, NEW step, Begins(p, op, step)
      PROVE  Marks'
    BY <1>2 DEF Begins, Marks
<1>3. ASSUME NEW p \in Procs, Run(p) \/ Approve(p) \/ Die(p)
      PROVE  Marks'
    <2>1. meant' \in Accounts \cup {"nobody", None}
        BY <1>1, <1>3, MeantSteps
    <2>2. spoilt' \in BOOLEAN
        BY <1>3, FlowSteps, PollSteps, AnswerSteps, FileSteps, EndSteps DEF Run, Marks
    <2> QED
        BY <2>1, <2>2 DEF Marks
<1>4. CASE Tick \/ UNCHANGED vars
    BY <1>4 DEF Tick, vars, Marks
<1> QED
    BY <1>2, <1>3, <1>4, BeginSteps DEF Next

-----------------------------------------------------------------------------
(* What is in the file. *)

\* A step that neither begins nor ends a save keeps the claim about saves.
LEMMA SavesFrame ==
    ASSUME Saves, ~spoilt' => ~spoilt, file' = Torn <=> file = Torn,
           \A q \in Procs : call'[q].at = "write" <=> At(q, "write")
    PROVE  Saves'
BY DEF Saves, At

\* A save has the file to itself, step by step.
LEMMA SavesRun ==
    ASSUME IInv, Saves, NEW p \in Procs, Run(p) \/ Approve(p) \/ Die(p)
    PROVE  Saves'
<1>1. ASSUME Others(p), ~At(p, "write"), call'[p].at # "write",
             ~spoilt' => ~spoilt, file' = file
      PROVE  Saves'
    BY <1>1, SavesFrame DEF Others, At
<1>2. CASE StartDeviceFlow(p) \/ Wake(p) \/ Poll(p)
    BY <1>1, <1>2, FlowSteps, PollSteps DEF Comes, Idle, At
<1>3. CASE Approve(p)
    BY <1>3, FlowSteps, SavesFrame DEF At
<1>4. CASE FetchUserinfo(p) \/ Post(p) \/ Posted(p)
    BY <1>1, <1>4, AnswerSteps DEF Comes, At
<1>5. CASE Truncate(p)
    <2>1. /\ file' = Torn /\ call'[p].at = "write" /\ Others(p)
          /\ ~spoilt' => \A q \in Procs : ~At(q, "write")
        BY <1>5, FileSteps DEF Comes
    <2> QED
        BY <2>1 DEF Saves, At, Others
<1>6. CASE Write(p)
    <2>1. /\ At(p, "write") /\ Others(p) /\ call'[p].at = "idle" /\ UNCHANGED spoilt
          /\ file' = call[p].token \/ (file # Torn /\ file' = Torn)
        BY <1>6, FileSteps DEF Idle
    <2>2. call[p].token # Torn
        BY <2>1, CallFields, TokensAreTokens DEF At, Holding, Writing
    <2> QED
        BY <2>1, <2>2 DEF Saves, At, Others
<1>7. CASE Unlink(p)
    <2>1. /\ file' = None /\ \A q \in Procs : call'[q].at # "write"
        BY <1>7, FileSteps DEF Idle, At
    <2> QED
        BY <2>1, Names DEF Saves, At
<1>8. CASE Load(p)
    <2>1. Others(p) /\ At(p, "load") /\ UNCHANGED <<file, spoilt>>
        BY <1>8, FileSteps
    <2>2. call'[p].at # "write"
        BY <1>8, FileSteps DEF Comes, Idle
    <2> QED
        BY <1>1, <2>1, <2>2 DEF At
<1>9. CASE Check(p) \/ RequestFails(p)
    BY <1>1, <1>9, FileSteps, EndSteps DEF Idle, At
<1>10. CASE Die(p)
    <2>1. CASE At(p, "write")
        BY <1>10, <2>1, EndSteps DEF Saves
    <2>2. CASE ~At(p, "write")
        BY <1>1, <1>10, <2>2, EndSteps DEF Idle
    <2> QED
        BY <2>1, <2>2
<1> QED
    BY <1>2, <1>3, <1>4, <1>5, <1>6, <1>7, <1>8, <1>9, <1>10 DEF Run

\* And beside the steps of a call under way.
LEMMA SavesStep ==
    ASSUME IInv, Saves, [Next]_vars
    PROVE  Saves'
<1>1. ASSUME NEW p \in Procs, NEW op, NEW step, <<op, step>> \in Kinds,
             Begins(p, op, step)
      PROVE  Saves'
    BY <1>1, SavesFrame DEF Begins, Kinds, At
<1>2. CASE Tick
    <2>1. file' = Torn <=> file = Torn
        BY <1>2, TickFile, Names
    <2> QED
        BY <1>2, <2>1, TickSteps, SavesFrame DEF At, Tick
<1>3. CASE UNCHANGED vars
    BY <1>3, SavesFrame DEF vars, At
<1> QED
    BY <1>1, <1>2, <1>3, BeginSteps, SavesRun DEF Next

\* Calls that change no account keep the claim about who is meant.
LEMMA MeantFrame ==
    ASSUME Meant, NEW p \in Procs, meant' = meant, FileMeant',
           \A q \in Procs : q # p => call'[q] = call[q],
           call'[p].op = "refresh" /\ call'[p].at # "load" =>
                meant # "nobody" /\ (meant \in Accounts => call'[p].token.sub = meant),
           call'[p].at = "check" /\ call'[p].sole /\ meant \in Accounts =>
                call'[p].token.sub = meant
    PROVE  Meant'
<1>1. ASSUME NEW q \in Procs
      PROVE  CallMeant(q)'
    <2>1. CASE q = p
        BY <2>1 DEF CallMeant, At
    <2>2. CASE q # p
        BY <2>2 DEF Meant, CallMeant, At
    <2> QED
        BY <2>1, <2>2
<1> QED
    BY <1>1 DEF Meant

\* Who is meant is in the file, step by step.
LEMMA MeantRun ==
    ASSUME IInv, Roles, Undisturbed, Settling, Meant, NEW p \in Procs,
           Run(p) \/ Approve(p) \/ Die(p)
    PROVE  Meant'
<1>1. /\ RoleOf(call[p].op, call[p].at)
      /\ call[p].op \in {"login", "refresh", "ask", "logout", None}
    BY CallFields DEF Roles
<1>2. ASSUME meant' = meant, call[p].op \in Changing
      PROVE  Meant'
    <2>1. meant' = None
        BY <1>2 DEF Settling
    <2> QED
        BY <2>1, Names DEF Meant, FileMeant, CallMeant
<1>3. ASSUME meant' = meant, file' = file, Others(p), NEW out, Idle(p, out)
      PROVE  Meant'
    BY <1>3, MeantFrame, Names DEF Idle, Others, Meant, FileMeant
<1>4. CASE StartDeviceFlow(p) \/ Wake(p) \/ Poll(p) \/ FetchUserinfo(p)
    <2>1. meant' = meant /\ call[p].op = "login"
        BY <1>1, <1>4, FlowSteps, PollSteps, AnswerSteps, Names DEF RoleOf, At, Writing
    <2> QED
        BY <1>2, <2>1 DEF Changing
<1>5. CASE Approve(p)
    BY <1>5, FlowSteps DEF Meant, FileMeant, CallMeant, At
<1>6. CASE Post(p) \/ Posted(p)
    <2>1. /\ call[p].op = "refresh" /\ ~At(p, "load") /\ meant' = meant /\ file' = file
          /\ Others(p) /\ call'[p].token.sub = call[p].token.sub
          /\ call'[p].at # "check"
        BY <1>1, <1>6, AnswerSteps, Names DEF RoleOf, At, Writing, Comes
    <2> QED
        BY <2>1, MeantFrame DEF Others, Meant, FileMeant, CallMeant
<1>7. CASE Truncate(p)
    <2>1. /\ call[p].op \in {"login", "refresh"} /\ meant' = meant /\ file' = Torn
          /\ ~At(p, "load") /\ Others(p) /\ call'[p].token = call[p].token
          /\ call'[p].at = "write"
        BY <1>1, <1>7, FileSteps, Names DEF RoleOf, At, Comes
    <2>2. CASE call[p].op = "login"
        BY <1>2, <2>1, <2>2 DEF Changing
    <2>3. CASE call[p].op = "refresh"
        BY <2>1, <2>3, MeantFrame, Names DEF Others, Meant, FileMeant, CallMeant
    <2> QED
        BY <2>1, <2>2, <2>3
<1>8. CASE Write(p)
    <2>1. /\ call[p].op \in {"login", "refresh"} /\ Settle(p, call[p].token.sub)
          /\ ~At(p, "load") /\ Others(p) /\ Idle(p, None)
          /\ file' = call[p].token \/ file' = Torn
        BY <1>1, <1>8, FileSteps, Names DEF RoleOf, At
    <2>2. call[p].token.sub \in Accounts /\ call[p].token # None
        BY <1>8, CallFields, TokensAreTokens DEF Write, At, Holding, Writing
    <2>3. CASE call[p].op = "refresh"
        <3>1. meant' = meant /\ FileMeant'
            BY <2>1, <2>2, <2>3, Names DEF Settle, Meant, FileMeant, CallMeant
        <3> QED
            BY <2>1, <3>1, MeantFrame, Names DEF Others, Idle
    <2>4. CASE call[p].op = "login" /\ ~call[p].sole
        BY <1>2, <2>1, <2>4 DEF Changing, Settle
    <2>5. CASE call[p].op = "login" /\ call[p].sole
        <3>1. meant' = call[p].token.sub
            BY <2>1, <2>5 DEF Settle
        <3>2. FileMeant'
            BY <2>1, <2>2, <3>1, Names DEF FileMeant
        <3>3. ASSUME NEW q \in Procs
              PROVE  CallMeant(q)'
            <4>1. CASE q = p
                BY <2>1, <4>1, Names DEF Idle, CallMeant, At
            <4>2. CASE q # p
                BY <2>1, <2>5, <4>2 DEF Others, Undisturbed, Disturbs, CallMeant, At
            <4> QED
                BY <4>1, <4>2
        <3> QED
            BY <3>2, <3>3 DEF Meant
    <2> QED
        BY <2>1, <2>3, <2>4, <2>5
<1>9. CASE Unlink(p)
    <2>1. /\ call[p].op = "logout" /\ Settle(p, "nobody") /\ file' = None
        BY <1>1, <1>9, FileSteps, CallFields, Names DEF RoleOf, At, Writing
    <2>2. \A q \in Procs : call'[q].op # "refresh" \/ (q # p /\ call'[q] = call[q])
        BY <1>9, FileSteps, Names DEF Idle
    <2>3. CASE ~call[p].sole
        BY <1>2, <2>1, <2>3 DEF Changing, Settle
    <2>4. CASE call[p].sole
        <3>1. meant' = "nobody"
            BY <2>1, <2>4 DEF Settle
        <3>2. \A q \in Procs : call'[q].op # "refresh"
            BY <2>1, <2>2, <2>4 DEF Undisturbed, Disturbs
        <3> QED
            BY <2>1, <3>1, <3>2, Names DEF Meant, FileMeant, CallMeant
    <2> QED
        BY <2>3, <2>4
<1>10. CASE Load(p)
    <2>1. meant' = meant /\ file' = file /\ Others(p)
        BY <1>10, FileSteps
    <2>2. CASE Idle(p, None)
        BY <1>3, <2>1, <2>2
    <2>3. CASE ~Idle(p, None)
        <3>1. file \in Tokens /\ call'[p].token = file
            BY <1>10, <2>3, FileSteps DEF Comes
        <3>2. file # None /\ file # Torn
            BY <3>1, TokensAreTokens
        <3> QED
            BY <2>1, <3>1, <3>2, MeantFrame DEF Others, Meant, FileMeant
    <2> QED
        BY <2>2, <2>3
<1>11. CASE Check(p) \/ RequestFails(p) \/ Die(p)
    BY <1>3, <1>11, FileSteps, EndSteps
<1> QED
    BY <1>4, <1>5, <1>6, <1>7, <1>8, <1>9, <1>10, <1>11 DEF Run

\* And beside the steps of a call under way.
LEMMA MeantStep ==
    ASSUME IInv, Roles, Undisturbed, Settling, Meant, [Next]_vars
    PROVE  Meant'
<1>1. ASSUME NEW p \in Procs, NEW op, NEW step, <<op, step>> \in Kinds,
             Begins(p, op, step)
      PROVE  Meant'
    <2>1. CASE op \in Changing
        <3>1. meant' = None
            BY <1>1, <2>1 DEF Begins
        <3> QED
            BY <3>1, Names DEF Meant, FileMeant, CallMeant
    <2>2. CASE op \notin Changing
        <3>1. meant' = meant /\ file' = file /\ call'[p].at = "load"
            BY <1>1, <2>2 DEF Begins, Kinds, Changing
        <3>2. ASSUME NEW q \in Procs
              PROVE  CallMeant(q)'
            <4>1. CASE q = p
                BY <3>1, <4>1 DEF CallMeant, At
            <4>2. CASE q # p
                BY <1>1, <3>1, <4>2 DEF Begins, Meant, CallMeant, At
            <4> QED
                BY <4>1, <4>2
        <3> QED
            BY <3>1, <3>2 DEF Meant, FileMeant
    <2> QED
        BY <2>1, <2>2
<1>2. CASE Tick
    <2>1. FileMeant'
        BY <1>2, TickFile, Names DEF Aged, Tick, Meant, FileMeant
    <2>2. ASSUME NEW q \in Procs
          PROVE  CallMeant(q)'
        <3>1. /\ call'[q].op = call[q].op /\ call'[q].at = call[q].at
              /\ (call'[q].sole <=> call[q].sole) /\ meant' = meant
              /\ call[q].token # None => call'[q].token.sub = call[q].token.sub
            BY <1>2, TickSteps DEF Aged
        <3>2. (call[q].op = "refresh" /\ ~At(q, "load")) \/ At(q, "check") =>
                call[q].at \in Holding
            BY CallFields, Names DEF Roles, RoleOf, At, Holding, Writing
        <3>3. call[q].at \in Holding => call[q].token # None
            BY CallFields, TokensAreTokens
        <3> QED
            BY <3>1, <3>2, <3>3 DEF Meant, CallMeant, At
    <2> QED
        BY <2>1, <2>2 DEF Meant
<1>3. CASE UNCHANGED vars
    BY <1>3 DEF vars, Meant, FileMeant, CallMeant, At
<1> QED
    BY <1>1, <1>2, <1>3, BeginSteps, MeantRun DEF Next

-----------------------------------------------------------------------------
(* How long a token is good, how long a sleeper sleeps, and the bounds. *)

\* The limits of the durations.
LEMMA Limits ==
    /\ Life \in Nat /\ Buffer \in Nat
    /\ Interval \in Nat /\ SlowDown \in Nat /\ Attempts \in Nat
BY IdentityAssumption DEF IdentityAssumption

\* What Fresh claims of a call.
FreshCall(p) == call[p].at \in {"check"} \cup Writing => Good(call[p].token)

\* A step of one call keeps it for the others.
LEMMA FreshFrame ==
    ASSUME Fresh, NEW p \in Procs, \A q \in Procs : q # p => call'[q] = call[q],
           file' \notin {None, Torn} => Good(file'), FreshCall(p)'
    PROVE  Fresh'
<1>1. ASSUME NEW q \in Procs
      PROVE  FreshCall(q)'
    BY DEF Fresh, FreshCall, At
<1> QED
    BY <1>1 DEF Fresh, FreshCall

\* A token is good when it is saved and when it is loaded.
LEMMA FreshRun ==
    ASSUME IInv, Fresh, NEW p \in Procs, Run(p) \/ Approve(p) \/ Die(p)
    PROVE  Fresh'
<1>1. file \notin {None, Torn} => Good(file)
    BY DEF Fresh
<1>2. FreshCall(p)
    BY DEF Fresh, FreshCall
<1>3. ASSUME Others(p), file' \notin {None, Torn} => Good(file'),
             call'[p].at \in {"idle", "sleep", "poll", "userinfo", "post", "posted"}
      PROVE  Fresh'
    BY <1>3, FreshFrame DEF Others, FreshCall, At, Writing
<1>4. CASE StartDeviceFlow(p) \/ Wake(p)
    BY <1>1, <1>3, <1>4, FlowSteps DEF Comes
<1>5. CASE Approve(p)
    BY <1>5, FlowSteps DEF Fresh, At
<1>6. CASE Poll(p)
    BY <1>1, <1>3, <1>6, PollSteps DEF Comes, Idle
<1>7. CASE FetchUserinfo(p) \/ Posted(p)
    <2>1. /\ Others(p) /\ file' = file /\ call'[p].at = "truncate"
          /\ call'[p].token.left = Life /\ call'[p].token.valid = call[p].token.valid
          /\ call'[p].token.late <=> Late(call[p].token)
          /\ call[p].at \in Holding
        BY <1>7, AnswerSteps DEF Comes, At, Holding
    <2>2. call[p].token.valid \in Nat
        BY <2>1, CallFields, TokensAreTokens
    <2>3. ~Late(call[p].token) => Life <= call[p].token.valid + Buffer
        BY <2>2, Limits DEF Late
    <2>4. FreshCall(p)'
        BY <2>1, <2>3 DEF FreshCall, Good
    <2> QED
        BY <1>1, <2>1, <2>4, FreshFrame DEF Others
<1>8. CASE Post(p)
    BY <1>1, <1>3, <1>8, AnswerSteps DEF Comes
<1>9. CASE Truncate(p)
    <2>1. /\ Others(p) /\ file' = Torn /\ call'[p].at = "write" /\ At(p, "truncate")
          /\ call'[p].token = call[p].token
        BY <1>9, FileSteps DEF Comes
    <2>2. FreshCall(p)'
        BY <1>2, <2>1 DEF FreshCall, At, Writing
    <2> QED
        BY <2>1, <2>2, FreshFrame DEF Others
<1>10. CASE Write(p)
    <2>1. /\ Others(p) /\ call'[p].at = "idle" /\ At(p, "write")
          /\ file' = call[p].token \/ file' = Torn
        BY <1>10, FileSteps DEF Idle
    <2> QED
        BY <1>2, <1>3, <2>1 DEF FreshCall, At, Writing
<1>11. CASE Unlink(p)
    <2>1. file' = None
          /\ \A q \in Procs : call'[q].at = "idle" \/ call'[q] = call[q]
        BY <1>11, FileSteps DEF Idle
    <2>2. ASSUME NEW q \in Procs
          PROVE  FreshCall(q)'
        BY <2>1 DEF Fresh, FreshCall, At, Writing
    <2> QED
        BY <2>1, <2>2 DEF Fresh, FreshCall
<1>12. CASE Load(p)
    <2>1. Others(p) /\ file' = file
        BY <1>12, FileSteps
    <2>2. CASE call'[p].at = "check"
        <3>1. call'[p].token = file /\ file \in Tokens
            BY <1>12, <2>2, FileSteps DEF Comes, Idle
        <3>2. FreshCall(p)'
            BY <1>1, <2>2, <3>1, TokensAreTokens DEF FreshCall, At, Writing
        <3> QED
            BY <1>1, <2>1, <3>2, FreshFrame DEF Others
    <2>3. CASE call'[p].at # "check"
        BY <1>1, <1>3, <1>12, <2>1, <2>3, FileSteps DEF Comes, Idle
    <2> QED
        BY <2>2, <2>3
<1>13. CASE Check(p) \/ RequestFails(p) \/ Die(p)
    BY <1>1, <1>3, <1>13, FileSteps, EndSteps DEF Idle
<1> QED
    BY <1>4, <1>5, <1>6, <1>7, <1>8, <1>9, <1>10, <1>11, <1>12, <1>13 DEF Run

\* A token that ages stays good.
LEMMA AgedGood ==
    ASSUME NEW t, NEW u, Aged(t, u), t.left \in Nat, t.valid \in Nat, Good(t)
    PROVE  Good(u)
<1>1. t.left <= t.valid + Buffer => u.left <= u.valid + Buffer
    BY Limits DEF Aged, Less
<1> QED
    BY <1>1 DEF Aged, Good

\* And beside the steps of a call under way.
LEMMA FreshStep ==
    ASSUME IInv, Fresh, [Next]_vars
    PROVE  Fresh'
<1>1. ASSUME NEW p \in Procs, NEW op, NEW step, <<op, step>> \in Kinds,
             Begins(p, op, step)
      PROVE  Fresh'
    <2>1. ASSUME NEW q \in Procs
          PROVE  FreshCall(q)'
        <3>1. CASE q = p
            BY <1>1, <3>1 DEF Begins, Kinds, FreshCall, At, Writing
        <3>2. CASE q # p
            BY <1>1, <3>2 DEF Begins, Fresh, FreshCall, At
        <3> QED
            BY <3>1, <3>2
    <2> QED
        BY <1>1, <2>1 DEF Begins, Fresh, FreshCall
<1>2. CASE Tick
    <2>1. file' \notin {None, Torn} => Good(file')
        <3>1. CASE file \in {None, Torn}
            BY <1>2, <3>1, TickFile
        <3>2. CASE file \notin {None, Torn}
            BY <1>2, <3>2, TickFile, TokensAreTokens, AgedGood
            DEF Fresh, IInv, FileOfOne
        <3> QED
            BY <3>1, <3>2
    <2>2. ASSUME NEW q \in Procs
          PROVE  FreshCall(q)'
        <3>1. /\ call'[q].at = call[q].at /\ FreshCall(q)
              /\ call[q].token # None => Aged(call[q].token, call'[q].token)
            BY <1>2, TickSteps DEF Fresh, FreshCall
        <3>2. CASE call[q].at \in Holding
            <4>1. call[q].token \in Tokens
                BY <3>2, CallFields
            <4>2. Aged(call[q].token, call'[q].token)
                  /\ call[q].token.left \in Nat /\ call[q].token.valid \in Nat
                BY <3>1, <4>1, TokensAreTokens
            <4>3. Good(call[q].token) => Good(call'[q].token)
                BY <4>2, AgedGood
            <4> QED
                BY <3>1, <4>3 DEF FreshCall
        <3>3. CASE call[q].at \notin Holding
            BY <3>1, <3>3 DEF FreshCall, At, Holding, Writing
        <3> QED
            BY <3>2, <3>3
    <2> QED
        BY <2>1, <2>2 DEF Fresh, FreshCall
<1>3. CASE UNCHANGED vars
    BY <1>3 DEF vars, Fresh, At
<1> QED
    BY <1>1, <1>2, <1>3, BeginSteps, FreshRun DEF Next

\* What Paced claims of a call.
PacedCall(p) ==
    /\ call[p].at \in {"sleep", "poll"} => code[p].pace = call[p].interval
    /\ At(p, "sleep") => code[p].pace <= code[p].since + call[p].wait
    /\ At(p, "poll") => code[p].pace <= code[p].since

\* A sleep is as long as the provider wants, step by step.
LEMMA PacedRun ==
    ASSUME IInv, Paced, NEW p \in Procs, Run(p) \/ Approve(p) \/ Die(p)
    PROVE  Paced'
<1>1. ASSUME \A q \in Procs : q # p => call'[q] = call[q] /\ code'[q] = code[q],
             PacedCall(p)'
      PROVE  Paced'
    <2>1. ASSUME NEW q \in Procs
          PROVE  PacedCall(q)'
        BY <1>1 DEF Paced, PacedCall, At
    <2> QED
        BY <2>1 DEF Paced, PacedCall
<1>2. ASSUME Others(p), UNCHANGED code, call'[p].at \notin {"sleep", "poll"}
      PROVE  Paced'
    BY <1>1, <1>2 DEF Others, PacedCall, At
<1>3. ASSUME Others(p), NEW out, Idle(p, out), CodeIs(p, None, 0, 0)
      PROVE  Paced'
    BY <1>1, <1>3 DEF Others, CodeIs, Idle, PacedCall, At
<1>4. CASE StartDeviceFlow(p)
    BY <1>1, <1>4, FlowSteps, Limits DEF Others, CodeIs, Comes, PacedCall, At
<1>5. CASE Approve(p)
    <2>1. /\ call' = call /\ code'[p].pace = code[p].pace /\ code'[p].since = code[p].since
          /\ \A q \in Procs : q # p => code'[q] = code[q]
        BY <1>5, FlowSteps DEF CodeIs
    <2> QED
        BY <1>1, <2>1 DEF Paced, PacedCall, At
<1>6. CASE Wake(p)
    <2>1. /\ At(p, "sleep") /\ call[p].wait = 0 /\ Others(p) /\ code' = code
          /\ call'[p].at = "poll" /\ call'[p].interval = call[p].interval
        BY <1>6, FlowSteps DEF Comes
    <2>2. PacedCall(p)'
        BY <2>1, CallFields DEF Paced, PacedCall, At
    <2> QED
        BY <1>1, <2>1, <2>2 DEF Others
<1>7. CASE Poll(p)
    <2>1. At(p, "poll") /\ Others(p)
        BY <1>7, PollSteps
    <2>2. CASE call'[p].at # "sleep"
        <3>1. CodeIs(p, None, 0, 0) /\ call'[p].at \notin {"sleep", "poll"}
            BY <1>7, <2>2, PollSteps DEF Comes, Idle
        <3> QED
            BY <1>1, <2>1, <3>1 DEF Others, CodeIs, PacedCall, At
    <2>3. CASE call'[p].at = "sleep"
        <3>1. PICK slower \in {0, SlowDown} :
                /\ Comes(p, "sleep", call[p].token, call[p].interval + slower,
                         call[p].interval + slower, call[p].tries - 1)
                /\ CodeIs(p, None, code[p].pace + slower, 0)
            BY <1>7, <2>3, PollSteps DEF Comes, Idle
        <3>2. code[p].pace = call[p].interval /\ call[p].interval \in Nat /\ slower \in Nat
            BY <2>1, CallFields, Limits DEF Paced, At
        <3>3. PacedCall(p)'
            BY <2>3, <3>1, <3>2 DEF CodeIs, Comes, PacedCall, At
        <3> QED
            BY <1>1, <2>1, <3>1, <3>3 DEF Others, CodeIs
    <2> QED
        BY <2>2, <2>3
<1>8. CASE FetchUserinfo(p) \/ Post(p) \/ Posted(p)
    BY <1>2, <1>8, AnswerSteps DEF Comes
<1>9. CASE Truncate(p) \/ Write(p) \/ Load(p) \/ Check(p)
    <2>1. Others(p) /\ UNCHANGED code /\ call'[p].at \notin {"sleep", "poll"}
        BY <1>9, FileSteps DEF Comes, Idle
    <2> QED
        BY <1>2, <2>1
<1>10. CASE Unlink(p)
    <2>1. code' = code /\ \A q \in Procs : call'[q].at = "idle" \/ call'[q] = call[q]
        BY <1>10, FileSteps DEF Idle
    <2>2. ASSUME NEW q \in Procs
          PROVE  PacedCall(q)'
        BY <2>1 DEF Paced, PacedCall, At
    <2> QED
        BY <2>2 DEF Paced, PacedCall
<1>11. CASE RequestFails(p) \/ Die(p)
    BY <1>3, <1>11, EndSteps
<1> QED
    BY <1>4, <1>5, <1>6, <1>7, <1>8, <1>9, <1>10, <1>11 DEF Run

\* And beside the steps of a call under way: a sleeper and the provider count
\* the same ticks.
LEMMA PacedStep ==
    ASSUME IInv, Paced, Bounded, [Next]_vars
    PROVE  Paced'
<1>1. ASSUME NEW p \in Procs, NEW op, NEW step, <<op, step>> \in Kinds,
             Begins(p, op, step)
      PROVE  Paced'
    <2>1. ASSUME NEW q \in Procs
          PROVE  PacedCall(q)'
        <3>1. CASE q = p
            BY <1>1, <3>1 DEF Begins, Kinds, PacedCall, At
        <3>2. CASE q # p
            BY <1>1, <3>2 DEF Begins, Paced, PacedCall, At
        <3> QED
            BY <3>1, <3>2
    <2> QED
        BY <2>1 DEF Paced, PacedCall
<1>2. CASE Tick
    <2>1. ASSUME NEW q \in Procs
          PROVE  PacedCall(q)'
        <3>1. /\ call'[q].at = call[q].at /\ call'[q].interval = call[q].interval
              /\ call'[q].wait = Less(call[q].wait) /\ code'[q].pace = code[q].pace
              /\ code'[q].since = IF code[q].since < code[q].pace THEN code[q].since + 1
                                  ELSE code[q].since
            BY <1>2, TickSteps
        <3>2. /\ call[q].wait \in Nat /\ code[q].pace \in Nat /\ code[q].since \in Nat
              /\ PacedCall(q)
            BY CallFields DEF Paced, PacedCall
        <3> QED
            BY <3>1, <3>2 DEF PacedCall, At, Less
    <2> QED
        BY <2>1 DEF Paced, PacedCall
<1>3. CASE UNCHANGED vars
    BY <1>3 DEF vars, Paced, At
<1> QED
    BY <1>1, <1>2, <1>3, BeginSteps, PacedRun DEF Next

\* What Bounded claims of a call.
BoundedCall(p) ==
    /\ call[p].token # None => Lasts(call[p].token)
    /\ call[p].tries <= Attempts /\ call[p].wait <= MaxInterval
    /\ call[p].interval + call[p].tries * SlowDown <= MaxInterval
    /\ code[p].pace <= MaxInterval /\ code[p].since <= code[p].pace

\* The bounds are bounds of natural numbers, and a round makes room for its
\* slow_down.
LEMMA BoundsNat ==
    /\ MaxInterval \in Nat
    /\ Interval + Attempts * SlowDown <= MaxInterval
    /\ \A i, n \in Nat : i + n * SlowDown <= MaxInterval => i <= MaxInterval
    /\ \A i, n \in Nat, s \in {0, SlowDown} : n # 0 /\ i + n * SlowDown <= MaxInterval =>
            (i + s) + (n - 1) * SlowDown <= MaxInterval
<1>1. Attempts * SlowDown \in Nat
    BY Limits
<1>2. MaxInterval \in Nat
    BY <1>1, Limits DEF MaxInterval
<1>3. \A n \in Nat : n * SlowDown \in Nat
    BY Limits
<1>4. \A n \in Nat : (n - 1) * SlowDown = n * SlowDown - SlowDown
    BY Limits
<1>5. ASSUME NEW i \in Nat, NEW n \in Nat, NEW s \in {0, SlowDown}, n # 0,
             i + n * SlowDown <= MaxInterval
      PROVE  (i + s) + (n - 1) * SlowDown <= MaxInterval
    BY <1>2, <1>3, <1>4, <1>5, Limits
<1> QED
    BY <1>2, <1>3, <1>5, Limits DEF MaxInterval

\* The durations keep within their bounds, step by step.
LEMMA BoundedRun ==
    ASSUME IInv, Paced, Bounded, NEW p \in Procs, Run(p) \/ Approve(p) \/ Die(p)
    PROVE  Bounded'
<1>1. ASSUME \A q \in Procs : q # p => call'[q] = call[q] /\ code'[q] = code[q],
             file' \notin {None, Torn} => Lasts(file'), BoundedCall(p)'
      PROVE  Bounded'
    <2>1. ASSUME NEW q \in Procs
          PROVE  BoundedCall(q)'
        BY <1>1 DEF Bounded, BoundedCall
    <2> QED
        BY <1>1, <2>1 DEF Bounded, BoundedCall
<1>2. BoundedCall(p) /\ (file \notin {None, Torn} => Lasts(file))
    BY DEF Bounded, BoundedCall
<1>3. ASSUME NEW out, Idle(p, out), code'[p].pace <= MaxInterval,
             code'[p].since <= code'[p].pace
      PROVE  BoundedCall(p)'
    BY <1>3, BoundsNat, Limits DEF Idle, BoundedCall
<1>4. CASE StartDeviceFlow(p)
    <2>1. BoundedCall(p)'
        BY <1>2, <1>4, FlowSteps, BoundsNat, Limits DEF CodeIs, Comes, BoundedCall,
           MaxInterval
    <2> QED
        BY <1>1, <1>2, <1>4, <2>1, FlowSteps DEF Others, CodeIs
<1>5. CASE Approve(p)
    <2>1. /\ call' = call /\ code'[p].pace = code[p].pace /\ code'[p].since = code[p].since
          /\ \A q \in Procs : q # p => code'[q] = code[q]
        BY <1>5, FlowSteps DEF CodeIs
    <2> QED
        BY <1>1, <1>2, <1>5, <2>1, FlowSteps DEF BoundedCall
<1>6. CASE Wake(p)
    BY <1>1, <1>2, <1>6, FlowSteps DEF Others, Comes, BoundedCall
<1>7. CASE Poll(p)
    <2>1. At(p, "poll") /\ Others(p) /\ file' = file
        BY <1>7, PollSteps
    <2>2. \A q \in Procs : q # p => call'[q] = call[q] /\ code'[q] = code[q]
        BY <1>7, PollSteps DEF Others, CodeIs
    <2>3. CASE call'[p].at = "userinfo"
        <3>1. /\ call'[p].token.left = Life /\ call'[p].token.valid = Life
              /\ call'[p].wait = call[p].wait /\ call'[p].tries = call[p].tries
              /\ call'[p].interval = call[p].interval
              /\ code'[p].pace = 0 /\ code'[p].since = 0
            BY <1>7, <2>3, PollSteps DEF Comes, Idle, CodeIs
        <3>2. BoundedCall(p)'
            BY <1>2, <3>1, BoundsNat, Limits DEF BoundedCall, Lasts
        <3> QED
            BY <1>1, <1>2, <2>1, <2>2, <3>2
    <2>4. CASE call'[p].at = "idle"
        <3>1. Idle(p, None) /\ code'[p].pace = 0 /\ code'[p].since = 0
            BY <1>7, <2>4, PollSteps DEF Comes, CodeIs
        <3> QED
            BY <1>1, <1>2, <1>3, <2>1, <2>2, <3>1, BoundsNat
    <2>5. CASE call'[p].at \notin {"userinfo", "idle"}
        <3>1. PICK slower \in {0, SlowDown} :
                /\ call[p].tries \notin {0, 1}
                /\ Comes(p, "sleep", call[p].token, call[p].interval + slower,
                         call[p].interval + slower, call[p].tries - 1)
                /\ CodeIs(p, None, code[p].pace + slower, 0)
            BY <1>7, <2>5, PollSteps DEF Comes, Idle
        <3> DEFINE n == call[p].tries - 1
                   i == call[p].interval + slower
        <3>2. /\ code[p].pace = call[p].interval /\ call[p].interval \in Nat
              /\ call[p].tries \in Nat /\ slower \in Nat
            BY <2>1, CallFields, Limits DEF Paced, At
        <3>3. n \in Nat /\ i \in Nat /\ i + n * SlowDown <= MaxInterval
            BY <1>2, <3>1, <3>2, BoundsNat DEF BoundedCall
        <3>4. i <= MaxInterval /\ n <= Attempts
            BY <1>2, <3>2, <3>3, BoundsNat, Limits DEF BoundedCall
        <3>5. /\ call'[p].token = call[p].token /\ call'[p].interval = i
              /\ call'[p].wait = i /\ call'[p].tries = n
              /\ code'[p].pace = i /\ code'[p].since = 0
            BY <3>1, <3>2 DEF Comes, CodeIs
        <3> HIDE DEF n, i
        <3>7. BoundedCall(p)'
            BY <1>2, <3>3, <3>4, <3>5 DEF BoundedCall
        <3> QED
            BY <1>1, <1>2, <2>1, <2>2, <3>7
    <2> QED
        BY <2>3, <2>4, <2>5
<1>8. CASE FetchUserinfo(p) \/ Post(p) \/ Posted(p)
    <2>1. /\ Others(p) /\ UNCHANGED <<file, code>>
          /\ call'[p].interval = call[p].interval /\ call'[p].tries = call[p].tries
          /\ call'[p].wait = call[p].wait
          /\ call'[p].token.left = Life \/ call'[p].token.left = call[p].token.left
          /\ call'[p].token.valid = Life \/ call'[p].token.valid = call[p].token.valid
          /\ call[p].at \in Holding
        BY <1>8, AnswerSteps DEF Comes, At, Holding
    <2>2. call[p].token # None
        BY <2>1, CallFields, TokensAreTokens
    <2>3. BoundedCall(p)'
        BY <1>2, <2>1, <2>2, Limits DEF BoundedCall, Lasts
    <2> QED
        BY <1>1, <1>2, <2>1, <2>3 DEF Others
<1>9. CASE Truncate(p)
    BY <1>1, <1>2, <1>9, FileSteps DEF Others, Comes, BoundedCall
<1>10. CASE Write(p)
    <2>1. /\ Others(p) /\ code' = code /\ file' \in {call[p].token, Torn}
          /\ Idle(p, None)
        BY <1>10, FileSteps
    <2> QED
        BY <1>1, <1>2, <1>3, <2>1 DEF Others, BoundedCall
<1>11. CASE Unlink(p)
    <2>1. /\ code' = code /\ file' = None
          /\ \A q \in Procs : Idle(q, None) \/ call'[q] = call[q]
        BY <1>11, FileSteps
    <2>2. ASSUME NEW q \in Procs
          PROVE  BoundedCall(q)'
        BY <2>1, BoundsNat, Limits DEF Bounded, BoundedCall, Idle
    <2> QED
        BY <2>1, <2>2 DEF Bounded, BoundedCall
<1>12. CASE Load(p)
    <2>1. Others(p) /\ code' = code /\ file' = file
        BY <1>12, FileSteps
    <2>2. CASE Idle(p, None)
        BY <1>1, <1>2, <1>3, <2>1, <2>2 DEF Others, BoundedCall
    <2>3. CASE ~Idle(p, None)
        <3>1. /\ file \in Tokens /\ call'[p].token = file
              /\ call'[p].interval = call[p].interval /\ call'[p].tries = call[p].tries
              /\ call'[p].wait = call[p].wait
            BY <1>12, <2>3, FileSteps DEF Comes
        <3>2. BoundedCall(p)'
            BY <1>2, <2>1, <3>1, TokensAreTokens DEF BoundedCall
        <3> QED
            BY <1>1, <1>2, <2>1, <3>2 DEF Others
    <2> QED
        BY <2>2, <2>3
<1>13. CASE Check(p)
    BY <1>1, <1>2, <1>3, <1>13, FileSteps DEF Others, BoundedCall
<1>14. CASE RequestFails(p) \/ Die(p)
    <2>1. /\ Idle(p, None) /\ Others(p) /\ CodeIs(p, None, 0, 0) /\ file' = file
        BY <1>14, EndSteps
    <2> QED
        BY <1>1, <1>2, <1>3, <2>1, BoundsNat DEF Others, CodeIs
<1> QED
    BY <1>4, <1>5, <1>6, <1>7, <1>8, <1>9, <1>10, <1>11, <1>12, <1>13, <1>14 DEF Run

\* And beside the steps of a call under way.
LEMMA BoundedStep ==
    ASSUME IInv, Paced, Bounded, [Next]_vars
    PROVE  Bounded'
<1>1. ASSUME NEW p \in Procs, NEW op, NEW step, <<op, step>> \in Kinds,
             Begins(p, op, step)
      PROVE  Bounded'
    <2>1. ASSUME NEW q \in Procs
          PROVE  BoundedCall(q)'
        <3>1. CASE q = p
            BY <1>1, <3>1, BoundsNat, Limits DEF Begins, Bounded, BoundedCall
        <3>2. CASE q # p
            BY <1>1, <3>2 DEF Begins, Bounded, BoundedCall
        <3> QED
            BY <3>1, <3>2
    <2> QED
        BY <1>1, <2>1 DEF Begins, Bounded, BoundedCall
<1>2. CASE Tick
    <2>0. ASSUME NEW t, NEW u, Aged(t, u), Lasts(t), t.left \in Nat, t.valid \in Nat
          PROVE  Lasts(u)
        BY <2>0, Limits DEF Aged, Lasts, Less
    <2>1. file' \notin {None, Torn} => Lasts(file')
        BY <1>2, <2>0, TickFile, TokensAreTokens DEF Bounded, IInv, FileOfOne
    <2>2. ASSUME NEW q \in Procs
          PROVE  BoundedCall(q)'
        <3>1. /\ call'[q].interval = call[q].interval /\ call'[q].tries = call[q].tries
              /\ call'[q].wait = Less(call[q].wait) /\ code'[q].pace = code[q].pace
              /\ code'[q].since = IF code[q].since < code[q].pace THEN code[q].since + 1
                                  ELSE code[q].since
              /\ call[q].token = None => call'[q].token = None
              /\ call[q].token # None => Aged(call[q].token, call'[q].token)
            BY <1>2, TickSteps
        <3>2. /\ call[q].wait \in Nat /\ code[q].pace \in Nat /\ code[q].since \in Nat
              /\ BoundedCall(q) /\ call[q].token \in AnyToken \cup {None}
            BY CallFields DEF Bounded, BoundedCall
        <3>3. call'[q].token # None => Lasts(call'[q].token)
            <4>1. call[q].token # None => call[q].token.left \in Nat /\ call[q].token.valid \in Nat
                BY <3>2 DEF AnyToken
            <4> QED
                BY <2>0, <3>1, <3>2, <4>1 DEF BoundedCall
        <3>4. Less(call[q].wait) <= MaxInterval
            BY <3>2, BoundsNat DEF BoundedCall, Less
        <3> QED
            BY <3>1, <3>2, <3>3, <3>4 DEF BoundedCall
    <2> QED
        BY <2>1, <2>2 DEF Bounded, BoundedCall
<1>3. CASE UNCHANGED vars
    BY <1>3 DEF vars, Bounded
<1> QED
    BY <1>1, <1>2, <1>3, BeginSteps, BoundedRun DEF Next

-----------------------------------------------------------------------------
(* The claims together. *)

\* Nobody has asked for anything yet.
LEMMA InitStands == Init => Stands
<1> SUFFICES ASSUME Init PROVE Stands
    OBVIOUS
<1>1. /\ file = None /\ meant = None /\ ~spoilt
      /\ \A p \in Procs : /\ call[p].op = None /\ call[p].at = "idle" /\ call[p].token = None
                          /\ ~call[p].sole /\ call[p].tries = 0 /\ call[p].wait = 0
                          /\ call[p].interval = 0 /\ code[p].pace = 0 /\ code[p].since = 0
    BY DEF Init, IdleCall, NoCode
<1>2. Roles /\ Undisturbed /\ Settling
    BY <1>1, Names DEF Roles, RoleOf, Undisturbed, Settling, Changing
<1>3. Saves /\ Meant
    BY <1>1, Names DEF Saves, Meant, FileMeant, CallMeant, At
<1>4. Fresh
    BY <1>1 DEF Fresh, At, Writing
<1>5. Paced
    BY <1>1 DEF Paced, At
<1>6. Bounded
    BY <1>1, BoundsNat, Limits DEF Bounded
<1>7. Marks
    BY DEF Init, Marks
<1> QED
    BY <1>2, <1>3, <1>4, <1>5, <1>6, <1>7 DEF Stands

\* No step leaves them.
LEMMA StepStands == IInv /\ Stands /\ [Next]_vars => Stands'
BY RolesStep, MarksStep, SavesStep, MeantStep, FreshStep, PacedStep, BoundedStep DEF Stands

\* The accounts and the books hold in every state.
THEOREM Invariance == Spec => [](IInv /\ Stands)
<1>1. Init => IInv /\ Stands
    BY InitIInv, InitStands
<1>2. (IInv /\ Stands) /\ [Next]_vars => (IInv /\ Stands)'
    BY StepIInv, StepStands
<1> QED
    BY <1>1, <1>2, PTL DEF Spec

\* The state is of its types, the durations and rounds within their bounds.
THEOREM TypeCorrect == Spec => []TypeOK
<1>1. ASSUME IInv, Stands
      PROVE  TypeOK
    <2>1. ASSUME NEW t \in AnyToken, Lasts(t)
          PROVE  t \in Token
        BY <2>1, Limits DEF AnyToken, Lasts, Token
    <2>2. file \in Token \cup {None, Torn}
        BY <1>1, <2>1 DEF IInv, FileOfOne, Tokens, Stands, Bounded
    <2>3. ASSUME NEW p \in Procs
          PROVE  call[p] \in Call /\ code[p] \in Code
        <3>1. /\ call[p] \in AnyCall /\ BoundedCall(p)
              /\ code[p] \in [user : Accounts \cup {None}, pace : Nat, since : Nat]
            BY <1>1 DEF IInv, Calls, Codes, Stands, Bounded, BoundedCall
        <3>2. call[p].token \in Token \cup {None}
            BY <2>1, <3>1 DEF AnyCall, BoundedCall
        <3>3. call[p].interval \in Nat /\ call[p].tries \in Nat /\ call[p].wait \in Nat
            BY <3>1 DEF AnyCall
        <3>4. call[p].interval <= MaxInterval
            BY <3>1, <3>3, BoundsNat DEF BoundedCall
        <3>5. /\ call[p].interval \in 0 .. MaxInterval /\ call[p].tries \in 0 .. Attempts
              /\ call[p].wait \in 0 .. MaxInterval
            BY <3>1, <3>3, <3>4, BoundsNat, Limits DEF BoundedCall
        <3>6. call[p] \in Call
            BY <3>1, <3>2, <3>5 DEF AnyCall, Call
        <3>7. code[p].pace \in 0 .. MaxInterval /\ code[p].since \in 0 .. MaxInterval
            BY <3>1, BoundsNat DEF BoundedCall
        <3>8. code[p] \in Code
            BY <3>1, <3>7 DEF Code
        <3> QED
            BY <3>6, <3>8
    <2>4. call \in [Procs -> Call] /\ code \in [Procs -> Code]
        BY <1>1, <2>3 DEF IInv, Calls, Codes
    <2> QED
        BY <1>1, <2>2, <2>4 DEF TypeOK, Stands, Marks
<1> QED
    BY <1>1, Invariance, PTL

\* Whoever an undisturbed login or logout left logged in stays so until the next
\* one begins, whatever refreshes, questions, crashes and time do; only a save
\* that is under way or was spoilt makes the file unreadable.
THEOREM AnswerStandsAlways == Spec => []AnswerStands
<1>1. IInv /\ Stands => AnswerStands
    BY DEF Stands, Saves, Meant, FileMeant, AnswerStands
<1> QED
    BY <1>1, Invariance, PTL

\* get_identity_id answers with nobody else than who is logged in, unless a
\* login or a logout ran into the call, and, if the answers that brought the
\* token took no longer than the buffer, never on a token that the provider
\* takes no more, whatever the durations are and whichever refreshes cross.
THEOREM AnswerHolds == Spec => AnswerIsLoggedIn
<1> DEFINE A(p) == call'[p].out # None /\ At(p, "check") =>
                    /\ meant \in Accounts /\ call[p].sole => call'[p].out = meant
                    /\ ~call[p].token.late => call[p].token.valid > 0
<1>1. ASSUME IInv, Stands, NEW p \in Procs, [Next]_vars
      PROVE  A(p)
    <2>1. SUFFICES ASSUME call'[p].out # None, At(p, "check")
                   PROVE  /\ meant \in Accounts /\ call[p].sole => call'[p].out = meant
                          /\ ~call[p].token.late => call[p].token.valid > 0
        OBVIOUS
    <2>2. call[p].op = "ask" /\ call[p].out = None
        BY <1>1, <2>1, CallFields, Names DEF Stands, Roles, RoleOf, At, Writing
    <2>3. ASSUME NEW q \in Procs, NEW op, NEW step, Begins(q, op, step)
          PROVE  FALSE
        BY <2>1, <2>2, <2>3 DEF Begins, At
    <2>4. ASSUME NEW q \in Procs, Run(q) \/ Approve(q) \/ Die(q), ~Check(q) \/ q # p
          PROVE  FALSE
        <3>1. call'[p].out = call[p].out \/ call'[p].out = None
            <4>1. CASE q # p /\ ~Unlink(q)
                BY <1>1, <2>4, <4>1, FlowSteps, PollSteps, AnswerSteps, FileSteps, EndSteps
                DEF Run, Others
            <4>2. CASE Unlink(q)
                BY <1>1, <4>2, FileSteps DEF Idle
            <4>3. CASE q = p /\ ~Unlink(q)
                BY <1>1, <2>1, <2>4, <4>3, FlowSteps, PollSteps, AnswerSteps, FileSteps,
                   EndSteps
                DEF Run, Idle, At
            <4> QED
                BY <4>1, <4>2, <4>3
        <3> QED
            BY <2>1, <2>2, <3>1
    <2>5. ~Tick /\ ~UNCHANGED vars
        BY <1>1, <2>1, <2>2, TickSteps DEF vars
    <2>6. Check(p)
        BY <1>1, <2>3, <2>4, <2>5, BeginSteps DEF Next, Run
    <2>7. call'[p].out = call[p].token.sub /\ ~(call[p].token.left <= Buffer)
        BY <1>1, <2>1, <2>6, FileSteps DEF Idle
    <2>8. call[p].token.left \in Nat /\ call[p].token.valid \in Nat
        BY <1>1, <2>1, CallFields, TokensAreTokens DEF At, Holding
    <2>9. Good(call[p].token)
        BY <1>1, <2>1 DEF Stands, Fresh, At
    <2>10. ~call[p].token.late => call[p].token.valid > 0
        BY <2>7, <2>8, <2>9, Limits DEF Good
    <2> QED
        BY <1>1, <2>1, <2>7, <2>10 DEF Stands, Meant, CallMeant
<1>2. IInv /\ Stands /\ [Next]_vars => [\A p \in Procs : A(p)]_vars
    BY <1>1
<1> QED
    BY <1>2, Invariance, PTL DEF Spec, AnswerIsLoggedIn

\* No poll of the device flow comes sooner after the last one than the provider
\* wants by then, however often it has asked to slow down.
THEOREM PaceHolds == Spec => PaceKept
<1>1. ASSUME IInv, Stands, NEW p \in Procs, At(p, "poll")
      PROVE  code[p].since >= code[p].pace
    BY <1>1, CallFields DEF Stands, Paced
<1>2. IInv /\ Stands => \A p \in Procs : At(p, "poll") => code[p].since >= code[p].pace
    BY <1>1
<1>3. IInv /\ Stands /\ [Next]_vars =>
        [\A p \in Procs : At(p, "poll") /\ ~At(p, "poll")' =>
            code[p].since >= code[p].pace]_vars
    BY <1>2
<1> QED
    BY <1>3, Invariance, PTL DEF Spec, PaceKept

=============================================================================
