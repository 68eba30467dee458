----------------------------- MODULE RelayProofs -----------------------------
(***************************************************************************)
(* Namespace isolation, the soundness of the session registry and the      *)
(* order of messages, for any number of devices, groups and connections;   *)
(* and of the clients of the code, what a returned connect() means and     *)
(* that no envelope is lost unless a connection is.                        *)
(***************************************************************************)
EXTENDS RelayClient, FiniteSetTheorems, TLAPS

-----------------------------------------------------------------------------
(* The inductive invariant. *)

\* j is a connection over which d authenticated for group g.
Authenticated(j, d, g) ==
    /\ handler[j].device = d /\ handler[j].group = g
    /\ handler[j].at \notin {"unused", "challenged", "refused"}

\* Only an unused connection lacks a device and a group.
Opened ==
    \A k \in Conns :
        /\ link[k] = "unused" <=> handler[k].at = "unused"
        /\ handler[k].at # "unused" =>
            handler[k].device \in Devices /\ handler[k].group \in Groups
        /\ handler[k].at = "unused" => outbox[k] = <<>>
        /\ handler[k].at = "replying" => handler[k].reason \in Reasons

\* A session is its connection's, with the group that connection gave.
SessionsSound ==
    \A d \in Devices : sessions[d] # None =>
        /\ Authenticated(sessions[d].conn, d, sessions[d].group)
        /\ handler[sessions[d].conn].at # "closed"

\* A handler at its await has a frame for the device of the connection it is
\* about to write to, from a device of that connection's group.
RoutesSound ==
    \A k \in Conns : handler[k].at = "routing" =>
        LET h == handler[k]
        IN  /\ h.frame \in Frame /\ h.dest \in Conns
            /\ handler[h.dest].at # "unused"
            /\ h.frame.to = handler[h.dest].device
            /\ \E j \in Conns :
                Authenticated(j, h.device, handler[h.dest].group)

\* What RoutedInGroup says, of one message.
Rightful(k, m) ==
    /\ m.to = handler[k].device
    /\ \E j \in Conns : Authenticated(j, m.from, handler[k].group)

MessagesRightful == \A k \in Conns : \A i \in Messages(k) : Rightful(k, outbox[k][i])

IInv ==
    /\ TypeOK
    /\ Opened
    /\ SessionsSound
    /\ RoutesSound
    /\ MessagesRightful

-----------------------------------------------------------------------------
(* Lemmas. *)

Frames == Answer \cup Forwarded

\* Telling a client something appends to its outbox and touches no other.
LEMMA TellAppends ==
  ASSUME TypeOK, NEW k \in Conns, NEW m \in Frames, Tell(k, m)
  PROVE  /\ outbox' \in [Conns -> Seq(Frames)]
         /\ \A j \in Conns : \A i \in DOMAIN outbox'[j] :
               \/ i \in DOMAIN outbox[j] /\ outbox'[j][i] = outbox[j][i]
               \/ j = k /\ outbox'[j][i] = m
         /\ \A j \in Conns : j # k => outbox'[j] = outbox[j]
<1>1. outbox[k] \in Seq(Frames)
  BY DEF TypeOK, Frames
<1>2. /\ Append(outbox[k], m) \in Seq(Frames)
      /\ DOMAIN Append(outbox[k], m) = 1 .. Len(outbox[k]) + 1
      /\ \A i \in 1 .. Len(outbox[k]) : Append(outbox[k], m)[i] = outbox[k][i]
      /\ Append(outbox[k], m)[Len(outbox[k]) + 1] = m
      /\ DOMAIN outbox[k] = 1 .. Len(outbox[k]) /\ Len(outbox[k]) \in Nat
  BY <1>1
<1>3. /\ outbox'[k] = Append(outbox[k], m)
      /\ \A j \in Conns : j # k => outbox'[j] = outbox[j]
      /\ outbox' = [outbox EXCEPT ![k] = Append(outbox[k], m)]
  BY DEF Tell, TypeOK
<1>4. outbox' \in [Conns -> Seq(Frames)]
  BY <1>2, <1>3 DEF TypeOK, Frames
<1>5. \A i \in DOMAIN outbox'[k] :
         \/ i \in DOMAIN outbox[k] /\ outbox'[k][i] = outbox[k][i]
         \/ outbox'[k][i] = m
  BY <1>2, <1>3
<1> QED
  BY <1>3, <1>4, <1>5

\* A step that keeps what is authenticated and opened.
Keeps == \A k \in Conns : handler[k].at # "unused" =>
    /\ handler'[k].device = handler[k].device
    /\ handler'[k].group = handler[k].group
    /\ handler'[k].at # "unused"
    /\ handler[k].at \notin {"challenged", "refused"} =>
            handler'[k].at \notin {"challenged", "refused"}

\* A connection that authenticated for a group did so for good.
LEMMA AuthenticatedKept ==
  ASSUME Keeps
  PROVE  \A j \in Conns : \A d, g : Authenticated(j, d, g) => Authenticated(j, d, g)'
  BY DEF Keeps, Authenticated

\* Old messages stay rightful, so only a new one needs an argument.
LEMMA OnlyNewMessages ==
  ASSUME TypeOK, Opened, Keeps, MessagesRightful,
         \A k \in Conns : \A i \in DOMAIN outbox'[k] :
            \/ i \in DOMAIN outbox[k] /\ outbox'[k][i] = outbox[k][i]
            \/ outbox'[k][i].kind # "message"
            \/ Rightful(k, outbox[k][i])'
  PROVE  MessagesRightful'
<1> SUFFICES ASSUME NEW k \in Conns, NEW i \in Messages(k)'
             PROVE  Rightful(k, outbox[k][i])'
  BY DEF MessagesRightful
<1>1. i \in DOMAIN outbox'[k] /\ outbox'[k][i].kind = "message"
  BY DEF Messages
<1>2. CASE Rightful(k, outbox[k][i])'
  BY <1>2
<1>3. CASE i \in DOMAIN outbox[k] /\ outbox'[k][i] = outbox[k][i]
  <2>1. i \in Messages(k)
    BY <1>1, <1>3 DEF Messages
  <2>2. Rightful(k, outbox[k][i])
    BY <2>1 DEF MessagesRightful
  <2>3. handler[k].at # "unused"
    BY <1>3 DEF Opened
  <2>4. /\ handler'[k].device = handler[k].device
        /\ handler'[k].group = handler[k].group
    BY <2>3 DEF Keeps
  <2> QED
    BY <1>3, <2>2, <2>4, AuthenticatedKept DEF Rightful
<1> QED
  BY <1>1, <1>2, <1>3

\* Sessions that a step leaves alone or removes stay sound, if no handler of
\* a session it leaves is closed.
LEMMA SessionsKept ==
  ASSUME TypeOK, SessionsSound, Keeps, sessions' \in [Devices -> Session \cup {None}],
         \A d \in Devices : sessions'[d] # None =>
            /\ sessions'[d] = sessions[d]
            /\ handler'[sessions[d].conn].at # "closed"
  PROVE  SessionsSound'
<1> SUFFICES ASSUME NEW d \in Devices, sessions'[d] # None
             PROVE  /\ Authenticated(sessions[d].conn, d, sessions[d].group)'
                    /\ handler'[sessions'[d].conn].at # "closed"
  BY DEF SessionsSound
<1>1. sessions'[d] = sessions[d] /\ sessions[d].conn \in Conns
  BY RelayAssumption DEF TypeOK, Session
<1> QED
  BY <1>1, AuthenticatedKept DEF SessionsSound

\* Routes under way stay sound while their frame and target are left alone.
LEMMA RoutesKept ==
  ASSUME TypeOK, Opened, RoutesSound, Keeps,
         \A k \in Conns : handler'[k].at = "routing" =>
            /\ handler[k].at = "routing"
            /\ handler'[k].frame = handler[k].frame
            /\ handler'[k].dest = handler[k].dest
  PROVE  RoutesSound'
<1> SUFFICES ASSUME NEW k \in Conns, handler'[k].at = "routing"
             PROVE  /\ handler'[k].frame \in Frame /\ handler'[k].dest \in Conns
                    /\ handler'[handler'[k].dest].at # "unused"
                    /\ handler'[k].frame.to = handler'[handler'[k].dest].device
                    /\ \E j \in Conns : Authenticated(j, handler[k].device,
                                            handler[handler[k].dest].group)'
  BY DEF RoutesSound
<1>1. /\ handler[k].at = "routing"
      /\ handler'[k].frame = handler[k].frame /\ handler'[k].dest = handler[k].dest
      /\ handler[k].dest \in Conns /\ handler[handler[k].dest].at # "unused"
  BY DEF RoutesSound
<1>2. /\ handler'[k].device = handler[k].device
      /\ handler'[handler[k].dest].device = handler[handler[k].dest].device
      /\ handler'[handler[k].dest].group = handler[handler[k].dest].group
      /\ handler'[handler[k].dest].at # "unused"
  BY <1>1 DEF Keeps
<1> QED
  BY <1>1, <1>2, AuthenticatedKept DEF RoutesSound

\* Telling an opened connection something keeps the messages rightful, if what
\* is told is no message or a rightful one.
LEMMA Told ==
  ASSUME TypeOK, Opened, Keeps, MessagesRightful,
         NEW c \in Conns, NEW m \in Frames, Tell(c, m),
         handler[c].at # "unused", m.kind = "message" => Rightful(c, m)
  PROVE  /\ outbox' \in [Conns -> Seq(Frames)]
         /\ MessagesRightful'
         /\ \A j \in Conns : handler[j].at = "unused" => outbox'[j] = outbox[j]
<1>1. m.kind = "message" => Rightful(c, m)'
  BY AuthenticatedKept DEF Keeps, Rightful
<1>2. \A k \in Conns : \A i \in DOMAIN outbox'[k] :
            \/ i \in DOMAIN outbox[k] /\ outbox'[k][i] = outbox[k][i]
            \/ outbox'[k][i].kind # "message"
            \/ Rightful(k, outbox[k][i])'
  <2> SUFFICES ASSUME NEW k \in Conns, NEW i \in DOMAIN outbox'[k],
                      ~(i \in DOMAIN outbox[k] /\ outbox'[k][i] = outbox[k][i]),
                      outbox'[k][i].kind = "message"
               PROVE  Rightful(k, outbox[k][i])'
    OBVIOUS
  <2>1. k = c /\ outbox'[k][i] = m
    BY TellAppends
  <2> QED
    BY <1>1, <2>1
<1> QED
  BY <1>2, TellAppends, OnlyNewMessages

\* Messages stay rightful when no outbox changes.
LEMMA Untold ==
  ASSUME TypeOK, Opened, Keeps, MessagesRightful, outbox' = outbox
  PROVE  MessagesRightful'
  BY OnlyNewMessages

\* A step that only moves one handler from phase to phase.
LEMMA Becomes ==
  ASSUME TypeOK, Opened, NEW k \in Conns, NEW p \in Phases, Become(k, p),
         handler[k].at # "unused", p # "unused",
         p \in {"challenged", "refused"} => handler[k].at = "challenged"
  PROVE  /\ handler' \in [Conns -> Handler]
         /\ handler'[k].at = p
         /\ handler'[k].frame = handler[k].frame
         /\ handler'[k].dest = handler[k].dest
         /\ handler'[k].reason = handler[k].reason
         /\ handler'[k].device = handler[k].device
         /\ handler'[k].group = handler[k].group
         /\ \A j \in Conns : j # k => handler'[j] = handler[j]
         /\ Keeps
<1>1. /\ handler' = [handler EXCEPT ![k] = [handler[k] EXCEPT !.at = p]]
      /\ handler[k] \in Handler
  BY DEF TypeOK, Become
<1>2. [handler[k] EXCEPT !.at = p] \in Handler
  BY <1>1 DEF Handler
<1>3. /\ handler' \in [Conns -> Handler]
      /\ handler'[k] = [handler[k] EXCEPT !.at = p]
      /\ \A j \in Conns : j # k => handler'[j] = handler[j]
  BY <1>1, <1>2 DEF TypeOK
<1>4. /\ handler'[k].at = p
      /\ handler'[k].frame = handler[k].frame
      /\ handler'[k].dest = handler[k].dest
      /\ handler'[k].reason = handler[k].reason
      /\ handler'[k].device = handler[k].device
      /\ handler'[k].group = handler[k].group
  BY <1>1, <1>3 DEF Handler
<1> QED
  BY <1>3, <1>4 DEF Keeps

-----------------------------------------------------------------------------
(* The steps. *)

\* A relay without connections satisfies the invariant.
THEOREM InitIInv == Init => IInv
<1> SUFFICES ASSUME Init PROVE IInv
  OBVIOUS
<1>1. TypeOK
  BY RelayAssumption DEF Init, TypeOK, Handler, Phases
<1> QED
  BY <1>1 DEF Init, IInv, Opened, SessionsSound, RoutesSound, MessagesRightful, Messages

\* Open keeps the invariant.
LEMMA OpenIInv ==
  ASSUME IInv, NEW k \in Conns, NEW d \in Devices, NEW g \in Groups, Open(k, d, g)
  PROVE  IInv'
<1> DEFINE new == [handler[k] EXCEPT !.at = "challenged", !.device = d, !.group = g]
<1>1. handler[k].at = "unused" /\ handler[k] \in Handler
  BY DEF IInv, Opened, TypeOK, Open
<1>2. new \in Handler /\ new.at = "challenged" /\ new.device = d /\ new.group = g
  BY <1>1 DEF Handler, Phases
<1>3. /\ handler' = [handler EXCEPT ![k] = new]
      /\ handler' \in [Conns -> Handler]
      /\ handler'[k] = new
      /\ \A j \in Conns : j # k => handler'[j] = handler[j]
  BY <1>2 DEF Open, IInv, TypeOK
<1>4. Keeps
  BY <1>1, <1>3 DEF Keeps
<1>5. [kind |-> "challenge"] \in Frames /\ Tell(k, [kind |-> "challenge"])
  BY DEF Open, Frames, Answer
<1>6. outbox' \in [Conns -> Seq(Frames)] /\ \A j \in Conns : j # k => outbox'[j] = outbox[j]
  BY <1>5, TellAppends DEF IInv
<1>7. TypeOK'
  BY <1>3, <1>6 DEF IInv, TypeOK, Open, Frames
<1>8. Opened'
  BY <1>2, <1>3, <1>6 DEF IInv, Opened, Open, TypeOK
<1>9. SessionsSound'
  <2>1. \A j \in Conns : handler'[j].at = "closed" => handler[j].at = "closed"
    BY <1>2, <1>3
  <2> QED
    BY <1>4, <1>7, <2>1, SessionsKept, RelayAssumption
       DEF IInv, Open, TypeOK, SessionsSound, Session
<1>10. RoutesSound'
  BY <1>2, <1>3, <1>4, RoutesKept DEF IInv
<1>11. MessagesRightful'
  <2> SUFFICES ASSUME NEW j \in Conns, NEW i \in DOMAIN outbox'[j],
                      ~(i \in DOMAIN outbox[j] /\ outbox'[j][i] = outbox[j][i])
               PROVE  outbox'[j][i].kind # "message"
    BY <1>4, OnlyNewMessages DEF IInv
  <2> QED
    BY <1>5, TellAppends DEF IInv
<1> QED
  BY <1>7, <1>8, <1>9, <1>10, <1>11 DEF IInv

\* A step that leaves the handlers alone: Send and Leave.
LEMMA HandlersAlone ==
  ASSUME IInv, handler' = handler, sessions' = sessions, outbox' = outbox, TypeOK',
         \A k \in Conns : link'[k] = "unused" <=> link[k] = "unused"
  PROVE  IInv'
<1>1. Keeps
  BY DEF Keeps
<1>2. Opened'
  BY DEF IInv, Opened
<1>3. SessionsSound' /\ RoutesSound'
  BY DEF IInv, SessionsSound, RoutesSound, Authenticated
<1>4. MessagesRightful'
  BY <1>1, Untold DEF IInv
<1> QED
  BY <1>2, <1>3, <1>4 DEF IInv

\* Send keeps the invariant.
LEMMA SendIInv ==
  ASSUME IInv, NEW k \in Conns, NEW f \in Frame, Send(k, f)
  PROVE  IInv'
<1>1. Append(inbox[k], f) \in Seq(Frame)
  BY DEF IInv, TypeOK
<1>2. TypeOK'
  BY <1>1, RelayAssumption DEF IInv, TypeOK, Send
<1> QED
  BY <1>2, HandlersAlone DEF Send

\* Leave keeps the invariant.
LEMMA LeaveIInv ==
  ASSUME IInv, NEW k \in Conns, Leave(k)
  PROVE  IInv'
<1>1. TypeOK' /\ \A j \in Conns : link'[j] = "unused" <=> link[j] = "unused"
  BY DEF IInv, TypeOK, Leave
<1> QED
  BY <1>1, HandlersAlone DEF Leave

\* Register keeps the invariant.
LEMMA RegisterIInv ==
  ASSUME IInv, NEW k \in Conns, Register(k)
  PROVE  IInv'
<1> DEFINE d == handler[k].device
           s == [group |-> handler[k].group, conn |-> k]
<1>1. Become(k, "greeting") /\ handler[k].at = "challenged" /\ "greeting" \in Phases
  BY DEF Register, At, Phases
<1>2. /\ handler' \in [Conns -> Handler]
      /\ handler'[k].at = "greeting"
      /\ handler'[k].device = handler[k].device /\ handler'[k].group = handler[k].group
      /\ \A j \in Conns : j # k => handler'[j] = handler[j]
      /\ Keeps
  BY <1>1, Becomes DEF IInv
<1>3. d \in Devices /\ s \in Session /\ s.conn = k /\ s.group = handler[k].group
  BY <1>1 DEF IInv, Opened, Session
<1>4. sessions' = [sessions EXCEPT ![d] = s]
  BY DEF Register, register
<1>5. /\ sessions' \in [Devices -> Session \cup {None}]
      /\ sessions'[d] = s
      /\ \A e \in Devices : e # d => sessions'[e] = sessions[e]
  BY <1>3, <1>4 DEF IInv, TypeOK
<1>6. TypeOK'
  BY <1>2, <1>5 DEF IInv, TypeOK, Register
<1>7. Opened'
  BY <1>1, <1>2 DEF IInv, Opened, Register
<1>8. SessionsSound'
  <2>2. ASSUME NEW e \in Devices, e # d, sessions'[e] # None
        PROVE  /\ Authenticated(sessions[e].conn, e, sessions[e].group)'
               /\ handler'[sessions[e].conn].at # "closed"
    <3>1. sessions[e] # None /\ sessions[e] \in Session /\ sessions'[e] = sessions[e]
      BY <1>5, <2>2 DEF IInv, TypeOK
    <3>2. /\ sessions[e].conn \in Conns
          /\ Authenticated(sessions[e].conn, e, sessions[e].group)
          /\ handler[sessions[e].conn].at # "closed"
      BY <3>1 DEF IInv, SessionsSound, Session
    <3>3. sessions[e].conn # k
      BY <1>1, <3>2 DEF Authenticated
    <3> QED
      BY <1>2, <3>1, <3>2, <3>3 DEF Authenticated
  <2> SUFFICES ASSUME NEW e \in Devices, sessions'[e] # None
               PROVE  /\ Authenticated(sessions[e].conn, e, sessions[e].group)'
                      /\ handler'[sessions'[e].conn].at # "closed"
    BY DEF SessionsSound
  <2>3. CASE e = d
    BY <1>2, <1>3, <1>5, <2>3 DEF Authenticated
  <2>4. CASE e # d
    BY <1>5, <2>2, <2>4 DEF Authenticated
  <2> QED
    BY <2>3, <2>4
<1>9. RoutesSound'
  BY <1>2, RoutesKept DEF IInv
<1>10. MessagesRightful'
  BY <1>2, Untold DEF IInv, Register
<1> QED
  BY <1>6, <1>7, <1>8, <1>9, <1>10 DEF IInv

\* A handler moves on, telling a connection something or nothing, and no
\* session changes.
LEMMA MovesOn ==
  ASSUME IInv, NEW k \in Conns, NEW p \in Phases, Become(k, p),
         handler[k].at # "unused",
         p \notin {"unused", "challenged", "routing", "closed", "replying"},
         p = "refused" => handler[k].at = "challenged",
         sessions' = sessions, inbox' = inbox, sent' = sent,
         link' = link \/ link' = [link EXCEPT ![k] = "lost"],
         \/ outbox' = outbox
         \/ \E c \in Conns, m \in Frames :
                /\ Tell(c, m) /\ handler[c].at # "unused"
                /\ m.kind = "message" => Rightful(c, m)
  PROVE  IInv'
<1>1. /\ handler' \in [Conns -> Handler]
      /\ handler'[k].at = p
      /\ handler'[k].device = handler[k].device /\ handler'[k].group = handler[k].group
      /\ \A j \in Conns : j # k => handler'[j] = handler[j]
      /\ Keeps
  BY Becomes DEF IInv
<1>2. /\ outbox' \in [Conns -> Seq(Frames)]
      /\ MessagesRightful'
      /\ \A j \in Conns : handler[j].at = "unused" => outbox'[j] = outbox[j]
  <2>1. CASE outbox' = outbox
    BY <1>1, <2>1, Untold DEF IInv, TypeOK, Frames
  <2>2. ASSUME NEW c \in Conns, NEW m \in Frames, Tell(c, m),
               handler[c].at # "unused", m.kind = "message" => Rightful(c, m)
        PROVE  /\ outbox' \in [Conns -> Seq(Frames)]
               /\ MessagesRightful'
               /\ \A j \in Conns : handler[j].at = "unused" => outbox'[j] = outbox[j]
    BY <1>1, <2>2, Told DEF IInv
  <2> QED
    BY <2>1, <2>2
<1>3. /\ link' \in [Conns -> {"unused", "open", "lost"}]
      /\ \A j \in Conns : link'[j] = "unused" <=> link[j] = "unused"
  BY DEF IInv, TypeOK, Opened
<1>4. TypeOK'
  BY <1>1, <1>2, <1>3 DEF IInv, TypeOK, Frames
<1>5. Opened'
  BY <1>1, <1>2, <1>3 DEF IInv, Opened
<1>6. SessionsSound'
  <2>1. \A d \in Devices : sessions[d] # None => sessions[d].conn \in Conns
    BY DEF IInv, TypeOK, Session
  <2>2. \A d \in Devices : sessions[d] # None => handler'[sessions[d].conn].at # "closed"
    BY <1>1, <2>1 DEF IInv, SessionsSound
  <2> QED
    BY <1>1, <1>4, <2>2, SessionsKept DEF IInv, TypeOK
<1>7. RoutesSound'
  BY <1>1, RoutesKept DEF IInv
<1> QED
  BY <1>2, <1>4, <1>5, <1>6, <1>7 DEF IInv

\* RefuseAuth keeps the invariant.
LEMMA RefuseAuthIInv ==
  ASSUME IInv, NEW k \in Conns, RefuseAuth(k)
  PROVE  IInv'
<1>1. Become(k, "refused") /\ handler[k].at = "challenged" /\ "refused" \in Phases
  BY DEF RefuseAuth, At, Phases
<1>2. \A r \in {"expected_auth", "invalid_signature"} :
        [kind |-> "auth_failed", reason |-> r] \in Frames
  BY DEF Frames, Answer, Reasons
<1> QED
  BY <1>1, <1>2, MovesOn DEF RefuseAuth

\* Greet keeps the invariant.
LEMMA GreetIInv ==
  ASSUME IInv, NEW k \in Conns, Greet(k)
  PROVE  IInv'
<1>1. handler[k].at = "greeting" /\ "serving" \in Phases /\ "aborted" \in Phases
  BY DEF Greet, At, Phases
<1>2. [kind |-> "auth_ok"] \in Frames
  BY DEF Frames, Answer
<1>3. sessions' = sessions /\ link' = link /\ inbox' = inbox /\ sent' = sent
  BY DEF Greet
<1>4. CASE Become(k, "aborted") /\ outbox' = outbox
  BY <1>1, <1>3, <1>4, MovesOn
<1>5. CASE Become(k, "serving") /\ outbox' = outbox
  BY <1>1, <1>3, <1>5, MovesOn
<1>6. CASE Become(k, "serving") /\ Tell(k, [kind |-> "auth_ok"])
  BY <1>1, <1>2, <1>3, <1>6, MovesOn
<1> QED
  BY <1>4, <1>5, <1>6 DEF Greet

\* The finally block, with whatever the step does to the inbox.
LEMMA CloseIInv ==
  ASSUME IInv, NEW k \in Conns, Close(k),
         handler[k].at \notin {"unused", "challenged"},
         inbox' \in [Conns -> Seq(Frame)], sent' = sent, outbox' = outbox
  PROVE  IInv'
<1>1. Become(k, "closed") /\ "closed" \in Phases
  BY DEF Close, Phases
<1>2. /\ handler' \in [Conns -> Handler]
      /\ handler'[k].at = "closed"
      /\ handler'[k].device = handler[k].device /\ handler'[k].group = handler[k].group
      /\ \A j \in Conns : j # k => handler'[j] = handler[j]
      /\ Keeps
  BY <1>1, Becomes DEF IInv
<1>3. handler[k].device \in Devices
  BY DEF IInv, Opened
<1>4. /\ sessions' \in [Devices -> Session \cup {None}]
      /\ sessions'[handler[k].device] = None
      /\ \A e \in Devices : e # handler[k].device => sessions'[e] = sessions[e]
  BY <1>3 DEF Close, unregister, IInv, TypeOK
<1>5. /\ link' \in [Conns -> {"unused", "open", "lost"}]
      /\ \A j \in Conns : link'[j] = "unused" <=> link[j] = "unused"
  BY DEF Close, IInv, TypeOK, Opened
<1>6. TypeOK'
  BY <1>2, <1>4, <1>5 DEF IInv, TypeOK
<1>7. Opened'
  BY <1>2, <1>5 DEF IInv, Opened
<1>8. SessionsSound'
  <2> SUFFICES ASSUME NEW e \in Devices, sessions'[e] # None
               PROVE  /\ sessions'[e] = sessions[e]
                      /\ handler'[sessions[e].conn].at # "closed"
    BY <1>2, <1>6, SessionsKept DEF IInv, TypeOK
  <2>1. sessions'[e] = sessions[e] /\ e # handler[k].device
    BY <1>4
  <2>2. sessions[e].conn \in Conns /\ handler[sessions[e].conn].device = e
    BY <2>1 DEF IInv, TypeOK, Session, SessionsSound, Authenticated
  <2>3. sessions[e].conn # k
    BY <2>1, <2>2
  <2> QED
    BY <1>2, <2>1, <2>2, <2>3 DEF IInv, SessionsSound
<1>9. RoutesSound'
  BY <1>2, RoutesKept DEF IInv
<1>10. MessagesRightful'
  BY <1>2, Untold DEF IInv
<1> QED
  BY <1>6, <1>7, <1>8, <1>9, <1>10 DEF IInv

\* Disconnect keeps the invariant.
LEMMA DisconnectIInv ==
  ASSUME IInv, NEW k \in Conns, Disconnect(k)
  PROVE  IInv'
  BY CloseIInv DEF Disconnect, At, IInv, TypeOK

\* A handler is told what to reply: the router's verdict or a failed send.
LEMMA ReplyNextIInv ==
  ASSUME IInv, NEW k \in Conns, NEW r \in Reasons,
         handler' = [handler EXCEPT ![k].at = "replying", ![k].reason = r],
         handler[k].at \notin {"unused", "challenged", "refused"},
         sessions' = sessions, link' = link, outbox' = outbox, sent' = sent,
         inbox' \in [Conns -> Seq(Frame)]
  PROVE  IInv'
<1> DEFINE new == [handler[k] EXCEPT !.at = "replying", !.reason = r]
<1>1. handler[k] \in Handler
  BY DEF IInv, TypeOK
<1>2. /\ new \in Handler /\ new.at = "replying" /\ new.reason = r
      /\ new.device = handler[k].device /\ new.group = handler[k].group
  BY <1>1 DEF Handler, Phases
<1>3. /\ handler' \in [Conns -> Handler]
      /\ handler'[k] = new
      /\ \A j \in Conns : j # k => handler'[j] = handler[j]
  BY <1>2 DEF IInv, TypeOK
<1>4. Keeps
  BY <1>2, <1>3 DEF Keeps
<1>5. TypeOK'
  BY <1>3 DEF IInv, TypeOK
<1>6. Opened'
  BY <1>2, <1>3 DEF IInv, Opened
<1>7. SessionsSound'
  <2>1. \A d \in Devices : sessions[d] # None => sessions[d].conn \in Conns
    BY DEF IInv, TypeOK, Session
  <2>2. \A d \in Devices : sessions[d] # None => handler'[sessions[d].conn].at # "closed"
    BY <1>2, <1>3, <2>1 DEF IInv, SessionsSound
  <2> QED
    BY <1>4, <1>5, <2>2, SessionsKept DEF IInv, TypeOK
<1>8. RoutesSound'
  BY <1>2, <1>3, <1>4, RoutesKept DEF IInv
<1>9. MessagesRightful'
  BY <1>4, Untold DEF IInv
<1> QED
  BY <1>5, <1>6, <1>7, <1>8, <1>9 DEF IInv

\* A handler is about to write to the connection of the target's session: the
\* sender's own session shows that its device is of that connection's group.
LEMMA RouteIInv ==
  ASSUME IInv, NEW k \in Conns, NEW f \in Frame, At(k, "serving"),
         f.to \in Devices, same_group(handler[k].device, f.to),
         handler' = [handler EXCEPT ![k].at = "routing", ![k].frame = f,
                                    ![k].dest = sessions[f.to].conn],
         sessions' = sessions, link' = link, outbox' = outbox, sent' = sent,
         inbox' \in [Conns -> Seq(Frame)]
  PROVE  IInv'
<1> DEFINE dest == sessions[f.to].conn
           new == [handler[k] EXCEPT !.at = "routing", !.frame = f, !.dest = dest]
           own == sessions[handler[k].device]
<1>1. handler[k] \in Handler /\ handler[k].at = "serving" /\ handler[k].device \in Devices
  BY DEF IInv, TypeOK, At, Opened
<1>2. /\ sessions[f.to] # None /\ own # None
      /\ sessions[f.to].group = own.group
      /\ dest \in Conns /\ own.conn \in Conns
  BY <1>1 DEF same_group, IInv, TypeOK, Session
<1>3. /\ Authenticated(dest, f.to, sessions[f.to].group)
      /\ Authenticated(own.conn, handler[k].device, own.group)
  BY <1>1, <1>2 DEF IInv, SessionsSound
<1>4. /\ new \in Handler /\ new.at = "routing" /\ new.frame = f /\ new.dest = dest
      /\ new.device = handler[k].device /\ new.group = handler[k].group
  BY <1>1, <1>2 DEF Handler, Phases
<1>5. /\ handler' \in [Conns -> Handler]
      /\ handler'[k] = new
      /\ \A j \in Conns : j # k => handler'[j] = handler[j]
  BY <1>4 DEF IInv, TypeOK
<1>6. Keeps
  BY <1>1, <1>4, <1>5 DEF Keeps
<1>7. TypeOK'
  BY <1>5 DEF IInv, TypeOK
<1>8. Opened'
  BY <1>1, <1>4, <1>5 DEF IInv, Opened
<1>9. SessionsSound'
  <2>1. \A d \in Devices : sessions[d] # None => sessions[d].conn \in Conns
    BY DEF IInv, TypeOK, Session
  <2>2. \A d \in Devices : sessions[d] # None => handler'[sessions[d].conn].at # "closed"
    BY <1>4, <1>5, <2>1 DEF IInv, SessionsSound
  <2> QED
    BY <1>6, <1>7, <2>2, SessionsKept DEF IInv, TypeOK
<1>10. RoutesSound'
  <2> SUFFICES ASSUME NEW i \in Conns, handler'[i].at = "routing"
               PROVE  /\ handler'[i].frame \in Frame /\ handler'[i].dest \in Conns
                      /\ handler'[handler'[i].dest].at # "unused"
                      /\ handler'[i].frame.to = handler'[handler'[i].dest].device
                      /\ \E j \in Conns : Authenticated(j, handler[i].device,
                                              handler[handler[i].dest].group)'
    BY DEF RoutesSound
  <2>1. CASE i = k
    <3>1. /\ handler[dest].device = f.to /\ handler[dest].at # "unused"
          /\ handler[dest].group = own.group
      BY <1>2, <1>3 DEF Authenticated
    <3>2. /\ handler'[dest].device = f.to /\ handler'[dest].at # "unused"
          /\ handler'[dest].group = own.group
      BY <1>2, <1>6, <3>1 DEF Keeps
    <3>3. /\ handler'[own.conn].device = handler[k].device
          /\ handler'[own.conn].group = own.group
          /\ handler'[own.conn].at \notin {"unused", "challenged", "refused"}
      BY <1>2, <1>3, <1>6 DEF Keeps, Authenticated
    <3>4. /\ handler'[i].device = handler[k].device /\ handler'[i].dest = dest
          /\ handler'[i].frame = f
      BY <1>4, <1>5, <2>1
    <3>5. \E j \in Conns : Authenticated(j, handler[i].device,
                               handler[handler[i].dest].group)'
      BY <1>2, <3>2, <3>3, <3>4 DEF Authenticated
    <3> QED
      BY <1>2, <3>2, <3>4, <3>5
  <2>2. CASE i # k
    <3>1. handler'[i] = handler[i] /\ handler[i].at = "routing"
      BY <1>5, <2>2
    <3>2. /\ handler[i].frame \in Frame /\ handler[i].dest \in Conns
          /\ handler[handler[i].dest].at # "unused"
          /\ handler[i].frame.to = handler[handler[i].dest].device
          /\ \E j \in Conns : Authenticated(j, handler[i].device,
                                  handler[handler[i].dest].group)
      BY <3>1 DEF IInv, RoutesSound
    <3>3. /\ handler'[handler[i].dest].device = handler[handler[i].dest].device
          /\ handler'[handler[i].dest].group = handler[handler[i].dest].group
          /\ handler'[handler[i].dest].at # "unused"
      BY <1>6, <3>2 DEF Keeps
    <3> QED
      BY <1>6, <3>1, <3>2, <3>3, AuthenticatedKept
  <2> QED
    BY <2>1, <2>2
<1>11. MessagesRightful'
  BY <1>6, Untold DEF IInv
<1> QED
  BY <1>7, <1>8, <1>9, <1>10, <1>11 DEF IInv

\* Receive keeps the invariant.
LEMMA ReceiveIInv ==
  ASSUME IInv, NEW k \in Conns, Receive(k)
  PROVE  IInv'
<1> DEFINE f == Head(inbox[k])
           v == Verdict(handler[k].device, f)
<1>1. handler[k].at = "serving" /\ inbox[k] \in Seq(Frame) /\ inbox[k] # <<>>
  BY DEF Receive, At, IInv, TypeOK
<1>2. f \in Frame /\ Tail(inbox[k]) \in Seq(Frame)
  BY <1>1
<1>3. inbox' \in [Conns -> Seq(Frame)]
  BY <1>2 DEF Receive, IInv, TypeOK
<1>4. sent' = sent /\ outbox' = outbox
  BY DEF Receive
<1>5. CASE /\ v = "ok"
           /\ handler' = [handler EXCEPT ![k].at = "routing", ![k].frame = f,
                              ![k].dest = sessions[f.to].conn]
           /\ UNCHANGED <<sessions, link>>
  <2>1. f.to \in Devices /\ same_group(handler[k].device, f.to)
    BY <1>2, <1>5, RelayAssumption DEF Verdict, Routable, Frame
  <2> QED
    BY <1>1, <1>2, <1>3, <1>4, <1>5, <2>1, RouteIInv DEF At
<1>6. CASE /\ v \in Reasons
           /\ handler' = [handler EXCEPT ![k].at = "replying", ![k].reason = v]
           /\ UNCHANGED <<sessions, link>>
  BY <1>1, <1>3, <1>4, <1>6, ReplyNextIInv
<1>7. CASE v = "no_object" /\ Close(k)
  BY <1>1, <1>3, <1>4, <1>7, CloseIInv
<1> QED
  BY <1>5, <1>6, <1>7 DEF Receive

\* Forward keeps the invariant.
LEMMA ForwardIInv ==
  ASSUME IInv, NEW k \in Conns, Forward(k)
  PROVE  IInv'
<1> DEFINE dest == handler[k].dest
           f == handler[k].frame
           m == [kind |-> "message", from |-> handler[k].device,
                 to |-> f.to, conn |-> k, n |-> f.n]
<1>1. /\ handler[k].at = "routing" /\ handler[k].device \in Devices
      /\ "serving" \in Phases
  BY DEF Forward, At, IInv, Opened, Phases
<1>2. /\ f \in Frame /\ dest \in Conns /\ handler[dest].at # "unused"
      /\ f.to = handler[dest].device /\ handler[dest].device \in Devices
      /\ \E j \in Conns : Authenticated(j, handler[k].device, handler[dest].group)
  BY <1>1 DEF IInv, RoutesSound, Opened
<1>3. m \in Frames /\ Rightful(dest, m)
  BY <1>1, <1>2 DEF Frames, Forwarded, Frame, Rightful
<1>4. sessions' = sessions /\ link' = link /\ inbox' = inbox /\ sent' = sent
  BY DEF Forward
<1>5. CASE Become(k, "serving") /\ Tell(dest, m)
  BY <1>1, <1>2, <1>3, <1>4, <1>5, MovesOn
<1>6. CASE Become(k, "serving") /\ outbox' = outbox
  BY <1>1, <1>4, <1>6, MovesOn
<1>7. CASE /\ handler' = [handler EXCEPT ![k].at = "replying",
                                        ![k].reason = "send_failed"]
           /\ outbox' = outbox
  BY <1>1, <1>4, <1>7, ReplyNextIInv DEF Reasons, IInv, TypeOK
<1> QED
  BY <1>5, <1>6, <1>7 DEF Forward

\* Reply keeps the invariant.
LEMMA ReplyIInv ==
  ASSUME IInv, NEW k \in Conns, Reply(k)
  PROVE  IInv'
<1> DEFINE m == [kind |-> "error", reason |-> handler[k].reason]
<1>1. /\ handler[k].at = "replying" /\ handler[k].reason \in Reasons
      /\ "serving" \in Phases /\ inbox' = inbox /\ sent' = sent
  BY DEF Reply, At, IInv, Opened, Phases
<1>2. m \in Frames
  BY <1>1 DEF Frames, Answer
<1>3. CASE Become(k, "serving") /\ Tell(k, m) /\ UNCHANGED <<sessions, link>>
  BY <1>1, <1>2, <1>3, MovesOn
<1>4. CASE Become(k, "serving") /\ outbox' = outbox /\ UNCHANGED <<sessions, link>>
  BY <1>1, <1>4, MovesOn
<1>5. CASE Close(k) /\ outbox' = outbox
  BY <1>1, <1>5, CloseIInv DEF IInv, TypeOK
<1> QED
  BY <1>3, <1>4, <1>5 DEF Reply

\* Restart keeps the invariant.
LEMMA RestartIInv ==
  ASSUME IInv, Restart
  PROVE  IInv'
<1> DEFINE next(k) == IF handler[k].at \in Over THEN handler[k].at
                      ELSE IF handler[k].at = "challenged" THEN "refused" ELSE "closed"
<1>1. \A k \in Conns :
        /\ handler'[k] = [handler[k] EXCEPT !.at = next(k)]
        /\ handler[k] \in Handler /\ next(k) \in Phases
  <2> SUFFICES ASSUME NEW k \in Conns
               PROVE  /\ handler'[k] = [handler[k] EXCEPT !.at = next(k)]
                      /\ handler[k] \in Handler /\ next(k) \in Phases
    OBVIOUS
  <2>1. handler[k] \in Handler
    BY DEF IInv, TypeOK
  <2>2. handler[k].at \in Phases /\ {"refused", "closed"} \subseteq Phases
    BY <2>1 DEF Handler, Phases
  <2>3. next(k) \in Phases
    BY <2>2
  <2>4. handler'[k] = [handler[k] EXCEPT !.at = next(k)]
    BY DEF Restart
  <2> QED
    BY <2>1, <2>3, <2>4
<1>2. \A k \in Conns :
        /\ handler'[k] \in Handler /\ handler'[k].at = next(k)
        /\ handler'[k].device = handler[k].device
        /\ handler'[k].group = handler[k].group
  <2> HIDE DEF next
  <2> SUFFICES ASSUME NEW k \in Conns, NEW phase \in Phases, phase = next(k),
                      handler'[k] = [handler[k] EXCEPT !.at = phase],
                      handler[k] \in Handler
               PROVE  /\ handler'[k] \in Handler /\ handler'[k].at = phase
                      /\ handler'[k].device = handler[k].device
                      /\ handler'[k].group = handler[k].group
    BY <1>1
  <2> QED
    BY DEF Handler
<1>3. handler' \in [Conns -> Handler]
  BY <1>2 DEF Restart
<1>4. \A k \in Conns : /\ handler[k].at = "unused" <=> next(k) = "unused"
                       /\ next(k) \notin {"challenged", "routing", "replying"}
                       /\ next(k) = "refused" =>
                            handler[k].at \in {"challenged", "refused"}
  BY <1>1 DEF Over, Handler, Phases
<1>5. Keeps
  BY <1>2, <1>4 DEF Keeps
<1>6. TypeOK'
  BY <1>3 DEF Restart, IInv, TypeOK
<1>7. Opened'
  <2> SUFFICES ASSUME NEW k \in Conns
               PROVE  /\ link'[k] = "unused" <=> handler'[k].at = "unused"
                      /\ handler'[k].at # "unused" => /\ handler'[k].device \in Devices
                                                     /\ handler'[k].group \in Groups
                      /\ handler'[k].at = "unused" => outbox'[k] = <<>>
                      /\ handler'[k].at # "replying"
    BY DEF Opened
  <2>1. handler'[k].at = "unused" <=> handler[k].at = "unused"
    BY <1>2, <1>4
  <2>2. link'[k] = "unused" <=> link[k] = "unused"
    BY DEF Restart
  <2> QED
    BY <1>2, <1>4, <2>1, <2>2 DEF Restart, IInv, Opened
<1>8. SessionsSound' /\ RoutesSound'
  BY <1>2, <1>4 DEF Restart, SessionsSound, RoutesSound
<1>9. MessagesRightful'
  BY <1>5, Untold DEF IInv, Restart
<1> QED
  BY <1>6, <1>7, <1>8, <1>9 DEF IInv

\* No step of a handler, a client or a restart breaks the invariant.
THEOREM NextIInv == IInv /\ [Next]_vars => IInv'
<1> SUFFICES ASSUME IInv, [Next]_vars PROVE IInv'
  OBVIOUS
<1>1. ASSUME NEW k \in Conns, Step(k) PROVE IInv'
  BY <1>1, RegisterIInv, RefuseAuthIInv, GreetIInv, DisconnectIInv, ReceiveIInv,
     ForwardIInv, ReplyIInv DEF Step
<1>2. CASE UNCHANGED vars
  BY <1>2, HandlersAlone DEF vars, IInv, TypeOK
<1> QED
  BY <1>1, <1>2, OpenIInv, SendIInv, LeaveIInv, RestartIInv DEF Next

-----------------------------------------------------------------------------

\* The invariant holds of every reachable state of the relay.
THEOREM Invariant == Spec => []IInv
  BY InitIInv, NextIInv, PTL DEF Spec

\* Type correctness of the relay.
THEOREM TypeCorrect == Spec => []TypeOK
<1>1. IInv => TypeOK
  BY DEF IInv
<1> QED
  BY <1>1, Invariant, PTL

\* Namespace isolation, whatever devices connect, reconnect, leave or stay
\* silent and however often the relay restarts.
THEOREM Isolation == Spec => []RoutedInGroup
<1>1. IInv => RoutedInGroup
  BY DEF IInv, MessagesRightful, Rightful, Authenticated, RoutedInGroup
<1> QED
  BY <1>1, Invariant, PTL

\* The registry points at handlers that run, but for those that died between
\* register and the message loop.
THEOREM RegistrySound == Spec => []SessionsHaveHandlers
<1>1. IInv => SessionsHaveHandlers
  BY DEF IInv, SessionsSound, Authenticated, SessionsHaveHandlers, Over
<1> QED
  BY <1>1, Invariant, PTL

-----------------------------------------------------------------------------
(* Who may cost a connected device its session. *)

Live == {"greeting", "serving", "routing", "replying"}

\* A step that leaves the sessions alone, connects no device and reopens no
\* handler.
LEMMA RegisteredKept ==
  ASSUME IInv, ConnectedIsRegistered, Keeps, sessions' = sessions,
         \A j \in Conns : handler'[j].at \in Live => handler[j].at \in Live,
         \A j \in Conns : handler[j].at = "closed" => handler'[j].at = "closed"
  PROVE  ConnectedIsRegistered'
<1> SUFFICES ASSUME NEW k \in Conns, handler'[k].at \in Live,
                    ~(sessions'[handler'[k].device] # None
                        /\ sessions'[handler'[k].device].conn = k)
             PROVE  \E j \in Conns \ {k} :
                      /\ handler'[j].device = handler'[k].device
                      /\ handler'[j].at \notin {"unused", "challenged", "refused"}
                      /\ sessions'[handler'[k].device] = None => handler'[j].at = "closed"
  BY DEF ConnectedIsRegistered, Live
<1>1. handler[k].at \in Live /\ handler'[k].device = handler[k].device
  BY DEF Keeps, Live
<1>2. PICK j \in Conns \ {k} :
        /\ handler[j].device = handler[k].device
        /\ handler[j].at \notin {"unused", "challenged", "refused"}
        /\ sessions[handler[k].device] = None => handler[j].at = "closed"
  BY <1>1 DEF ConnectedIsRegistered, Live
<1> QED
  BY <1>1, <1>2 DEF Keeps

\* Registering k takes the session of k's device from another connection, or
\* from none.
LEMMA RegisterRegistered ==
  ASSUME IInv, ConnectedIsRegistered, NEW c \in Conns, Register(c)
  PROVE  ConnectedIsRegistered'
<1> DEFINE s == [group |-> handler[c].group, conn |-> c]
<1>1. Become(c, "greeting") /\ handler[c].at = "challenged" /\ "greeting" \in Phases
  BY DEF Register, At, Phases
<1>2. /\ handler'[c].at = "greeting" /\ handler'[c].device = handler[c].device
      /\ \A j \in Conns : j # c => handler'[j] = handler[j]
      /\ handler[c].device \in Devices
  BY <1>1, Becomes DEF IInv, Opened
<1>3. /\ sessions'[handler[c].device] = s /\ s # None /\ s.conn = c
      /\ \A e \in Devices : e # handler[c].device => sessions'[e] = sessions[e]
  <2>1. s \in Session
    BY <1>1 DEF IInv, Opened, Session
  <2>2. s # None
    BY <2>1, RelayAssumption DEF Session
  <2> QED
    BY <1>2, <2>2 DEF Register, register, IInv, TypeOK
<1> SUFFICES ASSUME NEW k \in Conns, handler'[k].at \in Live, k # c
             PROVE  \/ /\ sessions'[handler'[k].device] # None
                       /\ sessions'[handler'[k].device].conn = k
                    \/ \E j \in Conns \ {k} :
                      /\ handler'[j].device = handler'[k].device
                      /\ handler'[j].at \notin {"unused", "challenged", "refused"}
                      /\ sessions'[handler'[k].device] = None => handler'[j].at = "closed"
  BY <1>2, <1>3 DEF ConnectedIsRegistered, Live
<1>4. /\ handler'[k] = handler[k] /\ handler[k].device \in Devices
      /\ handler[k].at \in Live
  BY <1>2 DEF IInv, Opened, Live
<1>5. CASE handler[k].device = handler[c].device
  BY <1>2, <1>3, <1>4, <1>5
<1>6. CASE handler[k].device # handler[c].device
  <2>1. sessions'[handler[k].device] = sessions[handler[k].device]
    BY <1>3, <1>4, <1>6
  <2>2. \A j \in Conns : handler[j].device = handler[k].device => handler'[j] = handler[j]
    BY <1>2, <1>6
  <2> QED
    BY <1>4, <2>1, <2>2 DEF ConnectedIsRegistered, Live
<1> QED
  BY <1>5, <1>6

\* The handler that closes is what another connection of the device may have
\* lost its session to.
LEMMA CloseRegistered ==
  ASSUME IInv, ConnectedIsRegistered, NEW c \in Conns, Close(c),
         handler[c].at \notin {"unused", "challenged"}
  PROVE  ConnectedIsRegistered'
<1>1. Become(c, "closed") /\ "closed" \in Phases
  BY DEF Close, Phases
<1>2. /\ handler'[c].at = "closed" /\ handler'[c].device = handler[c].device
      /\ \A j \in Conns : j # c => handler'[j] = handler[j]
      /\ handler[c].device \in Devices
  BY <1>1, Becomes DEF IInv, Opened
<1>3. /\ sessions'[handler[c].device] = None
      /\ \A e \in Devices : e # handler[c].device => sessions'[e] = sessions[e]
  BY <1>2 DEF Close, unregister, IInv, TypeOK
<1> SUFFICES ASSUME NEW k \in Conns, handler'[k].at \in Live
             PROVE  \/ /\ sessions'[handler'[k].device] # None
                       /\ sessions'[handler'[k].device].conn = k
                    \/ \E j \in Conns \ {k} :
                      /\ handler'[j].device = handler'[k].device
                      /\ handler'[j].at \notin {"unused", "challenged", "refused"}
                      /\ sessions'[handler'[k].device] = None => handler'[j].at = "closed"
  BY DEF ConnectedIsRegistered, Live
<1>4. k # c /\ handler'[k] = handler[k] /\ handler[k].device \in Devices
  BY <1>2 DEF IInv, Opened, Live
<1>5. CASE handler[k].device = handler[c].device
  BY <1>2, <1>4, <1>5
<1>6. CASE handler[k].device # handler[c].device
  <2>1. sessions'[handler[k].device] = sessions[handler[k].device]
    BY <1>3, <1>4, <1>6
  <2>2. \A j \in Conns : handler[j].device = handler[k].device => handler'[j] = handler[j]
    BY <1>2, <1>6
  <2> QED
    BY <1>4, <2>1, <2>2 DEF ConnectedIsRegistered, Live
<1> QED
  BY <1>5, <1>6

\* The handler of c moves on, or opens, and no session changes.
LEMMA MoveRegistered ==
  ASSUME IInv, ConnectedIsRegistered, NEW c \in Conns, NEW new, sessions' = sessions,
         handler' = [handler EXCEPT ![c] = new], Keeps,
         new.at \in Live => handler[c].at \in Live, handler[c].at # "closed"
  PROVE  ConnectedIsRegistered'
<1>1. handler'[c] = new /\ \A j \in Conns : j # c => handler'[j] = handler[j]
  BY DEF IInv, TypeOK
<1> QED
  BY <1>1, RegisteredKept

\* A handler that changes phase without leaving a session keeps every connection
\* registered.
LEMMA BecomeRegistered ==
  ASSUME IInv, ConnectedIsRegistered, NEW c \in Conns, NEW p \in Phases, Become(c, p),
         sessions' = sessions, handler[c].at \in Live \cup {"challenged"},
         p \in Live => handler[c].at \in Live,
         p \notin {"unused", "challenged"}, p = "refused" => handler[c].at = "challenged"
  PROVE  ConnectedIsRegistered'
<1>1. Keeps /\ handler'[c].at = p /\ \A j \in Conns : j # c => handler'[j] = handler[j]
  BY Becomes DEF IInv, Live
<1> QED
  BY <1>1, RegisteredKept DEF Live

\* A new connection is in no session yet.
LEMMA OpenRegistered ==
  ASSUME IInv, ConnectedIsRegistered, NEW c \in Conns, NEW d \in Devices, NEW g \in Groups,
         Open(c, d, g)
  PROVE  ConnectedIsRegistered'
<1> DEFINE new == [handler[c] EXCEPT !.at = "challenged", !.device = d, !.group = g]
<1>1. handler[c].at = "unused" /\ handler[c] \in Handler
  BY DEF IInv, Opened, TypeOK, Open
<1>2. new.at = "challenged" /\ handler' = [handler EXCEPT ![c] = new]
  BY <1>1 DEF Handler, Open
<1>3. Keeps
  BY <1>1, <1>2 DEF Keeps, IInv, TypeOK
<1> QED
  BY <1>1, <1>2, <1>3, MoveRegistered DEF Live, Open

\* A handler that goes on to reply stays registered.
LEMMA ReplyNextRegistered ==
  ASSUME IInv, ConnectedIsRegistered, NEW c \in Conns, NEW r, sessions' = sessions,
         handler' = [handler EXCEPT ![c].at = "replying", ![c].reason = r],
         handler[c].at \in {"serving", "routing"}
  PROVE  ConnectedIsRegistered'
<1> DEFINE new == [handler[c] EXCEPT !.at = "replying", !.reason = r]
<1>1. handler[c] \in Handler /\ handler' = [handler EXCEPT ![c] = new]
  BY DEF IInv, TypeOK
<1>2. /\ new.at = "replying" /\ new.device = handler[c].device
      /\ new.group = handler[c].group
  BY <1>1 DEF Handler
<1>3. Keeps
  BY <1>1, <1>2 DEF Keeps, IInv, TypeOK
<1> QED
  BY <1>1, <1>2, <1>3, MoveRegistered DEF Live

\* Reading a frame leaves the registry alone.
LEMMA ReceiveRegistered ==
  ASSUME IInv, ConnectedIsRegistered, NEW c \in Conns, Receive(c)
  PROVE  ConnectedIsRegistered'
<1> DEFINE f == Head(inbox[c])
           dest == sessions[f.to].conn
           new == [handler[c] EXCEPT !.at = "routing", !.frame = f, !.dest = dest]
<1>1. handler[c].at = "serving" /\ handler[c] \in Handler
  BY DEF Receive, At, IInv, TypeOK
<1>2. CASE /\ handler' = [handler EXCEPT ![c].at = "routing", ![c].frame = f,
                                         ![c].dest = dest]
           /\ sessions' = sessions
  <2>1. handler' = [handler EXCEPT ![c] = new]
    BY <1>2
  <2>2. /\ new.at = "routing" /\ new.device = handler[c].device
        /\ new.group = handler[c].group
    BY <1>1 DEF Handler
  <2>3. Keeps
    BY <1>1, <2>1, <2>2 DEF Keeps, IInv, TypeOK
  <2> QED
    BY <1>1, <1>2, <2>1, <2>2, <2>3, MoveRegistered DEF Live
<1>3. ASSUME NEW r \in Reasons, sessions' = sessions,
             handler' = [handler EXCEPT ![c].at = "replying", ![c].reason = r]
      PROVE  ConnectedIsRegistered'
  BY <1>1, <1>3, ReplyNextRegistered
<1>4. CASE Close(c)
  BY <1>1, <1>4, CloseRegistered
<1> QED
  BY <1>2, <1>3, <1>4 DEF Receive

\* No step of a handler leaves a live one unregistered, unless it was replaced.
LEMMA StepRegistered ==
  ASSUME IInv, ConnectedIsRegistered, NEW c \in Conns, Step(c)
  PROVE  ConnectedIsRegistered'
<1> USE DEF Live, Phases, At
<1>1. CASE RefuseAuth(c)
  BY <1>1, BecomeRegistered DEF RefuseAuth
<1>2. CASE Greet(c)
  BY <1>2, BecomeRegistered DEF Greet
<1>3. CASE Disconnect(c)
  BY <1>3, CloseRegistered DEF Disconnect
<1>4. CASE Forward(c)
  <2>1. handler[c].at = "routing" /\ sessions' = sessions
    BY <1>4 DEF Forward
  <2>2. CASE Become(c, "serving")
    BY <2>1, <2>2, BecomeRegistered
  <2>3. CASE handler' = [handler EXCEPT ![c].at = "replying", ![c].reason = "send_failed"]
    BY <2>1, <2>3, ReplyNextRegistered
  <2> QED
    BY <1>4, <2>2, <2>3 DEF Forward
<1>5. CASE Reply(c)
  BY <1>5, BecomeRegistered, CloseRegistered DEF Reply
<1> QED
  BY <1>1, <1>2, <1>3, <1>4, <1>5, RegisterRegistered, ReceiveRegistered DEF Step

\* A restart leaves no live handler to be registered.
LEMMA RestartRegistered ==
  ASSUME IInv, Restart
  PROVE  ConnectedIsRegistered'
<1>1. \A k \in Conns : handler'[k].at \notin Live
  <2> SUFFICES ASSUME NEW k \in Conns PROVE handler'[k].at \notin Live
    OBVIOUS
  <2> DEFINE phase == IF handler[k].at \in Over THEN handler[k].at
                      ELSE IF handler[k].at = "challenged" THEN "refused" ELSE "closed"
  <2>1. handler[k] \in Handler /\ handler'[k] = [handler[k] EXCEPT !.at = phase]
    BY DEF Restart, IInv, TypeOK
  <2>2. phase \notin Live
    BY DEF Live, Over
  <2> HIDE DEF phase
  <2>3. handler'[k].at = phase
    BY <2>1 DEF Handler
  <2> QED
    BY <2>2, <2>3
<1> QED
  BY <1>1 DEF ConnectedIsRegistered, Live

\* No step takes the session of a connected device away, but a registration of
\* the same device on another connection.
THEOREM NextRegistered == IInv /\ ConnectedIsRegistered /\ [Next]_vars => ConnectedIsRegistered'
<1> SUFFICES ASSUME IInv, ConnectedIsRegistered, [Next]_vars
             PROVE  ConnectedIsRegistered'
  OBVIOUS
<1>1. ASSUME handler' = handler, sessions' = sessions PROVE ConnectedIsRegistered'
  BY <1>1 DEF ConnectedIsRegistered
<1>2. ASSUME NEW k \in Conns, NEW f \in Frame, Send(k, f) PROVE ConnectedIsRegistered'
  BY <1>1, <1>2 DEF Send
<1>3. ASSUME NEW k \in Conns, Leave(k) PROVE ConnectedIsRegistered'
  BY <1>1, <1>3 DEF Leave
<1>4. CASE UNCHANGED vars
  BY <1>1, <1>4 DEF vars
<1> QED
  BY <1>2, <1>3, <1>4, OpenRegistered, StepRegistered, RestartRegistered DEF Next

\* A connected device loses its session only to another connection of its own.
THEOREM RegisteredUnlessReplaced == Spec => []ConnectedIsRegistered
<1>1. Init => ConnectedIsRegistered
  BY DEF Init, ConnectedIsRegistered
<1> QED
  BY <1>1, Invariant, NextRegistered, PTL DEF Spec

-----------------------------------------------------------------------------
(* What a step does to the frames: it queues one, takes one, hands one on,     *)
(* answers one, or leaves them all where they are.                             *)

Busy == {"routing", "replying"}
Admitted == {"serving", "closed"} \cup Busy

\* A connection is lost, or was.
Losing == \E j \in Conns : link'[j] = "lost"
Others(k) == \A j \in Conns : j # k => handler'[j] = handler[j]

\* A client sends, to be heard now or as soon as it is admitted.
Queues(k, f) ==
    /\ link[k] = "open" /\ sent[k] < MaxFrames /\ f.n = sent[k] + 1
    /\ sent' = [sent EXCEPT ![k] = @ + 1]
    /\ inbox' = [inbox EXCEPT ![k] = Append(@, f)]
    /\ UNCHANGED <<sessions, handler, link, outbox>>

Takes(k) ==
    /\ inbox[k] # <<>> /\ inbox' = [inbox EXCEPT ![k] = Tail(@)]
    /\ UNCHANGED <<sent, outbox>>
    /\ handler[k].at = "serving" /\ Others(k)
    /\ handler'[k].at = "routing" => handler'[k].frame = Head(inbox[k])
    /\ Losing \/ handler'[k].at \in Busy

HandsOn(k) ==
    /\ UNCHANGED <<inbox, sent>>
    /\ handler[k].at = "routing" /\ handler'[k].at = "serving" /\ Others(k)
    /\ Tell(handler[k].dest, [kind |-> "message", from |-> handler[k].device,
            to |-> handler[k].frame.to, conn |-> k, n |-> handler[k].frame.n])

Answered(k) ==
    /\ UNCHANGED <<inbox, sent>>
    /\ handler[k].at = "replying" /\ handler'[k].at = "serving" /\ Others(k)
    /\ Tell(k, [kind |-> "error", reason |-> handler[k].reason])

Stays ==
    /\ UNCHANGED <<inbox, sent>>
    /\ \A j \in Conns : handler'[j].at = "routing" =>
            handler[j].at = "routing" /\ handler'[j].frame = handler[j].frame
    /\ Losing \/ \A j \in Conns : handler'[j].at \in Busy <=> handler[j].at \in Busy
    /\ \/ outbox' = outbox
       \/ \E j \in Conns, m \in Frames :
            /\ Tell(j, m) /\ m.kind \notin {"message", "error"}
            /\ m.kind = "auth_ok" => handler'[j].at \in Admitted

\* No connection comes back, and none is turned out once it is in.
Onward ==
    \A j \in Conns : /\ link[j] = "lost" => link'[j] = "lost"
                     /\ handler[j].at \in Admitted => handler'[j].at \in Admitted

Moves ==
    /\ Onward
    /\ \/ \E k \in Conns, f \in Frame : Queues(k, f)
       \/ \E k \in Conns : Takes(k) \/ HandsOn(k) \/ Answered(k)
       \/ Stays

\* A step of one handler to a phase that has no frame, with nothing said or
\* something that is no message and no error.
LEMMA BecomeStays ==
  ASSUME IInv, NEW k \in Conns, NEW p \in Phases, Become(k, p),
         handler[k].at # "unused",
         handler[k].at \notin Admitted \/ (Losing /\ p \in Admitted),
         p \notin Busy \cup {"unused", "challenged"},
         p = "refused" => handler[k].at = "challenged",
         inbox' = inbox, sent' = sent,
         link' = link \/ link' = [link EXCEPT ![k] = "lost"],
         \/ outbox' = outbox
         \/ \E m \in Frames :
                /\ Tell(k, m) /\ m.kind \notin {"message", "error"}
                /\ m.kind = "auth_ok" => p \in Admitted
  PROVE  Moves
<1>1. /\ handler'[k].at = p /\ handler'[k].frame = handler[k].frame
      /\ \A j \in Conns : j # k => handler'[j] = handler[j]
  BY Becomes DEF IInv
<1>2. \A j \in Conns : link[j] = "lost" => link'[j] = "lost"
  BY DEF IInv, TypeOK
<1>3. Onward
  BY <1>1, <1>2 DEF Onward
<1>4. Stays
  BY <1>1 DEF Stays, Busy, Admitted
<1> QED BY <1>3, <1>4 DEF Moves


\* What the handlers do before the message loop, and at its end.
LEMMA EntryMoves ==
  ASSUME IInv, NEW k \in Conns, Register(k) \/ RefuseAuth(k) \/ Greet(k) \/ Disconnect(k)
  PROVE  Moves
<1>1. {"greeting", "refused", "serving", "aborted", "closed"} \subseteq Phases
  BY DEF Phases
<1>2. CASE Register(k)
  <2>1. /\ Become(k, "greeting") /\ handler[k].at = "challenged"
        /\ inbox' = inbox /\ sent' = sent /\ link' = link /\ outbox' = outbox
    BY <1>2 DEF Register, At
  <2> QED BY <1>1, <2>1, BecomeStays DEF Admitted, Busy
<1>3. CASE RefuseAuth(k)
  <2>1. \A r \in {"expected_auth", "invalid_signature"} :
            /\ [kind |-> "auth_failed", reason |-> r] \in Frames
            /\ [kind |-> "auth_failed", reason |-> r].kind = "auth_failed"
    BY DEF Frames, Answer, Reasons
  <2>2. /\ Become(k, "refused") /\ handler[k].at = "challenged"
        /\ inbox' = inbox /\ sent' = sent /\ link' = [link EXCEPT ![k] = "lost"]
        /\ \/ outbox' = outbox
           \/ \E m \in Frames : Tell(k, m) /\ m.kind = "auth_failed"
    BY <1>3, <2>1 DEF RefuseAuth, At
  <2> QED BY <1>1, <2>2, BecomeStays DEF Admitted, Busy
<1>4. CASE Greet(k)
  <2>1. [kind |-> "auth_ok"] \in Frames /\ [kind |-> "auth_ok"].kind = "auth_ok"
    BY DEF Frames, Answer
  <2>2. /\ handler[k].at = "greeting"
        /\ inbox' = inbox /\ sent' = sent /\ link' = link
        /\ \/ Become(k, "serving") /\ Tell(k, [kind |-> "auth_ok"])
           \/ Become(k, "serving") /\ outbox' = outbox
           \/ Become(k, "aborted") /\ outbox' = outbox
    BY <1>4 DEF Greet, At
  <2>3. CASE Become(k, "serving") /\ Tell(k, [kind |-> "auth_ok"])
    BY <1>1, <2>1, <2>2, <2>3, BecomeStays DEF Admitted, Busy
  <2>4. CASE Become(k, "serving") /\ outbox' = outbox
    BY <1>1, <2>2, <2>4, BecomeStays DEF Admitted, Busy
  <2>5. CASE Become(k, "aborted") /\ outbox' = outbox
    BY <1>1, <2>2, <2>5, BecomeStays DEF Admitted, Busy
  <2> QED BY <2>2, <2>3, <2>4, <2>5
<1>5. CASE Disconnect(k)
  <2>1. /\ handler[k].at = "serving" /\ Close(k)
        /\ inbox' = inbox /\ sent' = sent /\ outbox' = outbox
    BY <1>5 DEF Disconnect, At
  <2>2. link' = [link EXCEPT ![k] = "lost"] /\ Become(k, "closed")
    BY <2>1 DEF Close
  <2>3. Losing
    BY <2>2 DEF Losing, IInv, TypeOK
  <2> QED BY <1>1, <2>1, <2>2, <2>3, BecomeStays DEF Admitted, Busy
<1> QED BY <1>2, <1>3, <1>4, <1>5

\* Closing a connection loses it.
LEMMA CloseLoses ==
  ASSUME IInv, NEW k \in Conns, Close(k), handler[k].at # "unused"
  PROVE  /\ Losing /\ Others(k) /\ handler'[k].at = "closed"
         /\ link' = [link EXCEPT ![k] = "lost"] /\ Become(k, "closed")
         /\ \A j \in Conns : link[j] = "lost" => link'[j] = "lost"
<1>1. link' = [link EXCEPT ![k] = "lost"] /\ Become(k, "closed")
  BY DEF Close
<1>2. link' [k] = "lost" /\ \A j \in Conns : link[j] = "lost" => link'[j] = "lost"
  BY <1>1 DEF IInv, TypeOK
<1>3. "closed" \in Phases
  BY DEF Phases
<1>4. Others(k) /\ handler'[k].at = "closed"
  BY <1>1, <1>3, Becomes DEF IInv, Others
<1> QED BY <1>1, <1>2, <1>4 DEF Losing

\* What it does with a frame: take it.
LEMMA ReceiveMoves ==
  ASSUME IInv, NEW k \in Conns, Receive(k)
  PROVE  Moves
<1> DEFINE f == Head(inbox[k])
           v == Verdict(handler[k].device, f)
<1>1. /\ handler[k].at = "serving" /\ inbox[k] # <<>> /\ handler[k] \in Handler
      /\ inbox' = [inbox EXCEPT ![k] = Tail(@)] /\ sent' = sent /\ outbox' = outbox
  BY DEF Receive, At, IInv, TypeOK
<1>2. ASSUME NEW d, v = "ok", link' = link,
             handler' = [handler EXCEPT ![k].at = "routing", ![k].frame = f, ![k].dest = d]
      PROVE  Moves
  <2>1. /\ handler'[k] = [handler[k] EXCEPT !.at = "routing", !.frame = f, !.dest = d]
        /\ Others(k)
    BY <1>2 DEF Others, IInv, TypeOK
  <2>2. handler'[k].at = "routing" /\ handler'[k].frame = f
    BY <1>1, <2>1 DEF Handler
  <2>3. Onward
    BY <1>2, <2>1, <2>2 DEF Onward, Others, Admitted, Busy
  <2>4. Takes(k)
    BY <1>1, <2>1, <2>2 DEF Takes, Busy
  <2> QED BY <2>3, <2>4 DEF Moves
<1>3. ASSUME NEW r, link' = link,
             handler' = [handler EXCEPT ![k].at = "replying", ![k].reason = r]
      PROVE  Moves
  <2>1. /\ handler'[k] = [handler[k] EXCEPT !.at = "replying", !.reason = r]
        /\ Others(k)
    BY <1>3 DEF Others, IInv, TypeOK
  <2>2. handler'[k].at = "replying"
    BY <1>1, <2>1 DEF Handler
  <2>3. Onward
    BY <1>3, <2>1, <2>2 DEF Onward, Others, Admitted, Busy
  <2>4. Takes(k)
    BY <1>1, <2>1, <2>2 DEF Takes, Busy
  <2> QED BY <2>3, <2>4 DEF Moves
<1>4. CASE Close(k)
  <2>1. /\ Losing /\ Others(k) /\ handler'[k].at = "closed"
        /\ \A j \in Conns : link[j] = "lost" => link'[j] = "lost"
    BY <1>1, <1>4, CloseLoses
  <2>2. Onward
    BY <1>1, <2>1 DEF Onward, Others, Admitted
  <2>3. Takes(k)
    BY <1>1, <2>1 DEF Takes
  <2> QED BY <2>2, <2>3 DEF Moves
<1> QED BY <1>2, <1>3, <1>4 DEF Receive


\* Hand it on.
LEMMA ForwardMoves ==
  ASSUME IInv, NEW k \in Conns, Forward(k)
  PROVE  Moves
<1> DEFINE dest == handler[k].dest
           m == [kind |-> "message", from |-> handler[k].device,
                 to |-> handler[k].frame.to, conn |-> k, n |-> handler[k].frame.n]
<1>1. /\ handler[k].at = "routing" /\ handler[k] \in Handler /\ "serving" \in Phases
      /\ inbox' = inbox /\ sent' = sent /\ link' = link
      /\ dest \in Conns /\ link[dest] # "unused" /\ link[dest] \in {"unused", "open", "lost"}
  BY DEF Forward, At, IInv, TypeOK, RoutesSound, Opened, Phases
<1>2. link[dest] # "open" => Losing
  BY <1>1 DEF Losing
<1>3. CASE Become(k, "serving") /\ Tell(dest, m)
  <2>1. handler'[k].at = "serving" /\ Others(k)
    BY <1>1, <1>3, Becomes DEF IInv, Others
  <2>2. Onward
    BY <1>1, <2>1 DEF Onward, Others, Admitted
  <2>3. HandsOn(k)
    BY <1>1, <1>3, <2>1 DEF HandsOn
  <2> QED BY <2>2, <2>3 DEF Moves
<1>4. CASE Become(k, "serving") /\ link[dest] # "open" /\ outbox' = outbox
  <2>1. Losing /\ "serving" \in Admitted
    BY <1>2, <1>4 DEF Admitted
  <2> QED BY <1>1, <1>4, <2>1, BecomeStays DEF Admitted, Busy
<1>5. CASE /\ link[dest] = "lost" /\ outbox' = outbox
           /\ handler' = [handler EXCEPT ![k].at = "replying", ![k].reason = "send_failed"]
  <2>1. /\ handler'[k] = [handler[k] EXCEPT !.at = "replying", !.reason = "send_failed"]
        /\ Others(k)
    BY <1>5 DEF Others, IInv, TypeOK
  <2>2. handler'[k].at = "replying"
    BY <1>1, <2>1 DEF Handler
  <2>3. Onward
    BY <1>1, <2>1, <2>2 DEF Onward, Others, Admitted, Busy
  <2>4. Losing
    BY <1>2, <1>5
  <2>5. Stays
    BY <1>1, <1>5, <2>1, <2>2, <2>4 DEF Stays, Others
  <2> QED BY <2>3, <2>5 DEF Moves
<1> QED BY <1>3, <1>4, <1>5 DEF Forward

\* Answer it with an error.
LEMMA ReplyMoves ==
  ASSUME IInv, NEW k \in Conns, Reply(k)
  PROVE  Moves
<1> DEFINE m == [kind |-> "error", reason |-> handler[k].reason]
<1>1. /\ handler[k].at = "replying" /\ {"serving", "closed"} \subseteq Phases
      /\ inbox' = inbox /\ sent' = sent
      /\ link[k] # "unused" /\ link[k] \in {"unused", "open", "lost"}
  BY DEF Reply, At, IInv, TypeOK, Opened, Phases
<1>2. CASE Become(k, "serving") /\ link' = link /\ Tell(k, m)
  <2>1. handler'[k].at = "serving" /\ Others(k)
    BY <1>1, <1>2, Becomes DEF IInv, Others
  <2>2. Onward
    BY <1>1, <1>2, <2>1 DEF Onward, Others, Admitted
  <2>3. Answered(k)
    BY <1>1, <1>2, <2>1 DEF Answered
  <2> QED BY <2>2, <2>3 DEF Moves
<1>3. CASE Become(k, "serving") /\ link' = link /\ link[k] # "open" /\ outbox' = outbox
  <2>1. Losing /\ "serving" \in Admitted
    BY <1>1, <1>3 DEF Admitted, Losing
  <2> QED BY <1>1, <1>3, <2>1, BecomeStays DEF Admitted, Busy
<1>4. CASE Close(k) /\ outbox' = outbox
  <2>1. Losing /\ Become(k, "closed") /\ link' = [link EXCEPT ![k] = "lost"]
    BY <1>1, <1>4, CloseLoses
  <2> QED BY <1>1, <1>4, <2>1, BecomeStays DEF Admitted, Busy
<1> QED BY <1>2, <1>3, <1>4 DEF Reply

\* A restart loses every connection there is.
LEMMA RestartMoves ==
  ASSUME IInv, Restart
  PROVE  Moves
<1>1. \A k \in Conns :
        /\ handler[k].at \in Phases
        /\ handler'[k].at = IF handler[k].at \in Over THEN handler[k].at
                            ELSE IF handler[k].at = "challenged" THEN "refused" ELSE "closed"
  <2> SUFFICES ASSUME NEW k \in Conns
               PROVE  /\ handler[k].at \in Phases
                      /\ handler'[k].at =
                            IF handler[k].at \in Over THEN handler[k].at
                            ELSE IF handler[k].at = "challenged" THEN "refused" ELSE "closed"
    OBVIOUS
  <2>1. handler[k] \in Handler
    BY DEF IInv, TypeOK
  <2> DEFINE p == IF handler[k].at \in Over THEN handler[k].at
                  ELSE IF handler[k].at = "challenged" THEN "refused" ELSE "closed"
  <2>2. handler'[k] = [handler[k] EXCEPT !.at = p]
    BY DEF Restart
  <2> HIDE DEF p
  <2>3. handler'[k].at = p
    BY <2>1, <2>2 DEF Handler
  <2> QED BY <2>1, <2>3 DEF p, Handler
<1>2. \A k \in Conns : /\ link'[k] = IF link[k] = "open" THEN "lost" ELSE link[k]
                       /\ link[k] \in {"unused", "open", "lost"}
                       /\ link[k] = "unused" <=> handler[k].at = "unused"
  BY DEF Restart, IInv, TypeOK, Opened
<1>3. Onward
  BY <1>1, <1>2 DEF Onward, Admitted, Busy, Over
<1>4. Losing \/ \A k \in Conns : handler[k].at = "unused"
  BY <1>2 DEF Losing
<1>5. \A k \in Conns : handler'[k].at # "routing"
  BY <1>1 DEF Over
<1>6. (\A k \in Conns : handler[k].at = "unused") =>
            \A k \in Conns : handler'[k].at = handler[k].at
  BY <1>1 DEF Over
<1>7. Stays
  BY <1>4, <1>5, <1>6 DEF Stays, Restart
<1> QED BY <1>3, <1>7 DEF Moves

\* Every step of the relay and its clients.
LEMMA NextMoves ==
  ASSUME IInv, [Next]_vars
  PROVE  Moves
<1>1. ASSUME handler' = handler, outbox' = outbox, inbox' = inbox, sent' = sent,
             \A k \in Conns : link[k] = "lost" => link'[k] = "lost"
      PROVE  Moves
  BY <1>1 DEF Moves, Onward, Stays
<1>2. ASSUME NEW k \in Conns, NEW d \in Devices, NEW g \in Groups, Open(k, d, g)
      PROVE  Moves
  <2>1. /\ handler[k] \in Handler /\ handler[k].at = "unused"
        /\ handler' = [handler EXCEPT ![k].at = "challenged", ![k].device = d,
                                      ![k].group = g]
        /\ inbox' = inbox /\ sent' = sent /\ Tell(k, [kind |-> "challenge"])
    BY <1>2 DEF Open, IInv, TypeOK, Opened
  <2> DEFINE new == [handler[k] EXCEPT !.at = "challenged", !.device = d, !.group = g]
  <2>2. new \in Handler /\ new.at = "challenged"
    BY <2>1 DEF Handler, Phases
  <2>3. handler'[k] = new /\ Others(k)
    BY <1>2, <2>2 DEF Open, IInv, TypeOK, Others
  <2>4. /\ [kind |-> "challenge"] \in Frames
        /\ [kind |-> "challenge"].kind \notin {"message", "error", "auth_ok"}
    BY DEF Frames, Answer
  <2> HIDE DEF new
  <2>5. \A j \in Conns : link[j] = "lost" => link'[j] = "lost"
    BY <1>2 DEF Open, IInv, TypeOK
  <2>6. Onward
    BY <2>1, <2>3, <2>5 DEF Onward, Others, Admitted, Busy
  <2>7. Stays
    BY <2>1, <2>2, <2>3, <2>4 DEF Stays, Others, Busy
  <2> QED BY <2>6, <2>7 DEF Moves
<1>3. ASSUME NEW k \in Conns, NEW f \in Frame, Send(k, f)
      PROVE  Moves
  <2>1. Queues(k, f)
    BY <1>3 DEF Send, Queues
  <2>2. Onward
    BY <2>1 DEF Queues, Onward
  <2> QED BY <2>1, <2>2 DEF Moves
<1>4. ASSUME NEW k \in Conns, Leave(k)
      PROVE  Moves
  <2>1. \A j \in Conns : link[j] = "lost" => link'[j] = "lost"
    BY <1>4 DEF Leave, IInv, TypeOK
  <2> QED BY <1>1, <1>4, <2>1 DEF Leave
<1>5. ASSUME NEW k \in Conns, Step(k)
      PROVE  Moves
  BY <1>5, EntryMoves, ReceiveMoves, ForwardMoves, ReplyMoves DEF Step
<1>6. CASE UNCHANGED vars
  BY <1>1, <1>6 DEF vars
<1> QED BY <1>2, <1>3, <1>4, <1>5, <1>6, RestartMoves DEF Next


\* What is told comes last.
LEMMA TellEnds ==
  ASSUME TypeOK, NEW k \in Conns, NEW m \in Frames, Tell(k, m)
  PROVE  /\ Len(outbox[k]) \in Nat /\ DOMAIN outbox[k] = 1 .. Len(outbox[k])
         /\ DOMAIN outbox'[k] = 1 .. Len(outbox[k]) + 1
         /\ \A i \in DOMAIN outbox[k] : outbox'[k][i] = outbox[k][i]
         /\ outbox'[k][Len(outbox[k]) + 1] = m
         /\ \A j \in Conns : j # k => outbox'[j] = outbox[j]
<1>1. outbox[k] \in Seq(Frames)
  BY DEF TypeOK, Frames
<1>2. /\ outbox'[k] = Append(outbox[k], m)
      /\ \A j \in Conns : j # k => outbox'[j] = outbox[j]
  BY DEF Tell, TypeOK
<1> QED BY <1>1, <1>2

-----------------------------------------------------------------------------
(* The frames of one connection stay in line. *)

\* How many frames the handler has taken from its inbox.
Taken(k) == sent[k] - Len(inbox[k])

\* Frames are numbered as they are sent and taken.
Waiting ==
    \A k \in Conns :
        /\ Len(inbox[k]) <= sent[k]
        /\ \A i \in DOMAIN inbox[k] : inbox[k][i].n = Taken(k) + i
        /\ handler[k].at = "routing" => handler[k].frame.n = Taken(k)

\* A message is of a frame that was taken, and not of the one in hand.
Reached ==
    \A j, k \in Conns : \A i \in Messages(j) : outbox[j][i].conn = k =>
        /\ outbox[j][i].n <= Taken(k)
        /\ handler[k].at = "routing" => outbox[j][i].n < Taken(k)

InLine == Waiting /\ Reached /\ InOrder

\* The numbers are numbers.
LEMMA Numbers ==
  ASSUME TypeOK
  PROVE  /\ \A k \in Conns :
            /\ sent[k] \in Nat /\ Len(inbox[k]) \in Nat /\ Taken(k) \in Int
            /\ DOMAIN inbox[k] = 1 .. Len(inbox[k])
            /\ \A i \in DOMAIN inbox[k] : inbox[k][i] \in Frame /\ inbox[k][i].n \in Nat
         /\ \A j \in Conns : \A i \in Messages(j) :
            outbox[j][i].conn \in Conns /\ outbox[j][i].n \in Nat
<1>1. ASSUME NEW k \in Conns
      PROVE  /\ sent[k] \in Nat /\ Len(inbox[k]) \in Nat /\ Taken(k) \in Int
             /\ DOMAIN inbox[k] = 1 .. Len(inbox[k])
             /\ \A i \in DOMAIN inbox[k] : inbox[k][i] \in Frame /\ inbox[k][i].n \in Nat
  <2>1. sent[k] \in 0 .. MaxFrames /\ inbox[k] \in Seq(Frame) /\ MaxFrames \in Nat
    BY RelayAssumption DEF TypeOK, RelayAssumption
  <2>2. /\ sent[k] \in Nat /\ Len(inbox[k]) \in Nat /\ DOMAIN inbox[k] = 1 .. Len(inbox[k])
        /\ \A i \in DOMAIN inbox[k] : inbox[k][i] \in Frame
    BY <2>1
  <2>3. \A f \in Frame : f.n \in Nat
    BY <2>1 DEF Frame
  <2> QED BY <2>2, <2>3 DEF Taken
<1>2. ASSUME NEW j \in Conns, NEW i \in Messages(j)
      PROVE  outbox[j][i].conn \in Conns /\ outbox[j][i].n \in Nat
  <2>1. outbox[j] \in Seq(Frames) /\ i \in DOMAIN outbox[j] /\ outbox[j][i].kind = "message"
    BY DEF TypeOK, Frames, Messages
  <2>2. outbox[j][i] \in Frames
    BY <2>1
  <2>3. outbox[j][i] \in Forwarded
    BY <2>1, <2>2 DEF Frames, Answer
  <2>4. MaxFrames \in Nat
    BY RelayAssumption DEF RelayAssumption
  <2> QED BY <2>3, <2>4 DEF Forwarded
<1> QED BY <1>1, <1>2

\* Where no message is told, those that were are all there are.
LEMMA NoMessage ==
  ASSUME TypeOK,
         \/ outbox' = outbox
         \/ \E j \in Conns, m \in Frames : Tell(j, m) /\ m.kind # "message"
  PROVE  \A j \in Conns : \A i \in Messages(j)' :
            i \in Messages(j) /\ outbox'[j][i] = outbox[j][i]
<1>1. CASE outbox' = outbox
  BY <1>1 DEF Messages
<1>2. ASSUME NEW k \in Conns, NEW m \in Frames, Tell(k, m), m.kind # "message"
      PROVE  \A j \in Conns : \A i \in Messages(j)' :
                i \in Messages(j) /\ outbox'[j][i] = outbox[j][i]
  BY <1>2, TellAppends DEF Messages
<1> QED BY <1>1, <1>2

\* Old messages keep their order and stay behind what is taken.
LEMMA OrderKept ==
  ASSUME TypeOK, TypeOK', Reached, InOrder,
         \A j \in Conns : \A i \in Messages(j)' :
            i \in Messages(j) /\ outbox'[j][i] = outbox[j][i],
         \A k \in Conns :
            \/ Taken(k)' = Taken(k) /\ (handler'[k].at = "routing" => handler[k].at = "routing")
            \/ Taken(k)' = Taken(k) + 1
  PROVE  Reached' /\ InOrder'
<1>1. InOrder'
  BY DEF InOrder
<1>2. ASSUME NEW j \in Conns, NEW k \in Conns, NEW i \in Messages(j)', outbox'[j][i].conn = k
      PROVE  /\ outbox'[j][i].n <= Taken(k)'
             /\ handler'[k].at = "routing" => outbox'[j][i].n < Taken(k)'
  <2>1. /\ outbox'[j][i] = outbox[j][i] /\ outbox[j][i].n \in Nat /\ Taken(k) \in Int
        /\ outbox[j][i].n <= Taken(k)
        /\ handler[k].at = "routing" => outbox[j][i].n < Taken(k)
    BY <1>2, Numbers DEF Reached
  <2> DEFINE n == outbox[j][i].n
             a == Taken(k)
             b == Taken(k)'
  <2>2. n <= b /\ (handler'[k].at = "routing" => n < b)
    <3> HIDE DEF n, a, b
    <3>1. n \in Nat /\ a \in Int /\ n <= a /\ (handler[k].at = "routing" => n < a)
      BY <2>1 DEF n, a
    <3>2. \/ b = a /\ (handler'[k].at = "routing" => handler[k].at = "routing")
          \/ b = a + 1
      BY DEF a, b
    <3> QED BY <3>1, <3>2
  <2> QED BY <2>1, <2>2
<1> QED BY <1>1, <1>2 DEF Reached


\* A frame joins the line at its end.
LEMMA QueueInLine ==
  ASSUME TypeOK, TypeOK', InLine, NEW k \in Conns, NEW f \in Frame, Queues(k, f)
  PROVE  InLine'
<1>1. /\ inbox[k] \in Seq(Frame) /\ f.n = sent[k] + 1
      /\ inbox'[k] = Append(inbox[k], f) /\ sent'[k] = sent[k] + 1
      /\ \A j \in Conns : j # k => inbox'[j] = inbox[j] /\ sent'[j] = sent[j]
      /\ handler' = handler /\ outbox' = outbox
  BY DEF Queues, TypeOK
<1>2. /\ Len(inbox'[k]) = Len(inbox[k]) + 1
      /\ DOMAIN inbox'[k] = 1 .. Len(inbox[k]) + 1
      /\ \A i \in 1 .. Len(inbox[k]) : inbox'[k][i] = inbox[k][i]
      /\ inbox'[k][Len(inbox[k]) + 1] = f
  BY <1>1
<1>3. \A j \in Conns : Taken(j)' = Taken(j)
  <2>1. sent[k] \in Nat /\ Len(inbox[k]) \in Nat
    BY Numbers
  <2>2. Taken(k)' = Taken(k)
    BY <1>1, <1>2, <2>1 DEF Taken
  <2>3. \A j \in Conns : j # k => Taken(j)' = Taken(j)
    BY <1>1 DEF Taken
  <2> QED BY <2>2, <2>3
<1>4. Waiting'
  <2> SUFFICES ASSUME NEW j \in Conns
               PROVE  /\ Len(inbox'[j]) <= sent'[j]
                      /\ \A i \in DOMAIN inbox'[j] : inbox'[j][i].n = Taken(j)' + i
                      /\ handler'[j].at = "routing" => handler'[j].frame.n = Taken(j)'
    BY DEF Waiting
  <2>1. /\ Len(inbox[j]) <= sent[j] /\ sent[j] \in Nat /\ Len(inbox[j]) \in Nat
        /\ DOMAIN inbox[j] = 1 .. Len(inbox[j])
        /\ \A i \in DOMAIN inbox[j] : inbox[j][i].n = Taken(j) + i
        /\ handler[j].at = "routing" => handler[j].frame.n = Taken(j)
    BY Numbers DEF InLine, Waiting
  <2>2. CASE j # k
    BY <1>1, <1>3, <2>1, <2>2
  <2>3. CASE j = k
    <3>1. f.n = Taken(k) + (Len(inbox[k]) + 1)
      BY <1>1, <2>1, <2>3 DEF Taken
    <3>2. \A i \in DOMAIN inbox'[k] : inbox'[k][i].n = Taken(k) + i
      BY <1>2, <2>1, <2>3, <3>1
    <3>3. Len(inbox'[k]) <= sent'[k]
      BY <1>1, <1>2, <2>1, <2>3
    <3>4. handler'[k].at = "routing" => handler'[k].frame.n = Taken(k)
      BY <1>1, <2>1, <2>3
    <3> QED BY <1>3, <2>3, <3>2, <3>3, <3>4
  <2> QED BY <2>2, <2>3
<1>5. Reached' /\ InOrder'
  BY <1>1, <1>3, NoMessage, OrderKept DEF InLine
<1> QED BY <1>4, <1>5 DEF InLine

\* The first one is taken.
LEMMA TakeInLine ==
  ASSUME TypeOK, TypeOK', InLine, NEW k \in Conns, Takes(k)
  PROVE  InLine'
<1>1. /\ inbox[k] \in Seq(Frame) /\ inbox[k] # <<>>
      /\ inbox'[k] = Tail(inbox[k]) /\ sent' = sent
      /\ \A j \in Conns : j # k => inbox'[j] = inbox[j] /\ handler'[j] = handler[j]
      /\ outbox' = outbox
      /\ handler'[k].at = "routing" => handler'[k].frame = Head(inbox[k])
  BY DEF Takes, TypeOK, Others
<1>2. /\ Len(inbox[k]) \in Nat /\ Len(inbox[k]) > 0 /\ sent[k] \in Nat
      /\ DOMAIN inbox[k] = 1 .. Len(inbox[k])
      /\ Len(inbox'[k]) = Len(inbox[k]) - 1
      /\ DOMAIN inbox'[k] = 1 .. Len(inbox[k]) - 1
      /\ \A i \in 1 .. Len(inbox[k]) - 1 : inbox'[k][i] = inbox[k][i + 1]
      /\ Head(inbox[k]) = inbox[k][1]
  BY <1>1, Numbers
<1>3. Taken(k)' = Taken(k) + 1 /\ \A j \in Conns : j # k => Taken(j)' = Taken(j)
  BY <1>1, <1>2 DEF Taken
<1>4. Waiting'
  <2> SUFFICES ASSUME NEW j \in Conns
               PROVE  /\ Len(inbox'[j]) <= sent'[j]
                      /\ \A i \in DOMAIN inbox'[j] : inbox'[j][i].n = Taken(j)' + i
                      /\ handler'[j].at = "routing" => handler'[j].frame.n = Taken(j)'
    BY DEF Waiting
  <2>1. /\ Len(inbox[j]) <= sent[j]
        /\ \A i \in DOMAIN inbox[j] : inbox[j][i].n = Taken(j) + i
        /\ handler[j].at = "routing" => handler[j].frame.n = Taken(j)
    BY DEF InLine, Waiting
  <2>2. CASE j # k
    BY <1>1, <1>3, <2>1, <2>2
  <2>3. CASE j = k
    <3>1. Taken(k) \in Int
      BY Numbers
    <3>2. ASSUME NEW i \in 1 .. Len(inbox[k]) - 1
          PROVE  inbox[k][i + 1].n = (Taken(k) + 1) + i
      <4>1. i + 1 \in DOMAIN inbox[k] /\ i \in Int
        BY <1>2
      <4>2. inbox[k][i + 1].n = Taken(k) + (i + 1)
        BY <2>1, <2>3, <4>1
      <4> QED BY <3>1, <4>1, <4>2
    <3>3. \A i \in DOMAIN inbox'[k] : inbox'[k][i].n = Taken(k)' + i
      BY <1>2, <1>3, <3>2
    <3>4. inbox[k][1].n = Taken(k) + 1
      BY <1>2, <2>1, <2>3
    <3>5. Len(inbox'[k]) <= sent'[k]
      BY <1>1, <1>2, <2>1, <2>3
    <3>6. handler'[k].at = "routing" => handler'[k].frame.n = Taken(k)'
      BY <1>1, <1>2, <1>3, <3>4
    <3> QED BY <2>3, <3>3, <3>5, <3>6
  <2> QED BY <2>2, <2>3
<1>5. Reached' /\ InOrder'
  BY <1>1, <1>3, NoMessage, OrderKept DEF InLine
<1> QED BY <1>4, <1>5 DEF InLine

\* What is answered is an error.
LEMMA ErrorTold ==
  ASSUME TypeOK, TypeOK', NEW k \in Conns, Answered(k)
  PROVE  \E m \in Frames : Tell(k, m) /\ m.kind = "error"
<1> DEFINE m == [kind |-> "error", reason |-> handler[k].reason]
<1>1. Tell(k, m) /\ m.kind = "error" /\ outbox'[k] \in Seq(Frames)
  BY DEF Answered, TypeOK, Frames
<1>2. outbox'[k] = Append(outbox[k], m) /\ outbox[k] \in Seq(Frames)
  BY <1>1 DEF Tell, TypeOK, Frames
<1>3. m \in Frames
  <2> HIDE DEF m
  <2>1. Len(outbox[k]) + 1 \in DOMAIN outbox'[k] /\ outbox'[k][Len(outbox[k]) + 1] = m
    BY <1>2
  <2> QED BY <1>1, <2>1
<1> QED BY <1>1, <1>3

\* Nothing moves, or an error is answered.
LEMMA RestInLine ==
  ASSUME TypeOK, TypeOK', InLine, Stays \/ \E k \in Conns : Answered(k)
  PROVE  InLine'
<1>1. /\ inbox' = inbox /\ sent' = sent
      /\ \A j \in Conns : handler'[j].at = "routing" =>
            handler[j].at = "routing" /\ handler'[j].frame = handler[j].frame
  BY DEF Stays, Answered, Others
<1>2. \/ outbox' = outbox
      \/ \E j \in Conns, m \in Frames : Tell(j, m) /\ m.kind # "message"
  <2>1. CASE Stays
    BY <2>1 DEF Stays
  <2>2. ASSUME NEW k \in Conns, Answered(k)
        PROVE  \E j \in Conns, m \in Frames : Tell(j, m) /\ m.kind # "message"
    BY <2>2, ErrorTold
  <2> QED BY <2>1, <2>2
<1>3. \A k \in Conns : Taken(k)' = Taken(k)
  BY <1>1 DEF Taken
<1>4. Waiting'
  BY <1>1, <1>3 DEF InLine, Waiting
<1>5. Reached' /\ InOrder'
  BY <1>1, <1>2, <1>3, NoMessage, OrderKept DEF InLine
<1> QED BY <1>4, <1>5 DEF InLine


\* What a handler hands on is a message to a connection that was opened.
LEMMA HandedOn ==
  ASSUME IInv, NEW k \in Conns, HandsOn(k)
  PROVE  LET m == [kind |-> "message", from |-> handler[k].device,
                   to |-> handler[k].frame.to, conn |-> k, n |-> handler[k].frame.n]
         IN  m \in Frames /\ handler[k].dest \in Conns /\ Tell(handler[k].dest, m)
<1>1. /\ handler[k].frame \in Frame /\ handler[k].dest \in Conns
      /\ handler[k].frame.to \in Devices /\ handler[k].device \in Devices
  BY DEF HandsOn, IInv, RoutesSound, Opened
<1> QED BY <1>1 DEF Frames, Forwarded, Frame, HandsOn

\* The frame in hand goes behind the messages there are.
LEMMA HandOnInLine ==
  ASSUME IInv, TypeOK', InLine, NEW k \in Conns, HandsOn(k)
  PROVE  InLine'
<1> DEFINE m == [kind |-> "message", from |-> handler[k].device,
                 to |-> handler[k].frame.to, conn |-> k, n |-> handler[k].frame.n]
           dest == handler[k].dest
           last == Len(outbox[dest]) + 1
<1>1. /\ m \in Frames /\ m.conn = k /\ m.n = handler[k].frame.n /\ m.kind = "message"
      /\ dest \in Conns /\ Tell(dest, m)
  BY HandedOn
<1>2. /\ inbox' = inbox /\ sent' = sent /\ handler[k].at = "routing"
      /\ handler'[k].at = "serving" /\ \A j \in Conns : j # k => handler'[j] = handler[j]
  BY DEF HandsOn, Others
<1>3. \A j \in Conns : Taken(j)' = Taken(j)
  BY <1>2 DEF Taken
<1>4. m.n = Taken(k) /\ Taken(k) \in Int /\ TypeOK
  BY <1>1, <1>2, Numbers DEF InLine, Waiting, IInv
<1> HIDE DEF m, dest
<1>5. /\ Len(outbox[dest]) \in Nat /\ DOMAIN outbox[dest] = 1 .. Len(outbox[dest])
      /\ DOMAIN outbox'[dest] = 1 .. last
      /\ \A i \in DOMAIN outbox[dest] : outbox'[dest][i] = outbox[dest][i]
      /\ outbox'[dest][last] = m
      /\ \A j \in Conns : j # dest => outbox'[j] = outbox[j]
  BY <1>1, <1>4, TellEnds
<1>6. \A j \in Conns : \A i \in Messages(j)' :
        \/ /\ i \in Messages(j) /\ outbox'[j][i] = outbox[j][i]
           /\ j = dest => i < last
        \/ j = dest /\ i = last /\ outbox'[j][i] = m
  <2> SUFFICES ASSUME NEW j \in Conns, NEW i \in Messages(j)'
               PROVE  \/ /\ i \in Messages(j) /\ outbox'[j][i] = outbox[j][i]
                         /\ j = dest => i < last
                      \/ j = dest /\ i = last /\ outbox'[j][i] = m
    OBVIOUS
  <2>1. i \in DOMAIN outbox'[j] /\ outbox'[j][i].kind = "message"
    BY DEF Messages
  <2>2. CASE j # dest
    BY <1>5, <2>1, <2>2 DEF Messages
  <2>3. CASE j = dest
    <3>1. i = last \/ (i \in DOMAIN outbox[dest] /\ i < last)
      BY <1>5, <2>1, <2>3
    <3> QED BY <1>5, <2>1, <2>3, <3>1 DEF Messages
  <2> QED BY <2>2, <2>3
<1> HIDE DEF last
<1>7. Waiting'
  BY <1>2, <1>3 DEF InLine, Waiting
<1>8. \A j \in Conns : \A i \in Messages(j) :
        outbox[j][i].conn = k => outbox[j][i].n < m.n
  BY <1>2, <1>4 DEF InLine, Reached
<1>9. Reached'
  <2> SUFFICES ASSUME NEW j \in Conns, NEW c \in Conns, NEW i \in Messages(j)',
                      outbox'[j][i].conn = c
               PROVE  /\ outbox'[j][i].n <= Taken(c)'
                      /\ handler'[c].at = "routing" => outbox'[j][i].n < Taken(c)'
    BY DEF Reached
  <2>1. CASE i \in Messages(j) /\ outbox'[j][i] = outbox[j][i]
    <3>1. /\ outbox[j][i].n <= Taken(c)
          /\ handler[c].at = "routing" => outbox[j][i].n < Taken(c)
      BY <2>1 DEF InLine, Reached
    <3> QED BY <1>2, <1>3, <2>1, <3>1
  <2>2. CASE outbox'[j][i] = m
    BY <1>1, <1>2, <1>3, <1>4, <2>2
  <2> QED BY <1>6, <2>1, <2>2
<1>10. InOrder'
  <2> SUFFICES ASSUME NEW j \in Conns, NEW a \in Messages(j)', NEW b \in Messages(j)',
                      a < b, outbox'[j][a].conn = outbox'[j][b].conn
               PROVE  outbox'[j][a].n < outbox'[j][b].n
    BY DEF InOrder
  <2>1. a \in Messages(j) /\ outbox'[j][a] = outbox[j][a]
    <3> SUFFICES ASSUME j = dest, a = last
                 PROVE  FALSE
      BY <1>6
    <3>1. b = last \/ b < last
      BY <1>6
    <3>2. last \in Int /\ b \in Int
      BY <1>5, <3>1 DEF last, Messages
    <3> QED BY <3>1, <3>2
  <2>2. CASE b \in Messages(j) /\ outbox'[j][b] = outbox[j][b]
    BY <2>1, <2>2 DEF InLine, InOrder
  <2>3. CASE outbox'[j][b] = m
    BY <1>1, <1>8, <2>1, <2>3
  <2> QED BY <1>6, <2>2, <2>3
<1> QED BY <1>7, <1>9, <1>10 DEF InLine

\* No step puts a frame out of line.
LEMMA MovesInLine ==
  ASSUME IInv, TypeOK', InLine, Moves
  PROVE  InLine'
<1>1. TypeOK
  BY DEF IInv
<1> QED BY <1>1, QueueInLine, TakeInLine, HandOnInLine, RestInLine DEF Moves

LEMMA InitInLine == Init => InLine
<1> SUFFICES ASSUME Init PROVE InLine
  OBVIOUS
<1>1. \A k \in Conns : /\ inbox[k] = <<>> /\ sent[k] = 0 /\ outbox[k] = <<>>
                       /\ handler[k].at = "unused"
  BY DEF Init
<1>2. \A k \in Conns : Messages(k) = {}
  BY <1>1 DEF Messages
<1>3. \A k \in Conns : Len(inbox[k]) = 0 /\ DOMAIN inbox[k] = {}
  BY <1>1
<1> QED BY <1>1, <1>2, <1>3 DEF InLine, Waiting, Reached, InOrder

\* What one connection sends another gets in the order it was sent, none of it
\* twice, however many handlers forward at once.
THEOREM FramesInOrder == Spec => []InOrder
<1>1. IInv /\ IInv' /\ InLine /\ [Next]_vars => InLine'
  BY NextMoves, MovesInLine DEF IInv
<1>2. InLine => InOrder
  BY DEF InLine
<1> QED BY <1>1, <1>2, InitInLine, Invariant, PTL DEF Spec


-----------------------------------------------------------------------------
(* The relay among the clients of the code.                                    *)

\* A step of the composition is one of the relay's system, or a send that is
\* early.
LEMMA ClientSteps ==
  ASSUME ClientTypeOK, [ClientNext]_allvars
  PROVE  [Next]_vars \/ \E k \in Conns, f \in Frame : Queues(k, f)
<1>1. CASE UNCHANGED allvars
  BY <1>1 DEF allvars, vars
<1>2. ASSUME NEW d \in Devices, NEW g \in Groups, NEW k \in Conns, Connect(d, g, k)
      PROVE  Next
  BY <1>2 DEF Connect, Next
<1>3. ASSUME NEW d \in Devices, Answers(d) \/ Returns(d) \/ Cancel(d) \/ Forgets(d)
      PROVE  UNCHANGED vars
  BY <1>3 DEF Answers, Returns, Cancel, Forgets
<1>4. ASSUME NEW d \in Devices, Disconnects(d)
      PROVE  Next
  BY <1>4 DEF Disconnects, Next, ClientTypeOK
<1>5. ASSUME NEW d \in Devices, NEW f \in Frame, Sends(d, f)
      PROVE  \/ \E k \in Conns, e \in Frame : Send(k, e) \/ Queues(k, e)
             \/ UNCHANGED vars
  BY <1>5 DEF Sends, Queues, ClientTypeOK
<1>6. ASSUME NEW k \in Conns, Drops(k) \/ Authenticates(k) \/ Serves(k)
      PROVE  Next
  BY <1>6 DEF Drops, Authenticates, Serves, Next, Step
<1>7. ASSUME RelayRestarts PROVE Next
  BY <1>7 DEF RelayRestarts, Next
<1> QED BY <1>1, <1>2, <1>3, <1>4, <1>5, <1>6, <1>7 DEF ClientNext, Next


\* The types of the clients' own variables.
LEMMA ClientTyped ==
  ASSUME ClientTypeOK, TypeOK', [ClientNext]_allvars
  PROVE  ClientTypeOK'
<1> DEFINE Typed ==
      /\ ws' \in [Devices -> Conns \cup {None}]
      /\ dial' \in [Devices -> {"idle", "challenge", "result", "up"}]
      /\ closing' \in [Devices -> BOOLEAN]
      /\ first' \in [Conns -> {"nothing", "auth", "envelope"}]
<1>1. CASE UNCHANGED client
  BY <1>1 DEF client, ClientTypeOK
<1>2. ASSUME NEW d \in Devices, NEW g \in Groups, NEW k \in Conns, Connect(d, g, k)
      PROVE  Typed
  BY <1>2 DEF Connect, Dials, ClientTypeOK
<1>3. ASSUME NEW d \in Devices, Answers(d) \/ Returns(d) \/ Cancel(d)
      PROVE  Typed
  BY <1>3 DEF Answers, Returns, Cancel, Dials, ClientTypeOK
<1>4. ASSUME NEW d \in Devices, Disconnects(d) \/ Forgets(d)
      PROVE  Typed
  BY <1>4 DEF Disconnects, Forgets, Dialling, Dials, ClientTypeOK
<1>5. ASSUME NEW d \in Devices, NEW f \in Frame, Sends(d, f)
      PROVE  Typed
  BY <1>5 DEF Sends, ClientTypeOK
<1>6. ASSUME NEW k \in Conns, Drops(k) \/ Authenticates(k) \/ Serves(k)
      PROVE  UNCHANGED client
  BY <1>6 DEF Drops, Authenticates, Serves
<1>7. ASSUME RelayRestarts PROVE UNCHANGED client
  BY <1>7 DEF RelayRestarts
<1>8. CASE UNCHANGED allvars
  BY <1>1, <1>8 DEF allvars, client
<1> QED BY <1>1, <1>2, <1>3, <1>4, <1>5, <1>6, <1>7, <1>8 DEF ClientNext, ClientTypeOK

\* A frame that is early keeps the relay's invariant.
LEMMA QueuesIInv ==
  ASSUME IInv, NEW k \in Conns, NEW f \in Frame, Queues(k, f)
  PROVE  IInv'
<1>1. Append(inbox[k], f) \in Seq(Frame)
  BY DEF IInv, TypeOK
<1>2. TypeOK'
  BY <1>1, RelayAssumption DEF IInv, TypeOK, Queues
<1> QED
  BY <1>2, HandlersAlone DEF Queues

LEMMA ClientMoves ==
  ASSUME IInv, ClientTypeOK, [ClientNext]_allvars
  PROVE  IInv' /\ ClientTypeOK' /\ Moves
<1>1. CASE [Next]_vars
  <2>1. IInv' /\ Moves
    BY <1>1, NextIInv, NextMoves
  <2> QED BY <2>1, ClientTyped DEF IInv
<1>2. ASSUME NEW k \in Conns, NEW f \in Frame, Queues(k, f)
      PROVE  IInv' /\ ClientTypeOK' /\ Moves
  <2>1. Onward
    BY <1>2 DEF Queues, Onward
  <2>2. IInv'
    BY <1>2, QueuesIInv
  <2> QED BY <1>2, <2>1, <2>2, ClientTyped DEF IInv, Moves
<1> QED BY <1>1, <1>2, ClientSteps

\* What was told stays told, and what is told now, if anything, is the last.
LEMMA Grows ==
  ASSUME IInv, IInv', Moves
  PROVE  \/ outbox' = outbox
         \/ \E k \in Conns, m \in Frames :
                /\ Tell(k, m)
                /\ m.kind = "auth_ok" => handler'[k].at \in Admitted
<1>1. ASSUME NEW k \in Conns, HandsOn(k)
      PROVE  \E j \in Conns, m \in Frames : Tell(j, m) /\ m.kind = "message"
  BY <1>1, HandedOn
<1>2. ASSUME NEW k \in Conns, Answered(k)
      PROVE  \E m \in Frames : Tell(k, m) /\ m.kind = "error"
  BY <1>2, ErrorTold DEF IInv
<1> QED BY <1>1, <1>2 DEF Moves, Queues, Takes, Stays

-----------------------------------------------------------------------------
(* connect() returns on a connection that was admitted. *)

\* Only an admitted connection was greeted, and one that connect() returned on
\* was.
Welcome ==
    /\ \A k \in Conns : Greeted(k) => handler[k].at \in Admitted
    /\ \A d \in Devices : dial[d] = "up" /\ ws[d] # None => Greeted(ws[d])

\* connect() returns after auth_ok, and _ws changes only to be dialled or
\* forgotten.
LEMMA ReturnsGreeted ==
  ASSUME ClientTypeOK, [ClientNext]_allvars,
         NEW d \in Devices, dial'[d] = "up", ws'[d] # None
  PROVE  /\ ws'[d] = ws[d] /\ ws[d] \in Conns
         /\ dial[d] = "up" \/ Greeted(ws[d])
<1>1. ASSUME UNCHANGED <<ws, dial>>
      PROVE  ws'[d] = ws[d] /\ dial[d] = "up"
  BY <1>1
<1>2. ASSUME NEW e \in Devices, NEW g \in Groups, NEW k \in Conns, Connect(e, g, k)
      PROVE  ws'[d] = ws[d] /\ dial[d] = "up"
  BY <1>2 DEF Connect, Dials, ClientTypeOK
<1>3. ASSUME NEW e \in Devices, Answers(e) \/ Cancel(e) \/ Disconnects(e)
      PROVE  ws'[d] = ws[d] /\ dial[d] = "up"
  BY <1>3 DEF Answers, Cancel, Disconnects, Dials, ClientTypeOK
<1>4. ASSUME NEW e \in Devices, Forgets(e)
      PROVE  ws'[d] = ws[d] /\ dial[d] = "up"
  BY <1>4 DEF Forgets, Dialling, Dials, ClientTypeOK
<1>5. ASSUME NEW e \in Devices, Returns(e)
      PROVE  ws'[d] = ws[d] /\ (dial[d] = "up" \/ Greeted(ws[d]))
  <2>1. ws' = ws
    BY <1>5 DEF Returns
  <2>2. CASE e # d
    BY <1>5, <2>1, <2>2 DEF Returns, Dials, ClientTypeOK
  <2>3. CASE e = d
    <3>1. ws[d] # None /\ Len(outbox[ws[d]]) > 1 /\ outbox[ws[d]][2].kind = "auth_ok"
      BY <1>5, <2>3 DEF Returns, Dials, ClientTypeOK
    <3>2. ws[d] \in Conns
      BY <3>1 DEF ClientTypeOK
    <3>3. outbox[ws[d]] \in Seq(Frames)
      BY <3>2 DEF ClientTypeOK, TypeOK, Frames
    <3>4. 2 \in DOMAIN outbox[ws[d]]
      BY <3>1, <3>3
    <3> QED BY <2>1, <3>1, <3>4 DEF Greeted
  <2> QED BY <2>2, <2>3
<1>6. ASSUME NEW e \in Devices, NEW f \in Frame, Sends(e, f)
      PROVE  UNCHANGED <<ws, dial>>
  BY <1>6 DEF Sends
<1>7. ASSUME NEW k \in Conns, Drops(k) \/ Authenticates(k) \/ Serves(k)
      PROVE  UNCHANGED <<ws, dial>>
  BY <1>7 DEF Drops, Authenticates, Serves, client
<1>8. ASSUME RelayRestarts \/ UNCHANGED allvars
      PROVE  UNCHANGED <<ws, dial>>
  BY <1>8 DEF RelayRestarts, client, allvars
<1>9. ws'[d] = ws[d] /\ (dial[d] = "up" \/ Greeted(ws[d]))
  BY <1>1, <1>2, <1>3, <1>4, <1>5, <1>6, <1>7, <1>8 DEF ClientNext
<1> QED BY <1>9 DEF ClientTypeOK

LEMMA ClientWelcome ==
  ASSUME IInv, IInv', ClientTypeOK, Welcome, Moves, [ClientNext]_allvars
  PROVE  Welcome'
<1>1. \A k \in Conns : Greeted(k) => Greeted(k)'
  <2>1. ASSUME NEW j \in Conns, NEW m \in Frames, Tell(j, m)
        PROVE  \A k \in Conns : Greeted(k) => Greeted(k)'
    <3>1. /\ Len(outbox[j]) \in Nat /\ DOMAIN outbox[j] = 1 .. Len(outbox[j])
          /\ DOMAIN outbox'[j] = 1 .. Len(outbox[j]) + 1
          /\ \A i \in DOMAIN outbox[j] : outbox'[j][i] = outbox[j][i]
          /\ \A k \in Conns : k # j => outbox'[k] = outbox[k]
      BY <2>1, TellEnds DEF IInv
    <3>2. DOMAIN outbox[j] \subseteq DOMAIN outbox'[j]
      BY <3>1
    <3> QED BY <3>1, <3>2 DEF Greeted
  <2> QED BY <2>1, Grows DEF Greeted
<1>2. \A k \in Conns : Greeted(k)' => handler'[k].at \in Admitted
  <2>1. \A k \in Conns : Greeted(k) => handler'[k].at \in Admitted
    BY DEF Welcome, Moves, Onward
  <2>2. ASSUME NEW j \in Conns, NEW m \in Frames, Tell(j, m),
               m.kind = "auth_ok" => handler'[j].at \in Admitted
        PROVE  \A k \in Conns : Greeted(k)' => handler'[k].at \in Admitted
    <3>1. \A k \in Conns : \A i \in DOMAIN outbox'[k] :
             \/ i \in DOMAIN outbox[k] /\ outbox'[k][i] = outbox[k][i]
             \/ k = j /\ outbox'[k][i] = m
      BY <2>2, TellAppends DEF IInv
    <3> QED BY <2>1, <2>2, <3>1 DEF Greeted
  <2> QED BY <2>1, <2>2, Grows DEF Greeted
<1>3. \A d \in Devices : dial'[d] = "up" /\ ws'[d] # None =>
        \E k \in Conns : k = ws'[d] /\ Greeted(k)
  BY ReturnsGreeted DEF Welcome
<1> QED BY <1>1, <1>2, <1>3 DEF Welcome, Greeted


-----------------------------------------------------------------------------
(* Envelopes are accounted for. *)

Unlost == \A j \in Conns : link[j] # "lost"
InHand(k) == IF handler[k].at \in Busy THEN 1 ELSE 0
Balanced(k) ==
    /\ IsFiniteSet(Errors(k)) /\ IsFiniteSet(Arrived(k))
    /\ sent[k] = Len(inbox[k]) + Cardinality(Errors(k)) + Cardinality(Arrived(k))
                 + InHand(k)
AllBalanced == Unlost => \A k \in Conns : Balanced(k)

\* Where the messages of a connection have arrived.
LEMMA ArrivedIs ==
  ASSUME NEW k \in Conns, NEW p
  PROVE  p \in Arrived(k) <=>
            \E j \in Conns : \E i \in Messages(j) : outbox[j][i].conn = k /\ p = <<j, i>>
BY DEF Arrived

\* What telling adds to the errors and the arrivals.
LEMMA TellCounts ==
  ASSUME TypeOK, NEW j \in Conns, NEW m \in Frames, Tell(j, m)
  PROVE  LET last == Len(outbox[j]) + 1
         IN  \A k \in Conns :
            /\ Errors(k)' = IF k = j /\ m.kind = "error"
                            THEN Errors(k) \cup {last} ELSE Errors(k)
            /\ Arrived(k)' = IF m.kind = "message" /\ m.conn = k
                             THEN Arrived(k) \cup {<<j, last>>} ELSE Arrived(k)
            /\ last \notin Errors(j) /\ <<j, last>> \notin Arrived(k)
<1> DEFINE last == Len(outbox[j]) + 1
<1>1. /\ DOMAIN outbox[j] \subseteq DOMAIN outbox'[j]
      /\ DOMAIN outbox'[j] = DOMAIN outbox[j] \cup {last}
      /\ last \notin DOMAIN outbox[j]
      /\ \A i \in DOMAIN outbox[j] : outbox'[j][i] = outbox[j][i]
      /\ outbox'[j][last] = m
      /\ \A k \in Conns : k # j => outbox'[k] = outbox[k]
  <2>1. /\ Len(outbox[j]) \in Nat /\ DOMAIN outbox[j] = 1 .. Len(outbox[j])
        /\ DOMAIN outbox'[j] = 1 .. Len(outbox[j]) + 1
        /\ \A i \in DOMAIN outbox[j] : outbox'[j][i] = outbox[j][i]
        /\ outbox'[j][last] = m
        /\ \A k \in Conns : k # j => outbox'[k] = outbox[k]
    BY TellEnds
  <2>2. \A n \in Nat : 1 .. n + 1 = (1 .. n) \cup {n + 1} /\ n + 1 \notin 1 .. n
    OBVIOUS
  <2> QED BY <2>1, <2>2
<1> HIDE DEF last
<1> SUFFICES ASSUME NEW k \in Conns
             PROVE  /\ Errors(k)' = IF k = j /\ m.kind = "error"
                                    THEN Errors(k) \cup {last} ELSE Errors(k)
                    /\ Arrived(k)' = IF m.kind = "message" /\ m.conn = k
                                     THEN Arrived(k) \cup {<<j, last>>} ELSE Arrived(k)
                    /\ last \notin Errors(j) /\ <<j, last>> \notin Arrived(k)
  BY DEF last
<1>2. Errors(k)' = IF k = j /\ m.kind = "error" THEN Errors(k) \cup {last} ELSE Errors(k)
  <2>1. CASE k # j
    BY <1>1, <2>1 DEF Errors
  <2>2. CASE k = j
    BY <1>1, <2>2 DEF Errors
  <2> QED BY <2>1, <2>2
<1>3. \A h \in Conns : Messages(h)' = IF h = j /\ m.kind = "message"
                                      THEN Messages(h) \cup {last} ELSE Messages(h)
  <2> SUFFICES ASSUME NEW h \in Conns
               PROVE  Messages(h)' = IF h = j /\ m.kind = "message"
                                     THEN Messages(h) \cup {last} ELSE Messages(h)
    OBVIOUS
  <2>1. CASE h # j
    BY <1>1, <2>1 DEF Messages
  <2>2. CASE h = j
    BY <1>1, <2>2 DEF Messages
  <2> QED BY <2>1, <2>2
<1>4. \A p : p \in Arrived(k)' <=>
            \E h \in Conns : \E i \in Messages(h)' : outbox'[h][i].conn = k /\ p = <<h, i>>
  BY DEF Arrived
<1>5. \A h \in Conns : \A i \in Messages(h) : outbox'[h][i] = outbox[h][i]
  BY <1>1 DEF Messages
<1>6. \A p : p \in Arrived(k)' <=>
            p \in Arrived(k) \/ (m.kind = "message" /\ m.conn = k /\ p = <<j, last>>)
  <2> TAKE p
  <2>1. ASSUME p \in Arrived(k)
        PROVE  p \in Arrived(k)'
    <3>1. PICK h \in Conns : \E i \in Messages(h) : outbox[h][i].conn = k /\ p = <<h, i>>
      BY <2>1, ArrivedIs
    <3>2. PICK i \in Messages(h) : outbox[h][i].conn = k /\ p = <<h, i>>
      BY <3>1
    <3>3. i \in Messages(h)' /\ outbox'[h][i].conn = k
      BY <1>3, <1>5, <3>2
    <3> QED BY <1>4, <3>2, <3>3
  <2>2. ASSUME m.kind = "message", m.conn = k, p = <<j, last>>
        PROVE  p \in Arrived(k)'
    <3>1. last \in Messages(j)' /\ outbox'[j][last].conn = k
      BY <1>1, <1>3, <2>2
    <3> QED BY <1>4, <2>2, <3>1
  <2>3. ASSUME p \in Arrived(k)'
        PROVE  p \in Arrived(k) \/ (m.kind = "message" /\ m.conn = k /\ p = <<j, last>>)
    <3>1. PICK h \in Conns : \E i \in Messages(h)' : outbox'[h][i].conn = k /\ p = <<h, i>>
      BY <1>4, <2>3
    <3>2. PICK i \in Messages(h)' : outbox'[h][i].conn = k /\ p = <<h, i>>
      BY <3>1
    <3>3. CASE i \in Messages(h)
      BY <1>5, <3>2, <3>3, ArrivedIs
    <3>4. CASE i \notin Messages(h)
      <4>1. h = j /\ m.kind = "message" /\ i = last
        BY <1>3, <3>2, <3>4
      <4> QED BY <1>1, <3>2, <4>1
    <3> QED BY <3>3, <3>4
  <2> QED BY <2>1, <2>2, <2>3
<1>7. last \notin Errors(j) /\ <<j, last>> \notin Arrived(k)
  <2>1. last \notin Errors(j) /\ last \notin Messages(j)
    BY <1>1 DEF Errors, Messages
  <2>2. ASSUME <<j, last>> \in Arrived(k)
        PROVE  FALSE
    <3>1. PICK h \in Conns : \E i \in Messages(h) : <<j, last>> = <<h, i>>
      BY <2>2, ArrivedIs
    <3> QED BY <2>1, <3>1
  <2> QED BY <2>1, <2>2
<1> QED BY <1>2, <1>6, <1>7


\* Where nothing is counted, nothing changes.
LEMMA CountsKept ==
  ASSUME TypeOK,
         \/ outbox' = outbox
         \/ \E j \in Conns, m \in Frames : Tell(j, m) /\ m.kind \notin {"message", "error"}
  PROVE  \A k \in Conns : Errors(k)' = Errors(k) /\ Arrived(k)' = Arrived(k)
<1>1. CASE outbox' = outbox
  <2>1. \A k \in Conns : Messages(k)' = Messages(k)
    BY <1>1 DEF Messages
  <2> QED BY <1>1, <2>1 DEF Errors, Arrived
<1>2. ASSUME NEW j \in Conns, NEW m \in Frames, Tell(j, m),
             m.kind \notin {"message", "error"}
      PROVE  \A k \in Conns : Errors(k)' = Errors(k) /\ Arrived(k)' = Arrived(k)
  BY <1>2, TellCounts
<1> QED BY <1>1, <1>2

\* The lengths are numbers, and so are the counts.
LEMMA CountsTyped ==
  ASSUME TypeOK, NEW k \in Conns, Balanced(k)
  PROVE  /\ sent[k] \in Nat /\ Len(inbox[k]) \in Nat /\ InHand(k) \in {0, 1}
         /\ Cardinality(Errors(k)) \in Nat /\ Cardinality(Arrived(k)) \in Nat
<1>1. IsFiniteSet(Errors(k)) /\ IsFiniteSet(Arrived(k))
  BY DEF Balanced
<1> QED BY <1>1, FS_CardinalityType, Numbers DEF InHand

\* An envelope that is sent waits, one that is taken is in hand.
LEMMA InboxBalanced ==
  ASSUME TypeOK, Unlost', \A c \in Conns : Balanced(c), NEW k \in Conns,
         (\E f \in Frame : Queues(k, f)) \/ Takes(k)
  PROVE  \A c \in Conns : Balanced(c)'
<1>1. \A c \in Conns : Errors(c)' = Errors(c) /\ Arrived(c)' = Arrived(c)
  BY CountsKept DEF Queues, Takes
<1>2. ASSUME NEW f \in Frame, Queues(k, f)
      PROVE  /\ sent'[k] = sent[k] + 1 /\ Len(inbox'[k]) = Len(inbox[k]) + 1
             /\ InHand(k)' = InHand(k)
             /\ \A c \in Conns : c # k => /\ sent'[c] = sent[c] /\ inbox'[c] = inbox[c]
                                          /\ InHand(c)' = InHand(c)
  <2>1. /\ sent'[k] = sent[k] + 1 /\ inbox[k] \in Seq(Frame)
        /\ inbox'[k] = Append(inbox[k], f) /\ handler' = handler
        /\ \A c \in Conns : c # k => sent'[c] = sent[c] /\ inbox'[c] = inbox[c]
    BY <1>2 DEF Queues, TypeOK
  <2> QED BY <2>1 DEF InHand
<1>3. ASSUME Takes(k)
      PROVE  /\ sent'[k] = sent[k] /\ Len(inbox'[k]) = Len(inbox[k]) - 1
             /\ InHand(k) = 0 /\ InHand(k)' = 1
             /\ \A c \in Conns : c # k => /\ sent'[c] = sent[c] /\ inbox'[c] = inbox[c]
                                          /\ InHand(c)' = InHand(c)
  <2>1. /\ sent' = sent /\ inbox[k] \in Seq(Frame) /\ inbox[k] # <<>>
        /\ inbox'[k] = Tail(inbox[k])
        /\ \A c \in Conns : c # k => inbox'[c] = inbox[c] /\ handler'[c] = handler[c]
        /\ handler[k].at = "serving" /\ (Losing \/ handler'[k].at \in Busy)
    BY <1>3 DEF Takes, TypeOK, Others
  <2>2. handler'[k].at \in Busy
    BY <2>1 DEF Losing, Unlost
  <2> QED BY <2>1, <2>2 DEF InHand, Busy
<1> SUFFICES ASSUME NEW c \in Conns PROVE Balanced(c)'
  OBVIOUS
<1>4. /\ sent[c] \in Nat /\ Len(inbox[c]) \in Nat /\ InHand(c) \in {0, 1}
      /\ Cardinality(Errors(c)) \in Nat /\ Cardinality(Arrived(c)) \in Nat
      /\ Balanced(c)
  BY CountsTyped
<1>5. CASE c # k
  BY <1>1, <1>2, <1>3, <1>4, <1>5 DEF Balanced
<1>6. CASE c = k
  <2>1. CASE \E f \in Frame : Queues(k, f)
    <3>1. /\ sent'[c] = sent[c] + 1 /\ Len(inbox'[c]) = Len(inbox[c]) + 1
          /\ InHand(c)' = InHand(c)
      BY <1>2, <1>6, <2>1
    <3> QED BY <1>1, <1>4, <3>1 DEF Balanced
  <2>2. CASE Takes(k)
    <3>1. /\ sent'[c] = sent[c] /\ Len(inbox'[c]) = Len(inbox[c]) - 1
          /\ InHand(c) = 0 /\ InHand(c)' = 1
      BY <1>3, <1>6, <2>2
    <3> QED BY <1>1, <1>4, <3>1 DEF Balanced
  <2> QED BY <2>1, <2>2
<1> QED BY <1>5, <1>6

\* What was in hand is an arrival or an error.
LEMMA OutboxBalanced ==
  ASSUME IInv, IInv', \A c \in Conns : Balanced(c), NEW k \in Conns,
         HandsOn(k) \/ Answered(k)
  PROVE  \A c \in Conns : Balanced(c)'
<1>1. /\ sent' = sent /\ inbox' = inbox /\ InHand(k) = 1 /\ InHand(k)' = 0
      /\ \A c \in Conns : c # k => InHand(c)' = InHand(c)
  BY DEF HandsOn, Answered, Others, InHand, Busy
<1>2. CASE HandsOn(k)
  <2>1. PICK j \in Conns, m \in Frames : Tell(j, m) /\ m.kind = "message" /\ m.conn = k
    BY <1>2, HandedOn
  <2> DEFINE p == <<j, Len(outbox[j]) + 1>>
  <2>2. /\ \A c \in Conns : Errors(c)' = Errors(c)
        /\ \A c \in Conns : c # k => Arrived(c)' = Arrived(c)
        /\ Arrived(k)' = Arrived(k) \cup {p} /\ p \notin Arrived(k)
    BY <2>1, TellCounts DEF IInv
  <2> HIDE DEF p
  <2> SUFFICES ASSUME NEW c \in Conns PROVE Balanced(c)'
    OBVIOUS
  <2>3. /\ sent[c] \in Nat /\ Len(inbox[c]) \in Nat /\ InHand(c) \in {0, 1}
        /\ Cardinality(Errors(c)) \in Nat /\ Cardinality(Arrived(c)) \in Nat
        /\ Balanced(c)
    BY CountsTyped DEF IInv
  <2>4. CASE c # k
    BY <1>1, <2>2, <2>3, <2>4 DEF Balanced
  <2>5. CASE c = k
    <3>1. IsFiniteSet(Arrived(k)) /\ IsFiniteSet(Errors(k))
      BY <2>3, <2>5 DEF Balanced
    <3>2. /\ IsFiniteSet(Arrived(k) \cup {p})
          /\ Cardinality(Arrived(k) \cup {p}) = Cardinality(Arrived(k)) + 1
      BY <2>2, <3>1, FS_AddElement
    <3>3. /\ IsFiniteSet(Arrived(k)') /\ Cardinality(Arrived(k)') = Cardinality(Arrived(k)) + 1
          /\ Errors(k)' = Errors(k)
      BY <2>2, <3>2
    <3> QED BY <1>1, <2>3, <2>5, <3>1, <3>3 DEF Balanced
  <2> QED BY <2>4, <2>5
<1>3. CASE Answered(k)
  <2>1. PICK m \in Frames : Tell(k, m) /\ m.kind = "error"
    BY <1>3, ErrorTold DEF IInv
  <2> DEFINE last == Len(outbox[k]) + 1
  <2>2. /\ \A c \in Conns : Arrived(c)' = Arrived(c)
        /\ \A c \in Conns : c # k => Errors(c)' = Errors(c)
        /\ Errors(k)' = Errors(k) \cup {last} /\ last \notin Errors(k)
    BY <2>1, TellCounts DEF IInv
  <2> HIDE DEF last
  <2> SUFFICES ASSUME NEW c \in Conns PROVE Balanced(c)'
    OBVIOUS
  <2>3. /\ sent[c] \in Nat /\ Len(inbox[c]) \in Nat /\ InHand(c) \in {0, 1}
        /\ Cardinality(Errors(c)) \in Nat /\ Cardinality(Arrived(c)) \in Nat
        /\ Balanced(c)
    BY CountsTyped DEF IInv
  <2>4. CASE c # k
    BY <1>1, <2>2, <2>3, <2>4 DEF Balanced
  <2>5. CASE c = k
    <3>1. IsFiniteSet(Arrived(k)) /\ IsFiniteSet(Errors(k))
      BY <2>3, <2>5 DEF Balanced
    <3>2. /\ IsFiniteSet(Errors(k) \cup {last})
          /\ Cardinality(Errors(k) \cup {last}) = Cardinality(Errors(k)) + 1
      BY <2>2, <3>1, FS_AddElement
    <3>3. /\ IsFiniteSet(Errors(k)') /\ Cardinality(Errors(k)') = Cardinality(Errors(k)) + 1
          /\ Arrived(k)' = Arrived(k)
      BY <2>2, <3>2
    <3> QED BY <1>1, <2>3, <2>5, <3>1, <3>3 DEF Balanced
  <2> QED BY <2>4, <2>5
<1> QED BY <1>2, <1>3

\* As long as no connection is lost the sums agree.
LEMMA MovesBalanced ==
  ASSUME IInv, IInv', AllBalanced, Moves
  PROVE  AllBalanced'
<1> SUFFICES ASSUME Unlost' PROVE \A c \in Conns : Balanced(c)'
  BY DEF AllBalanced
<1>1. Unlost
  BY DEF Unlost, Moves, Onward
<1>2. TypeOK /\ \A c \in Conns : Balanced(c)
  BY <1>1 DEF AllBalanced, IInv
<1>3. CASE Stays
  <2>1. /\ sent' = sent /\ inbox' = inbox
        /\ \A c \in Conns : InHand(c)' = InHand(c)
    BY <1>3 DEF Stays, Losing, Unlost, InHand
  <2>2. \A c \in Conns : Errors(c)' = Errors(c) /\ Arrived(c)' = Arrived(c)
    BY <1>2, <1>3, CountsKept DEF Stays
  <2> QED BY <1>2, <2>1, <2>2 DEF Balanced
<1> QED BY <1>2, <1>3, InboxBalanced, OutboxBalanced DEF Moves


-----------------------------------------------------------------------------

ClientIInv == IInv /\ ClientTypeOK /\ Welcome /\ AllBalanced

LEMMA ClientInitIInv == ClientInit => ClientIInv
<1> SUFFICES ASSUME ClientInit PROVE ClientIInv
  OBVIOUS
<1>1. Init /\ IInv
  BY InitIInv DEF ClientInit
<1>2. ClientTypeOK
  BY <1>1 DEF ClientInit, ClientTypeOK, IInv
<1>3. \A k \in Conns : /\ outbox[k] = <<>> /\ inbox[k] = <<>> /\ sent[k] = 0
                       /\ handler[k].at = "unused"
  BY <1>1 DEF Init
<1>4. Welcome
  BY <1>3 DEF Welcome, Greeted, ClientInit
<1>5. \A k \in Conns : Errors(k) = {} /\ Messages(k) = {}
  BY <1>3 DEF Errors, Messages
<1>6. \A k \in Conns : Arrived(k) = {}
  BY <1>5 DEF Arrived
<1>7. AllBalanced
  <2> SUFFICES ASSUME NEW k \in Conns PROVE Balanced(k)
    BY DEF AllBalanced
  <2>1. Len(inbox[k]) = 0 /\ InHand(k) = 0
    BY <1>3 DEF InHand, Busy
  <2>2. IsFiniteSet({}) /\ Cardinality({}) = 0
    BY FS_EmptySet
  <2>3. /\ IsFiniteSet(Errors(k)) /\ IsFiniteSet(Arrived(k))
        /\ Cardinality(Errors(k)) = 0 /\ Cardinality(Arrived(k)) = 0
    BY <1>5, <1>6, <2>2
  <2>4. sent[k] = 0
    BY <1>3
  <2> QED BY <2>1, <2>3, <2>4 DEF Balanced
<1> QED BY <1>1, <1>2, <1>4, <1>7 DEF ClientIInv

\* No step of the relay, of a client or of the network breaks it.
LEMMA ClientNextIInv == ClientIInv /\ [ClientNext]_allvars => ClientIInv'
  BY ClientMoves, ClientWelcome, MovesBalanced DEF ClientIInv

THEOREM ClientInvariant == ClientSpec => []ClientIInv
  BY ClientInitIInv, ClientNextIInv, PTL DEF ClientSpec

\* Type correctness of the clients and the relay they talk to.
THEOREM ClientTypeCorrect == ClientSpec => []ClientTypeOK
<1>1. ClientIInv => ClientTypeOK
  BY DEF ClientIInv
<1> QED BY <1>1, ClientInvariant, PTL

\* connect() returns only on a connection that the relay has admitted, however
\* connect, disconnect and send share the attribute _ws.
THEOREM ConnectIsHonest == ClientSpec => []ConnectHonest
<1>1. ClientIInv => ConnectHonest
  <2> SUFFICES ASSUME ClientIInv, NEW d \in Devices, dial[d] = "up", ws[d] # None
               PROVE  handler[ws[d]].at \notin {"unused", "challenged", "refused", "aborted"}
    BY DEF ConnectHonest
  <2>1. handler[ws[d]].at \in Admitted
    BY DEF ClientIInv, Welcome, ClientTypeOK
  <2> QED BY <2>1 DEF Admitted, Busy
<1> QED BY <1>1, ClientInvariant, PTL

\* As long as no connection is lost, each envelope waits, is in hand, has
\* arrived or was answered with an error.
THEOREM EnvelopesStay == ClientSpec => []NoEnvelopeVanishes
<1>1. ClientIInv => NoEnvelopeVanishes
  BY DEF ClientIInv, AllBalanced, Unlost, Balanced, InHand, Busy, NoEnvelopeVanishes
<1> QED BY <1>1, ClientInvariant, PTL

\* The relay keeps the namespaces apart from these clients too, whose envelopes
\* may come before they are admitted.
THEOREM ClientIsolation == ClientSpec => []RoutedInGroup
<1>1. ClientIInv => RoutedInGroup
  BY DEF ClientIInv, IInv, MessagesRightful, Rightful, Authenticated, RoutedInGroup
<1> QED BY <1>1, ClientInvariant, PTL

=============================================================================
