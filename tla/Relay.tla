-------------------------------- MODULE Relay --------------------------------
(***************************************************************************)
(* The relay server: the /ws endpoint's handler of each connection, the    *)
(* SessionRegistry keyed by device id and the MessageRouter.  The handlers *)
(* are coroutines of one event loop, so another handler runs only where    *)
(* this one awaits: before a frame is received and while one is sent.      *)
(* The clients of the connections are the environment: one that waits for  *)
(* auth_ok before it sends.  Module RelayClient has the ones of the code.  *)
(***************************************************************************)
EXTENDS Naturals, Sequences, FiniteSets

CONSTANTS
    Devices,    \* device ids
    Groups,     \* trust group ids
    Conns,      \* WebSocket connections; each is opened at most once
    None,       \* no session, no connection
    BadFrames,  \* unroutable envelopes: not JSON, no fields, JSON but no object
    MaxFrames   \* bound on the frames a client sends over one connection

Reasons == {"expected_auth", "invalid_signature", "invalid_json",
            "missing_fields", "namespace_violation", "target_not_connected",
            "send_failed"}

ASSUME RelayAssumption ==
    /\ None \notin Devices \cup Groups \cup Conns \cup Reasons
    /\ None \notin [group : Groups, conn : Conns]
    /\ BadFrames \subseteq {"invalid_json", "missing_fields", "no_object"}
    /\ Devices \cap BadFrames = {}
    /\ MaxFrames \in Nat

VARIABLES
    sessions,   \* SessionRegistry._sessions: the session of each device id
    handler,    \* the coroutine of each connection
    link,       \* is the client's end of the connection there?
    inbox,      \* frames the client has sent and the handler not received
    sent,       \* how many frames the client has sent
    outbox      \* frames the relay has sent to the client, in order

vars == <<sessions, handler, link, inbox, sent, outbox>>

-----------------------------------------------------------------------------
(* Types. *)

Session == [group : Groups, conn : Conns]

\* An envelope with its number on the connection: the device it is for, or
\* what keeps the router from finding one in it.
Frame == [to : Devices \cup BadFrames, n : 1 .. MaxFrames]
Routable(f) == f.to \in Devices

Answer == [kind : {"challenge", "auth_ok"}] \cup
          [kind : {"auth_failed", "error"}, reason : Reasons]
\* A forwarded message; to, conn and n say which frame it was.
Forwarded == [kind : {"message"}, from : Devices, to : Devices, conn : Conns,
              n : 1 .. MaxFrames]

\* aborted: the coroutine died between register and the message loop.
Phases == {"unused", "challenged", "greeting", "serving", "routing",
           "replying", "refused", "aborted", "closed"}
Over == {"unused", "refused", "aborted", "closed"}

Handler == [at : Phases, device : Devices \cup {None},
            group : Groups \cup {None}, frame : Frame \cup {None},
            dest : Conns \cup {None}, reason : Reasons \cup {None}]

TypeOK ==
    /\ sessions \in [Devices -> Session \cup {None}]
    /\ handler \in [Conns -> Handler]
    /\ link \in [Conns -> {"unused", "open", "lost"}]
    /\ inbox \in [Conns -> Seq(Frame)]
    /\ sent \in [Conns -> 0 .. MaxFrames]
    /\ outbox \in [Conns -> Seq(Answer \cup Forwarded)]

Init ==
    /\ sessions = [d \in Devices |-> None]
    /\ handler = [k \in Conns |->
            [at |-> "unused", device |-> None, group |-> None, frame |-> None,
             dest |-> None, reason |-> None]]
    /\ link = [k \in Conns |-> "unused"]
    /\ inbox = [k \in Conns |-> <<>>]
    /\ sent = [k \in Conns |-> 0]
    /\ outbox = [k \in Conns |-> <<>>]

-----------------------------------------------------------------------------
(* SessionRegistry. *)

register(d, g, k) == sessions' = [sessions EXCEPT ![d] = [group |-> g, conn |-> k]]
unregister(d) == sessions' = [sessions EXCEPT ![d] = None]

\* Variant of same_group: both need only be connected.
both_connected(a, b) == sessions[a] # None /\ sessions[b] # None

same_group(a, b) ==
    /\ sessions[a] # None /\ sessions[b] # None
    /\ sessions[a].group = sessions[b].group

-----------------------------------------------------------------------------
(* The clients: RelayClient opens, sends and leaves. *)

Tell(k, frame) == outbox' = [outbox EXCEPT ![k] = Append(@, frame)]

\* websockets.connect; the handler accepts and sends its challenge at once.
Open(k, d, g) ==
    /\ link[k] = "unused"
    /\ link' = [link EXCEPT ![k] = "open"]
    /\ handler' = [handler EXCEPT ![k].at = "challenged", ![k].device = d,
                                  ![k].group = g]
    /\ Tell(k, [kind |-> "challenge"])
    /\ UNCHANGED <<sessions, inbox, sent>>

Greeted(k) == \E i \in DOMAIN outbox[k] : outbox[k][i].kind = "auth_ok"

Send(k, f) ==
    /\ link[k] = "open" /\ Greeted(k)
    /\ sent[k] < MaxFrames /\ f.n = sent[k] + 1
    /\ sent' = [sent EXCEPT ![k] = @ + 1]
    /\ inbox' = [inbox EXCEPT ![k] = Append(@, f)]
    /\ UNCHANGED <<sessions, handler, link, outbox>>

\* The client disconnects or dies, or the network drops the connection.
Leave(k) ==
    /\ link[k] = "open"
    /\ link' = [link EXCEPT ![k] = "lost"]
    /\ UNCHANGED <<sessions, handler, inbox, sent, outbox>>

-----------------------------------------------------------------------------
(* websocket_endpoint, from one await to the next. *)

At(k, phase) == handler[k].at = phase
Become(k, phase) == handler' = [handler EXCEPT ![k].at = phase]

\* Variant of Register: the registration is forgotten.
RegisterNothing(k) ==
    /\ At(k, "challenged")
    /\ Become(k, "greeting")
    /\ UNCHANGED <<sessions, link, inbox, sent, outbox>>

\* The auth frame proves the key: the device is registered, and then the
\* answer is sent.
Register(k) ==
    /\ At(k, "challenged")
    /\ register(handler[k].device, handler[k].group, k)
    /\ Become(k, "greeting")
    /\ UNCHANGED <<link, inbox, sent, outbox>>

\* The auth frame has another type or a bad signature, or does not come.
RefuseAuth(k) ==
    /\ At(k, "challenged")
    /\ Become(k, "refused")
    /\ link' = [link EXCEPT ![k] = "lost"]
    /\ \/ \E r \in {"expected_auth", "invalid_signature"} :
            Tell(k, [kind |-> "auth_failed", reason |-> r])
       \/ UNCHANGED outbox
    /\ UNCHANGED <<sessions, inbox, sent>>

\* Sending auth_ok is not yet inside the try: if it raises, nothing
\* unregisters the device.
Greet(k) ==
    /\ At(k, "greeting")
    /\ \/ /\ Become(k, "serving")
          /\ IF link[k] = "open" THEN Tell(k, [kind |-> "auth_ok"])
             ELSE UNCHANGED outbox
       \/ /\ link[k] = "lost"
          /\ Become(k, "aborted")
          /\ UNCHANGED outbox
    /\ UNCHANGED <<sessions, link, inbox, sent>>

\* Variant of Close: there is no finally.
CloseQuietly(k) ==
    /\ Become(k, "closed")
    /\ link' = [link EXCEPT ![k] = "lost"]
    /\ UNCHANGED sessions

\* The finally block.
Close(k) ==
    /\ unregister(handler[k].device)
    /\ Become(k, "closed")
    /\ link' = [link EXCEPT ![k] = "lost"]

\* WebSocketDisconnect from receive_bytes, possibly with frames unread.
Disconnect(k) ==
    /\ At(k, "serving") /\ link[k] = "lost"
    /\ Close(k)
    /\ UNCHANGED <<inbox, sent, outbox>>

\* route() up to its await: the error to send back, or the connection of the
\* target's session.
Verdict(d, f) ==
    IF ~Routable(f) THEN f.to
    ELSE IF ~same_group(d, f.to) THEN "namespace_violation"
    ELSE IF sessions[f.to] = None THEN "target_not_connected"
    ELSE "ok"

Receive(k) ==
    /\ At(k, "serving") /\ inbox[k] # <<>>
    /\ LET f == Head(inbox[k])
           v == Verdict(handler[k].device, f)
       IN  \/ /\ v = "ok"
              /\ handler' = [handler EXCEPT ![k].at = "routing", ![k].frame = f,
                                ![k].dest = sessions[f.to].conn]
              /\ UNCHANGED <<sessions, link>>
           \/ /\ v \in Reasons
              /\ handler' = [handler EXCEPT ![k].at = "replying", ![k].reason = v]
              /\ UNCHANGED <<sessions, link>>
           \/ /\ v = "no_object"    \* envelope.get raises AttributeError
              /\ Close(k)
    /\ inbox' = [inbox EXCEPT ![k] = Tail(@)]
    /\ UNCHANGED <<sent, outbox>>

\* Variant of Forward: the frame is sent again.
ForwardAgain(k) ==
    /\ At(k, "routing") /\ link[handler[k].dest] = "open"
    /\ \E phase \in {"routing", "serving"} : Become(k, phase)
    /\ Tell(handler[k].dest, [kind |-> "message", from |-> handler[k].device,
            to |-> handler[k].frame.to, conn |-> k, n |-> handler[k].frame.n])
    /\ UNCHANGED <<sessions, link, inbox, sent>>

\* send_text to the session found before the await.  To a lost connection it
\* raises, or the frame disappears in a buffer.
Forward(k) ==
    /\ At(k, "routing")
    /\ LET dest == handler[k].dest
           f == handler[k].frame
       IN  \/ /\ Become(k, "serving")
              /\ IF link[dest] = "open"
                 THEN Tell(dest, [kind |-> "message", from |-> handler[k].device,
                                  to |-> f.to, conn |-> k, n |-> f.n])
                 ELSE UNCHANGED outbox
           \/ /\ link[dest] = "lost"
              /\ handler' = [handler EXCEPT ![k].at = "replying",
                                            ![k].reason = "send_failed"]
              /\ UNCHANGED outbox
    /\ UNCHANGED <<sessions, link, inbox, sent>>

\* Variant of Reply: it waits for a client that has left.
ReplyBlocking(k) ==
    /\ At(k, "replying") /\ link[k] = "open"
    /\ Become(k, "serving")
    /\ Tell(k, [kind |-> "error", reason |-> handler[k].reason])
    /\ UNCHANGED <<sessions, link, inbox, sent>>

\* Variant of Reply: the router's error is logged, not sent.
ReplyQuietly(k) ==
    /\ At(k, "replying")
    /\ Become(k, "serving")
    /\ UNCHANGED <<sessions, link, inbox, sent, outbox>>

Reply(k) ==
    /\ At(k, "replying")
    /\ \/ /\ Become(k, "serving")
          /\ IF link[k] = "open"
             THEN Tell(k, [kind |-> "error", reason |-> handler[k].reason])
             ELSE UNCHANGED outbox
          /\ UNCHANGED <<sessions, link>>
       \/ /\ link[k] = "lost"
          /\ Close(k)
          /\ UNCHANGED outbox
    /\ UNCHANGED <<inbox, sent>>

\* The process ends: the registry was in memory, every connection is lost.
Restart ==
    /\ sessions' = [d \in Devices |-> None]
    /\ handler' = [k \in Conns |->
            [handler[k] EXCEPT !.at = IF @ \in Over THEN @
                                      ELSE IF @ = "challenged" THEN "refused"
                                      ELSE "closed"]]
    /\ link' = [k \in Conns |-> IF link[k] = "open" THEN "lost" ELSE link[k]]
    /\ UNCHANGED <<inbox, sent, outbox>>

Step(k) == Register(k) \/ RefuseAuth(k) \/ Greet(k) \/ Disconnect(k)
           \/ Receive(k) \/ Forward(k) \/ Reply(k)

Next ==
    \/ \E k \in Conns :
        \/ \E d \in Devices, g \in Groups : Open(k, d, g)
        \/ \E f \in Frame : Send(k, f)
        \/ Leave(k)
        \/ Step(k)
    \/ Restart

Spec == Init /\ [][Next]_vars

\* The event loop runs every handler that can run; a handler waiting for the
\* auth frame of a silent client may wait for ever.
FairSpec == Spec /\ \A k \in Conns :
    WF_vars(Greet(k) \/ Disconnect(k) \/ Receive(k) \/ Forward(k) \/ Reply(k))

-----------------------------------------------------------------------------
(* Properties. *)

Messages(k) == {i \in DOMAIN outbox[k] : outbox[k][i].kind = "message"}

\* Namespace isolation: what a connection receives was addressed to its
\* device and comes from a device that authenticated for the connection's
\* group, however the two reconnected while the message was on its way
\* (route 60-78, same_group, register).
RoutedInGroup ==
    \A k \in Conns : \A i \in Messages(k) :
        LET m == outbox[k][i]
        IN  /\ m.to = handler[k].device
            /\ \E j \in Conns : /\ handler[j].device = m.from
                                /\ handler[j].group = handler[k].group
                                /\ handler[j].at \notin {"challenged", "refused"}

\* Frames of one connection reach another in the order they were sent, none
\* of them twice: the handler routes one frame to its end before the next.
InOrder ==
    \A k \in Conns : \A i, j \in Messages(k) :
        i < j /\ outbox[k][i].conn = outbox[k][j].conn =>
            outbox[k][i].n < outbox[k][j].n

\* A session whose handler is over was left by a handler that died between
\* register and the message loop: every other way out unregisters.
SessionsHaveHandlers ==
    \A d \in Devices : sessions[d] # None =>
        /\ handler[sessions[d].conn].at \notin Over \ {"aborted"}
        /\ handler[sessions[d].conn].device = d

\* A connected device is registered under its connection, unless a session of
\* its own on another connection took its place, or ended and took it away:
\* no other device, no error reply and no failed send costs it the session.
ConnectedIsRegistered ==
    \A k \in Conns :
        handler[k].at \in {"greeting", "serving", "routing", "replying"} =>
            LET d == handler[k].device
                s == sessions[d]
            IN  \/ s # None /\ s.conn = k
                \/ \E j \in Conns \ {k} :
                    /\ handler[j].device = d
                    /\ handler[j].at \notin {"unused", "challenged", "refused"}
                    /\ s = None => handler[j].at = "closed"

\* Every frame is taken from its inbox and dealt with, or its connection ends.
EveryFrameHandled ==
    \A k \in Conns :
        inbox[k] # <<>> \/ handler[k].at \in {"routing", "replying"} ~>
            \/ inbox[k] = <<>> /\ At(k, "serving")
            \/ handler[k].at \in Over
=============================================================================
