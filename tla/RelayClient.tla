----------------------------- MODULE RelayClient -----------------------------
(***************************************************************************)
(* The devices' RelayClient objects, one of each device, composed with the *)
(* relay they talk to.  connect, disconnect and send are coroutines that   *)
(* may run in several tasks and share the attribute _ws, which each of     *)
(* them reads again after its awaits.                                      *)
(***************************************************************************)
EXTENDS Relay

VARIABLES
    ws,       \* _ws of each device's client
    dial,     \* where its connect() is; up: it has returned
    closing,  \* is its disconnect() waiting for close()?
    first     \* what the relay will take for the auth frame of a connection

client == <<ws, dial, closing, first>>
allvars == <<sessions, handler, link, inbox, sent, outbox, ws, dial, closing, first>>

ClientTypeOK ==
    /\ TypeOK
    /\ ws \in [Devices -> Conns \cup {None}]
    /\ dial \in [Devices -> {"idle", "challenge", "result", "up"}]
    /\ closing \in [Devices -> BOOLEAN]
    /\ first \in [Conns -> {"nothing", "auth", "envelope"}]

ClientInit ==
    /\ Init
    /\ ws = [d \in Devices |-> None]
    /\ dial = [d \in Devices |-> "idle"]
    /\ closing = [d \in Devices |-> FALSE]
    /\ first = [k \in Conns |-> "nothing"]

-----------------------------------------------------------------------------
(* connect. *)

Dialling(d) == dial[d] \in {"challenge", "result"}
Dials(d, at) == dial' = [dial EXCEPT ![d] = at]
Cut(d) == ws[d] \notin {k \in Conns : link[k] = "open"}

\* Variant of Connect: _ws is what the client connects to.
ConnectToTarget(d, g, k) ==
    /\ ~Dialling(d)
    /\ Open(k, d, g)
    /\ ws' = [ws EXCEPT ![d] = g]
    /\ Dials(d, "challenge")
    /\ UNCHANGED <<closing, first>>

\* websockets.connect, and its result is _ws at once.
Connect(d, g, k) ==
    /\ ~Dialling(d)
    /\ Open(k, d, g)
    /\ ws' = [ws EXCEPT ![d] = k]
    /\ Dials(d, "challenge")
    /\ UNCHANGED <<closing, first>>

\* recv of the challenge and send of the answer, on what _ws is by now.
Answers(d) ==
    /\ dial[d] = "challenge"
    /\ \/ /\ ws[d] # None
          /\ first' = [first EXCEPT ![ws[d]] =
                        IF @ = "nothing" /\ link[ws[d]] = "open" THEN "auth" ELSE @]
          /\ Dials(d, "result")
       \/ /\ Cut(d)
          /\ Dials(d, "idle")
          /\ UNCHANGED first
    /\ UNCHANGED <<vars, ws, closing>>

\* Variant of Returns: the answer's type is not looked at.
ReturnsAnyway(d) ==
    /\ dial[d] = "result"
    /\ \/ ws[d] # None /\ Len(outbox[ws[d]]) > 1 /\ Dials(d, "up")
       \/ Cut(d) /\ Dials(d, "idle")
    /\ UNCHANGED <<vars, ws, closing, first>>

\* recv of the result: auth_ok, or connect raises and leaves _ws as it is.
Returns(d) ==
    /\ dial[d] = "result"
    /\ \/ /\ ws[d] # None /\ Len(outbox[ws[d]]) > 1
          /\ Dials(d, IF outbox[ws[d]][2].kind = "auth_ok" THEN "up" ELSE "idle")
       \/ Cut(d) /\ Dials(d, "idle")
    /\ UNCHANGED <<vars, ws, closing, first>>

\* The caller gives up waiting: the client has no timeout of its own.
Cancel(d) ==
    /\ Dialling(d)
    /\ Dials(d, "idle")
    /\ UNCHANGED <<vars, ws, closing, first>>

-----------------------------------------------------------------------------
(* disconnect and send. *)

\* await _ws.close()
Disconnects(d) ==
    /\ ws[d] # None /\ ~closing[d]
    /\ Leave(ws[d])
    /\ closing' = [closing EXCEPT ![d] = TRUE]
    /\ UNCHANGED <<ws, dial, first>>

\* _ws = None, whatever it has become by then; at once if there is nothing to
\* close any more.
Forgets(d) ==
    /\ closing[d] \/ (ws[d] # None /\ Cut(d))
    /\ closing' = [closing EXCEPT ![d] = FALSE]
    /\ ws' = [ws EXCEPT ![d] = None]
    /\ Dials(d, IF Dialling(d) THEN dial[d] ELSE "idle")
    /\ UNCHANGED <<vars, first>>

\* send needs a _ws and no more.  An envelope that comes before the answer to
\* the challenge is what the relay takes for it; one that comes before auth_ok
\* waits in line.
Sends(d, f) ==
    /\ ws[d] # None /\ link[ws[d]] = "open"
    /\ LET k == ws[d]
       IN  \/ /\ Send(k, f)
              /\ UNCHANGED first
           \/ /\ ~Greeted(k) /\ first[k] = "auth"
              /\ sent[k] < MaxFrames /\ f.n = sent[k] + 1
              /\ sent' = [sent EXCEPT ![k] = @ + 1]
              /\ inbox' = [inbox EXCEPT ![k] = Append(@, f)]
              /\ UNCHANGED <<sessions, handler, link, outbox, first>>
           \/ /\ ~Greeted(k) /\ first[k] = "nothing"
              /\ first' = [first EXCEPT ![k] = "envelope"]
              /\ UNCHANGED vars
    /\ UNCHANGED <<ws, dial, closing>>

-----------------------------------------------------------------------------
(* The network and the relay. *)

Drops(k) == Leave(k) /\ UNCHANGED client

\* The relay waits for a frame on the connection, or for its loss.
Authenticates(k) ==
    /\ \/ first[k] = "auth" /\ Register(k)
       \/ first[k] = "envelope" /\ RefuseAuth(k)
       \/ link[k] = "lost" /\ RefuseAuth(k)
    /\ UNCHANGED client

Serves(k) ==
    /\ Greet(k) \/ Disconnect(k) \/ Receive(k) \/ Forward(k) \/ Reply(k)
    /\ UNCHANGED client

RelayRestarts == Restart /\ UNCHANGED client

ClientNext ==
    \/ \E d \in Devices :
        \/ \E g \in Groups, k \in Conns : Connect(d, g, k)
        \/ Answers(d) \/ Returns(d) \/ Cancel(d) \/ Disconnects(d) \/ Forgets(d)
        \/ \E f \in Frame : Sends(d, f)
    \/ \E k \in Conns : Drops(k) \/ Authenticates(k) \/ Serves(k)
    \/ RelayRestarts

ClientSpec == ClientInit /\ [][ClientNext]_allvars

-----------------------------------------------------------------------------
(* Properties. *)

\* connect() returns only on a connection whose device the relay has taken in,
\* although _ws is there for all to use before that: an envelope sent too soon
\* costs the connection, and never passes for the authentication (connect 54).
ConnectHonest ==
    \A d \in Devices : dial[d] = "up" /\ ws[d] # None =>
        handler[ws[d]].at \notin {"unused", "challenged", "refused", "aborted"}

Errors(k) == {i \in DOMAIN outbox[k] : outbox[k][i].kind = "error"}
Arrived(k) == UNION {{<<j, i>> : i \in {m \in Messages(j) : outbox[j][m].conn = k}} : j \in Conns}

\* As long as no connection is lost, no envelope is: what send() has put on an
\* authenticated connection waits, is being dealt with, has reached a device
\* or was answered with an error.
NoEnvelopeVanishes ==
    (\A j \in Conns : link[j] # "lost") =>
        \A k \in Conns :
            sent[k] = Len(inbox[k]) + Cardinality(Errors(k)) + Cardinality(Arrived(k))
                      + (IF handler[k].at \in {"routing", "replying"} THEN 1 ELSE 0)
=============================================================================
