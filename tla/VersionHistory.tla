--------------------------- MODULE VersionHistory ---------------------------
(***************************************************************************)
(* What the Context_Store promises of a context's versions, without        *)
(* sessions, transactions or clocks: a chain that only grows at its end,   *)
(* each version naming its predecessor, until the whole context is deleted.*)
(***************************************************************************)
EXTENDS Integers, Sequences

CONSTANTS Contexts, Versions, None

VARIABLE history    \* the chain of each context, empty if there is none

Init == history = [c \in Contexts |-> <<>>]

Create(c, v) ==
    /\ history[c] = <<>>
    /\ history' = [history EXCEPT ![c] = <<[version |-> v, parent |-> None]>>]

Update(c, v) ==
    /\ history[c] # <<>>
    /\ history' = [history EXCEPT ![c] =
            Append(@, [version |-> v, parent |-> @[Len(@)].version])]

Delete(c) ==
    /\ history[c] # <<>>
    /\ history' = [history EXCEPT ![c] = <<>>]

Next ==
    \E c \in Contexts :
        \/ Delete(c)
        \/ \E v \in Versions :
            /\ \A d \in Contexts : \A i \in DOMAIN history[d] :
                    history[d][i].version # v
            /\ Create(c, v) \/ Update(c, v)

Spec == Init /\ [][Next]_history
=============================================================================
