---------------------------- MODULE DuplexStream ----------------------------
(***************************************************************************)
(* What the gateways promise a client of the upload server: two byte       *)
(* streams, one each way, that deliver what was sent, in order and with    *)
(* nothing added, however the gateway cuts it into reads and writes.       *)
(* A connection may break at any time, and delivers nothing more then.     *)
(*                                                                         *)
(* The bytes of a stream are numbered: its k-th byte is k.                 *)
(***************************************************************************)
EXTENDS Integers, Sequences

VARIABLES
    clientSent,    \* how many bytes the client has sent
    backendGot,    \* the bytes the backend has received
    backendSent,   \* how many bytes the backend has sent
    clientGot      \* the bytes the client has received

vars == <<clientSent, backendGot, backendSent, clientGot>>

Init == clientSent = 0 /\ backendGot = <<>> /\ backendSent = 0 /\ clientGot = <<>>

\* The next bytes of a stream of which got has been delivered.
NextBytes(got, n) == [k \in 1 .. n |-> Len(got) + k]

ClientSend(n) == /\ n \in Nat /\ clientSent' = clientSent + n
                 /\ UNCHANGED <<backendGot, backendSent, clientGot>>

BackendSend(n) == /\ n \in Nat /\ backendSent' = backendSent + n
                  /\ UNCHANGED <<clientSent, backendGot, clientGot>>

DeliverToBackend(n) ==
    /\ n <= clientSent - Len(backendGot)
    /\ backendGot' = backendGot \o NextBytes(backendGot, n)
    /\ UNCHANGED <<clientSent, backendSent, clientGot>>

DeliverToClient(n) ==
    /\ n <= backendSent - Len(clientGot)
    /\ clientGot' = clientGot \o NextBytes(clientGot, n)
    /\ UNCHANGED <<clientSent, backendGot, backendSent>>

Next == \/ ClientSend(clientSent' - clientSent)
        \/ BackendSend(backendSent' - backendSent)
        \/ DeliverToBackend(Len(backendGot') - Len(backendGot))
        \/ DeliverToClient(Len(clientGot') - Len(clientGot))

Spec == Init /\ [][Next]_vars
=============================================================================
