---------------------------- MODULE RequestStream ----------------------------
(***************************************************************************)
(* What a connection to the upload server promises its client: each        *)
(* request is answered once, in the order of the requests, and with the    *)
(* answer that is due to what the client wrote, wherever the network cuts  *)
(* the bytes.  The server may stop answering when the connection ends.     *)
(***************************************************************************)
EXTENDS Integers, Sequences

CONSTANT Due   \* the sequence of answers that are due to the client's requests

VARIABLES
    sent,      \* how many requests the client has sent
    answers,   \* the answers given
    got        \* how many answers the client has

vars == <<sent, answers, got>>

Init == sent = 0 /\ answers = <<>> /\ got = 0

Send == /\ sent < Len(Due)
        /\ sent' = sent + 1
        /\ UNCHANGED <<answers, got>>

Answer == /\ Len(answers) < sent
          /\ answers' = Append(answers, Due[Len(answers) + 1])
          /\ UNCHANGED <<sent, got>>

Receive == /\ got' \in got + 1 .. Len(answers)
           /\ UNCHANGED <<sent, answers>>

Next == Send \/ Answer \/ Receive

Spec == Init /\ [][Next]_vars
=============================================================================
