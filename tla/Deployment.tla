----------------------------- MODULE Deployment -----------------------------
(***************************************************************************)
(* How the processes of docker-compose.yaml come up, die and come up       *)
(* again, and what that does to clients.  The upload server makes sure of  *)
(* its bucket before it serves (main.go, s3client.go); the benchmark       *)
(* server makes sure of the same bucket.  The gateway waits for the        *)
(* server's container only, not for the server to serve; one process holds *)
(* the WebSocket bridge and the binary gateway.  Docker restarts a process *)
(* that exits ("restart: unless-stopped").                                 *)
(***************************************************************************)
EXTENDS Integers

CONSTANTS
    WSClients, BinaryClients,   \* clients of the bridge, of the binary gateway
    MaxFaults                   \* bound: faults of storage, network and processes

Clients == WSClients \cup BinaryClients

ASSUME DeploymentAssumption ==
    MaxFaults \in Nat /\ WSClients \cap BinaryClients = {}

VARIABLES
    bucket,    \* does the bucket exist
    server,    \* the upload server: "down", "head", "create", "start", "serving"
    gateway,   \* "down", "up"
    client,    \* client -> "out", "accepted" by the gateway, "in": connected
               \* to the server
    faults     \* how many there were

vars == <<bucket, server, gateway, client, faults>>

Init == /\ bucket \in BOOLEAN /\ server = "down" /\ gateway = "down"
        /\ client = [c \in Clients |-> "out"] /\ faults = 0

Fault == faults < MaxFaults /\ faults' = faults + 1

NoFault == UNCHANGED faults

-----------------------------------------------------------------------------
(* main and NewS3Client of the upload server.                              *)

StartServer == /\ server = "down" /\ server' = "head"
               /\ UNCHANGED <<bucket, gateway, client, faults>>

\* Mutant: a bucket that cannot be seen ends the process.
HeadBucketOrExit ==
    /\ server = "head"
    /\ \/ bucket /\ server' = "start" /\ NoFault
       \/ ~bucket /\ server' = "down" /\ NoFault
    /\ UNCHANGED <<bucket, gateway, client>>

\* Every error is taken for "there is none".
HeadBucket ==
    /\ server = "head"
    /\ \/ bucket /\ server' = "start" /\ NoFault
       \/ ~bucket /\ server' = "create" /\ NoFault
       \/ server' = "create" /\ Fault
    /\ UNCHANGED <<bucket, gateway, client>>

\* Mutant: an error is logged, as the benchmark server does.
CreateBucketAnyway ==
    /\ server = "create" /\ server' = "start"
    /\ \/ bucket' = TRUE /\ NoFault
       \/ bucket' = bucket /\ Fault
    /\ UNCHANGED <<gateway, client>>

\* Storage refuses to create the bucket that the other server has created
\* since; an error ends the process (log.Fatalf).
CreateBucket ==
    /\ server = "create"
    /\ \/ ~bucket /\ bucket' = TRUE /\ server' = "start" /\ NoFault
       \/ bucket /\ server' = "down" /\ UNCHANGED bucket /\ NoFault
       \/ server' = "down" /\ bucket' \in {bucket, TRUE} /\ Fault
    /\ UNCHANGED <<gateway, client>>

\* gnet.Run.
Serve == /\ server = "start"
         /\ \/ server' = "serving" /\ NoFault
            \/ server' = "down" /\ Fault
         /\ UNCHANGED <<bucket, gateway, client>>

\* Its connections go with the process, and the gateway's to its clients.
ServerDies ==
    /\ server = "serving" /\ server' = "down" /\ Fault
    /\ client' = [c \in Clients |-> IF client[c] = "in" THEN "out" ELSE client[c]]
    /\ UNCHANGED <<bucket, gateway>>

\* ensure_bucket of the benchmark server.
OtherCreatesBucket == /\ ~bucket /\ bucket' = TRUE
                      /\ UNCHANGED <<server, gateway, client, faults>>

-----------------------------------------------------------------------------
(* The gateway process and its clients.                                    *)

StartGateway == /\ gateway = "down" /\ gateway' = "up"
                /\ UNCHANGED <<bucket, server, client, faults>>

Connect(c) == /\ gateway = "up" /\ client[c] = "out"
              /\ client' = [client EXCEPT ![c] = "accepted"]
              /\ UNCHANGED <<bucket, server, gateway, faults>>

Dialed(c) == /\ server = "serving" /\ NoFault
             /\ client' = [client EXCEPT ![c] = "in"]
             /\ UNCHANGED gateway

DialFails == (server # "serving" /\ NoFault) \/ Fault

\* BinaryGateway.OnOpen closes a connection that has no context yet, and
\* OnClose panics: the process ends.
OnOpen(c) ==
    /\ c \in BinaryClients /\ gateway = "up" /\ client[c] = "accepted"
    /\ \/ Dialed(c)
       \/ /\ DialFails
          /\ gateway' = "down"
          /\ client' = [d \in Clients |-> "out"]
    /\ UNCHANGED <<bucket, server>>

\* Mutant: the bridge leaves the WebSocket open if it cannot dial.
HandleWSUploadOpen(c) ==
    /\ c \in WSClients /\ gateway = "up" /\ client[c] = "accepted"
    /\ \/ Dialed(c)
       \/ DialFails /\ client' = [client EXCEPT ![c] = "stuck"] /\ UNCHANGED gateway
    /\ UNCHANGED <<bucket, server>>

\* The bridge closes the WebSocket if it cannot dial.
HandleWSUpload(c) ==
    /\ c \in WSClients /\ gateway = "up" /\ client[c] = "accepted"
    /\ \/ Dialed(c)
       \/ DialFails /\ client' = [client EXCEPT ![c] = "out"] /\ UNCHANGED gateway
    /\ UNCHANGED <<bucket, server>>

-----------------------------------------------------------------------------
Server == StartServer \/ HeadBucket \/ CreateBucket \/ Serve

Open(c) == OnOpen(c) \/ HandleWSUpload(c)

\* Nothing is being set up; the deployment may stay so.
Settled == /\ server = "serving"
           /\ \A c \in Clients : client[c] \notin {"out", "accepted"}
           /\ UNCHANGED vars

Next == \/ Server \/ ServerDies \/ OtherCreatesBucket \/ StartGateway
        \/ \E c \in Clients : Connect(c) \/ Open(c)
        \/ Settled

\* Docker starts what has exited, started processes go on, clients try again.
Spec ==
    /\ Init /\ [][Next]_vars
    /\ WF_vars(Server) /\ WF_vars(StartGateway)
    /\ \A c \in Clients : WF_vars(Connect(c)) /\ WF_vars(Open(c))

-----------------------------------------------------------------------------
(* Properties.                                                             *)

\* An upload server that serves has its bucket, whoever created it and
\* whatever failed (s3client.go:49, "Ensure bucket exists").
BucketBeforeServing == server = "serving" => bucket

\* The start cannot go wrong for good: two servers that create the bucket at
\* once, a lost answer or a misread error cost a restart.
ServerComesUp == <>[](server = "serving")

\* Every client that keeps trying is connected in the end, although each
\* failed dial of a binary client takes the gateway down for all.
ClientsGetThrough == \A c \in Clients : <>[](client[c] = "in")

\* A dial that fails costs other clients nothing.
OthersUnharmed ==
    [][\A c, d \in Clients :
          Open(c) /\ d # c /\ client[d] = "in" => client'[d] = "in"]_vars
=============================================================================
