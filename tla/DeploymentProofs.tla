-------------------------- MODULE DeploymentProofs --------------------------
(***************************************************************************)
(* A server that serves has its bucket, for any number of clients and      *)
(* faults.                                                                 *)
(***************************************************************************)
EXTENDS Deployment, TLAPS

\* BucketBeforeServing is inductive once it speaks of the moment between the
\* making of the bucket and gnet.Run, too (NewS3Client has returned).
BucketInv == server \in {"start", "serving"} => bucket

LEMMA BucketInit == Init => BucketInv
  BY DEF Init, BucketInv

LEMMA BucketStep == BucketInv /\ [Next]_vars => BucketInv'
<1> SUFFICES ASSUME BucketInv, [Next]_vars PROVE BucketInv'
  OBVIOUS
<1>1. CASE Server
  <2>1. CASE StartServer
    BY <2>1 DEF StartServer, BucketInv
  <2>2. CASE HeadBucket
    BY <2>2 DEF HeadBucket, BucketInv
  <2>3. CASE CreateBucket
    BY <2>3 DEF CreateBucket, BucketInv
  <2>4. CASE Serve
    BY <2>4 DEF Serve, BucketInv
  <2> QED
    BY <1>1, <2>1, <2>2, <2>3, <2>4 DEF Server
<1>2. CASE ServerDies
  BY <1>2 DEF ServerDies, BucketInv
<1>3. CASE OtherCreatesBucket
  BY <1>3 DEF OtherCreatesBucket, BucketInv
<1>4. CASE StartGateway
  BY <1>4 DEF StartGateway, BucketInv
<1>5. ASSUME NEW c \in Clients, Connect(c) \/ Open(c) PROVE BucketInv'
  BY <1>5 DEF Connect, Open, OnOpen, HandleWSUpload, BucketInv
<1>6. CASE Settled \/ UNCHANGED vars
  BY <1>6 DEF Settled, vars, BucketInv
<1> QED
  BY <1>1, <1>2, <1>3, <1>4, <1>5, <1>6 DEF Next

\* Whoever made the bucket, whatever failed and however often processes died, a
\* server reaches gnet.Run (main.go:41) only with its bucket.
THEOREM ServingHasBucket == Spec => []BucketBeforeServing
<1>1. BucketInv => BucketBeforeServing
  BY DEF BucketInv, BucketBeforeServing
<1> QED
  BY BucketInit, BucketStep, <1>1, PTL DEF Spec
=============================================================================
