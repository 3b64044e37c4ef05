------------------------ MODULE AccountServiceProofs ------------------------
(***************************************************************************)
(* What registration keeps, for any number of processes, threads, emails   *)
(* and crashes.                                                            *)
(***************************************************************************)
EXTENDS AccountService, TLAPS

Row == [email : Emails, password : Passwords, seen : Nat]

\* A request in progress found no row of its email among those that it saw.
RequestInv(t) ==
    thread[t] # Idle =>
        /\ thread[t].email \in Emails /\ thread[t].password \in Passwords
        /\ thread[t].seen \in 0 .. Len(users)
        /\ \A j \in 1 .. thread[t].seen : users[j].email # thread[t].email

AccountInv ==
    /\ users \in Seq(Row)
    /\ DOMAIN thread = Threads
    /\ \A t \in Threads : RequestInv(t)
    /\ DuplicatesOverlap

LEMMA AccountInit == Init => AccountInv
  BY DEF Init, AccountInv, RequestInv, DuplicatesOverlap

\* What register does to the request that it begins.
LEMMA RegisterKeeps ==
    ASSUME AccountInv, NEW t \in Threads, NEW p \in Processes, NEW e \in Emails,
           NEW pw \in Passwords, register(t, p, e, pw)
    PROVE  AccountInv'
<1>1. users' = users
  BY DEF register, Begins
<1>2. users \in Seq(Row) /\ Len(users) \in Nat /\ DOMAIN users = 1 .. Len(users)
  BY DEF AccountInv
<1>3. ASSUME NEW u \in Threads PROVE RequestInv(u)'
  <2>1. CASE u = t
    <3>1. thread'[u] = [in |-> {p}, email |-> e, password |-> pw, seen |-> Len(users),
                         stored |-> FALSE]
      BY <2>1 DEF register, Begins, AccountInv
    <3>2. \A j \in 1 .. Len(users) : users[j].email # e
      BY <1>2 DEF register, get_user
    <3> QED
      BY <1>1, <1>2, <3>1, <3>2 DEF RequestInv
  <2>2. CASE u # t
    BY <1>1, <2>2 DEF register, Begins, AccountInv, RequestInv
  <2> QED
    BY <2>1, <2>2
<1>4. DOMAIN thread' = Threads
  BY DEF register, Begins, AccountInv
<1> QED
  BY <1>1, <1>3, <1>4 DEF AccountInv, DuplicatesOverlap, get_user

\* The insert keeps all rows before it, and its own follows those it saw.
LEMMA InsertKeeps ==
    ASSUME AccountInv, NEW t \in Threads, register_user(t)
    PROVE  AccountInv'
<1> DEFINE row == [email |-> thread[t].email, password |-> thread[t].password,
                   seen |-> thread[t].seen]
<1>1. /\ thread[t] # Idle /\ RequestInv(t)
      /\ users \in Seq(Row) /\ Len(users) \in Nat
  BY DEF register_user, AccountInv, RequestInv
<1>2. row \in Row
  BY <1>1 DEF Row, RequestInv
<1>3. users' = Append(users, row)
  BY DEF register_user
<1>4. /\ users' \in Seq(Row) /\ Len(users') = Len(users) + 1
      /\ DOMAIN users' = 1 .. Len(users) + 1 /\ DOMAIN users = 1 .. Len(users)
      /\ \A j \in 1 .. Len(users) : users'[j] = users[j]
      /\ users'[Len(users) + 1] = row
  BY <1>1, <1>2, <1>3
<1>5. ASSUME NEW u \in Threads PROVE RequestInv(u)'
  <2>1. CASE u = t
    <3>1. /\ thread'[u].email = thread[t].email /\ thread'[u].seen = thread[t].seen
          /\ thread'[u].password = thread[t].password
      BY <2>1 DEF register_user, AccountInv
    <3> QED
      BY <1>1, <1>4, <3>1 DEF RequestInv
  <2>2. CASE u # t
    <3>1. thread'[u] = thread[u] /\ RequestInv(u)
      BY <2>2 DEF register_user, AccountInv
    <3>2. CASE thread[u] = Idle
      BY <3>1, <3>2 DEF RequestInv, Idle
    <3>3. CASE thread[u] # Idle
      <4>1. thread[u].seen \in 0 .. Len(users') /\ 1 .. thread[u].seen \subseteq 1 .. Len(users)
        BY <1>1, <1>4, <3>1, <3>3 DEF RequestInv
      <4> QED
        BY <1>1, <1>4, <3>1, <3>3, <4>1 DEF RequestInv
    <3> QED
      BY <3>2, <3>3
  <2> QED
    BY <2>1, <2>2
<1>6. DuplicatesOverlap'
  <2> SUFFICES ASSUME NEW j \in DOMAIN users', NEW k \in DOMAIN users',
                      j < k, users'[j].email = users'[k].email
               PROVE  users'[k].seen < j
    BY DEF DuplicatesOverlap
  <2>1. j \in 1 .. Len(users) /\ users'[j] = users[j]
    BY <1>1, <1>4
  <2>2. CASE k = Len(users) + 1
    <3>1. users[j].email = thread[t].email /\ users'[k].seen = thread[t].seen
      BY <1>4, <2>1, <2>2
    <3>2. thread[t].seen \in Nat /\ j \notin 1 .. thread[t].seen
      BY <1>1, <3>1 DEF RequestInv
    <3> QED
      BY <2>1, <3>1, <3>2
  <2>3. CASE k \in 1 .. Len(users)
    BY <1>4, <2>1, <2>3 DEF AccountInv, DuplicatesOverlap
  <2> QED
    BY <1>1, <1>4, <2>2, <2>3
<1>7. DOMAIN thread' = Threads
  BY DEF register_user, AccountInv
<1> QED
  BY <1>4, <1>5, <1>6, <1>7 DEF AccountInv

\* Ending requests disturbs nothing.
LEMMA RequestEnds ==
    ASSUME AccountInv, users' = users, DOMAIN thread' = Threads,
           \A t \in Threads : thread'[t] \in {Idle, thread[t]}
    PROVE  AccountInv'
<1>1. ASSUME NEW t \in Threads PROVE RequestInv(t)'
  <2>1. CASE thread'[t] = Idle
    BY <2>1 DEF RequestInv, Idle
  <2>2. CASE thread'[t] = thread[t]
    BY <2>2 DEF AccountInv, RequestInv, Idle
  <2> QED
    BY <2>1, <2>2
<1> QED
  BY <1>1 DEF AccountInv, DuplicatesOverlap

LEMMA AccountStep == AccountInv /\ [Next]_vars => AccountInv'
<1> SUFFICES ASSUME AccountInv, [Next]_vars PROVE AccountInv'
  OBVIOUS
<1>1. ASSUME NEW p \in Processes, Boot(p) PROVE AccountInv'
  <2>1. users' = users /\ thread' = thread
    BY <1>1 DEF Boot, At, Start, new_database_needed, CreateRole, CreateDatabase,
         CreateUsers, CreateS3Metadata
  <2> QED
    BY <2>1 DEF AccountInv, RequestInv, DuplicatesOverlap
<1>2. ASSUME NEW p \in Processes, Crash(p) PROVE AccountInv'
  <2>1. /\ users' = users
        /\ DOMAIN thread' = Threads
        /\ \A t \in Threads : thread'[t] \in {Idle, thread[t]}
    BY <1>2 DEF Crash
  <2> QED
    BY <2>1, RequestEnds
<1>3. ASSUME NEW p \in Processes, NEW t \in Threads, NEW e \in Emails, Refuse(t, p, e)
      PROVE  AccountInv'
  BY <1>3 DEF Refuse, vars, AccountInv, RequestInv, DuplicatesOverlap, get_user
<1>4. ASSUME NEW t \in Threads, Answer(t) PROVE AccountInv'
  <2>1. /\ users' = users
        /\ DOMAIN thread' = Threads
        /\ \A u \in Threads : thread'[u] \in {Idle, thread[u]}
    BY <1>4 DEF Answer, AccountInv
  <2> QED
    BY <2>1, RequestEnds
<1>5. CASE UNCHANGED vars
  BY <1>5 DEF vars, AccountInv, RequestInv, DuplicatesOverlap, get_user
<1> QED
  BY <1>1, <1>2, <1>3, <1>4, <1>5, RegisterKeeps, InsertKeeps DEF Next

LEMMA AccountInvHolds == Spec => []AccountInv
  BY AccountInit, AccountStep, PTL DEF Spec

\* register (auth.py:59) doubles an email only for requests that overlap, on
\* however many threads and processes.
THEOREM OnlyOverlapsDuplicate == Spec => []DuplicatesOverlap
<1>1. AccountInv => DuplicatesOverlap
  BY DEF AccountInv
<1> QED
  BY AccountInvHolds, <1>1, PTL
=============================================================================
