--------------------------- MODULE AccountService ---------------------------
(***************************************************************************)
(* The account service (flask_webserver): how its processes create the     *)
(* database they need, and how their threads register users.  Every SQL    *)
(* command is a transaction of its own, so each is a step.                 *)
(*                                                                         *)
(* PostgreSQL is not under src/: creating what exists fails, and so does   *)
(* a reference to users(email_id), which is not declared unique.  Logging  *)
(* in and the JSON web tokens change no state here; metadata has no table  *)
(* to be stored in.                                                        *)
(***************************************************************************)
EXTENDS Integers, Sequences

CONSTANTS
    Processes, Threads,    \* Threads: requests in progress at once
    Emails, Passwords,
    MaxCrashes,            \* bound: processes that die by themselves
    MaxRows                \* bound: no request is begun once there are so many users

ASSUME AccountAssumption == MaxCrashes \in Nat /\ MaxRows \in Nat

VARIABLES
    role, database, usersTable,   \* what exists in PostgreSQL
    users,      \* the rows of users; seen is how many there were when register
                \* looked for the email
    process,    \* process -> the next step of create_app, "down" or "serving"
    thread,     \* thread -> the request, the process it is in, and whether
                \* register_user has returned
    okay,       \* who was told that they are registered
    crashes

vars == <<role, database, usersTable, users, process, thread, okay, crashes>>

Idle == [in |-> {}, email |-> "", password |-> "", seen |-> 0, stored |-> FALSE]

Init ==
    /\ role = FALSE /\ database = FALSE /\ usersTable = FALSE
    /\ users = <<>> /\ okay = {} /\ crashes = 0
    /\ process = [p \in Processes |-> "down"]
    /\ thread = [t \in Threads |-> Idle]

-----------------------------------------------------------------------------
(* create_app: initalize_databse_if_it_dont_exist.                         *)

At(p, step) == process[p] = step /\ UNCHANGED <<users, thread, okay, crashes>>

Goto(p, step) == process' = [process EXCEPT ![p] = step]

Start(p) == /\ At(p, "down") /\ Goto(p, "new_database_needed")
            /\ UNCHANGED <<role, database, usersTable>>

\* An empty server has three databases.
new_database_needed(p) ==
    /\ At(p, "new_database_needed")
    /\ Goto(p, IF database THEN "serving" ELSE "create role")
    /\ UNCHANGED <<role, database, usersTable>>

\* A command that fails ends the process.
CreateRole(p) ==
    /\ At(p, "create role")
    /\ role' = TRUE /\ Goto(p, IF role THEN "down" ELSE "create database")
    /\ UNCHANGED <<database, usersTable>>

CreateDatabase(p) ==
    /\ At(p, "create database")
    /\ database' = TRUE /\ Goto(p, IF database THEN "down" ELSE "create users")
    /\ UNCHANGED <<role, usersTable>>

CreateUsers(p) ==
    /\ At(p, "create users")
    /\ usersTable' = TRUE
    /\ Goto(p, IF usersTable THEN "down" ELSE "create s3_metadata")
    /\ UNCHANGED <<role, database>>

\* "REFERENCES users(email_id)" always fails.
CreateS3Metadata(p) == /\ At(p, "create s3_metadata") /\ Goto(p, "down")
                       /\ UNCHANGED <<role, database, usersTable>>

Boot(p) == \/ Start(p) \/ new_database_needed(p) \/ CreateRole(p)
           \/ CreateDatabase(p) \/ CreateUsers(p) \/ CreateS3Metadata(p)

Crash(p) ==
    /\ crashes < MaxCrashes /\ process[p] # "down"
    /\ crashes' = crashes + 1
    /\ Goto(p, "down")
    /\ thread' = [t \in Threads |-> IF p \in thread[t].in THEN Idle ELSE thread[t]]
    /\ UNCHANGED <<role, database, usersTable, users, okay>>

-----------------------------------------------------------------------------
(* register: get_user, if it finds none register_user, and then the answer. *)

get_user(e) == {k \in DOMAIN users : users[k].email = e}

\* The request that thread t works on once get_user has answered.
Begins(t, p, e, pw) ==
    /\ thread[t] = Idle /\ process[p] = "serving"
    /\ Len(users) < MaxRows /\ usersTable
    /\ thread' = [thread EXCEPT ![t] = [in |-> {p}, email |-> e, password |-> pw,
                                        seen |-> Len(users), stored |-> FALSE]]
    /\ UNCHANGED <<role, database, usersTable, users, process, okay, crashes>>

\* Mutant: nobody looks for the email.
RegisterUnchecked(t, p, e, pw) == Begins(t, p, e, pw)

register(t, p, e, pw) == get_user(e) = {} /\ Begins(t, p, e, pw)

register_user(t) ==
    /\ thread[t] # Idle /\ ~thread[t].stored
    /\ users' = Append(users, [email |-> thread[t].email,
                               password |-> thread[t].password,
                               seen |-> thread[t].seen])
    /\ thread' = [thread EXCEPT ![t].stored = TRUE]
    /\ UNCHANGED <<role, database, usersTable, process, okay, crashes>>

\* {"status": "okay"}: if the connection breaks, the client learns nothing.
Answer(t) ==
    /\ thread[t].stored
    /\ okay' \in {okay, okay \cup {[email |-> thread[t].email,
                                    password |-> thread[t].password]}}
    /\ thread' = [thread EXCEPT ![t] = Idle]
    /\ UNCHANGED <<role, database, usersTable, users, process, crashes>>

\* "User already exists", or there is no table to look in.
Refuse(t, p, e) ==
    /\ thread[t] = Idle /\ process[p] = "serving"
    /\ usersTable => get_user(e) # {}
    /\ UNCHANGED vars

-----------------------------------------------------------------------------
Next ==
    \/ \E p \in Processes :
          \/ Boot(p) \/ Crash(p)
          \/ \E t \in Threads, e \in Emails :
                Refuse(t, p, e) \/ \E pw \in Passwords : register(t, p, e, pw)
    \/ \E t \in Threads : register_user(t) \/ Answer(t)

Spec == Init /\ [][Next]_vars

\* Processes that have exited are started again.
FairSpec == Spec /\ \A p \in Processes : WF_vars(Boot(p))

-----------------------------------------------------------------------------
(* Properties.                                                             *)

\* One email is registered twice only by requests that overlap: the later one
\* looked for the email before the earlier one was stored.
DuplicatesOverlap ==
    \A j, k \in DOMAIN users :
        j < k /\ users[j].email = users[k].email => users[k].seen < j

\* Who is told "okay" can log in: the one row that login fetches, any of the
\* email's, has their password ("User already exists. Please login.", auth.py:61).
RegisteredCanLogin ==
    \A o \in okay : \A k \in get_user(o.email) : users[k].password = o.password

\* A process that serves has the table of users.
TablesBeforeServing ==
    \A p \in Processes : process[p] = "serving" => usersTable

\* After enough starts a process serves, whatever died in the middle.
ComesUp == \A p \in Processes : <>(process[p] = "serving")
=============================================================================
