--------------------------- MODULE ProjectDatabase ---------------------------
(***************************************************************************)
(* One project's own database and role on the shared cluster: provisioning *)
(* (services/appdb/provision.py), the administrator's switch that severs   *)
(* and restores it, and the two deletes that destroy it                    *)
(* (services/appdb/teardown.py, api/v1/admin/router.py,                    *)
(* api/v1/projects/router.py).                                             *)
(*                                                                         *)
(* Every statement on the cluster is a step of its own and may fail; the   *)
(* registry row, the app row and the project row change by one committed   *)
(* transaction.  A claim's number stands for the password it minted.  The  *)
(* names of database and role are a function of the project.               *)
(***************************************************************************)
EXTENDS Naturals, FiniteSets

CONSTANTS
    Calls,     \* ensure_project_database under way at once
    Deleters,  \* deletes whose teardown is under way at once
    MaxClaims, \* claims in a behaviour
    HardDeletes \* whether administrators delete apps

ASSUME ProjectDatabaseAssumption ==
    /\ MaxClaims \in Nat
    /\ HardDeletes \in BOOLEAN

VARIABLES
    project, \* whether the projects row exists
    app,     \* the app row: serving, switched off, or none
    row,     \* the project_databases row
    claims,  \* the claims made so far
    role,    \* the role on the cluster
    base,    \* the database on the cluster
    inside,  \* whether the app has a session open
    given,   \* the passwords containers were started with
    call,    \* the provisioners
    switch,  \* the administrator's switch under way, on the locked app row
    salt,    \* the teardowns
    recorded, \* whether a teardown recorded what it left
    late     \* what worked on while the database was being shut or destroyed

vars ==
    <<project, app, row, claims, role, base, inside, given, call, switch, salt, recorded, late>>

----------------------------------------------------------------------------
\* Types and the initial state.

Claims == 0 .. MaxClaims
NoRow == [claim |-> 0, ready |-> FALSE]
NoRole == [pw |-> 0, login |-> FALSE, member |-> FALSE]
Marks == {"walled", "timeouts", "stamped"}
NoBase == [of |-> 0, granted |-> FALSE, marks |-> {}]
NoCall == [pc |-> "idle", claim |-> 0]
NoSalt == [pc |-> "idle", ok |-> TRUE]

CallPCs == {"idle", "claim", "await", "read", "role", "grant", "create", "deed",
            "wall", "open", "timeouts", "stamp", "publish"}
SwitchPCs == {"idle", "nologin", "revoke", "evict", "off", "grant", "login", "on"}
SaltPCs == {"idle", "nologin", "revoke", "evict", "drop", "evictagain", "dropagain", "role",
           "dead"}

TypeOK ==
    /\ project \in BOOLEAN
    /\ app \in {"on", "off", "none"}
    /\ row \in [claim : Claims, ready : BOOLEAN]
    /\ claims \in Claims
    /\ role \in [pw : Claims, login : BOOLEAN, member : BOOLEAN]
    /\ base \in [of : Claims, granted : BOOLEAN, marks : SUBSET Marks]
    /\ inside \in BOOLEAN
    /\ given \subseteq 1 .. MaxClaims
    /\ call \in [Calls -> [pc : CallPCs, claim : Claims]]
    /\ switch \in SwitchPCs
    /\ salt \in [Deleters -> [pc : SaltPCs, ok : BOOLEAN]]
    /\ recorded \in BOOLEAN
    /\ late \subseteq {"call", "enable"}

Init ==
    /\ project = TRUE /\ app = "on"
    /\ row = NoRow /\ claims = 0 /\ role = NoRole /\ base = NoBase
    /\ inside = FALSE /\ given = {}
    /\ call = [c \in Calls |-> NoCall]
    /\ switch = "idle"
    /\ salt = [d \in Deleters |-> NoSalt]
    /\ recorded = FALSE /\ late = {}

----------------------------------------------------------------------------
\* Who may get in: the role logs in with its password, and may connect while it
\* has been granted that or while everyone has.

Standing == base.of # 0
DoorOpen ==
    /\ Standing /\ role.pw \in given /\ role.login
    /\ base.granted \/ "walled" \notin base.marks
Connect ==
    /\ DoorOpen /\ ~inside
    /\ inside' = TRUE
    /\ UNCHANGED <<project, app, row, claims, role, base, given, call, switch, salt, recorded, late>>

----------------------------------------------------------------------------
\* ensure_project_database.

CallTo(c, rec) ==
    /\ call' = [call EXCEPT ![c] = rec]
    /\ UNCHANGED <<project, app, inside, switch, salt, recorded>>
CallPc(c, pc) == CallTo(c, [call[c] EXCEPT !.pc = pc])

\* Work done while the app is switched off or switching, while a teardown runs,
\* or after the row that was read has gone.
Late(c) ==
    \/ app = "off" \/ switch # "idle"
    \/ \E d \in Deleters : salt[d].pc \notin {"idle", "dead"}
    \/ call[c].claim # 0 /\ row.claim # call[c].claim
Worked(c) == late' = IF Late(c) THEN late \union {"call"} ELSE late

\* A row that is ready is answered at once, and its DSN is handed to a container.
\* A switched-off app is not built.
Ask(c) ==
    /\ call[c].pc = "idle" /\ project /\ app # "off"
    /\ IF row.ready
       THEN /\ given' = given \union {row.claim}
            /\ UNCHANGED call
       ELSE /\ call' = [call EXCEPT ![c].pc = "claim"]
            /\ UNCHANGED given
    /\ UNCHANGED <<project, app, row, claims, role, base, inside, switch, salt, recorded, late>>

\* The insert that elects one caller; it fails once the project is gone.
Claim(c) ==
    /\ call[c].pc = "claim"
    /\ \/ row.claim # 0 /\ CallPc(c, "await") /\ UNCHANGED <<row, claims, late>>
       \/ /\ row.claim = 0 /\ project /\ claims < MaxClaims
          /\ claims' = claims + 1
          /\ row' = [claim |-> claims + 1, ready |-> FALSE]
          /\ CallPc(c, "read") /\ Worked(c)
       \/ row.claim = 0 /\ CallTo(c, NoCall) /\ UNCHANGED <<row, claims, late>>
    /\ UNCHANGED <<role, base, given>>

\* The loser waits for the winner; its patience may run out first.
Await(c) ==
    /\ call[c].pc = "await"
    /\ \/ /\ row.ready
          /\ given' = given \union {row.claim} /\ CallTo(c, NoCall)
       \/ ~row.ready /\ CallPc(c, "read") /\ UNCHANGED given
    /\ UNCHANGED <<row, claims, role, base, late>>

\* The row and its password, read before the cluster is touched.
Read(c) ==
    /\ call[c].pc = "read"
    /\ \/ row.claim = 0 /\ CallTo(c, NoCall) /\ UNCHANGED given
       \/ row.ready /\ given' = given \union {row.claim} /\ CallTo(c, NoCall)
       \/ /\ row.claim # 0 /\ ~row.ready
          /\ CallTo(c, [pc |-> "role", claim |-> row.claim]) /\ UNCHANGED given
    /\ UNCHANGED <<row, claims, role, base, late>>

\* CREATE ROLE, or the role that is there brought to the row's password and LOGIN.
CreateRole(c) ==
    /\ call[c].pc = "role"
    /\ role' = [role EXCEPT !.pw = call[c].claim, !.login = TRUE]
    /\ CallPc(c, "grant") /\ Worked(c)
    /\ UNCHANGED <<row, claims, base, given>>

Grant(c) ==
    /\ call[c].pc = "grant" /\ role.pw # 0
    /\ role' = [role EXCEPT !.member = TRUE]
    /\ CallPc(c, "create") /\ Worked(c)
    /\ UNCHANGED <<row, claims, base, given>>

\* CREATE DATABASE; one that is there already is taken as it is.
CreateDatabase(c) ==
    /\ call[c].pc = "create" /\ role.member
    /\ base' = IF Standing THEN base
               ELSE [of |-> call[c].claim, granted |-> TRUE, marks |-> {}]
    /\ CallPc(c, "deed") /\ Worked(c)
    /\ UNCHANGED <<row, claims, role, given>>

\* The public schema, by a connection into the database.
Deed(c) ==
    /\ call[c].pc = "deed" /\ Standing
    /\ CallPc(c, "wall")
    /\ UNCHANGED <<row, claims, role, base, given, late>>

\* The statements on the database that follow, each at its step.
Mark(c, pc, next, marked) ==
    /\ call[c].pc = pc /\ Standing /\ role.pw # 0
    /\ base' = marked
    /\ CallPc(c, next) /\ Worked(c)
    /\ UNCHANGED <<row, claims, role, given>>
Wall(c) == Mark(c, "wall", "open", [base EXCEPT !.marks = @ \union {"walled"}])
Open(c) == Mark(c, "open", "timeouts", [base EXCEPT !.granted = TRUE])
Timeouts(c) == Mark(c, "timeouts", "stamp", [base EXCEPT !.marks = @ \union {"timeouts"}])
StampSkipped(c) == Mark(c, "stamp", "publish", base)
Stamp(c) == Mark(c, "stamp", "publish", [base EXCEPT !.marks = @ \union {"stamped"}])

\* The terminal marker, on the project's row whichever that is by now.
PublishReady(c) ==
    /\ call[c].pc = "publish"
    /\ IF row.claim = 0 THEN UNCHANGED <<row, given>>
       ELSE /\ row' = [row EXCEPT !.ready = TRUE]
            /\ given' = given \union {row.claim}
    /\ CallTo(c, NoCall) /\ Worked(c)
    /\ UNCHANGED <<claims, role, base>>

\* A statement that fails, or the API's death, ends the call where it is.
CallFails(c) ==
    /\ call[c].pc \notin {"idle", "claim"}
    /\ CallTo(c, NoCall)
    /\ UNCHANGED <<row, claims, role, base, given, late>>

CallStep(c) ==
    \/ Claim(c) \/ Await(c) \/ Read(c) \/ CreateRole(c) \/ Grant(c)
    \/ CreateDatabase(c) \/ Deed(c) \/ Wall(c) \/ Open(c) \/ Timeouts(c)
    \/ Stamp(c) \/ PublishReady(c)

----------------------------------------------------------------------------
\* The statements of sever and of restore_login, on a role and a database.

NoLogin == role.pw # 0 /\ role' = [role EXCEPT !.login = FALSE]
Revoke == Standing /\ role.pw # 0 /\ base' = [base EXCEPT !.granted = FALSE]
Evict == (inside => role.member) /\ inside' = FALSE

\* disable and enable hold the app row's lock from their UPDATE to their commit;
\* without a registry row there is no database to shut.
SwitchTo(pc) ==
    /\ switch' = pc
    /\ UNCHANGED <<project, row, claims, given, call, salt, recorded>>
AskDisable ==
    /\ switch = "idle" /\ app = "on"
    /\ SwitchTo(IF row.claim = 0 THEN "off" ELSE "nologin")
    /\ UNCHANGED <<app, role, base, inside, late>>
SeverLogin ==
    /\ switch = "nologin" /\ NoLogin
    /\ SwitchTo("revoke") /\ UNCHANGED <<app, base, inside, late>>
SeverConnectAndGo ==
    /\ switch = "revoke" /\ Revoke
    /\ SwitchTo("off") /\ UNCHANGED <<app, role, inside, late>>
SeverConnect ==
    /\ switch = "revoke" /\ Revoke
    /\ SwitchTo("evict") /\ UNCHANGED <<app, role, inside, late>>
SeverSessions ==
    /\ switch = "evict" /\ Evict
    /\ SwitchTo("off") /\ UNCHANGED <<app, role, base, late>>
CommitDisable ==
    /\ switch = "off"
    /\ app' = "off"
    /\ SwitchTo("idle") /\ UNCHANGED <<role, base, inside, late>>

AskEnable ==
    /\ switch = "idle" /\ app = "off"
    /\ SwitchTo(IF row.claim = 0 THEN "on" ELSE "grant")
    /\ UNCHANGED <<app, role, base, inside, late>>
RestoreConnect ==
    /\ switch = "grant" /\ Standing /\ role.pw # 0
    /\ base' = [base EXCEPT !.granted = TRUE]
    /\ SwitchTo("login") /\ UNCHANGED <<app, role, inside, late>>
RestoreLogin ==
    /\ switch = "login" /\ role.pw # 0
    /\ role' = [role EXCEPT !.login = TRUE]
    /\ SwitchTo("on") /\ UNCHANGED <<app, base, inside, late>>
CommitEnable ==
    /\ switch = "on"
    /\ app' = "on"
    /\ SwitchTo("idle") /\ UNCHANGED <<role, base, inside, late>>

\* A statement or the commit fails, and the status rolls back.
SwitchFails ==
    /\ switch # "idle"
    /\ late' = IF switch = "on" THEN late \union {"enable"} ELSE late
    /\ SwitchTo("idle") /\ UNCHANGED <<app, role, base, inside>>

SwitchStep ==
    \/ AskDisable \/ SeverLogin \/ SeverConnect \/ SeverSessions \/ CommitDisable
    \/ AskEnable \/ RestoreConnect \/ RestoreLogin \/ CommitEnable \/ SwitchFails

----------------------------------------------------------------------------
\* The deletes, and salt_the_earth after their commit.

SaltTo(d, rec) ==
    /\ salt' = [salt EXCEPT ![d] = rec]
    /\ UNCHANGED <<project, app, row, claims, given, call, switch, late>>
SaltPc(d, pc) == SaltTo(d, [salt[d] EXCEPT !.pc = pc])

\* The row is gone with the commit, and only then is anything destroyed.
Deleted(d) ==
    /\ salt[d].pc = "idle" /\ switch = "idle"
    /\ row' = NoRow
    /\ salt' = IF row.claim = 0 THEN salt
               ELSE [salt EXCEPT ![d] = [pc |-> "nologin", ok |-> TRUE]]
    /\ UNCHANGED <<claims, role, base, inside, given, call, switch, recorded, late>>

\* An administrator deletes the app; the project stays, and a build makes a new app.
HardDelete(d) ==
    /\ HardDeletes /\ app # "none"
    /\ app' = "none" /\ Deleted(d) /\ UNCHANGED project
NewApp ==
    /\ project /\ app = "none"
    /\ app' = "on"
    /\ UNCHANGED <<project, row, claims, role, base, inside, given, call, switch, salt,
                   recorded, late>>
DeleteProject(d) ==
    /\ project
    /\ project' = FALSE /\ app' = "none" /\ Deleted(d)

\* One statement of the sever under its best effort: what is gone already ends the
\* sever as done, and a failure ends it as failed; the drop follows either way.
SaltLogin(d) ==
    /\ salt[d].pc = "nologin"
    /\ \/ NoLogin /\ SaltPc(d, "revoke")
       \/ role.pw = 0 /\ SaltPc(d, "drop") /\ UNCHANGED role
    /\ UNCHANGED <<base, inside, recorded>>
SaltConnect(d) ==
    /\ salt[d].pc = "revoke"
    /\ \/ Revoke /\ SaltPc(d, "evict")
       \/ (~Standing \/ role.pw = 0) /\ SaltPc(d, "drop") /\ UNCHANGED base
    /\ UNCHANGED <<role, inside, recorded>>
SaltSessions(d) ==
    /\ salt[d].pc = "evict" /\ Evict
    /\ SaltPc(d, "drop") /\ UNCHANGED <<role, base, recorded>>
SaltStepFails(d) ==
    /\ salt[d].pc \in {"nologin", "revoke", "evict", "drop", "evictagain", "dropagain"}
    /\ SaltTo(d, [ok |-> FALSE,
                  pc |-> IF salt[d].pc \in {"nologin", "revoke", "evict"} THEN "drop"
                         ELSE "role"])
    /\ UNCHANGED <<role, base, inside, recorded>>

\* DROP DATABASE refuses while a session is inside: one more eviction, one more try.
SaltDrop(d) ==
    /\ salt[d].pc \in {"drop", "dropagain"}
    /\ IF inside
       THEN /\ salt[d].pc = "drop"
            /\ SaltPc(d, "evictagain") /\ UNCHANGED base
       ELSE base' = NoBase /\ SaltPc(d, "role")
    /\ UNCHANGED <<role, inside, recorded>>
SaltEvictAgain(d) ==
    /\ salt[d].pc = "evictagain"
    /\ inside /\ Evict
    /\ SaltPc(d, "dropagain") /\ UNCHANGED <<role, base, recorded>>

\* DROP ROLE refuses while the role owns a database; what a teardown leaves goes on
\* record, and a lost connection leaves all of it.
SaltRoleForgotten(d) ==
    /\ salt[d].pc = "role"
    /\ role' = IF Standing THEN role ELSE NoRole
    /\ recorded' = (recorded \/ ~salt[d].ok)
    /\ SaltTo(d, NoSalt) /\ UNCHANGED <<base, inside>>
SaltRole(d) ==
    /\ salt[d].pc = "role"
    /\ \/ ~Standing /\ role' = NoRole /\ recorded' = (recorded \/ ~salt[d].ok)
       \/ UNCHANGED role /\ recorded' = TRUE
    /\ SaltTo(d, NoSalt) /\ UNCHANGED <<base, inside>>
SaltUnreachedUnsaid(d) ==
    /\ salt[d].pc \notin {"idle", "dead"}
    /\ SaltTo(d, NoSalt) /\ UNCHANGED <<role, base, inside, recorded>>
SaltUnreached(d) ==
    /\ salt[d].pc \notin {"idle", "dead"}
    /\ recorded' = TRUE
    /\ SaltTo(d, NoSalt) /\ UNCHANGED <<role, base, inside>>

\* The API dies after the delete's commit: nothing takes the teardown up.
SaltDies(d) ==
    /\ salt[d].pc \notin {"idle", "dead"}
    /\ SaltPc(d, "dead") /\ UNCHANGED <<role, base, inside, recorded>>

SaltStep(d) ==
    \/ SaltLogin(d) \/ SaltConnect(d) \/ SaltSessions(d) \/ SaltStepFails(d)
    \/ SaltDrop(d) \/ SaltEvictAgain(d) \/ SaltRole(d) \/ SaltUnreached(d) \/ SaltDies(d)

----------------------------------------------------------------------------
\* The specification.

Next ==
    \/ Connect
    \/ \E c \in Calls : Ask(c) \/ CallStep(c) \/ CallFails(c)
    \/ SwitchStep
    \/ \E d \in Deleters : HardDelete(d) \/ DeleteProject(d) \/ SaltStep(d)
    \/ NewApp

Spec == Init /\ [][Next]_vars

----------------------------------------------------------------------------
\* Properties.

\* An app that is switched off is out of its database, and cannot get back in,
\* but for a provisioning that was still at work while it was switched off and an
\* enable that opened the door and did not commit.
DisabledMeansShut ==
    app = "off" /\ switch # "on" /\ row.claim # 0 /\ late \intersect {"call", "enable"} = {} =>
        ~inside /\ ~DoorOpen

\* A ready row names a database that is there, walled and stamped, and a role with
\* the row's own password, as long as no provisioning worked on what a delete was
\* taking down.
ReadyIsComplete ==
    row.ready /\ "call" \notin late =>
        /\ Standing /\ base.marks = Marks
        /\ role.pw = row.claim /\ role.member

\* A teardown that reports nothing left has left nothing, whatever provisioning
\* worked on beside it.
SaltTellsTheTruth ==
    [][\A d \in Deleters :
         salt[d].pc # "idle" /\ salt'[d].pc = "idle" /\ ~recorded' =>
             base'.of = 0 /\ role'.pw = 0]_vars

\* What a deleted project leaves on the cluster is on record, unless the API died
\* between the commit and the teardown, or a provisioning outlived its row.
NothingLeftUnrecorded ==
    /\ ~project /\ late = {} /\ ~recorded
    /\ \A c \in Calls : call[c].pc = "idle"
    /\ \A d \in Deleters : salt[d].pc = "idle"
    => ~Standing /\ role.pw = 0

\* A project whose app was deleted is built again on a clean database.
NextBuildGetsACleanDatabase == row.ready /\ Standing => base.of = row.claim
=============================================================================
