------------------------ MODULE ProjectDatabaseProofs ------------------------
(***************************************************************************)
(* What a project's database owes its project, for any number of           *)
(* provisioners and deletes and any number of claims: the invariant IInv,  *)
(* which says of every statement on the cluster how far its caller has     *)
(* come, and what follows from it.                                         *)
(***************************************************************************)
EXTENDS ProjectDatabase, TLAPS

----------------------------------------------------------------------------
\* The inductive invariant.

\* A provisioner at work holds the number of a claim that was made; a row exists
\* only with its project, and is ready only once claimed.
AtWork == {"role", "grant", "create", "deed", "wall", "open", "timeouts", "stamp", "publish"}
Numbered ==
    /\ row.claim <= claims
    /\ row.ready => row.claim # 0
    /\ ~project => row.claim = 0
    /\ \A c \in Calls : call[c].claim <= claims /\ (call[c].pc \in AtWork => call[c].claim # 0)

\* The switch moves away from the state the app is in.
SwitchHolds ==
    /\ switch \in {"nologin", "revoke", "evict", "off"} => app = "on"
    /\ switch \in {"grant", "login", "on"} => app = "off"

\* The role cannot log in from its NOLOGIN on, and nobody is inside once the
\* sessions are ended.
ShutOff ==
    late = {} =>
        /\ switch \in {"revoke", "evict"} => ~role.login
        /\ row.claim # 0 /\ (switch = "off" \/ (app = "off" /\ switch # "on")) =>
             ~role.login /\ ~inside

\* A teardown works on what no row names.
NobodyElses ==
    "call" \notin late =>
        \A d \in Deleters : salt[d].pc \notin {"idle", "dead"} => row.claim = 0

\* Without a row and without a teardown there is nothing on the cluster.
CleanedUp ==
    /\ late = {} /\ ~recorded /\ row.claim = 0
    /\ \A d \in Deleters : salt[d].pc = "idle"
    => ~Standing /\ role.pw = 0

\* How far a provisioner at this step has brought the cluster.
Brought(pc) ==
    /\ pc \in AtWork \ {"role"} => role.pw = row.claim
    /\ pc \in AtWork \ {"role", "grant"} => role.member
    /\ pc \in AtWork \ {"role", "grant", "create"} => Standing
    /\ pc \in {"open", "timeouts", "stamp", "publish"} => "walled" \in base.marks
    /\ pc \in {"stamp", "publish"} => "timeouts" \in base.marks
    /\ pc = "publish" => "stamped" \in base.marks
Provisioned ==
    "call" \notin late =>
        \A c \in Calls : row.claim # 0 /\ call[c].claim = row.claim => Brought(call[c].pc)

IInv ==
    /\ TypeOK /\ Numbered /\ SwitchHolds /\ ShutOff /\ NobodyElses /\ CleanedUp
    /\ Provisioned /\ ReadyIsComplete

----------------------------------------------------------------------------
\* Types and the initial state.

LEMMA EmptyTypes ==
    /\ 0 \in Claims /\ Claims \subseteq Nat
    /\ NoRow \in [claim : Claims, ready : BOOLEAN]
    /\ NoRole \in [pw : Claims, login : BOOLEAN, member : BOOLEAN]
    /\ NoBase \in [of : Claims, granted : BOOLEAN, marks : SUBSET Marks]
    /\ NoCall \in [pc : CallPCs, claim : Claims]
    /\ NoSalt \in [pc : SaltPCs, ok : BOOLEAN]
<1>1. 0 \in Claims /\ Claims \subseteq Nat
  BY ProjectDatabaseAssumption DEF Claims
<1>2. NoRow \in [claim : Claims, ready : BOOLEAN] /\ NoCall \in [pc : CallPCs, claim : Claims]
  BY <1>1 DEF NoRow, NoCall, CallPCs
<1>3. NoRole \in [pw : Claims, login : BOOLEAN, member : BOOLEAN]
  BY <1>1 DEF NoRole
<1>4. /\ NoBase \in [of : Claims, granted : BOOLEAN, marks : SUBSET Marks]
      /\ NoSalt \in [pc : SaltPCs, ok : BOOLEAN]
  BY <1>1 DEF NoBase, NoSalt, SaltPCs
<1> QED
  BY <1>1, <1>2, <1>3, <1>4

LEMMA InitIInv == Init => IInv
<1> SUFFICES ASSUME Init PROVE IInv
  OBVIOUS
<1>1. TypeOK
  BY EmptyTypes DEF Init, TypeOK, SwitchPCs
<1>2. Numbered /\ SwitchHolds /\ ShutOff /\ NobodyElses
  BY DEF Init, Numbered, SwitchHolds, ShutOff, NobodyElses, NoRow, NoCall, NoSalt, AtWork
<1>3. row.claim = 0 /\ ~row.ready /\ base.of = 0 /\ role.pw = 0
  BY DEF Init, NoRow, NoRole, NoBase
<1>4. CleanedUp /\ Provisioned /\ ReadyIsComplete
  BY <1>3 DEF CleanedUp, Provisioned, ReadyIsComplete, Standing
<1> QED
  BY <1>1, <1>2, <1>4 DEF IInv

----------------------------------------------------------------------------
\* The switch.

LEMMA SwitchTypes == ASSUME IInv, SwitchStep PROVE TypeOK' /\ Numbered' /\ SwitchHolds'
<1>1. /\ UNCHANGED <<project, row, claims, given, call, salt, recorded>>
      /\ switch' \in SwitchPCs
      /\ late' \subseteq {"call", "enable"}
      /\ app' \in {"on", "off", "none"}
      /\ inside' \in BOOLEAN
  BY DEF IInv, TypeOK, SwitchStep, AskDisable, SeverLogin, SeverConnect, SeverSessions,
         CommitDisable, AskEnable, RestoreConnect, RestoreLogin, CommitEnable, SwitchFails,
         SwitchTo, SwitchPCs, Evict
<1>2. role' \in [pw : Claims, login : BOOLEAN, member : BOOLEAN]
  BY DEF IInv, TypeOK, SwitchStep, AskDisable, SeverLogin, SeverConnect, SeverSessions,
         CommitDisable, AskEnable, RestoreConnect, RestoreLogin, CommitEnable, SwitchFails, NoLogin
<1>3. base' \in [of : Claims, granted : BOOLEAN, marks : SUBSET Marks]
  BY DEF IInv, TypeOK, SwitchStep, AskDisable, SeverLogin, SeverConnect, SeverSessions,
         CommitDisable, AskEnable, RestoreConnect, RestoreLogin, CommitEnable, SwitchFails, Revoke
<1>4. TypeOK' /\ Numbered'
  BY <1>1, <1>2, <1>3 DEF IInv, TypeOK, Numbered
<1>5. SwitchHolds'
  BY DEF IInv, SwitchHolds, SwitchStep, AskDisable, SeverLogin, SeverConnect, SeverSessions,
         CommitDisable, AskEnable, RestoreConnect, RestoreLogin, CommitEnable, SwitchFails, SwitchTo
<1> QED
  BY <1>4, <1>5

\* What a statement of the switch does to the role and the database: it moves the
\* login and the grant, and nothing else.
LEMMA SwitchMoves ==
    ASSUME IInv, SwitchStep
    PROVE  /\ role'.pw = role.pw /\ role'.member = role.member
           /\ base'.of = base.of /\ base'.marks = base.marks
           /\ UNCHANGED <<project, row, claims, given, call, salt, recorded>>
           /\ "call" \in late <=> "call" \in late'
           /\ late' = {} => late = {}
<1>1. /\ role \in [pw : Claims, login : BOOLEAN, member : BOOLEAN]
      /\ base \in [of : Claims, granted : BOOLEAN, marks : SUBSET Marks]
  BY DEF IInv, TypeOK
<1> QED
  BY <1>1 DEF SwitchStep, AskDisable, SeverLogin, SeverConnect, SeverSessions,
         CommitDisable, AskEnable, RestoreConnect, RestoreLogin, CommitEnable, SwitchFails,
         SwitchTo, NoLogin, Revoke

LEMMA SwitchShuts == ASSUME IInv, SwitchStep PROVE ShutOff'
<1>1. /\ role \in [pw : Claims, login : BOOLEAN, member : BOOLEAN]
      /\ base \in [of : Claims, granted : BOOLEAN, marks : SUBSET Marks]
      /\ SwitchHolds /\ ShutOff
  BY DEF IInv, TypeOK
<1>2. CASE AskDisable \/ SeverLogin \/ SeverConnect \/ SeverSessions \/ CommitDisable
  BY <1>1, <1>2 DEF AskDisable, SeverLogin, SeverConnect, SeverSessions, CommitDisable,
       SwitchTo, NoLogin, Revoke, Evict, SwitchHolds, ShutOff
<1>3. CASE AskEnable \/ RestoreConnect \/ RestoreLogin \/ CommitEnable \/ SwitchFails
  BY <1>1, <1>3 DEF AskEnable, RestoreConnect, RestoreLogin, CommitEnable, SwitchFails,
       SwitchTo, SwitchHolds, ShutOff
<1> QED
  BY <1>2, <1>3 DEF SwitchStep

LEMMA SwitchKeeps == ASSUME IInv, SwitchStep PROVE IInv'
<1>1. NobodyElses' /\ CleanedUp'
  BY SwitchMoves DEF IInv, NobodyElses, CleanedUp, Standing
<1>2. Provisioned' /\ ReadyIsComplete'
  BY SwitchMoves DEF IInv, Provisioned, Brought, ReadyIsComplete, Standing
<1> QED
  BY <1>1, <1>2, SwitchTypes, SwitchShuts DEF IInv

----------------------------------------------------------------------------
\* The deletes and their teardowns.

\* What a statement of a teardown does: it only closes and removes, and the one that
\* ends a teardown leaves nothing or says so.
LEMMA SaltMoves ==
    ASSUME IInv, NEW d \in Deleters, SaltStep(d)
    PROVE  /\ UNCHANGED <<project, app, row, claims, given, call, switch, late>>
           /\ salt[d].pc \notin {"idle", "dead"}
           /\ \A e \in Deleters : e # d => salt'[e] = salt[e]
           /\ role' \in {role, [role EXCEPT !.login = FALSE], NoRole}
           /\ base' \in {base, [base EXCEPT !.granted = FALSE], NoBase}
           /\ inside' \in {inside, FALSE}
           /\ recorded' \in {recorded, TRUE, recorded \/ ~salt[d].ok}
           /\ salt'[d].pc = "idle" /\ ~recorded' => role'.pw = 0 /\ ~Standing'
<1>1. /\ salt \in [Deleters -> [pc : SaltPCs, ok : BOOLEAN]] /\ NoRole.pw = 0
      /\ recorded \in BOOLEAN /\ inside \in BOOLEAN
  BY DEF IInv, TypeOK, NoRole
<1>2. CASE SaltLogin(d)
  BY <1>1, <1>2 DEF SaltLogin, SaltPc, SaltTo, NoLogin
<1>5. CASE SaltConnect(d)
  BY <1>1, <1>5 DEF SaltConnect, SaltPc, SaltTo, Revoke
<1>6. CASE SaltSessions(d)
  BY <1>1, <1>6 DEF SaltSessions, SaltPc, SaltTo, Evict
<1>7. CASE SaltStepFails(d)
  BY <1>1, <1>7 DEF SaltStepFails, SaltTo
<1>3. CASE SaltDrop(d) \/ SaltEvictAgain(d) \/ SaltDies(d)
  BY <1>1, <1>3 DEF SaltDrop, SaltEvictAgain, SaltDies, SaltPc, SaltTo, Evict
<1>4. CASE SaltRole(d) \/ SaltUnreached(d)
  BY <1>1, <1>4 DEF SaltRole, SaltUnreached, SaltTo, Standing
<1> QED
  BY <1>2, <1>3, <1>4, <1>5, <1>6, <1>7 DEF SaltStep

LEMMA SaltTypes == ASSUME IInv, NEW d \in Deleters, SaltStep(d) PROVE TypeOK'
<1>1. /\ UNCHANGED <<project, app, row, claims, given, call, switch, late>>
      /\ recorded' \in BOOLEAN /\ inside' \in BOOLEAN
  BY SaltMoves DEF IInv, TypeOK
<1>2. role' \in [pw : Claims, login : BOOLEAN, member : BOOLEAN]
  <2>1. role \in [pw : Claims, login : BOOLEAN, member : BOOLEAN]
    BY DEF IInv, TypeOK
  <2> QED
    BY <2>1, SaltMoves, EmptyTypes
<1>3. base' \in [of : Claims, granted : BOOLEAN, marks : SUBSET Marks]
  <2>1. base \in [of : Claims, granted : BOOLEAN, marks : SUBSET Marks]
    BY DEF IInv, TypeOK
  <2> QED
    BY <2>1, SaltMoves, EmptyTypes
<1>4. salt' \in [Deleters -> [pc : SaltPCs, ok : BOOLEAN]]
  <2>1. ASSUME NEW rec \in [pc : SaltPCs, ok : BOOLEAN], SaltTo(d, rec)
        PROVE  salt' \in [Deleters -> [pc : SaltPCs, ok : BOOLEAN]]
    BY <2>1 DEF IInv, TypeOK, SaltTo
  <2>2. ASSUME NEW pc \in SaltPCs, SaltPc(d, pc)
        PROVE  salt' \in [Deleters -> [pc : SaltPCs, ok : BOOLEAN]]
    <3>1. [salt[d] EXCEPT !.pc = pc] \in [pc : SaltPCs, ok : BOOLEAN]
      BY DEF IInv, TypeOK
    <3> QED
      BY <2>1, <2>2, <3>1 DEF SaltPc
  <2>3. NoSalt \in [pc : SaltPCs, ok : BOOLEAN]
    BY DEF NoSalt, SaltPCs
  <2>4. \A pc \in {"drop", "role"} : [ok |-> FALSE, pc |-> pc] \in [pc : SaltPCs, ok : BOOLEAN]
    BY DEF SaltPCs
  <2>5. {"revoke", "drop", "evict", "evictagain", "role", "dropagain", "dead"} \subseteq SaltPCs
    BY DEF SaltPCs
  <2>6. CASE SaltStepFails(d)
    BY <2>1, <2>4, <2>6 DEF SaltStepFails
  <2>7. CASE SaltRole(d) \/ SaltUnreached(d)
    BY <2>1, <2>3, <2>7 DEF SaltRole, SaltUnreached
  <2>8. CASE SaltLogin(d) \/ SaltConnect(d) \/ SaltSessions(d) \/ SaltDrop(d)
             \/ SaltEvictAgain(d) \/ SaltDies(d)
    BY <2>2, <2>5, <2>8 DEF SaltLogin, SaltConnect, SaltSessions, SaltDrop, SaltEvictAgain, SaltDies
  <2> QED
    BY <2>6, <2>7, <2>8 DEF SaltStep
<1> QED
  BY <1>1, <1>2, <1>3, <1>4 DEF IInv, TypeOK

LEMMA SaltKeeps == ASSUME IInv, NEW d \in Deleters, SaltStep(d) PROVE IInv'
<1>1. TypeOK' /\ Numbered' /\ SwitchHolds'
  BY SaltTypes, SaltMoves DEF IInv, Numbered, SwitchHolds
<1>2. (role'.login => role.login) /\ (inside' => inside)
  <2>1. role \in [pw : Claims, login : BOOLEAN, member : BOOLEAN] /\ inside \in BOOLEAN
    BY DEF IInv, TypeOK
  <2>2. ~NoRole.login
    BY DEF NoRole
  <2>3. CASE role' = [role EXCEPT !.login = FALSE]
    BY <2>1, <2>3, SaltMoves
  <2> QED
    BY <2>1, <2>2, <2>3, SaltMoves
<1>3. ShutOff' /\ NobodyElses'
  BY <1>2, SaltMoves DEF IInv, ShutOff, NobodyElses
<1>4. CleanedUp'
  BY SaltMoves DEF IInv, CleanedUp
<1>5. "call" \notin late => row.claim = 0 /\ ~row.ready
  BY SaltMoves DEF IInv, NobodyElses, Numbered
<1>6. Provisioned' /\ ReadyIsComplete'
  BY <1>5, SaltMoves DEF Provisioned, ReadyIsComplete
<1> QED
  BY <1>1, <1>3, <1>4, <1>6 DEF IInv

\* A delete takes the row away, and with it what the invariant says of it.
LEMMA DeleteKeeps ==
    ASSUME IInv, NEW d \in Deleters, HardDelete(d) \/ DeleteProject(d)
    PROVE  IInv'
<1>1. /\ salt[d].pc = "idle" /\ switch = "idle" /\ row' = NoRow
      /\ salt' = IF row.claim = 0 THEN salt
                  ELSE [salt EXCEPT ![d] = [pc |-> "nologin", ok |-> TRUE]]
      /\ UNCHANGED <<claims, role, base, inside, given, call, switch, recorded, late>>
      /\ project' \in {project, FALSE} /\ app' = "none"
  BY DEF HardDelete, DeleteProject, Deleted
<1>2. row'.claim = 0 /\ ~row'.ready
  BY <1>1 DEF NoRow
<1>3. [pc |-> "nologin", ok |-> TRUE] \in [pc : SaltPCs, ok : BOOLEAN]
  BY DEF SaltPCs
<1>4. TypeOK'
  BY <1>1, <1>3, EmptyTypes DEF IInv, TypeOK
<1>5. Numbered' /\ SwitchHolds' /\ ShutOff' /\ NobodyElses'
  BY <1>1, <1>2, EmptyTypes DEF IInv, TypeOK, Numbered, SwitchHolds, ShutOff, NobodyElses
<1>6. CleanedUp'
  <2>1. CASE row.claim = 0
    BY <1>1, <2>1 DEF IInv, CleanedUp, Standing
  <2>2. CASE row.claim # 0
    <3>1. salt'[d].pc = "nologin"
      BY <1>1, <2>2 DEF IInv, TypeOK
    <3> QED
      BY <3>1 DEF CleanedUp
  <2> QED
    BY <2>1, <2>2
<1>7. Provisioned' /\ ReadyIsComplete'
  BY <1>2 DEF Provisioned, ReadyIsComplete
<1> QED
  BY <1>4, <1>5, <1>6, <1>7 DEF IInv

----------------------------------------------------------------------------
\* The provisioners.

\* A step of a provisioner that moves no statement.
LEMMA CallWaits ==
    ASSUME IInv, NEW c \in Calls, NEW rec \in [pc : CallPCs, claim : Claims], CallTo(c, rec),
           UNCHANGED <<row, claims, role, base, late>>,
           given' \subseteq given \union {row.claim}, given' # given => row.ready,
           rec.claim <= claims, rec.pc \in AtWork => rec.claim # 0,
           rec.pc \in AtWork \ {"role"} => call[c].pc \in {"deed"} /\ rec.pc = "wall"
                                            /\ rec.claim = call[c].claim
    PROVE  IInv'
<1>1. /\ call' = [call EXCEPT ![c] = rec]
      /\ UNCHANGED <<project, app, inside, switch, salt, recorded>>
      /\ call \in [Calls -> [pc : CallPCs, claim : Claims]]
  BY DEF CallTo, IInv, TypeOK
<1>2. call'[c] = rec /\ \A e \in Calls : e # c => call'[e] = call[e]
  BY <1>1
<1>3. given' \subseteq 1 .. MaxClaims
  <2>1. row.ready => row.claim \in 1 .. MaxClaims
    BY ProjectDatabaseAssumption DEF IInv, TypeOK, Numbered, Claims
  <2>2. given \subseteq 1 .. MaxClaims
    BY DEF IInv, TypeOK
  <2>3. CASE given' = given
    BY <2>2, <2>3
  <2>4. CASE given' # given
    BY <2>1, <2>2, <2>4
  <2> QED
    BY <2>3, <2>4
<1>4. TypeOK' /\ Numbered' /\ SwitchHolds'
  BY <1>1, <1>2, <1>3 DEF IInv, TypeOK, Numbered, SwitchHolds
<1>5. ShutOff' /\ NobodyElses' /\ CleanedUp' /\ ReadyIsComplete'
  BY <1>1 DEF IInv, ShutOff, NobodyElses, CleanedUp, ReadyIsComplete, Standing
<1>6. Provisioned'
  BY <1>1, <1>2 DEF IInv, Provisioned, Brought, Standing, AtWork
<1> QED
  BY <1>4, <1>5, <1>6 DEF IInv

\* What a provisioner may find while it works, if it is not to count as late.
Undisturbed(c) ==
    /\ app # "off" /\ switch = "idle"
    /\ \A d \in Deleters : salt[d].pc \in {"idle", "dead"}
    /\ row.claim # 0 /\ row.claim = call[c].claim

\* A statement on the cluster: what it must do is bring the cluster from one step to
\* the next, and take nothing from the other provisioners of the same claim.
LEMMA StatementKeeps ==
    ASSUME IInv, NEW c \in Calls, NEW next \in AtWork, call[c].pc \in AtWork,
           CallPc(c, next), Worked(c), UNCHANGED <<row, claims, given>>,
           role' \in [pw : Claims, login : BOOLEAN, member : BOOLEAN],
           base' \in [of : Claims, granted : BOOLEAN, marks : SUBSET Marks],
           Undisturbed(c) =>
               /\ role.pw = row.claim => role'.pw = row.claim
               /\ role.member => role'.member
               /\ Standing => Standing'
               /\ Standing \/ base.marks = {} => base.marks \subseteq base'.marks,
           Undisturbed(c) /\ Brought(call[c].pc) => Brought(next)'
    PROVE  IInv'
<1> DEFINE rec == [call[c] EXCEPT !.pc = next]
<1>1. /\ call' = [call EXCEPT ![c] = rec]
      /\ UNCHANGED <<project, app, inside, switch, salt, recorded, row, claims, given>>
      /\ call \in [Calls -> [pc : CallPCs, claim : Claims]]
  BY DEF CallPc, CallTo, IInv, TypeOK
<1>2. /\ rec \in [pc : CallPCs, claim : Claims]
      /\ rec.pc = next /\ rec.claim = call[c].claim /\ call[c].claim # 0
  BY <1>1 DEF AtWork, CallPCs, IInv, Numbered
<1> HIDE DEF rec
<1>3. call'[c] = rec /\ \A e \in Calls : e # c => call'[e] = call[e]
  BY <1>1
<1>4. late' \in {late, late \union {"call"}} /\ ("call" \in late' \/ (late' = late /\ Undisturbed(c)))
  BY <1>2 DEF Worked, Late, Undisturbed
<1>5. TypeOK' /\ Numbered' /\ SwitchHolds'
  BY <1>1, <1>2, <1>3, <1>4 DEF IInv, TypeOK, Numbered, SwitchHolds
<1>6. CASE "call" \in late'
  BY <1>5, <1>6 DEF IInv, ShutOff, NobodyElses, CleanedUp, Provisioned, ReadyIsComplete
<1>7. CASE late' = late /\ Undisturbed(c) /\ "call" \notin late
  <2>1. ShutOff' /\ NobodyElses' /\ CleanedUp'
    BY <1>1, <1>7 DEF Undisturbed, ShutOff, NobodyElses, CleanedUp
  <2>2. ReadyIsComplete'
    BY <1>1, <1>7 DEF IInv, TypeOK, ReadyIsComplete
  <2>3. Brought(next)'
    BY <1>7 DEF IInv, Provisioned, Undisturbed
  <2>4. ASSUME NEW e \in Calls, e # c, call'[e].claim = row.claim
        PROVE  Brought(call[e].pc)'
    <3>1. call'[e] = call[e] /\ Brought(call[e].pc)
      BY <1>3, <1>7, <2>4 DEF IInv, Provisioned, Undisturbed
    <3> QED
      BY <1>1, <1>7, <3>1 DEF Brought, AtWork
  <2>5. ASSUME NEW e \in Calls, row'.claim # 0, call'[e].claim = row'.claim
        PROVE  Brought(call[e].pc)'
    <3>1. CASE e = c
      BY <1>2, <1>3, <2>3, <3>1 DEF Brought
    <3> QED
      BY <1>1, <2>4, <2>5, <3>1
  <2> QED
    BY <1>5, <2>1, <2>2, <2>5 DEF IInv, Provisioned
<1> QED
  BY <1>4, <1>6, <1>7

LEMMA ClusterTypes ==
    ASSUME IInv
    PROVE  /\ role \in [pw : Claims, login : BOOLEAN, member : BOOLEAN]
           /\ base \in [of : Claims, granted : BOOLEAN, marks : SUBSET Marks]
           /\ row \in [claim : Claims, ready : BOOLEAN]
           /\ \A c \in Calls : call[c] \in [pc : CallPCs, claim : Claims]
  BY DEF IInv, TypeOK

LEMMA RoleSteps ==
    ASSUME IInv, NEW c \in Calls, CreateRole(c) \/ Grant(c)
    PROVE  IInv'
<1>1. CASE CreateRole(c)
  <2>1. role' = [role EXCEPT !.pw = call[c].claim, !.login = TRUE] /\ UNCHANGED base
    BY <1>1 DEF CreateRole
  <2>2. /\ role' \in [pw : Claims, login : BOOLEAN, member : BOOLEAN]
        /\ role'.pw = call[c].claim /\ role'.member = role.member
    BY <2>1, ClusterTypes
  <2>3. "grant" \in AtWork /\ call[c].pc \in AtWork /\ CallPc(c, "grant") /\ Worked(c)
        /\ UNCHANGED <<row, claims, given>>
    BY <1>1 DEF CreateRole, AtWork
  <2>4. /\ Undisturbed(c) => (role.pw = row.claim => role'.pw = row.claim)
        /\ Undisturbed(c) => Brought("grant")'
    BY <2>2, <2>3 DEF Undisturbed, Brought, AtWork
  <2> QED
    BY <2>1, <2>2, <2>3, <2>4, ClusterTypes, StatementKeeps DEF Standing
<1>2. CASE Grant(c)
  <2>1. role' = [role EXCEPT !.member = TRUE] /\ UNCHANGED base
    BY <1>2 DEF Grant
  <2>2. /\ role' \in [pw : Claims, login : BOOLEAN, member : BOOLEAN]
        /\ role'.pw = role.pw /\ role'.member
    BY <2>1, ClusterTypes
  <2>3. "create" \in AtWork /\ call[c].pc = "grant" /\ call[c].pc \in AtWork
        /\ CallPc(c, "create") /\ Worked(c) /\ UNCHANGED <<row, claims, given>>
    BY <1>2 DEF Grant, AtWork
  <2>4. Brought("grant") => Brought("create")'
    BY <2>2, <2>3 DEF Brought, AtWork
  <2> QED
    BY <2>1, <2>2, <2>3, <2>4, ClusterTypes, StatementKeeps DEF Standing
<1> QED
  BY <1>1, <1>2

LEMMA CreateStep == ASSUME IInv, NEW c \in Calls, CreateDatabase(c) PROVE IInv'
<1> DEFINE new == [of |-> call[c].claim, granted |-> TRUE, marks |-> {}]
<1>1. /\ UNCHANGED role /\ base' = IF Standing THEN base ELSE new
      /\ "deed" \in AtWork /\ call[c].pc = "create" /\ call[c].pc \in AtWork /\ role.member
      /\ CallPc(c, "deed") /\ Worked(c) /\ UNCHANGED <<row, claims, given>>
  BY DEF CreateDatabase, AtWork
<1>2. /\ new \in [of : Claims, granted : BOOLEAN, marks : SUBSET Marks] /\ new.of = call[c].claim
      /\ new.marks = {}
  BY ClusterTypes
<1> HIDE DEF new
<1>3. base' \in [of : Claims, granted : BOOLEAN, marks : SUBSET Marks]
  BY <1>1, <1>2, ClusterTypes
<1>4. Undisturbed(c) => Standing' /\ (Standing \/ base.marks = {} => base.marks \subseteq base'.marks)
  BY <1>1, <1>2 DEF Undisturbed, Standing
<1>5. Undisturbed(c) /\ Brought("create") => Brought("deed")'
  BY <1>1, <1>4 DEF Brought, AtWork
<1> QED
  BY <1>1, <1>3, <1>4, <1>5, ClusterTypes, StatementKeeps

\* A statement on the standing database that only adds to its marks.
LEMMA MarkKeeps ==
    ASSUME IInv, NEW c \in Calls, NEW pc \in AtWork, NEW next \in AtWork, NEW marked,
           Mark(c, pc, next, marked),
           marked \in [of : Claims, granted : BOOLEAN, marks : SUBSET Marks],
           marked.of = base.of, base.marks \subseteq marked.marks,
           Brought(pc) /\ role' = role /\ row' = row /\ base' = marked => Brought(next)'
    PROVE  IInv'
<1>1. /\ call[c].pc = pc /\ base' = marked /\ CallPc(c, next) /\ Worked(c)
      /\ UNCHANGED <<row, claims, role, given>>
  BY DEF Mark
<1> QED
  BY <1>1, ClusterTypes, StatementKeeps DEF Standing

LEMMA MarkSteps ==
    ASSUME IInv, NEW c \in Calls, Wall(c) \/ Open(c) \/ Timeouts(c) \/ Stamp(c)
    PROVE  IInv'
<1> DEFINE Marked(m) == [base EXCEPT !.marks = @ \union {m}]
           opened == [base EXCEPT !.granted = TRUE]
<1>1. ASSUME NEW m \in Marks
      PROVE  /\ Marked(m) \in [of : Claims, granted : BOOLEAN, marks : SUBSET Marks]
             /\ Marked(m).of = base.of /\ Marked(m).marks = base.marks \union {m}
  BY ClusterTypes
<1>2. /\ opened \in [of : Claims, granted : BOOLEAN, marks : SUBSET Marks]
      /\ opened.of = base.of /\ opened.marks = base.marks
  BY ClusterTypes
<1>3. /\ {"walled", "timeouts", "stamped"} \subseteq Marks
      /\ {"wall", "open", "timeouts", "stamp", "publish"} \subseteq AtWork
  BY DEF Marks, AtWork
<1>4. /\ Wall(c) => Mark(c, "wall", "open", Marked("walled"))
      /\ Open(c) => Mark(c, "open", "timeouts", opened)
      /\ Timeouts(c) => Mark(c, "timeouts", "stamp", Marked("timeouts"))
      /\ Stamp(c) => Mark(c, "stamp", "publish", Marked("stamped"))
  BY DEF Wall, Open, Timeouts, Stamp
<1> HIDE DEF Marked, opened
<1>5. CASE Wall(c)
  <2>1. Brought("wall") /\ role' = role /\ row' = row /\ base' = Marked("walled") => Brought("open")'
    BY <1>1, <1>3 DEF Brought, AtWork, Standing
  <2> QED
    BY <1>1, <1>3, <1>4, <1>5, <2>1, MarkKeeps
<1>6. CASE Open(c)
  <2>1. Brought("open") /\ role' = role /\ row' = row /\ base' = opened => Brought("timeouts")'
    BY <1>2 DEF Brought, AtWork, Standing
  <2> QED
    BY <1>2, <1>3, <1>4, <1>6, <2>1, MarkKeeps
<1>7. CASE Timeouts(c)
  <2>1. Brought("timeouts") /\ role' = role /\ row' = row /\ base' = Marked("timeouts")
          => Brought("stamp")'
    BY <1>1, <1>3 DEF Brought, AtWork, Standing
  <2> QED
    BY <1>1, <1>3, <1>4, <1>7, <2>1, MarkKeeps
<1>8. CASE Stamp(c)
  <2>1. Brought("stamp") /\ role' = role /\ row' = row /\ base' = Marked("stamped")
          => Brought("publish")'
    BY <1>1, <1>3 DEF Brought, AtWork, Standing
  <2> QED
    BY <1>1, <1>3, <1>4, <1>8, <2>1, MarkKeeps
<1> QED
  BY <1>5, <1>6, <1>7, <1>8

LEMMA PcTypes ==
    ASSUME IInv, NEW c \in Calls, NEW pc \in CallPCs
    PROVE  /\ [call[c] EXCEPT !.pc = pc] \in [pc : CallPCs, claim : Claims]
           /\ [call[c] EXCEPT !.pc = pc].pc = pc
           /\ [call[c] EXCEPT !.pc = pc].claim = call[c].claim
           /\ call[c].claim <= claims
  BY ClusterTypes DEF IInv, Numbered

LEMMA WaitSteps ==
    ASSUME IInv, NEW c \in Calls, Ask(c) \/ Await(c) \/ Read(c) \/ Deed(c) \/ CallFails(c)
    PROVE  IInv'
<1>1. /\ NoCall \in [pc : CallPCs, claim : Claims] /\ NoCall.pc = "idle" /\ NoCall.claim = 0
      /\ 0 <= claims /\ row.claim \in Claims /\ row.claim <= claims
      /\ "idle" \notin AtWork /\ "claim" \notin AtWork /\ "read" \notin AtWork
      /\ {"claim", "read", "wall", "role"} \subseteq CallPCs
  BY EmptyTypes, ClusterTypes DEF NoCall, AtWork, CallPCs, IInv, TypeOK, Numbered
<1>2. CASE Ask(c)
  <2>1. call[c] \in [pc : CallPCs, claim : Claims] /\ call[c].claim <= claims /\ call[c].pc = "idle"
    BY <1>2, ClusterTypes DEF IInv, Numbered, Ask
  <2>2. CASE row.ready
    <3>1. CallTo(c, call[c])
      BY <1>2, <2>2 DEF Ask, CallTo, IInv, TypeOK
    <3> QED
      BY <1>1, <1>2, <2>1, <2>2, <3>1, CallWaits DEF Ask
  <2>3. CASE ~row.ready
    <3>1. CallTo(c, [call[c] EXCEPT !.pc = "claim"])
      BY <1>2, <2>3 DEF Ask, CallTo
    <3> DEFINE rec == [call[c] EXCEPT !.pc = "claim"]
    <3>2. rec \in [pc : CallPCs, claim : Claims] /\ rec.pc = "claim" /\ rec.claim <= claims
      BY <1>1, PcTypes
    <3> HIDE DEF rec
    <3>3. CallTo(c, rec) /\ UNCHANGED <<row, claims, role, base, given, late>>
      BY <1>2, <2>3, <3>1 DEF Ask, rec
    <3> QED
      BY <1>1, <3>2, <3>3, CallWaits
  <2> QED
    BY <2>2, <2>3
<1>3. CASE /\ CallTo(c, NoCall) /\ UNCHANGED <<row, claims, role, base, late>>
           /\ given' = given \/ (row.ready /\ given' = given \union {row.claim})
  BY <1>1, <1>3, CallWaits
<1>4. CASE /\ CallPc(c, "read") /\ UNCHANGED <<row, claims, role, base, given, late>>
  <2> DEFINE rec == [call[c] EXCEPT !.pc = "read"]
  <2>1. rec \in [pc : CallPCs, claim : Claims] /\ rec.pc = "read" /\ rec.claim <= claims
    BY <1>1, PcTypes
  <2>2. CallTo(c, rec)
    BY <1>4 DEF CallPc
  <2> HIDE DEF rec
  <2> QED
    BY <1>1, <1>4, <2>1, <2>2, CallWaits
<1>5. CASE /\ row.claim # 0 /\ CallTo(c, [pc |-> "role", claim |-> row.claim])
           /\ UNCHANGED <<row, claims, role, base, given, late>>
  <2> DEFINE rec == [pc |-> "role", claim |-> row.claim]
  <2>1. rec \in [pc : CallPCs, claim : Claims] /\ rec.pc = "role" /\ rec.claim = row.claim
    BY <1>1
  <2> HIDE DEF rec
  <2> QED
    BY <1>1, <1>5, <2>1, CallWaits DEF rec
<1>6. CASE Deed(c)
  <2> DEFINE rec == [call[c] EXCEPT !.pc = "wall"]
  <2>1. rec \in [pc : CallPCs, claim : Claims] /\ rec.pc = "wall" /\ rec.claim = call[c].claim
        /\ rec.claim <= claims
    BY <1>1, PcTypes
  <2>2. CallTo(c, rec) /\ call[c].pc = "deed" /\ UNCHANGED <<row, claims, role, base, given, late>>
    BY <1>6 DEF Deed, CallPc
  <2>3. call[c].claim # 0
    BY <2>2 DEF IInv, Numbered, AtWork
  <2> HIDE DEF rec
  <2> QED
    BY <2>1, <2>2, <2>3, CallWaits
<1> QED
  BY <1>2, <1>3, <1>4, <1>5, <1>6 DEF Await, Read, CallFails

\* A claim that is won numbers the row anew: no provisioner is at work for it yet.
LEMMA ClaimStep == ASSUME IInv, NEW c \in Calls, Claim(c) PROVE IInv'
<1>1. /\ row.claim \in Claims /\ row.claim <= claims /\ claims \in Nat /\ 0 <= claims
      /\ NoCall \in [pc : CallPCs, claim : Claims] /\ NoCall.pc = "idle" /\ NoCall.claim = 0
      /\ {"await", "read"} \subseteq CallPCs /\ AtWork \intersect {"idle", "await", "read"} = {}
  BY EmptyTypes, ClusterTypes DEF NoCall, AtWork, CallPCs, IInv, TypeOK, Numbered
<1>2. CASE CallPc(c, "await") /\ UNCHANGED <<row, claims, role, base, given, late>>
  <2> DEFINE rec == [call[c] EXCEPT !.pc = "await"]
  <2>1. rec \in [pc : CallPCs, claim : Claims] /\ rec.pc = "await" /\ rec.claim <= claims
    BY <1>1, PcTypes
  <2>2. CallTo(c, rec)
    BY <1>2 DEF CallPc
  <2> HIDE DEF rec
  <2> QED
    BY <1>1, <1>2, <2>1, <2>2, CallWaits
<1>3. CASE CallTo(c, NoCall) /\ UNCHANGED <<row, claims, role, base, given, late>>
  BY <1>1, <1>3, CallWaits
<1>4. CASE /\ row.claim = 0 /\ project /\ claims < MaxClaims
           /\ claims' = claims + 1 /\ row' = [claim |-> claims + 1, ready |-> FALSE]
           /\ CallPc(c, "read") /\ Worked(c) /\ UNCHANGED <<role, base, given>>
  <2> DEFINE rec == [call[c] EXCEPT !.pc = "read"]
  <2>1. /\ rec \in [pc : CallPCs, claim : Claims] /\ rec.pc = "read"
        /\ rec.claim = call[c].claim
    BY <1>1, PcTypes
  <2>2. /\ call' = [call EXCEPT ![c] = rec]
        /\ UNCHANGED <<project, app, inside, switch, salt, recorded>>
        /\ call \in [Calls -> [pc : CallPCs, claim : Claims]]
    BY <1>4 DEF CallPc, CallTo, IInv, TypeOK
  <2> HIDE DEF rec
  <2>3. call'[c] = rec /\ \A e \in Calls : e # c => call'[e] = call[e]
    BY <2>2
  <2>4. /\ claims' \in Claims /\ row' \in [claim : Claims, ready : BOOLEAN]
        /\ row'.claim = claims + 1 /\ row'.claim # 0 /\ ~row'.ready
    BY <1>1, <1>4, ProjectDatabaseAssumption DEF Claims
  <2>5. /\ late' \in {late, late \union {"call"}}
        /\ "call" \in late' \/ (late' = late /\ app # "off" /\ switch = "idle"
                                /\ \A d \in Deleters : salt[d].pc \in {"idle", "dead"})
    BY <1>4 DEF Worked, Late
  <2>6. TypeOK' /\ SwitchHolds'
    BY <1>4, <2>1, <2>2, <2>4, <2>5 DEF IInv, TypeOK, SwitchHolds
  <2>7. \A e \in Calls : call'[e].claim \in Nat /\ call'[e].claim <= claims
    BY <2>1, <2>3, ClusterTypes, EmptyTypes DEF IInv, Numbered
  <2>8. Numbered'
    <3>1. \A e \in Calls : call'[e].pc \in AtWork => call'[e].claim # 0
      BY <1>1, <2>1, <2>3 DEF IInv, Numbered
    <3> QED
      BY <1>1, <1>4, <2>2, <2>4, <2>7, <3>1 DEF Numbered
  <2>9. ShutOff' /\ NobodyElses' /\ CleanedUp' /\ ReadyIsComplete'
    BY <2>2, <2>4, <2>5 DEF IInv, ShutOff, NobodyElses, CleanedUp, ReadyIsComplete
  <2>10. Provisioned'
    BY <1>1, <2>4, <2>7 DEF Provisioned
  <2> QED
    BY <2>6, <2>8, <2>9, <2>10 DEF IInv
<1> QED
  BY <1>2, <1>3, <1>4 DEF Claim

\* The row is made ready by a provisioner that has brought the cluster all the way.
LEMMA PublishStep == ASSUME IInv, NEW c \in Calls, PublishReady(c) PROVE IInv'
<1>1. /\ call' = [call EXCEPT ![c] = NoCall] /\ call[c].pc = "publish" /\ call[c].claim # 0
      /\ UNCHANGED <<project, app, inside, switch, salt, recorded, claims, role, base>>
      /\ call \in [Calls -> [pc : CallPCs, claim : Claims]]
      /\ row \in [claim : Claims, ready : BOOLEAN] /\ row.claim <= claims
  BY DEF PublishReady, CallTo, IInv, TypeOK, Numbered, AtWork
<1>2. /\ NoCall \in [pc : CallPCs, claim : Claims] /\ NoCall.claim = 0 /\ NoCall.pc \notin AtWork
      /\ 0 <= claims
  BY EmptyTypes DEF NoCall, AtWork, IInv, TypeOK
<1>3. call'[c] = NoCall /\ \A e \in Calls : e # c => call'[e] = call[e]
  BY <1>1
<1>4. /\ row' \in [claim : Claims, ready : BOOLEAN] /\ row'.claim = row.claim
      /\ row'.ready => row.claim # 0
      /\ given' = given \/ (row.claim # 0 /\ given' = given \union {row.claim})
  BY <1>1 DEF PublishReady, IInv, Numbered
<1>5. given' \subseteq 1 .. MaxClaims
  <2>1. row.claim # 0 => row.claim \in 1 .. MaxClaims
    BY <1>1, ProjectDatabaseAssumption DEF Claims
  <2> QED
    BY <1>4, <2>1 DEF IInv, TypeOK
<1>6. /\ late' \in {late, late \union {"call"}}
      /\ "call" \in late' \/ (late' = late /\ Undisturbed(c))
  BY <1>1 DEF PublishReady, Worked, Late, Undisturbed
<1>7. TypeOK' /\ Numbered' /\ SwitchHolds'
  BY <1>1, <1>2, <1>3, <1>4, <1>5, <1>6 DEF IInv, TypeOK, Numbered, SwitchHolds
<1>8. CASE "call" \in late'
  BY <1>7, <1>8 DEF IInv, ShutOff, NobodyElses, CleanedUp, Provisioned, ReadyIsComplete
<1>9. CASE late' = late /\ Undisturbed(c) /\ "call" \notin late
  <2>1. Brought("publish")
    BY <1>1, <1>9 DEF IInv, Provisioned, Undisturbed
  <2>2. base.marks = Marks /\ Standing /\ role.pw = row.claim /\ role.member
    BY <2>1, ClusterTypes DEF Brought, AtWork, Marks
  <2>3. ReadyIsComplete'
    BY <1>1, <1>4, <2>2 DEF ReadyIsComplete, Standing
  <2>4. ShutOff' /\ NobodyElses' /\ CleanedUp'
    BY <1>1, <1>4, <1>9 DEF IInv, Undisturbed, ShutOff, NobodyElses, CleanedUp
  <2>5. Provisioned'
    BY <1>1, <1>2, <1>3, <1>4, <1>9 DEF IInv, Provisioned, Brought, Standing
  <2> QED
    BY <1>7, <2>3, <2>4, <2>5 DEF IInv
<1> QED
  BY <1>6, <1>8, <1>9

----------------------------------------------------------------------------
\* The specification.

\* A session needs a role that may log in, and a new app touches neither.
LEMMA ConnectKeeps == ASSUME IInv, Connect \/ NewApp PROVE IInv'
<1>1. CASE Connect
  <2>1. /\ inside' = TRUE /\ role.login
        /\ UNCHANGED <<project, app, row, claims, role, base, given, call, switch, salt,
                       recorded, late>>
    BY <1>1 DEF Connect, DoorOpen
  <2>2. TypeOK' /\ Numbered' /\ SwitchHolds' /\ ShutOff' /\ NobodyElses'
    BY <2>1 DEF IInv, TypeOK, Numbered, SwitchHolds, ShutOff, NobodyElses
  <2>3. CleanedUp' /\ Provisioned' /\ ReadyIsComplete'
    BY <2>1 DEF IInv, CleanedUp, Provisioned, Brought, ReadyIsComplete, Standing
  <2> QED
    BY <2>2, <2>3 DEF IInv
<1>2. CASE NewApp
  <2>1. /\ app = "none" /\ app' = "on"
        /\ UNCHANGED <<project, row, claims, role, base, inside, given, call, switch, salt,
                       recorded, late>>
    BY <1>2 DEF NewApp
  <2>2. TypeOK' /\ Numbered' /\ SwitchHolds' /\ ShutOff' /\ NobodyElses'
    BY <2>1 DEF IInv, TypeOK, Numbered, SwitchHolds, ShutOff, NobodyElses
  <2>3. CleanedUp' /\ Provisioned' /\ ReadyIsComplete'
    BY <2>1 DEF IInv, CleanedUp, Provisioned, Brought, ReadyIsComplete, Standing
  <2> QED
    BY <2>2, <2>3 DEF IInv
<1> QED
  BY <1>1, <1>2

LEMMA Stutters == ASSUME IInv, UNCHANGED vars PROVE IInv'
<1>1. TypeOK' /\ Numbered' /\ SwitchHolds' /\ ShutOff' /\ NobodyElses'
  BY DEF IInv, vars, TypeOK, Numbered, SwitchHolds, ShutOff, NobodyElses
<1>2. CleanedUp' /\ Provisioned' /\ ReadyIsComplete'
  BY DEF IInv, vars, CleanedUp, Provisioned, Brought, ReadyIsComplete, Standing
<1> QED
  BY <1>1, <1>2 DEF IInv

LEMMA NextIInv == IInv /\ [Next]_vars => IInv'
<1> SUFFICES ASSUME IInv, [Next]_vars PROVE IInv'
  OBVIOUS
<1>1. ASSUME NEW c \in Calls, Ask(c) \/ CallStep(c) \/ CallFails(c) PROVE IInv'
  BY <1>1, WaitSteps, ClaimStep, RoleSteps, CreateStep, MarkSteps, PublishStep DEF CallStep
<1>2. ASSUME NEW d \in Deleters, HardDelete(d) \/ DeleteProject(d) \/ SaltStep(d) PROVE IInv'
  BY <1>2, DeleteKeeps, SaltKeeps
<1> QED
  BY <1>1, <1>2, ConnectKeeps, SwitchKeeps, Stutters DEF Next

LEMMA Invariant == Spec => []IInv
<1>1. Init => IInv
  BY InitIInv
<1>2. IInv /\ [Next]_vars => IInv'
  BY NextIInv
<1> QED
  BY <1>1, <1>2, PTL DEF Spec

----------------------------------------------------------------------------
\* The theorems.

\* Every reachable state is well typed.
THEOREM TypeCorrect == Spec => []TypeOK
<1>1. IInv => TypeOK
  BY DEF IInv
<1> QED
  BY <1>1, Invariant, PTL

\* An app that is switched off is shut out of its database, but for a provisioning
\* still at work and an enable that failed to commit.
THEOREM ASwitchedOffAppIsShutOut == Spec => []DisabledMeansShut
<1>1. IInv => DisabledMeansShut
  <2>1. late \subseteq {"call", "enable"} /\ late \intersect {"call", "enable"} = {} => late = {}
    OBVIOUS
  <2> QED
    BY <2>1 DEF IInv, TypeOK, ShutOff, DisabledMeansShut, DoorOpen
<1> QED
  BY <1>1, Invariant, PTL

\* A row says ready only of a database that is complete.
THEOREM WhatIsReadyIsComplete == Spec => []ReadyIsComplete
<1>1. IInv => ReadyIsComplete
  BY DEF IInv
<1> QED
  BY <1>1, Invariant, PTL

\* What a deleted project leaves on the cluster is on record.
THEOREM WhatIsLeftIsRecorded == Spec => []NothingLeftUnrecorded
<1>1. IInv => NothingLeftUnrecorded
  BY DEF IInv, Numbered, CleanedUp, NothingLeftUnrecorded
<1> QED
  BY <1>1, Invariant, PTL

\* A teardown that ends without a word has left nothing.
THEOREM ATeardownSaysWhatItLeaves == Spec => SaltTellsTheTruth
<1> DEFINE Told == \A d \in Deleters :
                      salt[d].pc # "idle" /\ salt'[d].pc = "idle" /\ ~recorded' =>
                          base'.of = 0 /\ role'.pw = 0
<1>1. IInv /\ [Next]_vars => [Told]_vars
  <2> SUFFICES ASSUME IInv, Next, NEW d \in Deleters,
                      salt[d].pc # "idle", salt'[d].pc = "idle", ~recorded'
               PROVE  base'.of = 0 /\ role'.pw = 0
    OBVIOUS
  <2>1. ASSUME UNCHANGED salt PROVE FALSE
    BY <2>1
  <2>2. ASSUME NEW c \in Calls, Ask(c) \/ CallStep(c) \/ CallFails(c) PROVE FALSE
    BY <2>1, <2>2 DEF Ask, CallStep, CallFails, Claim, Await, Read, CreateRole, Grant,
         CreateDatabase, Deed, Wall, Open, Timeouts, Stamp, Mark, PublishReady, CallPc, CallTo
  <2>3. ASSUME SwitchStep PROVE FALSE
    BY <2>1, <2>3, SwitchMoves
  <2>4. ASSUME Connect \/ NewApp PROVE FALSE
    BY <2>1, <2>4 DEF Connect, NewApp
  <2>5. ASSUME NEW e \in Deleters, HardDelete(e) \/ DeleteProject(e) PROVE FALSE
    <3>1. salt' = IF row.claim = 0 THEN salt
                  ELSE [salt EXCEPT ![e] = [pc |-> "nologin", ok |-> TRUE]]
      BY <2>5 DEF HardDelete, DeleteProject, Deleted
    <3> QED
      BY <3>1 DEF IInv, TypeOK
  <2>6. ASSUME NEW e \in Deleters, SaltStep(e) PROVE base'.of = 0 /\ role'.pw = 0
    BY <2>6, SaltMoves DEF Standing
  <2> QED
    BY <2>2, <2>3, <2>4, <2>5, <2>6 DEF Next
<1> QED
  BY <1>1, Invariant, PTL DEF Spec, SaltTellsTheTruth

=============================================================================
