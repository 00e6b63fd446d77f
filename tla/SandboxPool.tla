---------------------------- MODULE SandboxPool ----------------------------
(***************************************************************************)
(* The pool of ready sandboxes (backend/src/services/sandbox/pool.py, the  *)
(* claim, fill and create paths of sandbox/client.py, and the pass of      *)
(* build_sessions/pool_pass.py).                                           *)
(*                                                                         *)
(* Every statement of the ledger is one committed transaction, so each is  *)
(* one step; every Azure, supervisor and Redis call is a step of its own.  *)
(* Between two steps of one actor any other actor may run.  The actors     *)
(* are starts, fills, the detached tasks a claim leaves behind it, and the *)
(* one pass that holds the pool's lock.  One pool is modelled: the plain   *)
(* and the connector pool run the same code over disjoint rows.            *)
(***************************************************************************)
EXTENDS Naturals, FiniteSets

CONSTANTS
    Names,          \* container names; random and never reused
    Users,          \* people, one registry record each
    Starts,         \* start requests running at once
    Fills,          \* fills running at once, refills and the pass's own
    Images,         \* image references a row can have been made from
    Sizes,          \* the sizes the pool is held at over a day
    ClaimsPerStart, \* _CLAIMS_PER_START
    LedgerFails,    \* the database may not answer (DB_UNREACHABLE)
    FillsCutShort,  \* a fill's process may die, or its task be cancelled
    NoName          \* no container

ASSUME PoolAssumption ==
    /\ NoName \notin Names
    /\ Sizes \subseteq Nat
    /\ ClaimsPerStart \in Nat
    /\ LedgerFails \in BOOLEAN
    /\ FillsCutShort \in BOOLEAN

VARIABLES
    row,      \* the ledger: one row a name at most (uq_sandbox_pool_name)
    image,    \* the configured image
    cloud,    \* names of the containers Azure holds
    inflight, \* creates whose caller gave up on them and that may still land
    minted,   \* names already given to a container
    registry, \* the container each user's record names
    owed,     \* containers an owed teardown names
    start,    \* each start's progress
    fill,     \* each fill's progress
    tasks,    \* detached tasks
    pass      \* the pool pass

vars == <<row, image, cloud, inflight, minted, registry, owed, start, fill,
          tasks, pass>>

----------------------------------------------------------------------------
\* The ledger's statements.

RowStates == {"none", "filling", "ready", "claimed", "retiring"}

\* `gen` tells a name's first row from the one hold_for_deletion may insert
\* after it; `old` says state_changed_at is further back than ROW_DEADLINE.
Rows == [st : RowStates, gen : {1, 2}, img : Images, old : BOOLEAN]
Ledger == [Names -> Rows]

NoRow(n) == row[n].st = "none"

\* _move: a compare-and-set on a row's state, which restarts its clock.
Holds(n, g, was) == row[n].st = was /\ row[n].gen = g
Moved(n, to) == [row EXCEPT ![n].st = to, ![n].old = FALSE]
Move(n, g, was, to) ==
    row' = IF Holds(n, g, was) THEN Moved(n, to) ELSE row

\* forget: by row id, whatever its state.
Forgotten(n, g) ==
    IF row[n].gen = g THEN [row EXCEPT ![n].st = "none", ![n].old = FALSE]
    ELSE row

Inserted(n, g, st) ==
    [row EXCEPT ![n] = [st |-> st, gen |-> g, img |-> image, old |-> FALSE]]

\* hold_for_deletion: a new retiring row, or nothing while a row has the name.
HeldForDeletion(n) == IF NoRow(n) THEN Inserted(n, 2, "retiring") ELSE row

InHand == {n \in Names : row[n].st \in {"filling", "ready"} /\ row[n].img = image}

\* claim's order: a row made from the configured image first.
Claimable == {n \in Names : row[n].st = "ready"}
FirstChoice ==
    LET current == {n \in Claimable : row[n].img = image}
    IN IF current # {} THEN current ELSE Claimable

----------------------------------------------------------------------------
\* Types and the initial state.

\* `using`: the registry write landed and the person has not been parted from
\* the container since.
StartPCs == {"idle", "claiming", "checking", "recording", "forgetting",
             "create", "creating", "recordingown", "releasing", "undoing",
             "dropping", "using"}
StartRecs == [pc : StartPCs, user : Users, name : Names \union {NoName},
              left : 0 .. ClaimsPerStart, kept : SUBSET Names]
FillPCs == {"idle", "queued", "creating", "answering", "failing", "holding",
            "discard", "deleting", "forgetting"}
FillRecs == [pc : FillPCs, name : Names \union {NoName}]
Tasks == [do : {"retire", "delete", "forget", "putback"}, name : Names]
Todos == {"none", "judge filling", "judge claimed", "retire", "delete", "forget"}
PassRecs == [pc : {"idle", "registry", "debts", "work"}, held : SUBSET Names,
             gen : [Names -> {1, 2}], todo : [Names -> Todos]]

TypeOK ==
    /\ row \in Ledger
    /\ image \in Images
    /\ cloud \subseteq Names
    /\ inflight \subseteq Names
    /\ minted \subseteq Names
    /\ registry \in [Users -> Names \union {NoName}]
    /\ owed \subseteq Names
    /\ start \in [Starts -> StartRecs]
    /\ fill \in [Fills -> FillRecs]
    /\ tasks \subseteq Tasks
    /\ pass \in PassRecs

NoTodo == [n \in Names |-> "none"]
IdlePass == [pc |-> "idle", held |-> {}, gen |-> [n \in Names |-> 1], todo |-> NoTodo]
IdleFill == [pc |-> "idle", name |-> NoName]
IdleStart(s) ==
    [pc |-> "idle", user |-> start[s].user, name |-> NoName, left |-> 0, kept |-> {}]

Init ==
    /\ image \in Images
    /\ row = [n \in Names |-> [st |-> "none", gen |-> 1, img |-> image, old |-> FALSE]]
    /\ cloud = {} /\ inflight = {} /\ minted = {}
    /\ registry = [u \in Users |-> NoName]
    /\ owed = {}
    /\ start \in [Starts -> [pc : {"idle"}, user : Users, name : {NoName},
                             left : {0}, kept : {{}}]]
    /\ fill = [f \in Fills |-> IdleFill]
    /\ tasks = {}
    /\ pass = IdlePass

Registered(n) == \E u \in Users : registry[u] = n

Fresh == Names \ minted

\* What a start's detached tasks will do: _put_it_back and _let_it_go.
PutBacks(K) == {[do |-> "putback", name |-> n] : n \in K}
LetGo(n) == {[do |-> "retire", name |-> n]}

\* A ledger statement that answers, or one that fails and is swallowed.
Try(statement) == row' = statement \/ (LedgerFails /\ row' = row)

\* The registry write of a failed attempt: it may still have landed.
MayHaveLanded(u, n) ==
    registry' \in {registry} \union
        (IF registry[u] = NoName THEN {[registry EXCEPT ![u] = n]} ELSE {})

----------------------------------------------------------------------------
\* A start: _provision_container and _claim_a_ready_one.

At(s, pc) == start[s].pc = pc
Goto(s, pc) == start' = [start EXCEPT ![s].pc = pc]
\* Done claiming.
Settled(s, pc) ==
    [pc |-> pc, user |-> start[s].user, name |-> start[s].name, left |-> 0, kept |-> {}]

\* How many containers a start may claim.
Claims(pc) == IF pc = "claiming" THEN ClaimsPerStart ELSE 0

\* Refused while the record names a container nobody has taken over; a pool
\* held at no size, or a count the ledger does not answer, is not claimed from.
BeginStart(s, u) ==
    /\ At(s, "idle")
    /\ registry[u] = NoName
    /\ \E pc \in (IF 0 \in Sizes \/ LedgerFails THEN {"create"} ELSE {})
              \union (IF Sizes \ {0} # {} THEN {"claiming"} ELSE {}) :
          start' = [start EXCEPT ![s] =
              [pc |-> pc, user |-> u, name |-> NoName, kept |-> {}, left |-> Claims(pc)]]
    /\ UNCHANGED <<row, image, cloud, inflight, minted, registry, owed, fill, tasks, pass>>

Claim(s) ==
    /\ At(s, "claiming") /\ start[s].left > 0
    /\ \E n \in FirstChoice :
          /\ row' = Moved(n, "claimed")
          /\ start' = [start EXCEPT ![s].pc = "checking", ![s].name = n, ![s].left = @ - 1]
    /\ UNCHANGED <<image, cloud, inflight, minted, registry, owed, fill, tasks, pass>>

ClaimMiss(s) ==
    /\ At(s, "claiming")
    /\ start[s].left = 0 \/ Claimable = {} \/ LedgerFails
    /\ tasks' = tasks \union PutBacks(start[s].kept)
    /\ start' = [start EXCEPT ![s] = Settled(s, "create")]
    /\ UNCHANGED <<row, image, cloud, inflight, minted, registry, owed, fill, pass>>

\* _make_it_theirs before its registry write: the container is sound, or Azure
\* answered nothing of it, or it is to be let go.
CheckFit(s) ==
    /\ At(s, "checking") /\ start[s].name \in cloud
    /\ Goto(s, "recording")
    /\ UNCHANGED <<row, image, cloud, inflight, minted, registry, owed, fill, tasks, pass>>

CheckKeep(s) ==
    /\ At(s, "checking")
    /\ start' = [start EXCEPT ![s].pc = "claiming", ![s].name = NoName,
                             ![s].kept = @ \union {start[s].name}]
    /\ UNCHANGED <<row, image, cloud, inflight, minted, registry, owed, fill, tasks, pass>>

CheckUnfit(s) ==
    /\ At(s, "checking")
    /\ tasks' = tasks \union LetGo(start[s].name)
    /\ start' = [start EXCEPT ![s].pc = "claiming", ![s].name = NoName]
    /\ UNCHANGED <<row, image, cloud, inflight, minted, registry, owed, fill, pass>>

\* The script of _write_registry refuses a record that names a container.
Record(s) ==
    /\ At(s, "recording") /\ registry[start[s].user] = NoName
    /\ registry' = [registry EXCEPT ![start[s].user] = start[s].name]
    /\ Goto(s, "forgetting")
    /\ UNCHANGED <<row, image, cloud, inflight, minted, owed, fill, tasks, pass>>

\* Fault: a container whose registry write failed is put back.
RecordFailsKeeps(s) ==
    /\ start[s].pc \in {"checking", "recording"}
    /\ IF At(s, "recording") THEN MayHaveLanded(start[s].user, start[s].name)
                             ELSE registry' = registry
    /\ tasks' = tasks \union PutBacks(start[s].kept \union {start[s].name})
    /\ start' = [start EXCEPT ![s] = IdleStart(s)]
    /\ UNCHANGED <<row, image, cloud, inflight, minted, owed, fill, pass>>

\* A refused or unanswered write, or a cancelled start.
RecordFails(s) ==
    /\ start[s].pc \in {"checking", "recording"}
    /\ IF At(s, "recording") THEN MayHaveLanded(start[s].user, start[s].name)
                             ELSE registry' = registry
    /\ tasks' = tasks \union LetGo(start[s].name) \union PutBacks(start[s].kept)
    /\ start' = [start EXCEPT ![s] = IdleStart(s)]
    /\ UNCHANGED <<row, image, cloud, inflight, minted, owed, fill, pass>>

ForgetClaim(s) ==
    /\ At(s, "forgetting")
    /\ Try(Forgotten(start[s].name, 1))
    /\ tasks' = tasks \union PutBacks(start[s].kept)
    /\ start' = [start EXCEPT ![s] = Settled(s, "using")]
    /\ UNCHANGED <<image, cloud, inflight, minted, registry, owed, fill, pass>>

\* _hold_the_create: a ledger that does not answer costs only the row.
HoldCreate(s) ==
    /\ At(s, "create")
    /\ \E n \in Fresh :
          /\ minted' = minted \union {n}
          /\ Try(Inserted(n, 1, "claimed"))
          /\ start' = [start EXCEPT ![s].pc = "creating", ![s].name = n]
    /\ UNCHANGED <<image, cloud, inflight, registry, owed, fill, tasks, pass>>

CreateOk(s) ==
    /\ At(s, "creating")
    /\ cloud' = cloud \union {start[s].name}
    /\ Goto(s, "recordingown")
    /\ UNCHANGED <<row, image, inflight, minted, registry, owed, fill, tasks, pass>>

\* _CreateFailedError: what stands was cleaned, or Azure refused the delete.
CreateFails(s) ==
    /\ At(s, "creating")
    /\ \/ cloud' = cloud /\ Goto(s, "dropping")
       \/ /\ cloud' \in {cloud, cloud \union {start[s].name}}
          /\ start' = [start EXCEPT ![s] = IdleStart(s)]
    /\ UNCHANGED <<row, image, inflight, minted, registry, owed, fill, tasks, pass>>

RecordOwn(s) ==
    /\ At(s, "recordingown") /\ registry[start[s].user] = NoName
    /\ registry' = [registry EXCEPT ![start[s].user] = start[s].name]
    /\ Goto(s, "releasing")
    /\ UNCHANGED <<row, image, cloud, inflight, minted, owed, fill, tasks, pass>>

RecordOwnFails(s) ==
    /\ At(s, "recordingown")
    /\ MayHaveLanded(start[s].user, start[s].name)
    /\ Goto(s, "undoing")
    /\ UNCHANGED <<row, image, cloud, inflight, minted, owed, fill, tasks, pass>>

\* Fault: a delete that was tried is read as a container gone.
UndoUnconfirmed(s) ==
    /\ At(s, "undoing")
    /\ cloud' \in {cloud, cloud \ {start[s].name}}
    /\ Goto(s, "dropping")
    /\ UNCHANGED <<row, image, inflight, minted, registry, owed, fill, tasks, pass>>

\* _safe_teardown after a failed write: only a confirmed delete drops the row.
Undo(s) ==
    /\ At(s, "undoing")
    /\ \/ cloud' = cloud \ {start[s].name} /\ Goto(s, "dropping")
       \/ cloud' = cloud /\ start' = [start EXCEPT ![s] = IdleStart(s)]
    /\ UNCHANGED <<row, image, inflight, minted, registry, owed, fill, tasks, pass>>

\* _release_the_create, for a container recorded or confirmed gone.
Release(s) ==
    /\ start[s].pc \in {"releasing", "dropping"}
    /\ Try(Forgotten(start[s].name, 1))
    /\ start' = [start EXCEPT ![s] = IF At(s, "releasing") THEN [@ EXCEPT !.pc = "using"]
                                                          ELSE IdleStart(s)]
    /\ UNCHANGED <<image, cloud, inflight, minted, registry, owed, fill, tasks, pass>>

\* The process dies, or the task is cancelled past a registry write or in its
\* own create (whose failed write is caught as Exception, not BaseException):
\* no detached task follows, and Azure may finish the create.
StartDies(s) ==
    /\ start[s].pc \notin {"idle", "using"}
    /\ inflight' = IF At(s, "creating") THEN inflight \union {start[s].name} ELSE inflight
    /\ start' = [start EXCEPT ![s] = IF start[s].pc \in {"forgetting", "releasing"}
                                     THEN Settled(s, "using")
                                     ELSE IdleStart(s)]
    /\ UNCHANGED <<row, image, cloud, minted, registry, owed, fill, tasks, pass>>

----------------------------------------------------------------------------
\* A fill: fill_one and _let_the_fill_go.

FillAt(f, pc) == fill[f].pc = pc
FillGoto(f, pc) == fill' = [fill EXCEPT ![f].pc = pc]
FillEnds(f) == fill' = [fill EXCEPT ![f] = IdleFill]

FillBegin(f) ==
    /\ FillAt(f, "idle")
    /\ \E size \in Sizes : Cardinality(InHand) < size
    /\ \E n \in Fresh :
          /\ minted' = minted \union {n}
          /\ row' = Inserted(n, 1, "filling")
          /\ fill' = [fill EXCEPT ![f] = [pc |-> "queued", name |-> n]]
    /\ UNCHANGED <<image, cloud, inflight, registry, owed, start, tasks, pass>>

\* The pool's bound is held: a fill whose row a pass let go makes nothing.
FillTurn(f) ==
    /\ FillAt(f, "queued")
    /\ Move(fill[f].name, 1, "filling", "filling")
    /\ IF Holds(fill[f].name, 1, "filling") THEN FillGoto(f, "creating") ELSE FillEnds(f)
    /\ UNCHANGED <<image, cloud, inflight, minted, registry, owed, start, tasks, pass>>

FillCreated(f) ==
    /\ FillAt(f, "creating")
    /\ cloud' = cloud \union {fill[f].name}
    /\ FillGoto(f, "answering")
    /\ UNCHANGED <<row, image, inflight, minted, registry, owed, start, tasks, pass>>

FillCreateFails(f) ==
    /\ FillAt(f, "creating")
    /\ \/ cloud' = cloud /\ FillGoto(f, "forgetting")
       \/ cloud' \in {cloud, cloud \union {fill[f].name}} /\ FillGoto(f, "failing")
    /\ UNCHANGED <<row, image, inflight, minted, registry, owed, start, tasks, pass>>

FillFailedRetires(f) ==
    /\ FillAt(f, "failing")
    /\ Move(fill[f].name, 1, "filling", "retiring")
    /\ IF Holds(fill[f].name, 1, "filling") THEN FillEnds(f) ELSE FillGoto(f, "holding")
    /\ UNCHANGED <<image, cloud, inflight, minted, registry, owed, start, tasks, pass>>

\* Timing: this comes after a create and a refused delete of the fill's own, so
\* a pass that deleted an absent container meanwhile has forgotten its row too
\* (the row would otherwise make this insert do nothing, and then go).
FillHolds(f) ==
    /\ FillAt(f, "holding") /\ pass.todo[fill[f].name] # "forget"
    /\ row' = HeldForDeletion(fill[f].name)
    /\ FillEnds(f)
    /\ UNCHANGED <<image, cloud, inflight, minted, registry, owed, start, tasks, pass>>

\* Fault: a fill's row is marked ready whatever it holds by then.
FillAnsweredBlind(f) ==
    /\ FillAt(f, "answering")
    /\ row' = Moved(fill[f].name, "ready")
    /\ FillEnds(f)
    /\ UNCHANGED <<image, cloud, inflight, minted, registry, owed, start, tasks, pass>>

FillAnswered(f) ==
    /\ FillAt(f, "answering")
    /\ fill[f].name \in cloud
    /\ Move(fill[f].name, 1, "filling", "ready")
    /\ IF Holds(fill[f].name, 1, "filling") THEN FillEnds(f) ELSE FillGoto(f, "discard")
    /\ UNCHANGED <<image, cloud, inflight, minted, registry, owed, start, tasks, pass>>

FillSilent(f) ==
    /\ FillAt(f, "answering")
    /\ FillGoto(f, "discard")
    /\ UNCHANGED <<row, image, cloud, inflight, minted, registry, owed, start, tasks, pass>>

DiscardRetires(f) ==
    /\ FillAt(f, "discard")
    /\ Move(fill[f].name, 1, "filling", "retiring")
    /\ FillGoto(f, "deleting")
    /\ UNCHANGED <<image, cloud, inflight, minted, registry, owed, start, tasks, pass>>

DiscardDeletes(f) ==
    /\ FillAt(f, "deleting")
    /\ \/ cloud' = cloud \ {fill[f].name} /\ FillGoto(f, "forgetting")
       \/ cloud' = cloud /\ FillGoto(f, "holding")
    /\ UNCHANGED <<row, image, inflight, minted, registry, owed, start, tasks, pass>>

FillForgets(f) ==
    /\ FillAt(f, "forgetting")
    /\ row' = Forgotten(fill[f].name, 1)
    /\ FillEnds(f)
    /\ UNCHANGED <<image, cloud, inflight, minted, registry, owed, start, tasks, pass>>

LeftCreating(f) ==
    IF FillAt(f, "creating") THEN inflight \union {fill[f].name} ELSE inflight

\* _give_up_the_fill: the task is cancelled, or a ledger statement failed.
FillGivenUp(f) ==
    /\ \/ FillsCutShort /\ fill[f].pc \in {"queued", "creating", "answering"}
       \/ LedgerFails /\ fill[f].pc \in {"queued", "answering"}
    /\ Try(IF Holds(fill[f].name, 1, "filling") THEN Moved(fill[f].name, "retiring") ELSE row)
    /\ inflight' = LeftCreating(f)
    /\ FillEnds(f)
    /\ UNCHANGED <<image, cloud, minted, registry, owed, start, tasks, pass>>

\* The process dies, or a ledger statement of the clean-up fails.
FillDies(f) ==
    /\ \/ FillsCutShort /\ ~FillAt(f, "idle")
       \/ LedgerFails /\ fill[f].pc \in {"failing", "holding", "discard", "forgetting"}
    /\ inflight' = LeftCreating(f)
    /\ FillEnds(f)
    /\ UNCHANGED <<row, image, cloud, minted, registry, owed, start, tasks, pass>>

----------------------------------------------------------------------------
\* Detached tasks: _let_it_go (retire, delete, forget) and _put_it_back.

Becomes(t, T) == tasks' = (tasks \ {t}) \union T
Then(t, do) == Becomes(t, {[t EXCEPT !.do = do]})

TaskRetires(t) ==
    /\ t.do = "retire"
    /\ Try(IF Holds(t.name, 1, "claimed") THEN Moved(t.name, "retiring") ELSE row)
    /\ Then(t, "delete")
    /\ UNCHANGED <<image, cloud, inflight, minted, registry, owed, start, fill, pass>>

TaskDeletes(t) ==
    /\ t.do = "delete"
    /\ \/ cloud' = cloud \ {t.name} /\ Then(t, "forget")
       \/ cloud' = cloud /\ Becomes(t, {})
    /\ UNCHANGED <<row, image, inflight, minted, registry, owed, start, fill, pass>>

TaskForgets(t) ==
    /\ t.do = "forget"
    /\ Try(Forgotten(t.name, 1))
    /\ Becomes(t, {})
    /\ UNCHANGED <<image, cloud, inflight, minted, registry, owed, start, fill, pass>>

TaskPutsBack(t) ==
    /\ t.do = "putback"
    /\ Try(IF Holds(t.name, 1, "claimed") THEN Moved(t.name, "ready") ELSE row)
    /\ Becomes(t, {})
    /\ UNCHANGED <<image, cloud, inflight, minted, registry, owed, start, fill, pass>>

TaskDies(t) ==
    /\ Becomes(t, {})
    /\ UNCHANGED <<row, image, cloud, inflight, minted, registry, owed, start, fill, pass>>

----------------------------------------------------------------------------
\* The pass: _keep_one_pool, _names_still_in_use and _let_go.

Do(n, todo) == pass' = [pass EXCEPT !.todo[n] = todo]
Stuck == {n \in Names : pass.todo[n] = "judge claimed"}

\* Fault: only a fill can be overdue.
OverdueFill(n) == row[n].st = "filling" /\ row[n].old

Overdue(n) == row[n].st \in {"filling", "claimed"} /\ row[n].old

\* The ready rows above the pool's size, those of older images first.
Surplus(size) ==
    {E \in SUBSET Claimable :
        /\ Cardinality(E) = (IF Cardinality(Claimable) > size
                             THEN Cardinality(Claimable) - size ELSE 0)
        /\ \A m \in E, r \in Claimable \ E : row[m].img = image => row[r].img = image}

\* What one reading of the ledger leaves a pass to do, `E` being its surplus.
Plan(E) ==
    [n \in Names |->
        CASE Overdue(n) /\ row[n].st = "filling" -> "judge filling"
          [] Overdue(n) /\ row[n].st = "claimed" -> "judge claimed"
          [] row[n].st = "retiring" -> "delete"
          [] n \in E -> "retire"
          [] OTHER -> "none"]

\* the_ledger is read once; everything after works from that list.
PassBegin ==
    /\ pass.pc = "idle"
    /\ \E size \in Sizes : \E E \in Surplus(size) :
        /\ Plan(E) # NoTodo
        /\ pass' = [held |-> {}, todo |-> Plan(E), gen |-> [n \in Names |-> row[n].gen],
                    pc |-> IF \E n \in Names : Plan(E)[n] = "judge claimed"
                           THEN "registry" ELSE "work"]
    /\ UNCHANGED <<row, image, cloud, inflight, minted, registry, owed, start, fill, tasks>>

\* Fault: only debts are read.
PassSkipsRegistry ==
    /\ pass.pc = "registry"
    /\ pass' = [pass EXCEPT !.pc = "debts"]
    /\ UNCHANGED <<row, image, cloud, inflight, minted, registry, owed, start, fill, tasks>>

PassReadsRegistry ==
    /\ pass.pc = "registry"
    /\ pass' = [pass EXCEPT !.pc = "debts", !.held = {n \in Stuck : Registered(n)}]
    /\ UNCHANGED <<row, image, cloud, inflight, minted, registry, owed, start, fill, tasks>>

\* Fault: only the registry is read.
PassSkipsDebts ==
    /\ pass.pc = "debts"
    /\ pass' = [pass EXCEPT !.pc = "work"]
    /\ UNCHANGED <<row, image, cloud, inflight, minted, registry, owed, start, fill, tasks>>

PassReadsDebts ==
    /\ pass.pc = "debts"
    /\ pass' = [pass EXCEPT !.pc = "work", !.held = @ \union (Stuck \intersect owed)]
    /\ UNCHANGED <<row, image, cloud, inflight, minted, registry, owed, start, fill, tasks>>

PassForgetsHeld(n) ==
    /\ pass.pc = "work" /\ n \in pass.held /\ pass.todo[n] = "judge claimed"
    /\ row' = Forgotten(n, pass.gen[n])
    /\ Do(n, "none")
    /\ UNCHANGED <<image, cloud, inflight, minted, registry, owed, start, fill, tasks>>

\* A retire that finds its row moved on leaves the container alone.
PassRetires(n) ==
    /\ pass.pc = "work" /\ n \notin pass.held
    /\ \E was \in {"filling", "claimed", "ready"} :
        /\ pass.todo[n] = CASE was = "filling" -> "judge filling"
                             [] was = "claimed" -> "judge claimed"
                             [] was = "ready" -> "retire"
        /\ Move(n, pass.gen[n], was, "retiring")
        /\ Do(n, IF Holds(n, pass.gen[n], was) THEN "delete" ELSE "none")
    /\ UNCHANGED <<image, cloud, inflight, minted, registry, owed, start, fill, tasks>>

PassDeletes(n) ==
    /\ pass.pc = "work" /\ pass.todo[n] = "delete"
    /\ cloud' = cloud \ {n}
    /\ Do(n, "forget")
    /\ UNCHANGED <<row, image, inflight, minted, registry, owed, start, fill, tasks>>

PassRefused(n) ==
    /\ pass.pc = "work" /\ pass.todo[n] = "delete"
    /\ Do(n, "none")
    /\ UNCHANGED <<row, image, cloud, inflight, minted, registry, owed, start, fill, tasks>>

PassForgets(n) ==
    /\ pass.pc = "work" /\ pass.todo[n] = "forget"
    /\ row' = Forgotten(n, pass.gen[n])
    /\ Do(n, "none")
    /\ UNCHANGED <<image, cloud, inflight, minted, registry, owed, start, fill, tasks>>

\* The list is worked through; or the process or a statement of its died.
PassEnds ==
    /\ pass.pc = "work" /\ pass.todo = NoTodo
    /\ pass' = IdlePass
    /\ UNCHANGED <<row, image, cloud, inflight, minted, registry, owed, start, fill, tasks>>

PassDies ==
    /\ pass.pc # "idle" /\ pass.todo # NoTodo
    /\ pass' = IdlePass
    /\ UNCHANGED <<row, image, cloud, inflight, minted, registry, owed, start, fill, tasks>>

----------------------------------------------------------------------------
\* What the rest of the system does to a container handed over, and the clock.

Using(s) == At(s, "using")

\* A stop with nothing owed: the container goes before its record does.
Leave(s) ==
    /\ Using(s)
    /\ cloud' = cloud \ {start[s].name}
    /\ start' = [start EXCEPT ![s] = IdleStart(s)]
    /\ UNCHANGED <<row, image, inflight, minted, registry, owed, fill, tasks, pass>>

\* The sweep reaps a recorded container no request has in hand.
Reap(u) ==
    /\ registry[u] \notin owed \union {NoName}
    /\ \A s \in Starts : start[s].name # registry[u]
    /\ cloud' = cloud \ {registry[u]}
    /\ UNCHANGED <<row, image, inflight, minted, registry, owed, start, fill, tasks, pass>>

\* A handover: the debt is written while the record still names the container.
Owe(s) ==
    /\ Using(s) /\ registry[start[s].user] = start[s].name
    /\ owed' = owed \union {start[s].name}
    /\ start' = [start EXCEPT ![s] = IdleStart(s)]
    /\ UNCHANGED <<row, image, cloud, inflight, minted, registry, fill, tasks, pass>>

ClearRecord(u) ==
    /\ registry[u] # NoName
    /\ registry[u] \in owed \/ registry[u] \notin cloud
    /\ registry' = [registry EXCEPT ![u] = NoName]
    /\ UNCHANGED <<row, image, cloud, inflight, minted, owed, start, fill, tasks, pass>>

\* The owed teardown's own end: container, then debt.
Settle(n) ==
    /\ n \in owed /\ ~Registered(n)
    /\ cloud' = cloud \ {n}
    /\ owed' = owed \ {n}
    /\ UNCHANGED <<row, image, inflight, minted, registry, start, fill, tasks, pass>>

\* Azure finishes, or never finishes, a create its caller gave up on.
Landing(n) ==
    /\ n \in inflight
    /\ inflight' = inflight \ {n}
    /\ cloud' \in {cloud, cloud \union {n}}
    /\ UNCHANGED <<row, image, minted, registry, owed, start, fill, tasks, pass>>

NewImage ==
    /\ image' \in Images \ {image}
    /\ UNCHANGED <<row, cloud, inflight, minted, registry, owed, start, fill, tasks, pass>>

\* ROW_DEADLINE is longer than any of these can last, so a row grows old only
\* once none of them has it: a claim's checks, a start's own create and its
\* record, a fill's create and first answer, a put-back, and a create Azure is
\* still finishing.
Busy(n) ==
    \/ n \in inflight
    \/ \E s \in Starts :
          \/ n \in start[s].kept
          \/ start[s].name = n /\ start[s].pc \in
                {"checking", "recording", "creating", "recordingown"}
    \/ \E f \in Fills : fill[f].name = n /\ fill[f].pc \in {"creating", "answering"}
    \/ [do |-> "putback", name |-> n] \in tasks

GrowOld(n) ==
    /\ row[n].st \in {"filling", "claimed"} /\ ~row[n].old
    /\ ~Busy(n)
    /\ row' = [row EXCEPT ![n].old = TRUE]
    /\ UNCHANGED <<image, cloud, inflight, minted, registry, owed, start, fill, tasks, pass>>

----------------------------------------------------------------------------
StartStep(s) ==
    \/ \E u \in Users : BeginStart(s, u)
    \/ Claim(s) \/ ClaimMiss(s) \/ CheckFit(s) \/ CheckKeep(s) \/ CheckUnfit(s)
    \/ Record(s) \/ RecordFails(s) \/ ForgetClaim(s)
    \/ HoldCreate(s) \/ CreateOk(s) \/ CreateFails(s)
    \/ RecordOwn(s) \/ RecordOwnFails(s) \/ Undo(s) \/ Release(s)

FillStep(f) ==
    \/ FillBegin(f) \/ FillTurn(f) \/ FillCreated(f) \/ FillCreateFails(f)
    \/ FillFailedRetires(f) \/ FillHolds(f) \/ FillAnswered(f) \/ FillSilent(f)
    \/ DiscardRetires(f) \/ DiscardDeletes(f) \/ FillForgets(f)

TaskStep(t) == TaskRetires(t) \/ TaskDeletes(t) \/ TaskForgets(t) \/ TaskPutsBack(t)

PassWork(n) ==
    PassForgetsHeld(n) \/ PassRetires(n) \/ PassDeletes(n) \/ PassRefused(n) \/ PassForgets(n)

PassStep == PassBegin \/ PassReadsRegistry \/ PassReadsDebts \/ PassEnds
            \/ \E n \in Names : PassWork(n)

Elsewhere ==
    \/ \E s \in Starts : Leave(s) \/ Owe(s)
    \/ \E u \in Users : ClearRecord(u) \/ Reap(u)
    \/ \E n \in Names : Settle(n) \/ Landing(n) \/ GrowOld(n)
    \/ NewImage

Next ==
    \/ \E s \in Starts : StartStep(s) \/ StartDies(s)
    \/ \E f \in Fills : FillStep(f) \/ FillGivenUp(f) \/ FillDies(f)
    \/ \E t \in tasks : TaskStep(t) \/ TaskDies(t)
    \/ PassStep \/ PassDies
    \/ Elsewhere

Spec == Init /\ [][Next]_vars

\* Every actor that goes on running takes its next step, time passes, a create
\* given up on is finished or not, and the worker's scheduler begins a pass
\* every minute.  A pass may die, but not at the same point for ever, and Azure
\* does not refuse one container's delete for ever: a pass that keeps getting
\* to a container's delete gets it through, and one that keeps getting to its
\* row forgets it.  Nothing obliges a person to start or to leave.
Fairness ==
    /\ \A s \in Starts : WF_vars(~At(s, "idle") /\ StartStep(s))
    /\ \A f \in Fills : WF_vars(~FillAt(f, "idle") /\ FillStep(f))
    /\ \A t \in Tasks : WF_vars(t \in tasks /\ TaskStep(t))
    /\ WF_vars(PassBegin) /\ WF_vars(PassEnds)
    /\ SF_vars(PassReadsRegistry) /\ SF_vars(PassReadsDebts)
    /\ \A n \in Names : /\ SF_vars(PassForgetsHeld(n)) /\ SF_vars(PassRetires(n))
                        /\ SF_vars(PassDeletes(n)) /\ SF_vars(PassForgets(n))
                        /\ WF_vars(Landing(n)) /\ WF_vars(GrowOld(n))

FairSpec == Spec /\ Fairness

----------------------------------------------------------------------------
\* Safety.

\* Containers a start has claimed or made, to the end of its start.
Hold(s) == start[s].kept \union (IF start[s].name = NoName THEN {} ELSE {start[s].name})

\* Two starts never have one container, and two people's records never name
\* one (pool.claim, retire and put_back are compare-and-sets; a container whose
\* registry write failed is let go, never put back, as the write may have
\* landed).
NoTwoHolders ==
    /\ \A s, t \in Starts : s # t => Hold(s) \intersect Hold(t) = {}
    /\ \A u, v \in Users : u # v => registry[u] = NoName \/ registry[u] # registry[v]

\* A container in a person's hands stands until they are parted from it: no
\* pass, detached task or fill deletes it, although its ledger row may have
\* outlived its claim and a pass may hold an old reading of the ledger.
HandedContainerStands == \A s \in Starts : Using(s) => start[s].name \in cloud

\* A container an owed teardown names still holds work to be saved out of it,
\* and no pass deletes it (_names_still_in_use reads the registry, then debts).
OwedContainerStands == owed \subseteq cloud

\* Nothing is deleted under a user or under a debt.
NamedContainersStand == HandedContainerStands /\ OwedContainerStands

\* No container stands that nothing will ever delete: a ledger row, a record or
\* a debt names it, or the fill that made it is still at work on it.
NoOrphan ==
    \A n \in cloud : \/ ~NoRow(n) \/ Registered(n) \/ n \in owed
                     \/ \E f \in Fills : fill[f].name = n

\* A container let go is never served again: a retiring row only ever goes.
RetiringNeverTaken ==
    [][\A n \in Names : row[n].st = "retiring" => row'[n].st \in {"retiring", "none"}]_vars

\* Liveness: no row is left claimed, filling or retiring for ever, whoever died.
RowsResolve ==
    \A n \in Names : row[n].st \in {"filling", "claimed", "retiring"}
                        ~> row[n].st \in {"none", "ready"}
=============================================================================
