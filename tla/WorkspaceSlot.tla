--------------------------- MODULE WorkspaceSlot ---------------------------
(***************************************************************************)
(* One person's one workspace: starting it, working in it, leaving it and  *)
(* destroying it (build_sessions/manager.py, locks.py, reaper.py,          *)
(* shutdown.py and snapshot.py; the lease loop of turns/engine.py).        *)
(*                                                                         *)
(* Starts and turns run in the API process, one start at a time under the  *)
(* person's start lock.  The shutdown routine runs detached in the API and *)
(* again from the worker's sweep of lapsed claims; the registry sweep runs *)
(* in the worker.  They share the person's Redis keys, the ledger of owed  *)
(* teardowns, Azure and the saved copies, and interleave between any two   *)
(* calls.  Consecutive Redis calls that no other actor can tell apart are  *)
(* one step.  How a container is created and first recorded is             *)
(* SandboxPool's subject and is one step here.                             *)
(***************************************************************************)
EXTENDS Naturals

CONSTANTS
    Apps,           \* the person's projects, one app each
    Names,          \* container names, minted fresh for every birth
    Edits,          \* pieces of work, each made once
    MaxStarts,      \* starts in a behaviour; a start's number is its token
    Strikes,        \* _STRIKES_BEFORE_IT_GOES
    Unanswering,    \* a container, Azure or the store may not answer
    Cancels,        \* a request may be cancelled, and the API may die
    RegistrySweep,  \* the registry pass runs (production only)
    NoApp, NoName

ASSUME SlotAssumption ==
    /\ NoName \notin Names
    /\ NoApp \notin Apps
    /\ MaxStarts \in Nat
    /\ Strikes \in Nat \ {0}
    /\ Unanswering \in BOOLEAN
    /\ Cancels \in BOOLEAN
    /\ RegistrySweep \in BOOLEAN

VARIABLES
    lock,    \* the holder's token, 0 when free
    reg,     \* the registry record
    marker,  \* the start-in-flight marker
    lease,   \* the liveness lease is current
    beat,    \* the heartbeat is alive
    cloud,   \* containers that stand
    appOf,   \* the app a container was made for
    tree,    \* the work a container holds
    saved,   \* the work each app's saved copy holds
    madeFor, \* the app each piece of work was made for
    owed,    \* the ledger of owed teardowns, one row a name at most
    starts,  \* starts admitted so far
    start,   \* the start holding the start lock
    turn,    \* each token's turn
    active,  \* the session in _active_by_user, by token
    runs,    \* shutdown routines running
    reap     \* the registry sweep's reap of this person

redisVars == <<lock, reg, marker, lease, beat>>
cloudVars == <<cloud, appOf, tree, saved, madeFor>>
startVars == <<starts, start, turn, active>>
vars == <<redisVars, cloudVars, owed, startVars, runs, reap>>

----------------------------------------------------------------------------
\* Types and the initial state.

Tokens == 1 .. MaxStarts
Name0 == Names \union {NoName}
App0 == Apps \union {NoApp}
NoRecord == [name |-> NoName, ready |-> FALSE, stay |-> FALSE]
Records == {NoRecord} \union [name : Names, ready : BOOLEAN, stay : BOOLEAN]
Rows == [st : {"none", "claimed", "lapsed"}, back : BOOLEAN,
         tries : 0 .. Strikes, turn : 0 .. MaxStarts]
StartPCs == {"idle", "door", "owe", "handover", "lock", "reclaim", "clear",
             "mark", "resolve", "way", "wayclear", "birth", "settle",
             "finish", "undo", "unlock"}
StartRecs == [pc : StartPCs, app : App0, kind : {"turn", "relaunch"},
              name : Name0, leaving : BOOLEAN, fresh : BOOLEAN]
TurnPCs == {"none", "working", "ending", "pardoned", "freed"}
TurnRecs == [pc : TurnPCs, name : Name0, app : App0]
RunPCs == {"attach", "stop", "copy", "mark", "teardown", "letgo", "look",
           "free", "close"}
Runs == [name : Names, by : {"api", "worker"}, pc : RunPCs, back : BOOLEAN,
         tries : 0 .. Strikes, turn : 0 .. MaxStarts, read : BOOLEAN,
         kept : SUBSET Edits, keep : BOOLEAN]
ReapRecs == [pc : {"idle", "judge", "copy", "mark", "teardown", "letgo", "free"},
             name : Name0, read : BOOLEAN, kept : SUBSET Edits]

TypeOK ==
    /\ lock \in 0 .. MaxStarts
    /\ reg \in Records
    /\ marker \in BOOLEAN /\ lease \in BOOLEAN /\ beat \in BOOLEAN
    /\ cloud \subseteq Names
    /\ appOf \in [Names -> App0]
    /\ tree \in [Names -> SUBSET Edits]
    /\ saved \in [Apps -> SUBSET Edits]
    /\ madeFor \in [Edits -> App0]
    /\ owed \in [Names -> Rows]
    /\ starts \in 0 .. MaxStarts
    /\ start \in StartRecs
    /\ turn \in [Tokens -> TurnRecs]
    /\ active \in 0 .. MaxStarts
    /\ runs \subseteq Runs
    /\ reap \in ReapRecs

NoRow == [st |-> "none", back |-> FALSE, tries |-> 0, turn |-> 0]
NoStart == [pc |-> "idle", app |-> NoApp, kind |-> "turn", name |-> NoName,
            leaving |-> FALSE, fresh |-> FALSE]
NoTurn == [pc |-> "none", name |-> NoName, app |-> NoApp]
NoReap == [pc |-> "idle", name |-> NoName, read |-> FALSE, kept |-> {}]

Init ==
    /\ lock = 0 /\ reg = NoRecord
    /\ marker = FALSE /\ lease = FALSE /\ beat = FALSE
    /\ cloud = {}
    /\ appOf = [n \in Names |-> NoApp]
    /\ tree = [n \in Names |-> {}]
    /\ saved = [a \in Apps |-> {}]
    /\ madeFor = [e \in Edits |-> NoApp]
    /\ owed = [n \in Names |-> NoRow]
    /\ starts = 0 /\ start = NoStart
    /\ turn = [t \in Tokens |-> NoTurn]
    /\ active = 0
    /\ runs = {} /\ reap = NoReap

----------------------------------------------------------------------------
\* What the actors share.

Recorded == reg # NoRecord
Owed(n) == owed[n].st # "none"
Serves(a) == reg.ready /\ appOf[reg.name] = a
Fresh == {n \in Names : appOf[n] = NoApp}

\* delete_registry_if_it_still_names, and the stay on the record that stands.
Cleared(n) == IF reg.name = n THEN NoRecord ELSE reg
Ending(n) == IF reg.name = n THEN [reg EXCEPT !.ready = FALSE] ELSE reg
StayedAnyway == [reg EXCEPT !.stay = TRUE]
Stayed == IF Recorded THEN [reg EXCEPT !.stay = TRUE] ELSE reg

\* A deleted container takes its tree with it.
Delete(n) ==
    /\ cloud' = cloud \ {n}
    /\ tree' = [tree EXCEPT ![n] = {}]

\* release_lock_as_holder: only the holder's own token.
Released(t) == IF lock = t THEN 0 ELSE lock

\* claim_the_teardown_we_owe: claimed from the first, nothing on a conflict.
DebtUnclaimed(n, back, t) ==
    IF Owed(n) THEN owed
    ELSE [owed EXCEPT ![n] = [st |-> "lapsed", back |-> back, tries |-> 1,
                              turn |-> t]]
Debt(n, back, t) ==
    IF Owed(n) THEN owed
    ELSE [owed EXCEPT ![n] = [st |-> "claimed", back |-> back, tries |-> 1,
                              turn |-> t]]

\* run_the_shutdown over the row as it was claimed.
RunOf(n, by, row) ==
    [name |-> n, by |-> by, pc |-> "attach", back |-> row.back,
     tries |-> row.tries, turn |-> row.turn, read |-> FALSE, kept |-> {},
     keep |-> FALSE]
Spawned(n) == runs \union {RunOf(n, "api", owed[n])}

----------------------------------------------------------------------------
\* A start, under the person's start lock.

To(pc) == start' = [start EXCEPT !.pc = pc]

\* _claim_the_one_build_slot refuses the project a live session holds.
Admit(a, kind) ==
    /\ start.pc = "idle" /\ starts < MaxStarts
    /\ active # 0 => turn[active].app # a
    /\ starts' = starts + 1
    /\ start' = [NoStart EXCEPT !.pc = "door", !.app = a, !.kind = kind]
    /\ UNCHANGED <<redisVars, cloudVars, owed, turn, active, runs, reap>>

\* _show_the_outgoing_project_the_door: READY and another project's, or nothing.
Door ==
    /\ start.pc = "door"
    /\ start' =
        IF ~reg.ready \/ Serves(start.app) THEN [start EXCEPT !.pc = "lock"]
        ELSE IF Owed(reg.name)
        THEN [start EXCEPT !.pc = "lock", !.leaving = TRUE]
        ELSE [start EXCEPT !.pc = "owe", !.name = reg.name]
    /\ UNCHANGED <<redisVars, cloudVars, owed, starts, turn, active, runs, reap>>

\* The turn the switch leaves mid-reply, if the live session holds that app.
TurnIn(a) ==
    IF active # 0 /\ turn[active].app = a /\ turn[active].pc = "working"
    THEN active ELSE 0

OweOutgoing ==
    /\ start.pc = "owe"
    /\ owed' = Debt(start.name, TRUE, TurnIn(appOf[start.name]))
    /\ To("handover")
    /\ UNCHANGED <<redisVars, cloudVars, starts, turn, active, runs, reap>>

HandOver ==
    /\ start.pc = "handover"
    /\ runs' = Spawned(start.name)
    /\ start' = [start EXCEPT !.pc = "lock", !.leaving = TRUE]
    /\ UNCHANGED <<redisVars, cloudVars, owed, starts, turn, active, reap>>

\* _holding_user_lock.  The lock is reaped and taken in one step: only starts
\* take it, one at a time.
TakeLockKeepingRecord ==
    /\ start.pc = "lock"
    /\ start.leaving \/ Serves(start.app)
    /\ lock' = starts
    /\ To("mark")
    /\ UNCHANGED <<reg, marker, lease, beat, cloudVars, owed, starts, turn,
                   active, runs, reap>>
TakeLock ==
    /\ start.pc = "lock"
    /\ start.leaving \/ Serves(start.app)
    /\ reg' = IF start.leaving THEN NoRecord ELSE reg
    /\ lock' = starts
    /\ To("mark")
    /\ UNCHANGED <<marker, lease, beat, cloudVars, owed, starts, turn, active,
                   runs, reap>>

\* _reclaim_the_slot: the lease goes first.
Reclaim ==
    /\ start.pc = "lock"
    /\ ~start.leaving /\ ~Serves(start.app)
    /\ lease' = FALSE
    /\ To("reclaim")
    /\ UNCHANGED <<lock, reg, marker, beat, cloudVars, owed, starts, turn,
                   active, runs, reap>>

\* _owe_the_holder, never with a write-back; every record carries a birthday.
OweHolder(pc, next, empty) ==
    /\ start.pc = pc
    /\ owed' = IF Recorded THEN Debt(reg.name, FALSE, 0) ELSE owed
    /\ start' = IF Recorded
                THEN [start EXCEPT !.pc = next, !.name = reg.name,
                                   !.fresh = ~Owed(reg.name)]
                ELSE [start EXCEPT !.pc = empty]
    /\ UNCHANGED <<reg, marker, lease, beat, cloudVars, starts, turn, active,
                   runs, reap>>

ReclaimHolder ==
    /\ OweHolder("reclaim", "clear", "mark")
    /\ lock' = IF Recorded THEN lock ELSE starts

ClearHolder(pc, next) ==
    /\ start.pc = pc
    /\ reg' = Cleared(start.name)
    /\ runs' = IF start.fresh THEN Spawned(start.name) ELSE runs
    /\ start' = [start EXCEPT !.pc = next, !.name = NoName, !.fresh = FALSE]
    /\ UNCHANGED <<marker, lease, beat, cloudVars, owed, starts, turn, active,
                   reap>>

ReclaimClear ==
    /\ ClearHolder("clear", "mark")
    /\ lock' = starts

Mark ==
    /\ start.pc = "mark"
    /\ marker' = TRUE
    /\ start' = [start EXCEPT !.pc = "resolve", !.name = NoName,
                              !.leaving = FALSE]
    /\ UNCHANGED <<lock, reg, lease, beat, cloudVars, owed, starts, turn,
                   active, runs, reap>>

\* _resolve_sandbox and _admit_a_start: attach to what the record names, unless
\* it is ending or gone.  A relaunch is refused without a saved copy.
Attachable == reg.ready /\ reg.name \in cloud
Resolve ==
    /\ start.pc = "resolve"
    /\ start.kind = "relaunch" => saved[start.app] # {}
    /\ start' = IF Attachable
                THEN [start EXCEPT !.pc = "settle", !.name = reg.name]
                ELSE [start EXCEPT !.pc = "way"]
    /\ UNCHANGED <<redisVars, cloudVars, owed, starts, turn, active, runs, reap>>

\* _clear_the_way_for_a_birth.
WayHolder ==
    /\ OweHolder("way", "wayclear", "birth")
    /\ UNCHANGED lock

WayClear ==
    /\ ClearHolder("wayclear", "birth")
    /\ UNCHANGED lock

\* restore_from_snapshot or provision_new, and the record, which is written
\* only where none stands.
Birth(n) ==
    /\ start.pc = "birth"
    /\ n \in Fresh /\ ~Recorded
    /\ cloud' = cloud \union {n}
    /\ appOf' = [appOf EXCEPT ![n] = start.app]
    /\ tree' = [tree EXCEPT ![n] = saved[start.app]]
    /\ reg' = [name |-> n, ready |-> TRUE, stay |-> FALSE]
    /\ start' = [start EXCEPT !.pc = "settle", !.name = n, !.fresh = TRUE]
    /\ UNCHANGED <<lock, marker, lease, beat, saved, madeFor, owed, starts,
                   turn, active, runs, reap>>

\* The heartbeat of a turn's start; the stay of a relaunch, which spares.
Settle ==
    /\ start.pc = "settle"
    /\ beat' = (beat \/ start.kind = "turn")
    /\ reg' = IF start.kind = "relaunch" THEN Stayed ELSE reg
    /\ To("finish")
    /\ UNCHANGED <<lock, marker, lease, cloudVars, owed, starts, turn, active,
                   runs, reap>>

\* A turn's start adopts the lock and registers its session; a relaunch lets
\* the lock go.
Finish ==
    /\ start.pc = "finish"
    /\ marker' = FALSE
    /\ start' = NoStart
    /\ IF start.kind = "turn"
       THEN /\ turn' = [turn EXCEPT ![starts] =
                           [pc |-> "working", name |-> start.name,
                            app |-> start.app]]
            /\ active' = starts
            /\ UNCHANGED lock
       ELSE /\ lock' = Released(starts)
            /\ UNCHANGED <<turn, active>>
    /\ UNCHANGED <<reg, lease, beat, cloudVars, owed, starts, runs, reap>>

\* _compensate_lock_and_container: the marker, then what the start made, the
\* lock last.
Fail ==
    /\ \/ /\ start.pc \in {"resolve", "way", "wayclear", "birth", "settle"}
          /\ Unanswering \/ Cancels
       \/ /\ start.pc = "resolve" /\ start.kind = "relaunch"
          /\ saved[start.app] = {}
       \/ start.pc = "birth" /\ (Recorded \/ Fresh = {})
    /\ marker' = FALSE
    /\ To(IF start.pc = "settle" /\ start.fresh THEN "undo" ELSE "unlock")
    /\ UNCHANGED <<lock, reg, lease, beat, cloudVars, owed, starts, turn,
                   active, runs, reap>>

Undo ==
    /\ start.pc = "undo"
    /\ \/ Delete(start.name) /\ reg' = Cleared(start.name)
       \/ Unanswering /\ UNCHANGED <<cloud, tree, reg>>
    /\ To("unlock")
    /\ UNCHANGED <<lock, marker, lease, beat, appOf, saved, madeFor, owed,
                   starts, turn, active, runs, reap>>

Unlock ==
    /\ start.pc = "unlock"
    /\ lock' = Released(starts)
    /\ start' = NoStart
    /\ UNCHANGED <<reg, marker, lease, beat, cloudVars, owed, starts, turn,
                   active, runs, reap>>

\* A request cancelled before the lock is held has nothing to compensate.
Cancel ==
    /\ Cancels
    /\ start.pc \in {"door", "owe", "handover", "lock", "reclaim", "clear"}
    /\ start' = NoStart
    /\ UNCHANGED <<redisVars, cloudVars, owed, starts, turn, active, runs, reap>>

StartStep ==
    \/ \E a \in Apps, k \in {"turn", "relaunch"} : Admit(a, k)
    \/ Door \/ OweOutgoing \/ HandOver
    \/ TakeLock \/ Reclaim \/ ReclaimHolder \/ ReclaimClear \/ Mark
    \/ Resolve \/ WayHolder \/ WayClear \/ (\E n \in Names : Birth(n))
    \/ Settle \/ Finish \/ Fail \/ Undo \/ Unlock \/ Cancel

----------------------------------------------------------------------------
\* A turn, and the clocks behind its claims.

\* The lease loop runs until _stop_liveness_lease, past the session's end.
Renewing == {t \in Tokens : turn[t].pc \in {"working", "ending", "pardoned", "freed"}}

\* One tick of _hold_liveness_lease; the lock's own renewal changes no holder.
Renew(t) ==
    /\ t \in Renewing
    /\ lease' = (lease \/ Recorded)
    /\ beat' = TRUE
    /\ UNCHANGED <<lock, reg, marker, cloudVars, owed, startVars, runs, reap>>

Edit(t, e) ==
    /\ turn[t].pc = "working"
    /\ turn[t].name \in cloud
    /\ madeFor[e] = NoApp
    /\ madeFor' = [madeFor EXCEPT ![e] = turn[t].app]
    /\ tree' = [tree EXCEPT ![turn[t].name] = @ \union {e}]
    /\ UNCHANGED <<redisVars, cloud, appOf, saved, owed, startVars, runs, reap>>

TurnTo(t, pc) == turn' = [turn EXCEPT ![t].pc = pc]

TurnEnds(t) ==
    /\ turn[t].pc = "working"
    /\ TurnTo(t, "ending")
    /\ UNCHANGED <<redisVars, cloudVars, owed, starts, start, active, runs, reap>>

\* _pardon_the_container: the stay while the lock is still held, then the lock.
Pardon(t) ==
    /\ turn[t].pc = "ending"
    /\ reg' = Stayed
    /\ TurnTo(t, "pardoned")
    /\ UNCHANGED <<lock, marker, lease, beat, cloudVars, owed, starts, start,
                   active, runs, reap>>

\* finish_turn_sandbox: the slot goes only if it is still this session's.
FreeSlot(t) ==
    /\ turn[t].pc = "pardoned"
    /\ lock' = Released(t)
    /\ active' = IF active = t THEN 0 ELSE active
    /\ TurnTo(t, "freed")
    /\ UNCHANGED <<reg, marker, lease, beat, cloudVars, owed, starts, start,
                   runs, reap>>

\* _stop_liveness_lease, last, and without a comparison.
DropLease(t) ==
    /\ turn[t].pc = "freed"
    /\ lease' = FALSE
    /\ turn' = [turn EXCEPT ![t] = NoTurn]
    /\ UNCHANGED <<lock, reg, marker, beat, cloudVars, owed, starts, start,
                   active, runs, reap>>

\* The keys' own expiry, once nothing renews them.
Lapse ==
    /\ \/ /\ lease /\ Renewing = {}
          /\ lease' = FALSE /\ UNCHANGED <<lock, reg, marker, beat>>
       \/ /\ beat /\ Renewing = {} /\ start.pc # "finish"
          /\ beat' = FALSE /\ UNCHANGED <<lock, reg, marker, lease>>
       \/ /\ reg.stay
          /\ reg' = [reg EXCEPT !.stay = FALSE]
          /\ UNCHANGED <<lock, marker, lease, beat>>
       \/ /\ marker /\ start.pc = "idle"
          /\ marker' = FALSE /\ UNCHANGED <<lock, reg, lease, beat>>
       \/ /\ lock # 0 /\ lock \notin Renewing
          /\ start.pc = "idle" \/ lock # starts
          /\ lock' = 0 /\ UNCHANGED <<reg, marker, lease, beat>>
    /\ UNCHANGED <<cloudVars, owed, startVars, runs, reap>>

\* The API process dies: its starts, turns and detached routines go with it.
ApiDies ==
    /\ Cancels
    /\ start.pc # "idle" \/ active # 0 \/ \E r \in runs : r.by = "api"
    /\ start' = NoStart
    /\ turn' = [t \in Tokens |-> NoTurn]
    /\ active' = 0
    /\ runs' = {r \in runs : r.by # "api"}
    /\ UNCHANGED <<redisVars, cloudVars, owed, starts, reap>>

TurnStep ==
    \/ \E t \in Tokens :
          \/ Renew(t) \/ TurnEnds(t) \/ Pardon(t) \/ FreeSlot(t) \/ DropLease(t)
          \/ \E e \in Edits : Edit(t, e)
    \/ Lapse \/ ApiDies

----------------------------------------------------------------------------
\* The shutdown routine.

\* What a routine at `r.pc` still has a use for.
Needed(r) ==
    [r EXCEPT !.back = @ /\ r.pc = "attach",
              !.turn = IF r.pc \in {"attach", "stop"} THEN @ ELSE 0,
              !.tries = IF r.pc \in {"attach", "stop", "copy"} THEN @ ELSE 0,
              !.read = @ /\ r.pc \in {"mark", "teardown"},
              !.kept = IF r.pc \in {"mark", "teardown"} THEN @ ELSE {}]
Becomes(r, s) == runs' = (runs \ {r}) \union {Needed(s)}
RunTo(r, pc) == Becomes(r, [r EXCEPT !.pc = pc])

\* _spare_or_go_in_unread: spared inside the strikes; past them, or past the
\* age ceiling, destroyed unread.
UnreadSpared(r) == Becomes(r, [r EXCEPT !.pc = "close", !.keep = TRUE])
Unread(r) ==
    \/ r.tries < Strikes /\ Becomes(r, [r EXCEPT !.pc = "close", !.keep = TRUE])
    \/ RunTo(r, "mark")

\* A row that writes nothing back never reaches the container.
RunAttachUnstopped(r) ==
    /\ r.pc = "attach"
    /\ \/ ~r.back /\ RunTo(r, "mark")
       \/ r.back /\ r.name \notin cloud /\ RunTo(r, "letgo")
       \/ r.back /\ r.name \in cloud /\ RunTo(r, "copy")
       \/ r.back /\ Unanswering /\ Unread(r)
    /\ UNCHANGED <<redisVars, cloudVars, owed, startVars, reap>>
RunAttach(r) ==
    /\ r.pc = "attach"
    /\ \/ ~r.back /\ RunTo(r, "mark")
       \/ r.back /\ r.name \notin cloud /\ RunTo(r, "letgo")
       \/ /\ r.back /\ r.name \in cloud
          /\ RunTo(r, IF r.turn # 0 THEN "stop" ELSE "copy")
       \/ r.back /\ Unanswering /\ Unread(r)
    /\ UNCHANGED <<redisVars, cloudVars, owed, startVars, reap>>

\* _stop_the_outgoing_turn: the turn ends, or is cut in the process that runs
\* it; the worker runs none, and goes on when its wait is over.
RunStopUncut(r) ==
    /\ r.pc = "stop"
    /\ RunTo(r, "copy")
    /\ UNCHANGED <<redisVars, cloudVars, owed, startVars, reap>>
RunStop(r) ==
    /\ r.pc = "stop"
    /\ \/ turn[r.turn].pc # "working" /\ UNCHANGED turn
       \/ r.by = "api" /\ turn[r.turn].pc = "working" /\ TurnTo(r.turn, "ending")
       \/ r.by = "worker" /\ UNCHANGED turn
    /\ RunTo(r, "copy")
    /\ UNCHANGED <<redisVars, cloudVars, owed, starts, start, active, reap>>

\* write_the_tree_back into the app the row names.
RunCopy(r) ==
    /\ r.pc = "copy"
    /\ \/ /\ r.name \in cloud
          /\ saved' = [saved EXCEPT ![appOf[r.name]] = tree[r.name]]
          /\ Becomes(r, [r EXCEPT !.pc = "mark", !.read = TRUE,
                                  !.kept = tree[r.name]])
       \/ /\ Unanswering \/ r.name \notin cloud
          /\ Unread(r)
          /\ UNCHANGED saved
    /\ UNCHANGED <<redisVars, cloud, appOf, tree, madeFor, owed, startVars, reap>>

RunMark(r) ==
    /\ r.pc = "mark"
    /\ reg' = Ending(r.name)
    /\ RunTo(r, "teardown")
    /\ UNCHANGED <<lock, marker, lease, beat, cloudVars, owed, startVars, reap>>

\* The client clears the record too where this process registered or attached.
RunTeardown(r) ==
    /\ r.pc = "teardown"
    /\ \/ /\ Delete(r.name)
          /\ \/ UNCHANGED reg
             \/ r.by = "api" /\ reg' = Cleared(r.name)
          /\ RunTo(r, "letgo")
       \/ /\ Unanswering
          /\ Becomes(r, [r EXCEPT !.pc = "letgo", !.keep = TRUE])
          /\ UNCHANGED <<cloud, tree, reg>>
    /\ UNCHANGED <<lock, marker, lease, beat, appOf, saved, madeFor, owed,
                   startVars, reap>>

\* _let_go_of_the_slot: the record if it is still this container's, and then
\* the lease and the lock if nothing has come in its place.
RunLetGo(r) ==
    /\ r.pc = "letgo"
    /\ reg' = Cleared(r.name)
    /\ RunTo(r, IF reg.name = r.name THEN "look" ELSE "close")
    /\ UNCHANGED <<lock, marker, lease, beat, cloudVars, owed, startVars, reap>>

RunLook(r) ==
    /\ r.pc = "look"
    /\ RunTo(r, IF Recorded \/ marker THEN "close" ELSE "free")
    /\ UNCHANGED <<redisVars, cloudVars, owed, startVars, reap>>

RunFree(r) ==
    /\ r.pc = "free"
    /\ lease' = FALSE /\ lock' = 0
    /\ RunTo(r, "close")
    /\ UNCHANGED <<reg, marker, beat, cloudVars, owed, startVars, reap>>

\* _settle_the_debt, or _keep_the_debt with the next claim's window.  A ledger
\* that does not answer is logged and passed over.
RunClose(r) ==
    /\ r.pc = "close"
    /\ runs' = runs \ {r}
    /\ \/ owed' = [owed EXCEPT ![r.name] =
                    IF ~r.keep THEN NoRow
                    ELSE IF Owed(r.name) THEN [@ EXCEPT !.st = "claimed"]
                    ELSE @]
       \/ Unanswering /\ UNCHANGED owed
    /\ UNCHANGED <<redisVars, cloudVars, startVars, reap>>

\* The window outlasts the work done under a claim, and a start's own steps.
ClaimLapses(n) ==
    /\ owed[n].st = "claimed"
    /\ \A r \in runs : r.name # n
    /\ ~(start.name = n /\ start.pc \in {"owe", "handover", "clear", "wayclear"})
    /\ owed' = [owed EXCEPT ![n].st = "lapsed"]
    /\ UNCHANGED <<redisVars, cloudVars, startVars, runs, reap>>

\* sweep_owed_teardowns: one row at a time, claimed only where it has lapsed.
SweepClaims(n) ==
    /\ owed[n].st = "lapsed"
    /\ \A r \in runs : r.by # "worker"
    /\ LET row == [owed[n] EXCEPT !.st = "claimed",
                     !.tries = IF @ < Strikes THEN @ + 1 ELSE @]
       IN /\ owed' = [owed EXCEPT ![n] = row]
          /\ runs' = runs \union {RunOf(n, "worker", row)}
    /\ UNCHANGED <<redisVars, cloudVars, startVars, reap>>

RunStep(r) ==
    \/ RunAttach(r) \/ RunStop(r) \/ RunCopy(r) \/ RunMark(r)
    \/ RunTeardown(r) \/ RunLetGo(r) \/ RunLook(r) \/ RunFree(r)
    \/ RunClose(r)

OwedStep ==
    \/ \E r \in runs : RunStep(r)
    \/ \E n \in Names : ClaimLapses(n) \/ SweepClaims(n)

----------------------------------------------------------------------------
\* The registry sweep.

\* _a_claim_still_stands, ages within every ceiling.
ClaimStands == marker \/ lease \/ (lock # 0 /\ beat) \/ reg.stay

\* sweep_all visits the people its scan found a record for.
ReapScan ==
    /\ RegistrySweep
    /\ reap.pc = "idle" /\ Recorded
    /\ reap' = [NoReap EXCEPT !.pc = "judge"]
    /\ UNCHANGED <<redisVars, cloudVars, owed, startVars, runs>>

\* reconcile_user, and reap_user's reading of the record.  A person with no
\* record by now has an orphaned lock cleared.
ReapJudge ==
    /\ reap.pc = "judge"
    /\ lock' = IF Recorded THEN lock ELSE 0
    /\ reap' = IF Recorded /\ ~ClaimStands
               THEN [reap EXCEPT !.pc = "copy", !.name = reg.name] ELSE NoReap
    /\ UNCHANGED <<reg, marker, lease, beat, cloudVars, owed, startVars, runs>>

ReapTo(pc) == reap' = [reap EXCEPT !.pc = pc]

\* _take_the_copy_we_promised, from whatever the record names by now.  With
\* nothing to reach, a saved copy must stand in.
ReapCopy ==
    /\ reap.pc = "copy"
    /\ LET app == appOf[reap.name]
       IN \/ /\ Attachable /\ reg.name = reap.name
             /\ saved' = [saved EXCEPT ![app] = tree[reg.name]]
             /\ reap' = [reap EXCEPT !.pc = "mark", !.read = TRUE,
                                     !.kept = tree[reg.name]]
          \/ /\ Attachable => Unanswering \/ reg.name # reap.name
             /\ reap' = IF ~Attachable /\ saved[app] # {}
                        THEN [reap EXCEPT !.pc = "mark"] ELSE NoReap
             /\ UNCHANGED saved
    /\ UNCHANGED <<redisVars, cloud, appOf, tree, madeFor, owed, startVars, runs>>

ReapMark ==
    /\ reap.pc = "mark"
    /\ reg' = Ending(reap.name)
    /\ ReapTo("teardown")
    /\ UNCHANGED <<lock, marker, lease, beat, cloudVars, owed, startVars, runs>>

\* A deletion Azure refuses becomes a debt before the slot is let go.
ReapTeardownOwesNothing ==
    /\ reap.pc = "teardown"
    /\ \/ Delete(reap.name)
       \/ Unanswering /\ UNCHANGED <<cloud, tree>>
    /\ reap' = [NoReap EXCEPT !.pc = "letgo", !.name = reap.name]
    /\ UNCHANGED <<redisVars, owed, appOf, saved, madeFor, startVars, runs>>
ReapTeardown ==
    /\ reap.pc = "teardown"
    /\ \/ Delete(reap.name) /\ UNCHANGED owed
       \/ /\ Unanswering
          /\ owed' = Debt(reap.name, TRUE, 0)
          /\ UNCHANGED <<cloud, tree>>
    /\ reap' = [NoReap EXCEPT !.pc = "letgo", !.name = reap.name]
    /\ UNCHANGED <<redisVars, appOf, saved, madeFor, startVars, runs>>

\* _let_go_unless_taken.
ReapLetGo ==
    /\ reap.pc = "letgo"
    /\ reg' = Cleared(reap.name)
    /\ reap' = IF reg.name # reap.name /\ (Recorded \/ marker) THEN NoReap
               ELSE [NoReap EXCEPT !.pc = "free"]
    /\ UNCHANGED <<lock, marker, lease, beat, cloudVars, owed, startVars, runs>>

ReapFree ==
    /\ reap.pc = "free"
    /\ lease' = FALSE /\ lock' = 0
    /\ reap' = NoReap
    /\ UNCHANGED <<reg, marker, beat, cloudVars, owed, startVars, runs>>

ReapStep == ReapScan \/ ReapJudge \/ ReapCopy \/ ReapMark \/ ReapTeardown
            \/ ReapLetGo \/ ReapFree

Next == StartStep \/ TurnStep \/ OwedStep \/ ReapStep

Spec == Init /\ [][Next]_vars

\* Detached routines and starts run on; the worker's pass comes round every
\* five minutes; a delete or a ledger write that may fail lands in the end.
DeleteLands(n) ==
    /\ \E r \in runs : r.name = n /\ RunTeardown(r)
    /\ \A s \in runs' : s.name = n => ~s.keep
SettleLands(n) ==
    \E r \in runs : r.name = n /\ ~r.keep /\ RunClose(r) /\ ~Owed(n)'
Fairness ==
    /\ WF_vars(StartStep)
    /\ \A n \in Names :
        /\ WF_vars(\E r \in runs : r.name = n /\ RunStep(r))
        /\ WF_vars(ClaimLapses(n))
        /\ SF_vars(SweepClaims(n))
        /\ SF_vars(DeleteLands(n))
        /\ SF_vars(SettleLands(n))
FairSpec == Spec /\ Fairness

----------------------------------------------------------------------------
\* Properties.

\* Every container that stands is named by the person's record or by a debt,
\* whichever call failed or process died: nothing else could ever find it.
NoOrphan == \A n \in cloud : reg.name = n \/ Owed(n)

\* A saved copy holds only its own app's work: no ending writes another
\* project's tree over it, though every reach goes through a record that moves.
SavedCopyIsItsOwn == \A a \in Apps : \A e \in saved[a] : madeFor[e] = a

\* A turn works in a container of its own project.
WorksInItsOwn ==
    \A t \in Tokens :
        turn[t].pc = "working" => appOf[turn[t].name] = turn[t].app

\* A project is worked in and saved as itself.
EachProjectItsOwn == WorksInItsOwn /\ SavedCopyIsItsOwn

\* A container is not taken from under the turn working in it.
WorkingContainerStands ==
    \A t \in Tokens : turn[t].pc = "working" => turn[t].name \in cloud

\* What a write-back read is all the container holds when it is deleted
\* (finish_turn_sandbox: never destroyed without being written back first).
Doomed(r) == r.pc \in {"mark", "teardown"} /\ r.read /\ r.name \in cloud
WrittenBackFirst ==
    \A r \in runs \union {reap} : Doomed(r) => tree[r.name] \subseteq r.kept

\* Two parties never destroy one container: one routine to a claim.
OneRun == \A r, s \in runs : r.name = s.name => r = s

\* Every debt is settled in the end, though containers never answer, deletes
\* are refused and the process that published the debt dies.
DebtsSettle == \A n \in Names : Owed(n) ~> ~Owed(n)

============================================================================
