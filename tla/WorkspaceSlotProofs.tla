------------------------ MODULE WorkspaceSlotProofs ------------------------
(***************************************************************************)
(* What WorkspaceSlot's runs check of one person's workspace, for any      *)
(* number of projects, containers and starts, whatever fails to answer,    *)
(* is cancelled or dies, and whether or not the registry sweep runs.       *)
(***************************************************************************)
EXTENDS WorkspaceSlot, TLAPS

----------------------------------------------------------------------------
\* The invariant.

\* A name is an app's from its birth on, and is not minted again.
Born(n) == n \in Names /\ appOf[n] \in Apps
AllBorn ==
    /\ \A n \in cloud : Born(n)
    /\ Recorded => Born(reg.name)
    /\ \A n \in Names : Owed(n) => Born(n)
Placed == AllBorn /\ NoOrphan

\* A routine works under the claim on its row, alone, and says the row is
\* settled only of a container that is gone.
RunsKnow == \A r \in runs : r.pc = "stop" => r.turn # 0
UnderAClaim == \A r \in runs : owed[r.name].st = "claimed"
Closing == {"letgo", "look", "free", "close"}
SettlesTheGone == \A r \in runs : r.pc \in Closing /\ ~r.keep => r.name \notin cloud
Routines == RunsKnow /\ OneRun /\ UnderAClaim /\ SettlesTheGone

\* Where a start is, it has what its next steps read.
Naming == {"owe", "handover", "clear", "wayclear", "settle", "finish", "undo"}
StartKnows ==
    /\ start.pc # "idle" => start.app \in Apps /\ starts # 0
    /\ start.pc \in Naming => Born(start.name)
    /\ start.pc = "door" => ~start.leaving

\* A start that will hand a routine its row has the row to itself.
Unclaimed(n) == (\A r \in runs : r.name # n) /\ owed[n].st # "lapsed"
HandsOver ==
    \/ start.pc = "handover"
    \/ start.pc \in {"clear", "wayclear"} /\ start.fresh
StartHasTheRow ==
    /\ start.pc = "owe" \/ HandsOver => Unclaimed(start.name)
    /\ HandsOver => owed[start.name].st = "claimed"

\* Nobody clears a record before what it names is owed or gone.
Covered(n) == n \in cloud => Owed(n)
StartClears ==
    /\ start.pc \in {"clear", "wayclear"} => Covered(start.name)
    /\ start.pc \in {"owe", "handover", "clear", "wayclear"} =>
         reg.name \in {start.name, NoName}
    /\ start.pc = "lock" /\ start.leaving => Covered(reg.name)

\* Past the lock the record, if any, is of the start's own project.
Admitted ==
    /\ start.pc \in {"mark", "resolve", "way", "wayclear", "birth"} /\ Recorded =>
         appOf[reg.name] = start.app
    /\ start.pc \in {"settle", "finish"} => appOf[start.name] = start.app
Starting == StartKnows /\ StartHasTheRow /\ StartClears /\ Admitted

Reaping ==
    /\ reap.pc \in {"copy", "mark", "teardown", "letgo"} => Born(reap.name)
    /\ reap.pc = "letgo" => Covered(reap.name)

\* A container holds only its own app's work.
TreesAreTheirOwn ==
    \A n \in Names : \A e \in tree[n] : Born(n) /\ madeFor[e] = appOf[n]
TurnsKnow == \A t \in Tokens : turn[t].pc = "working" => Born(turn[t].name)
OwnWork == TurnsKnow /\ TreesAreTheirOwn /\ EachProjectItsOwn

IInv ==
    /\ TypeOK
    /\ Placed      \* what stands is named, and by names once born
    /\ Routines    \* the shutdown routines
    /\ Starting    \* the start under the lock
    /\ Reaping     \* the registry sweep's reap
    /\ OwnWork     \* whose work is where

----------------------------------------------------------------------------
\* Words and records.

\* The empty record is the one that names nothing.
LEMMA RecordNames ==
    ASSUME NEW x \in Records
    PROVE  /\ x.name \in Name0 /\ x.ready \in BOOLEAN /\ x.stay \in BOOLEAN
           /\ x # NoRecord <=> x.name \in Names
           /\ x = NoRecord <=> x.name = NoName
           /\ x.ready => x.name \in Names
  <1>1. CASE x = NoRecord
    BY <1>1, SlotAssumption DEF NoRecord, Name0
  <1>2. CASE x \in [name : Names, ready : BOOLEAN, stay : BOOLEAN]
    <2>1. x.name \in Names /\ x.ready \in BOOLEAN /\ x.stay \in BOOLEAN
      BY <1>2
    <2> QED  BY <2>1, SlotAssumption DEF NoRecord, Name0
  <1> QED  BY <1>1, <1>2 DEF Records

\* Clearing, ending and staying a record, as to its type and its name.
LEMMA RecordMoves ==
    ASSUME reg \in Records, NEW n \in Names
    PROVE  /\ Cleared(n) \in Records /\ Ending(n) \in Records
           /\ Cleared(n).name = (IF reg.name = n THEN NoName ELSE reg.name)
           /\ Ending(n).name = reg.name
  <1>1. NoRecord \in Records /\ NoRecord.name = NoName
    BY DEF Records, NoRecord
  <1>2. CASE reg = NoRecord
    BY <1>1, <1>2, SlotAssumption DEF Cleared, Ending
  <1>3. CASE reg \in [name : Names, ready : BOOLEAN, stay : BOOLEAN]
    <2>1. /\ [reg EXCEPT !.ready = FALSE] \in Records
          /\ [reg EXCEPT !.ready = FALSE].name = reg.name
      BY <1>3 DEF Records
    <2> QED  BY <1>1, <2>1 DEF Cleared, Ending
  <1> QED  BY <1>2, <1>3 DEF Records

LEMMA RecordStays ==
    ASSUME reg \in Records
    PROVE  Stayed \in Records /\ Stayed.name = reg.name
  BY DEF Records, Stayed, Recorded

LEMMA RecordUnstays ==
    ASSUME reg \in Records, reg.stay
    PROVE  /\ [reg EXCEPT !.stay = FALSE] \in Records
           /\ [reg EXCEPT !.stay = FALSE].name = reg.name
  <1>1. reg # NoRecord
    BY DEF NoRecord
  <1> QED  BY <1>1 DEF Records

----------------------------------------------------------------------------
\* What a step leaves as it was.

\* What stands stays named as long as no record is cleared before its container
\* is owed or gone, and no row of a standing one is dropped.
LEMMA PlacedKept ==
    ASSUME TypeOK, TypeOK', Placed, appOf' = appOf, cloud' \subseteq cloud,
           \A n \in Names : Owed(n)' => Born(n),
           \A n \in cloud' : Owed(n) => Owed(n)',
           \/ reg'.name = reg.name
           \/ reg'.name = NoName /\ \A n \in cloud' : n = reg.name => Owed(n)'
    PROVE  Placed'
  <1>1. /\ Recorded <=> reg.name \in Names
        /\ Recorded' <=> reg'.name \in Names
    BY RecordNames DEF TypeOK, Recorded
  <1>2. AllBorn'
    BY <1>1, SlotAssumption DEF Placed, AllBorn, Born, Owed
  <1>3. NoOrphan'
    BY DEF Placed, NoOrphan, Owed
  <1> QED  BY <1>2, <1>3 DEF Placed

\* Deleting a container disturbs no routine's claim.
LEMMA RoutinesKept ==
    ASSUME TypeOK, Routines, runs' = runs, owed' = owed, cloud' \subseteq cloud
    PROVE  Routines'
  BY DEF Routines, RunsKnow, OneRun, UnderAClaim, SettlesTheGone

\* A start is disturbed by nobody who starts no routine, moves no row and only
\* clears records or deletes containers.
LEMMA StartingKept ==
    ASSUME TypeOK, TypeOK', Starting, UNCHANGED <<starts, start, appOf, owed>>,
           cloud' \subseteq cloud, reg'.name \in {reg.name, NoName},
           \A r \in runs' : \E s \in runs : s.name = r.name
    PROVE  Starting'
  <1>1. /\ Recorded <=> reg.name \in Names
        /\ Recorded' <=> reg'.name \in Names
    BY RecordNames DEF TypeOK, Recorded
  <1>2. StartKnows' /\ StartHasTheRow'
    BY DEF Starting, StartKnows, StartHasTheRow, HandsOver, Unclaimed, Born
  <1>3. StartClears'
    BY SlotAssumption DEF Starting, StartClears, Covered, Owed, TypeOK
  <1>4. Admitted'
    BY <1>1, SlotAssumption DEF Starting, Admitted
  <1> QED  BY <1>2, <1>3, <1>4 DEF Starting

\* Nor is the reap.
LEMMA ReapingKept ==
    ASSUME Reaping, UNCHANGED <<reap, appOf>>, cloud' \subseteq cloud,
           \A n \in cloud' : Owed(n) => Owed(n)'
    PROVE  Reaping'
  BY DEF Reaping, Born, Covered

\* Whose work is where changes only when work is made, read or copied.
LEMMA OwnWorkKept ==
    ASSUME OwnWork, UNCHANGED <<appOf, madeFor, saved>>,
           \A n \in Names : tree'[n] \subseteq tree[n],
           \A t \in Tokens : turn'[t].pc = "working" => turn'[t] = turn[t]
    PROVE  OwnWork'
  <1>1. TurnsKnow' /\ TreesAreTheirOwn'
    BY DEF OwnWork, TurnsKnow, TreesAreTheirOwn, Born
  <1>2. EachProjectItsOwn'
    BY DEF OwnWork, EachProjectItsOwn, WorksInItsOwn, SavedCopyIsItsOwn
  <1> QED  BY <1>1, <1>2 DEF OwnWork

\* Initially.
LEMMA Initially == Init => IInv
  <1> SUFFICES ASSUME Init  PROVE IInv
    OBVIOUS
  <1>1. TypeOK
    <2>1. reg \in Records
      BY DEF Init, Records
    <2>2. NoRow \in Rows
      BY SlotAssumption DEF NoRow, Rows
    <2>3. NoStart \in StartRecs
      BY DEF NoStart, StartRecs, StartPCs, App0, Name0
    <2>4. NoTurn \in TurnRecs
      BY DEF NoTurn, TurnRecs, TurnPCs, App0, Name0
    <2>5. NoReap \in ReapRecs
      BY DEF NoReap, ReapRecs, Name0
    <2>6. 0 \in 0 .. MaxStarts
      BY SlotAssumption
    <2>7. /\ appOf \in [Names -> App0] /\ tree \in [Names -> SUBSET Edits]
          /\ saved \in [Apps -> SUBSET Edits] /\ madeFor \in [Edits -> App0]
          /\ owed \in [Names -> Rows] /\ turn \in [Tokens -> TurnRecs]
      BY <2>2, <2>4 DEF Init, App0
    <2> QED  BY <2>1, <2>3, <2>5, <2>6, <2>7 DEF Init, TypeOK
  <1>2. Placed
    BY DEF Init, Placed, AllBorn, NoOrphan, Recorded, Owed, NoRow
  <1>3. Routines
    BY DEF Init, Routines, RunsKnow, OneRun, UnderAClaim, SettlesTheGone
  <1>4. Starting
    BY DEF Init, Starting, StartKnows, StartHasTheRow, HandsOver, StartClears,
           Admitted, NoStart, Naming
  <1>5. Reaping
    BY DEF Init, Reaping, NoReap
  <1>6. OwnWork
    BY DEF Init, OwnWork, TurnsKnow, TreesAreTheirOwn, EachProjectItsOwn, WorksInItsOwn,
           SavedCopyIsItsOwn, NoTurn
  <1> QED  BY <1>1, <1>2, <1>3, <1>4, <1>5, <1>6 DEF IInv

----------------------------------------------------------------------------
\* A start.

LEMMA StartWords ==
    /\ "idle" \in StartPCs /\ "door" \in StartPCs /\ "owe" \in StartPCs
    /\ "handover" \in StartPCs /\ "lock" \in StartPCs /\ "reclaim" \in StartPCs
    /\ "clear" \in StartPCs /\ "mark" \in StartPCs /\ "resolve" \in StartPCs
    /\ "way" \in StartPCs /\ "wayclear" \in StartPCs /\ "birth" \in StartPCs
    /\ "settle" \in StartPCs /\ "finish" \in StartPCs /\ "undo" \in StartPCs
    /\ "unlock" \in StartPCs
  BY DEF StartPCs

\* A start that goes on to its next step keeps what it knows.
LEMMA StartMoves ==
    ASSUME start \in StartRecs, NEW pc \in StartPCs
    PROVE  /\ [start EXCEPT !.pc = pc] \in StartRecs
           /\ [start EXCEPT !.pc = pc].pc = pc
           /\ [start EXCEPT !.pc = pc].app = start.app
           /\ [start EXCEPT !.pc = pc].kind = start.kind
           /\ [start EXCEPT !.pc = pc].name = start.name
           /\ [start EXCEPT !.pc = pc].leaving = start.leaving
           /\ [start EXCEPT !.pc = pc].fresh = start.fresh
  BY DEF StartRecs

\* A step of the start that touches nobody else's state but the locks and flags.
LEMMA StartAlone ==
    ASSUME IInv, UNCHANGED <<reg, cloudVars, owed, turn, active, runs, reap>>,
           lock' \in 0 .. MaxStarts, starts' \in 0 .. MaxStarts,
           marker' \in BOOLEAN, lease' \in BOOLEAN, beat' \in BOOLEAN,
           start' \in StartRecs, Starting'
    PROVE  IInv'
  <1> USE DEF cloudVars
  <1>1. TypeOK'
    BY DEF IInv, TypeOK
  <1>2. Placed'
    BY <1>1, PlacedKept DEF IInv, Placed, AllBorn, Owed, Born
  <1>3. Routines' /\ Reaping'
    BY RoutinesKept, ReapingKept DEF IInv, Owed
  <1>4. OwnWork'
    BY OwnWorkKept DEF IInv
  <1> QED  BY <1>1, <1>2, <1>3, <1>4 DEF IInv

\* One who has given up needs nothing more.
LEMMA StartIdle ==
    ASSUME start' = NoStart
    PROVE  start' \in StartRecs /\ Starting'
  BY DEF NoStart, StartRecs, StartPCs, App0, Name0, Starting, StartKnows, Naming,
         StartHasTheRow, HandsOver, StartClears, Admitted

LEMMA AdmitKeeps ==
    ASSUME IInv, NEW a \in Apps, NEW k \in {"turn", "relaunch"}, Admit(a, k)
    PROVE  IInv'
  <1> USE DEF Admit, redisVars, cloudVars
  <1>1. /\ start' \in StartRecs /\ start'.pc = "door" /\ start'.app \in Apps
        /\ ~start'.leaving
    BY StartWords DEF NoStart, StartRecs, App0, Name0
  <1>2. starts' \in 0 .. MaxStarts /\ starts' # 0
    BY SlotAssumption DEF IInv, TypeOK
  <1>3. Starting'
    BY <1>1, <1>2
       DEF Starting, StartKnows, Naming, StartHasTheRow, HandsOver, StartClears,
           Admitted
  <1>4. /\ UNCHANGED <<lock, reg, marker, lease, beat, cloudVars, owed, turn,
                       active, runs, reap>>
        /\ TypeOK
    BY DEF IInv
  <1> QED  BY <1>1, <1>2, <1>3, <1>4, StartAlone DEF TypeOK

\* The container of another project's record is not owed yet, so no routine has
\* it and no claim on it can have lapsed.
LEMMA DoorKeeps ==
    ASSUME IInv, Door
    PROVE  IInv'
  <1>0. UNCHANGED <<lock, reg, marker, lease, beat, cloudVars, owed, starts, turn,
                    active, runs, reap, appOf, cloud>>
    BY DEF Door, redisVars, cloudVars
  <1>1. start \in StartRecs /\ reg \in Records /\ start.pc = "door"
    BY DEF IInv, TypeOK, Door
  <1>2. start.app \in Apps /\ starts # 0
    BY <1>1 DEF IInv, Starting, StartKnows
  <1>3. ~start.leaving
    BY <1>1 DEF IInv, Starting, StartKnows
  <1>4. start' \in StartRecs /\ Starting'
    <2>1. CASE ~reg.ready \/ Serves(start.app)
      <3>1. start' = [start EXCEPT !.pc = "lock"]
        BY <2>1 DEF Door
      <3>2. /\ start' \in StartRecs /\ start'.pc = "lock" /\ start'.app \in Apps
            /\ ~start'.leaving
        BY <1>1, <1>2, <1>3, <3>1, StartMoves, StartWords
      <3> QED
        BY <1>0, <1>2, <3>2
           DEF Starting, StartKnows, Naming, StartHasTheRow, HandsOver,
               StartClears, Admitted
    <2>2. CASE ~(~reg.ready \/ Serves(start.app)) /\ Owed(reg.name)
      <3>1. start' = [start EXCEPT !.pc = "lock", !.leaving = TRUE]
        BY <2>2 DEF Door
      <3>2. /\ start' \in StartRecs /\ start'.pc = "lock" /\ start'.app \in Apps
        BY <1>1, <1>2, <3>1, StartWords DEF StartRecs
      <3> QED
        BY <1>0, <1>2, <2>2, <3>2
           DEF Starting, StartKnows, Naming, StartHasTheRow, HandsOver,
               StartClears, Admitted, Covered, Owed
    <2>3. CASE ~(~reg.ready \/ Serves(start.app)) /\ ~Owed(reg.name)
      <3>1. start' = [start EXCEPT !.pc = "owe", !.name = reg.name]
        BY <2>3 DEF Door
      <3>2. Born(reg.name)
        BY <1>1, <2>3, RecordNames DEF IInv, Placed, AllBorn, Recorded, Born
      <3>3. /\ start' \in StartRecs /\ start'.pc = "owe" /\ start'.app \in Apps
            /\ start'.name = reg.name
        BY <1>1, <1>2, <3>1, <3>2, StartWords DEF StartRecs, Born, Name0
      <3>4. Unclaimed(reg.name)
        BY <2>3 DEF Unclaimed, Owed, IInv, Routines, UnderAClaim
      <3> QED
        BY <1>0, <1>2, <3>2, <3>3, <3>4
           DEF Starting, StartKnows, Naming, StartHasTheRow, HandsOver, Unclaimed,
               StartClears, Admitted, Born
    <2> QED  BY <2>1, <2>2, <2>3
  <1> QED  BY <1>0, <1>4, StartAlone DEF IInv, TypeOK

\* Owing leaves every row that stood, and claims the one it writes.
LEMMA Owing ==
    ASSUME TypeOK, NEW n \in Names, NEW b \in BOOLEAN, NEW t \in 0 .. MaxStarts,
           owed' = Debt(n, b, t)
    PROVE  /\ owed' \in [Names -> Rows] /\ Owed(n)'
           /\ \A m \in Names : Owed(m) => owed'[m] = owed[m]
           /\ \A m \in Names : m # n => owed'[m] = owed[m]
           /\ ~Owed(n) => owed'[n].st = "claimed"
  <1> DEFINE row == [st |-> "claimed", back |-> b, tries |-> 1, turn |-> t]
  <1>1. row \in Rows
    BY SlotAssumption DEF Rows
  <1>2. row.st = "claimed"
    OBVIOUS
  <1>3. owed' = IF Owed(n) THEN owed ELSE [owed EXCEPT ![n] = row]
    BY DEF Debt
  <1> HIDE DEF row
  <1> QED  BY <1>1, <1>2, <1>3 DEF TypeOK, Owed

\* No routine works on a container nobody owes.
LEMMA UnowedIsUnclaimed ==
    ASSUME Routines, NEW n \in Names, ~Owed(n)
    PROVE  Unclaimed(n)
  BY DEF Routines, UnderAClaim, Unclaimed, Owed

\* A debt taken on by a start or a reap, the records and routines standing.
LEMMA OwingKeeps ==
    ASSUME IInv, TypeOK', NEW n \in Names, Born(n), NEW b \in BOOLEAN,
           NEW t \in 0 .. MaxStarts, owed' = Debt(n, b, t),
           UNCHANGED <<reg, cloud, appOf, runs>>
    PROVE  Placed' /\ Routines'
  <1>1. /\ \A m \in Names : Owed(m) => owed'[m] = owed[m]
        /\ \A m \in Names : m # n => owed'[m] = owed[m]
    BY Owing DEF IInv
  <1>2. Placed'
    BY <1>1, PlacedKept DEF IInv, Placed, AllBorn, Owed, TypeOK
  <1>3. Routines'
    BY <1>1 DEF IInv, TypeOK, Runs, Owed, Routines, RunsKnow, OneRun, UnderAClaim,
                SettlesTheGone
  <1> QED  BY <1>2, <1>3

LEMMA OweOutgoingKeeps ==
    ASSUME IInv, OweOutgoing
    PROVE  IInv'
  <1>0. UNCHANGED <<lock, reg, marker, lease, beat, cloud, appOf, tree, saved,
                    madeFor, starts, turn, active, runs, reap>>
    BY DEF OweOutgoing, redisVars, cloudVars
  <1>1. start \in StartRecs /\ start.pc = "owe" /\ start.app \in Apps /\ starts # 0
    BY DEF IInv, TypeOK, OweOutgoing, Starting, StartKnows
  <1>2. PICK n \in Names : /\ n = start.name /\ Born(n) /\ Unclaimed(n)
                           /\ reg.name \in {n, NoName}
    BY <1>1 DEF IInv, Starting, StartKnows, Naming, Born, StartHasTheRow,
                StartClears
  <1>3. PICK t \in 0 .. MaxStarts : t = TurnIn(appOf[start.name])
    BY SlotAssumption DEF TurnIn, IInv, TypeOK
  <1>4. owed' = Debt(n, TRUE, t) /\ start' = [start EXCEPT !.pc = "handover"]
    BY <1>2, <1>3 DEF OweOutgoing, To
  <1>5. /\ owed' \in [Names -> Rows] /\ Owed(n)'
        /\ \A m \in Names : Owed(m) => owed'[m] = owed[m]
        /\ ~Owed(n) => owed'[n].st = "claimed"
    BY <1>2, <1>3, <1>4, Owing DEF IInv
  <1>6. /\ start' \in StartRecs /\ start'.pc = "handover"
        /\ start'.app = start.app /\ start'.name = n
    BY <1>1, <1>2, <1>4, StartMoves, StartWords
  <1>7. owed'[n].st = "claimed" /\ Unclaimed(n)'
    BY <1>0, <1>2, <1>5 DEF Unclaimed, Owed, IInv, TypeOK, Rows
  <1>8. TypeOK'
    BY <1>0, <1>5, <1>6 DEF IInv, TypeOK
  <1>9. Placed' /\ Routines'
    BY <1>0, <1>2, <1>3, <1>4, <1>8, OwingKeeps
  <1>10. Starting'
    BY <1>0, <1>1, <1>2, <1>6, <1>7
       DEF Starting, StartKnows, Naming, StartHasTheRow, HandsOver, Unclaimed,
           StartClears, Admitted, Born
  <1>11. Reaping'
    BY <1>0, <1>5, ReapingKept DEF IInv, Owed, TypeOK
  <1>12. OwnWork'
    BY <1>0, OwnWorkKept DEF IInv
  <1> QED  BY <1>8, <1>9, <1>10, <1>11, <1>12 DEF IInv

\* A routine started over a row claimed for it, which no other works on.
LEMMA NewRun ==
    ASSUME TypeOK, Routines, NEW n \in Names, NEW by \in {"api", "worker"},
           NEW row \in Rows, \A r \in runs : r.name # n,
           owed'[n].st = "claimed",
           \A m \in Names : m # n => owed'[m] = owed[m],
           cloud' = cloud, runs' = runs \union {RunOf(n, by, row)}
    PROVE  runs' \subseteq Runs /\ Routines'
  <1>1. PICK x : x = RunOf(n, by, row)
    OBVIOUS
  <1>2. /\ x.name = n /\ x.pc = "attach"
        /\ x \in Runs
    BY <1>1 DEF RunOf, Runs, RunPCs, Rows
  <1>3. runs' = runs \union {x} /\ runs \subseteq Runs
    BY <1>1 DEF TypeOK
  <1>4. \A r \in runs : r.name \in Names
    BY <1>3 DEF Runs
  <1> QED
    BY <1>2, <1>3, <1>4
       DEF Routines, RunsKnow, OneRun, UnderAClaim, SettlesTheGone, Closing

LEMMA HandOverKeeps ==
    ASSUME IInv, HandOver
    PROVE  IInv'
  <1>0. UNCHANGED <<lock, reg, marker, lease, beat, cloud, appOf, tree, saved,
                    madeFor, owed, starts, turn, active, reap>>
    BY DEF HandOver, redisVars, cloudVars
  <1>1. /\ start \in StartRecs /\ start.pc = "handover" /\ start.app \in Apps
        /\ starts # 0 /\ reg \in Records
    BY DEF IInv, TypeOK, HandOver, Starting, StartKnows
  <1>2. PICK n \in Names : /\ n = start.name /\ Born(n) /\ Unclaimed(n)
                           /\ owed[n].st = "claimed"
                           /\ reg.name \in {n, NoName}
    BY <1>1 DEF IInv, Starting, StartKnows, Naming, Born, StartHasTheRow,
                HandsOver, StartClears
  <1>3. /\ start' = [start EXCEPT !.pc = "lock", !.leaving = TRUE]
        /\ runs' = runs \union {RunOf(n, "api", owed[n])}
    BY <1>2 DEF HandOver, Spawned
  <1>4. runs' \subseteq Runs /\ Routines'
    BY <1>0, <1>2, <1>3, NewRun DEF IInv, TypeOK, Unclaimed
  <1>5. start' \in StartRecs /\ start'.pc = "lock" /\ start'.app = start.app
    BY <1>1, <1>3, StartWords DEF StartRecs
  <1>6. TypeOK'
    BY <1>0, <1>4, <1>5 DEF IInv, TypeOK
  <1>7. Placed'
    BY <1>0, <1>6, PlacedKept DEF IInv, Placed, AllBorn, Owed
  <1>8. Starting'
    <2>1. StartKnows' /\ StartHasTheRow' /\ Admitted'
      BY <1>0, <1>1, <1>5
         DEF StartKnows, Naming, StartHasTheRow, HandsOver, Admitted
    <2>2. StartClears'
      BY <1>0, <1>2, <1>5, SlotAssumption
         DEF StartClears, Covered, Owed, IInv, TypeOK
    <2> QED  BY <2>1, <2>2 DEF Starting
  <1>9. Reaping' /\ OwnWork'
    BY <1>0, ReapingKept, OwnWorkKept DEF IInv, Owed
  <1> QED  BY <1>4, <1>6, <1>7, <1>8, <1>9 DEF IInv

\* A start that leaves clears a record whose container is owed; any other finds
\* a record of its own project.
LEMMA TakeLockKeeps ==
    ASSUME IInv, TakeLock
    PROVE  IInv'
  <1>0. UNCHANGED <<marker, lease, beat, cloud, appOf, tree, saved, madeFor, owed,
                    starts, turn, active, runs, reap>>
    BY DEF TakeLock, cloudVars
  <1>1. /\ start \in StartRecs /\ start.pc = "lock" /\ start.app \in Apps
        /\ starts # 0 /\ reg \in Records /\ lock' \in 0 .. MaxStarts
        /\ start.leaving => Covered(reg.name)
    BY DEF IInv, TypeOK, TakeLock, Starting, StartKnows, StartClears
  <1>2. start' = [start EXCEPT !.pc = "mark"]
    BY DEF TakeLock, To
  <1>3. start' \in StartRecs /\ start'.pc = "mark" /\ start'.app = start.app
    BY <1>1, <1>2, StartMoves, StartWords
  <1>4. /\ reg' \in Records /\ NoRecord.name = NoName
        /\ \/ start.leaving /\ reg' = NoRecord
           \/ reg' = reg /\ appOf[reg.name] = start.app
    BY <1>1 DEF TakeLock, Serves, Records, NoRecord
  <1>5. TypeOK'
    BY <1>0, <1>1, <1>3, <1>4 DEF IInv, TypeOK
  <1>6. Placed'
    <2>1. \/ reg'.name = reg.name
          \/ reg'.name = NoName /\ \A m \in cloud' : m = reg.name => Owed(m)'
      BY <1>0, <1>1, <1>4 DEF Covered, Owed
    <2> QED  BY <1>0, <1>5, <2>1, PlacedKept DEF IInv, Placed, AllBorn, Owed
  <1>7. Starting'
    BY <1>0, <1>1, <1>3, <1>4, SlotAssumption
       DEF Starting, StartKnows, Naming, StartHasTheRow, HandsOver, StartClears,
           Admitted, Recorded
  <1>8. Routines' /\ Reaping' /\ OwnWork'
    BY <1>0, RoutinesKept, ReapingKept, OwnWorkKept DEF IInv, Owed
  <1> QED  BY <1>5, <1>6, <1>7, <1>8 DEF IInv

LEMMA ReclaimKeeps ==
    ASSUME IInv, Reclaim
    PROVE  IInv'
  <1>0. UNCHANGED <<lock, reg, marker, beat, cloudVars, owed, starts, turn, active,
                    runs, reap>>
    BY DEF Reclaim
  <1>1. start \in StartRecs /\ start.pc = "lock" /\ start.app \in Apps /\ starts # 0
    BY DEF IInv, TypeOK, Reclaim, Starting, StartKnows
  <1>2. start' = [start EXCEPT !.pc = "reclaim"]
    BY DEF Reclaim, To
  <1>3. start' \in StartRecs /\ start'.pc = "reclaim" /\ start'.app = start.app
    BY <1>1, <1>2, StartMoves, StartWords
  <1>4. Starting'
    BY <1>0, <1>1, <1>3
       DEF Starting, StartKnows, Naming, StartHasTheRow, HandsOver, StartClears,
           Admitted
  <1>5. lease' \in BOOLEAN
    BY DEF Reclaim
  <1> QED  BY <1>0, <1>3, <1>4, <1>5, StartAlone DEF IInv, TypeOK

\* What the record names is owed before the record is cleared.  The row is the
\* start's to hand over only where the start wrote it.
LEMMA OweHolderKeeps ==
    ASSUME IInv, NEW pc, NEW next, NEW empty, OweHolder(pc, next, empty),
           \/ pc = "reclaim" /\ next = "clear" /\ empty = "mark"
           \/ pc = "way" /\ next = "wayclear" /\ empty = "birth",
           lock' \in 0 .. MaxStarts
    PROVE  IInv'
  <1>0. UNCHANGED <<reg, marker, lease, beat, cloud, appOf, tree, saved, madeFor,
                    starts, turn, active, runs, reap>>
    BY DEF OweHolder, cloudVars
  <1>1. /\ start \in StartRecs /\ start.pc = pc /\ start.app \in Apps /\ starts # 0
        /\ reg \in Records
    BY DEF IInv, TypeOK, OweHolder, Starting, StartKnows
  <1>2. CASE ~Recorded
    <2>1. owed' = owed /\ start' = [start EXCEPT !.pc = empty]
      BY <1>2 DEF OweHolder
    <2>2. start' \in StartRecs /\ start'.pc = empty /\ start'.app = start.app
      BY <1>1, <2>1, StartMoves, StartWords
    <2>3. Starting'
      BY <1>0, <1>1, <1>2, <2>2
         DEF Starting, StartKnows, Naming, StartHasTheRow, HandsOver, StartClears,
             Admitted, Recorded
    <2> QED  BY <1>0, <2>1, <2>2, <2>3, StartAlone DEF IInv, TypeOK, cloudVars
  <1>3. CASE Recorded
    <2>1. PICK n \in Names : n = reg.name /\ Born(n)
      BY <1>1, <1>3, RecordNames DEF IInv, Placed, AllBorn, Recorded
    <2>2. owed' = Debt(n, FALSE, 0)
      BY <1>3, <2>1 DEF OweHolder
    <2>3. start' = [start EXCEPT !.pc = next, !.name = n, !.fresh = ~Owed(n)]
      BY <1>3, <2>1 DEF OweHolder
    <2>4. /\ start' \in StartRecs /\ start'.pc = next /\ start'.app = start.app
          /\ start'.name = n /\ (start'.fresh => ~Owed(n))
      <3>1. PICK b \in BOOLEAN : b <=> ~Owed(n)
        OBVIOUS
      <3>2. start' = [start EXCEPT !.pc = next, !.name = n, !.fresh = b]
        BY <2>3, <3>1 DEF Owed
      <3>3. next \in StartPCs /\ n \in Name0
        BY <2>1, StartWords DEF Name0
      <3> QED  BY <1>1, <3>1, <3>2, <3>3 DEF StartRecs
    <2>5. 0 \in 0 .. MaxStarts
      BY SlotAssumption
    <2>6. /\ owed' \in [Names -> Rows] /\ Owed(n)'
          /\ \A m \in Names : Owed(m) => owed'[m] = owed[m]
          /\ ~Owed(n) => owed'[n].st = "claimed"
      BY <2>2, <2>5, Owing DEF IInv
    <2>7. ~Owed(n) => Unclaimed(n)'
      <3>1. ~Owed(n) => Unclaimed(n)
        BY UnowedIsUnclaimed DEF IInv
      <3> QED  BY <1>0, <2>6, <3>1 DEF Unclaimed
    <2>8. TypeOK'
      BY <1>0, <2>4, <2>6 DEF IInv, TypeOK
    <2>9. Placed' /\ Routines'
      BY <1>0, <2>1, <2>2, <2>5, <2>8, OwingKeeps
    <2>10. Starting'
      <3>1. StartKnows' /\ Admitted'
        BY <1>0, <1>1, <1>3, <2>1, <2>4
           DEF IInv, Starting, StartKnows, Naming, Born, Admitted, Recorded
      <3>2. StartHasTheRow' /\ StartClears'
        BY <1>0, <1>1, <2>1, <2>4, <2>6, <2>7
           DEF StartHasTheRow, HandsOver, StartClears, Unclaimed, Covered
      <3> QED  BY <3>1, <3>2 DEF Starting
    <2>11. Reaping' /\ OwnWork'
      BY <1>0, <2>6, ReapingKept, OwnWorkKept DEF IInv, Owed, TypeOK
    <2> QED  BY <2>8, <2>9, <2>10, <2>11 DEF IInv
  <1> QED  BY <1>2, <1>3

LEMMA ReclaimHolderKeeps ==
    ASSUME IInv, ReclaimHolder
    PROVE  IInv'
  <1>1. lock' \in 0 .. MaxStarts
    BY DEF ReclaimHolder, IInv, TypeOK
  <1> QED  BY <1>1, OweHolderKeeps DEF ReclaimHolder

LEMMA WayHolderKeeps ==
    ASSUME IInv, WayHolder
    PROVE  IInv'
  <1>1. lock' \in 0 .. MaxStarts
    BY DEF WayHolder, IInv, TypeOK
  <1> QED  BY <1>1, OweHolderKeeps DEF WayHolder

\* A record cleared by what it names is of a container that is owed or gone.
LEMMA ClearHolderKeeps ==
    ASSUME IInv, NEW pc, NEW next, ClearHolder(pc, next),
           \/ pc = "clear" /\ next = "mark"
           \/ pc = "wayclear" /\ next = "birth",
           lock' \in 0 .. MaxStarts
    PROVE  IInv'
  <1>0. UNCHANGED <<marker, lease, beat, cloud, appOf, tree, saved, madeFor, owed,
                    starts, turn, active, reap>>
    BY DEF ClearHolder, cloudVars
  <1>1. /\ start \in StartRecs /\ start.pc = pc /\ start.app \in Apps /\ starts # 0
        /\ reg \in Records
    BY DEF IInv, TypeOK, ClearHolder, Starting, StartKnows
  <1>2. PICK n \in Names : n = start.name /\ Born(n) /\ Covered(n)
                           /\ reg.name \in {n, NoName}
    BY <1>1 DEF IInv, Starting, StartKnows, Naming, Born, StartClears
  <1>3. /\ reg' = Cleared(n)
        /\ start' = [start EXCEPT !.pc = next, !.name = NoName, !.fresh = FALSE]
        /\ runs' = IF start.fresh THEN runs \union {RunOf(n, "api", owed[n])}
                                  ELSE runs
    BY <1>2 DEF ClearHolder, Spawned
  <1>4. reg' \in Records /\ reg'.name = NoName /\ ~Recorded'
    <2>1. reg' \in Records /\ reg'.name = NoName
      BY <1>1, <1>2, <1>3, RecordMoves
    <2> QED  BY <2>1, RecordNames DEF Recorded
  <1>5. start' \in StartRecs /\ start'.pc = next /\ start'.app = start.app
    <2>1. next \in StartPCs /\ NoName \in Name0
      BY StartWords DEF Name0
    <2> QED  BY <1>1, <1>3, <2>1 DEF StartRecs
  <1>6. runs' \subseteq Runs /\ Routines'
    <2>1. CASE start.fresh
      <3>1. Unclaimed(n) /\ owed[n].st = "claimed"
        BY <1>1, <1>2, <2>1 DEF IInv, Starting, StartHasTheRow, HandsOver
      <3> QED  BY <1>0, <1>2, <1>3, <2>1, <3>1, NewRun DEF IInv, TypeOK, Unclaimed
    <2>2. CASE ~start.fresh
      BY <1>0, <1>3, <2>2, RoutinesKept DEF IInv, TypeOK
    <2> QED  BY <2>1, <2>2
  <1>7. TypeOK'
    BY <1>0, <1>4, <1>5, <1>6 DEF IInv, TypeOK
  <1>8. Placed'
    <2>1. reg'.name = NoName /\ \A m \in cloud' : m = reg.name => Owed(m)'
      BY <1>0, <1>2, <1>4, SlotAssumption DEF Covered, Owed, IInv, TypeOK
    <2> QED  BY <1>0, <1>7, <2>1, PlacedKept DEF IInv, Placed, AllBorn, Owed
  <1>9. Starting'
    BY <1>0, <1>1, <1>4, <1>5
       DEF Starting, StartKnows, Naming, StartHasTheRow, HandsOver, StartClears,
           Admitted
  <1>10. Reaping' /\ OwnWork'
    BY <1>0, ReapingKept, OwnWorkKept DEF IInv, Owed
  <1> QED  BY <1>6, <1>7, <1>8, <1>9, <1>10 DEF IInv

LEMMA ReclaimClearKeeps ==
    ASSUME IInv, ReclaimClear
    PROVE  IInv'
  <1>1. lock' \in 0 .. MaxStarts
    BY DEF ReclaimClear, IInv, TypeOK
  <1> QED  BY <1>1, ClearHolderKeeps DEF ReclaimClear

LEMMA WayClearKeeps ==
    ASSUME IInv, WayClear
    PROVE  IInv'
  <1>1. lock' \in 0 .. MaxStarts
    BY DEF WayClear, IInv, TypeOK
  <1> QED  BY <1>1, ClearHolderKeeps DEF WayClear

LEMMA MarkKeeps ==
    ASSUME IInv, Mark
    PROVE  IInv'
  <1>0. /\ UNCHANGED <<lock, reg, lease, beat, cloudVars, owed, starts, turn,
                       active, runs, reap, appOf>>
        /\ marker' \in BOOLEAN
    BY DEF Mark, cloudVars
  <1>1. start \in StartRecs /\ start.pc = "mark" /\ start.app \in Apps /\ starts # 0
    BY DEF IInv, TypeOK, Mark, Starting, StartKnows
  <1>2. start' = [start EXCEPT !.pc = "resolve", !.name = NoName, !.leaving = FALSE]
    BY DEF Mark
  <1>3. start' \in StartRecs /\ start'.pc = "resolve" /\ start'.app = start.app
    BY <1>1, <1>2, StartWords DEF StartRecs, Name0
  <1>4. Starting'
    BY <1>0, <1>1, <1>3
       DEF IInv, Starting, StartKnows, Naming, StartHasTheRow, HandsOver, StartClears,
           Admitted, Recorded
  <1> QED  BY <1>0, <1>3, <1>4, StartAlone DEF IInv, TypeOK

\* What a start attaches to is its own project's, because it holds the record.
LEMMA ResolveKeeps ==
    ASSUME IInv, Resolve
    PROVE  IInv'
  <1>0. UNCHANGED <<lock, reg, marker, lease, beat, cloudVars, owed, starts, turn,
                    active, runs, reap, appOf>>
    BY DEF Resolve, redisVars, cloudVars
  <1>1. /\ start \in StartRecs /\ start.pc = "resolve" /\ start.app \in Apps
        /\ starts # 0 /\ reg \in Records
    BY DEF IInv, TypeOK, Resolve, Starting, StartKnows
  <1>2. CASE Attachable
    <2>1. start' = [start EXCEPT !.pc = "settle", !.name = reg.name]
      BY <1>2 DEF Resolve
    <2>2. Born(reg.name) /\ appOf[reg.name] = start.app
      BY <1>1, <1>2, RecordNames
         DEF Attachable, IInv, Placed, AllBorn, Starting, Admitted, Recorded
    <2>3. /\ start' \in StartRecs /\ start'.pc = "settle" /\ start'.app = start.app
          /\ start'.name = reg.name
      BY <1>1, <2>1, <2>2, StartWords DEF StartRecs, Born, Name0
    <2>4. Starting'
      BY <1>0, <1>1, <2>2, <2>3
         DEF Starting, StartKnows, Naming, StartHasTheRow, HandsOver, StartClears,
             Admitted, Born
    <2> QED  BY <1>0, <2>3, <2>4, StartAlone DEF IInv, TypeOK
  <1>3. CASE ~Attachable
    <2>1. start' = [start EXCEPT !.pc = "way"]
      BY <1>3 DEF Resolve
    <2>2. start' \in StartRecs /\ start'.pc = "way" /\ start'.app = start.app
      BY <1>1, <2>1, StartMoves, StartWords
    <2>3. Starting'
      BY <1>0, <1>1, <2>2
         DEF IInv, Starting, StartKnows, Naming, StartHasTheRow, HandsOver,
             StartClears, Admitted, Recorded
    <2> QED  BY <1>0, <2>2, <2>3, StartAlone DEF IInv, TypeOK
  <1> QED  BY <1>2, <1>3

\* A container is born under a name nobody has known, so nobody's business with
\* another name is touched.
LEMMA BirthKeeps ==
    ASSUME IInv, NEW n \in Names, Birth(n)
    PROVE  IInv'
  <1>0. UNCHANGED <<lock, marker, lease, beat, saved, madeFor, owed, starts, turn,
                    active, runs, reap>>
    BY DEF Birth
  <1>1. /\ start \in StartRecs /\ start.pc = "birth" /\ start.app \in Apps
        /\ starts # 0 /\ reg \in Records /\ ~Recorded
    BY DEF IInv, TypeOK, Birth, Starting, StartKnows
  <1>2. appOf[n] = NoApp /\ ~Born(n)
    BY SlotAssumption DEF Birth, Fresh, Born
  <1>3. /\ cloud' = cloud \union {n}
        /\ appOf' = [appOf EXCEPT ![n] = start.app]
        /\ tree' = [tree EXCEPT ![n] = saved[start.app]]
        /\ reg' = [name |-> n, ready |-> TRUE, stay |-> FALSE]
        /\ start' = [start EXCEPT !.pc = "settle", !.name = n, !.fresh = TRUE]
    BY DEF Birth
  <1>4. /\ reg' \in Records /\ reg'.name = n
    BY <1>3 DEF Records
  <1>5. /\ start' \in StartRecs /\ start'.pc = "settle" /\ start'.app = start.app
        /\ start'.name = n
    BY <1>1, <1>3, StartWords DEF StartRecs, Name0
  <1>6. /\ appOf' \in [Names -> App0] /\ appOf'[n] = start.app
        /\ \A m : Born(m) => m # n /\ appOf'[m] = appOf[m] /\ Born(m)'
        /\ Born(n)'
    BY <1>1, <1>2, <1>3 DEF IInv, TypeOK, App0, Born
  <1>7. TypeOK'
    <2>1. tree' \in [Names -> SUBSET Edits] /\ cloud' \subseteq Names
      BY <1>1, <1>3 DEF IInv, TypeOK
    <2> QED  BY <1>0, <1>4, <1>5, <1>6, <2>1 DEF IInv, TypeOK
  <1>8. Placed'
    <2>1. \A m \in Names : Owed(m)' => Born(m)'
      BY <1>0, <1>6 DEF IInv, Placed, AllBorn, Owed
    <2>2. \A m \in cloud' : Born(m)'
      BY <1>3, <1>6 DEF IInv, Placed, AllBorn
    <2>3. AllBorn'
      BY <1>4, <1>6, <2>1, <2>2 DEF AllBorn, Born
    <2>4. \A m \in cloud : Owed(m)
      BY <1>1, <1>2, RecordNames
         DEF IInv, Placed, AllBorn, NoOrphan, Recorded, Born
    <2>5. NoOrphan'
      BY <1>0, <1>3, <1>4, <2>4 DEF NoOrphan, Owed
    <2> QED  BY <2>3, <2>5 DEF Placed
  <1>9. Routines'
    <2>1. \A r \in runs : r.name \in Names /\ Owed(r.name)
      BY DEF IInv, TypeOK, Runs, Routines, UnderAClaim, Owed
    <2>2. \A r \in runs : Born(r.name)
      BY <2>1 DEF IInv, Placed, AllBorn
    <2> QED
      BY <1>0, <1>2, <1>3, <2>2
         DEF IInv, Routines, RunsKnow, OneRun, UnderAClaim, SettlesTheGone
  <1>10. Starting'
    BY <1>0, <1>1, <1>5, <1>6
       DEF Starting, StartKnows, Naming, StartHasTheRow, HandsOver, StartClears,
           Admitted
  <1>11. Reaping'
    BY <1>0, <1>3, <1>6 DEF IInv, Reaping, Covered, Owed
  <1>12. OwnWork'
    <2>1. SavedCopyIsItsOwn'
      BY <1>0 DEF IInv, OwnWork, EachProjectItsOwn, SavedCopyIsItsOwn
    <2>2. TurnsKnow' /\ WorksInItsOwn'
      BY <1>0, <1>6
         DEF IInv, OwnWork, TurnsKnow, EachProjectItsOwn, WorksInItsOwn
    <2>3. TreesAreTheirOwn'
      <3>1. \A e \in saved[start.app] : madeFor[e] = start.app
        BY <1>1 DEF IInv, OwnWork, EachProjectItsOwn, SavedCopyIsItsOwn
      <3> QED
        BY <1>0, <1>3, <1>6, <3>1 DEF IInv, TypeOK, OwnWork, TreesAreTheirOwn
    <2> QED  BY <2>1, <2>2, <2>3 DEF OwnWork, EachProjectItsOwn
  <1> QED  BY <1>7, <1>8, <1>9, <1>10, <1>11, <1>12 DEF IInv

LEMMA SettleKeeps ==
    ASSUME IInv, Settle
    PROVE  IInv'
  <1>0. UNCHANGED <<lock, marker, lease, cloud, appOf, tree, saved, madeFor, owed,
                    starts, turn, active, runs, reap>>
    BY DEF Settle, cloudVars
  <1>1. /\ start \in StartRecs /\ start.pc = "settle" /\ start.app \in Apps
        /\ starts # 0 /\ reg \in Records /\ Born(start.name)
    BY DEF IInv, TypeOK, Settle, Starting, StartKnows, Naming
  <1>2. start' = [start EXCEPT !.pc = "finish"] /\ beat' \in BOOLEAN
    BY DEF Settle, To, IInv, TypeOK
  <1>3. /\ start' \in StartRecs /\ start'.pc = "finish" /\ start'.app = start.app
        /\ start'.name = start.name
    BY <1>1, <1>2, StartMoves, StartWords
  <1>4. reg' \in Records /\ reg'.name = reg.name
    BY <1>1, RecordStays DEF Settle
  <1>5. TypeOK'
    BY <1>0, <1>2, <1>3, <1>4 DEF IInv, TypeOK
  <1>6. Placed'
    BY <1>0, <1>4, <1>5, PlacedKept DEF IInv, Placed, AllBorn, Owed
  <1>7. Starting'
    BY <1>0, <1>1, <1>3
       DEF IInv, Starting, StartKnows, Naming, StartHasTheRow, HandsOver,
           StartClears, Admitted, Born
  <1>8. Routines' /\ Reaping' /\ OwnWork'
    BY <1>0, RoutinesKept, ReapingKept, OwnWorkKept DEF IInv, Owed
  <1> QED  BY <1>5, <1>6, <1>7, <1>8 DEF IInv

LEMMA FinishKeeps ==
    ASSUME IInv, Finish
    PROVE  IInv'
  <1>0. UNCHANGED <<reg, lease, beat, cloud, appOf, tree, saved, madeFor, owed,
                    starts, runs, reap>>
    BY DEF Finish, cloudVars
  <1>1. /\ start \in StartRecs /\ start.pc = "finish" /\ start.app \in Apps
        /\ starts \in Tokens /\ Born(start.name) /\ appOf[start.name] = start.app
    BY SlotAssumption
       DEF IInv, TypeOK, Finish, Starting, StartKnows, Naming, Admitted, Tokens
  <1>2. start' = NoStart /\ marker' = FALSE
    BY DEF Finish
  <1>3. start' \in StartRecs /\ Starting'
    BY <1>2, StartIdle
  <1>4. PICK x : x = [pc |-> "working", name |-> start.name, app |-> start.app]
    OBVIOUS
  <1>5. /\ x \in TurnRecs /\ x.name = start.name /\ x.app = start.app
    BY <1>1, <1>4 DEF TurnRecs, TurnPCs, Born, Name0, App0
  <1>6. /\ turn' = turn \/ turn' = [turn EXCEPT ![starts] = x]
        /\ active' \in 0 .. MaxStarts /\ lock' \in 0 .. MaxStarts
    BY <1>1, <1>4, SlotAssumption DEF Finish, Released, Tokens, IInv, TypeOK
  <1>7. TypeOK'
    BY <1>0, <1>2, <1>3, <1>5, <1>6 DEF IInv, TypeOK
  <1>8. Placed' /\ Routines' /\ Reaping'
    BY <1>0, <1>7, PlacedKept, RoutinesKept, ReapingKept
       DEF IInv, Placed, AllBorn, Owed
  <1>9. OwnWork'
    <2>1. TreesAreTheirOwn' /\ SavedCopyIsItsOwn'
      BY <1>0 DEF IInv, OwnWork, TreesAreTheirOwn, EachProjectItsOwn,
                  SavedCopyIsItsOwn, Born
    <2>2. TurnsKnow' /\ WorksInItsOwn'
      BY <1>0, <1>1, <1>5, <1>6
         DEF IInv, TypeOK, OwnWork, TurnsKnow, EachProjectItsOwn, WorksInItsOwn, Born
    <2> QED  BY <2>1, <2>2 DEF OwnWork, EachProjectItsOwn
  <1> QED  BY <1>3, <1>7, <1>8, <1>9 DEF IInv

LEMMA FailKeeps ==
    ASSUME IInv, Fail
    PROVE  IInv'
  <1>0. /\ UNCHANGED <<lock, reg, lease, beat, cloudVars, owed, starts, turn, active,
                       runs, reap, appOf>>
        /\ marker' \in BOOLEAN
    BY DEF Fail, cloudVars
  <1>1. /\ start \in StartRecs /\ start.pc # "idle" /\ start.app \in Apps
        /\ starts # 0
    BY DEF IInv, TypeOK, Fail, Starting, StartKnows
  <1>2. CASE start.pc = "settle" /\ start.fresh
    <2>1. start' = [start EXCEPT !.pc = "undo"]
      BY <1>2 DEF Fail, To
    <2>2. /\ start' \in StartRecs /\ start'.pc = "undo" /\ start'.app = start.app
          /\ start'.name = start.name
      BY <1>1, <2>1, StartMoves, StartWords
    <2>3. Starting'
      BY <1>0, <1>1, <1>2, <2>2
         DEF IInv, Starting, StartKnows, Naming, StartHasTheRow, HandsOver,
             StartClears, Admitted, Born
    <2> QED  BY <1>0, <2>2, <2>3, StartAlone DEF IInv, TypeOK
  <1>3. CASE ~(start.pc = "settle" /\ start.fresh)
    <2>1. start' = [start EXCEPT !.pc = "unlock"]
      BY <1>3 DEF Fail, To
    <2>2. start' \in StartRecs /\ start'.pc = "unlock" /\ start'.app = start.app
      BY <1>1, <2>1, StartMoves, StartWords
    <2>3. Starting'
      BY <1>0, <1>1, <2>2
         DEF Starting, StartKnows, Naming, StartHasTheRow, HandsOver, StartClears,
             Admitted
    <2> QED  BY <1>0, <2>2, <2>3, StartAlone DEF IInv, TypeOK
  <1> QED  BY <1>2, <1>3

\* A container deleted, and with it perhaps the record that named it.
LEMMA Deleting ==
    ASSUME IInv, NEW n \in Names, Delete(n), reg' = reg \/ reg' = Cleared(n)
    PROVE  /\ cloud' \subseteq cloud /\ n \notin cloud'
           /\ tree' \in [Names -> SUBSET Edits]
           /\ \A m \in Names : tree'[m] \subseteq tree[m]
           /\ reg' \in Records /\ reg'.name \in {reg.name, NoName}
           /\ \/ reg'.name = reg.name
              \/ reg'.name = NoName /\ reg.name \notin cloud'
  <1>1. cloud' = cloud \ {n} /\ tree' = [tree EXCEPT ![n] = {}]
    BY DEF Delete
  <1>2. reg \in Records /\ tree \in [Names -> SUBSET Edits]
    BY DEF IInv, TypeOK
  <1>3. /\ tree' \in [Names -> SUBSET Edits]
        /\ \A m \in Names : tree'[m] \subseteq tree[m]
    BY <1>1, <1>2
  <1>4. /\ Cleared(n) \in Records
        /\ Cleared(n).name = (IF reg.name = n THEN NoName ELSE reg.name)
    BY <1>2, RecordMoves
  <1> QED  BY <1>1, <1>2, <1>3, <1>4

LEMMA UndoKeeps ==
    ASSUME IInv, Undo
    PROVE  IInv'
  <1>0. UNCHANGED <<lock, marker, lease, beat, appOf, saved, madeFor, owed, starts,
                    turn, active, runs, reap>>
    BY DEF Undo
  <1>1. /\ start \in StartRecs /\ start.pc = "undo" /\ start.app \in Apps
        /\ starts # 0 /\ reg \in Records /\ start.name \in Names
    BY DEF IInv, TypeOK, Undo, Starting, StartKnows, Naming, Born
  <1>2. start' = [start EXCEPT !.pc = "unlock"]
    BY DEF Undo, To
  <1>3. start' \in StartRecs /\ start'.pc = "unlock" /\ start'.app = start.app
    BY <1>1, <1>2, StartMoves, StartWords
  <1>4. /\ cloud' \subseteq cloud
        /\ tree' \in [Names -> SUBSET Edits]
        /\ \A m \in Names : tree'[m] \subseteq tree[m]
        /\ reg' \in Records /\ reg'.name \in {reg.name, NoName}
        /\ \/ reg'.name = reg.name
           \/ reg'.name = NoName /\ reg.name \notin cloud'
    <2>1. CASE Delete(start.name) /\ reg' = Cleared(start.name)
      BY <1>1, <2>1, Deleting
    <2>2. CASE UNCHANGED <<cloud, tree, reg>>
      BY <1>1, <2>2 DEF IInv, TypeOK
    <2> QED  BY <2>1, <2>2 DEF Undo
  <1>5. TypeOK'
    BY <1>0, <1>3, <1>4 DEF IInv, TypeOK
  <1>6. Placed'
    BY <1>0, <1>4, <1>5, PlacedKept DEF IInv, Placed, AllBorn, Owed
  <1>7. Starting'
    BY <1>0, <1>1, <1>3
       DEF Starting, StartKnows, Naming, StartHasTheRow, HandsOver, StartClears,
           Admitted
  <1>8. Routines' /\ Reaping' /\ OwnWork'
    BY <1>0, <1>4, RoutinesKept, ReapingKept, OwnWorkKept DEF IInv, Owed
  <1> QED  BY <1>5, <1>6, <1>7, <1>8 DEF IInv

LEMMA UnlockKeeps ==
    ASSUME IInv, Unlock
    PROVE  IInv'
  <1>1. lock' \in 0 .. MaxStarts
    BY SlotAssumption DEF Unlock, Released, IInv, TypeOK
  <1>2. start' = NoStart
    BY DEF Unlock
  <1>3. UNCHANGED <<reg, marker, lease, beat, cloudVars, owed, starts, turn, active,
                    runs, reap>>
    BY DEF Unlock
  <1> QED  BY <1>1, <1>2, <1>3, StartIdle, StartAlone DEF IInv, TypeOK

LEMMA CancelKeeps ==
    ASSUME IInv, Cancel
    PROVE  IInv'
  <1>1. start' = NoStart
    BY DEF Cancel
  <1>2. UNCHANGED <<lock, reg, marker, lease, beat, cloudVars, owed, starts, turn,
                    active, runs, reap>>
    BY DEF Cancel, redisVars
  <1> QED  BY <1>1, <1>2, StartIdle, StartAlone DEF IInv, TypeOK

\* Each step of a start.
LEMMA StartStepKeeps ==
    ASSUME IInv, StartStep
    PROVE  IInv'
  BY AdmitKeeps, DoorKeeps, OweOutgoingKeeps, HandOverKeeps, TakeLockKeeps,
     ReclaimKeeps, ReclaimHolderKeeps, ReclaimClearKeeps, MarkKeeps, ResolveKeeps,
     WayHolderKeeps, WayClearKeeps, BirthKeeps, SettleKeeps, FinishKeeps,
     FailKeeps, UndoKeeps, UnlockKeeps, CancelKeeps
     DEF StartStep

----------------------------------------------------------------------------
\* A turn, and the clocks.

\* A step that moves no container, no row, no start and no routine, and renames
\* no record.
LEMMA Aside ==
    ASSUME IInv, TypeOK', reg'.name = reg.name,
           UNCHANGED <<cloud, appOf, owed, starts, start, runs, reap>>
    PROVE  Placed' /\ Routines' /\ Starting' /\ Reaping'
  <1>1. Placed'
    BY PlacedKept DEF IInv, Placed, AllBorn, Owed
  <1>2. Routines' /\ Starting' /\ Reaping'
    BY RoutinesKept, StartingKept, ReapingKept DEF IInv, Owed
  <1> QED  BY <1>1, <1>2

\* A turn that goes on to its next step.
LEMMA TurnMoves ==
    ASSUME TypeOK, NEW t \in Tokens, NEW pc \in TurnPCs, pc # "working",
           TurnTo(t, pc)
    PROVE  /\ turn' \in [Tokens -> TurnRecs]
           /\ \A u \in Tokens : turn'[u].pc = "working" => turn'[u] = turn[u]
  <1>1. PICK x : x = [turn[t] EXCEPT !.pc = pc]
    OBVIOUS
  <1>2. x \in TurnRecs /\ x.pc = pc
    BY <1>1 DEF TypeOK, TurnRecs
  <1>3. turn' = [turn EXCEPT ![t] = x] /\ turn \in [Tokens -> TurnRecs]
    BY <1>1 DEF TurnTo, TypeOK
  <1> QED  BY <1>2, <1>3

LEMMA RenewKeeps ==
    ASSUME IInv, NEW t \in Tokens, Renew(t)
    PROVE  IInv'
  <1>0. /\ UNCHANGED <<lock, reg, marker, cloud, appOf, tree, saved, madeFor, owed,
                       starts, start, turn, active, runs, reap>>
        /\ lease' = (lease \/ Recorded) /\ beat' = TRUE
    BY DEF Renew, cloudVars, startVars
  <1>1. lease' \in BOOLEAN
    BY <1>0 DEF IInv, TypeOK
  <1>2. TypeOK'
    BY <1>0, <1>1 DEF IInv, TypeOK
  <1> QED  BY <1>0, <1>2, Aside, OwnWorkKept DEF IInv

\* Work is made for the project the turn is of, in a container of that project.
LEMMA EditKeeps ==
    ASSUME IInv, NEW t \in Tokens, NEW e \in Edits, Edit(t, e)
    PROVE  IInv'
  <1>0. /\ UNCHANGED <<lock, reg, marker, lease, beat, cloud, appOf, saved, owed,
                       starts, start, turn, active, runs, reap>>
        /\ turn[t].pc = "working" /\ madeFor[e] = NoApp
    BY DEF Edit, redisVars, startVars
  <1>1. PICK n \in Names : n = turn[t].name /\ Born(n) /\ appOf[n] = turn[t].app
    BY <1>0 DEF IInv, OwnWork, TurnsKnow, EachProjectItsOwn, WorksInItsOwn, Born
  <1>2. /\ madeFor' = [madeFor EXCEPT ![e] = appOf[n]]
        /\ tree' = [tree EXCEPT ![n] = @ \union {e}]
    BY <1>1 DEF Edit
  <1>3. TypeOK'
    <2>1. madeFor' \in [Edits -> App0] /\ tree' \in [Names -> SUBSET Edits]
      BY <1>1, <1>2 DEF IInv, TypeOK, Born, App0
    <2> QED  BY <1>0, <2>1 DEF IInv, TypeOK
  <1>4. OwnWork'
    <2>1. TurnsKnow' /\ WorksInItsOwn'
      BY <1>0 DEF IInv, OwnWork, TurnsKnow, EachProjectItsOwn, WorksInItsOwn, Born
    <2>2. TreesAreTheirOwn'
      <3>1. \A m \in Names : \A d \in tree[m] : d # e /\ d \in Edits
        BY <1>0, SlotAssumption
           DEF IInv, TypeOK, OwnWork, TreesAreTheirOwn, Born
      <3>2. \A m \in Names : \A d \in tree'[m] : (d = e /\ m = n) \/ d \in tree[m]
        BY <1>1, <1>2 DEF IInv, TypeOK
      <3>3. madeFor'[e] = appOf[n] /\ \A d \in Edits : d # e => madeFor'[d] = madeFor[d]
        BY <1>2 DEF IInv, TypeOK
      <3> QED
        BY <1>0, <1>1, <3>1, <3>2, <3>3 DEF IInv, OwnWork, TreesAreTheirOwn, Born
    <2>3. SavedCopyIsItsOwn'
      <3>1. \A a \in Apps : \A d \in saved[a] : d # e /\ d \in Edits
        BY <1>0, SlotAssumption
           DEF IInv, TypeOK, OwnWork, EachProjectItsOwn, SavedCopyIsItsOwn
      <3> QED
        BY <1>0, <1>2, <3>1
           DEF IInv, TypeOK, OwnWork, EachProjectItsOwn, SavedCopyIsItsOwn
    <2> QED  BY <2>1, <2>2, <2>3 DEF OwnWork, EachProjectItsOwn
  <1>5. Placed' /\ Routines' /\ Starting' /\ Reaping'
    BY <1>0, <1>3, Aside
  <1> QED  BY <1>3, <1>4, <1>5 DEF IInv

LEMMA TurnEndsKeeps ==
    ASSUME IInv, NEW t \in Tokens, TurnEnds(t)
    PROVE  IInv'
  <1>0. /\ UNCHANGED <<lock, reg, marker, lease, beat, cloud, appOf, tree, saved,
                       madeFor, owed, starts, start, active, runs, reap>>
        /\ TurnTo(t, "ending")
    BY DEF TurnEnds, redisVars, cloudVars
  <1>1. /\ turn' \in [Tokens -> TurnRecs]
        /\ \A u \in Tokens : turn'[u].pc = "working" => turn'[u] = turn[u]
    BY <1>0, TurnMoves DEF IInv, TurnPCs
  <1>2. TypeOK'
    BY <1>0, <1>1 DEF IInv, TypeOK
  <1> QED  BY <1>0, <1>1, <1>2, Aside, OwnWorkKept DEF IInv

LEMMA PardonKeeps ==
    ASSUME IInv, NEW t \in Tokens, Pardon(t)
    PROVE  IInv'
  <1>0. /\ UNCHANGED <<lock, marker, lease, beat, cloud, appOf, tree, saved,
                       madeFor, owed, starts, start, active, runs, reap>>
        /\ reg' = Stayed /\ TurnTo(t, "pardoned")
    BY DEF Pardon, cloudVars
  <1>1. /\ turn' \in [Tokens -> TurnRecs]
        /\ \A u \in Tokens : turn'[u].pc = "working" => turn'[u] = turn[u]
    BY <1>0, TurnMoves DEF IInv, TurnPCs
  <1>2. reg' \in Records /\ reg'.name = reg.name
    BY <1>0, RecordStays DEF IInv, TypeOK
  <1>3. TypeOK'
    BY <1>0, <1>1, <1>2 DEF IInv, TypeOK
  <1> QED  BY <1>0, <1>1, <1>2, <1>3, Aside, OwnWorkKept DEF IInv

LEMMA FreeSlotKeeps ==
    ASSUME IInv, NEW t \in Tokens, FreeSlot(t)
    PROVE  IInv'
  <1>0. /\ UNCHANGED <<reg, marker, lease, beat, cloud, appOf, tree, saved,
                       madeFor, owed, starts, start, runs, reap>>
        /\ TurnTo(t, "freed")
    BY DEF FreeSlot, cloudVars
  <1>1. /\ turn' \in [Tokens -> TurnRecs]
        /\ \A u \in Tokens : turn'[u].pc = "working" => turn'[u] = turn[u]
    BY <1>0, TurnMoves DEF IInv, TurnPCs
  <1>2. lock' \in 0 .. MaxStarts /\ active' \in 0 .. MaxStarts
    BY SlotAssumption DEF FreeSlot, Released, IInv, TypeOK
  <1>3. TypeOK'
    BY <1>0, <1>1, <1>2 DEF IInv, TypeOK
  <1> QED  BY <1>0, <1>1, <1>3, Aside, OwnWorkKept DEF IInv

LEMMA DropLeaseKeeps ==
    ASSUME IInv, NEW t \in Tokens, DropLease(t)
    PROVE  IInv'
  <1>0. /\ UNCHANGED <<lock, reg, marker, beat, cloud, appOf, tree, saved,
                       madeFor, owed, starts, start, active, runs, reap>>
        /\ lease' = FALSE /\ turn' = [turn EXCEPT ![t] = NoTurn]
    BY DEF DropLease, cloudVars
  <1>1. NoTurn \in TurnRecs /\ NoTurn.pc = "none"
    BY DEF NoTurn, TurnRecs, TurnPCs, Name0, App0
  <1>2. /\ turn' \in [Tokens -> TurnRecs]
        /\ \A u \in Tokens : turn'[u].pc = "working" => turn'[u] = turn[u]
    BY <1>0, <1>1 DEF IInv, TypeOK
  <1>3. TypeOK'
    BY <1>0, <1>2 DEF IInv, TypeOK
  <1> QED  BY <1>0, <1>2, <1>3, Aside, OwnWorkKept DEF IInv

LEMMA LapseKeeps ==
    ASSUME IInv, Lapse
    PROVE  IInv'
  <1>0. UNCHANGED <<cloud, appOf, tree, saved, madeFor, owed, starts, start, turn,
                    active, runs, reap>>
    BY DEF Lapse, cloudVars, startVars
  <1>1. \/ reg' = reg
        \/ reg.stay /\ reg' = [reg EXCEPT !.stay = FALSE]
    BY DEF Lapse
  <1>2. reg' \in Records /\ reg'.name = reg.name
    BY <1>1, RecordUnstays DEF IInv, TypeOK
  <1>3. /\ lock' \in 0 .. MaxStarts
        /\ marker' \in BOOLEAN /\ lease' \in BOOLEAN /\ beat' \in BOOLEAN
    <2>1. /\ lock' \in {lock, 0}
          /\ marker' \in {marker, FALSE} /\ lease' \in {lease, FALSE}
          /\ beat' \in {beat, FALSE}
      BY DEF Lapse
    <2>2. /\ lock \in 0 .. MaxStarts /\ 0 \in 0 .. MaxStarts
          /\ marker \in BOOLEAN /\ lease \in BOOLEAN /\ beat \in BOOLEAN
          /\ FALSE \in BOOLEAN
      BY SlotAssumption DEF IInv, TypeOK
    <2> QED  BY <2>1, <2>2, Zenon
  <1>4. TypeOK'
    BY <1>0, <1>2, <1>3 DEF IInv, TypeOK
  <1> QED  BY <1>0, <1>2, <1>4, Aside, OwnWorkKept DEF IInv

\* What dies with the API leaves its claims and records behind it.
LEMMA ApiDiesKeeps ==
    ASSUME IInv, ApiDies
    PROVE  IInv'
  <1>0. /\ UNCHANGED <<lock, reg, marker, lease, beat, cloud, appOf, tree, saved,
                       madeFor, owed, starts, reap>>
        /\ start' = NoStart /\ turn' = [t \in Tokens |-> NoTurn] /\ active' = 0
        /\ runs' \subseteq runs
    BY DEF ApiDies, redisVars, cloudVars
  <1>1. start' \in StartRecs /\ Starting'
    BY <1>0, StartIdle
  <1>2. NoTurn \in TurnRecs /\ NoTurn.pc = "none"
    BY DEF NoTurn, TurnRecs, TurnPCs, Name0, App0
  <1>3. /\ turn' \in [Tokens -> TurnRecs] /\ active' \in 0 .. MaxStarts
        /\ \A u \in Tokens : turn'[u].pc = "working" => turn'[u] = turn[u]
    BY <1>0, <1>2, SlotAssumption
  <1>4. TypeOK'
    BY <1>0, <1>1, <1>3 DEF IInv, TypeOK
  <1>5. Routines'
    BY <1>0 DEF IInv, Routines, RunsKnow, OneRun, UnderAClaim, SettlesTheGone
  <1>6. Placed'
    BY <1>0, <1>4, PlacedKept DEF IInv, Placed, AllBorn, Owed
  <1>7. Reaping' /\ OwnWork'
    BY <1>0, <1>3, ReapingKept, OwnWorkKept DEF IInv, Owed
  <1> QED  BY <1>1, <1>4, <1>5, <1>6, <1>7 DEF IInv

\* Each step of a turn, of the clocks, and of the process.
LEMMA TurnStepKeeps ==
    ASSUME IInv, TurnStep
    PROVE  IInv'
  BY RenewKeeps, EditKeeps, TurnEndsKeeps, PardonKeeps, FreeSlotKeeps,
     DropLeaseKeeps, LapseKeeps, ApiDiesKeeps
     DEF TurnStep

----------------------------------------------------------------------------
\* The shutdown routine.

LEMMA RunWords ==
    /\ "attach" \in RunPCs /\ "stop" \in RunPCs /\ "copy" \in RunPCs
    /\ "mark" \in RunPCs /\ "teardown" \in RunPCs /\ "letgo" \in RunPCs
    /\ "look" \in RunPCs /\ "free" \in RunPCs /\ "close" \in RunPCs
  BY DEF RunPCs

\* What a routine forgets is nothing the invariant speaks of.
LEMMA Forgetting ==
    ASSUME NEW s \in Runs
    PROVE  /\ Needed(s) \in Runs
           /\ Needed(s).name = s.name /\ Needed(s).pc = s.pc
           /\ Needed(s).keep = s.keep /\ Needed(s).by = s.by
           /\ s.pc = "stop" => Needed(s).turn = s.turn
           /\ s.pc \in {"mark", "teardown"} =>
                Needed(s).read = s.read /\ Needed(s).kept = s.kept
  <1>1. PICK b \in BOOLEAN : b = (s.back /\ s.pc = "attach")
    BY DEF Runs
  <1>2. PICK d \in BOOLEAN : d = (s.read /\ s.pc \in {"mark", "teardown"})
    BY DEF Runs
  <1>3. PICK t \in 0 .. MaxStarts :
            t = (IF s.pc \in {"attach", "stop"} THEN s.turn ELSE 0)
    BY SlotAssumption DEF Runs
  <1>4. PICK i \in 0 .. Strikes :
            i = (IF s.pc \in {"attach", "stop", "copy"} THEN s.tries ELSE 0)
    BY SlotAssumption DEF Runs
  <1>5. PICK k \in SUBSET Edits :
            k = (IF s.pc \in {"mark", "teardown"} THEN s.kept ELSE {})
    BY DEF Runs
  <1>6. Needed(s) = [s EXCEPT !.back = b, !.turn = t, !.tries = i, !.read = d,
                              !.kept = k]
    BY <1>1, <1>2, <1>3, <1>4, <1>5 DEF Needed
  <1> QED  BY <1>2, <1>3, <1>5, <1>6 DEF Runs

\* A routine that goes on keeps its claim, says nothing of a container that
\* stands, and starts no other.
LEMMA RunMoves ==
    ASSUME TypeOK, Routines, NEW r \in runs, NEW s \in Runs, Becomes(r, s),
           s.name = r.name, owed' = owed, cloud' \subseteq cloud,
           s.pc = "stop" => s.turn # 0,
           s.pc \in Closing /\ ~s.keep => s.name \notin cloud'
    PROVE  /\ runs' \subseteq Runs /\ Routines'
           /\ \A x \in runs' : \E y \in runs : y.name = x.name
  <1>1. PICK x \in Runs : /\ x = Needed(s) /\ x.name = r.name /\ x.pc = s.pc
                          /\ x.keep = s.keep
                          /\ x.pc = "stop" => x.turn = s.turn
    BY Forgetting
  <1>2. runs' = (runs \ {r}) \union {x}
    BY <1>1 DEF Becomes
  <1>3. runs' \subseteq Runs
    BY <1>1, <1>2 DEF TypeOK
  <1>4. OneRun' /\ UnderAClaim'
    BY <1>1, <1>2 DEF Routines, OneRun, UnderAClaim
  <1>5. RunsKnow' /\ SettlesTheGone'
    BY <1>1, <1>2 DEF Routines, RunsKnow, SettlesTheGone
  <1>6. \A z \in runs' : \E y \in runs : y.name = z.name
    BY <1>1, <1>2
  <1> QED  BY <1>3, <1>4, <1>5, <1>6 DEF Routines

\* What the routine's step leaves of the rest.
LEMMA RunGoesOn ==
    ASSUME IInv, NEW r \in runs, NEW s \in Runs, Becomes(r, s), s.name = r.name,
           s.pc = "stop" => s.turn # 0,
           s.pc \in Closing /\ ~s.keep => s.name \notin cloud',
           UNCHANGED <<appOf, madeFor, owed, starts, start, active, reap>>,
           lock' \in 0 .. MaxStarts, marker' = marker, lease' \in BOOLEAN,
           beat' = beat, cloud' \subseteq cloud,
           reg' \in Records, reg'.name \in {reg.name, NoName},
           \/ reg'.name = reg.name
           \/ reg'.name = NoName /\ \A n \in cloud' : n = reg.name => Owed(n)',
           tree' \in [Names -> SUBSET Edits], saved' \in [Apps -> SUBSET Edits],
           turn' \in [Tokens -> TurnRecs], OwnWork'
    PROVE  IInv'
  <1>1. /\ runs' \subseteq Runs /\ Routines'
        /\ \A x \in runs' : \E y \in runs : y.name = x.name
    BY RunMoves DEF IInv
  <1>2. TypeOK'
    BY <1>1 DEF IInv, TypeOK
  <1>3. Placed'
    BY <1>2, PlacedKept DEF IInv, Placed, AllBorn, Owed
  <1>4. Starting'
    BY <1>1, <1>2, StartingKept DEF IInv
  <1>5. Reaping'
    BY ReapingKept DEF IInv, Owed
  <1> QED  BY <1>1, <1>2, <1>3, <1>4, <1>5 DEF IInv

\* A routine that moves only itself.
LEMMA RunAlone ==
    ASSUME IInv, NEW r \in runs, NEW s \in Runs, Becomes(r, s), s.name = r.name,
           s.pc = "stop" => s.turn # 0,
           s.pc \in Closing /\ ~s.keep => s.name \notin cloud,
           UNCHANGED <<reg, marker, beat, cloudVars, owed, startVars, reap>>,
           lock' \in 0 .. MaxStarts, lease' \in BOOLEAN
    PROVE  IInv'
  <1> USE DEF cloudVars, startVars
  <1>1. OwnWork'
    BY OwnWorkKept DEF IInv
  <1>2. /\ reg \in Records /\ tree \in [Names -> SUBSET Edits]
        /\ saved \in [Apps -> SUBSET Edits] /\ turn \in [Tokens -> TurnRecs]
    BY DEF IInv, TypeOK
  <1> QED  BY <1>1, <1>2, RunGoesOn

\* A routine at its next step, and one that spares its container.
LEMMA RunNext ==
    ASSUME IInv, NEW r \in runs, NEW pc \in RunPCs
    PROVE  \E s \in Runs : /\ s = [r EXCEPT !.pc = pc] /\ s.name = r.name
                           /\ s.pc = pc /\ s.keep = r.keep /\ s.turn = r.turn
                           /\ s.by = r.by /\ s.read = r.read /\ s.kept = r.kept
  <1>1. r \in Runs
    BY DEF IInv, TypeOK
  <1>2. PICK s : s = [r EXCEPT !.pc = pc]
    OBVIOUS
  <1>3. /\ s \in Runs /\ s.name = r.name
        /\ s.pc = pc /\ s.keep = r.keep /\ s.turn = r.turn
        /\ s.by = r.by /\ s.read = r.read /\ s.kept = r.kept
    BY <1>1, <1>2 DEF Runs
  <1> QED  BY <1>2, <1>3

LEMMA RunSpares ==
    ASSUME IInv, NEW r \in runs, NEW pc \in RunPCs
    PROVE  \E s \in Runs : /\ s = [r EXCEPT !.pc = pc, !.keep = TRUE]
                           /\ s.name = r.name /\ s.pc = pc /\ s.keep
  <1>1. r \in Runs
    BY DEF IInv, TypeOK
  <1>2. PICK s : s = [r EXCEPT !.pc = pc, !.keep = TRUE]
    OBVIOUS
  <1>3. s \in Runs /\ s.name = r.name /\ s.pc = pc /\ s.keep
    BY <1>1, <1>2 DEF Runs
  <1> QED  BY <1>2, <1>3

LEMMA UnreadKeeps ==
    ASSUME IInv, NEW r \in runs, Unread(r),
           UNCHANGED <<redisVars, cloudVars, owed, startVars, reap>>
    PROVE  IInv'
  <1>0. /\ UNCHANGED <<lock, reg, marker, lease, beat, cloudVars, owed, startVars,
                       reap>>
        /\ lock \in 0 .. MaxStarts /\ lease \in BOOLEAN
    BY DEF redisVars, IInv, TypeOK
  <1>1. CASE Becomes(r, [r EXCEPT !.pc = "close", !.keep = TRUE])
    <2>1. PICK s \in Runs : /\ s = [r EXCEPT !.pc = "close", !.keep = TRUE]
                            /\ s.name = r.name /\ s.pc = "close" /\ s.keep
      BY RunSpares, RunWords
    <2> QED  BY <1>0, <1>1, <2>1, RunAlone
  <1>2. CASE RunTo(r, "mark")
    <2>1. PICK s \in Runs : /\ s = [r EXCEPT !.pc = "mark"]
                            /\ s.name = r.name /\ s.pc = "mark"
      BY RunNext, RunWords
    <2> QED  BY <1>0, <1>2, <2>1, RunAlone DEF RunTo, Closing
  <1> QED  BY <1>1, <1>2 DEF Unread

\* The routine reaches the gone, the standing, or nothing at all.
LEMMA RunAttachKeeps ==
    ASSUME IInv, NEW r \in runs, RunAttach(r)
    PROVE  IInv'
  <1>0. /\ UNCHANGED <<redisVars, cloudVars, owed, startVars, reap>>
        /\ UNCHANGED <<lock, reg, marker, lease, beat>>
        /\ lock \in 0 .. MaxStarts /\ lease \in BOOLEAN
    BY DEF RunAttach, redisVars, IInv, TypeOK
  <1>1. CASE Unread(r)
    BY <1>0, <1>1, UnreadKeeps
  <1>2. CASE RunTo(r, "mark") \/ RunTo(r, "copy")
    <2>1. PICK pc \in {"mark", "copy"} : RunTo(r, pc)
      BY <1>2
    <2>2. PICK s \in Runs : /\ s = [r EXCEPT !.pc = pc]
                            /\ s.name = r.name /\ s.pc = pc
      BY RunNext, RunWords
    <2> QED  BY <1>0, <2>1, <2>2, RunAlone DEF RunTo, Closing
  <1>3. CASE r.turn # 0 /\ RunTo(r, "stop")
    <2>1. PICK s \in Runs : /\ s = [r EXCEPT !.pc = "stop"]
                            /\ s.name = r.name /\ s.pc = "stop" /\ s.turn = r.turn
      BY RunNext, RunWords
    <2> QED  BY <1>0, <1>3, <2>1, RunAlone DEF RunTo, Closing
  <1>4. CASE r.name \notin cloud /\ RunTo(r, "letgo")
    <2>1. PICK s \in Runs : /\ s = [r EXCEPT !.pc = "letgo"]
                            /\ s.name = r.name /\ s.pc = "letgo"
      BY RunNext, RunWords
    <2> QED  BY <1>0, <1>4, <2>1, RunAlone DEF RunTo
  <1> QED  BY <1>1, <1>2, <1>3, <1>4 DEF RunAttach

LEMMA RunStopKeeps ==
    ASSUME IInv, NEW r \in runs, RunStop(r)
    PROVE  IInv'
  <1>0. /\ UNCHANGED <<lock, reg, marker, lease, beat, cloud, appOf, tree, saved,
                       madeFor, owed, starts, start, active, reap>>
        /\ r.pc = "stop" /\ RunTo(r, "copy")
    BY DEF RunStop, redisVars, cloudVars
  <1>1. r.turn \in Tokens
    BY <1>0, SlotAssumption
       DEF IInv, TypeOK, Runs, Routines, RunsKnow, Tokens
  <1>2. turn' = turn \/ TurnTo(r.turn, "ending")
    BY DEF RunStop
  <1>3. /\ turn' \in [Tokens -> TurnRecs]
        /\ \A u \in Tokens : turn'[u].pc = "working" => turn'[u] = turn[u]
    <2>1. CASE turn' = turn
      BY <2>1 DEF IInv, TypeOK
    <2>2. CASE TurnTo(r.turn, "ending")
      BY <1>1, <2>2, TurnMoves DEF IInv, TurnPCs
    <2> QED  BY <1>2, <2>1, <2>2
  <1>4. PICK s \in Runs : s = [r EXCEPT !.pc = "copy"] /\ s.name = r.name /\ s.pc = "copy"
    BY RunNext, RunWords
  <1>5. Becomes(r, s)
    BY <1>0, <1>4 DEF RunTo
  <1>6. OwnWork'
    BY <1>0, <1>3, OwnWorkKept DEF IInv
  <1>7. /\ lock \in 0 .. MaxStarts /\ lease \in BOOLEAN /\ reg \in Records
        /\ tree \in [Names -> SUBSET Edits] /\ saved \in [Apps -> SUBSET Edits]
    BY DEF IInv, TypeOK
  <1> QED  BY <1>0, <1>3, <1>4, <1>5, <1>6, <1>7, RunGoesOn DEF Closing

\* What a container holds is saved as the app it was made for.
LEMMA Saving ==
    ASSUME IInv, NEW n \in Names, Born(n),
           saved' = [saved EXCEPT ![appOf[n]] = tree[n]],
           UNCHANGED <<appOf, tree, madeFor, turn>>
    PROVE  saved' \in [Apps -> SUBSET Edits] /\ OwnWork'
  <1>1. saved' \in [Apps -> SUBSET Edits]
    BY DEF Born, IInv, TypeOK
  <1>2. SavedCopyIsItsOwn'
    BY DEF Born, IInv, TypeOK, OwnWork, TreesAreTheirOwn, EachProjectItsOwn,
           SavedCopyIsItsOwn
  <1>3. TurnsKnow' /\ TreesAreTheirOwn' /\ WorksInItsOwn'
    BY DEF IInv, OwnWork, TurnsKnow, TreesAreTheirOwn, EachProjectItsOwn,
           WorksInItsOwn, Born
  <1> QED  BY <1>1, <1>2, <1>3 DEF OwnWork, EachProjectItsOwn

LEMMA RunCopyKeeps ==
    ASSUME IInv, NEW r \in runs, RunCopy(r)
    PROVE  IInv'
  <1>0. UNCHANGED <<lock, reg, marker, lease, beat, cloud, appOf, tree, madeFor,
                    owed, starts, start, turn, active, reap>>
    BY DEF RunCopy, redisVars, startVars
  <1>1. CASE Unread(r) /\ UNCHANGED saved
    BY <1>0, <1>1, UnreadKeeps DEF redisVars, cloudVars, startVars
  <1>2. CASE /\ r.name \in cloud
             /\ saved' = [saved EXCEPT ![appOf[r.name]] = tree[r.name]]
             /\ Becomes(r, [r EXCEPT !.pc = "mark", !.read = TRUE,
                                     !.kept = tree[r.name]])
    <2>1. PICK n \in Names : n = r.name /\ Born(n)
      BY <1>2 DEF IInv, TypeOK, Placed, AllBorn
    <2>2. saved' \in [Apps -> SUBSET Edits] /\ OwnWork'
      BY <1>0, <1>2, <2>1, Saving
    <2>3. PICK s : s = [r EXCEPT !.pc = "mark", !.read = TRUE, !.kept = tree[n]]
      OBVIOUS
    <2>4. r \in Runs /\ tree[n] \in SUBSET Edits /\ "mark" \in RunPCs
      BY RunWords DEF IInv, TypeOK
    <2>5. s \in Runs /\ s.name = r.name /\ s.pc = "mark"
      BY <2>3, <2>4 DEF Runs
    <2>6. Becomes(r, s)
      BY <1>2, <2>1, <2>3
    <2>7. /\ lock \in 0 .. MaxStarts /\ lease \in BOOLEAN /\ reg \in Records
          /\ tree \in [Names -> SUBSET Edits] /\ turn \in [Tokens -> TurnRecs]
      BY DEF IInv, TypeOK
    <2> QED  BY <1>0, <2>2, <2>5, <2>6, <2>7, RunGoesOn DEF Closing
  <1> QED  BY <1>1, <1>2 DEF RunCopy

LEMMA RunMarkKeeps ==
    ASSUME IInv, NEW r \in runs, RunMark(r)
    PROVE  IInv'
  <1>0. /\ UNCHANGED <<lock, marker, lease, beat, cloud, appOf, tree, saved,
                       madeFor, owed, starts, start, turn, active, reap>>
        /\ reg' = Ending(r.name) /\ RunTo(r, "teardown")
    BY DEF RunMark, cloudVars, startVars
  <1>1. PICK s \in Runs : /\ s = [r EXCEPT !.pc = "teardown"]
                          /\ s.name = r.name /\ s.pc = "teardown"
    BY RunNext, RunWords
  <1>2. Becomes(r, s)
    BY <1>0, <1>1 DEF RunTo
  <1>3. reg \in Records /\ r.name \in Names
    BY DEF IInv, TypeOK, Runs
  <1>4. reg' \in Records /\ reg'.name = reg.name
    BY <1>0, <1>3, RecordMoves
  <1>5. OwnWork'
    BY <1>0, OwnWorkKept DEF IInv
  <1>6. /\ lock \in 0 .. MaxStarts /\ lease \in BOOLEAN
        /\ tree \in [Names -> SUBSET Edits] /\ saved \in [Apps -> SUBSET Edits]
        /\ turn \in [Tokens -> TurnRecs]
    BY DEF IInv, TypeOK
  <1> QED  BY <1>0, <1>1, <1>2, <1>4, <1>5, <1>6, RunGoesOn DEF Closing

\* A routine goes past a delete that failed only with its row to keep.
LEMMA RunTeardownKeeps ==
    ASSUME IInv, NEW r \in runs, RunTeardown(r)
    PROVE  IInv'
  <1>0. UNCHANGED <<lock, marker, lease, beat, appOf, saved, madeFor, owed, starts,
                    start, turn, active, reap>>
    BY DEF RunTeardown, startVars
  <1>1. /\ lock \in 0 .. MaxStarts /\ lease \in BOOLEAN /\ reg \in Records
        /\ tree \in [Names -> SUBSET Edits] /\ saved \in [Apps -> SUBSET Edits]
        /\ turn \in [Tokens -> TurnRecs] /\ r.name \in Names
    BY DEF IInv, TypeOK, Runs
  <1>2. CASE /\ Delete(r.name) /\ RunTo(r, "letgo")
             /\ reg' = reg \/ reg' = Cleared(r.name)
    <2>1. /\ cloud' \subseteq cloud /\ r.name \notin cloud'
          /\ tree' \in [Names -> SUBSET Edits]
          /\ \A m \in Names : tree'[m] \subseteq tree[m]
          /\ reg' \in Records /\ reg'.name \in {reg.name, NoName}
          /\ \/ reg'.name = reg.name
             \/ reg'.name = NoName /\ reg.name \notin cloud'
      BY <1>1, <1>2, Deleting
    <2>2. PICK s \in Runs : /\ s = [r EXCEPT !.pc = "letgo"]
                            /\ s.name = r.name /\ s.pc = "letgo"
      BY RunNext, RunWords
    <2>3. Becomes(r, s)
      BY <1>2, <2>2 DEF RunTo
    <2>4. OwnWork'
      BY <1>0, <2>1, OwnWorkKept DEF IInv
    <2> QED  BY <1>0, <1>1, <2>1, <2>2, <2>3, <2>4, RunGoesOn DEF Owed
  <1>3. CASE /\ Becomes(r, [r EXCEPT !.pc = "letgo", !.keep = TRUE])
             /\ UNCHANGED <<cloud, tree, reg>>
    <2>1. PICK s \in Runs : /\ s = [r EXCEPT !.pc = "letgo", !.keep = TRUE]
                            /\ s.name = r.name /\ s.pc = "letgo" /\ s.keep
      BY RunSpares, RunWords
    <2> QED  BY <1>0, <1>1, <1>3, <2>1, RunAlone DEF cloudVars, startVars
  <1> QED  BY <1>2, <1>3 DEF RunTeardown

\* The record goes while the row still holds the container to account.
LEMMA RunLetGoKeeps ==
    ASSUME IInv, NEW r \in runs, RunLetGo(r)
    PROVE  IInv'
  <1>0. /\ UNCHANGED <<lock, marker, lease, beat, cloud, appOf, tree, saved,
                       madeFor, owed, starts, start, turn, active, reap>>
        /\ r.pc = "letgo" /\ reg' = Cleared(r.name)
    BY DEF RunLetGo, cloudVars, startVars
  <1>1. PICK pc \in {"look", "close"} : RunTo(r, pc)
    BY DEF RunLetGo
  <1>2. PICK s \in Runs : /\ s = [r EXCEPT !.pc = pc]
                          /\ s.name = r.name /\ s.pc = pc /\ s.keep = r.keep
    BY RunNext, RunWords
  <1>3. Becomes(r, s)
    BY <1>1, <1>2 DEF RunTo
  <1>4. /\ lock \in 0 .. MaxStarts /\ lease \in BOOLEAN /\ reg \in Records
        /\ tree \in [Names -> SUBSET Edits] /\ saved \in [Apps -> SUBSET Edits]
        /\ turn \in [Tokens -> TurnRecs] /\ r.name \in Names
    BY DEF IInv, TypeOK, Runs
  <1>5. reg' \in Records /\ reg'.name = (IF reg.name = r.name THEN NoName ELSE reg.name)
    BY <1>0, <1>4, RecordMoves
  <1>6. Owed(r.name)
    BY DEF IInv, Routines, UnderAClaim, Owed
  <1>7. \/ reg'.name = reg.name
        \/ reg'.name = NoName /\ \A n \in cloud' : n = reg.name => Owed(n)'
    BY <1>0, <1>5, <1>6 DEF Owed
  <1>8. ~s.keep => s.name \notin cloud'
    BY <1>0, <1>2 DEF IInv, Routines, SettlesTheGone, Closing
  <1>9. OwnWork'
    BY <1>0, OwnWorkKept DEF IInv
  <1> QED
    BY <1>0, <1>2, <1>3, <1>4, <1>5, <1>7, <1>8, <1>9, RunGoesOn

LEMMA RunLookKeeps ==
    ASSUME IInv, NEW r \in runs, RunLook(r)
    PROVE  IInv'
  <1>0. /\ UNCHANGED <<lock, reg, marker, lease, beat, cloudVars, owed, startVars,
                       reap>>
        /\ r.pc = "look" /\ lock \in 0 .. MaxStarts /\ lease \in BOOLEAN
    BY DEF RunLook, redisVars, IInv, TypeOK
  <1>1. PICK pc \in {"close", "free"} : RunTo(r, pc)
    BY DEF RunLook
  <1>2. PICK s \in Runs : /\ s = [r EXCEPT !.pc = pc]
                          /\ s.name = r.name /\ s.pc = pc /\ s.keep = r.keep
    BY RunNext, RunWords
  <1>3. ~s.keep => s.name \notin cloud
    BY <1>0, <1>2 DEF IInv, Routines, SettlesTheGone, Closing
  <1> QED  BY <1>0, <1>1, <1>2, <1>3, RunAlone DEF RunTo

LEMMA RunFreeKeeps ==
    ASSUME IInv, NEW r \in runs, RunFree(r)
    PROVE  IInv'
  <1>0. /\ UNCHANGED <<reg, marker, beat, cloudVars, owed, startVars, reap>>
        /\ r.pc = "free" /\ lock' = 0 /\ lease' = FALSE /\ RunTo(r, "close")
    BY DEF RunFree
  <1>1. PICK s \in Runs : /\ s = [r EXCEPT !.pc = "close"]
                          /\ s.name = r.name /\ s.pc = "close" /\ s.keep = r.keep
    BY RunNext, RunWords
  <1>2. ~s.keep => s.name \notin cloud
    BY <1>0, <1>1 DEF IInv, Routines, SettlesTheGone, Closing
  <1>3. lock' \in 0 .. MaxStarts /\ lease' \in BOOLEAN
    <2>1. 0 \in 0 .. MaxStarts /\ FALSE \in BOOLEAN
      BY SlotAssumption
    <2> QED  BY <1>0, <2>1, Zenon
  <1> QED  BY <1>0, <1>1, <1>2, <1>3, RunAlone DEF RunTo

----------------------------------------------------------------------------
\* The ledger.

\* A step on one row that drops it only for a container that is gone, and is not
\* the row a start is about to hand over.
LEMMA RowMoves ==
    ASSUME IInv, Routines', runs' \subseteq Runs, owed' \in [Names -> Rows],
           NEW n \in Names, Owed(n), n \in cloud => Owed(n)',
           \A m \in Names : m # n => owed'[m] = owed[m],
           start.pc = "owe" \/ HandsOver => start.name # n,
           \A r \in runs' : r.name = n \/ \E s \in runs : s.name = r.name,
           UNCHANGED <<redisVars, cloudVars, startVars, reap>>
    PROVE  IInv'
  <1> USE DEF redisVars, cloudVars, startVars
  <1>1. TypeOK'
    BY DEF IInv, TypeOK
  <1>2. /\ \A m \in Names : Owed(m)' => Owed(m)
        /\ \A m \in cloud : Owed(m) => Owed(m)'
    BY DEF Owed, IInv, TypeOK
  <1>3. Placed'
    BY <1>1, <1>2, PlacedKept DEF IInv, Placed, AllBorn
  <1>4. Reaping' /\ OwnWork'
    BY <1>2, ReapingKept, OwnWorkKept DEF IInv
  <1>5. StartKnows' /\ Admitted'
    BY DEF IInv, Starting, StartKnows, Admitted, Born, Recorded
  <1>6. StartHasTheRow'
    <2>1. start.pc = "owe" \/ HandsOver => start.name \in Names
      BY DEF IInv, Starting, StartKnows, Naming, HandsOver, Born
    <2> QED
      BY <2>1 DEF IInv, Starting, StartHasTheRow, HandsOver, Unclaimed
  <1>7. StartClears'
    BY <1>2 DEF IInv, TypeOK, Starting, StartClears, Covered
  <1> QED  BY <1>1, <1>3, <1>4, <1>5, <1>6, <1>7 DEF IInv, Starting

\* A row is settled by the one routine that works on it.
LEMMA RunCloseKeeps ==
    ASSUME IInv, NEW r \in runs, RunClose(r)
    PROVE  IInv'
  <1>0. /\ UNCHANGED <<redisVars, cloudVars, startVars, reap>>
        /\ r.pc = "close" /\ runs' = runs \ {r}
    BY DEF RunClose
  <1>1. PICK n \in Names : n = r.name /\ owed[n].st = "claimed" /\ Owed(n)
    BY DEF IInv, TypeOK, Runs, Routines, UnderAClaim, Owed
  <1>2. ~r.keep => n \notin cloud
    BY <1>0, <1>1 DEF IInv, Routines, SettlesTheGone, Closing
  <1>3. /\ owed' \in [Names -> Rows] /\ (n \in cloud => Owed(n)')
        /\ \A m \in Names : m # n => owed'[m] = owed[m]
    <2>1. PICK x : x = [owed[n] EXCEPT !.st = "claimed"]
      OBVIOUS
    <2>2. x \in Rows /\ x.st = "claimed" /\ NoRow \in Rows
      BY <1>1, <2>1, SlotAssumption DEF IInv, TypeOK, Rows, NoRow
    <2>3. \/ ~r.keep /\ owed' = [owed EXCEPT ![n] = NoRow]
          \/ owed' = [owed EXCEPT ![n] = x]
          \/ owed' = owed
      BY <1>1, <2>1 DEF RunClose
    <2> QED  BY <1>1, <1>2, <2>2, <2>3 DEF IInv, TypeOK, Owed
  <1>4. Routines'
    BY <1>0, <1>1, <1>3
       DEF IInv, TypeOK, Runs, cloudVars, Routines, RunsKnow, OneRun, UnderAClaim,
           SettlesTheGone
  <1>5. start.pc = "owe" \/ HandsOver => start.name # n
    BY <1>1 DEF IInv, Starting, StartHasTheRow, Unclaimed
  <1>6. runs' \subseteq Runs
    BY <1>0 DEF IInv, TypeOK
  <1> QED  BY <1>0, <1>1, <1>3, <1>4, <1>5, <1>6, RowMoves

\* A claim lapses only where nobody works under it.
LEMMA ClaimLapsesKeeps ==
    ASSUME IInv, NEW n \in Names, ClaimLapses(n)
    PROVE  IInv'
  <1>0. /\ UNCHANGED <<redisVars, cloudVars, startVars, runs, reap>>
        /\ owed[n].st = "claimed" /\ \A r \in runs : r.name # n
        /\ start.pc \in {"owe", "handover", "clear", "wayclear"} => start.name # n
    BY DEF ClaimLapses
  <1>1. PICK x : x = [owed[n] EXCEPT !.st = "lapsed"]
    OBVIOUS
  <1>2. x \in Rows /\ x.st = "lapsed"
    BY <1>1 DEF IInv, TypeOK, Rows
  <1>3. owed' = [owed EXCEPT ![n] = x]
    BY <1>1 DEF ClaimLapses
  <1>4. /\ owed' \in [Names -> Rows] /\ Owed(n) /\ Owed(n)'
        /\ \A m \in Names : m # n => owed'[m] = owed[m]
    BY <1>0, <1>2, <1>3 DEF IInv, TypeOK, Owed
  <1>5. Routines'
    BY <1>0, <1>4
       DEF IInv, TypeOK, Runs, cloudVars, Routines, RunsKnow, OneRun, UnderAClaim,
           SettlesTheGone
  <1>6. start.pc = "owe" \/ HandsOver => start.name # n
    BY <1>0 DEF HandsOver
  <1>7. runs \subseteq Runs
    BY DEF IInv, TypeOK
  <1> QED  BY <1>0, <1>4, <1>5, <1>6, <1>7, RowMoves

\* Only a lapsed row is claimed again, and no routine works on that.
LEMMA SweepClaimsKeeps ==
    ASSUME IInv, NEW n \in Names, SweepClaims(n)
    PROVE  IInv'
  <1>0. /\ UNCHANGED <<redisVars, cloudVars, startVars, reap>>
        /\ owed[n].st = "lapsed"
    BY DEF SweepClaims
  <1>1. PICK x : x = [owed[n] EXCEPT !.st = "claimed",
                        !.tries = IF @ < Strikes THEN @ + 1 ELSE @]
    OBVIOUS
  <1>2. owed' = [owed EXCEPT ![n] = x] /\ runs' = runs \union {RunOf(n, "worker", x)}
    BY <1>1 DEF SweepClaims
  <1>3. x \in Rows /\ x.st = "claimed"
    <2>1. owed[n] \in Rows
      BY DEF IInv, TypeOK
    <2>2. PICK i \in 0 .. Strikes :
              i = (IF owed[n].tries < Strikes THEN owed[n].tries + 1
                                              ELSE owed[n].tries)
      BY <2>1, SlotAssumption DEF Rows
    <2>3. x = [owed[n] EXCEPT !.st = "claimed", !.tries = i]
      BY <1>1, <2>1, <2>2 DEF Rows
    <2> QED  BY <2>1, <2>3 DEF Rows
  <1>4. /\ owed' \in [Names -> Rows] /\ Owed(n) /\ Owed(n)'
        /\ owed'[n].st = "claimed"
        /\ \A m \in Names : m # n => owed'[m] = owed[m]
    BY <1>0, <1>2, <1>3 DEF IInv, TypeOK, Owed
  <1>5. \A r \in runs : r.name # n
    BY <1>0 DEF IInv, Routines, UnderAClaim
  <1>6. runs' \subseteq Runs /\ Routines'
    BY <1>0, <1>2, <1>3, <1>4, <1>5, NewRun DEF IInv, cloudVars
  <1>7. start.pc = "owe" \/ HandsOver => start.name # n
    BY <1>0 DEF IInv, Starting, StartHasTheRow, Unclaimed
  <1>8. \A r \in runs' : r.name = n \/ \E s \in runs : s.name = r.name
    BY <1>2 DEF RunOf
  <1> QED  BY <1>0, <1>4, <1>6, <1>7, <1>8, RowMoves

\* Each step of a routine and of the ledger.
LEMMA OwedStepKeeps ==
    ASSUME IInv, OwedStep
    PROVE  IInv'
  BY RunAttachKeeps, RunStopKeeps, RunCopyKeeps, RunMarkKeeps, RunTeardownKeeps,
     RunLetGoKeeps, RunLookKeeps, RunFreeKeeps, RunCloseKeeps, ClaimLapsesKeeps,
     SweepClaimsKeeps
     DEF OwedStep, RunStep

----------------------------------------------------------------------------
\* The registry sweep.

\* A step of the reap that moves no start, routine or row.
LEMMA ReapGoesOn ==
    ASSUME IInv, UNCHANGED <<marker, beat, appOf, madeFor, owed, starts, start, turn,
                             active, runs>>,
           lock' \in 0 .. MaxStarts, lease' \in BOOLEAN, cloud' \subseteq cloud,
           reg' \in Records, reg'.name \in {reg.name, NoName},
           \/ reg'.name = reg.name
           \/ reg'.name = NoName /\ \A n \in cloud' : n = reg.name => Owed(n)',
           tree' \in [Names -> SUBSET Edits], saved' \in [Apps -> SUBSET Edits],
           reap' \in ReapRecs, Reaping', OwnWork'
    PROVE  IInv'
  <1>1. TypeOK'
    BY DEF IInv, TypeOK
  <1>2. Placed'
    BY <1>1, PlacedKept DEF IInv, Placed, AllBorn, Owed
  <1>3. Routines' /\ Starting'
    BY <1>1, RoutinesKept, StartingKept DEF IInv
  <1> QED  BY <1>1, <1>2, <1>3 DEF IInv

LEMMA ReapWords ==
    /\ NoReap \in ReapRecs /\ NoReap.pc = "idle"
    /\ [NoReap EXCEPT !.pc = "judge"] \in ReapRecs
    /\ [NoReap EXCEPT !.pc = "judge"].pc = "judge"
    /\ [NoReap EXCEPT !.pc = "free"] \in ReapRecs
    /\ [NoReap EXCEPT !.pc = "free"].pc = "free"
  BY DEF NoReap, ReapRecs, Name0

\* One who holds nothing, or has found nothing yet.
LEMMA ReapAlone ==
    ASSUME IInv, UNCHANGED <<reg, marker, beat, cloudVars, owed, startVars, runs>>,
           lock' \in 0 .. MaxStarts, lease' \in BOOLEAN, reap' \in ReapRecs, Reaping'
    PROVE  IInv'
  <1> USE DEF cloudVars, startVars
  <1>1. OwnWork'
    BY OwnWorkKept DEF IInv
  <1> QED  BY <1>1, ReapGoesOn DEF IInv, TypeOK

LEMMA ReapScanKeeps ==
    ASSUME IInv, ReapScan
    PROVE  IInv'
  <1>1. /\ UNCHANGED <<lock, reg, marker, lease, beat, cloudVars, owed, startVars,
                       runs>>
        /\ reap' = [NoReap EXCEPT !.pc = "judge"]
    BY DEF ReapScan, redisVars
  <1>2. reap' \in ReapRecs /\ Reaping'
    BY <1>1, ReapWords DEF Reaping
  <1> QED  BY <1>1, <1>2, ReapAlone DEF IInv, TypeOK

LEMMA ReapJudgeKeeps ==
    ASSUME IInv, ReapJudge
    PROVE  IInv'
  <1>0. UNCHANGED <<reg, marker, lease, beat, cloudVars, owed, startVars, runs>>
    BY DEF ReapJudge
  <1>1. lock' \in 0 .. MaxStarts
    BY SlotAssumption DEF ReapJudge, IInv, TypeOK
  <1>2. reap' \in ReapRecs /\ Reaping'
    <2>1. CASE Recorded /\ ~ClaimStands
      <3>1. PICK n \in Names : n = reg.name /\ Born(n)
        BY <2>1, RecordNames DEF Recorded, IInv, TypeOK, Placed, AllBorn
      <3>2. reap' = [reap EXCEPT !.pc = "copy", !.name = n]
        BY <2>1, <3>1 DEF ReapJudge
      <3>3. reap' \in ReapRecs /\ reap'.pc = "copy" /\ reap'.name = n
        BY <3>2 DEF IInv, TypeOK, ReapRecs, Name0
      <3>4. Born(n)'
        BY <1>0, <3>1, <3>3 DEF Born, cloudVars
      <3> QED  BY <3>3, <3>4 DEF Reaping, Born
    <2>2. CASE ~(Recorded /\ ~ClaimStands)
      BY <2>2, ReapWords DEF ReapJudge, Reaping
    <2> QED  BY <2>1, <2>2
  <1> QED  BY <1>0, <1>1, <1>2, ReapAlone DEF IInv, TypeOK

LEMMA ReapCopyKeeps ==
    ASSUME IInv, ReapCopy
    PROVE  IInv'
  <1>0. /\ UNCHANGED <<lock, reg, marker, lease, beat, cloud, appOf, tree, madeFor,
                       owed, starts, start, turn, active, runs>>
        /\ reap.pc = "copy"
    BY DEF ReapCopy, redisVars, startVars
  <1>1. PICK n \in Names : n = reap.name /\ Born(n)
    BY <1>0 DEF IInv, Reaping, Born
  <1>2. /\ reap \in ReapRecs /\ reg \in Records /\ lock \in 0 .. MaxStarts
        /\ lease \in BOOLEAN /\ tree \in [Names -> SUBSET Edits]
        /\ saved \in [Apps -> SUBSET Edits]
    BY DEF IInv, TypeOK
  <1>3. CASE /\ reg.name = n
             /\ saved' = [saved EXCEPT ![appOf[n]] = tree[n]]
             /\ reap' = [reap EXCEPT !.pc = "mark", !.read = TRUE, !.kept = tree[n]]
    <2>1. saved' \in [Apps -> SUBSET Edits] /\ OwnWork'
      BY <1>0, <1>1, <1>3, Saving
    <2>2. reap' \in ReapRecs /\ reap'.pc = "mark" /\ reap'.name = n
      BY <1>1, <1>2, <1>3 DEF ReapRecs
    <2>3. Reaping'
      BY <1>0, <1>1, <2>2 DEF Reaping, Born
    <2> QED  BY <1>0, <1>2, <2>1, <2>2, <2>3, ReapGoesOn
  <1>4. CASE /\ saved' = saved
             /\ reap' \in {[reap EXCEPT !.pc = "mark"], NoReap}
    <2>1. reap' \in ReapRecs /\ Reaping'
      <3>1. CASE reap' = [reap EXCEPT !.pc = "mark"]
        <4>1. reap' \in ReapRecs /\ reap'.pc = "mark" /\ reap'.name = n
          BY <1>1, <1>2, <3>1 DEF ReapRecs
        <4> QED  BY <1>0, <1>1, <4>1 DEF Reaping, Born
      <3>2. CASE reap' = NoReap
        BY <3>2, ReapWords DEF Reaping
      <3> QED  BY <1>4, <3>1, <3>2
    <2> QED
      BY <1>0, <1>2, <1>4, <2>1, ReapAlone DEF cloudVars, startVars
  <1> QED  BY <1>1, <1>3, <1>4 DEF ReapCopy

LEMMA ReapMarkKeeps ==
    ASSUME IInv, ReapMark
    PROVE  IInv'
  <1>0. /\ UNCHANGED <<lock, marker, lease, beat, cloud, appOf, tree, saved,
                       madeFor, owed, starts, start, turn, active, runs>>
        /\ reap.pc = "mark"
        /\ reg' = Ending(reap.name) /\ reap' = [reap EXCEPT !.pc = "teardown"]
    BY DEF ReapMark, ReapTo, cloudVars, startVars
  <1>1. /\ reap \in ReapRecs /\ reg \in Records /\ lock \in 0 .. MaxStarts
        /\ lease \in BOOLEAN /\ tree \in [Names -> SUBSET Edits]
        /\ saved \in [Apps -> SUBSET Edits]
        /\ reap.name \in Names /\ Born(reap.name)
    BY <1>0 DEF IInv, TypeOK, Reaping, Born
  <1>2. reg' \in Records /\ reg'.name = reg.name
    BY <1>0, <1>1, RecordMoves
  <1>3. reap' \in ReapRecs /\ reap'.pc = "teardown" /\ reap'.name = reap.name
    BY <1>0, <1>1 DEF ReapRecs
  <1>4. Reaping'
    BY <1>0, <1>1, <1>3 DEF Reaping, Born
  <1>5. OwnWork'
    BY <1>0, OwnWorkKept DEF IInv
  <1> QED  BY <1>0, <1>1, <1>2, <1>3, <1>4, <1>5, ReapGoesOn

\* A container the reap could not delete is owed before its record goes.
LEMMA ReapTeardownKeeps ==
    ASSUME IInv, ReapTeardown
    PROVE  IInv'
  <1>0. /\ UNCHANGED <<lock, reg, marker, lease, beat, appOf, saved, madeFor, starts,
                       start, turn, active, runs>>
        /\ reap.pc = "teardown"
        /\ reap' = [NoReap EXCEPT !.pc = "letgo", !.name = reap.name]
    BY DEF ReapTeardown, redisVars, startVars
  <1>1. PICK n \in Names : n = reap.name /\ Born(n)
    BY <1>0 DEF IInv, Reaping, Born
  <1>2. /\ reap' \in ReapRecs /\ reap'.pc = "letgo" /\ reap'.name = n
    BY <1>0, <1>1 DEF NoReap, ReapRecs, Name0
  <1>3. /\ reg \in Records /\ lock \in 0 .. MaxStarts
        /\ lease \in BOOLEAN /\ tree \in [Names -> SUBSET Edits]
        /\ saved \in [Apps -> SUBSET Edits]
    BY DEF IInv, TypeOK
  <1>4. CASE Delete(n) /\ owed' = owed
    <2>1. /\ cloud' \subseteq cloud /\ n \notin cloud'
          /\ tree' \in [Names -> SUBSET Edits]
          /\ \A m \in Names : tree'[m] \subseteq tree[m]
      BY <1>0, <1>4, Deleting
    <2>2. OwnWork'
      BY <1>0, <2>1, OwnWorkKept DEF IInv
    <2>3. Reaping'
      BY <1>0, <1>1, <1>2, <2>1 DEF Reaping, Born, Covered
    <2> QED  BY <1>0, <1>2, <1>3, <1>4, <2>1, <2>2, <2>3, ReapGoesOn
  <1>5. CASE owed' = Debt(n, TRUE, 0) /\ UNCHANGED <<cloud, tree>>
    <2>1. 0 \in 0 .. MaxStarts
      BY SlotAssumption
    <2>2. /\ owed' \in [Names -> Rows] /\ Owed(n)'
          /\ \A m \in Names : Owed(m) => owed'[m] = owed[m]
          /\ \A m \in Names : m # n => owed'[m] = owed[m]
          /\ ~Owed(n) => owed'[n].st = "claimed"
      BY <1>5, <2>1, Owing DEF IInv
    <2>3. TypeOK'
      BY <1>0, <1>2, <1>5, <2>2 DEF IInv, TypeOK
    <2>4. Placed' /\ Routines'
      BY <1>0, <1>1, <1>5, <2>1, <2>3, OwingKeeps
    <2>5. Reaping'
      BY <1>0, <1>1, <1>2, <2>2 DEF Reaping, Born, Covered
    <2>6. Starting'
      <3>1. StartKnows' /\ Admitted'
        BY <1>0 DEF IInv, Starting, StartKnows, Admitted, Born, Recorded
      <3>2. StartHasTheRow'
        <4>1. start.pc = "owe" \/ HandsOver => start.name \in Names
          BY DEF IInv, Starting, StartKnows, Naming, HandsOver, Born
        <4> QED
          BY <1>0, <2>2, <4>1
             DEF IInv, Starting, StartHasTheRow, HandsOver, Unclaimed, Owed
      <3>3. StartClears'
        BY <1>0, <1>5, <2>2
           DEF IInv, TypeOK, Starting, StartClears, Covered, Owed
      <3> QED  BY <3>1, <3>2, <3>3 DEF Starting
    <2>7. OwnWork'
      BY <1>0, <1>5, OwnWorkKept DEF IInv
    <2> QED  BY <2>3, <2>4, <2>5, <2>6, <2>7 DEF IInv
  <1> QED  BY <1>1, <1>4, <1>5 DEF ReapTeardown

LEMMA ReapLetGoKeeps ==
    ASSUME IInv, ReapLetGo
    PROVE  IInv'
  <1>0. /\ UNCHANGED <<lock, marker, lease, beat, cloud, appOf, tree, saved,
                       madeFor, owed, starts, start, turn, active, runs>>
        /\ reap.pc = "letgo" /\ reg' = Cleared(reap.name)
        /\ reap' \in {NoReap, [NoReap EXCEPT !.pc = "free"]}
    BY DEF ReapLetGo, cloudVars, startVars
  <1>1. /\ reg \in Records /\ lock \in 0 .. MaxStarts
        /\ lease \in BOOLEAN /\ tree \in [Names -> SUBSET Edits]
        /\ saved \in [Apps -> SUBSET Edits]
    BY DEF IInv, TypeOK
  <1>2. PICK n \in Names : n = reap.name /\ Covered(n)
    BY <1>0 DEF IInv, Reaping, Born
  <1>3. reg' \in Records /\ reg'.name = (IF reg.name = n THEN NoName ELSE reg.name)
    BY <1>0, <1>1, <1>2, RecordMoves
  <1>4. \/ reg'.name = reg.name
        \/ reg'.name = NoName /\ \A m \in cloud' : m = reg.name => Owed(m)'
    BY <1>0, <1>2, <1>3 DEF Covered, Owed
  <1>5. reap' \in ReapRecs /\ Reaping'
    BY <1>0, ReapWords DEF Reaping
  <1>6. OwnWork'
    BY <1>0, OwnWorkKept DEF IInv
  <1> QED  BY <1>0, <1>1, <1>3, <1>4, <1>5, <1>6, ReapGoesOn

LEMMA ReapFreeKeeps ==
    ASSUME IInv, ReapFree
    PROVE  IInv'
  <1>0. /\ UNCHANGED <<reg, marker, beat, cloudVars, owed, startVars, runs>>
        /\ lease' = FALSE /\ lock' = 0 /\ reap' = NoReap
    BY DEF ReapFree
  <1>1. reap' \in ReapRecs /\ Reaping'
    BY <1>0, ReapWords DEF Reaping
  <1>2. lock' \in 0 .. MaxStarts /\ lease' \in BOOLEAN
    <2>1. 0 \in 0 .. MaxStarts /\ FALSE \in BOOLEAN
      BY SlotAssumption
    <2> QED  BY <1>0, <2>1, Zenon
  <1> QED  BY <1>0, <1>1, <1>2, ReapAlone

LEMMA ReapStepKeeps ==
    ASSUME IInv, ReapStep
    PROVE  IInv'
  BY ReapScanKeeps, ReapJudgeKeeps, ReapCopyKeeps, ReapMarkKeeps,
     ReapTeardownKeeps, ReapLetGoKeeps, ReapFreeKeeps
     DEF ReapStep

----------------------------------------------------------------------------
\* The theorems.

\* Standing still.
LEMMA Stuttering ==
    ASSUME IInv, UNCHANGED vars
    PROVE  IInv'
  <1>1. UNCHANGED <<lock, reg, marker, lease, beat, cloud, appOf, tree, saved,
                    madeFor, owed, starts, start, turn, active, runs, reap>>
    BY DEF vars, redisVars, cloudVars, startVars
  <1>2. TypeOK'
    BY <1>1 DEF IInv, TypeOK
  <1>3. Placed' /\ Routines' /\ Starting' /\ Reaping'
    BY <1>1, <1>2, Aside
  <1>4. OwnWork'
    BY <1>1, OwnWorkKept DEF IInv
  <1> QED  BY <1>2, <1>3, <1>4 DEF IInv

\* The invariant holds in every state, whatever fails to answer, is cancelled or
\* dies on the way, and whether or not the registry sweep runs.
THEOREM Invariance == Spec => []IInv
  <1>1. Init => IInv
    BY Initially
  <1>2. IInv /\ [Next]_vars => IInv'
    BY StartStepKeeps, TurnStepKeeps, OwedStepKeeps, ReapStepKeeps, Stuttering
       DEF Next
  <1> QED  BY <1>1, <1>2, PTL DEF Spec

\* Every variable keeps its type: a start, a routine and a reap know the names
\* and projects their next step reads, and a routine the turn it is to stop.
THEOREM TypeCorrect == Spec => []TypeOK
  <1>1. IInv => TypeOK
    BY DEF IInv
  <1> QED  BY <1>1, Invariance, PTL

\* Every container that stands is named by the person's record or by a row of
\* the ledger: no step clears the record before the row is written or the
\* container is gone, and no row is settled while its container stands
\* (_owe_the_holder, _let_go_of_the_slot, _settle_the_debt).
THEOREM NothingIsOrphaned == Spec => []NoOrphan
  <1>1. IInv => NoOrphan
    BY DEF IInv, Placed
  <1> QED  BY <1>1, Invariance, PTL

\* One routine to a claim: the API's detached run and the worker's sweep never
\* work on one row together (claim_the_teardown_we_owe, sweep_owed_teardowns).
THEOREM OneRoutine == Spec => []OneRun
  <1>1. IInv => OneRun
    BY DEF IInv, Routines
  <1> QED  BY <1>1, Invariance, PTL

\* A turn works in a container of its own project, and a saved copy holds only
\* its own project's work, whichever of the endings wrote it
\* (write_the_tree_back, _take_the_copy_we_promised, _resolve_sandbox).
THEOREM WorkStaysWithItsProject == Spec => []EachProjectItsOwn
  <1>1. IInv => EachProjectItsOwn
    BY DEF IInv, OwnWork
  <1> QED  BY <1>1, Invariance, PTL

----------------------------------------------------------------------------
\* Where every call answers and no process dies: a container is never taken from
\* under its turn, and a copy is whole.

Answers == ~Unanswering /\ ~Cancels /\ ~RegistrySweep

\* Every routine was handed its row by a switch, in the API, to write back, and
\* reaches its container.
Reached == {"attach", "stop", "copy", "mark", "teardown"}
RunsWriteBack ==
    \A r \in runs :
        /\ r.by = "api" /\ ~r.keep
        /\ r.pc = "attach" => r.back
        /\ r.pc \in Reached => r.name \in cloud

\* A row is owed while its routine runs, or is about to.
Working(n) == \E r \in runs : r.name = n
RowsAreWorkedOn ==
    /\ \A n \in Names : Owed(n) =>
          Working(n) \/ (start.pc = "handover" /\ start.name = n)
    /\ \A n \in Names : owed[n].st # "lapsed"
    /\ start.pc = "handover" => owed[start.name].back

\* The record is of a container that stands and serves and is nobody's to end,
\* except between the hand-over and the lock.
Leaving == start.pc = "lock" /\ start.leaving
RecordServes ==
    IF Leaving
    THEN Recorded => \E r \in runs : r.name = reg.name /\ r.pc \in Reached \union {"letgo"}
    ELSE Recorded => reg.ready /\ reg.name \in cloud /\ ~Working(reg.name)

\* So a start never finds a record in its way.
StartFindsItsWay ==
    /\ start.pc \notin {"clear", "wayclear", "undo"}
    /\ start.pc \in {"reclaim", "way", "birth"} => ~Recorded
    /\ start.pc = "lock" /\ ~start.leaving => ~Recorded \/ Serves(start.app)
    /\ start.pc \in {"owe", "handover", "settle", "finish"} => reg.name = start.name

\* A turn works in the container of the record, as the live session, or in one
\* whose routine has yet to stop it.
AtHome(t) ==
    /\ reg.name = turn[t].name /\ active = t
    /\ ~Working(turn[t].name)
    /\ start.pc # "idle" => turn[t].app # start.app
    /\ start.pc = "handover" => owed[start.name].turn = t
ToBeStopped(t) ==
    \E r \in runs : /\ r.name = turn[t].name /\ r.turn = t
                    /\ r.pc \in {"attach", "stop"}
TurnsAreSafe ==
    \A t \in Tokens : turn[t].pc = "working" => AtHome(t) \/ ToBeStopped(t)

QInv ==
    /\ reap = NoReap
    /\ RunsWriteBack /\ RowsAreWorkedOn
    /\ RecordServes /\ StartFindsItsWay
    /\ TurnsAreSafe /\ WrittenBackFirst

\* A working turn's container stands, at home or until its routine has stopped it.
LEMMA SafeTurnsStand ==
    ASSUME IInv, QInv
    PROVE  WorkingContainerStands
  <1> SUFFICES ASSUME NEW t \in Tokens, turn[t].pc = "working"
               PROVE  turn[t].name \in cloud
    BY DEF WorkingContainerStands
  <1>1. CASE AtHome(t)
    <2>1. turn[t].name \in Names
      BY DEF IInv, OwnWork, TurnsKnow, Born
    <2>2. Recorded /\ ~Working(reg.name)
      BY <1>1, <2>1, RecordNames DEF AtHome, Recorded, IInv, TypeOK
    <2>3. ~Leaving
      BY <2>2 DEF QInv, RecordServes, Working
    <2> QED  BY <1>1, <2>2, <2>3 DEF AtHome, QInv, RecordServes
  <1>2. CASE ToBeStopped(t)
    BY <1>2 DEF ToBeStopped, QInv, RunsWriteBack, Reached
  <1> QED  BY <1>1, <1>2 DEF QInv, TurnsAreSafe

LEMMA QuietInitially == Init => QInv
  <1> SUFFICES ASSUME Init  PROVE QInv
    OBVIOUS
  <1>1. RunsWriteBack /\ RowsAreWorkedOn
    BY DEF Init, RunsWriteBack, RowsAreWorkedOn, Owed, NoRow, NoStart
  <1>2. RecordServes /\ StartFindsItsWay
    BY DEF Init, RecordServes, StartFindsItsWay, Recorded, Leaving, NoStart
  <1>3. TurnsAreSafe
    BY DEF Init, TurnsAreSafe, NoTurn
  <1>4. WrittenBackFirst
    BY DEF Init, WrittenBackFirst, Doomed, NoReap
  <1> QED  BY <1>1, <1>2, <1>3, <1>4 DEF Init, QInv

\* What a start's steps keep that move only the start and the locks.
LEMMA QuietStart ==
    ASSUME IInv, IInv', QInv,
           UNCHANGED <<cloud, appOf, tree, owed, turn, active, runs, reap>>,
           reg'.name = reg.name, reg'.ready = reg.ready,
           start.pc # "handover", start'.pc # "handover", ~Leaving, ~Leaving',
           start'.pc # "idle" => start.pc # "idle" /\ start'.app = start.app,
           StartFindsItsWay'
    PROVE  QInv'
  <1>0. /\ Recorded <=> reg.name \in Names
        /\ Recorded' <=> reg'.name \in Names
    BY RecordNames DEF IInv, TypeOK, Recorded
  <1>1. RunsWriteBack' /\ RowsAreWorkedOn'
    BY DEF QInv, RunsWriteBack, RowsAreWorkedOn, Owed, Working
  <1>2. RecordServes'
    BY <1>0 DEF QInv, RecordServes, Working
  <1>3. TurnsAreSafe'
    BY DEF QInv, TurnsAreSafe, AtHome, ToBeStopped, Working
  <1>4. WrittenBackFirst'
    BY DEF QInv, WrittenBackFirst, Doomed
  <1> QED  BY <1>1, <1>2, <1>3, <1>4 DEF QInv

\* A project is not started again while the live session works in it.
LEMMA QuietAdmit ==
    ASSUME IInv, IInv', QInv, NEW a \in Apps, NEW k \in {"turn", "relaunch"},
           Admit(a, k)
    PROVE  QInv'
  <1>0. /\ UNCHANGED <<reg, cloud, appOf, tree, owed, turn, active, runs, reap>>
        /\ start.pc = "idle" /\ (active # 0 => turn[active].app # a)
    BY DEF Admit, redisVars, cloudVars
  <1>1. start'.pc = "door" /\ start'.app = a
    BY DEF Admit, NoStart
  <1>2. RunsWriteBack' /\ RowsAreWorkedOn'
    BY <1>0, <1>1 DEF QInv, RunsWriteBack, RowsAreWorkedOn, Owed, Working
  <1>3. RecordServes' /\ StartFindsItsWay'
    BY <1>0, <1>1
       DEF QInv, RecordServes, StartFindsItsWay, Recorded, Leaving, Working
  <1>4. TurnsAreSafe'
    <2>1. \A t \in Tokens : t # 0
      BY SlotAssumption DEF Tokens
    <2> QED
      BY <1>0, <1>1, <2>1 DEF QInv, TurnsAreSafe, AtHome, ToBeStopped, Working
  <1>5. WrittenBackFirst'
    BY <1>0 DEF QInv, WrittenBackFirst, Doomed
  <1> QED  BY <1>0, <1>2, <1>3, <1>4, <1>5 DEF QInv

\* The door finds nothing, its own project, or another's that nobody ends.
LEMMA QuietDoor ==
    ASSUME IInv, IInv', QInv, Door
    PROVE  QInv'
  <1>0. /\ UNCHANGED <<reg, cloud, appOf, tree, owed, turn, active, runs, reap>>
        /\ start.pc = "door"
    BY DEF Door, redisVars, cloudVars
  <1>1. /\ start \in StartRecs /\ reg \in Records /\ ~start.leaving
    BY <1>0 DEF IInv, TypeOK, Starting, StartKnows
  <1>2. ~Leaving /\ (Recorded => reg.ready /\ ~Working(reg.name))
    BY <1>0 DEF Leaving, QInv, RecordServes
  <1>3. CASE ~reg.ready \/ Serves(start.app)
    <2>1. start' = [start EXCEPT !.pc = "lock"]
      BY <1>3 DEF Door
    <2>2. start'.pc = "lock" /\ start'.app = start.app /\ ~start'.leaving
      BY <1>1, <2>1, StartMoves, StartWords
    <2>3. StartFindsItsWay'
      BY <1>0, <1>2, <1>3, <2>2 DEF StartFindsItsWay, Serves, Recorded
    <2> QED  BY <1>0, <1>2, <2>2, <2>3, QuietStart DEF Leaving
  <1>4. CASE ~(~reg.ready \/ Serves(start.app))
    <2>1. reg.name \in Names /\ Recorded
      BY <1>1, <1>4, RecordNames DEF Recorded
    <2>2. ~Owed(reg.name)
      BY <1>0, <1>2, <2>1 DEF QInv, RowsAreWorkedOn
    <2>3. start' = [start EXCEPT !.pc = "owe", !.name = reg.name]
      BY <1>4, <2>2 DEF Door
    <2>4. start'.pc = "owe" /\ start'.app = start.app /\ start'.name = reg.name
      BY <1>1, <2>3 DEF StartRecs
    <2>5. StartFindsItsWay'
      BY <1>0, <2>4 DEF StartFindsItsWay
    <2> QED  BY <1>0, <1>2, <2>4, <2>5, QuietStart DEF Leaving
  <1> QED  BY <1>3, <1>4

\* The row written names the very turn that works in the container.
LEMMA QuietOweOutgoing ==
    ASSUME IInv, IInv', QInv, OweOutgoing
    PROVE  QInv'
  <1>0. /\ UNCHANGED <<reg, cloud, appOf, tree, turn, active, runs, reap>>
        /\ start.pc = "owe"
    BY DEF OweOutgoing, redisVars, cloudVars
  <1>1. start' = [start EXCEPT !.pc = "handover"] /\ start \in StartRecs
    BY DEF OweOutgoing, To, IInv, TypeOK
  <1>2. start'.pc = "handover" /\ start'.app = start.app /\ start'.name = start.name
    BY <1>1, StartMoves, StartWords
  <1>3. PICK n \in Names : n = start.name /\ n = reg.name
    BY <1>0 DEF QInv, StartFindsItsWay, IInv, Starting, StartKnows, Naming, Born
  <1>4. PICK t \in 0 .. MaxStarts : t = TurnIn(appOf[n])
    BY SlotAssumption DEF TurnIn, IInv, TypeOK
  <1>5. ~Leaving /\ ~Leaving' /\ ~Working(n)
    <2>1. ~Leaving /\ ~Leaving'
      BY <1>0, <1>2 DEF Leaving
    <2>2. Recorded
      BY <1>3, RecordNames DEF IInv, TypeOK, Recorded
    <2> QED  BY <1>3, <2>1, <2>2 DEF QInv, RecordServes
  <1>6. ~Owed(n)
    BY <1>0, <1>5 DEF QInv, RowsAreWorkedOn
  <1>7. PICK x : x = [st |-> "claimed", back |-> TRUE, tries |-> 1, turn |-> t]
    OBVIOUS
  <1>8. x.st = "claimed" /\ x.back /\ x.turn = t
    BY <1>7
  <1>9. owed' = [owed EXCEPT ![n] = x]
    BY <1>3, <1>4, <1>6, <1>7 DEF OweOutgoing, Debt
  <1>10. owed'[n] = x /\ \A m \in Names : m # n => owed'[m] = owed[m]
    BY <1>9 DEF IInv, TypeOK
  <1>11. RowsAreWorkedOn'
    BY <1>0, <1>2, <1>3, <1>8, <1>10 DEF QInv, RowsAreWorkedOn, Owed, Working
  <1>12. RecordServes' /\ StartFindsItsWay'
    BY <1>0, <1>2, <1>3, <1>5
       DEF QInv, RecordServes, StartFindsItsWay, Recorded, Working
  <1>13. TurnsAreSafe'
    <2> SUFFICES ASSUME NEW u \in Tokens, turn[u].pc = "working"
                 PROVE  AtHome(u)' \/ ToBeStopped(u)'
      BY <1>0 DEF TurnsAreSafe
    <2>1. CASE AtHome(u)
      <3>1. turn[u].app = appOf[n]
        BY <1>3, <2>1 DEF AtHome, IInv, OwnWork, EachProjectItsOwn, WorksInItsOwn
      <3>2. t = u
        BY <1>4, <2>1, <3>1, SlotAssumption DEF AtHome, TurnIn, Tokens
      <3> QED
        BY <1>0, <1>2, <1>3, <1>8, <1>10, <2>1, <3>2 DEF AtHome, Working
    <2>2. CASE ToBeStopped(u)
      BY <1>0, <2>2 DEF ToBeStopped
    <2> QED  BY <2>1, <2>2 DEF QInv, TurnsAreSafe
  <1>14. RunsWriteBack' /\ WrittenBackFirst'
    BY <1>0 DEF QInv, RunsWriteBack, WrittenBackFirst, Doomed
  <1> QED  BY <1>0, <1>11, <1>12, <1>13, <1>14 DEF QInv

\* From the hand-over on the turn is the routine's to stop.
LEMMA QuietHandOver ==
    ASSUME IInv, IInv', QInv, HandOver
    PROVE  QInv'
  <1>0. /\ UNCHANGED <<reg, cloud, appOf, tree, owed, turn, active, reap>>
        /\ start.pc = "handover"
    BY DEF HandOver, redisVars, cloudVars
  <1>1. /\ start' = [start EXCEPT !.pc = "lock", !.leaving = TRUE]
        /\ start \in StartRecs
    BY DEF HandOver, IInv, TypeOK
  <1>2. start'.pc = "lock" /\ start'.leaving
    BY <1>1 DEF StartRecs
  <1>3. PICK n \in Names : n = start.name /\ n = reg.name
    BY <1>0 DEF QInv, StartFindsItsWay, IInv, Starting, StartKnows, Naming, Born
  <1>4. n \in cloud
    BY <1>0, <1>3, RecordNames
       DEF QInv, RecordServes, Recorded, Leaving, IInv, TypeOK
  <1>5. PICK x : x = RunOf(n, "api", owed[n])
    OBVIOUS
  <1>6. /\ x.name = n /\ x.by = "api" /\ x.pc = "attach" /\ x.back /\ ~x.keep
        /\ x.turn = owed[n].turn
    BY <1>0, <1>3, <1>5 DEF RunOf, QInv, RowsAreWorkedOn
  <1>7. runs' = runs \union {x}
    BY <1>3, <1>5 DEF HandOver, Spawned
  <1>8. RunsWriteBack'
    BY <1>0, <1>4, <1>6, <1>7 DEF QInv, RunsWriteBack
  <1>9. RowsAreWorkedOn'
    BY <1>0, <1>2, <1>3, <1>6, <1>7 DEF QInv, RowsAreWorkedOn, Owed, Working
  <1>10. RecordServes' /\ StartFindsItsWay'
    BY <1>0, <1>2, <1>3, <1>6, <1>7
       DEF RecordServes, StartFindsItsWay, Leaving, Reached
  <1>11. TurnsAreSafe'
    <2> SUFFICES ASSUME NEW u \in Tokens, turn[u].pc = "working"
                 PROVE  ToBeStopped(u)'
      BY <1>0 DEF TurnsAreSafe
    <2>1. CASE AtHome(u)
      BY <1>0, <1>3, <1>6, <1>7, <2>1 DEF AtHome, ToBeStopped
    <2>2. CASE ToBeStopped(u)
      BY <1>0, <1>7, <2>2 DEF ToBeStopped
    <2> QED  BY <2>1, <2>2 DEF QInv, TurnsAreSafe
  <1>12. WrittenBackFirst'
    BY <1>0, <1>6, <1>7 DEF QInv, WrittenBackFirst, Doomed
  <1> QED  BY <1>0, <1>8, <1>9, <1>10, <1>11, <1>12 DEF QInv

\* The record a start clears at the lock is of the container it handed over.
LEMMA QuietTakeLock ==
    ASSUME IInv, IInv', QInv, TakeLock
    PROVE  QInv'
  <1>0. /\ UNCHANGED <<cloud, appOf, tree, owed, turn, active, runs, reap>>
        /\ start.pc = "lock"
    BY DEF TakeLock, cloudVars
  <1>1. start' = [start EXCEPT !.pc = "mark"] /\ start \in StartRecs
    BY DEF TakeLock, To, IInv, TypeOK
  <1>2. start'.pc = "mark" /\ start'.app = start.app
    BY <1>1, StartMoves, StartWords
  <1>3. ~Leaving' /\ StartFindsItsWay'
    BY <1>2 DEF Leaving, StartFindsItsWay
  <1>4. CASE ~start.leaving
    <2>1. reg' = reg
      BY <1>4 DEF TakeLock
    <2> QED  BY <1>0, <1>2, <1>3, <1>4, <2>1, QuietStart DEF Leaving
  <1>5. CASE start.leaving
    <2>1. ~Recorded'
      BY <1>5 DEF TakeLock, Recorded
    <2>2. \A u \in Tokens : turn[u].pc = "working" => ToBeStopped(u)
      <3> SUFFICES ASSUME NEW u \in Tokens, turn[u].pc = "working", AtHome(u)
                   PROVE  FALSE
        BY DEF QInv, TurnsAreSafe
      <3>1. turn[u].name \in Names
        BY DEF IInv, OwnWork, TurnsKnow, Born
      <3>2. Recorded
        BY <3>1, RecordNames DEF AtHome, Recorded, IInv, TypeOK
      <3>3. Working(reg.name)
        BY <1>0, <1>5, <3>2 DEF QInv, RecordServes, Leaving, Working
      <3> QED  BY <3>3 DEF AtHome
    <2>3. TurnsAreSafe'
      BY <1>0, <2>2 DEF TurnsAreSafe, ToBeStopped
    <2>4. RunsWriteBack' /\ RowsAreWorkedOn' /\ RecordServes' /\ WrittenBackFirst'
      BY <1>0, <1>2, <1>3, <2>1
         DEF QInv, RunsWriteBack, RowsAreWorkedOn, RecordServes, Owed, Working,
             WrittenBackFirst, Doomed
    <2> QED  BY <1>0, <1>3, <2>3, <2>4 DEF QInv
  <1> QED  BY <1>4, <1>5

LEMMA QuietReclaim ==
    ASSUME IInv, IInv', QInv, Reclaim
    PROVE  QInv'
  <1>0. /\ UNCHANGED <<reg, cloud, appOf, tree, owed, turn, active, runs, reap>>
        /\ start.pc = "lock" /\ ~start.leaving /\ ~Serves(start.app)
    BY DEF Reclaim, cloudVars
  <1>1. start' = [start EXCEPT !.pc = "reclaim"] /\ start \in StartRecs
    BY DEF Reclaim, To, IInv, TypeOK
  <1>2. start'.pc = "reclaim" /\ start'.app = start.app
    BY <1>1, StartMoves, StartWords
  <1>3. StartFindsItsWay'
    BY <1>0, <1>2 DEF StartFindsItsWay, QInv, Recorded
  <1> QED  BY <1>0, <1>2, <1>3, QuietStart DEF Leaving

\* Nobody finds a record in the way of a start that got past the door.
LEMMA QuietOweHolder ==
    ASSUME IInv, IInv', QInv, NEW pc, NEW next, NEW empty,
           OweHolder(pc, next, empty),
           \/ pc = "reclaim" /\ empty = "mark"
           \/ pc = "way" /\ empty = "birth"
    PROVE  QInv'
  <1>1. ~Recorded /\ start.pc = pc /\ start \in StartRecs
    BY DEF OweHolder, QInv, StartFindsItsWay, IInv, TypeOK
  <1>2. /\ UNCHANGED <<reg, cloud, appOf, tree, owed, turn, active, runs, reap>>
        /\ start' = [start EXCEPT !.pc = empty]
    BY <1>1 DEF OweHolder, cloudVars
  <1>3. start'.pc = empty /\ start'.app = start.app
    BY <1>1, <1>2, StartMoves, StartWords
  <1>4. StartFindsItsWay'
    BY <1>1, <1>2, <1>3 DEF StartFindsItsWay, Recorded
  <1> QED  BY <1>1, <1>2, <1>3, <1>4, QuietStart DEF Leaving

LEMMA QuietMark ==
    ASSUME IInv, IInv', QInv, Mark
    PROVE  QInv'
  <1>0. /\ UNCHANGED <<reg, cloud, appOf, tree, owed, turn, active, runs, reap>>
        /\ start.pc = "mark" /\ start \in StartRecs
        /\ start' = [start EXCEPT !.pc = "resolve", !.name = NoName, !.leaving = FALSE]
    BY DEF Mark, cloudVars, IInv, TypeOK
  <1>1. start'.pc = "resolve" /\ start'.app = start.app
    BY <1>0 DEF StartRecs
  <1>2. StartFindsItsWay'
    BY <1>1 DEF StartFindsItsWay
  <1> QED  BY <1>0, <1>1, <1>2, QuietStart DEF Leaving

\* A record is always one to attach to.
LEMMA QuietResolve ==
    ASSUME IInv, IInv', QInv, Resolve
    PROVE  QInv'
  <1>0. /\ UNCHANGED <<reg, cloud, appOf, tree, owed, turn, active, runs, reap>>
        /\ start.pc = "resolve" /\ start \in StartRecs
    BY DEF Resolve, redisVars, cloudVars, IInv, TypeOK
  <1>1. ~Leaving
    BY <1>0 DEF Leaving
  <1>2. CASE Attachable
    <2>1. start' = [start EXCEPT !.pc = "settle", !.name = reg.name]
      BY <1>2 DEF Resolve
    <2>2. start'.pc = "settle" /\ start'.app = start.app /\ start'.name = reg.name
      BY <1>0, <2>1 DEF StartRecs
    <2>3. StartFindsItsWay'
      BY <1>0, <2>2 DEF StartFindsItsWay
    <2> QED  BY <1>0, <1>1, <2>2, <2>3, QuietStart DEF Leaving
  <1>3. CASE ~Attachable
    <2>1. start' = [start EXCEPT !.pc = "way"] /\ ~Recorded
      BY <1>1, <1>3 DEF Resolve, Attachable, QInv, RecordServes
    <2>2. start'.pc = "way" /\ start'.app = start.app
      BY <1>0, <2>1, StartMoves, StartWords
    <2>3. StartFindsItsWay'
      BY <1>0, <2>1, <2>2 DEF StartFindsItsWay, Recorded
    <2> QED  BY <1>0, <1>1, <2>2, <2>3, QuietStart DEF Leaving
  <1> QED  BY <1>2, <1>3

LEMMA QuietBirth ==
    ASSUME IInv, IInv', QInv, NEW n \in Names, Birth(n)
    PROVE  QInv'
  <1>0. /\ UNCHANGED <<owed, turn, active, runs, reap>>
        /\ start.pc = "birth" /\ ~Recorded /\ appOf[n] = NoApp
        /\ cloud' = cloud \union {n}
        /\ tree' = [tree EXCEPT ![n] = saved[start.app]]
        /\ reg' = [name |-> n, ready |-> TRUE, stay |-> FALSE]
        /\ start' = [start EXCEPT !.pc = "settle", !.name = n, !.fresh = TRUE]
    BY DEF Birth, Fresh
  <1>1. start'.pc = "settle" /\ start'.app = start.app /\ start'.name = n
    BY <1>0 DEF IInv, TypeOK, StartRecs
  <1>2. reg'.name = n /\ reg'.ready /\ ~Leaving /\ ~Leaving'
    BY <1>0, <1>1 DEF Leaving
  <1>3. \A r \in runs : r.name # n
    <2>1. \A r \in runs : r.name \in Names /\ Owed(r.name)
      BY DEF IInv, TypeOK, Runs, Routines, UnderAClaim, Owed
    <2>2. \A r \in runs : Born(r.name)
      BY <2>1 DEF IInv, Placed, AllBorn
    <2> QED  BY <1>0, <2>2, SlotAssumption DEF Born
  <1>4. RunsWriteBack' /\ RowsAreWorkedOn'
    BY <1>0, <1>1 DEF QInv, RunsWriteBack, RowsAreWorkedOn, Owed, Working
  <1>5. RecordServes' /\ StartFindsItsWay'
    BY <1>0, <1>1, <1>2, <1>3 DEF RecordServes, StartFindsItsWay, Working
  <1>6. TurnsAreSafe'
    <2>1. \A u \in Tokens : turn[u].pc = "working" => ~AtHome(u)
      <3>1. \A u \in Tokens : turn[u].pc = "working" => turn[u].name \in Names
        BY DEF IInv, OwnWork, TurnsKnow, Born
      <3> QED  BY <1>0, <3>1, RecordNames DEF AtHome, Recorded, IInv, TypeOK
    <2> QED  BY <1>0, <2>1 DEF QInv, TurnsAreSafe, ToBeStopped
  <1>7. WrittenBackFirst'
    <2>1. reap.pc = "idle"
      BY DEF QInv, NoReap
    <2>2. \A r \in runs : tree'[r.name] = tree[r.name] /\ (r.name \in cloud' => r.name \in cloud)
      BY <1>0, <1>3 DEF IInv, TypeOK, Runs
    <2> QED  BY <1>0, <2>1, <2>2 DEF QInv, WrittenBackFirst, Doomed
  <1> QED  BY <1>0, <1>4, <1>5, <1>6, <1>7 DEF QInv

LEMMA QuietSettle ==
    ASSUME IInv, IInv', QInv, Settle
    PROVE  QInv'
  <1>0. /\ UNCHANGED <<cloud, appOf, tree, owed, turn, active, runs, reap>>
        /\ start.pc = "settle" /\ start \in StartRecs /\ reg \in Records
        /\ start' = [start EXCEPT !.pc = "finish"]
        /\ reg' = reg \/ reg' = Stayed
    BY DEF Settle, To, cloudVars, IInv, TypeOK
  <1>1. start'.pc = "finish" /\ start'.app = start.app /\ start'.name = start.name
    BY <1>0, StartMoves, StartWords
  <1>2. reg'.name = reg.name /\ reg'.ready = reg.ready
    BY <1>0 DEF Stayed, Records, NoRecord
  <1>3. StartFindsItsWay'
    BY <1>0, <1>1, <1>2 DEF QInv, StartFindsItsWay
  <1> QED  BY <1>0, <1>1, <1>2, <1>3, QuietStart DEF Leaving

\* A turn begins in the container of the record, where no other works.
LEMMA QuietFinish ==
    ASSUME IInv, IInv', QInv, Finish
    PROVE  QInv'
  <1>0. /\ UNCHANGED <<reg, cloud, appOf, tree, owed, runs, reap>>
        /\ start.pc = "finish" /\ start'.pc = "idle"
    BY DEF Finish, cloudVars, NoStart
  <1>1. /\ start.app \in Apps /\ Born(start.name) /\ appOf[start.name] = start.app
        /\ reg.name = start.name
    BY <1>0 DEF IInv, Starting, StartKnows, Naming, Admitted, QInv, StartFindsItsWay
  <1>2. ~Leaving /\ ~Leaving' /\ Recorded /\ ~Working(reg.name)
    <2>1. ~Leaving /\ ~Leaving' /\ Recorded
      BY <1>0, <1>1, RecordNames DEF Leaving, Recorded, IInv, TypeOK, Born
    <2> QED  BY <2>1 DEF QInv, RecordServes
  <1>3. RunsWriteBack' /\ RowsAreWorkedOn' /\ WrittenBackFirst'
    BY <1>0 DEF QInv, RunsWriteBack, RowsAreWorkedOn, Owed, Working,
                WrittenBackFirst, Doomed
  <1>4. RecordServes' /\ StartFindsItsWay'
    BY <1>0, <1>2 DEF QInv, RecordServes, StartFindsItsWay, Recorded, Working
  <1>5. TurnsAreSafe'
    <2>1. \A u \in Tokens : turn[u].pc = "working" => ToBeStopped(u)
      <3> SUFFICES ASSUME NEW u \in Tokens, turn[u].pc = "working", AtHome(u)
                   PROVE  FALSE
        BY DEF QInv, TurnsAreSafe
      <3>1. turn[u].app = appOf[turn[u].name]
        BY DEF IInv, OwnWork, EachProjectItsOwn, WorksInItsOwn
      <3> QED  BY <1>0, <1>1, <3>1 DEF AtHome
    <2>2. CASE start.kind = "turn"
      <3>1. PICK x : x = [pc |-> "working", name |-> start.name, app |-> start.app]
        OBVIOUS
      <3>2. turn' = [turn EXCEPT ![starts] = x] /\ active' = starts
        BY <2>2, <3>1 DEF Finish
      <3>3. x.name = reg.name
        BY <1>1, <3>1
      <3>4. \A u \in Tokens : turn'[u] = IF u = starts THEN x ELSE turn[u]
        BY <3>2 DEF IInv, TypeOK
      <3> SUFFICES ASSUME NEW u \in Tokens, turn'[u].pc = "working"
                   PROVE  AtHome(u)' \/ ToBeStopped(u)'
        BY DEF TurnsAreSafe
      <3>5. CASE u = starts
        BY <1>0, <1>2, <3>2, <3>3, <3>4, <3>5 DEF AtHome, Working
      <3>6. CASE u # starts
        BY <1>0, <2>1, <3>4, <3>6 DEF ToBeStopped
      <3> QED  BY <3>5, <3>6
    <2>3. CASE start.kind # "turn"
      <3>1. turn' = turn
        BY <2>3 DEF Finish
      <3> QED  BY <1>0, <2>1, <3>1 DEF TurnsAreSafe, ToBeStopped
    <2> QED  BY <2>2, <2>3
  <1> QED  BY <1>0, <1>3, <1>4, <1>5 DEF QInv

\* A start fails only for want of a copy or of a name, and has made nothing.
LEMMA QuietFail ==
    ASSUME Answers, IInv, IInv', QInv, Fail
    PROVE  QInv'
  <1>0. /\ UNCHANGED <<reg, cloud, appOf, tree, owed, turn, active, runs, reap>>
        /\ start.pc \in {"resolve", "birth"} /\ start \in StartRecs
    BY DEF Answers, Fail, cloudVars, IInv, TypeOK
  <1>1. start' = [start EXCEPT !.pc = "unlock"]
    BY <1>0 DEF Fail, To
  <1>2. start'.pc = "unlock" /\ start'.app = start.app
    BY <1>0, <1>1, StartMoves, StartWords
  <1>3. StartFindsItsWay'
    BY <1>2 DEF StartFindsItsWay
  <1> QED  BY <1>0, <1>2, <1>3, QuietStart DEF Leaving

LEMMA QuietUnlock ==
    ASSUME IInv, IInv', QInv, Unlock
    PROVE  QInv'
  <1>0. /\ UNCHANGED <<reg, cloud, appOf, tree, owed, turn, active, runs, reap>>
        /\ start.pc = "unlock" /\ start'.pc = "idle"
    BY DEF Unlock, cloudVars, NoStart
  <1>1. StartFindsItsWay'
    BY <1>0 DEF StartFindsItsWay
  <1> QED  BY <1>0, <1>1, QuietStart DEF Leaving

LEMMA QuietStartStep ==
    ASSUME Answers, IInv, IInv', QInv, StartStep
    PROVE  QInv'
  <1>1. ~ReclaimClear /\ ~WayClear /\ ~Undo /\ ~Cancel
    BY DEF ReclaimClear, WayClear, ClearHolder, Undo, Cancel, Answers, QInv,
           StartFindsItsWay
  <1>2. ASSUME ReclaimHolder \/ WayHolder  PROVE QInv'
    BY <1>2, QuietOweHolder DEF ReclaimHolder, WayHolder
  <1> QED
    BY <1>1, <1>2, QuietAdmit, QuietDoor, QuietOweOutgoing, QuietHandOver,
       QuietTakeLock, QuietReclaim, QuietMark, QuietResolve, QuietBirth, QuietSettle,
       QuietFinish, QuietFail, QuietUnlock
       DEF StartStep

\* A turn that ends, or a clock: the start, the routines and the containers stand.
LEMMA QuietTurn ==
    ASSUME IInv, IInv', QInv,
           UNCHANGED <<cloud, appOf, tree, owed, starts, start, runs, reap>>,
           reg'.name = reg.name, reg'.ready = reg.ready,
           \A u \in Tokens : turn'[u].pc = "working" =>
               turn'[u] = turn[u] /\ (active = u => active' = u)
    PROVE  QInv'
  <1>0. /\ Recorded <=> reg.name \in Names
        /\ Recorded' <=> reg'.name \in Names
    BY RecordNames DEF IInv, TypeOK, Recorded
  <1>1. RunsWriteBack' /\ RowsAreWorkedOn'
    BY DEF QInv, RunsWriteBack, RowsAreWorkedOn, Owed, Working
  <1>2. RecordServes' /\ StartFindsItsWay'
    BY <1>0 DEF QInv, RecordServes, StartFindsItsWay, Leaving, Working, Serves
  <1>3. TurnsAreSafe'
    BY DEF QInv, TurnsAreSafe, AtHome, ToBeStopped, Working
  <1>4. WrittenBackFirst'
    BY DEF QInv, WrittenBackFirst, Doomed
  <1> QED  BY <1>1, <1>2, <1>3, <1>4 DEF QInv

\* No turn works in a container whose copy has been read.
LEMMA QuietEdit ==
    ASSUME IInv, IInv', QInv, NEW t \in Tokens, NEW e \in Edits, Edit(t, e)
    PROVE  QInv'
  <1>0. /\ UNCHANGED <<reg, cloud, appOf, owed, starts, start, turn, active, runs,
                       reap>>
        /\ turn[t].pc = "working"
    BY DEF Edit, redisVars, startVars
  <1>1. PICK n \in Names : n = turn[t].name
    BY <1>0 DEF IInv, OwnWork, TurnsKnow, Born
  <1>2. tree' = [tree EXCEPT ![n] = @ \union {e}]
    BY <1>1 DEF Edit
  <1>3. \A r \in runs : r.name = n => r.pc \in {"attach", "stop"}
    BY <1>0, <1>1
       DEF QInv, TurnsAreSafe, AtHome, ToBeStopped, Working, IInv, Routines, OneRun
  <1>4. WrittenBackFirst'
    <2>1. reap.pc = "idle"
      BY DEF QInv, NoReap
    <2>2. \A r \in runs : r.name # n => tree'[r.name] = tree[r.name]
      BY <1>2 DEF IInv, TypeOK, Runs
    <2> QED
      BY <1>0, <1>3, <2>1, <2>2 DEF QInv, WrittenBackFirst, Doomed
  <1>5. RunsWriteBack' /\ RowsAreWorkedOn'
    BY <1>0 DEF QInv, RunsWriteBack, RowsAreWorkedOn, Owed, Working
  <1>6. RecordServes' /\ StartFindsItsWay'
    BY <1>0 DEF QInv, RecordServes, StartFindsItsWay, Leaving, Working, Serves,
                Recorded
  <1>7. TurnsAreSafe'
    BY <1>0 DEF QInv, TurnsAreSafe, AtHome, ToBeStopped, Working
  <1> QED  BY <1>0, <1>4, <1>5, <1>6, <1>7 DEF QInv

LEMMA QuietTurnStep ==
    ASSUME Answers, IInv, IInv', QInv, TurnStep
    PROVE  QInv'
  <1>1. ASSUME NEW t \in Tokens, Renew(t)  PROVE QInv'
    BY <1>1, QuietTurn DEF Renew, cloudVars, startVars
  <1>2. ASSUME NEW t \in Tokens, TurnEnds(t)  PROVE QInv'
    <2>1. /\ UNCHANGED <<reg, cloud, appOf, tree, owed, starts, start, active, runs,
                         reap>>
          /\ TurnTo(t, "ending")
      BY <1>2 DEF TurnEnds, redisVars, cloudVars
    <2>2. \A u \in Tokens : turn'[u].pc = "working" => turn'[u] = turn[u]
      BY <2>1, TurnMoves DEF IInv, TurnPCs
    <2> QED  BY <2>1, <2>2, QuietTurn
  <1>3. ASSUME NEW t \in Tokens, Pardon(t)  PROVE QInv'
    <2>1. /\ UNCHANGED <<cloud, appOf, tree, owed, starts, start, active, runs, reap>>
          /\ TurnTo(t, "pardoned") /\ reg' = Stayed
      BY <1>3 DEF Pardon, cloudVars
    <2>2. \A u \in Tokens : turn'[u].pc = "working" => turn'[u] = turn[u]
      BY <2>1, TurnMoves DEF IInv, TurnPCs
    <2>3. reg'.name = reg.name /\ reg'.ready = reg.ready
      BY <2>1 DEF Stayed, IInv, TypeOK, Records, NoRecord
    <2> QED  BY <2>1, <2>2, <2>3, QuietTurn
  <1>4. ASSUME NEW t \in Tokens, FreeSlot(t)  PROVE QInv'
    <2>1. /\ UNCHANGED <<reg, cloud, appOf, tree, owed, starts, start, runs, reap>>
          /\ turn[t].pc = "pardoned" /\ TurnTo(t, "freed")
          /\ active' = IF active = t THEN 0 ELSE active
      BY <1>4 DEF FreeSlot, cloudVars
    <2>2. \A u \in Tokens : turn'[u].pc = "working" => turn'[u] = turn[u]
      BY <2>1, TurnMoves DEF IInv, TurnPCs
    <2>3. \A u \in Tokens : turn[u].pc = "working" => u # t
      BY <2>1
    <2> QED  BY <2>1, <2>2, <2>3, QuietTurn
  <1>5. ASSUME NEW t \in Tokens, DropLease(t)  PROVE QInv'
    <2>1. /\ UNCHANGED <<reg, cloud, appOf, tree, owed, starts, start, active, runs,
                         reap>>
          /\ turn' = [turn EXCEPT ![t] = NoTurn]
      BY <1>5 DEF DropLease, cloudVars
    <2>2. \A u \in Tokens : turn'[u].pc = "working" => turn'[u] = turn[u]
      BY <2>1 DEF NoTurn, IInv, TypeOK
    <2> QED  BY <2>1, <2>2, QuietTurn
  <1>6. ASSUME Lapse  PROVE QInv'
    <2>1. /\ UNCHANGED <<cloud, appOf, tree, owed, starts, start, turn, active, runs,
                         reap>>
          /\ \/ reg' = reg
             \/ reg.stay /\ reg' = [reg EXCEPT !.stay = FALSE]
      BY <1>6 DEF Lapse, cloudVars, startVars
    <2>2. reg'.name = reg.name /\ reg'.ready = reg.ready
      BY <2>1 DEF IInv, TypeOK, Records, NoRecord
    <2> QED  BY <2>1, <2>2, QuietTurn
  <1>7. ~ApiDies
    BY DEF ApiDies, Answers
  <1> QED
    BY <1>1, <1>2, <1>3, <1>4, <1>5, <1>6, <1>7, QuietEdit DEF TurnStep

\* The record a routine's container still has is between the hand-over and the
\* lock.
LEMMA OwnRecord ==
    ASSUME IInv, QInv, NEW r \in runs, reg.name = r.name
    PROVE  Leaving /\ r.pc \in Reached \union {"letgo"}
  <1>1. Recorded
    BY RecordNames DEF IInv, TypeOK, Runs, Recorded
  <1>2. Leaving
    BY <1>1 DEF QInv, RecordServes, Working
  <1> QED  BY <1>1, <1>2 DEF QInv, RecordServes, IInv, Routines, OneRun

\* What a routine's steps keep: it answers for its own container only.
LEMMA QuietRun ==
    ASSUME IInv, IInv', QInv, NEW r \in runs, NEW s \in Runs, Becomes(r, s),
           s.name = r.name, s.by = r.by, ~s.keep, s.turn = r.turn, s.pc # "attach",
           s.pc \in Reached => r.name \in cloud',
           UNCHANGED <<appOf, owed, starts, start, active, reap>>,
           reg' = reg \/ (reg.name = r.name /\ reg'.name \in {r.name, NoName}),
           reg'.name = r.name => s.pc \in Reached \union {"letgo"},
           cloud' \subseteq cloud, cloud \ {r.name} \subseteq cloud',
           \A n \in Names : tree'[n] \subseteq tree[n],
           \A u \in Tokens : turn'[u].pc = "working" => turn'[u] = turn[u],
           r.pc \in {"attach", "stop"} /\ s.pc # "stop" =>
               \A u \in Tokens : turn'[u].pc = "working" => u # r.turn,
           s.pc \in {"mark", "teardown"} /\ s.read /\ s.name \in cloud' =>
               tree[s.name] \subseteq s.kept
    PROVE  QInv'
  <1>1. PICK x \in Runs : /\ x = Needed(s) /\ x.name = r.name /\ x.pc = s.pc
                          /\ x.keep = s.keep /\ x.by = r.by
                          /\ x.pc = "stop" => x.turn = r.turn
                          /\ x.pc \in {"mark", "teardown"} =>
                                x.read = s.read /\ x.kept = s.kept
    BY Forgetting
  <1>2. runs' = (runs \ {r}) \union {x}
    BY <1>1 DEF Becomes
  <1>3. \A y \in runs : y # r => y.name # r.name
    BY DEF IInv, Routines, OneRun
  <1>4. \A n : Working(n)' <=> Working(n)
    BY <1>1, <1>2 DEF Working
  <1>5. r.name \in Names /\ r.name # NoName /\ \A y \in runs : y.name \in Names
    BY SlotAssumption DEF IInv, TypeOK, Runs
  <1>6. reg.name = r.name => Leaving
    BY OwnRecord
  <1>7. /\ Recorded <=> reg.name \in Names
        /\ Recorded' <=> reg'.name \in Names
    BY RecordNames DEF IInv, TypeOK, Recorded
  <1>8. RunsWriteBack'
    <2>1. \A y \in runs : y # r /\ y.name \in cloud => y.name \in cloud'
      BY <1>3
    <2> QED  BY <1>1, <1>2, <2>1 DEF QInv, RunsWriteBack
  <1>9. RowsAreWorkedOn'
    BY <1>4 DEF QInv, RowsAreWorkedOn, Owed
  <1>10. RecordServes'
    <2>1. CASE reg.name # r.name
      <3>1. reg' = reg
        BY <2>1
      <3>2. CASE Leaving
        BY <1>2, <2>1, <3>1, <3>2, <1>3
           DEF QInv, RecordServes, Leaving, Recorded
      <3>3. CASE ~Leaving
        <4>1. Recorded => reg.name \in cloud' /\ ~Working(reg.name)
          BY <2>1, <3>3 DEF QInv, RecordServes
        <4> QED
          BY <1>4, <3>1, <3>3, <4>1
             DEF QInv, RecordServes, Leaving, Recorded
      <3> QED  BY <3>2, <3>3
    <2>2. CASE reg.name = r.name
      <3>1. Leaving'
        BY <1>6, <2>2 DEF Leaving
      <3>2. Recorded' => reg'.name = r.name /\ x.pc \in Reached \union {"letgo"}
        BY <1>1, <1>7, <2>2, SlotAssumption
      <3> QED  BY <1>1, <1>2, <3>1, <3>2 DEF RecordServes
    <2> QED  BY <2>1, <2>2
  <1>11. StartFindsItsWay'
    <2>1. CASE reg.name # r.name
      BY <2>1 DEF QInv, StartFindsItsWay, Recorded, Serves
    <2>2. CASE reg.name = r.name
      BY <1>6, <2>2 DEF Leaving, StartFindsItsWay
    <2> QED  BY <2>1, <2>2
  <1>12. TurnsAreSafe'
    <2> SUFFICES ASSUME NEW u \in Tokens, turn'[u].pc = "working"
                 PROVE  AtHome(u)' \/ ToBeStopped(u)'
      BY DEF TurnsAreSafe
    <2>1. turn'[u] = turn[u] /\ (AtHome(u) \/ ToBeStopped(u))
      BY DEF QInv, TurnsAreSafe
    <2>2. CASE AtHome(u)
      <3>1. reg' = reg
        BY <2>2 DEF AtHome, Working
      <3> QED  BY <1>4, <2>1, <2>2, <3>1 DEF AtHome
    <2>3. CASE ToBeStopped(u)
      <3>1. PICK y \in runs : /\ y.name = turn[u].name /\ y.turn = u
                              /\ y.pc \in {"attach", "stop"}
        BY <2>3 DEF ToBeStopped
      <3>2. CASE y # r
        BY <1>2, <2>1, <3>1, <3>2 DEF ToBeStopped
      <3>3. CASE y = r
        <4>1. x.pc = "stop" /\ x.turn = u
          BY <1>1, <3>1, <3>3
        <4> QED  BY <1>1, <1>2, <2>1, <3>1, <3>3, <4>1 DEF ToBeStopped
      <3> QED  BY <3>2, <3>3
    <2> QED  BY <2>1, <2>2, <2>3
  <1>13. WrittenBackFirst'
    <2>1. reap.pc = "idle"
      BY DEF QInv, NoReap
    <2>2. \A y \in runs : Doomed(y)' /\ y # r => tree'[y.name] \subseteq y.kept
      BY <1>5 DEF QInv, WrittenBackFirst, Doomed
    <2>3. Doomed(x)' => tree'[x.name] \subseteq x.kept
      BY <1>1, <1>5 DEF Doomed
    <2> QED
      BY <1>2, <2>1, <2>2, <2>3 DEF WrittenBackFirst, Doomed
  <1> QED  BY <1>8, <1>9, <1>10, <1>11, <1>12, <1>13 DEF QInv

LEMMA QuietRunStep ==
    ASSUME Answers, IInv, IInv', QInv, NEW r \in runs, RunStep(r)
    PROVE  QInv'
  <1> USE DEF redisVars, cloudVars, startVars
  <1>0. /\ r \in Runs /\ ~r.keep /\ r.by = "api"
        /\ (r.pc = "attach" => r.back) /\ (r.pc \in Reached => r.name \in cloud)
        /\ r.name # NoName /\ (r.pc = "stop" => r.turn \in Tokens)
    BY SlotAssumption
       DEF IInv, TypeOK, Routines, RunsKnow, Runs, QInv, RunsWriteBack, Tokens
  <1>1. ASSUME RunAttach(r)  PROVE QInv'
    <2>1. PICK pc \in {"stop", "copy"} :
              RunTo(r, pc) /\ (pc = "copy" => r.turn = 0) /\ r.pc = "attach"
      BY <1>0, <1>1 DEF RunAttach, Answers, Reached
    <2>2. PICK s \in Runs : /\ s = [r EXCEPT !.pc = pc] /\ s.name = r.name
                            /\ s.pc = pc /\ s.keep = r.keep /\ s.turn = r.turn
                            /\ s.by = r.by
      BY RunNext, RunWords
    <2>3. Becomes(r, s)
      BY <2>1, <2>2 DEF RunTo
    <2>4. \A u \in Tokens : u # 0
      BY SlotAssumption DEF Tokens
    <2>5. UNCHANGED <<reg, cloud, appOf, tree, owed, starts, start, turn, active, reap>>
      BY <1>1 DEF RunAttach
    <2> QED  BY <1>0, <2>1, <2>2, <2>3, <2>4, <2>5, QuietRun DEF Reached
  <1>2. ASSUME RunStop(r)  PROVE QInv'
    <2>1. PICK s \in Runs : /\ s = [r EXCEPT !.pc = "copy"] /\ s.name = r.name
                            /\ s.pc = "copy" /\ s.keep = r.keep /\ s.turn = r.turn
                            /\ s.by = r.by
      BY RunNext, RunWords
    <2>2. /\ Becomes(r, s) /\ r.pc = "stop"
          /\ UNCHANGED <<reg, cloud, appOf, tree, owed, starts, start, active, reap>>
      BY <1>2, <2>1 DEF RunStop, RunTo
    <2>3. /\ \A u \in Tokens : turn'[u].pc = "working" => turn'[u] = turn[u]
          /\ turn'[r.turn].pc # "working"
      <3>1. CASE turn[r.turn].pc # "working" /\ turn' = turn
        BY <3>1
      <3>2. CASE TurnTo(r.turn, "ending")
        <4>1. \A u \in Tokens : turn'[u].pc = "working" => turn'[u] = turn[u]
          BY <1>0, <2>2, <3>2, TurnMoves DEF IInv, TurnPCs
        <4>2. turn'[r.turn].pc = "ending"
          BY <1>0, <2>2, <3>2 DEF TurnTo, IInv, TypeOK, TurnRecs
        <4> QED  BY <4>1, <4>2
      <3> QED  BY <1>0, <1>2, <3>1, <3>2 DEF RunStop
    <2> QED  BY <1>0, <2>1, <2>2, <2>3, QuietRun DEF Reached
  <1>3. ASSUME RunCopy(r)  PROVE QInv'
    <2>1. /\ r.pc = "copy"
          /\ Becomes(r, [r EXCEPT !.pc = "mark", !.read = TRUE, !.kept = tree[r.name]])
          /\ UNCHANGED <<reg, cloud, appOf, tree, owed, starts, start, turn, active,
                         reap>>
      BY <1>0, <1>3 DEF RunCopy, Answers, Reached
    <2>2. PICK s : s = [r EXCEPT !.pc = "mark", !.read = TRUE, !.kept = tree[r.name]]
      OBVIOUS
    <2>3. tree[r.name] \in SUBSET Edits /\ "mark" \in RunPCs
      BY <1>0, RunWords DEF IInv, TypeOK, Runs
    <2>4. /\ s \in Runs /\ s.name = r.name /\ s.pc = "mark" /\ s.keep = r.keep
          /\ s.turn = r.turn /\ s.by = r.by /\ s.kept = tree[s.name]
      BY <1>0, <2>2, <2>3 DEF Runs
    <2>5. Becomes(r, s)
      BY <2>1, <2>2
    <2> QED  BY <1>0, <2>1, <2>4, <2>5, QuietRun DEF Reached
  <1>4. ASSUME RunMark(r)  PROVE QInv'
    <2>1. PICK s \in Runs : /\ s = [r EXCEPT !.pc = "teardown"] /\ s.name = r.name
                            /\ s.pc = "teardown" /\ s.keep = r.keep
                            /\ s.turn = r.turn /\ s.by = r.by
                            /\ s.read = r.read /\ s.kept = r.kept
      BY RunNext, RunWords
    <2>2. /\ Becomes(r, s) /\ r.pc = "mark" /\ reg' = Ending(r.name)
          /\ UNCHANGED <<cloud, appOf, tree, owed, starts, start, turn, active, reap>>
      BY <1>4, <2>1 DEF RunMark, RunTo
    <2>3. \/ reg' = reg
          \/ reg.name = r.name /\ reg'.name \in {r.name, NoName}
      BY <2>2 DEF Ending, IInv, TypeOK, Records, NoRecord
    <2>4. r.read /\ r.name \in cloud => tree[r.name] \subseteq r.kept
      BY <2>2 DEF QInv, WrittenBackFirst, Doomed
    <2> QED  BY <1>0, <2>1, <2>2, <2>3, <2>4, QuietRun DEF Reached
  <1>5. ASSUME RunTeardown(r)  PROVE QInv'
    <2>1. PICK s \in Runs : /\ s = [r EXCEPT !.pc = "letgo"] /\ s.name = r.name
                            /\ s.pc = "letgo" /\ s.keep = r.keep
                            /\ s.turn = r.turn /\ s.by = r.by
      BY RunNext, RunWords
    <2>2. /\ Becomes(r, s) /\ r.pc = "teardown" /\ Delete(r.name)
          /\ reg' = reg \/ reg' = Cleared(r.name)
          /\ UNCHANGED <<appOf, owed, starts, start, turn, active, reap>>
      BY <1>5, <2>1 DEF RunTeardown, RunTo, Answers
    <2>3. \/ reg' = reg
          \/ reg.name = r.name /\ reg'.name \in {r.name, NoName}
      BY <2>2 DEF Cleared, NoRecord
    <2>4. /\ cloud' \subseteq cloud /\ cloud \ {r.name} \subseteq cloud'
          /\ \A n \in Names : tree'[n] \subseteq tree[n]
      BY <2>2 DEF Delete, IInv, TypeOK
    <2> QED  BY <1>0, <2>1, <2>2, <2>3, <2>4, QuietRun DEF Reached
  <1>6. ASSUME RunLetGo(r)  PROVE QInv'
    <2>1. PICK pc \in {"look", "close"} : RunTo(r, pc)
      BY <1>6 DEF RunLetGo
    <2>2. PICK s \in Runs : /\ s = [r EXCEPT !.pc = pc] /\ s.name = r.name
                            /\ s.pc = pc /\ s.keep = r.keep
                            /\ s.turn = r.turn /\ s.by = r.by
      BY RunNext, RunWords
    <2>3. /\ Becomes(r, s) /\ r.pc = "letgo" /\ reg' = Cleared(r.name)
          /\ UNCHANGED <<cloud, appOf, tree, owed, starts, start, turn, active, reap>>
      BY <1>6, <2>1, <2>2 DEF RunLetGo, RunTo
    <2>4. /\ reg'.name # r.name
          /\ \/ reg' = reg
             \/ reg.name = r.name /\ reg'.name \in {r.name, NoName}
      BY <1>0, <2>3 DEF Cleared, NoRecord
    <2> QED  BY <1>0, <2>2, <2>3, <2>4, QuietRun DEF Reached
  <1>7. ASSUME RunLook(r) \/ RunFree(r)  PROVE QInv'
    <2>1. PICK pc \in {"close", "free"} : RunTo(r, pc)
      BY <1>7 DEF RunLook, RunFree
    <2>2. PICK s \in Runs : /\ s = [r EXCEPT !.pc = pc] /\ s.name = r.name
                            /\ s.pc = pc /\ s.keep = r.keep
                            /\ s.turn = r.turn /\ s.by = r.by
      BY RunNext, RunWords
    <2>3. /\ Becomes(r, s) /\ r.pc \in {"look", "free"}
          /\ UNCHANGED <<reg, cloud, appOf, tree, owed, starts, start, turn, active,
                         reap>>
      BY <1>7, <2>1, <2>2 DEF RunLook, RunFree, RunTo
    <2>4. reg.name # r.name
      BY <2>3, OwnRecord DEF Reached
    <2> QED  BY <1>0, <2>2, <2>3, <2>4, QuietRun DEF Reached
  <1>8. ASSUME RunClose(r)  PROVE QInv'
    <2>1. /\ UNCHANGED <<reg, cloud, appOf, tree, starts, start, turn, active, reap>>
          /\ r.pc = "close" /\ runs' = runs \ {r}
          /\ owed' = [owed EXCEPT ![r.name] = NoRow]
      BY <1>0, <1>8 DEF RunClose, Answers
    <2>2. PICK n \in Names : n = r.name
      BY DEF IInv, TypeOK, Runs
    <2>3. \A m \in Names : owed'[m] = IF m = n THEN NoRow ELSE owed[m]
      BY <2>1, <2>2 DEF IInv, TypeOK
    <2>4. \A y \in runs : y # r => y.name # n
      BY <2>2 DEF IInv, Routines, OneRun
    <2>5. \A m : m # n => (Working(m)' <=> Working(m))
      BY <2>1, <2>2 DEF Working
    <2>6. reg.name # n
      BY <2>1, <2>2, OwnRecord DEF Reached
    <2>7. start.pc = "handover" => start.name # n /\ start.name \in Names
      BY <2>2 DEF IInv, Starting, StartHasTheRow, HandsOver, Unclaimed, StartKnows,
                  Naming, Born
    <2>8. RunsWriteBack' /\ WrittenBackFirst'
      BY <2>1 DEF QInv, RunsWriteBack, WrittenBackFirst, Doomed
    <2>9. RowsAreWorkedOn'
      <3>1. \A m \in Names : Owed(m)' => m # n /\ Owed(m)
        BY <2>3 DEF Owed, NoRow
      <3>2. \A m \in Names : owed'[m].st # "lapsed"
        BY <2>3 DEF NoRow, QInv, RowsAreWorkedOn
      <3> QED
        BY <2>1, <2>3, <2>5, <2>7, <3>1, <3>2 DEF QInv, RowsAreWorkedOn
    <2>10. RecordServes'
      <3>1. CASE Leaving
        BY <2>1, <2>2, <2>6, <3>1 DEF QInv, RecordServes, Leaving, Recorded
      <3>2. CASE ~Leaving
        <4>1. Recorded => reg.ready /\ reg.name \in cloud /\ ~Working(reg.name)
          BY <3>2 DEF QInv, RecordServes
        <4> QED
          BY <2>1, <2>5, <2>6, <3>2, <4>1 DEF RecordServes, Leaving, Recorded
      <3> QED  BY <3>1, <3>2
    <2>11. StartFindsItsWay'
      BY <2>1 DEF QInv, StartFindsItsWay, Recorded, Serves
    <2>12. TurnsAreSafe'
      <3> SUFFICES ASSUME NEW u \in Tokens, turn[u].pc = "working"
                   PROVE  AtHome(u)' \/ ToBeStopped(u)'
        BY <2>1 DEF TurnsAreSafe
      <3>1. CASE AtHome(u)
        BY <2>1, <2>3, <2>5, <2>6, <2>7, <3>1 DEF AtHome
      <3>2. CASE ToBeStopped(u)
        BY <2>1, <3>2 DEF ToBeStopped
      <3> QED  BY <3>1, <3>2 DEF QInv, TurnsAreSafe
    <2> QED  BY <2>1, <2>8, <2>9, <2>10, <2>11, <2>12 DEF QInv
  <1> QED
    BY <1>1, <1>2, <1>3, <1>4, <1>5, <1>6, <1>7, <1>8 DEF RunStep

\* No claim lapses, because none is without its routine or its start.
LEMMA QuietOwedStep ==
    ASSUME Answers, IInv, IInv', QInv, OwedStep
    PROVE  QInv'
  <1>1. ASSUME NEW n \in Names  PROVE ~ClaimLapses(n) /\ ~SweepClaims(n)
    BY DEF ClaimLapses, SweepClaims, QInv, RowsAreWorkedOn, Owed, Working
  <1> QED  BY <1>1, QuietRunStep DEF OwedStep

LEMMA QuietReapStep ==
    ASSUME Answers, QInv
    PROVE  ~ReapStep
  BY DEF Answers, QInv, NoReap, ReapStep, ReapScan, ReapJudge, ReapCopy, ReapMark,
         ReapTeardown, ReapLetGo, ReapFree

LEMMA QuietStuttering ==
    ASSUME IInv, IInv', QInv, UNCHANGED vars
    PROVE  QInv'
  BY QuietTurn DEF vars, redisVars, cloudVars, startVars

\* The quiet invariant holds in every state where every call answers.
LEMMA Quiet ==
    ASSUME Answers
    PROVE  Spec => [](IInv /\ QInv)
  <1>1. Init => QInv
    BY QuietInitially
  <1>2. IInv /\ IInv' /\ QInv /\ [Next]_vars => QInv'
    BY QuietStartStep, QuietTurnStep, QuietOwedStep, QuietReapStep, QuietStuttering
       DEF Next
  <1> QED  BY <1>1, <1>2, Invariance, PTL DEF Spec

\* Where every call answers and no process dies, the container a turn works in
\* stands while it works, whatever is switched to behind its back: the routine
\* that ends it stops the turn first (_stop_the_outgoing_turn).
THEOREM WorkingIsUndisturbed ==
    ASSUME Answers
    PROVE  Spec => []WorkingContainerStands
  <1>1. IInv /\ QInv => WorkingContainerStands
    BY SafeTurnsStand
  <1> QED  BY <1>1, Quiet, PTL

\* Where every call answers and no process dies, what a write-back read is all
\* the container holds when it is deleted: nobody works in it once it was read
\* (write_the_tree_back, finish_turn_sandbox).
THEOREM NothingIsLost ==
    ASSUME Answers
    PROVE  Spec => []WrittenBackFirst
  <1>1. QInv => WrittenBackFirst
    BY DEF QInv
  <1> QED  BY <1>1, Quiet, PTL

============================================================================
