------------------------ MODULE SandboxPoolProofs ------------------------
(***************************************************************************)
(* Theorems about SandboxPool, for any number of names, people, starts,    *)
(* fills and images, whether or not the ledger answers and whether or not  *)
(* fills are cut short.                                                    *)
(*                                                                         *)
(* A name's token is what entitles one actor to it: a start that claimed   *)
(* or made the container, or the detached task that will put it back.      *)
(* NoTwoHolders is not inductive alone: it needs that a row that can still *)
(* be claimed, now or once its fill is done, has no token and no record,   *)
(* and that a container with a token that may yet be recorded or put back  *)
(* has no record.                                                          *)
(*                                                                         *)
(* What may be deleted is decided long before it is: a pass and a detached *)
(* task work from a reading of the ledger that may be any number of steps  *)
(* old. So the invariant for NamedContainersStand is about names that are  *)
(* past being taken. A name is closed when it was given out, its row is    *)
(* neither filling nor ready and nobody has yet to record or put back its  *)
(* container; it is spent when besides nobody has it and no debt names it. *)
(* Both are so for ever, and every name a fill, a task or the pass may     *)
(* delete is spent. NoOrphan needs besides where a container under way     *)
(* can be, and that a row is forgotten only once its container is gone.    *)
(***************************************************************************)
EXTENDS SandboxPool, TLAPS

\* An actor past the step that gives it a container has one.
Named ==
    /\ \A s \in Starts : start[s].name = NoName <=> start[s].pc \in {"idle", "claiming", "create"}
    /\ \A f \in Fills : fill[f].name = NoName <=> fill[f].pc = "idle"

PutBackPending(n) == [do |-> "putback", name |-> n] \in tasks

\* The pcs at which a start's container has no record yet.
Unrecorded == {"checking", "recording", "creating", "recordingown"}

\* A name nothing was made under, and a row a claim may take, are nobody's.
FreeIsFree ==
    \A n \in Names : n \notin minted \/ row[n].st \in {"filling", "ready"} =>
        /\ ~Registered(n) /\ ~PutBackPending(n)
        /\ \A s \in Starts : n # start[s].name /\ n \notin start[s].kept

\* A row a container can still be claimed from, or is claimed on, is a name's
\* that was given out.
LiveIsMinted ==
    \A n \in Names : row[n].st \in {"filling", "ready", "claimed"} => n \in minted

HeldOnce == \A s \in Starts : start[s].name \notin start[s].kept

OneHolder ==
    \A s, t \in Starts : s # t =>
        /\ start[s].name = start[t].name => start[s].name = NoName
        /\ start[s].name \notin start[t].kept
        /\ start[s].kept \intersect start[t].kept = {}

PutBackIsFree ==
    \A n \in Names : PutBackPending(n) =>
        /\ ~Registered(n)
        /\ \A s \in Starts : n # start[s].name /\ n \notin start[s].kept

UnrecordedHasNoRecord ==
    \A s \in Starts :
        /\ \A n \in start[s].kept : ~Registered(n)
        /\ start[s].pc \in Unrecorded => ~Registered(start[s].name)

OneRecord == \A u, v \in Users : u # v => registry[u] = NoName \/ registry[u] # registry[v]

Tokens == /\ FreeIsFree /\ LiveIsMinted /\ HeldOnce /\ OneHolder /\ PutBackIsFree
          /\ UnrecordedHasNoRecord /\ OneRecord
----------------------------------------------------------------------------
\* Type correctness, one lemma for each actor.

\* The statements of the ledger yield a ledger.
LedgerStatements ==
    /\ row \in Ledger
    /\ \A n \in Names :
          /\ \A to \in RowStates : Moved(n, to) \in Ledger
          /\ \A g \in {1, 2} : Forgotten(n, g) \in Ledger
          /\ \A st \in RowStates : Inserted(n, 1, st) \in Ledger
          /\ HeldForDeletion(n) \in Ledger
          /\ [row EXCEPT ![n].old = TRUE] \in Ledger

LEMMA LedgerTypes ==
    ASSUME TypeOK
    PROVE  LedgerStatements
  <1>1. row \in Ledger /\ image \in Images
    BY DEF TypeOK
  <1>2. ASSUME NEW n \in Names, NEW g \in {1, 2}, NEW to \in RowStates
        PROVE  /\ [row[n] EXCEPT !.st = to, !.old = FALSE] \in Rows
               /\ [row[n] EXCEPT !.st = "none", !.old = FALSE] \in Rows
               /\ [row[n] EXCEPT !.old = TRUE] \in Rows
               /\ [st |-> to, gen |-> 1, img |-> image, old |-> FALSE] \in Rows
               /\ [st |-> "retiring", gen |-> 2, img |-> image, old |-> FALSE] \in Rows
    BY <1>1, <1>2 DEF Rows, RowStates, Ledger
  <1>3. ASSUME NEW n \in Names, NEW to \in RowStates PROVE Moved(n, to) \in Ledger
    BY <1>1, <1>2, <1>3 DEF Moved, Rows, Ledger
  <1>4. ASSUME NEW n \in Names, NEW g \in {1, 2} PROVE Forgotten(n, g) \in Ledger
    BY <1>1, <1>2, <1>4 DEF Forgotten, Rows, Ledger
  <1>5. ASSUME NEW n \in Names, NEW st \in RowStates PROVE Inserted(n, 1, st) \in Ledger
    BY <1>1, <1>2, <1>5 DEF Inserted, Ledger
  <1>6. ASSUME NEW n \in Names PROVE HeldForDeletion(n) \in Ledger
    BY <1>1, <1>2, <1>6 DEF HeldForDeletion, Inserted, Ledger, RowStates
  <1>7. ASSUME NEW n \in Names PROVE [row EXCEPT ![n].old = TRUE] \in Ledger
    BY <1>1, <1>2, <1>7 DEF Rows, Ledger
  <1> QED
    BY <1>1, <1>3, <1>4, <1>5, <1>6, <1>7 DEF LedgerStatements

LEMMA PutBackTypes ==
    ASSUME NEW K \in SUBSET Names
    PROVE  PutBacks(K) \subseteq Tasks
  BY DEF PutBacks, Tasks

LEMMA TaskTypes ==
    ASSUME NEW K \in SUBSET Names, NEW n \in Names
    PROVE  LetGo(n) \union PutBacks(K) \subseteq Tasks
  BY DEF PutBacks, LetGo, Tasks
LEMMA FirstChoiceInNames == FirstChoice \subseteq Claimable /\ Claimable \subseteq Names
  BY DEF FirstChoice, Claimable

LEMMA StartTypes ==
    ASSUME TypeOK, Named, NEW s \in Starts, StartStep(s) \/ StartDies(s)
    PROVE  TypeOK' /\ Named'
  <1>0. /\ start \in [Starts -> StartRecs] /\ start[s] \in StartRecs
        /\ start[s].kept \in SUBSET Names /\ start[s].user \in Users
        /\ start[s].pc \notin {"idle", "claiming", "create"} => start[s].name \in Names
        /\ IdleStart(s) \in StartRecs
        /\ \A r \in Starts : start[r].name = NoName <=> start[r].pc \in {"idle", "claiming", "create"}
        /\ LedgerStatements /\ NoName \notin Names /\ tasks \subseteq Tasks
        /\ registry \in [Users -> Names \union {NoName}]
    BY PoolAssumption, LedgerTypes DEF TypeOK, Named, StartRecs, StartPCs, IdleStart
  <1>1. ASSUME NEW u \in Users, BeginStart(s, u) PROVE TypeOK' /\ Named'
    BY <1>1, <1>0, PoolAssumption DEF BeginStart, Claims, TypeOK, Named, StartRecs, StartPCs, At, Goto
  <1>2. CASE Claim(s)
    <2>1. row' \in Ledger
      <3>1. PICK n \in FirstChoice : row' = Moved(n, "claimed")
        BY <1>2 DEF Claim
      <3> QED
        BY <3>1, <1>0, FirstChoiceInNames DEF LedgerStatements, RowStates
    <2>2. start' \in [Starts -> StartRecs]
      BY <1>2, <1>0, PoolAssumption DEF Claim, StartRecs, StartPCs, At, Goto, FirstChoice, Claimable
    <2>3. \A r \in Starts : start'[r].name = NoName <=> start'[r].pc \in {"idle", "claiming", "create"}
      BY <1>2, <1>0, PoolAssumption DEF Claim, StartRecs, At, Goto, FirstChoice, Claimable
    <2> QED
      BY <2>1, <2>2, <2>3, <1>2 DEF Claim, TypeOK, Named
  <1>3. CASE ClaimMiss(s)
    <2>1. tasks' \subseteq Tasks
      BY <1>3, <1>0, PutBackTypes DEF ClaimMiss
    <2>2. start' \in [Starts -> StartRecs]
      <3>1. Settled(s, "create") \in StartRecs
        BY <1>0, PoolAssumption DEF StartRecs, StartPCs, Settled
      <3> QED
        BY <3>1, <1>3, <1>0 DEF ClaimMiss
    <2>3. \A r \in Starts : start'[r].name = NoName <=> start'[r].pc \in {"idle", "claiming", "create"}
      BY <1>3, <1>0, PoolAssumption DEF ClaimMiss, StartRecs, At, Settled
    <2> QED
      BY <2>1, <2>2, <2>3, <1>3 DEF ClaimMiss, TypeOK, Named
  <1>4. CASE CheckFit(s)
    BY <1>4, <1>0 DEF CheckFit, TypeOK, Named, StartRecs, StartPCs, At, Goto
  <1>5. CASE CheckKeep(s)
    BY <1>5, <1>0, PoolAssumption DEF CheckKeep, TypeOK, Named, StartRecs, StartPCs, At, Goto
  <1>6. CASE CheckUnfit(s)
    <2>1. tasks' \subseteq Tasks
      BY <1>6, <1>0, TaskTypes DEF CheckUnfit, At
    <2>2. start' \in [Starts -> StartRecs]
      BY <1>6, <1>0 DEF CheckUnfit, StartRecs, StartPCs, At, Goto
    <2>3. \A r \in Starts : start'[r].name = NoName <=> start'[r].pc \in {"idle", "claiming", "create"}
      BY <1>6, <1>0 DEF CheckUnfit, StartRecs, At, Goto
    <2> QED
      BY <2>1, <2>2, <2>3, <1>6 DEF CheckUnfit, TypeOK, Named
  <1>7. CASE Record(s)
    BY <1>7, <1>0 DEF Record, TypeOK, Named, StartRecs, StartPCs, At, Goto
  <1>8. CASE RecordFails(s)
    <2>1. tasks' \subseteq Tasks
      BY <1>8, <1>0, TaskTypes DEF RecordFails
    <2>2. registry' \in [Users -> Names \union {NoName}]
      BY <1>8, <1>0 DEF RecordFails, MayHaveLanded, At
    <2>3. start' \in [Starts -> StartRecs]
      BY <1>8, <1>0 DEF RecordFails, StartRecs, StartPCs, At, Goto, IdleStart
    <2>4. \A r \in Starts : start'[r].name = NoName <=> start'[r].pc \in {"idle", "claiming", "create"}
      BY <1>8, <1>0 DEF RecordFails, StartRecs, At, Goto, IdleStart
    <2> QED
      BY <2>1, <2>2, <2>3, <2>4, <1>8 DEF RecordFails, TypeOK, Named
  <1>9. CASE ForgetClaim(s)
    <2>1. row' \in Ledger
      BY <1>9, <1>0 DEF ForgetClaim, Try, LedgerStatements, At
    <2>2. tasks' \subseteq Tasks
      BY <1>9, <1>0, PutBackTypes DEF ForgetClaim
    <2>3. start' \in [Starts -> StartRecs]
      <3>1. Settled(s, "using") \in StartRecs
        BY <1>0, PoolAssumption DEF StartRecs, StartPCs, Settled
      <3> QED
        BY <3>1, <1>9, <1>0 DEF ForgetClaim
    <2>4. \A r \in Starts : start'[r].name = NoName <=> start'[r].pc \in {"idle", "claiming", "create"}
      BY <1>9, <1>0, PoolAssumption DEF ForgetClaim, StartRecs, At, Settled
    <2> QED
      BY <2>1, <2>2, <2>3, <2>4, <1>9 DEF ForgetClaim, TypeOK, Named
  <1>10. CASE HoldCreate(s)
    <2>1. row' \in Ledger
      BY <1>10, <1>0 DEF HoldCreate, Try, Fresh, LedgerStatements, RowStates
    <2>2. start' \in [Starts -> StartRecs]
      BY <1>10, <1>0 DEF HoldCreate, StartRecs, StartPCs, At, Goto, Fresh
    <2>3. \A r \in Starts : start'[r].name = NoName <=> start'[r].pc \in {"idle", "claiming", "create"}
      BY <1>10, <1>0 DEF HoldCreate, StartRecs, At, Goto, Fresh
    <2>4. minted' \subseteq Names
      BY <1>10, <1>0 DEF HoldCreate, Fresh, TypeOK
    <2> QED
      BY <2>1, <2>2, <2>3, <2>4, <1>10 DEF HoldCreate, TypeOK, Named
  <1>11. CASE CreateOk(s)
    BY <1>11, <1>0 DEF CreateOk, TypeOK, Named, StartRecs, StartPCs, At, Goto
  <1>12. CASE CreateFails(s)
    <2>1. cloud' \subseteq Names
      BY <1>12, <1>0 DEF CreateFails, TypeOK, At
    <2>2. start' \in [Starts -> StartRecs]
      BY <1>12, <1>0 DEF CreateFails, StartRecs, StartPCs, At, Goto, IdleStart
    <2>3. \A r \in Starts : start'[r].name = NoName <=> start'[r].pc \in {"idle", "claiming", "create"}
      BY <1>12, <1>0 DEF CreateFails, StartRecs, At, Goto, IdleStart
    <2> QED
      BY <2>1, <2>2, <2>3, <1>12 DEF CreateFails, TypeOK, Named
  <1>13. CASE RecordOwn(s)
    BY <1>13, <1>0 DEF RecordOwn, TypeOK, Named, StartRecs, StartPCs, At, Goto
  <1>14. CASE RecordOwnFails(s)
    <2>1. registry' \in [Users -> Names \union {NoName}]
      BY <1>14, <1>0 DEF RecordOwnFails, MayHaveLanded, At
    <2>2. start' \in [Starts -> StartRecs]
      BY <1>14, <1>0 DEF RecordOwnFails, StartRecs, StartPCs, At, Goto
    <2>3. \A r \in Starts : start'[r].name = NoName <=> start'[r].pc \in {"idle", "claiming", "create"}
      BY <1>14, <1>0 DEF RecordOwnFails, StartRecs, At, Goto
    <2> QED
      BY <2>1, <2>2, <2>3, <1>14 DEF RecordOwnFails, TypeOK, Named
  <1>15. CASE Undo(s)
    <2>1. cloud' \subseteq Names
      BY <1>15, <1>0 DEF Undo, TypeOK, At
    <2>2. start' \in [Starts -> StartRecs]
      BY <1>15, <1>0 DEF Undo, StartRecs, StartPCs, At, Goto, IdleStart
    <2>3. \A r \in Starts : start'[r].name = NoName <=> start'[r].pc \in {"idle", "claiming", "create"}
      BY <1>15, <1>0 DEF Undo, StartRecs, At, Goto, IdleStart
    <2> QED
      BY <2>1, <2>2, <2>3, <1>15 DEF Undo, TypeOK, Named
  <1>16. CASE Release(s)
    <2>1. row' \in Ledger
      BY <1>16, <1>0 DEF Release, Try, LedgerStatements, At
    <2>2. start' \in [Starts -> StartRecs]
      BY <1>16, <1>0 DEF Release, StartRecs, StartPCs, At, Goto, IdleStart
    <2>3. \A r \in Starts : start'[r].name = NoName <=> start'[r].pc \in {"idle", "claiming", "create"}
      BY <1>16, <1>0 DEF Release, StartRecs, At, Goto, IdleStart
    <2> QED
      BY <2>1, <2>2, <2>3, <1>16 DEF Release, TypeOK, Named
  <1>17. CASE StartDies(s)
    <2>1. inflight' \subseteq Names
      BY <1>17, <1>0 DEF StartDies, TypeOK, At
    <2>2. start' \in [Starts -> StartRecs]
      BY <1>17, <1>0, PoolAssumption DEF StartDies, StartRecs, StartPCs, At, IdleStart, Settled
    <2>3. \A r \in Starts : start'[r].name = NoName <=> start'[r].pc \in {"idle", "claiming", "create"}
      BY <1>17, <1>0, PoolAssumption DEF StartDies, StartRecs, At, IdleStart, Settled
    <2> QED
      BY <2>1, <2>2, <2>3, <1>17 DEF StartDies, TypeOK, Named
  <1> QED
    BY <1>1, <1>2, <1>3, <1>4, <1>5, <1>6, <1>7, <1>8, <1>9, <1>10, <1>11, <1>12, <1>13, <1>14, <1>15, <1>16, <1>17 DEF StartStep

LEMMA FillTypes ==
    ASSUME TypeOK, Named, NEW f \in Fills, FillStep(f) \/ FillGivenUp(f) \/ FillDies(f)
    PROVE  TypeOK' /\ Named'
  <1>0. /\ fill \in [Fills -> FillRecs] /\ fill[f] \in FillRecs
        /\ fill[f].pc # "idle" => fill[f].name \in Names
        /\ \A r \in Fills : fill[r].name = NoName <=> fill[r].pc = "idle"
        /\ LedgerStatements /\ NoName \notin Names
    BY PoolAssumption, LedgerTypes DEF TypeOK, Named, FillRecs
  <1>1. CASE FillBegin(f)
    <2>1. row' \in Ledger
      BY <1>1, <1>0 DEF FillBegin, Fresh, LedgerStatements, RowStates, FillAt
    <2>2. fill' \in [Fills -> FillRecs]
      BY <1>1, <1>0 DEF FillBegin, FillRecs, FillPCs, FillAt, FillGoto, IdleFill, FillEnds, Fresh
    <2>3. \A r \in Fills : fill'[r].name = NoName <=> fill'[r].pc = "idle"
      BY <1>1, <1>0 DEF FillBegin, FillRecs, FillPCs, FillAt, FillGoto, IdleFill, FillEnds, Fresh
    <2>4. minted' \subseteq Names
      BY <1>1, <1>0 DEF FillBegin, Fresh, TypeOK
    <2> QED
      BY <2>1, <2>2, <2>3, <2>4, <1>1 DEF FillBegin, TypeOK, Named
  <1>2. CASE FillTurn(f)
    <2>1. row' \in Ledger
      BY <1>2, <1>0 DEF FillTurn, Move, LedgerStatements, RowStates, FillAt
    <2>2. fill' \in [Fills -> FillRecs]
      BY <1>2, <1>0 DEF FillTurn, FillRecs, FillPCs, FillAt, FillGoto, IdleFill, FillEnds
    <2>3. \A r \in Fills : fill'[r].name = NoName <=> fill'[r].pc = "idle"
      BY <1>2, <1>0 DEF FillTurn, FillRecs, FillPCs, FillAt, FillGoto, IdleFill, FillEnds
    <2> QED
      BY <2>1, <2>2, <2>3, <1>2 DEF FillTurn, TypeOK, Named
  <1>3. CASE FillCreated(f)
    <2>1. cloud' \subseteq Names
      BY <1>3, <1>0 DEF FillCreated, TypeOK, FillAt
    <2>2. fill' \in [Fills -> FillRecs]
      BY <1>3, <1>0 DEF FillCreated, FillRecs, FillPCs, FillAt, FillGoto, IdleFill, FillEnds
    <2>3. \A r \in Fills : fill'[r].name = NoName <=> fill'[r].pc = "idle"
      BY <1>3, <1>0 DEF FillCreated, FillRecs, FillPCs, FillAt, FillGoto, IdleFill, FillEnds
    <2> QED
      BY <2>1, <2>2, <2>3, <1>3 DEF FillCreated, TypeOK, Named
  <1>4. CASE FillCreateFails(f)
    <2>1. cloud' \subseteq Names
      BY <1>4, <1>0 DEF FillCreateFails, TypeOK, FillAt
    <2>2. fill' \in [Fills -> FillRecs]
      BY <1>4, <1>0 DEF FillCreateFails, FillRecs, FillPCs, FillAt, FillGoto, IdleFill, FillEnds
    <2>3. \A r \in Fills : fill'[r].name = NoName <=> fill'[r].pc = "idle"
      BY <1>4, <1>0 DEF FillCreateFails, FillRecs, FillPCs, FillAt, FillGoto, IdleFill, FillEnds
    <2> QED
      BY <2>1, <2>2, <2>3, <1>4 DEF FillCreateFails, TypeOK, Named
  <1>5. CASE FillFailedRetires(f)
    <2>1. row' \in Ledger
      BY <1>5, <1>0 DEF FillFailedRetires, Move, LedgerStatements, RowStates, FillAt
    <2>2. fill' \in [Fills -> FillRecs]
      BY <1>5, <1>0 DEF FillFailedRetires, FillRecs, FillPCs, FillAt, FillGoto, IdleFill, FillEnds
    <2>3. \A r \in Fills : fill'[r].name = NoName <=> fill'[r].pc = "idle"
      BY <1>5, <1>0 DEF FillFailedRetires, FillRecs, FillPCs, FillAt, FillGoto, IdleFill, FillEnds
    <2> QED
      BY <2>1, <2>2, <2>3, <1>5 DEF FillFailedRetires, TypeOK, Named
  <1>6. CASE FillHolds(f)
    <2>1. row' \in Ledger
      BY <1>6, <1>0 DEF FillHolds, LedgerStatements, RowStates, FillAt
    <2>2. fill' \in [Fills -> FillRecs]
      BY <1>6, <1>0 DEF FillHolds, FillRecs, FillPCs, FillAt, FillGoto, IdleFill, FillEnds
    <2>3. \A r \in Fills : fill'[r].name = NoName <=> fill'[r].pc = "idle"
      BY <1>6, <1>0 DEF FillHolds, FillRecs, FillPCs, FillAt, FillGoto, IdleFill, FillEnds
    <2> QED
      BY <2>1, <2>2, <2>3, <1>6 DEF FillHolds, TypeOK, Named
  <1>7. CASE FillAnswered(f)
    <2>1. row' \in Ledger
      BY <1>7, <1>0 DEF FillAnswered, Move, LedgerStatements, RowStates, FillAt
    <2>2. fill' \in [Fills -> FillRecs]
      BY <1>7, <1>0 DEF FillAnswered, FillRecs, FillPCs, FillAt, FillGoto, IdleFill, FillEnds
    <2>3. \A r \in Fills : fill'[r].name = NoName <=> fill'[r].pc = "idle"
      BY <1>7, <1>0 DEF FillAnswered, FillRecs, FillPCs, FillAt, FillGoto, IdleFill, FillEnds
    <2> QED
      BY <2>1, <2>2, <2>3, <1>7 DEF FillAnswered, TypeOK, Named
  <1>8. CASE FillSilent(f)
    <2>1. fill' \in [Fills -> FillRecs]
      BY <1>8, <1>0 DEF FillSilent, FillRecs, FillPCs, FillAt, FillGoto, IdleFill, FillEnds
    <2>2. \A r \in Fills : fill'[r].name = NoName <=> fill'[r].pc = "idle"
      BY <1>8, <1>0 DEF FillSilent, FillRecs, FillPCs, FillAt, FillGoto, IdleFill, FillEnds
    <2> QED
      BY <2>1, <2>2, <1>8 DEF FillSilent, TypeOK, Named
  <1>9. CASE DiscardRetires(f)
    <2>1. row' \in Ledger
      BY <1>9, <1>0 DEF DiscardRetires, Move, LedgerStatements, RowStates, FillAt
    <2>2. fill' \in [Fills -> FillRecs]
      BY <1>9, <1>0 DEF DiscardRetires, FillRecs, FillPCs, FillAt, FillGoto, IdleFill, FillEnds
    <2>3. \A r \in Fills : fill'[r].name = NoName <=> fill'[r].pc = "idle"
      BY <1>9, <1>0 DEF DiscardRetires, FillRecs, FillPCs, FillAt, FillGoto, IdleFill, FillEnds
    <2> QED
      BY <2>1, <2>2, <2>3, <1>9 DEF DiscardRetires, TypeOK, Named
  <1>10. CASE DiscardDeletes(f)
    <2>1. cloud' \subseteq Names
      BY <1>10, <1>0 DEF DiscardDeletes, TypeOK, FillAt
    <2>2. fill' \in [Fills -> FillRecs]
      BY <1>10, <1>0 DEF DiscardDeletes, FillRecs, FillPCs, FillAt, FillGoto, IdleFill, FillEnds
    <2>3. \A r \in Fills : fill'[r].name = NoName <=> fill'[r].pc = "idle"
      BY <1>10, <1>0 DEF DiscardDeletes, FillRecs, FillPCs, FillAt, FillGoto, IdleFill, FillEnds
    <2> QED
      BY <2>1, <2>2, <2>3, <1>10 DEF DiscardDeletes, TypeOK, Named
  <1>11. CASE FillForgets(f)
    <2>1. row' \in Ledger
      BY <1>11, <1>0 DEF FillForgets, LedgerStatements, RowStates, FillAt
    <2>2. fill' \in [Fills -> FillRecs]
      BY <1>11, <1>0 DEF FillForgets, FillRecs, FillPCs, FillAt, FillGoto, IdleFill, FillEnds
    <2>3. \A r \in Fills : fill'[r].name = NoName <=> fill'[r].pc = "idle"
      BY <1>11, <1>0 DEF FillForgets, FillRecs, FillPCs, FillAt, FillGoto, IdleFill, FillEnds
    <2> QED
      BY <2>1, <2>2, <2>3, <1>11 DEF FillForgets, TypeOK, Named
  <1>12. CASE FillGivenUp(f)
    <2>1. row' \in Ledger
      BY <1>12, <1>0 DEF FillGivenUp, Try, LedgerStatements, RowStates, FillAt
    <2>2. inflight' \subseteq Names
      BY <1>12, <1>0 DEF FillGivenUp, LeftCreating, TypeOK, FillAt
    <2>3. fill' \in [Fills -> FillRecs]
      BY <1>12, <1>0 DEF FillGivenUp, FillRecs, FillPCs, FillAt, FillGoto, IdleFill, FillEnds
    <2>4. \A r \in Fills : fill'[r].name = NoName <=> fill'[r].pc = "idle"
      BY <1>12, <1>0 DEF FillGivenUp, FillRecs, FillPCs, FillAt, FillGoto, IdleFill, FillEnds
    <2> QED
      BY <2>1, <2>2, <2>3, <2>4, <1>12 DEF FillGivenUp, TypeOK, Named
  <1>13. CASE FillDies(f)
    <2>1. inflight' \subseteq Names
      BY <1>13, <1>0 DEF FillDies, LeftCreating, TypeOK, FillAt
    <2>2. fill' \in [Fills -> FillRecs]
      BY <1>13, <1>0 DEF FillDies, FillRecs, FillPCs, FillAt, FillGoto, IdleFill, FillEnds
    <2>3. \A r \in Fills : fill'[r].name = NoName <=> fill'[r].pc = "idle"
      BY <1>13, <1>0 DEF FillDies, FillRecs, FillPCs, FillAt, FillGoto, IdleFill, FillEnds
    <2> QED
      BY <2>1, <2>2, <2>3, <1>13 DEF FillDies, TypeOK, Named
  <1> QED
    BY <1>1, <1>2, <1>3, <1>4, <1>5, <1>6, <1>7, <1>8, <1>9, <1>10, <1>11, <1>12, <1>13 DEF FillStep

LEMMA TaskStepTypes ==
    ASSUME TypeOK, Named, NEW t \in tasks, TaskStep(t) \/ TaskDies(t)
    PROVE  TypeOK' /\ Named'
  <1>0. /\ t.name \in Names /\ LedgerStatements
        /\ \A do \in {"retire", "delete", "forget", "putback"} : [t EXCEPT !.do = do] \in Tasks
    BY LedgerTypes DEF TypeOK, Tasks
  <1>1. CASE TaskRetires(t)
    <2>1. row' \in Ledger
      BY <1>1, <1>0 DEF TaskRetires, Try, LedgerStatements, RowStates
    <2>2. tasks' \subseteq Tasks
      BY <1>1, <1>0 DEF TaskRetires, Then, Becomes, TypeOK
    <2> QED
      BY <2>1, <2>2, <1>1 DEF TaskRetires, TypeOK, Named
  <1>2. CASE TaskDeletes(t)
    <2>1. cloud' \subseteq Names
      BY <1>2, <1>0 DEF TaskDeletes, TypeOK
    <2>2. tasks' \subseteq Tasks
      BY <1>2, <1>0 DEF TaskDeletes, Then, Becomes, TypeOK
    <2> QED
      BY <2>1, <2>2, <1>2 DEF TaskDeletes, TypeOK, Named
  <1>3. CASE TaskForgets(t)
    <2>1. row' \in Ledger
      BY <1>3, <1>0 DEF TaskForgets, Try, LedgerStatements, RowStates
    <2>2. tasks' \subseteq Tasks
      BY <1>3, <1>0 DEF TaskForgets, Then, Becomes, TypeOK
    <2> QED
      BY <2>1, <2>2, <1>3 DEF TaskForgets, TypeOK, Named
  <1>4. CASE TaskPutsBack(t)
    <2>1. row' \in Ledger
      BY <1>4, <1>0 DEF TaskPutsBack, Try, LedgerStatements, RowStates
    <2>2. tasks' \subseteq Tasks
      BY <1>4, <1>0 DEF TaskPutsBack, Then, Becomes, TypeOK
    <2> QED
      BY <2>1, <2>2, <1>4 DEF TaskPutsBack, TypeOK, Named
  <1>5. CASE TaskDies(t)
    <2>1. tasks' \subseteq Tasks
      BY <1>5, <1>0 DEF TaskDies, Then, Becomes, TypeOK
    <2> QED
      BY <2>1, <1>5 DEF TaskDies, TypeOK, Named
  <1> QED
    BY <1>1, <1>2, <1>3, <1>4, <1>5 DEF TaskStep

LEMMA PassTypes ==
    ASSUME TypeOK, Named, PassStep \/ PassDies
    PROVE  TypeOK' /\ Named'
  <1>0. /\ pass \in PassRecs /\ LedgerStatements /\ row \in Ledger
        /\ \A n \in Names : pass.gen[n] \in {1, 2}
        /\ \A n \in Names, do \in Todos : [pass EXCEPT !.todo[n] = do] \in PassRecs
    BY LedgerTypes DEF TypeOK, PassRecs, LedgerStatements
  <1>1. CASE PassBegin
    <2>1. pass' \in PassRecs
      <3>1. [n \in Names |-> row[n].gen] \in [Names -> {1, 2}]
        BY <1>0 DEF Ledger, Rows
      <3>2. \A E : Plan(E) \in [Names -> Todos]
        BY DEF Plan, Todos
      <3>3. PICK E :
              pass' = [held |-> {}, todo |-> Plan(E), gen |-> [n \in Names |-> row[n].gen],
                       pc |-> IF \E n \in Names : Plan(E)[n] = "judge claimed"
                              THEN "registry" ELSE "work"]
        BY <1>1 DEF PassBegin
      <3> QED
        BY <3>1, <3>2, <3>3 DEF PassRecs
    <2> QED
      BY <2>1, <1>1 DEF PassBegin, TypeOK, Named
  <1>2. CASE PassReadsRegistry
    <2>1. pass' \in PassRecs
      BY <1>2, <1>0 DEF PassReadsRegistry, Stuck, PassRecs
    <2> QED
      BY <2>1, <1>2 DEF PassReadsRegistry, TypeOK, Named
  <1>3. CASE PassReadsDebts
    <2>1. pass' \in PassRecs
      BY <1>3, <1>0 DEF PassReadsDebts, Stuck, PassRecs
    <2> QED
      BY <2>1, <1>3 DEF PassReadsDebts, TypeOK, Named
  <1>4. CASE PassEnds \/ PassDies
    <2>1. pass' \in PassRecs
      <3>1. NoTodo \in [Names -> Todos] /\ [n \in Names |-> 1] \in [Names -> {1, 2}]
        BY DEF NoTodo, Todos
      <3> QED
        BY <3>1, <1>4 DEF PassEnds, PassDies, IdlePass, PassRecs
    <2> QED
      BY <2>1, <1>4 DEF PassEnds, PassDies, TypeOK, Named
  <1>5. ASSUME NEW n \in Names, PassForgetsHeld(n) PROVE TypeOK' /\ Named'
    <2>1. row' \in Ledger
      BY <1>5, <1>0 DEF PassForgetsHeld, LedgerStatements, RowStates, Move
    <2>2. pass' \in PassRecs
      BY <1>5, <1>0 DEF PassForgetsHeld, Do, Todos
    <2> QED
      BY <2>1, <2>2, <1>5 DEF PassForgetsHeld, TypeOK, Named
  <1>6. ASSUME NEW n \in Names, PassRetires(n) PROVE TypeOK' /\ Named'
    <2>1. row' \in Ledger
      BY <1>6, <1>0 DEF PassRetires, LedgerStatements, RowStates, Move
    <2>2. pass' \in PassRecs
      BY <1>6, <1>0 DEF PassRetires, Do, Todos
    <2> QED
      BY <2>1, <2>2, <1>6 DEF PassRetires, TypeOK, Named
  <1>7. ASSUME NEW n \in Names, PassDeletes(n) PROVE TypeOK' /\ Named'
    <2>1. cloud' \subseteq Names
      BY <1>7, <1>0 DEF PassDeletes, TypeOK
    <2>2. pass' \in PassRecs
      BY <1>7, <1>0 DEF PassDeletes, Do, Todos
    <2> QED
      BY <2>1, <2>2, <1>7 DEF PassDeletes, TypeOK, Named
  <1>8. ASSUME NEW n \in Names, PassRefused(n) PROVE TypeOK' /\ Named'
    <2>1. pass' \in PassRecs
      BY <1>8, <1>0 DEF PassRefused, Do, Todos
    <2> QED
      BY <2>1, <1>8 DEF PassRefused, TypeOK, Named
  <1>9. ASSUME NEW n \in Names, PassForgets(n) PROVE TypeOK' /\ Named'
    <2>1. row' \in Ledger
      BY <1>9, <1>0 DEF PassForgets, LedgerStatements, RowStates, Move
    <2>2. pass' \in PassRecs
      BY <1>9, <1>0 DEF PassForgets, Do, Todos
    <2> QED
      BY <2>1, <2>2, <1>9 DEF PassForgets, TypeOK, Named
  <1> QED
    BY <1>1, <1>2, <1>3, <1>4, <1>5, <1>6, <1>7, <1>8, <1>9 DEF PassStep, PassWork

LEMMA ElsewhereTypes ==
    ASSUME TypeOK, Named, Elsewhere
    PROVE  TypeOK' /\ Named'
  <1> USE PoolAssumption DEF TypeOK, Named, StartRecs, StartPCs, IdleStart, Using, At
  <1>1. ASSUME NEW s \in Starts, Leave(s) \/ Owe(s) PROVE TypeOK' /\ Named'
    BY <1>1 DEF Leave, Owe
  <1>2. ASSUME NEW u \in Users, ClearRecord(u) \/ Reap(u) PROVE TypeOK' /\ Named'
    BY <1>2 DEF ClearRecord, Reap
  <1>3. ASSUME NEW n \in Names, Settle(n) \/ Landing(n) PROVE TypeOK' /\ Named'
    BY <1>3 DEF Settle, Landing
  <1>4. ASSUME NEW n \in Names, GrowOld(n) PROVE TypeOK' /\ Named'
    BY <1>4, LedgerTypes DEF GrowOld, LedgerStatements
  <1>5. CASE NewImage
    BY <1>5 DEF NewImage
  <1> QED
    BY <1>1, <1>2, <1>3, <1>4, <1>5 DEF Elsewhere

LEMMA InitTypes == Init => TypeOK /\ Named
  <1> SUFFICES ASSUME Init PROVE TypeOK /\ Named
    OBVIOUS
  <1>1. row \in Ledger
    BY DEF Init, Ledger, Rows, RowStates
  <1>2. start \in [Starts -> StartRecs]
        /\ \A s \in Starts : start[s].name = NoName /\ start[s].pc = "idle"
    BY PoolAssumption DEF Init, StartRecs, StartPCs
  <1>3. fill \in [Fills -> FillRecs]
    BY DEF Init, FillRecs, FillPCs, IdleFill
  <1>4. pass \in PassRecs
    BY DEF Init, PassRecs, IdlePass, NoTodo, Todos
  <1> QED
    BY <1>1, <1>2, <1>3, <1>4 DEF Init, TypeOK, Named, IdleFill

LEMMA NextTypes == TypeOK /\ Named /\ [Next]_vars => TypeOK' /\ Named'
  <1> SUFFICES ASSUME TypeOK, Named, [Next]_vars PROVE TypeOK' /\ Named'
    OBVIOUS
  <1>1. CASE UNCHANGED vars
    BY <1>1 DEF vars, TypeOK, Named
  <1>2. CASE Next
    BY <1>2, StartTypes, FillTypes, TaskStepTypes, PassTypes, ElsewhereTypes DEF Next
  <1> QED
    BY <1>1, <1>2

\* Every reachable state is well typed: the ledger's rows, the records, the
\* debts and every actor's progress stay in their ranges.
THEOREM TypeCorrect == Spec => []TypeOK
  BY InitTypes, NextTypes, PTL DEF Spec

----------------------------------------------------------------------------
\* One holder.

\* No claim can take a row, now or once its fill is done, that it could not
\* take before.
NoLooserRow ==
    \A n \in Names :
        /\ row'[n].st \in {"filling", "ready"} => row[n].st \in {"filling", "ready"}
        /\ row'[n].st = "claimed" => row[n].st \in {"ready", "claimed"}

\* A step that makes no row claimable, gives no one a container and puts off no
\* put-back can only take tokens away.
LEMMA TokensOnlyGo ==
    ASSUME TypeOK, Named, Tokens, minted' = minted, NoLooserRow,
           \A u \in Users : registry'[u] \in {registry[u], NoName},
           \A n \in Names : PutBackPending(n)' => PutBackPending(n),
           \A s \in Starts :
              /\ start'[s].name \in {start[s].name, NoName}
              /\ start'[s].kept \subseteq start[s].kept
              /\ start'[s].pc \in Unrecorded =>
                    start[s].pc \in Unrecorded /\ start'[s].name = start[s].name
    PROVE  Tokens'
  <1>0. \A n \in Names : Registered(n)' => Registered(n)
    BY PoolAssumption DEF Registered
  <1>1. \A s \in Starts : start[s].kept \subseteq Names
    BY DEF TypeOK, StartRecs
  <1>2. FreeIsFree'
    BY <1>0, <1>1, PoolAssumption DEF Tokens, FreeIsFree, NoLooserRow
  <1>8. LiveIsMinted'
    BY DEF Tokens, LiveIsMinted, NoLooserRow
  <1>3. HeldOnce'
    BY <1>1, PoolAssumption DEF Tokens, HeldOnce
  <1>4. OneHolder'
    BY <1>1, PoolAssumption DEF Tokens, OneHolder
  <1>5. PutBackIsFree'
    BY <1>0, <1>1, PoolAssumption DEF Tokens, PutBackIsFree
  <1>6. UnrecordedHasNoRecord'
    <2>1. ASSUME NEW s \in Starts, NEW n \in start'[s].kept PROVE ~Registered(n)'
      BY <1>0, <1>1, <2>1 DEF Tokens, UnrecordedHasNoRecord
    <2>2. ASSUME NEW s \in Starts, start'[s].pc \in Unrecorded
          PROVE  ~(\E u \in Users : registry'[u] = start'[s].name)
      <3>1. start[s].name \in Names /\ ~Registered(start[s].name)
        BY <2>2 DEF Tokens, UnrecordedHasNoRecord, Named, Unrecorded, TypeOK, StartRecs
      <3> QED
        BY <3>1, <2>2, PoolAssumption DEF Registered
    <2> QED
      BY <2>1, <2>2 DEF UnrecordedHasNoRecord, Registered, Unrecorded
  <1>7. OneRecord'
    BY DEF Tokens, OneRecord
  <1> QED
    BY <1>2, <1>3, <1>4, <1>5, <1>6, <1>7, <1>8 DEF Tokens

\* What each statement of the ledger leaves claimable.
LEMMA RowsLoosen ==
    ASSUME TypeOK, NEW n \in Names, NEW m \in Names
    PROVE  /\ \A to \in RowStates : Moved(n, to)[m].st = IF m = n THEN to ELSE row[m].st
           /\ \A g : Forgotten(n, g)[m].st \in {row[m].st, "none"}
           /\ HeldForDeletion(n)[m].st \in {row[m].st, "retiring"}
           /\ \A g, st : Inserted(n, g, st)[m].st = IF m = n THEN st ELSE row[m].st
  BY DEF TypeOK, Ledger, Rows, Moved, Forgotten, HeldForDeletion, Inserted

LEMMA RegistryGains ==
    ASSUME TypeOK, OneRecord, NEW u \in Users, NEW n \in Names, ~Registered(n),
           registry' \in {registry, [registry EXCEPT ![u] = n]}
    PROVE  /\ \A m \in Names : Registered(m)' => Registered(m) \/ m = n
           /\ OneRecord'
  BY PoolAssumption DEF TypeOK, OneRecord, Registered

LEMMA StartTokens ==
    ASSUME TypeOK, Named, Tokens, NEW s \in Starts, StartStep(s) \/ StartDies(s)
    PROVE  Tokens'
  <1>0. /\ start \in [Starts -> StartRecs] /\ row \in Ledger
        /\ \A r \in Starts : start[r].kept \subseteq Names /\ start[r].user \in Users
        /\ start[s].pc \notin {"idle", "claiming", "create"} => start[s].name \in Names
        /\ start[s].name = NoName <=> start[s].pc \in {"idle", "claiming", "create"}
        /\ \A r \in Starts : start[r].pc \in Unrecorded => start[r].name \in Names
        /\ tasks \subseteq Tasks /\ NoName \notin Names
    BY PoolAssumption DEF TypeOK, Named, StartRecs, Unrecorded
  <1>1. ASSUME NEW u \in Users, BeginStart(s, u) PROVE Tokens'
    <2>1. \A r \in Starts :
              /\ start'[r].name \in {start[r].name, NoName}
              /\ start'[r].kept \subseteq start[r].kept
              /\ start'[r].pc \in Unrecorded =>
                    start[r].pc \in Unrecorded /\ start'[r].name = start[r].name
      BY <1>1, <1>0 DEF BeginStart, Claims, At, Goto, StartRecs, Unrecorded
    <2>2. NoLooserRow
      BY <1>1, <1>0 DEF BeginStart, NoLooserRow
    <2>3. \A m \in Names : PutBackPending(m)' => PutBackPending(m)
      BY <1>1 DEF BeginStart, PutBackPending
    <2> QED
      BY <2>1, <2>2, <2>3, <1>1, TokensOnlyGo DEF BeginStart
  <1>2. CASE CheckFit(s)
    <2>1. \A r \in Starts :
              /\ start'[r].name \in {start[r].name, NoName}
              /\ start'[r].kept \subseteq start[r].kept
              /\ start'[r].pc \in Unrecorded =>
                    start[r].pc \in Unrecorded /\ start'[r].name = start[r].name
      BY <1>2, <1>0 DEF CheckFit, At, Goto, StartRecs, Unrecorded
    <2>2. NoLooserRow
      BY <1>2, <1>0 DEF CheckFit, NoLooserRow
    <2>3. \A m \in Names : PutBackPending(m)' => PutBackPending(m)
      BY <1>2 DEF CheckFit, PutBackPending
    <2> QED
      BY <2>1, <2>2, <2>3, <1>2, TokensOnlyGo DEF CheckFit
  <1>3. CASE CheckUnfit(s)
    <2>1. \A r \in Starts :
              /\ start'[r].name \in {start[r].name, NoName}
              /\ start'[r].kept \subseteq start[r].kept
              /\ start'[r].pc \in Unrecorded =>
                    start[r].pc \in Unrecorded /\ start'[r].name = start[r].name
      BY <1>3, <1>0 DEF CheckUnfit, At, Goto, StartRecs, Unrecorded
    <2>2. NoLooserRow
      BY <1>3, <1>0 DEF CheckUnfit, NoLooserRow
    <2>3. \A m \in Names : PutBackPending(m)' => PutBackPending(m)
      BY <1>3 DEF CheckUnfit, PutBackPending, LetGo
    <2> QED
      BY <2>1, <2>2, <2>3, <1>3, TokensOnlyGo DEF CheckUnfit
  <1>4. CASE CreateOk(s)
    <2>1. \A r \in Starts :
              /\ start'[r].name \in {start[r].name, NoName}
              /\ start'[r].kept \subseteq start[r].kept
              /\ start'[r].pc \in Unrecorded =>
                    start[r].pc \in Unrecorded /\ start'[r].name = start[r].name
      BY <1>4, <1>0 DEF CreateOk, At, Goto, StartRecs, Unrecorded
    <2>2. NoLooserRow
      BY <1>4, <1>0 DEF CreateOk, NoLooserRow
    <2>3. \A m \in Names : PutBackPending(m)' => PutBackPending(m)
      BY <1>4 DEF CreateOk, PutBackPending
    <2> QED
      BY <2>1, <2>2, <2>3, <1>4, TokensOnlyGo DEF CreateOk
  <1>5. CASE CreateFails(s)
    <2>1. \A r \in Starts :
              /\ start'[r].name \in {start[r].name, NoName}
              /\ start'[r].kept \subseteq start[r].kept
              /\ start'[r].pc \in Unrecorded =>
                    start[r].pc \in Unrecorded /\ start'[r].name = start[r].name
      BY <1>5, <1>0 DEF CreateFails, At, Goto, StartRecs, Unrecorded, IdleStart
    <2>2. NoLooserRow
      BY <1>5, <1>0 DEF CreateFails, NoLooserRow
    <2>3. \A m \in Names : PutBackPending(m)' => PutBackPending(m)
      BY <1>5 DEF CreateFails, PutBackPending
    <2> QED
      BY <2>1, <2>2, <2>3, <1>5, TokensOnlyGo DEF CreateFails
  <1>6. CASE Undo(s)
    <2>1. \A r \in Starts :
              /\ start'[r].name \in {start[r].name, NoName}
              /\ start'[r].kept \subseteq start[r].kept
              /\ start'[r].pc \in Unrecorded =>
                    start[r].pc \in Unrecorded /\ start'[r].name = start[r].name
      BY <1>6, <1>0 DEF Undo, At, Goto, StartRecs, Unrecorded, IdleStart
    <2>2. NoLooserRow
      BY <1>6, <1>0 DEF Undo, NoLooserRow
    <2>3. \A m \in Names : PutBackPending(m)' => PutBackPending(m)
      BY <1>6 DEF Undo, PutBackPending
    <2> QED
      BY <2>1, <2>2, <2>3, <1>6, TokensOnlyGo DEF Undo
  <1>7. CASE Release(s)
    <2>1. \A r \in Starts :
              /\ start'[r].name \in {start[r].name, NoName}
              /\ start'[r].kept \subseteq start[r].kept
              /\ start'[r].pc \in Unrecorded =>
                    start[r].pc \in Unrecorded /\ start'[r].name = start[r].name
      BY <1>7, <1>0 DEF Release, At, Goto, StartRecs, Unrecorded, IdleStart
    <2>2. NoLooserRow
      BY <1>7, <1>0, RowsLoosen DEF Release, NoLooserRow, Try, At
    <2>3. \A m \in Names : PutBackPending(m)' => PutBackPending(m)
      BY <1>7 DEF Release, PutBackPending
    <2> QED
      BY <2>1, <2>2, <2>3, <1>7, TokensOnlyGo DEF Release
  <1>8. CASE StartDies(s)
    <2>1. \A r \in Starts :
              /\ start'[r].name \in {start[r].name, NoName}
              /\ start'[r].kept \subseteq start[r].kept
              /\ start'[r].pc \in Unrecorded =>
                    start[r].pc \in Unrecorded /\ start'[r].name = start[r].name
      BY <1>8, <1>0 DEF StartDies, At, Goto, StartRecs, Unrecorded, IdleStart, Settled
    <2>2. NoLooserRow
      BY <1>8, <1>0 DEF StartDies, NoLooserRow
    <2>3. \A m \in Names : PutBackPending(m)' => PutBackPending(m)
      BY <1>8 DEF StartDies, PutBackPending
    <2> QED
      BY <2>1, <2>2, <2>3, <1>8, TokensOnlyGo DEF StartDies
  <1>9. ASSUME NEW n \in FirstChoice, Claim(s), row' = Moved(n, "claimed"),
                start' = [start EXCEPT ![s].pc = "checking", ![s].name = n, ![s].left = @ - 1]
         PROVE  Tokens'
    <2>1. n \in Names /\ row[n].st = "ready" /\ start[s].name = NoName
      BY <1>9, <1>0, FirstChoiceInNames DEF Claimable, Claim, At
    <2>2. ~Registered(n) /\ ~PutBackPending(n) /\ \A q \in Starts : n # start[q].name /\ n \notin start[q].kept
      BY <2>1 DEF Tokens, FreeIsFree
    <2>3. /\ start'[s].name = n /\ start'[s].kept = start[s].kept /\ start'[s].pc = "checking"
          /\ \A q \in Starts \ {s} : start'[q] = start[q]
      BY <1>9, <1>0 DEF StartRecs
    <2>4. /\ minted' = minted /\ registry' = registry
          /\ \A m : Registered(m)' <=> Registered(m)
          /\ \A m : PutBackPending(m)' <=> PutBackPending(m)
      BY <1>9 DEF Claim, Registered, PutBackPending
    <2>5. \A m \in Names : row'[m].st = IF m = n THEN "claimed" ELSE row[m].st
      BY <1>9, <2>1, RowsLoosen DEF RowStates
    <2>6. FreeIsFree'
      BY <2>1, <2>2, <2>3, <2>4, <2>5, <1>0 DEF Tokens, FreeIsFree, LiveIsMinted
    <2>7. LiveIsMinted'
      BY <2>1, <2>2, <2>3, <2>4, <2>5, <1>0 DEF Tokens, LiveIsMinted
    <2>8. HeldOnce'
      BY <2>1, <2>2, <2>3, <2>4, <2>5, <1>0 DEF Tokens, HeldOnce
    <2>9. OneHolder'
      BY <2>1, <2>2, <2>3, <2>4, <2>5, <1>0 DEF Tokens, OneHolder
    <2>10. PutBackIsFree'
      BY <2>1, <2>2, <2>3, <2>4, <2>5, <1>0 DEF Tokens, PutBackIsFree
    <2>11. UnrecordedHasNoRecord'
      BY <2>1, <2>2, <2>3, <2>4, <2>5, <1>0 DEF Tokens, UnrecordedHasNoRecord, Unrecorded
    <2>12. OneRecord'
      BY <2>1, <2>2, <2>3, <2>4, <2>5, <1>0 DEF Tokens, OneRecord
    <2> QED
      BY <2>6, <2>7, <2>8, <2>9, <2>10, <2>11, <2>12 DEF Tokens
  <1>10. CASE CheckKeep(s)
    <2>1. start[s].name \in Names /\ start[s].pc \in {"checking"}
      BY <1>10, <1>0 DEF CheckKeep, At
    <2>2. /\ start'[s].name = NoName /\ start'[s].kept = start[s].kept \union {start[s].name} /\ start'[s].pc = "claiming"
          /\ \A q \in Starts \ {s} : start'[q] = start[q]
      BY <1>10, <1>0 DEF CheckKeep, StartRecs, At, Goto, Settled, IdleStart
    <2>3. row' = row /\ minted' = minted
      BY <1>10, <1>0 DEF CheckKeep
    <2>4. registry' = registry /\ \A m : Registered(m)' <=> Registered(m)
      BY <1>10, <1>0 DEF CheckKeep, Registered
    <2>5. \A m : PutBackPending(m)' <=> PutBackPending(m)
      BY <1>10, <1>0 DEF CheckKeep, PutBackPending
    <2>6. FreeIsFree'
      BY <2>1, <2>2, <2>3, <2>4, <2>5, <1>0 DEF Tokens, FreeIsFree, HeldOnce, OneHolder, UnrecordedHasNoRecord, PutBackIsFree, Unrecorded
    <2>7. LiveIsMinted'
      BY <2>1, <2>2, <2>3, <2>4, <2>5, <1>0 DEF Tokens, LiveIsMinted
    <2>8. HeldOnce'
      BY <2>1, <2>2, <2>3, <2>4, <2>5, <1>0 DEF Tokens, HeldOnce
    <2>9. OneHolder'
      BY <2>1, <2>2, <2>3, <2>4, <2>5, <1>0 DEF Tokens, OneHolder, HeldOnce, UnrecordedHasNoRecord, PutBackIsFree, Unrecorded
    <2>10. PutBackIsFree'
      BY <2>1, <2>2, <2>3, <2>4, <2>5, <1>0 DEF Tokens, PutBackIsFree, HeldOnce, OneHolder, UnrecordedHasNoRecord, Unrecorded
    <2>11. UnrecordedHasNoRecord'
      BY <2>1, <2>2, <2>3, <2>4, <2>5, <1>0 DEF Tokens, UnrecordedHasNoRecord, Unrecorded, HeldOnce, OneHolder, PutBackIsFree
    <2>12. OneRecord'
      BY <2>1, <2>2, <2>3, <2>4, <2>5, <1>0 DEF Tokens, OneRecord, Registered, HeldOnce, OneHolder, UnrecordedHasNoRecord, PutBackIsFree, Unrecorded
    <2> QED
      BY <2>6, <2>7, <2>8, <2>9, <2>10, <2>11, <2>12 DEF Tokens
  <1>11. CASE ClaimMiss(s)
    <2>1. /\ start'[s].name = start[s].name /\ start'[s].kept = {} /\ start'[s].pc = "create"
          /\ \A q \in Starts \ {s} : start'[q] = start[q]
      BY <1>11, <1>0 DEF ClaimMiss, StartRecs, At, Goto, Settled, IdleStart
    <2>2. row' = row /\ minted' = minted
      BY <1>11, <1>0 DEF ClaimMiss
    <2>3. registry' = registry /\ \A m : Registered(m)' <=> Registered(m)
      BY <1>11, <1>0 DEF ClaimMiss, Registered
    <2>4. \A m \in Names : PutBackPending(m)' <=> PutBackPending(m) \/ m \in start[s].kept
      BY <1>11, <1>0 DEF ClaimMiss, PutBackPending, PutBacks, LetGo
    <2>5. start[s].name = NoName
      BY <1>11, <1>0 DEF ClaimMiss, At
    <2>6. FreeIsFree'
      BY <2>1, <2>2, <2>3, <2>4, <2>5, <1>0 DEF Tokens, FreeIsFree, HeldOnce, OneHolder, UnrecordedHasNoRecord, PutBackIsFree, Unrecorded
    <2>7. LiveIsMinted'
      BY <2>1, <2>2, <2>3, <2>4, <2>5, <1>0 DEF Tokens, LiveIsMinted
    <2>8. HeldOnce'
      BY <2>1, <2>2, <2>3, <2>4, <2>5, <1>0 DEF Tokens, HeldOnce
    <2>9. OneHolder'
      BY <2>1, <2>2, <2>3, <2>4, <2>5, <1>0 DEF Tokens, OneHolder, HeldOnce, UnrecordedHasNoRecord, PutBackIsFree, Unrecorded
    <2>10. PutBackIsFree'
      BY <2>1, <2>2, <2>3, <2>4, <2>5, <1>0 DEF Tokens, PutBackIsFree, HeldOnce, OneHolder, UnrecordedHasNoRecord, Unrecorded
    <2>11. UnrecordedHasNoRecord'
      BY <2>1, <2>2, <2>3, <2>4, <2>5, <1>0 DEF Tokens, UnrecordedHasNoRecord, Unrecorded, HeldOnce, OneHolder, PutBackIsFree
    <2>12. OneRecord'
      BY <2>1, <2>2, <2>3, <2>4, <2>5, <1>0 DEF Tokens, OneRecord, Registered, HeldOnce, OneHolder, UnrecordedHasNoRecord, PutBackIsFree, Unrecorded
    <2> QED
      BY <2>6, <2>7, <2>8, <2>9, <2>10, <2>11, <2>12 DEF Tokens
  <1>12. CASE ForgetClaim(s)
    <2>1. start[s].name \in Names /\ start[s].pc \in {"forgetting"}
      BY <1>12, <1>0 DEF ForgetClaim, At
    <2>2. /\ start'[s].name = start[s].name /\ start'[s].kept = {} /\ start'[s].pc = "using"
          /\ \A q \in Starts \ {s} : start'[q] = start[q]
      BY <1>12, <1>0 DEF ForgetClaim, StartRecs, At, Goto, Settled, IdleStart
    <2>3. NoLooserRow /\ minted' = minted
      BY <1>12, <1>0, <2>1, RowsLoosen DEF ForgetClaim, Try, NoLooserRow
    <2>4. registry' = registry /\ \A m : Registered(m)' <=> Registered(m)
      BY <1>12, <1>0 DEF ForgetClaim, Registered
    <2>5. \A m \in Names : PutBackPending(m)' <=> PutBackPending(m) \/ m \in start[s].kept
      BY <1>12, <1>0 DEF ForgetClaim, PutBackPending, PutBacks, LetGo
    <2>6. FreeIsFree'
      BY <2>1, <2>2, <2>3, <2>4, <2>5, <1>0 DEF Tokens, FreeIsFree, NoLooserRow, HeldOnce, OneHolder, UnrecordedHasNoRecord, PutBackIsFree, Unrecorded
    <2>7. LiveIsMinted'
      BY <2>1, <2>2, <2>3, <2>4, <2>5, <1>0 DEF Tokens, LiveIsMinted, NoLooserRow
    <2>8. HeldOnce'
      BY <2>1, <2>2, <2>3, <2>4, <2>5, <1>0 DEF Tokens, HeldOnce
    <2>9. OneHolder'
      BY <2>1, <2>2, <2>3, <2>4, <2>5, <1>0 DEF Tokens, OneHolder, HeldOnce, UnrecordedHasNoRecord, PutBackIsFree, Unrecorded
    <2>10. PutBackIsFree'
      BY <2>1, <2>2, <2>3, <2>4, <2>5, <1>0 DEF Tokens, PutBackIsFree, HeldOnce, OneHolder, UnrecordedHasNoRecord, Unrecorded
    <2>11. UnrecordedHasNoRecord'
      BY <2>1, <2>2, <2>3, <2>4, <2>5, <1>0 DEF Tokens, UnrecordedHasNoRecord, Unrecorded, HeldOnce, OneHolder, PutBackIsFree
    <2>12. OneRecord'
      BY <2>1, <2>2, <2>3, <2>4, <2>5, <1>0 DEF Tokens, OneRecord, Registered, HeldOnce, OneHolder, UnrecordedHasNoRecord, PutBackIsFree, Unrecorded
    <2> QED
      BY <2>6, <2>7, <2>8, <2>9, <2>10, <2>11, <2>12 DEF Tokens
  <1>13. CASE Record(s)
    <2>1. /\ start[s].name \in Names
          /\ start[s].pc \in {"recording"}
          /\ registry' \in {registry, [registry EXCEPT ![start[s].user] = start[s].name]}
      BY <1>13, <1>0 DEF Record, At, MayHaveLanded
    <2>2. ~Registered(start[s].name)
      BY <2>1 DEF Tokens, UnrecordedHasNoRecord, Unrecorded
    <2>3. /\ \A m \in Names : Registered(m)' => Registered(m) \/ m = start[s].name
          /\ OneRecord'
      BY <2>1, <2>2, <1>0, RegistryGains DEF Tokens
    <2>4. /\ start'[s].name = start[s].name /\ start'[s].kept = start[s].kept /\ start'[s].pc = "forgetting"
          /\ \A q \in Starts \ {s} : start'[q] = start[q]
      BY <1>13, <1>0 DEF Record, Goto, IdleStart, StartRecs
    <2>5. row' = row /\ minted' = minted
      BY <1>13 DEF Record
    <2>6. \A m \in Names : PutBackPending(m)' <=> PutBackPending(m)
      BY <1>13, <1>0 DEF Record, PutBackPending, PutBacks, LetGo
    <2>7. FreeIsFree'
      BY <2>1, <2>2, <2>3, <2>4, <2>5, <2>6, <1>0 DEF Tokens, FreeIsFree
    <2>8. LiveIsMinted'
      BY <2>1, <2>2, <2>3, <2>4, <2>5, <2>6, <1>0 DEF Tokens, LiveIsMinted
    <2>9. HeldOnce'
      BY <2>1, <2>2, <2>3, <2>4, <2>5, <2>6, <1>0 DEF Tokens, HeldOnce
    <2>10. OneHolder'
      BY <2>1, <2>2, <2>3, <2>4, <2>5, <2>6, <1>0 DEF Tokens, OneHolder
    <2>11. PutBackIsFree'
      BY <2>1, <2>2, <2>3, <2>4, <2>5, <2>6, <1>0 DEF Tokens, PutBackIsFree, HeldOnce, OneHolder, UnrecordedHasNoRecord
    <2>12. UnrecordedHasNoRecord'
      BY <2>1, <2>2, <2>3, <2>4, <2>5, <2>6, <1>0 DEF Tokens, UnrecordedHasNoRecord, HeldOnce, OneHolder, Unrecorded, Registered
    <2> QED
      BY <2>3, <2>7, <2>8, <2>9, <2>10, <2>11, <2>12 DEF Tokens
  <1>14. CASE RecordFails(s)
    <2>1. /\ start[s].name \in Names
          /\ start[s].pc \in {"checking", "recording"}
          /\ registry' \in {registry, [registry EXCEPT ![start[s].user] = start[s].name]}
      BY <1>14, <1>0 DEF RecordFails, At, MayHaveLanded
    <2>2. ~Registered(start[s].name)
      BY <2>1 DEF Tokens, UnrecordedHasNoRecord, Unrecorded
    <2>3. /\ \A m \in Names : Registered(m)' => Registered(m) \/ m = start[s].name
          /\ OneRecord'
      BY <2>1, <2>2, <1>0, RegistryGains DEF Tokens
    <2>4. /\ start'[s].name = NoName /\ start'[s].kept = {} /\ start'[s].pc = "idle"
          /\ \A q \in Starts \ {s} : start'[q] = start[q]
      BY <1>14, <1>0 DEF RecordFails, Goto, IdleStart, StartRecs
    <2>5. row' = row /\ minted' = minted
      BY <1>14 DEF RecordFails
    <2>6. \A m \in Names : PutBackPending(m)' <=> PutBackPending(m) \/ m \in start[s].kept
      BY <1>14, <1>0 DEF RecordFails, PutBackPending, PutBacks, LetGo
    <2>7. FreeIsFree'
      BY <2>1, <2>2, <2>3, <2>4, <2>5, <2>6, <1>0 DEF Tokens, FreeIsFree
    <2>8. LiveIsMinted'
      BY <2>1, <2>2, <2>3, <2>4, <2>5, <2>6, <1>0 DEF Tokens, LiveIsMinted
    <2>9. HeldOnce'
      BY <2>1, <2>2, <2>3, <2>4, <2>5, <2>6, <1>0 DEF Tokens, HeldOnce
    <2>10. OneHolder'
      BY <2>1, <2>2, <2>3, <2>4, <2>5, <2>6, <1>0 DEF Tokens, OneHolder
    <2>11. PutBackIsFree'
      BY <2>1, <2>2, <2>3, <2>4, <2>5, <2>6, <1>0 DEF Tokens, PutBackIsFree, HeldOnce, OneHolder, UnrecordedHasNoRecord
    <2>12. UnrecordedHasNoRecord'
      BY <2>1, <2>2, <2>3, <2>4, <2>5, <2>6, <1>0 DEF Tokens, UnrecordedHasNoRecord, HeldOnce, OneHolder, Unrecorded, Registered
    <2> QED
      BY <2>3, <2>7, <2>8, <2>9, <2>10, <2>11, <2>12 DEF Tokens
  <1>15. CASE RecordOwn(s)
    <2>1. /\ start[s].name \in Names
          /\ start[s].pc \in {"recordingown"}
          /\ registry' \in {registry, [registry EXCEPT ![start[s].user] = start[s].name]}
      BY <1>15, <1>0 DEF RecordOwn, At, MayHaveLanded
    <2>2. ~Registered(start[s].name)
      BY <2>1 DEF Tokens, UnrecordedHasNoRecord, Unrecorded
    <2>3. /\ \A m \in Names : Registered(m)' => Registered(m) \/ m = start[s].name
          /\ OneRecord'
      BY <2>1, <2>2, <1>0, RegistryGains DEF Tokens
    <2>4. /\ start'[s].name = start[s].name /\ start'[s].kept = start[s].kept /\ start'[s].pc = "releasing"
          /\ \A q \in Starts \ {s} : start'[q] = start[q]
      BY <1>15, <1>0 DEF RecordOwn, Goto, IdleStart, StartRecs
    <2>5. row' = row /\ minted' = minted
      BY <1>15 DEF RecordOwn
    <2>6. \A m \in Names : PutBackPending(m)' <=> PutBackPending(m)
      BY <1>15, <1>0 DEF RecordOwn, PutBackPending, PutBacks, LetGo
    <2>7. FreeIsFree'
      BY <2>1, <2>2, <2>3, <2>4, <2>5, <2>6, <1>0 DEF Tokens, FreeIsFree
    <2>8. LiveIsMinted'
      BY <2>1, <2>2, <2>3, <2>4, <2>5, <2>6, <1>0 DEF Tokens, LiveIsMinted
    <2>9. HeldOnce'
      BY <2>1, <2>2, <2>3, <2>4, <2>5, <2>6, <1>0 DEF Tokens, HeldOnce
    <2>10. OneHolder'
      BY <2>1, <2>2, <2>3, <2>4, <2>5, <2>6, <1>0 DEF Tokens, OneHolder
    <2>11. PutBackIsFree'
      BY <2>1, <2>2, <2>3, <2>4, <2>5, <2>6, <1>0 DEF Tokens, PutBackIsFree, HeldOnce, OneHolder, UnrecordedHasNoRecord
    <2>12. UnrecordedHasNoRecord'
      BY <2>1, <2>2, <2>3, <2>4, <2>5, <2>6, <1>0 DEF Tokens, UnrecordedHasNoRecord, HeldOnce, OneHolder, Unrecorded, Registered
    <2> QED
      BY <2>3, <2>7, <2>8, <2>9, <2>10, <2>11, <2>12 DEF Tokens
  <1>16. CASE RecordOwnFails(s)
    <2>1. /\ start[s].name \in Names
          /\ start[s].pc \in {"recordingown"}
          /\ registry' \in {registry, [registry EXCEPT ![start[s].user] = start[s].name]}
      BY <1>16, <1>0 DEF RecordOwnFails, At, MayHaveLanded
    <2>2. ~Registered(start[s].name)
      BY <2>1 DEF Tokens, UnrecordedHasNoRecord, Unrecorded
    <2>3. /\ \A m \in Names : Registered(m)' => Registered(m) \/ m = start[s].name
          /\ OneRecord'
      BY <2>1, <2>2, <1>0, RegistryGains DEF Tokens
    <2>4. /\ start'[s].name = start[s].name /\ start'[s].kept = start[s].kept /\ start'[s].pc = "undoing"
          /\ \A q \in Starts \ {s} : start'[q] = start[q]
      BY <1>16, <1>0 DEF RecordOwnFails, Goto, IdleStart, StartRecs
    <2>5. row' = row /\ minted' = minted
      BY <1>16 DEF RecordOwnFails
    <2>6. \A m \in Names : PutBackPending(m)' <=> PutBackPending(m)
      BY <1>16, <1>0 DEF RecordOwnFails, PutBackPending, PutBacks, LetGo
    <2>7. FreeIsFree'
      BY <2>1, <2>2, <2>3, <2>4, <2>5, <2>6, <1>0 DEF Tokens, FreeIsFree
    <2>8. LiveIsMinted'
      BY <2>1, <2>2, <2>3, <2>4, <2>5, <2>6, <1>0 DEF Tokens, LiveIsMinted
    <2>9. HeldOnce'
      BY <2>1, <2>2, <2>3, <2>4, <2>5, <2>6, <1>0 DEF Tokens, HeldOnce
    <2>10. OneHolder'
      BY <2>1, <2>2, <2>3, <2>4, <2>5, <2>6, <1>0 DEF Tokens, OneHolder
    <2>11. PutBackIsFree'
      BY <2>1, <2>2, <2>3, <2>4, <2>5, <2>6, <1>0 DEF Tokens, PutBackIsFree, HeldOnce, OneHolder, UnrecordedHasNoRecord
    <2>12. UnrecordedHasNoRecord'
      BY <2>1, <2>2, <2>3, <2>4, <2>5, <2>6, <1>0 DEF Tokens, UnrecordedHasNoRecord, HeldOnce, OneHolder, Unrecorded, Registered
    <2> QED
      BY <2>3, <2>7, <2>8, <2>9, <2>10, <2>11, <2>12 DEF Tokens
  <1>17. ASSUME NEW n \in Fresh, HoldCreate(s), Try(Inserted(n, 1, "claimed")),
                minted' = minted \union {n},
                start' = [start EXCEPT ![s].pc = "creating", ![s].name = n]
         PROVE  Tokens'
    <2>1. n \in Names /\ n \notin minted /\ start[s].name = NoName
      BY <1>17, <1>0 DEF Fresh, HoldCreate, At
    <2>2. ~Registered(n) /\ ~PutBackPending(n) /\ \A q \in Starts : n # start[q].name /\ n \notin start[q].kept
      BY <2>1 DEF Tokens, FreeIsFree
    <2>3. /\ start'[s].name = n /\ start'[s].kept = start[s].kept /\ start'[s].pc = "creating"
          /\ \A q \in Starts \ {s} : start'[q] = start[q]
      BY <1>17, <1>0 DEF StartRecs
    <2>4. /\ registry' = registry
          /\ \A m : Registered(m)' <=> Registered(m)
          /\ \A m : PutBackPending(m)' <=> PutBackPending(m)
      BY <1>17 DEF HoldCreate, Registered, PutBackPending
    <2>5. /\ \A m \in Names \ {n} : row'[m].st = row[m].st
          /\ row'[n].st \in {"claimed", row[n].st} /\ minted' = minted \union {n}
          /\ row[n].st \notin {"filling", "ready", "claimed"}
      BY <1>17, <2>1, RowsLoosen DEF Try, Tokens, LiveIsMinted
    <2>6. FreeIsFree'
      BY <2>1, <2>2, <2>3, <2>4, <2>5, <1>0 DEF Tokens, FreeIsFree
    <2>7. LiveIsMinted'
      BY <2>1, <2>2, <2>3, <2>4, <2>5, <1>0 DEF Tokens, LiveIsMinted
    <2>8. HeldOnce'
      BY <2>1, <2>2, <2>3, <2>4, <2>5, <1>0 DEF Tokens, HeldOnce
    <2>9. OneHolder'
      BY <2>1, <2>2, <2>3, <2>4, <2>5, <1>0 DEF Tokens, OneHolder
    <2>10. PutBackIsFree'
      BY <2>1, <2>2, <2>3, <2>4, <2>5, <1>0 DEF Tokens, PutBackIsFree
    <2>11. UnrecordedHasNoRecord'
      BY <2>1, <2>2, <2>3, <2>4, <2>5, <1>0 DEF Tokens, UnrecordedHasNoRecord, Unrecorded
    <2>12. OneRecord'
      BY <2>1, <2>2, <2>3, <2>4, <2>5, <1>0 DEF Tokens, OneRecord
    <2> QED
      BY <2>6, <2>7, <2>8, <2>9, <2>10, <2>11, <2>12 DEF Tokens
  <1> QED
    BY <1>1, <1>2, <1>3, <1>4, <1>5, <1>6, <1>7, <1>8, <1>9, <1>10, <1>11, <1>12, <1>13, <1>14, <1>15, <1>16, <1>17 DEF StartStep, Claim, HoldCreate

\* A step that leaves the records, the starts and the put-backs as they are.
LEMMA LedgerStepKeepsTokens ==
    ASSUME TypeOK, Named, Tokens, NoLooserRow, minted' = minted, registry' = registry,
           start' = start, \A n \in Names : PutBackPending(n)' => PutBackPending(n)
    PROVE  Tokens'
  BY TokensOnlyGo DEF TypeOK

LEMMA FillTokens ==
    ASSUME TypeOK, Named, Tokens, NEW f \in Fills, FillStep(f) \/ FillGivenUp(f) \/ FillDies(f)
    PROVE  Tokens'
  <1>0. /\ row \in Ledger
        /\ fill[f].pc # "idle" => fill[f].name \in Names
    BY DEF TypeOK, Named, FillRecs
  <1>1. ASSUME NEW n \in Fresh, FillBegin(f), row' = Inserted(n, 1, "filling"),
               minted' = minted \union {n}
        PROVE  Tokens'
    <2>1. n \in Names /\ n \notin minted
      BY <1>1 DEF Fresh
    <2>2. /\ start' = start /\ registry' = registry
          /\ \A m : /\ PutBackPending(m)' <=> PutBackPending(m)
                    /\ Registered(m)' <=> Registered(m)
      BY <1>1 DEF FillBegin, Registered, PutBackPending
    <2>3. \A m \in Names : row'[m].st = IF m = n THEN "filling" ELSE row[m].st
      BY <1>1, <2>1, RowsLoosen
    <2>4. FreeIsFree'
      BY <1>1, <2>1, <2>2, <2>3 DEF Tokens, FreeIsFree
    <2>5. LiveIsMinted'
      BY <1>1, <2>1, <2>2, <2>3 DEF Tokens, LiveIsMinted
    <2>6. HeldOnce'
      BY <1>1, <2>1, <2>2, <2>3 DEF Tokens, HeldOnce
    <2>7. OneHolder'
      BY <1>1, <2>1, <2>2, <2>3 DEF Tokens, OneHolder
    <2>8. PutBackIsFree'
      BY <1>1, <2>1, <2>2, <2>3 DEF Tokens, PutBackIsFree
    <2>9. UnrecordedHasNoRecord'
      BY <1>1, <2>1, <2>2, <2>3 DEF Tokens, UnrecordedHasNoRecord, Unrecorded
    <2>10. OneRecord'
      BY <1>1, <2>1, <2>2, <2>3 DEF Tokens, OneRecord
    <2> QED
      BY <2>4, <2>5, <2>6, <2>7, <2>8, <2>9, <2>10 DEF Tokens
  <1>2. CASE FillTurn(f)
    <2>1. NoLooserRow
      BY <1>2, <1>0, RowsLoosen DEF FillTurn, NoLooserRow, Move, Holds, FillAt, RowStates
    <2> QED
      BY <2>1, <1>2, LedgerStepKeepsTokens DEF FillTurn, PutBackPending
  <1>3. CASE FillCreated(f)
    <2>1. NoLooserRow
      BY <1>3, <1>0 DEF FillCreated, NoLooserRow
    <2> QED
      BY <2>1, <1>3, LedgerStepKeepsTokens DEF FillCreated, PutBackPending
  <1>4. CASE FillCreateFails(f)
    <2>1. NoLooserRow
      BY <1>4, <1>0 DEF FillCreateFails, NoLooserRow
    <2> QED
      BY <2>1, <1>4, LedgerStepKeepsTokens DEF FillCreateFails, PutBackPending
  <1>5. CASE FillFailedRetires(f)
    <2>1. NoLooserRow
      BY <1>5, <1>0, RowsLoosen DEF FillFailedRetires, NoLooserRow, Move, Holds, FillAt, RowStates
    <2> QED
      BY <2>1, <1>5, LedgerStepKeepsTokens DEF FillFailedRetires, PutBackPending
  <1>6. CASE FillHolds(f)
    <2>1. NoLooserRow
      BY <1>6, <1>0, RowsLoosen DEF FillHolds, NoLooserRow, FillAt, RowStates
    <2> QED
      BY <2>1, <1>6, LedgerStepKeepsTokens DEF FillHolds, PutBackPending
  <1>7. CASE FillAnswered(f)
    <2>1. NoLooserRow
      BY <1>7, <1>0, RowsLoosen DEF FillAnswered, NoLooserRow, Move, Holds, FillAt, RowStates
    <2> QED
      BY <2>1, <1>7, LedgerStepKeepsTokens DEF FillAnswered, PutBackPending
  <1>8. CASE FillSilent(f)
    <2>1. NoLooserRow
      BY <1>8, <1>0 DEF FillSilent, NoLooserRow
    <2> QED
      BY <2>1, <1>8, LedgerStepKeepsTokens DEF FillSilent, PutBackPending
  <1>9. CASE DiscardRetires(f)
    <2>1. NoLooserRow
      BY <1>9, <1>0, RowsLoosen DEF DiscardRetires, NoLooserRow, Move, Holds, FillAt, RowStates
    <2> QED
      BY <2>1, <1>9, LedgerStepKeepsTokens DEF DiscardRetires, PutBackPending
  <1>10. CASE DiscardDeletes(f)
    <2>1. NoLooserRow
      BY <1>10, <1>0 DEF DiscardDeletes, NoLooserRow
    <2> QED
      BY <2>1, <1>10, LedgerStepKeepsTokens DEF DiscardDeletes, PutBackPending
  <1>11. CASE FillForgets(f)
    <2>1. NoLooserRow
      BY <1>11, <1>0, RowsLoosen DEF FillForgets, NoLooserRow, FillAt, RowStates
    <2> QED
      BY <2>1, <1>11, LedgerStepKeepsTokens DEF FillForgets, PutBackPending
  <1>12. CASE FillGivenUp(f)
    <2>1. NoLooserRow
      BY <1>12, <1>0, RowsLoosen DEF FillGivenUp, NoLooserRow, Try, FillAt, RowStates
    <2> QED
      BY <2>1, <1>12, LedgerStepKeepsTokens DEF FillGivenUp, PutBackPending
  <1>13. CASE FillDies(f)
    <2>1. NoLooserRow
      BY <1>13, <1>0 DEF FillDies, NoLooserRow
    <2> QED
      BY <2>1, <1>13, LedgerStepKeepsTokens DEF FillDies, PutBackPending
  <1> QED
    BY <1>1, <1>2, <1>3, <1>4, <1>5, <1>6, <1>7, <1>8, <1>9, <1>10, <1>11, <1>12, <1>13 DEF FillStep, FillBegin

LEMMA TaskTokens ==
    ASSUME TypeOK, Named, Tokens, NEW t \in tasks, TaskStep(t) \/ TaskDies(t)
    PROVE  Tokens'
  <1>0. row \in Ledger /\ t \in Tasks /\ t.name \in Names
    BY DEF TypeOK, Tasks
  <1>1. CASE TaskRetires(t)
    <2>1. NoLooserRow
      BY <1>1, <1>0, RowsLoosen DEF TaskRetires, NoLooserRow, Try, Holds, RowStates
    <2>2. \A n \in Names : PutBackPending(n)' => PutBackPending(n)
      BY <1>1, <1>0 DEF TaskRetires, PutBackPending, Becomes, Then, Tasks
    <2> QED
      BY <2>1, <2>2, <1>1, LedgerStepKeepsTokens DEF TaskRetires
  <1>2. CASE TaskDeletes(t)
    <2>1. NoLooserRow
      BY <1>2, <1>0 DEF TaskDeletes, NoLooserRow
    <2>2. \A n \in Names : PutBackPending(n)' => PutBackPending(n)
      BY <1>2, <1>0 DEF TaskDeletes, PutBackPending, Becomes, Then, Tasks
    <2> QED
      BY <2>1, <2>2, <1>2, LedgerStepKeepsTokens DEF TaskDeletes
  <1>3. CASE TaskForgets(t)
    <2>1. NoLooserRow
      BY <1>3, <1>0, RowsLoosen DEF TaskForgets, NoLooserRow, Try, Holds, RowStates
    <2>2. \A n \in Names : PutBackPending(n)' => PutBackPending(n)
      BY <1>3, <1>0 DEF TaskForgets, PutBackPending, Becomes, Then, Tasks
    <2> QED
      BY <2>1, <2>2, <1>3, LedgerStepKeepsTokens DEF TaskForgets
  <1>4. CASE TaskDies(t)
    <2>1. NoLooserRow
      BY <1>4, <1>0 DEF TaskDies, NoLooserRow
    <2>2. \A n \in Names : PutBackPending(n)' => PutBackPending(n)
      BY <1>4, <1>0 DEF TaskDies, PutBackPending, Becomes, Then, Tasks
    <2> QED
      BY <2>1, <2>2, <1>4, LedgerStepKeepsTokens DEF TaskDies
  <1>5. CASE TaskPutsBack(t)
    <2>1. /\ t = [do |-> "putback", name |-> t.name] /\ PutBackPending(t.name)
      BY <1>0, <1>5 DEF TaskPutsBack, Tasks, PutBackPending
    <2>2. /\ start' = start /\ registry' = registry /\ minted' = minted
          /\ \A m : Registered(m)' <=> Registered(m)
          /\ \A m : PutBackPending(m)' => PutBackPending(m) /\ m # t.name
      BY <1>5, <2>1 DEF TaskPutsBack, Becomes, Registered, PutBackPending
    <2>3. \A m \in Names : \/ row'[m].st = row[m].st
                           \/ m = t.name /\ row[m].st = "claimed" /\ row'[m].st = "ready"
      BY <1>5, <1>0, RowsLoosen DEF TaskPutsBack, Try, Holds, RowStates
    <2>4. FreeIsFree'
      BY <1>0, <2>1, <2>2, <2>3 DEF Tokens, FreeIsFree, PutBackIsFree, LiveIsMinted
    <2>5. LiveIsMinted'
      BY <1>0, <2>1, <2>2, <2>3 DEF Tokens, LiveIsMinted
    <2>6. HeldOnce'
      BY <1>0, <2>1, <2>2, <2>3 DEF Tokens, HeldOnce
    <2>7. OneHolder'
      BY <1>0, <2>1, <2>2, <2>3 DEF Tokens, OneHolder
    <2>8. PutBackIsFree'
      BY <1>0, <2>1, <2>2, <2>3 DEF Tokens, PutBackIsFree
    <2>9. UnrecordedHasNoRecord'
      BY <1>0, <2>1, <2>2, <2>3 DEF Tokens, UnrecordedHasNoRecord, Unrecorded
    <2>10. OneRecord'
      BY <1>0, <2>1, <2>2, <2>3 DEF Tokens, OneRecord
    <2> QED
      BY <2>4, <2>5, <2>6, <2>7, <2>8, <2>9, <2>10 DEF Tokens
  <1> QED
    BY <1>1, <1>2, <1>3, <1>4, <1>5 DEF TaskStep

LEMMA PassTokens ==
    ASSUME TypeOK, Named, Tokens, PassStep \/ PassDies
    PROVE  Tokens'
  <1>0. row \in Ledger /\ \A n \in Names : pass.gen[n] \in {1, 2}
    BY DEF TypeOK, PassRecs
  <1>1. CASE PassBegin
    BY <1>1, LedgerStepKeepsTokens DEF PassBegin, NoLooserRow, PutBackPending
  <1>2. CASE PassReadsRegistry
    BY <1>2, LedgerStepKeepsTokens DEF PassReadsRegistry, NoLooserRow, PutBackPending
  <1>3. CASE PassReadsDebts
    BY <1>3, LedgerStepKeepsTokens DEF PassReadsDebts, NoLooserRow, PutBackPending
  <1>4. CASE PassEnds
    BY <1>4, LedgerStepKeepsTokens DEF PassEnds, NoLooserRow, PutBackPending
  <1>5. CASE PassDies
    BY <1>5, LedgerStepKeepsTokens DEF PassDies, NoLooserRow, PutBackPending
  <1>6. ASSUME NEW n \in Names, PassForgetsHeld(n) PROVE Tokens'
    <2>1. NoLooserRow
      <3>1. row' = Forgotten(n, pass.gen[n])
        BY <1>6 DEF PassForgetsHeld
      <3> QED
        BY <3>1, <1>0, RowsLoosen DEF NoLooserRow
    <2> QED
      BY <2>1, <1>6, LedgerStepKeepsTokens DEF PassForgetsHeld, PutBackPending
  <1>7. ASSUME NEW n \in Names, PassRetires(n) PROVE Tokens'
    <2>1. NoLooserRow
      <3>1. row' \in {row, Moved(n, "retiring")}
        BY <1>7 DEF PassRetires, Move
      <3> QED
        BY <3>1, <1>0, RowsLoosen DEF NoLooserRow, RowStates
    <2> QED
      BY <2>1, <1>7, LedgerStepKeepsTokens DEF PassRetires, PutBackPending
  <1>8. ASSUME NEW n \in Names, PassDeletes(n) PROVE Tokens'
    <2>1. NoLooserRow
      BY <1>8, <1>0 DEF PassDeletes, NoLooserRow
    <2> QED
      BY <2>1, <1>8, LedgerStepKeepsTokens DEF PassDeletes, PutBackPending
  <1>9. ASSUME NEW n \in Names, PassRefused(n) PROVE Tokens'
    <2>1. NoLooserRow
      BY <1>9, <1>0 DEF PassRefused, NoLooserRow
    <2> QED
      BY <2>1, <1>9, LedgerStepKeepsTokens DEF PassRefused, PutBackPending
  <1>10. ASSUME NEW n \in Names, PassForgets(n) PROVE Tokens'
    <2>1. NoLooserRow
      BY <1>10, <1>0, RowsLoosen DEF PassForgets, NoLooserRow
    <2> QED
      BY <2>1, <1>10, LedgerStepKeepsTokens DEF PassForgets, PutBackPending
  <1> QED
    BY <1>1, <1>2, <1>3, <1>4, <1>5, <1>6, <1>7, <1>8, <1>9, <1>10 DEF PassStep, PassWork

LEMMA ElsewhereTokens ==
    ASSUME TypeOK, Named, Tokens, Elsewhere
    PROVE  Tokens'
  <1>0. row \in Ledger /\ start \in [Starts -> StartRecs]
        /\ registry \in [Users -> Names \union {NoName}]
    BY DEF TypeOK
  <1>1. ASSUME NEW s \in Starts, Leave(s) \/ Owe(s) PROVE Tokens'
    <2>1. \A r \in Starts :
              /\ start'[r].name \in {start[r].name, NoName}
              /\ start'[r].kept \subseteq start[r].kept
              /\ start'[r].pc \in Unrecorded =>
                    start[r].pc \in Unrecorded /\ start'[r].name = start[r].name
      BY <1>1, <1>0 DEF Leave, Owe, IdleStart, StartRecs, Unrecorded
    <2> QED
      BY <2>1, <1>1, TokensOnlyGo DEF Leave, Owe, NoLooserRow, PutBackPending
  <1>2. ASSUME NEW u \in Users, ClearRecord(u) \/ Reap(u) PROVE Tokens'
    <2>1. \A v \in Users : registry'[v] \in {registry[v], NoName}
      BY <1>2, <1>0 DEF ClearRecord, Reap
    <2>2. start' = start /\ minted' = minted /\ NoLooserRow
      BY <1>2 DEF ClearRecord, Reap, NoLooserRow
    <2>3. \A n \in Names : PutBackPending(n)' => PutBackPending(n)
      BY <1>2 DEF ClearRecord, Reap, PutBackPending
    <2> QED
      BY <2>1, <2>2, <2>3, TokensOnlyGo
  <1>3. ASSUME NEW n \in Names, Settle(n) \/ Landing(n) PROVE Tokens'
    BY <1>3, LedgerStepKeepsTokens DEF Settle, Landing, NoLooserRow, PutBackPending
  <1>4. ASSUME NEW n \in Names, GrowOld(n) PROVE Tokens'
    <2>1. NoLooserRow
      BY <1>4, <1>0 DEF GrowOld, NoLooserRow, Ledger, Rows
    <2> QED
      BY <2>1, <1>4, LedgerStepKeepsTokens DEF GrowOld, PutBackPending
  <1>5. CASE NewImage
    BY <1>5, LedgerStepKeepsTokens DEF NewImage, NoLooserRow, PutBackPending
  <1> QED
    BY <1>1, <1>2, <1>3, <1>4, <1>5 DEF Elsewhere

LEMMA InitTokens == Init => Tokens
  <1> SUFFICES ASSUME Init PROVE Tokens
    OBVIOUS
  <1>1. \A s \in Starts : start[s].name = NoName /\ start[s].kept = {} /\ start[s].pc = "idle"
    BY DEF Init
  <1> QED
    BY <1>1, PoolAssumption DEF Init, Tokens, FreeIsFree, LiveIsMinted, HeldOnce, OneHolder,
       PutBackIsFree, UnrecordedHasNoRecord, OneRecord, PutBackPending, Registered, Unrecorded

LEMMA NextTokens == TypeOK /\ Named /\ Tokens /\ [Next]_vars => Tokens'
  <1> SUFFICES ASSUME TypeOK, Named, Tokens, [Next]_vars PROVE Tokens'
    OBVIOUS
  <1>1. CASE UNCHANGED vars
    BY <1>1, LedgerStepKeepsTokens DEF vars, NoLooserRow, PutBackPending
  <1>2. CASE Next
    BY <1>2, StartTokens, FillTokens, TaskTokens, PassTokens, ElsewhereTokens DEF Next
  <1> QED
    BY <1>1, <1>2

\* No two starts ever have one container and no two people's records name one,
\* whatever dies, times out, is refused or is cancelled, and in whatever order
\* starts, fills, detached tasks and the pass run their statements.
THEOREM OneContainerOneHolder == Spec => []NoTwoHolders
  <1>1. Init => TypeOK /\ Named /\ Tokens
    BY InitTypes, InitTokens
  <1>2. TypeOK /\ Named /\ Tokens /\ [Next]_vars => (TypeOK /\ Named /\ Tokens)'
    BY NextTypes, NextTokens
  <1>3. TypeOK /\ Tokens => NoTwoHolders
    <2> SUFFICES ASSUME TypeOK, Tokens PROVE NoTwoHolders
      OBVIOUS
    <2>1. ASSUME NEW s \in Starts, NEW t \in Starts, s # t PROVE Hold(s) \intersect Hold(t) = {}
      BY <2>1 DEF Tokens, OneHolder, Hold
    <2> QED
      BY <2>1 DEF Tokens, OneRecord, NoTwoHolders
  <1> QED
    BY <1>1, <1>2, <1>3, PTL DEF Spec

-----------------------------------------------------------------------------
\* Containers in use stand.

\* A start or a put-back may yet make use of the container: it has no record.
Coming(n) ==
    \/ PutBackPending(n)
    \/ \E s \in Starts : \/ n \in start[s].kept
                         \/ start[s].name = n /\ start[s].pc \in Unrecorded

\* From the registry write to the end of the person's use.
Recorded == {"forgetting", "releasing", "using"}
Handed(n) == \E s \in Starts : start[s].name = n /\ start[s].pc \in Recorded

\* A name once closed, or spent, is so for ever: no claim can take it again.
Closed(n) == n \in minted /\ row[n].st \notin {"filling", "ready"} /\ ~Coming(n)
Spent(n) == Closed(n) /\ ~Handed(n) /\ n \notin owed

RecordedStands ==
    \A s \in Starts :
        /\ start[s].pc \in {"recording", "recordingown"} => start[s].name \in cloud
        /\ start[s].pc \in Recorded =>
              /\ registry[start[s].user] = start[s].name
              /\ start[s].name \in cloud \ owed

OwedIsApart ==
    \A n \in owed : n \in cloud /\ Closed(n) /\ \A s \in Starts : start[s].name # n

\* The sweep's clock does not run under a start.
OldIsClosed == \A n \in Names : row[n].st = "claimed" /\ row[n].old => ~Coming(n)

RetiringIsSpent == \A n \in Names : row[n].st = "retiring" => Spent(n)

FillsAreApart ==
    \A f \in Fills : fill[f].pc # "idle" =>
        /\ fill[f].name \in minted /\ row[fill[f].name].st \notin {"ready", "claimed"}
        /\ fill[f].name \notin owed /\ ~PutBackPending(fill[f].name)
        /\ \A s \in Starts : start[s].name # fill[f].name /\ fill[f].name \notin start[s].kept
        /\ \A g \in Fills : g # f => fill[g].name # fill[f].name

TasksAreSpent == \A t \in tasks : t.do # "putback" => Spent(t.name)

\* What a pass still works from, however old its reading is.
ListIsSound ==
    \A n \in Names :
        /\ pass.todo[n] \in {"delete", "forget"} => Spent(n)
        /\ pass.todo[n] = "judge claimed" =>
              /\ Closed(n)
              /\ pass.pc = "debts" /\ n \notin pass.held => ~Registered(n)
              /\ pass.pc = "work" /\ n \notin pass.held => Spent(n)

Stands == /\ RecordedStands /\ OwedIsApart /\ OldIsClosed /\ RetiringIsSpent
          /\ FillsAreApart /\ TasksAreSpent /\ ListIsSound

\* A name no container was given, or whose row a claim may take, is nobody's.
LEMMA FreeIsUntaken ==
    ASSUME TypeOK, Named, Tokens, OwedIsApart, NEW n \in Names,
           n \notin minted \/ row[n].st \in {"filling", "ready"}
    PROVE  ~Coming(n) /\ ~Handed(n) /\ n \notin owed /\ ~Registered(n)
  BY DEF Tokens, FreeIsFree, Coming, Handed, OwedIsApart, Closed

\* What any step of a start does to the state.
NewlyIts(s, m) ==
    /\ start[s].name = NoName /\ start'[s].kept = start[s].kept
    /\ start'[s].pc \in {"checking", "creating"}
    /\ row[m].st = "ready" \/ (m \notin minted /\ m \in minted')
StartsAlone(s) ==
    /\ \A r \in Starts : r # s => start'[r] = start[r]
    /\ owed' = owed /\ fill' = fill /\ pass' = pass /\ minted \subseteq minted'
StartsName(s) ==
    /\ \/ start'[s].name = NoName
       \/ start'[s].name = start[s].name
       \/ start'[s].name \in Names /\ NewlyIts(s, start'[s].name)
    /\ start'[s].kept \subseteq start[s].kept \union
            (IF start[s].pc = "checking" THEN {start[s].name} ELSE {})
    /\ start'[s].pc \in Unrecorded =>
            \/ start[s].pc \in Unrecorded /\ start'[s].name = start[s].name
            \/ NewlyIts(s, start'[s].name)
    /\ start'[s].pc \in {"recording", "recordingown"} =>
            start'[s].name = start[s].name /\ start'[s].name \in cloud'
    /\ start'[s].pc \in Recorded =>
            /\ start'[s].name = start[s].name /\ start'[s].user = start[s].user
            /\ \/ start[s].pc \in {"recording", "recordingown"}
                  /\ registry'[start[s].user] = start[s].name
               \/ start[s].pc \in Recorded /\ registry' = registry
StartsRow(s) ==
    \A n \in Names :
        \/ row'[n] = row[n]
        \/ /\ row'[n].st = "claimed" /\ ~row'[n].old
           /\ n = start'[s].name /\ NewlyIts(s, n)
        \/ /\ row'[n].st = "none" /\ n = start[s].name
           /\ start[s].pc \in {"forgetting", "releasing", "dropping"}
StartsRecord(s) ==
    \A u \in Users :
        \/ registry'[u] = registry[u]
        \/ /\ registry[u] = NoName /\ u = start[s].user /\ registry'[u] = start[s].name
           /\ start[s].pc \in {"recording", "recordingown"}
StartsCloud(s) ==
    \A n \in cloud : n \in cloud' \/ (n = start[s].name /\ start'[s].pc \in {"dropping", "idle"})
StartsTasks(s) ==
    /\ \A n \in Names : PutBackPending(n)' => PutBackPending(n) \/ n \in start[s].kept
    /\ \A t \in tasks' \ tasks :
            \/ t.do = "putback" /\ t.name \in start[s].kept /\ start'[s].kept = {}
            \/ /\ t = [do |-> "retire", name |-> start[s].name]
               /\ start[s].pc \in {"checking", "recording"}
               /\ start'[s].name = NoName /\ start'[s].kept \subseteq start[s].kept
StartFacts(s) == /\ StartsAlone(s) /\ StartsName(s) /\ StartsRow(s) /\ StartsRecord(s)
                 /\ StartsCloud(s) /\ StartsTasks(s)

LEMMA PutsBack ==
    ASSUME NEW K \in SUBSET Names
    PROVE  /\ \A t \in PutBacks(K) : t.do = "putback" /\ t.name \in K
           /\ \A n \in Names : [do |-> "putback", name |-> n] \in PutBacks(K) => n \in K
           /\ \A n, m \in Names : [do |-> "putback", name |-> n] \notin LetGo(m)
  <1>1. \A t \in PutBacks(K) : t.do = "putback" /\ t.name \in K
    BY DEF PutBacks
  <1>2. \A n \in Names : [do |-> "putback", name |-> n] \in PutBacks(K) => n \in K
    BY <1>1
  <1>3. ASSUME NEW n \in Names, NEW m \in Names
        PROVE  [do |-> "putback", name |-> n] \notin LetGo(m)
    <2>1. [do |-> "putback", name |-> n].do # [do |-> "retire", name |-> m].do
      OBVIOUS
    <2> QED
      BY <2>1 DEF LetGo
  <1> QED
    BY <1>1, <1>2, <1>3

LEMMA StartDoes ==
    ASSUME TypeOK, Named, NEW s \in Starts, StartStep(s) \/ StartDies(s)
    PROVE  StartFacts(s)
  <1>0. /\ start \in [Starts -> StartRecs] /\ start[s] \in StartRecs
        /\ start[s].pc \notin {"idle", "claiming", "create"} => start[s].name \in Names
        /\ start[s].name = NoName <=> start[s].pc \in {"idle", "claiming", "create"}
        /\ row \in Ledger /\ tasks \subseteq Tasks /\ NoName \notin Names
        /\ registry \in [Users -> Names \union {NoName}] /\ start[s].kept \in SUBSET Names
        /\ IdleStart(s).name = NoName /\ IdleStart(s).kept = {} /\ IdleStart(s).pc = "idle"
    BY PoolAssumption DEF TypeOK, Named, StartRecs, IdleStart
  <1> USE DEF StartFacts, StartsAlone, StartsName, StartsRow, StartsRecord, StartsCloud, StartsTasks,
              PutBackPending, Unrecorded, Recorded, At, Goto
  <1>1. ASSUME NEW u \in Users, BeginStart(s, u) PROVE StartFacts(s)
    BY <1>1, <1>0 DEF BeginStart, StartRecs
  <1>2. CASE Claim(s)
    <2>1. PICK n \in FirstChoice :
            /\ row' = Moved(n, "claimed")
            /\ start' = [start EXCEPT ![s].pc = "checking", ![s].name = n, ![s].left = @ - 1]
      BY <1>2 DEF Claim
    <2>2. n \in Names /\ row[n].st = "ready" /\ start[s].name = NoName
      BY <2>1, <1>2, <1>0, FirstChoiceInNames DEF Claim, Claimable
    <2>3. /\ start'[s].name = n /\ start'[s].pc = "checking" /\ start'[s].kept = start[s].kept
          /\ \A r \in Starts : r # s => start'[r] = start[r]
      BY <2>1, <1>0 DEF StartRecs
    <2>4. \A m \in Names : IF m = n THEN row'[m].st = "claimed" /\ ~row'[m].old ELSE row'[m] = row[m]
      BY <2>1, <2>2, <1>0 DEF Moved, Ledger, Rows
    <2> QED
      BY <2>2, <2>3, <2>4, <1>2, <1>0 DEF Claim, NewlyIts
  <1>3. CASE ClaimMiss(s)
    <2>1. StartsTasks(s)
      <3>1. tasks' = tasks \union PutBacks(start[s].kept) /\ start'[s].kept = {}
        BY <1>3, <1>0 DEF ClaimMiss, Settled
      <3> QED
        BY <3>1, <1>0, PutsBack
    <2>2. start'[s] = Settled(s, "create") /\ \A r \in Starts : r # s => start'[r] = start[r]
      BY <1>3, <1>0 DEF ClaimMiss
    <2> QED
      BY <2>1, <2>2, <1>3, <1>0 DEF ClaimMiss, Settled
  <1>4. CASE CheckFit(s)
    BY <1>4, <1>0 DEF CheckFit, StartRecs
  <1>5. CASE CheckKeep(s)
    BY <1>5, <1>0 DEF CheckKeep, StartRecs
  <1>6. CASE CheckUnfit(s)
    BY <1>6, <1>0 DEF CheckUnfit, StartRecs, LetGo
  <1>7. CASE Record(s)
    BY <1>7, <1>0 DEF Record, StartRecs
  <1>8. CASE RecordFails(s)
    <2>1. StartsRecord(s)
      BY <1>8, <1>0 DEF RecordFails, MayHaveLanded
    <2>2. StartsTasks(s)
      <3>1. /\ tasks' = tasks \union LetGo(start[s].name) \union PutBacks(start[s].kept)
            /\ start'[s].kept = {} /\ start'[s].name = NoName
            /\ start[s].pc \in {"checking", "recording"}
        BY <1>8, <1>0 DEF RecordFails
      <3>2. \A t \in LetGo(start[s].name) : t = [do |-> "retire", name |-> start[s].name]
        BY DEF LetGo
      <3>3. \A n \in Names : PutBackPending(n)' => PutBackPending(n) \/ n \in start[s].kept
        BY <3>1, <1>0, PutsBack
      <3>4. ASSUME NEW t \in tasks' \ tasks, t \in PutBacks(start[s].kept)
            PROVE  t.do = "putback" /\ t.name \in start[s].kept /\ start'[s].kept = {}
        BY <3>1, <3>4, <1>0, PutsBack
      <3> QED
        BY <3>1, <3>2, <3>3, <3>4
    <2>3. start'[s] = IdleStart(s) /\ \A r \in Starts : r # s => start'[r] = start[r]
      BY <1>8, <1>0 DEF RecordFails
    <2> QED
      BY <2>1, <2>2, <2>3, <1>8, <1>0 DEF RecordFails
  <1>9. CASE ForgetClaim(s)
    <2>1. StartsRow(s)
      BY <1>9, <1>0 DEF ForgetClaim, Try, Forgotten, Ledger, Rows
    <2>2. StartsTasks(s)
      <3>1. tasks' = tasks \union PutBacks(start[s].kept) /\ start'[s].kept = {}
        BY <1>9, <1>0 DEF ForgetClaim, Settled
      <3> QED
        BY <3>1, <1>0, PutsBack
    <2>3. start'[s] = Settled(s, "using") /\ \A r \in Starts : r # s => start'[r] = start[r]
      BY <1>9, <1>0 DEF ForgetClaim
    <2> QED
      BY <2>1, <2>2, <2>3, <1>9, <1>0 DEF ForgetClaim, Settled
  <1>10. CASE HoldCreate(s)
    <2>1. PICK n \in Fresh :
            /\ minted' = minted \union {n}
            /\ Try(Inserted(n, 1, "claimed"))
            /\ start' = [start EXCEPT ![s].pc = "creating", ![s].name = n]
      BY <1>10 DEF HoldCreate
    <2>2. n \in Names /\ n \notin minted /\ start[s].name = NoName
      BY <2>1, <1>10, <1>0 DEF HoldCreate, Fresh
    <2>3. /\ start'[s].name = n /\ start'[s].pc = "creating" /\ start'[s].kept = start[s].kept
          /\ \A r \in Starts : r # s => start'[r] = start[r]
      BY <2>1, <1>0 DEF StartRecs
    <2>4. \A m \in Names :
            IF m = n THEN row'[m] = row[m] \/ (row'[m].st = "claimed" /\ ~row'[m].old)
                     ELSE row'[m] = row[m]
      BY <2>1, <2>2, <1>0 DEF Try, Inserted, Ledger
    <2> QED
      BY <2>1, <2>2, <2>3, <2>4, <1>10, <1>0 DEF HoldCreate, NewlyIts
  <1>11. CASE CreateOk(s)
    BY <1>11, <1>0 DEF CreateOk, StartRecs
  <1>12. CASE CreateFails(s)
    BY <1>12, <1>0 DEF CreateFails, StartRecs
  <1>13. CASE RecordOwn(s)
    BY <1>13, <1>0 DEF RecordOwn, StartRecs
  <1>14. CASE RecordOwnFails(s)
    BY <1>14, <1>0 DEF RecordOwnFails, MayHaveLanded, StartRecs
  <1>15. CASE Undo(s)
    BY <1>15, <1>0 DEF Undo, StartRecs
  <1>16. CASE Release(s)
    <2>1. StartsRow(s)
      BY <1>16, <1>0 DEF Release, Try, Forgotten, Ledger, Rows
    <2> QED
      BY <2>1, <1>16, <1>0 DEF Release, StartRecs
  <1>17. CASE StartDies(s)
    BY <1>17, <1>0 DEF StartDies, StartRecs, Settled
  <1> QED
    BY <1>1, <1>2, <1>3, <1>4, <1>5, <1>6, <1>7, <1>8, <1>9, <1>10, <1>11, <1>12, <1>13, <1>14, <1>15, <1>16, <1>17 DEF StartStep

Lasting == \A n \in Names : (Closed(n) => Closed(n)') /\ (Spent(n) => Spent(n)')

LEMMA StartStands ==
    ASSUME TypeOK, Named, Tokens, Stands, NEW s \in Starts, StartFacts(s)
    PROVE  Stands'
  <1>0. /\ start[s].name = NoName <=> start[s].pc \in {"idle", "claiming", "create"}
        /\ \A r \in Starts : /\ start[r].name \in Names \union {NoName}
                             /\ start[r].kept \subseteq Names /\ start[r].user \in Users
                             /\ start[r].pc \in Unrecorded \union Recorded => start[r].name \in Names
        /\ NoName \notin Names /\ owed \subseteq Names /\ tasks \subseteq Tasks
        /\ \A f \in Fills : fill[f].pc # "idle" => fill[f].name \in Names
    BY PoolAssumption DEF TypeOK, Named, StartRecs, FillRecs, Unrecorded, Recorded
  <1>1. ASSUME NEW n \in Names, Closed(n) \/ n \in owed \/ \E f \in Fills : fill[f].pc # "idle" /\ fill[f].name = n
        PROVE  ~(row[n].st = "ready") /\ n \in minted
    BY <1>1 DEF Closed, Stands, OwedIsApart, FillsAreApart
  <1>2. ASSUME NEW n \in Names, row[n].st # "ready", n \in minted
        PROVE  ~NewlyIts(s, n)
    BY <1>2 DEF NewlyIts
  <1>3. ASSUME NEW n \in Names, Closed(n) PROVE Closed(n)'
    <2>1. ~NewlyIts(s, n)
      BY <1>1, <1>2, <1>3
    <2>2. n \in minted' /\ row'[n].st \notin {"filling", "ready"}
      BY <1>3 DEF Closed, StartFacts, StartsAlone, StartsRow
    <2>3. ~PutBackPending(n)'
      BY <1>3 DEF Closed, Coming, StartFacts, StartsTasks
    <2>4. ASSUME NEW r \in Starts
          PROVE  ~(start'[r].name = n /\ start'[r].pc \in Unrecorded) /\ n \notin start'[r].kept
      <3>1. CASE r # s
        BY <1>3, <3>1 DEF Closed, Coming, StartFacts, StartsAlone
      <3>2. CASE r = s
        BY <1>3, <2>1, <3>2 DEF Closed, Coming, StartFacts, StartsName, Unrecorded
      <3> QED
        BY <3>1, <3>2
    <2> QED
      BY <2>2, <2>3, <2>4 DEF Closed, Coming, Unrecorded
  <1>4. ASSUME NEW n \in Names, Spent(n) PROVE Spent(n)'
    <2>1. Closed(n)' /\ n \notin owed'
      BY <1>3, <1>4 DEF Spent, StartFacts, StartsAlone
    <2>2. ASSUME NEW r \in Starts PROVE ~(start'[r].name = n /\ start'[r].pc \in Recorded)
      <3>1. CASE r # s
        BY <1>4, <3>1 DEF Spent, Handed, StartFacts, StartsAlone
      <3>2. CASE r = s
        BY <1>4, <3>2 DEF Spent, Closed, Coming, Handed, StartFacts, StartsName, Unrecorded
      <3> QED
        BY <3>1, <3>2
    <2> QED
      BY <2>1, <2>2 DEF Spent, Handed, Recorded
  <1>5. RecordedStands'
    <2>1. ASSUME NEW r \in Starts, r # s, start[r].pc \in {"recording", "recordingown"} \union Recorded
          PROVE  start[r].name \in cloud'
      <3>1. start[r].name \in cloud /\ start[r].name \in Names
        BY <2>1, <1>0 DEF Stands, RecordedStands, Recorded, Unrecorded
      <3>2. start[s].name # start[r].name
        BY <2>1, <3>1, <1>0 DEF Tokens, OneHolder
      <3> QED
        BY <3>1, <3>2 DEF StartFacts, StartsCloud
    <2>2. ASSUME NEW r \in Starts, r # s, start[r].pc \in Recorded
          PROVE  registry'[start[r].user] = start[r].name /\ start[r].name \notin owed'
      <3>1. registry[start[r].user] = start[r].name /\ start[r].name \in Names /\ start[r].name \notin owed
        BY <2>2, <1>0 DEF Stands, RecordedStands
      <3> QED
        BY <3>1, <1>0 DEF StartFacts, StartsRecord, StartsAlone
    <2>3. start'[s].pc \in {"recording", "recordingown"} => start'[s].name \in cloud'
      BY DEF StartFacts, StartsName
    <2>4. ASSUME start'[s].pc \in Recorded
          PROVE  registry'[start'[s].user] = start'[s].name /\ start'[s].name \in cloud' \ owed'
      <3>1. /\ start[s].pc \in {"recording", "recordingown"} \union Recorded
            /\ start'[s].name = start[s].name /\ start'[s].user = start[s].user
        BY <2>4 DEF StartFacts, StartsName
      <3>2. registry'[start[s].user] = start[s].name
        BY <2>4, <3>1 DEF StartFacts, StartsName, Stands, RecordedStands
      <3>3. start[s].name \in cloud /\ start'[s].pc \notin {"dropping", "idle"}
        BY <2>4, <3>1 DEF Stands, RecordedStands, Recorded
      <3>4. start[s].name \notin owed
        BY DEF Stands, OwedIsApart
      <3> QED
        BY <3>1, <3>2, <3>3, <3>4 DEF StartFacts, StartsCloud, StartsAlone
    <2> QED
      BY <2>1, <2>2, <2>3, <2>4 DEF RecordedStands, StartFacts, StartsAlone, Recorded
  <1>6. OwedIsApart'
    <2>1. ASSUME NEW n \in owed, NEW r \in Starts PROVE start'[r].name # n
      <3>1. start[r].name # n /\ n \in Names
        BY <1>0 DEF Stands, OwedIsApart
      <3>2. ~NewlyIts(s, n)
        BY <1>1, <1>2, <3>1
      <3> QED
        BY <3>1, <3>2, <1>0 DEF StartFacts, StartsAlone, StartsName
    <2>2. ASSUME NEW n \in owed PROVE n \in cloud' /\ Closed(n)'
      BY <1>3, <1>0 DEF Stands, OwedIsApart, StartFacts, StartsCloud
    <2>3. owed' = owed
      BY DEF StartFacts, StartsAlone
    <2> QED
      BY <2>1, <2>2, <2>3 DEF OwedIsApart
  <1>7. OldIsClosed'
    <2>1. ASSUME NEW n \in Names, row'[n].st = "claimed", row'[n].old PROVE ~Coming(n)'
      <3>1. row'[n] = row[n]
        BY <2>1 DEF StartFacts, StartsRow
      <3>2. Closed(n)
        BY <2>1, <3>1 DEF Stands, OldIsClosed, Closed, Tokens, LiveIsMinted
      <3> QED
        BY <3>2, <1>3 DEF Closed
    <2> QED
      BY <2>1 DEF OldIsClosed
  <1>8. RetiringIsSpent'
    <2>1. ASSUME NEW n \in Names, row'[n].st = "retiring" PROVE Spent(n)
      BY <2>1 DEF StartFacts, StartsRow, Stands, RetiringIsSpent
    <2> QED
      BY <2>1, <1>4 DEF RetiringIsSpent
  <1>9. FillsAreApart'
    <2>1. ASSUME NEW f \in Fills, fill[f].pc # "idle", NEW n \in Names, n = fill[f].name
          PROVE  /\ n \in minted' /\ row'[n].st \notin {"ready", "claimed"} /\ n \notin owed'
                 /\ ~PutBackPending(n)'
                 /\ \A r \in Starts : start'[r].name # n /\ n \notin start'[r].kept
      <3>1. /\ n \in minted /\ row[n].st \notin {"ready", "claimed"} /\ n \notin owed
            /\ ~PutBackPending(n) /\ \A r \in Starts : start[r].name # n /\ n \notin start[r].kept
        BY <2>1 DEF Stands, FillsAreApart
      <3>2. ~NewlyIts(s, n)
        BY <3>1, <1>2
      <3>3. n \in minted' /\ row'[n].st \notin {"ready", "claimed"} /\ n \notin owed' /\ ~PutBackPending(n)'
        BY <3>1, <3>2 DEF StartFacts, StartsAlone, StartsRow, StartsTasks
      <3>4. \A r \in Starts : start'[r].name # n /\ n \notin start'[r].kept
        BY <3>1, <3>2, <1>0 DEF StartFacts, StartsAlone, StartsName
      <3> QED
        BY <3>3, <3>4
    <2>2. fill' = fill
      BY DEF StartFacts, StartsAlone
    <2> QED
      BY <2>1, <2>2, <1>0 DEF Stands, FillsAreApart, PutBackPending
  <1>10. TasksAreSpent'
    <2>1. ASSUME NEW t \in tasks' \ tasks, t.do # "putback" PROVE Spent(t.name)'
      <3>1. /\ t.name = start[s].name /\ start[s].pc \in {"checking", "recording"}
            /\ start'[s].name = NoName /\ start'[s].kept \subseteq start[s].kept
        BY <2>1 DEF StartFacts, StartsTasks
      <3>2. PICK n \in Names : n = start[s].name
        BY <3>1, <1>0 DEF Unrecorded
      <3>3. n \notin start[s].kept
        BY <3>2 DEF Tokens, HeldOnce
      <3>4. n \in minted /\ row[n].st \notin {"filling", "ready"} /\ ~PutBackPending(n)
        BY <3>2 DEF Tokens, FreeIsFree, PutBackIsFree
      <3>5. n \in minted' /\ row'[n].st \notin {"filling", "ready"} /\ ~PutBackPending(n)'
        <4>1. row'[n] = row[n]
          BY <3>1, <3>2, <1>0 DEF StartFacts, StartsRow
        <4> QED
          BY <4>1, <3>3, <3>4 DEF StartFacts, StartsAlone, StartsTasks
      <3>6. \A r \in Starts : start'[r].name # n /\ n \notin start'[r].kept
        BY <3>1, <3>3, <3>2, <1>0 DEF StartFacts, StartsAlone, Tokens, OneHolder
      <3>7. n \notin owed'
        BY <3>2 DEF Stands, OwedIsApart, StartFacts, StartsAlone
      <3> QED
        BY <3>1, <3>5, <3>6, <3>7, <3>2 DEF Spent, Closed, Coming, Handed
    <2>2. \A t \in tasks : t.name \in Names
      BY <1>0 DEF Tasks
    <2> QED
      BY <2>1, <2>2, <1>4 DEF Stands, TasksAreSpent
  <1>11. ListIsSound'
    <2>1. pass' = pass
      BY DEF StartFacts, StartsAlone
    <2>2. ASSUME NEW n \in Names, Closed(n), ~Registered(n) PROVE ~Registered(n)'
      BY <2>2 DEF Closed, Coming, Registered, StartFacts, StartsRecord, Unrecorded
    <2> QED
      BY <2>1, <2>2, <1>3, <1>4 DEF Stands, ListIsSound
  <1> QED
    BY <1>5, <1>6, <1>7, <1>8, <1>9, <1>10, <1>11 DEF Stands

\* What any step of a fill does to the state.
FillsOnly(f) ==
    /\ \A g \in Fills : g # f => fill'[g] = fill[g]
    /\ registry' = registry /\ owed' = owed /\ start' = start /\ tasks' = tasks /\ pass' = pass
    /\ minted \subseteq minted'
NewlyFilled(f, n) ==
    fill[f].pc = "idle" /\ n \in Names /\ n \in minted' \ minted /\ row'[n].st = "filling"
FillsName(f) ==
    \/ fill'[f] = IdleFill
    \/ fill[f].pc # "idle" /\ fill'[f].name = fill[f].name
    \/ NewlyFilled(f, fill'[f].name)
FillsRow(f) ==
    \A n \in Names :
        \/ row'[n] = row[n]
        \/ n = fill'[f].name /\ NewlyFilled(f, n)
        \/ /\ n = fill[f].name /\ fill[f].pc # "idle"
           /\ \/ row'[n].st \in {"retiring", "none"}
              \/ row[n].st = "filling" /\ row'[n].st = "filling"
              \/ row[n].st = "filling" /\ row'[n].st = "ready" /\ fill'[f] = IdleFill
FillsCloud(f) == \A n \in cloud : n \in cloud' \/ (n = fill[f].name /\ fill[f].pc # "idle")
FillFacts(f) == FillsOnly(f) /\ FillsName(f) /\ FillsRow(f) /\ FillsCloud(f)

\* The rows a statement about one name leaves.
LEMMA RowOf ==
    ASSUME TypeOK, NEW n \in Names, NEW m \in Names
    PROVE  /\ m # n => /\ \A to : Moved(n, to)[m] = row[m]
                       /\ \A g : Forgotten(n, g)[m] = row[m]
                       /\ HeldForDeletion(n)[m] = row[m]
                       /\ \A g, st : Inserted(n, g, st)[m] = row[m]
           /\ \A to : Moved(n, to)[n].st = to /\ ~Moved(n, to)[n].old
           /\ \A g : Forgotten(n, g)[n] = row[n] \/ Forgotten(n, g)[n].st = "none"
           /\ (HeldForDeletion(n)[n] = row[n] /\ ~NoRow(n)) \/ HeldForDeletion(n)[n].st = "retiring"
           /\ \A g, st : Inserted(n, g, st)[n].st = st /\ ~Inserted(n, g, st)[n].old
  BY DEF TypeOK, Ledger, Rows, Moved, Forgotten, HeldForDeletion, Inserted

LEMMA FillDoes ==
    ASSUME TypeOK, Named, NEW f \in Fills, FillStep(f) \/ FillGivenUp(f) \/ FillDies(f)
    PROVE  FillFacts(f)
  <1>0. /\ fill \in [Fills -> FillRecs]
        /\ fill[f].pc # "idle" => fill[f].name \in Names
    BY DEF TypeOK, Named, FillRecs
  <1> USE DEF FillFacts, FillsOnly, FillsName, FillsCloud, FillAt, FillGoto, FillEnds
  <1>1. CASE FillBegin(f)
    <2>1. PICK n \in Fresh :
            /\ minted' = minted \union {n}
            /\ row' = Inserted(n, 1, "filling")
            /\ fill' = [fill EXCEPT ![f] = [pc |-> "queued", name |-> n]]
      BY <1>1 DEF FillBegin
    <2>2. n \in Names /\ n \notin minted /\ fill'[f].name = n
      BY <2>1, <1>0 DEF Fresh
    <2>3. NewlyFilled(f, n) /\ FillsRow(f)
      BY <2>1, <2>2, <1>1, RowOf DEF FillBegin, NewlyFilled, FillsRow
    <2> QED
      BY <2>1, <2>2, <2>3, <1>1, <1>0 DEF FillBegin
  <1>2. CASE FillTurn(f)
    <2>1. FillsRow(f)
      BY <1>2, <1>0, RowOf DEF FillTurn, FillsRow, Move, Holds
    <2> QED
      BY <2>1, <1>2, <1>0 DEF FillTurn, FillRecs
  <1>3. CASE FillCreated(f)
    BY <1>3, <1>0 DEF FillCreated, FillsRow, FillRecs
  <1>4. CASE FillCreateFails(f)
    BY <1>4, <1>0 DEF FillCreateFails, FillsRow, FillRecs
  <1>5. CASE FillFailedRetires(f)
    <2>1. FillsRow(f)
      BY <1>5, <1>0, RowOf DEF FillFailedRetires, FillsRow, Move, Holds
    <2> QED
      BY <2>1, <1>5, <1>0 DEF FillFailedRetires, FillRecs
  <1>6. CASE FillHolds(f)
    <2>1. FillsRow(f)
      BY <1>6, <1>0, RowOf DEF FillHolds, FillsRow
    <2> QED
      BY <2>1, <1>6, <1>0 DEF FillHolds, FillRecs
  <1>7. CASE FillAnswered(f)
    <2>1. FillsRow(f)
      BY <1>7, <1>0, RowOf DEF FillAnswered, FillsRow, Move, Holds
    <2> QED
      BY <2>1, <1>7, <1>0 DEF FillAnswered, FillRecs
  <1>8. CASE FillSilent(f)
    BY <1>8, <1>0 DEF FillSilent, FillsRow, FillRecs
  <1>9. CASE DiscardRetires(f)
    <2>1. FillsRow(f)
      BY <1>9, <1>0, RowOf DEF DiscardRetires, FillsRow, Move, Holds
    <2> QED
      BY <2>1, <1>9, <1>0 DEF DiscardRetires, FillRecs
  <1>10. CASE DiscardDeletes(f)
    BY <1>10, <1>0 DEF DiscardDeletes, FillsRow, FillRecs
  <1>11. CASE FillForgets(f)
    <2>1. FillsRow(f)
      BY <1>11, <1>0, RowOf DEF FillForgets, FillsRow
    <2> QED
      BY <2>1, <1>11, <1>0 DEF FillForgets, FillRecs
  <1>12. CASE FillGivenUp(f)
    <2>1. FillsRow(f)
      BY <1>12, <1>0, RowOf DEF FillGivenUp, FillsRow, Try
    <2> QED
      BY <2>1, <1>12, <1>0 DEF FillGivenUp, FillRecs
  <1>13. CASE FillDies(f)
    BY <1>13, <1>0 DEF FillDies, FillsRow, FillRecs
  <1> QED
    BY <1>1, <1>2, <1>3, <1>4, <1>5, <1>6, <1>7, <1>8, <1>9, <1>10, <1>11, <1>12, <1>13 DEF FillStep

LEMMA FillStands ==
    ASSUME TypeOK, Named, Tokens, Stands, NEW f \in Fills, FillFacts(f)
    PROVE  Stands'
  <1>0. /\ \A g \in Fills : fill[g].pc # "idle" => fill[g].name \in Names
        /\ \A g \in Fills : fill[g].pc # "idle" => fill[g].name \in minted
        /\ \A s \in Starts : start[s].pc \in Unrecorded \union Recorded => start[s].name \in Names
        /\ NoName \notin Names /\ owed \subseteq Names /\ \A t \in tasks : t.name \in Names
    BY PoolAssumption DEF TypeOK, Named, StartRecs, FillRecs, Unrecorded, Recorded, Tasks, Stands, FillsAreApart
  <1>1. /\ \A n : Coming(n)' <=> Coming(n)
        /\ \A n : Handed(n)' <=> Handed(n)
        /\ \A n : Registered(n)' <=> Registered(n)
        /\ \A n : PutBackPending(n)' <=> PutBackPending(n)
        /\ owed' = owed /\ minted \subseteq minted'
        /\ start' = start /\ registry' = registry /\ tasks' = tasks /\ pass' = pass
    BY DEF FillFacts, FillsOnly, Coming, Handed, PutBackPending, Registered
  <1>2. ASSUME NEW n \in Names, fill[f].pc # "idle", fill[f].name = n
        PROVE  /\ n \in minted /\ row[n].st \notin {"ready", "claimed"} /\ n \notin owed
               /\ ~Coming(n) /\ ~Handed(n) /\ \A s \in Starts : start[s].name # n
    BY <1>2 DEF Stands, FillsAreApart, Coming, Handed
  <1>3. \A n \in Names : Closed(n) => Closed(n)'
    BY <1>1 DEF Closed, FillFacts, FillsRow, NewlyFilled
  <1>4. \A n \in Names : Spent(n) => Spent(n)'
    BY <1>1, <1>3 DEF Spent
  <1>5. RecordedStands'
    <2>1. ASSUME NEW s \in Starts, start[s].pc \in {"recording", "recordingown"} \union Recorded,
                 start[s].name \in cloud
          PROVE  start[s].name \in cloud'
      BY <2>1, <1>0, <1>2 DEF FillFacts, FillsCloud
    <2> QED
      BY <2>1, <1>1 DEF Stands, RecordedStands, Recorded
  <1>6. OwedIsApart'
    <2>1. ASSUME NEW n \in owed PROVE n \in cloud' /\ Closed(n)'
      BY <1>0, <1>2, <1>3 DEF Stands, OwedIsApart, FillFacts, FillsCloud
    <2> QED
      BY <2>1, <1>1 DEF Stands, OwedIsApart
  <1>7. OldIsClosed'
    BY <1>1, <1>2 DEF Stands, OldIsClosed, FillFacts, FillsRow, NewlyFilled
  <1>8. RetiringIsSpent'
    <2>1. ASSUME NEW n \in Names, row'[n].st = "retiring" PROVE Spent(n)'
      <3>1. CASE row[n].st = "retiring"
        BY <3>1, <1>4 DEF Stands, RetiringIsSpent
      <3>2. CASE row[n].st # "retiring"
        <4>1. fill[f].pc # "idle" /\ fill[f].name = n
          BY <2>1, <3>2 DEF FillFacts, FillsRow, NewlyFilled
        <4> QED
          BY <4>1, <2>1, <1>1, <1>2 DEF Spent, Closed
      <3> QED
        BY <3>1, <3>2
    <2> QED
      BY <2>1 DEF RetiringIsSpent
  <1>9. FillsAreApart'
    <2>1. ASSUME NEW g \in Fills, fill'[g].pc # "idle", NEW n, fill'[g].name = n
          PROVE  /\ n \in minted' /\ row'[n].st \notin {"ready", "claimed"} /\ n \notin owed
                 /\ ~PutBackPending(n)
                 /\ \A s \in Starts : start[s].name # n /\ n \notin start[s].kept
                 /\ \A h \in Fills : h # g => fill'[h].name # n
      <3>1. CASE g = f /\ NewlyFilled(f, n)
        <4>1. n \in Names /\ n \notin minted
          BY <3>1 DEF NewlyFilled
        <4>2. ~Coming(n) /\ ~Handed(n) /\ n \notin owed /\ \A s \in Starts : start[s].name # n
          BY <4>1, FreeIsUntaken DEF Stands, Tokens, FreeIsFree
        <4>3. \A h \in Fills : fill[h].name # n
          BY <4>1, <1>0 DEF Named
        <4> QED
          BY <3>1, <4>2, <4>3 DEF NewlyFilled, FillFacts, FillsOnly, Coming
      <3>2. CASE fill[g].pc # "idle" /\ fill[g].name = n
        <4>1. /\ n \in minted /\ row[n].st \notin {"ready", "claimed"} /\ n \notin owed /\ n \in Names
              /\ ~PutBackPending(n)
              /\ \A s \in Starts : start[s].name # n /\ n \notin start[s].kept
              /\ \A h \in Fills : h # g => fill[h].name # n
          BY <3>2, <1>0 DEF Stands, FillsAreApart
        <4>2. \A h \in Fills : h # g => fill'[h].name # n
          BY <4>1, <1>0 DEF FillFacts, FillsOnly, FillsName, NewlyFilled, IdleFill
        <4>3. row'[n].st \notin {"ready", "claimed"}
          BY <4>1, <2>1 DEF FillFacts, FillsOnly, FillsRow, NewlyFilled, IdleFill
        <4> QED
          BY <4>1, <4>2, <4>3, <1>1
      <3>3. g # f => fill'[g] = fill[g]
        BY DEF FillFacts, FillsOnly
      <3>4. g = f => (fill[f].pc # "idle" /\ fill[f].name = n) \/ NewlyFilled(f, n)
        BY <2>1 DEF FillFacts, FillsName, IdleFill
      <3> QED
        BY <2>1, <3>1, <3>2, <3>3, <3>4
    <2> QED
      BY <2>1, <1>1 DEF FillsAreApart, PutBackPending
  <1>10. TasksAreSpent' /\ ListIsSound'
    BY <1>0, <1>1, <1>3, <1>4 DEF Stands, TasksAreSpent, ListIsSound
  <1> QED
    BY <1>5, <1>6, <1>7, <1>8, <1>9, <1>10 DEF Stands

\* What a step that is neither a start's nor a fill's may do to the ledger and
\* to the containers.
LetsGoOnly ==
    /\ start' = start /\ fill' = fill /\ registry' = registry /\ owed' \subseteq owed /\ minted' = minted
    /\ \A n \in Names : PutBackPending(n)' => PutBackPending(n)
    /\ \A n \in Names :
          /\ row'[n].st = "filling" => row[n].st = "filling"
          /\ row'[n].st = "ready" => row[n].st = "ready" \/ PutBackPending(n)
          /\ row'[n].st = "claimed" =>
                row[n].st = "claimed" /\ (row'[n].old => row[n].old \/ ~Coming(n))
          /\ row'[n].st = "retiring" => row[n].st \in {"filling", "ready"} \/ Spent(n)
    /\ \A n \in cloud \ cloud' : Spent(n) \/ n \in owed \ owed'

LEMMA LetsGoStands ==
    ASSUME TypeOK, Named, Tokens, Stands, LetsGoOnly
    PROVE  /\ Lasting /\ RecordedStands' /\ OwedIsApart' /\ OldIsClosed' /\ RetiringIsSpent'
           /\ FillsAreApart'
           /\ \A n \in Names : row'[n].st = "retiring" => Spent(n)'
  <1>0. /\ \A g \in Fills : fill[g].pc # "idle" => fill[g].name \in Names
        /\ \A s \in Starts : start[s].pc \in Unrecorded \union Recorded => start[s].name \in Names
        /\ owed \subseteq Names
    BY DEF TypeOK, Named, StartRecs, FillRecs, Unrecorded, Recorded
  <1>1. /\ \A n \in Names : Coming(n)' => Coming(n)
        /\ \A n : Handed(n)' <=> Handed(n)
        /\ \A n : Registered(n)' <=> Registered(n)
        /\ start' = start /\ fill' = fill /\ registry' = registry /\ owed' \subseteq owed /\ minted' = minted
    BY DEF LetsGoOnly, Coming, Handed, Registered
  <1>2. \A n \in Names : Closed(n) => Closed(n)'
    BY <1>1 DEF Closed, LetsGoOnly, Coming
  <1>3. \A n \in Names : Spent(n) => Spent(n)'
    BY <1>1, <1>2 DEF Spent
  <1>4. RecordedStands'
    <2>1. ASSUME NEW s \in Starts, start[s].pc \in {"recording", "recordingown"} \union Recorded,
                 start[s].name \in cloud
          PROVE  start[s].name \in cloud'
      <3>1. ~Spent(start[s].name)
        BY <2>1 DEF Spent, Closed, Coming, Handed, Unrecorded
      <3>2. start[s].name \notin owed
        BY DEF Stands, OwedIsApart
      <3> QED
        BY <3>1, <3>2, <2>1 DEF LetsGoOnly
    <2> QED
      BY <2>1, <1>1 DEF Stands, RecordedStands, Recorded
  <1>5. OwedIsApart'
    BY <1>0, <1>1, <1>2 DEF Stands, OwedIsApart, LetsGoOnly, Spent
  <1>6. OldIsClosed'
    BY <1>1 DEF Stands, OldIsClosed, LetsGoOnly
  <1>7. ASSUME NEW n \in Names, row'[n].st = "retiring" PROVE Spent(n)'
    <2>1. CASE Spent(n)
      BY <2>1, <1>3
    <2>2. CASE row[n].st \in {"filling", "ready"}
      <3>1. ~Coming(n) /\ ~Handed(n) /\ n \notin owed /\ n \in minted
        BY <2>2, FreeIsUntaken DEF Stands, Tokens, LiveIsMinted
      <3> QED
        BY <3>1, <1>1, <1>7 DEF Spent, Closed
    <2> QED
      BY <2>1, <2>2, <1>7 DEF LetsGoOnly
  <1>8. FillsAreApart'
    BY <1>0, <1>1 DEF Stands, FillsAreApart, LetsGoOnly
  <1> QED
    BY <1>2, <1>3, <1>4, <1>5, <1>6, <1>7, <1>8 DEF Lasting, RetiringIsSpent

LEMMA TaskStands ==
    ASSUME TypeOK, Named, Tokens, Stands, NEW t \in tasks, TaskStep(t) \/ TaskDies(t)
    PROVE  Stands'
  <1>0. /\ t.name \in Names /\ t \in Tasks /\ \A r \in tasks : r.name \in Names
        /\ t.do = "putback" => PutBackPending(t.name)
        /\ t.do # "putback" => Spent(t.name)
    BY DEF TypeOK, Tasks, Stands, TasksAreSpent, PutBackPending
  <1>1. /\ LetsGoOnly
        /\ \A r \in tasks' \ tasks : r.name = t.name /\ t.do # "putback"
        /\ pass' = pass
    <2>1. ASSUME NEW do \in {"delete", "forget"}, Then(t, do)
          PROVE  /\ \A r \in tasks' \ tasks : r.name = t.name
                 /\ \A n \in Names : PutBackPending(n)' => PutBackPending(n)
      <3>1. [t EXCEPT !.do = do] = [do |-> do, name |-> t.name]
        BY <1>0, <2>1 DEF Tasks
      <3> QED
        BY <3>1, <2>1 DEF Then, Becomes, PutBackPending
    <2>2. ASSUME Becomes(t, {})
          PROVE  /\ tasks' \subseteq tasks
                 /\ \A n \in Names : PutBackPending(n)' => PutBackPending(n)
      BY <2>2 DEF Becomes, PutBackPending
    <2>3. CASE TaskRetires(t)
      <3>1. \/ row' = row
            \/ row[t.name].st = "claimed" /\ row' = Moved(t.name, "retiring")
        BY <2>3 DEF TaskRetires, Try, Holds
      <3> QED
        BY <2>3, <2>1, <3>1, <1>0, RowOf DEF TaskRetires, LetsGoOnly, Stands, RetiringIsSpent
    <2>4. CASE TaskDeletes(t)
      BY <2>4, <2>1, <2>2, <1>0 DEF TaskDeletes, LetsGoOnly, Stands, RetiringIsSpent
    <2>5. CASE TaskForgets(t)
      <3>1. row' = row \/ row' = Forgotten(t.name, 1)
        BY <2>5 DEF TaskForgets, Try
      <3> QED
        BY <2>5, <2>2, <3>1, <1>0, RowOf DEF TaskForgets, LetsGoOnly, Stands, RetiringIsSpent
    <2>6. CASE TaskPutsBack(t)
      <3>1. row' = row \/ row' = Moved(t.name, "ready")
        BY <2>6 DEF TaskPutsBack, Try
      <3> QED
        BY <2>6, <2>2, <3>1, <1>0, RowOf DEF TaskPutsBack, LetsGoOnly, Stands, RetiringIsSpent
    <2>7. CASE TaskDies(t)
      BY <2>7, <2>2, <1>0 DEF TaskDies, LetsGoOnly, Stands, RetiringIsSpent
    <2> QED
      BY <2>3, <2>4, <2>5, <2>6, <2>7 DEF TaskStep
  <1>2. \A n \in Names : (Closed(n) => Closed(n)') /\ (Spent(n) => Spent(n)')
    BY <1>1, LetsGoStands DEF Lasting
  <1>3. TasksAreSpent'
    BY <1>0, <1>1, <1>2 DEF Stands, TasksAreSpent
  <1>4. ListIsSound'
    <2>1. \A n : Registered(n)' <=> Registered(n)
      BY <1>1 DEF LetsGoOnly, Registered
    <2> QED
      BY <2>1, <1>1, <1>2 DEF Stands, ListIsSound
  <1> QED
    BY <1>1, <1>3, <1>4, LetsGoStands DEF Stands

\* A pass's list after one name on it is dealt with.
LEMMA DoOne ==
    ASSUME TypeOK, NEW n \in Names, NEW todo, Do(n, todo)
    PROVE  /\ pass'.pc = pass.pc /\ pass'.held = pass.held /\ pass'.gen = pass.gen
           /\ pass'.todo[n] = todo
           /\ \A m \in Names : m # n => pass'.todo[m] = pass.todo[m]
  BY DEF TypeOK, PassRecs, Do

LEMMA PassStands ==
    ASSUME TypeOK, Named, Tokens, Stands, PassStep \/ PassDies
    PROVE  Stands'
  <1>0. /\ \A n \in Names :
              /\ row[n].st = "retiring" => Spent(n)
              /\ pass.todo[n] \in {"delete", "forget"} => Spent(n)
              /\ pass.todo[n] = "judge claimed" => Closed(n)
        /\ \A r \in tasks : r.name \in Names
    BY DEF Stands, RetiringIsSpent, ListIsSound, TypeOK, Tasks
  <1>1. ASSUME LetsGoOnly, tasks' = tasks, ListIsSound' PROVE Stands'
    <2>1. TasksAreSpent'
      BY <1>0, <1>1, LetsGoStands DEF Lasting, Stands, TasksAreSpent
    <2> QED
      BY <1>1, <2>1, LetsGoStands DEF Stands
  <1>2. ASSUME row' = row, cloud' = cloud, tasks' = tasks,
               UNCHANGED <<start, fill, registry, owed, minted>>
        PROVE  /\ LetsGoOnly
               /\ \A n : (Spent(n) <=> Spent(n)') /\ (Closed(n) <=> Closed(n)') /\ (Registered(n) <=> Registered(n)')
    BY <1>0, <1>2 DEF LetsGoOnly, PutBackPending, Spent, Closed, Coming, Handed, Registered
  <1>3. CASE PassBegin
    <2>1. PICK E \in SUBSET Claimable :
            pass' = [held |-> {}, todo |-> Plan(E), gen |-> [n \in Names |-> row[n].gen],
                     pc |-> IF \E n \in Names : Plan(E)[n] = "judge claimed"
                            THEN "registry" ELSE "work"]
      BY <1>3 DEF PassBegin, Surplus
    <2>2. ASSUME NEW n \in Names
          PROVE  /\ Plan(E)[n] = "judge claimed" => row[n].st = "claimed" /\ row[n].old
                 /\ Plan(E)[n] = "delete" => row[n].st = "retiring"
                 /\ Plan(E)[n] # "forget"
      BY DEF Plan, Overdue
    <2>3. ASSUME NEW n \in Names, row[n].st = "claimed", row[n].old PROVE Closed(n)
      BY <2>3 DEF Stands, OldIsClosed, Closed, Tokens, LiveIsMinted
    <2>4. LetsGoOnly /\ \A n \in Names : (Spent(n) => Spent(n)') /\ (Closed(n) => Closed(n)')
      BY <1>2, <1>3 DEF PassBegin
    <2>5. /\ pass'.todo = Plan(E) /\ pass'.pc # "debts"
          /\ (\E n \in Names : Plan(E)[n] = "judge claimed") => pass'.pc # "work"
      BY <2>1
    <2>6. ListIsSound'
      BY <1>0, <2>2, <2>3, <2>4, <2>5 DEF ListIsSound
    <2> QED
      BY <1>1, <1>3, <2>4, <2>6 DEF PassBegin
  <1>4. CASE PassReadsRegistry
    <2>1. pass'.pc = "debts" /\ pass'.todo = pass.todo /\ pass'.held = {n \in Stuck : Registered(n)}
      BY <1>4 DEF PassReadsRegistry, TypeOK, PassRecs
    <2>2. /\ LetsGoOnly
          /\ \A n : (Spent(n) => Spent(n)') /\ (Closed(n) => Closed(n)') /\ (Registered(n)' => Registered(n))
      BY <1>2, <1>4 DEF PassReadsRegistry
    <2>3. ListIsSound'
      BY <1>0, <2>1, <2>2 DEF ListIsSound, Stuck
    <2> QED
      BY <1>1, <1>4, <2>2, <2>3 DEF PassReadsRegistry
  <1>5. CASE PassReadsDebts
    <2>1. /\ pass.pc = "debts" /\ pass'.pc = "work" /\ pass'.todo = pass.todo
          /\ pass'.held = pass.held \union (Stuck \intersect owed)
      BY <1>5 DEF PassReadsDebts, TypeOK, PassRecs
    <2>2. ASSUME NEW n \in Names, pass.todo[n] = "judge claimed", n \notin pass'.held PROVE Spent(n)
      <3>1. Closed(n) /\ n \notin owed /\ ~Registered(n)
        BY <2>1, <2>2 DEF Stands, ListIsSound, Stuck
      <3>2. ~Handed(n)
        BY <3>1 DEF Stands, RecordedStands, Handed, Registered, TypeOK, StartRecs
      <3> QED
        BY <3>1, <3>2 DEF Spent
    <2>3. LetsGoOnly /\ \A n : (Spent(n) => Spent(n)') /\ (Closed(n) => Closed(n)')
      BY <1>2, <1>5 DEF PassReadsDebts
    <2>4. ListIsSound'
      BY <1>0, <2>1, <2>2, <2>3 DEF ListIsSound
    <2> QED
      BY <1>1, <1>5, <2>3, <2>4 DEF PassReadsDebts
  <1>6. CASE PassEnds \/ PassDies
    <2>1. \A n \in Names : pass'.todo[n] = "none"
      BY <1>6 DEF PassEnds, PassDies, IdlePass, NoTodo
    <2>2. LetsGoOnly /\ ListIsSound'
      BY <1>2, <1>6, <2>1 DEF PassEnds, PassDies, ListIsSound
    <2> QED
      BY <1>1, <1>6, <2>2 DEF PassEnds, PassDies
  <1>7. ASSUME NEW n \in Names, NEW todo, Do(n, todo), LetsGoOnly, todo # "judge claimed",
               todo \in {"delete", "forget"} => Spent(n)'
        PROVE  ListIsSound'
    <2>1. \A m \in Names : (Spent(m) => Spent(m)') /\ (Closed(m) => Closed(m)')
      BY <1>7, LetsGoStands DEF Lasting
    <2>2. \A m \in Names : Registered(m)' <=> Registered(m)
      BY <1>7 DEF LetsGoOnly, Registered
    <2>3. /\ pass'.pc = pass.pc /\ pass'.held = pass.held /\ pass'.todo[n] = todo
          /\ \A m \in Names : m # n => pass'.todo[m] = pass.todo[m]
      BY <1>7, DoOne
    <2> QED
      BY <1>7, <2>1, <2>2, <2>3 DEF Stands, ListIsSound
  <1>8. ASSUME NEW n \in Names, PassForgetsHeld(n) \/ PassForgets(n) PROVE Stands'
    <2>1. LetsGoOnly
      <3>1. row' = Forgotten(n, pass.gen[n])
        BY <1>8 DEF PassForgetsHeld, PassForgets
      <3>2. \A m \in Names : row'[m] = row[m] \/ row'[m].st = "none"
        BY <3>1, RowOf
      <3> QED
        BY <1>8, <1>0, <3>2 DEF PassForgetsHeld, PassForgets, LetsGoOnly, PutBackPending
    <2> QED
      BY <1>1, <1>7, <1>8, <2>1 DEF PassForgetsHeld, PassForgets
  <1>9. ASSUME NEW n \in Names, PassRetires(n) PROVE Stands'
    <2>1. PICK was \in {"filling", "claimed", "ready"} :
            /\ pass.todo[n] = CASE was = "filling" -> "judge filling"
                                [] was = "claimed" -> "judge claimed"
                                [] was = "ready" -> "retire"
            /\ Move(n, pass.gen[n], was, "retiring")
            /\ Do(n, IF Holds(n, pass.gen[n], was) THEN "delete" ELSE "none")
      BY <1>9 DEF PassRetires
    <2>2. was = "claimed" => Spent(n)
      BY <1>9, <2>1 DEF PassRetires, Stands, ListIsSound
    <2>3. \/ row' = row /\ ~Holds(n, pass.gen[n], was)
          \/ row[n].st = was /\ row' = Moved(n, "retiring") /\ Holds(n, pass.gen[n], was)
      BY <2>1 DEF Move, Holds
    <2>4. LetsGoOnly
      <3>1. ASSUME NEW m \in Names
            PROVE  \/ row'[m] = row[m]
                   \/ row'[m].st = "retiring" /\ (row[m].st \in {"filling", "ready"} \/ Spent(m))
        BY <2>2, <2>3, RowOf
      <3> QED
        BY <1>9, <1>0, <3>1 DEF PassRetires, LetsGoOnly, PutBackPending
    <2>5. Holds(n, pass.gen[n], was) => Spent(n)'
      <3>1. Holds(n, pass.gen[n], was) => row'[n].st = "retiring"
        BY <2>3, RowOf
      <3> QED
        BY <3>1, <2>4, LetsGoStands
    <2>6. ListIsSound'
      BY <1>7, <2>1, <2>4, <2>5
    <2> QED
      BY <1>1, <1>9, <2>4, <2>6 DEF PassRetires
  <1>10. ASSUME NEW n \in Names, PassDeletes(n) PROVE Stands'
    <2>1. LetsGoOnly
      BY <1>10, <1>0 DEF PassDeletes, LetsGoOnly, PutBackPending
    <2>2. Spent(n)'
      BY <1>0, <1>10, <2>1, LetsGoStands DEF PassDeletes, Lasting
    <2> QED
      BY <1>1, <1>7, <1>10, <2>1, <2>2 DEF PassDeletes
  <1>11. ASSUME NEW n \in Names, PassRefused(n) PROVE Stands'
    <2>1. LetsGoOnly
      BY <1>2, <1>11 DEF PassRefused
    <2> QED
      BY <1>1, <1>7, <1>11, <2>1 DEF PassRefused
  <1> QED
    BY <1>3, <1>4, <1>5, <1>6, <1>8, <1>9, <1>10, <1>11 DEF PassStep, PassWork

LEMMA ElsewhereStands ==
    ASSUME TypeOK, Named, Tokens, Stands, Elsewhere
    PROVE  Stands'
  <1>0. /\ start \in [Starts -> StartRecs] /\ row \in Ledger
        /\ \A s \in Starts : Using(s) => start[s].name \in Names
        /\ registry \in [Users -> Names \union {NoName}]
        /\ \A n \in Names : row[n].st = "retiring" => Spent(n)
        /\ \A r \in tasks : r.name \in Names
        /\ NoName \notin Names
    BY PoolAssumption DEF Stands, RetiringIsSpent, TypeOK, Named, Tasks, StartRecs, Using, At
  <1>1. ASSUME LetsGoOnly, tasks' = tasks, pass' = pass PROVE Stands'
    <2>1. \A n \in Names : (Spent(n) => Spent(n)') /\ (Closed(n) => Closed(n)')
      BY <1>1, LetsGoStands DEF Lasting
    <2>2. \A n : Registered(n)' <=> Registered(n)
      BY <1>1 DEF LetsGoOnly, Registered
    <2>3. TasksAreSpent' /\ ListIsSound'
      BY <1>0, <1>1, <2>1, <2>2 DEF Stands, TasksAreSpent, ListIsSound
    <2> QED
      BY <1>1, <2>3, LetsGoStands DEF Stands
  <1>2. ASSUME NEW s \in Starts, Leave(s) PROVE Stands'
    <2>1. start'[s] = IdleStart(s) /\ \A r \in Starts : r # s => start'[r] = start[r]
      BY <1>0, <1>2 DEF Leave
    <2>2. StartFacts(s)
      BY <1>0, <1>2, <2>1 DEF Leave, IdleStart, StartFacts, StartsAlone, StartsName, StartsRow, StartsRecord,
         StartsCloud, StartsTasks, PutBackPending, Unrecorded, Recorded
    <2> QED
      BY <2>2, StartStands
  <1>3. ASSUME NEW s \in Starts, Owe(s) PROVE Stands'
    <2>1. PICK n \in Names : n = start[s].name
      BY <1>0, <1>3 DEF Owe
    <2>2. /\ start[s].pc = "using" /\ owed' = owed \union {n}
          /\ start'[s].name = NoName /\ start'[s].kept = {} /\ start'[s].pc = "idle"
          /\ \A r \in Starts : r # s => start'[r] = start[r]
          /\ UNCHANGED <<row, image, cloud, inflight, minted, registry, fill, tasks, pass>>
      BY <1>0, <1>3, <2>1 DEF Owe, IdleStart, Using, At
    <2>3. /\ n \in minted /\ row[n].st \notin {"filling", "ready"} /\ ~PutBackPending(n)
          /\ n \notin start[s].kept
          /\ \A r \in Starts : r # s => start[r].name # n /\ n \notin start[r].kept
      BY <1>0, <2>1 DEF Tokens, FreeIsFree, PutBackIsFree, HeldOnce, OneHolder
    <2>4. n \in cloud /\ Handed(n)
      BY <2>1, <2>2 DEF Stands, RecordedStands, Recorded, Handed
    <2>5. /\ \A m \in Names : /\ Coming(m)' => Coming(m)
                              /\ Handed(m)' => Handed(m)
                              /\ PutBackPending(m)' <=> PutBackPending(m)
                              /\ Registered(m)' <=> Registered(m)
          /\ \A r \in Starts : start'[r].name # n
      BY <1>0, <2>1, <2>2, <2>3 DEF Coming, Handed, Registered, PutBackPending, Unrecorded, Recorded
    <2>6. \A m \in Names : (Closed(m) => Closed(m)') /\ (Spent(m) => Spent(m)')
      BY <2>2, <2>4, <2>5 DEF Closed, Spent
    <2>7. Closed(n)
      BY <2>1, <2>2, <2>3 DEF Closed, Coming, Unrecorded
    <2>8. RecordedStands'
      <3>1. ASSUME NEW r \in Starts, r # s, start[r].pc \in Recorded PROVE start[r].name \notin owed'
        BY <2>2, <2>3, <3>1 DEF Stands, RecordedStands
      <3> QED
        BY <2>2, <3>1 DEF Stands, RecordedStands, Recorded
    <2>9. OwedIsApart'
      <3>1. ASSUME NEW m \in owed PROVE m \in cloud' /\ Closed(m)' /\ \A r \in Starts : start'[r].name # m
        BY <1>0, <2>2, <2>6 DEF Stands, OwedIsApart, TypeOK
      <3> QED
        BY <2>2, <2>4, <2>5, <2>6, <2>7, <3>1 DEF OwedIsApart
    <2>10. OldIsClosed' /\ RetiringIsSpent'
      BY <2>2, <2>5, <2>6 DEF Stands, OldIsClosed, RetiringIsSpent
    <2>11. FillsAreApart'
      <3>1. ASSUME NEW f \in Fills, fill[f].pc # "idle"
            PROVE  fill[f].name # n /\ fill[f].name \in Names
        BY <2>1, <3>1 DEF Stands, FillsAreApart, TypeOK, Named, FillRecs
      <3> QED
        BY <1>0, <2>2, <2>5, <3>1 DEF Stands, FillsAreApart
    <2>12. TasksAreSpent' /\ ListIsSound'
      BY <1>0, <2>2, <2>5, <2>6 DEF Stands, TasksAreSpent, ListIsSound
    <2> QED
      BY <2>8, <2>9, <2>10, <2>11, <2>12 DEF Stands
  <1>4. ASSUME NEW u \in Users, ClearRecord(u) PROVE Stands'
    <2>1. /\ registry' = [registry EXCEPT ![u] = NoName]
          /\ UNCHANGED <<row, image, cloud, inflight, minted, owed, start, fill, tasks, pass>>
          /\ registry[u] \in owed \/ registry[u] \notin cloud
      BY <1>4 DEF ClearRecord
    <2>2. /\ \A n \in Names : /\ Closed(n) <=> Closed(n)'
                              /\ Spent(n) <=> Spent(n)'
                              /\ Coming(n) <=> Coming(n)'
                              /\ PutBackPending(n) <=> PutBackPending(n)'
                              /\ Registered(n)' => Registered(n)
      BY <1>0, <2>1 DEF Closed, Spent, Coming, Handed, PutBackPending, Registered
    <2>3. RecordedStands'
      <3>1. ASSUME NEW s \in Starts, start[s].pc \in Recorded PROVE start[s].user # u
        BY <2>1, <3>1 DEF Stands, RecordedStands
      <3>2. \A s \in Starts : start[s].user \in Users
        BY <1>0 DEF StartRecs
      <3> QED
        BY <1>0, <2>1, <3>1, <3>2 DEF Stands, RecordedStands
    <2>4. OwedIsApart' /\ OldIsClosed' /\ RetiringIsSpent' /\ TasksAreSpent' /\ ListIsSound'
      BY <1>0, <2>1, <2>2 DEF Stands, OwedIsApart, OldIsClosed, RetiringIsSpent, TasksAreSpent, ListIsSound, TypeOK
    <2>5. FillsAreApart'
      BY <2>1 DEF Stands, FillsAreApart, PutBackPending
    <2> QED
      BY <2>3, <2>4, <2>5 DEF Stands
  <1>5. ASSUME NEW u \in Users, Reap(u) PROVE Stands'
    <2>1. PICK n : n = registry[u]
      OBVIOUS
    <2>2. n \in Names /\ n \notin owed /\ Registered(n) /\ cloud' = cloud \ {n}
          /\ \A s \in Starts : start[s].name # n
      BY <1>0, <1>5, <2>1 DEF Reap, Registered
    <2>3. Spent(n)
      <3>1. n \in minted /\ row[n].st \notin {"filling", "ready"} /\ ~PutBackPending(n)
        BY <2>2 DEF Tokens, FreeIsFree, PutBackIsFree
      <3>2. \A s \in Starts : n \notin start[s].kept
        BY <2>2 DEF Tokens, UnrecordedHasNoRecord
      <3> QED
        BY <2>2, <3>1, <3>2 DEF Spent, Closed, Coming, Handed
    <2>4. LetsGoOnly
      BY <1>0, <1>5, <2>2, <2>3 DEF Reap, LetsGoOnly, PutBackPending
    <2> QED
      BY <1>1, <1>5, <2>4 DEF Reap
  <1>6. ASSUME NEW n \in Names, Settle(n) \/ Landing(n) PROVE Stands'
    <2>1. LetsGoOnly
      BY <1>0, <1>6 DEF Settle, Landing, LetsGoOnly, PutBackPending
    <2> QED
      BY <1>1, <1>6, <2>1 DEF Settle, Landing
  <1>7. ASSUME NEW n \in Names, GrowOld(n) PROVE Stands'
    <2>1. ~Coming(n)
      BY <1>7 DEF GrowOld, Busy, Coming, Unrecorded, PutBackPending
    <2>2. \A m \in Names : row'[m].st = row[m].st /\ (m # n => row'[m] = row[m])
      BY <1>0, <1>7 DEF GrowOld, Ledger, Rows
    <2>3. LetsGoOnly
      BY <1>0, <1>7, <2>1, <2>2 DEF GrowOld, LetsGoOnly, PutBackPending
    <2> QED
      BY <1>1, <1>7, <2>3 DEF GrowOld
  <1>8. CASE NewImage
    BY <1>0, <1>1, <1>8 DEF NewImage, LetsGoOnly, PutBackPending
  <1> QED
    BY <1>2, <1>3, <1>4, <1>5, <1>6, <1>7, <1>8 DEF Elsewhere

LEMMA InitStands == Init => Stands
  <1> SUFFICES ASSUME Init PROVE Stands
    OBVIOUS
  <1>1. /\ \A s \in Starts : start[s].name = NoName /\ start[s].kept = {} /\ start[s].pc = "idle"
        /\ \A f \in Fills : fill[f].pc = "idle"
        /\ \A n \in Names : pass.todo[n] = "none" /\ row[n].st = "none"
        /\ owed = {} /\ tasks = {}
    BY DEF Init, IdleFill, IdlePass, NoTodo
  <1> QED
    BY <1>1 DEF Stands, RecordedStands, OwedIsApart, OldIsClosed, RetiringIsSpent, FillsAreApart,
       TasksAreSpent, ListIsSound, Recorded

Safe == TypeOK /\ Named /\ Tokens /\ Stands

LEMMA NextIsSafe == Safe /\ [Next]_vars => Safe'
  <1> SUFFICES ASSUME Safe, [Next]_vars PROVE Safe'
    OBVIOUS
  <1>1. TypeOK /\ Named /\ Tokens /\ Stands
    BY DEF Safe
  <1>2. TypeOK' /\ Named' /\ Tokens'
    BY <1>1, NextTypes, NextTokens
  <1>3. Stands'
    <2>1. CASE UNCHANGED vars
      <3>1. LetsGoOnly
        BY <1>1, <2>1 DEF vars, LetsGoOnly, PutBackPending, Stands, RetiringIsSpent
      <3>2. \A n : /\ Spent(n)' <=> Spent(n)
                   /\ Closed(n)' <=> Closed(n)
                   /\ Registered(n)' <=> Registered(n)
        BY <2>1 DEF vars, Spent, Closed, Coming, Handed, PutBackPending, Registered
      <3>3. TasksAreSpent' /\ ListIsSound'
        BY <1>1, <2>1, <3>2 DEF vars, Stands, TasksAreSpent, ListIsSound
      <3> QED
        BY <1>1, <3>1, <3>3, LetsGoStands DEF Stands
    <2>2. ASSUME NEW s \in Starts, StartStep(s) \/ StartDies(s) PROVE Stands'
      BY <1>1, <2>2, StartDoes, StartStands
    <2>3. ASSUME NEW f \in Fills, FillStep(f) \/ FillGivenUp(f) \/ FillDies(f) PROVE Stands'
      BY <1>1, <2>3, FillDoes, FillStands
    <2> QED
      BY <1>1, <2>1, <2>2, <2>3, TaskStands, PassStands, ElsewhereStands DEF Next
  <1> QED
    BY <1>2, <1>3 DEF Safe

\* A container in a person's hands, or that an owed teardown names, stands:
\* whatever a fill, a detached task or a pass working from an old reading of
\* the ledger goes on to delete, it is never that one.
THEOREM NothingDeletedInUse == Spec => []NamedContainersStand
  <1>1. Init => Safe
    BY InitTypes, InitTokens, InitStands DEF Safe
  <1>2. Safe => NamedContainersStand
    BY DEF Safe, Stands, RecordedStands, OwedIsApart, NamedContainersStand, HandedContainerStands,
       OwedContainerStands, Using, At, Recorded
  <1> QED
    BY <1>1, <1>2, NextIsSafe, PTL DEF Spec

\* A container let go is never served again, by any step of anyone: a row being
\* deleted only ever goes.
THEOREM RetiringIsForGood == Spec => RetiringNeverTaken
  <1>1. Init => Safe
    BY InitTypes, InitTokens, InitStands DEF Safe
  <1>2. ASSUME Safe, [Next]_vars, NEW n \in Names, row[n].st = "retiring"
        PROVE  row'[n].st \in {"retiring", "none"}
    <2>0. /\ TypeOK /\ Named /\ Tokens /\ Stands /\ Spent(n)
          /\ n \in minted /\ row \in Ledger /\ \A t \in tasks : t.name \in Names
      BY <1>2 DEF Safe, Stands, RetiringIsSpent, Spent, Closed, TypeOK, Tasks
    <2>1. CASE UNCHANGED vars
      BY <1>2, <2>1 DEF vars
    <2>2. ASSUME NEW s \in Starts, StartStep(s) \/ StartDies(s) PROVE row'[n].st \in {"retiring", "none"}
      <3>1. StartsRow(s)
        BY <2>0, <2>2, StartDoes DEF StartFacts
      <3> QED
        BY <1>2, <2>0, <3>1 DEF StartsRow, NewlyIts
    <2>3. ASSUME NEW f \in Fills, FillStep(f) \/ FillGivenUp(f) \/ FillDies(f)
          PROVE  row'[n].st \in {"retiring", "none"}
      <3>1. FillsRow(f)
        BY <2>0, <2>3, FillDoes DEF FillFacts
      <3> QED
        BY <1>2, <2>0, <3>1 DEF FillsRow, NewlyFilled
    <2>4. ASSUME NEW t \in tasks, TaskStep(t) \/ TaskDies(t) PROVE row'[n].st \in {"retiring", "none"}
      <3>1. \/ row' = row
            \/ row[t.name].st = "claimed" /\ \E to : row' = Moved(t.name, to)
            \/ row' = Forgotten(t.name, 1)
        BY <2>4 DEF TaskStep, TaskRetires, TaskDeletes, TaskForgets, TaskPutsBack, TaskDies, Try, Holds
      <3> QED
        BY <1>2, <2>0, <3>1, RowOf
    <2>5. ASSUME PassStep \/ PassDies PROVE row'[n].st \in {"retiring", "none"}
      <3>1. \/ row' = row
            \/ \E m \in Names : row' = Moved(m, "retiring") \/ \E g : row' = Forgotten(m, g)
        <4>1. CASE \E m \in Names : PassRetires(m)
          BY <4>1 DEF PassRetires, Move
        <4>2. CASE \E m \in Names : PassForgetsHeld(m) \/ PassForgets(m)
          BY <4>2 DEF PassForgetsHeld, PassForgets
        <4>3. CASE \E m \in Names : PassDeletes(m) \/ PassRefused(m)
          BY <4>3 DEF PassDeletes, PassRefused
        <4> QED
          BY <2>5, <4>1, <4>2, <4>3 DEF PassStep, PassWork, PassBegin, PassReadsRegistry, PassReadsDebts,
             PassEnds, PassDies
      <3> QED
        BY <1>2, <2>0, <3>1, RowOf
    <2>6. ASSUME Elsewhere PROVE row'[n].st \in {"retiring", "none"}
      <3>1. ASSUME NEW m \in Names, GrowOld(m) PROVE row'[n].st = row[n].st
        BY <2>0, <3>1 DEF GrowOld, Ledger, Rows
      <3> QED
        BY <1>2, <2>6, <3>1 DEF Elsewhere, Leave, Owe, ClearRecord, Reap, Settle, Landing, NewImage
    <2> QED
      BY <1>2, <2>1, <2>2, <2>3, <2>4, <2>5, <2>6 DEF Next
  <1>3. Safe /\ [Next]_vars =>
            [\A n \in Names : row[n].st = "retiring" => row'[n].st \in {"retiring", "none"}]_vars
    BY <1>2
  <1> QED
    BY <1>1, <1>3, NextIsSafe, PTL DEF Spec, RetiringNeverTaken

-----------------------------------------------------------------------------
\* Nothing stands unnamed.

\* Where a container under way can be, and when it is forgotten.
Building(n) == n \in inflight \/ \E s \in Starts : start[s].name = n /\ start[s].pc = "creating"

BuildingIsApart ==
    \A n \in Names : Building(n) =>
        /\ n \in minted /\ row[n].st = "claimed" /\ ~row[n].old /\ pass.todo[n] = "none"
        /\ \A t \in tasks : t.name # n
        /\ \A f \in Fills : fill[f].name # n
        /\ \A s \in Starts : n \notin start[s].kept
        /\ \A s \in Starts : start[s].name = n =>
              start[s].pc = "creating" /\ n \notin cloud \union inflight

FillsAlone ==
    \A f \in Fills : fill[f].pc # "idle" =>
        /\ \A t \in tasks : t.name # fill[f].name
        /\ pass.todo[fill[f].name] # "judge claimed"
        /\ fill[f].pc \in {"queued", "creating", "forgetting"} => fill[f].name \notin cloud

ForgottenIsGone ==
    /\ cloud \subseteq minted
    /\ \A s \in Starts : start[s].pc = "dropping" => start[s].name \notin cloud
    /\ \A t \in tasks : t.do = "forget" => t.name \notin cloud
    /\ \A n \in Names :
          /\ pass.todo[n] # "none" => n \in minted
          /\ pass.todo[n] = "forget" => n \notin cloud \/ \E f \in Fills : fill[f].name = n
          /\ pass.todo[n] = "judge claimed" /\ n \in pass.held =>
                n \notin cloud \/ Registered(n) \/ n \in owed

Kept == BuildingIsApart /\ FillsAlone /\ ForgottenIsGone /\ NoOrphan

\* The conditions under which nothing is orphaned: a ledger that answers, and
\* fills that come to their end.
Reliable == ~LedgerFails /\ ~FillsCutShort

\* What each actor's steps do to what is being built.
StartBuilds(s) ==
    /\ \/ inflight' = inflight
       \/ /\ start[s].pc = "creating" /\ start'[s].name = NoName
          /\ inflight' = inflight \union {start[s].name}
    /\ \A n \in cloud' \ cloud : n = start[s].name /\ start[s].pc = "creating"
    /\ start'[s].pc = "creating" =>
          /\ start'[s].name \in minted' \ minted /\ start'[s].name \in Names
          /\ row'[start'[s].name].st = "claimed" /\ ~row'[start'[s].name].old
    /\ start'[s].pc = "dropping" =>
          /\ start'[s].name = start[s].name
          /\ (start[s].pc = "creating" /\ cloud' = cloud) \/ start[s].name \notin cloud'
    /\ \A t \in tasks' \ tasks : t.do # "forget"

LEMMA StartDoesBuild ==
    ASSUME TypeOK, Named, Reliable, NEW s \in Starts, StartStep(s) \/ StartDies(s)
    PROVE  StartBuilds(s)
  <1>0. /\ start \in [Starts -> StartRecs] /\ start[s] \in StartRecs
        /\ start[s].pc \notin {"idle", "claiming", "create"} => start[s].name \in Names
        /\ row \in Ledger /\ NoName \notin Names /\ ~LedgerFails
        /\ IdleStart(s).name = NoName /\ IdleStart(s).kept = {} /\ IdleStart(s).pc = "idle"
        /\ \A K : \A t \in PutBacks(K) : t.do = "putback"
        /\ \A n : \A t \in LetGo(n) : t.do = "retire"
    BY PoolAssumption DEF TypeOK, Named, StartRecs, IdleStart, Reliable, PutBacks, LetGo
  <1> USE DEF StartBuilds, At, Goto
  <1>1. ASSUME NEW u \in Users, BeginStart(s, u) PROVE StartBuilds(s)
    BY <1>1, <1>0 DEF BeginStart
  <1>2. CASE Claim(s)
    BY <1>2, <1>0 DEF Claim
  <1>3. CASE ClaimMiss(s) \/ ForgetClaim(s)
    BY <1>3, <1>0 DEF ClaimMiss, ForgetClaim, Settled
  <1>4. CASE CheckFit(s) \/ CheckKeep(s) \/ CheckUnfit(s)
    <2>1. CASE CheckFit(s)
      BY <2>1, <1>0 DEF CheckFit, StartRecs
    <2>2. CASE CheckKeep(s)
      BY <2>2, <1>0 DEF CheckKeep, StartRecs
    <2>3. CASE CheckUnfit(s)
      BY <2>3, <1>0 DEF CheckUnfit, StartRecs
    <2> QED
      BY <1>4, <2>1, <2>2, <2>3
  <1>5. CASE Record(s) \/ RecordOwn(s) \/ RecordOwnFails(s)
    <2>1. CASE Record(s)
      BY <2>1, <1>0 DEF Record, StartRecs
    <2>2. CASE RecordOwn(s)
      BY <2>2, <1>0 DEF RecordOwn, StartRecs
    <2>3. CASE RecordOwnFails(s)
      BY <2>3, <1>0 DEF RecordOwnFails, StartRecs
    <2> QED
      BY <1>5, <2>1, <2>2, <2>3
  <1>6. CASE RecordFails(s)
    BY <1>6, <1>0 DEF RecordFails
  <1>7. CASE HoldCreate(s)
    <2>1. PICK n \in Fresh :
            /\ minted' = minted \union {n}
            /\ row' = Inserted(n, 1, "claimed")
            /\ start' = [start EXCEPT ![s].pc = "creating", ![s].name = n]
      BY <1>7, <1>0 DEF HoldCreate, Try
    <2>2. n \in Names /\ n \notin minted /\ start'[s].name = n /\ start'[s].pc = "creating"
      BY <2>1, <1>0 DEF Fresh, StartRecs
    <2> QED
      BY <2>1, <2>2, <1>7, <1>0, RowOf DEF HoldCreate
  <1>8. CASE CreateOk(s)
    BY <1>8, <1>0 DEF CreateOk
  <1>9. CASE CreateFails(s)
    BY <1>9, <1>0 DEF CreateFails, StartRecs
  <1>10. CASE Undo(s)
    BY <1>10, <1>0 DEF Undo, StartRecs
  <1>11. CASE Release(s)
    BY <1>11, <1>0 DEF Release
  <1>12. CASE StartDies(s)
    BY <1>12, <1>0 DEF StartDies, Settled
  <1> QED
    BY <1>1, <1>2, <1>3, <1>4, <1>5, <1>6, <1>7, <1>8, <1>9, <1>10, <1>11, <1>12 DEF StartStep

FillBuilds(f) ==
    /\ inflight' = inflight
    /\ \A n \in cloud' \ cloud :
          n = fill[f].name /\ fill[f].pc = "creating" /\ fill'[f].name = n /\ fill'[f].pc # "creating"
    /\ fill'[f].pc = "queued" => NewlyFilled(f, fill'[f].name)
    /\ fill'[f].pc = "creating" => fill[f].pc = "queued" /\ cloud' = cloud
    /\ fill'[f].pc = "forgetting" =>
          (fill[f].pc = "creating" /\ cloud' = cloud) \/ fill[f].name \notin cloud'
    /\ fill[f].pc # "idle" =>
          \/ fill'[f].name = fill[f].name /\ fill'[f].pc # "queued"
          \/ /\ fill'[f].pc = "idle" /\ cloud' = cloud
             /\ \/ fill[f].pc \in {"queued", "forgetting"}
                \/ row[fill[f].name].st = "filling" /\ row'[fill[f].name].st # "none"
                \/ row'[fill[f].name].st # "none" /\ pass.todo[fill[f].name] # "forget"

LEMMA FillDoesBuild ==
    ASSUME TypeOK, Named, Reliable, NEW f \in Fills, FillStep(f) \/ FillGivenUp(f) \/ FillDies(f)
    PROVE  FillBuilds(f)
  <1>0. /\ fill \in [Fills -> FillRecs] /\ fill[f] \in FillRecs
        /\ fill[f].pc # "idle" => fill[f].name \in Names
        /\ ~LedgerFails /\ ~FillsCutShort /\ row \in Ledger
        /\ IdleFill.pc = "idle"
    BY DEF TypeOK, Named, FillRecs, Reliable, IdleFill
  <1> USE DEF FillBuilds, FillAt, FillGoto, FillEnds
  <1>1. CASE FillBegin(f)
    <2>1. PICK n \in Fresh :
            /\ minted' = minted \union {n}
            /\ row' = Inserted(n, 1, "filling")
            /\ fill' = [fill EXCEPT ![f] = [pc |-> "queued", name |-> n]]
      BY <1>1 DEF FillBegin
    <2>2. n \in Names /\ n \notin minted /\ fill'[f].name = n /\ fill'[f].pc = "queued"
      BY <2>1, <1>0 DEF Fresh
    <2>3. NewlyFilled(f, n)
      BY <2>1, <2>2, <1>1, RowOf DEF FillBegin, NewlyFilled
    <2> QED
      BY <2>2, <2>3, <1>1, <1>0 DEF FillBegin
  <1>2. CASE FillTurn(f)
    BY <1>2, <1>0 DEF FillTurn, FillRecs
  <1>3. CASE FillCreated(f)
    BY <1>3, <1>0 DEF FillCreated, FillRecs
  <1>4. CASE FillCreateFails(f)
    BY <1>4, <1>0 DEF FillCreateFails, FillRecs
  <1>5. CASE FillFailedRetires(f)
    <2>1. Holds(fill[f].name, 1, "filling") =>
            row[fill[f].name].st = "filling" /\ row'[fill[f].name].st # "none"
      BY <1>5, <1>0, RowOf DEF FillFailedRetires, Move, Holds
    <2> QED
      BY <2>1, <1>5, <1>0 DEF FillFailedRetires, FillRecs
  <1>6. CASE FillHolds(f)
    <2>1. row'[fill[f].name].st # "none"
      BY <1>6, <1>0, RowOf DEF FillHolds, NoRow
    <2> QED
      BY <2>1, <1>6, <1>0 DEF FillHolds, FillRecs
  <1>7. CASE FillAnswered(f)
    <2>1. Holds(fill[f].name, 1, "filling") =>
            row[fill[f].name].st = "filling" /\ row'[fill[f].name].st # "none"
      BY <1>7, <1>0, RowOf DEF FillAnswered, Move, Holds
    <2> QED
      BY <2>1, <1>7, <1>0 DEF FillAnswered, FillRecs
  <1>8. CASE FillSilent(f) \/ DiscardRetires(f)
    BY <1>8, <1>0 DEF FillSilent, DiscardRetires, FillRecs
  <1>9. CASE DiscardDeletes(f)
    BY <1>9, <1>0 DEF DiscardDeletes, FillRecs
  <1>10. CASE FillForgets(f)
    BY <1>10, <1>0 DEF FillForgets, FillRecs
  <1>11. ~FillGivenUp(f) /\ ~FillDies(f)
    BY <1>0 DEF FillGivenUp, FillDies
  <1> QED
    BY <1>1, <1>2, <1>3, <1>4, <1>5, <1>6, <1>7, <1>8, <1>9, <1>10, <1>11 DEF FillStep

\* Names in use by somebody were given out.
LEMMA InUseIsMinted ==
    ASSUME TypeOK, Named, Tokens, Stands, Kept, NEW n \in Names, n \notin minted
    PROVE  /\ ~Building(n) /\ pass.todo[n] = "none" /\ n \notin cloud /\ n \notin owed
           /\ \A t \in tasks : t.name # n
           /\ \A f \in Fills : fill[f].name # n
           /\ \A s \in Starts : start[s].name # n /\ n \notin start[s].kept
  <1>1. \A s \in Starts : start[s].name # n /\ n \notin start[s].kept
    BY DEF Tokens, FreeIsFree
  <1>2. ASSUME NEW t \in tasks PROVE t.name # n
    <2>1. t.do # "putback" => t.name \in minted
      BY DEF Stands, TasksAreSpent, Spent, Closed
    <2>2. t.do = "putback" /\ t.name = n => t = [do |-> "putback", name |-> n]
      BY DEF TypeOK, Tasks
    <2>3. ~PutBackPending(n)
      BY DEF Tokens, FreeIsFree
    <2> QED
      BY <2>1, <2>2, <2>3 DEF PutBackPending
  <1>3. \A f \in Fills : fill[f].name # n
    BY PoolAssumption DEF Stands, FillsAreApart, Named, TypeOK, FillRecs
  <1> QED
    BY <1>1, <1>2, <1>3 DEF Kept, BuildingIsApart, ForgottenIsGone, Stands, OwedIsApart, Closed

LEMMA StartKeeps ==
    ASSUME TypeOK, Named, Tokens, Stands, Kept, NEW s \in Starts, StartFacts(s), StartBuilds(s)
    PROVE  Kept'
  <1>0. /\ \A r \in Starts : /\ start[r].name \in Names \union {NoName}
                             /\ start[r].kept \subseteq Names
                             /\ start[r].name = NoName <=> start[r].pc \in {"idle", "claiming", "create"}
        /\ NoName \notin Names /\ \A t \in tasks : t.name \in Names
        /\ \A f \in Fills : fill[f].pc # "idle" => fill[f].name \in Names
        /\ owed' = owed /\ fill' = fill /\ pass' = pass /\ minted \subseteq minted'
        /\ \A r \in Starts : r # s => start'[r] = start[r]
        /\ cloud \subseteq Names /\ inflight \subseteq Names
    BY PoolAssumption DEF TypeOK, Named, StartRecs, FillRecs, StartFacts, StartsAlone, Tasks
  <1>1. ASSUME NEW n \in cloud' \ cloud
        PROVE  /\ n = start[s].name /\ start[s].pc = "creating" /\ Building(n) /\ n \in Names
               /\ row[n].st = "claimed" /\ row'[n] = row[n] /\ pass.todo[n] = "none"
               /\ \A t \in tasks : t.name # n
               /\ \A f \in Fills : fill[f].name # n
               /\ \A r \in Starts : r # s => start[r].name # n
    <2>1. n = start[s].name /\ start[s].pc = "creating" /\ n \in Names
      BY <1>0, <1>1 DEF StartBuilds
    <2>2. Building(n)
      BY <2>1 DEF Building
    <2>3. row'[n] = row[n]
      BY <1>0, <2>1 DEF StartFacts, StartsRow, NewlyIts
    <2>4. \A r \in Starts : r # s => start[r].name # n
      BY <1>0, <2>1 DEF Tokens, OneHolder
    <2> QED
      BY <2>1, <2>2, <2>3, <2>4 DEF Kept, BuildingIsApart
  <1>2. ASSUME NEW n \in Names, n \in minted, row[n].st # "ready" PROVE ~NewlyIts(s, n)
    BY <1>2 DEF NewlyIts
  <1>3. ASSUME NEW t \in tasks' \ tasks
        PROVE  /\ t.do # "forget"
               /\ \/ t.name \in start[s].kept
                  \/ t.name = start[s].name /\ start[s].pc \in {"checking", "recording"}
    BY <1>3 DEF StartFacts, StartsTasks, StartBuilds
  <1>4. BuildingIsApart'
    <2> DEFINE Apart(n) ==
            /\ n \in minted /\ row[n].st = "claimed" /\ ~row[n].old /\ pass.todo[n] = "none"
            /\ \A t \in tasks : t.name # n
            /\ \A f \in Fills : fill[f].name # n
            /\ \A r \in Starts : n \notin start[r].kept
            /\ \A r \in Starts : start[r].name = n =>
                  start[r].pc = "creating" /\ n \notin cloud \union inflight
    <2>1. ASSUME NEW n \in Names, Building(n), n = start'[s].name => start'[s].pc # "creating"
          PROVE  \/ ~Building(n)'
                 \/ Apart(n)'
      <3>1. Apart(n)
        BY <2>1 DEF Kept, BuildingIsApart
      <3>2. ~NewlyIts(s, n)
        BY <1>2, <3>1
      <3>3. row'[n] = row[n]
        BY <1>0, <3>1, <3>2 DEF StartFacts, StartsRow
      <3>4. \A t \in tasks' : t.name # n
        BY <1>3, <3>1
      <3>5. \A r \in Starts : n \notin start'[r].kept
        BY <1>0, <3>1 DEF StartFacts, StartsName
      <3>6. start'[s].name = n => start[s].name = n
        BY <1>0, <3>2, <2>1 DEF StartFacts, StartsName
      <3>7. CASE \E r \in Starts : r # s /\ start[r].name = n
        <4>1. PICK r \in Starts : r # s /\ start[r].name = n
          BY <3>7
        <4>2. start[s].name # n /\ \A q \in Starts : q # r => start[q].name # n
          BY <1>0, <2>1, <4>1 DEF Tokens, OneHolder
        <4>3. n \notin cloud' \union inflight'
          BY <1>1, <3>1, <4>1, <4>2 DEF StartBuilds
        <4>4. \A q \in Starts : start'[q].name = n => start'[q].pc = "creating"
          BY <1>0, <3>1, <3>6, <4>2
        <4> QED
          BY <1>0, <3>1, <3>3, <3>4, <3>5, <4>3, <4>4
      <3>8. CASE ~\E r \in Starts : r # s /\ start[r].name = n
        <4>1. ASSUME start'[s].name = n PROVE ~Building(n)'
          <5>1. start[s].name = n /\ start[s].pc = "creating" /\ n \notin inflight
            BY <3>1, <3>6, <4>1
          <5>2. n \notin inflight'
            BY <1>0, <2>1, <4>1, <5>1 DEF StartBuilds
          <5> QED
            BY <1>0, <2>1, <3>8, <4>1, <5>2 DEF Building
        <4>2. ASSUME start'[s].name # n PROVE Apart(n)'
          <5>1. \A r \in Starts : start'[r].name # n
            BY <1>0, <3>8, <4>2
          <5> QED
            BY <1>0, <3>1, <3>3, <3>4, <3>5, <5>1
        <4> QED
          BY <4>1, <4>2
      <3> QED
        BY <3>7, <3>8
    <2>2. ASSUME NEW n \in Names, n = start'[s].name, start'[s].pc = "creating" PROVE Apart(n)'
      <3>1. n \in minted' /\ n \notin minted /\ row'[n].st = "claimed" /\ ~row'[n].old
        BY <2>2 DEF StartBuilds
      <3>2. /\ ~Building(n) /\ pass.todo[n] = "none" /\ n \notin cloud
            /\ \A t \in tasks : t.name # n
            /\ \A f \in Fills : fill[f].name # n
            /\ \A r \in Starts : start[r].name # n /\ n \notin start[r].kept
        BY <3>1, InUseIsMinted
      <3>3. n \notin cloud' \union inflight'
        BY <1>1, <3>2 DEF StartBuilds, Building
      <3>4. \A t \in tasks' : t.name # n
        BY <1>3, <3>2
      <3>5. \A r \in Starts : n \notin start'[r].kept
        BY <1>0, <3>2 DEF StartFacts, StartsName
      <3>6. \A r \in Starts : start'[r].name = n => start'[r].pc = "creating"
        BY <1>0, <2>2, <3>2
      <3> QED
        BY <1>0, <3>1, <3>2, <3>3, <3>4, <3>5, <3>6
    <2>3. ASSUME NEW n \in Names, Building(n)', n = start'[s].name => start'[s].pc # "creating"
          PROVE  Building(n)
      BY <1>0, <2>3 DEF Building, StartBuilds
    <2> QED
      BY <2>1, <2>2, <2>3 DEF BuildingIsApart
  <1>5. FillsAlone'
    <2>1. ASSUME NEW f \in Fills, fill[f].pc # "idle"
          PROVE  /\ \A t \in tasks' : t.name # fill[f].name
                 /\ fill[f].name \notin cloud => fill[f].name \notin cloud'
      <3>1. \A r \in Starts : start[r].name # fill[f].name /\ fill[f].name \notin start[r].kept
        BY <2>1 DEF Stands, FillsAreApart
      <3> QED
        BY <1>1, <1>3, <2>1, <3>1 DEF Kept, FillsAlone
    <2> QED
      BY <1>0, <2>1 DEF Kept, FillsAlone
  <1>6. ForgottenIsGone'
    <2>1. cloud' \subseteq minted'
      BY <1>0, <1>1 DEF Kept, ForgottenIsGone, BuildingIsApart
    <2>2. ASSUME NEW r \in Starts, start'[r].pc = "dropping" PROVE start'[r].name \notin cloud'
      <3>1. CASE r # s
        <4>1. start[r].name = start'[r].name /\ start[r].name \notin cloud
          BY <1>0, <2>2, <3>1 DEF Kept, ForgottenIsGone
        <4>2. start[r].name \notin cloud' \ cloud
          BY <1>1, <3>1
        <4> QED
          BY <4>1, <4>2
      <3>2. CASE r = s
        <4>1. start[s].pc = "creating" => start[s].name \notin cloud
          <5>1. ASSUME start[s].pc = "creating" PROVE start[s].name \in Names /\ Building(start[s].name)
            BY <1>0, <5>1 DEF Building
          <5> QED
            BY <5>1 DEF Kept, BuildingIsApart
        <4> QED
          BY <2>2, <3>2, <4>1 DEF StartBuilds
      <3> QED
        BY <3>1, <3>2
    <2>3. ASSUME NEW t \in tasks', t.do = "forget" PROVE t.name \notin cloud'
      BY <1>1, <1>3, <2>3 DEF Kept, ForgottenIsGone
    <2>4. ASSUME NEW n \in Names, Registered(n) PROVE Registered(n)'
      <3>1. PICK u \in Users : registry[u] = n
        BY <2>4 DEF Registered
      <3>2. registry'[u] = n
        BY <1>0, <3>1 DEF StartFacts, StartsRecord
      <3> QED
        BY <3>2 DEF Registered
    <2>5. ASSUME NEW n \in Names, pass.todo[n] # "none"
          PROVE  n \in minted' /\ (n \notin cloud => n \notin cloud')
      BY <1>0, <1>1, <2>5 DEF Kept, ForgottenIsGone
    <2> QED
      BY <1>0, <2>1, <2>2, <2>3, <2>4, <2>5 DEF Kept, ForgottenIsGone
  <1>7. NoOrphan'
    <2>1. ASSUME NEW n \in cloud', n \notin cloud PROVE ~NoRow(n)'
      BY <1>1, <2>1 DEF NoRow
    <2>2. ASSUME NEW n \in cloud, n \in cloud'
          PROVE  ~NoRow(n)' \/ Registered(n)' \/ n \in owed' \/ \E f \in Fills : fill'[f].name = n
      <3>1. ASSUME Registered(n) PROVE Registered(n)'
        <4>1. PICK u \in Users : registry[u] = n
          BY <3>1 DEF Registered
        <4>2. registry'[u] = n
          BY <1>0, <4>1 DEF StartFacts, StartsRecord
        <4> QED
          BY <4>2 DEF Registered
      <3>2. CASE NoRow(n)
        BY <1>0, <2>2, <3>1, <3>2 DEF Kept, NoOrphan
      <3>3. CASE ~NoRow(n) /\ NoRow(n)'
        <4>1. n = start[s].name /\ start[s].pc \in {"forgetting", "releasing", "dropping"}
          BY <1>0, <3>3 DEF StartFacts, StartsRow, NoRow
        <4>2. start[s].pc # "dropping"
          BY <2>2, <4>1 DEF Kept, ForgottenIsGone
        <4>3. Registered(n)
          BY <4>1, <4>2 DEF Stands, RecordedStands, Recorded, Registered, TypeOK, StartRecs
        <4> QED
          BY <3>1, <4>3
      <3> QED
        BY <3>2, <3>3
    <2> QED
      BY <2>1, <2>2 DEF NoOrphan
  <1> QED
    BY <1>4, <1>5, <1>6, <1>7 DEF Kept

LEMMA FillKeeps ==
    ASSUME TypeOK, Named, Tokens, Stands, Kept, NEW f \in Fills, FillFacts(f), FillBuilds(f)
    PROVE  Kept'
  <1>0. /\ \A g \in Fills : fill[g].pc # "idle" => fill[g].name \in Names
        /\ \A g \in Fills : fill[g].name = NoName <=> fill[g].pc = "idle"
        /\ NoName \notin Names /\ cloud \subseteq Names /\ IdleFill.name = NoName
        /\ \A t \in tasks : t.name \in Names
        /\ start' = start /\ registry' = registry /\ owed' = owed /\ tasks' = tasks /\ pass' = pass
        /\ inflight' = inflight /\ minted \subseteq minted'
        /\ \A g \in Fills : g # f => fill'[g] = fill[g]
    BY PoolAssumption DEF TypeOK, Named, FillRecs, IdleFill, FillFacts, FillsOnly, FillBuilds, Tasks
  <1>1. ASSUME NEW n \in Names, n \in minted PROVE ~NewlyFilled(f, n)
    BY <1>1 DEF NewlyFilled
  <1>2. ASSUME NEW n \in cloud' \ cloud
        PROVE  fill[f].pc = "creating" /\ fill[f].name = n /\ fill'[f].name = n /\ n \in Names
    BY <1>0, <1>2 DEF FillBuilds
  <1>3. BuildingIsApart'
    <2>1. ASSUME NEW n \in Names, Building(n)
          PROVE  /\ row'[n] = row[n] /\ n \in minted'
                 /\ \A g \in Fills : fill'[g].name # n
                 /\ n \notin cloud => n \notin cloud'
      <3>1. n \in minted /\ \A g \in Fills : fill[g].name # n
        BY <2>1 DEF Kept, BuildingIsApart
      <3>2. ~NewlyFilled(f, n)
        BY <1>1, <3>1
      <3> QED
        BY <1>0, <1>2, <3>1, <3>2 DEF FillFacts, FillsRow, FillsName
    <2>2. \A n : Building(n)' <=> Building(n)
      BY <1>0 DEF Building
    <2> QED
      BY <1>0, <2>1, <2>2 DEF Kept, BuildingIsApart
  <1>4. FillsAlone'
    <2>1. ASSUME NEW g \in Fills, g # f, fill[g].pc # "idle"
          PROVE  fill[g].name \notin cloud => fill[g].name \notin cloud'
      <3>1. fill[g].name # fill[f].name
        BY <2>1 DEF Stands, FillsAreApart
      <3> QED
        BY <1>2, <3>1
    <2>2. ASSUME NewlyFilled(f, fill'[f].name)
          PROVE  /\ \A t \in tasks : t.name # fill'[f].name
                 /\ pass.todo[fill'[f].name] # "judge claimed" /\ fill'[f].name \notin cloud'
      <3>1. PICK n \in Names : n = fill'[f].name /\ n \notin minted
        BY <2>2 DEF NewlyFilled
      <3>2. fill[f].pc = "idle"
        BY <2>2 DEF NewlyFilled
      <3> QED
        BY <1>2, <3>1, <3>2, InUseIsMinted
    <2>3. ASSUME fill[f].pc # "idle", fill'[f].pc # "idle"
          PROVE  /\ \A t \in tasks : t.name # fill'[f].name
                 /\ pass.todo[fill'[f].name] # "judge claimed"
                 /\ fill'[f].pc \in {"queued", "creating", "forgetting"} => fill'[f].name \notin cloud'
      <3>1. fill'[f].name = fill[f].name /\ fill'[f].pc # "queued"
        BY <2>3 DEF FillBuilds
      <3>2. /\ \A t \in tasks : t.name # fill[f].name
            /\ pass.todo[fill[f].name] # "judge claimed"
            /\ fill[f].pc \in {"queued", "creating"} => fill[f].name \notin cloud
        BY <2>3 DEF Kept, FillsAlone
      <3>3. fill'[f].pc \in {"creating", "forgetting"} => fill'[f].name \notin cloud'
        <4>1. fill'[f].pc = "creating" => fill[f].pc = "queued" /\ cloud' = cloud
          BY DEF FillBuilds
        <4>2. fill'[f].pc = "forgetting" =>
                (fill[f].pc = "creating" /\ cloud' = cloud) \/ fill[f].name \notin cloud'
          BY DEF FillBuilds
        <4>3. PICK n : n = fill[f].name
          OBVIOUS
        <4>4. fill[f].pc \in {"queued", "creating"} => n \notin cloud
          BY <3>2, <4>3
        <4>5. CASE fill'[f].pc = "creating"
          BY <3>1, <4>1, <4>3, <4>4, <4>5
        <4>6. CASE fill'[f].pc = "forgetting"
          BY <3>1, <4>2, <4>3, <4>4, <4>6
        <4> QED
          BY <4>5, <4>6
      <3> QED
        BY <3>1, <3>2, <3>3
    <2>4. fill[f].pc = "idle" /\ fill'[f].pc # "idle" => NewlyFilled(f, fill'[f].name)
      BY DEF FillFacts, FillsName, IdleFill
    <2>5. ASSUME NEW g \in Fills, fill'[g].pc # "idle"
          PROVE  /\ \A t \in tasks : t.name # fill'[g].name
                 /\ pass.todo[fill'[g].name] # "judge claimed"
                 /\ fill'[g].pc \in {"queued", "creating", "forgetting"} => fill'[g].name \notin cloud'
      <3>1. CASE g = f
        BY <2>2, <2>3, <2>4, <2>5, <3>1
      <3>2. CASE g # f
        BY <1>0, <2>1, <2>5, <3>2 DEF Kept, FillsAlone
      <3> QED
        BY <3>1, <3>2
    <2> QED
      BY <1>0, <2>5 DEF FillsAlone
  <1>5. ASSUME NEW n \in Names, fill[f].name = n, fill'[f].name # n
        PROVE  n \notin cloud' \/ (row'[n].st # "none" /\ pass.todo[n] # "forget")
    <2>1. fill[f].pc # "idle"
      BY <1>0, <1>5
    <2>2. /\ cloud' = cloud
          /\ \/ fill[f].pc \in {"queued", "forgetting"}
             \/ row[n].st = "filling" /\ row'[n].st # "none"
             \/ row'[n].st # "none" /\ pass.todo[n] # "forget"
      BY <1>5, <2>1 DEF FillBuilds
    <2>3. fill[f].pc \in {"queued", "forgetting"} => n \notin cloud
      BY <1>5, <2>1 DEF Kept, FillsAlone
    <2>4. row[n].st = "filling" => pass.todo[n] # "forget"
      BY DEF Stands, ListIsSound, Spent, Closed
    <2> QED
      BY <2>2, <2>3, <2>4
  <1>6. ForgottenIsGone'
    <2>1. cloud' \subseteq minted'
      <3>1. ASSUME NEW n \in cloud' \ cloud PROVE n \in minted
        BY <1>2, <3>1 DEF Stands, FillsAreApart
      <3>2. cloud \subseteq minted
        BY DEF Kept, ForgottenIsGone
      <3> QED
        BY <1>0, <3>1, <3>2
    <2>2. ASSUME NEW s \in Starts, start[s].name \notin cloud PROVE start[s].name \notin cloud'
      BY <1>2, <2>2 DEF Stands, FillsAreApart
    <2>3. ASSUME NEW t \in tasks, t.name \notin cloud PROVE t.name \notin cloud'
      BY <1>2, <2>3 DEF Kept, FillsAlone
    <2>4. ASSUME NEW n \in Names, pass.todo[n] = "forget"
          PROVE  n \notin cloud' \/ \E g \in Fills : fill'[g].name = n
      <3>1. CASE fill[f].name = n
        BY <1>5, <2>4, <3>1
      <3>2. CASE fill[f].name # n
        <4>1. n \notin cloud \/ \E g \in Fills : g # f /\ fill[g].name = n
          BY <2>4, <3>2 DEF Kept, ForgottenIsGone
        <4>2. n \notin cloud' \ cloud
          BY <1>2, <3>2
        <4> QED
          BY <1>0, <4>1, <4>2
      <3> QED
        BY <3>1, <3>2
    <2>5. ASSUME NEW n \in Names, pass.todo[n] = "judge claimed", n \notin cloud PROVE n \notin cloud'
      BY <1>2, <2>5 DEF Kept, FillsAlone
    <2>6. \A n : Registered(n)' <=> Registered(n)
      BY <1>0 DEF Registered
    <2> QED
      BY <1>0, <2>1, <2>2, <2>3, <2>4, <2>5, <2>6 DEF Kept, ForgottenIsGone
  <1>7. NoOrphan'
    <2>1. ASSUME NEW n \in cloud'
          PROVE  ~NoRow(n)' \/ Registered(n)' \/ n \in owed' \/ \E g \in Fills : fill'[g].name = n
      <3>1. CASE n \notin cloud
        BY <1>2, <2>1, <3>1
      <3>2. CASE n \in cloud /\ fill[f].name = n
        BY <1>0, <1>5, <2>1, <3>2 DEF NoRow
      <3>3. CASE n \in cloud /\ fill[f].name # n
        <4>1. row'[n] = row[n] \/ row'[n].st = "filling"
          BY <1>0, <3>3 DEF FillFacts, FillsRow, NewlyFilled
        <4>2. ~NoRow(n) \/ Registered(n) \/ n \in owed \/ \E g \in Fills : g # f /\ fill[g].name = n
          BY <3>3 DEF Kept, NoOrphan
        <4> QED
          BY <1>0, <4>1, <4>2 DEF NoRow, Registered
      <3> QED
        BY <3>1, <3>2, <3>3
    <2> QED
      BY <2>1 DEF NoOrphan
  <1> QED
    BY <1>3, <1>4, <1>6, <1>7 DEF Kept

\* A step that makes nothing: a detached task's, the pass's, or one elsewhere.
MakesNothing ==
    /\ fill' = fill /\ minted' = minted /\ cloud' \subseteq cloud /\ inflight' \subseteq inflight
    /\ \A s \in Starts : start'[s] = start[s]
                         \/ (start'[s].name = NoName /\ start'[s].pc = "idle" /\ start'[s].kept = {})
    /\ \A t \in tasks' : \E r \in tasks : r.name = t.name
    /\ \A n \in Names : Building(n) => row'[n] = row[n] /\ pass'.todo[n] = "none"
    /\ \A n \in Names : pass'.todo[n] # "none" => n \in minted
    /\ \A n \in Names : pass'.todo[n] = "judge claimed" =>
          pass.todo[n] = "judge claimed" \/ row[n].st = "claimed"

LEMMA MakesNothingKeeps ==
    ASSUME TypeOK, Named, Tokens, Stands, Kept, MakesNothing
    PROVE  BuildingIsApart' /\ FillsAlone' /\ cloud' \subseteq minted'
           /\ \A s \in Starts : start'[s].pc = "dropping" => start'[s].name \notin cloud'
  <1>0. /\ NoName \notin Names /\ \A n \in Names : Building(n)' => Building(n)
        /\ \A g \in Fills : fill[g].pc # "idle" => fill[g].name \in Names
    BY PoolAssumption DEF MakesNothing, Building, TypeOK, Named, FillRecs
  <1>1. BuildingIsApart'
    <2>1. ASSUME NEW n \in Names, Building(n)
          PROVE  /\ n \in minted' /\ row'[n].st = "claimed" /\ ~row'[n].old /\ pass'.todo[n] = "none"
                 /\ \A t \in tasks' : t.name # n
                 /\ \A f \in Fills : fill'[f].name # n
                 /\ \A s \in Starts : n \notin start'[s].kept
                 /\ \A s \in Starts : start'[s].name = n =>
                       start'[s].pc = "creating" /\ n \notin cloud' \union inflight'
      <3>1. /\ n \in minted /\ row[n].st = "claimed" /\ ~row[n].old
            /\ \A t \in tasks : t.name # n
            /\ \A f \in Fills : fill[f].name # n
            /\ \A s \in Starts : n \notin start[s].kept
            /\ \A s \in Starts : start[s].name = n =>
                  start[s].pc = "creating" /\ n \notin cloud \union inflight
        BY <2>1 DEF Kept, BuildingIsApart
      <3>2. /\ n \in minted' /\ row'[n] = row[n] /\ pass'.todo[n] = "none"
            /\ \A t \in tasks' : t.name # n
            /\ \A f \in Fills : fill'[f].name # n
        BY <2>1, <3>1 DEF MakesNothing
      <3>3. ASSUME NEW s \in Starts
            PROVE  /\ n \notin start'[s].kept
                   /\ start'[s].name = n => start'[s].pc = "creating" /\ n \notin cloud' \union inflight'
        <4>1. start'[s] = start[s] \/ (start'[s].name = NoName /\ start'[s].kept = {})
          BY DEF MakesNothing
        <4>2. start[s].name = n => n \notin cloud' \union inflight'
          BY <3>1 DEF MakesNothing
        <4> QED
          BY <1>0, <3>1, <4>1, <4>2
      <3>4. /\ \A s \in Starts : n \notin start'[s].kept
            /\ \A s \in Starts : start'[s].name = n =>
                  start'[s].pc = "creating" /\ n \notin cloud' \union inflight'
        BY <3>3
      <3> QED
        BY <3>1, <3>2, <3>4
    <2> QED
      BY <1>0, <2>1 DEF BuildingIsApart
  <1>2. FillsAlone'
    <2>1. ASSUME NEW f \in Fills, fill[f].pc # "idle" PROVE pass'.todo[fill[f].name] # "judge claimed"
      <3>1. PICK n \in Names : n = fill[f].name
        BY <1>0, <2>1
      <3>2. row[n].st # "claimed" /\ pass.todo[n] # "judge claimed"
        BY <2>1, <3>1 DEF Stands, FillsAreApart, Kept, FillsAlone
      <3>3. pass'.todo[n] = "judge claimed" => pass.todo[n] = "judge claimed" \/ row[n].st = "claimed"
        BY DEF MakesNothing
      <3> QED
        BY <3>1, <3>2, <3>3
    <2>2. ASSUME NEW f \in Fills, fill[f].pc # "idle", NEW t \in tasks' PROVE t.name # fill[f].name
      <3>1. PICK r \in tasks : r.name = t.name
        BY DEF MakesNothing
      <3> QED
        BY <2>2, <3>1 DEF Kept, FillsAlone
    <2> QED
      BY <2>1, <2>2 DEF Kept, FillsAlone, MakesNothing
  <1> QED
    BY <1>1, <1>2 DEF Kept, ForgottenIsGone, MakesNothing

LEMMA TaskKeeps ==
    ASSUME TypeOK, Named, Tokens, Stands, Kept, Reliable, NEW t \in tasks, TaskStep(t) \/ TaskDies(t)
    PROVE  Kept'
  <1>0. /\ t.name \in Names /\ t \in Tasks /\ ~LedgerFails
        /\ \A n \in Names : Building(n) => n # t.name
    BY DEF TypeOK, Tasks, Kept, BuildingIsApart, Reliable
  <1>1. /\ start' = start /\ fill' = fill /\ registry' = registry /\ owed' = owed /\ pass' = pass
        /\ minted' = minted /\ inflight' = inflight /\ cloud' \subseteq cloud
        /\ \A n \in Names : n # t.name => row'[n] = row[n]
        /\ row'[t.name].st = "none" => row[t.name].st = "none" \/ t.name \notin cloud
    <2>1. CASE TaskRetires(t) \/ TaskPutsBack(t)
      <3>1. row' = row \/ row' = Moved(t.name, "retiring") \/ row' = Moved(t.name, "ready")
        BY <2>1 DEF TaskRetires, TaskPutsBack, Try
      <3> QED
        BY <1>0, <2>1, <3>1, RowOf DEF TaskRetires, TaskPutsBack
    <2>2. CASE TaskForgets(t)
      <3>1. row' = Forgotten(t.name, 1) /\ t.name \notin cloud
        BY <1>0, <2>2 DEF TaskForgets, Try, Kept, ForgottenIsGone
      <3> QED
        BY <1>0, <2>2, <3>1, RowOf DEF TaskForgets
    <2>3. CASE TaskDeletes(t) \/ TaskDies(t)
      BY <2>3 DEF TaskDeletes, TaskDies
    <2> QED
      BY <2>1, <2>2, <2>3 DEF TaskStep
  <1>2. ASSUME NEW r \in tasks', r \notin tasks
        PROVE  r.name = t.name /\ (r.do = "forget" => t.name \notin cloud')
    <2>1. ASSUME NEW do, Then(t, do) PROVE r = [do |-> do, name |-> t.name]
      <3>1. [t EXCEPT !.do = do] = [do |-> do, name |-> t.name]
        BY <1>0 DEF Tasks
      <3> QED
        BY <1>2, <2>1, <3>1 DEF Then, Becomes
    <2>2. ~Becomes(t, {})
      BY <1>2 DEF Becomes
    <2>3. CASE TaskRetires(t)
      BY <2>1, <2>3 DEF TaskRetires
    <2>4. CASE TaskDeletes(t)
      BY <2>1, <2>2, <2>4 DEF TaskDeletes
    <2> QED
      BY <2>2, <2>3, <2>4 DEF TaskStep, TaskForgets, TaskPutsBack, TaskDies
  <1>3. MakesNothing
    BY <1>0, <1>1, <1>2 DEF MakesNothing, Kept, BuildingIsApart, ForgottenIsGone
  <1>4. ForgottenIsGone'
    <2>1. \A r \in tasks' : r.do = "forget" => r.name \notin cloud'
      BY <1>1, <1>2 DEF Kept, ForgottenIsGone
    <2>2. \A n : Registered(n)' <=> Registered(n)
      BY <1>1 DEF Registered
    <2> QED
      BY <1>1, <1>3, <2>1, <2>2, MakesNothingKeeps DEF Kept, ForgottenIsGone
  <1>5. NoOrphan'
    <2>1. ASSUME NEW n \in cloud', n \in cloud PROVE NoRow(n)' => NoRow(n)
      BY <1>1, <2>1 DEF NoRow, TypeOK
    <2> QED
      BY <1>1, <2>1 DEF Kept, NoOrphan, Registered
  <1> QED
    BY <1>3, <1>4, <1>5, MakesNothingKeeps DEF Kept

LEMMA PassKeeps ==
    ASSUME TypeOK, Named, Tokens, Stands, Kept, PassStep \/ PassDies
    PROVE  Kept'
  <1>0. /\ start' = start /\ fill' = fill /\ registry' = registry /\ owed' = owed /\ tasks' = tasks
        /\ minted' = minted /\ inflight' = inflight /\ cloud' \subseteq cloud
        /\ cloud \subseteq Names /\ row \in Ledger
        /\ \A n : Registered(n)' <=> Registered(n)
    BY DEF PassStep, PassDies, PassWork, PassBegin, PassReadsRegistry, PassReadsDebts, PassEnds,
       PassForgetsHeld, PassRetires, PassDeletes, PassRefused, PassForgets, TypeOK, Registered
  <1>1. ASSUME \A n \in Names : pass.todo[n] = "none" => row'[n] = row[n],
               \A n \in Names : row'[n].st = "none" =>
                    row[n].st = "none" \/ n \notin cloud' \/ Registered(n) \/ n \in owed
                    \/ \E f \in Fills : fill[f].name = n,
               \A n \in Names :
                    /\ pass'.todo[n] # "none" => n \in minted
                    /\ Building(n) => pass'.todo[n] = "none"
                    /\ pass'.todo[n] = "judge claimed" =>
                          pass.todo[n] = "judge claimed" \/ row[n].st = "claimed"
                    /\ pass'.todo[n] = "forget" => n \notin cloud' \/ \E f \in Fills : fill[f].name = n
                    /\ pass'.todo[n] = "judge claimed" /\ n \in pass'.held =>
                          n \notin cloud' \/ Registered(n) \/ n \in owed
        PROVE  Kept'
    <2>1. MakesNothing
      BY <1>0, <1>1 DEF MakesNothing, Kept, BuildingIsApart
    <2>2. ForgottenIsGone'
      BY <1>0, <1>1, <2>1, MakesNothingKeeps DEF Kept, ForgottenIsGone
    <2>3. NoOrphan'
      <3>1. ASSUME NEW n \in cloud'
            PROVE  ~NoRow(n)' \/ Registered(n)' \/ n \in owed' \/ \E f \in Fills : fill'[f].name = n
        BY <1>0, <1>1 DEF Kept, NoOrphan, NoRow
      <3> QED
        BY <3>1 DEF NoOrphan
    <2> QED
      BY <2>1, <2>2, <2>3, MakesNothingKeeps DEF Kept
  <1>2. \A n \in Names :
            /\ pass.todo[n] # "none" => n \in minted
            /\ Building(n) => pass.todo[n] = "none" /\ row[n].st = "claimed" /\ ~row[n].old
            /\ pass.todo[n] = "forget" => n \notin cloud \/ \E f \in Fills : fill[f].name = n
            /\ pass.todo[n] = "judge claimed" /\ n \in pass.held =>
                  n \notin cloud \/ Registered(n) \/ n \in owed
            /\ row[n].st # "none" => n \in minted
    BY <1>0 DEF Kept, ForgottenIsGone, BuildingIsApart, Tokens, LiveIsMinted, Stands, RetiringIsSpent,
       Spent, Closed, Ledger, Rows, RowStates
  <1>3. CASE PassBegin
    <2>1. PICK E \in SUBSET Claimable :
            pass' = [held |-> {}, todo |-> Plan(E), gen |-> [n \in Names |-> row[n].gen],
                     pc |-> IF \E n \in Names : Plan(E)[n] = "judge claimed"
                            THEN "registry" ELSE "work"]
      BY <1>3 DEF PassBegin, Surplus
    <2>2. ASSUME NEW n \in Names
          PROVE  /\ Plan(E)[n] = "judge claimed" => row[n].st = "claimed" /\ row[n].old
                 /\ Plan(E)[n] # "none" => row[n].st # "none" /\ (row[n].st = "claimed" => row[n].old)
                 /\ Plan(E)[n] # "forget"
      BY DEF Plan, Overdue, Claimable
    <2>3. pass'.todo = Plan(E) /\ pass'.held = {} /\ row' = row
      BY <1>3, <2>1 DEF PassBegin
    <2>4. ASSUME NEW n \in Names
          PROVE  /\ pass'.todo[n] # "none" => n \in minted
                 /\ Building(n) => pass'.todo[n] = "none"
                 /\ pass'.todo[n] = "judge claimed" => row[n].st = "claimed"
                 /\ pass'.todo[n] # "forget" /\ n \notin pass'.held
      <3>1. pass'.todo[n] = Plan(E)[n] /\ n \notin pass'.held
        BY <2>3
      <3>2. Plan(E)[n] # "none" => n \in minted
        BY <1>2, <2>2
      <3>3. ASSUME Building(n) PROVE Plan(E)[n] = "none"
        <4>1. row[n].st = "claimed" /\ ~row[n].old
          BY <1>2, <3>3
        <4> QED
          BY <2>2, <4>1
      <3> QED
        BY <2>2, <3>1, <3>2, <3>3
    <2> QED
      BY <1>1, <2>3, <2>4
  <1>4. CASE PassReadsRegistry
    <2>1. pass'.todo = pass.todo /\ pass'.held = {n \in Stuck : Registered(n)} /\ row' = row /\ cloud' = cloud
      BY <1>4 DEF PassReadsRegistry, TypeOK, PassRecs
    <2> QED
      BY <1>1, <1>2, <2>1
  <1>5. CASE PassReadsDebts
    <2>1. pass'.todo = pass.todo /\ pass'.held = pass.held \union (Stuck \intersect owed) /\ row' = row
          /\ cloud' = cloud
      BY <1>5 DEF PassReadsDebts, TypeOK, PassRecs
    <2> QED
      BY <1>1, <1>2, <2>1
  <1>6. CASE PassEnds \/ PassDies
    <2>1. row' = row /\ \A n \in Names : pass'.todo[n] = "none"
      BY <1>6 DEF PassEnds, PassDies, IdlePass, NoTodo
    <2> QED
      BY <1>1, <2>1
  <1>7. ASSUME NEW n \in Names, NEW todo, Do(n, todo), pass.todo[n] # "none",
               \A m \in Names : m # n => row'[m] = row[m],
               row'[n].st = "none" => row[n].st = "none" \/ n \notin cloud' \/ Registered(n) \/ n \in owed
                                      \/ \E f \in Fills : fill[f].name = n,
               todo # "judge claimed", todo = "forget" => n \notin cloud'
        PROVE  Kept'
    <2>1. /\ pass'.held = pass.held /\ pass'.todo[n] = todo
          /\ \A m \in Names : m # n => pass'.todo[m] = pass.todo[m]
      BY <1>7, DoOne
    <2>2. n \in minted /\ ~Building(n)
      BY <1>2, <1>7
    <2>3. \A m \in Names : pass.todo[m] = "none" => row'[m] = row[m]
      BY <1>7
    <2>4. ASSUME NEW m \in Names, row'[m].st = "none"
          PROVE  row[m].st = "none" \/ m \notin cloud' \/ Registered(m) \/ m \in owed
                 \/ \E f \in Fills : fill[f].name = m
      BY <1>7, <2>4
    <2>5. ASSUME NEW m \in Names
          PROVE  /\ pass'.todo[m] # "none" => m \in minted
                 /\ Building(m) => pass'.todo[m] = "none"
                 /\ pass'.todo[m] = "judge claimed" =>
                       pass.todo[m] = "judge claimed" \/ row[m].st = "claimed"
                 /\ pass'.todo[m] = "forget" => m \notin cloud' \/ \E f \in Fills : fill[f].name = m
                 /\ pass'.todo[m] = "judge claimed" /\ m \in pass'.held =>
                       m \notin cloud' \/ Registered(m) \/ m \in owed
      <3>1. CASE m = n
        BY <1>7, <2>1, <2>2, <3>1
      <3>2. CASE m # n
        <4>1. pass'.todo[m] = pass.todo[m] /\ (m \notin cloud => m \notin cloud')
          BY <1>0, <2>1, <3>2
        <4> QED
          BY <1>2, <2>1, <4>1
      <3> QED
        BY <3>1, <3>2
    <2> QED
      BY <1>1, <2>3, <2>4, <2>5
  <1>8. ASSUME NEW n \in Names, PassForgetsHeld(n) PROVE Kept'
    <2>1. /\ row' = Forgotten(n, pass.gen[n]) /\ cloud' = cloud /\ Do(n, "none")
          /\ pass.todo[n] = "judge claimed" /\ n \in pass.held
      BY <1>8 DEF PassForgetsHeld
    <2>2. ASSUME NEW m \in Names, m # n PROVE row'[m] = row[m]
      <3>1. row' = Forgotten(n, pass.gen[n])
        BY <2>1
      <3> QED
        BY <2>2, <3>1, RowOf
    <2> QED
      BY <1>2, <1>7, <2>1, <2>2
  <1>9. ASSUME NEW n \in Names, PassRetires(n) PROVE Kept'
    <2>1. PICK was \in {"filling", "claimed", "ready"} :
            /\ pass.todo[n] = CASE was = "filling" -> "judge filling"
                                [] was = "claimed" -> "judge claimed"
                                [] was = "ready" -> "retire"
            /\ Move(n, pass.gen[n], was, "retiring")
            /\ Do(n, IF Holds(n, pass.gen[n], was) THEN "delete" ELSE "none")
      BY <1>9 DEF PassRetires
    <2>2. pass.todo[n] # "none"
      BY <2>1
    <2>3. row' = row \/ row' = Moved(n, "retiring")
      BY <2>1 DEF Move
    <2>4. /\ \A m \in Names : m # n => row'[m] = row[m]
          /\ row'[n].st = "none" => row[n].st = "none"
      BY <2>3, RowOf
    <2> QED
      BY <1>7, <2>1, <2>2, <2>4
  <1>10. ASSUME NEW n \in Names, PassDeletes(n) \/ PassRefused(n) PROVE Kept'
    BY <1>7, <1>10 DEF PassDeletes, PassRefused
  <1>11. ASSUME NEW n \in Names, PassForgets(n) PROVE Kept'
    <2>1. row' = Forgotten(n, pass.gen[n]) /\ cloud' = cloud /\ Do(n, "none") /\ pass.todo[n] = "forget"
      BY <1>11 DEF PassForgets
    <2>2. ASSUME NEW m \in Names, m # n PROVE row'[m] = row[m]
      <3>1. row' = Forgotten(n, pass.gen[n])
        BY <2>1
      <3> QED
        BY <2>2, <3>1, RowOf
    <2> QED
      BY <1>2, <1>7, <2>1, <2>2
  <1> QED
    BY <1>3, <1>4, <1>5, <1>6, <1>8, <1>9, <1>10, <1>11 DEF PassStep, PassWork

LEMMA ElsewhereKeeps ==
    ASSUME TypeOK, Named, Tokens, Stands, Kept, Elsewhere
    PROVE  Kept'
  <1>0. /\ start \in [Starts -> StartRecs] /\ row \in Ledger /\ cloud \subseteq Names
        /\ registry \in [Users -> Names \union {NoName}] /\ inflight \subseteq Names
        /\ \A r \in tasks : r.name \in Names
        /\ \A n \in Names :
              /\ pass.todo[n] # "none" => n \in minted
              /\ Building(n) => pass.todo[n] = "none" /\ row[n].st = "claimed"
    BY DEF TypeOK, Tasks, Kept, BuildingIsApart, ForgottenIsGone
  <1>1. ASSUME MakesNothing, tasks' = tasks, pass' = pass,
               \A n \in Names : row'[n].st = row[n].st,
               \A n \in Names : n \in cloud' /\ (Registered(n) \/ n \in owed) =>
                    Registered(n)' \/ n \in owed'
        PROVE  Kept'
    <2>1. ForgottenIsGone'
      BY <1>0, <1>1, MakesNothingKeeps DEF Kept, ForgottenIsGone, MakesNothing
    <2>2. NoOrphan'
      <3>1. ASSUME NEW n \in cloud'
            PROVE  ~NoRow(n)' \/ Registered(n)' \/ n \in owed' \/ \E f \in Fills : fill'[f].name = n
        <4>1. n \in cloud /\ n \in Names /\ fill' = fill /\ row'[n].st = row[n].st
          BY <1>0, <1>1, <3>1 DEF MakesNothing
        <4>2. ~NoRow(n) \/ Registered(n) \/ n \in owed \/ \E f \in Fills : fill[f].name = n
          BY <4>1 DEF Kept, NoOrphan
        <4>3. NoRow(n)' => NoRow(n)
          BY <4>1 DEF NoRow
        <4>4. Registered(n) \/ n \in owed => Registered(n)' \/ n \in owed'
          BY <1>1, <3>1, <4>1
        <4> QED
          BY <4>1, <4>2, <4>3, <4>4
      <3> QED
        BY <3>1 DEF NoOrphan
    <2> QED
      BY <1>1, <2>1, <2>2, MakesNothingKeeps DEF Kept
  <1>2. ASSUME NEW s \in Starts, Leave(s) \/ Owe(s) PROVE Kept'
    <2>1. /\ start'[s].name = NoName /\ start'[s].pc = "idle" /\ start'[s].kept = {}
          /\ \A r \in Starts : r # s => start'[r] = start[r]
          /\ cloud' \subseteq cloud /\ owed \subseteq owed'
          /\ UNCHANGED <<row, inflight, minted, registry, fill, tasks, pass>>
      BY <1>0, <1>2 DEF Leave, Owe, IdleStart
    <2>2. MakesNothing
      BY <1>0, <2>1 DEF MakesNothing
    <2> QED
      BY <1>1, <2>1, <2>2 DEF Registered
  <1>3. ASSUME NEW u \in Users, ClearRecord(u) PROVE Kept'
    <2>1. /\ registry' = [registry EXCEPT ![u] = NoName]
          /\ UNCHANGED <<row, image, cloud, inflight, minted, owed, start, fill, tasks, pass>>
          /\ registry[u] \in owed \/ registry[u] \notin cloud
      BY <1>3 DEF ClearRecord
    <2>2. ASSUME NEW n \in Names, n \in cloud, Registered(n) PROVE Registered(n)' \/ n \in owed
      <3>1. PICK v \in Users : registry[v] = n
        BY <2>2 DEF Registered
      <3>2. CASE v = u
        BY <2>1, <2>2, <3>1, <3>2
      <3>3. CASE v # u
        <4>1. registry'[v] = n
          BY <1>0, <2>1, <3>1, <3>3
        <4> QED
          BY <4>1 DEF Registered
      <3> QED
        BY <3>2, <3>3
    <2>3. MakesNothing
      BY <1>0, <2>1 DEF MakesNothing
    <2> QED
      BY <1>1, <2>1, <2>2, <2>3
  <1>4. ASSUME NEW u \in Users, Reap(u) PROVE Kept'
    <2>1. MakesNothing
      BY <1>0, <1>4 DEF Reap, MakesNothing
    <2> QED
      BY <1>1, <1>4, <2>1 DEF Reap, Registered
  <1>5. ASSUME NEW m \in Names, Settle(m) PROVE Kept'
    <2>1. MakesNothing
      BY <1>0, <1>5 DEF Settle, MakesNothing
    <2> QED
      BY <1>1, <1>5, <2>1 DEF Settle, Registered
  <1>6. ASSUME NEW m \in Names, GrowOld(m) PROVE Kept'
    <2>1. ~Building(m)
      BY <1>6 DEF GrowOld, Busy, Building
    <2>2. \A n \in Names : row'[n].st = row[n].st /\ (n # m => row'[n] = row[n])
      BY <1>0, <1>6 DEF GrowOld, Ledger, Rows
    <2>3. MakesNothing
      BY <1>0, <1>6, <2>1, <2>2 DEF GrowOld, MakesNothing
    <2> QED
      BY <1>1, <1>6, <2>2, <2>3 DEF GrowOld, Registered
  <1>7. CASE NewImage
    <2>1. MakesNothing
      BY <1>0, <1>7 DEF NewImage, MakesNothing
    <2> QED
      BY <1>1, <1>7, <2>1 DEF NewImage, Registered
  <1>8. ASSUME NEW m \in Names, Landing(m) PROVE Kept'
    <2>1. /\ m \in inflight /\ inflight' = inflight \ {m} /\ cloud' \subseteq cloud \union {m}
          /\ UNCHANGED <<row, image, minted, registry, owed, start, fill, tasks, pass>>
      BY <1>8 DEF Landing
    <2>2. /\ m \in minted /\ row[m].st = "claimed" /\ pass.todo[m] = "none"
          /\ \A t \in tasks : t.name # m
          /\ \A f \in Fills : fill[f].name # m
          /\ \A s \in Starts : start[s].name # m
      BY <2>1 DEF Kept, BuildingIsApart, Building
    <2>3. BuildingIsApart'
      <3>1. \A n \in Names : Building(n)' => Building(n)
        BY <2>1 DEF Building
      <3> QED
        BY <2>1, <2>2, <3>1 DEF Kept, BuildingIsApart
    <2>4. FillsAlone'
      BY <2>1, <2>2 DEF Kept, FillsAlone
    <2>5. ForgottenIsGone'
      <3>1. \A n : Registered(n)' <=> Registered(n)
        BY <2>1 DEF Registered
      <3> QED
        BY <2>1, <2>2, <3>1 DEF Kept, ForgottenIsGone
    <2>6. NoOrphan'
      BY <2>1, <2>2 DEF Kept, NoOrphan, NoRow, Registered
    <2> QED
      BY <2>3, <2>4, <2>5, <2>6 DEF Kept
  <1> QED
    BY <1>2, <1>3, <1>4, <1>5, <1>6, <1>7, <1>8 DEF Elsewhere

\* While the ledger answers and fills come to their end, every container that
\* stands is named by a row, a record or a debt, or its fill is still at work
\* on it, whoever dies: nothing stands that no one will ever delete.
THEOREM NothingStandsUnnamed ==
    ASSUME Reliable
    PROVE  Spec => []NoOrphan
  <1>1. Init => Safe /\ Kept
    <2> SUFFICES ASSUME Init PROVE Safe /\ Kept
      OBVIOUS
    <2>1. Safe
      BY InitTypes, InitTokens, InitStands DEF Safe
    <2>2. /\ \A s \in Starts : start[s].name = NoName /\ start[s].kept = {} /\ start[s].pc = "idle"
          /\ \A f \in Fills : fill[f].pc = "idle"
          /\ \A n \in Names : pass.todo[n] = "none"
          /\ cloud = {} /\ inflight = {} /\ tasks = {}
      BY DEF Init, IdleFill, IdlePass, NoTodo
    <2> QED
      BY <2>1, <2>2, PoolAssumption DEF Kept, BuildingIsApart, FillsAlone, ForgottenIsGone, NoOrphan, Building
  <1>2. Safe /\ Kept /\ [Next]_vars => (Safe /\ Kept)'
    <2> SUFFICES ASSUME Safe, Kept, [Next]_vars PROVE Kept'
      BY NextIsSafe
    <2>0. TypeOK /\ Named /\ Tokens /\ Stands /\ Reliable
      BY DEF Safe
    <2>1. CASE UNCHANGED vars
      <3>1. MakesNothing
        BY <2>0, <2>1 DEF vars, MakesNothing, Kept, BuildingIsApart, ForgottenIsGone
      <3>2. \A n : (Registered(n)' <=> Registered(n)) /\ (NoRow(n)' <=> NoRow(n))
        BY <2>1 DEF vars, Registered, NoRow
      <3>3. ForgottenIsGone' /\ NoOrphan'
        BY <2>1, <3>2 DEF vars, Kept, ForgottenIsGone, NoOrphan
      <3> QED
        BY <2>0, <3>1, <3>3, MakesNothingKeeps DEF Kept
    <2>2. ASSUME NEW s \in Starts, StartStep(s) \/ StartDies(s) PROVE Kept'
      BY <2>0, <2>2, StartDoes, StartDoesBuild, StartKeeps
    <2>3. ASSUME NEW f \in Fills, FillStep(f) \/ FillGivenUp(f) \/ FillDies(f) PROVE Kept'
      BY <2>0, <2>3, FillDoes, FillDoesBuild, FillKeeps
    <2> QED
      BY <2>0, <2>1, <2>2, <2>3, TaskKeeps, PassKeeps, ElsewhereKeeps DEF Next
  <1>3. Safe /\ Kept => NoOrphan
    BY DEF Kept
  <1> QED
    BY <1>1, <1>2, <1>3, PTL DEF Spec

=============================================================================
