-------------------------- MODULE PublishingProofs --------------------------
(***************************************************************************)
(* Theorems about Publishing, for any number of commits, attempts,         *)
(* requests and passes, whether or not processes die, Azure serialises and *)
(* attempts overlap takedowns.                                             *)
(*                                                                         *)
(* OneWriter and the refinement of DeploySlot rest on Slots: a live        *)
(* pipeline's row is running and beats, so that whoever settles a row      *)
(* settles one whose pipeline has gone or ends with it.                    *)
(* OnlyDecidedServes rests on Bundles: a commit on its way to production   *)
(* was decided about, and whatever Azure works on or serves has an image   *)
(* built from one.  StampedMeansGone rests on Takedowns: while a takedown  *)
(* is under way nothing runs, so nothing is created after its delete.      *)
(***************************************************************************)
EXTENDS Publishing, TLAPS

\* Attempts are numbered in the order they are made.
Beyond == \A i \in Attempts :
    i > made => row[i].status = "none" /\ pipe[i].pc = "none"

\* A live pipeline's row is running, and beats.
LiveRuns == \A i \in Attempts : Alive(i) => Running(i) /\ row[i].beat = "fresh"
OneRuns == \A i, j \in Attempts : Running(i) /\ Running(j) => i = j

\* A pass judges attempts whose pipelines have gone.
JudgesTheGone == \A p \in Passes : pass[p].pc # "idle" => ~Alive(pass[p].row)

Slots == Beyond /\ LiveRuns /\ OneRuns /\ JudgesTheGone

Table == [Attempts -> Rows]
Pipelines == [Attempts -> Pipes]

----------------------------------------------------------------------------
\* Types.

\* The statements of the table yield a table.
LEMMA TableTypes ==
    ASSUME row \in Table, NEW i \in Attempts
    PROVE  /\ \A o \in {"succeeded", "failed"}, d \in BOOLEAN :
                Ended(i, o, d) => row' \in Table
           /\ \A m \in Images : Recorded(i, m) => row' \in Table
           /\ [row EXCEPT ![i] = [NoRow EXCEPT !.status = "running"]] \in Table
           /\ [row EXCEPT ![i].down = TRUE] \in Table
           /\ [row EXCEPT ![i].beat = IF @ = "fresh" THEN "quiet" ELSE "stale"] \in Table
  <1>1. /\ row[i] \in Rows
        /\ \A o \in {"succeeded", "failed", "running"} : [row[i] EXCEPT !.status = o] \in Rows
        /\ \A m \in Images : [row[i] EXCEPT !.image = m] \in Rows
        /\ [row[i] EXCEPT !.down = TRUE] \in Rows
        /\ \A b \in {"fresh", "quiet", "stale"} : [row[i] EXCEPT !.beat = b] \in Rows
    BY DEF Table, Rows
  <1>0. [NoRow EXCEPT !.status = "running"] \in Rows
    <2>1. 0 \in Images
      BY PublishingAssumption DEF Images
    <2> QED
      BY <2>1 DEF NoRow, Rows
  <1>2. \A o \in {"succeeded", "failed"}, d \in BOOLEAN :
            [row[i] EXCEPT !.status = o, !.down = d, !.beat = "fresh"] \in Rows
    BY <1>1 DEF Rows
  <1> HIDE DEF Attempts
  <1>3. \A r \in Rows : [row EXCEPT ![i] = r] \in Table
    BY DEF Table
  <1>4. \A o \in {"succeeded", "failed"}, d \in BOOLEAN : Ended(i, o, d) => row' \in Table
    BY <1>2, <1>3 DEF Ended
  <1>5. \A m \in Images : Recorded(i, m) => row' \in Table
    BY <1>1, <1>3 DEF Recorded
  <1>6. /\ [row EXCEPT ![i] = [NoRow EXCEPT !.status = "running"]] \in Table
        /\ [row EXCEPT ![i].down = TRUE] \in Table
        /\ [row EXCEPT ![i].beat = IF @ = "fresh" THEN "quiet" ELSE "stale"] \in Table
    BY <1>0, <1>1, <1>3
  <1> QED
    BY <1>4, <1>5, <1>6

\* The steps of a pipeline yield pipelines.
LEMMA PipeTypes ==
    ASSUME pipe \in Pipelines, NEW i \in Attempts
    PROVE  /\ \A pc \in Live : Goto(i, pc) => pipe' \in Pipelines
           /\ \A m \in Images : [pipe EXCEPT ![i].pc = "create", ![i].image = m] \in Pipelines
           /\ End(i) => pipe' \in Pipelines
           /\ Over(i) \in Pipes
           /\ \A k \in Kinds, c \in Versions \union {NoVersion}, m \in Images :
                [pipe EXCEPT ![i] = [pc |-> "pack", kind |-> k, commit |-> c, image |-> m]]
                    \in Pipelines
  <1>1. /\ pipe[i] \in Pipes
        /\ \A pc \in Live : [pipe[i] EXCEPT !.pc = pc] \in Pipes
        /\ \A m \in Images : [pipe[i] EXCEPT !.pc = "create", !.image = m] \in Pipes
        /\ Over(i) \in Pipes
        /\ \A k \in Kinds, c \in Versions \union {NoVersion}, m \in Images :
                [pc |-> "pack", kind |-> k, commit |-> c, image |-> m] \in Pipes
    BY DEF Pipelines, Pipes, Live, Over, NoPipe, Kinds
  <1>2. \A r \in Pipes : [pipe EXCEPT ![i] = r] \in Pipelines
    BY DEF Pipelines
  <1>3. \A pc \in Live : Goto(i, pc) => pipe' \in Pipelines
    BY <1>1, <1>2 DEF Goto
  <1>4. \A m \in Images : [pipe EXCEPT ![i].pc = "create", ![i].image = m] \in Pipelines
    BY <1>1, <1>2
  <1>5. End(i) => pipe' \in Pipelines
    BY <1>1, <1>2 DEF End
  <1> QED
    BY <1>1, <1>2, <1>3, <1>4, <1>5

LEMMA TypeInit == Init => TypeOK
  BY PublishingAssumption DEF Init, TypeOK, Attempts, Images, Rows, Asks, Pipes,
     TakerRecs, PassRecs, NoRow, NoAsk, NoPipe, NoTaker, NoPass, Kinds, Live

LEMMA TypeStep == TypeOK /\ Beyond /\ [Next]_vars => TypeOK'
<1> SUFFICES ASSUME TypeOK, Beyond, [Next]_vars PROVE TypeOK'
  OBVIOUS
<1>0. /\ row \in Table /\ pipe \in Pipelines /\ made \in Nat /\ MaxRows \in Nat
      /\ pipe \in [Attempts -> Pipes] /\ made \in 0 .. MaxRows
      /\ Attempts = 1 .. MaxRows /\ Images = 0 .. MaxRows
      /\ template \in 0 .. made /\ serving \in 0 .. made /\ creating \subseteq 1 .. made
      /\ ask \in [Publishers -> Asks] /\ taker \in [Takers -> TakerRecs]
      /\ pass \in [Passes -> PassRecs]
      /\ NoAsk \in Asks /\ NoTaker \in TakerRecs /\ NoPass \in PassRecs
  BY PublishingAssumption DEF TypeOK, Table, Pipelines, Attempts, Images, NoAsk, Asks,
     NoTaker, TakerRecs, NoPass, PassRecs
\* A claim, whichever request makes it.
<1>c. ASSUME NEW k \in Kinds, NEW c \in Versions \union {NoVersion}, NEW m \in Images,
             Claimed(k, c, m)
      PROVE  /\ made' \in 0 .. MaxRows /\ row' \in Table /\ pipe' \in Pipelines
             /\ 0 .. made \subseteq 0 .. made' /\ 1 .. made \subseteq 1 .. made'
  <2>1. made' = made + 1 /\ made + 1 \in Attempts
    BY <1>0, <1>c DEF Claimed, Room
  <2>2. row' \in Table
    BY <2>1, <1>0, <1>c, TableTypes DEF Claimed
  <2>3. pipe' \in Pipelines
    BY <2>1, <1>0, <1>c, PipeTypes DEF Claimed
  <2> QED
    BY <2>1, <2>2, <2>3, <1>0
\* What a claim leaves alone stays of its type.
<1>d. ASSUME NEW k \in Kinds, NEW c \in Versions \union {NoVersion}, NEW m \in Images,
             Claimed(k, c, m), cleared' \subseteq Versions, ask' \in [Publishers -> Asks],
             UNCHANGED <<saved, tree, armVars, taker, pass>>
      PROVE  TypeOK'
  BY <1>c, <1>d, <1>0 DEF TypeOK, Table, Pipelines, armVars
\* What a takedown, or a pass, may become.
<1>t. ASSUME NEW t \in Takers, NEW r \in TakerRecs,
             r.pc \in {"sweep", "wait", "stamp"} => r.row \in 1 .. made,
             taker' = [taker EXCEPT ![t] = r], made' = made
      PROVE  /\ taker' \in [Takers -> TakerRecs]
             /\ \A u \in Takers : taker'[u].pc \in {"sweep", "wait", "stamp"}
                                  => taker'[u].row \in 1 .. made'
  BY <1>t, <1>0 DEF TypeOK
<1>p. ASSUME NEW p \in Passes, NEW r \in PassRecs, r.pc # "idle" => r.row \in 1 .. made,
             r.pc = "write" => r.verdict # "none",
             pass' = [pass EXCEPT ![p] = r], made' = made
      PROVE  /\ pass' \in [Passes -> PassRecs]
             /\ \A q \in Passes : pass'[q].pc # "idle" => pass'[q].row \in 1 .. made'
             /\ \A q \in Passes : pass'[q].pc = "write" => pass'[q].verdict # "none"
  BY <1>p, <1>0 DEF TypeOK
<1>1. ASSUME NEW v \in Versions, Save(v) PROVE TypeOK'
  BY <1>1 DEF Save, armVars, TypeOK
<1>2. ASSUME NEW a \in Publishers, NEW kind \in {"saved", "copy"},
             NEW v \in Versions, Publish(a, kind, v)
      PROVE TypeOK'
  <2>1. cleared' \subseteq Versions
    BY <1>2 DEF Publish, TypeOK
  <2>2. [kind |-> kind, commit |-> v] \in Asks /\ kind \in Kinds /\ 0 \in Images
    BY <1>0 DEF Asks, Kinds
  <2>3. CASE InFlight
    <3>1. row' \in Table
      <4>1. PICK i \in Attempts : Ended(i, "failed", row[i].down)
        BY <2>3, <1>2 DEF Publish, TakenOver
      <4>2. row[i].down \in BOOLEAN
        BY <1>0 DEF Rows, Table
      <4> QED
        BY <4>1, <4>2, <1>0, TableTypes
    <3> QED
      BY <3>1, <2>1, <2>2, <2>3, <1>2, <1>0 DEF Publish, TypeOK, Table, armVars
  <2>4. CASE ~InFlight
    BY <2>1, <2>2, <2>4, <1>2, <1>d, <1>0 DEF Publish
  <2> QED
    BY <2>3, <2>4
<1>3. ASSUME NEW a \in Publishers, ClaimAgain(a) PROVE TypeOK'
  <2>1. ask' \in [Publishers -> Asks]
    BY <1>3, <1>0 DEF ClaimAgain
  <2>2. ask[a].kind \in Kinds /\ ask[a].commit \in Versions \union {NoVersion} /\ 0 \in Images
    BY <1>3, <1>0 DEF ClaimAgain, Asks, Kinds, NoAsk
  <2>3. CASE ~InFlight /\ Claimed(ask[a].kind, ask[a].commit, 0)
    BY <2>1, <2>2, <2>3, <1>3, <1>d DEF ClaimAgain, TypeOK
  <2>4. CASE UNCHANGED <<made, row, pipe>>
    BY <2>1, <2>4, <1>3 DEF ClaimAgain, TypeOK, armVars
  <2> QED
    BY <2>3, <2>4, <1>3 DEF ClaimAgain
<1>4. ASSUME Restart PROVE TypeOK'
  <2>1. PICK i \in Attempts : Claimed("restart", NoVersion, row[i].image)
    BY <1>4 DEF Restart
  <2>2. row[i].image \in Images /\ "restart" \in Kinds
    BY <1>0 DEF Table, Rows, Kinds
  <2> QED
    BY <2>1, <2>2, <1>4, <1>d DEF Restart, TypeOK
<1>5. ASSUME NEW i \in Attempts, Pack(i) PROVE TypeOK'
  <2>1. i \in Images /\ pipe[i].image \in Images /\ "create" \in Live
    BY <1>0 DEF Pipelines, Pipes, Live
  <2>2. row' \in Table /\ pipe' \in Pipelines
    <3>1. CASE pipe[i].kind = "restart"
      BY <2>1, <3>1, <1>5, <1>0, TableTypes, PipeTypes DEF Pack
    <3>2. CASE pipe[i].kind # "restart"
      <4>1. Recorded(i, i) /\ pipe' = [pipe EXCEPT ![i].pc = "create", ![i].image = i]
        BY <3>2, <1>5 DEF Pack
      <4>2. row' \in Table
        BY <2>1, <4>1, <1>0, TableTypes
      <4>3. pipe' \in Pipelines
        BY <2>1, <4>1, <1>0, PipeTypes
      <4> QED
        BY <4>2, <4>3
    <3> QED
      BY <3>1, <3>2
  <2>3. Shipped(i) \in Versions \union {NoVersion}
    BY <1>0 DEF Shipped, TypeOK, Pipes
  <2>4. tree' \in [Attempts -> Versions \union {NoVersion}]
    BY <2>3, <1>5 DEF Pack, TypeOK
  <2> QED
    BY <2>2, <2>4, <1>5 DEF Pack, TypeOK, Table, Pipelines, armVars
<1>6. ASSUME NEW i \in Attempts,
             Fails(i) \/ Created(i) \/ Poll(i) \/ SettleLost(i) PROVE TypeOK'
  <2>1. pipe' \in Pipelines
    BY <1>6, <1>0, PipeTypes DEF Fails, Created, Poll, SettleLost, Live
  <2> QED
    BY <2>1, <1>6 DEF Fails, Created, Poll, SettleLost, TypeOK, Pipelines, armVars
<1>7. ASSUME NEW i \in Attempts, Create(i) PROVE TypeOK'
  <2>1. pipe' \in Pipelines
    BY <1>7, <1>0, PipeTypes DEF Create, Live
  <2>2. i \in 1 .. made
    BY <1>7, <1>0 DEF Create, Beyond
  <2> QED
    BY <2>1, <2>2, <1>7 DEF Create, TypeOK, Pipelines
<1>10. ASSUME NEW i \in Attempts, Settle(i) PROVE TypeOK'
  <2>1. pipe' \in Pipelines /\ row' \in Table
    BY <1>10, <1>0, PipeTypes, TableTypes DEF Settle, Finish
  <2> QED
    BY <2>1, <1>10 DEF Settle, TypeOK, Pipelines, Table, armVars
<1>12. ASSUME NEW i \in Attempts, Quieten(i) PROVE TypeOK'
  BY <1>12, <1>0, TableTypes DEF Quieten, armVars, TypeOK, Table
<1>13. ASSUME ApiDies PROVE TypeOK'
  <2>1. pipe' \in Pipelines
    BY <1>13, <1>0, PipeTypes DEF ApiDies, Pipelines
  <2> QED
    BY <2>1, <1>13, <1>0 DEF ApiDies, TypeOK, Pipelines, NoTaker, armVars
<1>14. ASSUME NEW i \in Attempts, LandCreate(i) \/ RevisionUp(i) \/ RevisionFails(i)
       PROVE TypeOK'
  <2>1. i \in 0 .. made
    BY <1>14, <1>0 DEF LandCreate, RevisionUp, RevisionFails
  <2> QED
    BY <2>1, <1>14 DEF LandCreate, RevisionUp, RevisionFails, TypeOK
<1>15. ASSUME NEW i \in Attempts, DropCreate(i) PROVE TypeOK'
  <2>1. pipe' \in Pipelines
    BY <1>15, <1>0, PipeTypes DEF DropCreate, Live
  <2> QED
    BY <2>1, <1>15 DEF DropCreate, TypeOK, Pipelines
<1>18. ASSUME NEW t \in Takers, LandDelete(t) PROVE TypeOK'
  BY <1>18, <1>0 DEF LandDelete, TypeOK
<1>19. ASSUME NEW t \in Takers, DropDelete(t) PROVE TypeOK'
  <2>1. NoTaker.pc = "idle" /\ deleting' \subseteq Takers
    BY <1>19 DEF DropDelete, TypeOK, NoTaker
  <2>2. /\ taker' \in [Takers -> TakerRecs]
        /\ \A u \in Takers : taker'[u].pc \in {"sweep", "wait", "stamp"}
                             => taker'[u].row \in 1 .. made'
    <3>1. CASE taker[t].pc = "wait"
      BY <2>1, <3>1, <1>19, <1>0, <1>t DEF DropDelete
    <3>2. CASE taker[t].pc # "wait"
      BY <3>2, <1>19, <1>0 DEF DropDelete, TypeOK
    <3> QED
      BY <3>1, <3>2
  <2> QED
    BY <2>1, <2>2, <1>19 DEF DropDelete, TypeOK
<1>20. ASSUME NEW t \in Takers, TakerStep(t) PROVE TypeOK'
  <2>0. /\ taker[t] \in TakerRecs /\ taker[t].row \in Images
        /\ taker[t].pc \in {"sweep", "wait", "stamp"} => taker[t].row \in 1 .. made
        /\ NoTaker.pc = "idle" /\ 1 .. made \subseteq Attempts
        /\ \A pc \in {"pick", "wait", "stamp"} : [taker[t] EXCEPT !.pc = pc] \in TakerRecs
        /\ \A pc \in {"pick", "wait", "stamp"} : /\ [taker[t] EXCEPT !.pc = pc].pc = pc
                                              /\ [taker[t] EXCEPT !.pc = pc].row = taker[t].row
    <3>1. taker[t] \in TakerRecs
      BY <1>0
    <3>2. /\ NoTaker.pc = "idle" /\ 1 .. made \subseteq Attempts
          /\ taker[t].pc \in {"sweep", "wait", "stamp"} => taker[t].row \in 1 .. made
      BY <1>0 DEF NoTaker, TypeOK
    <3> QED
      BY <3>1, <3>2 DEF TakerRecs
  <2>1. CASE Stamp(t)
    <3>1. row' \in Table
      BY <2>0, <2>1, <1>0, TableTypes DEF Stamp
    <3>2. /\ taker' \in [Takers -> TakerRecs]
          /\ \A u \in Takers : taker'[u].pc \in {"sweep", "wait", "stamp"}
                               => taker'[u].row \in 1 .. made'
      BY <2>0, <2>1, <1>0, <1>t DEF Stamp
    <3> QED
      BY <3>1, <3>2, <2>1, <1>0 DEF Stamp, TypeOK, Table, armVars
  <2>2. CASE TakeDown(t)
    <3>1. /\ taker' \in [Takers -> TakerRecs]
          /\ \A u \in Takers : taker'[u].pc \in {"sweep", "wait", "stamp"}
                               => taker'[u].row \in 1 .. made'
      BY <2>0, <2>2, <1>0, <1>t DEF TakeDown
    <3> QED
      BY <3>1, <2>2 DEF TakeDown, TypeOK, armVars
  <2>3. CASE Pick(t)
    <3>0. made # 0 => /\ [pc |-> "sweep", row |-> made] \in TakerRecs
                      /\ made \in 1 .. made
      BY <1>0 DEF TakerRecs
    <3>1. /\ taker' \in [Takers -> TakerRecs]
          /\ \A u \in Takers : taker'[u].pc \in {"sweep", "wait", "stamp"}
                               => taker'[u].row \in 1 .. made'
      <4>1. CASE made = 0 \/ row[made].down
        BY <2>0, <2>3, <4>1, <1>0, <1>t DEF Pick
      <4>2. CASE ~(made = 0 \/ row[made].down)
        BY <3>0, <2>3, <4>2, <1>0, <1>t DEF Pick
      <4> QED
        BY <4>1, <4>2
    <3> QED
      BY <3>1, <2>3 DEF Pick, TypeOK, armVars
  <2>4. CASE Swept(t)
    <3>1. /\ taker' \in [Takers -> TakerRecs]
          /\ \A u \in Takers : taker'[u].pc \in {"sweep", "wait", "stamp"}
                               => taker'[u].row \in 1 .. made'
      <4>1. CASE t \in deleting
        BY <2>0, <2>4, <4>1, <1>0, <1>t DEF Swept
      <4>2. CASE t \notin deleting
        BY <2>0, <2>4, <4>2, <1>0, <1>t DEF Swept
      <4> QED
        BY <4>1, <4>2
    <3> QED
      BY <3>1, <2>4 DEF Swept, TypeOK, armVars
  <2>5. CASE SweepRefused(t)
    <3>1. /\ taker' \in [Takers -> TakerRecs]
          /\ \A u \in Takers : taker'[u].pc \in {"sweep", "wait", "stamp"}
                               => taker'[u].row \in 1 .. made'
      BY <2>0, <2>5, <1>0, <1>t DEF SweepRefused
    <3> QED
      BY <3>1, <2>5 DEF SweepRefused, TypeOK, armVars
  <2>6. CASE Sweep(t)
    <3>1. /\ taker' \in [Takers -> TakerRecs]
          /\ \A u \in Takers : taker'[u].pc \in {"sweep", "wait", "stamp"}
                               => taker'[u].row \in 1 .. made'
      <4>1. CASE template = 0
        BY <2>0, <2>6, <4>1, <1>0, <1>t DEF Sweep
      <4>2. CASE template # 0
        BY <2>0, <2>6, <4>2, <1>0, <1>t DEF Sweep
      <4> QED
        BY <4>1, <4>2
    <3>2. deleting' \subseteq Takers
      BY <2>6 DEF Sweep, TypeOK
    <3> QED
      BY <3>1, <3>2, <2>6 DEF Sweep, TypeOK
  <2> QED
    BY <2>1, <2>2, <2>3, <2>4, <2>5, <2>6, <1>20 DEF TakerStep
<1>21. ASSUME NEW p \in Passes, PassStep(p) PROVE TypeOK'
  <2>1. CASE Scan(p)
    BY <2>1, <1>0 DEF Scan, Stalled, Running, Beyond, TypeOK, PassRecs, armVars
  <2>2. CASE Look(p)
    <3>1. /\ pass[p] \in PassRecs /\ pass[p].row \in 1 .. made
          /\ Verdict(pass[p].row) \in {"succeeded", "failed"}
      BY <2>2, <1>0 DEF Look, Verdict, TypeOK
    <3> HIDE DEF Verdict
    <3>2. [pass[p] EXCEPT !.pc = "write", !.verdict = Verdict(pass[p].row)] \in PassRecs
      BY <3>1 DEF PassRecs
    <3>3. /\ [pass[p] EXCEPT !.pc = "write", !.verdict = Verdict(pass[p].row)].row = pass[p].row
          /\ [pass[p] EXCEPT !.pc = "write", !.verdict = Verdict(pass[p].row)].verdict # "none"
      BY <3>1 DEF PassRecs
    <3>4. /\ pass' \in [Passes -> PassRecs]
          /\ \A q \in Passes : pass'[q].pc # "idle" => pass'[q].row \in 1 .. made'
          /\ \A q \in Passes : pass'[q].pc = "write" => pass'[q].verdict # "none"
      BY <3>1, <3>2, <3>3, <2>2, <1>p DEF Look
    <3> QED
      BY <3>4, <2>2 DEF Look, TypeOK, armVars
  <2>4. CASE Deferred(p)
    <3>4. /\ pass' \in [Passes -> PassRecs]
          /\ \A q \in Passes : pass'[q].pc # "idle" => pass'[q].row \in 1 .. made'
          /\ \A q \in Passes : pass'[q].pc = "write" => pass'[q].verdict # "none"
      BY <2>4, <1>0, <1>p DEF Deferred, NoPass
    <3> QED
      BY <3>4, <2>4 DEF Deferred, TypeOK, armVars
  <2>3. CASE Write(p)
    <3>1. pass[p].row \in Attempts /\ pass[p].verdict \in {"succeeded", "failed"}
      BY <2>3, <1>0 DEF Write, TypeOK, PassRecs
    <3>2. row' \in Table
      BY <3>1, <2>3, <1>0, TableTypes DEF Write, Finish
    <3> QED
      BY <3>2, <2>3, <1>0 DEF Write, TypeOK, Table, NoPass, armVars
  <2> QED
    BY <2>1, <2>2, <2>3, <2>4, <1>21 DEF PassStep
<1>22. ASSUME UNCHANGED vars PROVE TypeOK'
  BY <1>22 DEF vars, armVars, TypeOK
<1> QED
  BY <1>1, <1>2, <1>3, <1>4, <1>5, <1>6, <1>7, <1>10, <1>12,
     <1>13, <1>14, <1>15, <1>18, <1>19, <1>20, <1>21, <1>22
     DEF Next, PipeStep, ArmStep

----------------------------------------------------------------------------
\* The slot.

LEMMA SlotsInit == Init => Slots
  BY DEF Init, Slots, Beyond, LiveRuns, OneRuns, JudgesTheGone, Alive, Live, Running,
     NoRow, NoPipe, NoPass

\* A step that begins nothing keeps the slot, when the pipelines it leaves alive
\* still run and beat and its passes judge none of them.
LEMMA SlotsKept ==
    ASSUME Slots, made' = made,
           \A j \in Attempts : pipe[j].pc = "none" => pipe'[j].pc = "none",
           \A j \in Attempts : row[j].status = "none" => row'[j].status = "none",
           \A j \in Attempts : Running(j)' => Running(j),
           \A j \in Attempts : Alive(j)' => Running(j)' /\ row'[j].beat = "fresh",
           \A p \in Passes : pass'[p].pc # "idle" => pipe'[pass'[p].row].pc \notin Live
    PROVE  Slots'
  BY DEF Slots, Beyond, LiveRuns, OneRuns, JudgesTheGone, Alive

\* A claim on a free slot.
LEMMA ClaimedSlots ==
    ASSUME TypeOK, Slots, ~InFlight, NEW k \in Kinds, NEW c, NEW m, Claimed(k, c, m),
           pass' = pass
    PROVE  Slots'
  <1>1. /\ made' = made + 1 /\ made + 1 \in Attempts /\ made \in Nat
        /\ \A j \in Attempts : j \in Nat
    BY PublishingAssumption DEF Claimed, Room, TypeOK, Attempts
  <1>2. /\ row'[made + 1].status = "running" /\ row'[made + 1].beat = "fresh"
        /\ pipe'[made + 1].pc = "pack"
        /\ \A j \in Attempts \ {made + 1} : row'[j] = row[j] /\ pipe'[j] = pipe[j]
    <2>1. /\ row' = [row EXCEPT ![made + 1] = [NoRow EXCEPT !.status = "running"]]
          /\ pipe' = [pipe EXCEPT ![made + 1] =
                [pc |-> "pack", kind |-> k, commit |-> c, image |-> m]]
          /\ row \in [Attempts -> Rows] /\ pipe \in [Attempts -> Pipes]
      BY DEF Claimed, TypeOK
    <2> HIDE DEF Attempts
    <2> QED
      BY <2>1, <1>1 DEF NoRow
  <1>3. \A j \in Attempts : ~Running(j)
    BY DEF InFlight
  <1>4. Beyond'
    BY <1>1, <1>2 DEF Slots, Beyond
  <1>5. LiveRuns' /\ OneRuns'
    BY <1>1, <1>2, <1>3 DEF Slots, LiveRuns, OneRuns, Alive, Running
  <1>6. JudgesTheGone'
    <2>1. \A p \in Passes : pass[p].pc # "idle" => pass[p].row \in Attempts \ {made + 1}
      BY <1>1, PublishingAssumption DEF TypeOK, Attempts
    <2> QED
      BY <2>1, <1>2 DEF Slots, JudgesTheGone, Alive
  <1> QED
    BY <1>4, <1>5, <1>6 DEF Slots

\* Settling an attempt whose pipeline is gone, or ends with it.
LEMMA FinishSlots ==
    ASSUME TypeOK, Slots, NEW i \in Attempts, NEW o \in {"succeeded", "failed"},
           NEW d \in BOOLEAN, (Running(i) /\ Ended(i, o, d)) \/ row' = row,
           made' = made,
           \A j \in Attempts : Alive(j)' => Alive(j) /\ j # i,
           \A j \in Attempts : pipe[j].pc = "none" => pipe'[j].pc = "none",
           \A p \in Passes : pass'[p].pc # "idle" => pass'[p] = pass[p]
    PROVE  Slots'
  <1>1. /\ \A j \in Attempts \ {i} : row'[j] = row[j]
        /\ row'[i].status # row[i].status => Running(i) /\ row'[i].status = o
        /\ row'[i].status # "running" \/ row'[i] = row[i]
    <2>1. CASE Running(i) /\ Ended(i, o, d)
      BY <2>1 DEF Ended, Running, TypeOK, Rows
    <2>2. CASE row' = row
      BY <2>2
    <2> QED
      BY <2>1, <2>2
  <1>2. \A j \in Attempts : row[j].status = "none" => row'[j].status = "none"
    BY <1>1 DEF Running
  <1>3. \A j \in Attempts : Running(j)' => Running(j)
    BY <1>1 DEF Running
  <1>4. \A j \in Attempts : Alive(j)' => Running(j)' /\ row'[j].beat = "fresh"
    BY <1>1 DEF Running, Slots, LiveRuns
  <1>5. \A p \in Passes : pass'[p].pc # "idle" => pipe'[pass'[p].row].pc \notin Live
    <2>1. \A p \in Passes : pass[p].pc # "idle" => pass[p].row \in Attempts
      BY PublishingAssumption DEF TypeOK, Attempts
    <2> QED
      BY <2>1 DEF Slots, JudgesTheGone, Alive
  <1> QED
    BY <1>2, <1>3, <1>4, <1>5, SlotsKept

\* A step that changes neither the table's statuses and beats nor what passes
\* judge, and revives no pipeline.
LEMMA QuietSlots ==
    ASSUME TypeOK, Slots, made' = made,
           \A j \in Attempts : Alive(j)' => Alive(j),
           \A j \in Attempts : pipe[j].pc = "none" => pipe'[j].pc = "none",
           \A j \in Attempts : /\ row'[j].status = row[j].status
                               /\ row'[j].beat = row[j].beat,
           \A p \in Passes : pass'[p].pc # "idle" =>
                /\ pass'[p].row \in Attempts
                /\ pipe[pass'[p].row].pc \notin Live
    PROVE  Slots'
  <1>1. \A j \in Attempts : Running(j)' <=> Running(j)
    BY DEF Running
  <1>2. \A j \in Attempts : Alive(j)' => Running(j)' /\ row'[j].beat = "fresh"
    BY <1>1 DEF Slots, LiveRuns
  <1>3. \A p \in Passes : pass'[p].pc # "idle" => pipe'[pass'[p].row].pc \notin Live
    BY DEF Alive
  <1> QED
    BY <1>1, <1>2, <1>3, SlotsKept DEF Running

LEMMA SlotsStep == TypeOK /\ Slots /\ [Next]_vars => Slots'
<1> SUFFICES ASSUME TypeOK, Slots, [Next]_vars PROVE Slots'
  OBVIOUS
<1>0. /\ \A p \in Passes : pass[p].pc # "idle" =>
                /\ pass[p].row \in Attempts
                /\ pipe[pass[p].row].pc \notin Live
      /\ row \in [Attempts -> Rows] /\ pipe \in [Attempts -> Pipes]
      /\ pass \in [Passes -> PassRecs]
      /\ ask \in [Publishers -> Asks]
  BY PublishingAssumption DEF TypeOK, Slots, JudgesTheGone, Alive, Attempts
<1>1. ASSUME UNCHANGED <<made, row, pipe, pass>> PROVE Slots'
  BY <1>0, <1>1, QuietSlots DEF Alive
<1>2. ASSUME NEW a \in Publishers, NEW kind \in {"saved", "copy"},
             NEW v \in Versions, Publish(a, kind, v)
      PROVE Slots'
  <2>1. CASE InFlight
    <3>1. PICK i \in Attempts : TakenOver(i)
      BY <1>2, <2>1 DEF Publish
    <3>2. ~Alive(i)
      BY <3>1 DEF TakenOver, Abandoned, Slots, LiveRuns
    <3> QED
      BY <3>1, <3>2, <1>0, <1>2, <2>1, FinishSlots
         DEF Publish, TakenOver, Abandoned, Alive, Rows
  <2>2. CASE ~InFlight
    BY <1>2, <2>2, ClaimedSlots DEF Publish, Kinds
  <2> QED
    BY <2>1, <2>2
<1>3. ASSUME NEW a \in Publishers, ClaimAgain(a) PROVE Slots'
  <2>1. ask[a].kind \in Kinds
    BY <1>0, <1>3 DEF ClaimAgain, Asks, Kinds
  <2>2. CASE ~InFlight /\ Claimed(ask[a].kind, ask[a].commit, 0)
    BY <2>1, <2>2, <1>3, ClaimedSlots DEF ClaimAgain
  <2>3. CASE UNCHANGED <<made, row, pipe>>
    BY <2>3, <1>3, <1>1 DEF ClaimAgain
  <2> QED
    BY <2>2, <2>3, <1>3 DEF ClaimAgain
<1>4. ASSUME Restart PROVE Slots'
  BY <1>4, ClaimedSlots DEF Restart, Kinds
<1>5. ASSUME NEW i \in Attempts, Pack(i) PROVE Slots'
  <2>1. PICK m : Recorded(i, m)
    BY <1>5 DEF Pack
  <2>2. \A j \in Attempts : row'[j].status = row[j].status /\ row'[j].beat = row[j].beat
    BY <2>1, <1>0 DEF Recorded, Rows
  <2>3. \A j \in Attempts : /\ Alive(j)' => Alive(j)
                            /\ pipe[j].pc = "none" => pipe'[j].pc = "none"
    BY <1>5, <1>0 DEF Pack, Goto, Alive, Live, Pipes
  <2> QED
    BY <2>2, <2>3, <1>0, <1>5, QuietSlots DEF Pack
<1>6. ASSUME NEW i \in Attempts,
             \/ Fails(i) \/ Create(i) \/ Created(i) \/ Poll(i) \/ SettleLost(i)
             \/ DropCreate(i)
      PROVE  Slots'
  <2>1. \A j \in Attempts : /\ Alive(j)' => Alive(j)
                            /\ pipe[j].pc = "none" => pipe'[j].pc = "none"
    <3>1. ASSUME NEW pc \in Live, Goto(i, pc), pipe[i].pc \in Live PROVE <2>1
      BY <3>1, <1>0 DEF Goto, Alive, Live, Pipes
    <3>2. ASSUME End(i), pipe[i].pc \in Live PROVE <2>1
      BY <3>2, <1>0 DEF End, Over, NoPipe, Alive, Live, Pipes
    <3>3. ASSUME pipe' = pipe PROVE <2>1
      BY <3>3 DEF Alive
    <3> QED
      BY <3>1, <3>2, <3>3, <1>6
         DEF Fails, Create, Created, Poll, SettleLost, DropCreate, Live
  <2>2. UNCHANGED <<made, row, pass>>
    BY <1>6 DEF Fails, Create, Created, Poll, SettleLost, DropCreate
  <2> QED
    BY <2>1, <2>2, <1>0, QuietSlots
<1>7. ASSUME NEW i \in Attempts, Settle(i) PROVE Slots'
  <2>1. \A j \in Attempts : /\ Alive(j)' => Alive(j) /\ j # i
                            /\ pipe[j].pc = "none" => pipe'[j].pc = "none"
    BY <1>7, <1>0 DEF Settle, End, Over, NoPipe, Alive, Live, Pipes
  <2> QED
    BY <2>1, <1>7, FinishSlots DEF Settle, Finish
<1>8. ASSUME NEW i \in Attempts, Quieten(i) PROVE Slots'
  <2>1. /\ \A j \in Attempts : row'[j].status = row[j].status
        /\ \A j \in Attempts \ {i} : row'[j] = row[j]
        /\ ~Alive(i) /\ UNCHANGED <<made, pipe, pass>>
    BY <1>8, <1>0 DEF Quieten, Rows
  <2>2. \A j \in Attempts : Alive(j)' => Running(j)' /\ row'[j].beat = "fresh"
    BY <2>1 DEF Slots, LiveRuns, Alive, Running
  <2>3. \A p \in Passes : pass'[p].pc # "idle" => pipe'[pass'[p].row].pc \notin Live
    BY <2>1, <1>0 DEF Alive
  <2> QED
    BY <2>1, <2>2, <2>3, SlotsKept DEF Running
<1>9. ASSUME ApiDies PROVE Slots'
  <2>1. \A j \in Attempts : /\ Alive(j)' => Alive(j)
                            /\ pipe[j].pc = "none" => pipe'[j].pc = "none"
    BY <1>9, <1>0 DEF ApiDies, Over, NoPipe, Alive, Live
  <2> QED
    BY <2>1, <1>0, <1>9, QuietSlots DEF ApiDies
<1>10. ASSUME NEW t \in Takers, TakerStep(t) PROVE Slots'
  <2>1. CASE Stamp(t)
    <3>1. \A j \in Attempts : row'[j].status = row[j].status /\ row'[j].beat = row[j].beat
      BY <2>1, <1>0 DEF Stamp, Rows
    <3> QED
      BY <3>1, <2>1, <1>0, QuietSlots DEF Stamp, Alive
  <2>2. CASE UNCHANGED <<made, row, pipe, pass>>
    BY <2>2, <1>1
  <2> QED
    BY <2>1, <2>2, <1>10 DEF TakerStep, TakeDown, Pick, Sweep, Swept, SweepRefused
<1>11. ASSUME NEW p \in Passes, PassStep(p) PROVE Slots'
  <2>1. CASE Write(p)
    <3>1. /\ pass[p].row \in Attempts /\ pipe[pass[p].row].pc \notin Live
          /\ pass[p].verdict \in {"succeeded", "failed"}
      BY <2>1, <1>0 DEF Write, TypeOK, PassRecs
    <3>2. \A q \in Passes : pass'[q].pc # "idle" => pass'[q] = pass[q]
      BY <2>1, <1>0 DEF Write, NoPass
    <3> QED
      BY <3>1, <3>2, <2>1, FinishSlots DEF Write, Finish, Alive
  <2>2. ASSUME UNCHANGED <<made, row, pipe>>,
               \A q \in Passes : pass'[q].pc # "idle" =>
                    /\ pass'[q].row \in Attempts
                    /\ pipe[pass'[q].row].pc \notin Live
        PROVE  Slots'
    BY <2>2, QuietSlots DEF Alive
  <2>3. CASE Scan(p)
    <3>1. PICK i \in Attempts : /\ Stalled(i)
                               /\ pass' = [pass EXCEPT ![p] =
                                    [pc |-> "look", row |-> i, verdict |-> "none"]]
      BY <2>3 DEF Scan
    <3>2. ~Alive(i)
      BY <3>1 DEF Stalled, Slots, LiveRuns
    <3> QED
      BY <3>1, <3>2, <2>3, <2>2, <1>0 DEF Scan, Alive
  <2>4. CASE Look(p)
    <3>1. \A q \in Passes : pass'[q].row = pass[q].row /\ (pass'[q].pc # "idle" => pass[q].pc # "idle")
      BY <2>4, <1>0 DEF Look, PassRecs
    <3> QED
      BY <3>1, <2>4, <2>2, <1>0 DEF Look
  <2>5. CASE Deferred(p)
    BY <2>5, <2>2, <1>0 DEF Deferred, NoPass
  <2> QED
    BY <2>1, <2>3, <2>4, <2>5, <1>11 DEF PassStep
<1> QED
  BY <1>1, <1>2, <1>3, <1>4, <1>5, <1>6, <1>7, <1>8, <1>9, <1>10, <1>11
     DEF Next, PipeStep, ArmStep, Save, LandCreate, RevisionUp, RevisionFails,
         LandDelete, DropDelete, vars

\* Every reachable state is well typed, and the slot's invariant holds in it.
LEMMA SlotInvariant == Spec => [](TypeOK /\ Slots)
  <1>1. Init => TypeOK /\ Slots
    BY TypeInit, SlotsInit
  <1>2. (TypeOK /\ Slots) /\ [Next]_vars => (TypeOK /\ Slots)'
    BY TypeStep, SlotsStep DEF Slots
  <1> QED
    BY <1>1, <1>2, PTL DEF Spec

\* However publishes, passes, takedowns and Azure interleave, and wherever the
\* processes die, every record keeps its type: in particular a takedown stamps,
\* and a pass settles, a row that exists (unpublish and _finish in store.py).
THEOREM TypeCorrect == Spec => []TypeOK
  BY SlotInvariant, PTL

\* Two pipelines never write one app (_deploy in service.py under the claim of
\* store.py).
THEOREM NeverTwoWriters == Spec => []OneWriter
  <1>1. TypeOK /\ Slots => OneWriter
    BY DEF Slots, LiveRuns, OneRuns, OneWriter
  <1> QED
    BY <1>1, SlotInvariant, PTL

\* The columns the abstract slot sees.
Column(table) == [i \in Attempts |-> table[i].status]

LEMMA SlotClaimed ==
    ASSUME TypeOK, ~InFlight, NEW k, NEW c, NEW m, Claimed(k, c, m)
    PROVE  Slot!Start
  <1>1. /\ made' = made + 1 /\ made < MaxRows /\ made + 1 \in Attempts
        /\ row \in [Attempts -> Rows]
        /\ row' = [row EXCEPT ![made + 1] = [NoRow EXCEPT !.status = "running"]]
    BY PublishingAssumption DEF Claimed, Room, TypeOK, Attempts
  <1>2. \A i \in Attempts : row[i].status # "running"
    BY DEF InFlight, Running
  <1>3. Column(row') = [Column(row) EXCEPT ![made + 1] = "running"]
    BY <1>1 DEF Column, NoRow
  <1> QED
    BY <1>1, <1>2, <1>3 DEF Slot!Start, Slot!InFlight, Slot!Attempts, Attempts, Column

LEMMA SlotFinished ==
    ASSUME TypeOK, NEW i \in Attempts, NEW o \in {"succeeded", "failed"},
           NEW d \in BOOLEAN, (Running(i) /\ Ended(i, o, d)) \/ row' = row,
           made' = made
    PROVE  Slot!Settle(i) \/ UNCHANGED <<made, Column(row)>>
  <1>1. row \in [Attempts -> Rows]
    BY DEF TypeOK
  <1>2. CASE Running(i) /\ Ended(i, o, d)
    <2>1. Column(row') = [Column(row) EXCEPT ![i] = o]
      BY <1>1, <1>2 DEF Column, Ended, Rows
    <2> QED
      BY <2>1, <1>2 DEF Running, Slot!Settle, Slot!InFlight, Slot!Attempts, Attempts, Column
  <1>3. CASE row' = row
    BY <1>3 DEF Column
  <1> QED
    BY <1>2, <1>3

LEMMA SlotStep ==
    ASSUME TypeOK, Slots, [Next]_vars
    PROVE  Slot!Next \/ UNCHANGED <<made, Column(row)>>
<1>0. /\ row \in [Attempts -> Rows] /\ pass \in [Passes -> PassRecs]
      /\ \A p \in Passes : pass[p].pc # "idle" => pass[p].row \in Attempts
  BY PublishingAssumption DEF TypeOK, Attempts
<1>1. ASSUME NEW i \in Attempts, NEW o \in {"succeeded", "failed"},
             NEW d \in BOOLEAN, (Running(i) /\ Ended(i, o, d)) \/ row' = row,
             made' = made
      PROVE  Slot!Next \/ UNCHANGED <<made, Column(row)>>
  BY <1>1, SlotFinished DEF Slot!Next, Slot!Attempts, Attempts
<1>2. ASSUME ~InFlight, NEW k, NEW c, NEW m, Claimed(k, c, m)
      PROVE  Slot!Next
  BY <1>2, SlotClaimed DEF Slot!Next
<1>3. ASSUME made' = made, \A i \in Attempts : row'[i].status = row[i].status
      PROVE  UNCHANGED <<made, Column(row)>>
  BY <1>3 DEF Column
<1>4. ASSUME NEW a \in Publishers, NEW kind \in {"saved", "copy"},
             NEW v \in Versions, Publish(a, kind, v)
      PROVE Slot!Next \/ UNCHANGED <<made, Column(row)>>
  <2>1. CASE InFlight
    <3>1. PICK i \in Attempts : TakenOver(i)
      BY <1>4, <2>1 DEF Publish
    <3>2. row[i].down \in BOOLEAN
      BY <1>0 DEF Rows
    <3> QED
      BY <3>1, <3>2, <2>1, <1>4, <1>1 DEF Publish, TakenOver, Abandoned
  <2>2. CASE ~InFlight
    BY <2>2, <1>4, <1>2 DEF Publish
  <2> QED
    BY <2>1, <2>2
<1>5. ASSUME NEW a \in Publishers, ClaimAgain(a)
      PROVE  Slot!Next \/ UNCHANGED <<made, Column(row)>>
  BY <1>5, <1>2, <1>3 DEF ClaimAgain
<1>6. ASSUME Restart PROVE Slot!Next
  BY <1>6, <1>2 DEF Restart
<1>7. ASSUME NEW i \in Attempts, Pack(i) PROVE UNCHANGED <<made, Column(row)>>
  <2>1. PICK m : Recorded(i, m)
    BY <1>7 DEF Pack
  <2> QED
    BY <2>1, <1>7, <1>3, <1>0 DEF Pack, Recorded, Rows
<1>8. ASSUME NEW i \in Attempts, Settle(i)
      PROVE  Slot!Next \/ UNCHANGED <<made, Column(row)>>
  BY <1>8, <1>1 DEF Settle, Finish
<1>9. ASSUME NEW i \in Attempts, Quieten(i) PROVE UNCHANGED <<made, Column(row)>>
  BY <1>9, <1>3, <1>0 DEF Quieten, Rows
<1>10. ASSUME NEW t \in Takers, Stamp(t) PROVE UNCHANGED <<made, Column(row)>>
  BY <1>10, <1>3, <1>0 DEF Stamp, Rows
<1>11. ASSUME NEW p \in Passes, Write(p)
       PROVE  Slot!Next \/ UNCHANGED <<made, Column(row)>>
  <2>1. pass[p].row \in Attempts /\ pass[p].verdict \in {"succeeded", "failed"}
    BY <1>11, <1>0 DEF Write, TypeOK, PassRecs
  <2> QED
    BY <2>1, <1>11, <1>1 DEF Write, Finish
<1>12. ASSUME UNCHANGED <<made, row>> PROVE UNCHANGED <<made, Column(row)>>
  BY <1>12 DEF Column
<1> QED
  BY <1>4, <1>5, <1>6, <1>7, <1>8, <1>9, <1>10, <1>11, <1>12
     DEF Next, PipeStep, ArmStep, TakerStep, PassStep, Save, Fails, Create, Created,
         Poll, SettleLost, ApiDies, LandCreate, DropCreate, RevisionUp, RevisionFails,
         LandDelete, DropDelete, TakeDown, Pick, Sweep, Swept, SweepRefused, Scan,
         Look, Deferred, vars

\* The deployments table implements the one-at-a-time, settle-once slot, whoever
\* settles a row and however late (store.py: _try_claim, _take_over_stale,
\* _finish; reconcile.py).
THEOREM TableKeepsTheSlot == Spec => KeepsTheSlot
  <1>1. Init => Slot!Init
    BY DEF Init, NoRow, Slot!Init, Slot!Attempts, Attempts
  <1>2. TypeOK /\ Slots /\ [Next]_vars => [Slot!Next]_Slot!vars
    BY SlotStep DEF Slot!vars, Column
  <1> QED
    BY <1>1, <1>2, SlotInvariant, PTL DEF Spec, KeepsTheSlot, Slot!Spec

----------------------------------------------------------------------------
\* What was decided about is what is shipped.

\* The pcs of a pipeline that has its image; what Azure works on or holds.
Built == {"create", "wait", "ready", "good"}
InAzure == creating \union ({template, serving} \ {0})

AsksDecided == \A a \in Publishers : ask[a].kind # "none" => ask[a].commit \in cleared
PacksDecided == \A i \in Attempts :
    pipe[i].pc = "pack" /\ pipe[i].kind # "restart" => pipe[i].commit \in cleared
BuiltHasImage == \A i \in Attempts :
    \/ pipe[i].pc \in Built
    \/ pipe[i].pc = "pack" /\ pipe[i].kind = "restart"
    => pipe[i].image # 0
ImagesDecided == \A i \in Attempts :
    /\ pipe[i].image # 0 => tree[pipe[i].image] \in cleared
    /\ row[i].image # 0 => tree[row[i].image] \in cleared
RevisionsBuilt == \A i \in InAzure : pipe[i].image # 0

Bundles == /\ AsksDecided /\ PacksDecided /\ BuiltHasImage
           /\ ImagesDecided /\ RevisionsBuilt

LEMMA BundlesInit == Init => Bundles
  BY DEF Init, Bundles, AsksDecided, PacksDecided, BuiltHasImage, ImagesDecided,
     RevisionsBuilt, InAzure, Built, NoRow, NoAsk, NoPipe

\* A step that builds nothing keeps the bundles, when it takes no decision back
\* and moves only pipelines and revisions that have their image.
LEMMA BundlesKept ==
    ASSUME Bundles, cleared \subseteq cleared', tree' = tree,
           \A a \in Publishers : \/ ask'[a] = ask[a] \/ ask'[a].kind = "none"
                                \/ ask'[a].commit \in cleared',
           \A i \in Attempts : /\ pipe'[i].image = pipe[i].image
                               /\ row'[i].image = row[i].image
                               /\ pipe'[i].pc = "pack" => pipe'[i] = pipe[i]
                               /\ pipe'[i].pc \in Built => pipe[i].image # 0,
           \A i \in InAzure' : pipe[i].image # 0 /\ pipe'[i].image = pipe[i].image
    PROVE  Bundles'
  <1>1. AsksDecided' /\ PacksDecided'
    BY DEF Bundles, AsksDecided, PacksDecided
  <1>2. BuiltHasImage' /\ ImagesDecided' /\ RevisionsBuilt'
    BY DEF Bundles, BuiltHasImage, ImagesDecided, RevisionsBuilt
  <1> QED
    BY <1>1, <1>2 DEF Bundles

\* A claim of a commit that was decided about, or of an image that was built.
LEMMA BundlesClaimed ==
    ASSUME TypeOK, Bundles, NEW k \in Kinds, NEW c, NEW m \in Images, Claimed(k, c, m),
           cleared \subseteq cleared', k # "restart" => c \in cleared' /\ m = 0,
           k = "restart" => m # 0 /\ tree[m] \in cleared',
           \A a \in Publishers : ask'[a] = ask[a] \/ ask'[a].kind = "none",
           UNCHANGED <<tree, creating, template, serving>>
    PROVE  Bundles'
  <1>1. /\ made + 1 \in Attempts /\ row \in [Attempts -> Rows] /\ pipe \in [Attempts -> Pipes]
        /\ row' = [row EXCEPT ![made + 1] = [NoRow EXCEPT !.status = "running"]]
        /\ pipe' = [pipe EXCEPT ![made + 1] =
                [pc |-> "pack", kind |-> k, commit |-> c, image |-> m]]
        /\ \A i \in InAzure : i \in Attempts \ {made + 1}
    BY PublishingAssumption DEF Claimed, Room, TypeOK, Attempts, InAzure
  <1> HIDE DEF Attempts
  <1>2. /\ \A i \in Attempts \ {made + 1} : row'[i] = row[i] /\ pipe'[i] = pipe[i]
        /\ row'[made + 1].image = 0
        /\ pipe'[made + 1] = [pc |-> "pack", kind |-> k, commit |-> c, image |-> m]
    BY <1>1 DEF NoRow
  <1>3. AsksDecided' /\ PacksDecided'
    BY <1>2 DEF Bundles, AsksDecided, PacksDecided
  <1>4. BuiltHasImage' /\ ImagesDecided'
    BY <1>2 DEF Bundles, BuiltHasImage, ImagesDecided, Built
  <1>5. RevisionsBuilt'
    BY <1>1, <1>2 DEF Bundles, RevisionsBuilt, InAzure
  <1> QED
    BY <1>3, <1>4, <1>5 DEF Bundles

LEMMA BundlesStep == TypeOK /\ Bundles /\ [Next]_vars => Bundles'
<1> SUFFICES ASSUME TypeOK, Bundles, [Next]_vars PROVE Bundles'
  OBVIOUS
<1>0. /\ row \in [Attempts -> Rows] /\ pipe \in [Attempts -> Pipes]
      /\ ask \in [Publishers -> Asks] /\ made \in Nat
      /\ \A i \in InAzure : i \in Attempts /\ pipe[i].image # 0
      /\ InAzure' = creating' \union ({template', serving'} \ {0})
      /\ creating \subseteq InAzure /\ 0 \in Images /\ 0 \notin Attempts
  BY PublishingAssumption DEF TypeOK, InAzure, Attempts, Images, Bundles, RevisionsBuilt
<1>1. ASSUME UNCHANGED <<cleared, tree, pipe>>,
             \A a \in Publishers : ask'[a] = ask[a] \/ ask'[a].kind = "none",
             \A i \in Attempts : row'[i].image = row[i].image,
             InAzure' \subseteq InAzure
      PROVE  Bundles'
  <2>1. \A i \in Attempts : pipe'[i].pc \in Built => pipe[i].image # 0
    BY <1>1 DEF Bundles, BuiltHasImage
  <2> QED
    BY <2>1, <1>0, <1>1, BundlesKept
<1>2. ASSUME NEW i \in Attempts, NEW o \in {"succeeded", "failed"},
             Finish(i, o) \/ TakenOver(i)
      PROVE  \A j \in Attempts : row'[j].image = row[j].image
  <2>1. ASSUME NEW e, NEW d, Ended(i, e, d)
        PROVE  \A j \in Attempts : row'[j].image = row[j].image
    BY <1>0, <2>1 DEF Ended, Rows
  <2> QED
    BY <1>2, <2>1 DEF Finish, TakenOver
<1>3. ASSUME NEW a \in Publishers, NEW kind \in {"saved", "copy"},
             NEW v \in Versions, Publish(a, kind, v)
      PROVE Bundles'
  <2>1. v \in cleared' /\ cleared \subseteq cleared'
    BY <1>3 DEF Publish
  <2>2. CASE InFlight
    <3>1. \A j \in Attempts : row'[j].image = row[j].image
      BY <1>2, <1>3, <2>2 DEF Publish
    <3>2. \A b \in Publishers : ask'[b] = ask[b] \/ ask'[b].commit \in cleared'
      BY <1>3, <2>1, <2>2, <1>0 DEF Publish
    <3>3. \A j \in Attempts : pipe[j].pc \in Built => pipe[j].image # 0
      BY DEF Bundles, BuiltHasImage
    <3>4. UNCHANGED <<tree, pipe>> /\ InAzure' = InAzure
      BY <1>3, <2>2 DEF Publish, armVars, InAzure
    <3> QED
      BY <2>1, <3>1, <3>2, <3>3, <3>4, <1>0, BundlesKept
  <2>3. CASE ~InFlight
    BY <1>0, <1>3, <2>1, <2>3, BundlesClaimed DEF Publish, Kinds, armVars
  <2> QED
    BY <2>2, <2>3
<1>4. ASSUME NEW a \in Publishers, ClaimAgain(a) PROVE Bundles'
  <2>1. /\ \A b \in Publishers : ask'[b] = ask[b] \/ ask'[b].kind = "none"
        /\ ask[a].commit \in cleared /\ ask[a].kind \in {"saved", "copy"}
        /\ UNCHANGED <<cleared, tree, creating, template, serving>> /\ InAzure' = InAzure
    BY <1>0, <1>4 DEF ClaimAgain, NoAsk, Asks, Bundles, AsksDecided, armVars, InAzure
  <2>2. CASE Claimed(ask[a].kind, ask[a].commit, 0)
    BY <1>0, <2>1, <2>2, BundlesClaimed DEF Kinds
  <2>3. CASE UNCHANGED <<made, row, pipe>>
    BY <2>1, <2>3, <1>1
  <2> QED
    BY <2>2, <2>3, <1>4 DEF ClaimAgain
<1>5. ASSUME Restart PROVE Bundles'
  <2>1. PICK i \in Attempts : IsLive(i) /\ Claimed("restart", NoVersion, row[i].image)
    BY <1>5 DEF Restart
  <2>2. row[i].image \in Images /\ row[i].image # 0 /\ tree[row[i].image] \in cleared
    BY <1>0, <2>1 DEF IsLive, Published, Rows, Bundles, ImagesDecided
  <2> QED
    BY <2>1, <2>2, <1>5, BundlesClaimed DEF Restart, Kinds, armVars
<1>6. ASSUME NEW i \in Attempts, Pack(i) PROVE Bundles'
  <2>1. CASE pipe[i].kind = "restart"
    <3>1. /\ \A j \in Attempts \ {i} : row'[j] = row[j] /\ pipe'[j] = pipe[j]
          /\ row'[i].image \in {row[i].image, pipe[i].image}
          /\ pipe'[i] = [pipe[i] EXCEPT !.pc = "create"] /\ pipe[i].image # 0
          /\ UNCHANGED <<tree, cleared, ask, creating, template, serving>>
      BY <1>0, <1>6, <2>1
         DEF Pack, Recorded, Goto, Rows, Pipes, Bundles, BuiltHasImage, armVars
    <3>2. ImagesDecided'
      BY <3>1, <1>0 DEF Bundles, ImagesDecided, Pipes
    <3>3. PacksDecided' /\ AsksDecided' /\ BuiltHasImage' /\ RevisionsBuilt'
      BY <3>1, <1>0 DEF Bundles, PacksDecided, AsksDecided, BuiltHasImage, RevisionsBuilt,
         Pipes, InAzure
    <3> QED
      BY <3>2, <3>3 DEF Bundles
  <2>2. CASE pipe[i].kind # "restart"
    <3>0. tree \in [Attempts -> Versions \union {NoVersion}] /\ Shipped(i) \in cleared
      BY <1>6, <2>2 DEF TypeOK, Pack, Pinned, Shipped, Bundles, PacksDecided
    <3>1. /\ \A j \in Attempts \ {i} : row'[j] = row[j] /\ pipe'[j] = pipe[j]
          /\ row'[i].image \in {row[i].image, i}
          /\ pipe'[i] = [pipe[i] EXCEPT !.pc = "create", !.image = i]
          /\ UNCHANGED <<cleared, ask, creating, template, serving>>
      <4>1. /\ pipe' = [pipe EXCEPT ![i].pc = "create", ![i].image = i]
            /\ Recorded(i, i)
            /\ UNCHANGED <<cleared, ask, creating, template, serving>>
        BY <1>6, <2>2 DEF Pack, armVars
      <4>2. /\ \A j \in Attempts \ {i} : row'[j] = row[j]
            /\ row'[i].image \in {row[i].image, i}
        BY <4>1, <1>0 DEF Recorded, Rows
      <4>3. /\ \A j \in Attempts \ {i} : pipe'[j] = pipe[j]
            /\ pipe'[i] = [pipe[i] EXCEPT !.pc = "create", !.image = i]
        BY <4>1, <1>0
      <4> QED
        BY <4>1, <4>2, <4>3
    <3>2. tree' = [tree EXCEPT ![i] = Shipped(i)]
      BY <1>6, <2>2 DEF Pack
    <3>3. /\ tree'[i] \in cleared'
          /\ \A j \in Images : j # 0 /\ tree[j] \in cleared => tree'[j] \in cleared'
      BY <3>0, <3>1, <3>2
    <3>4. /\ \A j \in Attempts : pipe[j].image \in Images /\ row[j].image \in Images
          /\ pipe'[i].image = i /\ i # 0
      BY <3>1, <1>0 DEF Pipes, Rows
    <3>5. ImagesDecided'
      BY <3>1, <3>3, <3>4 DEF Bundles, ImagesDecided
    <3>6. PacksDecided' /\ AsksDecided' /\ BuiltHasImage' /\ RevisionsBuilt'
      BY <3>1, <3>4, <1>0 DEF Bundles, PacksDecided, AsksDecided, BuiltHasImage,
         RevisionsBuilt, Pipes, InAzure
    <3> QED
      BY <3>5, <3>6 DEF Bundles
  <2> QED
    BY <2>1, <2>2
<1>7. ASSUME NEW i \in Attempts,
             \/ Fails(i) \/ Create(i) \/ Created(i) \/ Poll(i) \/ Settle(i)
             \/ SettleLost(i) \/ DropCreate(i)
      PROVE  Bundles'
  <2>1. \A j \in Attempts : /\ pipe'[j].image = pipe[j].image
                            /\ pipe'[j].pc = "pack" => pipe'[j] = pipe[j]
                            /\ pipe'[j].pc \in Built => pipe[j].image # 0
    <3>0. \A j \in Attempts : pipe[j].pc \in Built => pipe[j].image # 0
      BY DEF Bundles, BuiltHasImage
    <3>1. ASSUME NEW pc \in Live \ {"pack"}, Goto(i, pc),
                 pc = "bad" \/ pipe[i].pc \in Built PROVE <2>1
      BY <3>0, <3>1, <1>0 DEF Goto, Live, Pipes, Built
    <3>2. ASSUME End(i) PROVE <2>1
      BY <3>0, <3>2, <1>0 DEF End, Over, NoPipe, Pipes, Built
    <3>3. ASSUME pipe' = pipe PROVE <2>1
      BY <3>0, <3>3
    <3> QED
      BY <3>1, <3>2, <3>3, <1>7
         DEF Fails, Create, Created, Poll, Settle, SettleLost, DropCreate, Live, Built
  <2>2. \A j \in Attempts : row'[j].image = row[j].image
    BY <1>7, <1>2 DEF Fails, Create, Created, Poll, Settle, SettleLost, DropCreate
  <2>3. UNCHANGED <<cleared, tree, ask>>
    BY <1>7 DEF Fails, Create, Created, Poll, Settle, SettleLost, DropCreate
  <2>4. \A j \in InAzure' : j \in Attempts /\ pipe[j].image # 0
    <3>1. CASE Create(i)
      <4>1. pipe[i].image # 0 /\ InAzure' = InAzure \union {i}
        BY <3>1, <1>0 DEF Create, Bundles, BuiltHasImage, Built, InAzure
      <4> QED
        BY <4>1, <1>0
    <3>2. CASE ~Create(i)
      BY <3>2, <1>0, <1>7
         DEF Fails, Created, Poll, Settle, SettleLost, DropCreate, InAzure, armVars
    <3> QED
      BY <3>1, <3>2
  <2> QED
    BY <2>1, <2>2, <2>3, <2>4, BundlesKept
<1>8. ASSUME ApiDies PROVE Bundles'
  <2>1. \A j \in Attempts : /\ pipe'[j].image = pipe[j].image
                            /\ pipe'[j].pc = "pack" => pipe'[j] = pipe[j]
                            /\ pipe'[j].pc \in Built => pipe[j].image # 0
    BY <1>0, <1>8 DEF ApiDies, Over, NoPipe, Alive, Live, Bundles, BuiltHasImage, Built
  <2>2. /\ UNCHANGED <<cleared, tree, row>> /\ InAzure' = InAzure
        /\ \A a \in Publishers : ask'[a].kind = "none"
    BY <1>8 DEF ApiDies, NoAsk, armVars, InAzure
  <2> QED
    BY <2>1, <2>2, <1>0, BundlesKept
<1>9. ASSUME NEW i \in Attempts, LandCreate(i) \/ RevisionUp(i) \/ RevisionFails(i)
      PROVE  Bundles'
  BY <1>9, <1>1 DEF LandCreate, RevisionUp, RevisionFails, InAzure
<1>10. ASSUME NEW t \in Takers, LandDelete(t) \/ DropDelete(t) PROVE Bundles'
  BY <1>10, <1>1 DEF LandDelete, DropDelete, InAzure
<1>11. ASSUME NEW t \in Takers, TakerStep(t) PROVE Bundles'
  <2>1. \A j \in Attempts : row'[j].image = row[j].image
    BY <1>11, <1>0
       DEF TakerStep, TakeDown, Pick, Sweep, Swept, SweepRefused, Stamp, Rows
  <2> QED
    BY <2>1, <1>11, <1>1
       DEF TakerStep, TakeDown, Pick, Sweep, Swept, SweepRefused, Stamp, InAzure, armVars
<1>12. ASSUME NEW p \in Passes, PassStep(p) PROVE Bundles'
  <2>1. CASE Write(p)
    <3>1. pass[p].row \in Attempts /\ pass[p].verdict \in {"succeeded", "failed"}
      BY <2>1, PublishingAssumption DEF Write, TypeOK, PassRecs, Attempts
    <3> QED
      BY <3>1, <2>1, <1>1, <1>2 DEF Write, InAzure, armVars
  <2>2. CASE ~Write(p)
    BY <2>2, <1>12, <1>1 DEF PassStep, Scan, Look, Deferred, InAzure, armVars
  <2> QED
    BY <2>1, <2>2
<1>13. ASSUME NEW i \in Attempts, Quieten(i) PROVE Bundles'
  <2>1. \A j \in Attempts : row'[j].image = row[j].image
    BY <1>13, <1>0 DEF Quieten, Rows
  <2> QED
    BY <2>1, <1>13, <1>1 DEF Quieten, InAzure, armVars
<1>14. ASSUME NEW v \in Versions, Save(v) PROVE Bundles'
  BY <1>14, <1>1 DEF Save, InAzure, armVars
<1>15. ASSUME UNCHANGED vars PROVE Bundles'
  BY <1>15, <1>1 DEF vars, InAzure, armVars
<1> QED
  BY <1>3, <1>4, <1>5, <1>6, <1>7, <1>8, <1>9, <1>10, <1>11, <1>12, <1>13, <1>14, <1>15
     DEF Next, PipeStep, ArmStep

\* Only a commit the gate or an administrator decided about is ever put in
\* production, though the snapshot moves between the decision and the
\* extraction (the pin in _deploy, service.py) and a restart decides nothing.
THEOREM OnlyTheDecidedServes == Spec => []OnlyDecidedServes
  <1>1. Init => TypeOK /\ Slots /\ Bundles
    BY TypeInit, SlotsInit, BundlesInit
  <1>2. (TypeOK /\ Slots /\ Bundles) /\ [Next]_vars => (TypeOK /\ Slots /\ Bundles)'
    BY TypeStep, SlotsStep, BundlesStep DEF Slots
  <1>3. TypeOK /\ Bundles => OnlyDecidedServes
    <2>1. TypeOK => {template, serving} \ {0} \subseteq Attempts
      BY PublishingAssumption DEF TypeOK, Attempts
    <2> QED
      BY <2>1 DEF Bundles, RevisionsBuilt, ImagesDecided, InAzure, OnlyDecidedServes, Runs
  <1> QED
    BY <1>1, <1>2, <1>3, PTL DEF Spec

----------------------------------------------------------------------------
\* A stamp says that the container has gone, where Azure refuses a call while it
\* works on another and no attempt begins while a takedown is under way.

\* Only the newest attempt runs, and none does while a takedown is under way.
NewestRuns == \A i \in Attempts : Running(i) => i = made
Undisturbed == \A t \in Takers : taker[t].pc # "idle" => ~InFlight

\* A takedown works on the newest attempt; from its delete on, nothing is being
\* created, and once that has ended the container has gone.
Bare == template = 0 /\ creating = {}
Sweeping == \A t \in Takers :
    /\ taker[t].pc \in {"sweep", "wait", "stamp"} => taker[t].row = made
    /\ taker[t].pc = "wait" => creating = {}
    /\ taker[t].pc = "wait" /\ t \notin deleting => Bare
    /\ taker[t].pc = "stamp" => Bare

\* The stamp stands until the next attempt.
StampStands == made # 0 /\ row[made].down => Bare /\ ~Running(made)

Takedowns == NewestRuns /\ Undisturbed /\ Sweeping /\ StampStands

LEMMA TakedownsInit == Init => Takedowns
  BY DEF Init, Takedowns, NewestRuns, Undisturbed, Sweeping, StampStands, NoTaker, NoRow, Running

\* Rows that settle, beat or are taken over change nothing here.
LEMMA TakedownsKept ==
    ASSUME Takedowns, made' = made, made \in 0 .. MaxRows,
           \A i \in Attempts : row'[i].status = "running" => row[i].status = "running",
           \A i \in Attempts : row'[i].down => row[i].down,
           UNCHANGED <<template, creating, deleting, taker>>
    PROVE  Takedowns'
<1>1. made # 0 => made \in Attempts
  BY PublishingAssumption DEF Attempts
<1>2. NewestRuns' /\ StampStands'
  BY <1>1 DEF Takedowns, NewestRuns, StampStands, Bare, Running
<1>3. Undisturbed' /\ Sweeping'
  BY DEF Takedowns, Undisturbed, InFlight, Running, Sweeping, Bare
<1> QED
  BY <1>2, <1>3 DEF Takedowns

\* An attempt begins when nothing runs and nothing is being taken down.
LEMMA TakedownsClaimed ==
    ASSUME TypeOK, Takedowns, ~Overlaps, ~InFlight, NEW k, NEW c, NEW m, Claimed(k, c, m),
           UNCHANGED <<template, creating, deleting, taker>>
    PROVE  Takedowns'
<1>1. /\ made' = made + 1 /\ made + 1 \in Attempts /\ row \in [Attempts -> Rows]
      /\ row' = [row EXCEPT ![made + 1] = [NoRow EXCEPT !.status = "running"]]
      /\ \A t \in Takers : taker[t].pc = "idle"
  BY PublishingAssumption DEF TypeOK, Claimed, Room, Attempts
<1>2. /\ row'[made + 1].down = FALSE /\ made' = made + 1
      /\ \A i \in Attempts : i # made + 1 => row'[i] = row[i]
  BY <1>1 DEF NoRow
<1>3. NewestRuns' /\ StampStands'
  BY <1>1, <1>2 DEF NewestRuns, StampStands, Running, InFlight
<1>4. Undisturbed' /\ Sweeping'
  BY <1>1 DEF Undisturbed, Sweeping
<1> QED
  BY <1>3, <1>4 DEF Takedowns

\* A takedown moves on, and leaves the rows and the container alone.
LEMMA TakerMoves ==
    ASSUME TypeOK, Takedowns, NEW t \in Takers, NEW r,
           taker' = [taker EXCEPT ![t] = r],
           UNCHANGED <<made, row, template, creating>>,
           \A u \in Takers : u # t /\ u \in deleting => u \in deleting',
           r.pc # "idle" => ~InFlight,
           r.pc \in {"sweep", "wait", "stamp"} => r.row = made,
           r.pc = "wait" => creating = {},
           r.pc = "wait" /\ t \notin deleting' => Bare,
           r.pc = "stamp" => Bare
    PROVE  Takedowns'
<1>1. /\ taker \in [Takers -> TakerRecs] /\ taker'[t] = r
      /\ \A u \in Takers : u # t => taker'[u] = taker[u]
  BY DEF TypeOK
<1>2. NewestRuns' /\ StampStands'
  BY DEF Takedowns, NewestRuns, StampStands, Bare, Running
<1>3. Undisturbed'
  BY <1>1 DEF Takedowns, Undisturbed, InFlight, Running
<1>4. Sweeping'
  BY <1>1 DEF Takedowns, Sweeping, Bare
<1> QED
  BY <1>2, <1>3, <1>4 DEF Takedowns

LEMMA TakerSteps ==
    ASSUME TypeOK, Takedowns, Serial, NEW t \in Takers, TakerStep(t) PROVE Takedowns'
<1>1. /\ taker[t] \in TakerRecs /\ made \in 0 .. MaxRows /\ row \in [Attempts -> Rows]
      /\ taker \in [Takers -> TakerRecs]
      /\ NoTaker.pc = "idle" /\ (made # 0 => made \in Attempts)
  BY PublishingAssumption DEF TypeOK, NoTaker, Attempts
<1>2. \A pc \in {"pick", "wait", "stamp"} : /\ [taker[t] EXCEPT !.pc = pc].pc = pc
                                             /\ [taker[t] EXCEPT !.pc = pc].row = taker[t].row
  BY <1>1 DEF TakerRecs
<1>3. taker[t].pc # "idle" => ~InFlight
  BY DEF Takedowns, Undisturbed
<1>4. taker[t].pc \in {"sweep", "wait", "stamp"} => taker[t].row = made
  BY DEF Takedowns, Sweeping
<1>5. CASE TakeDown(t)
  BY <1>2, <1>5, TakerMoves DEF TakeDown, armVars
<1>6. CASE Pick(t)
  <2>1. taker[t].pc = "pick" /\ UNCHANGED <<made, row, template, creating, deleting>>
    BY <1>6 DEF Pick, armVars
  <2>2. CASE taker' = [taker EXCEPT ![t] = NoTaker]
    BY <1>1, <2>1, <2>2, TakerMoves
  <2>3. CASE taker' = [taker EXCEPT ![t] = [pc |-> "sweep", row |-> made]]
    BY <1>3, <2>1, <2>3, TakerMoves
  <2> QED
    BY <1>6, <2>2, <2>3 DEF Pick
<1>7. CASE Sweep(t)
  <2>1. /\ taker[t].pc = "sweep" /\ creating = {} /\ UNCHANGED <<made, row, template, creating>>
    BY <1>7 DEF Sweep, Free
  <2>2. CASE template = 0
    <3>1. taker' = [taker EXCEPT ![t].pc = "stamp"] /\ UNCHANGED deleting
      BY <1>7, <2>2 DEF Sweep
    <3>2. Bare
      BY <2>1, <2>2 DEF Bare
    <3> QED
      BY <1>1, <1>2, <1>3, <1>4, <2>1, <3>1, <3>2, TakerMoves
  <2>3. CASE template # 0
    <3>1. taker' = [taker EXCEPT ![t].pc = "wait"] /\ deleting' = deleting \union {t}
      BY <1>7, <2>3 DEF Sweep
    <3> QED
      BY <1>1, <1>2, <1>3, <1>4, <2>1, <3>1, TakerMoves
  <2> QED
    BY <2>2, <2>3
<1>8. CASE Swept(t)
  <2>1. taker[t].pc = "wait" /\ UNCHANGED <<made, row, template, creating, deleting>>
    BY <1>8 DEF Swept, armVars
  <2>2. CASE t \in deleting
    <3>1. taker' = [taker EXCEPT ![t] = NoTaker]
      BY <1>1, <1>8, <2>2 DEF Swept
    <3> QED
      BY <1>1, <2>1, <3>1, TakerMoves
  <2>3. CASE t \notin deleting
    <3>1. taker' = [taker EXCEPT ![t] = [taker[t] EXCEPT !.pc = "stamp"]]
      BY <1>1, <1>8, <2>3 DEF Swept
    <3>2. Bare
      BY <2>1, <2>3 DEF Takedowns, Sweeping
    <3> QED
      BY <1>2, <1>3, <1>4, <2>1, <3>1, <3>2, TakerMoves
  <2> QED
    BY <2>2, <2>3
<1>9. CASE SweepRefused(t)
  BY <1>1, <1>9, TakerMoves DEF SweepRefused, armVars
<1>10. CASE Stamp(t)
  <2>1. /\ taker[t].pc = "stamp" /\ taker[t].row = made
        /\ row' = [row EXCEPT ![made].down = TRUE] /\ taker' = [taker EXCEPT ![t] = NoTaker]
        /\ UNCHANGED <<made, template, creating, deleting>>
    BY <1>4, <1>10 DEF Stamp, armVars
  <2>2. Bare /\ ~InFlight
    BY <1>3, <2>1 DEF Takedowns, Sweeping
  <2>3. \A i \in Attempts : row'[i].status = row[i].status
    BY <1>1, <2>1 DEF Rows
  <2>4. NewestRuns' /\ StampStands'
    <3>1. \A i \in Attempts : ~Running(i)'
      BY <2>2, <2>3 DEF InFlight, Running
    <3>2. Bare'
      BY <2>1, <2>2 DEF Bare
    <3> QED
      BY <1>1, <2>1, <3>1, <3>2 DEF NewestRuns, StampStands, Running
  <2>5. \A u \in Takers : taker'[u] = taker[u] \/ taker'[u].pc = "idle"
    BY <1>1, <2>1
  <2>6. Undisturbed'
    BY <2>3, <2>5 DEF Takedowns, Undisturbed, InFlight, Running
  <2>7. Sweeping'
    BY <2>1, <2>5 DEF Takedowns, Sweeping, Bare
  <2> QED
    BY <2>4, <2>6, <2>7 DEF Takedowns
<1> QED
  BY <1>5, <1>6, <1>7, <1>8, <1>9, <1>10 DEF TakerStep

\* What Azure does, and the call that asks it for a revision.
LEMMA ArmSteps ==
    ASSUME TypeOK, Slots, Takedowns, ArmStep \/ \E i \in Attempts : Create(i)
    PROVE  Takedowns'
<1>1. taker \in [Takers -> TakerRecs] /\ NoTaker.pc = "idle" /\ made \in 0 .. MaxRows
  BY DEF TypeOK, NoTaker
<1>2. ASSUME NEW i \in Attempts, Create(i) PROVE Takedowns'
  <2>1. Running(i) /\ InFlight /\ i = made
    BY <1>2 DEF Create, Slots, LiveRuns, Alive, Live, InFlight, Takedowns, NewestRuns
  <2>2. UNCHANGED <<made, row, template, taker>>
    BY <1>2 DEF Create
  <2>3. ~row[made].down /\ \A t \in Takers : taker[t].pc = "idle"
    BY <2>1, PublishingAssumption DEF Takedowns, StampStands, Undisturbed, Attempts
  <2> QED
    BY <2>2, <2>3 DEF Takedowns, NewestRuns, Running, Undisturbed, Sweeping, StampStands
<1>3. ASSUME NEW i \in Attempts, LandCreate(i) \/ DropCreate(i) PROVE Takedowns'
  <2>1. creating # {} /\ UNCHANGED <<made, row, taker>>
    BY <1>3 DEF LandCreate, DropCreate
  <2>2. /\ ~(made # 0 /\ row[made].down)
        /\ \A t \in Takers : taker[t].pc \notin {"wait", "stamp"}
    BY <2>1 DEF Takedowns, StampStands, Sweeping, Bare
  <2> QED
    BY <2>1, <2>2 DEF Takedowns, NewestRuns, Running, Undisturbed, InFlight, Sweeping, StampStands
<1>4. ASSUME NEW i \in Attempts, RevisionUp(i) \/ RevisionFails(i) PROVE Takedowns'
  BY <1>1, <1>4, TakedownsKept DEF RevisionUp, RevisionFails
<1>5. ASSUME NEW t \in Takers, LandDelete(t) PROVE Takedowns'
  <2>1. /\ template' = 0 /\ UNCHANGED <<made, row, taker, creating>>
    BY <1>5 DEF LandDelete
  <2> QED
    BY <2>1 DEF Takedowns, NewestRuns, Running, Undisturbed, InFlight, Sweeping, StampStands, Bare
<1>6. ASSUME NEW t \in Takers, DropDelete(t) PROVE Takedowns'
  <2>1. deleting' = deleting \ {t} /\ UNCHANGED <<made, row, template, creating>>
    BY <1>6 DEF DropDelete
  <2>2. CASE taker[t].pc = "wait"
    BY <1>1, <1>6, <2>1, <2>2, TakerMoves DEF DropDelete
  <2>3. CASE taker[t].pc # "wait"
    <3>1. UNCHANGED taker
      BY <1>6, <2>3 DEF DropDelete
    <3> QED
      BY <2>1, <2>3, <3>1
         DEF Takedowns, NewestRuns, Running, Undisturbed, InFlight, Sweeping, StampStands, Bare
  <2> QED
    BY <2>2, <2>3
<1> QED
  BY <1>2, <1>3, <1>4, <1>5, <1>6 DEF ArmStep

LEMMA TakedownsStep ==
    ASSUME Serial, ~Overlaps
    PROVE  TypeOK /\ Slots /\ Takedowns /\ [Next]_vars => Takedowns'
<1> SUFFICES ASSUME TypeOK, Slots, Takedowns, [Next]_vars PROVE Takedowns'
  OBVIOUS
<1>0. made \in 0 .. MaxRows /\ row \in [Attempts -> Rows]
  BY DEF TypeOK
<1>1. ASSUME UNCHANGED <<made, row, template, creating, deleting, taker>> PROVE Takedowns'
  BY <1>0, <1>1, TakedownsKept
\* A row that settles, or keeps its stamp as it is taken over.
<1>2. ASSUME NEW i \in Attempts, NEW o \in {"succeeded", "failed"},
             Finish(i, o) \/ TakenOver(i),
             UNCHANGED <<made, template, creating, deleting, taker>>
      PROVE  Takedowns'
  <2>1. ASSUME NEW e \in {"succeeded", "failed"}, NEW d, d => row[i].down, Ended(i, e, d)
        PROVE  \A j \in Attempts : /\ row'[j].status = "running" => row[j].status = "running"
                                   /\ row'[j].down => row[j].down
    BY <1>0, <2>1 DEF Ended, Rows
  <2>2. \A j \in Attempts : /\ row'[j].status = "running" => row[j].status = "running"
                            /\ row'[j].down => row[j].down
    BY <1>2, <2>1 DEF Finish, TakenOver
  <2> QED
    BY <1>0, <1>2, <2>2, TakedownsKept
<1>3. ASSUME NEW a \in Publishers, NEW kind \in {"saved", "copy"},
             NEW v \in Versions, Publish(a, kind, v)
      PROVE  Takedowns'
  <2>1. CASE InFlight
    BY <1>2, <1>3, <2>1 DEF Publish, armVars
  <2>2. CASE ~InFlight
    BY <1>3, <2>2, TakedownsClaimed DEF Publish, armVars
  <2> QED
    BY <2>1, <2>2
<1>4. ASSUME NEW a \in Publishers, ClaimAgain(a) PROVE Takedowns'
  <2>1. CASE ~InFlight /\ Claimed(ask[a].kind, ask[a].commit, 0)
    BY <1>4, <2>1, TakedownsClaimed DEF ClaimAgain, armVars
  <2>2. CASE UNCHANGED <<made, row, pipe>>
    BY <1>1, <1>4, <2>2 DEF ClaimAgain, armVars
  <2> QED
    BY <1>4, <2>1, <2>2 DEF ClaimAgain
<1>5. ASSUME Restart PROVE Takedowns'
  BY <1>5, TakedownsClaimed DEF Restart, armVars
<1>6. ASSUME NEW i \in Attempts, Pack(i) PROVE Takedowns'
  <2>1. UNCHANGED <<made, template, creating, deleting, taker>>
    BY <1>6 DEF Pack, armVars
  <2>2. \E m : Recorded(i, m)
    BY <1>6 DEF Pack
  <2>3. \A j \in Attempts : row'[j].status = row[j].status /\ row'[j].down = row[j].down
    BY <1>0, <2>2 DEF Recorded, Rows
  <2> QED
    BY <1>0, <2>1, <2>3, TakedownsKept
<1>7. ASSUME NEW i \in Attempts, Fails(i) \/ Created(i) \/ Poll(i) \/ SettleLost(i)
      PROVE  Takedowns'
  BY <1>1, <1>7 DEF Fails, Created, Poll, SettleLost, armVars
<1>8. ASSUME NEW i \in Attempts, Settle(i) PROVE Takedowns'
  <2>1. UNCHANGED <<made, template, creating, deleting, taker>>
    BY <1>8 DEF Settle, armVars
  <2>2. \E o \in {"succeeded", "failed"} : Finish(i, o)
    BY <1>8 DEF Settle
  <2> QED
    BY <1>2, <2>1, <2>2
<1>9. ASSUME NEW i \in Attempts, Quieten(i) PROVE Takedowns'
  <2>1. UNCHANGED <<made, template, creating, deleting, taker>>
    BY <1>9 DEF Quieten, armVars
  <2>2. \A j \in Attempts : row'[j].status = row[j].status /\ row'[j].down = row[j].down
    BY <1>0, <1>9 DEF Quieten, Rows
  <2> QED
    BY <1>0, <2>1, <2>2, TakedownsKept
<1>10. ASSUME ApiDies PROVE Takedowns'
  <2>1. /\ UNCHANGED <<made, row, template, creating>>
        /\ \A t \in Takers : taker'[t].pc = "idle"
    BY <1>10 DEF ApiDies, armVars, NoTaker
  <2> QED
    BY <2>1 DEF Takedowns, NewestRuns, Running, Undisturbed, Sweeping, StampStands, Bare
<1>11. ASSUME NEW p \in Passes, PassStep(p) PROVE Takedowns'
  <2>1. CASE Write(p)
    <3>1. pass[p].row \in Attempts /\ pass[p].verdict \in {"succeeded", "failed"}
      BY <2>1, PublishingAssumption DEF Write, TypeOK, PassRecs, Attempts
    <3> QED
      BY <1>2, <2>1, <3>1 DEF Write, armVars
  <2>2. CASE ~Write(p)
    BY <1>1, <1>11, <2>2 DEF PassStep, Scan, Look, Deferred, armVars
  <2> QED
    BY <2>1, <2>2
<1>12. ASSUME (\E v \in Versions : Save(v)) \/ UNCHANGED vars PROVE Takedowns'
  BY <1>1, <1>12 DEF Save, vars, armVars
<1> QED
  BY <1>3, <1>4, <1>5, <1>6, <1>7, <1>8, <1>9, <1>10, <1>11, <1>12, ArmSteps, TakerSteps
     DEF Next, PipeStep

\* Where Azure refuses a call while it works on another and no attempt begins during
\* a takedown, a stamp on the newest settled attempt says that the container has
\* gone, whatever dies between the delete and the stamp and whatever Azure drops
\* (take_project_down in deploy/router.py, unpublish in store.py).
THEOREM AStampMeansGone ==
    ASSUME Serial, ~Overlaps PROVE Spec => []StampedMeansGone
<1>1. Init => Takedowns
  BY TakedownsInit
<1>2. TypeOK /\ Slots /\ Takedowns /\ [Next]_vars => Takedowns'
  BY TakedownsStep
<1>3. Takedowns => StampedMeansGone
  BY DEF Takedowns, StampStands, StampedMeansGone, Bare
<1> QED
  BY <1>1, <1>2, <1>3, SlotInvariant, PTL DEF Spec
=============================================================================
