----------------------------- MODULE Publishing -----------------------------
(***************************************************************************)
(* Publishing one app: its deployments table, the detached pipelines that  *)
(* publish or restart it, the reconciler that settles the attempts of a    *)
(* control plane that died, and taking the app down (services/deploy:      *)
(* store.py, service.py, reconcile.py, teardown.py, aca_publish.py;        *)
(* api/v1/deploy/router.py).                                               *)
(*                                                                         *)
(* Pipelines and requests live in the API process and die with it; the     *)
(* reconciler's passes run there and in the worker.  Every statement on    *)
(* the table commits alone and every Azure call is a step of its own.      *)
(* Azure works on an operation after the call that asked for it has given  *)
(* up: "the operation may still land".                                     *)
(*                                                                         *)
(* An attempt, its pipeline and the revision it makes have one number; an  *)
(* image has the number of the attempt that built it, and 0 is none.       *)
(***************************************************************************)
EXTENDS Naturals

CONSTANTS
    Versions,    \* commits of the app
    NoVersion,
    MaxRows,     \* attempts in a behaviour
    Publishers,  \* requests that may publish at once
    Takers,      \* requests that may take down at once
    Passes,      \* reconciler passes that may run at once
    Dies,        \* the API process may die, a pipeline may lose the database
    Serial,      \* Azure refuses a call while it works on another
    Overlaps     \* an attempt may begin while a takedown is under way

ASSUME PublishingAssumption ==
    /\ NoVersion \notin Versions
    /\ MaxRows \in Nat
    /\ Dies \in BOOLEAN
    /\ Serial \in BOOLEAN
    /\ Overlaps \in BOOLEAN

VARIABLES
    saved,     \* the commit of the saved snapshot
    cleared,   \* commits the gate or an administrator let publish
    made,      \* attempts made so far
    row,       \* the deployments table
    ask,       \* a publish between its takeover and its second claim
    pipe,      \* each attempt's pipeline
    tree,      \* the commit in each image
    template,  \* the revision the container app asks for, 0 when it is absent
    serving,   \* the revision that takes the traffic, 0 when none does
    revision,  \* each revision's state
    creating,  \* creates Azure works on
    deleting,  \* deletes Azure works on
    taker,     \* each takedown request
    pass       \* each reconciler pass

armVars == <<template, serving, revision, creating, deleting>>
vars == <<saved, cleared, made, row, ask, pipe, tree, armVars, taker, pass>>

----------------------------------------------------------------------------
\* Types and the initial state.

Attempts == 1 .. MaxRows
Images == 0 .. MaxRows
Kinds == {"saved", "copy", "restart"}
Rows == [status : {"none", "running", "succeeded", "failed"},
         image : Images, beat : {"fresh", "quiet", "stale"}, down : BOOLEAN]
Asks == [kind : {"none", "saved", "copy"}, commit : Versions \union {NoVersion}]
Live == {"pack", "create", "wait", "ready", "good", "bad"}
Pipes == [pc : Live \union {"none", "over"}, kind : Kinds,
          commit : Versions \union {NoVersion}, image : Images]
TakerRecs == [pc : {"idle", "pick", "sweep", "wait", "stamp"}, row : Images]
PassRecs == [pc : {"idle", "look", "write"}, row : Images,
             verdict : {"none", "succeeded", "failed"}]

TypeOK ==
    /\ saved \in Versions
    /\ cleared \subseteq Versions
    /\ made \in 0 .. MaxRows
    /\ row \in [Attempts -> Rows]
    /\ ask \in [Publishers -> Asks]
    /\ pipe \in [Attempts -> Pipes]
    /\ tree \in [Attempts -> Versions \union {NoVersion}]
    /\ template \in 0 .. made /\ serving \in 0 .. made
    /\ revision \in [Attempts -> {"none", "coming", "healthy", "failed"}]
    /\ creating \subseteq 1 .. made
    /\ deleting \subseteq Takers
    /\ taker \in [Takers -> TakerRecs]
    /\ \A t \in Takers :
        taker[t].pc \in {"sweep", "wait", "stamp"} => taker[t].row \in 1 .. made
    /\ pass \in [Passes -> PassRecs]
    /\ \A p \in Passes : pass[p].pc # "idle" => pass[p].row \in 1 .. made
    /\ \A p \in Passes : pass[p].pc = "write" => pass[p].verdict # "none"

NoRow == [status |-> "none", image |-> 0, beat |-> "fresh", down |-> FALSE]
NoAsk == [kind |-> "none", commit |-> NoVersion]
NoPipe == [pc |-> "none", kind |-> "saved", commit |-> NoVersion, image |-> 0]
NoTaker == [pc |-> "idle", row |-> 0]
NoPass == [pc |-> "idle", row |-> 0, verdict |-> "none"]

Init ==
    /\ saved \in Versions /\ cleared = {}
    /\ made = 0
    /\ row = [i \in Attempts |-> NoRow]
    /\ ask = [a \in Publishers |-> NoAsk]
    /\ pipe = [i \in Attempts |-> NoPipe]
    /\ tree = [i \in Attempts |-> NoVersion]
    /\ template = 0 /\ serving = 0
    /\ revision = [i \in Attempts |-> "none"]
    /\ creating = {} /\ deleting = {}
    /\ taker = [t \in Takers |-> NoTaker]
    /\ pass = [p \in Passes |-> NoPass]

----------------------------------------------------------------------------
\* The deployments table.

Running(i) == row[i].status = "running"
InFlight == \E i \in Attempts : Running(i)
Alive(i) == pipe[i].pc \in Live

\* _take_over_stale: nobody has beaten for half an hour.
AbandonedAnyway(i) == Running(i)
Abandoned(i) == Running(i) /\ row[i].beat = "stale"

\* stalled: nobody has beaten for two minutes.
Stalled(i) == Running(i) /\ row[i].beat # "fresh"

\* A row reaches its end.  (A settled row's heartbeat is read by nobody; it is
\* put back to "fresh".)
Ended(i, outcome, down) ==
    row' = [row EXCEPT ![i] =
        [@ EXCEPT !.status = outcome, !.down = down, !.beat = "fresh"]]

\* _finish: only a running row settles, and it settles without a stamp.
FinishAnyway(i, outcome) == Ended(i, outcome, FALSE)
Finish(i, outcome) ==
    IF Running(i) THEN Ended(i, outcome, FALSE) ELSE row' = row

\* A row that is taken over keeps its stamp.
TakenOver(i) == Abandoned(i) /\ Ended(i, "failed", row[i].down)

\* advance, with the digest.
Recorded(i, image) ==
    row' = IF Running(i) THEN [row EXCEPT ![i].image = image] ELSE row

\* _try_claim on a free slot, and the detached pipeline.
Room == made < MaxRows /\ (Overlaps \/ \A t \in Takers : taker[t].pc = "idle")
Claimed(kind, commit, image) ==
    /\ Room
    /\ made' = made + 1
    /\ row' = [row EXCEPT ![made + 1] = [NoRow EXCEPT !.status = "running"]]
    /\ pipe' = [pipe EXCEPT ![made + 1] =
        [pc |-> "pack", kind |-> kind, commit |-> commit, image |-> image]]

----------------------------------------------------------------------------
\* Requests.

\* A save replaces the snapshot.
Save(v) ==
    /\ v # saved
    /\ saved' = v
    /\ UNCHANGED <<cleared, made, row, ask, pipe, tree, armVars, taker, pass>>

\* The gate lets the saved commit publish, or a commit is approved and its
\* immutable copy ships.  The first claim fails where an attempt is in flight;
\* a stale one is taken over, and the claim is tried once more.
Publish(a, kind, commit) ==
    /\ ask[a] = NoAsk
    /\ kind = "saved" => commit = saved
    /\ cleared' = cleared \union {commit}
    /\ IF InFlight
       THEN /\ \E i \in Attempts : TakenOver(i)
            /\ ask' = [ask EXCEPT ![a] = [kind |-> kind, commit |-> commit]]
            /\ UNCHANGED <<made, pipe>>
       ELSE /\ Claimed(kind, commit, 0)
            /\ UNCHANGED ask
    /\ UNCHANGED <<saved, tree, armVars, taker, pass>>

ClaimAgain(a) ==
    /\ ask[a].kind # "none"
    /\ ask' = [ask EXCEPT ![a] = NoAsk]
    /\ \/ ~InFlight /\ Claimed(ask[a].kind, ask[a].commit, 0)
       \/ (InFlight \/ ~Room) /\ UNCHANGED <<made, row, pipe>>
    /\ UNCHANGED <<saved, cleared, tree, armVars, taker, pass>>

\* restart_project: what the last attempt that published put there, unless it
\* has been taken down since (latest_published, latest_takedown).
Published(i) == row[i].status = "succeeded" /\ row[i].image # 0
IsLive(i) ==
    /\ Published(i) /\ \A j \in Attempts : Published(j) => j <= i
    /\ \A j \in Attempts : row[j].down => j < i
Restart ==
    /\ ~InFlight
    /\ \E i \in Attempts : IsLive(i) /\ Claimed("restart", NoVersion, row[i].image)
    /\ UNCHANGED <<saved, cleared, ask, tree, armVars, taker, pass>>

----------------------------------------------------------------------------
\* A pipeline.

Goto(i, pc) == pipe' = [pipe EXCEPT ![i].pc = pc]

\* A pipeline that is over is known only by the image of its revision.
Over(i) == [NoPipe EXCEPT !.pc = "over", !.image = pipe[i].image]
End(i) == pipe' = [pipe EXCEPT ![i] = Over(i)]

\* _deploy's first half: the tree is extracted, checked against the commit
\* that was decided about, and built.  A restart takes its image as it is.
PinnedAnyway(i) == TRUE
Pinned(i) == pipe[i].kind = "saved" => saved = pipe[i].commit
Shipped(i) == IF pipe[i].kind = "saved" THEN saved ELSE pipe[i].commit
Pack(i) ==
    /\ pipe[i].pc = "pack"
    /\ IF pipe[i].kind = "restart"
       THEN /\ Recorded(i, pipe[i].image)
            /\ Goto(i, "create")
            /\ UNCHANGED tree
       ELSE /\ Pinned(i)
            /\ tree' = [tree EXCEPT ![i] = Shipped(i)]
            /\ Recorded(i, i)
            /\ pipe' = [pipe EXCEPT ![i].pc = "create", ![i].image = i]
    /\ UNCHANGED <<saved, cleared, made, ask, armVars, taker, pass>>

\* The tree moved, could not be read or did not build; the app's environment
\* could not be made.
Fails(i) ==
    /\ pipe[i].pc \in {"pack", "create"}
    /\ Goto(i, "bad")
    /\ UNCHANGED <<saved, cleared, made, row, ask, tree, armVars, taker, pass>>

Free == Serial => creating = {} /\ deleting = {}

\* create_or_update: asked, then answered, refused or given up on.
Create(i) ==
    /\ pipe[i].pc = "create" /\ Free
    /\ creating' = creating \union {i}
    /\ Goto(i, "wait")
    /\ UNCHANGED <<saved, cleared, made, row, ask, tree, template, serving,
                   revision, deleting, taker, pass>>

Created(i) ==
    /\ pipe[i].pc = "wait"
    /\ Goto(i, IF i \in creating THEN "bad" ELSE "ready")
    /\ UNCHANGED <<saved, cleared, made, row, ask, tree, armVars, taker, pass>>

\* _await_healthy_revision: a revision still coming is waited for until the
\* deadline, and an answer that does not come ends the wait as well.
Poll(i) ==
    /\ pipe[i].pc = "ready"
    /\ \/ revision[i] = "healthy" /\ Goto(i, "good")
       \/ Goto(i, "bad")
    /\ UNCHANGED <<saved, cleared, made, row, ask, tree, armVars, taker, pass>>

\* _succeed and _fail.
Settle(i) ==
    /\ \/ pipe[i].pc = "good" /\ Finish(i, "succeeded")
       \/ pipe[i].pc = "bad" /\ Finish(i, "failed")
    /\ End(i)
    /\ UNCHANGED <<saved, cleared, made, ask, tree, armVars, taker, pass>>

\* The write fails and the row is left for the reconciler.
SettleLost(i) ==
    /\ Dies /\ pipe[i].pc \in {"good", "bad"}
    /\ End(i)
    /\ UNCHANGED <<saved, cleared, made, row, ask, tree, armVars, taker, pass>>

PipeStep(i) == Pack(i) \/ Fails(i) \/ Create(i) \/ Created(i) \/ Poll(i)
               \/ Settle(i) \/ SettleLost(i)

\* Nobody beats for a row whose pipeline has gone; a live one beats in time.
Quieten(i) ==
    /\ Running(i) /\ ~Alive(i) /\ row[i].beat # "stale"
    /\ row' = [row EXCEPT ![i].beat = IF @ = "fresh" THEN "quiet" ELSE "stale"]
    /\ UNCHANGED <<saved, cleared, made, ask, pipe, tree, armVars, taker, pass>>

\* The API process dies, and every request and pipeline in it.
ApiDies ==
    /\ Dies
    /\ pipe' = [i \in Attempts |->
                IF Alive(i) THEN Over(i) ELSE pipe[i]]
    /\ ask' = [a \in Publishers |-> NoAsk]
    /\ taker' = [t \in Takers |-> NoTaker]
    /\ UNCHANGED <<saved, cleared, made, row, tree, armVars, pass>>

----------------------------------------------------------------------------
\* Azure.

Runs(i) == pipe[i].image

LandCreate(i) ==
    /\ i \in creating
    /\ creating' = creating \ {i}
    /\ template' = i
    /\ revision' = [revision EXCEPT ![i] = "coming"]
    /\ UNCHANGED <<saved, cleared, made, row, ask, pipe, tree, serving, deleting,
                   taker, pass>>

\* The operation fails, and the pipeline that waits for it is told.
DropCreate(i) ==
    /\ i \in creating
    /\ creating' = creating \ {i}
    /\ IF pipe[i].pc = "wait" THEN Goto(i, "bad") ELSE UNCHANGED pipe
    /\ UNCHANGED <<saved, cleared, made, row, ask, tree, template, serving,
                   revision, deleting, taker, pass>>

\* Single-revision mode: the newest revision takes the traffic once it is up,
\* and until then, or if it fails, the one before it keeps it.
RevisionUp(i) ==
    /\ template = i /\ revision[i] = "coming"
    /\ revision' = [revision EXCEPT ![i] = "healthy"]
    /\ serving' = i
    /\ UNCHANGED <<saved, cleared, made, row, ask, pipe, tree, template,
                   creating, deleting, taker, pass>>

RevisionFails(i) ==
    /\ template = i /\ revision[i] = "coming"
    /\ revision' = [revision EXCEPT ![i] = "failed"]
    /\ UNCHANGED <<saved, cleared, made, row, ask, pipe, tree, template, serving,
                   creating, deleting, taker, pass>>

LandDelete(t) ==
    /\ t \in deleting
    /\ deleting' = deleting \ {t}
    /\ template' = 0 /\ serving' = 0
    /\ revision' = [i \in Attempts |-> "none"]
    /\ UNCHANGED <<saved, cleared, made, row, ask, pipe, tree, creating, taker,
                   pass>>

DropDelete(t) ==
    /\ t \in deleting
    /\ deleting' = deleting \ {t}
    /\ taker' = IF taker[t].pc = "wait" THEN [taker EXCEPT ![t] = NoTaker] ELSE taker
    /\ UNCHANGED <<saved, cleared, made, row, ask, pipe, tree, template, serving,
                   revision, creating, pass>>

ArmStep == \/ \E i \in Attempts : \/ LandCreate(i) \/ DropCreate(i)
                                  \/ RevisionUp(i) \/ RevisionFails(i)
           \/ \E t \in Takers : LandDelete(t) \/ DropDelete(t)

----------------------------------------------------------------------------
\* Taking the app down (take_project_down and the administrator's unpublish).

TakeDown(t) ==
    /\ taker[t].pc = "idle" /\ ~InFlight
    /\ taker' = [taker EXCEPT ![t].pc = "pick"]
    /\ UNCHANGED <<saved, cleared, made, row, ask, pipe, tree, armVars, pass>>

\* The newest attempt, unless it is down already; then the audit row.
Pick(t) ==
    /\ taker[t].pc = "pick"
    /\ taker' = [taker EXCEPT ![t] =
        IF made = 0 \/ row[made].down THEN NoTaker
        ELSE [pc |-> "sweep", row |-> made]]
    /\ UNCHANGED <<saved, cleared, made, row, ask, pipe, tree, armVars, pass>>

\* delete_app: accepted, or a no-op where the container app is absent.
Sweep(t) ==
    /\ taker[t].pc = "sweep" /\ Free /\ t \notin deleting
    /\ IF template = 0
       THEN /\ taker' = [taker EXCEPT ![t].pc = "stamp"]
            /\ UNCHANGED deleting
       ELSE /\ taker' = [taker EXCEPT ![t].pc = "wait"]
            /\ deleting' = deleting \union {t}
    /\ UNCHANGED <<saved, cleared, made, row, ask, pipe, tree, template, serving,
                   revision, creating, pass>>

\* The delete is seen to end, or the ceiling passes and nothing is claimed.
SweptAnyway(t) ==
    /\ taker[t].pc = "wait"
    /\ taker' = [taker EXCEPT ![t].pc = "stamp"]
    /\ UNCHANGED <<saved, cleared, made, row, ask, pipe, tree, armVars, pass>>
Swept(t) ==
    /\ taker[t].pc = "wait"
    /\ taker' = [taker EXCEPT ![t] =
        IF t \in deleting THEN NoTaker ELSE [@ EXCEPT !.pc = "stamp"]]
    /\ UNCHANGED <<saved, cleared, made, row, ask, pipe, tree, armVars, pass>>

SweepRefused(t) ==
    /\ taker[t].pc = "sweep"
    /\ taker' = [taker EXCEPT ![t] = NoTaker]
    /\ UNCHANGED <<saved, cleared, made, row, ask, pipe, tree, armVars, pass>>

\* unpublish: no guard on the status.
Stamp(t) ==
    /\ taker[t].pc = "stamp"
    /\ row' = [row EXCEPT ![taker[t].row].down = TRUE]
    /\ taker' = [taker EXCEPT ![t] = NoTaker]
    /\ UNCHANGED <<saved, cleared, made, ask, pipe, tree, armVars, pass>>

TakerStep(t) == TakeDown(t) \/ Pick(t) \/ Sweep(t) \/ Swept(t)
                \/ SweepRefused(t) \/ Stamp(t)

----------------------------------------------------------------------------
\* The reconciler.

Scan(p) ==
    /\ pass[p].pc = "idle"
    /\ \E i \in Attempts :
        /\ Stalled(i)
        /\ pass' = [pass EXCEPT ![p] = [pc |-> "look", row |-> i, verdict |-> "none"]]
    /\ UNCHANGED <<saved, cleared, made, row, ask, pipe, tree, armVars, taker>>

\* _resolve: absent, another's image, or the image this row recorded.
Verdict(i) == IF template # 0 /\ row[i].image # 0 /\ Runs(template) = row[i].image
              THEN "succeeded" ELSE "failed"
LookForTheApp(p) ==
    /\ pass[p].pc = "look" /\ template # 0
    /\ pass' = [pass EXCEPT ![p].pc = "write", ![p].verdict = Verdict(pass[p].row)]
    /\ UNCHANGED <<saved, cleared, made, row, ask, pipe, tree, armVars, taker>>
Look(p) ==
    /\ pass[p].pc = "look"
    /\ pass' = [pass EXCEPT ![p].pc = "write", ![p].verdict = Verdict(pass[p].row)]
    /\ UNCHANGED <<saved, cleared, made, row, ask, pipe, tree, armVars, taker>>

\* Azure could not say: the row is left as it is until the next pass.
Deferred(p) ==
    /\ pass[p].pc = "look"
    /\ pass' = [pass EXCEPT ![p] = NoPass]
    /\ UNCHANGED <<saved, cleared, made, row, ask, pipe, tree, armVars, taker>>

Write(p) ==
    /\ pass[p].pc = "write"
    /\ Finish(pass[p].row, pass[p].verdict)
    /\ pass' = [pass EXCEPT ![p] = NoPass]
    /\ UNCHANGED <<saved, cleared, made, ask, pipe, tree, armVars, taker>>

PassStep(p) == Scan(p) \/ Look(p) \/ Deferred(p) \/ Write(p)

----------------------------------------------------------------------------
Next ==
    \/ \E v \in Versions : Save(v)
    \/ \E a \in Publishers, kind \in {"saved", "copy"}, v \in Versions :
        Publish(a, kind, v)
    \/ \E a \in Publishers : ClaimAgain(a)
    \/ Restart
    \/ \E i \in Attempts : PipeStep(i)
    \/ \E i \in Attempts : Quieten(i)
    \/ ApiDies
    \/ ArmStep
    \/ \E t \in Takers : TakerStep(t)
    \/ \E p \in Passes : PassStep(p)

Spec == Init /\ [][Next]_vars

\* A pipeline runs on and Azure ends an operation; a pass comes round every
\* five minutes, and Azure answers one of them in the end.
Fairness ==
    /\ \A i \in Attempts : /\ WF_vars(PipeStep(i))
                           /\ WF_vars(Quieten(i))
                           /\ WF_vars(LandCreate(i) \/ DropCreate(i))
    /\ \A p \in Passes : /\ WF_vars(Scan(p))
                         /\ SF_vars(Look(p))
                         /\ WF_vars(Write(p))
FairSpec == Spec /\ Fairness

----------------------------------------------------------------------------
\* Properties.

\* Only a commit that was decided about is in production, though the snapshot
\* moves between the decision and the extraction and a restart decides nothing.
OnlyDecidedServes ==
    \A i \in {template, serving} \ {0} : tree[Runs(i)] \in cleared

\* Two pipelines never write one app: an attempt is taken over only when its
\* pipeline has gone.
OneWriter == \A i, j \in Attempts : Alive(i) /\ Alive(j) => i = j

\* The table keeps its promise whoever settles a row, and when: the pipeline,
\* a pass that judged it minutes ago, or the next claim.
Slot == INSTANCE DeploySlot WITH status <- [i \in Attempts |-> row[i].status]
KeepsTheSlot == Slot!Spec
FreesTheSlot == Slot!FairSpec

\* A stamp on the newest settled attempt says that the container has gone:
\* with it the takedown answers without asking Azure.
StampedMeansGone ==
    made # 0 /\ row[made].down /\ ~Running(made) => template = 0

\* restart_project recycles "the revision this app is ALREADY RUNNING".  This does not
\* hold: what serves may have changed by the time the restart is claimed.
RestartRunsWhatServes ==
    [][\A i \in Attempts :
        /\ pipe[i].pc = "none" /\ pipe'[i].kind = "restart"
        /\ serving # 0
        => pipe'[i].image = Runs(serving)]_vars
=============================================================================
