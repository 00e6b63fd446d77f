------------------------------ MODULE AppStatus ------------------------------
(***************************************************************************)
(* One app row through its review: the owner's publish requests            *)
(* (api/v1/deploy/router.py, approvals/submit.py), the owner's withdrawal  *)
(* (api/v1/apps/router.py) and the administrators' decisions               *)
(* (api/v1/admin/router.py), over the saved bundle, the immutable copies   *)
(* under submissions/ and the attempts of the deployments table.           *)
(*                                                                         *)
(* A request reads the row once and works from that reading; its guarded   *)
(* UPDATE and what it commits with it are one step.  Commits are numbered  *)
(* in the order they are saved, submissions in the order their copies      *)
(* land, attempts in the order they are claimed.                           *)
(***************************************************************************)
EXTENDS Naturals, Sequences, FiniteSets

CONSTANTS
    Tabs,        \* the owner's requests under way at once
    Admins,      \* administrators at work at once
    MaxCommits,  \* saves in a behaviour
    MaxSubs,     \* copies put in a behaviour
    MaxAttempts, \* deployments claimed in a behaviour
    CopyTries    \* MAX_APPROVED_COPY_ATTEMPTS

ASSUME AppStatusAssumption ==
    /\ {MaxCommits, MaxSubs, MaxAttempts} \subseteq Nat
    /\ CopyTries \in Nat \ {0}
    /\ IsFiniteSet(Tabs)

VARIABLES
    app,      \* the app_registry row
    head,     \* the commit of the saved bundle, 0 before the first save
    copies,   \* the commit of each submission's copy
    attempts, \* the deployments rows
    tab,      \* the owner's requests
    admin     \* the administrators' requests

vars == <<app, head, copies, attempts, tab, admin>>

----------------------------------------------------------------------------
\* Types and the initial state.

Statuses == {"draft", "pending", "approved", "rejected", "disabled"}
Commits == 1 .. MaxCommits
Subs == 0 .. MaxSubs
AppRecs ==
    [status : Statuses, previous : Statuses \union {"none"},
     source : Subs, sourceCommit : Commits \union {0}, declared : Commits \union {0},
     approved : Subs, approvedCommit : Commits \union {0}, since : 0 .. MaxAttempts + 1,
     standing : BOOLEAN, barred : 0 .. MaxAttempts]

\* How an attempt ended: live, at fault in itself, or failed in a way a retry can
\* fix; "named" once the pipeline has written head_sha.
Ends == {"running", "live", "fault", "retry"}
Attempts == [ships : Commits, named : BOOLEAN, copy : BOOLEAN, end : Ends, down : BOOLEAN]

TabRecs ==
    [pc : {"idle", "copy", "head", "decide", "claim", "claimcopy", "record",
           "submit", "route", "withdraw"},
     asks : Commits \union {0}, since : 0 .. MaxAttempts + 1, standing : BOOLEAN, sub : Subs]
AdminRecs ==
    [pc : {"idle", "reviewing", "approve", "reject", "disable", "enable"},
     status : Statuses, reviewed : Subs, commit : Commits \union {0}]

TypeOK ==
    /\ app \in AppRecs
    /\ head \in Commits \union {0}
    /\ copies \in Seq(Commits) /\ Len(copies) <= MaxSubs
    /\ attempts \in Seq(Attempts) /\ Len(attempts) <= MaxAttempts
    /\ tab \in [Tabs -> TabRecs]
    /\ admin \in [Admins -> AdminRecs]

NewApp ==
    [status |-> "draft", previous |-> "none",
     source |-> 0, sourceCommit |-> 0, declared |-> 0,
     approved |-> 0, approvedCommit |-> 0, since |-> 0, standing |-> FALSE, barred |-> 0]
NoTab == [pc |-> "idle", asks |-> 0, since |-> 0, standing |-> FALSE, sub |-> 0]
NoAdmin == [pc |-> "idle", status |-> "draft", reviewed |-> 0, commit |-> 0]

Init ==
    /\ app = NewApp
    /\ head = 0
    /\ copies = <<>> /\ attempts = <<>>
    /\ tab = [t \in Tabs |-> NoTab]
    /\ admin = [a \in Admins |-> NoAdmin]

----------------------------------------------------------------------------
\* The legal sources of each target (STATUS_TRANSITIONS).

Sources ==
    [draft |-> {"pending"},
     pending |-> {"draft", "rejected", "approved"},
     approved |-> {"pending", "disabled"},
     rejected |-> {"pending"},
     disabled |-> {"approved", "draft", "rejected"}]

\* Steps of one request that leave the rest of the state alone.
TabTo(t, rec) ==
    /\ tab' = [tab EXCEPT ![t] = rec]
    /\ UNCHANGED <<head, admin>>
TabOnly(t, rec) == TabTo(t, rec) /\ UNCHANGED <<app, copies, attempts>>
TabPc(t, pc) == TabOnly(t, [tab[t] EXCEPT !.pc = pc])
AdminTo(a, rec) ==
    /\ admin' = [admin EXCEPT ![a] = rec]
    /\ UNCHANGED <<head, copies, tab>>

----------------------------------------------------------------------------
\* Attempts, and whether the approved copy is on offer.

Busy == \E i \in DOMAIN attempts : attempts[i].end = "running"
Claimed(commit, copy) ==
    Append(attempts, [ships |-> commit, named |-> FALSE, copy |-> copy,
                      end |-> "running", down |-> FALSE])

\* Attempts of the copy that failed since the approval, or since it last went
\* live: the ones that named its commit and the ones that named none.
LastLive(commit) ==
    LET lives == {i \in DOMAIN attempts :
                    attempts[i].end = "live" /\ attempts[i].ships = commit}
    IN IF lives = {} THEN 0 ELSE CHOOSE i \in lives : \A j \in lives : j <= i
Counted(commit, since) ==
    {i \in DOMAIN attempts :
        /\ i >= since /\ i >= LastLive(commit)
        /\ attempts[i].end \in {"fault", "retry"}
        /\ attempts[i].named => attempts[i].ships = commit}
FailedInItself(commit, since) ==
    \E i \in Counted(commit, since) : attempts[i].named /\ attempts[i].end = "fault"
WentLive(since) ==
    \E i \in DOMAIN attempts : i >= since /\ attempts[i].end = "live"

\* approved_retry_commit, on the newest attempt and the approval as it was read.
RetryOffered(commit, since, most) ==
    \/ Len(attempts) < since
    \/ LET last == attempts[Len(attempts)]
           itself == last.named /\ last.ships = commit
       IN IF last.down THEN itself /\ last.end # "fault"
          ELSE /\ last.end = "retry"
               /\ Cardinality(Counted(commit, since)) < most
               /\ \/ itself
                  \/ ~last.named /\ ~FailedInItself(commit, since) /\ ~WentLive(since)
OfferedForEver(commit, since) == RetryOffered(commit, since, MaxAttempts + 1)
Offered(commit, since) == RetryOffered(commit, since, CopyTries)

----------------------------------------------------------------------------
\* The owner's publish request (deploy_project), for the saved commit or the
\* approved one.

\* A disabled or pending app is refused at once.
AskSwitchedOff(t) ==
    /\ tab[t].pc = "idle"
    /\ app.status # "pending"
    /\ \E commit \in {head, app.approvedCommit} \ {0} :
         LET copy == app.status = "approved" /\ commit = app.approvedCommit IN
         TabOnly(t, [NoTab EXCEPT !.asks = commit, !.standing = app.standing,
                      !.since = IF copy THEN app.since ELSE 0,
                      !.pc = IF copy THEN "copy" ELSE "head"])
Ask(t) ==
    /\ tab[t].pc = "idle"
    /\ app.status \notin {"disabled", "pending"}
    /\ \E commit \in {head, app.approvedCommit} \ {0} :
         LET copy == app.status = "approved" /\ commit = app.approvedCommit IN
         TabOnly(t, [NoTab EXCEPT !.asks = commit, !.standing = app.standing,
                      !.since = IF copy THEN app.since ELSE 0,
                      !.pc = IF copy THEN "copy" ELSE "head"])
\* The approved copy, while it is on offer; an attempt under way refuses.
AskCopy(t) ==
    /\ tab[t].pc = "copy"
    /\ TabOnly(t, IF attempts # <<>> /\ attempts[Len(attempts)].end = "running"
                  THEN NoTab
                  ELSE [tab[t] EXCEPT !.since = 0,
                          !.pc = IF Offered(tab[t].asks, tab[t].since) THEN "claimcopy"
                                 ELSE "head"])

\* The saved version must be the one the request names.
AskHead(t) ==
    /\ tab[t].pc = "head"
    /\ IF tab[t].asks = head THEN TabPc(t, "decide") ELSE TabOnly(t, NoTab)

\* The gate's decision on the stored review, for any review; a rejection that
\* stood when the row was read never publishes.
Decide(t) ==
    /\ tab[t].pc = "decide"
    /\ \/ ~tab[t].standing /\ TabPc(t, "claim")
       \/ TabOnly(t, [tab[t] EXCEPT !.pc = "submit", !.standing = FALSE])
       \/ TabOnly(t, NoTab)

\* submit_app_for_review: the saved bundle, whatever it is by now, is put as an
\* immutable copy; a store that refuses ends the request.
Submit(t) ==
    /\ tab[t].pc = "submit"
    /\ \/ /\ Len(copies) < MaxSubs
          /\ copies' = Append(copies, head)
          /\ TabTo(t, [tab[t] EXCEPT !.pc = "route", !.sub = Len(copies) + 1])
          /\ UNCHANGED <<app, attempts>>
       \/ TabOnly(t, NoTab)

\* The guarded UPDATE to pending, which unwinds when the copy is of a version the
\* gate did not examine.
RouteUnexamined(t) ==
    /\ tab[t].pc = "route"
    /\ IF app.status \in Sources["pending"]
       THEN app' = [app EXCEPT !.status = "pending", !.source = tab[t].sub,
                               !.sourceCommit = tab[t].asks,
                               !.declared = tab[t].asks]
       ELSE UNCHANGED app
    /\ TabTo(t, NoTab)
    /\ UNCHANGED <<copies, attempts>>
Route(t) ==
    /\ tab[t].pc = "route"
    /\ IF app.status \in Sources["pending"] /\ copies[tab[t].sub] = tab[t].asks
       THEN app' = [app EXCEPT !.status = "pending", !.source = tab[t].sub,
                               !.sourceCommit = tab[t].asks,
                               !.declared = tab[t].asks]
       ELSE UNCHANGED app
    /\ TabTo(t, NoTab)
    /\ UNCHANGED <<copies, attempts>>

\* The claim of the one in-flight slot commits on its own; the decision is stored
\* on the row afterwards, by no guarded update.
Claim(t) ==
    /\ tab[t].pc = "claim"
    /\ IF Busy \/ Len(attempts) = MaxAttempts THEN TabOnly(t, NoTab)
       ELSE /\ attempts' = Claimed(tab[t].asks, FALSE)
            /\ TabTo(t, [tab[t] EXCEPT !.pc = "record"])
            /\ UNCHANGED <<app, copies>>

Record(t) ==
    /\ tab[t].pc = "record"
    /\ app' = [app EXCEPT !.declared = tab[t].asks]
    /\ TabTo(t, NoTab)
    /\ UNCHANGED <<copies, attempts>>

ClaimCopy(t) ==
    /\ tab[t].pc = "claimcopy"
    /\ IF Busy \/ Len(attempts) = MaxAttempts THEN TabOnly(t, NoTab)
       ELSE /\ attempts' = Claimed(tab[t].asks, TRUE)
            /\ TabTo(t, NoTab)
            /\ UNCHANGED <<app, copies>>

\* The owner pulls a pending submission back out of the queue.
AskWithdraw(t) ==
    /\ tab[t].pc = "idle"
    /\ app.status = "pending"
    /\ TabOnly(t, [NoTab EXCEPT !.pc = "withdraw"])

Withdraw(t) ==
    /\ tab[t].pc = "withdraw"
    /\ IF app.status \in Sources["draft"]
       THEN app' = [app EXCEPT !.status = "draft", !.source = 0, !.sourceCommit = 0,
                               !.declared = 0]
       ELSE UNCHANGED app
    /\ TabTo(t, NoTab)
    /\ UNCHANGED <<copies, attempts>>

----------------------------------------------------------------------------
\* The administrators.

\* A submission is opened and read; minutes may pass before the click.
Review(a) ==
    /\ admin[a].pc = "idle"
    /\ app.status = "pending"
    /\ AdminTo(a, [NoAdmin EXCEPT !.pc = "reviewing", !.reviewed = app.source])
    /\ UNCHANGED <<app, attempts>>

\* approve and reject read the row and refuse what is no longer pending.
Click(a) ==
    /\ admin[a].pc = "reviewing"
    /\ IF app.status = "pending"
       THEN \E pc \in {"approve", "reject"} :
              AdminTo(a, [admin[a] EXCEPT !.pc = pc,
                         !.reviewed = IF pc = "approve" THEN @ ELSE 0,
                         !.commit = IF pc = "approve" THEN app.sourceCommit ELSE 0])
       ELSE AdminTo(a, NoAdmin)
    /\ UNCHANGED <<app, attempts>>

\* The copy that was read is looked for, then pinned if it is still the one in
\* the queue; the claim commits with it.
Approved(a) ==
    [app EXCEPT !.status = "approved", !.approved = admin[a].reviewed,
                !.approvedCommit = admin[a].commit, !.standing = FALSE,
                !.since = Len(attempts) + 1]
Starts(commit) ==
    IF Busy \/ Len(attempts) = MaxAttempts THEN {attempts}
    ELSE {attempts, Claimed(commit, TRUE)}
ApproveWhateverIsThere(a) ==
    /\ admin[a].pc = "approve"
    /\ IF app.status = "pending"
       THEN /\ app' = Approved(a)
            /\ attempts' \in Starts(admin[a].commit)
       ELSE UNCHANGED <<app, attempts>>
    /\ AdminTo(a, NoAdmin)
Approve(a) ==
    /\ admin[a].pc = "approve"
    /\ IF app.status = "pending" /\ app.source = admin[a].reviewed
       THEN /\ app' = Approved(a)
            /\ attempts' \in Starts(admin[a].commit)
       ELSE UNCHANGED <<app, attempts>>
    /\ AdminTo(a, NoAdmin)

\* reject names no submission: what is pending is rejected.
Reject(a) ==
    /\ admin[a].pc = "reject"
    /\ app' = IF app.status \in Sources["rejected"]
              THEN [app EXCEPT !.status = "rejected", !.standing = TRUE,
                               !.barred = Len(attempts)] ELSE app
    /\ AdminTo(a, NoAdmin)
    /\ UNCHANGED attempts

\* disable and enable read the row, move it in one UPDATE and commit once the
\* database's door has been shut or opened; a door that fails rolls it back.
AskSwitch(a) ==
    /\ admin[a].pc = "idle"
    /\ \E pc \in {"disable", "enable"} :
         AdminTo(a, [NoAdmin EXCEPT !.status = app.status, !.pc = pc])
    /\ UNCHANGED <<app, attempts>>

Disable(a) ==
    /\ admin[a].pc = "disable"
    /\ app' = IF app.status \in Sources["disabled"]
              THEN [app EXCEPT !.status = "disabled", !.previous = app.status,
                               !.barred = Len(attempts)] ELSE app
    /\ AdminTo(a, NoAdmin)
    /\ UNCHANGED attempts

\* The status it had, and the approved one only with its artifact's pin.
Enable(a) ==
    /\ admin[a].pc = "enable"
    /\ app' = IF /\ admin[a].status = "disabled" /\ app.status = "disabled"
                 /\ app.previous = "approved" => app.approved # 0
              THEN [app EXCEPT !.status = app.previous, !.previous = "none"] ELSE app
    /\ AdminTo(a, NoAdmin)
    /\ UNCHANGED attempts

\* A request that fails before its UPDATE commits: a store or a database that
\* does not answer.
GiveUp(a) ==
    /\ admin[a].pc \notin {"idle", "reviewing"}
    /\ AdminTo(a, NoAdmin)
    /\ UNCHANGED <<app, attempts>>

----------------------------------------------------------------------------
\* What goes on meanwhile: saves, and attempts that name their commit and end.

Save ==
    /\ head < MaxCommits
    /\ head' = head + 1
    /\ UNCHANGED <<app, copies, attempts, tab, admin>>

AttemptTo(i, rec) ==
    /\ attempts' = [attempts EXCEPT ![i] = rec]
    /\ UNCHANGED <<app, head, copies, tab, admin>>
Name(i) ==
    /\ attempts[i].end = "running" /\ ~attempts[i].named
    /\ AttemptTo(i, [attempts[i] EXCEPT !.named = TRUE])
Settle(i) ==
    /\ attempts[i].end = "running"
    /\ \E end \in {"live", "fault", "retry"} :
         /\ end = "live" => attempts[i].named
         /\ AttemptTo(i, [attempts[i] EXCEPT !.end = end])

\* A takedown stamps the newest attempt once something is live.
TakeDown ==
    /\ attempts # <<>>
    /\ LET last == Len(attempts) IN
         /\ attempts[last].end # "running" /\ ~attempts[last].down
         /\ \E i \in DOMAIN attempts : attempts[i].end = "live"
         /\ AttemptTo(last, [attempts[last] EXCEPT !.down = TRUE])

TabStep(t) ==
    \/ Ask(t) \/ AskCopy(t) \/ AskHead(t) \/ Decide(t) \/ Submit(t) \/ Route(t)
    \/ Claim(t) \/ Record(t) \/ ClaimCopy(t) \/ AskWithdraw(t) \/ Withdraw(t)
AdminStep(a) ==
    \/ Review(a) \/ Click(a) \/ Approve(a) \/ Reject(a)
    \/ AskSwitch(a) \/ Disable(a) \/ Enable(a) \/ GiveUp(a)
Next ==
    \/ \E t \in Tabs : TabStep(t)
    \/ \E a \in Admins : AdminStep(a)
    \/ Save \/ TakeDown
    \/ \E i \in DOMAIN attempts : Name(i) \/ Settle(i)

Spec == Init /\ [][Next]_vars

----------------------------------------------------------------------------
\* Properties.

\* What is pinned as approved is what was read: the commit on record is the one
\* of the copy the approval names, however often the owner withdrew and sent
\* again while the administrator was reading.
ApprovedIsWhatWasRead ==
    app.approved # 0 =>
        /\ app.approved \in DOMAIN copies
        /\ copies[app.approved] = app.approvedCommit

\* The queue holds a copy, of the commit it says.
QueueHoldsItsCopy ==
    app.status = "pending" =>
        /\ app.source \in DOMAIN copies
        /\ copies[app.source] = app.sourceCommit

\* An approved app is one an administrator approved and has not rejected since,
\* through any switching off and on.
ApprovedMeansApproved ==
    app.status = "approved" => app.approved # 0 /\ ~app.standing

\* An approval stands for what was read, and until it is taken back.
ApprovalStands == ApprovedIsWhatWasRead /\ ApprovedMeansApproved

\* An app that was switched off comes back only by an administrator's enable,
\* and as what it was.
OnlyEnableSwitchesOn ==
    [][app.status = "disabled" /\ app'.status # "disabled" =>
         /\ app'.status = app.previous
         /\ \E a \in Admins : admin[a].pc = "enable" /\ admin'[a].pc = "idle"]_vars

\* A decision is left standing by the owner: an approval's pin and a standing
\* rejection are changed by an administrator's step and never by the owner's.
OwnerDecidesNothing ==
    [][admin' = admin => app'.standing = app.standing /\ app'.approved = app.approved]_vars

\* A switched-off app, or one whose rejection stands, is published only by the
\* requests that had read it before: one attempt each at most.
BarredStaysBarred ==
    app.status = "disabled" \/ app.standing =>
        Len(attempts) <= app.barred + Cardinality(Tabs)

\* Since the approval, the attempts a takedown has stamped.
Downs == {i \in DOMAIN attempts : i >= app.since /\ attempts[i].down}

\* The approved copy is not tried for ever: since its approval, or since it last
\* went live, it failed at most the allowed number of times, and once more for each
\* other request that had already been offered it; a takedown, after which it is
\* offered whatever the count, lets each request try it once more.
CopyIsNotTriedForEver ==
    app.status = "approved" =>
        Cardinality({i \in Counted(app.approvedCommit, app.since) : attempts[i].copy})
            < CopyTries + Cardinality(Tabs) * (1 + Cardinality(Downs))

\* What the queue declares is about the version in the queue: this does not hold,
\* since a publish stores its declaration after its claim, by an unguarded write.
QueueDeclaresItsOwn == app.status = "pending" => app.declared = app.sourceCommit
=============================================================================
