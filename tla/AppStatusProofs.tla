--------------------------- MODULE AppStatusProofs ---------------------------
(***************************************************************************)
(* What a decision on an app rests on, for any number of requests,         *)
(* administrators, saves, copies and attempts: the invariant IInv, which   *)
(* every step keeps, and what follows from it.  A second invariant,        *)
(* Bounds, counts the attempts: how often a barred app and a failing copy  *)
(* are still published.                                                    *)
(***************************************************************************)
EXTENDS AppStatus, Integers, FiniteSetTheorems, WellFoundedInduction, TLAPS

----------------------------------------------------------------------------
\* The inductive invariant.

\* A request under way asks for a saved commit; once it was found in place, and
\* ever after, something is saved.
AsksForASave ==
    \A t \in Tabs :
        /\ tab[t].pc \notin {"idle", "withdraw"} => tab[t].asks # 0
        /\ tab[t].pc \in {"decide", "claim", "record", "submit", "route"} => head # 0

\* Submissions are numbered as their copies land.
SubsAreCopies ==
    /\ app.source <= Len(copies)
    /\ \A t \in Tabs : tab[t].pc = "route" => tab[t].sub \in 1 .. Len(copies)
    /\ \A a \in Admins :
         /\ admin[a].reviewed <= Len(copies)
         /\ admin[a].pc \in {"reviewing", "approve"} => admin[a].reviewed # 0

\* A copy on its way to the queue has not been in it: nobody has read it, and no
\* other request carries it.
RoutedOnce ==
    \A t \in Tabs : tab[t].pc = "route" =>
        /\ tab[t].sub # app.source
        /\ \A a \in Admins : admin[a].reviewed # tab[t].sub
        /\ \A u \in Tabs : u # t /\ tab[u].pc = "route" => tab[u].sub # tab[t].sub

\* The commit an approval carries is the queue's, while the queue still holds
\* the submission that was read.
ReadAsOne ==
    \A a \in Admins :
        admin[a].pc = "approve" /\ admin[a].reviewed = app.source =>
            admin[a].commit = app.sourceCommit

\* What a switched-off app was.
OffFrom ==
    app.status = "disabled" =>
        /\ app.previous \in {"draft", "approved", "rejected"}
        /\ app.previous = "approved" => ~app.standing

IInv ==
    /\ TypeOK
    /\ AsksForASave /\ SubsAreCopies /\ RoutedOnce /\ ReadAsOne /\ OffFrom
    /\ QueueHoldsItsCopy /\ ApprovedIsWhatWasRead /\ ApprovedMeansApproved

----------------------------------------------------------------------------
\* Types.

LEMMA InitIInv == Init => IInv
<1> SUFFICES ASSUME Init PROVE IInv
  OBVIOUS
<1>1. NoTab \in TabRecs /\ NoAdmin \in AdminRecs /\ NewApp \in AppRecs
  BY AppStatusAssumption
     DEF NoTab, NoAdmin, NewApp, TabRecs, AdminRecs, AppRecs, Statuses, Subs, Commits
<1>2. TypeOK
  BY <1>1, AppStatusAssumption DEF Init, TypeOK, Commits
<1> QED
  BY <1>2 DEF Init, IInv, NewApp, NoTab, NoAdmin, AsksForASave, SubsAreCopies, RoutedOnce,
     ReadAsOne, OffFrom, QueueHoldsItsCopy, ApprovedIsWhatWasRead, ApprovedMeansApproved

LEMMA NoTabType == NoTab \in TabRecs /\ NoTab.pc = "idle"
  BY AppStatusAssumption DEF NoTab, TabRecs, Subs

\* The attempts a claim yields.
LEMMA ClaimedTypes ==
    ASSUME TypeOK, NEW commit \in Commits, NEW copy \in BOOLEAN, Len(attempts) # MaxAttempts
    PROVE  /\ Claimed(commit, copy) \in Seq(Attempts)
           /\ Len(Claimed(commit, copy)) <= MaxAttempts
<1> DEFINE new == [ships |-> commit, named |-> FALSE, copy |-> copy,
                   end |-> "running", down |-> FALSE]
<1>1. new \in Attempts
  BY DEF Attempts, Ends
<1>2. attempts \in Seq(Attempts) /\ Len(attempts) <= MaxAttempts /\ Len(attempts) \in Nat
  BY DEF TypeOK
<1>3. Claimed(commit, copy) = Append(attempts, new)
  BY DEF Claimed
<1> HIDE DEF new
<1> QED
  BY <1>1, <1>2, <1>3, AppStatusAssumption

\* The attempts after one of them was written.
LEMMA WrittenTypes ==
    ASSUME TypeOK, NEW i \in DOMAIN attempts, NEW rec \in Attempts
    PROVE  /\ [attempts EXCEPT ![i] = rec] \in Seq(Attempts)
           /\ Len([attempts EXCEPT ![i] = rec]) <= MaxAttempts
<1>1. attempts \in Seq(Attempts) /\ Len(attempts) <= MaxAttempts
  BY DEF TypeOK
<1> QED
  BY <1>1

----------------------------------------------------------------------------
\* The requests of the owner.

\* A step that moves one request and nothing else, and routes nothing.
LEMMA TabOnlyKeeps ==
    ASSUME IInv, NEW t \in Tabs, NEW rec \in TabRecs, TabOnly(t, rec),
           rec.pc # "route",
           rec.pc \notin {"idle", "withdraw"} => rec.asks # 0,
           rec.pc \in {"decide", "claim", "record", "submit", "route"} => head # 0
    PROVE  IInv'
<1> USE DEF TabOnly, TabTo, IInv
<1>1. TypeOK'
  BY DEF TypeOK
<1>2. tab' = [tab EXCEPT ![t] = rec] /\ tab \in [Tabs -> TabRecs]
  BY DEF TypeOK
<1>3. \A u \in Tabs : tab'[u].pc = "route" => tab[u].pc = "route" /\ tab'[u] = tab[u]
  BY <1>2
<1>4. AsksForASave'
  BY <1>2 DEF AsksForASave
<1>5. SubsAreCopies' /\ RoutedOnce'
  BY <1>3 DEF SubsAreCopies, RoutedOnce
<1>6. /\ ReadAsOne' /\ OffFrom'
      /\ QueueHoldsItsCopy' /\ ApprovedIsWhatWasRead' /\ ApprovedMeansApproved'
  BY DEF ReadAsOne, OffFrom, QueueHoldsItsCopy, ApprovedIsWhatWasRead, ApprovedMeansApproved
<1> QED
  BY <1>1, <1>4, <1>5, <1>6

LEMMA AskStep == ASSUME IInv, NEW t \in Tabs, Ask(t) PROVE IInv'
<1>1. app \in AppRecs /\ head \in Commits \union {0}
  BY DEF IInv, TypeOK
<1>2. PICK commit \in {head, app.approvedCommit} \ {0} :
        LET copy == app.status = "approved" /\ commit = app.approvedCommit IN
        TabOnly(t, [NoTab EXCEPT !.asks = commit, !.standing = app.standing,
                      !.since = IF copy THEN app.since ELSE 0,
                      !.pc = IF copy THEN "copy" ELSE "head"])
  BY DEF Ask
<1> DEFINE copy == app.status = "approved" /\ commit = app.approvedCommit
           since == IF copy THEN app.since ELSE 0
           pc == IF copy THEN "copy" ELSE "head"
           rec == [NoTab EXCEPT !.asks = commit, !.standing = app.standing,
                      !.since = since, !.pc = pc]
<1>3. commit \in Commits /\ commit # 0
  BY <1>1 DEF AppRecs, Commits
<1>4. rec \in TabRecs /\ rec.pc \in {"copy", "head"} /\ rec.asks # 0
  <2>1. app.standing \in BOOLEAN /\ since \in 0 .. MaxAttempts + 1 /\ pc \in {"copy", "head"}
    BY <1>1, AppStatusAssumption DEF AppRecs
  <2> HIDE DEF since, pc
  <2>2. rec.pc = pc /\ rec.asks = commit
    BY DEF NoTab
  <2> QED
    BY <1>3, <2>1, <2>2, NoTabType DEF TabRecs
<1>5. TabOnly(t, rec)
  BY <1>2
<1> HIDE DEF rec
<1> QED
  BY <1>4, <1>5, TabOnlyKeeps

LEMMA AskCopyStep == ASSUME IInv, NEW t \in Tabs, AskCopy(t) PROVE IInv'
<1>1. tab[t] \in TabRecs /\ tab[t].pc = "copy" /\ tab[t].asks # 0
  BY DEF IInv, TypeOK, AskCopy, AsksForASave
<1>2. /\ [tab[t] EXCEPT !.since = 0, !.pc = "claimcopy"] \in TabRecs
      /\ [tab[t] EXCEPT !.since = 0, !.pc = "head"] \in TabRecs
  <2>1. 0 \in 0 .. MaxAttempts + 1
    BY AppStatusAssumption
  <2> QED
    BY <1>1, <2>1 DEF TabRecs
<1>3. \/ TabOnly(t, NoTab)
      \/ TabOnly(t, [tab[t] EXCEPT !.since = 0, !.pc = "claimcopy"])
      \/ TabOnly(t, [tab[t] EXCEPT !.since = 0, !.pc = "head"])
  BY DEF AskCopy
<1>4. \A pc \in {"claimcopy", "head"} :
        LET rec == [tab[t] EXCEPT !.since = 0, !.pc = pc]
        IN rec.pc = pc /\ rec.asks = tab[t].asks
  BY <1>1 DEF TabRecs
<1> QED
  BY <1>1, <1>2, <1>3, <1>4, NoTabType, TabOnlyKeeps

LEMMA AskHeadStep == ASSUME IInv, NEW t \in Tabs, AskHead(t) PROVE IInv'
<1>1. /\ tab[t] \in TabRecs /\ tab[t].asks # 0
      /\ \/ TabOnly(t, NoTab)
         \/ head = tab[t].asks /\ TabOnly(t, [tab[t] EXCEPT !.pc = "decide"])
  BY DEF IInv, TypeOK, AskHead, AsksForASave, TabPc
<1>2. LET rec == [tab[t] EXCEPT !.pc = "decide"]
      IN rec \in TabRecs /\ rec.pc = "decide" /\ rec.asks = tab[t].asks
  BY <1>1 DEF TabRecs
<1> QED
  BY <1>1, <1>2, NoTabType, TabOnlyKeeps

LEMMA DecideStep == ASSUME IInv, NEW t \in Tabs, Decide(t) PROVE IInv'
<1>1. /\ tab[t] \in TabRecs /\ tab[t].asks # 0 /\ head # 0
      /\ \/ TabOnly(t, NoTab)
         \/ TabOnly(t, [tab[t] EXCEPT !.pc = "claim"])
         \/ TabOnly(t, [tab[t] EXCEPT !.pc = "submit", !.standing = FALSE])
  BY DEF IInv, TypeOK, Decide, AsksForASave, TabPc
<1>2. LET rec == [tab[t] EXCEPT !.pc = "claim"]
      IN rec \in TabRecs /\ rec.pc = "claim" /\ rec.asks = tab[t].asks
  BY <1>1 DEF TabRecs
<1>3. LET rec == [tab[t] EXCEPT !.pc = "submit", !.standing = FALSE]
      IN rec \in TabRecs /\ rec.pc = "submit" /\ rec.asks = tab[t].asks
  BY <1>1 DEF TabRecs
<1> QED
  BY <1>1, <1>2, <1>3, NoTabType, TabOnlyKeeps

LEMMA AskWithdrawStep == ASSUME IInv, NEW t \in Tabs, AskWithdraw(t) PROVE IInv'
<1>1. LET rec == [NoTab EXCEPT !.pc = "withdraw"]
      IN rec \in TabRecs /\ rec.pc = "withdraw"
  BY NoTabType DEF TabRecs
<1> QED
  BY <1>1, TabOnlyKeeps DEF AskWithdraw

\* A copy that lands has a number nobody holds.
LEMMA SubmitStep == ASSUME IInv, NEW t \in Tabs, Submit(t) PROVE IInv'
<1>1. CASE TabOnly(t, NoTab)
  BY <1>1, NoTabType, TabOnlyKeeps
<1>2. CASE /\ Len(copies) < MaxSubs
           /\ copies' = Append(copies, head)
           /\ TabTo(t, [tab[t] EXCEPT !.pc = "route", !.sub = Len(copies) + 1])
           /\ UNCHANGED <<app, attempts>>
  <2> DEFINE n == Len(copies) + 1
             rec == [tab[t] EXCEPT !.pc = "route", !.sub = n]
  <2>1. /\ tab \in [Tabs -> TabRecs] /\ tab[t] \in TabRecs
        /\ tab[t].asks # 0 /\ head \in Commits /\ head # 0
        /\ copies \in Seq(Commits) /\ Len(copies) \in Nat /\ n \in Subs
    BY <1>2, AppStatusAssumption DEF IInv, TypeOK, Submit, AsksForASave, Subs
  <2>2. /\ copies' \in Seq(Commits) /\ Len(copies') = n
        /\ \A i \in 1 .. Len(copies) : copies'[i] = copies[i]
    BY <1>2, <2>1
  <2>3. rec \in TabRecs /\ rec.pc = "route" /\ rec.sub = n /\ rec.asks = tab[t].asks
    BY <2>1 DEF TabRecs
  <2>4. /\ tab' = [tab EXCEPT ![t] = rec]
        /\ UNCHANGED <<app, attempts, head, admin>>
    BY <1>2 DEF TabTo
  <2> HIDE DEF rec
  <2>5. /\ tab'[t] = rec
        /\ \A u \in Tabs : u # t => tab'[u] = tab[u]
    BY <2>1, <2>4
  <2>6. TypeOK'
    BY <1>2, <2>1, <2>2, <2>3, <2>4, AppStatusAssumption DEF IInv, TypeOK
  <2>7. AsksForASave'
    BY <2>1, <2>3, <2>4, <2>5 DEF IInv, AsksForASave
  <2>8. /\ app.source \in Nat /\ \A a \in Admins : admin[a].reviewed \in Nat
        /\ \A u \in Tabs : tab[u].pc = "route" => tab[u].sub \in 1 .. Len(copies)
        /\ app.source <= Len(copies) /\ \A a \in Admins : admin[a].reviewed <= Len(copies)
    BY DEF IInv, TypeOK, AppRecs, AdminRecs, Subs, SubsAreCopies
  <2>9. SubsAreCopies' /\ RoutedOnce'
    <3>1. SubsAreCopies'
      BY <2>1, <2>2, <2>3, <2>4, <2>5, <2>8 DEF IInv, SubsAreCopies
    <3>2. RoutedOnce'
      BY <2>1, <2>3, <2>4, <2>5, <2>8 DEF IInv, RoutedOnce
    <3> QED
      BY <3>1, <3>2
  <2>10. DOMAIN copies = 1 .. Len(copies) /\ DOMAIN copies' = 1 .. n
    BY <2>1, <2>2
  <2> HIDE DEF n
  <2>11. /\ ReadAsOne' /\ OffFrom' /\ ApprovedMeansApproved'
         /\ QueueHoldsItsCopy' /\ ApprovedIsWhatWasRead'
    <3>1. ReadAsOne' /\ OffFrom' /\ ApprovedMeansApproved'
      BY <2>4 DEF IInv, ReadAsOne, OffFrom, ApprovedMeansApproved
    <3>2. \A i \in DOMAIN copies : i \in DOMAIN copies' /\ copies'[i] = copies[i]
      BY <2>1, <2>2, <2>10 DEF n
    <3>3. QueueHoldsItsCopy' /\ ApprovedIsWhatWasRead'
      BY <2>4, <3>2 DEF IInv, QueueHoldsItsCopy, ApprovedIsWhatWasRead
    <3> QED
      BY <3>1, <3>3
  <2> QED
    BY <2>6, <2>7, <2>9, <2>11 DEF IInv
<1> QED
  BY <1>1, <1>2 DEF Submit

\* A request that ends is no longer under way, and the others stay as they were.
LEMMA TabEnds ==
    ASSUME IInv, NEW t \in Tabs, TabTo(t, NoTab)
    PROVE  /\ tab' \in [Tabs -> TabRecs]
           /\ AsksForASave'
           /\ UNCHANGED <<head, admin>>
           /\ \A u \in Tabs : tab'[u].pc = "route" => u # t /\ tab'[u] = tab[u]
<1>1. tab' = [tab EXCEPT ![t] = NoTab] /\ tab \in [Tabs -> TabRecs] /\ UNCHANGED <<head, admin>>
  BY DEF TabTo, IInv, TypeOK
<1> QED
  BY <1>1, NoTabType DEF AsksForASave, IInv

\* The queue takes a copy that nobody has read, and says which commit it is of.
LEMMA RouteStep == ASSUME IInv, NEW t \in Tabs, Route(t) PROVE IInv'
<1> DEFINE new == [app EXCEPT !.status = "pending", !.source = tab[t].sub,
                              !.sourceCommit = tab[t].asks, !.declared = tab[t].asks]
<1>1. /\ TabTo(t, NoTab) /\ UNCHANGED <<copies, attempts>>
      /\ tab[t].pc = "route" /\ tab[t] \in TabRecs /\ app \in AppRecs
      /\ \A u \in Tabs : tab[u] \in TabRecs
  BY DEF Route, IInv, TypeOK
<1>2. /\ tab' \in [Tabs -> TabRecs] /\ AsksForASave' /\ UNCHANGED <<head, admin>>
      /\ \A u \in Tabs : tab'[u].pc = "route" => u # t /\ tab'[u] = tab[u]
  BY <1>1, TabEnds
<1>3. CASE UNCHANGED app
  <2>1. TypeOK'
    BY <1>1, <1>2, <1>3 DEF IInv, TypeOK
  <2>2. SubsAreCopies' /\ RoutedOnce'
    BY <1>1, <1>2, <1>3 DEF IInv, SubsAreCopies, RoutedOnce
  <2>3. /\ ReadAsOne' /\ OffFrom'
        /\ QueueHoldsItsCopy' /\ ApprovedIsWhatWasRead' /\ ApprovedMeansApproved'
    BY <1>1, <1>2, <1>3
       DEF IInv, ReadAsOne, OffFrom, QueueHoldsItsCopy, ApprovedIsWhatWasRead,
           ApprovedMeansApproved
  <2> QED
    BY <1>2, <2>1, <2>2, <2>3 DEF IInv
<1>4. CASE copies[tab[t].sub] = tab[t].asks /\ app' = new
  <2>1. /\ new \in AppRecs
        /\ new.status = "pending" /\ new.source = tab[t].sub
        /\ new.sourceCommit = tab[t].asks /\ new.previous = app.previous
        /\ new.approved = app.approved /\ new.approvedCommit = app.approvedCommit
        /\ new.standing = app.standing
    BY <1>1 DEF AppRecs, TabRecs, Statuses
  <2> HIDE DEF new
  <2>2. TypeOK'
    BY <1>1, <1>2, <1>4, <2>1 DEF IInv, TypeOK
  <2>3. tab[t].sub \in 1 .. Len(copies) /\ tab[t].sub # 0
    BY <1>1 DEF IInv, SubsAreCopies, TypeOK
  <2>4. SubsAreCopies'
    BY <1>1, <1>2, <1>4, <2>1, <2>3 DEF IInv, SubsAreCopies, TypeOK
  <2>5. RoutedOnce'
    BY <1>1, <1>2, <1>4, <2>1 DEF IInv, RoutedOnce
  <2>6. ReadAsOne' /\ OffFrom' /\ ApprovedMeansApproved'
    BY <1>1, <1>2, <1>4, <2>1 DEF IInv, ReadAsOne, OffFrom, ApprovedMeansApproved, RoutedOnce
  <2>7. DOMAIN copies = 1 .. Len(copies)
    BY DEF IInv, TypeOK
  <2>8. QueueHoldsItsCopy' /\ ApprovedIsWhatWasRead'
    BY <1>1, <1>4, <2>1, <2>3, <2>7 DEF IInv, QueueHoldsItsCopy, ApprovedIsWhatWasRead
  <2> QED
    BY <1>2, <2>2, <2>4, <2>5, <2>6, <2>8 DEF IInv
<1> QED
  BY <1>3, <1>4 DEF Route

\* A claim adds an attempt; what is stored of the app stays.
LEMMA ClaimSteps ==
    ASSUME IInv, NEW t \in Tabs, Claim(t) \/ ClaimCopy(t) PROVE IInv'
<1>1. tab[t] \in TabRecs /\ tab[t].asks \in Commits /\ tab[t].asks # 0
      /\ tab[t].pc \in {"claim", "claimcopy"}
  BY DEF IInv, TypeOK, TabRecs, AsksForASave, Claim, ClaimCopy
<1>2. CASE TabOnly(t, NoTab)
  BY <1>2, NoTabType, TabOnlyKeeps
<1>3. CASE /\ Len(attempts) # MaxAttempts
           /\ tab[t].pc = "claim"
           /\ attempts' = Claimed(tab[t].asks, FALSE)
           /\ TabTo(t, [tab[t] EXCEPT !.pc = "record"])
           /\ UNCHANGED <<app, copies>>
  <2> DEFINE rec == [tab[t] EXCEPT !.pc = "record"]
  <2>1. rec \in TabRecs /\ rec.pc = "record" /\ rec.asks = tab[t].asks
    BY <1>1 DEF TabRecs
  <2>2. /\ tab' = [tab EXCEPT ![t] = rec] /\ tab \in [Tabs -> TabRecs]
        /\ UNCHANGED <<head, admin>>
    BY <1>3 DEF TabTo, IInv, TypeOK
  <2> HIDE DEF rec
  <2>3. head # 0 /\ \A u \in Tabs : tab'[u].pc = "route" => tab'[u] = tab[u]
    BY <1>3, <2>1, <2>2 DEF IInv, AsksForASave
  <2>4. TypeOK'
    <3>1. attempts' \in Seq(Attempts) /\ Len(attempts') <= MaxAttempts
      BY <1>1, <1>3, ClaimedTypes DEF IInv
    <3> QED
      BY <1>3, <2>1, <2>2, <3>1 DEF IInv, TypeOK
  <2>5. AsksForASave'
    BY <1>1, <2>1, <2>2, <2>3 DEF IInv, AsksForASave
  <2>6. SubsAreCopies' /\ RoutedOnce'
    BY <1>3, <2>2, <2>3 DEF IInv, SubsAreCopies, RoutedOnce
  <2>7. /\ ReadAsOne' /\ OffFrom'
        /\ QueueHoldsItsCopy' /\ ApprovedIsWhatWasRead' /\ ApprovedMeansApproved'
    BY <1>3, <2>2
       DEF IInv, ReadAsOne, OffFrom, QueueHoldsItsCopy, ApprovedIsWhatWasRead,
           ApprovedMeansApproved
  <2> QED
    BY <2>4, <2>5, <2>6, <2>7 DEF IInv
<1>4. CASE /\ Len(attempts) # MaxAttempts
           /\ attempts' = Claimed(tab[t].asks, TRUE)
           /\ TabTo(t, NoTab)
           /\ UNCHANGED <<app, copies>>
  <2>1. /\ tab' \in [Tabs -> TabRecs] /\ AsksForASave' /\ UNCHANGED <<head, admin>>
        /\ \A u \in Tabs : tab'[u].pc = "route" => u # t /\ tab'[u] = tab[u]
    BY <1>4, TabEnds
  <2>2. attempts' \in Seq(Attempts) /\ Len(attempts') <= MaxAttempts
    BY <1>1, <1>4, ClaimedTypes DEF IInv
  <2>3. TypeOK'
    BY <1>4, <2>1, <2>2 DEF IInv, TypeOK
  <2>4. SubsAreCopies' /\ RoutedOnce'
    BY <1>4, <2>1 DEF IInv, SubsAreCopies, RoutedOnce
  <2>5. /\ ReadAsOne' /\ OffFrom'
        /\ QueueHoldsItsCopy' /\ ApprovedIsWhatWasRead' /\ ApprovedMeansApproved'
    BY <1>4, <2>1
       DEF IInv, ReadAsOne, OffFrom, QueueHoldsItsCopy, ApprovedIsWhatWasRead,
           ApprovedMeansApproved
  <2> QED
    BY <2>1, <2>3, <2>4, <2>5 DEF IInv
<1> QED
  BY <1>2, <1>3, <1>4 DEF Claim, ClaimCopy

\* The declaration alone: nothing a decision rests on.
LEMMA RecordStep == ASSUME IInv, NEW t \in Tabs, Record(t) PROVE IInv'
<1> DEFINE new == [app EXCEPT !.declared = tab[t].asks]
<1>1. /\ TabTo(t, NoTab) /\ app' = new /\ UNCHANGED <<copies, attempts>>
      /\ tab[t] \in TabRecs /\ app \in AppRecs
  BY DEF Record, IInv, TypeOK
<1>2. /\ tab' \in [Tabs -> TabRecs] /\ AsksForASave' /\ UNCHANGED <<head, admin>>
      /\ \A u \in Tabs : tab'[u].pc = "route" => u # t /\ tab'[u] = tab[u]
  BY <1>1, TabEnds
<1>3. /\ new \in AppRecs
      /\ new.status = app.status /\ new.source = app.source
      /\ new.sourceCommit = app.sourceCommit /\ new.previous = app.previous
      /\ new.approved = app.approved /\ new.approvedCommit = app.approvedCommit
      /\ new.standing = app.standing
  BY <1>1 DEF AppRecs, TabRecs
<1> HIDE DEF new
<1>4. TypeOK'
  BY <1>1, <1>2, <1>3 DEF IInv, TypeOK
<1>5. SubsAreCopies' /\ RoutedOnce'
  BY <1>1, <1>2, <1>3 DEF IInv, SubsAreCopies, RoutedOnce
<1>6. /\ ReadAsOne' /\ OffFrom'
      /\ QueueHoldsItsCopy' /\ ApprovedIsWhatWasRead' /\ ApprovedMeansApproved'
  BY <1>1, <1>2, <1>3
     DEF IInv, ReadAsOne, OffFrom, QueueHoldsItsCopy, ApprovedIsWhatWasRead,
         ApprovedMeansApproved
<1> QED
  BY <1>2, <1>4, <1>5, <1>6 DEF IInv

\* A withdrawal leaves nothing in the queue to be approved.
LEMMA WithdrawStep == ASSUME IInv, NEW t \in Tabs, Withdraw(t) PROVE IInv'
<1> DEFINE new == [app EXCEPT !.status = "draft", !.source = 0, !.sourceCommit = 0,
                              !.declared = 0]
<1>1. /\ TabTo(t, NoTab) /\ UNCHANGED <<copies, attempts>>
      /\ app' \in {app, new} /\ app \in AppRecs
      /\ \A u \in Tabs : tab[u] \in TabRecs
  BY DEF Withdraw, IInv, TypeOK
<1>2. /\ tab' \in [Tabs -> TabRecs] /\ AsksForASave' /\ UNCHANGED <<head, admin>>
      /\ \A u \in Tabs : tab'[u].pc = "route" => u # t /\ tab'[u] = tab[u]
  BY <1>1, TabEnds
<1>3. /\ new \in AppRecs /\ new.status = "draft" /\ new.source = 0
      /\ new.approved = app.approved /\ new.approvedCommit = app.approvedCommit
  <2>1. 0 \in Subs /\ "draft" \in Statuses
    BY AppStatusAssumption DEF Subs, Statuses
  <2> QED
    BY <1>1, <2>1 DEF AppRecs
<1> HIDE DEF new
<1>4. TypeOK'
  BY <1>1, <1>2, <1>3 DEF IInv, TypeOK
<1>5. 0 <= Len(copies) /\ \A u \in Tabs : tab[u].pc = "route" => tab[u].sub # 0
  BY DEF IInv, TypeOK, SubsAreCopies
<1>6. SubsAreCopies'
  BY <1>1, <1>2, <1>3, <1>5 DEF IInv, SubsAreCopies
<1>7. RoutedOnce'
  BY <1>1, <1>2, <1>3, <1>5 DEF IInv, RoutedOnce
<1>8. /\ ReadAsOne' /\ OffFrom'
      /\ QueueHoldsItsCopy' /\ ApprovedIsWhatWasRead' /\ ApprovedMeansApproved'
  BY <1>1, <1>2, <1>3
     DEF IInv, ReadAsOne, OffFrom, QueueHoldsItsCopy, ApprovedIsWhatWasRead,
         ApprovedMeansApproved, SubsAreCopies
<1> QED
  BY <1>2, <1>4, <1>6, <1>7, <1>8 DEF IInv

----------------------------------------------------------------------------
\* The requests of the administrators.

LEMMA NoAdminType == NoAdmin \in AdminRecs /\ NoAdmin.pc = "idle" /\ NoAdmin.reviewed = 0
  BY AppStatusAssumption DEF NoAdmin, AdminRecs, Subs, Statuses

\* A step that moves one administrator's request and nothing else.
LEMMA AdminOnlyKeeps ==
    ASSUME IInv, NEW a \in Admins, NEW rec \in AdminRecs,
           AdminTo(a, rec), UNCHANGED <<app, attempts>>,
           rec.reviewed \in {0, admin[a].reviewed, app.source}, rec.reviewed <= Len(copies),
           rec.pc \in {"reviewing", "approve"} => rec.reviewed # 0,
           rec.pc = "approve" => rec.commit = app.sourceCommit
    PROVE  IInv'
<1>1. /\ admin' = [admin EXCEPT ![a] = rec] /\ admin \in [Admins -> AdminRecs]
      /\ UNCHANGED <<app, attempts, head, copies, tab>>
  BY DEF AdminTo, IInv, TypeOK
<1>2. TypeOK'
  BY <1>1 DEF IInv, TypeOK
<1>3. SubsAreCopies' /\ ReadAsOne'
  BY <1>1 DEF IInv, SubsAreCopies, ReadAsOne
<1>4. RoutedOnce'
  <2>1. \A t \in Tabs : tab[t].pc = "route" => tab[t].sub # 0
    BY DEF IInv, TypeOK, SubsAreCopies
  <2> QED
    BY <1>1, <2>1 DEF IInv, RoutedOnce
<1>5. /\ AsksForASave' /\ OffFrom'
      /\ QueueHoldsItsCopy' /\ ApprovedIsWhatWasRead' /\ ApprovedMeansApproved'
  BY <1>1 DEF IInv, AsksForASave, OffFrom, QueueHoldsItsCopy, ApprovedIsWhatWasRead,
              ApprovedMeansApproved
<1> QED
  BY <1>2, <1>3, <1>4, <1>5 DEF IInv

LEMMA ReviewStep == ASSUME IInv, NEW a \in Admins, Review(a) PROVE IInv'
<1> DEFINE rec == [NoAdmin EXCEPT !.pc = "reviewing", !.reviewed = app.source]
<1>1. app.source \in Subs /\ app.source <= Len(copies) /\ app.source # 0
  BY DEF IInv, TypeOK, AppRecs, SubsAreCopies, QueueHoldsItsCopy, Review
<1>2. rec \in AdminRecs /\ rec.pc = "reviewing" /\ rec.reviewed = app.source
  BY <1>1, NoAdminType DEF AdminRecs
<1>3. AdminTo(a, rec) /\ UNCHANGED <<app, attempts>>
  BY DEF Review
<1> HIDE DEF rec
<1> QED
  BY <1>1, <1>2, <1>3, AdminOnlyKeeps

LEMMA ClickStep == ASSUME IInv, NEW a \in Admins, Click(a) PROVE IInv'
<1>1. /\ admin[a] \in AdminRecs /\ app.sourceCommit \in Commits \union {0}
      /\ admin[a].reviewed <= Len(copies) /\ admin[a].reviewed # 0
      /\ 0 <= Len(copies) /\ UNCHANGED <<app, attempts>>
  BY DEF IInv, TypeOK, AppRecs, SubsAreCopies, Click
<1> DEFINE yes == [admin[a] EXCEPT !.pc = "approve", !.commit = app.sourceCommit]
           no == [admin[a] EXCEPT !.pc = "reject", !.reviewed = 0, !.commit = 0]
<1>2. /\ yes \in AdminRecs /\ yes.pc = "approve" /\ yes.reviewed = admin[a].reviewed
      /\ yes.commit = app.sourceCommit
  BY <1>1 DEF AdminRecs
<1>3. no \in AdminRecs /\ no.pc = "reject" /\ no.reviewed = 0
  <2>1. 0 \in Subs
    BY AppStatusAssumption DEF Subs
  <2> QED
    BY <1>1, <2>1 DEF AdminRecs
<1>4. CASE AdminTo(a, NoAdmin)
  BY <1>1, <1>4, NoAdminType, AdminOnlyKeeps
<1>5. CASE \E pc \in {"approve", "reject"} :
              AdminTo(a, [admin[a] EXCEPT !.pc = pc,
                         !.reviewed = IF pc = "approve" THEN @ ELSE 0,
                         !.commit = IF pc = "approve" THEN app.sourceCommit ELSE 0])
  <2>1. CASE AdminTo(a, [admin[a] EXCEPT !.pc = "approve",
                         !.reviewed = IF "approve" = "approve" THEN @ ELSE 0,
                         !.commit = IF "approve" = "approve" THEN app.sourceCommit ELSE 0])
    <3>1. yes = [admin[a] EXCEPT !.pc = "approve",
                         !.reviewed = IF "approve" = "approve" THEN @ ELSE 0,
                         !.commit = IF "approve" = "approve" THEN app.sourceCommit ELSE 0]
      BY <1>1 DEF AdminRecs
    <3> HIDE DEF yes
    <3> QED
      BY <1>1, <1>2, <2>1, <3>1, AdminOnlyKeeps
  <2>2. CASE AdminTo(a, [admin[a] EXCEPT !.pc = "reject",
                         !.reviewed = IF "reject" = "approve" THEN @ ELSE 0,
                         !.commit = IF "reject" = "approve" THEN app.sourceCommit ELSE 0])
    <3>1. no = [admin[a] EXCEPT !.pc = "reject",
                         !.reviewed = IF "reject" = "approve" THEN @ ELSE 0,
                         !.commit = IF "reject" = "approve" THEN app.sourceCommit ELSE 0]
      BY <1>1 DEF AdminRecs
    <3> HIDE DEF no
    <3> QED
      BY <1>1, <1>3, <2>2, <3>1, AdminOnlyKeeps
  <2> QED
    BY <1>5, <2>1, <2>2
<1> QED
  BY <1>4, <1>5 DEF Click

LEMMA AskSwitchStep == ASSUME IInv, NEW a \in Admins, AskSwitch(a) PROVE IInv'
<1>1. app.status \in Statuses /\ UNCHANGED <<app, attempts>> /\ 0 <= Len(copies)
  BY DEF IInv, TypeOK, AppRecs, AskSwitch
<1>2. \A pc \in {"disable", "enable"} :
        LET rec == [NoAdmin EXCEPT !.status = app.status, !.pc = pc]
        IN rec \in AdminRecs /\ rec.pc = pc /\ rec.reviewed = 0
  BY <1>1, NoAdminType DEF AdminRecs
<1> QED
  BY <1>1, <1>2, AdminOnlyKeeps DEF AskSwitch

LEMMA GiveUpStep == ASSUME IInv, NEW a \in Admins, GiveUp(a) PROVE IInv'
<1>1. 0 <= Len(copies)
  BY DEF IInv, TypeOK
<1> QED
  BY <1>1, NoAdminType, AdminOnlyKeeps DEF GiveUp

\* What an administrator's write leaves to the requests under way.
LEMMA AdminEnds ==
    ASSUME IInv, NEW a \in Admins, AdminTo(a, NoAdmin)
    PROVE  /\ admin' \in [Admins -> AdminRecs]
           /\ UNCHANGED <<head, copies, tab>>
           /\ \A b \in Admins : admin'[b] = admin[b] \/ admin'[b] = NoAdmin
           /\ AsksForASave'
<1>1. /\ admin' = [admin EXCEPT ![a] = NoAdmin] /\ admin \in [Admins -> AdminRecs]
      /\ UNCHANGED <<head, copies, tab>>
  BY DEF AdminTo, IInv, TypeOK
<1> QED
  BY <1>1, NoAdminType DEF AsksForASave, IInv

\* A decision that leaves the queue's submission where it is.
LEMMA DecisionKeeps ==
    ASSUME IInv, NEW a \in Admins, AdminTo(a, NoAdmin),
           app' \in AppRecs, app'.source = app.source, app'.sourceCommit = app.sourceCommit,
           app'.status # "pending" \/ app.status = "pending",
           attempts' \in Seq(Attempts), Len(attempts') <= MaxAttempts,
           OffFrom', ApprovedIsWhatWasRead', ApprovedMeansApproved'
    PROVE  IInv'
<1>1. /\ admin' \in [Admins -> AdminRecs] /\ UNCHANGED <<head, copies, tab>>
      /\ \A b \in Admins : admin'[b] = admin[b] \/ admin'[b] = NoAdmin
      /\ AsksForASave'
  BY AdminEnds
<1>2. TypeOK'
  BY <1>1 DEF IInv, TypeOK
<1>3. 0 <= Len(copies) /\ \A t \in Tabs : tab[t].pc = "route" => tab[t].sub # 0
  BY DEF IInv, TypeOK, SubsAreCopies
<1>4. SubsAreCopies' /\ ReadAsOne'
  BY <1>1, <1>3, NoAdminType DEF IInv, SubsAreCopies, ReadAsOne
<1>5. RoutedOnce'
  BY <1>1, <1>3, NoAdminType DEF IInv, RoutedOnce
<1>6. QueueHoldsItsCopy'
  BY <1>1 DEF IInv, QueueHoldsItsCopy
<1> QED
  BY <1>1, <1>2, <1>4, <1>5, <1>6 DEF IInv

\* A decision that changes nothing, the request having come too late.
LEMMA TooLate ==
    ASSUME IInv, NEW a \in Admins, AdminTo(a, NoAdmin), UNCHANGED <<app, attempts>>
    PROVE  IInv'
<1>1. 0 <= Len(copies)
  BY DEF IInv, TypeOK
<1> QED
  BY <1>1, NoAdminType, AdminOnlyKeeps

\* What is approved is the copy that was read, of the commit the queue says.
LEMMA ApproveStep == ASSUME IInv, NEW a \in Admins, Approve(a) PROVE IInv'
<1>1. AdminTo(a, NoAdmin)
  BY DEF Approve
<1>2. CASE UNCHANGED <<app, attempts>>
  BY <1>1, <1>2, TooLate
<1>3. CASE /\ app.status = "pending" /\ app.source = admin[a].reviewed
           /\ app' = Approved(a)
           /\ attempts' \in Starts(admin[a].commit)
  <2>1. /\ admin[a] \in AdminRecs /\ app \in AppRecs /\ admin[a].pc = "approve"
        /\ admin[a].commit = app.sourceCommit
        /\ admin[a].reviewed # 0
        /\ admin[a].reviewed \in DOMAIN copies /\ copies[admin[a].reviewed] = admin[a].commit
    BY <1>3 DEF Approve, IInv, TypeOK, ReadAsOne, SubsAreCopies, QueueHoldsItsCopy
  <2>2. admin[a].commit \in Commits /\ UNCHANGED copies
    BY <1>1, <2>1 DEF IInv, TypeOK, AdminTo
  <2>3. Len(attempts) + 1 \in 0 .. MaxAttempts + 1
    BY AppStatusAssumption DEF IInv, TypeOK
  <2>4. /\ app' \in AppRecs /\ app'.source = app.source
        /\ app'.sourceCommit = app.sourceCommit
        /\ app'.status = "approved" /\ app'.standing = FALSE
        /\ app'.approved = admin[a].reviewed /\ app'.approvedCommit = admin[a].commit
    BY <1>3, <2>1, <2>2, <2>3 DEF Approved, AppRecs, AdminRecs, Statuses
  <2>5. attempts' \in Seq(Attempts) /\ Len(attempts') <= MaxAttempts
    <3>1. attempts \in Seq(Attempts) /\ Len(attempts) <= MaxAttempts
      BY DEF IInv, TypeOK
    <3> QED
      BY <1>3, <2>2, <3>1, ClaimedTypes DEF Starts, IInv
  <2>6. OffFrom' /\ ApprovedIsWhatWasRead' /\ ApprovedMeansApproved'
    BY <2>1, <2>2, <2>4 DEF OffFrom, ApprovedIsWhatWasRead, ApprovedMeansApproved
  <2> QED
    BY <1>1, <2>4, <2>5, <2>6, DecisionKeeps
<1> QED
  BY <1>2, <1>3 DEF Approve

LEMMA RejectStep == ASSUME IInv, NEW a \in Admins, Reject(a) PROVE IInv'
<1>1. AdminTo(a, NoAdmin) /\ UNCHANGED attempts
  BY DEF Reject
<1>2. CASE UNCHANGED app
  BY <1>1, <1>2, TooLate
<1>3. CASE app' = [app EXCEPT !.status = "rejected", !.standing = TRUE, !.barred = Len(attempts)]
  <2>1. /\ app \in AppRecs /\ Len(attempts) \in 0 .. MaxAttempts
        /\ attempts \in Seq(Attempts) /\ Len(attempts) <= MaxAttempts
        /\ UNCHANGED copies
    BY <1>1 DEF IInv, TypeOK, AdminTo
  <2>2. /\ app' \in AppRecs /\ app'.source = app.source
        /\ app'.sourceCommit = app.sourceCommit /\ app'.status = "rejected"
        /\ app'.approved = app.approved /\ app'.approvedCommit = app.approvedCommit
    BY <1>3, <2>1 DEF AppRecs, Statuses
  <2>3. OffFrom' /\ ApprovedIsWhatWasRead' /\ ApprovedMeansApproved'
    BY <2>1, <2>2 DEF OffFrom, ApprovedIsWhatWasRead, ApprovedMeansApproved, IInv
  <2> QED
    BY <1>1, <2>1, <2>2, <2>3, DecisionKeeps
<1> QED
  BY <1>2, <1>3 DEF Reject

\* What an app was is remembered as it is switched off ...
LEMMA DisableStep == ASSUME IInv, NEW a \in Admins, Disable(a) PROVE IInv'
<1>1. AdminTo(a, NoAdmin) /\ UNCHANGED attempts
  BY DEF Disable
<1>2. CASE UNCHANGED app
  BY <1>1, <1>2, TooLate
<1>3. CASE /\ app.status \in Sources["disabled"]
           /\ app' = [app EXCEPT !.status = "disabled", !.previous = app.status,
                                 !.barred = Len(attempts)]
  <2>1. /\ app \in AppRecs /\ Len(attempts) \in 0 .. MaxAttempts
        /\ attempts \in Seq(Attempts) /\ Len(attempts) <= MaxAttempts
        /\ UNCHANGED copies /\ app.status \in {"approved", "draft", "rejected"}
    BY <1>1, <1>3 DEF IInv, TypeOK, AdminTo, Sources
  <2>2. /\ app' \in AppRecs /\ app'.source = app.source
        /\ app'.sourceCommit = app.sourceCommit /\ app'.status = "disabled"
        /\ app'.previous = app.status /\ app'.standing = app.standing
        /\ app'.approved = app.approved /\ app'.approvedCommit = app.approvedCommit
    BY <1>3, <2>1 DEF AppRecs, Statuses
  <2>3. OffFrom' /\ ApprovedIsWhatWasRead' /\ ApprovedMeansApproved'
    BY <2>1, <2>2 DEF OffFrom, ApprovedIsWhatWasRead, ApprovedMeansApproved, IInv
  <2> QED
    BY <1>1, <2>1, <2>2, <2>3, DecisionKeeps
<1> QED
  BY <1>2, <1>3 DEF Disable

\* ... and is what it comes back as.
LEMMA EnableStep == ASSUME IInv, NEW a \in Admins, Enable(a) PROVE IInv'
<1>1. AdminTo(a, NoAdmin) /\ UNCHANGED attempts
  BY DEF Enable
<1>2. CASE UNCHANGED app
  BY <1>1, <1>2, TooLate
<1>3. CASE /\ app.status = "disabled"
           /\ app.previous = "approved" => app.approved # 0
           /\ app' = [app EXCEPT !.status = app.previous, !.previous = "none"]
  <2>1. /\ app \in AppRecs /\ attempts \in Seq(Attempts) /\ Len(attempts) <= MaxAttempts
        /\ UNCHANGED copies /\ app.previous \in {"approved", "draft", "rejected"}
        /\ app.previous = "approved" => ~app.standing
    BY <1>1, <1>3 DEF IInv, TypeOK, AdminTo, OffFrom
  <2>2. /\ app' \in AppRecs /\ app'.source = app.source
        /\ app'.sourceCommit = app.sourceCommit /\ app'.status = app.previous
        /\ app'.standing = app.standing
        /\ app'.approved = app.approved /\ app'.approvedCommit = app.approvedCommit
    BY <1>3, <2>1 DEF AppRecs, Statuses
  <2>3. OffFrom' /\ ApprovedIsWhatWasRead' /\ ApprovedMeansApproved'
    BY <1>3, <2>1, <2>2 DEF OffFrom, ApprovedIsWhatWasRead, ApprovedMeansApproved, IInv
  <2> QED
    BY <1>1, <2>1, <2>2, <2>3, DecisionKeeps
<1> QED
  BY <1>2, <1>3 DEF Enable

----------------------------------------------------------------------------
\* What goes on meanwhile.

LEMMA SaveStep == ASSUME IInv, Save PROVE IInv'
<1>1. head' \in Commits /\ head' # 0 /\ UNCHANGED <<app, copies, attempts, tab, admin>>
  BY AppStatusAssumption DEF Save, IInv, TypeOK, Commits
<1>2. TypeOK'
  BY <1>1 DEF IInv, TypeOK
<1>3. /\ AsksForASave' /\ SubsAreCopies' /\ RoutedOnce' /\ ReadAsOne' /\ OffFrom'
      /\ QueueHoldsItsCopy' /\ ApprovedIsWhatWasRead' /\ ApprovedMeansApproved'
  BY <1>1 DEF IInv, AsksForASave, SubsAreCopies, RoutedOnce, ReadAsOne, OffFrom,
              QueueHoldsItsCopy, ApprovedIsWhatWasRead, ApprovedMeansApproved
<1> QED
  BY <1>2, <1>3 DEF IInv

\* An attempt that moves on leaves every decision alone.
LEMMA AttemptKeeps ==
    ASSUME IInv, NEW i \in DOMAIN attempts, NEW rec \in Attempts, AttemptTo(i, rec)
    PROVE  IInv'
<1>1. /\ attempts' \in Seq(Attempts) /\ Len(attempts') <= MaxAttempts
      /\ UNCHANGED <<app, head, copies, tab, admin>>
  BY WrittenTypes DEF AttemptTo, IInv
<1>2. TypeOK'
  BY <1>1 DEF IInv, TypeOK
<1>3. /\ AsksForASave' /\ SubsAreCopies' /\ RoutedOnce' /\ ReadAsOne' /\ OffFrom'
      /\ QueueHoldsItsCopy' /\ ApprovedIsWhatWasRead' /\ ApprovedMeansApproved'
  BY <1>1 DEF IInv, AsksForASave, SubsAreCopies, RoutedOnce, ReadAsOne, OffFrom,
              QueueHoldsItsCopy, ApprovedIsWhatWasRead, ApprovedMeansApproved
<1> QED
  BY <1>2, <1>3 DEF IInv

LEMMA AttemptSteps ==
    ASSUME IInv, TakeDown \/ \E i \in DOMAIN attempts : Name(i) \/ Settle(i)
    PROVE  IInv'
<1>1. attempts \in Seq(Attempts) /\ \A i \in DOMAIN attempts : attempts[i] \in Attempts
  BY DEF IInv, TypeOK
<1>2. ASSUME NEW i \in DOMAIN attempts, Name(i) PROVE IInv'
  <2>1. [attempts[i] EXCEPT !.named = TRUE] \in Attempts
    BY <1>1 DEF Attempts
  <2> QED
    BY <1>2, <2>1, AttemptKeeps DEF Name
<1>3. ASSUME NEW i \in DOMAIN attempts, Settle(i) PROVE IInv'
  <2>1. \A end \in {"live", "fault", "retry"} : [attempts[i] EXCEPT !.end = end] \in Attempts
    BY <1>1 DEF Attempts, Ends
  <2> QED
    BY <1>3, <2>1, AttemptKeeps DEF Settle
<1>4. CASE TakeDown
  <2>1. Len(attempts) \in DOMAIN attempts
    BY <1>1, <1>4 DEF TakeDown
  <2>2. [attempts[Len(attempts)] EXCEPT !.down = TRUE] \in Attempts
    BY <1>1, <2>1 DEF Attempts
  <2> QED
    BY <1>4, <2>1, <2>2, AttemptKeeps DEF TakeDown
<1> QED
  BY <1>2, <1>3, <1>4

LEMMA NextIInv == IInv /\ [Next]_vars => IInv'
<1> SUFFICES ASSUME IInv, [Next]_vars PROVE IInv'
  OBVIOUS
<1>1. ASSUME NEW t \in Tabs, TabStep(t) PROVE IInv'
  BY <1>1, AskStep, AskCopyStep, AskHeadStep, DecideStep, SubmitStep, RouteStep, ClaimSteps,
     RecordStep, AskWithdrawStep, WithdrawStep DEF TabStep
<1>2. ASSUME NEW a \in Admins, AdminStep(a) PROVE IInv'
  BY <1>2, ReviewStep, ClickStep, ApproveStep, RejectStep, AskSwitchStep, DisableStep,
     EnableStep, GiveUpStep DEF AdminStep
<1>3. CASE Save \/ TakeDown \/ \E i \in DOMAIN attempts : Name(i) \/ Settle(i)
  BY <1>3, SaveStep, AttemptSteps
<1>4. CASE UNCHANGED vars
  <2>1. TypeOK'
    BY <1>4 DEF vars, IInv, TypeOK
  <2>2. /\ AsksForASave' /\ SubsAreCopies' /\ RoutedOnce' /\ ReadAsOne' /\ OffFrom'
        /\ QueueHoldsItsCopy' /\ ApprovedIsWhatWasRead' /\ ApprovedMeansApproved'
    BY <1>4 DEF vars, IInv, AsksForASave, SubsAreCopies, RoutedOnce, ReadAsOne, OffFrom,
                QueueHoldsItsCopy, ApprovedIsWhatWasRead, ApprovedMeansApproved
  <2> QED
    BY <2>1, <2>2 DEF IInv
<1> QED
  BY <1>1, <1>2, <1>3, <1>4 DEF Next

LEMMA Invariant == Spec => []IInv
<1>1. Init => IInv
  BY InitIInv
<1>2. IInv /\ [Next]_vars => IInv'
  BY NextIInv
<1> QED
  BY <1>1, <1>2, PTL DEF Spec

----------------------------------------------------------------------------
\* The theorems.

\* Every reachable state of an app's review is well typed.
THEOREM TypeCorrect == Spec => []TypeOK
<1>1. IInv => TypeOK
  BY DEF IInv
<1> QED
  BY <1>1, Invariant, PTL

\* However often an owner withdraws and sends again while administrators read,
\* the commit on record as approved is the one of the copy that was read, and
\* an app shows as approved only if it was and has not been rejected since.
THEOREM WhatIsApprovedWasRead == Spec => []ApprovalStands
<1>1. IInv => ApprovalStands
  BY DEF IInv, ApprovalStands
<1> QED
  BY <1>1, Invariant, PTL

\* Whatever is saved between the gate's reading and the copy, the queue holds a
\* copy of the commit it shows.
THEOREM TheQueueHoldsWhatItSays == Spec => []QueueHoldsItsCopy
<1>1. IInv => QueueHoldsItsCopy
  BY DEF IInv
<1> QED
  BY <1>1, Invariant, PTL

\* No request of the owner, and nothing an attempt does, switches an app back on:
\* an administrator's enable does, to what it was.
THEOREM OnlyAnEnableSwitchesOn == Spec => OnlyEnableSwitchesOn
<1> DEFINE Kept == app.status = "disabled" /\ app'.status # "disabled" =>
                       /\ app'.status = app.previous
                       /\ \E a \in Admins : admin[a].pc = "enable" /\ admin'[a].pc = "idle"
<1>1. IInv /\ [Next]_vars => [Kept]_vars
  <2> SUFFICES ASSUME IInv, Next, app.status = "disabled", app'.status # "disabled"
               PROVE  /\ app'.status = app.previous
                      /\ \E a \in Admins : admin[a].pc = "enable" /\ admin'[a].pc = "idle"
    OBVIOUS
  <2>1. app \in AppRecs /\ admin \in [Admins -> AdminRecs]
    BY DEF IInv, TypeOK
  <2>2. ASSUME NEW t \in Tabs, TabStep(t) PROVE FALSE
    BY <2>1, <2>2
       DEF TabStep, Ask, AskCopy, AskHead, Decide, Submit, Route, Claim, Record, ClaimCopy,
           AskWithdraw, Withdraw, TabOnly, TabPc, Sources, AppRecs
  <2>3. ASSUME NEW a \in Admins, AdminStep(a), ~Enable(a) PROVE FALSE
    BY <2>1, <2>3
       DEF AdminStep, Review, Click, Approve, Reject, AskSwitch, Disable, GiveUp, Sources, AppRecs
  <2>4. ASSUME NEW a \in Admins, Enable(a)
        PROVE  app'.status = app.previous /\ admin[a].pc = "enable" /\ admin'[a].pc = "idle"
    <3>1. admin' = [admin EXCEPT ![a] = NoAdmin]
      BY <2>4 DEF Enable, AdminTo
    <3>2. app'.status = app.previous
      BY <2>1, <2>4 DEF Enable, AppRecs
    <3> QED
      BY <2>1, <2>4, <3>1, <3>2, NoAdminType DEF Enable
  <2>5. ASSUME Save \/ TakeDown \/ \E i \in DOMAIN attempts : Name(i) \/ Settle(i) PROVE FALSE
    BY <2>5 DEF Save, TakeDown, Name, Settle, AttemptTo
  <2> QED
    BY <2>2, <2>3, <2>4, <2>5 DEF Next
<1> QED
  BY <1>1, Invariant, PTL DEF Spec, OnlyEnableSwitchesOn

\* Nothing the owner does, and nothing an attempt does, changes an approval's pin
\* or takes back a standing rejection.
THEOREM DecisionsAreTheAdministrators == Spec => OwnerDecidesNothing
<1> DEFINE Kept == admin' = admin => app'.standing = app.standing /\ app'.approved = app.approved
<1>1. IInv /\ [Next]_vars => [Kept]_vars
  <2> SUFFICES ASSUME IInv, Next, admin' = admin
               PROVE  app'.standing = app.standing /\ app'.approved = app.approved
    OBVIOUS
  <2>1. app \in AppRecs /\ admin \in [Admins -> AdminRecs]
    BY DEF IInv, TypeOK
  <2>2. ASSUME NEW t \in Tabs, TabStep(t)
        PROVE  app'.standing = app.standing /\ app'.approved = app.approved
    BY <2>1, <2>2
       DEF TabStep, Ask, AskCopy, AskHead, Decide, Submit, Route, Claim, Record, ClaimCopy,
           AskWithdraw, Withdraw, TabOnly, TabPc, AppRecs
  <2>3. ASSUME NEW a \in Admins, AdminStep(a)
        PROVE  app'.standing = app.standing /\ app'.approved = app.approved
    <3>1. CASE AdminTo(a, NoAdmin)
      <4>1. admin[a].pc = "idle"
        BY <2>1, <3>1, NoAdminType DEF AdminTo
      <4> QED
        BY <2>3, <4>1 DEF AdminStep, Review, Click, Approve, Reject, AskSwitch, Disable,
                          Enable, GiveUp
    <3> QED
      BY <2>3, <3>1 DEF AdminStep, Review, Click, Approve, Reject, AskSwitch, Disable,
                        Enable, GiveUp
  <2>4. ASSUME Save \/ TakeDown \/ \E i \in DOMAIN attempts : Name(i) \/ Settle(i)
        PROVE  app' = app
    BY <2>4 DEF Save, TakeDown, Name, Settle, AttemptTo
  <2> QED
    BY <2>2, <2>3, <2>4 DEF Next
<1> QED
  BY <1>1, Invariant, PTL DEF Spec, OwnerDecidesNothing
----------------------------------------------------------------------------
\* How often an app that is barred, or a copy that fails, is still published: the
\* second invariant.  A request may still come to a claim ...
MayPublish(rec) ==
    \/ rec.pc \in {"copy", "claimcopy", "claim"}
    \/ rec.pc \in {"head", "decide"} /\ ~rec.standing
Publishers == {t \in Tabs : MayPublish(tab[t])}
Barred == app.status = "disabled" \/ app.standing

\* ... and each that may when the app is barred adds one attempt at most.
BarringHolds ==
    Barred => Len(attempts) + Cardinality(Publishers) <= app.barred + Cardinality(Tabs)

\* One attempt runs at a time, the newest.
LastRuns == \A i \in DOMAIN attempts : i # Len(attempts) => attempts[i].end # "running"

\* Whoever sent what is in the queue is not at the approved copy.
QueueIsSomeones ==
    app.status = "pending" => \E t \in Tabs : tab[t].pc \notin {"copy", "claimcopy"}

\* The attempts at the copy that count, or will if they fail ...
Lives(commit) ==
    {j \in DOMAIN attempts : attempts[j].end = "live" /\ attempts[j].ships = commit}
Tries ==
    {i \in DOMAIN attempts :
        /\ i >= app.since /\ \A j \in Lives(app.approvedCommit) : j <= i
        /\ attempts[i].copy /\ attempts[i].end # "live"
        /\ attempts[i].end # "running" =>
             (attempts[i].named => attempts[i].ships = app.approvedCommit)}

\* ... and the requests that were offered it, or are looking at an older approval.
Holds(rec) ==
    \/ rec.pc = "claimcopy"
    \/ rec.pc = "copy" /\ ~(rec.asks = app.approvedCommit /\ rec.since = app.since)
Holders == {t \in Tabs : Holds(tab[t])}

\* Each offer is made below the number of tries, or after a takedown.
TriesAreCounted ==
    Cardinality(Tries) + Cardinality(Holders)
        < CopyTries + Cardinality(Tabs) * (1 + Cardinality(Downs))
LastIsDown == attempts # <<>> /\ attempts[Len(attempts)].down
TakedownCounts ==
    LastIsDown => Cardinality(Tries) < CopyTries + Cardinality(Tabs) * Cardinality(Downs)

Bounds == BarringHolds /\ LastRuns /\ QueueIsSomeones /\ TriesAreCounted /\ TakedownCounts

\* A finite set of positions has a last one.
LEMMA LastOfSome ==
    ASSUME NEW n \in Nat, NEW S, S \subseteq 1 .. n, S # {}
    PROVE  \E i \in S : \A j \in S : j <= i
<1> DEFINE R == OpToRel(<, Nat)
           T == {n - j : j \in S}
<1>1. IsWellFoundedOn(R, Nat)
  BY NatLessThanWellFounded, Zenon
<1>2. T \subseteq Nat /\ T # {}
  <2>1. \A j \in S : n - j \in Nat
    OBVIOUS
  <2> QED
    BY <2>1
<1>3. \A x \in Nat, y \in Nat : y < x => <<y, x>> \in R
  BY Zenon DEF OpToRel
<1> HIDE DEF R, T
<1>4. PICK x \in T : \A y \in T : ~ (<<y, x>> \in R)
  BY <1>1, <1>2, WFMin
<1>5. \A y \in T : ~(y < x)
  BY <1>2, <1>3, <1>4, Zenon
<1>6. PICK i \in S : x = n - i
  BY <1>4 DEF T
<1>7. ASSUME NEW j \in S PROVE j <= i
  <2>1. n - j \in T
    BY DEF T
  <2>2. ~(n - j < n - i)
    BY <1>5, <1>6, <2>1
  <2> QED
    BY <2>2
<1> QED
  BY <1>7

\* Counting from the last live attempt is counting from all of them.
LEMMA CountedFrom ==
    ASSUME TypeOK, NEW commit, NEW i \in DOMAIN attempts
    PROVE  i >= LastLive(commit) <=> \A j \in Lives(commit) : j <= i
<1>1. attempts \in Seq(Attempts) /\ Len(attempts) \in Nat /\ DOMAIN attempts = 1 .. Len(attempts)
  BY DEF TypeOK
<1>2. LastLive(commit) = IF Lives(commit) = {} THEN 0
                         ELSE CHOOSE k \in Lives(commit) : \A j \in Lives(commit) : j <= k
  BY DEF LastLive, Lives
<1>3. Lives(commit) \subseteq 1 .. Len(attempts)
  BY <1>1 DEF Lives
<1> HIDE DEF Lives
<1>4. CASE Lives(commit) = {}
  BY <1>1, <1>2, <1>4
<1>5. CASE Lives(commit) # {}
  <2>1. \E k \in Lives(commit) : \A j \in Lives(commit) : j <= k
    BY <1>1, <1>3, <1>5, LastOfSome
  <2>2. /\ LastLive(commit) \in Lives(commit)
        /\ \A j \in Lives(commit) : j <= LastLive(commit)
    BY <1>2, <1>5, <2>1
  <2>3. \A j \in Lives(commit) : j \in Nat
    BY <1>3
  <2> QED
    BY <1>1, <2>2, <2>3
<1> QED
  BY <1>4, <1>5

\* The sets that are counted are finite.
Countable ==
    /\ IsFiniteSet(Tries) /\ Cardinality(Tries) \in Nat
    /\ IsFiniteSet(Downs) /\ Cardinality(Downs) \in Nat
    /\ IsFiniteSet(Holders) /\ Cardinality(Holders) <= Cardinality(Tabs)
    /\ IsFiniteSet(Publishers) /\ Cardinality(Publishers) <= Cardinality(Tabs)
    /\ Cardinality(Holders) \in Nat /\ Cardinality(Publishers) \in Nat
    /\ Cardinality(Tabs) \in Nat /\ Len(attempts) \in Nat /\ app.barred \in Nat

LEMMA Counts == TypeOK => Countable
<1> SUFFICES ASSUME TypeOK PROVE Countable
  OBVIOUS
<1>1. DOMAIN attempts = 1 .. Len(attempts) /\ Len(attempts) \in Nat /\ app.barred \in Nat
  BY DEF TypeOK, AppRecs
<1>2. IsFiniteSet(DOMAIN attempts)
  BY <1>1, FS_Interval
<1>3. Tries \subseteq DOMAIN attempts /\ Downs \subseteq DOMAIN attempts
  BY DEF Tries, Downs
<1>4. Holders \subseteq Tabs /\ Publishers \subseteq Tabs /\ IsFiniteSet(Tabs)
  BY AppStatusAssumption DEF Holders, Publishers
<1> QED
  BY <1>1, <1>2, <1>3, <1>4, FS_Subset, FS_CardinalityType DEF Countable

LEMMA CountsNext == TypeOK' => Countable'
  BY Counts, PTL

LEMMA InitBounds == Init => Bounds
<1> SUFFICES ASSUME Init PROVE Bounds
  OBVIOUS
<1>1. IInv
  BY InitIInv
<1>2. /\ Len(attempts) = 0 /\ DOMAIN attempts = {} /\ attempts = <<>>
      /\ app.status = "draft" /\ app.standing = FALSE
      /\ \A t \in Tabs : tab[t].pc = "idle"
  BY DEF Init, NewApp, NoTab
<1>3. Tries = {} /\ Downs = {} /\ Holders = {}
  BY <1>2 DEF Tries, Downs, Holders, Holds
<1>4. /\ Cardinality(Tries) = 0 /\ Cardinality(Downs) = 0 /\ Cardinality(Holders) = 0
      /\ Cardinality(Tabs) \in Nat
  BY <1>1, <1>3, FS_EmptySet, Counts DEF IInv, Countable
<1>5. TriesAreCounted
  BY <1>4, AppStatusAssumption DEF TriesAreCounted
<1> QED
  BY <1>2, <1>5 DEF Bounds, BarringHolds, Barred, LastRuns, QueueIsSomeones, TakedownCounts,
                    LastIsDown

----------------------------------------------------------------------------
\* Which steps leave the counts as they are, or lower.

\* Nothing is claimed and nobody else may publish.
LEMMA BarringKept ==
    ASSUME IInv, IInv', BarringHolds,
           \/ ~Barred'
           \/ /\ Barred /\ app'.barred = app.barred /\ Len(attempts') = Len(attempts)
              /\ Publishers' \subseteq Publishers
           \/ app'.barred = Len(attempts')
    PROVE  BarringHolds'
<1>1. /\ IsFiniteSet(Publishers) /\ Cardinality(Publishers) \in Nat
      /\ Cardinality(Tabs) \in Nat /\ Len(attempts) \in Nat /\ app.barred \in Nat
  BY Counts DEF IInv, Countable
<1>2. /\ Cardinality(Publishers') <= Cardinality(Tabs) /\ Cardinality(Publishers') \in Nat
      /\ Len(attempts') \in Nat /\ app'.barred \in Nat
  BY CountsNext DEF IInv, Countable
<1>3. CASE Publishers' \subseteq Publishers /\ Barred /\ app'.barred = app.barred
           /\ Len(attempts') = Len(attempts)
  <2>1. Cardinality(Publishers') <= Cardinality(Publishers)
    BY <1>1, <1>3, FS_Subset
  <2>2. Len(attempts) + Cardinality(Publishers) <= app.barred + Cardinality(Tabs)
    BY <1>3 DEF BarringHolds
  <2>3. Len(attempts') + Cardinality(Publishers') <= app'.barred + Cardinality(Tabs)
    BY <1>1, <1>2, <1>3, <2>1, <2>2
  <2> QED
    BY <2>3 DEF BarringHolds
<1>4. CASE app'.barred = Len(attempts')
  <2>1. Len(attempts') + Cardinality(Publishers') <= app'.barred + Cardinality(Tabs)
    BY <1>1, <1>2, <1>4
  <2> QED
    BY <2>1 DEF BarringHolds
<1> QED
  BY <1>3, <1>4 DEF BarringHolds

\* Nothing more is tried and nobody more is offered it.
LEMMA TriesKept ==
    ASSUME IInv, TriesAreCounted, TakedownCounts,
           Tries' \subseteq Tries, Holders' \subseteq Holders, Downs' = Downs,
           LastIsDown' => LastIsDown
    PROVE  TriesAreCounted' /\ TakedownCounts'
<1>1. /\ IsFiniteSet(Tries) /\ Cardinality(Tries) \in Nat
      /\ IsFiniteSet(Holders) /\ Cardinality(Holders) \in Nat
      /\ Cardinality(Downs) \in Nat /\ Cardinality(Tabs) \in Nat
  BY Counts DEF IInv, Countable
<1>2. /\ Cardinality(Tries') <= Cardinality(Tries) /\ Cardinality(Tries') \in Nat
      /\ Cardinality(Holders') <= Cardinality(Holders) /\ Cardinality(Holders') \in Nat
      /\ Cardinality(Downs') = Cardinality(Downs)
  BY <1>1, FS_Subset, FS_CardinalityType
<1> DEFINE all == Cardinality(Tabs) * (1 + Cardinality(Downs))
           some == Cardinality(Tabs) * Cardinality(Downs)
<1>3. all \in Nat /\ some \in Nat
  BY <1>1
<1> HIDE DEF all, some
<1>4. Cardinality(Tries') + Cardinality(Holders') < CopyTries + all
  <2>1. Cardinality(Tries) + Cardinality(Holders) < CopyTries + all
    BY DEF TriesAreCounted, all
  <2> QED
    BY <1>1, <1>2, <1>3, <2>1, AppStatusAssumption
<1>5. LastIsDown' => Cardinality(Tries') < CopyTries + some
  <2>1. LastIsDown => Cardinality(Tries) < CopyTries + some
    BY DEF TakedownCounts, some
  <2> QED
    BY <1>1, <1>2, <1>3, <2>1, AppStatusAssumption
<1> QED
  BY <1>2, <1>4, <1>5 DEF TriesAreCounted, TakedownCounts, all, some

\* The approval, the attempts and so what is counted of them stay as they are.
LEMMA SameTries ==
    ASSUME UNCHANGED attempts, app'.approvedCommit = app.approvedCommit, app'.since = app.since
    PROVE  Tries' = Tries /\ Downs' = Downs /\ LastIsDown' = LastIsDown /\ (LastRuns => LastRuns')
<1>1. Lives(app.approvedCommit)' = Lives(app.approvedCommit)
  BY DEF Lives
<1> QED
  BY <1>1 DEF Tries, Downs, LastIsDown, LastRuns

----------------------------------------------------------------------------
\* A request that moves on and claims nothing.
LEMMA TabBounds ==
    ASSUME IInv, IInv', Bounds, NEW t \in Tabs, NEW rec, TabTo(t, rec), UNCHANGED attempts,
           app'.approvedCommit = app.approvedCommit, app'.since = app.since,
           app'.standing = app.standing, app'.barred = app.barred,
           app'.status = "disabled" => app.status = "disabled",
           Barred /\ MayPublish(rec) => MayPublish(tab[t]),
           Holds(rec) => Holds(tab[t]),
           app'.status = "pending" =>
               \/ rec.pc \notin {"copy", "claimcopy"}
               \/ app.status = "pending" /\ tab[t].pc \in {"copy", "claimcopy"}
    PROVE  Bounds'
<1>1. /\ tab' = [tab EXCEPT ![t] = rec] /\ tab \in [Tabs -> TabRecs]
      /\ \A u \in Tabs : u # t => tab'[u] = tab[u]
      /\ tab'[t] = rec
  BY DEF TabTo, IInv, TypeOK
<1>2. Tries' = Tries /\ Downs' = Downs /\ LastIsDown' = LastIsDown /\ LastRuns'
  BY SameTries DEF Bounds
<1>3. Holders' \subseteq Holders
  <2>1. \A u \in Tabs : Holds(tab[u])' => Holds(tab[u])
    <3>1. Holds(tab[t])' = Holds(rec)
      BY <1>1 DEF Holds
    <3>2. \A u \in Tabs : u # t => Holds(tab[u])' = Holds(tab[u])
      BY <1>1 DEF Holds
    <3> QED
      BY <3>1, <3>2
  <2> QED
    BY <2>1 DEF Holders
<1>4. Barred => Publishers' \subseteq Publishers
  <2>1. \A u \in Tabs : Barred /\ MayPublish(tab'[u]) => MayPublish(tab[u])
    BY <1>1
  <2>2. Publishers' = {u \in Tabs : MayPublish(tab'[u])}
    BY DEF Publishers, MayPublish
  <2> QED
    BY <2>1, <2>2 DEF Publishers
<1>5. Barred' => Barred
  BY DEF Barred
<1>6. BarringHolds'
  <2>1. ~Barred' \/ (Barred /\ app'.barred = app.barred /\ Len(attempts') = Len(attempts)
                      /\ Publishers' \subseteq Publishers)
    BY <1>4, <1>5
  <2> QED
    BY <2>1, BarringKept DEF Bounds
<1>7. TriesAreCounted' /\ TakedownCounts'
  BY <1>2, <1>3, TriesKept DEF Bounds
<1>8. QueueIsSomeones'
  <2>1. CASE rec.pc \notin {"copy", "claimcopy"}
    BY <1>1, <2>1 DEF QueueIsSomeones
  <2>2. CASE app'.status = "pending" => app.status = "pending" /\ tab[t].pc \in {"copy", "claimcopy"}
    BY <1>1, <2>2 DEF QueueIsSomeones, Bounds
  <2> QED
    BY <2>1, <2>2
<1> QED
  BY <1>2, <1>6, <1>7, <1>8 DEF Bounds

\* A decision that changes neither the approval nor the attempts.
LEMMA AdminBounds ==
    ASSUME IInv, IInv', Bounds, UNCHANGED <<tab, attempts>>,
           app'.approvedCommit = app.approvedCommit, app'.since = app.since,
           \/ app'.barred = Len(attempts)
           \/ app'.barred = app.barred /\ (Barred' => Barred),
           app'.status = "pending" => app.status = "pending"
    PROVE  Bounds'
<1>1. Tries' = Tries /\ Downs' = Downs /\ LastIsDown' = LastIsDown /\ LastRuns'
  BY SameTries DEF Bounds
<1>2. Holders' = Holders /\ Publishers' = Publishers
  BY DEF Holders, Holds, Publishers, MayPublish
<1>3. BarringHolds'
  BY <1>2, BarringKept DEF Bounds
<1>4. TriesAreCounted' /\ TakedownCounts'
  BY <1>1, <1>2, TriesKept DEF Bounds
<1>5. QueueIsSomeones'
  BY DEF QueueIsSomeones, Bounds
<1> QED
  BY <1>1, <1>3, <1>4, <1>5 DEF Bounds

\* What is stored of the app stays as it is, whatever the attempts do.
LEMMA AttemptBounds ==
    ASSUME IInv, IInv', Bounds, UNCHANGED <<app, tab>>, Len(attempts') = Len(attempts), LastRuns',
           TriesAreCounted', TakedownCounts'
    PROVE  Bounds'
<1>1. Publishers' = Publishers /\ Barred' = Barred
  BY DEF Publishers, MayPublish, Barred
<1>2. BarringHolds'
  BY <1>1, BarringKept DEF Bounds
<1> QED
  BY <1>2 DEF QueueIsSomeones, Bounds

----------------------------------------------------------------------------
\* What the attempts do.

\* The running attempt names its commit or ends: it was counted while it ran.
LEMMA RunningBounds ==
    ASSUME IInv, IInv', Bounds, NEW i \in DOMAIN attempts, NEW rec, AttemptTo(i, rec),
           attempts[i].end = "running",
           rec.copy = attempts[i].copy, rec.down = attempts[i].down
    PROVE  Bounds'
<1>1. /\ attempts' = [attempts EXCEPT ![i] = rec] /\ UNCHANGED <<app, head, copies, tab, admin>>
      /\ attempts \in Seq(Attempts) /\ DOMAIN attempts' = DOMAIN attempts
      /\ Len(attempts') = Len(attempts) /\ attempts'[i] = rec
      /\ \A k \in DOMAIN attempts : k # i => attempts'[k] = attempts[k]
  BY DEF AttemptTo, IInv, TypeOK
<1>2. i = Len(attempts)
  BY DEF Bounds, LastRuns
<1>3. LastRuns'
  BY <1>1, <1>2 DEF Bounds, LastRuns
<1>4. Lives(app.approvedCommit) \subseteq Lives(app.approvedCommit)'
  BY <1>1 DEF Lives
<1>5. Tries' \subseteq Tries
  <2>1. i \notin Tries \/ i \in Tries
    OBVIOUS
  <2>2. \A k \in DOMAIN attempts : k # i /\ k \in Tries' => k \in Tries
    BY <1>1, <1>4 DEF Tries
  <2>3. i \in Tries' => i \in Tries
    BY <1>1, <1>4 DEF Tries
  <2>4. Tries' \subseteq DOMAIN attempts
    BY <1>1 DEF Tries
  <2> QED
    BY <2>2, <2>3, <2>4
<1>6. Downs' = Downs
  BY <1>1 DEF Downs
<1>7. LastIsDown' => LastIsDown
  BY <1>1, <1>2 DEF LastIsDown
<1>8. Holders' = Holders
  BY <1>1 DEF Holders, Holds
<1>9. TriesAreCounted' /\ TakedownCounts'
  BY <1>5, <1>6, <1>7, <1>8, TriesKept DEF Bounds
<1> QED
  BY <1>1, <1>3, <1>9, AttemptBounds

\* A takedown lets every request try once more.
LEMMA TakeDownBounds == ASSUME IInv, IInv', Bounds, TakeDown PROVE Bounds'
<1> DEFINE last == Len(attempts)
           rec == [attempts[last] EXCEPT !.down = TRUE]
<1>1. /\ attempts # <<>> /\ attempts[last].end # "running" /\ ~attempts[last].down
      /\ AttemptTo(last, rec) /\ attempts \in Seq(Attempts)
  BY DEF TakeDown, IInv, TypeOK
<1>2. last \in DOMAIN attempts /\ attempts[last] \in Attempts
  BY <1>1
<1>3. /\ rec.down = TRUE /\ rec.end = attempts[last].end /\ rec.copy = attempts[last].copy
      /\ rec.named = attempts[last].named /\ rec.ships = attempts[last].ships
  BY <1>2 DEF Attempts
<1> HIDE DEF rec
<1>4. /\ attempts' = [attempts EXCEPT ![last] = rec] /\ UNCHANGED <<app, head, copies, tab, admin>>
      /\ DOMAIN attempts' = DOMAIN attempts
      /\ Len(attempts') = last /\ attempts'[last] = rec
      /\ \A k \in DOMAIN attempts : k # last => attempts'[k] = attempts[k]
  BY <1>1, <1>2 DEF AttemptTo
<1>5. LastRuns'
  BY <1>3, <1>4 DEF Bounds, LastRuns
<1>6. \A k \in DOMAIN attempts :
        /\ attempts'[k].end = attempts[k].end /\ attempts'[k].ships = attempts[k].ships
        /\ attempts'[k].copy = attempts[k].copy /\ attempts'[k].named = attempts[k].named
  BY <1>3, <1>4
<1>7. Lives(app.approvedCommit)' = Lives(app.approvedCommit)
  BY <1>4, <1>6 DEF Lives
<1>8. Tries' = Tries /\ Holders' = Holders
  <2>1. Tries' = Tries
    BY <1>4, <1>6, <1>7 DEF Tries
  <2>2. Holders' = Holders
    BY <1>4 DEF Holders, Holds
  <2> QED
    BY <2>1, <2>2
<1>9. last \notin Downs /\ Downs' = IF last >= app.since THEN Downs \union {last} ELSE Downs
  BY <1>1, <1>2, <1>3, <1>4 DEF Downs
<1>10. /\ IsFiniteSet(Downs) /\ Cardinality(Downs) \in Nat /\ Cardinality(Tabs) \in Nat
       /\ Cardinality(Tries) \in Nat /\ Cardinality(Holders) \in Nat
  BY Counts DEF IInv, Countable
<1> DEFINE K == Cardinality(Tabs)
           d == Cardinality(Downs)
           c == Cardinality(Tries)
           h == Cardinality(Holders)
<1>11. c + h < CopyTries + K * (1 + d)
  BY DEF Bounds, TriesAreCounted
<1>12. K \in Nat /\ d \in Nat /\ c \in Nat /\ h \in Nat /\ CopyTries \in Nat /\ CopyTries > 0
  BY <1>10, AppStatusAssumption
<1> HIDE DEF K, d, c, h
<1>13. K * (1 + d) = K + K * d /\ K * d \in Nat /\ K * (1 + (d + 1)) = K + K + K * d
  BY <1>12
<1>14. CASE last >= app.since
  <2>1. Cardinality(Downs') = d + 1
    BY <1>9, <1>10, <1>14, FS_AddElement DEF d
  <2>2. c + h < CopyTries + K * (1 + (d + 1)) /\ c < CopyTries + K * (d + 1)
    BY <1>11, <1>12, <1>13
  <2>3. TriesAreCounted' /\ TakedownCounts'
    BY <1>8, <2>1, <2>2 DEF TriesAreCounted, TakedownCounts, K, c, h
  <2> QED
    BY <1>4, <1>5, <2>3, AttemptBounds
<1>15. CASE ~(last >= app.since)
  <2>1. Tries = {}
    <3>1. last \in Nat /\ DOMAIN attempts = 1 .. last /\ app.since \in Nat
      BY DEF IInv, TypeOK, AppRecs
    <3> QED
      BY <1>15, <3>1 DEF Tries
  <2>2. c = 0
    BY <2>1, FS_EmptySet DEF c
  <2>3. Cardinality(Downs') = d
    BY <1>9, <1>15 DEF d
  <2>4. c < CopyTries + K * d
    BY <1>12, <1>13, <2>2
  <2>5. TriesAreCounted' /\ TakedownCounts'
    BY <1>8, <1>11, <2>3, <2>4 DEF TriesAreCounted, TakedownCounts, K, c, h, d
  <2> QED
    BY <1>4, <1>5, <2>5, AttemptBounds
<1> QED
  BY <1>14, <1>15

\* What an attempt that is claimed adds to the counts.
LEMMA Appended ==
    ASSUME IInv, NEW commit \in Commits, NEW copy \in BOOLEAN, ~Busy,
           attempts' = Claimed(commit, copy)
    PROVE  /\ Len(attempts') = Len(attempts) + 1
           /\ DOMAIN attempts' = 1 .. Len(attempts) + 1
           /\ LastRuns' /\ ~LastIsDown'
           /\ \A i \in DOMAIN attempts : attempts'[i] = attempts[i]
           /\ attempts'[Len(attempts) + 1].copy = copy
           /\ attempts'[Len(attempts) + 1].end = "running"
           /\ attempts'[Len(attempts) + 1].down = FALSE
<1> DEFINE n == Len(attempts)
           new == [ships |-> commit, named |-> FALSE, copy |-> copy,
                   end |-> "running", down |-> FALSE]
<1>1. attempts \in Seq(Attempts) /\ n \in Nat /\ DOMAIN attempts = 1 .. n
  BY DEF IInv, TypeOK
<1>2. attempts' = Append(attempts, new)
  BY DEF Claimed
<1>3. new.copy = copy /\ new.end = "running" /\ new.down = FALSE
  OBVIOUS
<1> HIDE DEF new
<1>4. /\ Len(attempts') = n + 1 /\ DOMAIN attempts' = 1 .. n + 1
      /\ \A i \in 1 .. n : attempts'[i] = attempts[i]
      /\ attempts'[n + 1] = new
  BY <1>1, <1>2
<1>5. \A i \in 1 .. n : attempts[i].end # "running"
  BY <1>1 DEF Busy
<1>6. LastRuns'
  BY <1>1, <1>4, <1>5 DEF LastRuns
<1>7. ~LastIsDown'
  BY <1>3, <1>4 DEF LastIsDown
<1> QED
  BY <1>1, <1>3, <1>4, <1>6, <1>7

\* Of a claim that leaves the approval alone.
LEMMA ClaimAdds ==
    ASSUME IInv, NEW commit \in Commits, NEW copy \in BOOLEAN, ~Busy,
           attempts' = Claimed(commit, copy), UNCHANGED app
    PROVE  /\ Downs' = Downs
           /\ Tries' \subseteq Tries \union {Len(attempts) + 1}
           /\ ~copy => Tries' \subseteq Tries
<1> DEFINE n == Len(attempts)
<1>a. DOMAIN attempts = 1 .. n /\ n \in Nat
  BY DEF IInv, TypeOK
<1>b. /\ DOMAIN attempts' = 1 .. n + 1
      /\ \A i \in DOMAIN attempts : attempts'[i] = attempts[i]
      /\ attempts'[n + 1].copy = copy /\ attempts'[n + 1].end = "running"
      /\ attempts'[n + 1].down = FALSE
  BY Appended
<1>1. /\ DOMAIN attempts = 1 .. n /\ n \in Nat /\ DOMAIN attempts' = 1 .. n + 1
      /\ \A i \in 1 .. n : attempts'[i] = attempts[i]
      /\ attempts'[n + 1].copy = copy /\ attempts'[n + 1].end = "running"
      /\ attempts'[n + 1].down = FALSE
  BY <1>a, <1>b
<1>2. Downs' = Downs
  BY <1>1 DEF Downs
<1>3. Lives(app.approvedCommit)' = Lives(app.approvedCommit)
  BY <1>1 DEF Lives
<1>4. \A i \in 1 .. n : i \in Tries' => i \in Tries
  BY <1>1, <1>3 DEF Tries
<1>5. Tries' \subseteq 1 .. n + 1 /\ (~copy => n + 1 \notin Tries')
  BY <1>1 DEF Tries
<1> QED
  BY <1>1, <1>2, <1>4, <1>5

----------------------------------------------------------------------------
\* The owner's requests, and who may still publish after each.

LEMMA IdleHoldsNothing == ~MayPublish(NoTab) /\ ~Holds(NoTab) /\ NoTab.pc = "idle"
  BY DEF MayPublish, Holds, NoTab

\* A request is refused while the app is switched off; while a rejection stands it
\* goes by the gate, which does not publish it.
LEMMA AskBounds == ASSUME IInv, IInv', Bounds, NEW t \in Tabs, Ask(t) PROVE Bounds'
<1>1. PICK commit \in {head, app.approvedCommit} \ {0} :
        TabOnly(t, [NoTab EXCEPT !.asks = commit, !.standing = app.standing,
                      !.since = IF app.status = "approved" /\ commit = app.approvedCommit
                                THEN app.since ELSE 0,
                      !.pc = IF app.status = "approved" /\ commit = app.approvedCommit
                             THEN "copy" ELSE "head"])
  BY DEF Ask
<1> DEFINE copy == app.status = "approved" /\ commit = app.approvedCommit
           rec == [NoTab EXCEPT !.asks = commit, !.standing = app.standing,
                      !.since = IF copy THEN app.since ELSE 0,
                      !.pc = IF copy THEN "copy" ELSE "head"]
<1>2. /\ TabTo(t, rec) /\ UNCHANGED <<app, attempts>>
      /\ app.status \notin {"disabled", "pending"} /\ app.standing \in BOOLEAN
  BY <1>1 DEF TabOnly, Ask, IInv, TypeOK, AppRecs
<1>3. /\ rec.asks = commit /\ rec.standing = app.standing
      /\ copy => rec.pc = "copy" /\ rec.since = app.since
      /\ ~copy => rec.pc = "head"
  BY DEF NoTab
<1> HIDE DEF rec
<1>4. copy => ~app.standing
  BY DEF IInv, ApprovedMeansApproved
<1>5. Barred => ~MayPublish(rec)
  BY <1>2, <1>3, <1>4 DEF Barred, MayPublish
<1>6. ~Holds(rec)
  BY <1>3 DEF Holds
<1> QED
  BY <1>2, <1>5, <1>6, TabBounds

\* The approved copy is offered below the number of tries, to as many requests as
\* there are, or after a takedown.
LEMMA Offering ==
    ASSUME IInv, Bounds, Offered(app.approvedCommit, app.since),
           attempts = <<>> \/ attempts[Len(attempts)].end # "running"
    PROVE  Cardinality(Tries) < CopyTries + Cardinality(Tabs) * Cardinality(Downs)
<1> DEFINE c == app.approvedCommit
           last == attempts[Len(attempts)]
           room == Cardinality(Tabs) * Cardinality(Downs)
<1>1. /\ attempts \in Seq(Attempts) /\ Len(attempts) \in Nat
      /\ DOMAIN attempts = 1 .. Len(attempts) /\ app.since \in Nat
      /\ attempts = <<>> <=> Len(attempts) = 0
  BY DEF IInv, TypeOK, AppRecs
<1>2. /\ Cardinality(Tries) \in Nat /\ Cardinality(Tabs) \in Nat /\ Cardinality(Downs) \in Nat
      /\ IsFiniteSet(Tries)
  BY Counts DEF IInv, Countable
<1>3. room \in Nat /\ CopyTries \in Nat /\ CopyTries > 0
  BY <1>2, AppStatusAssumption
<1> HIDE DEF room
<1>4. CASE Len(attempts) < app.since
  <2>1. Tries = {}
    BY <1>1, <1>4 DEF Tries
  <2>2. Cardinality(Tries) < CopyTries + room
    BY <1>3, <2>1, FS_EmptySet
  <2> QED
    BY <2>2 DEF room
<1>5. CASE Len(attempts) >= app.since /\ attempts # <<>> /\ last.down
  BY <1>5 DEF Bounds, TakedownCounts, LastIsDown
<1>6. CASE Len(attempts) >= app.since /\ attempts # <<>> /\ ~last.down
  <2>1. last.end = "retry" /\ Cardinality(Counted(c, app.since)) < CopyTries
    BY <1>1, <1>6 DEF Offered, RetryOffered
  <2>2. Tries \subseteq Counted(c, app.since)
    <3> SUFFICES ASSUME NEW i \in Tries PROVE i \in Counted(c, app.since)
      OBVIOUS
    <3>1. /\ i \in DOMAIN attempts /\ i >= app.since /\ \A j \in Lives(c) : j <= i
          /\ attempts[i].end # "live"
          /\ attempts[i].end # "running" => (attempts[i].named => attempts[i].ships = c)
      BY DEF Tries
    <3>2. attempts[i].end # "running"
      BY <2>1, <3>1 DEF Bounds, LastRuns
    <3>3. attempts[i].end \in {"fault", "retry"}
      <4>1. attempts[i] \in Attempts
        BY <1>1, <3>1
      <4>2. attempts[i].end \in {"running", "live", "fault", "retry"}
        BY <4>1 DEF Attempts, Ends
      <4> QED
        BY <3>1, <3>2, <4>2
    <3>4. i >= LastLive(c)
      BY <3>1, CountedFrom DEF IInv
    <3> QED
      BY <3>1, <3>2, <3>3, <3>4 DEF Counted
  <2>3. IsFiniteSet(Counted(c, app.since))
    <3>1. Counted(c, app.since) \subseteq 1 .. Len(attempts)
      BY <1>1 DEF Counted
    <3>2. IsFiniteSet(1 .. Len(attempts))
      BY <1>1, FS_Interval
    <3> QED
      BY <3>1, <3>2, FS_Subset
  <2>4. Cardinality(Tries) <= Cardinality(Counted(c, app.since)) /\ Cardinality(Counted(c, app.since)) \in Nat
    BY <2>2, <2>3, FS_Subset, FS_CardinalityType
  <2>5. Cardinality(Tries) < CopyTries + room
    BY <1>2, <1>3, <2>1, <2>4
  <2> QED
    BY <2>5 DEF room
<1>7. CASE Len(attempts) >= app.since /\ attempts = <<>>
  <2>1. Tries = {}
    BY <1>1, <1>7 DEF Tries
  <2>2. Cardinality(Tries) < CopyTries + room
    BY <1>3, <2>1, FS_EmptySet
  <2> QED
    BY <2>2 DEF room
<1> QED
  BY <1>1, <1>4, <1>5, <1>6, <1>7

LEMMA AskCopyBounds == ASSUME IInv, IInv', Bounds, NEW t \in Tabs, AskCopy(t) PROVE Bounds'
<1>1. tab[t] \in TabRecs /\ tab[t].pc = "copy" /\ UNCHANGED <<app, attempts>>
  BY DEF IInv, TypeOK, AskCopy, TabOnly
<1>2. CASE TabOnly(t, NoTab)
  BY <1>2, TabBounds, IdleHoldsNothing DEF TabOnly
<1> DEFINE to(pc) == [tab[t] EXCEPT !.since = 0, !.pc = pc]
<1>3. CASE TabOnly(t, to("head"))
  <2>1. to("head").pc = "head"
    BY <1>1 DEF TabRecs
  <2>2. MayPublish(tab[t]) /\ ~Holds(to("head"))
    BY <1>1, <2>1 DEF MayPublish, Holds
  <2> QED
    BY <1>1, <1>3, <2>1, <2>2, TabBounds DEF TabOnly
<1>4. CASE /\ TabOnly(t, to("claimcopy")) /\ Offered(tab[t].asks, tab[t].since)
           /\ ~(attempts # <<>> /\ attempts[Len(attempts)].end = "running")
  <2> DEFINE rec == to("claimcopy")
  <2>1. rec.pc = "claimcopy" /\ TabTo(t, rec)
    BY <1>1, <1>4 DEF TabRecs, TabOnly
  <2> HIDE DEF rec
  <2>2. MayPublish(tab[t])
    BY <1>1 DEF MayPublish
  <2>3. CASE Holds(tab[t])
    BY <1>1, <2>1, <2>2, <2>3, TabBounds
  <2>4. CASE ~Holds(tab[t])
    <3>1. tab[t].asks = app.approvedCommit /\ tab[t].since = app.since
      BY <1>1, <2>4 DEF Holds
    <3>2. Cardinality(Tries) < CopyTries + Cardinality(Tabs) * Cardinality(Downs)
      BY <1>4, <3>1, Offering
    <3>3. Tries' = Tries /\ Downs' = Downs /\ LastIsDown' = LastIsDown /\ LastRuns'
      BY <1>1, SameTries DEF Bounds
    <3>4. /\ Cardinality(Holders') \in Nat /\ Cardinality(Holders') <= Cardinality(Tabs)
          /\ Cardinality(Tries) \in Nat /\ Cardinality(Downs) \in Nat
          /\ Cardinality(Tabs) \in Nat
      BY Counts, CountsNext DEF IInv, Countable
    <3>5. TriesAreCounted' /\ TakedownCounts'
      <4> DEFINE K == Cardinality(Tabs)
                 d == Cardinality(Downs)
      <4>1. K * (1 + d) = K + K * d /\ K * d \in Nat
        BY <3>4
      <4> HIDE DEF d
      <4>2. Cardinality(Tries) + Cardinality(Holders') < CopyTries + K * (1 + d)
        BY <3>2, <3>4, <4>1, AppStatusAssumption DEF d
      <4> QED
        BY <3>2, <3>3, <4>2 DEF TriesAreCounted, TakedownCounts, d
    <3>6. /\ tab' = [tab EXCEPT ![t] = rec] /\ tab \in [Tabs -> TabRecs]
      BY <2>1 DEF TabTo, IInv, TypeOK
    <3>7. BarringHolds'
      <4>1. \A u \in Tabs : MayPublish(tab'[u]) => MayPublish(tab[u])
        BY <2>2, <3>6
      <4>2. Publishers' = {u \in Tabs : MayPublish(tab'[u])} /\ Barred' = Barred
        BY <1>1 DEF Publishers, MayPublish, Barred
      <4>3. Publishers' \subseteq Publishers
        BY <4>1, <4>2 DEF Publishers
      <4> QED
        BY <1>1, <4>2, <4>3, BarringKept DEF Bounds
    <3>8. QueueIsSomeones'
      BY <1>1, <3>6 DEF QueueIsSomeones, Bounds
    <3> QED
      BY <3>3, <3>5, <3>7, <3>8 DEF Bounds
  <2> QED
    BY <2>3, <2>4
<1> QED
  BY <1>2, <1>3, <1>4 DEF AskCopy

\* The steps of a request that claim nothing.
LEMMA TabStepBounds ==
    ASSUME IInv, IInv', Bounds, NEW t \in Tabs,
           \/ AskHead(t) \/ Decide(t) \/ Submit(t) \/ Route(t) \/ Record(t)
           \/ AskWithdraw(t) \/ Withdraw(t)
    PROVE  Bounds'
<1>1. app \in AppRecs /\ tab[t] \in TabRecs
  BY DEF IInv, TypeOK
<1>2. ASSUME TabTo(t, NoTab), UNCHANGED <<app, attempts>> PROVE Bounds'
  BY <1>2, TabBounds, IdleHoldsNothing
<1>3. ASSUME AskHead(t) PROVE Bounds'
  <2>1. CASE TabOnly(t, NoTab)
    BY <1>2, <2>1 DEF TabOnly
  <2>2. CASE TabPc(t, "decide") /\ tab[t].pc = "head"
    <3> DEFINE rec == [tab[t] EXCEPT !.pc = "decide"]
    <3>1. rec.pc = "decide" /\ rec.standing = tab[t].standing
      BY <1>1 DEF TabRecs
    <3>2. TabTo(t, rec) /\ UNCHANGED <<app, attempts>>
      BY <2>2 DEF TabPc, TabOnly
    <3> HIDE DEF rec
    <3>3. ~Holds(rec) /\ (MayPublish(rec) => MayPublish(tab[t]))
      BY <2>2, <3>1 DEF Holds, MayPublish
    <3> QED
      BY <3>1, <3>2, <3>3, TabBounds
  <2> QED
    BY <1>3, <2>1, <2>2 DEF AskHead
<1>4. ASSUME Decide(t) PROVE Bounds'
  <2>1. CASE TabOnly(t, NoTab)
    BY <1>2, <2>1 DEF TabOnly
  <2>2. CASE ~tab[t].standing /\ TabPc(t, "claim") /\ tab[t].pc = "decide"
    <3> DEFINE rec == [tab[t] EXCEPT !.pc = "claim"]
    <3>1. rec.pc = "claim"
      BY <1>1 DEF TabRecs
    <3>2. TabTo(t, rec) /\ UNCHANGED <<app, attempts>>
      BY <2>2 DEF TabPc, TabOnly
    <3> HIDE DEF rec
    <3>3. ~Holds(rec) /\ MayPublish(tab[t])
      BY <2>2, <3>1 DEF Holds, MayPublish
    <3> QED
      BY <3>1, <3>2, <3>3, TabBounds
  <2>3. CASE TabOnly(t, [tab[t] EXCEPT !.pc = "submit", !.standing = FALSE])
    <3> DEFINE rec == [tab[t] EXCEPT !.pc = "submit", !.standing = FALSE]
    <3>1. rec.pc = "submit"
      BY <1>1 DEF TabRecs
    <3>2. TabTo(t, rec) /\ UNCHANGED <<app, attempts>>
      BY <2>3 DEF TabOnly
    <3> HIDE DEF rec
    <3>3. ~Holds(rec) /\ ~MayPublish(rec)
      BY <3>1 DEF Holds, MayPublish
    <3> QED
      BY <3>1, <3>2, <3>3, TabBounds
  <2> QED
    BY <1>4, <2>1, <2>2, <2>3 DEF Decide
<1>5. ASSUME Submit(t) PROVE Bounds'
  <2>1. CASE TabOnly(t, NoTab)
    BY <1>2, <2>1 DEF TabOnly
  <2>2. CASE /\ TabTo(t, [tab[t] EXCEPT !.pc = "route", !.sub = Len(copies) + 1])
             /\ UNCHANGED <<app, attempts>>
    <3> DEFINE rec == [tab[t] EXCEPT !.pc = "route", !.sub = Len(copies) + 1]
    <3>1. rec.pc = "route"
      BY <1>1 DEF TabRecs
    <3>2. TabTo(t, rec) /\ UNCHANGED <<app, attempts>>
      BY <2>2
    <3> HIDE DEF rec
    <3>3. ~Holds(rec) /\ ~MayPublish(rec)
      BY <3>1 DEF Holds, MayPublish
    <3> QED
      BY <3>1, <3>2, <3>3, TabBounds
  <2> QED
    BY <1>5, <2>1, <2>2 DEF Submit
<1>6. ASSUME TabTo(t, NoTab), UNCHANGED attempts,
             app'.approvedCommit = app.approvedCommit, app'.since = app.since,
             app'.standing = app.standing, app'.barred = app.barred,
             app'.status = "disabled" => app.status = "disabled"
      PROVE  Bounds'
  BY <1>6, TabBounds, IdleHoldsNothing
<1>7. ASSUME Route(t) PROVE Bounds'
  BY <1>1, <1>6, <1>7 DEF Route, AppRecs
<1>8. ASSUME Record(t) PROVE Bounds'
  BY <1>1, <1>6, <1>8 DEF Record, AppRecs
<1>9. ASSUME Withdraw(t) PROVE Bounds'
  BY <1>1, <1>6, <1>9 DEF Withdraw, AppRecs
<1>10. ASSUME AskWithdraw(t) PROVE Bounds'
  <2> DEFINE rec == [NoTab EXCEPT !.pc = "withdraw"]
  <2>1. rec.pc = "withdraw"
    BY DEF NoTab
  <2>2. TabTo(t, rec) /\ UNCHANGED <<app, attempts>>
    BY <1>10 DEF AskWithdraw, TabOnly
  <2> HIDE DEF rec
  <2>3. ~Holds(rec) /\ ~MayPublish(rec)
    BY <2>1 DEF Holds, MayPublish
  <2> QED
    BY <2>1, <2>2, <2>3, TabBounds
<1> QED
  BY <1>3, <1>4, <1>5, <1>7, <1>8, <1>9, <1>10

\* A claim is one of those that may: it adds an attempt and may no more.
LEMMA ClaimBounds ==
    ASSUME IInv, IInv', Bounds, NEW t \in Tabs, Claim(t) \/ ClaimCopy(t) PROVE Bounds'
<1>1. CASE TabOnly(t, NoTab)
  BY <1>1, TabBounds, IdleHoldsNothing DEF TabOnly
<1>2. ASSUME NEW copy \in BOOLEAN, NEW rec, ~Busy, attempts' = Claimed(tab[t].asks, copy),
             TabTo(t, rec), UNCHANGED app, rec.pc \in {"idle", "record"},
             tab[t].pc = IF copy THEN "claimcopy" ELSE "claim"
      PROVE  Bounds'
  <2>1. /\ tab[t].asks \in Commits /\ tab \in [Tabs -> TabRecs]
        /\ tab' = [tab EXCEPT ![t] = rec]
    BY <1>2 DEF IInv, TypeOK, TabRecs, AsksForASave, TabTo
  <2>2. /\ Len(attempts') = Len(attempts) + 1 /\ LastRuns' /\ ~LastIsDown'
    BY <1>2, <2>1, Appended
  <2>3. /\ Downs' = Downs /\ Tries' \subseteq Tries \union {Len(attempts) + 1}
        /\ ~copy => Tries' \subseteq Tries
    BY <1>2, <2>1, ClaimAdds
  <2>4. ~MayPublish(rec) /\ ~Holds(rec) /\ MayPublish(tab[t]) /\ (copy => Holds(tab[t]))
    BY <1>2 DEF MayPublish, Holds
  <2>5. Publishers' = Publishers \ {t} /\ t \in Publishers
    <3>1. Publishers' = {u \in Tabs : MayPublish(tab'[u])}
      BY DEF Publishers, MayPublish
    <3>2. tab'[t] = rec /\ \A u \in Tabs : u # t => tab'[u] = tab[u]
      BY <2>1
    <3> QED
      BY <2>4, <3>1, <3>2 DEF Publishers
  <2>6. Holders' \subseteq Holders \ {t} /\ (copy => t \in Holders)
    <3>1. Holders' = {u \in Tabs : Holds(tab'[u])}
      BY <1>2 DEF Holders, Holds
    <3>2. tab'[t] = rec /\ \A u \in Tabs : u # t => tab'[u] = tab[u]
      BY <2>1
    <3> QED
      BY <2>4, <3>1, <3>2 DEF Holders
  <2>7. Countable /\ Countable'
    BY Counts, CountsNext DEF IInv
  <2>8. BarringHolds'
    <3>1. Cardinality(Publishers') = Cardinality(Publishers) - 1
      BY <2>5, <2>7, FS_RemoveElement DEF Countable
    <3>2. Barred' = Barred /\ app'.barred = app.barred
      BY <1>2 DEF Barred
    <3>3. Barred => Len(attempts) + Cardinality(Publishers) <= app.barred + Cardinality(Tabs)
      BY DEF Bounds, BarringHolds
    <3>4. Barred => Len(attempts') + Cardinality(Publishers') <= app'.barred + Cardinality(Tabs)
      BY <2>2, <2>7, <3>1, <3>2, <3>3 DEF Countable
    <3> QED
      BY <3>2, <3>4 DEF BarringHolds
  <2>9. QueueIsSomeones'
    BY <1>2, <2>1 DEF QueueIsSomeones, Bounds
  <2>10. TriesAreCounted'
    <3> DEFINE all == CopyTries + Cardinality(Tabs) * (1 + Cardinality(Downs))
    <3>1. Cardinality(Tries) + Cardinality(Holders) < all
      BY DEF Bounds, TriesAreCounted
    <3>2. CASE ~copy
      <4>1. Holders' \subseteq Holders /\ Tries' \subseteq Tries
        BY <2>3, <2>6, <3>2
      <4> QED
        BY <2>2, <2>3, <4>1, TriesKept DEF Bounds
    <3>3. CASE copy
      <4>1. Cardinality(Holders') <= Cardinality(Holders) - 1
        <5>1. /\ IsFiniteSet(Holders \ {t})
              /\ Cardinality(Holders \ {t}) = Cardinality(Holders) - 1
          BY <2>6, <2>7, <3>3, FS_RemoveElement DEF Countable
        <5> QED
          BY <2>6, <5>1, FS_Subset
      <4>2. Cardinality(Tries') <= Cardinality(Tries) + 1
        <5>1. /\ IsFiniteSet(Tries \union {Len(attempts) + 1})
              /\ Cardinality(Tries \union {Len(attempts) + 1}) \in {Cardinality(Tries), Cardinality(Tries) + 1}
          BY <2>7, FS_AddElement DEF Countable
        <5>2. Cardinality(Tries') <= Cardinality(Tries \union {Len(attempts) + 1})
          BY <2>3, <5>1, FS_Subset
        <5> QED
          BY <2>7, <5>1, <5>2 DEF Countable
      <4>3. all \in Int
        BY <2>7, AppStatusAssumption DEF Countable
      <4> HIDE DEF all
      <4>4. Cardinality(Tries') + Cardinality(Holders') < all
        BY <2>7, <3>1, <4>1, <4>2, <4>3 DEF Countable
      <4> QED
        BY <2>3, <4>4 DEF TriesAreCounted, all
    <3> QED
      BY <1>2, <3>2, <3>3
  <2> QED
    BY <2>2, <2>8, <2>9, <2>10 DEF Bounds, TakedownCounts
<1>3. tab[t] \in TabRecs
  BY DEF IInv, TypeOK
<1>4. CASE Claim(t) /\ ~TabOnly(t, NoTab)
  <2>1. /\ ~Busy /\ attempts' = Claimed(tab[t].asks, FALSE) /\ UNCHANGED app
        /\ TabTo(t, [tab[t] EXCEPT !.pc = "record"]) /\ tab[t].pc = "claim"
    BY <1>4 DEF Claim
  <2>2. [tab[t] EXCEPT !.pc = "record"].pc = "record"
    BY <1>3 DEF TabRecs
  <2> QED
    BY <1>2, <2>1, <2>2
<1>5. CASE ClaimCopy(t) /\ ~TabOnly(t, NoTab)
  <2>1. /\ ~Busy /\ attempts' = Claimed(tab[t].asks, TRUE) /\ UNCHANGED app
        /\ TabTo(t, NoTab) /\ tab[t].pc = "claimcopy"
    BY <1>5 DEF ClaimCopy
  <2> QED
    BY <1>2, <2>1, IdleHoldsNothing
<1> QED
  BY <1>1, <1>4, <1>5

----------------------------------------------------------------------------
\* The administrators, and the rest.

\* An approval starts the count anew: whoever sent what it approves holds no offer.
LEMMA ApproveBounds == ASSUME IInv, IInv', Bounds, NEW a \in Admins, Approve(a) PROVE Bounds'
<1>1. UNCHANGED tab
  BY DEF Approve, AdminTo
<1>2. CASE UNCHANGED <<app, attempts>>
  BY <1>1, <1>2, AdminBounds DEF Barred
<1>3. admin[a].reviewed = app.source => admin[a].commit = app.sourceCommit
  BY DEF Approve, IInv, ReadAsOne
<1>4. CASE /\ app.status = "pending" /\ app.source = admin[a].reviewed
           /\ app' = Approved(a)
           /\ attempts' \in Starts(admin[a].commit)
  <2> DEFINE n == Len(attempts)
  <2>1. app \in AppRecs /\ n \in Nat /\ DOMAIN attempts = 1 .. n
    BY DEF IInv, TypeOK
  <2>2. /\ app'.status = "approved" /\ app'.standing = FALSE /\ app'.since = n + 1
    BY <1>4, <2>1 DEF Approved, AppRecs
  <2>3. ~Barred' /\ app'.status # "pending"
    BY <2>2 DEF Barred
  <2>4. LastRuns' /\ Tries' \subseteq {n + 1} /\ Downs' = {} /\ (LastIsDown' => Tries' = {})
    <3>1. CASE attempts' = attempts
      <4>1. Tries' = {} /\ Downs' = {}
        BY <2>1, <2>2, <3>1 DEF Tries, Downs
      <4> QED
        BY <3>1, <4>1 DEF Bounds, LastRuns
    <3>2. CASE ~Busy /\ attempts' = Claimed(admin[a].commit, TRUE)
      <4>1. admin[a].commit \in Commits
        <5>1. admin[a].commit = app.sourceCommit /\ app.status = "pending"
          BY <1>3, <1>4
        <5>2. copies[app.source] = app.sourceCommit /\ app.source \in DOMAIN copies
          BY <5>1 DEF IInv, QueueHoldsItsCopy
        <5>3. copies \in Seq(Commits)
          BY DEF IInv, TypeOK
        <5> QED
          BY <5>1, <5>2, <5>3
      <4>2. /\ LastRuns' /\ ~LastIsDown' /\ DOMAIN attempts' = 1 .. n + 1
            /\ attempts'[n + 1].down = FALSE
        BY <3>2, <4>1, Appended
      <4>3. Tries' \subseteq {n + 1} /\ Downs' = {}
        BY <2>1, <2>2, <4>2 DEF Tries, Downs
      <4> QED
        BY <4>2, <4>3
    <3> QED
      BY <1>4, <3>1, <3>2 DEF Starts
  <2>5. Countable'
    BY CountsNext DEF IInv
  <2>6. PICK u \in Tabs : tab[u].pc \notin {"copy", "claimcopy"}
    BY <1>4 DEF Bounds, QueueIsSomeones
  <2>7. Holders' \subseteq Tabs \ {u}
    BY <1>1, <2>6 DEF Holders, Holds
  <2>8. Cardinality(Holders') <= Cardinality(Tabs) - 1
    <3>1. IsFiniteSet(Tabs \ {u}) /\ Cardinality(Tabs \ {u}) = Cardinality(Tabs) - 1
      BY AppStatusAssumption, FS_RemoveElement
    <3> QED
      BY <2>7, <3>1, FS_Subset
  <2>9. Cardinality(Tries') <= 1 /\ (LastIsDown' => Cardinality(Tries') = 0)
    <3>1. IsFiniteSet({n + 1}) /\ Cardinality({n + 1}) = 1
      BY FS_Singleton
    <3>2. Cardinality(Tries') <= 1
      BY <2>4, <3>1, FS_Subset
    <3> QED
      BY <2>4, <3>2, FS_EmptySet
  <2>10. Cardinality(Downs') = 0
    BY <2>4, FS_EmptySet
  <2>11. TriesAreCounted' /\ TakedownCounts'
    <3> DEFINE K == Cardinality(Tabs)
    <3>1. K \in Nat
      BY <2>5 DEF Countable
    <3>2. K * (1 + 0) = K /\ K * 0 = 0
      BY <3>1
    <3>3. CopyTries \in Nat /\ CopyTries > 0
      BY AppStatusAssumption
    <3>4. Cardinality(Tries') \in Nat /\ Cardinality(Holders') \in Nat
      BY <2>5 DEF Countable
    <3>5. Cardinality(Tries') + Cardinality(Holders') < CopyTries + K * (1 + 0)
      BY <2>8, <2>9, <3>1, <3>2, <3>3, <3>4
    <3>6. LastIsDown' => Cardinality(Tries') < CopyTries + K * 0
      BY <2>9, <3>2, <3>3
    <3> QED
      BY <2>10, <3>5, <3>6 DEF TriesAreCounted, TakedownCounts
  <2>12. BarringHolds' /\ QueueIsSomeones'
    BY <2>3 DEF BarringHolds, QueueIsSomeones
  <2> QED
    BY <2>4, <2>11, <2>12 DEF Bounds
<1> QED
  BY <1>2, <1>4 DEF Approve

LEMMA AdminStepBounds ==
    ASSUME IInv, IInv', Bounds, NEW a \in Admins, AdminStep(a) PROVE Bounds'
<1>1. app \in AppRecs /\ Len(attempts) \in Nat
  BY DEF IInv, TypeOK
<1>2. ASSUME UNCHANGED <<tab, attempts, app>> PROVE Bounds'
  BY <1>2, AdminBounds DEF Barred
<1>3. ASSUME Review(a) \/ Click(a) \/ AskSwitch(a) \/ GiveUp(a) PROVE Bounds'
  BY <1>2, <1>3 DEF Review, Click, AskSwitch, GiveUp, AdminTo
<1>4. ASSUME Reject(a) PROVE Bounds'
  <2>1. UNCHANGED <<tab, attempts>>
    BY <1>4 DEF Reject, AdminTo
  <2>2. CASE app' = [app EXCEPT !.status = "rejected", !.standing = TRUE,
                                !.barred = Len(attempts)]
    BY <1>1, <2>1, <2>2, AdminBounds DEF AppRecs
  <2> QED
    BY <1>2, <1>4, <2>1, <2>2 DEF Reject
<1>5. ASSUME Disable(a) PROVE Bounds'
  <2>1. UNCHANGED <<tab, attempts>>
    BY <1>5 DEF Disable, AdminTo
  <2>2. CASE app' = [app EXCEPT !.status = "disabled", !.previous = app.status,
                                !.barred = Len(attempts)]
    BY <1>1, <2>1, <2>2, AdminBounds DEF AppRecs
  <2> QED
    BY <1>2, <1>5, <2>1, <2>2 DEF Disable
<1>6. ASSUME Enable(a) PROVE Bounds'
  <2>1. UNCHANGED <<tab, attempts>>
    BY <1>6 DEF Enable, AdminTo
  <2>2. CASE /\ app.status = "disabled"
             /\ app' = [app EXCEPT !.status = app.previous, !.previous = "none"]
    <3>1. /\ app'.approvedCommit = app.approvedCommit /\ app'.since = app.since
          /\ app'.barred = app.barred /\ app'.status = app.previous
      BY <1>1, <2>2 DEF AppRecs
    <3>2. app.previous \in {"draft", "approved", "rejected"} /\ Barred
      BY <2>2 DEF IInv, OffFrom, Barred
    <3> QED
      BY <2>1, <3>1, <3>2, AdminBounds
  <2> QED
    BY <1>2, <1>6, <2>1, <2>2 DEF Enable
<1> QED
  BY <1>3, <1>4, <1>5, <1>6, ApproveBounds DEF AdminStep

LEMMA NextBounds == IInv /\ IInv' /\ Bounds /\ [Next]_vars => Bounds'
<1> SUFFICES ASSUME IInv, IInv', Bounds, [Next]_vars PROVE Bounds'
  OBVIOUS
<1>1. ASSUME NEW t \in Tabs, TabStep(t) PROVE Bounds'
  BY <1>1, AskBounds, AskCopyBounds, TabStepBounds, ClaimBounds DEF TabStep
<1>2. ASSUME NEW a \in Admins, AdminStep(a) PROVE Bounds'
  BY <1>2, AdminStepBounds
<1>3. CASE TakeDown
  BY <1>3, TakeDownBounds
<1>4. ASSUME UNCHANGED <<tab, attempts, app>> PROVE Bounds'
  BY <1>4, AdminBounds DEF Barred
<1>5. CASE Save \/ UNCHANGED vars
  BY <1>4, <1>5 DEF Save, vars
<1>6. ASSUME NEW i \in DOMAIN attempts, Name(i) \/ Settle(i) PROVE Bounds'
  <2>1. attempts[i] \in Attempts /\ attempts[i].end = "running"
    BY <1>6 DEF IInv, TypeOK, Name, Settle
  <2>2. CASE Name(i)
    <3>1. /\ [attempts[i] EXCEPT !.named = TRUE].copy = attempts[i].copy
          /\ [attempts[i] EXCEPT !.named = TRUE].down = attempts[i].down
      BY <2>1 DEF Attempts
    <3> QED
      BY <2>1, <2>2, <3>1, RunningBounds DEF Name
  <2>3. CASE Settle(i)
    <3>1. \A end \in {"live", "fault", "retry"} :
            /\ [attempts[i] EXCEPT !.end = end].copy = attempts[i].copy
            /\ [attempts[i] EXCEPT !.end = end].down = attempts[i].down
      BY <2>1 DEF Attempts
    <3> QED
      BY <2>1, <2>3, <3>1, RunningBounds DEF Settle
  <2> QED
    BY <1>6, <2>2, <2>3
<1> QED
  BY <1>1, <1>2, <1>3, <1>5, <1>6 DEF Next

LEMMA InvariantBounds == Spec => []Bounds
<1>1. Init => Bounds
  BY InitBounds
<1>2. IInv /\ IInv' /\ Bounds /\ [Next]_vars => Bounds'
  BY NextBounds
<1> QED
  BY <1>1, <1>2, Invariant, PTL DEF Spec

----------------------------------------------------------------------------
\* How often.

\* A switched-off app, or one whose rejection stands, is published once at most by
\* each request that had read it before.
THEOREM BarringStands == Spec => []BarredStaysBarred
<1>1. IInv /\ Bounds => BarredStaysBarred
  <2> SUFFICES ASSUME IInv, Bounds, Barred
               PROVE  Len(attempts) <= app.barred + Cardinality(Tabs)
    BY DEF BarredStaysBarred, Barred
  <2> QED
    BY Counts DEF IInv, Countable, Bounds, BarringHolds
<1> QED
  BY <1>1, Invariant, InvariantBounds, PTL

\* Whatever the requests, the failures and the takedowns, the approved copy fails
\* no more often since its approval, or since it last went live, than the allowed
\* tries and once for each request, and as often again after each takedown.
THEOREM TheCopyIsGivenUp == Spec => []CopyIsNotTriedForEver
<1>1. IInv /\ Bounds => CopyIsNotTriedForEver
  <2> SUFFICES ASSUME IInv, Bounds PROVE CopyIsNotTriedForEver
    OBVIOUS
  <2> DEFINE failed == {i \in Counted(app.approvedCommit, app.since) : attempts[i].copy}
             all == CopyTries + Cardinality(Tabs) * (1 + Cardinality(Downs))
  <2>1. failed \subseteq Tries
    <3> SUFFICES ASSUME NEW i \in failed PROVE i \in Tries
      OBVIOUS
    <3>1. /\ i \in DOMAIN attempts /\ i >= app.since /\ i >= LastLive(app.approvedCommit)
          /\ attempts[i].end \in {"fault", "retry"} /\ attempts[i].copy
          /\ attempts[i].named => attempts[i].ships = app.approvedCommit
      BY DEF Counted
    <3>2. \A j \in Lives(app.approvedCommit) : j <= i
      BY <3>1, CountedFrom DEF IInv
    <3> QED
      BY <3>1, <3>2 DEF Tries
  <2>2. Countable
    BY Counts DEF IInv
  <2>3. Cardinality(failed) <= Cardinality(Tries) /\ Cardinality(failed) \in Nat
    BY <2>1, <2>2, FS_Subset, FS_CardinalityType DEF Countable
  <2>4. Cardinality(Tries) + Cardinality(Holders) < all
    BY DEF Bounds, TriesAreCounted
  <2>5. all \in Int
    BY <2>2, AppStatusAssumption DEF Countable
  <2> HIDE DEF all, failed
  <2>6. Cardinality(failed) < all
    BY <2>2, <2>3, <2>4, <2>5 DEF Countable
  <2> QED
    BY <2>6 DEF CopyIsNotTriedForEver, all, failed
<1> QED
  BY <1>1, Invariant, InvariantBounds, PTL
=============================================================================
