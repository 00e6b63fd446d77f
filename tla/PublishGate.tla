----------------------------- MODULE PublishGate -----------------------------
(***************************************************************************)
(* The classification review of an app's saved version and the publish     *)
(* gate that reads it: the one review row of an app                        *)
(* (classification/store.py), the start verb and the detached runs that    *)
(* settle it (classification/service.py), the administrators' live         *)
(* configuration, and the decision of a send (deploy/gate.py and rule 4    *)
(* onwards of deploy_project).                                             *)
(*                                                                         *)
(* A statement of the store and its commit are one step.  Saved commits    *)
(* are numbered in order.  A class definition is a member of Definitions;  *)
(* two of them with the same fp read the same to the reviewer and differ   *)
(* in kind or weight only.                                                 *)
(***************************************************************************)
EXTENDS Integers, Sequences, FiniteSets, FiniteSetsExt

CONSTANTS
    Opens,       \* publish dialogs asking for a review at once
    Sends,       \* publish requests under way at once
    Configs,     \* [policy, defn]: what the administrators' edits lead through;
                 \* policy [threshold, owners], defn [fp, hard, weight]
    Seeded,      \* the configuration the schema is seeded with
    Cap,         \* MAX_MODEL_RUNS_PER_VERSION
    MaxSaves,    \* saves in a behaviour
    MaxRuns,     \* claims in a behaviour
    MaxEdits     \* edits of the configuration in a behaviour

ASSUME PublishGateAssumption ==
    /\ IsFiniteSet(Opens)
    /\ Seeded \in Configs
    \* A class is a hard block or it is scored; its words, which the fp is of, name it.
    /\ \A config \in Configs : config.defn.hard \intersect DOMAIN config.defn.weight = {}
    /\ \A c, d \in Configs :
         c.defn.fp = d.defn.fp =>
             c.defn.hard \union DOMAIN c.defn.weight = d.defn.hard \union DOMAIN d.defn.weight
    /\ Cap \in Nat \ {0}
    /\ {MaxSaves, MaxRuns, MaxEdits} \subseteq Nat

VARIABLES
    head,  \* the commit the saved bundle is stamped with, 0 before the first save
    live,  \* the configuration in force
    edits, \* edits made so far
    row,   \* the app's row of classification_reviews
    runs,  \* every claim won, with the run detached for it
    open,  \* the calls of start under way
    send   \* the publish requests under way

vars == <<head, live, edits, row, runs, open, send>>

----------------------------------------------------------------------------
\* Types and the initial state.

Policies == {config.policy : config \in Configs}
Definitions == {config.defn : config \in Configs}
Prints == {defn.fp : defn \in Definitions}
Keys(defn) == defn.hard \union DOMAIN defn.weight
KeysOf(fp) == Keys(CHOOSE defn \in Definitions : defn.fp = fp)
AllKeys == UNION {KeysOf(fp) : fp \in Prints}
Commits == 1 .. MaxSaves
Pairs == [commit : Commits, fp : Prints]
NoPair == [commit |-> 0, fp |-> "none"]

\* claim stands for started_at: which claim the row is counting from.
Rows == [pair : Pairs \union {NoPair}, status : {"none", "running", "complete", "failed"},
         attempt : Nat, answers : SUBSET AllKeys, claim : 0 .. MaxRuns]
NoRow == [pair |-> NoPair, status |-> "none", attempt |-> 0, answers |-> {}, claim |-> 0]

\* read is the commit the run extracted, answers the classes it found to apply.
Runs == [pair : Pairs, attempt : Nat, aged : BOOLEAN,
         pc : {"extract", "model", "answered", "failed", "over"},
         read : Commits \union {0}, answers : SUBSET AllKeys]
OpenRecs == [pc : {"idle", "row", "abandon", "reread", "claim"},
             pair : Pairs \union {NoPair}, attempt : Nat]
SendRecs == [pc : {"idle", "classes", "review", "publish"},
             commit : Commits \union {0}, policy : Policies, defn : Definitions,
             final : SUBSET AllKeys]

TypeOK ==
    /\ head \in Commits \union {0}
    /\ live \in Configs
    /\ edits \in 0 .. MaxEdits
    /\ row \in Rows
    /\ runs \in Seq(Runs) /\ Len(runs) <= MaxRuns
    /\ open \in [Opens -> OpenRecs]
    /\ send \in [Sends -> SendRecs]
    /\ row.status # "none" => row.pair \in Pairs /\ row.claim \in DOMAIN runs

NoOpen == [pc |-> "idle", pair |-> NoPair, attempt |-> 0]
NoSend == [pc |-> "idle", commit |-> 0, policy |-> Seeded.policy, defn |-> Seeded.defn,
           final |-> {}]

Init ==
    /\ head = 0 /\ edits = 0
    /\ live = Seeded
    /\ row = NoRow
    /\ runs = <<>>
    /\ open = [o \in Opens |-> NoOpen]
    /\ send = [s \in Sends |-> NoSend]

OpenTo(o, rec) ==
    /\ open' = [open EXCEPT ![o] = rec]
    /\ UNCHANGED <<head, live, edits, send>>
SendTo(s, rec) ==
    /\ send' = [send EXCEPT ![s] = rec]
    /\ UNCHANGED <<head, live, edits, row, runs, open>>
RunTo(i, rec) ==
    /\ runs' = [runs EXCEPT ![i] = rec]
    /\ UNCHANGED <<head, live, edits, open, send>>

----------------------------------------------------------------------------
\* The store.

IsFor(pair) == row.pair = pair

\* Past the wall-clock ceiling, which is measured from the claim.
AgedOut == row.status = "running" /\ runs[row.claim].aged

\* The terminal write, guarded to the claim's pair and attempt while it runs
\* (_finish).
FinishTwice(pair, attempt, status, answers) ==
    IF IsFor(pair) /\ row.attempt = attempt
    THEN row' = [row EXCEPT !.status = status, !.answers = answers]
    ELSE UNCHANGED row
Finish(pair, attempt, status, answers) ==
    IF row.status = "running" /\ IsFor(pair) /\ row.attempt = attempt
    THEN row' = [row EXCEPT !.status = status, !.answers = answers]
    ELSE UNCHANGED row

\* The claim: a row of another pair is replaced whatever its status, a failed one
\* of this pair is taken up again, and a running or complete one is left.
Claimable(pair) == ~IsFor(pair) \/ row.status = "failed"
ClaimedAs(pair) == IF IsFor(pair) THEN row.attempt + 1 ELSE 1

----------------------------------------------------------------------------
\* The start verb, opened by the publish dialog (ensure_review, then start).

\* The configuration and the stamp of the saved bundle are read one after the
\* other; saves and edits do not depend on each other, so one step reads both.
Open(o) ==
    /\ open[o].pc = "idle" /\ head # 0
    /\ OpenTo(o, [NoOpen EXCEPT !.pc = "row",
                     !.pair = [commit |-> head, fp |-> live.defn.fp]])
    /\ UNCHANGED <<row, runs>>

\* The cap: a failure that has used up its attempts is returned as it stands.
Spent(o) == IsFor(open[o].pair) /\ row.status = "failed" /\ row.attempt >= Cap
Passed(o) == IF Spent(o) THEN NoOpen ELSE [open[o] EXCEPT !.pc = "claim"]

\* The stored row is read: an aged-out run of this pair is settled as abandoned.
OpenRead(o) ==
    /\ open[o].pc = "row"
    /\ OpenTo(o, IF IsFor(open[o].pair) /\ AgedOut
                 THEN [open[o] EXCEPT !.pc = "abandon", !.attempt = row.attempt]
                 ELSE Passed(o))
    /\ UNCHANGED <<row, runs>>
Abandon(o) ==
    /\ open[o].pc = "abandon"
    /\ Finish(open[o].pair, open[o].attempt, "failed", {})
    /\ OpenTo(o, [open[o] EXCEPT !.pc = "reread", !.attempt = 0])
    /\ UNCHANGED runs
Reread(o) ==
    /\ open[o].pc = "reread"
    /\ OpenTo(o, Passed(o))
    /\ UNCHANGED <<row, runs>>

\* The claim that is won detaches a run against the classes that were read.
Claim(o) ==
    /\ open[o].pc = "claim"
    /\ LET pair == open[o].pair IN
         IF Claimable(pair)
         THEN /\ Len(runs) < MaxRuns
              /\ runs' = Append(runs, [pair |-> pair, attempt |-> ClaimedAs(pair),
                                       aged |-> FALSE, pc |-> "extract", read |-> 0,
                                       answers |-> {}])
              /\ row' = [pair |-> pair, status |-> "running", answers |-> {},
                         attempt |-> ClaimedAs(pair), claim |-> Len(runs) + 1]
         ELSE UNCHANGED <<row, runs>>
    /\ OpenTo(o, NoOpen)

----------------------------------------------------------------------------
\* A detached run.

\* Whatever is saved by now is extracted; another commit than the claimed one, a
\* store that fails or the ceiling ends the run as failed.
ExtractWhateverIsSaved(i) ==
    /\ runs[i].pc = "extract"
    /\ RunTo(i, [runs[i] EXCEPT !.pc = "model", !.read = head])
    /\ UNCHANGED row
Extract(i) ==
    /\ runs[i].pc = "extract"
    /\ \/ /\ head = runs[i].pair.commit /\ ~runs[i].aged
          /\ RunTo(i, [runs[i] EXCEPT !.pc = "model", !.read = head])
       \/ RunTo(i, [runs[i] EXCEPT !.pc = "failed"])
    /\ UNCHANGED row

\* The reviewer answers every class, or the run fails.
Answer(i) ==
    /\ runs[i].pc = "model"
    /\ \/ /\ ~runs[i].aged
          /\ \E yes \in SUBSET KeysOf(runs[i].pair.fp) :
               RunTo(i, [runs[i] EXCEPT !.pc = "answered", !.answers = yes])
       \/ RunTo(i, [runs[i] EXCEPT !.pc = "failed"])
    /\ UNCHANGED row

\* The run's own terminal write, which is lost when the database fails.
Settle(i) ==
    /\ runs[i].pc \in {"answered", "failed"}
    /\ RunTo(i, [runs[i] EXCEPT !.pc = "over"])
    /\ \/ IF runs[i].pc = "answered"
          THEN Finish(runs[i].pair, runs[i].attempt, "complete", runs[i].answers)
          ELSE Finish(runs[i].pair, runs[i].attempt, "failed", {})
       \/ UNCHANGED row

\* Two minutes pass.
Age(i) ==
    /\ ~runs[i].aged /\ row.claim = i /\ row.status = "running"
    /\ RunTo(i, [runs[i] EXCEPT !.aged = TRUE])
    /\ UNCHANGED row

\* The control plane restarts: its runs and its requests are gone, rows stay.
Restart ==
    /\ \E i \in DOMAIN runs : runs[i].pc # "over"
    /\ runs' = [i \in DOMAIN runs |-> [runs[i] EXCEPT !.pc = "over"]]
    /\ open' = [o \in Opens |-> NoOpen]
    /\ send' = [s \in Sends |-> NoSend]
    /\ UNCHANGED <<head, live, edits, row>>

----------------------------------------------------------------------------
\* The gate.

\* The share of the scored weight answered Yes, rounded half up.
Weight(defn, keys) == MapThenSumSet(LAMBDA k : defn.weight[k], keys)
Score(defn, yes) ==
    LET scored == DOMAIN defn.weight
        total == Weight(defn, scored)
    IN IF total = 0 THEN 0
       ELSE (200 * Weight(defn, yes \intersect scored) + total) \div (2 * total)

\* review_at_head: the row answers exactly this commit under these definitions.
Current(commit, defn) ==
    row.status = "complete" /\ IsFor([commit |-> commit, fp |-> defn.fp])

\* The owner's answers count for the scored classes, while owners may change them.
Final(policy, defn, yes, no) ==
    LET scored == DOMAIN defn.weight
    IN IF policy.owners THEN (row.answers \ (no \intersect scored)) \union (yes \intersect scored)
       ELSE row.answers

\* decide: what publishes.
AllClear(policy, defn, final) ==
    /\ row.answers \intersect defn.hard = {}
    /\ Score(defn, final) <= policy.threshold

\* A send is about the saved commit; the policy is read next, in a step with it
\* for the same reason, and the classes in a statement of their own.
Send(s) ==
    /\ send[s].pc = "idle" /\ head # 0
    /\ SendTo(s, [NoSend EXCEPT !.pc = "classes", !.commit = head, !.policy = live.policy])
ReadClasses(s) ==
    /\ send[s].pc = "classes"
    /\ SendTo(s, [send[s] EXCEPT !.pc = "review", !.defn = live.defn])

\* The decision, on whatever the owner answered; a standing rejection, which the
\* app row holds, routes too.
Decide(s) ==
    /\ send[s].pc = "review"
    /\ \/ /\ Current(send[s].commit, send[s].defn)
          /\ \E yes, no \in SUBSET Keys(send[s].defn) :
               /\ yes \intersect no = {}
               /\ LET final == Final(send[s].policy, send[s].defn, yes, no) IN
                    /\ AllClear(send[s].policy, send[s].defn, final)
                    /\ SendTo(s, [send[s] EXCEPT !.pc = "publish", !.final = final])
       \/ SendTo(s, NoSend)

\* The pipeline is started, pinned to the commit.
Publish(s) == send[s].pc = "publish" /\ SendTo(s, NoSend)

----------------------------------------------------------------------------
\* What goes on meanwhile.

Save ==
    /\ head < MaxSaves
    /\ head' = head + 1
    /\ UNCHANGED <<live, edits, row, runs, open, send>>
Edit ==
    /\ edits < MaxEdits
    /\ edits' = edits + 1
    /\ live' \in Configs \ {live}
    /\ UNCHANGED <<head, row, runs, open, send>>

OpenStep(o) ==
    \/ Open(o) \/ OpenRead(o) \/ Abandon(o) \/ Reread(o) \/ Claim(o)
RunStep(i) == Extract(i) \/ Answer(i) \/ Settle(i) \/ Age(i)
SendStep(s) ==
    Send(s) \/ ReadClasses(s) \/ Decide(s) \/ Publish(s)
Next ==
    \/ \E o \in Opens : OpenStep(o)
    \/ \E i \in DOMAIN runs : RunStep(i)
    \/ \E s \in Sends : SendStep(s)
    \/ Restart \/ Save \/ Edit

Spec == Init /\ [][Next]_vars

----------------------------------------------------------------------------
\* Properties.

\* What the gate publishes, a run examined: that very commit, under class
\* definitions that read as the ones the send decided by, and without finding a
\* hard block; the owner moved the score's answers only where the policy it read
\* let owners, and the score is within that policy's threshold.
PublishedWasExamined ==
    \A s \in Sends : send[s].pc = "publish" =>
        LET by == send[s] IN
        /\ Score(by.defn, by.final) <= by.policy.threshold
        /\ \E i \in DOMAIN runs :
             /\ runs[i].read = by.commit /\ runs[i].pair.fp = by.defn.fp
             /\ runs[i].answers \intersect by.defn.hard = {}
             /\ by.final \intersect by.defn.hard = {}
             /\ ~by.policy.owners => by.final = runs[i].answers

\* An answer stands: a complete review changes only when the saved commit or the
\* class definitions asked about do, whatever late, abandoned or restarted runs
\* of the same pair still write.
AnswersStand ==
    [][row.status = "complete" /\ row'.pair = row.pair => row' = row]_vars

\* "At most three model runs per (commit, class-definition fingerprint) pair."
\* This does not hold: two openings race, and an edit that is taken back starts the
\* count again.
RunsPerPairWithinTheCap ==
    \A pair \in Pairs :
        Cardinality({i \in DOMAIN runs : runs[i].pair = pair /\ runs[i].read # 0}) <= Cap
=============================================================================
