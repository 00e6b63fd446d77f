-------------------------- MODULE PublishGateProofs --------------------------
(***************************************************************************)
(* What a published version rests on, for any number of dialogs, sends,    *)
(* saves, runs and edits, any configurations and any cap: the invariant    *)
(* IInv, by which a complete review is the answer of a run that read the   *)
(* very commit, and what follows from it.                                  *)
(***************************************************************************)
EXTENDS PublishGate, TLAPS

----------------------------------------------------------------------------
\* The inductive invariant.

\* A run past its extraction read the commit it was claimed for.
ReadsItsOwn ==
    \A i \in DOMAIN runs :
        runs[i].pc \in {"model", "answered"} => runs[i].read = runs[i].pair.commit

\* A run that has said its last word, and what it said.
Said(pair, answers) ==
    \E i \in DOMAIN runs :
        /\ runs[i].pc = "over" /\ runs[i].pair = pair
        /\ runs[i].read = pair.commit /\ runs[i].answers = answers

\* A complete review is what a run said of that commit under those words.
CompleteWasSaid == row.status = "complete" => Said(row.pair, row.answers)

\* A send that publishes rests on what a run said.
PublishedWasSaid ==
    \A s \in Sends : send[s].pc = "publish" =>
        LET by == send[s] IN
        /\ Score(by.defn, by.final) <= by.policy.threshold
        /\ by.final \intersect by.defn.hard = {}
        /\ \E answers \in SUBSET AllKeys :
             /\ Said([commit |-> by.commit, fp |-> by.defn.fp], answers)
             /\ answers \intersect by.defn.hard = {}
             /\ ~by.policy.owners => by.final = answers

\* A dialog under way asks about a saved commit and words in force.
AsksForAPair == \A o \in Opens : open[o].pc # "idle" => open[o].pair \in Pairs

IInv == TypeOK /\ AsksForAPair /\ ReadsItsOwn /\ CompleteWasSaid /\ PublishedWasSaid

----------------------------------------------------------------------------
\* Types, and what the statements of the store do.

LEMMA EmptyTypes ==
    /\ NoOpen \in OpenRecs /\ NoOpen.pc = "idle"
    /\ NoSend \in SendRecs /\ NoSend.pc = "idle"
<1>1. NoOpen \in OpenRecs /\ NoOpen.pc = "idle"
  BY DEF NoOpen, OpenRecs
<1>2. NoSend \in SendRecs /\ NoSend.pc = "idle"
  BY PublishGateAssumption DEF NoSend, SendRecs, Policies, Definitions
<1> QED
  BY <1>1, <1>2

\* What a run may answer, and what a send may weigh, are classes.
LEMMA KeysAreClasses ==
    /\ \A fp \in Prints : KeysOf(fp) \subseteq AllKeys
    /\ \A defn \in Definitions :
         Keys(defn) \subseteq AllKeys /\ defn.hard \intersect DOMAIN defn.weight = {}
<1>1. \A fp \in Prints : KeysOf(fp) \subseteq AllKeys
  BY DEF AllKeys
<1>2. ASSUME NEW defn \in Definitions
      PROVE  Keys(defn) \subseteq AllKeys /\ defn.hard \intersect DOMAIN defn.weight = {}
  <2>1. defn.fp \in Prints
    BY DEF Prints
  <2> DEFINE chosen == CHOOSE d \in Definitions : d.fp = defn.fp
  <2>2. chosen \in Definitions /\ chosen.fp = defn.fp
    OBVIOUS
  <2>3. Keys(chosen) = Keys(defn)
    BY <2>2, PublishGateAssumption DEF Definitions, Keys
  <2>4. KeysOf(defn.fp) = Keys(chosen)
    BY DEF KeysOf
  <2>5. defn.hard \intersect DOMAIN defn.weight = {}
    BY PublishGateAssumption DEF Definitions
  <2> QED
    BY <1>1, <2>1, <2>3, <2>4, <2>5
<1> QED
  BY <1>1, <1>2

LEMMA InitIInv == Init => IInv
<1> SUFFICES ASSUME Init PROVE IInv
  OBVIOUS
<1>1. NoRow \in Rows
  BY PublishGateAssumption DEF NoRow, Rows
<1>2. TypeOK
  BY <1>1, EmptyTypes, PublishGateAssumption DEF Init, TypeOK, NoRow
<1> QED
  BY <1>2 DEF Init, IInv, AsksForAPair, ReadsItsOwn, CompleteWasSaid, PublishedWasSaid,
              NoRow, NoSend, NoOpen

\* A terminal write settles the running row it was claimed for, and no other.
LEMMA FinishSettles ==
    ASSUME TypeOK, NEW pair, NEW attempt, NEW status \in {"complete", "failed"},
           NEW answers \in SUBSET AllKeys, Finish(pair, attempt, status, answers)
    PROVE  /\ row' \in Rows /\ row'.pair = row.pair /\ row'.claim = row.claim
           /\ \/ row' = row
              \/ /\ row.status = "running" /\ row.pair = pair
                 /\ row'.status = status /\ row'.answers = answers
<1>1. row \in Rows
  BY DEF TypeOK
<1> QED
  BY <1>1 DEF Finish, IsFor, Rows

\* What was said stays said: a run that is over is not written again, but for its
\* age.
LEMMA SaidStays ==
    ASSUME TypeOK, NEW i \in DOMAIN runs, NEW rec \in Runs, runs' = [runs EXCEPT ![i] = rec],
           runs[i].pc = "over" => /\ rec.pc = "over" /\ rec.pair = runs[i].pair
                                  /\ rec.read = runs[i].read /\ rec.answers = runs[i].answers
    PROVE  /\ runs' \in Seq(Runs) /\ Len(runs') = Len(runs) /\ DOMAIN runs' = DOMAIN runs
           /\ \A pair, answers : Said(pair, answers) => Said(pair, answers)'
<1>1. runs \in Seq(Runs)
  BY DEF TypeOK
<1>2. runs' \in Seq(Runs) /\ Len(runs') = Len(runs) /\ DOMAIN runs' = DOMAIN runs
  BY <1>1
<1>3. runs'[i] = rec /\ \A j \in DOMAIN runs : j # i => runs'[j] = runs[j]
  BY <1>1
<1> QED
  BY <1>2, <1>3 DEF Said

\* Nothing else of the invariant is touched by a step that leaves the row, the
\* sends and the dialogs alone or writes them as said.
LEMMA PublishedStays ==
    ASSUME PublishedWasSaid, UNCHANGED send,
           \A pair, answers : Said(pair, answers) => Said(pair, answers)'
    PROVE  PublishedWasSaid'
  BY DEF PublishedWasSaid

----------------------------------------------------------------------------
\* The dialogs.

LEMMA OpenOnlyKeeps ==
    ASSUME IInv, NEW o \in Opens, NEW rec \in OpenRecs, OpenTo(o, rec),
           rec.pc # "idle" => rec.pair \in Pairs, UNCHANGED <<row, runs>>
    PROVE  IInv'
<1>1. /\ open' = [open EXCEPT ![o] = rec] /\ open \in [Opens -> OpenRecs]
      /\ UNCHANGED <<head, live, edits, send, row, runs>>
  BY DEF OpenTo, IInv, TypeOK
<1>2. TypeOK' /\ AsksForAPair'
  BY <1>1 DEF IInv, TypeOK, AsksForAPair
<1>3. ReadsItsOwn' /\ CompleteWasSaid' /\ PublishedWasSaid'
  BY <1>1 DEF IInv, ReadsItsOwn, CompleteWasSaid, PublishedWasSaid, Said
<1> QED
  BY <1>2, <1>3 DEF IInv

LEMMA OpenReads ==
    ASSUME IInv, NEW o \in Opens, Open(o) \/ OpenRead(o) \/ Reread(o)
    PROVE  IInv'
<1>1. open[o] \in OpenRecs /\ row \in Rows /\ (open[o].pc # "idle" => open[o].pair \in Pairs)
  BY DEF IInv, TypeOK, AsksForAPair
<1>2. CASE Open(o)
  <2> DEFINE pair == [commit |-> head, fp |-> live.defn.fp]
             rec == [NoOpen EXCEPT !.pc = "row", !.pair = pair]
  <2>1. head \in Commits /\ live.defn.fp \in Prints
    BY <1>2 DEF Open, IInv, TypeOK, Prints, Definitions
  <2>2. pair \in Pairs
    BY <2>1 DEF Pairs
  <2> HIDE DEF pair
  <2>3. rec \in OpenRecs /\ rec.pair = pair
    BY <2>2, EmptyTypes DEF OpenRecs
  <2>4. OpenTo(o, rec) /\ UNCHANGED <<row, runs>>
    BY <1>2 DEF Open, pair
  <2> HIDE DEF rec
  <2> QED
    BY <2>2, <2>3, <2>4, OpenOnlyKeeps
<1>3. CASE OpenTo(o, Passed(o)) /\ UNCHANGED <<row, runs>> /\ open[o].pc # "idle"
  <2>1. Passed(o) \in OpenRecs /\ (Passed(o).pc # "idle" => Passed(o).pair \in Pairs)
    BY <1>1, <1>3, EmptyTypes DEF Passed, OpenRecs
  <2> QED
    BY <1>3, <2>1, OpenOnlyKeeps
<1>4. CASE /\ OpenTo(o, [open[o] EXCEPT !.pc = "abandon", !.attempt = row.attempt])
           /\ UNCHANGED <<row, runs>> /\ open[o].pc # "idle"
  <2> DEFINE rec == [open[o] EXCEPT !.pc = "abandon", !.attempt = row.attempt]
  <2>1. rec \in OpenRecs /\ rec.pair = open[o].pair
    BY <1>1 DEF OpenRecs, Rows
  <2>2. OpenTo(o, rec)
    BY <1>4
  <2> HIDE DEF rec
  <2> QED
    BY <1>1, <1>4, <2>1, <2>2, OpenOnlyKeeps
<1>5. OpenRead(o) \/ Reread(o) => open[o].pc # "idle" /\ UNCHANGED <<row, runs>>
  BY DEF OpenRead, Reread
<1> QED
  BY <1>2, <1>3, <1>4, <1>5 DEF OpenRead, Reread

LEMMA AbandonStep == ASSUME IInv, NEW o \in Opens, Abandon(o) PROVE IInv'
<1> DEFINE rec == [open[o] EXCEPT !.pc = "reread", !.attempt = 0]
<1>1. /\ open[o] \in OpenRecs /\ open[o].pair \in Pairs
      /\ open \in [Opens -> OpenRecs]
  BY DEF IInv, TypeOK, AsksForAPair, Abandon
<1>2. rec \in OpenRecs /\ rec.pair = open[o].pair
  BY <1>1 DEF OpenRecs
<1>3. open' = [open EXCEPT ![o] = rec] /\ UNCHANGED <<head, live, edits, send, runs>>
  BY DEF Abandon, OpenTo
<1> HIDE DEF rec
<1>4. /\ row' \in Rows /\ row'.pair = row.pair /\ row'.claim = row.claim
      /\ row' = row \/ (row'.status = "failed" /\ row.status = "running")
  <2>1. Finish(open[o].pair, open[o].attempt, "failed", {})
    BY DEF Abandon
  <2>2. TypeOK /\ {} \in SUBSET AllKeys
    BY DEF IInv
  <2> QED
    BY <2>1, <2>2, FinishSettles
<1>5. TypeOK' /\ AsksForAPair'
  BY <1>1, <1>2, <1>3, <1>4 DEF IInv, TypeOK, AsksForAPair
<1>6. ReadsItsOwn' /\ CompleteWasSaid' /\ PublishedWasSaid'
  BY <1>3, <1>4 DEF IInv, ReadsItsOwn, CompleteWasSaid, PublishedWasSaid, Said
<1> QED
  BY <1>5, <1>6 DEF IInv

\* A claim that is won starts a run that has said nothing yet.
LEMMA ClaimStep == ASSUME IInv, NEW o \in Opens, Claim(o) PROVE IInv'
<1>1. /\ open[o] \in OpenRecs /\ open[o].pair \in Pairs /\ row \in Rows
      /\ runs \in Seq(Runs) /\ Len(runs) \in Nat /\ open \in [Opens -> OpenRecs]
  BY DEF IInv, TypeOK, AsksForAPair, Claim
<1>2. CASE UNCHANGED <<row, runs>>
  BY <1>2, EmptyTypes, OpenOnlyKeeps DEF Claim
<1> DEFINE new == [pair |-> open[o].pair, attempt |-> ClaimedAs(open[o].pair), aged |-> FALSE,
                   pc |-> "extract", read |-> 0, answers |-> {}]
<1>3. CASE /\ Len(runs) < MaxRuns
           /\ runs' = Append(runs, new)
           /\ row' = [pair |-> open[o].pair, status |-> "running", answers |-> {},
                      attempt |-> ClaimedAs(open[o].pair), claim |-> Len(runs) + 1]
  <2>1. ClaimedAs(open[o].pair) \in Nat
    BY <1>1 DEF ClaimedAs, Rows
  <2>2. new \in Runs /\ new.pc = "extract"
    BY <1>1, <2>1 DEF Runs
  <2>3. row' \in Rows /\ row'.status = "running" /\ row'.pair \in Pairs
        /\ row'.claim = Len(runs) + 1
    BY <1>1, <1>3, <2>1, PublishGateAssumption DEF Rows
  <2> HIDE DEF new
  <2>4. /\ runs' \in Seq(Runs) /\ Len(runs') = Len(runs) + 1
        /\ runs'[Len(runs) + 1] = new
        /\ \A i \in DOMAIN runs : i \in DOMAIN runs' /\ runs'[i] = runs[i]
        /\ DOMAIN runs' = 1 .. Len(runs) + 1 /\ DOMAIN runs = 1 .. Len(runs)
    BY <1>1, <1>3, <2>2
  <2>5. open' = [open EXCEPT ![o] = NoOpen] /\ UNCHANGED <<head, live, edits, send>>
    BY DEF Claim, OpenTo
  <2>6. TypeOK' /\ AsksForAPair'
    BY <1>1, <1>3, <2>3, <2>4, <2>5, EmptyTypes, PublishGateAssumption
       DEF IInv, TypeOK, AsksForAPair
  <2>7. ReadsItsOwn' /\ CompleteWasSaid'
    BY <1>1, <2>2, <2>3, <2>4 DEF IInv, ReadsItsOwn, CompleteWasSaid
  <2>8. \A pair, answers : Said(pair, answers) => Said(pair, answers)'
    BY <2>4 DEF Said
  <2> QED
    BY <2>5, <2>6, <2>7, <2>8, PublishedStays DEF IInv
<1> QED
  BY <1>2, <1>3 DEF Claim

----------------------------------------------------------------------------
\* The runs.

\* A step of a run before its terminal write.
LEMMA RunKeeps ==
    ASSUME IInv, NEW i \in DOMAIN runs, NEW rec \in Runs, RunTo(i, rec), UNCHANGED row,
           rec.pc \in {"model", "answered"} => rec.read = rec.pair.commit,
           runs[i].pc = "over" => /\ rec.pc = "over" /\ rec.pair = runs[i].pair
                                  /\ rec.read = runs[i].read /\ rec.answers = runs[i].answers
    PROVE  IInv'
<1>1. /\ runs' = [runs EXCEPT ![i] = rec] /\ runs \in Seq(Runs) /\ Len(runs) <= MaxRuns
      /\ UNCHANGED <<head, live, edits, open, send, row>>
  BY DEF RunTo, IInv, TypeOK
<1>2. /\ runs' \in Seq(Runs) /\ Len(runs') = Len(runs) /\ DOMAIN runs' = DOMAIN runs
      /\ \A pair, answers : Said(pair, answers) => Said(pair, answers)'
  BY <1>1, SaidStays DEF IInv
<1>3. TypeOK' /\ AsksForAPair'
  BY <1>1, <1>2 DEF IInv, TypeOK, AsksForAPair
<1>4. ReadsItsOwn'
  <2>1. runs'[i] = rec /\ \A j \in DOMAIN runs : j # i => runs'[j] = runs[j]
    BY <1>1
  <2> QED
    BY <1>2, <2>1 DEF IInv, ReadsItsOwn
<1>5. CompleteWasSaid' /\ PublishedWasSaid'
  BY <1>1, <1>2, PublishedStays DEF IInv, CompleteWasSaid
<1> QED
  BY <1>3, <1>4, <1>5 DEF IInv

LEMMA RunMoves ==
    ASSUME IInv, NEW i \in DOMAIN runs, Extract(i) \/ Answer(i) \/ Age(i)
    PROVE  IInv'
<1>1. /\ runs[i] \in Runs /\ runs[i].pair \in Pairs /\ head \in Commits \union {0}
      /\ UNCHANGED row
      /\ runs[i].pc \in {"model", "answered"} => runs[i].read = runs[i].pair.commit
  <2>1. runs \in Seq(Runs)
    BY DEF IInv, TypeOK
  <2>2. runs[i] \in Runs
    BY <2>1
  <2>3. UNCHANGED row
    BY DEF Extract, Answer, Age
  <2>4. runs[i].pair \in Pairs
    BY <2>2 DEF Runs
  <2> QED
    BY <2>2, <2>3, <2>4 DEF IInv, TypeOK, ReadsItsOwn
<1>2. CASE RunTo(i, [runs[i] EXCEPT !.pc = "failed"]) /\ runs[i].pc # "over"
  <2>1. LET rec == [runs[i] EXCEPT !.pc = "failed"] IN rec \in Runs /\ rec.pc = "failed"
    BY <1>1 DEF Runs
  <2> QED
    BY <1>1, <1>2, <2>1, RunKeeps
<1>3. CASE /\ head = runs[i].pair.commit /\ runs[i].pc = "extract"
           /\ RunTo(i, [runs[i] EXCEPT !.pc = "model", !.read = head])
  <2>1. LET rec == [runs[i] EXCEPT !.pc = "model", !.read = head]
        IN rec \in Runs /\ rec.pc = "model" /\ rec.read = rec.pair.commit
    BY <1>1, <1>3 DEF Runs
  <2> QED
    BY <1>1, <1>3, <2>1, RunKeeps
<1>4. ASSUME NEW yes \in SUBSET KeysOf(runs[i].pair.fp), runs[i].pc = "model",
             RunTo(i, [runs[i] EXCEPT !.pc = "answered", !.answers = yes])
      PROVE  IInv'
  <2>1. yes \in SUBSET AllKeys
    BY <1>1, KeysAreClasses DEF Pairs
  <2>2. LET rec == [runs[i] EXCEPT !.pc = "answered", !.answers = yes]
        IN rec \in Runs /\ rec.pc = "answered" /\ rec.read = rec.pair.commit
    BY <1>1, <1>4, <2>1 DEF Runs
  <2> QED
    BY <1>1, <1>4, <2>2, RunKeeps
<1>5. CASE RunTo(i, [runs[i] EXCEPT !.aged = TRUE])
  <2> DEFINE rec == [runs[i] EXCEPT !.aged = TRUE]
  <2>1. /\ rec \in Runs /\ rec.pc = runs[i].pc /\ rec.pair = runs[i].pair
        /\ rec.read = runs[i].read /\ rec.answers = runs[i].answers
    BY <1>1 DEF Runs
  <2>2. RunTo(i, rec)
    BY <1>5
  <2> HIDE DEF rec
  <2> QED
    BY <1>1, <2>1, <2>2, RunKeeps
<1> QED
  BY <1>2, <1>3, <1>4, <1>5 DEF Extract, Answer, Age

\* The run that makes a review complete is over, and has said what the row holds.
LEMMA SettleStep == ASSUME IInv, NEW i \in DOMAIN runs, Settle(i) PROVE IInv'
<1> DEFINE rec == [runs[i] EXCEPT !.pc = "over"]
<1>1. /\ runs[i] \in Runs /\ runs[i].pc \in {"answered", "failed"}
      /\ runs[i].pc = "answered" => runs[i].read = runs[i].pair.commit
      /\ runs \in Seq(Runs) /\ Len(runs) <= MaxRuns
      /\ runs' = [runs EXCEPT ![i] = rec] /\ UNCHANGED <<head, live, edits, open, send>>
  BY DEF IInv, TypeOK, Settle, ReadsItsOwn, RunTo
<1>2. /\ rec \in Runs /\ rec.pc = "over" /\ rec.pair = runs[i].pair
      /\ rec.read = runs[i].read /\ rec.answers = runs[i].answers
      /\ runs[i].answers \in SUBSET AllKeys
  BY <1>1 DEF Runs
<1>3. runs'[i] = rec /\ \A j \in DOMAIN runs : j # i => runs'[j] = runs[j]
  BY <1>1
<1> HIDE DEF rec
<1>4. /\ runs' \in Seq(Runs) /\ Len(runs') = Len(runs) /\ DOMAIN runs' = DOMAIN runs
      /\ \A pair, answers : Said(pair, answers) => Said(pair, answers)'
  BY <1>1, <1>2, SaidStays DEF IInv
<1>5. \/ row' = row
      \/ /\ row' \in Rows /\ row'.pair = row.pair /\ row'.claim = row.claim
         /\ row.status = "running" /\ row'.status = "failed"
      \/ /\ row' \in Rows /\ row'.pair = row.pair /\ row'.claim = row.claim
         /\ row.status = "running" /\ runs[i].pc = "answered"
         /\ row'.pair = runs[i].pair /\ row'.answers = runs[i].answers
  <2>1. CASE UNCHANGED row
    BY <2>1
  <2>2. CASE /\ runs[i].pc = "answered"
             /\ Finish(runs[i].pair, runs[i].attempt, "complete", runs[i].answers)
    BY <1>2, <2>2, FinishSettles DEF IInv
  <2>3. CASE Finish(runs[i].pair, runs[i].attempt, "failed", {})
    BY <2>3, FinishSettles DEF IInv
  <2> QED
    BY <2>1, <2>2, <2>3 DEF Settle
<1>6. TypeOK' /\ AsksForAPair'
  BY <1>1, <1>4, <1>5 DEF IInv, TypeOK, AsksForAPair
<1>7. ReadsItsOwn'
  BY <1>2, <1>3, <1>4 DEF IInv, ReadsItsOwn
<1>8. CompleteWasSaid'
  <2>1. /\ i \in DOMAIN runs' /\ runs'[i].pc = "over" /\ runs'[i].pair = runs[i].pair
        /\ runs'[i].answers = runs[i].answers
        /\ runs[i].pc = "answered" => runs'[i].read = runs'[i].pair.commit
    BY <1>1, <1>2, <1>3, <1>4
  <2>2. CASE row' = row
    <3> SUFFICES ASSUME row'.status = "complete"
                 PROVE  Said(row.pair, row.answers)'
      BY DEF CompleteWasSaid
    <3>1. Said(row.pair, row.answers)
      BY <2>2 DEF IInv, CompleteWasSaid
    <3>2. PICK pair, answers : pair = row.pair /\ answers = row.answers
      OBVIOUS
    <3>3. Said(pair, answers)'
      BY <1>4, <3>1, <3>2
    <3> QED
      BY <2>2, <3>2, <3>3 DEF Said
  <2>3. CASE row'.status = "failed"
    BY <2>3 DEF CompleteWasSaid
  <2>4. CASE /\ runs[i].pc = "answered"
             /\ row'.pair = runs[i].pair /\ row'.answers = runs[i].answers
    BY <2>1, <2>4 DEF CompleteWasSaid, Said
  <2> QED
    BY <1>5, <2>2, <2>3, <2>4
<1> QED
  BY <1>1, <1>4, <1>6, <1>7, <1>8, PublishedStays DEF IInv

\* A restart ends every run; what was said, and the row, stay.
LEMMA RestartStep == ASSUME IInv, Restart PROVE IInv'
<1>1. /\ runs \in Seq(Runs) /\ Len(runs) <= MaxRuns
      /\ runs' = [i \in DOMAIN runs |-> [runs[i] EXCEPT !.pc = "over"]]
      /\ open' = [o \in Opens |-> NoOpen] /\ send' = [s \in Sends |-> NoSend]
      /\ UNCHANGED <<head, live, edits, row>>
  BY DEF IInv, TypeOK, Restart
<1> DEFINE Over(i) == [runs[i] EXCEPT !.pc = "over"]
<1>2. ASSUME NEW i \in DOMAIN runs
      PROVE  /\ Over(i) \in Runs /\ Over(i).pc = "over" /\ Over(i).pair = runs[i].pair
             /\ Over(i).read = runs[i].read /\ Over(i).answers = runs[i].answers
  <2>1. runs[i] \in Runs
    BY <1>1
  <2> QED
    BY <2>1 DEF Runs
<1>3. /\ DOMAIN runs' = DOMAIN runs /\ runs' \in Seq(Runs) /\ Len(runs') = Len(runs)
      /\ \A i \in DOMAIN runs :
           /\ runs'[i].pc = "over" /\ runs'[i].pair = runs[i].pair
           /\ runs'[i].read = runs[i].read /\ runs'[i].answers = runs[i].answers
  <2>1. DOMAIN runs = 1 .. Len(runs) /\ Len(runs) \in Nat
    BY <1>1
  <2>2. runs' = [i \in DOMAIN runs |-> Over(i)]
    BY <1>1
  <2> HIDE DEF Over
  <2>3. DOMAIN runs' = DOMAIN runs /\ \A i \in DOMAIN runs : runs'[i] = Over(i)
    BY <2>2
  <2>4. runs' \in [1 .. Len(runs) -> Runs]
    BY <1>2, <2>1, <2>2
  <2>5. runs' \in Seq(Runs) /\ Len(runs') = Len(runs)
    BY <2>1, <2>4
  <2> QED
    BY <1>2, <2>3, <2>5
<1>4. TypeOK' /\ AsksForAPair'
  BY <1>1, <1>3, EmptyTypes DEF IInv, TypeOK, AsksForAPair
<1>5. \A pair, answers : Said(pair, answers) => Said(pair, answers)'
  BY <1>3 DEF Said
<1>6. ReadsItsOwn' /\ CompleteWasSaid' /\ PublishedWasSaid'
  BY <1>1, <1>3, <1>5, EmptyTypes DEF IInv, ReadsItsOwn, CompleteWasSaid, PublishedWasSaid
<1> QED
  BY <1>4, <1>6 DEF IInv

----------------------------------------------------------------------------
\* The gate.

\* A step of a send that does not publish.
LEMMA SendKeeps ==
    ASSUME IInv, NEW s \in Sends, NEW rec \in SendRecs, SendTo(s, rec), rec.pc # "publish"
    PROVE  IInv'
<1>1. /\ send' = [send EXCEPT ![s] = rec] /\ send \in [Sends -> SendRecs]
      /\ UNCHANGED <<head, live, edits, row, runs, open>>
  BY DEF SendTo, IInv, TypeOK
<1>2. TypeOK' /\ AsksForAPair' /\ ReadsItsOwn' /\ CompleteWasSaid'
  BY <1>1 DEF IInv, TypeOK, AsksForAPair, ReadsItsOwn, CompleteWasSaid, Said
<1>3. PublishedWasSaid'
  BY <1>1 DEF IInv, PublishedWasSaid, Said
<1> QED
  BY <1>2, <1>3 DEF IInv

\* A send that publishes rests on the complete review it read.
LEMMA DecidePublishes ==
    ASSUME IInv, NEW s \in Sends, send[s].pc = "review",
           Current(send[s].commit, send[s].defn),
           NEW yes \in SUBSET Keys(send[s].defn), NEW no \in SUBSET Keys(send[s].defn),
           NEW final, final = Final(send[s].policy, send[s].defn, yes, no),
           AllClear(send[s].policy, send[s].defn, final),
           SendTo(s, [send[s] EXCEPT !.pc = "publish", !.final = final])
    PROVE  IInv'
<1> DEFINE rec == [send[s] EXCEPT !.pc = "publish", !.final = final]
<1>1. /\ send[s] \in SendRecs /\ send \in [Sends -> SendRecs] /\ row \in Rows
      /\ send' = [send EXCEPT ![s] = rec] /\ UNCHANGED <<head, live, edits, row, runs, open>>
  BY DEF IInv, TypeOK, SendTo
<1>2. /\ row.answers \in SUBSET AllKeys /\ send[s].defn \in Definitions
      /\ Said([commit |-> send[s].commit, fp |-> send[s].defn.fp], row.answers)
      /\ row.answers \intersect send[s].defn.hard = {}
      /\ Score(send[s].defn, final) <= send[s].policy.threshold
  BY <1>1 DEF IInv, CompleteWasSaid, Current, IsFor, AllClear, Rows, SendRecs
<1>3. /\ final \in SUBSET AllKeys /\ final \intersect send[s].defn.hard = {}
      /\ ~send[s].policy.owners => final = row.answers
  <2>1. /\ final \subseteq row.answers \union (yes \intersect DOMAIN send[s].defn.weight)
        /\ ~send[s].policy.owners => final = row.answers
    BY DEF Final
  <2> QED
    BY <1>2, <2>1, KeysAreClasses
<1>4. /\ rec \in SendRecs /\ rec.pc = "publish" /\ rec.final = final
      /\ rec.commit = send[s].commit /\ rec.defn = send[s].defn /\ rec.policy = send[s].policy
  BY <1>1, <1>3 DEF SendRecs
<1> HIDE DEF rec
<1>5. TypeOK' /\ AsksForAPair' /\ ReadsItsOwn' /\ CompleteWasSaid'
  BY <1>1, <1>4 DEF IInv, TypeOK, AsksForAPair, ReadsItsOwn, CompleteWasSaid, Said
<1>6. PublishedWasSaid'
  <2>1. \A pair, answers : Said(pair, answers)' = Said(pair, answers)
    BY <1>1 DEF Said
  <2>2. \A u \in Sends : u # s => send'[u] = send[u]
    BY <1>1
  <2>3. send'[s] = rec
    BY <1>1
  <2>4. ASSUME NEW u \in Sends, send'[u].pc = "publish"
        PROVE  /\ Score(send'[u].defn, send'[u].final) <= send'[u].policy.threshold
               /\ send'[u].final \intersect send'[u].defn.hard = {}
               /\ \E answers \in SUBSET AllKeys :
                    /\ Said([commit |-> send'[u].commit, fp |-> send'[u].defn.fp], answers)
                    /\ answers \intersect send'[u].defn.hard = {}
                    /\ ~send'[u].policy.owners => send'[u].final = answers
    <3>1. CASE u = s
      BY <1>2, <1>3, <1>4, <2>3, <3>1
    <3>2. CASE u # s
      BY <2>2, <2>4, <3>2 DEF IInv, PublishedWasSaid
    <3> QED
      BY <3>1, <3>2
  <2> QED
    BY <2>1, <2>4 DEF PublishedWasSaid
<1> QED
  BY <1>5, <1>6 DEF IInv

LEMMA SendSteps == ASSUME IInv, NEW s \in Sends, SendStep(s) PROVE IInv'
<1>1. send[s] \in SendRecs /\ head \in Commits \union {0} /\ live \in Configs
  BY DEF IInv, TypeOK
<1>2. CASE Send(s)
  <2>1. LET rec == [NoSend EXCEPT !.pc = "classes", !.commit = head, !.policy = live.policy]
        IN rec \in SendRecs /\ rec.pc = "classes"
    BY <1>1, EmptyTypes DEF SendRecs, Policies
  <2> QED
    BY <1>2, <2>1, SendKeeps DEF Send
<1>3. CASE ReadClasses(s)
  <2>1. LET rec == [send[s] EXCEPT !.pc = "review", !.defn = live.defn]
        IN rec \in SendRecs /\ rec.pc = "review"
    BY <1>1 DEF SendRecs, Definitions
  <2> QED
    BY <1>3, <2>1, SendKeeps DEF ReadClasses
<1>4. CASE SendTo(s, NoSend)
  BY <1>4, EmptyTypes, SendKeeps
<1>5. CASE Decide(s) /\ ~SendTo(s, NoSend)
  BY <1>5, DecidePublishes DEF Decide
<1> QED
  BY <1>2, <1>3, <1>4, <1>5 DEF SendStep, Publish

LEMMA NextIInv == IInv /\ [Next]_vars => IInv'
<1> SUFFICES ASSUME IInv, [Next]_vars PROVE IInv'
  OBVIOUS
<1>1. ASSUME NEW o \in Opens, OpenStep(o) PROVE IInv'
  BY <1>1, OpenReads, AbandonStep, ClaimStep DEF OpenStep
<1>2. ASSUME NEW i \in DOMAIN runs, RunStep(i) PROVE IInv'
  BY <1>2, RunMoves, SettleStep DEF RunStep
<1>3. CASE Save \/ Edit \/ UNCHANGED vars
  <2>1. /\ head' \in Commits \union {0} /\ live' \in Configs /\ edits' \in 0 .. MaxEdits
        /\ UNCHANGED <<row, runs, open, send>>
    BY <1>3, PublishGateAssumption DEF Save, Edit, vars, IInv, TypeOK, Commits
  <2>2. TypeOK' /\ AsksForAPair'
    BY <2>1 DEF IInv, TypeOK, AsksForAPair
  <2>3. ReadsItsOwn' /\ CompleteWasSaid' /\ PublishedWasSaid'
    BY <2>1 DEF IInv, ReadsItsOwn, CompleteWasSaid, PublishedWasSaid, Said
  <2> QED
    BY <2>2, <2>3 DEF IInv
<1> QED
  BY <1>1, <1>2, <1>3, SendSteps, RestartStep DEF Next

LEMMA Invariant == Spec => []IInv
<1>1. Init => IInv
  BY InitIInv
<1>2. IInv /\ [Next]_vars => IInv'
  BY NextIInv
<1> QED
  BY <1>1, <1>2, PTL DEF Spec

----------------------------------------------------------------------------
\* The theorems.

\* Every reachable state of the gate is well typed.
THEOREM TypeCorrect == Spec => []TypeOK
<1>1. IInv => TypeOK
  BY DEF IInv
<1> QED
  BY <1>1, Invariant, PTL

\* What the gate publishes was examined: however saves, edits, late, abandoned and
\* restarted runs fall between the dialog and the send, a run read that very
\* commit under the words the send decided by and found no hard block.
THEOREM GatePublishesWhatWasExamined == Spec => []PublishedWasExamined
<1>1. IInv => PublishedWasExamined
  <2> SUFFICES ASSUME IInv, NEW s \in Sends, send[s].pc = "publish"
               PROVE  /\ Score(send[s].defn, send[s].final) <= send[s].policy.threshold
                      /\ \E i \in DOMAIN runs :
                           /\ runs[i].read = send[s].commit
                           /\ runs[i].pair.fp = send[s].defn.fp
                           /\ runs[i].answers \intersect send[s].defn.hard = {}
                           /\ send[s].final \intersect send[s].defn.hard = {}
                           /\ ~send[s].policy.owners => send[s].final = runs[i].answers
    BY DEF PublishedWasExamined
  <2> DEFINE pair == [commit |-> send[s].commit, fp |-> send[s].defn.fp]
  <2>1. PICK answers \in SUBSET AllKeys :
          /\ Said(pair, answers)
          /\ answers \intersect send[s].defn.hard = {}
          /\ ~send[s].policy.owners => send[s].final = answers
    BY DEF IInv, PublishedWasSaid
  <2>2. PICK i \in DOMAIN runs :
          runs[i].pair = pair /\ runs[i].read = pair.commit /\ runs[i].answers = answers
    BY <2>1 DEF Said
  <2>3. pair.commit = send[s].commit /\ pair.fp = send[s].defn.fp
    OBVIOUS
  <2>4. /\ Score(send[s].defn, send[s].final) <= send[s].policy.threshold
        /\ send[s].final \intersect send[s].defn.hard = {}
    BY DEF IInv, PublishedWasSaid
  <2> HIDE DEF pair
  <2> QED
    BY <2>1, <2>2, <2>3, <2>4
<1> QED
  BY <1>1, Invariant, PTL

\* A complete review stands until another commit or other words are asked about.
THEOREM AnswersAreKept == Spec => AnswersStand
<1> DEFINE Kept == row.status = "complete" /\ row'.pair = row.pair => row' = row
<1>1. IInv /\ [Next]_vars => [Kept]_vars
  <2> SUFFICES ASSUME IInv, Next, row.status = "complete", row'.pair = row.pair
               PROVE  row' = row
    OBVIOUS
  <2>1. ASSUME NEW pair, NEW attempt, NEW status, NEW answers,
               Finish(pair, attempt, status, answers)
        PROVE  row' = row
    BY <2>1 DEF Finish
  <2>2. ASSUME NEW o \in Opens, OpenStep(o) PROVE row' = row
    BY <2>1, <2>2 DEF OpenStep, Open, OpenRead, Abandon, Reread, Claim, Claimable, IsFor
  <2>3. ASSUME NEW i \in DOMAIN runs, RunStep(i) PROVE row' = row
    BY <2>1, <2>3 DEF RunStep, Extract, Answer, Settle, Age
  <2>4. ASSUME NEW s \in Sends, SendStep(s) PROVE row' = row
    BY <2>4 DEF SendStep, Send, ReadClasses, Decide, Publish, SendTo
  <2>5. CASE Restart \/ Save \/ Edit
    BY <2>5 DEF Restart, Save, Edit
  <2> QED
    BY <2>2, <2>3, <2>4, <2>5 DEF Next
<1> QED
  BY <1>1, Invariant, PTL DEF Spec, AnswersStand
=============================================================================
