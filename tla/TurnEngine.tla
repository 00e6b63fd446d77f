----------------------------- MODULE TurnEngine -----------------------------
(***************************************************************************)
(* One person's turns (turns/engine.py, turns/guard.py, usage/gate.py and  *)
(* the turn routes): a message admitted, a detached task that attaches the *)
(* workspace, runs the model, saves, bills and ends, and everything that   *)
(* may reach into it: a Stop, a cooperative ask, another chat's turn.      *)
(*                                                                         *)
(* All of it is one asyncio process, so a step is the code between two     *)
(* awaits, and every program counter names the await a task is parked at.  *)
(* A cancellation is delivered there: what was awaited has happened or has *)
(* not, and control goes to the arm that catches it.  A turn is cancelled  *)
(* at most once (stop_requested), and never after its terminal frame.      *)
(***************************************************************************)
EXTENDS Naturals, FiniteSets

CONSTANTS
    BuildChats, PlanChats, GenericChats,  \* conversations by ChatKind
    Second,     \* the project chats of a second project; the rest share one
    MaxTurns,   \* messages sent in a behaviour; a turn's number is its id
    Limit,      \* the daily cap, one token a model reply
    Retries,    \* SELF_HEAL_MAX_RETRIES
    Ceiling,    \* MODEL_TURN_CEILING, requests in one run
    Budget,     \* RUN_TOKEN_BUDGET, tokens in one turn
    ReplySteps, \* requests of one Plan or BIAL Chat reply, at most
    MaxAsks,    \* cooperative asks published in a behaviour
    MeterFails, \* a write to the meter may fail
    NoChat

Chats == BuildChats \union PlanChats \union GenericChats

ASSUME TurnAssumption ==
    /\ BuildChats \intersect PlanChats = {}
    /\ GenericChats \intersect (BuildChats \union PlanChats) = {}
    /\ Second \subseteq BuildChats \union PlanChats
    /\ NoChat \notin Chats
    /\ MeterFails \in BOOLEAN
    /\ {MaxTurns, Retries, MaxAsks} \subseteq Nat
    /\ {Limit, Ceiling, Budget, ReplySteps} \subseteq Nat \ {0}
    /\ IsFiniteSet(BuildChats)

VARIABLES
    midReply, \* _mid_reply: the turn whose claim holds a chat, 0 when free
    newest,   \* _by_conversation
    turn,     \* each turn's state, its task and what it left in the database
    slot,     \* _active_by_user: the turn whose session holds it, or 0
    ask,      \* chats with a cooperative stop key standing
    asked,    \* cooperative asks published so far
    sent,     \* messages sent so far
    used      \* tokens metered today

vars == <<midReply, newest, turn, slot, ask, asked, sent, used>>

----------------------------------------------------------------------------
\* Types and the initial state.

Turns == 1 .. MaxTurns
PCs == {"none", "sent", "claimed", "spawned", "attach", "attached", "place",
        "reply", "save", "bill", "cutbill",
        "loop", "gate", "model", "fold", "tools", "keep", "wrap", "verify",
        "render", "settle", "poll",
        "terminal", "handback", "release", "leaseoff", "over"}
Statuses == {"running", "completed", "failed", "stopped"}
Reasons == {"none", "user", "boundary", "bound", "nothing", "unknown", "held"}
TurnRecs ==
    [pc : PCs, chat : Chats \union {NoChat}, expects : BOOLEAN,
     status : Statuses, reason : Reasons, frames : Nat,
     stop : BOOLEAN, cutAt : PCs, coop : BOOLEAN,
     held : BOOLEAN, watch : BOOLEAN, leasing : BOOLEAN,
     late : BOOLEAN,
     run : Nat, budget : Nat, steps : Nat,
     touched : BOOLEAN, claim : Nat, green : Nat, exit : Statuses,
     spent : Nat, paid : Nat, billed : BOOLEAN, unmetered : BOOLEAN,
     saved : BOOLEAN, open : BOOLEAN]

TypeOK ==
    /\ midReply \in [Chats -> 0 .. MaxTurns]
    /\ newest \in [Chats -> 0 .. MaxTurns]
    /\ turn \in [Turns -> TurnRecs]
    /\ slot \in 0 .. MaxTurns
    /\ ask \subseteq Chats
    /\ asked \in 0 .. MaxAsks
    /\ sent \in 0 .. MaxTurns
    /\ used \in Nat

\* _TurnState, with the facts its turn leaves behind: steps of the current run,
\* the run that claimed to be done and the run last found green, tokens spent
\* and metered, a reply saved, a stored tool call without its answer.
NoTurn ==
    [pc |-> "none", chat |-> NoChat, expects |-> FALSE,
     status |-> "running", reason |-> "none", frames |-> 0,
     stop |-> FALSE, cutAt |-> "none", coop |-> FALSE,
     held |-> FALSE, watch |-> FALSE, leasing |-> FALSE,
     late |-> FALSE,
     run |-> 0, budget |-> Retries, steps |-> 0,
     touched |-> FALSE, claim |-> 0, green |-> 0, exit |-> "running",
     spent |-> 0, paid |-> 0, billed |-> FALSE, unmetered |-> FALSE,
     saved |-> FALSE, open |-> FALSE]

Init ==
    /\ midReply = [c \in Chats |-> 0]
    /\ newest = [c \in Chats |-> 0]
    /\ turn = [t \in Turns |-> NoTurn]
    /\ slot = 0
    /\ ask = {} /\ asked = 0
    /\ sent = 0 /\ used = 0

----------------------------------------------------------------------------
\* What the steps share.

At(t, pc) == turn[t].pc = pc
IsBuild(t) == turn[t].chat \in BuildChats
HasProject(t) == turn[t].chat \notin GenericChats
SameProject(t, u) == (turn[t].chat \in Second) = (turn[u].chat \in Second)

\* stop_turn and stop_user_turn_and_wait cancel a running turn once.  What they
\* cancel is the await it is parked at, and nothing else tells the request from
\* its delivery, so the two are one step.
Cut(t, pc) ==
    /\ At(t, pc)
    /\ \E c \in Chats : newest[c] = t
    /\ turn[t].status = "running" /\ ~turn[t].stop
Hit(t) == [turn[t] EXCEPT !.stop = TRUE]

\* A step of one turn alone.
Step(t, rec) ==
    /\ turn' = [turn EXCEPT ![t] = rec]
    /\ UNCHANGED <<midReply, newest, slot, ask, asked, sent>>
Only(t, rec) == Step(t, rec) /\ UNCHANGED used
Goto(t, pc) == Only(t, [turn[t] EXCEPT !.pc = pc])

\* _finish: the status and the terminal frame, with no await between them.  What
\* the run kept to itself is read no more.
Finished(rec, status) ==
    [NoTurn EXCEPT
        !.pc = "terminal", !.status = status, !.frames = rec.frames + 1,
        !.chat = rec.chat, !.stop = rec.stop, !.cutAt = rec.cutAt,
        !.coop = rec.coop, !.held = rec.held, !.watch = rec.watch,
        !.leasing = rec.leasing, !.billed = rec.billed,
        !.spent = rec.spent, !.paid = rec.paid, !.unmetered = rec.unmetered]

\* _bill_once returns without an await: billed already, or nothing spent.
NoBillUnflagged(rec) == rec.spent = 0
NoBill(rec) == rec.billed \/ rec.spent = 0

\* The CancelledError arm: named, finished, and only then billed.
Stopped(rec) ==
    LET stopped == Finished(rec, "stopped")
    IN IF NoBill(rec) THEN stopped ELSE [stopped EXCEPT !.pc = "cutbill"]

\* The other arms bill before they end; a Build turn has nothing to bill.
Failing(rec) ==
    IF NoBill(rec) THEN Finished(rec, "failed")
    ELSE [rec EXCEPT !.pc = "bill", !.exit = "failed"]

\* Leaving _run_write, by return, error or cancellation, through its finally.
Leave(rec, exit) == [rec EXCEPT !.pc = "settle", !.exit = exit]
Ended(rec, reason) == Leave([rec EXCEPT !.reason = reason], "failed")

\* _what_will_release_the_slot: the holder's finish has begun.
LettingGo == slot # 0 /\ At(slot, "handback")

----------------------------------------------------------------------------
\* The routes: a message is admitted, claimed and spawned, or is refused.

\* The send route reads the meter, the guard and the slot, long before it claims.
Send(c, expects) ==
    /\ sent < MaxTurns
    /\ expects => c \in BuildChats
    /\ used < Limit
    /\ midReply[c] = 0
    /\ c \notin GenericChats /\ slot # 0 => LettingGo
    /\ sent' = sent + 1
    /\ turn' = [turn EXCEPT ![sent + 1] =
                   [NoTurn EXCEPT !.pc = "sent", !.chat = c, !.expects = expects]]
    /\ UNCHANGED <<midReply, newest, slot, ask, asked, used>>

\* claim_conversation, or ConversationBusyError.
ClaimUnchecked(t) ==
    /\ At(t, "sent")
    /\ midReply' = [midReply EXCEPT ![turn[t].chat] = t]
    /\ turn' = [turn EXCEPT ![t].pc = "claimed"]
    /\ UNCHANGED <<newest, slot, ask, asked, sent, used>>
Claim(t) ==
    /\ At(t, "sent")
    /\ midReply[turn[t].chat] = 0
    /\ midReply' = [midReply EXCEPT ![turn[t].chat] = t]
    /\ turn' = [turn EXCEPT ![t].pc = "claimed"]
    /\ UNCHANGED <<newest, slot, ask, asked, sent, used>>

Busy(t) ==
    /\ At(t, "sent")
    /\ midReply[turn[t].chat] # 0
    /\ Goto(t, "none")

\* persist_user_turn, then the state and its task; a failure lets go again.
Spawn(t) ==
    /\ At(t, "claimed")
    /\ newest' = [newest EXCEPT ![turn[t].chat] = t]
    /\ turn' = [turn EXCEPT ![t].pc = "spawned"]
    /\ UNCHANGED <<midReply, slot, ask, asked, sent, used>>

SpawnFails(t) ==
    /\ At(t, "claimed")
    /\ midReply' = [midReply EXCEPT ![turn[t].chat] = 0]
    /\ turn' = [turn EXCEPT ![t].pc = "none"]
    /\ UNCHANGED <<newest, slot, ask, asked, sent, used>>

\* The task's first step; cut before it, the task never enters its coroutine.
Wake(t) ==
    /\ At(t, "spawned")
    /\ Goto(t, IF HasProject(t) THEN "attach" ELSE "reply")

NeverEntered(t) ==
    /\ Cut(t, "spawned")
    /\ Only(t, [Hit(t) EXCEPT !.pc = "over", !.cutAt = "spawned"])

----------------------------------------------------------------------------
\* The workspace.

\* ensure_sandbox refuses the project whose session works, waits while one lets
\* go, and takes the slot from another project's.
SlotOpen(t) == slot # 0 => ~SameProject(slot, t)
Takes(t, rec) ==
    /\ slot' = t
    /\ turn' = [turn EXCEPT ![t] = rec]
    /\ UNCHANGED <<midReply, newest, ask, asked, sent, used>>

Attach(t) ==
    /\ At(t, "attach")
    /\ SlotOpen(t)
    /\ Takes(t, [turn[t] EXCEPT !.pc = "attached"])

AttachFailsFree(t) ==
    /\ At(t, "attach")
    /\ slot = 0
    /\ Only(t, Failing([turn[t] EXCEPT !.reason = "held"]))
AttachFails(t) ==
    /\ At(t, "attach")
    /\ Only(t, Failing([turn[t] EXCEPT !.reason = "held"]))

\* A restore registers its session and then awaits the first boot.
AttachCut(t) ==
    /\ Cut(t, "attach")
    /\ LET rec == Stopped([Hit(t) EXCEPT !.cutAt = "attach"])
       IN Only(t, rec) \/ (SlotOpen(t) /\ Takes(t, rec))

\* ensure_sandbox has returned; past the count, the turn knows its session and
\* the two integrity holds may end it.
AdoptAfterTheHolds(t) ==
    /\ At(t, "attached")
    /\ \/ Only(t, [turn[t] EXCEPT !.held = TRUE, !.pc = "place"])
       \/ Only(t, Failing([turn[t] EXCEPT !.reason = "held"]))
Adopt(t) ==
    /\ At(t, "attached")
    /\ LET held == [turn[t] EXCEPT !.held = TRUE, !.pc = "place"]
       IN Only(t, held) \/ Only(t, Failing([held EXCEPT !.reason = "held"]))

AdoptCut(t) ==
    /\ Cut(t, "attached")
    /\ Only(t, Stopped([Hit(t) EXCEPT !.cutAt = "attached"]))

\* Files placed, the dev server started, the watcher and the lease begun; the
\* kind's fork follows without an await.
Place(t) ==
    /\ At(t, "place")
    /\ \/ Only(t, [turn[t] EXCEPT !.watch = TRUE, !.leasing = TRUE,
                                  !.billed = IsBuild(t),
                                  !.pc = IF IsBuild(t) THEN "loop" ELSE "reply"])
       \/ Only(t, Failing([turn[t] EXCEPT !.reason = "held"]))

PlaceCut(t) == Cut(t, "place") /\ Only(t, Stopped(Hit(t)))

----------------------------------------------------------------------------
\* A Plan or BIAL Chat reply: run, save, bill, end.

\* The run counts its requests whether it answers, fails or is cut.
Reply(t) ==
    /\ At(t, "reply")
    /\ \E n \in 0 .. ReplySteps :
         LET rec == [turn[t] EXCEPT !.spent = n]
         IN \/ n > 0 /\ Only(t, [rec EXCEPT !.pc = "save"])
            \/ Only(t, Failing(rec))

ReplyCut(t) ==
    /\ Cut(t, "reply")
    /\ \E n \in 0 .. ReplySteps : Only(t, Stopped([Hit(t) EXCEPT !.spent = n]))

Save(t) ==
    /\ At(t, "save")
    /\ \/ Only(t, [turn[t] EXCEPT !.saved = TRUE, !.pc = "bill",
                                  !.exit = "completed"])
       \/ Only(t, Failing(turn[t]))

SaveCut(t) ==
    /\ Cut(t, "save")
    /\ \E landed \in BOOLEAN : Only(t, Stopped([Hit(t) EXCEPT !.saved = landed]))

Written == IF MeterFails THEN BOOLEAN ELSE {TRUE}

\* _bill_once: the flag first; a store that fails is swallowed.
Metered(t, rec, landed) ==
    /\ Step(t, [rec EXCEPT !.billed = TRUE,
                           !.paid = IF landed THEN @ + rec.spent ELSE @,
                           !.unmetered = ~landed])
    /\ used' = IF landed THEN used + rec.spent ELSE used

Bill(t) ==
    /\ At(t, "bill")
    /\ \E landed \in Written : Metered(t, Finished(turn[t], turn[t].exit), landed)

\* The completed path unwinds to the CancelledError arm, where the bill is taken
\* to be paid; a failing arm finishes the turn where it stands.
BillCutEscapes(t) ==
    /\ Cut(t, "bill")
    /\ \E landed \in BOOLEAN :
         Metered(t, [Hit(t) EXCEPT !.pc = "terminal"], landed)
BillCut(t) ==
    /\ Cut(t, "bill")
    /\ \E landed \in BOOLEAN :
         Metered(t, Stopped([Hit(t) EXCEPT !.billed = TRUE]), landed)

CutBill(t) ==
    /\ At(t, "cutbill")
    /\ \E landed \in Written :
         Metered(t, [turn[t] EXCEPT !.pc = "terminal"], landed)

----------------------------------------------------------------------------
\* A Build turn's self-heal loop (_run_write) and one run of it.

\* The deadline, the hidden re-prompt, the flags of a run set back, the stamp.
LoopKeepingTheClaim(t) ==
    /\ At(t, "loop")
    /\ \/ Only(t, [turn[t] EXCEPT !.run = @ + 1, !.steps = 0, !.pc = "gate"])
       \/ Only(t, Ended(turn[t], "bound"))
Loop(t) ==
    /\ At(t, "loop")
    /\ \/ Only(t, [turn[t] EXCEPT !.run = @ + 1, !.steps = 0, !.claim = 0,
                                  !.pc = "gate"])
       \/ Only(t, Ended(turn[t], "bound"))
       \/ turn[t].run > 0 /\ Only(t, Leave(turn[t], "failed"))

\* Before each request: the day's cap, the turn's budget, the run's ceiling.
OutOfTheTurnsBounds(t) == turn[t].spent >= Budget \/ turn[t].steps >= Ceiling
OutOfBounds(t) ==
    \/ used >= Limit
    \/ turn[t].spent >= Budget
    \/ turn[t].steps >= Ceiling

Gate(t) ==
    /\ At(t, "gate")
    /\ Only(t, IF OutOfBounds(t) THEN Ended(turn[t], "bound")
               ELSE [turn[t] EXCEPT !.pc = "model"])

Model(t) ==
    /\ At(t, "model")
    /\ \/ Only(t, [turn[t] EXCEPT !.steps = @ + 1, !.spent = @ + 1,
                                  !.pc = "fold"])
       \/ Only(t, Leave(turn[t], "failed"))

\* _record_write_step, best effort; the reply called tools or was the last.
Folds(t, rec, landed) ==
    /\ Step(t, [rec EXCEPT !.paid = IF landed THEN @ + 1 ELSE @,
                           !.unmetered = @ \/ ~landed])
    /\ used' = IF landed THEN used + 1 ELSE used

Fold(t) ==
    /\ At(t, "fold")
    /\ \E landed \in Written, next \in {"tools", "wrap"} :
         Folds(t, [turn[t] EXCEPT !.pc = next], landed)

FoldCut(t) ==
    /\ Cut(t, "fold")
    /\ \E landed \in BOOLEAN : Folds(t, Leave(Hit(t), "stopped"), landed)

\* The tools may write the tree and may declare the work done.
Tools(t) ==
    /\ At(t, "tools")
    /\ \E wrote, done \in BOOLEAN :
         Only(t, [turn[t] EXCEPT !.touched = @ \/ wrote,
                                 !.claim = IF done THEN turn[t].run ELSE @,
                                 !.pc = "keep"])

\* _persist_write_step: the reply and its calls are stored, and the answers stay
\* on the next request until that is made or the run is cut here.
Keep(t) ==
    /\ At(t, "keep")
    /\ \/ LET kept == [turn[t] EXCEPT !.open = TRUE]
          IN Only(t, [kept EXCEPT
                !.pc = IF kept.coop \/ kept.claim # 0 THEN "wrap" ELSE "gate"])
       \/ Only(t, Leave(turn[t], "failed"))

KeepCut(t) ==
    /\ Cut(t, "keep")
    /\ \E landed \in BOOLEAN :
         Only(t, Leave([Hit(t) EXCEPT !.open = @ \/ landed], "stopped"))

\* The run is over and its last messages are stored, the pending answers with
\* them; a cooperative stop leaves first, then the mutation guard.
Wrap(t) ==
    /\ At(t, "wrap")
    /\ \/ LET rec == [turn[t] EXCEPT !.open = FALSE] IN
            Only(t, IF rec.coop
                    THEN Leave([rec EXCEPT !.reason = "boundary"], "completed")
                    ELSE IF ~rec.touched /\ rec.expects THEN Ended(rec, "nothing")
                    ELSE IF ~rec.touched /\ rec.claim = 0
                    THEN Leave(rec, "completed")
                    ELSE [rec EXCEPT !.pc = "verify"])
       \/ Only(t, Leave(turn[t], "failed"))

WrapCut(t) ==
    /\ Cut(t, "wrap")
    /\ \E landed \in BOOLEAN :
         Only(t, Leave([Hit(t) EXCEPT !.open = @ /\ ~landed], "stopped"))

\* verify's three answers.
Again(rec) == [rec EXCEPT !.budget = @ - 1, !.pc = "loop"]
VerifyGreen(t) ==
    /\ At(t, "verify")
    /\ LET rec == [turn[t] EXCEPT !.green = turn[t].run]
       IN Only(t, IF rec.claim # 0 THEN [rec EXCEPT !.pc = "render"]
                  ELSE IF rec.budget = 0 THEN Ended(rec, "bound")
                  ELSE Again(rec))
VerifyRedUnbounded(t) == At(t, "verify") /\ Only(t, Again(turn[t]))
VerifyRed(t) ==
    /\ At(t, "verify")
    /\ Only(t, IF turn[t].budget = 0 THEN Ended(turn[t], "bound")
               ELSE Again(turn[t]))
VerifyUnknown(t) ==
    /\ At(t, "verify")
    /\ Only(t, IF turn[t].claim # 0 \/ turn[t].budget = 0
               THEN Ended(turn[t], "unknown") ELSE Again(turn[t]))

\* _render_completion: the closing message is stored or the turn fails.
Render(t) ==
    /\ At(t, "render")
    /\ \/ Only(t, Leave([turn[t] EXCEPT !.saved = TRUE], "completed"))
       \/ Only(t, Leave(turn[t], "failed"))

RenderCut(t) ==
    /\ Cut(t, "render")
    /\ \E landed \in BOOLEAN :
         Only(t, Leave([Hit(t) EXCEPT !.saved = landed], "stopped"))

\* Cut anywhere else in the loop: nothing lasting was under way, a reply the
\* model may have finished apart.
LoopCut(t) ==
    /\ \E pc \in {"loop", "gate", "tools", "verify"} : Cut(t, pc)
    /\ Only(t, Leave(Hit(t), "stopped"))
ModelCut(t) ==
    /\ Cut(t, "model")
    /\ \E n \in {0, 1} : Only(t, Leave([Hit(t) EXCEPT !.spent = @ + n], "stopped"))
ToolsCut(t) ==
    /\ Cut(t, "tools")
    /\ Only(t, Leave([Hit(t) EXCEPT !.touched = TRUE], "stopped"))

\* The end of _run_write as _run_turn sees it: billed per step, so no bill.
Out(rec) == IF rec.exit = "stopped" THEN Stopped(rec) ELSE Finished(rec, rec.exit)

\* The watcher is cancelled and awaited.  A Stop that arrives in that await is
\* caught there and lost; one in the last compile poll is not.
Settles(t, rec) ==
    Only(t, [rec EXCEPT !.watch = FALSE, !.pc = "poll"])
        \/ Only(t, Out([rec EXCEPT !.watch = FALSE]))
Settle(t) == At(t, "settle") /\ Settles(t, turn[t])
SettleCut(t) == Cut(t, "settle") /\ Settles(t, Hit(t))

Poll(t) == At(t, "poll") /\ Only(t, Out(turn[t]))
PollCut(t) == Cut(t, "poll") /\ Only(t, Stopped(Hit(t)))

----------------------------------------------------------------------------
\* The finally of _run_turn; past the terminal frame nothing cancels the task.

\* The change notice, the terminal row and the reading's count, best effort;
\* only then is a Plan turn's watcher stopped.  The turn's accounts are closed.
Terminal(t) ==
    /\ At(t, "terminal")
    /\ Only(t, [turn[t] EXCEPT !.watch = FALSE, !.stop = FALSE, !.billed = FALSE,
                !.spent = 0, !.paid = 0, !.unmetered = FALSE,
                !.pc = IF turn[t].held THEN "handback" ELSE "release"])

\* finish_turn_sandbox: the slot, if it is still this session's.
HandBack(t) ==
    /\ At(t, "handback")
    /\ slot' = IF slot = t THEN 0 ELSE slot
    /\ turn' = [turn EXCEPT ![t].pc = "release"]
    /\ UNCHANGED <<midReply, newest, ask, asked, sent, used>>

Release(t) ==
    /\ At(t, "release")
    /\ midReply' = [midReply EXCEPT ![turn[t].chat] = 0]
    /\ turn' = [turn EXCEPT ![t].pc = "leaseoff"]
    /\ UNCHANGED <<newest, slot, ask, asked, sent, used>>

\* What is left to read of a turn whose task is gone.
Gone(rec) ==
    [NoTurn EXCEPT !.pc = "over", !.chat = rec.chat, !.status = rec.status,
                   !.frames = rec.frames, !.cutAt = rec.cutAt, !.coop = rec.coop]

\* _stop_liveness_lease: the lease, and whatever ask still stands in the chat.
LeaseOff(t) ==
    /\ At(t, "leaseoff")
    /\ ask' = IF turn[t].leasing THEN ask \ {turn[t].chat} ELSE ask
    /\ turn' = [turn EXCEPT ![t] = Gone(turn[t])]
    /\ UNCHANGED <<midReply, newest, slot, asked, sent, used>>

----------------------------------------------------------------------------
\* What reaches into a turn.

\* publish_cooperative_stop, at a chat the shutdown routine believes at work.
Ask(c) ==
    /\ asked < MaxAsks
    /\ c \in BuildChats /\ newest[c] # 0
    /\ ask' = ask \union {c}
    /\ asked' = asked + 1
    /\ UNCHANGED <<midReply, newest, turn, slot, sent, used>>

\* The key's time to live, or the routine's own withdrawal before it cuts.
Withdraw(c) ==
    /\ c \in ask
    /\ ask' = ask \ {c}
    /\ UNCHANGED <<midReply, newest, turn, slot, asked, sent, used>>

\* The lease loop of a Build turn takes the ask, reading and deleting at once.
Observe(t) ==
    /\ turn[t].leasing /\ IsBuild(t) /\ ~turn[t].coop
    /\ turn[t].chat \in ask
    /\ ask' = ask \ {turn[t].chat}
    /\ turn' = [turn EXCEPT ![t].coop = TRUE]
    /\ UNCHANGED <<midReply, newest, slot, asked, sent, used>>

\* _watch_preview polls until it is cancelled: a frame it sends once the turn
\* has told its end finds the stream closed.
LatePreview(t) ==
    /\ turn[t].watch /\ turn[t].frames > 0
    /\ Only(t, [turn[t] EXCEPT !.late = TRUE])

TurnStep(t) ==
    \/ Claim(t) \/ Busy(t) \/ Spawn(t) \/ SpawnFails(t) \/ Wake(t)
    \/ Attach(t) \/ AttachFails(t) \/ Adopt(t) \/ Place(t)
    \/ Reply(t) \/ Save(t) \/ Bill(t) \/ CutBill(t)
    \/ Loop(t) \/ Gate(t) \/ Model(t) \/ Fold(t) \/ Tools(t) \/ Keep(t) \/ Wrap(t)
    \/ VerifyGreen(t) \/ VerifyRed(t) \/ VerifyUnknown(t) \/ Render(t)
    \/ Settle(t) \/ Poll(t)
    \/ Terminal(t) \/ HandBack(t) \/ Release(t) \/ LeaseOff(t)

Stop(t) ==
    \/ NeverEntered(t) \/ AttachCut(t) \/ AdoptCut(t) \/ PlaceCut(t)
    \/ ReplyCut(t) \/ SaveCut(t) \/ BillCut(t)
    \/ LoopCut(t) \/ ModelCut(t) \/ FoldCut(t) \/ ToolsCut(t) \/ KeepCut(t)
    \/ WrapCut(t) \/ RenderCut(t) \/ SettleCut(t) \/ PollCut(t)

Next ==
    \/ \E c \in Chats, expects \in BOOLEAN : Send(c, expects)
    \/ \E c \in Chats : Ask(c) \/ Withdraw(c)
    \/ \E t \in Turns : TurnStep(t) \/ Stop(t) \/ Observe(t) \/ LatePreview(t)

Spec == Init /\ [][Next]_vars

\* Every await of a turn is bounded (a model request, a tool, a store call, the
\* attach), so its task is always stepped again while the process lives.
Fairness == \A t \in Turns : WF_vars(TurnStep(t))
FairSpec == Spec /\ Fairness

----------------------------------------------------------------------------
\* Properties.

Told(t) == turn[t].pc \in {"cutbill", "terminal", "handback",
                           "release", "leaseoff", "over"}
Replying(t) == turn[t].pc \notin {"none", "sent", "leaseoff", "over"}

\* A turn says once that it ended, whatever arm it left by, and a turn that is
\* past its terminal frame has said it, one cut before its first step excepted.
\* The frame closes the stream, and a Build turn sends no preview after it.
OneEnding ==
    \A t \in Turns :
        /\ turn[t].frames <= 1
        /\ IsBuild(t) => ~turn[t].late
        /\ Told(t) /\ turn[t].cutAt # "spawned" =>
              turn[t].frames = 1 /\ turn[t].status # "running"

\* One reply at a time in a chat: from the claim to the release of the guard no
\* other turn of the chat is between them.
OneReplyAtATime ==
    \A t, u \in Turns :
        t # u /\ Replying(t) /\ Replying(u) => turn[t].chat # turn[u].chat

\* A turn that is over holds neither its chat nor the workspace slot, one cut
\* before its first step or before it learnt of its own session excepted.
LetsGo ==
    \A t \in Turns : At(t, "over") =>
        /\ \A c \in Chats : midReply[c] = t => turn[t].cutAt = "spawned"
        /\ slot = t => turn[t].cutAt \in {"attach", "attached"}

\* What the comments promise, every ending letting go of the chat and the slot,
\* does not hold: LetsGo names the two windows.
EveryEndingLetsGo ==
    \A t \in Turns :
        At(t, "over") => slot # t /\ \A c \in Chats : midReply[c] # t

\* A turn told as completed is complete: a saved reply; a build that changed
\* files was found green in the very run that declared it done, and says so in a
\* stored closing message; a build that owed a change made one; and no stored
\* tool call is left without its answer.  A boundary stop claims only the last.
Complete(t) ==
    IF IsBuild(t)
    THEN /\ ~turn[t].open
         /\ turn[t].reason # "boundary" =>
              /\ turn[t].expects => turn[t].touched
              /\ turn[t].touched => /\ turn[t].claim = turn[t].run
                                    /\ turn[t].green = turn[t].run
                                    /\ turn[t].saved
    ELSE turn[t].saved
CompletedIsComplete ==
    [][\A t \in Turns :
         turn[t].status = "running" /\ turn'[t].status = "completed"
         => Complete(t)]_vars

\* The meter takes a turn's spend once and, if it ended without a Stop or a
\* store failure, takes all of it.
SpendReachesTheMeter ==
    \A t \in Turns :
        /\ turn[t].paid <= turn[t].spent
        /\ Told(t) /\ ~At(t, "cutbill") /\ ~turn[t].stop /\ ~turn[t].unmetered =>
              turn[t].paid = turn[t].spent

\* The daily cap is passed by what was already under way when it was reached:
\* one model step of each Build chat, and one reply of each message to another
\* chat, which reads the meter when it is sent and never again.
OvershootIsBounded ==
    used < Limit + Cardinality(BuildChats)
                 + ReplySteps * Cardinality({t \in Turns :
                                    turn[t].chat \in PlanChats \union GenericChats})

\* Every message that was admitted is refused or its turn comes to an end, for
\* good: no turn waits for ever on a slot, a repair or another turn.
TurnsEnd == <>[](\A t \in Turns : turn[t].pc \in {"none", "over"})
=============================================================================
