-------------------------- MODULE TurnEngineProofs --------------------------
(***************************************************************************)
(* What TurnEngine's runs check of its turns, for any number of chats,     *)
(* turns, retries and asks, whether or not the meter answers.              *)
(***************************************************************************)
EXTENDS TurnEngine, FiniteSetTheorems, TLAPS

----------------------------------------------------------------------------
\* The invariant.  Most of it is about one turn's record, whatever the others do.

Before == {"none", "sent", "claimed", "spawned", "attach", "attached", "place"}
Chatting == {"reply", "save", "bill", "cutbill"}
Building == {"loop", "gate", "model", "fold", "tools", "keep", "wrap", "verify", "render"}
Leaving == {"settle", "poll"}
AfterTheEnd == {"cutbill", "terminal", "handback", "release", "leaseoff", "over"}

\* A turn says its end when it comes to it and not before; whoever leaves a run
\* knows how.
SaysItsEnd(r) ==
    /\ r.pc \in AfterTheEnd /\ r.cutAt # "spawned" => r.frames = 1 /\ r.status # "running"
    /\ r.pc \notin AfterTheEnd => r.frames = 0 /\ r.status = "running"
    /\ r.cutAt = "spawned" => r.pc = "over" /\ r.frames = 0
    /\ r.pc \in {"settle", "poll", "bill"} => r.exit # "running"

\* The forks of the two kinds, and the watcher that does not outlive a build.
KeepsToItsKind(r) ==
    /\ r.pc # "none" => r.chat \in Chats
    /\ r.chat \in BuildChats =>
         /\ ~r.late
         /\ r.watch => r.pc \in Building \union {"settle"}
         /\ r.pc \notin Chatting
    /\ r.chat \notin BuildChats => r.pc \notin Building \union Leaving

\* A build pays reply by reply, one behind while it folds; a chat pays at its end.
Accounts(r) ==
    /\ r.paid <= r.spent
    /\ r.pc \in Before => r.spent = 0
    /\ r.pc \in Before \union Chatting => ~r.billed
    /\ r.pc \in Building \union Leaving => r.billed
    /\ ~r.billed => r.paid = 0
    /\ r.pc = "fold" => r.paid < r.spent
    /\ ~r.stop /\ ~r.unmetered =>
         /\ r.pc = "fold" => r.spent = r.paid + 1
         /\ r.pc \in Building \union Leaving \union AfterTheEnd /\ r.pc \notin {"fold", "cutbill"} =>
              r.spent = r.paid

\* What a build knows at each step towards completed.
Completes(r) ==
    /\ r.pc \in Building \ {"loop"} => r.claim \in {0, r.run}
    /\ r.pc \in {"verify", "render"} => ~r.open /\ (r.expects => r.touched)
    /\ r.pc = "render" => r.claim = r.run /\ r.green = r.run
    /\ r.pc \in Leaving /\ r.exit = "completed" =>
         /\ ~r.open
         /\ r.reason # "boundary" =>
              /\ r.expects => r.touched
              /\ r.touched => r.claim = r.run /\ r.green = r.run /\ r.saved
    /\ r.pc = "bill" /\ r.exit = "completed" => r.saved

Sound(r) ==
    /\ r \in TurnRecs
    /\ SaysItsEnd(r) /\ KeepsToItsKind(r) /\ Accounts(r) /\ Completes(r)

\* A chat's guard is the turn's that replies in it, or that was cut unstarted.
Asleep == {"none", "sent", "leaseoff", "over"}
Unstarted(r) == r.pc = "over" /\ r.cutAt = "spawned"
Guarded ==
    /\ \A t \in Turns : turn[t].pc \notin Asleep => midReply[turn[t].chat] = t
    /\ \A c \in Chats : midReply[c] # 0 =>
         LET holder == turn[midReply[c]]
         IN  holder.chat = c /\ (holder.pc \notin Asleep \/ Unstarted(holder))

\* The slot is a turn's that will hand it back, or that was cut before it knew.
MayHold(r) ==
    \/ r.pc = "attached"
    \/ r.held /\ r.pc \notin (Before \ {"place"}) \union {"release", "leaseoff", "over"}
    \/ r.cutAt \in {"attach", "attached"} /\ r.pc \in AfterTheEnd
SlotKept == slot # 0 => MayHold(turn[slot])

Unsent == \A t \in Turns : t > sent => turn[t].pc = "none"

IInv ==
    /\ TypeOK
    /\ \A t \in Turns : Sound(turn[t])
    /\ Guarded /\ SlotKept /\ Unsent

----------------------------------------------------------------------------
\* Leaving: what each arm makes of a sound record.

LEMMA Bounds == /\ MaxTurns \in Nat /\ Retries \in Nat /\ MaxAsks \in Nat
                /\ Limit \in Nat \ {0} /\ ReplySteps \in Nat \ {0}
BY TurnAssumption DEF TurnAssumption

LEMMA Words ==
    /\ {"none", "sent", "claimed", "spawned", "attach", "attached", "place", "reply", "save",
        "bill", "cutbill", "loop", "gate", "model", "fold", "tools", "keep", "wrap", "verify",
        "render", "settle", "poll", "terminal", "handback", "release", "leaseoff", "over"}
          \subseteq PCs
    /\ {"running", "completed", "failed", "stopped"} \subseteq Statuses
    /\ {"none", "user", "boundary", "bound", "nothing", "unknown", "held"} \subseteq Reasons
BY DEF PCs, Statuses, Reasons

LEMMA KindsAreApart == BuildChats \intersect PlanChats = {} /\ NoChat \notin Chats
BY TurnAssumption DEF TurnAssumption

\* A turn that has not told its end, and what it owes the meter when it does.
Unfinished(r) ==
    /\ r \in TurnRecs
    /\ r.chat \in Chats /\ r.status = "running" /\ r.frames = 0 /\ r.cutAt # "spawned"
    /\ r.paid <= r.spent /\ (~r.billed => r.paid = 0)
    /\ r.chat \in BuildChats => ~r.watch /\ (r.billed \/ r.spent = 0)
Square(r) == ~r.stop /\ ~r.unmetered => r.spent = r.paid

\* What a turn keeps when it leaves for its end.
Carries(r, q) == q.chat = r.chat /\ q.held = r.held /\ q.cutAt = r.cutAt

\* _finish says the end once, whatever arm it is reached by.
LEMMA FinishedSaysIt ==
    ASSUME NEW r, Unfinished(r), NEW status \in Statuses \ {"running"}
    PROVE  LET f == Finished(r, status)
           IN  /\ f \in TurnRecs /\ SaysItsEnd(f) /\ KeepsToItsKind(f) /\ Completes(f)
               /\ f.pc = "terminal" /\ f.status = status /\ Carries(r, f)
               /\ f.spent = r.spent /\ f.paid = r.paid /\ f.billed = r.billed
               /\ f.stop = r.stop /\ f.unmetered = r.unmetered
               /\ f.frames = 1 /\ f.watch = r.watch /\ ~f.late
<1> DEFINE f == Finished(r, status)
<1>1. f \in TurnRecs
  <2>1. r \in TurnRecs /\ status \in Statuses
    BY DEF Unfinished
  <2>2. PICK n \in Nat : n = r.frames + 1
    BY <2>1 DEF TurnRecs
  <2> DEFINE f1 == [NoTurn EXCEPT !.pc = "terminal", !.status = status,
                                  !.frames = n, !.chat = r.chat, !.stop = r.stop]
             f2 == [f1 EXCEPT !.cutAt = r.cutAt, !.coop = r.coop, !.held = r.held,
                              !.watch = r.watch, !.leasing = r.leasing]
             f3 == [f2 EXCEPT !.billed = r.billed, !.spent = r.spent, !.paid = r.paid,
                              !.unmetered = r.unmetered]
  <2>3. NoTurn \in TurnRecs
    BY Bounds DEF NoTurn, TurnRecs, PCs, Statuses, Reasons
  <2>4. f1 \in TurnRecs
    BY <2>1, <2>3 DEF TurnRecs, PCs
  <2>5. f2 \in TurnRecs
    <3> HIDE DEF f1
    <3> QED BY <2>1, <2>4 DEF TurnRecs
  <2>6. f3 \in TurnRecs
    <3> HIDE DEF f2
    <3> QED BY <2>1, <2>5 DEF TurnRecs
  <2>7. f = f3
    BY <2>2 DEF Finished
  <2> QED BY <2>6, <2>7
<1>2. SaysItsEnd(f)
  BY DEF Unfinished, Finished, TurnRecs, NoTurn, SaysItsEnd, AfterTheEnd, Statuses
<1>3. KeepsToItsKind(f)
  BY DEF Unfinished, Finished, TurnRecs, NoTurn, KeepsToItsKind, Building, Leaving, Chatting
<1>4. Completes(f)
  BY DEF Unfinished, Finished, TurnRecs, NoTurn, Completes, Building, Leaving
<1>5. /\ f.pc = "terminal" /\ f.status = status /\ Carries(r, f)
      /\ f.spent = r.spent /\ f.paid = r.paid /\ f.billed = r.billed
      /\ f.stop = r.stop /\ f.unmetered = r.unmetered
      /\ f.frames = 1 /\ f.watch = r.watch /\ ~f.late
  BY DEF Unfinished, Finished, NoTurn, Carries
<1> QED BY <1>1, <1>2, <1>3, <1>4, <1>5

\* With its accounts square its record is sound.
LEMMA FinishedIsSound ==
    ASSUME NEW r, Unfinished(r), Square(r), NEW status \in Statuses \ {"running"}
    PROVE  Sound(Finished(r, status))
<1> DEFINE f == Finished(r, status)
<1>1. /\ f \in TurnRecs /\ SaysItsEnd(f) /\ KeepsToItsKind(f) /\ Completes(f)
      /\ f.pc = "terminal" /\ f.spent = r.spent /\ f.paid = r.paid /\ f.billed = r.billed
      /\ f.stop = r.stop /\ f.unmetered = r.unmetered
  BY FinishedSaysIt
<1>2. Accounts(f)
  <2> HIDE DEF f
  <2> QED BY <1>1 DEF Unfinished, Square, Accounts, Before, Building, Leaving, Chatting, AfterTheEnd
<1> QED BY <1>1, <1>2 DEF Sound

\* Nothing left to bill is square, if what was billed is.
LEMMA NoBillIsSquare ==
    ASSUME NEW r, Unfinished(r), r.billed => Square(r), NoBill(r)
    PROVE  Square(r)
BY DEF Unfinished, Square, NoBill, TurnRecs

\* The CancelledError arm.
LEMMA StoppedIsSound ==
    ASSUME NEW r, Unfinished(r), r.billed => Square(r)
    PROVE  LET s == Stopped(r)
           IN  /\ Sound(s) /\ Carries(r, s) /\ s.status = "stopped"
               /\ s.pc \in {"terminal", "cutbill"}
<1> DEFINE f == Finished(r, "stopped")
<1>1. /\ f \in TurnRecs /\ SaysItsEnd(f) /\ KeepsToItsKind(f) /\ Completes(f)
      /\ f.pc = "terminal" /\ f.status = "stopped" /\ Carries(r, f)
      /\ f.spent = r.spent /\ f.paid = r.paid /\ f.billed = r.billed
      /\ f.stop = r.stop /\ f.unmetered = r.unmetered
      /\ f.frames = 1 /\ f.watch = r.watch /\ ~f.late
  BY FinishedSaysIt DEF Statuses
<1>2. CASE NoBill(r)
  BY <1>1, <1>2, NoBillIsSquare, FinishedIsSound DEF Stopped, Statuses
<1>3. CASE ~NoBill(r)
  <2> DEFINE s == [f EXCEPT !.pc = "cutbill"]
  <2>1. Stopped(r) = s
    BY <1>3 DEF Stopped
  <2>2. /\ ~r.billed /\ r.chat \notin BuildChats /\ r.paid <= r.spent /\ r.paid = 0
        /\ r.cutAt # "spawned" /\ r.chat \in Chats
    BY <1>3 DEF NoBill, Unfinished
  <2> HIDE DEF f
  <2>3. s \in TurnRecs /\ s.pc = "cutbill" /\ s.status = "stopped" /\ Carries(r, s)
    BY <1>1 DEF TurnRecs, PCs, Carries
  <2>4. SaysItsEnd(s)
    BY <1>1, <2>2 DEF TurnRecs, SaysItsEnd, AfterTheEnd, Carries
  <2>5. KeepsToItsKind(s)
    BY <1>1, <2>2 DEF TurnRecs, KeepsToItsKind, Building, Leaving, Chatting, Carries
  <2>6. Accounts(s)
    BY <1>1, <2>2 DEF TurnRecs, Accounts, Before, Building, Leaving, Chatting, AfterTheEnd
  <2>7. Completes(s)
    BY <1>1 DEF TurnRecs, Completes, Building, Leaving
  <2> QED BY <2>1, <2>3, <2>4, <2>5, <2>6, <2>7 DEF Sound
<1> QED BY <1>2, <1>3

\* The failing arms, which bill before they end.
LEMMA FailingIsSound ==
    ASSUME NEW r, Unfinished(r), r.billed => Square(r)
    PROVE  LET s == Failing(r)
           IN  /\ Sound(s) /\ Carries(r, s) /\ s.status # "completed"
               /\ s.pc \in {"terminal", "bill"}
<1>1. CASE NoBill(r)
  BY <1>1, NoBillIsSquare, FinishedIsSound, FinishedSaysIt DEF Failing, Statuses
<1>2. CASE ~NoBill(r)
  <2> DEFINE s == [r EXCEPT !.pc = "bill", !.exit = "failed"]
  <2>1. Failing(r) = s
    BY <1>2 DEF Failing
  <2>2. /\ ~r.billed /\ r.chat \notin BuildChats /\ r.paid <= r.spent /\ r.paid = 0
        /\ r.cutAt # "spawned" /\ r.chat \in Chats /\ r.frames = 0 /\ r.status = "running"
        /\ r \in TurnRecs
    BY <1>2 DEF NoBill, Unfinished
  <2>3. s \in TurnRecs /\ s.pc = "bill" /\ s.status = "running" /\ Carries(r, s)
    <3>1. "bill" \in PCs /\ "failed" \in Statuses
      BY Words
    <3> QED BY <2>2, <3>1 DEF TurnRecs, Carries
  <2>4. SaysItsEnd(s)
    BY <2>2 DEF TurnRecs, SaysItsEnd, AfterTheEnd
  <2>5. KeepsToItsKind(s)
    BY <2>2 DEF TurnRecs, KeepsToItsKind, Building, Leaving, Chatting
  <2>6. Accounts(s)
    BY <2>2 DEF TurnRecs, Accounts, Before, Building, Leaving, Chatting, AfterTheEnd
  <2>7. Completes(s)
    BY <2>2 DEF TurnRecs, Completes, Building, Leaving
  <2> QED BY <2>1, <2>3, <2>4, <2>5, <2>6, <2>7 DEF Sound
<1> QED BY <1>1, <1>2

\* _bill_once, at a terminal record that has paid nothing yet.
LEMMA MeteredIsSound ==
    ASSUME NEW r \in TurnRecs, NEW landed \in BOOLEAN, r.pc = "terminal", r.paid = 0,
           SaysItsEnd(r), KeepsToItsKind(r)
    PROVE  LET s == [r EXCEPT !.billed = TRUE,
                              !.paid = IF landed THEN @ + r.spent ELSE @,
                              !.unmetered = ~landed]
           IN  /\ Sound(s) /\ Carries(r, s) /\ s.pc = "terminal" /\ s.status = r.status
<1>1. PICK paid \in Nat : paid = IF landed THEN r.spent ELSE 0
  BY DEF TurnRecs
<1> DEFINE s == [r EXCEPT !.billed = TRUE, !.paid = paid, !.unmetered = ~landed]
<1>2. s \in TurnRecs /\ s.pc = "terminal" /\ s.status = r.status /\ Carries(r, s)
  BY DEF TurnRecs, Carries
<1>3. SaysItsEnd(s) /\ KeepsToItsKind(s)
  BY DEF TurnRecs, SaysItsEnd, KeepsToItsKind, AfterTheEnd, Building, Leaving, Chatting
<1>4. Accounts(s)
  <2>1. /\ s.pc = "terminal" /\ s.billed /\ s.paid = paid /\ s.spent = r.spent
        /\ (~landed => s.unmetered) /\ r.spent \in Nat
    BY DEF TurnRecs
  <2> HIDE DEF s
  <2>2. s.paid <= s.spent /\ (~s.unmetered => s.spent = s.paid)
    BY <1>1, <2>1
  <2> QED BY <2>1, <2>2 DEF Accounts, Before, Building, Leaving, Chatting, AfterTheEnd
<1>5. Completes(s)
  BY DEF TurnRecs, Completes, Building, Leaving
<1>6. r.paid + r.spent = r.spent
  BY DEF TurnRecs
<1> QED BY <1>1, <1>2, <1>3, <1>4, <1>5, <1>6 DEF Sound

\* A build on its way to its finally.
InBuild(r) ==
    /\ r \in TurnRecs
    /\ r.chat \in BuildChats /\ r.status = "running" /\ r.frames = 0 /\ r.cutAt # "spawned"
    /\ r.billed /\ r.paid <= r.spent /\ Square(r) /\ ~r.late
Done(r) ==
    /\ ~r.open
    /\ r.reason # "boundary" =>
         /\ r.expects => r.touched
         /\ r.touched => r.claim = r.run /\ r.green = r.run /\ r.saved

LEMMA LeaveIsSound ==
    ASSUME NEW r, InBuild(r), NEW exit \in Statuses \ {"running"},
           exit = "completed" => Done(r)
    PROVE  LET s == Leave(r, exit)
           IN  Sound(s) /\ Carries(r, s) /\ s.pc = "settle" /\ s.status = "running"
<1> DEFINE s == Leave(r, exit)
<1>1. s \in TurnRecs /\ Carries(r, s) /\ s.pc = "settle" /\ s.status = "running"
  <2>1. exit \in Statuses /\ "settle" \in PCs
    BY Words
  <2> QED BY <2>1 DEF InBuild, Leave, TurnRecs, Carries
<1>2. SaysItsEnd(s)
  BY DEF InBuild, Leave, TurnRecs, SaysItsEnd, AfterTheEnd
<1>3. KeepsToItsKind(s)
  BY DEF InBuild, Leave, TurnRecs, KeepsToItsKind, Building, Leaving, Chatting, Chats
<1>4. Accounts(s)
  BY DEF InBuild, Square, Leave, TurnRecs, Accounts, Before, Building, Leaving, Chatting, AfterTheEnd
<1>5. Completes(s)
  BY DEF InBuild, Done, Leave, TurnRecs, Completes, Building, Leaving
<1> QED BY <1>1, <1>2, <1>3, <1>4, <1>5 DEF Sound

----------------------------------------------------------------------------
\* One turn's step keeps the invariant if its record stays sound and it keeps
\* what the others reckon with.

Stays(r, q) ==
    /\ q.chat = r.chat
    /\ r.pc = "none" => q.pc = "none"
    /\ r.pc \notin Asleep => q.pc \notin Asleep \/ Unstarted(q)
    /\ r.pc \in Asleep => q.pc \in Asleep
    /\ Unstarted(r) => Unstarted(q)
    /\ r.status = "running" /\ q.status = "completed" =>
         IF r.chat \in BuildChats THEN Done(r) ELSE r.saved
Moves(r, q) == Stays(r, q) /\ (MayHold(r) => MayHold(q))

\* No step tells a turn completed that is not.
Honest ==
    \A t \in Turns :
        turn[t].status = "running" /\ turn'[t].status = "completed" => Complete(t)

LEMMA TurnsAreTyped ==
    ASSUME IInv, NEW t \in Turns
    PROVE  Sound(turn[t]) /\ turn[t] \in TurnRecs
BY DEF IInv, Sound

LEMMA TurnStays ==
    ASSUME IInv, NEW t \in Turns, NEW q,
           turn' = [turn EXCEPT ![t] = q], UNCHANGED <<midReply, sent>>,
           Sound(q), Stays(turn[t], q)
    PROVE  /\ turn' \in [Turns -> TurnRecs] /\ turn'[t] = q
           /\ \A u \in Turns : u # t => turn'[u] = turn[u]
           /\ \A u \in Turns : Sound(turn'[u])
           /\ Guarded' /\ Unsent' /\ Honest
<1>1. turn \in [Turns -> TurnRecs] /\ q \in TurnRecs
  BY DEF IInv, TypeOK, Sound
<1>2. /\ turn' \in [Turns -> TurnRecs] /\ turn'[t] = q
      /\ \A u \in Turns : u # t => turn'[u] = turn[u]
  BY <1>1
<1>3. \A u \in Turns : Sound(turn'[u])
  BY <1>2 DEF IInv
<1>4. Guarded'
  <2>1. \A u \in Turns : turn'[u].chat = turn[u].chat
    BY <1>2 DEF Stays
  <2>2. \A u \in Turns : turn'[u].pc \notin Asleep => turn[u].pc \notin Asleep
    BY <1>2 DEF Stays
  <2>3. \A u \in Turns : turn[u].pc \notin Asleep =>
                           turn'[u].pc \notin Asleep \/ Unstarted(turn'[u])
    BY <1>2 DEF Stays
  <2>4. \A u \in Turns : Unstarted(turn[u]) => Unstarted(turn'[u])
    BY <1>2 DEF Stays
  <2>5. midReply \in [Chats -> 0 .. MaxTurns] /\ midReply' = midReply
    BY DEF IInv, TypeOK
  <2>6. ASSUME NEW u \in Turns, turn'[u].pc \notin Asleep
        PROVE  midReply'[turn'[u].chat] = u
    BY <2>1, <2>2, <2>5, <2>6 DEF IInv, Guarded
  <2>7. ASSUME NEW c \in Chats, midReply'[c] # 0
        PROVE  LET holder == turn'[midReply'[c]]
               IN  holder.chat = c /\ (holder.pc \notin Asleep \/ Unstarted(holder))
    <3>1. midReply[c] \in Turns /\ midReply'[c] = midReply[c]
      BY <2>5, <2>7, Bounds DEF Turns
    <3>2. LET holder == turn[midReply[c]]
          IN  holder.chat = c /\ (holder.pc \notin Asleep \/ Unstarted(holder))
      BY <2>5, <2>7 DEF IInv, Guarded
    <3> QED BY <2>1, <2>3, <2>4, <3>1, <3>2
  <2> QED BY <2>6, <2>7 DEF Guarded
<1>5. Unsent'
  BY <1>2 DEF IInv, Unsent, Stays
<1>6. Honest
  <2> SUFFICES ASSUME NEW u \in Turns, turn[u].status = "running", turn'[u].status = "completed"
               PROVE  Complete(u)
    BY DEF Honest
  <2>1. u = t
    BY <1>2
  <2> QED BY <1>2, <2>1 DEF Stays, Complete, Done, IsBuild
<1> QED BY <1>2, <1>3, <1>4, <1>5, <1>6

LEMMA TurnAlone ==
    ASSUME IInv, NEW t \in Turns, NEW q,
           turn' = [turn EXCEPT ![t] = q], UNCHANGED <<midReply, slot, sent>>,
           newest' \in [Chats -> 0 .. MaxTurns], ask' \subseteq Chats,
           asked' \in 0 .. MaxAsks, used' \in Nat,
           Sound(q), Moves(turn[t], q)
    PROVE  IInv' /\ Honest
<1>1. /\ turn' \in [Turns -> TurnRecs] /\ turn'[t] = q
      /\ \A u \in Turns : u # t => turn'[u] = turn[u]
      /\ \A u \in Turns : Sound(turn'[u])
      /\ Guarded' /\ Unsent' /\ Honest
  BY TurnStays DEF Moves
<1>2. TypeOK'
  BY <1>1 DEF IInv, TypeOK
<1>3. SlotKept'
  <2>1. slot' = slot /\ slot \in 0 .. MaxTurns
    BY DEF IInv, TypeOK
  <2>2. ASSUME slot # 0 PROVE MayHold(turn'[slot])
    <3>1. slot \in Turns /\ MayHold(turn[slot])
      BY <2>1, <2>2, Bounds DEF IInv, SlotKept, Turns
    <3> QED BY <1>1, <3>1 DEF Moves
  <2> QED BY <2>1, <2>2 DEF SlotKept
<1> QED BY <1>1, <1>2, <1>3 DEF IInv

LEMMA OnlyKeeps ==
    ASSUME IInv, NEW t \in Turns, NEW q, Only(t, q), Sound(q), Moves(turn[t], q)
    PROVE  IInv' /\ Honest
<1>1. /\ turn' = [turn EXCEPT ![t] = q] /\ UNCHANGED <<midReply, slot, sent>>
      /\ newest' \in [Chats -> 0 .. MaxTurns] /\ ask' \subseteq Chats
      /\ asked' \in 0 .. MaxAsks /\ used' \in Nat
  BY DEF IInv, TypeOK, Only, Step
<1> QED BY <1>1, TurnAlone

\* Leaving for the end or for the finally is such a move.
LEMMA LeavingMoves ==
    ASSUME NEW r, NEW q, q.chat = r.chat, r.held => q.held, r.pc \notin Asleep,
           q.pc \in {"terminal", "cutbill", "bill", "settle"},
           r.pc = "attached" => q.held \/ (q.cutAt \in {"attach", "attached"}
                                             /\ q.pc \in {"terminal", "cutbill"}),
           r.pc \in AfterTheEnd => r.pc = "cutbill" /\ q.pc = "terminal" /\ q.cutAt = r.cutAt,
           q.status = "completed" /\ r.status = "running" =>
             IF r.chat \in BuildChats THEN Done(r) ELSE r.saved
    PROVE  Moves(r, q)
BY DEF Moves, Stays, Carries, Asleep, Unstarted, MayHold, AfterTheEnd, Before

----------------------------------------------------------------------------
\* A Build turn's loop.

LEMMA AtWork ==
    ASSUME NEW r, Sound(r), r.pc \in (Building \union Leaving) \ {"fold"}
    PROVE  InBuild(r)
BY DEF Sound, SaysItsEnd, KeepsToItsKind, Accounts, InBuild, Square, Building, Leaving,
       AfterTheEnd

\* A Stop at any of its awaits: the accounts need not be square.
LEMMA HitAtWork ==
    ASSUME NEW r, Sound(r), r.pc \in Building \union Leaving
    PROVE  LET h == [r EXCEPT !.stop = TRUE] IN InBuild(h) /\ Carries(r, h) /\ h.pc = r.pc
<1> DEFINE h == [r EXCEPT !.stop = TRUE]
<1>1. r \in TurnRecs
  BY DEF Sound
<1>2. h \in TurnRecs
  BY <1>1 DEF TurnRecs
<1> QED
  BY <1>1, <1>2 DEF TurnRecs, Sound, SaysItsEnd, KeepsToItsKind, Accounts, InBuild, Square,
                    Carries, Building, Leaving, AfterTheEnd

LEMMA BuildingIsSound ==
    ASSUME NEW q, InBuild(q), q.pc \in Building \ {"fold"}, Completes(q)
    PROVE  Sound(q)
BY DEF InBuild, Sound, SaysItsEnd, KeepsToItsKind, Accounts, Square, Building, Leaving,
       AfterTheEnd, Before, Chatting, Chats

LEMMA BuildingMoves ==
    ASSUME NEW r, NEW q, r.pc \in Building, q.pc \in Building \union {"settle"},
           q.status = "running", Carries(r, q)
    PROVE  Moves(r, q)
BY DEF Building, Moves, Stays, Carries, Asleep, Unstarted, MayHold, AfterTheEnd, Before

\* Leaving the loop, by a return that is not the completed one, is such a move.
LEMMA LeaveKeeps ==
    ASSUME IInv, NEW t \in Turns, turn[t].pc \in Building,
           NEW r, InBuild(r), Carries(turn[t], r),
           NEW exit \in Statuses \ {"running"}, exit = "completed" => Done(r),
           Only(t, Leave(r, exit))
    PROVE  IInv' /\ Honest
<1> DEFINE q == Leave(r, exit)
<1>1. Sound(q) /\ Carries(r, q) /\ q.pc = "settle" /\ q.status = "running"
  BY LeaveIsSound
<1> HIDE DEF q
<1>2. Moves(turn[t], q)
  <2>1. Carries(turn[t], q)
    BY <1>1 DEF Carries
  <2> QED BY <1>1, <2>1, BuildingMoves
<1>3. Only(t, q)
  BY DEF q
<1> QED BY <1>1, <1>2, <1>3, OnlyKeeps

LEMMA EndedKeeps ==
    ASSUME IInv, NEW t \in Turns, turn[t].pc \in Building,
           NEW r, InBuild(r), Carries(turn[t], r), NEW reason \in Reasons,
           Only(t, Ended(r, reason))
    PROVE  IInv' /\ Honest
<1> DEFINE q == [r EXCEPT !.reason = reason]
<1>1. InBuild(q) /\ Carries(r, q)
  BY DEF InBuild, Square, TurnRecs, Carries
<1>2. Carries(turn[t], q)
  BY <1>1 DEF Carries
<1>3. Only(t, Leave(q, "failed"))
  BY DEF Ended
<1> HIDE DEF q
<1> QED BY <1>1, <1>2, <1>3, LeaveKeeps, Words

LEMMA BuildingKeeps ==
    ASSUME IInv, NEW t \in Turns, turn[t].pc \in Building,
           NEW q, InBuild(q), Carries(turn[t], q), q.pc \in Building \ {"fold"}, Completes(q),
           Only(t, q)
    PROVE  IInv' /\ Honest
<1>1. Sound(q) /\ Moves(turn[t], q)
  BY BuildingIsSound, BuildingMoves DEF InBuild
<1> QED BY <1>1, OnlyKeeps

LEMMA CarriesItself == \A r : Carries(r, r)
BY DEF Carries

LEMMA LoopKeeps ==
    ASSUME IInv, NEW t \in Turns, Loop(t)
    PROVE  IInv' /\ Honest
<1> DEFINE r == turn[t]
<1>1. r.pc = "loop" /\ r.pc \in Building /\ Sound(r) /\ r \in TurnRecs
  BY TurnsAreTyped DEF Loop, At, Building
<1>2. InBuild(r) /\ Carries(r, r)
  BY <1>1, AtWork, CarriesItself
<1>3. PICK n \in Nat : n = r.run + 1
  BY <1>1 DEF TurnRecs
<1> DEFINE q == [r EXCEPT !.run = n, !.steps = 0, !.claim = 0, !.pc = "gate"]
<1>4. CASE Only(t, q)
  <2>1. InBuild(q) /\ Carries(r, q) /\ q.pc = "gate"
    BY <1>2, Words DEF InBuild, Square, TurnRecs, Carries
  <2>2. Completes(q)
    BY <1>1 DEF TurnRecs, Completes, Building, Leaving
  <2> HIDE DEF q
  <2> QED BY <1>1, <1>4, <2>1, <2>2, BuildingKeeps DEF Building
<1>5. CASE Only(t, Ended(r, "bound"))
  BY <1>1, <1>2, <1>5, EndedKeeps, Words
<1>6. CASE Only(t, Leave(r, "failed"))
  BY <1>1, <1>2, <1>6, LeaveKeeps, Words
<1> QED BY <1>3, <1>4, <1>5, <1>6 DEF Loop

LEMMA GateKeeps ==
    ASSUME IInv, NEW t \in Turns, Gate(t)
    PROVE  IInv' /\ Honest
<1> DEFINE r == turn[t]
           q == [r EXCEPT !.pc = "model"]
<1>1. r.pc = "gate" /\ r.pc \in Building /\ Sound(r) /\ r \in TurnRecs
  BY TurnsAreTyped DEF Gate, At, Building
<1>2. InBuild(r) /\ Carries(r, r)
  BY <1>1, AtWork, CarriesItself
<1>3. CASE Only(t, q)
  <2>1. InBuild(q) /\ Carries(r, q) /\ q.pc = "model"
    BY <1>2, Words DEF InBuild, Square, TurnRecs, Carries
  <2>2. Completes(q)
    BY <1>1 DEF TurnRecs, Sound, Completes, Building, Leaving
  <2> HIDE DEF q
  <2> QED BY <1>1, <1>3, <2>1, <2>2, BuildingKeeps DEF Building
<1>4. CASE Only(t, Ended(r, "bound"))
  BY <1>1, <1>2, <1>4, EndedKeeps, Words
<1> QED BY <1>3, <1>4 DEF Gate

\* A reply is one behind on the meter until it is folded.
LEMMA ModelKeeps ==
    ASSUME IInv, NEW t \in Turns, Model(t)
    PROVE  IInv' /\ Honest
<1> DEFINE r == turn[t]
<1>1. r.pc = "model" /\ r.pc \in Building /\ Sound(r) /\ r \in TurnRecs
  BY TurnsAreTyped DEF Model, At, Building
<1>2. InBuild(r) /\ Carries(r, r)
  BY <1>1, AtWork, CarriesItself
<1>3. PICK m \in Nat, n \in Nat : m = r.steps + 1 /\ n = r.spent + 1
  BY <1>1 DEF TurnRecs
<1> DEFINE q == [r EXCEPT !.steps = m, !.spent = n, !.pc = "fold"]
<1>4. CASE Only(t, q)
  <2>1. q \in TurnRecs /\ q.pc = "fold" /\ q.status = "running" /\ Carries(r, q)
    BY <1>2, Words DEF InBuild, TurnRecs, Carries
  <2>2. SaysItsEnd(q) /\ KeepsToItsKind(q) /\ Completes(q)
    BY <1>1, <1>2 DEF TurnRecs, Sound, InBuild, SaysItsEnd, KeepsToItsKind, Completes, Building,
                      Leaving, AfterTheEnd, Chatting, Chats
  <2>3. /\ q.spent = r.spent + 1 /\ q.paid = r.paid /\ q.billed /\ q.stop = r.stop
        /\ q.unmetered = r.unmetered /\ r.spent \in Nat /\ r.paid \in Nat
    BY <1>2, <1>3 DEF InBuild, TurnRecs
  <2> HIDE DEF q
  <2>4. Accounts(q)
    BY <1>2, <2>1, <2>3 DEF InBuild, Square, Accounts, Before, Chatting
  <2>5. Sound(q) /\ Moves(r, q)
    BY <1>1, <2>1, <2>2, <2>4, BuildingMoves DEF Sound, Building
  <2> QED BY <1>4, <2>5, OnlyKeeps
<1>5. CASE Only(t, Leave(r, "failed"))
  BY <1>1, <1>2, <1>5, LeaveKeeps, Words
<1> QED BY <1>3, <1>4, <1>5 DEF Model

\* What folding a reply makes of the accounts.
LEMMA FoldedIsSquare ==
    ASSUME NEW r, r \in TurnRecs, r.chat \in BuildChats, r.status = "running", r.frames = 0,
           r.cutAt # "spawned", r.billed, ~r.late, r.paid < r.spent,
           ~r.stop /\ ~r.unmetered => r.spent = r.paid + 1, NEW landed \in BOOLEAN
    PROVE  LET q == [r EXCEPT !.paid = IF landed THEN @ + 1 ELSE @,
                              !.unmetered = @ \/ ~landed]
           IN  /\ InBuild(q) /\ Carries(r, q) /\ q.pc = r.pc /\ q.exit = r.exit
               /\ Completes(r) => Completes(q)
<1>1. PICK n \in Nat : n = IF landed THEN r.paid + 1 ELSE r.paid
  BY DEF TurnRecs
<1>2. PICK u \in BOOLEAN : u = (r.unmetered \/ ~landed)
  OBVIOUS
<1> DEFINE q == [r EXCEPT !.paid = n, !.unmetered = u]
<1>3. /\ q \in TurnRecs /\ Carries(r, q) /\ q.pc = r.pc /\ q.chat = r.chat /\ q.status = r.status
      /\ q.frames = 0 /\ q.cutAt = r.cutAt /\ q.billed /\ ~q.late /\ q.paid = n
      /\ q.spent = r.spent /\ q.stop = r.stop /\ q.unmetered = u /\ q.exit = r.exit
      /\ r.spent \in Nat /\ r.paid \in Nat
  BY DEF TurnRecs, Carries
<1>4. Completes(r) => Completes(q)
  BY DEF TurnRecs, Completes
<1>5. q = [r EXCEPT !.paid = IF landed THEN @ + 1 ELSE @, !.unmetered = @ \/ ~landed]
  BY <1>1, <1>2
<1> HIDE DEF q
<1>6. InBuild(q)
  <2>1. ~u => landed /\ ~r.unmetered
    BY <1>2
  <2>2. q.paid <= q.spent /\ (landed => q.paid = r.paid + 1)
    BY <1>1, <1>3
  <2>3. Square(q)
    BY <1>3, <2>1, <2>2 DEF Square
  <2> QED BY <1>3, <2>2, <2>3 DEF InBuild
<1> QED BY <1>3, <1>4, <1>5, <1>6

LEMMA UsedIsTyped ==
    ASSUME IInv, NEW t, NEW rec, NEW landed, Folds(t, rec, landed)
    PROVE  /\ UNCHANGED <<midReply, slot, sent>>
           /\ newest' \in [Chats -> 0 .. MaxTurns] /\ ask' \subseteq Chats
           /\ asked' \in 0 .. MaxAsks /\ used' \in Nat
BY DEF IInv, TypeOK, Folds, Step

LEMMA FoldKeeps ==
    ASSUME IInv, NEW t \in Turns, Fold(t)
    PROVE  IInv' /\ Honest
<1>1. PICK landed \in Written, next \in {"tools", "wrap"} :
        Folds(t, [turn[t] EXCEPT !.pc = next], landed)
  BY DEF Fold
<1> DEFINE r == [turn[t] EXCEPT !.pc = next]
           q == [r EXCEPT !.paid = IF landed THEN @ + 1 ELSE @, !.unmetered = @ \/ ~landed]
<1>2. turn[t].pc = "fold" /\ Sound(turn[t]) /\ turn[t] \in TurnRecs
  BY TurnsAreTyped DEF Fold, At
<1>3. landed \in BOOLEAN /\ next \in PCs
  BY Words DEF Written
<1>4. /\ r \in TurnRecs /\ r.chat \in BuildChats /\ r.status = "running" /\ r.frames = 0
      /\ r.cutAt # "spawned" /\ r.billed /\ ~r.late /\ r.paid < r.spent
      /\ (~r.stop /\ ~r.unmetered => r.spent = r.paid + 1)
      /\ Carries(turn[t], r) /\ r.pc = next
  BY <1>2, <1>3 DEF TurnRecs, Sound, SaysItsEnd, KeepsToItsKind, Accounts, Carries, Building,
                    AfterTheEnd
<1>5. Completes(r)
  BY <1>2 DEF TurnRecs, Sound, Completes, Building, Leaving
<1>6. turn' = [turn EXCEPT ![t] = q]
  BY <1>1 DEF Folds, Step
<1> HIDE DEF r
<1>7. InBuild(q) /\ Carries(r, q) /\ q.pc = next /\ Completes(q)
  BY <1>3, <1>4, <1>5, FoldedIsSquare
<1>8. Carries(turn[t], q)
  BY <1>4, <1>7 DEF Carries
<1> HIDE DEF q
<1>9. Sound(q) /\ Moves(turn[t], q)
  BY <1>2, <1>7, <1>8, BuildingIsSound, BuildingMoves DEF InBuild, Building
<1> QED BY <1>1, <1>6, <1>9, UsedIsTyped, TurnAlone

LEMMA FoldCutKeeps ==
    ASSUME IInv, NEW t \in Turns, FoldCut(t)
    PROVE  IInv' /\ Honest
<1>1. PICK landed \in BOOLEAN : Folds(t, Leave(Hit(t), "stopped"), landed)
  BY DEF FoldCut
<1> DEFINE h == [turn[t] EXCEPT !.stop = TRUE]
           r == Leave(h, "stopped")
           q == [r EXCEPT !.paid = IF landed THEN @ + 1 ELSE @, !.unmetered = @ \/ ~landed]
<1>2. turn[t].pc = "fold" /\ Sound(turn[t]) /\ turn[t] \in TurnRecs
  BY TurnsAreTyped DEF FoldCut, Cut, At
<1>3. InBuild(h) /\ Carries(turn[t], h) /\ h.pc = "fold" /\ h.paid < h.spent
  BY <1>2, HitAtWork DEF Building, Sound, Accounts, TurnRecs
<1>4. /\ r \in TurnRecs /\ r.chat \in BuildChats /\ r.status = "running" /\ r.frames = 0
      /\ r.cutAt # "spawned" /\ r.billed /\ ~r.late /\ r.paid < r.spent /\ r.stop
      /\ Carries(h, r) /\ r.pc = "settle" /\ r.exit = "stopped"
  <2> HIDE DEF h
  <2>1. h.stop
    BY <1>2 DEF h, TurnRecs
  <2> QED BY <1>3, <2>1, Words DEF InBuild, Leave, TurnRecs, Carries
<1>5. turn' = [turn EXCEPT ![t] = q]
  BY <1>1 DEF Folds, Step, Hit
<1> HIDE DEF h, r
<1>6. InBuild(q) /\ Carries(r, q) /\ q.pc = "settle" /\ q.exit = "stopped"
  BY <1>4, FoldedIsSquare
<1>7. Carries(turn[t], q)
  BY <1>3, <1>4, <1>6 DEF Carries
<1> HIDE DEF q
<1>8. Sound(q)
  BY <1>6 DEF InBuild, Sound, SaysItsEnd, KeepsToItsKind, Accounts, Square, Completes, Building,
              Leaving, AfterTheEnd, Before, Chatting, Chats
<1>9. Moves(turn[t], q)
  BY <1>2, <1>6, <1>7, BuildingMoves DEF InBuild, Building
<1> QED BY <1>1, <1>5, <1>8, <1>9, UsedIsTyped, TurnAlone

LEMMA ToolsKeeps ==
    ASSUME IInv, NEW t \in Turns, Tools(t)
    PROVE  IInv' /\ Honest
<1>1. PICK wrote, done \in BOOLEAN :
        Only(t, [turn[t] EXCEPT !.touched = @ \/ wrote,
                                !.claim = IF done THEN turn[t].run ELSE @, !.pc = "keep"])
  BY DEF Tools
<1>2. /\ turn[t].pc = "tools" /\ turn[t].pc \in Building /\ turn[t] \in TurnRecs
      /\ Sound(turn[t]) /\ InBuild(turn[t])
  BY TurnsAreTyped, AtWork DEF Tools, At, Building
<1>3. PICK touched \in BOOLEAN, claim \in Nat :
        /\ touched = (turn[t].touched \/ wrote)
        /\ claim = IF done THEN turn[t].run ELSE turn[t].claim
  BY <1>2 DEF TurnRecs
<1> DEFINE q == [turn[t] EXCEPT !.touched = touched, !.claim = claim, !.pc = "keep"]
<1>4. InBuild(q) /\ Carries(turn[t], q) /\ q.pc = "keep"
  BY <1>2, Words DEF InBuild, Square, TurnRecs, Carries
<1>5. Completes(q)
  BY <1>2, <1>3 DEF TurnRecs, Sound, Completes, Building, Leaving
<1>6. Only(t, q)
  BY <1>1, <1>3
<1> HIDE DEF q
<1> QED BY <1>2, <1>4, <1>5, <1>6, BuildingKeeps DEF Building

LEMMA KeepKeeps ==
    ASSUME IInv, NEW t \in Turns, Keep(t)
    PROVE  IInv' /\ Honest
<1>1. /\ turn[t].pc = "keep" /\ turn[t].pc \in Building /\ turn[t] \in TurnRecs
      /\ Sound(turn[t]) /\ InBuild(turn[t])
  BY TurnsAreTyped, AtWork DEF Keep, At, Building
<1> DEFINE wrap == [turn[t] EXCEPT !.open = TRUE, !.pc = "wrap"]
           gate == [turn[t] EXCEPT !.open = TRUE, !.pc = "gate"]
           kept == [turn[t] EXCEPT !.open = TRUE]
<1>2. kept.coop = turn[t].coop /\ kept.claim = turn[t].claim
  BY <1>1 DEF TurnRecs
<1>3. \/ Only(t, wrap)
      \/ Only(t, gate)
      \/ Only(t, Leave(turn[t], "failed"))
  BY <1>2 DEF Keep
<1>4. CASE Only(t, wrap)
  <2>1. InBuild(wrap) /\ Carries(turn[t], wrap) /\ wrap.pc = "wrap" /\ Completes(wrap)
    BY <1>1, Words
    DEF InBuild, Square, TurnRecs, Carries, Sound, Completes, Building, Leaving
  <2> HIDE DEF wrap
  <2> QED BY <1>1, <1>4, <2>1, BuildingKeeps DEF Building
<1>5. CASE Only(t, gate)
  <2>1. InBuild(gate) /\ Carries(turn[t], gate) /\ gate.pc = "gate" /\ Completes(gate)
    BY <1>1, Words
    DEF InBuild, Square, TurnRecs, Carries, Sound, Completes, Building, Leaving
  <2> HIDE DEF gate
  <2> QED BY <1>1, <1>5, <2>1, BuildingKeeps DEF Building
<1>6. CASE Only(t, Leave(turn[t], "failed"))
  BY <1>1, <1>6, LeaveKeeps, Words, CarriesItself
<1> QED BY <1>3, <1>4, <1>5, <1>6

LEMMA WrapKeeps ==
    ASSUME IInv, NEW t \in Turns, Wrap(t)
    PROVE  IInv' /\ Honest
<1>1. /\ turn[t].pc = "wrap" /\ turn[t].pc \in Building /\ turn[t] \in TurnRecs
      /\ Sound(turn[t]) /\ InBuild(turn[t])
  BY TurnsAreTyped, AtWork DEF Wrap, At, Building
<1> DEFINE r == [turn[t] EXCEPT !.open = FALSE]
           told == [r EXCEPT !.reason = "boundary"]
           q == [r EXCEPT !.pc = "verify"]
<1>2. InBuild(r) /\ Carries(turn[t], r) /\ ~r.open
  BY <1>1 DEF InBuild, Square, TurnRecs, Carries
<1>3. /\ r.coop = turn[t].coop /\ r.touched = turn[t].touched /\ r.claim = turn[t].claim
      /\ r.expects = turn[t].expects /\ r.run = turn[t].run /\ r.pc = "wrap" /\ Completes(r)
  BY <1>1 DEF TurnRecs, Sound, Completes, Building, Leaving
<1>4. \/ Only(t, Leave(told, "completed"))
      \/ Only(t, Ended(r, "nothing"))
      \/ ~r.touched /\ ~r.expects /\ Only(t, Leave(r, "completed"))
      \/ (r.expects => r.touched) /\ Only(t, q)
      \/ Only(t, Leave(turn[t], "failed"))
  BY DEF Wrap
<1> HIDE DEF r
<1>5. CASE Only(t, Leave(told, "completed"))
  <2>1. InBuild(told) /\ Carries(r, told) /\ Done(told)
    BY <1>2, Words DEF InBuild, Square, TurnRecs, Carries, Done
  <2>2. Carries(turn[t], told)
    BY <1>2, <2>1 DEF Carries
  <2> HIDE DEF told
  <2> QED BY <1>1, <1>5, <2>1, <2>2, LeaveKeeps, Words
<1>6. CASE Only(t, Ended(r, "nothing"))
  BY <1>1, <1>2, <1>6, EndedKeeps, Words
<1>7. CASE ~r.touched /\ ~r.expects /\ Only(t, Leave(r, "completed"))
  BY <1>1, <1>2, <1>7, LeaveKeeps, Words DEF Done
<1>8. CASE (r.expects => r.touched) /\ Only(t, q)
  <2>1. InBuild(q) /\ Carries(r, q) /\ q.pc = "verify"
    BY <1>2, Words DEF InBuild, Square, TurnRecs, Carries
  <2>2. Completes(q)
    BY <1>2, <1>3, <1>8 DEF InBuild, TurnRecs, Completes, Building, Leaving
  <2>3. Carries(turn[t], q)
    BY <1>2, <2>1 DEF Carries
  <2> HIDE DEF q
  <2> QED BY <1>1, <1>8, <2>1, <2>2, <2>3, BuildingKeeps DEF Building
<1>9. CASE Only(t, Leave(turn[t], "failed"))
  BY <1>1, <1>9, LeaveKeeps, Words, CarriesItself
<1> QED BY <1>4, <1>5, <1>6, <1>7, <1>8, <1>9

\* Another run: one repair less.
LEMMA AgainKeeps ==
    ASSUME IInv, NEW t \in Turns, turn[t].pc \in Building,
           NEW r, InBuild(r), Carries(turn[t], r), r.budget # 0, r.pc \in Building,
           Only(t, Again(r))
    PROVE  IInv' /\ Honest
<1>1. PICK n \in Nat : n = r.budget - 1
  BY DEF InBuild, TurnRecs
<1> DEFINE q == [r EXCEPT !.budget = n, !.pc = "loop"]
<1>2. InBuild(q) /\ Carries(r, q) /\ q.pc = "loop" /\ q \in TurnRecs
  BY Words DEF InBuild, Square, TurnRecs, Carries
<1>3. Only(t, q)
  BY <1>1 DEF Again
<1> HIDE DEF q
<1>4. Carries(turn[t], q) /\ Completes(q)
  BY <1>2 DEF Carries, Completes, Building, Leaving
<1> QED BY <1>2, <1>3, <1>4, BuildingKeeps DEF Building

LEMMA VerifyGreenKeeps ==
    ASSUME IInv, NEW t \in Turns, VerifyGreen(t)
    PROVE  IInv' /\ Honest
<1>1. /\ turn[t].pc = "verify" /\ turn[t].pc \in Building /\ turn[t] \in TurnRecs
      /\ Sound(turn[t]) /\ InBuild(turn[t])
  BY TurnsAreTyped, AtWork DEF VerifyGreen, At, Building
<1> DEFINE r == [turn[t] EXCEPT !.green = turn[t].run]
           q == [r EXCEPT !.pc = "render"]
<1>2. /\ InBuild(r) /\ Carries(turn[t], r) /\ r.pc = "verify"
  BY <1>1 DEF InBuild, Square, TurnRecs, Carries
<1>3. /\ r.claim \in {0, r.run} /\ r.green = r.run /\ ~r.open /\ (r.expects => r.touched)
  BY <1>1 DEF TurnRecs, Sound, Completes, Building
<1>4. \/ r.claim # 0 /\ Only(t, q)
      \/ Only(t, Ended(r, "bound"))
      \/ r.budget # 0 /\ Only(t, Again(r))
  BY DEF VerifyGreen
<1> HIDE DEF r
<1>5. CASE r.claim # 0 /\ Only(t, q)
  <2>1. InBuild(q) /\ Carries(r, q) /\ q.pc = "render"
    BY <1>2, Words DEF InBuild, Square, TurnRecs, Carries
  <2>2. Completes(q)
    BY <1>2, <1>3, <1>5 DEF InBuild, TurnRecs, Completes, Building, Leaving
  <2>3. Carries(turn[t], q)
    BY <1>2, <2>1 DEF Carries
  <2> HIDE DEF q
  <2> QED BY <1>1, <1>5, <2>1, <2>2, <2>3, BuildingKeeps DEF Building
<1>6. CASE Only(t, Ended(r, "bound"))
  BY <1>1, <1>2, <1>6, EndedKeeps, Words
<1>7. CASE r.budget # 0 /\ Only(t, Again(r))
  BY <1>1, <1>2, <1>7, AgainKeeps DEF Building
<1> QED BY <1>4, <1>5, <1>6, <1>7

LEMMA VerifyRedKeeps ==
    ASSUME IInv, NEW t \in Turns, VerifyRed(t) \/ VerifyUnknown(t)
    PROVE  IInv' /\ Honest
<1>1. /\ turn[t].pc \in Building /\ InBuild(turn[t])
  BY TurnsAreTyped, AtWork DEF VerifyRed, VerifyUnknown, At, Building
<1>2. \/ Only(t, Ended(turn[t], "bound"))
      \/ Only(t, Ended(turn[t], "unknown"))
      \/ turn[t].budget # 0 /\ Only(t, Again(turn[t]))
  BY DEF VerifyRed, VerifyUnknown
<1> QED BY <1>1, <1>2, EndedKeeps, AgainKeeps, Words, CarriesItself

LEMMA RenderKeeps ==
    ASSUME IInv, NEW t \in Turns, Render(t)
    PROVE  IInv' /\ Honest
<1>1. /\ turn[t].pc = "render" /\ turn[t].pc \in Building /\ turn[t] \in TurnRecs
      /\ Sound(turn[t]) /\ InBuild(turn[t])
  BY TurnsAreTyped, AtWork DEF Render, At, Building
<1> DEFINE q == [turn[t] EXCEPT !.saved = TRUE]
<1>2. CASE Only(t, Leave(q, "completed"))
  <2>1. InBuild(q) /\ Carries(turn[t], q) /\ Done(q)
    BY <1>1 DEF InBuild, Square, TurnRecs, Carries, Sound, Completes, Done
  <2> HIDE DEF q
  <2> QED BY <1>1, <1>2, <2>1, LeaveKeeps, Words
<1>3. CASE Only(t, Leave(turn[t], "failed"))
  BY <1>1, <1>3, LeaveKeeps, Words, CarriesItself
<1> QED BY <1>2, <1>3 DEF Render

\* A Stop inside the loop, with whatever was under way landed or not.
LEMMA BuildCutKeeps ==
    ASSUME IInv, NEW t \in Turns,
           LoopCut(t) \/ ModelCut(t) \/ ToolsCut(t) \/ KeepCut(t) \/ WrapCut(t) \/ RenderCut(t)
    PROVE  IInv' /\ Honest
<1>1. /\ turn[t].pc \in Building /\ Sound(turn[t]) /\ turn[t] \in TurnRecs
  BY TurnsAreTyped
  DEF LoopCut, ModelCut, ToolsCut, KeepCut, WrapCut, RenderCut, Cut, At, Building
<1> DEFINE h == Hit(t)
<1>2. InBuild(h) /\ Carries(turn[t], h) /\ h \in TurnRecs /\ h.stop
  BY <1>1, HitAtWork DEF Hit, InBuild, TurnRecs
<1> HIDE DEF h
<1>3. ASSUME NEW x, InBuild(x), Carries(h, x), Only(t, Leave(x, "stopped"))
      PROVE  IInv' /\ Honest
  <2>1. Carries(turn[t], x)
    BY <1>2, <1>3 DEF Carries
  <2> QED BY <1>1, <1>3, <2>1, LeaveKeeps, Words
<1>4. CASE LoopCut(t)
  BY <1>2, <1>3, <1>4, CarriesItself DEF LoopCut, h
<1>5. CASE ModelCut(t)
  <2>1. PICK n \in {0, 1} : Only(t, Leave([h EXCEPT !.spent = @ + n], "stopped"))
    BY <1>5 DEF ModelCut, h
  <2>2. PICK m \in Nat : m = h.spent + n
    BY <1>2 DEF TurnRecs
  <2> DEFINE x == [h EXCEPT !.spent = m]
  <2>3. /\ x \in TurnRecs /\ Carries(h, x) /\ x.spent = m /\ x.paid = h.paid /\ x.stop
        /\ x.chat = h.chat /\ x.status = h.status /\ x.frames = h.frames
        /\ x.cutAt = h.cutAt /\ x.billed = h.billed /\ x.late = h.late
        /\ h.paid \in Nat /\ h.spent \in Nat
    BY <1>2 DEF TurnRecs, Carries
  <2>4. Only(t, Leave(x, "stopped"))
    BY <2>1, <2>2
  <2> HIDE DEF x
  <2>5. InBuild(x)
    BY <1>2, <2>2, <2>3 DEF InBuild, Square
  <2> QED BY <1>3, <2>3, <2>4, <2>5
<1>6. CASE ToolsCut(t)
  <2> DEFINE x == [h EXCEPT !.touched = TRUE]
  <2>1. InBuild(x) /\ Carries(h, x)
    BY <1>2 DEF InBuild, Square, TurnRecs, Carries
  <2>2. Only(t, Leave(x, "stopped"))
    BY <1>6 DEF ToolsCut, h
  <2> HIDE DEF x
  <2> QED BY <1>3, <2>1, <2>2
<1>7. CASE KeepCut(t) \/ WrapCut(t)
  <2>1. PICK open \in BOOLEAN : Only(t, Leave([h EXCEPT !.open = open], "stopped"))
    <3>1. h.open \in BOOLEAN
      BY <1>2 DEF TurnRecs
    <3>2. CASE KeepCut(t)
      <4>1. PICK landed \in BOOLEAN :
              Only(t, Leave([h EXCEPT !.open = @ \/ landed], "stopped"))
        BY <3>2 DEF KeepCut, h
      <4> QED BY <3>1, <4>1
    <3>3. CASE WrapCut(t)
      <4>1. PICK landed \in BOOLEAN :
              Only(t, Leave([h EXCEPT !.open = @ /\ ~landed], "stopped"))
        BY <3>3 DEF WrapCut, h
      <4> QED BY <3>1, <4>1
    <3> QED BY <1>7, <3>2, <3>3
  <2> DEFINE x == [h EXCEPT !.open = open]
  <2>2. InBuild(x) /\ Carries(h, x)
    BY <1>2 DEF InBuild, Square, TurnRecs, Carries
  <2> HIDE DEF x
  <2> QED BY <1>3, <2>1, <2>2 DEF x
<1>8. CASE RenderCut(t)
  <2>1. PICK landed \in BOOLEAN : Only(t, Leave([h EXCEPT !.saved = landed], "stopped"))
    BY <1>8 DEF RenderCut, h
  <2> DEFINE x == [h EXCEPT !.saved = landed]
  <2>2. InBuild(x) /\ Carries(h, x)
    BY <1>2 DEF InBuild, Square, TurnRecs, Carries
  <2> HIDE DEF x
  <2> QED BY <1>3, <2>1, <2>2 DEF x
<1> QED BY <1>4, <1>5, <1>6, <1>7, <1>8

----------------------------------------------------------------------------
\* Out of the loop: the watcher, the last poll, the end.

\* InBuild holds of a build that has left; the end says how it left.
LEMMA OutIsSound ==
    ASSUME NEW r, InBuild(r), ~r.watch, r.exit # "running"
    PROVE  LET q == Out(r)
           IN  /\ Sound(q) /\ Carries(r, q) /\ q.pc \in {"terminal", "cutbill"}
               /\ q.status = r.exit
<1>1. Unfinished(r) /\ Square(r) /\ r.exit \in Statuses \ {"running"}
  BY DEF InBuild, Unfinished, Chats, TurnRecs
<1>2. CASE r.exit = "stopped"
  BY <1>1, <1>2, StoppedIsSound DEF Out
<1>3. CASE r.exit # "stopped"
  BY <1>1, <1>3, FinishedIsSound, FinishedSaysIt DEF Out
<1> QED BY <1>2, <1>3

LEMMA OutKeeps ==
    ASSUME IInv, NEW t \in Turns, turn[t].pc \in Leaving,
           NEW r, InBuild(r), ~r.watch, Carries(turn[t], r), r.exit = turn[t].exit,
           Only(t, Out(r))
    PROVE  IInv' /\ Honest
<1>1. Sound(turn[t]) /\ InBuild(turn[t]) /\ turn[t].exit # "running"
  BY TurnsAreTyped, AtWork DEF Leaving, Sound, SaysItsEnd
<1> DEFINE q == Out(r)
<1>2. Sound(q) /\ Carries(r, q) /\ q.pc \in {"terminal", "cutbill"} /\ q.status = r.exit
  BY <1>1, OutIsSound
<1> HIDE DEF q
<1>3. q.status = "completed" => Done(turn[t])
  BY <1>1, <1>2 DEF Sound, Completes, Done
<1>4. Moves(turn[t], q)
  BY <1>1, <1>2, <1>3, LeavingMoves DEF Carries, Leaving, Asleep, AfterTheEnd, InBuild
<1> QED BY <1>2, <1>4, OnlyKeeps DEF q

LEMMA SettlesKeeps ==
    ASSUME IInv, NEW t \in Turns, turn[t].pc = "settle",
           NEW r, InBuild(r), Carries(turn[t], r), r.pc = "settle", Completes(r),
           r.exit = turn[t].exit, Settles(t, r)
    PROVE  IInv' /\ Honest
<1> DEFINE x == [r EXCEPT !.watch = FALSE]
           q == [r EXCEPT !.watch = FALSE, !.pc = "poll"]
<1>1. Sound(turn[t]) /\ turn[t].exit # "running"
  BY TurnsAreTyped DEF Sound, SaysItsEnd
<1>2. CASE Only(t, q)
  <2>1. InBuild(q) /\ Carries(r, q) /\ q.pc = "poll" /\ q.exit = r.exit /\ ~q.watch
    BY Words DEF InBuild, Square, TurnRecs, Carries
  <2>2. Completes(q)
    BY DEF InBuild, TurnRecs, Completes, Building, Leaving
  <2> HIDE DEF q
  <2>3. Sound(q)
    BY <1>1, <2>1, <2>2 DEF InBuild, Square, Sound, SaysItsEnd, KeepsToItsKind, Accounts,
         Building, Leaving, AfterTheEnd, Before, Chatting, Chats
  <2>4. Moves(turn[t], q)
    BY <2>1 DEF InBuild, Moves, Stays, Carries, Asleep, Unstarted, MayHold, AfterTheEnd, Before
  <2> QED BY <1>2, <2>3, <2>4, OnlyKeeps
<1>3. CASE Only(t, Out(x))
  <2>1. InBuild(x) /\ Carries(r, x) /\ x.exit = r.exit /\ ~x.watch
    BY DEF InBuild, Square, TurnRecs, Carries
  <2>2. Carries(turn[t], x)
    BY <2>1 DEF Carries
  <2> HIDE DEF x
  <2> QED BY <1>3, <2>1, <2>2, OutKeeps DEF Leaving
<1> QED BY <1>2, <1>3 DEF Settles

LEMMA SettleKeeps ==
    ASSUME IInv, NEW t \in Turns, Settle(t) \/ SettleCut(t)
    PROVE  IInv' /\ Honest
<1>1. turn[t].pc = "settle" /\ Sound(turn[t]) /\ turn[t] \in TurnRecs
  BY TurnsAreTyped DEF Settle, SettleCut, Cut, At
<1>2. InBuild(turn[t]) /\ Completes(turn[t])
  BY <1>1, AtWork DEF Leaving, Sound
<1> DEFINE h == [turn[t] EXCEPT !.stop = TRUE]
<1>3. InBuild(h) /\ Carries(turn[t], h) /\ h.pc = "settle"
  BY <1>1, HitAtWork DEF Leaving
<1>4. Completes(h) /\ h.exit = turn[t].exit
  BY <1>1, <1>2 DEF TurnRecs, Completes
<1>5. Settles(t, turn[t]) \/ Settles(t, h)
  BY DEF Settle, SettleCut, Hit
<1> HIDE DEF h
<1> QED BY <1>1, <1>2, <1>3, <1>4, <1>5, SettlesKeeps, CarriesItself

LEMMA StoppedKeeps ==
    ASSUME IInv, NEW t \in Turns, turn[t].pc \notin Asleep, turn[t].pc \notin AfterTheEnd,
           NEW r, Unfinished(r), r.billed => Square(r), r.chat = turn[t].chat,
           turn[t].held => r.held,
           turn[t].pc = "attached" => r.cutAt = "attached",
           Only(t, Stopped(r))
    PROVE  IInv' /\ Honest
<1> DEFINE q == Stopped(r)
<1>1. /\ Sound(q) /\ Carries(r, q) /\ q.status = "stopped"
      /\ q.pc \in {"terminal", "cutbill"}
  BY StoppedIsSound
<1> HIDE DEF q
<1>2. Moves(turn[t], q)
  BY <1>1, LeavingMoves DEF Carries
<1> QED BY <1>1, <1>2, OnlyKeeps DEF q

LEMMA PollKeeps ==
    ASSUME IInv, NEW t \in Turns, Poll(t) \/ PollCut(t)
    PROVE  IInv' /\ Honest
<1>1. turn[t].pc = "poll" /\ Sound(turn[t]) /\ turn[t] \in TurnRecs
  BY TurnsAreTyped DEF Poll, PollCut, Cut, At
<1>2. InBuild(turn[t]) /\ ~turn[t].watch
  BY <1>1, AtWork DEF Leaving, Sound, KeepsToItsKind, InBuild, Building
<1>3. CASE Only(t, Out(turn[t]))
  BY <1>1, <1>2, <1>3, OutKeeps, CarriesItself DEF Leaving
<1>4. CASE Only(t, Stopped(Hit(t)))
  <2> DEFINE h == [turn[t] EXCEPT !.stop = TRUE]
  <2>1. InBuild(h) /\ Carries(turn[t], h) /\ ~h.watch /\ h.pc = "poll"
    BY <1>1, <1>2, HitAtWork DEF Leaving, TurnRecs
  <2>2. Only(t, Stopped(h))
    BY <1>4 DEF Hit
  <2> HIDE DEF h
  <2>3. Unfinished(h) /\ Square(h)
    BY <2>1 DEF InBuild, Unfinished, Chats
  <2> QED BY <1>1, <2>1, <2>2, <2>3, StoppedKeeps DEF Carries, Asleep, AfterTheEnd
<1> QED BY <1>3, <1>4 DEF Poll, PollCut

----------------------------------------------------------------------------
\* Before the loop, and a chat's reply.

LEMMA EarlyUnfinished ==
    ASSUME NEW r, Sound(r),
           r.pc \in (Before \ {"none"}) \union {"reply", "save", "bill"}
    PROVE  /\ Unfinished(r) /\ ~r.billed /\ r.paid = 0 /\ r \in TurnRecs
           /\ r.pc \in Before => r.spent = 0 /\ (r.chat \in BuildChats => ~r.watch)
           /\ r.pc \notin Before => r.chat \notin BuildChats
BY DEF Sound, SaysItsEnd, KeepsToItsKind, Accounts, Unfinished, Before, Chatting, Building,
       AfterTheEnd

LEMMA FailingKeeps ==
    ASSUME IInv, NEW t \in Turns, turn[t].pc \in {"attach", "attached", "place", "reply", "save"},
           NEW r, Unfinished(r), r.billed => Square(r), r.chat = turn[t].chat,
           turn[t].held => r.held, turn[t].pc = "attached" => r.held,
           Only(t, Failing(r))
    PROVE  IInv' /\ Honest
<1> DEFINE q == Failing(r)
<1>1. /\ Sound(q) /\ Carries(r, q) /\ q.status # "completed"
      /\ q.pc \in {"terminal", "bill"}
  BY FailingIsSound
<1> HIDE DEF q
<1>2. Moves(turn[t], q)
  BY <1>1, LeavingMoves DEF Carries, Asleep, AfterTheEnd
<1> QED BY <1>1, <1>2, OnlyKeeps DEF q

\* A step that only moves a turn's task along before it forks by kind.
LEMMA GotoKeeps ==
    ASSUME IInv, NEW t \in Turns, Busy(t) \/ Wake(t)
    PROVE  IInv' /\ Honest
<1> DEFINE r == turn[t]
<1>1. Sound(r) /\ r.pc \in {"sent", "spawned"}
  BY TurnsAreTyped DEF Busy, Wake, At
<1>2. Unfinished(r) /\ ~r.billed /\ r.paid = 0 /\ r \in TurnRecs /\ r.spent = 0
      /\ (r.chat \in BuildChats => ~r.watch /\ ~r.late)
  BY <1>1, EarlyUnfinished DEF Before, Sound, KeepsToItsKind
<1>3. PICK pc \in {"none", "attach", "reply"} :
        /\ Only(t, [r EXCEPT !.pc = pc])
        /\ pc = "none" <=> r.pc = "sent"
        /\ pc = "reply" => r.chat \notin BuildChats
  BY <1>1, KindsAreApart, TurnAssumption DEF Busy, Wake, Goto, HasProject, At, TurnAssumption
<1> DEFINE q == [r EXCEPT !.pc = pc]
<1>4. /\ q \in TurnRecs /\ q.pc = pc /\ Carries(r, q) /\ q.status = "running"
      /\ q.frames = 0 /\ q.cutAt # "spawned" /\ ~q.billed /\ q.paid = 0 /\ q.spent = 0
      /\ q.chat \in Chats /\ (q.chat \in BuildChats => ~q.watch /\ ~q.late)
  BY <1>2, Words DEF Unfinished, TurnRecs, Carries
<1> HIDE DEF q
<1>5. Sound(q)
  BY <1>3, <1>4 DEF Sound, SaysItsEnd, KeepsToItsKind, Accounts, Completes, Carries, Before,
     Chatting, Building, Leaving, AfterTheEnd
<1>6. Moves(r, q)
  BY <1>1, <1>2, <1>3, <1>4 DEF Moves, Stays, Carries, Unfinished, Asleep, Unstarted, MayHold,
     AfterTheEnd, Before
<1> QED BY <1>3, <1>5, <1>6, OnlyKeeps DEF q

LEMMA NeverEnteredKeeps ==
    ASSUME IInv, NEW t \in Turns, NeverEntered(t)
    PROVE  IInv' /\ Honest
<1> DEFINE r == turn[t]
           q == [r EXCEPT !.stop = TRUE, !.pc = "over", !.cutAt = "spawned"]
<1>1. Sound(r) /\ r.pc = "spawned"
  BY TurnsAreTyped DEF NeverEntered, Cut, At
<1>2. Unfinished(r) /\ ~r.billed /\ r.paid = 0 /\ r \in TurnRecs /\ r.spent = 0
      /\ (r.chat \in BuildChats => ~r.watch /\ ~r.late)
  BY <1>1, EarlyUnfinished DEF Before, Sound, KeepsToItsKind
<1>3. Only(t, q)
  BY DEF NeverEntered, Hit
<1>4. /\ q \in TurnRecs /\ q.pc = "over" /\ q.chat = r.chat /\ q.status = "running"
      /\ q.frames = 0 /\ q.cutAt = "spawned" /\ ~q.billed /\ q.paid = 0 /\ q.spent = 0
      /\ q.chat \in Chats /\ (q.chat \in BuildChats => ~q.watch /\ ~q.late) /\ q.stop
  BY <1>2, Words DEF Unfinished, TurnRecs
<1> HIDE DEF q
<1>5. Sound(q)
  BY <1>4 DEF Sound, SaysItsEnd, KeepsToItsKind, Accounts, Completes, Before,
     Chatting, Building, Leaving, AfterTheEnd
<1>6. Moves(r, q)
  BY <1>1, <1>2, <1>4 DEF Moves, Stays, Unfinished, Asleep, Unstarted, MayHold, AfterTheEnd, Before
<1> QED BY <1>3, <1>5, <1>6, OnlyKeeps

LEMMA AttachFailsKeeps ==
    ASSUME IInv, NEW t \in Turns, AttachFails(t)
    PROVE  IInv' /\ Honest
<1> DEFINE r == turn[t]
           x == [r EXCEPT !.reason = "held"]
<1>1. Sound(r) /\ r.pc = "attach" /\ Only(t, Failing(x))
  BY TurnsAreTyped DEF AttachFails, At
<1>2. Unfinished(r) /\ ~r.billed /\ r \in TurnRecs
  BY <1>1, EarlyUnfinished DEF Before
<1>3. Unfinished(x) /\ ~x.billed /\ Carries(r, x)
  BY <1>2, Words DEF Unfinished, TurnRecs, Carries
<1> HIDE DEF x
<1> QED BY <1>1, <1>3, FailingKeeps DEF Carries

\* The workspace is the turn's, though it may not know yet.
LEMMA TakesKeeps ==
    ASSUME IInv, NEW t \in Turns, NEW q, Takes(t, q), Sound(q), Moves(turn[t], q), MayHold(q)
    PROVE  IInv' /\ Honest
<1>1. /\ turn' \in [Turns -> TurnRecs] /\ turn'[t] = q
      /\ \A u \in Turns : Sound(turn'[u])
      /\ Guarded' /\ Unsent' /\ Honest
  BY TurnStays DEF Moves, Takes
<1>2. t \in 0 .. MaxTurns
  BY Bounds DEF Turns
<1>3. TypeOK'
  BY <1>1, <1>2 DEF IInv, TypeOK, Takes
<1>4. SlotKept'
  BY <1>1 DEF SlotKept, Takes
<1> QED BY <1>1, <1>3, <1>4 DEF IInv

LEMMA AttachKeeps ==
    ASSUME IInv, NEW t \in Turns, Attach(t)
    PROVE  IInv' /\ Honest
<1> DEFINE r == turn[t]
           q == [r EXCEPT !.pc = "attached"]
<1>1. Sound(r) /\ r.pc = "attach" /\ Takes(t, q)
  BY TurnsAreTyped DEF Attach, At
<1>2. Unfinished(r) /\ ~r.billed /\ r.paid = 0 /\ r \in TurnRecs /\ r.spent = 0
      /\ (r.chat \in BuildChats => ~r.watch /\ ~r.late)
  BY <1>1, EarlyUnfinished DEF Before, Sound, KeepsToItsKind
<1>3. /\ q \in TurnRecs /\ q.pc = "attached" /\ q.chat = r.chat /\ q.status = "running"
      /\ q.frames = 0 /\ q.cutAt # "spawned" /\ ~q.billed /\ q.paid = 0 /\ q.spent = 0
      /\ q.chat \in Chats /\ (q.chat \in BuildChats => ~q.watch /\ ~q.late)
  BY <1>2, Words DEF Unfinished, TurnRecs
<1> HIDE DEF q
<1>4. Sound(q)
  BY <1>3 DEF Sound, SaysItsEnd, KeepsToItsKind, Accounts, Completes, Before,
     Chatting, Building, Leaving, AfterTheEnd
<1>5. MayHold(q) /\ Moves(r, q)
  BY <1>1, <1>3 DEF Moves, Stays, Asleep, Unstarted, MayHold
<1> QED BY <1>1, <1>4, <1>5, TakesKeeps

\* A Stop while the workspace is fetched or handed over, with what it says of it.
LEMMA EarlyHit ==
    ASSUME NEW r, Sound(r), r.pc \in {"attach", "attached"},
           NEW pc \in {"attach", "attached"}
    PROVE  LET x == [r EXCEPT !.stop = TRUE, !.cutAt = pc]
           IN  Unfinished(x) /\ ~x.billed /\ x.chat = r.chat /\ x.held = r.held /\ x.cutAt = pc
<1>1. Unfinished(r) /\ ~r.billed /\ r \in TurnRecs
  BY EarlyUnfinished DEF Before
<1>2. pc \in PCs /\ pc # "spawned"
  BY Words
<1> QED BY <1>1, <1>2 DEF Unfinished, TurnRecs

\* A Stop before a turn's reply is paid for.
LEMMA EarlyStop ==
    ASSUME NEW r, Sound(r), r.pc \in {"place", "reply", "save", "bill"}
    PROVE  LET h == [r EXCEPT !.stop = TRUE]
           IN  /\ Unfinished(h) /\ ~h.billed /\ Carries(r, h)
               /\ h.paid = 0 /\ h.pc = r.pc /\ h.spent = r.spent /\ h.stop
<1>1. Unfinished(r) /\ ~r.billed /\ r.paid = 0 /\ r \in TurnRecs
  BY EarlyUnfinished DEF Before
<1> QED BY <1>1 DEF Unfinished, TurnRecs, Carries

LEMMA AttachCutKeeps ==
    ASSUME IInv, NEW t \in Turns, AttachCut(t)
    PROVE  IInv' /\ Honest
<1> DEFINE r == turn[t]
           x == [r EXCEPT !.stop = TRUE, !.cutAt = "attach"]
           q == Stopped(x)
<1>1. Sound(r) /\ r.pc = "attach"
  BY TurnsAreTyped DEF AttachCut, Cut, At
<1>2. Unfinished(x) /\ ~x.billed /\ x.chat = r.chat /\ x.held = r.held /\ x.cutAt = "attach"
  BY <1>1, EarlyHit
<1>3. Only(t, q) \/ Takes(t, q)
  BY DEF AttachCut, Hit
<1> HIDE DEF x
<1>4. CASE Only(t, q)
  BY <1>1, <1>2, <1>4, StoppedKeeps DEF Asleep, AfterTheEnd
<1>5. CASE Takes(t, q)
  <2>1. /\ Sound(q) /\ Carries(x, q) /\ q.status = "stopped"
        /\ q.pc \in {"terminal", "cutbill"}
    BY <1>2, StoppedIsSound
  <2> HIDE DEF q
  <2>2. MayHold(q)
    BY <1>2, <2>1 DEF MayHold, Carries, AfterTheEnd
  <2>3. Moves(r, q)
    BY <1>1, <1>2, <2>1, LeavingMoves DEF Carries, Asleep, AfterTheEnd
  <2> QED BY <1>5, <2>1, <2>2, <2>3, TakesKeeps
<1> QED BY <1>3, <1>4, <1>5

LEMMA AdoptKeeps ==
    ASSUME IInv, NEW t \in Turns, Adopt(t)
    PROVE  IInv' /\ Honest
<1> DEFINE r == turn[t]
           q == [r EXCEPT !.held = TRUE, !.pc = "place"]
           x == [q EXCEPT !.reason = "held"]
<1>1. Sound(r) /\ r.pc = "attached"
  BY TurnsAreTyped DEF Adopt, At
<1>2. Unfinished(r) /\ ~r.billed /\ r.paid = 0 /\ r \in TurnRecs /\ r.spent = 0
      /\ (r.chat \in BuildChats => ~r.watch /\ ~r.late)
  BY <1>1, EarlyUnfinished DEF Before, Sound, KeepsToItsKind
<1>3. /\ q \in TurnRecs /\ q.pc = "place" /\ q.chat = r.chat /\ q.status = "running" /\ q.held
      /\ q.frames = 0 /\ q.cutAt # "spawned" /\ ~q.billed /\ q.paid = 0 /\ q.spent = 0
      /\ q.chat \in Chats /\ (q.chat \in BuildChats => ~q.watch /\ ~q.late)
  BY <1>2, Words DEF Unfinished, TurnRecs
<1>4. Only(t, q) \/ Only(t, Failing(x))
  BY DEF Adopt
<1> HIDE DEF q
<1>5. CASE Only(t, q)
  <2>1. Sound(q)
    BY <1>3 DEF Sound, SaysItsEnd, KeepsToItsKind, Accounts, Completes, Before,
       Chatting, Building, Leaving, AfterTheEnd
  <2>2. Moves(r, q)
    BY <1>1, <1>3 DEF Moves, Stays, Asleep, Unstarted, MayHold, AfterTheEnd, Before
  <2> QED BY <1>5, <2>1, <2>2, OnlyKeeps
<1>6. CASE Only(t, Failing(x))
  <2>1. Unfinished(x) /\ ~x.billed /\ x.chat = r.chat /\ x.held
    BY <1>3, Words DEF Unfinished, TurnRecs
  <2> HIDE DEF x
  <2> QED BY <1>1, <1>6, <2>1, FailingKeeps
<1> QED BY <1>4, <1>5, <1>6

LEMMA EarlyCutKeeps ==
    ASSUME IInv, NEW t \in Turns, AdoptCut(t) \/ PlaceCut(t)
    PROVE  IInv' /\ Honest
<1> DEFINE r == turn[t]
           x == [r EXCEPT !.stop = TRUE, !.cutAt = "attached"]
           h == [r EXCEPT !.stop = TRUE]
<1>1. CASE AdoptCut(t)
  <2>1. Sound(r) /\ r.pc = "attached" /\ Only(t, Stopped(x))
    BY <1>1, TurnsAreTyped DEF AdoptCut, Cut, At, Hit
  <2>2. Unfinished(x) /\ ~x.billed /\ x.chat = r.chat /\ x.held = r.held /\ x.cutAt = "attached"
    BY <2>1, EarlyHit
  <2> HIDE DEF x
  <2> QED BY <2>1, <2>2, StoppedKeeps DEF Asleep, AfterTheEnd
<1>2. CASE PlaceCut(t)
  <2>1. Sound(r) /\ r.pc = "place" /\ Only(t, Stopped(h))
    BY <1>2, TurnsAreTyped DEF PlaceCut, Cut, At, Hit
  <2>2. Unfinished(h) /\ ~h.billed /\ Carries(r, h)
    BY <2>1, EarlyStop
  <2> HIDE DEF h
  <2> QED BY <2>1, <2>2, StoppedKeeps DEF Carries, Asleep, AfterTheEnd
<1> QED BY <1>1, <1>2

LEMMA PlaceKeeps ==
    ASSUME IInv, NEW t \in Turns, Place(t)
    PROVE  IInv' /\ Honest
<1> DEFINE r == turn[t]
           x == [r EXCEPT !.reason = "held"]
<1>1. Sound(r) /\ r.pc = "place"
  BY TurnsAreTyped DEF Place, At
<1>2. Unfinished(r) /\ ~r.billed /\ r.paid = 0 /\ r \in TurnRecs /\ r.spent = 0
      /\ (r.chat \in BuildChats => ~r.watch /\ ~r.late)
  BY <1>1, EarlyUnfinished DEF Before, Sound, KeepsToItsKind
<1> DEFINE b == IsBuild(t)
           pc == IF b THEN "loop" ELSE "reply"
<1>3. \/ Only(t, [r EXCEPT !.watch = TRUE, !.leasing = TRUE, !.billed = b, !.pc = pc])
      \/ Only(t, Failing(x))
  BY DEF Place
<1>0. /\ b \in BOOLEAN /\ pc \in {"loop", "reply"}
      /\ r.chat \in BuildChats => b /\ pc = "loop"
      /\ r.chat \notin BuildChats => ~b /\ pc = "reply"
  BY DEF IsBuild
<1> HIDE DEF b, pc
<1>4. CASE Only(t, Failing(x))
  <2>1. Unfinished(x) /\ ~x.billed /\ Carries(r, x)
    BY <1>2, Words DEF Unfinished, TurnRecs, Carries
  <2> HIDE DEF x
  <2> QED BY <1>1, <1>4, <2>1, FailingKeeps DEF Carries
<1>5. CASE Only(t, [r EXCEPT !.watch = TRUE, !.leasing = TRUE, !.billed = b, !.pc = pc])
  <2> DEFINE q == [r EXCEPT !.watch = TRUE, !.leasing = TRUE, !.billed = b, !.pc = pc]
  <2>1. /\ q \in TurnRecs /\ q.pc = pc /\ Carries(r, q) /\ q.status = "running"
        /\ q.frames = 0 /\ q.cutAt # "spawned" /\ q.billed = b /\ q.paid = 0 /\ q.spent = 0
        /\ q.chat \in Chats /\ (q.chat \in BuildChats => ~q.late)
    BY <1>0, <1>2, Words DEF Unfinished, TurnRecs, Carries
  <2> HIDE DEF q
  <2>2. Sound(q)
    BY <1>0, <2>1 DEF Sound, SaysItsEnd, KeepsToItsKind, Accounts, Completes, Carries, Before,
       Chatting, Building, Leaving, AfterTheEnd
  <2>3. Moves(r, q)
    BY <1>0, <1>1, <2>1 DEF Moves, Stays, Carries, Asleep, Unstarted, MayHold, AfterTheEnd, Before
  <2> QED BY <1>5, <2>2, <2>3, OnlyKeeps DEF q
<1> QED BY <1>3, <1>4, <1>5

\* What a reply spends before it ends, whichever way it does.
LEMMA SpendingStaysUnfinished ==
    ASSUME NEW r, Unfinished(r), ~r.billed, r.chat \notin BuildChats, NEW n \in Nat
    PROVE  LET x == [r EXCEPT !.spent = n]
           IN  Unfinished(x) /\ ~x.billed /\ Carries(r, x)
BY DEF Unfinished, TurnRecs, Carries

LEMMA ReplyKeeps ==
    ASSUME IInv, NEW t \in Turns, Reply(t) \/ ReplyCut(t)
    PROVE  IInv' /\ Honest
<1> DEFINE r == turn[t]
           h == [r EXCEPT !.stop = TRUE]
<1>1. Sound(r) /\ r.pc = "reply"
  BY TurnsAreTyped DEF Reply, ReplyCut, Cut, At
<1>2. Unfinished(r) /\ ~r.billed /\ r.paid = 0 /\ r \in TurnRecs /\ r.chat \notin BuildChats
  BY <1>1, EarlyUnfinished DEF Before
<1>3. Unfinished(h) /\ ~h.billed /\ Carries(r, h)
  BY <1>1, EarlyStop
<1>4. \A n \in 0 .. ReplySteps : n \in Nat
  BY Bounds
<1>5. CASE Reply(t)
  <2>1. PICK n \in 0 .. ReplySteps :
          \/ Only(t, [r EXCEPT !.spent = n, !.pc = "save"])
          \/ Only(t, Failing([r EXCEPT !.spent = n]))
    <3>1. PICK n \in 0 .. ReplySteps :
            \/ Only(t, [[r EXCEPT !.spent = n] EXCEPT !.pc = "save"])
            \/ Only(t, Failing([r EXCEPT !.spent = n]))
      BY <1>5 DEF Reply
    <3>2. [[r EXCEPT !.spent = n] EXCEPT !.pc = "save"] = [r EXCEPT !.spent = n, !.pc = "save"]
      OBVIOUS
    <3> QED BY <3>1, <3>2
  <2> DEFINE x == [r EXCEPT !.spent = n]
             q == [r EXCEPT !.spent = n, !.pc = "save"]
  <2>2. CASE Only(t, q)
    <3>1. /\ q \in TurnRecs /\ q.pc = "save" /\ Carries(r, q) /\ q.status = "running"
          /\ q.frames = 0 /\ q.cutAt # "spawned" /\ ~q.billed /\ q.paid = 0 /\ q.spent \in Nat
          /\ q.chat \in Chats
      BY <1>2, <1>4, Words DEF Unfinished, TurnRecs, Carries
    <3> HIDE DEF q
    <3>2. Sound(q)
      BY <1>2, <3>1 DEF Sound, SaysItsEnd, KeepsToItsKind, Accounts, Completes, Carries, Before,
         Chatting, Building, Leaving, AfterTheEnd
    <3>3. Moves(r, q)
      BY <1>1, <3>1 DEF Moves, Stays, Carries, Asleep, Unstarted, MayHold, AfterTheEnd, Before
    <3> QED BY <2>2, <3>2, <3>3, OnlyKeeps
  <2>3. CASE Only(t, Failing(x))
    <3>1. Unfinished(x) /\ ~x.billed /\ Carries(r, x)
      BY <1>2, <1>4, SpendingStaysUnfinished
    <3> HIDE DEF x
    <3> QED BY <1>1, <2>3, <3>1, FailingKeeps DEF Carries
  <2> QED BY <2>1, <2>2, <2>3
<1>6. CASE ReplyCut(t)
  <2>1. PICK n \in 0 .. ReplySteps : Only(t, Stopped([h EXCEPT !.spent = n]))
    BY <1>6 DEF ReplyCut, Hit
  <2> HIDE DEF h
  <2> DEFINE x == [h EXCEPT !.spent = n]
  <2>2. Unfinished(x) /\ ~x.billed /\ Carries(h, x)
    BY <1>2, <1>3, <1>4, SpendingStaysUnfinished DEF Carries
  <2>3. Only(t, Stopped(x))
    BY <2>1
  <2> HIDE DEF x
  <2> QED BY <1>1, <1>3, <2>2, <2>3, StoppedKeeps DEF Carries, Asleep, AfterTheEnd
<1> QED BY <1>5, <1>6

LEMMA SaveKeeps ==
    ASSUME IInv, NEW t \in Turns, Save(t) \/ SaveCut(t)
    PROVE  IInv' /\ Honest
<1> DEFINE r == turn[t]
           h == [r EXCEPT !.stop = TRUE]
<1>1. Sound(r) /\ r.pc = "save"
  BY TurnsAreTyped DEF Save, SaveCut, Cut, At
<1>2. Unfinished(r) /\ ~r.billed /\ r.paid = 0 /\ r \in TurnRecs /\ r.chat \notin BuildChats
  BY <1>1, EarlyUnfinished DEF Before
<1>3. Unfinished(h) /\ ~h.billed /\ Carries(r, h)
  BY <1>1, EarlyStop
<1> DEFINE q == [r EXCEPT !.saved = TRUE, !.pc = "bill", !.exit = "completed"]
<1>4. CASE Only(t, q)
  <2>1. /\ q \in TurnRecs /\ q.pc = "bill" /\ Carries(r, q) /\ q.status = "running"
        /\ q.frames = 0 /\ q.cutAt # "spawned" /\ ~q.billed /\ q.paid = 0 /\ q.spent \in Nat
        /\ q.chat \in Chats /\ q.saved /\ q.exit # "running"
    BY <1>2, Words DEF Unfinished, TurnRecs, Carries
  <2> HIDE DEF q
  <2>2. Sound(q)
    BY <1>2, <2>1 DEF Sound, SaysItsEnd, KeepsToItsKind, Accounts, Completes, Carries, Before,
       Chatting, Building, Leaving, AfterTheEnd
  <2>3. Moves(r, q)
    BY <1>1, <2>1 DEF Moves, Stays, Carries, Asleep, Unstarted, MayHold, AfterTheEnd, Before
  <2> QED BY <1>4, <2>2, <2>3, OnlyKeeps
<1>5. CASE Only(t, Failing(r))
  BY <1>1, <1>2, <1>5, FailingKeeps
<1>6. CASE SaveCut(t)
  <2>1. PICK landed \in BOOLEAN : Only(t, Stopped([h EXCEPT !.saved = landed]))
    BY <1>6 DEF SaveCut, Hit
  <2> HIDE DEF h
  <2> DEFINE x == [h EXCEPT !.saved = landed]
  <2>2. Unfinished(x) /\ ~x.billed /\ Carries(h, x)
    BY <1>3 DEF Unfinished, TurnRecs, Carries
  <2>3. Only(t, Stopped(x))
    BY <2>1
  <2> HIDE DEF x
  <2> QED BY <1>1, <1>3, <2>2, <2>3, StoppedKeeps DEF Carries, Asleep, AfterTheEnd
<1> QED BY <1>4, <1>5, <1>6 DEF Save

\* The bill, at a terminal record or at one on its way there.
LEMMA MeteredKeeps ==
    ASSUME IInv, NEW t \in Turns, turn[t].pc \in {"bill", "cutbill"},
           NEW r \in TurnRecs, NEW landed \in BOOLEAN, Metered(t, r, landed),
           r.pc = "terminal", r.paid = 0, SaysItsEnd(r), KeepsToItsKind(r),
           r.chat = turn[t].chat, turn[t].held => r.held, r.cutAt = turn[t].cutAt,
           r.status = "completed" /\ turn[t].status = "running" => turn[t].saved
    PROVE  IInv' /\ Honest
<1> DEFINE q == [r EXCEPT !.billed = TRUE,
                          !.paid = IF landed THEN @ + r.spent ELSE @,
                          !.unmetered = ~landed]
<1>1. Sound(q) /\ Carries(r, q) /\ q.pc = "terminal" /\ q.status = r.status
  BY MeteredIsSound
<1>2. Step(t, q) /\ used' \in Nat
  BY DEF Metered, TurnRecs, IInv, TypeOK
<1> HIDE DEF q
<1>3. Sound(turn[t]) /\ turn[t].chat \notin BuildChats
  BY TurnsAreTyped DEF Sound, KeepsToItsKind, Chatting
<1>4. Moves(turn[t], q)
  BY <1>1, <1>3, LeavingMoves DEF Carries, Asleep, AfterTheEnd
<1>5. /\ turn' = [turn EXCEPT ![t] = q] /\ UNCHANGED <<midReply, slot, sent>>
      /\ newest' \in [Chats -> 0 .. MaxTurns] /\ ask' \subseteq Chats
      /\ asked' \in 0 .. MaxAsks
  BY <1>2 DEF IInv, TypeOK, Step
<1> QED BY <1>1, <1>2, <1>4, <1>5, TurnAlone

LEMMA BillKeeps ==
    ASSUME IInv, NEW t \in Turns, Bill(t)
    PROVE  IInv' /\ Honest
<1> DEFINE r == turn[t]
<1>1. Sound(r) /\ r.pc = "bill"
  BY TurnsAreTyped DEF Bill, At
<1>2. /\ Unfinished(r) /\ ~r.billed /\ r.paid = 0 /\ r.exit \in Statuses \ {"running"}
      /\ r.exit = "completed" => r.saved
  BY <1>1, EarlyUnfinished DEF Sound, SaysItsEnd, Completes, TurnRecs
<1> DEFINE f == Finished(r, r.exit)
<1>3. /\ f \in TurnRecs /\ SaysItsEnd(f) /\ KeepsToItsKind(f) /\ f.pc = "terminal"
      /\ f.status = r.exit /\ Carries(r, f) /\ f.paid = 0
  BY <1>2, FinishedSaysIt
<1>4. PICK landed \in BOOLEAN : Metered(t, f, landed)
  BY DEF Bill, Written
<1> HIDE DEF f
<1> QED BY <1>1, <1>2, <1>3, <1>4, MeteredKeeps DEF Carries

LEMMA BillCutKeeps ==
    ASSUME IInv, NEW t \in Turns, BillCut(t)
    PROVE  IInv' /\ Honest
<1> DEFINE r == turn[t]
           h == [r EXCEPT !.stop = TRUE]
           x == [h EXCEPT !.billed = TRUE]
           f == Finished(x, "stopped")
<1>1. Sound(r) /\ r.pc = "bill"
  BY TurnsAreTyped DEF BillCut, Cut, At
<1>2. Unfinished(h) /\ ~h.billed /\ Carries(r, h) /\ h.paid = 0
  <2>1. Unfinished(h) /\ ~h.billed /\ Carries(r, h)
    BY <1>1, EarlyStop
  <2> QED BY <2>1 DEF Unfinished
<1> HIDE DEF h
<1>3. PICK landed \in BOOLEAN : Metered(t, Stopped(x), landed)
  <2>1. Hit(t) = h
    BY DEF Hit, h
  <2> QED BY <2>1 DEF BillCut
<1>4. Unfinished(x) /\ x.billed /\ Carries(h, x) /\ x.paid = 0
  BY <1>2 DEF Unfinished, TurnRecs, Carries
<1> HIDE DEF x
<1>5. Stopped(x) = f
  BY <1>4 DEF Stopped, NoBill
<1>6. /\ f \in TurnRecs /\ SaysItsEnd(f) /\ KeepsToItsKind(f) /\ f.pc = "terminal"
      /\ f.status = "stopped" /\ Carries(x, f) /\ f.paid = 0
  BY <1>4, FinishedSaysIt, Words
<1> HIDE DEF f
<1> QED BY <1>1, <1>2, <1>3, <1>4, <1>5, <1>6, MeteredKeeps DEF Carries

LEMMA CutBillKeeps ==
    ASSUME IInv, NEW t \in Turns, CutBill(t)
    PROVE  IInv' /\ Honest
<1> DEFINE r == turn[t]
           q == [r EXCEPT !.pc = "terminal"]
<1>1. Sound(r) /\ r.pc = "cutbill" /\ r \in TurnRecs
  BY TurnsAreTyped DEF CutBill, At
<1>2. r.paid = 0 /\ r.status # "running"
  BY <1>1 DEF Sound, SaysItsEnd, Accounts, Chatting, AfterTheEnd
<1>3. q \in TurnRecs /\ q.pc = "terminal" /\ Carries(r, q) /\ q.paid = 0
  BY <1>1, <1>2, Words DEF TurnRecs, Carries
<1>4. SaysItsEnd(q) /\ KeepsToItsKind(q)
  BY <1>1 DEF TurnRecs, Sound, SaysItsEnd, KeepsToItsKind, AfterTheEnd, Building, Leaving,
     Chatting
<1>5. PICK landed \in BOOLEAN : Metered(t, q, landed)
  BY DEF CutBill, Written
<1> HIDE DEF q
<1> QED BY <1>1, <1>2, <1>3, <1>4, <1>5, MeteredKeeps DEF Carries

----------------------------------------------------------------------------
\* The finally, and the guard of a chat.

LEMMA TerminalKeeps ==
    ASSUME IInv, NEW t \in Turns, Terminal(t)
    PROVE  IInv' /\ Honest
<1> DEFINE r == turn[t]
           pc == IF r.held THEN "handback" ELSE "release"
           x == [r EXCEPT !.watch = FALSE, !.stop = FALSE, !.billed = FALSE, !.spent = 0]
           q == [x EXCEPT !.paid = 0, !.unmetered = FALSE, !.pc = pc]
<1>1. Sound(r) /\ r.pc = "terminal" /\ r \in TurnRecs /\ Only(t, q)
  BY TurnsAreTyped DEF Terminal, At
<1>2. /\ x \in TurnRecs /\ Carries(r, x) /\ ~x.watch /\ ~x.billed /\ x.spent = 0
      /\ x.status = r.status /\ x.frames = r.frames /\ x.late = r.late
  BY <1>1 DEF TurnRecs, Carries
<1>3. pc \in {"handback", "release"} /\ (r.held => pc = "handback")
  OBVIOUS
<1> HIDE DEF x, pc
<1>4. /\ q \in TurnRecs /\ Carries(r, q) /\ ~q.watch /\ ~q.billed /\ q.spent = 0 /\ q.paid = 0
      /\ q.status = r.status /\ q.frames = r.frames /\ q.late = r.late /\ q.pc = pc
  BY <1>2, <1>3, Words DEF TurnRecs, Carries
<1> HIDE DEF q
<1>5. Sound(q)
  BY <1>1, <1>3, <1>4 DEF Sound, SaysItsEnd, KeepsToItsKind, Accounts, Completes, Carries, Before,
     Chatting, Building, Leaving, AfterTheEnd
<1>6. Moves(r, q)
  BY <1>1, <1>3, <1>4 DEF Moves, Stays, Sound, SaysItsEnd, Carries, Asleep, Unstarted, MayHold,
     AfterTheEnd, Before
<1> QED BY <1>1, <1>5, <1>6, OnlyKeeps

\* Past the terminal frame only the counter moves on.
LEMMA ClosingIsSound ==
    ASSUME NEW r, Sound(r), r.pc \in {"handback", "release", "leaseoff"},
           NEW pc \in {"release", "leaseoff"}
    PROVE  LET q == [r EXCEPT !.pc = pc]
           IN  /\ Sound(q) /\ Carries(r, q) /\ q.pc = pc /\ q.status = r.status
               /\ q.status # "running" /\ ~Unstarted(q)
<1> DEFINE q == [r EXCEPT !.pc = pc]
<1>1. /\ q \in TurnRecs /\ Carries(r, q) /\ q.pc = pc /\ q.status = r.status
      /\ q.watch = r.watch /\ q.late = r.late /\ q.billed = r.billed /\ q.frames = r.frames
      /\ q.stop = r.stop /\ q.unmetered = r.unmetered /\ q.spent = r.spent /\ q.paid = r.paid
  BY Words DEF Sound, TurnRecs, Carries
<1>2. Sound(q) /\ q.status # "running" /\ ~Unstarted(q)
  <2> HIDE DEF q
  <2> QED
    BY <1>1 DEF Sound, SaysItsEnd, KeepsToItsKind, Accounts, Completes, Carries, Before,
       Chatting, Building, Leaving, AfterTheEnd, Unstarted
<1> QED BY <1>1, <1>2

LEMMA HandBackKeeps ==
    ASSUME IInv, NEW t \in Turns, HandBack(t)
    PROVE  IInv' /\ Honest
<1> DEFINE q == [turn[t] EXCEPT !.pc = "release"]
<1>1. Sound(turn[t]) /\ turn[t].pc = "handback" /\ turn' = [turn EXCEPT ![t] = q]
  BY TurnsAreTyped DEF HandBack, At
<1>2. /\ Sound(q) /\ Carries(turn[t], q) /\ q.pc = "release" /\ q.status = turn[t].status
      /\ q.status # "running" /\ ~Unstarted(q)
  BY <1>1, ClosingIsSound
<1> HIDE DEF q
<1>3. Stays(turn[t], q)
  BY <1>1, <1>2 DEF Stays, Carries, Asleep, Unstarted
<1>4. /\ turn' \in [Turns -> TurnRecs] /\ \A u \in Turns : u # t => turn'[u] = turn[u]
      /\ \A u \in Turns : Sound(turn'[u])
      /\ Guarded' /\ Unsent' /\ Honest
  BY <1>1, <1>2, <1>3, TurnStays DEF HandBack
<1>5. slot' \in {0, slot} /\ slot' # t /\ slot \in 0 .. MaxTurns
  BY Bounds DEF HandBack, Turns, IInv, TypeOK
<1>6. TypeOK'
  BY <1>4, <1>5, Bounds DEF IInv, TypeOK, HandBack
<1>7. SlotKept'
  <2>1. ASSUME slot' # 0 PROVE MayHold(turn'[slot'])
    <3>1. slot' = slot /\ slot \in Turns /\ turn'[slot] = turn[slot]
      BY <1>4, <1>5, <2>1, Bounds DEF Turns
    <3> QED BY <2>1, <3>1 DEF IInv, SlotKept
  <2> QED BY <2>1 DEF SlotKept
<1> QED BY <1>4, <1>6, <1>7 DEF IInv

\* A turn that lets go of its chat and is gone from it.
LEMMA LettingGoKeeps ==
    ASSUME IInv, NEW t \in Turns, turn[t].pc \in {"claimed", "release"},
           NEW q, Sound(q), q.pc \in {"none", "leaseoff"}, q.chat = turn[t].chat,
           MayHold(turn[t]) => MayHold(q), q.status = turn[t].status,
           turn' = [turn EXCEPT ![t] = q],
           midReply' = [midReply EXCEPT ![turn[t].chat] = 0],
           UNCHANGED <<newest, slot, ask, asked, sent, used>>
    PROVE  IInv' /\ Honest
<1>1. turn \in [Turns -> TurnRecs] /\ q \in TurnRecs /\ turn[t].chat \in Chats
      /\ midReply \in [Chats -> 0 .. MaxTurns] /\ slot \in 0 .. MaxTurns
  BY DEF IInv, TypeOK, Sound, KeepsToItsKind
<1>2. /\ turn' \in [Turns -> TurnRecs] /\ turn'[t] = q
      /\ \A u \in Turns : u # t => turn'[u] = turn[u]
      /\ \A u \in Turns : turn'[u].chat = turn[u].chat /\ turn'[u].status = turn[u].status
  BY <1>1
<1>3. /\ midReply' \in [Chats -> 0 .. MaxTurns] /\ midReply'[turn[t].chat] = 0
      /\ \A c \in Chats : c # turn[t].chat => midReply'[c] = midReply[c]
  BY <1>1, Bounds
<1>4. TypeOK'
  BY <1>2, <1>3 DEF IInv, TypeOK
<1>5. \A u \in Turns : Sound(turn'[u])
  BY <1>2 DEF IInv
<1>6. Guarded'
  <2>1. midReply[turn[t].chat] = t
    BY DEF IInv, Guarded, Asleep
  <2>2. ASSUME NEW u \in Turns, turn'[u].pc \notin Asleep
        PROVE  midReply'[turn'[u].chat] = u
    <3>1. u # t
      BY <1>2, <2>2 DEF Asleep
    <3>2. midReply[turn[u].chat] = u /\ turn[u].chat \in Chats
      BY <1>2, <2>2, <3>1 DEF IInv, Guarded, Sound, KeepsToItsKind, Asleep
    <3> QED BY <1>2, <1>3, <2>1, <3>1, <3>2
  <2>3. ASSUME NEW c \in Chats, midReply'[c] # 0
        PROVE  LET holder == turn'[midReply'[c]]
               IN  holder.chat = c /\ (holder.pc \notin Asleep \/ Unstarted(holder))
    <3>1. midReply'[c] = midReply[c] /\ midReply[c] # 0 /\ midReply[c] \in Turns
      BY <1>1, <1>3, <2>3, Bounds DEF Turns
    <3>2. LET holder == turn[midReply[c]]
          IN  holder.chat = c /\ (holder.pc \notin Asleep \/ Unstarted(holder))
      BY <3>1 DEF IInv, Guarded
    <3>3. midReply[c] # t
      BY <1>3, <2>3, <3>2
    <3> QED BY <1>2, <3>1, <3>2, <3>3
  <2> QED BY <2>2, <2>3 DEF Guarded
<1>7. SlotKept'
  <2>1. ASSUME slot # 0 PROVE MayHold(turn'[slot])
    <3>1. slot \in Turns /\ MayHold(turn[slot])
      BY <1>1, <2>1, Bounds DEF IInv, SlotKept, Turns
    <3> QED BY <1>2, <3>1
  <2> QED BY <2>1 DEF SlotKept
<1>8. Unsent'
  BY <1>2 DEF IInv, Unsent
<1>9. Honest
  BY <1>2 DEF Honest
<1> QED BY <1>4, <1>5, <1>6, <1>7, <1>8, <1>9 DEF IInv

LEMMA ReleaseKeeps ==
    ASSUME IInv, NEW t \in Turns, Release(t)
    PROVE  IInv' /\ Honest
<1> DEFINE q == [turn[t] EXCEPT !.pc = "leaseoff"]
<1>1. Sound(turn[t]) /\ turn[t].pc = "release" /\ turn' = [turn EXCEPT ![t] = q]
  BY TurnsAreTyped DEF Release, At
<1>2. /\ Sound(q) /\ Carries(turn[t], q) /\ q.pc = "leaseoff" /\ q.status = turn[t].status
  BY <1>1, ClosingIsSound
<1> HIDE DEF q
<1>3. MayHold(turn[t]) => MayHold(q)
  BY <1>1, <1>2 DEF MayHold, Carries, AfterTheEnd, Before
<1> QED BY <1>1, <1>2, <1>3, LettingGoKeeps DEF Release, Carries

\* A claim, or its undoing, of a turn no task has begun.
LEMMA BeginningIsSound ==
    ASSUME NEW r, Sound(r), r.pc \in {"sent", "claimed"}, NEW pc \in {"none", "claimed", "spawned"}
    PROVE  LET q == [r EXCEPT !.pc = pc]
           IN  Sound(q) /\ Carries(r, q) /\ q.pc = pc /\ q.status = "running" /\ r.status = "running"
<1> DEFINE q == [r EXCEPT !.pc = pc]
<1>1. Unfinished(r) /\ ~r.billed /\ r.paid = 0 /\ r \in TurnRecs /\ r.spent = 0
      /\ (r.chat \in BuildChats => ~r.watch /\ ~r.late)
  BY EarlyUnfinished DEF Before, Sound, KeepsToItsKind
<1>2. /\ q \in TurnRecs /\ q.pc = pc /\ Carries(r, q) /\ q.status = "running"
      /\ q.frames = 0 /\ q.cutAt # "spawned" /\ ~q.billed /\ q.paid = 0 /\ q.spent = 0
      /\ q.chat \in Chats /\ (q.chat \in BuildChats => ~q.watch /\ ~q.late)
  BY <1>1, Words DEF Unfinished, TurnRecs, Carries
<1>3. Sound(q)
  <2> HIDE DEF q
  <2> QED
    BY <1>1, <1>2 DEF Unfinished, Sound, SaysItsEnd, KeepsToItsKind, Accounts, Completes, Before,
       Chatting, Building, Leaving, AfterTheEnd
<1> QED BY <1>1, <1>2, <1>3 DEF Unfinished

LEMMA SpawnKeeps ==
    ASSUME IInv, NEW t \in Turns, Spawn(t) \/ SpawnFails(t)
    PROVE  IInv' /\ Honest
<1>1. Sound(turn[t]) /\ turn[t].pc = "claimed"
  BY TurnsAreTyped DEF Spawn, SpawnFails, At
<1>2. CASE Spawn(t)
  <2> DEFINE q == [turn[t] EXCEPT !.pc = "spawned"]
  <2>1. Sound(q) /\ Carries(turn[t], q) /\ q.pc = "spawned" /\ q.status = "running"
    BY <1>1, BeginningIsSound
  <2>2. turn' = [turn EXCEPT ![t] = q]
    BY <1>2 DEF Spawn
  <2> HIDE DEF q
  <2>3. Moves(turn[t], q)
    BY <1>1, <2>1 DEF Moves, Stays, Carries, Asleep, Unstarted, MayHold, AfterTheEnd, Before
  <2>4. newest' \in [Chats -> 0 .. MaxTurns]
    <3>1. newest \in [Chats -> 0 .. MaxTurns] /\ t \in 0 .. MaxTurns
      BY Bounds DEF IInv, TypeOK, Turns
    <3>2. newest' = [newest EXCEPT ![turn[t].chat] = t]
      BY <1>2 DEF Spawn
    <3> QED BY <3>1, <3>2
  <2>5. /\ UNCHANGED <<midReply, slot, sent>> /\ ask' \subseteq Chats
        /\ asked' \in 0 .. MaxAsks /\ used' \in Nat
    BY <1>2 DEF Spawn, IInv, TypeOK
  <2> QED BY <2>1, <2>2, <2>3, <2>4, <2>5, TurnAlone
<1>3. CASE SpawnFails(t)
  <2> DEFINE q == [turn[t] EXCEPT !.pc = "none"]
  <2>1. /\ Sound(q) /\ Carries(turn[t], q) /\ q.pc = "none" /\ q.status = "running"
        /\ turn[t].status = "running"
    BY <1>1, BeginningIsSound
  <2>2. turn' = [turn EXCEPT ![t] = q]
    BY <1>3 DEF SpawnFails
  <2> HIDE DEF q
  <2>3. MayHold(turn[t]) => MayHold(q)
    BY <1>1, <2>1 DEF MayHold, AfterTheEnd, Before
  <2> QED BY <1>1, <1>3, <2>1, <2>2, <2>3, LettingGoKeeps DEF SpawnFails, Carries
<1> QED BY <1>2, <1>3

LEMMA ClaimKeeps ==
    ASSUME IInv, NEW t \in Turns, Claim(t)
    PROVE  IInv' /\ Honest
<1> DEFINE r == turn[t]
           q == [r EXCEPT !.pc = "claimed"]
<1>1. Sound(r) /\ r.pc = "sent" /\ turn' = [turn EXCEPT ![t] = q]
  BY TurnsAreTyped DEF Claim, At
<1>2. Sound(q) /\ Carries(r, q) /\ q.pc = "claimed" /\ q.status = "running" /\ r.status = "running"
  BY <1>1, BeginningIsSound
<1> HIDE DEF q
<1>3. turn \in [Turns -> TurnRecs] /\ q \in TurnRecs /\ r.chat \in Chats
      /\ midReply \in [Chats -> 0 .. MaxTurns] /\ slot \in 0 .. MaxTurns
      /\ t \in 0 .. MaxTurns /\ t # 0
  BY <1>1, <1>2, Bounds DEF IInv, TypeOK, Sound, KeepsToItsKind, Turns
<1>4. /\ turn' \in [Turns -> TurnRecs] /\ turn'[t] = q
      /\ \A u \in Turns : u # t => turn'[u] = turn[u]
  BY <1>1, <1>3
<1>5. /\ midReply' \in [Chats -> 0 .. MaxTurns] /\ midReply'[r.chat] = t /\ midReply[r.chat] = 0
      /\ \A c \in Chats : c # r.chat => midReply'[c] = midReply[c]
  BY <1>3 DEF Claim
<1>6. TypeOK'
  BY <1>4, <1>5 DEF IInv, TypeOK, Claim
<1>7. \A u \in Turns : Sound(turn'[u])
  BY <1>2, <1>4 DEF IInv
<1>8. Guarded'
  <2>1. ASSUME NEW u \in Turns, turn'[u].pc \notin Asleep
        PROVE  midReply'[turn'[u].chat] = u
    <3>1. CASE u = t
      BY <1>2, <1>4, <1>5, <3>1 DEF Carries
    <3>2. CASE u # t
      <4>1. midReply[turn[u].chat] = u /\ turn[u].chat \in Chats
        BY <1>4, <2>1, <3>2 DEF IInv, Guarded, Sound, KeepsToItsKind, Asleep
      <4>2. turn[u].chat # r.chat
        BY <1>5, <4>1, Bounds DEF Turns
      <4> QED BY <1>4, <1>5, <3>2, <4>1, <4>2
    <3> QED BY <3>1, <3>2
  <2>2. ASSUME NEW c \in Chats, midReply'[c] # 0
        PROVE  LET holder == turn'[midReply'[c]]
               IN  holder.chat = c /\ (holder.pc \notin Asleep \/ Unstarted(holder))
    <3>1. CASE c = r.chat
      BY <1>2, <1>4, <1>5, <3>1 DEF Carries, Asleep
    <3>2. CASE c # r.chat
      <4>1. midReply'[c] = midReply[c] /\ midReply[c] # 0 /\ midReply[c] \in Turns
        BY <1>3, <1>5, <2>2, <3>2, Bounds DEF Turns
      <4>2. LET holder == turn[midReply[c]]
            IN  holder.chat = c /\ (holder.pc \notin Asleep \/ Unstarted(holder))
        BY <4>1 DEF IInv, Guarded
      <4>3. midReply[c] # t
        BY <3>2, <4>2
      <4> QED BY <1>4, <4>1, <4>2, <4>3
    <3> QED BY <3>1, <3>2
  <2> QED BY <2>1, <2>2 DEF Guarded
<1>9. SlotKept'
  <2>1. ASSUME slot # 0 PROVE MayHold(turn'[slot])
    <3>1. slot \in Turns /\ MayHold(turn[slot])
      BY <1>3, <2>1, Bounds DEF IInv, SlotKept, Turns
    <3>2. slot # t
      BY <1>1, <3>1 DEF MayHold, Before, AfterTheEnd
    <3> QED BY <1>4, <3>1, <3>2
  <2> QED BY <2>1 DEF SlotKept, Claim
<1>10. Unsent'
  BY <1>1, <1>4 DEF IInv, Unsent, Claim
<1>11. Honest
  BY <1>2, <1>4 DEF Honest
<1> QED BY <1>6, <1>7, <1>8, <1>9, <1>10, <1>11 DEF IInv

----------------------------------------------------------------------------
\* What reaches into a turn, and what touches none.

LEMMA LeaseOffKeeps ==
    ASSUME IInv, NEW t \in Turns, LeaseOff(t)
    PROVE  IInv' /\ Honest
<1> DEFINE r == turn[t]
           q == Gone(r)
<1>1. Sound(r) /\ r.pc = "leaseoff" /\ r \in TurnRecs
  BY TurnsAreTyped DEF LeaseOff, At
<1>2. turn' = [turn EXCEPT ![t] = q]
  BY DEF LeaseOff
<1>3. q \in TurnRecs
  <2> DEFINE x == [NoTurn EXCEPT !.pc = "over", !.chat = r.chat]
             y == [x EXCEPT !.status = r.status, !.frames = r.frames, !.cutAt = r.cutAt,
                            !.coop = r.coop]
  <2>1. NoTurn \in TurnRecs
    BY Bounds DEF NoTurn, TurnRecs, PCs, Statuses, Reasons
  <2>2. x \in TurnRecs
    BY <1>1, <2>1, Words DEF TurnRecs
  <2>3. y \in TurnRecs
    <3> HIDE DEF x
    <3> QED BY <1>1, <2>2 DEF TurnRecs
  <2>4. q = y
    BY DEF Gone
  <2> QED BY <2>3, <2>4
<1>4. /\ q.pc = "over" /\ q.chat = r.chat /\ q.status = r.status /\ q.frames = r.frames
      /\ q.cutAt = r.cutAt /\ ~q.late /\ ~q.watch /\ ~q.billed /\ q.spent = 0 /\ q.paid = 0
  BY DEF Gone, NoTurn
<1> HIDE DEF q
<1>5. Sound(q)
  BY <1>1, <1>3, <1>4 DEF Sound, SaysItsEnd, KeepsToItsKind, Accounts, Completes, Before,
     Chatting, Building, Leaving, AfterTheEnd
<1>6. Moves(r, q)
  BY <1>1, <1>4 DEF Sound, SaysItsEnd, Moves, Stays, Asleep, Unstarted, MayHold, AfterTheEnd, Before
<1>7. /\ UNCHANGED <<midReply, slot, sent>> /\ newest' \in [Chats -> 0 .. MaxTurns]
      /\ ask' \subseteq Chats /\ asked' \in 0 .. MaxAsks /\ used' \in Nat
  BY DEF LeaseOff, IInv, TypeOK
<1> QED BY <1>2, <1>5, <1>6, <1>7, TurnAlone

\* The lease loop and the watcher touch a flag of the turn and nothing it is judged by.
LEMMA FlagKeeps ==
    ASSUME IInv, NEW t \in Turns, Observe(t) \/ LatePreview(t)
    PROVE  IInv' /\ Honest
<1> DEFINE r == turn[t]
<1>1. Sound(r) /\ r \in TurnRecs
  BY TurnsAreTyped
<1>2. CASE Observe(t)
  <2> DEFINE q == [r EXCEPT !.coop = TRUE]
  <2>1. turn' = [turn EXCEPT ![t] = q]
    BY <1>2 DEF Observe
  <2>2. Sound(q) /\ Moves(r, q)
    <3>1. q \in TurnRecs
      BY <1>1 DEF TurnRecs
    <3>2. SaysItsEnd(q) /\ KeepsToItsKind(q)
      BY <1>1 DEF TurnRecs, Sound, SaysItsEnd, KeepsToItsKind
    <3>3. Accounts(q)
      BY <1>1 DEF TurnRecs, Sound, Accounts
    <3>4. Completes(q)
      BY <1>1 DEF TurnRecs, Sound, Completes
    <3>5. Moves(r, q)
      BY <1>1 DEF TurnRecs, Moves, Stays, Unstarted, MayHold
    <3> QED BY <3>1, <3>2, <3>3, <3>4, <3>5 DEF Sound
  <2>3. /\ UNCHANGED <<midReply, slot, sent>> /\ newest' \in [Chats -> 0 .. MaxTurns]
        /\ ask' \subseteq Chats /\ asked' \in 0 .. MaxAsks /\ used' \in Nat
    BY <1>2 DEF Observe, IInv, TypeOK
  <2> HIDE DEF q
  <2> QED BY <2>1, <2>2, <2>3, TurnAlone
<1>3. CASE LatePreview(t)
  <2> DEFINE q == [r EXCEPT !.late = TRUE]
  <2>1. Only(t, q) /\ r.watch /\ r.frames > 0
    BY <1>3 DEF LatePreview
  <2>2. r.chat \notin BuildChats
    BY <1>1, <2>1 DEF Sound, SaysItsEnd, KeepsToItsKind, AfterTheEnd, Building
  <2>3. Sound(q) /\ Moves(r, q)
    <3>1. q \in TurnRecs
      BY <1>1 DEF TurnRecs
    <3>2. SaysItsEnd(q) /\ KeepsToItsKind(q)
      BY <1>1, <2>2 DEF TurnRecs, Sound, SaysItsEnd, KeepsToItsKind
    <3>3. Accounts(q)
      BY <1>1 DEF TurnRecs, Sound, Accounts
    <3>4. Completes(q)
      BY <1>1 DEF TurnRecs, Sound, Completes
    <3>5. Moves(r, q)
      BY <1>1 DEF TurnRecs, Moves, Stays, Unstarted, MayHold
    <3> QED BY <3>1, <3>2, <3>3, <3>4, <3>5 DEF Sound
  <2> HIDE DEF q
  <2> QED BY <2>1, <2>3, OnlyKeeps
<1> QED BY <1>2, <1>3

LEMMA SendKeeps ==
    ASSUME IInv, NEW c \in Chats, NEW expects \in BOOLEAN, Send(c, expects)
    PROVE  IInv' /\ Honest
<1>1. PICK t \in Turns : t = sent + 1
  BY Bounds DEF Send, IInv, TypeOK, Turns
<1> DEFINE q == [NoTurn EXCEPT !.pc = "sent", !.chat = c, !.expects = expects]
<1>2. turn' = [turn EXCEPT ![t] = q] /\ sent' = t
  BY <1>1 DEF Send
<1>3. turn[t].pc = "none" /\ turn \in [Turns -> TurnRecs] /\ slot \in 0 .. MaxTurns
      /\ midReply \in [Chats -> 0 .. MaxTurns] /\ t \in 0 .. MaxTurns
  BY <1>1, Bounds DEF IInv, Unsent, TypeOK, Turns
<1>4. Sound(q) /\ q.pc = "sent" /\ q.chat = c /\ q.status = "running"
  <2>1. NoTurn \in TurnRecs
    BY Bounds DEF NoTurn, TurnRecs, PCs, Statuses, Reasons
  <2>2. q \in TurnRecs
    BY <2>1, Words DEF TurnRecs
  <2>3. /\ q.pc = "sent" /\ q.chat = c /\ q.status = "running" /\ q.frames = 0 /\ q.cutAt = "none"
        /\ ~q.late /\ ~q.watch /\ ~q.billed /\ q.spent = 0 /\ q.paid = 0
    BY DEF NoTurn
  <2> HIDE DEF q
  <2> QED BY <2>2, <2>3 DEF Sound, SaysItsEnd, KeepsToItsKind, Accounts, Completes, Before,
            Chatting, Building, Leaving, AfterTheEnd
<1> HIDE DEF q
<1>5. /\ turn' \in [Turns -> TurnRecs] /\ turn'[t] = q
      /\ \A u \in Turns : u # t => turn'[u] = turn[u]
  BY <1>2, <1>3, <1>4 DEF Sound
<1>6. TypeOK'
  BY <1>2, <1>3, <1>5 DEF IInv, TypeOK, Send
<1>7. \A u \in Turns : Sound(turn'[u])
  BY <1>4, <1>5 DEF IInv
<1>8. Guarded'
  <2>1. midReply' = midReply
    BY DEF Send
  <2>2. ASSUME NEW u \in Turns, turn'[u].pc \notin Asleep
        PROVE  midReply'[turn'[u].chat] = u
    BY <1>4, <1>5, <2>1, <2>2 DEF IInv, Guarded, Asleep
  <2>3. ASSUME NEW d \in Chats, midReply'[d] # 0
        PROVE  LET holder == turn'[midReply'[d]]
               IN  holder.chat = d /\ (holder.pc \notin Asleep \/ Unstarted(holder))
    <3>1. midReply[d] \in Turns
      BY <1>3, <2>1, <2>3, Bounds DEF Turns
    <3>2. LET holder == turn[midReply[d]]
          IN  holder.chat = d /\ (holder.pc \notin Asleep \/ Unstarted(holder))
      BY <2>1, <2>3 DEF IInv, Guarded
    <3>3. midReply[d] # t
      BY <1>3, <3>2 DEF Asleep, Unstarted
    <3> QED BY <1>5, <2>1, <3>1, <3>2, <3>3
  <2> QED BY <2>2, <2>3 DEF Guarded
<1>9. SlotKept'
  <2>1. ASSUME slot # 0 PROVE MayHold(turn'[slot])
    <3>1. slot \in Turns /\ MayHold(turn[slot])
      BY <1>3, <2>1, Bounds DEF IInv, SlotKept, Turns
    <3>2. slot # t
      BY <1>3, <3>1 DEF MayHold, Before, AfterTheEnd
    <3> QED BY <1>5, <3>1, <3>2
  <2> QED BY <2>1 DEF SlotKept, Send
<1>10. Unsent'
  <2> SUFFICES ASSUME NEW u \in Turns, u > t PROVE turn'[u].pc = "none"
    BY <1>2 DEF Unsent
  <2>1. u # t /\ u > sent
    BY <1>1 DEF Turns, IInv, TypeOK
  <2> QED BY <1>5, <2>1 DEF IInv, Unsent
<1>11. Honest
  BY <1>4, <1>5 DEF Honest
<1> QED BY <1>6, <1>7, <1>8, <1>9, <1>10, <1>11 DEF IInv

LEMMA OutsideKeeps ==
    ASSUME IInv, \/ \E c \in Chats : Ask(c) \/ Withdraw(c)
                 \/ UNCHANGED vars
    PROVE  IInv' /\ Honest
<1>1. UNCHANGED <<midReply, newest, turn, slot, sent, used>>
  BY DEF Ask, Withdraw, vars
<1>2. ask' \subseteq Chats /\ asked' \in 0 .. MaxAsks
  <2>1. ASSUME NEW c \in Chats, Ask(c) PROVE ask' \subseteq Chats /\ asked' \in 0 .. MaxAsks
    BY <2>1, Bounds DEF Ask, IInv, TypeOK
  <2>2. ASSUME NEW c \in Chats, Withdraw(c) PROVE ask' \subseteq Chats /\ asked' \in 0 .. MaxAsks
    BY <2>2 DEF Withdraw, IInv, TypeOK
  <2>3. CASE UNCHANGED vars
    BY <2>3 DEF vars, IInv, TypeOK
  <2> QED BY <2>1, <2>2, <2>3
<1>3. TypeOK'
  BY <1>1, <1>2 DEF IInv, TypeOK
<1>4. (\A t \in Turns : Sound(turn[t]))' /\ Guarded' /\ SlotKept' /\ Unsent'
  BY <1>1 DEF IInv, Guarded, SlotKept, Unsent
<1>5. Honest
  BY <1>1 DEF Honest
<1> QED BY <1>3, <1>4, <1>5 DEF IInv

LEMMA InitHolds == Init => IInv
<1> SUFFICES ASSUME Init PROVE IInv
  OBVIOUS
<1>1. NoTurn \in TurnRecs
  BY Bounds DEF NoTurn, TurnRecs, PCs, Statuses, Reasons
<1>2. Sound(NoTurn) /\ NoTurn.pc = "none"
  BY <1>1, KindsAreApart
  DEF NoTurn, Sound, SaysItsEnd, KeepsToItsKind, Accounts, Completes, Before, Chatting,
      Building, Leaving, AfterTheEnd, Chats
<1>3. TypeOK
  BY <1>1, Bounds DEF Init, TypeOK
<1>4. \A t \in Turns : turn[t] = NoTurn
  BY DEF Init
<1>5. Guarded
  BY <1>2, <1>4 DEF Init, Guarded, Asleep
<1>6. SlotKept /\ Unsent
  BY <1>2, <1>4 DEF Init, SlotKept, Unsent
<1> QED BY <1>2, <1>3, <1>4, <1>5, <1>6 DEF IInv

LEMMA StepKeeps == IInv /\ [Next]_vars => IInv' /\ Honest
<1> SUFFICES ASSUME IInv, [Next]_vars PROVE IInv' /\ Honest
  OBVIOUS
<1>1. ASSUME NEW t \in Turns, TurnStep(t) PROVE IInv' /\ Honest
  BY <1>1, ClaimKeeps, GotoKeeps, SpawnKeeps, AttachKeeps, AttachFailsKeeps, AdoptKeeps,
     PlaceKeeps, ReplyKeeps, SaveKeeps, BillKeeps, CutBillKeeps, LoopKeeps, GateKeeps,
     ModelKeeps, FoldKeeps, ToolsKeeps, KeepKeeps, WrapKeeps, VerifyGreenKeeps, VerifyRedKeeps,
     RenderKeeps, SettleKeeps, PollKeeps, TerminalKeeps, HandBackKeeps, ReleaseKeeps,
     LeaseOffKeeps
  DEF TurnStep
<1>2. ASSUME NEW t \in Turns, Stop(t) PROVE IInv' /\ Honest
  BY <1>2, NeverEnteredKeeps, AttachCutKeeps, EarlyCutKeeps, ReplyKeeps, SaveKeeps, BillCutKeeps,
     BuildCutKeeps, FoldCutKeeps, SettleKeeps, PollKeeps
  DEF Stop
<1>3. ASSUME NEW t \in Turns, Observe(t) \/ LatePreview(t) PROVE IInv' /\ Honest
  BY <1>3, FlagKeeps
<1>4. ASSUME NEW c \in Chats, NEW expects \in BOOLEAN, Send(c, expects) PROVE IInv' /\ Honest
  BY <1>4, SendKeeps
<1>5. CASE (\E c \in Chats : Ask(c) \/ Withdraw(c)) \/ UNCHANGED vars
  BY <1>5, OutsideKeeps
<1> QED BY <1>1, <1>2, <1>3, <1>4, <1>5 DEF Next

----------------------------------------------------------------------------
\* The daily cap.  A build has read the meter and not yet moved it while it is at the
\* model; a chat has when it ends.  No step adds to the meter but by leaving one of these
\* and arriving, at most ReplySteps dearer, past the other.

AtTheModel == {"model", "fold"}
PastItsBill == {"terminal", "handback", "release", "leaseoff", "over"}
Asking ==
    {c \in BuildChats : \E t \in Turns : turn[t].chat = c /\ turn[t].pc \in AtTheModel}
Billed == {t \in Turns : turn[t].chat \notin BuildChats /\ turn[t].pc \in PastItsBill}
Modest == \A t \in Turns : turn[t].chat \notin BuildChats => turn[t].spent <= ReplySteps
Within ==
    used + Cardinality(Asking)
        < Limit + Cardinality(BuildChats) + ReplySteps * Cardinality(Billed)
MInv == Modest /\ Within

LEMMA TurnsAreFinite ==
    /\ IsFiniteSet(Turns) /\ IsFiniteSet(BuildChats) /\ Cardinality(BuildChats) \in Nat
    /\ IsFiniteSet(Asking) /\ Cardinality(Asking) \in Nat
    /\ Cardinality(Asking) <= Cardinality(BuildChats)
    /\ IsFiniteSet(Billed) /\ Cardinality(Billed) \in Nat
<1>1. IsFiniteSet(Turns)
  BY Bounds, FS_Interval DEF Turns
<1>2. IsFiniteSet(BuildChats)
  BY TurnAssumption DEF TurnAssumption
<1>3. Asking \in SUBSET BuildChats /\ Billed \in SUBSET Turns
  BY DEF Asking, Billed
<1>4. IsFiniteSet(Asking) /\ IsFiniteSet(Billed) /\ Cardinality(Asking) <= Cardinality(BuildChats)
  BY <1>1, <1>2, <1>3, FS_Subset
<1> QED BY <1>1, <1>2, <1>4, FS_CardinalityType

LEMMA Times ==
    ASSUME NEW a \in Nat, NEW b \in Nat, a <= b
    PROVE  /\ ReplySteps * a \in Nat /\ ReplySteps * b \in Nat
           /\ ReplySteps * a <= ReplySteps * b
           /\ ReplySteps * (a + 1) = ReplySteps * a + ReplySteps
<1>1. ReplySteps \in Nat
  BY Bounds
<1>2. PICK d \in Nat : b = a + d
  <2>1. b - a \in Nat /\ b = a + (b - a)
    OBVIOUS
  <2> QED BY <2>1
<1>3. ReplySteps * b = ReplySteps * a + ReplySteps * d
  BY <1>1, <1>2
<1>4. ReplySteps * d \in Nat /\ ReplySteps * a \in Nat /\ ReplySteps * b \in Nat
  BY <1>1
<1>5. ReplySteps * (a + 1) = ReplySteps * a + ReplySteps
  BY <1>1
<1> QED BY <1>3, <1>4, <1>5

\* A step that asks for nothing and bills nothing.
Quiet(r, q) ==
    /\ q.chat = r.chat \/ (r.pc = "none" /\ q.pc = "sent")
    /\ q.pc \in AtTheModel => r.pc \in AtTheModel
    /\ r.pc \in PastItsBill => q.pc \in PastItsBill
    /\ q.chat \notin BuildChats => q.spent <= ReplySteps

LEMMA ModestStays ==
    ASSUME IInv, Modest, NEW t \in Turns, NEW q, turn' = [turn EXCEPT ![t] = q],
           q.chat \notin BuildChats => q.spent <= ReplySteps
    PROVE  /\ Modest' /\ turn'[t] = q
           /\ \A u \in Turns : u # t => turn'[u] = turn[u]
<1>1. turn'[t] = q /\ \A u \in Turns : u # t => turn'[u] = turn[u]
  BY DEF IInv, TypeOK
<1>2. Modest'
  <2> SUFFICES ASSUME NEW u \in Turns, turn'[u].chat \notin BuildChats
               PROVE  turn'[u].spent <= ReplySteps
    BY DEF Modest
  <2>1. CASE u = t
    BY <1>1, <2>1
  <2>2. CASE u # t
    BY <1>1, <2>2 DEF Modest
  <2> QED BY <2>1, <2>2
<1> QED BY <1>1, <1>2

LEMMA QuietKeeps ==
    ASSUME IInv, MInv, NEW t \in Turns, NEW q, turn' = [turn EXCEPT ![t] = q], used' = used,
           Quiet(turn[t], q)
    PROVE  MInv'
<1>1. /\ Modest' /\ turn'[t] = q
      /\ \A u \in Turns : u # t => turn'[u] = turn[u]
  BY ModestStays DEF MInv, Quiet
<1>2. Asking' \in SUBSET Asking /\ Billed \in SUBSET Billed'
  <2>1. Asking' \in SUBSET Asking
    BY <1>1 DEF Asking, Quiet, AtTheModel
  <2>2. Billed \in SUBSET Billed'
    BY <1>1 DEF Billed, Quiet, PastItsBill
  <2> QED BY <2>1, <2>2
<1>3. /\ IsFiniteSet(Asking) /\ Cardinality(Asking) \in Nat
      /\ IsFiniteSet(Billed) /\ Cardinality(Billed) \in Nat /\ Cardinality(BuildChats) \in Nat
  BY TurnsAreFinite
<1>4. IsFiniteSet(Billed')
  <2>1. Billed' \in SUBSET Turns
    BY DEF Billed
  <2> QED BY <2>1, TurnsAreFinite, FS_Subset
<1>5. /\ Cardinality(Asking') <= Cardinality(Asking) /\ Cardinality(Billed) <= Cardinality(Billed')
      /\ Cardinality(Asking') \in Nat /\ Cardinality(Billed') \in Nat
  BY <1>2, <1>3, <1>4, FS_Subset, FS_CardinalityType
<1>6. /\ ReplySteps * Cardinality(Billed) <= ReplySteps * Cardinality(Billed')
      /\ ReplySteps * Cardinality(Billed) \in Nat /\ ReplySteps * Cardinality(Billed') \in Nat
  BY <1>3, <1>5, Times
<1>7. used \in Nat /\ Limit \in Nat
  BY Bounds DEF IInv, TypeOK
<1>8. Within'
  BY <1>3, <1>5, <1>6, <1>7 DEF MInv, Within
<1> QED BY <1>1, <1>8 DEF MInv

\* A chat's bill.
LEMMA BilledKeeps ==
    ASSUME IInv, MInv, NEW t \in Turns, NEW q, turn' = [turn EXCEPT ![t] = q],
           turn[t].pc \notin PastItsBill, turn[t].chat \notin BuildChats,
           q.chat = turn[t].chat, q.pc = "terminal", q.spent <= ReplySteps,
           used' \in Nat, used' <= used + ReplySteps
    PROVE  MInv'
<1>1. /\ Modest' /\ turn'[t] = q
      /\ \A u \in Turns : u # t => turn'[u] = turn[u]
  BY ModestStays DEF MInv
<1>2. Asking' \in SUBSET Asking /\ Billed' = Billed \union {t} /\ t \notin Billed
  <2>1. Asking' \in SUBSET Asking
    BY <1>1 DEF Asking
  <2>2. Billed' = Billed \union {t} /\ t \notin Billed
    BY <1>1 DEF Billed, PastItsBill
  <2> QED BY <2>1, <2>2
<1>3. /\ IsFiniteSet(Asking) /\ Cardinality(Asking) \in Nat
      /\ IsFiniteSet(Billed) /\ Cardinality(Billed) \in Nat /\ Cardinality(BuildChats) \in Nat
  BY TurnsAreFinite
<1>4. /\ Cardinality(Asking') <= Cardinality(Asking) /\ Cardinality(Asking') \in Nat
  BY <1>2, <1>3, FS_Subset, FS_CardinalityType
<1>5. Cardinality(Billed') = Cardinality(Billed) + 1
  BY <1>2, <1>3, FS_AddElement
<1>6. /\ ReplySteps * Cardinality(Billed') = ReplySteps * Cardinality(Billed) + ReplySteps
      /\ ReplySteps * Cardinality(Billed) \in Nat
  BY <1>3, <1>5, Times
<1>7. used \in Nat /\ Limit \in Nat /\ ReplySteps \in Nat
  BY Bounds DEF IInv, TypeOK
<1>8. Within'
  BY <1>3, <1>4, <1>6, <1>7 DEF MInv, Within
<1> QED BY <1>1, <1>8 DEF MInv

\* A build asks only below the cap, and pays what it asked.
LEMMA AsksKeep ==
    ASSUME IInv, MInv, NEW t \in Turns, Gate(t)
    PROVE  MInv'
<1>1. PICK q : /\ turn' = [turn EXCEPT ![t] = q] /\ q.chat = turn[t].chat
               /\ q.pc \in AtTheModel => used < Limit
  <2>1. CASE OutOfBounds(t)
    <3>1. turn' = [turn EXCEPT ![t] = Ended(turn[t], "bound")]
      BY <2>1 DEF Gate, Only, Step
    <3>2. Ended(turn[t], "bound").chat = turn[t].chat /\ Ended(turn[t], "bound").pc = "settle"
      BY TurnsAreTyped DEF Ended, Leave, TurnRecs
    <3> QED BY <3>1, <3>2 DEF AtTheModel
  <2>2. CASE ~OutOfBounds(t)
    <3>1. turn' = [turn EXCEPT ![t] = [turn[t] EXCEPT !.pc = "model"]]
      BY <2>2 DEF Gate, Only, Step
    <3>2. [turn[t] EXCEPT !.pc = "model"].chat = turn[t].chat /\ used < Limit
      BY <2>2, Bounds, TurnsAreTyped DEF OutOfBounds, IInv, TypeOK
    <3> QED BY <3>1, <3>2
  <2> QED BY <2>1, <2>2
<1>2. turn[t].chat \in BuildChats /\ turn[t].pc = "gate" /\ used' = used
  BY TurnsAreTyped DEF Gate, Only, At, Sound, KeepsToItsKind, Building
<1>3. CASE q.pc \notin AtTheModel
  <2>1. Quiet(turn[t], q)
    BY <1>1, <1>2, <1>3 DEF Quiet, PastItsBill
  <2> QED BY <1>1, <1>2, <2>1, QuietKeeps
<1>4. CASE q.pc \in AtTheModel
  <2>1. Modest'
    BY <1>1, <1>2, ModestStays DEF MInv
  <2>2. Cardinality(Asking') \in Nat /\ Cardinality(Asking') <= Cardinality(BuildChats)
    <3>1. Asking' \in SUBSET BuildChats
      BY DEF Asking
    <3> QED BY <3>1, TurnsAreFinite, FS_Subset, FS_CardinalityType
  <2>3. Cardinality(BuildChats) \in Nat /\ Cardinality(Billed') \in Nat
    <3>1. Billed' \in SUBSET Turns
      BY DEF Billed
    <3> QED BY <3>1, TurnsAreFinite, FS_Subset, FS_CardinalityType
  <2>4. ReplySteps * Cardinality(Billed') \in Nat
    BY <2>3, Times
  <2>5. used \in Nat /\ Limit \in Nat /\ used < Limit /\ used' = used
    BY <1>1, <1>2, <1>4, Bounds DEF IInv, TypeOK
  <2>6. Within'
    BY <2>2, <2>3, <2>4, <2>5 DEF Within
  <2> QED BY <2>1, <2>6 DEF MInv
<1> QED BY <1>3, <1>4

LEMMA PaysKeeps ==
    ASSUME IInv, MInv, NEW t \in Turns, NEW q, turn' = [turn EXCEPT ![t] = q],
           turn[t].pc = "fold", q.chat = turn[t].chat, q.pc \notin AtTheModel,
           used' \in Nat, used' <= used + 1
    PROVE  MInv'
<1> DEFINE c == turn[t].chat
<1>1. c \in BuildChats
  BY TurnsAreTyped DEF Sound, KeepsToItsKind, Building
<1>2. /\ Modest' /\ turn'[t] = q
      /\ \A u \in Turns : u # t => turn'[u] = turn[u]
  BY <1>1, ModestStays DEF MInv
<1>3. \A u \in Turns : u # t /\ turn[u].pc \in AtTheModel => turn[u].chat # c
  BY DEF IInv, Guarded, Asleep, AtTheModel
<1>4. c \in Asking /\ Asking' \in SUBSET (Asking \ {c}) /\ Billed' = Billed
  <2>1. c \in Asking
    BY <1>1 DEF Asking, AtTheModel
  <2>2. Asking' \in SUBSET (Asking \ {c})
    BY <1>2, <1>3 DEF Asking
  <2>3. Billed' = Billed
    BY <1>1, <1>2 DEF Billed
  <2> QED BY <2>1, <2>2, <2>3
<1>5. /\ IsFiniteSet(Asking) /\ Cardinality(Asking) \in Nat
      /\ Cardinality(Billed) \in Nat /\ Cardinality(BuildChats) \in Nat
  BY TurnsAreFinite
<1>6. IsFiniteSet(Asking \ {c}) /\ Cardinality(Asking \ {c}) = Cardinality(Asking) - 1
  BY <1>4, <1>5, FS_RemoveElement
<1>7. Cardinality(Asking') <= Cardinality(Asking) - 1 /\ Cardinality(Asking') \in Nat
  BY <1>4, <1>6, FS_Subset, FS_CardinalityType
<1>8. ReplySteps * Cardinality(Billed) \in Nat
  BY <1>5, Times
<1>9. used \in Nat /\ Limit \in Nat
  BY Bounds DEF IInv, TypeOK
<1>10. Within'
  <2>1. Cardinality(Billed') = Cardinality(Billed)
    BY <1>4
  <2> QED BY <1>5, <1>7, <1>8, <1>9, <2>1 DEF MInv, Within
<1> QED BY <1>2, <1>10 DEF MInv

\* Where each way out leads, and that it spends nothing.
LEMMA Exits ==
    ASSUME NEW r \in TurnRecs
    PROVE  /\ \A s : LET q == Finished(r, s)
                     IN  q.chat = r.chat /\ q.spent = r.spent /\ q.pc = "terminal"
           /\ LET q == Stopped(r)
              IN  q.chat = r.chat /\ q.spent = r.spent /\ q.pc \in {"terminal", "cutbill"}
           /\ LET q == Failing(r)
              IN  q.chat = r.chat /\ q.spent = r.spent /\ q.pc \in {"terminal", "bill"}
           /\ LET q == Out(r)
              IN  q.chat = r.chat /\ q.spent = r.spent /\ q.pc \in {"terminal", "cutbill"}
           /\ \A e : LET q == Leave(r, e)
                     IN  q.chat = r.chat /\ q.spent = r.spent /\ q.pc = "settle"
           /\ \A e : LET q == Ended(r, e)
                     IN  q.chat = r.chat /\ q.spent = r.spent /\ q.pc = "settle"
<1>1. ASSUME NEW s PROVE LET q == Finished(r, s)
                         IN  q.chat = r.chat /\ q.spent = r.spent /\ q.pc = "terminal"
  BY DEF Finished, NoTurn
<1>2. LET q == Stopped(r)
      IN  q.chat = r.chat /\ q.spent = r.spent /\ q.pc \in {"terminal", "cutbill"}
  <2> DEFINE f == Finished(r, "stopped")
  <2>1. f.chat = r.chat /\ f.spent = r.spent /\ f.pc = "terminal"
    BY <1>1
  <2>2. [f EXCEPT !.pc = "cutbill"].pc = "cutbill"
    BY DEF Finished, NoTurn
  <2> HIDE DEF f
  <2>3. /\ [f EXCEPT !.pc = "cutbill"].chat = f.chat
        /\ [f EXCEPT !.pc = "cutbill"].spent = f.spent
    OBVIOUS
  <2> QED BY <2>1, <2>2, <2>3 DEF Stopped, f
<1>3. LET q == Failing(r)
      IN  q.chat = r.chat /\ q.spent = r.spent /\ q.pc \in {"terminal", "bill"}
  BY <1>1 DEF Failing, TurnRecs
<1>4. ASSUME NEW e PROVE LET q == Leave(r, e)
                         IN  q.chat = r.chat /\ q.spent = r.spent /\ q.pc = "settle"
  BY DEF Leave, TurnRecs
<1>5. ASSUME NEW e PROVE LET q == Ended(r, e)
                         IN  q.chat = r.chat /\ q.spent = r.spent /\ q.pc = "settle"
  BY DEF Ended, Leave, TurnRecs
<1> QED BY <1>1, <1>2, <1>3, <1>4, <1>5 DEF Out

\* The steps that touch one turn and no count.
LEMMA QuietStepsKeep ==
    ASSUME IInv, MInv, NEW t \in Turns, NEW q, Only(t, q), Quiet(turn[t], q)
    PROVE  MInv'
BY QuietKeeps DEF Only, Step

\* A step that moves the counter and nothing the cap is reckoned by.
Jump(t, pc) == turn' = [turn EXCEPT ![t] = [turn[t] EXCEPT !.pc = pc]] /\ used' = used

LEMMA StartsKeep ==
    ASSUME IInv, MInv, NEW t \in Turns,
           \/ Claim(t) \/ Busy(t) \/ Spawn(t) \/ SpawnFails(t) \/ Wake(t) \/ NeverEntered(t)
           \/ Attach(t) \/ Terminal(t) \/ HandBack(t) \/ Release(t) \/ LeaseOff(t)
           \/ Observe(t) \/ LatePreview(t)
    PROVE  MInv'
<1> DEFINE r == turn[t]
<1>1. r \in TurnRecs /\ ReplySteps \in Nat /\ (r.chat \notin BuildChats => r.spent <= ReplySteps)
  BY TurnsAreTyped, Bounds DEF MInv, Modest
<1>2. ASSUME NEW pc, Jump(t, pc), pc \notin AtTheModel,
             r.pc \notin PastItsBill \/ pc \in PastItsBill
      PROVE  MInv'
  <2> DEFINE q == [r EXCEPT !.pc = pc]
  <2>1. q.chat = r.chat /\ q.pc = pc /\ q.spent = r.spent
    BY <1>1 DEF TurnRecs
  <2>2. Quiet(r, q)
    <3> HIDE DEF q
    <3> QED BY <1>1, <1>2, <2>1 DEF Quiet
  <2> QED BY <1>2, <2>2, QuietKeeps DEF Jump
<1>3. CASE Claim(t)
  <2>1. Jump(t, "claimed") /\ r.pc = "sent"
    BY <1>3 DEF Claim, Jump, At
  <2> QED BY <1>2, <2>1 DEF AtTheModel, PastItsBill
<1>4. CASE Busy(t)
  <2>1. Jump(t, "none") /\ r.pc = "sent"
    BY <1>4 DEF Busy, Goto, Only, Step, Jump, At
  <2> QED BY <1>2, <2>1 DEF AtTheModel, PastItsBill
<1>5. CASE Spawn(t)
  <2>1. Jump(t, "spawned") /\ r.pc = "claimed"
    BY <1>5 DEF Spawn, Jump, At
  <2> QED BY <1>2, <2>1 DEF AtTheModel, PastItsBill
<1>6. CASE SpawnFails(t)
  <2>1. Jump(t, "none") /\ r.pc = "claimed"
    BY <1>6 DEF SpawnFails, Jump, At
  <2> QED BY <1>2, <2>1 DEF AtTheModel, PastItsBill
<1>7. CASE Wake(t)
  <2>1. Jump(t, IF HasProject(t) THEN "attach" ELSE "reply") /\ r.pc = "spawned"
    BY <1>7 DEF Wake, Goto, Only, Step, Jump, At
  <2> QED BY <1>2, <2>1 DEF AtTheModel, PastItsBill
<1>8. CASE Attach(t)
  <2>1. Jump(t, "attached") /\ r.pc = "attach"
    BY <1>8 DEF Attach, Takes, Jump, At
  <2> QED BY <1>2, <2>1 DEF AtTheModel, PastItsBill
<1>9. CASE HandBack(t)
  <2>1. Jump(t, "release") /\ r.pc = "handback"
    BY <1>9 DEF HandBack, Jump, At
  <2> QED BY <1>2, <2>1 DEF AtTheModel, PastItsBill
<1>10. CASE Release(t)
  <2>1. Jump(t, "leaseoff") /\ r.pc = "release"
    BY <1>10 DEF Release, Jump, At
  <2> QED BY <1>2, <2>1 DEF AtTheModel, PastItsBill
<1>11. CASE NeverEntered(t)
  <2> DEFINE q == [r EXCEPT !.stop = TRUE, !.pc = "over", !.cutAt = "spawned"]
  <2>1. Only(t, q)
    BY <1>11 DEF NeverEntered, Hit
  <2>2. q.chat = r.chat /\ q.pc = "over" /\ q.spent = r.spent
    BY <1>1 DEF TurnRecs
  <2> HIDE DEF q
  <2>3. Quiet(r, q)
    BY <1>1, <2>2 DEF Quiet, AtTheModel, PastItsBill
  <2> QED BY <2>1, <2>3, QuietStepsKeep
<1>12. CASE Terminal(t)
  <2> DEFINE pc == IF r.held THEN "handback" ELSE "release"
             x == [r EXCEPT !.watch = FALSE, !.stop = FALSE, !.billed = FALSE, !.spent = 0]
             q == [x EXCEPT !.paid = 0, !.unmetered = FALSE, !.pc = pc]
  <2>1. Only(t, q)
    BY <1>12 DEF Terminal
  <2>2. x \in TurnRecs /\ x.chat = r.chat /\ x.spent = 0
    BY <1>1 DEF TurnRecs
  <2>3. pc \in {"handback", "release"}
    OBVIOUS
  <2> HIDE DEF x, pc
  <2>4. q.chat = r.chat /\ q.pc = pc /\ q.spent = 0
    BY <2>2 DEF TurnRecs
  <2> HIDE DEF q
  <2>5. Quiet(r, q)
    BY <1>1, <2>3, <2>4 DEF Quiet, AtTheModel, PastItsBill
  <2> QED BY <2>1, <2>5, QuietStepsKeep
<1>13. CASE LeaseOff(t)
  <2> DEFINE q == Gone(r)
  <2>1. turn' = [turn EXCEPT ![t] = q] /\ used' = used
    BY <1>13 DEF LeaseOff
  <2>2. q.chat = r.chat /\ q.pc = "over" /\ q.spent = 0
    BY DEF Gone, NoTurn
  <2> HIDE DEF q
  <2>3. Quiet(r, q)
    BY <1>1, <2>2 DEF Quiet, AtTheModel, PastItsBill
  <2> QED BY <2>1, <2>3, QuietKeeps
<1>14. CASE Observe(t)
  <2> DEFINE q == [r EXCEPT !.coop = TRUE]
  <2>1. turn' = [turn EXCEPT ![t] = q] /\ used' = used
    BY <1>14 DEF Observe
  <2>2. q.chat = r.chat /\ q.pc = r.pc /\ q.spent = r.spent
    BY <1>1 DEF TurnRecs
  <2> HIDE DEF q
  <2>3. Quiet(r, q)
    BY <1>1, <2>2 DEF Quiet
  <2> QED BY <2>1, <2>3, QuietKeeps
<1>15. CASE LatePreview(t)
  <2> DEFINE q == [r EXCEPT !.late = TRUE]
  <2>1. Only(t, q)
    BY <1>15 DEF LatePreview
  <2>2. q.chat = r.chat /\ q.pc = r.pc /\ q.spent = r.spent
    BY <1>1 DEF TurnRecs
  <2> HIDE DEF q
  <2>3. Quiet(r, q)
    BY <1>1, <2>2 DEF Quiet
  <2> QED BY <2>1, <2>3, QuietStepsKeep
<1> QED
  BY <1>3, <1>4, <1>5, <1>6, <1>7, <1>8, <1>9, <1>10, <1>11, <1>12, <1>13, <1>14, <1>15

LEMMA FetchesKeep ==
    ASSUME IInv, MInv, NEW t \in Turns,
           AttachFails(t) \/ AttachCut(t) \/ Adopt(t) \/ AdoptCut(t) \/ Place(t) \/ PlaceCut(t)
    PROVE  MInv'
<1> DEFINE r == turn[t]
<1>1. /\ r \in TurnRecs /\ ReplySteps \in Nat /\ (r.chat \notin BuildChats => r.spent <= ReplySteps)
      /\ r.pc \in {"attach", "attached", "place"}
  BY TurnsAreTyped, Bounds
  DEF MInv, Modest, AttachFails, AttachCut, Adopt, AdoptCut, Place, PlaceCut, Cut, At
<1>2. ASSUME NEW x \in TurnRecs, x.chat = r.chat, x.spent = r.spent
      PROVE  Quiet(r, Failing(x)) /\ Quiet(r, Stopped(x))
  BY <1>1, <1>2, Exits DEF Quiet, AtTheModel, PastItsBill
<1> DEFINE held == [r EXCEPT !.reason = "held"]
<1>3. held \in TurnRecs /\ held.chat = r.chat /\ held.spent = r.spent
  BY <1>1, Words DEF TurnRecs
<1>4. ASSUME NEW pc \in PCs
      PROVE  LET x == [r EXCEPT !.stop = TRUE, !.cutAt = pc]
             IN  x \in TurnRecs /\ x.chat = r.chat /\ x.spent = r.spent
  BY <1>1 DEF TurnRecs
<1>5. CASE AttachFails(t)
  <2>1. Only(t, Failing(held))
    BY <1>5 DEF AttachFails
  <2> HIDE DEF held
  <2> QED BY <1>2, <1>3, <2>1, QuietStepsKeep
<1>6. CASE AttachCut(t)
  <2> DEFINE x == [r EXCEPT !.stop = TRUE, !.cutAt = "attach"]
             q == Stopped(x)
  <2>1. turn' = [turn EXCEPT ![t] = q] /\ used' = used
    BY <1>6 DEF AttachCut, Only, Step, Takes, Hit
  <2>2. Quiet(r, q)
    BY <1>2, <1>4, Words
  <2> HIDE DEF q
  <2> QED BY <2>1, <2>2, QuietKeeps
<1>7. CASE Adopt(t)
  <2> DEFINE q == [r EXCEPT !.held = TRUE, !.pc = "place"]
             x == [q EXCEPT !.reason = "held"]
  <2>1. Only(t, q) \/ Only(t, Failing(x))
    BY <1>7 DEF Adopt
  <2>2. q \in TurnRecs /\ q.chat = r.chat /\ q.spent = r.spent /\ q.pc = "place"
    BY <1>1, Words DEF TurnRecs
  <2> HIDE DEF q
  <2>3. x \in TurnRecs /\ x.chat = r.chat /\ x.spent = r.spent
    BY <2>2, Words DEF TurnRecs
  <2> HIDE DEF x
  <2>4. Quiet(r, q)
    BY <1>1, <2>2 DEF Quiet, AtTheModel, PastItsBill
  <2> QED BY <1>2, <2>1, <2>3, <2>4, QuietStepsKeep
<1>8. CASE AdoptCut(t)
  <2> DEFINE x == [r EXCEPT !.stop = TRUE, !.cutAt = "attached"]
  <2>1. Only(t, Stopped(x))
    BY <1>8 DEF AdoptCut, Hit
  <2>2. Quiet(r, Stopped(x))
    BY <1>2, <1>4, Words
  <2> HIDE DEF x
  <2> QED BY <2>1, <2>2, QuietStepsKeep
<1>9. CASE Place(t)
  <2> DEFINE b == IsBuild(t)
             pc == IF b THEN "loop" ELSE "reply"
             q == [r EXCEPT !.watch = TRUE, !.leasing = TRUE, !.billed = b, !.pc = pc]
  <2>1. Only(t, q) \/ Only(t, Failing(held))
    BY <1>9 DEF Place
  <2>2. pc \in {"loop", "reply"}
    OBVIOUS
  <2> HIDE DEF b, pc
  <2>3. q.chat = r.chat /\ q.spent = r.spent /\ q.pc = pc
    BY <1>1 DEF TurnRecs
  <2> HIDE DEF q, held
  <2>4. Quiet(r, q)
    BY <1>1, <2>2, <2>3 DEF Quiet, AtTheModel, PastItsBill
  <2> QED BY <1>2, <1>3, <2>1, <2>4, QuietStepsKeep
<1>10. CASE PlaceCut(t)
  <2> DEFINE x == [r EXCEPT !.stop = TRUE]
  <2>1. Only(t, Stopped(x))
    BY <1>10 DEF PlaceCut, Hit
  <2>2. x \in TurnRecs /\ x.chat = r.chat /\ x.spent = r.spent
    BY <1>1 DEF TurnRecs
  <2> HIDE DEF x
  <2> QED BY <1>2, <2>1, <2>2, QuietStepsKeep
<1> QED BY <1>5, <1>6, <1>7, <1>8, <1>9, <1>10

LEMMA RepliesKeep ==
    ASSUME IInv, MInv, NEW t \in Turns, Reply(t) \/ ReplyCut(t) \/ Save(t) \/ SaveCut(t)
    PROVE  MInv'
<1> DEFINE r == turn[t]
           h == [r EXCEPT !.stop = TRUE]
<1>1. /\ r \in TurnRecs /\ ReplySteps \in Nat /\ (r.chat \notin BuildChats => r.spent <= ReplySteps)
      /\ r.pc \in {"reply", "save"} /\ r.spent \in Nat
  BY TurnsAreTyped, Bounds DEF MInv, Modest, Reply, ReplyCut, Save, SaveCut, Cut, At, TurnRecs
<1>2. ASSUME NEW x \in TurnRecs, x.chat = r.chat, x.chat \notin BuildChats => x.spent <= ReplySteps
      PROVE  Quiet(r, Failing(x)) /\ Quiet(r, Stopped(x))
  BY <1>1, <1>2, Exits DEF Quiet, AtTheModel, PastItsBill
<1>3. h \in TurnRecs /\ h.chat = r.chat /\ h.spent = r.spent
  BY <1>1 DEF TurnRecs
<1>4. CASE Reply(t)
  <2>1. PICK n \in 0 .. ReplySteps :
          \/ Only(t, [[r EXCEPT !.spent = n] EXCEPT !.pc = "save"])
          \/ Only(t, Failing([r EXCEPT !.spent = n]))
    BY <1>4 DEF Reply
  <2> DEFINE x == [r EXCEPT !.spent = n]
             q == [x EXCEPT !.pc = "save"]
  <2>2. n \in Nat /\ n <= ReplySteps
    BY <1>1
  <2>3. x \in TurnRecs /\ x.chat = r.chat /\ x.spent = n
    BY <1>1, <2>2 DEF TurnRecs
  <2> HIDE DEF x
  <2>4. q.chat = r.chat /\ q.spent = n /\ q.pc = "save"
    BY <2>3 DEF TurnRecs
  <2>5. Only(t, q) \/ Only(t, Failing(x))
    BY <2>1 DEF x
  <2> HIDE DEF q
  <2>6. Quiet(r, q)
    BY <1>1, <2>2, <2>4 DEF Quiet, AtTheModel, PastItsBill
  <2> QED BY <1>2, <2>2, <2>3, <2>5, <2>6, QuietStepsKeep
<1>5. CASE ReplyCut(t)
  <2>1. PICK n \in 0 .. ReplySteps : Only(t, Stopped([h EXCEPT !.spent = n]))
    BY <1>5 DEF ReplyCut, Hit
  <2> HIDE DEF h
  <2> DEFINE x == [h EXCEPT !.spent = n]
  <2>2. n \in Nat /\ n <= ReplySteps
    BY <1>1
  <2>3. x \in TurnRecs /\ x.chat = r.chat /\ x.spent = n
    BY <1>3, <2>2 DEF TurnRecs
  <2>4. Only(t, Stopped(x))
    BY <2>1
  <2> HIDE DEF x
  <2> QED BY <1>2, <2>2, <2>3, <2>4, QuietStepsKeep
<1>6. CASE Save(t)
  <2> DEFINE q == [r EXCEPT !.saved = TRUE, !.pc = "bill", !.exit = "completed"]
  <2>1. Only(t, q) \/ Only(t, Failing(r))
    BY <1>6 DEF Save
  <2>2. q.chat = r.chat /\ q.spent = r.spent /\ q.pc = "bill"
    BY <1>1 DEF TurnRecs
  <2> HIDE DEF q
  <2>3. Quiet(r, q)
    BY <1>1, <2>2 DEF Quiet, AtTheModel, PastItsBill
  <2> QED BY <1>1, <1>2, <2>1, <2>3, QuietStepsKeep
<1>7. CASE SaveCut(t)
  <2>1. PICK landed \in BOOLEAN : Only(t, Stopped([h EXCEPT !.saved = landed]))
    BY <1>7 DEF SaveCut, Hit
  <2> HIDE DEF h
  <2> DEFINE x == [h EXCEPT !.saved = landed]
  <2>2. x \in TurnRecs /\ x.chat = r.chat /\ x.spent = r.spent
    BY <1>3 DEF TurnRecs
  <2>3. Only(t, Stopped(x))
    BY <2>1
  <2> HIDE DEF x
  <2> QED BY <1>1, <1>2, <2>2, <2>3, QuietStepsKeep
<1> QED BY <1>4, <1>5, <1>6, <1>7

LEMMA BillsKeep ==
    ASSUME IInv, MInv, NEW t \in Turns, Bill(t) \/ BillCut(t) \/ CutBill(t)
    PROVE  MInv'
<1> DEFINE r == turn[t]
<1>1. /\ r \in TurnRecs /\ ReplySteps \in Nat /\ r.pc \in {"bill", "cutbill"}
      /\ r.chat \notin BuildChats /\ r.spent <= ReplySteps /\ r.spent \in Nat
  <2>1. r \in TurnRecs /\ Sound(r) /\ r.pc \in {"bill", "cutbill"}
    BY TurnsAreTyped DEF Bill, BillCut, CutBill, Cut, At
  <2>2. r.chat \notin BuildChats
    BY <2>1 DEF Sound, KeepsToItsKind, Chatting
  <2> QED BY <2>1, <2>2, Bounds DEF MInv, Modest, TurnRecs
<1>2. ASSUME NEW x, x.chat = r.chat, x.spent = r.spent, x.pc = "terminal", x \in TurnRecs,
             NEW landed \in BOOLEAN, Metered(t, x, landed)
      PROVE  MInv'
  <2> DEFINE q == [x EXCEPT !.billed = TRUE,
                            !.paid = IF landed THEN @ + x.spent ELSE @,
                            !.unmetered = ~landed]
  <2>1. turn' = [turn EXCEPT ![t] = q] /\ used' = IF landed THEN used + x.spent ELSE used
    BY <1>2 DEF Metered, Step
  <2>2. q.chat = r.chat /\ q.pc = "terminal" /\ q.spent = r.spent
    BY <1>2 DEF TurnRecs
  <2> HIDE DEF q
  <2>3. used' \in Nat /\ used' <= used + ReplySteps
    BY <1>1, <1>2, <2>1 DEF IInv, TypeOK
  <2> QED BY <1>1, <2>1, <2>2, <2>3, BilledKeeps DEF PastItsBill
<1>3. CASE Bill(t)
  <2> DEFINE x == Finished(r, r.exit)
  <2>1. PICK landed \in BOOLEAN : Metered(t, x, landed)
    BY <1>3 DEF Bill, Written
  <2>2. x.chat = r.chat /\ x.spent = r.spent /\ x.pc = "terminal"
    BY <1>1, Exits
  <2>3. x \in TurnRecs
    <3>1. Unfinished(r) /\ r.exit \in Statuses \ {"running"}
      BY <1>3, EarlyUnfinished, TurnsAreTyped DEF Bill, At, Sound, SaysItsEnd, TurnRecs
    <3> QED BY <3>1, FinishedSaysIt
  <2> HIDE DEF x
  <2> QED BY <1>2, <2>1, <2>2, <2>3
<1>4. CASE BillCut(t)
  <2> DEFINE h == [r EXCEPT !.stop = TRUE]
             y == [h EXCEPT !.billed = TRUE]
             x == Stopped(y)
  <2>1. PICK landed \in BOOLEAN : Metered(t, x, landed)
    <3>1. Hit(t) = h
      BY DEF Hit
    <3> HIDE DEF h
    <3> QED BY <1>4, <3>1 DEF BillCut
  <2>2. Unfinished(h) /\ h.chat = r.chat /\ h.spent = r.spent
    <3>1. Sound(r) /\ r.pc = "bill"
      BY <1>4, TurnsAreTyped DEF BillCut, Cut, At
    <3>2. Unfinished(h) /\ Carries(r, h) /\ h.spent = r.spent
      BY <3>1, EarlyStop
    <3> QED BY <3>2 DEF Carries
  <2> HIDE DEF h
  <2>3. Unfinished(y) /\ y.billed /\ y.chat = r.chat /\ y.spent = r.spent /\ y \in TurnRecs
    BY <2>2 DEF Unfinished, TurnRecs
  <2> HIDE DEF y
  <2>4. x = Finished(y, "stopped")
    BY <2>3 DEF Stopped, NoBill
  <2>5. x \in TurnRecs
    BY <2>3, <2>4, FinishedSaysIt, Words
  <2>6. x.chat = r.chat /\ x.spent = r.spent /\ x.pc = "terminal"
    BY <2>3, <2>4, Exits
  <2> HIDE DEF x
  <2> QED BY <1>2, <2>1, <2>5, <2>6
<1>5. CASE CutBill(t)
  <2> DEFINE x == [r EXCEPT !.pc = "terminal"]
  <2>1. PICK landed \in BOOLEAN : Metered(t, x, landed)
    BY <1>5 DEF CutBill, Written
  <2>2. x \in TurnRecs /\ x.chat = r.chat /\ x.spent = r.spent /\ x.pc = "terminal"
    BY <1>1, Words DEF TurnRecs
  <2> HIDE DEF x
  <2> QED BY <1>2, <2>1, <2>2
<1> QED BY <1>3, <1>4, <1>5

LEMMA FoldsKeep ==
    ASSUME IInv, MInv, NEW t \in Turns, Fold(t) \/ FoldCut(t)
    PROVE  MInv'
<1> DEFINE r == turn[t]
           h == [r EXCEPT !.stop = TRUE]
<1>1. r \in TurnRecs /\ r.pc = "fold"
  BY TurnsAreTyped DEF Fold, FoldCut, Cut, At
<1>2. ASSUME NEW x \in TurnRecs, x.chat = r.chat, x.pc \notin AtTheModel,
             NEW landed \in BOOLEAN, Folds(t, x, landed)
      PROVE  MInv'
  <2> DEFINE q == [x EXCEPT !.paid = IF landed THEN @ + 1 ELSE @, !.unmetered = @ \/ ~landed]
  <2>1. turn' = [turn EXCEPT ![t] = q] /\ used' = IF landed THEN used + 1 ELSE used
    BY <1>2 DEF Folds, Step
  <2>2. q.chat = r.chat /\ q.pc = x.pc
    BY <1>2 DEF TurnRecs
  <2> HIDE DEF q
  <2>3. used' \in Nat /\ used' <= used + 1
    BY <2>1 DEF IInv, TypeOK
  <2> QED BY <1>1, <1>2, <2>1, <2>2, <2>3, PaysKeeps
<1>3. CASE Fold(t)
  <2>1. PICK landed \in BOOLEAN, next \in {"tools", "wrap"} :
          Folds(t, [r EXCEPT !.pc = next], landed)
    BY <1>3 DEF Fold, Written
  <2> DEFINE x == [r EXCEPT !.pc = next]
  <2>2. x \in TurnRecs /\ x.chat = r.chat /\ x.pc = next
    BY <1>1, Words DEF TurnRecs
  <2>3. Folds(t, x, landed)
    BY <2>1
  <2> HIDE DEF x
  <2> QED BY <1>2, <2>2, <2>3 DEF AtTheModel
<1>4. CASE FoldCut(t)
  <2> DEFINE x == Leave(h, "stopped")
  <2>1. PICK landed \in BOOLEAN : Folds(t, x, landed)
    BY <1>4 DEF FoldCut, Hit
  <2>2. h \in TurnRecs /\ h.chat = r.chat
    BY <1>1 DEF TurnRecs
  <2> HIDE DEF h
  <2>3. x \in TurnRecs /\ x.chat = r.chat /\ x.pc = "settle"
    BY <2>2, Words DEF Leave, TurnRecs
  <2> HIDE DEF x
  <2> QED BY <1>2, <2>1, <2>3 DEF AtTheModel
<1> QED BY <1>3, <1>4

LEMMA BuildQuiet ==
    ASSUME IInv, MInv, NEW t \in Turns, turn[t].pc \in Building \union Leaving,
           NEW q, Only(t, q), q.chat = turn[t].chat,
           q.pc \in AtTheModel => turn[t].pc \in AtTheModel
    PROVE  MInv'
<1>1. turn[t].chat \in BuildChats
  BY TurnsAreTyped DEF Sound, KeepsToItsKind
<1>2. Quiet(turn[t], q)
  BY <1>1 DEF Quiet, PastItsBill, Building, Leaving
<1> QED BY <1>2, QuietStepsKeep

\* Whatever a run changes of itself on its way out.
LEMMA WaysOut ==
    ASSUME IInv, MInv, NEW t \in Turns, turn[t].pc \in Building \union Leaving,
           NEW x \in TurnRecs, x.chat = turn[t].chat,
           \/ \E e : Only(t, Leave(x, e)) \/ Only(t, Ended(x, e))
           \/ Only(t, Out(x)) \/ Only(t, Stopped(x))
    PROVE  MInv'
<1>1. ASSUME NEW e, Only(t, Leave(x, e)) PROVE MInv'
  <2>1. Leave(x, e).chat = turn[t].chat /\ Leave(x, e).pc = "settle"
    BY Exits
  <2> QED BY <1>1, <2>1, BuildQuiet DEF AtTheModel
<1>2. ASSUME NEW e, Only(t, Ended(x, e)) PROVE MInv'
  <2>1. Ended(x, e).chat = turn[t].chat /\ Ended(x, e).pc = "settle"
    BY Exits
  <2> QED BY <1>2, <2>1, BuildQuiet DEF AtTheModel
<1>3. CASE Only(t, Out(x))
  <2>1. Out(x).chat = turn[t].chat /\ Out(x).pc \in {"terminal", "cutbill"}
    BY Exits
  <2> QED BY <1>3, <2>1, BuildQuiet DEF AtTheModel
<1>4. CASE Only(t, Stopped(x))
  <2>1. Stopped(x).chat = turn[t].chat /\ Stopped(x).pc \in {"terminal", "cutbill"}
    BY Exits
  <2> QED BY <1>4, <2>1, BuildQuiet DEF AtTheModel
<1> QED BY <1>1, <1>2, <1>3, <1>4

LEMMA BuildsKeep ==
    ASSUME IInv, MInv, NEW t \in Turns,
           \/ Loop(t) \/ Model(t) \/ Tools(t) \/ Keep(t) \/ Wrap(t)
           \/ VerifyGreen(t) \/ VerifyRed(t) \/ VerifyUnknown(t) \/ Render(t)
    PROVE  MInv'
<1> DEFINE r == turn[t]
<1>1. r \in TurnRecs /\ r.pc \in Building \union Leaving
  BY TurnsAreTyped
  DEF Loop, Model, Tools, Keep, Wrap, VerifyGreen, VerifyRed, VerifyUnknown, Render, At, Building
<1>2. \A e : Only(t, Leave(r, e)) \/ Only(t, Ended(r, e)) => MInv'
  BY <1>1, WaysOut
<1>3. CASE Loop(t)
  <2> DEFINE q == [r EXCEPT !.run = @ + 1, !.steps = 0, !.claim = 0, !.pc = "gate"]
  <2>1. q.chat = r.chat /\ q.pc = "gate"
    BY <1>1 DEF TurnRecs
  <2>2. Only(t, q) \/ Only(t, Ended(r, "bound")) \/ Only(t, Leave(r, "failed"))
    BY <1>3 DEF Loop
  <2> HIDE DEF q
  <2> QED BY <1>1, <1>2, <2>1, <2>2, BuildQuiet DEF AtTheModel
<1>4. CASE Model(t)
  <2> DEFINE q == [r EXCEPT !.steps = @ + 1, !.spent = @ + 1, !.pc = "fold"]
  <2>1. q.chat = r.chat
    BY <1>1 DEF TurnRecs
  <2>2. r.pc = "model" /\ (Only(t, q) \/ Only(t, Leave(r, "failed")))
    BY <1>4 DEF Model, At
  <2> HIDE DEF q
  <2> QED BY <1>1, <1>2, <2>1, <2>2, BuildQuiet DEF AtTheModel
<1>5. CASE Tools(t)
  <2>1. PICK wrote \in BOOLEAN, done \in BOOLEAN :
          Only(t, [r EXCEPT !.touched = @ \/ wrote, !.claim = IF done THEN r.run ELSE @,
                            !.pc = "keep"])
    BY <1>5 DEF Tools
  <2> DEFINE q == [r EXCEPT !.touched = @ \/ wrote, !.claim = IF done THEN r.run ELSE @,
                            !.pc = "keep"]
  <2>2. q.chat = r.chat /\ q.pc = "keep"
    BY <1>1 DEF TurnRecs
  <2> HIDE DEF q
  <2> QED BY <1>1, <2>1, <2>2, BuildQuiet DEF AtTheModel, q
<1>6. CASE Keep(t)
  <2> DEFINE kept == [r EXCEPT !.open = TRUE]
             pc == IF kept.coop \/ kept.claim # 0 THEN "wrap" ELSE "gate"
             q == [kept EXCEPT !.pc = pc]
  <2>1. Only(t, q) \/ Only(t, Leave(r, "failed"))
    BY <1>6 DEF Keep
  <2>2. kept \in TurnRecs /\ kept.chat = r.chat /\ pc \in {"wrap", "gate"}
    BY <1>1 DEF TurnRecs
  <2> HIDE DEF kept, pc
  <2>3. q.chat = r.chat /\ q.pc = pc
    BY <2>2 DEF TurnRecs
  <2> HIDE DEF q
  <2> QED BY <1>1, <1>2, <2>1, <2>2, <2>3, BuildQuiet DEF AtTheModel
<1>7. CASE Wrap(t)
  <2> DEFINE x == [r EXCEPT !.open = FALSE]
             b == [x EXCEPT !.reason = "boundary"]
             q == [x EXCEPT !.pc = "verify"]
  <2>1. \/ Only(t, Leave(b, "completed")) \/ Only(t, Ended(x, "nothing"))
        \/ Only(t, Leave(x, "completed")) \/ Only(t, q) \/ Only(t, Leave(r, "failed"))
    BY <1>7 DEF Wrap
  <2>2. x \in TurnRecs /\ x.chat = r.chat
    BY <1>1 DEF TurnRecs
  <2> HIDE DEF x
  <2>3. b \in TurnRecs /\ b.chat = r.chat /\ q.chat = r.chat /\ q.pc = "verify"
    BY <2>2, Words DEF TurnRecs
  <2> HIDE DEF b, q
  <2>4. CASE Only(t, q)
    BY <1>1, <2>3, <2>4, BuildQuiet DEF AtTheModel
  <2> QED BY <1>1, <1>2, <2>1, <2>2, <2>3, <2>4, WaysOut
<1>8. ASSUME NEW x \in TurnRecs, x.chat = r.chat, Only(t, Again(x)) PROVE MInv'
  <2>1. Again(x).chat = r.chat /\ Again(x).pc = "loop"
    BY <1>8 DEF Again, TurnRecs
  <2> QED BY <1>1, <1>8, <2>1, BuildQuiet DEF AtTheModel
<1>9. CASE VerifyRed(t) \/ VerifyUnknown(t)
  <2>1. \/ Only(t, Ended(r, "bound")) \/ Only(t, Ended(r, "unknown")) \/ Only(t, Again(r))
    BY <1>9 DEF VerifyRed, VerifyUnknown
  <2> QED BY <1>1, <1>2, <1>8, <2>1
<1>10. CASE VerifyGreen(t)
  <2> DEFINE x == [r EXCEPT !.green = r.run]
             q == [x EXCEPT !.pc = "render"]
  <2>1. Only(t, q) \/ Only(t, Ended(x, "bound")) \/ Only(t, Again(x))
    BY <1>10 DEF VerifyGreen
  <2>2. x \in TurnRecs /\ x.chat = r.chat
    BY <1>1 DEF TurnRecs
  <2> HIDE DEF x
  <2>3. q.chat = r.chat /\ q.pc = "render"
    BY <2>2 DEF TurnRecs
  <2> HIDE DEF q
  <2>4. CASE Only(t, q)
    BY <1>1, <2>3, <2>4, BuildQuiet DEF AtTheModel
  <2>5. CASE Only(t, Ended(x, "bound"))
    BY <1>1, <2>2, <2>5, WaysOut
  <2> QED BY <1>8, <2>1, <2>2, <2>4, <2>5
<1>11. CASE Render(t)
  <2> DEFINE x == [r EXCEPT !.saved = TRUE]
  <2>1. Only(t, Leave(x, "completed")) \/ Only(t, Leave(r, "failed"))
    BY <1>11 DEF Render
  <2>2. x \in TurnRecs /\ x.chat = r.chat
    BY <1>1 DEF TurnRecs
  <2> HIDE DEF x
  <2> QED BY <1>1, <1>2, <2>1, <2>2, WaysOut
<1> QED BY <1>3, <1>4, <1>5, <1>6, <1>7, <1>9, <1>10, <1>11

LEMMA CutsKeep ==
    ASSUME IInv, MInv, NEW t \in Turns,
           \/ LoopCut(t) \/ ModelCut(t) \/ ToolsCut(t) \/ KeepCut(t) \/ WrapCut(t) \/ RenderCut(t)
           \/ Settle(t) \/ SettleCut(t) \/ Poll(t) \/ PollCut(t)
    PROVE  MInv'
<1> DEFINE r == turn[t]
           h == [r EXCEPT !.stop = TRUE]
<1>1. r \in TurnRecs /\ r.pc \in Building \union Leaving
  BY TurnsAreTyped
  DEF LoopCut, ModelCut, ToolsCut, KeepCut, WrapCut, RenderCut, Settle, SettleCut, Poll, PollCut,
      Cut, At, Building, Leaving
<1>2. h \in TurnRecs /\ h.chat = r.chat
  BY <1>1 DEF TurnRecs
<1>3. Hit(t) = h
  BY DEF Hit
<1> HIDE DEF h
<1>4. ASSUME NEW x, x \in TurnRecs, x.chat = r.chat, Only(t, Leave(x, "stopped")) PROVE MInv'
  BY <1>1, <1>4, WaysOut
<1>5. CASE LoopCut(t)
  BY <1>2, <1>3, <1>4, <1>5 DEF LoopCut
<1>6. CASE ModelCut(t)
  <2>1. PICK n \in {0, 1} : Only(t, Leave([h EXCEPT !.spent = @ + n], "stopped"))
    BY <1>3, <1>6 DEF ModelCut
  <2>2. PICK m \in Nat : m = h.spent + n
    BY <1>2 DEF TurnRecs
  <2> DEFINE x == [h EXCEPT !.spent = m]
  <2>3. Only(t, Leave(x, "stopped"))
    BY <2>1, <2>2
  <2>4. x \in TurnRecs /\ x.chat = r.chat
    BY <1>2 DEF TurnRecs
  <2> HIDE DEF x
  <2> QED BY <1>4, <2>3, <2>4
<1>7. CASE ToolsCut(t)
  <2> DEFINE x == [h EXCEPT !.touched = TRUE]
  <2>1. Only(t, Leave(x, "stopped"))
    BY <1>3, <1>7 DEF ToolsCut
  <2>2. x \in TurnRecs /\ x.chat = r.chat
    BY <1>2 DEF TurnRecs
  <2> HIDE DEF x
  <2> QED BY <1>4, <2>1, <2>2
<1>8. ASSUME NEW open \in BOOLEAN, Only(t, Leave([h EXCEPT !.open = open], "stopped")) PROVE MInv'
  <2> DEFINE x == [h EXCEPT !.open = open]
  <2>1. Only(t, Leave(x, "stopped"))
    BY <1>8
  <2>2. x \in TurnRecs /\ x.chat = r.chat
    BY <1>2 DEF TurnRecs
  <2> HIDE DEF x
  <2> QED BY <1>4, <2>1, <2>2
<1>9. CASE KeepCut(t)
  <2>1. PICK landed \in BOOLEAN : Only(t, Leave([h EXCEPT !.open = h.open \/ landed], "stopped"))
    BY <1>3, <1>9 DEF KeepCut
  <2>2. PICK open \in BOOLEAN : open = (h.open \/ landed)
    BY <1>2 DEF TurnRecs
  <2> QED BY <1>8, <2>1, <2>2
<1>10. CASE WrapCut(t)
  <2>1. PICK landed \in BOOLEAN : Only(t, Leave([h EXCEPT !.open = h.open /\ ~landed], "stopped"))
    BY <1>3, <1>10 DEF WrapCut
  <2>2. PICK open \in BOOLEAN : open = (h.open /\ ~landed)
    BY <1>2 DEF TurnRecs
  <2> QED BY <1>8, <2>1, <2>2
<1>11. CASE RenderCut(t)
  <2>1. PICK landed \in BOOLEAN : Only(t, Leave([h EXCEPT !.saved = landed], "stopped"))
    BY <1>3, <1>11 DEF RenderCut
  <2> DEFINE x == [h EXCEPT !.saved = landed]
  <2>2. Only(t, Leave(x, "stopped"))
    BY <2>1
  <2>3. x \in TurnRecs /\ x.chat = r.chat
    BY <1>2 DEF TurnRecs
  <2> HIDE DEF x
  <2> QED BY <1>4, <2>2, <2>3
<1>12. ASSUME NEW x, x \in TurnRecs, x.chat = r.chat, Settles(t, x) PROVE MInv'
  <2> DEFINE y == [x EXCEPT !.watch = FALSE]
             q == [x EXCEPT !.watch = FALSE, !.pc = "poll"]
  <2>1. Only(t, q) \/ Only(t, Out(y))
    BY <1>12 DEF Settles
  <2>2. y \in TurnRecs /\ y.chat = r.chat /\ q.chat = r.chat /\ q.pc = "poll"
    BY <1>12 DEF TurnRecs
  <2> HIDE DEF y, q
  <2>3. CASE Only(t, q)
    BY <1>1, <2>2, <2>3, BuildQuiet DEF AtTheModel
  <2>4. CASE Only(t, Out(y))
    BY <1>1, <2>2, <2>4, WaysOut
  <2> QED BY <2>1, <2>3, <2>4
<1>13. CASE Settle(t) \/ SettleCut(t)
  BY <1>1, <1>2, <1>3, <1>12, <1>13 DEF Settle, SettleCut
<1>14. CASE Poll(t) \/ PollCut(t)
  BY <1>1, <1>2, <1>3, <1>14, WaysOut DEF Poll, PollCut
<1> QED BY <1>5, <1>6, <1>7, <1>9, <1>10, <1>11, <1>13, <1>14

LEMMA SendsKeep ==
    ASSUME IInv, MInv, NEW c \in Chats, NEW expects \in BOOLEAN, Send(c, expects)
    PROVE  MInv'
<1>1. PICK t \in Turns : t = sent + 1
  BY Bounds DEF Send, IInv, TypeOK, Turns
<1> DEFINE q == [NoTurn EXCEPT !.pc = "sent", !.chat = c, !.expects = expects]
<1>2. turn' = [turn EXCEPT ![t] = q] /\ used' = used
  BY <1>1 DEF Send
<1>3. turn[t].pc = "none" /\ ReplySteps \in Nat
  BY <1>1, Bounds DEF IInv, Unsent, TypeOK, Turns
<1>4. q.pc = "sent" /\ q.spent = 0
  BY DEF NoTurn
<1> HIDE DEF q
<1>5. Quiet(turn[t], q)
  BY <1>3, <1>4 DEF Quiet, AtTheModel, PastItsBill
<1> QED BY <1>2, <1>5, QuietKeeps

LEMMA OutsideBillsNothing ==
    ASSUME IInv, MInv, \/ \E c \in Chats : Ask(c) \/ Withdraw(c)
                       \/ UNCHANGED vars
    PROVE  MInv'
<1>1. turn' = turn /\ used' = used
  BY DEF Ask, Withdraw, vars
<1>2. Asking' = Asking /\ Billed' = Billed
  BY <1>1 DEF Asking, Billed
<1>3. Within'
  BY <1>1, <1>2 DEF MInv, Within
<1>4. Modest'
  BY <1>1 DEF MInv, Modest
<1> QED BY <1>3, <1>4 DEF MInv

LEMMA MInitHolds == Init => MInv
<1> SUFFICES ASSUME Init PROVE MInv
  OBVIOUS
<1>1. /\ \A t \in Turns : turn[t].spent = 0 /\ turn[t].pc = "none"
      /\ used = 0
  BY DEF Init, NoTurn
<1>2. Modest
  BY <1>1, Bounds DEF Modest
<1>3. Asking = {}
  BY <1>1 DEF Asking, AtTheModel
<1>4. Cardinality(Asking) = 0
  BY <1>3, FS_EmptySet
<1>5. /\ ReplySteps * Cardinality(Billed) \in Nat /\ Cardinality(BuildChats) \in Nat
      /\ Limit \in Nat /\ Limit > 0
  BY TurnsAreFinite, Times, Bounds
<1>6. Within
  BY <1>1, <1>4, <1>5 DEF Within
<1> QED BY <1>2, <1>6 DEF MInv

LEMMA StepStaysWithin == IInv /\ MInv /\ [Next]_vars => MInv'
<1> SUFFICES ASSUME IInv, MInv, [Next]_vars PROVE MInv'
  OBVIOUS
<1>1. ASSUME NEW t \in Turns, TurnStep(t) PROVE MInv'
  BY <1>1, StartsKeep, FetchesKeep, RepliesKeep, BillsKeep, AsksKeep, FoldsKeep, BuildsKeep,
     CutsKeep
  DEF TurnStep
<1>2. ASSUME NEW t \in Turns, Stop(t) PROVE MInv'
  BY <1>2, StartsKeep, FetchesKeep, RepliesKeep, BillsKeep, FoldsKeep, CutsKeep
  DEF Stop
<1>3. ASSUME NEW t \in Turns, Observe(t) \/ LatePreview(t) PROVE MInv'
  BY <1>3, StartsKeep
<1>4. ASSUME NEW c \in Chats, NEW expects \in BOOLEAN, Send(c, expects) PROVE MInv'
  BY <1>4, SendsKeep
<1>5. CASE (\E c \in Chats : Ask(c) \/ Withdraw(c)) \/ UNCHANGED vars
  BY <1>5, OutsideBillsNothing
<1> QED BY <1>1, <1>2, <1>3, <1>4, <1>5 DEF Next

----------------------------------------------------------------------------
\* The theorems.

\* What holds of every state a turn can be in, whatever reaches into it and
\* wherever: the invariant the other theorems are read off.
THEOREM Invariance == Spec => []IInv
<1>1. Init => IInv
  BY InitHolds
<1>2. IInv /\ [Next]_vars => IInv'
  BY StepKeeps
<1> QED BY <1>1, <1>2, PTL DEF Spec

\* The engine's records keep the types of _TurnState and of the tables they index.
THEOREM TypeCorrect == Spec => []TypeOK
<1>1. IInv => TypeOK
  BY DEF IInv
<1> QED BY <1>1, Invariance, PTL

\* _finish is reached once by every turn that was begun, whichever arm it leaves by, and
\* a build sends no preview after its terminal frame.
THEOREM EndsOnce == Spec => []OneEnding
<1>1. IInv => OneEnding
  <2> SUFFICES ASSUME IInv, NEW t \in Turns
               PROVE  /\ turn[t].frames <= 1
                      /\ IsBuild(t) => ~turn[t].late
                      /\ Told(t) /\ turn[t].cutAt # "spawned" =>
                            turn[t].frames = 1 /\ turn[t].status # "running"
    BY DEF OneEnding
  <2>1. Sound(turn[t])
    BY TurnsAreTyped
  <2>2. turn[t].frames \in {0, 1}
    BY <2>1 DEF Sound, SaysItsEnd
  <2> QED BY <2>1, <2>2 DEF Sound, SaysItsEnd, KeepsToItsKind, AfterTheEnd, Told, IsBuild
<1> QED BY <1>1, Invariance, PTL

\* The guard of a chat admits one reply at a time, from claim_conversation to its release.
THEOREM GuardHolds == Spec => []OneReplyAtATime
<1>1. IInv => OneReplyAtATime
  BY DEF IInv, Guarded, OneReplyAtATime, Replying, Asleep
<1> QED BY <1>1, Invariance, PTL

\* A turn that is over has let go of its chat and of the workspace slot, the two windows
\* LetsGo names excepted.
THEOREM EndingLetsGo == Spec => []LetsGo
<1>1. IInv => LetsGo
  <2> SUFFICES ASSUME IInv, NEW t \in Turns, turn[t].pc = "over"
               PROVE  /\ \A c \in Chats : midReply[c] = t => turn[t].cutAt = "spawned"
                      /\ slot = t => turn[t].cutAt \in {"attach", "attached"}
    BY DEF LetsGo, At
  <2>1. t # 0
    BY Bounds DEF Turns
  <2>2. ASSUME NEW c \in Chats, midReply[c] = t PROVE turn[t].cutAt = "spawned"
    BY <2>1, <2>2 DEF IInv, Guarded, Asleep, Unstarted
  <2>3. ASSUME slot = t PROVE turn[t].cutAt \in {"attach", "attached"}
    BY <2>1, <2>3 DEF IInv, SlotKept, MayHold, Before
  <2> QED BY <2>2, <2>3
<1> QED BY <1>1, Invariance, PTL

\* What a turn spends reaches the meter once, and all of it unless it was stopped or the
\* store failed.
THEOREM SpendIsMetered == Spec => []SpendReachesTheMeter
<1>1. IInv => SpendReachesTheMeter
  <2> SUFFICES ASSUME IInv, NEW t \in Turns
               PROVE  /\ turn[t].paid <= turn[t].spent
                      /\ Told(t) /\ ~At(t, "cutbill") /\ ~turn[t].stop /\ ~turn[t].unmetered =>
                            turn[t].paid = turn[t].spent
    BY DEF SpendReachesTheMeter
  <2>1. Sound(turn[t])
    BY TurnsAreTyped
  <2> QED BY <2>1 DEF Sound, Accounts, AfterTheEnd, Told, At
<1> QED BY <1>1, Invariance, PTL

\* No step of the engine, a Stop's or a failing store's included, tells a turn completed
\* that is not.
THEOREM CompletionIsHonest == Spec => CompletedIsComplete
<1>1. IInv /\ [Next]_vars => [Honest]_vars
  BY StepKeeps
<1>2. Honest <=> \A t \in Turns :
                   turn[t].status = "running" /\ turn'[t].status = "completed" => Complete(t)
  BY DEF Honest
<1> QED BY <1>1, <1>2, Invariance, PTL DEF Spec, CompletedIsComplete

\* The daily cap is passed by no more than what was under way when it was reached: a model
\* step of each Build chat, and a reply of each message to another chat, whatever the bounds
\* and however many turns run at once.
THEOREM OvershootBounded == Spec => []OvershootIsBounded
<1>1. Init => MInv
  BY MInitHolds
<1>2. IInv /\ MInv /\ [Next]_vars => MInv'
  BY StepStaysWithin
<1>3. IInv /\ MInv => OvershootIsBounded
  <2> SUFFICES ASSUME IInv, MInv PROVE OvershootIsBounded
    OBVIOUS
  <2> DEFINE S == {t \in Turns : turn[t].chat \in PlanChats \union GenericChats}
  <2>1. Billed \in SUBSET S /\ S \in SUBSET Turns
    BY TurnsAreTyped DEF Billed, Sound, KeepsToItsKind, PastItsBill, Chats
  <2>2. /\ Cardinality(Billed) \in Nat /\ Cardinality(S) \in Nat
        /\ Cardinality(Billed) <= Cardinality(S)
    BY <2>1, TurnsAreFinite, FS_Subset, FS_CardinalityType
  <2>3. /\ ReplySteps * Cardinality(Billed) <= ReplySteps * Cardinality(S)
        /\ ReplySteps * Cardinality(Billed) \in Nat /\ ReplySteps * Cardinality(S) \in Nat
    BY <2>2, Times
  <2>4. /\ used \in Nat /\ Limit \in Nat
        /\ Cardinality(Asking) \in Nat /\ Cardinality(BuildChats) \in Nat
    BY Bounds, TurnsAreFinite DEF IInv, TypeOK
  <2> HIDE DEF S
  <2>5. used < Limit + Cardinality(BuildChats) + ReplySteps * Cardinality(S)
    BY <2>3, <2>4 DEF MInv, Within
  <2> QED BY <2>5 DEF OvershootIsBounded, S
<1> QED BY <1>1, <1>2, <1>3, Invariance, PTL DEF Spec
=============================================================================
