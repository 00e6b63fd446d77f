---------------------------- MODULE Conversations ----------------------------
(***************************************************************************)
(* One person's chats, the files they upload to them and the messages      *)
(* that carry the files: the upload and delete doors                       *)
(* (api/v1/attachments/router.py), a send up to its message                *)
(* (api/v1/conversations/turns.py, services/messages/store.py), the two    *)
(* deletes of chats, and the three jobs that remove what nobody uses any   *)
(* more: the weekly retention pass, the operator's storage reconciliation  *)
(* and its reclaim of files that were never sent.                          *)
(*                                                                         *)
(* A transaction takes effect at its commit.  A message is the set of      *)
(* files it refers to.  Days and hours pass in steps of their own, and a   *)
(* day or a grace outlasts a request and a pass.                           *)
(***************************************************************************)
EXTENDS Integers, FiniteSets

CONSTANTS
    Chats,         \* chat ids the portal mints; one is used once
    ProjectChats,  \* those of the one project; the others are generic
    Files,         \* attachment ids the portal mints
    CodeLane,      \* those opened with code and never put before the model
    Uses,          \* the chats a file is uploaded to and sent in
    Keys,          \* object-store keys
    Uploads,       \* upload requests at once
    Sends,         \* sends at once
    MaxFiles,      \* MAX_ATTACHMENTS_PER_CONVERSATION
    IdleDays,      \* conversation_retention_days
    RestDays,      \* RETENTION_INTERVAL
    PerPass,       \* conversation_retention_per_pass
    NoChat, NoFile, NoKey

ASSUME ConversationsAssumption ==
    /\ IsFiniteSet(Chats) /\ IsFiniteSet(Files) /\ IsFiniteSet(Keys)
    /\ ProjectChats \subseteq Chats
    /\ CodeLane \subseteq Files
    /\ Uses \in [Files -> SUBSET Chats]
    /\ NoChat \notin Chats /\ NoFile \notin Files /\ NoKey \notin Keys
    /\ {MaxFiles, IdleDays, RestDays, PerPass} \subseteq Nat \ {0}

VARIABLES
    chats,    \* the chats that stand
    older,    \* <<d, c>>: the updated_at of d comes before that of c
    gone,     \* the chats that were deleted
    quiet,    \* days since updated_at, counted up to IdleDays
    refs,     \* the files a chat's messages refer to
    claimed,  \* the chats claimed in the API process
    rows,     \* attachments: the row of a file
    old,      \* files whose row is older than NEVER_SENT_RECLAIM_WINDOW
    blobs,    \* the keys with an object in the store
    aged,     \* those last written before the grace
    upload,   \* the uploads under way
    send,     \* the sends under way
    removal,  \* the delete of chats under way
    toSweep,  \* the keys some finished delete is about to sweep
    operator, \* the storage reconciliation and the reclaim after it
    late,     \* files sent since that reclaim looked
    pass,     \* the retention pass
    rested    \* days since the newest pass record that says ok, counted up to RestDays

chatVars == <<chats, older, gone, quiet, refs>>
fileVars == <<rows, old, blobs, aged, toSweep>>
jobVars == <<operator, pass, rested>>
vars == <<chatVars, claimed, fileVars, upload, send, removal, jobVars, late>>

----------------------------------------------------------------------------
\* Types and the initial state.

NoRow == [key |-> NoKey, chat |-> NoChat]
Rows == [key : Keys, chat : Chats \union {NoChat}]

NoUpload == [stage |-> "none", file |-> NoFile, chat |-> NoChat, found |-> NoRow, key |-> NoKey]
NoSend == [stage |-> "none", chat |-> NoChat, files |-> {}]
NoRemoval == [chats |-> {}, files |-> {}, keys |-> {}, cascade |-> FALSE]
OffDuty == [stage |-> "none", keys |-> {}]
AtRest == [under |-> FALSE, chosen |-> {}]

TypeOK ==
    /\ chats \in SUBSET Chats
    /\ older \in SUBSET (Chats \X Chats)
    /\ gone \in SUBSET Chats
    /\ quiet \in [Chats -> 0 .. IdleDays]
    /\ refs \in [Chats -> SUBSET Files]
    /\ claimed \in SUBSET Chats
    /\ rows \in [Files -> Rows \union {NoRow}]
    /\ old \in SUBSET Files
    /\ blobs \in SUBSET Keys
    /\ aged \in SUBSET blobs
    /\ upload \in [Uploads -> [stage : {"none", "looked", "put"}, file : Files \union {NoFile},
                               chat : Chats \union {NoChat}, found : Rows \union {NoRow},
                               key : Keys \union {NoKey}]]
    /\ send \in [Sends -> [stage : {"none", "read", "running"},
                           chat : Chats \union {NoChat}, files : SUBSET Files]]
    /\ removal \in [chats : SUBSET Chats, files : SUBSET Files, keys : SUBSET Keys,
                    cascade : BOOLEAN]
    /\ toSweep \in SUBSET Keys
    /\ operator \in [stage : {"none", "reconciling", "reclaiming"}, keys : SUBSET Keys]
    /\ late \in SUBSET Files
    /\ pass \in [under : BOOLEAN, chosen : SUBSET Chats]
    /\ rested \in 0 .. RestDays

Init ==
    /\ chats = {}
    /\ older = {}
    /\ gone = {}
    /\ quiet = [c \in Chats |-> 0]
    /\ refs = [c \in Chats |-> {}]
    /\ claimed = {}
    /\ rows = [f \in Files |-> NoRow]
    /\ old = {}
    /\ blobs = {}
    /\ aged = {}
    /\ upload = [u \in Uploads |-> NoUpload]
    /\ send = [s \in Sends |-> NoSend]
    /\ removal = NoRemoval
    /\ toSweep = {}
    /\ operator = OffDuty
    /\ late = {}
    /\ pass = AtRest
    /\ rested = RestDays

----------------------------------------------------------------------------
\* What the handlers read.

Stored == {f \in Files : rows[f] # NoRow}
KeysOf(files) == {rows[f].key : f \in files \intersect Stored}

\* _referenced_attachment_ids: both kinds of marker.
ReferencedToTheModel(cs) == UNION {refs[c] \ CodeLane : c \in cs}
Referenced(cs) == UNION {refs[c] : c \in cs}

\* The rehydrator: the row, then the object it names.
Readable(f) == f \in Stored /\ rows[f].key \in blobs

\* code_lane_attachments: a generic chat takes the rows linked to it only.
Opened(f, c) == f \in Stored /\ (c \in ProjectChats \/ rows[f].chat = c)

\* load_history and resolve_binaries would answer 400 otherwise.
Answerable(c, files) ==
    /\ \A f \in refs[c] \ CodeLane : Readable(f)
    /\ \A f \in files : IF f \in CodeLane THEN Opened(f, c) ELSE Readable(f)

\* A key that is named nowhere stands for any fresh uuid.
Named ==
    blobs \union toSweep \union KeysOf(Files) \union {upload[u].key : u \in Uploads}
    \union removal.keys \union operator.keys

\* The order by updated_at without the chats cs, and with c the last of it.
OrderWithout(cs) == {p \in older : p[1] \notin cs /\ p[2] \notin cs}
Latest(c) == OrderWithout({c}) \union ((chats \ {c}) \X {c})

\* The message's insert moves updated_at by a trigger, a header edit by onupdate.
Touch(c) ==
    /\ older' = Latest(c)
    /\ quiet' = [quiet EXCEPT ![c] = 0]

\* Chats go with their messages; the link of a row that stays is set to NULL.
Drop(cs) ==
    /\ chats' = chats \ cs
    /\ older' = OrderWithout(cs)
    /\ gone' = gone \union (cs \intersect chats)
    /\ quiet' = [c \in Chats |-> IF c \in cs THEN 0 ELSE quiet[c]]
    /\ refs' = [c \in Chats |-> IF c \in cs THEN {} ELSE refs[c]]

Unlinked(row, cs) == IF row.chat \in cs THEN [row EXCEPT !.chat = NoChat] ELSE row

DropRows(files, cs) ==
    /\ rows' = [f \in Files |-> IF f \in files THEN NoRow ELSE Unlinked(rows[f], cs)]
    /\ old' = old \ files

----------------------------------------------------------------------------
\* The chat's row.

CreateChat(c) ==
    /\ c \notin chats \union gone
    /\ chats' = chats \union {c}
    /\ older' = Latest(c)
    /\ UNCHANGED <<gone, quiet, refs, claimed, fileVars, upload, send, removal, jobVars, late>>

\* PATCH of the context; one of the title leaves updated_at where it is.
PatchContext(c) ==
    /\ c \in chats
    /\ Touch(c)
    /\ UNCHANGED <<chats, gone, refs, claimed, fileVars, upload, send, removal, jobVars, late>>

----------------------------------------------------------------------------
\* The upload and delete doors.

Held(c) == Cardinality({f \in Stored : rows[f].chat = c})

\* The link, the row of the same id, and the count if the chat gains a file.
UploadLooks(u, f, c) ==
    /\ upload[u].stage = "none"
    /\ c \in chats \intersect Uses[f]
    /\ rows[f] = NoRow \/ rows[f].chat # c => Held(c) + 1 <= MaxFiles
    /\ \E key \in IF rows[f] = NoRow THEN Keys \ Named ELSE {rows[f].key} :
         upload' = [upload EXCEPT ![u] = [stage |-> "looked", file |-> f, chat |-> c,
                                          found |-> rows[f], key |-> key]]
    /\ UNCHANGED <<chatVars, claimed, fileVars, send, removal, jobVars, late>>

UploadPuts(u) ==
    /\ upload[u].stage = "looked"
    /\ blobs' = blobs \union {upload[u].key}
    /\ aged' = aged \ {upload[u].key}
    /\ upload' = [upload EXCEPT ![u].stage = "put"]
    /\ UNCHANGED <<chatVars, claimed, rows, old, toSweep, send, removal, jobVars, late>>

\* The put fails, or the request is cut short.
UploadFails(u) ==
    /\ upload[u].stage # "none"
    /\ upload' = [upload EXCEPT ![u] = NoUpload]
    /\ UNCHANGED <<chatVars, claimed, fileVars, send, removal, jobVars, late>>

\* A new row breaks on a twin of the same id or a chat that is gone.  An update writes what
\* differs from the row as it was found, and is refused when that row is gone.
Inserts(u) == upload[u].found = NoRow /\ rows[upload[u].file] = NoRow
Moves(u) ==
    /\ upload[u].found # NoRow
    /\ upload[u].found.chat # upload[u].chat
    /\ rows[upload[u].file].key = upload[u].key

UploadStores(u) ==
    LET up == upload[u]
    IN  /\ up.stage = "put"
        /\ IF up.chat \in chats /\ (Inserts(u) \/ Moves(u))
           THEN /\ rows' = [rows EXCEPT ![up.file] = [key |-> up.key, chat |-> up.chat]]
                /\ old' = IF Inserts(u) THEN old \ {up.file} ELSE old
           ELSE UNCHANGED <<rows, old>>
        /\ upload' = [upload EXCEPT ![u] = NoUpload]
        /\ UNCHANGED <<chatVars, claimed, blobs, aged, toSweep, send, removal, jobVars, late>>

\* By the owner's page: a file taken off the composer, or one whose send it takes for refused.
DeleteAttachment(f) ==
    /\ f \in Stored
    /\ DropRows({f}, {})
    /\ toSweep' = toSweep \union KeysOf({f})
    /\ UNCHANGED <<chatVars, claimed, blobs, aged, upload, send, removal, jobVars, late>>

\* sweep_blobs never raises: an object it could not delete is left.
Sweep(key) ==
    /\ key \in toSweep
    /\ toSweep' = toSweep \ {key}
    /\ \/ blobs' = blobs \ {key} /\ aged' = aged \ {key}
       \/ UNCHANGED <<blobs, aged>>
    /\ UNCHANGED <<chatVars, claimed, rows, old, upload, send, removal, jobVars, late>>

----------------------------------------------------------------------------
\* A send.

\* The history and the message's own files are read before anything is claimed.
SendReads(s, c, files) ==
    /\ send[s].stage = "none"
    /\ c \in chats
    /\ \A f \in files : c \in Uses[f]
    /\ Answerable(c, files)
    /\ send' = [send EXCEPT ![s] = [stage |-> "read", chat |-> c, files |-> files]]
    /\ UNCHANGED <<chatVars, claimed, fileVars, upload, removal, jobVars, late>>

\* start_turn and append_batch: the chat's claim, or 409; the message, or 404 and the claim
\* let go.
SendAppends(s) ==
    LET c == send[s].chat
    IN  /\ send[s].stage = "read"
        /\ IF c \in chats \ claimed
           THEN /\ Touch(c)
                /\ refs' = [refs EXCEPT ![c] = @ \union send[s].files]
                /\ late' = IF operator.stage = "reclaiming" THEN late \union send[s].files ELSE late
                /\ claimed' = claimed \union {c}
                /\ send' = [send EXCEPT ![s].stage = "running"]
           ELSE /\ send' = [send EXCEPT ![s] = NoSend]
                /\ UNCHANGED <<older, quiet, refs, claimed, late>>
        /\ UNCHANGED <<chats, gone, fileVars, upload, removal, jobVars>>

\* The reply is appended as the message was, and the claim let go.
TurnEnds(s) ==
    LET c == send[s].chat
    IN  /\ send[s].stage = "running"
        /\ IF c \in chats THEN Touch(c) ELSE UNCHANGED <<older, quiet>>
        /\ send' = [send EXCEPT ![s] = NoSend]
        /\ claimed' = claimed \ {c}
        /\ UNCHANGED <<chats, gone, refs, fileVars, upload, removal, jobVars, late>>

\* Refused before the message: a full window, a spent day; or at it, after the note of the
\* chat's files was committed on its own (SeqContentionError).
SendRefused(s) ==
    /\ send[s].stage = "read"
    /\ send' = [send EXCEPT ![s] = NoSend]
    /\ \/ send[s].chat \in chats \ claimed /\ Touch(send[s].chat)
       \/ UNCHANGED <<older, quiet>>
    /\ UNCHANGED <<chats, gone, refs, claimed, fileVars, upload, removal, jobVars, late>>

----------------------------------------------------------------------------
\* The two deletes of chats.

Scanned(cs, cascade) ==
    [chats |-> cs, files |-> Referenced(cs) \intersect Stored, keys |-> KeysOf(Referenced(cs)),
     cascade |-> cascade]

\* DELETE of a chat: its claim is held from before the scan to after the commit.
DeleteChatScans(c) ==
    /\ removal = NoRemoval
    /\ c \in chats \ claimed
    /\ claimed' = claimed \union {c}
    /\ removal' = Scanned({c}, FALSE)
    /\ UNCHANGED <<chatVars, fileVars, upload, send, jobVars, late>>

\* The cascade of a project's delete claims nothing.
DeleteProjectScans ==
    /\ removal = NoRemoval
    /\ chats \intersect ProjectChats # {}
    /\ removal' = Scanned(chats \intersect ProjectChats, TRUE)
    /\ UNCHANGED <<chatVars, claimed, fileVars, upload, send, jobVars, late>>

\* One chat's rows go by their primary key, a project's by the files' ids.
RemovalCommits ==
    /\ removal # NoRemoval
    /\ Drop(removal.chats)
    /\ DropRows(IF removal.cascade THEN removal.files
                ELSE {f \in Stored : rows[f].key \in removal.keys}, removal.chats)
    /\ toSweep' = toSweep \union removal.keys
    /\ claimed' = IF removal.cascade THEN claimed ELSE claimed \ removal.chats
    /\ removal' = NoRemoval
    /\ UNCHANGED <<blobs, aged, upload, send, jobVars, late>>

\* The transaction is rolled back, and nothing is swept.
SweptAllTheSame ==
    /\ removal # NoRemoval
    /\ toSweep' = toSweep \union removal.keys
    /\ claimed' = IF removal.cascade THEN claimed ELSE claimed \ removal.chats
    /\ removal' = NoRemoval
    /\ UNCHANGED <<chatVars, rows, old, blobs, aged, upload, send, jobVars, late>>
RemovalFails ==
    /\ removal # NoRemoval
    /\ claimed' = IF removal.cascade THEN claimed ELSE claimed \ removal.chats
    /\ removal' = NoRemoval
    /\ UNCHANGED <<chatVars, fileVars, upload, send, jobVars, late>>

----------------------------------------------------------------------------
\* The operator's reconciliation of the store, and the reclaim after it.

\* The cutoff and the owning rows are the start's, so the keys listed afterwards add none.
ReconcileStarts ==
    /\ operator.stage = "none"
    /\ operator' = [stage |-> "reconciling", keys |-> aged \ KeysOf(Files)]
    /\ UNCHANGED <<chatVars, claimed, fileVars, upload, send, removal, pass, rested, late>>

ReconcileDeletes(key) ==
    /\ operator.stage = "reconciling"
    /\ key \in operator.keys \intersect aged
    /\ blobs' = blobs \ {key}
    /\ aged' = aged \ {key}
    /\ UNCHANGED <<chatVars, claimed, rows, old, toSweep, upload, send, removal, jobVars, late>>

\* Every message's references, then the rows past the window that none of them names.
ReclaimLooks ==
    /\ operator.stage = "reconciling"
    /\ operator' = [stage |-> "reclaiming", keys |-> KeysOf(old \ Referenced(chats))]
    /\ late' = {}
    /\ UNCHANGED <<chatVars, claimed, fileVars, upload, send, removal, pass, rested>>

ReclaimCommits ==
    /\ operator.stage = "reclaiming"
    /\ DropRows({f \in Stored : rows[f].key \in operator.keys}, {})
    /\ toSweep' = toSweep \union operator.keys
    /\ operator' = OffDuty
    /\ late' = {}
    /\ UNCHANGED <<chatVars, claimed, blobs, aged, upload, send, removal, pass, rested>>

\* A StorageError, or a transaction that fails: 503, and nothing more is done.
OperatorFails ==
    /\ operator.stage # "none"
    /\ operator' = OffDuty
    /\ late' = {}
    /\ UNCHANGED <<chatVars, claimed, fileVars, upload, send, removal, pass, rested>>

----------------------------------------------------------------------------
\* The retention pass.

Idle(days) == {c \in chats : days[c] = IdleDays}

Answering(s) == send[s].stage = "running" /\ send[s].chat \in chats

\* condemned_conversations: the oldest first, and capped.
Condemned(days) ==
    {c \in Idle(days) : Cardinality({d \in Idle(days) : <<d, c>> \in older}) < PerPass}

\* A day, and the schedule's tick in it if a worker is up: the pass is due or declines, and
\* the records that _due_since reads are those that say ok.  A turn ends inside the window.
AfterADecline(ticks) ==
    IF ticks /\ rested + 1 < RestDays THEN 0
    ELSE IF rested < RestDays THEN rested + 1 ELSE rested
Rested(ticks) == IF rested < RestDays THEN rested + 1 ELSE rested
DayPasses(ticks) ==
    LET idle == [c \in Chats |-> IF c \in chats /\ quiet[c] < IdleDays THEN quiet[c] + 1
                                 ELSE quiet[c]]
    IN  /\ ~pass.under
        /\ \A s \in Sends : Answering(s) => idle[send[s].chat] < IdleDays
        /\ quiet' = idle
        /\ rested' = Rested(ticks)
        /\ pass' = IF ticks /\ rested' = RestDays
                   THEN [under |-> TRUE, chosen |-> Condemned(idle)]
                   ELSE pass
        /\ UNCHANGED <<chats, older, gone, refs, claimed, fileVars, upload, send, removal, operator, late>>

\* gather_and_delete takes the verdict again and holds it under a row lock to the commit;
\* the rows linked to the chats it still condemns go first.  After the commit the tail runs
\* shielded, and a record it cannot write is only logged.
PassCommitsItsChoice ==
    LET files == {f \in Stored : rows[f].chat \in pass.chosen}
    IN  /\ pass.under
        /\ Drop(pass.chosen)
        /\ DropRows(files, pass.chosen)
        /\ toSweep' = toSweep \union KeysOf(files)
        /\ rested' \in {0, rested}
        /\ pass' = AtRest
        /\ UNCHANGED <<claimed, blobs, aged, upload, send, removal, operator, late>>
PassCommits ==
    LET doomed == pass.chosen \intersect Idle(quiet)
        files == {f \in Stored : rows[f].chat \in doomed}
    IN  /\ pass.under
        /\ Drop(doomed)
        /\ DropRows(files, doomed)
        /\ toSweep' = toSweep \union KeysOf(files)
        /\ rested' \in {0, rested}
        /\ pass' = AtRest
        /\ UNCHANGED <<claimed, blobs, aged, upload, send, removal, operator, late>>

\* A raise or a cancellation before the commit: the record says failed, and is not read.
PassFails ==
    /\ pass.under
    /\ pass' = AtRest
    /\ UNCHANGED <<chatVars, claimed, fileVars, upload, send, removal, operator, rested, late>>

----------------------------------------------------------------------------
\* Hours, and the death of the API.

RowAges(f) ==
    /\ f \in Stored \ old
    /\ old' = old \union {f}
    /\ UNCHANGED <<chatVars, claimed, rows, blobs, aged, toSweep, upload, send, removal, jobVars, late>>

\* The grace outlasts the upload that wrote the object.
KeyAges(key) ==
    /\ key \in blobs \ aged
    /\ \A u \in Uploads : upload[u].stage = "put" => upload[u].key # key
    /\ aged' = aged \union {key}
    /\ UNCHANGED <<chatVars, claimed, rows, old, blobs, toSweep, upload, send, removal, jobVars, late>>

\* Every request goes with the process, and so do the claims; the sweeps under way may.
ApiDies ==
    /\ upload' = [u \in Uploads |-> NoUpload]
    /\ send' = [s \in Sends |-> NoSend]
    /\ removal' = NoRemoval
    /\ operator' = OffDuty
    /\ late' = {}
    /\ claimed' = {}
    /\ UNCHANGED <<chatVars, fileVars, pass, rested>>

Next ==
    \/ \E c \in Chats : CreateChat(c) \/ PatchContext(c) \/ DeleteChatScans(c)
    \/ \E u \in Uploads :
         \/ \E f \in Files, c \in Chats : UploadLooks(u, f, c)
         \/ UploadPuts(u) \/ UploadFails(u) \/ UploadStores(u)
    \/ \E f \in Files : DeleteAttachment(f) \/ RowAges(f)
    \/ \E key \in Keys : Sweep(key) \/ ReconcileDeletes(key) \/ KeyAges(key)
    \/ \E s \in Sends :
         \/ \E c \in Chats, files \in SUBSET Files : SendReads(s, c, files)
         \/ SendAppends(s) \/ TurnEnds(s) \/ SendRefused(s)
    \/ DeleteProjectScans \/ RemovalCommits \/ RemovalFails
    \/ ReconcileStarts \/ ReclaimLooks \/ ReclaimCommits \/ OperatorFails
    \/ DayPasses(TRUE) \/ DayPasses(FALSE) \/ PassCommits \/ PassFails
    \/ ApiDies

Spec == Init /\ [][Next]_vars

\* Days pass and the schedule ticks, turns end, and a pass that comes to its commit again and
\* again makes it.
FairSpec ==
    /\ Spec
    /\ WF_vars(DayPasses(TRUE))
    /\ \A s \in Sends : WF_vars(TurnEnds(s))
    /\ SF_vars(PassCommits)

----------------------------------------------------------------------------
\* Properties.

\* A file's row names an object that is there, whatever delete, sweep, reclaim, retention
\* pass or reconciliation runs beside the uploads (put before commit, rows before blobs, the
\* grace that is "the entire correctness argument", storage/reconcile.py:7).
RowsHaveTheirBytes == \A f \in Stored : rows[f].key \in blobs

\* While the one chat a file is used in stands, the row of a file its messages refer to
\* goes by the owner's own hand, or to a reclaim that looked before the message was written
\* (reclaim.py:90; a kind of marker that the scans miss breaks it, conversations/delete.py:40).
SentFilesStand ==
    [][\A f \in Files, c \in chats :
         /\ Uses[f] = {c}
         /\ f \in Stored \intersect refs[c]
         /\ rows'[f] = NoRow
         /\ c \notin gone'
         => DeleteAttachment(f) \/ (ReclaimCommits /\ f \in late)]_vars

\* The pass deletes no chat somebody touched inside the window, and none a turn is answering
\* in, a message sent between the verdict and the delete included (gather_and_delete in
\* conversations/retention.py).
TouchedStays ==
    [][PassCommits => \A c \in gone' \ gone :
                         /\ quiet[c] = IdleDays
                         /\ \A s \in Sends : Answering(s) => send[s].chat # c]_vars

\* A chat nobody touches goes in the end, whatever the declines and the failures recorded in
\* between (the worker's docstring: a gate that read any outcome would seal itself shut).
IdleChatsGo ==
    \A c \in Chats : (c \in chats /\ quiet[c] = IdleDays) ~> (c \in gone \/ quiet[c] = 0)

=============================================================================
