------------------------- MODULE ConversationsProofs -------------------------
(***************************************************************************)
(* A file's row and its object, and the chats that use it, for any number  *)
(* of chats, files, uploads and sends: the invariant IInv, which says for  *)
(* every job under way which keys and files it holds, and what follows.    *)
(***************************************************************************)
EXTENDS Conversations, TLAPS

----------------------------------------------------------------------------
\* The inductive invariant.

Under(u) == upload[u].stage # "none"
Fresh(u) == Under(u) /\ upload[u].found = NoRow

UploadsAreFull ==
    \A u \in Uploads : Under(u) =>
        /\ upload[u].file \in Files /\ upload[u].chat \in Chats /\ upload[u].key \in Keys
        /\ upload[u].chat \in Uses[upload[u].file]

\* Two files never share an object.
OneRowAKey ==
    \A f, g \in Files : rows[f] # NoRow /\ rows[f].key = rows[g].key => f = g

\* No row names a key that a finished delete, or a reconciliation under way, is to remove.
NoRowIsSwept ==
    \A f \in Files : rows[f] # NoRow =>
        /\ rows[f].key \notin toSweep
        /\ operator.stage = "reconciling" => rows[f].key \notin operator.keys

\* A delete of chats removes the row of every key it is to sweep.
RemovalIsWhole ==
    \A f \in Files : rows[f] # NoRow /\ rows[f].key \in removal.keys => f \in removal.files

\* The key of a new file is nobody else's, and its object, once put, is inside the grace.
FreshIsItsOwn ==
    \A u \in Uploads : Fresh(u) =>
        /\ \A f \in Files : rows[f].key # upload[u].key
        /\ upload[u].key \notin toSweep \union removal.keys \union operator.keys
        /\ \A v \in Uploads : v # u => upload[v].key # upload[u].key
        /\ upload[u].stage = "looked" => upload[u].key \notin blobs
        /\ upload[u].stage = "put" => upload[u].key \in blobs \ aged

Objects == RowsHaveTheirBytes /\ OneRowAKey /\ NoRowIsSwept /\ RemovalIsWhole /\ FreshIsItsOwn

\* A file is linked to, sent in and removed with a chat it is used in.
UsedWhereItIs ==
    /\ \A f \in Files : rows[f].chat \in Uses[f] \union {NoChat}
    /\ \A s \in Sends : \A f \in send[s].files : send[s].chat \in Uses[f]
    /\ \A c \in Chats : \A f \in refs[c] : c \in chats /\ c \in Uses[f]
    /\ \A f \in removal.files : \E c \in removal.chats : c \in Uses[f]

\* A reclaim under way takes a file that is referred to only if that came late.
ReclaimsTheUnsent ==
    operator.stage = "reclaiming" =>
        \A f \in Files, c \in Chats :
            rows[f] # NoRow /\ rows[f].key \in operator.keys /\ f \in refs[c] => f \in late

\* A chat a turn is answering in was touched inside the window.
AnsweringIsRecent ==
    \A s \in Sends : send[s].stage = "running" =>
        /\ send[s].chat \in chats \union gone
        /\ send[s].chat \in chats => quiet[send[s].chat] < IdleDays

IInv ==
    /\ TypeOK /\ UploadsAreFull
    /\ Objects
    /\ UsedWhereItIs /\ ReclaimsTheUnsent /\ AnsweringIsRecent

----------------------------------------------------------------------------
\* Types, and what the shared steps do.

LEMMA EmptyTypes ==
    /\ NoRow.key = NoKey /\ NoRow.chat = NoChat /\ NoRow \notin Rows
    /\ \A row \in Rows : row # NoRow /\ row.key \in Keys /\ row.chat \in Chats \union {NoChat}
    /\ NoUpload.stage = "none" /\ NoUpload.key = NoKey
    /\ NoSend.stage = "none" /\ NoSend.files = {}
    /\ NoRemoval.chats = {} /\ NoRemoval.files = {} /\ NoRemoval.keys = {}
    /\ OffDuty.stage = "none" /\ OffDuty.keys = {}
  BY ConversationsAssumption DEF NoRow, Rows, NoUpload, NoSend, NoRemoval, OffDuty

LEMMA JobTypes ==
    /\ NoRemoval \in [chats : SUBSET Chats, files : SUBSET Files, keys : SUBSET Keys,
                      cascade : BOOLEAN]
    /\ OffDuty \in [stage : {"none", "reconciling", "reclaiming"}, keys : SUBSET Keys]
  BY DEF NoRemoval, OffDuty

LEMMA InitIInv == Init => IInv
<1> SUFFICES ASSUME Init PROVE IInv
  OBVIOUS
<1>1. TypeOK
  BY ConversationsAssumption
     DEF Init, TypeOK, NoRow, NoUpload, NoSend, NoRemoval, OffDuty, AtRest
<1>2. Objects
  BY EmptyTypes DEF Init, Objects, RowsHaveTheirBytes, Stored, OneRowAKey, NoRowIsSwept,
                    RemovalIsWhole, FreshIsItsOwn, Fresh, Under
<1>3. UsedWhereItIs /\ ReclaimsTheUnsent /\ AnsweringIsRecent /\ UploadsAreFull
  BY EmptyTypes DEF Init, UsedWhereItIs, ReclaimsTheUnsent, AnsweringIsRecent, UploadsAreFull,
                    Under, OffDuty, NoSend
<1> QED
  BY <1>1, <1>2, <1>3 DEF IInv

LEMMA TouchTypes ==
    ASSUME TypeOK, NEW c \in Chats, Touch(c)
    PROVE  /\ older' \in SUBSET (Chats \X Chats)
           /\ quiet' \in [Chats -> 0 .. IdleDays]
           /\ quiet'[c] < IdleDays /\ \A d \in Chats : d # c => quiet'[d] = quiet[d]
<1>1. IdleDays \in Nat \ {0}
  BY ConversationsAssumption
<1> QED
  BY <1>1 DEF TypeOK, Touch, Latest, OrderWithout

LEMMA DropTypes ==
    ASSUME TypeOK, NEW cs, Drop(cs)
    PROVE  /\ chats' \in SUBSET Chats /\ older' \in SUBSET (Chats \X Chats)
           /\ gone' \in SUBSET Chats /\ chats' \union gone' = chats \union gone
           /\ quiet' \in [Chats -> 0 .. IdleDays]
           /\ refs' \in [Chats -> SUBSET Files]
           /\ \A c \in Chats : c \notin cs => quiet'[c] = quiet[c] /\ refs'[c] = refs[c]
           /\ \A c \in Chats : c \in cs => refs'[c] = {}
<1>1. IdleDays \in Nat \ {0}
  BY ConversationsAssumption
<1> QED
  BY <1>1 DEF TypeOK, Drop, OrderWithout

LEMMA RowsTypes ==
    ASSUME TypeOK, NEW files, NEW cs, DropRows(files, cs)
    PROVE  /\ rows' \in [Files -> Rows \union {NoRow}] /\ old' \in SUBSET Files
           /\ \A f \in Files : f \in files => rows'[f] = NoRow
           /\ \A f \in Files : /\ rows'[f] # NoRow => rows[f] # NoRow /\ f \notin files
                                /\ rows'[f].key \in {rows[f].key, NoKey}
                                /\ rows'[f].chat \in {rows[f].chat, NoChat}
           /\ \A f \in Files : rows'[f] # NoRow => rows'[f].key = rows[f].key
<1> USE EmptyTypes
<1>1. \A f \in Files : rows[f] \in Rows \union {NoRow}
  BY DEF TypeOK
<1>2. ASSUME NEW f \in Files
      PROVE  /\ Unlinked(rows[f], cs) \in Rows \union {NoRow}
             /\ Unlinked(rows[f], cs).key = rows[f].key
             /\ Unlinked(rows[f], cs).chat \in {rows[f].chat, NoChat}
             /\ Unlinked(rows[f], cs) # NoRow => rows[f] # NoRow
  BY <1>1 DEF Unlinked, Rows, NoRow
<1> QED
  BY <1>1, <1>2 DEF DropRows, TypeOK

LEMMA RowsThatGo ==
    ASSUME TypeOK, NEW files, NEW cs, DropRows(files, cs), NEW f \in Files,
           rows[f] \in Rows, rows'[f] = NoRow
    PROVE  f \in files
<1>1. Unlinked(rows[f], cs).key = rows[f].key
  BY DEF Unlinked, Rows
<1>2. rows[f].key # NoKey
  BY ConversationsAssumption DEF Rows
<1> QED
  BY <1>1, <1>2, EmptyTypes DEF DropRows

\* Rows that go, with the keys that are to be swept after them.
LEMMA RowsGo ==
    ASSUME IInv, NEW files, NEW cs, NEW keys, DropRows(files, cs),
           toSweep' = toSweep \union keys,
           \A f \in Files : rows[f] # NoRow /\ rows[f].key \in keys => f \in files,
           \A u \in Uploads : Fresh(u) => upload[u].key \notin keys,
           UNCHANGED <<blobs, aged, upload>>,
           removal' \in {removal, NoRemoval}, operator' \in {operator, OffDuty}
    PROVE  Objects'
<1> USE EmptyTypes
<1>1. TypeOK /\ Objects
  BY DEF IInv
<1>2. /\ \A f \in Files : rows'[f] # NoRow => rows[f] # NoRow /\ f \notin files
      /\ \A f \in Files : rows'[f].key \in {rows[f].key, NoKey}
      /\ \A f \in Files : rows'[f] # NoRow => rows'[f].key = rows[f].key
  BY <1>1, RowsTypes
<1>3. RowsHaveTheirBytes'
  BY <1>1, <1>2 DEF Objects, RowsHaveTheirBytes, Stored
<1>4. OneRowAKey'
  <2> SUFFICES ASSUME NEW f \in Files, NEW g \in Files, rows'[f] # NoRow,
                      rows'[f].key = rows'[g].key
               PROVE  f = g
    BY DEF OneRowAKey
  <2>1. rows[f] # NoRow /\ rows'[f].key = rows[f].key /\ rows[f].key # NoKey
    BY <1>1, <1>2, ConversationsAssumption DEF TypeOK
  <2> QED
    BY <1>1, <1>2, <2>1 DEF Objects, OneRowAKey
<1>5. NoRowIsSwept'
  BY <1>1, <1>2 DEF Objects, NoRowIsSwept
<1>6. RemovalIsWhole'
  BY <1>1, <1>2 DEF Objects, RemovalIsWhole
<1>7. FreshIsItsOwn'
  <2>1. \A u \in Uploads : Fresh(u)' => Fresh(u) /\ upload[u].key \in Keys
    BY DEF Fresh, Under, IInv, UploadsAreFull
  <2>2. removal'.keys \subseteq removal.keys /\ operator'.keys \subseteq operator.keys
    OBVIOUS
  <2> QED
    BY <1>1, <1>2, <2>1, <2>2, ConversationsAssumption DEF Objects, FreshIsItsOwn
<1> QED
  BY <1>3, <1>4, <1>5, <1>6, <1>7 DEF Objects

LEMMA ObjectsKeep ==
    ASSUME Objects, UNCHANGED <<rows, blobs, aged, toSweep, upload, removal, operator>>
    PROVE  Objects'
  BY DEF Objects, RowsHaveTheirBytes, Stored, OneRowAKey, NoRowIsSwept, RemovalIsWhole,
         FreshIsItsOwn, Fresh, Under

----------------------------------------------------------------------------
\* The chats and the sends: no object is touched.

LEMMA ChatSteps ==
    ASSUME IInv, NEW c \in Chats, CreateChat(c) \/ PatchContext(c)
    PROVE  IInv'
<1>1. UNCHANGED <<gone, refs, claimed, fileVars, upload, send, removal, jobVars, late>>
  BY DEF CreateChat, PatchContext
<1>2. Objects' /\ UploadsAreFull'
  BY <1>1, ObjectsKeep DEF IInv, fileVars, jobVars, UploadsAreFull, Under
<1>3. TypeOK' /\ chats \subseteq chats'
  <2>1. CASE CreateChat(c)
    BY <1>1, <2>1 DEF CreateChat, IInv, TypeOK, Latest, OrderWithout, fileVars, jobVars
  <2>2. CASE PatchContext(c)
    BY <1>1, <2>2, TouchTypes DEF PatchContext, IInv, TypeOK, fileVars, jobVars
  <2> QED
    BY <2>1, <2>2
<1>4. UsedWhereItIs' /\ ReclaimsTheUnsent'
  BY <1>1, <1>3 DEF IInv, UsedWhereItIs, ReclaimsTheUnsent, fileVars, jobVars
<1>5. AnsweringIsRecent'
  <2>1. \A s \in Sends : send[s].stage = "running" => send[s].chat \in Chats
    BY DEF IInv, AnsweringIsRecent, TypeOK
  <2>2. CASE CreateChat(c)
    BY <1>1, <2>2 DEF CreateChat, IInv, AnsweringIsRecent
  <2>3. CASE PatchContext(c)
    BY <1>1, <2>1, <2>3, TouchTypes DEF PatchContext, IInv, AnsweringIsRecent
  <2> QED
    BY <2>2, <2>3
<1> QED
  BY <1>2, <1>3, <1>4, <1>5 DEF IInv

LEMMA SendReadsStep ==
    ASSUME IInv, NEW s \in Sends, NEW c \in Chats, NEW files \in SUBSET Files,
           SendReads(s, c, files)
    PROVE  IInv'
<1>1. /\ UNCHANGED <<chatVars, claimed, fileVars, upload, removal, jobVars, late>>
      /\ send' = [send EXCEPT ![s] = [stage |-> "read", chat |-> c, files |-> files]]
      /\ \A f \in files : c \in Uses[f]
  BY DEF SendReads
<1>2. Objects' /\ UploadsAreFull'
  BY <1>1, ObjectsKeep DEF IInv, fileVars, jobVars, UploadsAreFull, Under
<1>3. TypeOK'
  BY <1>1 DEF IInv, TypeOK, chatVars, fileVars, jobVars
<1>4. UsedWhereItIs' /\ ReclaimsTheUnsent' /\ AnsweringIsRecent'
  BY <1>1 DEF IInv, TypeOK, UsedWhereItIs, ReclaimsTheUnsent, AnsweringIsRecent,
              chatVars, fileVars, jobVars
<1> QED
  BY <1>2, <1>3, <1>4 DEF IInv

LEMMA SendAppendsStep == ASSUME IInv, NEW s \in Sends, SendAppends(s) PROVE IInv'
<1> DEFINE c == send[s].chat
<1>1. UNCHANGED <<chats, gone, fileVars, upload, removal, jobVars>> /\ TypeOK
  BY DEF SendAppends, IInv
<1>2. Objects' /\ UploadsAreFull'
  BY <1>1, ObjectsKeep DEF IInv, fileVars, jobVars, UploadsAreFull, Under
<1>3. CASE c \in chats \ claimed
  <2>1. /\ c \in Chats /\ Touch(c) /\ send[s].files \in SUBSET Files
        /\ refs' = [refs EXCEPT ![c] = @ \union send[s].files]
        /\ late' = IF operator.stage = "reclaiming" THEN late \union send[s].files ELSE late
        /\ claimed' = claimed \union {c}
        /\ send' = [send EXCEPT ![s].stage = "running"]
    BY <1>1, <1>3 DEF SendAppends, TypeOK
  <2>2. TypeOK'
    BY <1>1, <2>1, TouchTypes DEF TypeOK, fileVars, jobVars
  <2>3. UsedWhereItIs'
    BY <1>1, <1>3, <2>1 DEF IInv, TypeOK, UsedWhereItIs, fileVars
  <2>4. ReclaimsTheUnsent'
    BY <1>1, <2>1 DEF IInv, TypeOK, ReclaimsTheUnsent, fileVars, jobVars
  <2>5. AnsweringIsRecent'
    BY <1>1, <1>3, <2>1, TouchTypes DEF IInv, TypeOK, AnsweringIsRecent
  <2> QED
    BY <1>2, <2>2, <2>3, <2>4, <2>5 DEF IInv
<1>4. CASE c \notin chats \ claimed
  <2>1. send' = [send EXCEPT ![s] = NoSend] /\ UNCHANGED <<older, quiet, refs, claimed, late>>
    BY <1>4 DEF SendAppends
  <2>2. TypeOK'
    BY <1>1, <2>1 DEF TypeOK, NoSend, fileVars, jobVars
  <2>3. UsedWhereItIs' /\ ReclaimsTheUnsent' /\ AnsweringIsRecent'
    BY <1>1, <2>1, EmptyTypes DEF IInv, TypeOK, UsedWhereItIs, ReclaimsTheUnsent,
                                  AnsweringIsRecent, fileVars, jobVars
  <2> QED
    BY <1>2, <2>2, <2>3 DEF IInv
<1> QED
  BY <1>3, <1>4

LEMMA SendEnds ==
    ASSUME IInv, NEW s \in Sends, TurnEnds(s) \/ SendRefused(s)
    PROVE  IInv'
<1> DEFINE c == send[s].chat
<1>1. /\ UNCHANGED <<chats, gone, refs, fileVars, upload, removal, jobVars, late>> /\ TypeOK
      /\ send' = [send EXCEPT ![s] = NoSend]
      /\ claimed' \subseteq claimed
      /\ (c \in chats /\ Touch(c)) \/ UNCHANGED <<older, quiet>>
  BY DEF TurnEnds, SendRefused, IInv
<1>2. Objects' /\ UploadsAreFull'
  BY <1>1, ObjectsKeep DEF IInv, fileVars, jobVars, UploadsAreFull, Under
<1>3. /\ older' \in SUBSET (Chats \X Chats) /\ quiet' \in [Chats -> 0 .. IdleDays]
      /\ \A d \in Chats : quiet'[d] = quiet[d] \/ quiet'[d] < IdleDays
  <2>1. CASE c \in chats /\ Touch(c)
    <3>1. c \in Chats
      BY <1>1, <2>1 DEF TypeOK
    <3> QED
      BY <1>1, <2>1, <3>1, TouchTypes
  <2>2. CASE UNCHANGED <<older, quiet>>
    BY <1>1, <2>2 DEF TypeOK
  <2> QED
    BY <1>1, <2>1, <2>2
<1>4. TypeOK'
  BY <1>1, <1>3 DEF TypeOK, NoSend, fileVars, jobVars
<1>5. UsedWhereItIs' /\ ReclaimsTheUnsent'
  BY <1>1, EmptyTypes DEF IInv, TypeOK, UsedWhereItIs, ReclaimsTheUnsent, fileVars, jobVars
<1>6. AnsweringIsRecent'
  BY <1>1, <1>3, EmptyTypes DEF IInv, TypeOK, AnsweringIsRecent
<1> QED
  BY <1>2, <1>4, <1>5, <1>6 DEF IInv

----------------------------------------------------------------------------
\* The uploads.

LEMMA UploadLooksStep ==
    ASSUME IInv, NEW u \in Uploads, NEW f \in Files, NEW c \in Chats, UploadLooks(u, f, c)
    PROVE  IInv'
<1> USE EmptyTypes
<1>1. PICK key \in IF rows[f] = NoRow THEN Keys \ Named ELSE {rows[f].key} :
        upload' = [upload EXCEPT ![u] = [stage |-> "looked", file |-> f, chat |-> c,
                                         found |-> rows[f], key |-> key]]
  BY DEF UploadLooks
<1>2. /\ UNCHANGED <<chatVars, claimed, fileVars, send, removal, jobVars, late>>
      /\ c \in Uses[f] /\ TypeOK /\ rows[f] \in Rows \union {NoRow} /\ key \in Keys
  BY <1>1 DEF UploadLooks, IInv, TypeOK
<1>3. TypeOK' /\ UploadsAreFull'
  BY <1>1, <1>2 DEF IInv, TypeOK, UploadsAreFull, Under, chatVars, fileVars, jobVars
<1>4. RowsHaveTheirBytes' /\ OneRowAKey' /\ NoRowIsSwept' /\ RemovalIsWhole'
  BY <1>2 DEF IInv, Objects, RowsHaveTheirBytes, Stored, OneRowAKey, NoRowIsSwept,
              RemovalIsWhole, fileVars, jobVars
<1>5. FreshIsItsOwn'
  <2>1. /\ upload'[u].key = key /\ upload'[u].found = rows[f] /\ upload'[u].stage = "looked"
        /\ \A v \in Uploads : v # u => upload'[v] = upload[v]
    BY <1>1, <1>2 DEF TypeOK
  <2>2. rows[f] = NoRow =>
          /\ key \notin blobs \union toSweep \union removal.keys \union operator.keys
          /\ \A g \in Files : rows[g].key # key
          /\ \A v \in Uploads : upload[v].key # key
    <3>1. \A g \in Files : rows[g] # NoRow => rows[g].key \in KeysOf(Files)
      BY DEF KeysOf, Stored
    <3>2. NoRow.key # key
      BY <1>2, ConversationsAssumption
    <3> QED
      BY <1>1, <3>1, <3>2 DEF Named
  <2>3. rows[f] # NoRow => \A v \in Uploads : Fresh(v) => upload[v].key # key
    BY <1>1 DEF IInv, Objects, FreshIsItsOwn
  <2>4. \A v \in Uploads : v # u => (Fresh(v)' <=> Fresh(v))
    BY <2>1 DEF Fresh, Under
  <2>5. Fresh(u)' <=> rows[f] = NoRow
    BY <2>1 DEF Fresh, Under
  <2>6. UNCHANGED <<rows, blobs, aged, toSweep, removal, operator>>
    BY <1>2 DEF fileVars, jobVars
  <2>7. ASSUME NEW v \in Uploads, v # u, Fresh(v)
        PROVE  /\ upload[v].key # key
               /\ \A w \in Uploads : w # v => upload'[w].key # upload[v].key
    BY <2>1, <2>2, <2>3, <2>7 DEF IInv, Objects, FreshIsItsOwn
  <2> QED
    BY <2>1, <2>2, <2>4, <2>5, <2>6, <2>7 DEF IInv, Objects, FreshIsItsOwn
<1>6. UsedWhereItIs' /\ ReclaimsTheUnsent' /\ AnsweringIsRecent'
  BY <1>2 DEF IInv, UsedWhereItIs, ReclaimsTheUnsent, AnsweringIsRecent,
              chatVars, fileVars, jobVars
<1> QED
  BY <1>3, <1>4, <1>5, <1>6 DEF IInv, Objects

LEMMA UploadPutsStep == ASSUME IInv, NEW u \in Uploads, UploadPuts(u) PROVE IInv'
<1> USE EmptyTypes
<1>1. /\ UNCHANGED <<chatVars, claimed, rows, old, toSweep, send, removal, jobVars, late>>
      /\ upload[u].stage = "looked" /\ upload' = [upload EXCEPT ![u].stage = "put"]
      /\ blobs' = blobs \union {upload[u].key} /\ aged' = aged \ {upload[u].key}
      /\ TypeOK
  BY DEF UploadPuts, IInv
<1>2. /\ upload'[u] = [upload[u] EXCEPT !.stage = "put"]
      /\ \A v \in Uploads : v # u => upload'[v] = upload[v]
      /\ upload[u].key \in Keys
  BY <1>1 DEF IInv, TypeOK, UploadsAreFull, Under
<1>3. TypeOK' /\ UploadsAreFull'
  <2>1. TypeOK'
    <3>1. blobs' \in SUBSET Keys /\ aged' \in SUBSET blobs'
      BY <1>1, <1>2 DEF TypeOK
    <3>2. upload' \in [Uploads -> [stage : {"none", "looked", "put"},
                                  file : Files \union {NoFile}, chat : Chats \union {NoChat},
                                  found : Rows \union {NoRow}, key : Keys \union {NoKey}]]
      <4> DEFINE Recs == [stage : {"none", "looked", "put"},
                          file : Files \union {NoFile}, chat : Chats \union {NoChat},
                          found : Rows \union {NoRow}, key : Keys \union {NoKey}]
                 rec == [upload[u] EXCEPT !.stage = "put"]
      <4>1. upload \in [Uploads -> Recs]
        BY <1>1 DEF TypeOK
      <4>2. rec \in Recs
        BY <4>1
      <4>3. upload' = [upload EXCEPT ![u] = rec]
        BY <1>1
      <4> HIDE DEF Recs, rec
      <4>4. upload' \in [Uploads -> Recs]
        BY <4>1, <4>2, <4>3
      <4> QED
        BY <4>4 DEF Recs
    <3> QED
      BY <1>1, <3>1, <3>2 DEF TypeOK, chatVars, jobVars
  <2>2. \A v \in Uploads : /\ upload'[v].file = upload[v].file
                           /\ upload'[v].chat = upload[v].chat
                           /\ upload'[v].key = upload[v].key
                           /\ Under(v)' <=> Under(v)
    BY <1>1, <1>2 DEF TypeOK, Under
  <2> QED
    BY <2>1, <2>2 DEF IInv, UploadsAreFull
<1>4. RowsHaveTheirBytes' /\ OneRowAKey' /\ NoRowIsSwept' /\ RemovalIsWhole'
  BY <1>1 DEF IInv, Objects, RowsHaveTheirBytes, Stored, OneRowAKey, NoRowIsSwept,
              RemovalIsWhole, jobVars
<1>5. FreshIsItsOwn'
  <2>1. \A v \in Uploads : /\ Fresh(v)' <=> Fresh(v)
                           /\ upload'[v].key = upload[v].key
                           /\ v # u => upload'[v].stage = upload[v].stage
    BY <1>1, <1>2 DEF Fresh, Under, TypeOK
  <2>2. upload'[u].stage = "put"
    BY <1>1, <1>2 DEF TypeOK
  <2>3. Fresh(u) <=> upload[u].found = NoRow
    BY <1>1 DEF Fresh, Under
  <2> QED
    BY <1>1, <1>2, <2>1, <2>2, <2>3 DEF IInv, Objects, FreshIsItsOwn, jobVars
<1>6. UsedWhereItIs' /\ ReclaimsTheUnsent' /\ AnsweringIsRecent'
  BY <1>1 DEF IInv, UsedWhereItIs, ReclaimsTheUnsent, AnsweringIsRecent, chatVars, jobVars
<1> QED
  BY <1>3, <1>4, <1>5, <1>6 DEF IInv, Objects

\* An upload that is over holds no key.
LEMMA UploadOver ==
    ASSUME IInv, NEW u \in Uploads, upload' = [upload EXCEPT ![u] = NoUpload]
    PROVE  /\ upload' \in [Uploads -> [stage : {"none", "looked", "put"},
                                        file : Files \union {NoFile},
                                        chat : Chats \union {NoChat},
                                        found : Rows \union {NoRow}, key : Keys \union {NoKey}]]
           /\ \A v \in Uploads : Under(v)' => v # u /\ Under(v) /\ upload'[v] = upload[v]
           /\ \A v \in Uploads : Fresh(v)' => v # u /\ Fresh(v) /\ upload'[v] = upload[v]
           /\ \A v \in Uploads : upload'[v].key \in {upload[v].key, NoKey}
           /\ UploadsAreFull'
<1>1. TypeOK /\ UploadsAreFull
  BY DEF IInv
<1>2. /\ upload'[u] = NoUpload /\ \A v \in Uploads : v # u => upload'[v] = upload[v]
  BY <1>1 DEF TypeOK
<1>3. \A v \in Uploads : Under(v)' => v # u /\ Under(v) /\ upload'[v] = upload[v]
  BY <1>2, EmptyTypes DEF Under
<1>4. \A v \in Uploads : Fresh(v)' => v # u /\ Fresh(v) /\ upload'[v] = upload[v]
  BY <1>3 DEF Fresh
<1>5. \A v \in Uploads : upload'[v].key \in {upload[v].key, NoKey}
  BY <1>2, EmptyTypes
<1>6. UploadsAreFull'
  BY <1>1, <1>3 DEF UploadsAreFull
<1>7. upload' \in [Uploads -> [stage : {"none", "looked", "put"},
                               file : Files \union {NoFile},
                               chat : Chats \union {NoChat},
                               found : Rows \union {NoRow}, key : Keys \union {NoKey}]]
  BY <1>1 DEF TypeOK, NoUpload
<1> QED
  BY <1>3, <1>4, <1>5, <1>6, <1>7

LEMMA UploadFailsStep == ASSUME IInv, NEW u \in Uploads, UploadFails(u) PROVE IInv'
<1>1. /\ UNCHANGED <<chatVars, claimed, fileVars, send, removal, jobVars, late>>
      /\ upload' = [upload EXCEPT ![u] = NoUpload]
  BY DEF UploadFails
<1>2. TypeOK' /\ UploadsAreFull'
  BY <1>1, UploadOver DEF IInv, TypeOK, chatVars, fileVars, jobVars
<1>3. RowsHaveTheirBytes' /\ OneRowAKey' /\ NoRowIsSwept' /\ RemovalIsWhole'
  BY <1>1 DEF IInv, Objects, RowsHaveTheirBytes, Stored, OneRowAKey, NoRowIsSwept,
              RemovalIsWhole, fileVars, jobVars
<1>4. FreshIsItsOwn'
  <2>1. \A v \in Uploads : Fresh(v) => upload[v].key # NoKey
    BY ConversationsAssumption DEF IInv, UploadsAreFull, Fresh
  <2>2. FreshIsItsOwn /\ UNCHANGED <<rows, blobs, aged, toSweep, removal, operator>>
    BY <1>1 DEF IInv, Objects, fileVars, jobVars
  <2>3. \A v \in Uploads : Fresh(v)' => v # u /\ Fresh(v) /\ upload'[v] = upload[v]
    BY <1>1, UploadOver
  <2>4. \A v \in Uploads : upload'[v].key \in {upload[v].key, NoKey}
    BY <1>1, UploadOver
  <2> QED
    BY <2>1, <2>2, <2>3, <2>4 DEF FreshIsItsOwn
<1>5. UsedWhereItIs' /\ ReclaimsTheUnsent' /\ AnsweringIsRecent'
  BY <1>1 DEF IInv, UsedWhereItIs, ReclaimsTheUnsent, AnsweringIsRecent,
              chatVars, fileVars, jobVars
<1> QED
  BY <1>2, <1>3, <1>4, <1>5 DEF IInv, Objects

LEMMA UploadStoresStep == ASSUME IInv, NEW u \in Uploads, UploadStores(u) PROVE IInv'
<1> DEFINE f == upload[u].file
           c == upload[u].chat
           row == [key |-> upload[u].key, chat |-> c]
<1> USE EmptyTypes
<1>1. CASE ~(c \in chats /\ (Inserts(u) \/ Moves(u)))
  <2>1. UploadFails(u)
    BY <1>1 DEF UploadStores, UploadFails, fileVars
  <2> QED
    BY <2>1, UploadFailsStep
<1>2. CASE c \in chats /\ (Inserts(u) \/ Moves(u))
  <2>1. /\ UNCHANGED <<chatVars, claimed, blobs, aged, toSweep, send, removal, jobVars, late>>
        /\ upload[u].stage = "put" /\ upload' = [upload EXCEPT ![u] = NoUpload]
        /\ rows' = [rows EXCEPT ![f] = row] /\ old' \subseteq old
        /\ TypeOK /\ f \in Files /\ c \in Chats /\ upload[u].key \in Keys /\ c \in Uses[f]
    BY <1>2 DEF UploadStores, IInv, UploadsAreFull, Under
  <2>2. /\ row \in Rows /\ rows'[f] = row /\ row.key = upload[u].key /\ row.chat = c
        /\ \A g \in Files : g # f => rows'[g] = rows[g]
    BY <2>1 DEF TypeOK, Rows
  <2> HIDE DEF row
  <2>3. TypeOK' /\ UploadsAreFull'
    BY <2>1, <2>2, UploadOver DEF TypeOK, chatVars, jobVars
  <2>4. \/ Fresh(u) /\ rows[f] = NoRow
        \/ rows[f] # NoRow /\ rows[f].key = upload[u].key
    BY <1>2, <2>1, ConversationsAssumption DEF Inserts, Moves, Fresh, Under
  <2>5. RowsHaveTheirBytes' /\ OneRowAKey' /\ NoRowIsSwept' /\ RemovalIsWhole'
    <3>1. CASE Fresh(u) /\ rows[f] = NoRow
      <4>1. /\ upload[u].key \in blobs
            /\ upload[u].key \notin toSweep \union removal.keys \union operator.keys
            /\ \A g \in Files : rows[g].key # upload[u].key
        BY <2>1, <3>1 DEF IInv, Objects, FreshIsItsOwn
      <4> QED
        BY <2>1, <2>2, <4>1 DEF IInv, Objects, RowsHaveTheirBytes, Stored, OneRowAKey,
                                NoRowIsSwept, RemovalIsWhole, jobVars
    <3>2. CASE rows[f] # NoRow /\ rows[f].key = upload[u].key
      <4>1. /\ \A g \in Files : rows'[g].key = rows[g].key
            /\ \A g \in Files : rows'[g] = NoRow <=> rows[g] = NoRow
        BY <2>1, <2>2, <3>2
      <4> QED
        BY <2>1, <4>1 DEF IInv, Objects, RowsHaveTheirBytes, Stored, OneRowAKey,
                          NoRowIsSwept, RemovalIsWhole, jobVars
    <3> QED
      BY <2>4, <3>1, <3>2
  <2>6. FreshIsItsOwn'
    <3>1. \A v \in Uploads : v # u /\ Fresh(v) =>
             /\ upload[v].key # NoKey /\ upload[v].key # upload[u].key
             /\ \A g \in Files : rows[g].key # upload[v].key
      BY ConversationsAssumption
         DEF IInv, UploadsAreFull, Fresh, Objects, FreshIsItsOwn
    <3>2. \A v \in Uploads : v # u /\ Fresh(v) => \A g \in Files : rows'[g].key # upload[v].key
      BY <2>2, <3>1
    <3>3. FreshIsItsOwn /\ UNCHANGED <<blobs, aged, toSweep, removal, operator>>
      BY <2>1 DEF IInv, Objects, jobVars
    <3>4. \A v \in Uploads : Fresh(v)' => v # u /\ Fresh(v) /\ upload'[v] = upload[v]
      BY <2>1, UploadOver
    <3>5. \A v \in Uploads : upload'[v].key \in {upload[v].key, NoKey}
      BY <2>1, UploadOver
    <3> QED
      BY <3>1, <3>2, <3>3, <3>4, <3>5 DEF FreshIsItsOwn
  <2>7. UsedWhereItIs'
    <3>1. \A g \in Files : rows'[g].chat \in Uses[g] \union {NoChat}
      BY <2>1, <2>2 DEF IInv, UsedWhereItIs
    <3> QED
      BY <2>1, <3>1 DEF IInv, UsedWhereItIs, chatVars
  <2>8. ReclaimsTheUnsent'
    <3>1. \A g \in Files : rows'[g] # NoRow /\ rows'[g].key \in operator.keys =>
                             rows[g] # NoRow /\ rows[g].key = rows'[g].key
      BY <2>1, <2>2, <2>4 DEF IInv, Objects, FreshIsItsOwn
    <3> QED
      BY <2>1, <3>1 DEF IInv, ReclaimsTheUnsent, chatVars, jobVars
  <2>9. AnsweringIsRecent'
    BY <2>1 DEF IInv, AnsweringIsRecent, chatVars
  <2> QED
    BY <2>3, <2>5, <2>6, <2>7, <2>8, <2>9 DEF IInv, Objects
<1> QED
  BY <1>1, <1>2

----------------------------------------------------------------------------
\* The steps that remove rows, and the sweep of what they removed.

\* What rows that go, with the chats of a set, leave of the rest of the invariant.
LEMMA ChatsGo ==
    ASSUME IInv, NEW files, NEW cs, DropRows(files, cs),
           \/ Drop(cs) \/ UNCHANGED chatVars,
           UNCHANGED send, removal' \in {removal, NoRemoval},
           operator' = OffDuty \/ UNCHANGED <<operator, late>>
    PROVE  UsedWhereItIs' /\ ReclaimsTheUnsent' /\ AnsweringIsRecent'
<1> USE EmptyTypes
<1>1. TypeOK /\ UsedWhereItIs /\ ReclaimsTheUnsent /\ AnsweringIsRecent
  BY DEF IInv
<1>2. /\ \A f \in Files : rows'[f].chat \in {rows[f].chat, NoChat}
      /\ \A f \in Files : rows'[f] # NoRow => rows[f] # NoRow /\ rows'[f].key = rows[f].key
  BY <1>1, RowsTypes
<1>3. /\ \A c \in Chats : refs'[c] \subseteq refs[c] /\ (c \notin chats' => refs'[c] = {})
      /\ \A c \in Chats : c \in chats' => c \in chats /\ quiet'[c] = quiet[c]
      /\ chats' \union gone' = chats \union gone
  <2>1. \A c \in Chats : c \notin chats => refs[c] = {}
    BY <1>1 DEF UsedWhereItIs
  <2>2. CASE Drop(cs)
    BY <1>1, <2>1, <2>2, DropTypes DEF Drop
  <2>3. CASE UNCHANGED chatVars
    BY <2>1, <2>3 DEF chatVars
  <2> QED
    BY <2>2, <2>3
<1>4. UsedWhereItIs'
  <2>1. \A c \in Chats : \A f \in refs'[c] : c \in chats' /\ c \in Uses[f]
    BY <1>1, <1>3 DEF UsedWhereItIs
  <2>2. \A f \in removal'.files : \E c \in removal'.chats : c \in Uses[f]
    BY <1>1 DEF UsedWhereItIs
  <2> QED
    BY <1>1, <1>2, <2>1, <2>2 DEF UsedWhereItIs
<1>5. ReclaimsTheUnsent'
  BY <1>1, <1>2, <1>3 DEF ReclaimsTheUnsent
<1>6. AnsweringIsRecent'
  BY <1>1, <1>3 DEF AnsweringIsRecent, TypeOK
<1> QED
  BY <1>4, <1>5, <1>6

LEMMA KeysOfRows ==
    ASSUME TypeOK, NEW files \in SUBSET Files
    PROVE  /\ KeysOf(files) \subseteq Keys
           /\ \A f \in files : rows[f] # NoRow => rows[f].key \in KeysOf(files)
           /\ \A key \in KeysOf(files) : \E f \in files : rows[f] # NoRow /\ rows[f].key = key
  BY EmptyTypes DEF KeysOf, Stored, TypeOK

\* The keys of some rows are those of no other row, and of no new file.
LEMMA KeysAreTheirs ==
    ASSUME IInv, NEW files \in SUBSET Files
    PROVE  /\ \A f \in Files : rows[f] # NoRow /\ rows[f].key \in KeysOf(files) => f \in files
           /\ \A u \in Uploads : Fresh(u) => upload[u].key \notin KeysOf(files)
  BY KeysOfRows DEF IInv, Objects, OneRowAKey, FreshIsItsOwn

LEMMA DeleteAttachmentStep == ASSUME IInv, NEW f \in Files, DeleteAttachment(f) PROVE IInv'
<1>1. /\ UNCHANGED <<chatVars, claimed, blobs, aged, upload, send, removal, jobVars, late>>
      /\ DropRows({f}, {}) /\ toSweep' = toSweep \union KeysOf({f}) /\ TypeOK
  BY DEF DeleteAttachment, IInv
<1>2. TypeOK' /\ UploadsAreFull'
  BY <1>1, RowsTypes, KeysOfRows DEF IInv, TypeOK, UploadsAreFull, Under, chatVars, jobVars
<1>3. Objects'
  BY <1>1, RowsGo, KeysAreTheirs DEF jobVars
<1>4. UsedWhereItIs' /\ ReclaimsTheUnsent' /\ AnsweringIsRecent'
  BY <1>1, ChatsGo DEF jobVars
<1> QED
  BY <1>2, <1>3, <1>4 DEF IInv

LEMMA RemovalCommitsStep == ASSUME IInv, RemovalCommits PROVE IInv'
<1> DEFINE files == IF removal.cascade THEN removal.files
                    ELSE {f \in Stored : rows[f].key \in removal.keys}
<1>1. /\ UNCHANGED <<blobs, aged, upload, send, jobVars, late>>
      /\ Drop(removal.chats) /\ DropRows(files, removal.chats)
      /\ toSweep' = toSweep \union removal.keys /\ removal' = NoRemoval
      /\ claimed' \subseteq claimed /\ TypeOK
  BY DEF RemovalCommits, IInv
<1>2. TypeOK' /\ UploadsAreFull'
  BY <1>1, RowsTypes, DropTypes
     DEF IInv, TypeOK, UploadsAreFull, Under, jobVars, NoRemoval
<1>3. Objects'
  <2>1. \A f \in Files : rows[f] # NoRow /\ rows[f].key \in removal.keys => f \in files
    BY DEF IInv, Objects, RemovalIsWhole, Stored
  <2>2. \A u \in Uploads : Fresh(u) => upload[u].key \notin removal.keys
    BY DEF IInv, Objects, FreshIsItsOwn
  <2> HIDE DEF files
  <2> QED
    BY <1>1, <2>1, <2>2, RowsGo DEF jobVars
<1>4. UsedWhereItIs' /\ ReclaimsTheUnsent' /\ AnsweringIsRecent'
  <2> HIDE DEF files
  <2> QED
    BY <1>1, ChatsGo DEF jobVars
<1> QED
  BY <1>2, <1>3, <1>4 DEF IInv

LEMMA ReclaimCommitsStep == ASSUME IInv, ReclaimCommits PROVE IInv'
<1> DEFINE files == {f \in Stored : rows[f].key \in operator.keys}
<1>1. /\ UNCHANGED <<chatVars, claimed, blobs, aged, upload, send, removal, pass, rested>>
      /\ DropRows(files, {}) /\ toSweep' = toSweep \union operator.keys
      /\ operator' = OffDuty /\ late' = {} /\ TypeOK
  BY DEF ReclaimCommits, IInv
<1>2. TypeOK' /\ UploadsAreFull'
  BY <1>1, RowsTypes DEF IInv, TypeOK, UploadsAreFull, Under, chatVars, OffDuty
<1>3. Objects'
  <2>1. \A f \in Files : rows[f] # NoRow /\ rows[f].key \in operator.keys => f \in files
    BY DEF Stored
  <2>2. \A u \in Uploads : Fresh(u) => upload[u].key \notin operator.keys
    BY DEF IInv, Objects, FreshIsItsOwn
  <2> HIDE DEF files
  <2> QED
    BY <1>1, <2>1, <2>2, RowsGo
<1>4. UsedWhereItIs' /\ ReclaimsTheUnsent' /\ AnsweringIsRecent'
  <2> HIDE DEF files
  <2> QED
    BY <1>1, ChatsGo
<1> QED
  BY <1>2, <1>3, <1>4 DEF IInv

LEMMA PassCommitsStep == ASSUME IInv, PassCommits PROVE IInv'
<1> DEFINE doomed == pass.chosen \intersect Idle(quiet)
           files == {f \in Stored : rows[f].chat \in doomed}
<1>1. /\ UNCHANGED <<claimed, blobs, aged, upload, send, removal, operator, late>>
      /\ Drop(doomed) /\ DropRows(files, doomed)
      /\ toSweep' = toSweep \union KeysOf(files)
      /\ rested' \in {0, rested} /\ pass' = AtRest /\ TypeOK /\ files \in SUBSET Files
  BY DEF PassCommits, IInv, Stored
<1> HIDE DEF doomed, files
<1>2. TypeOK' /\ UploadsAreFull'
  <2>1. RestDays \in Nat
    BY ConversationsAssumption
  <2> QED
    BY <1>1, <2>1, RowsTypes, DropTypes, KeysOfRows
       DEF IInv, TypeOK, UploadsAreFull, Under, AtRest
<1>3. Objects'
  BY <1>1, RowsGo, KeysAreTheirs
<1>4. UsedWhereItIs' /\ ReclaimsTheUnsent' /\ AnsweringIsRecent'
  BY <1>1, ChatsGo
<1> QED
  BY <1>2, <1>3, <1>4 DEF IInv

\* An object that is swept or reconciled is no row's and no new file's.
LEMMA ObjectsGo ==
    ASSUME IInv, NEW key \in Keys, Sweep(key) \/ ReconcileDeletes(key)
    PROVE  IInv'
<1>1. /\ UNCHANGED <<chatVars, claimed, rows, old, upload, send, removal, jobVars, late>>
      /\ toSweep' \subseteq toSweep
      /\ \/ blobs' = blobs \ {key} /\ aged' = aged \ {key}
         \/ UNCHANGED <<blobs, aged>>
      /\ key \in toSweep \/ (operator.stage = "reconciling" /\ key \in operator.keys)
      /\ TypeOK /\ Objects
  BY DEF Sweep, ReconcileDeletes, IInv
<1>2. TypeOK' /\ UploadsAreFull'
  BY <1>1 DEF IInv, TypeOK, UploadsAreFull, Under, chatVars, jobVars
<1>3. /\ \A f \in Files : rows[f] # NoRow => rows[f].key # key
      /\ \A u \in Uploads : Fresh(u) => upload[u].key # key
  BY <1>1 DEF Objects, NoRowIsSwept, FreshIsItsOwn
<1>4. RowsHaveTheirBytes' /\ OneRowAKey' /\ NoRowIsSwept' /\ RemovalIsWhole'
  BY <1>1, <1>3 DEF Objects, RowsHaveTheirBytes, Stored, OneRowAKey, NoRowIsSwept,
                    RemovalIsWhole, jobVars
<1>5. FreshIsItsOwn'
  BY <1>1, <1>3 DEF Objects, FreshIsItsOwn, Fresh, Under, jobVars
<1>6. UsedWhereItIs' /\ ReclaimsTheUnsent' /\ AnsweringIsRecent'
  BY <1>1 DEF IInv, UsedWhereItIs, ReclaimsTheUnsent, AnsweringIsRecent, chatVars, jobVars
<1> QED
  BY <1>2, <1>4, <1>5, <1>6 DEF IInv, Objects

----------------------------------------------------------------------------
\* The scans, the looks and what is called off.

LEMMA RemovalScans ==
    ASSUME IInv, NEW c \in Chats, DeleteChatScans(c) \/ DeleteProjectScans
    PROVE  IInv'
<1> USE EmptyTypes
<1>1. PICK cs \in SUBSET Chats, cascade \in BOOLEAN : removal' = Scanned(cs, cascade)
  BY DEF DeleteChatScans, DeleteProjectScans, IInv, TypeOK
<1>2. /\ UNCHANGED <<chatVars, fileVars, upload, send, jobVars, late>>
      /\ claimed' \subseteq claimed \union {c} /\ TypeOK
  BY DEF DeleteChatScans, DeleteProjectScans, IInv
<1>3. /\ removal'.chats = cs /\ removal'.files = Referenced(cs) \intersect Stored
      /\ removal'.keys = KeysOf(Referenced(cs)) /\ Referenced(cs) \in SUBSET Files
      /\ \A f \in Referenced(cs) : \E d \in cs : f \in refs[d]
  BY <1>1, <1>2 DEF Scanned, Referenced, TypeOK
<1>4. TypeOK' /\ UploadsAreFull'
  <2>1. removal' \in [chats : SUBSET Chats, files : SUBSET Files, keys : SUBSET Keys,
                      cascade : BOOLEAN]
    BY <1>1, <1>2, <1>3, KeysOfRows DEF Scanned
  <2> QED
    BY <1>2, <2>1 DEF IInv, TypeOK, UploadsAreFull, Under, chatVars, fileVars, jobVars
<1>5. RowsHaveTheirBytes' /\ OneRowAKey' /\ NoRowIsSwept'
  BY <1>2 DEF IInv, Objects, RowsHaveTheirBytes, Stored, OneRowAKey, NoRowIsSwept,
              fileVars, jobVars
<1>6. RemovalIsWhole' /\ FreshIsItsOwn'
  <2>1. /\ \A f \in Files : rows[f] # NoRow /\ rows[f].key \in removal'.keys => f \in removal'.files
        /\ \A u \in Uploads : Fresh(u) => upload[u].key \notin removal'.keys
    BY <1>3, KeysAreTheirs DEF Stored
  <2> QED
    BY <1>2, <2>1 DEF IInv, Objects, RemovalIsWhole, FreshIsItsOwn, Fresh, Under,
                      fileVars, jobVars
<1>7. UsedWhereItIs' /\ ReclaimsTheUnsent' /\ AnsweringIsRecent'
  <2>1. \A f \in removal'.files : \E d \in removal'.chats : d \in Uses[f]
    BY <1>1, <1>3 DEF IInv, UsedWhereItIs
  <2> QED
    BY <1>2, <2>1 DEF IInv, UsedWhereItIs, ReclaimsTheUnsent, AnsweringIsRecent,
                      chatVars, fileVars, jobVars
<1> QED
  BY <1>4, <1>5, <1>6, <1>7 DEF IInv, Objects

LEMMA CalledOff ==
    ASSUME IInv, RemovalFails \/ OperatorFails \/ ApiDies
    PROVE  IInv'
<1> USE EmptyTypes
<1>1. /\ UNCHANGED <<chatVars, fileVars, pass, rested>> /\ claimed' \subseteq claimed /\ TypeOK
      /\ upload' = upload \/ upload' = [u \in Uploads |-> NoUpload]
      /\ send' = send \/ send' = [s \in Sends |-> NoSend]
      /\ removal' \in {removal, NoRemoval}
      /\ (operator' = OffDuty /\ late' = {}) \/ UNCHANGED <<operator, late>>
  BY DEF RemovalFails, OperatorFails, ApiDies, IInv, jobVars
<1>2. TypeOK'
  <2>1. upload' \in [Uploads -> [stage : {"none", "looked", "put"},
                                file : Files \union {NoFile}, chat : Chats \union {NoChat},
                                found : Rows \union {NoRow}, key : Keys \union {NoKey}]]
    BY <1>1 DEF TypeOK, NoUpload
  <2>2. send' \in [Sends -> [stage : {"none", "read", "running"},
                            chat : Chats \union {NoChat}, files : SUBSET Files]]
    BY <1>1 DEF TypeOK, NoSend
  <2>3. /\ removal' \in [chats : SUBSET Chats, files : SUBSET Files, keys : SUBSET Keys,
                         cascade : BOOLEAN]
        /\ operator' \in [stage : {"none", "reconciling", "reclaiming"}, keys : SUBSET Keys]
        /\ late' \in SUBSET Files
    BY <1>1, JobTypes DEF TypeOK
  <2> QED
    BY <1>1, <2>1, <2>2, <2>3 DEF TypeOK, chatVars, fileVars
<1>3. UploadsAreFull'
  BY <1>1 DEF IInv, UploadsAreFull, Under
<1>4. RowsHaveTheirBytes' /\ OneRowAKey' /\ NoRowIsSwept' /\ RemovalIsWhole'
  BY <1>1 DEF IInv, Objects, RowsHaveTheirBytes, Stored, OneRowAKey, NoRowIsSwept,
              RemovalIsWhole, fileVars
<1>5. FreshIsItsOwn'
  BY <1>1 DEF IInv, Objects, FreshIsItsOwn, Fresh, Under, fileVars
<1>6. UsedWhereItIs' /\ ReclaimsTheUnsent' /\ AnsweringIsRecent'
  BY <1>1 DEF IInv, UsedWhereItIs, ReclaimsTheUnsent, AnsweringIsRecent, chatVars, fileVars
<1> QED
  BY <1>2, <1>3, <1>4, <1>5, <1>6 DEF IInv, Objects

LEMMA OperatorLooks == ASSUME IInv, ReconcileStarts \/ ReclaimLooks PROVE IInv'
<1> USE EmptyTypes
<1>1. /\ UNCHANGED <<chatVars, claimed, fileVars, upload, send, removal, pass, rested>>
      /\ TypeOK /\ late' \subseteq late
  BY DEF ReconcileStarts, ReclaimLooks, IInv
<1>2. /\ \A u \in Uploads : Fresh(u) => upload[u].key \notin operator'.keys
      /\ \A f \in Files : rows[f] # NoRow /\ operator'.stage = "reconciling" =>
                          rows[f].key \notin operator'.keys
      /\ ReclaimsTheUnsent'
      /\ operator' \in [stage : {"none", "reconciling", "reclaiming"}, keys : SUBSET Keys]
  <2>1. CASE ReconcileStarts
    <3>1. operator' = [stage |-> "reconciling", keys |-> aged \ KeysOf(Files)]
      BY <2>1 DEF ReconcileStarts
    <3>2. \A u \in Uploads : Fresh(u) => upload[u].key \notin aged
      BY <1>1 DEF IInv, Objects, FreshIsItsOwn, Fresh, Under, TypeOK
    <3>3. \A f \in Files : rows[f] # NoRow => rows[f].key \in KeysOf(Files)
      BY <1>1, KeysOfRows
    <3> QED
      BY <1>1, <3>1, <3>2, <3>3 DEF ReclaimsTheUnsent, TypeOK
  <2>2. CASE ReclaimLooks
    <3> DEFINE files == old \ Referenced(chats)
    <3>1. /\ operator' = [stage |-> "reclaiming", keys |-> KeysOf(files)]
          /\ files \in SUBSET Files
      BY <1>1, <2>2 DEF ReclaimLooks, TypeOK
    <3>2. \A f \in files, c \in chats : f \notin refs[c]
      BY DEF Referenced
    <3> HIDE DEF files
    <3>3. /\ \A f \in Files : rows[f] # NoRow /\ rows[f].key \in KeysOf(files) => f \in files
          /\ \A u \in Uploads : Fresh(u) => upload[u].key \notin KeysOf(files)
          /\ KeysOf(files) \subseteq Keys
      BY <1>1, <3>1, KeysAreTheirs, KeysOfRows
    <3>4. ReclaimsTheUnsent'
      BY <1>1, <3>1, <3>2, <3>3 DEF IInv, ReclaimsTheUnsent, UsedWhereItIs, chatVars, fileVars
    <3> QED
      BY <3>1, <3>3, <3>4
  <2> QED
    BY <2>1, <2>2
<1>3. TypeOK' /\ UploadsAreFull'
  BY <1>1, <1>2 DEF IInv, TypeOK, UploadsAreFull, Under, chatVars, fileVars
<1>4. RowsHaveTheirBytes' /\ OneRowAKey' /\ NoRowIsSwept' /\ RemovalIsWhole'
  BY <1>1, <1>2 DEF IInv, Objects, RowsHaveTheirBytes, Stored, OneRowAKey, NoRowIsSwept,
                    RemovalIsWhole, fileVars
<1>5. FreshIsItsOwn'
  BY <1>1, <1>2 DEF IInv, Objects, FreshIsItsOwn, Fresh, Under, fileVars
<1>6. UsedWhereItIs' /\ AnsweringIsRecent'
  BY <1>1 DEF IInv, UsedWhereItIs, AnsweringIsRecent, chatVars, fileVars
<1> QED
  BY <1>2, <1>3, <1>4, <1>5, <1>6 DEF IInv, Objects

----------------------------------------------------------------------------
\* Time, and the pass up to its commit.

LEMMA DayPassesStep == ASSUME IInv, NEW ticks \in BOOLEAN, DayPasses(ticks) PROVE IInv'
<1> DEFINE idle == [c \in Chats |-> IF c \in chats /\ quiet[c] < IdleDays THEN quiet[c] + 1
                                    ELSE quiet[c]]
<1>1. /\ UNCHANGED <<chats, older, gone, refs, claimed, fileVars, upload, send, removal,
                     operator, late>>
      /\ quiet' = idle /\ rested' = Rested(ticks) /\ TypeOK
      /\ pass' \in {pass, [under |-> TRUE, chosen |-> Condemned(idle)]}
      /\ \A s \in Sends : Answering(s) => idle[send[s].chat] < IdleDays
  BY DEF DayPasses, IInv
<1>2. IdleDays \in Nat \ {0} /\ RestDays \in Nat \ {0}
  BY ConversationsAssumption
<1>3. TypeOK'
  <2>1. idle \in [Chats -> 0 .. IdleDays]
    BY <1>1, <1>2 DEF TypeOK
  <2>2. Rested(ticks) \in 0 .. RestDays
    BY <1>1, <1>2 DEF TypeOK, Rested
  <2> HIDE DEF idle
  <2>3. pass' \in [under : BOOLEAN, chosen : SUBSET Chats]
    <3>1. Condemned(idle) \in SUBSET Chats
      BY <1>1 DEF TypeOK, Condemned, Idle
    <3> HIDE DEF Condemned
    <3>2. [under |-> TRUE, chosen |-> Condemned(idle)] \in [under : BOOLEAN, chosen : SUBSET Chats]
      BY <3>1
    <3> QED
      BY <1>1, <3>2 DEF TypeOK
  <2> QED
    BY <1>1, <2>1, <2>2, <2>3 DEF TypeOK, fileVars
<1> HIDE DEF idle
<1>4. Objects' /\ UploadsAreFull'
  BY <1>1, ObjectsKeep DEF IInv, fileVars, UploadsAreFull, Under
<1>5. UsedWhereItIs' /\ ReclaimsTheUnsent' /\ AnsweringIsRecent'
  BY <1>1 DEF IInv, UsedWhereItIs, ReclaimsTheUnsent, AnsweringIsRecent, Answering, fileVars
<1> QED
  BY <1>3, <1>4, <1>5 DEF IInv

LEMMA RowAgesStep == ASSUME IInv, NEW f \in Files, RowAges(f) PROVE IInv'
<1>1. /\ UNCHANGED <<chatVars, claimed, rows, blobs, aged, toSweep, upload, send, removal,
                     jobVars, late>>
      /\ old' = old \union {f}
  BY DEF RowAges
<1>2. TypeOK' /\ UploadsAreFull'
  BY <1>1 DEF IInv, TypeOK, UploadsAreFull, Under, chatVars, jobVars
<1>3. Objects'
  BY <1>1, ObjectsKeep DEF IInv, jobVars
<1>4. UsedWhereItIs' /\ ReclaimsTheUnsent' /\ AnsweringIsRecent'
  BY <1>1 DEF IInv, UsedWhereItIs, ReclaimsTheUnsent, AnsweringIsRecent, chatVars, jobVars
<1> QED
  BY <1>2, <1>3, <1>4 DEF IInv

\* A new file's object does not age before its row is stored.
LEMMA KeyAgesStep == ASSUME IInv, NEW key \in Keys, KeyAges(key) PROVE IInv'
<1>1. /\ UNCHANGED <<chatVars, claimed, rows, old, blobs, toSweep, upload, send, removal,
                     jobVars, late>>
      /\ aged' = aged \union {key} /\ key \in blobs
      /\ \A u \in Uploads : upload[u].stage = "put" => upload[u].key # key
  BY DEF KeyAges
<1>2. TypeOK' /\ UploadsAreFull'
  BY <1>1 DEF IInv, TypeOK, UploadsAreFull, Under, chatVars, jobVars
<1>3. Objects'
  BY <1>1 DEF IInv, Objects, RowsHaveTheirBytes, Stored, OneRowAKey, NoRowIsSwept,
              RemovalIsWhole, FreshIsItsOwn, Fresh, Under, jobVars
<1>4. UsedWhereItIs' /\ ReclaimsTheUnsent' /\ AnsweringIsRecent'
  BY <1>1 DEF IInv, UsedWhereItIs, ReclaimsTheUnsent, AnsweringIsRecent, chatVars, jobVars
<1> QED
  BY <1>2, <1>3, <1>4 DEF IInv

LEMMA PassFailsStep == ASSUME IInv, PassFails PROVE IInv'
<1>1. /\ UNCHANGED <<chatVars, claimed, fileVars, upload, send, removal, operator, rested, late>>
      /\ pass' = AtRest
  BY DEF PassFails
<1>2. TypeOK' /\ UploadsAreFull'
  BY <1>1 DEF IInv, TypeOK, UploadsAreFull, Under, chatVars, fileVars, AtRest
<1>3. Objects'
  BY <1>1, ObjectsKeep DEF IInv, fileVars
<1>4. UsedWhereItIs' /\ ReclaimsTheUnsent' /\ AnsweringIsRecent'
  BY <1>1 DEF IInv, UsedWhereItIs, ReclaimsTheUnsent, AnsweringIsRecent, chatVars, fileVars
<1> QED
  BY <1>2, <1>3, <1>4 DEF IInv

----------------------------------------------------------------------------
\* The theorems.

LEMMA NextIInv == ASSUME IInv, [Next]_vars PROVE IInv'
<1>1. CASE UNCHANGED vars
  BY <1>1 DEF vars, chatVars, fileVars, jobVars, IInv, TypeOK, UploadsAreFull, Objects,
              RowsHaveTheirBytes, Stored, OneRowAKey, NoRowIsSwept, RemovalIsWhole,
              FreshIsItsOwn, Fresh, Under, UsedWhereItIs, ReclaimsTheUnsent, AnsweringIsRecent
<1>2. ASSUME NEW c \in Chats, CreateChat(c) \/ PatchContext(c) PROVE IInv'
  BY <1>2, ChatSteps
<1>3. ASSUME NEW u \in Uploads,
             \/ \E f \in Files, c \in Chats : UploadLooks(u, f, c)
             \/ UploadPuts(u) \/ UploadFails(u) \/ UploadStores(u)
      PROVE  IInv'
  BY <1>3, UploadLooksStep, UploadPutsStep, UploadFailsStep, UploadStoresStep
<1>4. ASSUME NEW s \in Sends,
             \/ \E c \in Chats, files \in SUBSET Files : SendReads(s, c, files)
             \/ SendAppends(s) \/ TurnEnds(s) \/ SendRefused(s)
      PROVE  IInv'
  BY <1>4, SendReadsStep, SendAppendsStep, SendEnds
<1>5. ASSUME NEW c \in Chats, DeleteChatScans(c) PROVE IInv'
  BY <1>5, RemovalScans
<1>6. CASE DeleteProjectScans
  <2>1. PICK c \in Chats : TRUE
    BY <1>6 DEF DeleteProjectScans, IInv, TypeOK
  <2> QED
    BY <1>6, RemovalScans
<1>7. ASSUME NEW f \in Files, DeleteAttachment(f) PROVE IInv'
  BY <1>7, DeleteAttachmentStep
<1>8. ASSUME NEW key \in Keys, Sweep(key) \/ ReconcileDeletes(key) PROVE IInv'
  BY <1>8, ObjectsGo
<1>9. ASSUME NEW f \in Files, RowAges(f) PROVE IInv'
  BY <1>9, RowAgesStep
<1>10. ASSUME NEW key \in Keys, KeyAges(key) PROVE IInv'
  BY <1>10, KeyAgesStep
<1>11. CASE RemovalCommits \/ RemovalFails
  BY <1>11, RemovalCommitsStep, CalledOff
<1>12. CASE ReconcileStarts \/ ReclaimLooks \/ ReclaimCommits \/ OperatorFails
  BY <1>12, OperatorLooks, ReclaimCommitsStep, CalledOff
<1>13. CASE DayPasses(TRUE) \/ DayPasses(FALSE) \/ PassCommits \/ PassFails \/ ApiDies
  BY <1>13, DayPassesStep, PassCommitsStep, PassFailsStep, CalledOff
<1> QED
  BY <1>1, <1>2, <1>3, <1>4, <1>5, <1>6, <1>7, <1>8, <1>9, <1>10, <1>11, <1>12, <1>13 DEF Next

LEMMA IInvHolds == Spec => []IInv
  BY InitIInv, NextIInv, PTL DEF Spec

\* Every reachable state of the chats, the files and the jobs is well typed.
THEOREM TypeCorrect == Spec => []TypeOK
<1>1. IInv => TypeOK
  BY DEF IInv
<1> QED
  BY <1>1, IInvHolds, PTL

\* A file's row names an object that is there, for any number of chats, files, uploads,
\* sends and keys.
THEOREM RowsKeepTheirBytes == Spec => []RowsHaveTheirBytes
<1>1. IInv => RowsHaveTheirBytes
  BY DEF IInv, Objects
<1> QED
  BY <1>1, IInvHolds, PTL

\* While the one chat a file is used in stands, no delete, retention pass or reclaim that
\* looked after the message takes the file's row.
THEOREM SentFilesAreKept == Spec => SentFilesStand
<1> DEFINE Kept ==
      \A f \in Files, c \in chats :
         /\ Uses[f] = {c}
         /\ f \in Stored \intersect refs[c]
         /\ rows'[f] = NoRow
         /\ c \notin gone'
         => DeleteAttachment(f) \/ (ReclaimCommits /\ f \in late)
<1>1. ASSUME IInv, Next PROVE Kept
  <2> SUFFICES ASSUME NEW f \in Files, NEW c \in chats, Uses[f] = {c}, rows[f] # NoRow,
                      f \in refs[c], rows'[f] = NoRow, c \notin gone'
               PROVE  DeleteAttachment(f) \/ (ReclaimCommits /\ f \in late)
    BY DEF Stored
  <2> USE EmptyTypes
  <2>1. TypeOK /\ c \in Chats /\ rows[f] \in Rows
    BY <1>1 DEF IInv, TypeOK
  <2>2. UNCHANGED rows => FALSE
    OBVIOUS
  <2>3. ASSUME NEW u \in Uploads, UploadStores(u) PROVE FALSE
    <3> DEFINE row == [key |-> upload[u].key, chat |-> upload[u].chat]
    <3>1. row \in Rows
      BY <1>1, <2>3 DEF UploadStores, IInv, UploadsAreFull, Under, Rows
    <3>2. \/ UNCHANGED rows
          \/ rows' = [rows EXCEPT ![upload[u].file] = row]
      BY <2>3 DEF UploadStores
    <3> HIDE DEF row
    <3> QED
      BY <2>1, <2>2, <3>1, <3>2 DEF TypeOK
  <2>4. ASSUME NEW g \in Files, DeleteAttachment(g) PROVE DeleteAttachment(f)
    <3>1. g = f
      BY <2>1, <2>4, RowsThatGo DEF DeleteAttachment
    <3> QED
      BY <2>4, <3>1
  <2>5. CASE RemovalCommits
    <3>1. f \in removal.files
      BY <1>1, <2>1, <2>5, RowsThatGo DEF RemovalCommits, Stored, IInv, Objects, RemovalIsWhole
    <3>2. c \in removal.chats
      BY <1>1, <3>1 DEF IInv, UsedWhereItIs
    <3> QED
      BY <2>5, <3>2 DEF RemovalCommits, Drop
  <2>6. CASE ReclaimCommits
    <3>1. rows[f].key \in operator.keys
      BY <2>1, <2>6, RowsThatGo DEF ReclaimCommits, Stored
    <3> QED
      BY <1>1, <2>1, <2>6, <3>1 DEF ReclaimCommits, IInv, ReclaimsTheUnsent
  <2>7. CASE PassCommits
    <3>1. rows[f].chat \in pass.chosen \intersect Idle(quiet)
      BY <2>1, <2>7, RowsThatGo DEF PassCommits, Stored
    <3>2. rows[f].chat = c
      BY <1>1, <2>1, <3>1, ConversationsAssumption DEF IInv, UsedWhereItIs, Idle, TypeOK
    <3> QED
      BY <2>7, <3>1, <3>2 DEF PassCommits, Drop, Idle
  <2>8. ~UNCHANGED rows =>
          \/ \E u \in Uploads : UploadStores(u)
          \/ \E g \in Files : DeleteAttachment(g)
          \/ RemovalCommits \/ ReclaimCommits \/ PassCommits
    BY <1>1 DEF Next, fileVars, CreateChat, PatchContext, DeleteChatScans, UploadLooks,
                UploadPuts, UploadFails, RowAges, Sweep, ReconcileDeletes, KeyAges, SendReads,
                SendAppends, TurnEnds, SendRefused, DeleteProjectScans, RemovalFails,
                ReconcileStarts, ReclaimLooks, OperatorFails, DayPasses, PassFails, ApiDies
  <2> QED
    BY <2>2, <2>3, <2>4, <2>5, <2>6, <2>7, <2>8
<1>2. ASSUME IInv, UNCHANGED vars PROVE Kept
  BY <1>2 DEF vars, fileVars, Stored
<1>3. IInv /\ [Next]_vars => [Kept]_vars
  BY <1>1, <1>2
<1> QED
  BY <1>3, IInvHolds, PTL DEF Spec, SentFilesStand

\* The retention pass deletes no chat that was touched inside the window or that a turn is
\* answering in.
THEOREM TouchedChatsStay == Spec => TouchedStays
<1> DEFINE Spared ==
      PassCommits => \A c \in gone' \ gone :
                       /\ quiet[c] = IdleDays
                       /\ \A s \in Sends : Answering(s) => send[s].chat # c
<1>1. ASSUME IInv, Next PROVE Spared
  <2> SUFFICES ASSUME PassCommits, NEW c \in gone' \ gone
               PROVE  /\ quiet[c] = IdleDays
                      /\ \A s \in Sends : Answering(s) => send[s].chat # c
    OBVIOUS
  <2>1. c \in chats /\ quiet[c] = IdleDays
    BY DEF PassCommits, Drop, Idle
  <2>2. \A s \in Sends : Answering(s) => quiet[send[s].chat] < IdleDays
    BY <1>1 DEF IInv, AnsweringIsRecent, Answering
  <2>3. IdleDays \in Nat
    BY ConversationsAssumption
  <2> QED
    BY <2>1, <2>2, <2>3
<1>2. ASSUME IInv, UNCHANGED vars PROVE [Spared]_vars
  BY <1>2
<1>3. IInv /\ [Next]_vars => [Spared]_vars
  BY <1>1, <1>2
<1> QED
  BY <1>3, IInvHolds, PTL DEF Spec, TouchedStays

=============================================================================
