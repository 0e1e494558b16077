-------------------------- MODULE ContextStoreProofs --------------------------
(***************************************************************************)
(* Proofs about ContextStore: its type invariant and both safety           *)
(* invariants of its run, for any number of rows, passwords and crashes.   *)
(***************************************************************************)
EXTENDS ContextStore, TLAPS

(***************************************************************************)
(* The inductive invariant.                                                *)
(***************************************************************************)

\* Every crash left the store that the metadata points to as it was.
Spared == crashedAt \subseteq {"store", "unlink", "removing"}

FileWork == {"store", "unlink", "retitle", "meta", "fill", "filling"}

\* A context that does not exist has no files and nothing to lose.
Blank == meta = Absent => /\ plain = Absent /\ enc = Absent /\ kept = {} /\ imported = {}
                          /\ session = NoSession /\ task = Nothing

\* A session has the password that the metadata accepts, and files are exchanged only
\* while there is none.
SessionFacts ==
    /\ Open => /\ meta.is = "stored" /\ session.password = meta.password
               /\ ~ Encrypted => plain.is = "stored"
    /\ task.do \in {"save", "saving", "import"} => Open
    /\ task.do \in {"save", "saving"} => Encrypted
    /\ task.do \in FileWork => ~ Open

\* Contents that hold what was saved and nothing that was deleted.
Faithful(contents, keeps) == keeps \subseteq contents /\ contents \subseteq keeps \cup imported

\* The store that the metadata points to.
StoreFaithful ==
    /\ Store.is # "torn"
    /\ Store.is = "stored" => Store.password = meta.password
    /\ Faithful(OnDisk, kept)
    /\ meta.password # NoPassword /\ enc = Absent => plain = Absent

\* The working copy, and what a save will have kept.
CopyFaithful ==
    Open /\ Encrypted =>
        IF task.do \in {"save", "saving"} THEN Faithful(session.rows, task.keeps)
                                          ELSE Faithful(session.rows, kept)

\* The file of a context that gets this password.
FileOf(password) == IF password # NoPassword THEN enc ELSE plain

\* The new store, once it is written; if there was none, there is none.
Written ==
    \/ FileOf(task.password) = Stored(task.rows, task.password)
    \/ FileOf(task.password) = Absent /\ task.rows = {}

SavedFacts ==
    Spared =>
        /\ meta.is = "torn" => task.do = "meta"
        /\ meta.is = "stored" /\ (Settled \/ (task.do \in {"store", "unlink"} /\ ~ task.inPlace))
              => StoreFaithful
        /\ CopyFaithful
        /\ task.do \in {"store", "unlink"} => Faithful(task.rows, kept)
        /\ task.do = "store" => FileOf(task.password) = Torn
        /\ task.do = "unlink" => Written
        /\ task.do = "retitle" \/ (task.do = "meta" /\ ~ task.import) =>
              /\ Faithful(task.rows, kept) /\ Written
              /\ task.password # NoPassword => plain = Absent
        /\ task.do \in {"fill", "filling"} \/ (task.do = "meta" /\ task.import) =>
              /\ kept = {} /\ plain.is # "stored" /\ enc.is # "stored"
              /\ task.do # "filling" => plain = Absent /\ enc = Absent

\* Tasks on files know the metadata they found.
TaskFacts ==
    /\ task.do \in {"store", "unlink", "retitle"} =>
          /\ meta.is = "stored" /\ ~ task.import
          /\ task.inPlace <=> ((task.password = NoPassword) <=> (meta.password = NoPassword))
    /\ task.do \in {"fill", "filling"} => /\ meta.is = "stored" /\ meta.password = task.password
                                          /\ ~ task.inPlace
    /\ task.do = "meta" => meta = Torn /\ (task.import => ~ task.inPlace)

\* A plain file beside an encrypted store is on its way, out or in.
PlainFacts ==
    "removing" \notin crashedAt =>
        /\ meta.is = "stored" /\ meta.password # NoPassword
              /\ (Settled \/ task.do \in {"saving", "filling"}
                          \/ (task.do \in {"store", "unlink", "retitle"} /\ task.inPlace))
              => plain = Absent
        /\ task.do \in {"retitle", "meta"} /\ task.password # NoPassword => plain = Absent

IInv == TypeOK /\ Blank /\ SessionFacts /\ TaskFacts /\ SavedFacts /\ PlainFacts

----------------------------------------------------------------------------
(* Contents.                                                               *)

LEMMA NoContents == {} \in Contents
  BY DEF Contents

LEMMA MoreContents ==
  ASSUME NEW a \in Contents, NEW b \in Contents
  PROVE  a \cup b \in Contents
  BY DEF Contents

LEMMA LessContents ==
  ASSUME NEW a \in Contents, NEW r \in Row
  PROVE  a \ CellsOf(r) \in Contents
<1>1. ASSUME NEW s \in Row, <<s, "key">> \in a \ CellsOf(r)
      PROVE  <<s, "row">> \in a \ CellsOf(r)
  <2>1. <<r, "key">> \in CellsOf(r)
    BY DEF CellsOf
  <2>2. s # r
    BY <1>1, <2>1
  <2>3. <<s, "row">> \in a
    BY <1>1 DEF Contents
  <2>4. <<s, "row">> \notin CellsOf(r)
    BY <2>2 DEF CellsOf
  <2> QED  BY <2>3, <2>4
<1> QED  BY <1>1 DEF Contents

----------------------------------------------------------------------------
(* Types.                                                                  *)

\* What a file, a session or a store is, by its state.
LEMMA FileKinds ==
  ASSUME TypeOK
  PROVE  /\ meta = Absent \/ meta = Torn \/ meta \in MetaFile
         /\ plain = Absent \/ plain = Torn \/ plain \in PlainFile
         /\ enc = Absent \/ enc = Torn \/ enc \in EncFile
  BY DEF TypeOK

LEMMA StoredFiles ==
  ASSUME TypeOK
  PROVE  /\ meta.is = "stored" => meta \in MetaFile
         /\ plain.is = "stored" => plain \in PlainFile
         /\ enc.is = "stored" => enc \in EncFile
  BY FileKinds DEF Absent, Torn

LEMMA OpenSession ==
  ASSUME TypeOK, Open
  PROVE  session \in Session
<1>1. session = NoSession \/ session \in Session
  BY DEF TypeOK
<1> QED  BY <1>1 DEF Open, NoSession

LEMMA ShownContents ==
  ASSUME TypeOK, SessionFacts, Open
  PROVE  Shown \in Contents /\ session \in Session
<1>1. session \in Session
  BY OpenSession
<1>2. CASE Encrypted
  BY <1>1, <1>2 DEF Shown, Session
<1>3. CASE ~ Encrypted
  <2>1. plain.is = "stored"
    BY <1>3 DEF SessionFacts
  <2>2. plain \in PlainFile
    BY <2>1, StoredFiles
  <2>3. plain.rows \in Contents
    BY <2>2 DEF PlainFile
  <2> QED  BY <1>1, <1>3, <2>3 DEF Shown
<1> QED  BY <1>2, <1>3

LEMMA StoreContents ==
  ASSUME TypeOK, Store.is # "torn"
  PROVE  Store = Absent \/ (Store.is = "stored" /\ Store.rows \in Contents)
<1>1. Store = Absent \/ Store = Torn \/ Store \in PlainFile \/ Store \in EncFile
  BY FileKinds DEF Store
<1> QED  BY <1>1 DEF Torn, PlainFile, EncFile

\* What a task is, by what it does.
LEMMA TaskKinds ==
  ASSUME TypeOK
  PROVE  /\ task.do \in {"save", "saving"} => task \in SaveTask
         /\ task.do = "import" => task \in ImportTask
         /\ task.do \in FileWork => task \in FileTask
         /\ task.do \in {"nothing", "save", "saving", "import"} \cup FileWork
         /\ task.do = "nothing" <=> task = Nothing
<1>1. task = Nothing \/ task \in SaveTask \/ task \in ImportTask \/ task \in FileTask
  BY DEF TypeOK
<1>2. task = Nothing => task.do = "nothing"
  BY DEF Nothing
<1>3. task \in SaveTask => task.do \in {"save", "saving"}
  BY DEF SaveTask
<1>4. task \in ImportTask => task.do = "import"
  BY DEF ImportTask
<1>5. task \in FileTask => task.do \in FileWork
  BY DEF FileTask, FileWork
<1> QED  BY <1>1, <1>2, <1>3, <1>4, <1>5 DEF FileWork

LEMMA StoredIsFile ==
  ASSUME NEW rows \in Contents
  PROVE  /\ Stored(rows, NoPassword) \in PlainFile
         /\ \A password \in Password : Stored(rows, password) \in EncFile
  BY DEF Stored, PlainFile, EncFile

\* A file that is written is one of the context's files.
LEMMA SetStoreType ==
  ASSUME TypeOK, NEW password \in Key, NEW file, SetStore(password, file),
         file = Torn \/ \E rows \in Contents : file = Stored(rows, password)
  PROVE  /\ plain' \in {Absent, Torn} \cup PlainFile
         /\ enc' \in {Absent, Torn} \cup EncFile
<1>1. CASE file = Torn
  BY <1>1, FileKinds DEF SetStore
<1>2. ASSUME NEW rows \in Contents, file = Stored(rows, password)
      PROVE  (password # NoPassword => file \in EncFile) /\ (password = NoPassword => file \in PlainFile)
  BY <1>2, StoredIsFile DEF Key
<1> QED  BY <1>1, <1>2, FileKinds DEF SetStore

LEMMA InitType == Init => TypeOK
  BY NoContents, StoreAssumption DEF Init, TypeOK, MetaFile

LEMMA WriteType ==
  ASSUME TypeOK, SessionFacts, Open, NEW rows \in Contents, NEW keeps \in Contents,
         Write(rows, keeps)
  PROVE  TypeOK'
<1>1. session \in Session
  BY ShownContents
<1>2. CASE Encrypted
  <2>1. [session EXCEPT !.rows = rows] \in Session /\ [do |-> "save", keeps |-> keeps] \in SaveTask
    BY <1>1 DEF Session, SaveTask
  <2> QED  BY <1>2, <2>1 DEF Write, TypeOK
<1>3. CASE ~ Encrypted
  BY <1>3, StoredIsFile DEF Write, TypeOK
<1> QED  BY <1>2, <1>3

LEMMA SessionStepType ==
  ASSUME TypeOK, SessionFacts, SessionStep
  PROVE  TypeOK'
<1>1. CASE OpenContext
  <2>1. meta.password \in Key
    BY <1>1, StoredFiles DEF OpenContext, MetaFile
  <2>2. session' \in Session
    <3>1. CASE meta.password # NoPassword
      <4>1. (IF Store = Absent THEN {} ELSE Store.rows) \in Contents
        BY <1>1, <3>1, NoContents, StoreContents DEF OpenContext
      <4>2. session' = [is |-> "open", password |-> meta.password,
                        rows |-> IF Store = Absent THEN {} ELSE Store.rows]
        BY <1>1, <3>1 DEF OpenContext
      <4> QED  BY <2>1, <4>1, <4>2 DEF Session
    <3>2. CASE meta.password = NoPassword
      <4>1. session' = [is |-> "open", password |-> NoPassword, rows |-> {}]
        BY <1>1, <3>2 DEF OpenContext
      <4> QED  BY <4>1, NoContents DEF Session, Key
    <3> QED  BY <3>1, <3>2
  <2>3. plain' \in {Absent, Torn} \cup PlainFile
    BY <1>1, NoContents, FileKinds, StoredFiles, StoredIsFile DEF OpenContext
  <2> QED  BY <1>1, <2>2, <2>3 DEF OpenContext, TypeOK, history
<1>2. CASE CloseContext
  BY <1>2 DEF CloseContext, TypeOK, fileVars, history
<1>3. CASE DeleteContext
  BY <1>3, NoContents DEF DeleteContext, TypeOK, MetaFile
<1> QED  BY <1>1, <1>2, <1>3 DEF SessionStep

LEMMA RowStepType ==
  ASSUME TypeOK, SessionFacts, RowStep
  PROVE  TypeOK'
<1>0. kept \in Contents /\ imported \in Contents
  BY DEF TypeOK
<1>1. ASSUME NEW r \in Row, NEW cells \in Contents, Insert(r, cells) PROVE TypeOK'
  <2>1. Shown \cup cells \in Contents /\ kept \cup Shown \cup cells \in Contents
    BY <1>0, <1>1, ShownContents, MoreContents DEF Insert
  <2> QED  BY <1>1, <2>1, WriteType DEF Insert
<1>2. ASSUME NEW r \in Row, Delete(r) PROVE TypeOK'
  <2>1. Shown \ CellsOf(r) \in Contents /\ (kept \cup Shown) \ CellsOf(r) \in Contents
    BY <1>0, <1>2, ShownContents, MoreContents, LessContents DEF Delete
  <2> QED  BY <1>2, <2>1, WriteType DEF Delete
<1>3. CASE Update
  <2>1. Shown \in Contents /\ kept \cup Shown \in Contents
    BY <1>0, <1>3, ShownContents, MoreContents DEF Update
  <2> QED  BY <1>3, <2>1, WriteType DEF Update
<1>4. CASE PersistTruncates
  BY <1>4, TaskKinds DEF PersistTruncates, TypeOK, SaveTask, history
<1>5. CASE PersistWrites
  <2>1. session \in Session /\ session.password \in Password /\ task.keeps \in Contents
    BY <1>5, TaskKinds, ShownContents DEF PersistWrites, SessionFacts, Encrypted, Session, Key, SaveTask
  <2>2. enc' \in EncFile
    BY <1>5, <2>1, StoredIsFile DEF PersistWrites, Session
  <2> QED  BY <1>5, <2>1, <2>2 DEF PersistWrites, TypeOK
<1>6. ASSUME NEW bundle \in Contents, NEW damaged \in BOOLEAN, NEW relinks \in BOOLEAN,
             BeginImport(bundle, damaged, relinks)
      PROVE  TypeOK'
  BY <1>6 DEF BeginImport, TypeOK, ImportTask, fileVars, history
<1>7. CASE CommitImport
  <2>1. task.bundle \in Contents /\ session \in Session /\ Open
    BY <1>7, TaskKinds, ShownContents DEF CommitImport, ImportTask, SessionFacts
  <2>2. CASE Encrypted
    <3>1. [session EXCEPT !.rows = @ \cup task.bundle] \in Session /\ imported \cup task.bundle \in Contents
      BY <1>0, <2>1, MoreContents DEF Session
    <3> QED  BY <1>7, <2>2, <3>1 DEF CommitImport, TypeOK
  <2>3. CASE ~ Encrypted
    <3>1. plain.rows \cup task.bundle \in Contents /\ kept \cup task.bundle \in Contents
      BY <1>0, <2>1, <2>3, ShownContents, MoreContents DEF Shown
    <3> QED  BY <1>7, <2>3, <3>1, StoredIsFile DEF CommitImport, TypeOK
  <2> QED  BY <2>2, <2>3
<1>8. CASE ImportFails
  BY <1>8 DEF ImportFails, TypeOK, fileVars, history
<1> QED  BY <1>1, <1>2, <1>3, <1>4, <1>5, <1>6, <1>7, <1>8 DEF RowStep

LEMMA FileStepType ==
  ASSUME TypeOK, TaskFacts, FileStep
  PROVE  TypeOK'
<1>0. task.do \in FileWork =>
        /\ task \in FileTask /\ task.password \in Key /\ task.rows \in Contents
        /\ \A do \in FileWork : [task EXCEPT !.do = do] \in FileTask
  BY TaskKinds DEF FileTask, FileWork
<1>1. ASSUME NEW password \in Key, NEW import \in BOOLEAN, NEW rows \in Contents,
             CreateContext(password, import, rows)
      PROVE  TypeOK'
  BY <1>1 DEF CreateContext, TypeOK, MetaFile, FileTask, history
<1>2. ASSUME NEW password \in Key, ChangePassword(password) PROVE TypeOK'
  <2>1. Store = Absent \/ Store.rows \in Contents
    BY <1>2, StoreContents DEF ChangePassword, Readable
  <2>2. \A do \in {"store", "unlink"} : ChangeTask(password, do) \in FileTask
    <3>1. SameFile(password) \in BOOLEAN
      BY DEF SameFile
    <3> QED  BY <2>1, <3>1, NoContents DEF ChangeTask, FileTask
  <2>3. CASE Store = Absent /\ password = NoPassword
    BY <1>2, <2>2, <2>3 DEF ChangePassword, TypeOK, history
  <2>4. CASE ~ (Store = Absent /\ password = NoPassword)
    BY <1>2, <2>2, <2>4, SetStoreType DEF ChangePassword, TypeOK, history
  <2> QED  BY <2>3, <2>4
<1>3. CASE MetaWritten
  BY <1>0, <1>3 DEF MetaWritten, TypeOK, MetaFile, FileWork, history
<1>4. CASE FillTruncates
  BY <1>0, <1>4, SetStoreType DEF FillTruncates, TypeOK, FileWork, history
<1>5. CASE FillFails
  BY <1>5 DEF FillFails, TypeOK, fileVars, history
<1>6. CASE Filled
  BY <1>0, <1>6, SetStoreType DEF Filled, TypeOK, FileWork
<1>7. CASE StoreWritten
  BY <1>0, <1>7, SetStoreType DEF StoreWritten, TypeOK, FileWork, history
<1>8. CASE UnlinkOther
  BY <1>0, <1>8 DEF UnlinkOther, TypeOK, FileWork, history
<1>9. CASE MetaTruncates
  BY <1>0, <1>9 DEF MetaTruncates, TypeOK, MetaFile, FileWork, history
<1> QED  BY <1>1, <1>2, <1>3, <1>4, <1>5, <1>6, <1>7, <1>8, <1>9, NoContents DEF FileStep

LEMMA CrashType ==
  ASSUME TypeOK, Crash
  PROVE  TypeOK'
<1>1. Interrupted \subseteq {"saving", "store", "unlink", "retitle", "meta", "filling", "in place",
                            "removing"}
  BY TaskKinds DEF Interrupted, FileWork
<1>2. crashes' \in 0..MaxCrashes
  <2>1. crashes \in 0..MaxCrashes
    BY DEF TypeOK
  <2> QED  BY <2>1, StoreAssumption DEF Crash
<1> QED  BY <1>1, <1>2 DEF Crash, TypeOK, fileVars

----------------------------------------------------------------------------
(* Sessions and tasks.                                                     *)

Frame == Blank /\ SessionFacts /\ TaskFacts

\* Who has a session open, and what a task knows of the metadata.
LEMMA InitFrame == Init => Frame
  BY DEF Init, Frame, Blank, SessionFacts, TaskFacts, Open, NoSession, Nothing, FileWork

LEMMA WriteFrame ==
  ASSUME TypeOK, Frame, Idle, Open, NEW rows \in Contents, NEW keeps, Write(rows, keeps)
  PROVE  Frame'
<1>1. /\ meta.is = "stored" /\ session.password = meta.password /\ meta' = meta /\ session \in Session
      /\ meta # Absent
  BY OpenSession DEF Frame, SessionFacts, Write, Absent
<1>2. CASE Encrypted
  <2>1. session' = [session EXCEPT !.rows = rows] /\ task'.do = "save"
    BY <1>2 DEF Write
  <2>2. session'.is = "open" /\ session'.password = session.password
    BY <1>1, <2>1 DEF Session
  <2> QED  BY <1>1, <1>2, <2>1, <2>2 DEF Frame, Blank, SessionFacts, TaskFacts, Open, Encrypted, FileWork
<1>3. CASE ~ Encrypted
  <2>1. session' = session /\ task' = task /\ task.do = "nothing" /\ plain'.is = "stored"
    BY <1>3 DEF Write, Idle, Nothing, Stored
  <2> QED  BY <1>1, <1>3, <2>1 DEF Frame, Blank, SessionFacts, TaskFacts, Open, Encrypted, FileWork
<1> QED  BY <1>2, <1>3

LEMMA SessionStepFrame ==
  ASSUME TypeOK, Frame, SessionStep
  PROVE  Frame'
<1>1. CASE OpenContext
  <2>1. /\ meta' = meta /\ meta.is = "stored" /\ meta # Absent /\ task' = task /\ task.do = "nothing"
        /\ session'.password = meta.password /\ session'.is = "open"
    BY <1>1 DEF OpenContext, Idle, Nothing, Absent
  <2>2. meta.password = NoPassword => plain'.is = "stored"
    BY <1>1 DEF OpenContext, Stored
  <2> QED  BY <2>1, <2>2 DEF Frame, Blank, SessionFacts, TaskFacts, Open, Encrypted, FileWork
<1>2. CASE CloseContext
  BY <1>2 DEF CloseContext, fileVars, history, Frame, Blank, SessionFacts, TaskFacts, Open, NoSession,
              Idle, Nothing, FileWork
<1>3. CASE DeleteContext
  <2>1. /\ session' = session /\ ~ Open /\ task' = Nothing /\ task.do = "nothing"
        /\ meta' = Absent /\ plain' = Absent /\ enc' = Absent /\ kept' = {} /\ imported' = {}
    BY <1>3 DEF DeleteContext, Idle, Nothing
  <2>2. session = NoSession
    BY <2>1 DEF TypeOK, Open, Session
  <2> QED  BY <2>1, <2>2 DEF Frame, Blank, SessionFacts, TaskFacts, Open, FileWork, Nothing
<1> QED  BY <1>1, <1>2, <1>3 DEF SessionStep

LEMMA RowStepFrame ==
  ASSUME TypeOK, Frame, RowStep
  PROVE  Frame'
<1> USE DEF Frame
<1>1. ASSUME Open PROVE /\ meta # Absent /\ meta.is = "stored" /\ session.password = meta.password
                        /\ session \in Session /\ Shown \in Contents
                        /\ \A c \in Contents : Shown \cup c \in Contents
                        /\ \A r \in Row : Shown \ CellsOf(r) \in Contents
  BY <1>1, ShownContents, MoreContents, LessContents DEF SessionFacts, Absent
<1>2. CASE Update \/ (\E r \in Row : Delete(r)) \/ (\E r \in Row, cells \in Contents : Insert(r, cells))
  BY <1>1, <1>2, WriteFrame DEF Update, Delete, Insert
<1>3. CASE PersistTruncates
  <2>1. task'.do = "saving" /\ task.do = "save" /\ UNCHANGED <<meta, plain, session>>
    BY <1>3, TaskKinds DEF PersistTruncates, SaveTask
  <2> QED  BY <1>1, <2>1 DEF Blank, SessionFacts, TaskFacts, FileWork, Open, Encrypted
<1>4. CASE PersistWrites
  <2>1. task'.do = "nothing" /\ task.do = "saving" /\ UNCHANGED <<meta, plain, session>>
    BY <1>4 DEF PersistWrites, Nothing
  <2> QED  BY <1>1, <2>1 DEF Blank, SessionFacts, TaskFacts, FileWork, Open, Encrypted
<1>5. ASSUME NEW bundle \in Contents, NEW damaged, NEW relinks, BeginImport(bundle, damaged, relinks)
      PROVE  Frame'
  <2>1. task'.do = "import" /\ Open /\ UNCHANGED <<meta, plain, session>>
    BY <1>5 DEF BeginImport, fileVars
  <2> QED  BY <1>1, <2>1 DEF Blank, SessionFacts, TaskFacts, FileWork, Open, Encrypted
<1>6. CASE CommitImport
  <2>1. task'.do = "nothing" /\ Open /\ meta' = meta
    BY <1>6 DEF CommitImport, Nothing, SessionFacts
  <2>2. CASE Encrypted
    <3>1. session' = [session EXCEPT !.rows = session.rows \cup task.bundle] /\ plain' = plain
      BY <1>6, <2>2 DEF CommitImport
    <3>2. session'.is = "open" /\ session'.password = session.password
      BY <1>1, <2>1, <3>1 DEF Session
    <3> QED  BY <1>1, <2>1, <2>2, <3>1, <3>2 DEF Blank, SessionFacts, TaskFacts, FileWork, Open, Encrypted
  <2>3. CASE ~ Encrypted
    <3>1. session' = session /\ plain'.is = "stored"
      BY <1>6, <2>3 DEF CommitImport, Stored
    <3> QED  BY <1>1, <2>1, <2>3, <3>1 DEF Blank, SessionFacts, TaskFacts, FileWork, Open, Encrypted
  <2> QED  BY <2>2, <2>3
<1>7. CASE ImportFails
  <2>1. task'.do = "nothing" /\ task.do = "import" /\ UNCHANGED <<meta, plain, session>>
    BY <1>7 DEF ImportFails, Nothing, fileVars
  <2> QED  BY <1>1, <2>1 DEF Blank, SessionFacts, TaskFacts, FileWork, Open, Encrypted
<1> QED  BY <1>2, <1>3, <1>4, <1>5, <1>6, <1>7 DEF RowStep

\* What a step makes of a task on files.
LEMMA TaskMoves ==
  ASSUME TypeOK, task.do \in FileWork, NEW do \in FileWork, task' = [task EXCEPT !.do = do]
  PROVE  /\ task'.do = do /\ task'.password = task.password /\ task'.rows = task.rows
         /\ task'.inPlace = task.inPlace /\ task'.import = task.import
  BY TaskKinds DEF FileTask, FileWork

LEMMA FileStepFrame ==
  ASSUME TypeOK, Frame, FileStep
  PROVE  Frame'
<1> USE DEF Frame
<1>1. ASSUME NEW password \in Key, NEW import, NEW rows, CreateContext(password, import, rows)
      PROVE  Frame'
  <2>1. task'.do = "meta" /\ task'.inPlace = FALSE /\ meta' = Torn /\ session' = session /\ ~ Open
    BY <1>1 DEF CreateContext
  <2> QED  BY <2>1 DEF Blank, SessionFacts, TaskFacts, FileWork, Open, Torn, Absent
<1>2. ASSUME NEW password \in Key, ChangePassword(password) PROVE Frame'
  <2>1. /\ meta' = meta /\ meta.is = "stored" /\ session' = NoSession
        /\ \E do \in {"store", "unlink"} : task' = ChangeTask(password, do)
    BY <1>2 DEF ChangePassword, Readable
  <2>2. task'.do \in {"store", "unlink"} /\ task'.password = password /\ task'.import = FALSE
    BY <2>1 DEF ChangeTask
  <2>3. task'.inPlace <=> ((password = NoPassword) <=> (meta.password = NoPassword))
    <3>1. task'.inPlace = SameFile(password)
      BY <2>1 DEF ChangeTask
    <3> QED  BY <3>1 DEF SameFile
  <2> QED  BY <2>1, <2>2, <2>3 DEF Blank, SessionFacts, TaskFacts, FileWork, Open, NoSession, Absent
<1>3. CASE MetaWritten
  <2>1. /\ meta'.is = "stored" /\ meta'.password = task.password /\ session' = session /\ ~ Open
    BY <1>3 DEF MetaWritten, SessionFacts, FileWork
  <2>2. \/ task'.do = "nothing"
        \/ task'.do = "fill" /\ task'.password = task.password /\ ~ task'.inPlace
    BY <1>3, TaskMoves DEF MetaWritten, Nothing, FileWork, TaskFacts
  <2> QED  BY <2>1, <2>2 DEF Blank, SessionFacts, TaskFacts, FileWork, Open, Absent
<1>4. CASE FillTruncates
  <2>1. task'.do = "filling" /\ task'.password = task.password /\ task'.inPlace = task.inPlace
    BY <1>4, TaskMoves DEF FillTruncates, FileWork
  <2> QED  BY <1>4, <2>1 DEF FillTruncates, Blank, SessionFacts, TaskFacts, FileWork, Open, Absent
<1>5. CASE FillFails \/ Filled
  <2>1. task'.do = "nothing" /\ task.do \in {"fill", "filling"} /\ meta' = meta /\ session' = session
    BY <1>5 DEF FillFails, Filled, Nothing, fileVars
  <2> QED  BY <2>1 DEF Blank, SessionFacts, TaskFacts, FileWork, Open, Absent
<1>6. CASE StoreWritten
  <2>1. /\ task'.do = "unlink" /\ task'.password = task.password /\ task'.inPlace = task.inPlace
        /\ task'.import = task.import
    BY <1>6, TaskMoves DEF StoreWritten, FileWork
  <2> QED  BY <1>6, <2>1 DEF StoreWritten, Blank, SessionFacts, TaskFacts, FileWork, Open, Absent
<1>7. CASE UnlinkOther
  <2>1. /\ task'.do = "retitle" /\ task'.password = task.password /\ task'.inPlace = task.inPlace
        /\ task'.import = task.import
    BY <1>7, TaskMoves DEF UnlinkOther, FileWork
  <2> QED  BY <1>7, <2>1 DEF UnlinkOther, Blank, SessionFacts, TaskFacts, FileWork, Open, Absent
<1>8. CASE MetaTruncates
  <2>1. task'.do = "meta" /\ task'.import = task.import
    BY <1>8, TaskMoves DEF MetaTruncates, FileWork
  <2> QED  BY <1>8, <2>1 DEF MetaTruncates, Blank, SessionFacts, TaskFacts, FileWork, Open, Absent, Torn
<1> QED  BY <1>1, <1>2, <1>3, <1>4, <1>5, <1>6, <1>7, <1>8 DEF FileStep

LEMMA CrashFrame ==
  ASSUME TypeOK, Frame, Crash
  PROVE  Frame'
  BY DEF Frame, Crash, Blank, SessionFacts, TaskFacts, fileVars, Open, NoSession, Nothing, FileWork

----------------------------------------------------------------------------
(* Saved rows.                                                             *)

LEMMA InitSaved == Init => SavedFacts
  BY DEF Init, SavedFacts, Absent, Nothing, Open, NoSession, CopyFaithful, FileWork

\* A statement of a repository keeps what was saved.
LEMMA WriteSaved ==
  ASSUME TypeOK, Frame, SavedFacts, Idle, Open, NEW rows \in Contents, NEW keeps,
         Write(rows, keeps),
         Faithful(Shown, kept) => Faithful(rows, keeps)
  PROVE  SavedFacts'
<1> SUFFICES ASSUME Spared PROVE SavedFacts'
  BY DEF SavedFacts, Write, Spared
<1>1. /\ meta.is = "stored" /\ session.password = meta.password /\ session \in Session
      /\ task.do = "nothing" /\ Spared'
  BY OpenSession DEF Frame, SessionFacts, Write, Spared, Idle, Nothing
<1>2. StoreFaithful /\ CopyFaithful /\ imported' = imported /\ meta' = meta /\ enc' = enc
  BY <1>1 DEF SavedFacts, Settled, Write
<1>3. CASE Encrypted
  <2>1. session' = [session EXCEPT !.rows = rows] /\ task' = [do |-> "save", keeps |-> keeps]
        /\ plain' = plain /\ kept' = kept
    BY <1>3 DEF Write
  <2>2. session'.rows = rows /\ task'.do = "save" /\ task'.keeps = keeps
    BY <1>1, <2>1 DEF Session
  <2>3. Faithful(rows, keeps)
    BY <1>1, <1>2, <1>3 DEF CopyFaithful, Shown
  <2>4. StoreFaithful'
    BY <1>2, <2>1 DEF StoreFaithful, Store, OnDisk, Faithful
  <2>5. CopyFaithful'
    BY <1>2, <2>2, <2>3 DEF CopyFaithful, Faithful
  <2> QED  BY <1>1, <1>2, <2>2, <2>4, <2>5 DEF SavedFacts
<1>4. CASE ~ Encrypted
  <2>1. session' = session /\ task' = task /\ plain' = Stored(rows, NoPassword) /\ kept' = keeps
    BY <1>4 DEF Write
  <2>2. plain'.is = "stored" /\ plain'.rows = rows /\ plain'.password = NoPassword
    BY <2>1 DEF Stored
  <2>3. plain.is = "stored" /\ meta.password = NoPassword
    BY <1>1, <1>4 DEF Frame, SessionFacts, Encrypted
  <2>4. Faithful(plain.rows, kept)
    BY <1>2, <2>3 DEF StoreFaithful, Store, OnDisk, Absent
  <2>5. Faithful(rows, keeps)
    BY <1>4, <2>4 DEF Shown
  <2>6. StoreFaithful'
    BY <1>2, <2>1, <2>2, <2>3, <2>5 DEF StoreFaithful, Store, OnDisk, Faithful, Absent
  <2>7. CopyFaithful'
    BY <1>4, <2>1 DEF CopyFaithful, Encrypted
  <2> QED  BY <1>1, <1>2, <2>1, <2>6, <2>7 DEF SavedFacts
<1> QED  BY <1>3, <1>4

LEMMA SessionStepSaved ==
  ASSUME TypeOK, Frame, SavedFacts, SessionStep
  PROVE  SavedFacts'
<1> SUFFICES ASSUME Spared PROVE SavedFacts'
  BY DEF SavedFacts, SessionStep, OpenContext, CloseContext, DeleteContext, history, Spared
<1>1. CASE OpenContext
  <2>1. /\ UNCHANGED <<meta, enc, task, kept, imported>> /\ task.do = "nothing" /\ meta.is = "stored"
        /\ Spared'
    BY <1>1 DEF OpenContext, Idle, Nothing, history, Spared
  <2>2. StoreFaithful
    BY <2>1 DEF SavedFacts, Settled
  <2>3. CASE meta.password # NoPassword
    <3>1. plain' = plain /\ session'.password = meta.password
          /\ session'.rows = IF Store = Absent THEN {} ELSE Store.rows
      BY <1>1, <2>3 DEF OpenContext
    <3>2. StoreFaithful'
      BY <2>1, <2>2, <3>1 DEF StoreFaithful, Store, OnDisk, Faithful
    <3>3. Faithful(session.rows, kept)'
      BY <2>1, <2>2, <3>1 DEF StoreFaithful, OnDisk, Faithful
    <3> QED  BY <2>1, <3>2, <3>3 DEF SavedFacts, CopyFaithful
  <2>4. CASE meta.password = NoPassword
    <3>1. session'.password = NoPassword
          /\ plain' = IF plain.is = "stored" THEN plain ELSE Stored({}, NoPassword)
      BY <1>1, <2>4 DEF OpenContext
    <3>2. CASE plain.is = "stored"
      <4>1. plain' = plain
        BY <3>1, <3>2
      <4> QED  BY <2>1, <2>2, <3>1, <4>1
               DEF SavedFacts, CopyFaithful, Encrypted, StoreFaithful, Store, OnDisk, Faithful
    <3>3. CASE plain.is # "stored"
      <4>1. plain'.is = "stored" /\ plain'.rows = {} /\ plain'.password = NoPassword
            /\ plain' # Absent
        BY <3>1, <3>3 DEF Stored, Absent
      <4>2. plain = Absent
        BY <2>2, <2>4, <3>3, FileKinds DEF StoreFaithful, Store, PlainFile, Torn
      <4>3. StoreFaithful'
        BY <2>1, <2>2, <2>4, <4>1, <4>2 DEF StoreFaithful, Store, OnDisk, Faithful
      <4> QED  BY <2>1, <3>1, <4>3 DEF SavedFacts, CopyFaithful, Encrypted
    <3> QED  BY <3>2, <3>3
  <2> QED  BY <2>3, <2>4
<1>2. CASE CloseContext
  <2>1. UNCHANGED <<meta, plain, enc, task, kept, imported>> /\ task.do = "nothing"
        /\ ~ Open' /\ Spared'
    BY <1>2 DEF CloseContext, fileVars, history, Open, NoSession, Idle, Nothing, Spared
  <2> QED  BY <2>1 DEF SavedFacts, CopyFaithful, StoreFaithful, Store, OnDisk, Faithful, Settled
<1>3. CASE DeleteContext
  <2>1. meta' = Absent /\ task' = task /\ task.do = "nothing" /\ session' = session /\ ~ Open
    BY <1>3 DEF DeleteContext, Idle, Nothing
  <2> QED  BY <2>1 DEF SavedFacts, CopyFaithful, Absent, Open
<1> QED  BY <1>1, <1>2, <1>3 DEF SessionStep

LEMMA RowStepSaved ==
  ASSUME TypeOK, Frame, SavedFacts, RowStep
  PROVE  SavedFacts'
<1>1. ASSUME NEW r \in Row, NEW cells \in Contents, Insert(r, cells) PROVE SavedFacts'
  <2>1. Shown \cup cells \in Contents
    BY <1>1, ShownContents, MoreContents DEF Frame, Insert
  <2>2. Faithful(Shown, kept) => Faithful(Shown \cup cells, kept \cup Shown \cup cells)
    BY DEF Faithful
  <2> QED  BY <1>1, <2>1, <2>2, WriteSaved DEF Insert
<1>2. ASSUME NEW r \in Row, Delete(r) PROVE SavedFacts'
  <2>1. Shown \ CellsOf(r) \in Contents
    BY <1>2, ShownContents, LessContents DEF Frame, Delete
  <2>2. Faithful(Shown, kept) => Faithful(Shown \ CellsOf(r), (kept \cup Shown) \ CellsOf(r))
    BY DEF Faithful
  <2> QED  BY <1>2, <2>1, <2>2, WriteSaved DEF Delete
<1>3. CASE Update
  <2>1. Shown \in Contents
    BY <1>3, ShownContents DEF Frame, Update
  <2>2. Faithful(Shown, kept) => Faithful(Shown, kept \cup Shown)
    BY DEF Faithful
  <2> QED  BY <1>3, <2>1, <2>2, WriteSaved DEF Update
<1>4. CASE PersistTruncates
  <2>1. task'.do = "saving" /\ task'.keeps = task.keeps /\ task.do = "save"
        /\ UNCHANGED <<meta, plain, session, kept, imported, crashedAt>> /\ Open /\ meta.is = "stored"
    BY <1>4, TaskKinds DEF PersistTruncates, SaveTask, history, Frame, SessionFacts
  <2> QED  BY <2>1 DEF SavedFacts, Spared, CopyFaithful, Open, Encrypted, Faithful, Settled
<1>5. CASE PersistWrites
  <2>1. task' = Nothing /\ task'.do = "nothing" /\ task.do = "saving" /\ kept' = task.keeps
        /\ UNCHANGED <<meta, plain, session, imported, crashedAt>>
    BY <1>5 DEF PersistWrites, Nothing
  <2>2. Open /\ Encrypted /\ meta.is = "stored" /\ session.password = meta.password
    BY <2>1 DEF Frame, SessionFacts
  <2>3. enc'.is = "stored" /\ enc'.rows = session.rows /\ enc'.password = session.password
        /\ enc' # Absent
    BY <1>5 DEF PersistWrites, Stored, Absent
  <2>4. ASSUME Spared PROVE Faithful(session.rows, task.keeps)
    BY <2>1, <2>2, <2>4 DEF SavedFacts, CopyFaithful
  <2>5. ASSUME Spared PROVE StoreFaithful'
    BY <2>1, <2>2, <2>3, <2>4, <2>5 DEF StoreFaithful, Store, OnDisk, Faithful, Encrypted
  <2>6. ASSUME Spared PROVE CopyFaithful'
    BY <2>1, <2>4, <2>6 DEF CopyFaithful, Faithful
  <2> QED  BY <2>1, <2>2, <2>5, <2>6 DEF SavedFacts, Spared
<1>6. ASSUME NEW bundle \in Contents, NEW damaged, NEW relinks, BeginImport(bundle, damaged, relinks)
      PROVE  SavedFacts'
  <2>1. task'.do = "import" /\ task.do = "nothing" /\ Open /\ meta.is = "stored"
        /\ UNCHANGED <<meta, plain, enc, session, kept, imported, crashedAt>>
    BY <1>6 DEF BeginImport, fileVars, history, Idle, Nothing, Frame, SessionFacts
  <2> QED  BY <2>1 DEF SavedFacts, Spared, CopyFaithful, StoreFaithful, Store, OnDisk, Faithful, Open,
                       Encrypted, Settled
<1>7. CASE CommitImport
  <2>1. /\ task'.do = "nothing" /\ task.do = "import" /\ Open /\ meta.is = "stored"
        /\ session.password = meta.password /\ session \in Session
        /\ UNCHANGED <<meta, enc, crashedAt>>
    BY <1>7, OpenSession DEF CommitImport, Nothing, Frame, SessionFacts
  <2> SUFFICES ASSUME Spared PROVE SavedFacts'
    BY <2>1 DEF SavedFacts, Spared
  <2>2. StoreFaithful /\ CopyFaithful
    BY <2>1 DEF SavedFacts, Settled
  <2>3. CASE Encrypted
    <3>1. session' = [session EXCEPT !.rows = session.rows \cup task.bundle]
          /\ imported' = imported \cup task.bundle /\ UNCHANGED <<plain, kept>>
      BY <1>7, <2>3 DEF CommitImport
    <3>2. session'.rows = session.rows \cup task.bundle
      BY <2>1, <3>1 DEF Session
    <3>3. Faithful(session.rows, kept)
      BY <2>1, <2>2, <2>3 DEF CopyFaithful
    <3>4. CopyFaithful'
      BY <2>1, <3>1, <3>2, <3>3 DEF CopyFaithful, Faithful
    <3>5. StoreFaithful'
      BY <2>1, <2>2, <3>1 DEF StoreFaithful, Store, OnDisk, Faithful
    <3> QED  BY <2>1, <3>4, <3>5 DEF SavedFacts
  <2>4. CASE ~ Encrypted
    <3>1. plain' = Stored(plain.rows \cup task.bundle, NoPassword) /\ kept' = kept \cup task.bundle
          /\ UNCHANGED <<session, imported>>
      BY <1>7, <2>4 DEF CommitImport
    <3>2. plain'.is = "stored" /\ plain'.rows = plain.rows \cup task.bundle
          /\ plain'.password = NoPassword /\ plain' # Absent
      BY <3>1 DEF Stored, Absent
    <3>3. plain.is = "stored" /\ meta.password = NoPassword
      BY <2>1, <2>4 DEF Frame, SessionFacts, Encrypted
    <3>4. Faithful(plain.rows, kept)
      BY <2>2, <3>3 DEF StoreFaithful, Store, OnDisk, Absent
    <3>5. StoreFaithful'
      BY <2>1, <2>2, <3>1, <3>2, <3>3, <3>4 DEF StoreFaithful, Store, OnDisk, Faithful
    <3>6. CopyFaithful'
      BY <2>4, <3>1 DEF CopyFaithful, Encrypted
    <3> QED  BY <2>1, <3>5, <3>6 DEF SavedFacts
  <2> QED  BY <2>3, <2>4
<1>8. CASE ImportFails
  <2>1. task'.do = "nothing" /\ task.do = "import"
        /\ UNCHANGED <<meta, plain, enc, session, kept, imported, crashedAt>>
    BY <1>8 DEF ImportFails, Nothing, fileVars, history
  <2> QED  BY <2>1 DEF SavedFacts, Spared, CopyFaithful, StoreFaithful, Store, OnDisk, Faithful, Open,
                       Encrypted, Settled
<1> QED  BY <1>1, <1>2, <1>3, <1>4, <1>5, <1>6, <1>7, <1>8 DEF RowStep

\* What was set aside for the other file does not touch the store.
LEMMA OtherFile ==
  ASSUME NEW password \in Key, NEW file, SetStore(password, file), meta' = meta,
         ~ ((password = NoPassword) <=> (meta.password = NoPassword))
  PROVE  Store' = Store /\ FileOf(password)' = file
         /\ (meta.password # NoPassword => enc' = enc /\ plain' = file)
  BY DEF SetStore, Store, FileOf

LEMMA ChangePasswordSaved ==
  ASSUME TypeOK, Frame, SavedFacts, Spared, NEW password \in Key, ChangePassword(password)
  PROVE  SavedFacts'
<1>1. /\ UNCHANGED <<meta, kept, imported>> /\ meta.is = "stored" /\ ~ Open' /\ task.do = "nothing"
      /\ Store.is # "torn"
  BY DEF ChangePassword, Readable, history, Open, NoSession, Idle, Nothing
<1>2. StoreFaithful
  BY <1>1 DEF SavedFacts, Settled
<1>3. CopyFaithful'
  BY <1>1 DEF CopyFaithful
<1>4. \A do : /\ ChangeTask(password, do).do = do /\ ChangeTask(password, do).password = password
              /\ ChangeTask(password, do).rows = OnDisk
              /\ ChangeTask(password, do).inPlace = SameFile(password)
  BY DEF ChangeTask, OnDisk
<1>5. CASE Store = Absent /\ password = NoPassword
  <2>1. task' = ChangeTask(password, "unlink") /\ UNCHANGED <<plain, enc>>
    BY <1>5 DEF ChangePassword
  <2>2. task'.do = "unlink" /\ task'.password = password /\ task'.rows = OnDisk
    BY <1>4, <2>1
  <2>3. StoreFaithful'
    BY <1>1, <1>2, <2>1 DEF StoreFaithful, Store, OnDisk, Faithful
  <2>4. Faithful(task.rows, kept)'
    BY <1>1, <1>2, <2>2 DEF StoreFaithful, Faithful
  <2>5. OnDisk = {} /\ plain = Absent
    BY <1>2, <1>5 DEF OnDisk, StoreFaithful, Store
  <2>6. Written'
    BY <1>5, <2>1, <2>2, <2>5 DEF Written, FileOf
  <2> QED  BY <1>1, <1>3, <2>2, <2>3, <2>4, <2>6 DEF SavedFacts
<1>6. CASE ~ (Store = Absent /\ password = NoPassword)
  <2>1. task' = ChangeTask(password, "store") /\ SetStore(password, Torn)
    BY <1>6 DEF ChangePassword
  <2>2. /\ task'.do = "store" /\ task'.password = password /\ task'.rows = OnDisk
        /\ task'.inPlace = SameFile(password)
    BY <1>4, <2>1
  <2>3. Faithful(task.rows, kept)'
    BY <1>1, <1>2, <2>2 DEF StoreFaithful, Faithful
  <2>4. FileOf(task.password)' = Torn
    BY <2>1, <2>2 DEF FileOf, SetStore
  <2>5. ASSUME ~ task'.inPlace PROVE StoreFaithful'
    <3>1. ~ ((password = NoPassword) <=> (meta.password = NoPassword))
      BY <2>2, <2>5 DEF SameFile
    <3>2. Store' = Store /\ (meta.password # NoPassword => enc' = enc /\ enc # Absent)
      BY <1>1, <1>6, <2>1, <3>1, OtherFile DEF Store
    <3> QED  BY <1>1, <1>2, <3>2 DEF StoreFaithful, OnDisk, Faithful
  <2> QED  BY <1>1, <1>3, <2>2, <2>3, <2>4, <2>5 DEF SavedFacts, Settled
<1> QED  BY <1>5, <1>6

LEMMA StoreWrittenSaved ==
  ASSUME TypeOK, Frame, SavedFacts, Spared, StoreWritten
  PROVE  SavedFacts'
<1>1. /\ UNCHANGED <<meta, kept, imported>> /\ task.do = "store" /\ session' = session
      /\ SetStore(task.password, Stored(task.rows, task.password))
  BY DEF StoreWritten, history
<1>2. /\ task'.do = "unlink" /\ task'.password = task.password /\ task'.rows = task.rows
      /\ task'.inPlace = task.inPlace
  BY TaskMoves DEF StoreWritten, FileWork
<1>3. task.password \in Key /\ meta.is = "stored" /\ ~ Open
  BY <1>1, TaskKinds DEF FileWork, FileTask, Frame, TaskFacts, SessionFacts
<1>4. ~ Open'
  BY <1>1, <1>3 DEF Open
<1>5. Faithful(task.rows, kept) /\ FileOf(task.password) = Torn
  BY <1>1 DEF SavedFacts
<1>6. Written'
  BY <1>1, <1>2 DEF Written, FileOf, SetStore
<1>7. Faithful(task.rows, kept)'
  BY <1>1, <1>2, <1>5 DEF Faithful
<1>8. ASSUME ~ task'.inPlace PROVE StoreFaithful'
  <2>1. ~ ((task.password = NoPassword) <=> (meta.password = NoPassword))
    BY <1>1, <1>2, <1>8 DEF Frame, TaskFacts
  <2>2. StoreFaithful
    BY <1>1, <1>2, <1>3, <1>8 DEF SavedFacts
  <2>3. Store' = Store /\ (meta.password # NoPassword => enc' = enc /\ plain = Torn)
    BY <1>1, <1>3, <1>5, <2>1, OtherFile DEF FileOf
  <2> QED  BY <1>1, <2>2, <2>3 DEF StoreFaithful, OnDisk, Faithful, Torn, Absent
<1> QED  BY <1>2, <1>3, <1>1, <1>4, <1>6, <1>7, <1>8 DEF SavedFacts, CopyFaithful, Settled

LEMMA FillSaved ==
  ASSUME TypeOK, Frame, SavedFacts, Spared, FillTruncates \/ FillFails \/ Filled
  PROVE  SavedFacts'
<1>1. /\ task.do \in {"fill", "filling"} /\ UNCHANGED <<meta, session, imported>>
      /\ meta.is = "stored" /\ meta.password = task.password /\ ~ Open
  BY DEF FillTruncates, FillFails, Filled, fileVars, history, Frame, TaskFacts, SessionFacts, FileWork
<1>2. ~ Open' /\ kept = {} /\ plain.is # "stored" /\ enc.is # "stored"
  BY <1>1 DEF SavedFacts, Open
<1>3. CASE FillTruncates
  <2>1. task'.do = "filling" /\ kept' = kept
    BY <1>3, TaskMoves DEF FillTruncates, FileWork, history
  <2>2. plain'.is # "stored" /\ enc'.is # "stored"
    BY <1>2, <1>3 DEF FillTruncates, SetStore, Torn
  <2> QED  BY <1>1, <1>2, <2>1, <2>2 DEF SavedFacts, CopyFaithful, Settled
<1>4. CASE FillFails
  <2>1. task'.do = "nothing" /\ UNCHANGED <<kept, plain, enc>> /\ task.do = "fill"
    BY <1>4 DEF FillFails, Nothing, fileVars, history
  <2>2. StoreFaithful
    BY <1>1, <2>1 DEF SavedFacts, Settled
  <2>3. StoreFaithful'
    BY <1>1, <2>1, <2>2 DEF StoreFaithful, Store, OnDisk, Faithful
  <2> QED  BY <1>1, <1>2, <2>1, <2>3 DEF SavedFacts, CopyFaithful
<1>5. CASE Filled
  <2>1. task'.do = "nothing" /\ kept' = task.rows
        /\ SetStore(task.password, Stored(task.rows, task.password))
    BY <1>5 DEF Filled, Nothing
  <2>2. Store' = Stored(task.rows, task.password) /\ (meta.password # NoPassword => enc' = Store')
    BY <1>1, <2>1 DEF SetStore, Store
  <2>3. Store'.is = "stored" /\ Store'.password = meta.password /\ Store'.rows = task.rows
        /\ Store' # Absent
    BY <1>1, <2>2 DEF Stored, Absent
  <2>4. StoreFaithful'
    BY <1>1, <2>1, <2>2, <2>3 DEF StoreFaithful, OnDisk, Faithful
  <2> QED  BY <1>1, <1>2, <2>1, <2>4 DEF SavedFacts, CopyFaithful
<1> QED  BY <1>3, <1>4, <1>5

LEMMA MetaWrittenSaved ==
  ASSUME TypeOK, Frame, SavedFacts, Spared, MetaWritten
  PROVE  SavedFacts'
<1>1. /\ task.do = "meta" /\ UNCHANGED <<plain, enc, session, kept, imported>> /\ ~ Open
      /\ meta'.is = "stored" /\ meta'.password = task.password
  BY DEF MetaWritten, history, Frame, SessionFacts, FileWork
<1>2. ~ Open' /\ Store' = FileOf(task.password)
  BY <1>1 DEF Open, Store, FileOf
<1>3. CASE task.import
  <2>1. task'.do = "fill"
    BY <1>1, <1>3, TaskMoves DEF MetaWritten, FileWork
  <2>2. kept = {} /\ plain = Absent /\ enc = Absent
    BY <1>1, <1>3 DEF SavedFacts
  <2>3. StoreFaithful'
    BY <1>1, <1>2, <2>2 DEF StoreFaithful, OnDisk, Faithful, FileOf, Absent
  <2> QED  BY <1>1, <1>2, <2>1, <2>2, <2>3 DEF SavedFacts, CopyFaithful, Absent
<1>4. CASE ~ task.import
  <2>1. task'.do = "nothing"
    BY <1>4 DEF MetaWritten, Nothing
  <2>2. Faithful(task.rows, kept) /\ Written /\ (task.password # NoPassword => plain = Absent)
    BY <1>1, <1>4 DEF SavedFacts
  <2>3. \/ Store' = Absent /\ task.rows = {}
        \/ Store'.is = "stored" /\ Store'.password = meta'.password /\ Store'.rows = task.rows
           /\ Store' # Absent
    BY <1>1, <1>2, <2>2 DEF Written, Stored, Absent
  <2>4. StoreFaithful'
    <3>1. Store'.is # "torn" /\ (Store'.is = "stored" => Store'.password = meta'.password)
      BY <2>3 DEF Absent
    <3>2. OnDisk' = task.rows
      BY <2>3 DEF OnDisk
    <3>3. meta'.password # NoPassword => plain' = Absent
      BY <1>1, <2>2
    <3> QED  BY <1>1, <2>2, <3>1, <3>2, <3>3 DEF StoreFaithful, Faithful
  <2> QED  BY <1>1, <1>2, <2>1, <2>4 DEF SavedFacts, CopyFaithful
<1> QED  BY <1>3, <1>4

LEMMA FileStepSaved ==
  ASSUME TypeOK, Frame, SavedFacts, FileStep
  PROVE  SavedFacts'
<1>0. Spared' => Spared
  BY DEF FileStep, CreateContext, ChangePassword, MetaWritten, FillTruncates, FillFails, Filled,
         StoreWritten, UnlinkOther, MetaTruncates, history, Spared
<1> SUFFICES ASSUME Spared PROVE SavedFacts'
  BY <1>0 DEF SavedFacts
<1>1. ASSUME NEW password \in Key, NEW import \in BOOLEAN, NEW rows, import \/ rows = {},
             CreateContext(password, import, rows)
      PROVE  SavedFacts'
  <2>1. /\ task'.do = "meta" /\ task'.import = import /\ task'.rows = rows /\ meta' = Torn
        /\ UNCHANGED <<plain, enc, session, kept, imported>>
    BY <1>1 DEF CreateContext, history
  <2>2. plain = Absent /\ enc = Absent /\ kept = {} /\ ~ Open
    BY <1>1 DEF CreateContext, Frame, Blank
  <2>3. ~ import => Faithful(task.rows, kept)' /\ Written'
    BY <1>1, <2>1, <2>2 DEF Faithful, Written, FileOf
  <2> QED  BY <2>1, <2>2, <2>3 DEF SavedFacts, CopyFaithful, Settled, Open, Absent, Torn
<1>2. CASE UnlinkOther
  <2>1. /\ task'.do = "retitle" /\ task'.password = task.password /\ task'.rows = task.rows
        /\ UNCHANGED <<meta, session, kept, imported>> /\ task.do = "unlink"
    BY <1>2, TaskMoves DEF UnlinkOther, FileWork, history
  <2>2. meta.is = "stored" /\ ~ Open
    BY <2>1 DEF Frame, TaskFacts, SessionFacts, FileWork
  <2>3. Faithful(task.rows, kept) /\ Written
    BY <2>1 DEF SavedFacts
  <2>4. FileOf(task.password)' = FileOf(task.password) /\ (task.password # NoPassword => plain' = Absent)
    BY <1>2, <2>1 DEF UnlinkOther, FileOf
  <2>5. Faithful(task.rows, kept)' /\ Written'
    BY <2>1, <2>3, <2>4 DEF Faithful, Written
  <2> QED  BY <2>1, <2>2, <2>4, <2>5 DEF SavedFacts, CopyFaithful, Settled, Open
<1>3. CASE MetaTruncates
  <2>1. /\ task'.do = "meta" /\ task'.password = task.password /\ task'.rows = task.rows
        /\ task'.import = task.import /\ task.do = "retitle" /\ meta' = Torn
        /\ UNCHANGED <<plain, enc, session, kept, imported>>
    BY <1>3, TaskMoves DEF MetaTruncates, FileWork, history
  <2>2. ~ task.import /\ ~ Open
    BY <2>1 DEF Frame, TaskFacts, SessionFacts, FileWork
  <2>3. Faithful(task.rows, kept) /\ Written /\ (task.password # NoPassword => plain = Absent)
    BY <2>1 DEF SavedFacts
  <2>4. Faithful(task.rows, kept)' /\ Written'
    BY <2>1, <2>3 DEF Faithful, Written, FileOf
  <2> QED  BY <2>1, <2>2, <2>3, <2>4 DEF SavedFacts, CopyFaithful, Settled, Open, Torn
<1> QED  BY <1>1, <1>2, <1>3, ChangePasswordSaved, StoreWrittenSaved, FillSaved, MetaWrittenSaved
         DEF FileStep

LEMMA CrashSaved ==
  ASSUME TypeOK, Frame, SavedFacts, Crash
  PROVE  SavedFacts'
<1>1. /\ UNCHANGED <<meta, plain, enc, kept, imported>> /\ task'.do = "nothing" /\ ~ Open'
      /\ crashedAt' = crashedAt \cup Interrupted
  BY DEF Crash, fileVars, Nothing, NoSession, Open
<1> SUFFICES ASSUME Spared' PROVE SavedFacts'
  BY DEF SavedFacts
<1>2. Spared /\ Interrupted \subseteq {"store", "unlink", "removing"}
  BY <1>1 DEF Spared
<1>3. Settled \/ (task.do \in {"store", "unlink"} /\ ~ task.inPlace)
  BY <1>2, TaskKinds DEF Interrupted, Settled, FileWork
<1>4. meta.is # "torn"
  BY <1>2, <1>3 DEF SavedFacts, Settled
<1>5. meta.is = "stored" => StoreFaithful
  BY <1>2, <1>3 DEF SavedFacts
<1>6. meta.is = "stored" => StoreFaithful'
  BY <1>1, <1>5 DEF StoreFaithful, Store, OnDisk, Faithful
<1> QED  BY <1>1, <1>4, <1>6 DEF SavedFacts, CopyFaithful

----------------------------------------------------------------------------
(* Plain files beside encrypted stores.                                    *)

LEMMA InitPlain == Init => PlainFacts
  BY DEF Init, PlainFacts, Absent, Nothing

LEMMA SessionStepPlain ==
  ASSUME PlainFacts, SessionStep
  PROVE  PlainFacts'
<1>1. task.do = "nothing" /\ task' = task /\ crashedAt' = crashedAt
  BY DEF SessionStep, OpenContext, CloseContext, DeleteContext, Idle, Nothing, history
<1>2. CASE OpenContext
  <2>1. meta' = meta /\ (meta.password # NoPassword => plain' = plain)
    BY <1>2 DEF OpenContext
  <2> QED  BY <1>1, <2>1 DEF PlainFacts, Settled
<1>3. CASE CloseContext
  BY <1>1, <1>3 DEF CloseContext, PlainFacts, Settled, fileVars
<1>4. CASE DeleteContext
  BY <1>1, <1>4 DEF DeleteContext, PlainFacts, Absent
<1> QED  BY <1>2, <1>3, <1>4 DEF SessionStep

LEMMA RowStepPlain ==
  ASSUME TypeOK, Frame, PlainFacts, RowStep
  PROVE  PlainFacts'
<1> DEFINE RowWork == {"nothing", "save", "saving", "import"}
<1> DEFINE Kept == /\ UNCHANGED <<meta, crashedAt>> /\ Open
                   /\ task.do \in RowWork
                   /\ Encrypted => plain' = plain
<1>1. Kept
  <2>1. ASSUME NEW r, NEW cells, Insert(r, cells) PROVE Kept
    BY <2>1 DEF Insert, Write, Idle, Nothing
  <2>2. ASSUME NEW r, Delete(r) PROVE Kept
    BY <2>2 DEF Delete, Write, Idle, Nothing
  <2>3. CASE Update
    BY <2>3 DEF Update, Write, Idle, Nothing
  <2>4. ASSUME NEW bundle, NEW damaged, NEW relinks, BeginImport(bundle, damaged, relinks)
        PROVE  Kept
    BY <2>4 DEF BeginImport, Idle, Nothing, fileVars, history
  <2>5. CASE PersistTruncates \/ PersistWrites \/ CommitImport \/ ImportFails
    BY <2>5 DEF PersistTruncates, PersistWrites, CommitImport, ImportFails, fileVars, history, Frame,
                SessionFacts
  <2> QED  BY <2>1, <2>2, <2>3, <2>4, <2>5 DEF RowStep
<1>2. task'.do \in RowWork
  <2>1. ASSUME NEW r, NEW cells, Insert(r, cells) PROVE task'.do \in RowWork
    BY <2>1 DEF Insert, Write, Idle, Nothing
  <2>2. ASSUME NEW r, Delete(r) PROVE task'.do \in RowWork
    BY <2>2 DEF Delete, Write, Idle, Nothing
  <2>3. CASE Update
    BY <2>3 DEF Update, Write, Idle, Nothing
  <2>4. CASE PersistTruncates
    <3>1. task' = [task EXCEPT !.do = "saving"] /\ task.do = "save"
      BY <2>4 DEF PersistTruncates
    <3> QED  BY <3>1, TaskKinds DEF SaveTask
  <2>5. ASSUME NEW bundle, NEW damaged, NEW relinks, BeginImport(bundle, damaged, relinks)
        PROVE  task'.do \in RowWork
    BY <2>5 DEF BeginImport
  <2>6. CASE PersistWrites \/ CommitImport \/ ImportFails
    BY <2>6 DEF PersistWrites, CommitImport, ImportFails, Nothing
  <2> QED  BY <2>1, <2>2, <2>3, <2>4, <2>5, <2>6 DEF RowStep
<1>3. meta.password # NoPassword => plain' = plain
  BY <1>1 DEF Frame, SessionFacts, Encrypted
<1> QED  BY <1>1, <1>2, <1>3 DEF PlainFacts, Settled

LEMMA FileStepPlain ==
  ASSUME TypeOK, Frame, PlainFacts, FileStep
  PROVE  PlainFacts'
<1>0. crashedAt' = crashedAt
  BY DEF FileStep, CreateContext, ChangePassword, MetaWritten, FillTruncates, FillFails, Filled,
         StoreWritten, UnlinkOther, MetaTruncates, history
<1> SUFFICES ASSUME "removing" \notin crashedAt PROVE PlainFacts'
  BY <1>0 DEF PlainFacts
<1>1. ASSUME NEW password, NEW import, NEW rows, CreateContext(password, import, rows)
      PROVE  PlainFacts'
  <2>1. meta' = Torn /\ plain' = Absent
    BY <1>1 DEF CreateContext, Frame, Blank
  <2> QED  BY <2>1 DEF PlainFacts, Torn
<1>2. ASSUME NEW password \in Key, ChangePassword(password) PROVE PlainFacts'
  <2>1. /\ meta' = meta /\ task.do = "nothing" /\ meta.is = "stored"
        /\ \E do \in {"store", "unlink"} : task' = ChangeTask(password, do)
        /\ password # NoPassword => plain' = plain
    BY <1>2 DEF ChangePassword, Readable, Idle, Nothing, SetStore
  <2>2. task'.do \in {"store", "unlink"} /\ task'.inPlace = SameFile(password)
    BY <2>1 DEF ChangeTask
  <2>3. meta.password # NoPassword => plain = Absent
    BY <2>1 DEF PlainFacts, Settled
  <2> QED  BY <2>1, <2>2, <2>3 DEF PlainFacts, Settled, SameFile
<1>3. CASE MetaWritten
  <2>1. task.do = "meta" /\ meta'.password = task.password /\ plain' = plain
        /\ task'.do \in {"nothing", "fill"}
    BY <1>3, TaskMoves DEF MetaWritten, Nothing, FileWork
  <2> QED  BY <2>1 DEF PlainFacts, Settled
<1>4. CASE FillTruncates \/ FillFails \/ Filled
  <2>1. /\ task.do \in {"fill", "filling"} /\ meta' = meta /\ meta.is = "stored"
        /\ meta.password = task.password
        /\ meta.password # NoPassword => plain' = plain
    BY <1>4 DEF FillTruncates, FillFails, Filled, SetStore, fileVars, Frame, TaskFacts
  <2>2. task'.do \in {"nothing", "filling"}
    BY <1>4, TaskMoves DEF FillTruncates, FillFails, Filled, Nothing, FileWork
  <2> QED  BY <2>1, <2>2 DEF PlainFacts, Settled
<1>5. CASE StoreWritten
  <2>1. /\ task'.do = "unlink" /\ task'.inPlace = task.inPlace /\ task.do = "store" /\ meta' = meta
        /\ meta.is = "stored" /\ (task.password # NoPassword => plain' = plain)
        /\ task.inPlace <=> ((task.password = NoPassword) <=> (meta.password = NoPassword))
    BY <1>5, TaskMoves DEF StoreWritten, SetStore, FileWork, Frame, TaskFacts
  <2> QED  BY <2>1 DEF PlainFacts, Settled
<1>6. CASE UnlinkOther
  <2>1. /\ task'.do = "retitle" /\ task'.inPlace = task.inPlace /\ task'.password = task.password
        /\ task.do = "unlink" /\ meta' = meta /\ meta.is = "stored"
        /\ task.password # NoPassword => plain' = Absent
        /\ task.inPlace <=> ((task.password = NoPassword) <=> (meta.password = NoPassword))
    BY <1>6, TaskMoves DEF UnlinkOther, FileWork, Frame, TaskFacts
  <2> QED  BY <2>1 DEF PlainFacts, Settled
<1>7. CASE MetaTruncates
  <2>1. /\ task'.do = "meta" /\ task'.password = task.password /\ task.do = "retitle"
        /\ meta' = Torn /\ plain' = plain
    BY <1>7, TaskMoves DEF MetaTruncates, FileWork
  <2> QED  BY <2>1 DEF PlainFacts, Torn
<1> QED  BY <1>1, <1>2, <1>3, <1>4, <1>5, <1>6, <1>7 DEF FileStep

LEMMA CrashPlain ==
  ASSUME TypeOK, Frame, PlainFacts, Crash
  PROVE  PlainFacts'
<1>1. /\ UNCHANGED <<meta, plain>> /\ task'.do = "nothing"
      /\ crashedAt' = crashedAt \cup Interrupted
  BY DEF Crash, fileVars, Nothing
<1> SUFFICES ASSUME "removing" \notin crashedAt', meta.is = "stored", meta.password # NoPassword
             PROVE  plain = Absent
  BY <1>1 DEF PlainFacts
<1>2. "removing" \notin crashedAt /\ "removing" \notin Interrupted
  BY <1>1
<1>3. task.do # "meta"
  BY DEF Frame, TaskFacts, Torn
<1>4. \/ Settled \/ task.do \in {"saving", "filling"}
      \/ task.do \in {"store", "unlink", "retitle"} /\ task.inPlace
  <2>1. CASE task.do \in {"store", "unlink", "retitle"} /\ ~ task.inPlace
    <3>1. task.password = NoPassword
      BY <2>1 DEF Frame, TaskFacts
    <3>2. "removing" \in Interrupted
      BY <2>1, <3>1 DEF Interrupted
    <3> QED  BY <1>2, <3>2
  <2> QED  BY <1>3, <2>1, TaskKinds DEF Settled, FileWork
<1> QED  BY <1>2, <1>4 DEF PlainFacts

----------------------------------------------------------------------------
(* The theorems.                                                           *)

LEMMA InitHolds == Init => IInv
<1> SUFFICES ASSUME Init PROVE IInv
  OBVIOUS
<1>1. Frame
  BY InitFrame
<1> QED  BY <1>1, InitType, InitSaved, InitPlain DEF IInv, Frame

LEMMA StepHolds == IInv /\ [Next]_vars => IInv'
<1> SUFFICES ASSUME IInv, [Next]_vars PROVE IInv'
  OBVIOUS
<1>0. TypeOK /\ Frame /\ SessionFacts /\ TaskFacts /\ SavedFacts /\ PlainFacts
  BY DEF IInv, Frame
<1>1. CASE SessionStep
  BY <1>0, <1>1, SessionStepType, SessionStepFrame, SessionStepSaved, SessionStepPlain DEF IInv, Frame
<1>2. CASE RowStep
  BY <1>0, <1>2, RowStepType, RowStepFrame, RowStepSaved, RowStepPlain DEF IInv, Frame
<1>3. CASE FileStep
  BY <1>0, <1>3, FileStepType, FileStepFrame, FileStepSaved, FileStepPlain DEF IInv, Frame
<1>4. CASE Crash
  BY <1>0, <1>4, CrashType, CrashFrame, CrashSaved, CrashPlain DEF IInv, Frame
<1>5. CASE UNCHANGED vars
  <2>1. UNCHANGED <<meta, plain, enc, session, task, crashes, kept, imported, crashedAt>>
    BY <1>5 DEF vars, fileVars, history
  <2>2. TypeOK' /\ Frame'
    <3>1. TypeOK'
      BY <1>0, <2>1 DEF TypeOK
    <3>2. Frame'
      BY <1>0, <2>1 DEF Frame, Blank, SessionFacts, TaskFacts, FileWork, Open, Encrypted
    <3> QED  BY <3>1, <3>2
  <2>3. SavedFacts'
    BY <1>0, <2>1 DEF SavedFacts, Spared, Settled, StoreFaithful, CopyFaithful, Store, OnDisk, Faithful,
                      Open, Encrypted, Written, FileOf
  <2>4. PlainFacts'
    BY <1>0, <2>1 DEF PlainFacts, Settled
  <2> QED  BY <2>2, <2>3, <2>4 DEF IInv, Frame
<1> QED  BY <1>1, <1>2, <1>3, <1>4, <1>5 DEF Next

LEMMA Always == Spec => []IInv
  BY InitHolds, StepHolds, PTL DEF Spec

\* Every variable keeps its type; in particular a plain file is never stored under a
\* password, nor an encrypted one without.
THEOREM TypeCorrect == Spec => []TypeOK
<1>1. IInv => TypeOK
  BY DEF IInv
<1> QED  BY <1>1, Always, PTL

\* Whatever calls and crashes there were, as long as no crash hit a file that was being
\* written in place, the metadata, or the time between the removal of the old file and
\* the metadata, the context opens under its password with every saved row and no
\* deleted one (setContextPassword, persist, createContext).
THEOREM SavedReadable == Spec => []SavedRowsReadable
<1>1. IInv => SavedRowsReadable
  BY DEF IInv, SavedFacts, Spared, StoreFaithful, Faithful, SavedRowsReadable
<1> QED  BY <1>1, Always, PTL

\* An encrypted context leaves its rows in no plain file of its directory, unless a
\* crash fell while a password was being removed (setContextPassword's unlink).
THEOREM NoPlaintext == Spec => []NoPlaintextBehind
<1>1. IInv => NoPlaintextBehind
  BY DEF IInv, PlainFacts, NoPlaintextBehind
<1> QED  BY <1>1, Always, PTL

=============================================================================
