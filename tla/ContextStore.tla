----------------------------- MODULE ContextStore -----------------------------
(***************************************************************************)
(* A local context of the terminal program on disk: its metadata, and its  *)
(* rows either in a plain SQLite file or, under a password, in an          *)
(* encrypted file.  An encrypted context is worked on in a decrypted copy  *)
(* that persist() writes back; the code is synchronous, but a crash may    *)
(* fall between any two calls of the file system, and within a file write, *)
(* which truncates the file before it fills it.  One process at a time     *)
(* uses the context.                                                       *)
(***************************************************************************)
EXTENDS Naturals, FiniteSets

CONSTANTS
    Row,         \* rows of certificates, ssh_keys and profiles
    Password,
    NoPassword,  \* null, of an unencrypted context
    MaxCrashes   \* bound on the crashes of a behaviour

ASSUME StoreAssumption ==
    /\ NoPassword \notin Password
    /\ MaxCrashes \in Nat

VARIABLES
    meta,       \* context.json; the password is the one its verifier accepts
    plain,      \* store.db
    enc,        \* store.enc
    session,    \* the open context, if any; rows is its working copy, if encrypted
    task,       \* what the process is in the middle of
    crashes,    \* how often the process crashed (bound)
    kept,       \* history: what calls that returned saved, less what was deleted
    imported,   \* history: what imports committed to a working copy only
    crashedAt   \* history: the tasks that a crash interrupted

fileVars == <<meta, plain, enc>>
history == <<kept, imported, crashedAt>>
vars == <<fileVars, session, task, crashes, history>>

\* What a row holds: its public part and, of some, a private key.
Cell == Row \X {"row", "key"}

Contents == {c \in SUBSET Cell : \A r \in Row : <<r, "key">> \in c => <<r, "row">> \in c}

CellsOf(r) == {r} \X {"row", "key"}

RowsOf(contents) == {cell[1] : cell \in contents}

Absent == [is |-> "absent"]

Torn == [is |-> "torn"]

Stored(rows, password) == [is |-> "stored", rows |-> rows, password |-> password]

Key == Password \cup {NoPassword}

MetaFile == [is: {"stored"}, password: Key]

PlainFile == [is: {"stored"}, rows: Contents, password: {NoPassword}]

EncFile == [is: {"stored"}, rows: Contents, password: Password]

NoSession == [is |-> "closed"]

Session == [is: {"open"}, password: Key, rows: Contents]

Nothing == [do |-> "nothing"]

\* keeps: kept, once this returns
SaveTask == [do: {"save", "saving"}, keeps: Contents]

\* damaged: fails its checks; relinks: names an issuer that the context has
ImportTask == [do: {"import"}, bundle: Contents, damaged: BOOLEAN, relinks: BOOLEAN]

\* inPlace: the file written is the one that was read
FileTask == [do: {"store", "unlink", "retitle", "meta", "fill", "filling"}, password: Key,
             rows: Contents, inPlace: BOOLEAN, import: BOOLEAN]

TypeOK ==
    /\ meta \in {Absent, Torn} \cup MetaFile
    /\ plain \in {Absent, Torn} \cup PlainFile
    /\ enc \in {Absent, Torn} \cup EncFile
    /\ session \in {NoSession} \cup Session
    /\ task \in {Nothing} \cup SaveTask \cup ImportTask \cup FileTask
    /\ crashes \in 0..MaxCrashes
    /\ {kept, imported} \subseteq Contents
    /\ crashedAt \subseteq {"saving", "store", "unlink", "retitle", "meta", "filling", "in place",
                     "removing"}

Init ==
    /\ meta = Absent
    /\ plain = Absent
    /\ enc = Absent
    /\ session = NoSession
    /\ task = Nothing
    /\ crashes = 0
    /\ kept = {}
    /\ imported = {}
    /\ crashedAt = {}

Idle == task = Nothing

Open == session.is = "open"

Encrypted == session.password # NoPassword

\* Rows the open session shows.
Shown == IF Encrypted THEN session.rows ELSE plain.rows

\* The file the metadata points to.
Store == IF meta.password # NoPassword THEN enc ELSE plain

\* The file of a context with this password becomes `file`.
SetStore(password, file) ==
    IF password # NoPassword THEN enc' = file /\ UNCHANGED plain
                             ELSE plain' = file /\ UNCHANGED enc

----------------------------------------------------------------------------
(* Opening and closing.                                                    *)

\* Every caller has the password verified against the metadata first.
OpenContext ==
    /\ Idle
    /\ meta.is = "stored"
    /\ Store.is = "stored" => Store.password = meta.password
    /\ \/ /\ meta.password # NoPassword
          /\ Store.is # "torn"
          /\ session' = [is |-> "open", password |-> meta.password,
                         rows |-> IF Store = Absent THEN {} ELSE Store.rows]
          /\ UNCHANGED plain
       \/ /\ meta.password = NoPassword
          /\ session' = [is |-> "open", password |-> NoPassword, rows |-> {}]
          /\ plain' = IF plain.is = "stored" THEN plain ELSE Stored({}, NoPassword)
    /\ UNCHANGED <<meta, enc, task, crashes, history>>

\* Also openContext that fails and setContextPassword with a wrong password: both
\* close the session first.
CloseContext ==
    /\ Idle
    /\ Open
    /\ session' = NoSession
    /\ UNCHANGED <<fileVars, task, crashes, history>>

\* The directory is removed, in one step of the model.
DeleteContext ==
    /\ Idle
    /\ ~ Open
    /\ meta.is = "stored"
    /\ meta' = Absent
    /\ plain' = Absent
    /\ enc' = Absent
    /\ kept' = {}
    /\ imported' = {}
    /\ UNCHANGED <<session, task, crashes, crashedAt>>

----------------------------------------------------------------------------
(* Repositories.                                                           *)

\* The statement of a repository call; the call returns at once if the context is
\* not encrypted, and otherwise after persist().
Write(rows, keeps) ==
    /\ IF Encrypted
         THEN /\ session' = [session EXCEPT !.rows = rows]
              /\ task' = [do |-> "save", keeps |-> keeps]
              /\ UNCHANGED <<plain, kept>>
         ELSE /\ plain' = Stored(rows, NoPassword)
              /\ kept' = keeps
              /\ UNCHANGED <<session, task>>
    /\ UNCHANGED <<meta, enc, crashes, imported, crashedAt>>

Insert(r, cells) ==
    /\ Idle
    /\ Open
    /\ r \notin RowsOf(Shown)
    /\ Write(Shown \cup cells, kept \cup Shown \cup cells)

Delete(r) ==
    /\ Idle
    /\ Open
    /\ r \in RowsOf(Shown)
    /\ Write(Shown \ CellsOf(r), (kept \cup Shown) \ CellsOf(r))

\* A change of other columns (relinkIssuer, replaceCert, revoke, rename) and the
\* export of the context persist, too.
Update ==
    /\ Idle
    /\ Open
    /\ Write(Shown, kept \cup Shown)

\* persist(): encrypt the working copy's file and write it back.
PersistTruncates ==
    /\ task.do = "save"
    /\ enc' = Torn
    /\ task' = [task EXCEPT !.do = "saving"]
    /\ UNCHANGED <<meta, plain, session, crashes, history>>

PersistWrites ==
    /\ task.do = "saving"
    /\ enc' = Stored(session.rows, session.password)
    /\ kept' = task.keeps
    /\ task' = Nothing
    /\ UNCHANGED <<meta, plain, session, crashes, imported, crashedAt>>

----------------------------------------------------------------------------
(* importBundle: one transaction.  The repository calls in it persist, and *)
(* SQLite has no checkpoint for a connection that is in a transaction: in  *)
(* an encrypted context persist() raises, and everything is rolled back.   *)

BeginImport(bundle, damaged, relinks) ==
    /\ Idle
    /\ Open
    /\ task' = [do |-> "import", bundle |-> bundle, damaged |-> damaged, relinks |-> relinks]
    /\ UNCHANGED <<fileVars, session, crashes, history>>

\* A new row is inserted by its repository and an issuer is relinked by one; the
\* key of a known row is filled in without.
Persists == Encrypted /\ (task.relinks \/ ~ RowsOf(task.bundle) \subseteq RowsOf(Shown))

CommitImport ==
    /\ task.do = "import"
    /\ ~ task.damaged
    /\ ~ Persists
    /\ IF Encrypted
         THEN /\ session' = [session EXCEPT !.rows = @ \cup task.bundle]
              /\ imported' = imported \cup task.bundle
              /\ UNCHANGED <<plain, kept>>
         ELSE /\ plain' = Stored(plain.rows \cup task.bundle, NoPassword)
              /\ kept' = kept \cup task.bundle
              /\ UNCHANGED <<session, imported>>
    /\ task' = Nothing
    /\ UNCHANGED <<meta, enc, crashes, crashedAt>>

ImportFails ==
    /\ task.do = "import"
    /\ task.damaged \/ Persists
    /\ task' = Nothing
    /\ UNCHANGED <<fileVars, session, crashes, history>>

----------------------------------------------------------------------------
(* createContext, importContext.                                           *)

\* rows: what the imported file holds; an import begins with createContext.
CreateContext(password, import, rows) ==
    /\ Idle
    /\ ~ Open
    /\ meta = Absent
    /\ meta' = Torn
    /\ task' = [do |-> "meta", password |-> password, rows |-> rows, inPlace |-> FALSE,
                import |-> import]
    /\ UNCHANGED <<plain, enc, session, crashes, history>>

MetaWritten ==
    /\ task.do = "meta"
    /\ meta' = [is |-> "stored", password |-> task.password]
    /\ task' = IF task.import THEN [task EXCEPT !.do = "fill"] ELSE Nothing
    /\ UNCHANGED <<plain, enc, session, crashes, history>>

FillTruncates ==
    /\ task.do = "fill"
    /\ SetStore(task.password, Torn)
    /\ task' = [task EXCEPT !.do = "filling"]
    /\ UNCHANGED <<meta, session, crashes, history>>

\* The source is gone or its password is wrong: the new context stays, empty.
FillFails ==
    /\ task.do = "fill"
    /\ task' = Nothing
    /\ UNCHANGED <<fileVars, session, crashes, history>>

Filled ==
    /\ task.do = "filling"
    /\ SetStore(task.password, Stored(task.rows, task.password))
    /\ kept' = task.rows
    /\ task' = Nothing
    /\ UNCHANGED <<meta, session, crashes, imported, crashedAt>>

----------------------------------------------------------------------------
(* setContextPassword: write the store under the new password, remove the  *)
(* other file, write the metadata.                                         *)

\* The new store goes into the file that the old one is in.
SameFile(password) == (password = NoPassword) <=> (meta.password = NoPassword)

ChangeTask(password, do) ==
    [do |-> do, password |-> password, rows |-> IF Store = Absent THEN {} ELSE Store.rows,
     inPlace |-> SameFile(password), import |-> FALSE]

\* The screen has closed the session, now or in an earlier try with a wrong password.
Readable ==
    /\ meta.is = "stored"
    /\ Store.is # "torn"
    /\ Store.is = "stored" => Store.password = meta.password

\* Mutant: the old file makes room for the new one.
ChangePasswordRemovingFirst(password) ==
    /\ Idle
    /\ Readable
    /\ session' = NoSession
    /\ IF password # NoPassword THEN enc' = Torn /\ plain' = Absent
                                ELSE plain' = Torn /\ enc' = Absent
    /\ task' = ChangeTask(password, "store")
    /\ UNCHANGED <<meta, crashes, history>>

ChangePassword(password) ==
    /\ Idle
    /\ Readable
    /\ session' = NoSession
    /\ IF Store = Absent /\ password = NoPassword
         THEN task' = ChangeTask(password, "unlink") /\ UNCHANGED <<plain, enc>>
         ELSE task' = ChangeTask(password, "store") /\ SetStore(password, Torn)
    /\ UNCHANGED <<meta, crashes, history>>

\* Mutant: the store is copied as it is.
StoreWrittenPlain ==
    /\ task.do = "store"
    /\ SetStore(task.password, Stored(task.rows, NoPassword))
    /\ task' = [task EXCEPT !.do = "unlink"]
    /\ UNCHANGED <<meta, session, crashes, history>>

StoreWritten ==
    /\ task.do = "store"
    /\ SetStore(task.password, Stored(task.rows, task.password))
    /\ task' = [task EXCEPT !.do = "unlink"]
    /\ UNCHANGED <<meta, session, crashes, history>>

\* Mutant: only the encrypted file is ever removed.
UnlinkEncryptedOnly ==
    /\ task.do = "unlink"
    /\ IF task.password # NoPassword THEN UNCHANGED <<plain, enc>>
                                     ELSE enc' = Absent /\ UNCHANGED plain
    /\ task' = [task EXCEPT !.do = "retitle"]
    /\ UNCHANGED <<meta, session, crashes, history>>

UnlinkOther ==
    /\ task.do = "unlink"
    /\ IF task.password # NoPassword THEN plain' = Absent /\ UNCHANGED enc
                                     ELSE enc' = Absent /\ UNCHANGED plain
    /\ task' = [task EXCEPT !.do = "retitle"]
    /\ UNCHANGED <<meta, session, crashes, history>>

MetaTruncates ==
    /\ task.do = "retitle"
    /\ meta' = Torn
    /\ task' = [task EXCEPT !.do = "meta"]
    /\ UNCHANGED <<plain, enc, session, crashes, history>>

----------------------------------------------------------------------------
\* What a crash interrupts, as far as files are concerned.
Interrupted ==
    IF task.do \in {"nothing", "save", "import", "fill"} THEN {}
    ELSE IF task.do = "saving" THEN {"saving"}
    ELSE IF task.inPlace THEN {"in place"}
    ELSE {task.do} \cup (IF task.password = NoPassword THEN {"removing"} ELSE {})

\* The process dies; its working copy is of no use to the next one.
Crash ==
    /\ crashes < MaxCrashes
    /\ crashes' = crashes + 1
    /\ session' = NoSession
    /\ task' = Nothing
    /\ crashedAt' = crashedAt \cup Interrupted
    /\ UNCHANGED <<fileVars, kept, imported>>

SessionStep == OpenContext \/ CloseContext \/ DeleteContext

RowStep ==
    \/ \E r \in Row, cells \in Contents : RowsOf(cells) = {r} /\ Insert(r, cells)
    \/ \E r \in Row : Delete(r)
    \/ Update
    \/ PersistTruncates \/ PersistWrites
    \/ \E bundle \in Contents \ {{}}, damaged, relinks \in BOOLEAN :
            BeginImport(bundle, damaged, relinks)
    \/ CommitImport \/ ImportFails

FileStep ==
    \/ \E password \in Key : CreateContext(password, FALSE, {}) \/ ChangePassword(password)
    \/ \E password \in Key, rows \in Contents : CreateContext(password, TRUE, rows)
    \/ MetaWritten \/ FillTruncates \/ FillFails \/ Filled
    \/ StoreWritten \/ UnlinkOther \/ MetaTruncates

Next == SessionStep \/ RowStep \/ FileStep \/ Crash

Spec == Init /\ [][Next]_vars

----------------------------------------------------------------------------
(* Safety.                                                                 *)

\* No file is being replaced.
Settled == task.do \in {"nothing", "save", "import", "fill"}

\* What the next openContext shows.
OnDisk == IF Store = Absent THEN {} ELSE Store.rows

\* After any sequence of calls and crashes, the password that the metadata accepts
\* opens the store, and it holds every row that was saved and none that was deleted.
\* That includes a crash while a password is first set, or is removed, as long as the
\* old file is there; it excludes a crash that hits a file being written in place,
\* the metadata, or the time between the removal of the old file and the metadata.
SavedRowsReadable ==
    /\ meta.is = "stored"
    /\ Settled
    /\ crashedAt \subseteq {"store", "unlink", "removing"}
    => /\ Store.is # "torn"
       /\ Store.is = "stored" => Store.password = meta.password
       /\ kept \subseteq OnDisk
       /\ OnDisk \subseteq kept \cup imported

\* Once a context is encrypted its directory holds its rows in no other file (a crash
\* leaves the working copy, which is elsewhere), whatever was set and removed before
\* and wherever crashes fell while it was being encrypted.  A crash while a password
\* was being removed is excluded.
NoPlaintextBehind ==
    /\ meta.is = "stored" /\ meta.password # NoPassword
    /\ Settled
    /\ "removing" \notin crashedAt
    => plain = Absent

\* The README has it that an encrypted context is encrypted again on every write and
\* that an import inserts the new rows of a bundle and fills in the missing keys of
\* known ones: an import of a sound bundle leaves its rows where the next
\* openContext reads them.
ImportSaved ==
    [][ task.do = "import" /\ task' = Nothing /\ ~ task.damaged /\ crashes' = crashes
        => task.bundle \subseteq OnDisk' ]_vars

=============================================================================
