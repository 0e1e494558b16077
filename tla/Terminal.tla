------------------------------- MODULE Terminal -------------------------------
(* The terminal program as a whole: a stack of screens, one open context, the *)
(* context's name in the header, and the contexts on disk.  Rows are read and *)
(* written by whatever screen is shown, in whatever context is open by then;  *)
(* answers of a hub move the stack of screens at any time.  The command line  *)
(* is a second process; a context is used by one of the two at a time.        *)
EXTENDS Naturals, FiniteSets, Sequences, SequencesExt

CONSTANTS
    Contexts,
    Rows,        \* certificates, profiles and SSH keys
    None,        \* no context, no row
    MaxDepth,    \* bound: screens on the stack, as far as the user puts them there
    MaxCrashes   \* bound: crashes of either process

ASSUME TerminalAssumption ==
    /\ None \notin Contexts \cup Rows
    /\ MaxDepth \in Nat \ {0}
    /\ MaxCrashes \in Nat

VARIABLES
    disk,      \* what is in the root directory, per context
    session,   \* the open context of the terminal
    header,    \* the name that is shown, and handed to the screens
    stack,     \* the screens and what each was given, the one shown last
    page,      \* the state of the screen shown
    pending,   \* what the hub will still answer
    cli,       \* the open context of the command line
    copies,    \* decrypted working copies in the temporary directory
    left,      \* history: working copies left by a crash, or by a store that is no database
    crashes    \* how often a process crashed (bound)

terminal == <<session, header, stack, page, pending>>
vars == <<disk, terminal, cli, copies, left, crashes>>

-----------------------------------------------------------------------------
(* State. *)

\* A context on disk. A plain one is written through a write-ahead log: `file`
\* is what the database file itself holds. `sound`: the file is a database.
Store == [there : BOOLEAN, locked : BOOLEAN, sound : BOOLEAN, rows : SUBSET Rows, file : SUBSET Rows]
Absent == [there |-> FALSE, locked |-> FALSE, sound |-> TRUE, rows |-> {}, file |-> {}]
New(locked) == [Absent EXCEPT !.there = TRUE, !.locked = locked]

Closed == [name |-> None, locked |-> FALSE]
Session == {Closed} \cup [name : Contexts, locked : BOOLEAN]

RowScreens == {"rows", "transfer"}   \* they read the open context when they are drawn
Screens == RowScreens \cup {"contexts", "unlock", "main", "set-password", "import-context", "export-context",
                            "import-bundle", "hub"}
Screen(kind, of) == [kind |-> kind, of |-> of]
Home == <<Screen("contexts", None)>>
Page == [step |-> "start", target |-> None]

Init ==
    /\ disk = [c \in Contexts |-> Absent]
    /\ session = Closed
    /\ header = None
    /\ stack = Home
    /\ page = Page
    /\ pending = {}
    /\ cli = Closed
    /\ copies = {}
    /\ left = {}
    /\ crashes = 0

Top == Last(stack).kind
Of == Last(stack).of
Opened(c) == disk[c].there
Gone == {c \in Contexts : ~disk[c].there}
Copy(process, s) == IF s # Closed /\ s.locked THEN {<<process, s.name>>} ELSE {}

\* The last connection to a plain database moves its log into the file.
Checkpointed(d, s) ==
    IF s # Closed /\ ~s.locked THEN [d EXCEPT ![s.name].file = d[s.name].rows] ELSE d

-----------------------------------------------------------------------------
(* openContext and closeContext of storage/db.ts: opening closes first, and   *)
(* fails when there is no such context, or its store is no database, which    *)
(* shows only when the working copy has been written.                         *)

Opens(d, c) == d[c].there /\ d[c].sound

\* The session after openContext(c), the copies and the strays it leaves.
OpenOf(d, c) == IF Opens(d, c) THEN [name |-> c, locked |-> d[c].locked] ELSE Closed
StrayOf(d, c) == IF d[c].there /\ ~d[c].sound /\ d[c].locked THEN {<<"terminal", c>>} ELSE {}

\* Mutant: the session in the way is forgotten, not closed.
SessionForgotten(s, d, strays) ==
    /\ session' = s
    /\ disk' = Checkpointed(d, session)
    /\ left' = left \cup strays
    /\ copies' = copies \cup Copy("terminal", s) \cup strays

\* The session is closed, s is the next one, d what was written in between.
SessionBecomes(s, d, strays) ==
    /\ session' = s
    /\ disk' = Checkpointed(d, session)
    /\ left' = left \cup strays
    /\ copies' = (copies \ (Copy("terminal", session) \ left)) \cup Copy("terminal", s) \cup strays

-----------------------------------------------------------------------------
(* The stack.  Drawing a screen that reads the open context when there is     *)
(* none, or has another name, throws; Ink then ends the process.              *)

Draw(s) ==
    /\ stack' = s
    /\ page' = IF s = stack THEN page ELSE Page

Push(kind, of) == Len(stack) < MaxDepth /\ Draw(Append(stack, Screen(kind, of)))
Popped(s) == IF Len(s) > 1 THEN Front(s) ELSE s
Replaced(kind) == Append(Front(stack), Screen(kind, None))

\* The process ends and is started again.
Restarted ==
    /\ header' = None
    /\ stack' = Home /\ page' = Page
    /\ pending' = {}

\* The contexts a row can be sent to.
Others == {c \in Contexts : disk[c].there} \ {header}

-----------------------------------------------------------------------------
(* The screen of contexts. *)

\* The password that is asked for was right.
OpenContext(c) ==
    /\ \/ Top = "contexts" /\ page.step = "start" /\ ~disk[c].locked
       \/ Top = "unlock" /\ Of = c
    /\ Opened(c) /\ cli.name # c
    /\ SessionBecomes(OpenOf(disk, c), disk, StrayOf(disk, c))
    /\ IF Opens(disk, c) THEN header' = c /\ Draw(Replaced("main")) ELSE UNCHANGED <<header, stack, page>>
    /\ UNCHANGED <<pending, cli, crashes>>

PushUnlock(c) ==
    /\ Top = "contexts" /\ page.step = "start" /\ Opened(c) /\ disk[c].locked
    /\ Push("unlock", c)
    /\ UNCHANGED <<disk, session, header, pending, cli, copies, left, crashes>>

\* (A bound: a context that is deleted while it is open is not made anew until
\* it is closed.)
Free(c) == ~Opened(c) /\ session.name # c

CreateContext(c, locked) ==
    /\ Top = "contexts" /\ page.step = "start" /\ Free(c)
    /\ disk' = [disk EXCEPT ![c] = New(locked)]
    /\ UNCHANGED <<terminal, cli, copies, left, crashes>>

AskDelete(c) ==
    /\ Top = "contexts" /\ page.step = "start" /\ Opened(c)
    /\ page' = [step |-> "confirm", target |-> c]
    /\ UNCHANGED <<disk, session, header, stack, pending, cli, copies, left, crashes>>

\* Mutant: the store stays where it was.
ConfirmDeleteOfName ==
    /\ Top = "contexts" /\ page.step = "confirm" /\ cli.name # page.target
    /\ disk' = [disk EXCEPT ![page.target].there = FALSE]
    /\ page' = Page
    /\ UNCHANGED <<session, header, stack, pending, cli, copies, left, crashes>>

\* Nothing asks whether the context is open, as it is when Esc, or a late answer
\* of a hub, took the main menu away.
ConfirmDelete ==
    /\ Top = "contexts" /\ page.step = "confirm" /\ cli.name # page.target
    /\ disk' = [disk EXCEPT ![page.target] = Absent]
    /\ page' = Page
    /\ UNCHANGED <<session, header, stack, pending, cli, copies, left, crashes>>

\* createContext, then importContext, which may fail for a wrong password; it
\* takes any file.
ImportContext(c, locked, store) ==
    /\ Top = "import-context" /\ Free(c)
    /\ \/ /\ disk' = [disk EXCEPT ![c] = New(locked)]
          /\ UNCHANGED <<stack, page>>
       \/ /\ disk' = [disk EXCEPT ![c] = [store EXCEPT !.locked = locked]]
          /\ Draw(Popped(stack))
    /\ UNCHANGED <<session, header, pending, cli, copies, left, crashes>>

-----------------------------------------------------------------------------
(* The main menu, and the screens that work in the open context. *)

\* Mutant: the menu is left with the context open.
SwitchContextOpen ==
    /\ Top = "main"
    /\ header' = None
    /\ Draw(Replaced("contexts"))
    /\ UNCHANGED <<disk, session, pending, cli, copies, left, crashes>>

SwitchContext ==
    /\ Top = "main"
    /\ SessionBecomes(Closed, disk, {})
    /\ header' = None
    /\ Draw(Replaced("contexts"))
    /\ UNCHANGED <<pending, cli, crashes>>

Enter(screen) ==
    /\ Top \in IF screen = "import-context" THEN {"main", "contexts"} ELSE {"main"}
    /\ page.step = "start"
    /\ Push(screen, None)
    /\ screen \in RowScreens => session # Closed
    /\ screen = "export-context" => header \notin Gone
    /\ UNCHANGED <<disk, session, header, pending, cli, copies, left, crashes>>

\* What is entered without a context, or for one that is gone, throws.
EnterThrows ==
    /\ Top = "main"
    /\ session = Closed \/ header \in Gone
    /\ left' = left \cup Copy("terminal", session)
    /\ session' = Closed
    /\ Restarted
    /\ UNCHANGED <<disk, cli, copies, crashes>>

\* Esc.  Two of these screens listen to it themselves and hold a menu, or a file
\* list, that does too; both handlers pop.
Back ==
    /\ Top \notin {"main", "contexts"} /\ page.step = "start"
    /\ Draw(IF Top \in {"export-context", "transfer"} THEN Popped(Popped(stack)) ELSE Popped(stack))
    /\ UNCHANGED <<disk, session, header, pending, cli, copies, left, crashes>>

\* Esc within a screen; the choice among no contexts and the question for a
\* password do not listen to it.
StepBack ==
    /\ \/ page.step = "confirm"
       \/ page.step = "pick" /\ Others # {}
    /\ page' = Page
    /\ UNCHANGED <<disk, session, header, stack, pending, cli, copies, left, crashes>>

\* A repository call of the screen shown, saved by persist() if the context is
\* encrypted and by the log if it is not.
Wrote(rows) ==
    disk' = [disk EXCEPT ![session.name].rows = rows,
                         ![session.name].file = IF session.locked THEN rows ELSE @]

WriteRow(r) ==
    /\ Top = "rows" /\ session # Closed /\ Opened(session.name)
    /\ Wrote(IF r \in disk[session.name].rows THEN disk[session.name].rows \ {r}
             ELSE disk[session.name].rows \cup {r})
    /\ UNCHANGED <<terminal, cli, copies, left, crashes>>

\* SQLite moves the log into the file of itself now and then.
Checkpoint ==
    /\ session # Closed /\ ~session.locked /\ Opened(session.name)
    /\ disk' = Checkpointed(disk, session)
    /\ UNCHANGED <<terminal, cli, copies, left, crashes>>

\* A new row of a bundle is rolled back in an encrypted context (ContextStore).
ImportBundle(r) ==
    /\ Top = "import-bundle" /\ session # Closed /\ Opened(session.name)
    /\ r \in disk[session.name].rows \/ ~session.locked
    /\ Wrote(disk[session.name].rows \cup {r})
    /\ UNCHANGED <<terminal, cli, copies, left, crashes>>

\* The screen has called persist(), and copies the context's file; a log is not
\* copied with it.
ExportContext ==
    /\ Top = "export-context" /\ header # None /\ Opened(header)
    /\ Draw(Popped(stack))
    /\ UNCHANGED <<disk, session, header, pending, cli, copies, left, crashes>>

-----------------------------------------------------------------------------
(* A new password: the session is closed before the current one is checked.   *)
(* A file that is encrypted for the first time loses the log it may have.     *)

EnterSetPassword ==
    /\ Top = "main" /\ Push("set-password", header)
    /\ UNCHANGED <<disk, session, header, pending, cli, copies, left, crashes>>

SetPassword(locked) ==
    LET c == Of
        closed == Checkpointed(disk, session)
        d == [closed EXCEPT ![c].locked = locked, ![c].rows = IF locked THEN closed[c].file ELSE @]
    IN  /\ Top = "set-password" /\ c # None /\ Opened(c) /\ disk[c].sound /\ cli.name # c
        /\ SessionBecomes(OpenOf(d, c), d, {})
        /\ header' = c
        /\ Draw(Replaced("main"))
        /\ UNCHANGED <<pending, cli, crashes>>

SetPasswordRefused ==
    /\ Top = "set-password"
    /\ Of \notin {c \in Contexts : Opened(c) /\ ~disk[c].locked}
    /\ SessionBecomes(Closed, disk, {})
    /\ UNCHANGED <<header, stack, page, pending, cli, crashes>>

-----------------------------------------------------------------------------
(* Sending a row to another context. *)

EnterTransfer(r) ==
    /\ Top = "rows" /\ session # Closed /\ r \in disk[session.name].rows
    /\ Push("transfer", r)
    /\ UNCHANGED <<disk, session, header, pending, cli, copies, left, crashes>>

TransferStep(from, to, c) ==
    /\ Top = "transfer" /\ page.step = from
    /\ page' = [step |-> to, target |-> c]
    /\ UNCHANGED <<disk, session, header, stack, pending, cli, copies, left, crashes>>

SendToContext == TransferStep("start", "pick", None)

PickTarget(c) ==
    /\ c \in Others
    /\ TransferStep("pick", IF disk[c].locked THEN "unlock" ELSE "confirm", c)

UnlockTarget == TransferStep("unlock", "confirm", page.target)

\* What arrives in the target: nothing new in an encrypted one.
Arrives(d, c, r) == Opens(d, c) /\ (~d[c].locked \/ r \in d[c].rows)
Sent(d, c, r) ==
    IF Arrives(d, c, r) THEN [d EXCEPT ![c].rows = @ \cup {r}, ![c].file = d[c].rows \cup {r}] ELSE d

\* Mutant: when the import fails the target stays open.
TransferStays ==
    LET original == session.name
        d == Sent(Checkpointed(disk, session), page.target, Of)
    IN  /\ Top = "transfer" /\ page.step = "confirm" /\ session # Closed
        /\ cli.name # page.target
        /\ SessionBecomes(OpenOf(d, IF Arrives(disk, page.target, Of) THEN original ELSE page.target), d,
                          StrayOf(disk, page.target))
        /\ header' = original
        /\ Draw(Popped(stack))
        /\ UNCHANGED <<pending, cli, crashes>>

\* The handler is synchronous: close, open the target, import, close, open the
\* original again with the session's password, whether or not the import failed.
Transfer ==
    LET original == session.name
        d == Sent(Checkpointed(disk, session), page.target, Of)
    IN  /\ Top = "transfer" /\ page.step = "confirm" /\ session # Closed
        /\ cli.name # page.target
        /\ SessionBecomes(OpenOf(d, original), d, StrayOf(disk, page.target))
        /\ header' = IF Opens(d, original) THEN original ELSE header
        /\ Draw(Popped(stack))
        /\ UNCHANGED <<pending, cli, crashes>>

-----------------------------------------------------------------------------
(* The hub, as far as it moves the stack (RemoteAdmin has the rest).          *)

AskHub(what) ==
    /\ Top = "hub" /\ what \notin pending /\ Len(stack) < MaxDepth
    /\ pending' = pending \cup {what}
    /\ UNCHANGED <<disk, session, header, stack, page, cli, copies, left, crashes>>

\* A connection, or a job that was started, puts its screen on top; a rollback
\* takes a screen away; an answer that failed does neither.
HubAnswers(what) ==
    /\ what \in pending
    /\ pending' = pending \ {what}
    /\ \/ UNCHANGED <<stack, page>>
       \/ what = "connect" /\ Draw(Append(stack, Screen("hub", None)))
       \/ what = "rollback" /\ Draw(Popped(stack))
    /\ UNCHANGED <<disk, session, header, cli, copies, left, crashes>>

-----------------------------------------------------------------------------
(* The command line: one context at a time, opened with its password.         *)

CliOpen(c) ==
    /\ cli = Closed /\ Opened(c) /\ session.name # c
    /\ IF disk[c].sound THEN cli' = [name |-> c, locked |-> disk[c].locked] /\ UNCHANGED left
       ELSE /\ cli' = Closed
            /\ left' = left \cup (IF disk[c].locked THEN {<<"cli", c>>} ELSE {})
    /\ copies' = copies \cup (IF disk[c].locked THEN {<<"cli", c>>} ELSE {})
    /\ UNCHANGED <<disk, terminal, crashes>>

\* keys import, and the second half of keys transfer.
CliImport(r) ==
    /\ cli # Closed
    /\ r \in disk[cli.name].rows \/ ~cli.locked
    /\ disk' = [disk EXCEPT ![cli.name].rows = @ \cup {r}]
    /\ UNCHANGED <<terminal, cli, copies, left, crashes>>

CliClose ==
    /\ cli # Closed
    /\ disk' = Checkpointed(disk, cli)
    /\ copies' = copies \ (Copy("cli", cli) \ left)
    /\ cli' = Closed
    /\ UNCHANGED <<terminal, left, crashes>>

-----------------------------------------------------------------------------
(* The end of a process. *)

\* F10, Ctrl-C, SIGINT or SIGTERM.
Quit ==
    /\ SessionBecomes(Closed, disk, {})
    /\ Restarted
    /\ UNCHANGED <<cli, crashes>>

\* It is killed, or a rejected promise that nobody handles ends it.
Crash ==
    /\ crashes < MaxCrashes
    /\ crashes' = crashes + 1
    /\ left' = left \cup Copy("terminal", session)
    /\ session' = Closed
    /\ Restarted
    /\ UNCHANGED <<disk, cli, copies>>

CliCrash ==
    /\ cli # Closed /\ crashes < MaxCrashes
    /\ crashes' = crashes + 1
    /\ left' = left \cup Copy("cli", cli)
    /\ cli' = Closed
    /\ UNCHANGED <<disk, terminal, copies>>

-----------------------------------------------------------------------------

ContextStep ==
    \/ \E c \in Contexts : OpenContext(c) \/ PushUnlock(c) \/ AskDelete(c)
    \/ \E c \in Contexts, locked \in BOOLEAN : CreateContext(c, locked)
    \/ \E c \in Contexts, locked \in BOOLEAN, store \in {s \in Store : s.there /\ s.rows = s.file /\ (s.sound \/ s.rows = {})} :
            ImportContext(c, locked, store)
    \/ ConfirmDelete

WorkStep ==
    \/ SwitchContext \/ ExportContext \/ EnterThrows \/ Back \/ StepBack \/ Checkpoint
    \/ SendToContext \/ UnlockTarget \/ Transfer
    \/ \E screen \in {"rows", "import-context", "export-context", "import-bundle", "hub"} : Enter(screen)
    \/ \E r \in Rows : WriteRow(r) \/ ImportBundle(r) \/ EnterTransfer(r)
    \/ \E c \in Contexts : PickTarget(c)

PasswordStep == EnterSetPassword \/ SetPasswordRefused \/ \E locked \in BOOLEAN : SetPassword(locked)

HubStep == \E what \in {"connect", "rollback"} : AskHub(what) \/ HubAnswers(what)

CliStep ==
    \/ CliClose \/ CliCrash
    \/ \E c \in Contexts : CliOpen(c)
    \/ \E r \in Rows : CliImport(r)

Next ==
    \/ ContextStep \/ WorkStep \/ PasswordStep \/ HubStep \/ CliStep \/ Quit \/ Crash

Spec == Init /\ [][Next]_vars

-----------------------------------------------------------------------------
(* Properties. *)

\* Everything has its type.
TypeOK ==
    /\ disk \in [Contexts -> Store]
    /\ \A c \in Contexts : ~disk[c].there => disk[c] = Absent
    /\ \A c \in Contexts : disk[c].locked => disk[c].file = disk[c].rows
    /\ session \in Session /\ cli \in Session
    /\ header \in Contexts \cup {None}
    /\ stack \in Seq([kind : Screens, of : Contexts \cup Rows \cup {None}]) /\ stack # <<>>
    /\ page \in [step : {"start", "pick", "unlock", "confirm"}, target : Contexts \cup {None}]
    /\ pending \subseteq {"connect", "rollback"}
    /\ left \subseteq copies /\ copies \subseteq {"terminal", "cli"} \X Contexts
    /\ crashes \in 0..MaxCrashes

\* The header names the context that is open, through every change of context,
\* of password and of screens, and after a transfer that failed: what the user
\* does is done in the context the screen says.  And a screen that shows rows has
\* a context to show them of.
HeaderTellsContext ==
    /\ session # Closed => header = session.name
    /\ Top \in RowScreens => session # Closed

\* A decrypted working copy is there just as long as its context is open, but for
\* those that a crash, or a store that turned out to be no database, left behind.
CopiesFollowSessions == copies = left \cup Copy("terminal", session) \cup Copy("cli", cli)

\* The rows of a context that stays where it is change only while it is the one
\* named in the header, the one named in a confirmed transfer, or the one the
\* command line was given.
WrittenAsNamed ==
    [][\A c \in Contexts :
         disk[c].there /\ disk'[c].there /\ disk[c].rows # disk'[c].rows =>
            \/ c = header
            \/ Top = "transfer" /\ page.step = "confirm" /\ page.target = c
            \/ cli.name = c]_vars

\* An exported context holds the rows it had when it was exported: what is copied
\* is the whole context.
ExportHoldsRows ==
    [][\A c \in Contexts : header = c /\ ExportContext => disk[c].file = disk[c].rows]_vars
=============================================================================
