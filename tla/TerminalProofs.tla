---------------------------- MODULE TerminalProofs ----------------------------
(***************************************************************************)
(* Proofs about Terminal: its type invariant, that the header tells the    *)
(* open context, that working copies follow the sessions, and that rows    *)
(* are written in the context that is named, for any number of contexts,   *)
(* rows, screens and crashes.                                              *)
(***************************************************************************)
EXTENDS Terminal, SequenceTheorems, TLAPS

Frame == [kind : Screens, of : Contexts \cup Rows \cup {None}]

(***************************************************************************)
(* The inductive invariant.                                                *)
(***************************************************************************)

\* Screens that rely on the context that was open, or named, when they were entered.
Working == RowScreens \cup {"set-password"}

\* Only a transfer, or what a hub answers, is put on top of such a screen.
Covered(s) ==
    \A i, j \in DOMAIN s : i < j /\ s[i].kind \in Working => s[j].kind \in {"transfer", "hub"}

\* The context d[c] that a transfer sends a row from is still there; the one whose password is set is
\* the one in the header h.
Given(s, open, d, h) ==
    \A i \in DOMAIN s :
        /\ s[i].kind \in RowScreens => open # Closed
        /\ s[i].kind = "transfer" => d[open.name].there /\ s[i].of \in Rows
        /\ s[i].kind = "set-password" => s[i].of = h

\* The contexts on disk: no more than a name once deleted, and no log when encrypted.
DiskOK(d) ==
    /\ d \in [Contexts -> Store]
    /\ \A c \in Contexts : ~d[c].there => d[c] = Absent
    /\ \A c \in Contexts : d[c].locked => d[c].file = d[c].rows

Pages == [step : {"start", "pick", "unlock", "confirm"}, target : Contexts \cup {None}]

PageOK(p) == p \in Pages /\ (p.step \in {"unlock", "confirm"} => p.target \in Contexts)

StackOK(s, open, d, h) == s \in Seq(Frame) /\ s # <<>> /\ Covered(s) /\ Given(s, open, d, h)

\* An open context that is still there is the store that was opened.
OpenOK(open, d) == open # Closed /\ d[open.name].there =>
                       d[open.name].sound /\ d[open.name].locked = open.locked

CliOK(c, d) == c # Closed => d[c.name].there /\ d[c.name].locked = c.locked

HeaderOK(h, open) == h \in Contexts \cup {None} /\ (open # Closed => h = open.name)

CopiesOK(cs, l, open, c) == /\ l \subseteq {"terminal", "cli"} \X Contexts
                            /\ cs = l \cup Copy("terminal", open) \cup Copy("cli", c)

IInv ==
    /\ DiskOK(disk) /\ session \in Session /\ cli \in Session
    /\ StackOK(stack, session, disk, header) /\ PageOK(page)
    /\ OpenOK(session, disk) /\ CliOK(cli, disk) /\ HeaderOK(header, session)
    /\ CopiesOK(copies, left, session, cli)
    /\ pending \subseteq {"connect", "rollback"} /\ crashes \in 0..MaxCrashes

(***************************************************************************)
(* Stacks of screens.                                                      *)
(***************************************************************************)

LEMMA PoppedStack ==
    ASSUME NEW s \in Seq(Frame), s # <<>>
    PROVE  /\ Popped(s) \in Seq(Frame) /\ Popped(s) # <<>>
           /\ \A i \in DOMAIN Popped(s) : i \in DOMAIN s /\ Popped(s)[i] = s[i]
<1>1. Len(s) \in Nat \ {0} /\ DOMAIN s = 1..Len(s)
  BY EmptySeq, LenProperties
<1>2. CASE Len(s) > 1
  <2>1. \A i \in 1..(Len(s) - 1) : s[i] \in Frame
    BY <1>1, ElementOfSeq
  <2>2. /\ Front(s) \in Seq(Frame) /\ Len(Front(s)) = Len(s) - 1
        /\ \A i \in 1..(Len(s) - 1) : Front(s)[i] = s[i]
    BY <1>1, <1>2, <2>1, SubSeqProperties DEF Front
  <2>3. DOMAIN Front(s) = 1..(Len(s) - 1) /\ Front(s) # <<>>
    BY <1>1, <1>2, <2>2, LenProperties, EmptySeq
  <2>. QED
    BY <1>1, <1>2, <2>2, <2>3 DEF Popped
<1>3. CASE ~(Len(s) > 1)
  BY <1>1, <1>3 DEF Popped
<1>. QED
  BY <1>2, <1>3

LEMMA PushedStack ==
    ASSUME NEW s \in Seq(Frame), NEW f \in Frame
    PROVE  /\ Append(s, f) \in Seq(Frame) /\ Append(s, f) # <<>>
           /\ Len(s) \in Nat /\ Len(Append(s, f)) = Len(s) + 1
           /\ DOMAIN s = 1..Len(s) /\ DOMAIN Append(s, f) = 1..(Len(s) + 1)
           /\ \A i \in DOMAIN s : Append(s, f)[i] = s[i]
           /\ Append(s, f)[Len(s) + 1] = f
<1>1. /\ Append(s, f) \in Seq(Frame) /\ Append(s, f) # <<>>
      /\ Len(Append(s, f)) = Len(s) + 1
      /\ \A i \in 1..Len(s) : Append(s, f)[i] = s[i]
      /\ Append(s, f)[Len(s) + 1] = f
  BY AppendProperties
<1>2. DOMAIN s = 1..Len(s) /\ Len(s) \in Nat
  BY LenProperties
<1>3. DOMAIN Append(s, f) = 1..(Len(s) + 1)
  BY <1>1, LenProperties
<1>. QED
  BY <1>1, <1>2, <1>3

\* The screen shown, and where it is.
LEMMA ShownStack ==
    ASSUME NEW s \in Seq(Frame), s # <<>>
    PROVE  /\ Len(s) \in Nat \ {0} /\ DOMAIN s = 1..Len(s) /\ Len(s) \in DOMAIN s
           /\ Last(s) \in Frame /\ Last(s) = s[Len(s)]
<1>1. Len(s) \in Nat \ {0} /\ DOMAIN s = 1..Len(s)
  BY EmptySeq, LenProperties
<1>. QED
  BY <1>1, ElementOfSeq DEF Last

\* A new screen in the place of the one shown.
LEMMA ReplacedStack ==
    ASSUME NEW s \in Seq(Frame), s # <<>>, NEW f \in Frame
    PROVE  /\ Append(Front(s), f) \in Seq(Frame) /\ Append(Front(s), f) # <<>>
           /\ DOMAIN Append(Front(s), f) = 1..Len(s)
           /\ \A i \in 1..Len(s) : Append(Front(s), f)[i] = IF i = Len(s) THEN f ELSE s[i]
           /\ Last(Append(Front(s), f)) = f
<1>1. Len(s) \in Nat \ {0} /\ DOMAIN s = 1..Len(s)
  BY ShownStack
<1>2. \A i \in 1..(Len(s) - 1) : s[i] \in Frame
  BY <1>1, ElementOfSeq
<1>3. /\ Front(s) \in Seq(Frame) /\ Len(Front(s)) = Len(s) - 1
      /\ \A i \in 1..(Len(s) - 1) : Front(s)[i] = s[i]
  BY <1>1, <1>2, SubSeqProperties DEF Front
<1>4. /\ Append(Front(s), f) \in Seq(Frame) /\ Append(Front(s), f) # <<>>
      /\ Len(Append(Front(s), f)) = Len(s) /\ DOMAIN Append(Front(s), f) = 1..Len(s)
      /\ \A i \in 1..(Len(s) - 1) : Append(Front(s), f)[i] = Front(s)[i]
      /\ Append(Front(s), f)[Len(s)] = f
  <2> DEFINE g == Front(s)
  <2>1. g \in Seq(Frame) /\ Len(g) = Len(s) - 1
    BY <1>3
  <2>2. Len(g) + 1 = Len(s)
    BY <1>1, <2>1
  <2> HIDE DEF g
  <2>3. /\ Append(g, f) \in Seq(Frame) /\ Append(g, f) # <<>>
        /\ Len(Append(g, f)) = Len(g) + 1 /\ DOMAIN g = 1..Len(g)
        /\ DOMAIN Append(g, f) = 1..(Len(g) + 1)
        /\ \A i \in DOMAIN g : Append(g, f)[i] = g[i]
        /\ Append(g, f)[Len(g) + 1] = f
    BY <2>1, PushedStack
  <2>. QED
    BY <2>1, <2>2, <2>3 DEF g
<1>5. Last(Append(Front(s), f)) = f
  BY <1>4, ShownStack
<1>6. \A i \in 1..Len(s) : Append(Front(s), f)[i] = IF i = Len(s) THEN f ELSE s[i]
  <2> SUFFICES ASSUME NEW i \in 1..Len(s)
               PROVE  Append(Front(s), f)[i] = IF i = Len(s) THEN f ELSE s[i]
    OBVIOUS
  <2>1. CASE i = Len(s)
    BY <1>4, <2>1
  <2>2. CASE i # Len(s)
    <3>1. \A n \in Nat \ {0} : \A k \in 1..n : k # n => k \in 1..(n - 1)
      OBVIOUS
    <3>2. i \in 1..(Len(s) - 1)
      BY <1>1, <2>2, <3>1
    <3>. QED
      BY <1>3, <1>4, <2>2, <3>2
  <2>. QED
    BY <2>1, <2>2
<1>. QED
  BY <1>4, <1>5, <1>6

\* Going back leaves what held of the screens below.
LEMMA PoppedKeeps ==
    ASSUME NEW s \in Seq(Frame), s # <<>>, NEW open, NEW d, NEW h,
           Covered(s), Given(s, open, d, h)
    PROVE  Covered(Popped(s)) /\ Given(Popped(s), open, d, h)
  BY PoppedStack DEF Covered, Given

\* A screen is put on top: one that may cover any other, or one that is entered from a
\* menu; if it relies on a context, that context is given.
LEMMA PushedKeeps ==
    ASSUME NEW s \in Seq(Frame), s # <<>>, NEW f \in Frame, NEW open, NEW d, NEW h,
           Covered(s), Given(s, open, d, h),
           \/ f.kind \in {"transfer", "hub"}
           \/ Last(s).kind \notin Working \cup {"hub"},
           f.kind \in RowScreens => open # Closed,
           f.kind = "transfer" => d[open.name].there /\ f.of \in Rows,
           f.kind = "set-password" => f.of = h
    PROVE  Covered(Append(s, f)) /\ Given(Append(s, f), open, d, h)
<1> DEFINE t == Append(s, f)
<1>1. /\ Len(s) \in Nat /\ DOMAIN s = 1..Len(s) /\ DOMAIN t = 1..(Len(s) + 1)
      /\ \A i \in DOMAIN s : t[i] = s[i]
      /\ t[Len(s) + 1] = f
  BY PushedStack
<1>2. Len(s) \in DOMAIN s /\ Last(s) = s[Len(s)]
  BY ShownStack
<1> HIDE DEF t
<1>3. Covered(t)
  <2> SUFFICES ASSUME NEW i \in DOMAIN t, NEW j \in DOMAIN t, i < j, t[i].kind \in Working
               PROVE  t[j].kind \in {"transfer", "hub"}
    BY DEF Covered
  <2>1. i \in DOMAIN s /\ s[i].kind \in Working
    BY <1>1
  <2>2. CASE j \in DOMAIN s
    BY <1>1, <2>1, <2>2 DEF Covered
  <2>3. CASE j \notin DOMAIN s
    <3>1. j = Len(s) + 1 /\ t[j] = f
      BY <1>1, <2>3
    <3>2. Last(s).kind \in {"transfer", "hub"} \/ Last(s).kind \in Working
      BY <1>1, <1>2, <2>1 DEF Covered
    <3>. QED
      BY <3>1, <3>2 DEF Working, RowScreens
  <2>. QED
    BY <2>2, <2>3
<1>4. Given(t, open, d, h)
  <2> SUFFICES ASSUME NEW i \in DOMAIN t
               PROVE  /\ t[i].kind \in RowScreens => open # Closed
                      /\ t[i].kind = "transfer" => d[open.name].there /\ t[i].of \in Rows
                      /\ t[i].kind = "set-password" => t[i].of = h
    BY DEF Given
  <2>1. CASE i \in DOMAIN s
    BY <1>1, <2>1 DEF Given
  <2>2. CASE i \notin DOMAIN s
    BY <1>1, <2>2
  <2>. QED
    BY <2>1, <2>2
<1>. QED
  BY <1>3, <1>4 DEF t

\* Below a screen that covers none that relies on a context there is no such screen.
LEMMA NothingCovered ==
    ASSUME NEW s \in Seq(Frame), s # <<>>, Covered(s), Last(s).kind \notin {"transfer", "hub"}
    PROVE  \A i \in DOMAIN s : i # Len(s) => s[i].kind \notin Working
<1>1. Len(s) \in Nat \ {0} /\ DOMAIN s = 1..Len(s) /\ Last(s) = s[Len(s)]
  BY ShownStack
<1>. QED
  BY <1>1 DEF Covered

\* Then any context may be opened or closed as that screen is replaced by one that relies
\* on none.
LEMMA ReplacedKeeps ==
    ASSUME NEW s \in Seq(Frame), s # <<>>, Covered(s), Last(s).kind \notin {"transfer", "hub"},
           NEW f \in Frame, f.kind \notin Working, NEW open, NEW d, NEW h
    PROVE  Covered(Append(Front(s), f)) /\ Given(Append(Front(s), f), open, d, h)
<1> DEFINE t == Append(Front(s), f)
<1>1. /\ DOMAIN t = 1..Len(s) /\ DOMAIN s = 1..Len(s)
      /\ \A i \in 1..Len(s) : t[i] = IF i = Len(s) THEN f ELSE s[i]
  BY ReplacedStack, ShownStack
<1> HIDE DEF t
<1>2. \A i \in DOMAIN t : t[i].kind \notin Working
  BY <1>1, NothingCovered
<1>3. Covered(t)
  BY <1>2 DEF Covered
<1>4. Given(t, open, d, h)
  BY <1>2 DEF Given, Working, RowScreens
<1>. QED
  BY <1>3, <1>4 DEF t

(***************************************************************************)
(* The contexts on disk, and the sessions.                                 *)
(***************************************************************************)

LEMMA SessionFacts ==
    ASSUME NEW s \in Session
    PROVE  /\ s.locked \in BOOLEAN /\ s.name \in Contexts \cup {None}
           /\ s # Closed <=> s.name \in Contexts
           /\ s # Closed => s = [name |-> s.name, locked |-> s.locked]
<1>1. CASE s = Closed
  BY <1>1, TerminalAssumption DEF Closed
<1>2. CASE s # Closed
  <2>1. s \in [name : Contexts, locked : BOOLEAN]
    BY <1>2 DEF Session
  <2>. QED
    BY <1>2, <2>1
<1>. QED
  BY <1>1, <1>2

\* What one context on disk becomes when it is written.
LEMMA DiskChanges ==
    ASSUME NEW d, DiskOK(d), NEW c \in Contexts, NEW x \in Store,
           ~x.there => x = Absent, x.locked => x.file = x.rows
    PROVE  DiskOK([d EXCEPT ![c] = x])
  BY DEF DiskOK

\* A checkpoint writes no row, and moves no context.
LEMMA CheckpointKeeps ==
    ASSUME NEW d, DiskOK(d), NEW s \in Session
    PROVE  /\ DiskOK(Checkpointed(d, s))
           /\ \A c \in Contexts : /\ Checkpointed(d, s)[c].there = d[c].there
                                  /\ Checkpointed(d, s)[c].locked = d[c].locked
                                  /\ Checkpointed(d, s)[c].sound = d[c].sound
                                  /\ Checkpointed(d, s)[c].rows = d[c].rows
           /\ \A c \in Contexts : Checkpointed(d, s)[c].file = d[c].file \/ Checkpointed(d, s)[c].file = d[c].rows
<1>1. CASE s # Closed /\ ~s.locked
  <2> DEFINE x == [d[s.name] EXCEPT !.file = d[s.name].rows]
  <2>1. s.name \in Contexts
    BY <1>1, SessionFacts
  <2>2. d[s.name] \in Store /\ d \in [Contexts -> Store]
    BY <2>1 DEF DiskOK
  <2>3. /\ x \in Store /\ x.there = d[s.name].there /\ x.locked = d[s.name].locked
        /\ x.sound = d[s.name].sound /\ x.rows = d[s.name].rows /\ x.file = d[s.name].rows
    BY <2>2 DEF Store
  <2>4. ~x.there => x = Absent
    <3> SUFFICES ASSUME ~x.there PROVE x = Absent
      OBVIOUS
    <3>1. d[s.name] = Absent
      BY <2>1, <2>3 DEF DiskOK
    <3>. QED
      BY <3>1 DEF Absent
  <2>5. Checkpointed(d, s) = [d EXCEPT ![s.name] = x]
    BY <1>1, <2>1, <2>2 DEF Checkpointed
  <2>6. DiskOK([d EXCEPT ![s.name] = x])
    BY <2>1, <2>3, <2>4, DiskChanges
  <2>. QED
    BY <2>1, <2>2, <2>3, <2>5, <2>6
<1>2. CASE ~(s # Closed /\ ~s.locked)
  BY <1>2 DEF Checkpointed
<1>. QED
  BY <1>1, <1>2

\* Opening gives the store that is there, or nothing.
LEMMA OpenOfFacts ==
    ASSUME NEW d, DiskOK(d), NEW c \in Contexts
    PROVE  /\ OpenOf(d, c) \in Session
           /\ OpenOf(d, c) # Closed <=> Opens(d, c)
           /\ OpenOf(d, c) # Closed => /\ OpenOf(d, c).name = c
                                       /\ OpenOf(d, c).locked = d[c].locked
                                       /\ d[c].there /\ d[c].sound
           /\ StrayOf(d, c) \subseteq {"terminal"} \X Contexts
<1>1. d[c].locked \in BOOLEAN
  BY DEF DiskOK, Store
<1>2. CASE Opens(d, c)
  <2>1. OpenOf(d, c) = [name |-> c, locked |-> d[c].locked] /\ d[c].there /\ d[c].sound
    BY <1>2 DEF OpenOf, Opens
  <2>2. OpenOf(d, c) # Closed
    BY <2>1, TerminalAssumption DEF Closed
  <2>. QED
    BY <1>1, <1>2, <2>1, <2>2 DEF Session, StrayOf
<1>3. CASE ~Opens(d, c)
  BY <1>3 DEF OpenOf, StrayOf, Session
<1>. QED
  BY <1>2, <1>3

LEMMA CopyFacts ==
    ASSUME NEW s \in Session, NEW process
    PROVE  Copy(process, s) \subseteq {process} \X Contexts
  BY SessionFacts DEF Copy

(***************************************************************************)
(* What a step has to keep, by the part of the state it changes.           *)
(***************************************************************************)

\* What the runs check follows.
LEMMA IInvImplies == IInv => TypeOK /\ HeaderTellsContext /\ CopiesFollowSessions
<1> SUFFICES ASSUME IInv PROVE TypeOK /\ HeaderTellsContext /\ CopiesFollowSessions
  OBVIOUS
<1>1. TypeOK
  <2>1. copies \subseteq {"terminal", "cli"} \X Contexts /\ left \subseteq copies
    BY CopyFacts DEF IInv, CopiesOK
  <2>. QED
    BY <2>1 DEF IInv, TypeOK, DiskOK, StackOK, PageOK, Pages, HeaderOK, Frame
<1>2. HeaderTellsContext
  <2>1. Len(stack) \in DOMAIN stack /\ Last(stack) = stack[Len(stack)]
    BY ShownStack DEF IInv, StackOK
  <2>. QED
    BY <2>1 DEF IInv, StackOK, Given, HeaderTellsContext, HeaderOK, Top
<1>3. CopiesFollowSessions
  BY DEF IInv, CopiesOK, CopiesFollowSessions
<1>. QED
  BY <1>1, <1>2, <1>3

\* A screen is shown: its state is new unless it was shown already.
LEMMA DrawnPage ==
    ASSUME IInv, NEW s, Draw(s)
    PROVE  PageOK(page')
<1>1. PageOK(Page)
  BY DEF Page, PageOK, Pages
<1>. QED
  BY <1>1 DEF IInv, Draw

\* The copies after the session was changed.
LEMMA CopiesBecome ==
    ASSUME IInv, NEW s \in Session, NEW d, NEW strays, strays \subseteq {"terminal"} \X Contexts,
           SessionBecomes(s, d, strays), cli' = cli
    PROVE  CopiesOK(copies', left', session', cli')
<1>1. /\ copies' = (copies \ (Copy("terminal", session) \ left)) \cup Copy("terminal", s) \cup strays
      /\ left' = left \cup strays /\ session' = s
  BY DEF SessionBecomes
<1>2. copies = left \cup Copy("terminal", session) \cup Copy("cli", cli) /\ left \subseteq {"terminal", "cli"} \X Contexts
  BY DEF IInv, CopiesOK
<1>3. Copy("terminal", session) \cap Copy("cli", cli) = {}
  <2>1. Copy("terminal", session) \subseteq {"terminal"} \X Contexts
    BY CopyFacts DEF IInv
  <2>2. Copy("cli", cli) \subseteq {"cli"} \X Contexts
    BY CopyFacts DEF IInv
  <2>. QED
    BY <2>1, <2>2
<1>4. copies' = left' \cup Copy("terminal", s) \cup Copy("cli", cli)
  BY <1>1, <1>2, <1>3
<1>. QED
  BY <1>1, <1>2, <1>4 DEF CopiesOK

\* Steps that move the stack of screens, and nothing else.
StackMoves ==
    /\ UNCHANGED <<disk, session, header, cli, copies, left, crashes>>
    /\ pending' \subseteq {"connect", "rollback"}

LEMMA StackStep ==
    ASSUME IInv, StackMoves, StackOK(stack', session, disk, header), PageOK(page')
    PROVE  IInv'
  BY DEF IInv, StackMoves

LEMMA PushStep ==
    ASSUME IInv, StackMoves, NEW f \in Frame, Draw(Append(stack, f)),
           \/ f.kind \in {"transfer", "hub"}
           \/ Top \notin Working \cup {"hub"},
           f.kind \in RowScreens => session # Closed,
           f.kind = "transfer" => disk[session.name].there /\ f.of \in Rows,
           f.kind = "set-password" => f.of = header
    PROVE  IInv'
<1>1. StackOK(Append(stack, f), session, disk, header)
  BY PushedStack, PushedKeeps DEF IInv, StackOK, Top
<1>2. stack' = Append(stack, f) /\ PageOK(page')
  BY DrawnPage DEF Draw
<1>. QED
  BY <1>1, <1>2, StackStep

LEMMA PopStep ==
    ASSUME IInv, StackMoves, Draw(Popped(stack)) \/ Draw(Popped(Popped(stack)))
    PROVE  IInv'
<1>1. ASSUME NEW s, StackOK(s, session, disk, header)
      PROVE  StackOK(Popped(s), session, disk, header)
  BY <1>1, PoppedStack, PoppedKeeps DEF StackOK
<1>2. StackOK(stack', session, disk, header)
  BY <1>1 DEF IInv, Draw
<1>3. PageOK(page')
  BY DrawnPage
<1>. QED
  BY <1>2, <1>3, StackStep

\* Steps that change the session, by SessionBecomes.
LEMMA SessionStep ==
    ASSUME IInv, NEW s \in Session, NEW d, DiskOK(d),
           NEW strays, strays \subseteq {"terminal"} \X Contexts,
           SessionBecomes(s, d, strays), UNCHANGED <<cli, crashes>>,
           pending' \subseteq {"connect", "rollback"},
           OpenOK(s, d), CliOK(cli, d), HeaderOK(header', s),
           StackOK(stack', s, d, header'), PageOK(page')
    PROVE  IInv'
<1> DEFINE e == Checkpointed(d, session)
<1>1. /\ DiskOK(e)
      /\ \A c \in Contexts : e[c].there = d[c].there /\ e[c].locked = d[c].locked /\ e[c].sound = d[c].sound
  BY CheckpointKeeps DEF IInv
<1>2. disk' = e /\ session' = s
  BY DEF SessionBecomes
<1>3. CopiesOK(copies', left', session', cli')
  BY CopiesBecome
<1>4. /\ s # Closed => s.name \in Contexts
      /\ cli # Closed => cli.name \in Contexts
  BY SessionFacts DEF IInv
<1> HIDE DEF e
<1>5. OpenOK(s, e) /\ CliOK(cli, e)
  BY <1>1, <1>4 DEF OpenOK, CliOK
<1>6. StackOK(stack', s, e, header')
  BY <1>1, <1>4 DEF StackOK, Given, RowScreens
<1>. QED
  BY <1>1, <1>2, <1>3, <1>5, <1>6 DEF IInv

\* Steps that write a context; the context open, and that of the command line, stay.
LEMMA DiskStep ==
    ASSUME IInv, DiskOK(disk'), OpenOK(session, disk'), CliOK(cli, disk'),
           StackOK(stack', session, disk', header), PageOK(page'),
           UNCHANGED <<session, header, pending, cli, copies, left, crashes>>
    PROVE  IInv'
  BY DEF IInv

\* Rows are written to a context that is there.
LEMMA RowsStep ==
    ASSUME IInv, NEW c \in Contexts, NEW x \in Store, disk[c].there,
           x.there, x.locked = disk[c].locked, x.sound = disk[c].sound, x.locked => x.file = x.rows,
           disk' = [disk EXCEPT ![c] = x], UNCHANGED <<terminal, cli, copies, left, crashes>>
    PROVE  IInv'
<1>1. DiskOK(disk')
  BY DiskChanges DEF IInv
<1>2. \A k \in Contexts : /\ disk'[k].there = disk[k].there /\ disk'[k].locked = disk[k].locked
                          /\ disk'[k].sound = disk[k].sound
  BY DEF IInv, DiskOK
<1>3. /\ session # Closed => session.name \in Contexts
      /\ cli # Closed => cli.name \in Contexts
  BY SessionFacts DEF IInv
<1>4. OpenOK(session, disk') /\ CliOK(cli, disk')
  BY <1>2, <1>3 DEF IInv, OpenOK, CliOK
<1>5. StackOK(stack, session, disk', header)
  BY <1>2, <1>3 DEF IInv, StackOK, Given, RowScreens
<1>. QED
  BY <1>1, <1>4, <1>5, DiskStep DEF IInv, terminal

\* A screen that covers none that needs an open context stays as any context is opened,
\* closed or deleted.
LEMMA BareStack ==
    ASSUME NEW s, NEW open, NEW d, NEW h, StackOK(s, open, d, h),
           Last(s).kind \notin RowScreens \cup {"hub"}, NEW opened, NEW e
    PROVE  StackOK(s, opened, e, h)
<1>1. \A i \in DOMAIN s : s[i].kind \notin RowScreens
  <2>1. \A i \in DOMAIN s : i # Len(s) => s[i].kind \notin Working
    BY NothingCovered DEF StackOK, RowScreens
  <2>2. Last(s) = s[Len(s)]
    BY ShownStack DEF StackOK
  <2>. QED
    BY <2>1, <2>2 DEF Working
<1>. QED
  BY <1>1 DEF StackOK, Given, RowScreens

\* The first screen.
LEMMA HomeFacts ==
    ASSUME NEW d
    PROVE  StackOK(Home, Closed, d, None) /\ PageOK(Page)
<1>1. Screen("contexts", None) \in Frame
  BY DEF Screen, Frame, Screens
<1>2. /\ Home \in Seq(Frame) /\ Home # <<>> /\ DOMAIN Home = {1} /\ Home[1].kind = "contexts"
  BY <1>1 DEF Home, Screen
<1>3. PageOK(Page)
  BY DEF Page, PageOK, Pages
<1>. QED
  BY <1>2, <1>3 DEF StackOK, Covered, Given, Working, RowScreens

\* Steps after which the program is at its first screen.
LEMMA RestartStep ==
    ASSUME IInv, Restarted, session' = Closed, UNCHANGED disk, UNCHANGED cli,
           CopiesOK(copies', left', session', cli'), crashes' \in 0..MaxCrashes
    PROVE  IInv'
<1>1. Closed \in Session
  BY DEF Session
<1>. QED
  BY <1>1, HomeFacts DEF IInv, Restarted, OpenOK, HeaderOK

(***************************************************************************)
(* Every action keeps the invariant.                                       *)
(***************************************************************************)

LEMMA InitIInv == Init => IInv
<1> SUFFICES ASSUME Init PROVE IInv
  OBVIOUS
<1>1. Absent \in Store
  BY DEF Absent, Store
<1>2. DiskOK(disk)
  BY <1>1 DEF Init, DiskOK, Absent
<1>3. StackOK(stack, session, disk, header)
  BY HomeFacts DEF Init
<1>4. PageOK(page)
  BY HomeFacts DEF Init
<1>5. CopiesOK(copies, left, session, cli)
  BY DEF Init, CopiesOK, Copy
<1>. QED
  BY <1>2, <1>3, <1>4, <1>5, TerminalAssumption DEF Init, IInv, Session, OpenOK, CliOK, HeaderOK

LEMMA FrameOf ==
    ASSUME NEW kind \in Screens, NEW of \in Contexts \cup Rows \cup {None}
    PROVE  Screen(kind, of) \in Frame /\ Screen(kind, of).kind = kind /\ Screen(kind, of).of = of
  BY DEF Screen, Frame

\* Steps that only move the stack.

LEMMA PushUnlockKeeps ==
    ASSUME IInv, NEW c \in Contexts, PushUnlock(c)
    PROVE  IInv'
<1>1. StackMoves /\ Draw(Append(stack, Screen("unlock", c))) /\ Top = "contexts"
  BY DEF PushUnlock, Push, StackMoves, IInv
<1>2. /\ Screen("unlock", c) \in Frame
      /\ Screen("unlock", c).kind = "unlock"
  BY FrameOf DEF Screens
<1>. QED
  BY <1>1, <1>2, PushStep DEF Working, RowScreens

LEMMA EnterKeeps ==
    ASSUME IInv, NEW screen \in {"rows", "import-context", "export-context", "import-bundle", "hub"},
           Enter(screen)
    PROVE  IInv'
<1>1. /\ StackMoves /\ Draw(Append(stack, Screen(screen, None))) /\ Top \in {"main", "contexts"}
      /\ screen \in RowScreens => session # Closed
  BY DEF Enter, Push, StackMoves, IInv
<1>2. /\ Screen(screen, None) \in Frame
      /\ Screen(screen, None).kind = screen
  BY FrameOf DEF Screens, RowScreens
<1>. QED
  BY <1>1, <1>2, PushStep DEF Working, RowScreens

LEMMA EnterSetPasswordKeeps ==
    ASSUME IInv, EnterSetPassword
    PROVE  IInv'
<1>1. StackMoves /\ Draw(Append(stack, Screen("set-password", header))) /\ Top = "main"
  BY DEF EnterSetPassword, Push, StackMoves, IInv
<1>2. /\ Screen("set-password", header) \in Frame
      /\ Screen("set-password", header).kind = "set-password"
      /\ Screen("set-password", header).of = header
  BY FrameOf DEF Screens, IInv, HeaderOK
<1>. QED
  BY <1>1, <1>2, PushStep DEF Working, RowScreens

LEMMA EnterTransferKeeps ==
    ASSUME IInv, NEW r \in Rows, EnterTransfer(r)
    PROVE  IInv'
<1>1. /\ StackMoves /\ Draw(Append(stack, Screen("transfer", r)))
      /\ session # Closed /\ r \in disk[session.name].rows
  BY DEF EnterTransfer, Push, StackMoves, IInv
<1>2. /\ Screen("transfer", r) \in Frame
      /\ Screen("transfer", r).kind = "transfer" /\ Screen("transfer", r).of = r
  BY FrameOf DEF Screens, RowScreens
<1>3. disk[session.name].there
  <2>1. session.name \in Contexts
    BY <1>1, SessionFacts DEF IInv
  <2>2. Absent.rows = {}
    BY DEF Absent
  <2>. QED
    BY <1>1, <2>1, <2>2 DEF IInv, DiskOK
<1>. QED
  BY <1>1, <1>2, <1>3, PushStep

LEMMA BackKeeps ==
    ASSUME IInv, Back \/ ExportContext
    PROVE  IInv'
<1>1. StackMoves /\ (Draw(Popped(stack)) \/ Draw(Popped(Popped(stack))))
  BY DEF Back, ExportContext, StackMoves, IInv
<1>. QED
  BY <1>1, PopStep

LEMMA AskHubKeeps ==
    ASSUME IInv, NEW what \in {"connect", "rollback"}, AskHub(what)
    PROVE  IInv'
<1>1. StackMoves /\ UNCHANGED <<stack, page>>
  BY DEF AskHub, StackMoves, IInv
<1>. QED
  BY <1>1, StackStep DEF IInv

LEMMA HubAnswersKeeps ==
    ASSUME IInv, NEW what \in {"connect", "rollback"}, HubAnswers(what)
    PROVE  IInv'
<1>1. StackMoves
  BY DEF HubAnswers, StackMoves, IInv
<1>2. CASE UNCHANGED <<stack, page>>
  BY <1>1, <1>2, StackStep DEF IInv
<1>3. CASE Draw(Append(stack, Screen("hub", None)))
  <2>1. Screen("hub", None) \in Frame /\ Screen("hub", None).kind = "hub"
    BY FrameOf DEF Screens
  <2>. QED
    BY <1>1, <1>3, <2>1, PushStep DEF RowScreens
<1>4. CASE Draw(Popped(stack))
  BY <1>1, <1>4, PopStep
<1>. QED
  BY <1>2, <1>3, <1>4 DEF HubAnswers

\* Steps within a screen.
LEMMA PageKeeps ==
    ASSUME IInv, \/ \E c \in Contexts : AskDelete(c) \/ PickTarget(c)
                 \/ StepBack \/ SendToContext \/ UnlockTarget
    PROVE  IInv'
<1>1. StackMoves /\ stack' = stack
  BY DEF AskDelete, PickTarget, StepBack, SendToContext, UnlockTarget, TransferStep, StackMoves, IInv
<1>2. PageOK(page')
  <2>1. CASE \E c \in Contexts : AskDelete(c) \/ PickTarget(c)
    BY <2>1 DEF AskDelete, PickTarget, TransferStep, PageOK, Pages
  <2>2. CASE StepBack
    BY <2>2 DEF StepBack, Page, PageOK, Pages
  <2>3. CASE SendToContext
    BY <2>3 DEF SendToContext, TransferStep, PageOK, Pages
  <2>4. CASE UnlockTarget
    BY <2>4 DEF UnlockTarget, TransferStep, PageOK, Pages, IInv
  <2>. QED
    BY <2>1, <2>2, <2>3, <2>4
<1>. QED
  BY <1>1, <1>2, StackStep DEF IInv

\* Steps that write a context.

LEMMA NewStore ==
    ASSUME NEW locked \in BOOLEAN
    PROVE  /\ Absent \in Store /\ New(locked) \in Store
           /\ New(locked).there /\ New(locked).sound /\ New(locked).locked = locked
           /\ New(locked).file = New(locked).rows
  BY DEF New, Absent, Store

\* A context that is not there, and not open, is made.
LEMMA MadeKeeps ==
    ASSUME IInv, NEW c \in Contexts, Free(c), NEW x \in Store, x.there, x.locked => x.file = x.rows,
           disk' = [disk EXCEPT ![c] = x],
           UNCHANGED <<session, header, pending, cli, copies, left, crashes>>,
           UNCHANGED <<stack, page>> \/ Draw(Popped(stack))
    PROVE  IInv'
<1>1. DiskOK(disk')
  BY DiskChanges DEF IInv
<1>2. \A k \in Contexts : disk[k].there => disk'[k] = disk[k]
  BY DEF IInv, DiskOK, Free, Opened
<1>3. /\ session # Closed => session.name \in Contexts
      /\ cli # Closed => cli.name \in Contexts
  BY SessionFacts DEF IInv
<1>4. session # Closed => disk'[session.name] = disk[session.name]
  BY <1>3 DEF IInv, DiskOK, Free
<1>5. OpenOK(session, disk') /\ CliOK(cli, disk')
  BY <1>2, <1>3, <1>4 DEF IInv, OpenOK, CliOK
<1>6. StackOK(stack, session, disk', header)
  BY <1>4 DEF IInv, StackOK, Given, RowScreens
<1>7. StackOK(Popped(stack), session, disk', header)
  BY <1>6, PoppedStack, PoppedKeeps DEF StackOK
<1>8. StackOK(stack', session, disk', header) /\ PageOK(page')
  BY <1>6, <1>7, DrawnPage DEF Draw, IInv
<1>. QED
  BY <1>1, <1>5, <1>8, DiskStep

LEMMA CreateContextKeeps ==
    ASSUME IInv, NEW c \in Contexts, NEW locked \in BOOLEAN, CreateContext(c, locked)
    PROVE  IInv'
<1>1. /\ Free(c) /\ disk' = [disk EXCEPT ![c] = New(locked)]
      /\ UNCHANGED <<session, header, pending, cli, copies, left, crashes>> /\ UNCHANGED <<stack, page>>
  BY DEF CreateContext, terminal
<1>. QED
  BY <1>1, NewStore, MadeKeeps

LEMMA ImportContextKeeps ==
    ASSUME IInv, NEW c \in Contexts, NEW locked \in BOOLEAN, NEW store \in Store,
           store.there, store.rows = store.file, ImportContext(c, locked, store)
    PROVE  IInv'
<1> DEFINE x == [store EXCEPT !.locked = locked]
<1>1. Free(c) /\ UNCHANGED <<session, header, pending, cli, copies, left, crashes>>
  BY DEF ImportContext
<1>2. \/ disk' = [disk EXCEPT ![c] = New(locked)] /\ UNCHANGED <<stack, page>>
      \/ disk' = [disk EXCEPT ![c] = x] /\ Draw(Popped(stack))
  BY DEF ImportContext
<1>3. x \in Store /\ x.there /\ x.file = x.rows
  BY DEF Store
<1>. QED
  BY <1>1, <1>2, <1>3, NewStore, MadeKeeps

LEMMA ConfirmDeleteKeeps ==
    ASSUME IInv, ConfirmDelete
    PROVE  IInv'
<1> DEFINE c == page.target
<1>1. /\ c \in Contexts /\ cli.name # c /\ Top = "contexts"
      /\ disk' = [disk EXCEPT ![c] = Absent] /\ page' = Page /\ stack' = stack
      /\ UNCHANGED <<session, header, pending, cli, copies, left, crashes>>
  BY DEF ConfirmDelete, IInv, PageOK
<1> HIDE DEF c
<1>2. DiskOK(disk')
  <2>1. Absent \in Store /\ (Absent.locked => Absent.file = Absent.rows)
    BY DEF Absent, Store
  <2>. QED
    BY <1>1, <2>1, DiskChanges DEF IInv
<1>3. \A k \in Contexts : k # c => disk'[k] = disk[k]
  BY <1>1 DEF IInv, DiskOK
<1>4. /\ session # Closed => session.name \in Contexts
      /\ cli # Closed => cli.name \in Contexts
  BY SessionFacts DEF IInv
<1>5. ~disk'[c].there
  BY <1>1 DEF IInv, DiskOK, Absent
<1>6. OpenOK(session, disk') /\ CliOK(cli, disk')
  BY <1>1, <1>3, <1>4, <1>5 DEF IInv, OpenOK, CliOK
<1>7. StackOK(stack', session, disk', header)
  BY <1>1, BareStack DEF IInv, Top, RowScreens
<1>8. PageOK(page')
  BY <1>1 DEF Page, PageOK, Pages
<1>. QED
  BY <1>1, <1>2, <1>6, <1>7, <1>8, DiskStep

LEMMA WroteKeeps ==
    ASSUME IInv, NEW rows \in SUBSET Rows, session # Closed, Opened(session.name), Wrote(rows),
           UNCHANGED <<terminal, cli, copies, left, crashes>>
    PROVE  IInv'
<1> DEFINE c == session.name
           x == [disk[c] EXCEPT !.rows = rows, !.file = IF session.locked THEN rows ELSE @]
<1>1. c \in Contexts
  BY SessionFacts DEF IInv
<1>2. disk[c].there /\ disk[c].locked = session.locked /\ disk[c] \in Store /\ disk \in [Contexts -> Store]
  BY <1>1 DEF Opened, IInv, OpenOK, DiskOK
<1>3. /\ x \in Store /\ x.there /\ x.locked = disk[c].locked /\ x.sound = disk[c].sound
      /\ x.locked => x.file = x.rows
  BY <1>2 DEF Store
<1>4. disk' = [disk EXCEPT ![c] = x]
  BY <1>1, <1>2 DEF Wrote
<1> HIDE DEF c, x
<1>. QED
  BY <1>1, <1>2, <1>3, <1>4, RowsStep

LEMMA WriteKeeps ==
    ASSUME IInv, NEW r \in Rows, WriteRow(r) \/ ImportBundle(r)
    PROVE  IInv'
<1> DEFINE now == disk[session.name].rows
<1>1. session # Closed /\ Opened(session.name) /\ UNCHANGED <<terminal, cli, copies, left, crashes>>
  BY DEF WriteRow, ImportBundle
<1>2. Wrote(now \ {r}) \/ Wrote(now \cup {r})
  BY DEF WriteRow, ImportBundle
<1>3. now \in SUBSET Rows
  BY <1>1, SessionFacts DEF IInv, DiskOK, Store
<1> HIDE DEF now
<1>. QED
  BY <1>1, <1>2, <1>3, WroteKeeps

LEMMA CheckpointActionKeeps ==
    ASSUME IInv, Checkpoint
    PROVE  IInv'
<1> DEFINE c == session.name
           x == [disk[c] EXCEPT !.file = disk[c].rows]
<1>1. /\ session # Closed /\ disk[c].there /\ c \in Contexts
      /\ disk' = [disk EXCEPT ![c].file = disk[c].rows]
      /\ UNCHANGED <<terminal, cli, copies, left, crashes>>
  BY SessionFacts DEF Checkpoint, Checkpointed, Opened, IInv
<1>2. disk[c] \in Store /\ disk \in [Contexts -> Store]
  BY <1>1 DEF IInv, DiskOK
<1>3. /\ x \in Store /\ x.there /\ x.locked = disk[c].locked /\ x.sound = disk[c].sound /\ x.file = x.rows
  BY <1>1, <1>2 DEF Store
<1>4. disk' = [disk EXCEPT ![c] = x]
  BY <1>1, <1>2
<1> HIDE DEF c, x
<1>. QED
  BY <1>1, <1>3, <1>4, RowsStep

LEMMA CliImportKeeps ==
    ASSUME IInv, NEW r \in Rows, CliImport(r)
    PROVE  IInv'
<1> DEFINE c == cli.name
           x == [disk[c] EXCEPT !.rows = @ \cup {r}]
<1>1. /\ cli # Closed /\ c \in Contexts /\ (r \in disk[c].rows \/ ~cli.locked)
      /\ disk' = [disk EXCEPT ![c].rows = @ \cup {r}]
      /\ UNCHANGED <<terminal, cli, copies, left, crashes>>
  BY SessionFacts DEF CliImport, IInv
<1>2. disk[c] \in Store /\ disk \in [Contexts -> Store] /\ disk[c].there /\ disk[c].locked = cli.locked
  BY <1>1 DEF IInv, DiskOK, CliOK
<1>3. /\ x \in Store /\ x.there /\ x.locked = disk[c].locked /\ x.sound = disk[c].sound
      /\ x.file = disk[c].file /\ x.rows = disk[c].rows \cup {r}
  BY <1>1, <1>2 DEF Store
<1>4. x.locked => x.file = x.rows
  BY <1>1, <1>2, <1>3 DEF IInv, DiskOK
<1>5. disk' = [disk EXCEPT ![c] = x]
  BY <1>1, <1>2
<1> HIDE DEF c, x
<1>. QED
  BY <1>1, <1>2, <1>3, <1>4, <1>5, RowsStep

\* The command line.

LEMMA CliOpenKeeps ==
    ASSUME IInv, NEW c \in Contexts, CliOpen(c)
    PROVE  IInv'
<1> DEFINE opened == [name |-> c, locked |-> disk[c].locked]
           copy == IF disk[c].locked THEN {<<"cli", c>>} ELSE {}
<1>1. /\ cli = Closed /\ disk[c].there /\ copies' = copies \cup copy
      /\ UNCHANGED <<disk, session, header, stack, page, pending, crashes>>
  BY DEF CliOpen, Opened, terminal
<1>2. \/ cli' = opened /\ left' = left
      \/ cli' = Closed /\ left' = left \cup copy
  BY DEF CliOpen
<1>3. disk[c].locked \in BOOLEAN
  BY DEF IInv, DiskOK, Store
<1>4. opened \in Session /\ opened # Closed /\ Copy("cli", opened) = copy /\ Copy("cli", Closed) = {}
  BY <1>3, TerminalAssumption DEF Session, Closed, Copy
<1>5. copy \subseteq {"terminal", "cli"} \X Contexts
  OBVIOUS
<1>6. cli' \in Session /\ CliOK(cli', disk)
  BY <1>1, <1>2, <1>4 DEF CliOK, Session
<1> HIDE DEF opened, copy
<1>7. CopiesOK(copies', left', session, cli')
  BY <1>1, <1>2, <1>4, <1>5 DEF IInv, CopiesOK
<1>. QED
  BY <1>1, <1>6, <1>7 DEF IInv

LEMMA CliEndKeeps ==
    ASSUME IInv, CliClose \/ CliCrash
    PROVE  IInv'
<1>1. cli' = Closed /\ UNCHANGED <<session, header, stack, page, pending>>
  BY DEF CliClose, CliCrash, terminal
<1>2. Copy("terminal", session) \cap Copy("cli", cli) = {} /\ Copy("cli", Closed) = {}
      /\ Copy("cli", cli) \subseteq {"terminal", "cli"} \X Contexts
  <2>1. Copy("terminal", session) \subseteq {"terminal"} \X Contexts
    BY CopyFacts DEF IInv
  <2>2. Copy("cli", cli) \subseteq {"cli"} \X Contexts
    BY CopyFacts DEF IInv
  <2>. QED
    BY <2>1, <2>2 DEF Copy
<1>3. CopiesOK(copies', left', session, Closed)
  <2>1. \/ copies' = copies \ (Copy("cli", cli) \ left) /\ left' = left
        \/ copies' = copies /\ left' = left \cup Copy("cli", cli)
    BY DEF CliClose, CliCrash
  <2>. QED
    BY <1>2, <2>1 DEF IInv, CopiesOK
<1>4. crashes' \in 0..MaxCrashes
  BY TerminalAssumption DEF CliClose, CliCrash, IInv
<1>5. /\ DiskOK(disk')
      /\ \A c \in Contexts : /\ disk'[c].there = disk[c].there /\ disk'[c].locked = disk[c].locked
                             /\ disk'[c].sound = disk[c].sound
  BY CheckpointKeeps DEF IInv, CliClose, CliCrash
<1>6. session # Closed => session.name \in Contexts
  BY SessionFacts DEF IInv
<1>7. OpenOK(session, disk') /\ CliOK(Closed, disk') /\ StackOK(stack, session, disk', header)
  BY <1>5, <1>6 DEF IInv, OpenOK, CliOK, StackOK, Given, RowScreens
<1>8. Closed \in Session
  BY DEF Session
<1>. QED
  BY <1>1, <1>3, <1>4, <1>5, <1>7, <1>8 DEF IInv

\* Steps that open or close the context of the terminal.

LEMMA FrameMain ==
    /\ Screen("main", None) \in Frame /\ Screen("main", None).kind \notin Working
    /\ Screen("contexts", None) \in Frame /\ Screen("contexts", None).kind \notin Working
  BY DEF Frame, Screen, Screens, Working, RowScreens

LEMMA OpenContextKeeps ==
    ASSUME IInv, NEW c \in Contexts, OpenContext(c)
    PROVE  IInv'
<1> DEFINE s == OpenOf(disk, c)
<1>1. /\ Top \in {"contexts", "unlock"} /\ UNCHANGED <<pending, cli, crashes>>
      /\ SessionBecomes(s, disk, StrayOf(disk, c))
      /\ IF Opens(disk, c) THEN header' = c /\ Draw(Replaced("main")) ELSE UNCHANGED <<header, stack, page>>
  BY DEF OpenContext
<1>2. /\ s \in Session /\ (s # Closed <=> Opens(disk, c))
      /\ s # Closed => s.name = c /\ s.locked = disk[c].locked /\ disk[c].sound
      /\ StrayOf(disk, c) \subseteq {"terminal"} \X Contexts
  BY OpenOfFacts DEF IInv
<1> HIDE DEF s
<1>3. OpenOK(s, disk) /\ HeaderOK(header', s)
  BY <1>1, <1>2 DEF OpenOK, HeaderOK, IInv
<1>4. StackOK(stack', s, disk, header')
  <2>1. StackOK(Replaced("main"), s, disk, c)
    BY <1>1, FrameMain, ReplacedStack, ReplacedKeeps DEF IInv, StackOK, Replaced, Top
  <2>2. StackOK(stack, s, disk, header)
    BY <1>1, BareStack DEF IInv, Top, RowScreens
  <2>. QED
    BY <1>1, <2>1, <2>2 DEF Draw
<1>5. PageOK(page')
  BY <1>1, DrawnPage DEF IInv
<1>. QED
  BY <1>1, <1>2, <1>3, <1>4, <1>5, SessionStep DEF IInv

LEMMA ClosedFacts ==
    ASSUME NEW d, NEW h \in Contexts \cup {None}
    PROVE  Closed \in Session /\ OpenOK(Closed, d) /\ HeaderOK(h, Closed)
  BY DEF Session, OpenOK, HeaderOK

LEMMA SwitchContextKeeps ==
    ASSUME IInv, SwitchContext
    PROVE  IInv'
<1>1. /\ Top = "main" /\ SessionBecomes(Closed, disk, {}) /\ header' = None
      /\ Draw(Replaced("contexts")) /\ UNCHANGED <<pending, cli, crashes>>
  BY DEF SwitchContext
<1>2. StackOK(stack', Closed, disk, None)
  BY <1>1, FrameMain, ReplacedStack, ReplacedKeeps DEF IInv, StackOK, Replaced, Top, Draw
<1>3. PageOK(page')
  BY <1>1, DrawnPage
<1>. QED
  BY <1>1, <1>2, <1>3, ClosedFacts, SessionStep DEF IInv

LEMMA SetPasswordRefusedKeeps ==
    ASSUME IInv, SetPasswordRefused
    PROVE  IInv'
<1>1. /\ Top = "set-password" /\ SessionBecomes(Closed, disk, {})
      /\ UNCHANGED <<header, stack, page, pending, cli, crashes>>
  BY DEF SetPasswordRefused
<1>2. StackOK(stack', Closed, disk, header')
  BY <1>1, BareStack DEF IInv, Top, RowScreens
<1>3. header \in Contexts \cup {None}
  BY DEF IInv, HeaderOK
<1>. QED
  BY <1>1, <1>2, <1>3, ClosedFacts, SessionStep DEF IInv

\* The store whose password is set: there, sound, and without the rows of a lost log.
PasswordSet(d, c, locked) ==
    [d EXCEPT ![c].locked = locked, ![c].rows = IF locked THEN d[c].file ELSE @]

LEMMA PasswordSetFacts ==
    ASSUME NEW d, DiskOK(d), NEW c \in Contexts, d[c].there, d[c].sound, NEW locked \in BOOLEAN
    PROVE  /\ DiskOK(PasswordSet(d, c, locked))
           /\ PasswordSet(d, c, locked)[c].there /\ PasswordSet(d, c, locked)[c].sound
           /\ PasswordSet(d, c, locked)[c].locked = locked
           /\ PasswordSet(d, c, locked)[c].rows = IF locked THEN d[c].file ELSE d[c].rows
           /\ \A k \in Contexts : k # c => PasswordSet(d, c, locked)[k] = d[k]
<1> DEFINE x == [d[c] EXCEPT !.locked = locked, !.rows = IF locked THEN d[c].file ELSE @]
<1>1. d[c] \in Store /\ d \in [Contexts -> Store]
  BY DEF DiskOK
<1>2. /\ x \in Store /\ x.there /\ x.sound /\ x.locked = locked /\ (x.locked => x.file = x.rows)
      /\ x.rows = IF locked THEN d[c].file ELSE d[c].rows
  BY <1>1 DEF Store
<1>3. PasswordSet(d, c, locked) = [d EXCEPT ![c] = x]
  BY <1>1 DEF PasswordSet
<1> HIDE DEF x
<1>4. DiskOK([d EXCEPT ![c] = x])
  BY <1>2, DiskChanges
<1>5. [d EXCEPT ![c] = x][c] = x /\ \A k \in Contexts : k # c => [d EXCEPT ![c] = x][k] = d[k]
  BY <1>1
<1>. QED
  BY <1>2, <1>3, <1>4, <1>5

LEMMA SetPasswordKeeps ==
    ASSUME IInv, NEW locked \in BOOLEAN, SetPassword(locked)
    PROVE  IInv'
<1> DEFINE c == Of
           e == Checkpointed(disk, session)
           d == PasswordSet(e, c, locked)
           s == OpenOf(d, c)
<1>1. /\ Top = "set-password" /\ c # None /\ Opened(c) /\ disk[c].sound /\ cli.name # c
      /\ SessionBecomes(s, d, {}) /\ header' = c /\ Draw(Replaced("main"))
      /\ UNCHANGED <<pending, cli, crashes>>
  BY DEF SetPassword, PasswordSet
<1>2. c \in Contexts
  <2>1. Last(stack) = stack[Len(stack)] /\ Len(stack) \in DOMAIN stack
    BY ShownStack DEF IInv, StackOK
  <2>2. c = header
    BY <1>1, <2>1 DEF Top, Of, IInv, StackOK, Given
  <2>. QED
    BY <1>1, <2>2 DEF IInv, HeaderOK
<1> HIDE DEF c, s
<1>3. /\ DiskOK(d) /\ d[c].there /\ d[c].sound /\ d[c].locked = locked
      /\ \A k \in Contexts : k # c => d[k] = e[k]
  <2>1. DiskOK(e) /\ e[c].there /\ e[c].sound
    BY <1>1, <1>2, CheckpointKeeps DEF IInv, Opened
  <2> HIDE DEF e
  <2>. QED
    BY <1>2, <2>1, PasswordSetFacts
<1> HIDE DEF d
<1>4. /\ s \in Session /\ (s # Closed => s.name = c /\ s.locked = d[c].locked /\ d[c].sound)
  BY <1>2, <1>3, OpenOfFacts DEF s
<1>5. OpenOK(s, d) /\ HeaderOK(header', s)
  BY <1>1, <1>2, <1>4 DEF OpenOK, HeaderOK
<1>6. CliOK(cli, d)
  <2>1. cli # Closed => cli.name \in Contexts
    BY SessionFacts DEF IInv
  <2>2. \A k \in Contexts : e[k].there = disk[k].there /\ e[k].locked = disk[k].locked
    BY CheckpointKeeps DEF IInv
  <2>. QED
    BY <1>1, <1>3, <2>1, <2>2 DEF CliOK, IInv
<1>7. StackOK(stack', s, d, header')
  BY <1>1, FrameMain, ReplacedStack, ReplacedKeeps DEF IInv, StackOK, Replaced, Top, Draw
<1>8. PageOK(page')
  BY <1>1, DrawnPage
<1>. QED
  BY <1>1, <1>3, <1>4, <1>5, <1>6, <1>7, <1>8, SessionStep DEF IInv

\* A row that is sent is written to one context.
LEMMA SentFacts ==
    ASSUME NEW d, DiskOK(d), NEW c \in Contexts, NEW r \in Rows
    PROVE  /\ DiskOK(Sent(d, c, r))
           /\ \A k \in Contexts : /\ Sent(d, c, r)[k].there = d[k].there
                                  /\ Sent(d, c, r)[k].locked = d[k].locked
                                  /\ Sent(d, c, r)[k].sound = d[k].sound
                                  /\ k # c => Sent(d, c, r)[k] = d[k]
<1> DEFINE x == [d[c] EXCEPT !.rows = @ \cup {r}, !.file = d[c].rows \cup {r}]
<1>1. d[c] \in Store /\ d \in [Contexts -> Store]
  BY DEF DiskOK
<1>2. CASE Arrives(d, c, r)
  <2>1. x \in Store /\ x.there /\ x.locked = d[c].locked /\ x.sound = d[c].sound /\ x.file = x.rows
        /\ x.there = d[c].there
    BY <1>1, <1>2 DEF Store, Arrives, Opens
  <2>2. Sent(d, c, r) = [d EXCEPT ![c] = x]
    BY <1>1, <1>2 DEF Sent
  <2> HIDE DEF x
  <2>3. DiskOK([d EXCEPT ![c] = x])
    BY <2>1, DiskChanges
  <2>. QED
    BY <1>1, <2>1, <2>2, <2>3
<1>3. CASE ~Arrives(d, c, r)
  BY <1>3 DEF Sent
<1>. QED
  BY <1>2, <1>3

LEMMA TransferKeeps ==
    ASSUME IInv, Transfer
    PROVE  IInv'
<1> DEFINE c == session.name
           e == Checkpointed(disk, session)
           d == Sent(e, page.target, Of)
           s == OpenOf(d, c)
<1>1. /\ Top = "transfer" /\ page.step = "confirm" /\ session # Closed
      /\ SessionBecomes(s, d, StrayOf(disk, page.target))
      /\ header' = IF Opens(d, c) THEN c ELSE header
      /\ Draw(Popped(stack)) /\ UNCHANGED <<pending, cli, crashes>>
  BY DEF Transfer
<1>2. page.target \in Contexts /\ c \in Contexts
  BY <1>1, SessionFacts DEF IInv, PageOK
<1>3. Of \in Rows /\ disk[c].there
  <2>1. Last(stack) = stack[Len(stack)] /\ Len(stack) \in DOMAIN stack
    BY ShownStack DEF IInv, StackOK
  <2>. QED
    BY <1>1, <2>1 DEF Top, Of, IInv, StackOK, Given
<1>4. DiskOK(e) /\ \A k \in Contexts : /\ e[k].there = disk[k].there /\ e[k].locked = disk[k].locked
                                       /\ e[k].sound = disk[k].sound
  BY CheckpointKeeps DEF IInv
<1>5. DiskOK(d) /\ \A k \in Contexts : /\ d[k].there = disk[k].there /\ d[k].locked = disk[k].locked
                                       /\ d[k].sound = disk[k].sound
  BY <1>2, <1>3, <1>4, SentFacts
<1>6. StrayOf(disk, page.target) \subseteq {"terminal"} \X Contexts
  BY <1>2, OpenOfFacts DEF IInv
<1> HIDE DEF d
<1>7. Opens(d, c)
  BY <1>1, <1>2, <1>3, <1>5 DEF Opens, IInv, OpenOK
<1>8. s \in Session /\ s # Closed /\ s.name = c /\ s.locked = d[c].locked /\ d[c].sound
  BY <1>2, <1>5, <1>7, OpenOfFacts
<1> HIDE DEF s
<1>9. header' = header /\ header = c
  BY <1>1, <1>7 DEF IInv, HeaderOK
<1>10. OpenOK(s, d) /\ HeaderOK(header', s)
  BY <1>2, <1>8, <1>9 DEF OpenOK, HeaderOK
<1>11. CliOK(cli, d)
  BY <1>5, SessionFacts DEF CliOK, IInv
<1>12. StackOK(stack', s, d, header')
  <2>1. StackOK(stack, s, d, header)
    BY <1>2, <1>3, <1>5, <1>8 DEF IInv, StackOK, Given
  <2>. QED
    BY <1>1, <1>9, <2>1, PoppedStack, PoppedKeeps DEF StackOK, Draw
<1>13. PageOK(page')
  BY <1>1, DrawnPage
<1>. QED
  BY <1>1, <1>5, <1>6, <1>8, <1>10, <1>11, <1>12, <1>13, SessionStep DEF IInv

\* The end of the process.

LEMMA QuitKeeps ==
    ASSUME IInv, Quit
    PROVE  IInv'
<1>1. SessionBecomes(Closed, disk, {}) /\ Restarted /\ UNCHANGED <<cli, crashes>>
  BY DEF Quit
<1>2. /\ header' = None /\ pending' = {} /\ page' = Page /\ stack' = Home
  BY <1>1 DEF Restarted
<1>3. StackOK(Home, Closed, disk, None) /\ PageOK(Page)
  BY HomeFacts
<1>. QED
  BY <1>1, <1>2, <1>3, ClosedFacts, SessionStep DEF IInv

LEMMA CrashKeeps ==
    ASSUME IInv, Crash \/ EnterThrows
    PROVE  IInv'
<1>1. /\ left' = left \cup Copy("terminal", session) /\ session' = Closed /\ Restarted
      /\ UNCHANGED <<disk, cli, copies>>
  BY DEF Crash, EnterThrows
<1>2. crashes' \in 0..MaxCrashes
  BY TerminalAssumption DEF Crash, EnterThrows, IInv
<1>3. CopiesOK(copies', left', session', cli')
  <2>1. Copy("terminal", session) \subseteq {"terminal"} \X Contexts /\ Copy("terminal", Closed) = {}
    BY CopyFacts DEF IInv, Copy
  <2>. QED
    BY <1>1, <2>1 DEF IInv, CopiesOK
<1>. QED
  BY <1>1, <1>2, <1>3, RestartStep

LEMMA NextIInv == IInv /\ [Next]_vars => IInv'
<1> SUFFICES ASSUME IInv, [Next]_vars PROVE IInv'
  OBVIOUS
<1>1. CASE ContextStep
  BY <1>1, OpenContextKeeps, PushUnlockKeeps, PageKeeps, CreateContextKeeps, ImportContextKeeps,
     ConfirmDeleteKeeps DEF ContextStep
<1>2. CASE WorkStep
  BY <1>2, SwitchContextKeeps, BackKeeps, CrashKeeps, PageKeeps, CheckpointActionKeeps, TransferKeeps,
     EnterKeeps, WriteKeeps, EnterTransferKeeps DEF WorkStep
<1>3. CASE PasswordStep
  BY <1>3, EnterSetPasswordKeeps, SetPasswordRefusedKeeps, SetPasswordKeeps DEF PasswordStep
<1>4. CASE HubStep
  BY <1>4, AskHubKeeps, HubAnswersKeeps DEF HubStep
<1>5. CASE CliStep
  BY <1>5, CliEndKeeps, CliOpenKeeps, CliImportKeeps DEF CliStep
<1>6. CASE Quit \/ Crash
  BY <1>6, QuitKeeps, CrashKeeps
<1>7. CASE UNCHANGED vars
  BY <1>7 DEF vars, terminal, IInv
<1>. QED
  BY <1>1, <1>2, <1>3, <1>4, <1>5, <1>6, <1>7 DEF Next

\* The inductive invariant holds in every state of every run.
THEOREM Invariance == Spec => []IInv
  BY InitIInv, NextIInv, PTL DEF Spec

(***************************************************************************)
(* Who writes the rows of a context.                                       *)
(***************************************************************************)

Rewritten(c) == disk[c].there /\ disk'[c].there /\ disk[c].rows # disk'[c].rows

\* Opening, closing and checkpoints write none.
LEMMA SessionsRewriteNone ==
    ASSUME IInv, NEW c \in Contexts,
           \/ \E k \in Contexts : OpenContext(k)
           \/ SwitchContext \/ SetPasswordRefused \/ Quit \/ CliClose \/ Checkpoint
    PROVE  ~Rewritten(c)
<1>1. \E s \in Session : disk' = Checkpointed(disk, s)
  BY DEF IInv, OpenContext, SwitchContext, SetPasswordRefused, Quit, CliClose, Checkpoint, SessionBecomes
<1>. QED
  BY <1>1, CheckpointKeeps DEF IInv, Rewritten

\* A context that is made, or deleted, was not there, or is there no more.
LEMMA FilesRewriteNone ==
    ASSUME IInv, NEW c \in Contexts,
           \/ \E k \in Contexts, locked \in BOOLEAN : CreateContext(k, locked)
           \/ \E k \in Contexts, locked \in BOOLEAN, store \in Store : ImportContext(k, locked, store)
           \/ ConfirmDelete
    PROVE  ~Rewritten(c)
<1>1. disk \in [Contexts -> Store]
  BY DEF IInv, DiskOK
<1>2. CASE ConfirmDelete
  <2>1. disk' = [disk EXCEPT ![page.target] = Absent]
    BY <1>2 DEF ConfirmDelete
  <2>2. ~Absent.there
    BY DEF Absent
  <2>. QED
    BY <1>1, <2>1, <2>2 DEF Rewritten
<1>3. ASSUME NEW k \in Contexts, NEW x, ~disk[k].there, disk' = [disk EXCEPT ![k] = x]
      PROVE  ~Rewritten(c)
  BY <1>1, <1>3 DEF Rewritten
<1>4. CASE \E k \in Contexts, locked \in BOOLEAN : CreateContext(k, locked)
  BY <1>3, <1>4 DEF CreateContext, Free, Opened
<1>5. CASE \E k \in Contexts, locked \in BOOLEAN, store \in Store : ImportContext(k, locked, store)
  BY <1>3, <1>5 DEF ImportContext, Free, Opened
<1>. QED
  BY <1>2, <1>4, <1>5

\* The screens write to the context that is open, and so to the one in the header.
LEMMA ScreensRewriteHeader ==
    ASSUME IInv, NEW c \in Contexts, Rewritten(c), NEW r \in Rows, WriteRow(r) \/ ImportBundle(r)
    PROVE  c = header
<1>1. session # Closed /\ \E rows : Wrote(rows)
  BY DEF WriteRow, ImportBundle
<1>2. c # session.name => disk'[c] = disk[c]
  BY <1>1 DEF Wrote, IInv, DiskOK
<1>. QED
  BY <1>1, <1>2 DEF Rewritten, IInv, HeaderOK

LEMMA CliRewritesOwn ==
    ASSUME IInv, NEW c \in Contexts, Rewritten(c), NEW r \in Rows, CliImport(r)
    PROVE  cli.name = c
  BY DEF CliImport, Rewritten, IInv, DiskOK

\* A new password, which may cost the rows of a log, is set for the context in the header.
LEMMA SetPasswordRewritesHeader ==
    ASSUME IInv, NEW c \in Contexts, Rewritten(c), NEW locked \in BOOLEAN, SetPassword(locked)
    PROVE  c = header
<1> DEFINE e == Checkpointed(disk, session)
           d == PasswordSet(e, Of, locked)
<1>1. /\ Top = "set-password" /\ Of # None /\ Opened(Of) /\ disk[Of].sound
      /\ disk' = Checkpointed(d, session)
  BY DEF SetPassword, PasswordSet, SessionBecomes
<1>2. Of = header /\ Of \in Contexts
  <2>1. Last(stack) = stack[Len(stack)] /\ Len(stack) \in DOMAIN stack
    BY ShownStack DEF IInv, StackOK
  <2>2. Of = header
    BY <1>1, <2>1 DEF Top, Of, IInv, StackOK, Given
  <2>. QED
    BY <1>1, <2>2 DEF IInv, HeaderOK
<1>3. DiskOK(e) /\ e[c].rows = disk[c].rows /\ e[Of].there /\ e[Of].sound
  BY <1>1, <1>2, CheckpointKeeps DEF IInv, Opened
<1> HIDE DEF e
<1>4. DiskOK(d) /\ (c # Of => d[c] = e[c])
  BY <1>2, <1>3, PasswordSetFacts
<1> HIDE DEF d
<1>5. disk'[c].rows = d[c].rows
  BY <1>1, <1>4, CheckpointKeeps DEF IInv
<1>. QED
  BY <1>2, <1>3, <1>4, <1>5 DEF Rewritten

LEMMA TransferRewritesTarget ==
    ASSUME IInv, NEW c \in Contexts, Rewritten(c), Transfer
    PROVE  Top = "transfer" /\ page.step = "confirm" /\ page.target = c
<1> DEFINE e == Checkpointed(disk, session)
           d == Sent(e, page.target, Of)
<1>1. Top = "transfer" /\ page.step = "confirm" /\ disk' = Checkpointed(d, session)
  BY DEF Transfer, SessionBecomes
<1>2. page.target \in Contexts
  BY <1>1 DEF IInv, PageOK
<1>3. Of \in Rows
  <2>1. Last(stack) = stack[Len(stack)] /\ Len(stack) \in DOMAIN stack
    BY ShownStack DEF IInv, StackOK
  <2>. QED
    BY <1>1, <2>1 DEF Top, Of, IInv, StackOK, Given
<1>4. DiskOK(e) /\ e[c].rows = disk[c].rows
  BY CheckpointKeeps DEF IInv
<1> HIDE DEF e
<1>5. DiskOK(d) /\ (c # page.target => d[c] = e[c])
  BY <1>2, <1>3, <1>4, SentFacts
<1> HIDE DEF d
<1>6. disk'[c].rows = d[c].rows
  BY <1>1, <1>5, CheckpointKeeps DEF IInv
<1>. QED
  BY <1>1, <1>4, <1>5, <1>6 DEF Rewritten

LEMMA RewrittenAsNamed ==
    ASSUME IInv, [Next]_vars, NEW c \in Contexts, Rewritten(c)
    PROVE  \/ c = header
           \/ Top = "transfer" /\ page.step = "confirm" /\ page.target = c
           \/ cli.name = c
<1>1. disk' # disk
  BY DEF Rewritten
<1>2. CASE ContextStep
  BY <1>1, <1>2, SessionsRewriteNone, FilesRewriteNone DEF ContextStep, PushUnlock, AskDelete
<1>3. CASE WorkStep
  BY <1>1, <1>3, SessionsRewriteNone, TransferRewritesTarget, ScreensRewriteHeader
     DEF WorkStep, ExportContext, EnterThrows, Back, StepBack, SendToContext, UnlockTarget, PickTarget,
         TransferStep, Enter, EnterTransfer
<1>4. CASE PasswordStep
  BY <1>1, <1>4, SessionsRewriteNone, SetPasswordRewritesHeader DEF PasswordStep, EnterSetPassword
<1>5. CASE HubStep
  BY <1>1, <1>5 DEF HubStep, AskHub, HubAnswers
<1>6. CASE CliStep
  BY <1>1, <1>6, SessionsRewriteNone, CliRewritesOwn DEF CliStep, CliCrash, CliOpen
<1>7. CASE Quit
  BY <1>7, SessionsRewriteNone
<1>8. CASE Crash \/ UNCHANGED vars
  BY <1>1, <1>8 DEF Crash, vars
<1>. QED
  BY <1>2, <1>3, <1>4, <1>5, <1>6, <1>7, <1>8 DEF Next

(***************************************************************************)
(* The theorems.                                                           *)
(***************************************************************************)

\* Everything has its type: the fields of a context that is not there are those of
\* nothing, an encrypted context has no log beside its file, and there is always a screen.
THEOREM TypeCorrect == Spec => []TypeOK
  BY Invariance, IInvImplies, PTL

\* Whatever opens, closes, deletes or re-encrypts contexts and however late a hub answers,
\* the header names the open context, and a screen that reads rows has one open.
THEOREM HeaderIsTrue == Spec => []HeaderTellsContext
  BY Invariance, IInvImplies, PTL

\* A decrypted working copy is removed as its context is closed, and only a crash, or a
\* store that is no database, leaves one behind.
THEOREM CopiesAccounted == Spec => []CopiesFollowSessions
  BY Invariance, IInvImplies, PTL

\* Rows change only in the context that the header, the confirmed transfer or the command
\* line names.
THEOREM RowsWrittenAsNamed == Spec => WrittenAsNamed
<1>1. IInv /\ [Next]_vars =>
        [\A c \in Contexts :
           disk[c].there /\ disk'[c].there /\ disk[c].rows # disk'[c].rows =>
              \/ c = header
              \/ Top = "transfer" /\ page.step = "confirm" /\ page.target = c
              \/ cli.name = c]_vars
  BY RewrittenAsNamed DEF Rewritten
<1>. QED
  BY <1>1, Invariance, PTL DEF Spec, WrittenAsNamed
===============================================================================
