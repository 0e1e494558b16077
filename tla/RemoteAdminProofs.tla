--------------------------- MODULE RemoteAdminProofs ---------------------------
(***************************************************************************)
(* Proofs about RemoteAdmin: its type invariant, that a settled list shows *)
(* what it says and what the hub has confirmed, and that a list never goes *)
(* back to an older state of the hub, for any number of certificates,      *)
(* accounts, calls under way and changes of the hub.                       *)
(***************************************************************************)
EXTENDS RemoteAdmin, SequenceTheorems, FiniteSetTheorems, TLAPS

(***************************************************************************)
(* The inductive invariant.                                                *)
(***************************************************************************)

Screens == {"main", "hubs", "add-hub", "remote-hub", "remote-certs", "remote-accounts", "remote-stats",
            "remote-cert-details", "remote-ca-rotate", "remote-ca-verify", "job-progress"}

ListScreens == {"remote-certs", "remote-accounts"}

\* The requests of each screen.
OpsOf(screen) ==
    CASE screen = "hubs" -> {"connect"}
      [] screen = "add-hub" -> {"probe"}
      [] screen = "remote-hub" -> {"info"}
      [] screen = "remote-certs" -> {"certs", "revoke"}
      [] screen = "remote-accounts" -> {"accounts", "ban", "unban"}
      [] screen = "remote-stats" -> {"stats"}
      [] screen = "remote-cert-details" -> {"details"}
      [] screen = "remote-ca-rotate" -> {"staged", "stage", "discard", "promote", "rollback", "reissue"}
      [] screen = "remote-ca-verify" -> {"verify"}
      [] screen = "job-progress" -> {"job", "cancel"}
      [] OTHER -> {}

\* What each request is about.
ArgsOf(op) ==
    CASE op = "revoke" -> Certs
      [] op \in {"ban", "unban"} -> Accounts
      [] op = "stage" -> Cas
      [] op = "certs" -> {NoTarget, Valid}
      [] OTHER -> {NoTarget}

Target == Certs \cup Accounts \cup Cas \cup {NoTarget, Valid}

Job == {"none", "running", "ended"}

Hub == [at : 0..MaxChanges, revoked : SUBSET Certs, banned : SUBSET Accounts,
        staged : Cas \cup {NoTarget}, job : Job]

Answer == [loaded : BOOLEAN, at : 0..MaxChanges, filter : BOOLEAN, revoked : SUBSET Certs,
           banned : SUBSET Accounts, staged : Cas \cup {NoTarget}, job : Job]

Call == [op : Ops, arg : Target, live : BOOLEAN, answered : BOOLEAN, cut : BOOLEAN, got : Answer]

Pages == [shown : Answer, filter : BOOLEAN, step : {"start", "confirm", "busy", "staged"}, target : Target,
          asking : BOOLEAN, isBanned : BOOLEAN, err : BOOLEAN, acked : 0..MaxChanges]

StackOK(s) == s \in Seq(Screens) /\ s # <<>> /\ Head(s) = "main"

\* A screen never knows more than the hub did; the row it confirms is of its list.
PageOK(screen, pg, h) ==
    /\ pg \in Pages
    /\ pg.shown.at <= h.at /\ pg.acked <= h.at
    /\ pg.filter => screen = "remote-certs"
    /\ pg.step = "confirm" => /\ screen = "remote-certs" => pg.target \in Certs
                              /\ screen = "remote-accounts" => pg.target \in Accounts
                              /\ screen = "remote-ca-rotate" => pg.target \in Cas

\* Callbacks that are still heard belong to the screen shown; the hub's screen asks
\* with a key only.
CallOK(screen, h, id, c) ==
    /\ c \in Call /\ c.arg \in ArgsOf(c.op)
    /\ c.live => c.op \in OpsOf(screen) /\ (c.op = "info" => id)
    /\ c.answered => c.got.at <= h.at

CallsOK(screen, h, id, cs) ==
    /\ DOMAIN cs \subseteq Connection
    /\ \A i \in DOMAIN cs : CallOK(screen, h, id, cs[i])

\* Changes the hub was asked for and has not made.
Pending(cs) == {i \in DOMAIN cs : ~cs[i].answered /\ cs[i].op \in Changing}

Budget(h, cs) == h.at + Cardinality(Pending(cs)) <= MaxChanges

LiveLoads(cs) == {i \in DOMAIN cs : cs[i].live /\ cs[i].op \in Loads}

\* The load under way asks for the filter that is set, and its answer is no older
\* than what is shown, and than what the hub has confirmed.
LoadOK(screen, pg, c) ==
    /\ screen \in ListScreens =>
         /\ (c.arg = Valid) = pg.filter
         /\ c.answered => /\ c.got.filter = pg.filter
                          /\ c.got.at >= pg.shown.at /\ c.got.at >= pg.acked
    /\ screen = "remote-hub" => ~pg.shown.loaded

\* One load is heard at a time; without one, a list shows what it says.
ListOK(screen, pg, cs) ==
    /\ \A i, j \in LiveLoads(cs) : i = j
    /\ \A i \in LiveLoads(cs) : LoadOK(screen, pg, cs[i])
    /\ screen \in ListScreens /\ pg.shown.loaded /\ ~pg.err /\ LiveLoads(cs) = {} =>
         pg.shown.filter = pg.filter /\ pg.shown.at >= pg.acked

SessionOK(a, r, id, snap) ==
    /\ a \in BOOLEAN /\ id \in BOOLEAN /\ snap \in BOOLEAN /\ (snap => id)
    /\ r \in {"absent", "kept", "removed"}

ScreenOK(screen, pg, h, id, cs) ==
    PageOK(screen, pg, h) /\ CallsOK(screen, h, id, cs) /\ Budget(h, cs) /\ ListOK(screen, pg, cs)

IInv ==
    /\ hub \in Hub /\ StackOK(stack) /\ SessionOK(alive, record, identity, snapshot)
    /\ ScreenOK(Top, page, hub, identity, calls)

\* A list that stays on the screen never shows an older state of the hub.
Forward == Top \in ListScreens /\ stack' = stack => page'.shown.at >= page.shown.at

(***************************************************************************)
(* Screens, requests and answers.                                          *)
(***************************************************************************)

LEMMA Bounds == MaxCalls \in Nat /\ MaxChanges \in Nat /\ NoTarget # Valid
BY BoundsAssumption

LEMMA LoadsAre ==
    /\ DOMAIN Lists = {"remote-hub", "remote-certs", "remote-accounts", "remote-stats", "remote-cert-details"}
    /\ Lists["remote-hub"] = "info" /\ Lists["remote-certs"] = "certs"
    /\ Lists["remote-accounts"] = "accounts" /\ Lists["remote-stats"] = "stats"
    /\ Lists["remote-cert-details"] = "details"
    /\ Loads = {"info", "certs", "accounts", "stats", "details"}
<1>1. /\ DOMAIN Lists = {"remote-hub", "remote-certs", "remote-accounts", "remote-stats", "remote-cert-details"}
      /\ Lists["remote-hub"] = "info" /\ Lists["remote-certs"] = "certs"
      /\ Lists["remote-accounts"] = "accounts" /\ Lists["remote-stats"] = "stats"
      /\ Lists["remote-cert-details"] = "details"
  BY DEF Lists
<1>2. Loads = {Lists[s] : s \in DOMAIN Lists}
  BY DEF Loads, Range
<1>. QED
  BY <1>1, <1>2

LEMMA OpsAre ==
    Ops = {"ban", "unban", "stage", "discard", "promote", "rollback", "reissue", "cancel", "revoke",
           "info", "certs", "accounts", "stats", "details", "connect", "probe", "staged", "job", "verify"}
BY LoadsAre DEF Ops, OwnerOps, Changing

LEMMA BlankAnswer == Blank \in Answer /\ Blank.at = 0 /\ ~Blank.loaded /\ ~Blank.filter
BY Bounds DEF Blank, Answer, Job

LEMMA PageFacts ==
    ASSUME NEW screen, NEW h \in Hub
    PROVE  /\ Page(screen) \in Pages /\ PageOK(screen, Page(screen), h)
           /\ Page(screen).shown = Blank /\ Page(screen).acked = 0 /\ ~Page(screen).filter
           /\ Page(screen).step = "start"
BY BlankAnswer, Bounds DEF Page, Pages, PageOK, Target, Hub

\* An answer tells of the hub as it was, and names the filter that was asked for.
LEMMA ViewFacts ==
    ASSUME NEW h \in Hub, NEW op, NEW arg
    PROVE  /\ View(h, op, arg) \in Answer /\ View(h, op, arg).at <= h.at
           /\ op \in {"certs", "accounts"} => View(h, op, arg).at = h.at
           /\ View(h, op, arg).filter = (op = "certs" /\ arg = Valid)
<1>1. Blank \in Answer /\ Blank.at = 0
  BY BlankAnswer
<1>2. /\ h.at \in 0..MaxChanges /\ h.revoked \in SUBSET Certs /\ h.banned \in SUBSET Accounts
      /\ h.staged \in Cas \cup {NoTarget} /\ h.job \in Job
  BY DEF Hub
<1> DEFINE loaded == op \in {"certs", "accounts", "stats", "details", "job"}
           at == IF op \in {"certs", "accounts", "revoke", "ban", "unban"} THEN h.at ELSE 0
           filter == op = "certs" /\ arg = Valid
           revoked == IF op = "certs" THEN h.revoked ELSE {}
           banned == IF op = "accounts" THEN h.banned ELSE {}
           staged == IF op \in {"staged", "stage"} THEN h.staged ELSE NoTarget
           job == IF op = "job" THEN h.job ELSE "none"
<1>3. View(h, op, arg) \in Answer
  <2>1. View(h, op, arg) = [Blank EXCEPT !.loaded = loaded, !.at = at, !.filter = filter, !.revoked = revoked,
                                         !.banned = banned, !.staged = staged, !.job = job]
    BY DEF View
  <2>2. /\ loaded \in BOOLEAN /\ at \in 0..MaxChanges /\ filter \in BOOLEAN /\ revoked \in SUBSET Certs
        /\ banned \in SUBSET Accounts /\ staged \in Cas \cup {NoTarget} /\ job \in Job
    BY <1>2, Bounds DEF Job
  <2> HIDE DEF loaded, at, filter, revoked, banned, staged, job
  <2>. QED
    BY <1>1, <2>1, <2>2 DEF Answer
<1>4. /\ View(h, op, arg).at = IF op \in {"certs", "accounts", "revoke", "ban", "unban"} THEN h.at ELSE 0
      /\ View(h, op, arg).filter = (op = "certs" /\ arg = Valid)
  BY DEF View, Blank
<1>. QED
  BY <1>2, <1>3, <1>4, Bounds

(***************************************************************************)
(* Calls that are sent, taken and orphaned.                                *)
(***************************************************************************)

LEMMA PendingFinite ==
    ASSUME NEW cs, DOMAIN cs \subseteq Connection
    PROVE  IsFiniteSet(Pending(cs)) /\ Cardinality(Pending(cs)) \in Nat
<1>1. IsFiniteSet(Connection)
  BY Bounds, FS_Interval DEF Connection
<1>2. IsFiniteSet(Pending(cs))
  BY <1>1, FS_Subset DEF Pending
<1>. QED
  BY <1>2, FS_CardinalityType

\* Fewer changes asked for, and none made.
LEMMA BudgetShrinks ==
    ASSUME NEW h \in Hub, NEW cs, DOMAIN cs \subseteq Connection, Budget(h, cs),
           NEW ds, Pending(ds) \subseteq Pending(cs)
    PROVE  Budget(h, ds)
<1>1. IsFiniteSet(Pending(cs)) /\ Cardinality(Pending(cs)) \in Nat
  BY PendingFinite
<1>2. Cardinality(Pending(ds)) <= Cardinality(Pending(cs)) /\ Cardinality(Pending(ds)) \in Nat
  BY <1>1, FS_Subset, FS_CardinalityType
<1>. QED
  BY <1>1, <1>2, Bounds DEF Budget, Hub

LEMMA RestrictKeeps ==
    ASSUME NEW screen, NEW h \in Hub, NEW id, NEW cs, CallsOK(screen, h, id, cs), Budget(h, cs),
           NEW S \in SUBSET (DOMAIN cs)
    PROVE  /\ DOMAIN Restrict(cs, S) = S /\ \A i \in S : Restrict(cs, S)[i] = cs[i]
           /\ CallsOK(screen, h, id, Restrict(cs, S)) /\ Budget(h, Restrict(cs, S))
<1> DEFINE ds == Restrict(cs, S)
<1>1. DOMAIN ds = S /\ \A i \in S : ds[i] = cs[i]
  BY DEF Restrict
<1> HIDE DEF ds
<1>2. Pending(ds) \subseteq Pending(cs)
  BY <1>1 DEF Pending
<1>3. Budget(h, ds)
  BY <1>2, BudgetShrinks DEF CallsOK
<1>. QED
  BY <1>1, <1>2, <1>3 DEF CallsOK, ds

\* Calls that are heard no more: nothing of them is left but what outlives a screen.
LEMMA OrphansKeep ==
    ASSUME NEW screen, NEW h \in Hub, NEW id, NEW cs, CallsOK(screen, h, id, cs), Budget(h, cs), NEW ops
    PROVE  /\ \A j : j \in DOMAIN Orphans(cs, ops) => j \in DOMAIN cs
           /\ CallsOK(screen, h, id, Orphans(cs, ops)) /\ Budget(h, Orphans(cs, ops))
           /\ \A i \in DOMAIN Orphans(cs, ops) :
                Orphans(cs, ops)[i].live <=> cs[i].live /\ cs[i].op \notin ops
           /\ \A i \in DOMAIN Orphans(cs, ops) : Orphans(cs, ops)[i].op = cs[i].op
<1> DEFINE ds == Orphans(cs, ops)
<1>1. /\ DOMAIN ds = {j \in DOMAIN cs : cs[j].op \notin ops \ Lasting}
      /\ \A i \in DOMAIN ds : ds[i] = IF cs[i].op \in ops THEN [cs[i] EXCEPT !.live = FALSE] ELSE cs[i]
  BY DEF Orphans
<1> HIDE DEF ds
<1>2. \A i \in DOMAIN ds : i \in DOMAIN cs /\ cs[i] \in Call
  BY <1>1 DEF CallsOK, CallOK
<1>3. \A i \in DOMAIN ds :
        /\ ds[i] \in Call
        /\ ds[i].op = cs[i].op /\ ds[i].arg = cs[i].arg /\ ds[i].answered = cs[i].answered
        /\ ds[i].got = cs[i].got /\ ds[i].live = (cs[i].live /\ cs[i].op \notin ops)
  BY <1>1, <1>2 DEF Call
<1>4. Pending(ds) \subseteq Pending(cs)
  BY <1>2, <1>3 DEF Pending
<1>5. Budget(h, ds)
  BY <1>4, BudgetShrinks DEF CallsOK
<1>6. CallsOK(screen, h, id, ds)
  BY <1>1, <1>2, <1>3 DEF CallsOK, CallOK
<1>. QED
  BY <1>1, <1>3, <1>5, <1>6 DEF ds

\* A screen that is left: what is heard no more suits every screen, and needs no key.
LEMMA AllOrphans ==
    ASSUME NEW screen, NEW h \in Hub, NEW id, NEW cs, CallsOK(screen, h, id, cs), Budget(h, cs),
           NEW other, NEW key
    PROVE  /\ CallsOK(other, h, key, Orphans(cs, Ops)) /\ Budget(h, Orphans(cs, Ops))
           /\ LiveLoads(Orphans(cs, Ops)) = {}
<1> DEFINE ds == Orphans(cs, Ops)
<1>1. /\ \A j : j \in DOMAIN ds => j \in DOMAIN cs
      /\ CallsOK(screen, h, id, ds) /\ Budget(h, ds)
      /\ \A i \in DOMAIN ds : ds[i].live => cs[i].live /\ cs[i].op \notin Ops
  BY OrphansKeep
<1>2. \A i \in DOMAIN ds : ~ds[i].live
  BY <1>1 DEF CallsOK, CallOK, Call
<1> HIDE DEF ds
<1>. QED
  BY <1>1, <1>2 DEF CallsOK, CallOK, LiveLoads, ds

\* A call that is sent takes a connection of its own.
LEMMA SendKeeps ==
    ASSUME NEW screen, NEW h \in Hub, NEW id, NEW cs, CallsOK(screen, h, id, cs),
           DOMAIN cs # Connection,
           NEW op \in OpsOf(screen) \cap Ops, NEW arg \in ArgsOf(op) \cap Target, op = "info" => id
    PROVE  \E n \in Connection \ DOMAIN cs :
             /\ DOMAIN Send(cs, op, arg) = DOMAIN cs \cup {n}
             /\ \A i \in DOMAIN cs : Send(cs, op, arg)[i] = cs[i]
             /\ Send(cs, op, arg)[n].op = op /\ Send(cs, op, arg)[n].arg = arg
             /\ Send(cs, op, arg)[n].live /\ ~Send(cs, op, arg)[n].answered
             /\ CallsOK(screen, h, id, Send(cs, op, arg))
             /\ Pending(Send(cs, op, arg)) \subseteq Pending(cs) \cup {n}
             /\ op \notin Changing => n \notin Pending(Send(cs, op, arg))
<1> DEFINE n == CHOOSE k \in Connection : k \notin DOMAIN cs
           ds == Send(cs, op, arg)
           new == [op |-> op, arg |-> arg, live |-> TRUE, answered |-> FALSE, cut |-> FALSE, got |-> Blank]
<1>1. n \in Connection \ DOMAIN cs
  BY DEF CallsOK
<1>2. ds = [k \in DOMAIN cs \cup {n} |-> IF k = n THEN new ELSE cs[k]]
  BY DEF Send
<1> HIDE DEF n, ds
<1>3. /\ DOMAIN ds = DOMAIN cs \cup {n} /\ ds[n] = new /\ \A i \in DOMAIN cs : ds[i] = cs[i]
  BY <1>1, <1>2
<1>4. CallOK(screen, h, id, new)
  BY BlankAnswer DEF CallOK, Call
<1>5. new.op = op /\ new.arg = arg /\ new.live /\ ~new.answered
  OBVIOUS
<1> HIDE DEF new
<1>6. CallsOK(screen, h, id, ds)
  BY <1>1, <1>3, <1>4 DEF CallsOK
<1>7. /\ op \notin Changing => n \notin Pending(ds)
      /\ Pending(ds) \subseteq Pending(cs) \cup {n}
  BY <1>1, <1>3, <1>5 DEF Pending
<1>. QED
  BY <1>1, <1>3, <1>5, <1>6, <1>7 DEF ds

\* A load that is cancelled needs no key.
LEMMA LoadOrphans ==
    ASSUME NEW screen, NEW h \in Hub, NEW id, NEW cs, CallsOK(screen, h, id, cs), Budget(h, cs),
           NEW key
    PROVE  /\ CallsOK(screen, h, key, Orphans(cs, Loads)) /\ Budget(h, Orphans(cs, Loads))
           /\ LiveLoads(Orphans(cs, Loads)) = {}
           /\ DOMAIN cs # Connection => DOMAIN Orphans(cs, Loads) # Connection
<1> DEFINE ds == Orphans(cs, Loads)
<1>1. /\ \A j : j \in DOMAIN ds => j \in DOMAIN cs
      /\ CallsOK(screen, h, id, ds) /\ Budget(h, ds)
      /\ \A i \in DOMAIN ds : ds[i].op = cs[i].op
      /\ \A i \in DOMAIN ds : ds[i].live => cs[i].op \notin Loads
  BY OrphansKeep
<1> HIDE DEF ds
<1>3. \A i \in DOMAIN ds : ds[i].live => ds[i].op \notin Loads
  BY <1>1
<1>4. LiveLoads(ds) = {}
  BY <1>3 DEF LiveLoads
<1>5. CallsOK(screen, h, key, ds)
  BY <1>1, <1>3, LoadsAre DEF CallsOK, CallOK
<1>6. DOMAIN cs # Connection => DOMAIN ds # Connection
  BY <1>1 DEF CallsOK
<1>. QED
  BY <1>1, <1>4, <1>5, <1>6 DEF ds

(***************************************************************************)
(* Loads, and screens that are shown.                                      *)
(***************************************************************************)

\* The first load of a screen, or another one, is the one that is heard.
LEMMA SendLoad ==
    ASSUME NEW screen, NEW pg, NEW cs, NEW ds, LiveLoads(cs) = {}, NEW n, DOMAIN ds = DOMAIN cs \cup {n},
           \A i \in DOMAIN cs : ds[i] = cs[i], n \notin DOMAIN cs,
           ds[n].op \in Loads => LoadOK(screen, pg, ds[n]), ds[n].live,
           screen \in ListScreens => ds[n].op \in Loads
    PROVE  ListOK(screen, pg, ds)
<1>1. LiveLoads(ds) \subseteq {n} /\ (ds[n].op \in Loads => n \in LiveLoads(ds))
  BY DEF LiveLoads
<1>2. \A i \in LiveLoads(ds) : LoadOK(screen, pg, ds[i])
  BY <1>1 DEF LiveLoads
<1>. QED
  BY <1>1, <1>2 DEF ListOK

LEMMA ReloadKeeps ==
    ASSUME NEW h \in Hub, NEW key \in BOOLEAN, NEW client \in BOOLEAN, client => key, NEW id,
           NEW cs, CallsOK(Top, h, id, cs), Budget(h, cs), DOMAIN cs # Connection,
           Top \in DOMAIN Lists, NEW pg, PageOK(Top, pg, h), Top = "remote-hub" => ~pg.shown.loaded,
           ReloadFor(client, cs, pg)
    PROVE  ScreenOK(Top, page', h, key, calls') /\ page'.shown = pg.shown
<1> DEFINE os == Orphans(cs, Loads)
           op == Lists[Top]
           arg == IF pg.filter /\ op = "certs" THEN Valid ELSE NoTarget
<1>1. /\ CallsOK(Top, h, key, os) /\ Budget(h, os) /\ LiveLoads(os) = {} /\ DOMAIN os # Connection
  BY LoadOrphans
<1>2. pg \in Pages
  BY DEF PageOK
<1>3. CASE client
  <2>1. calls' = Send(os, op, arg) /\ page' = pg
    BY <1>3 DEF ReloadFor
  <2>2. /\ op \in OpsOf(Top) \cap Ops /\ op \in Loads /\ op \notin Changing
        /\ op = "certs" <=> Top = "remote-certs"
    BY LoadsAre, OpsAre DEF OpsOf, Changing
  <2>3. arg \in ArgsOf(op) \cap Target /\ ((arg = Valid) = (pg.filter /\ op = "certs"))
    BY LoadsAre, Bounds, <1>2 DEF ArgsOf, Target, Pages
  <2> HIDE DEF os, op, arg
  <2>4. PICK n \in Connection \ DOMAIN os :
            /\ DOMAIN Send(os, op, arg) = DOMAIN os \cup {n}
            /\ \A i \in DOMAIN os : Send(os, op, arg)[i] = os[i]
            /\ Send(os, op, arg)[n].op = op /\ Send(os, op, arg)[n].arg = arg
            /\ Send(os, op, arg)[n].live /\ ~Send(os, op, arg)[n].answered
            /\ CallsOK(Top, h, key, Send(os, op, arg))
            /\ Pending(Send(os, op, arg)) \subseteq Pending(os) \cup {n}
            /\ n \notin Pending(Send(os, op, arg))
    BY <1>1, <1>3, <2>2, <2>3, SendKeeps
  <2>5. /\ calls'[n].op = op /\ calls'[n].arg = arg /\ calls'[n].live /\ ~calls'[n].answered
    BY <2>1, <2>4
  <2>6. LoadOK(Top, pg, calls'[n])
    BY <2>2, <2>3, <2>5, <1>2 DEF LoadOK, PageOK, ListScreens, Pages
  <2>7. ListOK(Top, pg, calls')
    BY <1>1, <2>1, <2>2, <2>4, <2>5, <2>6, SendLoad
  <2>8. Budget(h, calls')
    BY <1>1, <2>1, <2>4, BudgetShrinks DEF CallsOK
  <2>. QED
    BY <2>1, <2>4, <2>7, <2>8 DEF ScreenOK
<1>4. CASE ~client
  <2>1. calls' = os /\ page' = [pg EXCEPT !.err = TRUE]
    BY <1>4 DEF ReloadFor
  <2>2. page' \in Pages /\ page'.err /\ \A f \in {"shown", "filter", "step", "target", "acked"} : page'[f] = pg[f]
    BY <1>2, <2>1 DEF Pages
  <2>3. PageOK(Top, page', h)
    BY <2>2 DEF PageOK
  <2>4. ListOK(Top, page', calls')
    BY <1>1, <2>1, <2>2 DEF ListOK
  <2>. QED
    BY <1>1, <2>1, <2>2, <2>3, <2>4 DEF ScreenOK
<1>. QED
  BY <1>3, <1>4

LEMMA FirstCallFacts ==
    ASSUME NEW screen \in Screens, snapshot \in BOOLEAN, FirstCall(screen) # "none"
    PROVE  /\ FirstCall(screen) \in OpsOf(screen) \cap Ops /\ FirstCall(screen) \notin Changing
           /\ NoTarget \in ArgsOf(FirstCall(screen)) \cap Target
           /\ screen \in ListScreens => FirstCall(screen) \in Loads
           /\ screen = "remote-hub" => ~snapshot
<1>1. \/ screen \in DOMAIN Lists /\ FirstCall(screen) = Lists[screen]
      \/ screen = "remote-ca-rotate" /\ FirstCall(screen) = "staged"
      \/ screen = "job-progress" /\ FirstCall(screen) = "job"
  BY LoadsAre DEF FirstCall
<1>2. screen = "remote-hub" => ~snapshot
  BY DEF FirstCall
<1>. QED
  BY <1>1, <1>2, LoadsAre, OpsAre DEF OpsOf, Changing, ArgsOf, Target, ListScreens

\* A screen that is mounted.
LEMMA MountKeeps ==
    ASSUME NEW h \in Hub, NEW key \in BOOLEAN, NEW client \in BOOLEAN, client => key, NEW screen \in Screens,
           snapshot \in BOOLEAN, NEW os, CallsOK(screen, h, key, os), Budget(h, os), LiveLoads(os) = {},
           DOMAIN os # Connection,
           calls' = IF FirstCall(screen) = "none" \/ ~client THEN os ELSE Send(os, FirstCall(screen), NoTarget),
           page' = [Page(screen) EXCEPT !.err = FirstCall(screen) \in Loads \cup {"job"} /\ ~client,
                                        !.shown.loaded = (screen = "remote-hub" /\ snapshot)]
    PROVE  ScreenOK(screen, page', h, key, calls')
<1> DEFINE pg == Page(screen)
           e == FirstCall(screen) \in Loads \cup {"job"} /\ ~client
           l == screen = "remote-hub" /\ snapshot
<1>1. /\ pg \in Pages /\ PageOK(screen, pg, h) /\ pg.shown \in Answer /\ pg.shown.at = 0 /\ pg.acked = 0
      /\ ~pg.filter /\ pg.step = "start" /\ ~pg.shown.filter
  BY PageFacts, BlankAnswer
<1>2. e \in BOOLEAN /\ l \in BOOLEAN
  OBVIOUS
<1>3. page' = [pg EXCEPT !.err = e, !.shown.loaded = l]
  OBVIOUS
<1>4. l => screen = "remote-hub" /\ snapshot
  OBVIOUS
<1> HIDE DEF pg, e, l
<1>5. page'.shown = [pg.shown EXCEPT !.loaded = l]
  BY <1>1, <1>3 DEF Pages
<1>6. page'.shown \in Answer
  BY <1>1, <1>2, <1>5 DEF Answer
<1>7. /\ page' \in Pages /\ page'.shown.at = 0 /\ page'.acked = 0 /\ ~page'.filter /\ page'.step = "start"
      /\ page'.shown.loaded = l /\ ~page'.shown.filter
  BY <1>1, <1>2, <1>3, <1>5, <1>6 DEF Pages, Answer
<1>8. PageOK(screen, page', h)
  BY <1>7, Bounds DEF PageOK, Hub
<1>9. CASE FirstCall(screen) = "none" \/ ~client
  <2>1. calls' = os
    BY <1>9
  <2>2. ListOK(screen, page', calls')
    BY <1>4, <1>7, <2>1 DEF ListOK, ListScreens
  <2>. QED
    BY <1>8, <2>1, <2>2 DEF ScreenOK
<1>10. CASE ~(FirstCall(screen) = "none" \/ ~client)
  <2> DEFINE op == FirstCall(screen)
  <2>1. calls' = Send(os, op, NoTarget)
    BY <1>10
  <2>2. /\ op \in OpsOf(screen) \cap Ops /\ op \notin Changing /\ NoTarget \in ArgsOf(op) \cap Target
        /\ screen \in ListScreens => op \in Loads
        /\ screen = "remote-hub" => ~snapshot
    BY <1>10, FirstCallFacts
  <2> HIDE DEF op
  <2>3. PICK n \in Connection \ DOMAIN os :
            /\ DOMAIN Send(os, op, NoTarget) = DOMAIN os \cup {n}
            /\ \A i \in DOMAIN os : Send(os, op, NoTarget)[i] = os[i]
            /\ Send(os, op, NoTarget)[n].op = op /\ Send(os, op, NoTarget)[n].arg = NoTarget
            /\ Send(os, op, NoTarget)[n].live /\ ~Send(os, op, NoTarget)[n].answered
            /\ CallsOK(screen, h, key, Send(os, op, NoTarget))
            /\ Pending(Send(os, op, NoTarget)) \subseteq Pending(os) \cup {n}
            /\ n \notin Pending(Send(os, op, NoTarget))
    BY <1>10, <2>2, SendKeeps
  <2>4. calls'[n].op = op /\ calls'[n].arg = NoTarget /\ calls'[n].live /\ ~calls'[n].answered
    BY <2>1, <2>3
  <2>5. LoadOK(screen, page', calls'[n])
    BY <1>4, <1>7, <2>2, <2>4, Bounds DEF LoadOK, Pages
  <2>6. ListOK(screen, page', calls')
    BY <2>1, <2>2, <2>3, <2>4, <2>5, SendLoad
  <2>7. Budget(h, calls')
    BY <2>1, <2>3, BudgetShrinks DEF CallsOK
  <2>. QED
    BY <1>8, <2>1, <2>3, <2>6, <2>7 DEF ScreenOK
<1>. QED
  BY <1>9, <1>10

\* The stack that is shown next: the screen stays as it is, asks again, or is mounted.
LEMMA ShowKeeps ==
    ASSUME NEW h \in Hub, NEW id \in BOOLEAN, NEW key \in BOOLEAN, NEW client \in BOOLEAN, client => key,
           snapshot \in BOOLEAN, NEW cs, ScreenOK(Top, page, h, id, cs), DOMAIN cs # Connection,
           NEW s, Last(s) \in Screens, ShowFor(client, s, cs), page \in Pages
    PROVE  /\ stack' = s /\ ScreenOK(Last(s), page', h, key, calls')
           /\ Last(s) = Top => page'.shown = page.shown
<1>1. stack' = s
  BY DEF ShowFor
<1>2. /\ PageOK(Top, page, h) /\ CallsOK(Top, h, id, cs) /\ Budget(h, cs) /\ ListOK(Top, page, cs)
  BY DEF ScreenOK
<1>3. CASE Last(s) = Top /\ (Top # "remote-hub" \/ page.shown.loaded)
  <2>1. calls' = cs /\ page' = page
    BY <1>3 DEF ShowFor
  <2>2. \A i \in DOMAIN cs : cs[i].live => cs[i].op # "info"
    <3>1. CASE Top # "remote-hub"
      BY <1>2, <3>1 DEF CallsOK, CallOK, OpsOf
    <3>2. CASE Top = "remote-hub"
      <4>1. LiveLoads(cs) = {}
        BY <1>2, <1>3, <3>2 DEF ListOK, LoadOK
      <4>. QED
        BY <4>1, LoadsAre DEF LiveLoads
    <3>. QED
      BY <3>1, <3>2
  <2>3. CallsOK(Top, h, key, cs)
    BY <1>2, <2>2 DEF CallsOK, CallOK
  <2>. QED
    BY <1>1, <1>2, <1>3, <2>1, <2>3 DEF ScreenOK
<1>4. CASE Last(s) = Top /\ Top = "remote-hub" /\ ~page.shown.loaded
  <2>1. ReloadFor(client, cs, page)
    BY <1>4 DEF ShowFor
  <2>2. Top \in DOMAIN Lists
    BY <1>4, LoadsAre
  <2>3. ScreenOK(Top, page', h, key, calls') /\ page'.shown = page.shown
    BY <1>2, <1>4, <2>1, <2>2, ReloadKeeps
  <2>. QED
    BY <1>1, <1>4, <2>3
<1>5. CASE Last(s) # Top
  <2> DEFINE os == Orphans(cs, Ops)
             screen == Last(s)
  <2>1. /\ calls' = IF FirstCall(screen) = "none" \/ ~client THEN os ELSE Send(os, FirstCall(screen), NoTarget)
        /\ page' = [Page(screen) EXCEPT !.err = FirstCall(screen) \in Loads \cup {"job"} /\ ~client,
                                        !.shown.loaded = (screen = "remote-hub" /\ snapshot)]
    BY <1>5 DEF ShowFor
  <2>2. CallsOK(screen, h, key, os) /\ Budget(h, os) /\ LiveLoads(os) = {}
    BY <1>2, AllOrphans
  <2>3. \A j : j \in DOMAIN os => j \in DOMAIN cs
    BY <1>2, OrphansKeep
  <2>4. DOMAIN os # Connection
    BY <1>2, <2>3 DEF CallsOK
  <2> HIDE DEF os
  <2>5. screen \in Screens
    OBVIOUS
  <2> HIDE DEF screen
  <2>6. ScreenOK(screen, page', h, key, calls')
    BY <2>1, <2>2, <2>4, <2>5, MountKeeps
  <2>. QED
    BY <1>1, <1>5, <2>6 DEF screen
<1>. QED
  BY <1>3, <1>4, <1>5
(***************************************************************************)
(* Stacks.                                                                 *)
(***************************************************************************)

LEMMA StackFacts ==
    ASSUME NEW s, StackOK(s)
    PROVE  Last(s) \in Screens /\ Len(s) \in Nat \ {0}
<1>1. Len(s) \in Nat \ {0}
  BY EmptySeq, LenProperties DEF StackOK
<1>. QED
  BY <1>1, ElementOfSeq DEF StackOK, Last

LEMMA PushedStack ==
    ASSUME NEW s, StackOK(s), NEW screen \in Screens
    PROVE  StackOK(Append(s, screen)) /\ Last(Append(s, screen)) = screen
<1>1. /\ Append(s, screen) \in Seq(Screens) /\ Append(s, screen) # <<>>
      /\ Len(Append(s, screen)) = Len(s) + 1 /\ Append(s, screen)[Len(s) + 1] = screen
  BY AppendProperties DEF StackOK
<1>2. Head(Append(s, screen)) = "main"
  BY HeadTailAppend DEF StackOK
<1>. QED
  BY <1>1, <1>2 DEF StackOK, Last

LEMMA PoppedStack ==
    ASSUME NEW s, StackOK(s)
    PROVE  StackOK(IF Len(s) > 1 THEN Front(s) ELSE s)
<1>1. CASE Len(s) > 1
  <2>1. /\ Len(s) \in Nat \ {0} /\ \A i \in 1..(Len(s) - 1) : s[i] \in Screens
    BY StackFacts, ElementOfSeq DEF StackOK
  <2>2. /\ Front(s) \in Seq(Screens) /\ Len(Front(s)) = Len(s) - 1
        /\ \A i \in 1..(Len(s) - 1) : Front(s)[i] = s[i]
    BY <1>1, <2>1, SubSeqProperties DEF Front
  <2>3. Front(s)[1] = s[1] /\ Front(s) # <<>>
    BY <1>1, <2>1, <2>2, EmptySeq
  <2>. QED
    BY <1>1, <2>2, <2>3 DEF StackOK
<1>2. CASE ~(Len(s) > 1)
  BY <1>2
<1>. QED
  BY <1>1, <1>2

(***************************************************************************)
(* What each kind of step keeps.                                           *)
(***************************************************************************)

LEMMA StateFacts ==
    ASSUME IInv
    PROVE  /\ hub \in Hub /\ StackOK(stack) /\ Top \in Screens /\ page \in Pages
           /\ alive \in BOOLEAN /\ identity \in BOOLEAN /\ snapshot \in BOOLEAN
           /\ PageOK(Top, page, hub) /\ CallsOK(Top, hub, identity, calls) /\ Budget(hub, calls)
           /\ ListOK(Top, page, calls) /\ DOMAIN calls \subseteq Connection
           /\ ClientFor \in BOOLEAN /\ (ClientFor => identity)
           /\ page.shown.at \in 0..MaxChanges
<1>1. page \in Pages
  BY DEF IInv, ScreenOK, PageOK
<1>. QED
  BY <1>1, StackFacts DEF IInv, ScreenOK, PageOK, SessionOK, CallsOK, Top, ClientFor, Pages, Answer

\* A step that shows another stack.
LEMMA ShowStep ==
    ASSUME IInv, NEW client \in BOOLEAN, NEW cs, ScreenOK(Top, page, hub, identity, cs), DOMAIN cs # Connection,
           NEW s, StackOK(s), ShowFor(client, s, cs),
           hub' = hub, SessionOK(alive, record, identity, snapshot)', client => identity'
    PROVE  IInv' /\ Forward
<1>1. /\ stack' = s /\ ScreenOK(Last(s), page', hub, identity', calls')
      /\ Last(s) = Top => page'.shown = page.shown
  BY StateFacts, StackFacts, ShowKeeps DEF SessionOK
<1>2. Top' = Last(s)
  BY <1>1 DEF Top
<1>3. ScreenOK(Top, page, hub, identity, calls)'
  BY <1>1, <1>2 DEF ScreenOK, PageOK, CallsOK, CallOK, Budget, ListOK
<1>4. Forward
  BY <1>1, <1>2, StateFacts, Bounds DEF Forward, Top
<1>. QED
  BY <1>1, <1>3, <1>4, StateFacts DEF IInv

\* What a list shows, and what it says that it shows.
SameList(pg) == /\ pg.shown = page.shown /\ pg.filter = page.filter
                /\ pg.err = page.err /\ pg.acked = page.acked

\* The stack, the hub and the session stay; Forward is left to what is shown.
LEMMA StayStep ==
    ASSUME IInv, UNCHANGED <<hub, alive, record, identity, stack>>, snapshot' \in BOOLEAN, snapshot' => identity,
           ScreenOK(Top, page', hub, identity, calls'),
           Top \in ListScreens => page'.shown.at >= page.shown.at
    PROVE  IInv' /\ Forward
<1>1. Top' = Top
  BY DEF Top
<1>2. ScreenOK(Top, page, hub, identity, calls)'
  BY <1>1 DEF ScreenOK, PageOK, CallsOK, CallOK, Budget, ListOK
<1>3. SessionOK(alive, record, identity, snapshot)'
  BY DEF IInv, SessionOK
<1>4. hub' \in Hub /\ StackOK(stack')
  BY DEF IInv
<1>. QED
  BY <1>2, <1>3, <1>4 DEF IInv, Forward

LEMMA SameListKeeps ==
    ASSUME NEW screen, NEW h, NEW id, NEW pg, NEW cs, CallsOK(screen, h, id, cs), Budget(h, cs),
           ListOK(screen, page, cs), SameList(pg), PageOK(screen, pg, h)
    PROVE  ScreenOK(screen, pg, h, id, cs)
BY DEF ScreenOK, ListOK, LoadOK, SameList

\* A step of the form on the screen: no call is made.
LEMMA FormStep ==
    ASSUME IInv, UNCHANGED <<hub, alive, record, identity, snapshot, stack, calls>>,
           SameList(page'), PageOK(Top, page', hub)
    PROVE  IInv' /\ Forward
<1>1. ScreenOK(Top, page', hub, identity, calls')
  BY StateFacts, SameListKeeps
<1>2. snapshot => identity
  BY DEF IInv, SessionOK
<1>3. page'.shown.at = page.shown.at
  BY DEF SameList
<1>. QED
  BY <1>1, <1>2, <1>3, StateFacts, StayStep, Bounds

\* A list, or the hub's screen, asks again.
LEMMA ReloadStep ==
    ASSUME IInv, UNCHANGED <<hub, alive, record, identity, snapshot, stack>>,
           NEW cs, CallsOK(Top, hub, identity, cs), Budget(hub, cs), DOMAIN cs # Connection,
           Top \in DOMAIN Lists, NEW pg, PageOK(Top, pg, hub), pg.shown = page.shown,
           Top = "remote-hub" => ~pg.shown.loaded, Reload(cs, pg)
    PROVE  IInv' /\ Forward
<1>1. ReloadFor(ClientFor, cs, pg)
  BY DEF Reload
<1>2. ScreenOK(Top, page', hub, identity, calls') /\ page'.shown = pg.shown
  BY <1>1, StateFacts, ReloadKeeps
<1>3. snapshot => identity
  BY DEF IInv, SessionOK
<1>. QED
  BY <1>2, <1>3, StateFacts, StayStep, Bounds

\* A call that is not a load.
LEMMA SendStep ==
    ASSUME IInv, HasRoom, NEW op \in OpsOf(Top) \cap Ops, op \notin Loads, NEW arg \in ArgsOf(op) \cap Target,
           op \in Changing => MayChange, calls' = Send(calls, op, arg),
           UNCHANGED <<hub, alive, record, identity, snapshot, stack>>,
           SameList(page'), PageOK(Top, page', hub)
    PROVE  IInv' /\ Forward
<1>1. DOMAIN calls # Connection /\ op # "info"
  BY LoadsAre DEF HasRoom
<1>2. PICK n \in Connection \ DOMAIN calls :
          /\ DOMAIN Send(calls, op, arg) = DOMAIN calls \cup {n}
          /\ \A i \in DOMAIN calls : Send(calls, op, arg)[i] = calls[i]
          /\ Send(calls, op, arg)[n].op = op
          /\ CallsOK(Top, hub, identity, Send(calls, op, arg))
          /\ Pending(Send(calls, op, arg)) \subseteq Pending(calls) \cup {n}
          /\ op \notin Changing => n \notin Pending(Send(calls, op, arg))
  BY <1>1, StateFacts, SendKeeps
<1>3. Budget(hub, calls')
  <2>1. CASE op \notin Changing
    BY <1>2, <2>1, StateFacts, BudgetShrinks
  <2>2. CASE op \in Changing
    <3>1. hub.at + Cardinality(Pending(calls)) < MaxChanges
      BY <2>2 DEF MayChange, Pending
    <3>2. IsFiniteSet(Pending(calls)) /\ Cardinality(Pending(calls)) \in Nat
      BY StateFacts, PendingFinite
    <3>3. /\ IsFiniteSet(Pending(calls) \cup {n})
          /\ Cardinality(Pending(calls) \cup {n}) <= Cardinality(Pending(calls)) + 1
      <4> DEFINE P == Pending(calls)
      <4>1. IsFiniteSet(P) /\ Cardinality(P) \in Nat
        BY <3>2
      <4> HIDE DEF P
      <4>2. /\ IsFiniteSet(P \cup {n})
            /\ Cardinality(P \cup {n}) = IF n \in P THEN Cardinality(P) ELSE Cardinality(P) + 1
        BY <4>1, FS_AddElement
      <4>3. Cardinality(P \cup {n}) <= Cardinality(P) + 1
        BY <4>1, <4>2
      <4>. QED
        BY <4>2, <4>3 DEF P
    <3>4. /\ Cardinality(Pending(calls')) <= Cardinality(Pending(calls) \cup {n})
          /\ Cardinality(Pending(calls')) \in Nat /\ Cardinality(Pending(calls) \cup {n}) \in Nat
      BY <1>2, <3>3, FS_Subset, FS_CardinalityType
    <3>. QED
      BY <3>1, <3>2, <3>3, <3>4, StateFacts, Bounds DEF Budget, Hub
  <2>. QED
    BY <2>1, <2>2
<1>4. LiveLoads(calls') = LiveLoads(calls) /\ \A i \in LiveLoads(calls) : calls'[i] = calls[i]
  BY <1>2 DEF LiveLoads
<1>5. ListOK(Top, page, calls')
  BY <1>4, StateFacts DEF ListOK
<1>6. ScreenOK(Top, page', hub, identity, calls')
  BY <1>2, <1>3, <1>5, SameListKeeps
<1>7. snapshot => identity
  BY DEF IInv, SessionOK
<1>. QED
  BY <1>6, <1>7, StateFacts, StayStep, Bounds DEF SameList

LEMMA DiesStep ==
    ASSUME IInv, Dies, hub' = hub
    PROVE  IInv' /\ Forward
<1>1. /\ alive' = FALSE /\ identity' = FALSE /\ snapshot' = FALSE /\ record' = record
      /\ stack' = <<"main">> /\ page' = Page("main") /\ calls' = <<>>
  BY DEF Dies
<1>2. /\ <<"main">> \in Seq(Screens) /\ <<"main">> # <<>> /\ Head(<<"main">>) = "main"
      /\ Last(<<"main">>) = "main"
  BY DEF Screens, Last
<1>3. Top' = "main" /\ StackOK(stack')
  BY <1>1, <1>2 DEF Top, StackOK
<1>4. SessionOK(alive, record, identity, snapshot)'
  BY <1>1 DEF IInv, SessionOK
<1>5. PageOK("main", page', hub)
  BY <1>1, StateFacts, PageFacts
<1>6. DOMAIN calls' = {}
  BY <1>1
<1>7. CallsOK("main", hub, FALSE, calls') /\ Pending(calls') = {} /\ ListOK("main", page', calls')
  BY <1>6 DEF CallsOK, Pending, ListOK, LiveLoads, ListScreens
<1>8. Budget(hub, calls')
  BY <1>7, FS_EmptySet, StateFacts, Bounds DEF Budget, Hub
<1>9. ScreenOK(Top, page, hub, identity, calls)'
  BY <1>1, <1>3, <1>5, <1>7, <1>8 DEF ScreenOK, PageOK, CallsOK, CallOK, Budget, ListOK
<1>10. Forward
  BY <1>1, <1>2 DEF Forward, Top, ListScreens
<1>. QED
  BY <1>3, <1>4, <1>9, <1>10, StateFacts DEF IInv

\* A request from a key press: it is sent, or ends the program.
LEMMA RequestStep ==
    ASSUME IInv, NEW op \in OpsOf(Top) \cap Ops, op \notin Loads, NEW arg \in ArgsOf(op) \cap Target,
           NEW pg, Request(op, arg, pg), SameList(pg), PageOK(Top, pg, hub)
    PROVE  IInv' /\ Forward
<1>1. HasRoom /\ (op \in Changing => MayChange) /\ hub' = hub
  BY DEF Request
<1>2. CASE ClientFor
  <2>1. /\ calls' = Send(calls, op, arg) /\ page' = pg
        /\ UNCHANGED <<hub, alive, record, identity, snapshot, stack>>
    BY <1>2 DEF Request
  <2>. QED
    BY <1>1, <2>1, SendStep
<1>3. CASE ~ClientFor
  BY <1>1, <1>3, DiesStep DEF Request
<1>. QED
  BY <1>2, <1>3

\* A call that is taken, unless it was the load that is heard.
LEMMA TakeKeeps ==
    ASSUME IInv, NEW i \in DOMAIN calls
    PROVE  /\ DOMAIN Take(i) = DOMAIN calls \ {i} /\ DOMAIN Take(i) # Connection
           /\ \A j \in DOMAIN Take(i) : Take(i)[j] = calls[j]
           /\ CallsOK(Top, hub, identity, Take(i)) /\ Budget(hub, Take(i))
           /\ LiveLoads(Take(i)) = LiveLoads(calls) \ {i}
           /\ i \notin LiveLoads(calls) => ListOK(Top, page, Take(i))
<1>1. /\ DOMAIN Take(i) = DOMAIN calls \ {i}
      /\ \A j \in DOMAIN Take(i) : Take(i)[j] = calls[j]
      /\ CallsOK(Top, hub, identity, Take(i)) /\ Budget(hub, Take(i))
      /\ LiveLoads(Take(i)) = LiveLoads(calls) \cap (DOMAIN calls \ {i})
  <2> DEFINE S == DOMAIN calls \ {i}
  <2>1. S \in SUBSET (DOMAIN calls) /\ Take(i) = Restrict(calls, S)
    BY DEF Take
  <2> HIDE DEF S
  <2>2. /\ DOMAIN Restrict(calls, S) = S /\ \A j \in S : Restrict(calls, S)[j] = calls[j]
        /\ CallsOK(Top, hub, identity, Restrict(calls, S)) /\ Budget(hub, Restrict(calls, S))
    BY <2>1, StateFacts, RestrictKeeps
  <2>3. LiveLoads(Restrict(calls, S)) = LiveLoads(calls) \cap S
    BY <2>1, <2>2 DEF LiveLoads
  <2>. QED
    BY <2>1, <2>2, <2>3 DEF S
<1>2. DOMAIN Take(i) # Connection
  BY <1>1, StateFacts
<1>3. LiveLoads(Take(i)) = LiveLoads(calls) \ {i}
  BY <1>1 DEF LiveLoads
<1>4. i \notin LiveLoads(calls) => ListOK(Top, page, Take(i))
  BY <1>1, <1>3, StateFacts DEF ListOK, LiveLoads
<1>. QED
  BY <1>1, <1>2, <1>3, <1>4

\* An answer that is not what a load brings.
LEMMA LandedStep ==
    ASSUME IInv, NEW i \in DOMAIN calls, NEW pg, Landed(i, pg),
           calls[i].live => calls[i].op \notin Loads /\ SameList(pg) /\ PageOK(Top, pg, hub)
    PROVE  IInv' /\ Forward
<1>1. /\ calls' = Take(i) /\ UNCHANGED <<hub, alive, record, identity, snapshot, stack>>
      /\ page' = IF calls[i].live THEN pg ELSE page
  BY DEF Landed
<1>2. SameList(page') /\ PageOK(Top, page', hub) /\ i \notin LiveLoads(calls)
  BY <1>1, StateFacts DEF SameList, LiveLoads
<1>3. ScreenOK(Top, page', hub, identity, calls')
  BY <1>1, <1>2, StateFacts, TakeKeeps, SameListKeeps
<1>4. snapshot => identity
  BY DEF IInv, SessionOK
<1>. QED
  BY <1>1, <1>2, <1>3, <1>4, StateFacts, StayStep, Bounds DEF SameList
(***************************************************************************)
(* The hub.                                                                *)
(***************************************************************************)

LEMMA ChangedFacts ==
    ASSUME hub \in Hub, NEW op, NEW arg \in ArgsOf(op), op \in Changing => hub.at < MaxChanges
    PROVE  /\ Changed(op, arg) \in Hub
           /\ Changed(op, arg).at = IF op \in Changing THEN hub.at + 1 ELSE hub.at
<1> DEFINE at == IF op \in Changing THEN hub.at + 1 ELSE hub.at
           revoked == IF op = "revoke" THEN hub.revoked \cup {arg} ELSE hub.revoked
           banned == CASE op = "ban" -> hub.banned \cup {arg} [] op = "unban" -> hub.banned \ {arg}
                       [] OTHER -> hub.banned
           staged == CASE op = "stage" -> arg [] op \in {"promote", "discard"} -> NoTarget
                       [] OTHER -> hub.staged
           job == CASE op = "reissue" -> "running" [] op = "cancel" -> "ended" [] OTHER -> hub.job
<1>1. Changed(op, arg) = [hub EXCEPT !.at = at, !.revoked = revoked, !.banned = banned,
                                     !.staged = staged, !.job = job]
  BY DEF Changed
<1>2. /\ hub.at \in 0..MaxChanges /\ hub.revoked \in SUBSET Certs /\ hub.banned \in SUBSET Accounts
      /\ hub.staged \in Cas \cup {NoTarget} /\ hub.job \in Job
  BY DEF Hub
<1>3. at \in 0..MaxChanges
  BY <1>2, Bounds
<1>4. revoked \in SUBSET Certs
  BY <1>2 DEF ArgsOf
<1>5. banned \in SUBSET Accounts
  BY <1>2 DEF ArgsOf
<1>6. staged \in Cas \cup {NoTarget}
  BY <1>2 DEF ArgsOf
<1>7. job \in Job
  BY <1>2 DEF Job
<1> HIDE DEF at, revoked, banned, staged, job
<1>8. Changed(op, arg) \in Hub /\ Changed(op, arg).at = at
  BY <1>1, <1>3, <1>4, <1>5, <1>6, <1>7 DEF Hub
<1>. QED
  BY <1>8 DEF at

\* Others change the hub: what the terminal was told stays true of an older state.
LEMMA HubStep ==
    ASSUME IInv, UNCHANGED <<alive, record, identity, snapshot, stack, page, calls>>,
           hub' \in Hub, hub.at <= hub'.at, Budget(hub', calls)
    PROVE  IInv' /\ Forward
<1>1. Top' = Top
  BY DEF Top
<1>2. PageOK(Top, page, hub')
  BY StateFacts, Bounds DEF PageOK, Pages, Answer, Hub
<1>3. \A i \in DOMAIN calls : CallOK(Top, hub', identity, calls[i])
  <2> SUFFICES ASSUME NEW i \in DOMAIN calls
               PROVE  CallOK(Top, hub', identity, calls[i])
    OBVIOUS
  <2>1. CallOK(Top, hub, identity, calls[i])
    BY StateFacts DEF CallsOK
  <2>2. calls[i].got.at \in 0..MaxChanges
    BY <2>1 DEF CallOK, Call, Answer
  <2>. QED
    BY <2>1, <2>2, StateFacts, Bounds DEF CallOK, Hub
<1>4. ScreenOK(Top, page, hub, identity, calls)'
  BY <1>1, <1>2, <1>3, StateFacts DEF ScreenOK, PageOK, CallsOK, CallOK, Budget, ListOK
<1>5. Forward
  BY StateFacts, Bounds DEF Forward
<1>. QED
  BY <1>4, <1>5, StateFacts DEF IInv, SessionOK

LEMMA OtherAdminKeeps ==
    ASSUME IInv, NEW op \in Ops, NEW arg \in ArgsOf(op), OtherAdmin(op, arg)
    PROVE  IInv' /\ Forward
<1>1. /\ op \in Changing => MayChange
      /\ hub' = Changed(op, arg) /\ UNCHANGED <<alive, record, identity, snapshot, stack, page, calls>>
  BY DEF OtherAdmin
<1>2. Cardinality(Pending(calls)) \in Nat /\ hub.at \in Nat
  BY StateFacts, PendingFinite, Bounds DEF Hub
<1>3. op \in Changing => hub.at + Cardinality(Pending(calls)) < MaxChanges
  BY <1>1 DEF MayChange, Pending
<1>4. op \in Changing => hub.at < MaxChanges
  BY <1>2, <1>3, Bounds
<1>5. hub' \in Hub /\ hub'.at = IF op \in Changing THEN hub.at + 1 ELSE hub.at
  BY <1>1, <1>4, StateFacts, ChangedFacts
<1>6. Budget(hub', calls)
  BY <1>2, <1>3, <1>5, StateFacts, Bounds DEF Budget
<1>. QED
  BY <1>1, <1>2, <1>5, <1>6, HubStep

LEMMA JobDoneKeeps ==
    ASSUME IInv, JobDone
    PROVE  IInv' /\ Forward
<1>1. hub' = [hub EXCEPT !.job = "ended"] /\ UNCHANGED <<alive, record, identity, snapshot, stack, page, calls>>
  BY DEF JobDone
<1>2. hub' \in Hub /\ hub'.at = hub.at /\ hub.at \in Nat
  BY <1>1, StateFacts, Bounds DEF Hub, Job
<1>3. Budget(hub', calls)
  BY <1>2, StateFacts DEF Budget
<1>. QED
  BY <1>1, <1>2, <1>3, HubStep

\* The hub handles a call: a load that is heard is told of the newest state.
LEMMA HandleKeeps ==
    ASSUME IInv, NEW i \in DOMAIN calls, Handle(i)
    PROVE  IInv' /\ Forward
<1> DEFINE got == View(hub', calls[i].op, calls[i].arg)
<1>1. /\ ~calls[i].answered /\ hub' = Changed(calls[i].op, calls[i].arg)
      /\ calls' = [calls EXCEPT ![i].answered = TRUE, ![i].got = got]
      /\ UNCHANGED <<alive, record, identity, snapshot, stack, page>>
  BY DEF Handle
<1>2. CallOK(Top, hub, identity, calls[i]) /\ calls[i] \in Call /\ calls[i].arg \in ArgsOf(calls[i].op)
  BY StateFacts DEF CallsOK, CallOK
<1>3. IsFiniteSet(Pending(calls)) /\ Cardinality(Pending(calls)) \in Nat /\ hub.at \in Nat
  BY StateFacts, PendingFinite, Bounds DEF Hub
<1>4. calls[i].op \in Changing => i \in Pending(calls) /\ Cardinality(Pending(calls)) > 0
  <2>1. calls[i].op \in Changing => i \in Pending(calls)
    BY <1>1 DEF Pending
  <2>. QED
    BY <1>3, <2>1, FS_EmptySet
<1>5. hub' \in Hub /\ hub'.at = IF calls[i].op \in Changing THEN hub.at + 1 ELSE hub.at
  <2>1. calls[i].op \in Changing => hub.at < MaxChanges
    BY <1>3, <1>4, StateFacts, Bounds DEF Budget
  <2>. QED
    BY <1>1, <1>2, <2>1, StateFacts, ChangedFacts
<1>6. /\ got \in Answer /\ got.at <= hub'.at
      /\ calls[i].op \in {"certs", "accounts"} => got.at = hub'.at
      /\ got.filter = (calls[i].op = "certs" /\ calls[i].arg = Valid)
  BY <1>5, ViewFacts
<1> HIDE DEF got
<1>7. /\ DOMAIN calls' = DOMAIN calls /\ \A j \in DOMAIN calls : j # i => calls'[j] = calls[j]
      /\ calls'[i] \in Call /\ calls'[i].op = calls[i].op /\ calls'[i].arg = calls[i].arg
      /\ calls'[i].live = calls[i].live /\ calls'[i].answered /\ calls'[i].got = got
  BY <1>1, <1>2, <1>6 DEF Call
<1>8. Budget(hub', calls')
  <2>1. Pending(calls') = Pending(calls) \ {i}
    BY <1>7 DEF Pending
  <2>2. CASE calls[i].op \in Changing
    <3>1. Cardinality(Pending(calls')) = Cardinality(Pending(calls)) - 1
      BY <1>3, <1>4, <2>1, <2>2, FS_RemoveElement
    <3>. QED
      BY <1>3, <1>5, <2>2, <3>1, StateFacts, Bounds DEF Budget
  <2>3. CASE calls[i].op \notin Changing
    <3>1. Pending(calls') = Pending(calls)
      BY <2>1, <2>3 DEF Pending
    <3>. QED
      BY <1>5, <2>3, <3>1, StateFacts DEF Budget
  <2>. QED
    BY <2>2, <2>3
<1>9. hub.at <= hub'.at /\ hub'.at \in Nat
  BY <1>3, <1>5
<1>10. PageOK(Top, page, hub')
  BY <1>3, <1>9, StateFacts, Bounds DEF PageOK, Pages, Answer
<1>11. \A j \in DOMAIN calls' : CallOK(Top, hub', identity, calls'[j])
  <2> SUFFICES ASSUME NEW j \in DOMAIN calls'
               PROVE  CallOK(Top, hub', identity, calls'[j])
    OBVIOUS
  <2>1. CASE j = i
    BY <1>2, <1>6, <1>7, <2>1 DEF CallOK
  <2>2. CASE j # i
    <3>1. calls'[j] = calls[j] /\ CallOK(Top, hub, identity, calls[j])
      BY <1>7, <2>2, StateFacts DEF CallsOK
    <3>2. calls[j].got.at \in 0..MaxChanges
      BY <3>1 DEF CallOK, Call, Answer
    <3>. QED
      BY <1>3, <1>9, <3>1, <3>2, Bounds DEF CallOK
  <2>. QED
    BY <2>1, <2>2
<1>12. LiveLoads(calls') = LiveLoads(calls)
  BY <1>7 DEF LiveLoads
<1>13. \A j \in LiveLoads(calls') : LoadOK(Top, page, calls'[j])
  <2> SUFFICES ASSUME NEW j \in LiveLoads(calls)
               PROVE  LoadOK(Top, page, calls'[j])
    BY <1>12
  <2>1. LoadOK(Top, page, calls[j]) /\ j \in DOMAIN calls /\ calls[j].live /\ calls[j].op \in Loads
    BY StateFacts DEF ListOK, LiveLoads
  <2>2. CASE j = i
    <3>1. calls[i].op \in OpsOf(Top)
      BY <1>2, <2>1, <2>2 DEF CallOK
    <3>2. CASE Top \in ListScreens
      <4>1. calls[i].op \in {"certs", "accounts"} /\ (calls[i].op = "certs" <=> Top = "remote-certs")
        BY <2>1, <2>2, <3>1, <3>2, LoadsAre DEF OpsOf, ListScreens
      <4>2. page.filter \in BOOLEAN /\ (page.filter => Top = "remote-certs") /\ got.filter \in BOOLEAN
        BY <1>6, StateFacts DEF PageOK, Pages, Answer
      <4>3. got.filter = page.filter
        BY <1>6, <2>1, <2>2, <3>2, <4>1, <4>2 DEF LoadOK
      <4>4. got.at >= page.shown.at /\ got.at >= page.acked
        BY <1>6, <1>10, <4>1 DEF PageOK, Pages, Answer
      <4>. QED
        BY <1>7, <2>1, <2>2, <3>2, <4>3, <4>4 DEF LoadOK, ListScreens
    <3>3. CASE Top \notin ListScreens
      BY <2>1, <3>3 DEF LoadOK
    <3>. QED
      BY <3>2, <3>3
  <2>3. CASE j # i
    BY <1>7, <2>1, <2>3
  <2>. QED
    BY <2>2, <2>3
<1>14. ListOK(Top, page, calls')
  BY <1>12, <1>13, StateFacts DEF ListOK
<1>15. CallsOK(Top, hub', identity, calls')
  BY <1>7, <1>11, StateFacts DEF CallsOK
<1>16. Top' = Top
  BY <1>1 DEF Top
<1>17. ScreenOK(Top, page, hub, identity, calls)'
  BY <1>1, <1>8, <1>10, <1>14, <1>15, <1>16 DEF ScreenOK, PageOK, CallsOK, CallOK, Budget, ListOK
<1>18. Forward
  BY <1>1, StateFacts, Bounds DEF Forward
<1>. QED
  BY <1>1, <1>5, <1>17, <1>18, StateFacts DEF IInv, SessionOK
(***************************************************************************)
(* Navigation.                                                             *)
(***************************************************************************)

LEMMA Unchanged ==
    ASSUME IInv
    PROVE  /\ ScreenOK(Top, page, hub, identity, calls) /\ SessionOK(alive, record, identity, snapshot)
           /\ SameList(page)
BY DEF IInv, SameList

LEMMA PushKeeps ==
    ASSUME IInv, NEW screen \in Screens, Push(screen), UNCHANGED <<hub, alive, record, identity, snapshot>>
    PROVE  IInv' /\ Forward
<1>1. ShowFor(ClientFor, Append(stack, screen), calls) /\ DOMAIN calls # Connection
  BY DEF Push, Show, HasRoom
<1>2. SessionOK(alive, record, identity, snapshot)'
  BY Unchanged DEF SessionOK
<1>. QED
  BY <1>1, <1>2, Unchanged, StateFacts, PushedStack, ShowStep

LEMMA PopKeeps ==
    ASSUME IInv, NEW client \in BOOLEAN, Pop(client), hub' = hub,
           SessionOK(alive, record, identity, snapshot)', client => identity'
    PROVE  IInv' /\ Forward
<1> DEFINE s == IF Len(stack) > 1 THEN Front(stack) ELSE stack
<1>1. ShowFor(client, s, calls) /\ DOMAIN calls # Connection
  BY DEF Pop, HasRoom
<1>2. StackOK(s)
  BY StateFacts, PoppedStack
<1> HIDE DEF s
<1>. QED
  BY <1>1, <1>2, Unchanged, StateFacts, ShowStep

LEMMA OpenHubsKeeps ==
    ASSUME IInv, OpenHubs
    PROVE  IInv' /\ Forward
BY PushKeeps DEF OpenHubs, Screens

LEMMA AddHubKeeps ==
    ASSUME IInv, AddHub
    PROVE  IInv' /\ Forward
BY PushKeeps DEF AddHub, Screens

LEMMA VisitKeeps ==
    ASSUME IInv, NEW screen \in {"remote-certs", "remote-accounts", "remote-stats", "remote-ca-verify",
                                 "remote-ca-rotate"}, Visit(screen)
    PROVE  IInv' /\ Forward
BY PushKeeps DEF Visit, Screens

LEMMA OpenDetailsKeeps ==
    ASSUME IInv, OpenDetails
    PROVE  IInv' /\ Forward
BY PushKeeps DEF OpenDetails, Screens

LEMMA BackKeeps ==
    ASSUME IInv, Back
    PROVE  IInv' /\ Forward
<1>1. Pop(ClientFor) /\ UNCHANGED <<hub, alive, record, identity, snapshot>>
  BY DEF Back
<1>2. SessionOK(alive, record, identity, snapshot)'
  BY <1>1, Unchanged DEF SessionOK
<1>. QED
  BY <1>1, <1>2, StateFacts, PopKeeps

LEMMA TrustHubKeeps ==
    ASSUME IInv, TrustHub
    PROVE  IInv' /\ Forward
<1>1. Pop(ClientFor) /\ record' = "kept" /\ UNCHANGED <<hub, alive, identity, snapshot>>
  BY DEF TrustHub
<1>2. SessionOK(alive, record, identity, snapshot)'
  BY <1>1, Unchanged DEF SessionOK
<1>. QED
  BY <1>1, <1>2, StateFacts, PopKeeps

LEMMA DisconnectKeeps ==
    ASSUME IInv, Disconnect
    PROVE  IInv' /\ Forward
<1>1. Pop(FALSE) /\ identity' = FALSE /\ snapshot' = FALSE /\ UNCHANGED <<hub, alive, record>>
  BY DEF Disconnect
<1>2. SessionOK(alive, record, identity, snapshot)'
  BY <1>1, Unchanged DEF SessionOK
<1>. QED
  BY <1>1, <1>2, PopKeeps

LEMMA RemoveHubKeeps ==
    ASSUME IInv, RemoveHub
    PROVE  IInv' /\ Forward
<1>1. record' = "removed" /\ UNCHANGED <<hub, alive, identity, snapshot, stack, page, calls>>
  BY DEF RemoveHub
<1>2. SessionOK(alive, record, identity, snapshot)'
  BY <1>1, Unchanged DEF SessionOK
<1>3. Top' = Top
  BY <1>1 DEF Top
<1>4. ScreenOK(Top, page, hub, identity, calls)'
  BY <1>1, <1>3, Unchanged DEF ScreenOK, PageOK, CallsOK, CallOK, Budget, ListOK
<1>5. Forward
  BY <1>1, StateFacts, Bounds DEF Forward
<1>. QED
  BY <1>1, <1>2, <1>4, <1>5, StateFacts DEF IInv

(***************************************************************************)
(* Forms and requests.                                                     *)
(***************************************************************************)

\* What is not shown of a list may change, except for a row that is confirmed.
LEMMA FormOK ==
    ASSUME IInv, NEW pg \in Pages, SameList(pg),
           pg.step = "confirm" => /\ Top = "remote-certs" => pg.target \in Certs
                                  /\ Top = "remote-accounts" => pg.target \in Accounts
                                  /\ Top = "remote-ca-rotate" => pg.target \in Cas
    PROVE  PageOK(Top, pg, hub)
BY StateFacts DEF PageOK, SameList

LEMMA StartProbeKeeps ==
    ASSUME IInv, StartProbe
    PROVE  IInv' /\ Forward
<1>1. /\ Top = "add-hub" /\ HasRoom /\ page' = [page EXCEPT !.step = "busy"]
      /\ calls' = Send(calls, "probe", NoTarget)
      /\ UNCHANGED <<hub, alive, record, identity, snapshot, stack>>
  BY DEF StartProbe, On
<1>2. page' \in Pages /\ SameList(page') /\ page'.step = "busy"
  BY <1>1, StateFacts DEF Pages, SameList
<1>3. /\ "probe" \in OpsOf(Top) \cap Ops /\ "probe" \notin Loads /\ "probe" \notin Changing
      /\ NoTarget \in ArgsOf("probe") \cap Target
  BY <1>1, OpsAre, LoadsAre DEF OpsOf, Changing, ArgsOf, Target
<1>. QED
  BY <1>1, <1>2, <1>3, FormOK, SendStep

LEMMA ConnectKeeps ==
    ASSUME IInv, Connect
    PROVE  IInv' /\ Forward
<1>1. /\ Top = "hubs" /\ HasRoom /\ calls' = Send(calls, "connect", NoTarget)
      /\ UNCHANGED <<hub, alive, record, identity, snapshot, stack, page>>
  BY DEF Connect, On
<1>2. /\ "connect" \in OpsOf(Top) \cap Ops /\ "connect" \notin Loads /\ "connect" \notin Changing
      /\ NoTarget \in ArgsOf("connect") \cap Target
  BY <1>1, OpsAre, LoadsAre DEF OpsOf, Changing, ArgsOf, Target
<1>3. SameList(page') /\ PageOK(Top, page', hub)
  BY <1>1, StateFacts DEF SameList
<1>. QED
  BY <1>1, <1>2, <1>3, SendStep

LEMMA VerifyKeeps ==
    ASSUME IInv, Verify
    PROVE  IInv' /\ Forward
<1>1. /\ Top = "remote-ca-verify" /\ HasRoom /\ page' = [page EXCEPT !.step = "busy"]
      /\ calls' = Send(calls, "verify", NoTarget)
      /\ UNCHANGED <<hub, alive, record, identity, snapshot, stack>>
  BY DEF Verify, On
<1>2. page' \in Pages /\ SameList(page') /\ page'.step = "busy"
  BY <1>1, StateFacts DEF Pages, SameList
<1>3. /\ "verify" \in OpsOf(Top) \cap Ops /\ "verify" \notin Loads /\ "verify" \notin Changing
      /\ NoTarget \in ArgsOf("verify") \cap Target
  BY <1>1, OpsAre, LoadsAre DEF OpsOf, Changing, ArgsOf, Target
<1>. QED
  BY <1>1, <1>2, <1>3, FormOK, SendStep

LEMMA PollKeeps ==
    ASSUME IInv, Poll
    PROVE  IInv' /\ Forward
<1>1. Top = "job-progress" /\ HasRoom /\ UNCHANGED <<hub, alive, record, identity, snapshot, stack>>
  BY DEF Poll, On
<1>2. CASE ClientFor
  <2>1. calls' = Send(calls, "job", NoTarget) /\ page' = page
    BY <1>2 DEF Poll
  <2>2. /\ "job" \in OpsOf(Top) \cap Ops /\ "job" \notin Loads /\ "job" \notin Changing
        /\ NoTarget \in ArgsOf("job") \cap Target
    BY <1>1, OpsAre, LoadsAre DEF OpsOf, Changing, ArgsOf, Target
  <2>3. SameList(page') /\ PageOK(Top, page', hub)
    BY <2>1, StateFacts DEF SameList
  <2>. QED
    BY <1>1, <2>1, <2>2, <2>3, SendStep
<1>3. CASE ~ClientFor
  <2>1. calls' = calls /\ page' = [page EXCEPT !.err = TRUE]
    BY <1>3 DEF Poll
  <2>2. page' \in Pages /\ \A f \in {"shown", "filter", "step", "target", "acked"} : page'[f] = page[f]
    BY <2>1, StateFacts DEF Pages
  <2>3. PageOK(Top, page', hub)
    BY <2>2, StateFacts DEF PageOK
  <2>4. ListOK(Top, page', calls)
    BY <1>1, StateFacts DEF ListOK, LoadOK, ListScreens
  <2>5. ScreenOK(Top, page', hub, identity, calls')
    BY <2>1, <2>3, <2>4, StateFacts DEF ScreenOK
  <2>6. snapshot => identity
    BY DEF IInv, SessionOK
  <2>. QED
    BY <1>1, <2>2, <2>5, <2>6, StateFacts, StayStep, Bounds
<1>. QED
  BY <1>2, <1>3

LEMMA StepBackKeeps ==
    ASSUME IInv, StepBack
    PROVE  IInv' /\ Forward
<1>1. /\ UNCHANGED <<hub, alive, record, identity, snapshot, stack, calls>>
      /\ page' = IF page.asking THEN [page EXCEPT !.asking = FALSE]
                 ELSE [page EXCEPT !.step = "start", !.target = NoTarget, !.isBanned = FALSE]
  BY DEF StepBack
<1>2. /\ page' \in Pages /\ SameList(page')
      /\ page'.step = "start" \/ (page'.step = page.step /\ page'.target = page.target)
  BY <1>1, StateFacts DEF Pages, SameList, Target
<1>3. PageOK(Top, page', hub)
  BY <1>2, StateFacts, FormOK DEF PageOK
<1>. QED
  BY <1>1, <1>2, <1>3, FormStep

LEMMA ChooseCertKeeps ==
    ASSUME IInv, NEW c \in Certs, ChooseCert(c)
    PROVE  IInv' /\ Forward
<1>1. /\ UNCHANGED <<hub, alive, record, identity, snapshot, stack, calls>> /\ Top = "remote-certs"
      /\ page' = [page EXCEPT !.step = "confirm", !.target = c]
  BY DEF ChooseCert, On
<1>2. page' \in Pages /\ SameList(page') /\ page'.target \in Certs
  BY <1>1, StateFacts DEF Pages, SameList, Target
<1>. QED
  BY <1>1, <1>2, FormOK, FormStep

LEMMA ChooseAccountKeeps ==
    ASSUME IInv, NEW a \in Accounts, ChooseAccount(a)
    PROVE  IInv' /\ Forward
<1> DEFINE isBanned == a \in page.shown.banned
<1>1. /\ UNCHANGED <<hub, alive, record, identity, snapshot, stack, calls>> /\ Top = "remote-accounts"
      /\ page' = [page EXCEPT !.step = "confirm", !.target = a, !.isBanned = isBanned]
      /\ isBanned \in BOOLEAN
  BY DEF ChooseAccount, On
<1> HIDE DEF isBanned
<1>2. page' \in Pages /\ SameList(page') /\ page'.target \in Accounts
  BY <1>1, StateFacts DEF Pages, SameList, Target
<1>. QED
  BY <1>1, <1>2, FormOK, FormStep

LEMMA PickCandidateKeeps ==
    ASSUME IInv, NEW ca \in Cas, PickCandidate(ca)
    PROVE  IInv' /\ Forward
<1>1. /\ UNCHANGED <<hub, alive, record, identity, snapshot, stack, calls>> /\ Top = "remote-ca-rotate"
      /\ page' = [page EXCEPT !.step = "confirm", !.target = ca]
  BY DEF PickCandidate, On
<1>2. page' \in Pages /\ SameList(page') /\ page'.target \in Cas
  BY <1>1, StateFacts DEF Pages, SameList, Target
<1>. QED
  BY <1>1, <1>2, FormOK, FormStep

LEMMA AskPromoteKeeps ==
    ASSUME IInv, AskPromote
    PROVE  IInv' /\ Forward
<1>1. /\ UNCHANGED <<hub, alive, record, identity, snapshot, stack, calls>> /\ page.step = "staged"
      /\ page' = [page EXCEPT !.asking = TRUE]
  BY DEF AskPromote
<1>2. page' \in Pages /\ SameList(page') /\ page'.step = "staged"
  BY <1>1, StateFacts DEF Pages, SameList
<1>. QED
  BY <1>1, <1>2, FormOK, FormStep

LEMMA ConfirmRevokeKeeps ==
    ASSUME IInv, ConfirmRevoke
    PROVE  IInv' /\ Forward
<1> DEFINE pg == [page EXCEPT !.step = "start", !.target = NoTarget]
<1>1. Top = "remote-certs" /\ page.step = "confirm" /\ Request("revoke", page.target, pg)
  BY DEF ConfirmRevoke, On
<1>2. pg \in Pages /\ SameList(pg) /\ pg.step = "start"
  BY StateFacts DEF Pages, SameList, Target
<1> HIDE DEF pg
<1>3. PageOK(Top, pg, hub)
  BY <1>2, FormOK
<1>4. page.target \in Certs
  BY <1>1, StateFacts DEF PageOK
<1>5. "revoke" \in OpsOf(Top) \cap Ops /\ "revoke" \notin Loads /\ page.target \in ArgsOf("revoke") \cap Target
  BY <1>1, <1>4, OpsAre, LoadsAre DEF OpsOf, ArgsOf, Target
<1>. QED
  BY <1>1, <1>2, <1>3, <1>5, RequestStep

LEMMA ConfirmBanKeeps ==
    ASSUME IInv, ConfirmBan
    PROVE  IInv' /\ Forward
<1> DEFINE pg == [page EXCEPT !.step = "start", !.target = NoTarget, !.isBanned = FALSE]
           op == IF page.isBanned THEN "unban" ELSE "ban"
<1>1. Top = "remote-accounts" /\ page.step = "confirm" /\ Request(op, page.target, pg)
  BY DEF ConfirmBan, On
<1>2. pg \in Pages /\ SameList(pg) /\ pg.step = "start"
  BY StateFacts DEF Pages, SameList, Target
<1> HIDE DEF pg
<1>3. PageOK(Top, pg, hub)
  BY <1>2, FormOK
<1>4. page.target \in Accounts
  BY <1>1, StateFacts DEF PageOK
<1>5. op \in OpsOf(Top) \cap Ops /\ op \notin Loads /\ page.target \in ArgsOf(op) \cap Target
  BY <1>1, <1>4, OpsAre, LoadsAre DEF OpsOf, ArgsOf, Target
<1> HIDE DEF op
<1>. QED
  BY <1>1, <1>2, <1>3, <1>5, RequestStep

LEMMA ConfirmStageKeeps ==
    ASSUME IInv, ConfirmStage
    PROVE  IInv' /\ Forward
<1> DEFINE pg == [page EXCEPT !.step = "busy"]
<1>1. Top = "remote-ca-rotate" /\ page.step = "confirm" /\ Request("stage", page.target, pg)
  BY DEF ConfirmStage, On
<1>2. pg \in Pages /\ SameList(pg) /\ pg.step = "busy"
  BY StateFacts DEF Pages, SameList
<1> HIDE DEF pg
<1>3. PageOK(Top, pg, hub)
  BY <1>2, FormOK
<1>4. page.target \in Cas
  BY <1>1, StateFacts DEF PageOK
<1>5. "stage" \in OpsOf(Top) \cap Ops /\ "stage" \notin Loads /\ page.target \in ArgsOf("stage") \cap Target
  BY <1>1, <1>4, OpsAre, LoadsAre DEF OpsOf, ArgsOf, Target
<1>. QED
  BY <1>1, <1>2, <1>3, <1>5, RequestStep

LEMMA ConfirmPromoteKeeps ==
    ASSUME IInv, ConfirmPromote
    PROVE  IInv' /\ Forward
<1> DEFINE pg == [page EXCEPT !.asking = FALSE]
<1>1. Top = "remote-ca-rotate" /\ page.step = "staged" /\ Request("promote", NoTarget, pg)
  BY DEF ConfirmPromote, On
<1>2. pg \in Pages /\ SameList(pg) /\ pg.step = "staged"
  BY <1>1, StateFacts DEF Pages, SameList
<1> HIDE DEF pg
<1>3. PageOK(Top, pg, hub)
  BY <1>2, FormOK
<1>4. "promote" \in OpsOf(Top) \cap Ops /\ "promote" \notin Loads /\ NoTarget \in ArgsOf("promote") \cap Target
  BY <1>1, OpsAre, LoadsAre DEF OpsOf, ArgsOf, Target
<1>. QED
  BY <1>1, <1>2, <1>3, <1>4, RequestStep

\* Requests that leave the screen as it is.
LEMMA PlainRequestKeeps ==
    ASSUME IInv, NEW op \in {"discard", "rollback", "reissue", "cancel"}, op \in OpsOf(Top),
           Request(op, NoTarget, page)
    PROVE  IInv' /\ Forward
<1>1. op \in Ops /\ op \notin Loads /\ NoTarget \in ArgsOf(op) \cap Target
  BY OpsAre, LoadsAre DEF ArgsOf, Target
<1>. QED
  BY <1>1, Unchanged, StateFacts, RequestStep

LEMMA DiscardKeeps ==
    ASSUME IInv, Discard
    PROVE  IInv' /\ Forward
BY PlainRequestKeeps DEF Discard, On, OpsOf

LEMMA RollbackKeeps ==
    ASSUME IInv, Rollback
    PROVE  IInv' /\ Forward
BY PlainRequestKeeps DEF Rollback, On, OpsOf

LEMMA ReissueKeeps ==
    ASSUME IInv, Reissue
    PROVE  IInv' /\ Forward
BY PlainRequestKeeps DEF Reissue, On, OpsOf

LEMMA CancelJobKeeps ==
    ASSUME IInv, CancelJob
    PROVE  IInv' /\ Forward
BY PlainRequestKeeps DEF CancelJob, On, OpsOf

LEMMA RefreshKeeps ==
    ASSUME IInv, Refresh
    PROVE  IInv' /\ Forward
<1>1. /\ Top \in {"remote-certs", "remote-accounts", "remote-stats"} /\ DOMAIN calls # Connection
      /\ Reload(calls, page) /\ UNCHANGED <<hub, alive, record, identity, snapshot, stack>>
  BY DEF Refresh, HasRoom
<1>2. Top \in DOMAIN Lists /\ Top # "remote-hub"
  BY <1>1, LoadsAre
<1>. QED
  BY <1>1, <1>2, StateFacts, ReloadStep

LEMMA RedrawKeeps ==
    ASSUME IInv, Redraw
    PROVE  IInv' /\ Forward
<1>1. /\ Top = "remote-hub" /\ ~page.shown.loaded /\ DOMAIN calls # Connection
      /\ Reload(calls, page) /\ UNCHANGED <<hub, alive, record, identity, snapshot, stack>>
  BY DEF Redraw, HasRoom, On
<1>2. Top \in DOMAIN Lists
  BY <1>1, LoadsAre
<1>. QED
  BY <1>1, <1>2, StateFacts, ReloadStep

LEMMA ToggleFilterKeeps ==
    ASSUME IInv, ToggleFilter
    PROVE  IInv' /\ Forward
<1> DEFINE pg == [page EXCEPT !.filter = ~@]
<1>1. /\ Top = "remote-certs" /\ DOMAIN calls # Connection
      /\ Reload(calls, pg) /\ UNCHANGED <<hub, alive, record, identity, snapshot, stack>>
  BY DEF ToggleFilter, HasRoom, On
<1>2. pg \in Pages /\ \A f \in {"shown", "step", "target", "acked"} : pg[f] = page[f]
  BY StateFacts DEF Pages
<1> HIDE DEF pg
<1>3. PageOK(Top, pg, hub)
  BY <1>1, <1>2, StateFacts DEF PageOK
<1>4. Top \in DOMAIN Lists /\ Top # "remote-hub"
  BY <1>1, LoadsAre
<1>. QED
  BY <1>1, <1>2, <1>3, <1>4, StateFacts, ReloadStep
(***************************************************************************)
(* Answers.                                                                *)
(***************************************************************************)

\* A callback that is heard is one of the screen shown.
LEMMA Heard ==
    ASSUME IInv, NEW i \in DOMAIN calls, calls[i].live
    PROVE  /\ calls[i].op \in OpsOf(Top) /\ (calls[i].op = "info" => identity)
           /\ calls[i].op \in Loads => /\ i \in LiveLoads(calls) /\ LoadOK(Top, page, calls[i])
                                       /\ LiveLoads(Take(i)) = {}
<1>1. CallOK(Top, hub, identity, calls[i])
  BY StateFacts DEF CallsOK
<1>2. calls[i].op \in Loads => i \in LiveLoads(calls)
  BY DEF LiveLoads
<1>3. calls[i].op \in Loads => \A j \in LiveLoads(calls) : j = i
  BY <1>2, StateFacts DEF ListOK
<1>4. LiveLoads(Take(i)) = LiveLoads(calls) \ {i}
  BY TakeKeeps
<1>. QED
  BY <1>1, <1>2, <1>3, <1>4, StateFacts DEF CallOK, ListOK

LEMMA AnswerFacts ==
    ASSUME IInv, NEW i \in DOMAIN calls
    PROVE  /\ calls[i].got \in Answer /\ calls[i].live \in BOOLEAN /\ calls[i].op \in Ops
           /\ calls[i].answered => calls[i].got.at <= hub.at
BY StateFacts DEF CallsOK, CallOK, Call

\* An answer to which nobody listens, or that sets nothing.
LEMMA TakenStep ==
    ASSUME IInv, NEW i \in DOMAIN calls, calls[i].live => calls[i].op \notin Loads, calls' = Take(i),
           UNCHANGED <<hub, alive, record, identity, snapshot, stack, page>>
    PROVE  IInv' /\ Forward
<1>1. Landed(i, page)
  BY DEF Landed
<1>. QED
  BY <1>1, Unchanged, StateFacts, LandedStep

LEMMA LandLoadKeeps ==
    ASSUME IInv, NEW i \in DOMAIN calls, NEW ok \in BOOLEAN, LandLoad(i, ok)
    PROVE  IInv' /\ Forward
<1> DEFINE pg == IF ok THEN [page EXCEPT !.shown = calls[i].got] ELSE [page EXCEPT !.err = TRUE]
<1>1. /\ calls[i].op \in (Loads \ {"info"}) \cup {"job"} /\ (ok => calls[i].answered)
      /\ Landed(i, pg)
  BY DEF LandLoad, Returns
<1>2. CASE ~calls[i].live
  BY <1>1, <1>2, LandedStep
<1>3. CASE calls[i].live
  <2>1. /\ calls' = Take(i) /\ page' = pg
        /\ UNCHANGED <<hub, alive, record, identity, snapshot, stack>>
    BY <1>1, <1>3 DEF Landed
  <2>2. calls[i].op \in OpsOf(Top) /\ Top # "remote-hub"
    BY <1>1, <1>3, Heard, LoadsAre DEF OpsOf
  <2>3. CallsOK(Top, hub, identity, calls') /\ Budget(hub, calls')
    BY <2>1, TakeKeeps
  <2>4. \/ calls[i].op \in Loads /\ LiveLoads(calls') = {} /\ LoadOK(Top, page, calls[i])
        \/ Top = "job-progress"
    BY <1>1, <1>3, <2>1, <2>2, Heard, LoadsAre DEF OpsOf
  <2>7. \A j, k \in LiveLoads(calls') : j = k
    <3>1. \A j, k \in LiveLoads(calls) : j = k
      BY StateFacts DEF ListOK
    <3>2. LiveLoads(calls') = LiveLoads(calls) \ {i}
      BY <2>1, TakeKeeps
    <3>. QED
      BY <3>1, <3>2
  <2>5. CASE ok
    <3>1. /\ page' \in Pages /\ page'.shown = calls[i].got /\ calls[i].got.at <= hub.at
          /\ \A f \in {"filter", "step", "target", "acked", "err"} : page'[f] = page[f]
      BY <1>1, <2>1, <2>5, StateFacts, AnswerFacts DEF Pages
    <3>2. PageOK(Top, page', hub)
      BY <3>1, StateFacts DEF PageOK
    <3>3. CASE calls[i].op \in Loads /\ LiveLoads(calls') = {} /\ LoadOK(Top, page, calls[i])
      <4>1. ListOK(Top, page', calls')
        BY <1>1, <2>5, <3>1, <3>3 DEF ListOK, LoadOK
      <4>2. Top \in ListScreens => page'.shown.at >= page.shown.at
        BY <1>1, <2>5, <3>1, <3>3 DEF LoadOK
      <4>. QED
        BY <2>1, <2>3, <3>2, <4>1, <4>2, Unchanged, StateFacts, StayStep DEF ScreenOK, SessionOK
    <3>4. CASE Top = "job-progress"
      <4>1. \A j, k \in LiveLoads(calls') : j = k
        BY <2>7
      <4>2. ListOK(Top, page', calls')
        BY <3>4, <4>1 DEF ListOK, LoadOK, ListScreens
      <4>. QED
        BY <2>1, <2>3, <3>2, <3>4, <4>2, Unchanged, StateFacts, StayStep DEF ScreenOK, SessionOK, ListScreens
    <3>. QED
      BY <2>4, <3>3, <3>4
  <2>6. CASE ~ok
    <3>1. /\ page' \in Pages /\ page'.err
          /\ \A f \in {"shown", "filter", "step", "target", "acked"} : page'[f] = page[f]
      BY <2>1, <2>6, StateFacts DEF Pages
    <3>2. PageOK(Top, page', hub)
      BY <3>1, StateFacts DEF PageOK
    <3>3. \A j, k \in LiveLoads(calls') : j = k
      BY <2>7
    <3>4. \A j \in LiveLoads(calls') : calls'[j] = calls[j] /\ j \in LiveLoads(calls)
      BY <2>1, TakeKeeps DEF LiveLoads
    <3>5. ListOK(Top, page', calls')
      BY <3>1, <3>3, <3>4, StateFacts DEF ListOK, LoadOK
    <3>. QED
      BY <2>1, <2>3, <3>1, <3>2, <3>5, Unchanged, StateFacts, StayStep, Bounds DEF ScreenOK, SessionOK
  <2>. QED
    BY <2>5, <2>6
<1>. QED
  BY <1>2, <1>3, AnswerFacts

LEMMA LandInfoKeeps ==
    ASSUME IInv, NEW i \in DOMAIN calls, NEW ok \in BOOLEAN, LandInfo(i, ok)
    PROVE  IInv' /\ Forward
<1>1. /\ calls[i].op = "info" /\ UNCHANGED <<hub, alive, record, identity, stack>>
      /\ snapshot' = (snapshot \/ (ok /\ calls[i].live))
  BY DEF LandInfo, Returns
<1>2. CASE ~calls[i].live
  <2>1. calls' = Take(i) /\ page' = page /\ snapshot' = snapshot
    BY <1>1, <1>2, StateFacts DEF LandInfo
  <2>. QED
    BY <1>1, <1>2, <2>1, TakenStep
<1>3. CASE calls[i].live
  <2>1. /\ Top = "remote-hub" /\ identity /\ LiveLoads(Take(i)) = {} /\ ~page.shown.loaded
    BY <1>1, <1>3, Heard, StateFacts, LoadsAre DEF OpsOf, LoadOK, Screens
  <2>2. /\ CallsOK(Top, hub, identity, Take(i)) /\ Budget(hub, Take(i)) /\ DOMAIN Take(i) # Connection
    BY TakeKeeps
  <2>3. CASE ok
    <3>1. calls' = Take(i) /\ page' = [page EXCEPT !.shown.loaded = TRUE] /\ snapshot' = TRUE
      BY <1>1, <1>3, <2>3 DEF LandInfo
    <3>2. page'.shown = [page.shown EXCEPT !.loaded = TRUE]
      BY <3>1, StateFacts DEF Pages
    <3>3. page.shown \in Answer /\ page'.shown \in Answer /\ page'.shown.at = page.shown.at
      BY <3>2, StateFacts DEF Pages, Answer
    <3>4. page' \in Pages /\ \A f \in {"filter", "step", "target", "acked"} : page'[f] = page[f]
      BY <3>1, <3>2, <3>3, StateFacts DEF Pages
    <3>5. PageOK(Top, page', hub)
      BY <3>3, <3>4, StateFacts DEF PageOK
    <3>6. ListOK(Top, page', calls')
      BY <2>1, <3>1 DEF ListOK, ListScreens
    <3>. QED
      BY <1>1, <2>1, <2>2, <3>1, <3>5, <3>6, StayStep DEF ScreenOK, ListScreens
  <2>4. CASE ~ok
    <3>1. snapshot' = snapshot
      BY <1>1, <2>4, StateFacts
    <3>2. CASE calls' = Take(i) /\ page' = page
      <4>1. ListOK(Top, page, Take(i))
        BY <2>1 DEF ListOK, ListScreens
      <4>. QED
        BY <1>1, <2>1, <2>2, <3>1, <3>2, <4>1, StateFacts, StayStep DEF ScreenOK, ListScreens
    <3>3. CASE Reload(Take(i), [page EXCEPT !.err = TRUE])
      <4> DEFINE pg == [page EXCEPT !.err = TRUE]
      <4>1. pg \in Pages /\ \A f \in {"shown", "filter", "step", "target", "acked"} : pg[f] = page[f]
        BY StateFacts DEF Pages
      <4>2. Reload(Take(i), pg)
        BY <3>3
      <4> HIDE DEF pg
      <4>3. PageOK(Top, pg, hub)
        BY <4>1, StateFacts DEF PageOK
      <4>4. Top \in DOMAIN Lists /\ pg.shown = page.shown /\ ~pg.shown.loaded
        BY <2>1, <4>1, LoadsAre
      <4>. QED
        BY <1>1, <2>2, <3>1, <4>2, <4>3, <4>4, ReloadStep
    <3>. QED
      BY <1>3, <2>4, <3>2, <3>3 DEF LandInfo
  <2>. QED
    BY <2>3, <2>4
<1>. QED
  BY <1>2, <1>3, AnswerFacts

LEMMA LandChangeKeeps ==
    ASSUME IInv, NEW i \in DOMAIN calls, NEW ok \in BOOLEAN, LandChange(i, ok)
    PROVE  IInv' /\ Forward
<1>1. calls[i].op \in {"revoke", "ban", "unban"} /\ (ok => calls[i].answered) /\ calls[i].op \notin Loads
  BY LoadsAre DEF LandChange, Returns
<1>2. CASE ok /\ calls[i].live
  <2> DEFINE acked == IF page.acked < calls[i].got.at THEN calls[i].got.at ELSE page.acked
             pg == [page EXCEPT !.acked = acked]
  <2>1. Reload(Take(i), pg) /\ UNCHANGED <<hub, alive, record, identity, snapshot, stack>>
    BY <1>2 DEF LandChange
  <2>2. acked \in 0..MaxChanges /\ acked <= hub.at
    BY <1>1, <1>2, AnswerFacts, StateFacts, Bounds DEF PageOK, Pages, Answer
  <2> HIDE DEF acked
  <2>3. pg \in Pages /\ pg.acked = acked /\ \A f \in {"shown", "filter", "step", "target"} : pg[f] = page[f]
    BY <2>2, StateFacts DEF Pages
  <2> HIDE DEF pg
  <2>4. PageOK(Top, pg, hub)
    BY <2>2, <2>3, StateFacts DEF PageOK
  <2>5. Top \in DOMAIN Lists /\ Top # "remote-hub"
    BY <1>1, <1>2, Heard, StateFacts, LoadsAre DEF OpsOf, Screens
  <2>. QED
    BY <2>1, <2>3, <2>4, <2>5, TakeKeeps, ReloadStep
<1>3. CASE ~(ok /\ calls[i].live)
  <2>1. Landed(i, page)
    BY <1>3 DEF LandChange
  <2>. QED
    BY <1>1, <2>1, Unchanged, StateFacts, LandedStep
<1>. QED
  BY <1>2, <1>3

\* The stack that an answer shows, whatever screen is shown by then.
LEMMA ShownAfterAnswer ==
    ASSUME IInv, NEW i \in DOMAIN calls, calls[i].op \notin Loads, NEW client \in BOOLEAN, NEW s, StackOK(s),
           ShowFor(client, s, Take(i)), hub' = hub,
           SessionOK(alive, record, identity, snapshot)', client => identity'
    PROVE  IInv' /\ Forward
<1>1. i \notin LiveLoads(calls)
  BY DEF LiveLoads
<1>2. ScreenOK(Top, page, hub, identity, Take(i)) /\ DOMAIN Take(i) # Connection
  BY <1>1, StateFacts, TakeKeeps DEF ScreenOK
<1>. QED
  BY <1>2, ShowStep

LEMMA LandConnectKeeps ==
    ASSUME IInv, NEW i \in DOMAIN calls, NEW ok \in BOOLEAN, LandConnect(i, ok)
    PROVE  IInv' /\ Forward
<1>1. calls[i].op = "connect" /\ calls[i].op \notin Loads /\ UNCHANGED <<hub, alive, record, snapshot>>
  BY LoadsAre DEF LandConnect, Returns
<1>2. CASE ok
  <2> DEFINE client == record = "kept"
             s == Append(stack, "remote-hub")
  <2>1. identity' = TRUE /\ ShowFor(client, s, Take(i))
    BY <1>2 DEF LandConnect
  <2>2. StackOK(s) /\ client \in BOOLEAN
    BY StateFacts, PushedStack DEF Screens
  <2>3. SessionOK(alive, record, identity, snapshot)'
    BY <1>1, <2>1, Unchanged DEF SessionOK
  <2> HIDE DEF client, s
  <2>. QED
    BY <1>1, <2>1, <2>2, <2>3, ShownAfterAnswer
<1>3. CASE ~ok
  BY <1>1, <1>3, TakenStep DEF LandConnect
<1>. QED
  BY <1>2, <1>3

LEMMA LandRollbackKeeps ==
    ASSUME IInv, NEW i \in DOMAIN calls, NEW ok \in BOOLEAN, LandRollback(i, ok)
    PROVE  IInv' /\ Forward
<1>1. calls[i].op = "rollback" /\ calls[i].op \notin Loads /\ UNCHANGED <<hub, alive, record, identity, snapshot>>
  BY LoadsAre DEF LandRollback, Returns
<1>2. CASE ok /\ Len(stack) > 1
  <2>1. ShowFor(ClientFor, Front(stack), Take(i))
    BY <1>2 DEF LandRollback, Show
  <2>2. StackOK(Front(stack))
    BY <1>2, StateFacts, PoppedStack
  <2>3. SessionOK(alive, record, identity, snapshot)'
    BY <1>1, Unchanged DEF SessionOK
  <2>. QED
    BY <1>1, <2>1, <2>2, <2>3, StateFacts, ShownAfterAnswer
<1>3. CASE ~(ok /\ Len(stack) > 1)
  BY <1>1, <1>3, TakenStep DEF LandRollback
<1>. QED
  BY <1>2, <1>3

LEMMA LandReissueKeeps ==
    ASSUME IInv, NEW i \in DOMAIN calls, NEW ok \in BOOLEAN, LandReissue(i, ok)
    PROVE  IInv' /\ Forward
<1>1. calls[i].op = "reissue" /\ calls[i].op \notin Loads /\ UNCHANGED <<hub, alive, record, identity, snapshot>>
  BY LoadsAre DEF LandReissue, Returns
<1>2. CASE ok
  <2>1. ShowFor(ClientFor, Append(stack, "job-progress"), Take(i))
    BY <1>2 DEF LandReissue, Show
  <2>2. StackOK(Append(stack, "job-progress"))
    BY StateFacts, PushedStack DEF Screens
  <2>3. SessionOK(alive, record, identity, snapshot)'
    BY <1>1, Unchanged DEF SessionOK
  <2>. QED
    BY <1>1, <2>1, <2>2, <2>3, StateFacts, ShownAfterAnswer
<1>3. CASE ~ok
  BY <1>1, <1>3, TakenStep DEF LandReissue
<1>. QED
  BY <1>2, <1>3

LEMMA LandProbeKeeps ==
    ASSUME IInv, NEW i \in DOMAIN calls, NEW ok \in BOOLEAN, LandProbe(i, ok)
    PROVE  IInv' /\ Forward
<1> DEFINE pg == [page EXCEPT !.step = IF ok THEN "confirm" ELSE "start"]
<1>1. calls[i].op = "probe" /\ calls[i].op \notin Loads /\ Landed(i, pg)
  BY LoadsAre DEF LandProbe, Returns
<1>2. pg \in Pages /\ SameList(pg)
  BY StateFacts DEF Pages, SameList
<1> HIDE DEF pg
<1>3. calls[i].live => Top = "add-hub"
  BY <1>1, Heard, StateFacts DEF OpsOf, Screens
<1>4. calls[i].live => PageOK(Top, pg, hub)
  BY <1>2, <1>3, FormOK
<1>. QED
  BY <1>1, <1>2, <1>4, LandedStep

LEMMA LandStagedKeeps ==
    ASSUME IInv, NEW i \in DOMAIN calls, NEW ok \in BOOLEAN, LandStaged(i, ok)
    PROVE  IInv' /\ Forward
<1>1. CASE ok
  <2> DEFINE pg == IF calls[i].got.staged = NoTarget THEN page
                   ELSE [page EXCEPT !.step = "staged", !.target = calls[i].got.staged]
  <2>1. calls[i].op = "staged" /\ calls[i].op \notin Loads /\ Landed(i, pg)
    BY <1>1, LoadsAre DEF LandStaged, Returns
  <2>2. calls[i].got.staged \in Target
    BY AnswerFacts DEF Answer, Target
  <2>3. CASE calls[i].got.staged = NoTarget
    BY <2>1, <2>3, Unchanged, StateFacts, LandedStep
  <2>4. CASE calls[i].got.staged # NoTarget
    <3>1. pg \in Pages /\ SameList(pg) /\ pg.step = "staged"
      BY <2>2, <2>4, StateFacts DEF Pages, SameList
    <3> HIDE DEF pg
    <3>. QED
      BY <2>1, <3>1, FormOK, LandedStep
  <2>. QED
    BY <2>3, <2>4
<1>2. CASE ~ok
  BY <1>2, DiesStep DEF LandStaged
<1>. QED
  BY <1>1, <1>2

LEMMA LandStageKeeps ==
    ASSUME IInv, NEW i \in DOMAIN calls, NEW ok \in BOOLEAN, LandStage(i, ok)
    PROVE  IInv' /\ Forward
<1> DEFINE pg == IF ok THEN [page EXCEPT !.step = "staged", !.target = calls[i].got.staged]
                 ELSE [page EXCEPT !.step = "start", !.target = NoTarget]
<1>1. calls[i].op = "stage" /\ calls[i].op \notin Loads /\ Landed(i, pg)
  BY LoadsAre DEF LandStage, Returns
<1>2. calls[i].got.staged \in Target
  BY AnswerFacts DEF Answer, Target
<1>3. pg \in Pages /\ SameList(pg) /\ pg.step \in {"staged", "start"}
  BY <1>2, StateFacts DEF Pages, SameList, Target
<1> HIDE DEF pg
<1>. QED
  BY <1>1, <1>3, FormOK, LandedStep

LEMMA LandPromoteKeeps ==
    ASSUME IInv, NEW i \in DOMAIN calls, NEW ok \in BOOLEAN, LandPromote(i, ok)
    PROVE  IInv' /\ Forward
<1> DEFINE pg == IF ok THEN [page EXCEPT !.step = "start", !.target = NoTarget] ELSE page
<1>1. calls[i].op \in {"promote", "discard"} /\ calls[i].op \notin Loads /\ Landed(i, pg)
  BY LoadsAre DEF LandPromote, Returns
<1>2. SameList(pg) /\ PageOK(Top, pg, hub)
  <2>1. CASE ok
    <3>1. pg \in Pages /\ SameList(pg) /\ pg.step = "start"
      BY <2>1, StateFacts DEF Pages, SameList, Target
    <3> HIDE DEF pg
    <3>. QED
      BY <3>1, FormOK
  <2>2. CASE ~ok
    BY <2>2, Unchanged, StateFacts
  <2>. QED
    BY <2>1, <2>2
<1> HIDE DEF pg
<1>. QED
  BY <1>1, <1>2, LandedStep

LEMMA LandCancelKeeps ==
    ASSUME IInv, NEW i \in DOMAIN calls, NEW ok \in BOOLEAN, LandCancel(i, ok)
    PROVE  IInv' /\ Forward
<1>1. calls[i].op = "cancel" /\ calls[i].op \notin Loads /\ Landed(i, page)
  BY LoadsAre DEF LandCancel, Returns
<1>. QED
  BY <1>1, Unchanged, StateFacts, LandedStep

LEMMA LandVerifyKeeps ==
    ASSUME IInv, NEW i \in DOMAIN calls, NEW ok \in BOOLEAN, LandVerify(i, ok)
    PROVE  IInv' /\ Forward
<1> DEFINE pg == [page EXCEPT !.step = "start"]
<1>1. calls[i].op = "verify" /\ calls[i].op \notin Loads /\ Landed(i, pg)
  BY LoadsAre DEF LandVerify, Returns
<1>2. pg \in Pages /\ SameList(pg) /\ pg.step = "start"
  BY StateFacts DEF Pages, SameList
<1> HIDE DEF pg
<1>. QED
  BY <1>1, <1>2, FormOK, LandedStep

(***************************************************************************)
(* The theorems.                                                           *)
(***************************************************************************)

LEMMA InitInv == Init => IInv
<1> SUFFICES ASSUME Init
             PROVE  IInv
  OBVIOUS
<1>1. /\ hub \in Hub /\ hub.at = 0
  BY Bounds DEF Init, Hub, Job
<1>2. /\ <<"main">> \in Seq(Screens) /\ <<"main">> # <<>> /\ Head(<<"main">>) = "main"
      /\ Last(<<"main">>) = "main"
  BY DEF Screens, Last
<1>3. StackOK(stack) /\ Top = "main" /\ page = Page("main") /\ DOMAIN calls = {}
  BY <1>2 DEF Init, StackOK, Top
<1>4. SessionOK(alive, record, identity, snapshot)
  BY DEF Init, SessionOK
<1>5. PageOK(Top, page, hub)
  BY <1>1, <1>3, PageFacts
<1>6. CallsOK(Top, hub, identity, calls) /\ Pending(calls) = {} /\ ListOK(Top, page, calls)
  BY <1>3 DEF CallsOK, Pending, ListOK, LiveLoads, ListScreens
<1>7. Budget(hub, calls)
  BY <1>1, <1>6, FS_EmptySet, Bounds DEF Budget
<1>. QED
  BY <1>1, <1>3, <1>4, <1>5, <1>6, <1>7 DEF IInv, ScreenOK

LEMMA NavigateKeeps ==
    ASSUME IInv, Navigate
    PROVE  IInv' /\ Forward
BY OpenHubsKeeps, AddHubKeeps, StartProbeKeeps, TrustHubKeeps, RemoveHubKeeps, ConnectKeeps, RedrawKeeps,
   DisconnectKeeps, BackKeeps, StepBackKeeps, VisitKeeps DEF Navigate

LEMMA ListStepKeeps ==
    ASSUME IInv, ListStep
    PROVE  IInv' /\ Forward
BY RefreshKeeps, ToggleFilterKeeps, OpenDetailsKeeps, ConfirmRevokeKeeps, ConfirmBanKeeps,
   ChooseCertKeeps, ChooseAccountKeeps DEF ListStep

LEMMA CaStepKeeps ==
    ASSUME IInv, CaStep
    PROVE  IInv' /\ Forward
BY PickCandidateKeeps, ConfirmStageKeeps, AskPromoteKeeps, ConfirmPromoteKeeps, DiscardKeeps, RollbackKeeps,
   ReissueKeeps, CancelJobKeeps, VerifyKeeps DEF CaStep

LEMMA ElsewhereKeeps ==
    ASSUME IInv, Elsewhere
    PROVE  IInv' /\ Forward
<1>1. /\ {"revoke", "ban", "unban", "stage", "discard"} \subseteq Ops /\ ArgsOf("revoke") = Certs
      /\ \A op \in {"ban", "unban"} : ArgsOf(op) = Accounts
      /\ ArgsOf("stage") = Cas /\ NoTarget \in ArgsOf("discard")
  BY OpsAre DEF ArgsOf
<1>. QED
  BY <1>1, OtherAdminKeeps, JobDoneKeeps DEF Elsewhere

LEMMA LandKeeps ==
    ASSUME IInv, NEW i \in DOMAIN calls, Land(i)
    PROVE  IInv' /\ Forward
BY LandLoadKeeps, LandInfoKeeps, LandChangeKeeps, LandConnectKeeps, LandProbeKeeps, LandStagedKeeps,
   LandStageKeeps, LandPromoteKeeps, LandRollbackKeeps, LandReissueKeeps, LandCancelKeeps, LandVerifyKeeps
   DEF Land

LEMMA StutterKeeps ==
    ASSUME IInv, UNCHANGED vars
    PROVE  IInv' /\ Forward
<1>1. UNCHANGED <<hub, alive, record, identity, snapshot, stack, page, calls>>
  BY DEF vars
<1>. QED
  BY <1>1, Unchanged, StateFacts, FormStep

\* An answer that breaks off leaves everything else as it is.
LEMMA CutOffKeeps ==
    ASSUME IInv, NEW i \in DOMAIN calls, CutOff(i)
    PROVE  IInv' /\ Forward
<1>1. UNCHANGED <<hub, alive, record, identity, snapshot, stack, page>>
  BY DEF CutOff
<1>2. CallsOK(Top, hub, identity, calls') /\ Budget(hub, calls') /\ ListOK(Top, page, calls')
  <2>1. CASE calls[i].live /\ calls[i].op \in Loads \cup Awaited
    <3>1. calls' = [calls EXCEPT ![i].cut = TRUE]
      BY <2>1 DEF CutOff
    <3>2. calls[i] \in Call /\ CallsOK(Top, hub, identity, calls)
      BY StateFacts DEF CallsOK, CallOK
    <3>3. /\ DOMAIN calls' = DOMAIN calls /\ \A j \in DOMAIN calls : j # i => calls'[j] = calls[j]
          /\ calls'[i] \in Call /\ calls'[i].op = calls[i].op /\ calls'[i].arg = calls[i].arg
          /\ calls'[i].live = calls[i].live /\ calls'[i].answered = calls[i].answered
          /\ calls'[i].got = calls[i].got
      BY <3>1, <3>2 DEF Call
    <3>4. CallsOK(Top, hub, identity, calls')
      BY <3>2, <3>3 DEF CallsOK, CallOK
    <3>5. Pending(calls') = Pending(calls)
      BY <3>3 DEF Pending
    <3>6. LiveLoads(calls') = LiveLoads(calls)
      BY <3>3 DEF LiveLoads
    <3>7. \A j \in LiveLoads(calls) : LoadOK(Top, page, calls'[j])
      BY <3>3, StateFacts DEF ListOK, LiveLoads, LoadOK
    <3>. QED
      BY <3>4, <3>5, <3>6, <3>7, StateFacts DEF Budget, ListOK
  <2>2. CASE ~(calls[i].live /\ calls[i].op \in Loads \cup Awaited)
    <3>1. calls' = Take(i) /\ i \notin LiveLoads(calls)
      BY <2>2 DEF CutOff, LiveLoads
    <3>. QED
      BY <3>1, TakeKeeps
  <2>. QED
    BY <2>1, <2>2
<1>3. ScreenOK(Top, page, hub, identity, calls)'
  BY <1>1, <1>2, StateFacts DEF ScreenOK, PageOK, CallsOK, CallOK, Budget, ListOK, Top
<1>. QED
  BY <1>1, <1>3, StateFacts DEF IInv, Forward, StackOK, SessionOK, Top

LEMMA NextKeeps == IInv /\ [Next]_vars => IInv' /\ Forward
BY NavigateKeeps, ListStepKeeps, CaStepKeeps, PollKeeps, ElsewhereKeeps, HandleKeeps, LandKeeps,
   CutOffKeeps, StutterKeeps
   DEF Next

\* Every reachable state satisfies the inductive invariant.
THEOREM Invariance == Spec => []IInv
<1>1. IInv /\ [Next]_vars => IInv'
  BY NextKeeps
<1>. QED
  BY InitInv, <1>1, PTL DEF Spec

\* Everything has its type, and a hub's description is kept only along with the key for
\* it (sessionCache.ts), however many connections are opened and closed.
THEOREM TypeCorrect == Spec => []TypeOK
<1>1. IInv => TypeOK
  <2> SUFFICES ASSUME IInv
               PROVE  TypeOK
    OBVIOUS
  <2>1. \A i \in DOMAIN calls : calls[i].op \in Ops
    BY AnswerFacts
  <2>. QED
    BY <2>1, StateFacts DEF TypeOK, IInv, SessionOK, StackOK, Hub, Job, Pages
<1>. QED
  BY Invariance, <1>1, PTL

\* A list that waits for nothing shows the filter it names, and every revocation and ban
\* that the hub has confirmed to it (RemoteCertsScreen, RemoteAccountsScreen).
THEOREM SettledListsCurrent == Spec => []SettledListIsCurrent
<1>1. IInv => SettledListIsCurrent
  <2> SUFFICES ASSUME IInv, On("remote-certs") \/ On("remote-accounts"), page.shown.loaded, ~page.err,
                      ~\E i \in DOMAIN calls : calls[i].live /\ calls[i].op \in Loads
               PROVE  page.shown.filter = page.filter /\ page.shown.at >= page.acked
    BY DEF SettledListIsCurrent
  <2>1. Top \in ListScreens
    BY DEF On, ListScreens
  <2>2. LiveLoads(calls) = {}
    BY DEF LiveLoads
  <2>. QED
    BY <2>1, <2>2, StateFacts DEF ListOK
<1>. QED
  BY Invariance, <1>1, PTL

\* While a list stays on the screen, no answer takes it back to an older state of the hub,
\* in whatever order answers come.
THEOREM ListsNeverStepBack == Spec => NoStepBack
<1>1. IInv /\ [Next]_vars =>
        [(Top \in {"remote-certs", "remote-accounts"} /\ stack' = stack) =>
            page'.shown.at >= page.shown.at]_vars
  BY NextKeeps DEF Forward, ListScreens
<1>. QED
  BY Invariance, <1>1, PTL DEF Spec, NoStepBack
=============================================================================
