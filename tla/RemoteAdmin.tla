----------------------------- MODULE RemoteAdmin -----------------------------
(* The terminal program as administrator of a remote hub: screens that ask    *)
(* the hub's admin API over the network and go on taking input while answers  *)
(* are under way.  Each call has a connection of its own, so answers come in  *)
(* any order; when a connection fails, or is silent for ten seconds, the       *)
(* terminal gives up, although the hub may have acted.  An answer that breaks   *)
(* off in its body is never taken.  Other administrators change the hub too; a  *)
(* request that gets there after it was given up, or its screen was left, acts  *)
(* as one of theirs.                                                            *)
EXTENDS Naturals, FiniteSets, SequencesExt

CONSTANTS
    Certs,        \* certificates the hub issued
    Accounts,     \* ACME accounts of the hub
    Cas,          \* candidates for the hub's signing CA
    Role,         \* the role the administrator was given
    NoTarget,     \* no row, account or candidate
    Valid,        \* the filter of the certificate list
    MaxCalls,     \* bound: calls of the terminal under way
    MaxChanges,   \* bound: revocations, bans and their reversals
    MaxDepth      \* bound: screens on the stack the user opens

ASSUME BoundsAssumption ==
    /\ {MaxCalls, MaxChanges, MaxDepth} \subseteq Nat \ {0}
    /\ Role \in {"viewer", "operator", "owner"}
    /\ {NoTarget, Valid} \cap (Certs \cup Accounts \cup Cas) = {}
    /\ NoTarget # Valid

VARIABLES
    hub,       \* what the admin API reads and writes
    alive,     \* the terminal process runs
    record,    \* the hub's entry in hubs.json
    identity,  \* the decrypted client key is in the session cache
    snapshot,  \* so is what the hub said of itself
    stack,     \* the screens, the one shown last
    page,      \* the state of the screen shown
    calls      \* the calls under way: a function of their connections

Connection == 1..MaxCalls

vars == <<hub, alive, record, identity, snapshot, stack, page, calls>>

-----------------------------------------------------------------------------
(* State. *)

Rank == [viewer |-> 1, operator |-> 2, owner |-> 3]
RoleAtLeast(have, need) == Rank[have] >= Rank[need]

\* What each request asks, and the role it needs.
OwnerOps == {"ban", "unban", "stage", "discard", "promote", "rollback", "reissue", "cancel"}
Need(op) ==
    CASE op \in OwnerOps -> "owner"
      [] op \in {"revoke", "verify"} -> "operator"
      [] OTHER -> "viewer"
Changing == {"revoke", "ban", "unban"}   \* what the lists show

\* What the screens that only show something ask for.  The audit screen is as
\* the one of statistics.
Lists == [screen \in {"remote-hub", "remote-certs", "remote-accounts", "remote-stats", "remote-cert-details"} |->
              CASE screen = "remote-hub" -> "info"
                [] screen = "remote-certs" -> "certs"
                [] screen = "remote-accounts" -> "accounts"
                [] screen = "remote-stats" -> "stats"
                [] OTHER -> "details"]
Loads == Range(Lists)
Lasting == {"connect", "staged", "rollback", "reissue"}   \* their answers outlive the screen
Awaited == {"probe", "stage", "verify"}                  \* a busy step waits for their answers
Ops == OwnerOps \cup Changing \cup Loads \cup {"connect", "probe", "staged", "job", "verify"}

\* What an answer tells: which state of the hub it was computed from, and the
\* part of that state the request asked for.
Blank == [loaded |-> FALSE, at |-> 0, filter |-> FALSE, revoked |-> {}, banned |-> {},
          staged |-> NoTarget, job |-> "none"]
View(h, op, arg) ==
    [Blank EXCEPT
        !.loaded = op \in {"certs", "accounts", "stats", "details", "job"},
        !.at = IF op \in {"certs", "accounts", "revoke", "ban", "unban"} THEN h.at ELSE 0,
        !.filter = (op = "certs" /\ arg = Valid),
        !.revoked = IF op = "certs" THEN h.revoked ELSE {},
        !.banned = IF op = "accounts" THEN h.banned ELSE {},
        !.staged = IF op \in {"staged", "stage"} THEN h.staged ELSE NoTarget,
        !.job = IF op = "job" THEN h.job ELSE "none"]

Page(screen) ==
    [shown |-> Blank, filter |-> FALSE, step |-> "start", target |-> NoTarget, asking |-> FALSE,
     isBanned |-> FALSE, err |-> FALSE, acked |-> 0]

Init ==
    /\ hub \in [at : {0}, revoked : {{}}, banned : SUBSET Accounts, staged : {NoTarget}, job : {"none"}]
    /\ alive = TRUE
    /\ record = "absent"
    /\ identity = FALSE
    /\ snapshot = FALSE
    /\ stack = <<"main">>
    /\ page = Page("main")
    /\ calls = <<>>

Top == Last(stack)
On(screen) == alive /\ Top = screen
HasRoom == DOMAIN calls # Connection
MayChange == hub.at + Cardinality({i \in DOMAIN calls : ~calls[i].answered /\ calls[i].op \in Changing}) < MaxChanges

\* clientFor() finds the hub's record and a key it can use without a password.
ClientFor == record = "kept" /\ identity

-----------------------------------------------------------------------------
(* Calls, screens, and what mounting and unmounting a screen does to them. *)

\* A call of the screen shown.
Send(cs, op, arg) ==
    LET new == CHOOSE n \in Connection : n \notin DOMAIN cs
    IN  [n \in DOMAIN cs \cup {new} |->
            IF n = new THEN [op |-> op, arg |-> arg, live |-> TRUE, answered |-> FALSE, cut |-> FALSE,
                              got |-> Blank]
                       ELSE cs[n]]

\* The call's answer, or its failure, has been taken.
Take(i) == Restrict(calls, DOMAIN calls \ {i})

\* The callbacks of these calls set no state any more.  What is left is what
\* some ask of the whole program; a change that the hub may still make is as one
\* of another administrator.
Orphans(cs, ops) ==
    [i \in {j \in DOMAIN cs : cs[j].op \notin ops \ Lasting} |->
        IF cs[i].op \in ops THEN [cs[i] EXCEPT !.live = FALSE] ELSE cs[i]]

\* What a screen asks for when it appears.
FirstCall(screen) ==
    IF screen = "remote-hub" /\ snapshot THEN "none"
    ELSE IF screen \in DOMAIN Lists THEN Lists[screen]
    ELSE IF screen = "remote-ca-rotate" THEN "staged"
    ELSE IF screen = "job-progress" THEN "job" ELSE "none"

\* Another tick, or another filter, cancels the load under way and starts one.
ReloadFor(client, cs, pg) ==
    LET op == Lists[Top] IN
    IF client
    THEN /\ calls' = Send(Orphans(cs, Loads), op, IF pg.filter /\ op = "certs" THEN Valid ELSE NoTarget)
         /\ page' = pg
    ELSE /\ calls' = Orphans(cs, Loads)
         /\ page' = [pg EXCEPT !.err = TRUE]

\* Mutant: the load under way is left to land after the new one.
ReloadAlongside(cs, pg) ==
    LET op == Lists[Top] IN
    IF ClientFor
    THEN /\ calls' = Send(cs, op, IF pg.filter /\ op = "certs" THEN Valid ELSE NoTarget)
         /\ page' = pg
    ELSE /\ calls' = cs
         /\ page' = [pg EXCEPT !.err = TRUE]

Reload(cs, pg) == ReloadFor(ClientFor, cs, pg)

\* A stack with another top unmounts the old screen and mounts the new one. A
\* screen without a client shows that, except the rotation screen, which goes on.
\* The hub's screen, drawn again, asks again as long as it was not told anything.
ShowFor(client, s, cs) ==
    LET screen == Last(s)
        gone == Orphans(cs, Ops)
    IN  /\ stack' = s
        /\ \/ /\ screen = Top /\ (screen # "remote-hub" \/ page.shown.loaded)
              /\ calls' = cs
              /\ UNCHANGED page
           \/ /\ screen = Top /\ screen = "remote-hub" /\ ~page.shown.loaded
              /\ ReloadFor(client, cs, page)
           \/ /\ screen # Top
              /\ calls' = IF FirstCall(screen) = "none" \/ ~client THEN gone
                          ELSE Send(gone, FirstCall(screen), NoTarget)
              /\ page' = [Page(screen) EXCEPT !.err = FirstCall(screen) \in Loads \cup {"job"} /\ ~client,
                                              !.shown.loaded = (screen = "remote-hub" /\ snapshot)]

Show(s, cs) == ShowFor(ClientFor, s, cs)

Push(screen) == HasRoom /\ Len(stack) < MaxDepth /\ Show(Append(stack, screen), calls)
Pop(client) == HasRoom /\ ShowFor(client, IF Len(stack) > 1 THEN Front(stack) ELSE stack, calls)

\* The process ends, and with it what it kept in memory.
Dies ==
    /\ alive' = FALSE
    /\ identity' = FALSE /\ snapshot' = FALSE
    /\ stack' = <<"main">> /\ page' = Page("main")
    /\ calls' = <<>>
    /\ UNCHANGED record

\* A call made from a key press; without a client the handler throws, and
\* nothing catches it.
Request(op, arg, pg) ==
    /\ HasRoom
    /\ op \in Changing => MayChange
    /\ IF ClientFor THEN calls' = Send(calls, op, arg) /\ page' = pg /\ UNCHANGED <<alive, record, identity, snapshot, stack>>
       ELSE Dies
    /\ UNCHANGED hub

-----------------------------------------------------------------------------
(* The hub: every request is one synchronous handler. *)

Forbidden(op) == ~RoleAtLeast(Role, Need(op))

\* The request asks for what is already so, or has nothing to act on.
Conflict(op, arg) ==
    \/ op = "revoke" /\ arg \in hub.revoked
    \/ op = "ban" /\ arg \in hub.banned
    \/ op = "unban" /\ arg \notin hub.banned
    \/ op = "promote" /\ hub.staged = NoTarget
    \/ op = "cancel" /\ hub.job # "running"

Changed(op, arg) ==
    [hub EXCEPT
        !.at = IF op \in Changing THEN @ + 1 ELSE @,
        !.revoked = IF op = "revoke" THEN @ \cup {arg} ELSE @,
        !.banned = CASE op = "ban" -> @ \cup {arg} [] op = "unban" -> @ \ {arg} [] OTHER -> @,
        !.staged = CASE op = "stage" -> arg [] op \in {"promote", "discard"} -> NoTarget [] OTHER -> @,
        !.job = CASE op = "reissue" -> "running" [] op = "cancel" -> "ended" [] OTHER -> @]

\* The answer is computed from the hub's state as it is now.
Handle(i) ==
    LET c == calls[i] IN
    /\ ~c.answered /\ ~c.cut
    /\ ~Forbidden(c.op) /\ ~Conflict(c.op, c.arg)
    /\ hub' = Changed(c.op, c.arg)
    /\ calls' = [calls EXCEPT ![i].answered = TRUE, ![i].got = View(hub', c.op, c.arg)]
    /\ UNCHANGED <<alive, record, identity, snapshot, stack, page>>

\* Another administrator, an owner; one job in all (a bound).
OtherAdmin(op, arg) ==
    /\ alive
    /\ op \in Changing => MayChange
    /\ ~Conflict(op, arg)
    /\ hub' = Changed(op, arg)
    /\ UNCHANGED <<alive, record, identity, snapshot, stack, page, calls>>

JobDone ==
    /\ alive /\ hub.job = "running"
    /\ hub' = [hub EXCEPT !.job = "ended"]
    /\ UNCHANGED <<alive, record, identity, snapshot, stack, page, calls>>

-----------------------------------------------------------------------------
(* Getting to a hub. *)

OpenHubs == On("main") /\ Push("hubs") /\ UNCHANGED <<hub, alive, record, identity, snapshot>>

AddHub == On("hubs") /\ record = "absent" /\ Push("add-hub") /\ UNCHANGED <<hub, alive, record, identity, snapshot>>

\* The first contact: the server's certificate is fetched to be pinned.
StartProbe ==
    /\ On("add-hub") /\ page.step = "start" /\ HasRoom
    /\ page' = [page EXCEPT !.step = "busy"]
    /\ calls' = Send(calls, "probe", NoTarget)
    /\ UNCHANGED <<hub, alive, record, identity, snapshot, stack>>

TrustHub ==
    /\ On("add-hub") /\ page.step = "confirm"
    /\ Pop(ClientFor)
    /\ record' = "kept"
    /\ UNCHANGED <<hub, alive, identity, snapshot>>

\* The session cache keeps the key of a hub that is removed.
RemoveHub ==
    /\ On("hubs") /\ record = "kept"
    /\ record' = "removed"
    /\ UNCHANGED <<hub, alive, identity, snapshot, stack, page, calls>>

\* The key's password is asked for at every connection. Nothing tells the user
\* that a connection is under way, and nothing stops a second one.
Connect ==
    /\ On("hubs") /\ record = "kept" /\ HasRoom
    /\ calls' = Send(calls, "connect", NoTarget)
    /\ UNCHANGED <<hub, alive, record, identity, snapshot, stack, page>>

Visit(screen) ==
    /\ On("remote-hub") /\ Push(screen)
    /\ UNCHANGED <<hub, alive, record, identity, snapshot>>

\* A toast that comes or goes draws every screen again.
Redraw ==
    /\ On("remote-hub") /\ ~page.shown.loaded /\ HasRoom
    /\ Reload(calls, page)
    /\ UNCHANGED <<hub, alive, record, identity, snapshot, stack>>

\* Mutant: what the hub said of itself outlives the session.
DisconnectKeepingSnapshot ==
    /\ On("remote-hub") /\ Pop(FALSE)
    /\ identity' = FALSE
    /\ UNCHANGED <<hub, alive, record, snapshot>>

\* The session cache forgets the hub.
Disconnect ==
    /\ On("remote-hub") /\ Pop(FALSE)
    /\ identity' = FALSE
    /\ snapshot' = FALSE
    /\ UNCHANGED <<hub, alive, record>>

\* Escape leaves a screen, or a step of it; not while it says that it is busy.
Back ==
    /\ alive /\ Top # "main" /\ page.step = "start" /\ Pop(ClientFor)
    /\ UNCHANGED <<hub, alive, record, identity, snapshot>>

StepBack ==
    /\ alive /\ page.step \in {"confirm", "staged"}
    /\ page' = IF page.asking THEN [page EXCEPT !.asking = FALSE]
               ELSE [page EXCEPT !.step = "start", !.target = NoTarget, !.isBanned = FALSE]
    /\ UNCHANGED <<hub, alive, record, identity, snapshot, stack, calls>>

-----------------------------------------------------------------------------
(* The lists of certificates and accounts, and the screens that only show. *)

Refresh ==
    /\ alive /\ Top \in {"remote-certs", "remote-accounts", "remote-stats"}
    /\ page.step = "start" /\ HasRoom
    /\ Reload(calls, page)
    /\ UNCHANGED <<hub, alive, record, identity, snapshot, stack>>

ToggleFilter ==
    /\ On("remote-certs") /\ page.step = "start" /\ HasRoom
    /\ Reload(calls, [page EXCEPT !.filter = ~@])
    /\ UNCHANGED <<hub, alive, record, identity, snapshot, stack>>

OpenDetails ==
    /\ On("remote-certs") /\ page.step = "start" /\ page.shown.loaded /\ Push("remote-cert-details")
    /\ UNCHANGED <<hub, alive, record, identity, snapshot>>

\* The row that is confirmed is the one that was chosen, whatever is loaded
\* meanwhile.
ChooseCert(c) ==
    /\ On("remote-certs") /\ page.step = "start" /\ page.shown.loaded
    /\ c \notin page.shown.revoked
    /\ page' = [page EXCEPT !.step = "confirm", !.target = c]
    /\ UNCHANGED <<hub, alive, record, identity, snapshot, stack, calls>>

ChooseAccount(a) ==
    /\ On("remote-accounts") /\ page.step = "start" /\ page.shown.loaded
    /\ page' = [page EXCEPT !.step = "confirm", !.target = a, !.isBanned = a \in page.shown.banned]
    /\ UNCHANGED <<hub, alive, record, identity, snapshot, stack, calls>>

ConfirmRevoke ==
    /\ On("remote-certs") /\ page.step = "confirm"
    /\ Request("revoke", page.target, [page EXCEPT !.step = "start", !.target = NoTarget])

ConfirmBan ==
    /\ On("remote-accounts") /\ page.step = "confirm"
    /\ Request(IF page.isBanned THEN "unban" ELSE "ban", page.target,
               [page EXCEPT !.step = "start", !.target = NoTarget, !.isBanned = FALSE])

-----------------------------------------------------------------------------
(* Rotation of the hub's CA, the job that signs again, verification.          *)

PickCandidate(ca) ==
    /\ On("remote-ca-rotate") /\ page.step = "start"
    /\ page' = [page EXCEPT !.step = "confirm", !.target = ca]
    /\ UNCHANGED <<hub, alive, record, identity, snapshot, stack, calls>>

ConfirmStage ==
    /\ On("remote-ca-rotate") /\ page.step = "confirm"
    /\ Request("stage", page.target, [page EXCEPT !.step = "busy"])

AskPromote ==
    /\ On("remote-ca-rotate") /\ page.step = "staged" /\ ~page.asking
    /\ page' = [page EXCEPT !.asking = TRUE]
    /\ UNCHANGED <<hub, alive, record, identity, snapshot, stack, calls>>

\* The request says "promote", not what was shown as staged.
ConfirmPromote ==
    /\ On("remote-ca-rotate") /\ page.step = "staged" /\ page.asking
    /\ Request("promote", NoTarget, [page EXCEPT !.asking = FALSE])

Discard ==
    /\ On("remote-ca-rotate") /\ page.step = "staged" /\ ~page.asking
    /\ Request("discard", NoTarget, page)

Rollback == On("remote-ca-rotate") /\ page.step = "start" /\ Request("rollback", NoTarget, page)

Reissue ==
    /\ On("remote-ca-rotate") /\ page.step = "start"
    /\ hub.job = "none" /\ ~\E i \in DOMAIN calls : calls[i].op = "reissue"
    /\ Request("reissue", NoTarget, page)

\* Every second, whether or not the last answer has come.
Poll ==
    /\ On("job-progress") /\ HasRoom
    /\ IF ClientFor THEN calls' = Send(calls, "job", NoTarget) /\ UNCHANGED page
       ELSE page' = [page EXCEPT !.err = TRUE] /\ UNCHANGED calls
    /\ UNCHANGED <<hub, alive, record, identity, snapshot, stack>>

CancelJob == On("job-progress") /\ page.shown.job = "running" /\ Request("cancel", NoTarget, page)

Verify ==
    /\ On("remote-ca-verify") /\ page.step = "start" /\ HasRoom /\ ClientFor
    /\ page' = [page EXCEPT !.step = "busy"]
    /\ calls' = Send(calls, "verify", NoTarget)
    /\ UNCHANGED <<hub, alive, record, identity, snapshot, stack>>

-----------------------------------------------------------------------------
(* Answers.  A dead callback (its screen is gone, or its load was cancelled)  *)
(* sets no state, but what it asks of the whole program still happens.        *)

\* At any time a call may fail instead: the hub refuses it (for the role, a
\* conflict, a check of the candidate, or because rotation is switched off), the
\* connection breaks before the headers of the answer, or nothing is heard on it for
\* ten seconds.
Returns(i, ops, ok) == calls[i].op \in ops /\ ~calls[i].cut /\ (ok => calls[i].answered)

\* The connection is closed after the headers of an answer, or of a refusal, and before
\* the end of its body.  Only data and the end are listened for, so the promise is
\* neither kept nor broken: a load stays under way, a busy step waits on, and whatever
\* else was asked for is as if it had never been answered.  One connection is left to
\* other calls (a bound).
CutOff(i) ==
    /\ Cardinality({j \in DOMAIN calls : calls[j].cut}) < MaxCalls - 1
    /\ ~calls[i].cut
    /\ calls' = IF calls[i].live /\ calls[i].op \in Loads \cup Awaited
                THEN [calls EXCEPT ![i].cut = TRUE] ELSE Take(i)
    /\ UNCHANGED <<hub, alive, record, identity, snapshot, stack, page>>

\* The answer only changes the screen shown, by the function f of its state.
Landed(i, pg) ==
    /\ calls' = Take(i)
    /\ page' = IF calls[i].live THEN pg ELSE page
    /\ UNCHANGED <<hub, alive, record, identity, snapshot, stack>>

LandLoad(i, ok) ==
    /\ Returns(i, (Loads \ {"info"}) \cup {"job"}, ok)
    /\ Landed(i, IF ok THEN [page EXCEPT !.shown = calls[i].got] ELSE [page EXCEPT !.err = TRUE])

\* An error draws the hub's screen again, so that it asks again, unless the same
\* error is already shown.
LandInfo(i, ok) ==
    /\ Returns(i, {"info"}, ok)
    /\ snapshot' = (snapshot \/ (ok /\ calls[i].live))
    /\ \/ ~calls[i].live /\ calls' = Take(i) /\ UNCHANGED page
       \/ calls[i].live /\ ok /\ calls' = Take(i) /\ page' = [page EXCEPT !.shown.loaded = TRUE]
       \/ calls[i].live /\ ~ok /\ Reload(Take(i), [page EXCEPT !.err = TRUE])
       \/ calls[i].live /\ ~ok /\ page.err /\ calls' = Take(i) /\ UNCHANGED page
    /\ UNCHANGED <<hub, alive, record, identity, stack>>

\* Mutant: the list is loaded when the request is sent, not when it has returned.
LandChangeLoadedBefore(i, ok) ==
    /\ Returns(i, {"revoke", "ban", "unban"}, ok)
    /\ Landed(i, IF ok /\ page.acked < calls[i].got.at THEN [page EXCEPT !.acked = calls[i].got.at] ELSE page)

\* After a revocation or a ban the list is loaded again.
LandChange(i, ok) ==
    /\ Returns(i, {"revoke", "ban", "unban"}, ok)
    /\ IF ok /\ calls[i].live
       THEN /\ Reload(Take(i), [page EXCEPT !.acked = IF @ < calls[i].got.at THEN calls[i].got.at ELSE @])
            /\ UNCHANGED <<hub, alive, record, identity, snapshot, stack>>
       ELSE Landed(i, page)

LandConnect(i, ok) ==
    /\ Returns(i, {"connect"}, ok)
    /\ IF ok
       THEN identity' = TRUE /\ ShowFor(record = "kept", Append(stack, "remote-hub"), Take(i))
       ELSE calls' = Take(i) /\ UNCHANGED <<identity, stack, page>>
    /\ UNCHANGED <<hub, alive, record, snapshot>>

LandProbe(i, ok) ==
    /\ Returns(i, {"probe"}, ok)
    /\ Landed(i, [page EXCEPT !.step = IF ok THEN "confirm" ELSE "start"])

\* refreshStaged handles no failure: the promise is rejected, and an unhandled
\* rejection ends the process.
LandStaged(i, ok) ==
    /\ Returns(i, {"staged"}, ok)
    /\ IF ok
       THEN Landed(i, IF calls[i].got.staged = NoTarget THEN page
                      ELSE [page EXCEPT !.step = "staged", !.target = calls[i].got.staged])
       ELSE Dies /\ UNCHANGED hub

\* Mutant: a failed staging leaves the screen as it is.
LandStageUnlessFailed(i, ok) ==
    /\ Returns(i, {"stage"}, ok)
    /\ Landed(i, IF ok THEN [page EXCEPT !.step = "staged", !.target = calls[i].got.staged] ELSE page)

LandStage(i, ok) ==
    /\ Returns(i, {"stage"}, ok)
    /\ Landed(i, IF ok THEN [page EXCEPT !.step = "staged", !.target = calls[i].got.staged]
                 ELSE [page EXCEPT !.step = "start", !.target = NoTarget])

LandPromote(i, ok) ==
    /\ Returns(i, {"promote", "discard"}, ok)
    /\ Landed(i, IF ok THEN [page EXCEPT !.step = "start", !.target = NoTarget] ELSE page)

\* The answers to a rollback and to a reissue leave, or cover, whatever screen
\* is shown by then.
LandRollback(i, ok) ==
    /\ Returns(i, {"rollback"}, ok)
    /\ IF ok /\ Len(stack) > 1 THEN Show(Front(stack), Take(i)) ELSE calls' = Take(i) /\ UNCHANGED <<stack, page>>
    /\ UNCHANGED <<hub, alive, record, identity, snapshot>>

LandReissue(i, ok) ==
    /\ Returns(i, {"reissue"}, ok)
    /\ IF ok THEN Show(Append(stack, "job-progress"), Take(i)) ELSE calls' = Take(i) /\ UNCHANGED <<stack, page>>
    /\ UNCHANGED <<hub, alive, record, identity, snapshot>>

LandCancel(i, ok) == Returns(i, {"cancel"}, ok) /\ Landed(i, page)

LandVerify(i, ok) ==
    /\ Returns(i, {"verify"}, ok)
    /\ Landed(i, [page EXCEPT !.step = "start"])

-----------------------------------------------------------------------------

Land(i) ==
    \E ok \in BOOLEAN :
        \/ LandLoad(i, ok) \/ LandInfo(i, ok) \/ LandChange(i, ok) \/ LandConnect(i, ok) \/ LandProbe(i, ok)
        \/ LandStaged(i, ok) \/ LandStage(i, ok) \/ LandPromote(i, ok) \/ LandRollback(i, ok)
        \/ LandReissue(i, ok) \/ LandCancel(i, ok) \/ LandVerify(i, ok)

Navigate ==
    \/ OpenHubs \/ AddHub \/ StartProbe \/ TrustHub \/ RemoveHub \/ Connect \/ Redraw \/ Disconnect \/ Back \/ StepBack
    \/ \E screen \in {"remote-certs", "remote-accounts", "remote-stats", "remote-ca-verify", "remote-ca-rotate"} : Visit(screen)

ListStep ==
    \/ Refresh \/ ToggleFilter \/ OpenDetails \/ ConfirmRevoke \/ ConfirmBan
    \/ \E c \in Certs : ChooseCert(c)
    \/ \E a \in Accounts : ChooseAccount(a)

CaStep ==
    \/ \E ca \in Cas : PickCandidate(ca)
    \/ ConfirmStage \/ AskPromote \/ ConfirmPromote \/ Discard \/ Rollback \/ Reissue \/ CancelJob \/ Verify

Elsewhere ==
    \/ \E c \in Certs : OtherAdmin("revoke", c)
    \/ \E a \in Accounts, op \in {"ban", "unban"} : OtherAdmin(op, a)
    \/ \E ca \in Cas : OtherAdmin("stage", ca)
    \/ OtherAdmin("discard", NoTarget)
    \/ JobDone

Next ==
    \/ Navigate \/ ListStep \/ CaStep \/ Poll \/ Elsewhere
    \/ \E i \in DOMAIN calls : Handle(i) \/ Land(i) \/ CutOff(i)

Spec == Init /\ [][Next]_vars

\* A call returns or fails, at the latest when its connection has been silent for ten
\* seconds, unless its answer breaks off; no answer takes for ever.  The user, the hub,
\* its job and other administrators owe nothing, and neither does the job screen's timer.
FairSpec ==
    /\ Spec
    /\ \A i \in Connection : WF_vars(i \in DOMAIN calls /\ Land(i))

-----------------------------------------------------------------------------
(* Properties. *)

\* Everything has its type, and the session cache holds a hub's description only
\* along with the key for it.
TypeOK ==
    /\ hub \in [at : 0..MaxChanges, revoked : SUBSET Certs, banned : SUBSET Accounts,
                staged : Cas \cup {NoTarget}, job : {"none", "running", "ended"}]
    /\ alive \in BOOLEAN /\ identity \in BOOLEAN /\ snapshot \in BOOLEAN
    /\ snapshot => identity
    /\ record \in {"absent", "kept", "removed"}
    /\ Head(stack) = "main"
    /\ page.step \in {"start", "confirm", "busy", "staged"}
    /\ DOMAIN calls \subseteq Connection /\ \A i \in DOMAIN calls : calls[i].op \in Ops

\* A list never goes back to an older state of the hub while its screen stays,
\* however the answers to its loads are ordered.
NoStepBack ==
    [][(Top \in {"remote-certs", "remote-accounts"} /\ stack' = stack) =>
         page'.shown.at >= page.shown.at]_vars

\* Once nothing more is under way for a list, it shows the filter it names and
\* every revocation and ban that it reported as done.
SettledListIsCurrent ==
    (/\ On("remote-certs") \/ On("remote-accounts")
     /\ page.step = "start" /\ page.shown.loaded /\ ~page.err
     /\ ~\E i \in DOMAIN calls : calls[i].live /\ calls[i].op \in Loads)
    => page.shown.filter = page.filter /\ page.shown.at >= page.acked

\* The answer that a busy screen waits for broke off in its body.
BrokenOff == \E i \in DOMAIN calls : calls[i].op \in Awaited /\ calls[i].cut

\* A screen that waits and cannot be left gets its answer, whatever fails on the way
\* and whatever else it asked for, unless the one answer it waits for breaks off.
BusyEnds == [](page.step = "busy" => <>(page.step # "busy" \/ ~alive \/ BrokenOff))

=============================================================================
