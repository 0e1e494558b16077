------------------------------ MODULE AcmeOrders ------------------------------
(***************************************************************************)
(* Orders, authorizations, challenges and certificates of the ACME server. *)
(*                                                                         *)
(* The server is one Node process over one SQLite file.  A handler runs    *)
(* without interleaving from one await to the next, but each SQL statement *)
(* it runs commits by itself, so a crash may fall between any two of them. *)
(* The model therefore has one action per statement, and a lock, Free,     *)
(* that says no synchronous code is in the middle of its statements:       *)
(*   - handler: the HTTP handler (or expiry tick) holding the event loop,  *)
(*   - worker:  the challenge worker, which lets go of the event loop at   *)
(*     its awaits ("placing", "validating", "cleaning") and only there.    *)
(* Time is left out: a challenge that is processing may be due, an open    *)
(* row may be past its expires_at, and certificates do not run out.        *)
(***************************************************************************)
EXTENDS Naturals, FiniteSets

CONSTANTS
    Account,      \* accounts of ACME clients
    Admin,        \* the synthetic account that owns admin-issued certificates
    Order,        \* ids of orders
    Ident,        \* dns identifiers
    Wildcard,     \* the wildcards among them
    Type,         \* challenge types the configuration enables
    Cert,         \* ids of certificate rows
    MaxAttempts,  \* MAX_ATTEMPTS of the worker
    BanMode,      \* admin.banMode: "cascade" or "soft"
    MaxCrashes    \* bound on the crashes of a behaviour

ASSUME ConstantsAssumption ==
    /\ Admin \notin Account
    /\ Wildcard \subseteq Ident
    /\ Type \subseteq {"dns-01", "http-01"}
    /\ MaxAttempts \in Nat \ {0}
    /\ BanMode \in {"cascade", "soft"}
    /\ MaxCrashes \in Nat

VARIABLES
    account,    \* account[a]: status column of accounts
    order,      \* order[o]: row of orders
    authz,      \* authz[o][i]: status of the authorization of i in o
    chall,      \* chall[o][i][t]: row of challenges
    certs,      \* the rows of certificates
    handler,    \* the handler that holds the event loop, if any
    worker,     \* where the challenge worker is
    crashes,    \* how often the process crashed (bound)
    cancelled   \* history: orders that were open when their account was banned

vars == <<account, order, authz, chall, certs, handler, worker, crashes, cancelled>>

Owner == Account \cup {Admin}

OpenStatus == {"pending", "ready", "processing"}

OrderStatus == OpenStatus \cup {"none", "valid", "invalid", "expired"}

\* mode is the dns_placement column, "admin" for the placeholder order of an
\* admin-issued certificate; told is whether newOrder's response was sent, so
\* that the client knows the order's URLs; certificate is certificate_id.
OrderRow == [status: OrderStatus, account: Owner, idents: SUBSET Ident,
             mode: {"client", "server-managed", "admin"},
             told: BOOLEAN, certificate: SUBSET Cert]

AuthzStatus == {"none", "pending", "valid", "invalid", "expired"}

ChallRow == [status: {"none", "pending", "processing", "valid", "invalid"},
             attempts: 0..MaxAttempts]

CertRow == [id: Cert, order: Order, account: Owner, revoked: BOOLEAN]

NoHandler == [at |-> "idle"]

\* todo: the identifiers newOrder has not finished; cert: the row just inserted
Handler ==
    [at: {"new.authz", "new.dns", "new.queue", "new.http",
          "fin.sign", "fin.attach", "adm.valid", "adm.cert", "adm.attach"},
     order: Order, todo: SUBSET Ident, cert: SUBSET Cert]

NoWorker == [at |-> "idle"]

\* The awaits of runOne, and the statements its verdict still has to run.
Awaits == {"placing", "validating", "cleaning.valid", "cleaning.invalid"}

Verdicts == {"ok.authz", "ok.promote", "bad.authz", "bad.order"}

\* clean: whether a cleanup of placements follows the verdict
Worker ==
    [at: Awaits \cup Verdicts, order: Order, ident: Ident, type: Type,
     attempts: 0..MaxAttempts, clean: BOOLEAN]

TypeOK ==
    /\ account \in [Owner -> {"none", "valid", "deactivated", "banned"}]
    /\ order \in [Order -> OrderRow]
    /\ authz \in [Order -> [Ident -> AuthzStatus]]
    /\ chall \in [Order -> [Ident -> [Type -> ChallRow]]]
    /\ certs \subseteq CertRow
    /\ handler \in {NoHandler, [at |-> "exp.authz"]} \cup Handler
    /\ worker \in {NoWorker} \cup Worker
    /\ crashes \in 0..MaxCrashes
    /\ cancelled \subseteq Order

EmptyOrder == [status |-> "none", account |-> Admin, idents |-> {}, mode |-> "client",
               told |-> FALSE, certificate |-> {}]

EmptyChall == [status |-> "none", attempts |-> 0]

Init ==
    /\ account = [a \in Owner |-> "none"]
    /\ order = [o \in Order |-> EmptyOrder]
    /\ authz = [o \in Order |-> [i \in Ident |-> "none"]]
    /\ chall = [o \in Order |-> [i \in Ident |-> [t \in Type |-> EmptyChall]]]
    /\ certs = {}
    /\ handler = NoHandler
    /\ worker = NoWorker
    /\ crashes = 0
    /\ cancelled = {}

\* No synchronous code is running: the next callback may start.
Free == handler.at = "idle" /\ worker.at \in Awaits \cup {"idle"}

SetOrder(o, status) == order' = [order EXCEPT ![o].status = status]

SetChall(o, i, t, row) == chall' = [chall EXCEPT ![o][i][t] = row]

\* queueChallenge
Queue(o, i, t) == SetChall(o, i, t, [chall[o][i][t] EXCEPT !.status = "processing"])

CertIds == {r.id : r \in certs}

\* POST /new-account with a new key; the admin account is made on first use.
NewAccount(a) ==
    /\ Free
    /\ account[a] = "none"
    /\ account' = [account EXCEPT ![a] = "valid"]
    /\ UNCHANGED <<order, authz, chall, certs, handler, worker, crashes, cancelled>>

----------------------------------------------------------------------------
(* POST /new-order: the order, then for each identifier its authorization  *)
(* and its challenges, one INSERT or UPDATE at a time.                     *)

InsertOrder(o, a, ids, mode) ==
    /\ Free
    /\ account[a] # "none"
    /\ order[o].status = "none"
    /\ mode = "server-managed" => "dns-01" \in Type
    /\ order' = [order EXCEPT ![o] =
                    [status |-> "pending", account |-> a, idents |-> ids, mode |-> mode,
                     told |-> FALSE, certificate |-> {}]]
    /\ handler' = [at |-> "new.authz", order |-> o, todo |-> ids, cert |-> {}]
    /\ UNCHANGED <<account, authz, chall, certs, worker, crashes, cancelled>>

InsertAuthz(i) ==
    /\ handler.at = "new.authz"
    /\ i \in handler.todo
    /\ authz' = [authz EXCEPT ![handler.order][i] = "pending"]
    /\ handler' = [handler EXCEPT !.at = "new.dns"]
    /\ UNCHANGED <<account, order, chall, certs, worker, crashes, cancelled>>

\* The identifier whose challenges are being inserted.
Current(i) == i \in handler.todo /\ authz[handler.order][i] # "none"

NewChallenge(i, t) == SetChall(handler.order, i, t, [status |-> "pending", attempts |-> 0])

InsertDnsChallenge(i) ==
    /\ handler.at = "new.dns"
    /\ Current(i)
    /\ IF "dns-01" \in Type THEN NewChallenge(i, "dns-01") ELSE UNCHANGED chall
    /\ handler' = [handler EXCEPT !.at =
          IF order[handler.order].mode = "server-managed" THEN "new.queue" ELSE "new.http"]
    /\ UNCHANGED <<account, order, authz, certs, worker, crashes, cancelled>>

QueueServerManaged(i) ==
    /\ handler.at = "new.queue"
    /\ Current(i)
    /\ Queue(handler.order, i, "dns-01")
    /\ handler' = [handler EXCEPT !.at = "new.http"]
    /\ UNCHANGED <<account, order, authz, certs, worker, crashes, cancelled>>

InsertHttpChallenge(i) ==
    /\ handler.at = "new.http"
    /\ Current(i)
    /\ IF /\ order[handler.order].mode # "server-managed"
          /\ "http-01" \in Type
          /\ i \notin Wildcard
       THEN NewChallenge(i, "http-01")
       ELSE UNCHANGED chall
    /\ handler' = [handler EXCEPT !.at = "new.authz", !.todo = @ \ {i}]
    /\ UNCHANGED <<account, order, authz, certs, worker, crashes, cancelled>>

ReplyNewOrder ==
    /\ handler.at = "new.authz"
    /\ handler.todo = {}
    /\ order' = [order EXCEPT ![handler.order].told = TRUE]
    /\ handler' = NoHandler
    /\ UNCHANGED <<account, authz, chall, certs, worker, crashes, cancelled>>

\* POST /chall/:id: a single conditional UPDATE, by the client that knows the order.
TriggerChallenge(o, i, t) ==
    /\ Free
    /\ order[o].told
    /\ chall[o][i][t].status = "pending"
    /\ Queue(o, i, t)
    /\ UNCHANGED <<account, order, authz, certs, handler, worker, crashes, cancelled>>

----------------------------------------------------------------------------
(* POST /order/:id/finalize: status 'processing', sign, insert the         *)
(* certificate, attach it.  A request whose CSR does not carry exactly the *)
(* order's names is refused before the first of these and changes nothing. *)

\* Mutant: an order left 'processing' may be finalized again.
BeginFinalizeRetrying(o) ==
    /\ Free
    /\ order[o].told
    /\ order[o].status \in {"ready", "processing"}
    /\ SetOrder(o, "processing")
    /\ handler' = [at |-> "fin.sign", order |-> o, todo |-> {}, cert |-> {}]
    /\ UNCHANGED <<account, authz, chall, certs, worker, crashes, cancelled>>

\* Mutant: the final status is written first.
BeginFinalizeValidFirst(o) ==
    /\ Free
    /\ order[o].told
    /\ order[o].status = "ready"
    /\ SetOrder(o, "valid")
    /\ handler' = [at |-> "fin.sign", order |-> o, todo |-> {}, cert |-> {}]
    /\ UNCHANGED <<account, authz, chall, certs, worker, crashes, cancelled>>

BeginFinalize(o) ==
    /\ Free
    /\ order[o].told
    /\ order[o].status = "ready"
    /\ SetOrder(o, "processing")
    /\ handler' = [at |-> "fin.sign", order |-> o, todo |-> {}, cert |-> {}]
    /\ UNCHANGED <<account, authz, chall, certs, worker, crashes, cancelled>>

InsertCert(c) ==
    /\ handler.at \in {"fin.sign", "adm.cert"}
    /\ c \notin CertIds
    /\ certs' = certs \cup {[id |-> c, order |-> handler.order,
                             account |-> order[handler.order].account, revoked |-> FALSE]}
    /\ handler' = [handler EXCEPT !.at = IF @ = "fin.sign" THEN "fin.attach" ELSE "adm.attach",
                                  !.cert = {c}]
    /\ UNCHANGED <<account, order, authz, chall, worker, crashes, cancelled>>

\* issueLeaf throws
SignFails ==
    /\ handler.at = "fin.sign"
    /\ SetOrder(handler.order, "invalid")
    /\ handler' = NoHandler
    /\ UNCHANGED <<account, authz, chall, certs, worker, crashes, cancelled>>

AttachCert ==
    /\ handler.at \in {"fin.attach", "adm.attach"}
    /\ order' = [order EXCEPT ![handler.order].status = "valid",
                              ![handler.order].certificate = handler.cert]
    /\ handler' = NoHandler
    /\ UNCHANGED <<account, authz, chall, certs, worker, crashes, cancelled>>

----------------------------------------------------------------------------
(* Admin API.                                                              *)

\* POST /admin/v1/certificates/issue: signs first, then a placeholder order.
AdminInsertOrder(o, ids) ==
    /\ Free
    /\ account[Admin] # "none"
    /\ order[o].status = "none"
    /\ order' = [order EXCEPT ![o] =
                    [status |-> "pending", account |-> Admin, idents |-> ids,
                     mode |-> "admin", told |-> FALSE, certificate |-> {}]]
    /\ handler' = [at |-> "adm.valid", order |-> o, todo |-> {}, cert |-> {}]
    /\ UNCHANGED <<account, authz, chall, certs, worker, crashes, cancelled>>

AdminSetValid ==
    /\ handler.at = "adm.valid"
    /\ SetOrder(handler.order, "valid")
    /\ handler' = [handler EXCEPT !.at = "adm.cert"]
    /\ UNCHANGED <<account, authz, chall, certs, worker, crashes, cancelled>>

\* Either revocation route: refused when the row is revoked already.
RevokeCert(r) ==
    /\ Free
    /\ ~ r.revoked
    /\ certs' = (certs \ {r}) \cup {[r EXCEPT !.revoked = TRUE]}
    /\ UNCHANGED <<account, order, authz, chall, handler, worker, crashes, cancelled>>

OpenOrders(a) == {o \in Order : order[o].account = a /\ order[o].status \in OpenStatus}

\* Mutant: the cascade reaches only the certificates named by an order.
BanByOrder(a) ==
    /\ Free
    /\ account[a] \notin {"none", "banned"}
    /\ account' = [account EXCEPT ![a] = "banned"]
    /\ order' = [o \in Order |->
                    IF o \in OpenOrders(a) THEN [order[o] EXCEPT !.status = "invalid"]
                                           ELSE order[o]]
    /\ certs' = IF BanMode = "cascade"
                  THEN {IF r.account = a /\ order[r.order].certificate = {r.id}
                        THEN [r EXCEPT !.revoked = TRUE] ELSE r : r \in certs}
                  ELSE certs
    /\ cancelled' = cancelled \cup OpenOrders(a)
    /\ UNCHANGED <<authz, chall, handler, worker, crashes>>

\* One transaction: the account, its open orders and, in cascade mode, its certificates.
Ban(a) ==
    /\ Free
    /\ account[a] \notin {"none", "banned"}
    /\ account' = [account EXCEPT ![a] = "banned"]
    /\ order' = [o \in Order |->
                    IF o \in OpenOrders(a) THEN [order[o] EXCEPT !.status = "invalid"]
                                           ELSE order[o]]
    /\ certs' = IF BanMode = "cascade"
                  THEN {IF r.account = a THEN [r EXCEPT !.revoked = TRUE] ELSE r : r \in certs}
                  ELSE certs
    /\ cancelled' = cancelled \cup OpenOrders(a)
    /\ UNCHANGED <<authz, chall, handler, worker, crashes>>

Unban(a) ==
    /\ Free
    /\ account[a] = "banned"
    /\ account' = [account EXCEPT ![a] = "valid"]
    /\ UNCHANGED <<order, authz, chall, certs, handler, worker, crashes, cancelled>>

\* PATCH /admin/v1/accounts/:id with a status; it asks nothing of the old one.
PatchAccount(a, status) ==
    /\ Free
    /\ account[a] # "none"
    /\ account' = [account EXCEPT ![a] = status]
    /\ UNCHANGED <<order, authz, chall, certs, handler, worker, crashes, cancelled>>

----------------------------------------------------------------------------
(* Expiry tick: two UPDATEs.  Which rows are due is left to the clock.     *)

\* Mutant: the UPDATE forgets the status condition.
ExpireAnyOrders(due) ==
    /\ Free
    /\ due # {}
    /\ \A o \in due : order[o].status # "none"
    /\ order' = [o \in Order |->
                    IF o \in due THEN [order[o] EXCEPT !.status = "expired"] ELSE order[o]]
    /\ handler' = [at |-> "exp.authz"]
    /\ UNCHANGED <<account, authz, chall, certs, worker, crashes, cancelled>>

ExpireOrders(due) ==
    /\ Free
    /\ due # {}
    /\ \A o \in due : order[o].status \in OpenStatus
    /\ order' = [o \in Order |->
                    IF o \in due THEN [order[o] EXCEPT !.status = "expired"] ELSE order[o]]
    /\ handler' = [at |-> "exp.authz"]
    /\ UNCHANGED <<account, authz, chall, certs, worker, crashes, cancelled>>

\* due: the authorizations past their expires_at; only the pending ones are touched
ExpireAuthz(due) ==
    /\ handler.at = "exp.authz" \/ (Free /\ \E d \in due : authz[d[1]][d[2]] = "pending")
    /\ authz' = [o \in Order |-> [i \in Ident |->
                    IF <<o, i>> \in due /\ authz[o][i] = "pending" THEN "expired"
                                                                 ELSE authz[o][i]]]
    /\ handler' = NoHandler
    /\ UNCHANGED <<account, order, chall, certs, worker, crashes, cancelled>>

----------------------------------------------------------------------------
(* The challenge worker, runOne.  It reads the challenge once; after the   *)
(* validator's answer it writes without reading the rows again.            *)

\* A server-managed dns-01 challenge may first need its TXT record placed;
\* it does not when a placement of an earlier attempt is still open.
StartChallenge(o, i, t, needsPlacement) ==
    LET managed == order[o].mode = "server-managed" /\ t = "dns-01" IN
    /\ Free
    /\ worker.at = "idle"
    /\ chall[o][i][t].status = "processing"
    /\ needsPlacement => managed
    /\ worker' = [at |-> IF needsPlacement THEN "placing" ELSE "validating",
                  order |-> o, ident |-> i, type |-> t,
                  attempts |-> chall[o][i][t].attempts, clean |-> managed]
    /\ UNCHANGED <<account, order, authz, chall, certs, handler, crashes, cancelled>>

Placed ==
    /\ Free
    /\ worker.at = "placing"
    /\ worker' = [worker EXCEPT !.at = "validating"]
    /\ UNCHANGED <<account, order, authz, chall, certs, handler, crashes, cancelled>>

SetChallenge(status, attempts) ==
    SetChall(worker.order, worker.ident, worker.type, [status |-> status, attempts |-> attempts])

\* markInvalid, first statement: place() threw, or no provider matches.
PlacementFails ==
    /\ Free
    /\ worker.at = "placing"
    /\ SetChallenge("invalid", MaxAttempts)
    /\ worker' = [worker EXCEPT !.at = "bad.authz", !.clean = FALSE]
    /\ UNCHANGED <<account, order, authz, certs, handler, crashes, cancelled>>

AnswerValid ==
    /\ Free
    /\ worker.at = "validating"
    /\ SetChallenge("valid", worker.attempts + 1)
    /\ worker' = [worker EXCEPT !.at = "ok.authz"]
    /\ UNCHANGED <<account, order, authz, certs, handler, crashes, cancelled>>

\* Mutant: off by one, a further attempt after the last.
AnswerRetryOnceMore ==
    /\ Free
    /\ worker.at = "validating"
    /\ worker.attempts <= MaxAttempts
    /\ SetChallenge("processing", worker.attempts + 1)
    /\ worker' = NoWorker
    /\ UNCHANGED <<account, order, authz, certs, handler, crashes, cancelled>>

\* Mutant: the attempt is not counted.
AnswerRetryUncounted ==
    /\ Free
    /\ worker.at = "validating"
    /\ worker.attempts + 1 < MaxAttempts
    /\ SetChallenge("processing", worker.attempts)
    /\ worker' = NoWorker
    /\ UNCHANGED <<account, order, authz, certs, handler, crashes, cancelled>>

AnswerRetry ==
    /\ Free
    /\ worker.at = "validating"
    /\ worker.attempts + 1 < MaxAttempts
    /\ SetChallenge("processing", worker.attempts + 1)
    /\ worker' = NoWorker
    /\ UNCHANGED <<account, order, authz, certs, handler, crashes, cancelled>>

\* markInvalid, first statement: the last attempt failed.
AnswerInvalid ==
    /\ Free
    /\ worker.at = "validating"
    /\ worker.attempts + 1 >= MaxAttempts
    /\ SetChallenge("invalid", MaxAttempts)
    /\ worker' = [worker EXCEPT !.at = "bad.authz"]
    /\ UNCHANGED <<account, order, authz, certs, handler, crashes, cancelled>>

SetAuthzValid ==
    /\ worker.at = "ok.authz"
    /\ authz' = [authz EXCEPT ![worker.order][worker.ident] = "valid"]
    /\ worker' = [worker EXCEPT !.at = IF worker.clean THEN "cleaning.valid" ELSE "ok.promote"]
    /\ UNCHANGED <<account, order, chall, certs, handler, crashes, cancelled>>

\* Mutant: one valid authorization is enough.
SomeAuthzValid(o) == \E i \in Ident : authz[o][i] = "valid"

AllAuthzValid(o) == \A i \in Ident : authz[o][i] \in {"none", "valid"}

\* Mutant: only an order of a single identifier is promoted.
PromoteSingleOnly ==
    /\ worker.at = "ok.promote" \/ (Free /\ worker.at = "cleaning.valid")
    /\ IF /\ \A i \in Ident \ {worker.ident} : authz[worker.order][i] = "none"
          /\ order[worker.order].status = "pending"
         THEN SetOrder(worker.order, "ready")
         ELSE UNCHANGED order
    /\ worker' = NoWorker
    /\ UNCHANGED <<account, authz, chall, certs, handler, crashes, cancelled>>

\* Mutant: the order's own status is not looked at.
PromoteOrderUnchecked ==
    /\ worker.at = "ok.promote" \/ (Free /\ worker.at = "cleaning.valid")
    /\ IF AllAuthzValid(worker.order)
         THEN SetOrder(worker.order, "ready")
         ELSE UNCHANGED order
    /\ worker' = NoWorker
    /\ UNCHANGED <<account, authz, chall, certs, handler, crashes, cancelled>>

\* maybePromoteOrder, in the same run of the event loop or after the cleanup.
MaybePromoteOrder ==
    /\ worker.at = "ok.promote" \/ (Free /\ worker.at = "cleaning.valid")
    /\ IF AllAuthzValid(worker.order) /\ order[worker.order].status = "pending"
         THEN SetOrder(worker.order, "ready")
         ELSE UNCHANGED order
    /\ worker' = NoWorker
    /\ UNCHANGED <<account, authz, chall, certs, handler, crashes, cancelled>>

SetAuthzInvalid ==
    /\ worker.at = "bad.authz"
    /\ authz' = [authz EXCEPT ![worker.order][worker.ident] = "invalid"]
    /\ worker' = [worker EXCEPT !.at = "bad.order"]
    /\ UNCHANGED <<account, order, chall, certs, handler, crashes, cancelled>>

\* Whatever the order's status is by now.
SetOrderInvalid ==
    /\ worker.at = "bad.order"
    /\ SetOrder(worker.order, "invalid")
    /\ worker' = IF worker.clean THEN [worker EXCEPT !.at = "cleaning.invalid"] ELSE NoWorker
    /\ UNCHANGED <<account, authz, chall, certs, handler, crashes, cancelled>>

CleanedInvalid ==
    /\ Free
    /\ worker.at = "cleaning.invalid"
    /\ worker' = NoWorker
    /\ UNCHANGED <<account, order, authz, chall, certs, handler, crashes, cancelled>>

----------------------------------------------------------------------------
\* The process dies and starts again: what it held in memory is gone.
Crash ==
    /\ crashes < MaxCrashes
    /\ crashes' = crashes + 1
    /\ handler' = NoHandler
    /\ worker' = NoWorker
    /\ UNCHANGED <<account, order, authz, chall, certs, cancelled>>

NewOrderStep ==
    \/ \E a \in Owner : NewAccount(a)
    \/ \E o \in Order, a \in Account, ids \in SUBSET Ident \ {{}},
          mode \in {"client", "server-managed"} : InsertOrder(o, a, ids, mode)
    \/ \E i \in Ident : InsertAuthz(i) \/ InsertDnsChallenge(i) \/ QueueServerManaged(i)
                           \/ InsertHttpChallenge(i)
    \/ ReplyNewOrder

ClientStep ==
    \/ \E o \in Order, i \in Ident, t \in Type : TriggerChallenge(o, i, t)
    \/ \E o \in Order : BeginFinalize(o)
    \/ \E c \in Cert : InsertCert(c)
    \/ SignFails
    \/ AttachCert

AdminStep ==
    \/ \E o \in Order, ids \in SUBSET Ident \ {{}} : AdminInsertOrder(o, ids)
    \/ AdminSetValid
    \/ \E r \in certs : RevokeCert(r)
    \/ \E a \in Owner : Ban(a) \/ Unban(a)
    \/ \E a \in Owner, s \in {"valid", "deactivated"} : PatchAccount(a, s)

ExpiryStep ==
    \/ \E due \in SUBSET Order : ExpireOrders(due)
    \/ \E due \in SUBSET (Order \X Ident) : ExpireAuthz(due)

WorkerStep ==
    \/ \E o \in Order, i \in Ident, t \in Type, n \in BOOLEAN : StartChallenge(o, i, t, n)
    \/ Placed \/ PlacementFails
    \/ AnswerValid \/ AnswerRetry \/ AnswerInvalid
    \/ SetAuthzValid \/ MaybePromoteOrder
    \/ SetAuthzInvalid \/ SetOrderInvalid \/ CleanedInvalid

Next == NewOrderStep \/ ClientStep \/ AdminStep \/ ExpiryStep \/ WorkerStep \/ Crash

Spec == Init /\ [][Next]_vars

\* The statements that follow once a handler has the event loop.
HandlerContinues ==
    \/ \E i \in Ident : InsertAuthz(i) \/ InsertDnsChallenge(i) \/ QueueServerManaged(i)
                           \/ InsertHttpChallenge(i)
    \/ ReplyNewOrder
    \/ \E c \in Cert : InsertCert(c)
    \/ SignFails \/ AttachCert \/ AdminSetValid
    \/ handler.at = "exp.authz" /\ \E due \in SUBSET (Order \X Ident) : ExpireAuthz(due)

\* Synchronous code runs on to its end, and the worker's timer fires every 1.5 s and
\* its awaits settle: DNS lookups and nsupdate time out.  Clients, administrators,
\* crashes and the expiry clock owe nothing.
FairSpec == Spec /\ WF_vars(HandlerContinues) /\ WF_vars(WorkerStep)

----------------------------------------------------------------------------
(* Safety.                                                                 *)

\* Finalize is retried by clients and interrupted by crashes, yet no order ever
\* has two certificate rows: the statuses that admit a second attempt are left
\* before the first certificate is written.
OneCertPerOrder == \A r, s \in certs : r.order = s.order => r = s

Proven(o, i) == \E t \in Type : chall[o][i][t].status = "valid"

\* A certificate of an ACME order exists only if every identifier of that order
\* had a challenge answered correctly, whatever was interrupted or came late.
IssuedAfterProof ==
    \A r \in certs : order[r.order].mode # "admin" =>
        \A i \in order[r.order].idents : Proven(r.order, i)

\* A 'valid' ACME order names a certificate row that exists and belongs to the
\* order and to its account, so the client's download finds it.
ValidOrderHasCert ==
    \A o \in Order : order[o].status = "valid" /\ order[o].mode # "admin" =>
        \E r \in certs : /\ order[o].certificate = {r.id}
                         /\ r.order = o
                         /\ r.account = order[o].account

\* A ban is final for the orders it cancels: no validation in flight, finalize or
\* expiry revives one, and in cascade mode no certificate of one stays good, even
\* a certificate that a crash left without its order.
BanIsFinal ==
    \A o \in cancelled :
        /\ order[o].status = "invalid"
        /\ BanMode = "cascade" => \A r \in certs : r.order = o => r.revoked

\* An order that failed or expired is never taken up again by a late answer.
DeadOrdersStayDead ==
    [][\A o \in Order : order[o].status \in {"invalid", "expired"} =>
            order'[o].status \in {"invalid", "expired"}]_vars

\* Every identifier of an order on its way to a certificate, or past it, has an
\* authorization that was created with it.
ReadyCoversIdentifiers ==
    \A o \in Order : order[o].status = "ready" =>
        \A i \in order[o].idents : authz[o][i] # "none"

AllIdentifiersValid(o) ==
    /\ order[o].told
    /\ order[o].status = "pending"
    /\ \A i \in order[o].idents : authz[o][i] = "valid"

----------------------------------------------------------------------------
(* Liveness.                                                               *)

\* A queued challenge is decided, across a crash: 'processing' is in the database,
\* and every attempt that is not lost with the process is counted.
ChallengeDecided ==
    \A o \in Order, i \in Ident, t \in Type :
        chall[o][i][t].status = "processing" ~> chall[o][i][t].status \in {"valid", "invalid"}

\* Once its last authorization is valid a pending order moves on, unless the
\* process dies first: validations of its identifiers end in any order, and only
\* the last one may promote it.
PromotedUnlessCrashed ==
    \A o \in Order : AllIdentifiersValid(o) /\ crashes = 0 ~>
                       order[o].status # "pending" \/ crashes > 0

----------------------------------------------------------------------------
(* The order lifecycle this implements.                                    *)

phase == [o \in Order |-> order[o].status]

outOfBand == {o \in Order : order[o].mode = "admin"}

issued == {r.order : r \in certs}

Lifecycle == INSTANCE OrderLifecycle WITH phase <- phase, outOfBand <- outOfBand, issued <- issued

\* Every statement of every handler, crash and late answer is a step of the
\* order lifecycle or leaves it alone.
ImplementsLifecycle == Lifecycle!Spec

=============================================================================
