--------------------------- MODULE AcmeOrdersProofs ---------------------------
(***************************************************************************)
(* Proofs about AcmeOrders: its type invariant, the four safety invariants *)
(* of its runs, and that it implements OrderLifecycle, for any number of   *)
(* accounts, orders, identifiers, certificates, attempts and crashes.      *)
(***************************************************************************)
EXTENDS AcmeOrders, TLAPS

(***************************************************************************)
(* The inductive invariant.  None of the safety invariants is inductive:   *)
(* each rests on what the statement about to run may count on, that is, on *)
(* what the handler or the worker established earlier in its callback and  *)
(* nobody can have taken back since.                                       *)
(***************************************************************************)

Undecided(row) == row.status \notin {"valid", "invalid"}

\* A challenge still to be decided has an attempt left, in its row and in the copy
\* the worker took before its await.
RowsHaveAttempt ==
    \A o \in Order, i \in Ident, t \in Type :
        Undecided(chall[o][i][t]) => chall[o][i][t].attempts < MaxAttempts

WorkerHasAttempt == worker.at \in {"placing", "validating"} => worker.attempts < MaxAttempts

TypeInv == TypeOK /\ RowsHaveAttempt /\ WorkerHasAttempt

\* A handler runs to its end while the worker is at an await.
EventLoop == handler.at # "idle" => worker.at \in Awaits \cup {"idle"}

\* What the worker read before its await still holds after it.
WorkerFacts ==
    worker.at # "idle" =>
        LET o == worker.order  ch == chall[o][worker.ident][worker.type] IN
        /\ order[o].status # "none"
        /\ worker.at \in {"placing", "validating"} => ch.status = "processing"
        /\ worker.at = "ok.authz" => ch.status = "valid"

CreatingOrder == {"new.authz", "new.dns", "new.queue", "new.http"}

NewOrderFacts ==
    handler.at \in CreatingOrder =>
        LET o == handler.order IN
        /\ order[o].status = "pending" /\ ~ order[o].told /\ order[o].mode # "admin"
        /\ \A i \in order[o].idents \ handler.todo : authz[o][i] # "none"
        /\ \A i \in Ident, t \in Type : Undecided(chall[o][i][t])
        /\ worker.at # "idle" => worker.order # o

\* The certificate a handler has inserted and not yet attached.
Inserted ==
    \E r \in certs : /\ handler.cert = {r.id}
                     /\ r.order = handler.order
                     /\ r.account = order[handler.order].account

IssueFacts ==
    /\ handler.at \in {"fin.sign", "fin.attach"} =>
          order[handler.order].status = "processing" /\ order[handler.order].told
    /\ handler.at = "adm.valid" =>
          order[handler.order].status = "pending" /\ order[handler.order].mode = "admin"
    /\ handler.at \in {"adm.cert", "adm.attach"} =>
          order[handler.order].status = "valid" /\ order[handler.order].mode = "admin"
    /\ handler.at \in {"fin.sign", "adm.cert"} => \A r \in certs : r.order # handler.order
    /\ handler.at \in {"fin.attach", "adm.attach"} => Inserted

\* A row that was never inserted has nothing hanging on it.
FreshRows ==
    \A o \in Order : order[o].status = "none" =>
        /\ ~ order[o].told /\ order[o].mode # "admin"
        /\ \A i \in Ident, t \in Type : chall[o][i][t].status = "none"

\* The client knows only complete orders, and none of the administrator's.
ToldFacts ==
    \A o \in Order : order[o].told =>
        order[o].mode # "admin" /\ \A i \in order[o].idents : authz[o][i] # "none"

AuthzProven == \A o \in Order, i \in Ident : authz[o][i] = "valid" => Proven(o, i)

ReadyProven ==
    \A o \in Order : order[o].told /\ order[o].status \in {"ready", "processing"} =>
        \A i \in order[o].idents : Proven(o, i)

CertFacts ==
    \A r \in certs : /\ order[r.order].status \in {"processing", "valid", "invalid", "expired"}
                     /\ r.account = order[r.order].account

IInv ==
    /\ EventLoop /\ WorkerFacts /\ NewOrderFacts /\ IssueFacts
    /\ FreshRows /\ ToldFacts /\ AuthzProven /\ ReadyProven /\ CertFacts
    /\ OneCertPerOrder /\ IssuedAfterProof /\ ValidOrderHasCert /\ BanIsFinal

----------------------------------------------------------------------------
(* What the updates do, field by field.                                    *)

\* While a handler or the worker is somewhere, its record says what it works on.
LEMMA HandlerRow ==
  ASSUME TypeOK, handler.at \notin {"idle", "exp.authz"}
  PROVE  handler \in Handler /\ handler.order \in Order /\ handler.cert \subseteq Cert
  BY DEF TypeOK, NoHandler, Handler

LEMMA WorkerRow ==
  ASSUME TypeOK, worker.at # "idle"
  PROVE  /\ worker \in Worker
         /\ worker.order \in Order /\ worker.ident \in Ident /\ worker.type \in Type
  BY DEF TypeOK, NoWorker, Worker

\* The columns of an order's row other than its status.
SameRow(o) ==
    /\ order'[o].account = order[o].account /\ order'[o].idents = order[o].idents
    /\ order'[o].mode = order[o].mode /\ order'[o].told = order[o].told
    /\ order'[o].certificate = order[o].certificate

\* Writing a status to some orders writes nothing else.
LEMMA SetStatuses ==
  ASSUME TypeOK, NEW S, NEW status \in OrderStatus,
         order' = [o \in Order |-> IF o \in S THEN [order[o] EXCEPT !.status = status]
                                             ELSE order[o]]
  PROVE  /\ order' \in [Order -> OrderRow]
         /\ \A o \in Order : order'[o].status = IF o \in S THEN status ELSE order[o].status
         /\ \A o \in Order : SameRow(o)
<1>1. ASSUME NEW o \in Order
      PROVE  /\ order'[o] \in OrderRow
             /\ order'[o].status = IF o \in S THEN status ELSE order[o].status
             /\ SameRow(o)
  <2>1. order[o] \in OrderRow
    BY DEF TypeOK
  <2> QED BY <2>1 DEF OrderRow, SameRow
<1> QED BY <1>1

LEMMA SetOrderEffect ==
  ASSUME TypeOK, NEW o \in Order, NEW status \in OrderStatus, SetOrder(o, status)
  PROVE  /\ order' \in [Order -> OrderRow]
         /\ \A p \in Order : order'[p].status = IF p = o THEN status ELSE order[p].status
         /\ \A p \in Order : SameRow(p)
<1>1. order' = [p \in Order |-> IF p \in {o} THEN [order[p] EXCEPT !.status = status]
                                           ELSE order[p]]
  BY DEF SetOrder, TypeOK
<1> QED BY <1>1, SetStatuses

\* Marking a certificate revoked leaves a row of the table.
LEMMA RevokedRow == \A r \in CertRow : [r EXCEPT !.revoked = TRUE] \in CertRow
  BY DEF CertRow

\* Writing one row of challenges.
LEMMA SetChallEffect ==
  ASSUME TypeOK, NEW o \in Order, NEW i \in Ident, NEW t, NEW row \in ChallRow,
         SetChall(o, i, t, row)
  PROVE  /\ chall' \in [Order -> [Ident -> [Type -> ChallRow]]]
         /\ \A p \in Order, j \in Ident, u \in Type :
               chall'[p][j][u] = IF p = o /\ j = i /\ u = t THEN row ELSE chall[p][j][u]
<1>1. chall \in [Order -> [Ident -> [Type -> ChallRow]]]
  BY DEF TypeOK
<1> QED BY <1>1 DEF SetChall

\* There is no row of a challenge type that the configuration disables.
LEMMA SetChallAbsent ==
  ASSUME TypeOK, NEW o \in Order, NEW i \in Ident, NEW t, t \notin Type, NEW row,
         SetChall(o, i, t, row)
  PROVE  /\ chall' \in [Order -> [Ident -> [Type -> ChallRow]]]
         /\ \A p \in Order, j \in Ident, u \in Type : chall'[p][j][u] = chall[p][j][u]
<1>1. chall \in [Order -> [Ident -> [Type -> ChallRow]]]
  BY DEF TypeOK
<1>2. [chall[o][i] EXCEPT ![t] = row] = chall[o][i]
  BY <1>1
<1>3. chall' = [chall EXCEPT ![o][i] = chall[o][i]]
  BY <1>2 DEF SetChall
<1> QED BY <1>1, <1>3

LEMMA QueueEffect ==
  ASSUME TypeOK, NEW o \in Order, NEW i \in Ident, NEW t \in Type, Queue(o, i, t)
  PROVE  /\ chall' \in [Order -> [Ident -> [Type -> ChallRow]]]
         /\ \A p \in Order, j \in Ident, u \in Type :
               /\ chall'[p][j][u].attempts = chall[p][j][u].attempts
               /\ chall'[p][j][u].status = IF p = o /\ j = i /\ u = t THEN "processing"
                                                               ELSE chall[p][j][u].status
<1> DEFINE row == [chall[o][i][t] EXCEPT !.status = "processing"]
<1>1. chall[o][i][t] \in ChallRow
  BY DEF TypeOK
<1>2. /\ row \in ChallRow
      /\ row.attempts = chall[o][i][t].attempts /\ row.status = "processing"
  BY <1>1 DEF ChallRow
<1>3. SetChall(o, i, t, row)
  BY DEF Queue
<1> HIDE DEF row
<1> QED BY <1>2, <1>3, SetChallEffect

\* Writing a row that is decided or has an attempt left.
LEMMA SetChallType ==
  ASSUME TypeInv, NEW o \in Order, NEW i \in Ident, NEW t, NEW row \in ChallRow,
         SetChall(o, i, t, row), Undecided(row) => row.attempts < MaxAttempts
  PROVE  chall' \in [Order -> [Ident -> [Type -> ChallRow]]] /\ RowsHaveAttempt'
<1>1. /\ chall' \in [Order -> [Ident -> [Type -> ChallRow]]]
      /\ \A p \in Order, j \in Ident, u \in Type :
            chall'[p][j][u] = row \/ chall'[p][j][u] = chall[p][j][u]
  BY SetChallEffect DEF TypeInv
<1>2. ASSUME NEW p \in Order, NEW j \in Ident, NEW u \in Type, Undecided(chall'[p][j][u])
      PROVE  chall'[p][j][u].attempts < MaxAttempts
  <2>1. CASE chall'[p][j][u] = row
    BY <1>2, <2>1
  <2>2. CASE chall'[p][j][u] = chall[p][j][u]
    BY <1>2, <2>2 DEF TypeInv, RowsHaveAttempt
  <2> QED BY <1>1, <2>1, <2>2
<1> QED BY <1>1, <1>2 DEF RowsHaveAttempt, Undecided

----------------------------------------------------------------------------
(* Type correctness.                                                       *)

\* Every statement keeps the rows well formed and within the attempts allowed.
LEMMA TypeStep == TypeInv /\ NewOrderFacts /\ [Next]_vars => TypeInv'
<1> SUFFICES ASSUME TypeInv, NewOrderFacts, [Next]_vars PROVE TypeInv'
  OBVIOUS
<1> USE DEF TypeInv
<1>1. ASSUME NEW a \in Owner, NewAccount(a)
      PROVE  TypeInv'
  <2>1. account' \in [Owner -> {"none", "valid", "deactivated", "banned"}]
    BY <1>1 DEF TypeOK, NewAccount
  <2> QED BY <1>1, <2>1 DEF TypeOK, NewAccount, RowsHaveAttempt, WorkerHasAttempt
<1>2. ASSUME NEW o \in Order, NEW a \in Account, NEW ids \in SUBSET Ident,
              NEW mode \in {"client", "server-managed"}, InsertOrder(o, a, ids, mode)
      PROVE  TypeInv'
  <2>1. order' \in [Order -> OrderRow]
    BY <1>2 DEF TypeOK, InsertOrder, OrderRow, OrderStatus, OpenStatus, Owner
  <2>2. handler' \in Handler
    BY <1>2 DEF TypeOK, InsertOrder, Handler
  <2> QED BY <1>2, <2>1, <2>2 DEF TypeOK, InsertOrder, RowsHaveAttempt, WorkerHasAttempt
<1>3. ASSUME NEW i \in Ident, InsertAuthz(i)
      PROVE  TypeInv'
  <2>1. authz' \in [Order -> [Ident -> AuthzStatus]]
    BY <1>3, HandlerRow DEF TypeOK, InsertAuthz, Handler, AuthzStatus
  <2>2. handler' \in Handler
    BY <1>3, HandlerRow DEF TypeOK, InsertAuthz, Handler
  <2> QED BY <1>3, <2>1, <2>2 DEF TypeOK, InsertAuthz, RowsHaveAttempt, WorkerHasAttempt
<1>4. ASSUME NEW i \in Ident, InsertDnsChallenge(i)
      PROVE  TypeInv'
  <2>1. handler \in Handler /\ handler.order \in Order
    BY <1>4, HandlerRow DEF InsertDnsChallenge
  <2>2. handler' \in Handler
    BY <1>4, <2>1 DEF InsertDnsChallenge, Handler
  <2>3. chall' \in [Order -> [Ident -> [Type -> ChallRow]]] /\ RowsHaveAttempt'
    <3>1. CASE UNCHANGED chall
      BY <3>1 DEF TypeOK, RowsHaveAttempt, Undecided
    <3>2. CASE NewChallenge(i, "dns-01")
      <4>1. [status |-> "pending", attempts |-> 0] \in ChallRow
        BY ConstantsAssumption DEF ChallRow
      <4> QED BY <2>1, <3>2, <4>1, SetChallType, ConstantsAssumption DEF NewChallenge
    <3> QED BY <1>4, <3>1, <3>2 DEF InsertDnsChallenge
  <2> QED BY <1>4, <2>2, <2>3 DEF TypeOK, WorkerHasAttempt, InsertDnsChallenge
<1>5. ASSUME NEW i \in Ident, QueueServerManaged(i)
      PROVE  TypeInv'
  <2>1. handler \in Handler /\ handler.order \in Order
    BY <1>5, HandlerRow DEF QueueServerManaged
  <2>2. handler' \in Handler
    BY <1>5, <2>1 DEF QueueServerManaged, Handler
  <2>3. chall' \in [Order -> [Ident -> [Type -> ChallRow]]] /\ RowsHaveAttempt'
    <3>1. CASE "dns-01" \in Type
      <4>1. Undecided(chall[handler.order][i]["dns-01"])
        BY <1>5, <2>1, <3>1 DEF NewOrderFacts, CreatingOrder, QueueServerManaged
      <4>2. /\ chall' \in [Order -> [Ident -> [Type -> ChallRow]]]
            /\ \A p \in Order, j \in Ident, u \in Type :
                  /\ chall'[p][j][u].attempts = chall[p][j][u].attempts
                  /\ Undecided(chall'[p][j][u]) => Undecided(chall[p][j][u])
        BY <1>5, <2>1, <3>1, <4>1, QueueEffect DEF QueueServerManaged, Undecided
      <4> QED BY <4>2 DEF RowsHaveAttempt
    <3>2. CASE "dns-01" \notin Type
      <4>1. SetChall(handler.order, i, "dns-01",
                     [chall[handler.order][i]["dns-01"] EXCEPT !.status = "processing"])
        BY <1>5 DEF QueueServerManaged, Queue
      <4>2. /\ chall' \in [Order -> [Ident -> [Type -> ChallRow]]]
            /\ \A p \in Order, j \in Ident, u \in Type : chall'[p][j][u] = chall[p][j][u]
        BY <2>1, <3>2, <4>1, SetChallAbsent
      <4>3. ASSUME NEW p \in Order, NEW j \in Ident, NEW u \in Type, Undecided(chall'[p][j][u])
            PROVE  chall'[p][j][u].attempts < MaxAttempts
        BY <4>2, <4>3 DEF RowsHaveAttempt
      <4> QED BY <4>2, <4>3 DEF RowsHaveAttempt, Undecided
    <3> QED BY <3>1, <3>2
  <2> QED BY <1>5, <2>2, <2>3 DEF TypeOK, WorkerHasAttempt, QueueServerManaged
<1>6. ASSUME NEW i \in Ident, InsertHttpChallenge(i)
      PROVE  TypeInv'
  <2>1. handler \in Handler /\ handler.order \in Order
    BY <1>6, HandlerRow DEF InsertHttpChallenge
  <2>2. handler' \in Handler
    BY <1>6, <2>1 DEF InsertHttpChallenge, Handler
  <2>3. chall' \in [Order -> [Ident -> [Type -> ChallRow]]] /\ RowsHaveAttempt'
    <3>1. CASE UNCHANGED chall
      BY <3>1 DEF TypeOK, RowsHaveAttempt, Undecided
    <3>2. CASE NewChallenge(i, "http-01")
      <4>1. [status |-> "pending", attempts |-> 0] \in ChallRow
        BY ConstantsAssumption DEF ChallRow
      <4> QED BY <2>1, <3>2, <4>1, SetChallType, ConstantsAssumption DEF NewChallenge
    <3> QED BY <1>6, <3>1, <3>2 DEF InsertHttpChallenge
  <2> QED BY <1>6, <2>2, <2>3 DEF TypeOK, WorkerHasAttempt, InsertHttpChallenge
<1>7. ASSUME ReplyNewOrder
      PROVE  TypeInv'
  <2>1. handler.order \in Order /\ order[handler.order] \in OrderRow
    BY <1>7, HandlerRow DEF TypeOK, ReplyNewOrder
  <2>2. order' \in [Order -> OrderRow]
    BY <1>7, <2>1 DEF TypeOK, ReplyNewOrder, OrderRow
  <2> QED BY <1>7, <2>2 DEF TypeOK, ReplyNewOrder, RowsHaveAttempt, WorkerHasAttempt
<1>8. ASSUME NEW o \in Order, NEW i \in Ident, NEW t \in Type, TriggerChallenge(o, i, t)
      PROVE  TypeInv'
  <2>1. /\ chall' \in [Order -> [Ident -> [Type -> ChallRow]]]
        /\ \A p \in Order, j \in Ident, u \in Type :
              /\ chall'[p][j][u].attempts = chall[p][j][u].attempts
              /\ Undecided(chall'[p][j][u]) => Undecided(chall[p][j][u])
    BY <1>8, QueueEffect DEF TriggerChallenge, Undecided
  <2> QED BY <1>8, <2>1 DEF TypeOK, RowsHaveAttempt, WorkerHasAttempt, TriggerChallenge
<1>9. ASSUME NEW o \in Order, BeginFinalize(o)
      PROVE  TypeInv'
  <2>1. order' \in [Order -> OrderRow]
    BY <1>9, SetOrderEffect DEF TypeOK, BeginFinalize, OrderStatus, OpenStatus
  <2>2. handler' \in Handler
    BY <1>9 DEF TypeOK, BeginFinalize, Handler
  <2> QED BY <1>9, <2>1, <2>2 DEF TypeOK, BeginFinalize, RowsHaveAttempt, WorkerHasAttempt
<1>10. ASSUME NEW c \in Cert, InsertCert(c)
      PROVE  TypeInv'
  <2>1. handler \in Handler /\ handler.order \in Order
    BY <1>10, HandlerRow DEF InsertCert
  <2>2. order[handler.order].account \in Owner
    BY <2>1 DEF TypeOK, OrderRow
  <2>3. [id |-> c, order |-> handler.order,
         account |-> order[handler.order].account, revoked |-> FALSE] \in CertRow
    BY <2>1, <2>2 DEF CertRow
  <2>4. certs' \subseteq CertRow
    BY <1>10, <2>3 DEF TypeOK, InsertCert
  <2>5. handler' \in Handler
    BY <1>10, <2>1 DEF InsertCert, Handler
  <2> QED BY <1>10, <2>4, <2>5 DEF TypeOK, InsertCert, RowsHaveAttempt, WorkerHasAttempt
<1>11. ASSUME SignFails
      PROVE  TypeInv'
  <2>1. order' \in [Order -> OrderRow]
    BY <1>11, HandlerRow, SetOrderEffect DEF TypeOK, SignFails, Handler, OrderStatus
  <2> QED BY <1>11, <2>1 DEF TypeOK, SignFails, RowsHaveAttempt, WorkerHasAttempt
<1>12. ASSUME AttachCert
      PROVE  TypeInv'
  <2>1. handler.cert \subseteq Cert /\ handler.order \in Order /\ order[handler.order] \in OrderRow
    BY <1>12, HandlerRow DEF TypeOK, AttachCert
  <2>2. order' \in [Order -> OrderRow]
    BY <1>12, <2>1 DEF TypeOK, AttachCert, OrderRow, OrderStatus
  <2> QED BY <1>12, <2>2 DEF TypeOK, AttachCert, RowsHaveAttempt, WorkerHasAttempt
<1>13. ASSUME NEW o \in Order, NEW ids \in SUBSET Ident, AdminInsertOrder(o, ids)
      PROVE  TypeInv'
  <2>1. order' \in [Order -> OrderRow]
    BY <1>13 DEF TypeOK, AdminInsertOrder, OrderRow, OrderStatus, OpenStatus, Owner
  <2>2. handler' \in Handler
    BY <1>13 DEF TypeOK, AdminInsertOrder, Handler
  <2> QED BY <1>13, <2>1, <2>2 DEF TypeOK, AdminInsertOrder, RowsHaveAttempt, WorkerHasAttempt
<1>14. ASSUME AdminSetValid
      PROVE  TypeInv'
  <2>1. order' \in [Order -> OrderRow]
    BY <1>14, HandlerRow, SetOrderEffect DEF TypeOK, AdminSetValid, Handler, OrderStatus
  <2>2. handler' \in Handler
    BY <1>14, HandlerRow DEF TypeOK, AdminSetValid, Handler
  <2> QED BY <1>14, <2>1, <2>2 DEF TypeOK, AdminSetValid, RowsHaveAttempt, WorkerHasAttempt
<1>15. ASSUME NEW r \in certs, RevokeCert(r)
      PROVE  TypeInv'
  <2>1. certs \subseteq CertRow
    BY DEF TypeOK
  <2>2. certs' \subseteq CertRow
    BY <1>15, <2>1, RevokedRow DEF RevokeCert
  <2> QED BY <1>15, <2>2 DEF TypeOK, RevokeCert, RowsHaveAttempt, WorkerHasAttempt
<1>16. ASSUME NEW a \in Owner, Ban(a)
      PROVE  TypeInv'
  <2>1. account' \in [Owner -> {"none", "valid", "deactivated", "banned"}]
    BY <1>16 DEF TypeOK, Ban
  <2>2. order' \in [Order -> OrderRow]
    BY <1>16, SetStatuses DEF Ban, OrderStatus
  <2>3. certs' \subseteq CertRow
    <3>1. certs \subseteq CertRow
      BY DEF TypeOK
    <3>2. CASE BanMode = "cascade"
      <4>1. certs' = {IF r.account = a THEN [r EXCEPT !.revoked = TRUE] ELSE r : r \in certs}
        BY <1>16, <3>2 DEF Ban
      <4> QED BY <3>1, <4>1, RevokedRow
    <3>3. CASE BanMode # "cascade"
      <4>1. certs' = certs
        BY <1>16, <3>3 DEF Ban
      <4> QED BY <3>1, <4>1
    <3> QED BY <3>2, <3>3
  <2>4. cancelled' \subseteq Order
    BY <1>16 DEF TypeOK, Ban, OpenOrders
  <2> QED BY <1>16, <2>1, <2>2, <2>3, <2>4 DEF TypeOK, Ban, RowsHaveAttempt, WorkerHasAttempt
<1>17. ASSUME NEW a \in Owner, Unban(a)
      PROVE  TypeInv'
  <2>1. account' \in [Owner -> {"none", "valid", "deactivated", "banned"}]
    BY <1>17 DEF TypeOK, Unban
  <2> QED BY <1>17, <2>1 DEF TypeOK, Unban, RowsHaveAttempt, WorkerHasAttempt
<1>18. ASSUME NEW a \in Owner, NEW s \in {"valid", "deactivated"}, PatchAccount(a, s)
      PROVE  TypeInv'
  <2>1. account' \in [Owner -> {"none", "valid", "deactivated", "banned"}]
    BY <1>18 DEF TypeOK, PatchAccount
  <2> QED BY <1>18, <2>1 DEF TypeOK, PatchAccount, RowsHaveAttempt, WorkerHasAttempt
<1>19. ASSUME NEW due \in SUBSET Order, ExpireOrders(due)
      PROVE  TypeInv'
  <2>1. order' \in [Order -> OrderRow]
    BY <1>19, SetStatuses DEF ExpireOrders, OrderStatus
  <2> QED BY <1>19, <2>1 DEF TypeOK, ExpireOrders, RowsHaveAttempt, WorkerHasAttempt
<1>20. ASSUME NEW due \in SUBSET (Order \X Ident), ExpireAuthz(due)
      PROVE  TypeInv'
  <2>1. authz' \in [Order -> [Ident -> AuthzStatus]]
    BY <1>20 DEF TypeOK, ExpireAuthz, AuthzStatus
  <2> QED BY <1>20, <2>1 DEF TypeOK, ExpireAuthz, RowsHaveAttempt, WorkerHasAttempt
<1>21. ASSUME NEW o \in Order, NEW i \in Ident, NEW t \in Type, NEW n \in BOOLEAN,
              StartChallenge(o, i, t, n)
      PROVE  TypeInv'
  <2>1. worker' \in Worker
    BY <1>21 DEF TypeOK, StartChallenge, Worker, Awaits, ChallRow
  <2>2. WorkerHasAttempt'
    BY <1>21 DEF TypeOK, RowsHaveAttempt, Undecided, WorkerHasAttempt, StartChallenge
  <2> QED BY <1>21, <2>1, <2>2 DEF TypeOK, RowsHaveAttempt, StartChallenge
<1>22. ASSUME Placed
      PROVE  TypeInv'
  <2>1. worker' \in Worker
    BY <1>22, WorkerRow DEF TypeOK, Placed, Worker, Awaits
  <2>2. WorkerHasAttempt'
    BY <1>22, WorkerRow DEF WorkerHasAttempt, Placed, Worker
  <2> QED BY <1>22, <2>1, <2>2 DEF TypeOK, RowsHaveAttempt, Placed
<1>23. ASSUME PlacementFails
      PROVE  TypeInv'
  <2>1. /\ worker \in Worker
        /\ worker.order \in Order /\ worker.ident \in Ident /\ worker.type \in Type
    BY <1>23, WorkerRow DEF PlacementFails
  <2>2. worker' \in Worker /\ worker'.at = "bad.authz"
    BY <1>23, <2>1 DEF PlacementFails, Worker, Verdicts
  <2>3. [status |-> "invalid", attempts |-> MaxAttempts] \in ChallRow
    BY <1>23, <2>1, ConstantsAssumption DEF PlacementFails, Worker, ChallRow, WorkerHasAttempt
  <2>4. chall' \in [Order -> [Ident -> [Type -> ChallRow]]] /\ RowsHaveAttempt'
    BY <1>23, <2>1, <2>3, SetChallType, ConstantsAssumption DEF PlacementFails, SetChallenge, Undecided
  <2> QED BY <1>23, <2>2, <2>4 DEF TypeOK, WorkerHasAttempt, PlacementFails, NoWorker
<1>24. ASSUME AnswerValid
      PROVE  TypeInv'
  <2>1. /\ worker \in Worker
        /\ worker.order \in Order /\ worker.ident \in Ident /\ worker.type \in Type
    BY <1>24, WorkerRow DEF AnswerValid
  <2>2. worker' \in Worker /\ worker'.at = "ok.authz"
    BY <1>24, <2>1 DEF AnswerValid, Worker, Verdicts
  <2>3. [status |-> "valid", attempts |-> worker.attempts + 1] \in ChallRow
    BY <1>24, <2>1, ConstantsAssumption DEF AnswerValid, Worker, ChallRow, WorkerHasAttempt
  <2>4. chall' \in [Order -> [Ident -> [Type -> ChallRow]]] /\ RowsHaveAttempt'
    BY <1>24, <2>1, <2>3, SetChallType, ConstantsAssumption DEF AnswerValid, SetChallenge, Undecided
  <2> QED BY <1>24, <2>2, <2>4 DEF TypeOK, WorkerHasAttempt, AnswerValid, NoWorker
<1>25. ASSUME AnswerRetry
      PROVE  TypeInv'
  <2>1. /\ worker \in Worker
        /\ worker.order \in Order /\ worker.ident \in Ident /\ worker.type \in Type
    BY <1>25, WorkerRow DEF AnswerRetry
  <2>2. worker' = NoWorker
    BY <1>25, <2>1 DEF AnswerRetry, Worker, Verdicts
  <2>3. [status |-> "processing", attempts |-> worker.attempts + 1] \in ChallRow
    BY <1>25, <2>1, ConstantsAssumption DEF AnswerRetry, Worker, ChallRow, WorkerHasAttempt
  <2>4. chall' \in [Order -> [Ident -> [Type -> ChallRow]]] /\ RowsHaveAttempt'
    BY <1>25, <2>1, <2>3, SetChallType, ConstantsAssumption DEF AnswerRetry, SetChallenge, Undecided
  <2> QED BY <1>25, <2>2, <2>4 DEF TypeOK, WorkerHasAttempt, AnswerRetry, NoWorker
<1>26. ASSUME AnswerInvalid
      PROVE  TypeInv'
  <2>1. /\ worker \in Worker
        /\ worker.order \in Order /\ worker.ident \in Ident /\ worker.type \in Type
    BY <1>26, WorkerRow DEF AnswerInvalid
  <2>2. worker' \in Worker /\ worker'.at = "bad.authz"
    BY <1>26, <2>1 DEF AnswerInvalid, Worker, Verdicts
  <2>3. [status |-> "invalid", attempts |-> MaxAttempts] \in ChallRow
    BY <1>26, <2>1, ConstantsAssumption DEF AnswerInvalid, Worker, ChallRow, WorkerHasAttempt
  <2>4. chall' \in [Order -> [Ident -> [Type -> ChallRow]]] /\ RowsHaveAttempt'
    BY <1>26, <2>1, <2>3, SetChallType, ConstantsAssumption DEF AnswerInvalid, SetChallenge, Undecided
  <2> QED BY <1>26, <2>2, <2>4 DEF TypeOK, WorkerHasAttempt, AnswerInvalid, NoWorker
<1>27. ASSUME SetAuthzValid
      PROVE  TypeInv'
  <2>1. authz' \in [Order -> [Ident -> AuthzStatus]]
    BY <1>27, WorkerRow DEF TypeOK, SetAuthzValid, Worker, AuthzStatus
  <2>2. worker' \in Worker
    BY <1>27, WorkerRow DEF TypeOK, SetAuthzValid, Worker, Awaits, Verdicts
  <2>3. WorkerHasAttempt'
    BY <1>27, WorkerRow DEF WorkerHasAttempt, SetAuthzValid, Worker
  <2> QED BY <1>27, <2>1, <2>2, <2>3 DEF TypeOK, RowsHaveAttempt, SetAuthzValid
<1>28. ASSUME MaybePromoteOrder
      PROVE  TypeInv'
  <2>1. order' \in [Order -> OrderRow]
    BY <1>28, WorkerRow, SetOrderEffect DEF TypeOK, MaybePromoteOrder, Worker, OrderStatus, OpenStatus
  <2>2. WorkerHasAttempt'
    BY <1>28 DEF WorkerHasAttempt, MaybePromoteOrder, NoWorker
  <2> QED BY <1>28, <2>1, <2>2 DEF TypeOK, RowsHaveAttempt, MaybePromoteOrder
<1>29. ASSUME SetAuthzInvalid
      PROVE  TypeInv'
  <2>1. authz' \in [Order -> [Ident -> AuthzStatus]]
    BY <1>29, WorkerRow DEF TypeOK, SetAuthzInvalid, Worker, AuthzStatus
  <2>2. worker' \in Worker
    BY <1>29, WorkerRow DEF TypeOK, SetAuthzInvalid, Worker, Verdicts
  <2>3. WorkerHasAttempt'
    BY <1>29, WorkerRow DEF WorkerHasAttempt, SetAuthzInvalid, Worker
  <2> QED BY <1>29, <2>1, <2>2, <2>3 DEF TypeOK, RowsHaveAttempt, SetAuthzInvalid
<1>30. ASSUME SetOrderInvalid
      PROVE  TypeInv'
  <2>1. order' \in [Order -> OrderRow]
    BY <1>30, WorkerRow, SetOrderEffect DEF TypeOK, SetOrderInvalid, Worker, OrderStatus
  <2>2. worker' \in Worker \cup {NoWorker}
    BY <1>30, WorkerRow DEF TypeOK, SetOrderInvalid, Worker, Awaits
  <2>3. WorkerHasAttempt'
    BY <1>30, WorkerRow DEF WorkerHasAttempt, SetOrderInvalid, Worker, NoWorker
  <2> QED BY <1>30, <2>1, <2>2, <2>3 DEF TypeOK, RowsHaveAttempt, SetOrderInvalid
<1>31. ASSUME CleanedInvalid
      PROVE  TypeInv'
  <2>1. WorkerHasAttempt'
    BY <1>31 DEF WorkerHasAttempt, CleanedInvalid, NoWorker
  <2> QED BY <1>31, <2>1 DEF TypeOK, RowsHaveAttempt, CleanedInvalid
<1>32. ASSUME Crash
      PROVE  TypeInv'
  <2>1. crashes' \in 0..MaxCrashes
    BY <1>32, ConstantsAssumption DEF TypeOK, Crash
  <2>2. WorkerHasAttempt'
    BY <1>32 DEF WorkerHasAttempt, Crash, NoWorker
  <2> QED BY <1>32, <2>1, <2>2 DEF TypeOK, RowsHaveAttempt, Crash
<1>33. CASE UNCHANGED vars
  BY <1>33 DEF TypeOK, RowsHaveAttempt, WorkerHasAttempt, vars
<1> QED
  BY <1>1, <1>2, <1>3, <1>4, <1>5, <1>6, <1>7, <1>8, <1>9, <1>10, <1>11, <1>12, <1>13, <1>14, <1>15, <1>16, <1>17, <1>18, <1>19, <1>20, <1>21, <1>22, <1>23, <1>24, <1>25, <1>26, <1>27, <1>28, <1>29, <1>30, <1>31, <1>32, <1>33
  DEF Next, NewOrderStep, ClientStep, AdminStep, ExpiryStep, WorkerStep

----------------------------------------------------------------------------
(* The inductive invariant is inductive.                                   *)

\* What no variable of a conjunct changes, the conjunct survives.
LEMMA Frame ==
  ASSUME TRUE
  PROVE  /\ EventLoop /\ UNCHANGED <<handler, worker>> => EventLoop'
         /\ WorkerFacts /\ UNCHANGED <<worker, order, chall>> => WorkerFacts'
         /\ NewOrderFacts /\ UNCHANGED <<handler, order, authz, chall, worker>> => NewOrderFacts'
         /\ IssueFacts /\ UNCHANGED <<handler, order, certs>> => IssueFacts'
         /\ FreshRows /\ UNCHANGED <<order, chall>> => FreshRows'
         /\ ToldFacts /\ UNCHANGED <<order, authz>> => ToldFacts'
         /\ AuthzProven /\ UNCHANGED <<authz, chall>> => AuthzProven'
         /\ ReadyProven /\ UNCHANGED <<order, chall>> => ReadyProven'
         /\ CertFacts /\ UNCHANGED <<certs, order>> => CertFacts'
         /\ OneCertPerOrder /\ UNCHANGED <<certs>> => OneCertPerOrder'
         /\ IssuedAfterProof /\ UNCHANGED <<certs, order, chall>> => IssuedAfterProof'
         /\ ValidOrderHasCert /\ UNCHANGED <<order, certs>> => ValidOrderHasCert'
         /\ BanIsFinal /\ UNCHANGED <<cancelled, order, certs>> => BanIsFinal'
<1>1. EventLoop /\ UNCHANGED <<handler, worker>> => EventLoop'
  BY DEF EventLoop
<1>2. WorkerFacts /\ UNCHANGED <<worker, order, chall>> => WorkerFacts'
  BY DEF WorkerFacts
<1>3. NewOrderFacts /\ UNCHANGED <<handler, order, authz, chall, worker>> => NewOrderFacts'
  BY DEF NewOrderFacts, Undecided
<1>4. IssueFacts /\ UNCHANGED <<handler, order, certs>> => IssueFacts'
  BY DEF IssueFacts, Inserted
<1>5. FreshRows /\ UNCHANGED <<order, chall>> => FreshRows'
  BY DEF FreshRows
<1>6. ToldFacts /\ UNCHANGED <<order, authz>> => ToldFacts'
  BY DEF ToldFacts
<1>7. AuthzProven /\ UNCHANGED <<authz, chall>> => AuthzProven'
  BY DEF AuthzProven, Proven
<1>8. ReadyProven /\ UNCHANGED <<order, chall>> => ReadyProven'
  BY DEF ReadyProven, Proven
<1>9. CertFacts /\ UNCHANGED <<certs, order>> => CertFacts'
  BY DEF CertFacts
<1>10. OneCertPerOrder /\ UNCHANGED <<certs>> => OneCertPerOrder'
  BY DEF OneCertPerOrder
<1>11. IssuedAfterProof /\ UNCHANGED <<certs, order, chall>> => IssuedAfterProof'
  BY DEF IssuedAfterProof, Proven
<1>12. ValidOrderHasCert /\ UNCHANGED <<order, certs>> => ValidOrderHasCert'
  BY DEF ValidOrderHasCert
<1>13. BanIsFinal /\ UNCHANGED <<cancelled, order, certs>> => BanIsFinal'
  BY DEF BanIsFinal
<1> QED BY <1>1, <1>2, <1>3, <1>4, <1>5, <1>6, <1>7, <1>8, <1>9, <1>10, <1>11, <1>12, <1>13

\* No answer once found right is ever forgotten, so what rests on it stays.
LEMMA ProvenStays ==
  ASSUME AuthzProven, ReadyProven, IssuedAfterProof, CertFacts, TypeOK,
         UNCHANGED <<order, authz, certs>>,
         \A p \in Order, i \in Ident : Proven(p, i) => Proven(p, i)'
  PROVE  AuthzProven' /\ ReadyProven' /\ IssuedAfterProof'
<1>1. AuthzProven'
  BY DEF AuthzProven
<1>2. ReadyProven'
  BY DEF ReadyProven, TypeOK, OrderRow
<1>3. IssuedAfterProof'
  BY DEF IssuedAfterProof, TypeOK, OrderRow, CertRow
<1> QED BY <1>1, <1>2, <1>3

\* Neither the status nor the account of an order's row matters to what its
\* certificate rests on.
LEMMA IssuedStays ==
  ASSUME TypeOK, IssuedAfterProof, UNCHANGED <<chall, certs>>,
         \A p \in Order : order'[p].mode = order[p].mode /\ order'[p].idents = order[p].idents
  PROVE  IssuedAfterProof'
<1>1. \A p \in Order, i \in Ident : Proven(p, i)' <=> Proven(p, i)
  BY DEF Proven
<1>2. ASSUME NEW r \in certs', order'[r.order].mode # "admin", NEW i \in order'[r.order].idents
      PROVE  Proven(r.order, i)'
  <2>1. r \in certs /\ r.order \in Order
    BY DEF TypeOK, CertRow
  <2>2. order[r.order] \in OrderRow
    BY <2>1 DEF TypeOK
  <2>3. order[r.order].mode # "admin" /\ i \in order[r.order].idents /\ i \in Ident
    BY <1>2, <2>1, <2>2 DEF OrderRow
  <2> QED BY <1>1, <2>1, <2>3 DEF IssuedAfterProof
<1> QED BY <1>2 DEF IssuedAfterProof

\* While an order is being created its challenges have no effect on anything else.
LEMMA CreatingChallenges ==
  ASSUME TypeInv, IInv, handler.at \in CreatingOrder, handler.order \in Order,
         \A o \in Order : order[o].idents \subseteq Ident,
         handler'.order = handler.order, handler'.at \in CreatingOrder,
         \A i \in handler.todo \ handler'.todo : authz[handler.order][i] # "none",
         UNCHANGED <<order, authz, certs, worker>>,
         \A p \in Order, j \in Ident, u \in Type :
            \/ chall'[p][j][u].status = chall[p][j][u].status
            \/ p = handler.order /\ Undecided(chall'[p][j][u])
  PROVE  WorkerFacts' /\ NewOrderFacts' /\ FreshRows' /\ AuthzProven' /\ ReadyProven'
         /\ IssuedAfterProof'
<1> USE DEF TypeInv, IInv
<1>1. \A i \in Ident, t \in Type : Undecided(chall[handler.order][i][t])
  BY DEF NewOrderFacts
<1>2. order[handler.order].status = "pending" /\ (worker.at # "idle" => worker.order # handler.order)
  BY DEF NewOrderFacts
<1>3. WorkerFacts'
  BY <1>2, WorkerRow DEF WorkerFacts
<1>4. NewOrderFacts'
  <2>1. \A i \in Ident, t \in Type : Undecided(chall'[handler.order][i][t])
    <3> SUFFICES ASSUME NEW i \in Ident, NEW t \in Type
                 PROVE  Undecided(chall'[handler.order][i][t])
      OBVIOUS
    <3> QED BY <1>1 DEF Undecided
  <2> QED BY <2>1, <1>2 DEF NewOrderFacts, Undecided
<1>5. FreshRows'
  BY <1>2 DEF FreshRows
<1>6. \A p \in Order, i \in Ident : Proven(p, i) => Proven(p, i)'
  BY <1>1 DEF Proven, Undecided
<1>7. AuthzProven' /\ ReadyProven' /\ IssuedAfterProof'
  BY <1>6, ProvenStays
<1> QED BY <1>3, <1>4, <1>5, <1>7

\* Every statement of every handler keeps the invariant.
LEMMA InvStep == TypeInv /\ IInv /\ [Next]_vars => IInv'
<1> SUFFICES ASSUME TypeInv, IInv, [Next]_vars PROVE IInv'
  OBVIOUS
<1> USE DEF TypeInv, IInv
<1>0. TypeInv'
  BY TypeStep
<1>idents. \A o \in Order : order[o].idents \subseteq Ident
  BY DEF TypeOK, OrderRow
<1>rows. \A r \in certs : r.order \in Order /\ r.id \in Cert
  BY DEF TypeOK, CertRow
<1>ban. cancelled \subseteq Order
  BY DEF TypeOK
<1>1. ASSUME NEW a \in Owner, NewAccount(a)
      PROVE  IInv'
  BY <1>1, Frame DEF NewAccount
<1>2. ASSUME NEW o \in Order, NEW a \in Account, NEW ids \in SUBSET Ident,
             NEW mode \in {"client", "server-managed"}, InsertOrder(o, a, ids, mode)
      PROVE  IInv'
  <2>1. /\ order[o].status = "none" /\ handler.at = "idle"
        /\ order'[o].status = "pending" /\ ~ order'[o].told /\ order'[o].mode # "admin"
        /\ order'[o].idents = ids
        /\ \A p \in Order : p # o => order'[p] = order[p]
        /\ handler'.at = "new.authz" /\ handler'.order = o /\ handler'.todo = ids
        /\ UNCHANGED <<authz, chall, certs, worker, cancelled>>
    BY <1>2 DEF InsertOrder, Free, TypeOK
  <2>2. /\ worker.at \in Awaits \cup {"idle"}
        /\ worker.at # "idle" => worker.order \in Order /\ worker.order # o
    BY <1>2, <2>1, WorkerRow DEF InsertOrder, Free, WorkerFacts
  <2>3. \A r \in certs : r.order \in Order /\ r.order # o
    BY <2>1, <1>rows DEF CertFacts
  <2>4. \A i \in Ident, t \in Type : Undecided(chall[o][i][t])
    BY <2>1 DEF FreshRows, Undecided
  <2>5. EventLoop'
    BY <2>1, <2>2 DEF EventLoop
  <2>6. WorkerFacts'
    BY <2>1, <2>2 DEF WorkerFacts
  <2>7. NewOrderFacts'
    BY <2>1, <2>2, <2>4 DEF NewOrderFacts, Undecided
  <2>8. IssueFacts'
    BY <2>1 DEF IssueFacts
  <2>9. FreshRows' /\ ToldFacts' /\ ReadyProven'
    BY <2>1 DEF FreshRows, ToldFacts, ReadyProven, Proven
  <2>10. CertFacts' /\ IssuedAfterProof'
    BY <2>1, <2>3 DEF CertFacts, IssuedAfterProof, Proven
  <2>11. ValidOrderHasCert'
    BY <2>1 DEF ValidOrderHasCert
  <2>12. BanIsFinal'
    BY <2>1, <1>ban DEF BanIsFinal
  <2> QED BY <2>1, <2>5, <2>6, <2>7, <2>8, <2>9, <2>10, <2>11, <2>12, Frame
<1>3. ASSUME NEW i \in Ident, InsertAuthz(i)
      PROVE  IInv'
  <2>1. /\ handler.at = "new.authz" /\ handler.order \in Order
        /\ handler'.at = "new.dns" /\ handler'.order = handler.order
        /\ handler'.todo = handler.todo
        /\ \A p \in Order, j \in Ident :
              authz'[p][j] = IF p = handler.order /\ j = i THEN "pending" ELSE authz[p][j]
        /\ UNCHANGED <<order, chall, certs, worker, cancelled>>
    BY <1>3, HandlerRow DEF InsertAuthz, TypeOK, Handler
  <2>2. EventLoop'
    BY <2>1 DEF EventLoop
  <2>3. NewOrderFacts'
    BY <2>1, <1>idents DEF NewOrderFacts, CreatingOrder, Undecided
  <2>4. IssueFacts'
    BY <2>1 DEF IssueFacts
  <2>5. ToldFacts'
    BY <2>1, <1>idents DEF ToldFacts
  <2>6. AuthzProven'
    BY <2>1 DEF AuthzProven, Proven
  <2> QED BY <2>1, <2>2, <2>3, <2>4, <2>5, <2>6, Frame
<1>4. ASSUME NEW i \in Ident, InsertDnsChallenge(i)
      PROVE  IInv'
  <2>1. /\ handler.at = "new.dns" /\ handler.order \in Order
        /\ handler'.at \in {"new.queue", "new.http"} /\ handler'.order = handler.order
        /\ handler'.todo = handler.todo
        /\ UNCHANGED <<order, authz, certs, worker, cancelled>>
    BY <1>4, HandlerRow DEF InsertDnsChallenge, Current, Handler
  <2>2. \A p \in Order, j \in Ident, u \in Type :
           \/ chall'[p][j][u].status = chall[p][j][u].status
           \/ p = handler.order /\ Undecided(chall'[p][j][u])
    <3>1. CASE UNCHANGED chall
      BY <3>1
    <3>2. CASE NewChallenge(i, "dns-01")
      <4>1. [status |-> "pending", attempts |-> 0] \in ChallRow
        BY ConstantsAssumption DEF ChallRow
      <4>2. \A p \in Order, j \in Ident, u \in Type :
               \/ chall'[p][j][u] = chall[p][j][u]
               \/ /\ p = handler.order
                  /\ chall'[p][j][u] = [status |-> "pending", attempts |-> 0]
        BY <2>1, <3>2, <4>1, SetChallEffect DEF NewChallenge
      <4> QED BY <4>2 DEF Undecided
    <3> QED BY <1>4, <3>1, <3>2 DEF InsertDnsChallenge
  <2>3. WorkerFacts' /\ NewOrderFacts' /\ FreshRows' /\ AuthzProven' /\ ReadyProven'
        /\ IssuedAfterProof'
    BY <2>1, <2>2, CreatingChallenges, <1>idents DEF CreatingOrder
  <2>4. EventLoop' /\ IssueFacts'
    BY <2>1 DEF EventLoop, IssueFacts
  <2> QED BY <2>1, <2>3, <2>4, Frame
<1>5. ASSUME NEW i \in Ident, QueueServerManaged(i)
      PROVE  IInv'
  <2>1. /\ handler.at = "new.queue" /\ handler.order \in Order
        /\ handler'.at \in {"new.http"} /\ handler'.order = handler.order
        /\ handler'.todo = handler.todo
        /\ UNCHANGED <<order, authz, certs, worker, cancelled>>
    BY <1>5, HandlerRow DEF QueueServerManaged, Current, Handler
  <2>2. \A p \in Order, j \in Ident, u \in Type :
           \/ chall'[p][j][u].status = chall[p][j][u].status
           \/ p = handler.order /\ Undecided(chall'[p][j][u])
    <3>1. CASE "dns-01" \in Type
      BY <1>5, <2>1, <3>1, QueueEffect DEF QueueServerManaged, Undecided
    <3>2. CASE "dns-01" \notin Type
      BY <1>5, <2>1, <3>2, SetChallAbsent DEF QueueServerManaged, Queue
    <3> QED BY <3>1, <3>2
  <2>3. WorkerFacts' /\ NewOrderFacts' /\ FreshRows' /\ AuthzProven' /\ ReadyProven'
        /\ IssuedAfterProof'
    BY <2>1, <2>2, CreatingChallenges, <1>idents DEF CreatingOrder
  <2>4. EventLoop' /\ IssueFacts'
    BY <2>1 DEF EventLoop, IssueFacts
  <2> QED BY <2>1, <2>3, <2>4, Frame
<1>6. ASSUME NEW i \in Ident, InsertHttpChallenge(i)
      PROVE  IInv'
  <2>1. /\ handler.at = "new.http" /\ handler.order \in Order
        /\ handler'.at \in {"new.authz"} /\ handler'.order = handler.order
        /\ handler'.todo = handler.todo \ {i} /\ authz[handler.order][i] # "none"
        /\ UNCHANGED <<order, authz, certs, worker, cancelled>>
    BY <1>6, HandlerRow DEF InsertHttpChallenge, Current, Handler
  <2>2. \A p \in Order, j \in Ident, u \in Type :
           \/ chall'[p][j][u].status = chall[p][j][u].status
           \/ p = handler.order /\ Undecided(chall'[p][j][u])
    <3>1. CASE UNCHANGED chall
      BY <3>1
    <3>2. CASE NewChallenge(i, "http-01")
      <4>1. [status |-> "pending", attempts |-> 0] \in ChallRow
        BY ConstantsAssumption DEF ChallRow
      <4>2. \A p \in Order, j \in Ident, u \in Type :
               \/ chall'[p][j][u] = chall[p][j][u]
               \/ /\ p = handler.order
                  /\ chall'[p][j][u] = [status |-> "pending", attempts |-> 0]
        BY <2>1, <3>2, <4>1, SetChallEffect DEF NewChallenge
      <4> QED BY <4>2 DEF Undecided
    <3> QED BY <1>6, <3>1, <3>2 DEF InsertHttpChallenge
  <2>3. WorkerFacts' /\ NewOrderFacts' /\ FreshRows' /\ AuthzProven' /\ ReadyProven'
        /\ IssuedAfterProof'
    BY <2>1, <2>2, CreatingChallenges, <1>idents DEF CreatingOrder
  <2>4. EventLoop' /\ IssueFacts'
    BY <2>1 DEF EventLoop, IssueFacts
  <2> QED BY <2>1, <2>3, <2>4, Frame
<1>7. ASSUME ReplyNewOrder
      PROVE  IInv'
  <2>1. /\ handler.at = "new.authz" /\ handler.todo = {} /\ handler.order \in Order
        /\ handler'.at = "idle"
        /\ UNCHANGED <<authz, chall, certs, worker, cancelled>>
    BY <1>7, HandlerRow DEF ReplyNewOrder, NoHandler
  <2>2. /\ order[handler.order].status = "pending" /\ order[handler.order].mode # "admin"
        /\ \A i \in order[handler.order].idents : authz[handler.order][i] # "none"
    BY <2>1 DEF NewOrderFacts, CreatingOrder
  <2>3. \A p \in Order :
           /\ order'[p].status = order[p].status /\ order'[p].account = order[p].account
           /\ order'[p].idents = order[p].idents /\ order'[p].mode = order[p].mode
           /\ order'[p].certificate = order[p].certificate
           /\ p # handler.order => order'[p].told = order[p].told
    <3> SUFFICES ASSUME NEW p \in Order
                 PROVE  /\ order'[p].status = order[p].status
                        /\ order'[p].account = order[p].account
                        /\ order'[p].idents = order[p].idents /\ order'[p].mode = order[p].mode
                        /\ order'[p].certificate = order[p].certificate
                        /\ p # handler.order => order'[p].told = order[p].told
      OBVIOUS
    <3>1. order \in [Order -> OrderRow] /\ order[p] \in OrderRow
      BY DEF TypeOK
    <3> QED BY <1>7, <2>1, <3>1 DEF ReplyNewOrder, OrderRow
  <2>4. EventLoop' /\ NewOrderFacts' /\ IssueFacts'
    BY <2>1 DEF EventLoop, NewOrderFacts, IssueFacts, CreatingOrder
  <2>5. WorkerFacts'
    BY <2>1, <2>3, WorkerRow DEF WorkerFacts
  <2>6. FreshRows' /\ ToldFacts' /\ ReadyProven'
    BY <2>1, <2>2, <2>3 DEF FreshRows, ToldFacts, ReadyProven, Proven
  <2>7. CertFacts' /\ IssuedAfterProof' /\ ValidOrderHasCert'
    <3>1. CertFacts'
      BY <2>1, <2>3, <1>rows DEF CertFacts, Proven
    <3>2. IssuedAfterProof'
      BY <2>1, <2>3, IssuedStays
    <3>3. ValidOrderHasCert'
      BY <2>1, <2>3, <1>rows DEF Proven, ValidOrderHasCert
    <3> QED BY <3>1, <3>2, <3>3
  <2>8. BanIsFinal'
    BY <2>1, <2>3, <1>ban DEF BanIsFinal
  <2> QED BY <2>1, <2>4, <2>5, <2>6, <2>7, <2>8, Frame
<1>8. ASSUME NEW o \in Order, NEW i \in Ident, NEW t \in Type, TriggerChallenge(o, i, t)
      PROVE  IInv'
  <2>1. /\ chall[o][i][t].status = "pending"
        /\ handler.at = "idle"
        /\ UNCHANGED <<order, authz, certs, handler, worker, cancelled>>
    BY <1>8 DEF TriggerChallenge, Free
  <2>2. \A p \in Order, j \in Ident, u \in Type :
           chall'[p][j][u].status = IF p = o /\ j = i /\ u = t THEN "processing"
                                                      ELSE chall[p][j][u].status
    BY <1>8, QueueEffect DEF TriggerChallenge
  <2>3. WorkerFacts' /\ NewOrderFacts' /\ FreshRows'
    <3>1. WorkerFacts'
      BY <2>1, <2>2, WorkerRow DEF WorkerFacts, CreatingOrder
    <3>2. NewOrderFacts'
      BY <2>1, <2>2, WorkerRow DEF NewOrderFacts, CreatingOrder
    <3>3. FreshRows'
      BY <2>1, <2>2, WorkerRow DEF CreatingOrder, FreshRows
    <3> QED BY <3>1, <3>2, <3>3
  <2>4. \A p \in Order, j \in Ident : Proven(p, j) => Proven(p, j)'
    BY <2>1, <2>2 DEF Proven
  <2>5. AuthzProven' /\ ReadyProven' /\ IssuedAfterProof'
    BY <2>1, <2>4, ProvenStays
  <2> QED BY <2>1, <2>3, <2>5, Frame
<1>9. ASSUME NEW o \in Order, BeginFinalize(o)
      PROVE  IInv'
  <2>1. /\ order[o].told /\ order[o].status = "ready"
        /\ handler.at = "idle" /\ worker.at \in Awaits \cup {"idle"}
        /\ handler'.at = "fin.sign" /\ handler'.order = o
        /\ UNCHANGED <<authz, chall, certs, worker, cancelled>>
    BY <1>9 DEF BeginFinalize, Free
  <2>2. /\ \A p \in Order : order'[p].status = IF p = o THEN "processing" ELSE order[p].status
        /\ \A p \in Order : SameRow(p)
    BY <1>9, SetOrderEffect DEF BeginFinalize, OrderStatus, OpenStatus
  <2>3. \A r \in certs : r.order # o
    BY <2>1 DEF CertFacts
  <2>4. EventLoop' /\ NewOrderFacts' /\ IssueFacts'
    BY <2>1, <2>2, <2>3 DEF EventLoop, NewOrderFacts, CreatingOrder, IssueFacts, SameRow
  <2>5. WorkerFacts'
    BY <2>1, <2>2, WorkerRow DEF WorkerFacts
  <2>6. FreshRows' /\ ToldFacts' /\ ReadyProven'
    BY <2>1, <2>2 DEF FreshRows, ToldFacts, ReadyProven, Proven, SameRow
  <2>7. CertFacts' /\ IssuedAfterProof' /\ ValidOrderHasCert'
    <3>1. CertFacts'
      BY <2>1, <2>2, <1>rows DEF CertFacts, Proven, SameRow
    <3>2. IssuedAfterProof'
      BY <2>1, <2>2, IssuedStays DEF SameRow
    <3>3. ValidOrderHasCert'
      BY <2>1, <2>2, <1>rows DEF Proven, ValidOrderHasCert, SameRow
    <3> QED BY <3>1, <3>2, <3>3
  <2>8. BanIsFinal'
    BY <2>1, <2>2, <1>ban DEF BanIsFinal
  <2> QED BY <2>1, <2>4, <2>5, <2>6, <2>7, <2>8, Frame
<1>10. ASSUME NEW c \in Cert, InsertCert(c)
      PROVE  IInv'
  <2> DEFINE o == handler.order
             new == [id |-> c, order |-> o, account |-> order[o].account, revoked |-> FALSE]
  <2>1. /\ handler.at \in {"fin.sign", "adm.cert"} /\ o \in Order
        /\ handler'.at = IF handler.at = "fin.sign" THEN "fin.attach" ELSE "adm.attach"
        /\ handler'.order = o /\ handler'.cert = {c}
        /\ certs' = certs \cup {new}
        /\ UNCHANGED <<order, authz, chall, worker, cancelled>>
    BY <1>10, HandlerRow DEF InsertCert, Handler
  <2>2. new.id = c /\ new.order = o /\ new.account = order[o].account
    OBVIOUS
  <2>3. /\ order[o].status \in {"processing", "valid"}
        /\ order[o].mode # "admin" => \A i \in order[o].idents : Proven(o, i)
        /\ \A r \in certs : r.order # o
    BY <2>1 DEF IssueFacts, ReadyProven
  <2> HIDE DEF new
  <2>4. EventLoop' /\ NewOrderFacts'
    BY <2>1 DEF EventLoop, NewOrderFacts, CreatingOrder
  <2>5. IssueFacts'
    BY <2>1, <2>2 DEF IssueFacts, Inserted
  <2>6. CertFacts' /\ OneCertPerOrder' /\ ValidOrderHasCert'
    BY <2>1, <2>2, <2>3 DEF CertFacts, OneCertPerOrder, ValidOrderHasCert
  <2>7. IssuedAfterProof'
    BY <2>1, <2>2, <2>3 DEF IssuedAfterProof, Proven
  <2>8. BanIsFinal'
    BY <2>1, <2>2, <2>3 DEF BanIsFinal
  <2> QED BY <2>1, <2>4, <2>5, <2>6, <2>7, <2>8, Frame
<1>11. ASSUME SignFails
      PROVE  IInv'
  <2>1. /\ handler.at = "fin.sign" /\ handler.order \in Order /\ handler'.at = "idle"
        /\ order[handler.order].status = "processing"
        /\ UNCHANGED <<authz, chall, certs, worker, cancelled>>
    BY <1>11, HandlerRow DEF SignFails, NoHandler, IssueFacts
  <2>2. /\ \A p \in Order : order'[p].status = IF p = handler.order THEN "invalid"
                                                                    ELSE order[p].status
        /\ \A p \in Order : SameRow(p)
    BY <1>11, <2>1, SetOrderEffect DEF SignFails, OrderStatus
  <2>3. EventLoop' /\ NewOrderFacts' /\ IssueFacts'
    BY <2>1 DEF EventLoop, NewOrderFacts, CreatingOrder, IssueFacts
  <2>4. WorkerFacts'
    BY <2>1, <2>2, WorkerRow DEF WorkerFacts
  <2>5. FreshRows' /\ ToldFacts' /\ ReadyProven'
    BY <2>1, <2>2 DEF FreshRows, ToldFacts, ReadyProven, Proven, SameRow
  <2>6. CertFacts' /\ IssuedAfterProof' /\ ValidOrderHasCert'
    <3>1. CertFacts'
      BY <2>1, <2>2, <1>rows DEF CertFacts, Proven, SameRow
    <3>2. IssuedAfterProof'
      BY <2>1, <2>2, IssuedStays DEF SameRow
    <3>3. ValidOrderHasCert'
      BY <2>1, <2>2, <1>rows DEF Proven, ValidOrderHasCert, SameRow
    <3> QED BY <3>1, <3>2, <3>3
  <2>7. BanIsFinal'
    BY <2>1, <2>2, <1>ban DEF BanIsFinal
  <2> QED BY <2>1, <2>3, <2>4, <2>5, <2>6, <2>7, Frame
<1>12. ASSUME AttachCert
      PROVE  IInv'
  <2>1. /\ handler.at \in {"fin.attach", "adm.attach"} /\ handler.order \in Order
        /\ handler'.at = "idle"
        /\ UNCHANGED <<authz, chall, certs, worker, cancelled>>
    BY <1>12, HandlerRow DEF AttachCert, NoHandler
  <2>2. order[handler.order].status \in {"processing", "valid"} /\ Inserted
    BY <2>1 DEF IssueFacts
  <2>3. \A p \in Order :
           /\ order'[p].status = IF p = handler.order THEN "valid" ELSE order[p].status
           /\ order'[p].certificate = IF p = handler.order THEN handler.cert
                                                           ELSE order[p].certificate
           /\ order'[p].account = order[p].account /\ order'[p].idents = order[p].idents
           /\ order'[p].mode = order[p].mode /\ order'[p].told = order[p].told
    <3>1. ASSUME NEW p \in Order
          PROVE  /\ order'[p].status = IF p = handler.order THEN "valid" ELSE order[p].status
                 /\ order'[p].certificate = IF p = handler.order THEN handler.cert
                                                                 ELSE order[p].certificate
                 /\ order'[p].account = order[p].account /\ order'[p].idents = order[p].idents
                 /\ order'[p].mode = order[p].mode /\ order'[p].told = order[p].told
      <4>1. order \in [Order -> OrderRow] /\ order[p] \in OrderRow
        BY DEF TypeOK
      <4> QED BY <1>12, <2>1, <4>1 DEF AttachCert, OrderRow
    <3> QED BY <3>1
  <2>4. EventLoop' /\ NewOrderFacts' /\ IssueFacts'
    BY <2>1 DEF EventLoop, NewOrderFacts, CreatingOrder, IssueFacts
  <2>5. WorkerFacts'
    BY <2>1, <2>3, WorkerRow DEF WorkerFacts
  <2>6. FreshRows' /\ ToldFacts' /\ ReadyProven'
    BY <2>1, <2>3 DEF FreshRows, ToldFacts, ReadyProven, Proven
  <2>7. CertFacts' /\ IssuedAfterProof'
    <3>1. CertFacts'
      BY <2>1, <2>3, <1>rows DEF CertFacts
    <3>2. IssuedAfterProof'
      BY <2>1, <2>3, IssuedStays
    <3> QED BY <3>1, <3>2
  <2>8. ValidOrderHasCert'
    BY <2>1, <2>2, <2>3 DEF ValidOrderHasCert, Inserted
  <2>9. BanIsFinal'
    BY <2>1, <2>2, <2>3, <1>ban DEF BanIsFinal
  <2> QED BY <2>1, <2>4, <2>5, <2>6, <2>7, <2>8, <2>9, Frame
<1>13. ASSUME NEW o \in Order, NEW ids \in SUBSET Ident, AdminInsertOrder(o, ids)
      PROVE  IInv'
  <2>1. /\ order[o].status = "none" /\ handler.at = "idle"
        /\ order'[o].status = "pending" /\ ~ order'[o].told /\ order'[o].mode = "admin"
        /\ \A p \in Order : p # o => order'[p] = order[p]
        /\ handler'.at = "adm.valid" /\ handler'.order = o
        /\ UNCHANGED <<authz, chall, certs, worker, cancelled>>
    BY <1>13 DEF AdminInsertOrder, Free, TypeOK
  <2>2. /\ worker.at \in Awaits \cup {"idle"}
        /\ worker.at # "idle" => worker.order \in Order /\ worker.order # o
    BY <1>13, <2>1, WorkerRow DEF AdminInsertOrder, Free, WorkerFacts
  <2>3. \A r \in certs : r.order \in Order /\ r.order # o
    BY <2>1, <1>rows DEF CertFacts
  <2>4. EventLoop' /\ NewOrderFacts' /\ IssueFacts'
    BY <2>1, <2>2 DEF EventLoop, NewOrderFacts, CreatingOrder, IssueFacts
  <2>5. WorkerFacts'
    BY <2>1, <2>2 DEF WorkerFacts
  <2>6. FreshRows' /\ ToldFacts' /\ ReadyProven'
    BY <2>1 DEF FreshRows, ToldFacts, ReadyProven, Proven
  <2>7. CertFacts' /\ IssuedAfterProof' /\ ValidOrderHasCert'
    <3>1. CertFacts'
      BY <2>1, <2>3 DEF CertFacts, Proven
    <3>2. IssuedAfterProof'
      BY <2>1, <2>3 DEF IssuedAfterProof, Proven
    <3>3. ValidOrderHasCert'
      BY <2>1, <2>3 DEF Proven, ValidOrderHasCert
    <3> QED BY <3>1, <3>2, <3>3
  <2>8. BanIsFinal'
    BY <2>1, <1>ban DEF BanIsFinal
  <2> QED BY <2>1, <2>4, <2>5, <2>6, <2>7, <2>8, Frame
<1>14. ASSUME AdminSetValid
      PROVE  IInv'
  <2>1. /\ handler.at = "adm.valid" /\ handler.order \in Order
        /\ handler'.at = "adm.cert" /\ handler'.order = handler.order
        /\ UNCHANGED <<authz, chall, certs, worker, cancelled>>
    BY <1>14, HandlerRow DEF AdminSetValid, Handler
  <2>2. order[handler.order].status = "pending" /\ order[handler.order].mode = "admin"
    BY <2>1 DEF IssueFacts
  <2>3. /\ \A p \in Order : order'[p].status = IF p = handler.order THEN "valid"
                                                                    ELSE order[p].status
        /\ \A p \in Order : SameRow(p)
    BY <1>14, <2>1, SetOrderEffect DEF AdminSetValid, OrderStatus
  <2>4. \A r \in certs : r.order # handler.order
    BY <2>2 DEF CertFacts
  <2>5. EventLoop' /\ NewOrderFacts' /\ IssueFacts'
    BY <2>1, <2>2, <2>3, <2>4 DEF EventLoop, NewOrderFacts, CreatingOrder, IssueFacts, SameRow
  <2>6. WorkerFacts'
    BY <2>1, <2>3, WorkerRow DEF WorkerFacts
  <2>7. FreshRows' /\ ToldFacts' /\ ReadyProven'
    BY <2>1, <2>3 DEF FreshRows, ToldFacts, ReadyProven, Proven, SameRow
  <2>8. CertFacts' /\ IssuedAfterProof'
    <3>1. CertFacts'
      BY <2>1, <2>3, <1>rows DEF CertFacts, SameRow
    <3>2. IssuedAfterProof'
      BY <2>1, <2>3, IssuedStays DEF SameRow
    <3> QED BY <3>1, <3>2
  <2>9. ValidOrderHasCert'
    BY <2>1, <2>2, <2>3 DEF ValidOrderHasCert, SameRow
  <2>10. BanIsFinal'
    BY <2>1, <2>2, <2>3, <1>ban DEF BanIsFinal
  <2> QED BY <2>1, <2>5, <2>6, <2>7, <2>8, <2>9, <2>10, Frame
<1>15. ASSUME NEW r \in certs, RevokeCert(r)
      PROVE  IInv'
  <2> DEFINE new == [r EXCEPT !.revoked = TRUE]
  <2>1. /\ new.id = r.id /\ new.order = r.order /\ new.account = r.account /\ new.revoked
        /\ r.order \in Order
    BY DEF TypeOK, CertRow
  <2>2. /\ certs' = (certs \ {r}) \cup {new} /\ handler.at = "idle"
        /\ UNCHANGED <<order, authz, chall, handler, worker, cancelled>>
    BY <1>15 DEF RevokeCert, Free
  <2> HIDE DEF new
  <2>3. IssueFacts'
    BY <2>2 DEF IssueFacts
  <2>4. CertFacts' /\ OneCertPerOrder'
    BY <2>1, <2>2 DEF CertFacts, OneCertPerOrder
  <2>5. IssuedAfterProof'
    BY <2>1, <2>2 DEF IssuedAfterProof, Proven
  <2>6. ValidOrderHasCert'
    BY <2>1, <2>2 DEF ValidOrderHasCert
  <2>7. BanIsFinal'
    BY <2>1, <2>2 DEF BanIsFinal
  <2> QED BY <2>2, <2>3, <2>4, <2>5, <2>6, <2>7, Frame
<1>16. ASSUME NEW a \in Owner, Ban(a)
      PROVE  IInv'
  <2> DEFINE revoked(r) == IF BanMode = "cascade" /\ r.account = a
                           THEN [r EXCEPT !.revoked = TRUE] ELSE r
  <2>1. /\ handler.at = "idle"
        /\ cancelled' = cancelled \cup OpenOrders(a)
        /\ certs' = {revoked(r) : r \in certs}
        /\ UNCHANGED <<authz, chall, handler, worker>>
    BY <1>16 DEF Ban, Free
  <2>2. /\ \A p \in Order : order'[p].status = IF p \in OpenOrders(a) THEN "invalid"
                                                                     ELSE order[p].status
        /\ \A p \in Order : SameRow(p)
    BY <1>16, SetStatuses DEF Ban, OrderStatus
  <2>3. \A r \in certs : /\ revoked(r).id = r.id /\ revoked(r).order = r.order
                         /\ revoked(r).account = r.account /\ (r.revoked => revoked(r).revoked)
                         /\ BanMode = "cascade" /\ r.account = a => revoked(r).revoked
    BY DEF TypeOK, CertRow
  <2> HIDE DEF revoked
  <2>4. IssueFacts' /\ NewOrderFacts'
    BY <2>1 DEF IssueFacts, NewOrderFacts, CreatingOrder
  <2>5. WorkerFacts'
    BY <2>1, <2>2, WorkerRow DEF WorkerFacts
  <2>6. FreshRows' /\ ToldFacts' /\ ReadyProven'
    BY <2>1, <2>2 DEF FreshRows, ToldFacts, ReadyProven, Proven, SameRow, OpenOrders, OpenStatus
  <2>7. CertFacts' /\ OneCertPerOrder'
    BY <2>1, <2>2, <2>3, <1>rows DEF CertFacts, OneCertPerOrder, SameRow
  <2>8. IssuedAfterProof'
    BY <2>1, <2>2, <2>3, <1>rows DEF IssuedAfterProof, Proven, SameRow
  <2>9. ValidOrderHasCert'
    BY <2>1, <2>2, <2>3 DEF ValidOrderHasCert, SameRow
  <2>10. BanIsFinal'
    <3>1. ASSUME NEW o \in cancelled', NEW r \in certs, r.order = o, BanMode = "cascade"
          PROVE  revoked(r).revoked
      <4>1. CASE o \in cancelled
        BY <2>3, <3>1, <4>1 DEF BanIsFinal
      <4>2. CASE o \in OpenOrders(a)
        <5>1. r.account = a
          BY <3>1, <4>2 DEF OpenOrders, CertFacts
        <5> QED BY <2>3, <3>1, <5>1
      <4> QED BY <2>1, <4>1, <4>2
    <3>2. \A o \in cancelled' : o \in Order /\ order'[o].status = "invalid"
      BY <2>1, <2>2 DEF BanIsFinal, TypeOK, OpenOrders
    <3> QED BY <2>1, <2>3, <3>1, <3>2 DEF BanIsFinal
  <2> QED BY <2>1, <2>4, <2>5, <2>6, <2>7, <2>8, <2>9, <2>10, Frame
<1>17. ASSUME NEW a \in Owner, Unban(a)
       PROVE  IInv'
  BY <1>17, Frame DEF Unban
<1>18. ASSUME NEW a \in Owner, NEW s \in {"valid", "deactivated"}, PatchAccount(a, s)
       PROVE  IInv'
  BY <1>18, Frame DEF PatchAccount
<1>19. ASSUME NEW due \in SUBSET Order, ExpireOrders(due)
       PROVE  IInv'
  <2>1. /\ handler.at = "idle" /\ worker.at \in Awaits \cup {"idle"}
        /\ handler'.at = "exp.authz"
        /\ \A p \in due : order[p].status \in OpenStatus
        /\ UNCHANGED <<authz, chall, certs, worker, cancelled>>
    BY <1>19 DEF ExpireOrders, Free
  <2>2. /\ \A p \in Order : order'[p].status = IF p \in due THEN "expired" ELSE order[p].status
        /\ \A p \in Order : SameRow(p)
    BY <1>19, SetStatuses DEF ExpireOrders, OrderStatus
  <2>3. EventLoop' /\ NewOrderFacts' /\ IssueFacts'
    BY <2>1 DEF EventLoop, NewOrderFacts, CreatingOrder, IssueFacts
  <2>4. WorkerFacts'
    BY <2>1, <2>2, WorkerRow DEF WorkerFacts
  <2>5. FreshRows' /\ ToldFacts' /\ ReadyProven'
    BY <2>1, <2>2 DEF FreshRows, ToldFacts, ReadyProven, Proven, SameRow
  <2>6. CertFacts' /\ IssuedAfterProof'
    <3>1. CertFacts'
      BY <2>1, <2>2, <1>rows DEF CertFacts, SameRow
    <3>2. IssuedAfterProof'
      BY <2>1, <2>2, IssuedStays DEF SameRow
    <3> QED BY <3>1, <3>2
  <2>7. ValidOrderHasCert'
    BY <2>1, <2>2 DEF ValidOrderHasCert, SameRow
  <2>8. BanIsFinal'
    BY <2>1, <2>2, <1>ban DEF BanIsFinal, OpenStatus
  <2> QED BY <2>1, <2>3, <2>4, <2>5, <2>6, <2>7, <2>8, Frame
<1>20. ASSUME NEW due \in SUBSET (Order \X Ident), ExpireAuthz(due)
       PROVE  IInv'
  <2>1. /\ handler'.at = "idle"
        /\ \A p \in Order, i \in Ident : authz'[p][i] \in {authz[p][i], "expired"}
        /\ UNCHANGED <<order, chall, certs, worker, cancelled>>
    BY <1>20 DEF ExpireAuthz, NoHandler
  <2>2. EventLoop' /\ NewOrderFacts' /\ IssueFacts'
    BY <2>1 DEF EventLoop, NewOrderFacts, CreatingOrder, IssueFacts
  <2>3. ToldFacts' /\ AuthzProven'
    BY <2>1, <1>idents DEF ToldFacts, AuthzProven, Proven
  <2> QED BY <2>1, <2>2, <2>3, Frame
<1>21. ASSUME NEW o \in Order, NEW i \in Ident, NEW t \in Type, NEW n \in BOOLEAN,
              StartChallenge(o, i, t, n)
       PROVE  IInv'
  <2>1. /\ handler.at = "idle" /\ chall[o][i][t].status = "processing"
        /\ worker'.at \in {"placing", "validating"}
        /\ worker'.order = o /\ worker'.ident = i /\ worker'.type = t
        /\ UNCHANGED <<order, authz, chall, certs, handler, cancelled>>
    BY <1>21 DEF StartChallenge, Free
  <2>2. EventLoop' /\ NewOrderFacts'
    BY <2>1 DEF EventLoop, NewOrderFacts, CreatingOrder
  <2>3. WorkerFacts'
    BY <2>1 DEF WorkerFacts, FreshRows
  <2> QED BY <2>1, <2>2, <2>3, Frame
<1>22. ASSUME Placed
       PROVE  IInv'
  <2>1. /\ handler.at = "idle" /\ worker.at = "placing" /\ worker'.at = "validating"
        /\ worker'.order = worker.order /\ worker'.ident = worker.ident
        /\ worker'.type = worker.type
        /\ UNCHANGED <<order, authz, chall, certs, handler, cancelled>>
    BY <1>22, WorkerRow DEF Placed, Free, Worker
  <2>2. EventLoop' /\ NewOrderFacts' /\ WorkerFacts'
    BY <2>1 DEF EventLoop, NewOrderFacts, CreatingOrder, WorkerFacts
  <2> QED BY <2>1, <2>2, Frame
<1>23. ASSUME PlacementFails
       PROVE  IInv'
  <2>1. /\ handler.at = "idle" /\ worker.at = "placing" /\ worker'.at = "bad.authz"
        /\ worker.order \in Order /\ worker.ident \in Ident /\ worker.type \in Type
        /\ worker'.order = worker.order /\ worker'.ident = worker.ident
        /\ worker'.type = worker.type
        /\ UNCHANGED <<order, authz, certs, handler, cancelled>>
    BY <1>23, WorkerRow DEF PlacementFails, Free, Worker
  <2>2. chall[worker.order][worker.ident][worker.type].status = "processing"
        /\ order[worker.order].status # "none"
    BY <2>1 DEF WorkerFacts
  <2>3. [status |-> "invalid", attempts |-> MaxAttempts] \in ChallRow
    BY <1>23, <2>1, WorkerRow, ConstantsAssumption DEF PlacementFails, Worker, ChallRow, WorkerHasAttempt
  <2>4. \A p \in Order, j \in Ident, u \in Type :
           chall'[p][j][u].status = IF p = worker.order /\ j = worker.ident /\ u = worker.type
                                    THEN "invalid" ELSE chall[p][j][u].status
    <3>1. SetChall(worker.order, worker.ident, worker.type,
                   [status |-> "invalid", attempts |-> MaxAttempts])
      BY <1>23 DEF PlacementFails, SetChallenge
    <3> QED BY <2>1, <2>3, <3>1, SetChallEffect
  <2>5. EventLoop' /\ NewOrderFacts'
    BY <2>1 DEF EventLoop, NewOrderFacts, CreatingOrder
  <2>6. WorkerFacts' /\ FreshRows'
    BY <2>1, <2>2, <2>4 DEF WorkerFacts, FreshRows
  <2>7. \A p \in Order, j \in Ident : Proven(p, j) => Proven(p, j)'
    BY <2>1, <2>2, <2>4 DEF Proven
  <2>8. AuthzProven' /\ ReadyProven' /\ IssuedAfterProof'
    BY <2>1, <2>7, ProvenStays
  <2> QED BY <2>1, <2>5, <2>6, <2>8, Frame
<1>24. ASSUME AnswerValid
       PROVE  IInv'
  <2>1. /\ handler.at = "idle" /\ worker.at = "validating" /\ worker'.at = "ok.authz"
        /\ worker.order \in Order /\ worker.ident \in Ident /\ worker.type \in Type
        /\ worker'.order = worker.order /\ worker'.ident = worker.ident
        /\ worker'.type = worker.type
        /\ UNCHANGED <<order, authz, certs, handler, cancelled>>
    BY <1>24, WorkerRow DEF AnswerValid, Free, Worker
  <2>2. chall[worker.order][worker.ident][worker.type].status = "processing"
        /\ order[worker.order].status # "none"
    BY <2>1 DEF WorkerFacts
  <2>3. [status |-> "valid", attempts |-> worker.attempts + 1] \in ChallRow
    BY <1>24, <2>1, WorkerRow, ConstantsAssumption DEF AnswerValid, Worker, ChallRow, WorkerHasAttempt
  <2>4. \A p \in Order, j \in Ident, u \in Type :
           chall'[p][j][u].status = IF p = worker.order /\ j = worker.ident /\ u = worker.type
                                    THEN "valid" ELSE chall[p][j][u].status
    <3>1. SetChall(worker.order, worker.ident, worker.type,
                   [status |-> "valid", attempts |-> worker.attempts + 1])
      BY <1>24 DEF AnswerValid, SetChallenge
    <3> QED BY <2>1, <2>3, <3>1, SetChallEffect
  <2>5. EventLoop' /\ NewOrderFacts'
    BY <2>1 DEF EventLoop, NewOrderFacts, CreatingOrder
  <2>6. WorkerFacts' /\ FreshRows'
    BY <2>1, <2>2, <2>4 DEF WorkerFacts, FreshRows
  <2>7. \A p \in Order, j \in Ident : Proven(p, j) => Proven(p, j)'
    BY <2>1, <2>2, <2>4 DEF Proven
  <2>8. AuthzProven' /\ ReadyProven' /\ IssuedAfterProof'
    BY <2>1, <2>7, ProvenStays
  <2> QED BY <2>1, <2>5, <2>6, <2>8, Frame
<1>25. ASSUME AnswerRetry
       PROVE  IInv'
  <2>1. /\ handler.at = "idle" /\ worker.at = "validating" /\ worker'.at = "idle"
        /\ worker.order \in Order /\ worker.ident \in Ident /\ worker.type \in Type
        /\ UNCHANGED <<order, authz, certs, handler, cancelled>>
    BY <1>25, WorkerRow DEF AnswerRetry, Free, NoWorker
  <2>2. chall[worker.order][worker.ident][worker.type].status = "processing"
        /\ order[worker.order].status # "none"
    BY <2>1 DEF WorkerFacts
  <2>3. [status |-> "processing", attempts |-> worker.attempts + 1] \in ChallRow
    BY <1>25, <2>1, WorkerRow, ConstantsAssumption DEF AnswerRetry, Worker, ChallRow, WorkerHasAttempt
  <2>4. \A p \in Order, j \in Ident, u \in Type :
           chall'[p][j][u].status = IF p = worker.order /\ j = worker.ident /\ u = worker.type
                                    THEN "processing" ELSE chall[p][j][u].status
    <3>1. SetChall(worker.order, worker.ident, worker.type,
                   [status |-> "processing", attempts |-> worker.attempts + 1])
      BY <1>25 DEF AnswerRetry, SetChallenge
    <3> QED BY <2>1, <2>3, <3>1, SetChallEffect
  <2>5. EventLoop' /\ NewOrderFacts'
    BY <2>1 DEF EventLoop, NewOrderFacts, CreatingOrder
  <2>6. WorkerFacts' /\ FreshRows'
    BY <2>1, <2>2, <2>4 DEF WorkerFacts, FreshRows
  <2>7. \A p \in Order, j \in Ident : Proven(p, j) => Proven(p, j)'
    BY <2>1, <2>2, <2>4 DEF Proven
  <2>8. AuthzProven' /\ ReadyProven' /\ IssuedAfterProof'
    BY <2>1, <2>7, ProvenStays
  <2> QED BY <2>1, <2>5, <2>6, <2>8, Frame
<1>26. ASSUME AnswerInvalid
       PROVE  IInv'
  <2>1. /\ handler.at = "idle" /\ worker.at = "validating" /\ worker'.at = "bad.authz"
        /\ worker.order \in Order /\ worker.ident \in Ident /\ worker.type \in Type
        /\ worker'.order = worker.order /\ worker'.ident = worker.ident
        /\ worker'.type = worker.type
        /\ UNCHANGED <<order, authz, certs, handler, cancelled>>
    BY <1>26, WorkerRow DEF AnswerInvalid, Free, Worker
  <2>2. chall[worker.order][worker.ident][worker.type].status = "processing"
        /\ order[worker.order].status # "none"
    BY <2>1 DEF WorkerFacts
  <2>3. [status |-> "invalid", attempts |-> MaxAttempts] \in ChallRow
    BY <1>26, <2>1, WorkerRow, ConstantsAssumption DEF AnswerInvalid, Worker, ChallRow, WorkerHasAttempt
  <2>4. \A p \in Order, j \in Ident, u \in Type :
           chall'[p][j][u].status = IF p = worker.order /\ j = worker.ident /\ u = worker.type
                                    THEN "invalid" ELSE chall[p][j][u].status
    <3>1. SetChall(worker.order, worker.ident, worker.type,
                   [status |-> "invalid", attempts |-> MaxAttempts])
      BY <1>26 DEF AnswerInvalid, SetChallenge
    <3> QED BY <2>1, <2>3, <3>1, SetChallEffect
  <2>5. EventLoop' /\ NewOrderFacts'
    BY <2>1 DEF EventLoop, NewOrderFacts, CreatingOrder
  <2>6. WorkerFacts' /\ FreshRows'
    BY <2>1, <2>2, <2>4 DEF WorkerFacts, FreshRows
  <2>7. \A p \in Order, j \in Ident : Proven(p, j) => Proven(p, j)'
    BY <2>1, <2>2, <2>4 DEF Proven
  <2>8. AuthzProven' /\ ReadyProven' /\ IssuedAfterProof'
    BY <2>1, <2>7, ProvenStays
  <2> QED BY <2>1, <2>5, <2>6, <2>8, Frame
<1>27. ASSUME SetAuthzValid
       PROVE  IInv'
  <2>1. /\ worker.at = "ok.authz" /\ worker'.at \in {"cleaning.valid", "ok.promote"}
        /\ worker.order \in Order /\ worker.ident \in Ident /\ worker.type \in Type
        /\ worker'.order = worker.order /\ handler.at = "idle"
        /\ \A p \in Order, i \in Ident :
              authz'[p][i] = IF p = worker.order /\ i = worker.ident THEN "valid" ELSE authz[p][i]
        /\ UNCHANGED <<order, chall, certs, handler, cancelled>>
    BY <1>27, WorkerRow DEF SetAuthzValid, Worker, EventLoop, Awaits, TypeOK
  <2>2. Proven(worker.order, worker.ident)
    BY <2>1 DEF WorkerFacts, Proven
  <2>3. EventLoop' /\ NewOrderFacts' /\ WorkerFacts'
    BY <2>1 DEF EventLoop, NewOrderFacts, CreatingOrder, WorkerFacts
  <2>4. ToldFacts' /\ AuthzProven'
    BY <2>1, <2>2, <1>idents DEF ToldFacts, AuthzProven, Proven
  <2> QED BY <2>1, <2>3, <2>4, Frame
<1>28. ASSUME MaybePromoteOrder
       PROVE  IInv'
  <2>1. /\ worker.at \in {"ok.promote", "cleaning.valid"} /\ worker'.at = "idle"
        /\ worker.order \in Order /\ handler.at = "idle"
        /\ UNCHANGED <<authz, chall, certs, handler, cancelled>>
    BY <1>28, WorkerRow DEF MaybePromoteOrder, NoWorker, EventLoop, Awaits, Free
  <2>2. EventLoop' /\ NewOrderFacts' /\ WorkerFacts'
    BY <2>1 DEF EventLoop, NewOrderFacts, CreatingOrder, WorkerFacts
  <2>3. CASE UNCHANGED order
    BY <2>1, <2>2, <2>3, Frame
  <2>4. CASE /\ AllAuthzValid(worker.order) /\ order[worker.order].status = "pending"
             /\ SetOrder(worker.order, "ready")
    <3>1. /\ \A p \in Order : order'[p].status = IF p = worker.order THEN "ready"
                                                                     ELSE order[p].status
          /\ \A p \in Order : SameRow(p)
      BY <2>1, <2>4, SetOrderEffect DEF OrderStatus, OpenStatus
    <3>2. order[worker.order].told =>
             \A i \in order[worker.order].idents : Proven(worker.order, i)
      BY <2>1, <2>4, <1>idents DEF AllAuthzValid, ToldFacts, AuthzProven
    <3>3. IssueFacts'
      BY <2>1 DEF IssueFacts
    <3>4. ReadyProven'
      BY <2>1, <3>1, <3>2 DEF ReadyProven, Proven, SameRow
    <3>5. FreshRows' /\ ToldFacts'
      BY <2>1, <2>4, <3>1 DEF FreshRows, ToldFacts, SameRow
    <3>6. CertFacts' /\ IssuedAfterProof'
      <4>1. CertFacts'
        BY <2>1, <2>4, <3>1, <1>rows DEF CertFacts, SameRow
      <4>2. IssuedAfterProof'
        BY <2>1, <3>1, IssuedStays DEF SameRow
      <4> QED BY <4>1, <4>2
    <3>7. ValidOrderHasCert'
      BY <2>1, <3>1 DEF ValidOrderHasCert, SameRow
    <3>8. BanIsFinal'
      BY <2>1, <2>4, <3>1, <1>ban DEF BanIsFinal
    <3> QED BY <2>1, <2>2, <3>3, <3>4, <3>5, <3>6, <3>7, <3>8, Frame
  <2> QED BY <1>28, <2>3, <2>4 DEF MaybePromoteOrder
<1>29. ASSUME SetAuthzInvalid
       PROVE  IInv'
  <2>1. /\ worker.at = "bad.authz" /\ worker'.at = "bad.order"
        /\ worker.order \in Order /\ worker.ident \in Ident
        /\ worker'.order = worker.order /\ handler.at = "idle"
        /\ \A p \in Order, i \in Ident :
              authz'[p][i] = IF p = worker.order /\ i = worker.ident THEN "invalid" ELSE authz[p][i]
        /\ UNCHANGED <<order, chall, certs, handler, cancelled>>
    BY <1>29, WorkerRow DEF SetAuthzInvalid, Worker, EventLoop, Awaits, TypeOK
  <2>2. EventLoop' /\ NewOrderFacts' /\ WorkerFacts'
    BY <2>1 DEF EventLoop, NewOrderFacts, CreatingOrder, WorkerFacts
  <2>3. ToldFacts' /\ AuthzProven'
    BY <2>1, <1>idents DEF ToldFacts, AuthzProven, Proven
  <2> QED BY <2>1, <2>2, <2>3, Frame
<1>30. ASSUME SetOrderInvalid
       PROVE  IInv'
  <2>1. /\ worker.at = "bad.order" /\ worker'.at \in {"cleaning.invalid", "idle"}
        /\ worker.order \in Order /\ handler.at = "idle"
        /\ worker'.at # "idle" => worker'.order = worker.order
        /\ UNCHANGED <<authz, chall, certs, handler, cancelled>>
    BY <1>30, WorkerRow DEF SetOrderInvalid, Worker, NoWorker, EventLoop, Awaits
  <2>2. /\ \A p \in Order : order'[p].status = IF p = worker.order THEN "invalid"
                                                                   ELSE order[p].status
        /\ \A p \in Order : SameRow(p)
    BY <1>30, <2>1, SetOrderEffect DEF SetOrderInvalid, OrderStatus
  <2>3. EventLoop' /\ NewOrderFacts' /\ IssueFacts'
    BY <2>1 DEF EventLoop, NewOrderFacts, CreatingOrder, IssueFacts
  <2>4. WorkerFacts'
    BY <2>1, <2>2 DEF WorkerFacts
  <2>5. FreshRows' /\ ToldFacts' /\ ReadyProven'
    BY <2>1, <2>2 DEF FreshRows, ToldFacts, ReadyProven, Proven, SameRow
  <2>6. CertFacts' /\ IssuedAfterProof' /\ ValidOrderHasCert'
    <3>1. CertFacts'
      BY <2>1, <2>2, <1>rows DEF CertFacts, Proven, SameRow
    <3>2. IssuedAfterProof'
      BY <2>1, <2>2, IssuedStays DEF SameRow
    <3>3. ValidOrderHasCert'
      BY <2>1, <2>2, <1>rows DEF Proven, ValidOrderHasCert, SameRow
    <3> QED BY <3>1, <3>2, <3>3
  <2>7. BanIsFinal'
    BY <2>1, <2>2, <1>ban DEF BanIsFinal
  <2> QED BY <2>1, <2>3, <2>4, <2>5, <2>6, <2>7, Frame
<1>31. ASSUME CleanedInvalid
       PROVE  IInv'
  <2>1. /\ worker'.at = "idle" /\ handler.at = "idle"
        /\ UNCHANGED <<order, authz, chall, certs, handler, cancelled>>
    BY <1>31 DEF CleanedInvalid, NoWorker, Free
  <2>2. EventLoop' /\ NewOrderFacts' /\ WorkerFacts'
    BY <2>1 DEF EventLoop, NewOrderFacts, CreatingOrder, WorkerFacts
  <2> QED BY <2>1, <2>2, Frame
<1>32. ASSUME Crash
       PROVE  IInv'
  <2>1. /\ worker'.at = "idle" /\ handler'.at = "idle"
        /\ UNCHANGED <<order, authz, chall, certs, cancelled>>
    BY <1>32 DEF Crash, NoWorker, NoHandler
  <2>2. EventLoop' /\ NewOrderFacts' /\ WorkerFacts' /\ IssueFacts'
    BY <2>1 DEF EventLoop, NewOrderFacts, CreatingOrder, WorkerFacts, IssueFacts
  <2> QED BY <2>1, <2>2, Frame
<1>33. CASE UNCHANGED vars
  BY <1>33, Frame DEF vars
<1> QED
  BY <1>1, <1>2, <1>3, <1>4, <1>5, <1>6, <1>7, <1>8, <1>9, <1>10, <1>11, <1>12, <1>13, <1>14,
     <1>15, <1>16, <1>17, <1>18, <1>19, <1>20, <1>21, <1>22, <1>23, <1>24, <1>25, <1>26, <1>27,
     <1>28, <1>29, <1>30, <1>31, <1>32, <1>33
  DEF Next, NewOrderStep, ClientStep, AdminStep, ExpiryStep, WorkerStep

----------------------------------------------------------------------------
(* The theorems.                                                           *)

LEMMA InitInv == Init => TypeInv /\ IInv
<1> SUFFICES ASSUME Init PROVE TypeInv /\ IInv
  OBVIOUS
<1>1. TypeOK
  BY ConstantsAssumption
  DEF Init, TypeOK, EmptyOrder, EmptyChall, Owner, OrderRow, OrderStatus, OpenStatus, AuthzStatus,
      ChallRow
<1>2. RowsHaveAttempt /\ WorkerHasAttempt
  BY ConstantsAssumption
  DEF Init, RowsHaveAttempt, WorkerHasAttempt, Undecided, EmptyChall, NoWorker
<1>3. IInv
  BY DEF Init, IInv, EventLoop, WorkerFacts, NewOrderFacts, CreatingOrder, IssueFacts, FreshRows,
         ToldFacts, AuthzProven, ReadyProven, CertFacts, OneCertPerOrder, IssuedAfterProof,
         ValidOrderHasCert, BanIsFinal, NoHandler, NoWorker, EmptyOrder, EmptyChall
<1> QED BY <1>1, <1>2, <1>3 DEF TypeInv

\* The invariant holds in every state of every behaviour.
THEOREM Invariance == Spec => [](TypeInv /\ IInv)
<1>1. TypeInv /\ IInv /\ [Next]_vars => (TypeInv /\ IInv)'
  BY InvStep, TypeStep DEF IInv
<1> QED BY <1>1, InitInv, PTL DEF Spec

\* Rows keep their shape, and no challenge is tried more than MAX_ATTEMPTS times,
\* although the attempt is counted in a copy taken before the await.
THEOREM TypeCorrect == Spec => []TypeOK
<1>1. TypeInv /\ IInv => TypeOK
  BY DEF TypeInv
<1> QED BY <1>1, Invariance, PTL

\* No order ever has two certificates, wherever crashes fall between the statements
\* of finalize.
THEOREM NoSecondCertificate == Spec => []OneCertPerOrder
<1>1. TypeInv /\ IInv => OneCertPerOrder
  BY DEF IInv
<1> QED BY <1>1, Invariance, PTL

\* No certificate of an ACME order exists before a correct answer for each of its
\* identifiers.
THEOREM ProofBeforeIssue == Spec => []IssuedAfterProof
<1>1. TypeInv /\ IInv => IssuedAfterProof
  BY DEF IInv
<1> QED BY <1>1, Invariance, PTL

\* A 'valid' ACME order names a certificate of its own.
THEOREM CertificateCanBeFetched == Spec => []ValidOrderHasCert
<1>1. TypeInv /\ IInv => ValidOrderHasCert
  BY DEF IInv
<1> QED BY <1>1, Invariance, PTL

\* What a ban cancelled stays cancelled, and its certificates revoked.
THEOREM BanStands == Spec => []BanIsFinal
<1>1. TypeInv /\ IInv => BanIsFinal
  BY DEF IInv
<1> QED BY <1>1, Invariance, PTL

(***************************************************************************)
(* AcmeOrders implements OrderLifecycle: each SQL statement on an order or *)
(* a certificate is one step of the lifecycle, and everything else,        *)
(* crashes included, leaves the lifecycle alone.                           *)
(***************************************************************************)

\* Statements that touch neither orders nor certificates.
LEMMA Stutter == UNCHANGED <<order, certs>> => UNCHANGED Lifecycle!vars
  BY DEF Lifecycle!vars, phase, outOfBand, issued

\* A statement that only writes a status moves one order.
LEMMA MoveOne ==
  ASSUME TypeOK, NEW o \in Order, NEW status \in OrderStatus, SetOrder(o, status),
         UNCHANGED certs
  PROVE  Lifecycle!Move(o, order[o].status, status) /\ UNCHANGED <<outOfBand, issued>>
<1>1. /\ \A p \in Order : order'[p].status = IF p = o THEN status ELSE order[p].status
      /\ \A p \in Order : SameRow(p)
  BY SetOrderEffect
<1>2. phase' = [phase EXCEPT ![o] = status] /\ phase[o] = order[o].status
  BY <1>1 DEF phase
<1>3. outOfBand' = outOfBand
  BY <1>1 DEF outOfBand, SameRow
<1>4. issued' = issued
  BY DEF issued
<1> QED BY <1>2, <1>3, <1>4 DEF Lifecycle!Move

\* A statement that writes one status to several orders closes them.
LEMMA CloseSome ==
  ASSUME TypeOK, NEW S \in SUBSET Order, NEW status \in {"invalid", "expired"},
         \A o \in S : order[o].status \in OpenStatus,
         order' = [o \in Order |-> IF o \in S THEN [order[o] EXCEPT !.status = status]
                                             ELSE order[o]],
         issued' = issued
  PROVE  Lifecycle!Close(S, status)
<1>1. /\ \A o \in Order : order'[o].status = IF o \in S THEN status ELSE order[o].status
      /\ \A o \in Order : SameRow(o)
  BY SetStatuses DEF OrderStatus
<1>2. phase' = [o \in Order |-> IF o \in S THEN status ELSE phase[o]]
  BY <1>1 DEF phase
<1>3. outOfBand' = outOfBand
  BY <1>1 DEF outOfBand, SameRow
<1>4. \A o \in S : phase[o] \in OpenStatus
  BY DEF phase
<1> QED BY <1>2, <1>3, <1>4 DEF Lifecycle!Close, Lifecycle!Open, OpenStatus

LEMMA InvalidateOne ==
  ASSUME TypeOK, NEW o \in Order, order[o].status # "none", SetOrder(o, "invalid"),
         UNCHANGED certs
  PROVE  \E S \in SUBSET Order : Lifecycle!Close(S, "invalid")
<1>1. Lifecycle!Move(o, order[o].status, "invalid") /\ UNCHANGED <<outOfBand, issued>>
  BY MoveOne DEF OrderStatus
<1>2. phase' = [p \in Order |-> IF p \in {o} THEN "invalid" ELSE phase[p]]
  BY <1>1 DEF Lifecycle!Move, phase
<1>3. phase[o] \in OpenStatus \cup {"valid", "invalid", "expired"}
  BY DEF phase, TypeOK, OrderRow, OrderStatus
<1> QED BY <1>1, <1>2, <1>3 DEF Lifecycle!Close, Lifecycle!Open, OpenStatus

\* Each statement is a step of the lifecycle, or none.
LEMMA LifecycleStep == TypeInv /\ IInv /\ [Next]_vars => [Lifecycle!Next]_(Lifecycle!vars)
<1> SUFFICES ASSUME TypeInv, IInv, [Next]_vars
             PROVE  Lifecycle!Next \/ UNCHANGED Lifecycle!vars
  OBVIOUS
<1> USE DEF TypeInv, IInv
<1>0. order \in [Order -> OrderRow] /\ TypeOK
  BY DEF TypeOK
<1>1. CASE \E o \in Order, a \in Account, ids \in SUBSET Ident \ {{}},
              mode \in {"client", "server-managed"} : InsertOrder(o, a, ids, mode)
  <2>1. PICK o \in Order, a \in Account, ids \in SUBSET Ident,
             mode \in {"client", "server-managed"} : InsertOrder(o, a, ids, mode)
    BY <1>1
  <2>2. /\ order[o].status = "none" /\ order[o].mode # "admin"
        /\ order'[o].status = "pending" /\ order'[o].mode # "admin"
        /\ \A p \in Order : p # o => order'[p] = order[p]
        /\ certs' = certs
    BY <2>1, <1>0 DEF InsertOrder, FreshRows
  <2>3. phase' = [phase EXCEPT ![o] = "pending"] /\ phase[o] = "none"
    BY <2>2 DEF phase
  <2>4. outOfBand' = outOfBand /\ issued' = issued
    BY <2>2 DEF outOfBand, issued
  <2> QED BY <2>3, <2>4 DEF Lifecycle!Next, Lifecycle!Create, Lifecycle!Move
<1>2. CASE \E o \in Order, ids \in SUBSET Ident \ {{}} : AdminInsertOrder(o, ids)
  <2>1. PICK o \in Order, ids \in SUBSET Ident : AdminInsertOrder(o, ids)
    BY <1>2
  <2>2. /\ order[o].status = "none"
        /\ order'[o].status = "pending" /\ order'[o].mode = "admin"
        /\ \A p \in Order : p # o => order'[p] = order[p]
        /\ certs' = certs
    BY <2>1, <1>0 DEF AdminInsertOrder
  <2>3. phase' = [phase EXCEPT ![o] = "pending"] /\ phase[o] = "none"
    BY <2>2 DEF phase
  <2>4. outOfBand' = outOfBand \cup {o} /\ issued' = issued
    BY <2>2 DEF outOfBand, issued
  <2> QED BY <2>3, <2>4 DEF Lifecycle!Next, Lifecycle!Create, Lifecycle!Move
<1>3. CASE ReplyNewOrder
  <2>1. handler.order \in Order /\ certs' = certs
    BY <1>3, HandlerRow DEF ReplyNewOrder
  <2>2. ASSUME NEW p \in Order
        PROVE  order'[p].status = order[p].status /\ order'[p].mode = order[p].mode
    <3>1. order[p] \in OrderRow
      BY <1>0
    <3> QED BY <1>0, <1>3, <2>1, <3>1 DEF ReplyNewOrder, OrderRow
  <2>3. phase' = phase /\ outOfBand' = outOfBand /\ issued' = issued
    BY <2>1, <2>2 DEF phase, outOfBand, issued
  <2> QED BY <2>3 DEF Lifecycle!vars
<1>4. CASE \E o \in Order : BeginFinalize(o)
  <2>1. PICK o \in Order : BeginFinalize(o)
    BY <1>4
  <2>2. order[o].status = "ready" /\ SetOrder(o, "processing") /\ certs' = certs
    BY <2>1 DEF BeginFinalize
  <2>3. Lifecycle!Move(o, "ready", "processing") /\ UNCHANGED <<outOfBand, issued>>
    BY <1>0, <2>2, MoveOne DEF OrderStatus, OpenStatus
  <2> QED BY <2>3 DEF Lifecycle!Next, Lifecycle!Finalize
<1>5. CASE \E c \in Cert : InsertCert(c)
  <2>1. PICK c \in Cert : InsertCert(c)
    BY <1>5
  <2> DEFINE o == handler.order
             new == [id |-> c, order |-> o, account |-> order[o].account, revoked |-> FALSE]
  <2>2. /\ o \in Order /\ handler.at \in {"fin.sign", "adm.cert"}
        /\ certs' = certs \cup {new} /\ order' = order
    BY <2>1, <1>0, HandlerRow DEF InsertCert
  <2>3. new.order = o
    OBVIOUS
  <2>4. /\ \A r \in certs : r.order # o
        /\ order[o].status = IF order[o].mode = "admin" THEN "valid" ELSE "processing"
    BY <2>2 DEF IssueFacts, ToldFacts
  <2> HIDE DEF new
  <2>5. o \notin issued /\ issued' = issued \cup {o}
    BY <2>2, <2>3, <2>4 DEF issued
  <2>6. phase' = phase /\ outOfBand' = outOfBand
    BY <2>2 DEF phase, outOfBand
  <2>7. phase[o] = IF o \in outOfBand THEN "valid" ELSE "processing"
    BY <2>2, <2>4 DEF phase, outOfBand
  <2> QED BY <2>2, <2>5, <2>6, <2>7 DEF Lifecycle!Next, Lifecycle!Issue
<1>6. CASE SignFails
  <2>1. /\ handler.order \in Order /\ order[handler.order].status = "processing"
        /\ SetOrder(handler.order, "invalid") /\ certs' = certs
    BY <1>0, <1>6, HandlerRow DEF SignFails, IssueFacts
  <2> QED BY <1>0, <2>1, InvalidateOne DEF Lifecycle!Next
<1>7. CASE AttachCert
  <2> DEFINE o == handler.order
  <2>1. o \in Order /\ certs' = certs /\ handler.at \in {"fin.attach", "adm.attach"}
    BY <1>0, <1>7, HandlerRow DEF AttachCert
  <2>2. /\ Inserted
        /\ order[o].status \in {"processing", "valid"}
    BY <2>1 DEF IssueFacts
  <2>3. ASSUME NEW p \in Order
        PROVE  /\ order'[p].status = IF p = o THEN "valid" ELSE order[p].status
               /\ order'[p].mode = order[p].mode
    <3>1. order[p] \in OrderRow
      BY <1>0
    <3> QED BY <1>0, <1>7, <2>1, <3>1 DEF AttachCert, OrderRow
  <2>4. phase' = [phase EXCEPT ![o] = "valid"] /\ phase[o] = order[o].status
    BY <2>1, <2>3 DEF phase
  <2>5. outOfBand' = outOfBand /\ issued' = issued /\ o \in issued
    BY <2>1, <2>2, <2>3 DEF outOfBand, issued, Inserted
  <2>6. CASE phase[o] = "processing"
    BY <2>1, <2>4, <2>5, <2>6 DEF Lifecycle!Next, Lifecycle!Complete, Lifecycle!Move
  <2>7. CASE phase[o] = "valid"
    <3>1. phase' = phase
      BY <2>1, <2>4, <2>7 DEF phase
    <3> QED BY <2>5, <3>1 DEF Lifecycle!vars
  <2> QED BY <2>2, <2>4, <2>6, <2>7
<1>8. CASE AdminSetValid
  <2>1. /\ handler.order \in Order
        /\ order[handler.order].status = "pending" /\ order[handler.order].mode = "admin"
        /\ SetOrder(handler.order, "valid") /\ certs' = certs
    BY <1>0, <1>8, HandlerRow DEF AdminSetValid, IssueFacts
  <2>2. /\ Lifecycle!Move(handler.order, "pending", "valid")
        /\ UNCHANGED <<outOfBand, issued>>
    BY <1>0, <2>1, MoveOne DEF OrderStatus, OpenStatus
  <2>3. handler.order \in outOfBand
    BY <2>1 DEF outOfBand
  <2> QED BY <2>1, <2>2, <2>3 DEF Lifecycle!Next, Lifecycle!Vouch
<1>9. CASE \E r \in certs : RevokeCert(r)
  <2>1. PICK r \in certs : RevokeCert(r)
    BY <1>9
  <2> DEFINE new == [r EXCEPT !.revoked = TRUE]
  <2>2. certs' = (certs \ {r}) \cup {new} /\ order' = order
    BY <2>1 DEF RevokeCert
  <2>3. new.order = r.order
    BY DEF TypeOK, CertRow
  <2> HIDE DEF new
  <2>4. issued' = issued
    BY <2>2, <2>3 DEF issued
  <2>5. phase' = phase /\ outOfBand' = outOfBand
    BY <2>2 DEF phase, outOfBand
  <2> QED BY <2>4, <2>5 DEF Lifecycle!vars
<1>10. CASE \E a \in Owner : Ban(a)
  <2>1. PICK a \in Owner : Ban(a)
    BY <1>10
  <2> DEFINE revoked(r) == IF BanMode = "cascade" /\ r.account = a
                           THEN [r EXCEPT !.revoked = TRUE] ELSE r
  <2>2. certs' = {revoked(r) : r \in certs}
    BY <2>1 DEF Ban
  <2>3. \A r \in certs : revoked(r).order = r.order
    BY DEF TypeOK, CertRow
  <2> HIDE DEF revoked
  <2>4. issued' = issued
    BY <2>2, <2>3 DEF issued
  <2>5. Lifecycle!Close(OpenOrders(a), "invalid")
    BY <1>0, <2>1, <2>4, CloseSome DEF Ban, OpenOrders
  <2> QED BY <2>5 DEF Lifecycle!Next, OpenOrders
<1>11. CASE \E due \in SUBSET Order : ExpireOrders(due)
  <2>1. PICK due \in SUBSET Order : ExpireOrders(due)
    BY <1>11
  <2>2. issued' = issued
    BY <2>1 DEF ExpireOrders, issued
  <2>3. Lifecycle!Close(due, "expired")
    BY <1>0, <2>1, <2>2, CloseSome DEF ExpireOrders
  <2> QED BY <2>3 DEF Lifecycle!Next
<1>12. CASE MaybePromoteOrder
  <2>1. worker.order \in Order /\ certs' = certs
    BY <1>0, <1>12, WorkerRow DEF MaybePromoteOrder
  <2>2. CASE UNCHANGED order
    BY <2>1, <2>2, Stutter
  <2>3. CASE order[worker.order].status = "pending" /\ SetOrder(worker.order, "ready")
    <3>1. Lifecycle!Move(worker.order, "pending", "ready") /\ UNCHANGED <<outOfBand, issued>>
      BY <1>0, <2>1, <2>3, MoveOne DEF OrderStatus, OpenStatus
    <3> QED BY <2>1, <3>1 DEF Lifecycle!Next, Lifecycle!Promote
  <2> QED BY <1>12, <2>2, <2>3 DEF MaybePromoteOrder
<1>13. CASE SetOrderInvalid
  <2>1. /\ worker.order \in Order /\ order[worker.order].status # "none"
        /\ SetOrder(worker.order, "invalid") /\ certs' = certs
    BY <1>0, <1>13, WorkerRow DEF SetOrderInvalid, WorkerFacts
  <2> QED BY <1>0, <2>1, InvalidateOne DEF Lifecycle!Next
<1>14. ASSUME UNCHANGED <<order, certs>> PROVE UNCHANGED Lifecycle!vars
  BY <1>14, Stutter
<1> QED
  BY <1>1, <1>2, <1>3, <1>4, <1>5, <1>6, <1>7, <1>8, <1>9, <1>10, <1>11, <1>12, <1>13, <1>14
  DEF Next, NewOrderStep, ClientStep, AdminStep, ExpiryStep, WorkerStep, vars,
      NewAccount, InsertAuthz, InsertDnsChallenge, QueueServerManaged, InsertHttpChallenge,
      TriggerChallenge, Unban, PatchAccount, ExpireAuthz, StartChallenge, Placed,
      PlacementFails, AnswerValid, AnswerRetry, AnswerInvalid, SetAuthzValid, SetAuthzInvalid,
      CleanedInvalid, Crash

LEMMA LifecycleInit == Init => Lifecycle!Init
  BY DEF Init, Lifecycle!Init, phase, outOfBand, issued, EmptyOrder

\* The server, with its statements, crashes and late answers, implements the order
\* lifecycle.
THEOREM Implementation == Spec => ImplementsLifecycle
<1> QED BY LifecycleInit, LifecycleStep, Invariance, PTL DEF Spec, Lifecycle!Spec, ImplementsLifecycle

\* An order that is invalid or expired never comes back: no statement of the server
\* does what no step of the lifecycle does.
THEOREM NoRevival == Spec => DeadOrdersStayDead
<1> DEFINE Dead == {"invalid", "expired"}
           Stays == \A o \in Order : order[o].status \in Dead => order'[o].status \in Dead
<1>1. [Lifecycle!Next]_(Lifecycle!vars) =>
         \A o \in Order : phase[o] \in Dead => phase'[o] \in Dead
  <2> SUFFICES ASSUME Lifecycle!Next \/ UNCHANGED Lifecycle!vars, NEW o \in Order,
                      phase[o] \in Dead
               PROVE  phase'[o] \in Dead
    OBVIOUS
  <2>1. CASE UNCHANGED Lifecycle!vars
    BY <2>1 DEF Lifecycle!vars
  <2>2. CASE \E p \in Order : \/ Lifecycle!Create(p) \/ Lifecycle!Promote(p)
                              \/ Lifecycle!Finalize(p) \/ Lifecycle!Issue(p)
                              \/ Lifecycle!Complete(p) \/ Lifecycle!Vouch(p)
    BY <2>2 DEF Lifecycle!Create, Lifecycle!Promote, Lifecycle!Finalize, Lifecycle!Issue,
                Lifecycle!Complete, Lifecycle!Vouch, Lifecycle!Move, phase
  <2>3. CASE \E S \in SUBSET Order, to \in Dead : Lifecycle!Close(S, to)
    BY <2>3 DEF Lifecycle!Close
  <2> QED BY <2>1, <2>2, <2>3 DEF Lifecycle!Next
<1>2. TypeInv /\ IInv /\ [Next]_vars => Stays
  BY <1>1, LifecycleStep DEF phase
<1>3. TypeInv /\ IInv /\ [Next]_vars => [Stays]_vars
  BY <1>2
<1> QED BY <1>3, Invariance, PTL DEF Spec, DeadOrdersStayDead

=============================================================================
