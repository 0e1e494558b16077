--------------------------- MODULE AcmeClientProofs ---------------------------
(***************************************************************************)
(* Proofs about AcmeClient, for any number of authorizations, runs and     *)
(* polls: its type invariant, the three safety invariants of its run, and  *)
(* that the server it assumes keeps to OrderLifecycle.                     *)
(***************************************************************************)
EXTENDS AcmeClient, TLAPS

(***************************************************************************)
(* The inductive invariant.                                                *)
(***************************************************************************)

\* Before its first run the command has left no trace.
Untouched == run = 0 => at = "off" /\ disk.account = None /\ accounts = {} /\ late = {}

\* Every run works with the key that is on disk, and so did the requests left behind.
KeyFacts ==
    /\ accounts \subseteq {disk.account}
    /\ run # 0 => disk.account = key /\ key \in Run
    /\ \A q \in late : q.key = disk.account

\* The private key on disk is that of the last run that came to finalize.
DiskCovers(r) == disk.private \in Run /\ disk.private >= r

PrivateFacts ==
    /\ disk.private \in Run => disk.private <= run
    /\ at = "finalize" => DiskCovers(run)
    /\ \A q \in late : q.step = "finalize" => DiskCovers(q.run)

\* The second attempt carries the nonce that came with the refusal; between two
\* requests the first attempt is the next one.
NonceFacts ==
    /\ at \notin Posts \cup Stopped => attempt = 1
    /\ attempt = 2 /\ at \in Posts => /\ nonce # "dead"
                                      /\ call.state = "sent" => call.nonce = "live"

\* A request is under way, or its answer, only while main() waits for it.
CallFacts == at \notin Posts => call = Silent

IInv ==
    /\ TypeOK /\ Untouched /\ KeyFacts /\ PrivateFacts /\ NonceFacts /\ CallFacts
    /\ IssuedKeyOnDisk /\ NonceNeverFatal

----------------------------------------------------------------------------
(* Requests.                                                               *)

\* What is under way is a request of the current run with its key.
LEMMA AwaitedFacts ==
  ASSUME IInv, NEW q \in Awaited
  PROVE  /\ q \in Request /\ q.step = at /\ q.run = run /\ q.key = key /\ q.authz = authz
         /\ call.state = "sent" /\ q.nonce = call.nonce /\ at \in Posts /\ run # 0
<1>1. call.state = "sent" /\ q = [step |-> at, run |-> run, authz |-> authz, key |-> key,
                                  nonce |-> call.nonce]
  BY DEF Awaited
<1>2. at \in Posts
  BY <1>1 DEF IInv, CallFacts, Silent
<1>3. run \in Run /\ key \in Run
  BY <1>2 DEF IInv, TypeOK, Untouched, KeyFacts, Posts
<1>4. call.nonce \in {"live", "dead"}
  BY <1>1 DEF IInv, TypeOK, Call, Silent
<1>5. authz \in Authz /\ run # 0
  BY <1>2 DEF IInv, TypeOK, Untouched, Posts
<1> QED  BY <1>1, <1>2, <1>3, <1>4, <1>5 DEF Request

\* Every request that the server may handle carries the key on disk, and one that
\* finalizes finds the private key of its run there, or a later one.
LEMMA RequestFacts ==
  ASSUME IInv, NEW q \in late \cup Awaited
  PROVE  /\ q \in Request /\ q.key = disk.account
         /\ q.step = "finalize" => DiskCovers(q.run)
<1>1. CASE q \in late
  BY <1>1 DEF IInv, TypeOK, KeyFacts, PrivateFacts
<1>2. CASE q \in Awaited
  BY <1>2, AwaitedFacts DEF IInv, KeyFacts, PrivateFacts
<1> QED  BY <1>1, <1>2

----------------------------------------------------------------------------
(* The client's steps.                                                     *)

LEMMA InitHolds == Init => IInv
  BY ClientAssumption
  DEF Init, IInv, TypeOK, Untouched, KeyFacts, PrivateFacts, NonceFacts, CallFacts, DiskCovers,
      IssuedKeyOnDisk, NonceNeverFatal, NoOrder, Order, Call, Silent, Posts, Stopped, Authz, Run

\* A step that leaves files, accounts, orders and requests alone, or takes a request
\* out of those left behind, disturbs only what is said of nonces and calls.
LEMMA Undisturbed ==
  ASSUME IInv, UNCHANGED <<run, key, disk, accounts, orders>>, late' \subseteq late,
         run # 0, at' = "finalize" => at = "finalize"
  PROVE  Untouched' /\ KeyFacts' /\ PrivateFacts' /\ IssuedKeyOnDisk'
  BY DEF IInv, Untouched, KeyFacts, PrivateFacts, DiskCovers, IssuedKeyOnDisk

LEMMA StartHolds ==
  ASSUME IInv, Start PROVE IInv'
<1>1. run' \in Run /\ run' = run + 1 /\ run \in Nat /\ run' # 0
  BY ClientAssumption DEF Start, IInv, TypeOK, Run
<1>2. key' \in Run /\ disk' = [disk EXCEPT !.account = key']
      /\ key' = IF disk.account = None THEN run' ELSE disk.account
  BY <1>1 DEF Start, IInv, TypeOK
<1>3. /\ disk' \in [account: Run, private: Run \cup {None}, chain: Run \cup {None}]
      /\ disk'.account = key' /\ disk'.private = disk.private
  BY <1>2 DEF IInv, TypeOK
<1>4. call = Silent /\ call' = call
  BY DEF Start, IInv, CallFacts, Stopped, Posts
<1>5. TypeOK'
  BY <1>1, <1>2, <1>3, ClientAssumption DEF Start, IInv, TypeOK, server, Authz
<1>6. disk.account = None => accounts = {} /\ late = {}
  BY ClientAssumption DEF IInv, Untouched, KeyFacts, TypeOK, Run
<1>7. KeyFacts'
  BY <1>1, <1>2, <1>3, <1>6 DEF Start, server, IInv, KeyFacts
<1>8. PrivateFacts' /\ IssuedKeyOnDisk'
  BY <1>1, <1>3 DEF Start, server, IInv, TypeOK, PrivateFacts, IssuedKeyOnDisk, DiskCovers, Run
<1>9. Untouched' /\ NonceFacts' /\ CallFacts' /\ NonceNeverFatal'
  BY <1>1, <1>4
  DEF Start, Untouched, NonceFacts, CallFacts, NonceNeverFatal, Posts, Stopped, Silent
<1> QED  BY <1>5, <1>7, <1>8, <1>9 DEF IInv

\* The end of a run; a request on its way stays behind.
LEMMA StopHolds ==
  ASSUME IInv, NEW outcome \in Stopped, at \notin Stopped,
         Stop(outcome), late' \in {late, late \cup Awaited}
  PROVE  IInv'
<1>1. /\ run' = run /\ key' = key /\ disk' = disk /\ accounts' = accounts /\ orders' = orders
      /\ at' \in Stopped /\ call' = Silent /\ run # 0
  BY DEF Stop, server, IInv, Untouched, Stopped
<1>2. late' \subseteq Request /\ \A q \in late' : q \in late \cup Awaited
  BY RequestFacts DEF IInv, TypeOK
<1>3. TypeOK'
  BY <1>1, <1>2 DEF Stop, server, IInv, TypeOK, Call
<1>4. KeyFacts' /\ Untouched'
  BY <1>1, <1>2, RequestFacts DEF IInv, KeyFacts, Untouched
<1>5. PrivateFacts' /\ IssuedKeyOnDisk'
  BY <1>1, <1>2, RequestFacts DEF IInv, PrivateFacts, IssuedKeyOnDisk, DiskCovers, Stopped
<1>6. NonceFacts' /\ CallFacts' /\ NonceNeverFatal'
  BY <1>1 DEF NonceFacts, CallFacts, NonceNeverFatal, Silent, Stopped, Posts
<1> QED  BY <1>3, <1>4, <1>5, <1>6 DEF IInv

\* What main() does between two requests, and with an answer that is good.
LEMMA ReturnHolds ==
  ASSUME IInv, Returns, at \in Posts, UNCHANGED <<run, key, accounts, orders>>, late' = late,
         at' \in (Posts \ {"finalize"}) \cup {"place", "csr", "cleanup"},
         authz' \in Authz, polls' \in 0..MaxPolls, placements' \subseteq Authz,
         zone' \subseteq Run \X Authz,
         disk' = disk \/ disk' = [disk EXCEPT !.chain = Order0.key]
  PROVE  IInv'
<1>1. run # 0 /\ run \in Run
  BY DEF IInv, Untouched, Posts, TypeOK
<1>2. /\ disk'.account = disk.account /\ disk'.private = disk.private
      /\ disk' \in [account: Run \cup {None}, private: Run \cup {None}, chain: Run \cup {None}]
  <2>1. Order0.key \in Run \cup {None}
    BY <1>1 DEF IInv, TypeOK, Order0, Order
  <2> QED  BY <2>1 DEF IInv, TypeOK
<1>3. TypeOK'
  BY <1>2 DEF Returns, IInv, TypeOK, Call, Silent
<1>4. Untouched' /\ KeyFacts' /\ PrivateFacts' /\ IssuedKeyOnDisk'
  BY <1>1, <1>2 DEF IInv, Untouched, KeyFacts, PrivateFacts, DiskCovers, IssuedKeyOnDisk, Posts
<1>5. NonceFacts' /\ CallFacts' /\ NonceNeverFatal'
  BY DEF Returns, NonceFacts, CallFacts, NonceNeverFatal, Silent
<1> QED  BY <1>3, <1>4, <1>5 DEF IInv

\* What main() does without a request.
LEMMA LocalHolds ==
  ASSUME IInv, at \in {"directory", "place", "cleanup"},
         UNCHANGED <<run, authz, key, attempt, call, polls, disk, late, accounts, orders>>,
         at' \in {"register", "place", "trigger", "cleanup"},
         nonce' \in {nonce, "live"} \/ (nonce' = "dead" /\ at' = "place"),
         placements' \subseteq Authz, zone' \subseteq Run \X Authz
  PROVE  IInv'
<1>1. run # 0 /\ attempt = 1 /\ call = Silent
  BY DEF IInv, Untouched, NonceFacts, CallFacts, Posts, Stopped
<1>2. TypeOK'
  BY DEF IInv, TypeOK, Posts
<1>3. Untouched' /\ KeyFacts' /\ PrivateFacts' /\ IssuedKeyOnDisk'
  BY <1>1, Undisturbed
<1>4. NonceFacts' /\ CallFacts' /\ NonceNeverFatal'
  BY <1>1 DEF NonceFacts, CallFacts, NonceNeverFatal, Silent
<1> QED  BY <1>2, <1>3, <1>4 DEF IInv

\* A request goes out with the nonce at hand, or with one that is fresh.
LEMMA SendHolds ==
  ASSUME IInv, Send \/ Retry
  PROVE  IInv'
<1>1. at \in Posts
  BY DEF Send, Retry, IInv, CallFacts, Silent
<1>2. run # 0
  BY <1>1 DEF IInv, Untouched, Posts
<1>3. TypeOK'
  BY DEF Send, Retry, server, IInv, TypeOK, Call, Silent
<1>4. Untouched' /\ KeyFacts' /\ PrivateFacts' /\ IssuedKeyOnDisk'
  BY <1>2, Undisturbed DEF Send, Retry, server
<1>5. NonceFacts' /\ CallFacts' /\ NonceNeverFatal'
  BY <1>1 DEF Send, Retry, IInv, TypeOK, NonceFacts, CallFacts, NonceNeverFatal, Silent
<1> QED  BY <1>3, <1>4, <1>5 DEF IInv

\* The key pair is on disk before the request that binds it is sent.
LEMMA CsrHolds ==
  ASSUME IInv, GenerateCsr
  PROVE  IInv'
<1>1. run # 0 /\ run \in Run /\ run \in Nat /\ attempt = 1 /\ call = Silent
  BY DEF GenerateCsr, IInv, TypeOK, Untouched, NonceFacts, CallFacts, Posts, Stopped, Run
<1>2. /\ disk'.account = disk.account /\ disk'.private = run
      /\ disk' \in [account: Run \cup {None}, private: Run \cup {None}, chain: Run \cup {None}]
  BY <1>1 DEF GenerateCsr, IInv, TypeOK
<1>3. TypeOK'
  BY <1>2 DEF GenerateCsr, server, IInv, TypeOK, Posts
<1>4. KeyFacts' /\ Untouched'
  BY <1>1, <1>2 DEF GenerateCsr, server, IInv, KeyFacts, Untouched
<1>5. ASSUME NEW r \in Run, DiskCovers(r) PROVE DiskCovers(r)'
  BY <1>1, <1>2, <1>5 DEF DiskCovers, IInv, PrivateFacts, Run
<1>6. PrivateFacts'
  BY <1>1, <1>2, <1>5 DEF GenerateCsr, IInv, TypeOK, Request, PrivateFacts, DiskCovers
<1>7. IssuedKeyOnDisk'
  BY <1>5 DEF GenerateCsr, server, IInv, IssuedKeyOnDisk, DiskCovers
<1>8. NonceFacts' /\ CallFacts' /\ NonceNeverFatal'
  BY <1>1 DEF GenerateCsr, NonceFacts, CallFacts, NonceNeverFatal, Silent
<1> QED  BY <1>3, <1>4, <1>6, <1>7, <1>8 DEF IInv

LEMMA ClientHolds ==
  ASSUME IInv, ClientStep \/ NonceExpires \/ Fail
  PROVE  IInv'
<1>1. CASE Fail
  BY <1>1, StopHolds DEF Fail, Stopped
<1>2. CASE NonceExpires
  BY <1>2, LocalHolds DEF NonceExpires, server, IInv, TypeOK
<1>3. CASE GetDirectory
  BY <1>3, LocalHolds DEF GetDirectory, server, IInv, TypeOK
<1>4. CASE Send \/ Retry
  BY <1>4, SendHolds
<1>5. CASE ReceiveError
  <2>1. at \notin Stopped
    BY <1>5 DEF ReceiveError, IInv, CallFacts, Silent, Stopped, Posts
  <2>2. Stop("off") /\ late' = late
    BY <1>5 DEF ReceiveError
  <2> QED  BY <2>1, <2>2, StopHolds DEF Stopped
<1>6. ASSUME Returns PROVE at \in Posts /\ polls \in 0..MaxPolls /\ 0 \in 0..MaxPolls
  BY <1>6, ClientAssumption DEF Returns, IInv, TypeOK, CallFacts, Silent
<1>7. CASE Receive
  <2>1. at' \in {"order", "fetchAuthz", "place", "pollAuthz", "pollValid"}
    BY <1>7 DEF Receive, After
  <2> QED  BY <1>6, <1>7, <2>1, ReturnHolds DEF Receive, server, IInv, TypeOK, Posts
<1>8. CASE PollAgain
  <2>1. polls + 1 \in 0..MaxPolls /\ at \in Posts \ {"finalize"}
    BY <1>8, ClientAssumption DEF PollAgain, Target, IInv, TypeOK, Posts
  <2> QED  BY <1>6, <1>8, <2>1, ReturnHolds DEF PollAgain, server, IInv, TypeOK
<1>9. CASE PollFails
  <2>1. at \notin Stopped
    BY <1>9 DEF PollFails, Target, Stopped
  <2> QED  BY <1>9, <2>1, StopHolds DEF PollFails, Stopped
<1>10. CASE PollEnds
  <2>1. authz' \in Authz /\ at' \in {"fetchAuthz", "pollReady", "csr", "download"}
    BY <1>10, ClientAssumption DEF PollEnds, IInv, TypeOK, Authz
  <2> QED  BY <1>6, <1>10, <2>1, ReturnHolds DEF PollEnds, server, IInv, TypeOK, Posts
<1>11. CASE Place
  <2>1. run \in Run
    BY <1>11 DEF Place, IInv, TypeOK, Untouched
  <2> QED  BY <1>11, <2>1, LocalHolds DEF Place, server, IInv, TypeOK
<1>12. CASE GenerateCsr
  BY <1>12, CsrHolds
<1>13. CASE InstallChain
  BY <1>6, <1>13, ReturnHolds DEF InstallChain, server, IInv, TypeOK
<1>14. ASSUME NEW i \in Authz, Cleanup(i) PROVE IInv'
  BY <1>14, LocalHolds DEF Cleanup, server, IInv, TypeOK
<1>15. CASE Finish
  <2>1. at \notin Stopped /\ Stop("done") /\ late' = late
    BY <1>15 DEF Finish, Stopped
  <2> QED  BY <2>1, StopHolds DEF Stopped
<1> QED  BY <1>1, <1>2, <1>3, <1>4, <1>5, <1>7, <1>8, <1>9, <1>10, <1>11, <1>12, <1>13, <1>14,
            <1>15 DEF ClientStep

----------------------------------------------------------------------------
(* The server's steps.                                                     *)

\* Whatever the server answers, and whoever still waits for it, as long as a nonce
\* that it takes amiss is one of a first attempt.
LEMMA AnswerHolds ==
  ASSUME IInv, NEW q \in late \cup Awaited, NEW result \in {"badNonce", "error", "ok"},
         Answer(q, result), result = "badNonce" => q.nonce = "dead",
         accounts' \subseteq accounts \cup {q.key},
         orders' \in [Run -> Order],
         \A r \in Run : orders'[r].key \in {orders[r].key, None}
                        \/ (q.step = "finalize" /\ r = q.run /\ orders'[r].key = r)
  PROVE  IInv'
<1>1. UNCHANGED <<run, at, authz, key, nonce, attempt, polls, placements, disk, zone>>
  BY DEF Answer, client
<1>2. late' \subseteq late /\ run # 0
  BY AwaitedFacts DEF Answer, IInv, Untouched
<1>3. q.key = disk.account /\ (q.step = "finalize" => DiskCovers(q.run)) /\ q \in Request
  BY RequestFacts
<1>4. \/ call' = call
      \/ /\ q \in Awaited /\ at \in Posts
         /\ call' = [state |-> "answered", result |-> result]
         /\ call.state = "sent" /\ q.nonce = call.nonce
  BY AwaitedFacts DEF Answer
<1>5. TypeOK'
  <2>1. call' \in Call
    BY <1>4 DEF Call, IInv, TypeOK
  <2>2. accounts' \subseteq Run
    BY <1>3 DEF IInv, TypeOK, Request
  <2> QED  BY <1>1, <1>2, <2>1, <2>2 DEF IInv, TypeOK
<1>6. Untouched' /\ KeyFacts' /\ PrivateFacts'
  BY <1>1, <1>2, <1>3 DEF IInv, Untouched, KeyFacts, PrivateFacts, DiskCovers
<1>7. IssuedKeyOnDisk'
  BY <1>1, <1>3 DEF IInv, IssuedKeyOnDisk, DiskCovers
<1>8. NonceFacts' /\ CallFacts'
  BY <1>1, <1>4 DEF IInv, NonceFacts, CallFacts
<1>9. NonceNeverFatal'
  <2>1. CASE call' = call
    BY <1>1, <2>1 DEF IInv, NonceNeverFatal
  <2>2. CASE /\ at \in Posts /\ call' = [state |-> "answered", result |-> result]
             /\ call.state = "sent" /\ q.nonce = call.nonce
    <3>1. result = "badNonce" => attempt = 1
      BY <2>2 DEF IInv, TypeOK, NonceFacts
    <3> QED  BY <1>1, <2>2, <3>1 DEF NonceNeverFatal
  <2> QED  BY <1>4, <2>1, <2>2
<1> QED  BY <1>5, <1>6, <1>7, <1>8, <1>9 DEF IInv

LEMMA HandleHolds ==
  ASSUME IInv, NEW q \in late \cup Awaited, Handle(q)
  PROVE  IInv'
<1>1. q \in Request /\ q.run \in Run /\ q.authz \in Authz /\ q.key \in Run
      /\ orders \in [Run -> Order]
  BY RequestFacts DEF Request, IInv, TypeOK
<1>2. CASE Refuse(q)
  BY <1>1, <1>2, AnswerHolds DEF Refuse, server
<1>3. CASE NewAccount(q)
  BY <1>1, <1>3, AnswerHolds DEF NewAccount
<1>4. CASE Fetch(q)
  BY <1>1, <1>4, AnswerHolds DEF Fetch, server
<1>5. CASE NewOrder(q)
  <2>1. orders' \in [Run -> Order] /\ \A r \in Run : orders'[r].key = orders[r].key
    BY <1>1, <1>5 DEF NewOrder, Order
  <2> QED  BY <1>5, <2>1, AnswerHolds DEF NewOrder
<1>6. CASE Trigger(q)
  <2>1. orders' \in [Run -> Order] /\ \A r \in Run : orders'[r].key = orders[r].key
    <3>1. PICK new \in {orders[q.run].authz[q.authz], "processing"} :
              orders' = [orders EXCEPT ![q.run].authz[q.authz] = new]
      BY <1>1, <1>6 DEF Trigger
    <3>2. orders[q.run] \in Order
      BY <1>1
    <3>3. /\ [orders[q.run] EXCEPT !.authz[q.authz] = new] \in Order
          /\ [orders[q.run] EXCEPT !.authz[q.authz] = new].key = orders[q.run].key
      BY <1>1, <3>1, <3>2 DEF Order
    <3>4. orders' = [orders EXCEPT ![q.run] = [orders[q.run] EXCEPT !.authz[q.authz] = new]]
      BY <1>1, <3>1
    <3> QED  BY <1>1, <3>3, <3>4
  <2> QED  BY <1>6, <2>1, AnswerHolds DEF Trigger
<1>7. CASE Finalize(q)
  <2>1. orders' \in [Run -> Order]
    BY <1>1, <1>7 DEF Finalize, Order
  <2>2. \A r \in Run : orders'[r].key = orders[r].key \/ (r = q.run /\ orders'[r].key = r)
    BY <1>1, <1>7 DEF Finalize, Order
  <2>3. q.step = "finalize"
    BY <1>7 DEF Finalize, Accepts, Arrives
  <2> QED  BY <1>7, <2>1, <2>2, <2>3, AnswerHolds DEF Finalize
<1> QED  BY <1>2, <1>3, <1>4, <1>5, <1>6, <1>7 DEF Handle

LEMMA WorkerHolds ==
  ASSUME IInv, WorkerStep
  PROVE  IInv'
<1>1. PICK r \in Run : Expire(r) \/ \E i \in Authz : Validate(r, i) \/ GiveUp(r, i)
  BY DEF WorkerStep
<1>2. UNCHANGED <<client, call, late, accounts, zone>>
  BY <1>1 DEF Expire, Validate, GiveUp
<1>3. orders' \in [Run -> Order] /\ \A s \in Run : orders'[s].key = orders[s].key
  <2>1. CASE Expire(r)
    BY <2>1 DEF Expire, IInv, TypeOK, Order
  <2>2. ASSUME NEW i \in Authz, Validate(r, i)
        PROVE  orders' \in [Run -> Order] /\ \A s \in Run : orders'[s].key = orders[s].key
    <3>1. PICK new \in {orders[r].status, "ready"} :
              orders' = [orders EXCEPT ![r].authz[i] = "valid", ![r].status = new]
      BY <2>2 DEF Validate
    <3>2. orders[r] \in Order
      BY DEF IInv, TypeOK
    <3>3. [orders[r] EXCEPT !.authz[i] = "valid", !.status = new] \in Order
      BY <3>1, <3>2 DEF Order
    <3> QED  BY <3>1, <3>2, <3>3 DEF IInv, TypeOK, Order
  <2>3. ASSUME NEW i \in Authz, GiveUp(r, i)
        PROVE  orders' \in [Run -> Order] /\ \A s \in Run : orders'[s].key = orders[s].key
    <3>1. orders[r] \in Order /\ orders \in [Run -> Order]
      BY DEF IInv, TypeOK
    <3>2. /\ [orders[r] EXCEPT !.authz[i] = "invalid", !.status = "invalid"] \in Order
          /\ [orders[r] EXCEPT !.authz[i] = "invalid", !.status = "invalid"].key = orders[r].key
      BY <3>1 DEF Order
    <3>3. orders' = [orders EXCEPT ![r] =
                        [orders[r] EXCEPT !.authz[i] = "invalid", !.status = "invalid"]]
      BY <2>3, <3>1 DEF GiveUp
    <3> QED  BY <3>1, <3>2, <3>3
  <2> QED  BY <1>1, <2>1, <2>2, <2>3
<1>4. TypeOK'
  BY <1>2, <1>3 DEF client, IInv, TypeOK
<1> QED  BY <1>2, <1>3, <1>4
         DEF client, IInv, Untouched, KeyFacts, PrivateFacts, DiskCovers, NonceFacts, CallFacts,
             IssuedKeyOnDisk, NonceNeverFatal

----------------------------------------------------------------------------
(* The theorems.                                                           *)

LEMMA StepHolds == IInv /\ [Next]_vars => IInv'
<1> SUFFICES ASSUME IInv, [Next]_vars PROVE IInv'
  OBVIOUS
<1>1. CASE UNCHANGED vars
  BY <1>1 DEF vars, client, server, IInv, TypeOK, Untouched, KeyFacts, PrivateFacts, DiskCovers,
              NonceFacts, CallFacts, IssuedKeyOnDisk, NonceNeverFatal
<1>2. CASE Serve
  BY <1>2, HandleHolds DEF Serve
<1> QED  BY <1>1, <1>2, StartHolds, ClientHolds, WorkerHolds DEF Next

THEOREM Inductive == Spec => []IInv
  BY InitHolds, StepHolds, PTL DEF Spec

\* Every reachable state of client and server is well typed, whatever is lost.
THEOREM TypeCorrect == Spec => []TypeOK
  BY Inductive, PTL DEF IInv

\* No request is refused twice for its nonce, however long the operator takes.
THEOREM OneRetryIsEnough == Spec => []NonceNeverFatal
  BY Inductive, PTL DEF IInv

\* All runs of the command share one account, killed or cut off wherever they are.
THEOREM OneAccountForAll == Spec => []OneAccount
<1>1. KeyFacts => OneAccount
  BY DEF KeyFacts, OneAccount
<1> QED  BY <1>1, Inductive, PTL DEF IInv

\* A certificate is issued only to a private key that is, or was, on disk.
THEOREM KeyBeforeCertificate == Spec => []IssuedKeyOnDisk
  BY Inductive, PTL DEF IInv

----------------------------------------------------------------------------
(* The server that the client meets keeps to OrderLifecycle, which         *)
(* AcmeOrders is proved to implement.  A request for an order is handled   *)
(* as if the run had none, so that this depends on the client: a run never *)
(* asks for an order when it already has one.                              *)

phase == [r \in Run |-> orders[r].status]

issued == {r \in Run : orders[r].key # None}

Life == INSTANCE OrderLifecycle WITH Order <- Run, phase <- phase, outOfBand <- {}, issued <- issued

\* The handler of finalize does not wait, so that a client sees its three moves, Finalize,
\* Issue and Complete, as one.
Finalized(r) ==
    /\ phase[r] = "ready" /\ r \notin issued
    /\ phase' = [phase EXCEPT ![r] = "valid"]
    /\ issued' = issued \cup {r}

ServesLifecycle == Life!Init /\ [][Life!Next \/ \E r \in Run : Finalized(r)]_(Life!vars)

\* A request for an order that its run did not live to see handled.
LateOrders ==
    /\ \A q \in late : q.step = "order" =>
          orders[q.run].status = "none" /\ q.run <= run /\ (q.run = run => at \in Stopped)
    /\ \A p, q \in late : p.step = "order" /\ q.step = "order" /\ p.run = q.run => p = q

\* The current run has an order only once it was told so, or is about to be; those to
\* come have none.
RunsOrder ==
    /\ \A r \in Run : r > run => orders[r].status = "none"
    /\ \A r \in Run : r = run /\ orders[r].status # "none" =>
          /\ at \notin {"directory", "register"}
          /\ at = "order" => call = [state |-> "answered", result |-> "ok"]

RowsFit ==
    \A r \in Run :
        /\ orders[r].status = "none" => \A i \in Authz : orders[r].authz[i] = "none"
        /\ orders[r].key # None => orders[r].status \in {"valid", "invalid", "expired"}

OrderInv == LateOrders /\ RunsOrder /\ RowsFit

LEMMA InitOrderInv == Init => OrderInv
  BY ClientAssumption DEF Init, OrderInv, LateOrders, RunsOrder, RowsFit, NoOrder, Run

\* A new run takes up none of the requests left behind.
LEMMA StartOrders ==
  ASSUME IInv, OrderInv, Start PROVE OrderInv'
<1>1. /\ UNCHANGED <<late, orders>> /\ run' = run + 1 /\ run \in Nat /\ at' = "directory"
  BY DEF Start, server, IInv, TypeOK, Run
<1>2. \A q \in late : q.run \in Nat
  BY DEF IInv, TypeOK, Request, Run
<1>3. LateOrders'
  BY <1>1, <1>2 DEF OrderInv, LateOrders
<1>4. RunsOrder'
  <2>1. \A r \in Run : r \in Nat
    BY DEF Run
  <2> QED  BY <1>1, <2>1 DEF OrderInv, RunsOrder
<1> QED  BY <1>1, <1>3, <1>4 DEF OrderInv, RowsFit

\* A request that is left behind asks for an order that its run does not have.
LEMMA StopOrders ==
  ASSUME IInv, OrderInv, NEW outcome \in Stopped, at \notin Stopped,
         Stop(outcome), late' \in {late, late \cup Awaited}
  PROVE  OrderInv'
<1>1. UNCHANGED <<run, orders>> /\ at' \in Stopped /\ run \in Run
  BY DEF Stop, server, IInv, TypeOK, Untouched, Stopped
<1>2. ASSUME NEW q \in late', q.step = "order", q \notin late
      PROVE  q.run = run /\ orders[run].status = "none" /\ q \in Awaited
  <2>1. q \in Awaited
    BY <1>2
  <2>2. q.run = run /\ at = "order" /\ call.state = "sent"
    BY <1>2, <2>1, AwaitedFacts
  <2> QED  BY <1>1, <2>1, <2>2 DEF OrderInv, RunsOrder
<1>3. ASSUME NEW q \in late, q.step = "order"
      PROVE  q.run # run
  BY <1>3 DEF OrderInv, LateOrders
<1>4. \A p, q \in Awaited : p = q
  BY DEF Awaited
<1>5. LateOrders'
  <2>1. ASSUME NEW q \in late', q.step = "order"
        PROVE  orders'[q.run].status = "none" /\ q.run <= run' /\ at' \in Stopped
    <3>1. run \in Nat
      BY <1>1 DEF Run
    <3> QED  BY <1>1, <1>2, <2>1, <3>1 DEF OrderInv, LateOrders
  <2>2. ASSUME NEW p \in late', NEW q \in late', p.step = "order", q.step = "order", p.run = q.run
        PROVE  p = q
    BY <1>2, <1>3, <1>4, <2>2 DEF OrderInv, LateOrders
  <2> QED  BY <2>1, <2>2 DEF LateOrders
<1>6. RunsOrder'
  BY <1>1 DEF OrderInv, RunsOrder, Stopped
<1> QED  BY <1>1, <1>5, <1>6 DEF OrderInv, RowsFit

\* A step that goes on with a run leaves orders and requests alone.
LEMMA GoesOn ==
  ASSUME OrderInv, UNCHANGED <<run, late, orders>>, at \notin Stopped,
         at' \in {"directory", "register"} => at \in {"directory", "register"},
         at' = "order" => \/ at = "register"
                          \/ at = "order" /\ (call = [state |-> "answered", result |-> "ok"] =>
                                              call' = [state |-> "answered", result |-> "ok"])
  PROVE  OrderInv'
<1>1. LateOrders'
  BY DEF OrderInv, LateOrders
<1>2. RunsOrder'
  BY DEF OrderInv, RunsOrder
<1> QED  BY <1>1, <1>2 DEF OrderInv, RowsFit

LEMMA ClientOrders ==
  ASSUME IInv, OrderInv, ClientStep \/ NonceExpires \/ Fail
  PROVE  OrderInv'
<1>1. ASSUME Returns PROVE at \in Posts
  BY <1>1 DEF Returns, IInv, CallFacts, Silent
<1>2. CASE Fail
  BY <1>2, StopOrders DEF Fail, Stopped
<1>3. CASE NonceExpires
  BY <1>3, GoesOn DEF NonceExpires, server, Stopped
<1>4. CASE GetDirectory
  BY <1>4, GoesOn DEF GetDirectory, server, Stopped
<1>5. CASE Send \/ Retry
  <2>1. at \in Posts
    BY <1>5 DEF Send, Retry, IInv, CallFacts, Silent
  <2>2. at' = at /\ UNCHANGED <<run, late, orders>>
    BY <1>5 DEF Send, Retry, server
  <2>3. call # [state |-> "answered", result |-> "ok"]
    BY <1>5 DEF Send, Retry, Silent
  <2> QED  BY <2>1, <2>2, <2>3, GoesOn DEF Posts, Stopped
<1>6. CASE ReceiveError
  <2>1. at \notin Stopped
    BY <1>6 DEF ReceiveError, IInv, CallFacts, Silent, Stopped, Posts
  <2> QED  BY <1>6, <2>1, StopOrders DEF ReceiveError, Stopped
<1>7. CASE Receive
  <2>1. /\ at \in Posts /\ UNCHANGED <<run, late, orders>>
        /\ at' \in {"order", "fetchAuthz", "place", "pollAuthz", "pollValid"}
        /\ at' = "order" => at = "register"
    BY <1>1, <1>7 DEF Receive, After, server
  <2> QED  BY <2>1, GoesOn DEF Posts, Stopped
<1>8. CASE PollAgain \/ PollEnds
  <2>1. /\ at \in Posts /\ UNCHANGED <<run, late, orders>>
        /\ at' \in {"pollAuthz", "pollReady", "pollValid", "fetchAuthz", "csr", "download"}
    BY <1>1, <1>8 DEF PollAgain, PollEnds, Target, server
  <2> QED  BY <2>1, GoesOn DEF Posts, Stopped
<1>9. CASE PollFails
  <2>1. at \notin Stopped
    BY <1>9 DEF PollFails, Target, Stopped
  <2> QED  BY <1>9, <2>1, StopOrders DEF PollFails, Stopped
<1>10. CASE Place \/ GenerateCsr \/ InstallChain \/ \E i \in Authz : Cleanup(i)
  <2>1. /\ at \in {"place", "csr", "download", "cleanup"} /\ UNCHANGED <<run, late, orders>>
        /\ at' \in {"trigger", "finalize", "cleanup"}
    BY <1>10 DEF Place, GenerateCsr, InstallChain, Cleanup, server
  <2> QED  BY <2>1, GoesOn DEF Stopped
<1>11. CASE Finish
  BY <1>11, StopOrders DEF Finish, Stopped
<1> QED  BY <1>2, <1>3, <1>4, <1>5, <1>6, <1>7, <1>8, <1>9, <1>10, <1>11 DEF ClientStep

\* What the server does to an order is one of the moves it promises, or none of them.
Moves == Life!Next \/ (\E r \in Run : Finalized(r)) \/ UNCHANGED Life!vars

\* Writing one order.
LEMMA RowWritten ==
  ASSUME IInv, NEW r \in Run, NEW row, orders' = [orders EXCEPT ![r] = row]
  PROVE  /\ \A x \in Run : orders'[x] = IF x = r THEN row ELSE orders[x]
         /\ phase' = [phase EXCEPT ![r] = row.status]
         /\ issued' = IF row.key = None THEN issued \ {r} ELSE issued \cup {r}
<1>1. orders \in [Run -> Order]
  BY DEF IInv, TypeOK
<1>2. \A x \in Run : orders'[x] = IF x = r THEN row ELSE orders[x]
  BY <1>1
<1>3. phase' = [phase EXCEPT ![r] = row.status]
  <2>1. phase' = [x \in Run |-> orders'[x].status]
    BY DEF phase
  <2>2. phase' = [x \in Run |-> IF x = r THEN row.status ELSE orders[x].status]
    BY <1>2, <2>1
  <2> QED  BY <2>2 DEF phase
<1>4. issued' = IF row.key = None THEN issued \ {r} ELSE issued \cup {r}
  BY <1>2 DEF issued
<1> QED  BY <1>2, <1>3, <1>4

\* An order that keeps its key is moved along the status graph.
LEMMA RowMoved ==
  ASSUME IInv, NEW r \in Run, NEW row, orders' = [orders EXCEPT ![r] = row],
         row.key = orders[r].key,
         \/ row.status = orders[r].status
         \/ orders[r].status = "none" /\ row.status = "pending"
         \/ orders[r].status = "pending" /\ row.status = "ready"
         \/ orders[r].status # "none" /\ row.status = "invalid"
         \/ orders[r].status \in {"pending", "ready"} /\ row.status = "expired"
  PROVE  Moves
<1>1. /\ phase' = [phase EXCEPT ![r] = row.status]
      /\ issued' = issued /\ {}' = {}
      /\ phase[r] = orders[r].status /\ phase = [x \in Run |-> phase[x]]
  <2>1. phase' = [phase EXCEPT ![r] = row.status]
    BY RowWritten
  <2>2. issued' = issued
    BY RowWritten DEF issued
  <2>3. phase[r] = orders[r].status
    BY DEF phase
  <2>4. phase = [x \in Run |-> phase[x]]
    BY DEF phase
  <2> QED  BY <2>1, <2>2, <2>3, <2>4
<1>2. CASE row.status = orders[r].status
  BY <1>1, <1>2 DEF Moves, Life!vars
<1>3. CASE orders[r].status = "none" /\ row.status = "pending"
  BY <1>1, <1>3 DEF Moves, Life!Next, Life!Create, Life!Move
<1>4. CASE orders[r].status = "pending" /\ row.status = "ready"
  BY <1>1, <1>4 DEF Moves, Life!Next, Life!Promote, Life!Move
<1>5. CASE \/ orders[r].status # "none" /\ row.status = "invalid"
           \/ orders[r].status \in {"pending", "ready"} /\ row.status = "expired"
  <2>1. row.status \in {"invalid", "expired"} /\ {r} \in SUBSET Run
    BY <1>5
  <2>2. phase' = [x \in Run |-> IF x \in {r} THEN row.status ELSE phase[x]]
    BY <1>1
  <2>3. phase[r] \in IF row.status = "expired" THEN Life!Open
                     ELSE Life!Open \cup {"valid", "invalid", "expired"}
    <3>1. orders[r].status \in {"none", "pending", "ready", "valid", "invalid", "expired"}
      BY DEF IInv, TypeOK, Order
    <3> QED  BY <1>1, <1>5, <3>1 DEF Life!Open
  <2>4. Life!Close({r}, row.status)
    BY <1>1, <2>2, <2>3 DEF Life!Close
  <2> QED  BY <2>1, <2>4 DEF Moves, Life!Next
<1> QED  BY <1>2, <1>3, <1>4, <1>5

\* A step that creates no order, and answers nobody who asked for one with anything but
\* an error.
LEMMA NoneCreated ==
  ASSUME IInv, OrderInv, UNCHANGED <<run, at>>, late' \subseteq late,
         \A r \in Run : orders'[r].status = "none" <=> orders[r].status = "none",
         call = [state |-> "answered", result |-> "ok"] => call' = call
  PROVE  LateOrders' /\ RunsOrder'
<1>1. \A q \in late' : q \in late /\ q.run \in Run
  BY DEF IInv, TypeOK, Request
<1>2. LateOrders'
  BY <1>1 DEF OrderInv, LateOrders
<1>3. RunsOrder'
  BY DEF OrderInv, RunsOrder
<1> QED  BY <1>2, <1>3

\* A request for an order comes from a run that has none.
LEMMA OrderRequest ==
  ASSUME IInv, OrderInv, NEW q \in late \cup Awaited, q.step = "order"
  PROVE  /\ q.run \in Run /\ orders[q.run].status = "none" /\ q.run <= run
         /\ q \in late => \A p \in late : p.step = "order" /\ p.run = q.run => p = q
         /\ q \in Awaited => q.run = run /\ at = "order"
                             /\ \A p \in late : p.step = "order" => p.run # run
         /\ q.run = run => q \in Awaited \/ at \in Stopped
<1>1. q.run \in Run
  BY RequestFacts DEF Request
<1>2. CASE q \in Awaited
  <2>1. q.run = run /\ at = "order" /\ call.state = "sent" /\ run \in Nat
    BY <1>1, <1>2, AwaitedFacts DEF Run
  <2>2. orders[run].status = "none"
    BY <1>1, <2>1 DEF OrderInv, RunsOrder
  <2>3. \A p \in late : p.step = "order" => p.run # run
    BY <2>1 DEF OrderInv, LateOrders, Stopped
  <2> QED  BY <1>1, <1>2, <2>1, <2>2, <2>3
<1>3. CASE q \in late /\ q \notin Awaited
  BY <1>1, <1>3 DEF OrderInv, LateOrders
<1> QED  BY <1>2, <1>3

LEMMA NewOrderMoves ==
  ASSUME IInv, OrderInv, NEW q \in late \cup Awaited, NewOrder(q),
         orders' = [orders EXCEPT ![q.run].status = "pending",
                                  ![q.run].authz = [i \in Authz |-> "pending"]],
         Answer(q, "ok")
  PROVE  OrderInv' /\ Moves
<1> DEFINE row == [orders[q.run] EXCEPT !.status = "pending",
                                        !.authz = [i \in Authz |-> "pending"]]
<1>1. /\ q.run \in Run /\ orders[q.run].status = "none" /\ q.run <= run
      /\ q \in late => \A p \in late : p.step = "order" /\ p.run = q.run => p = q
      /\ q \in Awaited => q.run = run /\ at = "order"
                          /\ \A p \in late : p.step = "order" => p.run # run
      /\ q.run = run => q \in Awaited \/ at \in Stopped
  BY OrderRequest DEF NewOrder, Accepts, Arrives
<1>2. orders[q.run] \in Order /\ orders \in [Run -> Order]
  BY <1>1 DEF IInv, TypeOK
<1>3. row.status = "pending" /\ row.key = orders[q.run].key
  BY <1>2 DEF Order
<1>4. orders' = [orders EXCEPT ![q.run] = row]
  BY <1>1, <1>2
<1> HIDE DEF row
<1>5. Moves
  BY <1>1, <1>3, <1>4, RowMoved
<1>6. \A x \in Run : orders'[x] = IF x = q.run THEN row ELSE orders[x]
  BY <1>1, <1>4, RowWritten
<1>7. UNCHANGED <<run, at>> /\ late' \subseteq late
  BY DEF Answer, client
<1>8. \/ q \in late /\ late' = late \ {q} /\ call' = call
      \/ q \in Awaited /\ late' = late /\ call' = [state |-> "answered", result |-> "ok"]
  BY DEF Answer
<1>9. ASSUME NEW p \in late', p.step = "order"
      PROVE  p \in late /\ p.run # q.run /\ p.run \in Run
  <2>1. p \in late /\ p.run \in Run
    BY <1>7, <1>9 DEF IInv, TypeOK, Request
  <2> QED  BY <1>1, <1>8, <1>9, <2>1
<1>10. LateOrders'
  BY <1>6, <1>7, <1>9 DEF OrderInv, LateOrders
<1>11. RunsOrder'
  <2>1. ASSUME NEW r \in Run, r > run PROVE orders'[r].status = "none"
    <3>1. r # q.run
      BY <1>1, <2>1 DEF Run, IInv, TypeOK
    <3> QED  BY <1>6, <2>1, <3>1 DEF OrderInv, RunsOrder
  <2>2. ASSUME NEW r \in Run, r = run, orders'[r].status # "none"
        PROVE  /\ at \notin {"directory", "register"}
               /\ at = "order" => call' = [state |-> "answered", result |-> "ok"]
    <3>1. CASE r = q.run
      <4>1. CASE at \in Stopped
        BY <4>1 DEF Stopped
      <4>2. CASE at \notin Stopped
        <5>1. q \notin late
          BY <2>2, <3>1, <4>2 DEF NewOrder, Accepts, Arrives, OrderInv, LateOrders
        <5> QED  BY <1>1, <1>8, <5>1
      <4> QED  BY <4>1, <4>2
    <3>2. CASE r # q.run
      <4>1. orders[r].status # "none" /\ q \notin Awaited
        BY <1>1, <1>6, <2>2, <3>2
      <4> QED  BY <1>8, <2>2, <4>1 DEF OrderInv, RunsOrder
    <3> QED  BY <3>1, <3>2
  <2> QED  BY <1>7, <2>1, <2>2 DEF RunsOrder
<1>12. RowsFit'
  <2>1. orders[q.run].key = None
    BY <1>1 DEF OrderInv, RowsFit
  <2>2. row.status # "none" /\ row.key = None
    BY <1>3, <2>1
  <2>3. ASSUME NEW r \in Run
        PROVE  /\ orders'[r].status = "none" => \A i \in Authz : orders'[r].authz[i] = "none"
               /\ orders'[r].key # None => orders'[r].status \in {"valid", "invalid", "expired"}
    <3>1. orders'[r] = IF r = q.run THEN row ELSE orders[r]
      BY <1>6, <2>3
    <3>2. CASE r = q.run
      BY <2>2, <3>1, <3>2
    <3>3. CASE r # q.run
      BY <2>3, <3>1, <3>3 DEF OrderInv, RowsFit
    <3> QED  BY <3>2, <3>3
  <2> QED  BY <2>3 DEF RowsFit
<1> QED  BY <1>5, <1>10, <1>11, <1>12 DEF OrderInv

\* Every other step of the server writes at most one order, that exists before and after.
LEMMA RowFits ==
  ASSUME IInv, OrderInv, NEW r \in Run, NEW row, orders' = [orders EXCEPT ![r] = row],
         row.status = "none" <=> orders[r].status = "none",
         row.status = "none" => \A i \in Authz : row.authz[i] = "none",
         row.key # None => row.status \in {"valid", "invalid", "expired"}
  PROVE  /\ RowsFit'
         /\ \A x \in Run : orders'[x].status = "none" <=> orders[x].status = "none"
<1>1. \A x \in Run : orders'[x] = IF x = r THEN row ELSE orders[x]
  BY RowWritten
<1>2. ASSUME NEW x \in Run
      PROVE  /\ orders'[x].status = "none" <=> orders[x].status = "none"
             /\ orders'[x].status = "none" => \A i \in Authz : orders'[x].authz[i] = "none"
             /\ orders'[x].key # None => orders'[x].status \in {"valid", "invalid", "expired"}
  <2>1. CASE x = r
    BY <1>1, <2>1
  <2>2. CASE x # r
    <3>1. orders'[x] = orders[x]
      BY <1>1, <2>2
    <3> QED  BY <3>1 DEF OrderInv, RowsFit
  <2> QED  BY <2>1, <2>2
<1> QED  BY <1>2 DEF RowsFit

\* What is answered to a request that creates no order disturbs nobody's.
LEMMA AnswerOnly ==
  ASSUME IInv, OrderInv, NEW q \in late \cup Awaited, NEW result, Answer(q, result),
         \A r \in Run : orders'[r].status = "none" <=> orders[r].status = "none"
  PROVE  LateOrders' /\ RunsOrder'
<1>1. UNCHANGED <<run, at>> /\ late' \subseteq late
  BY DEF Answer, client
<1>2. call = [state |-> "answered", result |-> "ok"] => call' = call
  BY DEF Answer, Awaited
<1> QED  BY <1>1, <1>2, NoneCreated

LEMMA AnswerAlone ==
  ASSUME IInv, OrderInv, NEW q \in late \cup Awaited, NEW result, Answer(q, result),
         UNCHANGED orders
  PROVE  OrderInv' /\ Moves
<1>1. LateOrders' /\ RunsOrder'
  BY AnswerOnly
<1>2. UNCHANGED Life!vars
  BY DEF Life!vars, phase, issued
<1> QED  BY <1>1, <1>2 DEF OrderInv, RowsFit, Moves

LEMMA TriggerMoves ==
  ASSUME IInv, OrderInv, NEW q \in late \cup Awaited, Trigger(q)
  PROVE  OrderInv' /\ Moves
<1> DEFINE old == orders[q.run]
           row == [old EXCEPT !.authz[q.authz] = IF @ = "pending" THEN "processing" ELSE @]
<1>1. q.run \in Run /\ q.authz \in Authz
  BY RequestFacts DEF Request
<1>2. old \in Order /\ orders \in [Run -> Order]
  BY <1>1 DEF IInv, TypeOK
<1>3. orders' = [orders EXCEPT ![q.run] = row] /\ Answer(q, "ok")
  BY <1>1, <1>2 DEF Trigger
<1>4. row.status = old.status /\ row.key = old.key
  BY <1>2 DEF Order
<1>5. old.status = "none" => \A i \in Authz : row.authz[i] = "none"
  <2>1. row.authz = [old.authz EXCEPT ![q.authz] = IF @ = "pending" THEN "processing" ELSE @]
    BY <1>2 DEF Order
  <2>2. old.authz \in [Authz -> {"none", "pending", "processing", "valid", "invalid"}]
    BY <1>2 DEF Order
  <2>3. old.status = "none" => \A i \in Authz : old.authz[i] = "none"
    BY <1>1 DEF OrderInv, RowsFit
  <2> QED  BY <1>1, <2>1, <2>2, <2>3
<1>6. old.key # None => old.status \in {"valid", "invalid", "expired"}
  BY <1>1 DEF OrderInv, RowsFit
<1> HIDE DEF row
<1>7. /\ RowsFit'
      /\ \A x \in Run : orders'[x].status = "none" <=> orders[x].status = "none"
  BY <1>1, <1>3, <1>4, <1>5, <1>6, RowFits
<1>8. Moves
  BY <1>1, <1>3, <1>4, RowMoved
<1> QED  BY <1>3, <1>7, <1>8, AnswerOnly DEF OrderInv

LEMMA FinalizeMoves ==
  ASSUME IInv, OrderInv, NEW q \in late \cup Awaited, Finalize(q)
  PROVE  OrderInv' /\ Moves
<1> DEFINE old == orders[q.run]
<1>1. q.run \in Run /\ q.run # None
  BY RequestFacts, ClientAssumption DEF Request, Run
<1>2. old \in Order /\ orders \in [Run -> Order]
  BY <1>1 DEF IInv, TypeOK
<1>3. ASSUME old.status = "ready" PROVE old.key = None
  BY <1>1, <1>3 DEF OrderInv, RowsFit
<1>4. CASE /\ old.status = "ready" /\ Answer(q, "ok")
           /\ orders' = [orders EXCEPT ![q.run].status = "valid", ![q.run].key = q.run]
  <2> DEFINE row == [old EXCEPT !.status = "valid", !.key = q.run]
  <2>1. orders' = [orders EXCEPT ![q.run] = row]
    BY <1>1, <1>2, <1>4
  <2>2. row.status = "valid" /\ row.key = q.run
    BY <1>2 DEF Order
  <2> HIDE DEF row
  <2>3. /\ RowsFit'
        /\ \A x \in Run : orders'[x].status = "none" <=> orders[x].status = "none"
    BY <1>1, <1>4, <2>1, <2>2, RowFits
  <2>4. /\ phase' = [phase EXCEPT ![q.run] = "valid"]
        /\ issued' = issued \cup {q.run}
    <3>1. /\ phase' = [phase EXCEPT ![q.run] = row.status]
          /\ issued' = IF row.key = None THEN issued \ {q.run} ELSE issued \cup {q.run}
      BY <1>1, <2>1, RowWritten
    <3> QED  BY <1>1, <2>2, <3>1
  <2>5. phase[q.run] = "ready" /\ q.run \notin issued
    BY <1>1, <1>3, <1>4 DEF phase, issued
  <2>6. Finalized(q.run)
    BY <2>4, <2>5 DEF Finalized
  <2> QED  BY <1>1, <1>4, <2>3, <2>6, AnswerOnly DEF OrderInv, Moves
<1>5. CASE /\ old.status = "ready" /\ Answer(q, "error")
           /\ orders' = [orders EXCEPT ![q.run].status = "invalid"]
  <2> DEFINE row == [old EXCEPT !.status = "invalid"]
  <2>1. orders' = [orders EXCEPT ![q.run] = row]
    BY <1>1, <1>2, <1>5
  <2>2. row.status = "invalid" /\ row.key = old.key
    BY <1>2 DEF Order
  <2> HIDE DEF row
  <2>3. /\ RowsFit'
        /\ \A x \in Run : orders'[x].status = "none" <=> orders[x].status = "none"
    BY <1>1, <1>5, <2>1, <2>2, RowFits
  <2>4. Moves
    BY <1>1, <1>5, <2>1, <2>2, RowMoved
  <2> QED  BY <1>5, <2>3, <2>4, AnswerOnly DEF OrderInv
<1>6. CASE Answer(q, "error") /\ UNCHANGED orders
  BY <1>6, AnswerAlone
<1> QED  BY <1>4, <1>5, <1>6 DEF Finalize

LEMMA HandleMoves ==
  ASSUME IInv, OrderInv, NEW q \in late \cup Awaited, Handle(q)
  PROVE  OrderInv' /\ Moves
<1>1. CASE Refuse(q)
  BY <1>1, AnswerAlone DEF Refuse, server
<1>2. CASE NewAccount(q)
  BY <1>2, AnswerAlone DEF NewAccount
<1>3. CASE NewOrder(q)
  <2>1. CASE Answer(q, "error") /\ UNCHANGED orders
    BY <2>1, AnswerAlone
  <2>2. CASE /\ orders' = [orders EXCEPT ![q.run].status = "pending",
                                         ![q.run].authz = [i \in Authz |-> "pending"]]
             /\ Answer(q, "ok")
    BY <1>3, <2>2, NewOrderMoves
  <2> QED  BY <1>3, <2>1, <2>2 DEF NewOrder
<1>4. CASE Fetch(q)
  BY <1>4, AnswerAlone DEF Fetch, server
<1> QED  BY <1>1, <1>2, <1>3, <1>4, TriggerMoves, FinalizeMoves DEF Handle

\* The worker and the expiry tick write orders that exist.
LEMMA WorkerMoves ==
  ASSUME IInv, OrderInv, WorkerStep PROVE OrderInv' /\ Moves
<1>1. UNCHANGED <<run, at, late, call>>
  BY DEF WorkerStep, Expire, Validate, GiveUp, client
<1>2. ASSUME NEW r \in Run, NEW row, orders' = [orders EXCEPT ![r] = row],
             row.key = orders[r].key, row.status # "none", orders[r].status # "none",
             \/ row.status = orders[r].status
             \/ orders[r].status = "pending" /\ row.status = "ready"
             \/ row.status = "invalid"
             \/ orders[r].status \in {"pending", "ready"} /\ row.status = "expired"
      PROVE  OrderInv' /\ Moves
  <2>1. Moves
    BY <1>2, RowMoved
  <2>2. row.key # None => row.status \in {"valid", "invalid", "expired"}
    BY <1>2 DEF OrderInv, RowsFit
  <2>3. /\ RowsFit'
        /\ \A x \in Run : orders'[x].status = "none" <=> orders[x].status = "none"
    BY <1>2, <2>2, RowFits
  <2>4. LateOrders' /\ RunsOrder'
    BY <1>1, <2>3, NoneCreated
  <2> QED  BY <2>1, <2>3, <2>4 DEF OrderInv
<1>3. ASSUME NEW r \in Run
      PROVE  orders[r] \in Order /\ orders \in [Run -> Order]
  BY DEF IInv, TypeOK
<1>4. ASSUME NEW r \in Run, Expire(r) PROVE OrderInv' /\ Moves
  <2> DEFINE row == [orders[r] EXCEPT !.status = "expired"]
  <2>1. /\ orders' = [orders EXCEPT ![r] = row] /\ orders[r].status \in {"pending", "ready"}
        /\ row.key = orders[r].key /\ row.status = "expired"
    BY <1>3, <1>4 DEF Expire, Order
  <2> QED  BY <1>2, <2>1
<1>5. ASSUME NEW r \in Run, NEW i \in Authz, Validate(r, i) PROVE OrderInv' /\ Moves
  <2> DEFINE status == IF /\ orders[r].status = "pending"
                          /\ \A j \in Authz \ {i} : orders[r].authz[j] = "valid"
                       THEN "ready" ELSE orders[r].status
             row == [orders[r] EXCEPT !.authz[i] = "valid", !.status = status]
  <2>1. orders' = [orders EXCEPT ![r] = row]
    BY <1>3, <1>5 DEF Validate
  <2>2. row.key = orders[r].key /\ row.status = status
    BY <1>3 DEF Order
  <2>3. orders[r].status # "none"
    BY <1>5 DEF Validate, OrderInv, RowsFit
  <2> HIDE DEF row
  <2> QED  BY <1>2, <2>1, <2>2, <2>3
<1>6. ASSUME NEW r \in Run, NEW i \in Authz, GiveUp(r, i) PROVE OrderInv' /\ Moves
  <2> DEFINE row == [orders[r] EXCEPT !.authz[i] = "invalid", !.status = "invalid"]
  <2>1. orders' = [orders EXCEPT ![r] = row]
    BY <1>3, <1>6 DEF GiveUp
  <2>2. row.key = orders[r].key /\ row.status = "invalid"
    BY <1>3 DEF Order
  <2>3. orders[r].status # "none"
    BY <1>6 DEF GiveUp, OrderInv, RowsFit
  <2> HIDE DEF row
  <2> QED  BY <1>2, <2>1, <2>2, <2>3
<1> QED  BY <1>4, <1>5, <1>6 DEF WorkerStep

LEMMA OrderStep == IInv /\ OrderInv /\ [Next]_vars => OrderInv' /\ Moves
<1> SUFFICES ASSUME IInv, OrderInv, [Next]_vars PROVE OrderInv' /\ Moves
  OBVIOUS
<1>1. ASSUME UNCHANGED orders PROVE Moves
  BY <1>1 DEF Moves, Life!vars, phase, issued
<1>2. CASE UNCHANGED vars
  BY <1>1, <1>2 DEF vars, client, server, OrderInv, LateOrders, RunsOrder, RowsFit
<1>3. CASE Start
  BY <1>1, <1>3, StartOrders DEF Start, server
<1>4. CASE ClientStep \/ NonceExpires \/ Fail
  <2>1. UNCHANGED orders
    BY <1>4 DEF ClientStep, NonceExpires, Fail, Stop, GetDirectory, Send, Retry, ReceiveError,
                Receive, PollAgain, PollFails, PollEnds, Place, GenerateCsr, InstallChain,
                Cleanup, Finish, server
  <2> QED  BY <1>1, <1>4, <2>1, ClientOrders
<1>5. CASE Serve
  BY <1>5, HandleMoves DEF Serve
<1> QED  BY <1>2, <1>3, <1>4, <1>5, WorkerMoves DEF Next

\* No run that already has an order asks for another, and a request that a killed run
\* left behind cannot overwrite one.
THEOREM OneOrderPerRun == Spec => []OrderInv
  BY InitOrderInv, OrderStep, Inductive, PTL DEF Spec

\* The server that the client's properties rest on keeps the promise that the statements
\* of the server itself keep: it moves orders along the lifecycle, and issues once.
THEOREM ServerAsPromised == Spec => ServesLifecycle
<1>1. Init => Life!Init
  BY DEF Init, NoOrder, Life!Init, phase, issued
<1>2. OrderInv /\ IInv /\ [Next]_vars => [Life!Next \/ \E r \in Run : Finalized(r)]_(Life!vars)
  BY OrderStep DEF Moves
<1> QED  BY <1>1, <1>2, OneOrderPerRun, Inductive, PTL DEF Spec, ServesLifecycle

=============
