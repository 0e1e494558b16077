------------------------------ MODULE AcmeClient ------------------------------
(***************************************************************************)
(* The command-line ACME client against the server's request handling: one *)
(* run registers, orders, publishes a record per authorization, finalizes  *)
(* and installs the certificate.  Requests and answers are lost, the       *)
(* process is killed, and the operator runs it again.  Only the nonce that *)
(* the client holds or has sent matters, so a nonce is "live", while the   *)
(* server would accept it, or "dead".                                      *)
(***************************************************************************)
EXTENDS Naturals, FiniteSets

CONSTANTS
    N,         \* authorizations of an order, one per --domain
    None,      \* nothing
    MaxRuns,   \* bound on runs of the command
    MaxPolls   \* polls that fit into pollUntil's timeout

ASSUME ClientAssumption ==
    /\ N \in Nat \ {0}
    /\ MaxRuns \in Nat \ {0} /\ MaxPolls \in Nat \ {0}
    /\ None \notin Nat

\* A run names what it generates: its account key, its key pair, its certificate.
Run == 1..MaxRuns

Authz == 1..N

VARIABLES
    run,        \* the current or last run
    at,         \* where main() is
    authz,      \* the authorization it works on
    key,        \* its account key
    nonce,      \* AcmeClient.nonce
    attempt,    \* of post()
    call,       \* the request or answer under way
    late,       \* requests of a client that is gone, not handled yet
    polls,      \* of pollUntil
    placements, \* records published by this run
    disk,       \* account key, private key and chain files
    accounts,   \* server: the accounts, by key
    orders,     \* server: the order of each run
    zone        \* external: the records in the DNS

client == <<run, at, authz, key, nonce, attempt, polls, placements, disk>>
server == <<accounts, orders>>
vars == <<client, call, late, server, zone>>

\* Steps of main() that are one post(), in their order.
Posts == {"register", "order", "fetchAuthz", "trigger", "pollAuthz", "pollReady",
          "finalize", "pollValid", "download"}

Stopped == {"off", "done"}

Silent == [state |-> "none"]

Call == {Silent} \cup [state: {"sent"}, nonce: {"live", "dead"}]
        \cup [state: {"answered"}, result: {"badNonce", "error", "ok"}]

Request == [step: Posts, run: Run, authz: Authz, key: Run, nonce: {"live", "dead"}]

NoOrder == [status |-> "none", authz |-> [i \in Authz |-> "none"], key |-> None]

Order == [status: {"none", "pending", "ready", "valid", "invalid", "expired"},
          authz: [Authz -> {"none", "pending", "processing", "valid", "invalid"}],
          key: Run \cup {None}]

TypeOK ==
    /\ run \in Run \cup {0}
    /\ at \in Posts \cup Stopped \cup {"directory", "place", "csr", "cleanup"}
    /\ authz \in Authz
    /\ key \in Run \cup {None}
    /\ nonce \in {"none", "live", "dead"}
    /\ attempt \in 1..2
    /\ call \in Call
    /\ late \subseteq Request
    /\ polls \in 0..MaxPolls
    /\ placements \subseteq Authz
    /\ disk \in [account: Run \cup {None}, private: Run \cup {None}, chain: Run \cup {None}]
    /\ accounts \subseteq Run
    /\ orders \in [Run -> Order]
    /\ zone \subseteq Run \X Authz

Init ==
    /\ run = 0 /\ at = "off" /\ authz = 1 /\ key = None
    /\ nonce = "none" /\ attempt = 1 /\ call = Silent /\ late = {} /\ polls = 0
    /\ placements = {}
    /\ disk = [account |-> None, private |-> None, chain |-> None]
    /\ accounts = {}
    /\ orders = [r \in Run |-> NoOrder]
    /\ zone = {}

Order0 == orders[run]

----------------------------------------------------------------------------
(* main() and post().                                                      *)

\* Mutant: the account key is not saved as it is generated.
StartUnsaved ==
    /\ at \in Stopped
    /\ run < MaxRuns
    /\ run' = run + 1
    /\ key' = IF disk.account = None THEN run + 1 ELSE disk.account
    /\ at' = "directory"
    /\ authz' = 1 /\ nonce' = "none" /\ attempt' = 1 /\ polls' = 0 /\ placements' = {}
    /\ UNCHANGED <<call, late, disk, server, zone>>

\* Loads the account key, or generates it and saves it at once.
Start ==
    /\ at \in Stopped
    /\ run < MaxRuns
    /\ run' = run + 1
    /\ key' = IF disk.account = None THEN run + 1 ELSE disk.account
    /\ disk' = [disk EXCEPT !.account = key']
    /\ at' = "directory"
    /\ authz' = 1 /\ nonce' = "none" /\ attempt' = 1 /\ polls' = 0 /\ placements' = {}
    /\ UNCHANGED <<call, late, server, zone>>

\* main() ends; the files, the records and what the server did remain.
Stop(outcome) ==
    /\ at' = outcome
    /\ call' = Silent
    /\ UNCHANGED <<run, authz, key, nonce, attempt, polls, placements, disk, server, zone>>

\* The request the client waits for.
Awaited ==
    IF call.state # "sent" THEN {}
    ELSE {[step |-> at, run |-> run, authz |-> authz, key |-> key, nonce |-> call.nonce]}

\* An exception, a connection that breaks, or a signal: nothing is tried again.  A
\* request on its way may still reach the server.
Fail ==
    /\ at \notin Stopped
    /\ Stop("off")
    /\ late' \in {late, late \cup Awaited}

\* The directory, too, is answered with a nonce.
GetDirectory ==
    /\ at = "directory"
    /\ nonce' = "live"
    /\ at' = "register"
    /\ UNCHANGED <<run, authz, key, attempt, call, polls, placements, disk, late, server, zone>>

\* signRequest: the nonce at hand, or one from newNonce.
Send ==
    /\ at \in Posts
    /\ call = Silent
    /\ call' = [state |-> "sent", nonce |-> IF nonce = "none" THEN "live" ELSE nonce]
    /\ nonce' = "none"
    /\ UNCHANGED <<run, at, authz, key, attempt, polls, placements, disk, late, server, zone>>

\* The nonce at hand grows old while the operator is asked to publish a record; its
\* lifetime is far longer than any exchange or poll interval.
NonceExpires ==
    /\ at = "place"
    /\ nonce = "live"
    /\ nonce' = "dead"
    /\ UNCHANGED <<run, at, authz, key, attempt, call, polls, placements, disk, late, server, zone>>

\* Mutant: repeats the request that was refused.
RetrySame ==
    /\ call = [state |-> "answered", result |-> "badNonce"]
    /\ attempt = 1
    /\ attempt' = 2
    /\ call' = [state |-> "sent", nonce |-> "dead"]
    /\ UNCHANGED <<run, at, authz, key, nonce, polls, placements, disk, late, server, zone>>

\* Once, with the nonce that came with the refusal.
Retry ==
    /\ call = [state |-> "answered", result |-> "badNonce"]
    /\ attempt = 1
    /\ attempt' = 2
    /\ nonce' = "live"
    /\ call' = Silent
    /\ UNCHANGED <<run, at, authz, key, polls, placements, disk, late, server, zone>>

ReceiveError ==
    /\ \/ call = [state |-> "answered", result |-> "error"]
       \/ call = [state |-> "answered", result |-> "badNonce"] /\ attempt = 2
    /\ Stop("off")
    /\ UNCHANGED late

\* post() returns and main() goes on.
Returns ==
    /\ call = [state |-> "answered", result |-> "ok"]
    /\ nonce' = "live" /\ attempt' = 1 /\ call' = Silent

After == [register |-> "order", order |-> "fetchAuthz", fetchAuthz |-> "place",
          trigger |-> "pollAuthz", finalize |-> "pollValid"]

Receive ==
    /\ at \in DOMAIN After
    /\ Returns
    /\ at' = After[at]
    /\ polls' = 0
    /\ UNCHANGED <<run, authz, key, placements, disk, late, server, zone>>

\* The status an answer to a poll carries, and those pollUntil waits for.
Polled == IF at = "pollAuthz" THEN Order0.authz[authz] ELSE Order0.status

Target == [pollAuthz |-> "valid", pollReady |-> "ready", pollValid |-> "valid"]

\* Mutant: the clock of pollUntil starts anew with each poll.
PollAgainForever ==
    /\ at \in DOMAIN Target
    /\ Polled \notin {Target[at], "invalid"}
    /\ Returns
    /\ UNCHANGED <<run, at, authz, key, polls, placements, disk, late, server, zone>>

\* Mutant: the timeout is looked at one poll too late.
PollAgainOnceMore ==
    /\ at \in DOMAIN Target
    /\ Polled \notin {Target[at], "invalid"}
    /\ polls <= MaxPolls
    /\ Returns
    /\ polls' = polls + 1
    /\ UNCHANGED <<run, at, authz, key, placements, disk, late, server, zone>>

PollAgain ==
    /\ at \in DOMAIN Target
    /\ Polled \notin {Target[at], "invalid"}
    /\ polls < MaxPolls
    /\ Returns
    /\ polls' = polls + 1
    /\ UNCHANGED <<run, at, authz, key, placements, disk, late, server, zone>>

\* The time is up, or the answer is `invalid`.
PollFails ==
    /\ at \in DOMAIN Target
    /\ call = [state |-> "answered", result |-> "ok"]
    /\ Polled # Target[at]
    /\ Stop("off")
    /\ UNCHANGED late

PollEnds ==
    /\ at \in DOMAIN Target
    /\ Polled = Target[at]
    /\ Returns
    /\ polls' = 0
    /\ \/ /\ at = "pollAuthz" /\ authz < N
          /\ authz' = authz + 1 /\ at' = "fetchAuthz"
       \/ /\ at = "pollAuthz" /\ authz = N
          /\ at' = "pollReady" /\ UNCHANGED authz
       \/ /\ at = "pollReady" /\ at' = "csr" /\ UNCHANGED authz
       \/ /\ at = "pollValid" /\ at' = "download" /\ UNCHANGED authz
    /\ UNCHANGED <<run, key, placements, disk, late, server, zone>>

\* The hook publishes the record.
Place ==
    /\ at = "place"
    /\ zone' = zone \cup {<<run, authz>>}
    /\ placements' = placements \cup {authz}
    /\ at' = "trigger"
    /\ UNCHANGED <<run, authz, key, nonce, attempt, call, polls, disk, late, server>>

\* Mutant: the private key is written together with the chain.
GenerateCsrUnsaved ==
    /\ at = "csr"
    /\ at' = "finalize"
    /\ UNCHANGED <<run, authz, key, nonce, attempt, call, polls, placements, disk, late, server, zone>>

\* A new key pair for the certificate, written over an earlier one.
GenerateCsr ==
    /\ at = "csr"
    /\ disk' = [disk EXCEPT !.private = run]
    /\ at' = "finalize"
    /\ UNCHANGED <<run, authz, key, nonce, attempt, call, polls, placements, late, server, zone>>

InstallChain ==
    /\ at = "download"
    /\ Returns
    /\ disk' = [disk EXCEPT !.chain = Order0.key]
    /\ at' = "cleanup"
    /\ UNCHANGED <<run, authz, key, polls, placements, late, server, zone>>

\* Record by record; a failure is a warning.
Cleanup(i) ==
    /\ at = "cleanup"
    /\ i \in placements
    /\ placements' = placements \ {i}
    /\ zone' \in {zone, zone \ {<<run, i>>}}
    /\ UNCHANGED <<run, at, authz, key, nonce, attempt, call, polls, disk, late, server>>

Finish ==
    /\ at = "cleanup"
    /\ placements = {}
    /\ Stop("done")
    /\ UNCHANGED late

----------------------------------------------------------------------------
(* The server: readJws consumes the nonce, then the handler runs.          *)

\* The request of this step that the server handles: the client's, or one left behind.
Arrives(q, step) == q.step = step /\ q \in late \cup Awaited

\* The answer, which only a client that waits for it receives.
Answer(q, result) ==
    /\ \/ /\ q \in late /\ late' = late \ {q} /\ UNCHANGED call
       \/ /\ q \in Awaited
          /\ call' = [state |-> "answered", result |-> result]
          /\ UNCHANGED late
    /\ UNCHANGED <<client, zone>>

Refuse(q) ==
    /\ Arrives(q, q.step)
    /\ q.nonce = "dead"
    /\ Answer(q, "badNonce")
    /\ UNCHANGED server

Accepts(q, step) == Arrives(q, step) /\ q.nonce = "live"

\* An account is found by the thumbprint of its key.
NewAccount(q) ==
    /\ Accepts(q, "register")
    /\ accounts' = accounts \cup {q.key}
    /\ Answer(q, "ok")
    /\ UNCHANGED orders

NewOrder(q) ==
    /\ Accepts(q, "order")
    /\ \/ /\ orders' = [orders EXCEPT ![q.run].status = "pending",
                                      ![q.run].authz = [i \in Authz |-> "pending"]]
          /\ Answer(q, "ok")
       \/ Answer(q, "error") /\ UNCHANGED orders
    /\ UNCHANGED accounts

Fetch(q) ==
    /\ \E step \in {"fetchAuthz", "download"} \cup DOMAIN Target : Accepts(q, step)
    /\ Answer(q, "ok")
    /\ UNCHANGED server

Trigger(q) ==
    /\ Accepts(q, "trigger")
    /\ orders' = [orders EXCEPT ![q.run].authz[q.authz] =
                    IF @ = "pending" THEN "processing" ELSE @]
    /\ Answer(q, "ok")
    /\ UNCHANGED accounts

\* The handler runs for an order that is ready; signing may fail.
Finalize(q) ==
    /\ Accepts(q, "finalize")
    /\ \/ /\ orders[q.run].status = "ready"
          /\ orders' = [orders EXCEPT ![q.run].status = "valid", ![q.run].key = q.run]
          /\ Answer(q, "ok")
       \/ /\ orders[q.run].status = "ready"
          /\ orders' = [orders EXCEPT ![q.run].status = "invalid"]
          /\ Answer(q, "error")
       \/ orders[q.run].status # "ready" /\ Answer(q, "error") /\ UNCHANGED orders
    /\ UNCHANGED accounts

\* The challenge worker's verdict; the last one that is valid promotes the order.
Validate(r, i) ==
    /\ orders[r].authz[i] = "processing"
    /\ <<r, i>> \in zone
    /\ orders' = [orders EXCEPT ![r].authz[i] = "valid",
          ![r].status = IF @ = "pending" /\ \A j \in Authz \ {i} : orders[r].authz[j] = "valid"
                        THEN "ready" ELSE @]
    /\ UNCHANGED <<client, call, late, accounts, zone>>

GiveUp(r, i) ==
    /\ orders[r].authz[i] = "processing"
    /\ orders' = [orders EXCEPT ![r].authz[i] = "invalid", ![r].status = "invalid"]
    /\ UNCHANGED <<client, call, late, accounts, zone>>

Expire(r) ==
    /\ orders[r].status \in {"pending", "ready"}
    /\ orders' = [orders EXCEPT ![r].status = "expired"]
    /\ UNCHANGED <<client, call, late, accounts, zone>>

ClientStep ==
    \/ GetDirectory \/ Send \/ Retry \/ ReceiveError \/ Receive
    \/ PollAgain \/ PollFails \/ PollEnds
    \/ Place \/ GenerateCsr \/ InstallChain \/ (\E i \in Authz : Cleanup(i)) \/ Finish

Handle(q) ==
    Refuse(q) \/ NewAccount(q) \/ NewOrder(q) \/ Fetch(q) \/ Trigger(q) \/ Finalize(q)

Serve == \E q \in late \cup Awaited : Handle(q)

WorkerStep == \E r \in Run : Expire(r) \/ \E i \in Authz : Validate(r, i) \/ GiveUp(r, i)

Next == Start \/ Fail \/ NonceExpires \/ ClientStep \/ Serve \/ WorkerStep

Spec == Init /\ [][Next]_vars

\* The operator answers the hook, and the server answers its requests.
FairSpec == Spec /\ WF_vars(ClientStep) /\ WF_vars(\E q \in Awaited : Handle(q))

----------------------------------------------------------------------------
(* Properties.                                                             *)

\* The nonce of an answer and one retry are enough: however long the operator takes,
\* no request is refused twice for its nonce.
NonceNeverFatal ==
    call = [state |-> "answered", result |-> "badNonce"] => attempt = 1

\* Lost answers, kills and repeated runs never make a second account: whatever run
\* first reached the server, its key was on disk by then.
OneAccount == accounts \subseteq {disk.account}

\* A certificate is never issued to a private key that exists only in memory: if the
\* client dies on the answer of finalize, the key is in its file, until a later run
\* generates another.
IssuedKeyOnDisk ==
    \A r \in Run : orders[r].key # None => disk.private \in Run /\ disk.private >= r

\* A run ends, though nobody may ever validate its challenges.
EveryRunEnds == at = "directory" ~> at \in Stopped

=============================================================================
