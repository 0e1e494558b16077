# secutor: TLA+ models and proofs

secutor is a terminal program that manages certificate authorities, certificates
and SSH keys in local, optionally encrypted, contexts (`src/src/`), together with
an ACME server that issues certificates from one of those CAs and is administered
remotely (`src/acme-server/`). This directory holds TLA+ models of the parts whose
correctness depends on order, interleaving and failure, TLC configurations that
check them on small instances, and TLAPS proofs for every size.

## 1. The system

| Component | State | Operations | What is hard |
|---|---|---|---|
| ACME orders (`routes.ts`, `repos.ts`, `expireWorker.ts`) | SQLite rows: accounts, orders, authorizations, challenges, certificates | new-account, new-order, challenge trigger, finalize, revoke; expiry tick | each SQL statement commits alone; a crash may fall between two; handlers interleave with the worker |
| Challenge worker (`worker.ts`, `challenges.ts`) | challenge rows; what `runOne` read before its awaits | place, validate, retry, promote or fail, clean up | writes after an await what it read before it; bounded retries; promotion is a separate commit |
| Admin API (`admin/index.ts`) | the same rows | issue, revoke, ban (cascade or soft), unban, account status | a ban races validations in flight and half-done finalizes |
| Signing CA (`caStore.ts`, `contextLoader.ts`, `crl.ts`) | in memory: active, staged and previous material | stage, discard, promote, rollback | volatile against a restart; rotation under running jobs |
| Reissue jobs (`reissueWorker.ts`) | job and item rows; in memory: driven and cancelled jobs | start, tick, re-sign an item, count, cancel, finish | each job is its own asynchronous loop; cancellation between items; resumption after a crash |
| DNS placement (`dnsProviders.ts`, `dns/providers.ts`, `worker.ts`) | placement rows; the zone | place, clean up, startup sweep | zone and rows change separately |
| Nonces, JWS (`nonce.ts`, `jws.ts`) | nonce rows | issue, consume, purge | a nonce is used once |
| ACME client (`client/`) | its nonce, key files, published records | register, order, poll, hooks, finalize, install | lost answers, a kill between a request and its answer, stale nonces, repeated runs |
| Local contexts (`storage/`) | metadata, database file, encrypted file, working copy | open, persist, close, set password | several files per operation |
| Hub store (`hubStore.ts`, `hubKeystore.ts`) | JSON file, key files | add, update, delete | read-modify-write |
| Remote hub access (`net/`, `Remote*Screen.tsx`, `HubsScreen.tsx`) | session cache, what a screen shows, calls under way | connect, load, revoke, ban, rotate the CA, follow a job | answers in any order, after their screen is gone, or never |
| Certificate tools (`certs/`) | certificate rows: key, issuer link, revocation | create, issue, renew, sign again, link, delete, verify, audit | links and signatures change separately |
| Bundle transfer (`transfer/`) | the open context | import modes, conflicts | transaction and persistence; links by fingerprint |
| Terminal interface (`app.tsx`, `screens/`) | a stack of screens, the open context, its name | open, switch, delete, import, export, send a row | each screen acts on whatever context is open by then |
| Command line (`cli/`) | one open context | import, transfer | a second process on the same files |
| SSH keys, mouse input, rendering | none | | pure |

How they interact: ACME handlers and admin handlers run in one Node process and
share one SQLite handle. Code between two `await`s is never interleaved. The
handlers modelled here have no `await` between their first and last statement, the
challenge worker yields only while a provider or validator works, a reissue loop
yields only in its rate-limiting wait. `CaStore` and `ReissueWorker` share one
`CaMaterial` object that promotion changes in place; finalize reads the same object
at each signature. The revocation list is computed from the certificate rows.
The terminal program is synchronous, too, but for its calls to the admin API: each
has a connection of its own, the screen goes on taking input meanwhile, and the
answer calls back into whatever is on screen by then. Everything else it does is on
local files, which the command line uses as well.

What makes each part correct:

- *orders*: one certificate per order; none before every identifier is proven; a
  `valid` order's certificate can be downloaded; failed, expired or cancelled orders
  stay so; the status graph of RFC 8555.
- *worker*: every queued challenge is decided; the last valid authorization promotes.
- *rotation*: one trust anchor.
- *jobs*: current signatures, honest counters, a cancelled job is quiet, jobs end.
- *DNS placement*: no record is left behind and none is removed while needed.
- *client*: one account; no certificate for a key that is not on disk; a stale nonce
  is no error; every run ends.
- *contexts, transfer*: no crash loses the only readable copy; what was reported
  saved is on disk; no plain copy of an encrypted context.
- *certificate rows*: a key fits its certificate, a link its signature; what is
  reported as verified is sound; links survive a bundle.
- *screens*: a list never goes back in time and in the end shows what was done; a
  screen that waits gets its answer; what is done is done in the context that the
  header names.

The hazards are listed one by one, with source lines, in `PROJECT.json`.

## 2. Modules

| Module | What it is |
|---|---|
| `AcmeOrders` | accounts, orders, authorizations, challenges, certificates, challenge worker, expiry, bans, crashes |
| `OrderLifecycle` | abstract specification: what the server promises of an order |
| `AcmeOrdersProofs` | inductive invariant and safety theorems; `AcmeOrders` implements `OrderLifecycle` |
| `CaRotation` | signing material, certificates' serial numbers and signers, reissue jobs |
| `CaRotationProofs` | inductive invariant and theorems on rotation and jobs |
| `DnsPlacement` | choice of a provider, placement rows, an external zone, cleanups and the startup sweep |
| `DnsPlacementProofs` | inductive invariant and safety theorems, and what the choice of a provider means |
| `AcmeClient` | the command-line client, its requests and the server's handling of them |
| `AcmeClientProofs` | inductive invariant and safety theorems; the server as the client sees it keeps to `OrderLifecycle` |
| `ContextStore` | one local context: metadata, plain and encrypted store, working copy, crashes within writes |
| `ContextStoreProofs` | inductive invariant and safety theorems |
| `LocalPki` | the certificate rows of a context: keys, issuer links, verification, audit, files and bundles |
| `LocalPkiProofs` | recursive functions by a least counterexample; inductive invariant, safety theorems, what a verified chain means |
| `RemoteAdmin` | the administration screens, their calls and a hub that others change, too |
| `RemoteAdminProofs` | inductive invariant and safety theorems |
| `Terminal` | the stack of screens, the open context, several contexts on disk, the command line |
| `TerminalProofs` | inductive invariant and safety theorems |
| `MCAcmeOrders`, `MCCaRotation`, `MCContextStore`, `MCDnsPlacement`, `MCTerminal` | model values, symmetry, hierarchies and configurations for TLC |

How they fit together. `AcmeOrders`, `CaRotation` and `DnsPlacement` are three views
of the server's one process: a certificate is an order's row in the first and a
signer's row in the second; the placement that `AcmeOrders` leaves open is the
subject of the third. `AcmeClient` is the same server seen from one client, order by
order. `ContextStore` is one context with the steps of each write visible,
`Terminal` several contexts with each write in one step and the screens on top,
`LocalPki` the rows of one context. `RemoteAdmin` is the hub as the screens see it;
in `Terminal` it appears only as answers that push and pop screens.

### AcmeOrders

One action per committed SQL statement. `handler` and `worker` are program
counters; `Free` says that no synchronous code is between two of its statements.

| Code | Actions |
|---|---|
| `new-account`, `ensureAdminAccount` | `NewAccount` |
| `new-order` | `InsertOrder`, then per identifier `InsertAuthz`, `InsertDnsChallenge`, `QueueServerManaged`, `InsertHttpChallenge`; `ReplyNewOrder` |
| `POST /chall/:id` | `TriggerChallenge` |
| `finalize` | `BeginFinalize`, `InsertCert` or `SignFails`, `AttachCert` |
| admin issue | `AdminInsertOrder`, `AdminSetValid`, `InsertCert`, `AttachCert` |
| both revocation routes | `RevokeCert` |
| ban, unban, PATCH account | `Ban` (one transaction, hence one action), `Unban`, `PatchAccount` |
| expiry tick | `ExpireOrders`, `ExpireAuthz` |
| `runOne` | `StartChallenge`, `Placed`/`PlacementFails`, `AnswerValid`/`AnswerRetry`/`AnswerInvalid`, `SetAuthzValid`, `MaybePromoteOrder`, `SetAuthzInvalid`, `SetOrderInvalid`, `CleanedInvalid` |
| process death and restart | `Crash`, possible between any two statements: memory is lost, rows stay |

`order[o].told` records that new-order's answer was sent. A client can name an order
or its challenges only then, which is what keeps a half-created order out of finalize.

Abstractions. Time is left out: any open row may be past its `expires_at`, and a
queued challenge may be due (the retry delay only postpones it). Identifiers of an
order are a set, so a duplicate name in one request is one identifier. The accounts
that administrators' certificates hang from, one per administrator in the code, are
one `Admin`. CSR checks that refuse a request before any write are left out, as are
audit rows, tokens, problem documents and the batch size of 20 challenges per tick.
Whether a placement is still open when an attempt starts is a free choice here; the
rows are in `DnsPlacement`, nonces in `AcmeClient`.

### OrderLifecycle

The order's status, whether an administrator created it, and whether a certificate
exists. A certificate is issued once, while the order is `processing`, or when an
administrator vouched for it. `processing` becomes `valid` only with a certificate.
Any order may fail, because `markInvalid` does not look at the status; only an open
one expires. `AcmeOrders` maps to it by `phase`, `outOfBand` and `issued`.

### CaRotation

| Code | Actions |
|---|---|
| `CaStore.stage`, DELETE staged, `promote`, `rollback` | `Stage`, `DiscardStaged`, `Promote`, `Rollback`, `RollbackTooLate` |
| finalize and admin issue | `Issue` |
| revocation routes, cascading ban | `Revoke` (a set of certificates) |
| `startJob`, `cancel` | `StartJob`, `Cancel` |
| `tick`, `driveJob`, `resignOne` | `Drive`, `Resign`, `ResignFails`, `MarkItem`, `CountDone`, `CountFailed`, `Finish`, `StopDriving` |
| restart | `Crash`: the configured CA is loaded again |

Certificates are the rows of `AcmeOrders` seen from the other side: there a row is
an order's certificate, here a serial number and a signer. A candidate comes with any
of `Chains`, whether or not it is the candidate's: `stage` compares the last
certificate of what is submitted with the active root and verifies nothing else. Of a
chain only that last certificate is kept, as the root that the material is said to lead
to; the chain that is sent after a leaf is left out, as are key parsing, the 30-day rule
and the 50-job page of `listReissueJobs`. The order of a job's items is a free choice.
`signed` (the rows signed since the material was last replaced) and `strays` (candidates
staged with a chain that is not theirs) are history variables: no action reads them.

### DnsPlacement

| Code | Actions |
|---|---|
| new-order, server-managed challenge | `QueueServerManaged` |
| `DnsProviderRegistry.pickFor` | `MatchRule`, `PickFor`: the longest zone, the first rule among equals; `Throws` if its provider cannot be built |
| `runOne`, `placeIfServerManaged` | `StartChallenge` or `StartChallengeThrows`, then `PlaceApplied`, `PlaceReturns` or `PlaceFails` |
| verdict of the validation | `AnswerValid`, `AnswerRetry`, `AnswerInvalid` |
| `cleanupPlacementsFor` | per row `SkipRow`, or `CleanupApplied` and then `CleanupReturns`, or `CleanupFails`; `Cleaned`, or `CleanupThrows` |
| `sweepOnStartup` | the same steps by a second actor, `"sweep"`, and `SweepThrows` |
| process death, an exception nothing catches, restart | `Crash`, `Restart` |

What a provider does is two steps, its effect on the zone and its return, so that a
crash or a failure may fall before the effect, between the two, or after. A record is
identified by its challenge. Rows are numbered in the order of `placed_at`; what a cleanup
has yet to do is a set of them, taken from the first on. A restart may find another `dnsProviders`; rows then
belong to zones that nobody serves any more. `lost` is a history variable: records
left because a provider failed or was exchanged.

### AcmeClient

| Code | Actions |
|---|---|
| `main()`: account key, directory | `Start`, `GetDirectory` |
| `post()`, `signRequest`, `newNonce` | `Send`; `Retry` after badNonce, `ReceiveError` |
| what `main()` does with an answer | `Receive`; `PollAgain`, `PollFails`, `PollEnds` (`pollUntil`); `InstallChain` |
| hooks | `Place`, `Cleanup` |
| CSR and key pair | `GenerateCsr` |
| the end of a run | `Finish`; `Fail` (an exception, a broken connection or a signal, anywhere) |
| server: `readJws`, then the handler | `Refuse`; `NewAccount`, `NewOrder`, `Fetch`, `Trigger`, `Finalize` |
| server: worker and expiry | `Validate`, `GiveUp`, `Expire` |
| a nonce that is purged while the operator works | `NonceExpires` |

A client that fails while a request is on its way leaves it in `late`, and the server
may handle it at any later time, after other runs have begun. A nonce is "live" or
"dead". Delays and the 120-second clock are `MaxPolls` polls, of which any number may
pass before the time is up.

### ContextStore

A separate model: the terminal program's storage shares nothing with the server. The
code is synchronous, so what can go wrong is a crash between two calls of the file
system, and within a `writeFileSync`, which truncates the file first (`Torn`). `task`
says what the process is in the middle of.

| Code | Actions |
|---|---|
| `openContext`, `closeContext` | `OpenContext`, `CloseContext` |
| repository insert, delete, any other update, context export | `Insert`, `Delete`, `Update`; in an encrypted context `PersistTruncates`, `PersistWrites` follow |
| `importBundle` | `BeginImport`, then `CommitImport` or `ImportFails` |
| `createContext`, `importContext` | `CreateContext`, `MetaWritten`; `FillTruncates` and `Filled`, or `FillFails` |
| `setContextPassword`, `migrateContextEncryption` | `ChangePassword`, `StoreWritten`, `UnlinkOther`, `MetaTruncates`, `MetaWritten` |
| `deleteContext` | `DeleteContext` |
| process death | `Crash`: the working copy is lost |

A row is its public part and possibly a private key, since an import may fill in the
key of a known row. A cipher is abstracted to the password that opens a file, a
verifier to the password it accepts. What SQLite does is modelled from how the code
uses it: a statement or a transaction on a plain store is atomic and durable, and a
checkpoint asked for inside a write transaction raises `SQLITE_LOCKED`, which is
what `persist()` meets when a repository is called by `importBundle`.

Abstractions. One process uses the context at a time (nothing in the code prevents
two). The removal of a context's directory is one step. A torn plain store is opened
as an empty one, as SQLite does with the empty file that truncation leaves. Name
conflicts, issuer columns, root metadata and settings are left out. `kept`,
`imported` and `crashedAt` are history variables.

### LocalPki

| Code | Actions |
|---|---|
| `generator.ts`: CA, intermediate, leaf | `CreateCa`, `IssueIntermediate`, `IssueCert` |
| `signing.ts`: renewal, another signer | `RenewRoot`, `RenewIssued`, `Resign` (`ReplaceCert`) |
| attach to an issuer, revoke, delete | `Attach`, `ToggleRevoked`, `Delete` |
| `verify.ts` | `BuildChain` (`Above`), `VerifyCert` |
| `audit.ts` and its fixes | `IssuerFinding`, `FindCandidateIssuer`, `FixIssuers` (one finding or all) |
| `importer.ts` and file export | `ExportChain`, `OrderChain` (`LeafOf`, `Selected`), `SaveChain`, `ImportFile` |
| `repoBridge.ts` | `ExportCert`, `ExportSubtree`, `ImportBundle` (`Merge`, then `Relink`), `OpenEmptyContext` |

A certificate is its subject, issuer, public key, signer's key and serial number.
Keys are numbered pairs; `Sealed` ones are stored under a password and cannot sign
again. Time is left out, so no certificate expires. Names are left out: a form refuses
a clash, an import adds a suffix. `strayed` and `guessed` are history variables: the
key of another pair that a user picked, and links that a user chose or an import took
from the order of a file.

### RemoteAdmin

| Code | Actions |
|---|---|
| `adminApi.ts`, `hubClient.ts` | a call is sent, handled (`Handle`) and taken (`Land`), or fails at any time: refused, the connection broken, or silent for ten seconds; or its answer breaks off in the body, and it neither returns nor fails (`CutOff`) |
| `HubsScreen`, `AddHubScreen`, `RemoteHubScreen`, `sessionCache.ts` | `AddHub`, `StartProbe`, `TrustHub`, `RemoveHub`, `Connect`, `Visit`, `Disconnect` |
| what draws every screen again (a toast, another top of the stack) | `Redraw`, `ShowFor`: the hub's screen asks again as long as it was told nothing, and its earlier question is not heard any more |
| lists and details | `Refresh`, `ToggleFilter`, `OpenDetails`, `ChooseCert`, `ConfirmRevoke`, `ChooseAccount`, `ConfirmBan` |
| `RemoteCaRotateScreen`, `JobProgressScreen`, `RemoteCaVerifyScreen` | `PickCandidate`, `ConfirmStage`, `AskPromote`, `ConfirmPromote`, `Discard`, `Rollback`, `Reissue`, `Poll`, `CancelJob`, `Verify` |
| a screen that is left, an effect that is cancelled | `Orphans`: its callbacks set no state; what they ask of the whole program still happens |
| an exception that nothing catches | `Dies` |
| others | `OtherAdmin`, `JobDone` |

Calls are a function of connections: each has one of its own, and answers come in any
order. The hub answers from the state it has when it handles a request; `at` numbers its
revocations and bans. `page.acked` is the newest change that the screen has reported
as done. The audit screen is as the one of statistics. A request that reaches the hub
after it was given up is one of another administrator. A call whose answer broke off
stays among the calls if a list or a busy step waits for it; one that nothing on the
screen waits for is dropped, since its callback never runs.

### Terminal

| Code | Actions |
|---|---|
| contexts screen, `UnlockScreen` | `OpenContext`, `PushUnlock`, `CreateContext`, `AskDelete`, `ConfirmDelete`, `ImportContext` |
| main menu and screens within a context | `SwitchContext`, `Enter`, `EnterThrows`, `Back`, `StepBack`, `WriteRow`, `ImportBundle`, `ExportContext` |
| SQLite's own checkpoint | `Checkpoint` |
| `SetPasswordScreen` | `EnterSetPassword`, `SetPassword`, `SetPasswordRefused` |
| `TransferEntityScreen` | `EnterTransfer`, `SendToContext`, `PickTarget`, `UnlockTarget`, `Transfer` |
| answers of a hub | `AskHub`, `HubAnswers` |
| `cli/commands.ts`, `keysCommands.ts` | `CliOpen`, `CliImport`, `CliClose` |
| the ends of both processes | `Quit`, `Crash`, `CliCrash` |

A plain context has two sets of rows, all of them and those that the database file
itself holds; the rest is in its write-ahead log. An encrypted one has a decrypted
working copy for as long as it is open. All screens within a context are one,
`rows`. A context is used by one process at a time, and the name of one that was
deleted while open is not taken again before it is closed (`Free`).

## 3. Runs

| Run | Instance | Checks | Result |
|---|---|---|---|
| `orders` | 2 orders, 1 client account and the administrator, 1 identifier, 2 certificates, both challenge types, 1 attempt, 1 crash | `OneCertPerOrder`, `ValidOrderHasCert`, `BanIsFinal`, `ImplementsLifecycle` | holds; 1.9 million states |
| `idents` | 1 order, 2 identifiers (one a wildcard), 2 attempts, both types, 2 certificates, 1 crash, fairness | `TypeOK`, `IssuedAfterProof`, `DeadOrdersStayDead`, `ChallengeDecided`, `PromotedUnlessCrashed` | holds; 435 thousand states |
| `ca_jobs` | a root, an intermediate, a foreign root; 4 chains; 2 certificates, 1 job, 4 serial numbers, 1 crash, fairness | `TypeOK`, `OneTrustAnchor`, `SignedByActive`, `CountersFollowItems`, `EndedJobsAreQuiet`, `JobsEnd` | holds; 1.6 million states |
| `dns_zone` | 2 challenges (a host and its parent domain), 2 providers, 5 configurations, 2 attempts, 3 rows, 1 crash, fairness | `TypeOK`, `NoRecordForgotten`, `ZoneCleanAtLast` | holds; 93 thousand states |
| `client_runs` | 2 domains, 3 runs, 2 polls, fairness | `TypeOK`, `NonceNeverFatal`, `OneAccount`, `IssuedKeyOnDisk`, `EveryRunEnds` | holds; 1.2 million states |
| `hub` | 1 certificate, 1 account, 1 candidate, an owner; 2 calls at a time, 1 change, 4 screens, fairness | `TypeOK`, `SettledListIsCurrent`, `NoStepBack`, `BusyEnds` | holds; 1.1 million states |
| `context_files` | 2 rows, 2 passwords, 2 crashes | `TypeOK`, `SavedRowsReadable`, `NoPlaintextBehind` | holds; 1.6 million states |
| `local_pki` | 2 names, 3 rows, 3 key pairs (one sealed), 3 certificates, 1 file, 1 error of a user | `TypeOK`, `KeysBelong`, `LinksVerify`, `VerifiedMeansSound`, `BundleKeepsLinks`, `AuditSettles` | holds; 765 thousand states |
| `terminal` | 2 contexts, 1 row, 3 screens, 1 crash | `TypeOK`, `HeaderTellsContext`, `CopiesFollowSessions`, `WrittenAsNamed` | holds; 1.4 million states |
| `partial_order` | 1 order, 2 identifiers, dns-01, 1 crash | `ReadyCoversIdentifiers` | violated |
| `context_import` | as `context_files` | `ImportSaved` | violated |
| `context_export` | 1 context, 1 row, no crash | `ExportHoldsRows` | violated |

Every property has a mutant in its module: the definition of one operation with a
plausible mistake in it (a guard dropped, two steps swapped, a flag not reset), under
which the same run finds the property violated.

The bounds, and why they are enough:

- *Orders.* Two orders make the interplay of orders visible (one worker serves both, a
  ban and an expiry tick act on both); rows of different orders meet nowhere else. Two
  certificates let a wrong second one appear. Two identifiers are the least for which
  "all authorizations valid" differs from "one"; a wildcard among them has no http-01
  challenge. Two attempts are a retry and a last attempt. (The limit in the code is 6,
  the length of `RETRY_DELAYS_MS`.)
- *Crashes.* `MaxCrashes = 1` falls between any two statements of the server; a second
  crash would start from states that the first reaches. In `context_files` a second
  one meets the files that the first left. Where there is a proof, it holds for every
  number of crashes.
- *CAs.* Two CAs under one root allow a rotation and back, staging the rollback target,
  and the fall-back of a restart; the foreign root is what `stage` refuses when it comes
  alone or with its own chain, and accepts when the chain ends in the other root. The
  chains are none, each root alone, and an intermediate with its root.
  Four serial numbers allow each certificate to be issued and signed again.
- *Zones.* A name and its parent make longest-match matter; the configurations are one
  provider, a rule of its own for the host, one whose key file is gone, a server for
  the host alone, and none. Three rows let a challenge be placed again after a crash
  while the other has its row.
- *Runs of the client.* Three are a run that leaves a request behind, one that
  overtakes it, and one that sees what both left. Two polls: one that comes too early
  and a last one.
- *Calls.* Two calls are the least that can be answered in another order; one change is
  enough to tell a newer list from an older one; four screens reach every screen. One
  answer at a time may have broken off, so that a call is left for the rest.
- *Rows.* Three rows make a chain of root, intermediate and leaf, and a cycle of links
  with a way into it; with three key pairs a wrong one can be picked, and two names
  clash. A user errs once (`MaxErrors`): a wrong link or a stray key. A file is
  exported once: what it holds may meanwhile be renewed, deleted, linked otherwise, or
  imported into an empty context.
- *Contexts.* Two contexts are those that a screen could confuse. Two passwords let a
  password be changed into another one. Three screens are the contexts screen, the
  main menu and one above; late answers of a hub put more on top.
- Symmetry is used in `orders`, `context_files` and `terminal`, over orders,
  certificates, rows, passwords and contexts; no liveness property is checked there.

Deadlock is not checked where a behaviour may stop: in `client_runs` when the runs are
used up, in `dns_zone` when every challenge is decided, in `hub` and `local_pki` when
the bounds are used up, and in `context_files` and `context_import` when a crash has torn
the metadata, which leaves a context that can be neither opened nor listed nor
created again.

### What the violated runs show

- `partial_order`: new-order is a sequence of commits. After a crash in it, a
  server-managed order with two identifiers may have one authorization; the worker
  validates it and `maybePromoteOrder`, which asks only the rows that exist, makes
  the order `ready`. The client never learned its URL, so `IssuedAfterProof` holds.
- `context_import`: `importBundle` calls the repositories inside a transaction, and
  each of them persists. In an encrypted context the checkpoint in `persist()`
  raises, so a bundle with a new row, or with an issuer to relink, is rolled back
  whole. A bundle that only fills in the key of a known row does commit, to the
  working copy; nothing persists it, and closing the context deletes it.
- `context_export`: a plain context is opened with a write-ahead log, `persist()`
  does nothing for it, and the screen copies the database file alone.

### What the properties leave out

Some windows have no answer in the code, and the properties say so:

- `PromotedUnlessCrashed`: after a crash between the last `setAuthzStatus(valid)` and
  `maybePromoteOrder` nothing looks at the order again; it stays `pending` until it
  expires.
- `SavedRowsReadable`: a crash that hits `persist()`'s write or a password changed into
  another one (the only copy is truncated), the metadata file, or the moment between
  the removal of the old store and the new metadata. It says that all other crashes,
  in any order with any operations, are harmless: above all one while a password is
  first set, or is removed, with the new file written or half written and the old one
  still there.
- `NoPlaintextBehind`: after a crash while a password is being removed the plain store
  stays beside the encrypted one until the next change of password.
- `NoRecordForgotten`: a provider that fails, or that the configuration no longer
  names. A cleanup that throws is swallowed and its row closed.
- `OneTrustAnchor`: a CA of another root that was staged with a chain ending in the
  active root. It is promoted and signs like any other, and comes back by a rollback;
  what never changes, and the next candidate is compared with, is the root that the
  server names.
- `BusyEnds`: the one answer that a busy step waits for breaks off in its body. The
  promise never settles, and the step has no Escape. Any other call may break off
  without holding the step up.
- `CopiesFollowSessions`: the working copies of a killed process, and of a store that
  turns out to be no database, stay.

### Remarks on the code, met while modelling

- Finalize does not look at the account's status: a deactivated account completes an
  open order. (A ban cancels the open orders itself.)
- A job's items are collected when it starts. A certificate that is revoked before its
  turn is signed again in its row, and the revocation list loses the old serial number.
- The comment above `stage` (`caStore.ts:66-68`) and `docs/architecture.md:125-126` say
  that a candidate is checked to chain to the active root. `caStore.ts:105-112` compares
  the last certificate submitted and verifies no signature, so a CA of another hierarchy
  is accepted when the active root is appended to it.
- `hubClient.ts:78` sets a limit on the socket's inactivity, and the response is listened
  to for `data` and `end` only (80-98; the probe likewise, 165-176). When the connection
  is closed between headers and end, no error is raised on the request.
- Promotion makes the submitted chain the one sent after a leaf. Its last certificate
  has to be the root, and it need not hold the signing CA, while `loadCa` builds
  "signing CA + parents, EXCLUDING the root".
- `verify.ts:117-120` speaks of a self-signed root; the code checks that there is no
  issuer row. In a bundle the parents of a certificate travel without their own
  issuers, so that the step that would chain them up (`repoBridge.ts:425-438`) never
  links anything.
- Rotation screen: `refreshStaged` has no catch, so an error there ends the process
  (`docs/design/remote-and-portability.md:985-987` has it otherwise); promotion
  promotes whatever is staged when it arrives; a rollback that is answered late pops
  whatever is shown. A job's progress can run backwards on screen, since `NoStepBack`
  holds of the lists only, and an error once shown there stays.
- Escape is handled twice on the screens that hold a menu (`README.md:338`,
  `Menu.tsx:32-37`), which pops two screens. Three steps of the transfer screen cannot
  be left by Escape: a target to pick when there is no other context, the target's
  password, and the new name.
- After a wrong current password, `SetPasswordScreen` has closed the session, and the
  screens that follow fail with "No context opened". A password set on a plain context
  whose log a killed command line left behind loses what is in the log.
- The open context may be deleted from the contexts screen. A rejected
  `waitUntilExit` skips the cleanup at the end of `app.tsx`.

### Fairness

- `AcmeOrders!FairSpec`: weak fairness of `HandlerContinues`, because synchronous code
  runs to its end, and of `WorkerStep`: the timer fires every 1.5 s, DNS and HTTP
  validation and `nsupdate` have timeouts, so the worker's awaits settle. Clients,
  administrators, the expiry clock and crashes owe nothing.
- `CaRotation!FairSpec`: weak fairness of each job's `DriverStep`: the tick comes every
  second and starts each running job, and the wait between two items is a timer.
- `DnsPlacement!FairSpec`: weak fairness of `WorkerStep` and of `SweepStep`: the worker's
  timer, and the sweep's loop over its rows. A script provider without a timeout is
  assumed to end. `ZoneCleanAtLast` assumes in its statement that at last a usable
  provider serves each name.
- `AcmeClient!FairSpec`: weak fairness of `ClientStep`, that is, the program goes on and
  the operator answers the hook, and of handling the request the client waits for.
  Nothing makes the worker validate: a run ends even if it never does.
- `RemoteAdmin!FairSpec`: weak fairness of `Land` on each connection. A call whose answer
  does not break off in its body returns or fails: refusals and broken connections are
  reported, and a silent connection is given up after ten seconds. That is a limit on
  silence, not on the whole call, so an answer is assumed not to trickle for ever; the
  hub sends each in one piece. `Land` is not enabled for an answer that broke off. The
  user, the hub, its job, other administrators and the timer of the job screen owe
  nothing.

None is fair to a particular outcome: answers and signatures may fail for ever.

## 4. Proofs

Each proof module strengthens the properties of a run to an inductive invariant, shows
that every action keeps it, and derives the theorems. The invariants were first
checked by TLC as invariants of the runs. The crash bound and every other bound are
arbitrary naturals in the proofs, and sets of rows, orders or passwords arbitrary
sets.

### Orders

`AcmeOrdersProofs` proves, for all values of the constants that satisfy
`ConstantsAssumption`, the safety invariants of `orders` and `idents` from one
inductive invariant, `TypeInv /\ IInv`. `TypeInv` is `TypeOK` with two bounds that it
does not contain: a challenge that is queued or being tried has an attempt left. The
parts of `IInv`, beside the properties themselves:

- `EventLoop`: a handler is between two statements only while the worker waits;
- `WorkerFacts`: what the worker read before an await still holds after it;
- `NewOrderFacts`: the order being created is `pending`, unknown to its client and to
  the worker, and has an authorization for each identifier already handled;
- `IssueFacts`: each program counter goes with the rows that the statements before it
  wrote. A handler about to insert a certificate holds an order that has none; one
  about to attach holds a row of that order and account;
- `FreshRows`: a row never inserted has nothing hanging on it;
- `ToldFacts`: clients know complete orders only, and none of the administrator's;
- `AuthzProven`, `ReadyProven`: an authorization that is `valid` has a challenge that
  is, hence an order that a client can finalize has all its identifiers proven;
- `CertFacts`: a certificate row belongs to an order that has left `pending` and
  `ready` (which is what makes a second finalize impossible, whatever crashed) and to
  the order's account.

`TypeOK`, `OneCertPerOrder`, `IssuedAfterProof`, `ValidOrderHasCert` and `BanIsFinal`
follow from it. `OneCertPerOrder` alone is not inductive: nothing in it says that a
handler about to insert a certificate has an order without one.

The last section of the module uses the same invariant to show that every step maps to a
step of `OrderLifecycle` or a stutter (`Implementation`), and from the status graph
that no dead order is revived (`NoRevival`).

### Rotation and jobs

`CaRotationProofs` uses `TypeOK` and four facts:

- `Anchored`: what is active, staged and previous is said to lead to the configured root,
  and its CA, like whoever signed a row, does so unless it is one of the strays.
  `OneTrustAnchor` needs the staged and previous material in it, since promotion and
  rollback make them active.
- `SignedByActive` itself: only a signature adds to what was signed (`Signers`), with the
  active CA, and nothing replaces the material without starting anew (`Kept`).
- `JobFacts`: a loop drives a running job, or waits without having noticed that it was
  cancelled; what it has left is still pending, and so is the item it has just signed.
- `Counted`: counters lag behind the items by the one that is marked and not counted,
  and by what crashes left uncounted.

From them follow `TypeOK`, `OneTrustAnchor`, `SignedByActive`,
`CountersFollowItems` and the action property `EndedJobsAreQuiet`.

The root of a CA is a recursive function of the hierarchy.
`HierarchyAssumption` says only that issuers form no cycle, as signed certificates
never do: any set of CAs has one that is a root or was signed by a CA outside of the
set. That the function exists and satisfies its equation follows (`Hierarchy`): two
functions that climb from some CAs agree where both are defined (`ClimbsAgree`), a CA is
climbed from if its issuer is (`ClimbsFrom`), and the CAs from which no function climbs
would be a set that the assumption forbids (`ClimbsAll`).

### The client

`AcmeClientProofs` uses `TypeOK`, `IssuedKeyOnDisk` and `NonceNeverFatal` themselves with:
`Untouched` (before its first run the command left no trace), `KeyFacts` (every run and
every request left behind use the account key on disk, which is what makes
`OneAccount` inductive), `PrivateFacts` (a run that has come to finalize, or left such a
request behind, finds its private key or a later one on disk), `NonceFacts` (a second
attempt carries a live nonce) and `CallFacts` (a request is under way only where
`main()` waits for one). It proves `TypeOK`, `NonceNeverFatal`, `OneAccount` and
`IssuedKeyOnDisk` for any number of domains, runs and polls.

The last section connects the client's view of the server with the server's own model.
`ServerAsPromised` shows that the orders of `AcmeClient` keep to `OrderLifecycle`, the
promise that `AcmeOrders` is proved to implement; the three moves of `finalize`, between
which no client can look, appear as one (`Finalized`). `NewOrder` writes a run's order as
if it had none, since in the code each request inserts a row of its own; so the theorem
depends on what clients do, and needs facts that the safety properties do not:

- `LateOrders`: a request for an order that a killed run left behind is the only one of
  that run, which has no order;
- `RunsOrder`: the current run has an order only once it was answered, and later runs
  have none;
- `RowsFit`: authorizations and keys are those the status allows.

`OneOrderPerRun` states the three as an invariant of the specification.

### Contexts

`ContextStoreProofs` proves `TypeOK`, `SavedRowsReadable` and `NoPlaintextBehind` for any
rows, passwords and number of crashes. `SavedRowsReadable` speaks of the moments when no
file is being replaced; its invariant has to follow the rows through the others:

- `Blank`, `SessionFacts`, `TaskFacts`: a context that does not exist has left nothing; a
  session has the password of the metadata; what a task found when it began still
  holds;
- `SavedFacts`, as long as every crash spared the store that the metadata points to:
  that store is faithful (it holds what was saved and nothing that was deleted) unless
  it is the one being written, the working copy is faithful to what will be kept, and
  once the old store is gone the new one is written and faithful. That an encrypted
  context without a store has no plain file either is part of it: without that, a
  password removed before the first row was saved could bring an old plain file back;
- `PlainFacts`: a plain file beside an encrypted store is on its way, out or in.

### DNS placement

`DnsPlacementProofs` proves `TypeOK` and `NoRecordForgotten` for any challenges,
configurations, rows and crashes, from these facts beside the two themselves:

- `AttemptFacts`, `RowFacts`: a challenge that is not decided has an attempt left; rows
  are of challenges that were queued;
- `WorkerFacts`: the worker places for a challenge that has no open row, at the provider
  the configuration picks for it, and cleans up after decided challenges only;
- `InReach`: a record that is not lost is where the present configuration says;
- `CleanerFacts`: what the worker cleans are rows of its challenge. A row on a list is
  open, or its challenge is decided and will not be placed again; when the provider has
  removed the record and the row is not yet closed, nothing of it is left but what is
  lost;
- `Guarded`: what is validated with a record has an open row, or only lost records.

The third clause of `CleanerFacts` is the point: worker and sweep may hold the same row
on their lists, and either may close it under the other; neither closes the row of a
challenge that was placed again in between. `LongestZonePicked` says what the two loops
of `dnsProviders.ts` amount to, of which `MatchRule` is a translation: whenever a rule
matches, one is picked, it matches, no matching rule has a longer zone, and it comes
first among equals.

### Remote hub access

`RemoteAdminProofs` proves `TypeOK`, `SettledListIsCurrent` and `NoStepBack` for any number
of certificates, accounts, candidates, screens, changes and calls under way. The
invariant is one predicate of the screen shown, its state, the hub, the key and the
calls (`ScreenOK`), so that a step is a change of these five values:

- `CallsOK`: a callback that is still heard belongs to the screen shown; no answer is
  newer than the hub;
- `ListOK`, `LoadOK`: one load is heard at a time. It asks for the filter that is set, and
  what it has been answered is no older than what is shown or what was confirmed;
  without a load, the list shows what it says. `NoStepBack` needs the same facts;
- `PageOK`: a screen knows nothing newer than the hub, and the row it confirms is one of
  its list;
- `Budget`: the changes that were asked for stay within the bound on changes, which is
  what keeps `at` in its range.

What makes `LoadOK` inductive is that a new load starts by cancelling the one under way:
its own answer is computed by the hub after that, hence after every change that was
confirmed before. A load that came with the screen, a refresh, a filter and a change
all go through `ReloadFor` or `Orphans`.

The proof corrected the model. An earlier version let the hub's screen ask once, when it
was mounted, and the run allowed one connection at a time. With two connections, two hub
screens on the stack and a disconnection, an answer to the first screen could then fill
the session cache after its key was forgotten. In the code this cannot happen, because the hub
record is read afresh at every drawing (`getHub` in `RemoteHubScreen.tsx`), so that the
effect that asks is cancelled and started again whenever the screen is drawn before it
was told anything. The model now says so (`Redraw`, `ShowFor`, `LandInfo`), and the bound
on connections is gone.

### Terminal

`TerminalProofs` proves `TypeOK`, `HeaderTellsContext`, `CopiesFollowSessions` and the
action property `WrittenAsNamed` for any contexts, rows, screens and crashes. The header
and the session change at different places, and screens below the top were entered
under an earlier session, so the invariant is about the whole stack:

- `Covered`: above a screen that works in a context there are only transfer screens and
  what a hub's answer pushed; nothing up there switches contexts;
- `Given`: where such a screen is on the stack a context is open; where a transfer screen
  is, that context is still on disk, and the context whose password is being set is the
  one in the header;
- `HeaderOK`, `OpenOK`, `CliOK`: the header names the open context; a session agrees with
  the store it opened;
- `CopiesOK`: working copies are those of the two sessions and those left behind.

`HeaderTellsContext` alone is not inductive: leaving a screen uncovers another, and only
`Covered` says that this one's context is still open.

### Certificates

`LocalPkiProofs` proves all six properties of `LocalPki`, for any number of rows, key
pairs, certificates and files. Chains, subtrees and the order of a file are recursive
functions, and a proof about them has to show first that such a function exists (a
`CHOOSE` of one says nothing otherwise) and then what it computes:

- `Solution`: a function exists that satisfies a recursive equation, if each call is for
  an argument of a smaller measure. It is proved by a least counterexample
  (`LeastNatural`, from the well-foundedness of `<`), since the induction theorems of the
  library cannot be instantiated; `ByMeasure` is the same argument for what such
  functions compute;
- `Trails`: following issuers without meeting a row twice ends, at a row without an
  issuer or before one met already. `BuildChain`, `ParentsOf` and `OrderChain` follow
  trails;
- `Closures`: adding what belongs to a set until nothing is missing gives the least
  closed set. `DescendantsOf` is one, and so are the rows above a row in
  `VerifiedMeansSound`;
- `FilesOrdered`: `OrderChain`, whose result `importCertFromFile` takes apart, returns
  exactly the certificates of the file, the leaf first, then the chain above it, in
  which each names the next and none comes twice and which goes on until the file has no
  further issuer or the chain has met it, then the rest; whatever cycles of names and
  repetitions the file contains;
- `ChainIsAll`: if a chain ends at a row without an issuer, its rows are exactly those
  above its start. This is why `verifyCert` may look at the chain alone, cycles of links
  notwithstanding.

The invariant is `TableOK` (links lead to rows, no certificate has two rows, serial
numbers were given out), `KeysOK`, `LinksOK` and `FileOK`. The last is what bundles need:
an item's key and issuer were right in its context when it was exported, and no certificate
is in a bundle twice. None of this can be undone later, so an item stays right although
the rows of its context are renewed, linked anew or deleted. That no certificate has two
rows, which the code gets from the unique fingerprint, is what makes the item of a
row, and the row of an item, unique; `BundleKeepsLinks` rests on it. New rows of a bundle
get different ids by an injection between finite sets (`Names`).

### What is only model-checked

- Liveness under fairness, which is beyond the prover used here: `ChallengeDecided`,
  `PromotedUnlessCrashed`, `JobsEnd`, `ZoneCleanAtLast`, `EveryRunEnds`, `BusyEnds`.
- The three properties that are violated.

Induction over data is done by a least counterexample (`LeastNatural`): for the loops of
`MatchRule`, for the first open row of a challenge, and for the recursive functions of
`LocalPki`. For that of `CaRotation` the absence of cycles takes its place. No
recursive equation is assumed.

## 5. Plan

Done: all modules above; the safety properties of `AcmeOrders`, `CaRotation`,
`DnsPlacement`, `AcmeClient`, `ContextStore`, `LocalPki`, `RemoteAdmin` and `Terminal`
proved, and that orders implement their lifecycle, in the server as in the client's
view of it.

Left:

- Two processes on one context: nothing locks it, and nothing is promised, so that a
  property has to be found first. The same goes for the hub file.

## 6. Not modelled

Signatures, ASN.1, PEM, PKCS#12 and JWS are functions over bytes without state.
Forms, colours, the catalogues of translations (a sixth of the source) and the
clipboard only show or enter what the components hold. Terminal mouse input and
argument parsing are parsers; SSH key generation is an encoding. The revocation list
is computed from the rows at each request. Audit rows are written beside every
operation and read by none. Configuration files are read once at the start; what a
changed one does after a restart is in `DnsPlacement`. `PROJECT.json` lists each part
with its status.
