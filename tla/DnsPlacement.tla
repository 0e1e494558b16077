----------------------------- MODULE DnsPlacement -----------------------------
(***************************************************************************)
(* Server-managed dns-01: the challenge worker publishes the TXT record of *)
(* a challenge, keeps a row in dns_placements while it is published, and   *)
(* removes it when the challenge is decided.  At startup a sweep removes   *)
(* what rows of an earlier process say, beside the first ticks.  A record  *)
(* is identified by its challenge: its value is the hash of a token.       *)
(***************************************************************************)
EXTENDS Naturals, Sequences, FiniteSets, SequencesExt

CONSTANTS
    Chall,        \* dns-01 challenges of server-managed orders
    NameOf,       \* NameOf[c]: labels of the identifier, from the top level down
    Provider,     \* zones that providers write to
    Config,       \* values of dnsProviders that a start of the server may find
    None,         \* no provider
    MaxAttempts,  \* RETRY_DELAYS_MS.length
    MaxRows,      \* bound on placement rows
    MaxCrashes    \* bound on crashes

\* A configuration is a sequence of rules, <<>> one without dnsProviders.  The zone <<>>
\* is `*`; `*.z` matches what z matches.  A rule is unusable when its provider cannot be
\* built (no key file).
Rule == [zones: SUBSET UNION {{SubSeq(NameOf[c], 1, n) : n \in 0..Len(NameOf[c])} : c \in Chall},
         provider: Provider, usable: BOOLEAN]

ASSUME PlacementAssumption ==
    /\ NameOf \in [Chall -> Seq(STRING)]
    /\ Config \subseteq Seq(Rule)
    /\ None \notin Provider
    /\ MaxAttempts \in Nat \ {0}
    /\ MaxRows \in Nat /\ MaxCrashes \in Nat

VARIABLES
    status,   \* challenges: a server-managed one is queued as it is inserted
    attempts,
    rows,     \* dns_placements, in the order of placed_at
    zone,     \* external: the challenges whose record a provider's zone holds
    rules,    \* dnsProviders of this process
    worker,   \* where runOne is
    cleaner,  \* rows that cleanupPlacementsFor and the startup sweep still have to remove
    crashes,
    lost      \* history: records left because a provider failed or was exchanged

vars == <<status, attempts, rows, zone, rules, worker, cleaner, crashes, lost>>

Actor == {"worker", "sweep"}

Idle == [at |-> "idle"]

Worker == [at: {"placing", "propagating"}, chall: Chall, provider: Provider]
          \cup [at: {"validating", "cleaning"}, chall: Chall]

\* Rows are taken in the order of placed_at.
Cleaner == [todo: SUBSET (1..MaxRows), applied: BOOLEAN]

Rest == [todo |-> {}, applied |-> FALSE]

TypeOK ==
    /\ status \in [Chall -> {"none", "processing", "valid", "invalid"}]
    /\ attempts \in [Chall -> 0..MaxAttempts]
    /\ rows \in Seq([chall: Chall, open: BOOLEAN]) /\ Len(rows) <= MaxRows
    /\ zone \in [Provider -> SUBSET Chall]
    /\ rules \in Config
    /\ worker \in {Idle} \cup Worker
    /\ cleaner \in [Actor -> Cleaner]
    /\ \A a \in Actor : cleaner[a].todo \subseteq DOMAIN rows
    /\ crashes \in 0..MaxCrashes
    /\ lost \subseteq Provider \X Chall

Init ==
    /\ status = [c \in Chall |-> "none"]
    /\ attempts = [c \in Chall |-> 0]
    /\ rows = <<>>
    /\ zone = [p \in Provider |-> {}]
    /\ rules \in Config
    /\ worker = Idle
    /\ cleaner = [a \in Actor |-> Rest]
    /\ crashes = 0
    /\ lost = {}

----------------------------------------------------------------------------
(* DnsProviderRegistry: the longest matching zone wins, the first rule of  *)
(* those that tie.                                                         *)

Specificities(name, rule) == {Len(z) : z \in {z \in rule.zones : IsPrefix(z, name)}}

Better(name, i, j) ==
    \E m \in Specificities(name, rules[i]) :
        \A n \in Specificities(name, rules[j]) : m > n \/ (m = n /\ i < j)

HasProviderFor(c) == \E i \in DOMAIN rules : Specificities(NameOf[c], rules[i]) # {}

MatchRule(c) ==
    rules[CHOOSE i \in DOMAIN rules :
            /\ Specificities(NameOf[c], rules[i]) # {}
            /\ \A j \in DOMAIN rules \ {i} : Better(NameOf[c], i, j)]

PickFor(c) == IF HasProviderFor(c) THEN MatchRule(c).provider ELSE None

\* There is a DnsProviderRegistry.
Registry == rules # <<>>

\* pickFor throws.
Throws(c) == HasProviderFor(c) /\ ~ MatchRule(c).usable

OpenRows(c) == {i \in DOMAIN rows : rows[i].chall = c /\ rows[i].open}

Published(c) == \E p \in Provider : c \in zone[p]

----------------------------------------------------------------------------
(* The process.                                                            *)

\* new-order refuses identifiers without a provider.
QueueServerManaged(c) ==
    /\ status[c] = "none"
    /\ HasProviderFor(c)
    /\ status' = [status EXCEPT ![c] = "processing"]
    /\ UNCHANGED <<attempts, rows, zone, rules, worker, cleaner, crashes, lost>>

\* Rows and zones stay; the configuration may be another one, and a record whose
\* provider is exchanged is out of reach.  The sweep lists the open rows at once.
Restart ==
    /\ worker' = Idle
    /\ rules' \in Config
    /\ cleaner' = [cleaner EXCEPT
          !["worker"] = Rest,
          !["sweep"] = [Rest EXCEPT !.todo =
              IF Registry' THEN {i \in DOMAIN rows : rows[i].open} ELSE {}]]
    /\ lost' = lost \cup {pc \in Provider \X Chall :
                             pc[2] \in zone[pc[1]] /\ PickFor(pc[2])' # pc[1]}
    /\ UNCHANGED <<status, attempts, rows, zone>>

Crash ==
    /\ crashes < MaxCrashes
    /\ crashes' = crashes + 1
    /\ Restart

\* An exception that runOne does not catch rejects the promise of tick(), which
\* nothing handles: Node ends the process.
Dies == Restart /\ UNCHANGED crashes

----------------------------------------------------------------------------
(* runOne.                                                                 *)

\* A challenge decided here, before any await.
MarkInvalid(c) ==
    /\ status' = [status EXCEPT ![c] = "invalid"]
    /\ attempts' = [attempts EXCEPT ![c] = MaxAttempts]

StartChallenge(c) ==
    /\ worker = Idle
    /\ status[c] = "processing"
    /\ \/ /\ OpenRows(c) # {} \/ ~ Registry
          /\ worker' = [at |-> "validating", chall |-> c]
          /\ UNCHANGED <<status, attempts>>
       \/ /\ OpenRows(c) = {} /\ Registry /\ PickFor(c) = None
          /\ MarkInvalid(c)
          /\ UNCHANGED worker
       \/ /\ OpenRows(c) = {} /\ PickFor(c) # None /\ ~ Throws(c)
          /\ worker' = [at |-> "placing", chall |-> c, provider |-> PickFor(c)]
          /\ UNCHANGED <<status, attempts>>
    /\ UNCHANGED <<rows, zone, rules, cleaner, crashes, lost>>

StartChallengeThrows(c) ==
    /\ worker = Idle
    /\ status[c] = "processing"
    /\ OpenRows(c) = {} /\ Throws(c)
    /\ Dies

\* The provider's update; place() then waits for its propagation.
PlaceApplied ==
    /\ worker.at = "placing"
    /\ zone' = [zone EXCEPT ![worker.provider] = @ \cup {worker.chall}]
    /\ worker' = [worker EXCEPT !.at = "propagating"]
    /\ UNCHANGED <<status, attempts, rows, rules, cleaner, crashes, lost>>

PlaceReturns ==
    /\ worker.at = "propagating"
    /\ Len(rows) < MaxRows
    /\ rows' = Append(rows, [chall |-> worker.chall, open |-> TRUE])
    /\ worker' = [at |-> "validating", chall |-> worker.chall]
    /\ UNCHANGED <<status, attempts, zone, rules, cleaner, crashes, lost>>

\* The provider reports an error, before or after its update took effect.
PlaceFails ==
    /\ worker.at \in {"placing", "propagating"}
    /\ MarkInvalid(worker.chall)
    /\ lost' = lost \cup {pc \in Provider \X {worker.chall} : pc[2] \in zone[pc[1]]}
    /\ worker' = Idle
    /\ UNCHANGED <<rows, zone, rules, cleaner, crashes>>

Clean(c) ==
    /\ worker' = [at |-> "cleaning", chall |-> c]
    /\ cleaner' = [cleaner EXCEPT !["worker"].todo = IF Registry THEN OpenRows(c) ELSE {}]

AnswerValid ==
    /\ worker.at = "validating"
    /\ Published(worker.chall)
    /\ status' = [status EXCEPT ![worker.chall] = "valid"]
    /\ attempts' = [attempts EXCEPT ![worker.chall] = @ + 1]
    /\ Clean(worker.chall)
    /\ UNCHANGED <<rows, zone, rules, crashes, lost>>

\* Mutant: one more attempt than there are delays.
AnswerRetryOnceMore ==
    /\ worker.at = "validating"
    /\ attempts[worker.chall] < MaxAttempts
    /\ attempts' = [attempts EXCEPT ![worker.chall] = @ + 1]
    /\ worker' = Idle
    /\ UNCHANGED <<status, rows, zone, rules, cleaner, crashes, lost>>

\* A lookup may fail although the record is there.
AnswerRetry ==
    /\ worker.at = "validating"
    /\ attempts[worker.chall] + 1 < MaxAttempts
    /\ attempts' = [attempts EXCEPT ![worker.chall] = @ + 1]
    /\ worker' = Idle
    /\ UNCHANGED <<status, rows, zone, rules, cleaner, crashes, lost>>

\* Mutant: the last failure ends without a cleanup.
AnswerInvalidUncleaned ==
    /\ worker.at = "validating"
    /\ attempts[worker.chall] + 1 >= MaxAttempts
    /\ MarkInvalid(worker.chall)
    /\ worker' = Idle
    /\ UNCHANGED <<rows, zone, rules, cleaner, crashes, lost>>

AnswerInvalid ==
    /\ worker.at = "validating"
    /\ attempts[worker.chall] + 1 >= MaxAttempts
    /\ MarkInvalid(worker.chall)
    /\ Clean(worker.chall)
    /\ UNCHANGED <<rows, zone, rules, crashes, lost>>

Cleaned ==
    /\ worker.at = "cleaning"
    /\ cleaner["worker"].todo = {}
    /\ worker' = Idle
    /\ UNCHANGED <<status, attempts, rows, zone, rules, cleaner, crashes, lost>>

----------------------------------------------------------------------------
(* cleanupPlacementsFor and sweepStalePlacementsOnStartup: the same loop.  *)

Cleans(a) == cleaner[a].todo # {}

RowOf(a) == Min(cleaner[a].todo)

Target(a) == rows[RowOf(a)].chall

NextRow(a) == cleaner' = [cleaner EXCEPT ![a] = [todo |-> @.todo \ {RowOf(a)}, applied |-> FALSE]]

MarkCleaned(a) == rows' = [rows EXCEPT ![RowOf(a)].open = FALSE]

SkipRow(a) ==
    /\ Cleans(a)
    /\ PickFor(Target(a)) = None
    /\ NextRow(a)
    /\ UNCHANGED <<status, attempts, rows, zone, rules, worker, crashes, lost>>

\* Mutant: the row is closed before the provider was asked.
CleanupMarkedFirst(a) ==
    /\ Cleans(a)
    /\ ~ cleaner[a].applied
    /\ PickFor(Target(a)) # None /\ ~ Throws(Target(a))
    /\ MarkCleaned(a)
    /\ cleaner' = [cleaner EXCEPT ![a].applied = TRUE]
    /\ UNCHANGED <<status, attempts, zone, rules, worker, crashes, lost>>

CleanupApplied(a) ==
    /\ Cleans(a)
    /\ ~ cleaner[a].applied
    /\ PickFor(Target(a)) # None /\ ~ Throws(Target(a))
    /\ zone' = [zone EXCEPT ![PickFor(Target(a))] = @ \ {Target(a)}]
    /\ cleaner' = [cleaner EXCEPT ![a].applied = TRUE]
    /\ UNCHANGED <<status, attempts, rows, rules, worker, crashes, lost>>

CleanupReturns(a) ==
    /\ Cleans(a)
    /\ cleaner[a].applied
    /\ MarkCleaned(a)
    /\ NextRow(a)
    /\ UNCHANGED <<status, attempts, zone, rules, worker, crashes, lost>>

\* The error is swallowed and the row closed.
CleanupFails(a) ==
    /\ Cleans(a)
    /\ ~ cleaner[a].applied
    /\ PickFor(Target(a)) # None /\ ~ Throws(Target(a))
    /\ MarkCleaned(a)
    /\ NextRow(a)
    /\ lost' = lost \cup {pc \in Provider \X {Target(a)} : pc[2] \in zone[pc[1]]}
    /\ UNCHANGED <<status, attempts, zone, rules, worker, crashes>>

SweepThrows ==
    /\ Cleans("sweep")
    /\ Throws(Target("sweep"))
    /\ cleaner' = [cleaner EXCEPT !["sweep"] = Rest]
    /\ UNCHANGED <<status, attempts, rows, zone, rules, worker, crashes, lost>>

CleanupThrows ==
    /\ Cleans("worker")
    /\ Throws(Target("worker"))
    /\ Dies

CleanerStep(a) ==
    SkipRow(a) \/ CleanupApplied(a) \/ CleanupReturns(a) \/ CleanupFails(a)

WorkerStep ==
    \/ \E c \in Chall : StartChallenge(c) \/ StartChallengeThrows(c)
    \/ PlaceApplied \/ PlaceReturns \/ PlaceFails
    \/ AnswerValid \/ AnswerRetry \/ AnswerInvalid \/ Cleaned
    \/ CleanerStep("worker") \/ CleanupThrows

SweepStep == CleanerStep("sweep") \/ SweepThrows

Next ==
    \/ \E c \in Chall : QueueServerManaged(c)
    \/ WorkerStep \/ SweepStep \/ Crash

Spec == Init /\ [][Next]_vars

\* nsupdate and DNS lookups end, and a script is assumed to.
FairSpec == Spec /\ WF_vars(WorkerStep) /\ WF_vars(SweepStep)

----------------------------------------------------------------------------
(* Properties.                                                             *)

\* A record in a zone is always somebody's to remove, whatever crashes and sweeps
\* did: its row is open, or its challenge is still to be tried, which publishes it
\* again and so gets it a row.  Only a provider that failed, or was replaced in the
\* configuration, leaves a record behind.
NoRecordForgotten ==
    \A p \in Provider : \A c \in zone[p] :
        OpenRows(c) # {} \/ status[c] = "processing" \/ <<p, c>> \in lost

\* Once the configuration stays usable, the record of every decided challenge is
\* removed at last, by the worker or by the sweep after a crash.
ZoneCleanAtLast ==
    <>[](\A c \in Chall : HasProviderFor(c) /\ ~ Throws(c))
    => \A c \in Chall : status[c] \in {"valid", "invalid"}
          ~> \A p \in Provider : c \notin zone[p] \/ <<p, c>> \in lost

=============================================================================
