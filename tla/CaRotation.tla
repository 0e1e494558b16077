------------------------------ MODULE CaRotation ------------------------------
(***************************************************************************)
(* Rotation of the signing CA and the jobs that sign certificates again.   *)
(*                                                                         *)
(* The signing material, a staged candidate and the material a rollback    *)
(* would restore live in memory; certificate rows, jobs and their items    *)
(* live in the database.  A job is driven by its own asynchronous loop,    *)
(* which gives up the event loop only while it waits between two items;    *)
(* between two waits its statements commit one by one, and a crash may     *)
(* fall between any two of them.  Time is left out: material has its 30    *)
(* days left, certificates do not run out, and the rollback window may     *)
(* have elapsed or not.  So are the chains sent after a leaf.              *)
(***************************************************************************)
EXTENDS Naturals, Sequences, FiniteSets

CONSTANTS
    CA,          \* CA certificates, each with its key
    Issuer,      \* Issuer[k]: the CA that signed k, k itself for a root
    Configured,  \* the signing CA that the configuration names
    Chains,      \* the chains that may come with a candidate, leaf's issuer first
    Cert,        \* ids of certificate rows
    Job,         \* ids of reissue jobs
    MaxSerial,   \* bound on the serial numbers given out
    MaxCrashes   \* bound on the crashes of a behaviour

ASSUME RotationAssumption ==
    /\ Issuer \in [CA -> CA]
    /\ Configured \in CA
    /\ Chains \subseteq Seq(CA)
    /\ IsFiniteSet(Cert)
    /\ MaxSerial \in Nat
    /\ MaxCrashes \in Nat

VARIABLES
    active,     \* the material that signs: its CA, and the root it is said to lead to
    staged,     \* candidate, if any
    previous,   \* what rollback restores, if anything
    row,        \* row[c]: row of certificates
    serials,    \* how many serial numbers were given out
    job,        \* job[j]: row of reissue_jobs
    item,       \* item[j][c]: status of the reissue_job_items row of c in j
    driver,     \* driver[j]: the loop that drives j, if any
    cancelled,  \* the worker's in-memory set of cancelled jobs
    crashes,    \* how often the process crashed (bound)
    signed,     \* history: rows signed since the material was last replaced
    strays      \* history: candidates staged with a chain that is not theirs

caVars == <<active, staged, previous>>
jobVars == <<job, item, driver, cancelled>>
vars == <<caVars, row, serials, jobVars, crashes, signed, strays>>

\* There is no cycle of issuers: in any set of CAs one is a root or was signed by a CA
\* that is not in the set.
ASSUME HierarchyAssumption ==
    \A S \in SUBSET CA : S # {} => \E k \in S : Issuer[k] = k \/ Issuer[k] \notin S

RootOf[k \in CA] == IF Issuer[k] = k THEN k ELSE RootOf[Issuer[k]]

Nothing == [ca |-> "none"]

Material == [ca: CA, root: CA]

\* loadCa
Loaded == [ca |-> Configured, root |-> RootOf[Configured]]

NoRow == [serial |-> 0, signer |-> Configured, revoked |-> FALSE]

Row == [serial: 0..MaxSerial, signer: CA, revoked: BOOLEAN]

NoJob == [status |-> "none", done |-> 0, failed |-> 0]

JobRow == [status: {"none", "running", "done", "failed", "cancelled"}, done: Nat, failed: Nat]

NoDriver == [at |-> "none"]

\* left: what remains of the items that were pending when the loop began
Driver == [at: {"loop", "signed", "marked", "refused", "waiting"},
           cert: SUBSET Cert, left: SUBSET Cert]

TypeOK ==
    /\ active \in Material
    /\ {staged, previous} \subseteq Material \cup {Nothing}
    /\ row \in [Cert -> Row]
    /\ serials \in 0..MaxSerial
    /\ job \in [Job -> JobRow]
    /\ item \in [Job -> [Cert -> {"none", "pending", "done", "failed"}]]
    /\ driver \in [Job -> Driver \cup {NoDriver}]
    /\ cancelled \subseteq Job
    /\ crashes \in 0..MaxCrashes
    /\ signed \subseteq Cert
    /\ strays \subseteq CA

Init ==
    /\ active = Loaded
    /\ staged = Nothing
    /\ previous = Nothing
    /\ row = [c \in Cert |-> NoRow]
    /\ serials = 0
    /\ job = [j \in Job |-> NoJob]
    /\ item = [j \in Job |-> [c \in Cert |-> "none"]]
    /\ driver = [j \in Job |-> NoDriver]
    /\ cancelled = {}
    /\ crashes = 0
    /\ signed = {}
    /\ strays = {}

\* No driver is in the middle of its statements.
Free == \A j \in Job : driver[j].at \in {"none", "waiting"}

Issued == {c \in Cert : row[c].serial # 0}

Good == {c \in Issued : ~ row[c].revoked}

Pending(j) == {c \in Cert : item[j][c] = "pending"}

\* What signs is replaced.
Activate(material) == active' = material /\ signed' = {}

----------------------------------------------------------------------------
(* CaStore.                                                                *)

LastInChain(k, chain) == IF chain = <<>> THEN k ELSE chain[Len(chain)]

Remember(k, chain) ==
    /\ staged' = [ca |-> k, root |-> LastInChain(k, chain)]
    /\ strays' = IF LastInChain(k, chain) = RootOf[k] THEN strays ELSE strays \cup {k}

\* Mutant: the root of the candidate is not compared.
StageAnyRoot(k, chain) ==
    /\ Free
    /\ k # active.ca
    /\ Remember(k, chain)
    /\ UNCHANGED <<active, previous, row, serials, jobVars, crashes, signed>>

\* Only the last certificate of what is submitted is compared: nothing verifies that
\* the chain is the candidate's.
Stage(k, chain) ==
    /\ Free
    /\ k # active.ca
    /\ LastInChain(k, chain) = active.root
    /\ Remember(k, chain)
    /\ UNCHANGED <<active, previous, row, serials, jobVars, crashes, signed>>

DiscardStaged ==
    /\ Free
    /\ staged # Nothing
    /\ staged' = Nothing
    /\ UNCHANGED <<active, previous, row, serials, jobVars, crashes, signed, strays>>

\* Mutant: nothing need be staged.
PromoteUnstaged ==
    /\ Free
    /\ previous' = active
    /\ Activate(staged)
    /\ staged' = Nothing
    /\ UNCHANGED <<row, serials, jobVars, crashes, strays>>

Promote ==
    /\ Free
    /\ staged # Nothing
    /\ previous' = active
    /\ Activate(staged)
    /\ staged' = Nothing
    /\ UNCHANGED <<row, serials, jobVars, crashes, strays>>

Rollback ==
    /\ Free
    /\ previous # Nothing
    /\ Activate(previous)
    /\ previous' = Nothing
    /\ UNCHANGED <<staged, row, serials, jobVars, crashes, strays>>

\* The rollback window has elapsed.
RollbackTooLate ==
    /\ Free
    /\ previous # Nothing
    /\ previous' = Nothing
    /\ UNCHANGED <<active, staged, row, serials, jobVars, crashes, signed, strays>>

----------------------------------------------------------------------------
(* Certificates.                                                           *)

\* finalize and the admin's issue: sign, then insert the row.
Issue(c) ==
    /\ Free
    /\ c \notin Issued
    /\ serials < MaxSerial
    /\ serials' = serials + 1
    /\ row' = [row EXCEPT ![c] = [serial |-> serials', signer |-> active.ca, revoked |-> FALSE]]
    /\ signed' = signed \cup {c}
    /\ UNCHANGED <<caVars, jobVars, crashes, strays>>

\* One certificate by its owner or an administrator, or those of a banned account.
Revoke(S) ==
    /\ Free
    /\ S # {}
    /\ S \subseteq Good
    /\ row' = [c \in Cert |-> IF c \in S THEN [row[c] EXCEPT !.revoked = TRUE] ELSE row[c]]
    /\ UNCHANGED <<caVars, serials, jobVars, crashes, signed, strays>>

----------------------------------------------------------------------------
(* ReissueWorker.                                                          *)

\* targets: all good certificates, or those an account or a pattern selects
StartJob(j, targets) ==
    /\ Free
    /\ job[j].status = "none"
    /\ targets \subseteq Good
    /\ job' = [job EXCEPT ![j].status = "running"]
    /\ item' = [item EXCEPT ![j] = [c \in Cert |-> IF c \in targets THEN "pending" ELSE "none"]]
    /\ UNCHANGED <<caVars, row, serials, driver, cancelled, crashes, signed, strays>>

\* Mutant: the row in the database is left 'running'.
CancelInMemory(j) ==
    /\ Free
    /\ job[j].status = "running"
    /\ cancelled' = cancelled \cup {j}
    /\ UNCHANGED <<caVars, row, serials, job, item, driver, crashes, signed, strays>>

Cancel(j) ==
    /\ Free
    /\ job[j].status = "running"
    /\ cancelled' = cancelled \cup {j}
    /\ job' = [job EXCEPT ![j].status = "cancelled"]
    /\ UNCHANGED <<caVars, row, serials, item, driver, crashes, signed, strays>>

\* tick, for a job that nothing drives yet
Drive(j) ==
    /\ Free
    /\ job[j].status = "running"
    /\ driver[j] = NoDriver
    /\ j \notin cancelled
    /\ IF Pending(j) = {}
         THEN /\ job' = [job EXCEPT ![j].status = "done"]
              /\ UNCHANGED driver
         ELSE /\ driver' = [driver EXCEPT ![j] = [at |-> "loop", cert |-> {}, left |-> Pending(j)]]
              /\ UNCHANGED job
    /\ UNCHANGED <<caVars, row, serials, item, cancelled, crashes, signed, strays>>

\* The loop takes up another item, unless the job was cancelled while it waited.
NextItem(j, c) ==
    /\ driver[j].at = "loop" \/ (Free /\ driver[j].at = "waiting" /\ j \notin cancelled)
    /\ c \in driver[j].left

\* Mutant: the worker holds a copy of the material it was started with.
ResignLoaded(j, c) ==
    /\ NextItem(j, c)
    /\ serials < MaxSerial
    /\ serials' = serials + 1
    /\ row' = [row EXCEPT ![c].serial = serials', ![c].signer = Loaded.ca]
    /\ driver' = [driver EXCEPT ![j] = [at |-> "signed", cert |-> {c}, left |-> @.left \ {c}]]
    /\ signed' = signed \cup {c}
    /\ UNCHANGED <<caVars, job, item, cancelled, crashes, strays>>

\* resignOne: replaceCertPem keeps the row's revoked flag.
Resign(j, c) ==
    /\ NextItem(j, c)
    /\ serials < MaxSerial
    /\ serials' = serials + 1
    /\ row' = [row EXCEPT ![c].serial = serials', ![c].signer = active.ca]
    /\ driver' = [driver EXCEPT ![j] = [at |-> "signed", cert |-> {c}, left |-> @.left \ {c}]]
    /\ signed' = signed \cup {c}
    /\ UNCHANGED <<caVars, job, item, cancelled, crashes, strays>>

\* Mutant: the failure is counted but the item stays pending.
ResignFailsUnmarked(j, c) ==
    /\ NextItem(j, c)
    /\ driver' = [driver EXCEPT ![j] = [at |-> "refused", cert |-> {c}, left |-> @.left \ {c}]]
    /\ UNCHANGED <<caVars, row, serials, job, item, cancelled, crashes, signed, strays>>

\* resignOne throws
ResignFails(j, c) ==
    /\ NextItem(j, c)
    /\ item' = [item EXCEPT ![j][c] = "failed"]
    /\ driver' = [driver EXCEPT ![j] = [at |-> "refused", cert |-> {c}, left |-> @.left \ {c}]]
    /\ UNCHANGED <<caVars, row, serials, job, cancelled, crashes, signed, strays>>

MarkItem(j) ==
    /\ driver[j].at = "signed"
    /\ item' = [item EXCEPT ![j] = [c \in Cert |-> IF c \in driver[j].cert THEN "done" ELSE @[c]]]
    /\ driver' = [driver EXCEPT ![j].at = "marked"]
    /\ UNCHANGED <<caVars, row, serials, job, cancelled, crashes, signed, strays>>

Wait(j) == driver' = [driver EXCEPT ![j].at = "waiting", ![j].cert = {}]

CountDone(j) ==
    /\ driver[j].at = "marked"
    /\ job' = [job EXCEPT ![j].done = @ + 1]
    /\ Wait(j)
    /\ UNCHANGED <<caVars, row, serials, item, cancelled, crashes, signed, strays>>

CountFailed(j) ==
    /\ driver[j].at = "refused"
    /\ job' = [job EXCEPT ![j].failed = @ + 1]
    /\ Wait(j)
    /\ UNCHANGED <<caVars, row, serials, item, cancelled, crashes, signed, strays>>

Outcome(j) == IF job[j].failed > 0 /\ job[j].done = 0 THEN "failed" ELSE "done"

\* Mutant: the job is not read again after the last wait.
FinishStale(j) ==
    /\ Free
    /\ driver[j].at = "waiting"
    /\ driver[j].left = {}
    /\ job' = [job EXCEPT ![j].status = Outcome(j)]
    /\ driver' = [driver EXCEPT ![j] = NoDriver]
    /\ UNCHANGED <<caVars, row, serials, item, cancelled, crashes, signed, strays>>

\* After its last item the loop finishes the job, unless it was cancelled meanwhile.
Finish(j) ==
    /\ Free
    /\ driver[j].at = "waiting"
    /\ driver[j].left = {}
    /\ job' = IF job[j].status = "running" THEN [job EXCEPT ![j].status = Outcome(j)] ELSE job
    /\ driver' = [driver EXCEPT ![j] = NoDriver]
    /\ UNCHANGED <<caVars, row, serials, item, cancelled, crashes, signed, strays>>

\* The loop returns before its next item.
StopDriving(j) ==
    /\ Free
    /\ driver[j].at = "waiting"
    /\ driver[j].left # {}
    /\ j \in cancelled
    /\ driver' = [driver EXCEPT ![j] = NoDriver]
    /\ UNCHANGED <<caVars, row, serials, job, item, cancelled, crashes, signed, strays>>

----------------------------------------------------------------------------
\* The process dies and starts again: it loads the configured CA.
Crash ==
    /\ crashes < MaxCrashes
    /\ crashes' = crashes + 1
    /\ Activate(Loaded)
    /\ staged' = Nothing
    /\ previous' = Nothing
    /\ driver' = [j \in Job |-> NoDriver]
    /\ cancelled' = {}
    /\ UNCHANGED <<row, serials, job, item, strays>>

RotationStep ==
    \/ \E k \in CA, chain \in Chains : Stage(k, chain)
    \/ DiscardStaged \/ Promote \/ Rollback \/ RollbackTooLate

CertStep ==
    \/ \E c \in Cert : Issue(c)
    \/ \E S \in SUBSET Cert : Revoke(S)

DriverStep(j) ==
    \/ Drive(j)
    \/ \E c \in Cert : Resign(j, c) \/ ResignFails(j, c)
    \/ MarkItem(j) \/ CountDone(j) \/ CountFailed(j)
    \/ Finish(j) \/ StopDriving(j)

JobStep ==
    \/ \E j \in Job, targets \in SUBSET Cert : StartJob(j, targets)
    \/ \E j \in Job : Cancel(j) \/ DriverStep(j)

Next == RotationStep \/ CertStep \/ JobStep \/ Crash

Spec == Init /\ [][Next]_vars

\* The tick comes every second for every running job, and a loop's wait ends.
FairSpec == Spec /\ \A j \in Job : WF_vars(DriverStep(j))

----------------------------------------------------------------------------
(* Safety.                                                                 *)

\* Whatever is staged, promoted, rolled back or lost in a restart, the root that the
\* server says it chains to stays that of its configuration, and no CA of another root
\* signs, unless it was staged with a chain that is not its own.
OneTrustAnchor ==
    /\ active.root = RootOf[Configured]
    /\ active.ca \notin strays => RootOf[active.ca] = RootOf[Configured]
    /\ \A c \in Issued : row[c].signer \notin strays =>
                           RootOf[row[c].signer] = RootOf[Configured]

\* A rotation is seen by the very next signature: whatever was signed since the last
\* promotion, rollback or restart, in a handler or by the loop of a job that began long
\* before, was signed by the CA that is active now.
SignedByActive == \A c \in signed : row[c].signer = active.ca

Decided(j, status) == Cardinality({c \in Cert : item[j][c] = status})

\* A job's counters never run ahead of its items, and without a crash they agree
\* with them whenever its loop waits: no item is counted twice, by the same loop or
\* by the one that takes over after a restart.
CountersFollowItems ==
    \A j \in Job :
        /\ job[j].done <= Decided(j, "done")
        /\ job[j].failed <= Decided(j, "failed")
        /\ crashes = 0 /\ driver[j].at \in {"none", "waiting"} =>
              /\ job[j].done = Decided(j, "done")
              /\ job[j].failed = Decided(j, "failed")

\* A job that is done, failed or cancelled stays so and signs nothing more, though
\* its loop may be waiting when it is cancelled and the set of cancelled jobs is
\* lost in a restart.
EndedJobsAreQuiet ==
    [][\A j \in Job : job[j].status \in {"done", "failed", "cancelled"} =>
            job'[j] = job[j] /\ item'[j] = item[j]]_vars

----------------------------------------------------------------------------
(* Liveness.                                                               *)

\* A job ends, across a restart in the middle of it.
JobsEnd == \A j \in Job : job[j].status = "running" ~> job[j].status # "running"

=============================================================================
