--------------------------- MODULE CaRotationProofs ---------------------------
(***************************************************************************)
(* Proofs about CaRotation: its type invariant, the three safety           *)
(* invariants of its run and that ended jobs are quiet, for any hierarchy  *)
(* of CAs and any number of certificates, jobs and crashes.                *)
(***************************************************************************)
EXTENDS CaRotation, FiniteSetTheorems, TLAPS

(***************************************************************************)
(* The inductive invariant.                                                *)
(***************************************************************************)

\* Material that is said to lead to the configured root, as its CA does unless it is
\* one of the strays.
Rooted(m) ==
    /\ m.root = RootOf[Configured]
    /\ m.ca \notin strays => RootOf[m.ca] = RootOf[Configured]

MaterialRooted ==
    /\ Rooted(active)
    /\ staged # Nothing => Rooted(staged)
    /\ previous # Nothing => Rooted(previous)

SignersRooted ==
    \A c \in Issued : row[c].signer \notin strays => RootOf[row[c].signer] = RootOf[Configured]

Anchored == MaterialRooted /\ SignersRooted

\* A job that was never created has no items, no loop and nobody to cancel it.
FreshJob(j) ==
    job[j].status = "none" =>
        /\ job[j].done = 0 /\ job[j].failed = 0 /\ driver[j] = NoDriver
        /\ \A c \in Cert : item[j][c] = "none"

\* A loop drives a running job, or has yet to notice that it was cancelled.
LoopFact(j) ==
    /\ j \in cancelled => job[j].status = "cancelled"
    /\ driver[j] # NoDriver =>
          \/ job[j].status = "running"
          \/ job[j].status = "cancelled" /\ j \in cancelled /\ driver[j].at = "waiting"

\* What a loop has left is still pending, and so is the item that it has signed.
ItemFact(j) ==
    driver[j] # NoDriver =>
        /\ \A c \in driver[j].left : item[j][c] = "pending"
        /\ driver[j].at = "signed" =>
              \E c \in Cert : /\ driver[j].cert = {c} /\ c \notin driver[j].left
                              /\ item[j][c] = "pending"

JobFacts == \A j \in Job : FreshJob(j) /\ LoopFact(j) /\ ItemFact(j)

Plus(at, j) == IF driver[j].at = at THEN 1 ELSE 0

\* The counters lag by the item that is marked and not yet counted, and by what
\* crashes left uncounted.
CountFact(j) ==
    /\ job[j].done + Plus("marked", j) <= Decided(j, "done")
    /\ job[j].failed + Plus("refused", j) <= Decided(j, "failed")
    /\ crashes = 0 => /\ job[j].done + Plus("marked", j) = Decided(j, "done")
                      /\ job[j].failed + Plus("refused", j) = Decided(j, "failed")

Counted == \A j \in Job : CountFact(j)

IInv == Anchored /\ SignedByActive /\ JobFacts /\ Counted

----------------------------------------------------------------------------
(* The hierarchy.                                                          *)

\* What g says of the CAs in T, which are closed under issuers: b of a root, and s of
\* the CA and of what g says of its issuer otherwise.
Climbs(g, T, V, b, s) ==
    /\ T \in SUBSET CA /\ \A k \in T : Issuer[k] \in T
    /\ g \in [T -> V]
    /\ \A k \in T : g[k] = IF Issuer[k] = k THEN b[k] ELSE s[<<k, g[Issuer[k]]>>]

\* Two of them never disagree: the highest CA on which they did would have an issuer on
\* which they agree.
LEMMA ClimbsAgree ==
  ASSUME NEW V, NEW b, NEW s, NEW T, NEW g, Climbs(g, T, V, b, s),
         NEW U, NEW h, Climbs(h, U, V, b, s), NEW k \in T \cap U
  PROVE  g[k] = h[k]
<1> DEFINE D == {c \in T \cap U : g[c] # h[c]}
<1>1. SUFFICES ASSUME D # {} PROVE FALSE
  OBVIOUS
<1>2. D \in SUBSET CA
  BY DEF Climbs
<1>3. PICK c \in D : Issuer[c] = c \/ Issuer[c] \notin D
  BY <1>1, <1>2, HierarchyAssumption
<1>4. Issuer[c] \in T \cap U
  BY <1>3 DEF Climbs
<1>5. CASE Issuer[c] = c
  <2>1. g[c] = b[c] /\ h[c] = b[c]
    BY <1>3, <1>5 DEF Climbs
  <2> QED  BY <1>3, <2>1
<1>6. CASE Issuer[c] # c
  <2>1. g[Issuer[c]] = h[Issuer[c]]
    BY <1>3, <1>4, <1>6
  <2>2. g[c] = s[<<c, g[Issuer[c]]>>] /\ h[c] = s[<<c, h[Issuer[c]]>>]
    BY <1>3, <1>6 DEF Climbs
  <2> QED  BY <1>3, <2>1, <2>2
<1> QED  BY <1>5, <1>6

\* Every CA is covered by one.
LEMMA ClimbsFrom ==
  ASSUME NEW V, NEW b \in [CA -> V], NEW s \in [CA \X V -> V], NEW k \in CA
  PROVE  \E T, g : k \in T /\ Climbs(g, T, V, b, s)
<1> DEFINE P(c) == \E T, g : c \in T /\ Climbs(g, T, V, b, s)
           S == {c \in CA : ~ P(c)}
<1>1. SUFFICES ASSUME S # {} PROVE FALSE
  OBVIOUS
<1>2. PICK c \in S : Issuer[c] = c \/ Issuer[c] \notin S
  BY <1>1, HierarchyAssumption
<1>3. c \in CA /\ Issuer[c] \in CA
  BY RotationAssumption
<1>4. CASE Issuer[c] = c
  <2> DEFINE g == [x \in {c} |-> b[x]]
  <2>1. Climbs(g, {c}, V, b, s)
    BY <1>3, <1>4 DEF Climbs
  <2> QED  BY <2>1
<1>5. CASE Issuer[c] # c
  <2>1. P(Issuer[c])
    BY <1>2, <1>3, <1>5
  <2>2. PICK T, g : Issuer[c] \in T /\ Climbs(g, T, V, b, s)
    BY <2>1
  <2>3. c \notin T
    BY <2>2
  <2> DEFINE h == [x \in T \cup {c} |-> IF x = c THEN s[<<c, g[Issuer[c]]>>] ELSE g[x]]
  <2>4. /\ T \in SUBSET CA /\ \A x \in T : Issuer[x] \in T
        /\ g \in [T -> V] /\ g[Issuer[c]] \in V
        /\ \A x \in T : g[x] = IF Issuer[x] = x THEN b[x] ELSE s[<<x, g[Issuer[x]]>>]
    BY <2>2 DEF Climbs
  <2>5. s[<<c, g[Issuer[c]]>>] \in V
    BY <1>3, <2>4
  <2>6. h \in [T \cup {c} -> V]
    BY <2>4, <2>5
  <2>7. h[c] = s[<<c, h[Issuer[c]]>>]
    BY <1>5, <2>2
  <2>8. ASSUME NEW x \in T
        PROVE  h[x] = IF Issuer[x] = x THEN b[x] ELSE s[<<x, h[Issuer[x]]>>]
    <3>1. h[x] = g[x] /\ h[Issuer[x]] = g[Issuer[x]]
      BY <2>3, <2>4
    <3> QED  BY <2>4, <3>1
  <2> HIDE DEF h
  <2>9. Climbs(h, T \cup {c}, V, b, s)
    BY <1>3, <1>5, <2>2, <2>4, <2>6, <2>7, <2>8 DEF Climbs
  <2> QED  BY <2>9
<1> QED  BY <1>4, <1>5

\* Together they cover all CAs.
LEMMA ClimbsAll ==
  ASSUME NEW V, NEW b \in [CA -> V], NEW s \in [CA \X V -> V]
  PROVE  \E f : Climbs(f, CA, V, b, s)
<1> DEFINE Says(k, v) == \E T, g : k \in T /\ Climbs(g, T, V, b, s) /\ v = g[k]
           f == [k \in CA |-> CHOOSE v : Says(k, v)]
<1>1. ASSUME NEW k \in CA, NEW T, NEW g, k \in T, Climbs(g, T, V, b, s)
      PROVE  f[k] = g[k]
  <2>1. Says(k, f[k])
    <3>1. Says(k, g[k])
      BY <1>1
    <3> HIDE DEF Says
    <3> QED  BY <3>1
  <2>2. PICK U, h : k \in U /\ Climbs(h, U, V, b, s) /\ f[k] = h[k]
    BY <2>1
  <2> HIDE DEF f
  <2> QED  BY <1>1, <2>2, ClimbsAgree
<1> HIDE DEF f
<1>2. ASSUME NEW k \in CA
      PROVE  /\ f[k] \in V
             /\ f[k] = IF Issuer[k] = k THEN b[k] ELSE s[<<k, f[Issuer[k]]>>]
  <2>1. PICK T, g : k \in T /\ Climbs(g, T, V, b, s)
    BY ClimbsFrom
  <2>2. /\ Issuer[k] \in T /\ Issuer[k] \in CA /\ g[k] \in V
        /\ g[k] = IF Issuer[k] = k THEN b[k] ELSE s[<<k, g[Issuer[k]]>>]
    BY <2>1 DEF Climbs
  <2>3. f[k] = g[k] /\ f[Issuer[k]] = g[Issuer[k]]
    BY <1>1, <2>1, <2>2
  <2> QED  BY <2>2, <2>3
<1>3. f = [k \in CA |-> f[k]]
  BY DEF f
<1>4. f \in [CA -> V]
  BY <1>2, <1>3
<1> QED  BY <1>2, <1>4, RotationAssumption DEF Climbs

\* So the root of a CA is what its equation says.
LEMMA Hierarchy ==
    \A k \in CA :
        /\ RootOf[k] \in CA /\ Issuer[RootOf[k]] = RootOf[k]
        /\ RootOf[k] = IF Issuer[k] = k THEN k ELSE RootOf[Issuer[k]]
<1>1. /\ RootOf \in [CA -> CA]
      /\ \A k \in CA : RootOf[k] = IF Issuer[k] = k THEN k ELSE RootOf[Issuer[k]]
  <2> DEFINE Body(f, k) == IF Issuer[k] = k THEN k ELSE f[Issuer[k]]
             b == [k \in CA |-> k]
             s == [x \in CA \X CA |-> x[2]]
  <2>1. b \in [CA -> CA] /\ s \in [CA \X CA -> CA]
    OBVIOUS
  <2>2. ASSUME NEW f, Climbs(f, CA, CA, b, s)
        PROVE  f \in [CA -> CA] /\ \A k \in CA : f[k] = Body(f, k)
    <3>1. /\ f \in [CA -> CA] /\ \A k \in CA : Issuer[k] \in CA
          /\ \A k \in CA : f[k] = IF Issuer[k] = k THEN b[k] ELSE s[<<k, f[Issuer[k]]>>]
      BY <2>2 DEF Climbs
    <3> QED  BY <3>1
  <2>3. ASSUME NEW f, f = [k \in CA |-> Body(f, k)]
        PROVE  f \in [CA -> CA]
    <3> DEFINE Out == {k \in CA : f[k] \notin CA}
    <3>1. SUFFICES ASSUME Out # {} PROVE FALSE
      BY <2>3
    <3>2. PICK k \in Out : Issuer[k] = k \/ Issuer[k] \notin Out
      BY <3>1, HierarchyAssumption
    <3>3. f[k] = Body(f, k)
      BY <2>3, <3>2
    <3> QED  BY <3>2, <3>3, RotationAssumption
  <2>4. PICK f : f = [k \in CA |-> Body(f, k)]
    <3>1. PICK f : Climbs(f, CA, CA, b, s)
      <4> HIDE DEF b, s
      <4> QED  BY <2>1, ClimbsAll
    <3>2. f = [k \in CA |-> f[k]] /\ \A k \in CA : f[k] = Body(f, k)
      BY <2>2, <3>1
    <3> HIDE DEF Body
    <3> QED  BY <3>2
  <2>5. RootOf = [k \in CA |-> Body(RootOf, k)]
    BY <2>4 DEF RootOf
  <2> QED  BY <2>3, <2>5
<1>2. ASSUME NEW k \in CA PROVE Issuer[RootOf[k]] = RootOf[k]
  <2> DEFINE Out == {c \in CA : Issuer[RootOf[c]] # RootOf[c]}
  <2>1. SUFFICES ASSUME Out # {} PROVE FALSE
    OBVIOUS
  <2>2. PICK c \in Out : Issuer[c] = c \/ Issuer[c] \notin Out
    BY <2>1, HierarchyAssumption
  <2> QED  BY <1>1, <2>2, RotationAssumption
<1> QED  BY <1>1, <1>2

\* What the configuration names is material of its hierarchy.
LEMMA LoadedRooted ==
    /\ Loaded \in Material /\ Loaded.ca = Configured
    /\ Loaded.root = RootOf[Configured] /\ RootOf[Loaded.ca] = RootOf[Configured]
  BY RotationAssumption, Hierarchy DEF Loaded, Material

\* A chain ends in a CA, whoever submits it.
LEMMA ChainEnd ==
  ASSUME NEW k \in CA, NEW chain \in Chains
  PROVE  LastInChain(k, chain) \in CA
<1>1. chain \in Seq(CA)
  BY RotationAssumption
<1>2. CASE chain = <<>>
  BY <1>2 DEF LastInChain
<1>3. CASE chain # <<>>
  <2>1. Len(chain) \in 1..Len(chain)
    BY <1>1, <1>3
  <2>2. chain[Len(chain)] \in CA
    BY <1>1, <2>1
  <2> QED  BY <1>3, <2>2 DEF LastInChain
<1> QED  BY <1>2, <1>3

----------------------------------------------------------------------------
(* Types.                                                                  *)

\* A driver that is somewhere is a loop of the worker, and so is its row.
LEMMA DriverRow ==
  ASSUME TypeOK, NEW j \in Job, driver[j] # NoDriver
  PROVE  driver[j] \in Driver
  BY DEF TypeOK

LEMMA DriverAt ==
  ASSUME TypeOK, NEW j \in Job, driver[j].at # "none"
  PROVE  driver[j] # NoDriver /\ driver[j] \in Driver
  BY DEF TypeOK, NoDriver

\* Counters are natural numbers and count up.
LEMMA JobCounters ==
  ASSUME TypeOK, NEW j \in Job
  PROVE  /\ job[j] \in JobRow /\ job[j].done \in Nat /\ job[j].failed \in Nat
         /\ [job[j] EXCEPT !.done = @ + 1] \in JobRow
         /\ [job[j] EXCEPT !.failed = @ + 1] \in JobRow
<1>1. job[j] \in JobRow /\ job[j].done \in Nat /\ job[j].failed \in Nat
  BY DEF TypeOK, JobRow
<1> QED  BY <1>1 DEF JobRow

\* Updates of rows, of jobs and of drivers keep their types.
LEMMA TypeInit == Init => TypeOK
  BY LoadedRooted, RotationAssumption
  DEF Init, TypeOK, NoRow, Row, NoJob, JobRow, NoDriver, Nothing

LEMMA TypeRotation ==
  ASSUME TypeOK, RotationStep PROVE TypeOK'
<1>1. ASSUME NEW k \in CA, NEW chain \in Chains, Stage(k, chain) PROVE TypeOK'
  <2>1. staged' \in Material /\ strays' \subseteq CA
    BY <1>1, ChainEnd DEF Stage, Remember, Material, TypeOK
  <2> QED  BY <1>1, <2>1 DEF Stage, TypeOK, jobVars
<1>2. ASSUME DiscardStaged PROVE TypeOK'
  BY <1>2 DEF DiscardStaged, TypeOK, jobVars
<1>3. ASSUME Promote PROVE TypeOK'
  <2>1. staged \in Material /\ staged.ca \in CA
    BY <1>3 DEF TypeOK, Promote, Material
  <2> QED  BY <1>3, <2>1 DEF Promote, Activate, TypeOK, jobVars
<1>4. ASSUME Rollback PROVE TypeOK'
  <2>1. previous \in Material /\ previous.ca \in CA
    BY <1>4 DEF TypeOK, Rollback, Material
  <2> QED  BY <1>4, <2>1 DEF Rollback, Activate, TypeOK, jobVars
<1>5. ASSUME RollbackTooLate PROVE TypeOK'
  BY <1>5 DEF RollbackTooLate, TypeOK, jobVars
<1> QED  BY <1>1, <1>2, <1>3, <1>4, <1>5 DEF RotationStep

LEMMA TypeCert ==
  ASSUME TypeOK, CertStep PROVE TypeOK'
<1>1. ASSUME NEW c \in Cert, Issue(c) PROVE TypeOK'
  <2>1. active.ca \in CA
    BY DEF TypeOK, Material
  <2>2. serials' \in 0..MaxSerial
    BY <1>1, RotationAssumption DEF Issue, TypeOK
  <2>3. row' \in [Cert -> Row]
    BY <1>1, <2>1, <2>2 DEF Issue, TypeOK, Row
  <2> QED  BY <1>1, <2>2, <2>3 DEF Issue, TypeOK, caVars, jobVars
<1>2. ASSUME NEW S \in SUBSET Cert, Revoke(S) PROVE TypeOK'
  <2>1. row' \in [Cert -> Row]
    BY <1>2 DEF Revoke, TypeOK, Row
  <2> QED  BY <1>2, <2>1 DEF Revoke, TypeOK, caVars, jobVars
<1> QED  BY <1>1, <1>2 DEF CertStep

LEMMA TypeDriver ==
  ASSUME TypeOK, NEW j \in Job, DriverStep(j) PROVE TypeOK'
<1>1. ASSUME Drive(j) PROVE TypeOK'
  <2>1. job' \in [Job -> JobRow]
    <3>1. [job[j] EXCEPT !.status = "done"] \in JobRow
      BY JobCounters DEF JobRow
    <3> QED  BY <1>1, <3>1 DEF Drive, TypeOK
  <2>2. [at |-> "loop", cert |-> {}, left |-> Pending(j)] \in Driver
    BY DEF Driver, Pending
  <2>3. driver' \in [Job -> Driver \cup {NoDriver}]
    BY <1>1, <2>2 DEF Drive, TypeOK
  <2> QED  BY <1>1, <2>1, <2>3 DEF Drive, TypeOK, caVars
<1>2. ASSUME NEW c \in Cert, NextItem(j, c)
      PROVE  driver[j] \in Driver /\ driver[j].left \subseteq Cert /\ c \in driver[j].left
  BY <1>2, DriverAt DEF NextItem, Driver
<1>3. ASSUME NEW c \in Cert, Resign(j, c) PROVE TypeOK'
  <2>1. active.ca \in CA /\ serials' \in 0..MaxSerial
    BY <1>3, RotationAssumption DEF Resign, TypeOK, Material
  <2>2. row' \in [Cert -> Row]
    <3>1. row[c] \in Row /\ c \in Cert /\ row \in [Cert -> Row]
      BY <1>2 DEF TypeOK
    <3>2. [row[c] EXCEPT !.serial = serials', !.signer = active.ca] \in Row
      BY <2>1, <3>1 DEF Row
    <3>3. row' = [row EXCEPT ![c] = [row[c] EXCEPT !.serial = serials', !.signer = active.ca]]
      BY <1>3, <3>1 DEF Resign
    <3> QED BY <3>1, <3>2, <3>3
  <2>3. [at |-> "signed", cert |-> {c}, left |-> driver[j].left \ {c}] \in Driver
    BY <1>2, <1>3 DEF Driver, Resign
  <2>4. driver' \in [Job -> Driver \cup {NoDriver}]
    BY <1>3, <2>3 DEF Resign, TypeOK
  <2> QED  BY <1>3, <2>1, <2>2, <2>4 DEF Resign, TypeOK, caVars
<1>4. ASSUME NEW c \in Cert, ResignFails(j, c) PROVE TypeOK'
  <2>1. item' \in [Job -> [Cert -> {"none", "pending", "done", "failed"}]]
    BY <1>4 DEF ResignFails, TypeOK
  <2>2. [at |-> "refused", cert |-> {c}, left |-> driver[j].left \ {c}] \in Driver
    BY <1>2, <1>4 DEF Driver, ResignFails
  <2>3. driver' \in [Job -> Driver \cup {NoDriver}]
    BY <1>4, <2>2 DEF ResignFails, TypeOK
  <2> QED  BY <1>4, <2>1, <2>3 DEF ResignFails, TypeOK, caVars
<1>5. ASSUME MarkItem(j) PROVE TypeOK'
  <2>1. driver[j] \in Driver
    BY <1>5, DriverAt DEF MarkItem
  <2>2. [driver[j] EXCEPT !.at = "marked"] \in Driver
    BY <2>1 DEF Driver
  <2>3. driver' \in [Job -> Driver \cup {NoDriver}]
    BY <1>5, <2>2 DEF MarkItem, TypeOK
  <2>4. item' \in [Job -> [Cert -> {"none", "pending", "done", "failed"}]]
    BY <1>5 DEF MarkItem, TypeOK
  <2> QED  BY <1>5, <2>3, <2>4 DEF MarkItem, TypeOK, caVars
<1>6. ASSUME driver[j].at \in {"marked", "refused"}, Wait(j)
      PROVE  driver' \in [Job -> Driver \cup {NoDriver}]
  <2>1. driver[j] \in Driver
    BY <1>6, DriverAt
  <2>2. [driver[j] EXCEPT !.at = "waiting", !.cert = {}] \in Driver
    BY <2>1 DEF Driver
  <2> QED  BY <1>6, <2>2 DEF Wait, TypeOK
<1>7. ASSUME CountDone(j) PROVE TypeOK'
  <2>1. [job[j] EXCEPT !.done = @ + 1] \in JobRow
    BY JobCounters
  <2>2. job' \in [Job -> JobRow]
    BY <1>7, <2>1 DEF CountDone, TypeOK
  <2> QED  BY <1>6, <1>7, <2>2 DEF CountDone, TypeOK, caVars
<1>8. ASSUME CountFailed(j) PROVE TypeOK'
  <2>1. [job[j] EXCEPT !.failed = @ + 1] \in JobRow
    BY JobCounters
  <2>2. job' \in [Job -> JobRow]
    BY <1>8, <2>1 DEF CountFailed, TypeOK
  <2> QED  BY <1>6, <1>8, <2>2 DEF CountFailed, TypeOK, caVars
<1>9. ASSUME Finish(j) PROVE TypeOK'
  <2>1. job' \in [Job -> JobRow]
    BY <1>9 DEF Finish, Outcome, TypeOK, JobRow
  <2>2. driver' \in [Job -> Driver \cup {NoDriver}]
    BY <1>9 DEF Finish, TypeOK
  <2> QED  BY <1>9, <2>1, <2>2 DEF Finish, TypeOK, caVars
<1>10. ASSUME StopDriving(j) PROVE TypeOK'
  BY <1>10 DEF StopDriving, TypeOK, caVars
<1> QED  BY <1>1, <1>3, <1>4, <1>5, <1>7, <1>8, <1>9, <1>10 DEF DriverStep

LEMMA TypeJob ==
  ASSUME TypeOK, JobStep PROVE TypeOK'
<1>1. ASSUME NEW j \in Job, NEW targets \in SUBSET Cert, StartJob(j, targets) PROVE TypeOK'
  <2>1. job' \in [Job -> JobRow] /\ item' \in [Job -> [Cert -> {"none", "pending", "done", "failed"}]]
    BY <1>1 DEF StartJob, TypeOK, JobRow
  <2> QED  BY <1>1, <2>1 DEF StartJob, TypeOK, caVars
<1>2. ASSUME NEW j \in Job, Cancel(j) PROVE TypeOK'
  <2>1. job' \in [Job -> JobRow]
    BY <1>2 DEF Cancel, TypeOK, JobRow
  <2> QED  BY <1>2, <2>1 DEF Cancel, TypeOK, caVars
<1> QED  BY <1>1, <1>2, TypeDriver DEF JobStep

LEMMA TypeCrash ==
  ASSUME TypeOK, Crash PROVE TypeOK'
<1>1. crashes' \in 0..MaxCrashes
  BY RotationAssumption DEF Crash, TypeOK
<1> QED  BY <1>1, LoadedRooted DEF Crash, Activate, TypeOK

LEMMA TypeStep == TypeOK /\ [Next]_vars => TypeOK'
<1> SUFFICES ASSUME TypeOK, [Next]_vars PROVE TypeOK'
  OBVIOUS
<1>1. CASE UNCHANGED vars
  BY <1>1 DEF vars, caVars, jobVars, TypeOK
<1> QED  BY <1>1, TypeRotation, TypeCert, TypeJob, TypeCrash DEF Next

\* Every reachable state of CA rotation and of its jobs is well typed; above all,
\* what is active is always material that can sign.
THEOREM TypeCorrect == Spec => []TypeOK
  BY TypeInit, TypeStep, PTL DEF Spec

----------------------------------------------------------------------------
(* Who signs.                                                              *)

\* Whatever a step writes to a certificate's row, its signer stays or becomes the
\* active CA, a row that is new has the active one, and so has one whose signing is
\* remembered.
Signs(c) ==
    /\ row'[c].signer \in {row[c].signer, active.ca}
    /\ c \in Issued' => c \in Issued \/ row'[c].signer = active.ca
    /\ c \in signed' => c \in signed \/ row'[c].signer = active.ca

LEMMA Signers ==
  ASSUME TypeOK, Next, NEW c \in Cert
  PROVE  Signs(c)
<1>1. ASSUME row' = row, signed' \subseteq signed PROVE Signs(c)
  BY <1>1 DEF Signs, Issued
<1>2. ASSUME NEW d \in Cert, Issue(d) PROVE Signs(c)
  <2>1. CASE c = d
    BY <1>2, <2>1 DEF Issue, TypeOK, Signs
  <2>2. CASE c # d
    BY <1>2, <2>2 DEF Issue, TypeOK, Signs, Issued
  <2> QED  BY <2>1, <2>2
<1>3. ASSUME NEW S \in SUBSET Cert, Revoke(S) PROVE Signs(c)
  <2>1. row[c] \in Row
    BY DEF TypeOK
  <2>2. row'[c].signer = row[c].signer /\ row'[c].serial = row[c].serial
    BY <1>3, <2>1 DEF Revoke, Row
  <2> QED  BY <1>3, <2>2 DEF Revoke, Signs, Issued
<1>4. ASSUME NEW j \in Job, NEW d \in Cert, Resign(j, d) PROVE Signs(c)
  <2>1. row[c] \in Row
    BY DEF TypeOK
  <2>2. CASE c = d
    <3>1. row'[c].signer = active.ca
      BY <1>4, <2>1, <2>2 DEF Resign, TypeOK, Row
    <3> QED  BY <3>1 DEF Signs
  <2>3. CASE c # d
    BY <1>4, <2>3 DEF Resign, TypeOK, Signs, Issued
  <2> QED  BY <2>2, <2>3
<1>5. CASE CertStep
  BY <1>2, <1>3, <1>5 DEF CertStep
<1>6. ASSUME NEW j \in Job, DriverStep(j) PROVE Signs(c)
  <2>1. CASE \E d \in Cert : Resign(j, d)
    BY <1>4, <2>1
  <2>2. CASE \E d \in Cert : ResignFails(j, d)
    BY <1>1, <2>2 DEF ResignFails
  <2> QED  BY <1>1, <1>6, <2>1, <2>2
           DEF DriverStep, Drive, MarkItem, CountDone, CountFailed, Finish, StopDriving
<1>7. CASE JobStep
  BY <1>1, <1>6, <1>7 DEF JobStep, StartJob, Cancel
<1>8. CASE RotationStep
  BY <1>1, <1>8
  DEF RotationStep, Stage, DiscardStaged, Promote, Rollback, RollbackTooLate, Activate
<1>9. CASE Crash
  BY <1>1, <1>9 DEF Crash, Activate
<1> QED  BY <1>5, <1>7, <1>8, <1>9 DEF Next

\* Only rotation and a restart touch the material and the strays.
LEMMA Untouched ==
  ASSUME CertStep \/ JobStep
  PROVE  UNCHANGED <<caVars, strays>>
<1>1. ASSUME NEW j \in Job, DriverStep(j) PROVE UNCHANGED <<caVars, strays>>
  BY <1>1 DEF DriverStep, Drive, Resign, ResignFails, MarkItem, CountDone, CountFailed, Finish,
              StopDriving
<1> QED  BY <1>1 DEF CertStep, Issue, Revoke, JobStep, StartJob, Cancel

\* What replaces the active material empties what was signed since.
LEMMA Kept ==
  ASSUME Next
  PROVE  active' = active \/ signed' = {}
<1>1. CASE CertStep \/ JobStep
  BY <1>1, Untouched DEF caVars
<1>2. CASE RotationStep
  BY <1>2 DEF RotationStep, Stage, DiscardStaged, Promote, Rollback, RollbackTooLate, Activate
<1> QED  BY <1>1, <1>2 DEF Next, Crash, Activate

LEMMA SignedStep ==
  ASSUME TypeOK, SignedByActive, Next PROVE SignedByActive'
<1> SUFFICES ASSUME NEW c \in signed' PROVE row'[c].signer = active'.ca
  BY DEF SignedByActive
<1>1. active' = active /\ c \in Cert
  BY Kept, TypeStep DEF TypeOK
<1>2. Signs(c)
  BY <1>1, Signers
<1>3. CASE c \in signed
  BY <1>1, <1>2, <1>3 DEF Signs, SignedByActive
<1> QED  BY <1>1, <1>2, <1>3 DEF Signs

\* A stray stays one.
LEMMA StraysStay ==
  ASSUME Next PROVE strays \subseteq strays'
<1>1. CASE RotationStep
  BY <1>1 DEF RotationStep, Stage, Remember, DiscardStaged, Promote, Rollback, RollbackTooLate
<1> QED  BY <1>1, Untouched DEF Next, Crash

\* Candidates are compared with the active root before they are staged, by what they
\* are submitted with.
LEMMA AnchoredStep ==
  ASSUME TypeOK, Anchored, Next PROVE Anchored'
<1>1. ASSUME NEW c \in Issued', row'[c].signer \notin strays'
      PROVE  RootOf[row'[c].signer] = RootOf[Configured]
  <2>1. c \in Cert /\ Signs(c)
    BY <1>1, Signers DEF Issued
  <2>2. row'[c].signer \notin strays
    BY <1>1, StraysStay
  <2>3. CASE row'[c].signer = active.ca
    BY <2>2, <2>3 DEF Anchored, MaterialRooted, Rooted
  <2>4. CASE row'[c].signer = row[c].signer /\ c \in Issued
    BY <2>2, <2>4 DEF Anchored, SignersRooted
  <2> QED  BY <1>1, <2>1, <2>3, <2>4 DEF Signs
<1>2. MaterialRooted
  BY DEF Anchored
<1>3. ASSUME NEW k \in CA, NEW chain \in Chains, Stage(k, chain) PROVE MaterialRooted'
  <2>1. Rooted(active)' /\ (previous # Nothing => Rooted(previous))'
    BY <1>2, <1>3, StraysStay DEF Stage, MaterialRooted, Rooted
  <2>2. staged' = [ca |-> k, root |-> RootOf[Configured]]
    BY <1>2, <1>3 DEF Stage, Remember, MaterialRooted, Rooted
  <2>3. k \notin strays' => RootOf[k] = RootOf[Configured]
    BY <1>2, <1>3 DEF Stage, Remember, MaterialRooted, Rooted
  <2> QED  BY <2>1, <2>2, <2>3 DEF MaterialRooted, Rooted
<1>4. ASSUME DiscardStaged \/ Promote \/ Rollback \/ RollbackTooLate PROVE MaterialRooted'
  BY <1>2, <1>4
  DEF DiscardStaged, Promote, Rollback, RollbackTooLate, Activate, MaterialRooted, Rooted
<1>5. ASSUME Crash PROVE MaterialRooted'
  BY <1>5, LoadedRooted DEF Crash, Activate, MaterialRooted, Rooted
<1>6. ASSUME CertStep \/ JobStep PROVE MaterialRooted'
  BY <1>2, <1>6, Untouched DEF caVars, MaterialRooted, Rooted
<1>7. MaterialRooted'
  BY <1>3, <1>4, <1>5, <1>6 DEF Next, RotationStep
<1> QED  BY <1>1, <1>7 DEF Anchored, SignersRooted

----------------------------------------------------------------------------
(* What a step does to a job.                                              *)

\* A step starts the job, cancels it, lets its loop go on or kills the loop;
\* whatever else happens leaves the job alone.
LEMMA JobMoves ==
  ASSUME TypeOK, Next, NEW i \in Job
  PROVE  \/ /\ job'[i] = job[i] /\ item'[i] = item[i] /\ driver'[i] = driver[i]
            /\ i \in cancelled' <=> i \in cancelled
         \/ \E targets \in SUBSET Cert : StartJob(i, targets)
         \/ Cancel(i)
         \/ DriverStep(i)
         \/ Crash
<1> DEFINE Alone == /\ job'[i] = job[i] /\ item'[i] = item[i] /\ driver'[i] = driver[i]
                    /\ i \in cancelled' <=> i \in cancelled
<1>1. CASE RotationStep \/ CertStep
  <2>1. UNCHANGED jobVars
    BY <1>1 DEF RotationStep, CertStep, Stage, DiscardStaged, Promote, Rollback,
                RollbackTooLate, Issue, Revoke
  <2> QED  BY <2>1 DEF jobVars
<1>2. ASSUME NEW j \in Job, j # i, NEW targets \in SUBSET Cert, StartJob(j, targets) PROVE Alone
  BY <1>2 DEF StartJob, TypeOK
<1>3. ASSUME NEW j \in Job, j # i, Cancel(j) PROVE Alone
  BY <1>3 DEF Cancel, TypeOK
<1>4. ASSUME NEW j \in Job, j # i, DriverStep(j) PROVE Alone
  <2>1. CASE Drive(j)
    BY <1>4, <2>1 DEF Drive, TypeOK
  <2>2. ASSUME NEW c \in Cert, Resign(j, c) PROVE Alone
    BY <1>4, <2>2 DEF Resign, TypeOK
  <2>3. ASSUME NEW c \in Cert, ResignFails(j, c) PROVE Alone
    BY <1>4, <2>3 DEF ResignFails, TypeOK
  <2>4. CASE MarkItem(j)
    BY <1>4, <2>4 DEF MarkItem, TypeOK
  <2>5. CASE CountDone(j) \/ CountFailed(j)
    BY <1>4, <2>5 DEF CountDone, CountFailed, Wait, TypeOK
  <2>6. CASE Finish(j) \/ StopDriving(j)
    BY <1>4, <2>6 DEF Finish, StopDriving, TypeOK
  <2> QED  BY <1>4, <2>1, <2>2, <2>3, <2>4, <2>5, <2>6 DEF DriverStep
<1>5. CASE JobStep
  BY <1>2, <1>3, <1>4, <1>5 DEF JobStep
<1> QED  BY <1>1, <1>5 DEF Next

\* A loop that takes up an item drives a running job, and the item is pending.
LEMMA LoopRuns ==
  ASSUME TypeOK, JobFacts, NEW j \in Job,
         driver[j].at \in {"loop", "signed", "marked", "refused"} \/
         (driver[j].at = "waiting" /\ j \notin cancelled)
  PROVE  driver[j] # NoDriver /\ driver[j] \in Driver /\ job[j].status = "running"
<1>1. driver[j] # NoDriver /\ driver[j] \in Driver
  BY DriverAt
<1> QED  BY <1>1 DEF JobFacts, LoopFact

LEMMA ItemPending ==
  ASSUME TypeOK, JobFacts, NEW j \in Job, NEW c \in Cert, NextItem(j, c)
  PROVE  /\ driver[j] # NoDriver /\ driver[j] \in Driver /\ job[j].status = "running"
         /\ c \in driver[j].left /\ item[j][c] = "pending"
  BY LoopRuns DEF NextItem, JobFacts, ItemFact

\* Loops and items stay in step with their jobs.
LEMMA JobFactsDrive ==
  ASSUME TypeOK, JobFacts, NEW i \in Job, DriverStep(i)
  PROVE  FreshJob(i)' /\ LoopFact(i)' /\ ItemFact(i)'
<1> USE DEF TypeOK
<1>1. CASE Drive(i)
  <2>1. job[i] \in JobRow
    BY JobCounters
  <2>2. job'[i].status # "none" /\ i \notin cancelled' /\ item' = item
    BY <1>1, <2>1 DEF Drive, JobRow
  <2>3. \/ driver'[i] = NoDriver
        \/ /\ driver'[i] = [at |-> "loop", cert |-> {}, left |-> Pending(i)]
           /\ job'[i].status = "running"
    BY <1>1 DEF Drive
  <2> QED  BY <2>2, <2>3 DEF FreshJob, LoopFact, ItemFact, Pending
<1>2. ASSUME NEW c \in Cert, Resign(i, c) PROVE FreshJob(i)' /\ LoopFact(i)' /\ ItemFact(i)'
  <2>1. NextItem(i, c)
    BY <1>2 DEF Resign
  <2>2. job' = job /\ item' = item /\ cancelled' = cancelled
    BY <1>2 DEF Resign
  <2>3. driver'[i] = [at |-> "signed", cert |-> {c}, left |-> driver[i].left \ {c}]
    BY <1>2 DEF Resign
  <2> QED  BY <2>1, <2>2, <2>3, ItemPending DEF JobFacts, FreshJob, LoopFact, ItemFact
<1>3. ASSUME NEW c \in Cert, ResignFails(i, c) PROVE FreshJob(i)' /\ LoopFact(i)' /\ ItemFact(i)'
  <2>1. NextItem(i, c)
    BY <1>3 DEF ResignFails
  <2>2. job' = job /\ cancelled' = cancelled
    BY <1>3 DEF ResignFails
  <2>3. driver'[i] = [at |-> "refused", cert |-> {c}, left |-> driver[i].left \ {c}]
    BY <1>3 DEF ResignFails
  <2>4. \A d \in Cert \ {c} : item'[i][d] = item[i][d]
    BY <1>3 DEF ResignFails
  <2>5. driver[i].left \subseteq Cert
    BY <2>1, ItemPending DEF Driver
  <2> QED  BY <2>1, <2>2, <2>3, <2>4, <2>5, ItemPending DEF JobFacts, FreshJob, LoopFact, ItemFact
<1>4. CASE MarkItem(i)
  <2>1. driver[i] # NoDriver /\ driver[i] \in Driver /\ job[i].status = "running"
    BY <1>4, LoopRuns DEF MarkItem
  <2>2. job' = job /\ cancelled' = cancelled
    BY <1>4 DEF MarkItem
  <2>3. driver'[i] = [driver[i] EXCEPT !.at = "marked"]
    BY <1>4 DEF MarkItem
  <2>4. driver'[i].at = "marked" /\ driver'[i].left = driver[i].left
    BY <2>1, <2>3 DEF Driver
  <2>5. \A d \in Cert \ driver[i].cert : item'[i][d] = item[i][d]
    BY <1>4 DEF MarkItem
  <2>6. driver[i].left \subseteq Cert \ driver[i].cert
    BY <1>4, <2>1 DEF MarkItem, JobFacts, ItemFact, Driver
  <2> QED  BY <2>1, <2>2, <2>4, <2>5, <2>6 DEF JobFacts, FreshJob, LoopFact, ItemFact
<1>5. CASE CountDone(i) \/ CountFailed(i)
  <2>1. driver[i] # NoDriver /\ driver[i] \in Driver /\ job[i].status = "running"
    BY <1>5, LoopRuns DEF CountDone, CountFailed
  <2>2. item' = item /\ cancelled' = cancelled
    BY <1>5 DEF CountDone, CountFailed
  <2>3. driver'[i] = [driver[i] EXCEPT !.at = "waiting", !.cert = {}]
    BY <1>5 DEF CountDone, CountFailed, Wait
  <2>4. driver'[i].at = "waiting" /\ driver'[i].left = driver[i].left
    BY <2>1, <2>3 DEF Driver
  <2>5. job[i] \in JobRow
    BY JobCounters
  <2>6. job'[i].status = "running"
    BY <1>5, <2>1, <2>5 DEF CountDone, CountFailed, JobRow
  <2> QED  BY <2>1, <2>2, <2>4, <2>6 DEF JobFacts, FreshJob, LoopFact, ItemFact
<1>6. CASE Finish(i) \/ StopDriving(i)
  <2>1. driver[i] # NoDriver /\ driver'[i] = NoDriver /\ item' = item /\ cancelled' = cancelled
    BY <1>6, DriverAt DEF Finish, StopDriving
  <2>2. job[i].status \in {"running", "cancelled"}
    BY <2>1 DEF JobFacts, LoopFact
  <2>3. /\ job'[i].status # "none"
        /\ job[i].status = "cancelled" => job'[i] = job[i]
    BY <1>6, <2>2, JobCounters DEF Finish, StopDriving, Outcome, JobRow
  <2> QED  BY <2>1, <2>2, <2>3 DEF JobFacts, FreshJob, LoopFact, ItemFact
<1> QED  BY <1>1, <1>2, <1>3, <1>4, <1>5, <1>6 DEF DriverStep

LEMMA JobFactsStep ==
  ASSUME TypeOK, JobFacts, Next
  PROVE  JobFacts'
<1> SUFFICES ASSUME NEW i \in Job PROVE FreshJob(i)' /\ LoopFact(i)' /\ ItemFact(i)'
  BY DEF JobFacts
<1>1. FreshJob(i) /\ LoopFact(i) /\ ItemFact(i)
  BY DEF JobFacts
<1>2. CASE /\ job'[i] = job[i] /\ item'[i] = item[i] /\ driver'[i] = driver[i]
           /\ i \in cancelled' <=> i \in cancelled
  BY <1>1, <1>2 DEF FreshJob, LoopFact, ItemFact
<1>3. ASSUME NEW targets \in SUBSET Cert, StartJob(i, targets)
      PROVE  FreshJob(i)' /\ LoopFact(i)' /\ ItemFact(i)'
  <2>1. driver'[i] = NoDriver /\ i \notin cancelled' /\ job'[i].status = "running"
    BY <1>1, <1>3 DEF StartJob, FreshJob, LoopFact, TypeOK, JobRow
  <2> QED  BY <2>1 DEF FreshJob, LoopFact, ItemFact
<1>4. ASSUME Cancel(i) PROVE FreshJob(i)' /\ LoopFact(i)' /\ ItemFact(i)'
  <2>1. /\ driver' = driver /\ item' = item /\ i \in cancelled' /\ job'[i].status = "cancelled"
        /\ driver[i].at \in {"none", "waiting"}
    BY <1>4 DEF Cancel, TypeOK, JobRow, Free
  <2>2. driver[i] # NoDriver => driver[i].at = "waiting"
    BY <2>1, DriverRow DEF Driver
  <2> QED  BY <1>1, <2>1, <2>2 DEF FreshJob, LoopFact, ItemFact
<1>5. ASSUME Crash PROVE FreshJob(i)' /\ LoopFact(i)' /\ ItemFact(i)'
  BY <1>1, <1>5 DEF Crash, FreshJob, LoopFact, ItemFact
<1> QED  BY <1>2, <1>3, <1>4, <1>5, JobMoves, JobFactsDrive

----------------------------------------------------------------------------
(* Counters.                                                               *)

LEMMA DecidedCounts ==
  ASSUME NEW j \in Job, NEW status
  PROVE  Decided(j, status) \in Nat /\ IsFiniteSet({c \in Cert : item[j][c] = status})
  BY RotationAssumption, FS_Subset, FS_CardinalityType DEF Decided

\* One pending item more that is decided is one more in the count, and none in the
\* other count.
LEMMA OneMoreDecided ==
  ASSUME NEW j \in Job, NEW c \in Cert, NEW status \in {"done", "failed"},
         item[j][c] = "pending", item'[j][c] = status,
         \A d \in Cert \ {c} : item'[j][d] = item[j][d]
  PROVE  /\ Decided(j, status)' = Decided(j, status) + 1
         /\ \A other \in {"done", "failed"} \ {status} :
                Decided(j, other)' = Decided(j, other)
<1> DEFINE S == {d \in Cert : item[j][d] = status}
<1>1. {d \in Cert : item'[j][d] = status} = S \cup {c} /\ c \notin S
  OBVIOUS
<1>2. Cardinality(S \cup {c}) = Cardinality(S) + 1
  <2>1. IsFiniteSet(S) /\ c \notin S
    BY <1>1, DecidedCounts
  <2> HIDE DEF S
  <2> QED  BY <2>1, FS_AddElement
<1>3. ASSUME NEW other \in {"done", "failed"} \ {status}
      PROVE  {d \in Cert : item'[j][d] = other} = {d \in Cert : item[j][d] = other}
  BY <1>3
<1> QED  BY <1>1, <1>2, <1>3 DEF Decided

\* The loop keeps a job's counters in step with its items.
LEMMA CountedDrive ==
  ASSUME TypeOK, JobFacts, NEW i \in Job, CountFact(i), DriverStep(i)
  PROVE  CountFact(i)'
<1>0. /\ job[i] \in JobRow /\ job[i].done \in Nat /\ job[i].failed \in Nat
      /\ Decided(i, "done") \in Nat /\ Decided(i, "failed") \in Nat
  BY JobCounters, DecidedCounts
<1>1. ASSUME item' = item PROVE \A s \in {"done", "failed"} : Decided(i, s)' = Decided(i, s)
  BY <1>1 DEF Decided
<1>2. crashes' = crashes
  BY DEF DriverStep, Drive, Resign, ResignFails, MarkItem, CountDone, CountFailed, Finish,
         StopDriving
<1>3. CASE Drive(i) \/ Finish(i) \/ StopDriving(i)
  <2>1. job'[i].done = job[i].done /\ job'[i].failed = job[i].failed /\ item' = item
    BY <1>0, <1>3 DEF Drive, Finish, StopDriving, TypeOK, JobRow
  <2>2. driver[i].at \notin {"marked", "refused"} /\ driver'[i].at \notin {"marked", "refused"}
    BY <1>3 DEF Drive, Finish, StopDriving, Free, NoDriver, TypeOK
  <2> QED  BY <1>1, <1>2, <2>1, <2>2 DEF CountFact, Plus
<1>4. ASSUME NEW c \in Cert, Resign(i, c) PROVE CountFact(i)'
  <2>1. job' = job /\ item' = item /\ driver[i].at \in {"loop", "waiting"}
    BY <1>4 DEF Resign, NextItem
  <2>2. driver'[i].at = "signed"
    BY <1>4 DEF Resign, TypeOK
  <2> QED  BY <1>1, <1>2, <2>1, <2>2 DEF CountFact, Plus
<1>5. ASSUME NEW c \in Cert, ResignFails(i, c) PROVE CountFact(i)'
  <2>1. NextItem(i, c) /\ job' = job /\ driver'[i].at = "refused"
    BY <1>5 DEF ResignFails, TypeOK
  <2>2. item[i][c] = "pending" /\ driver[i].at \in {"loop", "waiting"}
    BY <2>1, ItemPending DEF NextItem
  <2>3. item'[i][c] = "failed" /\ \A d \in Cert \ {c} : item'[i][d] = item[i][d]
    BY <1>5 DEF ResignFails, TypeOK
  <2>4. Decided(i, "failed")' = Decided(i, "failed") + 1 /\ Decided(i, "done")' = Decided(i, "done")
    BY <2>2, <2>3, OneMoreDecided
  <2> QED  BY <1>0, <1>2, <2>1, <2>2, <2>4 DEF CountFact, Plus
<1>6. CASE MarkItem(i)
  <2>1. driver[i] # NoDriver /\ driver[i] \in Driver /\ driver[i].at = "signed"
    BY <1>6, LoopRuns DEF MarkItem
  <2>2. PICK c \in Cert : driver[i].cert = {c} /\ item[i][c] = "pending"
    BY <2>1 DEF JobFacts, ItemFact
  <2>3. item'[i][c] = "done" /\ \A d \in Cert \ {c} : item'[i][d] = item[i][d]
    BY <1>6, <2>2 DEF MarkItem, TypeOK
  <2>4. Decided(i, "done")' = Decided(i, "done") + 1 /\ Decided(i, "failed")' = Decided(i, "failed")
    BY <2>2, <2>3, OneMoreDecided
  <2>5. job' = job /\ driver'[i].at = "marked"
    BY <1>6, <2>1 DEF MarkItem, TypeOK, Driver
  <2> QED  BY <1>0, <1>2, <2>1, <2>4, <2>5 DEF CountFact, Plus
<1>7. CASE CountDone(i) \/ CountFailed(i)
  <2>1. driver[i] \in Driver
    BY <1>7, DriverAt DEF CountDone, CountFailed
  <2>2. item' = item /\ driver'[i].at = "waiting"
    BY <1>7, <2>1 DEF CountDone, CountFailed, Wait, TypeOK, Driver
  <2>3. \/ /\ driver[i].at = "marked"
           /\ job'[i].done = job[i].done + 1 /\ job'[i].failed = job[i].failed
        \/ /\ driver[i].at = "refused"
           /\ job'[i].failed = job[i].failed + 1 /\ job'[i].done = job[i].done
    BY <1>0, <1>7 DEF CountDone, CountFailed, TypeOK, JobRow
  <2> QED  BY <1>0, <1>1, <1>2, <2>2, <2>3 DEF CountFact, Plus
<1> QED  BY <1>3, <1>4, <1>5, <1>6, <1>7 DEF DriverStep

LEMMA CountedStep ==
  ASSUME TypeOK, JobFacts, Counted, Next
  PROVE  Counted'
<1> SUFFICES ASSUME NEW i \in Job PROVE CountFact(i)'
  BY DEF Counted
<1>0. /\ CountFact(i)
      /\ job[i] \in JobRow /\ job[i].done \in Nat /\ job[i].failed \in Nat
      /\ Decided(i, "done") \in Nat /\ Decided(i, "failed") \in Nat
  BY JobCounters, DecidedCounts DEF Counted
<1>1. ASSUME item'[i] = item[i]
      PROVE  \A s \in {"done", "failed"} : Decided(i, s)' = Decided(i, s)
  BY <1>1 DEF Decided
<1>2. crashes' = crashes \/ Crash
  BY DEF Next, RotationStep, Stage, DiscardStaged, Promote, Rollback, RollbackTooLate, CertStep,
         Issue, Revoke, JobStep, StartJob, Cancel, DriverStep, Drive, Resign, ResignFails,
         MarkItem, CountDone, CountFailed, Finish, StopDriving
<1>3. ASSUME Crash PROVE CountFact(i)'
  <2>1. job' = job /\ item' = item /\ driver'[i].at = "none" /\ crashes' # 0
    BY <1>3 DEF Crash, NoDriver, TypeOK
  <2> QED  BY <1>0, <1>1, <2>1 DEF CountFact, Plus
<1>4. CASE job'[i] = job[i] /\ item'[i] = item[i] /\ driver'[i] = driver[i]
  BY <1>0, <1>1, <1>2, <1>3, <1>4 DEF CountFact, Plus
<1>5. ASSUME NEW targets \in SUBSET Cert, StartJob(i, targets) PROVE CountFact(i)'
  <2>1. driver[i] = NoDriver /\ job[i].done = 0 /\ job[i].failed = 0
    BY <1>5 DEF StartJob, JobFacts, FreshJob
  <2>2. job'[i].done = 0 /\ job'[i].failed = 0 /\ driver'[i].at = "none"
    BY <1>0, <1>5, <2>1 DEF StartJob, TypeOK, JobRow, NoDriver
  <2>3. item'[i] = [c \in Cert |-> IF c \in targets THEN "pending" ELSE "none"]
    BY <1>5 DEF StartJob, TypeOK
  <2>4. {c \in Cert : item'[i][c] = "done"} = {} /\ {c \in Cert : item'[i][c] = "failed"} = {}
    BY <2>3
  <2>5. Decided(i, "done")' = 0 /\ Decided(i, "failed")' = 0
    BY <2>4, FS_EmptySet DEF Decided
  <2> QED  BY <2>2, <2>5 DEF CountFact, Plus
<1>6. ASSUME Cancel(i) PROVE CountFact(i)'
  <2>1. /\ job'[i].done = job[i].done /\ job'[i].failed = job[i].failed
        /\ item'[i] = item[i] /\ driver'[i] = driver[i]
    BY <1>0, <1>6 DEF Cancel, TypeOK, JobRow
  <2> QED  BY <1>0, <1>1, <1>2, <1>3, <2>1 DEF CountFact, Plus
<1> QED  BY <1>0, <1>3, <1>4, <1>5, <1>6, CountedDrive, JobMoves

----------------------------------------------------------------------------
(* The invariants of the specification.                                    *)

LEMMA IInvInit == Init => IInv
<1> SUFFICES ASSUME Init PROVE IInv
  OBVIOUS
<1>1. Anchored
  BY LoadedRooted DEF Init, Anchored, MaterialRooted, Rooted, SignersRooted, Issued, NoRow
<1>2. JobFacts
  BY DEF Init, JobFacts, FreshJob, LoopFact, ItemFact, NoJob
<1>3. SignedByActive
  BY DEF Init, SignedByActive
<1>4. ASSUME NEW j \in Job PROVE CountFact(j)
  <2>1. {c \in Cert : item[j][c] = "done"} = {} /\ {c \in Cert : item[j][c] = "failed"} = {}
    BY DEF Init
  <2>2. Decided(j, "done") = 0 /\ Decided(j, "failed") = 0
    BY <2>1, FS_EmptySet DEF Decided
  <2>3. job[j].done = 0 /\ job[j].failed = 0 /\ driver[j].at = "none"
    BY DEF Init, NoJob, NoDriver
  <2> QED  BY <2>2, <2>3 DEF CountFact, Plus
<1> QED  BY <1>1, <1>2, <1>3, <1>4 DEF IInv, Counted

LEMMA IInvStep == TypeOK /\ IInv /\ [Next]_vars => IInv'
<1> SUFFICES ASSUME TypeOK, IInv, [Next]_vars PROVE IInv'
  OBVIOUS
<1>1. CASE UNCHANGED vars
  <2>1. UNCHANGED <<active, staged, previous, row, job, item, driver, cancelled, crashes, signed,
                  strays>>
    BY <1>1 DEF vars, caVars, jobVars
  <2>2. Anchored'
    BY <2>1 DEF IInv, Anchored, MaterialRooted, SignersRooted, Rooted, Issued
  <2>3. JobFacts'
    BY <2>1 DEF IInv, JobFacts, FreshJob, LoopFact, ItemFact
  <2>4. SignedByActive'
    BY <2>1 DEF IInv, SignedByActive
  <2>5. Counted'
    BY <2>1 DEF IInv, Counted, CountFact, Plus, Decided
  <2> QED  BY <2>2, <2>3, <2>4, <2>5 DEF IInv
<1>2. CASE Next
  BY <1>2, AnchoredStep, JobFactsStep, SignedStep, CountedStep DEF IInv
<1> QED  BY <1>1, <1>2

THEOREM Inductive == Spec => [](TypeOK /\ IInv)
  BY TypeInit, TypeStep, IInvInit, IInvStep, PTL DEF Spec

\* The root that the server says it chains to stays that of its configuration, and no
\* CA of another root signs unless it was staged with a chain that is not its own,
\* whatever is staged, promoted, rolled back or lost in a restart, in any hierarchy.
THEOREM OneAnchor == Spec => []OneTrustAnchor
<1>1. Anchored => OneTrustAnchor
  BY DEF Anchored, MaterialRooted, SignersRooted, Rooted, OneTrustAnchor
<1> QED  BY <1>1, Inductive, PTL DEF IInv

\* A promotion, a rollback or a restart is seen by the very next signature of every
\* handler and every job, for any number of jobs that run beside each other.
THEOREM VeryNextSignature == Spec => []SignedByActive
  BY Inductive, PTL DEF IInv

\* The counters never run ahead of the items, and agree with them whenever a loop
\* waits and nothing has crashed.
THEOREM CountersFollow == Spec => []CountersFollowItems
<1>1. ASSUME TypeOK, Counted PROVE CountersFollowItems
  <2> SUFFICES ASSUME NEW j \in Job
               PROVE  /\ job[j].done <= Decided(j, "done")
                      /\ job[j].failed <= Decided(j, "failed")
                      /\ crashes = 0 /\ driver[j].at \in {"none", "waiting"} =>
                            /\ job[j].done = Decided(j, "done")
                            /\ job[j].failed = Decided(j, "failed")
    BY DEF CountersFollowItems
  <2>1. /\ job[j].done \in Nat /\ job[j].failed \in Nat
        /\ Decided(j, "done") \in Nat /\ Decided(j, "failed") \in Nat
    BY <1>1, JobCounters, DecidedCounts
  <2>2. CountFact(j)
    BY <1>1 DEF Counted
  <2> QED  BY <2>1, <2>2 DEF CountFact, Plus
<1>2. TypeOK /\ Counted => CountersFollowItems
  BY <1>1
<1> QED  BY <1>2, Inductive, PTL DEF IInv

\* A step that changes a job or one of its items finds the job running or starts it.
LEMMA QuietStep ==
  ASSUME TypeOK, JobFacts, Next, NEW i \in Job,
         job[i].status \in {"done", "failed", "cancelled"}
  PROVE  job'[i] = job[i] /\ item'[i] = item[i]
<1>1. ASSUME NEW c \in Cert, Resign(i, c) \/ ResignFails(i, c) PROVE FALSE
  BY <1>1, ItemPending DEF Resign, ResignFails
<1>2. ASSUME MarkItem(i) \/ CountDone(i) \/ CountFailed(i) PROVE FALSE
  BY <1>2, LoopRuns DEF MarkItem, CountDone, CountFailed
<1>3. ASSUME Drive(i) \/ Finish(i) \/ StopDriving(i)
      PROVE  job'[i] = job[i] /\ item'[i] = item[i]
  BY <1>3 DEF Drive, Finish, StopDriving
<1>4. CASE DriverStep(i)
  BY <1>1, <1>2, <1>3, <1>4 DEF DriverStep
<1> QED  BY <1>4, JobMoves DEF StartJob, Cancel, Crash

\* A job that has ended signs nothing more, though its loop may be waiting when it is
\* cancelled and a restart forgets that it was.
THEOREM EndedQuiet == Spec => EndedJobsAreQuiet
<1> DEFINE Quiet == \A j \in Job : job[j].status \in {"done", "failed", "cancelled"} =>
                        job'[j] = job[j] /\ item'[j] = item[j]
<1>1. TypeOK /\ JobFacts /\ [Next]_vars => [Quiet]_vars
  BY QuietStep
<1> QED  BY <1>1, Inductive, PTL DEF Spec, IInv, EndedJobsAreQuiet

=============================================================================
