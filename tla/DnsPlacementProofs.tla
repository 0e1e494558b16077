-------------------------- MODULE DnsPlacementProofs --------------------------
(***************************************************************************)
(* Proofs about DnsPlacement: its type invariant, that no record is        *)
(* forgotten, and that the provider of a name is well defined, for any     *)
(* number of challenges, providers, configurations, rows and crashes.      *)
(***************************************************************************)
EXTENDS DnsPlacement, SequenceTheorems, WellFoundedInduction, TLAPS

Row == [chall: Chall, open: BOOLEAN]

Decided(c) == status[c] \in {"valid", "invalid"}

(***************************************************************************)
(* The inductive invariant.                                                *)
(***************************************************************************)

\* A challenge that is tried again has an attempt left.
AttemptFacts == \A c \in Chall : ~ Decided(c) => attempts[c] < MaxAttempts

\* A row is of a challenge that was queued.
RowFacts == \A i \in DOMAIN rows : status[rows[i].chall] # "none"

\* The worker places for a challenge that has no row, at its provider, and decides what
\* it cleans up.
WorkerFacts ==
    /\ worker.at \in {"placing", "propagating", "validating"} => status[worker.chall] = "processing"
    /\ worker.at \in {"placing", "propagating"} => /\ worker.provider = PickFor(worker.chall)
                                                   /\ OpenRows(worker.chall) = {}
    /\ worker.at = "cleaning" => Decided(worker.chall)

\* A record that is not lost is where the configuration says.
InReach == \A p \in Provider : \A c \in zone[p] : p = PickFor(c) \/ <<p, c>> \in lost

\* All records of a challenge are lost.
Lost(c) == \A p \in Provider : c \in zone[p] => <<p, c>> \in lost

\* A row that is to be removed is open, or of a challenge that is not placed again; once
\* the provider removed its record, there is none but those that are lost.
CleanerFacts ==
    /\ cleaner["worker"].todo # {} => worker.at = "cleaning"
    /\ \A i \in cleaner["worker"].todo : rows[i].chall = worker.chall
    /\ \A a \in Actor : \A i \in cleaner[a].todo : rows[i].open \/ Decided(rows[i].chall)
    /\ \A a \in Actor : cleaner[a].applied => Cleans(a) /\ Lost(Target(a))

\* What is validated with a record has a row for it.
Guarded == worker.at = "validating" => OpenRows(worker.chall) # {} \/ Lost(worker.chall)

IInv ==
    /\ TypeOK /\ AttemptFacts /\ RowFacts /\ WorkerFacts /\ CleanerFacts
    /\ InReach /\ Guarded /\ NoRecordForgotten

(***************************************************************************)
(* The provider of a name: the longest matching zone, the first rule of    *)
(* those that tie.                                                         *)
(***************************************************************************)

LEMMA LeastNatural ==
    ASSUME NEW S \in SUBSET Nat, S # {}
    PROVE  \E m \in S : \A n \in S : m <= n
<1>1. IsWellFoundedOn({ss \in Nat \X Nat : ss[1] < ss[2]}, Nat)
  BY NatLessThanWellFounded DEF OpToRel
<1>2. PICK m \in S : \A n \in S : ~ (<<n, m>> \in {ss \in Nat \X Nat : ss[1] < ss[2]})
  BY <1>1, WFMin
<1>3. ASSUME NEW n \in S PROVE m <= n
  <2>1. <<n, m>> \in Nat \X Nat /\ <<n, m>>[1] = n /\ <<n, m>>[2] = m
    OBVIOUS
  <2>2. ~ (n < m)
    BY <1>2, <2>1
  <2>. QED
    BY <2>2
<1>. QED
  BY <1>3

LEMMA GreatestNatural ==
    ASSUME NEW S \in SUBSET Nat, S # {}, NEW bound \in Nat, \A n \in S : n <= bound
    PROVE  \E m \in S : \A n \in S : n <= m
<1> DEFINE B == {b \in Nat : \A n \in S : n <= b}
<1>1. PICK m \in B : \A b \in B : m <= b
  <2>1. B \in SUBSET Nat /\ B # {}
    OBVIOUS
  <2> HIDE DEF B
  <2>. QED
    BY <2>1, LeastNatural
<1>2. m \in Nat /\ \A n \in S : n <= m
  OBVIOUS
<1>3. m \in S
  <2> SUFFICES ASSUME m \notin S PROVE FALSE
    OBVIOUS
  <2>1. \A n \in S : n <= m - 1 /\ n \in Nat
    BY <1>2
  <2>2. m - 1 \in Nat
    <3>1. PICK n \in S : TRUE
      OBVIOUS
    <3>2. n \in Nat /\ n <= m - 1 /\ m \in Nat
      BY <1>2, <2>1
    <3>. QED
      BY <3>2
  <2>3. m - 1 \in B
    BY <2>1, <2>2
  <2>. QED
    BY <1>1, <1>2, <2>3
<1>. QED
  BY <1>2, <1>3

\* The row that comes first.
LEMMA FirstRow ==
    ASSUME NEW S \in SUBSET Nat, S # {}
    PROVE  Min(S) \in S /\ \A n \in S : Min(S) <= n
<1>1. \E m \in S : \A n \in S : m <= n
  BY LeastNatural
<1>. QED
  BY <1>1 DEF Min

\* How long the zones are that match a name.
LEMMA SpecificitiesBounded ==
    ASSUME NEW c \in Chall, NEW rule \in Rule
    PROVE  /\ Specificities(NameOf[c], rule) \subseteq Nat
           /\ Len(NameOf[c]) \in Nat
           /\ \A m \in Specificities(NameOf[c], rule) : m <= Len(NameOf[c])
<1>1. NameOf[c] \in Seq(STRING) /\ Len(NameOf[c]) \in Nat
  BY PlacementAssumption, LenProperties
<1>2. ASSUME NEW z \in rule.zones
      PROVE  Len(z) \in Nat
  <2>1. PICK d \in Chall : z \in {SubSeq(NameOf[d], 1, n) : n \in 0..Len(NameOf[d])}
    BY DEF Rule
  <2>2. PICK n \in 0..Len(NameOf[d]) : z = SubSeq(NameOf[d], 1, n)
    BY <2>1
  <2>3. NameOf[d] \in Seq(STRING) /\ Len(NameOf[d]) \in Nat
    BY PlacementAssumption, LenProperties
  <2>4. \A i \in 1..n : NameOf[d][i] \in STRING
    BY <2>3, ElementOfSeq
  <2>5. z \in Seq(STRING)
    BY <2>2, <2>3, <2>4, SubSeqProperties
  <2>. QED
    BY <2>5, LenProperties
<1>. QED
  BY <1>1, <1>2 DEF Specificities, IsPrefix

\* A rule is the one that is picked for a challenge.
Picked(c, i) ==
    /\ Specificities(NameOf[c], rules[i]) # {}
    /\ \A j \in DOMAIN rules \ {i} : Better(NameOf[c], i, j)

LEMMA PickedExists ==
    ASSUME NEW c \in Chall, rules \in Seq(Rule), HasProviderFor(c)
    PROVE  \E i \in DOMAIN rules : Picked(c, i)
<1> DEFINE Of(i) == Specificities(NameOf[c], rules[i])
           All == UNION {Of(i) : i \in DOMAIN rules}
<1>1. DOMAIN rules = 1..Len(rules) /\ Len(rules) \in Nat
  BY LenProperties
<1>2. \A i \in DOMAIN rules : /\ Of(i) \subseteq Nat
                              /\ \A m \in Of(i) : m <= Len(NameOf[c])
  BY <1>1, ElementOfSeq, SpecificitiesBounded
<1>3. All # {} /\ All \in SUBSET Nat /\ Len(NameOf[c]) \in Nat /\ \A m \in All : m <= Len(NameOf[c])
  <2>1. All # {}
    BY DEF HasProviderFor
  <2>2. Len(NameOf[c]) \in Nat
    BY PlacementAssumption, LenProperties
  <2>. QED
    BY <1>2, <2>1, <2>2
<1>4. PICK m \in All : \A n \in All : n <= m
  <2> HIDE DEF All
  <2>. QED
    BY <1>3, GreatestNatural
<1> DEFINE Longest == {i \in DOMAIN rules : m \in Of(i)}
<1>5. PICK i \in Longest : \A j \in Longest : i <= j
  <2>1. Longest # {} /\ Longest \in SUBSET Nat
    BY <1>1, <1>4
  <2> HIDE DEF Longest
  <2>. QED
    BY <2>1, LeastNatural
<1>6. ASSUME NEW j \in DOMAIN rules \ {i}
      PROVE  Better(NameOf[c], i, j)
  <2>1. ASSUME NEW n \in Of(j)
        PROVE  m > n \/ (m = n /\ i < j)
    <3>1. n \in All /\ n <= m /\ n \in Nat /\ m \in Nat
      BY <1>2, <1>3, <1>4
    <3>2. CASE n = m
      <4>1. j \in Longest /\ i <= j /\ i # j /\ i \in Nat /\ j \in Nat
        BY <1>1, <1>5, <3>2
      <4>. QED
        BY <3>2, <4>1
    <3>. QED
      BY <3>1, <3>2
  <2>2. m \in Of(i)
    BY <1>5
  <2>. QED
    BY <2>1, <2>2 DEF Better
<1>. QED
  BY <1>5, <1>6 DEF Picked

\* pickFor gives a provider of the configuration, or none.
LEMMA PickForFacts ==
    ASSUME NEW c \in Chall, rules \in Config
    PROVE  /\ PickFor(c) \in Provider \cup {None}
           /\ PickFor(c) # None <=> HasProviderFor(c)
           /\ ~ Registry => PickFor(c) = None
<1>1. rules \in Seq(Rule)
  BY PlacementAssumption
<1>2. HasProviderFor(c) => MatchRule(c).provider \in Provider
  <2> SUFFICES ASSUME HasProviderFor(c) PROVE MatchRule(c).provider \in Provider
    OBVIOUS
  <2>1. \E i \in DOMAIN rules : Picked(c, i)
    BY <1>1, PickedExists
  <2>2. \E i \in DOMAIN rules : MatchRule(c) = rules[i]
    BY <2>1 DEF MatchRule, Picked
  <2>3. MatchRule(c) \in Rule
    BY <1>1, <2>2, LenProperties, ElementOfSeq
  <2>. QED
    BY <2>3 DEF Rule
<1>3. ~ Registry => ~ HasProviderFor(c)
  BY DEF Registry, HasProviderFor
<1>. QED
  BY <1>2, <1>3, PlacementAssumption DEF PickFor

\* It does not change while the configuration does not.
LEMMA SameRules ==
    ASSUME rules' = rules, NEW c \in Chall
    PROVE  PickFor(c)' = PickFor(c)
  BY DEF PickFor, HasProviderFor, MatchRule, Better

(***************************************************************************)
(* What every step may rely on.                                            *)
(***************************************************************************)

LEMMA InitIInv == Init => IInv
<1> SUFFICES ASSUME Init PROVE IInv
  OBVIOUS
<1>1. TypeOK
  <2>1. rows \in Seq(Row) /\ Len(rows) = 0
    BY EmptySeq DEF Init
  <2>2. Rest \in Cleaner
    BY DEF Rest, Cleaner
  <2>. QED
    BY <2>1, <2>2, PlacementAssumption DEF Init, TypeOK, Row, Rest
<1>2. AttemptFacts /\ RowFacts
  BY PlacementAssumption DEF Init, AttemptFacts, RowFacts
<1>3. WorkerFacts /\ CleanerFacts /\ Guarded
  BY DEF Init, WorkerFacts, CleanerFacts, Guarded, Idle, Rest, Actor
<1>4. InReach /\ NoRecordForgotten
  BY DEF Init, InReach, NoRecordForgotten
<1>. QED
  BY <1>1, <1>2, <1>3, <1>4 DEF IInv

\* Where the worker is.
LEMMA WorkerAt ==
    ASSUME TypeOK, worker.at # "idle"
    PROVE  /\ worker \in Worker /\ worker.chall \in Chall
           /\ worker.at \in {"placing", "propagating"} => worker.provider \in Provider
<1>1. worker \in Worker
  BY DEF TypeOK, Idle
<1>. QED
  BY <1>1 DEF Worker

\* Rows are there.
LEMMA RowsTyped ==
    ASSUME TypeOK
    PROVE  /\ Len(rows) \in Nat /\ DOMAIN rows = 1..Len(rows)
           /\ \A i \in DOMAIN rows : /\ rows[i] \in Row /\ rows[i].chall \in Chall
                                     /\ rows[i].open \in BOOLEAN /\ i \in 1..MaxRows
<1>1. Len(rows) \in Nat /\ DOMAIN rows = 1..Len(rows) /\ Len(rows) <= MaxRows /\ MaxRows \in Nat
  BY LenProperties, PlacementAssumption DEF TypeOK
<1>2. \A i \in DOMAIN rows : rows[i] \in Row
  BY <1>1, ElementOfSeq DEF TypeOK, Row
<1>. QED
  BY <1>1, <1>2 DEF Row

\* The row a cleanup is at.
LEMMA RowAt ==
    ASSUME TypeOK, NEW a \in Actor, Cleans(a)
    PROVE  /\ RowOf(a) \in cleaner[a].todo /\ RowOf(a) \in DOMAIN rows
           /\ Target(a) \in Chall /\ Target(a) = rows[RowOf(a)].chall
<1>1. cleaner[a].todo \in SUBSET Nat /\ cleaner[a].todo # {} /\ cleaner[a].todo \subseteq DOMAIN rows
  BY PlacementAssumption DEF TypeOK, Cleaner, Cleans
<1>2. RowOf(a) \in cleaner[a].todo
  BY <1>1, FirstRow DEF RowOf
<1>. QED
  BY <1>1, <1>2, RowsTyped DEF Target

\* Steps that leave rows, zones, the configuration and the cleanups alone keep what is said
\* of them.
LEMMA SameZones ==
    ASSUME TypeOK, UNCHANGED <<rows, zone, rules>>, NEW c \in Chall
    PROVE  PickFor(c)' = PickFor(c) /\ OpenRows(c)' = OpenRows(c)
  BY SameRules DEF OpenRows

(***************************************************************************)
(* Every action keeps the invariant.                                       *)
(***************************************************************************)

LEMMA QueueKeeps ==
    ASSUME IInv, NEW c \in Chall, QueueServerManaged(c)
    PROVE  IInv'
<1>1. /\ status[c] = "none" /\ status' = [status EXCEPT ![c] = "processing"]
      /\ UNCHANGED <<attempts, rows, zone, rules, worker, cleaner, crashes, lost>>
  BY DEF QueueServerManaged
<1>2. TypeOK
  BY DEF IInv
<1>3. TypeOK'
  BY <1>1, <1>2 DEF TypeOK
<1>4. \A d \in Chall : /\ d # c => status'[d] = status[d]
                       /\ PickFor(d)' = PickFor(d) /\ OpenRows(d)' = OpenRows(d)
                       /\ Decided(d)' <=> Decided(d)
  BY <1>1, <1>2, SameZones DEF TypeOK, Decided
<1>5. status'[c] = "processing"
  BY <1>1, <1>2 DEF TypeOK
<1>6. AttemptFacts' /\ RowFacts'
  BY <1>1, <1>2, <1>4, <1>5, RowsTyped DEF IInv, AttemptFacts, RowFacts
<1>7. WorkerFacts'
  BY <1>1, <1>2, <1>4, <1>5, WorkerAt DEF IInv, WorkerFacts
<1>8. CleanerFacts'
  BY <1>1, <1>2, <1>4, RowsTyped DEF IInv, CleanerFacts, Cleans, Target, RowOf, Lost, TypeOK
<1>9. InReach' /\ Guarded' /\ NoRecordForgotten'
  <2>1. \A p \in Provider : zone[p] \subseteq Chall
    BY <1>2 DEF TypeOK
  <2>. QED
    BY <1>1, <1>2, <1>4, <1>5, <2>1, WorkerAt DEF IInv, InReach, Guarded, NoRecordForgotten, Lost
<1>. QED
  BY <1>3, <1>6, <1>7, <1>8, <1>9 DEF IInv

\* A step of runOne that is not cleaning up: it may decide a challenge whose records have
\* a row, or are lost, and list the rows T of it.
LEMMA RunOneStep ==
    ASSUME IInv, TypeOK', UNCHANGED <<rows, zone, rules>>, lost \subseteq lost',
           \A c \in Chall : status[c] # "processing" => status'[c] = status[c],
           \A c \in Chall : status[c] = "processing" => status'[c] # "none",
           \A c \in Chall : status[c] = "processing" /\ Decided(c)' => OpenRows(c) # {} \/ Lost(c)',
           AttemptFacts', WorkerFacts', Guarded',
           cleaner["worker"].todo = {},
           NEW T, cleaner' = [cleaner EXCEPT !["worker"].todo = T],
           T # {} => worker'.at = "cleaning" /\ T \subseteq OpenRows(worker'.chall)
    PROVE  IInv'
<1>1. TypeOK
  BY DEF IInv
<1>2. \A c \in Chall : /\ PickFor(c)' = PickFor(c) /\ OpenRows(c)' = OpenRows(c)
                       /\ Decided(c) => Decided(c)'
  BY <1>1, SameZones DEF Decided
<1>3. RowFacts'
  BY <1>1, RowsTyped DEF IInv, RowFacts, TypeOK
<1>4. CleanerFacts'
  <2>1. /\ cleaner'["worker"].todo = T /\ cleaner'["sweep"] = cleaner["sweep"]
        /\ cleaner'["worker"].applied = cleaner["worker"].applied
    BY <1>1 DEF TypeOK, Actor, Cleaner
  <2>2. ~ cleaner["worker"].applied
    BY DEF IInv, CleanerFacts, Actor, Cleans
  <2>3. \A i \in T : i \in DOMAIN rows /\ rows[i].open /\ rows[i].chall = worker'.chall
    BY DEF OpenRows
  <2>4. \A i \in cleaner["sweep"].todo : i \in DOMAIN rows /\ (rows[i].open \/ Decided(rows[i].chall)')
    BY <1>1, <1>2, RowsTyped DEF IInv, CleanerFacts, Actor, TypeOK
  <2>5. cleaner["sweep"].applied => Cleans("sweep")' /\ Lost(Target("sweep"))'
    BY <2>1 DEF IInv, CleanerFacts, Actor, Cleans, Lost, Target, RowOf
  <2>. QED
    BY <2>1, <2>2, <2>3, <2>4, <2>5 DEF CleanerFacts, Actor
<1>5. InReach'
  BY <1>1, <1>2 DEF IInv, InReach, TypeOK
<1>6. NoRecordForgotten'
  <2> SUFFICES ASSUME NEW p \in Provider, NEW c \in zone[p]
               PROVE  OpenRows(c)' # {} \/ status'[c] = "processing" \/ <<p, c>> \in lost'
    BY DEF NoRecordForgotten
  <2>1. c \in Chall
    BY <1>1 DEF TypeOK
  <2>2. OpenRows(c) # {} \/ status[c] = "processing" \/ <<p, c>> \in lost
    BY DEF IInv, NoRecordForgotten
  <2>3. CASE status[c] = "processing"
    <3>1. status'[c] \in {"processing", "valid", "invalid"}
      BY <2>1, <2>3 DEF TypeOK
    <3>2. CASE Decided(c)'
      <4>1. OpenRows(c) # {} \/ Lost(c)'
        BY <2>1, <2>3, <3>2
      <4>. QED
        BY <1>2, <2>1, <4>1 DEF Lost
    <3>. QED
      BY <3>1, <3>2 DEF Decided
  <2>4. CASE status[c] # "processing"
    BY <1>2, <2>1, <2>2, <2>4
  <2>. QED
    BY <2>3, <2>4
<1>. QED
  BY <1>3, <1>4, <1>5, <1>6 DEF IInv

\* The challenge the worker is at, and what it has to clean up before it is at another.
LEMMA NotCleaning ==
    ASSUME IInv, worker.at # "cleaning"
    PROVE  /\ cleaner["worker"].todo = {}
           /\ cleaner = [cleaner EXCEPT !["worker"].todo = {}]
<1>1. cleaner["worker"].todo = {}
  BY DEF IInv, CleanerFacts
<1>2. cleaner \in [Actor -> Cleaner] /\ "worker" \in Actor
  BY DEF IInv, TypeOK, Actor
<1>3. cleaner["worker"] = [cleaner["worker"] EXCEPT !.todo = {}]
  BY <1>1, <1>2 DEF Cleaner
<1>. QED
  BY <1>1, <1>2, <1>3

\* Nothing has a provider without a registry, and all records are lost.
LEMMA OutOfReach ==
    ASSUME IInv, NEW c \in Chall, PickFor(c) = None
    PROVE  Lost(c)
  BY PlacementAssumption DEF IInv, InReach, Lost

LEMMA StartChallengeKeeps ==
    ASSUME IInv, NEW c \in Chall, StartChallenge(c)
    PROVE  IInv'
<1>1. /\ worker = Idle /\ worker.at = "idle" /\ status[c] = "processing"
      /\ UNCHANGED <<rows, zone, rules, cleaner, crashes, lost>>
  BY DEF StartChallenge, Idle
<1>2. TypeOK /\ rules \in Config
  BY DEF IInv, TypeOK
<1>3. PickFor(c) \in Provider \cup {None} /\ (~ Registry => PickFor(c) = None)
  BY <1>2, PickForFacts
<1>4. /\ \A d \in Chall : PickFor(d)' = PickFor(d) /\ OpenRows(d)' = OpenRows(d)
      /\ cleaner["worker"].todo = {} /\ cleaner' = [cleaner EXCEPT !["worker"].todo = {}]
  BY <1>1, <1>2, SameZones, NotCleaning
<1>5. CASE /\ OpenRows(c) # {} \/ ~ Registry
           /\ worker' = [at |-> "validating", chall |-> c]
           /\ UNCHANGED <<status, attempts>>
  <2>1. worker' \in Worker /\ worker'.at = "validating" /\ worker'.chall = c
    BY <1>5 DEF Worker
  <2>2. TypeOK'
    BY <1>1, <1>2, <1>5, <2>1 DEF TypeOK
  <2>3. AttemptFacts' /\ WorkerFacts'
    BY <1>1, <1>5, <2>1 DEF IInv, AttemptFacts, WorkerFacts, Decided
  <2>4. Guarded'
    <3>1. OpenRows(c) # {} \/ Lost(c)
      BY <1>3, <1>5, OutOfReach
    <3>. QED
      BY <1>1, <1>4, <2>1, <3>1 DEF Guarded, Lost
  <2>. QED
    BY <1>1, <1>4, <1>5, <2>2, <2>3, <2>4, RunOneStep DEF Decided
<1>6. CASE OpenRows(c) = {} /\ Registry /\ PickFor(c) = None /\ MarkInvalid(c) /\ UNCHANGED worker
  <2>1. /\ status' = [status EXCEPT ![c] = "invalid"] /\ attempts' = [attempts EXCEPT ![c] = MaxAttempts]
        /\ worker' = worker
    BY <1>6 DEF MarkInvalid
  <2>2. TypeOK'
    BY <1>1, <1>2, <2>1, PlacementAssumption DEF TypeOK
  <2>3. AttemptFacts' /\ WorkerFacts' /\ Guarded'
    BY <1>1, <1>2, <2>1 DEF IInv, AttemptFacts, WorkerFacts, Guarded, Decided, TypeOK
  <2>4. Lost(c)'
    BY <1>1, <1>6, OutOfReach DEF Lost
  <2>5. \A d \in Chall : status'[d] = IF d = c THEN "invalid" ELSE status[d]
    BY <1>2, <2>1 DEF TypeOK
  <2>. QED
    BY <1>1, <1>4, <2>2, <2>3, <2>4, <2>5, RunOneStep DEF Decided
<1>7. CASE /\ OpenRows(c) = {} /\ PickFor(c) # None /\ ~ Throws(c)
           /\ worker' = [at |-> "placing", chall |-> c, provider |-> PickFor(c)]
           /\ UNCHANGED <<status, attempts>>
  <2>1. /\ worker' \in Worker /\ worker'.at = "placing" /\ worker'.chall = c
        /\ worker'.provider = PickFor(c)
    BY <1>3, <1>7 DEF Worker
  <2>2. TypeOK'
    BY <1>1, <1>2, <1>7, <2>1 DEF TypeOK
  <2>3. AttemptFacts' /\ WorkerFacts' /\ Guarded'
    BY <1>1, <1>4, <1>7, <2>1 DEF IInv, AttemptFacts, WorkerFacts, Guarded, Decided
  <2>. QED
    BY <1>1, <1>4, <1>7, <2>2, <2>3, RunOneStep DEF Decided
<1>. QED
  BY <1>5, <1>6, <1>7 DEF StartChallenge

LEMMA PlaceFailsKeeps ==
    ASSUME IInv, PlaceFails
    PROVE  IInv'
<1>0. PICK c \in Chall : c = worker.chall
  BY WorkerAt DEF PlaceFails, IInv
<1>1. /\ worker.at \in {"placing", "propagating"} /\ MarkInvalid(c) /\ worker' = Idle
      /\ lost' = lost \cup {pc \in Provider \X {c} : pc[2] \in zone[pc[1]]}
      /\ UNCHANGED <<rows, zone, rules, cleaner, crashes>>
  BY <1>0 DEF PlaceFails
<1>2. TypeOK
  BY DEF IInv
<1>3. cleaner["worker"].todo = {} /\ cleaner' = [cleaner EXCEPT !["worker"].todo = {}]
  BY <1>1, NotCleaning
<1>4. /\ status' = [status EXCEPT ![c] = "invalid"] /\ attempts' = [attempts EXCEPT ![c] = MaxAttempts]
      /\ worker'.at = "idle"
  BY <1>1 DEF MarkInvalid, Idle
<1>5. TypeOK'
  <2>1. lost' \subseteq Provider \X Chall
    BY <1>1, <1>2 DEF TypeOK
  <2>. QED
    BY <1>1, <1>2, <1>4, <2>1, PlacementAssumption DEF TypeOK
<1>6. AttemptFacts' /\ WorkerFacts' /\ Guarded'
  BY <1>2, <1>4 DEF IInv, AttemptFacts, WorkerFacts, Guarded, Decided, TypeOK
<1>7. Lost(c)'
  <2>1. \A p \in Provider : c \in zone[p] => <<p, c>> \in lost'
    BY <1>1
  <2>. QED
    BY <1>1, <1>2, <2>1 DEF Lost
<1>8. \A d \in Chall : status'[d] = IF d = c THEN "invalid" ELSE status[d]
  BY <1>2, <1>4 DEF TypeOK
<1>9. status[c] = "processing" /\ lost \subseteq lost'
  BY <1>0, <1>1 DEF IInv, WorkerFacts
<1>. QED
  BY <1>1, <1>3, <1>5, <1>6, <1>7, <1>8, <1>9, RunOneStep DEF Decided

LEMMA AnswerRetryKeeps ==
    ASSUME IInv, AnswerRetry
    PROVE  IInv'
<1>0. PICK c \in Chall : c = worker.chall
  BY WorkerAt DEF AnswerRetry, IInv
<1>1. /\ worker.at = "validating" /\ attempts[c] + 1 < MaxAttempts
      /\ attempts' = [attempts EXCEPT ![c] = @ + 1] /\ worker' = Idle /\ worker'.at = "idle"
      /\ UNCHANGED <<status, rows, zone, rules, cleaner, crashes, lost>>
  BY <1>0 DEF AnswerRetry, Idle
<1>2. TypeOK
  BY DEF IInv
<1>3. cleaner["worker"].todo = {} /\ cleaner' = [cleaner EXCEPT !["worker"].todo = {}]
  BY <1>1, NotCleaning
<1>4. attempts' \in [Chall -> 0..MaxAttempts] /\ attempts'[c] < MaxAttempts
      /\ \A d \in Chall : d # c => attempts'[d] = attempts[d]
  <2>1. attempts \in [Chall -> 0..MaxAttempts] /\ MaxAttempts \in Nat
    BY <1>2, PlacementAssumption DEF TypeOK
  <2>2. attempts[c] + 1 \in 0..MaxAttempts
    BY <1>1, <1>2, <2>1
  <2>. QED
    BY <1>1, <1>2, <2>1, <2>2
<1>5. TypeOK'
  BY <1>1, <1>2, <1>4 DEF TypeOK
<1>6. AttemptFacts' /\ WorkerFacts' /\ Guarded'
  BY <1>1, <1>2, <1>4 DEF IInv, AttemptFacts, WorkerFacts, Guarded, Decided
<1>. QED
  BY <1>1, <1>3, <1>5, <1>6, RunOneStep DEF Decided

\* The verdict is given, and the rows of the challenge are listed.
LEMMA AnswerKeeps ==
    ASSUME IInv, AnswerValid \/ AnswerInvalid
    PROVE  IInv'
<1>0. PICK c \in Chall : c = worker.chall
  BY WorkerAt DEF AnswerValid, AnswerInvalid, IInv
<1>T. PICK T \in SUBSET OpenRows(c) : T = IF Registry THEN OpenRows(c) ELSE {}
  OBVIOUS
<1>1. /\ worker.at = "validating"
      /\ worker' = [at |-> "cleaning", chall |-> c]
      /\ cleaner' = [cleaner EXCEPT !["worker"].todo = T]
      /\ UNCHANGED <<rows, zone, rules, crashes, lost>>
  BY <1>0, <1>T DEF AnswerValid, AnswerInvalid, Clean
<1>2. TypeOK /\ status[c] = "processing"
  BY <1>0, <1>1 DEF IInv, WorkerFacts
<1>3. T \subseteq OpenRows(c) /\ T \subseteq DOMAIN rows
  BY DEF OpenRows
<1>4. attempts[c] < MaxAttempts /\ attempts[c] \in Nat /\ MaxAttempts \in Nat
  <2>1. attempts[c] \in 0..MaxAttempts /\ MaxAttempts \in Nat
    BY <1>2, PlacementAssumption DEF TypeOK
  <2>2. attempts[c] < MaxAttempts
    BY <1>2 DEF IInv, AttemptFacts, Decided
  <2>. QED
    BY <2>1, <2>2
<1>5. \E verdict \in {"valid", "invalid"} : status' = [status EXCEPT ![c] = verdict]
  BY <1>0 DEF AnswerValid, AnswerInvalid, MarkInvalid
<1>6. \E n \in 0..MaxAttempts : attempts' = [attempts EXCEPT ![c] = n]
  BY <1>0, <1>2, <1>4 DEF AnswerValid, AnswerInvalid, MarkInvalid, TypeOK
<1>7. cleaner["worker"].todo = {}
  BY <1>1, NotCleaning
<1>8. worker' \in Worker /\ worker'.at = "cleaning" /\ worker'.chall = c
  BY <1>1, <1>2 DEF Worker
<1>9. TypeOK'
  <2>1. T \subseteq 1..MaxRows
    BY <1>2, <1>3, RowsTyped
  <2>2. /\ cleaner' \in [Actor -> Cleaner]
        /\ \A a \in Actor : cleaner'[a].todo \subseteq DOMAIN rows
    BY <1>1, <1>2, <1>3, <2>1 DEF TypeOK, Cleaner, Actor
  <2>. QED
    BY <1>1, <1>2, <1>5, <1>6, <1>8, <2>2 DEF TypeOK
<1>10. /\ \A d \in Chall : d # c => status'[d] = status[d] /\ attempts'[d] = attempts[d]
       /\ status'[c] \in {"valid", "invalid"}
  BY <1>2, <1>5, <1>6 DEF TypeOK
<1>11. AttemptFacts' /\ WorkerFacts' /\ Guarded'
  BY <1>2, <1>8, <1>10 DEF IInv, AttemptFacts, WorkerFacts, Guarded, Decided
<1>12. OpenRows(c) # {} \/ Lost(c)'
  BY <1>0, <1>1 DEF IInv, Guarded, Lost
<1>. QED
  BY <1>1, <1>2, <1>3, <1>7, <1>8, <1>9, <1>10, <1>11, <1>12, RunOneStep DEF Decided

LEMMA CleanedKeeps ==
    ASSUME IInv, Cleaned
    PROVE  IInv'
<1>1. /\ cleaner["worker"].todo = {} /\ worker' = Idle /\ worker'.at = "idle"
      /\ UNCHANGED <<status, attempts, rows, zone, rules, cleaner, crashes, lost>>
  BY DEF Cleaned, Idle
<1>2. cleaner' = [cleaner EXCEPT !["worker"].todo = {}]
  <2>1. cleaner \in [Actor -> Cleaner] /\ "worker" \in Actor
    BY DEF IInv, TypeOK, Actor
  <2>2. cleaner["worker"] = [cleaner["worker"] EXCEPT !.todo = {}]
    BY <1>1, <2>1 DEF Cleaner
  <2>. QED
    BY <1>1, <2>1, <2>2
<1>3. TypeOK'
  BY <1>1 DEF IInv, TypeOK
<1>4. AttemptFacts' /\ WorkerFacts' /\ Guarded'
  BY <1>1 DEF IInv, AttemptFacts, WorkerFacts, Guarded, Decided
<1>. QED
  BY <1>1, <1>2, <1>3, <1>4, RunOneStep DEF Decided

\* The process ends: what is out of reach is lost, and what is not has its row or is tried
\* again.
LEMMA RestartKeeps ==
    ASSUME IInv, Restart, crashes' \in 0..MaxCrashes
    PROVE  IInv'
<1> DEFINE Open == {i \in DOMAIN rows : rows[i].open}
           next == IF Registry' THEN Open ELSE {}
<1>1. /\ worker' = Idle /\ worker'.at = "idle" /\ rules' \in Config
      /\ UNCHANGED <<status, attempts, rows, zone>>
  BY DEF Restart, Idle
<1>2. lost' = lost \cup {pc \in Provider \X Chall : pc[2] \in zone[pc[1]] /\ PickFor(pc[2])' # pc[1]}
  BY DEF Restart
<1>3. TypeOK
  BY DEF IInv
<1>4. /\ cleaner' = [cleaner EXCEPT !["worker"] = Rest, !["sweep"] = [Rest EXCEPT !.todo = next]]
  BY DEF Restart
<1>5. next \subseteq DOMAIN rows /\ next \subseteq 1..MaxRows /\ \A i \in next : rows[i].open
  BY <1>3, RowsTyped
<1> HIDE DEF next
<1>6. /\ cleaner' \in [Actor -> Cleaner]
      /\ cleaner'["worker"].todo = {} /\ ~ cleaner'["worker"].applied
      /\ cleaner'["sweep"].todo = next /\ ~ cleaner'["sweep"].applied
  BY <1>3, <1>4, <1>5 DEF TypeOK, Actor, Cleaner, Rest
<1>7. TypeOK'
  <2>1. \A a \in Actor : cleaner'[a].todo \subseteq DOMAIN rows
    BY <1>5, <1>6 DEF Actor
  <2>2. lost' \subseteq Provider \X Chall
    BY <1>2, <1>3 DEF TypeOK
  <2>. QED
    BY <1>1, <1>3, <1>6, <2>1, <2>2 DEF TypeOK
<1>8. AttemptFacts' /\ RowFacts'
  BY <1>1 DEF IInv, AttemptFacts, RowFacts, Decided
<1>9. WorkerFacts' /\ Guarded'
  BY <1>1 DEF WorkerFacts, Guarded
<1>10. CleanerFacts'
  BY <1>1, <1>5, <1>6 DEF CleanerFacts, Actor
<1>11. InReach'
  <2> SUFFICES ASSUME NEW p \in Provider, NEW c \in zone[p]
               PROVE  p = PickFor(c)' \/ <<p, c>> \in lost'
    BY <1>1 DEF InReach
  <2>1. c \in Chall
    BY <1>3 DEF TypeOK
  <2>2. <<p, c>> \in Provider \X Chall /\ <<p, c>>[1] = p /\ <<p, c>>[2] = c
    BY <2>1
  <2>3. CASE PickFor(c)' # p
    <3>1. <<p, c>> \in {pc \in Provider \X Chall : pc[2] \in zone[pc[1]] /\ PickFor(pc[2])' # pc[1]}
      BY <2>2, <2>3
    <3>. QED
      BY <1>2, <3>1
  <2>. QED
    BY <2>3
<1>12. NoRecordForgotten'
  <2>1. \A c \in Chall : OpenRows(c)' = OpenRows(c)
    BY <1>1 DEF OpenRows
  <2>2. lost \subseteq lost' /\ \A p \in Provider : zone[p] \subseteq Chall
    BY <1>2, <1>3 DEF TypeOK
  <2>. QED
    BY <1>1, <2>1, <2>2 DEF IInv, NoRecordForgotten
<1>. QED
  BY <1>7, <1>8, <1>9, <1>10, <1>11, <1>12 DEF IInv

LEMMA EndKeeps ==
    ASSUME IInv, \/ Crash \/ CleanupThrows
                 \/ \E c \in Chall : StartChallengeThrows(c)
    PROVE  IInv'
<1>1. Restart
  BY DEF Crash, CleanupThrows, StartChallengeThrows, Dies
<1>2. crashes' \in 0..MaxCrashes
  BY PlacementAssumption DEF Crash, CleanupThrows, StartChallengeThrows, Dies, IInv, TypeOK
<1>. QED
  BY <1>1, <1>2, RestartKeeps

\* No cleanup is at a row of a challenge that is being placed.
LEMMA PlacedIsNobodys ==
    ASSUME IInv, worker.at \in {"placing", "propagating"}, NEW a \in Actor, Cleans(a)
    PROVE  Target(a) # worker.chall
<1>1. TypeOK /\ RowOf(a) \in cleaner[a].todo /\ RowOf(a) \in DOMAIN rows /\ Target(a) = rows[RowOf(a)].chall
  BY RowAt DEF IInv
<1>2. rows[RowOf(a)].open \/ Decided(Target(a))
  BY <1>1 DEF IInv, CleanerFacts
<1>3. status[worker.chall] = "processing" /\ OpenRows(worker.chall) = {}
  BY DEF IInv, WorkerFacts
<1>. QED
  BY <1>1, <1>2, <1>3 DEF OpenRows, Decided

LEMMA PlaceAppliedKeeps ==
    ASSUME IInv, PlaceApplied
    PROVE  IInv'
<1>1. PICK c \in Chall, q \in Provider : c = worker.chall /\ q = worker.provider
  BY WorkerAt DEF IInv, PlaceApplied
<1>2. /\ worker.at = "placing" /\ zone' = [zone EXCEPT ![q] = @ \cup {c}]
      /\ worker' = [worker EXCEPT !.at = "propagating"]
      /\ UNCHANGED <<status, attempts, rows, rules, cleaner, crashes, lost>>
  BY <1>1 DEF PlaceApplied
<1>3. TypeOK /\ worker \in Worker
  BY <1>2, WorkerAt DEF IInv
<1>4. worker' \in Worker /\ worker'.at = "propagating" /\ worker'.chall = c /\ worker'.provider = q
  <2>1. worker \in [at: {"placing", "propagating"}, chall: Chall, provider: Provider]
    BY <1>2, <1>3 DEF Worker
  <2>. QED
    BY <1>1, <1>2, <2>1 DEF Worker
<1>5. zone' \in [Provider -> SUBSET Chall] /\ \A p \in Provider : zone'[p] = IF p = q THEN zone[q] \cup {c} ELSE zone[p]
  BY <1>2, <1>3 DEF TypeOK
<1>6. TypeOK'
  BY <1>2, <1>3, <1>4, <1>5 DEF TypeOK
<1>7. AttemptFacts' /\ RowFacts'
  BY <1>2 DEF IInv, AttemptFacts, RowFacts, Decided
<1>8. /\ \A d \in Chall : PickFor(d)' = PickFor(d) /\ OpenRows(d)' = OpenRows(d)
      /\ status[c] = "processing" /\ OpenRows(c) = {} /\ q = PickFor(c)
  BY <1>1, <1>2, SameRules DEF OpenRows, IInv, WorkerFacts
<1>9. WorkerFacts' /\ Guarded'
  BY <1>2, <1>4, <1>8 DEF WorkerFacts, Guarded
<1>10. CleanerFacts'
  <2>1. cleaner["worker"].todo = {} /\ ~ cleaner["worker"].applied
    BY <1>2, NotCleaning DEF IInv, CleanerFacts, Actor, Cleans
  <2>2. ASSUME NEW a \in Actor, cleaner[a].applied
        PROVE  Cleans(a)' /\ Lost(Target(a))'
    <3>1. Cleans(a) /\ Lost(Target(a)) /\ Target(a) # c
      BY <1>1, <1>2, <2>2, PlacedIsNobodys DEF IInv, CleanerFacts
    <3>2. Target(a)' = Target(a)
      BY <1>2 DEF Target, RowOf
    <3>. QED
      BY <1>2, <1>5, <3>1, <3>2 DEF Cleans, Lost
  <2>. QED
    BY <1>2, <2>1, <2>2 DEF IInv, CleanerFacts, Decided
<1>11. InReach'
  BY <1>2, <1>3, <1>5, <1>8 DEF IInv, InReach, TypeOK
<1>12. NoRecordForgotten'
  BY <1>2, <1>3, <1>5, <1>8 DEF IInv, NoRecordForgotten, TypeOK
<1>. QED
  BY <1>6, <1>7, <1>9, <1>10, <1>11, <1>12 DEF IInv

LEMMA PlaceReturnsKeeps ==
    ASSUME IInv, PlaceReturns
    PROVE  IInv'
<1>1. PICK c \in Chall : c = worker.chall
  BY WorkerAt DEF IInv, PlaceReturns
<1>2. /\ worker.at = "propagating" /\ Len(rows) < MaxRows
      /\ rows' = Append(rows, [chall |-> c, open |-> TRUE])
      /\ worker' = [at |-> "validating", chall |-> c]
      /\ UNCHANGED <<status, attempts, zone, rules, cleaner, crashes, lost>>
  BY <1>1 DEF PlaceReturns
<1>3. TypeOK /\ status[c] = "processing"
  BY <1>1, <1>2 DEF IInv, WorkerFacts
<1>4. worker' \in Worker /\ worker'.at = "validating" /\ worker'.chall = c
  BY <1>2 DEF Worker
<1>5. /\ Len(rows) \in Nat /\ DOMAIN rows = 1..Len(rows)
      /\ rows' \in Seq(Row) /\ Len(rows') = Len(rows) + 1 /\ DOMAIN rows' = 1..(Len(rows) + 1)
      /\ \A i \in DOMAIN rows : i \in DOMAIN rows' /\ rows'[i] = rows[i]
      /\ rows'[Len(rows) + 1] = [chall |-> c, open |-> TRUE]
  <2>1. [chall |-> c, open |-> TRUE] \in Row /\ rows \in Seq(Row)
    BY <1>3 DEF Row, TypeOK
  <2>2. /\ rows' \in Seq(Row) /\ Len(rows') = Len(rows) + 1
        /\ \A i \in 1..Len(rows) : rows'[i] = rows[i]
        /\ rows'[Len(rows) + 1] = [chall |-> c, open |-> TRUE]
    BY <1>2, <2>1, AppendProperties
  <2>3. DOMAIN rows' = 1..(Len(rows) + 1) /\ DOMAIN rows = 1..Len(rows) /\ Len(rows) \in Nat
    BY <2>1, <2>2, LenProperties
  <2>. QED
    BY <2>2, <2>3
<1>6. TypeOK'
  <2>1. Len(rows') <= MaxRows
    BY <1>2, <1>5, PlacementAssumption
  <2>. QED
    BY <1>2, <1>3, <1>4, <1>5, <2>1 DEF TypeOK, Row
<1>7. /\ \A d \in Chall : PickFor(d)' = PickFor(d) /\ OpenRows(d) \subseteq OpenRows(d)'
      /\ OpenRows(c)' # {}
  BY <1>2, <1>5, SameRules DEF OpenRows
<1>8. AttemptFacts' /\ RowFacts'
  <2>1. \A i \in DOMAIN rows' : i \in DOMAIN rows \/ i = Len(rows) + 1
    BY <1>5
  <2>. QED
    BY <1>2, <1>3, <1>5, <2>1 DEF IInv, AttemptFacts, RowFacts, Decided
<1>9. WorkerFacts' /\ Guarded'
  BY <1>2, <1>3, <1>4, <1>7 DEF WorkerFacts, Guarded
<1>10. CleanerFacts'
  <2>1. cleaner["worker"].todo = {} /\ ~ cleaner["worker"].applied
    BY <1>2, NotCleaning DEF IInv, CleanerFacts, Actor, Cleans
  <2>2. \A a \in Actor : \A i \in cleaner[a].todo : i \in DOMAIN rows
    BY <1>3 DEF TypeOK
  <2>3. ASSUME NEW a \in Actor, cleaner[a].applied
        PROVE  Cleans(a)' /\ Lost(Target(a))'
    <3>1. Cleans(a) /\ Lost(Target(a))
      BY <2>3 DEF IInv, CleanerFacts
    <3>2. RowOf(a) \in DOMAIN rows
      BY <1>3, <3>1, RowAt
    <3>3. Target(a)' = Target(a)
      BY <1>2, <1>5, <3>2 DEF Target, RowOf
    <3>. QED
      BY <1>2, <3>1, <3>3 DEF Cleans, Lost
  <2>. QED
    BY <1>2, <1>5, <2>1, <2>2, <2>3 DEF IInv, CleanerFacts, Decided
<1>11. InReach' /\ NoRecordForgotten'
  BY <1>2, <1>3, <1>7 DEF IInv, InReach, NoRecordForgotten, TypeOK
<1>. QED
  BY <1>6, <1>8, <1>9, <1>10, <1>11 DEF IInv

\* Cleanups.

LEMMA NextRowFacts ==
    ASSUME TypeOK, NEW a \in Actor, NextRow(a)
    PROVE  /\ cleaner' \in [Actor -> Cleaner]
           /\ cleaner'[a].todo = cleaner[a].todo \ {RowOf(a)} /\ ~ cleaner'[a].applied
           /\ \A b \in Actor : b # a => cleaner'[b] = cleaner[b]
  BY DEF TypeOK, NextRow, Cleaner

\* A row is closed whose record is gone, or lost.
LEMMA RowClosedKeeps ==
    ASSUME IInv, NEW a \in Actor, Cleans(a), MarkCleaned(a), NextRow(a),
           UNCHANGED <<status, attempts, zone, rules, worker, crashes>>,
           lost \subseteq lost', lost' \subseteq Provider \X Chall,
           \A p \in Provider : Target(a) \in zone[p] => <<p, Target(a)>> \in lost'
    PROVE  IInv'
<1>1. TypeOK
  BY DEF IInv
<1>2. PICK r \in DOMAIN rows, c \in Chall : r = RowOf(a) /\ c = Target(a) /\ c = rows[r].chall /\ r \in cleaner[a].todo
  BY <1>1, RowAt
<1>3. /\ rows' \in Seq(Row) /\ Len(rows') = Len(rows) /\ DOMAIN rows' = DOMAIN rows
      /\ \A i \in DOMAIN rows : rows'[i].chall = rows[i].chall /\ (i # r => rows'[i] = rows[i])
      /\ ~ rows'[r].open
  <2> DEFINE x == [rows[r] EXCEPT !.open = FALSE]
  <2>1. rows \in Seq(Row) /\ r \in 1..Len(rows) /\ rows[r] \in Row /\ DOMAIN rows = 1..Len(rows)
    BY <1>1, <1>2, RowsTyped DEF TypeOK, Row
  <2>2. x \in Row /\ x.chall = rows[r].chall /\ ~ x.open
    BY <2>1 DEF Row
  <2>3. rows' = [rows EXCEPT ![r] = x]
    BY <1>2, <2>1 DEF MarkCleaned
  <2> HIDE DEF x
  <2>4. /\ [rows EXCEPT ![r] = x] \in Seq(Row) /\ Len([rows EXCEPT ![r] = x]) = Len(rows)
        /\ \A i \in 1..Len(rows) : [rows EXCEPT ![r] = x][i] = IF i = r THEN x ELSE rows[i]
    BY <2>1, <2>2, ExceptSeq
  <2>5. DOMAIN [rows EXCEPT ![r] = x] = DOMAIN rows
    OBVIOUS
  <2>. QED
    BY <2>1, <2>2, <2>3, <2>4, <2>5
<1>4. /\ cleaner' \in [Actor -> Cleaner]
      /\ cleaner'[a].todo = cleaner[a].todo \ {r} /\ ~ cleaner'[a].applied
      /\ \A b \in Actor : b # a => cleaner'[b] = cleaner[b]
  BY <1>1, <1>2, NextRowFacts
<1>5. TypeOK'
  <2>1. \A b \in Actor : cleaner'[b].todo \subseteq DOMAIN rows
    BY <1>1, <1>4 DEF TypeOK
  <2>. QED
    BY <1>1, <1>3, <1>4, <2>1 DEF TypeOK, Row
<1>6. \A d \in Chall : /\ PickFor(d)' = PickFor(d)
                       /\ OpenRows(d)' \subseteq OpenRows(d)
                       /\ d # c => OpenRows(d)' = OpenRows(d)
  BY <1>2, <1>3, SameRules DEF OpenRows
<1>7. AttemptFacts' /\ RowFacts'
  BY <1>3 DEF IInv, AttemptFacts, RowFacts, Decided
<1>8. WorkerFacts'
  BY <1>1, <1>6, WorkerAt DEF IInv, WorkerFacts, Decided
<1>9. \A p \in Provider : c \in zone[p] => <<p, c>> \in lost'
  BY <1>2
<1>10. Guarded'
  BY <1>1, <1>6, <1>9, WorkerAt DEF IInv, Guarded, Lost
<1>11. CleanerFacts'
  <2>1. \A b \in Actor : cleaner'[b].todo \subseteq cleaner[b].todo /\ cleaner[b].todo \subseteq DOMAIN rows
    BY <1>1, <1>4 DEF TypeOK
  <2>2. ASSUME NEW b \in Actor, NEW i \in cleaner'[b].todo
        PROVE  rows'[i].open \/ Decided(rows[i].chall)
    <3>1. CASE i # r
      BY <1>3, <2>1, <3>1 DEF IInv, CleanerFacts
    <3>2. CASE i = r
      <4>1. b # a /\ r \in cleaner[a].todo /\ r \in cleaner[b].todo
        BY <1>2, <1>4, <2>1, <3>2
      <4>2. r \in cleaner["worker"].todo
        BY <4>1 DEF Actor
      <4>. QED
        BY <3>2, <4>2 DEF IInv, CleanerFacts, WorkerFacts
    <3>. QED
      BY <3>1, <3>2
  <2>3. ASSUME NEW b \in Actor, cleaner'[b].applied
        PROVE  Cleans(b)' /\ Lost(Target(b))'
    <3>1. b # a /\ cleaner'[b] = cleaner[b] /\ cleaner[b].applied
      BY <1>4, <2>3
    <3>2. Cleans(b) /\ Lost(Target(b)) /\ RowOf(b) \in DOMAIN rows
      BY <1>1, <3>1, RowAt DEF IInv, CleanerFacts
    <3>3. Target(b)' = Target(b)
      BY <1>3, <3>1, <3>2 DEF Target, RowOf
    <3>. QED
      BY <3>1, <3>2, <3>3 DEF Cleans, Lost
  <2>4. /\ cleaner'["worker"].todo # {} => worker.at = "cleaning"
        /\ \A i \in cleaner'["worker"].todo : rows'[i].chall = worker.chall
    BY <1>3, <2>1 DEF IInv, CleanerFacts, Actor
  <2>5. \A b \in Actor : \A i \in cleaner'[b].todo : rows'[i].chall = rows[i].chall
    BY <1>3, <2>1
  <2>. QED
    BY <2>2, <2>3, <2>4, <2>5 DEF CleanerFacts, Decided
<1>12. InReach'
  BY <1>1, <1>6 DEF IInv, InReach, TypeOK
<1>13. NoRecordForgotten'
  BY <1>1, <1>6, <1>9 DEF IInv, NoRecordForgotten, TypeOK
<1>. QED
  BY <1>5, <1>7, <1>8, <1>10, <1>11, <1>12, <1>13 DEF IInv

LEMMA CleanupReturnsKeeps ==
    ASSUME IInv, NEW a \in Actor, CleanupReturns(a)
    PROVE  IInv'
<1>1. /\ Cleans(a) /\ cleaner[a].applied /\ MarkCleaned(a) /\ NextRow(a)
      /\ UNCHANGED <<status, attempts, zone, rules, worker, crashes, lost>>
  BY DEF CleanupReturns
<1>2. Lost(Target(a)) /\ lost \subseteq Provider \X Chall
  BY <1>1 DEF IInv, CleanerFacts, TypeOK
<1>. QED
  BY <1>1, <1>2, RowClosedKeeps DEF Lost

LEMMA CleanupFailsKeeps ==
    ASSUME IInv, NEW a \in Actor, CleanupFails(a)
    PROVE  IInv'
<1>1. /\ Cleans(a) /\ MarkCleaned(a) /\ NextRow(a)
      /\ lost' = lost \cup {pc \in Provider \X {Target(a)} : pc[2] \in zone[pc[1]]}
      /\ UNCHANGED <<status, attempts, zone, rules, worker, crashes>>
  BY DEF CleanupFails
<1>2. Target(a) \in Chall
  BY <1>1, RowAt DEF IInv
<1>3. \A p \in Provider : Target(a) \in zone[p] => <<p, Target(a)>> \in lost'
  BY <1>1
<1>4. lost \subseteq lost' /\ lost' \subseteq Provider \X Chall
  BY <1>1, <1>2 DEF IInv, TypeOK
<1>. QED
  BY <1>1, <1>3, <1>4, RowClosedKeeps

\* A cleanup goes on, or ends, and leaves its row open.
LEMMA RowLeftKeeps ==
    ASSUME IInv, NEW a \in Actor, cleaner' \in [Actor -> Cleaner],
           cleaner'[a].todo \subseteq cleaner[a].todo, ~ cleaner'[a].applied,
           \A b \in Actor : b # a => cleaner'[b] = cleaner[b],
           UNCHANGED <<status, attempts, rows, zone, rules, worker, crashes, lost>>
    PROVE  IInv'
<1>1. TypeOK
  BY DEF IInv
<1>2. \A b \in Actor : cleaner'[b].todo \subseteq cleaner[b].todo
  OBVIOUS
<1>3. TypeOK'
  BY <1>1, <1>2 DEF TypeOK
<1>4. \A d \in Chall : PickFor(d)' = PickFor(d) /\ OpenRows(d)' = OpenRows(d)
  BY <1>1, SameZones
<1>5. AttemptFacts' /\ RowFacts'
  BY DEF IInv, AttemptFacts, RowFacts, Decided
<1>6. WorkerFacts' /\ Guarded'
  BY <1>1, <1>4, WorkerAt DEF IInv, WorkerFacts, Guarded, Decided, Lost
<1>7. InReach' /\ NoRecordForgotten'
  BY <1>1, <1>4 DEF IInv, InReach, NoRecordForgotten, TypeOK
<1>8. CleanerFacts'
  <2>1. ASSUME NEW b \in Actor, cleaner'[b].applied
        PROVE  Cleans(b)' /\ Lost(Target(b))'
    <3>1. cleaner'[b] = cleaner[b] /\ Cleans(b) /\ Lost(Target(b))
      BY <2>1 DEF IInv, CleanerFacts
    <3>2. Target(b)' = Target(b)
      BY <3>1 DEF Target, RowOf
    <3>. QED
      BY <3>1, <3>2 DEF Cleans, Lost
  <2>. QED
    BY <1>2, <2>1 DEF IInv, CleanerFacts, Actor, Decided
<1>. QED
  BY <1>3, <1>5, <1>6, <1>7, <1>8 DEF IInv

LEMMA SkipRowKeeps ==
    ASSUME IInv, NEW a \in Actor, SkipRow(a)
    PROVE  IInv'
<1>1. /\ NextRow(a) /\ UNCHANGED <<status, attempts, rows, zone, rules, worker, crashes, lost>>
      /\ TypeOK
  BY DEF SkipRow, IInv
<1>2. /\ cleaner' \in [Actor -> Cleaner]
      /\ cleaner'[a].todo \subseteq cleaner[a].todo /\ ~ cleaner'[a].applied
      /\ \A b \in Actor : b # a => cleaner'[b] = cleaner[b]
  BY <1>1, NextRowFacts
<1>. QED
  BY <1>1, <1>2, RowLeftKeeps

LEMMA SweepThrowsKeeps ==
    ASSUME IInv, SweepThrows
    PROVE  IInv'
<1>1. /\ cleaner' = [cleaner EXCEPT !["sweep"] = Rest]
      /\ UNCHANGED <<status, attempts, rows, zone, rules, worker, crashes, lost>>
      /\ cleaner \in [Actor -> Cleaner]
  BY DEF SweepThrows, IInv, TypeOK
<1>2. "sweep" \in Actor /\ Rest \in Cleaner /\ Rest.todo = {} /\ ~ Rest.applied
  BY DEF Actor, Rest, Cleaner
<1>3. /\ cleaner' \in [Actor -> Cleaner]
      /\ cleaner'["sweep"].todo \subseteq cleaner["sweep"].todo /\ ~ cleaner'["sweep"].applied
      /\ \A b \in Actor : b # "sweep" => cleaner'[b] = cleaner[b]
  BY <1>1, <1>2
<1>. QED
  BY <1>1, <1>2, <1>3, RowLeftKeeps

LEMMA CleanupAppliedKeeps ==
    ASSUME IInv, NEW a \in Actor, CleanupApplied(a)
    PROVE  IInv'
<1>1. TypeOK /\ Cleans(a)
  BY DEF IInv, CleanupApplied
<1>2. PICK c \in Chall : c = Target(a)
  BY <1>1, RowAt
<1>3. /\ PickFor(c) # None /\ rules \in Config
      /\ UNCHANGED <<status, attempts, rows, rules, worker, crashes, lost>>
  BY <1>1, <1>2 DEF CleanupApplied, TypeOK
<1>4. PICK q \in Provider : q = PickFor(c)
  BY <1>3, PickForFacts
<1>5. /\ zone' = [zone EXCEPT ![q] = @ \ {c}]
      /\ cleaner' = [cleaner EXCEPT ![a].applied = TRUE]
  BY <1>2, <1>4 DEF CleanupApplied
<1>6. /\ zone' \in [Provider -> SUBSET Chall]
      /\ \A p \in Provider : zone'[p] \subseteq zone[p] /\ (p = q => c \notin zone'[p])
  BY <1>1, <1>5 DEF TypeOK
<1>7. /\ cleaner' \in [Actor -> Cleaner]
      /\ \A b \in Actor : cleaner'[b].todo = cleaner[b].todo
      /\ \A b \in Actor : b # a => cleaner'[b] = cleaner[b]
  BY <1>1, <1>5 DEF TypeOK, Cleaner
<1>8. TypeOK'
  BY <1>1, <1>3, <1>6, <1>7 DEF TypeOK
<1>9. \A d \in Chall : PickFor(d)' = PickFor(d) /\ OpenRows(d)' = OpenRows(d)
  BY <1>3, SameRules DEF OpenRows
<1>10. AttemptFacts' /\ RowFacts'
  BY <1>3 DEF IInv, AttemptFacts, RowFacts, Decided
<1>11. WorkerFacts' /\ Guarded'
  BY <1>1, <1>3, <1>6, <1>9, WorkerAt DEF IInv, WorkerFacts, Guarded, Decided, Lost
<1>12. InReach' /\ NoRecordForgotten'
  BY <1>1, <1>3, <1>6, <1>9 DEF IInv, InReach, NoRecordForgotten, TypeOK
<1>13. CleanerFacts'
  <2>1. \A b \in Actor : Target(b)' = Target(b) /\ (Cleans(b)' <=> Cleans(b))
    BY <1>3, <1>7 DEF Target, RowOf, Cleans
  <2>2. ASSUME NEW b \in Actor, cleaner'[b].applied
        PROVE  Cleans(b)' /\ Lost(Target(b))'
    <3>1. CASE b = a
      <4>1. \A p \in Provider : c \in zone'[p] => <<p, c>> \in lost'
        BY <1>3, <1>4, <1>6 DEF IInv, InReach
      <4>. QED
        BY <1>1, <1>2, <2>1, <3>1, <4>1 DEF Lost
    <3>2. CASE b # a
      <4>1. Cleans(b) /\ Lost(Target(b))
        BY <1>7, <2>2, <3>2 DEF IInv, CleanerFacts
      <4>. QED
        BY <1>3, <1>6, <2>1, <4>1 DEF Lost
    <3>. QED
      BY <3>1, <3>2
  <2>. QED
    BY <1>3, <1>7, <2>2 DEF IInv, CleanerFacts, Actor, Decided
<1>. QED
  BY <1>8, <1>10, <1>11, <1>12, <1>13 DEF IInv

LEMMA NextIInv == IInv /\ [Next]_vars => IInv'
<1> SUFFICES ASSUME IInv, [Next]_vars PROVE IInv'
  OBVIOUS
<1>1. CASE \E c \in Chall : QueueServerManaged(c)
  BY <1>1, QueueKeeps
<1>2. ASSUME NEW a \in Actor, CleanerStep(a)
      PROVE  IInv'
  BY <1>2, SkipRowKeeps, CleanupAppliedKeeps, CleanupReturnsKeeps, CleanupFailsKeeps DEF CleanerStep
<1>3. CASE WorkerStep
  BY <1>2, <1>3, StartChallengeKeeps, EndKeeps, PlaceAppliedKeeps, PlaceReturnsKeeps, PlaceFailsKeeps,
     AnswerKeeps, AnswerRetryKeeps, CleanedKeeps DEF WorkerStep, Actor
<1>4. CASE SweepStep
  BY <1>2, <1>4, SweepThrowsKeeps DEF SweepStep, Actor
<1>5. CASE Crash
  BY <1>5, EndKeeps
<1>6. CASE UNCHANGED vars
  <2>1. UNCHANGED <<status, attempts, rows, zone, rules, worker, cleaner, crashes, lost>>
    BY <1>6 DEF vars
  <2>2. \A c \in Chall : PickFor(c)' = PickFor(c) /\ OpenRows(c)' = OpenRows(c)
    BY <2>1, SameZones DEF IInv
  <2>3. TypeOK' /\ AttemptFacts' /\ RowFacts'
    BY <2>1 DEF IInv, TypeOK, AttemptFacts, RowFacts, Decided
  <2>4. WorkerFacts' /\ Guarded'
    BY <2>1, <2>2, WorkerAt DEF IInv, WorkerFacts, Guarded, Decided, Lost
  <2>5. InReach' /\ NoRecordForgotten'
    BY <2>1, <2>2 DEF IInv, InReach, NoRecordForgotten, TypeOK
  <2>6. CleanerFacts'
    BY <2>1 DEF IInv, CleanerFacts, Decided, Cleans, Lost, Target, RowOf
  <2>. QED
    BY <2>3, <2>4, <2>5, <2>6 DEF IInv
<1>. QED
  BY <1>1, <1>3, <1>4, <1>5, <1>6 DEF Next

\* The inductive invariant holds in every state of every run.
THEOREM Invariance == Spec => []IInv
  BY InitIInv, NextIInv, PTL DEF Spec

(***************************************************************************)
(* The theorems.                                                           *)
(***************************************************************************)

\* Everything has its type: attempts stay within those there are delays for, and what is
\* still to be cleaned up are rows.
THEOREM TypeCorrect == Spec => []TypeOK
<1>1. IInv => TypeOK
  BY DEF IInv
<1>. QED
  BY <1>1, Invariance, PTL

\* Whatever the worker, the sweep, crashes and new configurations do in whatever order, a
\* record in a zone has an open row, or belongs to a challenge that is still tried, unless
\* its provider failed or was exchanged.
THEOREM RecordsAccounted == Spec => []NoRecordForgotten
<1>1. IInv => NoRecordForgotten
  BY DEF IInv
<1>. QED
  BY <1>1, Invariance, PTL

\* As long as a rule matches, one is picked for the name of a challenge: it matches too, no
\* rule has a longer matching zone, and it comes before those that tie.
THEOREM LongestZonePicked ==
    Spec => [](\A c \in Chall : HasProviderFor(c) =>
                  \E i \in DOMAIN rules : MatchRule(c) = rules[i] /\ Picked(c, i))
<1>1. IInv => \A c \in Chall : HasProviderFor(c) =>
                 \E i \in DOMAIN rules : MatchRule(c) = rules[i] /\ Picked(c, i)
  <2> SUFFICES ASSUME IInv, NEW c \in Chall, HasProviderFor(c)
               PROVE  \E i \in DOMAIN rules : MatchRule(c) = rules[i] /\ Picked(c, i)
    OBVIOUS
  <2>1. \E i \in DOMAIN rules : Picked(c, i)
    BY PickedExists, PlacementAssumption DEF IInv, TypeOK
  <2>. QED
    BY <2>1 DEF MatchRule, Picked
<1>. QED
  BY <1>1, Invariance, PTL
===============================================================================
