------------------------------- MODULE LocalPki -------------------------------
(***************************************************************************)
(* The certificates of an open context: rows that hold a certificate, the  *)
(* private key if the context has it, a link to the row of its issuer and  *)
(* a revocation mark.  Screens and commands create, issue, renew, re-sign, *)
(* attach, revoke and delete them, read them from PEM files, and carry     *)
(* them to other contexts in bundles; an audit compares the links with the *)
(* signatures.  The code is synchronous: an operation is one step.         *)
(*                                                                         *)
(* A certificate is its subject, issuer, public key, signer's key and      *)
(* serial number; its fingerprint stands for all of it.  Time is left out: *)
(* no certificate expires.  Names of rows are left out: a clash is refused *)
(* by a form, and resolved by a suffix when a bundle is imported.          *)
(***************************************************************************)
EXTENDS Naturals, Sequences, FiniteSetsExt, Functions

CONSTANTS
    DN,         \* distinguished names
    MaxRows,    \* bound on the rows of the context
    MaxPairs,   \* bound on the key pairs generated
    MaxSerial,  \* bound on the certificates signed
    MaxFiles,   \* bound on the files exported
    MaxErrors,  \* bound on the wrong links and stray keys of a behaviour
    Sealed      \* key pairs whose private key is stored under a password

ASSUME PkiAssumption ==
    /\ MaxRows \in Nat
    /\ MaxPairs \in Nat
    /\ MaxSerial \in Nat
    /\ MaxFiles \in Nat
    /\ MaxErrors \in Nat
    /\ Sealed \subseteq 1..MaxPairs

VARIABLES
    rows,     \* table certificates of the open context: a function of ids
    file,     \* the file exported last, if any
    files,    \* how many files were exported (bound)
    pairs,    \* how many key pairs were generated
    serials,  \* how many certificates were signed
    strayed,  \* history: private keys a user stored with a certificate of another pair
    guessed   \* history: links a user chose, or an import guessed from a file's order

history == <<strayed, guessed>>
vars == <<rows, file, files, pairs, serials, history>>

NoId == 0

NoKey == 0

Id == 1..MaxRows

Pair == 1..MaxPairs

Certificate == [subject: DN, issuer: DN, pub: Pair, by: Pair, serial: 1..MaxSerial]

Row == [type: {"ca", "leaf"}, cert: Certificate, key: Pair \cup {NoKey},
        issuer: Id \cup {NoId}, revoked: BOOLEAN]

NoFile == [is |-> "none"]

NoCert == [serial |-> 0]

\* issuer: meta.issuerFingerprint
Item == [cert: Certificate, type: {"ca", "leaf"}, key: Pair \cup {NoKey},
         issuer: Certificate \cup {NoCert}]

TypeOK ==
    /\ DOMAIN rows \subseteq Id
    /\ \A i \in DOMAIN rows : rows[i] \in Row /\ rows[i].issuer \in DOMAIN rows \cup {NoId}
    /\ \/ file = NoFile
       \/ file.is = "pem" /\ file.certs \in Seq(Certificate)
       \/ file.is = "bundle" /\ \A it \in file.items : it \in Item
    /\ files \in 0..MaxFiles
    /\ pairs \in 0..MaxPairs
    /\ serials \in 0..MaxSerial

Init ==
    /\ rows = <<>>
    /\ file = NoFile
    /\ files = 0
    /\ pairs = 0
    /\ serials = 0
    /\ strayed = {}
    /\ guessed = {}

----------------------------------------------------------------------------
(* Rows and how they hang together.                                        *)

Cas == {i \in DOMAIN rows : rows[i].type = "ca"}

\* findByFingerprint in a table
HasCert(table, c) == \E i \in DOMAIN table : table[i].cert = c

IdOf(table, c) == CHOOSE i \in DOMAIN table : table[i].cert = c

\* caSignsLeaf
Verifies(parent, c) == c.by = parent.pub

SelfIssued(c) == c.subject = c.issuer

\* The row and those above it, as far as they are not in `seen`.
Above(start, met) ==
    LET up[at \in (SUBSET DOMAIN rows) \X DOMAIN rows] ==
            LET seen == at[1]
                i == at[2]
                p == rows[i].issuer
            IN  IF p = NoId \/ p \in seen THEN <<i>> ELSE <<i>> \o up[<<seen \cup {p}, p>>]
    IN  up[<<met, start>>]

BuildChain(i) == Above(i, {})

ParentsOf(i) == Tail(Above(i, {i}))

DescendantsOf(i) ==
    LET below[S \in SUBSET DOMAIN rows] ==
            LET more == {k \in DOMAIN rows : rows[k].issuer \in S} \ S
            IN  IF more = {} THEN S ELSE below[S \cup more]
    IN  below[{i}] \ {i}

\* Mutant of VerifyCert: only the certificate's own signature is checked.
VerifyCertOnce(i) ==
    LET chain == BuildChain(i)
    IN  /\ Len(chain) > 1 => Verifies(rows[chain[2]].cert, rows[i].cert)
        /\ rows[chain[Len(chain)]].issuer = NoId
        /\ \A n \in 1..Len(chain) : ~rows[chain[n]].revoked

\* verifyCert, but for the validity period and the host name
VerifyCert(i) ==
    LET chain == BuildChain(i)
        top == chain[Len(chain)]
    IN  /\ \/ rows[i].type = "ca" /\ rows[i].issuer = NoId
           \/ /\ \A n \in 1..(Len(chain) - 1) :
                    Verifies(rows[chain[n + 1]].cert, rows[chain[n]].cert)
              /\ rows[top].issuer = NoId
        /\ \A n \in 1..Len(chain) : ~rows[chain[n]].revoked

----------------------------------------------------------------------------
(* Signing.                                                                *)

FreshId(table) == Min(Id \ DOMAIN table)

Add(table, row) ==
    LET id == FreshId(table)
    IN  [i \in DOMAIN table \cup {id} |-> IF i = id THEN row ELSE table[i]]

HasRoom(n) == Cardinality(DOMAIN rows) + n <= MaxRows

NewRow(type, c, key, issuer) ==
    [type |-> type, cert |-> c, key |-> key, issuer |-> issuer, revoked |-> FALSE]

Sign(subject, pub, issuer, key) ==
    [subject |-> subject, issuer |-> issuer, pub |-> pub, by |-> key, serial |-> serials + 1]

\* buildRootCa
SelfSigned(name) == Sign(name, pairs + 1, name, pairs + 1)

\* buildIntermediateCa
IntermediateCert(name, ca) == Sign(name, pairs + 1, rows[ca].cert.subject, rows[ca].key)

\* buildLeafCert
LeafCert(name, ca) == Sign(name, pairs + 1, rows[ca].cert.subject, rows[ca].key)

\* resignCertificateCore: the subject and its public key stay.
Resigned(c, ca) == Sign(c.subject, c.pub, rows[ca].cert.subject, rows[ca].key)

CountSerial == serials' = serials + 1 /\ serials < MaxSerial

CountFile == files' = files + 1 /\ files < MaxFiles

CountPair == pairs' = pairs + 1 /\ pairs < MaxPairs

CreateCa(name) ==
    /\ HasRoom(1)
    /\ CountPair
    /\ CountSerial
    /\ rows' = Add(rows, NewRow("ca", SelfSigned(name), pairs + 1, NoId))
    /\ UNCHANGED <<file, files, history>>

\* The form asks for the password of a sealed key.
CanIssue(ca) == rows[ca].type = "ca" /\ rows[ca].key # NoKey

IssueIntermediate(ca, name) ==
    /\ CanIssue(ca)
    /\ HasRoom(1)
    /\ CountPair
    /\ CountSerial
    /\ rows' = Add(rows, NewRow("ca", IntermediateCert(name, ca), pairs + 1, ca))
    /\ UNCHANGED <<file, files, history>>

IssueCert(ca, name) ==
    /\ CanIssue(ca)
    /\ HasRoom(1)
    /\ CountPair
    /\ CountSerial
    /\ rows' = Add(rows, NewRow("leaf", LeafCert(name, ca), pairs + 1, ca))
    /\ UNCHANGED <<file, files, history>>

\* No password is asked for, so that a sealed key cannot sign.
CanResign(ca) == rows[ca].key # NoKey /\ rows[ca].key \notin Sealed

\* Mutant of ReplaceCert: the link stays.
ReplaceCertUnlinked(i, ca, issuer) ==
    /\ CanResign(ca)
    /\ CountSerial
    /\ rows' = [rows EXCEPT ![i].cert = Resigned(@, ca),
                            ![i].revoked = FALSE]
    /\ UNCHANGED <<file, files, pairs, history>>

ReplaceCert(i, ca, issuer) ==
    /\ CanResign(ca)
    /\ CountSerial
    /\ rows' = [rows EXCEPT ![i].cert = Resigned(@, ca),
                            ![i].issuer = issuer,
                            ![i].revoked = FALSE]
    /\ UNCHANGED <<file, files, pairs, history>>

\* The screen asks for a key of the linked issuer, even where the row signs itself.
SignerHasKey(i) == rows[IF rows[i].issuer = NoId THEN i ELSE rows[i].issuer].key # NoKey

RenewRoot(i) ==
    /\ SignerHasKey(i)
    /\ SelfIssued(rows[i].cert)
    /\ rows[i].type = "ca"
    /\ ReplaceCert(i, i, NoId)

RenewIssued(i) ==
    /\ ~(SelfIssued(rows[i].cert) /\ rows[i].type = "ca")
    /\ rows[i].issuer # NoId
    /\ rows[rows[i].issuer].type = "ca"
    /\ ReplaceCert(i, rows[i].issuer, rows[i].issuer)

Resign(i, ca) ==
    /\ ca # i
    /\ ReplaceCert(i, ca, ca)

\* A link from a certificate to an issuer that did not sign it.
WrongLinks(c, parent) ==
    IF c.issuer = parent.subject /\ Verifies(parent, c) THEN {}
    ELSE {<<c.serial, parent.subject, parent.pub>>}

FewErrors == Cardinality(guessed') + Cardinality(strayed') <= MaxErrors

Attach(i, ca) ==
    /\ ca # i
    /\ rows' = [rows EXCEPT ![i].issuer = ca]
    /\ guessed' = guessed \cup WrongLinks(rows[i].cert, rows[ca].cert)
    /\ UNCHANGED <<file, files, pairs, serials, strayed>>
    /\ FewErrors

\* revoke and unrevoke, offered of a row with an issuer
ToggleRevoked(i) ==
    /\ rows[i].issuer # NoId
    /\ rows' = [rows EXCEPT ![i].revoked = ~@]
    /\ UNCHANGED <<file, files, pairs, serials, history>>

\* Mutant of Delete: no foreign key.
DeleteLeavingLinks(i) ==
    /\ rows' = [j \in DOMAIN rows \ {i} |-> rows[j]]
    /\ UNCHANGED <<file, files, pairs, serials, history>>

\* ON DELETE SET NULL
Delete(i) ==
    /\ rows' = [j \in DOMAIN rows \ {i} |->
                   IF rows[j].issuer = i THEN [rows[j] EXCEPT !.issuer = NoId] ELSE rows[j]]
    /\ UNCHANGED <<file, files, pairs, serials, history>>

----------------------------------------------------------------------------
(* PEM files.                                                              *)

ExportChain(i) ==
    /\ LET chain == BuildChain(i)
       IN  file' = [is |-> "pem", certs |-> [n \in DOMAIN chain |-> rows[chain[n]].cert]]
    /\ CountFile
    /\ UNCHANGED <<rows, pairs, serials, history>>

\* The position of the leaf: the first certificate that issued none of the others.
LeafOf(certs) ==
    LET leaves == {n \in DOMAIN certs : \A m \in DOMAIN certs :
                      m # n => certs[m].issuer # certs[n].subject}
    IN  IF leaves = {} THEN 1 ELSE Min(leaves)

\* Those of a file that are left, in its order.
Selected(certs, S) ==
    [k \in 1..Cardinality(S) |-> certs[Min({n \in S : Cardinality({m \in S : m <= n}) = k})]]

OrderChain(certs) ==
    LET issuers(c) == {n \in DOMAIN certs : certs[n].subject = c.issuer}
        last(S) == certs[Max(S)]
        follow[at \in (SUBSET Range(certs)) \X Range(certs)] ==
            LET seen == at[1]
                c == at[2]
            IN  IF issuers(c) = {} \/ last(issuers(c)) \in seen THEN <<c>>
                ELSE <<c>> \o follow[<<seen \cup {last(issuers(c))}, last(issuers(c))>>]
        leaf == certs[LeafOf(certs)]
        ordered == follow[<<{leaf}, leaf>>]
    IN  ordered \o Selected(certs, {n \in DOMAIN certs : certs[n] \notin Range(ordered)})

\* The chain of a file from the top: each becomes the issuer of the next.
SaveChain(certs, issuer) ==
    LET saved[n \in 1..Len(certs)] ==
            IF n = Len(certs) THEN [table |-> rows, parent |-> issuer]
            ELSE LET above == saved[n + 1]
                     c == certs[n + 1]
                 IN  IF HasCert(above.table, c) THEN [above EXCEPT !.parent = IdOf(above.table, c)]
                     ELSE [table |-> Add(above.table, NewRow("ca", c, NoKey, above.parent)),
                           parent |-> FreshId(above.table)]
    IN  saved[1]

NewLinks(table) ==
    UNION {WrongLinks(table[i].cert, table[table[i].issuer].cert) :
              i \in {j \in DOMAIN table \ DOMAIN rows : table[j].issuer # NoId}}

\* saveImport; nothing compares the key with the certificate.
ImportFile(certs, type, chainAsCas, issuer, key) ==
    LET ordered == OrderChain(certs)
        chain == IF chainAsCas THEN SaveChain(ordered, issuer)
                               ELSE [table |-> rows, parent |-> issuer]
        leaf == ordered[1]
        table == IF HasCert(chain.table, leaf) THEN chain.table
                 ELSE Add(chain.table, NewRow(type, leaf, key, chain.parent))
    IN  /\ HasRoom(Len(ordered))
        /\ chainAsCas => Len(certs) > 1
        /\ rows' = table
        /\ guessed' = guessed \cup NewLinks(table)
        /\ strayed' = IF key \in {NoKey, leaf.pub} THEN strayed ELSE strayed \cup {<<leaf.pub, key>>}
        /\ UNCHANGED <<file, files, pairs, serials>>
        /\ FewErrors

----------------------------------------------------------------------------
(* Bundles.                                                                *)

ItemOf(i, key, issuer) ==
    [cert |-> rows[i].cert, type |-> rows[i].type, key |-> key, issuer |-> issuer]

CertOf(i) == IF i = NoId THEN NoCert ELSE rows[i].cert

\* Parents travel without their keys, and without their own issuers.
ExportCert(i, includeParents) ==
    /\ file' = [is |-> "bundle",
                items |-> {ItemOf(i, rows[i].key, CertOf(rows[i].issuer))} \cup
                          (IF includeParents
                           THEN LET up == ParentsOf(i)
                                IN  {ItemOf(up[n], NoKey, NoCert) : n \in DOMAIN up}
                           ELSE {})]
    /\ CountFile
    /\ UNCHANGED <<rows, pairs, serials, history>>

ExportSubtree(i) ==
    /\ rows[i].type = "ca"
    /\ file' = [is |-> "bundle",
                items |-> {ItemOf(i, rows[i].key, NoCert)} \cup
                          {ItemOf(k, rows[k].key, CertOf(rows[k].issuer)) : k \in DescendantsOf(i)}]
    /\ CountFile
    /\ UNCHANGED <<rows, pairs, serials, history>>

\* Mutant of Merge: every certificate gets the first key of the bundle.
MergeFirstKey(items, overwriteKey) ==
    LET new == {it \in items : ~HasCert(rows, it.cert)}
        ids == CHOOSE f \in [new -> Id \ DOMAIN rows] : \A a, b \in new : f[a] = f[b] => a = b
        key == (CHOOSE it \in items : \A a \in items : a.key <= it.key).key
        added(id) == LET it == CHOOSE a \in new : ids[a] = id
                     IN  NewRow(it.type, it.cert, key, NoId)
    IN  [i \in DOMAIN rows \cup {ids[it] : it \in new} |->
            IF i \in DOMAIN rows THEN rows[i] ELSE added(i)]

\* insertCertItem: a row for each certificate that has none, a key where one is missing
Merge(items, overwriteKey) ==
    LET new == {it \in items : ~HasCert(rows, it.cert)}
        ids == CHOOSE f \in [new -> Id \ DOMAIN rows] : \A a, b \in new : f[a] = f[b] => a = b
        merged(row, it) == IF it.key # NoKey /\ (row.key = NoKey \/ overwriteKey)
                           THEN [row EXCEPT !.key = it.key] ELSE row
        added(id) == LET it == CHOOSE a \in new : ids[a] = id
                     IN  NewRow(it.type, it.cert, it.key, NoId)
    IN  [i \in DOMAIN rows \cup {ids[it] : it \in new} |->
            IF i \notin DOMAIN rows THEN added(i)
            ELSE IF \E it \in items : it.cert = rows[i].cert
                 THEN merged(rows[i], CHOOSE it \in items : it.cert = rows[i].cert)
            ELSE rows[i]]

\* Mutant of Relink: a row that has an issuer keeps it.
RelinkUnlinked(table, items) ==
    [i \in DOMAIN table |->
        LET found == {it.issuer : it \in {a \in items : a.cert = table[i].cert /\
                                                       HasCert(table, a.issuer)}}
        IN  IF found = {} \/ table[i].issuer # NoId THEN table[i]
            ELSE [table[i] EXCEPT !.issuer = IdOf(table, CHOOSE c \in found : TRUE)]]

\* The links of the items, where the issuer is there.
Relink(table, items) ==
    [i \in DOMAIN table |->
        LET named == {it.issuer : it \in {a \in items : a.cert = table[i].cert}}
            found == {c \in named : HasCert(table, c)}
        IN  IF found = {} THEN table[i]
            ELSE [table[i] EXCEPT !.issuer = IdOf(table, CHOOSE c \in found : TRUE)]]

ImportBundle(items, overwriteKey) ==
    /\ HasRoom(Cardinality({it \in items : ~HasCert(rows, it.cert)}))
    /\ rows' = Relink(Merge(items, overwriteKey), items)
    /\ UNCHANGED <<file, files, pairs, serials, history>>

\* Another context is opened, one without certificates.
OpenEmptyContext ==
    /\ rows # <<>>
    /\ rows' = <<>>
    /\ UNCHANGED <<file, files, pairs, serials, history>>

----------------------------------------------------------------------------
(* The audit.                                                              *)

\* Mutant of FindCandidateIssuer: a name is enough.
FindCandidateByName(i) == {ca \in Cas \ {i} : rows[ca].cert.subject = rows[i].cert.issuer}

FindCandidateIssuer(i) ==
    {ca \in Cas \ {i} : /\ rows[ca].cert.subject = rows[i].cert.issuer
                        /\ Verifies(rows[ca].cert, rows[i].cert)}

ExpectsParent(i) == ~(rows[i].type = "ca" /\ SelfIssued(rows[i].cert))

\* issuer-not-set, issuer-dn-mismatch, signature-invalid
IssuerFinding(i) ==
    LET p == rows[i].issuer
    IN  IF p = NoId THEN ExpectsParent(i)
        ELSE \/ rows[p].cert.subject # rows[i].cert.issuer
             \/ ~Verifies(rows[p].cert, rows[i].cert)

Fixable == {i \in DOMAIN rows : IssuerFinding(i) /\ FindCandidateIssuer(i) # {}}

\* One finding of the report, or all of them; relinkIssuer
FixIssuers(S) ==
    /\ S \subseteq Fixable /\ S # {}
    /\ \E to \in [S -> Cas] :
          /\ \A i \in S : to[i] \in FindCandidateIssuer(i)
          /\ rows' = [i \in DOMAIN rows |-> IF i \in S THEN [rows[i] EXCEPT !.issuer = to[i]]
                                                       ELSE rows[i]]
    /\ UNCHANGED <<file, files, pairs, serials, history>>

----------------------------------------------------------------------------

Next ==
    \/ \E name \in DN : CreateCa(name)
    \/ \E i \in DOMAIN rows, name \in DN : IssueIntermediate(i, name) \/ IssueCert(i, name)
    \/ \E i \in DOMAIN rows : \/ RenewRoot(i) \/ RenewIssued(i) \/ ToggleRevoked(i) \/ Delete(i)
                              \/ ExportChain(i) \/ ExportSubtree(i)
    \/ \E i \in DOMAIN rows, ca \in Cas : Resign(i, ca) \/ Attach(i, ca)
    \/ \E i \in DOMAIN rows, includeParents \in BOOLEAN : ExportCert(i, includeParents)
    \/ /\ file.is = "pem"
       /\ \E type \in {"ca", "leaf"}, chainAsCas \in BOOLEAN, issuer \in Cas \cup {NoId},
             key \in {NoKey} \cup 1..pairs :
                ImportFile(file.certs, type, chainAsCas, issuer, key)
    \/ file.is = "bundle" /\ \E overwriteKey \in BOOLEAN : ImportBundle(file.items, overwriteKey)
    \/ OpenEmptyContext
    \/ \E S \in {Fixable} \cup {{i} : i \in Fixable} : FixIssuers(S)

Spec == Init /\ [][Next]_vars

----------------------------------------------------------------------------
(* Properties.                                                             *)

\* A private key lies in the row of its certificate, through renewals and bundles,
\* unless a user once picked the key file of another pair.
KeysBelong ==
    \A i \in DOMAIN rows :
        rows[i].key \in {NoKey, rows[i].cert.pub} \/ <<rows[i].cert.pub, rows[i].key>> \in strayed

\* A linked issuer names and verifies the certificate, even after either was renewed,
\* signed again or carried over, unless the link was chosen or guessed, or the issuer
\* signed with a stray key.
LinksVerify ==
    \A i \in DOMAIN rows :
        rows[i].issuer # NoId =>
            LET c == rows[i].cert
                p == rows[rows[i].issuer].cert
            IN  \/ WrongLinks(c, p) \subseteq guessed
                \/ <<p.pub, c.by>> \in strayed

\* What verifyCert accepts has no revoked row and no wrong signature above it, and is
\* not part of a cycle of links.
VerifiedMeansSound ==
    \A i \in DOMAIN rows : VerifyCert(i) =>
        LET up[S \in SUBSET DOMAIN rows] ==
                LET more == {rows[j].issuer : j \in S} \ (S \cup {NoId})
                IN  IF more = {} THEN S ELSE up[S \cup more]
            above == up[{i}]
        IN  /\ \A j \in above : ~rows[j].revoked
            /\ \A j \in above : rows[j].issuer # NoId =>
                    Verifies(rows[rows[j].issuer].cert, rows[j].cert)
            /\ \E j \in above : rows[j].issuer = NoId

\* Every link inside a bundle is a link of the context that imported it.
BundleKeepsLinks ==
    [][\A overwriteKey \in BOOLEAN : file.is = "bundle" /\ ImportBundle(file.items, overwriteKey) =>
         \A a, b \in file.items : a.issuer = b.cert =>
            \E i, p \in DOMAIN rows' :
                rows'[i].cert = a.cert /\ rows'[i].issuer = p /\ rows'[p].cert = b.cert]_vars

\* After all fixes of a report a new audit has none to offer, and each link that
\* changed is to an issuer that verifies the certificate.
AuditSettles ==
    [][FixIssuers(Fixable) =>
         /\ Fixable' = {}
         /\ \A i \in DOMAIN rows : rows'[i].issuer # rows[i].issuer =>
                Verifies(rows'[rows'[i].issuer].cert, rows'[i].cert)]_vars

=============================================================================
