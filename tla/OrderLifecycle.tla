---------------------------- MODULE OrderLifecycle ----------------------------
(***************************************************************************)
(* What the ACME server promises of an order, without challenges, workers, *)
(* statements or crashes: the status graph, and that a certificate is      *)
(* issued at most once, only while the order is being finalized or when an *)
(* administrator vouches for it.  Bans and the expiry tick act on several  *)
(* orders in one step.                                                     *)
(***************************************************************************)
CONSTANT Order

VARIABLES
    phase,      \* phase[o]: the order's status
    outOfBand,  \* orders an administrator created
    issued      \* orders for which a certificate exists

vars == <<phase, outOfBand, issued>>

Open == {"pending", "ready", "processing"}

Init ==
    /\ phase = [o \in Order |-> "none"]
    /\ outOfBand = {}
    /\ issued = {}

Move(o, from, to) ==
    /\ phase[o] = from
    /\ phase' = [phase EXCEPT ![o] = to]

Create(o) ==
    /\ Move(o, "none", "pending")
    /\ outOfBand' \in {outOfBand, outOfBand \cup {o}}
    /\ UNCHANGED issued

Promote(o) == Move(o, "pending", "ready") /\ UNCHANGED <<outOfBand, issued>>

Finalize(o) == Move(o, "ready", "processing") /\ UNCHANGED <<outOfBand, issued>>

Issue(o) ==
    /\ o \notin issued
    /\ phase[o] = IF o \in outOfBand THEN "valid" ELSE "processing"
    /\ issued' = issued \cup {o}
    /\ UNCHANGED <<phase, outOfBand>>

Complete(o) ==
    /\ o \in issued
    /\ Move(o, "processing", "valid")
    /\ UNCHANGED <<outOfBand, issued>>

Vouch(o) ==
    /\ o \in outOfBand
    /\ Move(o, "pending", "valid")
    /\ UNCHANGED <<outOfBand, issued>>

\* Failure may strike any order; expiry only an open one.
Close(S, to) ==
    /\ \A o \in S : phase[o] \in IF to = "expired" THEN Open
                                 ELSE Open \cup {"valid", "invalid", "expired"}
    /\ phase' = [o \in Order |-> IF o \in S THEN to ELSE phase[o]]
    /\ UNCHANGED <<outOfBand, issued>>

Next ==
    \/ \E o \in Order : Create(o) \/ Promote(o) \/ Finalize(o) \/ Issue(o)
                           \/ Complete(o) \/ Vouch(o)
    \/ \E S \in SUBSET Order, to \in {"invalid", "expired"} : Close(S, to)

Spec == Init /\ [][Next]_vars

=============================================================================
