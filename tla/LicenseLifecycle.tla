-------------------------- MODULE LicenseLifecycle --------------------------
(***************************************************************************)
(* What the Status Server promises of one license: the life of a status    *)
(* document (README, license_status section; comments of                   *)
(* lsdserver/api/license_status.go), each request in one step.             *)
(***************************************************************************)
EXTENDS Naturals

CONSTANTS NoDate

VARIABLES
    status,     \* "none" until the License Server notifies the license
    end,        \* the current end of the rights
    potential,  \* the latest end a renewal may reach
    now

lvars == <<status, end, potential, now>>

Final == {"revoked", "returned", "cancelled"}
Usable == {"ready", "active"}

Init ==
    /\ status = "none"
    /\ end = NoDate
    /\ potential = NoDate
    /\ now \in Nat

\* A maximum is set only for a loan, and is not before its end.
Notify ==
    /\ status = "none"
    /\ status' \in Usable
    /\ end' \in Nat \cup {NoDate}
    /\ potential' \in Nat \cup {NoDate}
    /\ potential' # NoDate => end' # NoDate /\ end' <= potential'
    /\ now' = now

\* The first registration of a device, or a later one.
Activate ==
    /\ status \in Usable
    /\ status' = "active"
    /\ UNCHANGED <<end, potential, now>>

Expire ==
    /\ status \in Usable
    /\ end # NoDate /\ end < now
    /\ status' = "expired"
    /\ UNCHANGED <<end, potential, now>>

\* A renewal or an extension only lengthens a loan, within its maximum.
Extend ==
    /\ status \in Usable \cup {"expired"}
    /\ end # NoDate /\ potential # NoDate
    /\ status' = "active"
    /\ end' \in Nat
    /\ end <= end' /\ end' <= potential
    /\ UNCHANGED <<potential, now>>

\* A return, a cancellation or a revocation ends the loan at an instant that has passed.
\* Only an unused license is cancelled, only a license that has not expired is revoked.
Close ==
    /\ \/ status = "ready" /\ status' = "cancelled"
       \/ status = "active" /\ status' \in {"returned", "revoked"}
       \/ status = "expired" /\ status' = "returned"
    /\ end' \in Nat
    /\ end' <= now
    /\ potential' = NoDate
    /\ now' = now

Tick ==
    /\ now' \in Nat
    /\ now' > now
    /\ UNCHANGED <<status, end, potential>>

Next == Notify \/ Activate \/ Expire \/ Extend \/ Close \/ Tick

Spec == Init /\ [][Next]_lvars
=============================================================================
