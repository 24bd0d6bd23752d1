------------------------------ MODULE Purchase ------------------------------
(***************************************************************************)
(* One purchase of the frontend server: its row in the purchase table and  *)
(* the licenses the License Server generates for it.  The handlers of      *)
(* frontend/api/purchase.go run in goroutines of their own and call the    *)
(* License Server and the Status Server between their read of the row and  *)
(* their write.                                                            *)
(*                                                                         *)
(* The two servers are seen from here as one table, remote: a license is   *)
(* generated with an end date, becomes known to the Status Server later    *)
(* (LicenseServer models why), and is renewed or returned (StatusServer).  *)
(* The status of a purchase is left out: Add and Update only ever store    *)
(* "ok", and "to-be-renewed" and "to-be-returned" are the operation a      *)
(* client asks for; the manage interface sends no other status, for which  *)
(* Update would write what the body holds.  A request that is refused      *)
(* changes nothing.                                                        *)
(***************************************************************************)
EXTENDS Naturals

CONSTANTS
    Workers,    \* goroutines of the frontend that may serve requests at the same time
    Licenses,   \* license ids the License Server may draw
    Ends,       \* end dates of loans, all in the future
    Nil,        \* a nil pointer
    Failures    \* whether network, database and process failures happen

ASSUME PurchaseAssumption ==
    Ends \subseteq Nat \ {0} /\ Nil \notin Nat \cup Licenses /\ Failures \in BOOLEAN

VARIABLES
    row,        \* the purchase row, Nil before Add
    remote,     \* remote[l]: license l on the License and Status Servers
    ui,         \* the purchase as the manage interface last read it
    delivered,  \* licenses handed to the user
    h,          \* h[w]: the request worker w is serving
    failed,     \* whether a failure has happened
    direct,     \* whether a license was changed without the frontend
    loan,       \* the type of the purchase: LOAN, or BUY; no statement updates it
    behind      \* whether the last renewal or return was cut off after it took effect

vars == <<row, remote, ui, delivered, h, failed, direct, loan, behind>>

\* The end date a return gives a license: an instant that has passed.
Past == 0
End == Ends \cup {Nil, Past}

Row == [license : Licenses \cup {Nil}, end : End]
NoRow == [license |-> Nil, end |-> Nil]

\* known: the Status Server has the document of the license; open: it can be returned.
Remote == [end : End, known : BOOLEAN, open : BOOLEAN]

ASSUME NilIsNoRecord == Nil \notin Row \cup Remote

\* pc names the next call: "post" to the License Server, "get" the row again, "put" to the
\* Status Server, read the "partial" license, "write" the row.  p is the purchase passed to
\* Update, orig the license id Update has read.
Request == [pc : {"idle", "post", "get", "put", "partial", "write"},
            op : {"none", "license", "renew", "return"},
            p : Row, orig : Licenses \cup {Nil}]

Idle == [pc |-> "idle", op |-> "none", p |-> NoRow, orig |-> Nil]

\* One type invariant for the module.
TypeOK ==
    /\ row \in Row \cup {Nil}
    /\ remote \in [Licenses -> Remote \cup {Nil}]
    /\ ui \in Row
    /\ delivered \subseteq Licenses
    /\ h \in [Workers -> Request]
    /\ failed \in BOOLEAN
    /\ direct \in BOOLEAN
    /\ loan \in BOOLEAN
    /\ behind \in BOOLEAN

-----------------------------------------------------------------------------
(* A definition X_bug that stands before a definition X is a mutated form  *)
(* of it; the specification uses none of them.                             *)

Stop(w) == h' = [h EXCEPT ![w] = Idle]

\* PurchaseManager.Get succeeds: it asks the Status Server for the document of the license.
GetSucceeds == row # Nil /\ (row.license # Nil => remote[row.license].known)

\* CreatePurchase: the end date is stored whatever the type.
CreatePurchase ==
    /\ row = Nil
    /\ \E e \in Ends \cup {Nil} : row' = [license |-> Nil, end |-> e]
    /\ loan' \in BOOLEAN
    /\ UNCHANGED <<remote, ui, delivered, h, failed, direct, behind>>

\* GetPurchase, for the manage interface.
GetPurchase ==
    /\ GetSucceeds
    /\ ui' = row
    /\ UNCHANGED <<row, remote, delivered, h, failed, direct, loan, behind>>

GetPurchasedLicense_ignoresId(w) ==
    /\ h[w].pc = "idle" /\ GetSucceeds
    /\ h' = [h EXCEPT ![w] = [pc |-> "post", op |-> "license",
                              p |-> [row EXCEPT !.license = Nil], orig |-> Nil]]
    /\ UNCHANGED <<row, remote, ui, delivered, failed, direct, loan, behind>>

GetPurchasedLicense(w) ==
    /\ h[w].pc = "idle" /\ GetSucceeds
    /\ h' = [h EXCEPT ![w] = [pc |-> "post", op |-> "license", p |-> row, orig |-> Nil]]
    /\ UNCHANGED <<row, remote, ui, delivered, failed, direct, loan, behind>>

\* The License Server stores a license with the end date of a loan.
Generated(w, l) ==
    /\ h[w].pc = "post" /\ h[w].p.license = Nil
    /\ remote[l] = Nil
    /\ remote' = [remote EXCEPT ![l] = [end |-> IF loan THEN h[w].p.end ELSE Nil,
                                       known |-> FALSE, open |-> TRUE]]

GenerateLicense_deliversFirst(w, l) ==
    /\ Generated(w, l)
    /\ h' = [h EXCEPT ![w].pc = "get", ![w].p.license = l]
    /\ delivered' = delivered \cup {l}
    /\ UNCHANGED <<row, ui, failed, direct, loan, behind>>

\* GenerateOrGetLicense: the purchase has no license id, a license is generated.
GenerateLicense(w, l) ==
    /\ Generated(w, l)
    /\ h' = [h EXCEPT ![w].pc = "get", ![w].p.license = l]
    /\ UNCHANGED <<row, ui, delivered, failed, direct, loan, behind>>

\* The license is generated but the answer is lost or cannot be decoded.
GenerateLicenseTimeout(w, l) ==
    /\ Failures
    /\ Generated(w, l)
    /\ Stop(w)
    /\ failed' = TRUE
    /\ UNCHANGED <<row, ui, delivered, direct, loan, behind>>

\* GenerateOrGetLicense: the purchase has a license id, the license is fetched.
FetchLicense(w) ==
    /\ h[w].pc = "post" /\ h[w].p.license # Nil
    /\ delivered' = delivered \cup {h[w].p.license}
    /\ Stop(w)
    /\ UNCHANGED <<row, remote, ui, failed, direct, loan, behind>>

\* UpdatePurchase, as the manage interface calls it: with the license id it has read (a
\* handler that receives none panics) and, for a renewal, the end date that was typed.
UpdatePurchase(w) ==
    /\ h[w].pc = "idle"
    /\ ui.license # Nil
    /\ \E op \in {"renew", "return"}, e \in Ends \cup {Nil} :
          h' = [h EXCEPT ![w] = [pc |-> "get", op |-> op,
                                 p |-> [license |-> ui.license, end |-> e], orig |-> Nil]]
    /\ UNCHANGED <<row, remote, ui, delivered, failed, direct, loan, behind>>

UpdateGet_ofNewLicense(w) ==
    /\ h[w].pc = "get"
    /\ IF remote[h[w].p.license].known
       THEN h' = [h EXCEPT ![w].orig = row.license,
                           ![w].pc = IF h[w].op = "license" THEN "write" ELSE "put"]
       ELSE Stop(w)
    /\ UNCHANGED <<row, remote, ui, delivered, failed, direct, loan, behind>>

\* Update: the row is read again.
UpdateGet(w) ==
    /\ h[w].pc = "get"
    /\ IF GetSucceeds
       THEN h' = [h EXCEPT ![w].orig = row.license,
                           ![w].pc = IF h[w].op = "license" THEN "write" ELSE "put"]
       ELSE Stop(w)
    /\ UNCHANGED <<row, remote, ui, delivered, failed, direct, loan, behind>>

\* What the Status Server makes of a renewal until e (Nil: it chooses) or of a return.
Renewals(lic, e) ==
    IF ~lic.known \/ ~lic.open \/ lic.end = Nil THEN {}
    ELSE {[lic EXCEPT !.end = f] : f \in {f \in Ends : f >= lic.end /\ e \in {f, Nil}}}
Returns(lic) ==
    IF lic.known /\ lic.open THEN {[lic EXCEPT !.end = Past, !.open = FALSE]} ELSE {}
Outcomes(op, lic, e) == IF op = "renew" THEN Renewals(lic, e) ELSE Returns(lic)

\* Update: the Status Server renews or returns the license, or refuses.
PutLicense(w) ==
    LET r == h[w]  results == Outcomes(r.op, remote[r.p.license], r.p.end) IN
    /\ r.pc = "put"
    /\ \/ \E new \in results : /\ remote' = [remote EXCEPT ![r.p.license] = new]
                               /\ h' = [h EXCEPT ![w].pc = "partial"]
       \/ results = {} /\ Stop(w) /\ UNCHANGED remote
    /\ UNCHANGED <<row, ui, delivered, failed, direct, loan, behind>>

\* The Status Server does its work, wholly or up to the PATCH, but does not answer 200.
PutLicenseLost(w) ==
    LET r == h[w] IN
    /\ Failures
    /\ r.pc = "put"
    /\ \E new \in Outcomes(r.op, remote[r.p.license], r.p.end) :
          remote' = [remote EXCEPT ![r.p.license] = new]
    /\ Stop(w)
    /\ failed' = TRUE /\ behind' = TRUE
    /\ UNCHANGED <<row, ui, delivered, direct, loan>>

GetPartialLicense_skipped(w) ==
    /\ h[w].pc = "partial"
    /\ h' = [h EXCEPT ![w].pc = "write"]
    /\ UNCHANGED <<row, remote, ui, delivered, failed, direct, loan, behind>>

\* Update: the new end date is read from the license of the row Update has read.
GetPartialLicense(w) ==
    /\ h[w].pc = "partial"
    /\ h' = [h EXCEPT ![w].pc = "write", ![w].p.end = remote[h[w].orig].end]
    /\ UNCHANGED <<row, remote, ui, delivered, failed, direct, loan, behind>>

\* Update: the license id and the dates are written; a license is then sent to the user.
UpdateWrite(w) ==
    LET r == h[w] IN
    /\ r.pc = "write"
    /\ row' = r.p
    /\ delivered' = IF r.op = "license" THEN delivered \cup {r.p.license} ELSE delivered
    /\ behind' = (behind /\ r.op = "license")
    /\ Stop(w)
    /\ UNCHANGED <<remote, ui, failed, direct, loan>>

\* A call of the request fails, or the frontend stops.
Fail(w) ==
    /\ Failures
    /\ h[w].pc # "idle"
    /\ Stop(w)
    /\ failed' = TRUE
    /\ behind' = (behind \/ (h[w].op # "license" /\ h[w].pc \in {"partial", "write"}))
    /\ UNCHANGED <<row, remote, ui, delivered, direct, loan>>

\* The License Server's notification reaches the Status Server.
Notified(l) ==
    /\ remote[l] # Nil /\ ~remote[l].known
    /\ remote' = [remote EXCEPT ![l].known = TRUE]
    /\ UNCHANGED <<row, ui, delivered, h, failed, direct, loan, behind>>

\* A reading application renews or returns, or the manage interface revokes, by a request
\* to the Status Server: the frontend is not told.
ChangedDirectly(l) ==
    /\ remote[l] # Nil
    /\ \E new \in Renewals(remote[l], Nil) \cup Returns(remote[l]) :
          remote' = [remote EXCEPT ![l] = new]
    /\ direct' = TRUE
    /\ UNCHANGED <<row, ui, delivered, h, failed, loan, behind>>

-----------------------------------------------------------------------------

Init ==
    /\ row = Nil
    /\ remote = [l \in Licenses |-> Nil]
    /\ ui = NoRow
    /\ delivered = {}
    /\ h = [w \in Workers |-> Idle]
    /\ failed = FALSE
    /\ direct = FALSE
    /\ loan = FALSE
    /\ behind = FALSE

\* What a started request does next.
Proceed(w) ==
    \/ \E l \in Licenses : GenerateLicense(w, l)
    \/ FetchLicense(w)
    \/ UpdateGet(w)
    \/ PutLicense(w)
    \/ GetPartialLicense(w)
    \/ UpdateWrite(w)

Next ==
    \/ CreatePurchase
    \/ GetPurchase
    \/ \E w \in Workers :
          \/ GetPurchasedLicense(w)
          \/ UpdatePurchase(w)
          \/ Proceed(w)
          \/ \E l \in Licenses : GenerateLicenseTimeout(w, l)
          \/ PutLicenseLost(w)
          \/ Fail(w)
    \/ \E l \in Licenses : Notified(l) \/ ChangedDirectly(l)

Spec == Init /\ [][Next]_vars

\* A goroutine that has started is scheduled until it ends.
FairSpec == Spec /\ \A w \in Workers : WF_vars(Proceed(w))

-----------------------------------------------------------------------------
(* Properties of requests served one after the other, with failures *)

\* A purchase that has a license keeps it: whatever GenerateOrGetLicense leaves behind when
\* it fails, the id in the row is never replaced nor erased by a later request.
LicenseIdKept ==
    [][row # Nil => row' # Nil /\ (row.license # Nil => row'.license = row.license)]_vars

\* The user never holds a license the frontend does not know of: licenses generated by
\* requests that failed before the row was updated are not handed out.
DeliveredIsRecorded ==
    /\ TypeOK
    /\ delivered # {} => row # Nil /\ delivered = {row.license}

\* Between requests, the end date of a loan is the end date of its license, and so is that of
\* a purchase whose license has got one; a license generated for a purchase of type BUY has
\* none, whatever end date the row holds.  Only a change behind the frontend's back and a
\* renewal or return that is cut off after the Status Server took it break this, and the
\* next renewal or return that succeeds restores it after the latter.
EndFollowsLicense ==
    (row # Nil /\ row.license # Nil /\ ~behind /\ ~direct /\ \A w \in Workers : h[w] = Idle)
        => \/ row.end = remote[row.license].end
           \/ ~loan /\ remote[row.license].end = Nil

\* A user who asks for the license gets it, unless a call fails; although the Status Server
\* learns of the license at any time after GenerateOrGetLicense has generated it.
LicenseDelivered ==
    \A w \in Workers :
        h[w].pc = "post" ~> failed \/ (row # Nil /\ row.license \in delivered)
=============================================================================
