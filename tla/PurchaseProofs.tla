--------------------------- MODULE PurchaseProofs ---------------------------
(***************************************************************************)
(* Proofs about Purchase for every number of licenses and every set of end *)
(* dates: first what holds of any number of goroutines, then what holds of *)
(* requests served one after the other.                                    *)
(***************************************************************************)
EXTENDS Purchase, TLAPS

(***************************************************************************)
(* The first inductive invariant, for any number of goroutines: every      *)
(* license id that the row, the manage interface, a request or the user    *)
(* holds is the id of a license that exists.                               *)
(***************************************************************************)

\* The requests that pass a license to Update, up to its write.
Updating(r) == r.pc \in {"get", "put", "partial", "write"}

LicenseExists == row # Nil /\ row.license # Nil => remote[row.license] # Nil

ReadExists ==
    ui.license # Nil => /\ row # Nil /\ row.license # Nil
                        /\ remote[ui.license] # Nil

DeliveredExists == \A l \in delivered : remote[l] # Nil

RequestExists(r) ==
    /\ r.pc # "idle" => row # Nil
    /\ r.pc = "post" => r.op = "license" /\ (r.p.license # Nil => remote[r.p.license] # Nil)
    /\ Updating(r) => r.p.license # Nil /\ remote[r.p.license] # Nil
    /\ Updating(r) /\ r.op # "license" => row.license # Nil
    /\ r.pc \in {"put", "partial"} =>
          r.op # "license" /\ r.orig # Nil /\ remote[r.orig] # Nil

EInv ==
    /\ TypeOK
    /\ LicenseExists
    /\ ReadExists
    /\ DeliveredExists
    /\ \A w \in Workers : RequestExists(h[w])

(***************************************************************************)
(* The second one, for requests served one after the other (Serial): two   *)
(* requests for the same purchase would each generate a license.  A        *)
(* request that has a license to write has the one of the row, unless the  *)
(* row has none; the dates agree except between the call to the Status     *)
(* Server and the write of the row, or when that write was not reached.    *)
(***************************************************************************)

\* At most one request at a time.
Serial == \A v, w \in Workers : v = w

\* The manage interface sends back the license id it has read.
ReadIsCurrent == ui.license # Nil => ui.license = row.license

DeliveredOK == delivered # {} => row # Nil /\ delivered = {row.license}

RequestOK(r) ==
    /\ r.pc = "post" => r.p = row
    /\ Updating(r) /\ r.op = "license" => row.license = Nil /\ r.p.end = row.end
    /\ Updating(r) /\ r.op # "license" => r.p.license = row.license
    /\ r.pc \in {"put", "partial"} => r.orig = row.license

\* The end date of a purchase and the one of its license agree.
Matches(end, l) == end = remote[l].end \/ (~loan /\ remote[l].end = Nil)

Agree == row.license # Nil => Matches(row.end, row.license)

EndOK(r) ==
    /\ r.pc \notin {"partial", "write"} /\ row # Nil /\ ~behind => Agree
    /\ Updating(r) /\ (r.op = "license" \/ r.pc = "write") => Matches(r.p.end, r.p.license)

SInv ==
    /\ ReadIsCurrent
    /\ DeliveredOK
    /\ \A w \in Workers : RequestOK(h[w])
    /\ ~direct => \A w \in Workers : EndOK(h[w])
    /\ Workers = {} => row = Nil \/ row.license = Nil

-----------------------------------------------------------------------------
(* Typing, for any number of goroutines *)

\* The outcome of a renewal or a return is a license again.
LEMMA OutcomesType ==
    ASSUME NEW l \in Remote, NEW e, NEW op
    PROVE  Outcomes(op, l, e) \subseteq Remote /\ Renewals(l, e) \subseteq Remote
           /\ Returns(l) \subseteq Remote
<1>1. ASSUME NEW f \in Ends PROVE [l EXCEPT !.end = f] \in Remote
  BY DEF Remote, End
<1>2. [l EXCEPT !.end = Past, !.open = FALSE] \in Remote
  BY DEF Remote, End
<1>3. Renewals(l, e) \subseteq Remote
  BY <1>1 DEF Renewals
<1>4. Returns(l) \subseteq Remote
  BY <1>2 DEF Returns
<1> QED
  BY <1>3, <1>4 DEF Outcomes

\* The empty request is a request.
LEMMA IdleType == Idle \in Request
BY DEF Idle, Request, Row, NoRow, End

\* Typing of the first state.
LEMMA InitType == Init => TypeOK
<1> SUFFICES ASSUME Init PROVE TypeOK
  OBVIOUS
<1>1. NoRow \in Row
  BY DEF NoRow, Row, End
<1>2. h \in [Workers -> Request] /\ remote \in [Licenses -> Remote \cup {Nil}]
  BY IdleType DEF Init
<1> QED
  BY <1>1, <1>2 DEF Init, TypeOK

\* A license that Update or a reading application acts upon is a record.
LEMMA RemoteType ==
    ASSUME TypeOK, NEW l \in Licenses, remote[l] # Nil
    PROVE  remote[l] \in Remote
BY DEF TypeOK

\* The license that is generated for the purchase of a request.
New(r) == [end |-> IF loan THEN r.p.end ELSE Nil, known |-> FALSE, open |-> TRUE]

\* A generated license is a record.
LEMMA GeneratedType ==
    ASSUME NEW r \in Request
    PROVE  New(r) \in Remote /\ New(r) # Nil
<1>1. New(r) \in Remote
  BY DEF New, Remote, Request, Row, End
<1> QED
  BY <1>1, NilIsNoRecord

\* Every step keeps the types.  The existence of the license of a request is needed for
\* the records that are read.
LEMMA TypeStep ==
    ASSUME EInv, Next
    PROVE  TypeOK'
<1> USE DEF TypeOK, EInv
<1>1. CASE CreatePurchase
  BY <1>1 DEF CreatePurchase, Row, End
<1>2. CASE GetPurchase
  BY <1>2 DEF GetPurchase, GetSucceeds
<1>3. ASSUME NEW w \in Workers, GetPurchasedLicense(w) PROVE TypeOK'
  <2>1. [pc |-> "post", op |-> "license", p |-> row, orig |-> Nil] \in Request
    BY <1>3 DEF GetPurchasedLicense, GetSucceeds, Request
  <2> QED
    BY <1>3, <2>1 DEF GetPurchasedLicense
<1>4. ASSUME NEW w \in Workers, UpdatePurchase(w) PROVE TypeOK'
  <2>1. PICK op \in {"renew", "return"}, e \in Ends \cup {Nil} :
           h' = [h EXCEPT ![w] = [pc |-> "get", op |-> op,
                                  p |-> [license |-> ui.license, end |-> e], orig |-> Nil]]
    BY <1>4 DEF UpdatePurchase
  <2>2. [pc |-> "get", op |-> op, p |-> [license |-> ui.license, end |-> e], orig |-> Nil]
           \in Request
    BY <2>1 DEF Request, Row, End
  <2> QED
    BY <1>4, <2>1, <2>2 DEF UpdatePurchase
<1>5. ASSUME NEW w \in Workers, NEW l \in Licenses, Generated(w, l)
      PROVE  /\ remote' \in [Licenses -> Remote \cup {Nil}]
             /\ [h EXCEPT ![w].pc = "get", ![w].p.license = l] \in [Workers -> Request]
  <2>1. New(h[w]) \in Remote
    BY GeneratedType
  <2>2. remote' \in [Licenses -> Remote \cup {Nil}]
    BY <1>5, <2>1 DEF Generated, New
  <2>3. [h[w] EXCEPT !.pc = "get", !.p.license = l] \in Request
    BY DEF Request, Row
  <2> QED
    BY <2>2, <2>3
<1>6. ASSUME NEW w \in Workers, NEW l \in Licenses, GenerateLicense(w, l) PROVE TypeOK'
  <2>1. Generated(w, l)
    BY <1>6 DEF GenerateLicense
  <2> QED
    BY <1>5, <1>6, <2>1 DEF GenerateLicense
<1>7. ASSUME NEW w \in Workers, NEW l \in Licenses, GenerateLicenseTimeout(w, l) PROVE TypeOK'
  <2>1. Generated(w, l)
    BY <1>7 DEF GenerateLicenseTimeout
  <2> QED
    BY <1>5, <1>7, <2>1, IdleType DEF GenerateLicenseTimeout, Stop
<1>8. ASSUME NEW w \in Workers, FetchLicense(w) PROVE TypeOK'
  <2>1. h[w].p.license \in Licenses
    BY <1>8 DEF FetchLicense, Request, Row
  <2> QED
    BY <1>8, <2>1, IdleType DEF FetchLicense, Stop
<1>9. ASSUME NEW w \in Workers, UpdateGet(w) PROVE TypeOK'
  <2>1. CASE GetSucceeds
    <3> DEFINE next == IF h[w].op = "license" THEN "write" ELSE "put"
    <3>1. row.license \in Licenses \cup {Nil} /\ next \in {"write", "put"}
      BY <2>1 DEF GetSucceeds, Row
    <3>2. h' = [h EXCEPT ![w].orig = row.license, ![w].pc = next]
      BY <1>9, <2>1 DEF UpdateGet
    <3> HIDE DEF next
    <3>3. [h[w] EXCEPT !.orig = row.license, !.pc = next] \in Request
      BY <3>1 DEF Request
    <3>4. h' \in [Workers -> Request]
      BY <3>2, <3>3
    <3> QED
      BY <1>9, <3>4 DEF UpdateGet
  <2>2. CASE ~GetSucceeds
    BY <1>9, <2>2, IdleType DEF UpdateGet, Stop
  <2> QED
    BY <2>1, <2>2
<1>10. ASSUME NEW w \in Workers, h[w].pc = "put"
       PROVE  /\ h[w].p.license \in Licenses
              /\ Outcomes(h[w].op, remote[h[w].p.license], h[w].p.end) \subseteq Remote
              /\ [h EXCEPT ![w].pc = "partial"] \in [Workers -> Request]
  <2>1. h[w] \in Request /\ RequestExists(h[w])
    OBVIOUS
  <2>2. h[w].p.license \in Licenses /\ remote[h[w].p.license] # Nil
    BY <1>10, <2>1 DEF RequestExists, Updating, Request, Row
  <2>3. Outcomes(h[w].op, remote[h[w].p.license], h[w].p.end) \subseteq Remote
    BY <2>2, RemoteType, OutcomesType
  <2>4. [h[w] EXCEPT !.pc = "partial"] \in Request
    BY <2>1 DEF Request
  <2> QED
    BY <2>2, <2>3, <2>4
<1>11. ASSUME NEW w \in Workers, PutLicense(w) PROVE TypeOK'
  <2>1. h[w].pc = "put"
    BY <1>11 DEF PutLicense
  <2>2. remote' \in [Licenses -> Remote \cup {Nil}]
    BY <1>10, <1>11, <2>1 DEF PutLicense
  <2>3. h' \in [Workers -> Request]
    BY <1>10, <1>11, <2>1, IdleType DEF PutLicense, Stop
  <2> QED
    BY <1>11, <2>2, <2>3 DEF PutLicense
<1>12. ASSUME NEW w \in Workers, PutLicenseLost(w) PROVE TypeOK'
  <2>1. h[w].pc = "put"
    BY <1>12 DEF PutLicenseLost
  <2> QED
    BY <1>10, <1>12, <2>1, IdleType DEF PutLicenseLost, Stop
<1>13. ASSUME NEW w \in Workers, GetPartialLicense(w) PROVE TypeOK'
  <2>1. h[w] \in Request /\ RequestExists(h[w]) /\ h[w].pc = "partial"
    BY <1>13 DEF GetPartialLicense
  <2>2. h[w].orig \in Licenses /\ remote[h[w].orig] # Nil
    BY <2>1 DEF RequestExists, Updating, Request, Row
  <2>3. remote[h[w].orig].end \in End
    BY <2>2, RemoteType DEF Remote
  <2>4. [h[w] EXCEPT !.pc = "write", !.p.end = remote[h[w].orig].end] \in Request
    BY <2>1, <2>3 DEF Request, Row
  <2> QED
    BY <1>13, <2>4 DEF GetPartialLicense
<1>14. ASSUME NEW w \in Workers, UpdateWrite(w) PROVE TypeOK'
  <2>1. h[w] \in Request /\ RequestExists(h[w]) /\ h[w].pc = "write"
    BY <1>14 DEF UpdateWrite
  <2>2. h[w].p \in Row /\ h[w].p.license \in Licenses
    BY <2>1 DEF RequestExists, Updating, Request, Row
  <2> QED
    BY <1>14, <2>2, IdleType DEF UpdateWrite, Stop
<1>15. ASSUME NEW w \in Workers, Fail(w) PROVE TypeOK'
  BY <1>15, IdleType DEF Fail, Stop
<1>16. ASSUME NEW l \in Licenses, Notified(l) PROVE TypeOK'
  <2>1. [remote[l] EXCEPT !.known = TRUE] \in Remote
    BY <1>16, RemoteType DEF Notified, Remote
  <2> QED
    BY <1>16, <2>1 DEF Notified
<1>17. ASSUME NEW l \in Licenses, ChangedDirectly(l) PROVE TypeOK'
  <2>1. Renewals(remote[l], Nil) \cup Returns(remote[l]) \subseteq Remote
    BY <1>17, RemoteType, OutcomesType DEF ChangedDirectly
  <2> QED
    BY <1>17, <2>1 DEF ChangedDirectly
<1> QED
  BY <1>1, <1>2, <1>3, <1>4, <1>6, <1>7, <1>8, <1>9, <1>11, <1>12, <1>13, <1>14, <1>15, <1>16,
     <1>17 DEF Next, Proceed

-----------------------------------------------------------------------------
(* The licenses that are referred to, for any number of goroutines *)

\* What exists: licenses are never deleted, nor is the purchase, nor its license id erased.
Grows ==
    /\ \A l \in Licenses : remote[l] # Nil => remote'[l] # Nil
    /\ row # Nil => row' # Nil /\ (row.license # Nil => row'.license # Nil)

\* Every step keeps what exists: Update writes the license id of a license it has got.
LEMMA GrowsStep ==
    ASSUME EInv, Next
    PROVE  Grows
<1> USE DEF EInv, TypeOK, Grows
<1>1. CASE CreatePurchase
  BY <1>1 DEF CreatePurchase
<1>2. CASE GetPurchase
  BY <1>2 DEF GetPurchase
<1>3. ASSUME NEW w \in Workers, GetPurchasedLicense(w) \/ UpdatePurchase(w) \/ FetchLicense(w)
                                \/ UpdateGet(w) \/ GetPartialLicense(w) \/ Fail(w)
      PROVE  Grows
  BY <1>3 DEF GetPurchasedLicense, UpdatePurchase, FetchLicense, UpdateGet, GetPartialLicense, Fail
<1>4. ASSUME NEW w \in Workers, NEW l \in Licenses,
             GenerateLicense(w, l) \/ GenerateLicenseTimeout(w, l)
      PROVE  Grows
  <2>1. Generated(w, l) /\ row' = row
    BY <1>4 DEF GenerateLicense, GenerateLicenseTimeout
  <2>2. New(h[w]) # Nil
    BY GeneratedType
  <2> QED
    BY <2>1, <2>2 DEF Generated, New
<1>5. ASSUME NEW w \in Workers, PutLicense(w) \/ PutLicenseLost(w)
      PROVE  Grows
  <2>1. h[w].pc = "put" /\ row' = row
    BY <1>5 DEF PutLicense, PutLicenseLost
  <2>2. h[w].p.license \in Licenses /\ remote[h[w].p.license] # Nil
    BY <2>1 DEF RequestExists, Updating, Request, Row
  <2>3. Outcomes(h[w].op, remote[h[w].p.license], h[w].p.end) \subseteq Remote
    BY <2>2, RemoteType, OutcomesType
  <2>4. \/ remote' = remote
        \/ \E new \in Remote : remote' = [remote EXCEPT ![h[w].p.license] = new]
    BY <1>5, <2>3 DEF PutLicense, PutLicenseLost
  <2> QED
    BY <2>1, <2>2, <2>4, NilIsNoRecord
<1>6. ASSUME NEW w \in Workers, UpdateWrite(w)
      PROVE  Grows
  <2>1. h[w] \in Request /\ RequestExists(h[w]) /\ h[w].pc = "write" /\ remote' = remote
        /\ row' = h[w].p
    BY <1>6 DEF UpdateWrite
  <2>2. h[w].p \in Row /\ h[w].p.license # Nil
    BY <2>1 DEF RequestExists, Updating, Request
  <2> QED
    BY <2>1, <2>2, NilIsNoRecord
<1>7. ASSUME NEW l \in Licenses, Notified(l)
      PROVE  Grows
  <2>1. [remote[l] EXCEPT !.known = TRUE] \in Remote
    BY <1>7, RemoteType DEF Notified, Remote
  <2> QED
    BY <1>7, <2>1, NilIsNoRecord DEF Notified
<1>8. ASSUME NEW l \in Licenses, ChangedDirectly(l)
      PROVE  Grows
  <2>1. Renewals(remote[l], Nil) \cup Returns(remote[l]) \subseteq Remote
    BY <1>8, RemoteType, OutcomesType DEF ChangedDirectly
  <2> QED
    BY <1>8, <2>1, NilIsNoRecord DEF ChangedDirectly
<1> QED
  BY <1>1, <1>2, <1>3, <1>4, <1>5, <1>6, <1>7, <1>8 DEF Next, Proceed

\* A request that a step leaves alone keeps what it refers to.
LEMMA OtherRequest ==
    ASSUME EInv, Grows, TypeOK', NEW w \in Workers, h'[w] = h[w]
    PROVE  RequestExists(h[w])'
<1>1. /\ h[w] \in Request /\ RequestExists(h[w])
      /\ h[w].p.license \in Licenses \cup {Nil} /\ h[w].orig \in Licenses \cup {Nil}
  BY DEF EInv, TypeOK, Request, Row
<1> QED
  BY <1>1 DEF Grows, RequestExists, Updating

\* So does the manage interface, and what was delivered still exists.
LEMMA OtherReaders ==
    ASSUME EInv, Grows
    PROVE  /\ ui' = ui => ReadExists'
           /\ delivered' = delivered => DeliveredExists'
           /\ row' = row => LicenseExists'
BY DEF EInv, TypeOK, Row, Grows, ReadExists, DeliveredExists, LicenseExists

\* The invariant holds before the purchase is made.
LEMMA InitEInv == Init => EInv
BY InitType DEF Init, EInv, LicenseExists, ReadExists, DeliveredExists, RequestExists, Updating,
                NoRow, Idle

\* Every step keeps the invariant.
LEMMA EInvStep ==
    ASSUME EInv, Next
    PROVE  EInv'
<1>1. TypeOK' /\ Grows
  BY TypeStep, GrowsStep
<1>2. /\ ui' = ui => ReadExists'
      /\ delivered' = delivered => DeliveredExists'
      /\ row' = row => LicenseExists'
  BY <1>1, OtherReaders
<1>3. ASSUME NEW w \in Workers, \A v \in Workers \ {w} : h'[v] = h[v], RequestExists(h[w])'
      PROVE  \A v \in Workers : RequestExists(h[v])'
  BY <1>1, <1>3, OtherRequest
<1>4. ASSUME NEW w \in Workers, Stop(w)
      PROVE  \A v \in Workers : RequestExists(h[v])'
  <2>1. h'[w] = Idle /\ \A v \in Workers \ {w} : h'[v] = h[v]
    BY <1>4 DEF Stop, EInv, TypeOK
  <2>2. RequestExists(h[w])'
    BY <2>1 DEF RequestExists, Updating, Idle
  <2> QED
    BY <1>3, <2>1, <2>2
<1>5. h' = h => \A v \in Workers : RequestExists(h[v])'
  BY <1>1, OtherRequest
<1>6. CASE CreatePurchase
  <2>1. ReadExists' /\ DeliveredExists' /\ (\A v \in Workers : RequestExists(h[v])')
    BY <1>2, <1>5, <1>6 DEF CreatePurchase
  <2>2. LicenseExists'
    BY <1>6 DEF CreatePurchase, LicenseExists
  <2> QED
    BY <1>1, <2>1, <2>2 DEF EInv
<1>7. CASE GetPurchase
  <2>1. LicenseExists' /\ DeliveredExists' /\ (\A v \in Workers : RequestExists(h[v])')
    BY <1>2, <1>5, <1>7 DEF GetPurchase
  <2>2. ReadExists'
    BY <1>7 DEF GetPurchase, GetSucceeds, ReadExists, EInv, LicenseExists
  <2> QED
    BY <1>1, <2>1, <2>2 DEF EInv
<1>8. ASSUME NEW w \in Workers, GetPurchasedLicense(w)
      PROVE  EInv'
  <2>1. /\ h'[w] = [pc |-> "post", op |-> "license", p |-> row, orig |-> Nil]
        /\ \A v \in Workers \ {w} : h'[v] = h[v]
    BY <1>8 DEF GetPurchasedLicense, EInv, TypeOK
  <2>2. RequestExists(h[w])'
    BY <1>8, <2>1 DEF GetPurchasedLicense, GetSucceeds, RequestExists, Updating, EInv,
                      LicenseExists
  <2> QED
    BY <1>1, <1>2, <1>3, <1>8, <2>1, <2>2 DEF GetPurchasedLicense, EInv
<1>9. ASSUME NEW w \in Workers, UpdatePurchase(w)
      PROVE  EInv'
  <2>1. PICK op \in {"renew", "return"}, e \in Ends \cup {Nil} :
           h' = [h EXCEPT ![w] = [pc |-> "get", op |-> op,
                                  p |-> [license |-> ui.license, end |-> e], orig |-> Nil]]
    BY <1>9 DEF UpdatePurchase
  <2>2. /\ h'[w] = [pc |-> "get", op |-> op, p |-> [license |-> ui.license, end |-> e],
                    orig |-> Nil]
        /\ \A v \in Workers \ {w} : h'[v] = h[v]
    BY <2>1 DEF EInv, TypeOK
  <2>3. RequestExists(h[w])'
    BY <1>9, <2>2 DEF UpdatePurchase, RequestExists, Updating, EInv, ReadExists
  <2> QED
    BY <1>1, <1>2, <1>3, <1>9, <2>2, <2>3 DEF UpdatePurchase, EInv
<1>10. ASSUME NEW w \in Workers, NEW l \in Licenses, GenerateLicense(w, l)
       PROVE  EInv'
  <2>1. h[w] \in Request /\ RequestExists(h[w]) /\ h[w].pc = "post"
    BY <1>10 DEF GenerateLicense, Generated, New, EInv, TypeOK
  <2>2. remote'[l] # Nil /\ row' = row /\ l # Nil
    <3>1. New(h[w]) # Nil
      BY <2>1, GeneratedType
    <3> QED
      BY <1>10, <3>1, PurchaseAssumption DEF GenerateLicense, Generated, New, EInv, TypeOK
  <2>3. /\ h'[w] = [h[w] EXCEPT !.pc = "get", !.p.license = l]
        /\ \A v \in Workers \ {w} : h'[v] = h[v]
    BY <1>10 DEF GenerateLicense, EInv, TypeOK
  <2>4. /\ h'[w].pc = "get" /\ h'[w].p.license = l /\ h'[w].op = h[w].op
    BY <2>1, <2>3 DEF Request, Row
  <2>5. RequestExists(h[w])'
    BY <2>1, <2>2, <2>4 DEF RequestExists, Updating
  <2> QED
    BY <1>1, <1>2, <1>3, <1>10, <2>3, <2>5 DEF GenerateLicense, EInv
<1>11. ASSUME NEW w \in Workers, NEW l \in Licenses, GenerateLicenseTimeout(w, l)
       PROVE  EInv'
  BY <1>1, <1>2, <1>4, <1>11 DEF GenerateLicenseTimeout, EInv
<1>12. ASSUME NEW w \in Workers, FetchLicense(w)
       PROVE  EInv'
  <2>1. h[w] \in Request /\ RequestExists(h[w]) /\ h[w].pc = "post" /\ h[w].p.license # Nil
    BY <1>12 DEF FetchLicense, EInv, TypeOK
  <2>2. DeliveredExists'
    BY <1>12, <2>1 DEF FetchLicense, RequestExists, EInv, DeliveredExists
  <2> QED
    BY <1>1, <1>2, <1>4, <1>12, <2>2 DEF FetchLicense, EInv
<1>13. ASSUME NEW w \in Workers, UpdateGet(w)
       PROVE  EInv'
  <2>1. CASE GetSucceeds
    <3> DEFINE next == IF h[w].op = "license" THEN "write" ELSE "put"
    <3>1. h[w] \in Request /\ RequestExists(h[w]) /\ h[w].pc = "get" /\ LicenseExists
      BY <1>13 DEF UpdateGet, EInv, TypeOK
    <3>2. /\ h'[w] = [h[w] EXCEPT !.orig = row.license, !.pc = next]
          /\ \A v \in Workers \ {w} : h'[v] = h[v]
      BY <1>13, <2>1 DEF UpdateGet, EInv, TypeOK
    <3>3. /\ h'[w].orig = row.license /\ h'[w].pc = next /\ h'[w].p = h[w].p
          /\ h'[w].op = h[w].op
      BY <3>1, <3>2 DEF Request
    <3>4. row' = row /\ remote' = remote
      BY <1>13 DEF UpdateGet
    <3>5. RequestExists(h[w])'
      BY <3>1, <3>3, <3>4 DEF RequestExists, Updating, LicenseExists
    <3> QED
      BY <1>1, <1>2, <1>3, <1>13, <3>2, <3>5 DEF UpdateGet, EInv
  <2>2. CASE ~GetSucceeds
    BY <1>1, <1>2, <1>4, <1>13, <2>2 DEF UpdateGet, EInv
  <2> QED
    BY <2>1, <2>2
<1>14. ASSUME NEW w \in Workers, PutLicense(w)
       PROVE  EInv'
  <2>1. h[w] \in Request /\ RequestExists(h[w]) /\ h[w].pc = "put" /\ row' = row
    BY <1>14 DEF PutLicense, EInv, TypeOK
  <2>2. CASE h' = [h EXCEPT ![w].pc = "partial"]
    <3>1. /\ h'[w] = [h[w] EXCEPT !.pc = "partial"]
          /\ \A v \in Workers \ {w} : h'[v] = h[v]
      BY <2>2 DEF EInv, TypeOK
    <3>2. h'[w].pc = "partial" /\ h'[w].p = h[w].p /\ h'[w].op = h[w].op /\ h'[w].orig = h[w].orig
      BY <2>1, <3>1 DEF Request
    <3>3. h[w].p.license \in Licenses \cup {Nil} /\ h[w].orig \in Licenses \cup {Nil}
      BY <2>1 DEF Request, Row
    <3>4. RequestExists(h[w])'
      BY <1>1, <2>1, <3>2, <3>3 DEF RequestExists, Updating, Grows
    <3> QED
      BY <1>1, <1>2, <1>3, <1>14, <3>1, <3>4 DEF PutLicense, EInv
  <2>3. CASE Stop(w)
    BY <1>1, <1>2, <1>4, <1>14, <2>3 DEF PutLicense, EInv
  <2> QED
    BY <1>14, <2>2, <2>3 DEF PutLicense
<1>15. ASSUME NEW w \in Workers, PutLicenseLost(w)
       PROVE  EInv'
  BY <1>1, <1>2, <1>4, <1>15 DEF PutLicenseLost, EInv
<1>16. ASSUME NEW w \in Workers, GetPartialLicense(w)
       PROVE  EInv'
  <2> DEFINE e == remote[h[w].orig].end
  <2>1. h[w] \in Request /\ RequestExists(h[w]) /\ h[w].pc = "partial"
    BY <1>16 DEF GetPartialLicense, EInv, TypeOK
  <2>2. /\ h'[w] = [h[w] EXCEPT !.pc = "write", !.p.end = e]
        /\ \A v \in Workers \ {w} : h'[v] = h[v]
    BY <1>16 DEF GetPartialLicense, EInv, TypeOK
  <2> HIDE DEF e
  <2>3. h'[w].pc = "write" /\ h'[w].p.license = h[w].p.license /\ h'[w].op = h[w].op
    BY <2>1, <2>2 DEF Request, Row
  <2>4. row' = row /\ remote' = remote
    BY <1>16 DEF GetPartialLicense
  <2>5. RequestExists(h[w])'
    BY <2>1, <2>3, <2>4 DEF RequestExists, Updating
  <2> QED
    BY <1>1, <1>2, <1>3, <1>16, <2>2, <2>5 DEF GetPartialLicense, EInv
<1>17. ASSUME NEW w \in Workers, UpdateWrite(w)
       PROVE  EInv'
  <2>1. h[w] \in Request /\ RequestExists(h[w]) /\ h[w].pc = "write"
    BY <1>17 DEF UpdateWrite, EInv, TypeOK
  <2>2. LicenseExists' /\ DeliveredExists'
    BY <1>17, <2>1 DEF UpdateWrite, RequestExists, Updating, EInv, LicenseExists, DeliveredExists
  <2> QED
    BY <1>1, <1>2, <1>4, <1>17, <2>2 DEF UpdateWrite, EInv
<1>18. ASSUME NEW w \in Workers, Fail(w)
       PROVE  EInv'
  BY <1>1, <1>2, <1>4, <1>18 DEF Fail, EInv
<1>19. ASSUME NEW l \in Licenses, Notified(l) \/ ChangedDirectly(l)
       PROVE  EInv'
  BY <1>1, <1>2, <1>5, <1>19 DEF Notified, ChangedDirectly, EInv
<1> QED
  BY <1>6, <1>7, <1>8, <1>9, <1>10, <1>11, <1>12, <1>13, <1>14, <1>15, <1>16, <1>17, <1>18, <1>19
     DEF Next, Proceed

\* The invariant of any number of goroutines.
LEMMA ExistenceInvariant == Spec => []EInv
<1>1. ASSUME EInv, [Next]_vars PROVE EInv'
  <2>1. CASE Next
    BY <1>1, <2>1, EInvStep
  <2>2. CASE UNCHANGED vars
    BY <1>1, <2>2 DEF vars, EInv, TypeOK, LicenseExists, ReadExists, DeliveredExists,
                      RequestExists, Updating
  <2> QED
    BY <1>1, <2>1, <2>2
<1> QED
  BY <1>1, InitEInv, PTL DEF Spec

\* The state of the frontend stays well typed whatever requests run at the same time: no
\* handler reads the end date or the status of a license that does not exist.
THEOREM TypeCorrect == Spec => []TypeOK
<1>1. EInv => TypeOK
  BY DEF EInv
<1> QED
  BY <1>1, ExistenceInvariant, PTL

\* A purchase never refers to a license that the License Server has not stored, and the user
\* never holds one, however requests, failures and restarts interleave: GenerateOrGetLicense
\* passes an id on only after the License Server has answered.
THEOREM RecordedLicenseExists == Spec => [](LicenseExists /\ DeliveredExists)
<1>1. EInv => LicenseExists /\ DeliveredExists
  BY DEF EInv
<1> QED
  BY <1>1, ExistenceInvariant, PTL

-----------------------------------------------------------------------------
(* Requests served one after the other *)

\* The invariant holds before the purchase is made.
LEMMA InitSInv == Init => SInv
BY DEF Init, SInv, ReadIsCurrent, DeliveredOK, RequestOK, EndOK, Updating, NoRow, Idle

\* Every step of the one request keeps the invariant, and the license id of the row.
LEMMA SInvStep ==
    ASSUME Serial, EInv, EInv', SInv, Next
    PROVE  /\ SInv'
           /\ row # Nil => row' # Nil /\ (row.license # Nil => row'.license = row.license)
<1> DEFINE Kept == row # Nil => row' # Nil /\ (row.license # Nil => row'.license = row.license)
<1>0. Workers = {} => row = Nil \/ row.license = Nil
  BY DEF SInv
<1>1. ASSUME NEW w \in Workers, RequestOK(h[w])', ~direct' => EndOK(h[w])',
             ReadIsCurrent', DeliveredOK'
      PROVE  SInv'
  BY <1>1 DEF Serial, SInv
<1>2. CASE CreatePurchase
  <2>1. PICK e \in Ends \cup {Nil} : row' = [license |-> Nil, end |-> e]
    BY <1>2 DEF CreatePurchase
  <2>2. row = Nil /\ UNCHANGED <<remote, ui, delivered, h, direct, behind>> /\ row'.license = Nil
    BY <1>2, <2>1 DEF CreatePurchase
  <2>3. \A w \in Workers : h[w].pc = "idle" /\ h[w].pc \notin {"post", "get", "put", "partial", "write"}
    BY <2>2 DEF EInv, TypeOK, Request, RequestExists
  <2> QED
    BY <2>2, <2>3 DEF EInv, ReadExists, SInv, ReadIsCurrent, DeliveredOK, RequestOK, EndOK, Agree,
                      Matches, Updating
<1>3. CASE GetPurchase
  BY <1>3 DEF GetPurchase, SInv, ReadIsCurrent, DeliveredOK, RequestOK, EndOK, Agree, Matches, Updating
<1>4. ASSUME NEW w \in Workers, GetPurchasedLicense(w)
      PROVE  SInv' /\ Kept
  <2>1. /\ h'[w] = [pc |-> "post", op |-> "license", p |-> row, orig |-> Nil]
        /\ h[w].pc = "idle" /\ UNCHANGED <<row, remote, ui, delivered, direct, loan, behind>>
    BY <1>4 DEF GetPurchasedLicense, EInv, TypeOK
  <2>2. RequestOK(h[w])' /\ ReadIsCurrent' /\ DeliveredOK'
    BY <2>1 DEF SInv, RequestOK, Updating, ReadIsCurrent, DeliveredOK
  <2>3. ~direct' => EndOK(h[w])'
    BY <2>1 DEF SInv, EndOK, Updating, Agree, Matches
  <2> QED
    BY <1>1, <2>1, <2>2, <2>3
<1>5. ASSUME NEW w \in Workers, UpdatePurchase(w)
      PROVE  SInv' /\ Kept
  <2>1. PICK op \in {"renew", "return"}, e \in Ends \cup {Nil} :
           h' = [h EXCEPT ![w] = [pc |-> "get", op |-> op,
                                  p |-> [license |-> ui.license, end |-> e], orig |-> Nil]]
    BY <1>5 DEF UpdatePurchase
  <2>2. /\ h'[w] = [pc |-> "get", op |-> op, p |-> [license |-> ui.license, end |-> e],
                    orig |-> Nil]
        /\ h[w].pc = "idle" /\ UNCHANGED <<row, remote, ui, delivered, direct, loan, behind>>
        /\ ui.license # Nil
    BY <1>5, <2>1 DEF UpdatePurchase, EInv, TypeOK
  <2>3. RequestOK(h[w])' /\ ReadIsCurrent' /\ DeliveredOK'
    BY <2>2 DEF SInv, RequestOK, Updating, ReadIsCurrent, DeliveredOK
  <2>4. ~direct' => EndOK(h[w])'
    BY <2>2 DEF SInv, EndOK, Updating, Agree, Matches
  <2> QED
    BY <1>1, <2>2, <2>3, <2>4
<1>6. ASSUME NEW w \in Workers, NEW l \in Licenses, GenerateLicense(w, l)
      PROVE  SInv' /\ Kept
  <2>1. /\ h[w] \in Request /\ h[w].pc = "post" /\ h[w].p.license = Nil
        /\ h[w].op = "license" /\ h[w].p = row /\ row # Nil
        /\ UNCHANGED <<row, ui, delivered, direct, loan, behind>>
        /\ h'[w] = [h[w] EXCEPT !.pc = "get", !.p.license = l]
        /\ remote' = [remote EXCEPT ![l] = New(h[w])]
    BY <1>6 DEF GenerateLicense, Generated, New, EInv, TypeOK, SInv, RequestOK, RequestExists
  <2>2. /\ h'[w].pc = "get" /\ h'[w].op = "license" /\ h'[w].p.license = l
        /\ h'[w].p.end = row.end
    BY <2>1 DEF Request, Row
  <2>3. remote'[l].end = IF loan THEN row.end ELSE Nil
    BY <2>1 DEF New, EInv, TypeOK
  <2>4. RequestOK(h[w])' /\ ReadIsCurrent' /\ DeliveredOK'
    BY <2>1, <2>2 DEF SInv, RequestOK, Updating, ReadIsCurrent, DeliveredOK
  <2>5. ~direct' => EndOK(h[w])'
    BY <2>1, <2>2, <2>3 DEF SInv, EndOK, Updating, Agree, Matches
  <2> QED
    BY <1>1, <2>1, <2>4, <2>5
<1>7. ASSUME NEW w \in Workers, Stop(w)
      PROVE  /\ RequestOK(h[w])'
             /\ (row' = Nil \/ behind' \/ Agree') => EndOK(h[w])'
  <2>1. h'[w] = Idle
    BY <1>7 DEF Stop, EInv, TypeOK
  <2> QED
    BY <2>1 DEF Idle, RequestOK, EndOK, Matches, Updating
<1>8. ASSUME NEW w \in Workers, NEW l \in Licenses, GenerateLicenseTimeout(w, l)
      PROVE  SInv' /\ Kept
  <2>1. /\ Stop(w) /\ UNCHANGED <<row, ui, delivered>>
        /\ h[w].pc = "post" /\ h[w].p.license = Nil /\ h[w].p = row
    BY <1>8 DEF GenerateLicenseTimeout, Generated, SInv, RequestOK
  <2>2. ReadIsCurrent' /\ DeliveredOK' /\ Agree'
    BY <2>1 DEF SInv, ReadIsCurrent, DeliveredOK, Agree
  <2> QED
    BY <1>1, <1>7, <2>1, <2>2
<1>9. ASSUME NEW w \in Workers, FetchLicense(w)
      PROVE  SInv' /\ Kept
  <2>1. /\ h[w].pc = "post" /\ h[w].p = row /\ row # Nil /\ Stop(w)
        /\ UNCHANGED <<row, remote, ui, direct, loan, behind>>
        /\ delivered' = delivered \cup {row.license}
    BY <1>9 DEF FetchLicense, SInv, RequestOK, EInv, RequestExists
  <2>2. ReadIsCurrent' /\ DeliveredOK'
    BY <2>1 DEF SInv, ReadIsCurrent, DeliveredOK
  <2>3. ~direct' => behind' \/ Agree'
    BY <2>1 DEF SInv, EndOK, Agree, Matches
  <2> QED
    BY <1>1, <1>7, <2>1, <2>2, <2>3
<1>10. ASSUME NEW w \in Workers, UpdateGet(w)
       PROVE  SInv' /\ Kept
  <2>1. /\ h[w].pc = "get" /\ h[w] \in Request /\ row # Nil /\ RequestOK(h[w])
        /\ UNCHANGED <<row, remote, ui, delivered, direct, loan, behind>>
    BY <1>10 DEF UpdateGet, EInv, TypeOK, RequestExists, SInv
  <2>2. ReadIsCurrent' /\ DeliveredOK'
    BY <2>1 DEF SInv, ReadIsCurrent, DeliveredOK
  <2>3. ~direct' => behind' \/ Agree'
    BY <2>1 DEF SInv, EndOK, Agree, Matches
  <2>4. CASE GetSucceeds
    <3> DEFINE next == IF h[w].op = "license" THEN "write" ELSE "put"
    <3>1. h'[w] = [h[w] EXCEPT !.orig = row.license, !.pc = next]
      BY <1>10, <2>4 DEF UpdateGet, EInv, TypeOK
    <3>2. /\ h'[w].orig = row.license /\ h'[w].pc = next /\ h'[w].p = h[w].p
          /\ h'[w].op = h[w].op
      BY <2>1, <3>1 DEF Request
    <3>3. RequestOK(h[w])'
      BY <2>1, <3>2 DEF RequestOK, Updating
    <3>4. ~direct' => EndOK(h[w])'
      BY <2>1, <2>3, <3>2 DEF SInv, EndOK, Matches, Updating
    <3> QED
      BY <1>1, <2>1, <2>2, <3>3, <3>4
  <2>5. CASE ~GetSucceeds
    BY <1>1, <1>7, <1>10, <2>1, <2>2, <2>3, <2>5 DEF UpdateGet
  <2> QED
    BY <2>4, <2>5
<1>11. ASSUME NEW w \in Workers, PutLicense(w)
       PROVE  SInv' /\ Kept
  <2>1. /\ h[w].pc = "put" /\ h[w] \in Request /\ row # Nil /\ RequestOK(h[w])
        /\ RequestExists(h[w])
        /\ UNCHANGED <<row, ui, delivered, direct, loan, behind>>
    BY <1>11 DEF PutLicense, EInv, TypeOK, RequestExists, SInv
  <2>2. ReadIsCurrent' /\ DeliveredOK'
    BY <2>1 DEF SInv, ReadIsCurrent, DeliveredOK
  <2>3. CASE h' = [h EXCEPT ![w].pc = "partial"]
    <3>0. h[w].orig = row.license
      BY <2>1 DEF RequestOK
    <3>1. h'[w] = [h[w] EXCEPT !.pc = "partial"]
      BY <2>3 DEF EInv, TypeOK
    <3>2. /\ h'[w].pc = "partial" /\ h'[w].p = h[w].p /\ h'[w].op = h[w].op
          /\ h'[w].orig = h[w].orig
      BY <2>1, <3>1 DEF Request
    <3>3. RequestOK(h[w])' /\ EndOK(h[w])'
      BY <2>1, <3>0, <3>2 DEF RequestOK, Updating, EndOK, RequestExists
    <3> QED
      BY <1>1, <2>1, <2>2, <3>3
  <2>4. CASE Stop(w) /\ UNCHANGED remote
    <3>1. ~direct' => behind' \/ Agree'
      BY <2>1, <2>4 DEF SInv, EndOK, Agree, Matches
    <3> QED
      BY <1>1, <1>7, <2>1, <2>2, <2>4, <3>1
  <2> QED
    BY <1>11, <2>3, <2>4 DEF PutLicense
<1>12. ASSUME NEW w \in Workers, PutLicenseLost(w) \/ Fail(w)
       PROVE  SInv' /\ Kept
  <2>1. Stop(w) /\ UNCHANGED <<row, ui, delivered, direct, loan>>
    BY <1>12 DEF PutLicenseLost, Fail
  <2>2. ReadIsCurrent' /\ DeliveredOK'
    BY <2>1 DEF SInv, ReadIsCurrent, DeliveredOK
  <2>3. ~direct' => row' = Nil \/ behind' \/ Agree'
    <3>1. CASE PutLicenseLost(w)
      BY <3>1 DEF PutLicenseLost
    <3>2. CASE Fail(w)
      <4>1. /\ UNCHANGED remote /\ h[w].pc # "idle" /\ row # Nil
            /\ behind' = (behind \/ (h[w].op # "license" /\ h[w].pc \in {"partial", "write"}))
        BY <3>2 DEF Fail, EInv, RequestExists
      <4>2. CASE h[w].pc \in {"partial", "write"}
        BY <2>1, <4>1, <4>2 DEF SInv, RequestOK, Updating, Agree
      <4>3. CASE h[w].pc \notin {"partial", "write"}
        BY <2>1, <4>1, <4>3 DEF SInv, EndOK, Agree, Matches
      <4> QED
        BY <4>2, <4>3
    <3> QED
      BY <1>12, <3>1, <3>2
  <2> QED
    BY <1>1, <1>7, <2>1, <2>2, <2>3
<1>13. ASSUME NEW w \in Workers, GetPartialLicense(w)
       PROVE  SInv' /\ Kept
  <2> DEFINE e == remote[h[w].orig].end
  <2>1. /\ h[w].pc = "partial" /\ h[w] \in Request /\ row # Nil /\ RequestOK(h[w])
        /\ RequestExists(h[w])
        /\ UNCHANGED <<row, remote, ui, delivered, direct, loan, behind>>
        /\ h'[w] = [h[w] EXCEPT !.pc = "write", !.p.end = e]
    BY <1>13 DEF GetPartialLicense, EInv, TypeOK, RequestExists, SInv
  <2>2. ReadIsCurrent' /\ DeliveredOK'
    BY <2>1 DEF SInv, ReadIsCurrent, DeliveredOK
  <2>3. h[w].op # "license" /\ h[w].p.license = row.license /\ h[w].orig = row.license
    BY <2>1 DEF RequestOK, RequestExists, Updating
  <2>4. e = remote'[row.license].end
    BY <2>1, <2>3
  <2> HIDE DEF e
  <2>5. /\ h'[w].pc = "write" /\ h'[w].p.license = row.license /\ h'[w].op = h[w].op
        /\ h'[w].p.end = e
    BY <2>1, <2>3 DEF Request, Row
  <2>6. RequestOK(h[w])' /\ EndOK(h[w])'
    BY <2>1, <2>3, <2>4, <2>5 DEF RequestOK, Updating, EndOK, Matches
  <2> QED
    BY <1>1, <2>1, <2>2, <2>6
<1>14. ASSUME NEW w \in Workers, UpdateWrite(w)
       PROVE  SInv' /\ Kept
  <2>1. /\ h[w].pc = "write" /\ h[w] \in Request /\ row # Nil /\ RequestOK(h[w])
        /\ RequestExists(h[w])
        /\ UNCHANGED <<remote, ui, direct, loan>> /\ Stop(w) /\ row' = h[w].p
        /\ delivered' = IF h[w].op = "license" THEN delivered \cup {h[w].p.license} ELSE delivered
    BY <1>14 DEF UpdateWrite, EInv, TypeOK, RequestExists, SInv
  <2>2. row' \in Row /\ row' # Nil
    BY <2>1, NilIsNoRecord DEF Request
  <2>3. Kept /\ ReadIsCurrent'
    BY <2>1, <2>2 DEF RequestOK, Updating, SInv, ReadIsCurrent, EInv, ReadExists
  <2>4. DeliveredOK'
    <3>1. CASE h[w].op = "license"
      <4>1. delivered = {}
        BY <2>1, <3>1, PurchaseAssumption DEF RequestOK, Updating, SInv, DeliveredOK, EInv, TypeOK
      <4> QED
        BY <2>1, <2>2, <3>1, <4>1 DEF DeliveredOK
    <3>2. CASE h[w].op # "license"
      BY <2>1, <2>2, <3>2 DEF RequestOK, Updating, SInv, DeliveredOK
    <3> QED
      BY <3>1, <3>2
  <2>5. ~direct' => Agree'
    BY <2>1 DEF SInv, EndOK, Agree, Matches, Updating
  <2> QED
    BY <1>1, <1>7, <2>1, <2>3, <2>4, <2>5
<1>15. ASSUME NEW l \in Licenses, Notified(l)
       PROVE  SInv' /\ Kept
  <2>1. /\ remote[l] \in Remote /\ remote' = [remote EXCEPT ![l].known = TRUE]
        /\ UNCHANGED <<row, ui, delivered, h, direct, loan, behind>>
    BY <1>15, RemoteType DEF Notified, EInv
  <2>2. [remote[l] EXCEPT !.known = TRUE].end = remote[l].end
    BY <2>1 DEF Remote
  <2>3. \A k \in Licenses : remote[k] # Nil => remote'[k].end = remote[k].end
    BY <2>1, <2>2 DEF EInv, TypeOK
  <2>4. ASSUME NEW w \in Workers, EndOK(h[w]) PROVE EndOK(h[w])'
    <3>1. h[w].p.license \in Licenses \cup {Nil}
      BY DEF EInv, TypeOK, Request, Row
    <3>2. row # Nil => row.license \in Licenses \cup {Nil}
      BY DEF EInv, TypeOK, Row
    <3> QED
      BY <2>1, <2>3, <2>4, <3>1, <3>2 DEF EndOK, Agree, Matches, EInv, LicenseExists,
                                           RequestExists, Updating
  <2>5. ReadIsCurrent' /\ DeliveredOK' /\ (\A w \in Workers : RequestOK(h[w])')
    BY <2>1 DEF SInv, ReadIsCurrent, DeliveredOK, RequestOK, Updating
  <2> QED
    BY <2>1, <2>4, <2>5 DEF SInv
<1>16. ASSUME NEW l \in Licenses, ChangedDirectly(l)
       PROVE  SInv' /\ Kept
  BY <1>16 DEF ChangedDirectly, SInv, ReadIsCurrent, DeliveredOK, RequestOK, Updating
<1> QED
  BY <1>2, <1>3, <1>4, <1>5, <1>6, <1>8, <1>9, <1>10, <1>11, <1>12, <1>13, <1>14, <1>15, <1>16
     DEF Next, Proceed

\* The invariant of requests served one after the other.
LEMMA SerialInvariant == Serial => (Spec => []SInv)
<1> SUFFICES ASSUME Serial PROVE Spec => []SInv
  OBVIOUS
<1>1. ASSUME EInv, EInv', SInv, [Next]_vars PROVE SInv'
  <2>1. CASE Next
    BY <1>1, <2>1, SInvStep
  <2>2. CASE UNCHANGED vars
    BY <1>1, <2>2 DEF vars, SInv, ReadIsCurrent, DeliveredOK, RequestOK, EndOK, Agree, Matches, Updating
  <2> QED
    BY <1>1, <2>1, <2>2
<1> QED
  BY <1>1, InitSInv, ExistenceInvariant, PTL DEF Spec

\* A purchase that has a license keeps it, when requests are served one after the other,
\* whatever licenses earlier requests have left behind when they failed: Update is given an
\* id of its own only for a row that had none when GetPurchasedLicense read it.
THEOREM LicenseIdIsKept == Serial => (Spec => LicenseIdKept)
<1> SUFFICES ASSUME Serial PROVE Spec => LicenseIdKept
  OBVIOUS
<1>1. ASSUME EInv, EInv', SInv, [Next]_vars
      PROVE  [row # Nil => row' # Nil /\ (row.license # Nil => row'.license = row.license)]_vars
  BY <1>1, SInvStep
<1>2. Spec => []SInv
  BY SerialInvariant
<1> QED
  BY <1>1, <1>2, ExistenceInvariant, PTL DEF Spec, LicenseIdKept

\* The user holds no license but the one the purchase records: GetPurchasedLicense sends a
\* generated license only after Update has written its id.
THEOREM DeliveredIsTheRecorded == Serial => (Spec => []DeliveredIsRecorded)
<1> SUFFICES ASSUME Serial PROVE Spec => []DeliveredIsRecorded
  OBVIOUS
<1>1. EInv /\ SInv => DeliveredIsRecorded
  BY DEF EInv, SInv, DeliveredOK, DeliveredIsRecorded
<1>2. Spec => []SInv
  BY SerialInvariant
<1> QED
  BY <1>1, <1>2, ExistenceInvariant, PTL

\* Between requests the end date of a loan is the one of its license: Update reads it back
\* from the License Server (GetPartialLicense) after the Status Server has chosen it, and a
\* renewal or return that succeeds makes up for one that was cut off before its write.
THEOREM EndFollowsTheLicense == Serial => (Spec => []EndFollowsLicense)
<1> SUFFICES ASSUME Serial PROVE Spec => []EndFollowsLicense
  OBVIOUS
<1>1. EInv /\ SInv => EndFollowsLicense
  <2> SUFFICES ASSUME EInv, SInv, row # Nil, row.license # Nil, ~behind, ~direct,
                      \A w \in Workers : h[w] = Idle
               PROVE  Matches(row.end, row.license)
    BY DEF EndFollowsLicense, Matches
  <2>1. PICK w \in Workers : TRUE
    BY DEF SInv
  <2>2. EndOK(h[w]) /\ h[w].pc = "idle"
    BY <2>1 DEF SInv, Idle
  <2> QED
    BY <2>2 DEF EndOK, Agree, Matches
<1>2. Spec => []SInv
  BY SerialInvariant
<1> QED
  BY <1>1, <1>2, ExistenceInvariant, PTL
=============================================================================
