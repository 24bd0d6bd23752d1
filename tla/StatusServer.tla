---------------------------- MODULE StatusServer ----------------------------
(***************************************************************************)
(* The License Status Server (lsdserver) of one license: its row in the    *)
(* license_status table, its rows in the event table, and the handlers of  *)
(* lsdserver/api/license_status.go that read and rewrite them.             *)
(*                                                                         *)
(* Every HTTP request runs in a goroutine of its own and no handler opens  *)
(* a database transaction: a handler reads the row once, works on that     *)
(* copy, and writes the WHOLE row back.  A handler is therefore split at   *)
(* each call that leaves the process (a query, an insert, an update, the   *)
(* PATCH sent to the License Server); a worker stands for a goroutine.     *)
(* With one worker the requests are served one after the other.            *)
(*                                                                         *)
(* A request that a handler refuses (4xx) changes nothing, so a refusal is *)
(* the negation of the action's guard.                                     *)
(***************************************************************************)
EXTENDS Naturals, Sequences, FiniteSets

CONSTANTS
    Workers,       \* the goroutines that may serve requests at the same time
    Devices,       \* device identifiers of the reading applications
    NoDate,        \* a nil *time.Time
    LicenseEnds,   \* rights end dates the License Server may issue (NoDate: a purchase)
    Register,      \* license_status.register
    Renew,         \* license_status.renew
    RentingDays,   \* license_status.renting_days
    RenewDays,     \* license_status.renew_days
    RenewFromNow,  \* license_status.renew_from_now
    RenewExpired,  \* license_status.renew_expired
    GoofyMode,     \* goofy_mode
    CertDate,      \* lcp.cert_date, NoDate when it is not configured
    StartTime,     \* the clock when the status document may first be created
    Failures,      \* whether database, network and process failures happen
    MaxTime,       \* bound on the clock
    MaxDate,       \* bound on the explicit "end" parameter of a renewal
    MaxEvents      \* bound on the rows of the event table

Date == Nat
DateOrNone == Date \cup {NoDate}

ASSUME ConstantsAssumption ==
    /\ NoDate \notin Nat
    /\ LicenseEnds \subseteq DateOrNone
    /\ {Register, Renew, RenewFromNow, RenewExpired, GoofyMode, Failures}
           \subseteq BOOLEAN
    /\ {RentingDays, RenewDays, StartTime, MaxTime, MaxDate, MaxEvents} \subseteq Nat
    /\ CertDate \in DateOrNone
    \* the provider certificate is already valid when documents are created
    /\ CertDate # NoDate => CertDate <= StartTime

VARIABLES
    generated,  \* rights.end of the license as generated: the body of the notification
    row,        \* the license_status row; status "none" before it is inserted
    events,     \* the rows of the event table, in the order of their ids
    lcpEnd,     \* rights_end of the license in the License Server's own table
    late,       \* end dates of PATCH requests given up by the client, not yet processed
    told,       \* devices that received a status document in answer to a registration
    clock,      \* the current time, in days since the license was issued
    h           \* h[w]: the request worker w is serving

vars == <<generated, row, events, lcpEnd, late, told, clock, h>>

-----------------------------------------------------------------------------
(* Stored data *)

Usable == {"ready", "active"}
Final == {"revoked", "returned", "cancelled"}
StatusValues == Usable \cup Final \cup {"expired"}
EventTypes == {"register", "revoke", "return", "cancel", "renew"}

\* Device ids a handler writes itself, and the empty id renew and return accept.
System == "system"
Subscription == "suscription"
Anonymous == ""
EventDevices == Devices \cup {System, Subscription, Anonymous}

Doc == [status : StatusValues \cup {"none"}, end : DateOrNone, potential : DateOrNone,
        count : Nat, licenseUpdated : Date, statusUpdated : Date]

\* The timestamp of an event is left out: it only orders the rows of the table.
Event == [type : EventTypes, device : EventDevices]

NoDoc == [status |-> "none", end |-> NoDate, potential |-> NoDate,
          count |-> 0, licenseUpdated |-> 0, statusUpdated |-> 0]

(***************************************************************************)
(* A request: pc names the call it is about to make ("check" the device,   *)
(* insert the "event", "patch" the license, "write" the row), doc is the   *)
(* row as it was read, end the rights end it sets, time the timestamp it   *)
(* stamps the row with.                                                    *)
(***************************************************************************)
Ops == {"get", "register", "return", "renew", "extend", "cancel"}

Request == [pc : {"idle", "check", "event", "patch", "write"}, op : Ops \cup {"none"},
            device : EventDevices, doc : Doc, end : DateOrNone, time : Date]

Idle == [pc |-> "idle", op |-> "none", device |-> Anonymous, doc |-> NoDoc,
         end |-> NoDate, time |-> 0]

\* One type invariant for the module: the tables, the queue and the requests.
TypeOK ==
    /\ generated \in DateOrNone
    /\ row \in Doc
    /\ events \in Seq(Event)
    /\ lcpEnd \in DateOrNone
    /\ late \subseteq Date
    /\ told \subseteq Devices
    /\ clock \in Date
    /\ h \in [Workers -> Request]

-----------------------------------------------------------------------------
(* Helpers.  A definition X_bug that stands before a definition X is a       *)
(* mutated form of it, which shows that a property tells them apart; the   *)
(* specification uses none of them.                                        *)

Later(a, b) == IF a > b THEN a ELSE b

\* The days on which a loan that ends on e may at most end: issue date (0) + renting days.
PotentialEnd(e) ==
    IF e = NoDate \/ ~Renew \/ RentingDays = 0 THEN NoDate ELSE Later(e, RentingDays)

makeLicenseStatus ==
    [status |-> IF Register THEN "ready" ELSE "active",
     end |-> generated, potential |-> PotentialEnd(generated),
     count |-> 0, licenseUpdated |-> 0, statusUpdated |-> clock]

GetByLicenseID_alwaysCertDate == [row EXCEPT !.licenseUpdated = CertDate]

\* The row as GetByLicenseID returns it: an update date older than the certificate is
\* replaced by the certificate's date.
GetByLicenseID ==
    IF CertDate # NoDate /\ row.licenseUpdated < CertDate
    THEN [row EXCEPT !.licenseUpdated = CertDate]
    ELSE row

\* The device has an event: CheckDeviceStatus reads the type of its latest event,
\* whatever it is, and RegisterDevice only compares it with the empty string.
CheckDeviceStatus(d) == \E i \in DOMAIN events : events[i].device = d

\* End dates a renewal may ask for: the configured extension of base, or an explicit one.
SuggestedEnds(base) ==
    (IF RenewDays = 0 THEN {} ELSE {base + RenewDays}) \cup 0..MaxDate

NextCall_unloggedRegistration(op, pc) ==
    CASE pc \in {"check", "event"} -> IF op \in {"register", "cancel"} THEN "write" ELSE "patch"
      [] OTHER -> IF op = "cancel" THEN "event" ELSE "write"
NextCall_unloggedCancellation(op, pc) ==
    CASE pc = "check" -> "event"
      [] pc = "event" -> IF op \in {"register", "cancel"} THEN "write" ELSE "patch"
      [] OTHER        -> "write"

\* The call that follows step pc of a request.
NextCall(op, pc) ==
    CASE pc = "check" -> "event"
      [] pc = "event" -> IF op \in {"register", "cancel"} THEN "write" ELSE "patch"
      [] OTHER        -> IF op = "cancel" THEN "event" ELSE "write"

CancelledStatus_unset(doc) == doc.status

\* The status a cancellation or a revocation leads to.
CancelledStatus(doc) == IF doc.status = "ready" THEN "cancelled" ELSE "revoked"

EventType(r) ==
    CASE r.op = "register" -> "register"
      [] r.op = "return" -> "return"
      [] r.op = "cancel" -> IF CancelledStatus(r.doc) = "cancelled" THEN "cancel" ELSE "revoke"
      [] OTHER -> "renew"

\* GetLicenseStatusDocument: the copy, expired.
Expired(r) == [r.doc EXCEPT !.status = "expired", !.statusUpdated = r.time]

\* RegisterDevice: the copy, active with one more device.
Registered_uncounted(r) == [r.doc EXCEPT !.status = "active", !.statusUpdated = r.time]
Registered(r) ==
    [r.doc EXCEPT !.status = "active", !.count = @ + 1, !.statusUpdated = r.time]

\* LendingRenewal and ExtendSubscription: the copy, active until the new end.
Renewed(r) ==
    [r.doc EXCEPT !.status = "active", !.end = r.end,
                  !.licenseUpdated = r.time, !.statusUpdated = r.time]

\* LendingReturn and LendingCancellation: the copy, ended.
Closed_keepsEnd(r, status) ==
    [r.doc EXCEPT !.status = status, !.potential = NoDate,
                  !.licenseUpdated = r.time, !.statusUpdated = r.time]
Closed(r, status) ==
    [r.doc EXCEPT !.status = status, !.end = r.end, !.potential = NoDate,
                  !.licenseUpdated = r.time, !.statusUpdated = r.time]

ReturnedStatus(doc) == IF doc.status = "ready" THEN "cancelled" ELSE "returned"

\* The whole row a request writes back, from the copy it read.
NewDoc(r) ==
    CASE r.op = "get"      -> Expired(r)
      [] r.op = "register" -> Registered(r)
      [] r.op = "return"   -> Closed(r, ReturnedStatus(r.doc))
      [] r.op = "cancel"   -> Closed(r, CancelledStatus(r.doc))
      [] OTHER             -> Renewed(r)

-----------------------------------------------------------------------------
(* Requests: the read of the row and the checks made on it *)

Busy == {w \in Workers : h[w].pc # "idle"}

\* Bound: every request under way may still insert one event.
RoomForEvent == Len(events) + Cardinality(Busy) < MaxEvents

Begin(w, op, device, end, time, pc) ==
    /\ h' = [h EXCEPT ![w] = [pc |-> pc, op |-> op, device |-> device,
                              doc |-> GetByLicenseID, end |-> end, time |-> time]]
    /\ UNCHANGED <<generated, row, events, lcpEnd, late, told, clock>>

\* The License Server's notification of a new license; it carries the license as generated.
CreateLicenseStatusDocument ==
    /\ row.status = "none"
    /\ row' = makeLicenseStatus
    /\ UNCHANGED <<generated, events, lcpEnd, late, told, clock, h>>

\* Reading a document whose end date has passed is what makes the license expire.
GetLicenseStatusDocument(w) ==
    /\ h[w].pc = "idle"
    /\ row.status \in Usable
    /\ row.end # NoDate /\ clock > row.end
    /\ Begin(w, "get", Anonymous, NoDate, clock, "write")

RegisterDevice(w) ==
    /\ h[w].pc = "idle"
    /\ ~GoofyMode
    /\ row.status \in Usable
    /\ RoomForEvent
    /\ \E d \in Devices : Begin(w, "register", d, NoDate, 0, "check")

LendingReturn(w) ==
    /\ h[w].pc = "idle"
    /\ row.status \in Usable \cup {"expired"}
    /\ RoomForEvent
    /\ \E d \in Devices \cup {Anonymous} : Begin(w, "return", d, NoDate, 0, "event")

LendingRenewal_noMaximum(w) ==
    /\ h[w].pc = "idle"
    /\ row.status = "active" \/ (row.status = "expired" /\ RenewExpired)
    /\ row.end # NoDate /\ row.potential # NoDate
    /\ RoomForEvent
    /\ \E d \in Devices \cup {Anonymous},
          e \in SuggestedEnds(IF RenewFromNow THEN clock ELSE row.end) :
          e >= row.end /\ Begin(w, "renew", d, e, 0, "event")
LendingRenewal_noMinimum(w) ==
    /\ h[w].pc = "idle"
    /\ row.status = "active" \/ (row.status = "expired" /\ RenewExpired)
    /\ row.end # NoDate /\ row.potential # NoDate
    /\ RoomForEvent
    /\ \E d \in Devices \cup {Anonymous},
          e \in SuggestedEnds(IF RenewFromNow THEN clock ELSE row.end) :
          e <= row.potential /\ Begin(w, "renew", d, e, 0, "event")
LendingRenewal(w) ==
    /\ h[w].pc = "idle"
    /\ row.status = "active" \/ (row.status = "expired" /\ RenewExpired)
    /\ row.end # NoDate /\ row.potential # NoDate
    /\ RoomForEvent
    /\ \E d \in Devices \cup {Anonymous},
          e \in SuggestedEnds(IF RenewFromNow THEN clock ELSE row.end) :
          /\ e <= row.potential /\ e >= row.end
          /\ Begin(w, "renew", d, e, 0, "event")

ExtendSubscription_noMaximum(w) ==
    /\ h[w].pc = "idle"
    /\ row.potential # NoDate
    /\ row.status \notin Final \cup {"none"}
    /\ row.end # NoDate
    /\ RoomForEvent
    /\ \E e \in SuggestedEnds(row.end) :
          e >= row.end /\ Begin(w, "extend", Subscription, e, 0, "event")
ExtendSubscription(w) ==
    /\ h[w].pc = "idle"
    /\ row.potential # NoDate
    /\ row.status \notin Final \cup {"none"}
    /\ row.end # NoDate
    /\ RoomForEvent
    /\ \E e \in SuggestedEnds(row.end) :
          /\ e <= row.potential /\ e >= row.end
          /\ Begin(w, "extend", Subscription, e, 0, "event")

LendingCancellation_anyStatus(w) ==
    /\ h[w].pc = "idle"
    /\ row.status # "none"
    /\ RoomForEvent
    /\ Begin(w, "cancel", System, NoDate, 0, "patch")
LendingCancellation(w) ==
    /\ h[w].pc = "idle"
    /\ \E newStatus \in {"cancelled", "revoked"} :
          /\ newStatus = "cancelled" => row.status = "ready"
          /\ newStatus = "revoked" => row.status \in Usable
    /\ RoomForEvent
    /\ Begin(w, "cancel", System, NoDate, 0, "patch")

-----------------------------------------------------------------------------
(* Requests: the calls that follow *)

\* A device that has an event is answered with the document as it is.
CheckDevice(w) ==
    /\ h[w].pc = "check"
    /\ \/ /\ CheckDeviceStatus(h[w].device)
          /\ h' = [h EXCEPT ![w] = Idle]
          /\ told' = told \cup {h[w].device}
       \/ /\ ~CheckDeviceStatus(h[w].device)
          /\ h' = [h EXCEPT ![w].pc = NextCall(h[w].op, "check")]
          /\ UNCHANGED told
    /\ UNCHANGED <<generated, row, events, lcpEnd, late, clock>>

\* makeEvent stamps the event; a cancellation keeps the time it took before its PATCH.
AddEvent(w) ==
    LET r == h[w] IN
    /\ r.pc = "event"
    /\ events' = Append(events, [type |-> EventType(r), device |-> r.device])
    /\ h' = [h EXCEPT ![w].pc = NextCall(r.op, "event"),
                      ![w].time = IF r.op = "cancel" THEN @ ELSE clock]
    /\ UNCHANGED <<generated, row, lcpEnd, late, told, clock>>

\* The end date sent to the License Server, and the timestamp it goes with.
PatchTime(r) == IF r.op = "cancel" THEN clock ELSE r.time
PatchEnd(r) == IF r.op \in {"return", "cancel"} THEN PatchTime(r) ELSE r.end

\* updateLicense: the PATCH is applied and answered 200.
UpdateLicense(w) ==
    LET r == h[w] IN
    /\ r.pc = "patch"
    /\ lcpEnd' = PatchEnd(r)
    /\ h' = [h EXCEPT ![w].pc = NextCall(r.op, "patch"),
                      ![w].end = PatchEnd(r), ![w].time = PatchTime(r)]
    /\ UNCHANGED <<generated, row, events, late, told, clock>>

\* updateLicense: no answer within the client's ten seconds.  The handler reports an
\* error, and the License Server may still process the request.
UpdateLicenseTimeout(w) ==
    /\ Failures
    /\ h[w].pc = "patch"
    /\ late' = late \cup {PatchEnd(h[w])}
    /\ h' = [h EXCEPT ![w] = Idle]
    /\ UNCHANGED <<generated, row, events, lcpEnd, told, clock>>

\* LicenseStatuses().Update and the answer to the client, which a failure may lose.
UpdateRow(w) ==
    LET r == h[w] IN
    /\ r.pc = "write"
    /\ row' = NewDoc(r)
    /\ h' = [h EXCEPT ![w] = Idle]
    /\ \/ told' = IF r.op = "register" THEN told \cup {r.device} ELSE told
       \/ Failures /\ told' = told
    /\ UNCHANGED <<generated, events, lcpEnd, late, clock>>

\* A query, an insert, an update or a PATCH fails, or the process stops: the handler goes
\* no further and nothing undoes what it has already done.
Fail(w) ==
    /\ Failures
    /\ h[w].pc # "idle"
    /\ h' = [h EXCEPT ![w] = Idle]
    /\ UNCHANGED <<generated, row, events, lcpEnd, late, told, clock>>

\* The License Server processes a PATCH whose sender has given up.
LateUpdateLicense ==
    /\ \E e \in late : lcpEnd' = e /\ late' = late \ {e}
    /\ UNCHANGED <<generated, row, events, told, clock, h>>

Tick ==
    /\ clock < MaxTime
    /\ clock' = clock + 1
    /\ UNCHANGED <<generated, row, events, lcpEnd, late, told, h>>

-----------------------------------------------------------------------------

Init ==
    /\ generated \in LicenseEnds
    /\ row = NoDoc
    /\ events = <<>>
    /\ lcpEnd = generated
    /\ late = {}
    /\ told = {}
    /\ clock = StartTime
    /\ h = [w \in Workers |-> Idle]

\* What a goroutine does once its request has passed the checks.
Proceed(w) == CheckDevice(w) \/ AddEvent(w) \/ UpdateLicense(w) \/ UpdateRow(w)

Next ==
    \/ CreateLicenseStatusDocument
    \/ \E w \in Workers :
          \/ GetLicenseStatusDocument(w)
          \/ RegisterDevice(w)
          \/ LendingReturn(w)
          \/ LendingRenewal(w)
          \/ ExtendSubscription(w)
          \/ LendingCancellation(w)
          \/ CheckDevice(w)
          \/ AddEvent(w)
          \/ UpdateLicense(w)
          \/ UpdateLicenseTimeout(w)
          \/ UpdateRow(w)
          \/ Fail(w)
    \/ LateUpdateLicense
    \/ Tick

Spec == Init /\ [][Next]_vars

\* A goroutine that has started is scheduled until it ends; nothing obliges clients to
\* send requests.
Fairness == \A w \in Workers : WF_vars(Proceed(w))

FairSpec == Spec /\ Fairness

-----------------------------------------------------------------------------
(* Properties of every interleaving, with failures *)

RegisterEvents == {i \in DOMAIN events : events[i].type = "register"}

HasEvent(types) == \E i \in DOMAIN events : events[i].type \in types

\* A document whose potential end is set keeps the maximum computed when the license was
\* notified, and its end date has not passed beyond it.
WithinMaximum(doc) ==
    doc.potential # NoDate =>
        /\ doc.potential = PotentialEnd(generated)
        /\ doc.end # NoDate
        /\ doc.end <= doc.potential

\* "No loan extension is possible after this upper limit" (README, renting_days): whatever
\* the interleaving of renewals, returns, stale writes and failures, the row that
\* LendingRenewal and ExtendSubscription read never lets a loan pass its maximum.
EndWithinMaximum == WithinMaximum(row)

\* An end date the License Server may be asked to set.
Permitted(e) ==
    /\ e # NoDate
    /\ \/ e <= clock
       \/ PotentialEnd(generated) # NoDate /\ e <= PotentialEnd(generated)

\* The same limit seen from the License Server: the end date updateLicense gave the license
\* is either in the past (a return, a cancellation, a revocation) or within the maximum,
\* late PATCH requests included.
LicenseEndPermitted == lcpEnd # generated => Permitted(lcpEnd)

\* device_count never overstates the registrations: stale copies and failures between the
\* insert of the event and the update of the row may only lose increments of RegisterDevice.
CountNeverOverstates == row.count <= Cardinality(RegisterEvents)

\* The event log explains the status: no handler gives a license a status whose cause is
\* not in the event table, whatever fails between its calls and whoever rewrites the row.
StatusExplained(status) ==
    /\ status = "active" /\ Register => HasEvent({"register", "renew"})
    /\ status = "returned" => HasEvent({"return"})
    /\ status = "revoked" => HasEvent({"revoke"})
    /\ status = "cancelled" => HasEvent({"cancel", "return"})

EventsExplainStatus == StatusExplained(row.status)

\* A device that was answered by RegisterDevice is in the event table of the license.
ToldDevicesLogged == \A d \in told : \E i \in DOMAIN events : events[i].device = d

-----------------------------------------------------------------------------
(* Properties of a server that serves the requests one after the other *)

\* revoked, returned and cancelled are final: LendingReturn, LendingCancellation,
\* LendingRenewal, ExtendSubscription and RegisterDevice leave them, even after failures.
FinalIsFinal == [][row.status \in Final => row'.status = row.status]_row

\* The update dates clients compare with their copy never go back.
UpdatesMoveForward ==
    [][row.status # "none" => /\ row'.licenseUpdated >= row.licenseUpdated
                              /\ row'.statusUpdated >= row.statusUpdated]_row

AtRest == row.status # "none" /\ Busy = {} /\ late = {}

\* Between requests, both servers hold the same end date for the license.
EndsAgree == AtRest => row.end = lcpEnd

\* Between requests, device_count is the number of registered devices: RegisterDevice counts
\* a device once, however often it asks.
CountExact == AtRest => row.count = Cardinality({events[i].device : i \in RegisterEvents})

\* A cancellation or revocation that LendingCancellation accepts ends the loan on both
\* servers, for good.
CancellationTakesEffect ==
    (\E w \in Workers : h[w].op = "cancel")
        ~> [](row.status \in Final /\ lcpEnd # NoDate /\ lcpEnd <= clock)

\* The document a client sees follows the lifecycle: every step of a handler is a step of
\* LicenseLifecycle or changes nothing in it.
Lifecycle == INSTANCE LicenseLifecycle WITH
    status <- row.status, end <- row.end, potential <- row.potential, now <- clock

LifecycleSpec == Lifecycle!Spec
=============================================================================
