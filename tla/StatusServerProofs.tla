------------------------- MODULE StatusServerProofs -------------------------
(***************************************************************************)
(* Proofs about StatusServer for every set of workers and devices, every   *)
(* configuration and every bound.                                          *)
(***************************************************************************)
EXTENDS StatusServer, FiniteSetTheorems, TLAPS

(***************************************************************************)
(* The inductive invariant.  The row can only be as good as the copies     *)
(* requests carry, since each of them may overwrite it: what holds of the  *)
(* row is required of every copy, and each request records which calls it  *)
(* has already made.                                                       *)
(***************************************************************************)

DeviceLogged(d) == \E i \in DOMAIN events : events[i].device = d

\* The part of the invariant that makes a copy fit to become the row again.
DocOK(doc) ==
    /\ WithinMaximum(doc)
    /\ doc.count <= Cardinality(RegisterEvents)
    /\ StatusExplained(doc.status)

\* The calls a request has made before its pc.
ProgressOK(r) ==
    /\ r.pc = "check" => r.op = "register"
    /\ r.op = "get" => r.pc = "write"
    /\ r.op = "register" =>
          /\ r.pc \in {"check", "event", "write"}
          /\ r.device \in Devices
          /\ r.pc = "write" => /\ r.doc.count + 1 <= Cardinality(RegisterEvents)
                               /\ HasEvent({"register"})
                               /\ DeviceLogged(r.device)
    /\ r.op = "return" /\ r.pc \in {"patch", "write"} =>
          HasEvent({"return"}) /\ r.time <= clock
    /\ r.op = "cancel" /\ r.pc = "write" => HasEvent({EventType(r)})
    /\ r.op \in {"renew", "extend"} =>
          /\ r.end # NoDate
          /\ r.doc.potential # NoDate
          /\ r.end <= r.doc.potential
          /\ r.pc \in {"patch", "write"} => HasEvent({"renew"})

RequestOK(r) == r.pc # "idle" => r.op \in Ops /\ DocOK(r.doc) /\ ProgressOK(r)

IInv ==
    /\ TypeOK
    /\ DocOK(row)
    /\ LicenseEndPermitted
    /\ \A e \in late : Permitted(e)
    /\ ToldDevicesLogged
    /\ \A w \in Workers : RequestOK(h[w])

-----------------------------------------------------------------------------
(* Lemmas on the operators *)

\* PotentialEnd is a date or nil.
LEMMA PotentialEndType ==
    ASSUME NEW e \in DateOrNone
    PROVE  PotentialEnd(e) \in DateOrNone
BY ConstantsAssumption DEF PotentialEnd, Later, DateOrNone, Date

\* The maximum of a loan is not before its end.
LEMMA PotentialEndBound ==
    ASSUME NEW e \in DateOrNone, PotentialEnd(e) # NoDate
    PROVE  e # NoDate /\ e <= PotentialEnd(e)
BY ConstantsAssumption DEF PotentialEnd, Later, DateOrNone, Date

\* The copy GetByLicenseID returns differs from the row in its update date only.
LEMMA GetByLicenseIDFields ==
    ASSUME row \in Doc
    PROVE  /\ GetByLicenseID \in Doc
           /\ GetByLicenseID.status = row.status
           /\ GetByLicenseID.end = row.end
           /\ GetByLicenseID.potential = row.potential
           /\ GetByLicenseID.count = row.count
BY ConstantsAssumption DEF GetByLicenseID, Doc, DateOrNone, Date

\* What a request writes is a row.
LEMMA NewDocType ==
    ASSUME NEW r \in Request
    PROVE  NewDoc(r) \in Doc
<1>a. /\ r.doc \in Doc
      /\ r.doc.count + 1 \in Nat
      /\ r.time \in Nat
      /\ r.end \in DateOrNone
  BY DEF Request, Doc, Date
<1> USE <1>a DEF Doc, StatusValues, Usable, Final, DateOrNone, Date
<1>1. Expired(r) \in Doc
  BY DEF Expired
<1>2. Registered(r) \in Doc
  <2> DEFINE c == r.doc.count + 1
  <2> HIDE DEF c
  <2>1. c \in Nat
    BY DEF c
  <2>2. Registered(r) =
           [r.doc EXCEPT !.status = "active", !.count = c, !.statusUpdated = r.time]
    BY DEF Registered, c
  <2> QED
    BY <2>1, <2>2
<1>3. Renewed(r) \in Doc
  BY DEF Renewed
<1>4. \A st \in Final : Closed(r, st) \in Doc
  BY DEF Closed
<1>5. ReturnedStatus(r.doc) \in Final /\ CancelledStatus(r.doc) \in Final
  BY DEF ReturnedStatus, CancelledStatus
<1> QED
  BY <1>1, <1>2, <1>3, <1>4, <1>5 DEF NewDoc

\* EventType is a type of the event table.
LEMMA EventTypeType ==
    ASSUME NEW r
    PROVE  EventType(r) \in EventTypes
BY DEF EventType, EventTypes

\* The calls of a request.
LEMMA NextCallValues ==
    ASSUME NEW op
    PROVE  /\ NextCall(op, "check") = "event"
           /\ NextCall(op, "event") =
                 IF op \in {"register", "cancel"} THEN "write" ELSE "patch"
           /\ NextCall(op, "patch") = IF op = "cancel" THEN "event" ELSE "write"
BY DEF NextCall

\* Any selection of the rows of the event table is finite.
LEMMA SomeEventsFinite ==
    ASSUME NEW log \in Seq(Event)
    PROVE  LET R == {i \in DOMAIN log : log[i].type = "register"}
           IN  IsFiniteSet(R) /\ Cardinality(R) \in Nat
<1> DEFINE R == {i \in DOMAIN log : log[i].type = "register"}
<1>1. /\ DOMAIN log = 1..Len(log)
      /\ Len(log) \in Nat
  OBVIOUS
<1>2. IsFiniteSet(1..Len(log))
  BY <1>1, FS_Interval
<1>3. R \subseteq 1..Len(log)
  BY <1>1
<1> HIDE DEF R
<1>4. IsFiniteSet(R) /\ Cardinality(R) \in Nat
  BY <1>2, <1>3, FS_Subset, FS_CardinalityType
<1> QED
  BY <1>4 DEF R

\* The register events of the log are finitely many: device_count is compared with a number.
LEMMA RegisterEventsFinite ==
    ASSUME events \in Seq(Event)
    PROVE  /\ IsFiniteSet(RegisterEvents)
           /\ Cardinality(RegisterEvents) \in Nat
BY SomeEventsFinite DEF RegisterEvents

-----------------------------------------------------------------------------
(* The event log only grows, and with it what RequestOK and DocOK ask of it *)

LogGrows ==
    /\ generated' = generated
    /\ clock <= clock'
    /\ Cardinality(RegisterEvents) <= Cardinality(RegisterEvents')
    /\ \A T \in SUBSET EventTypes : HasEvent(T) => HasEvent(T)'
    /\ \A d \in EventDevices : DeviceLogged(d) => DeviceLogged(d)'

\* An insert into the event table adds one event and keeps the others.
LEMMA AddEventGrows ==
    ASSUME events \in Seq(Event), NEW e \in Event, events' = Append(events, e)
    PROVE  /\ \A T \in SUBSET EventTypes : HasEvent(T) => HasEvent(T)'
           /\ \A T \in SUBSET EventTypes : e.type \in T => HasEvent(T)'
           /\ \A d \in EventDevices : DeviceLogged(d) => DeviceLogged(d)'
           /\ \A d \in EventDevices : e.device = d => DeviceLogged(d)'
           /\ Cardinality(RegisterEvents) <= Cardinality(RegisterEvents')
           /\ e.type = "register" =>
                 Cardinality(RegisterEvents') = Cardinality(RegisterEvents) + 1
<1> DEFINE n == Len(events)
<1>1. /\ n \in Nat
      /\ DOMAIN events = 1..n
      /\ DOMAIN events' = 1..(n + 1)
      /\ \A i \in 1..n : events'[i] = events[i]
      /\ events'[n + 1] = e
      /\ n + 1 \in DOMAIN events'
      /\ \A i \in 1..n : i \in 1..(n + 1)
  OBVIOUS
<1> HIDE DEF n
<1>2. \A T \in SUBSET EventTypes : HasEvent(T) => HasEvent(T)'
  BY <1>1 DEF HasEvent
<1>3. \A T \in SUBSET EventTypes : e.type \in T => HasEvent(T)'
  BY <1>1 DEF HasEvent
<1>4. \A d \in EventDevices : DeviceLogged(d) => DeviceLogged(d)'
  BY <1>1 DEF DeviceLogged
<1>5. \A d \in EventDevices : e.device = d => DeviceLogged(d)'
  BY <1>1 DEF DeviceLogged
<1>6. CASE e.type = "register"
  <2>1. RegisterEvents' = RegisterEvents \cup {n + 1}
    BY <1>1, <1>6 DEF RegisterEvents
  <2>2. n + 1 \notin RegisterEvents
    BY <1>1 DEF RegisterEvents
  <2>3. Cardinality(RegisterEvents') = Cardinality(RegisterEvents) + 1
    BY <2>1, <2>2, RegisterEventsFinite, FS_AddElement
  <2> QED
    BY <1>2, <1>3, <1>4, <1>5, <2>3, RegisterEventsFinite
<1>7. CASE e.type # "register"
  <2>1. RegisterEvents' = RegisterEvents
    BY <1>1, <1>7 DEF RegisterEvents
  <2> QED
    BY <1>2, <1>3, <1>4, <1>5, <1>7, <2>1, RegisterEventsFinite
<1> QED
  BY <1>6, <1>7

\* A step that leaves the events alone and does not turn the clock back.
LEMMA SameLogGrows ==
    ASSUME TypeOK, events' = events, generated' = generated,
           clock' = clock \/ clock' = clock + 1
    PROVE  LogGrows
<1>1. RegisterEvents' = RegisterEvents
  BY DEF RegisterEvents
<1>2. clock <= clock'
  BY DEF TypeOK, Date
<1>3. \A T \in SUBSET EventTypes : HasEvent(T) => HasEvent(T)'
  BY DEF HasEvent
<1>4. \A d \in EventDevices : DeviceLogged(d) => DeviceLogged(d)'
  BY DEF DeviceLogged
<1> QED
  BY <1>1, <1>2, <1>3, <1>4, RegisterEventsFinite DEF LogGrows, TypeOK

\* The row stays fit while the log grows.
LEMMA RowKept ==
    ASSUME TypeOK, DocOK(row), LogGrows, row' = row, events' \in Seq(Event)
    PROVE  DocOK(row)'
<1>1. WithinMaximum(row)'
  BY DEF DocOK, WithinMaximum, LogGrows
<1>2. row'.count <= Cardinality(RegisterEvents')
  <2>1. Cardinality(RegisterEvents) \in Nat /\ row.count \in Nat
    BY RegisterEventsFinite DEF TypeOK, Doc
  <2>2. Cardinality(RegisterEvents') \in Nat
    BY SomeEventsFinite DEF RegisterEvents
  <2> QED
    BY <2>1, <2>2 DEF DocOK, LogGrows
<1>3. StatusExplained(row.status)'
  BY DEF DocOK, StatusExplained, LogGrows, EventTypes
<1> QED
  BY <1>1, <1>2, <1>3 DEF DocOK

\* A request that makes no step stays sound while the log grows.
LEMMA RequestKept ==
    ASSUME TypeOK, NEW w \in Workers, RequestOK(h[w]), LogGrows, h'[w] = h[w],
           events' \in Seq(Event), clock' \in Nat
    PROVE  RequestOK(h[w])'
<1> SUFFICES ASSUME h[w].pc # "idle"
             PROVE  /\ h[w].op \in Ops
                    /\ DocOK(h[w].doc)'
                    /\ ProgressOK(h[w])'
  BY DEF RequestOK
<1>1. h[w].op \in Ops /\ DocOK(h[w].doc) /\ ProgressOK(h[w])
  BY DEF RequestOK
<1>2. /\ Cardinality(RegisterEvents) \in Nat
      /\ Cardinality(RegisterEvents') \in Nat
      /\ Cardinality(RegisterEvents) <= Cardinality(RegisterEvents')
      /\ h[w] \in Request /\ h[w].doc \in Doc /\ h[w].doc.count \in Nat
      /\ h[w].device \in EventDevices /\ h[w].time \in Nat /\ clock \in Nat
  BY SomeEventsFinite DEF TypeOK, Request, Doc, RegisterEvents, LogGrows, Date
<1>3. DocOK(h[w].doc)'
  <2>1. WithinMaximum(h[w].doc)'
    BY <1>1 DEF DocOK, WithinMaximum, LogGrows
  <2>2. (h[w].doc.count <= Cardinality(RegisterEvents))'
    BY <1>1, <1>2 DEF DocOK
  <2>3. StatusExplained(h[w].doc.status)'
    BY <1>1 DEF DocOK, StatusExplained, LogGrows, EventTypes
  <2> QED
    BY <2>1, <2>2, <2>3 DEF DocOK
<1>4. ProgressOK(h[w])'
  <2>1. /\ HasEvent({"register"}) => HasEvent({"register"})'
        /\ HasEvent({"return"}) => HasEvent({"return"})'
        /\ HasEvent({"renew"}) => HasEvent({"renew"})'
    BY DEF LogGrows, EventTypes
  <2>2. HasEvent({EventType(h[w])}) => HasEvent({EventType(h[w])})'
    <3>1. {EventType(h[w])} \in SUBSET EventTypes
      BY EventTypeType
    <3>2. EventType(h[w])' = EventType(h[w])
      BY DEF EventType, CancelledStatus
    <3> QED
      BY <3>1, <3>2 DEF LogGrows, HasEvent
  <2>3. DeviceLogged(h[w].device) => DeviceLogged(h[w].device)'
    BY <1>2 DEF LogGrows, DeviceLogged
  <2> QED
    BY <1>1, <1>2, <2>1, <2>2, <2>3 DEF ProgressOK, LogGrows
<1> QED
  BY <1>1, <1>3, <1>4

\* An end date that was permitted stays so: the clock moves on.
LEMMA PermittedKept ==
    ASSUME TypeOK, LogGrows, clock' \in Nat, NEW e \in DateOrNone, Permitted(e)
    PROVE  Permitted(e)'
<1>1. clock \in Nat /\ clock <= clock' /\ generated' = generated
  BY DEF TypeOK, LogGrows, Date
<1>2. e \in Nat
  BY DEF Permitted, DateOrNone, Date
<1> QED
  BY <1>1, <1>2 DEF Permitted

\* A license end that was permitted stays so while no PATCH is applied.
LEMMA LicenseKept ==
    ASSUME IInv, TypeOK', LogGrows, lcpEnd' = lcpEnd
    PROVE  LicenseEndPermitted'
<1>1. /\ clock \in Nat /\ clock' \in Nat /\ clock <= clock' /\ generated' = generated
      /\ lcpEnd # NoDate => lcpEnd \in Nat
  BY DEF IInv, TypeOK, LogGrows, Date, DateOrNone
<1> QED
  BY <1>1 DEF IInv, LicenseEndPermitted, Permitted

\* The given-up PATCH requests stay permitted while the clock moves on.
LEMMA LateKept ==
    ASSUME IInv, TypeOK', LogGrows, late' \subseteq late
    PROVE  (\A e \in late : Permitted(e))'
<1> SUFFICES ASSUME NEW e \in late'
             PROVE  Permitted(e)'
  OBVIOUS
<1>1. e \in DateOrNone /\ Permitted(e)
  BY DEF IInv, TypeOK, DateOrNone
<1> QED
  BY <1>1, PermittedKept DEF IInv, TypeOK, Date

\* A device that was answered stays in the event table.
LEMMA ToldKept ==
    ASSUME IInv, TypeOK', LogGrows, told' = told
    PROVE  ToldDevicesLogged'
<1> SUFFICES ASSUME NEW d \in told'
             PROVE  DeviceLogged(d)'
  BY DEF ToldDevicesLogged, DeviceLogged
<1>1. d \in EventDevices /\ DeviceLogged(d)
  BY DEF IInv, TypeOK, EventDevices, ToldDevicesLogged, DeviceLogged
<1> QED
  BY <1>1 DEF LogGrows

\* Only worker w moves.
LEMMA RequestsKept ==
    ASSUME IInv, TypeOK', LogGrows, NEW w \in Workers,
           \A v \in Workers : v # w => h'[v] = h[v],
           RequestOK(h[w])'
    PROVE  (\A v \in Workers : RequestOK(h[v]))'
<1> SUFFICES ASSUME NEW v \in Workers
             PROVE  RequestOK(h[v])'
  OBVIOUS
<1>1. CASE v = w
  BY <1>1
<1>2. CASE v # w
  <2>1. h'[v] = h[v] /\ RequestOK(h[v]) /\ TypeOK
    BY <1>2 DEF IInv
  <2>2. events' \in Seq(Event) /\ clock' \in Nat
    BY DEF TypeOK, Date
  <2> QED
    BY <2>1, <2>2, RequestKept
<1> QED
  BY <1>1, <1>2

\* Worker w becomes idle.
LEMMA RequestEnds ==
    ASSUME NEW w \in Workers, h'[w] = Idle
    PROVE  RequestOK(h[w])'
BY DEF RequestOK, Idle

\* A request that passed its checks carries a copy as sound as the row.
LEMMA BeginStep ==
    ASSUME IInv, NEW w \in Workers, NEW op \in Ops, NEW d \in EventDevices,
           NEW e \in DateOrNone, NEW t \in Nat,
           NEW pc \in {"check", "event", "patch", "write"},
           Begin(w, op, d, e, t, pc),
           pc = "check" => op = "register",
           op = "get" => pc = "write",
           op = "register" => pc = "check" /\ d \in Devices,
           op = "return" => pc = "event",
           op = "cancel" => pc = "patch",
           op \in {"renew", "extend"} =>
              pc = "event" /\ e # NoDate /\ row.potential # NoDate /\ e <= row.potential
    PROVE  IInv'
<1>a. TypeOK /\ row \in Doc /\ h \in [Workers -> Request]
  BY DEF IInv, TypeOK
<1>b. /\ GetByLicenseID \in Doc
      /\ GetByLicenseID.status = row.status
      /\ GetByLicenseID.end = row.end
      /\ GetByLicenseID.potential = row.potential
      /\ GetByLicenseID.count = row.count
  BY <1>a, GetByLicenseIDFields
<1> DEFINE r == [pc |-> pc, op |-> op, device |-> d, doc |-> GetByLicenseID,
                 end |-> e, time |-> t]
<1>c. r \in Request
  BY <1>b DEF Request, Date
<1>d. /\ h' = [h EXCEPT ![w] = r]
      /\ UNCHANGED <<generated, row, events, lcpEnd, late, told, clock>>
  BY DEF Begin
<1>e. h'[w] = r /\ \A v \in Workers : v # w => h'[v] = h[v]
  BY <1>a, <1>d
<1>1. TypeOK'
  BY <1>a, <1>c, <1>d DEF TypeOK
<1>2. LogGrows
  BY <1>a, <1>d, SameLogGrows
<1>3. DocOK(row)'
  BY <1>a, <1>1, <1>2, <1>d, RowKept DEF IInv, TypeOK
<1>4. RequestOK(h[w])'
  <2>1. DocOK(h[w].doc)'
    <3>1. h'[w].doc = GetByLicenseID
      BY <1>e
    <3>2. DocOK(row)
      BY DEF IInv
    <3>3. RegisterEvents' = RegisterEvents
      BY <1>d DEF RegisterEvents
    <3>4. \A T : HasEvent(T)' <=> HasEvent(T)
      BY <1>d DEF HasEvent
    <3> QED
      BY <1>b, <1>d, <3>1, <3>2, <3>3, <3>4 DEF DocOK, WithinMaximum, StatusExplained
  <2>2. ProgressOK(h[w])'
    <3>1. /\ h'[w].pc = pc /\ h'[w].op = op /\ h'[w].device = d
          /\ h'[w].doc.potential = row.potential /\ h'[w].end = e
      BY <1>b, <1>e
    <3> QED
      BY <3>1 DEF ProgressOK
  <2>3. h'[w].op \in Ops
    BY <1>e
  <2> QED
    BY <2>1, <2>2, <2>3 DEF RequestOK
<1>5. (\A v \in Workers : RequestOK(h[v]))'
  BY <1>1, <1>2, <1>4, <1>e, RequestsKept
<1> QED
  BY <1>1, <1>2, <1>3, <1>5, <1>d, LicenseKept, LateKept, ToldKept DEF IInv

-----------------------------------------------------------------------------
(* One lemma for each call a request makes *)

\* CheckDevice: a device with an event is answered, another goes on to its event.
LEMMA CheckDeviceStep ==
    ASSUME IInv, NEW w \in Workers, CheckDevice(w)
    PROVE  IInv'
<1>a. /\ TypeOK /\ h \in [Workers -> Request] /\ RequestOK(h[w])
      /\ h[w].pc = "check"
      /\ UNCHANGED <<generated, row, events, lcpEnd, late, clock>>
  BY DEF IInv, TypeOK, CheckDevice
<1>b. h[w].op = "register" /\ h[w].device \in Devices
  BY <1>a DEF RequestOK, ProgressOK
<1>c. LogGrows
  BY <1>a, SameLogGrows
<1>d. events' \in Seq(Event) /\ clock' \in Nat
  BY <1>a DEF TypeOK, Date
<1>1. CASE CheckDeviceStatus(h[w].device)
  <2>1. /\ h' = [h EXCEPT ![w] = Idle]
        /\ told' = told \cup {h[w].device}
    BY <1>1 DEF CheckDevice
  <2>2. TypeOK'
    BY <1>a, <1>b, <2>1 DEF TypeOK, Idle, NoDoc, Request, Doc, DateOrNone, EventDevices, Date
  <2>3. ToldDevicesLogged'
    BY <1>1, <1>a, <2>1 DEF IInv, ToldDevicesLogged, CheckDeviceStatus
  <2>4. h'[w] = Idle /\ \A v \in Workers : v # w => h'[v] = h[v]
    BY <1>a, <2>1
  <2>5. (\A v \in Workers : RequestOK(h[v]))'
    BY <1>c, <2>2, <2>4, RequestEnds, RequestsKept
  <2> QED
    BY <1>a, <1>c, <1>d, <2>2, <2>3, <2>5, RowKept, LicenseKept, LateKept DEF IInv
<1>2. CASE ~CheckDeviceStatus(h[w].device)
  <2>1. /\ h' = [h EXCEPT ![w].pc = "event"]
        /\ told' = told
    BY <1>2, NextCallValues DEF CheckDevice
  <2>2. /\ h'[w] = [h[w] EXCEPT !.pc = "event"]
        /\ \A v \in Workers : v # w => h'[v] = h[v]
    BY <1>a, <2>1
  <2>3. TypeOK'
    <3>1. [h[w] EXCEPT !.pc = "event"] \in Request
      BY <1>a DEF Request
    <3>2. h' \in [Workers -> Request]
      BY <1>a, <2>1, <3>1
    <3> QED
      BY <1>a, <2>1, <3>2 DEF TypeOK
  <2>4. RequestOK(h[w])'
    <3>1. /\ h'[w].pc = "event" /\ h'[w].op = "register"
          /\ h'[w].device = h[w].device /\ h'[w].doc = h[w].doc
      BY <1>a, <1>b, <2>2 DEF Request
    <3>2. DocOK(h[w].doc)'
      <4>1. RegisterEvents' = RegisterEvents
        BY <1>a DEF RegisterEvents
      <4>2. \A T : HasEvent(T)' <=> HasEvent(T)
        BY <1>a DEF HasEvent
      <4>3. DocOK(h[w].doc)
        BY <1>a DEF RequestOK
      <4> QED
        BY <1>a, <3>1, <4>1, <4>2, <4>3 DEF DocOK, WithinMaximum, StatusExplained
    <3>3. ProgressOK(h[w])'
      BY <3>1, <1>b DEF ProgressOK
    <3> QED
      BY <3>1, <3>2, <3>3 DEF RequestOK, Ops
  <2>5. (\A v \in Workers : RequestOK(h[v]))'
    BY <1>c, <2>2, <2>3, <2>4, RequestsKept
  <2> QED
    BY <1>a, <1>c, <1>d, <2>1, <2>3, <2>5, RowKept, LicenseKept, LateKept, ToldKept DEF IInv
<1> QED
  BY <1>1, <1>2

\* AddEvent: the insert makes true what the later calls of the request rely on.
LEMMA AddEventStep ==
    ASSUME IInv, NEW w \in Workers, AddEvent(w)
    PROVE  IInv'
<1> DEFINE e == [type |-> EventType(h[w]), device |-> h[w].device]
<1> DEFINE t == IF h[w].op = "cancel" THEN h[w].time ELSE clock
<1>a. /\ TypeOK /\ h \in [Workers -> Request] /\ RequestOK(h[w])
      /\ events \in Seq(Event)
      /\ h[w] \in Request
      /\ h[w].pc = "event"
      /\ UNCHANGED <<generated, row, lcpEnd, late, told, clock>>
      /\ events' = Append(events, e)
      /\ h' = [h EXCEPT ![w].pc = NextCall(h[w].op, "event"), ![w].time = t]
  BY DEF IInv, TypeOK, AddEvent
<1>b. e \in Event
  BY <1>a, EventTypeType DEF Event, Request
<1>c. events' \in Seq(Event) /\ clock' \in Nat /\ clock \in Nat /\ t \in Nat
  BY <1>a, <1>b DEF TypeOK, Date, Request
<1>d. /\ \A T \in SUBSET EventTypes : HasEvent(T) => HasEvent(T)'
      /\ \A T \in SUBSET EventTypes : e.type \in T => HasEvent(T)'
      /\ \A d \in EventDevices : DeviceLogged(d) => DeviceLogged(d)'
      /\ \A d \in EventDevices : e.device = d => DeviceLogged(d)'
      /\ Cardinality(RegisterEvents) <= Cardinality(RegisterEvents')
      /\ e.type = "register" =>
            Cardinality(RegisterEvents') = Cardinality(RegisterEvents) + 1
  BY <1>a, <1>b, AddEventGrows
<1> HIDE DEF e, t
<1>e. LogGrows
  BY <1>a, <1>c, <1>d DEF LogGrows
<1>f. NextCall(h[w].op, "event") =
         IF h[w].op \in {"register", "cancel"} THEN "write" ELSE "patch"
  BY NextCallValues
<1>g. /\ h'[w] = [h[w] EXCEPT !.pc = NextCall(h[w].op, "event"), !.time = t]
      /\ \A v \in Workers : v # w => h'[v] = h[v]
  BY <1>a
<1>h. /\ h'[w].pc = NextCall(h[w].op, "event") /\ h'[w].op = h[w].op /\ h'[w].time = t
      /\ h'[w].device = h[w].device /\ h'[w].doc = h[w].doc /\ h'[w].end = h[w].end
      /\ h'[w] \in Request
  BY <1>a, <1>c, <1>f, <1>g DEF Request, Date
<1>1. TypeOK'
  BY <1>a, <1>c, <1>g, <1>h DEF TypeOK
<1>2. RequestOK(h[w])'
  <2>1. h[w].op \in Ops /\ DocOK(h[w].doc) /\ ProgressOK(h[w])
    BY <1>a DEF RequestOK
  <2>2. /\ Cardinality(RegisterEvents) \in Nat
        /\ Cardinality(RegisterEvents') \in Nat
        /\ h[w].doc.count \in Nat
        /\ h[w].device \in EventDevices
    BY <1>a, <1>c, SomeEventsFinite DEF RegisterEvents, Request, Doc
  <2>3. DocOK(h[w].doc)'
    <3>1. WithinMaximum(h[w].doc)'
      BY <1>a, <1>h, <2>1 DEF DocOK, WithinMaximum
    <3>2. (h[w].doc.count <= Cardinality(RegisterEvents))'
      BY <1>d, <1>h, <2>1, <2>2 DEF DocOK
    <3>3. StatusExplained(h[w].doc.status)'
      BY <1>e, <1>h, <2>1 DEF DocOK, StatusExplained, LogGrows, EventTypes
    <3> QED
      BY <3>1, <3>2, <3>3 DEF DocOK
  <2>4. ProgressOK(h[w])'
    <3>1. EventType(h[w])' = EventType(h[w])
      BY <1>h DEF EventType, CancelledStatus
    <3>2. HasEvent({EventType(h[w])})'
      <4>1. {EventType(h[w])} \in SUBSET EventTypes /\ e.type = EventType(h[w])
        BY EventTypeType DEF e
      <4> QED
        BY <1>d, <3>1, <4>1 DEF HasEvent
    <3>3. h[w].op = "register" =>
             /\ HasEvent({"register"})'
             /\ h[w].doc.count + 1 <= Cardinality(RegisterEvents')
             /\ h[w].device \in Devices
      <4>1. h[w].op = "register" => e.type = "register"
        BY DEF e, EventType
      <4> QED
        BY <1>d, <2>1, <2>2, <4>1 DEF DocOK, ProgressOK, EventTypes
    <3>4. DeviceLogged(h[w].device)'
      <4>1. e.device = h[w].device
        BY DEF e
      <4> QED
        BY <1>d, <1>h, <2>2, <4>1 DEF DeviceLogged
    <3>5. h[w].op = "return" => HasEvent({"return"})'
      BY <1>d DEF e, EventType, EventTypes
    <3>6. h[w].op \in {"renew", "extend"} => HasEvent({"renew"})'
      BY <1>d DEF e, EventType, EventTypes
    <3>7. h[w].op # "get"
      BY <1>a, <2>1 DEF ProgressOK
    <3>8. h[w].op = "return" => h'[w].time <= clock'
      BY <1>a, <1>c, <1>h DEF t
    <3> QED
      BY <1>f, <1>h, <2>1, <3>2, <3>3, <3>4, <3>5, <3>6, <3>7, <3>8 DEF ProgressOK
  <2> QED
    BY <1>h, <2>1, <2>3, <2>4 DEF RequestOK
<1>3. (\A v \in Workers : RequestOK(h[v]))'
  BY <1>1, <1>2, <1>e, <1>g, RequestsKept
<1> QED
  BY <1>1, <1>3, <1>a, <1>c, <1>e, RowKept, LicenseKept, LateKept, ToldKept DEF IInv

\* The end date of every PATCH is now, or the time of its event, or within the maximum.
LEMMA PatchPermitted ==
    ASSUME IInv, NEW w \in Workers, h[w].pc = "patch"
    PROVE  /\ h[w].op \in {"return", "cancel", "renew", "extend"}
           /\ PatchEnd(h[w]) \in Nat
           /\ PatchTime(h[w]) \in Nat
           /\ PatchTime(h[w]) = clock \/ PatchTime(h[w]) = h[w].time
           /\ Permitted(PatchEnd(h[w]))
<1>1. /\ h[w] \in Request /\ clock \in Nat /\ generated \in DateOrNone
      /\ h[w].op \in Ops /\ DocOK(h[w].doc) /\ ProgressOK(h[w])
  BY DEF IInv, TypeOK, RequestOK, Date
<1>2. h[w].time \in Nat /\ h[w].end \in DateOrNone /\ h[w].doc.potential \in DateOrNone
  BY <1>1 DEF Request, Doc, Date
<1>3. h[w].op \in {"return", "cancel", "renew", "extend"}
  BY <1>1 DEF ProgressOK, Ops
<1>4. CASE h[w].op \in {"return", "cancel"}
  <2>1. PatchEnd(h[w]) = PatchTime(h[w])
    BY <1>4 DEF PatchEnd
  <2>2. PatchTime(h[w]) \in Nat /\ PatchTime(h[w]) <= clock
    BY <1>1, <1>2, <1>4 DEF PatchTime, ProgressOK
  <2>3. PatchTime(h[w]) = clock \/ PatchTime(h[w]) = h[w].time
    BY DEF PatchTime
  <2>4. PatchTime(h[w]) # NoDate
    BY <2>2, ConstantsAssumption
  <2> HIDE DEF PatchTime
  <2> QED
    BY <1>3, <2>1, <2>2, <2>3, <2>4 DEF Permitted
<1>5. CASE h[w].op \in {"renew", "extend"}
  <2>1. PatchEnd(h[w]) = h[w].end /\ PatchTime(h[w]) = h[w].time
    BY <1>5 DEF PatchEnd, PatchTime
  <2>2. /\ h[w].end # NoDate /\ h[w].doc.potential # NoDate
        /\ h[w].end <= h[w].doc.potential
    BY <1>1, <1>5 DEF ProgressOK
  <2>3. h[w].doc.potential = PotentialEnd(generated)
    BY <1>1, <2>2 DEF DocOK, WithinMaximum
  <2> QED
    BY <1>2, <1>3, <2>1, <2>2, <2>3 DEF Permitted, DateOrNone, Date
<1> QED
  BY <1>3, <1>4, <1>5

\* UpdateLicense: a permitted end date, and the request keeps what it has done.
LEMMA UpdateLicenseStep ==
    ASSUME IInv, NEW w \in Workers, UpdateLicense(w)
    PROVE  IInv'
<1> DEFINE pe == PatchEnd(h[w])
<1> DEFINE pt == PatchTime(h[w])
<1> DEFINE pc == NextCall(h[w].op, "patch")
<1>a. /\ TypeOK /\ h \in [Workers -> Request] /\ RequestOK(h[w]) /\ h[w] \in Request
      /\ h[w].pc = "patch"
      /\ UNCHANGED <<generated, row, events, late, told, clock>>
      /\ lcpEnd' = pe
      /\ h' = [h EXCEPT ![w].pc = pc, ![w].end = pe, ![w].time = pt]
  BY DEF IInv, TypeOK, UpdateLicense
<1>b. /\ h[w].op \in {"return", "cancel", "renew", "extend"}
      /\ pe \in Nat /\ pt \in Nat
      /\ pt = clock \/ pt = h[w].time
      /\ Permitted(pe)
  BY <1>a, PatchPermitted
<1>c. h[w].op \in {"renew", "extend"} => pe = h[w].end
  BY DEF PatchEnd
<1>d. pc = IF h[w].op = "cancel" THEN "event" ELSE "write"
  BY NextCallValues
<1> HIDE DEF pe, pt, pc
<1>e. /\ h'[w] = [h[w] EXCEPT !.pc = pc, !.end = pe, !.time = pt]
      /\ \A v \in Workers : v # w => h'[v] = h[v]
  BY <1>a
<1>f. /\ h'[w].pc = pc /\ h'[w].op = h[w].op /\ h'[w].time = pt /\ h'[w].end = pe
      /\ h'[w].device = h[w].device /\ h'[w].doc = h[w].doc
      /\ h'[w] \in Request
  BY <1>a, <1>b, <1>d, <1>e DEF Request, Date, DateOrNone
<1>1. TypeOK'
  BY <1>a, <1>b, <1>e, <1>f DEF TypeOK, DateOrNone, Date
<1>2. LogGrows
  BY <1>a, SameLogGrows
<1>3. LicenseEndPermitted'
  BY <1>a, <1>b DEF LicenseEndPermitted, Permitted
<1>4. RequestOK(h[w])'
  <2>1. h[w].op \in Ops /\ DocOK(h[w].doc) /\ ProgressOK(h[w])
    BY <1>a DEF RequestOK
  <2>2. RegisterEvents' = RegisterEvents
    BY <1>a DEF RegisterEvents
  <2>3. \A T : HasEvent(T)' <=> HasEvent(T)
    BY <1>a DEF HasEvent
  <2>4. DocOK(h[w].doc)'
    BY <1>a, <1>f, <2>1, <2>2, <2>3 DEF DocOK, WithinMaximum, StatusExplained
  <2>5. h[w].op = "return" => HasEvent({"return"})' /\ pt <= clock'
    BY <1>a, <1>b, <2>1, <2>3 DEF ProgressOK, TypeOK, Date
  <2>6. h[w].op \in {"renew", "extend"} =>
           /\ HasEvent({"renew"})'
           /\ pe # NoDate /\ h[w].doc.potential # NoDate /\ pe <= h[w].doc.potential
    BY <1>a, <1>c, <2>1, <2>3 DEF ProgressOK
  <2>7. ProgressOK(h[w])'
    BY <1>b, <1>d, <1>f, <2>5, <2>6 DEF ProgressOK
  <2> QED
    BY <1>f, <2>1, <2>4, <2>7 DEF RequestOK
<1>5. (\A v \in Workers : RequestOK(h[v]))'
  BY <1>1, <1>2, <1>4, <1>e, RequestsKept
<1>6. events' \in Seq(Event)
  BY <1>1 DEF TypeOK
<1> QED
  BY <1>1, <1>2, <1>3, <1>5, <1>6, <1>a, RowKept, LateKept, ToldKept DEF IInv

\* UpdateLicenseTimeout and Fail: the request ends where it is.
LEMMA AbortStep ==
    ASSUME IInv, NEW w \in Workers, UpdateLicenseTimeout(w) \/ Fail(w)
    PROVE  IInv'
<1>a. /\ TypeOK /\ h \in [Workers -> Request]
      /\ h' = [h EXCEPT ![w] = Idle]
      /\ UNCHANGED <<generated, row, events, lcpEnd, told, clock>>
  BY DEF IInv, TypeOK, UpdateLicenseTimeout, Fail
<1>b. \/ late' = late
      \/ /\ late' = late \cup {PatchEnd(h[w])}
         /\ PatchEnd(h[w]) \in Nat
         /\ Permitted(PatchEnd(h[w]))
  BY PatchPermitted DEF UpdateLicenseTimeout, Fail
<1>1. TypeOK'
  <2>1. Idle \in Request
    BY DEF Idle, NoDoc, Request, Doc, DateOrNone, EventDevices, Date
  <2> QED
    BY <1>a, <1>b, <2>1 DEF TypeOK, Date
<1>2. LogGrows
  BY <1>a, SameLogGrows
<1>3. (\A e \in late : Permitted(e))'
  BY <1>a, <1>b DEF IInv, Permitted
<1>4. h'[w] = Idle /\ \A v \in Workers : v # w => h'[v] = h[v]
  BY <1>a
<1>5. (\A v \in Workers : RequestOK(h[v]))'
  BY <1>1, <1>2, <1>4, RequestEnds, RequestsKept
<1>6. events' \in Seq(Event)
  BY <1>1 DEF TypeOK
<1> QED
  BY <1>1, <1>2, <1>3, <1>5, <1>6, <1>a, RowKept, LicenseKept, ToldKept DEF IInv

\* UpdateRow: the copy, changed as its operation asks, is fit to be the row.
LEMMA UpdateRowStep ==
    ASSUME IInv, NEW w \in Workers, UpdateRow(w)
    PROVE  IInv'
<1> DEFINE r == h[w]
<1>a. /\ TypeOK /\ h \in [Workers -> Request] /\ r \in Request
      /\ r.pc = "write"
      /\ r.op \in Ops /\ DocOK(r.doc) /\ ProgressOK(r)
      /\ row' = NewDoc(r)
      /\ h' = [h EXCEPT ![w] = Idle]
      /\ told' = told \/ (r.op = "register" /\ told' = told \cup {r.device})
      /\ UNCHANGED <<generated, events, lcpEnd, late, clock>>
  BY DEF IInv, TypeOK, UpdateRow, RequestOK
<1>b. r.op = "register" => r.device \in Devices /\ DeviceLogged(r.device)
  BY <1>a DEF ProgressOK
<1>c. /\ r.doc \in Doc /\ r.doc.count \in Nat /\ Cardinality(RegisterEvents) \in Nat
      /\ r.doc.count + 1 \in Nat
  BY <1>a, RegisterEventsFinite DEF Request, Doc, TypeOK
<1>d. /\ RegisterEvents' = RegisterEvents
      /\ \A T : HasEvent(T)' <=> HasEvent(T)
  BY <1>a DEF RegisterEvents, HasEvent
<1> HIDE DEF r
<1>1. TypeOK'
  <2>1. Idle \in Request
    BY DEF Idle, NoDoc, Request, Doc, DateOrNone, EventDevices, Date
  <2> QED
    BY <1>a, <1>b, <2>1, NewDocType DEF TypeOK
<1>2. LogGrows
  BY <1>a, SameLogGrows
<1>3. DocOK(NewDoc(r))
  <2>1. CASE r.op = "get"
    <3>1. /\ NewDoc(r).status = "expired" /\ NewDoc(r).count = r.doc.count
          /\ NewDoc(r).end = r.doc.end /\ NewDoc(r).potential = r.doc.potential
      BY <1>c, <2>1 DEF NewDoc, Expired, Doc
    <3> QED
      BY <1>a, <3>1 DEF DocOK, WithinMaximum, StatusExplained
  <2>2. CASE r.op = "register"
    <3>1. /\ NewDoc(r).status = "active" /\ NewDoc(r).count = r.doc.count + 1
          /\ NewDoc(r).end = r.doc.end /\ NewDoc(r).potential = r.doc.potential
      BY <1>c, <2>2 DEF NewDoc, Registered, Doc
    <3>2. HasEvent({"register", "renew"})
      BY <1>a, <2>2 DEF ProgressOK, HasEvent
    <3> QED
      BY <1>a, <2>2, <3>1, <3>2 DEF DocOK, WithinMaximum, StatusExplained, ProgressOK
  <2>3. CASE r.op \in {"return", "cancel"}
    <3>1. /\ NewDoc(r).count = r.doc.count
          /\ NewDoc(r).potential = NoDate
          /\ NewDoc(r).status = IF r.op = "return" THEN ReturnedStatus(r.doc)
                                                   ELSE CancelledStatus(r.doc)
      BY <1>c, <2>3 DEF NewDoc, Closed, Doc
    <3>2. r.op = "return" => HasEvent({"return"}) /\ HasEvent({"cancel", "return"})
      BY <1>a DEF ProgressOK, HasEvent
    <3>3. r.op = "cancel" => HasEvent({EventType(r)})
      BY <1>a DEF ProgressOK
    <3>4. StatusExplained(NewDoc(r).status)
      <4>1. CASE r.op = "return"
        BY <3>1, <3>2, <4>1 DEF StatusExplained, ReturnedStatus
      <4>2. CASE r.op = "cancel" /\ r.doc.status = "ready"
        BY <3>1, <3>3, <4>2 DEF StatusExplained, CancelledStatus, EventType, HasEvent
      <4>3. CASE r.op = "cancel" /\ r.doc.status # "ready"
        BY <3>1, <3>3, <4>3 DEF StatusExplained, CancelledStatus, EventType
      <4> QED
        BY <2>3, <4>1, <4>2, <4>3
    <3> QED
      BY <1>a, <3>1, <3>4 DEF DocOK, WithinMaximum
  <2>4. CASE r.op \in {"renew", "extend"}
    <3>1. /\ NewDoc(r).status = "active" /\ NewDoc(r).count = r.doc.count
          /\ NewDoc(r).end = r.end /\ NewDoc(r).potential = r.doc.potential
      BY <1>c, <2>4 DEF NewDoc, Renewed, Doc
    <3>2. HasEvent({"register", "renew"})
      BY <1>a, <2>4 DEF ProgressOK, HasEvent
    <3> QED
      BY <1>a, <2>4, <3>1, <3>2 DEF DocOK, WithinMaximum, StatusExplained, ProgressOK
  <2> QED
    BY <1>a, <2>1, <2>2, <2>3, <2>4 DEF Ops
<1>4. DocOK(row)'
  BY <1>a, <1>d, <1>3 DEF DocOK, WithinMaximum, StatusExplained
<1>5. ToldDevicesLogged'
  BY <1>a, <1>b DEF IInv, ToldDevicesLogged, DeviceLogged
<1>6. h'[w] = Idle /\ \A v \in Workers : v # w => h'[v] = h[v]
  BY <1>a
<1>7. (\A v \in Workers : RequestOK(h[v]))'
  BY <1>1, <1>2, <1>6, RequestEnds, RequestsKept
<1> QED
  BY <1>1, <1>2, <1>4, <1>5, <1>7, <1>a, LicenseKept, LateKept DEF IInv

\* CreateLicenseStatusDocument: a new document is within the maximum it defines.
LEMMA CreateStep ==
    ASSUME IInv, CreateLicenseStatusDocument
    PROVE  IInv'
<1>a. /\ TypeOK /\ generated \in DateOrNone /\ clock \in Nat
      /\ row' = makeLicenseStatus
      /\ UNCHANGED <<generated, events, lcpEnd, late, told, clock, h>>
  BY DEF IInv, TypeOK, CreateLicenseStatusDocument, Date
<1>1. TypeOK'
  BY <1>a, PotentialEndType DEF TypeOK, makeLicenseStatus, Doc, StatusValues, Usable, Date,
     DateOrNone
<1>2. LogGrows
  BY <1>a, SameLogGrows
<1>3. DocOK(row)'
  <2>1. /\ row'.end = generated' /\ row'.potential = PotentialEnd(generated)
        /\ row'.count = 0
        /\ row'.status = IF Register THEN "ready" ELSE "active"
    BY <1>a DEF makeLicenseStatus
  <2>2. WithinMaximum(row)'
    BY <1>a, <2>1, PotentialEndBound DEF WithinMaximum
  <2>3. (row.count <= Cardinality(RegisterEvents))'
    <3>1. Cardinality(RegisterEvents') \in Nat
      BY <1>1, SomeEventsFinite DEF TypeOK, RegisterEvents
    <3> QED
      BY <2>1, <3>1
  <2>4. StatusExplained(row.status)'
    BY <2>1 DEF StatusExplained
  <2> QED
    BY <2>2, <2>3, <2>4 DEF DocOK
<1>4. (\A v \in Workers : RequestOK(h[v]))'
  <2>1. /\ events' \in Seq(Event) /\ clock' \in Nat
        /\ \A v \in Workers : RequestOK(h[v])
    BY <1>1 DEF TypeOK, Date, IInv
  <2> QED
    BY <1>a, <1>2, <2>1, RequestKept
<1> QED
  BY <1>1, <1>2, <1>3, <1>4, <1>a, LicenseKept, LateKept, ToldKept DEF IInv

\* LateUpdateLicense, Tick and stuttering touch neither the row nor the requests.
LEMMA BackgroundStep ==
    ASSUME IInv, LateUpdateLicense \/ Tick \/ UNCHANGED vars
    PROVE  IInv'
<1>a. /\ TypeOK
      /\ UNCHANGED <<generated, row, events, told, h>>
      /\ clock' = clock \/ clock' = clock + 1
      /\ late' \subseteq late
      /\ lcpEnd' = lcpEnd \/ (clock' = clock /\ lcpEnd' \in late)
  BY DEF IInv, LateUpdateLicense, Tick, vars
<1>1. TypeOK'
  <2>1. clock' \in Nat
    BY <1>a DEF TypeOK, Date
  <2>2. lcpEnd' \in DateOrNone
    BY <1>a DEF TypeOK, Date, DateOrNone
  <2> QED
    BY <1>a, <2>1, <2>2 DEF TypeOK, Date
<1>2. LogGrows
  BY <1>a, SameLogGrows
<1>3. LicenseEndPermitted'
  <2>1. CASE lcpEnd' = lcpEnd
    BY <1>1, <1>2, <2>1, LicenseKept
  <2>2. CASE clock' = clock /\ lcpEnd' \in late
    BY <1>a, <2>2 DEF IInv, LicenseEndPermitted, Permitted
  <2> QED
    BY <1>a, <2>1, <2>2
<1>4. (\A v \in Workers : RequestOK(h[v]))'
  <2>1. /\ events' \in Seq(Event) /\ clock' \in Nat
        /\ \A v \in Workers : RequestOK(h[v])
    BY <1>1 DEF TypeOK, Date, IInv
  <2> QED
    BY <1>a, <1>2, <2>1, RequestKept
<1>5. events' \in Seq(Event)
  BY <1>1 DEF TypeOK
<1> QED
  BY <1>1, <1>2, <1>3, <1>4, <1>5, <1>a, RowKept, LateKept, ToldKept DEF IInv

-----------------------------------------------------------------------------
(* The invariant *)

\* The invariant holds when the tables are empty and no request is served.
LEMMA InitIInv == Init => IInv
<1> SUFFICES ASSUME Init
             PROVE  IInv
  OBVIOUS
<1>1. TypeOK
  BY ConstantsAssumption DEF Init, TypeOK, NoDoc, Idle, Doc, Request, EventDevices,
     StatusValues, DateOrNone, Date, Ops
<1>2. Cardinality(RegisterEvents) \in Nat
  BY <1>1, RegisterEventsFinite DEF TypeOK
<1>3. DocOK(row)
  BY <1>2 DEF Init, DocOK, WithinMaximum, StatusExplained, NoDoc
<1>4. LicenseEndPermitted /\ ToldDevicesLogged /\ \A e \in late : Permitted(e)
  BY DEF Init, LicenseEndPermitted, ToldDevicesLogged
<1>5. \A w \in Workers : RequestOK(h[w])
  BY DEF Init, RequestOK, Idle
<1> QED
  BY <1>1, <1>3, <1>4, <1>5 DEF IInv

\* The row's dates, and the dates a renewal may ask for, are numbers.
LEMMA SuggestedDates ==
    ASSUME TypeOK
    PROVE  /\ row.end # NoDate => row.end \in Nat
           /\ \A base \in Nat : SuggestedEnds(base) \subseteq Nat
           /\ clock \in Nat
BY ConstantsAssumption DEF TypeOK, Doc, DateOrNone, Date, SuggestedEnds

\* Every step of every handler keeps the invariant.
LEMMA NextIInv == IInv /\ [Next]_vars => IInv'
<1> SUFFICES ASSUME IInv, [Next]_vars
             PROVE  IInv'
  OBVIOUS
<1>a. TypeOK /\ clock \in Nat
  BY DEF IInv, TypeOK, Date
<1>b. /\ NoDate \in DateOrNone /\ Nat \subseteq DateOrNone
      /\ Devices \subseteq EventDevices
      /\ {System, Subscription, Anonymous} \subseteq EventDevices
      /\ \A n \in Nat : n # NoDate
  BY ConstantsAssumption DEF DateOrNone, Date, EventDevices
<1>1. ASSUME NEW w \in Workers, GetLicenseStatusDocument(w)
      PROVE  IInv'
  <2>1. Begin(w, "get", Anonymous, NoDate, clock, "write")
    BY <1>1 DEF GetLicenseStatusDocument
  <2> QED
    BY <1>a, <1>b, <2>1, BeginStep DEF Ops
<1>2. ASSUME NEW w \in Workers, RegisterDevice(w)
      PROVE  IInv'
  <2>1. PICK d \in Devices : Begin(w, "register", d, NoDate, 0, "check")
    BY <1>2 DEF RegisterDevice
  <2> QED
    BY <1>b, <2>1, BeginStep DEF Ops
<1>3. ASSUME NEW w \in Workers, LendingReturn(w)
      PROVE  IInv'
  <2>1. PICK d \in Devices \cup {Anonymous} : Begin(w, "return", d, NoDate, 0, "event")
    BY <1>3 DEF LendingReturn
  <2> QED
    BY <1>b, <2>1, BeginStep DEF Ops
<1>4. ASSUME NEW w \in Workers, LendingRenewal(w)
      PROVE  IInv'
  <2> DEFINE base == IF RenewFromNow THEN clock ELSE row.end
  <2>1. base \in Nat /\ row.potential # NoDate
    BY <1>4, <1>a, SuggestedDates DEF LendingRenewal
  <2>2. PICK d \in Devices \cup {Anonymous}, e \in SuggestedEnds(base) :
           e <= row.potential /\ Begin(w, "renew", d, e, 0, "event")
    BY <1>4 DEF LendingRenewal
  <2>3. e \in Nat
    BY <1>a, <2>1, SuggestedDates
  <2> QED
    BY <1>b, <2>1, <2>2, <2>3, BeginStep DEF Ops
<1>5. ASSUME NEW w \in Workers, ExtendSubscription(w)
      PROVE  IInv'
  <2>1. row.end \in Nat /\ row.potential # NoDate
    BY <1>5, <1>a, SuggestedDates DEF ExtendSubscription
  <2>2. PICK e \in SuggestedEnds(row.end) :
           e <= row.potential /\ Begin(w, "extend", Subscription, e, 0, "event")
    BY <1>5 DEF ExtendSubscription
  <2>3. e \in Nat
    BY <1>a, <2>1, SuggestedDates
  <2> QED
    BY <1>b, <2>1, <2>2, <2>3, BeginStep DEF Ops
<1>6. ASSUME NEW w \in Workers, LendingCancellation(w)
      PROVE  IInv'
  <2>1. Begin(w, "cancel", System, NoDate, 0, "patch")
    BY <1>6 DEF LendingCancellation
  <2> QED
    BY <1>b, <2>1, BeginStep DEF Ops
<1> QED
  BY <1>1, <1>2, <1>3, <1>4, <1>5, <1>6, CreateStep, CheckDeviceStep, AddEventStep,
     UpdateLicenseStep, AbortStep, UpdateRowStep, BackgroundStep DEF Next

\* IInv holds in every reachable state.
THEOREM Invariance == Spec => []IInv
BY InitIInv, NextIInv, PTL DEF Spec

\* Type correctness: every handler keeps the tables, the answers and its copy well formed.
THEOREM TypeCorrect == Spec => []TypeOK
<1>1. IInv => TypeOK
  BY DEF IInv
<1> QED
  BY <1>1, Invariance, PTL

\* No interleaving of renewals, returns, stale writes and failures lets the row pass the
\* maximum end of the loan (LendingRenewal, ExtendSubscription).
THEOREM LoanWithinMaximum == Spec => []EndWithinMaximum
<1>1. IInv => EndWithinMaximum
  BY DEF IInv, DocOK, EndWithinMaximum
<1> QED
  BY <1>1, Invariance, PTL

\* The License Server is never given an end date that lies in the future and beyond the
\* maximum (updateLicense), late PATCH requests included.
THEOREM LicenseWithinMaximum == Spec => []LicenseEndPermitted
<1>1. IInv => LicenseEndPermitted
  BY DEF IInv
<1> QED
  BY <1>1, Invariance, PTL

\* device_count never exceeds the number of register events (RegisterDevice).
THEOREM DeviceCountBounded == Spec => []CountNeverOverstates
<1>1. IInv => CountNeverOverstates
  BY DEF IInv, DocOK, CountNeverOverstates
<1> QED
  BY <1>1, Invariance, PTL

\* Every status has its cause in the event table.
THEOREM StatusHasCause == Spec => []EventsExplainStatus
<1>1. IInv => EventsExplainStatus
  BY DEF IInv, DocOK, EventsExplainStatus
<1> QED
  BY <1>1, Invariance, PTL

\* A device answered by RegisterDevice has an event in the table.
THEOREM AnsweredDevicesLogged == Spec => []ToldDevicesLogged
<1>1. IInv => ToldDevicesLogged
  BY DEF IInv
<1> QED
  BY <1>1, Invariance, PTL

-----------------------------------------------------------------------------
(***************************************************************************)
(* A server that serves the requests of the license one after the other.   *)
(* The copy a request carries is then the row, apart from the date         *)
(* GetByLicenseID moves to the certificate's, and the checks the handler   *)
(* made on its copy still hold of the row when it writes it back.          *)
(***************************************************************************)

Serial == \A v, w \in Workers : v = w

\* The request has the time with which it will stamp the row.
Stamped(r) ==
    \/ r.pc = "write"
    \/ r.pc = "patch" /\ r.op # "cancel"
    \/ r.pc = "event" /\ r.op = "cancel"

\* The License Server has already applied and answered the PATCH of the request.
Patched(r) ==
    \/ r.pc = "write" /\ r.op \in {"return", "renew", "extend", "cancel"}
    \/ r.pc = "event" /\ r.op = "cancel"

\* The copy is the row.
CopyCurrent(r) ==
    /\ r.doc.status = row.status
    /\ r.doc.end = row.end
    /\ r.doc.potential = row.potential
    /\ r.doc.count = row.count
    /\ row.licenseUpdated <= r.doc.licenseUpdated
    /\ r.doc.licenseUpdated <= clock

\* The checks made when the row was read hold still.
Admitted(r) ==
    /\ row.status \in Usable \cup {"expired"}
    /\ r.op \in {"get", "register", "cancel"} => row.status \in Usable
    /\ r.op = "get" => row.end # NoDate /\ row.end < clock
    /\ r.op \in {"renew", "extend"} => row.end # NoDate /\ row.end <= r.end
    /\ Stamped(r) => /\ row.licenseUpdated <= r.time
                     /\ row.statusUpdated <= r.time
                     /\ r.time <= clock
    /\ Patched(r) /\ r.op \in {"return", "cancel"} => r.end = r.time

\* Stored dates are not in the future, and the request under way, if any, is current.
SInv ==
    /\ row.licenseUpdated <= clock /\ row.statusUpdated <= clock
    /\ CertDate # NoDate => CertDate <= clock
    /\ \A w \in Workers : h[w].pc # "idle" => CopyCurrent(h[w]) /\ Admitted(h[w])

RegisteredDevices == {events[i].device : i \in RegisterEvents}

\* The register event of the request is stored, the count is not yet raised.
Uncounted(r) == r.op = "register" /\ r.pc = "write"

\* Without failures, the only difference between the two servers, and between the count
\* and the event table, is the one the request under way has made and will settle.
CleanInv ==
    /\ late = {}
    /\ row.status = "none" => lcpEnd = generated /\ row.count = 0
    /\ row.status # "none" /\ (\A w \in Workers : ~Patched(h[w])) => row.end = lcpEnd
    /\ \A w \in Workers : Patched(h[w]) => h[w].end = lcpEnd
    /\ \A w \in Workers : h[w].op = "register" /\ h[w].pc = "event" =>
          ~DeviceLogged(h[w].device)
    /\ (\A w \in Workers : ~Uncounted(h[w])) =>
          row.count = Cardinality(RegisteredDevices)
    /\ \A w \in Workers : Uncounted(h[w]) =>
          row.count + 1 = Cardinality(RegisteredDevices)

\* Only worker w moves, and neither the row nor the clock does.
LEMMA SerialKept ==
    ASSUME Serial, SInv, NEW w \in Workers, row' = row, clock' = clock,
           h'[w].pc # "idle" => CopyCurrent(h[w])' /\ Admitted(h[w])'
    PROVE  SInv'
<1>1. \A v \in Workers : v = w
  BY DEF Serial
<1>2. \A v \in Workers : h'[v].pc # "idle" => CopyCurrent(h[v])' /\ Admitted(h[v])'
  BY <1>1
<1> QED
  BY <1>2 DEF SInv

\* What GetByLicenseID does to the update date.
LEMMA CopyDate ==
    ASSUME TypeOK, SInv
    PROVE  /\ row.licenseUpdated <= GetByLicenseID.licenseUpdated
           /\ GetByLicenseID.licenseUpdated <= clock
<1>1. row \in Doc /\ row.licenseUpdated \in Nat /\ clock \in Nat
  BY DEF TypeOK, Doc, Date
<1>2. CASE CertDate # NoDate /\ row.licenseUpdated < CertDate
  <2>1. GetByLicenseID.licenseUpdated = CertDate
    BY <1>1, <1>2 DEF GetByLicenseID, Doc
  <2>2. CertDate \in Nat /\ CertDate <= clock
    BY <1>2, ConstantsAssumption DEF SInv, DateOrNone, Date
  <2> QED
    BY <1>1, <1>2, <2>1, <2>2
<1>3. CASE ~(CertDate # NoDate /\ row.licenseUpdated < CertDate)
  <2>1. GetByLicenseID = row
    BY <1>3 DEF GetByLicenseID
  <2> QED
    BY <1>1, <2>1 DEF SInv
<1> QED
  BY <1>2, <1>3

\* The copy a handler reads is current, and its checks are those of the row.
LEMMA SerialBegin ==
    ASSUME Serial, IInv, SInv, NEW w \in Workers, NEW op \in Ops, NEW d, NEW e,
           NEW t \in Nat, NEW pc \in {"check", "event", "patch", "write"},
           Begin(w, op, d, e, t, pc),
           row.status \in Usable \cup {"expired"},
           op \in {"get", "register", "cancel"} => row.status \in Usable,
           op = "get" => row.end # NoDate /\ row.end < clock,
           op \in {"renew", "extend"} => row.end # NoDate /\ row.end <= e,
           pc = "write" => op = "get" /\ t = clock,
           pc = "patch" => op = "cancel",
           pc = "event" => op # "cancel"
    PROVE  SInv'
<1>a. TypeOK /\ row \in Doc /\ h \in [Workers -> Request] /\ clock \in Nat
  BY DEF IInv, TypeOK, Date
<1>b. /\ GetByLicenseID.status = row.status
      /\ GetByLicenseID.end = row.end
      /\ GetByLicenseID.potential = row.potential
      /\ GetByLicenseID.count = row.count
      /\ row.licenseUpdated <= GetByLicenseID.licenseUpdated
      /\ GetByLicenseID.licenseUpdated <= clock
  BY <1>a, GetByLicenseIDFields, CopyDate
<1>c. row' = row /\ clock' = clock
  BY DEF Begin
<1>d. /\ h'[w].pc = pc /\ h'[w].op = op /\ h'[w].end = e /\ h'[w].time = t
      /\ h'[w].doc = GetByLicenseID
  BY <1>a DEF Begin
<1> HIDE DEF GetByLicenseID
<1>1. CopyCurrent(h[w])'
  BY <1>b, <1>c, <1>d DEF CopyCurrent
<1>2. /\ Stamped(h[w])' => pc = "write"
      /\ ~Patched(h[w])'
  BY <1>d DEF Stamped, Patched
<1>3. Admitted(h[w])'
  BY <1>a, <1>c, <1>d, <1>2 DEF Admitted, SInv
<1> QED
  BY <1>1, <1>3, <1>c, SerialKept

\* The calls between the read of the row and its update leave the row and the clock alone.
LEMMA SerialCall ==
    ASSUME Serial, IInv, SInv, NEW w \in Workers,
           CheckDevice(w) \/ AddEvent(w) \/ UpdateLicense(w) \/ UpdateLicenseTimeout(w) \/ Fail(w)
    PROVE  SInv'
<1>a. /\ h \in [Workers -> Request] /\ h[w] \in Request /\ clock \in Nat /\ row \in Doc
      /\ RequestOK(h[w])
      /\ row' = row /\ clock' = clock
      /\ h[w].pc # "idle" => CopyCurrent(h[w]) /\ Admitted(h[w])
  BY DEF IInv, TypeOK, Date, SInv, CheckDevice, AddEvent, UpdateLicense,
     UpdateLicenseTimeout, Fail
<1>b. /\ row.licenseUpdated <= clock /\ row.statusUpdated <= clock
      /\ row.licenseUpdated \in Nat /\ row.statusUpdated \in Nat /\ h[w].time \in Nat
  BY <1>a DEF SInv, Doc, Request, Date
<1>1. CASE UpdateLicenseTimeout(w) \/ Fail(w)
  <2>1. h'[w] = Idle
    BY <1>a, <1>1 DEF UpdateLicenseTimeout, Fail
  <2> QED
    BY <1>a, <2>1, SerialKept DEF Idle
<1>2. CASE CheckDevice(w)
  <2>1. \/ h'[w] = Idle
        \/ /\ h'[w].pc = "event" /\ h'[w].op = h[w].op /\ h'[w].doc = h[w].doc
           /\ h'[w].end = h[w].end
    BY <1>a, <1>2, NextCallValues DEF CheckDevice, Request
  <2>2. h[w].pc = "check" /\ h[w].op = "register"
    BY <1>a, <1>2 DEF CheckDevice, RequestOK, ProgressOK
  <2>3. h'[w] # Idle => CopyCurrent(h[w])'
    BY <1>a, <2>1, <2>2 DEF CopyCurrent
  <2>4. h'[w] # Idle => Admitted(h[w])'
    BY <1>a, <2>1, <2>2 DEF Admitted, Stamped, Patched
  <2> QED
    BY <1>a, <2>1, <2>3, <2>4, SerialKept DEF Idle
<1>3. CASE AddEvent(w)
  <2> DEFINE t == IF h[w].op = "cancel" THEN h[w].time ELSE clock
  <2>1. /\ h'[w].op = h[w].op /\ h'[w].doc = h[w].doc
        /\ h'[w].end = h[w].end /\ h'[w].time = t
    BY <1>a, <1>3 DEF AddEvent, Request
  <2>2. h[w].pc = "event"
    BY <1>3 DEF AddEvent
  <2>3. h'[w].pc = IF h[w].op \in {"register", "cancel"} THEN "write" ELSE "patch"
    BY <1>a, <1>3, NextCallValues DEF AddEvent, Request
  <2>4. CopyCurrent(h[w])'
    BY <1>a, <2>1, <2>2 DEF CopyCurrent
  <2>5. /\ row.licenseUpdated <= t /\ row.statusUpdated <= t /\ t <= clock
    BY <1>a, <1>b, <2>2 DEF Admitted, Stamped
  <2> HIDE DEF t
  <2>6. Patched(h[w])' /\ h[w].op \in {"return", "cancel"} =>
           h[w].op = "cancel" /\ Patched(h[w])
    BY <2>1, <2>2, <2>3 DEF Patched
  <2>7. h[w].op = "cancel" => t = h[w].time
    BY DEF t
  <2>8. Admitted(h[w])'
    BY <1>a, <2>1, <2>2, <2>5, <2>6, <2>7 DEF Admitted
  <2> QED
    BY <1>a, <2>4, <2>8, SerialKept
<1>4. CASE UpdateLicense(w)
  <2> DEFINE pe == PatchEnd(h[w])
  <2> DEFINE pt == PatchTime(h[w])
  <2>1. /\ h'[w].op = h[w].op /\ h'[w].doc = h[w].doc
        /\ h'[w].end = pe /\ h'[w].time = pt
    BY <1>a, <1>4 DEF UpdateLicense, Request
  <2>2. h[w].pc = "patch" /\ h[w].op \in {"return", "cancel", "renew", "extend"}
    BY <1>4, PatchPermitted DEF UpdateLicense
  <2>3. CopyCurrent(h[w])'
    BY <1>a, <2>1, <2>2 DEF CopyCurrent
  <2>4. /\ row.licenseUpdated <= pt /\ row.statusUpdated <= pt /\ pt <= clock
    BY <1>a, <1>b, <2>2 DEF Admitted, Stamped, PatchTime
  <2>5. /\ h[w].op \in {"return", "cancel"} => pe = pt
        /\ h[w].op \in {"renew", "extend"} => pe = h[w].end
    BY DEF PatchEnd
  <2> HIDE DEF pe, pt
  <2>6. Admitted(h[w])'
    BY <1>a, <2>1, <2>2, <2>4, <2>5 DEF Admitted
  <2> QED
    BY <1>a, <2>3, <2>6, SerialKept
<1> QED
  BY <1>1, <1>2, <1>3, <1>4

\* The step of the lifecycle that an operation stands for.
Effect(op) ==
    CASE op = "get" -> Lifecycle!Expire
      [] op = "register" -> Lifecycle!Activate
      [] op \in {"return", "cancel"} -> Lifecycle!Close
      [] OTHER -> Lifecycle!Extend

\* UpdateRow of a serial server: the row moves as the lifecycle allows, and its dates forward.
LEMMA SerialWrite ==
    ASSUME IInv, SInv, NEW w \in Workers, UpdateRow(w)
    PROVE  /\ row.status \in Usable \cup {"expired"}
           /\ row'.licenseUpdated >= row.licenseUpdated
           /\ row'.statusUpdated >= row.statusUpdated
           /\ row'.licenseUpdated <= clock /\ row'.statusUpdated <= clock
           /\ Effect(h[w].op)
<1> DEFINE r == h[w]
<1>a. /\ r \in Request /\ r.doc \in Doc /\ r.time \in Nat /\ clock \in Nat
      /\ r.end \in DateOrNone
      /\ row \in Doc /\ row.licenseUpdated \in Nat /\ row.statusUpdated \in Nat
      /\ r.doc.licenseUpdated \in Nat
      /\ r.pc = "write"
      /\ r.op \in Ops /\ DocOK(r.doc) /\ ProgressOK(r)
      /\ CopyCurrent(r) /\ Admitted(r)
      /\ row' = NewDoc(r) /\ clock' = clock
  BY DEF IInv, TypeOK, Date, SInv, UpdateRow, RequestOK, Request, Doc
<1>b. /\ row.licenseUpdated <= r.time /\ row.statusUpdated <= r.time /\ r.time <= clock
      /\ row.status \in Usable \cup {"expired"}
  BY <1>a DEF Admitted, Stamped
<1>c. /\ row.licenseUpdated <= r.doc.licenseUpdated /\ r.doc.licenseUpdated <= clock
      /\ r.doc.status = row.status /\ r.doc.end = row.end
      /\ r.doc.potential = row.potential
  BY <1>a DEF CopyCurrent
<1> HIDE DEF r
<1>1. CASE r.op = "get"
  <2>1. /\ row'.status = "expired" /\ row'.end = r.doc.end
        /\ row'.potential = r.doc.potential
        /\ row'.licenseUpdated = r.doc.licenseUpdated /\ row'.statusUpdated = r.time
    BY <1>a, <1>1 DEF NewDoc, Expired, Doc
  <2>2. row.status \in Usable /\ row.end # NoDate /\ row.end < clock
    BY <1>a, <1>1 DEF Admitted
  <2>3. Lifecycle!Expire
    BY <1>a, <1>c, <2>1, <2>2 DEF Lifecycle!Expire, Lifecycle!Usable, Usable
  <2>4. Effect(r.op)
    BY <1>1, <2>3 DEF Effect
  <2> QED
    BY <1>a, <1>b, <1>c, <2>1, <2>4 DEF r
<1>2. CASE r.op = "register"
  <2>1. /\ row'.status = "active" /\ row'.end = r.doc.end
        /\ row'.potential = r.doc.potential
        /\ row'.licenseUpdated = r.doc.licenseUpdated /\ row'.statusUpdated = r.time
    BY <1>a, <1>2 DEF NewDoc, Registered, Doc
  <2>2. row.status \in Usable
    BY <1>a, <1>2 DEF Admitted
  <2>3. Lifecycle!Activate
    BY <1>a, <1>c, <2>1, <2>2 DEF Lifecycle!Activate, Lifecycle!Usable, Usable
  <2>4. Effect(r.op)
    BY <1>2, <2>3 DEF Effect
  <2> QED
    BY <1>a, <1>b, <1>c, <2>1, <2>4 DEF r
<1>3. CASE r.op \in {"return", "cancel"}
  <2>1. /\ row'.status = IF r.op = "return" THEN ReturnedStatus(r.doc)
                                            ELSE CancelledStatus(r.doc)
        /\ row'.end = r.end
        /\ row'.potential = NoDate
        /\ row'.licenseUpdated = r.time /\ row'.statusUpdated = r.time
    BY <1>a, <1>3 DEF NewDoc, Closed, Doc
  <2>2. r.op = "cancel" => row.status \in Usable
    BY <1>a DEF Admitted
  <2>3. r.end = r.time
    BY <1>a, <1>3 DEF Admitted, Patched
  <2>4. \/ row.status = "ready" /\ row'.status = "cancelled"
        \/ row.status = "active" /\ row'.status \in {"returned", "revoked"}
        \/ row.status = "expired" /\ row'.status = "returned"
    BY <1>b, <1>c, <1>3, <2>1, <2>2 DEF ReturnedStatus, CancelledStatus, Usable
  <2>5. Lifecycle!Close
    BY <1>a, <1>b, <2>1, <2>3, <2>4 DEF Lifecycle!Close
  <2>6. Effect(r.op)
    BY <1>3, <2>5 DEF Effect
  <2> QED
    BY <1>a, <1>b, <1>c, <2>1, <2>6 DEF r
<1>4. CASE r.op \in {"renew", "extend"}
  <2>1. /\ row'.status = "active" /\ row'.end = r.end
        /\ row'.potential = r.doc.potential
        /\ row'.licenseUpdated = r.time /\ row'.statusUpdated = r.time
    BY <1>a, <1>4 DEF NewDoc, Renewed, Doc
  <2>2. row.end # NoDate /\ row.end <= r.end
    BY <1>a, <1>4 DEF Admitted
  <2>3. r.end # NoDate /\ row.potential # NoDate /\ r.end <= row.potential
    BY <1>a, <1>c, <1>4 DEF ProgressOK
  <2>4. r.end \in Nat
    BY <1>a, <2>3 DEF DateOrNone, Date
  <2>5. Lifecycle!Extend
    BY <1>a, <1>b, <1>c, <2>1, <2>2, <2>3, <2>4 DEF Lifecycle!Extend, Lifecycle!Usable, Usable
  <2>6. Effect(r.op)
    BY <1>4, <2>5 DEF Effect
  <2> QED
    BY <1>a, <1>b, <1>c, <2>1, <2>6 DEF r
<1> QED
  BY <1>a, <1>1, <1>2, <1>3, <1>4 DEF Ops

\* Nothing but its creation and the handlers' last call changes the row.
LEMMA RowWriters ==
    ASSUME [Next]_vars
    PROVE  \/ row' = row
           \/ CreateLicenseStatusDocument
           \/ \E w \in Workers : UpdateRow(w)
BY DEF Next, vars, Begin, GetLicenseStatusDocument, RegisterDevice, LendingReturn,
   LendingRenewal, ExtendSubscription, LendingCancellation, CheckDevice, AddEvent,
   UpdateLicense, UpdateLicenseTimeout, Fail, LateUpdateLicense, Tick

\* Before the document exists no request is under way.
LEMMA NoEarlyRequest ==
    ASSUME SInv, row.status = "none", NEW w \in Workers
    PROVE  h[w].pc = "idle"
BY DEF SInv, Admitted, Usable

\* The serial invariant holds at the start: the certificate's date has passed.
LEMMA InitSInv == Init => SInv
<1> SUFFICES ASSUME Init
             PROVE  SInv
  OBVIOUS
<1>1. row = NoDoc /\ clock = StartTime /\ \A w \in Workers : h[w] = Idle
  BY DEF Init
<1>2. /\ row.licenseUpdated <= clock /\ row.statusUpdated <= clock
      /\ CertDate # NoDate => CertDate <= clock
  BY <1>1, ConstantsAssumption DEF NoDoc
<1>3. \A w \in Workers : h[w].pc = "idle"
  BY <1>1 DEF Idle
<1> QED
  BY <1>2, <1>3 DEF SInv

\* Every step of a serial server keeps the copy of its request current.
LEMMA SerialStep ==
    ASSUME Serial, IInv, SInv, [Next]_vars
    PROVE  SInv'
<1>a. TypeOK /\ row \in Doc /\ clock \in Nat /\ row.end \in DateOrNone
  BY DEF IInv, TypeOK, Doc, Date
<1>b. \A s \in Usable : s \in Usable \cup {"expired"}
  OBVIOUS
<1>1. CASE CreateLicenseStatusDocument
  <2>1. /\ row'.licenseUpdated = 0 /\ row'.statusUpdated = clock /\ clock' = clock
        /\ h' = h
    BY <1>1 DEF CreateLicenseStatusDocument, makeLicenseStatus
  <2>2. \A w \in Workers : h[w].pc = "idle"
    BY <1>1, NoEarlyRequest DEF CreateLicenseStatusDocument
  <2> QED
    BY <1>a, <2>1, <2>2 DEF SInv
<1>2. ASSUME NEW w \in Workers, GetLicenseStatusDocument(w)
      PROVE  SInv'
  <2>1. /\ Begin(w, "get", Anonymous, NoDate, clock, "write")
        /\ row.status \in Usable /\ row.end # NoDate /\ clock > row.end
    BY <1>2 DEF GetLicenseStatusDocument
  <2>2. row.end < clock
    BY <1>a, <2>1 DEF DateOrNone, Date
  <2> QED
    BY <1>a, <1>b, <2>1, <2>2, SerialBegin DEF Ops
<1>3. ASSUME NEW w \in Workers, RegisterDevice(w)
      PROVE  SInv'
  <2>1. PICK d \in Devices : Begin(w, "register", d, NoDate, 0, "check")
    BY <1>3 DEF RegisterDevice
  <2>2. row.status \in Usable
    BY <1>3 DEF RegisterDevice
  <2> QED
    BY <1>b, <2>1, <2>2, SerialBegin DEF Ops
<1>4. ASSUME NEW w \in Workers, LendingReturn(w)
      PROVE  SInv'
  <2>1. PICK d \in Devices \cup {Anonymous} : Begin(w, "return", d, NoDate, 0, "event")
    BY <1>4 DEF LendingReturn
  <2>2. row.status \in Usable \cup {"expired"}
    BY <1>4 DEF LendingReturn
  <2> QED
    BY <2>1, <2>2, SerialBegin DEF Ops
<1>5. ASSUME NEW w \in Workers, LendingRenewal(w)
      PROVE  SInv'
  <2> DEFINE base == IF RenewFromNow THEN clock ELSE row.end
  <2>1. PICK d \in Devices \cup {Anonymous}, e \in SuggestedEnds(base) :
           e >= row.end /\ Begin(w, "renew", d, e, 0, "event")
    BY <1>5 DEF LendingRenewal
  <2>2. /\ row.status \in Usable \cup {"expired"}
        /\ row.end # NoDate
    BY <1>5 DEF LendingRenewal, Usable
  <2>3. row.end \in Nat /\ base \in Nat
    BY <1>a, <2>2 DEF DateOrNone, Date
  <2>4. row.end <= e
    BY <1>a, <2>1, <2>3, SuggestedDates
  <2> QED
    BY <2>1, <2>2, <2>4, SerialBegin DEF Ops
<1>6. ASSUME NEW w \in Workers, ExtendSubscription(w)
      PROVE  SInv'
  <2>1. PICK e \in SuggestedEnds(row.end) :
           e >= row.end /\ Begin(w, "extend", Subscription, e, 0, "event")
    BY <1>6 DEF ExtendSubscription
  <2>2. row.end # NoDate /\ row.status \notin Final \cup {"none"}
    BY <1>6 DEF ExtendSubscription
  <2>3. row.status \in Usable \cup {"expired"}
    BY <1>a, <2>2 DEF Doc, StatusValues
  <2>4. row.end <= e
    BY <1>a, <2>1, <2>2, SuggestedDates
  <2> QED
    BY <2>1, <2>2, <2>3, <2>4, SerialBegin DEF Ops
<1>7. ASSUME NEW w \in Workers, LendingCancellation(w)
      PROVE  SInv'
  <2>1. Begin(w, "cancel", System, NoDate, 0, "patch") /\ row.status \in Usable
    BY <1>7 DEF LendingCancellation, Usable
  <2> QED
    BY <1>b, <2>1, SerialBegin DEF Ops
<1>8. ASSUME NEW w \in Workers, UpdateRow(w)
      PROVE  SInv'
  <2>1. /\ row'.licenseUpdated <= clock /\ row'.statusUpdated <= clock
    BY <1>8, SerialWrite
  <2>2. clock' = clock /\ h'[w] = Idle
    BY <1>8 DEF UpdateRow, IInv, TypeOK
  <2>3. \A v \in Workers : h'[v].pc = "idle"
    BY <2>2 DEF Serial, Idle
  <2> QED
    BY <2>1, <2>2, <2>3 DEF SInv
<1>9. CASE LateUpdateLicense \/ Tick \/ UNCHANGED vars
  <2>1. row' = row /\ h' = h /\ (clock' = clock \/ clock' = clock + 1)
    BY <1>9 DEF LateUpdateLicense, Tick, vars
  <2>2. clock <= clock' /\ clock' \in Nat
    BY <1>a, <2>1
  <2>3. /\ row'.licenseUpdated <= clock' /\ row'.statusUpdated <= clock'
        /\ CertDate # NoDate => CertDate <= clock'
    <3>1. /\ row.licenseUpdated \in Nat /\ row.statusUpdated \in Nat
          /\ CertDate # NoDate => CertDate \in Nat
      BY <1>a, ConstantsAssumption DEF Doc, DateOrNone, Date
    <3> QED
      BY <1>a, <2>1, <2>2, <3>1 DEF SInv
  <2>4. ASSUME NEW w \in Workers, h[w].pc # "idle"
        PROVE  CopyCurrent(h[w])' /\ Admitted(h[w])'
    <3>1. CopyCurrent(h[w]) /\ Admitted(h[w])
      BY <2>4 DEF SInv
    <3>2. h[w] \in Request /\ h[w].time \in Nat /\ h[w].doc.licenseUpdated \in Nat
      BY DEF IInv, TypeOK, Request, Doc, Date
    <3>3. CopyCurrent(h[w])'
      BY <1>a, <2>1, <2>2, <3>1, <3>2 DEF CopyCurrent
    <3>4. row.end # NoDate /\ row.end < clock => row.end < clock'
      BY <1>a, <2>2 DEF DateOrNone, Date
    <3>5. h[w].time <= clock => h[w].time <= clock'
      BY <1>a, <2>2, <3>2
    <3>6. (Stamped(h[w])' <=> Stamped(h[w])) /\ (Patched(h[w])' <=> Patched(h[w]))
      BY <2>1 DEF Stamped, Patched
    <3>7. Admitted(h[w])'
      BY <2>1, <3>1, <3>4, <3>5, <3>6 DEF Admitted
    <3> QED
      BY <3>3, <3>7
  <2> QED
    BY <2>1, <2>3, <2>4 DEF SInv
<1> QED
  BY <1>1, <1>2, <1>3, <1>4, <1>5, <1>6, <1>7, <1>8, <1>9, SerialCall DEF Next

\* Both invariants hold in every state a serial server reaches.
LEMMA SerialInvariant == Serial => (Spec => [](IInv /\ SInv))
<1> SUFFICES ASSUME Serial PROVE Spec => [](IInv /\ SInv)
  OBVIOUS
<1>1. Init => SInv
  BY InitSInv
<1>2. IInv /\ SInv /\ [Next]_vars => SInv'
  BY SerialStep
<1> QED
  BY <1>1, <1>2, Invariance, PTL DEF Spec

\* revoked, returned and cancelled are final on a server whose requests do not overlap,
\* whatever fails: no handler that read an open row writes over a closed one.
THEOREM ClosedStaysClosed == Serial => (Spec => FinalIsFinal)
<1> SUFFICES ASSUME Serial PROVE Spec => FinalIsFinal
  OBVIOUS
<1>1. IInv /\ SInv /\ [Next]_vars =>
         [row.status \in Final => row'.status = row.status]_row
  <2> SUFFICES ASSUME IInv, SInv, [Next]_vars, row.status \in Final, row' # row
               PROVE  FALSE
    OBVIOUS
  <2>1. ~CreateLicenseStatusDocument
    BY DEF CreateLicenseStatusDocument, Final
  <2>2. \A w \in Workers : ~UpdateRow(w)
    BY SerialWrite DEF Final, Usable
  <2> QED
    BY <2>1, <2>2, RowWriters
<1>2. Spec => [](IInv /\ SInv)
  BY SerialInvariant
<1> QED
  BY <1>1, <1>2, PTL DEF Spec, FinalIsFinal

\* The update dates of the row never go back on a server whose requests do not overlap,
\* although RegisterDevice and GetLicenseStatusDocument write the date they have read.
THEOREM DatesMoveForward == Serial => (Spec => UpdatesMoveForward)
<1> SUFFICES ASSUME Serial PROVE Spec => UpdatesMoveForward
  OBVIOUS
<1>1. IInv /\ SInv /\ [Next]_vars =>
         [row.status # "none" => /\ row'.licenseUpdated >= row.licenseUpdated
                                 /\ row'.statusUpdated >= row.statusUpdated]_row
  <2> SUFFICES ASSUME IInv, SInv, [Next]_vars, row.status # "none", row' # row
               PROVE  /\ row'.licenseUpdated >= row.licenseUpdated
                      /\ row'.statusUpdated >= row.statusUpdated
    OBVIOUS
  <2>1. ~CreateLicenseStatusDocument
    BY DEF CreateLicenseStatusDocument
  <2> QED
    BY <2>1, SerialWrite, RowWriters
<1>2. Spec => [](IInv /\ SInv)
  BY SerialInvariant
<1> QED
  BY <1>1, <1>2, PTL DEF Spec, UpdatesMoveForward

\* A server whose requests do not overlap implements LicenseLifecycle: each handler, cut
\* anywhere by a failure, is one step of the abstract document or none.
THEOREM ImplementsLifecycle == Serial => (Spec => LifecycleSpec)
<1> SUFFICES ASSUME Serial PROVE Spec => LifecycleSpec
  OBVIOUS
<1>1. Init => Lifecycle!Init
  BY ConstantsAssumption DEF Init, NoDoc, Lifecycle!Init
<1>2. IInv /\ SInv /\ [Next]_vars => [Lifecycle!Next]_(Lifecycle!lvars)
  <2> SUFFICES ASSUME IInv, SInv, [Next]_vars
               PROVE  Lifecycle!Next \/ UNCHANGED Lifecycle!lvars
    OBVIOUS
  <2>1. CASE CreateLicenseStatusDocument
    <3>1. /\ row.status = "none" /\ clock' = clock
          /\ row'.status = IF Register THEN "ready" ELSE "active"
          /\ row'.end = generated /\ row'.potential = PotentialEnd(generated)
      BY <2>1 DEF CreateLicenseStatusDocument, makeLicenseStatus
    <3>2. generated \in DateOrNone
      BY DEF IInv, TypeOK
    <3>3. Lifecycle!Notify
      BY <3>1, <3>2, PotentialEndType, PotentialEndBound
         DEF Lifecycle!Notify, Lifecycle!Usable, DateOrNone, Date
    <3> QED
      BY <3>3 DEF Lifecycle!Next
  <2>2. ASSUME NEW w \in Workers, UpdateRow(w)
        PROVE  Lifecycle!Next
    BY <2>2, SerialWrite DEF Effect, Lifecycle!Next
  <2>3. CASE row' = row /\ clock' = clock
    BY <2>3 DEF Lifecycle!lvars
  <2>4. CASE Tick
    <3>1. clock \in Nat /\ clock' = clock + 1 /\ row' = row
      BY <2>4 DEF IInv, TypeOK, Date, Tick
    <3>2. Lifecycle!Tick
      BY <3>1 DEF Lifecycle!Tick
    <3> QED
      BY <3>2 DEF Lifecycle!Next
  <2>5. row' = row => clock' = clock \/ Tick
    BY DEF Next, vars, Begin, GetLicenseStatusDocument, RegisterDevice, LendingReturn,
       LendingRenewal, ExtendSubscription, LendingCancellation, CheckDevice, AddEvent,
       UpdateLicense, UpdateLicenseTimeout, Fail, LateUpdateLicense,
       CreateLicenseStatusDocument, UpdateRow
  <2> QED
    BY <2>1, <2>2, <2>3, <2>4, <2>5, RowWriters
<1>3. Spec => [](IInv /\ SInv)
  BY SerialInvariant
<1> QED
  BY <1>1, <1>2, <1>3, PTL DEF Spec, LifecycleSpec, Lifecycle!Spec

-----------------------------------------------------------------------------
(* A serial server whose calls do not fail *)

\* The devices found in the register events are finitely many.
LEMMA RegisteredDevicesFinite ==
    ASSUME events \in Seq(Event)
    PROVE  IsFiniteSet(RegisteredDevices) /\ Cardinality(RegisteredDevices) \in Nat
<1> DEFINE f == [i \in RegisterEvents |-> events[i].device]
<1>1. f \in Surjection(RegisterEvents, RegisteredDevices)
  BY DEF Surjection, RegisteredDevices
<1>2. IsFiniteSet(RegisterEvents)
  BY RegisterEventsFinite
<1> HIDE DEF f
<1> QED
  BY <1>1, <1>2, FS_Surjection, FS_CardinalityType

\* The insert of an event adds its device to the registered ones if it is a registration.
LEMMA AddEventDevices ==
    ASSUME events \in Seq(Event), NEW e \in Event, events' = Append(events, e)
    PROVE  RegisteredDevices' = IF e.type = "register"
                                THEN RegisteredDevices \cup {e.device}
                                ELSE RegisteredDevices
<1> DEFINE n == Len(events)
<1>1. /\ n \in Nat
      /\ DOMAIN events = 1..n
      /\ DOMAIN events' = 1..(n + 1)
      /\ \A i \in 1..n : events'[i] = events[i]
      /\ events'[n + 1] = e
      /\ n + 1 \in DOMAIN events'
      /\ \A i \in 1..n : i \in 1..(n + 1)
      /\ \A i \in 1..(n + 1) : i \in 1..n \/ i = n + 1
  OBVIOUS
<1> HIDE DEF n
<1>2. CASE e.type = "register"
  <2>1. RegisterEvents' = RegisterEvents \cup {n + 1}
    BY <1>1, <1>2 DEF RegisterEvents
  <2>2. \A i \in RegisterEvents : events'[i] = events[i]
    BY <1>1 DEF RegisterEvents
  <2>3. RegisteredDevices' = RegisteredDevices \cup {e.device}
    BY <1>1, <2>1, <2>2 DEF RegisteredDevices
  <2> QED
    BY <1>2, <2>3
<1>3. CASE e.type # "register"
  <2>1. RegisterEvents' = RegisterEvents
    BY <1>1, <1>3 DEF RegisterEvents
  <2>2. \A i \in RegisterEvents : events'[i] = events[i]
    BY <1>1 DEF RegisterEvents
  <2> QED
    BY <1>3, <2>1, <2>2 DEF RegisteredDevices
<1> QED
  BY <1>2, <1>3

\* The invariant of worker w alone, when it is the only one.
CleanOf(r) ==
    /\ row.status # "none" /\ ~Patched(r) => row.end = lcpEnd
    /\ Patched(r) => r.end = lcpEnd
    /\ r.op = "register" /\ r.pc = "event" => ~DeviceLogged(r.device)
    /\ ~Uncounted(r) => row.count = Cardinality(RegisteredDevices)
    /\ Uncounted(r) => row.count + 1 = Cardinality(RegisteredDevices)

CleanTables ==
    /\ late = {}
    /\ row.status = "none" => lcpEnd = generated /\ row.count = 0

\* With one worker, CleanInv is about that worker.
LEMMA CleanOfOne ==
    ASSUME Serial, NEW w \in Workers
    PROVE  /\ CleanInv <=> CleanTables /\ CleanOf(h[w])
           /\ CleanInv' <=> CleanTables' /\ CleanOf(h[w])'
<1>1. \A v \in Workers : v = w
  BY DEF Serial
<1> QED
  BY <1>1 DEF CleanInv, CleanTables, CleanOf

\* A handler that has only read the row has changed nothing on either server.
LEMMA CleanBegin ==
    ASSUME Serial, IInv, CleanInv, NEW w \in Workers, NEW op, NEW d, NEW e, NEW t,
           NEW pc, Begin(w, op, d, e, t, pc), h[w].pc = "idle",
           pc = "write" => op = "get",
           pc = "event" => op \notin {"cancel", "register"}
    PROVE  CleanInv'
<1>a. h \in [Workers -> Request] /\ CleanTables /\ CleanOf(h[w])
  BY CleanOfOne DEF IInv, TypeOK
<1>b. UNCHANGED <<generated, row, events, lcpEnd, late>>
  BY DEF Begin
<1>c. h'[w].pc = pc /\ h'[w].op = op
  BY <1>a DEF Begin
<1>1. CleanTables'
  BY <1>a, <1>b DEF CleanTables
<1>2. /\ ~Patched(h[w]) /\ ~Uncounted(h[w])
      /\ ~Patched(h[w])' /\ ~Uncounted(h[w])'
  BY <1>c DEF Patched, Uncounted
<1>3. RegisteredDevices' = RegisteredDevices
  BY <1>b DEF RegisteredDevices, RegisterEvents
<1>4. CleanOf(h[w])'
  BY <1>a, <1>b, <1>c, <1>2, <1>3 DEF CleanOf
<1> QED
  BY <1>1, <1>4, CleanOfOne

\* Every call of a handler moves the two servers apart and together again.
LEMMA CleanCall ==
    ASSUME Serial, IInv, SInv, CleanInv, NEW w \in Workers,
           CheckDevice(w) \/ AddEvent(w) \/ UpdateLicense(w) \/ UpdateRow(w)
    PROVE  CleanInv'
<1>a. /\ h \in [Workers -> Request] /\ h[w] \in Request /\ events \in Seq(Event)
      /\ row \in Doc /\ h[w].doc \in Doc
      /\ CleanTables /\ CleanOf(h[w])
      /\ RequestOK(h[w]) /\ CopyCurrent(h[w]) /\ Admitted(h[w])
      /\ h[w].pc # "idle" /\ h[w].op \in Ops /\ ProgressOK(h[w])
      /\ late' = late /\ generated' = generated
  BY CleanOfOne DEF IInv, TypeOK, SInv, CheckDevice, AddEvent, UpdateLicense, UpdateRow,
     RequestOK, Request
<1>b. row.status # "none"
  BY <1>a DEF Admitted, Usable
<1>1. CASE CheckDevice(w)
  <2>1. /\ \/ h'[w].pc = "idle"
           \/ /\ h'[w].pc = "event" /\ h'[w].op = h[w].op
              /\ h'[w].device = h[w].device
              /\ ~CheckDeviceStatus(h[w].device)
        /\ h[w].pc = "check" /\ h[w].op = "register"
        /\ UNCHANGED <<row, events, lcpEnd>>
    BY <1>a, <1>1, NextCallValues DEF CheckDevice, Request, Idle, ProgressOK
  <2>2. /\ ~Patched(h[w]) /\ ~Uncounted(h[w])
        /\ ~Patched(h[w])' /\ ~Uncounted(h[w])'
    BY <2>1 DEF Patched, Uncounted
  <2>3. RegisteredDevices' = RegisteredDevices
    BY <2>1 DEF RegisteredDevices, RegisterEvents
  <2>4. h'[w].pc = "event" => ~DeviceLogged(h[w].device)'
    BY <2>1 DEF DeviceLogged, CheckDeviceStatus
  <2>5. CleanOf(h[w])'
    BY <1>a, <2>1, <2>2, <2>3, <2>4 DEF CleanOf
  <2>6. CleanTables'
    BY <1>a, <2>1 DEF CleanTables
  <2> QED
    BY <2>5, <2>6, CleanOfOne
<1>2. CASE AddEvent(w)
  <2> DEFINE e == [type |-> EventType(h[w]), device |-> h[w].device]
  <2>1. /\ h[w].pc = "event"
        /\ h'[w].op = h[w].op /\ h'[w].end = h[w].end
        /\ h'[w].pc = IF h[w].op \in {"register", "cancel"} THEN "write" ELSE "patch"
        /\ row' = row /\ lcpEnd' = lcpEnd
        /\ events' = Append(events, e)
    BY <1>a, <1>2, NextCallValues DEF AddEvent, Request
  <2>2. e \in Event
    BY <1>a, EventTypeType DEF Event, Request
  <2>3. e.device = h[w].device /\ (e.type = "register" <=> h[w].op = "register")
    BY DEF EventType
  <2> HIDE DEF e
  <2>4. RegisteredDevices' = IF h[w].op = "register"
                             THEN RegisteredDevices \cup {h[w].device}
                             ELSE RegisteredDevices
    BY <1>a, <2>1, <2>2, <2>3, AddEventDevices
  <2>5. /\ ~Uncounted(h[w])
        /\ Uncounted(h[w])' <=> h[w].op = "register"
        /\ Patched(h[w])' <=> Patched(h[w])
    BY <2>1 DEF Uncounted, Patched
  <2>6. row.count = Cardinality(RegisteredDevices) /\ row.count \in Nat
    BY <1>a, <2>5 DEF CleanOf, Doc
  <2>7. h[w].op = "register" =>
           row.count + 1 = Cardinality(RegisteredDevices')
    <3> SUFFICES ASSUME h[w].op = "register"
                 PROVE  row.count + 1 = Cardinality(RegisteredDevices')
      OBVIOUS
    <3>1. ~DeviceLogged(h[w].device)
      BY <1>a, <2>1 DEF CleanOf
    <3>2. h[w].device \notin RegisteredDevices
      BY <3>1 DEF RegisteredDevices, RegisterEvents, DeviceLogged
    <3> QED
      BY <1>a, <2>4, <2>6, <3>2, RegisteredDevicesFinite, FS_AddElement
  <2>8. h'[w].pc # "event"
    BY <2>1
  <2>9. CleanOf(h[w])'
    BY <1>a, <2>1, <2>4, <2>5, <2>6, <2>7, <2>8 DEF CleanOf
  <2>10. CleanTables'
    BY <1>a, <2>1 DEF CleanTables
  <2> QED
    BY <2>9, <2>10, CleanOfOne
<1>3. CASE UpdateLicense(w)
  <2>1. h[w].pc = "patch" /\ h[w].op \in {"return", "cancel", "renew", "extend"}
    BY <1>3, PatchPermitted DEF UpdateLicense
  <2>2. /\ h'[w].op = h[w].op /\ h'[w].end = lcpEnd'
        /\ h'[w].pc = IF h[w].op = "cancel" THEN "event" ELSE "write"
        /\ row' = row /\ events' = events
    BY <1>a, <1>3, NextCallValues DEF UpdateLicense, Request
  <2>3. /\ Patched(h[w])' /\ ~Uncounted(h[w])' /\ ~Uncounted(h[w])
    BY <2>1, <2>2 DEF Patched, Uncounted
  <2>4. RegisteredDevices' = RegisteredDevices
    BY <2>2 DEF RegisteredDevices, RegisterEvents
  <2>5. CleanOf(h[w])'
    BY <1>a, <2>1, <2>2, <2>3, <2>4 DEF CleanOf
  <2>6. CleanTables'
    BY <1>a, <1>b, <2>2 DEF CleanTables
  <2> QED
    BY <2>5, <2>6, CleanOfOne
<1>4. CASE UpdateRow(w)
  <2>1. /\ h[w].pc = "write" /\ h'[w] = Idle /\ row' = NewDoc(h[w])
        /\ lcpEnd' = lcpEnd /\ events' = events
    BY <1>a, <1>4 DEF UpdateRow
  <2>2. RegisteredDevices' = RegisteredDevices
    BY <2>1 DEF RegisteredDevices, RegisterEvents
  <2>3. /\ ~Patched(h[w])' /\ ~Uncounted(h[w])' /\ h'[w].pc = "idle"
    BY <2>1 DEF Patched, Uncounted, Idle
  <2>4. /\ Uncounted(h[w]) <=> h[w].op = "register"
        /\ Patched(h[w]) <=> h[w].op \notin {"get", "register"}
    BY <1>a, <2>1 DEF Patched, Uncounted, Ops
  <2>5. row'.status # "none"
    BY <2>1 DEF NewDoc, Expired, Registered, Renewed, Closed, ReturnedStatus, CancelledStatus,
       Doc
  <2>6. /\ row'.end = IF h[w].op \in {"get", "register"} THEN h[w].doc.end ELSE h[w].end
        /\ row'.count = IF h[w].op = "register" THEN h[w].doc.count + 1 ELSE h[w].doc.count
    BY <1>a, <2>1 DEF NewDoc, Expired, Registered, Renewed, Closed, Doc, Ops
  <2>7. h[w].doc.end = row.end /\ h[w].doc.count = row.count
    BY <1>a DEF CopyCurrent
  <2>8. row'.end = lcpEnd
    BY <1>a, <1>b, <2>4, <2>6, <2>7 DEF CleanOf
  <2>9. row'.count = Cardinality(RegisteredDevices)
    BY <1>a, <2>4, <2>6, <2>7 DEF CleanOf
  <2>10. CleanOf(h[w])'
    BY <2>1, <2>2, <2>3, <2>8, <2>9 DEF CleanOf
  <2>11. CleanTables'
    BY <1>a, <2>1, <2>5 DEF CleanTables
  <2> QED
    BY <2>10, <2>11, CleanOfOne
<1> QED
  BY <1>1, <1>2, <1>3, <1>4

\* Every step of a serial server without failures keeps CleanInv.
LEMMA CleanStep ==
    ASSUME Serial, ~Failures, IInv, SInv, CleanInv, [Next]_vars
    PROVE  CleanInv'
<1>1. CASE CreateLicenseStatusDocument
  <2>1. \A w \in Workers : h[w].pc = "idle"
    BY <1>1, NoEarlyRequest DEF CreateLicenseStatusDocument
  <2>2. /\ row.status = "none" /\ row'.end = generated /\ row'.count = 0
        /\ row'.status # "none"
        /\ UNCHANGED <<generated, events, lcpEnd, late, h>>
    BY <1>1 DEF CreateLicenseStatusDocument, makeLicenseStatus
  <2>3. \A w \in Workers :
           /\ ~Patched(h[w]) /\ ~Uncounted(h[w])
           /\ ~Patched(h[w])' /\ ~Uncounted(h[w])' /\ h'[w].pc = "idle"
    BY <2>1, <2>2 DEF Patched, Uncounted
  <2>4. RegisteredDevices' = RegisteredDevices
    BY <2>2 DEF RegisteredDevices, RegisterEvents
  <2> QED
    BY <2>2, <2>3, <2>4 DEF CleanInv
<1>2. ASSUME NEW w \in Workers, GetLicenseStatusDocument(w)
      PROVE  CleanInv'
  BY <1>2, CleanBegin DEF GetLicenseStatusDocument
<1>3. ASSUME NEW w \in Workers, RegisterDevice(w)
      PROVE  CleanInv'
  <2>1. PICK d \in Devices : Begin(w, "register", d, NoDate, 0, "check")
    BY <1>3 DEF RegisterDevice
  <2>2. h[w].pc = "idle"
    BY <1>3 DEF RegisterDevice
  <2> QED
    BY <2>1, <2>2, CleanBegin
<1>4. ASSUME NEW w \in Workers, LendingReturn(w)
      PROVE  CleanInv'
  <2>1. PICK d \in Devices \cup {Anonymous} : Begin(w, "return", d, NoDate, 0, "event")
    BY <1>4 DEF LendingReturn
  <2>2. h[w].pc = "idle"
    BY <1>4 DEF LendingReturn
  <2> QED
    BY <2>1, <2>2, CleanBegin
<1>5. ASSUME NEW w \in Workers, LendingRenewal(w)
      PROVE  CleanInv'
  <2>1. PICK d \in Devices \cup {Anonymous},
             e \in SuggestedEnds(IF RenewFromNow THEN clock ELSE row.end) :
           Begin(w, "renew", d, e, 0, "event")
    BY <1>5 DEF LendingRenewal
  <2>2. h[w].pc = "idle"
    BY <1>5 DEF LendingRenewal
  <2> QED
    BY <2>1, <2>2, CleanBegin
<1>6. ASSUME NEW w \in Workers, ExtendSubscription(w)
      PROVE  CleanInv'
  <2>1. PICK e \in SuggestedEnds(row.end) : Begin(w, "extend", Subscription, e, 0, "event")
    BY <1>6 DEF ExtendSubscription
  <2>2. h[w].pc = "idle"
    BY <1>6 DEF ExtendSubscription
  <2> QED
    BY <2>1, <2>2, CleanBegin
<1>7. ASSUME NEW w \in Workers, LendingCancellation(w)
      PROVE  CleanInv'
  BY <1>7, CleanBegin DEF LendingCancellation
<1>8. CASE Tick \/ UNCHANGED vars
  <2>1. UNCHANGED <<generated, row, events, lcpEnd, late, h>>
    BY <1>8 DEF Tick, vars
  <2>2. RegisteredDevices' = RegisteredDevices
    BY <2>1 DEF RegisteredDevices, RegisterEvents
  <2>3. \A d : DeviceLogged(d)' <=> DeviceLogged(d)
    BY <2>1 DEF DeviceLogged
  <2>4. \A w \in Workers : /\ Patched(h[w])' <=> Patched(h[w])
                           /\ Uncounted(h[w])' <=> Uncounted(h[w])
                           /\ DeviceLogged(h[w].device)' <=> DeviceLogged(h[w].device)
    BY <2>1 DEF Patched, Uncounted, DeviceLogged
  <2> QED
    BY <2>1, <2>2, <2>4 DEF CleanInv
<1>9. ~LateUpdateLicense /\ \A w \in Workers : ~UpdateLicenseTimeout(w) /\ ~Fail(w)
  BY DEF CleanInv, LateUpdateLicense, UpdateLicenseTimeout, Fail
<1> QED
  BY <1>1, <1>2, <1>3, <1>4, <1>5, <1>6, <1>7, <1>8, <1>9, CleanCall DEF Next

\* CleanInv holds in every state a serial server without failures reaches.
LEMMA CleanInvariant == Serial /\ ~Failures => (Spec => []CleanInv)
<1> SUFFICES ASSUME Serial, ~Failures PROVE Spec => []CleanInv
  OBVIOUS
<1>1. Init => CleanInv
  <2> SUFFICES ASSUME Init PROVE CleanInv
    OBVIOUS
  <2>1. /\ late = {} /\ row = NoDoc /\ lcpEnd = generated /\ events = << >>
        /\ \A w \in Workers : h[w] = Idle
    BY DEF Init
  <2>2. \A w \in Workers : /\ ~Patched(h[w]) /\ ~Uncounted(h[w])
                           /\ h[w].pc = "idle"
    BY <2>1 DEF Patched, Uncounted, Idle
  <2>3. RegisteredDevices = {}
    BY <2>1 DEF RegisteredDevices, RegisterEvents
  <2>4. Cardinality(RegisteredDevices) = 0
    BY <2>3, FS_EmptySet
  <2>5. row.status = "none" /\ row.count = 0
    BY <2>1 DEF NoDoc
  <2> QED
    BY <2>1, <2>2, <2>4, <2>5 DEF CleanInv
<1>2. IInv /\ SInv /\ CleanInv /\ [Next]_vars => CleanInv'
  BY CleanStep
<1>3. Spec => [](IInv /\ SInv)
  BY SerialInvariant
<1> QED
  BY <1>1, <1>2, <1>3, PTL DEF Spec

\* At rest no worker is between two calls.
LEMMA RestIsIdle ==
    ASSUME AtRest, NEW w \in Workers
    PROVE  ~Patched(h[w]) /\ ~Uncounted(h[w]) /\ row.status # "none"
BY DEF AtRest, Busy, Patched, Uncounted

\* Between the requests of a serial server whose calls do not fail, the row and the License
\* Server hold the same end date: every handler that changes one has changed the other.
THEOREM ServersAgree == Serial /\ ~Failures => (Spec => []EndsAgree)
<1> SUFFICES ASSUME Serial, ~Failures PROVE Spec => []EndsAgree
  OBVIOUS
<1>1. CleanInv => EndsAgree
  BY RestIsIdle DEF CleanInv, EndsAgree, AtRest
<1>2. Spec => []CleanInv
  BY CleanInvariant
<1> QED
  BY <1>1, <1>2, PTL

\* Between the requests of such a server device_count is the number of registered devices:
\* CheckDeviceStatus keeps RegisterDevice from counting one twice.
THEOREM CountIsExact == Serial /\ ~Failures => (Spec => []CountExact)
<1> SUFFICES ASSUME Serial, ~Failures PROVE Spec => []CountExact
  OBVIOUS
<1>1. CleanInv => CountExact
  BY RestIsIdle DEF CleanInv, CountExact, AtRest, RegisteredDevices
<1>2. Spec => []CleanInv
  BY CleanInvariant
<1> QED
  BY <1>1, <1>2, PTL

=============================================================================
