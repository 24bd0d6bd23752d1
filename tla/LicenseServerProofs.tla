------------------------ MODULE LicenseServerProofs ------------------------
(***************************************************************************)
(* Proofs about LicenseServer for every number of licenses, contents,      *)
(* workers and dates.                                                      *)
(***************************************************************************)
EXTENDS LicenseServer, TLAPS

(***************************************************************************)
(* The inductive invariant.  What is said of the tables rests on how far   *)
(* each notification and each PATCH has come: a notification is of a       *)
(* stored license, carries 201 only when the document exists, and is given *)
(* up only after it was sent; a PATCH has read a license that exists.      *)
(***************************************************************************)

NotificationOK(l) ==
    /\ notif[l].pc # "none" => lic[l] # Nil
    /\ notif[l].code = 201 => doc[l] # NoDoc
    /\ l \in late => notif[l].pc # "none"

PatchOK(w) ==
    u[w].pc # "idle" => /\ u[w].id \in Licenses /\ lic[u[w].id] # Nil
                        /\ u[w].out \in Properties

LicenseOK(l) == lic[l] # Nil => want[l] \in Properties

IInv ==
    /\ TablesTypeOK
    /\ CreatedMeansDocument
    /\ DocumentsHaveLicense
    /\ \A l \in Licenses : NotificationOK(l) /\ LicenseOK(l)
    /\ \A w \in Workers : PatchOK(w)

(***************************************************************************)
(* The dates.  No time is later than the clock, and a statement under way  *)
(* carries a time that is not earlier than any date its licenses had       *)
(* reached when it was taken.                                              *)
(***************************************************************************)

StampOK(x) ==
    stamp[x].time <= clock /\ \A l \in Licenses : stamp[x].base[l] <= stamp[x].time

DateOK(l) ==
    /\ reached[l] <= clock
    /\ reached[l] # 0 =>
          /\ lic[l] # Nil /\ lic[l].updated # Nil
          /\ base[l] <= lic[l].updated /\ lic[l].updated <= reached[l]

DInv ==
    /\ DatesTypeOK
    /\ \A x \in Workers \cup Adders : StampOK(x)
    /\ \A l \in Licenses : DateOK(l)

-----------------------------------------------------------------------------
(* Lemmas on the operators *)

\* Changed keeps the properties of a license well formed: the negative number and the zero
\* time a PATCH uses for "unconstrained" are not stored.
LEMMA ChangedType ==
    ASSUME NEW prop \in Properties, NEW in \in Partial
    PROVE  Changed(prop, in) \in Properties
BY LicenseServerAssumption DEF Changed, Properties, Partial

\* An end date a license may have is not the mark of a missing document.
LEMMA EndIsNotNoDoc ==
    ASSUME NEW e \in Ends \cup {Nil}
    PROVE  e # NoDoc
BY LicenseServerAssumption DEF NoDoc

\* Nil is not a row: a license that was read is a record.
LEMMA RowType ==
    ASSUME TablesTypeOK, NEW l \in Licenses, lic[l] # Nil
    PROVE  lic[l] \in License
BY DEF TablesTypeOK

-----------------------------------------------------------------------------
(* One lemma for each group of actions *)

\* Update writes a row of the license table.
LEMMA WrittenType ==
    ASSUME NEW r \in License, NEW p \in Properties, NEW c \in Nat
    PROVE  [r EXCEPT !.prop = p, !.updated = c] \in License
<1> DEFINE Times == Nat \cup {Nil}
           Codes == {0, 201, 500, -1}
<1>1. c \in Times
  OBVIOUS
<1>2. License = [prop : Properties, updated : Times, lsd : Codes]
  BY Zenon DEF License
<1> HIDE DEF Times, Codes
<1> QED
  BY <1>1, <1>2

\* The invariant holds of empty tables.
LEMMA InitIInv == Init => IInv
<1> SUFFICES ASSUME Init PROVE IInv
  OBVIOUS
<1> USE LicenseServerAssumption DEF Init
<1>1. TablesTypeOK
  BY DEF TablesTypeOK, NoNotification, Notification, Idle, NoPartial, Patch, Partial, NoDoc
<1> QED
  BY <1>1 DEF IInv, CreatedMeansDocument, DocumentsHaveLicense, NotificationOK,
              LicenseOK, PatchOK, NoNotification, Idle, NoDoc

\* GenerateLicense stores the license before its notification exists.
LEMMA GenerateStep ==
    ASSUME IInv, NEW l \in Licenses, GenerateLicense(l)
    PROVE  IInv'
<1>1. PICK c \in Contents, p \in 0..MaxPrint \cup {Nil}, e \in Ends \cup {Nil} :
         LET prop == [content |-> c, print |-> p, end |-> e] IN
         /\ lic[l] = Nil
         /\ lic' = [lic EXCEPT ![l] = [prop |-> prop, updated |-> Nil, lsd |-> 0]]
         /\ want' = [want EXCEPT ![l] = prop]
         /\ notif' = [notif EXCEPT ![l] = [pc |-> IF Notifies THEN "put" ELSE "done",
                                           end |-> e, code |-> 0]]
         /\ UNCHANGED <<doc, late, u, failed, clock>>
  BY DEF GenerateLicense
<1> DEFINE prop == [content |-> c, print |-> p, end |-> e]
           new == [prop |-> prop, updated |-> Nil, lsd |-> 0]
<1>2. prop \in Properties /\ new \in License /\ new # Nil
  BY LicenseServerAssumption, NilIsNoLicense, <1>1 DEF Properties, License, IInv, TablesTypeOK
<1>3. TablesTypeOK'
  BY <1>1, <1>2 DEF IInv, TablesTypeOK, Notification
<1>4. \A k \in Licenses : k # l => lic'[k] = lic[k] /\ notif'[k] = notif[k] /\ want'[k] = want[k]
  BY <1>1 DEF IInv, TablesTypeOK
<1>5. /\ lic'[l] = new /\ want'[l] = prop
      /\ notif'[l] = [pc |-> IF Notifies THEN "put" ELSE "done", end |-> e, code |-> 0]
  BY <1>1 DEF IInv, TablesTypeOK
<1> HIDE DEF new, prop
<1>6. CreatedMeansDocument' /\ DocumentsHaveLicense'
  BY <1>1, <1>2, <1>4, <1>5 DEF IInv, CreatedMeansDocument, DocumentsHaveLicense, new, NoDoc
<1>7. \A k \in Licenses : NotificationOK(k)' /\ LicenseOK(k)'
  BY <1>1, <1>2, <1>4, <1>5 DEF IInv, NotificationOK, LicenseOK, new, NoDoc
<1>8. \A w \in Workers : PatchOK(w)'
  BY <1>1, <1>2, <1>4, <1>5 DEF IInv, PatchOK
<1> QED
  BY <1>3, <1>6, <1>7, <1>8 DEF IInv

\* notifyLsdServer before its answer is stored: the license is there, and the document is
\* there as soon as the answer is 201.
LEMMA NotifyStep ==
    ASSUME IInv, NEW l \in Licenses,
           NotifyCreated(l) \/ NotifyRefused(l) \/ NotifyTimeout(l) \/ LateNotification(l)
    PROVE  IInv'
<1>1. /\ notif[l] \in Notification /\ notif[l].end # NoDoc /\ lic[l] # Nil
      /\ UNCHANGED <<lic, u, want, clock>>
  BY EndIsNotNoDoc DEF IInv, TablesTypeOK, Notification, NotificationOK, NotifyCreated, NotifyRefused,
                       NotifyTimeout, LateNotification
<1>2. /\ doc' \in [Licenses -> Ends \cup {Nil, 0}]
      /\ doc' = doc \/ doc' = [doc EXCEPT ![l] = notif[l].end]
      /\ late' \subseteq late \cup {l}
      /\ failed' \in BOOLEAN
  <2>1. /\ doc' = doc \/ doc' = [doc EXCEPT ![l] = notif[l].end]
        /\ late' \subseteq late \cup {l}
        /\ failed' = failed \/ failed' = TRUE
    BY DEF NotifyCreated, NotifyRefused, NotifyTimeout, LateNotification
  <2>2. notif[l].end \in Ends \cup {Nil} /\ doc \in [Licenses -> Ends \cup {Nil, 0}]
    BY <1>1 DEF IInv, TablesTypeOK, Notification
  <2>3. doc' \in [Licenses -> Ends \cup {Nil, 0}]
    BY <2>1, <2>2
  <2>4. failed' \in BOOLEAN
    BY <2>1 DEF IInv, TablesTypeOK
  <2> QED
    BY <2>1, <2>3, <2>4
<1>3. /\ notif' \in [Licenses -> Notification]
      /\ \A k \in Licenses : k # l => notif'[k] = notif[k]
      /\ notif[l].pc # "none" /\ notif'[l].pc # "none"
      /\ notif'[l].code = 201 => doc'[l] # NoDoc
  <2> DEFINE Answered(code) == [notif[l] EXCEPT !.pc = "save", !.code = code]
  <2>0. /\ notif \in [Licenses -> Notification] /\ doc \in [Licenses -> Ends \cup {Nil, 0}]
        /\ NotificationOK(l)
    BY DEF IInv, TablesTypeOK
  <2>1. ASSUME NEW code \in {201, 500, -1}
        PROVE  /\ Answered(code) \in Notification
               /\ Answered(code).pc = "save" /\ Answered(code).code = code
    <3> DEFINE Calls == {"none", "put", "save", "done"}
               Dates == Ends \cup {Nil}
               Codes == {0, 201, 500, -1}
    <3>1. "save" \in Calls /\ code \in Codes
      OBVIOUS
    <3>2. Notification = [pc : Calls, end : Dates, code : Codes]
      BY Zenon DEF Notification
    <3> HIDE DEF Calls, Dates, Codes
    <3>3. Answered(code) \in Notification
      BY <1>1, <3>1, <3>2
    <3>4. Answered(code).pc = "save" /\ Answered(code).code = code
      BY <1>1, <3>2
    <3> QED
      BY <3>3, <3>4
  <2>2. CASE NotifyCreated(l)
    <3>1. notif' = [notif EXCEPT ![l] = Answered(201)] /\ doc'[l] = notif[l].end
      BY <2>0, <2>2 DEF NotifyCreated
    <3>2. notif[l].pc = "put"
      BY <2>2 DEF NotifyCreated
    <3> HIDE DEF Answered
    <3> QED
      BY <1>1, <2>0, <2>1, <3>1, <3>2
  <2>3. CASE NotifyRefused(l) \/ NotifyTimeout(l)
    <3>1. PICK code \in {500, -1} : notif' = [notif EXCEPT ![l] = Answered(code)]
      <4>1. CASE NotifyRefused(l)
        BY <4>1 DEF NotifyRefused
      <4>2. CASE NotifyTimeout(l)
        BY <4>2 DEF NotifyTimeout
      <4> QED
        BY <2>3, <4>1, <4>2
    <3>2. notif[l].pc = "put"
      BY <2>3 DEF NotifyRefused, NotifyTimeout
    <3> HIDE DEF Answered
    <3> QED
      BY <2>0, <2>1, <3>1, <3>2
  <2>4. CASE LateNotification(l)
    <3>1. notif' = notif /\ doc'[l] = notif[l].end /\ l \in late
      BY <2>0, <2>4 DEF LateNotification
    <3> QED
      BY <1>1, <2>0, <3>1 DEF NotificationOK
  <2> QED
    BY <2>2, <2>3, <2>4
<1>4. \A k \in Licenses : doc[k] # NoDoc => doc'[k] # NoDoc
  BY <1>1, <1>2 DEF IInv, TablesTypeOK
<1>5. \A k \in Licenses : doc'[k] # NoDoc => lic[k] # Nil
  BY <1>1, <1>2 DEF IInv, TablesTypeOK, DocumentsHaveLicense
<1>6. TablesTypeOK'
  BY <1>1, <1>2, <1>3 DEF IInv, TablesTypeOK
<1>7. CreatedMeansDocument' /\ DocumentsHaveLicense'
  BY <1>1, <1>4, <1>5 DEF IInv, CreatedMeansDocument, DocumentsHaveLicense, NoDoc
<1>8. \A k \in Licenses : NotificationOK(k)'
  BY <1>1, <1>2, <1>3, <1>4 DEF IInv, NotificationOK, NoDoc
<1>9. (\A k \in Licenses : LicenseOK(k)') /\ (\A w \in Workers : PatchOK(w)')
  BY <1>1 DEF IInv, LicenseOK, PatchOK
<1> QED
  BY <1>6, <1>7, <1>8, <1>9 DEF IInv

\* UpdateLsdStatus stores what the notification carries, in one column of the row.
LEMMA SaveStep ==
    ASSUME IInv, NEW l \in Licenses, UpdateLsdStatus(l) \/ UpdateLsdStatusFails(l)
    PROVE  IInv'
<1>1. /\ notif[l] \in Notification /\ notif[l].pc = "save"
      /\ notif' = [notif EXCEPT ![l].pc = "done"]
      /\ lic[l] # Nil /\ lic[l] \in License
      /\ UNCHANGED <<doc, late, u, want, clock>>
  BY RowType DEF IInv, TablesTypeOK, NotificationOK, UpdateLsdStatus, UpdateLsdStatusFails
<1>2. lic' \in {lic, [lic EXCEPT ![l].lsd = notif[l].code]} /\ failed' \in BOOLEAN
  BY DEF IInv, TablesTypeOK, UpdateLsdStatus, UpdateLsdStatusFails
<1> DEFINE new == [lic[l] EXCEPT !.lsd = notif[l].code]
<1>3. new \in License /\ new # Nil /\ new.updated = lic[l].updated /\ new.lsd = notif[l].code
  BY <1>1, NilIsNoLicense DEF License, Notification
<1> HIDE DEF new
<1>4. lic' = lic \/ lic' = [lic EXCEPT ![l] = new]
  BY <1>2 DEF new
<1>5. /\ \A k \in Licenses : k # l => lic'[k] = lic[k] /\ notif'[k] = notif[k]
      /\ lic'[l] \in {lic[l], new}
      /\ notif'[l].pc = "done" /\ notif'[l].code = notif[l].code
      /\ notif'[l] \in Notification
  <2>1. notif'[l] = [notif[l] EXCEPT !.pc = "done"] /\ \A k \in Licenses : k # l => notif'[k] = notif[k]
    BY <1>1 DEF IInv, TablesTypeOK
  <2>2. lic'[l] \in {lic[l], new} /\ \A k \in Licenses : k # l => lic'[k] = lic[k]
    BY <1>4 DEF IInv, TablesTypeOK
  <2>3. /\ notif'[l].pc = "done" /\ notif'[l].code = notif[l].code
        /\ notif'[l] \in Notification
    BY <1>1, <2>1 DEF Notification
  <2> QED
    BY <2>1, <2>2, <2>3
<1>6. TablesTypeOK'
  BY <1>1, <1>2, <1>3, <1>4, <1>5 DEF IInv, TablesTypeOK
<1>7. CreatedMeansDocument' /\ DocumentsHaveLicense'
  BY <1>1, <1>3, <1>5 DEF IInv, CreatedMeansDocument, DocumentsHaveLicense, NotificationOK, NoDoc
<1>8. \A k \in Licenses : NotificationOK(k)' /\ LicenseOK(k)'
  BY <1>1, <1>3, <1>5 DEF IInv, NotificationOK, LicenseOK, NoDoc
<1>9. \A w \in Workers : PatchOK(w)'
  BY <1>1, <1>3, <1>5 DEF IInv, PatchOK
<1> QED
  BY <1>6, <1>7, <1>8, <1>9 DEF IInv

\* UpdateLicense reads a license that exists and changes the copy.
LEMMA ReadStep ==
    ASSUME IInv, NEW w \in Workers, NEW l \in Licenses, UpdateLicense(w, l)
    PROVE  IInv'
<1>1. PICK in \in Partial :
         u' = [u EXCEPT ![w] = [pc |-> "write", id |-> l, asked |-> in,
                                out |-> Changed(lic[l].prop, in)]]
  BY DEF UpdateLicense
<1>2. lic[l] # Nil /\ UNCHANGED <<lic, doc, notif, late, want, failed, clock>>
  BY DEF UpdateLicense
<1>3. lic[l].prop \in Properties
  BY <1>2, RowType DEF IInv, License
<1>4. Changed(lic[l].prop, in) \in Properties
  BY <1>3, ChangedType
<1>5. TablesTypeOK'
  BY <1>1, <1>2, <1>4 DEF IInv, TablesTypeOK, Patch
<1>6. \A v \in Workers : PatchOK(v)'
  BY <1>1, <1>2, <1>4 DEF IInv, TablesTypeOK, PatchOK
<1> QED
  BY <1>2, <1>5, <1>6 DEF IInv, CreatedMeansDocument, DocumentsHaveLicense, NotificationOK,
                          LicenseOK

\* The rows after a step that changes only the properties and the date of some licenses.
LEMMA RowsKept ==
    ASSUME IInv, UNCHANGED <<doc, notif, late, clock>>,
           failed' \in BOOLEAN, u' \in [Workers -> Patch],
           lic' \in [Licenses -> License \cup {Nil}],
           want' \in [Licenses -> Properties \cup {Nil}],
           \A w \in Workers : u'[w] = Idle \/ u'[w] = u[w],
           \A l \in Licenses :
              /\ lic[l] = Nil <=> lic'[l] = Nil
              /\ lic[l] # Nil => lic'[l].lsd = lic[l].lsd /\ LicenseOK(l)'
    PROVE  IInv'
<1>1. TablesTypeOK'
  BY DEF IInv, TablesTypeOK
<1>2. CreatedMeansDocument' /\ DocumentsHaveLicense'
  BY DEF IInv, CreatedMeansDocument, DocumentsHaveLicense, NoDoc
<1>3. \A l \in Licenses : NotificationOK(l)' /\ LicenseOK(l)'
  BY DEF IInv, NotificationOK, LicenseOK, NoDoc
<1>4. \A w \in Workers : PatchOK(w)'
  BY DEF IInv, PatchOK, Idle
<1> QED
  BY <1>1, <1>2, <1>3, <1>4 DEF IInv

\* The time a statement carries is a time.
LEMMA StampType ==
    ASSUME DatesTypeOK, NEW x \in Workers \cup Adders
    PROVE  /\ stamp[x] \in Stamp /\ stamp[x].time \in Nat
           /\ \A l \in Licenses : stamp[x].base[l] \in Nat
BY DEF DatesTypeOK, Stamp

\* Idle is a request.
LEMMA IdleType == Idle \in Patch
BY DEF Idle, NoPartial, Patch, Partial

\* Update writes well-formed properties to a license that exists.
LEMMA WriteStep ==
    ASSUME IInv, DatesTypeOK, NEW w \in Workers, Update(w)
    PROVE  IInv'
<1> DEFINE r == u[w]
           time == stamp[w].time
           new == [lic[r.id] EXCEPT !.prop = r.out, !.updated = time]
<1>1. /\ r \in Patch /\ r.id \in Licenses /\ lic[r.id] # Nil /\ r.out \in Properties
      /\ lic[r.id] \in License
      /\ r.asked \in Partial
      /\ want[r.id] \in Properties
  BY RowType DEF IInv, TablesTypeOK, Update, PatchOK, LicenseOK, Patch
<1>2. /\ lic' = [lic EXCEPT ![r.id] = new]
      /\ want' = [want EXCEPT ![r.id] = Changed(@, r.asked)]
      /\ u' = [u EXCEPT ![w] = Idle]
      /\ UNCHANGED <<doc, notif, late, failed, clock>>
  BY DEF Update
<1>3. /\ new \in License /\ new # Nil /\ new.lsd = lic[r.id].lsd /\ new.updated = time
      /\ time \in Nat
  <2>1. time \in Nat
    BY StampType
  <2> HIDE DEF r, time
  <2>2. new \in License
    BY <1>1, <2>1, WrittenType
  <2>3. new.lsd = lic[r.id].lsd /\ new.updated = time
    BY <1>1 DEF License
  <2> HIDE DEF new
  <2> QED
    BY <2>1, <2>2, <2>3, NilIsNoLicense
<1>4. Changed(want[r.id], r.asked) \in Properties
  BY <1>1, ChangedType
<1> HIDE DEF new, r, time
<1>5. /\ lic' \in [Licenses -> License \cup {Nil}] /\ lic'[r.id] = new
      /\ \A l \in Licenses : l # r.id => lic'[l] = lic[l] /\ want'[l] = want[l]
      /\ want' \in [Licenses -> Properties \cup {Nil}] /\ want'[r.id] \in Properties
  BY <1>1, <1>2, <1>3, <1>4 DEF IInv, TablesTypeOK
<1>6. \A l \in Licenses :
         /\ lic[l] = Nil <=> lic'[l] = Nil
         /\ lic[l] # Nil => lic'[l].lsd = lic[l].lsd /\ LicenseOK(l)'
  BY <1>1, <1>2, <1>3, <1>5 DEF IInv, LicenseOK
<1>7. u' \in [Workers -> Patch] /\ \A v \in Workers : u'[v] = Idle \/ u'[v] = u[v]
  BY <1>2, IdleType DEF IInv, TablesTypeOK
<1> QED
  BY <1>2, <1>5, <1>6, <1>7, RowsKept DEF IInv, TablesTypeOK

\* TouchByContentID changes the dates only.
LEMMA TouchStep ==
    ASSUME IInv, DatesTypeOK, NEW a \in Adders, TouchByContentID(a)
    PROVE  IInv'
<1>1. UNCHANGED <<doc, notif, late, u, want, failed, clock>>
  BY DEF TouchByContentID
<1>2. \A l \in Licenses :
         /\ lic[l] = Nil <=> lic'[l] = Nil
         /\ lic'[l] \in License \cup {Nil}
         /\ lic[l] # Nil => lic'[l].lsd = lic[l].lsd /\ lic'[l].updated \in {lic[l].updated, stamp[a].time}
  <2> SUFFICES ASSUME NEW l \in Licenses
               PROVE  /\ lic[l] = Nil <=> lic'[l] = Nil
                      /\ lic'[l] \in License \cup {Nil}
                      /\ lic[l] # Nil => /\ lic'[l].lsd = lic[l].lsd
                                         /\ lic'[l].updated \in {lic[l].updated, stamp[a].time}
    OBVIOUS
  <2>1. lic'[l] = IF lic[l] # Nil /\ lic[l].prop.content = adding[a]
                  THEN [lic[l] EXCEPT !.updated = stamp[a].time] ELSE lic[l]
    BY DEF TouchByContentID
  <2>2. CASE lic[l] = Nil
    BY <2>1, <2>2
  <2>3. CASE lic[l] # Nil
    <3>1. lic[l] \in License /\ stamp[a].time \in Nat
      BY <2>3, RowType, StampType DEF IInv
    <3>2. [lic[l] EXCEPT !.updated = stamp[a].time] \in License
      BY <3>1 DEF License
    <3> QED
      BY <2>1, <2>3, <3>1, <3>2, NilIsNoLicense DEF License
  <2> QED
    BY <2>2, <2>3
<1>3. lic' \in [Licenses -> License \cup {Nil}]
  BY <1>2 DEF TouchByContentID
<1>4. \A l \in Licenses : lic[l] # Nil => LicenseOK(l)'
  BY <1>1, <1>2 DEF IInv, TablesTypeOK, LicenseOK
<1> QED
  BY <1>1, <1>2, <1>3, <1>4, RowsKept DEF IInv, TablesTypeOK

\* The steps of AddContent that touch no license.
LEMMA AddStep ==
    ASSUME IInv, NEW a \in Adders, (\E c \in Contents : BeginTouch(a, c)) \/ TouchFails(a)
    PROVE  IInv'
<1>1. UNCHANGED <<lic, doc, notif, late, u, want, clock>> /\ failed' \in BOOLEAN
  BY DEF IInv, TablesTypeOK, BeginTouch, TouchFails
<1> QED
  BY <1>1 DEF IInv, TablesTypeOK, CreatedMeansDocument, DocumentsHaveLicense, NotificationOK,
              LicenseOK, PatchOK, NoDoc

\* BeginUpdate leaves the copy the PATCH is about to write.
LEMMA BeginStep ==
    ASSUME IInv, NEW w \in Workers, BeginUpdate(w)
    PROVE  /\ IInv'
           /\ u'[w].id = u[w].id /\ u'[w].out = u[w].out /\ u'[w].asked = u[w].asked
           /\ u[w].pc = "write" /\ \A v \in Workers : v # w => u'[v] = u[v]
<1>1. /\ u \in [Workers -> Patch] /\ u[w].pc = "write" /\ u' = [u EXCEPT ![w].pc = "exec"]
      /\ UNCHANGED <<lic, doc, notif, late, want, failed, clock>>
  BY DEF IInv, TablesTypeOK, BeginUpdate
<1>2. u'[w] = [u[w] EXCEPT !.pc = "exec"] /\ \A v \in Workers : v # w => u'[v] = u[v]
  BY <1>1
<1> DEFINE Calls == {"idle", "write", "exec"}
           Ids == Licenses \cup {Nil}
           Outs == Properties \cup {Nil}
<1>3. "exec" \in Calls /\ Patch = [pc : Calls, id : Ids, asked : Partial, out : Outs]
  BY Zenon DEF Patch
<1> HIDE DEF Calls, Ids, Outs
<1>4. /\ u'[w] \in Patch
      /\ u'[w].id = u[w].id /\ u'[w].out = u[w].out /\ u'[w].asked = u[w].asked
  BY <1>1, <1>2, <1>3
<1>5. u' \in [Workers -> Patch]
  BY <1>1, <1>2, <1>4
<1>6. \A v \in Workers : PatchOK(v)'
  BY <1>1, <1>2, <1>4 DEF IInv, PatchOK
<1> QED
  BY <1>1, <1>2, <1>4, <1>5, <1>6 DEF IInv, TablesTypeOK, CreatedMeansDocument, DocumentsHaveLicense,
                               NotificationOK, LicenseOK, NoDoc

\* UpdateFails ends a request, Crash ends all of them and the notifications.
LEMMA LossStep ==
    ASSUME IInv, (\E w \in Workers : UpdateFails(w)) \/ Crash
    PROVE  IInv'
<1>1. /\ UNCHANGED <<lic, doc, late, want, clock>> /\ failed' \in BOOLEAN
      /\ u' \in [Workers -> Patch] /\ \A v \in Workers : u'[v] = Idle \/ u'[v] = u[v]
  BY IdleType DEF IInv, TablesTypeOK, UpdateFails, Crash
<1>2. /\ notif' \in [Licenses -> Notification]
      /\ \A l \in Licenses : /\ notif'[l].code = notif[l].code
                             /\ notif'[l].pc # "none" <=> notif[l].pc # "none"
  <2>1. CASE Crash
    <3> SUFFICES ASSUME NEW l \in Licenses
                 PROVE  /\ notif'[l] \in Notification
                        /\ notif'[l].code = notif[l].code
                        /\ notif'[l].pc # "none" <=> notif[l].pc # "none"
      BY <2>1 DEF Crash
    <3>1. /\ notif[l] \in Notification
          /\ notif'[l] = IF notif[l].pc \in {"put", "save"}
                         THEN [notif[l] EXCEPT !.pc = "done"] ELSE notif[l]
      BY <2>1 DEF IInv, TablesTypeOK, Crash
    <3> QED
      BY <3>1 DEF Notification
  <2>2. CASE \E w \in Workers : UpdateFails(w)
    BY <2>2 DEF IInv, TablesTypeOK, UpdateFails
  <2> QED
    BY <2>1, <2>2
<1>3. TablesTypeOK'
  BY <1>1, <1>2 DEF IInv, TablesTypeOK
<1>4. \A w \in Workers : PatchOK(w)'
  BY <1>1 DEF IInv, PatchOK, Idle
<1>5. \A l \in Licenses : NotificationOK(l)' /\ LicenseOK(l)'
  BY <1>1, <1>2 DEF IInv, NotificationOK, LicenseOK, NoDoc
<1> QED
  BY <1>1, <1>3, <1>4, <1>5 DEF IInv, CreatedMeansDocument, DocumentsHaveLicense, NoDoc

\* Tick and stuttering.
LEMMA IdleStep ==
    ASSUME IInv, Tick \/ UNCHANGED vars
    PROVE  IInv'
<1>1. /\ UNCHANGED <<lic, doc, notif, late, u, want, failed>>
      /\ clock' \in Nat /\ clock \in Nat /\ clock' >= clock
  BY DEF IInv, TablesTypeOK, Tick, vars
<1> QED
  BY <1>1 DEF IInv, TablesTypeOK, CreatedMeansDocument, DocumentsHaveLicense,
              NotificationOK, LicenseOK, PatchOK, NoDoc

-----------------------------------------------------------------------------
(* The dates *)

\* A step that executes no statement and takes no time leaves the dates alone.
LEMMA DatesKept ==
    ASSUME DInv, UNCHANGED <<reached, base>>, clock \in Nat, clock' \in Nat, clock' >= clock,
           DatesTypeOK', \A x \in Workers \cup Adders : stamp'[x] = stamp[x] \/ stamp'[x] = NoStamp,
           \A l \in Licenses : lic[l] # Nil => lic'[l] # Nil /\ lic'[l].updated = lic[l].updated
    PROVE  DInv'
<1>1. \A x \in Workers \cup Adders : StampOK(x)'
  <2> SUFFICES ASSUME NEW x \in Workers \cup Adders PROVE StampOK(x)'
    OBVIOUS
  <2>1. CASE stamp'[x] = NoStamp
    BY <2>1 DEF StampOK, NoStamp
  <2>2. CASE stamp'[x] = stamp[x]
    BY <2>2, StampType DEF DInv, StampOK
  <2> QED
    BY <2>1, <2>2
<1>2. \A l \in Licenses : DateOK(l)'
  BY DEF DInv, DatesTypeOK, DateOK
<1> QED
  BY <1>1, <1>2 DEF DInv

\* TakeTime: the time taken is not earlier than any date reached.
LEMMA TakenNow ==
    ASSUME DInv, NEW x \in Workers \cup Adders, TakeTime(x), clock \in Nat,
           UNCHANGED <<lic, clock, reached, base>>, adding' \in [Adders -> Contents \cup {Nil}]
    PROVE  DInv'
<1> DEFINE new == [time |-> clock, base |-> reached]
<1>1. /\ stamp \in [Workers \cup Adders -> Stamp] /\ reached \in [Licenses -> Nat]
      /\ stamp' = [stamp EXCEPT ![x] = new]
  BY DEF DInv, DatesTypeOK, TakeTime
<1>2. new \in Stamp
  BY <1>1 DEF Stamp
<1>3. new.time = clock /\ new.base = reached
  OBVIOUS
<1> HIDE DEF new
<1>4. DatesTypeOK'
  BY <1>1, <1>2 DEF DInv, DatesTypeOK
<1>5. \A y \in Workers \cup Adders : StampOK(y)'
  <2> SUFFICES ASSUME NEW y \in Workers \cup Adders PROVE StampOK(y)'
    OBVIOUS
  <2>1. CASE y = x
    BY <1>1, <1>3, <2>1 DEF DInv, DateOK, StampOK
  <2>2. CASE y # x
    BY <1>1, <2>2 DEF DInv, StampOK
  <2> QED
    BY <2>1, <2>2
<1>6. \A l \in Licenses : DateOK(l)'
  BY DEF DInv, DateOK
<1> QED
  BY <1>4, <1>5, <1>6 DEF DInv

\* ExecuteOn: the rows the statement is executed on get its time, the other rows keep theirs.
LEMMA Executed ==
    ASSUME DInv, NEW x \in Workers \cup Adders, NEW rows, ExecuteOn(x, rows), UNCHANGED clock,
           clock \in Nat, adding' \in [Adders -> Contents \cup {Nil}],
           \A l \in Licenses : l \notin rows => lic'[l] = lic[l],
           \A l \in Licenses : l \in rows => lic'[l] # Nil /\ lic'[l].updated = stamp[x].time
    PROVE  DInv'
<1> DEFINE time == stamp[x].time
<1>1. time \in Nat /\ time <= clock /\ \A l \in Licenses : /\ stamp[x].base[l] \in Nat
                                                           /\ stamp[x].base[l] <= time
  BY StampType DEF DInv, StampOK
<1>2. /\ \A l \in Licenses : reached[l] \in Nat /\ base[l] \in Nat
      /\ stamp \in [Workers \cup Adders -> Stamp]
  BY DEF DInv, DatesTypeOK
<1>3. /\ \A l \in Licenses : reached'[l] = IF l \in rows /\ time > reached[l] THEN time ELSE reached[l]
      /\ \A l \in Licenses : base'[l] = IF l \in rows THEN stamp[x].base[l] ELSE base[l]
      /\ stamp' = [stamp EXCEPT ![x] = NoStamp]
  BY DEF ExecuteOn
<1>4. NoStamp \in Stamp
  BY DEF NoStamp, Stamp
<1>5. DatesTypeOK'
  BY <1>1, <1>2, <1>3, <1>4 DEF DatesTypeOK, ExecuteOn
<1>6. \A y \in Workers \cup Adders : StampOK(y)'
  <2> SUFFICES ASSUME NEW y \in Workers \cup Adders PROVE StampOK(y)'
    OBVIOUS
  <2>1. CASE y = x
    <3>1. stamp'[y] = NoStamp
      BY <1>2, <1>3, <2>1
    <3> QED
      BY <3>1 DEF StampOK, NoStamp
  <2>2. CASE y # x
    BY <1>2, <1>3, <2>2 DEF DInv, StampOK
  <2> QED
    BY <2>1, <2>2
<1>7. ASSUME NEW l \in Licenses PROVE DateOK(l)'
  <2> HIDE DEF time
  <2>1. CASE l \in rows
    <3>1. lic'[l] # Nil /\ lic'[l].updated = time
      BY <2>1 DEF time
    <3>2. time # Nil
      BY <1>1, LicenseServerAssumption
    <3>3. reached[l] <= clock
      BY DEF DInv, DateOK
    <3> QED
      BY <1>1, <1>2, <1>3, <2>1, <3>1, <3>2, <3>3 DEF DateOK
  <2>2. CASE l \notin rows
    BY <1>3, <2>2 DEF DInv, DateOK
  <2> QED
    BY <2>1, <2>2
<1> QED
  BY <1>5, <1>6, <1>7 DEF DInv

\* The dates of empty tables.
LEMMA InitDInv == Init => DInv
<1> SUFFICES ASSUME Init PROVE DInv
  OBVIOUS
<1>1. DatesTypeOK
  BY DEF Init, DatesTypeOK, NoStamp, Stamp
<1>2. \A x \in Workers \cup Adders : StampOK(x)
  <2> SUFFICES ASSUME NEW x \in Workers \cup Adders PROVE StampOK(x)
    OBVIOUS
  <2>1. stamp[x] = NoStamp /\ clock = 1
    BY DEF Init
  <2> QED
    BY <2>1 DEF StampOK, NoStamp
<1>3. \A l \in Licenses : DateOK(l)
  <2> SUFFICES ASSUME NEW l \in Licenses PROVE DateOK(l)
    OBVIOUS
  <2>1. clock = 1 /\ reached[l] = 0
    BY DEF Init
  <2> QED
    BY <2>1 DEF DateOK
<1> QED
  BY <1>1, <1>2, <1>3 DEF DInv

\* The two statements that date licenses are the only ones that change a date, and they
\* leave no row behind.
LEMMA DatesStep ==
    ASSUME IInv, DInv, [Next]_vars
    PROVE  DInv'
<1>0. /\ lic \in [Licenses -> License \cup {Nil}] /\ u \in [Workers -> Patch] /\ clock \in Nat
      /\ \A l \in Licenses : lic[l] # Nil => lic[l] \in License
      /\ stamp \in [Workers \cup Adders -> Stamp] /\ adding \in [Adders -> Contents \cup {Nil}]
      /\ DatesTypeOK /\ NoStamp \in Stamp
  BY DEF IInv, DInv, TablesTypeOK, DatesTypeOK, NoStamp, Stamp
<1>1. ASSUME UNCHANGED <<adding, stamp, reached, base>>, clock' \in Nat, clock' >= clock,
             \A l \in Licenses : lic[l] # Nil => lic'[l] # Nil /\ lic'[l].updated = lic[l].updated
      PROVE  DInv'
  <2>1. DatesTypeOK'
    BY <1>0, <1>1 DEF DatesTypeOK
  <2> QED
    BY <1>0, <1>1, <2>1, DatesKept
<1>2. ASSUME NEW k \in Licenses, GenerateLicense(k) PROVE DInv'
  BY <1>0, <1>1, <1>2 DEF GenerateLicense, dateVars
<1>3. ASSUME NEW k \in Licenses, UpdateLsdStatus(k) PROVE DInv'
  <2>1. lic[k] # Nil
    BY <1>3 DEF IInv, NotificationOK, UpdateLsdStatus
  <2>2. lic'[k] = [lic[k] EXCEPT !.lsd = notif[k].code] /\ \A l \in Licenses : l # k => lic'[l] = lic[l]
    BY <1>0, <1>3 DEF UpdateLsdStatus
  <2>3. notif[k].code \in {0, 201, 500, -1}
    BY DEF IInv, TablesTypeOK, Notification
  <2>4. lic'[k] \in License /\ lic'[k].updated = lic[k].updated
    BY <1>0, <2>1, <2>2, <2>3 DEF License
  <2>5. UNCHANGED <<adding, stamp, reached, base>> /\ clock' = clock
    BY <1>3 DEF UpdateLsdStatus, dateVars
  <2>6. \A l \in Licenses : lic[l] # Nil => lic'[l] # Nil /\ lic'[l].updated = lic[l].updated
    BY <2>2, <2>4, NilIsNoLicense
  <2>7. clock' \in Nat /\ clock' >= clock
    BY <1>0, <2>5
  <2> QED
    BY <1>1, <2>5, <2>6, <2>7
<1>4. ASSUME NEW w \in Workers, BeginUpdate(w) PROVE DInv'
  BY <1>0, <1>4, TakenNow DEF BeginUpdate
<1>5. ASSUME NEW w \in Workers, Update(w) PROVE DInv'
  <2>1. /\ u[w].id \in Licenses /\ lic[u[w].id] \in License /\ u[w].out \in Properties
    BY <1>0, <1>5 DEF IInv, PatchOK, Update
  <2>2. /\ lic'[u[w].id] = [lic[u[w].id] EXCEPT !.prop = u[w].out, !.updated = stamp[w].time]
        /\ \A l \in Licenses : l # u[w].id => lic'[l] = lic[l]
    BY <1>0, <1>5, <2>1 DEF Update
  <2>3. lic'[u[w].id] \in License /\ lic'[u[w].id].updated = stamp[w].time
    <3>1. stamp[w].time \in Nat
      BY <1>0, StampType
    <3>2. [lic[u[w].id] EXCEPT !.prop = u[w].out, !.updated = stamp[w].time] \in License
      BY <2>1, <3>1, WrittenType
    <3>3. lic'[u[w].id].updated = stamp[w].time
      BY <2>1, <2>2 DEF License
    <3> QED
      BY <2>2, <3>2, <3>3
  <2>4. ExecuteOn(w, {u[w].id}) /\ adding' = adding /\ clock' = clock
    BY <1>5 DEF Update
  <2> DEFINE rows == {u[w].id}
  <2>5. /\ \A l \in Licenses : l \notin rows => lic'[l] = lic[l]
        /\ \A l \in Licenses : l \in rows => lic'[l] # Nil /\ lic'[l].updated = stamp[w].time
    BY <2>2, <2>3, NilIsNoLicense
  <2>6. ExecuteOn(w, rows) /\ adding' \in [Adders -> Contents \cup {Nil}]
    BY <1>0, <2>4
  <2> HIDE DEF rows
  <2> QED
    BY <1>0, <2>4, <2>5, <2>6, Executed
<1>6. ASSUME NEW a \in Adders, NEW c \in Contents, BeginTouch(a, c) PROVE DInv'
  BY <1>0, <1>6, TakenNow DEF BeginTouch
<1>7. ASSUME NEW a \in Adders, TouchByContentID(a) PROVE DInv'
  <2> DEFINE rows == {l \in Licenses : lic[l] # Nil /\ lic[l].prop.content = adding[a]}
  <2>1. /\ \A l \in Licenses : lic'[l] = IF l \in rows THEN [lic[l] EXCEPT !.updated = stamp[a].time]
                                         ELSE lic[l]
        /\ ExecuteOn(a, rows) /\ adding' = [adding EXCEPT ![a] = Nil] /\ clock' = clock
    BY <1>7 DEF TouchByContentID
  <2>2. \A l \in Licenses : l \in rows => lic[l] \in License
    BY <1>0
  <2> HIDE DEF rows
  <2>3. stamp[a].time \in Nat
    BY <1>0, StampType
  <2>4. ASSUME NEW l \in Licenses, l \in rows
        PROVE  lic'[l] # Nil /\ lic'[l].updated = stamp[a].time
    <3>1. lic[l] \in License /\ lic'[l] = [lic[l] EXCEPT !.updated = stamp[a].time]
      BY <2>1, <2>2, <2>4
    <3>2. [lic[l] EXCEPT !.updated = stamp[a].time] \in License
      BY <2>3, <3>1 DEF License
    <3>3. lic'[l].updated = stamp[a].time
      BY <3>1 DEF License
    <3> QED
      BY <3>1, <3>2, <3>3, NilIsNoLicense
  <2>5. \A l \in Licenses : l \notin rows => lic'[l] = lic[l]
    BY <2>1
  <2>6. adding' \in [Adders -> Contents \cup {Nil}]
    BY <1>0, <2>1
  <2> QED
    BY <1>0, <2>1, <2>4, <2>5, <2>6, Executed
<1>8. ASSUME UNCHANGED <<lic, clock, reached, base>>,
             adding' \in [Adders -> Contents \cup {Nil}],
             stamp' \in [Workers \cup Adders -> Stamp],
             \A x \in Workers \cup Adders : stamp'[x] = stamp[x] \/ stamp'[x] = NoStamp
      PROVE  DInv'
  <2>1. DatesTypeOK'
    BY <1>0, <1>8 DEF DatesTypeOK
  <2> QED
    BY <1>0, <1>8, <2>1, DatesKept
<1>9. ASSUME \/ \E w \in Workers : UpdateFails(w)
             \/ \E a \in Adders : TouchFails(a)
             \/ Crash
      PROVE  DInv'
  <2>1. UNCHANGED <<lic, clock, reached, base>>
    BY <1>9 DEF UpdateFails, TouchFails, Crash
  <2>2. adding' \in [Adders -> Contents \cup {Nil}]
    BY <1>0, <1>9 DEF UpdateFails, TouchFails, Crash
  <2>3. /\ stamp' \in [Workers \cup Adders -> Stamp]
        /\ \A x \in Workers \cup Adders : stamp'[x] = stamp[x] \/ stamp'[x] = NoStamp
    BY <1>0, <1>9 DEF UpdateFails, TouchFails, Crash
  <2> QED
    BY <1>8, <2>1, <2>2, <2>3
<1>10. ASSUME UNCHANGED <<lic, adding, stamp, reached, base>>, clock' \in Nat, clock' >= clock
       PROVE  DInv'
  BY <1>1, <1>10
<1>11. \/ UNCHANGED <<lic, adding, stamp, reached, base>> /\ clock' \in Nat /\ clock' >= clock
       \/ \E k \in Licenses : GenerateLicense(k) \/ UpdateLsdStatus(k)
       \/ \E w \in Workers : BeginUpdate(w) \/ Update(w) \/ UpdateFails(w)
       \/ \E a \in Adders : \/ \E c \in Contents : BeginTouch(a, c)
                            \/ TouchByContentID(a) \/ TouchFails(a)
       \/ Crash
  <2>1. CASE Tick \/ UNCHANGED vars
    BY <1>0, <2>1 DEF Tick, vars, dateVars
  <2>2. ASSUME NEW l \in Licenses,
               \/ NotifyCreated(l) \/ NotifyRefused(l) \/ NotifyTimeout(l) \/ LateNotification(l)
               \/ UpdateLsdStatusFails(l) \/ \E w \in Workers : UpdateLicense(w, l)
        PROVE  UNCHANGED <<lic, adding, stamp, reached, base, clock>>
    BY <2>2 DEF NotifyCreated, NotifyRefused, NotifyTimeout, LateNotification,
                UpdateLsdStatusFails, UpdateLicense, dateVars
  <2>3. ASSUME UNCHANGED clock PROVE clock' \in Nat /\ clock' >= clock
    BY <1>0, <2>3
  <2>4. \/ Tick \/ UNCHANGED vars \/ Crash
        \/ \E l \in Licenses :
              \/ NotifyCreated(l) \/ NotifyRefused(l) \/ NotifyTimeout(l) \/ LateNotification(l)
              \/ UpdateLsdStatusFails(l) \/ \E w \in Workers : UpdateLicense(w, l)
        \/ \E k \in Licenses : GenerateLicense(k) \/ UpdateLsdStatus(k)
        \/ \E w \in Workers : BeginUpdate(w) \/ Update(w) \/ UpdateFails(w)
        \/ \E a \in Adders : \/ \E c \in Contents : BeginTouch(a, c)
                             \/ TouchByContentID(a) \/ TouchFails(a)
    BY DEF Next
  <2> QED
    BY <2>1, <2>2, <2>3, <2>4
<1> QED
  BY <1>2, <1>3, <1>4, <1>5, <1>6, <1>7, <1>9, <1>10, <1>11

\* Every step keeps the invariants.
LEMMA NextIInv == IInv /\ DInv /\ [Next]_vars => IInv' /\ DInv'
<1> SUFFICES ASSUME IInv, DInv, [Next]_vars PROVE IInv' /\ DInv'
  OBVIOUS
<1>1. DatesTypeOK
  BY DEF DInv
<1>2. IInv'
  BY <1>1, GenerateStep, NotifyStep, SaveStep, ReadStep, BeginStep, WriteStep, AddStep, TouchStep,
     LossStep, IdleStep DEF Next
<1> QED
  BY <1>2, DatesStep

-----------------------------------------------------------------------------
(* Theorems *)

\* The inductive invariant holds in every reachable state.
THEOREM Invariance == Spec => [](IInv /\ DInv)
BY InitIInv, InitDInv, NextIInv, PTL DEF Spec

\* The tables, the notifications and the requests are always well formed: no negative
\* number and no zero time reaches the license table.
THEOREM TypeCorrect == Spec => []TypeOK
<1>1. IInv /\ DInv => TypeOK
  BY DEF IInv, DInv, TypeOK
<1> QED
  BY <1>1, Invariance, PTL

\* lsd_status 201 is stored only when the Status Server has the document, whatever
\* notifications are refused, given up, late or interrupted.
THEOREM CreatedImpliesDocument == Spec => []CreatedMeansDocument
<1>1. IInv => CreatedMeansDocument
  BY DEF IInv
<1> QED
  BY <1>1, Invariance, PTL

\* The Status Server knows no license the License Server does not hold.
THEOREM NoOrphanDocument == Spec => []DocumentsHaveLicense
<1>1. IInv => DocumentsHaveLicense
  BY DEF IInv
<1> QED
  BY <1>1, Invariance, PTL

\* The date of a license goes back only when a PATCH and a touch, or two of them, overlapped:
\* a statement that took its time after another was executed leaves no earlier date, for any
\* number of PATCH requests and additions of contents; and no date is erased.
THEOREM DatesKeepOrder == Spec => []DatesInOrder
<1>1. DInv => DatesInOrder
  BY DEF DInv, DateOK, DatesInOrder
<1> QED
  BY <1>1, Invariance, PTL

-----------------------------------------------------------------------------
(* PATCH requests served one after the other *)

AtMostOneWorker == \A v, w \in Workers : v = w

\* A PATCH under way holds what its write will make of the current row.
CopyCurrent(w) ==
    u[w].pc # "idle" => u[w].out = Changed(lic[u[w].id].prop, u[w].asked)

SerialInv == UpdatesKept /\ \A w \in Workers : CopyCurrent(w)

\* A step that leaves the properties of the licenses and starts no PATCH.
LEMMA PropertiesKept ==
    ASSUME IInv, SerialInv, UNCHANGED want,
           \A w \in Workers : u'[w] = u[w] \/ u'[w] = Idle,
           \A l \in Licenses :
              lic'[l] # Nil => lic[l] # Nil /\ lic'[l].prop = lic[l].prop,
           \A l \in Licenses : lic[l] # Nil => lic'[l] # Nil
    PROVE  SerialInv'
<1>1. UpdatesKept'
  BY DEF SerialInv, UpdatesKept
<1>2. \A w \in Workers : CopyCurrent(w)'
  <2> SUFFICES ASSUME NEW w \in Workers, u'[w].pc # "idle"
               PROVE  u'[w].out = Changed(lic'[u'[w].id].prop, u'[w].asked)
    BY DEF CopyCurrent
  <2>1. u'[w] = u[w]
    BY DEF Idle
  <2>2. u[w].id \in Licenses /\ lic[u[w].id] # Nil /\ CopyCurrent(w)
    BY <2>1 DEF IInv, PatchOK, SerialInv
  <2>3. lic'[u[w].id].prop = lic[u[w].id].prop
    BY <2>2
  <2> QED
    BY <2>1, <2>2, <2>3 DEF CopyCurrent
<1> QED
  BY <1>1, <1>2 DEF SerialInv

\* With one worker every step keeps the copies current and the updates kept.
LEMMA SerialStep ==
    ASSUME IInv, DInv, SerialInv, AtMostOneWorker, [Next]_vars
    PROVE  SerialInv'
<1>0. lic \in [Licenses -> License \cup {Nil}] /\ u \in [Workers -> Patch]
      /\ want \in [Licenses -> Properties \cup {Nil}]
  BY DEF IInv, TablesTypeOK
<1>1. ASSUME NEW l \in Licenses, GenerateLicense(l)
      PROVE  SerialInv'
  <2>1. /\ lic[l] = Nil /\ u' = u
        /\ lic'[l].prop = want'[l]
        /\ \A k \in Licenses : k # l => lic'[k] = lic[k] /\ want'[k] = want[k]
    BY <1>0, <1>1 DEF GenerateLicense
  <2>2. UpdatesKept'
    BY <2>1 DEF SerialInv, UpdatesKept
  <2>3. \A w \in Workers : CopyCurrent(w)'
    BY <2>1 DEF SerialInv, CopyCurrent, IInv, PatchOK
  <2> QED
    BY <2>2, <2>3 DEF SerialInv
<1>2. ASSUME NEW l \in Licenses, NEW w \in Workers, UpdateLicense(w, l)
      PROVE  SerialInv'
  <2>1. /\ lic' = lic /\ want' = want
        /\ u'[w].out = Changed(lic[l].prop, u'[w].asked) /\ u'[w].id = l
    BY <1>0, <1>2 DEF UpdateLicense
  <2>2. \A v \in Workers : v = w
    BY DEF AtMostOneWorker
  <2> QED
    BY <2>1, <2>2 DEF SerialInv, UpdatesKept, CopyCurrent
<1>3. ASSUME NEW w \in Workers, Update(w)
      PROVE  SerialInv'
  <2> DEFINE r == u[w]
  <2>1. /\ r.id \in Licenses /\ lic[r.id] \in License
        /\ r.out = Changed(want[r.id], r.asked)
    <3>1. r.pc = "exec"
      BY <1>3 DEF Update
    <3>2. r.id \in Licenses /\ lic[r.id] # Nil /\ CopyCurrent(w)
      BY <3>1 DEF IInv, PatchOK, SerialInv
    <3> QED
      BY <1>0, <3>1, <3>2 DEF SerialInv, UpdatesKept, CopyCurrent
  <2>2. /\ lic'[r.id] = [lic[r.id] EXCEPT !.prop = r.out, !.updated = stamp[w].time]
        /\ want'[r.id] = Changed(want[r.id], r.asked)
        /\ u'[w] = Idle
        /\ \A k \in Licenses : k # r.id => lic'[k] = lic[k] /\ want'[k] = want[k]
    BY <1>0, <1>3, <2>1 DEF Update
  <2>3. lic'[r.id].prop = want'[r.id]
    BY <2>1, <2>2 DEF License
  <2>4. UpdatesKept'
    BY <2>2, <2>3 DEF SerialInv, UpdatesKept
  <2>5. \A v \in Workers : CopyCurrent(v)'
    BY <2>2 DEF AtMostOneWorker, CopyCurrent, Idle
  <2> QED
    BY <2>4, <2>5 DEF SerialInv
<1>4. ASSUME NEW l \in Licenses, UpdateLsdStatus(l)
      PROVE  SerialInv'
  <2>1. /\ want' = want /\ u' = u
        /\ \A k \in Licenses : k # l => lic'[k] = lic[k]
        /\ lic'[l] = [lic[l] EXCEPT !.lsd = notif[l].code]
    BY <1>0, <1>4 DEF UpdateLsdStatus
  <2>2. lic[l] \in License /\ lic[l] # Nil
    BY <1>0, <1>4 DEF IInv, NotificationOK, UpdateLsdStatus
  <2>3. lic'[l].prop = lic[l].prop
    BY <2>1, <2>2 DEF License
  <2>4. lic'[l] \in License
    BY <2>1, <2>2 DEF License, IInv, TablesTypeOK, Notification
  <2> QED
    BY <2>1, <2>2, <2>3, <2>4, PropertiesKept, NilIsNoLicense
<1>5. ASSUME NEW a \in Adders, TouchByContentID(a)
      PROVE  SerialInv'
  <2>1. want' = want /\ u' = u
    BY <1>5 DEF TouchByContentID
  <2>2. \A k \in Licenses : lic'[k] # Nil => lic[k] # Nil /\ lic'[k].prop = lic[k].prop
    BY <1>0, <1>5 DEF TouchByContentID, License
  <2>3. \A k \in Licenses : lic[k] # Nil => lic'[k] # Nil
    <3>1. ASSUME NEW k \in Licenses, lic[k] # Nil PROVE lic'[k] # Nil
      <4>1. lic[k] \in License /\ stamp[a].time \in Nat
        BY <1>0, <3>1, StampType DEF DInv
      <4>2. [lic[k] EXCEPT !.updated = stamp[a].time] \in License
        BY <4>1 DEF License
      <4>3. lic'[k] = lic[k] \/ lic'[k] = [lic[k] EXCEPT !.updated = stamp[a].time]
        BY <1>5 DEF TouchByContentID
      <4> QED
        BY <4>1, <4>2, <4>3, NilIsNoLicense
    <3> QED
      BY <3>1
  <2> QED
    BY <2>1, <2>2, <2>3, PropertiesKept
<1>6. ASSUME UNCHANGED <<lic, want>>, \A w \in Workers : u'[w] = u[w] \/ u'[w] = Idle
      PROVE  SerialInv'
  BY <1>6, PropertiesKept
<1>7. ASSUME NEW w \in Workers, BeginUpdate(w)
      PROVE  SerialInv'
  <2>1. lic' = lic /\ want' = want
    BY <1>7 DEF BeginUpdate
  <2>2. \A v \in Workers : v = w
    BY DEF AtMostOneWorker
  <2>3. CopyCurrent(w)'
    BY <1>7, <2>1, BeginStep DEF SerialInv, CopyCurrent
  <2> QED
    BY <2>1, <2>2, <2>3 DEF SerialInv, UpdatesKept
<1> QED
  BY <1>0, <1>1, <1>2, <1>3, <1>4, <1>5, <1>6, <1>7
     DEF Next, vars, NotifyCreated, NotifyRefused, NotifyTimeout, LateNotification,
         UpdateLsdStatusFails, UpdateFails, BeginTouch, TouchFails, Crash, Tick

\* When the License Server serves PATCH requests one after the other, an acknowledged
\* update is never lost to notifyLsdServer, to TouchByContentID or to a failure.
THEOREM SerialUpdatesKept == Spec => [](AtMostOneWorker => UpdatesKept)
<1>1. Init => SerialInv
  BY DEF Init, SerialInv, UpdatesKept, CopyCurrent, Idle
<1>2. IInv /\ DInv /\ (AtMostOneWorker => SerialInv) /\ [Next]_vars => (AtMostOneWorker => SerialInv)'
  BY SerialStep
<1>3. (AtMostOneWorker => SerialInv) => (AtMostOneWorker => UpdatesKept)
  BY DEF SerialInv
<1> QED
  BY <1>1, <1>2, <1>3, Invariance, PTL DEF Spec
=============================================================================
