----------------------- MODULE LicenseDeliveryProofs -----------------------
(***************************************************************************)
(* Proofs about LicenseDelivery for every number of clients, versions,     *)
(* faults and dates.                                                       *)
(***************************************************************************)
EXTENDS LicenseDelivery, WellFoundedInduction, TLAPS

(***************************************************************************)
(* The inductive invariant, in three layers.                               *)
(*                                                                         *)
(* Base: the dates of every license record lie between its issue and the   *)
(* clock, the status document is not dated after the license, a license    *)
(* under way is a license that was stored.                                 *)
(***************************************************************************)

Delivery == [pc : {"idle", "add", "fetch", "content", "file", "answer"}, kind : Kinds,
             new : BOOLEAN, lic : Licenses \cup {NoLicense}, version : 0..MaxVersion,
             body : 0..MaxVersion, known : BOOLEAN, seen : 0..MaxTime]
Copies == [end : Ends \cup {Nil}, date : 0..MaxTime, version : 0..MaxVersion]

\* A license record with plausible dates.
Dated(l) ==
    /\ l \in Licenses
    /\ l.issued <= clock /\ l.updated <= clock
    /\ l.updated = Nil \/ l.issued <= l.updated

\* The license row was read, or written, by this delivery.
HasRead(r) == r.pc \in {"content", "file", "answer"}

DeliveryOK(r) ==
    /\ r.pc = "add" => lic = NoLicense /\ r.new
    /\ r.pc = "add" \/ HasRead(r) => Dated(r.lic)
    /\ r.new => r.lic.updated = Nil /\ r.kind # "fresh"
    /\ r.pc \in {"fetch", "content"} => ~r.new
    /\ r.pc \in {"idle", "add", "fetch", "content", "file"} => r.body = 0
    /\ r.version <= row
    /\ r.body # 0 => r.version <= r.body
    /\ HasRead(r) \/ r.pc = "fetch" => lic # NoLicense

UpdateOK ==
    /\ lsd.pc # "idle" => doc # Nil /\ lsd.end \in Ends /\ 1 <= lsd.at /\ lsd.at <= clock
    /\ lsd.pc = "save" => lsd.at <= lic.updated

DocOK == doc # Nil => lic # NoLicense /\ doc <= DateOf(lic)

Base ==
    /\ TypeOK
    /\ d \in [Clients -> Delivery] /\ copy \in [Clients -> Copies]
    /\ lic # NoLicense => Dated(lic)
    /\ cert <= clock
    /\ lic = NoLicense => \A c \in Clients : ~Holds(c)
    /\ \A c \in Clients : DeliveryOK(d[c])
    /\ \A x, y \in Clients : d[x].new /\ d[y].new => x = y
    /\ DocOK
    /\ UpdateOK

(***************************************************************************)
(* A fresh license that was asked for because of a date.                   *)
(***************************************************************************)

Answers(r) ==
    r.kind = "fresh" =>
        /\ r.pc = "fetch" => r.seen <= BuiltDate(lic, cert)
        /\ HasRead(r) => r.seen <= BuiltDate(r.lic, cert)

(***************************************************************************)
(* What is said of a copy must be true of the deliveries that will become  *)
(* one: a held license is a copy, or a license a delivery has read.  None  *)
(* is dated after the license row; while an update is announced to the     *)
(* License Server only, none is as new as the update; once it is announced *)
(* nothing that the update has made stale is as new as the document.       *)
(***************************************************************************)

HeldOK(end, date) ==
    /\ date <= BuiltDate(lic, cert)
    /\ doc = Nil => end = lic.end
    /\ ~missed /\ end # lic.end /\ doc # Nil /\ lsd.pc # "save" => date < StatusDate
    /\ ~missed /\ end # lic.end /\ lsd.pc = "save" => date < lsd.at

VersionOK(version, date) ==
    ~missed /\ version # row /\ add # "touch" => date < BuiltDate(lic, cert)

ClientOK(c) ==
    /\ Answers(d[c])
    /\ Holds(c) => HeldOK(copy[c].end, copy[c].date) /\ VersionOK(copy[c].version, copy[c].date)
    /\ HasRead(d[c]) => HeldOK(d[c].lic.end, buildLicense(d[c]).date)
    /\ d[c].pc \in {"file", "answer"} => VersionOK(d[c].version, buildLicense(d[c]).date)

UpdateShows == ~missed /\ lsd.pc = "patch" => BuiltDate(lic, cert) < lsd.at

IInv ==
    /\ Base
    /\ UpdateShows
    /\ \A c \in Clients : ClientOK(c)

-----------------------------------------------------------------------------
(* Lemmas on the operators *)

\* buildLicense dates a license by the later of its own date and the certificate's, as the
\* Status Server does with its document.
LEMMA BuiltDateIsLater ==
    ASSUME NEW l \in Licenses, NEW t \in 0..MaxTime, l.updated = Nil \/ l.issued <= l.updated
    PROVE  /\ DateOf(l) \in 1..MaxTime /\ BuiltDate(l, t) \in 1..MaxTime
           /\ DateOf(l) <= BuiltDate(l, t) /\ t <= BuiltDate(l, t)
           /\ BuiltDate(l, t) \in {DateOf(l), t}
           /\ l.issued <= DateOf(l) /\ l.updated <= DateOf(l)
           /\ l.updated = Nil => DateOf(l) = l.issued
           /\ l.updated # Nil => DateOf(l) = l.updated
BY LicenseDeliveryAssumption DEF Licenses, DateOf, BuiltDate, Nil

\* The status document takes the later of its row and the date of the certificate.
LEMMA StatusDateIsLater ==
    ASSUME doc \in 0..MaxTime, cert \in 0..MaxTime, doc # Nil
    PROVE  StatusDate \in 1..MaxTime /\ doc <= StatusDate /\ cert <= StatusDate
           /\ StatusDate \in {doc, cert}
BY LicenseDeliveryAssumption DEF StatusDate, Nil

\* The mark of a missing license is not a license.
LEMMA NoLicenseIsNone == NoLicense \notin Licenses
BY LicenseDeliveryAssumption DEF NoLicense, Licenses, Nil

\* A delivery is started with some fields of an idle one replaced, and goes on with others.
LEMMA StartType ==
    ASSUME NEW r \in Delivery, NEW kind \in Kinds, NEW l \in Licenses \cup {NoLicense},
           NEW v \in 0..MaxVersion
    PROVE  [r EXCEPT !.pc = "add", !.kind = kind, !.new = TRUE, !.version = v, !.lic = l]
              \in Delivery
<1> DEFINE PCs == {"idle", "add", "fetch", "content", "file", "answer"}
           Ls == Licenses \cup {NoLicense}
           Vs == 0..MaxVersion
           Ts == 0..MaxTime
<1>1. /\ Delivery = [pc : PCs, kind : Kinds, new : BOOLEAN, lic : Ls, version : Vs, body : Vs,
                     known : BOOLEAN, seen : Ts]
      /\ "add" \in PCs /\ l \in Ls /\ v \in Vs
  BY Zenon DEF Delivery
<1> HIDE DEF PCs, Ls, Vs, Ts
<1> QED
  BY <1>1

\* A client at rest.
LEMMA IdleOK ==
    ASSUME row \in Nat
    PROVE  Idle \in Delivery /\ DeliveryOK(Idle) /\ ~Idle.new /\ Answers(Idle)
           /\ Idle.pc = "idle"
BY LicenseDeliveryAssumption DEF Idle, Delivery, DeliveryOK, HasRead, Answers, NoLicense, Licenses,
                                 Kinds, Nil

\* What a delivery is about to hand out has a date between the issue of its license and the
\* later of its license's date and the certificate's.
LEMMA BuiltOK ==
    ASSUME NEW r \in Delivery, r.pc = "add" \/ HasRead(r), DeliveryOK(r), cert \in 0..MaxTime,
           clock \in 1..MaxTime
    PROVE  /\ buildLicense(r) \in Copies
           /\ buildLicense(r).end = r.lic.end /\ buildLicense(r).version = r.version
           /\ buildLicense(r).date <= BuiltDate(r.lic, cert)
           /\ ~r.new => buildLicense(r).date = BuiltDate(r.lic, cert)
           /\ buildLicense(r).date \in 1..MaxTime
<1>1. r.lic \in Licenses /\ (r.lic.updated = Nil \/ r.lic.issued <= r.lic.updated)
  BY DEF DeliveryOK, Dated
<1>2. /\ DateOf(r.lic) \in 1..MaxTime /\ BuiltDate(r.lic, cert) \in 1..MaxTime
      /\ DateOf(r.lic) <= BuiltDate(r.lic, cert)
  BY <1>1, BuiltDateIsLater
<1>3. r.lic.end \in Ends /\ r.version \in 0..MaxVersion
  BY <1>1 DEF Licenses, Delivery
<1> HIDE DEF DateOf, BuiltDate
<1> QED
  BY <1>2, <1>3, LicenseDeliveryAssumption DEF buildLicense, Copies

\* The invariant holds before the license is generated.
LEMMA InitIInv == Init => IInv
<1> SUFFICES ASSUME Init PROVE IInv
  OBVIOUS
<1> USE LicenseDeliveryAssumption
<1>1. /\ row = 1 /\ Idle \in Delivery /\ DeliveryOK(Idle) /\ ~Idle.new /\ Answers(Idle)
      /\ Idle.pc = "idle" /\ Idle.kind \in Kinds
  BY IdleOK DEF Init, Delivery, Idle, Kinds
<1>2. NoCopy \in Copies /\ NoCopy.date = 0 /\ NoCopy.end = Nil
  BY DEF NoCopy, Copies, Nil
<1>3. NoUpdate \in Update /\ NoUpdate.pc = "idle"
  BY DEF NoUpdate, Update, Nil
<1>4. d \in [Clients -> Delivery] /\ copy \in [Clients -> Copies]
  BY <1>1, <1>2 DEF Init
<1>5. \A c \in Clients : d[c] = Idle /\ copy[c] = NoCopy
  BY DEF Init
<1>6. TypeOK
  <2>1. /\ row \in 1..MaxVersion /\ file \in 1..MaxVersion /\ row <= file /\ file <= row + 1
        /\ doc \in 0..MaxTime /\ cert \in 0..MaxTime /\ faults \in 0..MaxFaults
        /\ clock \in 1..MaxTime
    BY DEF Init, Nil
  <2>2. \A c \in Clients : /\ d[c].pc \in {"idle", "add", "fetch", "content", "file", "answer"}
                            /\ d[c].kind \in Kinds
                            /\ copy[c].date \in 0..MaxTime /\ copy[c].end \in Ends \cup {Nil}
    BY <1>1, <1>2, <1>5
  <2>3. lic = NoLicense /\ add = "idle" /\ lsd \in Update /\ missed \in BOOLEAN
    BY <1>3 DEF Init
  <2> QED
    BY <2>1, <2>2, <2>3 DEF TypeOK
<1>7. Base
  BY <1>1, <1>3, <1>4, <1>5, <1>6 DEF Init, Base, Holds, DocOK, UpdateOK, Nil
<1>8. UpdateShows /\ \A c \in Clients : ClientOK(c)
  BY <1>1, <1>3, <1>5 DEF Init, UpdateShows, ClientOK, Holds, HasRead
<1> QED
  BY <1>7, <1>8 DEF IInv

-----------------------------------------------------------------------------
(* Deliveries *)

\* A step of the delivery to one client, which leaves the tables alone, keeps the invariant
\* when it keeps what is said of this client.
LEMMA ClientFrame ==
    ASSUME IInv, NEW c \in Clients,
           UNCHANGED <<lic, row, file, add, doc, lsd, cert, missed, clock>>,
           faults' \in 0..MaxFaults,
           d' \in [Clients -> Delivery], copy' \in [Clients -> Copies],
           \A x \in Clients \ {c} : d'[x] = d[x] /\ copy'[x] = copy[x],
           DeliveryOK(d[c])', ClientOK(c)',
           d'[c].new => d[c].new \/ \A x \in Clients : ~d[x].new,
           lic = NoLicense => ~Holds(c)'
    PROVE  IInv'
<1>1. \A x \in Clients : d'[x].pc \in {"idle", "add", "fetch", "content", "file", "answer"}
         /\ d'[x].kind \in Kinds /\ copy'[x].date \in 0..MaxTime
         /\ copy'[x].end \in Ends \cup {Nil}
  BY DEF Delivery, Copies
<1>2. TypeOK'
  BY <1>1 DEF IInv, Base, TypeOK
<1>3. \A x \in Clients \ {c} : DeliveryOK(d[x])' /\ ClientOK(x)' /\ (Holds(x)' <=> Holds(x))
  <2> SUFFICES ASSUME NEW x \in Clients \ {c}
               PROVE  DeliveryOK(d[x])' /\ ClientOK(x)' /\ (Holds(x)' <=> Holds(x))
    OBVIOUS
  <2>1. d'[x] = d[x] /\ copy'[x] = copy[x] /\ DeliveryOK(d[x]) /\ ClientOK(x)
    BY DEF IInv, Base
  <2>2. DeliveryOK(d[x])' /\ (Holds(x)' <=> Holds(x))
    BY <2>1 DEF DeliveryOK, Dated, HasRead, Holds
  <2>3. ClientOK(x)'
    BY <2>1 DEF ClientOK, Answers, Holds, HeldOK, VersionOK, HasRead, StatusDate, buildLicense
  <2> QED
    BY <2>2, <2>3
<1>4. (\A x, y \in Clients : d[x].new /\ d[y].new => x = y)'
  BY DEF IInv, Base
<1>5. Base'
  BY <1>2, <1>3, <1>4 DEF IInv, Base, DocOK, UpdateOK, Dated
<1>6. UpdateShows'
  BY DEF IInv, UpdateShows
<1> QED
  BY <1>3, <1>5, <1>6 DEF IInv

\* What the tables hold, and what is said of a client.
LEMMA Facts ==
    ASSUME IInv, NEW c \in Clients
    PROVE  /\ row \in 1..MaxVersion /\ file \in 1..MaxVersion /\ row <= file /\ file <= row + 1
           /\ doc \in 0..MaxTime /\ cert \in 0..MaxTime /\ clock \in 1..MaxTime
           /\ faults \in 0..MaxFaults /\ cert <= clock
           /\ d \in [Clients -> Delivery] /\ copy \in [Clients -> Copies]
           /\ d[c] \in Delivery /\ copy[c] \in Copies
           /\ DeliveryOK(d[c]) /\ ClientOK(c)
           /\ lic \in Licenses \cup {NoLicense} /\ (lic # NoLicense => Dated(lic))
BY DEF IInv, Base, TypeOK

\* Idle EXCEPT some fields, as the handlers start a delivery.
LEMMA GenerateStep ==
    ASSUME IInv, NEW c \in Clients, NEW kind \in {"license", "publication"}, Generate(c, kind)
    PROVE  IInv'
<1>0. USE LicenseDeliveryAssumption
<1>1. PICK e \in Ends :
         d' = [d EXCEPT ![c] = [Idle EXCEPT !.pc = "add", !.kind = kind, !.new = TRUE,
                                  !.version = row,
                                  !.lic = [end |-> e, issued |-> clock, updated |-> Nil]]]
  BY DEF Generate
<1> DEFINE l == [end |-> e, issued |-> clock, updated |-> Nil]
           r == [Idle EXCEPT !.pc = "add", !.kind = kind, !.new = TRUE, !.version = row, !.lic = l]
<1>2. /\ lic = NoLicense /\ d[c].pc = "idle" /\ (\A x \in Clients : ~d[x].new)
      /\ UNCHANGED <<lic, row, file, add, doc, lsd, copy, cert, missed, faults, clock>>
  BY DEF Generate
<1>3. l \in Licenses /\ l.issued = clock /\ l.updated = Nil
  BY Facts DEF Licenses, Nil
<1> HIDE DEF l
<1>4. Idle \in Delivery /\ Idle.body = 0
  BY IdleOK, Facts DEF Idle
<1>5. r \in Delivery
  <2>1. kind \in Kinds /\ row \in 0..MaxVersion
    BY Facts DEF Kinds
  <2> QED
    BY <1>3, <1>4, <2>1, StartType
<1>6. /\ r.pc = "add" /\ r.new /\ r.lic = l /\ r.version = row /\ r.body = 0 /\ r.kind # "fresh"
  BY <1>4 DEF Delivery
<1>7. d'[c] = r /\ d' \in [Clients -> Delivery] /\ \A x \in Clients \ {c} : d'[x] = d[x]
  BY <1>1, <1>5, Facts DEF l
<1> HIDE DEF r
<1>8. DeliveryOK(d[c])'
  BY <1>2, <1>3, <1>6, <1>7, Facts DEF DeliveryOK, HasRead, Dated, Nil
<1>9. ~Holds(c)'
  BY <1>2 DEF IInv, Base, Holds
<1>10. ClientOK(c)'
  BY <1>6, <1>7, <1>9 DEF ClientOK, Answers, HasRead
<1> QED
  BY <1>2, <1>7, <1>8, <1>9, <1>10, ClientFrame, Facts

\* The copy of a client, while nothing but its delivery changes.
LEMMA CopyFrame ==
    ASSUME IInv, NEW c \in Clients, UNCHANGED <<lic, row, add, doc, lsd, cert, missed>>,
           copy'[c] = copy[c]
    PROVE  /\ Holds(c)' => /\ HeldOK(copy[c].end, copy[c].date)'
                           /\ VersionOK(copy[c].version, copy[c].date)'
           /\ lic = NoLicense => ~Holds(c)'
BY DEF IInv, Base, ClientOK, Holds, HeldOK, VersionOK, StatusDate

\* A license that has just been read is held as it is in the table.
LEMMA JustRead ==
    ASSUME lic # NoLicense, Dated(lic), cert \in 0..MaxTime
    PROVE  HeldOK(lic.end, BuiltDate(lic, cert))
<1>1. BuiltDate(lic, cert) \in 1..MaxTime
  BY BuiltDateIsLater DEF Dated
<1> QED
  BY <1>1, LicenseDeliveryAssumption DEF HeldOK

\* GetLicense and GetProtectedPublication read the license row.
LEMMA GetStep ==
    ASSUME IInv, NEW c \in Clients, NEW kind \in {"license", "publication"}, Get(c, kind)
    PROVE  IInv'
<1> DEFINE r == [Idle EXCEPT !.pc = "content", !.kind = kind, !.lic = lic]
<1>1. /\ lic # NoLicense /\ d[c].pc = "idle" /\ d' = [d EXCEPT ![c] = r]
      /\ UNCHANGED <<lic, row, file, add, doc, lsd, copy, cert, missed, faults, clock>>
  BY DEF Get
<1>2. Idle \in Delivery /\ Idle.body = 0 /\ ~Idle.new /\ Idle.version = 0
  BY IdleOK, Facts DEF Idle
<1>3. r \in Delivery
  <2>1. kind \in Kinds /\ lic \in Licenses \cup {NoLicense}
    BY Facts DEF Kinds
  <2> QED
    BY <1>2, <2>1 DEF Delivery
<1>4. /\ r.pc = "content" /\ ~r.new /\ r.lic = lic /\ r.version = 0 /\ r.body = 0
      /\ r.kind # "fresh"
  BY <1>2 DEF Delivery
<1>5. d'[c] = r /\ d' \in [Clients -> Delivery] /\ \A x \in Clients \ {c} : d'[x] = d[x]
  BY <1>1, <1>3, Facts
<1> HIDE DEF r
<1>6. Dated(lic)'
  BY <1>1, Facts DEF Dated
<1>7. DeliveryOK(d[c])'
  BY <1>1, <1>4, <1>5, <1>6, Facts DEF DeliveryOK, HasRead
<1>8. buildLicense(d[c])'.date = BuiltDate(lic, cert)'
  BY <1>1, <1>4, <1>5 DEF buildLicense
<1>9. HeldOK(lic.end, BuiltDate(lic, cert))'
  <2>1. HeldOK(lic.end, BuiltDate(lic, cert))
    BY <1>1, JustRead, Facts
  <2> QED
    BY <1>1, <2>1 DEF HeldOK, StatusDate
<1>10. ClientOK(c)'
  BY <1>1, <1>4, <1>5, <1>8, <1>9, CopyFrame DEF ClientOK, Answers, HasRead
<1> QED
  BY <1>1, <1>4, <1>5, <1>7, <1>10, ClientFrame, Facts

\* GetFreshLicense starts with the date the client has seen.
LEMMA GetFreshStep ==
    ASSUME IInv, NEW c \in Clients, GetFreshLicense(c)
    PROVE  IInv'
<1> DEFINE r == [Idle EXCEPT !.pc = "fetch", !.kind = "fresh", !.known = (doc # Nil),
                             !.seen = StatusDate]
<1>1. /\ lic # NoLicense /\ d[c].pc = "idle" /\ d' = [d EXCEPT ![c] = r]
      /\ UNCHANGED <<lic, row, file, add, doc, lsd, copy, cert, missed, faults, clock>>
  BY DEF GetFreshLicense
<1>2. Idle \in Delivery /\ Idle.body = 0 /\ ~Idle.new /\ Idle.version = 0
  BY IdleOK, Facts DEF Idle
<1>3. StatusDate \in 0..MaxTime /\ StatusDate <= BuiltDate(lic, cert)
  <2>0. Dated(lic) /\ doc \in 0..MaxTime /\ cert \in 0..MaxTime /\ DocOK
    BY <1>1, Facts DEF IInv, Base
  <2>1. /\ BuiltDate(lic, cert) \in 1..MaxTime /\ DateOf(lic) \in 1..MaxTime
        /\ DateOf(lic) <= BuiltDate(lic, cert) /\ cert <= BuiltDate(lic, cert)
    BY <2>0, BuiltDateIsLater DEF Dated
  <2>2. CASE doc = Nil
    BY <2>1, <2>2, LicenseDeliveryAssumption DEF StatusDate, Nil
  <2>3. CASE doc # Nil
    BY <2>0, <2>1, <2>3, StatusDateIsLater, LicenseDeliveryAssumption DEF DocOK
  <2> QED
    BY <2>2, <2>3
<1>4. r \in Delivery
  <2>1. "fresh" \in Kinds /\ (doc # Nil) \in BOOLEAN
    BY DEF Kinds
  <2> DEFINE t == StatusDate
             k == doc # Nil
  <2>2. t \in 0..MaxTime /\ k \in BOOLEAN
    BY <1>3
  <2> HIDE DEF t, k
  <2>3. [Idle EXCEPT !.pc = "fetch", !.kind = "fresh", !.known = k, !.seen = t] \in Delivery
    BY <1>2, <2>1, <2>2 DEF Delivery
  <2> QED
    BY <2>3 DEF t, k
<1>5. /\ r.pc = "fetch" /\ ~r.new /\ r.version = 0 /\ r.body = 0 /\ r.seen = StatusDate
  BY <1>2 DEF Delivery
<1>6. d'[c] = r /\ d' \in [Clients -> Delivery] /\ \A x \in Clients \ {c} : d'[x] = d[x]
  BY <1>1, <1>4, Facts
<1> HIDE DEF r
<1>7. DeliveryOK(d[c])'
  BY <1>1, <1>5, <1>6, Facts DEF DeliveryOK, HasRead
<1>8. ClientOK(c)'
  BY <1>1, <1>3, <1>5, <1>6, CopyFrame DEF ClientOK, Answers, HasRead
<1> QED
  BY <1>1, <1>5, <1>6, <1>7, <1>8, ClientFrame, Facts

\* fetchLicense reads the license row, which is not older than the date seen before.
LEMMA FetchStep ==
    ASSUME IInv, NEW c \in Clients, fetchLicense(c)
    PROVE  IInv'
<1> DEFINE r == [d[c] EXCEPT !.pc = "content", !.lic = lic]
<1>1. /\ d[c].pc = "fetch" /\ d' = [d EXCEPT ![c] = r]
      /\ UNCHANGED <<lic, row, file, add, doc, lsd, copy, cert, missed, faults, clock>>
  BY Facts DEF fetchLicense
<1>2. d[c] \in Delivery /\ DeliveryOK(d[c]) /\ lic # NoLicense /\ ClientOK(c)
  BY <1>1, Facts DEF DeliveryOK
<1>3. r \in Delivery
  <2>1. lic \in Licenses \cup {NoLicense}
    BY Facts
  <2> QED
    BY <1>2, <2>1 DEF Delivery
<1>4. /\ r.pc = "content" /\ r.new = d[c].new /\ r.lic = lic /\ r.version = d[c].version
      /\ r.body = d[c].body /\ r.kind = d[c].kind /\ r.seen = d[c].seen
  BY <1>2 DEF Delivery
<1>5. d'[c] = r /\ d' \in [Clients -> Delivery] /\ \A x \in Clients \ {c} : d'[x] = d[x]
  BY <1>1, <1>3, Facts
<1> HIDE DEF r
<1>6. Dated(lic)' /\ ~d[c].new
  BY <1>1, <1>2, Facts DEF Dated, DeliveryOK
<1>7. DeliveryOK(d[c])'
  BY <1>1, <1>2, <1>4, <1>5, <1>6, Facts DEF DeliveryOK, HasRead
<1>8. buildLicense(d[c])'.date = BuiltDate(lic, cert)'
  BY <1>1, <1>4, <1>5, <1>6 DEF buildLicense
<1>9. HeldOK(lic.end, BuiltDate(lic, cert))'
  <2>1. HeldOK(lic.end, BuiltDate(lic, cert))
    BY <1>2, JustRead, Facts
  <2> QED
    BY <1>1, <2>1 DEF HeldOK, StatusDate
<1>10. Answers(d[c])'
  BY <1>1, <1>2, <1>4, <1>5 DEF ClientOK, Answers, HasRead
<1>11. ClientOK(c)'
  BY <1>1, <1>4, <1>5, <1>8, <1>9, <1>10, CopyFrame DEF ClientOK, HasRead
<1> QED
  BY <1>1, <1>4, <1>5, <1>7, <1>11, <1>2, ClientFrame, Facts

\* buildLicense reads the content row.
LEMMA ReadContentStep ==
    ASSUME IInv, NEW c \in Clients, ReadContent(c)
    PROVE  IInv'
<1> DEFINE next == IF d[c].kind = "publication" THEN "file" ELSE "answer"
           r == [d[c] EXCEPT !.version = row, !.pc = next]
<1>1. /\ d[c].pc = "content" /\ d' = [d EXCEPT ![c] = r]
      /\ UNCHANGED <<lic, row, file, add, doc, lsd, copy, cert, missed, faults, clock>>
  BY Facts DEF ReadContent
<1>2. /\ d[c] \in Delivery /\ DeliveryOK(d[c]) /\ lic # NoLicense /\ ClientOK(c)
      /\ next \in {"file", "answer"} /\ d[c].body = 0
  BY <1>1, Facts DEF DeliveryOK, HasRead
<1> HIDE DEF next
<1>3. r \in Delivery
  <2>1. row \in 0..MaxVersion
    BY Facts
  <2> QED
    BY <1>2, <2>1 DEF Delivery
<1>4. /\ r.pc = next /\ r.new = d[c].new /\ r.lic = d[c].lic /\ r.version = row
      /\ r.body = d[c].body /\ r.kind = d[c].kind /\ r.seen = d[c].seen
  BY <1>2 DEF Delivery
<1>5. d'[c] = r /\ d' \in [Clients -> Delivery] /\ \A x \in Clients \ {c} : d'[x] = d[x]
  BY <1>1, <1>3, Facts
<1> HIDE DEF r
<1>6. DeliveryOK(d[c])'
  <2>1. Dated(d[c].lic)'
    BY <1>1, <1>2, <1>4, <1>5 DEF DeliveryOK, HasRead, Dated
  <2> QED
    BY <1>1, <1>2, <1>4, <1>5, <2>1, Facts DEF DeliveryOK, HasRead
<1>7. buildLicense(d[c])'.date = buildLicense(d[c]).date
  BY <1>1, <1>4, <1>5 DEF buildLicense
<1>8. HeldOK(d[c].lic.end, buildLicense(d[c]).date)'
  BY <1>1, <1>2, <1>4, <1>5, <1>7 DEF ClientOK, HasRead, HeldOK, StatusDate
<1>9. Answers(d[c])'
  BY <1>1, <1>2, <1>4, <1>5 DEF ClientOK, Answers, HasRead
<1>10. VersionOK(d[c].version, buildLicense(d[c]).date)'
  BY <1>1, <1>4, <1>5 DEF VersionOK
<1>11. ClientOK(c)'
  BY <1>1, <1>8, <1>9, <1>10, CopyFrame DEF ClientOK
<1> QED
  BY <1>1, <1>4, <1>5, <1>6, <1>11, <1>2, ClientFrame, Facts

\* buildProtectedPublication reads the stored file, which is not older than the row.
LEMMA ReadFileStep ==
    ASSUME IInv, NEW c \in Clients, buildProtectedPublication(c)
    PROVE  IInv'
<1> DEFINE r == [d[c] EXCEPT !.body = file, !.pc = "answer"]
<1>1. /\ d[c].pc = "file" /\ d' = [d EXCEPT ![c] = r]
      /\ UNCHANGED <<lic, row, file, add, doc, lsd, copy, cert, missed, faults, clock>>
  BY Facts DEF buildProtectedPublication
<1>2. d[c] \in Delivery /\ DeliveryOK(d[c]) /\ ClientOK(c) /\ lic # NoLicense
  BY <1>1, Facts DEF DeliveryOK, HasRead
<1>3. r \in Delivery
  <2>1. file \in 0..MaxVersion
    BY Facts
  <2> QED
    BY <1>2, <2>1 DEF Delivery
<1>4. /\ r.pc = "answer" /\ r.new = d[c].new /\ r.lic = d[c].lic /\ r.version = d[c].version
      /\ r.body = file /\ r.kind = d[c].kind /\ r.seen = d[c].seen
  BY <1>2 DEF Delivery
<1>5. d'[c] = r /\ d' \in [Clients -> Delivery] /\ \A x \in Clients \ {c} : d'[x] = d[x]
  BY <1>1, <1>3, Facts
<1> HIDE DEF r
<1>6. DeliveryOK(d[c])'
  <2>1. Dated(d[c].lic)'
    BY <1>1, <1>2, <1>4, <1>5 DEF DeliveryOK, HasRead, Dated
  <2>2. d[c].version \in 0..MaxVersion /\ d[c].version <= file
    BY <1>2, Facts DEF DeliveryOK, Delivery
  <2> QED
    BY <1>1, <1>2, <1>4, <1>5, <2>1, <2>2 DEF DeliveryOK, HasRead
<1>7. buildLicense(d[c])'.date = buildLicense(d[c]).date
  BY <1>1, <1>4, <1>5 DEF buildLicense
<1>8. HeldOK(d[c].lic.end, buildLicense(d[c]).date)'
  BY <1>1, <1>2, <1>4, <1>5, <1>7 DEF ClientOK, HasRead, HeldOK, StatusDate
<1>9. Answers(d[c])'
  BY <1>1, <1>2, <1>4, <1>5 DEF ClientOK, Answers, HasRead
<1>10. VersionOK(d[c].version, buildLicense(d[c]).date)'
  BY <1>1, <1>2, <1>4, <1>5, <1>7 DEF ClientOK, VersionOK
<1>11. ClientOK(c)'
  BY <1>1, <1>8, <1>9, <1>10, CopyFrame DEF ClientOK
<1> QED
  BY <1>1, <1>4, <1>5, <1>6, <1>11, <1>2, ClientFrame, Facts

\* The end of a delivery: the client holds what was built, or what it held before.
LEMMA AnswerStep ==
    ASSUME IInv, NEW c \in Clients, Answer(c) \/ DeliveryFails(c)
    PROVE  IInv'
<1>1. /\ d[c].pc # "idle" /\ d' = [d EXCEPT ![c] = Idle]
      /\ UNCHANGED <<lic, row, file, add, doc, lsd, cert, missed, clock>>
      /\ faults' \in 0..MaxFaults
  BY Facts, LicenseDeliveryAssumption DEF Answer, DeliveryFails
<1>2. d[c] \in Delivery /\ DeliveryOK(d[c]) /\ ClientOK(c)
  BY Facts
<1>3. \/ copy' = copy
      \/ d[c].pc = "answer" /\ copy' = [copy EXCEPT ![c] = buildLicense(d[c])]
  <2>1. CASE Answer(c) /\ d[c].known
    BY <2>1 DEF Answer, AnswerTo
  <2>2. CASE Answer(c) /\ ~d[c].known
    BY <2>2, Facts DEF Answer, AnswerTo
  <2>3. CASE DeliveryFails(c)
    BY <2>3 DEF DeliveryFails
  <2> QED
    BY <2>1, <2>2, <2>3
<1>4. Idle \in Delivery /\ DeliveryOK(Idle)' /\ ~Idle.new /\ Answers(Idle)' /\ Idle.pc = "idle"
  <2>1. Idle \in Delivery /\ ~Idle.new /\ Idle.pc = "idle" /\ row' \in Nat
    BY <1>1, Facts, IdleOK
  <2>2. DeliveryOK(Idle)' /\ Answers(Idle)'
    BY <2>1 DEF Idle, DeliveryOK, HasRead, Answers, NoLicense, Nil
  <2> QED
    BY <2>1, <2>2
<1>5. d'[c] = Idle /\ d' \in [Clients -> Delivery] /\ \A x \in Clients \ {c} : d'[x] = d[x]
  BY <1>1, <1>4, Facts
<1>6. DeliveryOK(d[c])'
  BY <1>4, <1>5 DEF DeliveryOK, Dated, HasRead
<1>7. CASE copy' = copy
  <2>1. ClientOK(c)'
    BY <1>1, <1>4, <1>5, <1>7, CopyFrame DEF ClientOK, Answers, HasRead
  <2> QED
    BY <1>1, <1>4, <1>5, <1>6, <1>7, <2>1, CopyFrame, ClientFrame, Facts
<1>8. CASE d[c].pc = "answer" /\ copy' = [copy EXCEPT ![c] = buildLicense(d[c])]
  <2> DEFINE b == buildLicense(d[c])
  <2>1. b \in Copies /\ b.end = d[c].lic.end /\ b.version = d[c].version /\ lic # NoLicense
    BY <1>2, <1>8, BuiltOK, Facts DEF HasRead, DeliveryOK
  <2>2. HeldOK(b.end, b.date) /\ VersionOK(b.version, b.date)
    BY <1>2, <1>8, <2>1 DEF ClientOK, HasRead
  <2> HIDE DEF b
  <2>3. copy'[c] = b /\ copy' \in [Clients -> Copies]
        /\ \A x \in Clients \ {c} : copy'[x] = copy[x]
    BY <1>8, <2>1, Facts DEF b
  <2>4. HeldOK(copy[c].end, copy[c].date)' /\ VersionOK(copy[c].version, copy[c].date)'
    BY <1>1, <2>2, <2>3 DEF HeldOK, VersionOK, StatusDate
  <2>5. ClientOK(c)'
    BY <1>4, <1>5, <2>4 DEF ClientOK, Answers, HasRead
  <2> QED
    BY <1>1, <1>4, <1>5, <1>6, <2>1, <2>3, <2>5, ClientFrame
<1> QED
  BY <1>3, <1>7, <1>8

\* A generated license is stored: nobody holds a license before, so that the one delivered
\* is held as it is in the table; only its content may have been updated meanwhile.
LEMMA AddStep ==
    ASSUME IInv, NEW c \in Clients, Add(c)
    PROVE  IInv'
<1> DEFINE next == IF d[c].kind = "publication" THEN "file" ELSE "answer"
           r == [d[c] EXCEPT !.pc = next]
<1>1. /\ d[c].pc = "add" /\ lic' = d[c].lic /\ d' = [d EXCEPT ![c] = r]
      /\ missed' = (missed \/ d[c].version # row)
      /\ UNCHANGED <<row, file, add, doc, lsd, copy, cert, faults, clock>>
  BY Facts DEF Add
<1>2. /\ d[c] \in Delivery /\ DeliveryOK(d[c]) /\ ClientOK(c) /\ next \in {"file", "answer"}
      /\ lic = NoLicense /\ d[c].new /\ Dated(d[c].lic) /\ d[c].body = 0
      /\ d[c].lic.updated = Nil /\ d[c].kind # "fresh"
  BY <1>1, Facts DEF DeliveryOK
<1> HIDE DEF next
<1>3. r \in Delivery
  BY <1>2 DEF Delivery
<1>4. /\ r.pc = next /\ r.new = d[c].new /\ r.lic = d[c].lic /\ r.version = d[c].version
      /\ r.body = d[c].body /\ r.kind = d[c].kind
  BY <1>2 DEF Delivery
<1>5. d'[c] = r /\ d' \in [Clients -> Delivery] /\ \A x \in Clients \ {c} : d'[x] = d[x]
  BY <1>1, <1>3, Facts
<1> HIDE DEF r
<1>6. Dated(lic)' /\ lic' # NoLicense /\ lic' \in Licenses
  BY <1>1, <1>2, NoLicenseIsNone DEF Dated
<1>7. \A x \in Clients : ~Holds(x)' /\ (x # c => d[x].pc = "idle")
  <2>1. \A x \in Clients : x # c => d[x].pc = "idle"
    <3> SUFFICES ASSUME NEW x \in Clients, x # c PROVE d[x].pc = "idle"
      OBVIOUS
    <3>1. ~d[x].new /\ DeliveryOK(d[x]) /\ d[x] \in Delivery
      BY <1>2 DEF IInv, Base
    <3>2. d[x].pc \in {"idle", "add", "fetch", "content", "file", "answer"}
      BY <3>1 DEF Delivery
    <3> QED
      BY <1>2, <3>1, <3>2 DEF DeliveryOK, HasRead
  <2> QED
    BY <1>1, <1>2, <2>1 DEF IInv, Base, Holds
<1>8. DeliveryOK(d[c])'
  <2>1. Dated(d[c].lic)'
    BY <1>1, <1>2, <1>4, <1>5 DEF Dated
  <2> QED
    BY <1>1, <1>2, <1>4, <1>5, <1>6, <2>1 DEF DeliveryOK, HasRead
<1>9. \A x \in Clients \ {c} : DeliveryOK(d[x])' /\ ClientOK(x)'
  <2> SUFFICES ASSUME NEW x \in Clients \ {c} PROVE DeliveryOK(d[x])' /\ ClientOK(x)'
    OBVIOUS
  <2>1. d'[x] = d[x] /\ d[x].pc = "idle" /\ ~Holds(x)' /\ DeliveryOK(d[x])
    BY <1>5, <1>7 DEF IInv, Base
  <2> QED
    BY <1>1, <2>1 DEF DeliveryOK, ClientOK, Answers, HasRead, Dated
<1>10. doc = Nil /\ lsd.pc = "idle"
  BY <1>2 DEF IInv, Base, DocOK, UpdateOK, TypeOK, Update
<1>11. ClientOK(c)'
  <2>1. /\ BuiltDate(lic, cert)' \in 1..MaxTime
        /\ buildLicense(d[c])'.date <= BuiltDate(lic, cert)'
    <3>1. DateOf(lic)' <= BuiltDate(lic, cert)' /\ BuiltDate(lic, cert)' \in 1..MaxTime
      <4>1. cert' \in 0..MaxTime
        BY <1>1, Facts
      <4>2. lic' \in Licenses /\ lic'.updated = Nil
        BY <1>1, <1>2, <1>6
      <4>3. DateOf(lic') <= BuiltDate(lic', cert') /\ BuiltDate(lic', cert') \in 1..MaxTime
        BY <4>1, <4>2, BuiltDateIsLater
      <4> QED
        BY <4>3
    <3>2. buildLicense(d[c])'.date = DateOf(lic)'
      BY <1>1, <1>2, <1>4, <1>5 DEF buildLicense
    <3> QED
      BY <3>1, <3>2
  <2>2. HeldOK(d[c].lic.end, buildLicense(d[c]).date)'
    BY <1>1, <1>4, <1>5, <1>10, <2>1 DEF HeldOK
  <2>3. VersionOK(d[c].version, buildLicense(d[c]).date)'
    BY <1>1, <1>4, <1>5 DEF VersionOK
  <2> QED
    BY <1>2, <1>4, <1>5, <1>7, <2>2, <2>3 DEF ClientOK, Answers
<1>12. TypeOK'
  <2>1. \A x \in Clients : d'[x].pc \in {"idle", "add", "fetch", "content", "file", "answer"}
           /\ d'[x].kind \in Kinds
    BY <1>5 DEF Delivery
  <2>2. missed' \in BOOLEAN
    BY <1>1 DEF IInv, Base, TypeOK
  <2> QED
    BY <1>1, <1>6, <2>1, <2>2 DEF IInv, Base, TypeOK
<1>13. (\A x, y \in Clients : d[x].new /\ d[y].new => x = y)'
  BY <1>2, <1>4, <1>5 DEF IInv, Base
<1>14. Base'
  BY <1>1, <1>5, <1>6, <1>7, <1>8, <1>9, <1>10, <1>12, <1>13 DEF IInv, Base, DocOK, UpdateOK
<1>15. UpdateShows'
  BY <1>1, <1>10 DEF UpdateShows
<1> QED
  BY <1>9, <1>11, <1>14, <1>15 DEF IInv

-----------------------------------------------------------------------------
(* Updates of the tables *)

\* A step that changes the tables, and no delivery, keeps the invariant when it keeps what is
\* said of any license that may be held.
LEMMA TablesFrame ==
    ASSUME IInv, UNCHANGED <<d, copy, cert>>, TypeOK', clock <= clock', row <= row',
           lic = NoLicense <=> lic' = NoLicense,
           lic # NoLicense => Dated(lic)', DocOK', UpdateOK', UpdateShows',
           lic # NoLicense =>
              /\ BuiltDate(lic, cert) <= BuiltDate(lic, cert)'
              /\ \A end, date : date \in 0..MaxTime /\ HeldOK(end, date) => HeldOK(end, date)'
              /\ \A version, date :
                    date \in 0..MaxTime /\ date <= BuiltDate(lic, cert) /\ VersionOK(version, date)
                       => VersionOK(version, date)'
    PROVE  IInv'
<1>0. /\ clock \in Nat /\ clock' \in Nat /\ row \in Nat /\ row' \in Nat /\ cert \in 0..MaxTime
      /\ cert <= clock
  BY DEF IInv, Base, TypeOK
<1>1. ASSUME NEW c \in Clients PROVE DeliveryOK(d[c])'
  <2>1. d[c] \in Delivery /\ DeliveryOK(d[c]) /\ d'[c] = d[c] /\ d[c].version \in Nat
    BY LicenseDeliveryAssumption DEF IInv, Base, Delivery
  <2>2. Dated(d[c].lic) => Dated(d[c].lic)'
    BY <1>0, <2>1 DEF Dated, Licenses
  <2> QED
    BY <1>0, <2>1, <2>2 DEF DeliveryOK, HasRead
<1>2. Base'
  <2>1. lic' = NoLicense => \A c \in Clients : ~Holds(c)'
    BY DEF IInv, Base, Holds
  <2> QED
    BY <1>0, <1>1, <2>1 DEF IInv, Base
<1>3. ASSUME NEW c \in Clients PROVE ClientOK(c)'
  <2>1. /\ d[c] \in Delivery /\ copy[c] \in Copies /\ d'[c] = d[c] /\ copy'[c] = copy[c]
        /\ DeliveryOK(d[c]) /\ ClientOK(c) /\ clock \in 1..MaxTime
    BY DEF IInv, Base, TypeOK
  <2>2. CASE lic = NoLicense
    <3>1. ~Holds(c)' /\ ~HasRead(d[c]) /\ d[c].pc # "fetch"
      BY <2>1, <2>2 DEF IInv, Base, Holds, DeliveryOK
    <3> QED
      BY <2>1, <3>1 DEF ClientOK, Answers, HasRead
  <2>3. CASE lic # NoLicense
    <3>1. Holds(c)' => HeldOK(copy[c].end, copy[c].date)'
                       /\ VersionOK(copy[c].version, copy[c].date)'
      <4> SUFFICES ASSUME Holds(c)'
                   PROVE  HeldOK(copy[c].end, copy[c].date)'
                          /\ VersionOK(copy[c].version, copy[c].date)'
        OBVIOUS
      <4>1. /\ HeldOK(copy[c].end, copy[c].date) /\ VersionOK(copy[c].version, copy[c].date)
            /\ copy[c].date \in 0..MaxTime /\ copy[c].date <= BuiltDate(lic, cert)
        BY <2>1 DEF ClientOK, Holds, Copies, HeldOK
      <4> QED
        BY <2>1, <2>3, <4>1 DEF HeldOK, VersionOK
    <3>2. HasRead(d[c]) => /\ buildLicense(d[c])' = buildLicense(d[c])
                           /\ buildLicense(d[c]).date \in 0..MaxTime
      <4>1. buildLicense(d[c])' = buildLicense(d[c])
        BY <2>1 DEF buildLicense
      <4>2. HasRead(d[c]) => buildLicense(d[c]).date \in 1..MaxTime
        BY <1>0, <2>1, BuiltOK
      <4> QED
        BY <4>1, <4>2
    <3>3. HasRead(d[c]) => HeldOK(d[c].lic.end, buildLicense(d[c]).date)'
      BY <2>1, <2>3, <3>2 DEF ClientOK, HeldOK
    <3>4. d[c].pc \in {"file", "answer"} => VersionOK(d[c].version, buildLicense(d[c]).date)'
      BY <2>1, <2>3, <3>2 DEF ClientOK, HeldOK, VersionOK, HasRead
    <3>5. Answers(d[c])'
      <4>1. BuiltDate(lic, cert) \in Nat /\ BuiltDate(lic, cert)' \in Nat
        <5>1. Dated(lic) /\ Dated(lic)' /\ cert' \in 0..MaxTime
          BY <1>0, <2>3 DEF IInv, Base
        <5>2. BuiltDate(lic, cert) \in 1..MaxTime
          BY <1>0, <5>1, BuiltDateIsLater DEF Dated
        <5>3. BuiltDate(lic', cert') \in 1..MaxTime
          BY <5>1, BuiltDateIsLater DEF Dated
        <5> QED
          BY <5>2, <5>3, LicenseDeliveryAssumption
      <4>2. d[c].seen \in Nat
        BY <2>1, LicenseDeliveryAssumption DEF Delivery
      <4> QED
        BY <2>1, <2>3, <4>1, <4>2 DEF ClientOK, Answers, HasRead
    <3> QED
      BY <2>1, <3>1, <3>3, <3>4, <3>5 DEF ClientOK, HasRead
  <2> QED
    BY <2>2, <2>3
<1> QED
  BY <1>2, <1>3 DEF IInv

\* The dates in the tables.
LEMMA TableFacts ==
    ASSUME IInv
    PROVE  /\ doc \in 0..MaxTime /\ cert \in 0..MaxTime /\ clock \in 1..MaxTime /\ cert <= clock
           /\ row \in 1..MaxVersion /\ file \in 1..MaxVersion /\ row <= file /\ file <= row + 1
           /\ faults \in 0..MaxFaults /\ missed \in BOOLEAN /\ lsd \in Update
           /\ lic \in Licenses \cup {NoLicense}
           /\ DocOK /\ UpdateOK /\ UpdateShows
           /\ doc # Nil => lic # NoLicense /\ doc <= clock
           /\ lic # NoLicense =>
                 /\ Dated(lic)
                 /\ BuiltDate(lic, cert) \in 1..MaxTime /\ BuiltDate(lic, cert) <= clock
                 /\ DateOf(lic) \in 1..MaxTime /\ DateOf(lic) <= clock
                 /\ DateOf(lic) <= BuiltDate(lic, cert) /\ cert <= BuiltDate(lic, cert)
<1>1. /\ doc \in 0..MaxTime /\ cert \in 0..MaxTime /\ clock \in 1..MaxTime /\ cert <= clock
      /\ row \in 1..MaxVersion /\ file \in 1..MaxVersion /\ row <= file /\ file <= row + 1
      /\ faults \in 0..MaxFaults /\ missed \in BOOLEAN /\ lsd \in Update
      /\ lic \in Licenses \cup {NoLicense}
      /\ DocOK /\ UpdateOK /\ UpdateShows
      /\ lic # NoLicense => Dated(lic)
  BY DEF IInv, Base, TypeOK
<1>2. ASSUME lic # NoLicense
      PROVE  /\ BuiltDate(lic, cert) \in 1..MaxTime /\ BuiltDate(lic, cert) <= clock
             /\ DateOf(lic) \in 1..MaxTime /\ DateOf(lic) <= clock
             /\ DateOf(lic) <= BuiltDate(lic, cert) /\ cert <= BuiltDate(lic, cert)
  <2>1. /\ DateOf(lic) \in 1..MaxTime /\ BuiltDate(lic, cert) \in 1..MaxTime
        /\ DateOf(lic) <= BuiltDate(lic, cert) /\ cert <= BuiltDate(lic, cert)
        /\ BuiltDate(lic, cert) \in {DateOf(lic), cert}
        /\ DateOf(lic) \in {lic.issued, lic.updated}
    BY <1>1, <1>2, BuiltDateIsLater DEF Dated
  <2>2. lic.issued <= clock /\ lic.updated <= clock
    BY <1>1, <1>2 DEF Dated
  <2> QED
    BY <1>1, <2>1, <2>2
<1>3. doc # Nil => lic # NoLicense /\ doc <= clock
  BY <1>1, <1>2, LicenseDeliveryAssumption DEF DocOK
<1> QED
  BY <1>1, <1>2, <1>3

\* What every step that does not touch deliveries keeps of the type invariant.
LEMMA TablesType ==
    ASSUME IInv, UNCHANGED <<d, copy, cert>>,
           lic' \in Licenses \cup {NoLicense}, row' \in 1..MaxVersion, file' \in 1..MaxVersion,
           row' <= file', file' <= row' + 1, add' \in {"idle", "index", "touch"},
           doc' \in 0..MaxTime, lsd' \in Update, missed' \in BOOLEAN, faults' \in 0..MaxFaults,
           clock' \in 1..MaxTime
    PROVE  TypeOK'
BY DEF IInv, Base, TypeOK

\* The document takes the issue date of the license; nobody holds a stale one yet.
LEMMA CreateStep ==
    ASSUME IInv, CreateLicenseStatusDocument
    PROVE  IInv'
<1>1. /\ lic # NoLicense /\ doc = Nil /\ doc' = lic.issued
      /\ UNCHANGED <<lic, row, file, add, lsd, d, copy, cert, missed, faults, clock>>
  BY DEF CreateLicenseStatusDocument
<1>2. doc' \in 1..MaxTime /\ doc' <= DateOf(lic)
  BY <1>1, TableFacts, BuiltDateIsLater DEF Dated, Licenses
<1>3. TypeOK'
  <2>1. doc' \in 0..MaxTime
    BY <1>2, LicenseDeliveryAssumption
  <2> QED
    BY <1>1, <2>1, TablesType DEF IInv, Base, TypeOK
<1>4. Dated(lic)' /\ DocOK' /\ UpdateShows'
  BY <1>1, <1>2, TableFacts DEF Dated, DocOK, UpdateShows
<1>5. UpdateOK' /\ lsd.pc = "idle"
  BY <1>1, TableFacts DEF UpdateOK, Update
<1>6. \A end, date : HeldOK(end, date) => HeldOK(end, date)'
  BY <1>1, <1>5 DEF HeldOK
<1>7. \A version, date : VersionOK(version, date) => VersionOK(version, date)'
  BY <1>1 DEF VersionOK
<1>8. BuiltDate(lic, cert) <= BuiltDate(lic, cert)' /\ clock <= clock' /\ row <= row'
  BY <1>1, TableFacts
<1> QED
  BY <1>1, <1>3, <1>4, <1>5, <1>6, <1>7, <1>8, TablesFrame

\* The event takes its date; unless it is in a second that is already used, the date is
\* later than anything that is held.
LEMMA MakeEventStep ==
    ASSUME IInv, MakeEvent
    PROVE  IInv'
<1>1. PICK e \in Ends : lsd' = [pc |-> "patch", at |-> clock, end |-> e]
  BY DEF MakeEvent
<1>2. /\ doc # Nil /\ lsd.pc = "idle" /\ missed' = (missed \/ TooSoon)
      /\ UNCHANGED <<lic, row, file, add, doc, d, copy, cert, faults, clock>>
  BY DEF MakeEvent
<1>3. lsd' \in Update /\ lsd'.pc = "patch" /\ lsd'.at = clock /\ lsd'.end \in Ends
  BY <1>1, TableFacts DEF Update
<1>4. lic # NoLicense
  BY <1>2, TableFacts
<1>5. TypeOK'
  <2>1. missed' \in BOOLEAN
    BY <1>2, TableFacts
  <2> QED
    BY <1>2, <1>3, <2>1, TablesType DEF IInv, Base, TypeOK
<1>6. Dated(lic)' /\ DocOK'
  BY <1>2, <1>4, TableFacts DEF Dated, DocOK
<1>7. UpdateOK'
  BY <1>2, <1>3, TableFacts DEF UpdateOK
<1>8. UpdateShows'
  <2>1. BuiltDate(lic, cert)' = BuiltDate(lic, cert)
    BY <1>2
  <2>2. BuiltDate(lic, cert) \in Nat /\ clock \in Nat
    BY <1>4, TableFacts, LicenseDeliveryAssumption
  <2>3. ~missed' => ~(clock <= BuiltDate(lic, cert))
    BY <1>2 DEF TooSoon
  <2> HIDE DEF BuiltDate
  <2> QED
    BY <1>3, <2>1, <2>2, <2>3 DEF UpdateShows
<1>9. \A end, date : HeldOK(end, date) => HeldOK(end, date)'
  BY <1>2, <1>3 DEF HeldOK, StatusDate
<1>10. \A version, date : VersionOK(version, date) => VersionOK(version, date)'
  BY <1>2 DEF VersionOK
<1>11. BuiltDate(lic, cert) <= BuiltDate(lic, cert)' /\ clock <= clock' /\ row <= row'
  BY <1>2, <1>4, TableFacts
<1> QED
  BY <1>2, <1>4, <1>5, <1>6, <1>7, <1>8, <1>9, <1>10, <1>11, TablesFrame

\* The license row with a new date, and perhaps a new end.
LEMMA UpdatedType ==
    ASSUME NEW l \in Licenses, NEW e \in Ends, NEW t \in 0..MaxTime
    PROVE  /\ [l EXCEPT !.end = e, !.updated = t] \in Licenses
           /\ [l EXCEPT !.end = e, !.updated = t].updated = t
           /\ [l EXCEPT !.end = e, !.updated = t].issued = l.issued
           /\ [l EXCEPT !.updated = t] \in Licenses
           /\ [l EXCEPT !.updated = t].updated = t
           /\ [l EXCEPT !.updated = t].issued = l.issued
           /\ [l EXCEPT !.updated = t].end = l.end
<1> DEFINE Ts == 0..MaxTime
           Is == 1..MaxTime
<1>1. Licenses = [end : Ends, issued : Is, updated : Ts] /\ t \in Ts
  BY DEF Licenses
<1> HIDE DEF Ts, Is
<1> QED
  BY <1>1

\* An update dates the license by the clock, which is not before any date in the tables.
LEMMA UpdatedLicense ==
    ASSUME IInv, lic # NoLicense, clock' = clock, cert' = cert,
           lic' \in Licenses, lic'.issued = lic.issued, lic'.updated = clock
    PROVE  /\ lic' # NoLicense /\ Dated(lic)'
           /\ DateOf(lic)' = clock /\ BuiltDate(lic, cert)' = clock
<1> USE LicenseDeliveryAssumption
<1>1. lic \in Licenses /\ Dated(lic) /\ clock \in 1..MaxTime /\ cert \in 0..MaxTime
      /\ cert <= clock /\ lic.issued \in 1..MaxTime /\ lic.issued <= clock
  BY TableFacts DEF Dated, Licenses
<1>3. clock # Nil
  BY <1>1 DEF Nil
<1>4. /\ DateOf(lic') = clock /\ BuiltDate(lic', cert') \in {DateOf(lic'), cert'}
      /\ DateOf(lic') <= BuiltDate(lic', cert')
  BY <1>1, <1>3, BuiltDateIsLater
<1>5. BuiltDate(lic', cert') = clock
  BY <1>1, <1>4, LicenseDeliveryAssumption
<1>6. Dated(lic)'
  BY <1>1 DEF Dated
<1> QED
  BY <1>4, <1>5, <1>6, NoLicenseIsNone

\* The PATCH: what is held is older than the event (UpdateShows), and has the old end.
LEMMA UpdateLicenseStep ==
    ASSUME IInv, UpdateLicense
    PROVE  IInv'
<1>1. /\ lsd.pc = "patch" /\ lic' = [lic EXCEPT !.end = lsd.end, !.updated = clock]
      /\ lsd' = [lsd EXCEPT !.pc = "save"]
      /\ UNCHANGED <<row, file, add, doc, d, copy, cert, missed, faults, clock>>
  BY DEF UpdateLicense
<1>2. lsd \in Update /\ UpdateOK /\ doc # Nil /\ lsd.end \in Ends /\ 1 <= lsd.at /\ lsd.at <= clock
      /\ lic # NoLicense
  BY <1>1, TableFacts DEF UpdateOK
<1>3. lsd' \in Update /\ lsd'.pc = "save" /\ lsd'.at = lsd.at /\ lsd'.end = lsd.end
  BY <1>1, <1>2 DEF Update
<1>4. /\ lic' \in Licenses /\ lic' # NoLicense /\ Dated(lic)'
      /\ lic'.updated = clock /\ DateOf(lic)' = clock /\ BuiltDate(lic, cert)' = clock
  <2>1. lic \in Licenses /\ clock \in 0..MaxTime
    BY <1>2, TableFacts, LicenseDeliveryAssumption
  <2>2. lic' \in Licenses /\ lic'.updated = clock /\ lic'.issued = lic.issued
    BY <1>1, <1>2, <2>1, UpdatedType
  <2> QED
    BY <1>1, <1>2, <2>2, UpdatedLicense
<1> HIDE DEF BuiltDate, DateOf
<1>5. TypeOK'
  BY <1>1, <1>3, <1>4, TablesType DEF IInv, Base, TypeOK
<1>6. DocOK' /\ UpdateOK' /\ UpdateShows'
  BY <1>1, <1>2, <1>3, <1>4, TableFacts DEF DocOK, UpdateOK, UpdateShows
<1>7. ASSUME NEW end, NEW date \in 0..MaxTime, HeldOK(end, date)
      PROVE  HeldOK(end, date)'
  <2>1. date <= BuiltDate(lic, cert) /\ BuiltDate(lic, cert) \in Nat /\ clock \in Nat /\ date \in Nat
        /\ BuiltDate(lic, cert) <= clock /\ lsd.at \in Nat
    BY <1>2, <1>7, TableFacts, LicenseDeliveryAssumption DEF HeldOK, Update
  <2>2. ~missed => BuiltDate(lic, cert) < lsd.at
    BY <1>1, TableFacts DEF UpdateShows
  <2> QED
    BY <1>1, <1>2, <1>3, <1>4, <2>1, <2>2 DEF HeldOK
<1>8. ASSUME NEW version, NEW date \in 0..MaxTime, date <= BuiltDate(lic, cert),
             VersionOK(version, date)
      PROVE  VersionOK(version, date)'
  BY <1>1, <1>2, <1>4, <1>8, TableFacts, LicenseDeliveryAssumption DEF VersionOK
<1>9. BuiltDate(lic, cert) <= BuiltDate(lic, cert)' /\ clock <= clock' /\ row <= row'
  BY <1>1, <1>2, <1>4, TableFacts
<1> QED
  BY <1>1, <1>2, <1>4, <1>5, <1>6, <1>7, <1>8, <1>9, TablesFrame

\* The status document takes the date of the event: what the update has made stale is older.
LEMMA SaveStatusStep ==
    ASSUME IInv, SaveStatus
    PROVE  IInv'
<1>1. /\ lsd.pc = "save" /\ doc' = lsd.at /\ lsd' = NoUpdate
      /\ UNCHANGED <<lic, row, file, add, d, copy, cert, missed, faults, clock>>
  BY DEF SaveStatus
<1>2. /\ lsd \in Update /\ doc # Nil /\ 1 <= lsd.at /\ lsd.at <= clock /\ lic # NoLicense
      /\ lsd.at <= lic.updated /\ Dated(lic) /\ lsd.at \in 1..MaxTime
  BY <1>1, TableFacts DEF UpdateOK, Update
<1>3. lsd' \in Update /\ lsd'.pc = "idle"
  BY <1>1, LicenseDeliveryAssumption DEF Update, NoUpdate, Nil
<1>4. doc' # Nil /\ doc' <= DateOf(lic) /\ doc' \in 0..MaxTime
  <2>1. lic.updated # Nil /\ DateOf(lic) = lic.updated
    BY <1>2, TableFacts, BuiltDateIsLater, LicenseDeliveryAssumption DEF Nil, Dated, Licenses
  <2> QED
    BY <1>1, <1>2, <2>1, LicenseDeliveryAssumption DEF Nil
<1> HIDE DEF BuiltDate, DateOf
<1>5. TypeOK'
  BY <1>1, <1>3, <1>4, TablesType DEF IInv, Base, TypeOK
<1>6. DocOK' /\ UpdateOK' /\ UpdateShows' /\ Dated(lic)'
  BY <1>1, <1>2, <1>3, <1>4, TableFacts DEF DocOK, UpdateOK, UpdateShows, Dated
<1>7. ASSUME NEW end, NEW date \in 0..MaxTime, HeldOK(end, date)
      PROVE  HeldOK(end, date)'
  <2>1. StatusDate' \in 1..MaxTime /\ doc' <= StatusDate'
    <3>1. cert' \in 0..MaxTime
      BY <1>1, TableFacts
    <3> QED
      BY <1>4, <3>1, LicenseDeliveryAssumption DEF StatusDate, Nil
  <2> QED
    BY <1>1, <1>2, <1>3, <1>4, <1>7, <2>1, LicenseDeliveryAssumption DEF HeldOK
<1>8. \A version, date : VersionOK(version, date) => VersionOK(version, date)'
  BY <1>1 DEF VersionOK
<1>9. BuiltDate(lic, cert) <= BuiltDate(lic, cert)' /\ clock <= clock' /\ row <= row'
  BY <1>1, <1>2, TableFacts DEF BuiltDate
<1> QED
  BY <1>1, <1>2, <1>5, <1>6, <1>7, <1>8, <1>9, TablesFrame

\* An update that fails before the PATCH changes nothing; one that fails after it is missed.
LEMMA UpdateFailsStep ==
    ASSUME IInv, UpdateFails
    PROVE  IInv'
<1>1. /\ lsd.pc # "idle" /\ missed' = (missed \/ lsd.pc = "save") /\ lsd' = NoUpdate
      /\ faults' \in 0..MaxFaults
      /\ UNCHANGED <<lic, row, file, add, doc, d, copy, cert, clock>>
  BY TableFacts, LicenseDeliveryAssumption DEF UpdateFails
<1>2. lsd \in Update /\ doc # Nil /\ lic # NoLicense /\ Dated(lic)
  BY <1>1, TableFacts DEF UpdateOK
<1>3. lsd' \in Update /\ lsd'.pc = "idle"
  BY <1>1, LicenseDeliveryAssumption DEF Update, NoUpdate, Nil
<1>4. TypeOK'
  <2>1. missed' \in BOOLEAN
    BY <1>1, TableFacts
  <2> QED
    BY <1>1, <1>3, <2>1, TablesType DEF IInv, Base, TypeOK
<1>5. DocOK' /\ UpdateOK' /\ UpdateShows' /\ Dated(lic)'
  BY <1>1, <1>2, <1>3, TableFacts DEF DocOK, UpdateOK, UpdateShows, Dated
<1>6. \A end, date : HeldOK(end, date) => HeldOK(end, date)'
  BY <1>1, <1>2, <1>3 DEF HeldOK, StatusDate
<1>7. \A version, date : VersionOK(version, date) => VersionOK(version, date)'
  BY <1>1 DEF VersionOK
<1>8. BuiltDate(lic, cert) <= BuiltDate(lic, cert)' /\ clock <= clock' /\ row <= row'
  BY <1>1, <1>2, TableFacts
<1> QED
  BY <1>1, <1>2, <1>4, <1>5, <1>6, <1>7, <1>8, TablesFrame

\* The file, then the row: the row is never ahead of the file.  The clock.
LEMMA ContentStep ==
    ASSUME IInv, AddContent \/ UpdateIndex \/ AddContentFails \/ Tick
    PROVE  IInv'
<1>1. /\ UNCHANGED <<lic, doc, lsd, d, copy, cert>>
      /\ row' \in 1..MaxVersion /\ file' \in 1..MaxVersion /\ row' <= file' /\ file' <= row' + 1
      /\ row <= row' /\ clock <= clock' /\ clock' \in 1..MaxTime /\ faults' \in 0..MaxFaults
      /\ row' # row => add' = "touch"
      /\ add' \in {"idle", "index", "touch"}
  <2> USE LicenseDeliveryAssumption, TableFacts
  <2>1. CASE AddContent
    BY <2>1 DEF AddContent
  <2>2. CASE UpdateIndex
    BY <2>2 DEF UpdateIndex
  <2>3. CASE AddContentFails
    BY <2>3 DEF AddContentFails
  <2>4. CASE Tick
    <3>1. add \in {"idle", "index", "touch"}
      BY DEF IInv, Base, TypeOK
    <3> QED
      BY <2>4, <3>1 DEF Tick
  <2> QED
    BY <2>1, <2>2, <2>3, <2>4
<1>2. missed' \in BOOLEAN /\ (missed => missed') /\ (add = "touch" => missed' \/ add' = "touch")
  <2>1. CASE AddContent
    BY <2>1, TableFacts DEF AddContent
  <2>2. CASE UpdateIndex
    BY <2>2, TableFacts DEF UpdateIndex
  <2>3. CASE AddContentFails
    BY <2>3, TableFacts DEF AddContentFails
  <2>4. CASE Tick
    BY <2>4, TableFacts DEF Tick
  <2> QED
    BY <2>1, <2>2, <2>3, <2>4
<1>3. TypeOK'
  <2>1. lic' \in Licenses \cup {NoLicense} /\ doc' \in 0..MaxTime /\ lsd' \in Update
    BY <1>1, TableFacts
  <2> QED
    BY <1>1, <1>2, <2>1, TablesType
<1>4. lic # NoLicense => Dated(lic)'
  BY <1>1, TableFacts, LicenseDeliveryAssumption DEF Dated, Licenses
<1>5. DocOK' /\ UpdateShows'
  BY <1>1, <1>2, TableFacts DEF DocOK, UpdateShows
<1>6. UpdateOK'
  <2>1. lsd.at \in 0..MaxTime /\ clock \in 1..MaxTime
    BY TableFacts DEF Update
  <2> QED
    BY <1>1, <2>1, TableFacts, LicenseDeliveryAssumption DEF UpdateOK
<1>7. \A end, date : HeldOK(end, date) => HeldOK(end, date)'
  BY <1>1, <1>2 DEF HeldOK, StatusDate
<1>8. \A version, date : VersionOK(version, date) => VersionOK(version, date)'
  BY <1>1, <1>2 DEF VersionOK
<1>9. lic # NoLicense => BuiltDate(lic, cert) <= BuiltDate(lic, cert)'
  BY <1>1, TableFacts
<1> QED
  BY <1>1, <1>3, <1>4, <1>5, <1>6, <1>7, <1>8, <1>9, TablesFrame

\* The touch dates the license later than anything that is held, unless the second is used.
LEMMA TouchStep ==
    ASSUME IInv, TouchByContentID
    PROVE  IInv'
<1>1. /\ add = "touch" /\ lic' = IF lic = NoLicense THEN lic ELSE [lic EXCEPT !.updated = clock]
      /\ missed' = (missed \/ (lic # NoLicense /\ TooSoon) \/ lsd.pc # "idle")
      /\ add' = "idle" /\ UNCHANGED <<row, file, doc, lsd, d, copy, cert, faults, clock>>
  BY DEF TouchByContentID
<1>2. lic = NoLicense => lic' = NoLicense
  BY <1>1
<1>3. lic # NoLicense => lic' \in Licenses /\ lic'.updated = clock /\ lic'.issued = lic.issued
                         /\ lic'.end = lic.end
  <2> SUFFICES ASSUME lic # NoLicense
               PROVE  lic' \in Licenses /\ lic'.updated = clock /\ lic'.issued = lic.issued
                      /\ lic'.end = lic.end
    OBVIOUS
  <2>1. lic \in Licenses /\ clock \in 0..MaxTime /\ lic' = [lic EXCEPT !.updated = clock]
    BY <1>1, TableFacts, LicenseDeliveryAssumption
  <2>2. lic.end \in Ends
    BY <2>1 DEF Licenses
  <2> QED
    BY <2>1, <2>2, UpdatedType
<1>4. /\ doc \in 0..MaxTime /\ cert \in 0..MaxTime /\ clock \in 1..MaxTime /\ cert <= clock
      /\ lsd \in Update /\ row <= row' /\ clock <= clock' /\ UNCHANGED <<d, copy, cert>>
  BY <1>1, TableFacts
<1>5. missed' \in BOOLEAN /\ (~missed' => ~missed /\ lsd.pc = "idle" /\ (lic # NoLicense => ~TooSoon))
  BY <1>1, TableFacts
<1>6. UNCHANGED <<row, file, doc, lsd, faults, clock>> /\ add' = "idle"
  BY <1>1
<1>7. /\ lic # NoLicense => /\ lic' # NoLicense /\ Dated(lic)'
                            /\ DateOf(lic)' = clock /\ BuiltDate(lic, cert)' = clock
  BY <1>3, <1>4, <1>6, UpdatedLicense
<1>8. lic = NoLicense <=> lic' = NoLicense
  BY <1>2, <1>7
<1>9. TypeOK'
  BY <1>2, <1>3, <1>4, <1>5, <1>6, TableFacts, TablesType
<1>10. DocOK' /\ UpdateOK' /\ UpdateShows'
  <2>1. DocOK'
    BY <1>6, <1>7, TableFacts DEF DocOK
  <2>2. UpdateOK'
    <3>1. lsd.pc = "save" => lsd.at <= clock /\ lic # NoLicense
      BY TableFacts DEF UpdateOK
    <3> QED
      BY <1>3, <1>6, <3>1, TableFacts DEF UpdateOK
  <2>3. UpdateShows'
    BY <1>5, <1>6 DEF UpdateShows
  <2> QED
    BY <2>1, <2>2, <2>3
<1>11. lic # NoLicense => BuiltDate(lic, cert) <= BuiltDate(lic, cert)'
  BY <1>7, TableFacts
<1>12. ASSUME lic # NoLicense, NEW end, NEW date \in 0..MaxTime, HeldOK(end, date)
       PROVE  HeldOK(end, date)'
  <2>1. StatusDate' = StatusDate
    BY <1>4, <1>6 DEF StatusDate
  <2>2. date <= BuiltDate(lic, cert)'
    BY <1>7, <1>12, TableFacts, LicenseDeliveryAssumption DEF HeldOK
  <2> HIDE DEF BuiltDate, StatusDate
  <2> QED
    BY <1>3, <1>5, <1>6, <1>12, <2>1, <2>2 DEF HeldOK
<1>13. ASSUME lic # NoLicense, NEW version, NEW date \in 0..MaxTime, date <= BuiltDate(lic, cert)
       PROVE  VersionOK(version, date)'
  <2>1. ~missed' => ~(clock <= BuiltDate(lic, cert))
    BY <1>5, <1>13 DEF TooSoon
  <2>2. BuiltDate(lic, cert) \in Nat /\ clock \in Nat /\ date \in Nat
    BY <1>13, TableFacts, LicenseDeliveryAssumption
  <2> HIDE DEF BuiltDate
  <2> QED
    BY <1>7, <1>13, <2>1, <2>2 DEF VersionOK
<1> QED
  BY <1>4, <1>7, <1>8, <1>9, <1>10, <1>11, <1>12, <1>13, TablesFrame

\* A restart with a new certificate raises the dates of the license and of the document
\* alike, and drops what was under way.
LEMMA RestartStep ==
    ASSUME IInv, ReplaceCertificate
    PROVE  IInv'
<1>1. /\ cert = Nil /\ cert' = clock /\ d' = [c \in Clients |-> Idle] /\ lsd' = NoUpdate
      /\ add' = "idle" /\ missed' = (missed \/ lsd.pc = "save" \/ add = "touch")
      /\ UNCHANGED <<lic, row, file, doc, copy, faults, clock>>
  BY DEF ReplaceCertificate
<1>2. /\ doc \in 0..MaxTime /\ cert' \in 0..MaxTime /\ clock \in 1..MaxTime /\ row \in 1..MaxVersion
      /\ lic # NoLicense => Dated(lic)
  BY <1>1, TableFacts, LicenseDeliveryAssumption
<1>3. lsd' \in Update /\ lsd'.pc = "idle"
  BY <1>1, LicenseDeliveryAssumption DEF Update, NoUpdate, Nil
<1>4. Idle \in Delivery /\ ~Idle.new /\ Idle.pc = "idle" /\ DeliveryOK(Idle)' /\ Answers(Idle)'
  <2>1. Idle \in Delivery /\ ~Idle.new /\ Idle.pc = "idle" /\ row' \in Nat
    BY <1>1, <1>2, IdleOK
  <2> QED
    BY <2>1 DEF Idle, DeliveryOK, HasRead, Answers, NoLicense, Nil
<1>5. d' \in [Clients -> Delivery] /\ \A c \in Clients : d'[c] = Idle
  BY <1>1, <1>4
<1>6. TypeOK'
  <2>1. \A c \in Clients : d'[c].pc \in {"idle", "add", "fetch", "content", "file", "answer"}
           /\ d'[c].kind \in Kinds
    BY <1>5 DEF Delivery
  <2>2. missed' \in BOOLEAN
    BY <1>1 DEF IInv, Base, TypeOK
  <2> QED
    BY <1>1, <1>2, <1>3, <2>1, <2>2 DEF IInv, Base, TypeOK
<1>7. \A c \in Clients : DeliveryOK(d[c])'
  BY <1>4, <1>5 DEF DeliveryOK, HasRead, Dated
<1>8. DocOK' /\ UpdateOK' /\ UpdateShows' /\ (lic' # NoLicense => Dated(lic)')
  BY <1>1, <1>2, <1>3, TableFacts DEF DocOK, UpdateOK, UpdateShows, Dated
<1>9. Base'
  <2>1. lic' = NoLicense => \A c \in Clients : ~Holds(c)'
    BY <1>1 DEF IInv, Base, Holds
  <2>2. cert' <= clock' /\ copy' \in [Clients -> Copies]
    BY <1>1, <1>2 DEF IInv, Base
  <2>3. (\A x, y \in Clients : d[x].new /\ d[y].new => x = y)'
    BY <1>4, <1>5
  <2> QED
    BY <1>5, <1>6, <1>7, <1>8, <2>1, <2>2, <2>3 DEF Base
<1>10. ASSUME NEW c \in Clients, Holds(c)
       PROVE  HeldOK(copy[c].end, copy[c].date)' /\ VersionOK(copy[c].version, copy[c].date)'
  <2>1. lic # NoLicense /\ copy[c].date \in Nat
    BY <1>10, LicenseDeliveryAssumption DEF IInv, Base, Copies
  <2>2. HeldOK(copy[c].end, copy[c].date) /\ VersionOK(copy[c].version, copy[c].date)
    BY <1>10 DEF IInv, ClientOK
  <2>3. /\ BuiltDate(lic, cert) \in Nat /\ BuiltDate(lic, cert)' \in Nat
        /\ BuiltDate(lic, cert) <= BuiltDate(lic, cert)'
    <3>1. /\ DateOf(lic) <= BuiltDate(lic', cert') /\ BuiltDate(lic', cert') \in 1..MaxTime
      BY <1>1, <1>2, <2>1, BuiltDateIsLater DEF Dated
    <3>2. BuiltDate(lic, cert) = DateOf(lic)
      BY <1>1 DEF BuiltDate
    <3>3. BuiltDate(lic, cert) \in 1..MaxTime
      BY <2>1, TableFacts
    <3> QED
      BY <3>1, <3>2, <3>3, LicenseDeliveryAssumption
  <2>4. doc # Nil => StatusDate \in Nat /\ StatusDate' \in Nat /\ StatusDate <= StatusDate'
    <3>1. doc # Nil => StatusDate = doc
      BY <1>1 DEF StatusDate
    <3>2. doc # Nil => doc' <= StatusDate' /\ StatusDate' \in Nat /\ doc \in Nat
      BY <1>1, <1>2, LicenseDeliveryAssumption DEF StatusDate, Nil
    <3> QED
      BY <1>1, <3>1, <3>2
  <2>5. copy' = copy /\ lic' = lic /\ row' = row /\ doc' = doc
        /\ (~missed' => ~missed /\ lsd.pc # "save" /\ add # "touch")
    BY <1>1
  <2> HIDE DEF BuiltDate, StatusDate
  <2>6. HeldOK(copy[c].end, copy[c].date)'
    BY <1>3, <2>1, <2>2, <2>3, <2>4, <2>5 DEF HeldOK
  <2>7. VersionOK(copy[c].version, copy[c].date)'
    BY <2>1, <2>2, <2>3, <2>5 DEF VersionOK
  <2> QED
    BY <2>6, <2>7
<1>11. \A c \in Clients : ClientOK(c)'
  <2> SUFFICES ASSUME NEW c \in Clients PROVE ClientOK(c)'
    OBVIOUS
  <2>1. Holds(c)' <=> Holds(c)
    BY <1>1 DEF Holds
  <2> QED
    BY <1>4, <1>5, <1>10, <2>1 DEF ClientOK, HasRead, Answers
<1> QED
  BY <1>8, <1>9, <1>11 DEF IInv

-----------------------------------------------------------------------------
(* Theorems *)

\* The invariant holds at all times.
LEMMA Invariant == Spec => []IInv
<1>1. ASSUME IInv, [Next]_vars PROVE IInv'
  <2>1. ASSUME NEW c \in Clients, GenerateLicense(c) \/ GenerateProtectedPublication(c)
        PROVE  IInv'
    BY <1>1, <2>1, GenerateStep DEF GenerateLicense, GenerateProtectedPublication
  <2>2. ASSUME NEW c \in Clients, GetLicense(c) \/ GetProtectedPublication(c)
        PROVE  IInv'
    BY <1>1, <2>2, GetStep DEF GetLicense, GetProtectedPublication
  <2>3. ASSUME NEW c \in Clients, GetFreshLicense(c) \/ Deliver(c) \/ DeliveryFails(c)
        PROVE  IInv'
    BY <1>1, <2>3, GetFreshStep, AddStep, FetchStep, ReadContentStep, ReadFileStep, AnswerStep
       DEF Deliver
  <2>4. CASE CreateLicenseStatusDocument \/ MakeEvent \/ UpdateLicense \/ SaveStatus \/ UpdateFails
    BY <1>1, <2>4, CreateStep, MakeEventStep, UpdateLicenseStep, SaveStatusStep, UpdateFailsStep
  <2>5. CASE AddContent \/ UpdateIndex \/ TouchByContentID \/ AddContentFails
             \/ ReplaceCertificate \/ Tick
    BY <1>1, <2>5, ContentStep, TouchStep, RestartStep
  <2>6. CASE UNCHANGED vars
    <3>1. Base' /\ UpdateShows'
      BY <1>1, <2>6 DEF vars, IInv, Base, TypeOK, Holds, DeliveryOK, HasRead, Dated, DocOK,
                        UpdateOK, UpdateShows
    <3>2. ASSUME NEW c \in Clients PROVE ClientOK(c)'
      <4>1. ClientOK(c)
        BY <1>1 DEF IInv
      <4> QED
        BY <2>6, <4>1 DEF vars, ClientOK, Answers, HasRead, Holds, HeldOK, VersionOK, StatusDate,
                          buildLicense
    <3> QED
      BY <3>1, <3>2 DEF IInv
  <2> QED
    BY <1>1, <2>1, <2>2, <2>3, <2>4, <2>5, <2>6 DEF Next
<1> QED
  BY <1>1, InitIInv, PTL DEF Spec

\* The types hold, and a protected publication is never older than the one its license
\* describes, whatever AddContent does between the reads of a delivery and whatever fails.
THEOREM EmbeddedIsNotOlder == Spec => []EmbeddedNotOlder
<1>1. IInv => EmbeddedNotOlder
  <2> SUFFICES ASSUME IInv PROVE EmbeddedNotOlder
    OBVIOUS
  <2>1. TypeOK
    BY DEF IInv, Base
  <2>2. ASSUME NEW c \in Clients, d[c].body # 0 PROVE d[c].body >= d[c].version
    <3>1. DeliveryOK(d[c]) /\ d[c].body \in Nat /\ d[c].version \in Nat
      BY LicenseDeliveryAssumption DEF IInv, Base, Delivery
    <3> QED
      BY <2>2, <3>1 DEF DeliveryOK
  <2> QED
    BY <2>1, <2>2 DEF EmbeddedNotOlder
<1> QED
  BY <1>1, Invariant, PTL

\* The status document never promises a license newer than the one the License Server
\* builds, and a client that asked because of its date gets one at least as new.
THEOREM NeverAsksInVain == Spec => []NeverAskedInVain
<1>1. IInv => NeverAskedInVain
  <2> SUFFICES ASSUME IInv PROVE NeverAskedInVain
    OBVIOUS
  <2>1. doc # Nil => StatusDate <= BuiltDate(lic, cert)
    <3>1. doc # Nil => StatusDate \in {doc, cert}
      BY TableFacts, StatusDateIsLater
    <3> QED
      BY <3>1, TableFacts, LicenseDeliveryAssumption DEF DocOK
  <2>2. ASSUME NEW c \in Clients, d[c].pc = "answer", d[c].kind = "fresh"
        PROVE  buildLicense(d[c]).date >= d[c].seen
    <3>1. d[c] \in Delivery /\ DeliveryOK(d[c]) /\ ClientOK(c) /\ HasRead(d[c])
          /\ cert \in 0..MaxTime /\ clock \in 1..MaxTime
      BY <2>2, Facts DEF HasRead
    <3>2. ~d[c].new /\ d[c].seen <= BuiltDate(d[c].lic, cert)
      BY <2>2, <3>1 DEF DeliveryOK, ClientOK, Answers
    <3>3. buildLicense(d[c]).date = BuiltDate(d[c].lic, cert) /\ buildLicense(d[c]).date \in 1..MaxTime
      BY <3>1, <3>2, BuiltOK
    <3>4. d[c].seen \in 0..MaxTime
      BY <3>1 DEF Delivery
    <3> HIDE DEF BuiltDate, buildLicense
    <3> QED
      BY <3>2, <3>3, <3>4, LicenseDeliveryAssumption
  <2> QED
    BY <2>1, <2>2 DEF NeverAskedInVain
<1> QED
  BY <1>1, Invariant, PTL

\* Between updates, a copy whose end date is no longer the license's is older than the
\* status document says, unless the dates could not tell or the update failed half-way.
THEOREM StaleCopyIsAnnounced == Spec => []StaleIsAnnounced
<1>1. IInv => StaleIsAnnounced
  BY DEF IInv, ClientOK, HeldOK, StaleIsAnnounced
<1> QED
  BY <1>1, Invariant, PTL

\* When AddContent is not at work, a copy that describes another version of the publication
\* is older than the license row.
THEOREM StaleChecksumIsOutdated == Spec => []StaleChecksumIsOlder
<1>1. IInv => StaleChecksumIsOlder
  BY DEF IInv, ClientOK, VersionOK, StaleChecksumIsOlder
<1> QED
  BY <1>1, Invariant, PTL
-----------------------------------------------------------------------------
(* The algorithms of LicenseDocument, for every request and configuration  *)

\* A nonempty set of numbers has a least one.
LEMMA LeastNumber ==
    ASSUME NEW T, T \subseteq Nat, T # {}
    PROVE  \E x \in T : \A y \in T : x <= y
<1> DEFINE R == OpToRel(<, Nat)
<1>1. IsWellFoundedOn(R, Nat)
  BY NatLessThanWellFounded
<1>2. \A x, y \in Nat : x < y => <<x, y>> \in R
  BY DEF OpToRel
<1> HIDE DEF R
<1>3. PICK x \in T : \A y \in T : <<y, x>> \notin R
  BY <1>1, WFMin
<1>4. ASSUME NEW y \in T PROVE x <= y
  <2>1. x \in Nat /\ y \in Nat /\ ~(y < x)
    BY <1>2, <1>3
  <2> QED
    BY <2>1
<1> QED
  BY <1>4

\* appendDefaultLinks gives every default relation one link, the provider's, and no other
\* link has its relation.
LEMMA AppendedLinks ==
    ASSUME NEW S, NEW custom \in Seq(S), NEW defaults
    PROVE  LET links == appendDefaultLinks(custom, defaults) IN
           /\ \A rel \in defaults :
                 \E l \in links : {k \in links : k.rel = rel} = {l} /\ l.href = "default"
           /\ \A l \in links : /\ l = [at |-> l.at, rel |-> l.rel, href |-> l.href]
                               /\ l.at \in Nat
                               /\ l.href \in {"custom", "default"}
                               /\ l.rel \notin defaults => l.at \in 1..Len(custom)
                                                            /\ l.href = "custom"
                               /\ l.rel \in defaults => l.href = "default"
           /\ \A l, k \in links : l.at = k.at /\ l.rel = k.rel => l = k
           /\ \A l, k \in links : l.at = k.at /\ l.rel \notin defaults => l = k
<1> DEFINE links == appendDefaultLinks(custom, defaults)
           C(i) == [at |-> i, rel |-> custom[i], href |-> "custom"]
           D(rel) == [at |-> Len(custom) + 1, rel |-> rel, href |-> "default"]
           kept == {k \in DOMAIN custom : custom[k] \notin defaults}
<1>1. DOMAIN custom = 1..Len(custom) /\ Len(custom) \in Nat
  OBVIOUS
<1>2. /\ \A i \in kept : /\ C(i) \in links /\ C(i).at = i /\ C(i).rel = custom[i]
                         /\ C(i).href = "custom" /\ custom[i] \notin defaults
                         /\ i \in 1..Len(custom)
      /\ \A rel \in defaults : /\ D(rel) \in links /\ D(rel).at = Len(custom) + 1
                               /\ D(rel).rel = rel /\ D(rel).href = "default"
      /\ \A l \in links : \/ \E i \in kept : l = C(i)
                          \/ \E rel \in defaults : l = D(rel)
  BY <1>1 DEF appendDefaultLinks
<1>3. \A l \in links : l = [at |-> l.at, rel |-> l.rel, href |-> l.href]
  BY DEF appendDefaultLinks
<1> HIDE DEF links, C, D, kept
<1>4. \A l \in links : /\ l.at \in Nat
                       /\ l.href \in {"custom", "default"}
                       /\ l.rel \notin defaults => l.at \in 1..Len(custom)
                                                    /\ l.href = "custom"
                       /\ l.rel \in defaults => l.href = "default" /\ l = D(l.rel)
  <2> SUFFICES ASSUME NEW l \in links
               PROVE  /\ l.at \in Nat
                      /\ l.href \in {"custom", "default"}
                      /\ l.rel \notin defaults => l.at \in 1..Len(custom)
                                                   /\ l.href = "custom"
                      /\ l.rel \in defaults => l.href = "default" /\ l = D(l.rel)
    OBVIOUS
  <2>1. CASE \E i \in kept : l = C(i)
    BY <1>1, <1>2, <2>1
  <2>2. CASE \E rel \in defaults : l = D(rel)
    BY <1>1, <1>2, <2>2
  <2> QED
    BY <1>2, <2>1, <2>2
<1>5. ASSUME NEW rel \in defaults
      PROVE  \E l \in links : {k \in links : k.rel = rel} = {l} /\ l.href = "default"
  BY <1>2, <1>4
<1>6. \A l \in links : l.rel \notin defaults => l = C(l.at)
  BY <1>2
<1>7. \A l, k \in links : l.at = k.at /\ l.rel \notin defaults => l = k
  <2> SUFFICES ASSUME NEW l \in links, NEW k \in links, l.at = k.at, l.rel \notin defaults
               PROVE  l = k
    OBVIOUS
  <2>1. l.at \in 1..Len(custom)
    BY <1>4
  <2>2. k.rel \notin defaults
    <3> SUFFICES ASSUME k.rel \in defaults PROVE FALSE
      OBVIOUS
    <3>1. k.at = Len(custom) + 1
      BY <1>2, <1>4
    <3> QED
      BY <1>1, <2>1, <3>1
  <2> QED
    BY <1>6, <2>2
<1>8. \A l, k \in links : l.at = k.at /\ l.rel = k.rel => l = k
  BY <1>4, <1>7
<1> QED
  BY <1>3, <1>4, <1>5, <1>7, <1>8 DEF links

\* SetLicenseLinks owes nothing: the custom links of a request neither hide nor double a
\* default link, and the URL of the content is in exactly one publication link.
LEMMA LinksAreOwed ==
    ASSUME NEW S, NEW custom \in Seq(S), NEW defaults, NEW isURL
    PROVE  LinksOwed(SetLicenseLinks(custom, defaults, isURL), defaults, isURL)
<1> DEFINE links == appendDefaultLinks(custom, defaults)
           pubs  == {l \in links : l.rel = "publication"}
           first == {l \in pubs : isURL /\ \A k \in pubs : l.at <= k.at}
           loc   == [at |-> Len(custom) + 2, rel |-> "publication", href |-> "location"]
           set   == SetLicenseLinks(custom, defaults, isURL)
<1>1. /\ \A rel \in defaults :
            \E l \in links : {k \in links : k.rel = rel} = {l} /\ l.href = "default"
      /\ \A l \in links : /\ l = [at |-> l.at, rel |-> l.rel, href |-> l.href]
                          /\ l.at \in Nat
                          /\ l.href \in {"custom", "default"}
      /\ \A l, k \in links : l.at = k.at /\ l.rel = k.rel => l = k
  BY AppendedLinks
<1>2. set = (links \ first)
            \cup {[l EXCEPT !.href = "location"] : l \in first}
            \cup (IF isURL /\ pubs = {} THEN {loc} ELSE {})
  BY DEF SetLicenseLinks
<1>3. loc.rel = "publication" /\ loc.href = "location"
  OBVIOUS
<1>4. \A l \in links : l.href # "location"
  BY <1>1
<1> HIDE DEF links, loc, set
<1>5. CASE ~isURL
  <2>1. set = links
    BY <1>2, <1>5
  <2> QED
    BY <1>1, <1>5, <2>1 DEF LinksOwed, set
<1>6. CASE isURL /\ pubs = {}
  <2>1. set = links \cup {loc}
    BY <1>2, <1>6
  <2>2. ASSUME NEW rel \in defaults
        PROVE  \E l \in set : {k \in set : k.rel = rel} = {l} /\ l.href = "default"
    <3>1. PICK l \in links : {k \in links : k.rel = rel} = {l} /\ l.href = "default"
      BY <1>1
    <3>2. rel # "publication"
      BY <1>6, <3>1
    <3> QED
      BY <1>3, <2>1, <3>1, <3>2
  <2>3. {k \in set : k.href = "location"} = {loc} /\ loc \in set
    BY <1>3, <1>4, <2>1
  <2> QED
    BY <1>3, <2>2, <2>3 DEF LinksOwed, set
<1>7. CASE isURL /\ pubs # {}
  <2> DEFINE places == {l.at : l \in pubs}
  <2>1. PICK p \in pubs : \A k \in pubs : p.at <= k.at
    <3>1. places \subseteq Nat /\ places # {}
      BY <1>1, <1>7
    <3>2. PICK x \in places : \A y \in places : x <= y
      <4> HIDE DEF places
      <4> QED
        BY <3>1, LeastNumber
    <3> QED
      BY <3>2
  <2>2. first = {p}
    <3>1. p \in first
      BY <1>7, <2>1
    <3>2. ASSUME NEW l \in first PROVE l = p
      <4>1. l \in links /\ p \in links /\ l.rel = p.rel /\ l.at <= p.at /\ p.at <= l.at
        BY <2>1
      <4>2. l.at \in Nat /\ p.at \in Nat
        BY <1>1, <4>1
      <4> QED
        BY <1>1, <4>1, <4>2
    <3> QED
      BY <3>1, <3>2
  <2> DEFINE q == [p EXCEPT !.href = "location"]
  <2>3. q.rel = "publication" /\ q.href = "location"
    <3>1. p = [at |-> p.at, rel |-> p.rel, href |-> p.href] /\ p.rel = "publication"
      BY <1>1
    <3> QED
      BY <3>1
  <2>4. set = (links \ {p}) \cup {q}
    BY <1>2, <1>7, <2>2
  <2>5. p \in links /\ p.rel = "publication"
    OBVIOUS
  <2> HIDE DEF q, pubs, first
  <2>6. ASSUME NEW rel \in defaults
        PROVE  \E l \in set : /\ {k \in set : k.rel = rel} = {l}
                              /\ l.href = "default" \/ rel = "publication"
    <3>1. PICK l \in links : {k \in links : k.rel = rel} = {l} /\ l.href = "default"
      BY <1>1
    <3>2. CASE rel = "publication"
      <4>1. l = p
        BY <2>5, <3>1, <3>2
      <4>2. {k \in set : k.rel = rel} = {q} /\ q \in set
        BY <2>3, <2>4, <3>1, <3>2, <4>1
      <4> QED
        BY <3>2, <4>2
    <3>3. CASE rel # "publication"
      <4>1. {k \in set : k.rel = rel} = {l} /\ l \in set
        BY <2>3, <2>4, <2>5, <3>1, <3>3
      <4> QED
        BY <3>1, <4>1
    <3> QED
      BY <3>2, <3>3
  <2>7. {k \in set : k.href = "location"} = {q} /\ q \in set
    BY <1>4, <2>3, <2>4
  <2> QED
    BY <1>7, <2>3, <2>6, <2>7 DEF LinksOwed, set
<1> QED
  BY <1>5, <1>6, <1>7

\* encryptFields lists every field it has encrypted, wherever it stops.
LEMMA FieldsAreOwed ==
    ASSUME NEW S, NEW listed \in Seq(S)
    PROVE  FieldsOwed(encryptFields(listed), listed)
<1> DEFINE bad == {i \in DOMAIN listed : listed[i] \notin Fields}
           n   == Len(listed)
<1>1. n \in Nat /\ DOMAIN listed = 1..n
  OBVIOUS
<1>2. CASE bad = {}
  <2>1. encryptFields(listed) = [listed |-> listed, sealed |-> listed]
    BY <1>2 DEF encryptFields
  <2> QED
    BY <2>1 DEF FieldsOwed
<1>3. CASE bad # {}
  <2> DEFINE stop == CHOOSE i \in bad : \A k \in bad : i <= k
             moved == [listed EXCEPT ![stop] = Last(listed)]
  <2>1. stop \in 1..n /\ stop \in bad
    <3>1. bad \subseteq Nat
      BY <1>1
    <3>2. \E i \in bad : \A k \in bad : i <= k
      BY <1>3, <3>1, LeastNumber
    <3> QED
      BY <1>1, <3>2
  <2>2. encryptFields(listed) = [listed |-> Front(moved), sealed |-> SubSeq(listed, 1, stop - 1)]
    BY <1>3 DEF encryptFields
  <2>3. ~(\A i \in DOMAIN listed : listed[i] \in Fields)
    BY <2>1
  <2> HIDE DEF stop, bad
  <2>4. moved \in Seq(S) /\ Len(moved) = n /\ \A i \in 1..n : i # stop => moved[i] = listed[i]
    <3>1. Last(listed) \in S
      BY <1>1, <2>1 DEF Last
    <3> QED
      BY <1>1, <2>1, <3>1
  <2> HIDE DEF moved
  <2>5. /\ DOMAIN Front(moved) = 1..(n - 1)
        /\ \A i \in 1..(n - 1) : Front(moved)[i] = moved[i]
    BY <1>1, <2>1, <2>4 DEF Front
  <2> DEFINE sealed == SubSeq(listed, 1, stop - 1)
  <2>6. /\ DOMAIN sealed = 1..(stop - 1)
        /\ \A i \in 1..(stop - 1) : sealed[i] = listed[i]
    BY <1>1, <2>1
  <2> HIDE DEF sealed, n
  <2>7. \A i \in DOMAIN sealed : /\ i \in DOMAIN Front(moved)
                                 /\ Front(moved)[i] = sealed[i]
    BY <1>1, <2>1, <2>4, <2>5, <2>6
  <2>8. ToSet(sealed) \subseteq ToSet(Front(moved))
    BY <2>7, Zenon DEF ToSet
  <2> QED
    BY <2>2, <2>3, <2>8 DEF FieldsOwed, sealed
<1> QED
  BY <1>2, <1>3

\* Every delivered license has the links and the encrypted fields it is owed, for every
\* configuration and every partial license (SetLicenseLinks, encryptFields).
THEOREM DocumentIsOwed == Spec => []DeliveredDocument
<1>1. DeliveredDocument
  <2> SUFFICES ASSUME NEW c \in Clients, NEW f \in Configs
               PROVE  LET asked == Partial(d[c], f) IN
                      /\ LinksOwed(SetLicenseLinks(asked.links, f.rels, f.isURL), f.rels, f.isURL)
                      /\ FieldsOwed(encryptFields(asked.fields), asked.fields)
    BY DEF DeliveredDocument
  <2> DEFINE asked == Partial(d[c], f)
  <2>1. \E S : asked.links \in Seq(S)
    <3>1. <<>> \in Seq({})
      OBVIOUS
    <3> QED
      BY <3>1, ConfigsAssumption DEF Partial
  <2>2. \E S : asked.fields \in Seq(S)
    <3>1. <<"name", "email">> \in Seq({"name", "email"})
      OBVIOUS
    <3> QED
      BY <3>1, ConfigsAssumption DEF Partial
  <2> HIDE DEF asked
  <2>3. LinksOwed(SetLicenseLinks(asked.links, f.rels, f.isURL), f.rels, f.isURL)
    BY <2>1, LinksAreOwed
  <2>4. FieldsOwed(encryptFields(asked.fields), asked.fields)
    BY <2>2, FieldsAreOwed
  <2> QED
    BY <2>3, <2>4 DEF asked
<1> QED
  BY <1>1, PTL

=============================================================================
