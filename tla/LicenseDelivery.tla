--------------------------- MODULE LicenseDelivery ---------------------------
(***************************************************************************)
(* How a license reaches a client, and how the client learns that its copy *)
(* is out of date: GenerateLicense, GetLicense and their variants that     *)
(* return a protected publication on the License Server, GetFreshLicense   *)
(* on the Status Server, interleaved with the updates of the license (a    *)
(* renewal, a return or a revocation on the Status Server, which PATCHes   *)
(* the License Server) and of the publication (AddContent).                *)
(*                                                                         *)
(* A delivery reads the license row, the content row and the stored file   *)
(* one after the other.  A client compares the date of its copy with the   *)
(* one of the status document.  Dates are whole seconds, so an update may  *)
(* be too close to another one to show: missed records the cases in which  *)
(* the dates cannot tell.  The handlers that write the two tables are      *)
(* modelled in full in StatusServer, LicenseServer and Publication; here   *)
(* an update of one license by the Status Server is one request at a time. *)
(***************************************************************************)
EXTENDS LicenseDocument, FiniteSets

CONSTANTS
    Clients,    \* reading systems, or the provider on their behalf
    Ends,       \* end dates of the license
    Configs,    \* configurations: the default links of the server, whether the locations
                \* of contents are URLs, and what links and encrypted fields the
                \* provider puts into its partial licenses
    MaxFaults,  \* bound on the calls that fail
    MaxVersion, \* bound on the versions of the publication
    MaxTime     \* bound on the clock

ASSUME LicenseDeliveryAssumption ==
    MaxFaults \in Nat /\ MaxVersion \in Nat \ {0} /\ MaxTime \in Nat \ {0}

\* A partial license is a JSON document: its links and encrypted fields are lists of names.
ASSUME ConfigsAssumption ==
    \A f \in Configs : f.links \in Seq(STRING) /\ f.fields \in Seq(STRING)

VARIABLES
    lic,      \* the row of the license, or NoLicense
    row,      \* the version of the publication in the content table
    file,     \* the version in the storage
    add,      \* where AddContent stands: "idle", "index" or "touch"
    doc,      \* updated.license in the row of the status document, or Nil
    lsd,      \* the update the Status Server is serving
    d,        \* d[c]: the delivery to client c under way
    copy,     \* copy[c]: the license c holds, or NoCopy
    cert,     \* the configured date of the certificate, or Nil
    missed,   \* whether an update happened that the dates cannot show
    faults,   \* how many calls have failed
    clock

vars == <<lic, row, file, add, doc, lsd, d, copy, cert, missed, faults, clock>>

NoLicense == [end |-> Nil, issued |-> Nil, updated |-> Nil]
Licenses == [end : Ends, issued : 1..MaxTime, updated : 0..MaxTime]

Update == [pc : {"idle", "patch", "save"}, at : 0..MaxTime, end : Ends \cup {Nil}]
NoUpdate == [pc |-> "idle", at |-> Nil, end |-> Nil]

\* kind: what is asked for; pc: the next call; known: whether the Status Server had the
\* document; seen: the date in the status document that made the client ask.
Kinds == {"license", "publication", "fresh"}
Idle == [pc |-> "idle", kind |-> "license", new |-> FALSE, lic |-> NoLicense, version |-> 0,
         body |-> 0, known |-> TRUE, seen |-> Nil]
NoCopy == [end |-> Nil, date |-> Nil, version |-> 0]

\* One type invariant for the module.
TypeOK ==
    /\ lic \in Licenses \cup {NoLicense}
    /\ row \in 1..MaxVersion /\ file \in 1..MaxVersion
    /\ row <= file /\ file <= row + 1
    /\ add \in {"idle", "index", "touch"}
    /\ doc \in 0..MaxTime
    /\ lsd \in Update
    /\ \A c \in Clients :
          /\ d[c].pc \in {"idle", "add", "fetch", "content", "file", "answer"}
          /\ d[c].kind \in Kinds
          /\ copy[c].date \in 0..MaxTime /\ copy[c].end \in Ends \cup {Nil}
    /\ cert \in 0..MaxTime
    /\ missed \in BOOLEAN
    /\ faults \in 0..MaxFaults
    /\ clock \in 1..MaxTime

\* The date in the status document, as the Status Server reads it from its table.
StatusDate == IF doc = Nil THEN Nil ELSE IF cert # Nil /\ doc < cert THEN cert ELSE doc

-----------------------------------------------------------------------------
(* Deliveries.  A definition X_bug that stands before a definition X is a  *)
(* mutated form of it; the specification uses none of them.                *)

\* buildLicense reads the content row.  A license that is being generated has its issue
\* date already, and no row yet that AddContent could touch.
Generate(c, kind) ==
    \E e \in Ends :
       /\ lic = NoLicense /\ d[c].pc = "idle"
       /\ \A x \in Clients : ~d[x].new   \* one license in the model
       /\ d' = [d EXCEPT ![c] = [Idle EXCEPT !.pc = "add", !.kind = kind, !.new = TRUE,
                                    !.version = row,
                                    !.lic = [end |-> e, issued |-> clock, updated |-> Nil]]]
       /\ UNCHANGED <<lic, row, file, add, doc, lsd, copy, cert, missed, faults, clock>>

GenerateLicense(c) == Generate(c, "license")
GenerateProtectedPublication(c) == Generate(c, "publication")

\* The license is stored.  When its content has been updated meanwhile, the license is
\* delivered with the old checksum and no later date will show it.
Add(c) ==
    /\ d[c].pc = "add"
    /\ lic' = d[c].lic
    /\ d' = [d EXCEPT ![c].pc = IF d[c].kind = "publication" THEN "file" ELSE "answer"]
    /\ missed' = (missed \/ d[c].version # row)
    /\ UNCHANGED <<row, file, add, doc, lsd, copy, cert, faults, clock>>

\* notifyLsdServer, sooner, later or never: the document takes the issue date.
CreateLicenseStatusDocument ==
    /\ lic # NoLicense /\ doc = Nil
    /\ doc' = lic.issued
    /\ UNCHANGED <<lic, row, file, add, lsd, d, copy, cert, missed, faults, clock>>

\* The license row is read.
Get(c, kind) ==
    /\ lic # NoLicense /\ d[c].pc = "idle"
    /\ d' = [d EXCEPT ![c] = [Idle EXCEPT !.pc = "content", !.kind = kind, !.lic = lic]]
    /\ UNCHANGED <<lic, row, file, add, doc, lsd, copy, cert, missed, faults, clock>>

GetLicense(c) == Get(c, "license")
GetProtectedPublication(c) == Get(c, "publication")

\* A client whose copy is older than its status document says asks for a fresh license.
\* GetFreshLicense reads the document and goes on without one; it gets the user data from
\* the CMS.
GetFreshLicense(c) ==
    /\ lic # NoLicense /\ d[c].pc = "idle"
    /\ copy[c] # NoCopy /\ (doc # Nil => copy[c].date < StatusDate)
    /\ d' = [d EXCEPT ![c] = [Idle EXCEPT !.pc = "fetch", !.kind = "fresh",
                                 !.known = (doc # Nil), !.seen = StatusDate]]
    /\ UNCHANGED <<lic, row, file, add, doc, lsd, copy, cert, missed, faults, clock>>

\* fetchLicense sends the partial license made of the user data to GetLicense, which reads
\* the license row, perhaps after another update.
fetchLicense(c) ==
    /\ d[c].pc = "fetch"
    /\ d' = [d EXCEPT ![c].pc = "content", ![c].lic = lic]
    /\ UNCHANGED <<lic, row, file, add, doc, lsd, copy, cert, missed, faults, clock>>

\* buildLicense reads the content row.
ReadContent(c) ==
    /\ d[c].pc = "content"
    /\ d' = [d EXCEPT ![c].version = row,
                      ![c].pc = IF d[c].kind = "publication" THEN "file" ELSE "answer"]
    /\ UNCHANGED <<lic, row, file, add, doc, lsd, copy, cert, missed, faults, clock>>

\* buildProtectedPublication reads the stored file and adds the license to it.
buildProtectedPublication(c) ==
    /\ d[c].pc = "file"
    /\ d' = [d EXCEPT ![c].body = file, ![c].pc = "answer"]
    /\ UNCHANGED <<lic, row, file, add, doc, lsd, copy, cert, missed, faults, clock>>

\* The license buildLicense has made.  The date is only raised for a license that existed.
buildLicense(r) ==
    [end |-> r.lic.end,
     date |-> IF r.new THEN DateOf(r.lic) ELSE BuiltDate(r.lic, cert),
     version |-> r.version]

\* What a client keeps: an answer that begins with 404 is not a license, although the
\* license of an unknown status document follows it, before GetFreshLicense panics.
AnswerTo(r, c) == IF r.known THEN buildLicense(r) ELSE copy[c]

Answer(c) ==
    /\ d[c].pc = "answer"
    /\ copy' = [copy EXCEPT ![c] = AnswerTo(d[c], c)]
    /\ d' = [d EXCEPT ![c] = Idle]
    /\ UNCHANGED <<lic, row, file, add, doc, lsd, cert, missed, faults, clock>>

\* A call of a delivery fails and the client is told so; a new license may be stored.
DeliveryFails(c) ==
    /\ faults < MaxFaults /\ d[c].pc # "idle"
    /\ faults' = faults + 1
    /\ d' = [d EXCEPT ![c] = Idle]
    /\ UNCHANGED <<lic, row, file, add, doc, lsd, copy, cert, missed, clock>>

-----------------------------------------------------------------------------
(* Updates of the license and of the publication.                          *)

\* An update in the second of an earlier date, or of the certificate's, does not show.
TooSoon == clock <= BuiltDate(lic, cert)

\* LendingRenewal, LendingReturn, LendingCancellation: the event takes its date ...
MakeEvent ==
    \E e \in Ends :
       /\ doc # Nil /\ lsd.pc = "idle" /\ e # lic.end
       /\ lsd' = [pc |-> "patch", at |-> clock, end |-> e]
       /\ missed' = (missed \/ TooSoon)
       /\ UNCHANGED <<lic, row, file, add, doc, d, copy, cert, faults, clock>>

\* ... the License Server is told (updateLicense) ...
UpdateLicense ==
    /\ lsd.pc = "patch"
    /\ lic' = [lic EXCEPT !.end = lsd.end, !.updated = clock]
    /\ lsd' = [lsd EXCEPT !.pc = "save"]
    /\ UNCHANGED <<row, file, add, doc, d, copy, cert, missed, faults, clock>>

SaveStatus_dateLost ==
    /\ lsd.pc = "save"
    /\ lsd' = NoUpdate
    /\ UNCHANGED <<lic, row, file, add, doc, d, copy, cert, missed, faults, clock>>

\* ... and the status document takes the date of the event.
SaveStatus ==
    /\ lsd.pc = "save"
    /\ doc' = lsd.at
    /\ lsd' = NoUpdate
    /\ UNCHANGED <<lic, row, file, add, d, copy, cert, missed, faults, clock>>

\* The PATCH or the last write fails; after the PATCH nothing tells the clients.
UpdateFails ==
    /\ faults < MaxFaults /\ lsd.pc # "idle"
    /\ faults' = faults + 1
    /\ missed' = (missed \/ lsd.pc = "save")
    /\ lsd' = NoUpdate
    /\ UNCHANGED <<lic, row, file, add, doc, d, copy, cert, clock>>

AddContent_rowFirst ==
    /\ add = "idle" /\ row < MaxVersion
    /\ row' = row + 1
    /\ add' = "index"
    /\ UNCHANGED <<lic, file, doc, lsd, d, copy, cert, missed, faults, clock>>

\* AddContent of a new version of the publication: the file is stored first ...
AddContent ==
    /\ add = "idle" /\ row < MaxVersion
    /\ file' = row + 1
    /\ add' = "index"
    /\ UNCHANGED <<lic, row, doc, lsd, d, copy, cert, missed, faults, clock>>

\* ... then the content row ...
UpdateIndex ==
    /\ add = "index"
    /\ row' = file
    /\ add' = "touch"
    /\ UNCHANGED <<lic, file, doc, lsd, d, copy, cert, missed, faults, clock>>

TouchByContentID_skipped ==
    /\ add = "touch"
    /\ add' = "idle"
    /\ UNCHANGED <<lic, row, file, doc, lsd, d, copy, cert, missed, faults, clock>>

\* ... and the licenses of the content take the current date.  The Status Server is not
\* told: an update between its event and its PATCH takes a date that the copies delivered
\* since this touch already have.
TouchByContentID ==
    /\ add = "touch"
    /\ lic' = IF lic = NoLicense THEN lic ELSE [lic EXCEPT !.updated = clock]
    /\ missed' = (missed \/ (lic # NoLicense /\ TooSoon) \/ lsd.pc # "idle")
    /\ add' = "idle"
    /\ UNCHANGED <<row, file, doc, lsd, d, copy, cert, faults, clock>>

\* A call of AddContent fails.  After the row has been updated nothing dates the change;
\* before, the storage holds a file the row does not describe, until the next update.
AddContentFails ==
    /\ faults < MaxFaults /\ add # "idle"
    /\ faults' = faults + 1
    /\ missed' = (missed \/ add = "touch")
    /\ add' = "idle"
    /\ UNCHANGED <<lic, row, file, doc, lsd, d, copy, cert, clock>>

\* Both servers restart with a new certificate and its date; requests under way are lost.
ReplaceCertificate ==
    /\ cert = Nil
    /\ cert' = clock
    /\ d' = [c \in Clients |-> Idle]
    /\ lsd' = NoUpdate /\ add' = "idle"
    /\ missed' = (missed \/ lsd.pc = "save" \/ add = "touch")
    /\ UNCHANGED <<lic, row, file, doc, copy, faults, clock>>

Tick ==
    /\ clock < MaxTime
    /\ clock' = clock + 1
    /\ UNCHANGED <<lic, row, file, add, doc, lsd, d, copy, cert, missed, faults>>

-----------------------------------------------------------------------------

Init ==
    /\ lic = NoLicense
    /\ row = 1 /\ file = 1 /\ add = "idle"
    /\ doc = Nil /\ lsd = NoUpdate
    /\ d = [c \in Clients |-> Idle]
    /\ copy = [c \in Clients |-> NoCopy]
    /\ cert = Nil
    /\ missed = FALSE /\ faults = 0 /\ clock = 1

Deliver(c) ==
    \/ Add(c) \/ fetchLicense(c) \/ ReadContent(c)
    \/ buildProtectedPublication(c) \/ Answer(c)

Next ==
    \/ \E c \in Clients :
          \/ GenerateLicense(c) \/ GenerateProtectedPublication(c)
          \/ GetLicense(c) \/ GetProtectedPublication(c) \/ GetFreshLicense(c)
          \/ Deliver(c) \/ DeliveryFails(c)
    \/ CreateLicenseStatusDocument
    \/ MakeEvent \/ UpdateLicense \/ SaveStatus \/ UpdateFails
    \/ AddContent \/ UpdateIndex \/ TouchByContentID \/ AddContentFails
    \/ ReplaceCertificate \/ Tick

Spec == Init /\ [][Next]_vars

\* Requests end, and a client that learns from the status document that its copy is out of
\* date asks for a fresh one.
FairSpec ==
    /\ Spec
    /\ WF_vars(UpdateLicense) /\ WF_vars(SaveStatus)
    /\ \A c \in Clients : WF_vars(Deliver(c)) /\ SF_vars(doc # Nil /\ GetFreshLicense(c))

-----------------------------------------------------------------------------

Holds(c) == copy[c] # NoCopy

\* The date in the status document never runs ahead of the license: the event is dated
\* before the PATCH, and both servers raise dates to the one of the certificate alike.  So
\* what a client gets because a status document was newer than its copy is at least as new
\* as that document, whatever updates, touches or restarts came in between; otherwise
\* every client would fetch its license again for ever.
NeverAskedInVain ==
    /\ doc # Nil => StatusDate <= BuiltDate(lic, cert)
    /\ \A c \in Clients :
          d[c].pc = "answer" /\ d[c].kind = "fresh" => buildLicense(d[c]).date >= d[c].seen

\* While no update is under way, every copy with an end date that is not the license's any
\* more is older than the status document says: its client will fetch a fresh license.
StaleIsAnnounced ==
    lsd.pc = "idle" /\ ~missed /\ doc # Nil =>
        \A c \in Clients :
           Holds(c) /\ copy[c].end # lic.end => copy[c].date < StatusDate

\* AddContent writes the content row before it touches the licenses, so that a license
\* built from the old row, before or between the two writes, has an older date than the
\* row of the license, which tells a provider that a new one is due.
StaleChecksumIsOlder ==
    add = "idle" /\ ~missed =>
        \A c \in Clients :
           Holds(c) /\ copy[c].version # row => copy[c].date < BuiltDate(lic, cert)

\* A protected publication is never older than the one its license describes: deliveries
\* read the row before the file, AddContent writes the file before the row.
EmbeddedNotOlder ==
    /\ TypeOK
    /\ \A c \in Clients : d[c].body # 0 => d[c].body >= d[c].version

\* The partial license of a request: initPartialLicense has no links and two fields.
Partial(r, f) ==
    IF r.kind = "fresh" THEN [links |-> <<>>, fields |-> <<"name", "email">>]
    ELSE [links |-> f.links, fields |-> f.fields]

\* Whatever the configuration, a delivered license has the links that the server and the
\* content owe it (the provider's custom links never hide or double a default one), and
\* lists the fields that it has encrypted.
DeliveredDocument ==
    \A c \in Clients : d[c].pc = "answer" =>
       \A f \in Configs :
          LET asked == Partial(d[c], f) IN
          /\ LinksOwed(SetLicenseLinks(asked.links, f.rels, f.isURL), f.rels, f.isURL)
          /\ FieldsOwed(encryptFields(asked.fields), asked.fields)

\* A client that follows its status document ends up with the end date of the license.
CopiesCatchUp ==
    \A c \in Clients : Holds(c) ~> (missed \/ copy[c].end = lic.end)
=============================================================================
