---------------------------- MODULE LicenseServer ----------------------------
(***************************************************************************)
(* The license table of the License Server (lcpserver): the generation of  *)
(* licenses, the asynchronous notification of the Status Server and the    *)
(* partial updates (PATCH) the Status Server and the provider send.        *)
(*                                                                         *)
(* A PATCH reads the row of a license, changes the copy and writes the     *)
(* properties back in a second statement; a worker stands for the          *)
(* goroutine that serves it.  The goroutine of a notification outlives the *)
(* request that generated the license, and nothing restarts it.            *)
(* Both statements that date a license take the time before they are       *)
(* executed, so two of them may be executed in the other order.            *)
(*                                                                         *)
(* A license is cut down to one property of each kind a PATCH knows:       *)
(* content stands for the texts (user id, provider, content id; empty      *)
(* means absent), print for the numbers (print, copy; negative means       *)
(* unconstrained) and end for the dates (start, end; the zero time means   *)
(* unconstrained).                                                         *)
(***************************************************************************)
EXTENDS Integers

CONSTANTS
    Licenses,   \* license ids newUUID may draw
    Contents,   \* ids of the encrypted publications of the content table
    Workers,    \* goroutines that may serve a PATCH at the same time
    Adders,     \* goroutines that may serve AddContent of a known content at the same time
    Ends,       \* end dates, later than the zero time
    Nil,        \* a nil pointer: an absent property, an unconstrained right, no row
    Notifies,   \* whether the configuration holds the public URL of a Status Server
    Failures,   \* whether database, network and process failures happen
    MaxPrint,   \* bound on the print right
    MaxTime     \* bound on the clock

ASSUME LicenseServerAssumption ==
    /\ Ends \subseteq Nat \ {0}
    /\ Nil \notin Int /\ Nil \notin Contents
    /\ Notifies \in BOOLEAN /\ Failures \in BOOLEAN
    /\ MaxPrint \in Nat /\ MaxTime \in Nat

VARIABLES
    lic,      \* the license table
    doc,      \* doc[l]: the end date in the Status Server's document of l, once created
    notif,    \* notif[l]: the goroutine notifyLsdServer of license l
    late,     \* licenses whose notification was given up but may still be processed
    u,        \* u[w]: the PATCH worker w is serving
    want,     \* want[l]: what the generation and the acknowledged PATCHes asked of l
    failed,   \* whether a failure has happened
    clock,
    adding,   \* adding[a]: the content whose licenses goroutine a is about to touch
    stamp,    \* stamp[x]: the time the statement of goroutine x carries, see Stamp
    reached,  \* reached[l]: the latest date a statement has given l, 0 before the first
    base      \* base[l]: reached[l] when the statement that last dated l took its time

dateVars == <<adding, stamp, reached, base>>
vars == <<lic, doc, notif, late, u, want, failed, clock, adding, stamp, reached, base>>

-----------------------------------------------------------------------------

Properties == [content : Contents, print : Nat \cup {Nil}, end : Ends \cup {Nil}]

\* updated is NULL until the first update; lsd is the answer to the notification.
License == [prop : Properties, updated : Nat \cup {Nil}, lsd : {0, 201, 500, -1}]

ASSUME NilIsNoLicense == Nil \notin License

\* pc: "put" before the request to the Status Server, "save" before its answer is stored.
Notification == [pc : {"none", "put", "save", "done"}, end : Ends \cup {Nil},
                 code : {0, 201, 500, -1}]

NoNotification == [pc |-> "none", end |-> Nil, code |-> 0]

\* A partial license; an absent property is nil.
Partial == [content : Contents \cup {Nil}, print : (-1)..MaxPrint \cup {Nil},
            end : Ends \cup {0, Nil}]

\* pc: "write" before the time of the UPDATE is taken, "exec" before it is executed.
Patch == [pc : {"idle", "write", "exec"}, id : Licenses \cup {Nil},
          asked : Partial, out : Properties \cup {Nil}]

NoPartial == [content |-> Nil, print |-> Nil, end |-> Nil]
Idle == [pc |-> "idle", id |-> Nil, asked |-> NoPartial, out |-> Nil]

\* The time a statement carries, and what reached held when the time was taken.
Stamp == [time : Nat, base : [Licenses -> Nat]]
NoStamp == [time |-> 0, base |-> [l \in Licenses |-> 0]]

TablesTypeOK ==
    /\ lic \in [Licenses -> License \cup {Nil}]
    /\ doc \in [Licenses -> Ends \cup {Nil, 0}]
    /\ notif \in [Licenses -> Notification]
    /\ late \subseteq Licenses
    /\ u \in [Workers -> Patch]
    /\ want \in [Licenses -> Properties \cup {Nil}]
    /\ failed \in BOOLEAN
    /\ clock \in Nat

DatesTypeOK ==
    /\ adding \in [Adders -> Contents \cup {Nil}]
    /\ stamp \in [Workers \cup Adders -> Stamp]
    /\ reached \in [Licenses -> Nat] /\ base \in [Licenses -> Nat]

\* One type invariant for the module.
TypeOK == TablesTypeOK /\ DatesTypeOK

\* doc[l] while the Status Server has no document; a document without end holds Nil.
NoDoc == 0

-----------------------------------------------------------------------------
(* A definition X_bug that stands before a definition X is a mutated form  *)
(* of it; the specification uses none of them.                             *)

\* The properties prop with the ones a partial license holds changed.
Changed(prop, in) ==
    [content |-> IF in.content = Nil THEN prop.content ELSE in.content,
     print   |-> IF in.print = Nil THEN prop.print
                 ELSE IF in.print >= 0 THEN in.print ELSE Nil,
     end     |-> IF in.end = Nil THEN prop.end
                 ELSE IF in.end # 0 THEN in.end ELSE Nil]

\* The license is stored and sent back, then the goroutine of the notification starts; it
\* ends at once when no Status Server is configured.
\* GenerateProtectedPublication stores and notifies in the same way, before it builds the
\* publication: a failure to build it leaves the license and its notification.
GenerateLicense(l) ==
    \E c \in Contents, p \in 0..MaxPrint \cup {Nil}, e \in Ends \cup {Nil} :
       LET prop == [content |-> c, print |-> p, end |-> e] IN
       /\ lic[l] = Nil
       /\ lic' = [lic EXCEPT ![l] = [prop |-> prop, updated |-> Nil, lsd |-> 0]]
       /\ want' = [want EXCEPT ![l] = prop]
       /\ notif' = [notif EXCEPT ![l] = [pc |-> IF Notifies THEN "put" ELSE "done",
                                         end |-> e, code |-> 0]]
       /\ UNCHANGED <<doc, late, u, failed, clock, dateVars>>

\* notifyLsdServer: the Status Server creates its document and answers 201.
NotifyCreated(l) ==
    /\ notif[l].pc = "put"
    /\ doc' = [doc EXCEPT ![l] = notif[l].end]
    /\ notif' = [notif EXCEPT ![l] = [@ EXCEPT !.pc = "save", !.code = 201]]
    /\ UNCHANGED <<lic, late, u, want, failed, clock, dateVars>>

NotifyRefused_storedAsCreated(l) ==
    /\ Failures
    /\ notif[l].pc = "put"
    /\ notif' = [notif EXCEPT ![l] = [@ EXCEPT !.pc = "save", !.code = 201]]
    /\ failed' = TRUE
    /\ UNCHANGED <<lic, doc, late, u, want, clock, dateVars>>

\* notifyLsdServer: the Status Server answers an error, or the request does not reach it.
NotifyRefused(l) ==
    /\ Failures
    /\ notif[l].pc = "put"
    /\ \E code \in {500, -1} :
          notif' = [notif EXCEPT ![l] = [@ EXCEPT !.pc = "save", !.code = code]]
    /\ failed' = TRUE
    /\ UNCHANGED <<lic, doc, late, u, want, clock, dateVars>>

\* notifyLsdServer: no answer within the client's ten seconds.
NotifyTimeout(l) ==
    /\ Failures
    /\ notif[l].pc = "put"
    /\ notif' = [notif EXCEPT ![l] = [@ EXCEPT !.pc = "save", !.code = -1]]
    /\ late' = late \cup {l}
    /\ failed' = TRUE
    /\ UNCHANGED <<lic, doc, u, want, clock, dateVars>>

\* The Status Server processes a notification whose sender has given up.
LateNotification(l) ==
    /\ l \in late
    /\ doc' = [doc EXCEPT ![l] = notif[l].end]
    /\ late' = late \ {l}
    /\ UNCHANGED <<lic, notif, u, want, failed, clock, dateVars>>

UpdateLsdStatus_wholeRow(l) ==
    /\ notif[l].pc = "save"
    /\ lic' = [lic EXCEPT ![l].lsd = notif[l].code, ![l].prop.end = notif[l].end]
    /\ notif' = [notif EXCEPT ![l].pc = "done"]
    /\ UNCHANGED <<doc, late, u, want, failed, clock, dateVars>>
UpdateLsdStatus_skipped(l) ==
    /\ notif[l].pc = "save"
    /\ notif' = [notif EXCEPT ![l].pc = "done"]
    /\ UNCHANGED <<lic, doc, late, u, want, failed, clock, dateVars>>

\* The answer is stored in its column; the goroutine ends.
UpdateLsdStatus(l) ==
    /\ notif[l].pc = "save"
    /\ lic' = [lic EXCEPT ![l].lsd = notif[l].code]
    /\ notif' = [notif EXCEPT ![l].pc = "done"]
    /\ UNCHANGED <<doc, late, u, want, failed, clock, dateVars>>

\* The statement fails; its error is ignored.
UpdateLsdStatusFails(l) ==
    /\ Failures
    /\ notif[l].pc = "save"
    /\ notif' = [notif EXCEPT ![l].pc = "done"]
    /\ failed' = TRUE
    /\ UNCHANGED <<lic, doc, late, u, want, clock, dateVars>>

\* UpdateLicense: the row is read.  A partial license without a rights object makes the
\* handler panic before it writes, like a request that is refused.
UpdateLicense(w, l) ==
    /\ u[w].pc = "idle"
    /\ lic[l] # Nil
    /\ \E in \in Partial :
          u' = [u EXCEPT ![w] = [pc |-> "write", id |-> l, asked |-> in,
                                 out |-> Changed(lic[l].prop, in)]]
    /\ UNCHANGED <<lic, doc, notif, late, want, failed, clock, dateVars>>

\* time.Now(), an argument of the statement, is evaluated before the statement runs.
TakeTime(x) == stamp' = [stamp EXCEPT ![x] = [time |-> clock, base |-> reached]]

\* The statement of x is executed on the rows of a set of licenses.
ExecuteOn(x, rows) ==
    /\ reached' = [l \in Licenses |-> IF l \in rows /\ stamp[x].time > reached[l]
                                      THEN stamp[x].time ELSE reached[l]]
    /\ base' = [l \in Licenses |-> IF l \in rows THEN stamp[x].base[l] ELSE base[l]]
    /\ stamp' = [stamp EXCEPT ![x] = NoStamp]

\* UpdateLicense: the UPDATE is prepared.
BeginUpdate(w) ==
    /\ u[w].pc = "write"
    /\ u' = [u EXCEPT ![w].pc = "exec"]
    /\ TakeTime(w)
    /\ UNCHANGED <<lic, doc, notif, late, want, failed, clock, adding, reached, base>>

\* UpdateLicense: every property of the copy is written back and the client is answered.
Update(w) ==
    LET r == u[w] IN
    /\ r.pc = "exec"
    /\ lic' = [lic EXCEPT ![r.id].prop = r.out, ![r.id].updated = stamp[w].time]
    /\ want' = [want EXCEPT ![r.id] = Changed(@, r.asked)]
    /\ u' = [u EXCEPT ![w] = Idle]
    /\ ExecuteOn(w, {r.id})
    /\ UNCHANGED <<doc, notif, late, failed, clock, adding>>

\* UpdateLicense: the statement fails and the client is answered 500.
UpdateFails(w) ==
    /\ Failures
    /\ u[w].pc = "exec"
    /\ u' = [u EXCEPT ![w] = Idle]
    /\ stamp' = [stamp EXCEPT ![w] = NoStamp]
    /\ failed' = TRUE
    /\ UNCHANGED <<lic, doc, notif, late, want, clock, adding, reached, base>>

BeginTouch_truncatedToTheHour(a, c) ==
    /\ adding[a] = Nil
    /\ adding' = [adding EXCEPT ![a] = c]
    /\ stamp' = [stamp EXCEPT ![a] = [time |-> clock - (clock % 2), base |-> reached]]
    /\ UNCHANGED <<lic, doc, notif, late, u, want, failed, clock, reached, base>>

\* AddContent of a content that exists is about to touch every license of the content.
BeginTouch(a, c) ==
    /\ adding[a] = Nil
    /\ adding' = [adding EXCEPT ![a] = c]
    /\ TakeTime(a)
    /\ UNCHANGED <<lic, doc, notif, late, u, want, failed, clock, reached, base>>

\* The licenses are those of the content when the statement is executed.
TouchByContentID(a) ==
    LET rows == {l \in Licenses : lic[l] # Nil /\ lic[l].prop.content = adding[a]} IN
    /\ adding[a] # Nil
    /\ lic' = [l \in Licenses |->
                  IF l \in rows THEN [lic[l] EXCEPT !.updated = stamp[a].time] ELSE lic[l]]
    /\ adding' = [adding EXCEPT ![a] = Nil]
    /\ ExecuteOn(a, rows)
    /\ UNCHANGED <<doc, notif, late, u, want, failed, clock>>

\* The statement fails and the request that adds the content is answered an error.
TouchFails(a) ==
    /\ Failures
    /\ adding[a] # Nil
    /\ adding' = [adding EXCEPT ![a] = Nil]
    /\ stamp' = [stamp EXCEPT ![a] = NoStamp]
    /\ failed' = TRUE
    /\ UNCHANGED <<lic, doc, notif, late, u, want, clock, reached, base>>

\* The License Server stops and restarts: requests and notifications under way are lost.
Crash ==
    /\ Failures
    /\ notif' = [l \in Licenses |-> IF notif[l].pc \in {"put", "save"}
                                    THEN [notif[l] EXCEPT !.pc = "done"] ELSE notif[l]]
    /\ u' = [w \in Workers |-> Idle]
    /\ adding' = [a \in Adders |-> Nil]
    /\ stamp' = [x \in Workers \cup Adders |-> NoStamp]
    /\ failed' = TRUE
    /\ UNCHANGED <<lic, doc, late, want, clock, reached, base>>

Tick ==
    /\ clock < MaxTime
    /\ clock' = clock + 1
    /\ UNCHANGED <<lic, doc, notif, late, u, want, failed, dateVars>>

-----------------------------------------------------------------------------

Init ==
    /\ lic = [l \in Licenses |-> Nil]
    /\ doc = [l \in Licenses |-> NoDoc]
    /\ notif = [l \in Licenses |-> NoNotification]
    /\ late = {}
    /\ u = [w \in Workers |-> Idle]
    /\ want = [l \in Licenses |-> Nil]
    /\ failed = FALSE
    /\ clock = 1
    /\ adding = [a \in Adders |-> Nil]
    /\ stamp = [x \in Workers \cup Adders |-> NoStamp]
    /\ reached = [l \in Licenses |-> 0]
    /\ base = [l \in Licenses |-> 0]

Next ==
    \/ \E l \in Licenses :
          \/ GenerateLicense(l)
          \/ NotifyCreated(l)
          \/ NotifyRefused(l)
          \/ NotifyTimeout(l)
          \/ LateNotification(l)
          \/ UpdateLsdStatus(l)
          \/ UpdateLsdStatusFails(l)
          \/ \E w \in Workers : UpdateLicense(w, l)
    \/ \E w \in Workers : BeginUpdate(w) \/ Update(w) \/ UpdateFails(w)
    \/ \E a \in Adders :
          \/ \E c \in Contents : BeginTouch(a, c)
          \/ TouchByContentID(a)
          \/ TouchFails(a)
    \/ Crash
    \/ Tick

Spec == Init /\ [][Next]_vars

\* The goroutine of a notification is scheduled until it ends.
FairSpec == Spec /\ \A l \in Licenses : WF_vars(NotifyCreated(l) \/ UpdateLsdStatus(l))

-----------------------------------------------------------------------------

\* lsd_status 201 is a proof: whatever is lost, refused, late or interrupted, the license
\* table records it only when the Status Server has the document of the license.
CreatedMeansDocument ==
    \A l \in Licenses : lic[l] # Nil => (lic[l].lsd = 201 => doc[l] # NoDoc)

\* The Status Server never holds a document for a license the License Server lost: the
\* license is stored before notifyLsdServer starts, and nothing deletes it.
DocumentsHaveLicense ==
    \A l \in Licenses : doc[l] # NoDoc => lic[l] # Nil

\* No update is lost between UpdateLicense's read and its write: once a PATCH has been
\* answered, the properties it named keep its values until another PATCH names them,
\* whatever notifyLsdServer and TouchByContentID write to the same row meanwhile.
UpdatesKept == \A l \in Licenses : lic[l] # Nil => lic[l].prop = want[l]

\* The "updated" date of a license, which clients compare with their copy, may go back: the
\* time of a statement is taken before it is executed.  It does so only when statements
\* overlapped: a PATCH or a touch that took its time after another was executed never
\* leaves an earlier date than that one, and nothing erases the date.
DatesInOrder ==
    \A l \in Licenses : reached[l] # 0 =>
        /\ lic[l].updated # Nil
        /\ base[l] <= lic[l].updated /\ lic[l].updated <= reached[l]

\* Unless something fails, every generated license ends with a document on the configured
\* Status Server and lsd_status 201, although the client was answered before the notification.
EveryLicenseNotified ==
    \A l \in Licenses :
        Notifies /\ lic[l] # Nil ~> failed \/ (lic[l] # Nil /\ lic[l].lsd = 201 /\ doc[l] # NoDoc)
=============================================================================
