----------------------------- MODULE LicenseView -----------------------------
(***************************************************************************)
(* The frontend as a whole: the catalog, the status documents of the       *)
(* Status Server, and the view of them that the frontend keeps for its     *)
(* list of licenses.  Every ten minutes a task asks the Status Server for  *)
(* its documents, empties the view and fills it row by row.  The list      *)
(* joins the view with the purchases, publications and users.              *)
(***************************************************************************)
EXTENDS Catalog, SequencesExt

CONSTANTS
    PerPage,    \* how many documents the Status Server answers without parameters (10)
    MaxDevices  \* bound on the devices of a license

ASSUME LicenseViewAssumption == PerPage \in Nat \ {0} /\ MaxDevices \in Nat

VARIABLES
    docs,  \* the documents of the Status Server in the order of their ids: the i-th is of
           \* the i-th license
    made,  \* made[i]: what the i-th license was generated for, or Elsewhere
    view,  \* table license_view, in the order of its ids
    task   \* fetchLicenseStatusesTask: the next call and what is left to do

vars == <<catalogVars, docs, made, view, task>>

Elsewhere == [content |-> None, person |-> None]
Docs == [license : 1..MaxDocs, device_count : 0..MaxDevices]
Problem == <<>>  \* the rows that a problem document holds
Sleeping == [pc |-> "sleep", rows |-> <<>>]
Dead == [pc |-> "dead", rows |-> <<>>]
Up == task # Dead  \* the frontend runs

-----------------------------------------------------------------------------
(* Pages.  A definition X_bug that stands before a definition X is a       *)
(* mutated form of it; the specification uses none of them.                *)

\* FilterLicenseStatuses: rows of a page counted from one, the latest document first.
List(page, perPage) ==
    LET latest == Reverse(docs)
        first  == (page - 1) * perPage + 1
    IN SubSeq(latest, first, Min({first + perPage - 1, Len(latest)}))

NextLink_samePage(link) == link

\* Its link to the next page counts pages from zero and adds one to the rows: it names the
\* same page with one row more.
NextLink(link) == [page |-> (link.page - 1) + 1, perPage |-> link.perPage + 1]

\* The request after n links.
Followed[n \in Nat] ==
    IF n = 0 THEN [page |-> 1, perPage |-> PerPage] ELSE NextLink(Followed[n - 1])

-----------------------------------------------------------------------------
(* The Status Server (external) and the licenses of the purchases.         *)

\* A license is generated and gets its document.
Generated(what) ==
    /\ Len(docs) < MaxDocs
    /\ docs' = Append(docs, [license |-> Len(docs) + 1, device_count |-> 0])
    /\ made' = Append(made, what)

\* GenerateOrGetLicense: the License Server generates a license for the content and the user
\* that were read; it fails, or its answer is lost.
GenerateLicense(w) ==
    /\ Up
    /\ req[w].pc = "post"
    /\ LET what == [content |-> req[w].content, person |-> req[w].person] IN
         \/ /\ req[w].content \in DOMAIN contents
            /\ Generated(what)
            /\ req' = [req EXCEPT ![w].pc = "check", ![w].license = Len(docs) + 1]
            /\ UNCHANGED faults
         \/ /\ faults < MaxFaults /\ faults' = faults + 1
            /\ Generated(what) \/ UNCHANGED <<docs, made>>
            /\ Done(w)
    /\ UNCHANGED <<masters, contents, pubs, users, purchases, bought, people, asked, raced,
                    view, task>>

\* Another provider's license gets its document.
OtherLicense ==
    /\ Ask
    /\ Generated(Elsewhere)
    /\ UNCHANGED <<masters, contents, pubs, users, purchases, req, bought, people, raced, faults,
                    view, task>>

RegisterDevice ==
    /\ Ask
    /\ \E i \in DOMAIN docs :
          /\ docs[i].device_count < MaxDevices
          /\ docs' = [docs EXCEPT ![i].device_count = @ + 1]
    /\ UNCHANGED <<masters, contents, pubs, users, purchases, req, bought, people, raced, faults,
                    made, view, task>>

-----------------------------------------------------------------------------
(* fetchLicenseStatusesTask; the scheduler runs it again when it has ended. *)

\* The documents are asked for without parameters, and the status of the answer is not
\* looked at: a problem document is taken for a list.
Fetch ==
    /\ task.pc = "sleep"
    /\ \/ task' = [pc |-> "purge", rows |-> List(1, PerPage)] /\ UNCHANGED faults
       \/ /\ faults < MaxFaults /\ faults' = faults + 1
          /\ task' \in {Sleeping, [pc |-> "purge", rows |-> Problem]}
    /\ UNCHANGED <<masters, contents, pubs, users, purchases, req, bought, people, asked, raced,
                   docs, made, view>>

PurgeDataBase_skipped ==
    /\ task.pc = "purge"
    /\ task' = [task EXCEPT !.pc = "fill"]
    /\ UNCHANGED <<catalogVars, docs, made, view>>

\* An error here is a panic, which no one recovers: the frontend dies.
PurgeDataBase ==
    /\ task.pc = "purge"
    /\ \/ /\ view' = <<>>
          /\ task' = [task EXCEPT !.pc = "fill"]
          /\ UNCHANGED <<req, faults>>
       \/ /\ faults < MaxFaults /\ faults' = faults + 1
          /\ task' = Dead
          /\ Crash
          /\ UNCHANGED view
    /\ UNCHANGED <<masters, contents, pubs, users, purchases, bought, people, asked, raced,
                   docs, made>>

AddFromJSON_lastRowLost ==
    /\ task.pc = "fill"
    /\ IF Len(task.rows) > 1
       THEN /\ view' = Append(view, Head(task.rows))
            /\ task' = [task EXCEPT !.rows = Tail(@)]
       ELSE task' = Sleeping /\ UNCHANGED view
    /\ UNCHANGED <<catalogVars, docs, made>>

\* One row after the other; an error ends the task with the rows inserted so far.
AddFromJSON ==
    /\ task.pc = "fill"
    /\ \/ /\ task.rows # <<>>
          /\ view' = Append(view, Head(task.rows))
          /\ task' = [task EXCEPT !.rows = Tail(@)]
          /\ UNCHANGED faults
       \/ /\ task.rows = <<>>
          /\ task' = Sleeping
          /\ UNCHANGED <<view, faults>>
       \/ /\ faults < MaxFaults /\ faults' = faults + 1
          /\ task' = Sleeping
          /\ UNCHANGED view
    /\ UNCHANGED <<masters, contents, pubs, users, purchases, req, bought, people, asked, raced,
                   docs, made>>

\* Someone may start the frontend again.
Restart ==
    /\ ~Up
    /\ task' = Sleeping
    /\ UNCHANGED <<catalogVars, docs, made, view>>

\* GetFiltered: a line for each row of the view and each purchase that has its license.
Lines == {l \in (DOMAIN view) \X Joined :
             view[l[1]].license = l[2].license}

\* GetLicenseOwner: the user data the Status Server puts into a fresh license.
GetLicenseOwner(license) ==
    {users[p.user].data : p \in {p \in Joined : p.license = license}}

-----------------------------------------------------------------------------

Init ==
    /\ CatalogInit
    /\ docs = <<>> /\ made = <<>> /\ view = <<>> /\ task = Sleeping

CatalogStep ==
    /\ Up
    /\ \/ \E w \in Workers :
             \/ AddPublication(w) \/ DeletePublication(w) \/ DeleteUser(w) \/ OpenForm(w)
             \/ Encrypt(w) \/ NotifyLCPServer(w) \/ InsertPublication(w) \/ RemoveMaster(w)
             \/ DeletePurchases(w) \/ DeleteRow(w) \/ UpdateUser(w) \/ CreatePurchase(w)
             \/ GetPurchasedLicense(w) \/ CheckPurchase(w) \/ StoreLicense(w)
       \/ CreateUser
    /\ UNCHANGED <<docs, made, view, task>>

Next ==
    \/ CatalogStep
    \/ \E w \in Workers : GenerateLicense(w)
    \/ OtherLicense \/ RegisterDevice
    \/ Fetch \/ PurgeDataBase \/ AddFromJSON \/ Restart

Spec == Init /\ [][Next]_vars

\* The scheduler runs the task again and again.
FairSpec == Spec /\ WF_vars(Fetch) /\ WF_vars(PurgeDataBase) /\ WF_vars(AddFromJSON)

-----------------------------------------------------------------------------

\* One type invariant for the module; contents are numbered in the order they are drawn.
TypeOK ==
    /\ masters \subseteq Masters
    /\ DOMAIN contents \subseteq 1..MaxContents
    /\ \A c \in DOMAIN contents : contents[c] \in Masters \cup {Upload}
    /\ DOMAIN pubs \subseteq Rows /\ \A i \in DOMAIN pubs : pubs[i] \in 1..MaxContents
    /\ DOMAIN users \subseteq Rows
    /\ \A i \in DOMAIN users : users[i] \in [uuid : 1..MaxPeople, data : 1..MaxPeople]
    /\ purchases \subseteq Purchases
    /\ req \in [Workers -> Requests]
    /\ raced \in BOOLEAN /\ faults \in 0..MaxFaults
    /\ Len(docs) <= MaxDocs /\ Len(made) = Len(docs)
    /\ \A i \in DOMAIN docs : docs[i] \in Docs
    /\ \A i \in DOMAIN view : view[i] \in Docs
    /\ task.pc \in {"sleep", "purge", "fill", "dead"}

\* encryptPublication inserts a row only after the License Server has the content, and Add
\* removes a master file only after both: whatever fails, and also when two requests add the
\* same file, a publication that can be bought can be licensed, and a master file is only
\* gone when the License Server has a content made of it.
NothingHalfAdded ==
    /\ TypeOK
    /\ \A id \in DOMAIN pubs : pubs[id] \in DOMAIN contents
    /\ \A m \in Masters \ masters : \E c \in DOMAIN contents : contents[c] = m

\* Delete and DeleteUser remove the purchases before the row, so that no purchase is left
\* for the next row that gets the id, and a license is stored several steps after the
\* purchase was read: unless a request used an id whose row was replaced or being deleted,
\* a purchase refers to the publication and the user it was made for, its license opens
\* what was bought and was made for who bought it, and its owner, whom fresh licenses are
\* made for, is still the buyer.
LicenseOfPurchase ==
    ~raced => \A p \in purchases :
                 /\ p.pub \in DOMAIN pubs /\ pubs[p.pub] = p.content
                 /\ p.user \in DOMAIN users /\ users[p.user].uuid = p.person
                 /\ p.license # None =>
                       /\ made[p.license] = [content |-> p.content, person |-> p.person]
                       /\ GetLicenseOwner(p.license) = {p.person}

\* The list of licenses has one line for a license, however fetches, failures, new licenses
\* and deletions interleave: the view is emptied before it is filled, by one task at a time,
\* and no two purchases have a license in common, also when two requests store licenses for
\* one purchase, or one stores its license to a purchase that got the id.
LinesUnique ==
    \A l, k \in Lines : view[l[1]].license = view[k[1]].license => l = k

\* A client that follows the next links gets every document: the links never leave the
\* first page, but it grows by a row each time.
NextLinksReachAll ==
    LET last == Followed[MaxDocs] IN List(last.page, last.perPage) = Reverse(docs)

\* The view becomes all the documents again and again, whatever fails, as long as the
\* frontend lives and the documents fit on a page: the task reads one page only.
ViewRefreshed == []<>(~Up \/ Len(docs) > PerPage \/ view = Reverse(docs))
=============================================================================
