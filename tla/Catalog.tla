------------------------------- MODULE Catalog -------------------------------
(***************************************************************************)
(* The publications, users and purchases of the test frontend.  Requests   *)
(* are served concurrently and none runs in a transaction: adding a        *)
(* publication encrypts, notifies the License Server, inserts a row and    *)
(* removes the master file; a deletion is two statements; the license of a *)
(* purchase is read for, generated and stored in steps of their own; and a *)
(* form holds row ids that another request may delete before it is sent.   *)
(* Row ids are SQLite's: the largest id of a table is used again once it   *)
(* is free.                                                                *)
(***************************************************************************)
EXTENDS Naturals, Sequences, FiniteSets, FiniteSetsExt, Functions

CONSTANTS
    Workers,      \* the requests served at a time
    Masters,      \* the master files of the repository
    MaxContents,  \* bound on the encrypted contents
    MaxPeople,    \* bound on the users ever created
    MaxPurchases, \* bound on the purchases ever made
    MaxDocs,      \* bound on the licenses and their status documents
    MaxRequests,  \* bound on the requests
    MaxFaults     \* bound on the calls that fail

ASSUME CatalogAssumption ==
    /\ MaxContents \in Nat \ {0, 1} /\ MaxPeople \in Nat \ {0} /\ MaxPurchases \in Nat
    /\ MaxDocs \in Nat /\ MaxRequests \in Nat /\ MaxFaults \in Nat

VARIABLES
    masters,   \* the master files still there
    contents,  \* contents[c]: the file that content c of the License Server is made of
    pubs,      \* table publication: pubs[id] is the content id of the row
    users,     \* table user: whose uuid and whose name, email and passphrase row id holds
    purchases, \* table purchase, with the publication and the person they were made for
    req,       \* req[w]: the request of worker w
    bought,    \* how many purchases were made
    people,    \* how many users were created
    asked,     \* how many requests were made
    raced,     \* whether a request used an id whose row was replaced or was being deleted
    faults     \* how many calls have failed

catalogVars ==
    <<masters, contents, pubs, users, purchases, req, bought, people, asked, raced, faults>>

\* An uploaded file is not one of the master files.
Upload == "upload"
None == 0

Rows == 1..(MaxContents + MaxPeople)
Idle == [op |-> "idle", pc |-> "start", file |-> Upload, pub |-> None, user |-> None,
         content |-> None, person |-> None, purchase |-> None, uuid |-> None, license |-> None]
Requests ==
    [op : {"idle", "add", "deletePublication", "deleteUser", "purchase", "updateUser", "license"},
     pc : {"start", "encrypt", "notify", "insert", "remove", "purchases", "row", "form",
           "post", "check", "store"},
     file : Masters \cup {Upload}, pub : Rows \cup {None}, user : Rows \cup {None},
     content : 0..MaxContents, person : 0..MaxPeople,
     purchase : 0..MaxPurchases, uuid : 0..MaxPurchases, license : 0..MaxDocs]
Purchases ==
    [id : 1..MaxPurchases, uuid : 1..MaxPurchases, pub : Rows, user : Rows,
     content : 1..MaxContents, person : 1..MaxPeople, license : 0..MaxDocs]

\* The rows a table has, and the id SQLite gives to the next one.
NewId(table) == Max(DOMAIN table \cup {0}) + 1

Without(table, id) == Restrict(table, DOMAIN table \ {id})
With(table, id, row) == [i \in DOMAIN table \cup {id} |-> IF i = id THEN row ELSE table[i]]

\* Whether a deletion of one of the rows is between its two statements.
BeingDeleted(pub, user) ==
    \E w \in Workers : req[w].pc = "row" /\ (req[w].pub = pub \/ req[w].user = user)

\* A request is made; the bound is on all of them together.
Ask == asked < MaxRequests /\ asked' = asked + 1

Done(w) == req' = [req EXCEPT ![w] = Idle]
Goes(w, pc) == req' = [req EXCEPT ![w].pc = pc]

-----------------------------------------------------------------------------
(* Publications.  A definition X_bug that stands before a definition X is a *)
(* mutated form of it; the specification uses none of them.                *)

\* CreatePublication and UploadPublication: Add checks that the master file is there,
\* Upload copies the payload to a temporary file.
AddPublication(w) ==
    /\ req[w].op = "idle" /\ Ask
    /\ \E f \in masters \cup {Upload} :
          req' = [req EXCEPT ![w] = [Idle EXCEPT !.op = "add", !.pc = "encrypt", !.file = f]]
    /\ UNCHANGED <<masters, contents, pubs, users, purchases, bought, people, raced, faults>>

\* The contents on the License Server or about to be there.
Drawn == DOMAIN contents \cup {req[w].content : w \in Workers}

\* ProcessEncryption without a content id draws one; another request may have removed the
\* master file.
Encrypt(w) ==
    /\ req[w].pc = "encrypt"
    /\ IF req[w].file \in masters \cup {Upload}
       THEN /\ Max(Drawn \cup {0}) < MaxContents
            /\ req' = [req EXCEPT ![w].pc = "notify", ![w].content = Max(Drawn \cup {0}) + 1]
       ELSE Done(w)
    /\ UNCHANGED <<masters, contents, pubs, users, purchases, bought, people, asked, raced, faults>>

NotifyLCPServer_errorIgnored(w) ==
    /\ req[w].pc = "notify"
    /\ \/ contents' = With(contents, req[w].content, req[w].file) /\ UNCHANGED faults
       \/ faults < MaxFaults /\ faults' = faults + 1 /\ UNCHANGED contents
    /\ Goes(w, "insert")
    /\ UNCHANGED <<masters, pubs, users, purchases, bought, people, asked, raced>>

\* NotifyLCPServer: the License Server has the content; or it refuses it; or its answer is
\* lost, and the content stays there without a publication.
NotifyLCPServer(w) ==
    /\ req[w].pc = "notify"
    /\ \/ /\ contents' = With(contents, req[w].content, req[w].file)
          /\ Goes(w, "insert")
          /\ UNCHANGED faults
       \/ /\ faults < MaxFaults /\ faults' = faults + 1
          /\ contents' \in {contents, With(contents, req[w].content, req[w].file)}
          /\ Done(w)
    /\ UNCHANGED <<masters, pubs, users, purchases, bought, people, asked, raced>>

\* The row of the publication is inserted.  Only Add has a master file to remove.
InsertPublication(w) ==
    /\ req[w].pc = "insert"
    /\ \/ /\ pubs' = With(pubs, NewId(pubs), req[w].content)
          /\ IF req[w].file = Upload THEN Done(w) ELSE Goes(w, "remove")
          /\ UNCHANGED faults
       \/ /\ faults < MaxFaults /\ faults' = faults + 1
          /\ Done(w)
          /\ UNCHANGED pubs
    /\ UNCHANGED <<masters, contents, users, purchases, bought, people, asked, raced>>

\* The master file is removed; when that fails the request fails, after all it did.
RemoveMaster(w) ==
    /\ req[w].pc = "remove"
    /\ \/ masters' = masters \ {req[w].file} /\ UNCHANGED faults
       \/ faults < MaxFaults /\ faults' = faults + 1 /\ UNCHANGED masters
    /\ Done(w)
    /\ UNCHANGED <<contents, pubs, users, purchases, bought, people, asked, raced>>

-----------------------------------------------------------------------------
(* Deletions: the purchases first, then the row they refer to.             *)

\* DeletePublication reads the row first.
DeletePublication(w) ==
    /\ req[w].op = "idle" /\ Ask
    /\ \E id \in DOMAIN pubs :
          req' = [req EXCEPT ![w] = [Idle EXCEPT !.op = "deletePublication",
                                        !.pc = "purchases", !.pub = id]]
    /\ UNCHANGED <<masters, contents, pubs, users, purchases, bought, people, raced, faults>>

\* DeleteUser does not; the interface names a row that it has listed.
DeleteUser(w) ==
    /\ req[w].op = "idle" /\ Ask
    /\ \E id \in DOMAIN users :
          req' = [req EXCEPT ![w] = [Idle EXCEPT !.op = "deleteUser",
                                        !.pc = "purchases", !.user = id]]
    /\ UNCHANGED <<masters, contents, pubs, users, purchases, bought, people, raced, faults>>

DeletePurchases_publicationKept(w) ==
    /\ req[w].pc = "purchases"
    /\ purchases' = {p \in purchases : p.user # req[w].user}
    /\ Goes(w, "row")
    /\ UNCHANGED <<masters, contents, pubs, users, bought, people, asked, raced, faults>>

\* Another request may have deleted the row, and a new one may have its id.
DeletePurchases(w) ==
    /\ req[w].pc = "purchases"
    /\ \/ /\ purchases' = {p \in purchases : p.pub # req[w].pub /\ p.user # req[w].user}
          /\ Goes(w, "row")
          /\ UNCHANGED faults
       \/ /\ faults < MaxFaults /\ faults' = faults + 1
          /\ Done(w)
          /\ UNCHANGED purchases
    /\ UNCHANGED <<masters, contents, pubs, users, bought, people, asked, raced>>

\* A deletion that another one preceded removes what has the id now, with its purchases.
DeleteRow(w) ==
    /\ req[w].pc = "row"
    /\ \/ /\ IF req[w].op = "deletePublication"
             THEN pubs' = Without(pubs, req[w].pub) /\ UNCHANGED users
             ELSE users' = Without(users, req[w].user) /\ UNCHANGED pubs
          /\ UNCHANGED faults
       \/ faults < MaxFaults /\ faults' = faults + 1 /\ UNCHANGED <<pubs, users>>
    /\ Done(w)
    /\ UNCHANGED <<masters, contents, purchases, bought, people, asked, raced>>
-----------------------------------------------------------------------------
(* Users and purchases.                                                    *)

CreateUser ==
    /\ people < MaxPeople /\ Ask
    /\ people' = people + 1
    /\ users' = With(users, NewId(users), [uuid |-> people + 1, data |-> people + 1])
    /\ UNCHANGED <<masters, contents, pubs, purchases, req, bought, raced, faults>>

\* A form of the interface shows a user to change, or the publications and users to choose
\* a purchase from; it keeps their ids.
OpenForm(w) ==
    /\ req[w].op = "idle" /\ Ask
    /\ \E u \in DOMAIN users :
          \/ req' = [req EXCEPT ![w] = [Idle EXCEPT !.op = "updateUser", !.pc = "form",
                                           !.user = u, !.person = users[u].uuid]]
          \/ \E p \in DOMAIN pubs :
                req' = [req EXCEPT ![w] = [Idle EXCEPT !.op = "purchase", !.pc = "form",
                                              !.pub = p, !.user = u, !.content = pubs[p],
                                              !.person = users[u].uuid]]
    /\ UNCHANGED <<masters, contents, pubs, users, purchases, bought, people, raced, faults>>

\* UpdateUser writes the data of the form to the row that has the id now, if there is one.
UpdateUser(w) ==
    /\ req[w].op = "updateUser"
    /\ LET id == req[w].user IN
         IF id \in DOMAIN users
         THEN /\ users' = [users EXCEPT ![id].data = req[w].person]
              /\ raced' = (raced \/ users[id].uuid # req[w].person)
         ELSE UNCHANGED <<users, raced>>
    /\ Done(w)
    /\ UNCHANGED <<masters, contents, pubs, purchases, bought, people, asked, faults>>

\* CreatePurchase inserts the ids of the form; no foreign key is enforced.
CreatePurchase(w) ==
    /\ req[w].op = "purchase"
    /\ bought < MaxPurchases
    /\ LET r == req[w] IN
         /\ bought' = bought + 1
         /\ purchases' = purchases \cup
               {[id |-> Max({p.id : p \in purchases} \cup {0}) + 1, uuid |-> bought + 1,
                 pub |-> r.pub, user |-> r.user, content |-> r.content,
                 person |-> r.person, license |-> None]}
         /\ raced' = \/ raced \/ BeingDeleted(r.pub, r.user)
                     \/ r.pub \notin DOMAIN pubs \/ r.user \notin DOMAIN users
                     \/ r.pub \in DOMAIN pubs /\ pubs[r.pub] # r.content
                     \/ r.user \in DOMAIN users /\ users[r.user].uuid # r.person
    /\ Done(w)
    /\ UNCHANGED <<masters, contents, pubs, users, people, asked, faults>>

-----------------------------------------------------------------------------
(* GetPurchasedLicense for the first time; module Purchase has what follows. *)

\* The queries on purchases join the tables: a purchase without its publication or its user
\* is not found.
Joined == {p \in purchases : p.pub \in DOMAIN pubs /\ p.user \in DOMAIN users}

\* Get reads the purchase, with the content of its publication and the data of its user.
GetPurchasedLicense(w) ==
    /\ req[w].op = "idle" /\ Ask
    /\ \E p \in Joined :
          /\ p.license = None
          /\ req' = [req EXCEPT ![w] =
                       [Idle EXCEPT !.op = "license", !.pc = "post", !.purchase = p.id,
                                    !.uuid = p.uuid, !.content = pubs[p.pub],
                                    !.person = users[p.user].data]]
    /\ UNCHANGED <<masters, contents, pubs, users, purchases, bought, people, raced, faults>>

\* Update reads the purchase again, for its status.
CheckPurchase(w) ==
    /\ req[w].pc = "check"
    /\ IF \E p \in Joined : p.id = req[w].purchase THEN Goes(w, "store") ELSE Done(w)
    /\ UNCHANGED <<masters, contents, pubs, users, purchases, bought, people, asked, raced,
                    faults>>

\* Then it writes the license to the row that has the id now, if there is one.
StoreLicense(w) ==
    /\ req[w].pc = "store"
    /\ \/ LET Named(p) == p.id = req[w].purchase
              Stored(p) == [p EXCEPT !.license = req[w].license]
          IN /\ purchases' = {IF Named(p) THEN Stored(p) ELSE p : p \in purchases}
             /\ raced' = (raced \/ \E p \in purchases : Named(p) /\ p.uuid # req[w].uuid)
             /\ UNCHANGED faults
       \/ /\ faults < MaxFaults /\ faults' = faults + 1
          /\ UNCHANGED <<purchases, raced>>
    /\ Done(w)
    /\ UNCHANGED <<masters, contents, pubs, users, bought, people, asked>>

\* The process dies: requests under way are lost, open forms are not.
Crash == req' = [w \in Workers |-> IF req[w].pc = "form" THEN req[w] ELSE Idle]

-----------------------------------------------------------------------------

\* Two publications were uploaded and one user created.
CatalogInit ==
    /\ masters = Masters /\ contents = <<Upload, Upload>> /\ pubs = <<1, 2>>
    /\ users = <<[uuid |-> 1, data |-> 1]>> /\ people = 1
    /\ purchases = {} /\ bought = 0 /\ asked = 0
    /\ req = [w \in Workers |-> Idle]
    /\ raced = FALSE /\ faults = 0
=============================================================================
