----------------------------- MODULE Publication -----------------------------
(***************************************************************************)
(* The life of an encrypted publication: runs of lcpencrypt with an        *)
(* imposed content id, the content table and the storage of the License    *)
(* Server (AddContent, DeleteContent, GetContentInfo), the notification of *)
(* a CMS and its rollback, and the readers that keep a copy.               *)
(*                                                                         *)
(* A publication is known by the key it is encrypted with: a fresh license *)
(* carries the key of the content table and opens what that key encrypts.  *)
(* lcpencrypt asks the License Server for the key before it encrypts, so   *)
(* that an update keeps it; the server processes the notification of a run *)
(* whose client may have given up.                                         *)
(***************************************************************************)
EXTENDS Naturals, FiniteSets

CONSTANTS
    Contents,   \* imposed content ids
    Tools,      \* runs of lcpencrypt that may overlap
    Failures,   \* whether the network, the database, a server or a run may fail
    Imposed,    \* keys that a run may impose
    MaxKeys     \* bound on the random keys drawn

ASSUME PublicationAssumption ==
    Failures \in BOOLEAN /\ Imposed \subseteq Nat /\ MaxKeys \in Nat /\ 0 \notin Contents

VARIABLES
    index,    \* index[c]: the encryption key of c in the content table, None without a row
    store,    \* store[c]: the key of the file at the location of c, None without a file
    cut,      \* contents whose file is being written in place, or whose writing stopped
    copies,   \* copies[c]: the keys of the files readers have downloaded
    cms,      \* contents the CMS knows
    j,        \* j[t]: the run t
    next,     \* the next random key
    spoiled,  \* contents whose key lookup was lost, that were given another key, whose
              \* runs overlapped, or that were aborted
    failed    \* whether a failure has happened

vars == <<index, store, cut, copies, cms, j, next, spoiled, failed>>

None == 0
Key == Nat \ {None}

\* -storage selects who stores the file: the License Server ("none"), the tool in a
\* file system ("fs"), or on S3 ("s3").
Modes == {"none", "fs", "s3"}

\* pc names the next call; before is the row AddContent found; gone: the client timed out.
Job == [pc : {"idle", "lookup", "encrypt", "fill", "put", "copy", "write", "cms", "abort"},
        content : Contents \cup {None}, key : Nat, before : Nat, mode : Modes,
        remote : BOOLEAN, gone : BOOLEAN]

\* One type invariant for the module.
TypeOK ==
    /\ index \in [Contents -> Nat]
    /\ store \in [Contents -> Nat]
    /\ cut \subseteq Contents
    /\ copies \in [Contents -> SUBSET Key]
    /\ cms \subseteq Contents
    /\ j \in [Tools -> Job]
    /\ next \in Key
    /\ spoiled \subseteq Contents
    /\ failed \in BOOLEAN

-----------------------------------------------------------------------------
(* A definition X_bug that stands before a definition X is a mutated form  *)
(* of it; the specification uses none of them.                             *)

NoJob == [pc |-> "idle", content |-> None, key |-> None, before |-> None,
          mode |-> "none", remote |-> FALSE, gone |-> FALSE]

Stop(t) == j' = [j EXCEPT ![t] = NoJob]

\* A run with an imposed content id; remote: -input is a URL.  The key is looked up unless
\* -contentkey imposes one.
Run(t) ==
    /\ j[t].pc = "idle"
    /\ \E c \in Contents, mode \in Modes, remote \in BOOLEAN, contentkey \in Imposed \cup {None} :
          /\ j' = [j EXCEPT ![t] = [pc |-> IF contentkey = None THEN "lookup" ELSE "encrypt",
                                    content |-> c, key |-> contentkey, before |-> None,
                                    mode |-> mode, remote |-> remote, gone |-> FALSE]]
          /\ spoiled' = IF \/ \E s \in Tools : j[s].content = c
                           \/ contentkey # None /\ index[c] \notin {None, contentkey}
                        THEN spoiled \cup {c} ELSE spoiled
    /\ UNCHANGED <<index, store, cut, copies, cms, next, failed>>

getContentKey_random(t) ==
    /\ j[t].pc = "lookup"
    /\ next <= MaxKeys
    /\ j' = [j EXCEPT ![t].pc = "encrypt", ![t].key = next]
    /\ next' = next + 1
    /\ UNCHANGED <<index, store, cut, copies, cms, spoiled, failed>>

\* The key of the content table, or a random one when the server answers 404.
getContentKey(t) ==
    LET key == index[j[t].content] IN
    /\ j[t].pc = "lookup"
    /\ \/ /\ key # None
          /\ j' = [j EXCEPT ![t].pc = "encrypt", ![t].key = key]
          /\ UNCHANGED next
       \/ /\ key = None /\ next <= MaxKeys
          /\ j' = [j EXCEPT ![t].pc = "encrypt", ![t].key = next]
          /\ next' = next + 1
    /\ UNCHANGED <<index, store, cut, copies, cms, spoiled, failed>>

\* The request fails or times out, or the query behind it does (Index.Get reports any
\* error as "not found"): the run goes on as if the content did not exist.
getContentKeyLost(t) ==
    /\ Failures
    /\ j[t].pc = "lookup"
    /\ index[j[t].content] # None /\ next <= MaxKeys
    /\ j' = [j EXCEPT ![t].pc = "encrypt", ![t].key = next]
    /\ next' = next + 1
    /\ spoiled' = spoiled \cup {j[t].content}
    /\ failed' = TRUE
    /\ UNCHANGED <<index, store, cut, copies, cms>>

\* Whether the run writes to the file where it is stored: lcpencrypt to a file system, or
\* the License Server.
Writing(r) == r.pc \in {"fill", "copy"}

\* os.Create truncates the stored file; it is whole again when its last writer has ended.
Truncate(c, key) == store' = [store EXCEPT ![c] = key] /\ cut' = cut \cup {c}
Filled(t, c, key) ==
    /\ store' = [store EXCEPT ![c] = key]
    /\ cut' = IF \E s \in Tools \ {t} : j[s].content = c /\ Writing(j[s])
              THEN cut ELSE cut \ {c}

\* ProcessEncryption creates its output in place with -storage on a file system.
CreateOutput(t) ==
    LET r == j[t] IN
    /\ r.pc = "encrypt" /\ r.mode = "fs"
    /\ Truncate(r.content, r.key)
    /\ j' = [j EXCEPT ![t].pc = "fill"]
    /\ UNCHANGED <<index, copies, cms, next, spoiled, failed>>

\* ProcessEncryption of a local input.
ProcessEncryption(t) ==
    LET r == j[t] IN
    /\ r.pc = (IF r.mode = "fs" THEN "fill" ELSE "encrypt") /\ ~r.remote
    /\ IF r.mode = "none" THEN UNCHANGED <<store, cut>> ELSE Filled(t, r.content, r.key)
    /\ j' = [j EXCEPT ![t].pc = "put"]
    /\ UNCHANGED <<index, copies, cms, next, spoiled, failed>>

\* ProcessEncryption of a fetched input removes the path given by the caller, a URL,
\* instead of the temporary file: the error ends the run once the file is encrypted, and
\* with -storage on a file system it has been encrypted in place.
ProcessEncryptionRemote(t) ==
    LET r == j[t] IN
    /\ r.pc = (IF r.mode = "fs" THEN "fill" ELSE "encrypt") /\ r.remote
    /\ IF r.mode = "fs" THEN Filled(t, r.content, r.key) ELSE UNCHANGED <<store, cut>>
    /\ Stop(t)
    /\ UNCHANGED <<index, copies, cms, next, spoiled, failed>>

\* AddContent creates a file in its storage, to copy the encrypted file to, unless the run
\* has stored it.
StoreAdd(t) ==
    LET r == j[t] IN
    /\ r.pc = "put" /\ r.mode = "none"
    /\ Truncate(r.content, r.key)
    /\ j' = [j EXCEPT ![t].pc = "copy"]
    /\ UNCHANGED <<index, copies, cms, next, spoiled, failed>>

\* AddContent: once the file is in the storage, the row is looked up.  An error of the
\* lookup is taken for a missing row.
AddContent(t) ==
    LET r == j[t] IN
    /\ r.pc = (IF r.mode = "none" THEN "copy" ELSE "put")
    /\ IF r.mode = "none" THEN Filled(t, r.content, r.key) ELSE UNCHANGED <<store, cut>>
    /\ \E found \in {index[r.content]} \cup (IF Failures THEN {None} ELSE {}) :
          /\ j' = [j EXCEPT ![t].pc = "write", ![t].before = found]
          /\ failed' = (failed \/ found # index[r.content])
    /\ UNCHANGED <<index, copies, cms, next, spoiled>>

\* A client that has given up is not there to notify the CMS; all that the others still use
\* is the content id.
Notified(t) ==
    IF j[t].gone THEN Stop(t)
    ELSE j' = [j EXCEPT ![t] = [NoJob EXCEPT !.pc = "cms", !.content = j[t].content]]

AddRow_errorIgnored(t) ==
    LET r == j[t] IN
    /\ r.pc = "write" /\ r.before = None
    /\ index' \in {index, [index EXCEPT ![r.content] = r.key]}
    /\ Notified(t)
    /\ UNCHANGED <<store, cut, copies, cms, next, spoiled, failed>>

\* AddContent: the row is inserted, or refused when the id exists already.
AddRow(t) ==
    LET r == j[t] IN
    /\ r.pc = "write" /\ r.before = None
    /\ \/ /\ index[r.content] = None
          /\ index' = [index EXCEPT ![r.content] = r.key]
          /\ Notified(t)
       \/ /\ index[r.content] # None
          /\ Stop(t)
          /\ UNCHANGED index
    /\ UNCHANGED <<store, cut, copies, cms, next, spoiled, failed>>

\* AddContent: the row is updated, if it is still there, and the licenses are touched.
UpdateRow(t) ==
    LET r == j[t] IN
    /\ r.pc = "write" /\ r.before # None
    /\ index' = IF index[r.content] # None
                THEN [index EXCEPT ![r.content] = r.key] ELSE index
    /\ Notified(t)
    /\ UNCHANGED <<store, cut, copies, cms, next, spoiled, failed>>

\* The client's fifteen seconds have passed; the handler goes on.
NotifyTimeout(t) ==
    /\ Failures
    /\ j[t].pc \in {"put", "copy", "write"} /\ ~j[t].gone
    /\ j' = [j EXCEPT ![t].gone = TRUE]
    /\ failed' = TRUE
    /\ UNCHANGED <<index, store, cut, copies, cms, next, spoiled>>

NotifyCMS_skipped(t) ==
    /\ j[t].pc = "cms"
    /\ Stop(t)
    /\ UNCHANGED <<index, store, cut, copies, cms, next, spoiled, failed>>

NotifyCMS(t) ==
    /\ j[t].pc = "cms"
    /\ cms' = cms \cup {j[t].content}
    /\ Stop(t)
    /\ UNCHANGED <<index, store, cut, copies, next, spoiled, failed>>

\* The CMS refuses, cannot be reached, or does its work and answers too late.
NotifyCMSFails(t) ==
    /\ Failures
    /\ j[t].pc = "cms"
    /\ cms' \in {cms, cms \cup {j[t].content}}
    /\ j' = [j EXCEPT ![t].pc = "abort"]
    /\ failed' = TRUE
    /\ UNCHANGED <<index, store, cut, copies, next, spoiled>>

\* AbortNotification: DeleteContent removes the row.
AbortNotification(t) ==
    LET c == j[t].content IN
    /\ j[t].pc = "abort"
    /\ index' = [index EXCEPT ![c] = None]
    /\ spoiled' = spoiled \cup {c}
    /\ Stop(t)
    /\ UNCHANGED <<store, cut, copies, cms, next, failed>>

\* A call of the run fails, or the run is killed: it goes no further, and what it was
\* writing stays cut.
Exit(t) ==
    /\ Failures
    /\ j[t].pc # "idle"
    /\ Stop(t)
    /\ failed' = TRUE
    /\ UNCHANGED <<index, store, cut, copies, cms, next, spoiled>>

\* A reader who has a license downloads the file; one that is cut makes no copy to keep.
GetContentFile(c) ==
    /\ index[c] # None /\ store[c] # None /\ c \notin cut
    /\ copies' = [copies EXCEPT ![c] = @ \cup {store[c]}]
    /\ UNCHANGED <<index, store, cut, cms, j, next, spoiled, failed>>

-----------------------------------------------------------------------------

Init ==
    /\ index = [c \in Contents |-> None]
    /\ store = [c \in Contents |-> None]
    /\ cut = {}
    /\ copies = [c \in Contents |-> {}]
    /\ cms = {}
    /\ j = [t \in Tools |-> NoJob]
    /\ next = 1
    /\ spoiled = {}
    /\ failed = FALSE

\* What a run and the servers it calls do, once it is started.
Proceed(t) ==
    \/ getContentKey(t)
    \/ CreateOutput(t)
    \/ ProcessEncryption(t)
    \/ ProcessEncryptionRemote(t)
    \/ StoreAdd(t)
    \/ AddContent(t)
    \/ AddRow(t)
    \/ UpdateRow(t)
    \/ NotifyCMS(t)
    \/ AbortNotification(t)

Next ==
    \/ \E t \in Tools :
          \/ Run(t)
          \/ Proceed(t)
          \/ getContentKeyLost(t)
          \/ NotifyTimeout(t)
          \/ NotifyCMSFails(t)
          \/ Exit(t)
    \/ \E c \in Contents : GetContentFile(c)

Spec == Init /\ [][Next]_vars

\* A run that is started is executed to its end.
FairSpec == Spec /\ \A t \in Tools : WF_vars(Proceed(t))

-----------------------------------------------------------------------------

\* The publication link of a license always leads to a file: whatever fails, is killed or
\* overlaps, AddContent writes the content row after the file is in place.
IndexedIsStored == \A c \in Contents : index[c] # None => store[c] # None

\* A fresh license opens the stored file: the order of ProcessEncryption and AddContent,
\* and every failure between their steps, keep the key of the row and the key of the file
\* equal, unless a key lookup was lost, another key was imposed, runs overlapped or a run
\* was aborted; and the file is only cut while a run writes it or when something failed.
KeysAgree ==
    /\ \A c \in Contents \ spoiled : index[c] # None => store[c] = index[c]
    /\ \A c \in cut : failed \/ \E t \in Tools : j[t].content = c /\ Writing(j[t])

\* A fresh license opens what a reader downloaded before an update: under the same
\* conditions getContentKey keeps one key for the life of a publication.
CopiesStayReadable ==
    \A c \in Contents \ spoiled : index[c] # None => copies[c] \subseteq {index[c]}

\* The CMS, notified last, knows only publications the License Server can license.
CmsContentLicensable == \A c \in cms \ spoiled : index[c] # None

\* A run on a local input that meets no failure publishes: License Server and CMS know it,
\* and the file is whole.
Published ==
    \A t \in Tools, c \in Contents :
        (j[t].pc \in {"lookup", "encrypt"} /\ j[t].content = c /\ ~j[t].remote)
            ~> (failed \/ c \in spoiled \/ next > MaxKeys
                   \/ (index[c] # None /\ c \in cms /\ c \notin cut))
=============================================================================
