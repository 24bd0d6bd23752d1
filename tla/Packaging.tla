------------------------------ MODULE Packaging ------------------------------
(***************************************************************************)
(* The encryption of one publication: an EPUB (processEPUB, epub.Read,     *)
(* pack.Do), or a Readium package (processRPF, RPFReader, RPFWriter,       *)
(* pack.Process), given as such or built in a temporary file from a PDF or *)
(* from a W3C package (processPDF, processLPF).                            *)
(*                                                                         *)
(* A package is the set of its files and the lists of its manifest; of an  *)
(* EPUB there is also the archive, its files in order.  A manifest names   *)
(* a file by an href, which is the name of the file or its escaped form:   *)
(* the places of the code that turn hrefs into names differ in which of    *)
(* the two they understand.  What a file holds is abstracted to whether it *)
(* is in clear, encrypted under the key of this run, or encrypted by       *)
(* someone else before.                                                    *)
(***************************************************************************)
EXTENDS Naturals, Sequences

CONSTANTS
    FileName,   \* the names of files
    Packages,   \* the publications that may be processed
    Spaced,     \* file names with characters that are escaped in a URL
    QueryUnescape, \* what url.QueryUnescape makes of a file name: a plus sign becomes a space
    Failures    \* whether reading, writing or removing a file may fail

VARIABLES
    pkg,      \* the publication
    extract,  \* whether the cover is extracted beside the encrypted file
    pc,       \* "build", "open", "write", "close", "cover" or "end"
    todo,     \* what is left to write, in order
    out,      \* the entries of the output
    marks,    \* the reading order of the output manifest, or the items of encryption.xml
    known,    \* the hrefs that epub.Read has found in encryption.xml
    lost,     \* whether some output has not reached the disk
    short,    \* files that have been read only in part
    tmp,      \* whether the temporary package exists
    cover,    \* whether a cover file exists beside the output
    kept,     \* whether a file that was to be removed could not be
    result    \* "running", "ok", "error" or "panic"

vars == <<pkg, extract, pc, todo, out, marks, known, lost, short, tmp, cover, kept, result>>

Entries(list) == {list[i] : i \in DOMAIN list}

NoFile == "nofile"
Manifest == "manifest.json"
W3CManifest == "publication.json"
Encryption == "META-INF/encryption.xml"
Mimetype == "mimetype"

Hrefs == [file : FileName, escaped : BOOLEAN]
Items == [href : Hrefs, sealed : BOOLEAN]

Href(f) == [file |-> f, escaped |-> FALSE]

\* A comparison of an href with a file name.
Named(h) == IF h.escaped THEN NoFile ELSE h.file

\* url.QueryUnescape of an href: an escaped one gives its file, a name may give another one.
Unescaped(h) == IF h.escaped THEN h.file ELSE QueryUnescape[h.file]

\* What every publication has but a PDF: files, some of them encrypted before.
IsArchive(p) ==
    /\ p.files \subseteq FileName \ {NoFile}
    /\ p.foreign \subseteq FileName \ {Mimetype, Encryption, Manifest}
    /\ p.order \in Seq(Items)

\* The manifest of a Readium package marks items as encrypted, rightly or not, and lists
\* itself among its links at most.
IsReadium(p) ==
    /\ IsArchive(p)
    /\ p.resources \in Seq([href : Hrefs, cover : BOOLEAN])
    /\ p.links \in Seq([href : Hrefs, self : BOOLEAN, cover : BOOLEAN])
    /\ \A o \in Entries(p.order) : Unescaped(o.href) # Manifest
    /\ \A r \in Entries(p.resources) : r.href.file # Manifest

\* The archive of an EPUB holds each file once; its encryption.xml, whose items are order,
\* lists the files that are encrypted before.
IsEPUB(p) ==
    /\ IsArchive(p)
    /\ p.zip \in Seq(FileName) /\ p.files = Entries(p.zip)
    /\ \A i, k \in DOMAIN p.zip : p.zip[i] = p.zip[k] => i = k
    /\ p.foreign = {o.href.file : o \in Entries(p.order)}
    /\ p.items \in Seq([href : Hrefs, role : {"cover", "nav", "content"}, media : BOOLEAN])
    /\ p.roots \subseteq FileName /\ p.meta \subseteq FileName /\ p.titled \in BOOLEAN

ASSUME PackagingAssumption ==
    /\ Failures \in BOOLEAN
    /\ QueryUnescape \in [FileName -> FileName]
    /\ QueryUnescape["publication.pdf"] = "publication.pdf"
    /\ {NoFile, Manifest, W3CManifest, Encryption, Mimetype, "publication.pdf", "cover.jpg"}
          \subseteq FileName
    /\ \A p \in Packages :
          \/ p.format = "pdf"
          \/ p.format \in {"rpf", "lpf"} /\ IsReadium(p)
          \/ p.format = "epub" /\ IsEPUB(p)

\* One type invariant for the module.
TypeOK ==
    /\ pkg \in Packages
    /\ {extract, lost, tmp, cover, kept} \subseteq BOOLEAN
    /\ pc \in {"build", "open", "write", "close", "cover", "end"}
    /\ todo \in Seq([do : {"skip", "keep", "nil", "copy", "encrypt", "either"},
                     name : FileName])
    /\ out \in Seq([name : FileName, body : {"clear", "foreign", "cipher", "double"}])
    /\ marks \in Seq(Items) /\ known \subseteq Hrefs
    /\ short \subseteq FileName
    /\ result \in {"running", "ok", "error", "panic"}
    /\ result = "running" <=> pc # "end"
    /\ result = "running" => (pc = "write" <=> todo # <<>>)

-----------------------------------------------------------------------------
(* A definition X_bug that stands before a definition X is a mutated form  *)
(* of it; the specification uses none of them.                             *)

\* The URI of a file in encryption.xml: its escaped path.
URI(f) == [file |-> f, escaped |-> f \in Spaced]

DataForFile_unescaped(f) == \E m \in Entries(marks) : m.href = Href(f)

\* DataForFile: an item of encryption.xml with the URI of the file.
DataForFile(f) == \E m \in Entries(marks) : m.href = URI(f)

\* The body of a file of the source, encrypted.
Sealed(body) == IF body = "clear" THEN "cipher" ELSE "double"

\* A write goes through a buffered writer, which keeps its first error and reports it at
\* that write, at a later one or when it is closed.
Write(e) ==
    /\ out' = Append(out, e)
    /\ lost' \in {lost} \cup (IF Failures THEN {TRUE} ELSE {})

\* The deferred os.Remove of the temporary package, whose error is ignored.
RemoveTmp(exists) ==
    /\ tmp' \in {FALSE} \cup (IF Failures THEN {exists} ELSE {})
    /\ kept' = (kept \/ tmp')

Start(work) == todo' = work /\ pc' = IF work = <<>> THEN "close" ELSE "write"
Next1 == todo' = Tail(todo) /\ pc' = IF Len(todo) = 1 THEN "close" ELSE "write"
Doing(work) == result = "running" /\ pc = "write" /\ Head(todo).do = work

-----------------------------------------------------------------------------
(* The Readium package: a given one, or the temporary one.                 *)

\* BuildRPFFromPDF: the file and its cover, with the manifest of both.
PDFPackage ==
    [files |-> {"publication.pdf", "cover.jpg", Manifest},
     foreign |-> {},
     order |-> <<[href |-> Href("publication.pdf"), sealed |-> FALSE]>>,
     resources |-> <<[href |-> Href("cover.jpg"), cover |-> TRUE]>>,
     links |-> <<>>]

\* mapLinks: the links of a W3C manifest keep their URLs and get no properties.
mapLinks(order) == [i \in DOMAIN order |-> [href |-> order[i].href, sealed |-> FALSE]]

generateRWPManifest(p) ==
    [order |-> mapLinks(p.order), resources |-> p.resources, links |-> p.links]

\* BuildRPFFromLPF: the generated manifest, then every file as it is, but the ones a
\* Macintosh adds.
LPFPackage(p) ==
    LET manifest == generateRWPManifest(p)
    IN [files |-> {Manifest} \cup (p.files \ {"__MACOSX"}), foreign |-> p.foreign,
        order |-> manifest.order, resources |-> manifest.resources, links |-> manifest.links]

Readium(p) ==
    CASE p.format = "pdf" -> PDFPackage
      [] p.format = "lpf" -> LPFPackage(p)
      [] OTHER -> p

Body(p, f) == IF f \in p.foreign THEN "foreign" ELSE "clear"

\* NewWriter copies at once the W3C manifest, the resources (found or not) and the links
\* that name a file, but for the manifest itself.
NewWriterResource(p, f) == [do |-> IF f \in p.files THEN "keep" ELSE "nil", name |-> f]

NewWriterLink(p, l) ==
    LET named == ~l.self /\ l.href # Href(Manifest) /\ Named(l.href) \in p.files
    IN [do |-> IF named THEN "keep" ELSE "skip", name |-> Named(l.href)]

NewWriterWork(p) ==
    (IF W3CManifest \in p.files THEN <<[do |-> "keep", name |-> W3CManifest]>> ELSE <<>>)
    \o [i \in DOMAIN p.resources |-> NewWriterResource(p, Named(p.resources[i].href))]
    \o [i \in DOMAIN p.links |-> NewWriterLink(p, p.links[i])]

ResourceWork(p, f, sealed) ==
    [do |-> IF f \notin p.files THEN "skip" ELSE IF sealed THEN "copy" ELSE "encrypt",
     name |-> f]

Resources_named(p) ==
    [i \in DOMAIN p.order |-> ResourceWork(p, Named(p.order[i].href), p.order[i].sealed)]

\* Resources and the loop of Process: the files of the reading order, the ones encrypted
\* before to be copied; an href that names no file is skipped.
Resources(p) ==
    [i \in DOMAIN p.order |-> ResourceWork(p, Unescaped(p.order[i].href), p.order[i].sealed)]

-----------------------------------------------------------------------------

Init ==
    /\ pkg \in Packages
    /\ extract \in BOOLEAN
    /\ pc = "build"
    /\ todo = <<>> /\ out = <<>> /\ marks = <<>> /\ known = {}
    /\ lost = FALSE /\ short = {} /\ tmp = FALSE /\ cover = FALSE /\ kept = FALSE
    /\ result = "running"

\* extractRWPInfo stores the cover of a PDF before the package is complete.
LeavesCover == pc = "build" /\ pkg.format = "pdf"

\* The temporary package has been created, in part at least.
Building == pc = "build" /\ pkg.format \in {"pdf", "lpf"}

\* Any other early return; when the output cannot be measured the nil result of Stat is
\* used.  The temporary package is removed on the way out, a cover is not.
Fail ==
    /\ Failures /\ result = "running"
    /\ result' \in {"error"} \cup (IF pc = "cover" THEN {"panic"} ELSE {})
    /\ pc' = "end"
    /\ RemoveTmp(tmp \/ Building)
    /\ cover' \in {cover} \cup (IF LeavesCover THEN {TRUE} ELSE {})
    /\ UNCHANGED <<pkg, extract, todo, out, marks, known, lost, short>>

\* processPDF, up to the encryption: the cover is removed when it is not asked for, and an
\* error of this is ignored.
processPDF ==
    /\ result = "running" /\ pc = "build" /\ pkg.format = "pdf"
    /\ tmp' = TRUE
    /\ cover' \in {extract} \cup (IF Failures THEN {TRUE} ELSE {})
    /\ kept' = (cover' /\ ~extract)
    /\ pc' = "open"
    /\ UNCHANGED <<pkg, extract, todo, out, marks, known, lost, short, result>>

\* The first resource that is a cover, or else the first link.
ExtractCoverHref(p) ==
    LET list == p.resources \o p.links
        covers == {i \in DOMAIN list : list[i].cover}
    IN IF covers = {} THEN Href(NoFile)
       ELSE list[CHOOSE i \in covers : \A k \in covers : i <= k].href

\* ExtractCoverFromRPF: a file has this very name; without one there is no cover, and no
\* error.
HasCover(p) == Named(ExtractCoverHref(p)) \in p.files

\* processLPF and processRPF, up to the encryption.
processRPF ==
    /\ result = "running" /\ pc = "build" /\ pkg.format \in {"rpf", "lpf"}
    /\ pkg.format = "lpf" => W3CManifest \in pkg.files
    /\ tmp' = (pkg.format = "lpf")
    /\ cover' \in {extract /\ HasCover(Readium(pkg))} \cup (IF Failures THEN {FALSE} ELSE {})
    /\ pc' = "open"
    /\ UNCHANGED <<pkg, extract, todo, out, marks, known, lost, short, kept, result>>

\* OpenRPF: the manifest is the entry of this name.  The error of closing the temporary
\* package is ignored, but a package cut short has no zip directory and cannot be opened.
OpenRPF ==
    /\ result = "running" /\ pc = "open"
    /\ Manifest \in Readium(pkg).files
    /\ LET p == Readium(pkg)
       IN marks' = p.order /\ Start(NewWriterWork(p) \o Resources(p))
    /\ UNCHANGED <<pkg, extract, out, known, lost, short, tmp, cover, kept, result>>

\* What is missing ends the run: no W3C manifest, no manifest, no rootfile.
Incomplete ==
    /\ result = "running"
    /\ \/ /\ pc = "build" /\ pkg.format = "lpf" /\ W3CManifest \notin pkg.files
       \/ /\ pc = "build" /\ pkg.format = "epub" /\ ~pkg.roots \subseteq pkg.files
       \/ /\ pc = "open" /\ Manifest \notin Readium(pkg).files
    /\ result' = "error" /\ pc' = "end" /\ RemoveTmp(tmp)
    /\ UNCHANGED <<pkg, extract, todo, out, marks, known, lost, short, cover>>

\* processEPUB takes the first title of the first package without looking for it.
Untitled ==
    /\ result = "running" /\ pc = "build" /\ pkg.format = "epub"
    /\ pkg.roots \subseteq pkg.files /\ (pkg.roots = {} \/ ~pkg.titled)
    /\ result' = "panic" /\ pc' = "end"
    /\ UNCHANGED <<pkg, extract, todo, out, marks, known, lost, short, tmp, cover, kept>>

\* The continue of a loop over links, files or entries.
Skip ==
    /\ Doing("skip")
    /\ Next1
    /\ UNCHANGED <<pkg, extract, out, marks, known, lost, short, tmp, cover, kept, result>>

\* NewWriter copies a file; it is not in the reading order of the manifest.
NewWriterKeep ==
    /\ Doing("keep")
    /\ Write([name |-> Head(todo).name, body |-> Body(Readium(pkg), Head(todo).name)])
    /\ Next1
    /\ UNCHANGED <<pkg, extract, marks, known, short, tmp, cover, kept, result>>

\* NewWriter does not check that it has found a resource: sourceFile is nil.
NewWriterNil ==
    /\ Doing("nil")
    /\ result' = "panic" /\ pc' = "end" /\ RemoveTmp(tmp)
    /\ UNCHANGED <<pkg, extract, todo, out, marks, known, lost, short, cover>>

\* NewFile adds a path to the reading order when no href is this very path.
NewFile(list, f) ==
    IF \E m \in Entries(list) : Named(m.href) = f
    THEN list
    ELSE Append(list, [href |-> Href(f), sealed |-> FALSE])

MarkAsEncrypted_last(list, f) ==
    [list EXCEPT ![Len(list)].sealed = TRUE]

\* MarkAsEncrypted marks the first item of the reading order whose href is the path.
MarkAsEncrypted(list, f) ==
    LET same == {i \in DOMAIN list : Named(list[i].href) = f}
    IN IF same = {} THEN list
       ELSE [list EXCEPT ![CHOOSE i \in same : \A k \in same : i <= k].sealed = TRUE]

\* rwpResource.CopyTo.
CopyTo ==
    LET f == Head(todo).name IN
    /\ Doing("copy")
    /\ Write([name |-> f, body |-> Body(Readium(pkg), f)])
    /\ marks' = NewFile(marks, f)
    /\ Next1
    /\ UNCHANGED <<pkg, extract, known, short, tmp, cover, kept, result>>

encryptRPFResource ==
    LET f == Head(todo).name IN
    /\ Doing("encrypt")
    /\ Write([name |-> f, body |-> Sealed(Body(Readium(pkg), f))])
    /\ marks' = MarkAsEncrypted(NewFile(marks, f), f)
    /\ Next1
    /\ UNCHANGED <<pkg, extract, known, short, tmp, cover, kept, result>>

-----------------------------------------------------------------------------
(* The EPUB.                                                               *)

\* epub.Read lists the files that stay in clear: the rootfiles, META-INF, and the items
\* that are a cover or navigation, under the path their href makes as it stands.
CleartextResources(p) ==
    p.roots \cup p.meta
    \cup {Named(i.href) : i \in {k \in Entries(p.items) : k.role \in {"cover", "nav"}}}

\* CanEncrypt searches the sorted list.
CanEncrypt(f) == f \notin CleartextResources(pkg)

\* mustCompressBeforeEncryption: everything but images, audio, video and PDF.  The media
\* type is the one of the item whose href is the path; without one the file is compressed.
MustCompress(f) ==
    ~\E i \in Entries(pkg.items) : Named(i.href) = f /\ i.media

\* epub.Read: mimetype and encryption.xml are no resources.
ReadEntry(f) == [do |-> IF f \in {Mimetype, Encryption} THEN "skip" ELSE "either", name |-> f]

\* epub.Read ignores the error of xmlenc.Read: the items before it are all that is known.
ReadEncryption ==
    \E n \in 0..Len(pkg.order) :
       /\ n = Len(pkg.order) \/ Failures
       /\ marks' = SubSeq(pkg.order, 1, n)
       /\ known' = {m.href : m \in Entries(marks')}

\* processEPUB up to Do and its WriteHeader.
processEPUB ==
    /\ result = "running" /\ pc = "build" /\ pkg.format = "epub"
    /\ pkg.roots \subseteq pkg.files /\ pkg.roots # {} /\ pkg.titled
    /\ Start([i \in DOMAIN pkg.zip |-> ReadEntry(pkg.zip[i])])
    /\ Write([name |-> Mimetype, body |-> "clear"])
    /\ ReadEncryption
    /\ UNCHANGED <<pkg, extract, short, tmp, cover, kept, result>>

\* Do copies a file that encryption.xml lists or that stays in clear.
Copy ==
    LET f == Head(todo).name IN
    /\ Doing("either") /\ (DataForFile(f) \/ ~CanEncrypt(f))
    /\ Write([name |-> f, body |-> Body(pkg, f)])
    /\ Next1
    /\ UNCHANGED <<pkg, extract, marks, known, short, tmp, cover, kept, result>>

\* encryptEPUBResource lists the file, then writes it.  A read error while the file is
\* compressed is ignored: what has been read is encrypted as if it were the file.
encryptEPUBResource ==
    LET f == Head(todo).name IN
    /\ Doing("either") /\ ~DataForFile(f) /\ CanEncrypt(f)
    /\ Write([name |-> f, body |-> Sealed(Body(pkg, f))])
    /\ marks' = Append(marks, [href |-> URI(f), sealed |-> TRUE])
    /\ short' \in {short} \cup (IF Failures /\ MustCompress(f) THEN {short \cup {f}} ELSE {})
    /\ Next1
    /\ UNCHANGED <<pkg, extract, known, tmp, cover, kept, result>>

-----------------------------------------------------------------------------
(* The end of both.                                                        *)

ListFile == IF pkg.format = "epub" THEN Encryption ELSE Manifest

Close_errorIgnored ==
    /\ result = "running" /\ pc = "close"
    /\ out' = Append(out, [name |-> ListFile, body |-> "clear"])
    /\ pc' = "cover"
    /\ UNCHANGED <<pkg, extract, todo, marks, known, lost, short, tmp, cover, kept, result>>

\* RPFWriter.Close writes the manifest; Do writes encryption.xml, and ignores an error of
\* this write.  The zip writer is closed, and reports what has been lost; a lost buffer
\* leaves a file without a zip directory.
Close ==
    /\ result = "running" /\ pc = "close"
    /\ \/ ~lost /\ Write([name |-> ListFile, body |-> "clear"]) /\ ~lost'
          /\ pc' = "cover" /\ UNCHANGED <<result, tmp, kept>>
       \/ (Failures \/ lost) /\ result' = "error" /\ pc' = "end" /\ RemoveTmp(tmp)
          /\ lost' = TRUE /\ UNCHANGED out
    /\ UNCHANGED <<pkg, extract, todo, marks, known, short, cover>>

HasEPUBCover ==
    \E i \in Entries(pkg.items) : i.role = "cover" /\ Named(i.href) \in pkg.files

\* Size and checksum; processEPUB extracts the cover (none is not an error, nor is one that
\* cannot be opened); the temporary package is removed.
processEnd ==
    /\ result = "running" /\ pc = "cover"
    /\ cover' \in IF pkg.format = "epub"
                  THEN {extract /\ HasEPUBCover} \cup (IF Failures THEN {FALSE} ELSE {})
                  ELSE {cover}
    /\ result' = "ok" /\ pc' = "end"
    /\ RemoveTmp(tmp)
    /\ UNCHANGED <<pkg, extract, todo, out, marks, known, lost, short>>

Next ==
    \/ processEPUB \/ processPDF \/ processRPF \/ OpenRPF \/ Incomplete \/ Untitled
    \/ Skip \/ NewWriterKeep \/ NewWriterNil \/ CopyTo \/ encryptRPFResource
    \/ Copy \/ encryptEPUBResource
    \/ Close \/ processEnd \/ Fail

Spec == Init /\ [][Next]_vars

-----------------------------------------------------------------------------
(* Properties.  A reading system resolves an escaped href to the file it   *)
(* stands for.                                                             *)

\* What stays in clear by design: what leads into the publication.
Navigation(p) ==
    IF pkg.format = "epub"
    THEN {Mimetype, Encryption} \cup p.roots \cup p.meta
         \cup {i.href.file : i \in {k \in Entries(p.items) : k.role \in {"cover", "nav"}}}
    ELSE {Manifest, W3CManifest} \cup {r.href.file : r \in Entries(p.resources \o p.links)}

\* The reading order names each file once, by an href that Resources takes for this file
\* and NewFile recognises, and no file that is also a resource.
Plain(p) ==
    /\ \A i, k \in DOMAIN p.order : p.order[i].href.file = p.order[k].href.file => i = k
    /\ \A o \in Entries(p.order) :
          /\ ~o.href.escaped /\ Unescaped(o.href) = o.href.file
          /\ o.href.file \notin Navigation(p)

\* The items that Resources takes for a file are marked when it was encrypted before, and
\* only then.
Told(p, f) ==
    \A o \in Entries(p.order) : Unescaped(o.href) = f => (o.sealed <=> f \in p.foreign)

\* encryption.xml has been read to its end.
AllKnown == known = {m.href : m \in Entries(pkg.order)}

\* Reading systems decide from the manifest, or from encryption.xml, whether to decrypt a
\* file: in the output of a run that succeeds the two agree for every file, whether it has
\* been encrypted by this run (MarkAsEncrypted, encryptEPUBResource), was encrypted before
\* or stays in clear.  (What an encryption.xml that cannot be read to its end listed is
\* missing in the output, and a manifest must be plain and right about the file.)
MarkedIffSealed ==
    result = "ok" =>
        IF pkg.format = "epub"
        THEN \A e \in Entries(out) :
                e.body # "foreign" \/ AllKnown =>
                   (e.body # "clear" <=> \E m \in Entries(marks) : m.href.file = e.name)
        ELSE Plain(Readium(pkg)) =>
                \A m \in Entries(marks), e \in Entries(out) :
                   m.href.file = e.name /\ Told(Readium(pkg), e.name) =>
                      (m.sealed <=> e.body # "clear")

\* At all times every file in the output is encrypted as it should be.  A file that is
\* encrypted already is not encrypted a second time, when epub.Read has found its URI in
\* encryption.xml, or when every item of the reading order that resolves to it, under
\* whatever name, is marked.  No file is in clear that is not navigation, unless an item that
\* resolves to it is wrongly marked; in a plain package no navigation has been encrypted.
\* (The path of an escaped cover of an EPUB is not the one CanEncrypt knows: it is encrypted.)
SealedAsDue ==
    LET epub == pkg.format = "epub"
        p == Readium(pkg)
        plain == IF epub THEN \A i \in Entries(pkg.items) : ~i.href.escaped ELSE Plain(p)
    IN /\ TypeOK
       /\ \A e \in Entries(out) :
             /\ (IF epub THEN URI(e.name) \in known ELSE Told(p, e.name)) => e.body # "double"
             /\ e.body = "clear" /\ (epub \/ Told(p, e.name)) => e.name \in Navigation(p)
             /\ e.name \in Navigation(p) /\ plain => e.body = Body(p, e.name)

\* A run that succeeds loses no file: all of an EPUB is in the output once, as is all that
\* the reading order of a package names, by an escaped href too; mimetype comes first and
\* the list of what is encrypted last.  (A raw plus sign makes Resources look for another
\* file than the one that is named.)
Delivered ==
    LET p == Readium(pkg)
        written(f) == {i \in DOMAIN out : out[i].name = f}
    IN result = "ok" =>
        /\ written(ListFile) = {Len(out)}
        /\ IF pkg.format = "epub"
           THEN /\ out[1].name = Mimetype
                /\ \A f \in pkg.files : \E i \in DOMAIN out : written(f) = {i}
           ELSE \A o \in Entries(p.order) :
                   o.href.file \in p.files /\ Unescaped(o.href) = o.href.file =>
                      written(o.href.file) # {}

\* A write that is lost, at any entry, makes the run fail in the end although its error may
\* come late.  However a run ends its temporary package is gone, and one that succeeds
\* leaves a cover only when it has been asked for one, unless the file could not be removed.
FailureReported ==
    /\ result = "ok" => ~lost /\ (cover => extract \/ kept)
    /\ result # "running" => (tmp => kept)
=============================================================================
