--------------------------- MODULE PackagingProofs ---------------------------
(***************************************************************************)
(* Proofs about Packaging, for every set of publications of the shape that *)
(* PackagingAssumption gives them: nothing but navigation is ever written  *)
(* in clear, the list of what is encrypted is right, no file is lost, and  *)
(* a write that fails is reported.                                         *)
(***************************************************************************)
EXTENDS Packaging, TLAPS

-----------------------------------------------------------------------------
(* The inductive invariant.                                                *)

Work == [do : {"skip", "keep", "nil", "copy", "encrypt", "either"}, name : FileName]
Output == [name : FileName, body : {"clear", "foreign", "cipher", "double"}]

Running == result = "running"

\* Between the opening of the source and the end of a run that succeeds.
Opened == pc \in {"write", "close", "cover"} \/ result = "ok"

\* The list of what is encrypted has been written.
Closed == pc = "cover" \/ result = "ok"

\* What a run owes its caller when it ends.
Report ==
    /\ ~Running => (tmp => kept)
    /\ Closed => ~lost
    /\ result = "ok" \/ Running => (cover => extract \/ kept)
    /\ Running /\ pc = "build" => cover = FALSE /\ tmp = FALSE
    /\ result = "ok" => todo = <<>>
    /\ pc = "build" => out = <<>>
    /\ pc = "open" => out = <<>>
    /\ pkg.format = "epub" => pc # "open"

\* The list of what is encrypted is written once, at the end.
ListedLast ==
    /\ Closed => out # <<>> /\ out[Len(out)].name = ListFile
    /\ \A i \in DOMAIN out : out[i].name = ListFile => i = Len(out) /\ (Running => Closed)

Names(list) == {x.name : x \in Entries(list)}

\* The names of the work that writes a file of a reading order.
Due(list) == {x.name : x \in {y \in Entries(list) : y.do \in {"copy", "encrypt"}}}

\* A Readium package: where the work comes from.
FromPackage(w) ==
    /\ w.do # "either"
    /\ w.do = "keep" => w.name \in Navigation(Readium(pkg)) \ {Manifest}
    /\ w.do \in {"copy", "encrypt"} =>
          \E o \in Entries(Readium(pkg).order) :
             Unescaped(o.href) = w.name /\ (o.sealed <=> w.do = "copy")

WorkOfPackage == \A w \in Entries(todo) : FromPackage(w)

\* What the output holds of a Readium package.
OutOfPackage ==
    LET p == Readium(pkg) IN
    \A e \in Entries(out) :
       /\ e.body = "double" => ~Told(p, e.name)
       /\ e.body = "clear" /\ Told(p, e.name) => e.name \in Navigation(p)
       /\ e.name \in Navigation(p) /\ Plain(p) => e.body = Body(p, e.name)

\* A file of the reading order is in the output, or there is work to write it.
AllOfPackage ==
    Opened =>
        \A o \in Entries(Readium(pkg).order) :
           o.href.file \in Readium(pkg).files /\ Unescaped(o.href) = o.href.file =>
              o.href.file \in Names(out) \cup Due(todo)

\* The manifest of a plain package keeps its items, and an item whose file has been written
\* is marked.
MarksOfPackage ==
    LET order == Readium(pkg).order IN
    Opened /\ Plain(Readium(pkg)) =>
        /\ DOMAIN marks = DOMAIN order
        /\ \A i \in DOMAIN order :
              /\ marks[i].href = order[i].href
              /\ order[i].sealed => marks[i].sealed
              /\ order[i].href.file \in Names(out) => marks[i].sealed

PackageInv == WorkOfPackage /\ OutOfPackage /\ AllOfPackage /\ MarksOfPackage

\* An EPUB: each of its files is to be written once, or has been.
WorkOfEPUB ==
    /\ \A i \in DOMAIN todo :
          /\ todo[i].do \in {"either", "skip"}
          /\ todo[i].do = "skip" => todo[i].name \in {Mimetype, Encryption}
          /\ todo[i].do = "either" =>
                todo[i].name \in pkg.files \ ({Mimetype, Encryption} \cup Names(out))
    /\ \A i, k \in DOMAIN todo : todo[i].name = todo[k].name => i = k
    /\ \A i, k \in DOMAIN out : out[i].name = out[k].name => i = k
    /\ Opened => /\ out # <<>> /\ out[1].name = Mimetype
                 /\ \A f \in pkg.files \ {Mimetype, Encryption} : f \in Names(out) \cup Names(todo)

\* encryption.xml lists what it was found to list before and what has been encrypted.
MarksOfEPUB ==
    /\ Opened => \A h \in known : \E m \in Entries(marks) : m.href = h
    /\ \A m \in Entries(marks) :
          \/ m \in Entries(pkg.order)
          \/ \E e \in Entries(out) : e.name = m.href.file /\ e.body # "clear"
    /\ Opened => \A e \in Entries(out) :
          e.body # "clear" /\ (e.body # "foreign" \/ AllKnown) =>
             \E m \in Entries(marks) : m.href.file = e.name

OutOfEPUB ==
    \A e \in Entries(out) :
       /\ e.body = "double" => URI(e.name) \notin known
       /\ e.body = "clear" => e.name \in Navigation(pkg) \ pkg.foreign
       /\ e.name \in Navigation(pkg) /\ (\A i \in Entries(pkg.items) : ~i.href.escaped) =>
             e.body = Body(pkg, e.name)

EPUBInv == WorkOfEPUB /\ MarksOfEPUB /\ OutOfEPUB

IInv ==
    /\ TypeOK /\ Report /\ ListedLast
    /\ IF pkg.format = "epub" THEN EPUBInv ELSE PackageInv

-----------------------------------------------------------------------------
(* Sequences.                                                              *)

LEMMA AppendFacts ==
    ASSUME NEW S, NEW s \in Seq(S), NEW e \in S
    PROVE  /\ Append(s, e) \in Seq(S)
           /\ Len(Append(s, e)) = Len(s) + 1 /\ Len(s) \in Nat
           /\ DOMAIN Append(s, e) = 1..Len(s) + 1 /\ DOMAIN s = 1..Len(s)
           /\ \A i \in DOMAIN s : Append(s, e)[i] = s[i]
           /\ Append(s, e)[Len(s) + 1] = e
           /\ Append(s, e) # <<>>
           /\ Entries(Append(s, e)) = Entries(s) \cup {e}
<1>1. /\ Append(s, e) \in Seq(S)
      /\ Len(Append(s, e)) = Len(s) + 1 /\ Len(s) \in Nat
      /\ DOMAIN Append(s, e) = 1..Len(s) + 1 /\ DOMAIN s = 1..Len(s)
      /\ \A i \in DOMAIN s : Append(s, e)[i] = s[i]
      /\ Append(s, e)[Len(s) + 1] = e
      /\ Append(s, e) # <<>>
  OBVIOUS
<1>2. DOMAIN Append(s, e) = DOMAIN s \cup {Len(s) + 1} /\ Len(s) + 1 \notin DOMAIN s
  BY <1>1
<1>3. ASSUME NEW x
      PROVE  x \in Entries(Append(s, e)) <=> x \in Entries(s) \cup {e}
  BY <1>1, <1>2 DEF Entries
<1> QED BY <1>1, <1>3

LEMMA TailFacts ==
    ASSUME NEW S, NEW s \in Seq(S), s # <<>>
    PROVE  /\ Tail(s) \in Seq(S) /\ Len(Tail(s)) = Len(s) - 1 /\ Len(s) \in Nat \ {0}
           /\ DOMAIN s = 1..Len(s)
           /\ Head(s) = s[1] /\ Head(s) \in S /\ 1 \in DOMAIN s
           /\ \A i \in DOMAIN Tail(s) : i \in Nat \ {0} /\ i + 1 \in DOMAIN s /\ Tail(s)[i] = s[i + 1]
           /\ Entries(s) = {Head(s)} \cup Entries(Tail(s))
<1>1. /\ Tail(s) \in Seq(S) /\ Len(Tail(s)) = Len(s) - 1 /\ Len(s) \in Nat \ {0}
      /\ Head(s) = s[1] /\ Head(s) \in S /\ 1 \in DOMAIN s
      /\ DOMAIN s = 1..Len(s) /\ DOMAIN Tail(s) = 1..(Len(s) - 1)
  OBVIOUS
<1>2. \A i \in DOMAIN Tail(s) : i \in Nat \ {0} /\ i + 1 \in DOMAIN s /\ Tail(s)[i] = s[i + 1]
  BY <1>1
<1>3. ASSUME NEW x \in Entries(s)
      PROVE  x \in {Head(s)} \cup Entries(Tail(s))
  <2>1. PICK i \in DOMAIN s : x = s[i] BY DEF Entries
  <2>2. CASE i = 1 BY <1>1, <2>1, <2>2
  <2>3. CASE i # 1
    <3>1. i - 1 \in DOMAIN Tail(s) /\ (i - 1) + 1 = i BY <1>1, <2>1, <2>3
    <3>2. Tail(s)[i - 1] = x BY <1>2, <2>1, <3>1
    <3> QED BY <3>1, <3>2 DEF Entries
  <2> QED BY <2>2, <2>3
<1>4. ASSUME NEW x \in {Head(s)} \cup Entries(Tail(s))
      PROVE  x \in Entries(s)
  BY <1>1, <1>2 DEF Entries
<1> QED BY <1>1, <1>2, <1>3, <1>4

LEMMA ConcatEntries ==
    ASSUME NEW S, NEW s \in Seq(S), NEW t \in Seq(S)
    PROVE  s \o t \in Seq(S) /\ Entries(s \o t) = Entries(s) \cup Entries(t)
<1>1. /\ s \o t \in Seq(S) /\ Len(s) \in Nat /\ Len(t) \in Nat
      /\ DOMAIN (s \o t) = 1..(Len(s) + Len(t))
      /\ DOMAIN s = 1..Len(s) /\ DOMAIN t = 1..Len(t)
      /\ \A i \in 1..(Len(s) + Len(t)) : (s \o t)[i] = IF i <= Len(s) THEN s[i] ELSE t[i - Len(s)]
  OBVIOUS
<1>2. ASSUME NEW x \in Entries(s \o t)
      PROVE  x \in Entries(s) \cup Entries(t)
  <2>1. PICK i \in 1..(Len(s) + Len(t)) : x = (s \o t)[i] BY <1>1 DEF Entries
  <2>2. CASE i <= Len(s) BY <1>1, <2>1, <2>2 DEF Entries
  <2>3. CASE ~(i <= Len(s))
    <3>1. i - Len(s) \in DOMAIN t /\ x = t[i - Len(s)] BY <1>1, <2>1, <2>3
    <3> QED BY <3>1 DEF Entries
  <2> QED BY <2>2, <2>3
<1>3. ASSUME NEW x \in Entries(s)
      PROVE  x \in Entries(s \o t)
  <2>1. PICK i \in DOMAIN s : x = s[i] BY DEF Entries
  <2>2. i \in DOMAIN (s \o t) /\ (s \o t)[i] = x BY <1>1, <2>1
  <2> QED BY <2>2 DEF Entries
<1>4. ASSUME NEW x \in Entries(t)
      PROVE  x \in Entries(s \o t)
  <2>1. PICK i \in DOMAIN t : x = t[i] BY DEF Entries
  <2>2. /\ Len(s) + i \in DOMAIN (s \o t) /\ ~(Len(s) + i <= Len(s)) /\ (Len(s) + i) - Len(s) = i
    BY <1>1, <2>1
  <2>3. (s \o t)[Len(s) + i] = x BY <1>1, <2>1, <2>2
  <2> QED BY <2>2, <2>3 DEF Entries
<1> QED BY <1>1, <1>2, <1>3, <1>4

-----------------------------------------------------------------------------
(* The packages.                                                           *)

LEMMA EntriesOfSeq ==
    ASSUME NEW S, NEW s \in Seq(S)
    PROVE  Entries(s) \subseteq S
BY DEF Entries

LEMMA SeqEntry ==
    ASSUME NEW S, NEW s \in Seq(S), NEW i \in DOMAIN s
    PROVE  s[i] \in S /\ s[i] \in Entries(s)
BY DEF Entries

LEMMA EmptyList ==
    ASSUME NEW S, NEW s \in Seq(S)
    PROVE  s = <<>> <=> Len(s) = 0
OBVIOUS

LEMMA OneEntry ==
    ASSUME NEW S, NEW x \in S
    PROVE  <<x>> \in Seq(S) /\ Entries(<<x>>) = {x}
BY DEF Entries

LEMMA NoEntry ==
    ASSUME NEW S
    PROVE  <<>> \in Seq(S) /\ Entries(<<>>) = {}
BY DEF Entries

LEMMA ListIsSeq ==
    ASSUME NEW S, NEW n \in Nat, NEW f, f = [i \in 1..n |-> f[i]],
           \A i \in DOMAIN f : f[i] \in S
    PROVE  f \in Seq(S) /\ Len(f) = n /\ DOMAIN f = 1..n
<1>1. DOMAIN f = 1..n OBVIOUS
<1>2. f \in [1..n -> S] BY <1>1
<1>3. f \in Seq(S) BY <1>2
<1> QED BY <1>1, <1>3

LEMMA SeqSubset ==
    ASSUME NEW S, NEW T, S \subseteq T, NEW s \in Seq(S)
    PROVE  s \in Seq(T)
<1>1. Len(s) \in Nat /\ s = [i \in 1..Len(s) |-> s[i]] /\ \A i \in DOMAIN s : s[i] \in S
  OBVIOUS
<1> QED BY <1>1, ListIsSeq

\* A package that is opened has the shape of a Readium package: a given one, and also the
\* ones built from a PDF and from a W3C package.
LEMMA ReadiumShape ==
    ASSUME pkg \in Packages, pkg.format # "epub"
    PROVE  IsReadium(Readium(pkg))
<1>1. CASE pkg.format = "pdf"
  <2>1. Readium(pkg) = PDFPackage BY <1>1 DEF Readium
  <2>2. /\ PDFPackage.files = {"publication.pdf", "cover.jpg", Manifest}
        /\ PDFPackage.foreign = {}
        /\ PDFPackage.order = <<[href |-> Href("publication.pdf"), sealed |-> FALSE]>>
        /\ PDFPackage.resources = <<[href |-> Href("cover.jpg"), cover |-> TRUE]>>
        /\ PDFPackage.links = <<>>
    BY DEF PDFPackage
  <2>a. /\ [href |-> Href("publication.pdf"), sealed |-> FALSE] \in Items
        /\ [href |-> Href("cover.jpg"), cover |-> TRUE] \in [href : Hrefs, cover : BOOLEAN]
    BY PackagingAssumption DEF Items, Hrefs, Href
  <2>b. /\ PDFPackage.order \in Seq(Items)
        /\ PDFPackage.resources \in Seq([href : Hrefs, cover : BOOLEAN])
        /\ PDFPackage.links \in Seq([href : Hrefs, self : BOOLEAN, cover : BOOLEAN])
    BY <2>2, <2>a, OneEntry, NoEntry
  <2>3. IsArchive(PDFPackage)
    BY <2>2, <2>b, PackagingAssumption DEF IsArchive, NoFile, Manifest
  <2>c. /\ Entries(PDFPackage.order) = {[href |-> Href("publication.pdf"), sealed |-> FALSE]}
        /\ Entries(PDFPackage.resources) = {[href |-> Href("cover.jpg"), cover |-> TRUE]}
    BY <2>2, <2>a, OneEntry
  <2>5. /\ \A o \in Entries(PDFPackage.order) : o.href = Href("publication.pdf")
        /\ \A o \in Entries(PDFPackage.resources) : o.href.file = "cover.jpg"
    BY <2>c DEF Href
  <2>6. Unescaped(Href("publication.pdf")) = "publication.pdf"
    BY PackagingAssumption DEF Unescaped, Href
  <2> QED BY <2>1, <2>2, <2>3, <2>b, <2>5, <2>6 DEF IsReadium, Manifest
<1>2. CASE pkg.format = "lpf"
  <2> DEFINE q == LPFPackage(pkg)
  <2>1. Readium(pkg) = q BY <1>2 DEF Readium
  <2>2. IsReadium(pkg) BY <1>2, PackagingAssumption
  <2>3. /\ q.files = {Manifest} \cup (pkg.files \ {"__MACOSX"})
        /\ q.foreign = pkg.foreign
        /\ q.order = [i \in DOMAIN pkg.order |-> [href |-> pkg.order[i].href, sealed |-> FALSE]]
        /\ q.resources = pkg.resources /\ q.links = pkg.links
    BY DEF LPFPackage, generateRWPManifest, mapLinks
  <2> HIDE DEF q
  <2>4. /\ pkg.order \in Seq(Items) /\ DOMAIN pkg.order = 1..Len(pkg.order)
        /\ Len(pkg.order) \in Nat
        /\ \A i \in DOMAIN pkg.order : pkg.order[i] \in Items
    BY <2>2 DEF IsReadium, IsArchive
  <2>5. \A i \in DOMAIN q.order :
           /\ q.order[i] \in Items /\ ~q.order[i].sealed /\ i \in DOMAIN pkg.order
           /\ q.order[i].href = pkg.order[i].href
    BY <2>3, <2>4 DEF Items
  <2>6. q.order \in Seq(Items)
    <3>1. q.order = [i \in 1..Len(pkg.order) |-> q.order[i]] BY <2>3, <2>4
    <3> QED BY <2>4, <2>5, <3>1, ListIsSeq
  <2>7. q.files \subseteq FileName \ {NoFile}
    BY <2>2, <2>3, PackagingAssumption DEF IsArchive, IsReadium, NoFile, Manifest
  <2>9. IsArchive(q)
    BY <2>2, <2>3, <2>6, <2>7 DEF IsArchive, IsReadium
  <2>8. \A o \in Entries(q.order) : Unescaped(o.href) # Manifest
    BY <2>2, <2>5 DEF Entries, IsReadium
  <2> QED BY <2>1, <2>2, <2>3, <2>9, <2>8 DEF IsReadium
<1>3. CASE pkg.format \notin {"pdf", "lpf"}
  <2>1. Readium(pkg) = pkg BY <1>3 DEF Readium
  <2> QED BY <1>3, <2>1, PackagingAssumption
<1> QED BY <1>1, <1>2, <1>3

LEMMA NamedFacts ==
    ASSUME NEW h \in Hrefs
    PROVE  /\ Named(h) \in {h.file, NoFile} /\ Named(h) \in FileName
           /\ Unescaped(h) \in FileName
           /\ ~h.escaped => Named(h) = h.file
BY PackagingAssumption DEF Hrefs, Named, Unescaped

\* The three parts of the work on a Readium package.
LEMMA ResourcesWork ==
    ASSUME pkg \in Packages, pkg.format # "epub",
           NEW p, p = Readium(pkg)
    PROVE  /\ Resources(p) \in Seq(Work)
           /\ \A w \in Entries(Resources(p)) : FromPackage(w)
           /\ \A o \in Entries(p.order) :
                 o.href.file \in p.files /\ Unescaped(o.href) = o.href.file =>
                    o.href.file \in Due(Resources(p))
<1> DEFINE list == Resources(p)
           item(i) == ResourceWork(p, Unescaped(p.order[i].href), p.order[i].sealed)
<1>1. IsReadium(p) BY ReadiumShape
<1>2. /\ p.order \in Seq(Items) /\ Len(p.order) \in Nat /\ DOMAIN p.order = 1..Len(p.order)
      /\ \A i \in DOMAIN p.order : p.order[i] \in Items
  BY <1>1 DEF IsReadium, IsArchive
<1>3. list = [i \in 1..Len(p.order) |-> item(i)]
  BY <1>2 DEF Resources
<1>4. ASSUME NEW i \in DOMAIN p.order
      PROVE  /\ item(i) \in Work /\ FromPackage(item(i))
             /\ Unescaped(p.order[i].href) \in p.files =>
                   /\ item(i).name = Unescaped(p.order[i].href)
                   /\ item(i).do \in {"copy", "encrypt"}
  <2> DEFINE o == p.order[i]
             f == Unescaped(o.href)
  <2>1. o \in Items /\ o.href \in Hrefs /\ o.sealed \in BOOLEAN BY <1>2 DEF Items
  <2>2. f \in FileName
    BY <2>1, NamedFacts
  <2>3. o \in Entries(p.order) BY DEF Entries
  <2> HIDE DEF o, f
  <2>5. /\ item(i).name = f
        /\ item(i).do = IF f \notin p.files THEN "skip" ELSE IF o.sealed THEN "copy" ELSE "encrypt"
    BY DEF ResourceWork, o, f
  <2>6. CASE f \notin p.files
    <3>1. item(i).do = "skip" BY <2>1, <2>5, <2>6
    <3>2. item(i) \in Work BY <2>2, <2>6 DEF ResourceWork, Work, o, f
    <3>3. FromPackage(item(i)) BY <3>1 DEF FromPackage
    <3> QED BY <2>6, <3>2, <3>3 DEF o, f
  <2>7. CASE f \in p.files
    <3>1. item(i).do = IF o.sealed THEN "copy" ELSE "encrypt" BY <2>1, <2>5, <2>7
    <3>2. Unescaped(o.href) = f BY DEF f
    <3>3. item(i) \in Work BY <2>1, <2>2, <2>7 DEF ResourceWork, Work, o, f
    <3>4. FromPackage(item(i)) BY <2>1, <2>3, <2>5, <3>1, <3>2 DEF FromPackage
    <3> QED BY <2>5, <3>1, <3>2, <3>3, <3>4 DEF o
  <2> QED BY <2>6, <2>7
<1> HIDE DEF item
<1>5. DOMAIN list = 1..Len(p.order) /\ \A i \in DOMAIN list : list[i] = item(i) /\ i \in DOMAIN p.order
  BY <1>2, <1>3
<1>6. list \in Seq(Work)
  <2>1. list = [i \in 1..Len(p.order) |-> list[i]] BY <1>3
  <2> HIDE DEF list
  <2>2. \A i \in DOMAIN list : list[i] \in Work BY <1>4, <1>5
  <2> QED BY <1>2, <2>1, <2>2, ListIsSeq
<1>7. \A w \in Entries(list) : FromPackage(w)
  BY <1>4, <1>5 DEF Entries
<1>8. ASSUME NEW o \in Entries(p.order), o.href.file \in p.files, Unescaped(o.href) = o.href.file
      PROVE  o.href.file \in Due(list)
  <2> HIDE DEF list
  <2>1. PICK i \in DOMAIN p.order : o = p.order[i] BY DEF Entries
  <2>2. /\ i \in DOMAIN list /\ list[i].name = o.href.file
        /\ list[i].do \in {"copy", "encrypt"}
    BY <1>2, <1>4, <1>5, <1>8, <2>1
  <2>3. list[i] \in Entries(list) BY <2>2 DEF Entries
  <2> QED BY <2>2, <2>3 DEF Due
<1> QED BY <1>6, <1>7, <1>8

LEMMA NewWriterWorks ==
    ASSUME pkg \in Packages, pkg.format # "epub",
           NEW p, p = Readium(pkg)
    PROVE  /\ NewWriterWork(p) \in Seq(Work)
           /\ \A w \in Entries(NewWriterWork(p)) : FromPackage(w)
<1> DEFINE first == IF W3CManifest \in p.files THEN <<[do |-> "keep", name |-> W3CManifest]>> ELSE <<>>
           resources == [i \in DOMAIN p.resources |-> NewWriterResource(p, Named(p.resources[i].href))]
           links == [i \in DOMAIN p.links |-> NewWriterLink(p, p.links[i])]
<1>1. IsReadium(p) BY ReadiumShape
<1>2. /\ Len(p.resources) \in Nat /\ DOMAIN p.resources = 1..Len(p.resources)
      /\ \A i \in DOMAIN p.resources :
            /\ p.resources[i] \in Entries(p.resources)
            /\ p.resources[i].href \in Hrefs /\ p.resources[i].href.file # Manifest
      /\ Len(p.links) \in Nat /\ DOMAIN p.links = 1..Len(p.links)
      /\ \A i \in DOMAIN p.links :
            p.links[i] \in Entries(p.links) /\ p.links[i].href \in Hrefs
  <2>1. /\ p.resources \in Seq([href : Hrefs, cover : BOOLEAN])
        /\ p.links \in Seq([href : Hrefs, self : BOOLEAN, cover : BOOLEAN])
        /\ \A r \in Entries(p.resources) : r.href.file # Manifest
    BY <1>1 DEF IsReadium
  <2>2. /\ Len(p.resources) \in Nat /\ DOMAIN p.resources = 1..Len(p.resources)
        /\ Len(p.links) \in Nat /\ DOMAIN p.links = 1..Len(p.links)
    BY <2>1
  <2>3. \A i \in DOMAIN p.resources :
           p.resources[i] \in [href : Hrefs, cover : BOOLEAN] /\ p.resources[i] \in Entries(p.resources)
    BY <2>1, SeqEntry
  <2>4. \A i \in DOMAIN p.links :
           /\ p.links[i] \in [href : Hrefs, self : BOOLEAN, cover : BOOLEAN]
           /\ p.links[i] \in Entries(p.links)
    BY <2>1, SeqEntry
  <2> QED BY <2>1, <2>2, <2>3, <2>4
<1>n. NoFile \notin p.files BY <1>1 DEF IsReadium, IsArchive
<1>m. Navigation(p) = {Manifest, W3CManifest} \cup {r.href.file : r \in Entries(p.resources \o p.links)}
  BY DEF Navigation
<1>e. /\ \A r \in Entries(p.resources) : r.href.file \in Navigation(p)
      /\ \A r \in Entries(p.links) : r.href.file \in Navigation(p)
  <2> DEFINE R == [href : Hrefs, cover : BOOLEAN] \cup [href : Hrefs, self : BOOLEAN, cover : BOOLEAN]
  <2>1. p.resources \in Seq(R) /\ p.links \in Seq(R)
    <3>1. /\ p.resources \in Seq([href : Hrefs, cover : BOOLEAN])
          /\ p.links \in Seq([href : Hrefs, self : BOOLEAN, cover : BOOLEAN])
      BY <1>1 DEF IsReadium
    <3>2. /\ [href : Hrefs, cover : BOOLEAN] \subseteq R
          /\ [href : Hrefs, self : BOOLEAN, cover : BOOLEAN] \subseteq R
      OBVIOUS
    <3> HIDE DEF R
    <3> QED BY <3>1, <3>2, SeqSubset
  <2> HIDE DEF R
  <2>2. Entries(p.resources \o p.links) = Entries(p.resources) \cup Entries(p.links)
    BY <2>1, ConcatEntries
  <2> QED BY <1>m, <2>2
<1>w. W3CManifest \in Navigation(p) \ {Manifest} BY <1>m DEF W3CManifest, Manifest
<1>3. first \in Seq(Work) /\ \A w \in Entries(first) : FromPackage(w)
  <2> DEFINE k == [do |-> "keep", name |-> W3CManifest]
  <2>1. k \in Work /\ k.do = "keep" /\ k.name = W3CManifest BY PackagingAssumption DEF Work
  <2>2. FromPackage(k) BY <1>w, <2>1 DEF FromPackage
  <2> HIDE DEF k
  <2>3. <<k>> \in Seq(Work) /\ Entries(<<k>>) = {k} BY <2>1, OneEntry
  <2>4. <<>> \in Seq(Work) /\ Entries(<<>>) = {} BY NoEntry
  <2>5. first = <<k>> \/ first = <<>> BY DEF k
  <2> HIDE DEF first
  <2> QED BY <2>2, <2>3, <2>4, <2>5
<1>4. resources \in Seq(Work) /\ \A w \in Entries(resources) : FromPackage(w)
  <2>1. ASSUME NEW i \in DOMAIN p.resources
        PROVE  resources[i] \in Work /\ FromPackage(resources[i])
    <3> DEFINE r == p.resources[i]
    <3>1. /\ r.href \in Hrefs /\ r.href.file # Manifest /\ r.href.file \in Navigation(p)
      BY <1>2, <1>e
    <3>2. Named(r.href) \in FileName /\ Named(r.href) \in {r.href.file, NoFile} BY <3>1, NamedFacts
    <3>3. resources[i] = NewWriterResource(p, Named(r.href)) OBVIOUS
    <3> HIDE DEF resources, r
    <3>4. resources[i] \in Work BY <3>2, <3>3 DEF NewWriterResource, Work
    <3>5. /\ resources[i].name = Named(r.href)
          /\ resources[i].do = IF Named(r.href) \in p.files THEN "keep" ELSE "nil"
      BY <3>3 DEF NewWriterResource
    <3>6. FromPackage(resources[i]) BY <1>n, <3>1, <3>2, <3>5 DEF FromPackage
    <3> QED BY <3>4, <3>6
  <2>2. resources = [i \in 1..Len(p.resources) |-> resources[i]] /\ DOMAIN resources = DOMAIN p.resources
    BY <1>2
  <2> HIDE DEF resources
  <2>3. resources \in Seq(Work) BY <1>2, <2>1, <2>2, ListIsSeq
  <2> QED BY <2>1, <2>2, <2>3 DEF Entries
<1>5. links \in Seq(Work) /\ \A w \in Entries(links) : FromPackage(w)
  <2>1. ASSUME NEW i \in DOMAIN p.links
        PROVE  links[i] \in Work /\ FromPackage(links[i])
    <3> DEFINE l == p.links[i]
               named == ~l.self /\ l.href # Href(Manifest) /\ Named(l.href) \in p.files
    <3>1. l.href \in Hrefs /\ l.href.file \in Navigation(p) BY <1>2, <1>e
    <3>2. Named(l.href) \in FileName /\ Named(l.href) \in {l.href.file, NoFile} BY <3>1, NamedFacts
    <3>3. ASSUME named
          PROVE  Named(l.href) \in Navigation(p) \ {Manifest}
      <4>1. Named(l.href) = l.href.file /\ l.href.file # NoFile BY <1>n, <3>2, <3>3
      <4>2. ~l.href.escaped BY <3>1, <4>1 DEF Named, Hrefs
      <4>3. l.href.file # Manifest BY <3>1, <3>3, <4>2 DEF Href, Hrefs
      <4> QED BY <3>1, <4>1, <4>3
    <3>4. links[i] = [do |-> IF named THEN "keep" ELSE "skip", name |-> Named(l.href)]
      BY DEF NewWriterLink
    <3> HIDE DEF links, l, named
    <3>5. links[i] \in Work BY <3>2, <3>4 DEF Work
    <3>6. links[i].name = Named(l.href) /\ links[i].do = IF named THEN "keep" ELSE "skip" BY <3>4
    <3>7. FromPackage(links[i]) BY <3>3, <3>6 DEF FromPackage
    <3> QED BY <3>5, <3>7
  <2>2. links = [i \in 1..Len(p.links) |-> links[i]] /\ DOMAIN links = DOMAIN p.links
    BY <1>2
  <2> HIDE DEF links
  <2>3. links \in Seq(Work) BY <1>2, <2>1, <2>2, ListIsSeq
  <2> QED BY <2>1, <2>2, <2>3 DEF Entries
<1>6. NewWriterWork(p) = (first \o resources) \o links BY DEF NewWriterWork
<1> HIDE DEF first, resources, links
<1>7. /\ first \o resources \in Seq(Work)
      /\ Entries(first \o resources) = Entries(first) \cup Entries(resources)
  BY <1>3, <1>4, ConcatEntries
<1>8. /\ NewWriterWork(p) \in Seq(Work)
      /\ Entries(NewWriterWork(p)) = Entries(first \o resources) \cup Entries(links)
  <2> DEFINE both == first \o resources
  <2>1. both \in Seq(Work) /\ links \in Seq(Work) /\ NewWriterWork(p) = both \o links
    BY <1>5, <1>6, <1>7
  <2> HIDE DEF both
  <2>2. both \o links \in Seq(Work) /\ Entries(both \o links) = Entries(both) \cup Entries(links)
    BY <2>1, ConcatEntries
  <2> QED BY <2>1, <2>2 DEF both
<1> QED BY <1>3, <1>4, <1>5, <1>7, <1>8

LEMMA BodyFacts ==
    ASSUME NEW p, NEW f
    PROVE  /\ Body(p, f) \in {"clear", "foreign"}
           /\ Body(p, f) = "foreign" <=> f \in p.foreign
           /\ Sealed(Body(p, f)) = IF f \in p.foreign THEN "double" ELSE "cipher"
BY DEF Body, Sealed

-----------------------------------------------------------------------------
(* The type invariant.                                                     *)

\* A step of the loops: the first piece of the work is done.
LEMMA LoopStep ==
    ASSUME TypeOK, NEW work, Doing(work)
    PROVE  /\ todo # <<>> /\ todo \in Seq(Work)
           /\ Head(todo) \in Work /\ Head(todo).do = work /\ Head(todo).name \in FileName
           /\ Head(todo) \in Entries(todo)
           /\ Entries(todo) = {Head(todo)} \cup Entries(Tail(todo))
           /\ Running /\ pc = "write" /\ Opened /\ ~Closed
           /\ Next1 => /\ todo' \in Seq(Work) /\ pc' \in {"write", "close"}
                       /\ pc' = "write" <=> todo' # <<>>
                       /\ todo' = Tail(todo)
<1>1. todo # <<>> /\ todo \in Seq(Work) BY DEF TypeOK, Doing, Work
<1>2. /\ Head(todo) \in Work /\ Entries(todo) = {Head(todo)} \cup Entries(Tail(todo))
      /\ Tail(todo) \in Seq(Work) /\ Len(Tail(todo)) = Len(todo) - 1 /\ Len(todo) \in Nat \ {0}
  BY <1>1, TailFacts
<1>3. Head(todo).do = work /\ Running /\ pc = "write" /\ Opened /\ ~Closed
  BY DEF Doing, Running, Opened, Closed
<1>4. Head(todo).name \in FileName BY <1>2 DEF Work
<1>5. Tail(todo) # <<>> <=> Len(todo) # 1
  <2>1. Tail(todo) = <<>> <=> Len(Tail(todo)) = 0 BY <1>2, EmptyList
  <2> QED BY <1>2, <2>1
<1>6. ASSUME Next1
      PROVE  /\ todo' \in Seq(Work) /\ pc' \in {"write", "close"}
             /\ pc' = "write" <=> todo' # <<>>
             /\ todo' = Tail(todo)
  BY <1>2, <1>5, <1>6 DEF Next1
<1> QED BY <1>1, <1>2, <1>3, <1>4, <1>6

LEMMA WriteType ==
    ASSUME TypeOK, NEW e \in Output, Write(e)
    PROVE  out' \in Seq(Output) /\ lost' \in BOOLEAN /\ out' = Append(out, e)
<1>1. out \in Seq(Output) /\ lost \in BOOLEAN BY DEF TypeOK, Output
<1>2. lost' \in {lost, TRUE} BY DEF Write
<1> QED BY <1>1, <1>2, AppendFacts DEF Write

LEMMA MarkAppend ==
    ASSUME NEW list \in Seq(Items), NEW f \in FileName
    PROVE  NewFile(list, f) \in Seq(Items) /\ MarkAsEncrypted(list, f) \in Seq(Items)
<1>1. [href |-> Href(f), sealed |-> FALSE] \in Items BY DEF Items, Hrefs, Href
<1>2. NewFile(list, f) \in Seq(Items) BY <1>1, AppendFacts DEF NewFile
<1>3. MarkAsEncrypted(list, f) \in Seq(Items)
  <2> DEFINE same == {i \in DOMAIN list : Named(list[i].href) = f}
             c == CHOOSE i \in same : \A k \in same : i <= k
             new == [list EXCEPT ![c].sealed = TRUE]
  <2>1. MarkAsEncrypted(list, f) \in {list, new} BY DEF MarkAsEncrypted
  <2> HIDE DEF c
  <2>2. Len(list) \in Nat /\ list \in [1..Len(list) -> Items] OBVIOUS
  <2>3. ASSUME NEW x \in Items
        PROVE  [x EXCEPT !.sealed = TRUE] \in Items
    BY DEF Items
  <2>4. c \in 1..Len(list) => [list[c] EXCEPT !.sealed = TRUE] \in Items
    BY <2>2, <2>3
  <2>5. new \in [1..Len(list) -> Items]
    <3> DEFINE y == [list[c] EXCEPT !.sealed = TRUE]
    <3>1. new = [list EXCEPT ![c] = y] OBVIOUS
    <3>2. c \in 1..Len(list) => y \in Items BY <2>4
    <3> HIDE DEF y, new
    <3> QED BY <2>2, <3>1, <3>2
  <2> HIDE DEF new
  <2>6. new \in Seq(Items) BY <2>2, <2>5
  <2> QED BY <2>1, <2>6
<1> QED BY <1>2, <1>3

LEMMA RemoveFacts ==
    ASSUME TypeOK, NEW exists \in BOOLEAN, RemoveTmp(exists)
    PROVE  tmp' \in BOOLEAN /\ kept' \in BOOLEAN /\ (tmp' => kept') /\ (kept => kept')
<1>1. kept \in BOOLEAN /\ tmp' \in {FALSE, exists} BY DEF TypeOK, RemoveTmp
<1> QED BY <1>1 DEF RemoveTmp

LEMMA Prefix ==
    ASSUME NEW S, NEW s \in Seq(S), NEW n \in 0..Len(s)
    PROVE  SubSeq(s, 1, n) \in Seq(S) /\ Entries(SubSeq(s, 1, n)) \subseteq Entries(s)
<1> DEFINE t == SubSeq(s, 1, n)
<1>1. n \in Nat /\ Len(s) \in Nat /\ n <= Len(s) /\ DOMAIN s = 1..Len(s) OBVIOUS
<1>2. t = [i \in 1..n |-> s[i]] BY <1>1
<1> HIDE DEF t
<1>3. DOMAIN t = 1..n /\ \A i \in DOMAIN t : t[i] = s[i] /\ i \in DOMAIN s BY <1>1, <1>2
<1>4. \A i \in DOMAIN t : t[i] \in S /\ t[i] \in Entries(s) BY <1>3, SeqEntry
<1>5. t \in Seq(S)
  <2>1. t = [i \in 1..n |-> t[i]] BY <1>2
  <2> QED BY <1>1, <1>4, <2>1, ListIsSeq
<1>6. Entries(t) \subseteq Entries(s) BY <1>4 DEF Entries
<1> QED BY <1>5, <1>6 DEF t

\* The part of encryption.xml that is read.
LEMMA ReadFacts ==
    ASSUME pkg.order \in Seq(Items), ReadEncryption
    PROVE  /\ marks' \in Seq(Items) /\ Entries(marks') \subseteq Entries(pkg.order)
           /\ known' = {m.href : m \in Entries(marks')} /\ known' \subseteq Hrefs
<1>1. PICK n \in 0..Len(pkg.order) : /\ marks' = SubSeq(pkg.order, 1, n)
                                     /\ known' = {m.href : m \in Entries(marks')}
  BY DEF ReadEncryption
<1>2. marks' \in Seq(Items) /\ Entries(marks') \subseteq Entries(pkg.order) BY <1>1, Prefix
<1>3. Entries(marks') \subseteq Items BY <1>2, EntriesOfSeq
<1>4. \A m \in Items : m.href \in Hrefs BY DEF Items
<1> QED BY <1>1, <1>2, <1>3, <1>4

\* The work on an EPUB.
EPUBList == [i \in DOMAIN pkg.zip |-> ReadEntry(pkg.zip[i])]

LEMMA EPUBWork ==
    ASSUME pkg \in Packages, pkg.format = "epub"
    PROVE  /\ EPUBList \in Seq(Work) /\ DOMAIN EPUBList = DOMAIN pkg.zip
           /\ \A i \in DOMAIN EPUBList :
                 /\ EPUBList[i].name = pkg.zip[i] /\ pkg.zip[i] \in pkg.files
                 /\ EPUBList[i].do = IF pkg.zip[i] \in {Mimetype, Encryption} THEN "skip" ELSE "either"
           /\ IsEPUB(pkg)
<1>1. IsEPUB(pkg) BY PackagingAssumption
<1>2. /\ pkg.zip \in Seq(FileName) /\ Len(pkg.zip) \in Nat /\ DOMAIN pkg.zip = 1..Len(pkg.zip)
      /\ \A i \in DOMAIN pkg.zip : pkg.zip[i] \in FileName /\ pkg.zip[i] \in pkg.files
  BY <1>1 DEF IsEPUB, Entries
<1>3. EPUBList = [i \in 1..Len(pkg.zip) |-> EPUBList[i]] /\ DOMAIN EPUBList = DOMAIN pkg.zip
  BY <1>2 DEF EPUBList
<1>4. \A i \in DOMAIN EPUBList : EPUBList[i] = ReadEntry(pkg.zip[i]) BY DEF EPUBList
<1>5. ASSUME NEW i \in DOMAIN EPUBList
      PROVE  /\ EPUBList[i] \in Work
             /\ EPUBList[i].name = pkg.zip[i] /\ pkg.zip[i] \in pkg.files
             /\ EPUBList[i].do = IF pkg.zip[i] \in {Mimetype, Encryption} THEN "skip" ELSE "either"
  <2>1. EPUBList[i] = [do |-> IF pkg.zip[i] \in {Mimetype, Encryption} THEN "skip" ELSE "either",
                       name |-> pkg.zip[i]]
    BY <1>4 DEF ReadEntry
  <2>2. pkg.zip[i] \in FileName /\ pkg.zip[i] \in pkg.files BY <1>2, <1>3
  <2> QED BY <2>1, <2>2 DEF Work
<1>6. EPUBList \in Seq(Work) BY <1>2, <1>3, <1>5, ListIsSeq
<1> QED BY <1>1, <1>3, <1>5, <1>6

LEMMA TypeInit ==
    Init => TypeOK
<1> SUFFICES ASSUME Init PROVE TypeOK OBVIOUS
<1>1. todo \in Seq(Work) /\ out \in Seq(Output) /\ marks \in Seq(Items)
  BY NoEntry DEF Init
<1>2. /\ short \subseteq FileName /\ known \subseteq Hrefs
      /\ {extract, lost, tmp, cover, kept} \subseteq BOOLEAN
  BY DEF Init
<1> QED BY <1>1, <1>2 DEF Init, TypeOK, Work, Output

\* TypeOK, with the names of the two sets of records.
Typed(p, x, l, t, c, kp, k, td, o, m, kn, s, r) ==
    /\ p \in Packages
    /\ x \in BOOLEAN /\ l \in BOOLEAN /\ t \in BOOLEAN /\ c \in BOOLEAN
    /\ kp \in BOOLEAN /\ kn \subseteq Hrefs
    /\ k \in {"build", "open", "write", "close", "cover", "end"}
    /\ td \in Seq(Work) /\ o \in Seq(Output) /\ m \in Seq(Items)
    /\ s \subseteq FileName
    /\ r \in {"running", "ok", "error", "panic"}
    /\ r = "running" <=> k # "end"
    /\ r = "running" => (k = "write" <=> td # <<>>)

LEMMA TypeParts ==
    /\ TypeOK <=> Typed(pkg, extract, lost, tmp, cover, kept, pc, todo, out, marks, known, short, result)
    /\ TypeOK' <=> Typed(pkg', extract', lost', tmp', cover', kept', pc', todo', out', marks',
                          known', short', result')
BY DEF TypeOK, Typed, Work, Output

LEMMA TypeStep ==
    ASSUME TypeOK, Next, pkg.format = "epub" => pc # "open"
    PROVE  TypeOK'
<1>a. Typed(pkg, extract, lost, tmp, cover, kept, pc, todo, out, marks, known, short, result) BY TypeParts
<1> SUFFICES Typed(pkg', extract', lost', tmp', cover', kept', pc', todo', out', marks',
                   known', short', result')
  BY TypeParts
<1>f. Failures \in BOOLEAN BY PackagingAssumption
<1>b. \A x \in {Manifest, W3CManifest, Encryption, Mimetype} : x \in FileName
  BY PackagingAssumption
<1>1. CASE processEPUB
  <2> DEFINE e == [name |-> Mimetype, body |-> "clear"]
  <2>1. e \in Output BY <1>b DEF Output
  <2>2. Write(e) BY <1>1 DEF processEPUB
  <2>3. out' \in Seq(Output) /\ lost' \in BOOLEAN BY <2>1, <2>2, WriteType
  <2>4. EPUBList \in Seq(Work) /\ IsEPUB(pkg) BY <1>1, <1>a, EPUBWork DEF processEPUB, Typed
  <2>5. /\ todo' = EPUBList /\ pc' = IF EPUBList = <<>> THEN "close" ELSE "write"
    BY <1>1 DEF processEPUB, Start, EPUBList
  <2>6. marks' \in Seq(Items) /\ known' \subseteq Hrefs
    BY <1>1, <2>4, ReadFacts DEF processEPUB, IsEPUB, IsArchive
  <2> QED BY <1>1, <1>a, <2>3, <2>4, <2>5, <2>6 DEF processEPUB, Typed
<1>2. CASE processPDF
  <2>1. cover' \in {extract, TRUE} /\ kept' = (cover' /\ ~extract) BY <1>2 DEF processPDF
  <2>2. cover' \in BOOLEAN /\ kept' \in BOOLEAN BY <2>1, <1>a DEF Typed
  <2> QED BY <1>2, <1>a, <2>2 DEF processPDF, Typed
<1>3. CASE processRPF
  <2>1. cover' \in {extract /\ HasCover(Readium(pkg)), FALSE} BY <1>3 DEF processRPF
  <2>2. cover' \in BOOLEAN BY <2>1, <1>a DEF Typed
  <2>3. tmp' \in BOOLEAN BY <1>3 DEF processRPF
  <2> QED BY <1>3, <1>a, <2>2, <2>3 DEF processRPF, Typed
<1>4. CASE OpenRPF
  <2> DEFINE p == Readium(pkg)
             work == NewWriterWork(p) \o Resources(p)
  <2>1. p = Readium(pkg) /\ pkg \in Packages /\ pkg.format # "epub"
    BY <1>4, <1>a DEF OpenRPF, Typed
  <2>2. marks' = p.order /\ todo' = work /\ pc' = IF work = <<>> THEN "close" ELSE "write"
    BY <1>4 DEF OpenRPF, Start
  <2> HIDE DEF p
  <2>3. p.order \in Seq(Items) BY <2>1, ReadiumShape DEF IsReadium, IsArchive
  <2>4. work \in Seq(Work) BY <2>1, NewWriterWorks, ResourcesWork, ConcatEntries
  <2> HIDE DEF work
  <2> QED BY <1>4, <1>a, <2>2, <2>3, <2>4 DEF OpenRPF, Typed
<1>5. CASE Incomplete
  <2>1. tmp' \in BOOLEAN /\ kept' \in BOOLEAN BY <1>5, <1>a, RemoveFacts DEF Incomplete, Typed
  <2> QED BY <1>5, <1>a, <2>1 DEF Incomplete, Typed
<1>16. CASE Untitled BY <1>16, <1>a DEF Untitled, Typed
<1>6. CASE Skip BY <1>6, <1>a, LoopStep DEF Skip, Typed
<1>7. CASE NewWriterKeep
  <2> DEFINE f == Head(todo).name
             e == [name |-> f, body |-> Body(Readium(pkg), f)]
  <2>1. /\ f \in FileName /\ todo' \in Seq(Work) /\ pc' \in {"write", "close"}
        /\ pc' = "write" <=> todo' # <<>>
        /\ result = "running"
    BY <1>7, LoopStep DEF NewWriterKeep, Running
  <2>2. e \in Output BY <2>1, BodyFacts DEF Output
  <2>3. out' \in Seq(Output) /\ lost' \in BOOLEAN BY <1>7, <2>2, WriteType DEF NewWriterKeep
  <2> QED BY <1>7, <1>a, <2>1, <2>3 DEF NewWriterKeep, Typed
<1>8. CASE NewWriterNil
  <2>1. tmp' \in BOOLEAN /\ kept' \in BOOLEAN BY <1>8, <1>a, RemoveFacts DEF NewWriterNil, Typed
  <2> QED BY <1>8, <1>a, <2>1 DEF NewWriterNil, Typed
<1>9. CASE CopyTo
  <2> DEFINE f == Head(todo).name
             e == [name |-> f, body |-> Body(Readium(pkg), f)]
  <2>1. /\ f \in FileName /\ todo' \in Seq(Work) /\ pc' \in {"write", "close"}
        /\ pc' = "write" <=> todo' # <<>>
        /\ result = "running"
    BY <1>9, LoopStep DEF CopyTo, Running
  <2>2. e \in Output BY <2>1, BodyFacts DEF Output
  <2>3. out' \in Seq(Output) /\ lost' \in BOOLEAN BY <1>9, <2>2, WriteType DEF CopyTo
  <2>4. marks' \in Seq(Items) BY <1>9, <1>a, <2>1, MarkAppend DEF CopyTo, Typed
  <2> QED BY <1>9, <1>a, <2>1, <2>3, <2>4 DEF CopyTo, Typed
<1>10. CASE encryptRPFResource
  <2> DEFINE f == Head(todo).name
             e == [name |-> f, body |-> Sealed(Body(Readium(pkg), f))]
  <2>1. /\ f \in FileName /\ todo' \in Seq(Work) /\ pc' \in {"write", "close"}
        /\ pc' = "write" <=> todo' # <<>>
        /\ result = "running"
    BY <1>10, LoopStep DEF encryptRPFResource, Running
  <2>2. e \in Output BY <2>1, BodyFacts DEF Output
  <2>3. out' \in Seq(Output) /\ lost' \in BOOLEAN BY <1>10, <2>2, WriteType DEF encryptRPFResource
  <2>4. NewFile(marks, f) \in Seq(Items) BY <1>a, <2>1, MarkAppend DEF Typed
  <2>5. marks' \in Seq(Items) BY <1>10, <2>1, <2>4, MarkAppend DEF encryptRPFResource
  <2> QED BY <1>10, <1>a, <2>1, <2>3, <2>5 DEF encryptRPFResource, Typed
<1>11. CASE Copy
  <2> DEFINE f == Head(todo).name
             e == [name |-> f, body |-> Body(pkg, f)]
  <2>1. /\ f \in FileName /\ todo' \in Seq(Work) /\ pc' \in {"write", "close"}
        /\ pc' = "write" <=> todo' # <<>>
        /\ result = "running"
    BY <1>11, LoopStep DEF Copy, Running
  <2>2. e \in Output BY <2>1, BodyFacts DEF Output
  <2>3. out' \in Seq(Output) /\ lost' \in BOOLEAN BY <1>11, <2>2, WriteType DEF Copy
  <2> QED BY <1>11, <1>a, <2>1, <2>3 DEF Copy, Typed
<1>12. CASE encryptEPUBResource
  <2> DEFINE f == Head(todo).name
             e == [name |-> f, body |-> Sealed(Body(pkg, f))]
             m == [href |-> URI(f), sealed |-> TRUE]
  <2>1. /\ f \in FileName /\ todo' \in Seq(Work) /\ pc' \in {"write", "close"}
        /\ pc' = "write" <=> todo' # <<>>
        /\ result = "running"
    BY <1>12, LoopStep DEF encryptEPUBResource, Running
  <2>2. e \in Output BY <2>1, BodyFacts DEF Output
  <2>3. out' \in Seq(Output) /\ lost' \in BOOLEAN BY <1>12, <2>2, WriteType DEF encryptEPUBResource
  <2>4. m \in Items BY <2>1 DEF Items, Hrefs, URI
  <2>5. marks' = Append(marks, m) BY <1>12 DEF encryptEPUBResource
  <2>6. marks' \in Seq(Items) BY <1>a, <2>4, <2>5, AppendFacts DEF Typed
  <2>7. short' \subseteq short \cup {f} BY <1>12 DEF encryptEPUBResource
  <2>8. short' \subseteq FileName BY <1>a, <2>1, <2>7 DEF Typed
  <2> QED BY <1>12, <1>a, <2>1, <2>3, <2>6, <2>8 DEF encryptEPUBResource, Typed
<1>13. CASE Close
  <2> DEFINE e == [name |-> ListFile, body |-> "clear"]
  <2>1. e \in Output BY <1>b DEF ListFile, Output
  <2>2. CASE ~lost /\ Write(e) /\ ~lost' /\ pc' = "cover" /\ UNCHANGED <<result, tmp, kept>>
    <3>1. out' \in Seq(Output) /\ lost' \in BOOLEAN BY <2>1, <2>2, WriteType
    <3> QED BY <1>13, <1>a, <2>2, <3>1 DEF Close, Typed
  <2>3. CASE (Failures \/ lost) /\ result' = "error" /\ pc' = "end" /\ RemoveTmp(tmp)
             /\ lost' = TRUE /\ UNCHANGED out
    <3>1. tmp' \in BOOLEAN /\ kept' \in BOOLEAN BY <1>a, <2>3, RemoveFacts DEF Typed
    <3> QED BY <1>13, <1>a, <2>3, <3>1 DEF Close, Typed
  <2> QED BY <1>13, <2>2, <2>3 DEF Close
<1>14. CASE processEnd
  <2>1. cover' \in {extract /\ HasEPUBCover, FALSE, cover} BY <1>14 DEF processEnd
  <2>2. cover' \in BOOLEAN BY <2>1, <1>a DEF Typed
  <2>3. tmp' \in BOOLEAN /\ kept' \in BOOLEAN BY <1>14, <1>a, RemoveFacts DEF processEnd, Typed
  <2> QED BY <1>14, <1>a, <2>2, <2>3 DEF processEnd, Typed
<1>15. CASE Fail
  <2>1. cover' \in {cover, TRUE} /\ result' \in {"error", "panic"} BY <1>15 DEF Fail
  <2>2. (tmp \/ Building) \in BOOLEAN BY <1>a DEF Typed
  <2>3. tmp' \in BOOLEAN /\ kept' \in BOOLEAN BY <1>15, <2>2, RemoveFacts DEF Fail
  <2> QED BY <1>15, <1>a, <2>1, <2>3 DEF Fail, Typed
<1> QED BY <1>1, <1>2, <1>3, <1>4, <1>5, <1>6, <1>7, <1>8, <1>9, <1>10, <1>11, <1>12, <1>13,
           <1>14, <1>15, <1>16 DEF Next

-----------------------------------------------------------------------------
(* What is reported, and the list of what is encrypted.                    *)

\* A step that goes on, and one that ends the run.
LEMMA ReportOn ==
    ASSUME TypeOK, Report, UNCHANGED <<pkg, extract, tmp, cover, kept>>, Running, Running',
           pc' \in {"write", "close", "cover"}, Closed' => ~lost'
    PROVE  Report'
BY DEF Report, Running

LEMMA ReportEnd ==
    ASSUME TypeOK, Report, UNCHANGED <<pkg, out>>, Running, pc \in {"build", "open"} => result' # "ok",
           NEW exists \in BOOLEAN, RemoveTmp(exists), pc' = "end", result' \in {"ok", "error", "panic"},
           result' = "ok" => ~lost' /\ todo' = <<>> /\ (cover' => extract' \/ kept)
    PROVE  Report'
<1>1. (tmp' => kept') /\ (kept => kept') BY RemoveFacts
<1> QED BY <1>1 DEF Report, Running, Closed

LEMMA ReportStep ==
    ASSUME TypeOK, Report, Next
    PROVE  Report'
<1>a. /\ extract \in BOOLEAN /\ lost \in BOOLEAN /\ tmp \in BOOLEAN /\ cover \in BOOLEAN
      /\ kept \in BOOLEAN
      /\ result = "running" <=> pc # "end"
      /\ result = "running" => (pc = "write" <=> todo # <<>>)
  BY DEF TypeOK
<1>1. CASE processEPUB
  <2>1. pc' \in {"write", "close"} BY <1>1 DEF processEPUB, Start
  <2> QED BY <1>1, <2>1, ReportOn DEF processEPUB, Running, Closed
<1>2. CASE processPDF BY <1>2, <1>a DEF processPDF, Report, Running, Closed
<1>3. CASE processRPF
  <2>1. cover' => extract BY <1>3, <1>a DEF processRPF
  <2> QED BY <1>3, <1>a, <2>1 DEF processRPF, Report, Running, Closed
<1>4. CASE OpenRPF
  <2>1. pc' \in {"write", "close"} BY <1>4 DEF OpenRPF, Start
  <2> QED BY <1>4, <2>1, ReportOn DEF OpenRPF, Running, Closed
<1>5. CASE Incomplete BY <1>5, <1>a, ReportEnd DEF Incomplete, Running
<1>6. CASE Skip BY <1>6, ReportOn DEF Skip, Doing, Next1, Running, Closed
<1>7. CASE NewWriterKeep BY <1>7, ReportOn DEF NewWriterKeep, Doing, Next1, Running, Closed
<1>8. CASE NewWriterNil BY <1>8, <1>a, ReportEnd DEF NewWriterNil, Doing, Running
<1>9. CASE CopyTo BY <1>9, ReportOn DEF CopyTo, Doing, Next1, Running, Closed
<1>10. CASE encryptRPFResource
  BY <1>10, ReportOn DEF encryptRPFResource, Doing, Next1, Running, Closed
<1>11. CASE Copy BY <1>11, ReportOn DEF Copy, Doing, Next1, Running, Closed
<1>12. CASE encryptEPUBResource
  BY <1>12, ReportOn DEF encryptEPUBResource, Doing, Next1, Running, Closed
<1>13. CASE Close
  <2>1. CASE ~lost' /\ pc' = "cover" /\ UNCHANGED <<result, tmp, kept>>
    BY <1>13, <2>1, ReportOn DEF Close, Running
  <2>2. CASE result' = "error" /\ pc' = "end" /\ RemoveTmp(tmp) /\ UNCHANGED out
    BY <1>13, <1>a, <2>2, ReportEnd DEF Close, Running
  <2> QED BY <1>13, <2>1, <2>2 DEF Close
<1>14. CASE processEnd
  <2>1. cover' \in {extract /\ HasEPUBCover, FALSE, cover} BY <1>14 DEF processEnd
  <2>2. /\ cover => extract \/ kept
        /\ ~lost /\ todo = <<>>
    BY <1>14, <1>a DEF processEnd, Report, Running, Closed
  <2>3. cover' => extract \/ kept BY <1>a, <2>1, <2>2
  <2> QED BY <1>14, <1>a, <2>2, <2>3, ReportEnd DEF processEnd, Running
<1>15. CASE Fail
  <2>1. result' \in {"error", "panic"} /\ (tmp \/ Building) \in BOOLEAN BY <1>15 DEF Fail
  <2> QED BY <1>15, <2>1, ReportEnd DEF Fail, Running
<1>16. CASE Untitled BY <1>16, <1>a DEF Untitled, Report, Running, Closed
<1> QED BY <1>1, <1>2, <1>3, <1>4, <1>5, <1>6, <1>7, <1>8, <1>9, <1>10, <1>11, <1>12, <1>13,
           <1>14, <1>15, <1>16 DEF Next

\* Which loop does which work, and what it never writes.
LEMMA HeadFacts ==
    ASSUME IInv, NEW work \in {"keep", "copy", "encrypt", "either"}, Doing(work)
    PROVE  /\ work = "either" <=> pkg.format = "epub"
           /\ Head(todo).name # ListFile
           /\ pkg.format # "epub" => FromPackage(Head(todo))
<1>1. /\ todo # <<>> /\ todo \in Seq(Work) /\ Head(todo) \in Entries(todo) /\ Head(todo).do = work
  BY LoopStep DEF IInv
<1>2. CASE pkg.format = "epub"
  <2>1. Head(todo) = todo[1] /\ 1 \in DOMAIN todo BY <1>1, TailFacts
  <2>2. /\ todo[1].do \in {"either", "skip"}
        /\ todo[1].do = "either" => todo[1].name \notin {Mimetype, Encryption}
    BY <1>2, <2>1 DEF IInv, EPUBInv, WorkOfEPUB
  <2>3. work = "either" /\ Head(todo).name # Encryption BY <1>1, <2>1, <2>2
  <2> QED BY <1>2, <2>3 DEF ListFile
<1>3. CASE pkg.format # "epub"
  <2>1. FromPackage(Head(todo)) BY <1>1, <1>3 DEF IInv, PackageInv, WorkOfPackage
  <2>2. IsReadium(Readium(pkg)) BY <1>3, ReadiumShape DEF IInv, TypeOK
  <2>3. work # "either" BY <1>1, <2>1 DEF FromPackage
  <2>4. Head(todo).name # Manifest
    <3>1. CASE work = "keep" BY <1>1, <2>1, <3>1 DEF FromPackage
    <3>2. CASE work \in {"copy", "encrypt"}
      BY <1>1, <2>1, <2>2, <3>2 DEF FromPackage, IsReadium
    <3> QED BY <2>3, <3>1, <3>2
  <2> QED BY <1>3, <2>1, <2>3, <2>4 DEF ListFile
<1> QED BY <1>2, <1>3

LEMMA ListedWrite ==
    ASSUME TypeOK, ListedLast, Running, ~Closed, ~Closed', pkg' = pkg,
           NEW e \in Output, e.name # ListFile, out' = Append(out, e)
    PROVE  ListedLast'
<1>1. out \in Seq(Output) BY DEF TypeOK, Output
<1>2. \A i \in DOMAIN out' : (i \in DOMAIN out /\ out'[i] = out[i]) \/ out'[i] = e
  BY <1>1, AppendFacts
<1>3. \A i \in DOMAIN out : out[i].name # ListFile BY DEF ListedLast
<1>4. ListFile' = ListFile BY DEF ListFile
<1>5. \A i \in DOMAIN out' : out'[i].name # ListFile' BY <1>2, <1>3, <1>4
<1> QED BY <1>5 DEF ListedLast

LEMMA ListedSame ==
    ASSUME ListedLast, pkg' = pkg, out' = out, Closed' => Closed, Running' => Running /\ (Closed => Closed')
    PROVE  ListedLast'
<1>4. ListFile' = ListFile BY DEF ListFile
<1> QED BY <1>4 DEF ListedLast

LEMMA ListedStep ==
    ASSUME IInv, Next
    PROVE  ListedLast'
<1>a. TypeOK /\ ListedLast /\ Report BY DEF IInv
<1>b. result = "running" <=> pc # "end" BY <1>a DEF TypeOK
<1>f. \A x \in {Manifest, W3CManifest, Encryption, Mimetype} : x \in FileName
  BY PackagingAssumption
<1>1. CASE processEPUB
  <2> DEFINE e == [name |-> Mimetype, body |-> "clear"]
  <2>1. e \in Output BY <1>f DEF Output
  <2>2. out' = Append(out, e) BY <1>1 DEF processEPUB, Write
  <2>3. e.name # ListFile BY <1>1, Zenon DEF processEPUB, ListFile, Mimetype, Encryption
  <2>4. pkg' = pkg /\ Running /\ ~Closed /\ ~Closed'
    BY <1>1 DEF processEPUB, Start, Closed, Running
  <2> QED BY <1>a, <2>1, <2>2, <2>3, <2>4, ListedWrite
<1>2. CASE processPDF BY <1>2, <1>a, ListedSame DEF processPDF, Closed, Running
<1>3. CASE processRPF BY <1>3, <1>a, ListedSame DEF processRPF, Closed, Running
<1>4. CASE OpenRPF
  <2>1. pc' \in {"write", "close"} BY <1>4 DEF OpenRPF, Start
  <2> QED BY <1>4, <1>a, <2>1, ListedSame DEF OpenRPF, Closed, Running
<1>5. CASE Incomplete BY <1>5, <1>a, ListedSame DEF Incomplete, Closed, Running
<1>6. CASE Skip BY <1>6, <1>a, ListedSame DEF Skip, Doing, Next1, Closed, Running
<1>7. CASE NewWriterKeep
  <2> DEFINE f == Head(todo).name
             e == [name |-> f, body |-> Body(Readium(pkg), f)]
  <2>1. f \in FileName /\ Running /\ ~Closed /\ pc' \in {"write", "close"}
    BY <1>7, <1>a, LoopStep DEF NewWriterKeep
  <2>2. e \in Output BY <2>1, BodyFacts DEF Output
  <2>3. e.name # ListFile BY <1>7, HeadFacts DEF NewWriterKeep
  <2>4. out' = Append(out, e) /\ pkg' = pkg BY <1>7 DEF NewWriterKeep, Write
  <2>5. ~Closed' BY <1>7, <2>1 DEF NewWriterKeep, Closed, Running
  <2> QED BY <1>a, <2>1, <2>2, <2>3, <2>4, <2>5, ListedWrite
<1>8. CASE NewWriterNil BY <1>8, <1>a, ListedSame DEF NewWriterNil, Doing, Closed, Running
<1>9. CASE CopyTo
  <2> DEFINE f == Head(todo).name
             e == [name |-> f, body |-> Body(Readium(pkg), f)]
  <2>1. f \in FileName /\ Running /\ ~Closed /\ pc' \in {"write", "close"}
    BY <1>9, <1>a, LoopStep DEF CopyTo
  <2>2. e \in Output BY <2>1, BodyFacts DEF Output
  <2>3. e.name # ListFile BY <1>9, HeadFacts DEF CopyTo
  <2>4. out' = Append(out, e) /\ pkg' = pkg BY <1>9 DEF CopyTo, Write
  <2>5. ~Closed' BY <1>9, <2>1 DEF CopyTo, Closed, Running
  <2> QED BY <1>a, <2>1, <2>2, <2>3, <2>4, <2>5, ListedWrite
<1>10. CASE encryptRPFResource
  <2> DEFINE f == Head(todo).name
             e == [name |-> f, body |-> Sealed(Body(Readium(pkg), f))]
  <2>1. f \in FileName /\ Running /\ ~Closed /\ pc' \in {"write", "close"}
    BY <1>10, <1>a, LoopStep DEF encryptRPFResource
  <2>2. e \in Output BY <2>1, BodyFacts DEF Output
  <2>3. e.name # ListFile BY <1>10, HeadFacts DEF encryptRPFResource
  <2>4. out' = Append(out, e) /\ pkg' = pkg BY <1>10 DEF encryptRPFResource, Write
  <2>5. ~Closed' BY <1>10, <2>1 DEF encryptRPFResource, Closed, Running
  <2> QED BY <1>a, <2>1, <2>2, <2>3, <2>4, <2>5, ListedWrite
<1>11. CASE Copy
  <2> DEFINE f == Head(todo).name
             e == [name |-> f, body |-> Body(pkg, f)]
  <2>1. f \in FileName /\ Running /\ ~Closed /\ pc' \in {"write", "close"}
    BY <1>11, <1>a, LoopStep DEF Copy
  <2>2. e \in Output BY <2>1, BodyFacts DEF Output
  <2>3. e.name # ListFile BY <1>11, HeadFacts DEF Copy
  <2>4. out' = Append(out, e) /\ pkg' = pkg BY <1>11 DEF Copy, Write
  <2>5. ~Closed' BY <1>11, <2>1 DEF Copy, Closed, Running
  <2> QED BY <1>a, <2>1, <2>2, <2>3, <2>4, <2>5, ListedWrite
<1>12. CASE encryptEPUBResource
  <2> DEFINE f == Head(todo).name
             e == [name |-> f, body |-> Sealed(Body(pkg, f))]
  <2>1. f \in FileName /\ Running /\ ~Closed /\ pc' \in {"write", "close"}
    BY <1>12, <1>a, LoopStep DEF encryptEPUBResource
  <2>2. e \in Output BY <2>1, BodyFacts DEF Output
  <2>3. e.name # ListFile BY <1>12, HeadFacts DEF encryptEPUBResource
  <2>4. out' = Append(out, e) /\ pkg' = pkg BY <1>12 DEF encryptEPUBResource, Write
  <2>5. ~Closed' BY <1>12, <2>1 DEF encryptEPUBResource, Closed, Running
  <2> QED BY <1>a, <2>1, <2>2, <2>3, <2>4, <2>5, ListedWrite
<1>13. CASE Close
  <2> DEFINE e == [name |-> ListFile, body |-> "clear"]
  <2>1. CASE Write(e) /\ pc' = "cover" /\ UNCHANGED result
    <3>1. e \in Output BY <1>f DEF ListFile, Output
    <3>2. out' = Append(out, e) /\ out \in Seq(Output) BY <1>a, <2>1 DEF Write, TypeOK, Output
    <3>3. pkg' = pkg /\ ListFile' = ListFile BY <1>13 DEF Close, ListFile
    <3>4. Running /\ ~Closed BY <1>13 DEF Close, Running, Closed
    <3>5. \A i \in DOMAIN out : out[i].name # ListFile BY <1>a, <3>4 DEF ListedLast
    <3>6. e.name = ListFile OBVIOUS
    <3> HIDE DEF e
    <3>7. /\ out' # <<>> /\ Len(out') = Len(out) + 1 /\ out'[Len(out')] = e
          /\ \A i \in DOMAIN out' : i = Len(out') \/ (i \in DOMAIN out /\ out'[i] = out[i])
      BY <3>1, <3>2, AppendFacts
    <3>8. Closed' BY <2>1 DEF Closed
    <3> QED BY <3>3, <3>5, <3>6, <3>7, <3>8 DEF ListedLast
  <2>2. CASE result' = "error" /\ pc' = "end" /\ UNCHANGED out
    BY <1>13, <1>a, <2>2, ListedSame DEF Close, Closed, Running
  <2> QED BY <1>13, <2>1, <2>2 DEF Close
<1>14. CASE processEnd BY <1>14, <1>a, ListedSame DEF processEnd, Closed, Running
<1>15. CASE Fail
  <2>1. result' \in {"error", "panic"} BY <1>15 DEF Fail
  <2> QED BY <1>15, <1>a, <2>1, ListedSame DEF Fail, Closed, Running
<1>16. CASE Untitled BY <1>16, <1>a, ListedSame DEF Untitled, Closed, Running
<1> QED BY <1>1, <1>2, <1>3, <1>4, <1>5, <1>6, <1>7, <1>8, <1>9, <1>10, <1>11, <1>12, <1>13,
           <1>14, <1>15, <1>16 DEF Next

-----------------------------------------------------------------------------
(* A Readium package.                                                      *)

\* What depends on the package only.
LEMMA SourceSame ==
    ASSUME pkg' = pkg
    PROVE  /\ Readium(pkg)' = Readium(pkg)
           /\ Navigation(Readium(pkg))' = Navigation(Readium(pkg))
           /\ Plain(Readium(pkg))' <=> Plain(Readium(pkg))
           /\ \A f : Told(Readium(pkg), f)' <=> Told(Readium(pkg), f)
<1>1. Readium(pkg)' = Readium(pkg) OBVIOUS
<1>2. Navigation(Readium(pkg))' = Navigation(Readium(pkg)) BY <1>1 DEF Navigation
<1> QED BY <1>1, <1>2 DEF Plain, Told

LEMMA WorkSame ==
    ASSUME pkg' = pkg, NEW w, FromPackage(w)
    PROVE  FromPackage(w)'
BY SourceSame DEF FromPackage

\* Entries written one after the other.
LEMMA NamesAppend ==
    ASSUME out \in Seq(Output), NEW e \in Output, out' = Append(out, e)
    PROVE  Entries(out') = Entries(out) \cup {e} /\ Names(out') = Names(out) \cup {e.name}
<1>1. Entries(out') = Entries(out) \cup {e} BY AppendFacts
<1> QED BY <1>1 DEF Names

LEMMA DueTail ==
    ASSUME todo \in Seq(Work), todo # <<>>, todo' = Tail(todo)
    PROVE  /\ Entries(todo') \subseteq Entries(todo)
           /\ Due(todo) \subseteq Due(todo') \cup {Head(todo).name}
           /\ Head(todo).do \notin {"copy", "encrypt"} => Due(todo) \subseteq Due(todo')
<1>1. Entries(todo) = {Head(todo)} \cup Entries(todo') BY TailFacts
<1> QED BY <1>1 DEF Due

\* A step that does not touch what is written.
LEMMA PackageSame ==
    ASSUME PackageInv, UNCHANGED <<pkg, todo, out, marks>>, Opened' => Opened
    PROVE  PackageInv'
<1>1. WorkOfPackage' BY WorkSame DEF PackageInv, WorkOfPackage
<1>2. OutOfPackage' BY SourceSame DEF PackageInv, OutOfPackage
<1>3. AllOfPackage' BY SourceSame DEF PackageInv, AllOfPackage
<1>4. MarksOfPackage' BY SourceSame DEF PackageInv, MarksOfPackage
<1> QED BY <1>1, <1>2, <1>3, <1>4 DEF PackageInv

\* A step of a loop that writes the entry e.
LEMMA PackageWrite ==
    ASSUME TypeOK, PackageInv, NEW work, Doing(work), Next1, pkg' = pkg,
           NEW e \in Output, e.name = Head(todo).name, out' = Append(out, e),
           e.body = "double" => ~Told(Readium(pkg), e.name),
           e.body = "clear" /\ Told(Readium(pkg), e.name) => e.name \in Navigation(Readium(pkg)),
           e.name \in Navigation(Readium(pkg)) /\ Plain(Readium(pkg)) =>
              e.body = Body(Readium(pkg), e.name),
           Plain(Readium(pkg)) => /\ DOMAIN marks' = DOMAIN marks
                       /\ \A i \in DOMAIN marks :
                             /\ marks'[i].href = marks[i].href
                             /\ marks[i].sealed => marks'[i].sealed
                             /\ marks[i].href.file = e.name => marks'[i].sealed
    PROVE  PackageInv'
<1>a. /\ todo # <<>> /\ todo \in Seq(Work) /\ todo' = Tail(todo) /\ Opened /\ out \in Seq(Output)
  BY LoopStep DEF TypeOK, Output
<1>c. Entries(out') = Entries(out) \cup {e} /\ Names(out') = Names(out) \cup {e.name}
  BY <1>a, NamesAppend
<1>d. Entries(todo') \subseteq Entries(todo) /\ Due(todo) \subseteq Due(todo') \cup {e.name}
  BY <1>a, DueTail
<1>1. WorkOfPackage' BY <1>d, WorkSame DEF PackageInv, WorkOfPackage
<1>2. OutOfPackage' BY SourceSame, <1>c DEF PackageInv, OutOfPackage
<1>3. AllOfPackage' BY SourceSame, <1>a, <1>c, <1>d DEF PackageInv, AllOfPackage
<1>4. MarksOfPackage'
  BY SourceSame, <1>a, <1>c DEF PackageInv, MarksOfPackage
<1> QED BY <1>1, <1>2, <1>3, <1>4 DEF PackageInv

\* In a plain package a file of the reading order has its item, which is found and marked.
LEMMA PlainMarks ==
    ASSUME TypeOK, PackageInv, pkg.format # "epub", Opened, Plain(Readium(pkg)),
           NEW f, NEW o \in Entries(Readium(pkg).order), Unescaped(o.href) = f
    PROVE  /\ f \notin Navigation(Readium(pkg))
           /\ NewFile(marks, f) = marks
           /\ DOMAIN MarkAsEncrypted(marks, f) = DOMAIN marks
           /\ \A i \in DOMAIN marks :
                 /\ MarkAsEncrypted(marks, f)[i].href = marks[i].href
                 /\ marks[i].sealed => MarkAsEncrypted(marks, f)[i].sealed
                 /\ marks[i].href.file = f => MarkAsEncrypted(marks, f)[i].sealed
                 /\ marks[i].href.file = f /\ o.sealed => marks[i].sealed
<1> DEFINE order == Readium(pkg).order
<1>1. IsReadium(Readium(pkg)) BY ReadiumShape DEF TypeOK
<1>0. o.href.file = f /\ f \notin Navigation(Readium(pkg)) BY DEF Plain
<1>2. PICK k \in DOMAIN order : o = order[k] BY DEF Entries
<1>3. /\ DOMAIN marks = DOMAIN order
      /\ \A i \in DOMAIN order : marks[i].href = order[i].href /\ (order[i].sealed => marks[i].sealed)
  BY DEF PackageInv, MarksOfPackage
<1>4. /\ \A i \in DOMAIN order : order[i].href.file = f => i = k
      /\ \A i \in DOMAIN order : ~order[i].href.escaped
  BY <1>0, <1>2 DEF Plain, Entries
<1> HIDE DEF order
<1>5. \A i \in DOMAIN marks : Named(marks[i].href) = marks[i].href.file
  BY <1>3, <1>4 DEF Named
<1>6. {i \in DOMAIN marks : Named(marks[i].href) = f} = {k}
  BY <1>0, <1>2, <1>3, <1>4, <1>5
<1>7. NewFile(marks, f) = marks
  <2>1. marks[k] \in Entries(marks) /\ Named(marks[k].href) = f BY <1>0, <1>2, <1>3, <1>5 DEF Entries
  <2> QED BY <2>1 DEF NewFile
<1>k. k \in Nat
  BY <1>1, <1>2 DEF order, IsReadium, IsArchive
<1>8. MarkAsEncrypted(marks, f) = [marks EXCEPT ![k].sealed = TRUE]
  <2> DEFINE same == {i \in DOMAIN marks : Named(marks[i].href) = f}
             c == CHOOSE i \in same : \A j \in same : i <= j
  <2>1. same = {k} BY <1>6
  <2>2. c = k
    <3>1. k \in same /\ \A j \in same : k <= j BY <1>k, <2>1
    <3>2. c \in same BY <3>1
    <3> QED BY <2>1, <3>2
  <2>3. MarkAsEncrypted(marks, f) =
          IF same = {} THEN marks ELSE [marks EXCEPT ![c].sealed = TRUE]
    BY DEF MarkAsEncrypted
  <2> HIDE DEF same, c
  <2> QED BY <2>1, <2>2, <2>3
<1>9. \A i \in DOMAIN marks : marks[i] \in Items BY DEF TypeOK
<1>10. ASSUME NEW i \in DOMAIN marks
       PROVE  /\ MarkAsEncrypted(marks, f)[i].href = marks[i].href
              /\ marks[i].sealed => MarkAsEncrypted(marks, f)[i].sealed
              /\ marks[i].href.file = f => MarkAsEncrypted(marks, f)[i].sealed
  <2>1. CASE i = k
    <3>1. MarkAsEncrypted(marks, f)[i] = [marks[i] EXCEPT !.sealed = TRUE] BY <1>8, <2>1
    <3>2. marks[i] \in [href : Hrefs, sealed : BOOLEAN] BY <1>9 DEF Items
    <3> QED BY <3>1, <3>2
  <2>2. CASE i # k
    <3>1. MarkAsEncrypted(marks, f)[i] = marks[i] BY <1>8, <2>2
    <3> QED BY <1>3, <1>4, <2>2, <3>1
  <2> QED BY <2>1, <2>2
<1>11. DOMAIN MarkAsEncrypted(marks, f) = DOMAIN marks BY <1>8
<1>12. ASSUME NEW i \in DOMAIN marks, marks[i].href.file = f, o.sealed
       PROVE  marks[i].sealed
  BY <1>2, <1>3, <1>4, <1>12
<1> QED BY <1>0, <1>7, <1>10, <1>11, <1>12

LEMMA PackageStep ==
    ASSUME IInv, Next, pkg.format # "epub"
    PROVE  PackageInv'
<1>a. TypeOK /\ PackageInv BY DEF IInv
<1>b. IsReadium(Readium(pkg)) BY <1>a, ReadiumShape DEF TypeOK
<1>c. result = "running" <=> pc # "end" BY <1>a DEF TypeOK
<1>1. CASE processEPUB BY <1>1 DEF processEPUB
<1>2. CASE processPDF BY <1>2, <1>a, PackageSame DEF processPDF, Opened
<1>3. CASE processRPF BY <1>3, <1>a, PackageSame DEF processRPF, Opened
<1>4. CASE OpenRPF
  <2> DEFINE p == Readium(pkg)
             first == NewWriterWork(p)
             second == Resources(p)
  <2>1. /\ marks' = p.order /\ todo' = first \o second /\ pkg' = pkg /\ out' = out
    BY <1>4 DEF OpenRPF, Start
  <2>2. out = <<>> BY <1>4 DEF OpenRPF, IInv, Report
  <2>3. p = Readium(pkg) /\ pkg \in Packages BY <1>a DEF TypeOK
  <2>4. /\ first \in Seq(Work) /\ \A w \in Entries(first) : FromPackage(w)
        /\ second \in Seq(Work) /\ \A w \in Entries(second) : FromPackage(w)
        /\ \A o \in Entries(p.order) :
              o.href.file \in p.files /\ Unescaped(o.href) = o.href.file =>
                 o.href.file \in Due(second)
    BY <2>3, NewWriterWorks, ResourcesWork
  <2> HIDE DEF first, second
  <2>5. Entries(todo') = Entries(first) \cup Entries(second) BY <2>1, <2>4, ConcatEntries
  <2>6. WorkOfPackage'
    <3>1. \A w \in Entries(todo') : FromPackage(w) BY <2>4, <2>5
    <3> QED BY <2>1, <3>1, WorkSame DEF WorkOfPackage
  <2>7. Entries(out') = {} /\ Names(out') = {} BY <2>1, <2>2, NoEntry DEF Names
  <2>8. OutOfPackage' BY <2>7 DEF OutOfPackage
  <2>9. Due(second) \subseteq Due(todo') BY <2>5 DEF Due
  <2>10. AllOfPackage' BY <2>1, <2>4, <2>9, SourceSame DEF AllOfPackage
  <2>11. MarksOfPackage' BY <2>1, <2>7, SourceSame DEF MarksOfPackage
  <2> QED BY <2>6, <2>8, <2>10, <2>11 DEF PackageInv
<1>5. CASE Incomplete BY <1>5, <1>a, PackageSame DEF Incomplete, Opened
<1>6. CASE Skip
  <2>1. /\ todo # <<>> /\ todo \in Seq(Work) /\ todo' = Tail(todo) /\ Opened
        /\ Head(todo).do = "skip"
    BY <1>6, <1>a, LoopStep DEF Skip
  <2>2. pkg' = pkg /\ out' = out /\ marks' = marks BY <1>6 DEF Skip
  <2>3. Entries(todo') \subseteq Entries(todo) /\ Due(todo) \subseteq Due(todo')
    BY <2>1, DueTail
  <2>4. WorkOfPackage' BY <1>a, <2>2, <2>3, WorkSame DEF PackageInv, WorkOfPackage
  <2>5. OutOfPackage' BY <1>a, <2>2, SourceSame DEF PackageInv, OutOfPackage
  <2>6. AllOfPackage' BY <1>a, <2>1, <2>2, <2>3, SourceSame DEF PackageInv, AllOfPackage
  <2>7. MarksOfPackage' BY <1>a, <2>1, <2>2, SourceSame DEF PackageInv, MarksOfPackage
  <2> QED BY <2>4, <2>5, <2>6, <2>7 DEF PackageInv
<1>7. CASE NewWriterKeep
  <2> DEFINE f == Head(todo).name
             e == [name |-> f, body |-> Body(Readium(pkg), f)]
  <2>1. f \in FileName /\ Head(todo).do = "keep" /\ Opened
    BY <1>7, <1>a, LoopStep DEF NewWriterKeep
  <2>2. FromPackage(Head(todo)) BY <1>7, HeadFacts DEF NewWriterKeep
  <2>3. f \in Navigation(Readium(pkg)) BY <2>1, <2>2 DEF FromPackage
  <2>4. /\ e \in Output /\ e.name = f /\ e.body = Body(Readium(pkg), f) /\ e.body # "double"
    BY <2>1, BodyFacts DEF Output
  <2>5. out' = Append(out, e) /\ pkg' = pkg /\ marks' = marks /\ Doing("keep") /\ Next1
    BY <1>7 DEF NewWriterKeep, Write
  <2> HIDE DEF e
  <2>6. ASSUME Plain(Readium(pkg)), NEW i \in DOMAIN marks
        PROVE  marks[i].href.file # f
    <3>1. /\ DOMAIN marks = DOMAIN Readium(pkg).order
          /\ marks[i].href = Readium(pkg).order[i].href
      BY <1>a, <2>1, <2>6 DEF PackageInv, MarksOfPackage
    <3>2. marks[i].href.file \notin Navigation(Readium(pkg))
      BY <2>6, <3>1 DEF Plain, Entries
    <3> QED BY <2>3, <3>2
  <2> QED BY <1>a, <2>3, <2>4, <2>5, <2>6, PackageWrite
<1>8. CASE NewWriterNil BY <1>8, <1>a, PackageSame DEF NewWriterNil, Opened
<1>9. CASE CopyTo
  <2> DEFINE p == Readium(pkg)
             f == Head(todo).name
             e == [name |-> f, body |-> Body(p, f)]
  <2>1. f \in FileName /\ Head(todo).do = "copy" /\ Opened
    BY <1>9, <1>a, LoopStep DEF CopyTo
  <2>2. FromPackage(Head(todo)) BY <1>9, HeadFacts DEF CopyTo
  <2>3. PICK o \in Entries(p.order) : Unescaped(o.href) = f /\ o.sealed
    BY <2>1, <2>2 DEF FromPackage
  <2>4. Told(p, f) => f \in p.foreign BY <2>3 DEF Told
  <2>5. /\ e \in Output /\ e.name = f /\ e.body = Body(p, f) /\ e.body \in {"clear", "foreign"}
        /\ Told(p, f) => e.body = "foreign"
    BY <2>1, <2>4, BodyFacts DEF Output
  <2>6. /\ out' = Append(out, e) /\ pkg' = pkg /\ marks' = NewFile(marks, f)
        /\ Doing("copy") /\ Next1
    BY <1>9 DEF CopyTo, Write
  <2> HIDE DEF e
  <2>7. ASSUME Plain(p)
        PROVE  marks' = marks /\ \A i \in DOMAIN marks : marks[i].href.file = f => marks[i].sealed
    BY <1>a, <2>1, <2>3, <2>6, <2>7, PlainMarks
  <2> QED BY <1>a, <2>5, <2>6, <2>7, PackageWrite
<1>10. CASE encryptRPFResource
  <2> DEFINE p == Readium(pkg)
             f == Head(todo).name
             e == [name |-> f, body |-> Sealed(Body(p, f))]
  <2>1. f \in FileName /\ Head(todo).do = "encrypt" /\ Opened
    BY <1>10, <1>a, LoopStep DEF encryptRPFResource
  <2>2. FromPackage(Head(todo)) BY <1>10, HeadFacts DEF encryptRPFResource
  <2>3. PICK o \in Entries(p.order) : Unescaped(o.href) = f /\ ~o.sealed
    BY <2>1, <2>2 DEF FromPackage
  <2>4. Told(p, f) => f \notin p.foreign BY <2>3 DEF Told
  <2>5. /\ e \in Output /\ e.name = f /\ e.body # "clear"
        /\ e.body = "double" => ~Told(p, f)
    BY <2>1, <2>4, BodyFacts DEF Output
  <2>6. /\ out' = Append(out, e) /\ pkg' = pkg
        /\ marks' = MarkAsEncrypted(NewFile(marks, f), f)
        /\ Doing("encrypt") /\ Next1
    BY <1>10 DEF encryptRPFResource, Write
  <2> HIDE DEF e
  <2>7. ASSUME Plain(p)
        PROVE  /\ f \notin Navigation(p)
               /\ DOMAIN marks' = DOMAIN marks
               /\ \A i \in DOMAIN marks :
                     /\ marks'[i].href = marks[i].href
                     /\ marks[i].sealed => marks'[i].sealed
                     /\ marks[i].href.file = f => marks'[i].sealed
    <3>2. NewFile(marks, f) = marks BY <1>a, <2>1, <2>3, <2>7, PlainMarks
    <3>3. marks' = MarkAsEncrypted(marks, f) BY <2>6, <3>2
    <3> QED BY <1>a, <2>1, <2>3, <2>7, <3>3, PlainMarks
  <2> QED BY <1>a, <2>5, <2>6, <2>7, PackageWrite
<1>11. CASE Copy BY <1>11, HeadFacts DEF Copy
<1>12. CASE encryptEPUBResource BY <1>12, HeadFacts DEF encryptEPUBResource
<1>13. CASE Close
  <2> DEFINE e == [name |-> ListFile, body |-> "clear"]
  <2>1. CASE Write(e) /\ pc' = "cover" /\ UNCHANGED result
    <3>1. out' = Append(out, e) /\ out \in Seq(Output) BY <1>a, <2>1 DEF Write, TypeOK, Output
    <3>2. pkg' = pkg /\ todo' = todo /\ marks' = marks /\ Opened BY <1>13 DEF Close, Opened
    <3>3. ListFile = Manifest /\ Manifest \in FileName BY PackagingAssumption DEF ListFile
    <3>4. e \in Output /\ e.name = Manifest /\ e.body = "clear" BY <3>3 DEF Output
    <3> HIDE DEF e
    <3>5. Entries(out') = Entries(out) \cup {e} /\ Names(out') = Names(out) \cup {Manifest}
      BY <3>1, <3>4, NamesAppend
    <3>6. Manifest \in Navigation(Readium(pkg)) BY DEF Navigation
    <3>7. Body(Readium(pkg), Manifest) = "clear"
      <4>1. Manifest \notin Readium(pkg).foreign BY <1>b DEF IsReadium, IsArchive
      <4> QED BY <4>1, BodyFacts
    <3>8. WorkOfPackage' BY <1>a, <3>2, WorkSame DEF PackageInv, WorkOfPackage
    <3>9. OutOfPackage'
      BY <1>a, <3>2, <3>4, <3>5, <3>6, <3>7, SourceSame DEF PackageInv, OutOfPackage
    <3>10. AllOfPackage' BY <1>a, <3>2, <3>5, SourceSame DEF PackageInv, AllOfPackage
    <3>11. Plain(Readium(pkg)) =>
              \A i \in DOMAIN Readium(pkg).order : Readium(pkg).order[i].href.file # Manifest
      BY <1>b DEF IsReadium, Entries, Plain
    <3>12. MarksOfPackage'
      BY <1>a, <3>2, <3>5, <3>11, SourceSame DEF PackageInv, MarksOfPackage
    <3> QED BY <3>8, <3>9, <3>10, <3>12 DEF PackageInv
  <2>2. CASE result' = "error" /\ pc' = "end" /\ UNCHANGED out
    BY <1>13, <1>a, <2>2, PackageSame DEF Close, Opened
  <2> QED BY <1>13, <2>1, <2>2 DEF Close
<1>14. CASE processEnd BY <1>14, <1>a, PackageSame DEF processEnd, Opened
<1>15. CASE Fail
  <2>1. result' \in {"error", "panic"} BY <1>15 DEF Fail
  <2> QED BY <1>15, <1>a, <2>1, PackageSame DEF Fail, Opened
<1>16. CASE Untitled BY <1>16 DEF Untitled
<1> QED BY <1>1, <1>2, <1>3, <1>4, <1>5, <1>6, <1>7, <1>8, <1>9, <1>10, <1>11, <1>12, <1>13,
           <1>14, <1>15, <1>16 DEF Next

-----------------------------------------------------------------------------
(* An EPUB.                                                                *)

PlainItems == \A i \in Entries(pkg.items) : ~i.href.escaped

\* What depends on the EPUB only.
LEMMA EPUBSource ==
    ASSUME pkg' = pkg
    PROVE  /\ Navigation(pkg)' = Navigation(pkg)
           /\ \A f : Body(pkg, f)' = Body(pkg, f)
           /\ \A f : URI(f)' = URI(f)
           /\ known' = known => (AllKnown' <=> AllKnown)
BY DEF Navigation, Body, URI, AllKnown

LEMMA EPUBSame ==
    ASSUME EPUBInv, UNCHANGED <<pkg, todo, out, marks, known>>, Opened' => Opened
    PROVE  EPUBInv'
<1>1. WorkOfEPUB' BY DEF EPUBInv, WorkOfEPUB
<1>2. MarksOfEPUB' BY EPUBSource DEF EPUBInv, MarksOfEPUB
<1>3. OutOfEPUB' BY EPUBSource DEF EPUBInv, OutOfEPUB
<1> QED BY <1>1, <1>2, <1>3 DEF EPUBInv

\* The list of what is encrypted and the output, with one more entry.
LEMMA EPUBEntry ==
    ASSUME TypeOK, EPUBInv, Opened, pkg' = pkg, known' = known,
           NEW e \in Output, out' = Append(out, e),
           e.body = "double" => URI(e.name) \notin known,
           e.body = "clear" => e.name \in Navigation(pkg) \ pkg.foreign,
           e.name \in Navigation(pkg) /\ PlainItems => e.body = Body(pkg, e.name),
           Entries(marks) \subseteq Entries(marks'),
           \A m \in Entries(marks') :
              m \in Entries(marks) \/ (m.href.file = e.name /\ e.body # "clear"),
           e.body # "clear" /\ (e.body # "foreign" \/ AllKnown) =>
              \E m \in Entries(marks') : m.href.file = e.name
    PROVE  MarksOfEPUB' /\ OutOfEPUB'
<1>1. Entries(out') = Entries(out) \cup {e} BY NamesAppend DEF TypeOK, Output
<1>2. OutOfEPUB' BY <1>1, EPUBSource DEF EPUBInv, OutOfEPUB, PlainItems
<1>3. \A h \in known' : \E m \in Entries(marks') : m.href = h BY DEF EPUBInv, MarksOfEPUB
<1>4. ASSUME NEW m \in Entries(marks')
      PROVE  \/ m \in Entries(pkg'.order)
             \/ \E x \in Entries(out') : x.name = m.href.file /\ x.body # "clear"
  BY <1>1, <1>4 DEF EPUBInv, MarksOfEPUB
<1>5. ASSUME NEW x \in Entries(out'), x.body # "clear", x.body # "foreign" \/ AllKnown'
      PROVE  \E m \in Entries(marks') : m.href.file = x.name
  BY <1>1, <1>5, EPUBSource DEF EPUBInv, MarksOfEPUB
<1>6. MarksOfEPUB' BY <1>3, <1>4, <1>5 DEF MarksOfEPUB
<1> QED BY <1>2, <1>6

LEMMA UniqueAppend ==
    ASSUME out \in Seq(Output), NEW e \in Output, e.name \notin Names(out), out' = Append(out, e),
           \A i, k \in DOMAIN out : out[i].name = out[k].name => i = k
    PROVE  \A i, k \in DOMAIN out' : out'[i].name = out'[k].name => i = k
<1>1. /\ DOMAIN out' = 1..Len(out) + 1 /\ DOMAIN out = 1..Len(out) /\ Len(out) \in Nat
      /\ \A i \in DOMAIN out : out'[i] = out[i]
      /\ out'[Len(out) + 1] = e
  BY AppendFacts
<1>2. \A i \in DOMAIN out' : i \in DOMAIN out \/ i = Len(out) + 1 BY <1>1
<1>3. \A i \in DOMAIN out : out'[i].name # e.name BY <1>1 DEF Names, Entries
<1> QED BY <1>1, <1>2, <1>3

\* A step of the loop of Do.
LEMMA WorkEPUBWrite ==
    ASSUME TypeOK, EPUBInv, Doing("either"), Next1, pkg' = pkg, pkg.format = "epub",
           NEW e \in Output, e.name = Head(todo).name, out' = Append(out, e)
    PROVE  WorkOfEPUB'
<1>a. /\ todo # <<>> /\ todo \in Seq(Work) /\ todo' = Tail(todo) /\ Opened /\ out \in Seq(Output)
      /\ Head(todo).do = "either"
  BY LoopStep DEF TypeOK, Output
<1>b. /\ Head(todo) = todo[1] /\ 1 \in DOMAIN todo
      /\ \A i \in DOMAIN todo' : i \in Nat \ {0} /\ i + 1 \in DOMAIN todo /\ todo'[i] = todo[i + 1]
      /\ Entries(todo) = {Head(todo)} \cup Entries(todo')
  BY <1>a, TailFacts
<1>c. Names(out') = Names(out) \cup {e.name} BY <1>a, NamesAppend
<1>d. Names(todo) = {e.name} \cup Names(todo') BY <1>b DEF Names
<1>e. /\ \A i \in DOMAIN todo :
            /\ todo[i].do \in {"either", "skip"}
            /\ todo[i].do = "skip" => todo[i].name \in {Mimetype, Encryption}
            /\ todo[i].do = "either" =>
                  todo[i].name \in pkg.files \ ({Mimetype, Encryption} \cup Names(out))
      /\ \A i, k \in DOMAIN todo : todo[i].name = todo[k].name => i = k
      /\ \A i, k \in DOMAIN out : out[i].name = out[k].name => i = k
      /\ out # <<>> /\ out[1].name = Mimetype
      /\ \A f \in pkg.files \ {Mimetype, Encryption} : f \in Names(out) \cup Names(todo)
  BY <1>a DEF EPUBInv, WorkOfEPUB
<1>1. ASSUME NEW i \in DOMAIN todo'
      PROVE  /\ todo'[i].do \in {"either", "skip"}
             /\ todo'[i].do = "skip" => todo'[i].name \in {Mimetype, Encryption}
             /\ todo'[i].do = "either" =>
                   todo'[i].name \in pkg.files \ ({Mimetype, Encryption} \cup Names(out'))
  <2>1. i \in Nat \ {0} /\ i + 1 \in DOMAIN todo /\ todo'[i] = todo[i + 1] BY <1>b
  <2>2. todo[i + 1].name # e.name
    <3>1. i + 1 # 1 BY <2>1
    <3> QED BY <1>b, <1>e, <2>1, <3>1
  <2> QED BY <1>c, <1>e, <2>1, <2>2
<1>2. ASSUME NEW i \in DOMAIN todo', NEW k \in DOMAIN todo', todo'[i].name = todo'[k].name
      PROVE  i = k
  <2>1. i + 1 = k + 1 BY <1>b, <1>e, <1>2
  <2> QED BY <1>b, <2>1
<1>3. e.name \notin Names(out) BY <1>a, <1>b, <1>e
<1>4. \A i, k \in DOMAIN out' : out'[i].name = out'[k].name => i = k
  BY <1>a, <1>e, <1>3, UniqueAppend
<1>5. out' # <<>> /\ out'[1].name = Mimetype
  <2>1. 1 \in DOMAIN out BY <1>a, <1>e, EmptyList
  <2> QED BY <1>a, <1>e, <2>1, AppendFacts
<1>6. \A f \in pkg.files \ {Mimetype, Encryption} : f \in Names(out') \cup Names(todo')
  BY <1>c, <1>d, <1>e
<1> QED BY <1>1, <1>2, <1>4, <1>5, <1>6 DEF WorkOfEPUB

LEMMA EPUBStep ==
    ASSUME IInv, Next, pkg.format = "epub"
    PROVE  EPUBInv'
<1>a. TypeOK /\ EPUBInv /\ Report /\ ListedLast BY DEF IInv
<1>b. IsEPUB(pkg) BY <1>a, EPUBWork DEF TypeOK
<1>c. /\ result = "running" <=> pc # "end"
      /\ result = "running" => (pc = "write" <=> todo # <<>>)
      /\ out \in Seq(Output)
  BY <1>a DEF TypeOK, Output
<1>d. /\ Mimetype \in FileName /\ Encryption \in FileName /\ Mimetype # Encryption
      /\ {Mimetype, Encryption} \subseteq Navigation(pkg) \ pkg.foreign
  <2>1. Mimetype \in FileName /\ Encryption \in FileName BY PackagingAssumption
  <2>2. Mimetype # Encryption BY Zenon DEF Mimetype, Encryption
  <2>3. Mimetype \notin pkg.foreign /\ Encryption \notin pkg.foreign BY <1>b DEF IsEPUB, IsArchive
  <2>4. {Mimetype, Encryption} \subseteq Navigation(pkg) BY DEF Navigation
  <2> QED BY <2>1, <2>2, <2>3, <2>4
<1>h. ASSUME Doing("either")
      PROVE  /\ Head(todo).name \in pkg.files \ ({Mimetype, Encryption} \cup Names(out))
             /\ Head(todo).name \in FileName \ {NoFile} /\ Opened
  <2>1. /\ todo # <<>> /\ todo \in Seq(Work) /\ Opened /\ Head(todo).do = "either"
        /\ Head(todo).name \in FileName
    BY <1>a, <1>h, LoopStep
  <2>2. Head(todo) = todo[1] /\ 1 \in DOMAIN todo BY <2>1, TailFacts
  <2>3. Head(todo).name \in pkg.files \ ({Mimetype, Encryption} \cup Names(out))
    BY <1>a, <2>1, <2>2 DEF EPUBInv, WorkOfEPUB
  <2> QED BY <1>b, <2>1, <2>3 DEF IsEPUB, IsArchive
<1>1. CASE processEPUB
  <2> DEFINE e == [name |-> Mimetype, body |-> "clear"]
  <2>1. e \in Output /\ e.name = Mimetype /\ e.body = "clear" BY <1>d DEF Output
  <2>2. out' = Append(out, e) /\ pkg' = pkg /\ todo' = EPUBList
    BY <1>1 DEF processEPUB, Write, Start, EPUBList
  <2>m. Entries(marks') \subseteq Entries(pkg.order) /\ known' = {m.href : m \in Entries(marks')}
    BY <1>1, <1>b, ReadFacts DEF processEPUB, IsEPUB, IsArchive
  <2>3. out = <<>> BY <1>1, <1>a DEF processEPUB, Report
  <2> HIDE DEF e
  <2>4. Entries(out) = {} /\ Len(out) = 0 BY <1>c, <2>3, NoEntry, EmptyList
  <2>5. Entries(out') = {e} /\ Names(out') = {Mimetype}
    BY <1>c, <2>1, <2>2, <2>4, NamesAppend DEF Names
  <2>6. DOMAIN out' = 1..1 /\ out'[1] = e /\ out' # <<>>
    BY <1>c, <2>1, <2>2, <2>4, AppendFacts
  <2>7. /\ EPUBList \in Seq(Work) /\ DOMAIN EPUBList = DOMAIN pkg.zip
        /\ \A i \in DOMAIN EPUBList :
              /\ EPUBList[i].name = pkg.zip[i] /\ pkg.zip[i] \in pkg.files
              /\ EPUBList[i].do = IF pkg.zip[i] \in {Mimetype, Encryption} THEN "skip" ELSE "either"
    BY <1>a, EPUBWork DEF TypeOK
  <2>8. WorkOfEPUB'
    <3>1. \A i \in DOMAIN todo' :
             /\ todo'[i].do \in {"either", "skip"}
             /\ todo'[i].do = "skip" => todo'[i].name \in {Mimetype, Encryption}
             /\ todo'[i].do = "either" =>
                   todo'[i].name \in pkg.files \ ({Mimetype, Encryption} \cup Names(out'))
      BY <2>2, <2>5, <2>7
    <3>2. \A i, k \in DOMAIN todo' : todo'[i].name = todo'[k].name => i = k
      BY <1>b, <2>2, <2>7 DEF IsEPUB
    <3>3. \A i, k \in DOMAIN out' : i = k BY <2>6
    <3>4. ASSUME NEW f \in pkg.files
          PROVE  f \in Names(todo')
      <4>1. PICK i \in DOMAIN pkg.zip : f = pkg.zip[i] BY <1>b DEF IsEPUB, Entries
      <4>2. todo'[i] \in Entries(todo') /\ todo'[i].name = f BY <2>2, <2>7, <4>1 DEF Entries
      <4> QED BY <4>2 DEF Names
    <3> QED BY <2>1, <2>2, <2>6, <3>1, <3>2, <3>3, <3>4 DEF WorkOfEPUB
  <2>9. MarksOfEPUB' BY <2>1, <2>2, <2>m, <2>5 DEF MarksOfEPUB
  <2>10. Body(pkg, Mimetype) = "clear" BY <1>d, BodyFacts
  <2>11. OutOfEPUB' BY <1>d, <2>1, <2>2, <2>5, <2>10, EPUBSource DEF OutOfEPUB
  <2> QED BY <2>8, <2>9, <2>11 DEF EPUBInv
<1>2. CASE processPDF BY <1>2 DEF processPDF
<1>3. CASE processRPF BY <1>3 DEF processRPF
<1>4. CASE OpenRPF BY <1>4, <1>a DEF OpenRPF, Report
<1>5. CASE Incomplete BY <1>5, <1>a, EPUBSame DEF Incomplete, Opened
<1>6. CASE Skip
  <2>1. /\ todo # <<>> /\ todo \in Seq(Work) /\ todo' = Tail(todo) /\ Opened
        /\ Head(todo).do = "skip"
    BY <1>6, <1>a, LoopStep DEF Skip
  <2>2. pkg' = pkg /\ out' = out /\ marks' = marks /\ known' = known BY <1>6 DEF Skip
  <2>3. /\ Head(todo) = todo[1] /\ 1 \in DOMAIN todo
        /\ \A i \in DOMAIN todo' : i \in Nat \ {0} /\ i + 1 \in DOMAIN todo /\ todo'[i] = todo[i + 1]
        /\ Entries(todo) = {Head(todo)} \cup Entries(todo')
    BY <2>1, TailFacts
  <2>4. Head(todo).name \in {Mimetype, Encryption} BY <1>a, <2>1, <2>3 DEF EPUBInv, WorkOfEPUB
  <2>5. Names(todo) \subseteq Names(todo') \cup {Mimetype, Encryption} BY <2>3, <2>4 DEF Names
  <2>6. WorkOfEPUB'
    <3>1. ASSUME NEW i \in DOMAIN todo'
          PROVE  /\ todo'[i].do \in {"either", "skip"}
                 /\ todo'[i].do = "skip" => todo'[i].name \in {Mimetype, Encryption}
                 /\ todo'[i].do = "either" =>
                       todo'[i].name \in pkg.files \ ({Mimetype, Encryption} \cup Names(out'))
      BY <1>a, <2>2, <2>3 DEF EPUBInv, WorkOfEPUB
    <3>2. ASSUME NEW i \in DOMAIN todo', NEW k \in DOMAIN todo', todo'[i].name = todo'[k].name
          PROVE  i = k
      <4>1. i + 1 = k + 1 BY <1>a, <2>3, <3>2 DEF EPUBInv, WorkOfEPUB
      <4> QED BY <2>3, <4>1
    <3>3. /\ \A i, k \in DOMAIN out' : out'[i].name = out'[k].name => i = k
          /\ out' # <<>> /\ out'[1].name = Mimetype
          /\ \A f \in pkg.files \ {Mimetype, Encryption} : f \in Names(out') \cup Names(todo')
      BY <1>a, <2>1, <2>2, <2>5 DEF EPUBInv, WorkOfEPUB
    <3> QED BY <2>2, <3>1, <3>2, <3>3 DEF WorkOfEPUB
  <2>7. MarksOfEPUB' BY <1>a, <2>1, <2>2, EPUBSource DEF EPUBInv, MarksOfEPUB
  <2>8. OutOfEPUB' BY <1>a, <2>2, EPUBSource DEF EPUBInv, OutOfEPUB
  <2> QED BY <2>6, <2>7, <2>8 DEF EPUBInv
<1>7. CASE NewWriterKeep BY <1>7, HeadFacts DEF NewWriterKeep
<1>8. CASE NewWriterNil BY <1>8, <1>a, EPUBSame DEF NewWriterNil, Opened
<1>9. CASE CopyTo BY <1>9, HeadFacts DEF CopyTo
<1>10. CASE encryptRPFResource BY <1>10, HeadFacts DEF encryptRPFResource
<1>11. CASE Copy
  <2> DEFINE f == Head(todo).name
             e == [name |-> f, body |-> Body(pkg, f)]
  <2>1. /\ f \in pkg.files \ ({Mimetype, Encryption} \cup Names(out))
        /\ f \in FileName \ {NoFile} /\ Opened
    BY <1>11, <1>h DEF Copy
  <2>2. /\ e \in Output /\ e.name = f /\ e.body = Body(pkg, f) /\ e.body \in {"clear", "foreign"}
        /\ e.body = "clear" <=> f \notin pkg.foreign
    BY <2>1, BodyFacts DEF Output
  <2>3. /\ out' = Append(out, e) /\ pkg' = pkg /\ marks' = marks /\ Doing("either") /\ Next1
        /\ known' = known
        /\ DataForFile(f) \/ ~CanEncrypt(f)
    BY <1>11 DEF Copy, Write
  <2> HIDE DEF e, f
  <2>4. ASSUME f \notin pkg.foreign
        PROVE  f \in Navigation(pkg)
    <3>1. ~DataForFile(f)
      <4> SUFFICES ASSUME NEW m \in Entries(marks), m.href.file = f PROVE FALSE
        BY DEF DataForFile, URI
      <4>1. m \notin Entries(pkg.order) BY <1>b, <2>4 DEF IsEPUB
      <4>2. \E x \in Entries(out) : x.name = f BY <1>a, <4>1 DEF EPUBInv, MarksOfEPUB
      <4> QED BY <2>1, <4>2 DEF Names
    <3>2. f \in CleartextResources(pkg) BY <2>3, <3>1 DEF CanEncrypt
    <3>3. CASE f \in pkg.roots \cup pkg.meta BY <3>3 DEF Navigation
    <3>4. CASE \E i \in Entries(pkg.items) : i.role \in {"cover", "nav"} /\ Named(i.href) = f
      <4>1. PICK i \in Entries(pkg.items) : i.role \in {"cover", "nav"} /\ Named(i.href) = f
        BY <3>4
      <4>2. i.href.file = f BY <2>1, <4>1 DEF Named
      <4> QED BY <4>1, <4>2 DEF Navigation
    <3> QED BY <3>2, <3>3, <3>4 DEF CleartextResources
  <2>5. ASSUME e.body # "clear", AllKnown
        PROVE  \E m \in Entries(marks) : m.href.file = f
    <3>1. PICK o \in Entries(pkg.order) : o.href.file = f BY <1>b, <2>2, <2>5 DEF IsEPUB
    <3>2. o.href \in known BY <2>5 DEF AllKnown
    <3>3. PICK m \in Entries(marks) : m.href = o.href
      BY <1>a, <2>1, <3>2 DEF EPUBInv, MarksOfEPUB
    <3> QED BY <3>1, <3>3
  <2>6. WorkOfEPUB' BY <1>a, <2>2, <2>3, WorkEPUBWrite DEF f
  <2>7. MarksOfEPUB' /\ OutOfEPUB'
    BY <1>a, <2>1, <2>2, <2>3, <2>4, <2>5, EPUBEntry
  <2> QED BY <2>6, <2>7 DEF EPUBInv
<1>12. CASE encryptEPUBResource
  <2> DEFINE f == Head(todo).name
             e == [name |-> f, body |-> Sealed(Body(pkg, f))]
             m == [href |-> URI(f), sealed |-> TRUE]
  <2>1. /\ f \in pkg.files \ ({Mimetype, Encryption} \cup Names(out))
        /\ f \in FileName \ {NoFile} /\ Opened
    BY <1>12, <1>h DEF encryptEPUBResource
  <2>2. /\ e \in Output /\ e.name = f /\ e.body \in {"cipher", "double"}
        /\ e.body = "double" => f \in pkg.foreign
    BY <2>1, BodyFacts DEF Output
  <2>3. /\ out' = Append(out, e) /\ pkg' = pkg /\ marks' = Append(marks, m)
        /\ Doing("either") /\ Next1 /\ ~DataForFile(f) /\ CanEncrypt(f) /\ known' = known
    BY <1>12 DEF encryptEPUBResource, Write
  <2>4. m \in Items /\ m.href.file = f BY <2>1 DEF Items, Hrefs, URI
  <2> HIDE DEF e, m
  <2>5. Entries(marks') = Entries(marks) \cup {m}
    BY <1>a, <2>3, <2>4, AppendFacts DEF TypeOK
  <2>6. URI(f) \notin known BY <1>a, <2>1, <2>3 DEF DataForFile, EPUBInv, MarksOfEPUB
  <2>7. ASSUME PlainItems
        PROVE  f \notin Navigation(pkg)
    <3>1. f \notin pkg.roots \cup pkg.meta BY <2>3 DEF CanEncrypt, CleartextResources
    <3>2. ASSUME NEW i \in Entries(pkg.items), i.role \in {"cover", "nav"}
          PROVE  i.href.file # f
      <4>1. Named(i.href) = i.href.file BY <2>7 DEF PlainItems, Named
      <4> QED BY <2>3, <3>2, <4>1 DEF CanEncrypt, CleartextResources
    <3> QED BY <2>1, <3>1, <3>2 DEF Navigation
  <2>8. WorkOfEPUB' BY <1>a, <2>2, <2>3, WorkEPUBWrite
  <2>9. MarksOfEPUB' /\ OutOfEPUB'
    BY <1>a, <2>1, <2>2, <2>3, <2>4, <2>5, <2>6, <2>7, EPUBEntry
  <2> QED BY <2>8, <2>9 DEF EPUBInv
<1>13. CASE Close
  <2> DEFINE e == [name |-> ListFile, body |-> "clear"]
  <2>1. CASE Write(e) /\ pc' = "cover" /\ UNCHANGED result
    <3>1. out' = Append(out, e) BY <2>1 DEF Write
    <3>2. /\ pkg' = pkg /\ todo' = todo /\ marks' = marks /\ known' = known
          /\ Opened /\ Running /\ ~Closed
      BY <1>13 DEF Close, Opened, Running, Closed
    <3>3. ListFile = Encryption BY DEF ListFile
    <3>4. e \in Output /\ e.name = Encryption /\ e.body = "clear" BY <1>d, <3>3 DEF Output
    <3> HIDE DEF e
    <3>5. Encryption \notin Names(out)
      <4>1. \A i \in DOMAIN out : out[i].name # ListFile BY <1>a, <3>2 DEF ListedLast
      <4> QED BY <3>3, <4>1 DEF Names, Entries
    <3>6. Body(pkg, Encryption) = "clear" BY <1>d, BodyFacts
    <3>7. MarksOfEPUB' /\ OutOfEPUB'
      BY <1>a, <1>d, <3>1, <3>2, <3>4, <3>6, EPUBEntry
    <3>8. Names(out') = Names(out) \cup {Encryption} BY <1>c, <3>1, <3>4, NamesAppend
    <3>9. \A i, k \in DOMAIN out' : out'[i].name = out'[k].name => i = k
      BY <1>a, <1>c, <3>1, <3>4, <3>5, UniqueAppend DEF EPUBInv, WorkOfEPUB
    <3>10. out' # <<>> /\ out'[1].name = Mimetype
      <4>1. out # <<>> /\ out[1].name = Mimetype BY <1>a, <3>2 DEF EPUBInv, WorkOfEPUB
      <4>2. 1 \in DOMAIN out BY <1>c, <4>1, EmptyList
      <4> QED BY <1>c, <3>1, <3>4, <4>1, <4>2, AppendFacts
    <3>11. todo = <<>> BY <1>13, <1>c DEF Close
    <3>12. WorkOfEPUB'
      BY <1>a, <3>2, <3>8, <3>9, <3>10, <3>11 DEF EPUBInv, WorkOfEPUB
    <3> QED BY <3>7, <3>12 DEF EPUBInv
  <2>2. CASE result' = "error" /\ pc' = "end" /\ UNCHANGED out
    BY <1>13, <1>a, <2>2, EPUBSame DEF Close, Opened
  <2> QED BY <1>13, <2>1, <2>2 DEF Close
<1>14. CASE processEnd BY <1>14, <1>a, EPUBSame DEF processEnd, Opened
<1>15. CASE Fail
  <2>1. result' \in {"error", "panic"} BY <1>15 DEF Fail
  <2> QED BY <1>15, <1>a, <2>1, EPUBSame DEF Fail, Opened
<1>16. CASE Untitled BY <1>16, <1>a, EPUBSame DEF Untitled, Opened
<1> QED BY <1>1, <1>2, <1>3, <1>4, <1>5, <1>6, <1>7, <1>8, <1>9, <1>10, <1>11, <1>12, <1>13,
           <1>14, <1>15, <1>16 DEF Next

-----------------------------------------------------------------------------

LEMMA InitIInv ==
    Init => IInv
<1> SUFFICES ASSUME Init PROVE IInv OBVIOUS
<1>1. TypeOK BY TypeInit
<1>2. /\ Entries(todo) = {} /\ Entries(out) = {} /\ Entries(marks) = {}
      /\ DOMAIN todo = {} /\ DOMAIN out = {}
  BY NoEntry DEF Init
<1>3. ~Opened /\ ~Closed /\ Running BY DEF Init, Opened, Closed, Running
<1>4. Report BY <1>3 DEF Init, Report
<1>5. ListedLast BY <1>2, <1>3 DEF ListedLast
<1>6. EPUBInv BY <1>2, <1>3 DEF EPUBInv, WorkOfEPUB, MarksOfEPUB, OutOfEPUB
<1>7. PackageInv
  BY <1>2, <1>3 DEF PackageInv, WorkOfPackage, OutOfPackage, AllOfPackage, MarksOfPackage
<1> QED BY <1>1, <1>4, <1>5, <1>6, <1>7 DEF IInv

LEMMA NextIInv ==
    IInv /\ [Next]_vars => IInv'
<1> SUFFICES ASSUME IInv, [Next]_vars PROVE IInv' OBVIOUS
<1>1. CASE Next
  <2>1. TypeOK' /\ Report'
    BY <1>1, TypeStep, ReportStep DEF IInv, Report
  <2>2. ListedLast' BY <1>1, ListedStep
  <2>3. pkg' = pkg
    BY <1>1 DEF Next, processEPUB, processPDF, processRPF, OpenRPF, Incomplete, Untitled, Skip, NewWriterKeep,
                NewWriterNil, CopyTo, encryptRPFResource, Copy, encryptEPUBResource, Close,
                processEnd, Fail
  <2>4. pkg.format = "epub" => EPUBInv' BY <1>1, EPUBStep
  <2>5. pkg.format # "epub" => PackageInv' BY <1>1, PackageStep
  <2> QED BY <2>1, <2>2, <2>3, <2>4, <2>5 DEF IInv
<1>2. CASE UNCHANGED vars
  <2>1. /\ UNCHANGED <<pkg, todo, out, marks, known>> /\ (Opened' <=> Opened)
        /\ (Closed' <=> Closed) /\ (Running' <=> Running)
    BY <1>2 DEF vars, Opened, Closed, Running
  <2>2. TypeOK' BY <1>2 DEF IInv, TypeOK, vars
  <2>3. Report' BY <1>2 DEF IInv, Report, vars, Running, Closed
  <2>4. ListedLast' BY <2>1, ListedSame DEF IInv
  <2>5. pkg.format = "epub" => EPUBInv' BY <2>1, EPUBSame DEF IInv
  <2>6. pkg.format # "epub" => PackageInv' BY <2>1, PackageSame DEF IInv
  <2> QED BY <2>1, <2>2, <2>3, <2>4, <2>5, <2>6 DEF IInv
<1> QED BY <1>1, <1>2

\* Whatever the publication and wherever the run fails, what has been written, the list of
\* what is encrypted and the work that is left agree with each other and with the source.
THEOREM Invariance == Spec => []IInv
BY InitIInv, NextIInv, PTL DEF Spec

\* processEPUB and buildEncryptedRPF write no content in clear and encrypt nothing twice of
\* what encryption.xml, as far as it could be read, or every item that resolves to the file
\* says rightly, and of a plain publication leave what leads into it readable.
THEOREM SealedWhereDue == Spec => []SealedAsDue
<1>1. ASSUME IInv PROVE SealedAsDue
  <2>1. CASE pkg.format = "epub"
    <3>1. Readium(pkg) = pkg BY <2>1 DEF Readium
    <3> QED BY <1>1, <2>1, <3>1 DEF IInv, EPUBInv, OutOfEPUB, SealedAsDue
  <2>2. CASE pkg.format # "epub"
    BY <1>1, <2>2 DEF IInv, PackageInv, OutOfPackage, SealedAsDue
  <2> QED BY <2>1, <2>2
<1> QED BY <1>1, Invariance, PTL

\* The manifest of a package, or encryption.xml, tells of every file of the output whether it
\* is encrypted (MarkAsEncrypted, NewFile, encryptEPUBResource).
THEOREM MarkedWhereSealed == Spec => []MarkedIffSealed
<1>1. ASSUME IInv, result = "ok", pkg.format = "epub", NEW e \in Entries(out),
             e.body # "foreign" \/ AllKnown
      PROVE  e.body # "clear" <=> \E m \in Entries(marks) : m.href.file = e.name
  <2>1. EPUBInv /\ Opened /\ IsEPUB(pkg)
    BY <1>1, EPUBWork DEF IInv, TypeOK, Opened
  <2>2. e.body # "clear" => \E m \in Entries(marks) : m.href.file = e.name
    BY <1>1, <2>1 DEF EPUBInv, MarksOfEPUB
  <2>3. ASSUME NEW m \in Entries(marks), m.href.file = e.name
        PROVE  e.body # "clear"
    <3>1. CASE m \in Entries(pkg.order)
      <4>1. e.name \in pkg.foreign BY <2>1, <2>3, <3>1 DEF IsEPUB
      <4> QED BY <2>1, <4>1 DEF EPUBInv, OutOfEPUB
    <3>2. CASE \E x \in Entries(out) : x.name = m.href.file /\ x.body # "clear"
      BY <2>1, <2>3, <3>2 DEF EPUBInv, WorkOfEPUB, Entries
    <3> QED BY <2>1, <3>1, <3>2 DEF EPUBInv, MarksOfEPUB
  <2> QED BY <2>2, <2>3
<1>2. ASSUME IInv, result = "ok", pkg.format # "epub", Plain(Readium(pkg)),
             NEW m \in Entries(marks), NEW e \in Entries(out), m.href.file = e.name,
             Told(Readium(pkg), e.name)
      PROVE  m.sealed <=> e.body # "clear"
  <2>1. PackageInv /\ Opened BY <1>2 DEF IInv, Opened
  <2>2. PICK i \in DOMAIN marks : m = marks[i] BY DEF Entries
  <2>3. /\ i \in DOMAIN Readium(pkg).order /\ m.href = Readium(pkg).order[i].href
        /\ Readium(pkg).order[i].href.file \in Names(out) => m.sealed
    BY <1>2, <2>1, <2>2 DEF PackageInv, MarksOfPackage
  <2>4. m.sealed BY <1>2, <2>3 DEF Names
  <2>5. e.name \notin Navigation(Readium(pkg)) BY <1>2, <2>3 DEF Plain, Entries
  <2>6. e.body # "clear" BY <1>2, <2>1, <2>5 DEF PackageInv, OutOfPackage
  <2> QED BY <2>4, <2>6
<1>3. IInv => MarkedIffSealed BY <1>1, <1>2 DEF MarkedIffSealed
<1> QED BY <1>3, Invariance, PTL

\* A run that succeeds has written every file of an EPUB once, and every file that the
\* reading order of a package names (Resources, Do), with mimetype first and the list last.
THEOREM EverythingDelivered == Spec => []Delivered
<1>1. ASSUME IInv, result = "ok" PROVE {i \in DOMAIN out : out[i].name = ListFile} = {Len(out)}
  <2>1. out # <<>> /\ out[Len(out)].name = ListFile BY <1>1 DEF IInv, ListedLast, Closed
  <2>2. \A i \in DOMAIN out : out[i].name = ListFile => i = Len(out) BY <1>1 DEF IInv, ListedLast
  <2>3. Len(out) \in DOMAIN out
    <3>1. out \in Seq(Output) BY <1>1 DEF IInv, TypeOK, Output
    <3> QED BY <2>1, <3>1, EmptyList
  <2> QED BY <2>1, <2>2, <2>3
<1>2. ASSUME IInv, result = "ok", pkg.format = "epub", NEW f \in pkg.files
      PROVE  \E i \in DOMAIN out : {k \in DOMAIN out : out[k].name = f} = {i}
  <2>1. EPUBInv /\ Opened /\ todo = <<>> /\ out \in Seq(Output)
    BY <1>2 DEF IInv, Opened, Report, TypeOK, Output
  <2>2. PICK i \in DOMAIN out : out[i].name = f
    <3>1. CASE f = Mimetype
      <4>1. out # <<>> /\ out[1].name = Mimetype BY <2>1 DEF EPUBInv, WorkOfEPUB
      <4>2. 1 \in DOMAIN out BY <2>1, <4>1, EmptyList
      <4> QED BY <3>1, <4>1, <4>2
    <3>2. CASE f = Encryption
      <4>1. ListFile = f BY <1>2, <3>2 DEF ListFile
      <4>2. Len(out) \in {i \in DOMAIN out : out[i].name = ListFile} BY <1>1, <1>2
      <4> QED BY <4>1, <4>2
    <3>3. CASE f \notin {Mimetype, Encryption}
      <4>1. Names(todo) = {} BY <2>1, NoEntry DEF Names
      <4>2. f \in Names(out) BY <1>2, <2>1, <3>3, <4>1 DEF EPUBInv, WorkOfEPUB
      <4> QED BY <4>2 DEF Names, Entries
    <3> QED BY <3>1, <3>2, <3>3
  <2>3. \A k \in DOMAIN out : out[k].name = f => k = i
    BY <2>1, <2>2 DEF EPUBInv, WorkOfEPUB
  <2> QED BY <2>2, <2>3
<1>3. ASSUME IInv, result = "ok", pkg.format = "epub" PROVE out[1].name = Mimetype
  BY <1>3 DEF IInv, EPUBInv, WorkOfEPUB, Opened
<1>4. ASSUME IInv, result = "ok", pkg.format # "epub",
             NEW o \in Entries(Readium(pkg).order), o.href.file \in Readium(pkg).files,
             Unescaped(o.href) = o.href.file
      PROVE  {i \in DOMAIN out : out[i].name = o.href.file} # {}
  <2>1. PackageInv /\ Opened /\ todo = <<>> BY <1>4 DEF IInv, Opened, Report
  <2>2. Due(todo) = {} BY <2>1, NoEntry DEF Due
  <2>3. o.href.file \in Names(out) BY <1>4, <2>1, <2>2 DEF PackageInv, AllOfPackage
  <2> QED BY <2>3 DEF Names, Entries
<1>5. IInv => Delivered BY <1>1, <1>2, <1>3, <1>4 DEF Delivered
<1> QED BY <1>5, Invariance, PTL

\* No write that is lost goes unreported, however late its error comes; no temporary package
\* outlives its run, and no cover a run that succeeds and was not asked for one, unless the
\* file could not be removed.
THEOREM FailureIsReported == Spec => []FailureReported
<1>1. IInv => FailureReported BY DEF IInv, Report, FailureReported, Closed, Running
<1> QED BY <1>1, Invariance, PTL
=============================================================================
