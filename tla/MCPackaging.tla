----------------------------- MODULE MCPackaging -----------------------------
(* Model-checking instances of Packaging: EPUBs, Readium and W3C packages over a few file
   names, one of each kind of name, and what a comment of the code says. *)
EXTENDS Packaging

CONSTANT MaxOrder   \* bound on the length of a reading order

Seqs(S, n) == UNION {[1..k -> S] : k \in 0..n}

\* An href of a file: its name, or the escaped form of a name that has one.
HrefsOf(S) == {h \in [file : S, escaped : BOOLEAN] : h.escaped => h.file \in Spaced \cup {"a+b.mp3"}}

EpubZip == <<Mimetype, "META-INF/container.xml", "book.opf", "a b.html", "video.mp4",
             "nav.html", Encryption>>

MCFileName ==
    Entries(EpubZip) \cup {NoFile, Manifest, W3CManifest, "__MACOSX", "publication.pdf",
        "cover.jpg", "cover.png", "a b.mp3", "a+b.mp3", "text.html", "missing.opf"}

\* "a+b.mp3" becomes "a b.mp3".
MCQueryUnescape == [f \in MCFileName |-> IF f = "a+b.mp3" THEN "a b.mp3" ELSE f]

\* The files that are encrypted already and the ones that the manifest marks, rightly or not;
\* a W3C manifest marks none.
MCMarked ==
    {<<"rpf", {}, {}>>, <<"rpf", {"a b.mp3"}, {"a b.mp3"}>>, <<"rpf", {"a+b.mp3"}, {"a+b.mp3"}>>,
     <<"rpf", {}, {"a b.mp3"}>>, <<"lpf", {}, {}>>, <<"lpf", {"a b.mp3"}, {}>>}

\* Resources and links; one resource is named by an escaped href, which NewWriter cannot find.
MCCover ==
    {<< <<>>, <<>> >>,
     << <<[href |-> Href("cover.png"), cover |-> TRUE]>>,
        <<[href |-> Href("cover.png"), self |-> TRUE, cover |-> FALSE]>> >>,
     << <<>>, <<[href |-> Href(Manifest), self |-> FALSE, cover |-> FALSE],
                [href |-> Href("text.html"), self |-> FALSE, cover |-> TRUE]>> >>,
     << <<[href |-> [file |-> "a b.mp3", escaped |-> TRUE], cover |-> FALSE]>>, <<>> >>}

\* text.html and a+b.mp3 may be missing, and so may the W3C manifest.
MCReadium ==
    {[format |-> m[1], files |-> files, foreign |-> m[2],
      order |-> [i \in DOMAIN order |-> [href |-> order[i], sealed |-> order[i].file \in m[3]]],
      resources |-> c[1], links |-> c[2]] :
        m \in MCMarked, c \in MCCover,
        files \in {{Manifest, "a b.mp3", "a+b.mp3", "text.html", "cover.png"},
                   {W3CManifest, "__MACOSX", "a b.mp3", "cover.png", Manifest}},
        order \in Seqs(HrefsOf({"a b.mp3", "a+b.mp3", "text.html"}), MaxOrder)}

MCPdf == {[format |-> "pdf"]}

\* EPUBs whose encryption.xml, when they have one, names the encrypted file in its escaped
\* form or not.
MCEpub ==
    {[format |-> "epub", zip |-> EpubZip, files |-> Entries(EpubZip),
      foreign |-> IF order = <<>> THEN {} ELSE {"a b.html"},
      order |-> order, items |-> items, roots |-> roots, meta |-> {"META-INF/container.xml"},
      titled |-> titled] :
        order \in {<<>>, <<[href |-> [file |-> "a b.html", escaped |-> TRUE], sealed |-> TRUE]>>,
                   <<[href |-> Href("a b.html"), sealed |-> TRUE]>>},
        items \in {<<[href |-> [file |-> "a b.html", escaped |-> b], role |-> r, media |-> FALSE],
                     [href |-> Href("nav.html"), role |-> "nav", media |-> FALSE],
                     [href |-> Href("video.mp4"), role |-> "content", media |-> TRUE]>> :
                        b \in BOOLEAN, r \in {"content", "cover"}},
        roots \in {{}, {"book.opf"}, {"missing.opf"}},
        titled \in BOOLEAN}

MCPackages == MCReadium \cup MCPdf \cup MCEpub

\* rwppackage.go:294 and 318, NewFile is called for "the encryption of an existing Readium Package
\* (there is already an entry in the manifest)", and MarkAsEncrypted "marks a resource as
\* encrypted (with an algorithm), in the writer manifest": in the output of a run that
\* succeeds the items of the source's reading order are marked when their file is encrypted.
MarkedInManifest ==
    result = "ok" /\ pkg.format = "rpf" =>
        \A i \in DOMAIN pkg.order : \A e \in Entries(out) :
           e.name = pkg.order[i].href.file /\ e.body # "clear" => marks[i].sealed
=============================================================================
