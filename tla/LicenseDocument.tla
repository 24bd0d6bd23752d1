--------------------------- MODULE LicenseDocument ---------------------------
(***************************************************************************)
(* What buildLicense puts into a license besides its rights: the links     *)
(* (license.SetLicenseLinks), the user fields that are encrypted           *)
(* (encryptFields) and the date of its last update.                        *)
(***************************************************************************)
EXTENDS Naturals, SequencesExt

\* The fields of UserInfo a provider may ask to be encrypted.
Fields == {"name", "email"}

Nil == 0

-----------------------------------------------------------------------------
(* A definition X_bug that stands before a definition X is a mutated form  *)
(* of it; the specification uses none of them.                             *)

\* The links of the request whose relation has no default one, then the default links.  A
\* link has its place in the list; the default links share one: their order is a map's.
appendDefaultLinks(custom, defaults) ==
    {[at |-> i, rel |-> custom[i], href |-> "custom"] :
        i \in {k \in DOMAIN custom : custom[k] \notin defaults}}
    \cup {[at |-> Len(custom) + 1, rel |-> rel, href |-> "default"] : rel \in defaults}

\* SetLicenseLinks.  When the location of the content is a URL it replaces the first
\* publication link, or is added; the other publication links are expanded templates.
SetLicenseLinks(custom, defaults, isURL) ==
    LET links == appendDefaultLinks(custom, defaults)
        pubs  == {l \in links : l.rel = "publication"}
        first == {l \in pubs : isURL /\ \A k \in pubs : l.at <= k.at}
    IN (links \ first)
       \cup {[l EXCEPT !.href = "location"] : l \in first}
       \cup (IF isURL /\ pubs = {}
             THEN {[at |-> Len(custom) + 2, rel |-> "publication", href |-> "location"]}
             ELSE {})

encryptFields_noBreak(listed) ==
    IF \A i \in DOMAIN listed : listed[i] \in Fields THEN [listed |-> listed, sealed |-> listed]
    ELSE [listed |-> Front(listed), sealed |-> SelectSeq(listed, LAMBDA f : f \in Fields)]

\* encryptFields stops at the first name that is not a field, after it has replaced the
\* name by the last of the list: the fields after it stay in clear.
encryptFields(listed) ==
    LET bad == {i \in DOMAIN listed : listed[i] \notin Fields}
        stop == CHOOSE i \in bad : \A k \in bad : i <= k
    IN IF bad = {} THEN [listed |-> listed, sealed |-> listed]
       ELSE [listed |-> Front([listed EXCEPT ![stop] = Last(listed)]),
             sealed |-> SubSeq(listed, 1, stop - 1)]

\* The date clients compare: updated or, without it, issued.
DateOf(l) == IF l.updated = Nil THEN l.issued ELSE l.updated

BuiltDate_noFix(l, cert) == DateOf(l)

\* buildLicense for a license that exists: an older date is raised to the one of the
\* certificate, because clients refuse a license older than the certificate.
BuiltDate(l, cert) ==
    IF cert # Nil /\ l.issued < cert /\ (l.updated = Nil \/ l.updated < cert)
    THEN cert ELSE DateOf(l)

-----------------------------------------------------------------------------
(* What the two algorithms owe to a request.                               *)

\* Every default link is there once and is the provider's own, unless a publication link
\* gives way to the URL of the content, which is in exactly one link.
LinksOwed(links, defaults, isURL) ==
    /\ \A rel \in defaults :
          \E l \in links :
             /\ {k \in links : k.rel = rel} = {l}
             /\ l.href = "default" \/ (rel = "publication" /\ isURL)
    /\ isURL => \E l \in links :
                   /\ {k \in links : k.href = "location"} = {l}
                   /\ l.rel = "publication"

\* An encrypted field is listed, or a client would show it as it is; when the request names
\* only fields, each once, every listed field is encrypted, and once.
FieldsOwed(built, asked) ==
    /\ ToSet(built.sealed) \subseteq ToSet(built.listed)
    /\ (\A i \in DOMAIN asked : asked[i] \in Fields) /\ IsInjective(asked) =>
          IsInjective(built.sealed) /\ ToSet(built.sealed) = ToSet(asked)
=============================================================================
