---------------------------- MODULE FrontendProofs ----------------------------
(***************************************************************************)
(* Theorems about LicenseView and the Catalog it extends, for any number   *)
(* of requests served at a time, of master files and of documents.         *)
(*                                                                         *)
(* The invariant is built in four parts, each resting on the ones before:  *)
(* the publications being added (Adding), the users and the forms (Forms), *)
(* the licenses of purchases and of requests (Licenses) with the rows of   *)
(* the view (Viewing), and, as long as no request has raced, what          *)
(* purchases refer to (Referring) and licenses were made for (MadeFor).    *)
(***************************************************************************)
EXTENDS LicenseView, FiniteSetTheorems, TLAPS

-----------------------------------------------------------------------------
(* The invariant.                                                          *)

\* The contents that are on the License Server and whose row is about to be inserted.
Inserting == {req[w].content : w \in {v \in Workers : req[v].pc = "insert"}}

\* A request that adds a publication: it has drawn a content of its own, which is on the
\* License Server when its row is to be inserted.
AddOK(w) ==
    /\ req[w].pc \in {"encrypt", "notify", "insert", "remove"} => req[w].op = "add"
    /\ req[w].pc \in {"notify", "insert", "remove"} => req[w].content \in 1..MaxContents
    /\ req[w].pc = "notify" => req[w].content \notin DOMAIN contents
    /\ req[w].pc \in {"insert", "remove"} =>
          req[w].content \in DOMAIN contents /\ contents[req[w].content] = req[w].file
    /\ \A v \in Workers :
          /\ v # w
          /\ req[v].pc \in {"notify", "insert"} /\ req[w].pc \in {"notify", "insert"}
          => req[v].content # req[w].content

\* The publications: a row was given an id no larger than the number of contents that were
\* inserted, so that the ids stay within Rows.
Adding ==
    /\ masters \subseteq Masters
    /\ contents = [c \in DOMAIN contents |-> contents[c]]
    /\ DOMAIN contents \subseteq 1..MaxContents
    /\ \A c \in DOMAIN contents : contents[c] \in Masters \cup {Upload}
    /\ pubs = [i \in DOMAIN pubs |-> pubs[i]]
    /\ DOMAIN pubs \subseteq Nat \ {0}
    /\ \A i \in DOMAIN pubs : i <= Cardinality((DOMAIN contents) \ Inserting)
    /\ \A i \in DOMAIN pubs : pubs[i] \in DOMAIN contents
    /\ \A m \in Masters \ masters : \E c \in DOMAIN contents : contents[c] = m
    /\ \A w \in Workers : AddOK(w)

\* The other requests.
FormOK(r) ==
    /\ r.op = "idle" <=> r.pc = "start"
    /\ r.pc \in {"purchases", "row"} <=> r.op \in {"deletePublication", "deleteUser"}
    /\ r.pc = "form" <=> r.op \in {"purchase", "updateUser"}
    /\ r.pc \in {"post", "check", "store"} <=> r.op = "license"
    /\ r.op = "deletePublication" => r.pub \in Rows /\ r.user = None
    /\ r.op = "deleteUser" => r.pub = None /\ r.user \in Rows
    /\ r.op = "purchase" => r.pub \in Rows /\ r.user \in Rows /\ r.content \in 1..MaxContents
    /\ r.pc = "form" => r.user \in Rows /\ r.person \in 1..MaxPeople

Forms ==
    /\ req \in [Workers -> Requests]
    /\ \A w \in Workers : FormOK(req[w])
    /\ people \in 1..MaxPeople
    /\ users = [i \in DOMAIN users |-> users[i]]
    /\ DOMAIN users \subseteq 1..people
    /\ \A i \in DOMAIN users : users[i] \in [uuid : 1..MaxPeople, data : 1..MaxPeople]

\* A request that is about to store the license that was generated for it.
HoldsLicense(w) == req[w].op = "license" /\ req[w].license # None

\* A license has one document, and is held by one purchase or by the request that will store
\* it; ids and uuids of purchases are unique.
Licenses ==
    /\ purchases \subseteq Purchases
    /\ bought \in 0..MaxPurchases
    /\ docs \in Seq(Docs) /\ Len(docs) <= MaxDocs
    /\ \A i \in DOMAIN docs : docs[i].license = i
    /\ \A p \in purchases : p.id <= bought /\ p.uuid <= bought /\ p.license <= Len(docs)
    /\ \A p, q \in purchases : p.id = q.id \/ p.uuid = q.uuid => p = q
    /\ \A p, q \in purchases : p.license = q.license /\ p.license # None => p = q
    /\ \A w \in Workers :
          /\ req[w].op = "license" => req[w].uuid <= bought /\ req[w].license <= Len(docs)
          /\ HoldsLicense(w) =>
                /\ \A p \in purchases : p.license # req[w].license
                /\ \A v \in Workers :
                      v # w /\ HoldsLicense(v) => req[v].license # req[w].license

\* No two rows are for the same license.
NoneTwice(rows) ==
    \A i, k \in DOMAIN rows :
       rows[i].license = rows[k].license => i = k

\* The task fills an emptied view with the documents of one answer.
Viewing ==
    /\ view \in Seq(Docs)
    /\ task \in [pc : {"sleep", "purge", "fill", "dead"}, rows : Seq(Docs)]
    /\ NoneTwice(view) /\ NoneTwice(task.rows)
    /\ task.pc = "fill" =>
          \A i \in DOMAIN view, k \in DOMAIN task.rows : view[i].license # task.rows[k].license

\* What the licenses were generated for.
Made == [content : 0..MaxContents, person : 0..MaxPeople]

\* What a purchase refers to and its owner.
Referring ==
    /\ \A u \in DOMAIN users : users[u].data = users[u].uuid
    /\ \A p \in purchases :
          /\ p.pub \in DOMAIN pubs /\ pubs[p.pub] = p.content
          /\ p.user \in DOMAIN users /\ users[p.user].uuid = p.person
          /\ \A w \in Workers :
                req[w].pc = "row" => req[w].pub # p.pub /\ req[w].user # p.user

\* What the licenses were made for that purchases have, or that requests are about to store.
MadeFor ==
    /\ \A p \in purchases :
          p.license # None => made[p.license] = [content |-> p.content, person |-> p.person]
    /\ \A w \in Workers :
          /\ HoldsLicense(w) =>
                made[req[w].license] = [content |-> req[w].content, person |-> req[w].person]
          /\ req[w].op = "license" =>
                \A p \in purchases : p.uuid = req[w].uuid =>
                   p.content = req[w].content /\ p.person = req[w].person

\* The inductive invariant.
IInv ==
    /\ Adding /\ Forms /\ Licenses /\ Viewing
    /\ raced \in BOOLEAN /\ faults \in 0..MaxFaults
    /\ made \in Seq(Made) /\ Len(made) = Len(docs)
    /\ ~raced => Referring /\ MadeFor

-----------------------------------------------------------------------------
(* Numbers, tables and requests.                                           *)

\* A nonempty set of numbers has a least one.
LEMMA LeastNatural ==
    ASSUME NEW T, T \subseteq Nat, T # {}
    PROVE  \E x \in T : \A y \in T : x <= y
<1> DEFINE R == OpToRel(<, Nat)
<1>1. IsWellFoundedOn(R, Nat)
  BY NatLessThanWellFounded
<1>2. \A x, y \in Nat : x < y => <<x, y>> \in R
  BY DEF OpToRel
<1> HIDE DEF R
<1>3. PICK x \in T : \A y \in T : <<y, x>> \notin R
  BY <1>1, WFMin
<1>4. ASSUME NEW y \in T PROVE x <= y
  <2>1. x \in Nat /\ y \in Nat
    OBVIOUS
  <2>2. ~(y < x)
    BY <1>2, <1>3, <2>1
  <2> QED BY <2>1, <2>2
<1> QED BY <1>4

\* A bounded one has a greatest, and Max is it.
LEMMA GreatestNatural ==
    ASSUME NEW S, S \subseteq Nat, S # {}, NEW k \in Nat, \A x \in S : x <= k
    PROVE  Max(S) \in S /\ \A y \in S : y <= Max(S)
<1> DEFINE T == {k - x : x \in S}
<1>1. T \subseteq Nat /\ T # {}
  <2>1. \A x \in S : k - x \in Nat
    OBVIOUS
  <2> QED BY <2>1, Zenon
<1>2. PICK t \in T : \A y \in T : t <= y
  BY <1>1, LeastNatural
<1>3. PICK m \in S : t = k - m
  OBVIOUS
<1>4. \A y \in S : m >= y
  BY <1>2, <1>3
<1> QED BY <1>4 DEF Max

\* One more than the largest is new.
LEMMA Beyond ==
    ASSUME NEW S, S \subseteq Nat, NEW k \in Nat, \A x \in S : x <= k
    PROVE  /\ Max(S \cup {0}) \in Nat /\ Max(S \cup {0}) <= k
           /\ \A x \in S : x <= Max(S \cup {0})
<1> DEFINE T == S \cup {0}
<1>1. T \subseteq Nat /\ T # {} /\ \A x \in T : x <= k
  OBVIOUS
<1>2. Max(T) \in T /\ \A y \in T : y <= Max(T)
  <2> HIDE DEF T
  <2> QED BY <1>1, GreatestNatural
<1> HIDE DEF Max
<1> QED BY <1>1, <1>2

\* SQLite's next id is not in use.
LEMMA NewIdIsNew ==
    ASSUME NEW table, DOMAIN table \subseteq Nat \ {0},
           NEW k \in Nat, \A i \in DOMAIN table : i <= k
    PROVE  NewId(table) \in 1..(k + 1) /\ NewId(table) \notin DOMAIN table
<1> DEFINE m == Max((DOMAIN table) \cup {0})
<1>1. m \in Nat /\ m <= k /\ \A i \in DOMAIN table : i <= m
  BY Beyond
<1>2. NewId(table) = m + 1
  BY DEF NewId
<1> HIDE DEF m
<1> QED BY <1>1, <1>2

\* The steps of a request.
PCs == {"start", "encrypt", "notify", "insert", "remove", "purchases", "row", "form",
        "post", "check", "store"}

\* Idle is a request, and one that goes on remains one.
LEMMA RequestTypes ==
    /\ Idle \in Requests
    /\ \A r \in Requests : /\ r.content \in 0..MaxContents /\ r.person \in 0..MaxPeople
                           /\ r.pub \in Rows \cup {None} /\ r.user \in Rows \cup {None}
                           /\ r.file \in Masters \cup {Upload}
                           /\ r.purchase \in 0..MaxPurchases /\ r.uuid \in 0..MaxPurchases
                           /\ r.license \in 0..MaxDocs
                           /\ r.pc \in PCs
    /\ \A r \in Requests, pc \in PCs : [r EXCEPT !.pc = pc] \in Requests
BY CatalogAssumption DEF Requests, Idle, PCs, None

\* The fields of Idle.
LEMMA IdleFields ==
    /\ Idle \in Requests
    /\ Idle.pub = None /\ Idle.user = None /\ Idle.content = None /\ Idle.person = None
    /\ Idle.purchase = None /\ Idle.uuid = None /\ Idle.license = None
    /\ Idle.op = "idle" /\ Idle.pc = "start"
BY RequestTypes DEF Idle

\* A worker's request is replaced.
LEMMA NewRequest ==
    ASSUME req \in [Workers -> Requests], NEW w \in Workers, NEW r \in Requests,
           req' = [req EXCEPT ![w] = r]
    PROVE  /\ req' \in [Workers -> Requests] /\ req'[w] = r
           /\ \A v \in Workers : v # w => req'[v] = req[v]
OBVIOUS

\* A request ends.
LEMMA DoneRequest ==
    ASSUME req \in [Workers -> Requests], NEW w \in Workers, Done(w)
    PROVE  /\ req' \in [Workers -> Requests] /\ req'[w] = Idle
           /\ \A v \in Workers : v # w => req'[v] = req[v]
BY NewRequest, RequestTypes DEF Done

\* A request goes on.
LEMMA GoesRequest ==
    ASSUME req \in [Workers -> Requests], NEW w \in Workers, NEW pc \in PCs, Goes(w, pc)
    PROVE  /\ req' \in [Workers -> Requests]
           /\ req'[w].pc = pc /\ req'[w].op = req[w].op /\ req'[w].file = req[w].file
           /\ req'[w].pub = req[w].pub /\ req'[w].user = req[w].user
           /\ req'[w].content = req[w].content /\ req'[w].person = req[w].person
           /\ req'[w].uuid = req[w].uuid /\ req'[w].license = req[w].license
           /\ \A v \in Workers : v # w => req'[v] = req[v]
<1> DEFINE r == [req[w] EXCEPT !.pc = pc]
<1>1. req[w] \in Requests
  OBVIOUS
<1>2. r \in Requests
  BY <1>1, RequestTypes
<1>3. /\ r.pc = pc /\ r.op = req[w].op /\ r.file = req[w].file
      /\ r.pub = req[w].pub /\ r.user = req[w].user
      /\ r.content = req[w].content /\ r.person = req[w].person
      /\ r.uuid = req[w].uuid /\ r.license = req[w].license
  BY <1>1 DEF Requests
<1>4. req' = [req EXCEPT ![w] = r]
  BY DEF Goes
<1> HIDE DEF r
<1>5. req' \in [Workers -> Requests] /\ req'[w] = r /\ \A v \in Workers : v # w => req'[v] = req[v]
  BY <1>2, <1>4, NewRequest
<1> QED BY <1>3, <1>5

-----------------------------------------------------------------------------
(* The publications being added.                                           *)

\* The contents are finite, and the ids of the publications are no more than they.
LEMMA Counted ==
    ASSUME Adding
    PROVE  /\ IsFiniteSet(DOMAIN contents)
           /\ Cardinality((DOMAIN contents) \ Inserting) \in 0..MaxContents
           /\ DOMAIN pubs \subseteq 1..MaxContents
<1> DEFINE D == DOMAIN contents  S == D \ Inserting
<1>1. IsFiniteSet(1..MaxContents) /\ Cardinality(1..MaxContents) = MaxContents
  BY FS_Interval, CatalogAssumption
<1>2. IsFiniteSet(D) /\ D \subseteq 1..MaxContents
  BY <1>1, FS_Subset DEF Adding
<1>3. IsFiniteSet(S) /\ Cardinality(S) <= MaxContents
  BY <1>1, <1>2, FS_Subset
<1>4. Cardinality(S) \in Nat
  BY <1>3, FS_CardinalityType
<1>5. DOMAIN pubs \subseteq Nat \ {0} /\ \A i \in DOMAIN pubs : i <= Cardinality(S)
  BY DEF Adding
<1> HIDE DEF S
<1>6. DOMAIN pubs \subseteq 1..MaxContents
  BY <1>3, <1>4, <1>5, CatalogAssumption
<1> QED BY <1>2, <1>3, <1>4, <1>6, CatalogAssumption DEF S

\* Requests that end, or that begin, and rows that are deleted leave the rest as it is.
LEMMA AddingFrame ==
    ASSUME Adding, req \in [Workers -> Requests],
           masters' = masters, contents' = contents,
           pubs' = [i \in DOMAIN pubs' |-> pubs'[i]], DOMAIN pubs' \subseteq DOMAIN pubs,
           \A i \in DOMAIN pubs' : pubs'[i] = pubs[i],
           \A v \in Workers :
              \/ req'[v] = req[v]
              \/ req'[v].pc \notin {"encrypt", "notify", "insert", "remove"}
              \/ req'[v].pc = "encrypt" /\ req'[v].op = "add"
    PROVE  Adding'
<1> DEFINE D == DOMAIN contents
<1>1. \A v \in Workers :
         req'[v].pc \in {"notify", "insert", "remove"} => req'[v] = req[v]
  OBVIOUS
<1>2. Inserting' \subseteq Inserting
  BY <1>1 DEF Inserting
<1>3. \A w \in Workers : AddOK(w)'
  <2> SUFFICES ASSUME NEW w \in Workers PROVE AddOK(w)'
    OBVIOUS
  <2>1. AddOK(w)
    BY DEF Adding
  <2> QED BY <1>1, <2>1 DEF AddOK
<1>4. Cardinality(D \ Inserting) <= Cardinality(D \ Inserting')
  <2>1. IsFiniteSet(D)
    BY Counted
  <2>2. IsFiniteSet(D \ Inserting')
    BY <2>1, FS_Subset
  <2>3. D \ Inserting \in SUBSET (D \ Inserting')
    BY <1>2
  <2> QED BY <2>2, <2>3, FS_Subset
<1>5. \A i \in DOMAIN pubs' : i <= Cardinality(D \ Inserting')
  <2>1. Cardinality(D \ Inserting) \in Nat
    BY Counted
  <2>2. IsFiniteSet(D \ Inserting')
    BY Counted, FS_Subset
  <2>3. Cardinality(D \ Inserting') \in Nat
    BY <2>2, FS_CardinalityType
  <2>4. \A i \in DOMAIN pubs' : i \in Nat /\ i <= Cardinality(D \ Inserting)
    BY DEF Adding
  <2> DEFINE m == Cardinality(D \ Inserting)  n == Cardinality(D \ Inserting')
  <2> SUFFICES \A i \in DOMAIN pubs' : i <= n
    OBVIOUS
  <2>5. m \in Nat /\ n \in Nat /\ m <= n /\ \A i \in DOMAIN pubs' : i \in Nat /\ i <= m
    BY <1>4, <2>1, <2>3, <2>4
  <2> HIDE DEF m, n
  <2> QED BY <2>5
<1>6. (Cardinality((DOMAIN contents) \ Inserting))' = Cardinality(D \ Inserting')
  OBVIOUS
<1> QED BY <1>3, <1>5, <1>6 DEF Adding

\* A content is drawn that no one has.
LEMMA EncryptAdding ==
    ASSUME Adding, req \in [Workers -> Requests], NEW w \in Workers, Encrypt(w)
    PROVE  /\ Adding' /\ req' \in [Workers -> Requests]
           /\ req'[w] = Idle \/ (req'[w].pc = "notify" /\ req'[w].op = req[w].op)
           /\ \A v \in Workers : v # w => req'[v] = req[v]
<1>1. masters' = masters /\ contents' = contents /\ pubs' = pubs /\ req[w].pc = "encrypt"
  BY DEF Encrypt
<1>2. CASE Done(w)
  <2>1. /\ req' \in [Workers -> Requests] /\ req'[w] = Idle
        /\ \A v \in Workers : v # w => req'[v] = req[v]
    BY <1>2, DoneRequest
  <2>2. req'[w].pc = "start"
    BY <2>1 DEF Idle
  <2>3. Adding'
    <3>1. pubs' = [i \in DOMAIN pubs' |-> pubs'[i]]
      BY <1>1 DEF Adding
    <3> QED BY <1>1, <2>1, <2>2, <3>1, AddingFrame
  <2> QED BY <2>1, <2>3
<1>3. CASE ~Done(w)
  <2> DEFINE m == Max(Drawn \cup {0})  r == [req[w] EXCEPT !.pc = "notify", !.content = m + 1]
  <2>1. m < MaxContents /\ req' = [req EXCEPT ![w] = r]
    BY <1>3 DEF Encrypt
  <2>2. Drawn \subseteq Nat /\ \A x \in Drawn : x <= MaxContents
    <3>1. \A v \in Workers : req[v].content \in 0..MaxContents
      BY RequestTypes
    <3> QED BY <3>1, CatalogAssumption DEF Drawn, Adding
  <2>3. m \in Nat /\ \A x \in Drawn : x <= m
    BY <2>2, Beyond, CatalogAssumption
  <2>4. m + 1 \in 1..MaxContents /\ m + 1 \notin Drawn
    <3> HIDE DEF m
    <3> QED BY <2>1, <2>2, <2>3, CatalogAssumption
  <2>5. /\ r \in Requests /\ r.pc = "notify" /\ r.content = m + 1
        /\ r.op = req[w].op /\ r.file = req[w].file
    <3>1. req[w] \in Requests
      OBVIOUS
    <3>2. m + 1 \in 0..MaxContents
      BY <2>4
    <3> HIDE DEF m
    <3> QED BY <3>1, <3>2 DEF Requests
  <2> HIDE DEF r
  <2>6. /\ req' \in [Workers -> Requests] /\ req'[w] = r
        /\ \A v \in Workers : v # w => req'[v] = req[v]
    BY <2>1, <2>5, NewRequest
  <2>7. Inserting' = Inserting
    <3>1. req'[w].pc # "insert" /\ req[w].pc # "insert"
      BY <1>1, <2>5, <2>6
    <3> QED BY <2>6, <3>1 DEF Inserting
  <2>8. ASSUME NEW u \in Workers PROVE AddOK(u)'
    <3>1. AddOK(u) /\ AddOK(w)
      BY DEF Adding
    <3>2. m + 1 \notin DOMAIN contents /\ \A v \in Workers : m + 1 # req[v].content
      BY <2>4 DEF Drawn
    <3> HIDE DEF m
    <3>3. CASE u = w
      BY <1>1, <2>4, <2>5, <2>6, <3>1, <3>2, <3>3 DEF AddOK
    <3>4. CASE u # w
      BY <1>1, <2>4, <2>5, <2>6, <3>1, <3>2, <3>4 DEF AddOK
    <3> QED BY <3>3, <3>4
  <2>9. Adding'
    BY <1>1, <2>7, <2>8 DEF Adding
  <2> QED BY <2>5, <2>6, <2>9
<1> QED BY <1>2, <1>3

\* The License Server takes the content, whether the frontend gets the answer or not.
LEMMA NotifyAdding ==
    ASSUME Adding, req \in [Workers -> Requests], NEW w \in Workers, NotifyLCPServer(w)
    PROVE  /\ Adding' /\ req' \in [Workers -> Requests]
           /\ req'[w] = Idle \/ (req'[w].pc = "insert" /\ req'[w].op = req[w].op)
           /\ \A v \in Workers : v # w => req'[v] = req[v]
<1> DEFINE c == req[w].content  D == DOMAIN contents
<1>1. masters' = masters /\ pubs' = pubs /\ req[w].pc = "notify"
  BY DEF NotifyLCPServer
<1>2. /\ req' \in [Workers -> Requests]
      /\ \A v \in Workers : v # w => req'[v] = req[v]
      /\ \/ req'[w] = Idle /\ contents' = contents
         \/ req'[w] = Idle /\ contents' = With(contents, c, req[w].file)
         \/ /\ req'[w].pc = "insert" /\ req'[w].op = req[w].op
            /\ req'[w].content = c /\ req'[w].file = req[w].file
            /\ contents' = With(contents, c, req[w].file)
  <2>1. CASE Done(w) /\ contents' \in {contents, With(contents, c, req[w].file)}
    BY <2>1, DoneRequest
  <2>2. CASE Goes(w, "insert") /\ contents' = With(contents, c, req[w].file)
    <3>1. "insert" \in PCs
      BY DEF PCs
    <3> QED BY <2>2, <3>1, GoesRequest
  <2> QED BY <2>1, <2>2 DEF NotifyLCPServer
<1>3. CASE req'[w] = Idle /\ contents' = contents
  <2>1. req'[w].pc = "start"
    BY <1>3 DEF Idle
  <2>2. pubs' = [i \in DOMAIN pubs' |-> pubs'[i]]
    BY <1>1 DEF Adding
  <2> QED BY <1>1, <1>2, <1>3, <2>1, <2>2, AddingFrame
<1>4. CASE contents' = With(contents, c, req[w].file)
  <2>1. AddOK(w) /\ c \in 1..MaxContents /\ c \notin D
    BY <1>1 DEF Adding, AddOK
  <2>2. /\ contents' = [i \in DOMAIN contents' |-> contents'[i]]
        /\ DOMAIN contents' = D \cup {c} /\ contents'[c] = req[w].file
        /\ \A i \in D : contents'[i] = contents[i]
    <3> DEFINE t == With(contents, c, req[w].file)
    <3>1. /\ t = [i \in DOMAIN t |-> t[i]]
          /\ DOMAIN t = D \cup {c} /\ t[c] = req[w].file
          /\ \A i \in D : i # c => t[i] = contents[i]
      BY DEF With
    <3> HIDE DEF t
    <3>2. contents' = t
      BY <1>4 DEF t
    <3> QED BY <2>1, <3>1, <3>2
  <2>3. /\ req'[w].pc \in {"start", "insert"}
        /\ req'[w].pc = "insert" => /\ req'[w].op = req[w].op /\ req'[w].content = c
                                   /\ req'[w].file = req[w].file
    BY <1>2, <2>2 DEF Idle
  <2>4. ASSUME NEW u \in Workers PROVE AddOK(u)'
    <3>1. AddOK(u) /\ req[w].op = "add"
      BY <1>1, <2>1 DEF Adding, AddOK
    <3>2. CASE u = w
      BY <1>1, <1>2, <2>1, <2>2, <2>3, <3>1, <3>2 DEF AddOK
    <3>3. CASE u # w
      BY <1>1, <1>2, <2>1, <2>2, <2>3, <3>1, <3>3 DEF AddOK
    <3> QED BY <3>2, <3>3
  <2>5. Inserting' \subseteq Inserting \cup {c}
    BY <1>1, <1>2, <2>3 DEF Inserting
  <2>6. D \ Inserting \subseteq (DOMAIN contents') \ Inserting'
    BY <2>1, <2>2, <2>5
  <2>7. \A i \in DOMAIN pubs : i <= Cardinality((DOMAIN contents') \ Inserting')
    <3> DEFINE m == Cardinality(D \ Inserting)
               n == Cardinality((DOMAIN contents') \ Inserting')
    <3> SUFFICES \A i \in DOMAIN pubs : i <= n
      OBVIOUS
    <3>1. IsFiniteSet(D) /\ m \in Nat
      BY Counted
    <3>2. IsFiniteSet((DOMAIN contents') \ Inserting')
      <4>1. IsFiniteSet(D \cup {c})
        BY <3>1, FS_AddElement
      <4> QED BY <2>2, <4>1, FS_Subset
    <3>3. n \in Nat /\ m <= n
      BY <2>6, <3>2, FS_Subset, FS_CardinalityType
    <3>4. \A i \in DOMAIN pubs : i \in Nat /\ i <= m
      BY DEF Adding
    <3> HIDE DEF m, n
    <3> QED BY <3>1, <3>3, <3>4
  <2>8. /\ \A i \in DOMAIN contents' : contents'[i] \in Masters \cup {Upload}
        /\ DOMAIN contents' \subseteq 1..MaxContents
    <3>1. req[w].file \in Masters \cup {Upload}
      BY RequestTypes
    <3> QED BY <2>1, <2>2, <3>1 DEF Adding
  <2>9. /\ \A i \in DOMAIN pubs : pubs[i] \in DOMAIN contents'
        /\ \A m \in Masters \ masters : \E i \in DOMAIN contents' : contents'[i] = m
    BY <2>2 DEF Adding
  <2>10. Adding'
    <3>1. /\ masters \subseteq Masters /\ DOMAIN pubs \subseteq Nat \ {0}
          /\ pubs = [i \in DOMAIN pubs |-> pubs[i]]
      BY DEF Adding
    <3>2. contents' = [i \in DOMAIN contents' |-> contents'[i]]
      BY <2>2
    <3>3. /\ pubs' = [i \in DOMAIN pubs' |-> pubs'[i]] /\ DOMAIN pubs' \subseteq Nat \ {0}
          /\ \A i \in DOMAIN pubs' : i <= Cardinality((DOMAIN contents') \ Inserting')
          /\ \A i \in DOMAIN pubs' : pubs'[i] \in DOMAIN contents'
      BY <1>1, <2>7, <2>9, <3>1
    <3> QED BY <1>1, <2>4, <2>8, <2>9, <3>1, <3>2, <3>3, Zenon DEF Adding
  <2> QED BY <1>2, <2>10
<1> QED BY <1>2, <1>3, <1>4

\* The row of the publication gets an id that is in the bounds.
LEMMA InsertAdding ==
    ASSUME Adding, req \in [Workers -> Requests], NEW w \in Workers, InsertPublication(w)
    PROVE  /\ Adding' /\ req' \in [Workers -> Requests]
           /\ req'[w] = Idle \/ (req'[w].pc = "remove" /\ req'[w].op = req[w].op)
           /\ \A v \in Workers : v # w => req'[v] = req[v]
           /\ \A i \in DOMAIN pubs : i \in DOMAIN pubs' /\ pubs'[i] = pubs[i]
<1> DEFINE c == req[w].content  D == DOMAIN contents  id == NewId(pubs)
<1>1. masters' = masters /\ contents' = contents /\ req[w].pc = "insert"
  BY DEF InsertPublication
<1>2. /\ req' \in [Workers -> Requests]
      /\ \A v \in Workers : v # w => req'[v] = req[v]
      /\ \/ req'[w] = Idle
         \/ /\ req'[w].pc = "remove" /\ req'[w].op = req[w].op
            /\ req'[w].content = c /\ req'[w].file = req[w].file
      /\ pubs' = pubs => req'[w] = Idle \/ pubs' = With(pubs, id, c)
      /\ pubs' # pubs => pubs' = With(pubs, id, c)
  <2>1. CASE Done(w)
    <3>1. pubs' = pubs \/ pubs' = With(pubs, id, c)
      BY DEF InsertPublication
    <3> QED BY <2>1, <3>1, DoneRequest
  <2>2. CASE Goes(w, "remove") /\ pubs' = With(pubs, id, c)
    <3>1. "remove" \in PCs
      BY DEF PCs
    <3> QED BY <2>2, <3>1, GoesRequest
  <2> QED BY <2>1, <2>2 DEF InsertPublication
<1>3. CASE pubs' = pubs /\ req'[w] = Idle
  <2>1. req'[w].pc = "start"
    BY <1>3 DEF Idle
  <2>2. pubs' = [i \in DOMAIN pubs' |-> pubs'[i]]
    BY <1>3 DEF Adding
  <2> QED BY <1>1, <1>2, <1>3, <2>1, <2>2, AddingFrame
<1>4. CASE pubs' = With(pubs, id, c)
  <2>1. AddOK(w) /\ c \in D
    BY <1>1 DEF Adding, AddOK
  <2>2. req'[w].pc \in {"start", "remove"}
    BY <1>2 DEF Idle
  <2>3. Inserting' = Inserting \ {c} /\ c \in Inserting
    <3>1. \A v \in Workers : v # w /\ req[v].pc = "insert" => req[v].content # c
      BY <1>1, <2>1 DEF AddOK
    <3> QED BY <1>1, <1>2, <2>2, <3>1 DEF Inserting
  <2> DEFINE m == Cardinality(D \ Inserting)  n == Cardinality(D \ Inserting')
  <2>4. m \in Nat /\ n = m + 1
    <3>1. IsFiniteSet(D) /\ m \in Nat
      BY Counted
    <3>2. IsFiniteSet(D \ Inserting)
      BY <3>1, FS_Subset
    <3>3. D \ Inserting' = (D \ Inserting) \cup {c} /\ c \notin D \ Inserting
      BY <2>1, <2>3
    <3> QED BY <3>1, <3>2, <3>3, FS_AddElement
  <2>5. DOMAIN pubs \subseteq Nat \ {0} /\ \A i \in DOMAIN pubs : i <= m
    BY DEF Adding
  <2>6. id \in 1..(m + 1) /\ id \notin DOMAIN pubs
    <3> HIDE DEF m, n
    <3> QED BY <2>4, <2>5, NewIdIsNew
  <2> HIDE DEF id
  <2>7. /\ pubs' = [i \in DOMAIN pubs' |-> pubs'[i]]
        /\ DOMAIN pubs' = (DOMAIN pubs) \cup {id} /\ pubs'[id] = c
        /\ \A i \in DOMAIN pubs : pubs'[i] = pubs[i]
    <3> DEFINE t == With(pubs, id, c)
    <3>1. /\ t = [i \in DOMAIN t |-> t[i]]
          /\ DOMAIN t = (DOMAIN pubs) \cup {id} /\ t[id] = c
          /\ \A i \in DOMAIN pubs : i # id => t[i] = pubs[i]
      BY DEF With
    <3> HIDE DEF t
    <3>2. pubs' = t
      BY <1>4 DEF t
    <3> QED BY <2>6, <3>1, <3>2
  <2>8. DOMAIN pubs' \subseteq Nat \ {0} /\ \A i \in DOMAIN pubs' : i <= n
    <3> HIDE DEF m, n
    <3>1. id \in Nat \ {0} /\ id <= n
      BY <2>4, <2>6
    <3>2. \A i \in DOMAIN pubs : i \in Nat \ {0} /\ i <= n
      BY <2>4, <2>5
    <3> QED BY <2>7, <3>1, <3>2
  <2>9. ASSUME NEW u \in Workers PROVE AddOK(u)'
    <3>1. AddOK(u)
      BY DEF Adding
    <3>2. CASE u = w
      BY <1>1, <1>2, <2>1, <2>2, <3>1, <3>2 DEF AddOK, Idle
    <3>3. CASE u # w
      BY <1>1, <1>2, <2>1, <2>2, <3>1, <3>3 DEF AddOK
    <3> QED BY <3>2, <3>3
  <2>10. \A i \in DOMAIN pubs' : pubs'[i] \in D
    BY <2>1, <2>7 DEF Adding
  <2>11. (Cardinality((DOMAIN contents) \ Inserting))' = n
    BY <1>1
  <2>12. Adding'
    BY <1>1, <2>7, <2>8, <2>9, <2>10, <2>11 DEF Adding
  <2> QED BY <1>2, <2>7, <2>12
<1> QED BY <1>2, <1>3, <1>4

\* A master file is removed when the License Server has a content made of it.
LEMMA RemoveAdding ==
    ASSUME Adding, req \in [Workers -> Requests], NEW w \in Workers, RemoveMaster(w)
    PROVE  /\ Adding' /\ req' \in [Workers -> Requests] /\ req'[w] = Idle
           /\ \A v \in Workers : v # w => req'[v] = req[v]
<1>1. /\ contents' = contents /\ pubs' = pubs /\ req[w].pc = "remove" /\ Done(w)
      /\ masters' = masters \/ masters' = masters \ {req[w].file}
  BY DEF RemoveMaster
<1>2. /\ req' \in [Workers -> Requests] /\ req'[w] = Idle
      /\ \A v \in Workers : v # w => req'[v] = req[v]
  BY <1>1, DoneRequest
<1>3. req'[w].pc = "start"
  BY <1>2 DEF Idle
<1>4. AddOK(w) /\ \E c \in DOMAIN contents : contents[c] = req[w].file
  BY <1>1 DEF Adding, AddOK
<1>5. Inserting' = Inserting
  BY <1>1, <1>2, <1>3 DEF Inserting
<1>6. ASSUME NEW u \in Workers PROVE AddOK(u)'
  <2>1. AddOK(u)
    BY DEF Adding
  <2> QED BY <1>1, <1>2, <1>3, <2>1 DEF AddOK
<1>7. /\ masters' \subseteq Masters
      /\ \A m \in Masters \ masters' : \E c \in DOMAIN contents : contents[c] = m
  BY <1>1, <1>4 DEF Adding
<1>8. Adding'
  BY <1>1, <1>5, <1>6, <1>7 DEF Adding
<1> QED BY <1>2, <1>8

-----------------------------------------------------------------------------
(* The users and the forms.                                                *)

\* Rows has the ids of both tables.
LEMMA RowIds ==
    ASSUME Adding, Forms
    PROVE  /\ DOMAIN pubs \subseteq Rows /\ DOMAIN users \subseteq Rows
           /\ None \notin Rows
           /\ \A i \in DOMAIN pubs : pubs[i] \in 1..MaxContents
<1>1. DOMAIN pubs \subseteq 1..MaxContents
  BY Counted
<1>2. DOMAIN users \subseteq 1..MaxPeople
  BY CatalogAssumption DEF Forms
<1>3. \A i \in DOMAIN pubs : pubs[i] \in 1..MaxContents
  BY DEF Adding
<1> QED BY <1>1, <1>2, <1>3, CatalogAssumption DEF Rows, None

\* One worker's request changes.
LEMMA FormsStep ==
    ASSUME Forms, req' \in [Workers -> Requests], NEW w \in Workers, FormOK(req'[w]),
           \A v \in Workers : v # w => req'[v] = req[v],
           users' = users, people' = people
    PROVE  Forms'
<1>1. ASSUME NEW v \in Workers PROVE FormOK(req'[v])
  BY DEF Forms
<1> QED BY <1>1 DEF Forms

\* A worker without a request.
LEMMA IdleOK == FormOK(Idle)
BY DEF FormOK, Idle

\* A request begins.
LEMMA BeginForms ==
    ASSUME Adding, Forms, NEW w \in Workers, FormOK(req'[w]),
           req'[w].pc = "encrypt" => req'[w].op = "add",
           req'[w].pc \notin {"notify", "insert", "remove"},
           req' \in [Workers -> Requests],
           \A v \in Workers : v # w => req'[v] = req[v],
           masters' = masters, contents' = contents, pubs' = pubs,
           users' = users, people' = people
    PROVE  Adding' /\ Forms'
<1>1. Forms'
  BY FormsStep
<1>2. pubs' = [i \in DOMAIN pubs' |-> pubs'[i]]
  BY DEF Adding
<1>3. Adding'
  BY <1>2, AddingFrame DEF Forms
<1> QED BY <1>1, <1>3

\* The first step of each kind of request.
LEMMA AddPublicationForms ==
    ASSUME Adding, Forms, NEW w \in Workers, AddPublication(w)
    PROVE  Adding' /\ Forms'
<1>1. PICK f \in masters \cup {Upload} :
         req' = [req EXCEPT ![w] = [Idle EXCEPT !.op = "add", !.pc = "encrypt", !.file = f]]
  BY DEF AddPublication
<1> DEFINE r == [Idle EXCEPT !.op = "add", !.pc = "encrypt", !.file = f]
<1>2. r \in Requests /\ r.op = "add" /\ r.pc = "encrypt"
  <2>1. f \in Masters \cup {Upload}
    BY DEF Adding
  <2> QED BY <2>1, IdleFields DEF Requests
<1>3. FormOK(r)
  <2> HIDE DEF r
  <2> QED BY <1>2 DEF FormOK
<1>4. req' = [req EXCEPT ![w] = r]
  BY <1>1
<1>5. /\ masters' = masters /\ contents' = contents /\ pubs' = pubs
      /\ users' = users /\ people' = people
  BY DEF AddPublication
<1> HIDE DEF r
<1>6. /\ req' \in [Workers -> Requests] /\ req'[w] = r
      /\ \A v \in Workers : v # w => req'[v] = req[v]
  BY <1>2, <1>4, NewRequest DEF Forms
<1> QED BY <1>2, <1>3, <1>5, <1>6, BeginForms

LEMMA DeletePublicationForms ==
    ASSUME Adding, Forms, NEW w \in Workers, DeletePublication(w)
    PROVE  Adding' /\ Forms'
<1>1. PICK id \in DOMAIN pubs :
         req' = [req EXCEPT ![w] = [Idle EXCEPT !.op = "deletePublication",
                                       !.pc = "purchases", !.pub = id]]
  BY DEF DeletePublication
<1> DEFINE r == [Idle EXCEPT !.op = "deletePublication", !.pc = "purchases", !.pub = id]
<1>2. id \in Rows
  BY RowIds
<1>3. r \in Requests /\ r.op = "deletePublication" /\ r.pc = "purchases" /\ r.pub = id /\ r.user = None
  BY <1>2, IdleFields DEF Requests
<1>4. FormOK(r)
  <2> HIDE DEF r
  <2> QED BY <1>2, <1>3 DEF FormOK
<1>5. req' = [req EXCEPT ![w] = r]
  BY <1>1
<1>6. /\ masters' = masters /\ contents' = contents /\ pubs' = pubs
      /\ users' = users /\ people' = people
  BY DEF DeletePublication
<1> HIDE DEF r
<1>7. /\ req' \in [Workers -> Requests] /\ req'[w] = r
      /\ \A v \in Workers : v # w => req'[v] = req[v]
  BY <1>3, <1>5, NewRequest DEF Forms
<1> QED BY <1>3, <1>4, <1>6, <1>7, BeginForms

LEMMA DeleteUserForms ==
    ASSUME Adding, Forms, NEW w \in Workers, DeleteUser(w)
    PROVE  Adding' /\ Forms'
<1>1. PICK id \in DOMAIN users :
         req' = [req EXCEPT ![w] = [Idle EXCEPT !.op = "deleteUser",
                                       !.pc = "purchases", !.user = id]]
  BY DEF DeleteUser
<1> DEFINE r == [Idle EXCEPT !.op = "deleteUser", !.pc = "purchases", !.user = id]
<1>2. id \in Rows
  BY RowIds
<1>3. r \in Requests /\ r.op = "deleteUser" /\ r.pc = "purchases" /\ r.user = id /\ r.pub = None
  BY <1>2, IdleFields DEF Requests
<1>4. FormOK(r)
  <2> HIDE DEF r
  <2> QED BY <1>2, <1>3 DEF FormOK
<1>5. req' = [req EXCEPT ![w] = r]
  BY <1>1
<1>6. /\ masters' = masters /\ contents' = contents /\ pubs' = pubs
      /\ users' = users /\ people' = people
  BY DEF DeleteUser
<1> HIDE DEF r
<1>7. /\ req' \in [Workers -> Requests] /\ req'[w] = r
      /\ \A v \in Workers : v # w => req'[v] = req[v]
  BY <1>3, <1>5, NewRequest DEF Forms
<1> QED BY <1>3, <1>4, <1>6, <1>7, BeginForms

LEMMA OpenFormForms ==
    ASSUME Adding, Forms, NEW w \in Workers, OpenForm(w)
    PROVE  Adding' /\ Forms' /\ req'[w].pc = "form"
           /\ \A v \in Workers : v # w => req'[v] = req[v]
<1>1. PICK u \in DOMAIN users :
         \/ req' = [req EXCEPT ![w] = [Idle EXCEPT !.op = "updateUser", !.pc = "form",
                                          !.user = u, !.person = users[u].uuid]]
         \/ \E p \in DOMAIN pubs :
               req' = [req EXCEPT ![w] = [Idle EXCEPT !.op = "purchase", !.pc = "form",
                                             !.pub = p, !.user = u, !.content = pubs[p],
                                             !.person = users[u].uuid]]
  BY DEF OpenForm
<1>2. u \in Rows /\ users[u].uuid \in 1..MaxPeople
  BY RowIds DEF Forms
<1>3. /\ masters' = masters /\ contents' = contents /\ pubs' = pubs
      /\ users' = users /\ people' = people
  BY DEF OpenForm
<1>4. CASE req' = [req EXCEPT ![w] = [Idle EXCEPT !.op = "updateUser", !.pc = "form",
                                         !.user = u, !.person = users[u].uuid]]
  <2> DEFINE r == [Idle EXCEPT !.op = "updateUser", !.pc = "form",
                      !.user = u, !.person = users[u].uuid]
  <2>1. /\ r \in Requests /\ r.op = "updateUser" /\ r.pc = "form"
        /\ r.user = u /\ r.person = users[u].uuid
    <3> DEFINE e == users[u].uuid
    <3>1. e \in 0..MaxPeople
      BY <1>2
    <3> HIDE DEF e
    <3>2. [Idle EXCEPT !.op = "updateUser", !.pc = "form", !.user = u, !.person = e] \in Requests
      BY <1>2, <3>1, IdleFields DEF Requests
    <3> QED BY <3>2, IdleFields DEF Requests, e
  <2>2. FormOK(r)
    <3> HIDE DEF r
    <3> QED BY <1>2, <2>1 DEF FormOK
  <2>3. req' = [req EXCEPT ![w] = r]
    BY <1>4
  <2> HIDE DEF r
  <2>4. /\ req' \in [Workers -> Requests] /\ req'[w] = r
        /\ \A v \in Workers : v # w => req'[v] = req[v]
    BY <2>1, <2>3, NewRequest DEF Forms
  <2>5. Adding' /\ Forms'
    BY <1>3, <2>1, <2>2, <2>4, BeginForms
  <2> QED BY <2>1, <2>4, <2>5
<1>5. CASE \E p \in DOMAIN pubs :
             req' = [req EXCEPT ![w] = [Idle EXCEPT !.op = "purchase", !.pc = "form",
                                           !.pub = p, !.user = u, !.content = pubs[p],
                                           !.person = users[u].uuid]]
  <2>1. PICK p \in DOMAIN pubs :
             req' = [req EXCEPT ![w] = [Idle EXCEPT !.op = "purchase", !.pc = "form",
                                           !.pub = p, !.user = u, !.content = pubs[p],
                                           !.person = users[u].uuid]]
    BY <1>5
  <2> DEFINE e == users[u].uuid  c == pubs[p]
             r == [Idle EXCEPT !.op = "purchase", !.pc = "form",
                      !.pub = p, !.user = u, !.content = c, !.person = e]
  <2>2. p \in Rows /\ c \in 1..MaxContents /\ e \in 1..MaxPeople
    BY <1>2, RowIds
  <2>3. req' = [req EXCEPT ![w] = r]
    BY <2>1
  <2> HIDE DEF e, c
  <2>4. /\ r \in Requests /\ r.op = "purchase" /\ r.pc = "form"
        /\ r.pub = p /\ r.user = u /\ r.content = c /\ r.person = e
    <3>1. c \in 0..MaxContents /\ e \in 0..MaxPeople
      BY <2>2
    <3> QED BY <1>2, <2>2, <3>1, IdleFields DEF Requests
  <2>5. FormOK(r)
    <3> HIDE DEF r
    <3> QED BY <1>2, <2>2, <2>4 DEF FormOK
  <2> HIDE DEF r
  <2>6. /\ req' \in [Workers -> Requests] /\ req'[w] = r
        /\ \A v \in Workers : v # w => req'[v] = req[v]
    BY <2>3, <2>4, NewRequest DEF Forms
  <2>7. Adding' /\ Forms'
    BY <1>3, <2>4, <2>5, <2>6, BeginForms
  <2> QED BY <2>4, <2>6, <2>7
<1> QED BY <1>1, <1>4, <1>5

\* The steps that add a publication.
LEMMA AddForms ==
    ASSUME Adding, Forms, NEW w \in Workers,
           Encrypt(w) \/ NotifyLCPServer(w) \/ InsertPublication(w) \/ RemoveMaster(w)
    PROVE  Adding' /\ Forms'
<1>1. /\ Adding' /\ req' \in [Workers -> Requests]
      /\ req'[w] = Idle \/ (/\ req'[w].pc \in {"notify", "insert", "remove"}
                            /\ req'[w].op = req[w].op)
      /\ \A v \in Workers : v # w => req'[v] = req[v]
  <2>1. req \in [Workers -> Requests]
    BY DEF Forms
  <2>2. CASE Encrypt(w)
    BY <2>1, <2>2, EncryptAdding
  <2>3. CASE NotifyLCPServer(w)
    BY <2>1, <2>3, NotifyAdding
  <2>4. CASE InsertPublication(w)
    BY <2>1, <2>4, InsertAdding
  <2>5. CASE RemoveMaster(w)
    BY <2>1, <2>5, RemoveAdding
  <2> QED BY <2>2, <2>3, <2>4, <2>5
<1>2. users' = users /\ people' = people /\ req[w].pc \in {"encrypt", "notify", "insert", "remove"}
  BY DEF Encrypt, NotifyLCPServer, InsertPublication, RemoveMaster
<1>3. req[w].op = "add"
  BY <1>2 DEF Adding, AddOK
<1>4. FormOK(req'[w])
  <2>1. CASE req'[w] = Idle
    BY <2>1, IdleOK
  <2>2. CASE req'[w].pc \in {"notify", "insert", "remove"} /\ req'[w].op = req[w].op
    BY <1>3, <2>2 DEF FormOK
  <2> QED BY <1>1, <2>1, <2>2
<1> QED BY <1>1, <1>2, <1>4, FormsStep

\* A request that ends, whatever it does to the users.
LEMMA EndForms ==
    ASSUME Adding, Forms, NEW w \in Workers, Done(w),
           masters' = masters, contents' = contents, people' = people,
           pubs' = [i \in DOMAIN pubs' |-> pubs'[i]], DOMAIN pubs' \subseteq DOMAIN pubs,
           \A i \in DOMAIN pubs' : pubs'[i] = pubs[i],
           users' = [i \in DOMAIN users' |-> users'[i]], DOMAIN users' \subseteq DOMAIN users,
           \A i \in DOMAIN users' : users'[i] \in [uuid : 1..MaxPeople, data : 1..MaxPeople]
    PROVE  Adding' /\ Forms'
<1>1. /\ req \in [Workers -> Requests]
      /\ req' \in [Workers -> Requests] /\ req'[w] = Idle
      /\ \A v \in Workers : v # w => req'[v] = req[v]
  BY DoneRequest DEF Forms
<1>2. req'[w].pc = "start"
  BY <1>1 DEF Idle
<1>3. Adding'
  BY <1>1, <1>2, AddingFrame
<1>4. \A v \in Workers : FormOK(req'[v])
  BY <1>1, IdleOK DEF Forms
<1>5. Forms'
  BY <1>1, <1>4 DEF Forms
<1> QED BY <1>3, <1>5

\* The tables are functions of their ids.
LEMMA Tables ==
    ASSUME Adding, Forms
    PROVE  /\ pubs = [i \in DOMAIN pubs |-> pubs[i]]
           /\ users = [i \in DOMAIN users |-> users[i]]
           /\ \A i \in DOMAIN users : users[i] \in [uuid : 1..MaxPeople, data : 1..MaxPeople]
BY DEF Adding, Forms

\* The statements of a deletion.
LEMMA DeletePurchasesForms ==
    ASSUME Adding, Forms, NEW w \in Workers, DeletePurchases(w)
    PROVE  Adding' /\ Forms'
<1>1. /\ masters' = masters /\ contents' = contents /\ pubs' = pubs
      /\ users' = users /\ people' = people /\ req[w].pc = "purchases"
  BY DEF DeletePurchases
<1>2. CASE Goes(w, "row")
  <2>1. "row" \in PCs
    BY DEF PCs
  <2>2. /\ req' \in [Workers -> Requests]
        /\ req'[w].pc = "row" /\ req'[w].op = req[w].op
        /\ req'[w].pub = req[w].pub /\ req'[w].user = req[w].user
        /\ \A v \in Workers : v # w => req'[v] = req[v]
    BY <1>2, <2>1, GoesRequest DEF Forms
  <2>3. FormOK(req[w])
    BY DEF Forms
  <2>4. FormOK(req'[w])
    BY <1>1, <2>2, <2>3 DEF FormOK
  <2> QED BY <1>1, <2>2, <2>4, BeginForms
<1>3. CASE Done(w)
  BY <1>1, <1>3, Tables, EndForms
<1> QED BY <1>2, <1>3 DEF DeletePurchases

LEMMA DeleteRowForms ==
    ASSUME Adding, Forms, NEW w \in Workers, DeleteRow(w)
    PROVE  /\ Adding' /\ Forms'
           /\ DOMAIN pubs' \subseteq DOMAIN pubs /\ DOMAIN users' \subseteq DOMAIN users
           /\ \A i \in DOMAIN pubs' : pubs'[i] = pubs[i]
           /\ \A i \in DOMAIN users' : users'[i] = users[i]
           /\ \A i \in (DOMAIN pubs) \ DOMAIN pubs' : i = req[w].pub
           /\ \A i \in (DOMAIN users) \ DOMAIN users' : i = req[w].user
<1>1. /\ masters' = masters /\ contents' = contents /\ people' = people /\ Done(w)
      /\ \/ pubs' = pubs
         \/ pubs' = Without(pubs, req[w].pub)
      /\ \/ users' = users
         \/ users' = Without(users, req[w].user)
  BY DEF DeleteRow
<1>2. /\ pubs' = [i \in DOMAIN pubs' |-> pubs'[i]] /\ DOMAIN pubs' \subseteq DOMAIN pubs
      /\ \A i \in DOMAIN pubs' : pubs'[i] = pubs[i]
      /\ \A i \in (DOMAIN pubs) \ DOMAIN pubs' : i = req[w].pub
  BY <1>1, Tables DEF Without, Restrict
<1>3. /\ users' = [i \in DOMAIN users' |-> users'[i]] /\ DOMAIN users' \subseteq DOMAIN users
      /\ \A i \in DOMAIN users' : users'[i] = users[i]
      /\ \A i \in (DOMAIN users) \ DOMAIN users' : i = req[w].user
  BY <1>1, Tables DEF Without, Restrict
<1>4. \A i \in DOMAIN users' : users'[i] \in [uuid : 1..MaxPeople, data : 1..MaxPeople]
  BY <1>3, Tables
<1>5. Adding' /\ Forms'
  BY <1>1, <1>2, <1>3, <1>4, EndForms
<1> QED BY <1>2, <1>3, <1>5

LEMMA UpdateUserForms ==
    ASSUME Adding, Forms, NEW w \in Workers, UpdateUser(w)
    PROVE  /\ Adding' /\ Forms' /\ pubs' = pubs /\ DOMAIN users' = DOMAIN users
           /\ \A i \in DOMAIN users : users'[i].uuid = users[i].uuid
           /\ \A i \in DOMAIN users :
                 \/ users'[i] = users[i]
                 \/ /\ users'[i].data = req[w].person
                    /\ raced' = (raced \/ users[i].uuid # req[w].person)
<1> DEFINE id == req[w].user  e == req[w].person
<1>1. /\ masters' = masters /\ contents' = contents /\ pubs' = pubs /\ people' = people
      /\ Done(w) /\ req[w].op = "updateUser"
  BY DEF UpdateUser
<1>2. e \in 1..MaxPeople
  BY <1>1 DEF Forms, FormOK
<1>3. CASE id \notin DOMAIN users
  <2>1. users' = users
    BY <1>3 DEF UpdateUser
  <2>2. Adding' /\ Forms'
    BY <1>1, <2>1, Tables, EndForms
  <2> QED BY <1>1, <2>1, <2>2
<1>4. CASE id \in DOMAIN users
  <2>1. /\ users' = [users EXCEPT ![id].data = e]
        /\ raced' = (raced \/ users[id].uuid # e)
    BY <1>4 DEF UpdateUser
  <2> HIDE DEF id, e
  <2>2. users[id] \in [uuid : 1..MaxPeople, data : 1..MaxPeople]
    BY <1>4, Tables
  <2>3. /\ users' = [i \in DOMAIN users' |-> users'[i]] /\ DOMAIN users' = DOMAIN users
        /\ \A i \in DOMAIN users : i # id => users'[i] = users[i]
        /\ users'[id] = [users[id] EXCEPT !.data = e]
    BY <1>4, <2>1, Tables
  <2>4. /\ users'[id] \in [uuid : 1..MaxPeople, data : 1..MaxPeople]
        /\ users'[id].uuid = users[id].uuid /\ users'[id].data = e
    BY <1>2, <2>2, <2>3
  <2>5. \A i \in DOMAIN users' : users'[i] \in [uuid : 1..MaxPeople, data : 1..MaxPeople]
    BY <2>3, <2>4, Tables
  <2>6. Adding' /\ Forms'
    BY <1>1, <2>3, <2>5, Tables, EndForms
  <2> QED BY <1>1, <2>1, <2>3, <2>4, <2>6 DEF id, e
<1> QED BY <1>3, <1>4

LEMMA CreateUserForms ==
    ASSUME Adding, Forms, CreateUser
    PROVE  /\ Adding' /\ Forms'
           /\ \A i \in DOMAIN users : i \in DOMAIN users' /\ users'[i] = users[i]
           /\ \A i \in (DOMAIN users') \ DOMAIN users : users'[i].data = users'[i].uuid
<1> DEFINE id == NewId(users)  row == [uuid |-> people + 1, data |-> people + 1]
<1>1. /\ masters' = masters /\ contents' = contents /\ pubs' = pubs /\ req' = req
      /\ people < MaxPeople /\ people' = people + 1 /\ users' = With(users, id, row)
  BY DEF CreateUser
<1>2. people \in 1..MaxPeople /\ DOMAIN users \subseteq 1..people
  BY DEF Forms
<1>3. id \in 1..(people + 1) /\ id \notin DOMAIN users
  <2>1. people \in Nat /\ DOMAIN users \subseteq Nat \ {0} /\ \A i \in DOMAIN users : i <= people
    BY <1>2
  <2> QED BY <2>1, NewIdIsNew
<1>4. people' \in 1..MaxPeople
  BY <1>1, <1>2, CatalogAssumption
<1>5. row \in [uuid : 1..MaxPeople, data : 1..MaxPeople] /\ row.data = row.uuid
  BY <1>1, <1>4
<1> HIDE DEF id, row
<1>6. /\ users' = [i \in DOMAIN users' |-> users'[i]]
      /\ DOMAIN users' = (DOMAIN users) \cup {id} /\ users'[id] = row
      /\ \A i \in DOMAIN users : users'[i] = users[i]
  <2> DEFINE t == With(users, id, row)
  <2>1. /\ t = [i \in DOMAIN t |-> t[i]]
        /\ DOMAIN t = (DOMAIN users) \cup {id} /\ t[id] = row
        /\ \A i \in DOMAIN users : i # id => t[i] = users[i]
    BY DEF With
  <2> HIDE DEF t
  <2>2. users' = t
    BY <1>1 DEF t
  <2> QED BY <1>3, <2>1, <2>2
<1>7. /\ DOMAIN users' \subseteq 1..people'
      /\ \A i \in DOMAIN users' : users'[i] \in [uuid : 1..MaxPeople, data : 1..MaxPeople]
  <2>1. id \in 1..people' /\ DOMAIN users \subseteq 1..people'
    BY <1>1, <1>2, <1>3
  <2>2. \A i \in DOMAIN users : users'[i] \in [uuid : 1..MaxPeople, data : 1..MaxPeople]
    BY <1>6, Tables
  <2> QED BY <1>5, <1>6, <2>1, <2>2
<1>8. Forms'
  BY <1>1, <1>4, <1>6, <1>7 DEF Forms
<1>9. Adding'
  BY <1>1, Tables, AddingFrame DEF Forms
<1> QED BY <1>5, <1>6, <1>8, <1>9

LEMMA CreatePurchaseForms ==
    ASSUME Adding, Forms, NEW w \in Workers, CreatePurchase(w)
    PROVE  Adding' /\ Forms'
<1>1. /\ masters' = masters /\ contents' = contents /\ pubs' = pubs
      /\ users' = users /\ people' = people /\ Done(w)
  BY DEF CreatePurchase
<1> QED BY <1>1, Tables, EndForms

\* The steps of a request for a license.  What it read is typed, and it keeps it.
LEMMA GetLicenseForms ==
    ASSUME Adding, Forms, Licenses, NEW w \in Workers, GetPurchasedLicense(w)
    PROVE  /\ Adding' /\ Forms'
           /\ \A v \in Workers : v # w => req'[v] = req[v]
           /\ req'[w].pc = "post" /\ req'[w].op = "license" /\ req'[w].license = None
           /\ \E p \in Joined :
                 /\ req'[w].uuid = p.uuid
                 /\ req'[w].content = pubs[p.pub] /\ req'[w].person = users[p.user].data
<1>1. PICK p \in Joined :
         req' = [req EXCEPT ![w] =
                    [Idle EXCEPT !.op = "license", !.pc = "post", !.purchase = p.id,
                                 !.uuid = p.uuid, !.content = pubs[p.pub],
                                 !.person = users[p.user].data]]
  BY DEF GetPurchasedLicense
<1> DEFINE i == p.id  u == p.uuid  c == pubs[p.pub]  e == users[p.user].data
           r == [Idle EXCEPT !.op = "license", !.pc = "post", !.purchase = i,
                    !.uuid = u, !.content = c, !.person = e]
<1>2. p \in Purchases /\ p.pub \in DOMAIN pubs /\ p.user \in DOMAIN users
  BY DEF Joined, Licenses
<1>3. i \in 0..MaxPurchases /\ u \in 0..MaxPurchases
  BY <1>2, CatalogAssumption DEF Purchases
<1>4. c \in 0..MaxContents /\ e \in 0..MaxPeople
  <2>1. c \in 1..MaxContents
    BY <1>2, RowIds
  <2>2. users[p.user] \in [uuid : 1..MaxPeople, data : 1..MaxPeople]
    BY <1>2 DEF Forms
  <2> QED BY <2>1, <2>2
<1>5. req' = [req EXCEPT ![w] = r]
  BY <1>1
<1> HIDE DEF i, u, c, e
<1>6. /\ r \in Requests /\ r.op = "license" /\ r.pc = "post" /\ r.license = None
      /\ r.uuid = u /\ r.content = c /\ r.person = e
  BY <1>3, <1>4, IdleFields DEF Requests
<1>7. FormOK(r)
  <2> HIDE DEF r
  <2> QED BY <1>6 DEF FormOK
<1>8. /\ masters' = masters /\ contents' = contents /\ pubs' = pubs
      /\ users' = users /\ people' = people
  BY DEF GetPurchasedLicense
<1> HIDE DEF r
<1>9. /\ req' \in [Workers -> Requests] /\ req'[w] = r
      /\ \A v \in Workers : v # w => req'[v] = req[v]
  BY <1>5, <1>6, NewRequest DEF Forms
<1>10. Adding' /\ Forms'
  BY <1>6, <1>7, <1>8, <1>9, BeginForms
<1> QED BY <1>6, <1>9, <1>10 DEF u, c, e

LEMMA GenerateForms ==
    ASSUME Adding, Forms, Licenses, NEW w \in Workers, GenerateLicense(w)
    PROVE  /\ Adding' /\ Forms'
           /\ \A v \in Workers : v # w => req'[v] = req[v]
           /\ \/ req'[w] = Idle
              \/ /\ Generated([content |-> req[w].content, person |-> req[w].person])
                 /\ req'[w].pc = "check" /\ req'[w].op = "license"
                 /\ req'[w].license = Len(docs) + 1
                 /\ req[w].op = "license" /\ req'[w].uuid = req[w].uuid
                 /\ req'[w].content = req[w].content /\ req'[w].person = req[w].person
<1>1. /\ masters' = masters /\ contents' = contents /\ pubs' = pubs
      /\ users' = users /\ people' = people /\ req[w].pc = "post"
  BY DEF GenerateLicense
<1>2. req[w].op = "license" /\ req[w] \in Requests /\ req \in [Workers -> Requests]
  BY <1>1 DEF Forms, FormOK
<1>3. CASE Done(w)
  <2>1. Adding' /\ Forms'
    BY <1>1, <1>3, Tables, EndForms
  <2>2. req'[w] = Idle /\ \A v \in Workers : v # w => req'[v] = req[v]
    BY <1>2, <1>3, DoneRequest
  <2> QED BY <2>1, <2>2
<1>4. CASE /\ Generated([content |-> req[w].content, person |-> req[w].person])
           /\ req' = [req EXCEPT ![w].pc = "check", ![w].license = Len(docs) + 1]
  <2> DEFINE n == Len(docs) + 1  r == [req[w] EXCEPT !.pc = "check", !.license = n]
  <2>1. n \in 0..MaxDocs
    <3>1. Len(docs) \in Nat /\ Len(docs) < MaxDocs
      BY <1>4 DEF Generated, Licenses
    <3> QED BY <3>1, CatalogAssumption
  <2>2. req' = [req EXCEPT ![w] = r]
    BY <1>4
  <2> HIDE DEF n
  <2>3. /\ r \in Requests /\ r.pc = "check" /\ r.license = n /\ r.op = req[w].op
        /\ r.uuid = req[w].uuid /\ r.content = req[w].content /\ r.person = req[w].person
    BY <1>2, <2>1 DEF Requests
  <2>4. FormOK(r)
    <3> HIDE DEF r
    <3> QED BY <1>2, <2>3 DEF FormOK
  <2> HIDE DEF r
  <2>5. /\ req' \in [Workers -> Requests] /\ req'[w] = r
        /\ \A v \in Workers : v # w => req'[v] = req[v]
    BY <1>2, <2>2, <2>3, NewRequest
  <2>6. Adding' /\ Forms'
    BY <1>1, <2>3, <2>4, <2>5, BeginForms
  <2> QED BY <1>2, <1>4, <2>3, <2>5, <2>6 DEF n
<1> QED BY <1>3, <1>4 DEF GenerateLicense

LEMMA CheckForms ==
    ASSUME Adding, Forms, NEW w \in Workers, CheckPurchase(w)
    PROVE  /\ Adding' /\ Forms'
           /\ \A v \in Workers : v # w => req'[v] = req[v]
           /\ \/ req'[w] = Idle
              \/ /\ req'[w].pc = "store" /\ req[w].op = "license"
                 /\ req'[w].uuid = req[w].uuid /\ req'[w].license = req[w].license
                 /\ req'[w].content = req[w].content /\ req'[w].person = req[w].person
<1>1. /\ masters' = masters /\ contents' = contents /\ pubs' = pubs
      /\ users' = users /\ people' = people /\ req[w].pc = "check"
  BY DEF CheckPurchase
<1>2. req[w].op = "license" /\ req \in [Workers -> Requests]
  BY <1>1 DEF Forms, FormOK
<1>3. CASE Done(w)
  <2>1. Adding' /\ Forms'
    BY <1>1, <1>3, Tables, EndForms
  <2>2. req'[w] = Idle /\ \A v \in Workers : v # w => req'[v] = req[v]
    BY <1>2, <1>3, DoneRequest
  <2> QED BY <2>1, <2>2
<1>4. CASE Goes(w, "store")
  <2>1. "store" \in PCs
    BY DEF PCs
  <2>2. /\ req' \in [Workers -> Requests]
        /\ req'[w].pc = "store" /\ req'[w].op = req[w].op
        /\ req'[w].content = req[w].content /\ req'[w].person = req[w].person
        /\ req'[w].uuid = req[w].uuid /\ req'[w].license = req[w].license
        /\ \A v \in Workers : v # w => req'[v] = req[v]
    BY <1>2, <1>4, <2>1, GoesRequest
  <2>3. FormOK(req'[w])
    BY <1>2, <2>2 DEF FormOK
  <2>4. Adding' /\ Forms'
    BY <1>1, <2>2, <2>3, BeginForms
  <2> QED BY <1>2, <2>2, <2>4
<1> QED BY <1>3, <1>4 DEF CheckPurchase

LEMMA StoreForms ==
    ASSUME Adding, Forms, NEW w \in Workers, StoreLicense(w)
    PROVE  /\ Adding' /\ Forms'
           /\ req'[w] = Idle /\ \A v \in Workers : v # w => req'[v] = req[v]
<1>1. /\ masters' = masters /\ contents' = contents /\ pubs' = pubs
      /\ users' = users /\ people' = people /\ Done(w)
  BY DEF StoreLicense
<1>2. Adding' /\ Forms'
  BY <1>1, Tables, EndForms
<1>3. req'[w] = Idle /\ \A v \in Workers : v # w => req'[v] = req[v]
  BY <1>1, DoneRequest DEF Forms
<1> QED BY <1>2, <1>3

\* The process dies: only forms are left.
LEMMA CrashForms ==
    ASSUME Adding, Forms, Crash,
           masters' = masters, contents' = contents, pubs' = pubs,
           users' = users, people' = people
    PROVE  /\ Adding' /\ Forms'
           /\ \A v \in Workers : req'[v] = req[v] \/ req'[v] = Idle
<1>1. \A v \in Workers : \/ req'[v] = req[v] /\ req[v].pc = "form"
                         \/ req'[v] = Idle
  BY DEF Crash
<1>2. \A v \in Workers : req[v] \in Requests /\ FormOK(req[v])
  BY DEF Forms
<1>3. req' \in [Workers -> Requests]
  BY <1>2, IdleFields DEF Crash
<1>4. \A v \in Workers : req'[v] = req[v] \/ req'[v].pc = "start"
  BY <1>1, IdleFields
<1>5. Adding'
  BY <1>4, Tables, AddingFrame DEF Forms
<1>6. \A v \in Workers : FormOK(req'[v])
  BY <1>1, <1>2, IdleOK
<1>7. Forms'
  BY <1>3, <1>6 DEF Forms
<1> QED BY <1>1, <1>5, <1>7

\* Steps that touch neither the catalog nor a request.
LEMMA FormsFrame ==
    ASSUME Adding, Forms,
           masters' = masters, contents' = contents, pubs' = pubs, req' = req,
           users' = users, people' = people
    PROVE  Adding' /\ Forms'
<1>1. Forms'
  BY DEF Forms
<1>2. Adding'
  BY Tables, AddingFrame DEF Forms
<1> QED BY <1>1, <1>2

\* Every step keeps the first two parts.
LEMMA FormsNext ==
    ASSUME Adding, Forms, Licenses, [Next]_vars
    PROVE  Adding' /\ Forms'
<1>1. ASSUME NEW w \in Workers,
             \/ AddPublication(w) \/ DeletePublication(w) \/ DeleteUser(w) \/ OpenForm(w)
             \/ Encrypt(w) \/ NotifyLCPServer(w) \/ InsertPublication(w) \/ RemoveMaster(w)
             \/ DeletePurchases(w) \/ DeleteRow(w) \/ UpdateUser(w) \/ CreatePurchase(w)
             \/ GetPurchasedLicense(w) \/ CheckPurchase(w) \/ StoreLicense(w)
             \/ GenerateLicense(w)
      PROVE  Adding' /\ Forms'
  BY <1>1, AddPublicationForms, DeletePublicationForms, DeleteUserForms, OpenFormForms,
     AddForms, DeletePurchasesForms, DeleteRowForms, UpdateUserForms, CreatePurchaseForms,
     GetLicenseForms, CheckForms, StoreForms, GenerateForms
<1>2. CASE CreateUser
  BY <1>2, CreateUserForms
<1>3. CASE OtherLicense \/ RegisterDevice \/ Fetch \/ AddFromJSON \/ Restart
           \/ UNCHANGED vars
  <2>1. /\ masters' = masters /\ contents' = contents /\ pubs' = pubs /\ req' = req
        /\ users' = users /\ people' = people
    BY <1>3 DEF OtherLicense, RegisterDevice, Fetch, AddFromJSON, Restart, vars, catalogVars
  <2> QED BY <2>1, FormsFrame
<1>4. CASE PurgeDataBase
  <2>1. /\ masters' = masters /\ contents' = contents /\ pubs' = pubs
        /\ users' = users /\ people' = people /\ (req' = req \/ Crash)
    BY <1>4 DEF PurgeDataBase
  <2> QED BY <2>1, FormsFrame, CrashForms
<1>5. CASE CatalogStep
  BY <1>1, <1>2, <1>5 DEF CatalogStep
<1> QED BY <1>1, <1>3, <1>4, <1>5 DEF Next

\* They hold at the start.
LEMMA FormsInit == Init => Adding /\ Forms
<1> SUFFICES ASSUME Init PROVE Adding /\ Forms
  OBVIOUS
<1> USE DEF Init, CatalogInit
<1>1. /\ contents = <<Upload, Upload>> /\ pubs = <<1, 2>> /\ masters = Masters
      /\ users = <<[uuid |-> 1, data |-> 1]>> /\ people = 1
      /\ \A w \in Workers : req[w] = Idle
      /\ req \in [Workers -> Requests]
  BY IdleFields
<1>2. Inserting = {}
  BY <1>1, IdleFields DEF Inserting
<1>3. /\ DOMAIN contents = 1..2 /\ contents[1] = Upload /\ contents[2] = Upload
      /\ contents = [c \in DOMAIN contents |-> contents[c]]
  BY <1>1
<1>4. Cardinality((DOMAIN contents) \ Inserting) = 2
  <2>1. (DOMAIN contents) \ Inserting = 1..2
    BY <1>2, <1>3
  <2>2. \A b \in Nat \ {0} : Cardinality(1..b) = b
    BY FS_Interval
  <2>3. 2 \in Nat \ {0}
    OBVIOUS
  <2> DEFINE C == (DOMAIN contents) \ Inserting
  <2>4. Cardinality(C) = Cardinality(1..2)
    BY <2>1
  <2> QED BY <2>2, <2>3, <2>4, Zenon
<1>5. /\ DOMAIN pubs = 1..2 /\ pubs[1] = 1 /\ pubs[2] = 2
      /\ pubs = [i \in DOMAIN pubs |-> pubs[i]]
  BY <1>1
<1>6. 1..2 \subseteq 1..MaxContents /\ 1 \in 1..MaxPeople
  BY CatalogAssumption
<1>7. \A w \in Workers : AddOK(w)
  BY <1>1, IdleFields DEF AddOK
<1>8. Adding
  <2>1. /\ DOMAIN pubs \subseteq Nat \ {0} /\ \A i \in DOMAIN pubs : i <= 2
        /\ \A i \in DOMAIN pubs : pubs[i] \in DOMAIN contents
    BY <1>3, <1>5
  <2> QED BY <1>1, <1>3, <1>4, <1>5, <1>6, <1>7, <2>1 DEF Adding
<1>9. Forms
  <2>1. \A w \in Workers : FormOK(req[w])
    BY <1>1, IdleOK
  <2>2. /\ DOMAIN users = {1} /\ users[1] = [uuid |-> 1, data |-> 1]
        /\ users = [i \in DOMAIN users |-> users[i]]
    BY <1>1
  <2>3. users[1] \in [uuid : 1..MaxPeople, data : 1..MaxPeople]
    BY <1>6, <2>2
  <2> QED BY <1>1, <1>6, <2>1, <2>2, <2>3 DEF Forms
<1> QED BY <1>8, <1>9

-----------------------------------------------------------------------------
(* The licenses of the purchases.                                          *)

\* A request for a license keeps what it holds, or there is none.
Kept(v) ==
    \/ req'[v].op # "license"
    \/ /\ req[v].op = "license"
       /\ req'[v].uuid = req[v].uuid /\ req'[v].license = req[v].license
       /\ req'[v].content = req[v].content /\ req'[v].person = req[v].person

\* The other requests do not become requests for a license.
LEMMA OtherRequests ==
    ASSUME Adding, Forms, NEW w \in Workers,
           \/ AddPublication(w) \/ DeletePublication(w) \/ DeleteUser(w) \/ OpenForm(w)
           \/ Encrypt(w) \/ NotifyLCPServer(w) \/ InsertPublication(w) \/ RemoveMaster(w)
           \/ DeletePurchases(w) \/ DeleteRow(w) \/ UpdateUser(w) \/ CreatePurchase(w)
    PROVE  \A v \in Workers : Kept(v)
<1>1. req \in [Workers -> Requests]
  BY DEF Forms
<1>2. (\A v \in Workers : v # w => req'[v] = req[v]) /\ req'[w].op # "license"
  <2>1. CASE AddPublication(w)
    BY <1>1, <2>1, IdleFields DEF AddPublication, Requests
  <2>2. CASE DeletePublication(w)
    BY <1>1, <2>2, IdleFields DEF DeletePublication, Requests
  <2>3. CASE DeleteUser(w)
    BY <1>1, <2>3, IdleFields DEF DeleteUser, Requests
  <2>4. CASE OpenForm(w)
    <3>1. /\ req'[w].pc = "form" /\ Forms'
          /\ \A v \in Workers : v # w => req'[v] = req[v]
      BY <2>4, OpenFormForms
    <3>2. FormOK(req'[w])
      BY <3>1 DEF Forms
    <3> QED BY <3>1, <3>2 DEF FormOK
  <2>5. CASE Encrypt(w) \/ NotifyLCPServer(w) \/ InsertPublication(w) \/ RemoveMaster(w)
    <3>1. req[w].op = "add"
      BY <2>5 DEF Encrypt, NotifyLCPServer, InsertPublication, RemoveMaster, Adding, AddOK
    <3>2. /\ req'[w] = Idle \/ req'[w].op = req[w].op
          /\ \A v \in Workers : v # w => req'[v] = req[v]
      BY <1>1, <2>5, EncryptAdding, NotifyAdding, InsertAdding, RemoveAdding
    <3> QED BY <3>1, <3>2, IdleFields
  <2>6. CASE DeletePurchases(w)
    <3>1. CASE Done(w)
      BY <1>1, <3>1, DoneRequest, IdleFields
    <3>2. CASE Goes(w, "row")
      <4>1. "row" \in PCs
        BY DEF PCs
      <4>2. FormOK(req[w]) /\ req[w].pc = "purchases"
        BY <2>6 DEF Forms, DeletePurchases
      <4>3. req'[w].op = req[w].op /\ \A v \in Workers : v # w => req'[v] = req[v]
        BY <1>1, <3>2, <4>1, GoesRequest
      <4> QED BY <4>2, <4>3 DEF FormOK
    <3> QED BY <2>6, <3>1, <3>2 DEF DeletePurchases
  <2>7. CASE DeleteRow(w) \/ UpdateUser(w) \/ CreatePurchase(w)
    <3>1. Done(w)
      BY <2>7 DEF DeleteRow, UpdateUser, CreatePurchase
    <3> QED BY <1>1, <3>1, DoneRequest, IdleFields
  <2> QED BY <2>1, <2>2, <2>3, <2>4, <2>5, <2>6, <2>7
<1> QED BY <1>2 DEF Kept

\* The types of purchases and requests that the numbers need.
LEMMA Numbers ==
    ASSUME Forms, Licenses
    PROVE  /\ bought \in Nat /\ Len(docs) \in Nat /\ DOMAIN docs = 1..Len(docs)
           /\ \A p \in purchases : /\ p.id \in Nat \ {0} /\ p.uuid \in Nat \ {0}
                                   /\ p.license \in Nat
           /\ \A w \in Workers : req[w].uuid \in Nat /\ req[w].license \in Nat
<1>1. \A p \in purchases : p.id \in Nat \ {0} /\ p.uuid \in Nat \ {0} /\ p.license \in Nat
  BY DEF Licenses, Purchases
<1>2. \A w \in Workers : req[w].uuid \in Nat /\ req[w].license \in Nat
  <2> SUFFICES ASSUME NEW w \in Workers PROVE req[w].uuid \in Nat /\ req[w].license \in Nat
    OBVIOUS
  <2>1. req[w] \in Requests
    BY DEF Forms
  <2>2. req[w].uuid \in 0..MaxPurchases /\ req[w].license \in 0..MaxDocs
    BY <2>1, RequestTypes
  <2> QED BY <2>2
<1> QED BY <1>1, <1>2 DEF Licenses

\* Fewer purchases, and no new request for a license.
LEMMA LicensesFewer ==
    ASSUME Licenses, purchases' \subseteq purchases, bought' = bought, docs' = docs,
           \A v \in Workers : Kept(v)
    PROVE  Licenses'
<1>1. ASSUME NEW w \in Workers
      PROVE  /\ req'[w].op = "license" => req'[w].uuid <= bought' /\ req'[w].license <= Len(docs')
             /\ HoldsLicense(w)' =>
                   /\ \A p \in purchases' : p.license # req'[w].license
                   /\ \A v \in Workers :
                         v # w /\ HoldsLicense(v)' => req'[v].license # req'[w].license
  <2>1. \A v \in Workers : HoldsLicense(v)' => HoldsLicense(v) /\ req'[v].license = req[v].license
    BY DEF Kept, HoldsLicense
  <2>2. req'[w].op = "license" => /\ req[w].op = "license" /\ req'[w].uuid = req[w].uuid
                                  /\ req'[w].license = req[w].license
    BY DEF Kept
  <2> QED BY <2>1, <2>2 DEF Licenses
<1> QED BY <1>1 DEF Licenses

\* A new purchase has an id that no other has, and a new uuid.
LEMMA CreatePurchaseLicenses ==
    ASSUME Adding, Forms, Licenses, NEW w \in Workers, CreatePurchase(w), docs' = docs
    PROVE  Licenses'
<1> DEFINE S == {p.id : p \in purchases}  m == Max(S \cup {0})
           n == [id |-> m + 1, uuid |-> bought + 1, pub |-> req[w].pub, user |-> req[w].user,
                 content |-> req[w].content, person |-> req[w].person, license |-> None]
<1>1. /\ req[w].op = "purchase" /\ bought < MaxPurchases /\ bought' = bought + 1
      /\ purchases' = purchases \cup {n}
  BY DEF CreatePurchase
<1>2. /\ req[w].pub \in Rows /\ req[w].user \in Rows
      /\ req[w].content \in 1..MaxContents /\ req[w].person \in 1..MaxPeople
  BY <1>1 DEF Forms, FormOK
<1>3. /\ bought \in Nat /\ Len(docs) \in Nat
      /\ \A p \in purchases : /\ p.id \in Nat \ {0} /\ p.uuid \in Nat \ {0} /\ p.license \in Nat
                              /\ p.id <= bought /\ p.uuid <= bought
  BY Numbers DEF Licenses
<1>4. m \in Nat /\ m <= bought /\ \A p \in purchases : p.id <= m
  <2>1. S \subseteq Nat /\ \A x \in S : x <= bought
    BY <1>3
  <2>2. \A p \in purchases : p.id \in S
    OBVIOUS
  <2> HIDE DEF S
  <2> QED BY <1>3, <2>1, <2>2, Beyond
<1> HIDE DEF m
<1>5. /\ m + 1 \in 1..MaxPurchases /\ bought + 1 \in 1..MaxPurchases /\ None \in 0..MaxDocs
      /\ bought' \in 0..MaxPurchases
  BY <1>1, <1>3, <1>4, CatalogAssumption DEF None
<1>6. n \in Purchases
  BY <1>2, <1>5 DEF Purchases
<1>7. n.id = m + 1 /\ n.uuid = bought + 1 /\ n.license = None
  OBVIOUS
<1> HIDE DEF n
<1>8. \A p \in purchases' : p.id <= bought' /\ p.uuid <= bought' /\ p.license <= Len(docs')
  BY <1>1, <1>3, <1>4, <1>7 DEF Licenses, None
<1>9. \A p \in purchases : p.id # n.id /\ p.uuid # n.uuid
  BY <1>3, <1>4, <1>7
<1>10. \A p, q \in purchases' : p.id = q.id \/ p.uuid = q.uuid => p = q
  BY <1>1, <1>9 DEF Licenses
<1>11. \A p, q \in purchases' : p.license = q.license /\ p.license # None => p = q
  BY <1>1, <1>7 DEF Licenses
<1>12. ASSUME NEW u \in Workers
       PROVE  /\ req'[u].op = "license" => req'[u].uuid <= bought' /\ req'[u].license <= Len(docs')
              /\ HoldsLicense(u)' =>
                    /\ \A p \in purchases' : p.license # req'[u].license
                    /\ \A v \in Workers :
                          v # u /\ HoldsLicense(v)' => req'[v].license # req'[u].license
  <2>1. \A v \in Workers : Kept(v)
    BY OtherRequests
  <2>2. \A v \in Workers : HoldsLicense(v)' => HoldsLicense(v) /\ req'[v].license = req[v].license
    BY <2>1 DEF Kept, HoldsLicense
  <2>3. req'[u].op = "license" => /\ req[u].op = "license" /\ req'[u].uuid = req[u].uuid
                                  /\ req'[u].license = req[u].license
    BY <2>1 DEF Kept
  <2>4. req[u].uuid \in Nat
    BY Numbers
  <2>5. req'[u].op = "license" => req'[u].uuid <= bought' /\ req'[u].license <= Len(docs')
    BY <1>1, <1>3, <2>3, <2>4 DEF Licenses
  <2>6. HoldsLicense(u) => n.license # req[u].license
    BY <1>7 DEF HoldsLicense
  <2> QED BY <1>1, <2>2, <2>5, <2>6 DEF Licenses
<1> QED BY <1>1, <1>5, <1>6, <1>8, <1>10, <1>11, <1>12 DEF Licenses

\* A request reads its purchase.
LEMMA GetLicenseLicenses ==
    ASSUME Adding, Forms, Licenses, NEW w \in Workers, GetPurchasedLicense(w), docs' = docs
    PROVE  Licenses'
<1>1. purchases' = purchases /\ bought' = bought
  BY DEF GetPurchasedLicense
<1>2. /\ \A v \in Workers : v # w => req'[v] = req[v]
      /\ req'[w].license = None /\ \E p \in Joined : req'[w].uuid = p.uuid
  BY GetLicenseForms
<1>3. req'[w].uuid <= bought /\ req'[w].license <= Len(docs)
  <2>1. Len(docs) \in Nat
    BY Numbers
  <2> QED BY <1>2, <2>1 DEF Joined, Licenses, None
<1>4. \A v \in Workers : HoldsLicense(v)' => v # w /\ HoldsLicense(v) /\ req'[v] = req[v]
  BY <1>2 DEF HoldsLicense
<1>5. ASSUME NEW u \in Workers
      PROVE  /\ req'[u].op = "license" => req'[u].uuid <= bought' /\ req'[u].license <= Len(docs')
             /\ HoldsLicense(u)' =>
                   /\ \A p \in purchases' : p.license # req'[u].license
                   /\ \A v \in Workers :
                         v # u /\ HoldsLicense(v)' => req'[v].license # req'[u].license
  BY <1>1, <1>2, <1>3, <1>4 DEF Licenses
<1> QED BY <1>1, <1>5 DEF Licenses

\* A document is added behind the others.
LEMMA AppendDoc ==
    ASSUME docs \in Seq(Docs), NEW what, Generated(what)
    PROVE  /\ docs' \in Seq(Docs) /\ Len(docs') = Len(docs) + 1 /\ Len(docs') <= MaxDocs
           /\ DOMAIN docs' = (DOMAIN docs) \cup {Len(docs) + 1}
           /\ Len(docs) + 1 \notin DOMAIN docs
           /\ \A i \in DOMAIN docs : docs'[i] = docs[i]
           /\ docs'[Len(docs) + 1].license = Len(docs) + 1
<1> DEFINE n == Len(docs) + 1  d == [license |-> n, device_count |-> 0]
<1>1. Len(docs) \in Nat /\ n \in 1..MaxDocs /\ docs' = Append(docs, d)
  BY CatalogAssumption DEF Generated
<1>2. d \in Docs /\ d.license = n
  <2> HIDE DEF n
  <2> QED BY <1>1, LicenseViewAssumption DEF Docs
<1> HIDE DEF d
<1> QED BY <1>1, <1>2, CatalogAssumption

\* A license is generated, which no one has unless the request that asked for it.
LEMMA GeneratedLicenses ==
    ASSUME Forms, Licenses, NEW what, Generated(what), NEW w,
           purchases' = purchases, bought' = bought,
           \A v \in Workers : v # w => Kept(v),
           \/ w \notin Workers
           \/ req'[w].op # "license"
           \/ /\ req[w].op = "license" /\ req'[w].uuid = req[w].uuid
              /\ req'[w].license = Len(docs) + 1
    PROVE  Licenses'
<1>1. /\ docs' \in Seq(Docs) /\ Len(docs') = Len(docs) + 1 /\ Len(docs') <= MaxDocs
      /\ DOMAIN docs' = (DOMAIN docs) \cup {Len(docs) + 1}
      /\ \A i \in DOMAIN docs : docs'[i] = docs[i]
      /\ docs'[Len(docs) + 1].license = Len(docs) + 1
  BY AppendDoc DEF Licenses
<1>2. /\ Len(docs) \in Nat /\ bought \in Nat
      /\ \A p \in purchases : p.license \in Nat /\ p.license <= Len(docs)
      /\ \A v \in Workers : req[v].license \in Nat /\ req[v].uuid \in Nat
  BY Numbers DEF Licenses
<1>3. \A v \in Workers :
         req'[v].op = "license" =>
            /\ req[v].op = "license" /\ req'[v].uuid = req[v].uuid
            /\ req'[v].license = IF v = w THEN Len(docs) + 1 ELSE req[v].license
  BY DEF Kept
<1>4. \A v \in Workers :
         HoldsLicense(v)' => \/ v = w /\ req'[v].license = Len(docs) + 1
                             \/ /\ v # w /\ HoldsLicense(v) /\ req'[v].license = req[v].license
                                /\ req[v].license <= Len(docs)
  BY <1>3 DEF HoldsLicense, Licenses
<1>5. ASSUME NEW u \in Workers
      PROVE  /\ req'[u].op = "license" => req'[u].uuid <= bought' /\ req'[u].license <= Len(docs')
             /\ HoldsLicense(u)' =>
                   /\ \A p \in purchases' : p.license # req'[u].license
                   /\ \A v \in Workers :
                         v # u /\ HoldsLicense(v)' => req'[v].license # req'[u].license
  <2>1. req'[u].op = "license" => req'[u].uuid <= bought' /\ req'[u].license <= Len(docs')
    <3>1. req[u].op = "license" => req[u].uuid <= bought /\ req[u].license <= Len(docs)
      BY DEF Licenses
    <3> QED BY <1>1, <1>2, <1>3, <3>1
  <2>2. \A p \in purchases : p.license # Len(docs) + 1
    BY <1>2
  <2>3. HoldsLicense(u)' => \A p \in purchases' : p.license # req'[u].license
    BY <1>4, <2>2 DEF Licenses
  <2>4. ASSUME HoldsLicense(u)', NEW v \in Workers, v # u, HoldsLicense(v)'
        PROVE  req'[v].license # req'[u].license
    <3>1. \/ u # w /\ v # w
          \/ u = w /\ v # w
          \/ u # w /\ v = w
      BY <2>4
    <3>2. CASE u # w /\ v # w
      BY <1>4, <2>4, <3>2 DEF Licenses
    <3>3. CASE u = w /\ v # w
      BY <1>2, <1>4, <2>4, <3>3
    <3>4. CASE u # w /\ v = w
      BY <1>2, <1>4, <2>4, <3>4
    <3> QED BY <3>1, <3>2, <3>3, <3>4
  <2> QED BY <2>1, <2>3, <2>4
<1>6. \A p \in purchases' : p.license <= Len(docs')
  BY <1>1, <1>2
<1> QED BY <1>1, <1>5, <1>6 DEF Licenses

LEMMA GenerateLicenses ==
    ASSUME Adding, Forms, Licenses, NEW w \in Workers, GenerateLicense(w)
    PROVE  Licenses'
<1> DEFINE what == [content |-> req[w].content, person |-> req[w].person]
<1>1. /\ purchases' = purchases /\ bought' = bought
      /\ Generated(what) \/ (docs' = docs /\ Done(w))
  BY DEF GenerateLicense
<1>2. /\ \A v \in Workers : v # w => req'[v] = req[v]
      /\ \/ req'[w] = Idle
         \/ /\ Generated(what)
            /\ req'[w].license = Len(docs) + 1
            /\ req[w].op = "license" /\ req'[w].uuid = req[w].uuid
  BY GenerateForms
<1> HIDE DEF what
<1>3. \A v \in Workers : v # w => Kept(v)
  BY <1>2 DEF Kept
<1>4. CASE Generated(what)
  <2>1. \/ req'[w].op # "license"
        \/ /\ req[w].op = "license" /\ req'[w].uuid = req[w].uuid
           /\ req'[w].license = Len(docs) + 1
    BY <1>2, IdleFields
  <2> QED BY <1>1, <1>3, <1>4, <2>1, GeneratedLicenses
<1>5. CASE docs' = docs /\ Done(w)
  <2>1. req'[w] = Idle
    BY <1>5, DoneRequest DEF Forms
  <2>2. \A v \in Workers : Kept(v)
    BY <1>3, <2>1, IdleFields DEF Kept
  <2> QED BY <1>1, <1>5, <2>2, LicensesFewer
<1> QED BY <1>1, <1>4, <1>5

\* A purchase as an update leaves it.
Stored(p, w) == IF p.id = req[w].purchase THEN [p EXCEPT !.license = req[w].license] ELSE p

\* The license goes to one purchase at most.
LEMMA StoredPurchases ==
    ASSUME Forms, Licenses, NEW w \in Workers, NEW p \in purchases
    PROVE  /\ Stored(p, w) \in Purchases /\ Stored(p, w).id = p.id /\ Stored(p, w).uuid = p.uuid
           /\ Stored(p, w).pub = p.pub /\ Stored(p, w).user = p.user
           /\ Stored(p, w).content = p.content /\ Stored(p, w).person = p.person
           /\ Stored(p, w).license = IF p.id = req[w].purchase THEN req[w].license ELSE p.license
<1>1. p \in Purchases
  BY DEF Licenses
<1>2. req[w].license \in 0..MaxDocs
  <2>1. req[w] \in Requests
    BY DEF Forms
  <2> QED BY <2>1, RequestTypes
<1> DEFINE l == req[w].license  q == [p EXCEPT !.license = l]
<1>3. q \in Purchases /\ q.id = p.id /\ q.uuid = p.uuid /\ q.pub = p.pub /\ q.user = p.user
      /\ q.content = p.content /\ q.person = p.person /\ q.license = l
  <2> HIDE DEF l
  <2> QED BY <1>1, <1>2 DEF Purchases, l
<1>4. Stored(p, w) = IF p.id = req[w].purchase THEN q ELSE p
  BY DEF Stored
<1> HIDE DEF q
<1> QED BY <1>1, <1>3, <1>4

LEMMA StoreLicenses ==
    ASSUME Adding, Forms, Licenses, NEW w \in Workers, StoreLicense(w), docs' = docs
    PROVE  Licenses'
<1>1. /\ bought' = bought /\ req[w].pc = "store"
      /\ purchases' = purchases \/ purchases' = {Stored(p, w) : p \in purchases}
  BY DEF StoreLicense, Stored
<1>2. req'[w] = Idle /\ \A v \in Workers : v # w => req'[v] = req[v]
  BY StoreForms
<1>3. \A v \in Workers : Kept(v)
  BY <1>2, IdleFields DEF Kept
<1>4. CASE purchases' = purchases
  BY <1>1, <1>3, <1>4, LicensesFewer
<1>5. CASE purchases' = {Stored(p, w) : p \in purchases}
  <2>1. req[w].op = "license" /\ req[w].license <= Len(docs) /\ req[w].license \in Nat
    BY <1>1, Numbers DEF Forms, FormOK, Licenses
  <2>2. \A p \in purchases :
           /\ Stored(p, w) \in Purchases /\ Stored(p, w).id = p.id /\ Stored(p, w).uuid = p.uuid
           /\ Stored(p, w).license = IF p.id = req[w].purchase THEN req[w].license ELSE p.license
    BY StoredPurchases
  <2>3. purchases' \subseteq Purchases
    BY <1>5, <2>2
  <2>4. \A p \in purchases' : p.id <= bought' /\ p.uuid <= bought' /\ p.license <= Len(docs')
    BY <1>1, <1>5, <2>1, <2>2 DEF Licenses
  <2>5. \A p, q \in purchases' : p.id = q.id \/ p.uuid = q.uuid => p = q
    <3> SUFFICES ASSUME NEW p \in purchases, NEW q \in purchases,
                        \/ Stored(p, w).id = Stored(q, w).id
                        \/ Stored(p, w).uuid = Stored(q, w).uuid
                 PROVE  Stored(p, w) = Stored(q, w)
      BY <1>5
    <3> QED BY <2>2 DEF Licenses
  <2>6. \A p, q \in purchases' : p.license = q.license /\ p.license # None => p = q
    <3> SUFFICES ASSUME NEW p \in purchases, NEW q \in purchases,
                        Stored(p, w).license = Stored(q, w).license,
                        Stored(p, w).license # None
                 PROVE  Stored(p, w) = Stored(q, w)
      BY <1>5
    <3>1. req[w].license # None => \A r \in purchases : r.license # req[w].license
      BY <2>1 DEF Licenses, HoldsLicense
    <3>2. p = q
      BY <2>2, <3>1 DEF Licenses
    <3> QED BY <3>2
  <2>7. ASSUME NEW u \in Workers
        PROVE  /\ req'[u].op = "license" => req'[u].uuid <= bought' /\ req'[u].license <= Len(docs')
               /\ HoldsLicense(u)' =>
                     /\ \A p \in purchases' : p.license # req'[u].license
                     /\ \A v \in Workers :
                           v # u /\ HoldsLicense(v)' => req'[v].license # req'[u].license
    <3>1. \A v \in Workers : HoldsLicense(v)' => v # w /\ HoldsLicense(v) /\ req'[v] = req[v]
      BY <1>2, IdleFields DEF HoldsLicense
    <3>2. req'[u].op = "license" => u # w /\ req'[u] = req[u]
      BY <1>2, IdleFields
    <3>3. ASSUME HoldsLicense(u)', NEW p \in purchases
          PROVE  Stored(p, w).license # req'[u].license
      <4>1. HoldsLicense(u) /\ req'[u] = req[u] /\ u # w
        BY <3>1, <3>3
      <4>2. req[w].license # req[u].license
        BY <2>1, <4>1 DEF Licenses, HoldsLicense
      <4> QED BY <2>2, <4>1, <4>2 DEF Licenses
    <3>4. HoldsLicense(u)' => \A p \in purchases' : p.license # req'[u].license
      BY <1>5, <3>3
    <3> QED BY <1>1, <3>1, <3>2, <3>4 DEF Licenses
  <2> QED BY <1>1, <2>3, <2>4, <2>5, <2>6, <2>7 DEF Licenses
<1> QED BY <1>1, <1>4, <1>5

\* A device is registered: the licenses stay.
LEMMA RegisterLicenses ==
    ASSUME Licenses, RegisterDevice
    PROVE  /\ Licenses' /\ Len(docs') = Len(docs)
<1>1. PICK i \in DOMAIN docs :
         /\ docs[i].device_count < MaxDevices
         /\ docs' = [docs EXCEPT ![i].device_count = @ + 1]
  BY DEF RegisterDevice
<1> DEFINE d == [docs[i] EXCEPT !.device_count = @ + 1]
<1>2. docs \in Seq(Docs) /\ docs[i] \in Docs /\ docs' = [docs EXCEPT ![i] = d]
  BY <1>1 DEF Licenses
<1>3. d \in Docs /\ d.license = docs[i].license
  <2>1. /\ docs[i].device_count \in 0..MaxDevices
        /\ docs[i].device_count + 1 \in 0..MaxDevices
    BY <1>1, <1>2, LicenseViewAssumption DEF Docs
  <2> DEFINE n == docs[i].device_count + 1  e == [docs[i] EXCEPT !.device_count = n]
  <2>2. d = e
    OBVIOUS
  <2>3. e \in Docs /\ e.license = docs[i].license
    <3>1. n \in 0..MaxDevices
      BY <2>1
    <3> HIDE DEF n
    <3> QED BY <1>2, <3>1 DEF Docs
  <2> QED BY <2>2, <2>3
<1> HIDE DEF d
<1>4. /\ docs' \in Seq(Docs) /\ Len(docs') = Len(docs) /\ DOMAIN docs' = DOMAIN docs
      /\ \A k \in DOMAIN docs : k # i => docs'[k] = docs[k]
      /\ docs'[i] = d
  BY <1>2, <1>3
<1>5. \A k \in DOMAIN docs : docs'[k].license = docs[k].license
  BY <1>3, <1>4
<1>6. purchases' = purchases /\ bought' = bought /\ req' = req
  BY DEF RegisterDevice
<1>7. \A v \in Workers : HoldsLicense(v)' <=> HoldsLicense(v)
  BY <1>6 DEF HoldsLicense
<1>8. Licenses'
  BY <1>4, <1>5, <1>6, <1>7 DEF Licenses
<1> QED BY <1>4, <1>8

\* Every step keeps the third part.
LEMMA LicensesNext ==
    ASSUME Adding, Forms, Licenses, [Next]_vars
    PROVE  Licenses'
<1>1. ASSUME NEW w \in Workers, GenerateLicense(w) PROVE Licenses'
  BY <1>1, GenerateLicenses
<1>2. CASE OtherLicense
  <2>1. Generated(Elsewhere) /\ purchases' = purchases /\ bought' = bought /\ req' = req
    BY <1>2 DEF OtherLicense
  <2>2. PICK w : w \notin Workers
    BY NoSetContainsEverything
  <2>3. \A v \in Workers : Kept(v)
    BY <2>1 DEF Kept
  <2> QED BY <2>1, <2>2, <2>3, GeneratedLicenses
<1>3. CASE RegisterDevice
  BY <1>3, RegisterLicenses
<1>4. CASE Fetch \/ PurgeDataBase \/ AddFromJSON \/ Restart \/ UNCHANGED vars
  <2>1. /\ purchases' = purchases /\ bought' = bought /\ docs' = docs
        /\ req' = req \/ Crash
    BY <1>4 DEF Fetch, PurgeDataBase, AddFromJSON, Restart, vars, catalogVars
  <2>2. \A v \in Workers : req'[v] = req[v] \/ req'[v] = Idle
    BY <2>1 DEF Crash
  <2>3. \A v \in Workers : Kept(v)
    BY <2>2, IdleFields DEF Kept
  <2> QED BY <2>1, <2>3, LicensesFewer
<1>5. CASE CatalogStep
  <2>1. docs' = docs
    BY <1>5 DEF CatalogStep
  <2>2. ASSUME NEW w \in Workers,
               \/ AddPublication(w) \/ DeletePublication(w) \/ DeleteUser(w) \/ OpenForm(w)
               \/ Encrypt(w) \/ NotifyLCPServer(w) \/ InsertPublication(w) \/ RemoveMaster(w)
               \/ DeletePurchases(w) \/ DeleteRow(w) \/ UpdateUser(w)
        PROVE  Licenses'
    <3>1. purchases' \subseteq purchases /\ bought' = bought
      BY <2>2 DEF AddPublication, DeletePublication, DeleteUser, OpenForm, Encrypt,
                  NotifyLCPServer, InsertPublication, RemoveMaster, DeletePurchases,
                  DeleteRow, UpdateUser
    <3>2. \A v \in Workers : Kept(v)
      BY <2>2, OtherRequests
    <3> QED BY <2>1, <3>1, <3>2, LicensesFewer
  <2>3. CASE CreateUser
    <3>1. purchases' = purchases /\ bought' = bought /\ req' = req
      BY <2>3 DEF CreateUser
    <3>2. \A v \in Workers : Kept(v)
      BY <3>1 DEF Kept
    <3> QED BY <2>1, <3>1, <3>2, LicensesFewer
  <2>4. ASSUME NEW w \in Workers, CheckPurchase(w) PROVE Licenses'
    <3>1. purchases' = purchases /\ bought' = bought
      BY <2>4 DEF CheckPurchase
    <3>2. \A v \in Workers : Kept(v)
      BY <2>4, CheckForms, IdleFields DEF Kept
    <3> QED BY <2>1, <3>1, <3>2, LicensesFewer
  <2>5. ASSUME NEW w \in Workers,
               CreatePurchase(w) \/ GetPurchasedLicense(w) \/ StoreLicense(w)
        PROVE  Licenses'
    BY <2>1, <2>5, CreatePurchaseLicenses, GetLicenseLicenses, StoreLicenses
  <2> QED BY <1>5, <2>2, <2>3, <2>4, <2>5 DEF CatalogStep
<1> QED BY <1>1, <1>2, <1>3, <1>4, <1>5 DEF Next

-----------------------------------------------------------------------------
(* The view.                                                               *)

\* The first page: the latest documents, the last one first.
LEMMA FirstPage ==
    ASSUME docs \in Seq(Docs), NEW n \in Nat \ {0}
    PROVE  LET k == IF n <= Len(docs) THEN n ELSE Len(docs) IN
           /\ List(1, n) \in Seq(Docs) /\ Len(List(1, n)) = k
           /\ \A i \in 1..k : List(1, n)[i] = docs[(Len(docs) - i) + 1]
<1> DEFINE k == IF n <= Len(docs) THEN n ELSE Len(docs)
           latest == [i \in 1..Len(docs) |-> docs[(Len(docs) - i) + 1]]
<1>1. Len(docs) \in Nat /\ k \in 0..Len(docs) /\ k <= n
  OBVIOUS
<1>2. latest \in Seq(Docs) /\ Len(latest) = Len(docs)
  OBVIOUS
<1>3. \A i \in 1..Len(docs) : latest[i] = docs[(Len(docs) - i) + 1]
  OBVIOUS
<1>4. Reverse(docs) = latest
  BY DEF Reverse
<1> HIDE DEF latest
<1>5. Min({n, Len(docs)}) = k
  <2>1. k \in {n, Len(docs)} /\ \A y \in {n, Len(docs)} : k <= y
    BY <1>1
  <2>2. \A x \in {n, Len(docs)} : (\A y \in {n, Len(docs)} : x <= y) => x = k
    BY <1>1
  <2> HIDE DEF k
  <2> QED BY <2>1, <2>2 DEF Min
<1>6. (1 - 1) * n + 1 = 1 /\ 1 + n - 1 = n
  OBVIOUS
<1> HIDE DEF k
<1>7. List(1, n) = SubSeq(latest, 1, k)
  BY <1>2, <1>4, <1>5, <1>6 DEF List
<1>8. /\ SubSeq(latest, 1, k) \in Seq(Docs) /\ Len(SubSeq(latest, 1, k)) = k
      /\ \A i \in 1..k : SubSeq(latest, 1, k)[i] = latest[i]
  BY <1>1, <1>2
<1>9. \A i \in 1..k : SubSeq(latest, 1, k)[i] = docs[(Len(docs) - i) + 1]
  BY <1>1, <1>3, <1>8
<1> QED BY <1>7, <1>8, <1>9 DEF k

\* No license is twice in an answer.
LEMMA PageNoneTwice ==
    ASSUME docs \in Seq(Docs), NoneTwice(docs), NEW n \in Nat \ {0}
    PROVE  List(1, n) \in Seq(Docs) /\ NoneTwice(List(1, n))
<1> DEFINE k == IF n <= Len(docs) THEN n ELSE Len(docs)  rows == List(1, n)
<1>1. /\ rows \in Seq(Docs) /\ Len(rows) = k
      /\ \A i \in 1..k : rows[i] = docs[(Len(docs) - i) + 1]
  BY FirstPage
<1>2. k \in 0..Len(docs) /\ Len(docs) \in Nat
  OBVIOUS
<1> HIDE DEF k, rows
<1>3. ASSUME NEW i \in DOMAIN rows, NEW j \in DOMAIN rows,
             rows[i].license = rows[j].license
      PROVE  i = j
  <2>1. i \in 1..k /\ j \in 1..k
    BY <1>1
  <2> DEFINE x == (Len(docs) - i) + 1  y == (Len(docs) - j) + 1
  <2>2. x \in DOMAIN docs /\ y \in DOMAIN docs /\ (x = y => i = j)
    BY <1>2, <2>1
  <2>3. rows[i] = docs[x] /\ rows[j] = docs[y]
    BY <1>1, <2>1
  <2> HIDE DEF x, y
  <2> QED BY <1>3, <2>2, <2>3 DEF NoneTwice
<1>4. NoneTwice(rows)
  BY <1>3 DEF NoneTwice
<1> QED BY <1>1, <1>4 DEF rows

\* The rows of an empty answer.
LEMMA EmptyRows == <<>> \in Seq(Docs) /\ DOMAIN <<>> = {} /\ NoneTwice(<<>>)
BY DEF NoneTwice

\* One row goes over to the view.
LEMMA OneRow ==
    ASSUME NEW v \in Seq(Docs), NEW rows \in Seq(Docs), rows # <<>>,
           NoneTwice(v), NoneTwice(rows),
           \A i \in DOMAIN v, k \in DOMAIN rows : v[i].license # rows[k].license
    PROVE  LET v1 == Append(v, Head(rows))  t == Tail(rows) IN
           /\ v1 \in Seq(Docs) /\ t \in Seq(Docs)
           /\ NoneTwice(v1) /\ NoneTwice(t)
           /\ \A i \in DOMAIN v1, k \in DOMAIN t : v1[i].license # t[k].license
<1> DEFINE v1 == Append(v, Head(rows))  t == Tail(rows)
<1>1. /\ v1 \in Seq(Docs) /\ DOMAIN v1 = 1..(Len(v) + 1)
      /\ \A i \in 1..Len(v) : v1[i] = v[i]
      /\ v1[Len(v) + 1] = rows[1]
  OBVIOUS
<1>2. /\ t \in Seq(Docs) /\ DOMAIN t = 1..(Len(rows) - 1)
      /\ \A k \in 1..(Len(rows) - 1) : t[k] = rows[k + 1]
  OBVIOUS
<1>3. /\ DOMAIN v = 1..Len(v) /\ DOMAIN rows = 1..Len(rows)
      /\ Len(v) \in Nat /\ Len(rows) \in Nat \ {0}
  OBVIOUS
<1> HIDE DEF v1, t
<1>4. \A i \in 1..Len(v) : rows[1].license # v[i].license
  BY <1>3
<1>5. NoneTwice(v1)
  BY <1>1, <1>3, <1>4 DEF NoneTwice
<1>6. \A k \in 1..(Len(rows) - 1) : k + 1 \in DOMAIN rows /\ k + 1 # 1
  BY <1>3
<1>7. NoneTwice(t)
  <2> SUFFICES ASSUME NEW i \in DOMAIN t, NEW k \in DOMAIN t,
                      t[i].license = t[k].license
               PROVE  i = k
    BY DEF NoneTwice
  <2>1. i + 1 \in DOMAIN rows /\ k + 1 \in DOMAIN rows /\ t[i] = rows[i + 1] /\ t[k] = rows[k + 1]
    BY <1>2, <1>6
  <2>2. i + 1 = k + 1
    BY <2>1 DEF NoneTwice
  <2> QED BY <1>2, <1>3, <2>2
<1>8. ASSUME NEW i \in DOMAIN v1, NEW k \in DOMAIN t
      PROVE  v1[i].license # t[k].license
  <2>1. k + 1 \in DOMAIN rows /\ t[k] = rows[k + 1] /\ k + 1 # 1
    BY <1>2, <1>6
  <2>2. CASE i \in 1..Len(v)
    BY <1>1, <1>3, <2>1, <2>2
  <2>3. CASE i = Len(v) + 1
    <3>1. v1[i] = rows[1] /\ 1 \in DOMAIN rows
      BY <1>1, <1>3, <2>3
    <3> QED BY <2>1, <3>1 DEF NoneTwice
  <2> QED BY <1>1, <1>3, <2>2, <2>3
<1> QED BY <1>1, <1>2, <1>5, <1>7, <1>8 DEF v1, t

\* Every step keeps the view, given the documents.
LEMMA ViewingNext ==
    ASSUME Licenses, Viewing, [Next]_vars
    PROVE  Viewing'
<1> DEFINE Tasks == [pc : {"sleep", "purge", "fill", "dead"}, rows : Seq(Docs)]
<1>1. task \in Tasks /\ task.rows \in Seq(Docs) /\ view \in Seq(Docs)
  BY DEF Viewing
<1>2. /\ Sleeping \in Tasks /\ Sleeping.pc = "sleep" /\ NoneTwice(Sleeping.rows)
      /\ Dead \in Tasks /\ Dead.pc = "dead" /\ NoneTwice(Dead.rows)
  BY EmptyRows DEF Sleeping, Dead
<1>3. CASE task' \in {Sleeping, Dead} /\ view' = view
  BY <1>1, <1>2, <1>3 DEF Viewing
<1>4. CASE task' = task /\ view' = view
  BY <1>4 DEF Viewing, NoneTwice
<1>5. CASE \E rows \in Seq(Docs) :
             view' = view /\ NoneTwice(rows) /\ task' = [pc |-> "purge", rows |-> rows]
  BY <1>5 DEF Viewing
<1>6. CASE view' = <<>> /\ task' = [task EXCEPT !.pc = "fill"]
  <2>1. task' \in Tasks /\ task'.rows = task.rows
    BY <1>1, <1>6
  <2> QED BY <1>6, <2>1, EmptyRows DEF Viewing
<1>7. CASE /\ task.pc = "fill" /\ task.rows # <<>>
           /\ view' = Append(view, Head(task.rows))
           /\ task' = [task EXCEPT !.rows = Tail(@)]
  <2> DEFINE v1 == Append(view, Head(task.rows))  t == Tail(task.rows)
  <2>1. /\ v1 \in Seq(Docs) /\ t \in Seq(Docs)
        /\ NoneTwice(v1) /\ NoneTwice(t)
        /\ \A i \in DOMAIN v1, k \in DOMAIN t : v1[i].license # t[k].license
    <3>1. /\ NoneTwice(view) /\ NoneTwice(task.rows)
          /\ \A i \in DOMAIN view, k \in DOMAIN task.rows : view[i].license # task.rows[k].license
      BY <1>7 DEF Viewing
    <3> QED BY <1>1, <1>7, <3>1, OneRow
  <2> HIDE DEF v1, t
  <2>2. view' = v1 /\ task' = [task EXCEPT !.rows = t]
    BY <1>7 DEF v1, t
  <2>3. task' \in Tasks /\ task'.rows = t
    BY <1>1, <2>1, <2>2
  <2> QED BY <2>1, <2>2, <2>3 DEF Viewing
<1>8. CASE Fetch
  <2>1. /\ List(1, PerPage) \in Seq(Docs) /\ NoneTwice(List(1, PerPage))
        /\ Problem \in Seq(Docs) /\ NoneTwice(Problem)
    <3>1. docs \in Seq(Docs) /\ NoneTwice(docs)
      BY DEF Licenses, NoneTwice
    <3> QED BY <3>1, PageNoneTwice, EmptyRows, LicenseViewAssumption DEF Problem
  <2> QED BY <1>3, <1>5, <1>8, <2>1 DEF Fetch
<1>9. CASE PurgeDataBase
  BY <1>3, <1>6, <1>9 DEF PurgeDataBase
<1>10. CASE AddFromJSON
  BY <1>3, <1>7, <1>10 DEF AddFromJSON
<1>11. CASE Restart
  BY <1>3, <1>11 DEF Restart
<1>12. CASE CatalogStep \/ (\E w \in Workers : GenerateLicense(w))
            \/ OtherLicense \/ RegisterDevice \/ UNCHANGED vars
  BY <1>4, <1>12 DEF CatalogStep, GenerateLicense, OtherLicense, RegisterDevice, vars
<1> QED BY <1>8, <1>9, <1>10, <1>11, <1>12 DEF Next

-----------------------------------------------------------------------------
(* What purchases refer to.                                                *)

\* No purchase loses what it refers to, and a deletion is between its statements only when
\* the purchases are gone.
LEMMA ReferringFrame ==
    ASSUME Referring, purchases' \subseteq purchases,
           \A p \in purchases' :
              /\ p.pub \in DOMAIN pubs' /\ pubs'[p.pub] = pubs[p.pub]
              /\ p.user \in DOMAIN users' /\ users'[p.user].uuid = users[p.user].uuid,
           \A u \in DOMAIN users' : users'[u].data = users'[u].uuid,
           \A v \in Workers, p \in purchases' :
              \/ req'[v].pc # "row"
              \/ req'[v] = req[v]
              \/ req'[v].pub # p.pub /\ req'[v].user # p.user
    PROVE  Referring'
<1>1. ASSUME NEW p \in purchases'
      PROVE  /\ p.pub \in DOMAIN pubs' /\ pubs'[p.pub] = p.content
             /\ p.user \in DOMAIN users' /\ users'[p.user].uuid = p.person
             /\ \A w \in Workers :
                   req'[w].pc = "row" => req'[w].pub # p.pub /\ req'[w].user # p.user
  BY <1>1 DEF Referring
<1> QED BY <1>1 DEF Referring

\* Only the requests change, and none gets between the statements of a deletion.
LEMMA ReferringRequests ==
    ASSUME Referring, purchases' = purchases, pubs' = pubs, users' = users,
           \A v \in Workers : req'[v].pc # "row" \/ req'[v] = req[v]
    PROVE  Referring'
BY DEF Referring

\* A purchase is deleted before what it refers to.
LEMMA DeleteRowReferring ==
    ASSUME Adding, Forms, Referring, NEW w \in Workers, DeleteRow(w)
    PROVE  Referring'
<1>1. /\ DOMAIN pubs' \subseteq DOMAIN pubs /\ DOMAIN users' \subseteq DOMAIN users
      /\ \A i \in DOMAIN pubs' : pubs'[i] = pubs[i]
      /\ \A i \in DOMAIN users' : users'[i] = users[i]
      /\ \A i \in (DOMAIN pubs) \ DOMAIN pubs' : i = req[w].pub
      /\ \A i \in (DOMAIN users) \ DOMAIN users' : i = req[w].user
  BY DeleteRowForms
<1>2. req[w].pc = "row" /\ purchases' = purchases /\ Done(w)
  BY DEF DeleteRow
<1>3. \A p \in purchases : req[w].pub # p.pub /\ req[w].user # p.user
  BY <1>2 DEF Referring
<1>4. \A p \in purchases' :
         /\ p.pub \in DOMAIN pubs' /\ pubs'[p.pub] = pubs[p.pub]
         /\ p.user \in DOMAIN users' /\ users'[p.user].uuid = users[p.user].uuid
  BY <1>1, <1>2, <1>3 DEF Referring
<1>5. \A u \in DOMAIN users' : users'[u].data = users'[u].uuid
  BY <1>1 DEF Referring
<1>6. \A v \in Workers : req'[v].pc # "row" \/ req'[v] = req[v]
  <2>1. req'[w] = Idle /\ \A v \in Workers : v # w => req'[v] = req[v]
    BY <1>2, DoneRequest DEF Forms
  <2> QED BY <2>1, IdleFields
<1> QED BY <1>2, <1>4, <1>5, <1>6, ReferringFrame

LEMMA DeletePurchasesReferring ==
    ASSUME Forms, Referring, NEW w \in Workers, DeletePurchases(w)
    PROVE  Referring'
<1>1. /\ pubs' = pubs /\ users' = users /\ purchases' \subseteq purchases
      /\ req \in [Workers -> Requests]
  BY DEF DeletePurchases, Forms
<1>2. \A v \in Workers, p \in purchases' :
         \/ req'[v].pc # "row"
         \/ req'[v] = req[v]
         \/ req'[v].pub # p.pub /\ req'[v].user # p.user
  <2>1. CASE Done(w)
    <3>1. req'[w] = Idle /\ \A v \in Workers : v # w => req'[v] = req[v]
      BY <1>1, <2>1, DoneRequest
    <3> QED BY <3>1, IdleFields
  <2>2. CASE /\ Goes(w, "row")
             /\ purchases' = {p \in purchases : p.pub # req[w].pub /\ p.user # req[w].user}
    <3>1. "row" \in PCs
      BY DEF PCs
    <3>2. /\ req'[w].pub = req[w].pub /\ req'[w].user = req[w].user
          /\ \A v \in Workers : v # w => req'[v] = req[v]
      BY <1>1, <2>2, <3>1, GoesRequest
    <3> QED BY <2>2, <3>2
  <2> QED BY <2>1, <2>2 DEF DeletePurchases
<1>3. /\ \A p \in purchases' :
            /\ p.pub \in DOMAIN pubs' /\ pubs'[p.pub] = pubs[p.pub]
            /\ p.user \in DOMAIN users' /\ users'[p.user].uuid = users[p.user].uuid
      /\ \A u \in DOMAIN users' : users'[u].data = users'[u].uuid
  BY <1>1 DEF Referring
<1> QED BY <1>1, <1>2, <1>3, ReferringFrame

\* A user is updated by a form that was opened for this user, or the request has raced.
LEMMA UpdateUserReferring ==
    ASSUME Adding, Forms, Referring, NEW w \in Workers, UpdateUser(w), ~raced'
    PROVE  Referring'
<1>1. /\ pubs' = pubs /\ DOMAIN users' = DOMAIN users
      /\ \A i \in DOMAIN users : users'[i].uuid = users[i].uuid
      /\ \A i \in DOMAIN users :
            \/ users'[i] = users[i]
            \/ /\ users'[i].data = req[w].person
               /\ raced' = (raced \/ users[i].uuid # req[w].person)
  BY UpdateUserForms
<1>2. purchases' = purchases /\ Done(w)
  BY DEF UpdateUser
<1>3. \A u \in DOMAIN users' : users'[u].data = users'[u].uuid
  BY <1>1 DEF Referring
<1>4. \A v \in Workers : req'[v].pc # "row" \/ req'[v] = req[v]
  <2>1. req'[w] = Idle /\ \A v \in Workers : v # w => req'[v] = req[v]
    BY <1>2, DoneRequest DEF Forms
  <2> QED BY <2>1, IdleFields
<1>5. \A p \in purchases' :
         /\ p.pub \in DOMAIN pubs' /\ pubs'[p.pub] = pubs[p.pub]
         /\ p.user \in DOMAIN users' /\ users'[p.user].uuid = users[p.user].uuid
  BY <1>1, <1>2 DEF Referring
<1> QED BY <1>2, <1>3, <1>4, <1>5, ReferringFrame

\* The new purchase.
NewPurchase(w, id) ==
    [id |-> id, uuid |-> bought + 1, pub |-> req[w].pub, user |-> req[w].user,
     content |-> req[w].content, person |-> req[w].person, license |-> None]

LEMMA CreatedPurchase ==
    ASSUME NEW w \in Workers, CreatePurchase(w)
    PROVE  \E id : purchases' = purchases \cup {NewPurchase(w, id)}
BY DEF CreatePurchase, NewPurchase

\* A purchase is made from a form whose rows are still the ones it shows, or has raced.
LEMMA CreatePurchaseReferring ==
    ASSUME Forms, Referring, NEW w \in Workers, CreatePurchase(w), ~raced'
    PROVE  Referring'
<1>1. PICK id : purchases' = purchases \cup {NewPurchase(w, id)}
  BY CreatedPurchase
<1> DEFINE n == NewPurchase(w, id)
<1>2. pubs' = pubs /\ users' = users /\ Done(w)
  BY DEF CreatePurchase
<1>3. /\ req[w].pub \in DOMAIN pubs /\ pubs[req[w].pub] = req[w].content
      /\ req[w].user \in DOMAIN users /\ users[req[w].user].uuid = req[w].person
      /\ ~BeingDeleted(req[w].pub, req[w].user)
  BY DEF CreatePurchase
<1>4. /\ n.pub = req[w].pub /\ n.user = req[w].user
      /\ n.content = req[w].content /\ n.person = req[w].person
  BY DEF NewPurchase
<1> HIDE DEF n
<1>5. req'[w] = Idle /\ \A v \in Workers : v # w => req'[v] = req[v]
  BY <1>2, DoneRequest DEF Forms
<1>6. \A v \in Workers : req'[v].pc # "row" \/ req'[v] = req[v]
  BY <1>5, IdleFields
<1>7. \A v \in Workers : req[v].pc = "row" => req[v].pub # n.pub /\ req[v].user # n.user
  BY <1>3, <1>4 DEF BeingDeleted
<1>8. ASSUME NEW p \in purchases'
      PROVE  /\ p.pub \in DOMAIN pubs' /\ pubs'[p.pub] = p.content
             /\ p.user \in DOMAIN users' /\ users'[p.user].uuid = p.person
             /\ \A v \in Workers :
                   req'[v].pc = "row" => req'[v].pub # p.pub /\ req'[v].user # p.user
  <2>1. CASE p = n
    BY <1>2, <1>3, <1>4, <1>6, <1>7, <2>1
  <2>2. CASE p \in purchases
    BY <1>2, <1>6, <2>2 DEF Referring
  <2> QED BY <1>1, <2>1, <2>2 DEF n
<1>9. \A u \in DOMAIN users' : users'[u].data = users'[u].uuid
  BY <1>2 DEF Referring
<1> QED BY <1>8, <1>9 DEF Referring

\* An update leaves what a purchase refers to.
LEMMA StoreReferring ==
    ASSUME Adding, Forms, Licenses, Referring, NEW w \in Workers, StoreLicense(w)
    PROVE  Referring'
<1>1. /\ pubs' = pubs /\ users' = users
      /\ purchases' = purchases \/ purchases' = {Stored(p, w) : p \in purchases}
  BY DEF StoreLicense, Stored
<1>2. req'[w] = Idle /\ \A v \in Workers : v # w => req'[v] = req[v]
  BY StoreForms
<1>3. \A v \in Workers : req'[v].pc # "row" \/ req'[v] = req[v]
  BY <1>2, IdleFields
<1>4. \A p \in purchases' : \E q \in purchases :
         /\ p.pub = q.pub /\ p.user = q.user /\ p.content = q.content /\ p.person = q.person
  BY <1>1, StoredPurchases
<1>5. ASSUME NEW p \in purchases'
      PROVE  /\ p.pub \in DOMAIN pubs' /\ pubs'[p.pub] = p.content
             /\ p.user \in DOMAIN users' /\ users'[p.user].uuid = p.person
             /\ \A v \in Workers :
                   req'[v].pc = "row" => req'[v].pub # p.pub /\ req'[v].user # p.user
  BY <1>1, <1>3, <1>4 DEF Referring
<1> QED BY <1>1, <1>5 DEF Referring

\* Every step keeps what purchases refer to, unless it races.
LEMMA ReferringNext ==
    ASSUME Adding, Forms, Licenses, Referring, ~raced', [Next]_vars
    PROVE  Referring'
<1>1. ASSUME NEW w \in Workers, GenerateLicense(w) PROVE Referring'
  <2>1. purchases' = purchases /\ pubs' = pubs /\ users' = users
    BY <1>1 DEF GenerateLicense
  <2>2. \A v \in Workers : req'[v].pc # "row" \/ req'[v] = req[v]
    BY <1>1, GenerateForms, IdleFields
  <2> QED BY <2>1, <2>2, ReferringRequests
<1>2. CASE OtherLicense \/ RegisterDevice \/ Fetch \/ PurgeDataBase \/ AddFromJSON \/ Restart
           \/ UNCHANGED vars
  <2>1. /\ purchases' = purchases /\ pubs' = pubs /\ users' = users
        /\ req' = req \/ Crash
    BY <1>2 DEF OtherLicense, RegisterDevice, Fetch, PurgeDataBase, AddFromJSON, Restart,
                vars, catalogVars
  <2>2. \A v \in Workers : req'[v] = req[v] \/ req'[v] = Idle
    BY <2>1 DEF Crash
  <2> QED BY <2>1, <2>2, IdleFields, ReferringRequests
<1>3. ASSUME NEW w \in Workers,
             \/ AddPublication(w) \/ DeletePublication(w) \/ DeleteUser(w) \/ OpenForm(w)
             \/ Encrypt(w) \/ NotifyLCPServer(w) \/ InsertPublication(w) \/ RemoveMaster(w)
             \/ GetPurchasedLicense(w) \/ CheckPurchase(w)
      PROVE  Referring'
  <2>1. purchases' = purchases /\ users' = users
    BY <1>3 DEF AddPublication, DeletePublication, DeleteUser, OpenForm, Encrypt,
                NotifyLCPServer, InsertPublication, RemoveMaster, GetPurchasedLicense,
                CheckPurchase
  <2>2. req \in [Workers -> Requests]
    BY DEF Forms
  <2>3. \A v \in Workers : req'[v].pc # "row" \/ req'[v] = req[v]
    <3>1. CASE AddPublication(w)
      BY <2>2, <3>1, IdleFields DEF AddPublication, Requests
    <3>2. CASE DeletePublication(w)
      BY <2>2, <3>2, IdleFields DEF DeletePublication, Requests
    <3>3. CASE DeleteUser(w)
      BY <2>2, <3>3, IdleFields DEF DeleteUser, Requests
    <3>4. CASE OpenForm(w)
      BY <3>4, OpenFormForms
    <3>5. CASE Encrypt(w)
      BY <2>2, <3>5, EncryptAdding, IdleFields
    <3>6. CASE NotifyLCPServer(w)
      BY <2>2, <3>6, NotifyAdding, IdleFields
    <3>7. CASE InsertPublication(w)
      BY <2>2, <3>7, InsertAdding, IdleFields
    <3>8. CASE RemoveMaster(w)
      BY <2>2, <3>8, RemoveAdding, IdleFields
    <3>9. CASE GetPurchasedLicense(w)
      BY <3>9, GetLicenseForms
    <3>10. CASE CheckPurchase(w)
      BY <3>10, CheckForms, IdleFields
    <3> QED BY <1>3, <3>1, <3>2, <3>3, <3>4, <3>5, <3>6, <3>7, <3>8, <3>9, <3>10
  <2>4. \A i \in DOMAIN pubs : i \in DOMAIN pubs' /\ pubs'[i] = pubs[i]
    <3>1. CASE InsertPublication(w)
      BY <2>2, <3>1, InsertAdding
    <3>2. CASE ~InsertPublication(w)
      BY <1>3, <3>2 DEF AddPublication, DeletePublication, DeleteUser, OpenForm, Encrypt,
                        NotifyLCPServer, RemoveMaster, GetPurchasedLicense, CheckPurchase
    <3> QED BY <3>1, <3>2
  <2>5. /\ \A p \in purchases' :
              /\ p.pub \in DOMAIN pubs' /\ pubs'[p.pub] = pubs[p.pub]
              /\ p.user \in DOMAIN users' /\ users'[p.user].uuid = users[p.user].uuid
        /\ \A u \in DOMAIN users' : users'[u].data = users'[u].uuid
    BY <2>1, <2>4 DEF Referring
  <2> QED BY <2>1, <2>3, <2>5, ReferringFrame
<1>4. ASSUME NEW w \in Workers,
             \/ DeletePurchases(w) \/ DeleteRow(w) \/ UpdateUser(w) \/ CreatePurchase(w)
             \/ StoreLicense(w)
      PROVE  Referring'
  BY <1>4, DeletePurchasesReferring, DeleteRowReferring, UpdateUserReferring,
     CreatePurchaseReferring, StoreReferring
<1>5. CASE CreateUser
  <2>1. purchases' = purchases /\ pubs' = pubs /\ req' = req
    BY <1>5 DEF CreateUser
  <2>2. /\ \A i \in DOMAIN users : i \in DOMAIN users' /\ users'[i] = users[i]
        /\ \A i \in (DOMAIN users') \ DOMAIN users : users'[i].data = users'[i].uuid
    BY <1>5, CreateUserForms
  <2> QED BY <2>1, <2>2 DEF Referring
<1>6. CASE CatalogStep
  BY <1>3, <1>4, <1>5, <1>6 DEF CatalogStep
<1> QED BY <1>1, <1>2, <1>6 DEF Next

-----------------------------------------------------------------------------
(* What licenses were made for.                                            *)

\* Fewer purchases, no new request for a license, and the licenses as they were.
LEMMA MadeForFewer ==
    ASSUME MadeFor, purchases' \subseteq purchases, made' = made, \A v \in Workers : Kept(v)
    PROVE  MadeFor'
<1>1. ASSUME NEW w \in Workers
      PROVE  /\ HoldsLicense(w)' =>
                  made'[req'[w].license] =
                     [content |-> req'[w].content, person |-> req'[w].person]
             /\ req'[w].op = "license" =>
                  \A p \in purchases' : p.uuid = req'[w].uuid =>
                     p.content = req'[w].content /\ p.person = req'[w].person
  <2>1. req'[w].op = "license" =>
           /\ req[w].op = "license"
           /\ req'[w].uuid = req[w].uuid /\ req'[w].license = req[w].license
           /\ req'[w].content = req[w].content /\ req'[w].person = req[w].person
    BY DEF Kept
  <2>2. HoldsLicense(w)' => HoldsLicense(w) /\ req'[w].op = "license"
    BY <2>1 DEF HoldsLicense
  <2> QED BY <2>1, <2>2 DEF MadeFor
<1> QED BY <1>1 DEF MadeFor

\* A new purchase has no license, and no request was made for it.
LEMMA CreatePurchaseMadeFor ==
    ASSUME Adding, Forms, Licenses, MadeFor, NEW w \in Workers, CreatePurchase(w), made' = made
    PROVE  MadeFor'
<1>1. PICK id : purchases' = purchases \cup {NewPurchase(w, id)}
  BY CreatedPurchase
<1> DEFINE n == NewPurchase(w, id)
<1>2. n.license = None /\ n.uuid = bought + 1
  BY DEF NewPurchase
<1> HIDE DEF n
<1>3. \A v \in Workers : Kept(v)
  BY OtherRequests
<1>4. ASSUME NEW u \in Workers
      PROVE  /\ HoldsLicense(u)' =>
                  made'[req'[u].license] =
                     [content |-> req'[u].content, person |-> req'[u].person]
             /\ req'[u].op = "license" =>
                  \A p \in purchases' : p.uuid = req'[u].uuid =>
                     p.content = req'[u].content /\ p.person = req'[u].person
  <2>1. req'[u].op = "license" =>
           /\ req[u].op = "license"
           /\ req'[u].uuid = req[u].uuid /\ req'[u].license = req[u].license
           /\ req'[u].content = req[u].content /\ req'[u].person = req[u].person
    BY <1>3 DEF Kept
  <2>2. HoldsLicense(u)' => HoldsLicense(u) /\ req'[u].op = "license"
    BY <2>1 DEF HoldsLicense
  <2>3. req[u].op = "license" => req[u].uuid # n.uuid
    <3>1. bought \in Nat /\ req[u].uuid \in Nat
      BY Numbers
    <3>2. req[u].op = "license" => req[u].uuid <= bought
      BY DEF Licenses
    <3> QED BY <1>2, <3>1, <3>2
  <2> QED BY <1>1, <2>1, <2>2, <2>3 DEF MadeFor, n
<1>5. \A p \in purchases' :
         p.license # None => made'[p.license] = [content |-> p.content, person |-> p.person]
  BY <1>1, <1>2 DEF MadeFor, n
<1> QED BY <1>4, <1>5 DEF MadeFor

\* A request reads what the purchase was made for.
LEMMA GetLicenseMadeFor ==
    ASSUME Adding, Forms, Licenses, Referring, MadeFor, NEW w \in Workers,
           GetPurchasedLicense(w), made' = made
    PROVE  MadeFor'
<1>1. purchases' = purchases
  BY DEF GetPurchasedLicense
<1>2. /\ \A v \in Workers : v # w => req'[v] = req[v]
      /\ req'[w].license = None
      /\ \E p \in Joined :
            /\ req'[w].uuid = p.uuid
            /\ req'[w].content = pubs[p.pub] /\ req'[w].person = users[p.user].data
  BY GetLicenseForms
<1>3. PICK p \in Joined :
         /\ req'[w].uuid = p.uuid
         /\ req'[w].content = pubs[p.pub] /\ req'[w].person = users[p.user].data
  BY <1>2
<1>4. p \in purchases /\ req'[w].content = p.content /\ req'[w].person = p.person
  BY <1>3 DEF Joined, Referring
<1>5. \A q \in purchases : q.uuid = req'[w].uuid => q = p
  BY <1>3, <1>4 DEF Licenses
<1>6. ASSUME NEW u \in Workers
      PROVE  /\ HoldsLicense(u)' =>
                  made'[req'[u].license] =
                     [content |-> req'[u].content, person |-> req'[u].person]
             /\ req'[u].op = "license" =>
                  \A q \in purchases' : q.uuid = req'[u].uuid =>
                     q.content = req'[u].content /\ q.person = req'[u].person
  <2>1. CASE u = w
    BY <1>1, <1>2, <1>4, <1>5, <2>1 DEF HoldsLicense
  <2>2. CASE u # w
    <3>1. req'[u] = req[u]
      BY <1>2, <2>2
    <3>2. HoldsLicense(u)' <=> HoldsLicense(u)
      BY <3>1 DEF HoldsLicense
    <3> QED BY <1>1, <3>1, <3>2 DEF MadeFor
  <2> QED BY <2>1, <2>2
<1> QED BY <1>1, <1>6 DEF MadeFor

\* One entry more.
LEMMA AppendMade ==
    ASSUME docs \in Seq(Docs), made \in Seq(Made), Len(made) = Len(docs),
           NEW what \in Made, Generated(what)
    PROVE  /\ made' \in Seq(Made) /\ Len(made') = Len(docs')
           /\ \A i \in 1..Len(docs) : made'[i] = made[i]
           /\ made'[Len(docs) + 1] = what
<1>1. Len(docs') = Len(docs) + 1 /\ Len(docs) \in Nat
  BY AppendDoc
<1>2. made' = Append(made, what)
  BY DEF Generated
<1> QED BY <1>1, <1>2

\* A license is generated; the request that asked for it has what it was made for.
LEMMA GeneratedMadeFor ==
    ASSUME Forms, Licenses, MadeFor, NEW what \in Made, Generated(what), NEW w,
           made \in Seq(Made), Len(made) = Len(docs), purchases' = purchases,
           \A v \in Workers : v # w => Kept(v),
           \/ w \notin Workers
           \/ req'[w].op # "license"
           \/ /\ req[w].op = "license" /\ req'[w].uuid = req[w].uuid
              /\ req'[w].license = Len(docs) + 1
              /\ req'[w].content = req[w].content /\ req'[w].person = req[w].person
              /\ what = [content |-> req[w].content, person |-> req[w].person]
    PROVE  MadeFor'
<1>1. /\ \A i \in 1..Len(docs) : made'[i] = made[i]
      /\ made'[Len(docs) + 1] = what
  BY AppendMade DEF Licenses
<1>2. /\ Len(docs) \in Nat
      /\ \A p \in purchases : p.license # None => p.license \in 1..Len(docs)
      /\ \A v \in Workers : HoldsLicense(v) => req[v].license \in 1..Len(docs)
  BY Numbers DEF Licenses, HoldsLicense, None
<1>3. \A p \in purchases' :
         p.license # None => made'[p.license] = [content |-> p.content, person |-> p.person]
  BY <1>1, <1>2 DEF MadeFor
<1>4. ASSUME NEW u \in Workers
      PROVE  /\ HoldsLicense(u)' =>
                  made'[req'[u].license] =
                     [content |-> req'[u].content, person |-> req'[u].person]
             /\ req'[u].op = "license" =>
                  \A q \in purchases' : q.uuid = req'[u].uuid =>
                     q.content = req'[u].content /\ q.person = req'[u].person
  <2>1. req'[u].op = "license" =>
           /\ req[u].op = "license" /\ req'[u].uuid = req[u].uuid
           /\ req'[u].content = req[u].content /\ req'[u].person = req[u].person
    BY DEF Kept
  <2>2. req'[u].op = "license" =>
           \A q \in purchases' : q.uuid = req'[u].uuid =>
              q.content = req'[u].content /\ q.person = req'[u].person
    BY <2>1 DEF MadeFor
  <2>3. CASE u = w
    <3>1. HoldsLicense(u)' =>
             /\ req'[u].license = Len(docs) + 1
             /\ what = [content |-> req'[u].content, person |-> req'[u].person]
      BY <2>3 DEF HoldsLicense
    <3> QED BY <1>1, <2>2, <3>1
  <2>4. CASE u # w
    <3>1. HoldsLicense(u)' => HoldsLicense(u) /\ req'[u].op = "license"
                                /\ req'[u].license = req[u].license
      BY <2>4 DEF HoldsLicense, Kept
    <3> QED BY <1>1, <1>2, <2>1, <2>2, <3>1 DEF MadeFor
  <2> QED BY <2>3, <2>4
<1> QED BY <1>3, <1>4 DEF MadeFor

\* What a request asks a license for.
LEMMA AskedFor ==
    ASSUME Forms, NEW w \in Workers
    PROVE  [content |-> req[w].content, person |-> req[w].person] \in Made
<1>1. req[w] \in Requests
  BY DEF Forms
<1>2. req[w].content \in 0..MaxContents /\ req[w].person \in 0..MaxPeople
  BY <1>1, RequestTypes
<1> QED BY <1>2 DEF Made

LEMMA GenerateMadeFor ==
    ASSUME Adding, Forms, Licenses, MadeFor, NEW w \in Workers, GenerateLicense(w),
           made \in Seq(Made), Len(made) = Len(docs)
    PROVE  MadeFor'
<1> DEFINE what == [content |-> req[w].content, person |-> req[w].person]
<1>1. /\ purchases' = purchases
      /\ Generated(what) \/ (made' = made /\ Done(w))
  BY DEF GenerateLicense
<1>2. /\ \A v \in Workers : v # w => req'[v] = req[v]
      /\ \/ req'[w] = Idle
         \/ /\ Generated(what)
            /\ req'[w].license = Len(docs) + 1
            /\ req[w].op = "license" /\ req'[w].uuid = req[w].uuid
            /\ req'[w].content = req[w].content /\ req'[w].person = req[w].person
  BY GenerateForms
<1>3. what \in Made
  BY AskedFor
<1>4. what = [content |-> req[w].content, person |-> req[w].person]
  OBVIOUS
<1> HIDE DEF what
<1>5. \A v \in Workers : v # w => Kept(v)
  BY <1>2 DEF Kept
<1>6. CASE Generated(what)
  <2>1. \/ req'[w].op # "license"
        \/ /\ req[w].op = "license" /\ req'[w].uuid = req[w].uuid
           /\ req'[w].license = Len(docs) + 1
           /\ req'[w].content = req[w].content /\ req'[w].person = req[w].person
    BY <1>2, IdleFields
  <2> QED BY <1>1, <1>3, <1>4, <1>5, <1>6, <2>1, GeneratedMadeFor
<1>7. CASE made' = made /\ Done(w)
  <2>1. req'[w] = Idle
    BY <1>7, DoneRequest DEF Forms
  <2>2. \A v \in Workers : Kept(v)
    BY <1>5, <2>1, IdleFields DEF Kept
  <2> QED BY <1>1, <1>7, <2>2, MadeForFewer
<1> QED BY <1>1, <1>6, <1>7

\* A license is stored to the purchase it was made for, or the request has raced.
LEMMA StoreMadeFor ==
    ASSUME Adding, Forms, Licenses, MadeFor, NEW w \in Workers, StoreLicense(w), ~raced',
           made' = made
    PROVE  MadeFor'
<1>1. /\ req[w].pc = "store"
      /\ \/ purchases' = purchases
         \/ /\ purchases' = {Stored(p, w) : p \in purchases}
            /\ \A p \in purchases : p.id = req[w].purchase => p.uuid = req[w].uuid
  BY DEF StoreLicense, Stored
<1>2. req'[w] = Idle /\ \A v \in Workers : v # w => req'[v] = req[v]
  BY StoreForms
<1>3. \A v \in Workers : Kept(v)
  BY <1>2, IdleFields DEF Kept
<1>4. CASE purchases' = purchases
  BY <1>3, <1>4, MadeForFewer
<1>5. CASE /\ purchases' = {Stored(p, w) : p \in purchases}
           /\ \A p \in purchases : p.id = req[w].purchase => p.uuid = req[w].uuid
  <2>1. req[w].op = "license"
    BY <1>1 DEF Forms, FormOK
  <2>2. \A p \in purchases :
           /\ Stored(p, w).uuid = p.uuid
           /\ Stored(p, w).content = p.content /\ Stored(p, w).person = p.person
           /\ Stored(p, w).license = IF p.id = req[w].purchase THEN req[w].license ELSE p.license
    BY StoredPurchases
  <2>3. ASSUME NEW p \in purchases, Stored(p, w).license # None
        PROVE  made'[Stored(p, w).license] =
                  [content |-> Stored(p, w).content, person |-> Stored(p, w).person]
    <3>1. CASE p.id = req[w].purchase
      <4>1. p.content = req[w].content /\ p.person = req[w].person
        BY <1>5, <2>1, <3>1 DEF MadeFor
      <4>2. Stored(p, w).license = req[w].license
        BY <2>2, <3>1
      <4>3. made[req[w].license] = [content |-> req[w].content, person |-> req[w].person]
        BY <2>1, <2>3, <4>2 DEF MadeFor, HoldsLicense
      <4> QED BY <2>2, <4>1, <4>2, <4>3
    <3>2. CASE p.id # req[w].purchase
      BY <2>2, <2>3, <3>2 DEF MadeFor
    <3> QED BY <3>1, <3>2
  <2>4. \A p \in purchases' :
           p.license # None => made'[p.license] = [content |-> p.content, person |-> p.person]
    BY <1>5, <2>3
  <2>5. ASSUME NEW u \in Workers
        PROVE  /\ HoldsLicense(u)' =>
                    made'[req'[u].license] =
                       [content |-> req'[u].content, person |-> req'[u].person]
               /\ req'[u].op = "license" =>
                    \A q \in purchases' : q.uuid = req'[u].uuid =>
                       q.content = req'[u].content /\ q.person = req'[u].person
    <3>1. req'[u].op = "license" => req'[u] = req[u]
      BY <1>2, IdleFields
    <3>2. HoldsLicense(u)' => HoldsLicense(u) /\ req'[u] = req[u]
      BY <3>1 DEF HoldsLicense
    <3>3. \A q \in purchases' : \E p \in purchases :
             q.uuid = p.uuid /\ q.content = p.content /\ q.person = p.person
      BY <1>5, <2>2
    <3> QED BY <3>1, <3>2, <3>3 DEF MadeFor
  <2> QED BY <2>4, <2>5 DEF MadeFor
<1> QED BY <1>1, <1>4, <1>5

\* Every step keeps what licenses were made for, unless it races.
LEMMA MadeForNext ==
    ASSUME Adding, Forms, Licenses, Referring, MadeFor, ~raced',
           made \in Seq(Made), Len(made) = Len(docs), [Next]_vars
    PROVE  MadeFor'
<1>1. ASSUME NEW w \in Workers, GenerateLicense(w) PROVE MadeFor'
  BY <1>1, GenerateMadeFor
<1>2. CASE OtherLicense
  <2>1. Generated(Elsewhere) /\ purchases' = purchases /\ req' = req
    BY <1>2 DEF OtherLicense
  <2>2. PICK w : w \notin Workers
    BY NoSetContainsEverything
  <2>3. \A v \in Workers : Kept(v)
    BY <2>1 DEF Kept
  <2>4. Elsewhere \in Made
    BY CatalogAssumption DEF Elsewhere, Made, None
  <2> QED BY <2>1, <2>2, <2>3, <2>4, GeneratedMadeFor
<1>3. CASE RegisterDevice \/ Fetch \/ PurgeDataBase \/ AddFromJSON \/ Restart \/ UNCHANGED vars
  <2>1. purchases' = purchases /\ made' = made /\ (req' = req \/ Crash)
    BY <1>3 DEF RegisterDevice, Fetch, PurgeDataBase, AddFromJSON, Restart, vars, catalogVars
  <2>2. \A v \in Workers : req'[v] = req[v] \/ req'[v] = Idle
    BY <2>1 DEF Crash
  <2>3. \A v \in Workers : Kept(v)
    BY <2>2, IdleFields DEF Kept
  <2> QED BY <2>1, <2>3, MadeForFewer
<1>4. CASE CatalogStep
  <2>1. made' = made
    BY <1>4 DEF CatalogStep
  <2>2. ASSUME NEW w \in Workers,
               \/ AddPublication(w) \/ DeletePublication(w) \/ DeleteUser(w) \/ OpenForm(w)
               \/ Encrypt(w) \/ NotifyLCPServer(w) \/ InsertPublication(w) \/ RemoveMaster(w)
               \/ DeletePurchases(w) \/ DeleteRow(w) \/ UpdateUser(w)
        PROVE  MadeFor'
    <3>1. purchases' \subseteq purchases
      BY <2>2 DEF AddPublication, DeletePublication, DeleteUser, OpenForm, Encrypt,
                  NotifyLCPServer, InsertPublication, RemoveMaster, DeletePurchases,
                  DeleteRow, UpdateUser
    <3>2. \A v \in Workers : Kept(v)
      BY <2>2, OtherRequests
    <3> QED BY <2>1, <3>1, <3>2, MadeForFewer
  <2>3. CASE CreateUser
    <3>1. purchases' = purchases /\ req' = req
      BY <2>3 DEF CreateUser
    <3>2. \A v \in Workers : Kept(v)
      BY <3>1 DEF Kept
    <3> QED BY <2>1, <3>1, <3>2, MadeForFewer
  <2>4. ASSUME NEW w \in Workers, CheckPurchase(w) PROVE MadeFor'
    <3>1. purchases' = purchases
      BY <2>4 DEF CheckPurchase
    <3>2. \A v \in Workers : Kept(v)
      BY <2>4, CheckForms, IdleFields DEF Kept
    <3> QED BY <2>1, <3>1, <3>2, MadeForFewer
  <2>5. ASSUME NEW w \in Workers,
               CreatePurchase(w) \/ GetPurchasedLicense(w) \/ StoreLicense(w)
        PROVE  MadeFor'
    BY <2>1, <2>5, CreatePurchaseMadeFor, GetLicenseMadeFor, StoreMadeFor
  <2> QED BY <1>4, <2>2, <2>3, <2>4, <2>5 DEF CatalogStep
<1> QED BY <1>1, <1>2, <1>3, <1>4 DEF Next

\* The flag is never reset, and every license has an entry.
LEMMA MadeNext ==
    ASSUME Forms, Licenses, raced \in BOOLEAN,
           made \in Seq(Made), Len(made) = Len(docs), [Next]_vars
    PROVE  /\ raced' \in BOOLEAN /\ (raced => raced')
           /\ made' \in Seq(Made) /\ Len(made') = Len(docs')
<1>1. ASSUME NEW what \in Made, Generated(what)
      PROVE  made' \in Seq(Made) /\ Len(made') = Len(docs')
  BY <1>1, AppendMade DEF Licenses
<1>2. ASSUME NEW w \in Workers, GenerateLicense(w)
      PROVE  raced' = raced /\ made' \in Seq(Made) /\ Len(made') = Len(docs')
  <2> DEFINE what == [content |-> req[w].content, person |-> req[w].person]
  <2>1. raced' = raced /\ (Generated(what) \/ (made' = made /\ docs' = docs))
    BY <1>2 DEF GenerateLicense
  <2>2. what \in Made
    BY AskedFor
  <2> HIDE DEF what
  <2> QED BY <1>1, <2>1, <2>2
<1>3. CASE OtherLicense
  <2>1. Elsewhere \in Made
    BY CatalogAssumption DEF Elsewhere, Made, None
  <2>2. Generated(Elsewhere) /\ raced' = raced
    BY <1>3 DEF OtherLicense
  <2> QED BY <1>1, <2>1, <2>2
<1>4. CASE RegisterDevice
  <2>1. raced' = raced /\ made' = made
    BY <1>4 DEF RegisterDevice
  <2> QED BY <1>4, <2>1, RegisterLicenses
<1>5. CASE Fetch \/ PurgeDataBase \/ AddFromJSON \/ Restart \/ UNCHANGED vars
  BY <1>5 DEF Fetch, PurgeDataBase, AddFromJSON, Restart, vars, catalogVars
<1>6. CASE CatalogStep
  <2>1. docs' = docs /\ made' = made
    BY <1>6 DEF CatalogStep
  <2>2. ASSUME NEW w \in Workers,
               \/ AddPublication(w) \/ DeletePublication(w) \/ DeleteUser(w) \/ OpenForm(w)
               \/ Encrypt(w) \/ NotifyLCPServer(w) \/ InsertPublication(w) \/ RemoveMaster(w)
               \/ DeletePurchases(w) \/ DeleteRow(w)
               \/ GetPurchasedLicense(w) \/ CheckPurchase(w)
        PROVE  raced' = raced
    BY <2>2 DEF AddPublication, DeletePublication, DeleteUser, OpenForm, Encrypt,
                NotifyLCPServer, InsertPublication, RemoveMaster, DeletePurchases, DeleteRow,
                GetPurchasedLicense, CheckPurchase
  <2>3. ASSUME NEW w \in Workers, UpdateUser(w)
        PROVE  raced' \in BOOLEAN /\ (raced => raced')
    BY <2>3 DEF UpdateUser
  <2>4. ASSUME NEW w \in Workers, CreatePurchase(w)
        PROVE  raced' \in BOOLEAN /\ (raced => raced')
    BY <2>4, Zenon DEF CreatePurchase
  <2>5. ASSUME NEW w \in Workers, StoreLicense(w)
        PROVE  raced' \in BOOLEAN /\ (raced => raced')
    <3> DEFINE met == \E p \in purchases : p.id = req[w].purchase /\ p.uuid # req[w].uuid
    <3>1. raced' = (raced \/ met) \/ raced' = raced
      BY <2>5 DEF StoreLicense
    <3> HIDE DEF met
    <3> QED BY <3>1, Zenon
  <2>6. CreateUser => raced' = raced
    BY DEF CreateUser
  <2>7. raced' \in BOOLEAN /\ (raced => raced')
    BY <1>6, <2>2, <2>3, <2>4, <2>5, <2>6, Zenon DEF CatalogStep
  <2> QED BY <2>1, <2>7
<1> QED BY <1>2, <1>3, <1>4, <1>5, <1>6 DEF Next

-----------------------------------------------------------------------------
(* The invariant is inductive.                                             *)

LEMMA InitInvariant == Init => IInv
<1> SUFFICES ASSUME Init PROVE IInv
  OBVIOUS
<1>1. Adding /\ Forms
  BY FormsInit
<1>2. /\ purchases = {} /\ bought = 0 /\ raced = FALSE /\ faults = 0
      /\ docs = <<>> /\ made = <<>> /\ view = <<>> /\ task = Sleeping
      /\ users = <<[uuid |-> 1, data |-> 1]>>
  BY DEF Init, CatalogInit
<1>3. Licenses
  <2>1. \A w \in Workers : req[w].op # "license" /\ ~HoldsLicense(w)
    BY IdleFields DEF Init, CatalogInit, HoldsLicense
  <2> QED BY <1>2, <2>1, CatalogAssumption, LicenseViewAssumption DEF Licenses
<1>4. Viewing
  <2>1. /\ Sleeping \in [pc : {"sleep", "purge", "fill", "dead"}, rows : Seq(Docs)]
        /\ Sleeping.pc = "sleep" /\ Sleeping.rows = <<>>
    BY EmptyRows DEF Sleeping
  <2> QED BY <1>2, <2>1, EmptyRows DEF Viewing
<1>5. Referring /\ MadeFor
  <2>1. \A w \in Workers : req[w].op # "license" /\ ~HoldsLicense(w)
    BY IdleFields DEF Init, CatalogInit, HoldsLicense
  <2>2. MadeFor
    BY <1>2, <2>1 DEF MadeFor
  <2>3. Referring
    BY <1>2 DEF Referring
  <2> QED BY <2>2, <2>3
<1>6. made \in Seq(Made) /\ Len(made) = Len(docs) /\ faults \in 0..MaxFaults
  BY <1>2, CatalogAssumption
<1>7. raced \in BOOLEAN
  BY <1>2
<1> QED BY <1>1, <1>3, <1>4, <1>5, <1>6, <1>7 DEF IInv

\* Failures are counted up to the bound.
LEMMA FaultsNext ==
    ASSUME faults \in 0..MaxFaults, [Next]_vars
    PROVE  faults' \in 0..MaxFaults
<1>1. faults' = faults \/ (faults < MaxFaults /\ faults' = faults + 1)
  <2>1. CASE CatalogStep
    BY <2>1 DEF CatalogStep, AddPublication, DeletePublication, DeleteUser, OpenForm, Encrypt,
                NotifyLCPServer, InsertPublication, RemoveMaster, DeletePurchases, DeleteRow,
                UpdateUser, CreatePurchase, CreateUser, GetPurchasedLicense, CheckPurchase,
                StoreLicense
  <2>2. CASE (\E w \in Workers : GenerateLicense(w)) \/ OtherLicense \/ RegisterDevice \/ Fetch
             \/ PurgeDataBase \/ AddFromJSON \/ Restart \/ UNCHANGED vars
    BY <2>2 DEF GenerateLicense, OtherLicense, RegisterDevice, Fetch, PurgeDataBase,
                AddFromJSON, Restart, vars, catalogVars
  <2> QED BY <2>1, <2>2 DEF Next
<1> QED BY <1>1, CatalogAssumption

LEMMA NextInvariant == IInv /\ [Next]_vars => IInv'
<1> SUFFICES ASSUME IInv, [Next]_vars PROVE IInv'
  OBVIOUS
<1>1. /\ Adding /\ Forms /\ Licenses /\ Viewing
      /\ raced \in BOOLEAN /\ faults \in 0..MaxFaults
      /\ made \in Seq(Made) /\ Len(made) = Len(docs)
      /\ ~raced => Referring /\ MadeFor
  BY DEF IInv
<1>2. Adding' /\ Forms'
  BY <1>1, FormsNext
<1>3. Licenses'
  BY <1>1, LicensesNext
<1>4. Viewing'
  BY <1>1, ViewingNext
<1>5. /\ raced' \in BOOLEAN /\ (raced => raced')
      /\ made' \in Seq(Made) /\ Len(made') = Len(docs')
  BY <1>1, MadeNext
<1>6. ~raced' => Referring' /\ MadeFor'
  BY <1>1, <1>5, ReferringNext, MadeForNext
<1>7. faults' \in 0..MaxFaults
  BY <1>1, FaultsNext
<1> QED BY <1>2, <1>3, <1>4, <1>5, <1>6, <1>7 DEF IInv

LEMMA Invariant == Spec => []IInv
<1> QED BY InitInvariant, NextInvariant, PTL DEF Spec

-----------------------------------------------------------------------------

\* A publication that can be bought can be licensed, and a master file is only gone when
\* the License Server has a content made of it, for any number of requests that add and
\* delete publications at the same time and whatever fails.
THEOREM NothingIsHalfAdded == Spec => []NothingHalfAdded
<1>1. IInv => NothingHalfAdded
  <2> SUFFICES ASSUME IInv PROVE NothingHalfAdded
    OBVIOUS
  <2>1. Adding /\ Forms /\ Licenses /\ Viewing
    BY DEF IInv
  <2>2. /\ DOMAIN pubs \subseteq Rows /\ DOMAIN users \subseteq Rows
        /\ \A i \in DOMAIN pubs : pubs[i] \in 1..MaxContents
    BY <2>1, RowIds
  <2>3. /\ \A i \in DOMAIN docs : docs[i] \in Docs
        /\ \A i \in DOMAIN view : view[i] \in Docs
        /\ task.pc \in {"sleep", "purge", "fill", "dead"}
    BY <2>1 DEF Licenses, Viewing
  <2>4. TypeOK
    BY <2>1, <2>2, <2>3 DEF TypeOK, IInv, Adding, Forms, Licenses
  <2> QED BY <2>1, <2>4 DEF NothingHalfAdded, Adding
<1> QED BY <1>1, Invariant, PTL

\* Unless a request used an id whose row was replaced or being deleted, a purchase refers
\* to the publication and the user it was made for, and its license opens what was bought
\* and was made for its owner, who is the buyer: for any number of requests that read
\* purchases, generate licenses, store them and delete rows at the same time.
THEOREM LicenseIsOfPurchase == Spec => []LicenseOfPurchase
<1>1. IInv => LicenseOfPurchase
  <2> SUFFICES ASSUME IInv, ~raced, NEW p \in purchases
               PROVE  /\ p.pub \in DOMAIN pubs /\ pubs[p.pub] = p.content
                      /\ p.user \in DOMAIN users /\ users[p.user].uuid = p.person
                      /\ p.license # None =>
                            /\ made[p.license] = [content |-> p.content, person |-> p.person]
                            /\ GetLicenseOwner(p.license) = {p.person}
    BY DEF LicenseOfPurchase
  <2>1. Referring /\ MadeFor /\ Licenses
    BY DEF IInv
  <2>2. /\ p.pub \in DOMAIN pubs /\ pubs[p.pub] = p.content
        /\ p.user \in DOMAIN users /\ users[p.user].uuid = p.person
        /\ users[p.user].data = p.person
    BY <2>1 DEF Referring
  <2>3. ASSUME p.license # None PROVE GetLicenseOwner(p.license) = {p.person}
    <3>1. p \in Joined
      BY <2>2 DEF Joined
    <3>2. \A q \in Joined : q.license = p.license => q = p
      BY <2>1, <2>3 DEF Licenses, Joined
    <3> QED BY <2>2, <3>1, <3>2 DEF GetLicenseOwner
  <2>4. p.license # None => made[p.license] = [content |-> p.content, person |-> p.person]
    BY <2>1 DEF MadeFor
  <2> QED BY <2>2, <2>3, <2>4
<1> QED BY <1>1, Invariant, PTL

\* The list of licenses has one line for a license, however fetches, failures, new licenses
\* and deletions interleave.
THEOREM LinesAreUnique == Spec => []LinesUnique
<1>1. IInv => LinesUnique
  <2> SUFFICES ASSUME IInv, NEW l \in Lines, NEW k \in Lines,
                      view[l[1]].license = view[k[1]].license
               PROVE  l = k
    BY DEF LinesUnique
  <2>1. Licenses /\ NoneTwice(view)
    BY DEF IInv, Viewing
  <2>2. /\ l = <<l[1], l[2]>> /\ k = <<k[1], k[2]>>
        /\ l[1] \in DOMAIN view /\ k[1] \in DOMAIN view
        /\ l[2] \in purchases /\ k[2] \in purchases
        /\ view[l[1]].license = l[2].license
        /\ view[k[1]].license = k[2].license
    BY DEF Lines, Joined
  <2>3. l[1] = k[1]
    BY <2>1, <2>2 DEF NoneTwice
  <2>4. l[2] = k[2]
    <3>1. \A p, q \in purchases : p.license = q.license /\ p.license # None => p = q
      BY <2>1 DEF Licenses
    <3>2. l[2].license = k[2].license /\ l[2].license # None
      <4>1. view[l[1]] \in Docs
        BY <2>2 DEF IInv, Viewing
      <4>2. view[l[1]].license # None
        BY <4>1 DEF Docs, None
      <4> QED BY <2>2, <4>2
    <3> QED BY <2>2, <3>1, <3>2
  <2> QED BY <2>2, <2>3, <2>4
<1> QED BY <1>1, Invariant, PTL

\* The request after n links: the first page, with n rows more.
LEMMA FollowedLinks ==
    ASSUME NEW n \in Nat
    PROVE  Followed[n] = [page |-> 1, perPage |-> PerPage + n]
<1> DEFINE Page(m) == [page |-> 1, perPage |-> PerPage + m]
           g == [m \in Nat |-> Page(m)]
           Step(f) == [m \in Nat |-> IF m = 0 THEN [page |-> 1, perPage |-> PerPage]
                                      ELSE NextLink(f[m - 1])]
<1>1. \A m \in Nat : m # 0 => NextLink(Page(m - 1)) = Page(m)
  BY LicenseViewAssumption DEF NextLink
<1>2. Page(0) = [page |-> 1, perPage |-> PerPage]
  BY LicenseViewAssumption
<1>3. g = Step(g)
  BY <1>1, <1>2
<1>4. Followed = Step(Followed)
  <2>1. \E f : f = Step(f)
    BY <1>3
  <2> QED BY <2>1 DEF Followed
<1> DEFINE Bad == {m \in Nat : Followed[m] # Page(m)}
<1>5. Bad = {}
  <2> SUFFICES ASSUME Bad # {} PROVE FALSE
    OBVIOUS
  <2>1. PICK m \in Bad : \A x \in Bad : m <= x
    BY LeastNatural
  <2>2. m \in Nat /\ Followed[m] # Page(m)
    OBVIOUS
  <2>3. CASE m = 0
    BY <1>2, <1>4, <2>2, <2>3
  <2>4. CASE m # 0
    <3>1. m - 1 \in Nat /\ m - 1 \notin Bad
      BY <2>1, <2>2, <2>4
    <3>2. Followed[m - 1] = Page(m - 1)
      BY <3>1
    <3>3. Followed[m] = NextLink(Followed[m - 1])
      BY <1>4, <2>2, <2>4
    <3> QED BY <1>1, <2>2, <2>4, <3>2, <3>3
  <2> QED BY <2>3, <2>4
<1> QED BY <1>5

\* A client that follows the next links of the Status Server gets every document, although
\* no link leaves the first page, for every size of a page and every number of documents.
THEOREM NextLinksGetAll == Spec => []NextLinksReachAll
<1>1. IInv => NextLinksReachAll
  <2> SUFFICES ASSUME IInv PROVE NextLinksReachAll
    OBVIOUS
  <2> DEFINE n == PerPage + MaxDocs  rows == List(1, n)
  <2>1. docs \in Seq(Docs) /\ Len(docs) <= MaxDocs /\ Len(docs) \in Nat
    BY DEF IInv, Licenses
  <2>2. n \in Nat \ {0} /\ Len(docs) <= n
    BY <2>1, LicenseViewAssumption, CatalogAssumption
  <2>3. Followed[MaxDocs] = [page |-> 1, perPage |-> n]
    BY FollowedLinks, LicenseViewAssumption, CatalogAssumption
  <2> HIDE DEF n
  <2>4. /\ rows \in Seq(Docs)
        /\ Len(rows) = (IF n <= Len(docs) THEN n ELSE Len(docs))
        /\ \A i \in 1..(IF n <= Len(docs) THEN n ELSE Len(docs)) :
              rows[i] = docs[(Len(docs) - i) + 1]
    BY <2>1, <2>2, FirstPage
  <2> HIDE DEF rows
  <2>5. Len(rows) = Len(docs) /\ \A i \in 1..Len(docs) : rows[i] = docs[(Len(docs) - i) + 1]
    BY <2>1, <2>2, <2>4
  <2>6. rows = [i \in 1..Len(docs) |-> docs[(Len(docs) - i) + 1]]
    BY <2>1, <2>4, <2>5
  <2>7. rows = Reverse(docs)
    BY <2>6 DEF Reverse
  <2> QED BY <2>3, <2>7 DEF NextLinksReachAll, rows
<1> QED BY <1>1, Invariant, PTL
=============================================================================
