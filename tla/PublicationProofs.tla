------------------------- MODULE PublicationProofs -------------------------
(***************************************************************************)
(* Proofs about Publication for every number of contents, overlapping runs *)
(* and keys.                                                               *)
(***************************************************************************)
EXTENDS Publication, TLAPS

(***************************************************************************)
(* The inductive invariant.  RunOK says how far a run has come and holds   *)
(* of every content.  SoundContent and SoundRun hold of the contents that  *)
(* are not spoiled: they have one run at a time, which carries the key of  *)
(* the row, and their row does not disappear.                              *)
(***************************************************************************)

\* The file of a run is in place: it has been stored by the tool or by AddContent.
InPlace(r) == r.pc = "write" \/ (r.pc = "put" /\ r.mode # "none")

Keyed(r) == r.pc \in {"encrypt", "fill", "put", "copy", "write"}

RunOK(t) ==
    /\ j[t].pc = "idle" => j[t] = NoJob
    /\ j[t].pc # "idle" => j[t].content \in Contents
    /\ Keyed(j[t]) => j[t].key # None
    /\ InPlace(j[t]) => store[j[t].content] # None

\* The file is only cut while a run writes it or when something failed.
CutOK == \A c \in cut : failed \/ \E t \in Tools : j[t].content = c /\ Writing(j[t])

SoundContent(c) ==
    /\ index[c] # None => store[c] = index[c] /\ copies[c] \subseteq {index[c]}
    /\ index[c] = None => copies[c] = {} /\ c \notin cms

SoundRun(t) ==
    LET r == j[t]  c == r.content IN
    /\ Keyed(r) /\ index[c] # None => r.key = index[c]
    /\ InPlace(r) => store[c] = r.key
    /\ r.pc = "write" /\ r.before # None => index[c] # None
    /\ r.pc \in {"cms", "abort"} => index[c] # None
    /\ \A s \in Tools : j[s].content = c => s = t

IInv ==
    /\ TypeOK
    /\ IndexedIsStored
    /\ CutOK
    /\ \A t \in Tools : RunOK(t)
    /\ \A c \in Contents \ spoiled : SoundContent(c)
    /\ \A t \in Tools : j[t].content \in Contents \ spoiled => SoundRun(t)

-----------------------------------------------------------------------------

\* A run that has not started has no content.
LEMMA NoJobType ==
    /\ NoJob \in Job /\ NoJob.content \notin Contents
    /\ NoJob.pc = "idle" /\ ~Keyed(NoJob) /\ ~InPlace(NoJob)
BY PublicationAssumption DEF NoJob, Job, None, Modes, Keyed, InPlace

\* The invariant holds before the first run.
LEMMA InitIInv == Init => IInv
<1> SUFFICES ASSUME Init PROVE IInv
  OBVIOUS
<1>1. TypeOK
  <2>1. j \in [Tools -> Job]
    BY NoJobType DEF Init
  <2>2. 1 \in Key /\ None \in Nat
    BY DEF Key, None
  <2> QED
    BY <2>1, <2>2 DEF Init, TypeOK
<1>2. IndexedIsStored
  BY DEF Init, IndexedIsStored
<1>c. CutOK
  BY DEF Init, CutOK
<1>3. \A t \in Tools : RunOK(t) /\ j[t].content \notin Contents
  BY NoJobType DEF Init, RunOK
<1>4. \A c \in Contents : SoundContent(c)
  BY DEF Init, SoundContent
<1> QED
  BY <1>1, <1>2, <1>3, <1>4, <1>c DEF IInv

\* A step of run t, on content c, that touches the tables of its own content only.
OwnStep(t, c) ==
    /\ j[t].content = c
    /\ TypeOK'
    /\ spoiled \subseteq spoiled'
    /\ \A s \in Tools : s # t => j'[s] = j[s]
    /\ \A d \in Contents : d # c => /\ index'[d] = index[d] /\ store'[d] = store[d]
                                    /\ copies'[d] = copies[d]
                                    /\ (d \in cms' <=> d \in cms)
    /\ j'[t] = NoJob \/ (j'[t].pc # "idle" /\ j'[t].content = c)
    /\ failed => failed'
    /\ cut' \subseteq cut \cup {c}
    /\ c \in cut' => \/ failed' \/ Writing(j'[t])
                     \/ \E s \in Tools \ {t} : j[s].content = c /\ Writing(j[s])
    /\ store[c] # None => store'[c] # None
    /\ index'[c] # None => store'[c] # None
    /\ Keyed(j'[t]) => j'[t].key # None
    /\ InPlace(j'[t]) => store'[c] # None
    /\ c \notin spoiled' => SoundContent(c)'
    /\ c \notin spoiled' /\ j'[t] # NoJob =>
          /\ Keyed(j'[t]) /\ index'[c] # None => j'[t].key = index'[c]
          /\ InPlace(j'[t]) => store'[c] = j'[t].key
          /\ j'[t].pc = "write" /\ j'[t].before # None => index'[c] # None
          /\ j'[t].pc \in {"cms", "abort"} => index'[c] # None

\* Such a step keeps the invariant if it leaves its own content and its own run sound.
LEMMA RunStep ==
    ASSUME IInv, NEW t \in Tools, NEW c \in Contents, OwnStep(t, c)
    PROVE  IInv'
<1> USE DEF OwnStep
<1>1. IndexedIsStored'
  BY DEF IInv, IndexedIsStored
<1>c. CutOK'
  <2> SUFFICES ASSUME NEW d \in cut', ~failed'
               PROVE  \E s \in Tools : j'[s].content = d /\ Writing(j'[s])
    BY DEF CutOK
  <2>1. CASE d = c
    <3>1. Writing(j'[t]) => j'[t].content = c
      BY NoJobType DEF Writing
    <3> QED
      BY <2>1, <3>1
  <2>2. CASE d # c
    <3>1. d \in cut /\ ~failed
      BY <2>2
    <3>2. PICK s \in Tools : j[s].content = d /\ Writing(j[s])
      BY <3>1 DEF IInv, CutOK
    <3>3. s # t
      BY <2>2, <3>2
    <3> QED
      BY <3>2, <3>3
  <2> QED
    BY <2>1, <2>2
<1>2. \A s \in Tools : RunOK(s)'
  <2> SUFFICES ASSUME NEW s \in Tools PROVE RunOK(s)'
    OBVIOUS
  <2>1. CASE s = t
    BY <2>1, NoJobType DEF RunOK
  <2>2. CASE s # t
    <3>1. j'[s] = j[s] /\ RunOK(s)
      BY <2>2 DEF IInv
    <3>2. InPlace(j[s]) => j[s].content \in Contents
      BY <3>1 DEF RunOK, InPlace
    <3> QED
      BY <3>1, <3>2 DEF RunOK
  <2> QED
    BY <2>1, <2>2
<1>3. \A d \in Contents \ spoiled' : SoundContent(d)'
  <2> SUFFICES ASSUME NEW d \in Contents \ spoiled', d # c PROVE SoundContent(d)'
    OBVIOUS
  <2>1. SoundContent(d)
    BY DEF IInv
  <2> QED
    BY <2>1 DEF SoundContent
<1>4. ASSUME NEW s \in Tools, j'[s].content \in Contents \ spoiled'
      PROVE  SoundRun(s)'
  <2>1. \A v \in Tools : j'[v].content \in Contents => j'[v].content = j[v].content
    BY NoJobType
  <2>2. j[s].content \in Contents \ spoiled /\ SoundRun(s) /\ j'[s].content = j[s].content
    BY <1>4, <2>1 DEF IInv
  <2>3. \A v \in Tools : j'[v].content = j'[s].content => v = s
    BY <1>4, <2>1, <2>2 DEF SoundRun
  <2>4. CASE s = t
    BY <1>4, <2>2, <2>3, <2>4, NoJobType DEF SoundRun
  <2>5. CASE s # t
    <3>1. j'[s] = j[s] /\ j[s].content # c
      BY <2>2, <2>5 DEF SoundRun
    <3> QED
      BY <2>2, <2>3, <3>1 DEF SoundRun
  <2> QED
    BY <2>4, <2>5
<1> QED
  BY <1>1, <1>2, <1>3, <1>4, <1>c DEF IInv

\* What IInv says of a run that is under way, in one place.
LEMMA RunFacts ==
    ASSUME IInv, NEW t \in Tools, j[t].pc # "idle"
    PROVE  /\ j[t] \in Job /\ j[t].content \in Contents
           /\ RunOK(t)
           /\ j[t].content \notin spoiled => SoundRun(t) /\ SoundContent(j[t].content)
           /\ index[j[t].content] # None => store[j[t].content] # None
BY DEF IInv, TypeOK, RunOK, IndexedIsStored

\* The run that keeps the file of t's content cut is another one, unless t itself writes.
LEMMA CutFacts ==
    ASSUME IInv, NEW t \in Tools, j[t].content \in cut, ~failed, ~Writing(j[t])
    PROVE  \E s \in Tools \ {t} : j[s].content = j[t].content /\ Writing(j[s])
<1>1. PICK s \in Tools : j[s].content = j[t].content /\ Writing(j[s])
  BY DEF IInv, CutOK
<1>2. s # t
  BY <1>1
<1> QED
  BY <1>1, <1>2

\* What Filled leaves of the cut files.
LEMMA FilledCut ==
    ASSUME NEW t, NEW c, NEW key, Filled(t, c, key)
    PROVE  /\ store' = [store EXCEPT ![c] = key] /\ cut' \subseteq cut
           /\ c \in cut' => \E s \in Tools \ {t} : j[s].content = c /\ Writing(j[s])
BY DEF Filled

\* Run spoils a content that already has a run or another key.
LEMMA StartStep ==
    ASSUME IInv, NEW t \in Tools, Run(t)
    PROVE  IInv'
<1>1. PICK c \in Contents, mode \in Modes, remote \in BOOLEAN,
           contentkey \in Imposed \cup {None} :
         /\ j' = [j EXCEPT ![t] = [pc |-> IF contentkey = None THEN "lookup" ELSE "encrypt",
                                   content |-> c, key |-> contentkey, before |-> None,
                                   mode |-> mode, remote |-> remote, gone |-> FALSE]]
         /\ spoiled' = IF \/ \E s \in Tools : j[s].content = c
                          \/ contentkey # None /\ index[c] \notin {None, contentkey}
                       THEN spoiled \cup {c} ELSE spoiled
  BY DEF Run
<1>2. j[t].pc = "idle" /\ UNCHANGED <<index, store, cut, copies, cms, next, failed>>
  BY DEF Run
<1>a. contentkey \in Nat
  BY PublicationAssumption DEF None
<1>3. /\ j'[t].pc = (IF contentkey = None THEN "lookup" ELSE "encrypt")
      /\ j'[t].content = c /\ j'[t].key = contentkey
      /\ \A s \in Tools : s # t => j'[s] = j[s]
      /\ spoiled \subseteq spoiled'
  BY <1>1 DEF IInv, TypeOK
<1>b. /\ j'[t].pc # "idle" /\ ~InPlace(j'[t]) /\ j'[t].pc \notin {"write", "cms", "abort"}
      /\ Keyed(j'[t]) => j'[t].key # None
  BY <1>3 DEF InPlace, Keyed
<1>4. TypeOK'
  BY <1>1, <1>2, <1>a DEF IInv, TypeOK, Job, None
<1>5. \A s \in Tools : RunOK(s)'
  BY <1>2, <1>3, <1>b DEF IInv, RunOK
<1>6. \A d \in Contents \ spoiled' : SoundContent(d)'
  BY <1>2, <1>3 DEF IInv, SoundContent
<1>7. ASSUME NEW s \in Tools, j'[s].content \in Contents \ spoiled'
      PROVE  SoundRun(s)'
  <2>1. c \notin spoiled' => /\ \A v \in Tools : j[v].content # c
                             /\ contentkey # None /\ index[c] # None => contentkey = index[c]
    BY <1>1
  <2>2. CASE s = t
    BY <1>2, <1>3, <1>7, <1>b, <2>1, <2>2 DEF SoundRun, Keyed
  <2>3. CASE s # t
    <3>1. j'[s] = j[s] /\ SoundRun(s)
      BY <1>3, <1>7, <2>3 DEF IInv
    <3>2. \A v \in Tools : j'[v].content = j'[s].content => v = s
      BY <1>3, <1>7, <2>1, <2>3, <3>1 DEF SoundRun
    <3> QED
      BY <1>2, <3>1, <3>2 DEF SoundRun
  <2> QED
    BY <2>2, <2>3
<1>8. CutOK'
  <2> SUFFICES ASSUME NEW d \in cut, ~failed
               PROVE  \E s \in Tools : j'[s].content = d /\ Writing(j'[s])
    BY <1>2 DEF CutOK
  <2>1. PICK s \in Tools : j[s].content = d /\ Writing(j[s])
    BY DEF IInv, CutOK
  <2>2. s # t
    BY <1>2, <2>1 DEF Writing
  <2> QED
    BY <1>3, <2>1, <2>2
<1> QED
  BY <1>2, <1>4, <1>5, <1>6, <1>7, <1>8 DEF IInv, IndexedIsStored

\* getContentKey gives the run the key of the row, when there is one.
LEMMA LookupStep ==
    ASSUME IInv, NEW t \in Tools, getContentKey(t) \/ getContentKeyLost(t)
    PROVE  IInv'
<1>0. PICK c : c = j[t].content
  OBVIOUS
<1> USE <1>0
<1>1. j[t].pc = "lookup" /\ UNCHANGED <<index, store, cut, copies, cms>>
  BY DEF getContentKey, getContentKeyLost
<1>2. /\ j[t] \in Job /\ c \in Contents
      /\ c \notin spoiled => SoundRun(t) /\ SoundContent(c)
      /\ index[c] # None => store[c] # None
  BY <1>1, RunFacts
<1>3. PICK k \in Key :
         /\ j' = [j EXCEPT ![t].pc = "encrypt", ![t].key = k]
         /\ c \notin spoiled' /\ index[c] # None => k = index[c]
         /\ spoiled' = spoiled \/ spoiled' = spoiled \cup {c}
         /\ next' \in Key /\ failed' \in BOOLEAN /\ (failed => failed')
  <2>1. index[c] \in Nat /\ next \in Key /\ next + 1 \in Key /\ failed \in BOOLEAN
    BY <1>2 DEF IInv, TypeOK, Key, None
  <2>2. index[c] # None => index[c] \in Key
    BY <2>1 DEF Key
  <2>3. CASE getContentKeyLost(t)
    BY <2>1, <2>3 DEF getContentKeyLost
  <2>4. CASE getContentKey(t)
    BY <2>1, <2>2, <2>4 DEF getContentKey
  <2> QED
    BY <2>3, <2>4
<1>4. /\ j'[t] \in Job /\ j'[t].pc = "encrypt" /\ j'[t].key = k /\ j'[t].content = c
      /\ \A s \in Tools : s # t => j'[s] = j[s]
  BY <1>2, <1>3 DEF IInv, TypeOK, Job, Key
<1>5. TypeOK'
  BY <1>1, <1>2, <1>3, <1>4 DEF IInv, TypeOK
<1>6. k # None /\ ~InPlace(j'[t])
  BY <1>4 DEF Key, InPlace
<1>7. c \notin spoiled' => SoundContent(c)'
  BY <1>1, <1>2, <1>3 DEF SoundContent
<1>c. c \in cut' => failed' \/ \E s \in Tools \ {t} : j[s].content = c /\ Writing(j[s])
  BY <1>1, <1>2, <1>3, CutFacts DEF Writing
<1>q. OwnStep(t, c)
  BY <1>1, <1>2, <1>3, <1>4, <1>5, <1>6, <1>7, <1>c DEF OwnStep
<1> QED
  BY <1>2, <1>q, RunStep

\* CreateOutput and AddContent truncate a file of the run's key and write to it.
LEMMA TruncateStep ==
    ASSUME IInv, NEW t \in Tools, CreateOutput(t) \/ StoreAdd(t)
    PROVE  IInv'
<1>0. PICK c : c = j[t].content
  OBVIOUS
<1> USE <1>0
<1>1. /\ j[t].pc \in {"encrypt", "put"}
      /\ UNCHANGED <<index, copies, cms, next, spoiled, failed>>
      /\ store' = [store EXCEPT ![c] = j[t].key] /\ cut' = cut \cup {c}
  BY DEF CreateOutput, StoreAdd, Truncate
<1>2. /\ j[t] \in Job /\ c \in Contents /\ RunOK(t)
      /\ c \notin spoiled => SoundRun(t) /\ SoundContent(c)
  BY <1>1, RunFacts
<1>3. PICK pc \in {"fill", "copy"} : /\ j' = [j EXCEPT ![t].pc = pc]
                                     /\ pc = "copy" => j[t].mode = "none"
  BY DEF CreateOutput, StoreAdd
<1>4. /\ j'[t].pc = pc /\ j'[t].content = c /\ j'[t].key = j[t].key
      /\ j'[t].mode = j[t].mode
      /\ \A s \in Tools : s # t => j'[s] = j[s]
      /\ j' \in [Tools -> Job]
  BY <1>2, <1>3 DEF IInv, TypeOK, Job
<1>5. /\ j[t].key # None /\ j[t].key \in Nat
      /\ \A d \in Contents : d # c => store'[d] = store[d]
      /\ store'[c] = j[t].key
      /\ store' \in [Contents -> Nat]
  BY <1>1, <1>2 DEF RunOK, Keyed, IInv, TypeOK, Job
<1>6. TypeOK'
  BY <1>1, <1>2, <1>4, <1>5 DEF IInv, TypeOK
<1>7. c \notin spoiled => (index[c] # None => j[t].key = index[c])
  BY <1>1, <1>2 DEF SoundRun, Keyed
<1>8. c \notin spoiled' => SoundContent(c)'
  BY <1>1, <1>2, <1>5, <1>7 DEF SoundContent
<1>9. Writing(j'[t]) /\ ~InPlace(j'[t]) /\ j'[t].pc \notin {"idle", "write", "cms", "abort"}
  BY <1>3, <1>4 DEF Writing, InPlace
<1>10. /\ j'[t].pc # "idle" /\ j'[t].content = c
       /\ Keyed(j'[t]) => j'[t].key # None
       /\ store'[c] # None
  BY <1>4, <1>5, <1>9
<1>11. c \notin spoiled' =>
          /\ Keyed(j'[t]) /\ index'[c] # None => j'[t].key = index'[c]
          /\ InPlace(j'[t]) => store'[c] = j'[t].key
          /\ j'[t].pc = "write" /\ j'[t].before # None => index'[c] # None
          /\ j'[t].pc \in {"cms", "abort"} => index'[c] # None
  BY <1>1, <1>4, <1>7, <1>9
<1>12. /\ spoiled \subseteq spoiled'
       /\ \A s \in Tools : s # t => j'[s] = j[s]
       /\ \A d \in Contents : d # c => /\ index'[d] = index[d] /\ store'[d] = store[d]
                                       /\ copies'[d] = copies[d]
                                       /\ (d \in cms' <=> d \in cms)
  BY <1>1, <1>4, <1>5
<1>q. OwnStep(t, c)
  BY <1>1, <1>2, <1>6, <1>8, <1>9, <1>10, <1>11, <1>12 DEF OwnStep
<1> QED
  BY <1>2, <1>q, RunStep

\* Both forms of ProcessEncryption store, if they do, what the key of the run encrypts.
LEMMA EncryptStep ==
    ASSUME IInv, NEW t \in Tools, ProcessEncryption(t) \/ ProcessEncryptionRemote(t)
    PROVE  IInv'
<1>0. PICK c : c = j[t].content
  OBVIOUS
<1> USE <1>0
<1>1. j[t].pc \in {"encrypt", "fill"} /\ UNCHANGED <<index, copies, cms, next, spoiled, failed>>
  BY DEF ProcessEncryption, ProcessEncryptionRemote
<1>2. /\ j[t] \in Job /\ c \in Contents /\ RunOK(t)
      /\ c \notin spoiled => SoundRun(t) /\ SoundContent(c)
      /\ index[c] # None => store[c] # None
  BY <1>1, RunFacts
<1>3. /\ \/ /\ store' = store /\ cut' = cut /\ j[t].pc = "encrypt"
         \/ Filled(t, c, j[t].key)
      /\ j' = [j EXCEPT ![t] = NoJob] \/ j' = [j EXCEPT ![t].pc = "put"]
      /\ j' # [j EXCEPT ![t] = NoJob] /\ j[t].mode # "none" =>
            Filled(t, c, j[t].key)
  BY DEF ProcessEncryption, ProcessEncryptionRemote, Stop
<1>a. /\ cut' \subseteq cut
      /\ store' = store \/ store' = [store EXCEPT ![c] = j[t].key]
      /\ j' # [j EXCEPT ![t] = NoJob] /\ j[t].mode # "none" => store' = [store EXCEPT ![c] = j[t].key]
  BY <1>3, FilledCut
<1>b. c \in cut' => failed' \/ \E s \in Tools \ {t} : j[s].content = c /\ Writing(j[s])
  BY <1>1, <1>3, FilledCut, CutFacts DEF Writing
<1>4. /\ j'[t] = NoJob \/ /\ j'[t] \in Job /\ j'[t].pc = "put" /\ j'[t].content = c
                          /\ j'[t].key = j[t].key /\ j'[t].mode = j[t].mode
      /\ \A s \in Tools : s # t => j'[s] = j[s]
      /\ j' \in [Tools -> Job]
  BY <1>2, <1>3, NoJobType DEF IInv, TypeOK, Job
<1>5. /\ j[t].key # None /\ j[t].key \in Nat
      /\ \A d \in Contents : d # c => store'[d] = store[d]
      /\ store'[c] \in {store[c], j[t].key}
      /\ j'[t] # NoJob /\ j[t].mode # "none" => store'[c] = j[t].key
      /\ store' \in [Contents -> Nat]
  BY <1>1, <1>2, <1>4, <1>a DEF RunOK, Keyed, IInv, TypeOK, Job
<1>6. TypeOK'
  BY <1>1, <1>4, <1>5, <1>a DEF IInv, TypeOK
<1>7. c \notin spoiled => (index[c] # None => j[t].key = index[c])
  BY <1>1, <1>2 DEF SoundRun, Keyed
<1>8. c \notin spoiled' => SoundContent(c)'
  BY <1>1, <1>2, <1>5, <1>7 DEF SoundContent
<1>9. InPlace(j'[t]) => store'[c] = j[t].key
  BY <1>4, <1>5, NoJobType DEF InPlace
<1>10. /\ j'[t] = NoJob \/ (j'[t].pc # "idle" /\ j'[t].content = c)
       /\ Keyed(j'[t]) => j'[t].key # None
       /\ InPlace(j'[t]) => store'[c] # None
       /\ store[c] # None => store'[c] # None
       /\ index'[c] # None => store'[c] # None
  BY <1>1, <1>2, <1>4, <1>5, <1>9, NoJobType
<1>11. c \notin spoiled' /\ j'[t] # NoJob =>
          /\ Keyed(j'[t]) /\ index'[c] # None => j'[t].key = index'[c]
          /\ InPlace(j'[t]) => store'[c] = j'[t].key
          /\ j'[t].pc = "write" /\ j'[t].before # None => index'[c] # None
          /\ j'[t].pc \in {"cms", "abort"} => index'[c] # None
  BY <1>1, <1>4, <1>7, <1>9
<1>12. /\ spoiled \subseteq spoiled'
       /\ \A s \in Tools : s # t => j'[s] = j[s]
       /\ \A d \in Contents : d # c => /\ index'[d] = index[d] /\ store'[d] = store[d]
                                       /\ copies'[d] = copies[d]
                                       /\ (d \in cms' <=> d \in cms)
  BY <1>1, <1>4, <1>5
<1>q. OwnStep(t, c)
  BY <1>1, <1>2, <1>6, <1>8, <1>10, <1>11, <1>12, <1>a, <1>b DEF OwnStep
<1> QED
  BY <1>2, <1>q, RunStep

\* AddContent puts the file in place and looks the row up.
LEMMA AddContentStep ==
    ASSUME IInv, NEW t \in Tools, AddContent(t)
    PROVE  IInv'
<1>0. PICK c : c = j[t].content
  OBVIOUS
<1> USE <1>0
<1>1. j[t].pc \in {"put", "copy"} /\ UNCHANGED <<index, copies, cms, next, spoiled>>
  BY DEF AddContent
<1>2. /\ j[t] \in Job /\ c \in Contents /\ RunOK(t)
      /\ c \notin spoiled => SoundRun(t) /\ SoundContent(c)
      /\ index[c] # None => store[c] # None
  BY <1>1, RunFacts
<1>3. PICK found \in {index[c], None} :
         /\ j' = [j EXCEPT ![t].pc = "write", ![t].before = found]
         /\ failed' = (failed \/ found # index[c])
  BY DEF AddContent
<1>b. found \in Nat
  BY <1>2 DEF IInv, TypeOK, None
<1>4. /\ j'[t].pc = "write" /\ j'[t].content = c
      /\ j'[t].key = j[t].key /\ j'[t].before = found
      /\ \A s \in Tools : s # t => j'[s] = j[s]
      /\ j' \in [Tools -> Job]
  BY <1>2, <1>3, <1>b DEF IInv, TypeOK, Job
<1>a. failed' \in BOOLEAN /\ (failed => failed')
  BY <1>3
<1>c. \/ Filled(t, c, j[t].key) /\ j[t].mode = "none"
      \/ store' = store /\ cut' = cut /\ j[t].pc = "put" /\ j[t].mode # "none"
  BY DEF AddContent
<1>d. /\ cut' \subseteq cut
      /\ \/ store' = [store EXCEPT ![c] = j[t].key] /\ j[t].mode = "none"
         \/ store' = store /\ j[t].pc = "put" /\ j[t].mode # "none"
  BY <1>c, FilledCut
<1>e. c \in cut' => failed' \/ \E s \in Tools \ {t} : j[s].content = c /\ Writing(j[s])
  BY <1>1, <1>a, <1>c, FilledCut, CutFacts DEF Writing
<1>5. /\ j[t].key # None /\ j[t].key \in Nat
      /\ \A d \in Contents : d # c => store'[d] = store[d]
      /\ store'[c] = IF j[t].mode = "none" THEN j[t].key ELSE store[c]
      /\ store' \in [Contents -> Nat]
      /\ store'[c] # None
  BY <1>1, <1>2, <1>d DEF RunOK, Keyed, InPlace, IInv, TypeOK, Job
<1>6. TypeOK'
  BY <1>1, <1>4, <1>5, <1>a, <1>d DEF IInv, TypeOK
<1>7. c \notin spoiled => /\ index[c] # None => j[t].key = index[c]
                          /\ store'[c] = j[t].key
  BY <1>1, <1>2, <1>5, <1>d DEF SoundRun, Keyed, InPlace
<1>8. c \notin spoiled' => SoundContent(c)'
  BY <1>1, <1>2, <1>5, <1>7 DEF SoundContent
<1>q. OwnStep(t, c)
  BY <1>1, <1>2, <1>3, <1>4, <1>5, <1>6, <1>7, <1>8, <1>a, <1>d, <1>e
  DEF OwnStep
<1> QED
  BY <1>2, <1>q, RunStep

\* The row takes the key of the file that is in place, or keeps its own.
LEMMA RowStep ==
    ASSUME IInv, NEW t \in Tools, AddRow(t) \/ UpdateRow(t)
    PROVE  IInv'
<1>0. PICK c : c = j[t].content
  OBVIOUS
<1> USE <1>0
<1>1. j[t].pc = "write" /\ UNCHANGED <<store, cut, copies, cms, next, spoiled, failed>>
  BY DEF AddRow, UpdateRow
<1>2. /\ j[t] \in Job /\ c \in Contents /\ RunOK(t)
      /\ c \notin spoiled => SoundRun(t) /\ SoundContent(c)
  BY <1>1, RunFacts
<1> DEFINE cmsJob == [NoJob EXCEPT !.pc = "cms", !.content = c]
<1>3. /\ index' = index \/ index' = [index EXCEPT ![c] = j[t].key]
      /\ j' = [j EXCEPT ![t] = NoJob] \/ j' = [j EXCEPT ![t] = cmsJob]
      /\ \/ j' = [j EXCEPT ![t] = NoJob]
         \/ index' = [index EXCEPT ![c] = j[t].key]
         \/ j[t].before # None /\ index' = index
  BY DEF AddRow, UpdateRow, Notified, Stop
<1>d. cmsJob \in Job /\ cmsJob.pc = "cms" /\ cmsJob.content = c
  BY <1>2, NoJobType DEF Job, NoJob
<1> HIDE DEF cmsJob
<1>4. /\ j'[t] = NoJob \/ (j'[t].pc = "cms" /\ j'[t].content = c)
      /\ \A s \in Tools : s # t => j'[s] = j[s]
      /\ j' \in [Tools -> Job]
  BY <1>2, <1>3, <1>d, NoJobType DEF IInv, TypeOK
<1>5. /\ j[t].key # None /\ j[t].key \in Nat /\ store[c] # None
  BY <1>1, <1>2 DEF RunOK, Keyed, InPlace, Job
<1>a. /\ \A d \in Contents : d # c => index'[d] = index[d]
      /\ index'[c] \in {index[c], j[t].key}
      /\ index' \in [Contents -> Nat]
  BY <1>2, <1>3, <1>5 DEF IInv, TypeOK
<1>b. j'[t] = NoJob \/ index'[c] = j[t].key \/ (j[t].before # None /\ index'[c] = index[c])
  BY <1>2, <1>3 DEF IInv, TypeOK
<1>6. TypeOK'
  BY <1>1, <1>4, <1>a DEF IInv, TypeOK
<1>7. c \notin spoiled => /\ index[c] # None => j[t].key = index[c]
                          /\ store[c] = j[t].key
                          /\ j[t].before # None => index[c] # None
  BY <1>1, <1>2 DEF SoundRun, Keyed, InPlace
<1>8. c \notin spoiled' => SoundContent(c)'
  BY <1>1, <1>2, <1>5, <1>7, <1>a DEF SoundContent
<1>9. ~Keyed(j'[t]) /\ ~InPlace(j'[t])
  BY <1>4, NoJobType DEF Keyed, InPlace
<1>10. c \notin spoiled' /\ j'[t] # NoJob => index'[c] # None /\ j'[t].pc = "cms"
  BY <1>1, <1>4, <1>5, <1>7, <1>b
<1>12. /\ spoiled \subseteq spoiled'
       /\ \A s \in Tools : s # t => j'[s] = j[s]
       /\ \A d \in Contents : d # c => /\ index'[d] = index[d] /\ store'[d] = store[d]
                                       /\ copies'[d] = copies[d]
                                       /\ (d \in cms' <=> d \in cms)
  BY <1>1, <1>4, <1>a
<1>13. /\ j'[t] = NoJob \/ (j'[t].pc # "idle" /\ j'[t].content = c)
       /\ store[c] # None => store'[c] # None
       /\ index'[c] # None => store'[c] # None
       /\ Keyed(j'[t]) => j'[t].key # None
       /\ InPlace(j'[t]) => store'[c] # None
  BY <1>1, <1>4, <1>5, <1>9
<1>14. c \notin spoiled' /\ j'[t] # NoJob =>
          /\ Keyed(j'[t]) /\ index'[c] # None => j'[t].key = index'[c]
          /\ InPlace(j'[t]) => store'[c] = j'[t].key
          /\ j'[t].pc = "write" /\ j'[t].before # None => index'[c] # None
          /\ j'[t].pc \in {"cms", "abort"} => index'[c] # None
  BY <1>9, <1>10
<1>e. c \in cut' => failed' \/ \E s \in Tools \ {t} : j[s].content = c /\ Writing(j[s])
  BY <1>1, CutFacts DEF Writing
<1>q. OwnStep(t, c)
  BY <1>1, <1>2, <1>e, <1>6, <1>8, <1>12, <1>13, <1>14 DEF OwnStep
<1> QED
  BY <1>2, <1>q, RunStep

\* NotifyTimeout only marks the run.
LEMMA TimeoutStep ==
    ASSUME IInv, NEW t \in Tools, NotifyTimeout(t)
    PROVE  IInv'
<1>0. PICK c : c = j[t].content
  OBVIOUS
<1> USE <1>0
<1>1. /\ j[t].pc \in {"put", "copy", "write"}
      /\ UNCHANGED <<index, store, cut, copies, cms, next, spoiled>> /\ failed' = TRUE
      /\ j' = [j EXCEPT ![t].gone = TRUE]
  BY DEF NotifyTimeout
<1>2. /\ j[t] \in Job /\ c \in Contents /\ RunOK(t)
      /\ c \notin spoiled => SoundRun(t) /\ SoundContent(c)
      /\ index[c] # None => store[c] # None
  BY <1>1, RunFacts
<1>3. /\ j'[t].pc = j[t].pc /\ j'[t].content = c /\ j'[t].key = j[t].key
      /\ j'[t].before = j[t].before /\ j'[t].mode = j[t].mode
      /\ \A s \in Tools : s # t => j'[s] = j[s]
      /\ j' \in [Tools -> Job]
  BY <1>1, <1>2 DEF IInv, TypeOK, Job
<1>4. (Keyed(j'[t]) <=> Keyed(j[t])) /\ (InPlace(j'[t]) <=> InPlace(j[t]))
  BY <1>3 DEF Keyed, InPlace
<1>5. TypeOK'
  BY <1>1, <1>3 DEF IInv, TypeOK
<1>6. c \notin spoiled' => SoundContent(c)'
  BY <1>1, <1>2 DEF SoundContent
<1>7. /\ Keyed(j'[t]) => j'[t].key # None
      /\ InPlace(j'[t]) => store'[c] # None
  BY <1>1, <1>2, <1>3, <1>4 DEF RunOK
<1>8. c \notin spoiled' =>
          /\ Keyed(j'[t]) /\ index'[c] # None => j'[t].key = index'[c]
          /\ InPlace(j'[t]) => store'[c] = j'[t].key
          /\ j'[t].pc = "write" /\ j'[t].before # None => index'[c] # None
          /\ j'[t].pc \notin {"cms", "abort"}
  BY <1>1, <1>2, <1>3, <1>4 DEF SoundRun
<1>q. OwnStep(t, c)
  BY <1>1, <1>2, <1>3, <1>5, <1>6, <1>7, <1>8 DEF OwnStep
<1> QED
  BY <1>2, <1>q, RunStep

\* NotifyCMS tells the CMS of a content that has a row; AbortNotification removes the row
\* and spoils the content.
LEMMA CmsStep ==
    ASSUME IInv, NEW t \in Tools,
           NotifyCMS(t) \/ NotifyCMSFails(t) \/ AbortNotification(t) \/ Exit(t)
    PROVE  IInv'
<1>0. PICK c : c = j[t].content
  OBVIOUS
<1> USE <1>0
<1>1. /\ j[t].pc # "idle" /\ UNCHANGED <<store, cut, copies, next>>
      /\ j' = [j EXCEPT ![t] = NoJob] \/ j' = [j EXCEPT ![t].pc = "abort"]
      /\ cms' = cms \/ (j[t].pc = "cms" /\ cms' = cms \cup {c})
      /\ \/ index' = index /\ spoiled' = spoiled
         \/ index' = [index EXCEPT ![c] = None] /\ spoiled' = spoiled \cup {c}
      /\ j' # [j EXCEPT ![t] = NoJob] => j[t].pc = "cms" /\ index' = index
  BY DEF NotifyCMS, NotifyCMSFails, AbortNotification, Exit, Stop
<1>2. /\ j[t] \in Job /\ c \in Contents /\ RunOK(t)
      /\ c \notin spoiled => SoundRun(t) /\ SoundContent(c)
      /\ index[c] # None => store[c] # None
  BY <1>1, RunFacts
<1>3. /\ failed' \in BOOLEAN /\ (failed => failed')
      /\ failed' \/ ~Writing(j[t])
  BY DEF NotifyCMS, NotifyCMSFails, AbortNotification, Exit, IInv, TypeOK, Writing
<1>4. /\ j'[t] = NoJob \/ (j'[t].pc = "abort" /\ j'[t].content = c /\ j[t].pc = "cms"
                           /\ index' = index)
      /\ \A s \in Tools : s # t => j'[s] = j[s]
      /\ j' \in [Tools -> Job]
  BY <1>1, <1>2, NoJobType DEF IInv, TypeOK, Job
<1>5. /\ index' \in [Contents -> Nat] /\ spoiled \subseteq spoiled' /\ spoiled' \subseteq Contents
      /\ \A d \in Contents : d # c => index'[d] = index[d]
      /\ index'[c] \in {index[c], None}
      /\ c \notin spoiled' => index' = index
  BY <1>1, <1>2 DEF IInv, TypeOK, None
<1>6. TypeOK'
  BY <1>1, <1>2, <1>3, <1>4, <1>5 DEF IInv, TypeOK
<1>7. c \notin spoiled /\ j[t].pc = "cms" => index[c] # None
  BY <1>2 DEF SoundRun
<1>8. c \notin spoiled' => SoundContent(c)'
  BY <1>1, <1>2, <1>5, <1>7 DEF SoundContent
<1>9. ~Keyed(j'[t]) /\ ~InPlace(j'[t])
  BY <1>4, NoJobType DEF Keyed, InPlace
<1>10. c \notin spoiled' /\ j'[t] # NoJob => index'[c] # None /\ j'[t].pc = "abort"
  BY <1>4, <1>5, <1>7
<1>11. \A d \in Contents : d # c => (d \in cms' <=> d \in cms)
  BY <1>1
<1>12. /\ spoiled \subseteq spoiled'
       /\ \A s \in Tools : s # t => j'[s] = j[s]
       /\ \A d \in Contents : d # c => /\ index'[d] = index[d] /\ store'[d] = store[d]
                                       /\ copies'[d] = copies[d]
                                       /\ (d \in cms' <=> d \in cms)
  BY <1>1, <1>4, <1>5, <1>11
<1>13. /\ j'[t] = NoJob \/ (j'[t].pc # "idle" /\ j'[t].content = c)
       /\ store[c] # None => store'[c] # None
       /\ index'[c] # None => store'[c] # None
       /\ Keyed(j'[t]) => j'[t].key # None
       /\ InPlace(j'[t]) => store'[c] # None
  BY <1>1, <1>2, <1>4, <1>5, <1>9
<1>14. c \notin spoiled' /\ j'[t] # NoJob =>
          /\ Keyed(j'[t]) /\ index'[c] # None => j'[t].key = index'[c]
          /\ InPlace(j'[t]) => store'[c] = j'[t].key
          /\ j'[t].pc = "write" /\ j'[t].before # None => index'[c] # None
          /\ j'[t].pc \in {"cms", "abort"} => index'[c] # None
  BY <1>9, <1>10
<1>e. c \in cut' => failed' \/ \E s \in Tools \ {t} : j[s].content = c /\ Writing(j[s])
  BY <1>1, <1>3, CutFacts
<1>q. OwnStep(t, c)
  BY <1>1, <1>2, <1>3, <1>e, <1>6, <1>8, <1>12, <1>13, <1>14 DEF OwnStep
<1> QED
  BY <1>2, <1>q, RunStep

\* GetContentFile copies a file whose key, on a sound content, is the key of the row.
LEMMA DownloadStep ==
    ASSUME IInv, NEW c \in Contents, GetContentFile(c)
    PROVE  IInv'
<1>1. /\ UNCHANGED <<index, store, cut, cms, j, next, spoiled, failed>>
      /\ index[c] # None /\ store[c] # None
      /\ copies' = [copies EXCEPT ![c] = @ \cup {store[c]}]
  BY DEF GetContentFile
<1>2. TypeOK'
  BY <1>1 DEF IInv, TypeOK, Key
<1>3. \A d \in Contents \ spoiled' : SoundContent(d)'
  BY <1>1 DEF IInv, TypeOK, SoundContent
<1> QED
  BY <1>1, <1>2, <1>3 DEF IInv, IndexedIsStored, CutOK, RunOK, SoundRun

\* Every step keeps the invariant.
LEMMA NextIInv == IInv /\ [Next]_vars => IInv'
<1> SUFFICES ASSUME IInv, [Next]_vars PROVE IInv'
  OBVIOUS
<1>1. CASE Next
  BY <1>1, StartStep, LookupStep, TruncateStep, EncryptStep, AddContentStep, RowStep, TimeoutStep, CmsStep,
     DownloadStep DEF Next, Proceed
<1>2. CASE UNCHANGED vars
  BY <1>2 DEF vars, IInv, TypeOK, IndexedIsStored, CutOK, RunOK, SoundContent,
         SoundRun
<1> QED
  BY <1>1, <1>2

-----------------------------------------------------------------------------
(* Theorems *)

\* The inductive invariant holds in every reachable state.
THEOREM Invariance == Spec => []IInv
BY InitIInv, NextIInv, PTL DEF Spec

\* The content table, the storage and the runs are always well formed.
THEOREM TypeCorrect == Spec => []TypeOK
<1>1. IInv => TypeOK
  BY DEF IInv
<1> QED
  BY <1>1, Invariance, PTL

\* A content that AddContent has indexed has a file, whatever runs overlap, fail or are
\* aborted.
THEOREM IndexedContentStored == Spec => []IndexedIsStored
<1>1. IInv => IndexedIsStored
  BY DEF IInv
<1> QED
  BY <1>1, Invariance, PTL

\* The key of the content table opens the stored file, unless a key lookup was lost, another
\* key was imposed, runs overlapped or a run was aborted; and the file is whole unless a run
\* is writing it or something failed.
THEOREM StoredFileOpens == Spec => []KeysAgree
<1>1. IInv => KeysAgree
  BY DEF IInv, CutOK, SoundContent, KeysAgree
<1> QED
  BY <1>1, Invariance, PTL

\* The key of the content table opens every copy a reader downloaded, under the same
\* conditions: getContentKey keeps one key for the life of a publication.
THEOREM DownloadedCopiesOpen == Spec => []CopiesStayReadable
<1>1. IInv => CopiesStayReadable
  BY DEF IInv, SoundContent, CopiesStayReadable
<1> QED
  BY <1>1, Invariance, PTL

\* The CMS knows only publications that can be licensed, unless one was aborted.
THEOREM CmsKnowsLicensable == Spec => []CmsContentLicensable
<1>1. IInv => CmsContentLicensable
  BY DEF IInv, TypeOK, SoundContent, CmsContentLicensable
<1> QED
  BY <1>1, Invariance, PTL
=============================================================================
