-------------------------- MODULE ModelRegistryProofs --------------------------
(***************************************************************************)
(* What the registry hands out and what it keeps, for any number of        *)
(* processes, artifacts and versions.  Neither property is inductive.  A   *)
(* load is right because every card on file was returned by the same step  *)
(* that filled it (CardsAreReturned), so that what a reader holds between   *)
(* its two reads was returned (ReadersKnow).  A version is kept because a   *)
(* number two calls did not share has one owner from _next_version to the   *)
(* return (OneOwner, Fresh, Written) and no owner after it (Kept).          *)
(*                                                                         *)
(* The commands of the research desk work on that registry: its invariant  *)
(* is theirs too, because they call it with what it takes (Callers), and    *)
(* the report on file is audited because at each place a command has logged *)
(* exactly what it has to (Trail).                                          *)
(*                                                                         *)
(* A mechanism study keeps what it judges by in git: its gate, too, hands   *)
(* out what is on file only while nobody writes (Read, Agreed).             *)
(***************************************************************************)
EXTENDS ResearchDesk, MechanismStudy, FiniteOrder, SequenceTheorems

Writing == {"mkdir", "openModel", "fillModel", "openCard", "fillCard"}
Reading == {"card", "model"}

\* A writer has a job from _next_version to the return, and its directory from
\* mkdir on.
WritersKnow ==
    \A w \in Writers :
        /\ pc[w] \in Writing <=> job[w] # None
        /\ pc[w] \in Writing \ {"mkdir"} => job[w].version \in dir

\* A reader has the version it was started with and, after its first read, a card
\* that register() returned.
ReadersKnow ==
    \A r \in Readers :
        /\ pc[r] \in Reading => seen[r].version \in Versions
        /\ pc[r] = "model" => seen[r].card \in returned

\* A card is on file whole only with the return of its registration.
CardsAreReturned ==
    \A v \in Versions : card[v] \in returned \cup {None, Torn}

Owns(w, v) == job[w] # None /\ job[w].version = v

\* Unshared, a version has one owner, whose directory does not exist before mkdir
\* and whose model is on file once it was filled.
OneOwner ==
    \A v \in Versions \ shared : \A w \in Writers : Owns(w, v) =>
        \A u \in Writers : Owns(u, v) => u = w

Fresh ==
    \A v \in Versions \ shared : \A w \in Writers :
        Owns(w, v) /\ pc[w] = "mkdir" => v \notin dir

Written ==
    \A v \in Versions \ shared : \A w \in Writers :
        Owns(w, v) /\ pc[w] \in {"openCard", "fillCard"}
            => model[v] = job[w].fingerprint

\* A version that was returned has its directory and, unshared, its files, and
\* nobody is at them.
Kept ==
    \A c \in returned :
        /\ c.version \in dir
        /\ c.version \notin shared =>
              /\ card[c.version] = c /\ model[c.version] = c.fingerprint
              /\ \A w \in Writers : ~ Owns(w, c.version)

IInv ==
    /\ TypeOK
    /\ WritersKnow /\ ReadersKnow /\ CardsAreReturned
    /\ OneOwner /\ Fresh /\ Written /\ Kept
    /\ LoadedIsOneRegistration

------------------------------------------------------------------------------
(* The numbers of versions.                                                *)

LEMMA VersionFacts == Versions \subseteq Int /\ IsFiniteSet(Versions)
BY RegistryAssumption, FS_Interval DEF Versions

\* _next_version is above every directory that exists.
LEMMA NextIsFree ==
    ASSUME dir \subseteq Versions
    PROVE  /\ dir # {} => Max(dir) \in dir
           /\ NextVersion \in Int /\ NextVersion \notin dir
<1>1. CASE dir = {}
  BY <1>1 DEF NextVersion
<1>2. CASE dir # {}
  <2>1. dir \in SUBSET Int /\ IsFiniteSet(dir)
    BY VersionFacts, FS_Subset
  <2>2. \E x \in dir : \A y \in dir : x >= y
    BY <2>1, <1>2, GreatestElement
  <2>3. Max(dir) \in dir /\ \A y \in dir : Max(dir) >= y
    BY <2>2 DEF Max
  <2>4. NextVersion = Max(dir) + 1 /\ Max(dir) \in Int
    BY <1>2, <2>1, <2>3 DEF NextVersion
  <2>5. NextVersion \notin dir
    <3> HIDE DEF Max
    <3>1. \A y \in dir : y \in Int /\ Max(dir) >= y
      BY <2>1, <2>3
    <3>2. \A n, y \in Int : n >= y => n + 1 # y
      OBVIOUS
    <3> QED BY <2>4, <3>1, <3>2
  <2> QED BY <2>3, <2>4, <2>5
<1> QED BY <1>1, <1>2

------------------------------------------------------------------------------
(* register().                                                             *)

LEMMA RegisterKeeps ==
    ASSUME IInv, NEW w \in Writers, NEW a \in Artifacts, NEW t \in Tags, Register(w, a, t)
    PROVE  IInv'
<1> DEFINE v == NextVersion
           c == [version |-> v, fingerprint |-> a, tags |-> t]
<1>1. /\ v \in Versions /\ v \notin dir /\ c \in Cards /\ c # None
      /\ c.version = v /\ c.fingerprint = a
  BY NextIsFree, FilesAreTold DEF IInv, TypeOK, Register, Cards
<1>2. /\ pc[w] = "idle" /\ pc' = [pc EXCEPT ![w] = "mkdir"]
      /\ job' = [job EXCEPT ![w] = c]
      /\ shared' = shared \cup {x \in {v} : \E u \in Writers : Owns(u, x)}
      /\ UNCHANGED <<dir, model, card, returned, seen, answer>>
  BY DEF Register, Goto, disk, Owns
<1> HIDE DEF v, c
<1>3. TypeOK'
  BY <1>1, <1>2 DEF IInv, TypeOK
<1>4. WritersKnow'
  BY <1>1, <1>2 DEF IInv, TypeOK, WritersKnow, Writing
<1>5. ReadersKnow' /\ CardsAreReturned' /\ LoadedIsOneRegistration'
  BY <1>1, <1>2 DEF IInv, TypeOK, ReadersKnow, Reading, CardsAreReturned, LoadedIsOneRegistration, Loaded
<1>6. OneOwner'
  BY <1>1, <1>2 DEF IInv, TypeOK, OneOwner, Owns
<1>7. Fresh' /\ Written'
  BY <1>1, <1>2 DEF IInv, TypeOK, Fresh, Written, Owns
<1>8. Kept'
  BY <1>1, <1>2 DEF IInv, TypeOK, Kept, Owns
<1> QED BY <1>3, <1>4, <1>5, <1>6, <1>7, <1>8 DEF IInv

LEMMA MakeDirKeeps ==
    ASSUME IInv, NEW w \in Writers, MakeDir(w)
    PROVE  IInv'
<1>1. job[w] \in Cards /\ job[w] # None /\ job[w].version \in Versions
  BY FilesAreTold DEF IInv, TypeOK, MakeDir, WritersKnow, Writing, Cards
<1>2. /\ pc[w] = "mkdir" /\ pc' = [pc EXCEPT ![w] = "openModel"]
      /\ dir' = dir \cup {job[w].version}
      /\ UNCHANGED <<model, card, job, returned, shared, seen, answer>>
  BY DEF MakeDir, Goto, past
<1>3. TypeOK'
  BY <1>1, <1>2 DEF IInv, TypeOK
<1>4. WritersKnow'
  BY <1>1, <1>2 DEF IInv, TypeOK, WritersKnow, Writing
<1>5. ReadersKnow' /\ CardsAreReturned' /\ LoadedIsOneRegistration'
  BY <1>1, <1>2 DEF IInv, TypeOK, ReadersKnow, Reading, CardsAreReturned, LoadedIsOneRegistration, Loaded
<1>6. OneOwner' /\ Fresh' /\ Written'
  BY <1>1, <1>2 DEF IInv, TypeOK, OneOwner, Fresh, Written, Owns
<1>7. Kept'
  BY <1>1, <1>2 DEF IInv, TypeOK, Kept, Owns
<1> QED BY <1>3, <1>4, <1>5, <1>6, <1>7 DEF IInv

\* What a writer past mkdir works on.
LEMMA JobFacts ==
    ASSUME IInv, NEW w \in Writers, pc[w] \in Writing
    PROVE  /\ job[w] \in Cards /\ job[w] # None /\ job[w] # Torn
           /\ job[w].version \in Versions /\ job[w].fingerprint \in Artifacts
           /\ Owns(w, job[w].version)
BY FilesAreTold DEF IInv, TypeOK, WritersKnow, Cards, Owns

\* Each write is at the files of the version alone: of the returned cards, an
\* unshared one is of another version.
LEMMA WritesElsewhere ==
    ASSUME IInv, NEW w \in Writers, pc[w] \in Writing,
           NEW c \in returned, c.version \notin shared
    PROVE  c.version # job[w].version
BY JobFacts DEF IInv, Kept

LEMMA OpenModelKeeps ==
    ASSUME IInv, NEW w \in Writers, OpenModel(w)
    PROVE  IInv'
<1>1. /\ pc[w] = "openModel" /\ pc' = [pc EXCEPT ![w] = "fillModel"]
      /\ model' = [model EXCEPT ![job[w].version] = Torn]
      /\ UNCHANGED <<dir, card, job, returned, shared, seen, answer>>
  BY DEF OpenModel, Goto, past
<1>2. pc[w] \in Writing /\ job[w].version \in Versions
  BY <1>1, JobFacts DEF Writing
<1>3. job[w].version \in dir
  BY <1>1, <1>2 DEF IInv, WritersKnow
<1>4. TypeOK'
  BY <1>1, <1>2, <1>3 DEF IInv, TypeOK
<1>5. WritersKnow' /\ ReadersKnow' /\ CardsAreReturned' /\ LoadedIsOneRegistration'
  BY <1>1 DEF IInv, TypeOK, WritersKnow, Writing, ReadersKnow, Reading,
              CardsAreReturned, LoadedIsOneRegistration, Loaded
<1>6. OneOwner' /\ Fresh'
  BY <1>1 DEF IInv, TypeOK, OneOwner, Fresh, Owns
<1>7. Written'
  BY <1>1, <1>2, JobFacts DEF IInv, TypeOK, OneOwner, Written, Owns
<1>8. Kept'
  BY <1>1, <1>2, WritesElsewhere DEF IInv, TypeOK, Kept, Owns
<1> QED BY <1>4, <1>5, <1>6, <1>7, <1>8 DEF IInv

LEMMA FillModelKeeps ==
    ASSUME IInv, NEW w \in Writers, FillModel(w)
    PROVE  IInv'
<1>1. /\ pc[w] = "fillModel" /\ pc' = [pc EXCEPT ![w] = "openCard"]
      /\ model' = [model EXCEPT ![job[w].version] = job[w].fingerprint]
      /\ UNCHANGED <<dir, card, job, returned, shared, seen, answer>>
  BY DEF FillModel, Goto, past
<1>2. /\ pc[w] \in Writing /\ job[w].version \in Versions
      /\ job[w].fingerprint \in Artifacts
  BY <1>1, JobFacts DEF Writing
<1>3. job[w].version \in dir
  BY <1>1, <1>2 DEF IInv, WritersKnow
<1>4. TypeOK'
  BY <1>1, <1>2, <1>3 DEF IInv, TypeOK
<1>5. WritersKnow' /\ ReadersKnow' /\ CardsAreReturned' /\ LoadedIsOneRegistration'
  BY <1>1 DEF IInv, TypeOK, WritersKnow, Writing, ReadersKnow, Reading,
              CardsAreReturned, LoadedIsOneRegistration, Loaded
<1>6. OneOwner' /\ Fresh'
  BY <1>1 DEF IInv, TypeOK, OneOwner, Fresh, Owns
<1>7. Written'
  BY <1>1, <1>2, JobFacts DEF IInv, TypeOK, OneOwner, Written, Owns
<1>8. Kept'
  BY <1>1, <1>2, WritesElsewhere DEF IInv, TypeOK, Kept, Owns
<1> QED BY <1>4, <1>5, <1>6, <1>7, <1>8 DEF IInv

LEMMA OpenCardKeeps ==
    ASSUME IInv, NEW w \in Writers, OpenCard(w)
    PROVE  IInv'
<1>1. /\ pc[w] = "openCard" /\ pc' = [pc EXCEPT ![w] = "fillCard"]
      /\ card' = [card EXCEPT ![job[w].version] = Torn]
      /\ UNCHANGED <<dir, model, job, returned, shared, seen, answer>>
  BY DEF OpenCard, Goto, past
<1>2. pc[w] \in Writing /\ job[w].version \in Versions
  BY <1>1, JobFacts DEF Writing
<1>3. job[w].version \in dir
  BY <1>1, <1>2 DEF IInv, WritersKnow
<1>4. TypeOK'
  BY <1>1, <1>2, <1>3 DEF IInv, TypeOK
<1>5. WritersKnow' /\ ReadersKnow' /\ CardsAreReturned' /\ LoadedIsOneRegistration'
  BY <1>1, <1>2 DEF IInv, TypeOK, WritersKnow, Writing, ReadersKnow, Reading,
              CardsAreReturned, LoadedIsOneRegistration, Loaded
<1>6. OneOwner' /\ Fresh' /\ Written'
  BY <1>1 DEF IInv, TypeOK, OneOwner, Fresh, Written, Owns
<1>7. Kept'
  BY <1>1, <1>2, WritesElsewhere DEF IInv, TypeOK, Kept, Owns
<1> QED BY <1>4, <1>5, <1>6, <1>7 DEF IInv

LEMMA FillCardKeeps ==
    ASSUME IInv, NEW w \in Writers, FillCard(w)
    PROVE  IInv'
<1> DEFINE c == job[w]
           v == c.version
<1>1. /\ pc[w] = "fillCard" /\ pc' = [pc EXCEPT ![w] = "idle"]
      /\ card' = [card EXCEPT ![v] = c] /\ returned' = returned \cup {c}
      /\ job' = [job EXCEPT ![w] = None]
      /\ UNCHANGED <<dir, model, shared, seen, answer>>
  BY DEF FillCard, Goto
<1>2. pc[w] \in Writing /\ c \in Cards /\ v \in Versions /\ Owns(w, v)
  BY <1>1, JobFacts DEF Writing
<1>3. v \in dir
  BY <1>1, <1>2 DEF IInv, WritersKnow
<1>4. TypeOK'
  BY <1>1, <1>2, <1>3 DEF IInv, TypeOK
<1>5. WritersKnow'
  BY <1>1 DEF IInv, TypeOK, WritersKnow, Writing
<1>6. ReadersKnow' /\ CardsAreReturned' /\ LoadedIsOneRegistration'
  BY <1>1, <1>2 DEF IInv, TypeOK, ReadersKnow, Reading,
              CardsAreReturned, LoadedIsOneRegistration, Loaded
<1>7. OneOwner' /\ Fresh' /\ Written'
  BY <1>1 DEF IInv, TypeOK, OneOwner, Fresh, Written, Owns
<1>8. Kept'
  <2> SUFFICES ASSUME NEW d \in returned'
               PROVE  /\ d.version \in dir
                      /\ d.version \notin shared =>
                           /\ card'[d.version] = d /\ model[d.version] = d.fingerprint
                           /\ \A u \in Writers : ~ Owns(u, d.version)'
    BY <1>1 DEF Kept
  <2>1. CASE d = c
    <3>1. v \notin shared => model[v] = c.fingerprint
      BY <1>1, <1>2 DEF IInv, Written
    <3>2. v \notin shared => \A u \in Writers : Owns(u, v) => u = w
      BY <1>2 DEF IInv, OneOwner
    <3> QED BY <2>1, <3>1, <3>2, <1>1, <1>2, <1>3 DEF IInv, TypeOK, Owns
  <2>2. CASE d \in returned
    BY <2>2, <1>1, <1>2, WritesElsewhere DEF IInv, TypeOK, Kept, Owns
  <2> QED BY <2>1, <2>2, <1>1
<1> QED BY <1>4, <1>5, <1>6, <1>7, <1>8 DEF IInv

LEMMA AbandonKeeps ==
    ASSUME IInv, NEW w \in Writers, Abandon(w)
    PROVE  IInv'
<1>1. /\ pc' = [pc EXCEPT ![w] = "idle"] /\ job' = [job EXCEPT ![w] = None]
      /\ UNCHANGED <<dir, model, card, returned, shared, seen, answer>>
  BY DEF Abandon, Goto, disk, past
<1>2. TypeOK'
  BY <1>1 DEF IInv, TypeOK
<1>3. WritersKnow' /\ ReadersKnow' /\ CardsAreReturned' /\ LoadedIsOneRegistration'
  BY <1>1 DEF IInv, TypeOK, WritersKnow, Writing, ReadersKnow, Reading,
              CardsAreReturned, LoadedIsOneRegistration, Loaded
<1>4. OneOwner' /\ Fresh' /\ Written' /\ Kept'
  BY <1>1 DEF IInv, TypeOK, OneOwner, Fresh, Written, Kept, Owns
<1> QED BY <1>2, <1>3, <1>4 DEF IInv

------------------------------------------------------------------------------
(* get() and latest().                                                     *)

Answers == [card : Cards, model : Artifacts] \cup {Nil}
             \cup [error : {"missing", "unreadable", "mismatch", "unknown"}]

Honest(a) == a # Nil /\ "model" \in DOMAIN a =>
                 a.card \in returned /\ a.model = a.card.fingerprint

\* A step of a reader is at its own place, and all the invariant asks is what it
\* now knows and what it has answered.
LEMMA ReaderKeeps ==
    ASSUME IInv, NEW r \in Readers, pc[r] \notin Writing,
           NEW label \in {"idle", "card", "model"},
           NEW s \in [version : Versions \cup {None}, card : Cards \cup {None}],
           NEW a \in Answers, Honest(a),
           label # "idle" => s.version \in Versions,
           label = "model" => s.card \in returned,
           pc' = [pc EXCEPT ![r] = label], seen' = [seen EXCEPT ![r] = s],
           answer' = [answer EXCEPT ![r] = a],
           UNCHANGED <<disk, job, past>>
    PROVE  IInv'
<1>1. UNCHANGED <<dir, model, card, job, returned, shared>>
  BY DEF disk, past
<1>2. TypeOK'
  BY <1>1 DEF IInv, TypeOK, Answers
<1>3. WritersKnow'
  BY <1>1 DEF IInv, TypeOK, WritersKnow, Writing
<1>4. ReadersKnow' /\ CardsAreReturned'
  BY <1>1 DEF IInv, TypeOK, ReadersKnow, Reading, CardsAreReturned
<1>5. LoadedIsOneRegistration'
  BY <1>1 DEF IInv, TypeOK, LoadedIsOneRegistration, Loaded, Honest, Nil
<1>6. OneOwner' /\ Fresh' /\ Written' /\ Kept'
  BY <1>1 DEF IInv, TypeOK, OneOwner, Fresh, Written, Kept, Owns, Writing
<1> QED BY <1>2, <1>3, <1>4, <1>5, <1>6 DEF IInv

\* The two ways a reader's step leaves it: at a load that begins ...
LEMMA StartLoadKeeps ==
    ASSUME IInv, NEW r \in Readers, pc[r] = "idle", NEW v \in Versions,
           StartLoad(r, v), UNCHANGED <<disk, job, past>>
    PROVE  IInv'
<1> DEFINE s == [version |-> v, card |-> None]
<1>1. answer[r] \in Answers /\ Honest(answer[r])
  BY DEF IInv, TypeOK, Answers, LoadedIsOneRegistration, Loaded, Honest
<1>2. answer' = [answer EXCEPT ![r] = answer[r]]
  BY DEF StartLoad, IInv, TypeOK
<1>3. /\ pc' = [pc EXCEPT ![r] = "card"] /\ seen' = [seen EXCEPT ![r] = s]
      /\ s \in [version : Versions \cup {None}, card : Cards \cup {None}]
      /\ s.version \in Versions /\ pc[r] \notin Writing
  BY DEF StartLoad, Goto, Writing
<1> HIDE DEF s
<1> QED BY <1>1, <1>2, <1>3, ReaderKeeps

\* ... or at an answer that is no load, or an honest one.
LEMMA EndLoadKeeps ==
    ASSUME IInv, NEW r \in Readers, pc[r] \notin Writing,
           NEW a \in Answers, Honest(a),
           EndLoad(r, a), UNCHANGED <<disk, job, past>>
    PROVE  IInv'
<1> DEFINE s == [version |-> None, card |-> None]
<1>1. /\ pc' = [pc EXCEPT ![r] = "idle"] /\ seen' = [seen EXCEPT ![r] = s]
      /\ answer' = [answer EXCEPT ![r] = a]
      /\ s \in [version : Versions \cup {None}, card : Cards \cup {None}]
  BY DEF EndLoad, Goto
<1> HIDE DEF s
<1> QED BY <1>1, ReaderKeeps

LEMMA RefusalsAreHonest ==
    /\ Nil \in Answers /\ Honest(Nil)
    /\ \A e \in {"missing", "unreadable", "mismatch", "unknown"} :
          [error |-> e] \in Answers /\ Honest([error |-> e])
BY DEF Answers, Honest, Nil

LEMMA LatestKeeps ==
    ASSUME IInv, NEW r \in Readers, Latest(r)
    PROVE  IInv'
<1>1. pc[r] = "idle" /\ pc[r] \notin Writing /\ UNCHANGED <<disk, job, past>>
  BY DEF Latest, Writing
<1>2. CASE dir = {}
  BY <1>1, <1>2, EndLoadKeeps, RefusalsAreHonest DEF Latest
<1>3. CASE dir # {}
  <2>1. Max(dir) \in Versions
    BY <1>3, NextIsFree DEF IInv, TypeOK
  <2> QED BY <2>1, <1>1, <1>3, StartLoadKeeps DEF Latest
<1> QED BY <1>2, <1>3

LEMMA GetKeeps ==
    ASSUME IInv, NEW r \in Readers, NEW v \in Versions, Get(r, v)
    PROVE  IInv'
<1>1. pc[r] = "idle" /\ pc[r] \notin Writing /\ UNCHANGED <<disk, job, past>>
  BY DEF Get, Writing
<1>2. CASE card[v] = None
  BY <1>1, <1>2, EndLoadKeeps, RefusalsAreHonest DEF Get
<1>3. CASE card[v] # None
  BY <1>1, <1>3, StartLoadKeeps DEF Get
<1> QED BY <1>2, <1>3

LEMMA LoadCardKeeps ==
    ASSUME IInv, NEW r \in Readers, LoadCard(r)
    PROVE  IInv'
<1> DEFINE found == card[seen[r].version]
<1>1. /\ pc[r] = "card" /\ pc[r] \notin Writing /\ UNCHANGED <<disk, job, past>>
      /\ seen[r].version \in Versions
  BY DEF LoadCard, Writing, Reading, IInv, ReadersKnow
<1>2. CASE found \in {None, Torn}
  <2>1. \E e \in {"missing", "unreadable"} : EndLoad(r, [error |-> e])
    BY <1>2, FilesAreTold DEF LoadCard
  <2> QED BY <2>1, <1>1, EndLoadKeeps, RefusalsAreHonest
<1>3. CASE found \notin {None, Torn}
  <2> DEFINE s == [seen[r] EXCEPT !.card = found]
  <2>1. found \in returned /\ found \in Cards
    BY <1>1, <1>3 DEF IInv, TypeOK, CardsAreReturned
  <2>2. /\ seen' = [seen EXCEPT ![r] = s] /\ pc' = [pc EXCEPT ![r] = "model"]
        /\ answer' = answer
    BY <1>3 DEF LoadCard, Goto
  <2>3. /\ s \in [version : Versions \cup {None}, card : Cards \cup {None}]
        /\ s.version \in Versions /\ s.card \in returned
    BY <1>1, <2>1 DEF IInv, TypeOK
  <2>4. /\ answer[r] \in Answers /\ Honest(answer[r])
        /\ answer' = [answer EXCEPT ![r] = answer[r]]
    BY <2>2 DEF IInv, TypeOK, Answers, LoadedIsOneRegistration, Loaded, Honest
  <2> HIDE DEF s
  <2> QED BY <2>2, <2>3, <2>4, <1>1, ReaderKeeps
<1> QED BY <1>2, <1>3

LEMMA LoadModelKeeps ==
    ASSUME IInv, NEW r \in Readers, LoadModel(r)
    PROVE  IInv'
<1> DEFINE found == model[seen[r].version]
           a == [card |-> seen[r].card, model |-> found]
<1>1. /\ pc[r] = "model" /\ pc[r] \notin Writing /\ UNCHANGED <<disk, job, past>>
      /\ seen[r].version \in Versions
      /\ seen[r].card \in returned /\ seen[r].card \in Cards
  BY DEF LoadModel, Writing, Reading, IInv, TypeOK, ReadersKnow
<1>2. CASE found = seen[r].card.fingerprint
  <2>1. a \in Answers /\ Honest(a)
    BY <1>1, <1>2 DEF Answers, Honest, Cards
  <2> QED BY <2>1, <1>1, <1>2, EndLoadKeeps DEF LoadModel
<1>3. CASE found # seen[r].card.fingerprint
  BY <1>1, <1>3, EndLoadKeeps, RefusalsAreHonest DEF LoadModel
<1> QED BY <1>2, <1>3

------------------------------------------------------------------------------
(* The registry.                                                           *)

LEMMA InitInv == Init => IInv
BY DEF Init, IInv, TypeOK, WritersKnow, Writing, ReadersKnow, Reading,
       CardsAreReturned, OneOwner, Fresh, Written, Owns, Kept,
       LoadedIsOneRegistration, Loaded, Nil

LEMMA NextInv == IInv /\ [Next]_vars => IInv'
<1> SUFFICES ASSUME IInv, [Next]_vars PROVE IInv'
  OBVIOUS
<1>1. ASSUME NEW w \in Writers,
             \/ \E a \in Artifacts, t \in Tags : Register(w, a, t)
             \/ MakeDir(w) \/ OpenModel(w) \/ FillModel(w)
             \/ OpenCard(w) \/ FillCard(w) \/ Abandon(w)
      PROVE  IInv'
  BY <1>1, RegisterKeeps, MakeDirKeeps, OpenModelKeeps, FillModelKeeps,
     OpenCardKeeps, FillCardKeeps, AbandonKeeps
<1>2. ASSUME NEW r \in Readers,
             \/ Latest(r) \/ LoadCard(r) \/ LoadModel(r)
             \/ \E v \in Versions : Get(r, v)
      PROVE  IInv'
  BY <1>2, LatestKeeps, LoadCardKeeps, LoadModelKeeps, GetKeeps
<1>3. CASE UNCHANGED vars
  BY <1>3 DEF vars, disk, past, IInv, TypeOK, WritersKnow, ReadersKnow,
              CardsAreReturned, OneOwner, Fresh, Written, Owns, Kept,
              LoadedIsOneRegistration, Loaded
<1> QED BY <1>1, <1>2, <1>3 DEF Next

\* Whatever the processes, artifacts and versions, and wherever they die: types,
\* and what a writer, a reader and the files have to do with each other.
THEOREM Invariance == Spec => []IInv
BY InitInv, NextInv, PTL DEF Spec

\* Every variable has its type; a version without a directory has no files.
THEOREM TypeCorrect == Spec => []TypeOK
<1>1. IInv => TypeOK
  BY DEF IInv
<1> QED BY <1>1, Invariance, PTL

\* A load that succeeds is the card and the artifact of one register() call,
\* however many processes write and read at once and wherever they die.
THEOREM LoadsAreWhole == Spec => []LoadedIsOneRegistration
<1>1. IInv => LoadedIsOneRegistration
  BY DEF IInv
<1> QED BY <1>1, Invariance, PTL

\* Every version that was returned, and that no other call was writing at one time,
\* stays on file as it was returned.
THEOREM VersionsAreKept == Spec => []EveryVersionKept
<1>1. IInv => EveryVersionKept
  BY DEF IInv, Kept, EveryVersionKept
<1> QED BY <1>1, Invariance, PTL

------------------------------------------------------------------------------
(* The desk.  Its steps at the registry are the registry's, with a reader  *)
(* that dies besides, so the invariant carries over once the commands are  *)
(* known to call it with what it takes (Callers).                          *)

\* Who registers is a writer and has data to fit on; who reads back has a version;
\* who is not a writer does not write.
Callers ==
    /\ data \in 0 .. MaxData
    /\ DOMAIN step = Procs /\ DOMAIN view = Procs
    /\ \A p \in Procs : DOMAIN view[p] = DOMAIN Blank
    /\ \A p \in Procs :
          /\ step[p] \in {"register", "writing"} => p \in Writers
          /\ step[p] = "register" => view[p].data \in Artifacts
          /\ step[p] = "readBack" => view[p].model \in Versions
          /\ pc[p] \in Writing => p \in Writers

\* What a battery that did not raise may report.
Reports == {BatteryReport(t) : t \in {u \in Batteries : ~ BatteryRaises(u)}}

\* The battery as _log_battery leaves it in the tracker: its tests in order, each
\* with its numbers.
IsBattery(log, battery) ==
    /\ log \in Seq({log[k] : k \in 1 .. 6}) /\ Len(log) = 6
    /\ \A k \in 1 .. 6 : /\ log[k].stage = "robustness" /\ log[k].test = Tests[k]
                         /\ log[k].numbers = Numbers(battery, Tests[k])

\* A verdict in the tracker: behind a battery, and a PASS behind one that passed.
IsVerdict(log, verdict) ==
    \E battery \in Reports : \E before :
        /\ IsBattery(before, battery)
        /\ log = Append(before, [stage |-> "kill_gate", verdict |-> verdict])
        /\ verdict.verdict = "PASS" => BatteryPasses(battery)

Judging == {"begin", "judgeLoad", "judging", "stress", "perSymbol", "stressLoad",
            "reconcile", "logStress"}
Stressed == {"stressLoad", "reconcile", "logStress", "gate"}

\* What a command has computed and logged by the time it is where it is, and what
\* it is about to write; and the file holds what a command that has ended logged.
Trail ==
    /\ DOMAIN runs = Procs
    /\ \A p \in Procs :
          /\ step[p] \in Judging => runs[p] = << >>
          /\ step[p] \in Stressed => view[p].battery \in Reports
          /\ step[p] = "gate" => IsBattery(runs[p], view[p].battery)
          /\ step[p] \in {"open", "fill"} =>
                view[p].report.command = p /\ IsVerdict(runs[p], view[p].report)
    /\ OnFile => /\ report.command \in Procs /\ step[report.command] = "ended"
                 /\ IsVerdict(runs[report.command], report)

DeskInv == IInv /\ Callers /\ Trail

\* Processes that do not train are readers, as are those that do.
LEMMA ProcFacts == Procs = Readers /\ Writers \subseteq Procs
BY DeskAssumption DEF Procs

\* Without data there is no labelled event.
LEMMA NoDataNoEvents ==
    ASSUME data \in 0 .. MaxData, SymbolsWithEvents(data) # 0
    PROVE  data \in Artifacts
<1>1. MaxData \in Nat /\ 1 .. MaxData \subseteq Artifacts
  BY DeskAssumption
<1>2. CASE data = 0
  <2>1. Min({0, 2}) = 0
    <3>1. \E x \in {0, 2} : \A y \in {0, 2} : x <= y
      OBVIOUS
    <3>2. Min({0, 2}) \in {0, 2} /\ \A y \in {0, 2} : Min({0, 2}) <= y
      BY <3>1 DEF Min
    <3> QED BY <3>2
  <2> QED BY <2>1, <1>2 DEF SymbolsWithEvents
<1>3. CASE data # 0
  BY <1>1, <1>3
<1> QED BY <1>2, <1>3

\* A process that dies while it reads: the registry does not notice.
LEMMA EndReadKeeps ==
    ASSUME IInv, NEW r \in Readers, pc[r] \notin Writing, EndRead(r)
    PROVE  IInv'
<1>1. EndLoad(r, Nil) /\ UNCHANGED <<disk, job, past>>
  BY DEF EndRead
<1> QED BY <1>1, EndLoadKeeps, RefusalsAreHonest

\* Whatever a command does, the registry stays as it was or makes a step of its own.
LEMMA DeskKeepsRegistry ==
    ASSUME IInv, Callers, [DeskNext]_allVars
    PROVE  IInv'
<1>1. ASSUME NEW p \in Procs, RegisterArtifact(p) PROVE IInv'
  <2>1. p \in Writers /\ view[p].data \in Artifacts
    BY <1>1 DEF RegisterArtifact, Callers
  <2> QED BY <1>1, <2>1, RegisterKeeps DEF RegisterArtifact
<1>2. ASSUME NEW p \in Procs, WriteFiles(p) PROVE IInv'
  <2>1. p \in Writers
    BY <1>2 DEF WriteFiles, Callers
  <2> QED BY <1>2, <2>1, MakeDirKeeps, OpenModelKeeps, FillModelKeeps, OpenCardKeeps
          DEF WriteFiles
<1>3. ASSUME NEW p \in Procs, WriteCard(p) PROVE IInv'
  <2>1. p \in Writers
    BY <1>3 DEF WriteCard, Callers
  <2> QED BY <1>3, <2>1, FillCardKeeps DEF WriteCard
<1>4. ASSUME NEW p \in Procs, ReadBack(p) PROVE IInv'
  <2>1. view[p].model \in Versions /\ p \in Readers
    BY <1>4, ProcFacts DEF ReadBack, Callers
  <2> QED BY <1>4, <2>1, GetKeeps DEF ReadBack
<1>5. ASSUME NEW p \in Procs, LoadLatest(p) PROVE IInv'
  BY <1>5, ProcFacts, LatestKeeps DEF LoadLatest
<1>6. ASSUME NEW p \in Procs, LoadFiles(p) PROVE IInv'
  BY <1>6, ProcFacts, LoadCardKeeps, LoadModelKeeps DEF LoadFiles
<1>7. ASSUME UNCHANGED vars PROVE IInv'
  BY <1>7, NextInv
<1>8. ASSUME NEW p \in Procs, Crash(p) PROVE IInv'
  <2>1. p \in Readers /\ (p \notin Writers => pc[p] \notin Writing)
    BY ProcFacts DEF Callers
  <2>2. UNCHANGED vars \/ (p \in Writers /\ Abandon(p)) \/ (p \notin Writers /\ EndRead(p))
    BY <1>8 DEF Crash
  <2> QED BY <2>1, <2>2, <1>7, AbandonKeeps, EndReadKeeps
<1>9. ASSUME NEW p \in Procs,
             \/ Train(p) \/ Compare(p) \/ PoolForJudging(p) \/ Judge(p) \/ Stress(p)
             \/ StressEach(p) \/ Reconcile(p) \/ LogStress(p) \/ LogVerdict(p)
             \/ OpenReport(p) \/ FillReport(p)
      PROVE  UNCHANGED vars
  BY <1>9 DEF Train, Compare, PoolForJudging, Judge, Stress, StressEach, Reconcile,
              LogStress, LogVerdict, OpenReport, FillReport
<1>10. Grow \/ UNCHANGED allVars => UNCHANGED vars
  BY DEF Grow, allVars
<1> QED BY <1>1, <1>2, <1>3, <1>4, <1>5, <1>6, <1>7, <1>8, <1>9, <1>10 DEF DeskNext

\* A step at the registry, for the caller.
LEMMA CallerMoves ==
    ASSUME IInv, Callers, NEW p \in Procs, NEW label, NEW s,
           pc' = [pc EXCEPT ![p] = label], label \in Writing => p \in Writers,
           step' = [step EXCEPT ![p] = s], s # "register",
           s = "writing" => p \in Writers, s = "readBack" => view'[p].model \in Versions,
           DOMAIN view' = Procs, \A q \in Procs : DOMAIN view'[q] = DOMAIN Blank,
           \A q \in Procs : q # p => view'[q] = view[q], data' = data
    PROVE  Callers'
BY DEF Callers, IInv, TypeOK, Procs

\* Callers know what they call.
LEMMA CallersStep ==
    ASSUME IInv, Callers, [DeskNext]_allVars
    PROVE  Callers'
<1> USE DEF Callers
<1>1. CASE Grow
  BY <1>1, DeskAssumption DEF Grow, vars
<1>2. ASSUME NEW p \in Procs, Train(p) PROVE Callers'
  BY <1>2, NoDataNoEvents DEF Train, Finish, Move, vars, Blank
<1>3. ASSUME NEW p \in Procs, RegisterArtifact(p) PROVE Callers'
  <2>1. p \in Writers /\ pc' = [pc EXCEPT ![p] = "mkdir"]
    BY <1>3 DEF RegisterArtifact, Register, Goto
  <2>2. step' = [step EXCEPT ![p] = "writing"] /\ UNCHANGED <<data, view>>
    BY <1>3 DEF RegisterArtifact, Move
  <2> QED BY <2>1, <2>2 DEF Writing, IInv, TypeOK, Procs
<1>4. ASSUME NEW p \in Procs, WriteFiles(p) PROVE Callers'
  <2>1. /\ \E label \in Writing : pc' = [pc EXCEPT ![p] = label]
        /\ p \in Writers /\ UNCHANGED deskVars
    BY <1>4 DEF WriteFiles, MakeDir, OpenModel, FillModel, OpenCard, Goto, Writing
  <2>2. \A q \in Procs : q # p => pc'[q] = pc[q]
    BY <2>1
  <2> QED BY <2>1, <2>2 DEF deskVars
<1>5. ASSUME NEW p \in Procs, WriteCard(p) PROVE Callers'
  <2>1. p \in Writers /\ job[p].version \in Versions
    BY <1>5, JobFacts DEF WriteCard, FillCard, Writing
  <2>2. pc' = [pc EXCEPT ![p] = "idle"] /\ step' = [step EXCEPT ![p] = "readBack"]
        /\ data' = data /\ view' = [view EXCEPT ![p].model = job[p].version]
    BY <1>5 DEF WriteCard, FillCard, Goto, Move
  <2>3. /\ view'[p].model \in Versions /\ DOMAIN view' = Procs
        /\ \A q \in Procs : DOMAIN view'[q] = DOMAIN Blank
        /\ \A q \in Procs : q # p => view'[q] = view[q]
    BY <2>1, <2>2 DEF Blank
  <2> QED BY <2>2, <2>3, CallerMoves DEF Writing
<1>6. ASSUME NEW p \in Procs, ReadBack(p) PROVE Callers'
  <2>1. \E label \in {"idle", "card"} : pc' = [pc EXCEPT ![p] = label]
    BY <1>6 DEF ReadBack, Get, StartLoad, EndLoad, Goto
  <2>2. step' = [step EXCEPT ![p] = "compare"] /\ UNCHANGED <<data, view>>
    BY <1>6 DEF ReadBack, Move
  <2> QED BY <2>1, <2>2, CallerMoves DEF Writing
<1>7. ASSUME NEW p \in Procs, LoadLatest(p) PROVE Callers'
  <2>1. \E label \in {"idle", "card"} : pc' = [pc EXCEPT ![p] = label]
    BY <1>7 DEF LoadLatest, Latest, StartLoad, EndLoad, Goto
  <2>2. \E s \in {"judging", "reconcile"} : step' = [step EXCEPT ![p] = s]
    BY <1>7 DEF LoadLatest, Move
  <2>3. /\ view' = view /\ data' = data
        /\ DOMAIN view' = Procs /\ \A q \in Procs : DOMAIN view'[q] = DOMAIN Blank
    BY <1>7 DEF LoadLatest
  <2>4. PICK label \in {"idle", "card"} : pc' = [pc EXCEPT ![p] = label]
    BY <2>1
  <2>5. PICK s \in {"judging", "reconcile"} : step' = [step EXCEPT ![p] = s]
    BY <2>2
  <2>6. label \notin Writing /\ s \notin {"register", "writing", "readBack"}
    BY <2>4, <2>5 DEF Writing
  <2> QED BY <2>3, <2>4, <2>5, <2>6 DEF IInv, TypeOK, Procs
<1>8. ASSUME NEW p \in Procs, LoadFiles(p) PROVE Callers'
  <2>1. /\ \E label \in {"model", "idle"} : pc' = [pc EXCEPT ![p] = label]
        /\ UNCHANGED deskVars
    BY <1>8 DEF LoadFiles, LoadCard, LoadModel, EndLoad, Goto
  <2>2. pc'[p] \notin Writing /\ \A q \in Procs : q # p => pc'[q] = pc[q]
    BY <2>1 DEF Writing, IInv, TypeOK, Procs
  <2> QED BY <2>1, <2>2 DEF deskVars
<1>9. ASSUME NEW p \in Procs, Compare(p) \/ FillReport(p) PROVE Callers'
  BY <1>9 DEF Compare, FillReport, Finish, Move, vars, Blank
<1>10. ASSUME NEW p \in Procs, PoolForJudging(p) PROVE Callers'
  BY <1>10 DEF PoolForJudging, Finish, Move, vars, Blank
<1>11. ASSUME NEW p \in Procs, Judge(p) PROVE Callers'
  BY <1>11 DEF Judge, Finish, Move, vars, Blank
<1>12. ASSUME NEW p \in Procs, Stress(p) PROVE Callers'
  BY <1>12 DEF Stress, Finish, Move, vars, Blank
<1>13. ASSUME NEW p \in Procs, StressEach(p) PROVE Callers'
  BY <1>13 DEF StressEach, Finish, Move, vars, Blank
<1>14. ASSUME NEW p \in Procs, Reconcile(p) PROVE Callers'
  BY <1>14 DEF Reconcile, Finish, Move, vars, Blank
<1>15. ASSUME NEW p \in Procs, LogStress(p) PROVE Callers'
  BY <1>15 DEF LogStress, Finish, Move, vars, Blank
<1>16. ASSUME NEW p \in Procs, LogVerdict(p) PROVE Callers'
  BY <1>16 DEF LogVerdict, Move, vars, Blank
<1>17. ASSUME NEW p \in Procs, OpenReport(p) PROVE Callers'
  BY <1>17 DEF OpenReport, Move, vars
<1>18. ASSUME NEW p \in Procs, Crash(p) PROVE Callers'
  <2>1. \/ pc' = pc
        \/ pc' = [pc EXCEPT ![p] = "idle"]
    BY <1>18 DEF Crash, Abandon, EndRead, EndLoad, Goto, vars
  <2>2. step' = [step EXCEPT ![p] = "ended"] /\ data' = data
        /\ view' = [view EXCEPT ![p] = Blank]
    BY <1>18 DEF Crash, Finish, Move
  <2>3. CASE pc' = pc
    BY <2>2, <2>3
  <2>4. CASE pc' = [pc EXCEPT ![p] = "idle"]
    BY <2>2, <2>4, CallerMoves DEF Writing
  <2> QED BY <2>1, <2>3, <2>4
<1>19. CASE UNCHANGED allVars
  BY <1>19 DEF allVars, deskVars, vars
<1> QED BY <1>1, <1>2, <1>3, <1>4, <1>5, <1>6, <1>7, <1>8, <1>9, <1>10, <1>11, <1>12,
           <1>13, <1>14, <1>15, <1>16, <1>17, <1>18, <1>19 DEF DeskNext

------------------------------------------------------------------------------
(* What is in the tracker.                                                 *)

\* What LogStress leaves.
LEMMA BatteryLogged ==
    ASSUME NEW p
    PROVE  /\ IsBattery(Logs(p, Tests), view[p].battery)
           /\ << >> \o Logs(p, Tests) = Logs(p, Tests)
<1> DEFINE log == Logs(p, Tests)
<1>1. DOMAIN Tests = 1 .. 6
  BY DEF Tests
<1>2. /\ log = [k \in 1 .. 6 |-> log[k]]
      /\ \A k \in 1 .. 6 : log[k].stage = "robustness" /\ log[k].test = Tests[k]
      /\ \A k \in 1 .. 6 : log[k].numbers = Numbers(view[p].battery, Tests[k])
  BY <1>1 DEF Logs
<1> HIDE DEF log
<1>3. log \in [1 .. 6 -> {log[k] : k \in 1 .. 6}]
  BY <1>2
<1>4. log \in Seq({log[k] : k \in 1 .. 6})
  BY <1>3, SeqDef
<1>5. Len(log) = 6
  BY <1>3, <1>4
<1>6. << >> \o log = log
  BY <1>4, ConcatEmptySeq
<1> QED BY <1>2, <1>4, <1>5, <1>6 DEF IsBattery, log

\* What LogVerdict leaves.
LEMMA VerdictLogged ==
    ASSUME NEW battery \in Reports, NEW before, IsBattery(before, battery), NEW verdict,
           verdict.verdict = "PASS" => BatteryPasses(battery)
    PROVE  IsVerdict(before \o <<[stage |-> "kill_gate", verdict |-> verdict]>>, verdict)
<1> DEFINE S == {before[k] : k \in 1 .. 6}
           v == [stage |-> "kill_gate", verdict |-> verdict]
<1>1. before \in Seq(S)
  BY DEF IsBattery
<1> HIDE DEF S, v
<1>2. before \in Seq(S \cup {v}) /\ v \in S \cup {v}
  BY <1>1, SeqMonotonic
<1>3. before \o <<v>> = Append(before, v)
  BY <1>2, AppendIsConcat
<1> QED BY <1>3 DEF IsVerdict, v

\* The sixth criterion is the battery's.
LEMMA PassNeedsBattery ==
    ASSUME NEW e, NEW order, NEW robust, Verdict(Criteria(e, order, robust)) = "PASS"
    PROVE  robust
<1>1. \A i \in DOMAIN Criteria(e, order, robust) : Criteria(e, order, robust)[i]
  BY DEF Verdict
<1>2. 6 \in DOMAIN Criteria(e, order, robust) /\ Criteria(e, order, robust)[6] = robust
  BY DEF Criteria
<1> QED BY <1>1, <1>2

\* A battery is a log of six, and no log is empty that holds it.
LEMMA TrailStep ==
    ASSUME Callers, Trail, [DeskNext]_allVars
    PROVE  Trail'
<1>1. ASSUME UNCHANGED <<step, runs, report>>, UNCHANGED view PROVE Trail'
  BY <1>1 DEF Trail, OnFile
\* What one command does leaves the trail of the others, and of the one whose
\* report is on file, as it was.
<1>2. ASSUME NEW p \in Procs, NEW s,
             step' = [step EXCEPT ![p] = s], step[p] # "ended",
             \A q \in Procs : q # p => view'[q] = view[q] /\ runs'[q] = runs[q],
             DOMAIN runs' = Procs,
             s \in Judging => runs'[p] = << >>,
             s \in Stressed => view'[p].battery \in Reports,
             s = "gate" => IsBattery(runs'[p], view'[p].battery),
             s \in {"open", "fill"} =>
                view'[p].report.command = p /\ IsVerdict(runs'[p], view'[p].report),
             OnFile' => report' = report
                 \/ (report'.command = p /\ s = "ended" /\ IsVerdict(runs'[p], report'))
      PROVE  Trail'
  <2>1. ASSUME NEW q \in Procs
        PROVE  /\ step'[q] \in Judging => runs'[q] = << >>
               /\ step'[q] \in Stressed => view'[q].battery \in Reports
               /\ step'[q] = "gate" => IsBattery(runs'[q], view'[q].battery)
               /\ step'[q] \in {"open", "fill"} =>
                     view'[q].report.command = q /\ IsVerdict(runs'[q], view'[q].report)
    BY <1>2 DEF Trail, Callers
  <2>2. ASSUME OnFile'
        PROVE  /\ report'.command \in Procs /\ step'[report'.command] = "ended"
               /\ IsVerdict(runs'[report'.command], report')
    <3>1. CASE report' = report
      BY <1>2, <2>2, <3>1 DEF Trail, Callers, OnFile
    <3>2. CASE report'.command = p /\ s = "ended" /\ IsVerdict(runs'[p], report')
      BY <1>2, <3>2 DEF Callers
    <3> QED BY <1>2, <2>2, <3>1, <3>2
  <2> QED BY <1>2, <2>1, <2>2 DEF Trail, IsBattery, IsVerdict
<1>3. CASE Grow \/ UNCHANGED allVars
  BY <1>1, <1>3 DEF Grow, allVars, deskVars
\* Most steps write nothing: the log of a command that has logged nothing stays so.
<1>4. ASSUME NEW p \in Procs, NEW s \in Judging \cup {"ended", "writing", "readBack", "compare"},
             step' = [step EXCEPT ![p] = s], step[p] # "ended",
             \A q \in Procs : q # p => view'[q] = view[q],
             s \in Judging => step[p] \in Judging,
             s \in Stressed => view'[p].battery \in Reports,
             UNCHANGED <<runs, report>>
      PROVE  Trail'
  <2>1. /\ s \in Judging => runs'[p] = << >>
        /\ s \notin {"gate", "open", "fill"} /\ DOMAIN runs' = Procs
    BY <1>4 DEF Trail, Judging
  <2> QED BY <1>2, <1>4, <2>1
<1>5. ASSUME NEW p \in Procs, Train(p) PROVE Trail'
  <2>1. /\ \E s \in {"register", "ended"} : step' = [step EXCEPT ![p] = s]
        /\ step[p] = "begin" /\ report' = report
        /\ \A q \in Procs : q # p => view'[q] = view[q] /\ runs'[q] = runs[q]
        /\ DOMAIN runs' = Procs
    BY <1>5 DEF Train, Finish, Move, MayBegin, LogRuns, Callers, Trail
  <2>2. PICK s \in {"register", "ended"} : step' = [step EXCEPT ![p] = s]
    BY <2>1
  <2>3. s \notin Judging /\ s \notin Stressed /\ s \notin {"gate", "open", "fill"}
    BY DEF Judging, Stressed
  <2> QED BY <2>1, <2>2, <2>3, <1>2
<1>6. ASSUME NEW p \in Procs, RegisterArtifact(p) PROVE Trail'
  BY <1>6, <1>4 DEF RegisterArtifact, Move, Judging, Stressed
<1>7. ASSUME NEW p \in Procs, WriteFiles(p) \/ LoadFiles(p) PROVE Trail'
  BY <1>7, <1>1 DEF WriteFiles, LoadFiles, deskVars
<1>8. ASSUME NEW p \in Procs, WriteCard(p) PROVE Trail'
  BY <1>8, <1>4 DEF WriteCard, Move, Callers, Judging, Stressed
<1>9. ASSUME NEW p \in Procs, ReadBack(p) PROVE Trail'
  BY <1>9, <1>4 DEF ReadBack, Move, Judging, Stressed
<1>10. ASSUME NEW p \in Procs, Compare(p) PROVE Trail'
  BY <1>10, <1>4 DEF Compare, Finish, Move, Callers, Judging, Stressed
<1>11. ASSUME NEW p \in Procs, PoolForJudging(p) PROVE Trail'
  <2>1. /\ \E s \in {"judgeLoad", "ended"} : step' = [step EXCEPT ![p] = s]
        /\ \A q \in Procs : q # p => view'[q] = view[q]
        /\ step[p] \in Judging /\ step[p] # "ended" /\ UNCHANGED <<runs, report>>
    BY <1>11 DEF PoolForJudging, MayBegin, Finish, Move, Callers, Judging
  <2> QED BY <2>1, <1>4 DEF Judging, Stressed
<1>12. ASSUME NEW p \in Procs, LoadLatest(p) PROVE Trail'
  <2>1. /\ \E s \in {"judging", "reconcile"} : step' = [step EXCEPT ![p] = s]
        /\ view' = view
        /\ step'[p] = "reconcile" => view'[p].battery \in Reports
        /\ step[p] \in Judging /\ step[p] # "ended" /\ UNCHANGED <<runs, report>>
    BY <1>12 DEF LoadLatest, Move, Judging, Stressed, Callers, Trail
  <2>2. PICK s \in {"judging", "reconcile"} : step' = [step EXCEPT ![p] = s]
    BY <2>1
  <2>3. s \in Judging /\ (s \in Stressed => view'[p].battery \in Reports)
    BY <2>1, <2>2 DEF Judging, Stressed, Callers
  <2> QED BY <2>1, <2>2, <2>3, <1>4
<1>13. ASSUME NEW p \in Procs, Judge(p) PROVE Trail'
  <2>1. /\ \E s \in {"stress", "ended"} : step' = [step EXCEPT ![p] = s]
        /\ \A q \in Procs : q # p => view'[q] = view[q]
        /\ step[p] \in Judging /\ step[p] # "ended" /\ UNCHANGED <<runs, report>>
    BY <1>13 DEF Judge, Finish, Move, Callers, Judging
  <2> QED BY <2>1, <1>4 DEF Judging, Stressed
<1>14. ASSUME NEW p \in Procs, Stress(p) PROVE Trail'
  <2>1. /\ \E s \in {"perSymbol", "ended"} : step' = [step EXCEPT ![p] = s]
        /\ \A q \in Procs : q # p => view'[q] = view[q]
        /\ step[p] \in Judging /\ step[p] # "ended" /\ UNCHANGED <<runs, report>>
    BY <1>14 DEF Stress, MayBegin, Finish, Move, Callers, Judging
  <2> QED BY <2>1, <1>4 DEF Judging, Stressed
<1>15. ASSUME NEW p \in Procs, StressEach(p) PROVE Trail'
  <2>1. /\ \E s \in {"stressLoad", "ended"} : step' = [step EXCEPT ![p] = s]
        /\ \A q \in Procs : q # p => view'[q] = view[q]
        /\ step'[p] = "stressLoad" => view'[p].battery \in Reports
        /\ step[p] \in Judging /\ step[p] # "ended" /\ UNCHANGED <<runs, report>>
    BY <1>15 DEF StressEach, Finish, Move, Callers, Judging, Reports, Blank
  <2>2. PICK s \in {"stressLoad", "ended"} : step' = [step EXCEPT ![p] = s]
    BY <2>1
  <2>3. s \in Judging \cup {"ended"} /\ (s \in Stressed => view'[p].battery \in Reports)
    BY <2>1, <2>2 DEF Judging, Stressed, Callers
  <2> QED BY <2>1, <2>2, <2>3, <1>4 DEF Judging
<1>16. ASSUME NEW p \in Procs, Reconcile(p) PROVE Trail'
  <2>1. /\ \E s \in {"logStress", "ended"} : step' = [step EXCEPT ![p] = s]
        /\ \A q \in Procs : q # p => view'[q] = view[q]
        /\ step'[p] = "logStress" => view'[p].battery \in Reports
        /\ step[p] \in Judging /\ step[p] # "ended" /\ UNCHANGED <<runs, report>>
    BY <1>16 DEF Reconcile, Finish, Move, Callers, Judging, Trail, Stressed, Blank
  <2>2. PICK s \in {"logStress", "ended"} : step' = [step EXCEPT ![p] = s]
    BY <2>1
  <2>3. s \in Judging \cup {"ended"} /\ (s \in Stressed => view'[p].battery \in Reports)
    BY <2>1, <2>2 DEF Judging, Stressed, Callers
  <2> QED BY <2>1, <2>2, <2>3, <1>4 DEF Judging
<1>17. ASSUME NEW p \in Procs, LogStress(p) PROVE Trail'
  <2>1. /\ step[p] = "logStress" /\ report' = report
        /\ runs' = [runs EXCEPT ![p] = runs[p] \o Logs(p, Tests)]
        /\ \E s \in {"gate", "ended"} : step' = [step EXCEPT ![p] = s]
        /\ \A q \in Procs : q # p => view'[q] = view[q]
        /\ step'[p] = "gate" => view'[p] = view[p]
    BY <1>17 DEF LogStress, LogRuns, Finish, Move, Callers
  <2>2. runs[p] = << >>
    BY <2>1 DEF Trail, Judging
  <2>3. /\ IsBattery(runs'[p], view[p].battery) /\ DOMAIN runs' = Procs
        /\ view[p].battery \in Reports
        /\ \A q \in Procs : q # p => runs'[q] = runs[q]
    BY <2>1, <2>2, BatteryLogged DEF Trail, Stressed
  <2>4. PICK s \in {"gate", "ended"} : step' = [step EXCEPT ![p] = s]
    BY <2>1
  <2>5. /\ s \notin Judging /\ s \notin {"open", "fill"}
        /\ s \in Stressed \/ s = "gate" => view'[p] = view[p]
    BY <2>1, <2>4 DEF Judging, Stressed, Callers
  <2>6. /\ step[p] # "ended" /\ report' = report
        /\ \A q \in Procs : q # p => view'[q] = view[q] /\ runs'[q] = runs[q]
    BY <2>1, <2>3
  <2> QED BY <2>3, <2>4, <2>5, <2>6, <1>2
<1>18. ASSUME NEW p \in Procs, LogVerdict(p) PROVE Trail'
  <2> DEFINE verdict == ReportOf(p)
  <2>1. /\ step[p] = "gate" /\ step' = [step EXCEPT ![p] = "open"] /\ report' = report
        /\ runs' = [runs EXCEPT ![p] = runs[p] \o <<[stage |-> "kill_gate", verdict |-> verdict]>>]
        /\ view'[p].report = verdict
        /\ \A q \in Procs : q # p => view'[q] = view[q]
    BY <1>18 DEF LogVerdict, LogRuns, Move, Callers, Blank
  <2>2. verdict.command = p
    BY DEF ReportOf
  <2>3. /\ view[p].battery \in Reports /\ IsBattery(runs[p], view[p].battery)
        /\ verdict.verdict = "PASS" => BatteryPasses(view[p].battery)
    BY <2>1, PassNeedsBattery DEF Trail, Stressed, ReportOf
  <2> HIDE DEF verdict
  <2>4. /\ IsVerdict(runs'[p], view'[p].report) /\ DOMAIN runs' = Procs
        /\ \A q \in Procs : q # p => runs'[q] = runs[q]
    BY <2>1, <2>3, VerdictLogged DEF Trail
  <2>5. "open" \notin Judging /\ "open" \notin Stressed
    BY DEF Judging, Stressed
  <2> QED BY <2>1, <2>2, <2>4, <2>5, <1>2
<1>19. ASSUME NEW p \in Procs, OpenReport(p) PROVE Trail'
  <2>1. /\ step[p] = "open" /\ step' = [step EXCEPT ![p] = "fill"] /\ report' = Torn
        /\ view' = view /\ runs' = runs
    BY <1>19 DEF OpenReport, Move
  <2>2. ~ OnFile' /\ "fill" \notin Judging /\ "fill" \notin Stressed
    BY <2>1 DEF OnFile, Judging, Stressed
  <2>3. view[p].report.command = p /\ IsVerdict(runs[p], view[p].report) /\ DOMAIN runs = Procs
    BY <2>1 DEF Trail
  <2> QED BY <2>1, <2>2, <2>3, <1>2
<1>20. ASSUME NEW p \in Procs, FillReport(p) PROVE Trail'
  <2>1. /\ step[p] = "fill" /\ step' = [step EXCEPT ![p] = "ended"]
        /\ report' = view[p].report /\ runs' = runs
        /\ \A q \in Procs : q # p => view'[q] = view[q]
    BY <1>20 DEF FillReport, Finish, Move, Callers
  <2>2. report'.command = p /\ IsVerdict(runs[p], report') /\ DOMAIN runs = Procs
    BY <2>1 DEF Trail
  <2>3. "ended" \notin Judging /\ "ended" \notin Stressed
    BY DEF Judging, Stressed
  <2> QED BY <2>1, <2>2, <2>3, <1>2
<1>21. ASSUME NEW p \in Procs, Crash(p) PROVE Trail'
  BY <1>21, <1>4 DEF Crash, Finish, Move, Callers, Judging, Stressed
<1> QED BY <1>3, <1>5, <1>6, <1>7, <1>8, <1>9, <1>10, <1>11, <1>12, <1>13, <1>14,
           <1>15, <1>16, <1>17, <1>18, <1>19, <1>20, <1>21 DEF DeskNext

------------------------------------------------------------------------------
(* What the commands leave on file.                                        *)

LEMMA DeskInitInv == DeskInit => DeskInv
<1> SUFFICES ASSUME DeskInit PROVE DeskInv
  OBVIOUS
<1>1. IInv
  BY InitInv DEF DeskInit
<1>2. Callers
  <2>1. pc = [p \in Writers \cup Readers |-> "idle"]
    BY DEF DeskInit, Init
  <2> QED BY <2>1, DeskAssumption DEF DeskInit, Callers, Writing, Procs
<1>3. Trail
  BY DEF DeskInit, Trail, OnFile, Stressed
<1> QED BY <1>1, <1>2, <1>3 DEF DeskInv

\* The registry's invariant, and what a command logged by the time it is where it
\* is, whatever the commands, their number and order, and wherever they die.
THEOREM DeskInvariance == DeskSpec => []DeskInv
<1>1. DeskInv /\ [DeskNext]_allVars => DeskInv'
  BY DeskKeepsRegistry, CallersStep, TrailStep DEF DeskInv
<1> QED BY <1>1, DeskInitInv, PTL DEF DeskSpec

\* The commands never load the card of one registration with the model of another.
THEOREM DeskLoadsAreWhole == DeskSpec => []LoadedIsOneRegistration
<1>1. DeskInv => LoadedIsOneRegistration
  BY DEF DeskInv, IInv
<1> QED BY <1>1, DeskInvariance, PTL

\* What a training registered stays on file as it was returned.
THEOREM DeskVersionsAreKept == DeskSpec => []EveryVersionKept
<1>1. DeskInv => EveryVersionKept
  BY DEF DeskInv, IInv, Kept, EveryVersionKept
<1> QED BY <1>1, DeskInvariance, PTL

\* A log whose last record is the verdict and in which each test stands once ...
Audits(log, verdict) ==
    /\ log # << >> /\ Last(log) = [stage |-> "kill_gate", verdict |-> verdict]
    /\ \A k \in DOMAIN Tests :
          Cardinality({j \in DOMAIN log : log[j].stage = "robustness"
                                            /\ log[j].test = Tests[k]}) = 1

LEMMA AppendedLast ==
    ASSUME NEW S, NEW seq \in Seq(S), NEW elt \in S
    PROVE  /\ Len(Append(seq, elt)) = Len(seq) + 1
           /\ Append(seq, elt)[Len(seq) + 1] = elt
OBVIOUS

\* ... is what a verdict behind a battery makes.
LEMMA VerdictIsAudited ==
    ASSUME NEW log, NEW verdict, IsVerdict(log, verdict)
    PROVE  Audits(log, verdict)
<1> DEFINE v == [stage |-> "kill_gate", verdict |-> verdict]
<1>1. PICK numbers, battery : /\ numbers \in Reports
                              /\ IsBattery(battery, numbers) /\ log = Append(battery, v)
  BY DEF IsVerdict
<1>2. v.stage = "kill_gate"
  OBVIOUS
<1> HIDE DEF v
<1> DEFINE S == {battery[k] : k \in 1 .. 6} \cup {v}
<1>3. battery \in Seq(S) /\ v \in S /\ Len(battery) = 6
  BY <1>1, SeqMonotonic DEF IsBattery
<1> HIDE DEF S
<1>4. /\ log \in Seq(S) /\ Len(log) = 7 /\ log[7] = v
      /\ \A k \in 1 .. 6 : log[k] = battery[k]
  <2>1. log = Append(battery, v) /\ Len(battery) = 6
    BY <1>1, <1>3
  <2>2. log \in Seq(S)
    BY <2>1, <1>3
  <2>6. /\ Len(Append(battery, v)) = Len(battery) + 1
        /\ Append(battery, v)[Len(battery) + 1] = v
    BY ONLY <1>3, AppendedLast
  <2>5. Len(log) = 7
    BY ONLY <2>6, <2>1
  <2>3. log[7] = v
    BY ONLY <2>6, <2>1
  <2>4. \A k \in 1 .. 6 : log[k] = battery[k]
    BY <2>1, <1>3
  <2> QED BY <2>2, <2>3, <2>4, <2>5
<1>5. DOMAIN log = 1 .. 7 /\ log # << >> /\ Last(log) = v
  <2>1. DOMAIN log = 1 .. 7
    BY <1>4, LenProperties
  <2>2. log # << >>
    BY <2>1
  <2>3. Last(log) = log[Len(log)]
    BY DEF Last
  <2> QED BY <2>1, <2>2, <2>3, <1>4
<1>6. \A k \in 1 .. 6 : log[k].stage = "robustness" /\ log[k].test = Tests[k]
  BY <1>1, <1>4 DEF IsBattery
<1>7. ASSUME NEW k \in DOMAIN Tests
      PROVE  Cardinality({j \in DOMAIN log : log[j].stage = "robustness"
                                               /\ log[j].test = Tests[k]}) = 1
  <2>1. k \in 1 .. 6 /\ \A j \in 1 .. 6 : Tests[j] = Tests[k] => j = k
    BY DEF Tests
  <2>2. \A j \in DOMAIN log :
           log[j].stage = "robustness" /\ log[j].test = Tests[k] <=> j = k
    <3>1. \A j \in 1 .. 7 : j \in 1 .. 6 \/ j = 7
      OBVIOUS
    <3>2. log[7].stage # "robustness" /\ k # 7
      BY <1>2, <1>4, <2>1
    <3> QED BY <3>1, <3>2, <2>1, <1>5, <1>6
  <2>3. k \in DOMAIN log
    BY <1>5, <2>1
  <2>4. {j \in DOMAIN log : log[j].stage = "robustness" /\ log[j].test = Tests[k]} = {k}
    BY <2>2, <2>3
  <2> QED BY <2>4, FS_Singleton
<1> QED BY <1>5, <1>7 DEF v, Audits

\* The least level of noise is a level.
LEMMA LeastLevel ==
    ASSUME NEW S, IsFiniteSet(S), S \subseteq Int, S # {}
    PROVE  Min(S) \in S
<1>1. \E x \in S : \A y \in S : x <= y
  BY LeastElement
<1> QED BY <1>1 DEF Min

\* A battery that passes is contradicted by none of its numbers.
LEMMA PassSurvives ==
    ASSUME NEW b \in Reports, BatteryPasses(b)
    PROVE  /\ ~ (b.sensitivity[Baseline] > 0
                    /\ \E v \in DOMAIN b.sensitivity : b.sensitivity[v] < 0)
           /\ \/ b.sensitivity[Baseline] <= 0
              \/ \E k \in DOMAIN b.noise : b.noise[k] > 0
           /\ ~ (100 * Total(b.synthetic) > Bars.syntheticEdge * Len(b.synthetic))
           /\ OrderRobust(b.path, b.orders)
           /\ \E k \in DOMAIN b.cross : b.cross[k] > 0
           /\ b.reconciled
<1>1. PICK t \in Batteries : ~ BatteryRaises(t) /\ b = BatteryReport(t)
  BY DEF Reports
<1>2. /\ b.sensitivity = t.variants /\ b.noise = NoiseByLevel(t) /\ b.cross = t.held
      /\ DOMAIN b.noise = DOMAIN t.repeats
  BY <1>1 DEF BatteryReport, NoiseByLevel
<1>3. ~ (b.sensitivity[Baseline] > 0
            /\ \E v \in DOMAIN b.sensitivity : b.sensitivity[v] < 0)
  BY DEF BatteryPasses, IsKnifeEdge, FlipsSign
<1>4. b.sensitivity[Baseline] <= 0 \/ \E k \in DOMAIN b.noise : b.noise[k] > 0
  <2>1. Min(DOMAIN b.noise) \in DOMAIN b.noise
    BY <1>1, <1>2, LeastLevel, BatteryAssumption DEF BatteryRaises, NoiseRaises
  <2> QED BY <2>1 DEF BatteryPasses, EdgePersists
<1>5. \E k \in DOMAIN b.cross : b.cross[k] > 0
  <2> DEFINE D == DOMAIN b.cross
             keys == SetToSeq(D)
             s == ValuesOf(b.cross)
             Up == {i \in DOMAIN s : s[i] > 0}
  <2>1. IsFiniteSet(D) /\ Cardinality(D) \in Nat /\ Cardinality(D) >= 2
    BY <1>1, <1>2, BatteryAssumption, FS_CardinalityType DEF BatteryRaises, CrossSymbolRaises
  <2>2. keys \in [1 .. Cardinality(D) -> D]
    <3>1. ExistsBijection(1 .. Cardinality(D), D)
      BY <2>1, FS_CardinalityType
    <3>2. \E f \in [1 .. Cardinality(D) -> D] : IsInjective(f)
      BY <3>1 DEF ExistsBijection, Bijection, Injection
    <3> QED BY <3>2 DEF SetToSeq
  <2>3. DOMAIN s = 1 .. Cardinality(D) /\ \A i \in DOMAIN s : s[i] = b.cross[keys[i]]
    BY <2>2 DEF ValuesOf
  <2>4. 2 * Cardinality(Up) >= Len(s) /\ Len(s) = Cardinality(D)
    BY <2>1, <2>3 DEF BatteryPasses, Generalizes, Count
  <2>5. Up # {}
    <3> HIDE DEF D, s, Up
    <3>1. Up = {} => Cardinality(Up) = 0
      BY FS_EmptySet
    <3> QED BY <3>1, <2>1, <2>4
  <2> QED BY <2>2, <2>3, <2>5
<1> QED BY <1>3, <1>4, <1>5 DEF BatteryPasses, EdgeDetected

\* What PassSurvivedTheBattery asks of a record of the tracker, given the battery's
\* others.
Survived(r, battery) ==
    LET n == r.numbers IN
    CASE r.test = "parameter_sensitivity" ->
            ~ (n[Baseline] > 0 /\ \E v \in DOMAIN n : n[v] < 0)
      [] r.test = "noise_injection" ->
            \E q \in battery : /\ q.test = "parameter_sensitivity"
                               /\ \/ q.numbers[Baseline] <= 0
                                  \/ \E k \in DOMAIN n : n[k] > 0
      [] r.test = "synthetic_data" -> ~ (100 * Total(n) > Bars.syntheticEdge * Len(n))
      [] r.test \in {"monte_carlo_shuffle", "two_engine_reconciliation"} -> n
      [] OTHER -> \E k \in DOMAIN n : n[k] > 0

\* A PASS behind a battery is contradicted by none of its records.
LEMMA VerdictSurvives ==
    ASSUME NEW log, NEW verdict, IsVerdict(log, verdict), verdict.verdict = "PASS",
           NEW r \in Range(Front(log))
    PROVE  Survived(r, Range(Front(log)))
<1> DEFINE v == [stage |-> "kill_gate", verdict |-> verdict]
<1>1. PICK b, before :
         b \in Reports /\ IsBattery(before, b) /\ log = Append(before, v) /\ BatteryPasses(b)
  BY DEF IsVerdict
<1> HIDE DEF v
<1>2. Front(log) = before
  <2> DEFINE S == {before[k] : k \in 1 .. 6} \cup {v}
  <2>1. before \in Seq(S) /\ v \in S
    BY <1>1, SeqMonotonic DEF IsBattery
  <2> HIDE DEF S
  <2>2. SubSeq(Append(before, v), 1, Len(before)) = before
    BY <2>1
  <2>3. Len(Append(before, v)) = Len(before) + 1 /\ Len(before) \in Nat
    BY <2>1, AppendProperties, LenProperties
  <2> QED BY <2>2, <2>3, <1>1 DEF Front
<1>3. DOMAIN before = 1 .. 6
  BY <1>1, LenProperties DEF IsBattery
<1>4. PICK k \in 1 .. 6 : r = before[k]
  BY <1>2, <1>3 DEF Range
<1>5. /\ before[1] \in Range(Front(log)) /\ before[1].test = "parameter_sensitivity"
      /\ before[1].numbers = b.sensitivity
  BY <1>1, <1>2, <1>3 DEF Range, IsBattery, Numbers, Tests
<1>6. r.test = Tests[k] /\ r.numbers = Numbers(b, Tests[k])
  BY <1>1, <1>4 DEF IsBattery
<1>7. CASE k = 1
  BY <1>6, <1>7, PassSurvives, <1>1 DEF Tests, Numbers, Survived
<1>8. CASE k = 2
  BY <1>5, <1>6, <1>8, PassSurvives, <1>1 DEF Tests, Numbers, Survived
<1>9. CASE k = 3
  BY <1>6, <1>9, PassSurvives, <1>1 DEF Tests, Numbers, Survived
<1>10. CASE k = 4
  BY <1>6, <1>10, PassSurvives, <1>1 DEF Tests, Numbers, Survived
<1>11. CASE k = 5
  BY <1>6, <1>11, PassSurvives, <1>1 DEF Tests, Numbers, Survived
<1>12. CASE k = 6
  BY <1>6, <1>12, PassSurvives, <1>1 DEF Tests, Numbers, Survived
<1> QED BY <1>7, <1>8, <1>9, <1>10, <1>11, <1>12

\* A strategy whose PASS is on file survived every test of its battery, whatever the
\* evidence and the battery computed.
THEOREM DeskPassesSurvived == DeskSpec => []PassSurvivedTheBattery
<1>1. DeskInv => PassSurvivedTheBattery
  <2>1. ASSUME DeskInv, OnFile, report.verdict = "PASS",
               NEW r \in Range(Front(runs[report.command]))
        PROVE  Survived(r, Range(Front(runs[report.command])))
    BY <2>1, VerdictSurvives DEF DeskInv, Trail
  <2> QED BY <2>1 DEF PassSurvivedTheBattery, Survived
<1> QED BY <1>1, DeskInvariance, PTL

\* The tracker holds what the report on file says, behind the whole battery.
THEOREM DeskReportsAreAudited == DeskSpec => []ReportIsAudited
<1>1. DeskInv => ReportIsAudited
  <2>1. DeskInv /\ OnFile => Audits(runs[report.command], report)
    BY VerdictIsAudited DEF DeskInv, Trail
  <2> QED BY <2>1 DEF ReportIsAudited, Audits
<1> QED BY <1>1, DeskInvariance, PTL

------------------------------------------------------------------------------
(* A mechanism study judges what was committed.  While the author keeps still,  *)
(* what the gate has read is still the document (Read), once git status was     *)
(* silent it is what is committed (Agreed), and commits stay what they are.     *)

Git == /\ commits \in Seq([text : Texts \cup {Absent}, at : Nat])
       /\ document \in Texts \cup {Absent} /\ staged \in Texts \cup {Absent}
       /\ clock \in Nat

Read   == gate.step \in {"status", "log"} /\ ~ touched => gate.text = document
Agreed == gate.step = "log" /\ ~ touched => document = staged /\ staged = AtHead

Admitted ==
    \A k \in DOMAIN granted :
        /\ granted[k].commit \in 1 .. Len(commits)
        /\ granted[k].still => granted[k].text = commits[granted[k].commit].text

StudyInv == Git /\ Read /\ Agreed /\ Admitted

\* A commit is added behind the others.
LEMMA CommitsGrow ==
    ASSUME Git, CommitStaged
    PROVE  /\ commits' \in Seq([text : Texts \cup {Absent}, at : Nat])
           /\ Len(commits') = Len(commits) + 1
           /\ \A k \in 1 .. Len(commits) : k \in 1 .. Len(commits') /\ commits'[k] = commits[k]
<1> DEFINE S == [text : Texts \cup {Absent}, at : Nat]
           c == [text |-> staged, at |-> clock]
<1>1. commits \in Seq(S) /\ c \in S /\ commits' = Append(commits, c)
  BY DEF Git, CommitStaged
<1> HIDE DEF S, c
<1>2. /\ commits' \in Seq(S) /\ Len(commits') = Len(commits) + 1
      /\ \A k \in 1 .. Len(commits) : commits'[k] = commits[k]
  BY <1>1, AppendProperties
<1>3. Len(commits) \in Nat
  BY <1>1, LenProperties
<1>4. \A k \in 1 .. Len(commits) : k \in 1 .. Len(commits')
  BY <1>2, <1>3
<1> QED BY <1>2, <1>4 DEF S

LEMMA StudyStarts == StudyInit => StudyInv
BY StudyAssumption DEF StudyInit, StudyInv, Git, Read, Agreed, Admitted, AtHead

\* What the author does is no step of the gate, and he is seen to have acted.
LEMMA AuthorKeeps ==
    ASSUME StudyInv,
           (\E text \in Texts \cup {Absent} : Edit(text)) \/ Stage \/ CommitStaged
    PROVE  StudyInv'
<1>1. touched' = TRUE /\ gate' = gate /\ granted' = granted
  BY DEF Edit, Stage, CommitStaged, AuthorActs
<1>2. CASE CommitStaged
  <2>1. Git'
    BY <1>2, CommitsGrow DEF StudyInv, Git, CommitStaged
  <2>2. Admitted'
    BY <1>1, <1>2, CommitsGrow DEF StudyInv, Admitted
  <2> QED BY <1>1, <2>1, <2>2 DEF StudyInv, Read, Agreed
<1>3. CASE (\E text \in Texts \cup {Absent} : Edit(text)) \/ Stage
  <2>1. commits' = commits /\ Git'
    BY <1>3 DEF StudyInv, Git, Edit, Stage
  <2> QED BY <1>1, <2>1 DEF StudyInv, Read, Agreed, Admitted
<1> QED BY <1>2, <1>3

\* The gate looks at the file, at git status, at git log.
LEMMA GateKeeps ==
    ASSUME StudyInv, LoadDocument \/ AskStatus \/ AskLog \/ GateRefuses
    PROVE  StudyInv'
<1>1. /\ UNCHANGED <<document, staged, commits, clock>> /\ Git'
      /\ AtHead' = AtHead
  BY DEF LoadDocument, AskStatus, AskLog, GateRefuses, RefuseStudy, repository, StudyInv, Git,
         AtHead
<1>2. CASE LoadDocument
  BY <1>1, <1>2 DEF LoadDocument, StudyInv, Read, Agreed, Admitted
<1>3. CASE AskStatus
  BY <1>1, <1>3 DEF AskStatus, IsDirty, StudyInv, Read, Agreed, Admitted
<1>4. CASE AskLog
  <2>1. Len(commits) \in Nat /\ Len(commits) > 0
    <3>1. commits \in Seq([text : Texts \cup {Absent}, at : Nat]) /\ commits # << >>
      BY <1>4 DEF AskLog, StudyInv, Git
    <3> QED BY <3>1
  <2>2. Len(commits) \in 1 .. Len(commits)
    BY <2>1
  <2>3. ~ touched => gate.text = commits[Len(commits)].text
    BY <1>4 DEF AskLog, StudyInv, Read, Agreed, AtHead, Last
  <2>4. Admitted'
    <3> DEFINE g == [text |-> gate.text, commit |-> Len(commits),
                     at |-> Last(commits).at, still |-> ~ touched]
    <3>1. granted' = <<g>>
      BY <1>4 DEF AskLog
    <3>2. g.commit = Len(commits) /\ g.text = gate.text /\ g.still = ~ touched
      OBVIOUS
    <3> HIDE DEF g
    <3>3. DOMAIN granted' = {1} /\ granted'[1] = g
      BY <3>1
    <3> QED BY <1>1, <2>2, <2>3, <3>2, <3>3 DEF Admitted
  <2> QED BY <1>1, <1>4, <2>4 DEF AskLog, StudyInv, Read, Agreed
<1>5. CASE GateRefuses
  BY <1>1, <1>5 DEF GateRefuses, RefuseStudy, StudyInv, Read, Agreed, Admitted
<1> QED BY <1>2, <1>3, <1>4, <1>5

\* The text that require_preregistration admits is the text of the commit it
\* names, for every author who keeps still while the gate looks, however often he
\* edits, stages and commits before and after.
THEOREM JudgedIsCommitted == StudySpec => []CommittedIsJudged
<1>1. ASSUME StudyInv, [StudyNext]_studyVars PROVE StudyInv'
  <2>1. CASE SecondPasses
    <3>1. Git'
      BY <1>1, <2>1 DEF StudyInv, Git, SecondPasses
    <3> QED BY <1>1, <2>1, <3>1
            DEF SecondPasses, StudyInv, Read, Agreed, Admitted, AtHead
  <2>2. CASE StartStudy \/ TryVariant \/ VariantRaises \/ ReportBest \/ UNCHANGED studyVars
    <3>1. UNCHANGED <<document, staged, commits, clock, gate, granted, touched>>
      BY <2>2 DEF StartStudy, TryVariant, VariantRaises, ReportBest, studyVars, repository
    <3> QED BY <1>1, <3>1 DEF StudyInv, Git, Read, Agreed, Admitted, AtHead
  <2> QED BY <1>1, <2>1, <2>2, AuthorKeeps, GateKeeps DEF StudyNext
<1>2. StudyInv => CommittedIsJudged
  BY DEF StudyInv, Admitted, CommittedIsJudged, Range
<1> QED BY <1>1, <1>2, StudyStarts, PTL DEF StudySpec
===============================================================================
