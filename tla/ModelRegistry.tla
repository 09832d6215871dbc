----------------------------- MODULE ModelRegistry -----------------------------
(***************************************************************************)
(* The file registry of trained models (quant/research/models/registry.py):*)
(* register() reads the version directories, takes the next number, makes  *)
(* the directory and writes model.pkl, then card.json; latest() and get()  *)
(* read the card, then the model, and compare fingerprints.  Every file    *)
(* operation is a step, so a reader, a second process or the end of the    *)
(* process can come between any two.                                       *)
(*                                                                         *)
(* One model name is modelled: names share no file.  What is registered is *)
(* an artifact (the pickled bytes) and the tags of its card; the           *)
(* fingerprint of an artifact is the artifact itself.                      *)
(***************************************************************************)
EXTENDS Integers, FiniteSets, FiniteSetsExt

CONSTANTS Writers, Readers,
          Artifacts,   \* what pickle.dumps returns
          Tags,        \* data, feature and label versions, metrics, ...
          MaxVersion,  \* bound: version directories
          None,        \* no file
          Torn         \* a file truncated and not filled

ASSUME RegistryAssumption == MaxVersion \in Nat \ {0}

Versions == 1 .. MaxVersion
Cards    == [version : Versions, fingerprint : Artifacts, tags : Tags]

\* No file and a file cut short are told from each other and from what is written.
ASSUME FilesAreTold ==
    /\ None # Torn
    /\ \A mark \in {None, Torn} : mark \notin Artifacts /\ mark \notin Cards

VARIABLES dir,        \* the version directories that exist
          model,      \* model[v]: the content of model.pkl
          card,       \* card[v]: the content of card.json
          pc,         \* pc[p]: where the register() or _load() of p stands
          job,        \* job[w]: the card register() is writing
          returned,   \* history: the cards register() has returned
          shared,     \* history: versions two calls were writing at one time
          seen,       \* seen[r]: version, and the card read so far
          answer      \* answer[r]: what its last latest() or get() gave

disk == <<dir, model, card>>
past == <<returned, shared>>
vars == <<disk, pc, job, past, seen, answer>>

Nil == [card |-> None, model |-> None]

TypeOK ==
    /\ dir \subseteq Versions
    /\ model \in [Versions -> Artifacts \cup {None, Torn}]
    /\ card \in [Versions -> Cards \cup {None, Torn}]
    /\ \A v \in Versions \ dir : model[v] = None /\ card[v] = None
    /\ pc \in [Writers \cup Readers -> {"idle", "mkdir", "openModel",
                  "fillModel", "openCard", "fillCard", "card", "model"}]
    /\ job \in [Writers -> Cards \cup {None}]
    /\ returned \subseteq Cards /\ shared \subseteq Versions
    /\ seen \in [Readers -> [version : Versions \cup {None},
                             card : Cards \cup {None}]]
    /\ answer \in [Readers -> [card : Cards, model : Artifacts]
                      \cup {Nil} \cup [error : {"missing", "unreadable",
                                                "mismatch", "unknown"}]]

Init ==
    /\ dir = {}
    /\ model = [v \in Versions |-> None]
    /\ card = [v \in Versions |-> None]
    /\ pc = [p \in Writers \cup Readers |-> "idle"]
    /\ job = [w \in Writers |-> None]
    /\ returned = {} /\ shared = {}
    /\ seen = [r \in Readers |-> [version |-> None, card |-> None]]
    /\ answer = [r \in Readers |-> Nil]

Goto(p, label) == pc' = [pc EXCEPT ![p] = label]

------------------------------------------------------------------------------
(* register().                                                             *)

\* A slip the runs must notice: the highest version is used again.
SameVersion == IF dir = {} THEN 1 ELSE Max(dir)

\* _next_version: max of the directories that exist, plus one.
NextVersion == IF dir = {} THEN 1 ELSE Max(dir) + 1

Register(w, artifact, tags) ==
    /\ pc[w] = "idle" /\ NextVersion \in Versions
    /\ job' = [job EXCEPT ![w] = [version |-> NextVersion,
                                  fingerprint |-> artifact, tags |-> tags]]
    /\ shared' = shared \cup {v \in {NextVersion} :
                   \E u \in Writers : job[u] # None /\ job[u].version = v}
    /\ Goto(w, "mkdir")
    /\ UNCHANGED <<disk, returned, seen, answer>>

\* mkdir(parents=True, exist_ok=True)
MakeDir(w) ==
    /\ pc[w] = "mkdir"
    /\ dir' = dir \cup {job[w].version}
    /\ Goto(w, "openModel")
    /\ UNCHANGED <<model, card, job, past, seen, answer>>

\* write_bytes and write_text truncate the file, then fill it.
OpenModel(w) ==
    /\ pc[w] = "openModel"
    /\ model' = [model EXCEPT ![job[w].version] = Torn]
    /\ Goto(w, "fillModel")
    /\ UNCHANGED <<dir, card, job, past, seen, answer>>

FillModel(w) ==
    /\ pc[w] = "fillModel"
    /\ model' = [model EXCEPT ![job[w].version] = job[w].fingerprint]
    /\ Goto(w, "openCard")
    /\ UNCHANGED <<dir, card, job, past, seen, answer>>

OpenCard(w) ==
    /\ pc[w] = "openCard"
    /\ card' = [card EXCEPT ![job[w].version] = Torn]
    /\ Goto(w, "fillCard")
    /\ UNCHANGED <<dir, model, job, past, seen, answer>>

\* A slip the runs must notice: the model is written to card.json as well.
FillCardWithModel(w) ==
    /\ pc[w] = "fillCard"
    /\ card' = [card EXCEPT ![job[w].version] = job[w].fingerprint]
    /\ returned' = returned \cup {job[w]}
    /\ job' = [job EXCEPT ![w] = None]
    /\ Goto(w, "idle")
    /\ UNCHANGED <<dir, model, shared, seen, answer>>

FillCard(w) ==
    /\ pc[w] = "fillCard"
    /\ card' = [card EXCEPT ![job[w].version] = job[w]]
    /\ returned' = returned \cup {job[w]}
    /\ job' = [job EXCEPT ![w] = None]
    /\ Goto(w, "idle")
    /\ UNCHANGED <<dir, model, shared, seen, answer>>

\* The process dies, or a file operation raises out of register().
Abandon(w) ==
    /\ pc[w] # "idle"
    /\ job' = [job EXCEPT ![w] = None]
    /\ Goto(w, "idle")
    /\ UNCHANGED <<disk, past, seen, answer>>

------------------------------------------------------------------------------
(* get() and latest().                                                     *)

StartLoad(r, v) ==
    /\ seen' = [seen EXCEPT ![r] = [version |-> v, card |-> None]]
    /\ Goto(r, "card")
    /\ UNCHANGED answer

EndLoad(r, result) ==
    /\ answer' = [answer EXCEPT ![r] = result]
    /\ seen' = [seen EXCEPT ![r] = [version |-> None, card |-> None]]
    /\ Goto(r, "idle")

\* latest(): None when there is no directory, else load the highest.
Latest(r) ==
    /\ pc[r] = "idle"
    /\ IF dir = {} THEN EndLoad(r, Nil) ELSE StartLoad(r, Max(dir))
    /\ UNCHANGED <<disk, job, past>>

\* get(): an id whose card does not exist is unknown.
Get(r, v) ==
    /\ pc[r] = "idle"
    /\ IF card[v] = None THEN EndLoad(r, [error |-> "unknown"])
                         ELSE StartLoad(r, v)
    /\ UNCHANGED <<disk, job, past>>

\* _load: read_text and json.loads of the card ...
LoadCard(r) ==
    /\ pc[r] = "card"
    /\ LET found == card[seen[r].version] IN
       CASE found = None -> EndLoad(r, [error |-> "missing"])
         [] found = Torn -> EndLoad(r, [error |-> "unreadable"])
         [] OTHER        -> /\ seen' = [seen EXCEPT ![r].card = found]
                            /\ Goto(r, "model")
                            /\ UNCHANGED answer
    /\ UNCHANGED <<disk, job, past>>

\* A slip the runs must notice: the fingerprint is not compared.
LoadUnchecked(r) ==
    /\ pc[r] = "model"
    /\ LET found == model[seen[r].version] IN
       IF found \in Artifacts
         THEN EndLoad(r, [card |-> seen[r].card, model |-> found])
         ELSE EndLoad(r, [error |-> "mismatch"])
    /\ UNCHANGED <<disk, job, past>>

\* ... then the bytes of the model and the fingerprint check.
LoadModel(r) ==
    /\ pc[r] = "model"
    /\ LET found == model[seen[r].version] IN
       IF found = seen[r].card.fingerprint
         THEN EndLoad(r, [card |-> seen[r].card, model |-> found])
         ELSE EndLoad(r, [error |-> "mismatch"])
    /\ UNCHANGED <<disk, job, past>>

Next ==
    \/ \E w \in Writers :
          \/ \E a \in Artifacts, t \in Tags : Register(w, a, t)
          \/ MakeDir(w) \/ OpenModel(w) \/ FillModel(w)
          \/ OpenCard(w) \/ FillCard(w) \/ Abandon(w)
    \/ \E r \in Readers :
          \/ Latest(r) \/ LoadCard(r) \/ LoadModel(r)
          \/ \E v \in Versions : Get(r, v)

Spec == Init /\ [][Next]_vars

------------------------------------------------------------------------------
(* Properties.                                                             *)

Loaded(r) == answer[r] # Nil /\ "model" \in DOMAIN answer[r]

\* A model is never handed out with the record of another: whatever two
\* processes and their crashes leave in one directory, and however the read
\* interleaves with the writes, a load that succeeds returns the card and the
\* artifact of one register() call ("reproducible and auditable").
LoadedIsOneRegistration ==
    \A r \in Readers : Loaded(r) =>
        /\ answer[r].card \in returned
        /\ answer[r].model = answer[r].card.fingerprint

\* "The store is append-only": every version register() returned can be rolled
\* back to, whatever crashed before and after it, as long as no other process was
\* registering the same number at the time.
EveryVersionKept ==
    \A c \in returned :
        c.version \notin shared
            => card[c.version] = c /\ model[c.version] = c.fingerprint
==============================================================================
