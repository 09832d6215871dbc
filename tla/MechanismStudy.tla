---------------------------- MODULE MechanismStudy ----------------------------
(***************************************************************************)
(* A mechanism study by its protocol: the gate that admits a study on a    *)
(* committed pre-registration                                              *)
(* (quant/research/mechanisms/preregistration.py), while an author edits,  *)
(* stages and commits the document; then the study of cointegrated pairs   *)
(* (scripts/run_p7_pairs.py, mechanisms/pairs.py, spec.py), variant by     *)
(* variant, each a trial the result is deflated by (mechanisms/trials.py). *)
(*                                                                         *)
(* The gate looks three times: at the file, at git status, at git log.     *)
(* Which pairs cointegrate and what their paths earn is external: a        *)
(* variant finds no pair, or has a score.                                  *)
(***************************************************************************)
EXTENDS Integers, Sequences, SequencesExt, FiniteSetsExt

CONSTANTS
    Texts,       \* what the document may say: [says, declares, complete]
    Mechanism,   \* the id the gate is asked for
    Absent,      \* no document
    MaxEdits,    \* bound: edits of the document
    MaxCommits,  \* bound: commits that touch it
    MaxClock,    \* bound: seconds that pass
    NumVariants, \* how many the script tries
    Sharpes,     \* median path-Sharpes a variant may have
    StopBand

ASSUME StudyAssumption ==
    /\ NumVariants \in Nat \ {0} /\ Absent \notin Texts
    /\ {MaxEdits, MaxCommits, MaxClock} \subseteq Nat

VARIABLES document, staged,  \* in the working tree, in git's index
          commits,   \* those that touch the document: [text, at], the last one at HEAD
          edits, clock,
          gate,      \* [step, text] of require_preregistration()
          granted,   \* what it returned: at most one [text, commit, at], and as history
                     \* whether the author kept still meanwhile
          touched,   \* history: did the author act since the gate read the file?
          study,     \* "none", "running", "raised", "over"
          sharpes,   \* of the variants tried
          trialRuns,   \* runs logged to the in-memory tracker
          summary    \* [best, trials, escalate] of a study that is over

repository == <<document, staged, commits, edits, clock>>
script     == <<study, sharpes, trialRuns, summary>>
studyVars  == <<repository, gate, granted, touched, script>>

AtHead == IF commits = << >> THEN Absent ELSE Last(commits).text
NoReport == [best |-> 0, trials |-> 0, escalate |-> FALSE]

StudyInit ==
    /\ document = Absent /\ staged = Absent /\ commits = << >>
    /\ edits = 0 /\ clock = 0
    /\ gate = [step |-> "idle", text |-> Absent] /\ granted = << >> /\ touched = FALSE
    /\ study = "none" /\ sharpes = << >> /\ trialRuns = 0 /\ summary = NoReport

------------------------------------------------------------------------------
(* The author and git.                                                     *)

AuthorActs == touched' = TRUE /\ UNCHANGED <<gate, granted, script>>

Edit(text) ==
    /\ text # document /\ edits < MaxEdits
    /\ document' = text /\ edits' = edits + 1
    /\ AuthorActs /\ UNCHANGED <<staged, commits, clock>>

Stage ==
    /\ staged # document
    /\ staged' = document
    /\ AuthorActs /\ UNCHANGED <<document, commits, edits, clock>>

\* What is staged is committed, whatever the working tree holds by then.
CommitStaged ==
    /\ staged # AtHead /\ Len(commits) < MaxCommits
    /\ commits' = Append(commits, [text |-> staged, at |-> clock])
    /\ AuthorActs /\ UNCHANGED <<document, staged, edits, clock>>

SecondPasses ==
    /\ clock < MaxClock
    /\ clock' = clock + 1
    /\ UNCHANGED <<document, staged, commits, edits, gate, granted, touched, script>>

------------------------------------------------------------------------------
(* require_preregistration                                                 *)

RefuseStudy ==
    /\ gate' = [step |-> "idle", text |-> Absent]
    /\ UNCHANGED <<repository, granted, touched, script>>

\* load_preregistration: every field there, and the mechanism that was asked for.
IsAccepted(text) == text # Absent /\ text.complete /\ text.declares = Mechanism

LoadDocument ==
    /\ gate.step = "idle" /\ granted = << >>
    /\ IsAccepted(document)
    /\ gate' = [step |-> "status", text |-> document]
    /\ touched' = FALSE
    /\ UNCHANGED <<repository, granted, script>>

\* A slip the runs must notice: the index is taken for the file.
IsUncommitted == staged # AtHead

\* git status --porcelain says something of the document.
IsDirty == document # staged \/ staged # AtHead

AskStatus ==
    /\ gate.step = "status"
    /\ ~ IsDirty
    /\ gate' = [gate EXCEPT !.step = "log"]
    /\ UNCHANGED <<repository, granted, touched, script>>

\* _last_commit: the hash and the time of the last commit that touches it.
AskLog ==
    /\ gate.step = "log"
    /\ commits # << >>
    /\ granted' = <<[text |-> gate.text, commit |-> Len(commits), at |-> Last(commits).at,
                      still |-> ~ touched]>>
    /\ gate' = [step |-> "idle", text |-> Absent]
    /\ UNCHANGED <<repository, touched, script>>

\* The document is dirty or was never committed, or git fails.
GateRefuses == gate.step \in {"status", "log"} /\ RefuseStudy

------------------------------------------------------------------------------
(* The study.                                                              *)

\* verify_precedes(now) raises unless the commit is older.
StartStudy ==
    /\ study = "none" /\ granted # << >>
    /\ study' = IF granted[1].at < clock THEN "running" ELSE "raised"
    /\ UNCHANGED <<repository, gate, granted, touched, sharpes, trialRuns, summary>>

\* evaluate_spec_under_cpcv of one variant, then its run is logged.
TryVariant ==
    /\ study = "running" /\ Len(sharpes) < NumVariants
    /\ \E s \in Sharpes : sharpes' = Append(sharpes, s)
    /\ trialRuns' = trialRuns + 1
    /\ UNCHANGED <<repository, gate, granted, touched, study, summary>>

\* No month in which a pair could be traded: the whole script ends.
VariantRaises ==
    /\ study = "running" /\ Len(sharpes) < NumVariants
    /\ study' = "raised"
    /\ UNCHANGED <<repository, gate, granted, touched, sharpes, trialRuns, summary>>

\* The best variant is evaluated again and deflated by the trials of this process.
ReportBest ==
    /\ study = "running" /\ Len(sharpes) = NumVariants
    /\ summary' = [best |-> Max(Range(sharpes)), trials |-> Max({trialRuns, 1}),
                  escalate |-> Max(Range(sharpes)) >= StopBand]
    /\ study' = "over"
    /\ UNCHANGED <<repository, gate, granted, touched, sharpes, trialRuns>>

StudyNext ==
    \/ \E text \in Texts \cup {Absent} : Edit(text)
    \/ Stage \/ CommitStaged \/ SecondPasses
    \/ LoadDocument \/ AskStatus \/ AskLog \/ GateRefuses
    \/ StartStudy \/ TryVariant \/ VariantRaises \/ ReportBest

StudySpec == StudyInit /\ [][StudyNext]_studyVars

------------------------------------------------------------------------------
(* Properties.                                                             *)

\* "So the committed version is what is judged": the text the gate admits is
\* the text of the commit it names.  The file is read before git is asked, and
\* only an author who keeps still in between makes this true.
CommittedIsJudged ==
    \A g \in Range(granted) : g.still => g.text = commits[g.commit].text
===============================================================================
