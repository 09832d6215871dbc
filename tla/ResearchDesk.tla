------------------------------ MODULE ResearchDesk ------------------------------
(***************************************************************************)
(* The commands of the research pipeline, each a process, run at the same  *)
(* time over one archive, one model registry, one experiment tracker and   *)
(* one report file:                                                        *)
(*                                                                         *)
(*   train     pipeline/final_run.py: pool the data, fit, log a run,       *)
(*             register the artifact, load it back and compare             *)
(*   stress    pipeline/robustness.py: the battery, on the latest artifact *)
(*   validate  pipeline/validation.py: judge the latest artifact, which    *)
(*             runs the battery on the way, log the verdict, write it      *)
(*                                                                         *)
(* The archive grows meanwhile; a process dies between any two steps.      *)
(* Training is deterministic, so an artifact is the version of the data    *)
(* it was fitted on.  The registry's own steps are those of ModelRegistry: *)
(* its Writers train, its other Readers stress or validate.                *)
(***************************************************************************)
EXTENDS ModelRegistry, Judgement

CONSTANTS
    MaxData,       \* bound: how often the backfill adds bars
    MaxCommands,   \* bound: commands that begin
    Evidence,      \* what a validation may compute
    Batteries,     \* what the stress tests may compute
    PanelOrder     \* the candidate configurations, in the order of the panel

\* A training reads back what it registered, and pickles what the data gave.
ASSUME DeskAssumption ==
    Writers \subseteq Readers /\ MaxData \in Nat /\ 1 .. MaxData \subseteq Artifacts

\* The numbers of a battery: finitely many levels, finitely many symbols.
ASSUME BatteryAssumption ==
    \A t \in Batteries :
        /\ IsFiniteSet(DOMAIN t.repeats) /\ DOMAIN t.repeats \subseteq Int
        /\ IsFiniteSet(DOMAIN t.held) /\ \A s \in DOMAIN t.held : t.held[s] \in Int \cup {Undefined}

Procs == Writers \cup Readers

\* One symbol has events after the first backfill, two after the second.
SymbolsWithEvents(d) == Min({d, 2})

\* The runs _log_battery writes, in its order.
Tests == <<"parameter_sensitivity", "noise_injection", "monte_carlo_shuffle",
           "cross_symbol", "synthetic_data", "two_engine_reconciliation">>

VARIABLES
    data,       \* how often the archive has grown
    step,       \* step[p]: where the command of p stands
    view,       \* view[p]: what the command of p has read and computed
    runs,       \* runs[p]: the runs p logged in the tracker, in order
    report      \* the report file

deskVars == <<data, step, view, runs, report>>
allVars  == <<vars, deskVars>>

\* data and stressData: what the pools were built on; model and stressModel:
\* the versions loaded; e and battery: what was computed on them; inner: is the
\* battery part of a validation?  report: what the command will write.
Blank == [data |-> 0, stressData |-> 0, model |-> None, stressModel |-> None,
          e |-> None, battery |-> None, report |-> None, inner |-> FALSE]

DeskInit ==
    /\ Init
    /\ data = 0 /\ report = None
    /\ runs = [p \in Procs |-> << >>]
    /\ step = [p \in Procs |-> "begin"]
    /\ view = [p \in Procs |-> Blank]

Move(p, label) == step' = [step EXCEPT ![p] = label]

MayBegin(p) ==
    /\ step[p] = "begin"
    /\ Cardinality({q \in Procs : step[q] # "begin"}) < MaxCommands

\* The command ends, or an error leaves it.
Finish(p) ==
    /\ Move(p, "ended")
    /\ view' = [view EXCEPT ![p] = Blank]

\* The backfill adds bars to the archive.
Grow ==
    /\ data < MaxData
    /\ data' = data + 1
    /\ UNCHANGED <<vars, step, view, runs, report>>

\* log_run: one record more in the tracker; LogRuns, several in a row.
LogRuns(p, records) == runs' = [runs EXCEPT ![p] = @ \o records]

------------------------------------------------------------------------------
(* train_final_model and its command.                                      *)

\* build_pooled_dataset raises without a labelled event; EnsembleTrainer.train
\* fits and logs the run, then the gate is fitted.
Train(p) ==
    /\ p \in Writers /\ MayBegin(p)
    /\ IF SymbolsWithEvents(data) = 0 THEN Finish(p) /\ UNCHANGED runs
       ELSE /\ view' = [view EXCEPT ![p].data = data]
            /\ LogRuns(p, <<[stage |-> "train", data |-> data]>>)
            /\ Move(p, "register")
    /\ UNCHANGED <<vars, data, report>>

\* register() of the ensemble with its gate; the tags name symbols and window,
\* which a backfill of the window does not change.
RegisterArtifact(p) ==
    /\ step[p] = "register"
    /\ \E tags \in Tags : Register(p, view[p].data, tags)
    /\ Move(p, "writing")
    /\ UNCHANGED <<data, view, runs, report>>

WriteFiles(p) ==
    /\ step[p] = "writing"
    /\ MakeDir(p) \/ OpenModel(p) \/ FillModel(p) \/ OpenCard(p)
    /\ UNCHANGED deskVars

WriteCard(p) ==
    /\ step[p] = "writing"
    /\ view' = [view EXCEPT ![p].model = job[p].version]
    /\ FillCard(p)
    /\ Move(p, "readBack")
    /\ UNCHANGED <<data, runs, report>>

\* registry.get(card.model_id)
ReadBack(p) ==
    /\ step[p] = "readBack"
    /\ Get(p, view[p].model)
    /\ Move(p, "compare")
    /\ UNCHANGED <<data, view, runs, report>>

\* _roundtrip_max_abs_diff: the exit code says whether the artifact read back
\* predicts as the one in memory does.
Compare(p) ==
    /\ step[p] = "compare" /\ pc[p] = "idle"
    /\ Finish(p)
    /\ UNCHANGED <<vars, data, runs, report>>

------------------------------------------------------------------------------
(* build_validation_report, up to the battery.                             *)

PoolForJudging(p) ==
    /\ p \notin Writers /\ MayBegin(p)
    /\ IF SymbolsWithEvents(data) = 0 THEN Finish(p)
       ELSE /\ view' = [view EXCEPT ![p].data = data, ![p].inner = TRUE]
            /\ Move(p, "judgeLoad")
    /\ UNCHANGED <<vars, data, runs, report>>

\* _load_artifact: registry.latest() of the configured name.
LoadLatest(p) ==
    /\ step[p] \in {"judgeLoad", "stressLoad"}
    /\ Latest(p)
    /\ Move(p, IF step[p] = "judgeLoad" THEN "judging" ELSE "reconcile")
    /\ UNCHANGED <<data, view, runs, report>>

\* The reads of get() and latest().
LoadFiles(p) ==
    /\ LoadCard(p) \/ LoadModel(p)
    /\ UNCHANGED deskVars

\* Everything computed on the first pool and artifact: net CPCV, the panel of
\* candidates, PBO, regimes, walk-forward.  No artifact, an unreadable one or a
\* panel too short for PBO raises.
Judge(p) ==
    /\ step[p] = "judging" /\ pc[p] = "idle"
    /\ IF ~ Loaded(p) THEN Finish(p)
       ELSE \E e \in Evidence :
              IF PanelTooShort(e.panel) THEN Finish(p)
              ELSE /\ view' = [view EXCEPT ![p].model = answer[p].card.version,
                                           ![p].e = e]
                   /\ Move(p, "stress")
    /\ UNCHANGED <<vars, data, runs, report>>

------------------------------------------------------------------------------
(* run_robustness_battery, as a command of its own or within a validation. *)

\* The battery pools the archive for itself ...
Stress(p) ==
    /\ step[p] = "stress" \/ (p \notin Writers /\ MayBegin(p))
    /\ IF SymbolsWithEvents(data) = 0 THEN Finish(p)
       ELSE /\ view' = [view EXCEPT ![p].stressData = data]
            /\ Move(p, "perSymbol")
    /\ UNCHANGED <<vars, data, runs, report>>

\* ... and reads every symbol once more, of which two must have events.  A test
\* that cannot run raises.
StressEach(p) ==
    /\ step[p] = "perSymbol"
    /\ IF SymbolsWithEvents(data) < 2 THEN Finish(p)
       ELSE \E t \in Batteries :
              IF BatteryRaises(t) THEN Finish(p)
              ELSE /\ view' = [view EXCEPT ![p].battery = BatteryReport(t)]
                   /\ Move(p, "stressLoad")
    /\ UNCHANGED <<vars, data, runs, report>>

\* A second latest(); the artifact drives the two engines, whose agreement is
\* part of the battery.
Reconcile(p) ==
    /\ step[p] = "reconcile" /\ pc[p] = "idle"
    /\ IF ~ Loaded(p) THEN Finish(p)
       ELSE /\ view' = [view EXCEPT ![p].stressModel = answer[p].card.version]
            /\ Move(p, "logStress")
    /\ UNCHANGED <<vars, data, runs, report>>

\* The numbers of a test, as the tracker keeps them.
Numbers(b, test) ==
    CASE test = "parameter_sensitivity" -> b.sensitivity
      [] test = "noise_injection"       -> b.noise
      [] test = "monte_carlo_shuffle"   -> OrderRobust(b.path, b.orders)
      [] test = "cross_symbol"          -> b.cross
      [] test = "synthetic_data"        -> b.synthetic
      [] OTHER                          -> b.reconciled

Logs(p, tests) ==
    [k \in DOMAIN tests |->
        [stage |-> "robustness", model |-> view[p].stressModel, test |-> tests[k],
         numbers |-> Numbers(view[p].battery, tests[k])]]

\* A slip the runs must notice: the last test is not logged.
LogStressButLast(p) ==
    /\ step[p] = "logStress"
    /\ LogRuns(p, Logs(p, Front(Tests)))
    /\ IF view[p].inner THEN Move(p, "gate") /\ UNCHANGED view ELSE Finish(p)
    /\ UNCHANGED <<vars, data, report>>

\* _log_battery, after which the command of its own ends.  A process that dies
\* on the way leaves the first runs, which nothing reads.
LogStress(p) ==
    /\ step[p] = "logStress"
    /\ LogRuns(p, Logs(p, Tests))
    /\ IF view[p].inner THEN Move(p, "gate") /\ UNCHANGED view ELSE Finish(p)
    /\ UNCHANGED <<vars, data, report>>

------------------------------------------------------------------------------
(* The verdict.                                                            *)

\* The report names the first artifact and the first pool; the battery enters by
\* what it concluded.
ReportOf(p) == LET v == view[p] IN
    [command |-> p, model |-> v.model, data |-> v.data,
     trials  |-> Cardinality(DOMAIN v.e.panel),
     verdict |-> Verdict(Criteria(v.e, PanelOrder, BatteryPasses(v.battery)))]

\* A slip the runs must notice: the verdict is not logged.
LogNothing(p) ==
    /\ step[p] = "gate"
    /\ view' = [view EXCEPT ![p].report = ReportOf(p)]
    /\ Move(p, "open")
    /\ UNCHANGED <<vars, data, runs, report>>

\* _log_report, before the command writes the file.
LogVerdict(p) ==
    /\ step[p] = "gate"
    /\ LET verdict == ReportOf(p) IN
       /\ LogRuns(p, <<[stage |-> "kill_gate", verdict |-> verdict]>>)
       /\ view' = [view EXCEPT ![p].e = None, ![p].battery = None,
                               ![p].report = verdict]
    /\ Move(p, "open")
    /\ UNCHANGED <<vars, data, report>>

\* _write_output: write_text truncates the file, then fills it.
OpenReport(p) ==
    /\ step[p] = "open"
    /\ report' = Torn
    /\ Move(p, "fill")
    /\ UNCHANGED <<vars, data, view, runs>>

FillReport(p) ==
    /\ step[p] = "fill"
    /\ report' = view[p].report
    /\ Finish(p)
    /\ UNCHANGED <<vars, data, runs>>

EndRead(p) ==
    /\ EndLoad(p, Nil)
    /\ UNCHANGED <<disk, job, past>>

\* The process dies.  The next command finds the files, not the view.
Crash(p) ==
    /\ step[p] \notin {"begin", "ended"}
    /\ IF pc[p] = "idle" THEN UNCHANGED vars
       ELSE IF p \in Writers THEN Abandon(p) ELSE EndRead(p)
    /\ Finish(p)
    /\ UNCHANGED <<data, runs, report>>

DeskNext ==
    \/ Grow
    \/ \E p \in Procs :
         \/ Train(p) \/ RegisterArtifact(p) \/ WriteFiles(p) \/ WriteCard(p)
         \/ ReadBack(p) \/ Compare(p)
         \/ PoolForJudging(p) \/ LoadLatest(p) \/ LoadFiles(p) \/ Judge(p)
         \/ Stress(p) \/ StressEach(p) \/ Reconcile(p) \/ LogStress(p)
         \/ LogVerdict(p) \/ OpenReport(p) \/ FillReport(p) \/ Crash(p)

DeskSpec == DeskInit /\ [][DeskNext]_allVars

------------------------------------------------------------------------------
(* Properties.                                                             *)

OnFile == report \notin {None, Torn}

\* The report on file can be audited: whatever died when, and whichever other
\* command wrote the file meanwhile, the tracker holds the verdict as the file
\* states it, and before it every test of the battery, once each.
ReportIsAudited ==
    OnFile =>
        LET log == runs[report.command]
            Of(test) == {j \in DOMAIN log : log[j].stage = "robustness"
                                              /\ log[j].test = test}
        IN  /\ log # << >>
            /\ Last(log) = [stage |-> "kill_gate", verdict |-> report]
            /\ \A k \in DOMAIN Tests : Cardinality(Of(Tests[k])) = 1

\* A strategy that passes has survived every test that can be read off the
\* tracker: a PASS on file is contradicted by no number the battery logged.  (Of a
\* baseline that loses, noise is asked for nothing: the battery pools the archive
\* for itself, and may find no edge where the validation found one.)
PassSurvivedTheBattery ==
    OnFile /\ report.verdict = "PASS" =>
        LET battery == Range(Front(runs[report.command])) IN
        \A r \in battery :
           LET n == r.numbers IN
           CASE r.test = "parameter_sensitivity" ->
                   ~ (n[Baseline] > 0 /\ \E v \in DOMAIN n : n[v] < 0)
             [] r.test = "noise_injection" ->
                   \E q \in battery : /\ q.test = "parameter_sensitivity"
                                      /\ \/ q.numbers[Baseline] <= 0
                                         \/ \E k \in DOMAIN n : n[k] > 0
             [] r.test = "synthetic_data" ->
                   ~ (100 * Total(n) > Bars.syntheticEdge * Len(n))
             [] r.test \in {"monte_carlo_shuffle",
                                  "two_engine_reconciliation"} -> n
             [] OTHER -> \E k \in DOMAIN n : n[k] > 0

==============================================================================
