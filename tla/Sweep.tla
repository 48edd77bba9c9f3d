------------------------------- MODULE Sweep -------------------------------
(***************************************************************************)
(* The sensitivity sweep (scripts/sensitivity_sweep.py) over the study     *)
(* driver (study/run_study.py).  Every variant has a directory with the    *)
(* study's files and its fit matrix; a later sweep into the same root      *)
(* reuses what it finds there.  The process may die between two writes or  *)
(* in the middle of one.                                                   *)
(*                                                                         *)
(* What a study measures depends on its configuration alone (the master    *)
(* seed is part of it), so a file is described by the configuration it     *)
(* was computed from.                                                      *)
(***************************************************************************)
EXTENDS StudyRules

CONSTANTS
    VARIANTS,      \* the variants besides the baseline, in order
    Worlds,        \* ways the measurements may come out
    Measured,      \* per world and configuration: the results of a study
    MaxSweeps,     \* bound: sweeps started
    MaxCrashes     \* bound: process deaths

ASSUME SweepAssumption == VARIANTS \in Seq(Range(VARIANTS))

\* configs/default.yaml, and one overlay per variant.
DefaultConfig == [n |-> 500, rho |-> 70]

overlay(name) ==
    CASE name = "n250"   -> [DefaultConfig EXCEPT !.n = 250]
      [] name = "n1000"  -> [DefaultConfig EXCEPT !.n = 1000]
      [] name = "n2000"  -> [DefaultConfig EXCEPT !.n = 2000]
      [] name = "n5000"  -> [DefaultConfig EXCEPT !.n = 5000]
      [] name = "rho050" -> [DefaultConfig EXCEPT !.rho = 50]
      [] name = "rho060" -> [DefaultConfig EXCEPT !.rho = 60]
      [] name = "rho080" -> [DefaultConfig EXCEPT !.rho = 80]
      [] OTHER           -> DefaultConfig

\* --quick shrinks n to at most 60.
variant_config(name, quick) ==
    IF quick THEN [overlay(name) EXCEPT !.n = Min({60, @})] ELSE overlay(name)

Names   == {"baseline"} \cup Range(VARIANTS)
Configs == {variant_config(m, q) : m \in Names, q \in BOOLEAN}
NoConfig == [n |-> 0, rho |-> 0]

\* A pattern runs a condition twice at least; a run takes time, costs something,
\* and under faults it fails or does not.
IsCondition(f, S) == f \in [Patterns -> Seq(S)] /\ \A p \in Patterns : Len(f[p]) >= 2

IsResults(r) ==
    /\ DOMAIN r = {"latency", "cost", "failed"}
    /\ \A pl \in Platforms :
          /\ \A sc \in Scenarios : /\ IsCondition(r.latency[pl][sc], Nat \ {0})
                                   /\ IsCondition(r.cost[pl][sc], Nat \ {0})
          /\ IsCondition(r.failed[pl], {0, 1})

ASSUME MeasuredAssumption == \A w \in Worlds, c \in Configs : IsResults(Measured[w][c])

\* absent, whole, or cut short by a crash during the write
File    == [state : {"absent", "whole", "torn"}, of : Configs \cup {NoConfig}]
FitFile == [state : {"absent", "whole", "torn"},
            latency : Configs \cup {NoConfig}, cost : Configs \cup {NoConfig}]
NoFile  == [state |-> "absent", of |-> NoConfig]
NoFit   == [state |-> "absent", latency |-> NoConfig, cost |-> NoConfig]

\* run_study writes its files in this order.
\* Mutant: the manifest is written before the tables.
manifestFirst == <<"manifest", "latency", "cost", "faults">>
StudyFiles == <<"latency", "cost", "faults", "manifest">>

VARIABLES
    world,       \* how the measurements come out; fixed
    disk,        \* per variant: the study's files
    fits_on_disk,\* per variant: fit_matrix.csv
    step,        \* where run_sweep is
    todo,        \* the names still to do
    quick, force,
    loaded,      \* per name done: the fit, latencies and costs in memory
    csv,         \* figures/sensitivity_sweep.csv: the grades of every name
    json,        \* figures/sensitivity_summary.json: the comparisons
    unfinished,  \* history: per variant, the configurations of the studies that
                 \* died in its directory since its last whole study
    modes,       \* history: values of quick swept with into this root
    sweeps, crashes

memory == <<step, todo, quick, force, loaded>>
figures == <<csv, json>>
vars == <<world, disk, fits_on_disk, memory, figures, unfinished, modes, sweeps, crashes>>

Entry == [fit : FitFile, latency : File, cost : File]
NoSummary == [quick |-> FALSE, force |-> FALSE, variants |-> <<>>]
NoRows    == <<>>

Init ==
    /\ world \in Worlds
    /\ disk = [m \in Names |-> [f \in Range(StudyFiles) |-> NoFile]]
    /\ fits_on_disk = [m \in Names |-> NoFit]
    /\ step = "idle" /\ todo = <<>> /\ quick = FALSE /\ force = FALSE
    /\ loaded = <<>>
    /\ csv = NoRows /\ json = NoSummary
    /\ unfinished = [m \in Names |-> {}]
    /\ modes = {} /\ sweeps = 0 /\ crashes = 0

\* --only leaves the baseline and one variant (or the baseline alone).
NameLists == {<<"baseline">> \o VARIANTS, <<"baseline">>}
                \cup {<<"baseline", m>> : m \in Range(VARIANTS)}

\* The command line: --only, --quick, --force.
Start(names, q, f) ==
    /\ step \in {"idle", "failed"} /\ sweeps < MaxSweeps
    /\ step' = "obtain" /\ todo' = names
    /\ quick' = q /\ force' = f
    /\ loaded' = <<>>
    /\ modes' = modes \cup {q}
    /\ sweeps' = sweeps + 1
    /\ UNCHANGED <<world, disk, fits_on_disk, figures, unfinished, crashes>>

name == Head(todo)
rdir(m) == m
cfg  == variant_config(name, quick)

(***************************************************************************)
(* The study of one variant                                                *)
(***************************************************************************)
Manifest == disk[rdir(name)]["manifest"]

\* The manifest is looked at unless --force is given.
Consults == ~force /\ Manifest.state # "absent"
Reuses   == Consults /\ Manifest.of = cfg

\* The first k files written.
WrittenFiles(k) ==
    [f \in Range(StudyFiles) |->
        IF \E i \in 1..k : StudyFiles[i] = f THEN [state |-> "whole", of |-> cfg]
        ELSE disk[rdir(name)][f]]

run_study ==
    /\ disk' = [disk EXCEPT ![rdir(name)] = WrittenFiles(Len(StudyFiles))]
    /\ unfinished' = [unfinished EXCEPT ![name] = {}]

Obtain ==
    /\ step = "obtain"
    /\ Consults => Manifest.state = "whole"
    /\ IF Reuses THEN UNCHANGED <<disk, unfinished>> ELSE run_study
    /\ step' = "grade"
    /\ UNCHANGED <<world, fits_on_disk, todo, quick, force, loaded, figures,
                   modes, sweeps, crashes>>

\* Reading a file cut short fails or yields what is left of it.
Readable(file) == file.state # "absent"
Intact(file)   == file.state = "whole"

(***************************************************************************)
(* The fit matrix of one variant, and what is read beside it               *)
(***************************************************************************)
Data(f)  == disk[rdir(name)][f]
StoredFit == fits_on_disk[rdir(name)]

\* The guard of the cached matrix: the file is there, and no --force.
\* Mutant: the cached matrix is reused under --force too.
reuseFitAlways == StoredFit.state # "absent"
ReusesFit == ~force /\ StoredFit.state # "absent"

\* build_fit_matrix reads latency.csv and cost.csv as they are.
BuiltFit ==
    [state   |-> IF Intact(Data("latency")) /\ Intact(Data("cost")) THEN "whole" ELSE "torn",
     latency |-> Data("latency").of, cost |-> Data("cost").of]

\* median latencies and headline contrasts read latency.csv and cost.csv again.
Loads(fit) ==
    loaded' = [m \in DOMAIN loaded \cup {name} |->
                  IF m # name THEN loaded[m]
                  ELSE [fit |-> fit, latency |-> Data("latency"), cost |-> Data("cost")]]

AfterName == IF Tail(todo) = <<>> THEN "publish" ELSE "obtain"

Grade ==
    /\ step = "grade"
    /\ Readable(Data("latency")) /\ Readable(Data("cost"))
    /\ \/ ReusesFit /\ Loads(StoredFit) /\ UNCHANGED fits_on_disk
       \/ /\ ~ReusesFit /\ Loads(BuiltFit)
          /\ fits_on_disk' = [fits_on_disk EXCEPT ![rdir(name)] = BuiltFit]
    /\ todo' = Tail(todo)
    /\ step' = AfterName
    /\ UNCHANGED <<world, disk, quick, force, figures, unfinished, modes, sweeps, crashes>>

(***************************************************************************)
(* The summary                                                             *)
(***************************************************************************)
ComputedFrom(w, fit) ==
    build_fit_matrix([latency |-> Measured[w][fit.latency].latency,
                      cost    |-> Measured[w][fit.cost].cost])

IntactEntry(e) == Intact(e.fit) /\ Intact(e.latency) /\ Intact(e.cost)

\* One variant of the summary; what torn tables add up to is left open.
report(w, base, var) ==
    IF ~IntactEntry(base) \/ ~IntactEntry(var) THEN [torn |-> TRUE]
    ELSE [fit_vs_baseline    |-> moving_cells(ComputedFrom(w, base.fit),
                                              ComputedFrom(w, var.fit)),
          kendall_tau        |-> compare_orderings(Measured[w][base.latency.of].latency,
                                                   Measured[w][var.latency.of].latency),
          headline_contrasts |-> headline_contrasts(Measured[w][var.latency.of].latency,
                                                    Measured[w][var.cost.of].cost)]

Rows    == [m \in DOMAIN loaded |-> loaded[m].fit]
Summary == [quick |-> quick, force |-> force,
            variants |-> [m \in DOMAIN loaded \ {"baseline"} |->
                            report(world, loaded["baseline"], loaded[m])]]

Publish ==
    /\ step = "publish"
    /\ csv' = Rows /\ json' = Summary
    /\ step' = "idle" /\ loaded' = <<>>
    /\ UNCHANGED <<world, disk, fits_on_disk, todo, quick, force, unfinished, modes,
                   sweeps, crashes>>

(***************************************************************************)
(* Failure                                                                 *)
(***************************************************************************)
\* A torn manifest does not parse; a missing or torn table raises.
Raise ==
    /\ \/ step = "obtain" /\ Consults /\ Manifest.state = "torn"
       \/ /\ step = "grade"
          /\ \/ \E f \in {"latency", "cost"} : ~Intact(Data(f))
             \/ ReusesFit /\ ~Intact(StoredFit)
    /\ step' = "failed" /\ todo' = <<>> /\ loaded' = <<>>
    /\ UNCHANGED <<world, disk, fits_on_disk, quick, force, figures, unfinished, modes,
                   sweeps, crashes>>

\* Death in the study: k files written, the next possibly cut short.
DiesInStudy ==
    /\ step = "obtain" /\ ~Reuses /\ (Consults => Manifest.state = "whole")
    /\ \E k \in 0..(Len(StudyFiles) - 1), cut \in BOOLEAN :
        disk' = [disk EXCEPT ![rdir(name)] =
            IF cut THEN [WrittenFiles(k) EXCEPT
                            ![StudyFiles[k + 1]] = [state |-> "torn", of |-> cfg]]
            ELSE WrittenFiles(k)]
    /\ unfinished' = [unfinished EXCEPT ![name] = @ \cup {cfg}]
    /\ UNCHANGED <<fits_on_disk, csv>>

\* Death before or in the write of the matrix.
DiesInGrade ==
    /\ step = "grade" /\ ~ReusesFit
    /\ Readable(Data("latency")) /\ Readable(Data("cost"))
    /\ fits_on_disk' = [fits_on_disk EXCEPT ![rdir(name)] = [BuiltFit EXCEPT !.state = "torn"]]
    /\ UNCHANGED <<disk, unfinished, csv>>

\* Death between the two summary files.
DiesInPublish ==
    /\ step = "publish"
    /\ csv' = Rows
    /\ UNCHANGED <<disk, fits_on_disk, unfinished>>

DiesBetweenWrites ==
    /\ step # "idle" /\ step # "failed"
    /\ UNCHANGED <<disk, fits_on_disk, unfinished, csv>>

Die ==
    /\ crashes < MaxCrashes
    /\ DiesInStudy \/ DiesInGrade \/ DiesInPublish \/ DiesBetweenWrites
    /\ step' = "idle" /\ todo' = <<>> /\ loaded' = <<>>
    /\ crashes' = crashes + 1
    /\ UNCHANGED <<world, quick, force, json, modes, sweeps>>

Next ==
    \/ \E names \in NameLists, q, f \in BOOLEAN : Start(names, q, f)
    \/ Obtain \/ Grade \/ Publish \/ Raise \/ Die

Spec == Init /\ [][Next]_vars

-----------------------------------------------------------------------------
TypeOK ==
    /\ world \in Worlds
    /\ disk \in [Names -> [Range(StudyFiles) -> File]]
    /\ fits_on_disk \in [Names -> FitFile]
    /\ step \in {"idle", "obtain", "grade", "publish", "failed"}
    /\ step \in {"obtain", "grade"} <=> todo # <<>>
    /\ Range(todo) \subseteq Names /\ quick \in BOOLEAN /\ force \in BOOLEAN
    /\ DOMAIN loaded \cap Range(todo) = {}
    /\ \A m \in DOMAIN loaded : loaded[m] \in Entry
    /\ unfinished \in [Names -> SUBSET Configs]
    /\ modes \in SUBSET BOOLEAN /\ sweeps \in 0..MaxSweeps /\ crashes \in 0..MaxCrashes

\* What a sweep of m in a fresh root would report.
FreshEntry(m, q) ==
    LET c == variant_config(m, q)
    IN  [fit     |-> [state |-> "whole", latency |-> c, cost |-> c],
         latency |-> [state |-> "whole", of |-> c],
         cost    |-> [state |-> "whole", of |-> c]]

ReportsFresh(summary) ==
    \A m \in DOMAIN summary.variants :
        summary.variants[m] = report(world, FreshEntry("baseline", summary.quick),
                                            FreshEntry(m, summary.quick))

(***************************************************************************)
(* Every comparison a summary makes is the one its configurations measure, *)
(* as long as no sweep died.  The sweep's test calls the reuse of results  *)
(* hash-guarded (tests/test_sensitivity_sweep.py:6), but the cached fit    *)
(* matrix is reused without looking at the hash: the run stale_fit.        *)
(***************************************************************************)
SummaryHonest == [][json' # json /\ crashes = 0 => ReportsFresh(json')]_vars

(***************************************************************************)
(* With --force a summary is right whatever earlier sweeps of the root, in *)
(* whatever mode, left behind, and wherever they died.                     *)
(***************************************************************************)
ForcedSweepHonest == [][json' # json /\ json'.force => ReportsFresh(json')]_vars

(***************************************************************************)
(* The hash guard does protect the study's own files, however the root was *)
(* used and wherever sweeps died: a table that a sweep reads is of the     *)
(* configuration the sweep asked for, unless a study died in that          *)
(* directory since its last whole one; then it is of one of those two      *)
(* kinds, never of an older study.  The exception is real: the study that  *)
(* died leaves its tables beside the manifest of an earlier study, and a   *)
(* sweep of the earlier configuration trusts that manifest, although reuse *)
(* is called hash-guarded (tests/test_sensitivity_sweep.py:6).             *)
(***************************************************************************)
DataMatchesHash ==
    \A m \in DOMAIN loaded : \A table \in {loaded[m].latency, loaded[m].cost} :
        \/ table = [state |-> "whole", of |-> variant_config(m, quick)]
        \/ table.of \in unfinished[m]

(***************************************************************************)
(* The manifest is written last, so an interrupted study is run again: a   *)
(* sweep without --force fails only on a file that was cut short.          *)
(***************************************************************************)
FailsOnTornFileOnly ==
    step = "failed" =>
        \E m \in Names : fits_on_disk[m].state = "torn"
                            \/ \E f \in DOMAIN disk[m] : disk[m][f].state = "torn"

(***************************************************************************)
(* The rules on what a configuration measures.  They depend on the world   *)
(* alone, so they are looked at before the first sweep.                    *)
(***************************************************************************)
\* At every value, no smaller a share of x than of y stays at or below it; the
\* two may differ in length (a pattern is put to the faults of its own path).
AtLeastAsGood(x, y) ==
    \A v \in Range(x) \cup Range(y) : AtMost(x, v) * Len(y) >= AtMost(y, v) * Len(x)

\* A pattern at least as good as every other one is in group A, whatever the
\* correction does to the other comparisons ("statistically indistinguishable
\* from the best performer", study/make_table4.py).
BestIsTop ==
    sweeps = 0 =>
        \A c \in Configs, pl \in Platforms, sc \in Scenarios :
            LET r    == Measured[world][c]
                rows == table4_rows(r, pl, sc)
                best(f) == {p \in Patterns : \A q \in Patterns : AtLeastAsGood(f[p], f[q])}
            IN  /\ \A p \in best([q \in Patterns |-> tail(r.latency[pl][sc][q])]) :
                       rows[p].latency = "A"
                /\ \A p \in best(r.cost[pl][sc]) : rows[p].cost = "A"
                /\ \A p \in best(r.failed[pl]) : rows[p].reliability = "A"

\* Exchanging the samples of two patterns exchanges their grades and leaves the
\* others alone: pairs are tested once, in name order, and that order must not
\* show.
GradesIgnoreNames ==
    sweeps = 0 =>
        \A c \in Configs, pl \in Platforms, sc \in Scenarios, p \in 1..6 :
            LET f       == Measured[world][c].latency[pl][sc]
                swap(q) == IF q = p THEN p + 1 ELSE IF q = p + 1 THEN p ELSE q
                before  == dominated_grades(f)
                after   == dominated_grades([q \in Patterns |-> f[swap(q)]])
            IN  \A q \in Patterns : after[swap(q)] = before[q]

\* The growth endpoints remove a pattern's own level (docs/FIT_RULE.md: "removing
\* each pattern's baseline speed/cost level"): a pattern twice as slow and twice
\* as expensive throughout has the same S2 and S3 columns.
Doubled(r, p) ==
    LET twice(f) == [pl \in Platforms |-> [sc \in Scenarios |->
                        [f[pl][sc] EXCEPT ![p] = [i \in DOMAIN @ |-> 2 * @[i]]]]]
    IN  [r EXCEPT !.latency = twice(@), !.cost = twice(@)]

GrowthIgnoresLevel ==
    sweeps = 0 =>
        \A c \in Configs, p \in Patterns, sc \in {"S2", "S3"} :
            LET r == Measured[world][c]
            IN  scenario_fit(Doubled(r, p), sc) = scenario_fit(r, sc)
=============================================================================
