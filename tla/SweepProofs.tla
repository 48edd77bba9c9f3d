---------------------------- MODULE SweepProofs -----------------------------
(***************************************************************************)
(* Proofs about the sensitivity sweep, for any list of variants, any       *)
(* number of sweeps into one root and any number of deaths, and about the  *)
(* grading rules it applies, for any measurements.                         *)
(*                                                                         *)
(* The first part is about the files.  The rules stay closed there: what a *)
(* summary says of two runs is used only as a function of what was loaded  *)
(* for them.  The second part opens them: order statistics, the counts     *)
(* behind a comparison, the correction, and the grades.                    *)
(***************************************************************************)
EXTENDS Sweep, FiniteSetTheorems, SequenceTheorems, WellFoundedInduction, TLAPS

Files == {"latency", "cost", "faults", "manifest"}

SweepTypes ==
    /\ disk \in [Names -> [Files -> File]]
    /\ fits_on_disk \in [Names -> FitFile]
    /\ step \in {"idle", "obtain", "grade", "publish", "failed"}
    /\ todo \in Seq(Names)
    /\ step \in {"obtain", "grade"} => todo # <<>>
    /\ quick \in BOOLEAN /\ force \in BOOLEAN
    /\ unfinished \in [Names -> SUBSET Configs]

Whole(of) == [state |-> "whole", of |-> of]

\* The manifest is there only beside all the other files.
ManifestIsLast ==
    \A m \in Names :
        disk[m]["manifest"].state # "absent" => \A f \in Files : disk[m][f].state # "absent"

\* The tables beside a manifest are of its configuration, or of a study that
\* died after it was written.
TablesOfManifest ==
    \A m \in Names : disk[m]["manifest"].state # "absent" =>
        \A f \in Files \ {"manifest"} :
            \/ disk[m][f] = Whole(disk[m]["manifest"].of)
            \/ disk[m][f].of \in unfinished[m]

\* A variant is graded from the tables its configuration was obtained for.
Obtained ==
    step = "grade" =>
        /\ Manifest = Whole(cfg)
        /\ \A f \in {"latency", "cost"} :
              /\ Data(f).state # "absent"
              /\ force => Data(f) = Whole(cfg)
              /\ Data(f) = Whole(cfg) \/ Data(f).of \in unfinished[name]

\* The manifest of what was loaded is the one asked for, so the study of a name
\* that was done is not run a second time.
LoadedTrusted ==
    \A m \in DOMAIN loaded :
        m \in Names /\ disk[m]["manifest"] = Whole(variant_config(m, quick))

LoadedFresh == force => \A m \in DOMAIN loaded : loaded[m] = FreshEntry(m, quick)

\* The baseline is the first name of every list.
BaselineFirst ==
    /\ step \in {"obtain", "grade"} =>
          "baseline" \in DOMAIN loaded \/ Head(todo) = "baseline"
    /\ step = "publish" => "baseline" \in DOMAIN loaded

SweepInv ==
    /\ SweepTypes /\ ManifestIsLast /\ TablesOfManifest /\ Obtained /\ LoadedTrusted
    /\ DataMatchesHash /\ LoadedFresh /\ BaselineFirst /\ FailsOnTornFileOnly

(***************************************************************************)
(* What the operators of the model yield                                   *)
(***************************************************************************)
LEMMA FileNames == Range(StudyFiles) = Files /\ Len(StudyFiles) = 4
                   /\ \A f \in Files : \E i \in 1..4 : StudyFiles[i] = f
BY DEF StudyFiles, Files, Range

LEMMA ListsStartWithBaseline == ASSUME NEW names \in NameLists
                    PROVE  /\ names \in Seq(Names) /\ names # <<>>
                           /\ Head(names) = "baseline"
<1>1. VARIANTS \in Seq(Range(VARIANTS))
  BY SweepAssumption
<1>2. VARIANTS \in Seq(Names) /\ <<"baseline">> \in Seq(Names)
  <2>1. Range(VARIANTS) \subseteq Names /\ "baseline" \in Names
    BY DEF Names
  <2> QED
    BY <1>1, <2>1, SeqMonotonic
<1>3. CASE names = <<"baseline">> \o VARIANTS
  <2>1. /\ names \in Seq(Names) /\ Len(names) = 1 + Len(VARIANTS)
        /\ names[1] = "baseline"
    BY <1>2, <1>3, ConcatProperties, LenProperties
  <2> QED
    BY <1>2, <2>1, LenProperties
<1>4. CASE names = <<"baseline">>
  BY <1>2, <1>4
<1>5. CASE \E m \in Range(VARIANTS) : names = <<"baseline", m>>
  BY <1>5 DEF Names
<1> QED
  BY <1>3, <1>4, <1>5 DEF NameLists

\* What is loaded for a name is put beside what is loaded for the others.
LEMMA LoadsOne ==
    ASSUME NEW fit, Loads(fit)
    PROVE  /\ DOMAIN loaded' = DOMAIN loaded \cup {name}
           /\ \A m \in DOMAIN loaded' :
                loaded'[m] = IF m # name THEN loaded[m]
                             ELSE [fit |-> fit, latency |-> Data("latency"), cost |-> Data("cost")]
BY DEF Loads

LEMMA NameIsOne ==
    ASSUME SweepTypes, step \in {"obtain", "grade"}
    PROVE  /\ name \in Names /\ cfg \in Configs
           /\ Tail(todo) \in Seq(Names)
           /\ Data("latency") \in File /\ Data("cost") \in File
           /\ Manifest \in File /\ StoredFit \in FitFile
<1>1. todo \in Seq(Names) /\ todo # <<>>
  BY DEF SweepTypes
<1>2. name \in Names /\ Tail(todo) \in Seq(Names)
  BY <1>1, HeadTailProperties DEF name
<1>3. cfg \in Configs
  BY <1>2 DEF cfg, Configs, SweepTypes
<1> QED
  BY <1>2, <1>3 DEF SweepTypes, Data, Manifest, StoredFit, rdir, Files

\* A study writes its files in order; the others stay as they are.
LEMMA Writes ==
    ASSUME SweepTypes, step = "obtain", NEW k \in 0..4
    PROVE  /\ WrittenFiles(k) \in [Files -> File]
           /\ \A f \in Files : WrittenFiles(k)[f] \in {Whole(cfg), disk[name][f]}
           /\ k = 4 => \A f \in Files : WrittenFiles(k)[f] = Whole(cfg)
           /\ k = 3 => \A f \in Files \ {"manifest"} : WrittenFiles(k)[f] = Whole(cfg)
           /\ k < 4 => WrittenFiles(k)["manifest"] = Manifest
<1>1. cfg \in Configs /\ name \in Names
  BY NameIsOne
<1>2. Whole(cfg) \in File
  BY <1>1 DEF Whole, File
<1> DEFINE written(f) == \E i \in 1..k : StudyFiles[i] = f
<1>3. WrittenFiles(k) = [f \in Files |-> IF written(f) THEN Whole(cfg) ELSE disk[name][f]]
  BY FileNames DEF WrittenFiles, Whole, rdir
<1>4. /\ k = 4 => \A f \in Files : written(f)
      /\ k = 3 => \A f \in Files \ {"manifest"} : written(f)
      /\ k < 4 => ~written("manifest")
  BY DEF StudyFiles, Files
<1> HIDE DEF written
<1>5. disk[name] \in [Files -> File]
  BY <1>1 DEF SweepTypes
<1> QED
  BY <1>2, <1>3, <1>4, <1>5 DEF Manifest, rdir, Files

(***************************************************************************)
(* Every step keeps the invariant                                          *)
(***************************************************************************)
LEMMA SweepInitial == Init => SweepInv
<1> SUFFICES ASSUME Init PROVE SweepInv
  OBVIOUS
<1>1. SweepTypes
  <2>1. NoFile \in File /\ NoFit \in FitFile
    BY DEF NoFile, NoFit, File, FitFile
  <2>2. disk \in [Names -> [Files -> File]] /\ fits_on_disk \in [Names -> FitFile]
    BY <2>1, FileNames DEF Init
  <2>3. todo \in Seq(Names)
    BY DEF Init
  <2> QED
    BY <2>2, <2>3 DEF Init, SweepTypes
<1>2. ManifestIsLast /\ TablesOfManifest
  BY FileNames DEF Init, ManifestIsLast, TablesOfManifest, NoFile, Files
<1>3. Obtained /\ BaselineFirst /\ FailsOnTornFileOnly
  BY DEF Init, Obtained, BaselineFirst, FailsOnTornFileOnly
<1>4. DOMAIN loaded = {}
  BY DEF Init
<1>5. DataMatchesHash /\ LoadedFresh /\ LoadedTrusted
  BY <1>4 DEF DataMatchesHash, LoadedFresh, LoadedTrusted
<1> QED
  BY <1>1, <1>2, <1>3, <1>5 DEF SweepInv

LEMMA StartKeeps ==
    ASSUME SweepInv, NEW names \in NameLists, NEW q \in BOOLEAN, NEW f \in BOOLEAN,
           Start(names, q, f)
    PROVE  SweepInv'
<1>1. SweepTypes'
  BY ListsStartWithBaseline DEF SweepInv, SweepTypes, Start
<1>2. ManifestIsLast' /\ TablesOfManifest'
  BY DEF SweepInv, ManifestIsLast, TablesOfManifest, Start
<1>3. Obtained' /\ FailsOnTornFileOnly'
  BY DEF Obtained, FailsOnTornFileOnly, Start
<1>4. DOMAIN loaded' = {}
  BY DEF Start
<1>5. DataMatchesHash' /\ LoadedFresh' /\ LoadedTrusted'
  BY <1>4 DEF DataMatchesHash, LoadedFresh, LoadedTrusted
<1>6. BaselineFirst'
  BY ListsStartWithBaseline DEF BaselineFirst, Start
<1> QED
  BY <1>1, <1>2, <1>3, <1>5, <1>6 DEF SweepInv

\* The guard on the manifest, or a new study, makes the tables those of the
\* configuration asked for.
LEMMA ObtainKeeps == SweepInv /\ Obtain => SweepInv'
<1> SUFFICES ASSUME SweepInv, Obtain PROVE SweepInv'
  OBVIOUS
<1> USE DEF SweepInv
<1>1. /\ step = "obtain" /\ step' = "grade"
      /\ UNCHANGED <<fits_on_disk, todo, quick, force, loaded>>
  BY DEF Obtain
<1>2. name' = name /\ cfg' = cfg
  BY <1>1 DEF name, cfg
<1>3. name \in Names /\ cfg \in Configs
  BY <1>1, NameIsOne
<1>4. CASE Reuses /\ disk' = disk /\ unfinished' = unfinished
  <2>1. ~force /\ Manifest.state = "whole" /\ Manifest.of = cfg
    BY <1>4 DEF Obtain, Reuses, Consults
  <2>2. Manifest = disk[name]["manifest"] /\ "manifest" \in Files
    BY DEF Manifest, rdir, Files
  <2>3. \A f \in Files : disk[name][f].state # "absent"
    BY <1>3, <2>1, <2>2 DEF ManifestIsLast
  <2>4. \A f \in {"latency", "cost"} :
          disk[name][f] = Whole(cfg) \/ disk[name][f].of \in unfinished[name]
    BY <1>3, <2>1, <2>2 DEF TablesOfManifest, Files
  <2>5. Manifest = Whole(cfg)
    <3>1. Manifest \in File
      BY <1>1, NameIsOne
    <3> QED
      BY <2>1, <3>1 DEF File, Whole
  <2>6. Obtained'
    BY <1>1, <1>2, <1>4, <2>1, <2>2, <2>3, <2>4, <2>5 DEF Obtained, Manifest, Data, rdir, Files
  <2>7. SweepTypes' /\ ManifestIsLast' /\ TablesOfManifest'
    BY <1>1, <1>4 DEF SweepTypes, ManifestIsLast, TablesOfManifest
  <2> QED
    BY <1>1, <1>4, <2>6, <2>7
       DEF DataMatchesHash, LoadedFresh, LoadedTrusted, BaselineFirst, FailsOnTornFileOnly
<1>5. CASE ~Reuses /\ run_study
  <2> DEFINE new == WrittenFiles(4)
  <2>1. new \in [Files -> File] /\ \A f \in Files : new[f] = Whole(cfg)
    BY <1>1, Writes
  <2>2. disk' = [disk EXCEPT ![name] = new]
    BY <1>5, FileNames DEF run_study, rdir
  <2> HIDE DEF new
  <2>3. /\ disk'[name] = new
        /\ \A m \in Names \ {name} : disk'[m] = disk[m]
        /\ disk' \in [Names -> [Files -> File]]
    BY <1>3, <2>1, <2>2 DEF SweepTypes
  <2>4. unfinished' = [unfinished EXCEPT ![name] = {}]
    BY <1>5 DEF run_study
  <2>5. Obtained'
    BY <1>1, <1>2, <2>1, <2>3 DEF Obtained, Manifest, Data, rdir, Files, Whole
  <2>6. ManifestIsLast'
    BY <2>1, <2>3 DEF ManifestIsLast, Whole
  <2>7. TablesOfManifest'
    <3>1. "manifest" \in Files /\ Whole(cfg).of = cfg
      BY DEF Files, Whole
    <3>2. \A m \in Names \ {name} : unfinished'[m] = unfinished[m]
      BY <2>4 DEF SweepTypes
    <3> QED
      BY <2>1, <2>3, <3>1, <3>2 DEF TablesOfManifest
  <2>8. SweepTypes'
    BY <1>1, <1>3, <2>3, <2>4 DEF SweepTypes
  <2>9. LoadedTrusted'
    BY <1>1, <2>1, <2>3 DEF LoadedTrusted, cfg, Files
  <2>10. DataMatchesHash'
    <3> SUFFICES ASSUME NEW m \in DOMAIN loaded,
                        NEW table \in {loaded[m].latency, loaded[m].cost}
                 PROVE  \/ table = [state |-> "whole", of |-> variant_config(m, quick)]
                        \/ table.of \in unfinished'[m]
      BY <1>1 DEF DataMatchesHash
    <3>1. CASE m = name
      <4>1. Manifest = Whole(cfg)
        BY <3>1 DEF LoadedTrusted, Manifest, rdir, cfg
      <4>2. force
        BY <1>5, <4>1 DEF Reuses, Consults, Whole
      <4> QED
        BY <4>2 DEF LoadedFresh, FreshEntry
    <3>2. CASE m # name
      <4>1. unfinished'[m] = unfinished[m]
        BY <2>4, <3>2 DEF SweepTypes, LoadedTrusted
      <4> QED
        BY <4>1 DEF DataMatchesHash
    <3> QED
      BY <3>1, <3>2
  <2> QED
    BY <1>1, <2>5, <2>6, <2>7, <2>8, <2>9, <2>10
       DEF LoadedFresh, BaselineFirst, FailsOnTornFileOnly
<1> QED
  BY <1>4, <1>5 DEF Obtain

\* What is loaded is what was obtained; the matrix may be an older one, unless
\* the sweep is forced.
LEMMA GradeKeeps == SweepInv /\ Grade => SweepInv'
<1> SUFFICES ASSUME SweepInv, Grade PROVE SweepInv'
  OBVIOUS
<1> USE DEF SweepInv
<1>1. /\ step = "grade" /\ step' \in {"publish", "obtain"}
      /\ step' = "obtain" => Tail(todo) # <<>>
      /\ todo' = Tail(todo)
      /\ UNCHANGED <<disk, quick, force, unfinished>>
  BY DEF Grade, AfterName
<1>2. /\ name \in Names /\ cfg \in Configs /\ Tail(todo) \in Seq(Names)
      /\ Data("latency") \in File /\ Data("cost") \in File
  BY <1>1, NameIsOne
<1>3. BuiltFit \in FitFile
  BY <1>2 DEF BuiltFit, FitFile, File
<1>4. PICK fit : /\ Loads(fit)
                 /\ force => fit = BuiltFit
                 /\ \/ fits_on_disk' = fits_on_disk
                    \/ fits_on_disk' = [fits_on_disk EXCEPT ![name] = BuiltFit]
  BY DEF Grade, ReusesFit, rdir
<1>5. SweepTypes'
  BY <1>1, <1>2, <1>3, <1>4 DEF SweepTypes
<1>6. \A f \in {"latency", "cost"} :
        /\ force => Data(f) = Whole(cfg)
        /\ Data(f) = Whole(cfg) \/ Data(f).of \in unfinished[name]
  BY <1>1 DEF Obtained
<1>7. force => BuiltFit = [state |-> "whole", latency |-> cfg, cost |-> cfg]
  BY <1>6 DEF BuiltFit, Intact, Whole
<1>8. cfg = variant_config(name, quick)
  BY DEF cfg
<1>9. DataMatchesHash'
  <2> SUFFICES ASSUME NEW m \in DOMAIN loaded',
                      NEW table \in {loaded'[m].latency, loaded'[m].cost}
               PROVE  \/ table = [state |-> "whole", of |-> variant_config(m, quick)]
                      \/ table.of \in unfinished[m]
    BY <1>1 DEF DataMatchesHash
  <2>1. CASE m = name
    BY <1>4, <1>6, <1>8, <2>1, LoadsOne DEF Whole
  <2>2. CASE m # name
    <3>1. m \in DOMAIN loaded /\ loaded'[m] = loaded[m]
      BY <1>4, <2>2, LoadsOne
    <3> QED
      BY <3>1 DEF DataMatchesHash
  <2> QED
    BY <2>1, <2>2
<1>10. LoadedFresh'
  <2> SUFFICES ASSUME force, NEW m \in DOMAIN loaded'
               PROVE  loaded'[m] = FreshEntry(m, quick)
    BY <1>1 DEF LoadedFresh, FreshEntry
  <2>1. CASE m = name
    BY <1>4, <1>6, <1>7, <1>8, <2>1, LoadsOne DEF Whole, FreshEntry
  <2>2. CASE m # name
    <3>1. m \in DOMAIN loaded /\ loaded'[m] = loaded[m]
      BY <1>4, <2>2, LoadsOne
    <3> QED
      BY <3>1 DEF LoadedFresh
  <2> QED
    BY <2>1, <2>2
<1>11. BaselineFirst'
  <2>1. "baseline" \in DOMAIN loaded'
    BY <1>1, <1>4, LoadsOne DEF BaselineFirst, name
  <2> QED
    BY <2>1 DEF BaselineFirst
<1>12. ManifestIsLast' /\ TablesOfManifest' /\ Obtained' /\ FailsOnTornFileOnly'
  BY <1>1 DEF ManifestIsLast, TablesOfManifest, Obtained, FailsOnTornFileOnly
<1>13. LoadedTrusted'
  <2>1. disk[name]["manifest"] = Whole(cfg)
    BY <1>1 DEF Obtained, Manifest, rdir
  <2> QED
    BY <1>1, <1>2, <1>4, <1>8, <2>1, LoadsOne DEF LoadedTrusted
<1> QED
  BY <1>5, <1>9, <1>10, <1>11, <1>12, <1>13

LEMMA PublishKeeps == SweepInv /\ Publish => SweepInv'
<1> SUFFICES ASSUME SweepInv, Publish PROVE SweepInv'
  OBVIOUS
<1> USE DEF SweepInv
<1>1. /\ step' = "idle" /\ loaded' = <<>>
      /\ UNCHANGED <<disk, fits_on_disk, todo, quick, force, unfinished>>
  BY DEF Publish
<1>2. DOMAIN loaded' = {}
  BY <1>1
<1>3. DataMatchesHash' /\ LoadedFresh' /\ LoadedTrusted'
  BY <1>2 DEF DataMatchesHash, LoadedFresh, LoadedTrusted
<1>4. SweepTypes' /\ ManifestIsLast' /\ TablesOfManifest'
  BY <1>1 DEF SweepTypes, ManifestIsLast, TablesOfManifest
<1>5. Obtained' /\ BaselineFirst' /\ FailsOnTornFileOnly'
  BY <1>1 DEF Obtained, BaselineFirst, FailsOnTornFileOnly
<1> QED
  BY <1>3, <1>4, <1>5

\* A file that cannot be read whole is there, because the manifest or the
\* matrix was looked at: it was cut short.
LEMMA RaiseKeeps == SweepInv /\ Raise => SweepInv'
<1> SUFFICES ASSUME SweepInv, Raise PROVE SweepInv'
  OBVIOUS
<1> USE DEF SweepInv
<1>1. /\ step \in {"obtain", "grade"} /\ step' = "failed" /\ loaded' = <<>> /\ todo' = <<>>
      /\ UNCHANGED <<disk, fits_on_disk, quick, force, unfinished>>
  BY DEF Raise
<1>2. DOMAIN loaded' = {} /\ todo' \in Seq(Names)
  BY <1>1
<1>3. DataMatchesHash' /\ LoadedFresh' /\ LoadedTrusted'
  BY <1>2 DEF DataMatchesHash, LoadedFresh, LoadedTrusted
<1>4. SweepTypes' /\ ManifestIsLast' /\ TablesOfManifest'
  BY <1>1, <1>2 DEF SweepTypes, ManifestIsLast, TablesOfManifest
<1>5. Obtained' /\ BaselineFirst'
  BY <1>1 DEF Obtained, BaselineFirst
<1>6. /\ name \in Names /\ Data("latency") \in File /\ Data("cost") \in File
      /\ Manifest \in File /\ StoredFit \in FitFile
  BY <1>1, NameIsOne
<1>7. \/ fits_on_disk[name].state = "torn"
      \/ \E f \in Files : disk[name][f].state = "torn"
  <2>1. CASE step = "obtain" /\ Manifest.state = "torn"
    BY <2>1 DEF Manifest, rdir, Files
  <2>2. CASE \E f \in {"latency", "cost"} : step = "grade" /\ ~Intact(Data(f))
    <3>1. PICK f \in {"latency", "cost"} : step = "grade" /\ ~Intact(Data(f))
      BY <2>2
    <3>2. Data(f) \in File /\ Data(f).state # "absent"
      BY <1>6, <3>1 DEF Obtained
    <3>3. Data(f).state = "torn"
      BY <3>1, <3>2 DEF File, Intact
    <3> QED
      BY <3>3 DEF Data, rdir, Files
  <2>3. CASE ReusesFit /\ ~Intact(StoredFit)
    <3>1. StoredFit.state = "torn"
      BY <1>6, <2>3 DEF ReusesFit, Intact, FitFile
    <3> QED
      BY <3>1 DEF StoredFit, rdir
  <2> QED
    BY <2>1, <2>2, <2>3 DEF Raise
<1>8. FailsOnTornFileOnly'
  <2>1. DOMAIN disk[name] = Files
    BY <1>6 DEF SweepTypes
  <2> QED
    BY <1>1, <1>6, <1>7, <2>1 DEF FailsOnTornFileOnly
<1> QED
  BY <1>3, <1>4, <1>5, <1>8

\* A death leaves the manifest only beside the files before it.
LEMMA DieKeeps == SweepInv /\ Die => SweepInv'
<1> SUFFICES ASSUME SweepInv, Die PROVE SweepInv'
  OBVIOUS
<1> USE DEF SweepInv
<1>1. /\ step' = "idle" /\ loaded' = <<>> /\ todo' = <<>>
      /\ UNCHANGED <<quick, force>>
  BY DEF Die
<1>2. \/ unfinished' = unfinished
      \/ DiesInStudy /\ unfinished' = [unfinished EXCEPT ![name] = @ \cup {cfg}]
  BY DEF Die, DiesInStudy, DiesInGrade, DiesInPublish, DiesBetweenWrites
<1>3. DOMAIN loaded' = {} /\ todo' \in Seq(Names)
  BY <1>1
<1>4. DataMatchesHash' /\ LoadedTrusted'
  BY <1>3 DEF DataMatchesHash, LoadedTrusted
<1>5. LoadedFresh' /\ Obtained' /\ BaselineFirst' /\ FailsOnTornFileOnly'
  BY <1>1, <1>3 DEF LoadedFresh, Obtained, BaselineFirst, FailsOnTornFileOnly
<1>6. fits_on_disk' \in [Names -> FitFile]
  <2>1. CASE DiesInGrade
    <3>1. /\ name \in Names /\ Data("latency") \in File /\ Data("cost") \in File
      BY <2>1, NameIsOne DEF DiesInGrade
    <3>2. [BuiltFit EXCEPT !.state = "torn"] \in FitFile
      BY <3>1 DEF BuiltFit, FitFile, File
    <3> QED
      BY <2>1, <3>1, <3>2 DEF DiesInGrade, SweepTypes, rdir
  <2>2. CASE fits_on_disk' = fits_on_disk
    BY <2>2 DEF SweepTypes
  <2> QED
    BY <2>1, <2>2 DEF Die, DiesInStudy, DiesInPublish, DiesBetweenWrites
<1>7. disk' \in [Names -> [Files -> File]] /\ ManifestIsLast' /\ TablesOfManifest'
  <2>1. CASE DiesInStudy
    <3>1. step = "obtain"
      BY <2>1 DEF DiesInStudy
    <3>2. PICK k \in 0..3, cut \in BOOLEAN :
            disk' = [disk EXCEPT ![name] =
                IF cut THEN [WrittenFiles(k) EXCEPT ![StudyFiles[k + 1]] =
                                [state |-> "torn", of |-> cfg]]
                ELSE WrittenFiles(k)]
      <4>1. Len(StudyFiles) - 1 = 3
        BY DEF StudyFiles
      <4> QED
        BY <2>1, <4>1, Zenon DEF DiesInStudy, rdir
    <3> DEFINE old == WrittenFiles(k)
               torn == [state |-> "torn", of |-> cfg]
               new == IF cut THEN [old EXCEPT ![StudyFiles[k + 1]] = torn] ELSE old
    <3>3. /\ old \in [Files -> File]
          /\ \A f \in Files : old[f] \in {Whole(cfg), disk[name][f]}
          /\ k = 3 => \A f \in Files \ {"manifest"} : old[f] = Whole(cfg)
          /\ old["manifest"] = disk[name]["manifest"]
      <4>1. k \in 0..4 /\ k < 4 /\ Manifest = disk[name]["manifest"]
        BY DEF Manifest, rdir
      <4> QED
        BY <3>1, <4>1, Writes
    <3>4. name \in Names /\ torn \in File /\ torn.state = "torn"
      <4>1. name \in Names /\ cfg \in Configs
        BY <3>1, NameIsOne
      <4> QED
        BY <4>1 DEF File
    <3>5. StudyFiles[k + 1] \in Files /\ (k # 3 => StudyFiles[k + 1] # "manifest")
      BY DEF StudyFiles, Files
    <3> HIDE DEF old, torn
    <3>6. new \in [Files -> File]
      BY <3>3, <3>4, <3>5
    <3>7. \A f \in Files : new[f] = old[f] \/ new[f] = torn
      BY <3>3, <3>5
    <3>8. new["manifest"].state # "absent" => \A f \in Files : new[f].state # "absent"
      <4> SUFFICES ASSUME new["manifest"].state # "absent", NEW f \in Files
                   PROVE  new[f].state # "absent"
        OBVIOUS
      <4>1. CASE k = 3
        <5>1. f # "manifest" => new[f] = torn \/ new[f] = Whole(cfg)
          BY <3>3, <3>7, <4>1
        <5> QED
          BY <3>4, <5>1 DEF Whole
      <4>2. CASE k # 3
        <5>1. "manifest" \in Files /\ new["manifest"] = disk[name]["manifest"]
          BY <3>3, <3>5, <4>2 DEF Files
        <5>2. disk[name][f].state # "absent"
          BY <3>4, <5>1 DEF ManifestIsLast
        <5>3. new[f] \in {torn, Whole(cfg), disk[name][f]}
          BY <3>3, <3>7
        <5> QED
          BY <3>4, <5>2, <5>3 DEF Whole
      <4> QED
        BY <4>1, <4>2
    <3>9. disk' = [disk EXCEPT ![name] = new]
      BY <3>2 DEF old, torn
    <3>10. unfinished' = [unfinished EXCEPT ![name] = @ \cup {cfg}]
      BY <2>1 DEF DiesInStudy
    <3>11. new["manifest"].state # "absent" => \A f \in Files \ {"manifest"} :
             \/ new[f] = Whole(new["manifest"].of)
             \/ new[f].of \in unfinished[name] \cup {cfg}
      <4> SUFFICES ASSUME new["manifest"].state # "absent", NEW f \in Files \ {"manifest"}
                   PROVE  \/ new[f] = Whole(new["manifest"].of)
                          \/ new[f].of \in unfinished[name] \cup {cfg}
        OBVIOUS
      <4>1. Whole(cfg).of = cfg /\ torn.of = cfg
        BY DEF Whole, torn
      <4>2. CASE new[f] = torn \/ new[f] = Whole(cfg)
        BY <4>1, <4>2
      <4>3. CASE ~(new[f] = torn \/ new[f] = Whole(cfg))
        <5>1. new[f] = disk[name][f] /\ k # 3
          BY <3>3, <3>7, <4>3
        <5>2. "manifest" \in Files /\ new["manifest"] = disk[name]["manifest"]
          BY <3>3, <3>5, <5>1 DEF Files
        <5> QED
          BY <3>4, <5>1, <5>2 DEF TablesOfManifest
      <4> QED
        BY <4>2, <4>3
    <3> HIDE DEF new
    <3>12. disk' \in [Names -> [Files -> File]] /\ disk'[name] = new
           /\ \A m \in Names \ {name} : disk'[m] = disk[m]
      BY <3>4, <3>6, <3>9 DEF SweepTypes
    <3>13. /\ unfinished'[name] = unfinished[name] \cup {cfg}
           /\ \A m \in Names \ {name} : unfinished'[m] = unfinished[m]
      BY <3>4, <3>10 DEF SweepTypes
    <3>14. ManifestIsLast'
      BY <3>8, <3>12 DEF ManifestIsLast
    <3>15. TablesOfManifest'
      BY <3>11, <3>12, <3>13 DEF TablesOfManifest
    <3> QED
      BY <3>12, <3>14, <3>15
  <2>2. CASE disk' = disk /\ unfinished' = unfinished
    BY <2>2 DEF SweepTypes, ManifestIsLast, TablesOfManifest
  <2> QED
    BY <2>1, <2>2 DEF Die, DiesInGrade, DiesInPublish, DiesBetweenWrites
<1>8. SweepTypes'
  <2>1. DiesInStudy => name \in Names /\ cfg \in Configs
    BY NameIsOne DEF DiesInStudy
  <2>2. unfinished' \in [Names -> SUBSET Configs]
    BY <1>2, <2>1 DEF SweepTypes
  <2> QED
    BY <1>1, <1>3, <1>6, <1>7, <2>2 DEF SweepTypes
<1> QED
  BY <1>4, <1>5, <1>7, <1>8

LEMMA SweepStep == SweepInv /\ [Next]_vars => SweepInv'
<1> SUFFICES ASSUME SweepInv, [Next]_vars PROVE SweepInv'
  OBVIOUS
<1>1. CASE UNCHANGED vars
  BY <1>1 DEF vars, memory, figures, SweepInv, SweepTypes, ManifestIsLast, TablesOfManifest,
              Obtained, DataMatchesHash, LoadedFresh, LoadedTrusted, BaselineFirst,
              FailsOnTornFileOnly, Manifest, Data, rdir, name, cfg
<1>2. CASE Next
  BY <1>2, StartKeeps, ObtainKeeps, GradeKeeps, PublishKeeps, RaiseKeeps, DieKeeps DEF Next
<1> QED
  BY <1>1, <1>2

LEMMA SweepInvariance == Spec => []SweepInv
BY SweepInitial, SweepStep, PTL DEF Spec

(***************************************************************************)
(* Theorems                                                                *)
(***************************************************************************)
\* The configuration hash protects what a sweep reads of a study: every table
\* in memory is of its configuration, or of a study that died in its directory
\* since the last whole one, for any list of variants, however the root was used
\* before and wherever sweeps died (sensitivity_sweep.py:217).
THEOREM HashProtectsData == Spec => []DataMatchesHash
<1>1. SweepInv => DataMatchesHash
  BY DEF SweepInv
<1> QED
  BY <1>1, SweepInvariance, PTL

\* A sweep fails on nothing but a file that a death cut short: the manifest is
\* there only beside the other files (run_study.py writes it last).
THEOREM OnlyTornFilesFail == Spec => []FailsOnTornFileOnly
<1>1. SweepInv => FailsOnTornFileOnly
  BY DEF SweepInv
<1> QED
  BY <1>1, SweepInvariance, PTL

\* A forced sweep reports what its configurations measure, whatever lies in its
\* root (sensitivity_sweep.py --force): every result in memory is then one this
\* sweep has computed.
THEOREM ForceRepairs == Spec => ForcedSweepHonest
<1>1. ASSUME SweepInv, Publish, json'.force PROVE ReportsFresh(json')
  <2>1. /\ step = "publish" /\ json' = Summary
        /\ json'.quick = quick /\ json'.force = force
        /\ json'.variants = [m \in DOMAIN loaded \ {"baseline"} |->
                                report(world, loaded["baseline"], loaded[m])]
    BY <1>1 DEF Publish, Summary
  <2>2. \A m \in DOMAIN loaded : loaded[m] = FreshEntry(m, quick)
    BY <1>1, <2>1 DEF SweepInv, LoadedFresh
  <2>3. "baseline" \in DOMAIN loaded
    BY <1>1, <2>1 DEF SweepInv, BaselineFirst
  <2> QED
    BY <2>1, <2>2, <2>3 DEF ReportsFresh
<1>2. SweepInv /\ [Next]_vars => [json' # json /\ json'.force => ReportsFresh(json')]_vars
  <2> SUFFICES ASSUME SweepInv, Next, json' # json, json'.force
               PROVE  ReportsFresh(json')
    BY DEF vars
  <2>1. Publish
    BY DEF Next, Start, Obtain, Grade, Raise, Die, figures
  <2> QED
    BY <1>1, <2>1
<1> QED
  BY <1>2, SweepInvariance, PTL DEF Spec, ForcedSweepHonest

(***************************************************************************)
(* Order statistics                                                        *)
(***************************************************************************)
Sample(n) == [1..n -> Int]

\* Two finite sets that a function maps onto each other, one to one.
LEMMA SameSize ==
    ASSUME NEW S, NEW T, IsFiniteSet(S), NEW f \in [S -> T],
           \A s, r \in S : f[s] = f[r] => s = r,
           \A t \in T : \E s \in S : f[s] = t
    PROVE  IsFiniteSet(T) /\ Cardinality(T) = Cardinality(S)
<1>1. f \in Bijection(S, T)
  BY DEF Bijection, Injection, Surjection, IsInjective
<1> QED
  BY <1>1, FS_Bijection DEF ExistsBijection

LEMMA Counts ==
    ASSUME NEW n \in Nat, NEW x \in Sample(n), NEW v
    PROVE  /\ Below(x, v) \in 0..n /\ AtMost(x, v) \in 0..n
           /\ IsFiniteSet({i \in 1..n : x[i] < v}) /\ IsFiniteSet({i \in 1..n : x[i] <= v})
           /\ Below(x, v) = Cardinality({i \in 1..n : x[i] < v})
           /\ AtMost(x, v) = Cardinality({i \in 1..n : x[i] <= v})
<1>1. DOMAIN x = 1..n
  BY DEF Sample
<1>2. IsFiniteSet(1..n) /\ Cardinality(1..n) = n
  BY FS_Interval
<1>3. {i \in 1..n : x[i] < v} \in SUBSET (1..n) /\ {i \in 1..n : x[i] <= v} \in SUBSET (1..n)
  OBVIOUS
<1>4. /\ IsFiniteSet({i \in 1..n : x[i] < v}) /\ Cardinality({i \in 1..n : x[i] < v}) <= n
      /\ IsFiniteSet({i \in 1..n : x[i] <= v}) /\ Cardinality({i \in 1..n : x[i] <= v}) <= n
  BY <1>2, <1>3, FS_Subset
<1>5. /\ Cardinality({i \in 1..n : x[i] < v}) \in Nat
      /\ Cardinality({i \in 1..n : x[i] <= v}) \in Nat
  BY <1>4, FS_CardinalityType
<1>6. /\ Below(x, v) = Cardinality({i \in 1..n : x[i] < v})
      /\ AtMost(x, v) = Cardinality({i \in 1..n : x[i] <= v})
  BY <1>1 DEF Below, AtMost
<1> QED
  BY <1>4, <1>5, <1>6

\* The place of x[i] in the sorted sample; equal values keep their order.
Before(x, j, i) == x[j] < x[i] \/ (x[j] = x[i] /\ j <= i)
Place(x) == [i \in DOMAIN x |-> Cardinality({j \in DOMAIN x : Before(x, j, i)})]

LEMMA PlaceBounds ==
    ASSUME NEW n \in Nat, NEW x \in Sample(n), NEW i \in 1..n
    PROVE  Place(x)[i] \in 1..n /\ Below(x, x[i]) < Place(x)[i] /\ Place(x)[i] <= AtMost(x, x[i])
<1> DEFINE B == {j \in 1..n : x[j] < x[i]}
           P == {j \in 1..n : Before(x, j, i)}
           A == {j \in 1..n : x[j] <= x[i]}
<1>1. DOMAIN x = 1..n /\ \A j \in 1..n : x[j] \in Int
  BY DEF Sample
<1>2. IsFiniteSet(A) /\ IsFiniteSet(B) /\ Below(x, x[i]) = Cardinality(B)
      /\ AtMost(x, x[i]) = Cardinality(A) /\ AtMost(x, x[i]) \in 0..n /\ Below(x, x[i]) \in 0..n
  BY Counts
<1>3. P \in SUBSET A /\ B \in SUBSET P /\ i \in P /\ i \notin B
  BY <1>1 DEF Before
<1>4. IsFiniteSet(P) /\ Cardinality(P) <= Cardinality(A)
  BY <1>2, <1>3, FS_Subset
<1>5. Cardinality(B) <= Cardinality(P) /\ (Cardinality(P) = Cardinality(B) => P = B)
  BY <1>3, <1>4, FS_Subset
<1>6. Cardinality(P) \in Nat
  BY <1>4, FS_CardinalityType
<1>7. Place(x)[i] = Cardinality(P)
  BY <1>1 DEF Place
<1> HIDE DEF A, B, P
<1> QED
  BY <1>2, <1>3, <1>4, <1>5, <1>6, <1>7

\* No two values have the same place, so every place is taken.
LEMMA PlacesDiffer ==
    ASSUME NEW n \in Nat, NEW x \in Sample(n), NEW i \in 1..n, NEW k \in 1..n, i # k,
           Before(x, i, k)
    PROVE  Place(x)[i] < Place(x)[k]
<1> DEFINE P(l) == {j \in 1..n : Before(x, j, l)}
<1>1. DOMAIN x = 1..n /\ \A j \in 1..n : x[j] \in Int
  BY DEF Sample
<1>2. \A l \in 1..n : Place(x)[l] = Cardinality(P(l)) /\ Place(x)[l] \in 1..n
  BY <1>1, PlaceBounds DEF Place
<1>3. P(i) \in SUBSET P(k) /\ k \in P(k) /\ k \notin P(i)
  BY <1>1 DEF Before
<1>4. IsFiniteSet(P(k))
  <2>1. IsFiniteSet(1..n) /\ P(k) \in SUBSET (1..n)
    BY FS_Interval
  <2> QED
    BY <2>1, FS_Subset
<1>5. Cardinality(P(i)) <= Cardinality(P(k)) /\ Cardinality(P(i)) # Cardinality(P(k))
  BY <1>3, <1>4, FS_Subset
<1> HIDE DEF P
<1> QED
  BY <1>2, <1>5

LEMMA EveryPlace ==
    ASSUME NEW n \in Nat, NEW x \in Sample(n)
    PROVE  /\ Place(x) \in [1..n -> 1..n]
           /\ \A i, k \in 1..n : Place(x)[i] = Place(x)[k] => i = k
           /\ \A k \in 1..n : \E i \in 1..n : Place(x)[i] = k
<1>1. DOMAIN x = 1..n /\ \A j \in 1..n : x[j] \in Int
  BY DEF Sample
<1>2. Place(x) \in [1..n -> 1..n]
  <2>1. \A i \in 1..n : Place(x)[i] \in 1..n
    BY PlaceBounds
  <2>2. Place(x) = [i \in 1..n |-> Place(x)[i]]
    BY <1>1 DEF Place
  <2> QED
    BY <2>1, <2>2
<1>3. ASSUME NEW i \in 1..n, NEW k \in 1..n, i # k PROVE Place(x)[i] # Place(x)[k]
  <2>1. Before(x, i, k) \/ Before(x, k, i)
    BY <1>1, <1>3 DEF Before
  <2>2. Place(x)[i] \in Int /\ Place(x)[k] \in Int
    BY <1>2
  <2> QED
    BY <1>3, <2>1, <2>2, PlacesDiffer
<1>4. Place(x) \in Injection(1..n, 1..n)
  BY <1>2, <1>3 DEF Injection, IsInjective
<1>5. Place(x) \in Surjection(1..n, 1..n)
  <2>1. IsFiniteSet(1..n)
    BY FS_Interval
  <2> QED
    BY <1>4, <2>1, FS_Injection
<1> QED
  BY <1>2, <1>3, <1>5 DEF Surjection

\* The k-th smallest value is the one that k values do not exceed and fewer
\* stay below.
IsKth(x, k, v) == Below(x, v) < k /\ k <= AtMost(x, v)

LEMMA AtMostBelow ==
    ASSUME NEW n \in Nat, NEW x \in Sample(n), NEW a \in Int, NEW b \in Int, a < b
    PROVE  AtMost(x, a) <= Below(x, b)
<1>1. {i \in 1..n : x[i] <= a} \in SUBSET {i \in 1..n : x[i] < b}
  BY DEF Sample
<1>2. /\ AtMost(x, a) = Cardinality({i \in 1..n : x[i] <= a})
      /\ Below(x, b) = Cardinality({i \in 1..n : x[i] < b})
      /\ IsFiniteSet({i \in 1..n : x[i] < b})
  BY Counts
<1> QED
  BY <1>1, <1>2, FS_Subset

LEMMA OneKth ==
    ASSUME NEW n \in Nat, NEW x \in Sample(n), NEW k \in Int, NEW v \in Int, NEW w \in Int,
           IsKth(x, k, v), IsKth(x, k, w)
    PROVE  v = w
<1>1. \A a, b \in Int : a < b => AtMost(x, a) <= Below(x, b)
  BY AtMostBelow
<1>2. \A a \in Int : Below(x, a) \in 0..n /\ AtMost(x, a) \in 0..n
  BY Counts
<1>3. ~(v < w) /\ ~(w < v)
  BY <1>1, <1>2 DEF IsKth
<1> QED
  BY <1>3

LEMMA Kth ==
    ASSUME NEW n \in Nat, NEW x \in Sample(n), NEW k \in 1..n
    PROVE  /\ OrderStatistic(x, k) \in Int
           /\ \E i \in 1..n : OrderStatistic(x, k) = x[i] /\ Place(x)[i] = k
           /\ IsKth(x, k, OrderStatistic(x, k))
           /\ \A v \in Int : IsKth(x, k, v) => v = OrderStatistic(x, k)
<1>1. DOMAIN x = 1..n /\ \A j \in 1..n : x[j] \in Int
  BY DEF Sample
<1>2. PICK i \in 1..n : Place(x)[i] = k
  BY EveryPlace
<1>3. IsKth(x, k, x[i])
  BY <1>2, PlaceBounds DEF IsKth
<1>4. x[i] \in Range(x)
  BY <1>1 DEF Range
<1>5. OrderStatistic(x, k) \in Range(x) /\ IsKth(x, k, OrderStatistic(x, k))
  BY <1>3, <1>4 DEF OrderStatistic, IsKth
<1>6. OrderStatistic(x, k) \in Int
  BY <1>1, <1>5 DEF Range
<1> QED
  BY <1>1, <1>2, <1>3, <1>5, <1>6, OneKth

(***************************************************************************)
(* All pairwise differences                                                *)
(***************************************************************************)
LEMMA Division ==
    ASSUME NEW a \in Int, NEW b \in Nat, b > 0
    PROVE  a = (a \div b) * b + (a % b) /\ a % b \in 0..(b - 1) /\ a \div b \in Int
OBVIOUS

LEMMA Quotient ==
    ASSUME NEW q \in Int, NEW b \in Nat, NEW r \in 0..(b - 1), NEW a \in Int, a = q * b + r
    PROVE  a \div b = q /\ a % b = r
<1>1. a = (a \div b) * b + (a % b) /\ a % b \in 0..(b - 1) /\ a \div b \in Int
  <2>1. b > 0
    OBVIOUS
  <2> QED
    BY <2>1, Division
<1> DEFINE d == a \div b
           e == a % b
<1>2. (q - d) * b = e - r
  BY <1>1
<1>3. q - d < 1
  BY <1>1, <1>2
<1>4. q - d > -1
  BY <1>1, <1>2
<1>5. q = d
  BY <1>1, <1>3, <1>4
<1> QED
  BY <1>1, <1>2, <1>5

LEMMA Cell ==
    ASSUME NEW n \in Nat, NEW m \in Nat, NEW k \in 1..(n * m)
    PROVE  /\ ((k - 1) \div m) + 1 \in 1..n /\ ((k - 1) % m) + 1 \in 1..m
           /\ k = ((k - 1) \div m) * m + ((k - 1) % m) + 1
<1>1. m > 0
  OBVIOUS
<1> DEFINE d == (k - 1) \div m
           e == (k - 1) % m
<1>2. k - 1 = d * m + e /\ e \in 0..(m - 1) /\ d \in Int
  BY <1>1
<1>3. d * m < n * m /\ d * m > -m
  BY <1>1, <1>2
<1>4. d < n /\ d > -1
  BY <1>1, <1>2, <1>3
<1> QED
  BY <1>2, <1>4

LEMMA CellOf ==
    ASSUME NEW n \in Nat, NEW m \in Nat, NEW i \in 1..n, NEW j \in 1..m
    PROVE  \E k \in 1..(n * m) : ((k - 1) \div m) + 1 = i /\ ((k - 1) % m) + 1 = j
<1> DEFINE q == i - 1
           r == j - 1
           a == q * m + r
<1>1. q \in Nat /\ q < n /\ r \in 0..(m - 1) /\ i = q + 1 /\ j = r + 1
  OBVIOUS
<1> HIDE DEF q, r
<1>2. q * m \in Nat /\ n * m \in Nat /\ q * m + m <= n * m
  <2>1. (n - q - 1) * m >= 0 /\ (n - q - 1) * m = n * m - q * m - m
    BY <1>1
  <2>2. q * m \in Nat /\ n * m \in Nat
    BY <1>1
  <2> QED
    BY <2>1, <2>2
<1>3. a \in Int /\ a >= 0 /\ a < n * m
  BY <1>1, <1>2
<1>4. a \div m = q /\ a % m = r
  BY <1>1, <1>3, Quotient
<1> HIDE DEF a
<1>5. (a + 1) - 1 = a /\ a + 1 \in 1..(n * m)
  BY <1>2, <1>3
<1> QED
  BY <1>1, <1>4, <1>5

\* The sample whose median hodges_lehmann_shift takes.
Differences(x, y) ==
    [k \in 1..(Len(x) * Len(y)) |->
        x[((k - 1) \div Len(y)) + 1] - y[((k - 1) % Len(y)) + 1]]

LEMMA DifferencesType ==
    ASSUME NEW n \in Nat, NEW m \in Nat, NEW x \in Sample(n), NEW y \in Sample(m)
    PROVE  /\ Len(x) = n /\ Len(y) = m /\ n * m \in Nat
           /\ Differences(x, y) \in Sample(n * m)
           /\ \A k \in 1..(n * m) :
                 Differences(x, y)[k] = x[((k - 1) \div m) + 1] - y[((k - 1) % m) + 1]
<1>1. Len(x) = n /\ Len(y) = m
  BY DEF Sample
<1>2. Differences(x, y) =
        [k \in 1..(n * m) |-> x[((k - 1) \div m) + 1] - y[((k - 1) % m) + 1]]
  BY <1>1 DEF Differences
<1>3. \A k \in 1..(n * m) : x[((k - 1) \div m) + 1] - y[((k - 1) % m) + 1] \in Int
  <2> SUFFICES ASSUME NEW k \in 1..(n * m)
               PROVE  x[((k - 1) \div m) + 1] - y[((k - 1) % m) + 1] \in Int
    OBVIOUS
  <2> DEFINE i == ((k - 1) \div m) + 1
             j == ((k - 1) % m) + 1
  <2>1. i \in 1..n /\ j \in 1..m
    BY Cell
  <2> HIDE DEF i, j
  <2>2. x[i] - y[j] \in Int
    BY <2>1 DEF Sample
  <2> QED
    BY <2>2 DEF i, j
<1> QED
  BY <1>1, <1>2, <1>3 DEF Sample

\* How many values of a sample, and how many differences of pairs, lie in a set.
ValuesIn(d, S)   == {k \in DOMAIN d : d[k] \in S}
PairsIn(x, y, S) == {ij \in (DOMAIN x) \X (DOMAIN y) : x[ij[1]] - y[ij[2]] \in S}

UpTo(v)  == {z \in Int : z <= v}
Under(v) == {z \in Int : z < v}

LEMMA CountValues ==
    ASSUME NEW n \in Nat, NEW d \in Sample(n), NEW v \in Int
    PROVE  /\ Below(d, v) = Cardinality(ValuesIn(d, Under(v)))
           /\ AtMost(d, v) = Cardinality(ValuesIn(d, UpTo(v)))
<1>1. DOMAIN d = 1..n /\ \A k \in 1..n : d[k] \in Int
  BY DEF Sample
<1>2. /\ {i \in DOMAIN d : d[i] < v} = ValuesIn(d, Under(v))
      /\ {i \in DOMAIN d : d[i] <= v} = ValuesIn(d, UpTo(v))
  BY <1>1 DEF ValuesIn, Under, UpTo
<1> QED
  BY <1>2 DEF Below, AtMost

\* Counting differences is counting pairs.
LEMMA CountPairs ==
    ASSUME NEW n \in Nat, NEW m \in Nat, NEW x \in Sample(n), NEW y \in Sample(m), NEW S
    PROVE  Cardinality(ValuesIn(Differences(x, y), S)) = Cardinality(PairsIn(x, y, S))
<1> DEFINE D == ValuesIn(Differences(x, y), S)
           P == PairsIn(x, y, S)
           f == [k \in D |-> <<((k - 1) \div m) + 1, ((k - 1) % m) + 1>>]
<1>1. n * m \in Nat /\ \A k \in 1..(n * m) :
        Differences(x, y)[k] = x[((k - 1) \div m) + 1] - y[((k - 1) % m) + 1]
  BY DifferencesType
<1>2. D = {k \in 1..(n * m) : Differences(x, y)[k] \in S}
  <2>1. DOMAIN Differences(x, y) = 1..(n * m)
    BY DifferencesType DEF Sample
  <2> QED
    BY <2>1 DEF ValuesIn
<1>3. P = {ij \in (1..n) \X (1..m) : x[ij[1]] - y[ij[2]] \in S}
  BY DEF PairsIn, Sample
<1> HIDE DEF D, P
<1>4. IsFiniteSet(D)
  <2>1. IsFiniteSet(1..(n * m)) /\ D \in SUBSET (1..(n * m))
    BY <1>1, <1>2, FS_Interval
  <2> QED
    BY <2>1, FS_Subset
<1>5. f \in [D -> P]
  <2> SUFFICES ASSUME NEW k \in D PROVE f[k] \in P
    OBVIOUS
  <2>1. k \in 1..(n * m)
    BY <1>2
  <2>2. ((k - 1) \div m) + 1 \in 1..n /\ ((k - 1) % m) + 1 \in 1..m
    BY <2>1, Cell
  <2> QED
    BY <1>1, <1>2, <1>3, <2>1, <2>2
<1>6. \A k, l \in D : f[k] = f[l] => k = l
  <2> SUFFICES ASSUME NEW k \in D, NEW l \in D, f[k] = f[l] PROVE k = l
    OBVIOUS
  <2>1. ((k - 1) \div m) + 1 = ((l - 1) \div m) + 1 /\ ((k - 1) % m) + 1 = ((l - 1) % m) + 1
    OBVIOUS
  <2>2. k \in 1..(n * m) /\ l \in 1..(n * m)
    BY <1>2
  <2>3. k = ((k - 1) \div m) * m + ((k - 1) % m) + 1
    BY <2>2, Cell
  <2>4. l = ((l - 1) \div m) * m + ((l - 1) % m) + 1
    BY <2>2, Cell
  <2>5. (k - 1) \div m = (l - 1) \div m /\ (k - 1) % m = (l - 1) % m
    <3>1. m > 0 /\ k - 1 \in Int /\ l - 1 \in Int
      BY <1>1, <2>2
    <3>2. (k - 1) \div m \in Int /\ (k - 1) % m \in Int
          /\ (l - 1) \div m \in Int /\ (l - 1) % m \in Int
      BY <3>1, Division
    <3> QED
      BY <2>1, <3>2
  <2> QED
    BY <2>3, <2>4, <2>5
<1>7. \A ij \in P : \E k \in D : f[k] = ij
  <2> SUFFICES ASSUME NEW ij \in P PROVE \E k \in D : f[k] = ij
    OBVIOUS
  <2>1. ij \in (1..n) \X (1..m) /\ x[ij[1]] - y[ij[2]] \in S
    BY <1>3
  <2>2. PICK k \in 1..(n * m) : ((k - 1) \div m) + 1 = ij[1] /\ ((k - 1) % m) + 1 = ij[2]
    <3>1. ij[1] \in 1..n /\ ij[2] \in 1..m
      BY <2>1
    <3>2. \A p \in 1..n, q \in 1..m : \E k \in 1..(n * m) :
            ((k - 1) \div m) + 1 = p /\ ((k - 1) % m) + 1 = q
      BY CellOf
    <3> QED
      BY <3>1, <3>2
  <2>3. Differences(x, y)[k] = x[ij[1]] - y[ij[2]]
    BY <1>1, <2>2
  <2>4. k \in D
    BY <1>2, <2>1, <2>2, <2>3
  <2>5. f[k] = <<ij[1], ij[2]>>
    BY <2>2, <2>4
  <2> QED
    BY <2>1, <2>4, <2>5
<1> HIDE DEF f
<1>8. Cardinality(P) = Cardinality(D)
  BY <1>4, <1>5, <1>6, <1>7, SameSize
<1> QED
  BY <1>8 DEF D, P

LEMMA AllPairsOf ==
    ASSUME NEW n \in Nat, NEW m \in Nat, NEW x \in Sample(n), NEW y \in Sample(m)
    PROVE  /\ IsFiniteSet((DOMAIN x) \X (DOMAIN y))
           /\ Cardinality((DOMAIN x) \X (DOMAIN y)) = n * m
<1>1. IsFiniteSet(DOMAIN x) /\ Cardinality(DOMAIN x) = n
  BY FS_Interval DEF Sample
<1>2. IsFiniteSet(DOMAIN y) /\ Cardinality(DOMAIN y) = m
  BY FS_Interval DEF Sample
<1>3. IsFiniteSet((DOMAIN x) \X (DOMAIN y))
      /\ Cardinality((DOMAIN x) \X (DOMAIN y)) = Cardinality(DOMAIN x) * Cardinality(DOMAIN y)
  BY <1>1, <1>2, FS_Product
<1> QED
  BY <1>1, <1>2, <1>3

\* The pairs of y over x are those of x over y, turned round.
LEMMA TurnedRound ==
    ASSUME NEW n \in Nat, NEW m \in Nat, NEW x \in Sample(n), NEW y \in Sample(m),
           NEW S, NEW T, \A z \in Int : -z \in S <=> z \notin T
    PROVE  Cardinality(PairsIn(y, x, S)) = n * m - Cardinality(PairsIn(x, y, T))
<1> DEFINE All == (DOMAIN x) \X (DOMAIN y)
           P == PairsIn(x, y, T)
           Q == PairsIn(y, x, S)
           f == [ij \in All \ P |-> <<ij[2], ij[1]>>]
<1>1. IsFiniteSet(All) /\ Cardinality(All) = n * m
  BY AllPairsOf
<1>2. IsFiniteSet(All \ P) /\ Cardinality(All \ P) = n * m - Cardinality(P)
  <2>1. All \cap P = P
    BY DEF PairsIn
  <2> HIDE DEF All, P
  <2>2. IsFiniteSet(All \ P) /\ Cardinality(All \ P) = Cardinality(All) - Cardinality(All \cap P)
    BY <1>1, FS_Difference
  <2> QED
    BY <1>1, <2>1, <2>2
<1>3. \A i \in DOMAIN x, j \in DOMAIN y : y[j] - x[i] \in S <=> x[i] - y[j] \notin T
  <2> SUFFICES ASSUME NEW i \in DOMAIN x, NEW j \in DOMAIN y
               PROVE  y[j] - x[i] \in S <=> x[i] - y[j] \notin T
    OBVIOUS
  <2>1. x[i] \in Int /\ y[j] \in Int
    BY DEF Sample
  <2>2. -(x[i] - y[j]) \in S <=> x[i] - y[j] \notin T
    BY <2>1
  <2>3. -(x[i] - y[j]) = y[j] - x[i]
    BY <2>1
  <2> QED
    BY <2>2, <2>3
<1>4. f \in [All \ P -> Q]
  BY <1>3 DEF PairsIn
<1>5. \A s, r \in All \ P : f[s] = f[r] => s = r
  OBVIOUS
<1>6. \A t \in Q : \E s \in All \ P : f[s] = t
  <2> SUFFICES ASSUME NEW t \in Q PROVE \E s \in All \ P : f[s] = t
    OBVIOUS
  <2>1. <<t[2], t[1]>> \in All \ P /\ t = <<t[1], t[2]>>
    BY <1>3 DEF PairsIn
  <2> QED
    BY <2>1
<1>7. Cardinality(Q) = Cardinality(All \ P)
  <2> HIDE DEF All, P, Q, f
  <2> QED
    BY <1>2, <1>4, <1>5, <1>6, SameSize
<1> QED
  BY <1>2, <1>7

\* The differences the other way round are the negated ones.
LEMMA Negated ==
    ASSUME NEW n \in Nat, NEW m \in Nat, NEW x \in Sample(n), NEW y \in Sample(m), NEW v \in Int
    PROVE  /\ Below(Differences(y, x), v) = n * m - AtMost(Differences(x, y), -v)
           /\ AtMost(Differences(y, x), v) = n * m - Below(Differences(x, y), -v)
<1> DEFINE D == Differences(x, y)
           E == Differences(y, x)
<1>1. /\ D \in Sample(n * m) /\ E \in Sample(m * n) /\ n * m \in Nat /\ m * n \in Nat
      /\ -v \in Int
  BY DifferencesType
<1>2. ASSUME NEW S, NEW T, \A z \in Int : -z \in S <=> z \notin T
      PROVE  Cardinality(ValuesIn(E, S)) = n * m - Cardinality(ValuesIn(D, T))
  <2>1. Cardinality(ValuesIn(E, S)) = Cardinality(PairsIn(y, x, S))
    BY CountPairs
  <2>2. Cardinality(ValuesIn(D, T)) = Cardinality(PairsIn(x, y, T))
    BY CountPairs
  <2> QED
    BY <1>2, <2>1, <2>2, TurnedRound
<1> HIDE DEF D, E
<1>3. Below(E, v) = n * m - AtMost(D, -v)
  <2>1. \A z \in Int : -z \in Under(v) <=> z \notin UpTo(-v)
    BY DEF Under, UpTo
  <2> QED
    BY <1>1, <1>2, <2>1, CountValues
<1>4. AtMost(E, v) = n * m - Below(D, -v)
  <2>1. \A z \in Int : -z \in UpTo(v) <=> z \notin Under(-v)
    BY DEF Under, UpTo
  <2> QED
    BY <1>1, <1>2, <2>1, CountValues
<1> QED
  BY <1>3, <1>4 DEF D, E

\* The k-th smallest of them is the k-th largest, negated.
LEMMA KthNegated ==
    ASSUME NEW n \in Nat, NEW m \in Nat, NEW x \in Sample(n), NEW y \in Sample(m),
           NEW k \in 1..(n * m)
    PROVE  OrderStatistic(Differences(y, x), k)
             = -OrderStatistic(Differences(x, y), n * m + 1 - k)
<1> DEFINE D == Differences(x, y)
           E == Differences(y, x)
           N == n * m
           j == N + 1 - k
           v == OrderStatistic(D, j)
<1>1. D \in Sample(N) /\ E \in Sample(m * n) /\ N \in Nat /\ m * n = N
  BY DifferencesType
<1>2. \A w \in Int : Below(E, w) = N - AtMost(D, -w) /\ AtMost(E, w) = N - Below(D, -w)
  BY Negated
<1> HIDE DEF D, E, N
<1>3. j \in 1..N
  BY <1>1 DEF N
<1>4. v \in Int /\ IsKth(D, j, v)
  BY <1>1, <1>3, Kth
<1>5. -v \in Int /\ -(-v) = v
  BY <1>4
<1>6. Below(D, v) \in 0..N /\ AtMost(D, v) \in 0..N
  BY <1>1, Counts
<1>7. Below(E, -v) = N - AtMost(D, v) /\ AtMost(E, -v) = N - Below(D, v)
  BY <1>2, <1>5
<1> HIDE DEF v
<1>8. IsKth(E, k, -v)
  <2>1. k \in Int /\ N \in Int
    BY <1>1
  <2> QED
    BY <1>4, <1>6, <1>7, <2>1 DEF IsKth
<1>9. k \in 1..N
  BY DEF N
<1>10. -v = OrderStatistic(E, k)
  BY <1>1, <1>5, <1>8, <1>9, Kth
<1> QED
  BY <1>10 DEF v, D, E, N

LEMMA MiddlePlaces ==
    ASSUME NEW N \in Nat, N > 0
    PROVE  /\ (N + 1) \div 2 \in 1..N /\ (N + 2) \div 2 \in 1..N
           /\ N + 1 - ((N + 1) \div 2) = (N + 2) \div 2
           /\ N + 1 - ((N + 2) \div 2) = (N + 1) \div 2
OBVIOUS

LEMMA ShiftIsMedian ==
    ASSUME NEW n \in Nat, NEW m \in Nat, NEW x \in Sample(n), NEW y \in Sample(m)
    PROVE  /\ hodges_lehmann_shift(x, y) = TwiceMedian(Differences(x, y))
           /\ Len(Differences(x, y)) = n * m
<1>1. Len(Differences(x, y)) = n * m
  BY DifferencesType DEF Sample
<1> QED
  BY <1>1 DEF hodges_lehmann_shift, Differences

\* Turning a comparison round negates the shift.
LEMMA ShiftNegated ==
    ASSUME NEW n \in Nat \ {0}, NEW m \in Nat \ {0}, NEW x \in Sample(n), NEW y \in Sample(m)
    PROVE  /\ hodges_lehmann_shift(x, y) \in Int
           /\ hodges_lehmann_shift(y, x) = -hodges_lehmann_shift(x, y)
<1> DEFINE D == Differences(x, y)
           E == Differences(y, x)
           N == n * m
           a == (N + 1) \div 2
           b == (N + 2) \div 2
<1>1. N \in Nat /\ N > 0 /\ m * n = N
  OBVIOUS
<1>2. D \in Sample(N)
  BY DifferencesType
<1>3. /\ hodges_lehmann_shift(x, y) = TwiceMedian(D) /\ Len(D) = N
      /\ hodges_lehmann_shift(y, x) = TwiceMedian(E) /\ Len(E) = m * n
  BY ShiftIsMedian
<1>4. \A k \in 1..N : OrderStatistic(E, k) = -OrderStatistic(D, N + 1 - k)
  BY KthNegated
<1> HIDE DEF N, D, E
<1>5. a \in 1..N /\ b \in 1..N /\ N + 1 - a = b /\ N + 1 - b = a
  BY <1>1, MiddlePlaces
<1> HIDE DEF a, b
<1>6. OrderStatistic(D, a) \in Int /\ OrderStatistic(D, b) \in Int
  BY <1>1, <1>2, <1>5, Kth
<1>7. OrderStatistic(E, a) = -OrderStatistic(D, b) /\ OrderStatistic(E, b) = -OrderStatistic(D, a)
  BY <1>4, <1>5
<1>8. TwiceMedian(D) = OrderStatistic(D, a) + OrderStatistic(D, b)
      /\ TwiceMedian(E) = OrderStatistic(E, a) + OrderStatistic(E, b)
  <2>1. Len(D) = N /\ Len(E) = N
    BY <1>1, <1>3
  <2> QED
    BY <2>1 DEF TwiceMedian, a, b
<1> QED
  BY <1>3, <1>6, <1>7, <1>8

\* The rank-biserial correlation is told by the same counts.
LEMMA LeanCounts ==
    ASSUME NEW n \in Nat, NEW m \in Nat, NEW x \in Sample(n), NEW y \in Sample(m)
    PROVE  TwiceU(x, y) - n * m
             = n * m - AtMost(Differences(x, y), 0) - Below(Differences(x, y), 0)
<1> DEFINE All == (DOMAIN x) \X (DOMAIN y)
           U == PairsIn(x, y, UpTo(0))
           L == PairsIn(x, y, Under(0))
           D == Differences(x, y)
<1>1. IsFiniteSet(All) /\ Cardinality(All) = n * m
  BY AllPairsOf
<1>2. \A i \in DOMAIN x, j \in DOMAIN y : x[i] \in Int /\ y[j] \in Int
  BY DEF Sample
<1>3. {ij \in All : x[ij[1]] > y[ij[2]]} = All \ U
  BY <1>2 DEF PairsIn, UpTo
<1>4. {ij \in All : x[ij[1]] = y[ij[2]]} = U \ L
  BY <1>2 DEF PairsIn, UpTo, Under
<1>5. U \in SUBSET All /\ L \in SUBSET U
  BY <1>2 DEF PairsIn, UpTo, Under
<1>6. AtMost(D, 0) = Cardinality(U) /\ Below(D, 0) = Cardinality(L)
  <2>1. D \in Sample(n * m) /\ n * m \in Nat /\ 0 \in Int
    BY DifferencesType
  <2>2. /\ Cardinality(ValuesIn(D, UpTo(0))) = Cardinality(U)
        /\ Cardinality(ValuesIn(D, Under(0))) = Cardinality(L)
    BY CountPairs
  <2> HIDE DEF D, U, L
  <2> QED
    BY <2>1, <2>2, CountValues
<1>7. TwiceU(x, y) = 2 * Cardinality(All \ U) + Cardinality(U \ L)
  BY <1>3, <1>4 DEF TwiceU
<1> HIDE DEF All, U, L, D
<1>8. /\ IsFiniteSet(U) /\ IsFiniteSet(L)
      /\ Cardinality(U) \in Nat /\ Cardinality(L) \in Nat /\ n * m \in Nat
  BY <1>1, <1>5, FS_Subset, FS_CardinalityType
<1>9. Cardinality(All \ U) = n * m - Cardinality(U)
  <2>1. All \cap U = U
    BY <1>5
  <2> QED
    BY <1>1, <2>1, FS_Difference
<1>10. Cardinality(U \ L) = Cardinality(U) - Cardinality(L)
  <2>1. U \cap L = L
    BY <1>5
  <2> QED
    BY <1>8, <2>1, FS_Difference
<1>11. TwiceU(x, y) - n * m = n * m - Cardinality(U) - Cardinality(L)
  BY <1>7, <1>8, <1>9, <1>10
<1> QED
  BY <1>6, <1>11 DEF D

\* Turning a comparison round negates the correlation too, and so keeps p.
LEMMA LeanNegated ==
    ASSUME NEW n \in Nat, NEW m \in Nat, NEW x \in Sample(n), NEW y \in Sample(m)
    PROVE  /\ TwiceU(x, y) - n * m \in Int
           /\ TwiceU(y, x) - m * n = -(TwiceU(x, y) - n * m)
<1> DEFINE D == Differences(x, y)
           E == Differences(y, x)
<1>0. m * n = n * m /\ 0 \in Int
  OBVIOUS
<1>1. D \in Sample(n * m) /\ n * m \in Nat
  BY DifferencesType
<1>2. /\ TwiceU(x, y) - n * m = n * m - AtMost(D, 0) - Below(D, 0)
      /\ TwiceU(y, x) - m * n = m * n - AtMost(E, 0) - Below(E, 0)
  BY LeanCounts
<1>3. Below(E, 0) = n * m - AtMost(D, 0) /\ AtMost(E, 0) = n * m - Below(D, 0)
  <2>1. \A v \in Int : Below(E, v) = n * m - AtMost(D, -v) /\ AtMost(E, v) = n * m - Below(D, -v)
    BY Negated
  <2>2. \E v \in Int : v = 0 /\ -v = 0
    OBVIOUS
  <2> HIDE DEF D, E
  <2> QED
    BY <2>1, <2>2
<1> HIDE DEF D, E
<1>4. AtMost(D, 0) \in Int /\ Below(D, 0) \in Int
  <2>1. \A l \in Nat : \A d \in Sample(l) : AtMost(d, 0) \in 0..l /\ Below(d, 0) \in 0..l
    BY Counts
  <2> QED
    BY <1>1, <2>1
<1> DEFINE a == TwiceU(x, y) - n * m
           b == TwiceU(y, x) - m * n
           N == n * m
<1>5. a = N - AtMost(D, 0) - Below(D, 0) /\ b = N - AtMost(E, 0) - Below(E, 0)
  <2>1. b = m * n - AtMost(E, 0) - Below(E, 0)
    BY <1>2
  <2> QED
    BY <1>0, <1>2, <2>1
<1>6. N \in Int /\ Below(E, 0) = N - AtMost(D, 0) /\ AtMost(E, 0) = N - Below(D, 0)
  BY <1>1, <1>3
<1> HIDE DEF a, b, N
<1>7. a \in Int /\ b = -a
  BY <1>4, <1>5, <1>6
<1> QED
  BY <1>7 DEF a, b

(***************************************************************************)
(* Tests, correction and grades                                            *)
(***************************************************************************)
\* What compare gives for y over x, from what it gives for x over y.
Turned(c) == [p |-> c.p, rank_biserial |-> -c.rank_biserial,
              hodges_lehmann |-> -c.hodges_lehmann]

LEMMA CompareTurned ==
    ASSUME NEW n \in Nat \ {0}, NEW m \in Nat \ {0}, NEW x \in Sample(n), NEW y \in Sample(m)
    PROVE  /\ compare(y, x) = Turned(compare(x, y))
           /\ compare(x, y).rank_biserial \in Int /\ compare(x, y).hodges_lehmann \in Int
<1> DEFINE a == TwiceU(x, y) - n * m
           b == TwiceU(y, x) - m * n
           N == n * m
<1>1. Len(x) = n /\ Len(y) = m
  BY DEF Sample
<1>2. m * n = N
  OBVIOUS
<1>3. a \in Int /\ b = -a
  BY LeanNegated
<1>4. /\ hodges_lehmann_shift(x, y) \in Int
      /\ hodges_lehmann_shift(y, x) = -hodges_lehmann_shift(x, y)
  BY ShiftNegated
<1>5. compare(x, y) = [p |-> PValue[(100 * Magnitude(a)) \div N], rank_biserial |-> a,
                       hodges_lehmann |-> hodges_lehmann_shift(x, y)]
  BY <1>1 DEF compare
<1>6. compare(y, x) = [p |-> PValue[(100 * Magnitude(b)) \div N], rank_biserial |-> b,
                       hodges_lehmann |-> hodges_lehmann_shift(y, x)]
  <2>1. compare(y, x) = [p |-> PValue[(100 * Magnitude(b)) \div (m * n)], rank_biserial |-> b,
                         hodges_lehmann |-> hodges_lehmann_shift(y, x)]
    BY <1>1 DEF compare
  <2> HIDE DEF N, b
  <2> QED
    BY <1>2, <2>1
<1> HIDE DEF a, b, N
<1>7. Magnitude(b) = Magnitude(a)
  BY <1>3 DEF Magnitude
<1> QED
  BY <1>3, <1>4, <1>5, <1>6, <1>7 DEF Turned

LEMMA TestsOfPairs ==
    ASSUME NEW f
    PROVE  IsFiniteSet(Tests(f)) /\ IsFiniteSet(Tested(f))
<1>1. Tests(f) = {Test(f, ab) : ab \in Tested(f)}
  BY DEF Tests
<1>2. IsFiniteSet(Tested(f))
  <2>1. IsFiniteSet(1..7)
    <3>1. \A i, j \in Int : IsFiniteSet(i..j)
      BY FS_Interval
    <3>2. 1 \in Int /\ 7 \in Int
      OBVIOUS
    <3> QED
      BY <3>1, <3>2, Zenon
  <2>2. IsFiniteSet(Patterns \X Patterns)
    BY <2>1, FS_Product DEF Patterns
  <2>3. Tested(f) \in SUBSET (Patterns \X Patterns)
    BY DEF Tested, AllPairs
  <2> QED
    BY <2>2, <2>3, FS_Subset
<1>3. [ab \in Tested(f) |-> Test(f, ab)] \in Surjection(Tested(f), Tests(f))
  BY <1>1 DEF Surjection
<1> QED
  BY <1>1, <1>2, <1>3, FS_Surjection

\* The correction looks at p-values only.
LEMMA SameRejected ==
    ASSUME NEW S, NEW T, IsFiniteSet(S), NEW phi \in [S -> T],
           \A s, r \in S : phi[s] = phi[r] => s = r,
           \A t \in T : \E s \in S : phi[s] = t,
           \A s \in S : phi[s].p = s.p
    PROVE  \A s \in S : s \in holm(S) <=> phi[s] \in holm(T)
<1> DEFINE A(u) == {w \in S : w.p >= u.p}
           B(u) == {w \in T : w.p >= u.p}
<1>1. ASSUME NEW u \in S PROVE Cardinality(B(phi[u])) = Cardinality(A(u))
  <2> DEFINE g == [w \in A(u) |-> phi[w]]
  <2>1. IsFiniteSet(A(u))
    BY FS_Subset
  <2>2. g \in [A(u) -> B(phi[u])]
    OBVIOUS
  <2>3. \A s, r \in A(u) : g[s] = g[r] => s = r
    OBVIOUS
  <2>4. \A t \in B(phi[u]) : \E s \in A(u) : g[s] = t
    OBVIOUS
  <2> HIDE DEF A, B, g
  <2> QED
    BY <2>1, <2>2, <2>3, <2>4, SameSize
<1>2. ASSUME NEW s \in S
      PROVE  /\ s \in holm(S) <=> \A u \in S : u.p <= s.p => u.p * Cardinality(A(u)) <= alpha
             /\ phi[s] \in holm(T) <=>
                   \A u \in T : u.p <= phi[s].p => u.p * Cardinality(B(u)) <= alpha
  BY DEF holm
<1> HIDE DEF A, B
<1>3. ASSUME NEW s \in S
      PROVE  (\A u \in T : u.p <= phi[s].p => u.p * Cardinality(B(u)) <= alpha)
                <=> (\A u \in S : u.p <= s.p => u.p * Cardinality(A(u)) <= alpha)
  <2>1. (\A u \in T : u.p <= phi[s].p => u.p * Cardinality(B(u)) <= alpha)
          <=> (\A u \in S : phi[u].p <= phi[s].p => phi[u].p * Cardinality(B(phi[u])) <= alpha)
    OBVIOUS
  <2> QED
    BY <1>1, <2>1
<1> QED
  BY <1>2, <1>3

(***************************************************************************)
(* Exchanging two patterns                                                 *)
(***************************************************************************)
\* A sequence of numbers, one at least.
IsSample(x) == \E n \in Nat \ {0} : x \in Sample(n)

LEMMA TestType ==
    ASSUME NEW f, NEW ab \in AllPairs, IsSample(f[ab[1]]), IsSample(f[ab[2]])
    PROVE  LET c == compare(f[ab[1]], f[ab[2]])
           IN  /\ compare(f[ab[2]], f[ab[1]]) = Turned(c)
               /\ c.rank_biserial \in Int /\ c.hodges_lehmann \in Int
<1>1. PICK n \in Nat \ {0} : f[ab[1]] \in Sample(n)
  BY DEF IsSample
<1>2. PICK m \in Nat \ {0} : f[ab[2]] \in Sample(m)
  BY DEF IsSample
<1> QED
  BY <1>1, <1>2, CompareTurned

\* Patterns p and p + 1 change places; 0 stands for no pattern.
Swap(p) == [q \in 0..7 |-> IF q = p THEN p + 1 ELSE IF q = p + 1 THEN p ELSE q]

\* A pair is tested once, in order, before and after.
SwapPair(p, ab) == IF ab = <<p, p + 1>> THEN ab ELSE <<Swap(p)[ab[1]], Swap(p)[ab[2]]>>

LEMMA Swaps ==
    ASSUME NEW p \in 1..6
    PROVE  /\ \A q \in Patterns : Swap(p)[q] \in Patterns /\ Swap(p)[Swap(p)[q]] = q
           /\ Swap(p)[0] = 0
           /\ \A q \in 0..7 : \A r \in 0..7 : Swap(p)[q] = Swap(p)[r] => q = r
           /\ \A ab \in AllPairs : /\ SwapPair(p, ab) \in AllPairs
                                   /\ SwapPair(p, SwapPair(p, ab)) = ab
<1>1. /\ \A q \in Patterns : Swap(p)[q] \in Patterns /\ Swap(p)[Swap(p)[q]] = q
      /\ Swap(p)[0] = 0
      /\ \A q \in 0..7 : \A r \in 0..7 : Swap(p)[q] = Swap(p)[r] => q = r
  BY DEF Swap, Patterns
<1>2. ASSUME NEW a \in Patterns, NEW b \in Patterns, a < b
      PROVE  /\ SwapPair(p, <<a, b>>) \in AllPairs
             /\ SwapPair(p, SwapPair(p, <<a, b>>)) = <<a, b>>
  <2>1. CASE a = p /\ b = p + 1
    BY <1>2, <2>1 DEF SwapPair, AllPairs
  <2>2. CASE ~(a = p /\ b = p + 1)
    <3> DEFINE c == Swap(p)[a]
               d == Swap(p)[b]
    <3>1. SwapPair(p, <<a, b>>) = <<c, d>>
      BY <2>2 DEF SwapPair
    <3>2. c \in Patterns /\ d \in Patterns /\ c < d /\ ~(c = p /\ d = p + 1)
      BY <1>2, <2>2 DEF Swap, Patterns
    <3>3. Swap(p)[c] = a /\ Swap(p)[d] = b
      BY <1>1
    <3> HIDE DEF c, d
    <3>4. SwapPair(p, <<c, d>>) = <<a, b>>
      BY <3>2, <3>3 DEF SwapPair
    <3> QED
      BY <3>1, <3>2, <3>4 DEF AllPairs
  <2> QED
    BY <2>1, <2>2
<1>3. \A ab \in AllPairs : ab = <<ab[1], ab[2]>> /\ ab[1] \in Patterns /\ ab[2] \in Patterns
                           /\ ab[1] < ab[2]
  BY DEF AllPairs
<1>4. ASSUME NEW ab \in AllPairs
      PROVE  SwapPair(p, ab) \in AllPairs /\ SwapPair(p, SwapPair(p, ab)) = ab
  <2>1. ab = <<ab[1], ab[2]>> /\ ab[1] \in Patterns /\ ab[2] \in Patterns /\ ab[1] < ab[2]
    BY <1>3
  <2>2. PICK a \in Patterns, b \in Patterns : ab = <<a, b>> /\ a < b
    BY <2>1
  <2> QED
    BY <1>2, <2>2
<1> QED
  BY <1>1, <1>4

\* The same samples under exchanged names.
Renamed(p, f) == [q \in Patterns |-> f[Swap(p)[q]]]

LEMMA TestSwapped ==
    ASSUME NEW p \in 1..6, NEW f, \A q \in Patterns : IsSample(f[q]), NEW ab \in AllPairs
    PROVE  LET t == Test(f, ab)
               u == Test(Renamed(p, f), SwapPair(p, ab))
           IN  /\ u.p = t.p /\ Worse(u) = Swap(p)[Worse(t)] /\ Worse(t) \in 0..7
               /\ SwapPair(p, ab) \in Tested(Renamed(p, f)) <=> ab \in Tested(f)
<1> DEFINE g == Renamed(p, f)
           a == ab[1]
           b == ab[2]
           c == compare(f[a], f[b])
           t == Test(f, ab)
           u == Test(g, SwapPair(p, ab))
<1>1. a \in Patterns /\ b \in Patterns /\ ab = <<a, b>>
  BY DEF AllPairs
<1>2. /\ compare(f[b], f[a]) = Turned(c)
      /\ c.rank_biserial \in Int /\ c.hodges_lehmann \in Int
  BY <1>1, TestType
<1>3. /\ t.p = c.p /\ t.rank_biserial = c.rank_biserial
      /\ t.hodges_lehmann = c.hodges_lehmann /\ t.a = a /\ t.b = b
  BY DEF Test
<1>4. \A q \in Patterns : g[Swap(p)[q]] = f[q] /\ Swap(p)[q] \in Patterns
  BY Swaps DEF Renamed
<1>5. SwapPair(p, ab) \in AllPairs
  BY Swaps
<1>6. Worse(t) \in 0..7 /\ Swap(p)[0] = 0 /\ a \in 0..7 /\ b \in 0..7
  BY <1>1, <1>3, Swaps DEF Worse, Patterns
<1>7. CASE ab = <<p, p + 1>>
  <2>1. SwapPair(p, ab) = ab /\ a = p /\ b = p + 1
    BY <1>7 DEF SwapPair
  <2>2. Swap(p)[a] = b /\ Swap(p)[b] = a
    BY <2>1 DEF Swap
  <2>3. g[a] = f[b] /\ g[b] = f[a]
    BY <1>1, <1>4, <2>2
  <2>4. /\ u.p = c.p /\ u.rank_biserial = -c.rank_biserial
        /\ u.hodges_lehmann = -c.hodges_lehmann /\ u.a = a /\ u.b = b
    <3>1. u = Test(g, ab) /\ compare(g[ab[1]], g[ab[2]]) = Turned(c)
      BY <1>2, <2>1, <2>3
    <3> HIDE DEF g, c
    <3> QED
      BY <3>1 DEF Test, Turned
  <2>5. ab \in Tested(g) <=> ab \in Tested(f)
    <3>1. Range(f[b]) \cup Range(f[a]) = Range(f[a]) \cup Range(f[b])
      OBVIOUS
    <3> HIDE DEF g
    <3> QED
      BY <2>3, <3>1 DEF Tested, SameConstant
  <2> HIDE DEF t, u, c, g, a, b
  <2>6. Worse(u) = Swap(p)[Worse(t)]
    BY <1>2, <1>3, <1>6, <2>2, <2>4 DEF Worse
  <2> QED
    BY <1>3, <1>6, <2>1, <2>4, <2>5, <2>6 DEF t, u, g
<1>8. CASE ab # <<p, p + 1>>
  <2> DEFINE d == SwapPair(p, ab)
  <2>1. d = <<Swap(p)[a], Swap(p)[b]>>
    BY <1>8 DEF SwapPair
  <2>2. g[d[1]] = f[a] /\ g[d[2]] = f[b] /\ d[1] = Swap(p)[a] /\ d[2] = Swap(p)[b]
    BY <1>1, <1>4, <2>1
  <2>3. /\ u.p = c.p /\ u.rank_biserial = c.rank_biserial
        /\ u.hodges_lehmann = c.hodges_lehmann /\ u.a = Swap(p)[a] /\ u.b = Swap(p)[b]
    <3> HIDE DEF g, d
    <3>1. u = Test(g, d)
      BY DEF d
    <3> QED
      BY <2>2, <3>1 DEF Test
  <2>4. d \in Tested(g) <=> ab \in Tested(f)
    <3> HIDE DEF g, d
    <3>1. d \in AllPairs
      BY <1>5 DEF d
    <3> QED
      BY <2>2, <3>1 DEF Tested
  <2> HIDE DEF t, u, c, g, a, b, d
  <2>5. Worse(u) = Swap(p)[Worse(t)]
    BY <1>2, <1>3, <1>6, <2>3 DEF Worse
  <2> QED
    BY <1>3, <1>6, <2>3, <2>4, <2>5 DEF t, u, g, d
<1> QED
  BY <1>7, <1>8
\* The significant comparisons that pattern q loses.
Lost(f, q) == {t \in holm(Tests(f)) : Worse(t) = q}

LEMMA LostSwapped ==
    ASSUME NEW p \in 1..6, NEW f, \A q \in Patterns : IsSample(f[q]), NEW q \in Patterns
    PROVE  Cardinality(Lost(Renamed(p, f), Swap(p)[q])) = Cardinality(Lost(f, q))
<1> DEFINE g == Renamed(p, f)
           S == Tests(f)
           T == Tests(g)
           phi == [t \in S |-> Test(g, SwapPair(p, <<t.a, t.b>>))]
<1>1. \A ab \in AllPairs : /\ Test(f, ab).a = ab[1] /\ Test(f, ab).b = ab[2]
                           /\ Test(g, ab).a = ab[1] /\ Test(g, ab).b = ab[2]
                           /\ ab = <<ab[1], ab[2]>>
  BY DEF Test, AllPairs
<1>2. \A ab \in AllPairs :
        /\ SwapPair(p, ab) \in AllPairs /\ SwapPair(p, SwapPair(p, ab)) = ab
        /\ Test(g, SwapPair(p, ab)).p = Test(f, ab).p
        /\ Worse(Test(g, SwapPair(p, ab))) = Swap(p)[Worse(Test(f, ab))]
        /\ Worse(Test(f, ab)) \in 0..7
        /\ SwapPair(p, ab) \in Tested(g) <=> ab \in Tested(f)
  <2> SUFFICES ASSUME NEW ab \in AllPairs
               PROVE  /\ SwapPair(p, ab) \in AllPairs /\ SwapPair(p, SwapPair(p, ab)) = ab
                      /\ Test(g, SwapPair(p, ab)).p = Test(f, ab).p
                      /\ Worse(Test(g, SwapPair(p, ab))) = Swap(p)[Worse(Test(f, ab))]
                      /\ Worse(Test(f, ab)) \in 0..7
                      /\ SwapPair(p, ab) \in Tested(g) <=> ab \in Tested(f)
    OBVIOUS
  <2>1. SwapPair(p, ab) \in AllPairs /\ SwapPair(p, SwapPair(p, ab)) = ab
    BY Swaps
  <2>2. /\ Test(g, SwapPair(p, ab)).p = Test(f, ab).p
        /\ Worse(Test(g, SwapPair(p, ab))) = Swap(p)[Worse(Test(f, ab))]
        /\ Worse(Test(f, ab)) \in 0..7
        /\ SwapPair(p, ab) \in Tested(g) <=> ab \in Tested(f)
    BY TestSwapped
  <2> QED
    BY <2>1, <2>2
<1>3. /\ Tested(f) \in SUBSET AllPairs /\ Tested(g) \in SUBSET AllPairs
      /\ S = {Test(f, ab) : ab \in Tested(f)} /\ T = {Test(g, ab) : ab \in Tested(g)}
  BY DEF Tested, Tests
<1> HIDE DEF g, S, T
<1>4. ASSUME NEW ab \in Tested(f)
      PROVE  Test(f, ab) \in S /\ phi[Test(f, ab)] = Test(g, SwapPair(p, ab))
  BY <1>1, <1>3
<1> HIDE DEF phi
<1>5. phi \in [S -> T]
  <2>1. \A t \in S : phi[t] \in T
    BY <1>2, <1>3, <1>4
  <2> QED
    BY <2>1 DEF phi
<1>6. \A s, r \in S : phi[s] = phi[r] => s = r
  <2> SUFFICES ASSUME NEW ab \in Tested(f), NEW cd \in Tested(f),
                      Test(g, SwapPair(p, ab)) = Test(g, SwapPair(p, cd))
               PROVE  ab = cd
    BY <1>3, <1>4
  <2>1. SwapPair(p, ab) = SwapPair(p, cd)
    BY <1>1, <1>2, <1>3
  <2> QED
    BY <1>2, <1>3, <2>1
<1>7. \A t \in T : \E s \in S : phi[s] = t
  <2> SUFFICES ASSUME NEW cd \in Tested(g) PROVE \E s \in S : phi[s] = Test(g, cd)
    BY <1>3
  <2>1. SwapPair(p, cd) \in Tested(f)
    BY <1>2, <1>3
  <2> QED
    BY <1>2, <1>3, <1>4, <2>1
<1>8. ASSUME NEW s \in S
      PROVE  phi[s].p = s.p /\ Worse(phi[s]) = Swap(p)[Worse(s)] /\ Worse(s) \in 0..7
  BY <1>2, <1>3, <1>4
<1>9. IsFiniteSet(S)
  BY TestsOfPairs DEF S
<1>10. \A s \in S : s \in holm(S) <=> phi[s] \in holm(T)
  BY <1>5, <1>6, <1>7, <1>8, <1>9, SameRejected
<1> DEFINE L == Lost(f, q)
           M == Lost(g, Swap(p)[q])
           psi == [t \in L |-> phi[t]]
<1>11. L = {t \in S : t \in holm(S) /\ Worse(t) = q}
       /\ M = {t \in T : t \in holm(T) /\ Worse(t) = Swap(p)[q]}
  BY DEF Lost, holm, S, T
<1>12. \A t \in S : phi[t] \in M <=> t \in L
  <2>1. \A a \in 0..7 : Swap(p)[a] = Swap(p)[q] => a = q
    BY Swaps DEF Patterns
  <2> QED
    BY <1>5, <1>8, <1>10, <1>11, <2>1
<1>13. IsFiniteSet(L)
  BY <1>9, <1>11, FS_Subset
<1> HIDE DEF L, M
<1>14. /\ psi \in [L -> M]
       /\ \A s, r \in L : psi[s] = psi[r] => s = r
       /\ \A t \in M : \E s \in L : psi[s] = t
  BY <1>6, <1>7, <1>11, <1>12
<1> HIDE DEF psi
<1>15. Cardinality(M) = Cardinality(L)
  BY <1>13, <1>14, SameSize
<1> QED
  BY <1>15 DEF L, M, g

LEMMA GradeOf ==
    ASSUME NEW f, NEW q \in Patterns
    PROVE  dominated_grades(f)[q] =
              CASE Cardinality(Lost(f, q)) = 0 -> "A"
                [] Cardinality(Lost(f, q)) >= WORST_GROUP_MIN_DOMINATORS -> "C"
                [] OTHER -> "B"
BY DEF dominated_grades, Lost

LEMMA GradesSwapped ==
    ASSUME NEW p \in 1..6, NEW f, \A q \in Patterns : IsSample(f[q]), NEW q \in Patterns
    PROVE  dominated_grades(Renamed(p, f))[Swap(p)[q]] = dominated_grades(f)[q]
<1>1. Swap(p)[q] \in Patterns
  BY Swaps
<1> QED
  BY <1>1, GradeOf, LostSwapped

(***************************************************************************)
(* A sample none of whose ordered values is beaten                         *)
(***************************************************************************)
LEMMA ValueAtPlace ==
    ASSUME NEW n \in Nat, NEW x \in Sample(n), NEW i \in 1..n
    PROVE  Place(x)[i] \in 1..n /\ x[i] = OrderStatistic(x, Place(x)[i])
<1>1. Place(x)[i] \in 1..n
  BY PlaceBounds
<1>2. PICK j \in 1..n : OrderStatistic(x, Place(x)[i]) = x[j] /\ Place(x)[j] = Place(x)[i]
  <2>1. \A k \in 1..n : \E j \in 1..n : OrderStatistic(x, k) = x[j] /\ Place(x)[j] = k
    BY Kth
  <2> QED
    BY <1>1, <2>1
<1>3. j = i
  BY <1>2, EveryPlace
<1> QED
  BY <1>1, <1>2, <1>3

\* No ordered value of x is above that of y.
Ordered(x, y) == \A k \in 1..Len(x) : OrderStatistic(x, k) <= OrderStatistic(y, k)

\* Matching the places of a pair: y over x by at most v gives x over y by at most v.
LEMMA FewerOrdered ==
    ASSUME NEW n \in Nat, NEW x \in Sample(n), NEW y \in Sample(n), Ordered(x, y),
           NEW v \in Int
    PROVE  AtMost(Differences(y, x), v) <= AtMost(Differences(x, y), v)
<1> DEFINE P == PairsIn(x, y, UpTo(v))
           Q == PairsIn(y, x, UpTo(v))
           At(z, k) == CHOOSE i \in 1..n : Place(z)[i] = k
           f == [ji \in Q |-> <<At(x, Place(y)[ji[1]]), At(y, Place(x)[ji[2]])>>]
<1>1. /\ P = {ij \in (1..n) \X (1..n) : x[ij[1]] - y[ij[2]] \in UpTo(v)}
      /\ Q = {ji \in (1..n) \X (1..n) : y[ji[1]] - x[ji[2]] \in UpTo(v)}
  BY DEF PairsIn, Sample
<1>2. \A k \in 1..n : OrderStatistic(x, k) <= OrderStatistic(y, k)
  BY DEF Ordered, Sample
<1>3. \A i \in 1..n : /\ x[i] \in Int /\ y[i] \in Int
                      /\ Place(x)[i] \in 1..n /\ x[i] = OrderStatistic(x, Place(x)[i])
                      /\ Place(y)[i] \in 1..n /\ y[i] = OrderStatistic(y, Place(y)[i])
  BY ValueAtPlace DEF Sample
<1>4. \A k \in 1..n : /\ At(x, k) \in 1..n /\ Place(x)[At(x, k)] = k
                      /\ At(y, k) \in 1..n /\ Place(y)[At(y, k)] = k
  BY EveryPlace
<1>5. /\ \A i, j \in 1..n : Place(x)[i] = Place(x)[j] => i = j
      /\ \A i, j \in 1..n : Place(y)[i] = Place(y)[j] => i = j
  BY EveryPlace
<1> HIDE DEF P, Q, At
<1>6. ASSUME NEW j \in 1..n, NEW i \in 1..n, y[j] - x[i] <= v
      PROVE  x[At(x, Place(y)[j])] - y[At(y, Place(x)[i])] <= v
  <2> DEFINE k == Place(y)[j]
             l == Place(x)[i]
  <2>1. k \in 1..n /\ l \in 1..n
    BY <1>3
  <2> HIDE DEF k, l
  <2>2. /\ x[At(x, k)] = OrderStatistic(x, k) /\ x[At(x, k)] \in Int
        /\ y[At(y, l)] = OrderStatistic(y, l) /\ y[At(y, l)] \in Int
    BY <1>3, <1>4, <2>1
  <2>3. /\ y[j] = OrderStatistic(y, k) /\ x[i] = OrderStatistic(x, l)
        /\ y[j] \in Int /\ x[i] \in Int
    BY <1>3 DEF k, l
  <2>4. x[At(x, k)] <= y[j] /\ x[i] <= y[At(y, l)]
    BY <1>2, <2>1, <2>2, <2>3
  <2>5. x[At(x, k)] - y[At(y, l)] <= v
    BY <1>6, <2>2, <2>3, <2>4
  <2> QED
    BY <2>5 DEF k, l
<1>7. f \in [Q -> P]
  <2> SUFFICES ASSUME NEW j \in 1..n, NEW i \in 1..n, <<j, i>> \in Q
               PROVE  <<At(x, Place(y)[j]), At(y, Place(x)[i])>> \in P
    BY <1>1
  <2>1. y[j] - x[i] <= v
    BY <1>1 DEF UpTo
  <2>2. At(x, Place(y)[j]) \in 1..n /\ At(y, Place(x)[i]) \in 1..n
    BY <1>3, <1>4
  <2>3. x[At(x, Place(y)[j])] - y[At(y, Place(x)[i])] \in UpTo(v)
    BY <1>3, <1>6, <2>1, <2>2 DEF UpTo
  <2> QED
    BY <1>1, <2>2, <2>3
<1>8. \A s, r \in Q : f[s] = f[r] => s = r
  <2> SUFFICES ASSUME NEW j \in 1..n, NEW i \in 1..n, NEW k \in 1..n, NEW l \in 1..n,
                      At(x, Place(y)[j]) = At(x, Place(y)[k]),
                      At(y, Place(x)[i]) = At(y, Place(x)[l])
               PROVE  j = k /\ i = l
    BY <1>1
  <2>1. Place(y)[j] = Place(y)[k] /\ Place(x)[i] = Place(x)[l]
    BY <1>3, <1>4
  <2> QED
    BY <1>5, <2>1
<1>9. IsFiniteSet(P)
  <2>1. IsFiniteSet((DOMAIN x) \X (DOMAIN y)) /\ P \in SUBSET ((DOMAIN x) \X (DOMAIN y))
    BY AllPairsOf DEF P, PairsIn
  <2> QED
    BY <2>1, FS_Subset
<1>10. Cardinality(Q) <= Cardinality(P)
  <2>1. f \in Injection(Q, P)
    BY <1>7, <1>8 DEF Injection, IsInjective
  <2> QED
    BY <1>9, <2>1, FS_Injection
<1>11. /\ AtMost(Differences(x, y), v) = Cardinality(P)
       /\ AtMost(Differences(y, x), v) = Cardinality(Q)
  <2>1. /\ Differences(x, y) \in Sample(n * n) /\ Differences(y, x) \in Sample(n * n)
        /\ n * n \in Nat
    BY DifferencesType
  <2>2. \A d \in Sample(n * n) : AtMost(d, v) = Cardinality(ValuesIn(d, UpTo(v)))
    BY <2>1, CountValues
  <2>3. /\ Cardinality(ValuesIn(Differences(x, y), UpTo(v))) = Cardinality(P)
        /\ Cardinality(ValuesIn(Differences(y, x), UpTo(v))) = Cardinality(Q)
    BY CountPairs DEF P, Q
  <2> QED
    BY <2>1, <2>2, <2>3
<1> QED
  BY <1>10, <1>11
\* Samples of different lengths are compared through copies: every value of x
\* as many times as y has values, and the other way round.
Row(k, m) == ((k - 1) \div m) + 1
Col(k, m) == ((k - 1) % m) + 1
Copies(x, m) == [k \in 1..(Len(x) * m) |-> x[Row(k, m)]]

LEMMA GridPlaces ==
    ASSUME NEW n \in Nat, NEW m \in Nat
    PROVE  /\ \A k \in 1..(n * m) : Row(k, m) \in 1..n /\ Col(k, m) \in 1..m
           /\ \A k \in 1..(n * m) : \A l \in 1..(n * m) :
                 Row(k, m) = Row(l, m) /\ Col(k, m) = Col(l, m) => k = l
           /\ \A i \in 1..n : \A j \in 1..m : \E k \in 1..(n * m) : Row(k, m) = i /\ Col(k, m) = j
<1>1. ASSUME NEW k \in 1..(n * m)
      PROVE  /\ Row(k, m) \in 1..n /\ Col(k, m) \in 1..m
             /\ k = (Row(k, m) - 1) * m + Col(k, m)
  <2> DEFINE q == (k - 1) \div m
             e == (k - 1) % m
  <2>1. q + 1 \in 1..n /\ e + 1 \in 1..m /\ k = q * m + e + 1
    BY Cell
  <2>2. m > 0 /\ k - 1 \in Int
    OBVIOUS
  <2>3. q \in Int /\ e \in Int
    BY <2>2, Division
  <2> HIDE DEF q, e
  <2>4. (q + 1) - 1 = q
    BY <2>3
  <2>5. k = ((q + 1) - 1) * m + (e + 1)
    BY <2>1, <2>3, <2>4
  <2> QED
    BY <2>1, <2>5 DEF q, e, Row, Col
<1>2. ASSUME NEW i \in 1..n, NEW j \in 1..m
      PROVE  \E k \in 1..(n * m) : Row(k, m) = i /\ Col(k, m) = j
  <2>1. PICK k \in 1..(n * m) : ((k - 1) \div m) + 1 = i /\ ((k - 1) % m) + 1 = j
    <3>1. \A p \in 1..n, q \in 1..m : \E k \in 1..(n * m) :
            ((k - 1) \div m) + 1 = p /\ ((k - 1) % m) + 1 = q
      BY CellOf
    <3> QED
      BY <3>1
  <2>2. Row(k, m) = i /\ Col(k, m) = j
    BY <2>1 DEF Row, Col
  <2> QED
    BY <2>2
<1>3. ASSUME NEW k \in 1..(n * m), NEW l \in 1..(n * m),
             Row(k, m) = Row(l, m), Col(k, m) = Col(l, m)
      PROVE  k = l
  BY <1>1, <1>3
<1> QED
  BY <1>1, <1>2, <1>3

LEMMA CopiesType ==
    ASSUME NEW n \in Nat, NEW m \in Nat, NEW x \in Sample(n)
    PROVE  /\ Copies(x, m) \in Sample(n * m) /\ DOMAIN Copies(x, m) = 1..(n * m)
           /\ \A k \in 1..(n * m) : Copies(x, m)[k] = x[Row(k, m)]
<1>1. Len(x) = n /\ \A i \in 1..n : x[i] \in Int
  BY DEF Sample
<1>2. Copies(x, m) = [k \in 1..(n * m) |-> x[Row(k, m)]]
  BY <1>1 DEF Copies
<1>3. \A k \in 1..(n * m) : x[Row(k, m)] \in Int
  BY <1>1, GridPlaces
<1> QED
  BY <1>2, <1>3 DEF Sample

LEMMA CountCopies ==
    ASSUME NEW n \in Nat, NEW m \in Nat, NEW x \in Sample(n), NEW v
    PROVE  AtMost(Copies(x, m), v) = AtMost(x, v) * m
<1> DEFINE A == {i \in 1..n : x[i] <= v}
           B == {k \in 1..(n * m) : x[Row(k, m)] <= v}
           f == [k \in B |-> <<Row(k, m), Col(k, m)>>]
<1>1. n * m \in Nat
  OBVIOUS
<1>2. AtMost(x, v) = Cardinality(A) /\ IsFiniteSet(A)
  BY Counts
<1>3. AtMost(Copies(x, m), v) = Cardinality(B)
  <2>1. B = {k \in DOMAIN Copies(x, m) : Copies(x, m)[k] <= v}
    <3>1. /\ DOMAIN Copies(x, m) = 1..(n * m)
          /\ \A k \in 1..(n * m) : Copies(x, m)[k] = x[Row(k, m)]
      BY CopiesType
    <3> QED
      BY <3>1
  <2> QED
    BY <2>1 DEF AtMost
<1>4. IsFiniteSet(B)
  <2>1. IsFiniteSet(1..(n * m)) /\ B \in SUBSET (1..(n * m))
    BY <1>1, FS_Interval
  <2> QED
    BY <2>1, FS_Subset
<1>5. IsFiniteSet(A \X (1..m)) /\ Cardinality(A \X (1..m)) = Cardinality(A) * m
  <2>1. IsFiniteSet(1..m) /\ Cardinality(1..m) = m
    BY FS_Interval
  <2> HIDE DEF A
  <2> QED
    BY <1>2, <2>1, FS_Product
<1>6. f \in [B -> A \X (1..m)]
  BY GridPlaces
<1>7. \A s, r \in B : f[s] = f[r] => s = r
  BY GridPlaces
<1>8. \A t \in A \X (1..m) : \E s \in B : f[s] = t
  <2> SUFFICES ASSUME NEW t \in A \X (1..m) PROVE \E s \in B : f[s] = t
    OBVIOUS
  <2>0. PICK i \in A, j \in 1..m : t = <<i, j>>
    OBVIOUS
  <2>1. PICK k \in 1..(n * m) : Row(k, m) = i /\ Col(k, m) = j
    <3>1. \A a \in 1..n : \A b \in 1..m :
            \E k \in 1..(n * m) : Row(k, m) = a /\ Col(k, m) = b
      BY GridPlaces
    <3> QED
      BY <3>1
  <2>2. k \in B
    BY <2>1
  <2> QED
    BY <2>0, <2>1, <2>2
<1> HIDE DEF A, B, f
<1>9. Cardinality(A \X (1..m)) = Cardinality(B)
  BY <1>4, <1>6, <1>7, <1>8, SameSize
<1> QED
  BY <1>2, <1>3, <1>5, <1>9

LEMMA PairCopies ==
    ASSUME NEW n \in Nat, NEW m \in Nat, NEW x \in Sample(n), NEW y \in Sample(m), NEW S
    PROVE  Cardinality(PairsIn(Copies(x, m), Copies(y, n), S))
             = Cardinality(PairsIn(x, y, S)) * (n * m)
<1> DEFINE P == PairsIn(x, y, S)
           Q == PairsIn(Copies(x, m), Copies(y, n), S)
           C == (1..m) \X (1..n)
           f == [kl \in Q |-> <<<<Row(kl[1], m), Row(kl[2], n)>>, <<Col(kl[1], m), Col(kl[2], n)>>>>]
<1>1. /\ P = {ij \in (1..n) \X (1..m) : x[ij[1]] - y[ij[2]] \in S}
      /\ Q = {kl \in (1..(n * m)) \X (1..(m * n)) : x[Row(kl[1], m)] - y[Row(kl[2], n)] \in S}
  <2>1. DOMAIN x = 1..n /\ DOMAIN y = 1..m
    BY DEF Sample
  <2>2. /\ DOMAIN Copies(x, m) = 1..(n * m) /\ DOMAIN Copies(y, n) = 1..(m * n)
        /\ \A k \in 1..(n * m) : Copies(x, m)[k] = x[Row(k, m)]
        /\ \A k \in 1..(m * n) : Copies(y, n)[k] = y[Row(k, n)]
    BY CopiesType
  <2> QED
    BY <2>1, <2>2 DEF PairsIn
<1>2. IsFiniteSet(P) /\ IsFiniteSet(Q)
  <2>1. P \in SUBSET ((DOMAIN x) \X (DOMAIN y)) /\ IsFiniteSet((DOMAIN x) \X (DOMAIN y))
    BY AllPairsOf DEF PairsIn
  <2>2. n * m \in Nat /\ m * n \in Nat
    OBVIOUS
  <2>3. Q \in SUBSET ((1..(n * m)) \X (1..(m * n)))
    BY <1>1
  <2>4. IsFiniteSet((1..(n * m)) \X (1..(m * n)))
    <3>1. IsFiniteSet(1..(n * m)) /\ IsFiniteSet(1..(m * n))
      BY <2>2, FS_Interval
    <3> QED
      BY <3>1, FS_Product
  <2> HIDE DEF P, Q
  <2> QED
    BY <2>1, <2>3, <2>4, FS_Subset
<1>3. IsFiniteSet(C) /\ Cardinality(C) = n * m
  <2>1. /\ IsFiniteSet(1..m) /\ Cardinality(1..m) = m
        /\ IsFiniteSet(1..n) /\ Cardinality(1..n) = n
    BY FS_Interval
  <2>2. Cardinality(C) = m * n /\ IsFiniteSet(C)
    BY <2>1, FS_Product
  <2> QED
    BY <2>2
<1>4. /\ \A k \in 1..(n * m) : Row(k, m) \in 1..n /\ Col(k, m) \in 1..m
      /\ \A k \in 1..(n * m) : \A l \in 1..(n * m) :
            Row(k, m) = Row(l, m) /\ Col(k, m) = Col(l, m) => k = l
      /\ \A i \in 1..n : \A j \in 1..m : \E k \in 1..(n * m) : Row(k, m) = i /\ Col(k, m) = j
  BY GridPlaces
<1>5. /\ \A k \in 1..(m * n) : Row(k, n) \in 1..m /\ Col(k, n) \in 1..n
      /\ \A k \in 1..(m * n) : \A l \in 1..(m * n) :
            Row(k, n) = Row(l, n) /\ Col(k, n) = Col(l, n) => k = l
      /\ \A i \in 1..m : \A j \in 1..n : \E k \in 1..(m * n) : Row(k, n) = i /\ Col(k, n) = j
  BY GridPlaces
<1> HIDE DEF P, Q
<1>6. f \in [Q -> P \X C]
  BY <1>1, <1>4, <1>5
<1>7. \A s, r \in Q : f[s] = f[r] => s = r
  <2> SUFFICES ASSUME NEW s \in Q, NEW r \in Q, f[s] = f[r] PROVE s = r
    OBVIOUS
  <2>1. /\ Row(s[1], m) = Row(r[1], m) /\ Row(s[2], n) = Row(r[2], n)
        /\ Col(s[1], m) = Col(r[1], m) /\ Col(s[2], n) = Col(r[2], n)
    OBVIOUS
  <2>2. /\ s = <<s[1], s[2]>> /\ r = <<r[1], r[2]>>
        /\ s[1] \in 1..(n * m) /\ s[2] \in 1..(m * n)
        /\ r[1] \in 1..(n * m) /\ r[2] \in 1..(m * n)
    BY <1>1
  <2> QED
    BY <1>4, <1>5, <2>1, <2>2
<1>8. \A t \in P \X C : \E s \in Q : f[s] = t
  <2> SUFFICES ASSUME NEW t \in P \X C PROVE \E s \in Q : f[s] = t
    OBVIOUS
  <2>1. PICK i \in 1..n, j \in 1..m, a \in 1..m, b \in 1..n :
          t = <<<<i, j>>, <<a, b>>>> /\ <<i, j>> \in P /\ x[i] - y[j] \in S
    <3>1. \A ij \in P : \E i \in 1..n, j \in 1..m : ij = <<i, j>> /\ x[i] - y[j] \in S
      BY <1>1
    <3>2. PICK ij \in P, a \in 1..m, b \in 1..n : t = <<ij, <<a, b>>>>
      OBVIOUS
    <3> QED
      BY <3>1, <3>2
  <2>2. PICK k \in 1..(n * m) : Row(k, m) = i /\ Col(k, m) = a
    BY <1>4
  <2>3. PICK l \in 1..(m * n) : Row(l, n) = j /\ Col(l, n) = b
    BY <1>5
  <2>4. <<k, l>> \in Q
    BY <1>1, <2>1, <2>2, <2>3
  <2> QED
    BY <2>1, <2>2, <2>3, <2>4
<1> HIDE DEF f, C
<1>9. Cardinality(P \X C) = Cardinality(Q)
  BY <1>2, <1>6, <1>7, <1>8, SameSize
<1>10. Cardinality(P \X C) = Cardinality(P) * (n * m)
  BY <1>2, <1>3, FS_Product
<1> QED
  BY <1>9, <1>10 DEF P, Q
\* At least as good in shares, the copies are as good value by value.
LEMMA OrderedCopies ==
    ASSUME NEW n \in Nat \ {0}, NEW m \in Nat \ {0}, NEW x \in Sample(n), NEW y \in Sample(m),
           AtLeastAsGood(x, y)
    PROVE  Ordered(Copies(x, m), Copies(y, n))
<1> DEFINE X == Copies(x, m)
           Y == Copies(y, n)
           N == n * m
<1>1. N \in Nat /\ m * n = N
  OBVIOUS
<1>2. X \in Sample(N) /\ Y \in Sample(N) /\ \A k \in 1..N : Y[k] = y[Row(k, n)]
  BY <1>1, CopiesType
<1>3. \A v : AtMost(X, v) = AtMost(x, v) * m /\ AtMost(Y, v) = AtMost(y, v) * n
  BY CountCopies
<1>4. \A k \in 1..N : Row(k, n) \in 1..m
  BY <1>1, GridPlaces
<1> HIDE DEF X, Y, N
<1>5. ASSUME NEW k \in 1..N PROVE OrderStatistic(X, k) <= OrderStatistic(Y, k)
  <2> DEFINE u == OrderStatistic(X, k)
             w == OrderStatistic(Y, k)
  <2>1. u \in Int /\ IsKth(X, k, u)
    BY <1>1, <1>2, Kth
  <2>2. PICK i \in 1..N : w = Y[i] /\ w \in Int /\ IsKth(Y, k, w)
    BY <1>1, <1>2, Kth
  <2> HIDE DEF u, w
  <2>3. w \in Range(y)
    <3>1. w = y[Row(i, n)] /\ Row(i, n) \in DOMAIN y
      BY <1>2, <1>4, <2>2 DEF Sample
    <3> QED
      BY <3>1 DEF Range
  <2>4. AtMost(x, w) * m >= AtMost(y, w) * n
    <3>1. Len(x) = n /\ Len(y) = m
      BY DEF Sample
    <3> QED
      BY <2>3, <3>1 DEF AtLeastAsGood
  <2>5. AtMost(X, w) >= AtMost(Y, w)
    BY <1>3, <2>4
  <2>6. AtMost(X, w) \in Int /\ AtMost(Y, w) \in Int /\ Below(X, u) \in Int
    <3>1. \A v : AtMost(X, v) \in 0..N /\ Below(X, v) \in 0..N
      BY <1>1, <1>2, Counts
    <3>2. \A v : AtMost(Y, v) \in 0..N
      BY <1>1, <1>2, Counts
    <3> QED
      BY <3>1, <3>2
  <2>7. ~(w < u)
    <3>1. w < u => AtMost(X, w) <= Below(X, u)
      BY <1>1, <1>2, <2>1, <2>2, AtMostBelow
    <3> QED
      BY <2>1, <2>2, <2>5, <2>6, <3>1 DEF IsKth
  <2>8. u <= w
    BY <2>1, <2>2, <2>7
  <2> QED
    BY <2>8 DEF u, w
<1>6. Len(X) = N
  BY <1>1, <1>2 DEF Sample
<1> QED
  BY <1>5, <1>6 DEF Ordered, X, Y

LEMMA FewerOver ==
    ASSUME NEW n \in Nat \ {0}, NEW m \in Nat \ {0}, NEW x \in Sample(n), NEW y \in Sample(m),
           AtLeastAsGood(x, y), NEW v \in Int
    PROVE  AtMost(Differences(y, x), v) <= AtMost(Differences(x, y), v)
<1> DEFINE X == Copies(x, m)
           Y == Copies(y, n)
           N == n * m
           P == Cardinality(PairsIn(x, y, UpTo(v)))
           Q == Cardinality(PairsIn(y, x, UpTo(v)))
<1>1. N \in Nat /\ N > 0 /\ m * n = N
  OBVIOUS
<1>2. X \in Sample(N) /\ Y \in Sample(N) /\ Ordered(X, Y)
  BY <1>1, CopiesType, OrderedCopies
<1>3. /\ Cardinality(PairsIn(X, Y, UpTo(v))) = P * N
      /\ Cardinality(PairsIn(Y, X, UpTo(v))) = Q * N
  <2>1. Cardinality(PairsIn(X, Y, UpTo(v))) = P * N
    BY PairCopies
  <2>2. Cardinality(PairsIn(Y, X, UpTo(v))) = Q * (m * n)
    BY PairCopies
  <2> HIDE DEF N, P, Q, X, Y
  <2> QED
    BY <1>1, <2>1, <2>2
<1>4. /\ AtMost(Differences(x, y), v) = P /\ AtMost(Differences(y, x), v) = Q
      /\ P \in Int /\ Q \in Int
  <2>1. /\ Differences(x, y) \in Sample(N) /\ Differences(y, x) \in Sample(N)
    BY <1>1, DifferencesType
  <2>2. /\ Cardinality(ValuesIn(Differences(x, y), UpTo(v))) = P
        /\ Cardinality(ValuesIn(Differences(y, x), UpTo(v))) = Q
    BY CountPairs
  <2> HIDE DEF N, P, Q
  <2>3. \A d \in Sample(N) : /\ AtMost(d, v) = Cardinality(ValuesIn(d, UpTo(v)))
                             /\ AtMost(d, v) \in 0..N
    BY <1>1, CountValues, Counts
  <2> QED
    BY <1>1, <2>1, <2>2, <2>3
<1> HIDE DEF X, Y, N, P, Q
<1>5. /\ AtMost(Differences(X, Y), v) = P * N /\ AtMost(Differences(Y, X), v) = Q * N
  <2>1. /\ Differences(X, Y) \in Sample(N * N) /\ Differences(Y, X) \in Sample(N * N)
        /\ N * N \in Nat
    BY <1>1, <1>2, DifferencesType
  <2>2. \A d \in Sample(N * N) : AtMost(d, v) = Cardinality(ValuesIn(d, UpTo(v)))
    BY <2>1, CountValues
  <2>3. /\ Cardinality(ValuesIn(Differences(X, Y), UpTo(v))) = P * N
        /\ Cardinality(ValuesIn(Differences(Y, X), UpTo(v))) = Q * N
    BY <1>1, <1>2, <1>3, CountPairs
  <2> QED
    BY <2>1, <2>2, <2>3
<1>6. Q * N <= P * N
  BY <1>1, <1>2, <1>5, FewerOrdered
<1>7. Q <= P
  BY <1>1, <1>4, <1>6
<1> QED
  BY <1>4, <1>7

\* It is not over the other in rank, nor in shift.
LEMMA NeverOver ==
    ASSUME NEW n \in Nat \ {0}, NEW m \in Nat \ {0}, NEW x \in Sample(n), NEW y \in Sample(m),
           AtLeastAsGood(x, y)
    PROVE  TwiceU(x, y) - n * m <= 0 /\ hodges_lehmann_shift(x, y) <= 0
<1> DEFINE D == Differences(x, y)
           E == Differences(y, x)
           N == n * m
           a == (N + 1) \div 2
           b == (N + 2) \div 2
           u == OrderStatistic(D, a)
           w == OrderStatistic(D, b)
<1>1. N \in Nat /\ N > 0
  OBVIOUS
<1>2. D \in Sample(N) /\ Len(D) = N /\ hodges_lehmann_shift(x, y) = TwiceMedian(D)
  BY DifferencesType, ShiftIsMedian
<1>3. \A v \in Int : AtMost(D, v) >= N - Below(D, -v)
  <2> SUFFICES ASSUME NEW v \in Int PROVE AtMost(D, v) >= N - Below(D, -v)
    OBVIOUS
  <2>1. AtMost(E, v) <= AtMost(D, v) /\ AtMost(E, v) = N - Below(D, -v)
    BY FewerOver, Negated
  <2>2. AtMost(D, v) \in 0..N /\ Below(D, -v) \in 0..N
    BY <1>1, <1>2, Counts
  <2> HIDE DEF N, D, E
  <2> QED
    BY <1>1, <2>1, <2>2
<1>4. TwiceU(x, y) - N = N - AtMost(D, 0) - Below(D, 0)
  BY LeanCounts
<1> HIDE DEF D, E, N
<1>5. \A v : AtMost(D, v) \in 0..N /\ Below(D, v) \in 0..N
  BY <1>1, <1>2, Counts
<1>6. TwiceU(x, y) - N <= 0
  <2>1. \E v \in Int : v = 0 /\ -v = 0
    OBVIOUS
  <2>2. AtMost(D, 0) >= N - Below(D, 0)
    BY <1>3, <2>1
  <2> QED
    BY <1>1, <1>4, <1>5, <2>2
<1>7. a \in 1..N /\ b \in 1..N /\ b = N + 1 - a
  BY <1>1, MiddlePlaces
<1> HIDE DEF a, b
<1>8. u \in Int /\ w \in Int /\ IsKth(D, a, u) /\ IsKth(D, b, w)
  BY <1>1, <1>2, <1>7, Kth
<1> HIDE DEF u, w
<1>9. u <= -w
  <2> SUFFICES ASSUME -w < u PROVE FALSE
    BY <1>8
  <2>1. AtMost(D, -w) >= N - Below(D, w)
    <3>1. -w \in Int /\ -(-w) = w
      BY <1>8
    <3> QED
      BY <1>3, <3>1
  <2>2. AtMost(D, -w) >= a
    BY <1>1, <1>5, <1>7, <1>8, <2>1 DEF IsKth
  <2>3. -w \in Int
    BY <1>8
  <2>4. AtMost(D, -w) <= Below(D, u)
    BY <1>1, <1>2, <1>8, <2>3, AtMostBelow
  <2> QED
    BY <1>5, <1>7, <1>8, <2>2, <2>4 DEF IsKth
<1>10. TwiceMedian(D) = u + w
  BY <1>2 DEF TwiceMedian, u, w, a, b
<1> QED
  BY <1>2, <1>6, <1>8, <1>9, <1>10 DEF N

\* So it loses no comparison.
LEMMA BestUnbeaten ==
    ASSUME NEW f, \A q \in Patterns : IsSample(f[q]),
           NEW p \in Patterns, \A q \in Patterns : AtLeastAsGood(f[p], f[q])
    PROVE  dominated_grades(f)[p] = "A"
<1>1. \A q \in Patterns :
        /\ compare(f[p], f[q]).rank_biserial <= 0 /\ compare(f[p], f[q]).hodges_lehmann <= 0
        /\ compare(f[p], f[q]).rank_biserial \in Int /\ compare(f[p], f[q]).hodges_lehmann \in Int
        /\ compare(f[q], f[p]) = Turned(compare(f[p], f[q]))
  <2> SUFFICES ASSUME NEW q \in Patterns
               PROVE  LET c == compare(f[p], f[q])
                      IN  /\ c.rank_biserial <= 0 /\ c.hodges_lehmann <= 0
                          /\ c.rank_biserial \in Int /\ c.hodges_lehmann \in Int
                          /\ compare(f[q], f[p]) = Turned(c)
    OBVIOUS
  <2>0. PICK n \in Nat \ {0}, m \in Nat \ {0} : f[p] \in Sample(n) /\ f[q] \in Sample(m)
    BY DEF IsSample
  <2>1. /\ TwiceU(f[p], f[q]) - n * m <= 0 /\ hodges_lehmann_shift(f[p], f[q]) <= 0
        /\ Len(f[p]) = n /\ Len(f[q]) = m
    BY <2>0, NeverOver DEF Sample
  <2>2. /\ compare(f[p], f[q]).rank_biserial <= 0 /\ compare(f[p], f[q]).hodges_lehmann <= 0
    BY <2>1 DEF compare
  <2>3. /\ compare(f[q], f[p]) = Turned(compare(f[p], f[q]))
        /\ compare(f[p], f[q]).rank_biserial \in Int /\ compare(f[p], f[q]).hodges_lehmann \in Int
    BY <2>0, CompareTurned
  <2> QED
    BY <2>2, <2>3
<1>2. ASSUME NEW ab \in AllPairs PROVE Worse(Test(f, ab)) # p
  <2> DEFINE a == ab[1]
             b == ab[2]
             t == Test(f, ab)
  <2>1. a \in Patterns /\ b \in Patterns /\ a # b /\ p # 0
    BY DEF AllPairs, Patterns
  <2>2. /\ t.a = a /\ t.b = b /\ t.rank_biserial = compare(f[a], f[b]).rank_biserial
        /\ t.hodges_lehmann = compare(f[a], f[b]).hodges_lehmann
    BY DEF Test
  <2> HIDE DEF a, b, t
  <2>3. CASE a = p
    <3>1. /\ t.rank_biserial \in Int /\ t.rank_biserial <= 0
          /\ t.hodges_lehmann \in Int /\ t.hodges_lehmann <= 0
      BY <1>1, <2>1, <2>2, <2>3
    <3>2. Worse(t) # t.a
      BY <2>1, <2>2, <2>3, <3>1 DEF Worse
    <3> QED
      BY <2>2, <2>3, <3>2 DEF t
  <2>4. CASE b = p
    <3>1. /\ t.rank_biserial = -compare(f[p], f[a]).rank_biserial
          /\ t.hodges_lehmann = -compare(f[p], f[a]).hodges_lehmann
      <4>1. compare(f[a], f[p]) = Turned(compare(f[p], f[a]))
        BY <1>1, <2>1
      <4>2. /\ Turned(compare(f[p], f[a])).rank_biserial = -compare(f[p], f[a]).rank_biserial
            /\ Turned(compare(f[p], f[a])).hodges_lehmann = -compare(f[p], f[a]).hodges_lehmann
        BY DEF Turned
      <4> QED
        BY <2>2, <2>4, <4>1, <4>2
    <3>2. /\ t.rank_biserial \in Int /\ t.rank_biserial >= 0
          /\ t.hodges_lehmann \in Int /\ t.hodges_lehmann >= 0
      <4>1. /\ compare(f[p], f[a]).rank_biserial <= 0 /\ compare(f[p], f[a]).hodges_lehmann <= 0
            /\ compare(f[p], f[a]).rank_biserial \in Int
            /\ compare(f[p], f[a]).hodges_lehmann \in Int
        BY <1>1, <2>1
      <4> QED
        BY <3>1, <4>1
    <3>3. Worse(t) # t.b
      BY <2>1, <2>2, <2>4, <3>2 DEF Worse
    <3> QED
      BY <2>2, <2>4, <3>3 DEF t
  <2>5. CASE a # p /\ b # p
    <3>1. Worse(t) \in {a, b, 0}
      BY <2>2 DEF Worse
    <3> QED
      BY <2>1, <2>5, <3>1 DEF t
  <2> QED
    BY <2>3, <2>4, <2>5
<1>3. Lost(f, p) = {}
  <2>1. Lost(f, p) \in SUBSET Tests(f) /\ \A t \in Lost(f, p) : Worse(t) = p
    BY DEF Lost, holm
  <2>2. \A t \in Tests(f) : \E ab \in AllPairs : t = Test(f, ab)
    BY DEF Tests, Tested
  <2> QED
    BY <1>2, <2>1, <2>2
<1>4. Cardinality(Lost(f, p)) = 0
  BY <1>3, FS_EmptySet
<1>5. ~(0 >= WORST_GROUP_MIN_DOMINATORS)
  <2>1. WORST_GROUP_MIN_DOMINATORS \in 1..6
    BY RulesAssumption
  <2> QED
    BY <2>1
<1>6. dominated_grades(f)[p] = CASE Cardinality(Lost(f, p)) = 0 -> "A"
                                 [] Cardinality(Lost(f, p)) >= WORST_GROUP_MIN_DOMINATORS -> "C"
                                 [] OTHER -> "B"
  BY GradeOf
<1> QED
  BY <1>4, <1>5, <1>6
(***************************************************************************)
(* The rules on what a study measures                                      *)
(***************************************************************************)
LEMMA ConditionType ==
    ASSUME NEW f, NEW S, S \in SUBSET Int, IsCondition(f, S), NEW q \in Patterns
    PROVE  /\ \E n \in Nat \ {0} : /\ n >= 2 /\ Len(f[q]) = n
                                  /\ f[q] \in [1..n -> S] /\ f[q] \in Sample(n)
           /\ IsSample(f[q])
<1> DEFINE n == Len(f[q])
<1>1. f[q] \in Seq(S) /\ n >= 2
  BY DEF IsCondition
<1>2. n \in Nat \ {0} /\ f[q] \in [1..n -> S]
  BY <1>1
<1> HIDE DEF n
<1>3. f[q] \in Sample(n)
  BY <1>2 DEF Sample
<1> QED
  BY <1>1, <1>2, <1>3 DEF n, IsSample

LEMMA TailType ==
    ASSUME NEW n \in Nat, n >= 2
    PROVE  \E k \in 1..n : \A x \in Sample(n) :
              /\ tail(x) \in Sample(k)
              /\ tail(x) = [i \in 1..k |-> OrderStatistic(x, n - k + i)]
<1> DEFINE t == (n + 9) \div 10
           k == IF t >= 2 THEN t ELSE 2
<1>1. t \in Int /\ t <= n
  OBVIOUS
<1>2. Max({2, t}) = k
  <2> HIDE DEF t
  <2>1. k \in {2, t} /\ \A y \in {2, t} : k >= y
    BY <1>1
  <2>2. \A z \in {2, t} : (\A y \in {2, t} : z >= y) => z = k
    BY <1>1
  <2> HIDE DEF k
  <2> QED
    BY <2>1, <2>2 DEF Max
<1>3. k \in 1..n
  <2> HIDE DEF t
  <2> QED
    BY <1>1
<1> HIDE DEF k
<1>4. ASSUME NEW x \in Sample(n)
      PROVE  /\ tail(x) = [i \in 1..k |-> OrderStatistic(x, n - k + i)]
             /\ tail(x) \in Sample(k)
  <2>1. Len(x) = n
    BY DEF Sample
  <2>2. tail(x) = [i \in 1..k |-> OrderStatistic(x, n - k + i)]
    BY <1>2, <2>1 DEF tail
  <2>3. \A i \in 1..k : OrderStatistic(x, n - k + i) \in Int
    <3>1. \A i \in 1..k : n - k + i \in 1..n
      BY <1>3
    <3>2. \A j \in 1..n : OrderStatistic(x, j) \in Int
      BY Kth
    <3> QED
      BY <3>1, <3>2
  <2> QED
    BY <2>2, <2>3 DEF Sample
<1> QED
  BY <1>3, <1>4

LEMMA WorldStays == Spec => [](world \in Worlds)
<1>1. Init => world \in Worlds
  BY DEF Init
<1>2. world \in Worlds /\ [Next]_vars => (world \in Worlds)'
  BY DEF Next, vars, Start, Obtain, Grade, Publish, Raise, Die
<1> QED
  BY <1>1, <1>2, PTL DEF Spec

\* No pattern name is favoured: the pairs are compared once, in the order of
\* the names, and grades follow the samples all the same (make_table4.py
\* _dominated_grades), for any samples and any p-value function.
THEOREM NamesDoNotMatter == Spec => []GradesIgnoreNames
<1>1. world \in Worlds => GradesIgnoreNames
  <2> SUFFICES ASSUME world \in Worlds, NEW c \in Configs, NEW pl \in Platforms,
                      NEW sc \in Scenarios, NEW p \in 1..6, NEW q \in Patterns
               PROVE  LET f       == Measured[world][c].latency[pl][sc]
                          swap(r) == IF r = p THEN p + 1 ELSE IF r = p + 1 THEN p ELSE r
                          before  == dominated_grades(f)
                          after   == dominated_grades([r \in Patterns |-> f[swap(r)]])
                      IN  after[swap(q)] = before[q]
    BY DEF GradesIgnoreNames
  <2> DEFINE f == Measured[world][c].latency[pl][sc]
  <2>1. IsCondition(f, Nat \ {0})
    BY MeasuredAssumption DEF IsResults
  <2>2. \A r \in Patterns : IsSample(f[r])
    <3>1. Nat \ {0} \in SUBSET Int
      OBVIOUS
    <3> HIDE DEF f
    <3> QED
      BY <2>1, <3>1, ConditionType
  <2> HIDE DEF f
  <2>3. \A r \in Patterns :
          Swap(p)[r] = IF r = p THEN p + 1 ELSE IF r = p + 1 THEN p ELSE r
    BY DEF Swap, Patterns
  <2>4. Renamed(p, f) =
          [r \in Patterns |-> f[IF r = p THEN p + 1 ELSE IF r = p + 1 THEN p ELSE r]]
    BY <2>3 DEF Renamed
  <2>5. dominated_grades(Renamed(p, f))[Swap(p)[q]] = dominated_grades(f)[q]
    BY <2>2, GradesSwapped
  <2> QED
    BY <2>3, <2>4, <2>5 DEF f
<1> QED
  BY <1>1, WorldStays, PTL
\* A pattern that no other one beats in any ordered value is in the best group,
\* in the tables of latency tails, costs and failures (make_table4.py), whatever
\* the correction makes of the other comparisons.
THEOREM BestGradedBest == Spec => []BestIsTop
<1> DEFINE best(f) == {p \in Patterns : \A q \in Patterns : AtLeastAsGood(f[p], f[q])}
<1>1. ASSUME NEW f, \A q \in Patterns : IsSample(f[q])
      PROVE  \A p \in best(f) : dominated_grades(f)[p] = "A"
  BY <1>1, BestUnbeaten
<1>2. Nat \ {0} \in SUBSET Int /\ {0, 1} \in SUBSET Int
  OBVIOUS
<1>3. ASSUME NEW f, NEW S, S \in SUBSET Int, IsCondition(f, S)
      PROVE  \A p \in best(f) : dominated_grades(f)[p] = "A"
  <2>1. \A q \in Patterns : IsSample(f[q])
    BY <1>3, ConditionType
  <2> QED
    BY <1>1, <2>1
<1>4. ASSUME NEW f, NEW S, S \in SUBSET Int, IsCondition(f, S)
      PROVE  LET g == [q \in Patterns |-> tail(f[q])]
             IN  \A p \in best(g) : dominated_grades(g)[p] = "A"
  <2> DEFINE g == [q \in Patterns |-> tail(f[q])]
  <2>1. ASSUME NEW q \in Patterns PROVE IsSample(g[q])
    <3>1. PICK n \in Nat \ {0} : n >= 2 /\ f[q] \in Sample(n)
      BY <1>4, ConditionType
    <3>2. PICK k \in 1..n : tail(f[q]) \in Sample(k)
      BY <3>1, TailType
    <3>3. k \in Nat \ {0} /\ g[q] \in Sample(k)
      BY <3>1, <3>2
    <3> QED
      BY <3>3 DEF IsSample
  <2> HIDE DEF best, g
  <2>2. \A p \in best(g) : dominated_grades(g)[p] = "A"
    BY <1>1, <2>1
  <2> QED
    BY <2>2 DEF g
<1> HIDE DEF best
<1>5. world \in Worlds => BestIsTop
  <2> SUFFICES ASSUME world \in Worlds, NEW c \in Configs, NEW pl \in Platforms,
                      NEW sc \in Scenarios
               PROVE  LET r    == Measured[world][c]
                          rows == table4_rows(r, pl, sc)
                      IN  /\ \A p \in best([q \in Patterns |-> tail(r.latency[pl][sc][q])]) :
                                 rows[p].latency = "A"
                          /\ \A p \in best(r.cost[pl][sc]) : rows[p].cost = "A"
                          /\ \A p \in best(r.failed[pl]) : rows[p].reliability = "A"
    BY DEF BestIsTop, best
  <2> DEFINE r    == Measured[world][c]
             rows == table4_rows(r, pl, sc)
             l    == r.latency[pl][sc]
             g    == [q \in Patterns |-> tail(l[q])]
  <2>1. /\ IsCondition(l, Nat \ {0}) /\ IsCondition(r.cost[pl][sc], Nat \ {0})
        /\ IsCondition(r.failed[pl], {0, 1})
    BY MeasuredAssumption DEF IsResults
  <2>2. \A p \in Patterns : /\ rows[p].latency = dominated_grades(g)[p]
                            /\ rows[p].cost = dominated_grades(r.cost[pl][sc])[p]
                            /\ rows[p].reliability = dominated_grades(r.failed[pl])[p]
    BY DEF table4_rows
  <2>3. \A f : best(f) \in SUBSET Patterns
    BY DEF best
  <2> HIDE DEF l, r, rows
  <2>4. /\ \A p \in best(g) : dominated_grades(g)[p] = "A"
        /\ \A p \in best(r.cost[pl][sc]) : dominated_grades(r.cost[pl][sc])[p] = "A"
        /\ \A p \in best(r.failed[pl]) : dominated_grades(r.failed[pl])[p] = "A"
    BY <1>2, <1>3, <1>4, <2>1
  <2> HIDE DEF g
  <2>5. /\ \A p \in best(g) : rows[p].latency = "A"
        /\ \A p \in best(r.cost[pl][sc]) : rows[p].cost = "A"
        /\ \A p \in best(r.failed[pl]) : rows[p].reliability = "A"
    BY <2>2, <2>3, <2>4
  <2> QED
    BY <2>5 DEF g, l, r, rows
<1> QED
  BY <1>5, WorldStays, PTL
(***************************************************************************)
(* A sample doubled                                                        *)
(***************************************************************************)
Twice(x) == [i \in DOMAIN x |-> 2 * x[i]]

LEMMA TwiceType ==
    ASSUME NEW n \in Nat, NEW x \in Sample(n)
    PROVE  Twice(x) \in Sample(n) /\ \A i \in 1..n : Twice(x)[i] = 2 * x[i]
BY DEF Twice, Sample

LEMMA OrderTwice ==
    ASSUME NEW n \in Nat, NEW x \in Sample(n), NEW k \in 1..n
    PROVE  OrderStatistic(Twice(x), k) = 2 * OrderStatistic(x, k)
<1> DEFINE v == OrderStatistic(x, k)
           y == Twice(x)
<1>1. y \in Sample(n) /\ \A i \in 1..n : x[i] \in Int /\ y[i] = 2 * x[i]
  BY TwiceType DEF Sample
<1>2. v \in Int /\ IsKth(x, k, v)
  BY Kth
<1> HIDE DEF v, y
<1>3. /\ {i \in 1..n : y[i] < 2 * v} = {i \in 1..n : x[i] < v}
      /\ {i \in 1..n : y[i] <= 2 * v} = {i \in 1..n : x[i] <= v}
  BY <1>1, <1>2
<1>4. Below(y, 2 * v) = Below(x, v) /\ AtMost(y, 2 * v) = AtMost(x, v)
  BY <1>1, <1>3 DEF Below, AtMost, Sample
<1>5. 2 * v \in Int /\ IsKth(y, k, 2 * v)
  BY <1>2, <1>4 DEF IsKth
<1>6. 2 * v = OrderStatistic(y, k)
  BY <1>1, <1>5, Kth
<1> QED
  BY <1>6 DEF v, y

\* A sample of positive numbers.
Positive(n) == [1..n -> Nat \ {0}]

LEMMA OrderPositive ==
    ASSUME NEW n \in Nat, NEW x \in Positive(n), NEW k \in 1..n
    PROVE  x \in Sample(n) /\ OrderStatistic(x, k) \in Nat \ {0}
<1>1. x \in Sample(n)
  BY DEF Positive, Sample
<1>2. PICK i \in 1..n : OrderStatistic(x, k) = x[i]
  BY <1>1, Kth
<1> QED
  BY <1>1, <1>2 DEF Positive

LEMMA MedianTwice ==
    ASSUME NEW n \in Nat \ {0}, NEW x \in Positive(n)
    PROVE  TwiceMedian(Twice(x)) = 2 * TwiceMedian(x) /\ TwiceMedian(x) \in Nat \ {0}
<1> DEFINE a == (n + 1) \div 2
           b == (n + 2) \div 2
<1>1. x \in Sample(n) /\ Twice(x) \in Sample(n)
  BY TwiceType DEF Positive, Sample
<1>2. Len(x) = n /\ Len(Twice(x)) = n
  BY <1>1 DEF Sample
<1>3. a \in 1..n /\ b \in 1..n
  BY MiddlePlaces
<1>4. /\ TwiceMedian(x) = OrderStatistic(x, a) + OrderStatistic(x, b)
      /\ TwiceMedian(Twice(x)) = OrderStatistic(Twice(x), a) + OrderStatistic(Twice(x), b)
  BY <1>2 DEF TwiceMedian
<1> HIDE DEF a, b
<1>5. /\ OrderStatistic(x, a) \in Nat \ {0} /\ OrderStatistic(x, b) \in Nat \ {0}
      /\ OrderStatistic(Twice(x), a) = 2 * OrderStatistic(x, a)
      /\ OrderStatistic(Twice(x), b) = 2 * OrderStatistic(x, b)
  BY <1>1, <1>3, OrderTwice, OrderPositive
<1> QED
  BY <1>4, <1>5

LEMMA P99Twice ==
    ASSUME NEW n \in Nat \ {0}, NEW x \in Positive(n)
    PROVE  HundredfoldP99(Twice(x)) = 2 * HundredfoldP99(x) /\ HundredfoldP99(x) \in Nat \ {0}
<1> DEFINE pos  == 99 * (n - 1)
           low  == (pos \div 100) + 1
           part == pos % 100
           P99(a, b) == a * (100 - part) + (IF part = 0 THEN 0 ELSE b * part)
<1>1. x \in Sample(n) /\ Twice(x) \in Sample(n)
  BY TwiceType DEF Positive, Sample
<1>2. Len(x) = n /\ Len(Twice(x)) = n
  BY <1>1 DEF Sample
<1>3. /\ part \in 0..99 /\ low \in 1..n /\ (part # 0 => low + 1 \in 1..n)
  OBVIOUS
<1>4. /\ HundredfoldP99(x) = P99(OrderStatistic(x, low), OrderStatistic(x, low + 1))
      /\ HundredfoldP99(Twice(x)) = P99(OrderStatistic(Twice(x), low),
                                        OrderStatistic(Twice(x), low + 1))
  BY <1>2 DEF HundredfoldP99
<1> HIDE DEF low, part
<1>5. /\ OrderStatistic(x, low) \in Nat \ {0}
      /\ OrderStatistic(Twice(x), low) = 2 * OrderStatistic(x, low)
  BY <1>1, <1>3, OrderTwice, OrderPositive
<1>6. part # 0 => /\ OrderStatistic(x, low + 1) \in Nat \ {0}
                  /\ OrderStatistic(Twice(x), low + 1) = 2 * OrderStatistic(x, low + 1)
  BY <1>1, <1>3, OrderTwice, OrderPositive
<1>7. ASSUME NEW a \in Nat \ {0}, NEW b \in Nat \ {0}, part # 0
      PROVE  P99(2 * a, 2 * b) = 2 * P99(a, b) /\ P99(a, b) \in Nat \ {0}
  <2> DEFINE r == 100 - part
  <2>1. part \in Nat /\ r \in Nat \ {0}
    BY <1>3
  <2> HIDE DEF r
  <2>2. (2 * a) * r + (2 * b) * part = 2 * (a * r + b * part)
    BY <2>1
  <2>3. a * r \in Nat \ {0} /\ b * part \in Nat
    BY <2>1
  <2> QED
    BY <1>7, <2>2, <2>3 DEF r
<1>8. ASSUME NEW a \in Nat \ {0}, NEW b, NEW c, part = 0
      PROVE  P99(2 * a, b) = 2 * P99(a, c) /\ P99(a, c) \in Nat \ {0}
  BY <1>8
<1> HIDE DEF P99
<1> QED
  BY <1>4, <1>5, <1>6, <1>7, <1>8
(***************************************************************************)
(* The recursive sum: that it exists, and what it is for a doubled sample, *)
(* is shown through the least number of terms for which it would be        *)
(* otherwise.                                                              *)
(***************************************************************************)
LEMMA FirstNumber ==
    ASSUME NEW S \in SUBSET Nat, S # {}
    PROVE  \E x \in S : \A y \in S : x <= y
<1> DEFINE R == OpToRel(<, Nat)
<1>1. IsWellFoundedOn(R, Nat)
  BY NatLessThanWellFounded
<1>2. \A x, y \in Nat : <<y, x>> \in R <=> y < x
  BY DEF OpToRel
<1> HIDE DEF R
<1>3. PICK x \in S : \A y \in S : ~(<<y, x>> \in R)
  BY <1>1, WFMin
<1>4. \A y \in S : x \in Nat /\ y \in Nat /\ ~(y < x)
  BY <1>2, <1>3
<1> QED
  BY <1>4

\* s is the list of partial sums of x, up to n terms.
Sums(x, n, s) == s = [i \in 0..n |-> IF i = 0 THEN 0 ELSE s[i - 1] + x[i]]

LEMMA SumsExist == ASSUME NEW x PROVE \A n \in Nat : \E s : Sums(x, n, s)
<1> DEFINE Bad == {n \in Nat : ~\E s : Sums(x, n, s)}
<1> SUFFICES ASSUME Bad # {} PROVE FALSE
  OBVIOUS
<1>1. PICK n \in Bad : \A m \in Bad : n <= m
  BY FirstNumber
<1>2. n \in Nat /\ ~\E s : Sums(x, n, s)
  OBVIOUS
<1>3. CASE n = 0
  <2> DEFINE s == [i \in 0..0 |-> 0]
  <2>1. s = [i \in 0..0 |-> IF i = 0 THEN 0 ELSE s[i - 1] + x[i]]
    OBVIOUS
  <2> HIDE DEF s
  <2> QED
    BY <1>2, <1>3, <2>1 DEF Sums
<1>4. CASE n # 0
  <2>1. n - 1 \in Nat /\ n - 1 \notin Bad
    BY <1>1, <1>2, <1>4
  <2>2. PICK s : Sums(x, n - 1, s)
    BY <2>1
  <2> DEFINE V(f, i) == IF i = 0 THEN 0 ELSE f[i - 1] + x[i]
             h == [i \in 0..n |-> V(s, i)]
  <2>3. \A i \in 0..(n - 1) : h[i] = s[i]
    <3>1. \A i \in 0..(n - 1) : s[i] = V(s, i)
      BY <2>2 DEF Sums
    <3> HIDE DEF V
    <3>2. 0..(n - 1) \subseteq 0..n
      BY <2>1
    <3> QED
      BY <3>1, <3>2
  <2>4. ASSUME NEW i \in 0..n PROVE V(s, i) = V(h, i)
    <3>1. i # 0 => i - 1 \in 0..(n - 1)
      BY <1>2
    <3>2. i # 0 => h[i - 1] = s[i - 1]
      BY <2>3, <3>1
    <3> QED
      <4> HIDE DEF h
      <4> QED
        BY <3>2 DEF V
  <2>5. h = [i \in 0..n |-> V(h, i)]
    <3> HIDE DEF V
    <3> QED
      BY <2>4
  <2> HIDE DEF h
  <2> QED
    BY <1>2, <2>5 DEF Sums
<1> QED
  BY <1>3, <1>4

LEMMA TotalTwice ==
    ASSUME NEW n \in Nat \ {0}, NEW x \in Positive(n)
    PROVE  Total(Twice(x)) = 2 * Total(x) /\ Total(x) \in Nat \ {0}
<1> DEFINE y == Twice(x)
           s == CHOOSE f : Sums(x, n, f)
           t == CHOOSE f : Sums(y, n, f)
<1>1. /\ \A i \in 1..n : x[i] \in Nat \ {0} /\ y[i] = 2 * x[i]
      /\ Len(x) = n /\ Len(y) = n
  BY DEF Positive, Twice
<1> HIDE DEF y
<1>2. Total(x) = s[n] /\ Total(y) = t[n]
  BY <1>1 DEF Total, Sums
<1>3. Sums(x, n, s) /\ Sums(y, n, t)
  BY SumsExist
<1> HIDE DEF s, t
<1>4. /\ s[0] = 0 /\ t[0] = 0
      /\ \A i \in 1..n : s[i] = s[i - 1] + x[i] /\ t[i] = t[i - 1] + y[i]
  BY <1>3 DEF Sums
<1> DEFINE Holds(i) == t[i] = 2 * s[i] /\ s[i] \in Nat /\ (i > 0 => s[i] > 0)
           Bad == {i \in 0..n : ~Holds(i)}
<1>5. Bad = {}
  <2> SUFFICES ASSUME Bad # {} PROVE FALSE
    OBVIOUS
  <2>1. PICK i \in Bad : \A m \in Bad : i <= m
    <3>1. Bad \in SUBSET Nat
      OBVIOUS
    <3> HIDE DEF Bad
    <3> QED
      BY <3>1, FirstNumber
  <2>2. i # 0
    BY <1>4
  <2>3. i \in 1..n /\ i - 1 \in 0..n /\ i - 1 \notin Bad
    BY <2>1, <2>2
  <2>4. t[i - 1] = 2 * s[i - 1] /\ s[i - 1] \in Nat
    BY <2>3
  <2>5. Holds(i)
    <3>1. /\ s[i] = s[i - 1] + x[i] /\ t[i] = t[i - 1] + 2 * x[i]
          /\ x[i] \in Nat /\ x[i] > 0
      <4>1. i \in 1..n
        BY <2>3
      <4> HIDE DEF Bad, Holds
      <4>2. s[i] = s[i - 1] + x[i] /\ t[i] = t[i - 1] + y[i]
        BY <1>4, <4>1
      <4>3. y[i] = 2 * x[i] /\ x[i] \in Nat \ {0}
        BY <1>1, <4>1
      <4> QED
        BY <4>2, <4>3
    <3>2. 2 * (s[i - 1] + x[i]) = 2 * s[i - 1] + 2 * x[i]
      BY <2>4, <3>1
    <3>3. t[i] = 2 * s[i]
      BY <2>4, <3>1, <3>2
    <3>4. s[i] \in Nat /\ s[i] > 0
      BY <2>4, <3>1
    <3> QED
      BY <3>3, <3>4
  <2> QED
    BY <2>5
<1>6. Holds(n)
  BY <1>5
<1> QED
  BY <1>2, <1>6 DEF y
(***************************************************************************)
(* The growth endpoints                                                    *)
(***************************************************************************)
LEMMA Halved == ASSUME NEW a \in Int, NEW b \in Nat \ {0} PROVE (2 * a) \div (2 * b) = a \div b
<1> DEFINE q == a \div b
           r == a % b
<1>1. b > 0 /\ b \in Nat
  OBVIOUS
<1>2. a = q * b + r /\ r \in 0..(b - 1) /\ q \in Int
  BY <1>1, Division
<1> HIDE DEF q, r
<1>3. 2 * r \in 0..(2 * b - 1) /\ 2 * b \in Nat /\ 2 * a \in Int
  BY <1>1, <1>2
<1>4. 2 * a = q * (2 * b) + 2 * r
  <2>1. q * (2 * b) = 2 * (q * b)
    BY <1>1, <1>2
  <2>2. q * b \in Int
    BY <1>1, <1>2
  <2> QED
    BY <1>2, <2>1, <2>2
<1>5. (2 * a) \div (2 * b) = q
  BY <1>2, <1>3, <1>4, Quotient
<1> QED
  BY <1>5 DEF q

LEMMA RatiosTwice ==
    ASSUME NEW n \in Nat, NEW x \in Sample(n), NEW times \in Int, NEW by \in Nat \ {0}
    PROVE  Ratios(Twice(x), times, 2 * by) = Ratios(x, times, by)
<1> DEFINE a(i) == (x[i] * times) * 100000
           y == Twice(x)
<1>1. DOMAIN y = DOMAIN x /\ \A i \in DOMAIN x : y[i] = 2 * x[i] /\ x[i] \in Int
  BY DEF Twice, Sample
<1> HIDE DEF y
<1>2. ASSUME NEW i \in DOMAIN x
      PROVE  (y[i] * times * 100000) \div (2 * by) = (x[i] * times * 100000) \div by
  <2>1. x[i] \in Int /\ y[i] = 2 * x[i]
    BY <1>1
  <2> DEFINE c == x[i] * times
  <2>2. c \in Int /\ y[i] * times = 2 * c
    BY <2>1
  <2> HIDE DEF c
  <2>3. c * 100000 \in Int /\ (2 * c) * 100000 = 2 * (c * 100000)
    BY <2>2
  <2>4. (2 * (c * 100000)) \div (2 * by) = (c * 100000) \div by
    BY <2>3, Halved
  <2>5. (y[i] * times * 100000) \div (2 * by) = (c * 100000) \div by
    BY <2>2, <2>3, <2>4
  <2> QED
    BY <2>5 DEF c
<1> QED
  BY <1>1, <1>2 DEF Ratios, y

LEMMA TailTwice ==
    ASSUME NEW n \in Nat, n >= 2, NEW x \in Sample(n)
    PROVE  /\ tail(Twice(x)) = Twice(tail(x))
           /\ \E k \in Nat : tail(x) \in Sample(k)
<1>1. PICK k \in 1..n : \A z \in Sample(n) :
        /\ tail(z) \in Sample(k)
        /\ tail(z) = [i \in 1..k |-> OrderStatistic(z, n - k + i)]
  BY TailType
<1>2. Twice(x) \in Sample(n)
  BY TwiceType
<1>3. tail(Twice(x)) = [i \in 1..k |-> OrderStatistic(Twice(x), n - k + i)]
  BY <1>1, <1>2
<1>4. tail(x) = [i \in 1..k |-> OrderStatistic(x, n - k + i)] /\ tail(x) \in Sample(k)
  BY <1>1
<1>5. \A i \in 1..k : OrderStatistic(Twice(x), n - k + i) = 2 * OrderStatistic(x, n - k + i)
  <2>1. \A i \in 1..k : n - k + i \in 1..n
    OBVIOUS
  <2>2. \A j \in 1..n : OrderStatistic(Twice(x), j) = 2 * OrderStatistic(x, j)
    BY OrderTwice
  <2> QED
    BY <2>1, <2>2
<1>6. Twice(tail(x)) = [i \in 1..k |-> 2 * OrderStatistic(x, n - k + i)]
  <2>1. DOMAIN tail(x) = 1..k /\ \A i \in 1..k : tail(x)[i] = OrderStatistic(x, n - k + i)
    BY <1>4
  <2>2. Twice(tail(x)) = [i \in 1..k |-> 2 * tail(x)[i]]
    BY <2>1 DEF Twice
  <2> QED
    BY <2>1, <2>2
<1>7. [i \in 1..k |-> OrderStatistic(Twice(x), n - k + i)]
        = [i \in 1..k |-> 2 * OrderStatistic(x, n - k + i)]
  BY <1>5
<1>8. k \in Nat /\ tail(x) \in Sample(k)
  BY <1>4
<1> QED
  BY <1>3, <1>6, <1>7, <1>8, Zenon

LEMMA ConditionSamples ==
    ASSUME NEW f, IsCondition(f, Nat \ {0}), NEW q \in Patterns
    PROVE  /\ \E n \in Nat \ {0} : n >= 2 /\ f[q] \in Positive(n) /\ f[q] \in Sample(n)
                                   /\ Len(f[q]) = n
           /\ DOMAIN f = Patterns
<1>1. Nat \ {0} \in SUBSET Int
  OBVIOUS
<1>2. PICK n \in Nat \ {0} : /\ n >= 2 /\ Len(f[q]) = n
                            /\ f[q] \in [1..n -> Nat \ {0}] /\ f[q] \in Sample(n)
  BY <1>1, ConditionType
<1> QED
  BY <1>2 DEF Positive, IsCondition

LEMMA DoubledSamples ==
    ASSUME NEW r, IsResults(r), NEW p \in Patterns, NEW pl \in Platforms, NEW sc \in Scenarios,
           NEW q \in Patterns
    PROVE  /\ Doubled(r, p).latency[pl][sc][q] =
                 IF q = p THEN Twice(r.latency[pl][sc][q]) ELSE r.latency[pl][sc][q]
           /\ Doubled(r, p).cost[pl][sc][q] =
                 IF q = p THEN Twice(r.cost[pl][sc][q]) ELSE r.cost[pl][sc][q]
<1> DEFINE twice(f) == [a \in Platforms |-> [b \in Scenarios |->
                          [f[a][b] EXCEPT ![p] = [i \in DOMAIN @ |-> 2 * @[i]]]]]
<1>1. Doubled(r, p).latency = twice(r.latency) /\ Doubled(r, p).cost = twice(r.cost)
  BY DEF Doubled, IsResults
<1>2. DOMAIN r.latency[pl][sc] = Patterns /\ DOMAIN r.cost[pl][sc] = Patterns
  BY DEF IsResults, IsCondition
<1>3. ASSUME NEW f, DOMAIN f[pl][sc] = Patterns
      PROVE  twice(f)[pl][sc][q] = IF q = p THEN Twice(f[pl][sc][q]) ELSE f[pl][sc][q]
  <2> DEFINE g == f[pl][sc]
             h == [g EXCEPT ![p] = [i \in DOMAIN @ |-> 2 * @[i]]]
  <2>1. twice(f)[pl][sc] = h
    OBVIOUS
  <2>2. h[q] = IF q = p THEN [i \in DOMAIN g[p] |-> 2 * g[p][i]] ELSE g[q]
    BY <1>3
  <2> QED
    BY <2>1, <2>2 DEF Twice
<1> HIDE DEF twice
<1> QED
  BY <1>1, <1>2, <1>3
LEMMA GrowthKept ==
    ASSUME NEW r, IsResults(r), NEW p \in Patterns, NEW pl \in Platforms
    PROVE  /\ latency_growth(Doubled(r, p), pl) = latency_growth(r, pl)
           /\ cost_growth(Doubled(r, p), pl) = cost_growth(r, pl)
           /\ tail_inflation(Doubled(r, p), pl) = tail_inflation(r, pl)
<1> DEFINE d == Doubled(r, p)
<1>1. "S1" \in Scenarios /\ "S2" \in Scenarios /\ "S3" \in Scenarios
  BY DEF Scenarios
<1>2. ASSUME NEW q \in Patterns, NEW sc \in Scenarios
      PROVE  /\ d.latency[pl][sc][q] =
                   IF q = p THEN Twice(r.latency[pl][sc][q]) ELSE r.latency[pl][sc][q]
             /\ d.cost[pl][sc][q] =
                   IF q = p THEN Twice(r.cost[pl][sc][q]) ELSE r.cost[pl][sc][q]
  BY DoubledSamples
<1>3. ASSUME NEW q \in Patterns, NEW sc \in Scenarios
      PROVE  /\ \E n \in Nat \ {0} : /\ n >= 2 /\ r.latency[pl][sc][q] \in Positive(n)
                                     /\ r.latency[pl][sc][q] \in Sample(n)
             /\ \E n \in Nat \ {0} : /\ r.cost[pl][sc][q] \in Positive(n)
                                     /\ r.cost[pl][sc][q] \in Sample(n)
                                     /\ Len(r.cost[pl][sc][q]) = n
  <2>1. IsCondition(r.latency[pl][sc], Nat \ {0}) /\ IsCondition(r.cost[pl][sc], Nat \ {0})
    BY DEF IsResults
  <2> QED
    BY <2>1, ConditionSamples
<1> HIDE DEF d
<1>4. ASSUME NEW q \in Patterns
      PROVE  Ratios(d.latency[pl]["S2"][q], 2, TwiceMedian(d.latency[pl]["S1"][q]))
               = Ratios(r.latency[pl]["S2"][q], 2, TwiceMedian(r.latency[pl]["S1"][q]))
  <2> DEFINE x == r.latency[pl]["S2"][q]
             y == r.latency[pl]["S1"][q]
  <2>1. PICK n \in Nat \ {0} : x \in Sample(n)
    BY <1>1, <1>3
  <2>2. PICK m \in Nat \ {0} : y \in Positive(m)
    BY <1>1, <1>3
  <2> HIDE DEF x, y
  <2>3. TwiceMedian(Twice(y)) = 2 * TwiceMedian(y) /\ TwiceMedian(y) \in Nat \ {0}
    BY <2>2, MedianTwice
  <2>4. Ratios(Twice(x), 2, 2 * TwiceMedian(y)) = Ratios(x, 2, TwiceMedian(y))
    BY <2>1, <2>3, RatiosTwice
  <2> QED
    BY <1>1, <1>2, <2>3, <2>4 DEF x, y
<1>5. ASSUME NEW q \in Patterns
      PROVE  Ratios(d.cost[pl]["S2"][q], Len(d.cost[pl]["S1"][q]), Total(d.cost[pl]["S1"][q]))
               = Ratios(r.cost[pl]["S2"][q], Len(r.cost[pl]["S1"][q]),
                        Total(r.cost[pl]["S1"][q]))
  <2> DEFINE x == r.cost[pl]["S2"][q]
             y == r.cost[pl]["S1"][q]
  <2>1. PICK n \in Nat \ {0} : x \in Sample(n)
    BY <1>1, <1>3
  <2>2. PICK m \in Nat \ {0} : y \in Positive(m) /\ y \in Sample(m) /\ Len(y) = m
    BY <1>1, <1>3
  <2> HIDE DEF x, y
  <2>3. Total(Twice(y)) = 2 * Total(y) /\ Total(y) \in Nat \ {0}
    BY <2>2, TotalTwice
  <2>4. Len(Twice(y)) = m
    <3>1. Twice(y) \in Sample(m)
      BY <2>2, TwiceType
    <3> QED
      BY <3>1 DEF Sample
  <2>5. Ratios(Twice(x), m, 2 * Total(y)) = Ratios(x, m, Total(y))
    <3>1. m \in Int
      OBVIOUS
    <3> QED
      BY <2>1, <2>3, <3>1, RatiosTwice
  <2> QED
    BY <1>1, <1>2, <2>2, <2>3, <2>4, <2>5 DEF x, y
<1>6. ASSUME NEW q \in Patterns
      PROVE  Ratios(tail(d.latency[pl]["S3"][q]), 100, HundredfoldP99(d.latency[pl]["S1"][q]))
               = Ratios(tail(r.latency[pl]["S3"][q]), 100,
                        HundredfoldP99(r.latency[pl]["S1"][q]))
  <2> DEFINE x == r.latency[pl]["S3"][q]
             y == r.latency[pl]["S1"][q]
  <2>1. PICK n \in Nat \ {0} : n >= 2 /\ x \in Sample(n)
    BY <1>1, <1>3
  <2>2. PICK m \in Nat \ {0} : y \in Positive(m)
    BY <1>1, <1>3
  <2> HIDE DEF x, y
  <2>3. HundredfoldP99(Twice(y)) = 2 * HundredfoldP99(y) /\ HundredfoldP99(y) \in Nat \ {0}
    BY <2>2, P99Twice
  <2>4. tail(Twice(x)) = Twice(tail(x)) /\ \E k \in Nat : tail(x) \in Sample(k)
    BY <2>1, TailTwice
  <2>5. Ratios(Twice(tail(x)), 100, 2 * HundredfoldP99(y))
          = Ratios(tail(x), 100, HundredfoldP99(y))
    BY <2>3, <2>4, RatiosTwice
  <2> QED
    BY <1>1, <1>2, <2>3, <2>4, <2>5 DEF x, y
<1>7. /\ latency_growth(d, pl) = latency_growth(r, pl)
      /\ cost_growth(d, pl) = cost_growth(r, pl)
      /\ tail_inflation(d, pl) = tail_inflation(r, pl)
  BY <1>4, <1>5, <1>6 DEF latency_growth, cost_growth, tail_inflation
<1> QED
  BY <1>7 DEF d

\* A pattern's own speed and cost do not show in the columns of growth: twice
\* as slow and twice as expensive throughout, it has the same S2 and S3 grades
\* (make_fit_matrix.py; docs/FIT_RULE.md), for any positive measurements.
THEOREM LevelDoesNotMatter == Spec => []GrowthIgnoresLevel
<1>1. world \in Worlds => GrowthIgnoresLevel
  <2> SUFFICES ASSUME world \in Worlds, NEW c \in Configs, NEW p \in Patterns,
                      NEW sc \in {"S2", "S3"}
               PROVE  LET r == Measured[world][c]
                      IN  scenario_fit(Doubled(r, p), sc) = scenario_fit(r, sc)
    BY DEF GrowthIgnoresLevel
  <2> DEFINE r == Measured[world][c]
  <2>1. IsResults(r)
    BY MeasuredAssumption
  <2> HIDE DEF r
  <2>2. ASSUME NEW pl \in Platforms
        PROVE  platform_standing(Doubled(r, p), pl, sc) = platform_standing(r, pl, sc)
    <3>1. /\ latency_growth(Doubled(r, p), pl) = latency_growth(r, pl)
          /\ cost_growth(Doubled(r, p), pl) = cost_growth(r, pl)
          /\ tail_inflation(Doubled(r, p), pl) = tail_inflation(r, pl)
      BY <2>1, GrowthKept
    <3>2. sc = "S2" \/ sc = "S3"
      OBVIOUS
    <3> QED
      BY <3>1, <3>2 DEF platform_standing
  <2>3. "agentforce" \in Platforms /\ "bedrock" \in Platforms
    BY DEF Platforms
  <2> QED
    BY <2>2, <2>3 DEF scenario_fit, r
<1> QED
  BY <1>1, WorldStays, PTL
=============================================================================
