------------------------------ MODULE LiveRun ------------------------------
(***************************************************************************)
(* The seven-pattern live run over provisioned runtimes: the deployed      *)
(* agent (anchor/agentcore/agent_released/agent_app.py over                *)
(* live_clients.py and live_backends.py), the driver that asks it n times  *)
(* per pattern and keeps the answers as committed records (run_all7.py),   *)
(* and the analysis that prints the published table or refuses             *)
(* (analyze_all7.py).                                                      *)
(***************************************************************************)
EXTENDS Provisioning, TLC, Functions

CONSTANTS
    Prefixes,   \* record file prefixes
    Counts,     \* values of --n
    Declared    \* patterns whose stub known_bounds.json declares

ASSUME LiveRunAssumption == Counts \subseteq Nat

VARIABLES
    results,    \* per prefix and pattern: the record file
    summaries,  \* per prefix: the summary file
    partial,    \* the summary under construction
    taken,      \* the answers of the pattern at hand
    current,    \* that pattern
    table       \* the last table printed, and what it was printed from

liveLocal == <<partial, taken, current>>
liveVars  == <<results, summaries, liveLocal, table>>
vars      == <<provVars, liveVars>>

NoFile    == [exists |-> FALSE, recs |-> <<>>]
NoSummary == [exists |-> FALSE, patterns |-> <<>>]
NoTable   == [prefix |-> "", patterns |-> <<>>]

Init ==
    /\ ProvInit
    /\ results = [x \in Prefixes |-> [p \in Patterns |-> NoFile]]
    /\ summaries = [x \in Prefixes |-> NoSummary]
    /\ partial = <<>> /\ taken = <<>> /\ current = "" /\ table = NoTable

(***************************************************************************)
(* The deployed agent                                                      *)
(***************************************************************************)
\* The seam a pattern must not answer from its in-memory stub.
needs == [P1 |-> {}, P2 |-> {}, P3 |-> {}, P7 |-> {},
          P4 |-> {"memory"}, P5 |-> {"gateway"}, P6 |-> {"guardrail"}]

\* A configured gateway answers through its target; there is no substitution.
Reachable(p, seams) ==
    p = "P5" /\ "gateway" \in seams => targets # {} /\ permission

\* An answer: the image that computed it, the module and the calls it names
\* (by what the image was built from), and the configured services that took part.
Answer == [ok : BOOLEAN, image : 0..MaxImages, source : Sources \cup {"none"},
           live : SUBSET Kinds]
Failed == [ok |-> FALSE, image |-> 0, source |-> "none", live |-> {}]

\* Every failure of a backend fails the request.
handler(p) ==
    {Failed} \cup
        {[ok |-> TRUE, image |-> rt.image, source |-> images[rt.image], live |-> rt.seams] :
            rt \in {rt \in {runtimes[p]} : Reachable(p, rt.seams)}}

(***************************************************************************)
(* run_all7                                                                *)
(***************************************************************************)
Run(want, prefix, n) ==
    /\ want # {} /\ want \subseteq released
    /\ Begins("invoke")
    /\ args' = [NoArgs EXCEPT !.prefix = prefix, !.n = n]
    /\ todo' = want /\ partial' = <<>>
    /\ UNCHANGED <<inventory, inv, results, summaries, taken, current, table>>

\* All requests of one pattern, one after the other.
Invoke(p) ==
    /\ at = "invoke" /\ at' = "write" /\ p \in todo
    /\ current' = p
    /\ taken' \in [1..args.n -> handler(p)]
    /\ UNCHANGED <<account, inventory, released, local, bounds, results, summaries,
                   partial, table>>

Good(recs)  == {i \in DOMAIN recs : recs[i].ok}
First(recs) == IF Good(recs) = {} THEN Failed ELSE recs[Min(Good(recs))]

\* The different calls counted: whether they are the fixture's.
observed(recs) == {recs[i].source # "changed" : i \in Good(recs)}

\* P6 varies with the item and is not compared.
matches(p, recs) == p = "P6" \/ observed(recs) = {TRUE}

\* What the summary says of a pattern.
Entry(p, recs) ==
    [n_ok    |-> Cardinality(Good(recs)),
     n_total |-> Len(recs),
     signature_matches |-> matches(p, recs),
     released_module   |-> Good(recs) # {} /\ First(recs).source # "foreign",
     backends_live     |-> First(recs).live]

\* Mutant: committed records are not looked at.
neverCommitted(file) == FALSE
Committed(file) == file.exists

\* The records are new, or the run is refused.
WriteRecords ==
    /\ at = "write"
    /\ ~Committed(results[args.prefix][current])
    /\ results' = [results EXCEPT ![args.prefix][current] =
                    [exists |-> TRUE, recs |-> taken]]
    /\ partial' = [p \in DOMAIN partial \cup {current} |->
                    IF p = current THEN Entry(p, taken) ELSE partial[p]]
    /\ todo' = todo \ {current} /\ at' = "invoke"
    /\ taken' = <<>> /\ current' = ""
    /\ UNCHANGED <<account, inventory, released, args, inv, bounds, summaries, table>>

Refuse ==
    /\ at = "write" /\ Committed(results[args.prefix][current])
    /\ Ends /\ partial' = <<>> /\ taken' = <<>> /\ current' = ""
    /\ UNCHANGED <<account, inventory, released, bounds, results, summaries, table>>

\* The script dies while it writes the records: some of them are there.
CutShort ==
    /\ at = "write" /\ ~Committed(results[args.prefix][current])
    /\ deaths < MaxDeaths /\ deaths' = deaths + 1
    /\ \E k \in 0..(Len(taken) - 1) :
        results' = [results EXCEPT ![args.prefix][current] =
                        [exists |-> TRUE, recs |-> SubSeq(taken, 1, k)]]
    /\ Ends /\ partial' = <<>> /\ taken' = <<>> /\ current' = ""
    /\ UNCHANGED <<account, inventory, released, commands, summaries, table>>

\* The summary of this run replaces the one of an earlier run.
WriteSummary ==
    /\ at = "invoke" /\ todo = {} /\ Ends
    /\ summaries' = [summaries EXCEPT ![args.prefix] = [exists |-> TRUE, patterns |-> partial]]
    /\ partial' = <<>>
    /\ UNCHANGED <<account, inventory, released, bounds, results, taken, current, table>>

(***************************************************************************)
(* analyze_all7                                                            *)
(***************************************************************************)
\* Mutant: a partial run is reported.
partialAccepted(entry) == entry.signature_matches /\ entry.released_module
Complete(entry) ==
    /\ entry.n_ok = entry.n_total
    /\ entry.signature_matches
    /\ entry.released_module

LiveOrDeclared(p, entry) == needs[p] \subseteq entry.backends_live \/ p \in Declared

analyse(patterns) ==
    /\ patterns # <<>>
    /\ \A p \in DOMAIN patterns : Complete(patterns[p]) /\ LiveOrDeclared(p, patterns[p])

\* A refused analysis prints no table and changes nothing.
Analyze(prefix) ==
    /\ summaries[prefix].exists
    /\ analyse(summaries[prefix].patterns)
    /\ Begins("idle")
    /\ table' = [prefix |-> prefix, patterns |-> summaries[prefix].patterns]
    /\ UNCHANGED <<inventory, local, results, summaries, liveLocal>>

Next ==
    \/ ProvNext /\ UNCHANGED liveVars
    \/ Stops /\ partial' = <<>> /\ taken' = <<>> /\ current' = ""
         /\ UNCHANGED <<results, summaries, table>>
    \/ \E want \in SUBSET Patterns, prefix \in Prefixes, n \in Counts : Run(want, prefix, n)
    \/ \E p \in Patterns : Invoke(p)
    \/ WriteRecords \/ Refuse \/ CutShort \/ WriteSummary
    \/ \E prefix \in Prefixes : Analyze(prefix)

Spec == Init /\ [][Next]_vars

-----------------------------------------------------------------------------
Records == UNION {[1..n -> Answer] : n \in 0..Max(Counts)}
EntryType == [n_ok : Nat, n_total : Nat, signature_matches : BOOLEAN,
              released_module : BOOLEAN, backends_live : SUBSET Kinds]

TypeOK ==
    /\ ProvTypeOK
    /\ \A x \in Prefixes, p \in Patterns :
          results[x][p].exists \in BOOLEAN /\ results[x][p].recs \in Records
    /\ taken \in Records /\ current \in Patterns \cup {""}
    /\ \A f \in {partial, table.patterns} \cup {summaries[x].patterns : x \in Prefixes} :
          DOMAIN f \subseteq Patterns /\ \A p \in DOMAIN f : f[p] \in EntryType
    /\ at \in {"idle", "memory", "gateway", "guardrail", "save", "permit", "clear",
               "attach", "record", "build", "upsert", "invoke", "write"}

(***************************************************************************)
(* A summary describes the record files beside it, pattern by pattern,     *)
(* although a run may be refused or die with some patterns written, its    *)
(* prefix be used again, and the summary file be overwritten               *)
(* (run_all7.py:83, "committed records are append-only evidence").         *)
(***************************************************************************)
SummaryDescribesRecords ==
    \A x \in Prefixes : \A p \in DOMAIN summaries[x].patterns :
        /\ results[x][p].exists
        /\ summaries[x].patterns[p] = Entry(p, results[x][p].recs)

\* The records of a pattern are what the table says: complete, computed by the
\* released module with the fixture's counts (P6 varies), over the live seam.
Evidence(p, recs) ==
    /\ recs # <<>>
    /\ \A i \in DOMAIN recs :
        /\ recs[i].ok
        /\ p # "P6" => recs[i].source = "released"
        /\ recs[i].source # "foreign"
        /\ needs[p] \subseteq recs[i].live \/ p \in Declared

(***************************************************************************)
(* A printed table stays backed by the committed records, whatever is      *)
(* provisioned, deployed and run afterwards (analyze_all7.py:3, "a partial *)
(* or unattributable run must not produce a publishable-looking table").   *)
(***************************************************************************)
TableIsBacked ==
    \A p \in DOMAIN table.patterns : Evidence(p, results[table.prefix][p].recs)

(***************************************************************************)
(* The analysis says that it refuses when "patterns ran against different  *)
(* image digests" (analyze_all7.py:12).  The summary holds no digest per   *)
(* pattern, and the guard never fires: the run mixed_images.               *)
(***************************************************************************)
OneArtifact ==
    \A p, q \in DOMAIN table.patterns :
        \A r \in Range(results[table.prefix][p].recs), s \in Range(results[table.prefix][q].recs) :
            r.image = s.image
=============================================================================
