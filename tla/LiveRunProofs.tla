--------------------------- MODULE LiveRunProofs ----------------------------
(***************************************************************************)
(* Proofs about the provisioning scripts, the deployment, and the records, *)
(* summaries and tables of the live run, for every set of patterns and     *)
(* every number of scripts, deaths, images and requests.                   *)
(***************************************************************************)
EXTENDS LiveRun, SequenceTheorems, FiniteSetTheorems, WellFoundedInduction, TLAPS

AtMostOne(S) == \A i, j \in S : i = j

\* What a script holds in memory was found or made in the account, and nothing
\* is deleted there but the target, which is replaced.
ProvInv ==
    /\ cloud \in [Kinds -> SUBSET Nat] /\ next_id \in Nat
    /\ inv \in [Kinds -> [id : Nat, url : BOOLEAN, target : Nat]]
    /\ inventory \in [Kinds -> [id : Nat, url : BOOLEAN, target : Nat]]
    /\ \A k \in Kinds : AtMostOne(cloud[k])
    /\ \A k \in Kinds : inv[k].id # 0 => inv[k].id \in cloud[k]
    /\ \A k \in Kinds : inventory[k].id # 0 => inventory[k].id \in cloud[k]
    /\ AtMostOne(targets)
    /\ at = "attach" => targets = {}

LEMMA CommittedIds == \A k \in Kinds : CommittedId[k] \in Nat
BY DEF CommittedId, Kinds

LEMMA ProvInitial == Init => ProvInv
<1> SUFFICES ASSUME Init PROVE ProvInv
  OBVIOUS
<1> USE DEF Init, ProvInit, ProvInv, AtMostOne, Kinds, NoInventory, NoEntry
<1>1. CASE EmptyAccount
  BY <1>1 DEF EmptyAccount
<1>2. CASE AsCommitted
  <2>1. \A k \in Kinds : CommittedId[k] \in Nat
    BY CommittedIds
  <2>2. /\ cloud = [k \in Kinds |-> {CommittedId[k]}]
        /\ inventory = [k \in Kinds |-> [id |-> CommittedId[k], url |-> k = "gateway",
                                         target |-> IF k = "gateway" THEN 4 ELSE 0]]
        /\ targets = {4} /\ next_id = 5
    BY <1>2 DEF AsCommitted
  <2>3. \A k \in Kinds : inventory[k].id = CommittedId[k] /\ cloud[k] = {CommittedId[k]}
    BY <2>2
  <2>4. inventory \in [Kinds -> [id : Nat, url : BOOLEAN, target : Nat]]
    BY <2>1, <2>2
  <2>5. cloud \in [Kinds -> SUBSET Nat]
    BY <2>1, <2>2
  <2> QED
    BY <2>2, <2>3, <2>4, <2>5
<1> QED
  BY <1>1, <1>2

\* A script starts with a copy of the inventory, or with nothing.
LEMMA BeginKeeps ==
    ASSUME ProvInv, UNCHANGED <<account, inventory>>, at' # "attach",
           inv' \in {inv, inventory, NoInventory}
    PROVE  ProvInv'
<1>1. /\ NoInventory \in [Kinds -> [id : Nat, url : BOOLEAN, target : Nat]]
      /\ \A k \in Kinds : NoInventory[k].id = 0
  BY DEF NoInventory, NoEntry
<1>2. /\ inv' \in [Kinds -> [id : Nat, url : BOOLEAN, target : Nat]]
      /\ \A k \in Kinds : inv'[k].id # 0 => inv'[k].id \in cloud[k]
  BY <1>1 DEF ProvInv
<1> QED
  BY <1>2 DEF ProvInv, account, AtMostOne

\* A resource is made only when none with its name is found.
LEMMA EnsureKeeps ==
    ASSUME ProvInv, NEW kind \in Kinds, Ensure(kind)
    PROVE  ProvInv'
<1>1. /\ UNCHANGED <<targets, inventory>> /\ at' # "attach"
      /\ Reuse(kind) \/ Plan(kind) \/ Create(kind)
  BY DEF Ensure, After, Kinds
<1>2. CASE Reuse(kind)
  <2>1. PICK id \in cloud[kind] : inv' = [inv EXCEPT ![kind] = [NoEntry EXCEPT !.id = id]]
    BY <1>2 DEF Reuse, Existing
  <2>2. UNCHANGED <<cloud, next_id>> /\ id \in Nat
    BY <1>2, <2>1 DEF Reuse, ProvInv
  <2>3. /\ [NoEntry EXCEPT !.id = id] \in [id : Nat, url : BOOLEAN, target : Nat]
        /\ [NoEntry EXCEPT !.id = id].id = id
    BY <2>2 DEF NoEntry
  <2>4. /\ inv' \in [Kinds -> [id : Nat, url : BOOLEAN, target : Nat]]
        /\ \A k \in Kinds : inv'[k].id # 0 => inv'[k].id \in cloud'[k]
    BY <2>1, <2>2, <2>3 DEF ProvInv
  <2> QED
    BY <1>1, <2>2, <2>4 DEF ProvInv, AtMostOne
<1>3. CASE Plan(kind)
  BY <1>1, <1>3 DEF Plan, ProvInv, AtMostOne
<1>4. CASE Create(kind)
  <2>1. /\ cloud[kind] = {} /\ next_id' = next_id + 1
        /\ cloud' = [cloud EXCEPT ![kind] = @ \cup {next_id}]
        /\ inv' = [inv EXCEPT ![kind] =
                      [id |-> next_id, url |-> kind = "gateway", target |-> 0]]
    BY <1>4 DEF Create, Existing
  <2>2. cloud'[kind] = {next_id} /\ \A k \in Kinds \ {kind} : cloud'[k] = cloud[k]
    BY <2>1 DEF ProvInv
  <2>3. /\ cloud' \in [Kinds -> SUBSET Nat] /\ next_id' \in Nat
        /\ inv' \in [Kinds -> [id : Nat, url : BOOLEAN, target : Nat]]
    BY <2>1 DEF ProvInv
  <2>4. inv'[kind].id = next_id /\ \A k \in Kinds \ {kind} : inv'[k] = inv[k]
    BY <2>1 DEF ProvInv
  <2>5. \A k \in Kinds : AtMostOne(cloud'[k]) /\ cloud[k] \subseteq cloud'[k]
    BY <2>1, <2>2 DEF ProvInv, AtMostOne
  <2>6. \A k \in Kinds : inv'[k].id # 0 => inv'[k].id \in cloud'[k]
    BY <2>2, <2>4 DEF ProvInv
  <2>7. \A k \in Kinds : inventory'[k].id # 0 => inventory'[k].id \in cloud'[k]
    BY <1>1, <2>5 DEF ProvInv
  <2> QED
    BY <1>1, <2>3, <2>5, <2>6, <2>7 DEF ProvInv, AtMostOne
<1> QED
  BY <1>1, <1>2, <1>3, <1>4

\* The old target goes before the new one is made.
LEMMA TargetKeeps == ProvInv /\ (Permit \/ ClearTarget \/ AttachTarget) => ProvInv'
<1> SUFFICES ASSUME ProvInv, Permit \/ ClearTarget \/ AttachTarget PROVE ProvInv'
  OBVIOUS
<1>1. CASE Permit
  BY <1>1 DEF Permit, ProvInv, AtMostOne, local
<1>2. CASE ClearTarget
  BY <1>2 DEF ClearTarget, ProvInv, AtMostOne, local
<1>3. CASE AttachTarget
  <2>1. /\ targets' = {next_id} /\ next_id' = next_id + 1 /\ at' = "record"
        /\ inv' = [inv EXCEPT !["gateway"].target = next_id]
        /\ UNCHANGED <<cloud, inventory>>
    BY <1>3 DEF AttachTarget, ProvInv
  <2>2. /\ inv' \in [Kinds -> [id : Nat, url : BOOLEAN, target : Nat]]
        /\ \A k \in Kinds : inv'[k].id = inv[k].id
    BY <2>1 DEF ProvInv, Kinds
  <2> QED
    BY <2>1, <2>2 DEF ProvInv, AtMostOne
<1> QED
  BY <1>1, <1>2, <1>3

\* A script that ends writes its copy of the inventory, or does not.
LEMMA EndingKeeps ==
    ASSUME ProvInv, UNCHANGED account, Ends, inventory' \in {inventory, inv}
    PROVE  ProvInv'
BY DEF ProvInv, account, AtMostOne, Ends, NoInventory, NoEntry

\* Images, runtimes, records and summaries are no part of it.
LEMMA ElsewhereKeeps ==
    ASSUME ProvInv, UNCHANGED <<cloud, targets, next_id, inventory, inv>>, at' # "attach"
    PROVE  ProvInv'
BY DEF ProvInv, AtMostOne

LEMMA ProvStep == ProvInv /\ [Next]_vars => ProvInv'
<1> SUFFICES ASSUME ProvInv, [Next]_vars PROVE ProvInv'
  OBVIOUS
<1>1. CASE ProvNext
  <2>1. CASE \E dry \in BOOLEAN : Provision(dry)
    BY <2>1, BeginKeeps DEF Provision, Begins
  <2>2. CASE \E kind \in Kinds : Ensure(kind)
    BY <2>2, EnsureKeeps
  <2>3. CASE SaveInventory
    BY <2>3, EndingKeeps DEF SaveInventory
  <2>4. CASE ProvisionTarget
    BY <2>4, BeginKeeps DEF ProvisionTarget, Begins
  <2>5. CASE Permit \/ ClearTarget \/ AttachTarget
    BY <2>5, TargetKeeps
  <2>6. CASE RecordTarget
    BY <2>6, EndingKeeps DEF RecordTarget
  <2>7. CASE \E patterns \in SUBSET Patterns, seams \in Passed : Deploy(patterns, seams)
    BY <2>7, BeginKeeps DEF Deploy, Begins
  <2>8. CASE \E source \in Sources : Build(source)
    BY <2>8, ElsewhereKeeps DEF Build
  <2>9. CASE SkipBuild
    BY <2>9, ElsewhereKeeps DEF SkipBuild, account
  <2>10. CASE \E p \in Patterns : Upsert(p)
    BY <2>10, ElsewhereKeeps DEF Upsert
  <2>11. CASE WriteRuntimes
    BY <2>11, EndingKeeps DEF WriteRuntimes
  <2> QED
    BY <1>1, <2>1, <2>2, <2>3, <2>4, <2>5, <2>6, <2>7, <2>8, <2>9, <2>10, <2>11 DEF ProvNext
<1>2. CASE Stops
  BY <1>2, EndingKeeps DEF Stops
<1>3. CASE \E want \in SUBSET Patterns, prefix \in Prefixes, n \in Counts : Run(want, prefix, n)
  BY <1>3, BeginKeeps DEF Run, Begins
<1>4. CASE \E p \in Patterns : Invoke(p)
  BY <1>4, ElsewhereKeeps DEF Invoke, account, local
<1>5. CASE WriteRecords
  BY <1>5, ElsewhereKeeps DEF WriteRecords, account
<1>6. CASE Refuse \/ CutShort \/ WriteSummary
  BY <1>6, EndingKeeps DEF Refuse, CutShort, WriteSummary
<1>7. CASE \E prefix \in Prefixes : Analyze(prefix)
  BY <1>7, BeginKeeps DEF Analyze, Begins, local
<1>8. CASE UNCHANGED vars
  BY <1>8 DEF vars, provVars, account, local, ProvInv, AtMostOne
<1> QED
  BY <1>1, <1>2, <1>3, <1>4, <1>5, <1>6, <1>7, <1>8 DEF Next

\* Running the scripts again after any refusal or death makes no second
\* resource of a name (provision_all7.py:3).
THEOREM ProvisioningIdempotent == Spec => []NoDuplicateResources
<1>1. Init => ProvInv
  BY ProvInitial
<1>2. ProvInv /\ [Next]_vars => ProvInv'
  BY ProvStep
<1>3. ProvInv => NoDuplicateResources
  BY DEF ProvInv, NoDuplicateResources, AtMostOne
<1> QED
  BY <1>1, <1>2, <1>3, PTL DEF Spec
-----------------------------------------------------------------------------
(* Runtimes run on images that were pushed *)

ArgsType == [dry : BOOLEAN, image : Nat, seams : SUBSET Kinds,
             patterns : SUBSET Patterns, prefix : Prefixes \cup {""}, n : Nat]

\* A pattern is released once its runtime runs on an image that was pushed,
\* and only released patterns are invoked.
DeployInv ==
    /\ images \in Seq(Sources)
    /\ runtimes \in [Patterns -> [image : Nat, seams : SUBSET Kinds]]
    /\ args \in ArgsType
    /\ released \subseteq Patterns
    /\ \A p \in released : runtimes[p].image \in DOMAIN images
    /\ at = "build" => todo = args.patterns
    /\ at = "upsert" =>
          /\ args.image \in DOMAIN images
          /\ \A p \in args.patterns \ todo : runtimes[p].image \in DOMAIN images
    /\ at \in {"invoke", "write"} => todo \subseteq released /\ args.prefix \in Prefixes

LEMMA DeployInitial == Init => DeployInv
<1> SUFFICES ASSUME Init PROVE DeployInv
  OBVIOUS
<1>1. at = "idle" /\ args = NoArgs /\ NoArgs \in ArgsType
  BY DEF Init, ProvInit, NoArgs, ArgsType
<1>2. CASE EmptyAccount
  <2>1. NoRuntime \in [image : Nat, seams : SUBSET Kinds]
    BY DEF NoRuntime
  <2>2. images = <<>> /\ released = {} /\ runtimes = [p \in Patterns |-> NoRuntime]
    BY <1>2 DEF EmptyAccount
  <2> QED
    BY <1>1, <2>1, <2>2 DEF DeployInv
<1>3. CASE AsCommitted
  <2>1. /\ images = <<"released">> /\ released = Patterns
        /\ runtimes = [p \in Patterns |-> [image |-> 1, seams |-> Kinds]]
    BY <1>3 DEF AsCommitted
  <2>2. images \in Seq(Sources) /\ DOMAIN images = {1}
    BY <2>1 DEF Sources
  <2>3. [image |-> 1, seams |-> Kinds] \in [image : Nat, seams : SUBSET Kinds]
    OBVIOUS
  <2>4. runtimes \in [Patterns -> [image : Nat, seams : SUBSET Kinds]]
    BY <2>1, <2>3
  <2>5. \A p \in released : runtimes[p].image \in DOMAIN images
    BY <2>1, <2>2
  <2> QED
    BY <1>1, <2>1, <2>2, <2>4, <2>5 DEF DeployInv
<1> QED
  BY <1>2, <1>3 DEF Init, ProvInit

\* Images are only added.
LEMMA BuildKeeps ==
    ASSUME DeployInv, NEW source \in Sources, Build(source)
    PROVE  DeployInv' /\ DOMAIN images \subseteq DOMAIN images'
<1>1. /\ at' = "upsert" /\ images' = Append(images, source)
      /\ args' = [args EXCEPT !.image = Len(images) + 1]
      /\ UNCHANGED <<runtimes, released, todo>>
      /\ at = "build"
  BY DEF Build
<1>2. /\ images' \in Seq(Sources) /\ DOMAIN images = 1..Len(images) /\ Len(images) \in Nat
      /\ DOMAIN images' = 1..(Len(images) + 1)
  <2>1. images \in Seq(Sources)
    BY DEF DeployInv
  <2>2. images' \in Seq(Sources) /\ Len(images') = Len(images) + 1
    BY <1>1, <2>1, AppendProperties
  <2>3. /\ DOMAIN images = 1..Len(images) /\ Len(images) \in Nat
        /\ DOMAIN images' = 1..Len(images')
    BY <2>1, <2>2, LenProperties
  <2> QED
    BY <2>2, <2>3
<1>3. /\ args' \in ArgsType /\ args'.image = Len(images) + 1 /\ args'.patterns = args.patterns
  <2>1. PICK i \in Nat : i = Len(images) + 1
    BY <1>2
  <2>2. args' = [args EXCEPT !.image = i] /\ args \in ArgsType
    BY <1>1, <2>1 DEF DeployInv
  <2>3. args' \in ArgsType /\ args'.image = i /\ args'.patterns = args.patterns
    BY <2>2 DEF ArgsType
  <2> QED
    BY <2>1, <2>3
<1>4. DOMAIN images \subseteq DOMAIN images' /\ args'.image \in DOMAIN images'
  BY <1>2, <1>3
<1>5. todo = args.patterns
  BY <1>1 DEF DeployInv
<1> QED
  BY <1>1, <1>2, <1>3, <1>4, <1>5 DEF DeployInv

LEMMA UpsertKeeps ==
    ASSUME DeployInv, NEW p \in Patterns, Upsert(p)
    PROVE  DeployInv'
<1>1. /\ at = "upsert" /\ at' = "upsert" /\ p \in todo /\ todo' = todo \ {p}
      /\ runtimes' = [runtimes EXCEPT ![p] = [image |-> args.image, seams |-> args.seams]]
      /\ UNCHANGED <<images, released, args>>
  BY DEF Upsert
<1>2. /\ args.image \in Nat /\ args.seams \in SUBSET Kinds /\ args.image \in DOMAIN images
  BY <1>1 DEF DeployInv, ArgsType
<1>3. runtimes' \in [Patterns -> [image : Nat, seams : SUBSET Kinds]]
  BY <1>1, <1>2 DEF DeployInv
<1>4. /\ runtimes'[p].image = args.image
      /\ \A q \in Patterns \ {p} : runtimes'[q] = runtimes[q]
  BY <1>1 DEF DeployInv
<1>5. \A q \in released : runtimes'[q].image \in DOMAIN images
  BY <1>2, <1>4 DEF DeployInv
<1>6. \A q \in args.patterns \ todo' : runtimes'[q].image \in DOMAIN images
  <2> SUFFICES ASSUME NEW q \in args.patterns \ todo'
               PROVE  runtimes'[q].image \in DOMAIN images
    OBVIOUS
  <2>1. q \in Patterns
    BY DEF DeployInv, ArgsType
  <2>2. CASE q = p
    BY <1>2, <1>4, <2>2
  <2>3. CASE q # p
    BY <1>1, <1>4, <2>1, <2>3 DEF DeployInv
  <2> QED
    BY <2>2, <2>3
<1> QED
  BY <1>1, <1>3, <1>5, <1>6 DEF DeployInv

\* The deployment ends when every pattern asked for has its runtime.
LEMMA WriteRuntimesKeeps == DeployInv /\ WriteRuntimes => DeployInv'
<1> SUFFICES ASSUME DeployInv, WriteRuntimes PROVE DeployInv'
  OBVIOUS
<1>1. /\ at = "upsert" /\ todo = {} /\ at' = "idle" /\ args' = NoArgs
      /\ released' = released \cup args.patterns
      /\ UNCHANGED <<images, runtimes>>
  BY DEF WriteRuntimes, Ends, account
<1>2. NoArgs \in ArgsType /\ args.patterns \subseteq Patterns
  BY DEF NoArgs, ArgsType, DeployInv
<1>3. \A p \in released' : runtimes[p].image \in DOMAIN images
  BY <1>1 DEF DeployInv
<1> QED
  BY <1>1, <1>2, <1>3 DEF DeployInv

\* A script that ends, or one of the other steps.
LEMMA IdleKeeps ==
    ASSUME DeployInv, UNCHANGED <<images, runtimes, released>>, args' \in ArgsType,
           at' \notin {"build", "upsert", "invoke", "write"}
    PROVE  DeployInv'
BY DEF DeployInv

LEMMA NoArgsTyped == NoArgs \in ArgsType
BY DEF NoArgs, ArgsType

LEMMA DeployProvStep ==
    DeployInv /\ ProvNext => DeployInv' /\ at' \notin {"invoke", "write"}
<1> SUFFICES ASSUME DeployInv, ProvNext
             PROVE  DeployInv' /\ at' \notin {"invoke", "write"}
  OBVIOUS
<1> USE NoArgsTyped
<1>1. args \in ArgsType
  BY DEF DeployInv
<1>2. ASSUME NEW dry \in BOOLEAN, Provision(dry)
      PROVE  DeployInv' /\ at' \notin {"invoke", "write"}
  <2>1. args' \in ArgsType
    BY <1>2 DEF Provision, ArgsType
  <2> QED
    BY <1>2, <2>1, IdleKeeps DEF Provision, Begins, account
<1>3. ASSUME NEW kind \in Kinds, Ensure(kind)
      PROVE  DeployInv' /\ at' \notin {"invoke", "write"}
  BY <1>1, <1>3, IdleKeeps DEF Ensure, After, Kinds
<1>4. CASE SaveInventory \/ RecordTarget
  BY <1>4, IdleKeeps DEF SaveInventory, RecordTarget, Ends, account
<1>5. CASE ProvisionTarget
  BY <1>1, <1>5, IdleKeeps DEF ProvisionTarget, Begins, account
<1>6. CASE Permit \/ ClearTarget \/ AttachTarget
  BY <1>1, <1>6, IdleKeeps DEF Permit, ClearTarget, AttachTarget, local
<1>7. ASSUME NEW patterns \in SUBSET Patterns, NEW seams \in Passed, Deploy(patterns, seams)
      PROVE  DeployInv' /\ at' \notin {"invoke", "write"}
  <2>1. /\ at' = "build" /\ todo' = patterns /\ UNCHANGED <<images, runtimes, released>>
        /\ args' = [NoArgs EXCEPT !.patterns = patterns, !.seams = seams]
    BY <1>7 DEF Deploy, Begins, account
  <2>2. seams \in SUBSET Kinds
    BY ProvisioningAssumption
  <2>3. args' \in ArgsType /\ args'.patterns = patterns
    BY <2>1, <2>2 DEF ArgsType
  <2> QED
    BY <2>1, <2>3 DEF DeployInv
<1>8. ASSUME NEW source \in Sources, Build(source)
      PROVE  DeployInv' /\ at' \notin {"invoke", "write"}
  BY <1>8, BuildKeeps DEF Build
<1>9. CASE SkipBuild
  <2>1. PICK i \in DOMAIN images : args' = [args EXCEPT !.image = i]
    BY <1>9 DEF SkipBuild
  <2>2. /\ at = "build" /\ at' = "upsert" /\ UNCHANGED <<images, runtimes, released, todo>>
    BY <1>9 DEF SkipBuild, account
  <2>3. i \in Nat
    BY LenProperties DEF DeployInv
  <2>4. args' \in ArgsType /\ args'.image = i /\ args'.patterns = args.patterns
    BY <1>1, <2>1, <2>3 DEF ArgsType
  <2>5. todo = args.patterns
    BY <2>2 DEF DeployInv
  <2> QED
    BY <2>2, <2>4, <2>5 DEF DeployInv
<1>10. ASSUME NEW p \in Patterns, Upsert(p)
       PROVE  DeployInv' /\ at' \notin {"invoke", "write"}
  BY <1>10, UpsertKeeps DEF Upsert
<1>11. CASE WriteRuntimes
  BY <1>11, WriteRuntimesKeeps DEF WriteRuntimes, Ends
<1> QED
  BY <1>2, <1>3, <1>4, <1>5, <1>6, <1>7, <1>8, <1>9, <1>10, <1>11 DEF ProvNext
-----------------------------------------------------------------------------
(* Records, summaries and tables *)

Result == [ok : BOOLEAN, image : Nat, source : Sources \cup {"none"}, live : SUBSET Kinds]

\* The answers to one pattern: those that succeeded come from one runtime.
OneRuntime(recs) ==
    /\ recs \in Seq(Result)
    /\ \A i \in Good(recs) : recs[i].source \in Sources
    /\ \A i, j \in Good(recs) : recs[i].source = recs[j].source /\ recs[i].live = recs[j].live

LEMMA LeastNumber ==
    ASSUME NEW S \in SUBSET Nat, S # {}
    PROVE  Min(S) \in S
<1> DEFINE R == OpToRel(<, Nat)
<1>1. IsWellFoundedOn(R, Nat)
  BY NatLessThanWellFounded
<1>2. \A x, y \in Nat : <<y, x>> \in R <=> y < x
  BY DEF OpToRel
<1> HIDE DEF R
<1>3. PICK x \in S : \A y \in S : ~(<<y, x>> \in R)
  BY <1>1, WFMin
<1>4. ASSUME NEW y \in S PROVE x <= y
  <2>1. x \in Nat /\ y \in Nat
    OBVIOUS
  <2>2. ~(y < x)
    BY <1>2, <1>3, <2>1
  <2> QED
    BY <2>1, <2>2
<1> QED
  BY <1>4 DEF Min

\* The first answer that succeeded, when one did.
LEMMA FirstIsGood ==
    ASSUME NEW recs, recs \in Seq(Result), Good(recs) # {}
    PROVE  \E i \in Good(recs) : First(recs) = recs[i]
<1>1. Good(recs) \in SUBSET Nat
  BY LenProperties DEF Good
<1>2. Min(Good(recs)) \in Good(recs)
  BY <1>1, LeastNumber
<1> QED
  BY <1>2 DEF First

\* As many answers succeeded as there are: all of them did.
LEMMA AllGood ==
    ASSUME NEW recs, recs \in Seq(Result), Cardinality(Good(recs)) = Len(recs)
    PROVE  Good(recs) = DOMAIN recs
<1> DEFINE n == Len(recs)
<1>1. n \in Nat /\ DOMAIN recs = 1..n
  BY LenProperties
<1> HIDE DEF n
<1>2. IsFiniteSet(1..n) /\ Cardinality(1..n) = n
  <2>1. IsFiniteSet(1..n) /\ Cardinality(1..n) = IF 1 > n THEN 0 ELSE n - 1 + 1
    BY <1>1, FS_Interval
  <2> QED
    BY <1>1, <2>1
<1>3. Good(recs) \in SUBSET (1..n)
  BY <1>1 DEF Good
<1>4. Cardinality(Good(recs)) = Cardinality(1..n)
  BY <1>2 DEF n
<1> QED
  BY <1>1, <1>2, <1>3, <1>4, FS_Subset

\* What the analysis accepts is evidence.
LEMMA AcceptedIsEvidence ==
    ASSUME NEW p, NEW recs, OneRuntime(recs),
           Complete(Entry(p, recs)), LiveOrDeclared(p, Entry(p, recs))
    PROVE  Evidence(p, recs)
<1>1. recs \in Seq(Result)
  BY DEF OneRuntime
<1>2. /\ Cardinality(Good(recs)) = Len(recs)
      /\ matches(p, recs)
      /\ Good(recs) # {} /\ First(recs).source # "foreign"
      /\ needs[p] \subseteq First(recs).live \/ p \in Declared
  BY DEF Complete, LiveOrDeclared, Entry
<1>3. Good(recs) = DOMAIN recs
  BY <1>1, <1>2, AllGood
<1>4. PICK k \in Good(recs) : First(recs) = recs[k]
  BY <1>1, <1>2, FirstIsGood
<1>5. ASSUME NEW i \in DOMAIN recs
      PROVE  /\ recs[i].ok
             /\ p # "P6" => recs[i].source = "released"
             /\ recs[i].source # "foreign"
             /\ needs[p] \subseteq recs[i].live \/ p \in Declared
  <2>1. i \in Good(recs) /\ recs[i].ok
    BY <1>3 DEF Good
  <2>2. recs[i].source = First(recs).source /\ recs[i].live = First(recs).live
    BY <1>4, <2>1 DEF OneRuntime
  <2>3. recs[i].source \in Sources
    BY <2>1 DEF OneRuntime
  <2>4. p # "P6" => recs[i].source # "changed"
    <3>1. (recs[i].source # "changed") \in observed(recs)
      BY <2>1 DEF observed
    <3> QED
      BY <1>2, <3>1 DEF matches
  <2> QED
    BY <1>2, <2>1, <2>2, <2>3, <2>4 DEF Sources
<1>6. recs # <<>>
  BY <1>2 DEF Good
<1> QED
  BY <1>5, <1>6 DEF Evidence

\* A request is answered by the runtime of its pattern or fails.
LEMMA AnswersAreOfOneRuntime ==
    ASSUME DeployInv, NEW p \in released, NEW n \in Nat, NEW recs \in [1..n -> handler(p)]
    PROVE  OneRuntime(recs)
<1> DEFINE rt == runtimes[p]
           answer == [ok |-> TRUE, image |-> rt.image, source |-> images[rt.image],
                      live |-> rt.seams]
<1>1. handler(p) \subseteq {Failed, answer}
  BY DEF handler
<1>2. /\ rt.image \in DOMAIN images /\ rt.image \in Nat /\ rt.seams \in SUBSET Kinds
  BY DEF DeployInv
<1>3. images[rt.image] \in Sources
  BY <1>2, LenProperties DEF DeployInv
<1>4. answer \in Result /\ answer.source \in Sources /\ Failed \in Result /\ ~Failed.ok
  BY <1>2, <1>3 DEF Result, Failed
<1> HIDE DEF answer
<1>5. recs \in Seq(Result) /\ DOMAIN recs = 1..n
  <2>1. \A i \in 1..n : recs[i] \in Result
    BY <1>1, <1>4
  <2>2. recs \in [1..n -> Result]
    BY <2>1
  <2> QED
    BY <2>2
<1>6. \A i \in Good(recs) : recs[i] = answer
  BY <1>1, <1>4, <1>5 DEF Good
<1> QED
  BY <1>4, <1>5, <1>6 DEF OneRuntime

\* So are the answers that were on disk when the script died.
LEMMA PrefixIsOfOneRuntime ==
    ASSUME NEW recs, OneRuntime(recs), NEW k \in 0..(Len(recs) - 1)
    PROVE  OneRuntime(SubSeq(recs, 1, k))
<1> DEFINE short == SubSeq(recs, 1, k)
<1>1. recs \in Seq(Result) /\ Len(recs) \in Nat /\ DOMAIN recs = 1..Len(recs)
  BY LenProperties DEF OneRuntime
<1>2. k \in Nat /\ k <= Len(recs)
  BY <1>1
<1>3. \A i \in 1..k : recs[i] \in Result
  BY <1>1, <1>2, ElementOfSeq
<1>4. /\ short \in Seq(Result) /\ Len(short) = k
      /\ \A i \in 1..k : short[i] = recs[i]
  BY <1>2, <1>3, SubSeqProperties
<1> HIDE DEF short
<1>5. \A i \in Good(short) : i \in Good(recs) /\ short[i] = recs[i]
  <2>1. DOMAIN short = 1..k
    BY <1>4, LenProperties
  <2> QED
    BY <1>1, <1>2, <1>4, <2>1 DEF Good
<1>6. OneRuntime(short)
  BY <1>4, <1>5 DEF OneRuntime
<1> QED
  BY <1>6 DEF short

\* A summary under construction or on disk, held against the record files.
Describes(res, x, patterns) ==
    /\ DOMAIN patterns \subseteq Patterns
    /\ \A p \in DOMAIN patterns :
          res[x][p].exists /\ patterns[p] = Entry(p, res[x][p].recs)

\* A printed table, held against them.
Backed(res, t) ==
    /\ DOMAIN t.patterns \subseteq Patterns /\ (t.patterns # <<>> => t.prefix \in Prefixes)
    /\ \A p \in DOMAIN t.patterns :
          res[t.prefix][p].exists /\ Evidence(p, res[t.prefix][p].recs)

\* Record files are written once: what was said of them stays said.
RunInv ==
    /\ results \in [Prefixes -> [Patterns -> [exists : BOOLEAN, recs : Seq(Result)]]]
    /\ \A x \in Prefixes, p \in Patterns : OneRuntime(results[x][p].recs)
    /\ DOMAIN summaries = Prefixes
    /\ \A x \in Prefixes : Describes(results, x, summaries[x].patterns)
    /\ at \in {"invoke", "write"} => Describes(results, args.prefix, partial)
    /\ at = "write" => OneRuntime(taken) /\ current \in Patterns
    /\ Backed(results, table)

Kept(res, new) ==
    \A x \in Prefixes, p \in Patterns : res[x][p].exists => new[x][p] = res[x][p]

LEMMA KeptDescribes ==
    ASSUME NEW res, NEW new, Kept(res, new), NEW x \in Prefixes, NEW f, Describes(res, x, f)
    PROVE  Describes(new, x, f)
BY DEF Kept, Describes

LEMMA KeptBacked ==
    ASSUME NEW res, NEW new, Kept(res, new), NEW t, Backed(res, t)
    PROVE  Backed(new, t)
<1> SUFFICES ASSUME NEW p \in DOMAIN t.patterns
             PROVE  new[t.prefix][p] = res[t.prefix][p]
  BY DEF Backed
<1>1. t.patterns # <<>>
  OBVIOUS
<1> QED
  BY <1>1 DEF Kept, Backed

LEMMA RunInitial == Init => RunInv
<1> SUFFICES ASSUME Init PROVE RunInv
  OBVIOUS
<1>1. /\ results = [x \in Prefixes |-> [p \in Patterns |-> NoFile]]
      /\ summaries = [x \in Prefixes |-> NoSummary]
      /\ table = NoTable /\ at = "idle"
  BY DEF Init, ProvInit
<1>2. NoFile \in [exists : BOOLEAN, recs : Seq(Result)] /\ Good(NoFile.recs) = {}
  BY DEF NoFile, Good
<1>3. OneRuntime(NoFile.recs)
  BY <1>2 DEF OneRuntime, NoFile
<1>4. \A x \in Prefixes : Describes(results, x, summaries[x].patterns)
  BY <1>1 DEF NoSummary, Describes
<1>5. Backed(results, table)
  <2>1. NoTable.patterns = <<>>
    BY Zenon DEF NoTable
  <2>2. table.patterns = <<>> /\ DOMAIN table.patterns = {}
    BY <1>1, <2>1
  <2> QED
    BY <2>2 DEF Backed
<1> QED
  BY <1>1, <1>2, <1>3, <1>4, <1>5 DEF RunInv

\* A step that touches no file.
LEMMA FilesStay ==
    ASSUME RunInv, UNCHANGED <<results, summaries, table>>,
           at' \notin {"invoke", "write"}
    PROVE  RunInv'
BY DEF RunInv

\* A record file is written where there was none.
LEMMA FileAppears ==
    ASSUME RunInv, NEW x \in Prefixes, NEW p \in Patterns, ~results[x][p].exists,
           NEW recs, OneRuntime(recs),
           results' = [results EXCEPT ![x][p] = [exists |-> TRUE, recs |-> recs]],
           UNCHANGED <<summaries, table>>
    PROVE  /\ results' \in [Prefixes -> [Patterns -> [exists : BOOLEAN, recs : Seq(Result)]]]
           /\ \A y \in Prefixes, q \in Patterns : OneRuntime(results'[y][q].recs)
           /\ \A y \in Prefixes : Describes(results', y, summaries'[y].patterns)
           /\ Backed(results', table')
           /\ Kept(results, results')
           /\ results'[x][p] = [exists |-> TRUE, recs |-> recs]
<1> DEFINE file == [exists |-> TRUE, recs |-> recs]
<1>1. file \in [exists : BOOLEAN, recs : Seq(Result)] /\ file.recs = recs
  BY DEF OneRuntime
<1> HIDE DEF file
<1>2. results' = [results EXCEPT ![x] = [results[x] EXCEPT ![p] = file]]
  BY DEF file
<1>3. results[x] \in [Patterns -> [exists : BOOLEAN, recs : Seq(Result)]]
  BY DEF RunInv
<1>4. results' \in [Prefixes -> [Patterns -> [exists : BOOLEAN, recs : Seq(Result)]]]
  BY <1>1, <1>2, <1>3 DEF RunInv
<1>5. /\ results'[x][p] = file
      /\ \A y \in Prefixes, q \in Patterns :
            y # x \/ q # p => results'[y][q] = results[y][q]
  <2>1. results'[x] = [results[x] EXCEPT ![p] = file]
    BY <1>2 DEF RunInv
  <2>2. \A y \in Prefixes : y # x => results'[y] = results[y]
    BY <1>2 DEF RunInv
  <2>3. results'[x][p] = file /\ \A q \in Patterns : q # p => results'[x][q] = results[x][q]
    BY <1>3, <2>1
  <2> QED
    BY <2>2, <2>3
<1>6. Kept(results, results')
  BY <1>5 DEF Kept
<1>7. \A y \in Prefixes, q \in Patterns : OneRuntime(results'[y][q].recs)
  BY <1>1, <1>5 DEF RunInv
<1>8. \A y \in Prefixes : Describes(results', y, summaries'[y].patterns)
  BY <1>6, KeptDescribes DEF RunInv
<1>9. Backed(results', table')
  BY <1>6, KeptBacked DEF RunInv
<1> QED
  BY <1>4, <1>5, <1>6, <1>7, <1>8, <1>9 DEF file

LEMMA RunKeeps ==
    ASSUME DeployInv, RunInv, NEW want \in SUBSET Patterns, NEW prefix \in Prefixes,
           NEW n \in Counts, Run(want, prefix, n)
    PROVE  DeployInv' /\ RunInv'
<1>1. /\ at' = "invoke" /\ todo' = want /\ want \subseteq released /\ partial' = <<>>
      /\ args' = [NoArgs EXCEPT !.prefix = prefix, !.n = n]
      /\ UNCHANGED <<images, runtimes, released, results, summaries, table>>
  BY DEF Run, Begins, account
<1>2. args' \in ArgsType /\ args'.prefix = prefix
  <2>1. n \in Nat
    BY LiveRunAssumption
  <2> QED
    BY <1>1, <2>1, NoArgsTyped DEF ArgsType
<1>3. DeployInv'
  BY <1>1, <1>2 DEF DeployInv
<1>4. DOMAIN partial' = {}
  BY <1>1
<1>5. Describes(results', args'.prefix, partial')
  BY <1>4 DEF Describes
<1> QED
  BY <1>1, <1>3, <1>5 DEF RunInv

LEMMA InvokeKeeps ==
    ASSUME DeployInv, RunInv, NEW p \in Patterns, Invoke(p)
    PROVE  DeployInv' /\ RunInv'
<1>1. /\ at = "invoke" /\ at' = "write" /\ p \in todo /\ current' = p
      /\ taken' \in [1..args.n -> handler(p)]
      /\ UNCHANGED <<images, runtimes, released, args, todo, results, summaries, partial, table>>
  BY DEF Invoke, account, local
<1>2. p \in released /\ args.n \in Nat
  BY <1>1 DEF DeployInv, ArgsType
<1>3. OneRuntime(taken')
  BY <1>1, <1>2, AnswersAreOfOneRuntime
<1>4. DeployInv'
  BY <1>1 DEF DeployInv
<1>5. RunInv'
  BY <1>1, <1>3 DEF RunInv
<1> QED
  BY <1>4, <1>5

LEMMA WriteRecordsKeeps ==
    ASSUME DeployInv, RunInv, WriteRecords
    PROVE  DeployInv' /\ RunInv'
<1> DEFINE x == args.prefix
<1>1. /\ at = "write" /\ at' = "invoke" /\ ~results[x][current].exists
      /\ results' = [results EXCEPT ![x][current] = [exists |-> TRUE, recs |-> taken]]
      /\ partial' = [p \in DOMAIN partial \cup {current} |->
                        IF p = current THEN Entry(p, taken) ELSE partial[p]]
      /\ todo' \subseteq todo
      /\ UNCHANGED <<images, runtimes, released, args, summaries, table>>
  BY DEF WriteRecords, Committed, account
<1>2. x \in Prefixes /\ current \in Patterns /\ OneRuntime(taken)
      /\ Describes(results, x, partial)
  BY <1>1 DEF DeployInv, RunInv
<1>3. DeployInv'
  BY <1>1 DEF DeployInv
<1>4. /\ results' \in [Prefixes -> [Patterns -> [exists : BOOLEAN, recs : Seq(Result)]]]
      /\ \A y \in Prefixes, q \in Patterns : OneRuntime(results'[y][q].recs)
      /\ \A y \in Prefixes : Describes(results', y, summaries'[y].patterns)
      /\ Backed(results', table')
      /\ Kept(results, results')
      /\ results'[x][current] = [exists |-> TRUE, recs |-> taken]
  BY <1>1, <1>2, FileAppears
<1>5. Describes(results', x, partial)
  BY <1>2, <1>4, KeptDescribes
<1> HIDE DEF x
<1>6. Describes(results', x, partial')
  <2>1. DOMAIN partial' = DOMAIN partial \cup {current}
    BY <1>1
  <2>2. ASSUME NEW q \in DOMAIN partial'
        PROVE  results'[x][q].exists /\ partial'[q] = Entry(q, results'[x][q].recs)
    <3>1. CASE q = current
      BY <1>1, <1>4, <2>1, <3>1
    <3>2. CASE q # current
      BY <1>1, <1>5, <2>1, <3>2 DEF Describes
    <3> QED
      BY <3>1, <3>2
  <2> QED
    BY <1>2, <1>5, <2>1, <2>2 DEF Describes
<1>7. args'.prefix = x
  BY <1>1 DEF x
<1>8. DOMAIN summaries' = Prefixes
  BY <1>1 DEF RunInv
<1> QED
  BY <1>1, <1>3, <1>4, <1>6, <1>7, <1>8 DEF RunInv

LEMMA CutShortKeeps ==
    ASSUME DeployInv, RunInv, CutShort
    PROVE  DeployInv' /\ RunInv'
<1> DEFINE x == args.prefix
<1>1. /\ at = "write" /\ at' = "idle" /\ args' = NoArgs /\ ~results[x][current].exists
      /\ UNCHANGED <<images, runtimes, released, summaries, table>>
  BY DEF CutShort, Committed, Ends, account
<1>2. PICK k \in 0..(Len(taken) - 1) :
        results' = [results EXCEPT ![x][current] = [exists |-> TRUE, recs |-> SubSeq(taken, 1, k)]]
  BY DEF CutShort
<1>3. x \in Prefixes /\ current \in Patterns /\ OneRuntime(taken)
  BY <1>1 DEF DeployInv, RunInv
<1>4. OneRuntime(SubSeq(taken, 1, k))
  BY <1>3, PrefixIsOfOneRuntime
<1>5. /\ results' \in [Prefixes -> [Patterns -> [exists : BOOLEAN, recs : Seq(Result)]]]
      /\ \A y \in Prefixes, q \in Patterns : OneRuntime(results'[y][q].recs)
      /\ \A y \in Prefixes : Describes(results', y, summaries'[y].patterns)
      /\ Backed(results', table')
  BY <1>1, <1>2, <1>3, <1>4, FileAppears
<1>6. DeployInv'
  BY <1>1, NoArgsTyped, IdleKeeps
<1>7. DOMAIN summaries' = Prefixes
  BY <1>1 DEF RunInv
<1> QED
  BY <1>1, <1>5, <1>6, <1>7 DEF RunInv

LEMMA WriteSummaryKeeps ==
    ASSUME DeployInv, RunInv, WriteSummary
    PROVE  DeployInv' /\ RunInv'
<1> DEFINE x == args.prefix
           new == [exists |-> TRUE, patterns |-> partial]
<1>1. /\ at = "invoke" /\ at' = "idle" /\ args' = NoArgs
      /\ summaries' = [summaries EXCEPT ![x] = new]
      /\ UNCHANGED <<images, runtimes, released, results, table>>
  BY DEF WriteSummary, Ends, account
<1>2. x \in Prefixes /\ Describes(results, x, partial)
  BY <1>1 DEF DeployInv, RunInv
<1>3. new.patterns = partial
  OBVIOUS
<1> HIDE DEF new
<1>4. /\ DOMAIN summaries' = Prefixes /\ summaries'[x] = new
      /\ \A y \in Prefixes : y # x => summaries'[y] = summaries[y]
  BY <1>1, <1>2 DEF RunInv
<1>5. \A y \in Prefixes : Describes(results', y, summaries'[y].patterns)
  <2> SUFFICES ASSUME NEW y \in Prefixes PROVE Describes(results, y, summaries'[y].patterns)
    BY <1>1
  <2>1. CASE y = x
    BY <1>2, <1>3, <1>4, <2>1
  <2>2. CASE y # x
    BY <1>4, <2>2 DEF RunInv
  <2> QED
    BY <2>1, <2>2
<1>6. DeployInv'
  BY <1>1, NoArgsTyped, IdleKeeps
<1> QED
  BY <1>1, <1>4, <1>5, <1>6 DEF RunInv

\* The table is printed from a summary that the analysis accepts, and the
\* summary describes the records beside it.
LEMMA AnalyzeKeeps ==
    ASSUME DeployInv, RunInv, NEW prefix \in Prefixes, Analyze(prefix)
    PROVE  DeployInv' /\ RunInv'
<1> DEFINE f == summaries[prefix].patterns
<1>1. /\ at' = "idle" /\ table' = [prefix |-> prefix, patterns |-> f]
      /\ UNCHANGED <<images, runtimes, released, args, results, summaries>>
      /\ analyse(f)
  BY DEF Analyze, Begins, account, local
<1>2. Describes(results, prefix, f)
  BY DEF RunInv
<1> HIDE DEF f
<1>3. ASSUME NEW p \in DOMAIN f
      PROVE  results[prefix][p].exists /\ Evidence(p, results[prefix][p].recs)
  <2>1. p \in Patterns /\ results[prefix][p].exists /\ f[p] = Entry(p, results[prefix][p].recs)
    BY <1>2 DEF Describes
  <2>2. Complete(f[p]) /\ LiveOrDeclared(p, f[p])
    BY <1>1 DEF analyse
  <2>3. OneRuntime(results[prefix][p].recs)
    BY <2>1 DEF RunInv
  <2> QED
    BY <2>1, <2>2, <2>3, AcceptedIsEvidence
<1>4. table'.prefix = prefix /\ table'.patterns = f
  BY <1>1
<1>5. Backed(results', table')
  BY <1>1, <1>2, <1>3, <1>4 DEF Backed, Describes
<1>6. DeployInv'
  BY <1>1, IdleKeeps DEF DeployInv
<1> QED
  BY <1>1, <1>5, <1>6 DEF RunInv

LEMMA RunStep == DeployInv /\ RunInv /\ [Next]_vars => DeployInv' /\ RunInv'
<1> SUFFICES ASSUME DeployInv, RunInv, [Next]_vars PROVE DeployInv' /\ RunInv'
  OBVIOUS
<1>1. CASE ProvNext /\ UNCHANGED liveVars
  BY <1>1, DeployProvStep, FilesStay DEF liveVars
<1>2. CASE Stops /\ UNCHANGED <<results, summaries, table>>
  BY <1>2, NoArgsTyped, IdleKeeps, FilesStay DEF Stops, Ends, account
<1>3. CASE \E want \in SUBSET Patterns, prefix \in Prefixes, n \in Counts : Run(want, prefix, n)
  BY <1>3, RunKeeps
<1>4. CASE \E p \in Patterns : Invoke(p)
  BY <1>4, InvokeKeeps
<1>5. CASE WriteRecords \/ CutShort \/ WriteSummary
  BY <1>5, WriteRecordsKeeps, CutShortKeeps, WriteSummaryKeeps
<1>6. CASE Refuse
  BY <1>6, NoArgsTyped, IdleKeeps, FilesStay DEF Refuse, Ends, account
<1>7. CASE \E prefix \in Prefixes : Analyze(prefix)
  BY <1>7, AnalyzeKeeps
<1>8. CASE UNCHANGED vars
  BY <1>8 DEF vars, provVars, account, local, liveVars, liveLocal, DeployInv, RunInv
<1> QED
  BY <1>1, <1>2, <1>3, <1>4, <1>5, <1>6, <1>7, <1>8 DEF Next

LEMMA RunInvariance == Spec => [](DeployInv /\ RunInv)
<1>1. Init => DeployInv /\ RunInv
  BY DeployInitial, RunInitial
<1> QED
  BY <1>1, RunStep, PTL DEF Spec

\* A summary describes the record files beside it, for any patterns, prefixes
\* and numbers of requests, whatever was refused, interrupted, deployed or run
\* again (run_all7.py:83).
THEOREM SummaryIsTrue == Spec => []SummaryDescribesRecords
<1>1. RunInv => SummaryDescribesRecords
  BY DEF RunInv, Describes, SummaryDescribesRecords
<1> QED
  BY <1>1, RunInvariance, PTL

\* A printed table stays backed by complete and attributable records
\* (analyze_all7.py:3).
THEOREM TableStaysBacked == Spec => []TableIsBacked
<1>1. RunInv => TableIsBacked
  BY DEF RunInv, Backed, TableIsBacked
<1> QED
  BY <1>1, RunInvariance, PTL
=============================================================================
