---------------------------- MODULE Provisioning ----------------------------
(***************************************************************************)
(* What the seven-pattern live run needs before it can start: the named    *)
(* resources (anchor/agentcore/provision_all7.py), the tool target of the  *)
(* gateway (provision_gateway_target.py) and the agent runtimes            *)
(* (deploy_released.py over deploy_agentcore.py).                          *)
(*                                                                         *)
(* The scripts are run by hand, one at a time.  Any call may be refused or *)
(* the script may die between two calls; what it made in the account       *)
(* stays, what it had in memory is lost.  The small JSON files are written *)
(* in one step.                                                            *)
(***************************************************************************)
EXTENDS Integers, FiniteSets, Sequences, FiniteSetsExt

CONSTANTS
    Patterns,       \* the patterns with a runtime
    Passed,         \* the sets of resource ids an operator passes on
    MaxCommands,    \* bound: scripts started
    MaxDeaths,      \* bound: scripts that do not come to their end
    MaxImages       \* bound: images built

Kinds == {"memory", "gateway", "guardrail"}

ASSUME ProvisioningAssumption ==
    /\ Patterns \subseteq {"P1", "P2", "P3", "P4", "P5", "P6", "P7"}
    /\ Passed \subseteq SUBSET Kinds
    /\ MaxCommands \in Nat /\ MaxDeaths \in Nat /\ MaxImages \in Nat \ {0}

\* An image is built from the working tree: the released modules, a tree whose
\* patterns make other calls, or an agent that does not import them.
Sources == {"released", "changed", "foreign"}

VARIABLES
    cloud,      \* per kind: ids of the resources with the run's name
    targets,    \* targets of the gateway with the stand-in's name
    permission, \* the stand-in function exists and the gateway may call it
    images,     \* what each pushed image was built from
    runtimes,   \* per pattern: image (0: no runtime) and configured seams
    inventory,  \* resources_all7.json
    released,   \* the patterns of runtimes_released.json
    at,         \* where the running script is
    args,       \* its arguments
    inv,        \* its copy of the inventory
    todo,       \* the patterns it still has to do
    next_id, commands, deaths

account  == <<cloud, targets, permission, images, runtimes, next_id>>
local    == <<args, inv, todo>>
bounds   == <<commands, deaths>>
provVars == <<account, inventory, released, at, local, bounds>>

NoEntry  == [id |-> 0, url |-> FALSE, target |-> 0]
NoArgs   == [dry |-> FALSE, image |-> 0, seams |-> {}, patterns |-> {},
             prefix |-> "", n |-> 0]
NoRuntime == [image |-> 0, seams |-> {}]

NoInventory == [k \in Kinds |-> NoEntry]

\* An account with nothing of the run in it.
EmptyAccount ==
    /\ cloud = [k \in Kinds |-> {}] /\ targets = {} /\ permission = FALSE
    /\ images = <<>> /\ runtimes = [p \in Patterns |-> NoRuntime]
    /\ inventory = NoInventory /\ released = {}
    /\ next_id = 1

CommittedId == [memory |-> 1, gateway |-> 2, guardrail |-> 3]

\* What resources_all7.json and runtimes_released.json of the repository list.
AsCommitted ==
    /\ cloud = [k \in Kinds |-> {CommittedId[k]}]
    /\ targets = {4} /\ permission = TRUE
    /\ images = <<"released">>
    /\ runtimes = [p \in Patterns |-> [image |-> 1, seams |-> Kinds]]
    /\ inventory = [k \in Kinds |-> [id |-> CommittedId[k], url |-> k = "gateway",
                                     target |-> IF k = "gateway" THEN 4 ELSE 0]]
    /\ released = Patterns
    /\ next_id = 5

ProvInit ==
    /\ EmptyAccount \/ AsCommitted
    /\ at = "idle" /\ args = NoArgs /\ inv = NoInventory /\ todo = {}
    /\ commands = 0 /\ deaths = 0

Begins(first) ==
    /\ at = "idle" /\ commands < MaxCommands
    /\ at' = first /\ commands' = commands + 1
    /\ UNCHANGED <<account, released, deaths>>

Ends == at' = "idle" /\ args' = NoArgs /\ inv' = NoInventory /\ todo' = {}

(***************************************************************************)
(* provision_all7                                                          *)
(***************************************************************************)
Provision(dry) ==
    /\ Begins("memory")
    /\ args' = [NoArgs EXCEPT !.dry = dry] /\ inv' = inventory
    /\ UNCHANGED <<inventory, todo>>

After == [memory |-> "gateway", gateway |-> "guardrail", guardrail |-> "save"]

\* Mutant: what the inventory does not list is taken to be missing.
unlisted(kind) == IF inv[kind].id = 0 THEN {} ELSE cloud[kind]
\* Found by its name in the account.
Existing(kind) == cloud[kind]

\* What is found replaces the entry; only a creation knows the url.
Reuse(kind) ==
    /\ \E id \in Existing(kind) : inv' = [inv EXCEPT ![kind] = [NoEntry EXCEPT !.id = id]]
    /\ UNCHANGED <<cloud, next_id>>

Plan(kind) == Existing(kind) = {} /\ args.dry /\ UNCHANGED <<inv, cloud, next_id>>

Create(kind) ==
    /\ Existing(kind) = {} /\ ~args.dry
    /\ cloud' = [cloud EXCEPT ![kind] = @ \cup {next_id}]
    /\ inv' = [inv EXCEPT ![kind] = [id |-> next_id, url |-> kind = "gateway", target |-> 0]]
    /\ next_id' = next_id + 1

Ensure(kind) ==
    /\ at = kind
    /\ Reuse(kind) \/ Plan(kind) \/ Create(kind)
    /\ at' = After[kind]
    /\ UNCHANGED <<targets, permission, images, runtimes, inventory, released, args,
                   todo, bounds>>

SaveInventory ==
    /\ at = "save" /\ Ends
    /\ inventory' = IF args.dry THEN inventory ELSE inv
    /\ UNCHANGED <<account, released, bounds>>

(***************************************************************************)
(* provision_gateway_target                                                *)
(***************************************************************************)
ProvisionTarget ==
    /\ Begins("permit")
    /\ \E k \in Kinds : inventory[k].id # 0
    /\ inv' = inventory
    /\ UNCHANGED <<inventory, args, todo>>

Permit ==
    /\ at = "permit" /\ at' = "clear"
    /\ permission' = TRUE
    /\ UNCHANGED <<cloud, targets, images, runtimes, next_id, inventory, released,
                   local, bounds>>

\* A stale target is deleted, to declare the tools again.
ClearTarget ==
    /\ at = "clear" /\ inv["gateway"].id # 0 /\ at' = "attach"
    /\ targets' = {}
    /\ UNCHANGED <<cloud, permission, images, runtimes, next_id, inventory, released,
                   local, bounds>>

AttachTarget ==
    /\ at = "attach" /\ at' = "record"
    /\ targets' = targets \cup {next_id} /\ next_id' = next_id + 1
    /\ inv' = [inv EXCEPT !["gateway"].target = next_id]
    /\ UNCHANGED <<cloud, permission, images, runtimes, inventory, released, args,
                   todo, bounds>>

RecordTarget ==
    /\ at = "record" /\ Ends
    /\ inventory' = inv
    /\ UNCHANGED <<account, released, bounds>>

(***************************************************************************)
(* deploy_released                                                         *)
(***************************************************************************)
\* The operator passes the ids of provisioned resources, or leaves some out.
Deploy(patterns, seams) ==
    /\ patterns # {} /\ \A k \in seams : cloud[k] # {}
    /\ Begins("build")
    /\ args' = [NoArgs EXCEPT !.patterns = patterns, !.seams = seams]
    /\ todo' = patterns
    /\ UNCHANGED <<inventory, inv>>

Build(source) ==
    /\ at = "build" /\ at' = "upsert" /\ Len(images) < MaxImages
    /\ images' = Append(images, source)
    /\ args' = [args EXCEPT !.image = Len(images) + 1]
    /\ UNCHANGED <<cloud, targets, permission, runtimes, next_id, inventory, released,
                   inv, todo, bounds>>

\* --skip-build, with the tag of any image pushed before.
SkipBuild ==
    /\ at = "build" /\ at' = "upsert"
    /\ \E i \in DOMAIN images : args' = [args EXCEPT !.image = i]
    /\ UNCHANGED <<account, inventory, released, inv, todo, bounds>>

\* A runtime is created or updated, and comes to READY.
Upsert(p) ==
    /\ at = "upsert" /\ p \in todo
    /\ runtimes' = [runtimes EXCEPT ![p] = [image |-> args.image, seams |-> args.seams]]
    /\ todo' = todo \ {p}
    /\ UNCHANGED <<cloud, targets, permission, images, next_id, inventory, released, at,
                   args, inv, bounds>>

\* Runtimes deployed before stay in the file.
WriteRuntimes ==
    /\ at = "upsert" /\ todo = {} /\ Ends
    /\ released' = released \cup args.patterns
    /\ UNCHANGED <<account, inventory, bounds>>

(***************************************************************************)
(* A refused call, an exception or the death of the script: nothing more   *)
(* is written.                                                             *)
(***************************************************************************)
Stops ==
    /\ at # "idle" /\ deaths < MaxDeaths /\ deaths' = deaths + 1
    /\ Ends
    /\ UNCHANGED <<account, inventory, released, commands>>

ProvNext ==
    \/ \E dry \in BOOLEAN : Provision(dry)
    \/ \E kind \in Kinds : Ensure(kind)
    \/ SaveInventory
    \/ ProvisionTarget \/ Permit \/ ClearTarget \/ AttachTarget \/ RecordTarget
    \/ \E patterns \in SUBSET Patterns, seams \in Passed : Deploy(patterns, seams)
    \/ \E source \in Sources : Build(source)
    \/ SkipBuild
    \/ \E p \in Patterns : Upsert(p)
    \/ WriteRuntimes

-----------------------------------------------------------------------------
Entries == [id : 0..(next_id - 1), url : BOOLEAN, target : 0..(next_id - 1)]

ProvTypeOK ==
    /\ next_id \in Nat \ {0}
    /\ cloud \in [Kinds -> SUBSET (1..(next_id - 1))]
    /\ targets \subseteq 1..(next_id - 1) /\ permission \in BOOLEAN
    /\ images \in Seq(Sources) /\ Len(images) <= MaxImages
    /\ runtimes \in [Patterns -> [image : 0..Len(images), seams : SUBSET Kinds]]
    /\ inventory \in [Kinds -> Entries] /\ inv \in [Kinds -> Entries]
    /\ released \subseteq Patterns /\ todo \subseteq Patterns
    /\ commands \in 0..MaxCommands /\ deaths \in 0..MaxDeaths

(***************************************************************************)
(* Whatever was refused or interrupted, running the scripts again makes no *)
(* second resource of a name (provision_all7.py:3, "each idempotent"), no  *)
(* second target, and the inventory never names a resource that is not     *)
(* there.                                                                  *)
(***************************************************************************)
NoDuplicateResources ==
    /\ \A k \in Kinds : \A i, j \in cloud[k] : i = j
    /\ \A i, j \in targets : i = j
    /\ \A k \in Kinds : inventory[k].id # 0 => inventory[k].id \in cloud[k]
=============================================================================
