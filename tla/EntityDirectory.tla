-------------------------- MODULE EntityDirectory --------------------------
(***************************************************************************)
(* The canonical entity registry, InMemoryEntityDirectory of               *)
(* src/src/registry.cpp.  The registry belongs to another system: the      *)
(* engine only looks records up, while their generations, retirements and  *)
(* supersessions move on at any time, without the engine being told.       *)
(***************************************************************************)
EXTENDS GraphState

CONSTANTS
  SeedEntities,          \* entities the registry seed holds at start-up
  MovingEntities,        \* entities whose records change while the engine runs
  MaxEntityGeneration    \* bound on registry generations explored

VARIABLE registry        \* records_: entity id -> record

ASSUME DirectoryConstants ==
  /\ SeedEntities \subseteq Entities
  /\ MaxEntityGeneration \in Nat

EntityRecords == [generation : Nat, retired : BOOLEAN, superseded : BOOLEAN]

FreshRecord == [generation |-> 1, retired |-> FALSE, superseded |-> FALSE]

DirectoryTypeOK ==
  /\ DOMAIN registry \subseteq Entities
  /\ registry \in [DOMAIN registry -> EntityRecords]

DirectoryInit == registry = [x \in SeedEntities |-> FreshRecord]

\* InMemoryEntityDirectory::add
DirectoryAdd(x) ==
  /\ x \in MovingEntities \ DOMAIN registry
  /\ registry' = Put(registry, x, FreshRecord)

\* InMemoryEntityDirectory::supersede: the old record is marked, the successor
\* is a new identity.
DirectorySupersede(old, successor) ==
  /\ old \in MovingEntities \cap DOMAIN registry
  /\ successor \in Entities \ DOMAIN registry
  /\ registry' = Put([registry EXCEPT ![old].superseded = TRUE], successor, FreshRecord)

\* InMemoryEntityDirectory::retire
DirectoryRetire(x) ==
  /\ x \in MovingEntities \cap DOMAIN registry
  /\ ~registry[x].retired
  /\ registry' = [registry EXCEPT ![x].retired = TRUE]

\* InMemoryEntityDirectory::bump_generation: generations never go back.
DirectoryBump(x, g) ==
  /\ x \in MovingEntities \cap DOMAIN registry
  /\ g > registry[x].generation
  /\ registry' = [registry EXCEPT ![x].generation = g]

DirectoryNext ==
  \E x \in Entities :
    \/ DirectoryAdd(x)
    \/ DirectoryRetire(x)
    \/ \E successor \in Entities : DirectorySupersede(x, successor)
    \/ \E g \in 1..MaxEntityGeneration : DirectoryBump(x, g)

=============================================================================
