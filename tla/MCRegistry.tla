----------------------------- MODULE MCRegistry -----------------------------
(* Instances of Registry for TLC. *)
EXTENDS Registry

\* A model with two versions, the first in Production with a tag and an alias.
MCTables ==
  [t \in Tables |->
     CASE t = "models" -> {[name |-> 1, desc |-> FALSE]}
       [] t = "versions" -> {[name |-> 1, v |-> 1, stage |-> "Production", desc |-> FALSE],
                             [name |-> 1, v |-> 2, stage |-> "None", desc |-> FALSE]}
       [] t = "mtags" -> {[name |-> 1, key |-> "k"]}
       [] t = "vtags" -> {[name |-> 1, v |-> 1, key |-> "k"]}
       [] t = "aliases" -> {[name |-> 1, alias |-> "a", v |-> 1]}
       [] OTHER -> {}]

ModelCalls ==
  {[op |-> "createModel", name |-> n, tags |-> <<"k">>] : n \in Names} \cup
  {[op |-> "renameModel", name |-> 1, to |-> 2], [op |-> "deleteModel", name |-> 1],
   [op |-> "updateModel", name |-> 1],
   [op |-> "setModelTag", name |-> 1, key |-> "k"], [op |-> "deleteModelTag", name |-> 1, key |-> "k"]}
VersionCalls ==
  {[op |-> "createVersion", name |-> 1, tags |-> <<"k">>], [op |-> "updateVersion", name |-> 1, v |-> 1],
   [op |-> "setVersionTag", name |-> 1, v |-> 1, key |-> "k"], [op |-> "deleteVersionTag", name |-> 1, v |-> 1, key |-> "k"],
   [op |-> "setAlias", name |-> 1, alias |-> "a", v |-> 1], [op |-> "deleteAlias", name |-> 1, alias |-> "a"]} \cup
  {[op |-> "deleteVersion", name |-> 1, v |-> v] : v \in {1}} \cup
  {[op |-> "transition", name |-> 1, v |-> v, stage |-> "Production", archive |-> TRUE] : v \in {1, 2}}
PromptCalls ==
  {[op |-> "createPrompt", name |-> 1, content |-> c] : c \in {"x", "y"}} \cup
  {[op |-> "setPromptAlias", name |-> 1, alias |-> "a", v |-> 1]}
AllCalls == ModelCalls \cup VersionCalls \cup PromptCalls
=============================================================================
