---------------------------- MODULE RecipeCache ----------------------------
(***************************************************************************)
(* The result cache (cache.py) as run_node uses it (executor.py): recipe   *)
(* keys chained from the content hashes of the bound payloads, looked up   *)
(* and filled by the nodes of any number of concurrent jobs.  A node is    *)
(* run by some job as soon as the nodes it reads from have published, in   *)
(* any interleaving with every other; Executor says when that is.          *)
(*                                                                         *)
(* Hashes are taken to be free of collisions: a digest stands for the one  *)
(* value that has it.  What a module computes is kept symbolic: a datum    *)
(* records which port of which recipe on which inputs it is, and which of  *)
(* the outcomes of the run, where the module does not determine it.        *)
(***************************************************************************)
EXTENDS Naturals, Sequences, FiniteSets

CONSTANTS
    Work,      \* the nodes of all the jobs
    Recipe,    \* Recipe[w]: [module, version, params, draft] of node w
    Sources,   \* Sources[w]: what feeds w's input ports, in port order: a
               \* bound [payload |-> p] or an edge [node |-> v, port |-> q]
    Content,   \* Content[p]: the bytes of payload p
    Ports,     \* Ports[m]: the output ports declared by module m
    Draws      \* Draws[m]: the outcomes a run of m may have on given inputs:
               \* one if m is deterministic

ASSUME WorkAssumption ==
    /\ \A w \in Work : Recipe[w].draft \in BOOLEAN
    /\ \A w \in Work : \A i \in DOMAIN Sources[w] :
          "payload" \notin DOMAIN Sources[w][i] =>
              "node" \in DOMAIN Sources[w][i] /\ Sources[w][i].node \in Work
    /\ \A w \in Work : Draws[Recipe[w].module] # {}
    /\ \A S \in SUBSET Work : S # {} =>
          \E w \in S : \A i \in DOMAIN Sources[w] :
              "node" \in DOMAIN Sources[w][i] => Sources[w][i].node \notin S

VARIABLES
    entries,       \* the cache: a function from keys to results
    stage,         \* stage[w]: how far run_node(w) is
    node_keys,     \* node_keys[w], once published
    node_results   \* node_results[w]: its results, by port

cacheVars == <<entries, stage, node_keys, node_results>>

Nothing == [none |-> TRUE]

-----------------------------------------------------------------------------
IsBound(s) == "payload" \in DOMAIN s

\* blake2b with one digest size, for payloads and for recipes alike.
Blake2b(bytes) == [digest |-> bytes]

content_hash(bytes) == Blake2b(bytes)

\* The key an input contributes: of an edge, the key of the node it comes from.
InputKey(s) == IF IsBound(s) THEN content_hash(Content[s.payload]) ELSE node_keys[s.node]

InputData(s) == IF IsBound(s) THEN Content[s.payload] ELSE node_results[s.node][s.port]

InputKeys(w) == [i \in DOMAIN Sources[w] |-> InputKey(Sources[w][i])]

\* The canonical JSON document of a recipe and the keys of its inputs.
CanonicalJson(recipe, keys) == [recipe |-> recipe, inputs |-> keys]

\* Mutant: quality is not part of the key.
recipe_key_no_draft(w) == Blake2b(CanonicalJson([Recipe[w] EXCEPT !.draft = FALSE], InputKeys(w)))

recipe_key(w) == Blake2b(CanonicalJson(Recipe[w], InputKeys(w)))

\* What the run d of w's module returns for the data on its inputs.
ResultsOn(w, d, data) ==
    [q \in Ports[Recipe[w].module] |-> [port |-> q, of |-> Recipe[w], run |-> d, on |-> data]]

\* What module.run returns for w when the run turns out as d.
ModuleResults(w, d) == ResultsOn(w, d, [i \in DOMAIN Sources[w] |-> InputData(Sources[w][i])])

Hit(key) == key \in DOMAIN entries

Insert(key, results) ==
    [k \in DOMAIN entries \cup {key} |-> IF k = key THEN results ELSE entries[k]]

CacheInit ==
    /\ entries = << >>
    /\ stage = [w \in Work |-> "waiting"]
    /\ node_keys = [w \in Work |-> Nothing]
    /\ node_results = [w \in Work |-> Nothing]

\* All the nodes w reads from have published: the key is computed, the cache
\* asked.  The key is kept with the node until it publishes.
LookUp(w) ==
    /\ stage[w] = "waiting"
    /\ \A i \in DOMAIN Sources[w] : ~IsBound(Sources[w][i]) => stage[Sources[w][i].node] = "published"
    /\ node_keys' = [node_keys EXCEPT ![w] = recipe_key(w)]
    /\ IF Hit(recipe_key(w))
          THEN /\ node_results' = [node_results EXCEPT ![w] = entries[recipe_key(w)]]
               /\ stage' = [stage EXCEPT ![w] = "published"]
          ELSE /\ stage' = [stage EXCEPT ![w] = "running"]
               /\ UNCHANGED node_results
    /\ UNCHANGED entries

\* The module runs, its results go to the cache and are published.  Another
\* node may have put its own under the key meanwhile: they are replaced.
RunAndPut(w) ==
    /\ stage[w] = "running"
    /\ \E d \in Draws[Recipe[w].module] :
          node_results' = [node_results EXCEPT ![w] = ModuleResults(w, d)]
    /\ entries' = Insert(node_keys[w], node_results'[w])
    /\ stage' = [stage EXCEPT ![w] = "published"]
    /\ UNCHANGED node_keys

AllPublished == (\A w \in Work : stage[w] = "published") /\ UNCHANGED cacheVars

CacheNext ==
    \/ \E w \in Work : LookUp(w)
    \/ \E w \in Work : RunAndPut(w)
    \/ AllPublished

CacheSpec == CacheInit /\ [][CacheNext]_cacheVars

-----------------------------------------------------------------------------
(* Properties.                                                             *)

\* The ways to take one datum from each of the sets of a family.
OneOfEach(sets) ==
    { data \in [DOMAIN sets -> UNION { sets[i] : i \in DOMAIN sets }] :
        \A i \in DOMAIN sets : data[i] \in sets[i] }

\* What the graph means: the results w can have if every module is run, without
\* any cache, on data that its inputs can carry.
Meaning[w \in Work] ==
    { ResultsOn(w, d, data) :
        d \in Draws[Recipe[w].module],
        data \in OneOfEach([i \in DOMAIN Sources[w] |->
                    IF IsBound(Sources[w][i]) THEN {Content[Sources[w][i].payload]}
                    ELSE { results[Sources[w][i].port] : results \in Meaning[Sources[w][i].node] }]) }

\* However jobs share and race for the cache, and through any chain of hits, a
\* node's results are some that its own recipe has on its own inputs: never
\* those of a draft for a full-quality node, of another version, of other
\* parameters, or of the inputs in another order.
ResultsAreRight ==
    \A w \in Work : stage[w] = "published" => node_results[w] \in Meaning[w]

=============================================================================
