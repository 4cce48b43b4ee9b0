------------------------- MODULE RecipeCacheProofs -------------------------
(***************************************************************************)
(* The result cache serves every node results of its own recipe on its own *)
(* inputs, for any number of jobs and nodes and whatever they share, with  *)
(* modules that are deterministic or not, as long as no two edges read     *)
(* different ports of one module and no payload consists of the canonical  *)
(* JSON of one of the recipes.  (Where two ports are read it does not: the *)
(* run recipe_cache_ports.)                                                *)
(***************************************************************************)
EXTENDS RecipeCache, TLAPS

\* The edges into the nodes of all the jobs.
Edges == { s \in UNION { { Sources[w][i] : i \in DOMAIN Sources[w] } : w \in Work } : ~IsBound(s) }

\* Of every module at most one output port is read.
OnePortRead ==
    \A s, t \in Edges : Recipe[s.node].module = Recipe[t.node].module => s.port = t.port

\* The payloads that are bound to inputs.
BoundPayloads ==
    { s.payload : s \in { t \in UNION { { Sources[w][i] : i \in DOMAIN Sources[w] } : w \in Work } : IsBound(t) } }

\* Payloads and recipes are hashed alike: that a payload's hash is no node's key
\* is because its bytes are not the document hashed for the node.
PayloadsAreNoRecipes ==
    \A p \in BoundPayloads, w \in Work : \A keys : Content[p] # CanonicalJson(Recipe[w], keys)

-----------------------------------------------------------------------------
(* Meaning is defined by recursion along the edges; there is such a        *)
(* function because no chain of edges goes on for ever.                    *)

\* The nodes w reads from.
Inputs(w) == { Sources[w][i].node : i \in { k \in DOMAIN Sources[w] : ~IsBound(Sources[w][k]) } }

\* What the i-th input of w can carry if f says what the nodes mean.
CanCarry(f, w) ==
    [i \in DOMAIN Sources[w] |->
        IF IsBound(Sources[w][i]) THEN {Content[Sources[w][i].payload]}
        ELSE { results[Sources[w][i].port] : results \in f[Sources[w][i].node] }]

\* What w means if f says what the others do.
MeansBy(f, w) ==
    { ResultsOn(w, d, data) : d \in Draws[Recipe[w].module], data \in OneOfEach(CanCarry(f, w)) }

LEMMA MeansByInputs ==
    ASSUME NEW w, NEW f, NEW g, \A v \in Inputs(w) : f[v] = g[v]
    PROVE  MeansBy(f, w) = MeansBy(g, w)
<1>1. \A i \in DOMAIN Sources[w] : ~IsBound(Sources[w][i]) => f[Sources[w][i].node] = g[Sources[w][i].node]
  BY DEF Inputs
<1>2. CanCarry(f, w) = CanCarry(g, w)
  BY <1>1 DEF CanCarry
<1> QED BY <1>2 DEF MeansBy

\* Of every set of nodes, one reads from none of them.
LEMMA FirstNode ==
    ASSUME NEW S \in SUBSET Work, S # {}
    PROVE  \E w \in S : Inputs(w) \cap S = {}
<1>1. PICK w \in S : \A i \in DOMAIN Sources[w] :
          "node" \in DOMAIN Sources[w][i] => Sources[w][i].node \notin S
  BY WorkAssumption
<1>2. \A i \in DOMAIN Sources[w] : ~IsBound(Sources[w][i]) => Sources[w][i].node \notin S
  BY <1>1, WorkAssumption DEF IsBound
<1> QED BY <1>2 DEF Inputs

LEMMA InputsInWork == \A w \in Work : Inputs(w) \subseteq Work
  BY WorkAssumption DEF Inputs, IsBound

\* f says what the nodes of A mean, and these read from no others.
MeansOn(A, f) ==
    /\ A \subseteq Work /\ \A w \in A : Inputs(w) \subseteq A
    /\ f = [w \in A |-> MeansBy(f, w)]

\* Two such functions agree.
LEMMA MeansOnAgree ==
    ASSUME NEW A, NEW B, NEW f, NEW g, MeansOn(A, f), MeansOn(B, g)
    PROVE  \A w \in A \cap B : f[w] = g[w]
<1> DEFINE D == { w \in A \cap B : f[w] # g[w] }
<1> SUFFICES ASSUME D # {} PROVE FALSE
  OBVIOUS
<1>1. PICK w \in D : Inputs(w) \cap D = {}
  <2>1. D \in SUBSET Work
    BY DEF MeansOn
  <2> HIDE DEF D
  <2> QED BY <2>1, FirstNode
<1>2. \A v \in Inputs(w) : f[v] = g[v]
  BY <1>1 DEF MeansOn
<1>3. MeansBy(f, w) = MeansBy(g, w)
  BY <1>2, MeansByInputs
<1>4. f[w] = MeansBy(f, w) /\ g[w] = MeansBy(g, w)
  BY <1>1 DEF MeansOn
<1> QED BY <1>1, <1>3, <1>4

\* There is one for all the nodes: the first node without would get one.
LEMMA MeaningExists == \E f : f = [w \in Work |-> MeansBy(f, w)]
<1> DEFINE U == { w \in Work : \E A, f : MeansOn(A, f) /\ w \in A }
           F == [w \in U |-> CHOOSE x : \E A, f : MeansOn(A, f) /\ w \in A /\ x = f[w]]
<1>1. ASSUME NEW A, NEW f, MeansOn(A, f), NEW w \in A PROVE w \in U /\ F[w] = f[w]
  <2>1. w \in U
    BY <1>1 DEF MeansOn
  <2> DEFINE P(x) == \E B, g : MeansOn(B, g) /\ w \in B /\ x = g[w]
  <2>2. P(f[w])
    BY <1>1
  <2>3. \A x : P(x) => x = f[w]
    BY <1>1, MeansOnAgree
  <2>4. F[w] = CHOOSE x : P(x)
    BY <2>1
  <2> HIDE DEF P, F
  <2>5. F[w] = f[w]
    BY <2>2, <2>3, <2>4
  <2> QED BY <2>1, <2>5
<1> HIDE DEF F
<1>2. MeansOn(U, F)
  <2>1. ASSUME NEW w \in U PROVE Inputs(w) \subseteq U /\ F[w] = MeansBy(F, w)
    <3>1. PICK A, f : MeansOn(A, f) /\ w \in A
      OBVIOUS
    <3>2. Inputs(w) \subseteq A /\ f[w] = MeansBy(f, w)
      BY <3>1 DEF MeansOn
    <3>3. \A v \in A : v \in U /\ F[v] = f[v]
      BY <1>1, <3>1
    <3>4. MeansBy(F, w) = MeansBy(f, w)
      BY <3>2, <3>3, MeansByInputs
    <3> QED BY <3>1, <3>2, <3>3, <3>4
  <2>2. F = [w \in U |-> F[w]]
    BY DEF F
  <2> QED BY <2>1, <2>2 DEF MeansOn
<1>3. U = Work
  <2> SUFFICES ASSUME Work \ U # {} PROVE FALSE
    OBVIOUS
  <2>1. PICK w \in Work \ U : Inputs(w) \cap (Work \ U) = {}
    <3>1. Work \ U \in SUBSET Work
      OBVIOUS
    <3> HIDE DEF U
    <3> QED BY <3>1, FirstNode
  <2>2. Inputs(w) \subseteq U
    BY <2>1, InputsInWork
  <2> DEFINE A == U \cup {w}
             g == [v \in A |-> IF v = w THEN MeansBy(F, w) ELSE F[v]]
  <2> HIDE DEF U
  <2>3. \A v \in U : g[v] = F[v]
    BY <2>1
  <2>4. ASSUME NEW v \in A PROVE g[v] = MeansBy(g, v) /\ Inputs(v) \subseteq U
    <3>1. CASE v = w
      <4>1. g[v] = MeansBy(F, w)
        BY <3>1
      <4> HIDE DEF g
      <4> QED BY <2>2, <2>3, <3>1, <4>1, MeansByInputs
    <3>2. CASE v # w
      <4>1. v \in U /\ g[v] = F[v]
        BY <2>3, <3>2
      <4>2. Inputs(v) \subseteq U /\ F[v] = MeansBy(F, v)
        BY <1>2, <4>1 DEF MeansOn
      <4> HIDE DEF g
      <4> QED BY <2>3, <4>1, <4>2, MeansByInputs
    <3> QED BY <3>1, <3>2
  <2>5. g = [v \in A |-> g[v]]
    OBVIOUS
  <2>6. A \subseteq Work
    BY <1>2 DEF MeansOn
  <2> HIDE DEF g
  <2>7. MeansOn(A, g)
    BY <2>4, <2>5, <2>6 DEF MeansOn
  <2> QED BY <2>1, <2>7 DEF U
<1> HIDE DEF U
<1> QED BY <1>2, <1>3 DEF MeansOn

\* What a node means, by what the nodes it reads from mean.
LEMMA MeaningUnfolds == \A w \in Work : Meaning[w] = MeansBy(Meaning, w)
<1>1. Meaning = CHOOSE f : f = [w \in Work |-> MeansBy(f, w)]
  BY DEF Meaning, MeansBy, CanCarry
<1> DEFINE Is(f) == f = [w \in Work |-> MeansBy(f, w)]
<1>2. Is(Meaning)
  <2>1. \E f : Is(f)
    BY MeaningExists
  <2>2. Meaning = CHOOSE f : Is(f)
    BY <1>1
  <2> HIDE DEF Is
  <2> QED BY <2>1, <2>2
<1> QED BY <1>2

-----------------------------------------------------------------------------
(* The inductive invariant.                                                *)

CacheTypeOK ==
    /\ stage \in [Work -> {"waiting", "running", "published"}]
    /\ DOMAIN node_keys = Work /\ DOMAIN node_results = Work

\* A node that has begun read from published ones, and its key is theirs and
\* its recipe hashed.
KeyInv ==
    \A w \in Work : stage[w] # "waiting" =>
        /\ \A v \in Inputs(w) : stage[v] = "published"
        /\ node_keys[w] = recipe_key(w)

\* Equal keys stand for equal possible results.
SameKeyInv ==
    \A v, w \in Work : stage[v] # "waiting" /\ stage[w] # "waiting" /\ node_keys[v] = node_keys[w] =>
        Meaning[v] = Meaning[w]

\* An entry holds results that a node with its key can have.
EntriesInv ==
    \A key \in DOMAIN entries :
        \E v \in Work : stage[v] # "waiting" /\ node_keys[v] = key /\ entries[key] \in Meaning[v]

CacheInv == CacheTypeOK /\ KeyInv /\ SameKeyInv /\ EntriesInv /\ ResultsAreRight

Ready(w) == \A v \in Inputs(w) : stage[v] = "published"

\* Payloads' keys are not nodes' keys: neither is taken for the other.
LEMMA KeyKinds ==
    ASSUME PayloadsAreNoRecipes, NEW p \in BoundPayloads, NEW w \in Work
    PROVE  content_hash(Content[p]) # recipe_key(w)
<1>1. Content[p] # CanonicalJson(Recipe[w], InputKeys(w))
  BY DEF PayloadsAreNoRecipes
<1> QED BY <1>1 DEF content_hash, recipe_key, Blake2b

\* Two nodes with one key have the same recipe, and inputs that mean the same.
LEMMA SameKeySameMeaning ==
    ASSUME OnePortRead, PayloadsAreNoRecipes, CacheInv, NEW v \in Work, NEW w \in Work, Ready(v), Ready(w),
           recipe_key(v) = recipe_key(w)
    PROVE  Meaning[v] = Meaning[w]
<1>1. Recipe[v] = Recipe[w] /\ InputKeys(v) = InputKeys(w)
  BY DEF recipe_key, Blake2b, CanonicalJson
<1>2. /\ DOMAIN Sources[v] = DOMAIN Sources[w]
      /\ \A i \in DOMAIN Sources[v] : InputKey(Sources[v][i]) = InputKey(Sources[w][i])
  BY <1>1 DEF InputKeys
<1> DEFINE datum(s) == IF IsBound(s) THEN {Content[s.payload]}
                       ELSE { results[s.port] : results \in Meaning[s.node] }
<1>3. ASSUME NEW i \in DOMAIN Sources[v] PROVE datum(Sources[v][i]) = datum(Sources[w][i])
  <2> DEFINE s == Sources[v][i]
             t == Sources[w][i]
  <2> SUFFICES datum(s) = datum(t)
    OBVIOUS
  <2>1. InputKey(s) = InputKey(t)
    BY <1>2
  <2>2. /\ ~IsBound(s) => /\ s.node \in Inputs(v) /\ s \in Edges /\ s.node \in Work
        /\ ~IsBound(t) => /\ t.node \in Inputs(w) /\ t \in Edges /\ t.node \in Work
        /\ IsBound(s) => s.payload \in BoundPayloads
        /\ IsBound(t) => t.payload \in BoundPayloads
    BY <1>2, InputsInWork DEF Inputs, Edges, BoundPayloads
  <2> HIDE DEF s, t
  <2>3. /\ ~IsBound(s) => stage[s.node] = "published" /\ InputKey(s) = recipe_key(s.node)
        /\ ~IsBound(t) => stage[t.node] = "published" /\ InputKey(t) = recipe_key(t.node)
    BY <2>2 DEF Ready, CacheInv, KeyInv, InputKey
  <2>4. CASE IsBound(s) /\ IsBound(t)
    BY <2>1, <2>4 DEF InputKey, content_hash, Blake2b
  <2>5. CASE IsBound(s) /\ ~IsBound(t)
    BY <2>1, <2>2, <2>3, <2>5, KeyKinds DEF InputKey
  <2>6. CASE ~IsBound(s) /\ IsBound(t)
    BY <2>1, <2>2, <2>3, <2>6, KeyKinds DEF InputKey
  <2>7. CASE ~IsBound(s) /\ ~IsBound(t)
    <3>1. node_keys[s.node] = node_keys[t.node]
      BY <2>1, <2>7 DEF InputKey
    <3>2. Meaning[s.node] = Meaning[t.node]
      BY <2>2, <2>3, <2>7, <3>1 DEF CacheInv, SameKeyInv
    <3>3. Recipe[s.node] = Recipe[t.node]
      BY <2>1, <2>3, <2>7 DEF recipe_key, Blake2b, CanonicalJson
    <3>4. s.port = t.port
      BY <2>2, <2>7, <3>3 DEF OnePortRead
    <3> QED BY <2>7, <3>2, <3>4
  <2> QED BY <2>4, <2>5, <2>6, <2>7
<1>4. \A u \in Work : CanCarry(Meaning, u) = [i \in DOMAIN Sources[u] |-> datum(Sources[u][i])]
  BY DEF CanCarry
<1> HIDE DEF datum
<1>5. CanCarry(Meaning, v) = CanCarry(Meaning, w)
  BY <1>2, <1>3, <1>4
<1> DEFINE made(r, sets) == { [q \in Ports[r.module] |-> [port |-> q, of |-> r, run |-> d, on |-> data]] :
                                d \in Draws[r.module], data \in OneOfEach(sets) }
<1>6. \A u \in Work : Meaning[u] = made(Recipe[u], CanCarry(Meaning, u))
  BY MeaningUnfolds DEF MeansBy, ResultsOn
<1> HIDE DEF made
<1> QED BY <1>1, <1>5, <1>6

\* The guard of LookUp.
LEMMA ReadyMeans ==
    ASSUME NEW w
    PROVE  Ready(w) <=> \A i \in DOMAIN Sources[w] :
                            ~IsBound(Sources[w][i]) => stage[Sources[w][i].node] = "published"
  BY DEF Ready, Inputs

\* A key does not change once the nodes it is made of have theirs.
LEMMA KeyStays ==
    ASSUME NEW w, \A v \in Inputs(w) : node_keys'[v] = node_keys[v]
    PROVE  recipe_key(w)' = recipe_key(w)
<1>1. \A i \in DOMAIN Sources[w] : InputKey(Sources[w][i])' = InputKey(Sources[w][i])
  BY DEF InputKey, Inputs
<1>2. InputKeys(w)' = InputKeys(w)
  BY <1>1 DEF InputKeys
<1> QED BY <1>2 DEF recipe_key

LEMMA CacheInit_CacheInv == CacheInit => CacheInv
  BY DEF CacheInit, CacheInv, CacheTypeOK, KeyInv, SameKeyInv, EntriesInv, ResultsAreRight

\* The key is computed: whoever has it already means the same.
LEMMA LookUpKeeps ==
    ASSUME OnePortRead, PayloadsAreNoRecipes, CacheInv, NEW w \in Work, LookUp(w)
    PROVE  CacheInv'
<1>1. /\ stage[w] = "waiting" /\ Ready(w) /\ entries' = entries
      /\ node_keys' = [node_keys EXCEPT ![w] = recipe_key(w)]
  BY ReadyMeans DEF LookUp
<1>2. /\ DOMAIN node_keys' = Work /\ node_keys'[w] = recipe_key(w)
      /\ \A v \in Work \ {w} : node_keys'[v] = node_keys[v]
  BY <1>1 DEF CacheInv, CacheTypeOK
<1>3. /\ stage' \in [Work -> {"waiting", "running", "published"}] /\ stage'[w] # "waiting"
      /\ \A v \in Work \ {w} : stage'[v] = stage[v]
      /\ DOMAIN node_results' = Work
      /\ \A v \in Work \ {w} : node_results'[v] = node_results[v]
  BY DEF LookUp, CacheInv, CacheTypeOK
<1>4. ASSUME NEW v \in Work, stage[v] # "waiting" \/ v = w
      PROVE  Ready(v) /\ w \notin Inputs(v) /\ recipe_key(v)' = recipe_key(v)
  <2>1. Ready(v)
    BY <1>1, <1>4 DEF CacheInv, KeyInv, Ready
  <2>2. w \notin Inputs(v)
    BY <1>1, <2>1 DEF Ready
  <2>3. \A x \in Inputs(v) : node_keys'[x] = node_keys[x]
    BY <1>2, <2>2, InputsInWork
  <2> QED BY <2>1, <2>2, <2>3, KeyStays
<1>5. KeyInv'
  <2> SUFFICES ASSUME NEW v \in Work, stage'[v] # "waiting"
               PROVE  (\A x \in Inputs(v) : stage'[x] = "published") /\ node_keys'[v] = recipe_key(v)'
    BY DEF KeyInv
  <2>1. Ready(v) /\ w \notin Inputs(v) /\ recipe_key(v)' = recipe_key(v)
    BY <1>3, <1>4
  <2>2. \A x \in Inputs(v) : stage'[x] = "published"
    BY <1>3, <2>1, InputsInWork DEF Ready
  <2>3. node_keys'[v] = recipe_key(v)
    BY <1>2, <1>3 DEF CacheInv, KeyInv
  <2> QED BY <2>1, <2>2, <2>3
<1>6. ASSUME NEW v \in Work, stage[v] # "waiting", node_keys[v] = recipe_key(w) PROVE Meaning[v] = Meaning[w]
  <2>1. recipe_key(v) = recipe_key(w)
    BY <1>6 DEF CacheInv, KeyInv
  <2> QED BY <1>1, <1>4, <1>6, <2>1, SameKeySameMeaning
<1>7. SameKeyInv'
  BY <1>2, <1>3, <1>6 DEF CacheInv, SameKeyInv
<1>8. EntriesInv'
  <2> SUFFICES ASSUME NEW key \in DOMAIN entries
               PROVE  \E v \in Work : stage'[v] # "waiting" /\ node_keys'[v] = key /\ entries[key] \in Meaning[v]
    BY <1>1 DEF EntriesInv
  <2>1. PICK v \in Work : stage[v] # "waiting" /\ node_keys[v] = key /\ entries[key] \in Meaning[v]
    BY DEF CacheInv, EntriesInv
  <2> QED BY <1>1, <1>2, <1>3, <2>1
<1>9. ResultsAreRight'
  <2>1. ASSUME stage'[w] = "published" PROVE node_results'[w] \in Meaning[w]
    <3>1. Hit(recipe_key(w)) /\ node_results' = [node_results EXCEPT ![w] = entries[recipe_key(w)]]
      BY <2>1 DEF LookUp, CacheInv, CacheTypeOK
    <3>2. PICK v \in Work : /\ stage[v] # "waiting" /\ node_keys[v] = recipe_key(w)
                            /\ entries[recipe_key(w)] \in Meaning[v]
      BY <3>1 DEF Hit, CacheInv, EntriesInv
    <3> QED BY <1>6, <3>1, <3>2 DEF CacheInv, CacheTypeOK
  <2> QED BY <1>3, <2>1 DEF CacheInv, ResultsAreRight
<1> QED BY <1>2, <1>3, <1>5, <1>7, <1>8, <1>9 DEF CacheInv, CacheTypeOK

\* A module that runs is given what its inputs can carry.
LEMMA RunMeans ==
    ASSUME CacheInv, NEW w \in Work, stage[w] = "running", NEW d \in Draws[Recipe[w].module]
    PROVE  ModuleResults(w, d) \in Meaning[w]
<1> DEFINE data == [i \in DOMAIN Sources[w] |-> InputData(Sources[w][i])]
           can == CanCarry(Meaning, w)
<1>1. \A v \in Inputs(w) : node_results[v] \in Meaning[v]
  BY InputsInWork DEF CacheInv, KeyInv, ResultsAreRight
<1>2. \A i \in DOMAIN Sources[w] : ~IsBound(Sources[w][i]) => Sources[w][i].node \in Inputs(w)
  BY DEF Inputs
<1>3. DOMAIN can = DOMAIN Sources[w]
  BY DEF CanCarry
<1>4. \A i \in DOMAIN Sources[w] : InputData(Sources[w][i]) \in can[i]
  BY <1>1, <1>2 DEF CanCarry, InputData
<1> HIDE DEF can
<1>5. data \in OneOfEach(can)
  BY <1>3, <1>4 DEF OneOfEach
<1> HIDE DEF data
<1>6. ModuleResults(w, d) = ResultsOn(w, d, data)
  BY DEF ModuleResults, data
<1> QED BY <1>5, <1>6, MeaningUnfolds DEF MeansBy, can

\* What is put under a key is what a node with the key can have, whether or not
\* it replaces what another such node has put.
LEMMA RunAndPutKeeps ==
    ASSUME CacheInv, NEW w \in Work, RunAndPut(w)
    PROVE  CacheInv'
<1>1. /\ stage[w] = "running" /\ node_keys' = node_keys
      /\ stage' = [stage EXCEPT ![w] = "published"]
  BY DEF RunAndPut
<1>2. PICK d \in Draws[Recipe[w].module] :
          node_results' = [node_results EXCEPT ![w] = ModuleResults(w, d)]
  BY DEF RunAndPut
<1>3. /\ stage' \in [Work -> {"waiting", "running", "published"}] /\ stage'[w] = "published"
      /\ \A v \in Work \ {w} : stage'[v] = stage[v]
      /\ DOMAIN node_results' = Work /\ node_results'[w] \in Meaning[w]
      /\ \A v \in Work \ {w} : node_results'[v] = node_results[v]
  BY <1>1, <1>2, RunMeans DEF CacheInv, CacheTypeOK
<1>4. /\ DOMAIN entries' = DOMAIN entries \cup {node_keys[w]}
      /\ entries'[node_keys[w]] \in Meaning[w]
      /\ \A key \in DOMAIN entries : key # node_keys[w] => entries'[key] = entries[key]
  BY <1>3 DEF RunAndPut, Insert
<1>5. \A v : recipe_key(v)' = recipe_key(v)
  BY <1>1, KeyStays
<1>6. \A v \in Work : stage'[v] # "waiting" <=> stage[v] # "waiting"
  BY <1>1, <1>3
<1>7. KeyInv'
  BY <1>1, <1>3, <1>5, <1>6, InputsInWork DEF CacheInv, KeyInv
<1>8. SameKeyInv'
  BY <1>1, <1>6 DEF CacheInv, SameKeyInv
<1>9. EntriesInv'
  <2> SUFFICES ASSUME NEW key \in DOMAIN entries'
               PROVE  \E v \in Work : stage'[v] # "waiting" /\ node_keys'[v] = key /\ entries'[key] \in Meaning[v]
    BY DEF EntriesInv
  <2>1. CASE key = node_keys[w]
    BY <1>1, <1>3, <1>4, <2>1
  <2>2. CASE key # node_keys[w]
    <3>1. PICK v \in Work : stage[v] # "waiting" /\ node_keys[v] = key /\ entries[key] \in Meaning[v]
      BY <1>4, <2>2 DEF CacheInv, EntriesInv
    <3> QED BY <1>1, <1>4, <1>6, <2>2, <3>1
  <2> QED BY <2>1, <2>2
<1>10. ResultsAreRight'
  BY <1>3 DEF CacheInv, ResultsAreRight
<1>11. CacheTypeOK'
  BY <1>1, <1>3 DEF CacheInv, CacheTypeOK
<1> QED BY <1>7, <1>8, <1>9, <1>10, <1>11 DEF CacheInv

LEMMA CacheNext_CacheInv ==
    OnePortRead /\ PayloadsAreNoRecipes /\ CacheInv /\ [CacheNext]_cacheVars => CacheInv'
<1> SUFFICES ASSUME OnePortRead, PayloadsAreNoRecipes, CacheInv, [CacheNext]_cacheVars PROVE CacheInv'
  OBVIOUS
<1>1. CASE UNCHANGED cacheVars
  <2>1. UNCHANGED <<entries, stage, node_keys, node_results>>
    BY <1>1 DEF cacheVars
  <2>2. \A w : recipe_key(w)' = recipe_key(w)
    BY <2>1, KeyStays
  <2> QED BY <2>1, <2>2 DEF CacheInv, CacheTypeOK, KeyInv, SameKeyInv, EntriesInv, ResultsAreRight
<1> QED BY <1>1, LookUpKeeps, RunAndPutKeeps DEF CacheNext, AllPublished

-----------------------------------------------------------------------------
(* The theorems.                                                           *)

\* The cache's keys and entries, for all jobs that read one port per module and
\* bind no payload that is the document of one of their recipes.
THEOREM CacheCorrect ==
    ASSUME OnePortRead, PayloadsAreNoRecipes PROVE CacheSpec => []CacheInv
  BY OnePortRead, PayloadsAreNoRecipes, CacheInit_CacheInv, CacheNext_CacheInv, PTL DEF CacheSpec

\* However jobs share and race for the cache, a node is served results its own
\* recipe has on its own inputs.
THEOREM ResultsAreRightHolds ==
    ASSUME OnePortRead, PayloadsAreNoRecipes PROVE CacheSpec => []ResultsAreRight
<1>1. CacheInv => ResultsAreRight
  BY DEF CacheInv
<1> QED BY OnePortRead, PayloadsAreNoRecipes, <1>1, CacheCorrect, PTL

=============================================================================
