---------------------------- MODULE QuantizedMoe ----------------------------
(***************************************************************************)
(* The routed experts of a model and the cache they are loaded through:    *)
(* the warm-up of src/src/residency.rs and src/src/server/engine.rs, then  *)
(* the forward passes of src/src/qwen/quantized_moe.rs, in which the       *)
(* experts of a layer run in parallel, each on a worker that looks its two *)
(* matrices up, reads them when they are not cached, and caches them.      *)
(* Numbers are left out: the output of a row is the sequence of terms that *)
(* were added, each with the input and the matrices it was made from.      *)
(***************************************************************************)
EXTENDS ExpertCache

CONSTANTS
  DecoderLayers,    \* number of decoder layers; the predictor's layer is the next one
  ExpertCount,      \* experts of a layer
  ExpertsPerToken,  \* routes of a row
  RouterPicks,      \* what the router may choose for a row: experts, best first
  FileOrder,        \* the expert tensors in the order of their file offsets
  Capacities,       \* cache sizes the server may be configured with
  Census,           \* <<layer, expert>> pairs a routing census warms, hottest first
  Threads,          \* threads of the pool the experts run on
  MaxRows,          \* bound: rows of a pass
  MaxRowsRun        \* bound: rows of all forwards together

MoeLayers == 0..DecoderLayers
Experts == 0..(ExpertCount - 1)
Tensors == MoeLayers \X {"gate", "up", "down"}

ASSUME MoeAssumption ==
  /\ DecoderLayers \in Nat \ {0} /\ ExpertCount \in Nat \ {0}
  /\ ExpertsPerToken \in 1..ExpertCount
  /\ \A choice \in RouterPicks :
       /\ choice \in [1..ExpertsPerToken -> Experts]
       /\ \A i, j \in 1..ExpertsPerToken : i # j => choice[i] # choice[j]
  /\ FileOrder \in Seq(Tensors) /\ ToSet(FileOrder) = Tensors
  /\ Len(FileOrder) = Cardinality(Tensors)
  /\ Capacities \subseteq Nat
  /\ Census \in Seq((0..(DecoderLayers - 1)) \X Experts)
  /\ Threads \in Nat \ {0} /\ MaxRows \in Nat \ {0} /\ MaxRowsRun \in Nat

VARIABLES
  cache,      \* the expert matrix cache, under its lock
  pinning,    \* whether the start pins every expert in the cache
  phase,      \* "warm", "fuse", "serve", "experts" (a layer is running), "stopped"
  plan,       \* keys the warm-up has still to load, layers it has still to fuse
  layer,      \* the layer of the latest forward
  routes,     \* its routes: for each row the experts chosen, in the order chosen
  worker,     \* for each expert group, where its load is and the matrices it has
  file,       \* the worker holding the file lock, or NoGroup
  result      \* the rows of the latest forward, or what became of it

moeVars == <<cache, pinning, phase, plan, layer, routes, worker, file, result>>

VARIABLE rowsRun   \* bound: rows run so far
allVars == <<moeVars, rowsRun>>

NoGroup == 0
NoResult == <<>>
TotalBytes ==
  MapThenSumSet(LAMBDA t : ExpertCount * Size[t[2]], Tensors)

(***************************************************************************)
(* Warming.                                                                *)
(***************************************************************************)

\* Every expert of every tensor, in file order.
WarmAllPlan ==
  [n \in 1..(Len(FileOrder) * ExpertCount) |->
     LET tensor == FileOrder[(n - 1) \div ExpertCount + 1]
     IN  Key(tensor[1], tensor[2], (n - 1) % ExpertCount)]

\* For each expert of the census its pair, then its down matrix.
CensusPlan ==
  [n \in 1..(2 * Len(Census)) |->
     LET hot == Census[(n + 1) \div 2]
     IN  Key(hot[1], IF n % 2 = 1 THEN "pair" ELSE "down", hot[2])]

WarmupPlan(kind, capacity) ==
  CASE kind = "all" /\ capacity > 0 -> WarmAllPlan
    [] kind = "census" -> CensusPlan
    [] OTHER -> <<>>     \* nothing, or pages of the file the system caches

\* Mutant: a cache that cannot pin the model is not noticed.
RefusedNever == FALSE

Refused == pinning /\ cache.capacity < TotalBytes

MoeInit ==
  /\ cache \in {Configured(capacity) : capacity \in Capacities}
  /\ \E warmup \in {"none", "all", "census"} :
       /\ pinning = (warmup = "all" /\ cache.capacity > 0)
       /\ plan = WarmupPlan(warmup, cache.capacity)
  /\ phase = "warm"
  /\ layer = 0
  /\ routes = <<>> /\ worker = <<>> /\ file = NoGroup /\ result = NoResult
  /\ rowsRun = 0

forwardVars == <<layer, routes, worker, file, result, rowsRun>>

LoadedAlone(key) ==
  IF Hit(cache, key) THEN AfterGet(cache, key)
  ELSE RecordReadAndInsert(AfterGet(cache, key), key, Contents(key))

Warm ==
  /\ phase = "warm" /\ plan # <<>> /\ ~Refused
  /\ cache' = LoadedAlone(Head(plan))
  /\ plan' = Tail(plan)
  /\ UNCHANGED <<pinning, phase, forwardVars>>

\* With every matrix resident the pairs are combined, layer by layer.
Warmed ==
  /\ phase = "warm" /\ plan = <<>>
  /\ phase' = IF pinning THEN "fuse" ELSE "serve"
  /\ plan' = IF pinning THEN [n \in 1..(DecoderLayers + 1) |-> n - 1] ELSE <<>>
  /\ UNCHANGED <<cache, pinning, forwardVars>>

FuseLayer ==
  /\ phase = "fuse" /\ plan # <<>> /\ CanFuse(cache, Head(plan), Experts)
  /\ cache' = FusePair(cache, Head(plan), Experts)
  /\ plan' = Tail(plan)
  /\ UNCHANGED <<pinning, phase, forwardVars>>

Fused ==
  /\ phase = "fuse" /\ plan = <<>>
  /\ cache' = MarkFullyResident(cache)
  /\ phase' = "serve"
  /\ UNCHANGED <<pinning, plan, forwardVars>>

\* A read that fails, or a cache too small for what is to be pinned, ends the start.
WarmupFails ==
  /\ \/ phase = "warm" /\ (Refused \/ (plan # <<>> /\ ~Hit(cache, Head(plan))))
     \/ phase = "fuse" /\ plan # <<>> /\ ~CanFuse(cache, Head(plan), Experts)
  /\ phase' = "stopped"
  /\ UNCHANGED <<cache, pinning, plan, forwardVars>>

(***************************************************************************)
(* A forward: routes, groups, loads.                                       *)
(***************************************************************************)

\* The (row, route) slots of each expert, rows first.
Assigned(rts, expert) ==
  LET slots == {s \in (1..Len(rts)) \X (1..ExpertsPerToken) : rts[s[1]][s[2]] = expert}
  IN  InOrder(slots, [s \in slots |-> s[1] * ExpertsPerToken + s[2]])

GroupedByExpert(rts) ==
  LET chosen == UNION {ToSet(rts[row]) : row \in DOMAIN rts}
      used == InOrder(chosen, [e \in chosen |-> e])
  IN  [g \in DOMAIN used |-> [expert |-> used[g], slots |-> Assigned(rts, used[g])]]

\* One row alone is run expert after expert, in the order it chose them.
TokenMajor(route) ==
  [g \in DOMAIN route |-> [expert |-> route[g], slots |-> <<(<<1, g>>)>>]]

Groups == IF Len(routes) = 1 THEN TokenMajor(routes[1]) ELSE GroupedByExpert(routes)

Idle == [part |-> "pair", at |-> "lookup", pair |-> <<>>, down |-> <<>>]

\* The layers of a pass follow each other, the predictor runs its own between
\* passes, and one that failed is followed by a new pass.
NextLayers ==
  CASE result = NoResult -> {0}
    [] result # NoResult /\ layer < DecoderLayers - 1 -> {layer + 1}
    [] OTHER -> {0, DecoderLayers}

Forward ==
  /\ phase = "serve"
  /\ \E next \in NextLayers, rows \in 1..MaxRows :
       /\ next \notin {0, DecoderLayers} => rows = Len(routes)
       /\ rowsRun + rows <= MaxRowsRun
       /\ rowsRun' = rowsRun + rows
       /\ layer' = next
       /\ routes' \in [1..rows -> RouterPicks]
  /\ worker' = [g \in DOMAIN Groups' |-> Idle]
  /\ phase' = "experts" /\ result' = NoResult
  /\ UNCHANGED <<cache, pinning, plan, file>>

\* Mutant: the index of a group is taken for its expert.
KeyByGroup(g) == Key(layer, worker[g].part, g - 1)

KeyOf(g) == Key(layer, worker[g].part, Groups[g].expert)

\* Where a worker goes once it has the matrix of its current part.
Having(w, matrix) ==
  IF w.part = "pair" THEN [w EXCEPT !.pair = matrix, !.part = "down", !.at = "lookup"]
  ELSE [w EXCEPT !.down = matrix, !.at = "done"]

Ended(g) == worker[g].at \in {"done", "failed"}
InTurn(g) == Len(routes) = 1 => \A h \in 1..(g - 1) : worker[h].at = "done"
Begun(g) == worker[g] # Idle /\ ~Ended(g)
HasThread(g) == Begun(g) \/ Cardinality({h \in DOMAIN worker : Begun(h)}) < Threads
Running(g) == phase = "experts" /\ g \in DOMAIN worker /\ InTurn(g) /\ HasThread(g)
loadVars == <<pinning, phase, plan, layer, routes, result, rowsRun>>

Lookup(g) ==
  /\ Running(g) /\ worker[g].at = "lookup"
  /\ cache' = AfterGet(cache, KeyOf(g))
  /\ worker' = [worker EXCEPT ![g] = IF Hit(cache, KeyOf(g))
                                     THEN Having(@, cache.entries[KeyOf(g)].matrix)
                                     ELSE [@ EXCEPT !.at = "read"]]
  /\ UNCHANGED <<loadVars, file>>

\* The file lock is let go before a pair is cached, and after a single matrix is.
Read(g) ==
  /\ Running(g) /\ worker[g].at = "read" /\ file = NoGroup
  /\ worker' = [worker EXCEPT ![g].at = "insert"]
  /\ file' = IF worker[g].part = "down" THEN g ELSE NoGroup
  /\ UNCHANGED <<loadVars, cache>>

ReadFails(g) ==
  /\ Running(g) /\ worker[g].at = "read" /\ file = NoGroup
  /\ worker' = [worker EXCEPT ![g].at = "failed"]
  /\ UNCHANGED <<loadVars, cache, file>>

Insert(g) ==
  /\ Running(g) /\ worker[g].at = "insert"
  /\ cache' = RecordReadAndInsert(cache, KeyOf(g), Contents(KeyOf(g)))
  /\ worker' = [worker EXCEPT ![g] = Having(@, Contents(KeyOf(g)))]
  /\ file' = IF file = g THEN NoGroup ELSE file
  /\ UNCHANGED loadVars

(***************************************************************************)
(* What the layer returns.                                                 *)
(***************************************************************************)

\* Where the value of each (row, route) slot is: its group and the row in it.
Slots(groups) ==
  [s \in (1..Len(routes)) \X (1..ExpertsPerToken) |->
     CHOOSE p \in (DOMAIN groups) \X (1..Len(routes)) :
       p[2] \in DOMAIN groups[p[1]].slots /\ groups[p[1]].slots[p[2]] = s]

\* A group's value for one of its slots: the row gathered and the two matrices.
Value(groups, g, expertRow) ==
  [input |-> groups[g].slots[expertRow][1],
   gateUp |-> worker[g].pair, down |-> worker[g].down]

\* Each row adds its values in the order of its routes, each with its weight.
Accumulated ==
  LET at == Slots(Groups) IN
  [row \in DOMAIN routes |->
     [i \in 1..ExpertsPerToken |->
        [value |-> Value(Groups, at[<<row, i>>][1], at[<<row, i>>][2]),
         weight |-> <<row, i>>]]]

Combine ==
  /\ phase = "experts" /\ \A g \in DOMAIN worker : worker[g].at = "done"
  /\ result' = Accumulated
  /\ phase' = "serve"
  /\ UNCHANGED <<cache, pinning, plan, layer, routes, worker, file, rowsRun>>

\* One load failed: the layer fails when the workers that had begun are through,
\* and what they cached stays cached.
ExpertsFail ==
  /\ phase = "experts"
  /\ \E g \in DOMAIN worker : worker[g].at = "failed"
  /\ \A g \in DOMAIN worker : Ended(g) \/ worker[g] = Idle
  /\ phase' = "serve"
  /\ UNCHANGED <<cache, pinning, plan, layer, routes, worker, file, result, rowsRun>>

Load(g) == Lookup(g) \/ Read(g) \/ ReadFails(g) \/ Insert(g)

MoeNext ==
  \/ Warm \/ Warmed \/ FuseLayer \/ Fused \/ WarmupFails
  \/ Forward \/ Combine \/ ExpertsFail
  \/ \E g \in 1..ExpertCount : Load(g)

MoeSpec == MoeInit /\ [][MoeNext]_allVars
=============================================================================
