# hent, specified in TLA+

*hent* answers one question: "I start here and want so many kilometres; give me
a loop that avoids tarmac and comes back". This directory holds TLA+ models of
the program, the TLC configurations that check them on small instances, and
TLAPS proofs of what matters most for every instance. Names follow the code
(French where the code is French).

- `X.tla` models a component; `MCX.tla` gives it a small instance; `X.cfg` is a
  TLC run; `XPreuve.tla` holds its theorems.
- `tlc -config X.cfg MCX.tla` checks a run (module and cfg of each are under
  "runs" in `PROJECT.json`), `tlapm XPreuve.tla` its proofs.
- An operator commented *Mutant* is a plausible bug of the definition that
  follows it. Nothing uses it: put in place of that definition, it makes the
  run of the module find a violation, which shows that the property it breaks
  does depend on the code being right.

## The system

| component | state | operations | talks to |
|---|---|---|---|
| `cmd/graphbuild`, `osmsource` | none kept | reads an OSM extract in two passes (ways, then the nodes they use), classifies tags, feeds the builder, writes `graph.bin` | builder, codec |
| `csr.Builder` / `graph.go` | pending edges, then the CSR arrays, `reverse`, the main component | AddNode, AddEdge, Build | osmsource |
| `csr/codec.go` | none | Write, ReadGraph, validateGraph | graphbuild, routed |
| `csr/nearest.go` | a grid of cells | NearestNode | generator |
| `csr/astar.go` | per call: scores, parents, settled, heap; shared: `exploredTotal` | FindPath, rebuild | generator, context |
| `generateloop` | per call: results slots, errgroup; shared: `dropped` | Generate → candidate (bisection) → tryLoop (waypoints) → FindPath; dedupe, ranking | network port, context |
| `httpapi/handler.go` | three counters | POST /v1/loops, GET /v1/loops/{id}[.gpx], /v1/regions, /metrics | generator |
| `httpapi/ratelimit.go` | a bounded table of token buckets | allow, a sweeping goroutine | every request |
| `cmd/routed` | the process | load, listen, drain on a signal | all of the back |
| front `resultats`, `hent-api` | the state of the search shown, its controller, a generation number | lancer, annuler, poser, reinitialiser over fetch | the API |
| front `recherche`, page *depart* | debounce timer, in-flight calls, centre and label of the start | typing, choosing, geolocating, dragging the map, naming | geocoder, map, geolocation |
| front page *detail*, *reglage*, *boucles* | the loop shown; none; none | open by link, retry; trace; list | results store |
| front `maplibre`, `assemblage`, `stockage` | what the map shows; the map's mount state; preferences | mount, style change | MapLibre, localStorage |

What is hard in it, and hard to test:

- **Concurrency on the server.** Twenty goroutines per request under a limit,
  writing in shared slots while the request's context may end at any moment; a
  rate limiter table shared by all requests and swept by a goroutine.
- **Cancellation.** It is polled by A* every 1024 settled nodes, propagates from
  the request to the group, and decides between a 504, a 500 and a lost count.
- **Asynchrony on the front.** Every await lets gestures in: answers come back
  late, in any order, after a cancellation, after the page is gone.
- **Algorithms that trust their data.** The optimality of A* rests on two
  hypotheses on the data; `rebuild` follows parents it never checks; the
  bisection assumes a monotone terrain.
- **Bounds.** The budget of A*, the table of the limiter, five iterations, the
  deduplication threshold.
- **Files and processes.** An artefact written in place by a process that may
  be killed, read by another one; an extract read three times; a server that
  keeps nothing between two requests, stopped while some are in flight.

`PROJECT.json` lists these hazards one by one with their lines.

## The modules

### AStar: one FindPath call (`csr/astar.go`)

One action per exit and per branch of the loop: the early returns in their
order, the test of the context, then a pop that is stale, or reaches the target,
or exceeds the budget, or relaxes its edges. `Annuler` may happen at any moment
in between. `rebuild` walks one edge per step. The heap is the set of its items,
any minimal one being popped. Lengths and costs are integers. `rang` and
`exploreAnnule` are history variables. The graph, the costs, the heuristic `H`
and the options are constants, so that the proofs hold for all of them.

- `ArbreParents`, `RemonteeProgresse` (proved only): the parent arrays are a
  tree and rebuild always moves to a node settled earlier, hence ends. They hold
  for every heuristic, even one that overestimates, which optimality does not
  survive.
- `CheminRendu`: the edges returned chain from the start to the target, search
  and rebuild agree on which metres are used twice and on the cost, and no walk
  of fewer edges than there are nodes, found without the search's
  own scores (`Marches`), is cheaper.
- `CertificatOptimal`: under `Consistante` (the two hypotheses of FindPath's
  comment), the final scores yield a potential that proves no path is cheaper.
- `CoupeSansIssue`: ErrNoPath comes with a closed set of settled nodes.
- `CompteJuste`: the budget is exceeded by one node at most, a cancellation
  costs at most one interval, the counter counts each settled node once on every
  exit.
- `Termine`: the call returns (weak fairness of the goroutine).

Bounds: 6 nodes (two parallel segments, a diagonal, a dead end of length 0, an
island), 14 edges, every pair of ends and one out of range, six sets of used
edges, budgets 0 (default), 2 and 3, reuse factors 0 and 4, two weights, an
interval of 2. It meets ties, superseded items, improved nodes and each exit.

### Generateur, Boucle, Direction: one Generate call

`Generateur` has an action per step of Generate and of each goroutine. What a
direction comes to is a function of the request, since the angles are seeded by
it: the variable `terrain` says how many FindPath calls the direction makes and
whether it has a loop. Contexts are external: the request's ends at any moment,
the group's follows. The threshold comparison and the greedy, first-come order
of `dedupe`, the order and the cut are kept.

- `ReponseComplete`: whatever the interleaving, an answer is made of every
  direction that has a loop, or is no answer. This is what lets a link be
  replayed and an answer be cached.
- `PertesJustes`: `dropped` counts the directions without a loop, not the ones
  the context cut. `ErreurDuContexte`: the error is that of the request.
  `AucunOrphelin` (proved only): no goroutine survives. `PropositionsDistinctes`: the loops
  are pairwise distinct, ranked, and nothing better was left out.
- `Termine` under weak fairness of Generate and of each goroutine. The context
  is not assumed to end.

Bounds: four directions, two goroutines at a time, four terrains chosen to meet
an overlap of exactly the threshold, a double of a double, directions that fail,
and empty loops.

`Boucle` glues the paths of tryLoop. FindPath is any simple path (what AStar
establishes), NearestNode any node or none. `Direction` extends it with
candidate: tries of tryLoop, each from nothing, and the bisection between them,
in units of 1/160, where the code's midpoints are exact.

- `BoucleJuste`: at any point of any try, nodes and edges describe one walk
  from the start, closed when the try succeeds, and RetracedM is exactly the
  length walked beyond one passage of each segment, in either direction.
- `BissectionJuste` is two: `Encadrement`, the bounds bracket every try, the next
  one is between them, and no factor is tried twice; and `Converge`, a history
  variable keeping the terrain factors that explain the tries to within `Bruit`,
  five iterations never give up on a terrain that has one, from the default
  tolerance on.

Run `direction`, bounds: a triangle with a double segment (the least network
where a loop may close, be walked back, and where two edges join the same
nodes), three waypoints, the constants of the bisection as they are, a distance
of 20 and a tolerance of a tenth, so that tries come out too short, right and
too long, measures off by up to 4/160 of a factor.

### Limiteur: the rate limiter (`httpapi/ratelimit.go`)

`Limiteur` models the table, allow and cleanup in discrete time; a bucket is
counted in instants. `rate.Limiter` and the clock are external.
`TableTenue`: the table is bounded, and nothing stays in it longer than two
periods of the sweep, so that a full one has room again. `RetryAfterTenu`: a
tracked client that waits one second has a token. An address refused because
the table is full is told the same Retry-After, which the code does not keep to:
room comes with the next sweep, and the property leaves that case out.
`LimiteurAbstrait` is the promise: one everlasting token bucket per address, that
refuses when short of a token or when there is no room for a newcomer.
`ImplementeAbstrait` is the refinement: evicting an idle address must give it
nothing back, which needs `TTLAssumption` (ten minutes idle fill any bucket; the
code's constants satisfy it with a wide margin). `LimiteurFenetre` observes a
window opened at any instant: `DebitBorne` bounds what a directly connected
client gets in it, whatever headers it sends.

Run `limiteur`, bounds: three addresses, one of them a trusted proxy, a table of
two, buckets of two tokens, a token per instant, a sweep every 2 instants (the
least that TTLAssumption allows), 7 instants: three sweeps, an eviction followed
by a return, a window over both. Fractions of a token and wider sweeps are in
the theorems, which hold for every value of the constants.

### Resultats, Detail, Ecrans: what the screens show

`Resultats` is the store of results over the HTTP engine: an action per gesture
and per continuation. A search is a fetch, then a body being read, then the end
of `lancer`. `Detail` is the effect of the page `/b/[id]`: its run, its teardown,
retries, and the continuations of the calls of earlier runs, which `silencieux`
gathers when annulee is set. The event loop makes each of them atomic.

`Ecrans` composes the two: the answer to a link poses the loop in the store
(which aborts and outdates the search in flight), and the effect looks for its
loop in the store first. A search may be launched, cancelled or answered from
any page, since the store outlives the pages.

- `DernierSeulEcrit`: only the last search or gesture writes. `RienEnVain`:
  whatever is replaced is aborted, so that the server does not compute for
  nobody, and "calcul" is shown only while a search that annuler can abort is in
  flight.
- `EcranDeLId`: the page shows the loop, or the error, of its address.
- `BoucleRetrouvee`: a loop posed by the page is in the store when the page
  looks again, whatever search was in flight: reload, retry and going back do
  not ask for it again.
- `AttentesBornees`: both waits end. Fairness: a fetch settles and a body ends.
  The server gives its handlers 5 s and its writes 30 s, and fetch rejects when
  a connection breaks; nothing is assumed of the person.

Bounds: two generations of searches and two loops: one search replaced by
another, one loop replaced by another and opened again. Three generations also
pass, for the invariants; the liveness check then takes minutes.

### Depart, Recherche, PageDepart: the page of the start

`Depart`: the page (`depart/+page.svelte`) retains a centre, a label and the
order it gave the map; the map (`maplibre.ts`) has a view and the target of its
animation; names and positions come back late. An action per handler, plus those
of the map (`FinAnimation`, `Bouger`, `Glisser`), of the geocoder and of the
geolocation, which are external. A name is the point it names. Answers may come
after the page is left (`PositionOrpheline`).

`Recherche` is `recherche.svelte.ts`: a keystroke stops the timer and the call of
the former one; the timer fires; the call answers, fails or is aborted, late. A
text is the number of its keystroke.

`PageDepart` composes the two, as the page does: the text of its field, which
goes with the page, over the list, which the application keeps; a place is
chosen from the list, which closes it and moves the map.

- `CentreSousLeReticule`: a map at rest shows the centre that would be set,
  whatever gestures, orders and interrupted animations have crossed.
- `NomTenu`: at rest the label is that of the centre, or its naming is under
  way. `perime` marks the two excused cases its comment names.
- `DernierEcrit`: only the last text writes. `AttenteVivante`: a wait has a
  timer or a live call behind it.
- `ListeDuChamp`: a field emptied by a choice or by Escape leaves nothing shown
  and nothing to come, neither a timer nor a call that was not told to stop;
  under a text, what is shown is what that text found, or its search is on its
  way. Until then the places of an older text may stay, which the code intends;
  when that text had found none, the page does name the new text in "Aucun lieu
  trouvé" before it is searched, and the property allows it. Excused
  (`revenue`): a page that was left. The program does keep the list then, and
  shows it again under an empty field.
- `PageArrive`: when gestures cease the label ends up that of the centre, when
  typing does the list ends up that of the last text, and neither side holds the
  other back.

Run `page_depart`, bounds: two points, one outside the region, one geolocation
under way, two keystrokes or erasures: one text replaced by another, or erased,
with the call of the first one in flight. `PageDepartPreuve` proves the
invariants of the three modules for any points, any number of positions under
way and of keystrokes. Fairness, weak, one
condition for each side: if effects, animations and calls of the map's side can
go on, one of them does; and so for the timer and the calls of the list. Nothing
is assumed of the person.

### Construction, Proche: the graph and how a point is anchored to it

`Construction` is Builder.Build: the stable sort and its arrays in one action,
then union-find with an action per find step and per union. `Proche` extends it
with NearestNode on the graph that was built, an action per ring. Points are
integers in cells of side `cote`, and the distance weighs longitude and latitude
differently, as cells in degrees do.

- `GrapheFidele`: the CSR arrays are the segments that were added and Reverse
  pairs the two directions of each, double segments and loops included.
- `NonPiege`: the main component is a connected set, closed, as large as any; a
  node is found exactly when it has one in the rings, and a search is never
  anchored to a stretch cut from the rest.
- `ErreurBornee`: the node found is not always the nearest (see below), but its
  distance is at most that of the nearest in the rings times the diagonal of a
  cell over its shorter side.
- `Reponse`: Build and NearestNode return, under weak fairness of their steps.

Run `reseau`: every graph of up to four nodes and three segments (up to the
direction in which a segment is added), which has chains, stars, triangles,
doubles, loops, ties between components, and the empty graph. Up to two nodes
stand anywhere at the edges of the cells of three rings; more of them, in two
places, the first hit not being the nearest. Cells of side 4, weights 2 and 3,
two rings.

### Lecture, Artefact, Cout, Fabrique: from the extract to the graph served

`Lecture` is osmsource: Classify over the tags that tell ways apart, scanWays,
scanNodes, assemble segment by segment through NodeRefs, AddNode and AddEdge.
Each pass opens the file again, the first one reads it way by way, `Remplacer`
may change it at any moment, under a pass too, and a pass may fail. `Artefact` is codec.go: a file is a sequence of words, in the order
of Write (the provenance is one word, attributes are packed and the bits of the
main component come in bytes); ReadGraph reads them one by one, while anyone may
rewrite the file, then validateGraph compares what it compares, the offsets one
by one.
`Cout` is the cost of an edge, NaN included, in fixed point. `Fabrique` composes
them: `graphbuild` reads, hashes the extract, creates the artefact, writes it
word by word and may be killed at any step (`Tomber`); `routed` opens, reads,
refuses or serves, and stops; the disk may damage one word (`Degrader`).

- `ContratTenu`: the builder that osmsource fills keeps what Build relies on
  (edges by opposite pairs, ends that exist), whatever was replaced in between:
  the assumption of `Construction`.
- `ProvenanceJuste`: an artefact written to its end holds the nodes and the
  segments of the extract its hash names, both ways, each the reverse of the
  other, and nothing else, provided that the file did not change meanwhile.
  Nothing in the code notices when it does.
- `ServiEntier`: what is served was written to its end by one build, never a
  prefix nor pieces of two, unless a build ran under the reading or the disk
  failed. A build that runs under a reading can leave pieces of two: the caps
  and the end of file are all that ReadGraph has against it.
- `ServiSur`: damaged or mixed, a graph that is served never leads EdgeRange,
  Target or Reverse out of the slices.
- `CoutAdmissible`: on any graph served, for any preference, no edge costs less
  than its length: the hypothesis of A*. The sign of a damaged length is not
  looked at by the code, and is the one thing trusted here.

Run `artefact`, bounds: two versions of an extract (ways that leave it, repeat a
node, come back over themselves or may not be walked; in the second one a way is
longer and a node has moved), one replacement, two runs of graphbuild, routed
started and stopped at any step, one damaged word (zero, or an edge of negative
length), after the last build. Every prefix of every artefact and every position
of the damage are met.

### Service: the handlers and the process (`handler.go`, `routed`)

Requests come to a process that starts on the artefact of the disk, listens or
fails to, is signalled, drains, ends, crashes and starts again, possibly on a
later artefact. An action per await of the handlers: a body that comes, late, or
is cut; Generate, which comes to what the artefact and the request determine
(`Monde`, what `ReponseComplete` establishes) or to the error of its context;
the answer, which goes out, or not if WriteTimeout is past. An id is the record
it encodes. Regions, metrics and healthz change nothing.

- `IdRejouable`: replayed on the artefact it was issued on, by the same process
  or the next, an id gives that very loop, or a 404 if its own deadline passed.
  This is why encodeID must carry all that seedOf hashes.
- `ReponseJuste`: who still waits gets the status of its request, by either
  road; what is out of bounds never reaches Generate. A get whose deadline
  passed is answered 404, like a loop that does not exist: the model states what
  getLoop does, and the front then says that the loop does not exist where a retry would find it.
- `AucuneCoupee`: Shutdown cuts only requests whose body came less than a
  requestTTL before its own deadline, and WriteTimeout mutes only those whose
  body took nearly as long as it.
- `FinApresSignal`: a signal ends the process, though the listener failed or a
  client never sends its body. Without a signal, a process that failed to listen
  stays, deaf: the code logs the failure and waits.

Run `service`, bounds: two requests, posts or gets, in flight together or not;
four demands (one that has loops, one that has another or none, one out of the
zone, one out of bounds) and a body that does not decode; five ids, one of
negative rank; two artefacts, two starts. In ticks requestTTL is 1 and the grace
of Shutdown 2, as 5 s is to 10 s; WriteTimeout is 3 where the code's 30 s would
be 6: it still exceeds both, and what depends on it is only whether a body comes
less than a requestTTL before it. Fairness: the
process and its handlers go on, time passes (a tick of it only when nothing is
due), and nothing of the clients, nor of the listener.

## What the program does not do as it says

- `resultats_annuler`: `erreurDe` (hent-api.ts:87) swallows the AbortError of a
  cancellation that comes while the body of an error answer is read. The person
  who clicks "Annuler" gets an error screen, which the comments of hent-api.ts
  (97-99) and resultats.svelte.ts (43-44) exclude.
- `depart_nom`: choosing a place does not abort the naming of the centre under
  way (depart/+page.svelte:103); its answer, when it comes, gives the chosen
  place the name of the one that was left, which the comment of nommer (36-38)
  excludes, and `partir` keeps it.
- `proche_faux`: NearestNode says it returns the nearest node (nearest.go:34)
  and explores one more ring for it (55-57). A first hit in the far corner of
  its cell is farther than a node two rings away across the short side of the
  cells, and the search stops before it. `ErreurBornee` says by how much.

Met while modelling, and no contradiction of a text of the repository, so
stated above rather than as findings: the list of places found again under an
empty field; a get that answers 404 for a deadline; the deaf process; the
artefact mixed by a build under a reading; the length of a damaged edge, which
nothing checks.

## What is proved

See "theorems" in `PROJECT.json`: every safety property and every action
property of the passing runs, and the refinement of the limiter, for every value
of the constants. The argument of each component is an inductive invariant
`IInv`, defined in the component's module (it was checked by TLC before it was
proved):

- **AStar.** `InvFile` (every open node is in the queue at its present score and
  no item is a bargain) and `InvFront` (settled nodes are expanded, and none has
  an f above the queue's) give `InvBut` when the target is popped, hence
  `CertificatOptimal`. `InvArbre` alone gives the tree. `CoupeSansIssue` comes
  from `InvFront` with an empty queue. `CompteJuste` adds `InvCompte`: between
  the cancellation and the last node settled there is no multiple of
  CtxCheckInterval, but where the search is about to look at its context.
  `CheminRendu` adds `InvRemontee`: what rebuild has collected is what separates
  the scores of its cursor and of the target, so that, back at the start, the
  path costs its score. That no walk costs less follows from the potential of
  `CertificatOptimal`, one edge of `Marches` after the other; `InvRang` bounds
  the edges of the path by the nodes that were settled.
- **Limiteur.** An untracked address is abstractly full; a pass only evicts
  addresses idle for more than IdleTTL, which are full too. `TableTenue` adds
  `InvPassage`: a sweep that is done has left only what was seen since the one
  before it, and the next comes one IdleTTL later. `DebitCorrect` adds
  an accounting invariant: what was admitted in the window plus what is left in
  the bucket is at most the burst and the time elapsed.
- **Generateur.** As long as no error was recorded, a finished direction is in
  `found` or counted in `dropped`; an error is always the group's, which is the
  request's. `DistinctesCorrectes` adds to this what dedupe and the sort make of
  any sequence of loops: the loops to keep exist and are unique (`Gardees`, by
  their ranks), one that is dropped doubles one kept before it, sorting permutes
  them and cutting takes the first ones.
- **Boucle, Direction** (`GenerateurPreuve`). `Marche`: the walk ends where
  tryLoop stands and `used` holds its edges, so that what appendSegment adds to
  RetracedM is the segments that were covered already. `Largeur`: the next
  factor is as far from both bounds as the corrections to come will halve, hence
  `Encadrement`. `IInvConverge`: what separates the bounds halves from the first
  correction on (`Resserree`), and a terrain that explains the tries lies, up to
  the noise, a tenth beyond each bound that has moved (`Expliquee`); with
  `FinesseAssumption`, which says how fine the constants of the code are, no
  room is left for one after the last correction.
- **Ecrans** (`EcransPreuve`, about Resultats and Detail too). Store: at most
  one controller is not aborted; it is the current one, of the current
  generation, and "calcul" is shown exactly then. Page: the one call that is not
  silenced is that of the address, and the wait is shown exactly while it runs.
  `Composition`: a step of the screens is a step or a stutter of each, so both
  invariants carry over. `BoucleCorrecte`: what is needed on top of them is that
  posing a loop makes the generation move.
- **Recherche** (`PageDepartPreuve`). The live call, if any, is the one in
  `enCours`, of the last generation; the timer and the live call exclude each
  other.
- **Page of the start** (`PageDepartPreuve`). `IInvDepart`: an order not heard
  yet is for the centre; the one naming that is not aborted is the current one;
  the label, or the naming under way, is that of the centre, unless the map goes
  to a place named in advance, whose arrival will be heard as a gesture and
  named. It is proved of what a movement of the map makes of a page, whatever
  animation it interrupts and wherever, then of each handler. `IInvTexte`: the
  last text has written, is awaited by the timer or is called for; once the
  field is emptied no timer is armed and no call is the last one. A step of
  the page is a step or a stutter of Depart and of Recherche.
- **Construction, Proche** (`ConstructionPreuve`). The rank of an edge in the
  sort is a permutation (from cardinalities of the sets of edges before it),
  hence `GrapheCorrect`. Links climb in size, whatever half-hops are taken.
  `Foret`: there is a function `r` that tells the root each find ends at; a root
  carries the size of its tree, the edges united so far join trees, and no tree
  joins what these edges do not; halving a path leaves `r` as it is and a union
  changes it on one tree. Hence `ComposantePrincipale`, which with `InvAnneaux`
  (while nothing is found the main component is beyond the rings swept, and what
  is found is in it) is `NonPiege`. `InvMeilleur`: nothing swept is nearer than
  what is found; what is not swept is a ring away, hence `ErreurBornee`.
- **Artefact** (`FabriquePreuve`). The proof of `ServiSurCorrect` lets the file
  be any sequence of words at any moment (`Environnement`), so that it covers
  every build, crash and damage: `IInvArtefact` says that what was read is a
  sequence of the length announced, that the offsets compared so far are in
  order, and that once served the last one is the number of edges and every
  target and reverse is in range. `CoutCorrect` then needs only that clamp01
  gives a number of [0, 1].
- **Fabrique** (`FabriquePreuve`). `ContratCorrect`: each turn of assemble adds
  edges by opposite pairs between NodeRefs the builder has already given.
  `IInvFabrique`: what Write makes of a builder is a whole artefact, and on a
  sound disk the only whole artefacts, whole prefixes of a longer file included,
  are those graphbuild has finished; the length that is announced is what keeps
  a prefix from being one. Hence `ServiEntier`. `IInvProvenance`: as long as a
  build has read one version only, the ways kept are those of the file one for
  one (`Gardees`), the nodes met have their NodeRefs and each useful pair of
  consecutive nodes has made one segment (`Assemblable`). What is hashed is then
  the network of that version: the edges of the words are those of the builder
  by `order`, a permutation, whose `reverse` is the twin of the segment, and a
  word that was packed is told back. Hence `ProvenanceJuste`.
- **Service** (`ServicePreuve`). `Tenue`: a request that Generate serves was
  found valid, its wait is bounded by requestTTL, and its age and the grace of
  Shutdown went by with that wait since its body came. `Emise`: an id that was
  issued is valid and names a loop of the artefact it was issued on. With what
  each step does, `IdRejouable`, `ReponseJuste` and `AucuneCoupee` follow.

Assumptions are the named ASSUMEs of the modules; TLC evaluates them in the
runs. `FinesseAssumption` is about constants of the code only, but for `Bruit`.

Not proved, only checked: what must happen in the end (`Termine` of AStar and of
Generateur, `AttentesBornees`, `PageArrive`, `Reponse`, `FinApresSignal`), since
the prover does not do liveness under fairness. What stands under each of them
and is safety is proved: a settled node is counted once, the wait is shown
exactly while its call runs, links climb in size. The three runs that find a
violation show what a comment says and the program does not do.

The prover takes no induction principle over an operator, so an induction over
the data (the ranks of dedupe, the edges of a walk, the powers of `Moities`, a
sum over a path) is written as a least counterexample: the set of the naturals
that refute the statement would have a least element, whose predecessor does not
refute it.

## What could come next

- Models: the redirections of *reglage* and *boucles* over Ecrans, with the
  history of the router; the mounting of the map around the import that
  monterCarte awaits.
- Proofs: that Fabrique implements an abstract store of whole artefacts, and
  Resultats one search at a time.

## What is not modelled, and what would make it correct

| part | why not, yet or at all | what correct means |
|---|---|---|
| redirections, countdown of EtatEcran, shell, storage | they depend on the router's history and on Svelte's mounts, outside this repository | one page wins; the settings read are the settings written, or the defaults |
| mounting of the map, layers, styles | calls of MapLibre and of the DOM; mounting reads `isConnected` after its import | what is shown is what was last asked, across a style change |
| geometry, score | floating-point functions without state | a metre costs at least 1, a length is at least the chord: `Consistante` states both |
| GPX, formats, domain of the front, components, design, deployment | formatting and presentation | no state of the program depends on them |

