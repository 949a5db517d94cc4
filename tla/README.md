# Verification of smaroute

TLA+ models of smaroute (`bioroute`: route choice sampling; `pmm`: probabilistic
map matching), checked with TLC, with proofs checked by TLAPS. Paths below are
relative to the repository; its code is in `src/src/`.

## 1. The system

| Part | State | Operations | Interacts with |
|---|---|---|---|
| **Router, label setting** (`Router/patRouter`, `patShortestPathTreeGeneral`, `patLinkCostExcludingNodes`) | labels, predecessors, the ordered set of open nodes, targets left, position in the ordered nodes | `treeCost`, `costWithoutExcludedNodes2`, `fwdCost`, `bwdCost`, `getShortestPathTo` | called by every proposal, the reducer, the generators |
| **Router, label correcting** (`Router/patShortestPathGeneral`) | a tree and a deque | `buildShortestPathTree` | called by map matching for each measurement |
| **Costs, path size** (`patLinkAndPathCost`, `patPathSizeComputer`) | none | arithmetic | |
| **Reduction, compression** (`Router/patNetworkReducer`, `NetworkHandler/patNetworkCompresser`, `patCompressedArc`, `patNetworkBase`) | the incidents of a network | `reduce`, `compress`, `walk`, `checkNodeStatus`, `removeNode`, `recoverPath` | called by `MHPathGenerator::run` before it samples |
| **Paths** (`patArcSequence`, `patMultiModalPath`) | a list of roads, an arc string | append, sub-path, loop test, comparison | everywhere |
| **Network construction** (`NetworkHandler/patNetworkEnvironment`, `patNetworkElements`, `patWay`, `patNetworkCar`, `patNetworkWalk`, `patNetworkBus`, `patNetworkPublicTransport`, ...) | arcs, nodes with names; per mode a network, its stops and the segments of its lines | the constructor, `getFromNetwork`, `getRoute`, `summarizeMembership`, `walkFromToStops` | read by every program; map matching uses one network per mode |
| **Metropolis-Hastings** (`MetropolisHasting/MHAlgorithm.h`) | current state, proposal, iteration | `run`: propose, accept or reject, process | proposal, weight, state processors |
| **Path proposals** (`PathGeneration/MetropolishHastings/MHPath`, `MHPathProposal`, `MHPoints`, `MHNIPPG`) | a path, points A, B, C, a cache, insertion probabilities | splice, shuffle, `isSpliceable`, `transitionLogProb`, `insertDetour` | the router, twice per splice |
| **Path generator** (`MHPathGenerator`, `patPathGenerator`) | network, sample counts, writer, the pointer to a calculator | `run`, `clone` | all of the above |
| **Sampling weights** (`MHPathSimWeight`, `MHSamplingWeightFunction`, ...) | none | floating point likelihoods | |
| **Writers** (`patChoiceSetWriter`, `patObservationWritter`, `patKMLPathWriter`) | a count, the document | `processState`, `end`, `close` | files, the stop file |
| **Parallel experiments** (`RouteChoice/patExperimentBed`, `patSampleChoiceSetForObservations`, `patObservation`) | OpenMP loops over clones | sampling a choice set per observation, simulating observations | shared calculator, `rand()`, files, `exit` |
| **Random walk generator** (`RWPathGenerator`) | a walk, a tree | `sampleOnePath`, `calculatePathLogWeight` | router |
| **Enumeration** (`patEnumeratePaths`) | a stack, a path | depth first search | |
| **Map matching** (`MapMatching/patProbabilisticMapMatching`, `patMapMatchingIteration`, `patPathExtension`, `patMultiModalPathMatching`, `patMeasurementDDR`, `patGps*`) | candidate paths, each with one numerator per point and the roads and points still to be taken in; points matched, points put aside; a domain per point | `run`, `firstIteration`, `normalIteration`, `extend`, `update`, `selectPaths`, `dealInterData` | the networks of all modes, the label correcting search |
| **Observations, choice models** (KML, Biogeme) | | conversion | |
| **Mathematics, utilities, programs** | | | |

`Unimodal` and `DeterministicMapMatching` are not part of the build.

**How the parts interact.** A program reads a network and observations, makes
one `MHPathGenerator`, and starts an OpenMP loop. Each iteration clones the
generator and calls `run`: shortest path, reduction, compression, the shortest
path again, insertion probabilities (through a calculator which all clones
share), the start path found again in the reduced network, then the chain. At
each step of the chain a proposal asks the router for two segments and twice
whether a segment is a shortest path, and the writer keeps some of the states.
A file named `stop` ends the process from whichever chain sees it.

The other program, `pmm`, builds the networks of all modes and reads a trip of
GPS points. `run` matches one point after another: candidates that end in the
domain of the new point stay, and from the end of every candidate a label
correcting search in each mode's network leads to the roads of the domain; what
is found is appended to copies of the candidates, their likelihoods are brought
up to date, and some are selected. A point with which this fails is put aside,
for a later one to look at again. At the end paths are written to two files.

**What is hard.** The algorithms are correct by arguments that are nowhere
tested: ties and relabelling in an ordered set; a verdict given while a tree
grows; a cache that a long sequence of moves must keep fresh; probabilities of
moves that the code computes apart from the code that makes the moves; paths
compared arc for arc across a compression. Map matching is sequential, but its
state is spread: candidates hold pointers to shared points, points are pushed
to the running sequence and popped from it, or put aside; five functions fill a
domain, each its own way; likelihoods are sums brought up to date piece by piece;
and an update may give up half way. The parallel part has a data race,
shared files, `exit` in the middle, and a second run of the program that skips
what is there. `PROJECT.json` lists these hazards at their lines.

**What makes each part correct.**

- Router: settled labels are optimal and final, predecessors form a tree,
  excluded nodes stay out, the verdict on the fly is the one on the finished
  tree, every search ends.
- Label correcting search: predecessors lead to a root, nothing beyond the
  ceiling is collected, nothing within it is missed, it ends.
- Reduction and compression: same shortest path, same costs for the nodes that
  are kept, no trip within the cut-off lost or invented, every path recovered.
- Proposals: paths stay sound; recorded probabilities are those of the moves;
  every move can be undone; the cache is fresh; nothing throws.
- Parallel sampling: every job its own parameters and files, exactly the samples
  asked for, complete files after a stop, termination.
- Random walk: the probability of a path is the one it was drawn with; a walk is
  never lost.
- Network construction: lines begin and end at stops whatever is wrong with the
  relations they are read from, and can be ridden all the way between their stops.
- Map matching: candidates can be travelled; what they account for is what was
  matched, in order, and is written so; likelihoods do not depend on the way a
  candidate grew; a domain is the same whoever filled it.
- Enumeration: in the plan below.

## 2. Modules

| Module | Models | Runs |
|---|---|---|
| `Router` | network, costs, one iteration of `treeCost`, the tree as a function, the reference `Distances` | used by all below |
| `ShortestPathTree` | one search of `patRouter` | `shortest_path_tree` |
| `Router_proofs`, `LeastNumber` | lemmas about the router's operators; least numbers | |
| `ShortestPathTree_proofs` | theorems about `ShortestPathTree` | |
| `MHPathSampler` | `MHAlgorithm`, `MHPathProposal`, `MHPath` | `mh_path_sampler`, `mh_shuffle_comment` |
| `MHPathSampler_proofs` | its theorems | |
| `DomainSearch` | `patShortestPathGeneral` | `domain_search`, `domain_limit` |
| `DomainSearch_proofs` | its theorems | |
| `NetworkReduction` | the steps of `MHPathGenerator::run` before the chain | `network_reduction`, `recover_trigger` |
| `RandomWalk` | `RWPathGenerator`: one path | `random_walk` |
| `RandomWalk_proofs` | its theorems | |
| `ParallelSampling` | the OpenMP loops, clones, calculator, writers, stop file | `parallel_sampling`, `parallel_params` |
| `ParallelSampling_proofs` | its theorems | |
| `TransportNetworks` | the constructor of `patNetworkEnvironment` and the networks it builds | with `MapMatching` |
| `MapMatching` | `patProbabilisticMapMatching::run` on those networks | `map_matching`, `map_matching_same_time` |
| `MapMatching_proofs` | theorems about `TransportNetworks` and `MapMatching` | |

An `MC` module of the same name gives the constants of the runs. `Router` is extended by `ShortestPathTree` and `RandomWalk`, and instantiated
by `NetworkReduction` on each network of a preparation, and by
`MCMHPathSampler` to compute the routes which `MHPathSampler` takes as given.
`MapMatching` extends `TransportNetworks`: its program builds the networks first.
Definitions ending in `_Wrong` are plausible mistakes, one for each property,
to show that the property notices; no specification uses them.

### Router and ShortestPathTree

The code keeps its open nodes in a `std::set` ordered by label, then address.
Nodes and roads are numbers that stand for addresses, so all ties are broken as
in the code. `label`, `pred`, `list_of_nodes`, `targets_left`, `visited` are
`m_labels`, `m_predecessors`, the set, the targets and `visited_sp_iter`.
`Begin` and `Refuse` are the entry; one iteration of the loop is `Expand`,
`Throw` (a negative cycle, `at` out of range) or `Break` (an ordered node out of
order); `Finish` is what follows the loop. The inner loop over the roads of a
node is folded into one step: `Improving`, `Cheapest` say what it leaves behind.
`Throw` drops the labels given in the iteration that throws, which nobody reads.
Costs are natural numbers; `DBL_MAX` is the label of a node without one.

### MHPathSampler

A state of the chain is the path (its nodes), A, B, C and `m_spliceable`.
`Start` is `newInitialState`; `Splice` and `Shuffle` are the branches of
`newTransition`, with both probabilities recorded in `Transition` the way the
end of that function calls `transitionLogProb`, the cache included; `Accept` and
`Reject` are the two outcomes in `MHAlgorithm::run`. Abstractions:

- Node sequences stand for paths: of parallel roads a search keeps the cheapest,
  so the nodes determine the roads.
- `FwdRoute` and `BwdRoute` are constants with an assumption (`Routing`): what
  `ShortestPathTree` and its theorems say of a search. The MC module computes
  them with `Router`.
- Weights are arbitrary, so a proposal may always be accepted or rejected, and
  the number of iterations is arbitrary (`End`).
- `weights` are the insertion weights the chain was started with: those of the
  trip, or those of another one (`ForeignWeight`), which the race on the shared
  calculator can leave behind. `RecordedProper` is claimed with the trip's own
  weights, everything else with both. The trip's own are given to every node that
  the trees from both ends reach (`ReachAssumption`, after `MHNIPPG::calculate`).
- Logarithms of probabilities are exact fractions. `transitionLogProb` looks up
  B without testing that it has a probability; `Weight` gives 0 then, which
  stands for whatever is read, and `RecordedProper` says it never happens.

### DomainSearch

The roots are a sequence, in whose order the code enters them; `list_of_nodes`
is the deque with its repetitions. `Take` and `Limit` take a
node; `See` and `Correct` treat one road, in the order of addresses; `Finish` is
the end. Labels and predecessors are those of the code between any two roads.

### NetworkReduction

A network maps addresses to roads and a road is the sequence of original arcs
it is made of, which is what the code compares. `FirstRoute`, `Reduce`,
`Compress`, `Compare`, `Recover` are the stages of `run`. `Chains` are the walks
of `patNetworkCompressor::walk` and `Pieces` what becomes of one: its last road
stays a road of its own. `Recovered` is `recoverPath` with its gathered arcs.
The expansion factor is a fraction and `maxCost` is rounded down, which decides
the same for costs that are whole numbers. Destinations are reachable. Other
nodes, and dead ends, are as they come.

### RandomWalk

`Grow` is the search back from the destination, which is `TreeCost` of `Router` without a
target: it ends when nothing is open.
`End`, `DrawStop` and `DrawGoOn` are what the loop of `sampleOnePath` does at the
destination, `Walk` the draw of a road, `Throw` its exceptions and those of
`getOutgoingArcProbas`. A logarithm of a product is the bag of its factors, and
each factor an exact fraction: `smallest_kuma`, which only keeps `exp` in range,
cancels, and `m_kumaA` is a natural number. Two sums are compared as bags,
which is stricter than as numbers. Parallel roads count: the path is a
sequence of roads.

### ParallelSampling

Each thread takes jobs: `SetParams`, `ReadRouter`, `ReadWeight` are the
accesses to the shared calculator; `Process` and `Stop` the writer's
`processState` without and with a stop file; `End`, `Close`, `Write` the end of
a chain. `Crash` is an exception of `run`, or what a dangling pointer does: it
leaves the parallel region, so the process terminates. `Restart` runs the
program again. Any idle thread may take any job left, a superset of what
OpenMP's static schedule does, and also of the case that OpenMP gives fewer
threads than asked for. A job of the observation writer is a block of samples;
a job of the choice set writer is an observation with one trip. The stages of
`NetworkReduction` are thread-local and come before `SetParams`; the paths are
those of `MHPathSampler`, and only their count matters here.

### TransportNetworks and MapMatching

`TransportNetworks` follows the constructor: `stage` is the network it is at,
and `ReadRoads`, `ReadRelation` (one relation of `getRoutes`), `Summarize` and
`Access` are what it does there; `Skip` passes over a mode that is not enabled.
`FindStopsIncomingLinks` and `SegmentsFrom` are `findStopsIncomingLinks` and
`getSegFromNode`, with the names that stops are moved by and known by: `RoutesFrom`
follows the arcs, `Halts` are those that arrive at a stop. What the
database and the geometry say (the ways, which stop is beside which arc and how
far, which nodes are near) is the `Extract`. `SegmentsFrom` stops at the first
stop: the code goes on behind it, without effect, as its comment explains. An
arc is a pair of nodes.

`MapMatching` continues when the networks are ready. `ReadFromFile` reads the
trip; `FirstIteration`, `TooNear`, `NotExtended` and `Extended` are the branches
of an iteration of `run`, the last three those of `normalIteration`; `GiveUp`,
`PutAside` and `LastIterationForLowSpeed` what `run` does with one that failed.
`paths` are `m_paths`, `running` is `m_running_measurement_sequence`, `inter` is
`inter_data`, `valid` is `valid_iteration`, `ddr` the domains. A candidate has
`roads`, `down` (`m_downstream`), `seq`, `fresh` (`m_new_measurements`) and `num`
(the numerators). `Search` is the search of `DomainSearch`, a node a round, in one
step; `Update` is `update` with `updatePoint` and `updateFirstPoint`;
`SelectPaths` gives all outcomes of `selectPaths`. Loops over nodes and networks go in
the order of their numbers (`InOrder`), with the body of each a definition of its own:
`See`, `Expand`, `Extend`, `Leave`, `FindStop`. Abstractions:

- Densities are positive: a numerator is the bag of the pairs of roads summed up,
  and a candidate is possible when none of its bags is empty.
- Denominators are left out: they read what `getArcDDRValue` does not return.
- Each road is one arc. Candidates of the same arcs in different modes are equal in
  the code, and which one is kept is the order of addresses: any one here.
- Points are GPS points in the order of time; each lists its domain with and without
  its heading, its place and its speed.
- Whether a network is too fast for a pedestrian or a bike is asked of the previous
  point as well (`speedCapacityCheckPrevious`), and paths are selected by number.
  Draws are any outcome that is possible.
- Stop times (`proposeStop`), which the drawing of a path and the traffic model read,
  and the network of trains, which reads no relations any more, are left out.

## 3. Runs

| Run | Bounds | Shows |
|---|---|---|
| `shortest_path_tree` | 4 nodes, 8 roads with a parallel pair, a two-way pair and a way back; costs 0 to 3; all simple segments, both directions, excluded sets (17,360 states) | every property below; 4 nodes are the fewest in which an open node is relabelled, ties with another and decides a verdict |
| `mh_path_sampler` | 7 nodes, 15 roads, two rows with crossings, a spur to turn back from, a direct road; the trip's own weights and those of another (7,806 states, all there are) | paths sound, cache fresh, reversible, probabilities exact, also with what the race of `parallel_params` leaves behind; splices that detour, loop and fail all occur |
| `mh_shuffle_comment` | the same | violation, see findings |
| `domain_search` | 4 nodes, 8 roads, 24 length patterns, 3 sets of roots, 2 domains, 4 ceilings (7,200 states) | labels corrected after use, nodes twice in the deque, searches stopped by the ceiling |
| `domain_limit` | the same | violation, see findings |
| `network_reduction` | 7 nodes: a two-way street of three intermediate nodes, a row tied with it, joins and dead ends; with cut-off, compression or both (450 states) | same route, same labels, same trips |
| `recover_trigger` | the street alone | violation, see findings |
| `random_walk` | 7 nodes, 12 roads, 8 costs, 16 trips, walks of up to `MaxRoads` = 7 roads (19,264 states): enough to pass the destination twice and stop at the third time | probabilities reproduced, walks lost only where nothing leads back |
| `parallel_sampling` | 2 threads, 3 jobs, 1 to 2 samples, intervals 1 and 2, warm-up 0 and 1, one restart (1.5 million states): the two intervals are those with and without an extra sample | file numbers, sample counts, files on disk, termination |
| `parallel_params` | 2 threads, 3 jobs | violation, see findings |
| `map_matching` | 8 nodes: a street with a way round it, and a circle line of the metro with three stops, or a bus with a stop beside the road; 6 kinds of points, trips of 4 points every 10 s and of 3 with two at one time; 2 failures in a row instead of 20, gaps of 2 arcs instead of 5 (14,848 states) | every property below; candidates inherited, extended, changing to the metro and back, turned back, looped and dropped, points put aside, found again or lost to the last point, trips given up |
| `map_matching_same_time` | the same | violation, see findings |

The properties, by what could go wrong:

- **`SettledOptimal`, `SettledStays`, `TreeOfLabels`, `ForbiddenUnlabelled`**: a
  search stopped at its target is read as if it were complete.
- **`VerdictIsTreePath`, `SegmentCheckNeverThrows`**: `checkSpliceable` trusts a
  verdict taken while the tree grows and indexes a vector with `at`. They are
  about the calls `MHPath` makes (`SegmentCheck`): ordered nodes along roads of a path
  that visits none twice, excluded nodes elsewhere on it, positive costs.
- **`PathSound`, `CacheFresh`, `NeverThrows`**: B and C are moved by the lengths of new
  segments; the cache is set without asking; the throws of `insertDetour` are
  excluded by an argument about excluded nodes only.
- **`SpliceReversible`, `SpliceRatioExact`, `RecordedProper`**: detailed balance.
  `Kernel` is computed from what the splice branch does, independently of what
  `transitionLogProb` records.
- **`WalkBackEnds`, `CollectsDomain`**: labels corrected after roads were labelled
  from them; what is collected is what a search that was not stopped would
  reach, and nothing beyond the ceiling.
- **`SameRoute`, `LabelsKept`, `TripsKept`**: `SameRoute` holds even with ties
  because compression keeps the last road of a chain on its own: joined to one
  piece, a chain breaks the ties another way and `run` throws. So an inner node
  of each chain is left, the one before that road, and the sampler may insert
  it too. In a two-way street it can only be entered through the chain's first
  roads and left by its last: of the street 1-2-3-4-7 in the run, node 2 is left
  by the chain from 7 to 1, and weighed 7 from the origin and 5 to the destination,
  while it is 1 and 3 in the whole network. `LabelsKept` says what holds: normal
  nodes have their costs, an inner node is weighed by the cheapest trip within the
  cut-off that passes the chain its way or less, and no node as nearer than it is.
- **`WeightReproduced`**: two loops, one that walks and one that reads a path,
  each count the visits of the destination; what they add up must be the same.
- **`ThrowsOnlyWhenTrapped`**: at the destination the shortest way on is not the
  label but the cheapest round trip, or the ratio exceeds one and the walk
  throws. What remains is a destination that roads leave and none comes
  back to: half of the walks are thrown away there.
- **`OwnFiles`, `ExactChoiceSet`, `AllOnDisk`, `FinishedStays`**: counting, block
  numbering and files across threads, stops and a second run. `AllOnDisk` admits
  one case the code does have: a file cut off by `exit` in another thread is
  skipped by a later run that does not overwrite. `OwnFiles` admits
  the one number that an interval of one makes two neighbouring blocks share.
- **`RidesEndAtStops`, `LinesUncut`**: lines read from relations whose ways,
  roles and stops need not fit together. Segments are searched one by one, each
  from an arc that arrives at a stop, not back along it, without passing a node
  twice and up to the next arc that arrives at one. `LinesUncut` says that these
  pieces make up every loop-free ride along the relation that begins and ends with
  a call, whatever stops it calls at in between. It is about lines whose stops have
  names of their own (two stops of one name are one to the search, which finds no
  segment between them), in extracts where none had to be moved (a moved stop
  renames nodes for every line that is read later).
  What is before a line's first stop, and the way out of a terminal back where it
  was entered, are lost in any case.
- **`CandidatesSound`**: the tests of `extendFromNode` look at the joint of a
  candidate and what is appended to it, and never at the whole.
- **`GrowthIndependent`**: `updatePoint` adds for old points the pairs with new
  roads, for new points all pairs; the sum must be the one of the whole path.
- **`PointsAccounted`, `FilesAgree`**: points pushed, put aside and found again;
  the final file shares the running points with an iteration that went on.
- **`DomainsAgree`**: the functions that fill a domain heed heading and
  mode each in their own way.

**Fairness.** A search is a sequential loop: `WF_vars(Next)` in
`ShortestPathTree` and `DomainSearch`. In `ParallelSampling` each thread is
weakly fair (the operating system schedules it, and nothing in a thread waits for
another), and so are `Return` and `Exit`; the user's `MakeStopFile` and `Restart`
and the exceptions are not. `MHPathSampler`, `NetworkReduction` and `MapMatching`
state no liveness (in each a step follows another until it ends, and nothing is
waited for), nor does `RandomWalk`: a walk ends with probability 1, which no fairness
expresses.

**Deadlock** is not checked: every model ends, as the program does.

### Findings

1. `MHPathProposal.cc:287` compares `!from_route.getB()` with an index, so a
   shuffle may move B alone. `transitionLogProb` takes such a move for a splice
   (its comment, lines 99-101, says it must be one).
2. `patShortestPathGeneral.cc:65` ends the search at the first node beyond the
   ceiling, while nodes within it are still in the deque, and their roads are
   not collected.
3. `patNetworkBase.cc:581`: `recoverPath` takes an arc alone when any road
   enters its end. In a compressed two-way street with three nodes in between, the
   first of them is entered by the other direction's first piece; the path is
   split from its road and lost, and `run` throws, even for the shortest path.
4. `MHPathGenerator.cc:36`: clones share `m_nip_calculator`; a job computes its
   probabilities with another job's router and weights.
5. `patMultiModalPathMatching.cc:163`: when the second point has the time of the
   first, the update of a candidate gives up before it clears what is new, then
   and ever after, against the comment at line 340. Roads found later are
   appended to `m_downstream` only: the candidates never grow again.

Met while modelling, without a run of their own:

- `MHPathGenerator.cc:318`: a chain has one state more than asked for, so that
  with an observation writer and an interval of one a job writes one path too many,
  under the number of the first file of the next block. `OwnFiles` says so.
- `patMapMatchingIteration.cc:650-658`: `selectPathsByShortest` compares the number
  of modes with itself; what it keeps is the candidates of the fewest changes and
  fewest modes at once, if there are any (`Simplest`).
- `getMaxSpeed` is in km/h, and `getDistanceCeilFromGPS` takes it for m/s
  (`AboveCeil`).
- `patPathExtension::init` (`patPathExtension.cc:144`) has no return statement.
- `walkFromToStops` (`patNetworkPublicTransport.cc:944`) looks the reverse arc up
  with the nodes in the same order: a stop joined by a way that is not
  for walking can be left on foot but not reached. The map of the run with a metro
  has such a way, to stop 8; no property forbids it.

## 4. Proofs

Every theorem is proved for all values of the constants that satisfy the named
assumptions of the modules, and checked by TLAPS to the last leaf. TLC checks the
same properties on the instances of the runs.

| Theorem | Of | States |
|---|---|---|
| `TypeCorrect`, `Invariance` | `ShortestPathTree`, `DomainSearch` | `Spec => []TypeOK`, `Spec => []IInv` |
| `TreeOfLabelsAlways`, `ForbiddenNeverReached`, `SettledNodesStay` | `ShortestPathTree` | `TreeOfLabels`, `ForbiddenUnlabelled`, `SettledStays` |
| `SettledShortest` | `ShortestPathTree` | settled labels are the shortest distances |
| `SettledAlwaysOptimal` | `ShortestPathTree` | `SettledOptimal`: they are what the reference computes |
| `SegmentChecksNeverThrow`, `VerdictAlwaysTreePath` | `ShortestPathTree` | `SegmentCheckNeverThrows`, `VerdictIsTreePath` |
| `TypeCorrect`, `Invariance`, `PathsStaySound`, `CacheStaysFresh`, `ChainNeverThrows`, `SplicesReversible`, `SpliceRatiosExact`, `RecordedAlwaysProper` | `MHPathSampler` | `TypeOK`, `IInv` and all of its invariants |
| `WalksBackEnd` | `DomainSearch` | `WalkBackEnds` |
| `DomainCollected` | `DomainSearch` | what a search collects, and what one that is not stopped misses: nothing |
| `AlwaysCollectsDomain` | `DomainSearch` | `CollectsDomain`: the same, with the reference |
| `LabelsAreDistances`, `TreeCompletes` | `Router` | labels no road contradicts are those of the reference; `treeCost` ends with such |
| `RouteFollows`, `FollowedIsRoute` | `Router` | the route read back is a given sequence just when each node was reached from the one before |
| `Invariance`, `ThrowsWhenTrapped`, `WeightIsReproduced` | `RandomWalk` | `IInv`, `ThrowsOnlyWhenTrapped`, `WeightReproduced` |
| `LinesEndAtStops`, `LinesNeverCut` | `MapMatching` | `RidesEndAtStops`, `LinesUncut` |
| `TypeCorrect`, `PointsAlwaysAccounted`, `DomainsAlwaysAgree`, `FilesAlwaysAgree`, `CandidatesAlwaysSound` | `MapMatching` | `TypeOK`, `PointsAccounted`, `DomainsAgree`, `FilesAgree`, `CandidatesSound` |
| `TypeCorrect`, `FinishedStaysAlways`, `AllOnDiskAlways`, `ExactChoiceSetAlways`, `OwnFilesAlways` | `ParallelSampling` | `TypeOK` and all of its safety properties |

### Label setting search

From `NetworkAssumption` and `QueryAssumption`. `TreeOfLabels` is not inductive: a
predecessor must be settled, and its label must not change after it was used. That
rests on the order of expansion. The invariant is

    IInv == TypeOK /\ NothingYet /\ RootFirst /\ OpenLabelled /\ Frontier
              /\ TreeOfLabels /\ ForbiddenUnlabelled

and its heart is `Frontier`: no open label is below a settled one. `Expand`
takes an open node of least label (`FirstOfIsFirst`, from `LeastNumber`'s
`LeastOfNaturals`, since "the first in the set" is a `CHOOSE`); costs are not
negative, so every new label is at least that one, so `Frontier` holds again
and no settled node is relabelled (`OneExpansion`). The other conjuncts follow
action by action in `BeginIInv`, `ExpandIInv` and `StopIInv`. A label equal to
`DBL_MAX` is never improved upon by a road of cost `DBL_MAX`, which is why
excluded nodes stay out.

`SettledShortest` says that labels are optimal without a recursive reference. A
distance is `Consistent` when it is 0 at the root and no road contradicts it; the
shortest distances are the largest consistent ones. Labels are never below a
consistent distance (`OptInv`), and for the other direction the labels are
themselves consistent once those of open nodes are capped by the label of the
node settled last: what is settled has been spread along its roads (`Spread`), and
what is open or not reached is at least as far (`Covered`, from `Frontier`).

`SettledAlwaysOptimal` is about the reference, `Distances`: as many rounds of
improvement as there are nodes, a recursive function. That it has a value, and
what each round does to the last, is shown by the least number of rounds for
which it would not (`RoundsExist`, `DistancesByRounds` of `Router_proofs`). No
round is below the labels that no road improves (`RoundsAbove`), which gives one
half. The other is that so many rounds are enough, and needs one more invariant:
nodes are settled one by one, each from a settled one, so that with k nodes
settled the label of each is no less than what k rounds give (`ByRounds`), and k
is at most the number of nodes.

`VerdictAlwaysTreePath` compares a search that is broken off with two recursive functions:
the complete tree, `TreeCost`, and the route read back from it, `RouteIn`. Its
invariant is

    CheckInv == SegmentCheck =>
                  /\ status = "search" => InStep /\ MetSoFar
                  /\ status = "done" => Judged
                  /\ status # "thrown"

`InStep`: with k nodes settled, the search is the k-th tree of `TreeCost` (`TreesAre`),
label by label. `MetSoFar` is what the order of the ordered nodes comes to: those
visited are settled, each reached from the one before, and if one behind them is
settled, one between is settled that was reached otherwise. So the verdict is about
the predecessors so far (`Judged`), and they are final: a settled node has its
predecessor in all later trees, as no open label is below its own (`KeptOn`). What is
left is about reading back, one step per node (`RouteByStops`): the route is the
segment just when each node was reached from the one before (`RouteFollows`,
`FollowedIsRoute`; that no node is visited twice is what keeps the walk from stopping
short).

### Sampler

From `EdgeAssumption`, `FwdAssumption`, `BwdAssumption` (a route asked for with free
ends is empty or a path between them that repeats no node and avoids those excluded;
nothing is said of its length, nor that the two agree), `TriggerAssumption`,
`InsertAssumption` and `ReachAssumption`. The invariant is

    IInv == pc, weights in range /\ StateInv /\ ProposalType /\ ProposalInv

where a state of the chain is `Good` (typed, sound, its cache fresh), so are both
states of a proposal, and a proposal to splice is `Spliced`: the old state is
spliceable, the new one is its `Detour` through a node that has a weight, with the
probabilities of both moves. The properties alone are not inductive: that a splice can
be undone is about how the proposal was made.

The argument is about positions. `DetourKeeps`: the pieces of the path before A and
after C, and therefore everything that the searches must avoid, are the same after a
detour, and its two segments lie at A..B and B..C. Hence the router, asked again about
the new path, would give the segments just inserted (`DetourIsSound`: this is why
`insertDetour` may set the cache to 1 unasked); and asked for the old B from the new
path it gives the old segments, as the old path was spliceable, so the way back leads to
the old path arc by arc (`WayBack`). `SpliceDoesNotThrow` goes through the exceptions
of `newSpliceSegmentAB`, `newSpliceSegmentBC` and `insertDetour` (`Free`: the path itself
has a road at each end).
For `RecordedProper` every node of a path lies between the origin and the destination and
has a weight (`PathWeighed`), no weight exceeds the sum of all (`SumBounds`), and
`forbiddenSize` stays below the number of triples of points (`Combinations`).

`TotalWeight` is a sum by recursion. The induction principles of the library cannot be
used here, but least numbers can: were there sets without a sum, there would be one
of least cardinality; it has one node more than a set with a sum (`SumsExist`). The same
goes for what a sum is at least (`SumBounds`).

### Label correcting search

From `NetworkAssumption` and `QueryAssumption`. Here no label is final before the
end. The invariant says of predecessors that they are at least a road shorter
(`WalkBackEnds` names it for every labelled node: it has a predecessor or is a root),
and of the deque that it is all there is to do: `Expanded`, every labelled node is
in the deque, or each of its roads is among `roads_left` or was seen since its
label changed, so that it improves nothing and is collected if in the domain. When the deque runs empty the labels are therefore
consistent, hence shortest, and all roads of the domain from labelled nodes have been
seen (`DomainCollected`). No label can pass below the shortest road, so no search
ever takes a correction for a negative cycle.

For `AlwaysCollectsDomain` that many rounds must be enough without an order of
settling. Lengths are positive, so along the predecessors labels fall: no more
roads lead to a node than there are nodes closer than it (`Closer`, `LabelsAreWalks`).
That argument needs the positive lengths of `QueryAssumption`, and nothing of the
search but its labels, so that it is a theorem of `Router_proofs`,
`LabelsAreDistances`, which the random walk uses too.

### Random walk

From `NetworkAssumption`, `QueryAssumption` (positive costs) and `RangeAssumption`
(`DBL_MAX` is beyond a distance and a road more; without it the sum of the two could be
taken for no way at all).

The walk asks the labels of a whole search at every step, so the search comes first:
`TreeCompletes` is about the recursive function `TreeCost`. `Growing` holds before
each round; a round settles one node (`OneSettled`), so that after as many rounds as
there are nodes nothing is open (`NothingOpen`), and the labels are then complete:
no road contradicts them and each is accounted for by a road. That is what the walk
follows (`Followed`). From a labelled node other than the destination a road leads on,
none is cheaper than the node's own label, and at the destination the cheapest round trip is
the least of all: no ratio is above 1 (`LeastIsOne`), and a walk can be stuck only at a
node without a label or at a destination nothing comes back to (`StuckMeansTrapped`).
The invariant (`OnItsWay`) says that a walk that took a road is at a labelled node, so
that only an origin is left.

`WeightIsReproduced` relates the walk to the loop over its arcs afterwards. The fold of
`calculatePathLogWeight` is a function of sets of positions; `LoopExists` shows that it
has a value and `LoopOnward` that one road more is one round more, both by induction
up to the length of the path (`AllNumbers` of `LeastNumber`). `SoFar` then holds of
every walk: what it added up is what the loop adds up on its path, and, when it has just
drawn to go on, that draw, which the loop adds with the next road.

### Networks

From `ExtractAssumption`, over every step of `MapMatching`, which leaves the networks
alone. `LinesEndAtStops`: a network is made of segments, each of which begins and ends
at a stop; an arc inside one follows and is followed by another (`LinesInv`).
It rests on what is read being arcs and routes: the stops
found one by one in `FindStopsIncomingLinks` name arcs of the relation
(`StopsFound`), and every segment is a sequence of nodes, at least one
(`SegmentsAreRoutes`).

`LinesNeverCut`: `RoutesFollow` says of the recursive function in `RoutesFrom` what its
routes are, by induction on their length (`FollowsOn`, `FollowsBack`, `AllNumbers`).
`RidesCut` takes a ride and one of its arcs: from behind the last call before that arc
to the first call behind it, it is a route that calls only at its end. When no stop is
moved the stops keep their names and are found on the line (`FoundInPlace`), so that
this piece is among the segments of the relation (`LineSearched`). `UncutInv` then
follows the constructor: of the mode that is read, every relation is left or covered
by the segments, and the network of a mode that was read covers all of its lines.

### Map matching

From `ExtractAssumption` (nodes are finite and numbered, distances not negative) and
`MatchingAssumption` (a trip is a sequence with a first point, in the order of
time; what lies in a domain with the heading lies in it without; lengths are
positive, parameters not negative). All theorems but the last follow from one invariant,

    MatchInv == NetInv /\ status is one of seven /\ (Unread or Begun)

Before the points are read nothing has happened (`Unread`). After that, `Begun`: types
(`Typed`); every domain lies near its point, and that of the last point matched is
`Closed`, so has its arcs in all modes; the running sequence and the points put aside
increase; what is in the files agrees. While points are matched (`Midway`), the running
sequence lies before the last point matched and the points put aside behind it,
every point that is in neither has no domain, no file is written, and the candidates
account for the running sequence (`Clean`), unless the second point has the time of the
first. `PointsAccounted` alone is not inductive: that joining the two sequences keeps the
order is known only from where they lie, and that the final file agrees with what it is
written for only because all the candidates of the last success are those of now
(`valid` is empty or holds `paths`) and the points behind it can be told from those
before (`KeepsFront`).

Most of the work is in what one iteration finds. A search is a loop over nodes, each a loop
over its roads; an exploration is a loop over end nodes, each a loop over networks. For
all of them there is one argument: `FoldExists` shows that such a loop over a finite set of
numbers has a value, by induction on the size of the set, and `FoldStays` that it stays
where each step stays. So a search makes a tree of arcs of its network (`Trees`:
`SeesArcs`, `Expands`, `Searches`), a route is read back from it in arcs of the network
(`Routed`), and an exploration finds candidates that grew and domains near the
point (`Finds`: `Extends`, `Leaves`, `Explores`). `Selects`: however candidates are drawn,
none is invented. `Absorbs` is the update of a candidate that is given new points;
`AbsorbsPoints`, `AbsorbsDomains` and `AbsorbsCandidates` say what `dealInterData` makes of
the points put aside, for a success and for the last point alike. `InvFails` then has the three
ways of failing in common, and `InvExtends` is the success.

`CandidatesAlwaysSound` needs two more facts of the extract, both in `ExtractAssumption`:
no way has a node twice in a row, and no node is near itself (`getNearbyNode` leaves
out what is at distance 0). Without the first the property is false: the arc from a node
to itself is a road that comes back to its node. The invariant is

    SoundInv == MatchInv /\ NoLoops /\ CandidatesSound

`NoLoops`: no network, however far it is built, has an arc from a node to itself; so a
road read in both directions never passes for one. A candidate grows from a search at its last
node. The predecessors of a search never form a cycle, as the label falls along them
(`Rooted`, kept by `SeesReached`, `Expands`, `Searches`); therefore a route that is read
back ends where it began, at the root, its arcs are joined, and it passes no node twice
(`ReadBack`, `LeadsBack`, `RouteFromRoot`, `NoNodeAgain`). `JoinSound` is the heart: two
sequences that can each be travelled, with no loop in the second, can be travelled in
a row if they pass the tests of `extendFromNode`, which look only at the joint and at
the nodes the two share. The rest is that nothing else makes roads: a first
candidate is one road (`OneRoadSound`), an exploration adds to candidates only what
joins them (`ExtensionsSound`, `Finds`) and keeps one of each sequence of arcs
(`StayDistinct`), updates change numerators only, and selection invents none.

### Parallel sampling

From `JobAssumption` and `QueryAssumption`: any number of threads, jobs, samples and
restarts, any warm-up and interval. Each property has an invariant of its own, on
top of those before:

- `TypeInv`: types, and that the calculator points at somebody's parameters when read;
- `OwnJobs`: a job is with one thread at most, and not among those left;
- `DiskInv`: a job in the works is not complete on disk unless it is to be overwritten,
  and before a restart nothing is on disk of jobs not taken: `FinishedStays`;
- `Accounted`: each job is left, with a thread, or on disk: `AllOnDisk`;
- `CountInv`: what a job has kept is exactly what is to be kept of the states so far,
  and a chain whose file is written has run to its end: `ExactChoiceSet`, by
  `SampledNumbers`, the arithmetic of warm-up and interval;
- `FilesInv`: of an observation, the files are those of its block, one for each
  state kept, as many as intervals have passed (`Multiples_`): `OwnFiles`, by
  `Overlap` and `Together`, the arithmetic of blocks.

### Only model-checked

- What compares whole searches on two networks: `SameRoute`, `LabelsKept`,
  `TripsKept`, and `TypeOK` of `NetworkReduction`. The provers do not do induction over
  data; the loops of compression need arguments by least numbers of their own, like
  those for `Distances`, `RouteIn` and `TotalWeight`.
- `TypeOK` of `RandomWalk`: that what is added up are probabilities is a matter of sums,
  products and powers over sets of roads, and the provers know nothing of `^`.
- Liveness.
- Of map matching `GrowthIndependent`, which is about bags of pairs added up piece by
  piece.

## 5. Not modelled

- Floating point: costs, likelihoods, rounding. `drawInsertNode` throwing
  because rounded probabilities sum to less than the draw is an exit of the model
  (`NoNodeSelected`), without a property.
- Reading and writing OSM, KML, PostGIS, Biogeme files, beyond whether a file is there.
- The second trip of an observation, which runs on the network the first one
  reduced and whose compressed arcs are gone (undefined behaviour): jobs have
  one trip.
- Start paths that are empty or of an unreachable destination (`recoverPath`
  reads the front of an empty list).
- `MHSimulatePathError`, verification and Biogeme experiments: the same pieces again.
- `RWPathGenerator::run` as a loop: each path is drawn by itself. Its choice set is
  shorter than asked for by the warm-up of the writer, which only warns.
- Of map matching: denominators, accelerometer and Bluetooth data, stop times, the
  drawing of a path and the traffic model; of the networks, trains, and lengths.
- `rand()`, which all threads share: draws are nondeterministic, so that no run is
  reproducible anyway. That a random walk ends only with probability 1.
- Programs' command lines and tests, and legacy code: `Unimodal` and
  `DeterministicMapMatching` are not part of the build, and there are copies of
  files beside their originals. Together with readers, writers, conversions and floating
  point models they are most of the repository's lines, so that the share the
  models cover stays small: they follow the control of the two programs.

## 6. Plan

Done, in this order: `Router`, `ShortestPathTree` and its proofs,
`MHPathSampler`, `DomainSearch`, `NetworkReduction`, `ParallelSampling`,
`RandomWalk`, `TransportNetworks`, `MapMatching`, and the proofs about
`DomainSearch`, `ParallelSampling`, `MHPathSampler`, `Router`, `RandomWalk` and
`MapMatching`.

Next, models:

1. `Enumeration`: the depth first search, and the arc string which `pop_back`
   leaves as it was.
2. `NetworkReduction` with a second trip.
3. An abstract sampler (a set of paths closed under moves that can be undone)
   which `MHPathSampler` implements, and an abstract pool of jobs which
   `ParallelSampling` implements.

Next, proofs:

1. `NetworkReduction`: `LabelsKept`, from the lemmas of `Router_proofs`.
2. `MapMatching`: `GrowthIndependent`, from lemmas about bags that are folded.
