# Verification of the CPU interconnection network simulator

TLA+ models, TLC runs and TLAPS proofs for the simulator in `src/`: a
trace-driven, tick-by-tick simulation of a multiprocessor whose caches are kept
coherent by a distributed directory over an interconnection network.

The simulator is a set of shared objects that `engine/engine.c` loads by the
names on its command line; a settings file such as `ex_direc.config` holds the
arguments of each. Four machines are put together from them and modelled here:

- the *directory machine*: `processor`, `simpleCache`, `d_coherence`,
  `directory`, `interconnect_impl`;
- the *snooping machine*: `processor`, `simpleCache`, `coherence_impl_final`,
  `interconnect`;
- the *cache machine*: `processor`, `cache_impl` or `cache_impl_final`, `branch`
  or `branch_impl`;
- the *out-of-order machine*: `processor_impl`, `cache_impl`.

Beside them stand the engine and its parser, which build a machine, and the splay
trees, in which coherence components and directory keep their states. The build
defines `NDEBUG`, so no assertion in the C code is active.

## 1. Inventory

### The directory machine

| Component | Source | State | Operations | Called by |
|---|---|---|---|---|
| Processor | `processor/processor.c` | `pendingMem[]`, `memOpTag[]`, `pendingBranch[]`, `tickCount` | `tick`, `memOpCallback` | engine loop; cache |
| Cache | `simpleCache/cache.c` | lists `pendReq`, `readyReq` | `memoryRequest`, `coherCallback`, `tick` | processor; coherence |
| Coherence | `d_coherence/` | `coherStates[]`, a tree of block states per processor | `permReq`, `busReq`, `cacheReq`, `tick` | cache; directory; interconnect |
| Directory | `directory/directory.c` | `directoryStates[]`, a tree of `{state, directory[]}` per node | `directoryReq` | coherence |
| Endpoints | `interconnect_impl/interconnect.c`, `queues.c` | `pending[]` (queue and `countDown`), node slots | `busReq`, `tick` | coherence, directory |
| Network | `interconnect_impl/interconnect_internal.c` | links and their packets | `route`, `update` | endpoints |

One engine iteration is one `tick` of the processor component, which ticks the
cache, which ticks the coherence component, which ticks the interconnect. The
interconnect's tick loads packets from the queues, moves them (`update`) and
delivers the ones that arrived: `cacheReq` gives requests (`BUSRD`, `BUSWR`) to
the node's directory slice and everything else to its cache controller, and
either may hand new packets to `busReq` in the middle of the deliver loop. Back
in the cache's tick, the ready requests call the processors back; then the
processors issue their next operations. Everything runs in one thread: the
concurrency is that of the simulated nodes, whose messages queue, wait on links
and are arbitrated at random.

What is hard about it:

- requests, forwards and answers of several processors for one block cross in
  the network, and a topology promises nothing about their order;
- an answer may be sent twice (the fetch and the invalidation of one write are
  both answered), so data arrives that nobody waits for, or that a *later* miss
  takes for its own;
- a processor is stalled until one particular callback comes, so one lost
  packet stops it, and with it the simulation, for good;
- packets wait on links without flow control: only the delay between two packets
  of a node protects them from being overwritten;
- a node's countdown is restarted by every packet it is handed.

### The snooping machine

| Component | Source | State | Operations | Called by |
|---|---|---|---|---|
| Coherence | `coherence_impl_final/` | `coherStates[]`, a scheme (option `-s`) | `permReq`, `busReq` | cache; bus |
| Bus | `interconnect/interconnect.c` | `pendingRequest`, `queuedRequests[]`, `countDown`, `lastProc` | `busReq`, `tick` | coherence; cache |

A request owns the bus from `CACHE_DELAY` ticks before it is shown to the other
caches until memory (`BUS_TIME`) or another cache (`CACHE_TRANSFER`) has answered.
A cache replies by calling `busReq` of the bus while it is being shown the
request. What is hard: a write is shown to a cache whose own upgrade of the same
line is queued; every cache may reply; there is one slot per processor; and
each of the five schemes is two tables of ten states, where one missing reply
makes two caches disagree.

### The cache machine

| Component | Source | State | Operations | Called by |
|---|---|---|---|---|
| Caches | `cache_impl/`, `cache_impl_final/` | sets of lines (tag, age, sub-blocks), `countDown`, `pendingTag` | `memoryRequest`, `tick` | processor |
| Predictors | `branch/`, `branch_impl/` | `BTB[]`, `BHR` | `branchRequest` | processor |

All processors share the one cache and the one predictor. An access longer than
its block calls itself for the rest; replacement is by age, and the two policies
(LRU, RRIP) age differently; whether a line is filled is read from memory that
nobody wrote; a request that finds another under way ends that one at once.

### The engine

`main` loads the trace reader, reads the settings file (`config.c`), loads six
libraries, calls their inits with the arguments of their sections, and ticks the
processor. What is hard: components find each other by pointers that inits hand
around in an order of `main`'s own, with few of the results checked; and the
parser is one loop of flags over a character array that tells sections, words,
quotes and two kinds of comments apart.

### The splay trees

`stree.c`, in five identical copies: `tree_insert`, `tree_find`,
`tree_find_nearest`, `tree_remove` on linked nodes with parent pointers; each call
rotates what it finds to the root.

### The out-of-order machine

`processor_impl/` with `cache_impl/` is a machine of one processor without
coherence: a Tomasulo pipeline and a cache with one operation at a time.

| Part | Source | State | Operation of a tick |
|---|---|---|---|
| Cache | `cache_impl/cache.c` | `countDown`, `pendingTag` | `tick` counts down and calls `memOpCallback` |
| Dispatch | `p_dispatch_reserve` | `disp_queue`, `defer_queue` | takes what the schedule queues have room for |
| State update | `p_state_update` | units, `busQueue`, `resBusses` | results leave the units, the oldest get the buses and leave the schedule queues |
| Registers | `p_register_update` | `registers[].tag`, `.busy` | a register whose last writer is on a bus is free |
| Execute | `p_execute` | units, `cache_queue`, `cache_busy` | ready instructions start; the cache is asked for the head of its queue |
| Schedule | `p_sq_update`, `p_sche_q_update` | `ready[]`, `src_tag[]`, `ins_ready` | who has its operands is ready in the next tick; operands on the buses arrive |
| Deferral | `p_defer` | schedule queues, registers | what was reserved enters a schedule queue and reads the registers |
| Fetch | `tick` | `p_fetch_go`, `fetch_unit_go`, `curr_tag` | up to `F` operations from the trace, until a mispredicted branch |

The functions run one after the other in each tick, in this order, and what is
hard is that order: each reads what another wrote earlier in the tick or in the
tick before. An instruction enters its queue after the tick's broadcast and must
miss nothing by that; readiness is computed in one tick and used in the next;
room is counted before it is freed and used after; list nodes are freed while
units and queues point to them; two flags that hold fetching are compared at the
end of the tick.

### Correctness, per component

- Processor and cache: a stalled processor has exactly one request filed, with
  its current tag; each callback finds its request; every operation completes.
- Coherence and directory: whoever waits will be answered, in spite of stray and
  duplicated data; what the directory records; how many packets travel; and (what
  the comments ask for, and the code does not do) a single writer.
- Pipeline: instructions execute by dataflow, once and after the results they
  read; no wakeup is lost, no queue overflows, nothing is freed that is still
  pointed to; fetching is held for a mispredicted branch; everything completes, unless
  the cache is asked for no bytes.
- Endpoints and network: no packet is lost, duplicated or misdelivered; no queue
  falls asleep.
- Snooping: a line between two states has one request and gets one answer; one
  owner, and readers and writers kept apart; exclusive means alone; the bus is
  granted in turn; no assertion fails.
- Caches: what was asked for is cached, once, replaced in order of use and timed
  accordingly; every operation with a size returns. Predictors: a counter that
  predicts a taken branch stands beside the target of one.
- Engine: the parser reads what a file says, a running machine is whole, and the
  components get their own sections (what `config.h` says of all six, and the code
  does for four).
- Splay trees: the links stay a search tree and the calls answer as a map does.

### The other components

| Component | Source | Status |
|---|---|---|
| Ring, mesh, torus | `interconnect_impl/interconnect_internal.c` | not modelled: not compiled in (section 5) |
| Earlier coherence component | `coherence/` | not modelled: unfinished copy (section 5) |
| Trace readers | `trace/` | partly: which operations can come, and whether the trace can be opened |

## 2. Modules

| Module | Models | State |
|---|---|---|
| `CoherenceNodes` | what a node does: `cacheDirectory`, `processCache`, `directory`, the request lists, the callbacks | `cacheState`, `dirState`, `sharers`, `pendReq`, `readyReq`, `pendingMem`, `memOpTag` |
| `Network` | the abstract network: a bag of packets, each delivered once | `net` |
| `DirectoryCoherence` | nodes over the abstract network | the two above |
| `Endpoints` | queues, countdowns and node slots; `busReq` and `tick` | `queue`, `countDown`, `node`, `phase` |
| `Crossbar` | `route` and `update` for the crossbar; the crossbar as a `Network` | Endpoints' and `link` |
| `DirectorySystem` | nodes on the crossbar, tick by tick; as a `DirectoryCoherence` | all of it |
| `HomeProcessor` | `findHomeProcessor` and its bit masks on words | none |
| `OutOfOrder` | the pipeline of `processor_impl` and the countdown of `cache_impl`, function by function | the table above |
| `Dataflow` | what the pipeline promises: start after the producers, once | `ins`, `executed`, `done` |
| `SnoopProtocol` | the ten tables of `coherence_impl_final/protocol.c`: what an access and what a snooped request does to a line | none |
| `SnoopingBus` | the bus with the snooping caches on it | `state`, `pending`, `queued`, `countDown`, `lastProc`, `pendReq`, `readyReq` |
| `ReadersWriters` | what a coherence protocol promises | `mode` |
| `SetAssociativeCache` | lines, ages, loads and stores of both caches, call by call | `cache_sim`, `calls`, `result` |
| `LRUSets` | what LRU promises: sets in order of use, and the price of an access | `held`, `written`, `older`, `result` |
| `BranchPredictor` | Smith, gshare and the perfect predictor | `BTB`, `BHR` |
| `InOrderMachine` | in-order processors on such a cache and predictor | those and the processors' |
| `SplayTree` | the trees, a loop round a step | links, records, and the call under way |
| `OrderedMap` | what the trees promise: calls that take effect at once | `map`, `call`, `answer` |
| `SettingsFile` | what a settings file is and means, as a sequence of tokens | none |
| `Settings` | `parseSettings`, round by round over characters | `contents`, `pos`, `comment`, `sections`, `room` |
| `Startup` | `main` of the engine with the parser and the inits | `stage`, `loaded`, `made`, `holds`, `given` |
| `CoherenceProof`, `CrossbarProof`, `DirectorySystemProof`, `OutOfOrderProof`, `SnoopingProof`, `CacheProof`, `SplayProof`, `StartupProof` | theorems about `DirectoryCoherence`, `Crossbar`, `DirectorySystem`, `OutOfOrder`, `SnoopingBus`, `InOrderMachine`, `SplayTree`, `Startup` | |
| `MC*` | constants, symmetry and environments for TLC | |

    Network <---- DirectoryCoherence ----> CoherenceNodes
       ^                  ^                     ^
       | Ideal            | Abstract            |
    Crossbar <------ DirectorySystem -----------+
       |
    Endpoints                    OutOfOrder ----> Dataflow

    SnoopingBus ----> SnoopProtocol        InOrderMachine ----> SetAssociativeCache, BranchPredictor
       | RW                                   | LRU
    ReadersWriters                         LRUSets

    Startup ----> Settings ----> SettingsFile        SplayTree ----> OrderedMap

`DirectorySystemProof` takes `CrossbarProof` and `CoherenceProof` as instances;
the other proof modules extend what they are about.

### How the state corresponds

- `coherStates[p]` is `cacheState[p]`: a tree without an entry for a block means
  `INVALID`, and the tree is a function from blocks to states.
- An entry of `directoryStates[h]` is `dirState[h][l]` and `sharers[h][l]`, the
  set of `i` with `directory[i] == 1`; a missing entry is `D_INVALID` with none.
- `pendReq` and `readyReq` are lists in the code and sets here: a processor has
  one request at most (`OneRequestPerStall`, proved), so the position is never
  looked at. `memOpTag` counts modulo `TagLimit`.
- A block is its number; `memoryRequest` masks an address to its block. `Home`
  is what `findHomeProcessor` returns; the MC modules compute it by
  `HomeProcessor`, and `MCDirectoryCoherence` assumes (and TLC evaluates) that
  `bitMask` returns the bits it is asked for and how blocks spread over homes.
- A handler is a pair: the action on the node's variables and the sequence of
  packets it passes to `busReq`. `sendFetch` and `sendInvalidate` call the home's
  own cache directly: `Applied` is the effect of that call, and what the
  call sends is part of `Dispatch`.
- `processCache` tests `reqType = FETCH`, an assignment, for blocks that are
  `MODIFIED` or `SHARED_STATE`; `ProcessCache` and `SendsDataBack` do what that
  does.
- `sharers` loops stop at the literal 4: the constant `ScanLimit`.
- One `tick` of the interconnect is `Load`, `Update`, one `Take` per arrived
  packet and `EndTick`, with `phase` telling them apart. Nodes deliver in any
  order here and by number in the code: the model has more behaviours.
- `rand_max_n` is any choice among the candidates. It reseeds at every call and
  so is far from fair; nothing here relies on its being fair.
- `countDown` is not initialised by `new_Q`: it starts with any value of
  `StaleCountDown`.

In the directory machine branches, ALU operations and the trace only decide when a processor issues
which operation; the models let it issue any operation whenever it is not
stalled.

Of the pipeline:

- `stage` is the function that the tick calls next. `DeferOne` and `Fetch` are
  one turn of the loops of `p_defer` and `tick`.
- An instruction is its tag, its place in the program `ins`. `disp_queue` and
  `defer_queue` hold consecutive tags, `reserved + 1 .. Len(ins)` and
  `dispatched + 1 .. reserved`. The two schedule queues are `sche`, told apart by
  the operation, and their `capacity` is `Room0` and `Room1`. They are filled in
  the order of the tags, and `busQueue` is sorted by them, so all three are sets
  that are read by increasing tags.
- A unit is in use for one tick (short) or moves on every tick (long), so the
  units of a kind are the sets `fu0`, `fu1[1]` to `fu1[3]`, bounded by what
  `p_execute` starts.
- `waitsFor[t]` is the `src_tag` of the operands that are not `ready`. An absent
  operand (-1) makes `p_defer` read `registers[-1]`; what it reads is used
  nowhere and is left out.
- `stage_su`, which decides when an instruction leaves the print queue `vbs_q` and
  with it when the engine stops, is `Updated`. A result of a unit has it set while
  it still waits for a bus, so the engine may stop before that bus comes.
- `memoryRequest` would call back for an operation under way. `CallbackMatchesHead`
  (checked and proved) says that none is counted when it is called, so
  `MemoryRequest` has no such case.
- How long an operation takes (0 ticks included, which is what `cache_impl` returns
  for one without bytes), what a trace holds and which branches are mispredicted
  are choices.

Of the snooping machine:

- `snoopAction` and `cacheAction` give the next state of a line, what its
  controller says on the bus and whether its processor goes on. `reqType = BUSWR`
  in four of the tables is the assignment it is.
- The two components do not link at this commit: the bus calls `cacheReq` with
  four arguments and the protocols register `busReq` and call the bus with three.
  The model joins them where they fit, and drops the arguments one side does not
  know. The broadcast is one step, as the loop it is runs inside one `tick`.
- A failed assertion sets `halted` and ends the run; `AssertsHold` says when this
  cannot happen. The program is built with `NDEBUG` (`src/CMakeLists.txt:4`) and
  goes on with what it has overwritten; what it does then is not modelled. This
  concerns MOESI and MESIF alone, as under the other three no assertion fails.

Of the cache machine:

- One call of `load_cache` or `store_cache` is a step; recursive calls wait in
  `calls`. The two versions differ in what they still do after an eviction.
- `valid_line` is never initialised: which lines start as filled is any subset of
  `Stale`. The counters of hits and misses are left out, and so is the victim
  cache, whose size is an option that nothing uses.
- `Accept` is the end of `memoryRequest`: it calls back what is under way and
  *adds* to its countdown, as the code does.
- An age has `AgeBits` bits; no request is made while one is `AgeLimit`, the bound
  that keeps the LRU ages of the model, which the code counts on forever, finite.

Of the engine and the trees:

- A file is a document, a sequence of tokens with gaps; `contents` is its text.
  `Settings` never looks at the document, only at characters. The zero bytes the
  parser writes behind each argument are never read again and are left out.
- `missing` are libraries that could not be loaded; which ones, and whether the
  user named them, is a choice. `holds` are the pointers between components.
- A tree node is named by its key. `at` is the loop a call is in, `z` and `p` its
  local pointers; a rotation, called by name, is one step of `splay`.

## 3. Runs

| Run | Question | Result |
|---|---|---|
| `coherence_safety` | three processors, one block, ideal network: are misses, callbacks and traffic as they should be? | holds |
| `coherence_many` | does every operation complete on a block homed at processor 4 of 8? | violated |
| `single_writer` | is a written block held by nobody else? | violated |
| `crossbar_safety` | the crossbar under any traffic: is anything lost, and is it the ideal network? | holds |
| `crossbar_burst` | the same with 11 senders and the code's delay of 10 | violated |
| `system` | does the ticked machine implement the abstract one, and do all operations complete? | holds |
| `out_of_order` | does the pipeline execute every small program by dataflow, and to its end if every operation has a size? | holds |
| `snooping` | three caches under each scheme: requests, answers, turns, readers and writers? | holds |
| `snooping_exclusive` | is an exclusive line alone under MESI? | violated |
| `in_order` | does a shared cache hold what was asked for, in order of use, and return every operation? | holds |
| `splay` | is a splay tree a search tree and an ordered map through every call? | holds |
| `startup` | does the parser read what a file says, do four components get their sections, and is a machine that runs whole? | holds |

### What they show

**No miss is forgotten.** `AnswerOnItsWay` says that whatever waits has its
request or data on the way; with `CallbackFindsRequest` and
`OneRequestPerStall`, that a processor is stalled exactly while this is so.
It is not obvious: data meant for an earlier request can end a later wait before
the home has seen the request.

**Coherence is not maintained.** The comments in `directory.c` promise that a
write invalidates all other copies (lines 144, 169, 207). `SingleWriter` says so and is
violated in a few steps (`single_writer`): a home takes its own block without telling
its directory (`protocol.c:77-85`). When another node asks to write, the directory has
no entry (`D_INVALID`), and that case sends the home a fetch and nothing else
(`directory.c:191`), which makes the home `SHARED_STATE` (`protocol.c:166-171`). The
other node writes beside it.

The cases that do look for copies take none away either, which the run does not need
to show: the directory records its own node and never the one it sends the block to
(`directory.c:141, 153, 167, 184, 190`), so of two nodes that ask to write a
block of a third, both end up `MODIFIED`; and the home's cache, when it is sent an
invalidation by a direct call, takes it for a fetch if it has the block
(`protocol.c:181`, `reqType = FETCH`), answers once more and keeps it.

The rest of what is said of this machine is what holds in spite of that. The
proof rests on what is left: the directory records no node but its own
(`DirectoryTracksOnlyHome`), so no invalidation ever leaves a node
(`OnlyRequestsAndDataTravel`). The simulator keeps no data, so this distorts timing
and traffic but no values.

**Stray data never dies.** A write to a block its home has cached is answered
twice. The second copy reaches a cache that holds the block and sends it back,
and so on: `SurplusNeverShrinks`, an action property, says that traffic nobody
asked for only grows, and `StrayDataFindsHomeCached` that the home always has
the block when it comes back.

**Homes 4 and above.** The loops over `directory[]` visit four entries. With 8
processors block 4 has home 4; once its entry is not `D_INVALID`, a request is
taken and not answered, and the simulation never ends (`coherence_many`).

**The crossbar.** With no more nodes than ticks between two packets of a node,
nothing is overwritten (`NoOverwrite`), and (proved) no countdown runs out on a
busy node and no queue sleeps; the crossbar implements the bag of `Network`: nothing is lost, duplicated or misdelivered under any traffic and
arbitration. With 11 senders and a delay of 10 (`crossbar_burst`) a packet
is overwritten: nothing in the code looks at a link's `busy` flag.

**The composition.** `DirectorySystem` implements `DirectoryCoherence` with
`net` mapped to what is queued, loaded or on a link (checked, and proved for any
number of nodes up to the delay): what is checked and proved
about the abstract machine holds of the ticked one. Liveness is checked of it
directly (`EveryOperationCompletes`), as the abstract fairness would have to be
derived from the ticks.

**The pipeline.** `OutOfOrder` implements `Dataflow`: an instruction starts once,
and after the last earlier writers of its operands have their results
(`ExecutesByDataflow`). An instruction that `p_defer` puts into a queue after the
broadcast finds the registers already updated (`NoLostWakeup`). Nobody is in two
units or queues (`HandedOutOnce`), p_defer's "Deferred too much" never happens
(`QueuesHaveRoom`), and of several branches only the mispredicted one ends
the wait for it (`MispredictHoldsFetch`). When the cache calls back, the operation it
finished is the head of `cache_queue` (`CallbackMatchesHead`). What is
fetched gets its result, with one exception that `SizedProgramsComplete` names: for
an operation of size 0 or less, which the trace reader accepts, `cache_impl` computes
no delay (`cache_internal.c:69-72, 188-191`), so its `tick` never calls back
(`cache.c:195-207`) and the pipeline waits for it and for all that needs the cache
(`CacheHangs`). The run has such operations in its programs.

**The snooping bus.** `WaitersHaveOneRequest`: a line is between two states
exactly while its processor waits and one request for it is on the bus or in its
slot, so no miss is forgotten or answered twice, even when a write overtakes a
queued upgrade. Whoever owns the bus gets its answer (`BusOwnerGoesOn`), and the
slots are served in turn (`RoundRobin`); but a processor that finds the bus free
takes it without a look at the slots, so nothing is claimed about how long one
waits in a slot. The permissions of MI and MSI implement `ReadersWriters`. Those
of MESI do not: only a cache with an `EXCLUSIVE` line says `SHARED`, so a *third*
reader is told nothing and takes the line `EXCLUSIVE` beside two others
(`snooping_exclusive`). Under MOESI and MESIF two caches may supply the same
line, which trips the assertion at `interconnect.c:106`, so `AssertsHold` is
about MI, MSI and MESI. `OWNED` and `FORWARD` are never reached: a `MODIFIED` line
is always given up (`reqType = BUSWR`), and nobody says `SHARED` in MESIF.

**The caches.** Whatever the memory of a new cache holds, no tag has valid data
in two lines of a set (`HeldOnce`), and with LRU the cache implements
`LRUSets`: the order of use, what leaves, and the delay of each access
(`ImplementsLRU`). When a request has been computed, all its bytes are cached
(`BytesAreCached`), with exceptions the property names: `cache_impl` forgets what
lies beyond the block of a load that evicted a line (`cache_internal.c:180`);
`cache_impl_final` marks sub-blocks by the size alone, whatever the offset
(`cache_internal.c:102`); and a request longer than a way evicts itself. RRIP is run
with the rest, but has no abstract specification: its ages leave the range of its
`k` bits, as hits age the other lines without end. Every operation with a size
returns (`SizedOperationsReturn`), including one displaced by another processor's;
one of size 0 returns only if it is displaced.

**The predictors.** A counter that predicts taken stands beside the target of a
taken branch, with Smith's table of one of its own entry (`CounterKnowsTarget`).

**The trees.** Through every rotation, walk and removal the links are a search
tree whose parents agree (`SearchTree`), and the four calls are those of
`OrderedMap` (`ImplementsOrderedMap`), `tree_find_nearest` included, which
remembers the nearest smaller key on its way down.

**The settings.** A *plain* file is read as meant (`ReadsDocument`), and the parser
ends (`StartupEnds`). The coherence, cache, branch and processor components get the
first section of their name (`FourGetTheirSections`). The interconnect and the
directory do not, against what `config.h:7-9` says of every component:
`if (arg = NULL)` drops their arguments (`engine.c:265, 281`). `Unlisted` models that,
and `InitInterconnect` the crash that follows as their number is kept.
`config.h` ("The tool will also skip any // or /*
portions of text, handle "" text, but otherwise split on whitespace") describes more
files than the plain ones; `IsPlain` lists what is read differently: a block
comment ends at the first `*` and one place before the first `/`; a word that
starts with a slash stops the parser for good; an empty quoted argument and a
name at the very end are dropped; and ahead of the first section only one
comment, or several with nothing between, may stand. (The settings file
`ex_smt.config` of the repository begins with `_processor`, one underscore, and so
is refused as a whole.)

**The engine.** When it runs, every pointer by which the components call each other
was set (`RunsWhole`): in particular the order of the inits is right, and the
directory and the network know the coherence component by the time it sends.
`main` checks a library only if it was named, and the results of the inits not at
all, so the engine may crash, and no property says that it does not or why. `Startup`
lets it crash where the code does (a null pointer called or read, or the pointer that
`simpleCache` calls for its block size, left as `malloc` gave it by the snooping
component), and lets a round of the main loop crash where a set-up was accepted
whose requests may look outside of what was allocated: one processor with
`d_coherence` (`HomesAnywhere`), sets without lines (`SetsWithoutLines`), a predictor
without index bits (`IndexAnywhere`).

### Bounds

- Processors: 3 for safety, so that two other caches compete at one home. All
  the protocol's interactions are between a home and a requester; a third party
  matters only through the home's state. Blocks are independent but for the one
  outstanding operation of a processor.
- `MaxPackets`: stray data makes the number of packets unbounded, so new misses
  wait while that many travel, counting each copy of a packet (in both directory
  machines: the bounds have to be the same one for the refinement). 3 (and 4 in the system) leave room for a request
  with stray data of both other nodes.
- `TagLimit` 2: enough to tell a current tag from an old one. 1 in the runs that
  ask nothing of tags.
- `InterDelay` 3 with 3 nodes is the tight case of the code's 10 with 10. The
  `StaleCountDown` values are one negative, zero and one above the delay.
- `MaxQueue` 2: a second packet waits behind the first while links are busy.
- The pipeline: programs of 4 instructions over one register and four operations,
  of which one writes what it reads, one only writes, one only reads and one is a
  branch; the operands of all of them meet in that register. `J = 2`, `K = 1`,
  `C = 1` and `M = 1` make results wait for the bus, long operations for their
  unit and instructions for room; two are fetched in a tick. A memory operation
  takes 2 ticks, so another waits in `cache_queue` behind it, or 0, which is
  never answered.
- `HomeProcessor` is evaluated for words of 16 bits instead of 64 (and proved for any).
- Snooping: three processors, so that a third can meet two that share; two lines,
  of which the second is only written by two of them, so that a slot can hold a
  request for another line than the bus. Delays 1, 1 and 2 for 10, 10 and 90: they
  tell waiting for memory from waiting for a cache, and a request can be queued in
  any of the three phases. All operations are possible at any time.
- Caches: two sets of two lines of two sub-blocks of two bytes, and accesses with
  three tags in set 0, of up to three bytes, across sub-blocks and blocks, aligned
  and not: a set is full with two tags, and the third evicts. `AgeLimit` 3 allows
  three accesses of a set after a line's last use, more than it takes to evict it.
  `Stale` lets either line of set 0 start as filled. Three kinds of set-up (one
  processor's memory traffic, with LRU for both versions and RRIP for `cache_impl`;
  two that displace each other; branches) keep the parts that do not interact
  apart.
- Trees: five keys, in any order of calls, give every shape of zig, zig-zig and
  zig-zag in both directions and a removal with a successor below the right child.
- Settings: all documents of up to three tokens of 17 kinds, up to four of five
  kinds, sections of five arguments with a list that grows by 2 (by 16 in the
  code), and files with a section for each of four components, whichever comes first.
  At most one library is missing (`MaxMissing`); processor counts are 0, below the
  range, and its two ends 1 and 256. Of the two predictors and the two kinds of cache
  either may be loaded, with or without the options that give them entries.

### Fairness

The engine's loop (`engine.c:364-367`) calls `tick` as long as a processor
makes progress, and one that waits for memory counts as progress: so the steps
of a tick are weakly fair. For the ideal network the same says that each packet
that travels is delivered and that ready callbacks run. No fairness is assumed
of the processors' next operation (a trace ends) or of the arbitration. The
pipeline's functions are called in a fixed order, so weak fairness of its `Next`
says no more than that the engine goes on; the same goes for `InOrderMachine`,
whose processors are visited in turn, and for `Startup`, one thread from beginning
to end. In `SnoopingBus` it is the tick of the bus that is weakly fair, and the
processors' next operations are not.

## 4. Proofs

### The protocol

`CoherenceProof` proves, for any finite set of processors, any set of blocks and homes, and
any `ScanLimit`, `TagLimit` and `MaxPackets`, that every behaviour of
`DirectoryCoherence` satisfies

| Theorem | Statement |
|---|---|
| `TypeCorrect` | `[]TypeOK` |
| `DirectoryRecordsHome` | `[]DirectoryTracksOnlyHome` |
| `NoInvalidateTravels` | `[]OnlyRequestsAndDataTravel` |
| `HomeGrants` | `[]HomeNeverWaits` |
| `CallbacksMatch` | `[]CallbackFindsRequest` |
| `CompletionsMatch` | `[]OneRequestPerStall` |
| `NoMissForgotten` | `[]AnswerOnItsWay`, assuming that every home is below `ScanLimit` |
| `StrayDataBounces` | `[]StrayDataFindsHomeCached` |
| `SurplusStays` | `SurplusNeverShrinks`, assuming that every home is below `ScanLimit` |

and, of `findHomeProcessor` itself, for words of any width and two or more
processors (fewer than a word has values):

| Theorem | Statement |
|---|---|
| `HomeIsAProcessor` | a block's home is its number modulo the largest power of two that is not above `processorCount`, and so one of the processors |

This is what `Home` of the model is assumed to be (`HomeAssumption`), and it says that
of six processors the last two are the home of nothing. Its proof follows the code: `bitMask`
has the bits between its two arguments (`MaskIs`), the loop of `mylog` finds the
logarithm, rounded down (`LogIs`), and the low bits of a number are its remainder
(`LowBits`, one bit at a time by `NextBit`).

Three of the theorems of the first table are too plain to be worth a run of their own, but carry the proof:
what the directory records, what travels, and that the home never waits.
The inductive invariant `IInv` is the conjunction of the first six state
properties. None of them is inductive alone: the directory answers only
with data because it knows no node but its own (`DirectoryTracksOnlyHome`); that
it can answer at once needs the home's cache to be stable (`HomeNeverWaits`);
a packet's handler may assume where it came from (`OnlyRequestsAndDataTravel`);
a callback finds its request because a block waits exactly while one is filed
(`CallbackFindsRequest`), and finds the right one because a processor has only
one (`OneRequestPerStall`).

The proof first computes what handlers send: `AccessAnswer` and
`ProcessCacheAnswer` tabulate the two state machines, `DirectoryPlan` what the
directory does, `DispatchAtHome` what a set of targets that is at most the home
itself yields, and `SentBag`, `BagSend` and `BagTake` turn that into the bag.
`AnswersAreEchoes` sums up: every handler answers with at most two data packets
to the node it was asked by. Then one lemma per action (`IssueInv`,
`RequestInv` and `DataInv` for the two kinds of `Receive`, `CompleteInv`)
preserves `IInv`.

`NoMissForgotten` is a second induction on top of it: the step that starts a
wait sends the request; a request that is taken leaves data, as the home is
recorded and the loops reach it; data that is taken ends the wait. Its
assumption is the one `coherence_many` violates, and only there is
`AnswerOnItsWay` false.

The last two count packets. `Load(p, l)` is the number of packets, copies
included, between processor `p` and the home of `l`, and `Owed(p, l)` is 1 while
`p` waits for `l`. `StepEven` says what a step may do to their difference, the
surplus: never lower it if the loops reach every home, and never raise it while
the home is `INVALID`, as it then answers once. So before a home has cached its
block nothing travels unasked for (`NoSurplusBeforeHome`), and data that arrives
unasked for finds it cached. Their invariant `Traffic` adds that what travels is
finite (`FewTravel`) and that a packet travels to or from a node only once that
node has asked for the block (`TravellersAreKnown`). `Copies` numbers the copies of each
packet, so that counts of a bag become cardinalities, about which the prover has
theorems (`OneMoreCounts`, `TakeCounts`).

The assumptions are those of `CoherenceNodes` and `DirectoryCoherence`: `Proc`
is a finite set of naturals, homes are processors, and the bounds are numbers.

### The crossbar

`CrossbarProof` proves, for any finite set of nodes, any packets, any delay
above zero and any values `countDown` may start with, that every behaviour of
`CrossbarSpec` satisfies

| Theorem | Statement |
|---|---|
| `CrossbarTypes` | `[]CrossbarTypeOK` |
| `NodesFree` | `[]NodeFreeAtLoad` |
| `QueuesAwake` | `[]NoSleepingQueue` |
| `LinksLead` | `[]LinksLeadToDestination` |
| `NothingOverwritten` | `[]NoOverwrite`, assuming `Cardinality(Proc) <= InterDelay` (`FewNodes`) |
| `CrossbarIsIdeal` | `IsIdealNetwork`, assuming `FewNodes` |

The first four come from `PlacesInv`, which says what a slot, a queue and a link
may hold in each phase of a tick: a node keeps no packet from one tick to the
next because the one it loads leaves for a link or is its own, and the one that
arrives is taken before the tick ends.

`NoOverwrite` needs more than places: it is a matter of time. Take a busy period
of node `d`, the ticks since some link for it was last empty of packets. In each
of them `d` was served once, so the packets that still wait and those that were
served are no more than the nodes that loaded one in that period. A node that
loaded in the last `e` ticks is seen in its countdown, which is above
`InterDelay - e` (`Recent(e)`); `Window(d, e, S)` says that the nodes that wait
are in `S` and that with `e` packets served they are no more than `S` has nodes.
`BusyWindow` says that such an `e` up to `InterDelay` exists between ticks, and
`LoadedWindow` the same for the moment between loading and `update`. While
something waits the window is shorter than the delay if there are no more nodes
than that (`WindowIsShort`), so a node whose packet still waits cannot have
loaded again. One lemma per action preserves the windows: a packet handed over
only makes a node more recent, loading ages every window by a tick, and `update`
serves one packet of each busy node (`ServedOne`). The assumption is tight:
`crossbar_burst` overwrites a packet with one sender more than the delay.

`CrossbarIsIdeal` shows that handing over is `Send`, that delivering is `Deliver`
and that a tick changes nothing that is in transit. `InTransit` is a bag of what
all *places* (nodes, positions in queues, links) hold. A step that moves packets
is described by where each place's content comes from, a bijection between the
places in use before and after (`BagMoved`); one that adds packets by the new
places (`BagJoined`), one that takes a packet by the place it leaves
(`BagWithout`). Loading shifts a queue and fills a node (`TransitLoaded`);
`update` may only be described that way because no two packets meet on a link
(`NoOverwrite`) and the winner of an output leaves its own place
(`TransitUpdated`). That the places in use are finitely many
(`FinitelyManyInUse`) makes the bag a bag.

All of this is proved for `TrafficStep`, in which any sequence of packets is handed
over by any node at any time outside of `update`, with a delivery or without. The
environment of `Crossbar` and the nodes of `DirectorySystem` are both of this kind
(`StepsAreTraffic`).

### The composed machine

`DirectorySystemProof` puts the two together: with no more nodes than ticks
between two packets of a node (10 in the code), for any blocks and homes, any
`ScanLimit`, `TagLimit` and `MaxPackets` and whatever the countdowns start with,
every behaviour of `DirectorySystem` satisfies

| Theorem | Statement |
|---|---|
| `SystemInvariant` | `[]SystemInv` |
| `SystemIsCoherent` | `ImplementsCoherence`, that is `Abstract!Spec` |
| `SystemLosesNothing` | `[]NoOverwrite` and `[]NoSleepingQueue` of its crossbar |
| `SystemCompletionsMatch` | `[]OneRequestPerStall` |
| `SystemForgetsNoMiss` | `[]AnswerOnItsWay`, assuming that every home is below `ScanLimit` |
| `SystemBouncesStrayData` | `[]StrayDataFindsHomeCached` |
| `SystemKeepsSurplus` | `SurplusNeverShrinks`, assuming that every home is below `ScanLimit` |

Each of the two proofs needs the other: the crossbar carries packets only if what
the nodes hand over are packets, which is so because of what travels (`IInv`, by
`IssueSends` and `ReceiveSends`); and a node may rely on what travels only if the
crossbar invents nothing. So `SystemInv` is the conjunction of the crossbar's
`WindowInv` and the nodes' `IInv` over `InTransit`, and one step preserves both
(`SystemStep`): the network's part of the step is a `TrafficStep`, that makes
`InTransit` change as a bag does, and that makes the step one of
`DirectoryCoherence`. A tick that calls nobody back is a stutter. The other
theorems are then those of the parts.

### The pipeline

`OutOfOrderProof` proves, for any set of operations a trace can hold, any
parameters `D`, `F`, `M`, `J`, `K`, `C` and any delays, 0 included, that every
behaviour of `OutOfOrder`'s `Spec` satisfies

| Theorem | Statement |
|---|---|
| `OutOfOrderTypes` | `[]OutOfOrderTypeOK` |
| `ImplementsDataflow` | `ExecutesByDataflow`, that is `Abstract!DataflowSpec` |
| `NoWakeupLost` | `[]NoLostWakeup` |
| `NobodyInTwoPlaces` | `[]HandedOutOnce` |
| `QueuesKeepTheirSize` | `[]QueuesHaveRoom` |
| `CallbackMatches` | `[]CallbackMatchesHead` |
| `MispredictHolds` | `[]MispredictHoldsFetch` |

`ImplementsDataflow` rests on `DataflowInv`. Its parts are a chain: the last
writer of a register is noted there, and the register busy until the result is
there (`LastWriterNoted`); so an instruction that reads the registers waits for
each producer that has no result (`WaitsForProducers`); so one that waits for
nothing and is marked ready has all of them (`ReadyHasProducers`); and what gets
a bus was handed out before (`HandedOut`). `p_execute` is then `Start`,
`p_state_update` is `Finish`, and all else stutters.

`NoLostWakeup` is the converse, that nothing waits for what is there. It is
false in the middle of a tick, so `WakeupInv` says which results are on the buses
but not yet seen: by operands from `p_state_update` to `p_sche_q_update`, by
registers to `p_register_update` only. That the registers see them first is what
lets `p_defer` run after the broadcast.

`QueuesHaveRoom` counts what is in the schedule queues together with what is on
its way there (`Sent`); its strengthening `RoomInv` says that nothing is on its
way when `p_dispatch_reserve` counts. `HandedOutOnce` is inductive when written
out for the six places (`InOnePlace`), given that an increasing queue as long as
a set has elements holds each of them once (`IncreasingQueue`).
`MispredictHoldsFetch` needs it: a branch on a bus had no result before, so it is
the one that is waited for.

### The bus

`SnoopingProof` proves, for any number of processors, any lines and operations, any
delays and every scheme, that every behaviour of `SnoopingBus` satisfies

| Theorem | Statement |
|---|---|
| `TypeCorrect` | `[]TypeOK` |
| `WaitersMatchRequests` | `[]WaitersHaveOneRequest` |
| `OneOwnerHolds` | `[]OneOwner`: no two caches hold a line `MODIFIED` or `EXCLUSIVE` |
| `NoAssertFails` | `[]AssertsHold` |
| `BusyCounts` | `[]BusyWhileCounting`: the countdown runs exactly while a request owns the bus |
| `ServedInTurn` | `RoundRobin` |
| `KeepsReadersAndWritersApart` | `ImplementsReadersWriters` |

The proof first tabulates the protocols: `CacheTable`, `SnoopTable` and
`AnswerTable` say in a few lines what all five pairs of tables have in common
(an access asks for what its next state waits for; a request of another processor
leaves a waiting line alone and takes ownership away; an answer ends the wait), and
everything after them is about the bus. The inductive invariant `Inv` adds to
`TypeOK`, `WaitersHaveOneRequest`, `OneOwner` and `BusyWhileCounting` which states
a scheme reaches (`StatesOf`), that the kind of a request fits what its line waits
for, and what holds *between* the broadcast and the answer: the other caches have
given up what the answer will grant, and nobody can take it back, because whoever
wants to must wait for the bus. This is what `OneOwner` and the refinement rest on.
The refinement maps a broadcast to `Revoke` and an answer to `Acquire`; all else
stutters. `AssertsHold` needs that a line has at most one supplier: under MI,
MSI and MESI that is its owner.

Only MI and MSI are shown to keep readers and writers apart; the run
`snooping_exclusive` shows why MESI cannot be.

### The cache

`CacheProof` proves, for any geometry, delays, replacement policy and version, any
traces and predictors and whatever lines start as filled, that every behaviour of
`InOrderMachine` satisfies

| Theorem | Statement |
|---|---|
| `HeldOnceHolds` | `[]HeldOnce` |
| `TypeCorrect` | `[]TypeOK` |
| `CountersKnowTargets` | `[]CounterKnowsTarget` |
| `RequestsAreCached` | `[]BytesAreCached` |
| `LinesImplementLRU` | `ImplementsLRU`, for behaviours in which no age wraps (`[]NoAgeWraps`) |

A line that starts as filled has a tag, 0, but no valid sub-block, and stays where
the scan may pass it: the invariant `SetSafe` orders the slots. Of two slots where
the earlier is free or has the later's tag, the later is empty. That is inductive
because the scan stops at the first line that is free or has the tag; an eviction
happens only if no line is either.

`TypesFit` strengthens `TypeOK` by what a call is part of: it is the end of the
bytes asked for (`Part`), and of the request's kind where the version keeps to it
(`OfItsKind`). Ages stay in their
width because the code shifts by no more than `AgeBits` and because no request is
made at `AgeLimit`. `CounterKnowsTarget` is inductive on top of `TypesFit`.

`BytesAreCached` is about a request in the middle of its calls: `Progress` says
that each byte asked for is cached or still to come. A call may evict a line, so one
must know that it evicts none of the same request: two of its addresses with
different tags in one set are a way apart (`FarApart`), which is more than the
property allows a request to span. That rests on arithmetic of powers, `PowerSum`
and `DivideTwice` (2^(m+n) is 2^m 2^n, and dividing twice is dividing once by the
product); the prover knows nothing of powers, so 2^n is taken as the number of
subsets of a set of n (`PowerCounts`).

`LinesImplementLRU` maps the lines to what is `held`, `written` and `older` than what.
`SetLRU` is the invariant: the lines in use have tags and ages of their own and are
younger than the others, which are clean. A call ages every line of its set by one and
makes its own the youngest, so the order of the ages is the order of use
(`AfterLRU`), the line it takes is free, its own, or the oldest (`ChosenForTag`),
and its delay is the price of the pieces it touches. Which line
`malloc` left marked as valid makes no difference to any of it. `NoAgeWraps` is not
an assumption about the program's inputs but about how long it runs: an age has 64
bits in the code, and grows by one with each call into its set. It holds in every
state of the run `in_order` (`AgeLimit` is there for that), and where ages do wrap
the order of use is lost.

Assumed of the constants: the shift of `rrip_update` is no longer than an age; the
tag 0 that `init_line` writes is a tag; a set-up names a version, a policy, a
predictor and a trace, whose accesses have tags of `Tag` and whose taken branches go
to a `Target` (`Covered`); and `NoTag` is neither a tag nor a request.

### The trees

`SplayProof` proves, for any finite set of keys and any records, that every
behaviour of `SplayTree` satisfies

| Theorem | Statement |
|---|---|
| `TypeCorrect` | `[]TypeOK`, `node_count` included |
| `StaysSearchTree` | `[]SearchTree` |
| `ImplementsMap` | `ImplementsOrderedMap` |

`SearchTree` speaks of reachability, which is recursive. The invariant `Shape`
does without: there is a function `below` that gives each node a set of nodes, itself among
them; a child has the part of its parent's set that is on its side, and the root
has all. Each condition is about a node and its neighbours (`Above`), so a rotation
changes `below` at the two nodes it turns and nothing else (`LeftRotateShape`,
`RightRotateShape`), a new node joins the sets on the path to it
(`InsertedShape`), and a removed one leaves them, in the cases of one child
(`CutHalfShape`) and of two (`CutBothShape`), where a successor takes its place.
That the sets of two nodes are apart or one in the other follows (`Laminar`), and
with it that a node is on a path if its key is (`Downward`, `Upward`).

A call under way has invariants of its own (`Phase`): the key that is looked for, if
it is there, is below the node the loop stands at (`Descends`), and what
`tree_find_nearest` remembers is the greatest smaller key that is not (`Nears`).
So a call answers as the map does at the step that ends its loop, and all steps of
`splay` stutter. `Uncounted` is the node that is in the tree while `tree_insert` has not
counted it.

### The start-up

`StartupProof` proves, for any set of documents and any processor counts, that every
behaviour of `Startup` satisfies

| Theorem | Statement |
|---|---|
| `TypeCorrect` | `[]TypeOK` |
| `MachineIsWhole` | `[]RunsWhole` |
| `DocumentIsRead` | `[]ReadsDocument` |
| `FourSectionsReach` | `[]FourGetTheirSections` |

The invariant `StartupInv` is about stages (`StagesInv`: nothing is made before the
first init), objects (`ObjectsInv`: what each init has left behind by the time a later
one relies on it, as a pointer is kept only if its object has been made) and the
main loop (`RunningInv`). `ParserInv` says that the
parser's positions stay inside the file and its lists lists of words.

`DocumentIsRead` is about plain documents of any number of tokens, with texts and gaps
of any length: when the parser's loop has ended, the sections are those the
document means. Two things stand in the way. What a file says and what it means are
recursive functions over the document (`FlattenSeq`, `After`), which the provers
do not unfold. `Stepwise` does it for a property of the numbers up to the length
of the document: if it fails somewhere, it does so at a least number
(`WFMin`), which is neither 0 nor the next of one at which it holds. So there is a
layout of the file, a function that says where each token ends (`LayoutExists`), by
which the characters of each token and of its gap are found in the file
(`TokenAt`). And the parser does not know tokens. The invariant is that it has read
the first `k` of them and stands *between* two (only white space is left before
the next, and nothing at all if only comments came so far) or *within* a comment
(at or before its end) (`Between`, `Within`). One lemma for each kind of token finds where the
parser's scans end (`NameEnds` and its like), and one for each kind of step says
where it arrives (`ParsingSteps`). Every exception that `IsPlain` makes is needed in
one of them.

`FourSectionsReach` follows with `GivenInv`: what an init was given is what `getSettings`
finds for it, in sections that nobody changes any more.

### What is only model-checked

Liveness (`EveryOperationCompletes`, `SizedProgramsComplete`,
`BusOwnerGoesOn`, `SizedOperationsReturn`, `StartupEnds`), which is out of the
prover's reach. Every other property of a passing run is proved, `ImplementsLRU`
with the hypothesis named above.

## 5. Not modelled

- The memory layout of `directory[]`: it is allocated with one byte per entry
  and indexed as `int`, so entries of processors 6 and above lie outside it. The
  models keep the set of its entries that are 1.
- What a machine of one processor does, for which `bitMask` shifts by 64 and by -1:
  `Startup` says only that it may crash.
- Simulated time: ticks are counted only as far as the endpoints' countdowns do.
- Several processors on the one pipeline `P` of `processor_impl`, which `tick`
  would update once for each of them; its verbose printing; registers beyond the
  register file, which the trace reader accepts up to 33.
- Ring, mesh and torus. `nt` is `CROSSBAR` and nothing sets it. Their `route()`
  does not look for the destination: the ring's returns any free link of the node,
  the mesh scans `links[0 .. num_neighbors - 1]` although links are indexed by
  direction, the torus' second link goes the other way than its comment says. So
  there is no promise to check them against.
- `coherence/`: an earlier, unfinished copy of `d_coherence` and
  `coherence_impl_final`; `coherence.c` calls functions that `protocol.c` has
  commented out. The build does add it (`src/CMakeLists.txt:15`), while
  `coherence_impl_final`, which is modelled, is commented out there (line 24).
- What a trace holds. The text format, the task graphs of `trace/taskLib` (decoded
  by a third-party library) and the reader's start from the beginning at the end of a
  file decide which operations come, and the models let any come. A trace that ends
  in a newline never ends, as `feof` is set only after the last read; a model in
  which the trace is open-ended cannot tell.
- Ends of the word: addresses, tags and delays are numbers without a width, but for
  `HomeProcessor` and the ages of lines. What a predictor does with 0 bits of index or
  history, for which `bitMask` shifts by -1, and `cache_impl` with sets of no lines, beyond
  that it may crash (`Startup`).
- The compiler identification files under `CMakeFiles/`, which CMake generates.

## 6. State of the plan

The four machines, the engine and the trees are modelled, and every safety property,
action property and refinement that a passing run checks is proved. What could follow:

1. `NoAgeWraps` from a bound on the calls between two ages of a set, instead of as a
   hypothesis.
2. An abstract specification for RRIP, whose ages leave the range of its `k` bits.
3. The liveness properties, by hand from the theorems: what waits has its answer on
   the way (`NoMissForgotten`), nothing on the way is lost (`CrossbarIsIdeal`).
