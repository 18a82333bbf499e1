# Verification of Maelys Datalog

Maelys Datalog is a bounded, deterministic Datalog engine in C11. This directory
holds TLA+ models of its parts, TLC configurations that check them on small
instances, and theorems that TLAPS checks for every value of the constants. The
models are translated from `src/src/` (paths below are relative to it);
`PROJECT.json` maps every definition to the lines it stands for.

## The system

A *policy* (rules, policy facts, declared predicates) is loaded once, validated
and stratified. A *session* binds a policy to a *backend*, the component that
evaluates; the reference backend wraps the built-in *solver*. The caller solves
an EDB (a set of input facts) on the session and gets one *result*, leased until
it is freed. It can query the result and ask for explanations, which live in
storage the caller or the session provides. Everything is bounded: facts per
predicate, derived facts, recursion depth, bytes.

| Part | Source | State | What is hard about it |
|---|---|---|---|
| Session runtime | `runtime/maelys_datalog_runtime.c` | result lease, busy flag, deferred commit, explanation handles, one cached explanation | callbacks of the backend may call the API again; failures behind a successful status; a cache keyed by generation |
| Retained inputs | `runtime/maelys_datalog_inputs.inc` | a committed input set, generation and incarnation, a pending transaction | host and backend each keep a copy and exchange only differences; deferred and abandoned transactions |
| Allocation service | `runtime/maelys_datalog_allocation.inc`, `..._resources.inc` | linked blocks, charges, provisional marks, phase, poison | misuse from inside callbacks and from inside the caller's allocator; a failed operation gives back exactly its own blocks |
| Single-fact window | `runtime/maelys_datalog_window.c` | two banks of facts and deadlines, cursor, watermark, two sessions | an update of several fallible steps must happen or not happen |
| Group window | `runtime/maelys_datalog_group_window.c` | the same for events of several facts | the union of contributions has its own capacity |
| Solver | `core/maelys_datalog_solver.c` | windows of one fact array, rounds, strata | semi-naive rounds, freezing of strata, depth and capacity limits |
| Validation | `compiler/maelys_datalog_validate.c` | strata of predicates | rejects exactly the programs with a negative cycle |
| Input EDB | `runtime/maelys_datalog_input_edb.c` | staged facts, interned text, hash index | a batch that fails in the middle is rolled back |
| EDB, prepared session, symbols | `core/maelys_datalog_{edb,prepared_session,symbol_table,predicate_registry}.c` | fact arrays, lazily built index, session-local symbols | symbols of one solve must not leak into the next |
| Recycling, arenas | `runtime/maelys_datalog_{recycle,resources}.inc` | a slot under a spin lock, range registries | several threads |
| Registries, contexts, policies | `registry/maelys_datalog_modules.c`, `public/maelys_datalog_api.c` | catalogs, seals, reference counts | partial registration, last owner frees |
| Lexer, parser, program builder, manifests, formatting | `core/`, `compiler/`, `manifest/` | none that outlives a call | text processing |

`PROJECT.json` lists every component with what is modelled of it, and the hazards
at the lines where they bite.

## Modules

    Session        one session: lease, busy guard, candidates, explanations, inputs
    Lease          what a session promises an adapter, as a value
    SessionLease   the same as a specification; Session implements it
    Window         the two-bank window over two leases
    SlidingWindow  what the window promises its user; Window implements it
    GroupWindow    the window of event groups; implements SlidingWindow too
    InputEdb       the staging buffer: batches, journal, hash index, generations
    Allocation     the elastic allocation service and the host's phases
    Recycle        the recycled session storage, with threads
    Solver         both solve paths over ground rule instances
    Stratification assign_strata and the predicate its diagnostic names
    JoinPlan       the safety of a rule, and the order its literals are joined in

    MC*            instances for TLC
    *Proofs        theorems, checked by tlapm

### Session

A call of the API is cut where the code hands control to the backend
(`session_solve_materialized` into `solve`, `commit` and `discard`; the three
explanation callbacks). Between two cuts a call is one action, including every
early return that changes state. Because a callback may call the API again, an
action is enabled by the guards of its C function alone (`busy`, `active`,
`pending_commit`, the handles), never by the absence of a running callback;
`frame` and `depth` record what runs. `ResultCommit` alone asks for no running
callback: the C function tests only `pending_commit`, but it is internal, and its
callers (the two window adapters) hold a candidate whose solve has returned. A refused call changes nothing and is a
stuttering step. The backend is external: it may fail anywhere, and when it
commits it adopts the set described by the delivery it was given.

`handles` maps a storage slot to the handle linked there; the session's own
workspace is one slot. `cache` and `cacheKey` are the result-scoped explanation
cache. `inputs` is the retained-inputs record (committed set, generation,
incarnation, pending transaction). `known` is a base that some caller read, with
the set it named at that moment; the incarnation counter is global, so the base may
be one of another session (`OtherInputs`, external). Both counters wrap at their
width, and only the tests of the code keep them from it. Facts are model values; a fact outside
`Vocabulary` is one whose symbols are not in the frozen dictionary, so its
conversion fails.

### Lease, SessionLease, Window, SlidingWindow

Window's steps are the callbacks an update runs: solve the candidate bank, release
the old result, commit, or discard the candidate. At each of them the program can
prepare or release an explanation of the published result, which is what makes
the release of the old result fail, and can call the window again. A session is a
`Lease` value; `KeepsLease` shows that Session provides exactly these moves.
`ImplementsSlidingWindow` is a refinement: the abstract events are the facts and
deadlines of the active bank while the handle is usable, and a blank window
otherwise. In the abstract window events form a set, because occurrence IDs give
their order; `InArrivalOrder` checks that the bank keeps it.

### GroupWindow

The update is that of Window, with a table of groups: offset and length of a
group's contributions behind the static facts. The abstract event of a group is
the list its table entry cuts out, so the refinement checks the arithmetic of
offsets through every eviction and expiry. The heapsort that makes the union is
modelled by what it computes, the set of facts.

### InputEdb

One action per call. A batch is visited twice: the first pass measures and marks
new strings in the index, the second copies them. A failure looks the visited
strings up again in reverse and restores the entries they overwrote. Texts are
model values with a size and a hash; a copy is known by its offset. The same
module covers the small buffers that do without an index, which `IndexSlots`
decides as the code does.

### Allocation

Blocks are addresses of the caller's allocator. A request that is inside the
allocator is a state of its own (`request`), because the allocator may use the
service again there. A malformed call, or a size the service refuses, poisons the
operation as any other misuse does. The host's phases are those `session_solve`, prepare,
`result_free` and `session_free` set around the callbacks.

### Recycle

Inside the lock, what a thread reads and what it writes are two steps; malloc and
free are steps of their own, outside of it. The destructor may run while other
threads still work.

### Solver

The array `idb_facts` is cut by end indices into windows: slices of finished
strata, accepted facts of the active one, the delta, and the facts of the running
round. No operation depends on the order inside a window, so windows are sets; how
many entries the array holds, and how many of a predicate, is counted apart from
them (`used`, `per_pred`), as the code does, so an entry stored twice would take
room twice. A rule is given with its ground instances; a body literal is an atom or *closed* (a
negated atom, an aggregate, a comparison or a filter, which read only what no
longer changes). What unification and arithmetic do decides which instances
there are; an instance marked `fatal` is an evaluation error. The mark is fixed: the
budget of filter calls, which a whole solve shares, is left out, and no property
depends on which error is met. Base facts of a derived predicate, which only the
low-level API can supply, are excluded by `ProgramAssumption`. The order in which
a join visits the literals is any order that `build_static_join_order` or an
external planner may produce, since it decides whether an error is met.

The meaning of a program is stated without windows and rounds: `LeastClosed` is
the least set closed under the rules of a stratum, `Naive` the naive iteration.

The stratified path accepts an empty delta after the last allowed round and the
other path does not, so one more round of recursion fits the depth bound when a
program contains a negation or an aggregate. No document states the exact number
of rounds, so both are modelled as they are, by `Converged`.

### Stratification, JoinPlan

Stratification visits the rules one by one, as the passes of `assign_strata` do,
then follows the recorded dependencies to the predicate that is reported. JoinPlan
puts two distant pieces of code together: the check of a rule when it is loaded
(`validate_rule_impl`) and the order in which every evaluation joins its literals
(`build_static_join_order`), which trusts that check. A rule carries whether an
external planner orders it; that planner may pick any candidate, or fail.

## Runs

| Run | States | Shows |
|---|---|---|
| `session_inputs` | 68,975 | retained inputs with a transactional backend: host and backend never drift, aborts leave no trace, a transaction starts only on the set its base names (up to symmetry of facts) |
| `session_explain` | 284,207 | handles, cache and reentrant calls over three results; every call returns |
| `allocation` | 8,770 | accounts are exact and below the cap, nothing leaks, adopted blocks survive failed operations |
| `sliding_window` | 1,699 | the window's promise: IDs, deadlines, capacity |
| `window` | 43,716 | the two-bank window implements it; one lease; operations end |
| `group_window` | 216,587 | the window of groups implements it too; its result is that of the union |
| `input_edb` | 897 | a batch is appended exactly or leaves no trace; index and arena agree |
| `recycle` | 23,056 | every block has exactly one owner (up to symmetry of threads and blocks) |
| `solver_model` | 2,696 | recursion, negation and a sum on all 64 graphs of three nodes: perfect model, rounds match the naive iteration, a solve fails for depth exactly when it needs more rounds, termination |
| `solver_flat` | 14,704 | a positive program, a failing comparison and a planner, on the other path, with little room: overflow is real, depth failures are exact |
| `stratification` | 285,480 | strata are the least ones; exactly the cyclic programs are rejected; the predicate named is on a cycle |
| `join_plan` | 103,271 | an accepted rule can always be ordered, safely, and its local variables stay local |

### Bounds

`session_inputs`: three convertible facts and one that does not convert, a
capacity of two, so that composition overflows although both lots fit; three
generations and two incarnations, so a base can be stale by either and both
counters reach their end.
`session_explain`: the session's workspace and one caller slot, two queries, three
results, so a cached text can be asked for after its result was replaced.
`allocation`: three blocks of two charges under a cap that two large and one
small block pass. `window`: capacity two and three IDs, so that eviction happens
and the cursor reaches its end; two times, so that an event expires, is due
exactly at the watermark, or is refused. `group_window`: two groups with different
nonempty lists fit together, so eviction and expiry move a slice of contributions
(with lists that exclude each other the offsets would never be exercised); two long
lists pass the contributions, and a long one with the static fact the unique facts.
`input_edb`: three of four texts hash to the last slot, so probe chains wrap
around; the generation wraps after three clears instead of 255, and the threshold
for an index is three distinct strings instead of 16, so both kinds of buffer
occur; batches are refused after they marked several strings, over stale entries
too, and the journal reaches its bound. `recycle`: two threads, three blocks, and
one size beyond the bound. `stratification`: all programs of three one-literal
rules and of two rules with up to two literals over three predicates.
`join_plan`: all rules of up to three literals out of fifteen, with four heads.
`solver_model`: paths of three nodes converge exactly when the depth is spent,
cycles of three need a round more and fail. `solver_flat`: some graphs need more
rounds than the bound, some more facts than the capacity, some more of one
predicate than its share; others end with exactly as many, with a fact that several
instances of one rule derive, and the last rule of the program fires in solves that
succeed.

### Fairness

Session: a callback the backend runs returns (weak fairness of the return
actions only); nothing forces a caller to call. `CallsReturn` depends on nothing
else. Window: the same for the callbacks of its sessions. Solver: the solve is one
sequential loop, so its next step is weakly fair. All other modules state safety
only and assume no fairness; in particular a spin lock guarantees no thread its
turn, so Recycle promises none.

## Proofs

`SlidingWindowProofs` proves `WindowPromise` for every capacity, set of times,
set of payloads and range of IDs. The inductive invariant is its three parts and
the types: the capacity bound needs the uniqueness of IDs (only one event is the
oldest, and it exists because a nonempty set of naturals has a least element), and
that needs the types.

`SolverProofs` proves for every program, every EDB and every order of joins that
a successful solve is the perfect model (`PerfectModel`), and that an overflow means
the model does not fit (`OverflowIsReal`). The invariant types every window by
stratum, so that a closed literal reads exactly the finished strata. It says that
the two counters count every stored fact once, which makes a test of the counters a
test of the model's size. It says that what is stored is in every
closed set (soundness), and that every instance over older facts has been applied:
by the base pass, by the rounds before, and by the literals of this round that had
their turn as delta (completeness). Overflow follows from soundness and the counters, since a
finite set is no larger than one that contains it.

`StratificationProofs` proves `LeastStratification`, and that an accepted program
has no cycle through a negation or an aggregate. The rules visited since the last
change are satisfied, and no stratum ever exceeds that of a valid assignment. Along
a dependency strata never rise and fall strictly at a negation, so a cycle through
one would lie below itself.

`JoinPlanProofs` proves `NeverStuck`, `OrderIsSafe` and `LocalsStayLocal`: atoms are
always safe; when all are placed the keys of aggregates are bound; with their
results everything else is. What is bound stays among the variables visible
outside aggregates, which acceptance keeps apart from the local ones.

Assumptions are those the modules name (`ASSUME`): positive bounds, finite sets and
well-formed programs, as loading guarantees them.

Only model-checked: every liveness property (`CallsReturn`, `OperationsEnd`,
`Terminates`), because the prover does not treat fairness; the properties stated
with the recursive function `Naive` (`RoundsMatchNaive`, `DepthFailureIsReal`,
`AcceptsWithinDepth`), because their induction over the number of rounds is out of its reach; the
refinements `KeepsLease` and `ImplementsSlidingWindow`; that every cyclic program
is rejected and the culprit is on a cycle (`RejectsExactlyCycles`,
`CulpritOnCycle`), which counts passes; and the properties not
listed under `theorems` in `PROJECT.json`.

## Not modelled

Text processing (lexer, parser, manifests, canonical form, explanation text),
language bindings, SDK and tools. Of the solver: unification, the arithmetic of
comparisons and aggregates, the budget of filters, and the search that builds an explanation. The modules
map about a fifth of the lines under `src/src/`; the plan below is what is missing.

## Plan

1. BackendOutput: quotas and sticky errors of `emit`, `charge`, `filter`.
2. The range registries of `resources.inc`, with threads and two locks.
3. Prepared session, EDB and symbols: no symbol of one solve reaches the next.
4. Contexts, registries and policies: seals, partial registration, reference counts.
5. Aggregates, comparisons and unification of the solver as operators, checked
   against reference definitions with their integer widths.
6. The search of an explanation over the solved state.
7. Proofs: the session's invariants; the accounts of the allocation service; one
   owner per block in Recycle; the refinement of SlidingWindow by Window.
