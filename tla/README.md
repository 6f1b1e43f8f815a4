# CircLS: a TLA+ model of the PPM compiler

CircLS compiles a Clifford+T program, given as a sequence of joint
Pauli-product measurements (PPMs), to a lattice-surgery circuit for surface-code
patches, and samples the circuit to estimate its logical error rate. This
directory holds a TLA+ development of its core:

* the passes that turn a program's Pauli form into joint measurements, with the
  scheduler that permutes them;
* the driver that turns the measurements into a circuit while patches are born,
  turned, measured jointly and read out, and the same qubits serve as data of one
  patch, as corridor of several couplers and as data of another patch;
* the two layers under the driver: the registry of qubits and checks, and the
  tracker that derives every detector and observable of the circuit;
* the sampling pool that runs the finished circuit, and the accounting of a batch.

Contents

1. The system
2. What is modelled, and how it corresponds to the code
3. The properties
4. The model-checking runs
5. The proofs
6. Disagreements found
7. What is not modelled
8. Plan

Paths are relative to the repository root (`src/` of the checkout).

## 1. The system

    QASM / Pauli program
      -> circls/interop/nwqec      transpile, normalise            (frontend)
      -> circls/compiler/measure_reduce, circls/interop/ir,
         circls/compiler/scheduling
                                   re-selection, reordering, Y-free sweep,
                                   prefix drop, deferral, schedule, gadgets
      -> circls/compiler           mapping, assignment             (placement)
      -> circls/core/sequential_ppm_ls.py   SequentialPPMExperiment.build()
           with mixins  compiler/rotation_plan.py   (which targets turn, when)
                        compiler/parallel_windows.py (which steps share a window)
                        compiler/liveness.py         (who is retired, when)
           asking       compiler/routing.py          (corridors)
                        core/multi_patch_coupler.py, core/joint_merge.py
                                                     (is a corridor buildable?)
           changing     lightstim/ir/qec_system.py   (registry of qubits)
                        lightstim/ir/tracker.py      (logical budget, tableau)
                        lightstim/ir/builder.py      (emission)
      -> stim circuit -> circls/tools (evaluate, report), circls/metrics
                      -> lightstim/simulation/decoder_backend (Monte Carlo)

The compiler is one sequential call: no threads, no messages, no files. What
makes it hard is that decisions are taken long before they are used, and
against a forecast, and that several ledgers must tell one story. The Monte Carlo
backend is concurrent: a pool of processes shares four counters under one lock, the
parent polls them without it, and workers may die.

| component | state | operations | what makes it correct |
|---|---|---|---|
| passes (`pipeline.py`, `measure_reduce.py`, `interop/ir`) | the stream of operations, the permutation of its bits, pending masks, gadget conditions | re-selection, reordering, sweep, prefix drop, deferral, schedule, expansion, folding | the compiled program's bits have the source's joint distribution; a legal program is never refused |
| scheduling (`scheduling.py`) | none that outlives the call | `schedule_ops`: candidate orders, local search; `verify_schedule` | the order returned is a permutation that respects slot ranges and precedence; the search ends |
| driver `build()` (`sequential_ppm_ls.py`) | loop index, `allocated`, `measured`, `_birth_state`, `_routes`, `_walls`, `_done_steps`, `_eff_orient` | plan, register up front, per step: births, deferred allocation, rotation, registration, merge window, retirement; final readout | every step measured once, on living patches, in an order equivalent to the program's; every patch read out once |
| liveness (`liveness.py`) | lifetimes, `_lazy_reuse` | `compute_lifetimes`, `_lazy_reuse_map`, `_retire_consumed` | ground counted as free has really been freed |
| windows (`parallel_windows.py`) | `_step_batches` | plan batches; try a window, or demote to the serial path | a demoted batch leaves nothing behind that breaks the serial path |
| rotation planner (`rotation_plan.py`) | `_rotate_plan`, `_rot_lazy`, `_planned_tree` | probe, choose, bind late | a coupler runs in the orientations its targets have then |
| registry (`qec_system.py`) | coordinate and index maps, owners, categories, `active_qubit_indices`, check records, signatures, active and paused checks, per-patch maps | `add_patch`, `grow_patch`, `move_corners`, `shrink_patch`, `retire_measured_patch`, `register_coupler`, `activate_coupler`, `deactivate_coupler`, `remove_coupler` | the maps agree; a round measures the checks of the layout; a live qubit is never handed out |
| tracker (`tracker.py`) | stabilizer and logical rows with their records, absorbed relations, the logical budget, `stabilizer_with_logical_components`, record labels | initialization, mid-circuit measurement, data measurement, retirement, late declaration | detectors deterministic, observables determined, standing + absorbed = expected, nothing missed |
| builder (`builder.py`) | circuit text, declared coordinates | initialize, extract, read out | each qubit declared exactly if it is acted on |
| router (`routing.py`) | cached keep-out graphs | corridor search, portfolio | corridors avoid keep-outs, share no cell |
| construction oracle (`multi_patch_coupler.py`, `joint_merge.py`) | none | build or refuse | a built coupler measures the product it is asked for |
| Monte Carlo runs (`decoder_backend`) | four shared counters, the workers' shots in flight, the reporter | reserve, sample, count; poll, report, join | no shot lost or counted twice, limits held, the call returns |
| batch accounting (`_accounting.py`, `post_select.py`, `decoders/chain.py`) | the masks of one batch | post-select, escalate, judge | every shot gets the verdict it deserves |

The hazards of this code, each at its line, are listed in `PROJECT.json`
("hazards"). The important ones: a coupler registered before the circuit starts
and run after births, retirements and rotations nobody had performed yet; a
batch refused half-way that leaves its allocations, some couplers and their pins
behind; ground counted as free from lifetimes rather than from what was
retired; a loop index that walks over steps which already ran in a window; rows of a
tableau multiplied and replaced in place while four other ledgers name them; cells
shared by several couplers and a turning patch, freed by one map and kept by another;
four permutations of the program's bits composed in a row; workers racing for the last
shots, or dying with shots in hand.

## 2. What is modelled

### Modules

| module | what it is |
|---|---|
| `PPMProgram` | the abstract specification: what a build promises about a program, with no corridors, cells, batches or rotations |
| `PPMDriver` | `build()` with its three mixins and the registry calls it makes at the grain of cells, one action per step of the loop; its properties; `Program == INSTANCE PPMProgram WITH born <- allocated, read <- measured` |
| `PPMExperiments` | the contract of an experiment, as assumptions on `Experiments`: what `SequentialPPMExperiment.__init__` checks, what `compute_lifetimes` derives, and the placement the pipeline makes |
| `PPMInvariants` | the inductive invariant of the proofs, in named parts: order, layout, orientations |
| `PPMOrder_proofs`, `PPMGeometry_proofs`, `PPMOrientation_proofs` | the theorems about the driver, each module on top of the one before it: types, program order and the refinement; lifetimes, registrations and ledgers; orientations |
| `Scheduling` | `schedule_ops` and `verify_schedule` (`scheduling.py`), with the properties and the inductive invariant |
| `Scheduling_proofs` | the theorems about the scheduler |
| `Paulis` | signed Pauli products as the code computes them (`pauli_algebra.py`, `pauli_ir.py`) |
| `StabilizerStates` | the reference: what a stream of rotations and measurements does to a stabilizer state, and the joint distribution of its results |
| `PauliCompile` | the first half of `compile_qasm`, one action per rewriting; extends `Scheduling`, whose actions are its schedule pass |
| `RotatedLayouts` | the geometries a patch passes through in a Litinski rotation |
| `QECSystem` | the registry: every operation of `qec_system.py` that the experiments call, as an operator on the registry's maps |
| `RegistryCalls` | the driver's calls on the registry, qubit by qubit: registration, merge, rotation in five stages, invalidation, retirement; its properties and their inductive invariant |
| `RegistryInvariants` | the contract of placement and routing that a program must meet, and the inductive invariant under which the registry's ledgers are exact |
| `RegistryCalls_proofs`, `RegistryLedger_proofs` | the theorems about the registry: its maps and the indices it frees; its ledgers of use, and what a rotation leaves of the couplers it makes stale |
| `GF2` | sums, ranks and decompositions of sets over GF(2) (`linear_algebra.py`) |
| `SyndromeTracker` | the tracker's handlers (`tracker.py`, `tableau.py`), as operators on its state |
| `LatticeSurgery` | merge, split, readout, birth and retirement experiments on the tracker, beside the physical state of the qubits |
| `SamplingRun` | the abstract specification of a Monte Carlo run |
| `SamplingPool` | `SimulationPipeline.run` with its pool of workers or in one process; shown to implement `SamplingRun` |
| `SamplingPool_proofs` | its safety properties and the refinement, for any number of workers |
| `BatchVerdict` | post-selection, decoder chain and accounting of one batch, against a definition shot by shot |
| `BatchVerdict_proofs` | its properties for any number of shots, stages and observables |
| `MC...` | the instances TLC checks |

How they meet. `PauliCompile` composes the passes with the scheduler by extension: they work
on the same variable `ops`, and `StatisticsKept` must hold between any two steps of either. What
it ends with, the steps of the program, is the input of the driver; after that the two share
no state. `RegistryCalls` composes the registry with the order in which the driver calls it;
`LatticeSurgery` composes the tracker with the orders in which the builder may call it and with the
state the circuit prepares. `PPMDriver` keeps an abstraction of the registry, one owner and one activity bit
per cell, that lets it be proved about. `SamplingPool` and `BatchVerdict` are the inside and the outside of a batch: what the
pool chooses for the outcome of a batch (`Tallies`) is what `BatchVerdict` computes.

### State of the driver

| variable | in the code |
|---|---|
| `exp` | constructor arguments and what is derived from them once: program, placement, lifetimes, `_y_names`, `_keep`, `_liveness`, `_first_use_init`, `parallel`, `auto_rotate`, which steps are adjacent or planned snakes, and for each step its candidate constructions |
| `pc`, `i` | the place in `build()` and the index of the loop it is in |
| `vertical` | `_eff_orient`: the patches standing X-vertical |
| `moves`, `late`, `pin` | `_rotate_plan`, `_rot_lazy`, `_planned_tree` |
| `head` | `_step_batches`, as the first step of each step's batch |
| `allocated`, `birth`, `measured` | `allocated`, the in-flight names of `_birth_state`, `measured` |
| `owner`, `live` | `index_to_owner_map` and `active_qubit_indices`, one entry per coarse cell |
| `coupler`, `walls` | the registered `ppm_j` with the corridor and orientations it was built for; `_walls` |
| `window`, `done` | the steps of the merge window in progress; `_done_steps` and the steps the loop has run |

A coarse cell is the unit in which the layout is written (`CellSpec`): a patch
stands on one, a corridor is a set of them. Qubits of a cell always change owner
and activity together, so the two registry maps need one entry per cell.
They are kept as separate variables, next to the driver's own sets, because the
code keeps them apart: the driver decides from `allocated` and `measured`, the
retirement sweep from the owner map, and the collision guard from the active set.

### Actions of the driver

The order of the actions is that of the code.

*Planning.* `PlanSeam`, `PlanNothing`, `PlanRouted` are the three ways through a
turn of the loop of `_plan_rotations`. `AllocateUpFront` is the first loop of
`build()`. `PlanBatch` is a turn of `_plan_step_batches`; the code collects a run and
then cuts it, the model joins a step to the batch of its predecessor, which gives
the same batches. `RegisterUpFront` is a turn of the registration loop with its
`continue`s and its swallowed refusals. `StartCircuit` is `_setup` and the first
reset.

*The loop.* `FallbackBirth`, `SkipDone`, `EnterStep`, `DeferredAllocation`,
`RotatePlanned`, in that order for each step; then `Dispatch` goes where the code's
conditions go.

*Registration in the loop.* `RegisterSnake` (`_register_planned_snake`), `RegisterSeam`
and `RotateSeam` (`_register_adjacent` and the repair of a seam that breaks the
parallel law), `RegisterRouted` and `RotateBlocked` (`_register_step` and the repair by
rotation). A rotation that was not planned ends with
`_invalidate_downstream_registration`, modelled by `Forget`, inside the same action.

*Shared windows.* `BatchPreamble`, `BatchSeam`, `RegisterBatch`, `BatchStarves`,
`BatchRefused` are the phases of `_try_run_batch`. `RegisterBatch` chooses a prefix of
the members to have been registered before a refusal, since a refused batch keeps
what was already registered.

*The window.* `MergeStep`/`MergeBatch` (activate), `BeginRide` and `FinishRide` (the
`_birth_start`, `_birth_rounds` and `_birth_finish` of the next step's Y patches), `Split` (deactivate and read
out), `RetireConsumed`. `LeftoverBirth` and `FinalReadout` close the circuit.

`raised` stands for every error with which `build()` refuses an experiment it
cannot route; `fault` for an internal error, the collision guard of `add_patch` or
the assertion that a Y patch is never a newcomer; `lawless` for the exception of a
seam refused inside a batch. They are told apart because the properties do.

### Abstractions in the driver

* **Geometry.** `exp.cands[j]` lists constructions of step `j`: a set of corridor
  cells and the orientation each target must have. `Routable` keeps those that avoid
  the patches in view and fit the orientations. Every oracle may also
  refuse all of them. The scoring, the bend or diagonal schedule, and the four
  portfolio orders are therefore a choice among outcomes; the model has more
  behaviours than the code, never fewer.
* **Colours.** A patch's `conj`, `type` and bus axis are one bit, X-vertical or not. The protocol
  that turns a patch (`litinski` or `rotate_90`) is a flip of the bit. Y patches never
  rotate, as in the code.
* **`exclude`.** The names passed to the router as excluded are those `Expired`
  already hides.
* **`remove_coupler`.** The heir of a shared cell is any surviving holder; the code
  takes the first registered.
* **Batch retirement.** `_retire_consumed` is called for each member in turn. The
  calls have no effect on each other and are one action.
* **A leftover Y patch** joins `allocated` (the code notes it in `_born` only): after
  the loop nothing reads the difference.
* **Lifetimes of an unused patch.** `first = 0`, `last = n`: it is there from the start
  and never retired.
* **Emission** of instructions, idle rounds, measurement records and detectors are left out; no
  property here is about them.

The placement contract, `PlacementOK`, allows two patches on one cell only if one
succeeds the other in time. It also excludes one combination, a successor whose first
step is a direct seam while shared windows are on: there the preamble
would allocate the successor while its predecessor is alive. The pipeline does not
produce it; the constructor does not check it, nor the rest of the placement.

### The scheduler

`schedule_ops` builds up to five candidate orders, keeps the cheapest and improves
it by local search. Each decision it takes is an action.

| variable | in `schedule_ops` |
|---|---|
| `ops`, `parallel` | the arguments |
| `slots`, `range`, `pred` | `step_idx`, the allowed slots per step (`lo`, `hi`), the precedence DAG |
| `pc` | the heuristic at work |
| `draft` | `greedy`, `anchored`, `coloured` or `layered`, as far as it is built |
| `hub` | how many turns the loop over `by_deg[:3]` has made |
| `class` | `classes`, then `layers` (`layer_of`), as far as they are filled |
| `best`, `sweeps` | the variables of that name |

`GreedyPick` places one step, `GreedyStuck` is the slot-range deadlock that abandons
the greedy. `AnchorHub` moves one hub. `Classify` puts one step into a class (of the
colouring) or a layer, `Concatenate` lines the classes up. `Offer` and `AnchorDone` add
the draft to the candidates. `Search` is one sweep. `verify_schedule` is the operator
`VerifySchedule`; `contiguous_batches`, `batch_span_cost` and `_lifetime_sum` are
`BatchHeads`, `Cost` and `Spans`.

Abstractions. Slots are named by their position in the program, the code numbers
them; `Ord` is the number. The code collects the candidates and takes the minimum
at the end; the model keeps the better one as they come, with ties going to the earlier,
which is the same order. The code takes the first improving move it meets, the
model any improving exchange or, where there is none, any improving reinsertion. An
operation is its kind and its Pauli product; signs and masks do not matter here.

### The passes

| variable of `PauliCompile` | in the code |
|---|---|
| `source` | the loaded frame, the rotation heads of the T-as-S front end, and the options `measure_reduction`, `step_scheduling`, `parallel_steps` |
| `ops`, `pass`, `at` | the stream between two passes (shared with `Scheduling`), the pass at work and its loop index |
| `support`, `recon` | the variables of `reduce_measurements`, and the `Reconstruction` it returns |
| `trace` | `pre_sched_m_load`, then `m_load_trace` |
| `out`, `pending` | the variables of `y_free_sweep` |
| `prog` | the `PPMProgram` of `expand_gadgets`: operations, gadgets with `kappa` and `conds`, out-bits with `flip` and gadgets |
| `folded` | the result of `folded_out_bits` |

`ReduceOnce` is one improvement found by the two nested loops, in their order; `Reduced` inverts
the support matrix and computes the signs. `Reorder` is `reorder_weight1_last`, and the splice of the
heads. `Sweep` is one turn of `y_free_sweep`, `DropFreePrefix` and `Defer` the passes of these names.
`BeginSchedule`, `Schedule`, `EndSchedule` are the call of `schedule_ops`, any step of its search, and the guard
behind it. `ExpandRotation` and `ExpandMeasurement` are the two branches of `expand_gadgets`, `FoldTerminal` is
`folded_out_bits`, `Bind` the check by which `append_program_observables` pairs steps and bits by
position. An exception of any pass is `pass = "refused"`.

`Paulis` computes with letters and powers of i, as the code does; `StabilizerStates` knows no letters
and no rules of the compiler: a group element is a pair of sets with a sign, a rotation and a measurement act on
the whole group, and a random result is a coin. The results of a program are sums of coins and
their joint distribution is uniform on an affine space, so two programs have the same distribution if and only if
the same sets of bits have a constant sum, with the same constant (`Distribution`).

Abstractions. Records are named by the step that makes them; the observables' closures, which the
tracker computes, are not here. The programs considered start at the loaded frame: any set of
n independent commuting signed products is the frame of some Clifford circuit.

### The registry

`QECSystem` has one record with every map of the class (its header names them), and each
operation is an operator on that record that ends in a registry or in a `fault`. `RegistryCalls` calls
them in the driver's order on qubit-level geometry: `AllocateUpFront`, `RegisterUpFront`, `SetUp`,
`AllocateFirstUsed`, `BringIn`, `UseRegistered`/`RegisterStep`/`BeginRepair`, the five stages `RotateGrow`,
`RotateMoveCorners`, `RotateShrink`, `RotateGrowBack`, `RotateShrinkHome` of `litinski_rotation.py`, `Invalidate`
(`_invalidate_downstream_registration`, `remove_coupler`) until `Rotated`, `Merge`, `Split`, `RetireConsumed` until
`NextStep`, `ReadOut`. A loop over patches or couplers (allocation, invalidation, retirement) is one action per member, because each
turn is a call of its own, and an action that leaves the loop; the patches allocated in a step wait in `newly` until
`BringIn` initialises them together. Steps are numbers and `Coupler` gives the names `ppm_j`. Invalidation goes in the order of the
steps, as the code's does; allocation and retirement go in any order, which includes the code's. `first_use_init` is `deferred`;
`liveness` off is `keep` with all patches in it, since then nobody is retired before the final readout.

Abstractions. Steps are routed ones: direct seams (`_register_adjacent`), and with them the seam walls, are not here. A wall leaves
out of its coupler every cell whose coordinate is known (`sequential_ppm_ls.py:991`, `joint_merge.py:441`) and uses it all
the same, so nothing this model says of what is held or declared covers walls. Which corridor and orientation a
step takes is input (`Programs`); a coupler is the
straight merged rectangle less the checks of its targets, which is what the construction oracle builds for
two aligned patches. Patches turn by the Litinski protocol, towards smaller y, in phase 0, and each once; there
are no Y births and no SWAP rotations. An exception ends the behaviour, where the code catches one in the middle of a
repairing rotation and tries the next target; the runs show that it does not occur.

### The tracker

`SyndromeTracker` holds the tableau as the code keeps it: rows of a Pauli and a set of records, the sentinel
record of a direction nobody watches, standing logicals, `absorbed_ops`, the budget, `swlc`, the
label of each record, and the emitted instructions. Its handlers are operators: `ProcessInitialization`,
`ApplySyndromeExtraction` (with repeated rounds), `ProcessDataMeasurement` (X layer, then Z), `RetireQubits`,
`DeclareLogical`. `LatticeSurgery` calls them in every order the builder allows and runs, beside them, the state of
the qubits: `truth`, a stabilizer state whose signs are sums of coins, and `outcome`, what each record is in terms of the
coins. A positive coin is a random result, a negative one is the value a patch was prepared in.

Abstractions. Detector coordinates, flag folding and post-selection tags are left out; combination
absorption, `RetireDependent` with an effect, and the error of an incomplete tableau are in the model and are not reached by the runs. `Coefficients` takes the decomposition
elimination gives; the code also reduces its weight (`reduce_weight`, by default at `tracker.py:1897`), which differs only
over dependent rows, and over those the runs do not decompose. The grow and shrink stages of a rotation also reach the tracker and are not
among the operations of `LatticeSurgery`: the "Logical Count Mismatch" of `docs/KNOWN_ISSUES.md`, which two standing logicals
cause that vanish in a grow stage, lies outside what these runs cover, and `NoFault` says nothing of it.
Patches are two-qubit repetition codes, corridors one or two qubits wide: the tracker's rules see
Paulis, not distances.

### Monte Carlo runs

`SamplingPool` has the shared counters, each worker's place in its loop with the shots it took and the
verdict it holds, and the parent's place with the snapshot it is putting together. A critical section is one action; the
parent's three reads of the counters are three, because it takes no lock. Which shots survive and which are wrong is
a choice. The fault model is that of `multiprocessing`: a worker may raise or be killed between two
critical sections (`Die`), at any time and any number of them, and the parent joins it like any other. A worker killed
inside a critical section would keep the lock for ever; nothing in the repository promises anything about that
and it is not modelled. `BatchVerdict` takes one batch through `apply_post_selection`, the chain of decoders and
`count_batch`; a shot is what the properties tell apart.

## 3. The properties

State invariants of `PPMDriver`:

* `StandingOwnsCell`: a living patch owns the qubits of its home cell. The retirement sweep and
  the final readout select qubits by owner, so a coupler that took the cell over would
  leave part of a patch unread.
* `LedgerExact`: the active set is exactly the home cells of the living patches and,
  during a window, its corridors.
* `CorridorClear`: when couplers run, no corridor crosses a living or nascent patch, no two
  corridors meet, and the targets are alive. Nothing checks this at that point: the
  corridor was chosen earlier, possibly before the circuit began.
* `RouterSeesAlive`: whoever `_specs_for_step` hides from the router is not alive. The
  rule reads lifetimes; births, batch preambles and retirement must have followed them.
* `NoFault`: neither the collision guard nor the birth assertion fires.
* `NoStaleCoupler`: a coupler runs in the orientation its targets have now.
* `CompleteWhenBuilt`: a finished build measured every step, read every patch, and
  left no qubit live.
* `BuildInv` (in `PPMInvariants`): batches, progress, lifetimes, registrations, ledgers and orientations
  fit together; the inductive invariant of section 5, conjunct by conjunct.

Temporal:

* `Terminates`: a build returns or raises. A demoted batch is not attempted again and a
  repaired step is not repaired again.
* `ImplementsProgram`: the refinement of `PPMProgram`. Each patch is born once and read once,
  each step is measured once on living patches, only steps with no patch in
  common change places, nobody is read before the last use, outputs last.

Of `Scheduling`:

* `Contract`: the schedule returned passes `verify_schedule`, which the code runs only on
  schedules from outside.
* `ProgramOrder`: at every moment the best order keeps all anticommuting operations in program
  order, two steps or a step and a fixed operation alike.
* `GreedySound`: the greedy draft is lawful at every length, and closed under predecessors;
  what can stop it is the slot-range deadlock alone.
* `LayeringRespectsPrecedence`: the comment at `scheduling.py:311` claims that layering
  yields valid orders where the colouring does not; it does, before any check.
* `Advances`, an action property: every step reaches a later stage or spends some of a bounded
  effort. It says that `schedule_ops` ends without asking for fairness: there
  is no step that does not bring the end nearer.

Of `PauliCompile`:

* `StatisticsKept`: at every point of every pass, between any two rewritings and any two steps of the scheduler's search,
  what is left of the program gives the bits of the source with the source's joint distribution. Signs,
  the reconstruction of re-selected bits, the four permutations of the bits, the pending masks of the
  sweep, dropped prefixes, gadget corrections and their conditions on each other, and the bits left to the terminal
  readout are all in it.
* `NothingRefused`: no pass refuses what the passes before it made of a legal program.

Of `RegistryCalls`:

* `NoFault`: no sequence of the driver's calls on routable programs ends in an exception of the registry.
* `MapsAgree`: coordinates and indices are inverse, both owner maps agree, and whatever a patch or coupler holds or is in use
  is on the map.
* `RegistrySound`: the inductive invariants of section 5, and that whenever a coupler is about to be removed, what only it holds is
  its own and not in use (`RemovalsClean`); and that the programs of the run meet the condition that gives it (`BarsClear`).
* `ChecksFollow`: a round measures the checks of the standing patches as they lie now, less the lobes an open coupler
  pauses, and that coupler's checks; no ancilla serves two; a patch's checks are recorded as its own.
* `LedgerExact`: the live qubits are the data of the standing patches and of the open corridor; what a patch
  owns and has not retired is the data of its geometry.
* `DeclaredIsTouched`: the circuit declares the qubits it acts on and, when complete, no others, and whoever reads it
  afterwards finds their coordinates (`CircuitLocated`). This holds of the programs of `registry`, in which no bar passes over a
  corridor that is removed later. It does not hold of the code: `docs/KNOWN_ISSUES.md:103` documents a compile that breaks it
  and does not say why, and `registry_bar` is a way to break it (section 6).
* `FreedStaysFree`, an action property: an index that `remove_coupler` took off the map does not come back to it. With the same condition.

Of `LatticeSurgery`:

* `NoFault`: no legal order of merges, splits, births, readouts and retirements ends in one of the tracker's errors.
* `DetectorsDeterministic`, `ObservablesDetermined`: no random result survives in an emitted parity; a detector
  does not depend on the prepared values either.
* `TableauIsState`, `RowsTrue`: the tableau spans the stabilizer group of the state the circuit prepares, and the records of
  every watched row tell the sign of its operator. While every patch stands its rows are independent; after a readout
  of one of two jointly measured patches the re-pricing of the budget may leave a duplicate row, so the property does not ask it there.
* `BooksClose`: when every patch has been read, no budget, no standing logical, no absorbed relation and no stabilizer is left.
* `NothingMissed`: when all patches are read by one call, the emitted parities span every parity that is not random.

Of the Monte Carlo modules:

* `WorkConserved`: every reserved shot is completed, in the hands of one worker, or was in the hands of one that died; errors
  do not overtake kept shots, nor those the completed ones.
* `LimitsHeld`: what a limit may be passed by does not grow with the run.
* `ReturnsAll`: a call that returns with its workers healthy has met a stop condition, and returns what all of them did.
* `Returns`: the call ends, whichever workers die.
* `ImplementsRun`: the refinement of `SamplingRun`: counts grow by whole batches with their verdicts, a return has a reason.
* `EachShotOwed`, `AttemptsExact`, `CountsDeserved`: escalation is by shot, the attempts of a stage are the shots
  all earlier ones failed on, and the counts are the sums of what each shot deserves under its policy.

*Fairness.* Of the driver: `WF_vars(Build)`: `build()` is one sequential call that does not stop
between two of its steps. Nothing stronger is assumed: no choice of an oracle is
fair, and `Terminates` holds when every candidate is refused. Of the pool: weak fairness of the parent and of each
worker's loop, because the operating system keeps running processes that are alive; none of `Die`, and
a worker that died takes no further step. The loop of the parent polls for ever unless workers end, so `Returns` needs both. The passes, the
registry and the tracker are checked for safety only and assume none.

Deadlock is checked in every run but those of `LatticeSurgery`: `Halt`, `Stop` and `Done` stutter only where the code has returned
or raised, so a state in which no rule of the
code applies would be reported. An experiment of `LatticeSurgery` really ends, when all patches are retired or
the bound on the records is reached.

## 4. The runs

| run | question | bounds | distinct states |
|---|---|---|---|
| `driver` | do the ledgers agree, are couplers and pins kept up to date, does every build end, and does it implement the program? | three families of 3-step programs on five cells. *Serial*: five target sets, lifetimes widened in every way, a Y patch, an output, retirement and deferral on and off, `p3` on a cell of its own or in the place of `p1`, an empty program. *Windows*: 4 patches, routed and adjacent members, a Y patch, an output, a seam the wrong way round, a successor on a used cell. *Rotations*: demands on one or two targets, snakes, seams, serial and parallel | 712,350 |
| `scheduling` | does every schedule meet the contract, and does the search end? | all programs of four operations out of six and of five out of four: joint measurements that share, anticommute and are disjoint, a gadget, fixed operations that bind steps from either side; both objectives; 2 sweeps, 3 hubs | 56,468 |
| `pauli_compile` | does every pass keep the statistics of the program, and accept what the one before made of it? | 2,208 programs: four frames on two and four on three qubits, up to two rotations in front out of ten and eight signed axes, with re-selection and schedule on and off; sweeps and hubs as in the code | 65,486 |
| `registry` | do the registry's maps, checks and ledgers agree through registrations, merges, rotations and retirements? | distance 3, two patches with a free tile between and one below, 3 steps of seven kinds (either or the turned orientation, joint, over retired ground), births deferred or not, no output, one, or nobody retired early (liveness off), no bar over a corridor that is removed later | 30,174 |
| `surgery` | is every emitted parity right, in whatever order the builder is driven? | two patches and a corridor of one qubit, `XX` and `ZZ` merges, both preparations, one patch possibly born from measurements, calls of 1 and 2 rounds, any readout, 18 records | 232,849 |
| `sampling` | are shots conserved, limits held, and does the call return, when workers race and die? | two workers, up to 5 shots in batches of 1 and 2, four pool configurations and 24 of the single process | 50,621 |
| `batch_verdict` | does every shot of a batch get what it deserves? | two shots, two decoders, two observables, every verdict, twelve policies, every set of silent stages | 352,608 |
| `heavy_steps` | what does a step above the search cap do to `NoStaleCoupler`? | the rotation family, cap 1 | violation |
| `unlawful_seam` | does a batch fall back to the serial path? | 2 steps, 4 patches | violation |
| `pauli_unguarded` | is a schedule that does not fit always taken back? | one Clifford frame on four qubits | violation |
| `surgery_unwatched` | is an observable always determined? | as `surgery`, with a corridor of two qubits that no check tells apart | violation |
| `registry_bar` | can whoever reads the circuit place its qubits? | the programs left out of `registry`, with first-use allocation and liveness both off: a rotation bar runs over a corridor that is registered up front and removed later | violation |

Why these bounds are enough. What the driver does with a step depends on that step, on one
earlier decision (a registration, a retirement, a rotation, a demotion) and on one later
event (a birth, a reuse). Three steps hold such a triple in every order. A batch with
a member refused after another one registered, followed or preceded by a
serial step, also fits in three. Four patches allow a batch of two disjoint pairs; one
cell more than patches gives a corridor on free ground beside those that borrow
the cell of an unborn or retired patch. The cap of `_ROTATION_SEARCH_CAP` is 6 targets in
the code; 2 and 1 put every step below it, or the pairs above it.

The passes act on one operation at a time against those before it: a mask, a
frame or a permutation goes wrong on two or three operations and on one random branch, and the
distribution sees all branches at once. The frames were chosen so that each of these happens: a sweep that widens an
operation onto a qubit already measured, a deferral, a schedule the guard takes back, two gadgets whose frames anticommute, an
operation with an even number of Ys, a re-selection of two rounds. The frame of `pauli_unguarded`, and others like
it, are kept out of `pauli_compile`.

In the registry a cell is contested by at most two couplers and a turning patch, which two patches and three
steps bring together in every order; `NSteps = 4` was also run once and passed. The tracker's
handlers see rows and columns, not patches: two patches give every relation between a measured operator and the tableau
(equal, dependent with and without a logical, anticommuting with stabilizers, with a logical, with both), and
eighteen records allow two merges with two calls each before the readout. Two workers meet at every point of their
loops, and the last batch is cut, rejected and lost; a batch of two shots has every pair of fates.

In the scheduler a step is bound by the steps and fixed operations it anticommutes with.
Four operations hold three steps and one that binds them; five hold a chain, a
hub with three neighbours, and a greedy that runs into a slot no ready step may
take. The cap of 40 sweeps is 2 here and is reached; the three hubs are the code's.

Between them the passing runs reach every action and every disjunct. Some
branches inside an action are never taken, and that is what the properties say: the collision
branch of `BringUp` (its mutants reach it), the last check of `MergeBatch`, which
finds two corridors of a batch sharing a cell, and the branches that end in `fault` or in a refused pass.

Each property of each passing run is also tried against a mutant of the code, kept next to the
definition it changes: a dropped laziness rule, a retirement one step
early, a batch that shares a patch, a seam whose repair is retried, a window that skips the
wrong number of steps, and so on. The table is in `PROJECT.json` ("mutants").

## 5. The proofs

TLC checks small instances; the theorems hold for every value of the constants.

### The driver

For any finite or infinite sets of patches and
cells, any experiments that meet the contract, and any cap. The only
assumptions are `ExperimentsAssumption` (the contract of `PPMExperiments`, part of which, `PlacementOK`, is met by the pipeline's
layouts and not checked by the constructor)
and `NamesAssumption` (names of patches, steps and "nobody" differ), which TLC
evaluates on every run.

* `PPMOrder_proofs!TypeCorrect`: `Spec => []TypeOK`. `TypeOK` alone is not inductive:
  an action inside a step uses `i` as a step, so `Typed` adds that the index is below
  `n` at such places and that the experiment is one of those considered.
* `PPMOrder_proofs!OrderCorrect`: `Spec => []OrderInv`.
* `PPMOrder_proofs!DriverImplementsProgram`: `Spec => ImplementsProgram`.
* `PPMOrientation_proofs!BuildCorrect`: `Spec => [](Typed /\ BuildInv)`, the whole invariant.
* `PPMGeometry_proofs`: `NoFaultCorrect`, `StandingOwnsCellCorrect`, `LedgerExactCorrect`, `CorridorClearCorrect`,
  `RouterSeesAliveCorrect`, `CompleteWhenBuiltCorrect`: each of these properties, for every layout and program
  that meet that contract, whatever routers, protocols and construction oracles answer.
* `PPMOrientation_proofs!CouplersRunCurrent`: `Spec => [](LightSteps(exp) => NoStaleCoupler)`.

*The refinement.* A window may measure steps far ahead of
the loop index, which afterwards advances one by one and skips them. To know that a window only exchanges
steps without common patches one needs: batches are contiguous runs with
pairwise disjoint targets (`BatchesSound`); every step before the index is done and every
done step ahead of it belongs to a batch that began before it (`ProgressSound`);
the targets of what is about to run were brought in (`TargetsIn`); a patch that has been read
has no step left, and an output is not read before the end (`PatchesSound`). None of the
four is inductive without the others. Each has a lemma, with one step per action; the refinement
lemma maps `Split` to `Execute`, the allocating actions to `Birth`, `RetireConsumed`
and `FinalReadout` to `ReadOut`, everything else to a stutter. `PatchesSound` also
says that whoever owns a cell exists, because the final readout collects patches from the
owner map.

*The ledgers.* A corridor may be bound when the patch on its ground was not born, or had been told to retire;
what makes it safe later is that births, retirements and registrations all follow the lifetimes. So the invariant
(`GeometryInv`) says of every patch that it is never early (`NoneEarly`), never late (`NoneLate`) and never stays past the
window in which its lifetime closed (`NoneOverdue`), and of every coupler that has yet to run that it stands only on patches
that were read out, or that are born after it has run (`CouplersAvoid`). A shared window executes steps out of the
order of the index, so each of these has to be said for the steps of the batch too, which is possible because a batch holds only
steps without births, retirements before them or planned rotations (`BatchesEligible`). From this: a patch that comes in finds its
cell free (`Arrival`: whoever stood there is gone, no corridor on it is open), so the collision guard never
fires; a registration takes no cell from anybody alive (`RegisteredClear`), so owners stay; so the sweeps by owner clear exactly what
they should (`OwnersStep`, `LedgerStep`). `LedgerExact` and `StandingOwnsCell` are conjuncts of the invariant and not
consequences of the rest: each is needed to show the other after a readout.

*The orientations.* The planner registers a step late if a rotation was planned at or before it, and an unplanned rotation drops
the later couplers of the patch. `OrientationInv` says why this is enough: a step that is not late has no planned
rotation before it (`PlansSound`); no target of a registered step has a rotation still to come (`TurnsSound`); couplers agree with
the orientations now (`CouplersCurrent`). The couplers that an unplanned rotation does not drop are the walls, which have no
route: they are safe because a wall is only left behind by a demoted batch, whose members share no patch (`WallsSound`), and because
the step under repair has no coupler itself (`ReadySound`). All of it under `LightSteps`: no routed step of an
experiment with planned rotations has more targets than the planner searches. Run `heavy_steps` shows that the condition cannot be
dropped, so the theorem and the finding divide the experiments between them.

### The scheduler

For any set of programs, each a finite sequence of operations on finitely many qubits
(`CircuitsAssumption`), and any caps (`CapsAssumption`).

* `OrderInvariance`: `Spec => []OrderInv`, and from it `TypeCorrect`, `ContractHolds`,
  `ProgramOrderHolds`, `GreedyIsSound`, `LayeringIsSound`.
* `AcceptedKeepsOrder`: any permutation that `verify_schedule` accepts keeps anticommuting
  operations in order. With `ContractHolds` this says that the contract is strong enough and
  that `schedule_ops` meets it.
* `AlwaysAdvances`: `Spec => Advances`.

The argument. An order is lawful if it is an injection of the slots into the steps, within the
ranges and along `pred`. `RangeKeepsSides` shows that a range keeps a step on its side of every
fixed operation it anticommutes with, so a lawful order is accepted. It remains that every
candidate is an order, which the code never checks (`slot_ok` and `_valid` look at ranges and
precedence only): taking a step out and putting it back is a permutation of the slots
(`MovedIsOrder`); a greedy that has placed every step has filled every slot
(`GreedyComplete`); and the concatenated classes are the steps sorted by class and position,
where each rank is taken once (`ConcatenatedIsOrder`, `RankIsOnto`). `OrderInv` carries what these need
of a half-built draft: the greedy fills the first slots and only with steps whose
predecessors are placed, and there are never more classes than classified steps, so
first fit always finds one. `Contract` alone says nothing before the end and is not inductive.

Not proved of the scheduler: anything about the cost, which is computed by recursion over the
order. The invariants hold whatever the cost function says.

### The verdict of a batch

For any finite set of shots, any number of decoders, any observables, and any
policies whose `on_decode_failure` is one of the three words (`ShotsAssumption`, `StagesAssumption`,
`VerdictsAssumption`, `PoliciesAssumption`).

* `ShotsGetTheirDecoder`: `Spec => []EachShotOwed`.
* `AttemptsAreExact`: `Spec => []AttemptsExact`.
* `CountsAreDeserved`: `Spec => []CountsDeserved`.

The argument. The chain works on the batch as a whole and the properties speak of single
shots, so the invariant `VerdictInv` says shot by shot where the batch has got to: `pending` holds the
shots that every stage so far has failed on, and whoever left it has the answer of the first stage
that resolved it (`Escalated`). When the chain stops, the pending shots are the lost ones whichever way it
stopped (`FailedAreLost`: out of stages, or of shots), and each mask of `count_batch` is then the set of
shots with the fate in question. That a stage's attempts are zero when it was not reached needs
the other half: an early stop means that nobody is owed a later stage.

### The pool

For any set of workers (`WorkersAssumption`: finite, not empty), any configurations with a batch of at least one shot and limits that are
not negative (`ConfigsAssumption`; callers pass such, the entry points check only part of it), and any deaths.

* `WorkIsConserved`: `Spec => []WorkConserved`.
* `LimitsAreHeld`: `Spec => []LimitsHeld`.
* `ReturnsEverything`: `Spec => []ReturnsAll`.
* `PoolImplementsRun`: `Spec => ImplementsRun`.

The argument. The counters are sums over the workers, and a sum is a fold, of which nothing can be proved here. The shots in
flight are therefore stated as the size of a set with `take[w]` elements for each worker: three lemmas say that the set splits at a
worker (`HeldSplits`), changes with one worker's hand only (`HeldChanges`), and is at most a batch for each
(`HeldBounded`). `PoolInv` adds what a worker's place implies about what it holds (`WorkersSound`), that the parent's snapshot
is not ahead of the counters and what it has seen when it returns (`ParentSound`: the counters are read one after the
other without the lock, but they only grow), and that a batch reserved is within the limit (`BoundsSound`). `LimitsHeld` alone is not
inductive: the error limit is passed by the batches that were in flight when it was met, so a bound on those is part of it.

### The registry

For any distance (`DAssumption`), any number of steps (`StepsAssumption`), patches on any lines (`HomeAssumption`), names of couplers and
patches that differ (`NamesAssumption`), and any programs whose targets are patches and whose corridors are geometries
(`ProgramsAssumption`): for the maps nothing is assumed of where a corridor lies, of which step it fits, or of the order of rotations.

* `RegistryKept`: `Spec /\ []RemovalsClean => []RegistryInv`.
* `MapsStayAgreed`: `Spec /\ []RemovalsClean => []MapsAgree`.
* `FreedIndexStaysFree`: `Spec /\ []RemovalsClean => FreedStaysFree`.

The hypothesis is a condition on the calls, not on the proof: in the programs of `registry_bar` it does not hold, and there freed
indices come back. When it holds, and what the ledgers of use then say, is the subject of `RegistryLedger_proofs`:

* `LedgerCorrect`: `Spec /\ []RemovalsClean => []LedgerExact`.
* `RegistryAlwaysSound`: `Spec /\ BarsClear => []RegistrySound`.
* `MapsAlwaysAgree`: `Spec /\ BarsClear => [](MapsAgree /\ LedgerExact)`, and `FreedStaysFreeWithoutBars`: `Spec /\ BarsClear => FreedStaysFree`.

`BarsClear` speaks of the program alone: no corridor that waits for a later step of a patch that may turn before has a cell that an earlier
bar passes over and draws back from. Nothing in the code sees to that, so it is a hypothesis and not an
assumption on the constants; the programs of run `registry` have it, those of `registry_bar` do not.

These theorems also use `ClearAssumption`, the contract of placement and routing: patches the router sees together
(`Present`, which is `_specs_for_step`) have disjoint tiles, and the data qubits of a corridor are those at the data sites of its cells,
outside the tiles of the patches it sees. Placement gives every patch of a layout a coarse cell of its own, and a corridor
consists of coarse cells no patch in view has (`multi_patch_coupler.py:1967`, `:2192`). TLC evaluates the assumption on the programs
of `registry` and `registry_bar`.

The argument. `MapsAgree` says nothing of the next free index, of the lists of names, or of who is called, so
it is not inductive. `RegistryInv` adds that indices lie below `next` and names are listed once (`MapsSound`, `NamesSound`), that a
coupler holds what it owns (`OwnsHeld`), and that each phase calls names that are registered (`ControlSound`). Indices are
new and distinct because a new cell's index is `next` and its rank among the new cells, and different cells have different ranks
(`RankDiffers`, `IndexOfSound`): so all operations that claim cells keep the maps inverse (`OccupySound`, which `AddPatchSound`,
`ApplyGeometrySound` and `EnterSound` use). A removal hands what others hold to an heir and drops the rest from every
map; the two maps are cut along different sets, by coordinate and by index, and cleanness is exactly what makes
them the same (`RemoveCouplerSound`). Every operation also never takes an index below `next` that is off the map, and this, as
a relation between the registry before and after, is composed along the calls of an action (`Kept`).

*The ledgers.* `LedgerExact` speaks of indices, the contract of cells. The maps being inverse, the two are exchanged once:
`LedgerOf` says the same of the cells a name owns and has not measured out (`LedgerByCells`, used at both ends of the proof), and each operation is
described by what it does to cells (`Placed`, `Relaid`, `Refreshed`, `Removal`). `LedgerInv` adds what the calls rest on: the
categories go by site and names hold the cells of their geometry (`Tidy`); what is tracked, paused and newly allocated follows the phase
(`Books`); the patches that stand are among those the router sees at this step (`Lifetimes`), so that their tiles are apart from each
other and from the corridor; the geometry of a patch is the one its rotation has reached, and that of a waiting corridor its route
(`Layouts`). A bar leaves its tile, and the contract says nothing of what is under it: during a rotation exactness rests on
the registry's own guard, which refuses a growth over another's qubit in use. A registration in the loop is never refused for such a collision
(`NoCollision`). For the removals, `OwnersHold` says that whoever owns a cell of a waiting corridor holds it, but for the turning patch, which will when it
is back; a stale coupler then owns all that only it holds (`Clean`), and this is what `RemovalsClean` asks.

### What is only model-checked

Of the driver `NoStaleCoupler` without `LightSteps` fails and `Terminates` is liveness; so is `Returns` of the pool. Of the registry
`NoFault`, `ChecksFollow` and `DeclaredIsTouched` are only model-checked: they depend on the checks of a corridor, so a proof would
first need a contract for the construction oracle that says which checks of which targets it replaces. Everything
about the passes and the tracker is model-checked only. Liveness under fairness and anything with `ENABLED` is out of the
prover's reach, as are facts about recursive operators and induction over data, which the algebra of Paulis and of GF(2)
would need; the modules that are proved about use neither in what is proved.

## 6. Disagreements found

* `heavy_steps` / `NoStaleCoupler`. A step with more than `_ROTATION_SEARCH_CAP` targets leaves
  the planning loop by `continue` (`src/circls/compiler/rotation_plan.py:215`) before the rule that
  "every step from the first rotation onward binds its coupler lazily" (`:303`). It is
  registered up front although a planned rotation of one of its targets
  comes first, and nothing drops it: `_invalidate_downstream_registration` is called for
  unplanned rotations only. The coupler then runs for an orientation its target no longer has.
* `unlawful_seam` / `BatchNeverRaises`. `_try_run_batch` classifies adjacent members
  outside any `try` and without the repair of the serial path (`parallel_windows.py:106`), so
  a seam that breaks the parallel law ends the build; the docstring (`:27`) says that a batch
  that cannot be served falls back to the serial path.
* `pauli_unguarded` / `NothingRefused`. After scheduling, `compile_qasm` asks whether an operation has been
  moved behind a single-qubit measurement of one of its qubits and, if so, keeps the order before, because "folded_out_bits would
  then reject a valid input" (`pipeline.py:431`). It asks only `if s_head` (`:442`). The sweep of a pure Clifford program
  makes single-qubit measurements and rotations too: for the frame -Y0Y1Y3, -X0X3, +Y0Z1Z3, +X1Y2X3 without
  re-selection, `compile_qasm` raises `ValueError` from `folded_out_bits`. `analyze_qasm` (`:115`) has no guard at all.
* `surgery_unwatched` / `ObservablesDetermined`. The close-out of a logical row (`tracker.py:2801`) tests the sentinel for stabilizer rows
  only. A logical multiplied by a gauge direction nobody watches is emitted without the sentinel, and its parity is
  random. The comment in `tableau.py:13` gives the reason why the sentinel absorbs: such a product "is still
  unknown". With the same corridor a second merge may end in the tracker's error for a dependent row, and `TableauIsState` and
  `NothingMissed` fail; the cause is the same and there is no separate run.
* `registry_bar` / `CircuitLocated`. `remove_coupler` frees indices by holder (`exclusive`) and coordinates by owner
  (`qec_system.py:1212`, `:1219`). Where the rotation bar of a patch has run over the dormant corridor and shrunk off it again the two
  differ: the cells' indices are nobody's, so their coordinates and `QUBIT_COORDS` go, although the bar used them; their entries in
  `index_map` are the patch's and stay, so that a later registration is handed these indices again, as known ones that need no
  declaration. The docstring of `retract_coordinates` (`builder.py:131`) says that what is retracted is "never touched by any instruction",
  that of `remove_coupler` (`:1166`) that freed indices are "never measured again". No call fails: the build ends, and the
  circuit resets and measures qubits that have no coordinates, on which `experiment_stats` (`experiment_stats.py:93`) raises `KeyError`.

  These are the symptoms of the open entry "five seam qubits without QUBIT_COORDS on qram_n20" of `docs/KNOWN_ISSUES.md:103`, and
  the run has its options, `first_use_init` and `liveness` off. The entry says that "where the registration path drops the coordinates
  has not been located"; the run shows one place. It does not show that it is the place of `qram_n20`. Reading the code gives a
  second path, which no run covers, because walls are not modelled: a wall between two neighbouring tiles uses the cells of a dormant
  coupler without mapping them (`joint_merge.py:441`), so that a later unplanned rotation that invalidates this coupler takes their coordinates
  and declarations away. The entry's qubits lie between two tiles and serve in merges, which fits either.

  Among programs of routed steps the bar is the only way a freed index comes back: where no removal is of that kind freed indices stay
  free (`FreedIndexStaysFree`), the maps agree (`MapsStayAgreed`) and the ledgers are exact (`LedgerCorrect`); and a program
  has none of that kind if no bar passes over such a corridor (`RegistryAlwaysSound`). `DeclaredIsTouched` itself, with
  the declarations and coordinates, is checked under that condition and not proved.

Three more were met that have no run of their own. The comment at `sequential_ppm_ls.py:1481` says that the cell of
a deferred patch is still an obstacle to earlier routes; `_specs_for_step` (`:398`) hides a patch
that is not allocated yet, so earlier corridors do borrow its cell. `CorridorClear` and
`NoFault` show that this is safe; the comment is out of date. The docstring at `worker.py:45` says of the reserved and the
completed shots that "at termination the two are equal"; they are not when a worker raised, because the parent does not look at exit
codes (`pipeline.py:223`): `WorkConserved` says what is true instead. The parent reads three counters one after the
other (`pipeline.py:214`), so an intermediate line may show more errors than shots, and the error bar of such a line raises a
`TypeError`; the branch is `Emit` with `BarIsReal` false, and `Returns` shows the call ends even so.

## 7. What is not modelled

`PROJECT.json` ("components") lists each part with its reason. In short:

* The stabilizer-level geometry of couplers (`multi_patch_coupler.py`, `joint_merge.py`, `coupler.py`, `colouring.py`) is far
  beyond enumeration at any distance. It enters the driver as an oracle that may refuse, and the registry as input.
* The router (`routing.py`) enters as an oracle that may refuse any corridor and offer any that avoids the patches in view.
* Numerical optimisation (`assignment.py`, `mapping.py`) enters through the placement contract it must meet.
* Of the passes: an injected re-selector and its check, the option checks, the placement in `to_experiment_inputs`, and the
  observables' closures.
* Of the registry: direct seams and their walls, the SWAP-network rotation, the other directions and phases of the Litinski bar, Y births, and what the
  half-changed maps of a caught exception do to the next attempt.
* Of the tracker: the grow and shrink stages of a rotation, where `docs/KNOWN_ISSUES.md` has a logical count go wrong, relay flows, flag folding, coordinates, and the parity records of members of a shared window.
* Of the Monte Carlo backend: the decoders, the samplers, the circuit's noise, and the text of the reports.
* Text parsing, reports, metrics and notebooks have no state to check. The notebooks, most of the repository's lines, are
  recorded runs of the compiler.

## 8. Plan

1. Walls in `RegistryCalls`, with the cells they use and do not map, to see whether they lose coordinates as section 6 supposes; a contract for the checks of corridors, under which `ChecksFollow` and `DeclaredIsTouched` can be proved.
2. Lemmas on `Paulis` and `GF2` that need no recursion: the symplectic product is bilinear, a measured row replaces what
   anticommutes with it.
3. `Routing`: keep-out graph, corridor search and portfolio against brute force on a small grid.
4. `RotationPlan`: colours and protocol kinds, the seam table, and the planner's forecast against the
   orientations the loop reaches.
5. The parity records of a shared window: several seams on the tracker at once.
