# A verification development of starbug-llvm

STARBUG is a RISC-V core with four lanes. A compiler puts a *hint*, `c.li x0, n`, in front of `n`
independent instructions; the fetch unit of the core then issues the `n` instructions behind the hint in
one cycle, the k-th on lane k. On any other core the hint is a NOP. The hardware checks nothing. What makes
a program right is therefore spread over software: the packetizer that plans bundles, the configuration it
plans them for, the checker that judges the linked binary, and the flow that runs both before anything is
measured. This directory models those parts in TLA+, checks them with TLC and proves the most important
results with TLAPS.

## Inventory

| part | where | state | operations | what makes it correct |
|---|---|---|---|---|
| packetizer | `llvm-overlay/llvm-snippets/StarbugVLIWPacketizer.cpp` | the open packet (members, lanes, uses, defs), the position in the block, the hints inserted | one iteration of the loop, the flush, the end of a block | bundles independent, disjoint, on legal lanes; the pass ends |
| configuration | `StarbugVLIWConfig.{h,cpp}` | lane count, lane table, scheduler switches | build the standard table, apply lane specs one by one | specs mean what they say, errors are contained, every lane has an entry |
| asm printer | `StarbugVLIWAsmPrinterSnippet.cpp` | position in the function | print a hint as `c.li x0, n` | what was planned is what is in the binary |
| ISA model | `tools/starbug_isa.py` | none | decode 16- and 32-bit words, hint length, class predicates | both encodings of an instruction decode alike, no operand of a worker lane is missed, only `c.li x0` is a hint |
| bundle checker | `tools/starbug_bundle_check.py` | index, bundles, covered instructions | step over, take and check a bundle, summarise, exit | an exact verdict, figures that agree |
| STARBUG core | not in the repository; `docs/HARDWARE_CONTRACT.md` | registers, memory, program counter | issue a bundle, decline it, run scalar | a binary runs as on a stock core |
| verify_fix | `tools/verify_fix.sh` | a failure flag | build, check, compare with the reference on Spike, compare RTL and Spike | what passes was accepted and computes the same everywhere |
| benchmark flow | `bench/run_bench.py` | results, futures, the checker's report files | build, verify, submit, simulate, collect, report | no wrong result is reported as good, every simulation is accounted for, the flow ends |
| sweep | `bench/sweep.py` | records by kernel and value, the reference cycles, report files | build, check, simulate, record, write | every record belongs to its flags, speedups share a reference, what is written is complete |
| dynamic profiler | `tools/starbug_profile.py` | histogram, counters | run Spike (twice, if it rejects the ISA string), join with the bundles | its figures are the core's execution |
| straddle counter | `tools/starbug_straddle.py` | counters | the same, split by I-cache line | its split is the fetch unit's |
| scripts, kernels, build products | `scripts/`, `toolchain/`, `starbug-tests/`, `bench/kernels/` | files | copy and compile | not modelled, see below |

How they interact: the configuration is built once, when the pass object is constructed, and only read
afterwards. The packetizer and the checker never meet: the first knows operands and opcode names, the
second only encodings; all they share is the binary. The checker reads 16-bit `c.li x0` words, as the fetch
unit does. `verify_fix.sh` and `run_bench.py` start the checker and the simulators as processes;
`run_bench.py` hears from the checker through a JSON file and from the simulators through the futures of a
thread pool.

What is hard here: a hint's meaning is positional, so anything between the plan and the bytes shifts lanes;
the same bytes must be right both in parallel and in order, because the fetch unit may decline any bundle
and branches may land in one; a lane spec may fail half way; the checker's walk from hint to hint decides
what it ever looks at; external processes fail, time out, complete in any order and leave files behind.

The hazards in full, each at its line and with the properties that would catch it, are under `hazards` in
`PROJECT.json`. Those without a property say why: the code decides the case against a text of the repository
(missing checksums, empty outputs), a property excludes it by name (the lane id for which loading hangs), or it
depends on what is not in the repository (names, relaxation, sub-registers, processes of the simulator).

## Modules

| module | models | state and actions against the code |
|---|---|---|
| `VLIWConfig` | `OpClass`, `LaneConfig`, `isLaneLegal`, the standard lane table | data only; a configuration is a record, a lane the set of classes it accepts |
| `MachineCode` | machine instructions as the pass sees them; what a hint's window is | `isPacketizableMI`, `classifyOpClass`; an opcode name is the set of substrings the code looks for |
| `BundlePlan` | abstract specification: what a packetizer promises | one action: add a good hint that overlaps no other |
| `Packetizer` | the pass | `packet` holds the four local containers; one action per outcome of a loop iteration: `Barrier`, `Join`, `FlushAndJoin`, `Unplaceable`; `EndBlock`, `SkipFunction` |
| `ConfigLoader` | `fromCommandLine` and the overrides | `next` walks the lane specs, `grow` is the loop counter of `ensureLaneExists`, which wraps at `UIntMax` |
| `StarbugISA` | `starbug_isa.py`'s classes and the rules of the contract | data only |
| `StarbugDecode` | the decoder of `starbug_isa.py` | `words` is the text, `decoded` the listing so far; one action, the next word; operators for each format, and a reference from the RISC-V manual |
| `BundleChecker` | `starbug_bundle_check.py` | `idx`, `bundles` and `covered` are `analyse`'s variables; `StepOver`, `TakeBundle`, `Report` |
| `StarbugCore` | the STARBUG core beside a stock core | `ScalarStep` (both, one instruction), `IssueBundle` (one cycle), `CatchUp` (the stock core, through the same members) |
| `DynamicProfile` | `starbug_profile.py`, `starbug_straddle.py` on top of `BundleChecker` | `Analyse` is the common part; then the checker's main, or Spike's run (`StartSpike`, `BadIsa`, `NoHistogram`, `Fall`, `Jump`, `ProgramEnds`); `core` follows the same run on the STARBUG core; the figures are operators |
| `CheckedRun` | `verify_fix.sh`: `BundleChecker` and `StarbugCore` composed | `at` is the script's place, `fail` its flag; `Build`, the checker's actions and `Step1`, both cores' run, `Step2`, `Step3` |
| `Toolchain` | `Packetizer`, the asm printer and `BundleChecker` composed | `PrintHint`, `PrintInstr`, `NextBlock` lay the function out; the checker reads the result |
| `CompiledRun` | `Toolchain` and `StarbugCore` composed | `Compile` is any step of pass, printer or checker; `Load` resets both cores with the printed binary; `Execute` is a step of theirs |
| `BenchFlow` | `run_bench.py` | `stage` and `step` are main's place, which `Report`, `Crash` (out of the pool) or `Abort` (a compiler that cannot be started, a results file that cannot be opened) ends; `fut` is the pool, by simulation (queued, running, or its outcome); `runs` what main collected; `json` the files on disk |
| `Sweep` | `sweep.py` | `kernel`, `value` are the loops, `stage` the place in `build_and_measure`; `report` says which binary each file is about, at first an earlier session's or none, each file on its own; `Crash` is an exception in a build, a simulation or when the results file is opened; `rows` is what is printed, `results` what is written |
| `ConfigLoaderProofs`, `StarbugDecodeProofs`, `BundleCheckerProofs`, `DynamicProfileProofs`, `BenchFlowProofs`, `SweepProofs` | the theorems about the module each is named after | |
| `CheckedRunProofs` | the theorems about `StarbugCore`, then about `CheckedRun` | |
| `ToolchainProofs` | the theorems about `Packetizer`, then about `Toolchain` and `CompiledRun` | |
| `MC...` | TLC instances | values of the constants only |

The compositions extend the modules they compose and add to their actions what these leave unchanged
(`CheckedRun` has `BundleChecker` and `StarbugCore`, `Toolchain` has `Packetizer` and `BundleChecker`,
`CompiledRun` has `Toolchain` and `StarbugCore`). The checker's and the core's specifications therefore have
names of their own (`CheckerInit`, `CheckerNext`, `checkerVars`, `CoreInit`, `CoreNext`, `coreVars`). Only
`ImplementsPlan`, the refinement, uses an instance: `BundlePlan` with the machine function `mf` for its `fn`
and the pass's `hints` for its `plan`.

Each module has next to some definitions a variant with the name `Definition_Change`: a plausible
programming error at that place. No specification uses them. Each shows that a property of a run notices
the error when the variant takes the definition's place; `PROJECT.json` pairs them.

Abstractions worth knowing:

- *Registers.* The packetizer compares register numbers, x0 included, and does not look at sub-registers;
  the model does the same. The checker drops x0.
- *Names.* `classifyOpClass` finds "ADD" in `AMOADD_W` but asks for loads first. The model keeps the order
  of the tests, and instructions such as an atomic whose name contains "ADD" are in the instances.
- *Instruction results* on the cores are uninterpreted: `Op(i, l, args)`. TLC uses terms, so two different
  computations never agree by accident.
- *The core* may decline any bundle at any time. The contract lists reasons (line boundaries, spill fetches,
  uncached code) that no tool controls, and this makes every timing of them possible.
- *Memory and CSRs* are one location `Env`, read by loads and written by stores, atomics and system
  operations. Accrued floating-point flags are not in it: the contract says lanes OR them.
- *The profiler's core.* `DynamicProfile` counts cycles, and so decides declining as the fetch unit does by
  the one rule the tools know: every byte of a bundle lies in its hint's line. Otherwise a declined hint
  costs a cycle and its members one each.
- *A record's statistics* in the sweep are abstracted to the binary the report is about; what is checked is
  where figures come from, not what they are.
- *Outputs* in `verify_fix.sh` are the state a program ends in, or nothing (a simulator failed, or the
  program printed no results). The cores take the same path until they halt.
- *The asm printer* prints all of LLVM's other instructions; what these become is the constant `Encode` with
  the assumption `EncodeAssumption`: an instruction that may be packetized becomes exactly one instruction,
  reads and writes no more than its operands say, is no control transfer, and is none of the kinds only lane
  0 executes if its name looks like an ALU operation. This is what the packetizer takes for granted.
- The overlay's packetizer is the one in the repository. Parts of `docs/` describe a later one (it permutes
  packets and tolerates anti-dependences); nothing here is about that one.

## Runs

All of the instances are small enough to be exhausted.

| run | configuration | shows |
|---|---|---|
| `packetizer` | `MCPacketizer.cfg` | The hinted windows are independent, disjoint, on legal lanes under a uniform table, never wider than the configuration; two neighbours that could be a bundle never both stay scalar; the pass implements `BundlePlan` and returns. |
| `decode` | `MCStarbugDecode.cfg` | A hint is read from `c.li x0, n` alone and with its n; compressed instructions have the class and registers of their expansion; what may stand in a worker lane has exactly the operands of the manual. |
| `checker` | `MCDynamicProfile.cfg` | Exit 0 exactly when every hint's bundle keeps the contract (without nested hints); bundles share no instruction; the summary's figures agree; the profile's payload and cycles are the core's, up to members reached by a branch; the straddle counter calls live what the core forms; `ProfileInv`, on which the proofs of the last two rest, is an invariant, the checker's `CheckInv` in it. |
| `core` | `MCStarbugCore.cfg` | A program that keeps the contract is in the same state on both cores whenever the stock core is between bundles, with bundles formed, declined, nested and entered in the middle. |
| `checked_run` | `MCCheckedRun.cfg` | What the checker accepted runs as on a stock core, if no hint is nested and no control transfer is a member; what the script passes was accepted and ended in one state on both cores, branches in lane 0 included. |
| `config` | `MCConfigLoader.cfg` | Applying lane specs in sequence is the same as reading them all at once; an error keeps the width and leaves its mark on the bad spec's lane only; the table covers the width; loading ends. |
| `toolchain` | `MCToolchain.cfg` | From any small function on a real machine: the binary keeps the contract at every hint, the checker accepts it, and finds exactly the planned bundles; both cores compute the same from it, with bundles declined and branches into them. |
| `bench` | `MCBenchFlow.cfg` | Every failure, every order of completion: the exit status reflects the verdicts, each record is its own run's, mismatches are reported, no simulation is left running, the flow ends. |
| `sweep` | `MCSweep.cfg` | Whatever fails: records show no other configuration's figures, the speedups of a kernel share one reference, a written file is complete. |

Bounds and why they are enough. A bundle has at most four members and the packetizer's decisions look at
one packet and one instruction. `MCPacketizer` has every block of up to four instructions out of eight
shapes (each kind of dependence, x0, loads, atomics, barriers) and every pair of blocks of up to two, on
one to three lanes, so that packets fill, conflict, run out of lanes and end with the block. The checker's
and the core's listings have up to four instructions: a hint with three members, two hints with one
member, a hint among another's members, a declared length beyond the end, and a branch into a bundle all
occur. The profiler's listings are those of six shapes (hints of 1, 2 and 5, two sizes of instructions,
a branch to anywhere) on lines of eight bytes, with at most two taken branches (`MaxTaken`): loops over a
bundle, into the middle of one, over a straddling one. The decoder reads every halfword, and 32-bit words
with every opcode and every funct7 and registers on the borders of the fields (0, 1, 8, 31). The sweep has
two kernels, a missing one between them and two values: all of its state is per kernel or per value. A
command line that repeats a kernel or a value is left to the proofs, which assume neither distinct. In
`checked_run` a branch that is a member does not go back into its own bundle, where the lockstep of the two
cores would end. In `toolchain` the cores run the functions whose
blocks have up to three instructions out of five shapes, a branch among them, or a branch and three more, so
that packets of one to three members are reached by fall-through, by a branch from the block before and in
the middle; `Programs` there holds every binary such functions can become with hints anywhere. The loader
has up to three specs for lanes inside and beyond the width, with a bad token in the middle of a list. `UIntMax`
is 7 there; only its order relative to the lane ids matters.
In `BenchFlow` one kernel has three
simulations on two threads, hence a queue, two at a time and every order of completion; kernels share
nothing but the pool and main's loops.

Runs that must fail, each a disagreement between a text of the repository and its code:

| run | what the text says | what the code does |
|---|---|---|
| `packetizer_lanes` | no packet violates lane legality | the lane assigned and the place in memory differ when lanes are not alike |
| `checker_nested` | every bundle is re-derived and proved | a hint among members is stepped over |
| `bench_unverified` | every binary is verified before it is timed | a failing checker counts as no unsafe bundle, and an old report is believed |

Other disagreements met while modelling, which have no run of their own:

- `docs/HARDWARE_CONTRACT.md:184` says the legality rules "make a bundle *safe*". A branch in lane 0 is
  accepted (`starbug_bundle_check.py:134` starts at lane 1), and its followers commit on the taken path too
  (`docs/paper/03-compiler.md` knows that this is safe only when they are dead there). This is why
  `AcceptedRunsAsScalar` has `NoControlMembers` as a premise: without it TLC finds the counterexample.
- `bench/README.md:53` says the checksums of all three runs must agree. A run without a checksum is left out
  of the comparison (`run_bench.py:267`): a kernel with a timed-out run is ok when the others agree, or when
  only one is left.
- `verify_fix.sh:9` says step 3 checks "that same answer on the STARBUG RTL". If both simulators print no
  result lines, two empty outputs are equal and the step passes (49-54). `PassedMeansSame` therefore asks
  for a result of Spike's.
- `starbug_profile.py:9-13` names a "single caveat" of the profile, straddling bundles. Members that are
  executed after a branch into the middle of a bundle are dropped as well (184): `ProfileExact` states the
  figures with that term (`core.stray`), and with one for hints above four, which cost the core a cycle.
- `starbug_profile.py:96` says only addresses that look like instruction PCs are kept. The code keeps every
  line of the form "hex count", the program's own output included.
- `starbug_straddle.py` takes an empty histogram for a program that executes no bundle and prints zeros;
  `starbug_profile.py` reports an error (137).
- `sweep.py:45` shows no unsafe bundle when the checker failed, as `run_bench.py` does, and simulates unsafe
  binaries too.
- `docs/HARDWARE_CONTRACT.md:45` says the compiler must never emit a hint above four. The packetizer's only
  bound is the lane count asked for (`StarbugVLIWPacketizer.cpp:183`).
- `README.md:50` says single hints are suppressed by default. With one lane every packet is full, and full
  packets get a hint (`StarbugVLIWPacketizer.cpp:172`).
- `StarbugVLIWConfig.cpp:200` says an invalid spec is ignored. What was applied before the error stays (145-148).
- `starbug_bundle_check.py:128` speaks of the end of a section. Members are taken from the listing of the
  whole ELF (214), from the next section if need be.
- `docs/HARDWARE_CONTRACT.md:151` describes a packetizer that permutes packets and tolerates
  anti-dependences. The one in the repository does neither.
- `docs/paper/03-compiler.md:88-102` says classification by substrings of instruction names is past and comes
  from the opcode now. The repository's `classifyOpClass` matches substrings (`StarbugVLIWPacketizer.cpp:82-95`).
  Memory operations are asked for first, so `AMOADD` is not taken for an addition; that no other name is
  misread in the unsafe direction is part of `EncodeAssumption`.

## Fairness

`Packetizer` and `ConfigLoader` are sequential code: weak fairness of the next step says only that the
compiler's thread goes on. `BenchFlow` assumes weak fairness of main, of the pool taking a queued job when
a thread is free (`ThreadPoolExecutor` does), and of every running simulation's end, which
`subprocess.run(..., timeout=1800)` provides unless a grandchild of the simulator holds its output pipe.
Nothing is assumed about the order of completions. `Sweep` and `CheckedRun` have no liveness property: their
loops are over finite lists, but neither the compiler nor the simulators of `verify_fix.sh` have a timeout,
so that nothing justifies fairness of their ends.
Loading is claimed to end only if no lane id is the largest unsigned: for it the counter of
`ensureLaneExists` wraps around and the loop does not end, so the property excludes it by name.

## What is proved

TLAPS proves the following for every value of the constants, under the modules' named assumptions. TLC
checks the same invariants on the instances above, the inductive ones (`PairInv`, `LoadInv`, `CheckInv` in
`ProfileInv`, `CoreInv`, `ToolInv`, `FlowInv`, `SweepInv`) included. Type invariants are conjuncts of these
and not listed for the runs again, nor are `PacketInv`, a conjunct of `PairInv`, `RunInv`, which adds to
`CheckInv`, `CoreInv` and `PassedMeansSame` little more than the script's place, and `CompiledInv`, which is
`ToolInv` and `CoreInv` side by side. None of the properties is inductive as it stands; what each needs is the
content of its inductive invariant.

*Packetizer* (`ToolchainProofs`; assumes only that functions and configurations have their types).
`BundlesIndependent` is not inductive: whether the next hint's window is independent depends on the packet.
`PacketInv` adds that the packet is a record of the instructions just before the current one — their
positions consecutive, their registers all in the packet's sets, pairwise independent, assigned lane = place
when workers are alike — that it is not full between iterations, and that all hints lie before its first
member. The lemma `ExtendedPacket` is the core: an instruction without a dependence on the sets is
independent of every member. From `PacketInv` follow `EmittedBundlesIndependent`,
`EmittedBundlesDisjoint`, `PlacesAreLegalLanes`, `TypeCorrect`, and with `OneHint` (an iteration inserts at
most one hint, although it may flush twice) `RefinesPlan`: the pass implements `BundlePlan`.

`NoPairMissed` is the other direction: the pass may not be safe by planning nothing. It is not inductive
either, because a pair is decided when its second instruction is read, long before the block ends. `PairInv`
says it of every pair in front of the open packet, and that a packet of one member holds that member's
registers and no others: were they those of earlier members too, a dependence that is none would close the
packet and two neighbours would stay scalar.

*Checker* (`BundleCheckerProofs`; assumes only that listings are sequences of instructions). The loop
advances by one instruction or by a bundle, and what it skips it never sees. `CheckInv` says that every
bundle found is `check_bundle` of a hint, that the bundles lie one behind the other and before `idx`, that
no hint before `idx` is overlooked (it has a bundle or is a member of one), and that the exit status is that
of the bundles once the listing is read. `InstructionsAttributedOnce` follows at once, with nested hints too.
`VerdictIsExact` needs besides that `check_bundle`'s errors, which it finds member by member
and pair by pair, are none exactly when the contract holds (`SafeBundle`): soundness for every listing, and
no false alarm.

`FiguresAgreeAlways` is about sums over the bundles found. The library's sum is a fold, defined by recursion,
and its induction theorems are stated with operators the provers cannot instantiate; they can be used of a
*set* of natural numbers, or of finite sets, all the same (`NaturalsInduced`, `SubsetsInduced`). `SumIsSumming`
shows that the library's sum is the one function that is 0 for no index and grows by each index's value
(`SummingExists`, `SummingUnique`), and from then on only laws of sums are used (`SumWith`, `SumOfTwo`,
`SumOfSums`). That the bundled instructions never exceed the payload comes from `CheckInv`: bundles and their
hints are disjoint parts of the listing, so their sizes add up to no more than its length.

*Decoder* (`StarbugDecodeProofs`; assumes that registers are numbered as in the code). `DecodeInv` says that
the listing so far is the text decoded word by word; it makes the three properties questions about one word.
`DecodesInsns`: what a word becomes is an instruction as the other modules suppose, and of all halfwords only
`c.li x0, n` yields a hint, of that n (`HintIsCLi` compares the halfword's fields, one sign bit and all).
`CompressionIsTransparent` goes through the three quadrants form by form: each is decoded with the class and
registers `decode32` gives its expansion, for every halfword, reserved ones apart. `OperandsAreExact` compares
`decode32` with the manual's formats for every word of RV32IMAFC. Field extraction is arithmetic (`FieldsOfHalf`
and `FieldsOfWord` give each field's range); TLC looks at every halfword but only at some 32-bit words, the
proofs at all.

*Profiler and straddle counter* (`DynamicProfileProofs`; assumes `TargetsAssumption`, a branch stays in the
program or leaves it, and `AscendingAssumption`, a program that is run is listed in the order of its addresses,
as objdump does). The tools compute their figures afterwards, from a histogram that does not know how the
program came to an instruction; the core counts as it goes. `ProfileInv` says what each of the core's counters
is as a sum over the histogram *so far*. For most that is a matter of which instructions count
(`RetireCounts`). Slots are different: a hint that is executed is worth all of its members in the tool's sum,
but the core issues them one after the other, so the two differ by the rest of the open window (`ToCome`), and
agree at the end only because nothing but the last member leaves a window (`OpenWindow`: no member is a hint or
a branch). `SafeIsForming` then identifies the checker's safe bundles with the hints the fetch unit honours,
and `StraddlesOrFits` the counter's test of first and last byte with "every byte lies in the hint's line", for
every line size. `ProfileIsExact` and `StraddleIsExact` follow, for every listing, layout and path, and any
number of branches. `WalkInTools` repeats the checker's theorems for the two tools, which share its walk.

*Core* (`CheckedRunProofs`; about every program that keeps the contract, `ContractSafe(prog)`; programs
that do not are among the behaviours and nothing is said of them). The two cores take different numbers of
steps through a bundle, so equality of their states is not inductive. `CoreInv` relates both states to the
state all lanes read: each is that state after the members it has executed, each member computed from it
(`CaughtUp`). `OneMember` shows that in-order execution keeps this, because no earlier member wrote what a
later one reads or writes; `BundleInOneCycle` shows it for the parallel cycle, because every lane commits and
no location has two writers. `ContractSuffices` is the result: the contract, with no control transfer among
the members, is enough for the ISA-compatibility claim, whatever the instructions compute, wherever branches
land and whichever bundles are declined. WAR pairs are allowed.

*verify_fix* (`CheckedRunProofs`). Checker and cores are two systems that share one binary. `RunInv` says
that they do, keeps `CheckInv` always and `CoreInv` if the binary keeps the contract, and follows the failure
flag: after step 1 either the checker's exit status is 0 or the flag is set, for good. `AcceptedIsScalar`
joins the two results: exit status 0 gives the contract by `CheckInv` (with the two premises the checker does
not test), and the contract gives equal states by `CoreInv`. `PassedComputesSame` has no premise: what
passes was accepted, and was compared.

*Tool chain* (`ToolchainProofs`; assumes `EncodeAssumption`). The packetizer reasons in positions of the
function, the checker in indices of the binary. `ToolInv` keeps `PacketInv` and `CheckInv` and relates the two
by the printer's progress (`LaidOut`): each printed hint stands where it was planned, the members that are
printed stand behind it one by one as they are encoded, and nothing else looks like a hint. While a window is
being printed, the length of the binary says where its next member will stand; this is where an instruction
that became two would break it. `CompiledKeepsContract` and `CompiledPasses` follow for machines of up to
four lanes whose workers are alike; with `ContractSuffices`, what is compiled for such a machine runs as on a
stock core. `PlanIsSeen` (bundles reported = packets planned) holds for every machine whose widths the hint's
immediate can hold (`WidthsFit`): a wider one would be read as another number, and the code has no bound of
its own. In all three, that no hint is nested follows from `BundlesDisjoint`.

*From function to execution* (`ToolchainProofs`). `CompiledInv` joins `ToolInv` with `CoreInv`: what the core
has been given keeps the contract, because it was printed (`PrintedIsSafe`) or is the empty program.
`CompiledIsScalar` is the end of the chain, and the reason for the others: whatever the function, what is
compiled for a machine of up to four lanes with like workers computes on the STARBUG core what it computes on a
stock core, with no premise on the binary and no need of the checker.

*Configuration* (`ConfigLoaderProofs`; assumes only types and `UIntMax > 0`). `LoadInv` says what the table
means after the specs read so far (`TableMeans`), with a weaker statement inside the growing loop. From it:
`ConfigIsTyped`, `TableCoversWidth`, `OverridesMeanWhatTheySay`, `RejectionIsContained`. The last is about a
list that is given up half way: `InvalidList` finds the first unknown class, by well-foundedness, and shows
that the classes set are those in front of it, while `TableMeans` still holds of all other lanes. A spec for the
largest unsigned never leaves the loop; the invariant says nothing of the table there, and the theorems
hold because neither "accepted" nor "rejected" is reached.

*Benchmark flow* (`BenchFlowProofs`; assumes a non-empty list of different kernels, as the directory listing
gives, at least one thread, as `ThreadPoolExecutor` demands, and checksums that are not the names of
outcomes). `FlowInv` ties what main knows to what is so: a verdict remembered is the
checker's, a record collected is its simulation's, a simulation exists just when its binary was built, the
report is reached with all records and an exception leaves with the pool idle. From it
`ReportHoldsEveryOutcome`, `MismatchNeverHidden`, `ExitIsTruthful` and `NoSimulationOutlivesMain`, for any
number of kernels and threads and every order of completion.

*Sweep* (`SweepProofs`; assumes only lists of names and of numbers, repeated ones included, and cycles above
zero). `SweepInv` has three parts: a report file under a configuration's name is about that configuration or
older than the sweep (`FiguresOwn`: this is why no row can be another's), the reference in hand is the first
run with cycles of the present pass over the kernel (`ReferenceKept`), and every configuration that the loops
have passed is recorded with what became of it, except the one in work (`InWork`). From it `RecordsAreOwn`,
`OneReference`, `WrittenIsComplete`.

## What is only model-checked

- Liveness: `PassReturns`, `LoadReturns`, `FlowEnds` (out of the prover's reach).
- That the properties are as strong as they look: each is violated by a plausible programming error, which only
  TLC can show, as it does for the three disagreements with texts of the repository.

Everything else the passing runs check is stated by a theorem. What no theorem covers is what the modules
assume: LLVM's encodings (`EncodeAssumption`), the order of a listing (`AscendingAssumption`), and that the
core keeps to its contract.

## What is not modelled

Wording and layout of reports; objdump's text format (the input is the list of words, or of instructions);
parsing of Spike's histogram and of the ELF's ISA string, and the profiler's breakdowns by function, class
and lane; cycle counts of simulations beyond being equal or not; the unroll policy and latency weights,
which nothing in the repository reads; `starbug_vliw_lanes.yaml`, which nothing reads either; the linker
and the passes after the packetizer; scripts that copy files or call compilers; the checker's own tests and
the kernels, which are input data.

## Plan

Done: `VLIWConfig`, `MachineCode`, `BundlePlan`, `Packetizer`; `StarbugISA`, `StarbugDecode`, `BundleChecker`,
`DynamicProfile`; `StarbugCore`, `CheckedRun`; `ConfigLoader`; `Toolchain`, `CompiledRun`; `BenchFlow`; `Sweep`;
and the proofs of all of their safety properties. Of the components listed as partly modelled only text
formats, breakdowns and unread settings are missing.

What could follow: a model of linking and relaxation behind the printer, which would replace part of
`EncodeAssumption`, if those passes become part of the repository; and the decoder put in front of the checker
in `Toolchain`, so that a printed hint is a word there and not an entry.
