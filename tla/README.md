# TLA+ models of the IREE local CPU runtime, its tools and HAL folders

This directory holds TLA+ models of the parts of this repository that carry
their own control: the ELF relocation resolvers of the three CPU
architectures, the lifetime and inline dispatch of a local executable, the
command-line flag parser, the object lifetimes of the embedding sample,
of the benchmark tool and of a Vulkan native event, a set of HAL
canonicalization patterns of the compiler, the padding of matmul
workgroup tiles in the LLVM code generator, and two header helpers: the
VM's variant value constructors and the alignment of sizes. It also holds the TLC models (`MC*.tla` plus
`*.cfg`) that check them. `PROJECT.json` lists the components, the runs,
the mutants and the findings. It also maps every model definition to the
source lines it translates, and lists the hazards of the code with the
properties that cover them.

Run everything from this directory:

```
tlasany RelocX86_64.tla
tlc -workers 2 -config MCRelocX86_64.cfg MCRelocX86_64
```

## The system and how its parts interact

The spec (`spec.md`) describes a runtime that loads a relocatable ELF image
of compiled kernels and runs it on the host CPU.

* **Relocation resolver.** There is one file per architecture under
  `src/iree/hal/local/elf/arch/`.
  * `iree_elf_arch_apply_relocations` scans the dynamic table for the
    relocation tables and their sizes, rejects the table flavour the
    architecture does not use, and applies every entry.
  * x86_64 applies DT_RELA and then the PLT table (DT_JMPREL). aarch64
    applies DT_RELA. x86 applies DT_REL, whose addend is implicit at the
    site.
  * The ELF loader calls the resolver after it has mapped the image. The
    loader is not in this source.
* **Executable instance.** In `local_executable.c`,
  `iree_hal_local_executable_initialize` retains each executable layout it
  is given, and `..._deinitialize` releases them. `issue_call` calls the
  entry point of one workgroup through the vtable.
* **Dispatch engine.** `iree_hal_local_executable_issue_dispatch_inline`
  walks the workgroup grid in z, then y, then x order, calls each
  workgroup, and returns a status.
* **Flags.** In `src/iree/base/internal/flags.c`, `iree_flags_parse` runs
  before any of this in every tool. It reads `--name=value` arguments into
  registered variables, splices them out of argv, and expands
  `--flagfile=path` files line by line, recursively.
* **Session lifetimes.** `simple_embedding.c` `Run()` and the
  `IREEBenchmark` class of `iree-benchmark-module-main.cc` create an
  instance, a device, modules and a context, then buffers, views and lists,
  and release them. Every call is wrapped in `IREE_RETURN_IF_ERROR`, which
  returns at the first error. The objects are reference counted; a context
  retains its modules, a view its buffer, a list what is moved into it.
* **Vulkan native event.** `native_event.cc` creates a VkEvent, then
  allocates the event struct that owns it; when the allocation fails it
  destroys the VkEvent. The caller's last release of the event runs the
  vtable's destroy, which destroys the VkEvent and frees the struct.
* **HAL canonicalizations.** `HALOpFolders.cpp` holds the compiler's
  folders and rewrite patterns for HAL ops. The greedy rewrite driver
  applies whichever pattern matches, in any order, until none does. The
  models take the shape arithmetic (`compute_size/offset/range`), the
  `hal.allocator.pack` fold and patterns, the subspan folds and
  accessor skips, and the `hal.variable` and `hal.constant_pool` patterns.
* **Workgroup tile padding.** `PadLinalgWorkgroupTiles.cpp` runs after a
  `linalg.matmul` has been tiled per workgroup. `MatmulWorkgroupTilesPadding`
  pads the M and N tiles up to the workgroup or vector tile size and K up
  to the vector size with `linalg.pad_tensor`, multiplies the padded tiles
  into a zero-filled result, and cuts the product back to the real tile
  size with a `subtensor`. It is the only pattern of its pass.
* **Header helpers.** `iree/vm/value.h` defines `iree_vm_value_t`, a type
  tag and a union, with one `make` and one `get` inline per type.
  `iree/base/alignment.h` rounds a size up to a power-of-two alignment with
  an add and a mask. Nothing under `src/` calls either yet; they are API
  for the VM's users.
* **The rest is not modelled.** The other compiler passes, the GPU back
  ends, the bindings and the headers are the spec's external
  collaborators. The components list in PROJECT.json says why for
  each one.

## Modules

| Module | Models | State | Actions |
|---|---|---|---|
| `ElfRelocation` | shared definitions of the three resolvers | constants only | scaled-width stores `StoreWord`, `Store32`, `InstrPtr`, `CountOf`; reference helpers `LastVal`, `Prefix`, `Distinct` |
| `RelocX86_64` | `x86_64.c` `iree_elf_arch_apply_relocations` and `iree_elf_arch_x86_64_apply_rela` | dyn table, tables, image, pc, scan index, the four gathered table/count locals, entry index, result | `ScanDyn` (one dyn entry, one CASE arm per tag), `EndScan` (the `if (!table) count = 0` normalisation), `ApplyRela` (one entry: NONE skip, symbol check, the type switch), `EndTable` (DT_RELA table done, then the PLT table) |
| `RelocAArch64` | `arm_64.c`, same functions | the same with one table | the same |
| `RelocX86_32` | `x86_32.c`, DT_REL | the same with `rel_table` and `rel_count` | `ScanDyn`, `EndScan`, `ApplyRel`, `EndTable` |
| `LocalExecutableLayouts` | `initialize`, `deinitialize` and `issue_call` with layout reference counts | refs per layout, destroyed layouts, caller's references, executable's stored layouts, calls | `Initialize`, `CallerRelease`, `IssueCall`, `Deinitialize` |
| `DispatchOrder` | what the inline dispatch promises: calls in strictly row-major order over the grid, then it finishes | count, issued cells, finished | `Issue`, `Finish` |
| `LocalExecutableDispatch` | `issue_dispatch_inline`: the three loops, the call and the `break` | count, workgroup_id, pc, status, the calls made with their results | `ZTest`, `YTest`, `XTest`, `IssueCall` |
| `RefHeap` | the reference-counting contract the callers rely on (spec_modelled: the object implementations are not in this source) | a heap record: counts, created objects, what each holds | operators `HCreate`, `HMove`, `HRelease` (recursive: the last release releases what the object holds) |
| `ResourceSteps` | a straight-line function of `IREE_RETURN_IF_ERROR` steps (a step may have a cleanup that its failure path runs, `WithCleanup`), and the destructor, the caller's release or nothing that runs after it | heap, program, phase, pc, outcome, misused objects | `StepOk`, `StepFail` (the cleanup, then the early return), `EndBody`, `EndEpilogue` |
| `SimpleEmbeddingRun` | `Run()`: one step per call, in order | (program data) | the 25 steps of `RunSteps` |
| `BenchmarkModule` | `IREEBenchmark::Init`, `Register` (one entry function, or every export through `RegisterAllExportedFunctions`), one iteration of each benchmark, and `~IREEBenchmark` | (program data) | `InitSteps`, `ExportSteps` (recursive over the exports), `Dtor` |
| `NativeEvent` | `iree_hal_vulkan_native_event_create`, `iree_hal_vulkan_destroy_event` and the vtable's `destroy` run by the caller's last release | (program data) | `CreateVkEvent`, `MallocEvent` (with the `DestroyEvent` cleanup), `ReleaseEvent` |
| `HalAllocatorMath` | `ExpandAllocatorComputeSize/Offset/RangeOp`, `ExpandBufferViewComputeOffset/RangeOp` and `ExpandBufferViewSubviewOp` | the root op, the two compute_offset ops a range creates, and the compute_range a subview creates | one action per pattern; a subview becomes a view record (the range's slot, the lengths as shape) |
| `HalPackCanonicalize` | `AllocatorPackOp::fold`, `PropagateAllocatorPackBaseOffset`, `CanonicalizeAllocatorPackIntervals` | the live pack op, the value each use refers to | `Fold`, `PropagateAllocatorPackBaseOffset`, `CanonicalizeAllocatorPackIntervals` |
| `HalSubspanFolding` | the subspan folds of `fill_buffer`, `copy_buffer`, `push_descriptor_set`, and `SkipBufferAllocatorOp`, `SkipBufferViewBufferOp`, `SkipCommandBufferDeviceOp`, `ExpandAllocatorConstantOp` | the command op, the accessor op, the constants already expanded into `allocator.map` (`mapped`) | one action per pattern |
| `HalVariables` | `InlineConstVariableOpInitializer`, `PropagateVariableLoadAddress`, `EraseUnusedVariableStoreOp`, `PropagateVariableStoreAddress`, `ResolveConstantPoolLoadToRuntimeBuffer` | each variable's initial value or initializer, the block of loads and stores | one action per pattern; `Run` executes the block |
| `PadWorkgroupTiles` | `MatmulWorkgroupTilesPadding`, `getVectorPaddingSize`, `getWorkgroupPaddedTileSize` (with their float arithmetic), `getFullSize`, `createPadTensorOpWithStaticPadding` | the value that replaces the matmul's result (a matmul, or a subtensor of the padded matmul), the input matmul | `MatmulWorkgroupTilesPadding`; `Val` evaluates the IR |
| `VmValue` | `iree_vm_value_make_i32/i64/f32/f64` and the getters | the value (tag and the number its written member holds, a float as a dyadic `[n, d]`), and the type and argument of the last constructor call | one action per constructor; `make_f32` converts its float argument to its `int32_t` parameter (`TruncToInt32`) and back |
| `HostAlign` | `iree_host_align` and `iree_device_align` (the same expression) | the argument, whether the call returned, the result | `Align`; the operator `iree_host_align` keeps every step in the unsigned width |
| `FlagsParse` | `iree_flags_parse`, `iree_flag_parse`, `iree_flags_remove_arg`, `iree_flags_parse_help`, `iree_flags_parse_flagfile` and `iree_flags_parse_file` | mode, argv, arg_ordinal, the stack of active flagfile calls, the flag storage, status | one action per branch of the argv loop (`ParsePositional`, `ParseUnknown`, `ParseValueFlag`, `ParseHelp`, `ParseFlagfileArg`, `FinishParse`), and one per branch of the file loop (`FileSkipLine`, `FileRejectLine`, `FileValueLine`, `FileHelpLine`, `FileFlagfileLine`, `FileEnd`) |

How the models correspond to the code:

* **Loops.** Every loop is kept as its own steps, with a `pc` or an index
  variable, so that the order of reads, writes and early returns is the
  code's.
* **Bounded inputs.** The inputs are enumerated in `Init` from bounded sets:
  dyn tables, relocation tables, grid sizes, entry-point results, argv
  vectors and flagfile contents.
* **Addresses.** Addresses are kept modulo `2^AddrBits`. The 32-bit
  relocation kinds are kept modulo `2^Word32Bits`. A 32-bit store into a
  64-bit site keeps the upper bits, as a little-endian store does.
* **Recursion.** `iree_flags_parse_file` calling itself through
  `--flagfile` is an explicit stack of frames.
* **The flag registry.** It is a set of names fixed before parsing,
  because registration runs in static initialisers.
* **Session programs.** A program is the list of its calls. Each call is a
  `Step` record: what it creates (and what each new object retains), what
  it moves into a list, what it uses, what it releases, and whether it can
  fail. `IREE_CHECK_OK` aborts, so those calls are not fallible. Every
  failure point is a branch TLC explores.
* **Rewrites.** The IR is a few op records and the values their uses
  refer to. A pattern is an action whose guard is the pattern's match
  conditions; `replaceOp` and `replaceAllUsesWith` substitute values in
  every use. The greedy driver is `Next` under weak fairness.

## Abstract specifications and references

* **Refinement.** `LocalExecutableDispatch` instantiates `DispatchOrder`
  with the mapping `issued <- the workgroup ids of the calls` and
  `finished <- (pc = "done")`. Its run checks `DispatchAbs!FairSpec` as a
  PROPERTY (`DispatchImplementsOrder`).
* **Reference values.** Each resolver is compared with a reference that does
  not run its loop:
  * Which tables a dyn table selects is `LastVal`, the last entry with a
    given tag.
  * The entries requested are the prefix of the table given by the size.
    On x86_64 the PLT range may lie inside the DT_RELA range. Re-applying
    an idempotent entry changes nothing, so the duplicates are dropped with
    `Distinct`.
  * The expected image is a fold (`FoldLeft`) of the ABI's definition of
    each relocation kind: the psABI for x86_64, the AArch64 ELF ABI for
    aarch64, and the i386 psABI with its implicit addend for x86.
* **Variables.** `Run` executes the block of loads and stores from the
  variables' initial values (an initializer function is evaluated), and
  gives the final variables and every load's result. The rewritten block
  must give what the input block gives.
* **Session lifetimes.** No reference: the properties compare the heap with
  the objects created (nothing used after its last release; everything
  destroyed on return).
* **HAL shape math.** The reference offset of an element is the element
  size times the number of elements before it in lexicographic order, and
  the reference range is the tightest byte span over every element of the
  box (`Min`/`Max` of their offsets).
* **HAL rewrites.** Each use of a value has a meaning (`Den`, `Loc`,
  `Meaning`) computed from the defining ops, independent of the rewrites;
  the subspan model also has the canonical form (`NormalCmd`, `NormalAcc`)
  every order of rewrites must reach, up to one order-dependent outcome
  (below).
* **Workgroup tile padding.** `Val` evaluates the IR symbolically: an
  element of a load is the name of the element it loads, a pad adds
  elements that hold nothing, and an element of a matmul is its output
  element together with the set of products summed into it. The rewritten
  IR must evaluate to what the input matmul evaluates to.
* **Flags.** `FlagsParse` is compared with `RunItems`/`RunItem`, a recursive
  left-to-right reading of the flags in which a flagfile's lines take its
  place. This is what the comment at flags.c:550-553 describes.

## Runs

| Run | cfg | Expect | What it shows |
|---|---|---|---|
| dispatch | `MCLocalExecutableDispatch.cfg` | pass (896 states) | Calls are issued in strictly increasing row-major order, so the dispatch refines `DispatchOrder`. A clean dispatch covers its grid exactly once. A cell is skipped only after a failure earlier in its row. |
| dispatch_failure_masked | `MCDispatch_FailureReported.cfg` | violation | A failed call followed by a successful one in the next row makes the dispatch return OK. |
| reloc_suite | `MCRelocSuite.cfg` | pass (994496 states) | For each of x86_64, aarch64 and x86, the status is exactly what the input calls for. On success every site is what the psABI defines, including 32-bit partial stores, wrap-around, implicit addends and overlapping tables. |
| reloc_aarch64_abs64_accumulates | `MCRelocAArch64_Abs64.cfg` | violation | `ABS64` adds into a site that is not zero. |
| reloc_plt_ignored | `MCRelocSuite_Plt.cfg` | violation | A symbol-relative JUMP_SLOT in DT_JMPREL is never rejected. The trace is of aarch64; `MCRelocX86_32_Plt.cfg` (not one of the runs) gives the same gap on x86. |
| runtime_suite | `MCRuntimeSuite.cfg` | pass (41174 states) | Flags: the in-place argv loop gives the status, the stored values and the remaining argv of the left-to-right reading, for nested and self-including flagfiles and every error path (`ParseMatchesReference`). Layouts: the layouts of a live executable are never destroyed, whatever the caller releases, and every layout is eventually destroyed, duplicated layouts included (`LayoutsOutliveExecutable`, `NoLayoutLeaked`). Alignment: `iree_host_align` gives the least multiple of every power-of-two alignment at or above every 8-bit value, where that fits (`AlignMatchesReference`). VM values: the constructors run over their inputs (`TypeOK`). |
| vm_value_make_f32_truncates | `MCVmValue.cfg` | violation | `iree_vm_value_get_f32(iree_vm_value_make_f32(x))` is not `x` for a float with a fraction. |
| flags_help_in_flagfile | `MCFlags_HelpExits.cfg` | violation | `--help` in a flagfile does not exit. |
| resource_lifetimes | `MCResourceLifetimes.cfg` | pass (640 states) | In `Run()` and in the benchmark tool, whatever call fails and whichever exports a module has (up to two), no object is used, moved or released after its last reference is gone, and a successful run destroys everything it created. In the benchmark tool every return, after whichever failure, destroys everything (`BenchmarkNoLeakOnReturn`). A Vulkan native event leaves no VkEvent or struct behind, whichever allocation fails (`EventNoLeakOnReturn`). |
| embedding_error_leak | `MCEmbedding_NoLeakOnReturn.cfg` | violation | When a call of `Run()` fails, what it created before is never released. |
| hal_suite | `MCHalSuite.cfg` | pass (about 250000 states, 100 s) | The expanded compute_size/offset/range arithmetic is the row-major layout, for shapes of rank up to 2 and every in-bounds index and non-empty length, and a subview of a box contiguous in the view becomes a view of its lengths over the subspan of that range. Fold, base-offset propagation and interval sorting of a pack keep each use's meaning, in any order, and stop. Subspan folds and accessor skips keep every operand addressing the same bytes and every accessor the same allocator or device, stop, and reach the canonical form whatever the order, except that a `buffer.allocator` of a constant that `ExpandAllocatorConstantOp` rewrote first stays an accessor of the `allocator.map` (`SkipBufferAllocatorOp` has no case for it, HALOpFolders.cpp:505-520). TLC reaches both outcomes. The missed fold changes no meaning. The variable and constant-pool rewrites keep every variable's final value and every load's result, when each load that is stored back is not clobbered in between (the case the erasure's comment describes). Padding a workgroup's matmul tile keeps its result (`RewritePreservesProduct`), is well typed (`ShapesConsistent`), and pads every dim to a multiple of its vector tile where the workgroup tile is one (`PaddedToTileMultiples`, what the pass's registration promises). |
| hal_variable_store_back | `MCHalVariables_StoreBack.cfg` | violation | Over every block, `EraseUnusedVariableStoreOp` erases a store back that restores a variable written in between. |

`MCRelocSuite`, `MCHalSuite` and `MCRuntimeSuite` each check several models in one run. The
initial state picks the model (`arch`, `which`), and only that model steps
from there. Each model keeps the inputs of its own MC module
(`MCRelocX86_64`, `MCRelocAArch64`, `MCRelocX86_32`, `MCHalAllocatorMath`,
`MCHalPackCanonicalize`, `MCHalSubspanFolding`, `MCHalVariables`,
`MCPadWorkgroupTiles`, `MCFlagsParse`, `MCLocalExecutableLayouts`,
`MCVmValue`, `MCHostAlign`), and each suite property is
the property of the model that runs. The violation runs, and the cfgs
that show a hazard, use those MC modules directly (only x86_64 keeps a
passing cfg of its own, `MCRelocX86_64.cfg`, the example above).

Every property of a passing run has a mutant in PROJECT.json. A mutant is a
plausible bug in a mapped definition, for example:

* a dropped reset of `x`;
* a `break` that leaves two loops;
* a missing symbol check;
* an absolute PC32;
* a RELATIVE relocation that assigns instead of adding;
* a retain left out;
* a release of only the first layout;
* a missing `--arg_ordinal`;
* a release of the argument views where the buffers are released;
* a destructor that forgets `inputs_`;
* an inner offset loop starting one dim early;
* an unstable sort of the pack slices;
* offsets remapped by position after the sort;
* a `break` instead of `continue` in the push-descriptor loop;
* an initializer inlined without the two-op check;
* a constant-pool span resolved without its runtime range;
* an event allocation failure that forgets the VkEvent;
* a padded size rounded down, or left at the dim when it is below the
  vector tile;
* the result's N size taken from the lhs sizes;
* a padded result of M x M;
* an alignment mask of `~alignment` instead of `~(alignment - 1)`.

TLC finds each property violated under its mutant.

### Findings

1. **A failed dispatch can return OK** (local_executable.c:93). The `break`
   leaves only the x loop. The next row's call overwrites `status`, which
   drops the failure and leaks its status object. Workgroups after the
   failure are still called. The spec (§4.5, §7) says that the first
   failure ends the dispatch and is returned.
2. **aarch64 ABS64 accumulates** (arm_64.c:64). `+=` gives `old + S + A`,
   but the ABI defines S + A and x86_64 assigns. This is harmless only when
   the linker leaves the place zero. The spec's table describes direct
   relocations as accumulating.
3. **aarch64 and x86 ignore DT_JMPREL** (arm_64.c:102, x86_32.c:106). PLT
   relocations are never applied. An import there is never rejected and
   relocation succeeds. The spec (§8) says that a non-zero symbol index
   yields UNIMPLEMENTED on every architecture.
   The run `reloc_plt_ignored` shows the aarch64 trace.
4. **`--help` in a flagfile does not exit** (flags.c:381). The exit is only
   in the argv loop.
5. **`Run()` of the embedding sample leaks on every error**
   (simple_embedding.c:48 and each later `IREE_RETURN_IF_ERROR`). Nothing
   created before the failing call is released: a failed device creation
   leaks the instance, and later failures leak the device that the comment
   at lines 35-36 says the caller must release. The benchmark tool does not
   have this problem, because its destructor releases every member and is
   NULL-safe.
6. **A store back of a clobbered load is erased** (HALOpFolders.cpp:127).
   `EraseUnusedVariableStoreOp` erases `store %v, @x` whenever `%v` is a
   load of `@x`, without looking at the ops in between. Its comment says it
   erases stores that are no-ops. In `%v = load @x; store %c, @x;
   store %v, @x` the last store restores the old value, and erasing it
   leaves `@x` holding `%c`.
7. **`iree_vm_value_make_f32` takes an `int32_t`** (value.h:93). Every
   other constructor takes the type it stores. A float argument is
   converted to `int32_t` at the call, so `make_f32(-0.5f)` holds 0 and
   `make_f32(1.5f)` holds 1; a float outside the `int32_t` range is
   undefined behaviour. The getter's round trip fails.

## Bounds and why they are enough

* **Relocators.**
  * There are two sites and two tables: a DT_RELA table of two entries in
    both orders, and a one-entry PLT table that may alias the first.
  * The dyn tables put sizes before and after the pointers, sizes without
    a table, an ignored tag, both PLTREL values and the wrong table flavour.
  * The entries cover every handled type, an unhandled type, a
    symbol-relative entry and a NONE entry with a symbol.
  * Addresses have 3 bits and the bias is 6. Every bias + addend of 0 or 3
    at offset 0 or 1 wraps or not. Negative PC32 results wrap, and the
    32-bit field of 2 bits (x86_64) or 3 bits (x86) is smaller than the
    word.
  * Each case a reviewer of a resolver would ask about has at least one
    input. A third entry or site adds only more of the same interleavings
    of a sequential loop.
* **Dispatch.** The grids go up to 2x2x2. A failure can then fall at the
  start or end of a row, of a plane and of the grid, which is where a
  `break` at the wrong level differs. The call bound (8) is the largest
  grid, so it never cuts a behaviour short.
* **Layouts.** Two layouts and up to two stored entries, so the stored list
  can contain a layout twice.
* **Flags.** The model has one bool flag, one string flag and one unknown
  name. Argv is empty, or the program name and up to three arguments from
  twelve. Both mode bits are free. Six files cover:
  * blank and comment lines;
  * nesting two deep;
  * a self-inclusion;
  * `--help` inside a file;
  * a positional line;
  * an unknown flag line;
  * an empty path and a missing file.

  Three arguments are enough for a spliced argument to be followed by one
  that the loop must not skip. MaxDepth = 2 lets a file include a second
  one, and lets a self-including file reach the bound.

* **Session lifetimes.** Every failure point of both programs is explored,
  since each fallible call can fail. Up to two exports, of the four kinds
  `RegisterAllExportedFunctions` distinguishes, so that a skipped export can
  sit before or after a registered one and two benchmarks can each create
  and release their own outputs list.
* **Shape math.** Ranks 0 to 2 with dims up to 3 and element sizes 1 and 4:
  rank 2 is the first where the inner loop's bounds matter, and dims of 3
  make a box that is not a whole row.
* **Pack.** Up to four slices in every order, two with equal lifetimes, and
  every kind of base offset (none, constant 0, a value): equal keys are
  what a sort's stability decides, and one slice is where the fold applies.
* **Subspans.** A subspan of a subspan, a subspan of an argument, views
  created from a subspan and an allocation, a view argument, and every
  fill, copy and two-binding push over six operands and two offsets, with
  every accessor. Two constants: one of an element type with a HAL value,
  so `ExpandAllocatorConstantOp` can race the accessor skip, and one
  without, so the pattern's match failure is taken too.
* **Variables.** Two variables; one has each kind of initializer (a value,
  a constant and a return, a constant with more computation, a two-block
  function). Blocks have up to three ops: a direct load, a load through an
  address op or through an argument, and the same four kinds of store, of
  an earlier load's result or of one of four pool constants (a laid-out
  span, a laid-out splat, a span without a runtime range, and a plain
  value that stands for any other constant). Three ops are the fewest
  where a store back can have a write in between.
* **Workgroup tile padding.** M, N and K each among 1, 3, 4 and 6, with a
  4 x 4 workgroup tile and vector tiles of 2, 3 and 4. So every dim can be
  below the vector tile, between the vector and the workgroup tile, equal
  to the workgroup tile, or over it with a remainder, and the vector tile
  can divide the workgroup tile or not (3). Both branches of the rewrite
  occur. Each dim takes its first and its last tile; an interior tile is
  the first tile at another offset. Dims this small are exact in float;
  the float arithmetic is modelled all the same (`ToFloat`,
  `CeilDivFloatTimes`), and `MCPadWorkgroupTiles_Large.cfg` takes
  M = 2^24 + 1.
* **VM values.** The int32 extremes, an int64 input, and floats with and
  without a fraction, negative ones and 2^31 - 128 (the largest float
  below 2^31) included. The suite gives `make_f32` the floats without a
  fraction only; the violation run gives it all. TLC integers are 32-bit,
  so a float at or beyond 2^31, where the conversion is undefined, is not
  an input.
* **Alignment.** An 8-bit size type stands for the 64-bit one: the
  expression is the same at every width, and 8 bits lets every value and
  every power-of-two alignment be checked, the top of the range included.
* **Native event.** Each of the two allocations can fail, and both can
  succeed: three paths, all explored.

## Fairness

* **Resolvers, dispatch, flags and the helpers.** They are sequential loops in one
  thread with no blocking, so the models assume `WF_vars(Next)`. Once
  called, they keep stepping until they return.
* **Layouts.** Weak fairness applies to `Deinitialize` and to each
  `CallerRelease`. The owner of an executable eventually destroys it, and a
  caller eventually drops the references it holds. This is the contract of
  a reference-counted API, not something the code enforces.
  `NoLayoutLeaked` is conditional on that contract.
* **Session programs and rewrites.** A function runs to its return, and the
  greedy driver keeps applying patterns while one matches; both are
  `WF_vars(Next)`.
* **Deadlock.** Every run sets `CHECK_DEADLOCK FALSE`, because each of
  these functions returns, and a rewrite reaches a fixpoint. Its final
  states have no successor by design.

## Not modelled, and why

* **Image validator.** `iree_elf_arch_is_valid` is a single comparison.
  Its caller is the ELF loader, which is not in this source.
* **Thunks.** The `iree_elf_call_*` thunks are direct calls through a
  function pointer and keep no state.
* **Flags: registration, sort and output.**
  * Registration runs in static initialisers, and its capacity assert
    compares compile-time numbers.
  * Sorting the registry changes no lookup, because flag names are
    distinct.
  * Printing and dumping only write text.
* **Other HAL patterns.** The buffer_view result of allocator.constant
  (a `buffer_view.create` over the map), the buffer_view.dims
  expansion and the tensor.cast fold are not modelled yet. They rebuild
  ops without a condition of their own.
* **Non-contiguous subviews.** `ExpandBufferViewSubviewOp` makes a dense
  view of the lengths over the box's tightest byte range. For a box that
  is not contiguous in the view (a 2x1 box of a 2x2 view) that view's
  second element is the wrong byte. The op's documentation, which would
  say whether such a subview is legal, is not in this source, so the run
  takes contiguous boxes only (`MCSubviewOps`).
  `MCHalAllocatorMath_Subview.cfg` takes every box, and TLC finds
  `SubviewIsSlice` violated; it is recorded as a hazard, not as a run.
* **Variables across blocks.** `HalVariables` runs one straight-line
  block. A store back across a branch or a loop would show the same
  erasure.
* **The native event's device.** The event keeps a raw `logical_device`
  pointer, which its destroy uses. Whether the device outlives its events
  is up to the Vulkan device code, which is not in this source.
* **Workgroup tile padding outside the zero-fill case.** The run's
  matmuls accumulate into a zero fill and load tiles with sizes, which is
  what the tiled matmuls of this pipeline look like. Three cfgs that are
  not runs show what happens outside that case:
  * `MCPadWorkgroupTiles_Acc.cfg`: when the output is a loaded tile, the
    M/N branch multiplies into a fresh zero fill and drops the
    accumulated values (`RewritePreservesProduct`).
  * `MCPadWorkgroupTiles_Whole.cfg`: when a load has no sizes, the
    subtensor is cut at the padded size, and the result is larger than the
    matmul's.
  * `MCPadWorkgroupTiles_Large.cfg`: when M = 2^24 + 1, float rounding
    makes the high padding -1 (`TypeOK`).

  No comment or test of the pass says whether these inputs occur, so they
  are hazards, not findings.
* **The pad_tensor type of an interior tile.** The high padding is the
  last tile's, but it is applied to every tile. An interior tile of a dim
  that is over the workgroup tile gets more rows than its static result
  type (the workgroup tile). The model gives a pad its declared type,
  which is how the values come out when the result is sized by its type.
* **Zero lengths and out-of-range indices in the shape math.** No contract
  in this source says what they should give (hazards in PROJECT.json).
* **The top of the alignment range.** `iree_host_align` wraps to 0 within
  the last alignment - 1 values of the size type (and for an alignment of
  0). The comment asks only for a power-of-two alignment, so this is a
  hazard; `MCHostAlign.cfg` (not a run) shows `AlignNotBelowValue`
  violated at 129 aligned to 128.
* **Compiler passes, GPU, bindings and headers.** The compiler passes
  other than the tile padding,
  the GPU back ends, the Java binding and the headers other than value.h
  and alignment.h are outside the spec's core, or have no state machine
  of their own: `instance.h` declares functions, and `debugging.h` is a
  trap instruction and leak-check macros.
* **Benchmark timing and output.** The benchmark library's iteration
  control and the printing; one iteration stands for each.

## Plan for later work

The order of the next steps:

1. **ELF loader composition.** Model the validator, then the relocator,
   then the dispatch. The loader is not under `src/`, so that part would be
   taken from the spec and marked spec_modelled. It would settle whether a
   partly relocated image (after an UNIMPLEMENTED entry) can ever be run.
2. **Subview composition.** Compose the subview expansion with the
   subspan folds, so that a subview's fill is checked end to end.
3. **Flags with the tools' modes.** The benchmark tool parses with
   `UNDEFINED_OK | CONTINUE_AFTER_HELP`; the flags model already covers both
   bits, but not the composition with the tool's own start-up.

The runs are kept to one per question. A new model of a component that is
already checked joins that component's suite MC (`MCRelocSuite`,
`MCHalSuite`, `MCRuntimeSuite`) instead of adding a run of its own.
