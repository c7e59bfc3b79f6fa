# TLA+ models of txn-compound

This directory holds TLA+ models of the C/C++ code under `src/` and the TLC
configurations that check them. Each module is translated from the source
lines that `PROJECT.json` ("map") names for each definition. A few
definitions model code that is not under `src/`; these come from `spec.md`
and are marked `spec_modelled`.

## 1. The system and its parts

The repository is a partial snapshot of a transactional NFSv4 client. It
sends *compounds*, which are batches of file operations, to an NFS-Ganesha
proxy. Under `src/` it holds these parts:

| part | source | state and operations | interacts with |
|------|--------|----------------------|----------------|
| path utilities | `tc_client/util/path_utils.cpp` | pure functions: components, tokenize, depth, distance, join, append, normalize, rebase | callers of the TC API (lookups, rebasing paths on the current directory) |
| vectorized read/write entry points | `proxy_client/FSAL/FSAL_PROXY/tc_utils.c` | `tcread_v` and `tcwrite_v`: guard checks, `kern_arg` marshalling with path copies, the call into the FSAL's `tc_read`/`tc_write`, freeing, the `tc_res` result | driver programs (`tc_singlefile`); the FSAL's compound engine |
| compound engine | not under `src/` (spec.md 4.4-4.5) | splits a batch into compounds of at most `MAX_OPS_PER_COMPOUND` ops; a compound stops at its first failing op; the shards after a failing one are skipped | `tc_read`/`tc_write`; the NFS server |
| SECNFS object handles | `src/FSAL/Stackable_FSALs/FSAL_SECNFS/handle.c` | each SECNFS handle wraps a next-layer handle. Methods: `lookup`, `create` (+ `write_keyfile`), `makedir`, `makenode`, `makesymlink`, `release`, `getattrs`, `setattrs`, the export's `lookup_path` and `create_handle`, and seven methods that only delegate | cache_inode, which holds the handles; the next FSAL layer, which owns the wrapped handles |
| BlockMap | only its test, `secnfs_lib_test.cpp` | - | - |
| drivers (`TcSingleFile` models the proxy one, `TcDaemon` the daemon) | `proxy_client/nfs4/tc_singlefile.c`, `tc_client/nfs4/tc_daemontest.c`, `tc_client/MainNFSD/tc_daemon.c` | allocate one batch of `ops_per_comp` ops; call `tcread_v`/`tcwrite_v` (or `nfs4_readv`) in a loop; the daemon frees the batch, the proxy driver ends in `LogFatal` first | `tc_utils.c` |
| POSIX benchmarks (`Test6`, `KernelDist`) | `proxy_client/nfs4/test6.c`, `tc_client/nfs4/kernel_dist1_bufcache.c` | `main`: getopt with per-option checks, argc check, allocation, a read/write loop over one file (`test6`) or over files drawn from a normal distribution (`kernel_dist`), the `exit`/`main_exit` cleanup labels | POSIX only; they are the baselines the TC drivers are compared with |
| other benchmarks and the smoke test | `tc_bench_util.cpp`, `personal.c` | timing loops over TC calls; `personal.c` is a sequential FSAL smoke test | - |
| unit tests (`AttrsTest` models the attributes tests) | `tc_client/tc/tc_test.cpp`, `proxy_client/tc/tc_test.cpp` | gtest suites of the TC API; `set_tc_attrs`, `set_attr_masks` and `compare` build, prepare and check attribute records | the library's `tc_setattrsv`, `tc_getattrsv` |

The rest of the TC client core is described only in `spec.md`:

- the planner;
- the file-descriptor state machine (UNOPENED, OPENING, OPENED, CLOSING);
- session slots and retries;
- the handle cache;
- `listdir` and `copyv`.

### Hard behaviours

- **Partial failure of a batch.** An op fails in a later compound after the
  earlier compounds have run. The caller must not be told "okay", and no op
  after the failure may run.
- **Batches longer than the marshalling bound.** `tcread_v` fills only the
  first `MAX_READ_COUNT` entries of `kern_arg` but passes `read_count` on.
- **Ownership across two FSAL layers.** A wrapped next-layer handle must be
  released exactly once. This must hold:
  - on every error path: allocation failure, a failed mkdir, the status of
    `write_keyfile`;
  - when a release fails because cache_inode still holds the handle.
- **Stale state.** Another client changes a file's attributes on the
  server. The attributes cached in the two layers' handles must follow.
- **Lexical path resolution.** `..` after a kept `..`, `..` at the root,
  repeated and trailing slashes, and rebasing a path on a base directory are
  all easy to get subtly wrong.
- **Driver memory handling.** The daemon frees a path buffer repeatedly,
  and an unsigned offset can wrap. (The proxy driver's free loops have the
  same defects, but its `LogFatal` at `tc_singlefile.c:123` ends the
  process before they run.)

## 2. Modules

| module | models | state | actions / operators |
|--------|--------|-------|---------------------|
| `PathUtils` | path_utils.cpp | none (pure) | one operator per function (`tc_get_path_components`, `tc_path_tokenize`, `tc_path_depth_s`, `tc_path_distance_s`, `tc_path_append_impl`, `tc_path_join(_s)`, `tc_path_append`, `tc_path_normalize(_s)`, `tc_path_rebase_s`), plus a reference definition `Resolve` written independently of the code. Components are slices (`[pos, len]`) of the path, as `tc_path_slice` is. `NormalizeInPlace` models the normalization `tc_path_join_s` and `tc_path_append` run over their own buffer: `AppendChar`/`AppendSlice`/`CopySlice` write the output over the bytes the remaining slices are still read from (`memmove` semantics). An empty path is the assertion failure of `path_utils.cpp`, and a result of `PATH_MAX` or more is the -1 return |
| `MC_PathUtils` | harness | `path`, `base`: the inputs of one call | `NewPath`, `NewBase` enumerate every path of up to `MaxLen` characters of `Alphabet` |
| `TcUtils` | tc_utils.c + compound engine | `pc` (the step of the call), `kind`, `batch` (the path of each op, NULL for the current file), `kern` (Set/uninitialized per entry), `copies` (strdup'ed paths not yet freed), `results`, `next`, `fsal`, `res` | `CallNoExport`, `CallNotSupported` (early returns), `Call`, `Marshal` (malloc + fill loop), `ExecuteShard` (one compound per step, spec-modelled; a shard may fail with `NOENT` or `EIO`), `Cleanup` (free loop, free, result), `Return` |
| `TcSingleFile` | proxy_client/nfs4/tc_singlefile.c, composed with `TcUtils` | `dpc` (where the driver is), `rc`, `j`, `tempPath` (the `temp_path` array), `heap` (each block the driver allocates: unallocated or live), `faults` (temp_path overflow), `issued` (offsets sent), plus every variable of `TcUtils` | `NoProxyExport` (the -1 returns), `Setup` (clearing and allocation loops), `Batch` (one loop iteration: offsets, `tc!Call`), `InCall` (the `TcUtils` steps of the call), `Returned` (`j += ops_per_comp`), `LogFatal` (the time is logged and the process ends, before the free loops at lines 125-138, which never run), `Terminated` |
| `AttrsTest` | tc_client/tc/tc_test.cpp (`set_tc_attrs`, `set_attr_masks`, `compare`, `AttrsTestPath`/`AttrsTestFileDesc`) | `pc` (the statement of the test), `write_attrs`, `read_attrs` (the two record arrays, or NULL), `server` (the attributes the server holds), `openFds`, `failures` (the EXPECT checks that failed) | one action per statement of the test; `compare` and `FieldMismatch` are operators; `tc_setattrsv`/`tc_getattrsv` are spec-modelled: they may stop part way and may get one attribute wrong |
| `TcDaemon` | tc_client/MainNFSD/tc_daemon.c `main` and tc_client/nfs4/tc_daemontest.c `tc_singlefile` | `dpc` (where main and the driver are), `module`, `j`, `tempPath`, `heap`, `faults`, `issued` | `nfs4_init` (may fail; `LogFatal` ends the process), `Setup`, `Batch` (one loop iteration; the synchronous `nfs4_readv` whose result is ignored is part of it), `Finish` (the freeing loops), `nfs4_deinit`, `Terminated` |
| `TcCall` | the promise of one `tcread_v`/`tcwrite_v` call (spec.md 3-4) | `cpc` (idle, busy, done), `ckind`, `cbatch`, `cresults`, `cres` | `Refuse` (the entry checks), `Begin`, `Complete` (the whole batch in one atomic step, ending with a prefix of successes, at most one failure and the rest not executed; the reply is okay or the failing status), `Return`; weak fairness of `Complete`. It is abstract and maps no code; `TcUtils` instantiates it with a refinement mapping (`ImplementsTcCall`) |
| `Test6` | proxy_client/nfs4/test6.c `main` | `tpc`, `block_size`, `file_size`, `rw`, `j`, `bGiven` (whether `-b` was given), `nopts`, `fd`, `issued` | `Getopt` (one option, with a disjunct per case of the switch: `-b`, `-m`, the checked `-n/-c/-l/-z`, `-r/-w`, `-h` and unknown), `EndOfOptions` (argc check), `Open`, `DivideByZero` (the SIGFPE of the loop condition), `ReadBlock`, `Close`, `MainExit`, `Terminated` |
| `KernelDist` | tc_client/nfs4/kernel_dist1_bufcache.c `main` | `kpc`, `num_files`, `num_ops`, `j`, `nopts`, `heap` (temp_path, data_buf, op_array: none, live, NULL or freed), `faults` | `Getopt`, `EndOfOptions`, `Alloc` (op_array may be NULL: `goto main_exit`), `Fill` (the randn loop, one step; a write past op_array is recorded), `OpenFile` (fopen may fail: `goto exit`), `LoopDone`, `ExitLabel`, `MainExit`, `Terminated` |
| `MC_Drivers` | the drivers and the POSIX benchmarks together | the variables of `TcSingleFile`, those of `TcDaemon` (`d_*`), `Test6` (`t_*`) and `KernelDist` (`k_*`) | a step of one program with the others' variables unchanged. The two TC drivers interleave; once both have ended, one POSIX benchmark runs (`test6` or `kernel_dist`, whichever takes the first step), so their states add up instead of multiplying. It also holds the daemon's freeing check `DaemonFreesOnlyLiveBlocks` |
| `SecnfsHandle` | handle.c | `secState`/`nextState` (memory of the handles of each layer), `wraps`, `held` (the handles cache_inode received), `secAttr`, `nextAttr`, `serverAttr`, `nextArgs` (the handles the last step passed to the next layer) | one action per method of `handle.c`: `lookup`, `makenode`, `makesymlink`, `secnfs_lookup_path`, `secnfs_create_handle`, `create`, `makedir`, `release`, `getattrs`, `setattrs`, and the forwarding methods `readsymlink`, `linkfile`, `read_dirents`, `renamefile`, `file_unlink`, `handle_digest`, `handle_to_key`, which change no handle state but record what they pass down; the environment step `ServerChange`. `MakeHandleFromNext` models `make_handle_from_next` with `alloc_handle` |

How the code's behaviour appears in the models:

- **Undefined behaviour is a nondeterministic choice.** This covers:
  - the uninitialized entries of `kern_arg`, which may yield any status;
  - `write_keyfile`'s uninitialized `st`, which may read as success or error;
  - `makedir`'s uninitialized `next_hdl`, which may be any handle or garbage.
- **Allocation failure is a pool running dry.** A handle can be allocated
  only while one of the pool's model values is still free.
- **The next FSAL layer and the server form the environment.**
  - Each call to the next layer may fail. The model returns its error
    unchanged, as the code does.
  - `ServerChange` stands for another client changing a file's attributes.

## 3. Runs

| run | cfg | expect | shows |
|-----|-----|--------|-------|
| path_utils | `MC_PathUtils.cfg` | pass | path resolution (`ComponentsMatchReference`, checked against a right-to-left reference); normalize is canonical (`NormalizeIsCanonical`); rebase leads to the same file (`RebaseReachesPath`) and yields a relative path exactly when the base is not deeper than the distance (`RebaseOnlyWhenShorter`); distance is a tree metric (`DistanceIsTreeMetric`); the in-place normalization of join and append, which overwrites the slices it still reads, gives the same path as normalizing a copy (`JoinInPlaceIsNormalized`) |
| tc_vector | `MC_TcUtils.cfg` | pass | no path copy leaks (`NoPathCopyLeak`); `TcUtils`, with its marshalling, shards, cleanup and early returns, implements the one-step call of `TcCall` (`ImplementsTcCall`): each call returns, its outcome is a prefix of successes with at most one failure, and `okay`/`err_no` are those of that outcome; `TypeOK` |
| tc_overflow | `MC_TcUtils_overflow.cfg` | violation | a batch of `MAX_READ_COUNT + 1` reaches `tc_read` with an uninitialized entry |
| drivers | `MC_Drivers.cfg` | pass | the proxy driver and the daemon, interleaved, each request every block of their file (`SingleFileCoversAllBlocks`, `DaemonCoversAllBlocks`; the daemon's `j <= file_size / block_size` reaches the partial last block) and each ends (`SingleFileTermination`, `DaemonTermination`, under weak fairness). For the POSIX benchmarks: `test6` that returns 0 has read every block of its file at its unsigned offset (`Test6ReadsWholeFile`); `kernel_dist`, on each of its three ways back from `main`, has freed each buffer exactly once (`KernelDistReleasesAllAtReturn`) |
| drivers_free | `MC_Drivers_free.cfg` | violation | `DaemonFreesOnlyLiveBlocks`: the daemon, with the arguments `tc_daemon.c:69` passes (`ops_per_comp = 3`), frees `temp_path[0]` three times (`free(temp_path[i])` with `i` still 0, `tc_daemontest.c:87`) |
| secnfs_handles | `MC_SecnfsHandle.cfg` | pass | when the next layer's mkdir succeeds, every live SECNFS handle wraps a live next handle of its own |
| secnfs_leak | `MC_SecnfsHandle_leak.cfg` | pass | no next-layer handle is orphaned, even through allocation failure and a failed mkdir |
| secnfs_mkdir | `MC_SecnfsHandle_mkdir.cfg` | violation | a failed mkdir gets an arbitrary (here: another live) next handle wrapped a second time |
| secnfs_create | `MC_SecnfsHandle_create.cfg` | violation | `create` reports an error for a handle it allocated, which is then lost |
| secnfs_link | `MC_SecnfsHandle_link.cfg` | violation | `NextLayerGetsOwnLiveHandles`: `linkfile` passes the SECNFS `destdir_hdl` to the next layer's `link` instead of the handle it wraps (`handle.c:234`) |
| secnfs_attrs | `MC_SecnfsHandle_attrs.cfg` | violation | after a server change and `getattrs`, the SECNFS handle's attributes are stale |
| attrs_compare | `MC_AttrsTest.cfg` | violation | `PassMeansRoundTrip`: `AttrsTestPath` passes although the library stored mode 0755 for a file set to 0754; `compare` tests `!written->mode & read->mode` (always 0) and never compares the size |

Each property of a passing run has a mutant in `PROJECT.json`. The mutant is
an operator defined just before the mapped definition, and TLC finds the
property violated when the mutant replaces that definition:

- `..` always pops;
- "." for an empty absolute path;
- one `..` too few in rebase;
- the common prefix not subtracted in distance;
- `err_no` left at its initial `ENOENT` on error (breaks `ImplementsTcCall`);
- the free loop stopping one entry short;
- index -1 on error;
- release ignoring a busy handle;
- the next handle not released on allocation failure;
- the per-op offset not scaled by `block_size`;
- `j` not advanced after a call (in each driver);
- the daemon's loop bound `<` instead of `<=`;
- the in-place copy run from the last byte instead of the first (overlapping
  slices are corrupted);
- rebase keeping a relative path when the distance equals the base depth;
- `test6`'s loop bound `<` instead of `<=`;
- `kernel_dist`'s failed `fopen` jumping to `main_exit`, past `free(op_array)`.

### Bounds and why they are enough

- **`MC_PathUtils`:**
  - `Alphabet = {"/", ".", "a"}`. With `MaxLen = 5`, the paths include
    `..` after a name, after `..`, at the root, repeated and trailing slashes,
    and `.` in every position.
  - Absolute bases go up to 6 characters (depth 3). This makes rebases that
    need one, two or three `..`, which the off-by-one mutant needs.
  - The third directory of the triangle inequality goes up to 3 characters.
    This keeps the quantifier small.
  - Each state is one input pair; 132132 states.
- **`MC_TcUtils`:**
  - `MAX_READ_COUNT` is scaled from 10 to 3; both runs have
    `MaxBatch = 4`, one past the bound, so the passing properties are also
    checked for batches that `kern_arg` only partly holds, and the overflow
    run checks `KernArgsInitialized` on the same batches. With `MAX_OPS_PER_COMPOUND = 2`, a
    batch makes 1 or 2 shards, so a failure can happen in the first or the
    second shard.
  - Two error statuses, `NOENT` and `EIO`, check that the status of the
    failing op, not a fixed one, reaches the caller.
  - One file name and NULL (the current file) give batches with and without
    path copies.
- **`MC_Drivers` (proxy driver):**
  - `ops_per_comp = 2` and `MAX_OPS_PER_COMPOUND = 2`. `num_ops = 5` (three
    calls, the last one overshooting `num_ops`), in both runs.
  - `block_size = 4`. The word width is scaled from 32 bits, which TLC's
    integers cannot hold, to 8 bits: every offset fits. The 32-bit code
    wraps once `num_ops * block_size` passes 4 GiB; no program under `src/`
    calls this driver, so the wrap is listed as a hazard, not a run.
- **`MC_Drivers` (daemon, both runs):** the arguments of `tc_daemon.c:69`
  (`block_size = 65536`, `file_size = 200000`, `ops_per_comp = 3`, `rw = 0`)
  scaled to `block_size = 4`, `file_size = 13`: `file_size / block_size`
  stays 3 and the last block is partial, so the loop makes the same two
  calls. `MAX_READ_COUNT` is the real 10.
- **`MC_SecnfsHandle`:**
  - There are two SECNFS handles and three next-layer handles besides the
    root. So the SECNFS pool can run dry while the next layer still yields a
    handle (the allocation-failure path), and handles are freed and reused.
  - Attributes take values 0..2 (0..1 in the leak run, which enables the
    mkdir failure and has more states).
  - Symmetry over each pool is sound: no action names a particular handle.

- **`AttrsTest`:**
  - `Count = 2` files (the tests use 3): two files are enough for a failure
    part way through a call and for a wrong attribute on a later file.
  - A wrong attribute is the stored value plus one. For the mode this
    changes a permission bit, which is the change `compare` misses.
- **`MC_Drivers` (POSIX benchmarks):**
  - `unsigned int` is scaled to 5 bits, and a command line holds at most 3
    options (`MaxOpts`); `MaxBlock = 8` and `MaxCount = 4` scale the
    32 KiB and 10000 bounds.
  - The atoi results of `-b` are {0, 1, 4, 9, -1}: zero, in range, past
    `MaxBlock`, and negative (which wraps to 31, past the bound). Those of
    `test6`'s `-m` are {0, 13, -1}: 13 is not a multiple of 4, so the last
    block is partial, and -1 wraps to 31. `kernel_dist`'s `-n` is {0, 1, 3}
    and `-m` {2, 3, -1}, so op_array is both large enough and too small, and
    `-n` may be missing (`malloc(0)`).

### Fairness

`TcSingleFile` and `TcDaemon` state fairness: `WF_vars(Next)`. The driver and the
`tcread_v` it calls run in one thread that never blocks in the model. The
server's answer to each compound is one step, so that step is always
enabled while a call is in progress, and a running process eventually takes
it. `Terminated` lets the finished program stutter, so the end of the
program is not reported as a deadlock. The daemon's `nfs4_readv` is
synchronous and one step. `MC_Drivers` asks for weak fairness of each
TC driver's steps: they are separate processes, and each of them, once
started, keeps running. The POSIX benchmarks have no fairness and no
liveness property: `test6` with `-b 1 -m -1` (file_size 2^32-1) loops for
ever in the real program, since `j <= file_size` holds for every unsigned
`j`, and this is listed as a hazard.

`TcUtils` has `FairSpec == Spec /\ WF_vars(Next)`, and `TcCall` has weak
fairness of `Complete`: once `tcread_v`/`tcwrite_v` is entered, its steps
and the server's answer to each compound are always enabled until it
returns, and the caller's thread runs them; a client choosing to make a
call is not forced. `ImplementsTcCall` checks `FairSpec` against the
abstract fairness, so it also says that every entered call returns. The other modules state
no fairness and check only safety: their steps are calls a client may or may
not make. Liveness of the session layer (every
compound eventually answered, every slot eventually released) is planned
below.

## 4. Not modelled, and why

- **The directory contents on the server** that the forwarding SECNFS
  methods change (names, links, dirents) are not modelled: those methods are
  actions only for the handles they pass down. `handle_to_key` keys that
  cache_inode keeps after a release are not modelled: cache_inode is not
  under `src/`.
- **BlockMap:** the implementation is not in the repository.
- **`tc_bench_util.cpp`:** helpers with straight loops around single TC
  calls, and no caller under `src/`; there is no control to model.
- **`personal.c`:** a sequential smoke test of the FSAL whose every check
  would fail (a stale `op_ctx`, a read of a NULL `data_buf`, a write
  over-read, handles never released). Each is listed as a hazard; the run
  limit leaves no room for a violation run per defect.
- **Unit tests other than the attributes tests:** they call the library,
  which is not under `src/`.
- **What the POSIX benchmarks leave out:** the normal samples of
  `kernel_dist` (floating point) only name files, so which `fopen` fails is a
  free choice; its op_array overflow is recorded in `faults` but has no run;
  `test6`'s non-termination for a huge `file_size` has no liveness run, and
  its division by a `block_size` of 0 on a command line without `-b`
  (`test6.c:199`), which the model reaches as `DivideByZero`, has no
  violation run: every run of the project is in use. Both
  are hazards with notes.
- **The index of a failed op** (`tc_utils.c:81`, always 0) is listed as a
  hazard; the code marks it as unfinished, and no run checks it.
- **Buffer capacities in `path_utils.cpp`:** the `buf_t` type and its
  append functions are not in the repository, so the capacity checks of
  `tc_path_append_impl` cannot be translated; every buffer is taken as large
  enough. The `PATH_MAX` bound of the in-place normalization is modelled.

## 5. Open work

Each item below has a hazard in `PROJECT.json`:

1. **Allocation failure in `tcread_v`/`tcwrite_v`:** the `malloc` results
   are not checked.
2. **A spec-modelled session layer:** slots, sequence ids, retries after a
   lost reply, and liveness under weak fairness of the server.
3. **The descriptor state machine and handle cache of spec.md,** with an
   abstract "one open per file" that the detailed spec refines.
4. **The index of a failed op** (`tc_utils.c:81`), once the code fills it.
