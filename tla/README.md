# TLA+ models of the TickTock storage engine and rollup aggregator

This directory holds TLA+ models of the parts of TickTock (`src/`) whose
correctness depends on the order of steps, not on one function's output:

- the memory-mapped page file (`PageManager`, `PageInfo` in
  `src/src/core/page.cpp`) across allocation, compaction, msync, kernel
  write-back, close, power loss and reopen;
- the streaming rollup aggregator (`RollupManager` in
  `src/src/agg/rollup.cpp`) across buckets and Tsdb file boundaries;
- the process-wide configuration store (`Config` in
  `src/src/utils/config.cpp`): its timer reloads racing the threads that
  read it, and the formatting of the whole store into a caller's buffer.

The TLC runs are listed in `PROJECT.json`. Each run names a module, a `.cfg`
file, the properties it checks, and whether TLC should pass or find a
violation.

## 1. The system

| Part | Source | State | Operations |
|---|---|---|---|
| RollupManager | `src/src/agg/rollup.cpp` | `m_cnt, m_min, m_max, m_sum` (accumulators), `m_tsdb`, `m_tstamp` (the current bucket) | `add_data_point`, `flush`, `query`, `step_down` |
| PageInfo | `src/src/core/page.cpp` 40-358 | a pointer to one `page_info_on_disk` in the mapping and an optional live Compressor | `init_for_disk`, `setup_compressor`, `ensure_dp_available`, `add_data_point`, `persist`, `flush`, `shrink_to_fit`, `recycle` |
| PageManager | `src/src/core/page.cpp` 361-943 | the mapped file: `tsdb_header` (`page_index`, `header_index`, `actual_pg_cnt`, flags), the header table, the pages; `m_lock` | constructor (open and recovery), `open_mmap`, `init_headers`, `get_free_page_on_disk`, `get_free_page_for_compaction`, `get_the_page_on_disk`, `flush`, `persist`, `shrink_to_fit`, `resize`, `close_mmap`, `reopen` |
| Compressor | not in `src/` (spec 4.1) | bit buffer, position (cursor, start), full flag | `init`, `compress`, `save`, `restore` |
| Config | `src/src/utils/config.cpp` | `m_properties`, `m_overrides`, `m_lock` | `reload`, `set_value`, `add_override`, `exists`, typed getters, `get_count_internal`, `c_str` |
| TcpServer / TcpListener | `src/include/tcp.h` (declarations only) | listener threads, connection maps | implementation not in `src/` |
| MemoryPool, Tsdb, engine | not in `src/` | | |

How the parts interact:

- The engine hands a series' in-order datapoints to its `RollupManager`, together with
  the Tsdb that holds the timestamp. Each finished bucket goes to
  `Tsdb::add_rollup_point`.
- Datapoints are written through a `PageInfo` into a page that
  `PageManager` allocated.
- `PageInfo::persist` writes the compressor position into the page's
  header in the shared mapping. The kernel writes dirty pages back on its own,
  and `PageManager::flush/persist` msync them.
- Compaction writes a new, temporary file with
  `get_free_page_for_compaction` and `shrink_to_fit`. It is renamed over the
  data file when it is done (spec 6).
- Every component reads its parameters from `Config`. A timer reloads
  `Config` while other threads read it.

## 2. Modules

### RollupManager.tla — `RollupManager` (rollup.cpp)

The variables are `m_cnt, m_min, m_max, m_sum, m_tsdb, m_tstamp` as in the class.
`emitted` is the sequence of `add_rollup_point` calls. `input` and `accum` are
ghost variables: the datapoints received, and the values accumulated since the
last flush.

Time is in seconds. The Tsdbs are `NumFiles` consecutive files of `FileLen`
seconds each. Values are small integers.

- `AddDataPoint(f, t, v)` is the whole of `add_data_point` (lines 43-85):
  - the step-down (`StepDown`);
  - the flush of the old bucket;
  - the first gap loop up to the end of the old file (`GapFill`, `LoopExit`,
    a RECURSIVE operator that yields exactly the `m_tstamp` values at which
    the loop calls `flush()`);
  - the rebinding to the caller's Tsdb (`NextTsdb`);
  - the second gap loop from the new file's start;
  - the accumulation (`Accumulate`). This keeps the code's
    `m_max = std::max(m_min, value)`.

  The caller passes only in-order points, with the Tsdb that holds them (the
  comment at line 42).
- `Flush` is `flush(mid, tid)` called from outside.
- `Query(type)` is `query()`; it changes no state and the properties use it.

### PageInfo.tla — header and compressor records (page.cpp)

- `ZeroHeader` is a `page_info_on_disk` as `init_headers` leaves it.
- A compressor is `[cap, used, full]`, modelled from spec 4.1: `used` bits of `cap`.
  Its position is (cursor, start) = (used div 8, used mod 8).
- The `PageInfo` methods are operators on (header, compressor):
  - `InitForDisk`
  - `SetupCompressor` (a buffer of the header's `size`)
  - `Persist` (writes the position and `is_full()`)
  - `FlushHeader`/`FlushCompressor` (persist, then recycle when full)
  - `ShrinkSize`/`ShrinkHeader`: persist, size := cursor plus one byte for a
    partial byte, set_full, then flush, which persists `is_full()` again.

`PageManager` applies these operators inside its actions, because every method
writes the shared mapping.

### PageManager.tla — `PageManager` (page.cpp), with MCPageManager.tla

The file exists in three copies:

- `hdr`, `info`: the `tsdb_header` fields the allocator uses and the header table,
  as they are in the OS page cache. The `MAP_SHARED` mapping writes them, and
  they survive the process.
- `dhdr`, `dinfo`: the same on disk.
- `comp`: the live compressors of the process.

Other variables:

- `status` is closed (no `PageManager` object), open, unmapped (`close_mmap`
  ran and the object lives on) or failed.
- `temp` marks a compaction file.
- `opens` bounds reopening.
- The ghost variables are `sealed` (pages compaction shrank) and `synced` (the
  allocated headers as the last msync made them durable).

| Action | Code |
|---|---|
| `OpenNew` | `open_mmap` on a new file and `init_headers`. Its msync starts at `m_page_info`, which is not page aligned, so nothing reaches the disk. |
| `OpenExisting` | `open_mmap` on an existing file and the constructor's recovery loop (`RecoveredPageIndex`). A zero header is fatal. |
| `GetFreePageOnDisk(ooo)` | `get_free_page_on_disk`, under `m_lock`: one step |
| `GetFreePageForCompaction` | `get_free_page_for_compaction` with the 12-byte packing (`CompactionHeader`) |
| `AddDataPoint(h)`, `PersistPage(h)`, `FlushPage(h)`, `ShrinkToFitPage(h)`, `EnsureDpAvailable(h)` | the `PageInfo` methods of the page with header `h` |
| `SyncFile` | `PageManager::flush(true)` / `persist()`: msync of `[0, page_index*page_size)`, which holds the `tsdb_header` and the whole header table |
| `ShrinkToFit` | `PageManager::shrink_to_fit`, `persist_compacted_flag`, `resize` |
| `Close` | `~PageManager` (its `close_mmap`, without msync), or a process crash. The page cache is kept. An unrenamed compaction file is removed (`Discarded`). |
| `CloseMmap` | `close_mmap` on a data file whose `PageManager` lives on: unmapped, no msync. The `PageInfo`s point into the mapping, so their compressors go with it. |
| `Reopen` | `reopen()`: `open_mmap(0)` maps the file again and reads its header as it is. The constructor's recovery loop does not run. |
| `RenameCompacted` | end of compaction (spec 6, from the spec: `tsdb.cpp` is not in `src/`): sync, close, rename |
| `WritebackPage(p)` | the kernel writes one dirty page of the `tsdb_header` and header table back, in any order. Page 0 holds the `tsdb_header` and the first headers (`InfoPage`), so they reach the disk together. |
| `OsCrash` | power loss: the page cache reverts to the disk |

`MCPageManager` gives the sizes:

- the compaction run uses 24-byte pages and 5 headers;
- the restart run uses 16-byte pages and 3 headers, so there is one data page.
  Page 0 holds the `tsdb_header` and headers 0-1, and page 1 holds header 2;
- the crash run (`pages_crash_uninit`) uses 16-byte pages and 6 headers
  (`MCCrashPageCount`): four data pages, and header 2 is the first on page 1;
- both use an 8-byte `tsdb_header`, 4-byte headers and a 60-bit datapoint.

The first data page is computed by `CalcFirstPageInfoIndex`, as in the code. A
fresh page then holds three (compaction) or two (restart) datapoints. So a
page fills, and the partial last byte of a shrink happens: 180 bits is 22
bytes and 4 bits.

### Config.tla — `Config` (config.cpp)

`Config` is a static store: `m_properties` (key to `Property`), `m_overrides`
(the command-line options) and the mutex `m_lock`. Every public method holds
`m_lock` for its whole body, so each one is one action.

- State: `props` and `overrides` map each key to a value or `NoProp`. The file
  on disk is `file` (its parsed lines) and `fileOk` (whether it can be opened).
  `reload()` frees every `Property`. `set_value_no_lock` changes an existing
  one in place and frees none. Both mark (`freed`) a reader that holds a
  reference into the string, since reading it without the lock is then a read
  of freed memory or a data race with the write, and either gives undefined
  bytes.
- Values are abstracted to the shapes `get_count_internal` tells apart:
  `"int"` (one count), `"pair"` (`"a,b"`) and `"half"` (`"a,"`, or its
  mirror `",b"`, forms the comment at config.cpp:307-308 lists).
  `tokenize` is not in `src/`, and the model assumes that it splits at the ','
  as that comment implies. `std::stoi` on the empty half throws
  `std::invalid_argument` (`AfterTokenize`). The caller's `which` is chosen
  freely.
- `AddOverride` runs at startup. `ConfigInit` is `Config::init()`, whose
  first `reload()` ends the process when it throws. `Reload` is the timer task.
  Its exception goes to the timer, so the process may go on with the cleared
  store or stop. `SetValue` is `set_value`. `EditFile` is the environment: an
  operator edits the file, or it becomes unreadable or readable again.
- `ReloadBody` is `reload()`'s body: `clear()`, then the file lines, then
  the overrides (`Parsed`). When the open fails, the throw comes after the clear.
- `get_count_internal` is a reader thread with one action per locked call:
  `CountExists`, `CountGetStr`, `CountTokenize` and `CountGetInt`.
  - `CountGetStr` keeps a reference `ref` to the key's `Property` string
    (`EMPTY` when there is none).
  - `Reload` sets `freed` for every thread that holds such a reference.
  - `CountTokenize` runs without the lock. If the `Property` was freed since
    (`Dangling`), the bytes read are undefined, and the action chooses any value.
  - `reloaded` and `dangled` are ghost flags used by the properties.
- `get_data_dir`, `get_log_dir` and `get_log_file` run on the same reader
  thread. Each walks a list of candidate keys (`Candidates`).
  - `DirExists` is one `exists()` call. If the key is absent, the walk moves
    to the next candidate, and after the last one it returns
    `g_working_dir` (`"default"`).
  - When the key exists, `CountGetStr` is that candidate's `get_str()`.
    `DirCopy` then builds the returned `std::string` from the reference,
    after the lock is released.
  - `get_log_file` checks `log.file` once itself, then again inside
    `get_log_dir`, and `get_log_dir` takes the directory of `log.file`.
  - The result is `"configured"` or `"default"`, or `"lost"` when it was
    built from the empty string that `get_str` returned for a key `exists()`
    had reported. A lost data directory is `""` (the working directory
    itself), or `"/data"` under an empty home.
  - Only `find_last_of('/')` on an empty `log.file` turns the empty string
    back into `g_working_dir`.
- Reloads are not bounded, so the state space stays finite without a reload
  counter. `FairSpec` adds weak fairness of `Reload` (section 5).

### PageFile.tla — what a page file promises (abstract)

`PageFile` states the page file without the mapping, the counters or the
cache. Its state is:

- `file`: none, open or done;
- `region[h]`: the window of logical header `h` (page, offset, size);
- `data[h]`: the bits written into that window;
- `pages`: the file's page count.

Its actions:

- `Create` opens a file.
- `Allocate(h)` hands out headers in order. Each new window lies in one data
  page and shares no byte with another.
- `AppendData(h)` adds data only inside the window.
- `Shrink(h)` shrinks a window, never below its data.
- `ShrinkFile` shrinks the file, never below a window.
- `Finish` ends the file, and `Discard` throws all of it away.

`PageManager` implements it for the compaction file.
`PageFileRefined == PF!Spec`, where
`PF == INSTANCE PageFile WITH ...` maps:

- `file` to `AbsFile` (no file, open, or renamed/closed);
- `region` to `AbsRegion` (the page, offset and size of the header in the
  page cache);
- `data` to `AbsData`: the live compressor's bits, or the persisted position
  when no compressor is live;
- `pages` to `actual_pg_cnt`.

So every step of the implementation, power loss and write-back included, is
a step of `PageFile` or leaves the mapped state unchanged. The windows stay
disjoint, data never outgrows or loses its window, and the data a header
holds never goes back.

Building the refinement found that the rename must wait until every page
compaction filled has been shrunk. `shrink_to_fit` persists a page's data,
and a compressor's unpersisted bits would otherwise be lost at the rename.
Compaction shrinks each page before it packs the next (spec 4.2, 8(e)), so
`RenameCompacted` now has this as a precondition.

### ConfigCStr.tla — `Config::c_str` (config.cpp)

`c_str(buff, size)` as its loop. `Open` writes `"{\n"`. `Entry` is one
iteration, run while `size > idx`. `Close` writes `"\n}"` at `idx - 2`.

- `Snprintf` is `std::snprintf`: it writes at most `n - 1` characters and a NUL,
  and returns the full length. `idx` advances by that length, as in the code.
- `size - idx` is computed by `SizeT` modulo a word. It wraps when negative,
  as `size_t` does. `Word` = 2^30 stands for 2^64: any count above the
  longest text behaves the same.
- A property line is abstracted to its length (10 + name + value). Its
  characters are distinct integers.
- `buff` extends past `size`, so a write beyond the end is recorded (`outside`)
  instead of being lost.
- `Expected` is the reference: `"{"`, then each line with `","` between
  them, then `"\n}"`.

## 3. Runs

| Run | Expect | What it shows |
|---|---|---|
| `rollup` | pass | `AggregatesMatchBuckets`: for every bucket, the counts and sums of the aggregates emitted at it, plus the live accumulators, equal the count and sum of the datapoints whose step-down is that bucket. This holds through both gap loops and file crossings. `RollupInOwnTsdb`: every aggregate, the empty ones too, goes to the Tsdb whose range holds its bucket. |
| `rollup_query_min` | violation | `query(RU_MIN)` of positive values returns 0: the accumulator starts and resets at 0 (rollup.cpp:82, 98). |
| `pages_compaction` | pass | Compaction allocations, page writes, page and file shrink-to-fit, sync and rename in any order. `NoOverlap`: no two allocated headers share a byte. `HeaderWindowInPage`: offset + size <= page size (spec 8.1). `DataInWindow`: a compressor never holds more bits than its header's window. |
| `pages_restart` | pass | A data file with write-back in any order, msync, `close_mmap` and `reopen()`, destruction, power loss and a new `PageManager`'s recovery. `LiveAllocationsKept`: while one `PageManager` object lives, through `close_mmap` and `reopen()`, `page_index` and `header_index` never decrease and an allocated header keeps its page. So the overlap of `pages_reopen_overlap` needs a new object. `PersistedNotAhead`: the persisted position never runs ahead of the live compressor. `DurableAfterSync`: a header allocated at the last msync is still allocated, at the same page, with a position not behind the synced one, whatever crashes and recoveries follow. |
| `pages_reopen_overlap` | violation | Allocate one page, close cleanly, open the file with a new `PageManager`: recovery indexes the header table with a physical page number and rewinds `page_index` onto the page in use. The next allocation shares it (page.cpp:392). |
| `pages_crash_uninit` | violation | Three headers are allocated. Header 2 is on table page 1. Page 0, with the `tsdb_header` and headers 0-1, is written back, and page 1 is not. After power loss and recovery, header 2 is zero but lies below `header_index` (page.cpp:386-403). |
| `pages_zero_header` | violation | Power loss before the new file's `tsdb_header` was written back: the reopen fails (page.cpp:420, 522). |
| `pages_refinement` | pass | `PageFileRefined`: the compaction file (3 headers, 2 data pages), with packing, appends, persist, both shrinks, write-back, power loss, sync, rename and removal, implements `PageFile`. |
| `config` | pass | Two keys, one reader, reloads without bound (the file may be unreadable), one file edit and one `set_value`, under `FairSpec`. `PathLostOnlyOnReload`: a path getter returns a path built from an empty string only if a reload ran during the call, or the last reload failed and left the key as an override only. `FileEventuallyInForce`: while the process runs and the file is readable, the store eventually holds the file's values with the overrides over them.  |
| `config_dangling` | violation | A reload between `get_str` and `tokenize` frees the string being parsed (config.cpp:320). The same property covers a `set_value` of the key in between, which races with the read (config.cpp:121); TLC's shortest trace shows the reload. |
| `cstr` | pass | `CStrIsObject`: for 1 to 3 properties and every size from 1 to 42, when the text fits, `c_str` leaves the JSON object of all properties, and the closing write replaces exactly the last `",\n"`. |
| `cstr_overflow` | violation | When the text is 3 or more bytes longer than `size`, `size-idx+2` wraps and `"\n}"` is written past the buffer (config.cpp:391). |

Further violations are kept beside these runs. TLC found them while the
models were built; each cfg checks one property and reproduces its trace:

- `RollupManager_QueryMaxIsMax.cfg` (`tlc -config RollupManager_QueryMaxIsMax.cfg RollupManager`): `query(RU_MAX)` after values 2 then 1 returns 1 (rollup.cpp:83).
- `RollupManager_NoMissingBuckets.cfg` (`tlc -config RollupManager_NoMissingBuckets.cfg RollupManager`): A datapoint two files ahead: no aggregates for the skipped file's buckets (rollup.cpp:76).
- `RollupManager_Unaligned.cfg` (`tlc -config RollupManager_Unaligned.cfg RollupManager`): File length 5, interval 2: the second gap loop leaves `m_tstamp` at an odd second, and a datapoint is counted under a bucket that is not its own.
- `PageManager_shrink_counters.cfg` (`tlc -config PageManager_shrink_counters.cfg MCPageManager`): Compaction packs header 1 into header 0's page, then `shrink_to_fit` sets `actual_pg_cnt` = 3 while `page_index` = 4 (page.cpp:917).
- `PageManager_shrunk_full.cfg` (`tlc -config PageManager_shrunk_full.cfg MCPageManager`): `PageInfo::shrink_to_fit` sets full, and its `flush()` rewrites the flag from the compressor (page.cpp:115-116).
- `Config_count_throws.cfg` (`tlc -config Config_count_throws.cfg Config`): The file loses the key, then a reload lands between `exists()` and `get_int()`, and `get_int` throws (config.cpp:329).
- `Config_count_half.cfg` (`tlc -config Config_count_half.cfg Config`): The key's value is `"a,"`, a form the comment at config.cpp:307-308 lists. With `which` = 1, `std::stoi` gets the empty half and throws `std::invalid_argument` with no reload involved (config.cpp:326).
- `Config_overrides.cfg` (`tlc -config Config_overrides.cfg Config`): The file becomes unreadable. The next reload clears the store and throws before the overrides are applied again, against spec 6 (config.cpp:68-74).
- `Config_path_lost.cfg` (`tlc -config Config_path_lost.cfg Config`): The file loses `tsdb.data.dir`. A reload lands between `get_data_dir`'s `exists()` and its `get_str()`, and the data directory comes back as `""` (config.cpp:265-266).
- `ConfigCStr_empty.cfg` (`tlc -config ConfigCStr_empty.cfg ConfigCStr`): With no properties, the closing write overwrites `"{"`, and `c_str` returns `"\n}"`.

Every property of a passing run is paired with a mutant in `PROJECT.json`. A
mutant is an operator defined next to the one it replaces that behaves like a
plausible bug in that code, and with it TLC finds the property violated. The
mutants are:

- rounding the step-down up;
- a missing accumulator reset;
- staying on the old Tsdb;
- an allocator that ignores `actual_pg_cnt`;
- packing at the previous header's offset or over a whole page;
- a shrink that drops the partial byte;
- `ensure_dp_available` without `restore`;
- an msync with `MS_ASYNC` (as `flush(false)` does) in place of `MS_SYNC`;
- a `reopen()` that runs the constructor's recovery loop again;
- a reload that does not apply the overrides again (it breaks `FileEventuallyInForce`);
- a path getter that calls `get_str` without asking `exists()` first;
- `shrink_to_fit` setting the page count to the last page, not one past it;
- the closing `"\n}"` written one byte too far.

## 4. Bounds and why they are enough

- Rollup:
  - interval 2, three files of 4 seconds, values {1, 2}, 3 datapoints, 9 explicit flushes.
  - Three datapoints are enough to stay in a bucket, cross into the next
    bucket, leave a gap inside a file, cross into the next file, and skip a file.
  - Values 1 and 2 give the order-dependent max (2 then 1) and a min below
    the initial 0 never happens.
- Pages:
  - Compaction: five headers over three data pages. This packs a second and
    a third header into one page, fills a page, and shrinks pages and the file.
  - Restart: one data page and two opens. This covers a clean close followed by
    recovery, and a power loss at every point of page write-back. The headers
    it can allocate share page 0 with the `tsdb_header`. A 4-header table,
    which would put an allocatable header on page 1, takes TLC longer than
    15 minutes. The split of the `tsdb_header` from a later table page is
    checked by `pages_crash_uninit` on a 6-header table.
  - Refinement: three headers over two data pages (`MCRefinePageCount`), one
    open. This packs a second header behind the first, fills and shrinks
    both pages, and shrinks the file. A larger table makes the abstract
    check (a step of `PageFile` for every step) take too long.
- Out-of-order pages (version-0 compressor) are not exercised (`OooFlags = {FALSE}`). They
  allocate exactly like in-order pages.

- Config:
  - two keys, one reader thread, one file edit, one `set_value`, and any
    number of reloads. A reload's result depends only on the store, the
    file and the overrides, so the state space is finite without a bound.
  - Every interleaving found needs one reload and at most one edit. The
    unbounded reloads also let a read observe a failed reload followed by a
    successful one.
  - A second reader adds nothing: readers do not change the store.
  - `tsdb.data.dir` and `log.file` share a key (`DataDirKey = LogFileKey = k1`).
    A path getter's control depends only on whether each candidate key exists,
    so two keys give every outcome: first candidate present, only the home
    present, or neither present.
- c_str:
  - one to three properties of 12 or 13 bytes, and every size from 1 to one
    past the longest text.
  - So the text fits exactly, is truncated inside a line, and ends 0, 1, 2 or
    3 and more bytes past `size`. These are the cases of the closing
    `snprintf`.

## 5. Fairness and deadlock

Only `config` checks liveness. Its `FairSpec` makes `Reload` weakly fair: the
timer task runs `reload()` every `config.reload.frequency` seconds while the
process runs. `Config::init` schedules it only when `config.reload.enabled`
is set (config.cpp:51), so `FileEventuallyInForce` is about a process with
reloads enabled. With them disabled, an edit of the file never comes into
force, by design. Readers, `set_value` callers and
the operator who edits the file are not obliged to act, so they get no
fairness. The other runs check safety only and assume no fairness.

Every run sets `CHECK_DEADLOCK FALSE`, because the system may really stop:

- a series may go cold, and its aggregator then receives nothing more;
- the page file has a bounded number of opens, after which it stays closed;
- the config store stops changing after its bounded edits and `set_value`
  calls (reloads then change nothing), and the process may exit after a
  failed reload;
- `c_str` returns after its closing `snprintf`.

## 6. Not modelled

- The compressor codec itself: bit packing and the round trip of spec 8.3/8.4.
  `compress.cpp` is not in `src/`, and only its position and capacity are kept.
- `PageManager::compact` and `PageInfo::merge_after/copy_to`. `compact` is
  compiled out (`#if 0`), and the other two serve only it.
- I/O failures of `open`, `fstat`, `ftruncate`, `mmap`, `mremap` and `madvise`. These
  are listed as hazards in `PROJECT.json`.
- `tstamp_from/to` in the headers, time ranges of pages, metric and series
  ids.
- The memory pool (assumed never to fail), the Tsdb catalog and the engine.
- The text of the config file (comments, `tokenize` on `=`) and the
  conversions `as_int`, `as_bool` and `as_time`. A file is a value per key. The
  getters other than the `get_count_internal` path and the path getters
  are single locked reads, and `exists`, `get_str` and `get_int` stand for
  them. A configured path is not told apart by its text, so a `log.file`
  without a `/` counts as configured, although `get_log_dir` then returns
  the working directory.
- `TcpListener::get_pending_task_count` in `tcp.h` has no return statement,
  which is undefined behaviour. It is listed as a hazard. The listener is not
  modelled, so no property covers it.
- The TCP server: only its header is in `src/`, and the network layer is out of
  the spec's scope. `tcp.h`'s inline members are getters and setters of one
  field each, with no state change worth a model.
- When a file is unmapped and mapped again. `tsdb.cpp` decides this and is not
  in `src/`, so `CloseMmap` and `Reopen` may happen at any time on a data file.
  The model assumes that the caller recycles the file's `PageInfo`s before
  `close_mmap`, because their compressors point into the mapping.
- `reopen()` on a file that was removed while it was unmapped. `open_mmap` would
  then create an empty file. Nothing in `src/` removes a data file.
- `get_the_page_on_disk` accepts any header index below the table size. The
  model lets callers use only allocated headers (`Allocated`), since its
  callers are not in `src/`.

## 7. Plan

Done in this development:

1. RollupManager.
2. PageInfo/PageManager with the page cache, disk, crash and compaction file.
3. Config: reloads racing `get_count_internal`, and `c_str`.
4. An abstract page file (`PageFile`), refined by `PageManager`'s
   compaction file.
5. Liveness of configuration reloads under a weakly fair timer.
6. The path getters of `Config`, the `set_value` data race on a referenced
   string, and `close_mmap`/`reopen()` of a live `PageManager`.

Next:

7. Composition: the rollup aggregator writing into a rollup page file. The
   code that joins the two (`Tsdb::add_rollup_point`) is in `tsdb.cpp`, which
   is not in `src/`.
8. The refinement for data files, not only compaction files, across
   restarts. This needs an abstract notion of data lost to a crash.
