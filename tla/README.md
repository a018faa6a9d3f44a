# TLA+ models of burp's restore and configuration code

This directory holds TLA+ specifications of the code under `src/`:
- the burp1 server restore (`src/src/server/burp1/restore.c`);
- the configuration parser (`src/src/conf.c`): line splitting, include
  files, the choice of start directories, and how a client's settings
  combine the server's conf with its own;
- the include/exclude receiver (`src/src/incexc_recv.c`), with the parse of
  what it receives.

Each specification is checked with TLC under the configurations listed
here.

## The system

A burp server keeps successive backup generations of each client. Each
generation is a `struct bu` in a doubly linked list, where `b->next` is the
newer generation. For each file, a generation holds either a full copy
(`data/<datapth>`), a reverse delta (`deltas.reverse/<datapth>`), or
nothing. "Nothing" means the file was unchanged since the newer generation.

A restore or verify request runs `restore_burp1` over the manifest of the
requested backup `bu`:

1. **The restore loop** (`restore_burp1`, `restore_ent`, `restore_sbufl`,
   restore.c 372-546). Each turn of the loop does three things:
   - It polls the client (`read_quick`). Warnings are counted and
     interrupts ignored; both `continue`. Any other frame is fatal.
   - It reads the next manifest entry (`sbufl_fill`).
   - It applies the srestore and regex filters and passes the entry to
     `restore_ent`.

   `restore_ent` first pops and restores every deferred directory that the
   entry is not inside. It then defers a directory (`S_ISDIR`, which
   includes directory metadata entries) or restores anything else at once.
   At the end of the manifest the remaining directories are restored
   deepest first, and `restore_end` is sent.
2. **Restoring one file** (`restore_file`, restore.c 218-370). It walks
   from `bu` towards newer generations to the first regular data file. It
   then walks back, applying every reverse delta down to and including
   `bu`, as the loop condition `b->next != bu` dictates.
   - Before the first patch, `inflate_or_link_oldfile` prepares the base in
     scratch file `tmp1`:
     - a gzipped base is inflated;
     - a zero-length compressed base is recreated with `open_file(tmp,"wb")`;
     - an uncompressed base is *hard linked*.
   - Each `do_patch` writes into the other scratch file. Then `best` moves
     to it and the old one is unlinked.
   - `tmp1`/`tmp2` are `static` paths in the client's directory. They are
     shared by every file of the session and by every later session, and
     nothing removes them when a step fails.
   - `send_file` streams `best` (ACTION_RESTORE). `verify_file` compares the
     MD5 of `best` with the one in the end marker (ACTION_VERIFY).
   - On every return of 0 the caller adds the entry and its declared size
     to the counters.

3. **Configuration.** `load_conf_lines` reads a conf file with `fgets` and
   hands each line to `parse_conf_line`. A line `. name` includes another
   file: `load_conf_lines` recurses on it, relative to the directory of the
   including file. Any other line goes to `conf_get_pair`, which splits it
   in place into a field and a value and strips quotes with
   `remove_quotes`. A failing line makes the load return -1, but reading
   goes on. `conf_finalise` then runs `finalise_start_dirs`, which picks the
   directories a backup starts from out of the sorted include/exclude list,
   and `finalise_keep_args`, which checks the keep values. For a client,
   `conf_load_clientconfdir` loads its own file from `clientconfdir` and
   then gives it the server's list for each list option (keep among them)
   that the client did not set.
4. **Include/exclude lists from the peer.** `incexc_recv` answers the
   request. It then appends each frame that `simple_loop` reads to one
   buffer, with `'\n'` between frames, until the end request comes.
   `conf_parse_incexcs_buf` splits the buffer with `strtok` and gives each
   line to `parse_conf_line`.

The restore parts interact at the call `restore_sbufl` → `restore_file`. An entry's
restore is either fine or fatal to the session: every -1 propagates to
`goto end` in `restore_burp1`. The scratch files are the only state that
outlives a session.

## Modules

| module | models | state ↔ code |
|---|---|---|
| `RestoreFile` | restore.c 7-370, and the session around it (455-476, 534-545) | `kind`/`enc`/`store`: the generation list on disk. `slot`: tmp1/tmp2, each absent, a hard link to a stored object, or a file of its own. `best`, `tmp`, `cur`, `base`, `patches`: the locals of `restore_file`. `todo`: the file entries of the manifest. `got`/`verdict`/`cntrBytes`/`sentBytes`: what was sent or verified and counted. |
| `MCRestoreFile` | model values for two files | |
| `RestoreService` | spec.md 4.2-4.5, 7 | The abstract promise of a session, without scratch files or replay. `Send` gives the content at `t` unless the nearest full copy is damaged. `Verify` matches exactly for an undamaged copy. `NotFound` is the warning when no copy exists. `Stop` ends the session, and `Rot` is disk damage. |
| `RestoreLoop` | restore.c 372-546 | `manifest`/`pos`/`sb`: the manifest and `sbufl_fill`. `pass`: the paths the filters accept. `sblist`: the deferred directories. `restored`: the calls of `restore_sbufl` in order. `frames`: the warning/interrupt frames polled. `status`: where the loop is. |
| `MCRestoreLoop` | five paths in two levels | |
| `ConfPair` | conf.c 221-312 | `buf`: the line as the C array `buf[0..n]` with its NUL (`Mem`). `result`: what `conf_get_pair` returned, f and v, and whether a loop read outside `buf` or outside `remove_quotes`' copy. Each C loop is a RECURSIVE operator over indices. |
| `ConfInclude` | conf.c 755-820, 1350-1373 | `present`/`text`: the files on disk and their lines (pair, bad, include of a path). `stack`: one frame per active `load_conf_lines` call, holding its path, the line reached and its `ret`. `applied`: the pairs loaded, in order. `oomed`: whether an include line failed to allocate. |
| `MCConfInclude` | two files under an absolute directory, or under the current one | |
| `ConfClient` | conf.c 64-97, 189-219, 409-425, 545-546, 657-751, 1117-1146, 1276-1296, 1350-1372, 1458-1594 | `gKeep`/`gCan`/`gRaw`/`gScripts`/`gInts`/`gManual`: the server's keep list, client_can bits, script lines, its scripts after its own `conf_finalise`, its compression and network_timeout, and its manual_delete block. `lines`: the client's conf file, as field/value pairs. `keep`/`flags`/`can`/`scripts`/`ints`/`manual`: the same settings of the client conf `cc`, with `k->flag`. `freed`: the heap blocks freed during the load. `pc`/`checked`/`oomed`/`ret`: where the load is, whether `finalise_keep_args` ran, whether `pre_post_override` failed to allocate, and the result. The keep loop is the RECURSIVE operator `KeepLoop` over a scaled `unsigned long long` (`ToULL`, `MulULL`). A line is applied by `LoadLine` (`load_conf_field_and_value`, with `get_compression` as `GetCompression`), folded over the file with `FoldLeft`. |
| `MCConfClient` | the scaled widths, keep values, one client_can field, three compression texts and two server confs of ints | |
| `ConfStartDirs` | conf.c 356-381, 1148-1188 | `incexcdir`: every sorted list of up to 5 entries. `result`: the return value and `c->startdir`. The loop, with `last_ie` and `last_sd`, is the RECURSIVE operator `StartLoop`. |
| `MCConfStartDirs` | seven paths, one relative and one with `..` | |
| `IncexcRecv` | incexc_recv.c, conf.c 1375-1406 | `peer`/`got`/`lost`: the frames the peer sends, how many have been read, and whether the connection breaks. `incexc`: the buffer, or NULL. `pc`: where the exchange is. `seen`/`parseRet`: the lines given to `parse_conf_line` and the result. |

Actions of `RestoreFile` and the code they model:

| action | code |
|---|---|
| `StartSession` | a new request enters `restore_burp1` |
| `RestoreSbufl` | a failed write (fatal), file not found (warning), or base found (restore.c 230-259) |
| `SkipGen` | the `continue` of the delta loop |
| `InflateOrLink` | restore.c 280-295 with `inflate_or_link_oldfile` |
| `DoPatch` | restore.c 297-316 |
| `SendFile`, `VerifyFile` | restore.c 319-353 with `send_file`/`verify_file` |
| `EndSession` | the end of the manifest |
| `Rot` | the disk damages a stored data object between sessions, which is what verify is for |

The outcome of librsync's `rs_patch` is modelled from the spec. A reverse
delta of generation g turns the content of g+1 into that of g, and any
other basis yields garbage. `TrueContent` (what the file was) and
`ChainResult` (what replaying the chain on disk gives now) are reference
definitions.

Actions of `RestoreLoop`:

| action | code |
|---|---|
| `ReadQuick` | `read_quick` and its three outcomes |
| `ReadEntry` | `sbufl_fill` and the filters |
| `PopDir` | one turn of the `sblist` loop of `restore_ent` |
| `PlaceEntry` | defer or restore |
| `FlushDir` | the final loop |
| `RestoreEnd` | `restore_end` |

Each call of `restore_sbufl` may fail, which is fatal.

Actions of the configuration and incexc modules:

| module | action | code |
|---|---|---|
| `ConfPair` | `GetPair` | one call of `conf_get_pair`; `strdup_w` in `remove_quotes` may fail |
| `ConfInclude` | `PairLine` | `conf_get_pair` and `load_conf_field_and_value` succeed (814-819) |
| | `BadLine` | a line that fails, or `. ` with no name (767-774, 814) |
| | `IncludeLine` | `. name`: resolve the name, then `fopen` succeeds (a new frame) or fails (-1) (761-805, 1357-1361) |
| | `IncludeLine` (2nd disjunct) | a `strdup_w` fails (767, 788: -1), or `prepend_s` fails (794) and `load_conf_lines(NULL)` gets NULL from `fopen` (-1) |
| | `EndOfFile` | `fgets` returns NULL: `fclose`, and the frame's `ret` goes to its includer or the caller (1370-1372, 805-811) |
| `ConfClient` | `LoadClient` | `conf_load_clientconfdir` up to `load_conf_lines`: the name check and `prepend_s`, `conf_set_from_global` (`FromGlobal`), then every line of the client's file through `gcv_a`, `gcv_bit`, `gcv_int`, `get_compression` or `gcv`; or a bad compression value or any of these steps fails after some prefix of the lines, whose frees stay done (1567-1585, 1350-1372) |
| | `Override` | `conf_set_from_global_arg_list_overrides`: the client's keep list stays, or the global one is copied; any of the copies may fail (1525-1553) |
| | `Finalise` | `conf_finalise`: an earlier step fails, or `finalise_keep_args` decides, and on success `pre_post_override` runs, whose failure is ignored (1276-1296, 1117-1146, 409-425) |
| `ConfStartDirs` | `Finalise` | `finalise_start_dirs` called from `conf_finalise` |
| `IncexcRecv` | `Start` | `free_w` of whatever buffer the caller passed (`FreeW`), then `write_str(repstr)`, which may fail |
| | `RecvFrame` | one turn of `simple_loop`: a data frame (append, or allocation failure), the end request (answer and the final `"\n"`, or a failure), or a broken connection |
| | `ParseIncexcs` | `conf_parse_incexcs_buf` |

The pieces of the code that are only ever called once per state (a whole
`conf_get_pair`, a whole `finalise_start_dirs`) are operators. Their
modules have one action that calls the operator on every input of the
bound, so TLC checks the algorithm against a reference definition.

## Runs

Every `pass` run has a mutant in `PROJECT.json`: a plausible bug in a mapped
definition under which TLC finds the property violated.

| run | cfg | result | shows |
|---|---|---|---|
| restorefile_session | `RestoreFile_session.cfg` | pass (4.0M states) | Within one session, for every layout of 2 files × 3 generations and every encoding, after possible disk damage, four properties hold. **NoStaleScratch**: what is sent equals the chain on disk. **StoredDataIntact**: the backup is never modified. **VerifyDetectsDamage**: verify reports a mismatch exactly for damaged chains. |
| | | | **ImplementsService**: the session refines `RestoreService` under the mapping `phaseBar` (idle or busy) and `todoBar` (the file `restore_file` is working on is still pending). Search, inflate, link and patch are stuttering steps. |
| restorefile_restart | `RestoreFile_restart.cfg` | **violation** | StoredDataIntact fails across sessions; this is a code bug, see Findings. |
| restorefile_patch_failure | `RestoreFile_patch_failure.cfg` | **violation** | **PatchFailureRecoverable**: a failed `do_patch` (restore.c:309) ends the session, where spec 4.3 and 7 say the file is skipped. Failures of `inflate_or_link_oldfile` are left out, because they include scratch-file I/O, which spec 7 calls fatal. |
| restoreloop_order | `RestoreLoop_order.cfg` | pass (2.6M states) | Over every manifest of 5 paths, every filter and every failure point, three properties hold. **DirsAfterContents**: no directory is restored before anything inside it. **EveryEntryOnce**: a completed restore restores each selected entry exactly once. **Terminates**: the loop always ends. |
| confpair_pair | `ConfPair_pair.cfg` | pass (295K states) | **PairAsDocumented**: for every line of up to 6 characters, whenever the loops stay in bounds, `conf_get_pair` returns the field and value of the reference splitting, or -1 exactly when that says so. The reference trims white space, takes the first `=`, and decodes a quoted value up to its matching unescaped quote. |
| confpair_bounds | `ConfPair_bounds.cfg` | **violation** | **ScansInBounds**: two loops leave their objects; this is a code bug, see Findings. |
| confinclude_abs | `ConfInclude_abs.cfg` | pass (341K states) | From an absolute conf path, over two files that may include themselves and each other, with up to 3 open files and any include line failing to allocate, two properties hold. **AppliedInDocumentOrder**: the pairs loaded are the document-order expansion of the includes. **ErrorIffFailure**: the load fails exactly when some line or include anywhere fails, cycles and the `fopen(NULL)` after a failed `prepend_s` included. |
| confinclude_relative | `ConfInclude_relative.cfg` | **violation** | From a conf path without `/`, a relative include opens the wrong file. |
| confstartdirs_outermost | `ConfStartDirs_outermost.cfg` | pass (38K states) | **StartDirsOutermost**: over every sorted list of up to 5 entries, the start directories are exactly the included paths inside no other included path. The call fails exactly for a relative path, a `..` component, or an include repeated. |
| confclient_load | `ConfClient_load.cfg` | pass (346K states) | For every server conf of the modelled settings (keep lists its load accepts, a client_can bit, script lines, two sets of ints), every client conf file of up to 2 lines, and every failure point, four properties hold. **KeepAcceptedIffSane**: `finalise_keep_args` accepts exactly the lists of positive values whose product is at most the limit. Negative values, converted to `unsigned long long`, never multiply back to a small product. **KeepAsConfigured**: after a successful load, the keep list is the client's own if it has one, else the server's, with the last flag raised by one when there are several. **SettingsAsConfigured**: each setting is what the client's last line for it says. Otherwise it is the server's value for a setting `conf_set_from_global` copies (the client_can bit, compression), and conf_init's value for one it does not copy (network_timeout). A compression text that names no level fails the load. **ScriptsAsConfigured**: when no allocation failed, the scripts are the client's where its file names one (`server_script` standing for both `_pre` and `_post`), else the server's. **TypeOK** includes that `last->flag++` stays an int. |
| confclient_manual | `ConfClient_manual.cfg` | **violation** | **GlobalConfIntact**: loading a client frees the server's `manual_delete` string. This is a code bug, see Findings. |
| incexcrecv_lines | `IncexcRecv_lines.cfg` | pass (59K states) | **ParsedAsSent**: for every peer sending up to 3 frames of up to 2 characters (which may themselves hold `'\n'`), and whatever buffer an earlier exchange left in `*incexc`, after a complete exchange, `parse_conf_line` sees exactly the lines the peer sent, up to the first bad one. The parse succeeds exactly when there is a line and none is bad. |

### Findings

- **The backup is truncated through a stale hard link** (code bug).
  - Session 1 restores a file with an uncompressed base and at least one
    delta. `do_link` links the base into `tmp1` (restore.c:45). The patch
    fails (restore.c:309) and the session ends, leaving `tmp1` linked.
  - Session 2 restores a file whose base is a zero-length compressed
    file. `open_file(tmp1,"wb")` (restore.c:30) truncates the stored data
    object of session 1's file.
  - Within one session this cannot happen, because `unlink(tmp)` follows
    every successful patch. The restorefile_session run shows that.
  - Over two sessions the refinement `ImplementsService` fails at the same
    step: the abstract specification lets the store change only by `Rot`.
- **`conf_get_pair` reads and writes before `buf`** (code bug, conf.c:288).
  For the line `=` (or ` = x`), `eq` is the first character, and
  `for(cp=eq-1; *cp && isspace(*cp); cp--) *cp='\0'` starts at `buf[-1]`.
  The `buf` of `load_conf_lines` is a stack array, so this reads a byte of
  the stack, and clears it if it happens to be white space.
- **`remove_quotes` reads past its copy** (code bug, conf.c:251). After a
  backslash the loop steps over the next character. When that is the NUL
  (a value such as `'\` ending in a backslash), the `for`'s own `sp++`
  leaves the `strdup`ed copy. TLC reports the shorter `=` trace first. The
  quote case alone (the field loop in bounds) is reached by the line
  `a='\`, as TLC shows for `~fieldOob => ~quoteOob`.
- **A relative include from a conf path without a directory** (conf.c:793).
  The comment says an include is relative to the directory of the current
  conf file. `strrchr(copy,'/')` finds nothing in `a`, the whole name is
  kept, and `. b` opens `a/b`.
- **The server's `manual_delete` is freed by a client load** (code bug,
  conf.c:1466). `conf_set_from_global` copies every string the server
  shares with set_global_str, which strdup's it, except `manual_delete`:
  `cc->manual_delete=globalc->manual_delete` copies the pointer. When the
  client's file has its own `manual_delete` line, `gcv` frees the old value
  (conf.c:192), which is the server's string, and `globalc->manual_delete`
  is left dangling. TLC finds it in one step. Without such a line,
  `conf_free_content` of the client conf (conf.c:132) frees the server's
  string instead, which is outside the modelled load.
- A divergence from spec.md, with a run: a failed patch application
  (restore.c:309) ends the whole session instead of skipping the file.
- Three more divergences, seen while modelling and checked with a run in
  an earlier version of this project:
  - Two consecutive directory entries with one path are accepted and both
    restored (`is_subdir(A, A)` holds, restore.c:417). Spec 4.4 says this
    is a fatal DuplicateEntry error. The run was retired to make room for
    `confclient_manual`. `EveryEntryOnce` still covers what the code does
    with such a manifest.
  - The delta loop applies the requested generation's own delta, where spec
    4.2 says the deltas strictly between the base and it. The code is the
    right one for reverse deltas: `NoStaleScratch` passes with it.
  - `verify_file` returns 0 on a checksum mismatch, and the entry is
    counted as verified (spec 8 says it is not).

- The keep bound's comment and its message disagree, and the number
  matches neither. The comment (conf.c:1131) says "every second for 100
  years", and the message says "every second for 10 years". 52560000 is
  one backup a minute for 100 years. Only the log wording is affected.

## Bounds

- **RestoreFile.**
  - Every layout of 2 files over 3 generations, 3 encodings per file, and
    every manifest order are initial or chosen states. A layout is a kind
    per generation, with the base at 0, 1 or 2, and deltas and gaps in
    between.
  - Three generations are the fewest that give a chain with a gap and two
    deltas.
  - Two files are needed for the scratch files to carry anything from one
    file to the next.
  - Two sessions are needed for a failure to leave state behind.
  - One rot is enough to make verify's answer matter.
- **RestoreLoop.**
  - The paths `1, 1/1, 1/2, 2, 2/1` give nesting, siblings and a
    directory closed by a later top-level path.
  - Each path may be absent, a file, a directory, or a directory followed by
    its metadata entry.
  - Every filter result is explored.
  - Up to 2 warning/interrupt frames are allowed.

- **ConfPair.** Lines of up to 6 characters over one representative of each
  class the code tells apart (space, `=`, `'`, `"`, `\`, `#`, other). Six
  are enough for a quoted value with an escape and white space around the
  `=`. 5 already shows the overreads.
- **ConfInclude.** Three lines per file, any mix of pair, bad and include
  lines naming either file, and up to 3 open files. Two files are the
  fewest that give a chain, a self-include and a two-file cycle. Three
  lines give an include between two pairs.
- **ConfStartDirs.** The paths `/1 /1/1 /1/1/1 /1/2 /1/0 /2` and a relative
  path, where `0` is `..`. They give nesting two deep, siblings and a later
  top-level path. Lists of up to 5 entries with either flag.
- **ConfClient.**
  - The widths are scaled down: an 18-bit `unsigned long long`, a 10-bit
    `int` and the limit 400.
  - This keeps the two relations the real widths have: limit × 2^31 < 2^64
    (400 × 2^9 < 2^18), and limit < INT_MAX (400 < 511). The module ASSUMEs
    both. So a product of an accepted value and any int never wraps, and
    an accepted value can be incremented, as in the real code.
  - The keep values are what `atoi` returns for "-1", "0", "20", the limit
    and INT_MAX. These give the wrap of negatives, the zero check, a product
    equal to the limit (20 × 20), one above it (20 × 400), and an int at
    its maximum. The server's keep list has up to 2 values.
  - One client_can field, set to 0, 1 or 256. 256 is the value
    `(uint8_t)` turns into 0. The bits are a set in the model, so a second
    field would only repeat the first.
  - Compression written `gzip5`, `3` or `zlib`. These are a prefixed level,
    a bare level, and a prefix with no level, which fails the load. The
    server's conf has the defaults (9, 7200) or compression 1 and
    network_timeout 60, and a client line sets network_timeout to 60. So a
    server value that is not inherited differs from the default.
  - `manual_delete` is unset in the server's conf for `confclient_load`,
    and set or unset for `confclient_manual` (1 client line is enough).
  - All three script fields, set or not in the server's file, and in the
    client's file as lines.
  - Up to 2 lines in the client's file, drawn from 16 kinds of line. This
    gives a client keep list of 2 values (a product at, over, or wrapped
    past the limit), a bit set and then revoked, and `server_script`
    before or after `server_script_pre`. With 3 lines the mutant of the
    limit check takes minutes to reach its overflow, for no new case.
    Lines of different fields do not interact, so the order between them
    matters only through the last line of each field.
- **IncexcRecv.** Up to 3 frames of up to 2 characters from `x` (a good
  line), `y` (a bad one) and `\n`. This covers empty frames, frames holding
  several lines, and lines split across frames. Every failure point is
  included. The buffer passed in is NULL, a bad line, or a good line cut
  off before its `'\n'` (what a failed exchange leaves).

## Fairness

`RestoreLoop` is checked under `WF_vars(Next)`. `restore_burp1` is a single
sequential loop: once it is running it keeps taking steps. The only thing it
waits for is the client. `MaxFrames` bounds the warnings the client sends,
which is the assumption that the client does not flood the server.

`RestoreFile` and the configuration and incexc modules check only safety
properties, so they have no fairness.

## Not modelled

- The byte formats are not modelled: gzip, MD5, the manifest encoding and
  the protocol frames. Contents are versions, and digests compare contents.
- `restore_sbufl`'s non-file entries, such as links and special files, are
  restored atomically.
- `hlwarn` is only a log message.
- The rest of `conf.c` is not modelled:
  - the other fields of `load_conf_ints` and `load_conf_strings` go through
    the same `gcv`, `gcv_int`, `gcv_uint8` and `gcv_a` as the modelled ones;
  - the value parsers `get_file_size`, the `umask` and `ratelimit`
    conversions and the `mode` and `protocol` lines, `server_conf_checks` and `client_conf_checks`
    (defaults and logging), and `finalise_fstypes`, `finalise_glob` and
    `set_max_ext`;
  - the global conf load enters `ConfClient` only as its result: keep lists
    it accepts, any bits, two sets of ints, a manual_delete or none, and
    any script lines through its `conf_finalise`;
  - the other list overrides of `conf_load_clientconfdir`, and the
    `finalise_*` steps before the keep check, appear only as failures;
  - `ConfClient` does not include files: each of its lines is a pair line of
    `ConfInclude`;
  - the notify flags. `conf_finalise` copies `s_script_notify` into
    `s_script_pre_notify` and `_post_notify` (conf.c:1297) but, unlike
    `server_script`, does not clear it. So a server's
    `server_script_notify = 1` reaches every client and overrides a client's
    `server_script_pre_notify = 0`. Neither the code nor spec.md says which
    should win, so no property states it.
- An allocation failure in the client's `pre_post_override` is modelled, and
  `ScriptsAsConfigured` excludes it. `conf_finalise` ignores the -1. With the
  exclusion dropped, TLC finds a client whose `server_script` line leaves
  `server_script_pre` NULL while the load returns 0.
- `ConfInclude` treats `load_conf_field_and_value` as success on a pair
  line. After `prepend_s` fails at conf.c:794, `fopen(NULL)` is taken to
  fail, as glibc's does (EFAULT).
- The callers of `incexc_recv_*` and `conf_parse_incexcs_buf` are not under
  `src/`.
- `dpth.h` and `timestamp.h` hold only declarations (`struct dpthl` and the
  `timestamp_*` prototypes), and their implementations are not in this tree.
- Restores over several sessions are checked by `restorefile_restart`,
  which shows the failure. There is no run over two sessions without
  patch failures.

## Plan

1. Composing `IncexcRecv` with `ConfStartDirs`: the list received from the
   server becomes the start directories of the client.
2. Composing `ConfInclude` with `ConfClient`: settings spread over included
   files, in document order.
