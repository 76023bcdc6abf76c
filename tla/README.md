# TLA+ models of rpminspect

These modules model the parts of rpminspect under `src/` that have
concurrency, failure paths or multi-step protocols. TLC checks them:
- the libcurl batch downloader, shown to refine an abstract batch-fetch
  specification;
- the single-file downloader with its terminal progress bar and the
  SIGWINCH flag that races it;
- the `unicode` inspection, which forks a child to run `%prep` and falls
  back to unpacking the sources by hand;
- the line scanner, shown to refine the spec's line-by-line scanner;
- the `scriptlets` inspection, its driver composed with the useradd check,
  then the `triggers` inspection and the rpmlint-style renderer
  `output_lint()` that writes both inspections' results;
- the GNU message-catalogue (`.mo`) reader.

Each module is translated from the C source. `PROJECT.json` maps every
definition to the lines it models, lists every run, and lists the hazards of
the code with the properties that cover them.

## 1. The system and how its parts interact

| part | source | state | concurrency / failure |
|---|---|---|---|
| batch fetch `curl_get_files` | `src/lib/curl.c` 242-412 | per-job handle, `FILE*`, file on disk, libcurl transfer state, message queue, `running`, `numfds`, `repeats` | N transfers multiplexed in one polling loop; any libcurl call, `fopen` or `fclose` may fail; transfers finish in any order |
| single fetch `curl_get_file` | `src/lib/curl.c` 165-237 | handle, `FILE*`, file | sequential; `fopen`/`fclose` failure exits the process |
| progress bar | `src/lib/curl.c` 18-153 | `total_width`, `bar_width`, `progress_displayed`, `terminal_resized` (set by a SIGWINCH handler outside `src/`) | asynchronous signal against the progress callback |
| unicode driver | `src/lib/inspect_unicode.c` 687-874 | statics `build`, `seen`, `globalresult`, `uses_unpack_base`; the result list | sequential over the files of each peer |
| source-tree materializer | `src/lib/inspect_unicode.c` 76-380 | the rpmbuild skeleton and BUILD on disk; the child process; the pipe | parent and forked `%prep` child over a bounded pipe; pipe/fork/fdopen/mkdir/unpack failures; the child may exit 0, 1 or 2, or abort |
| content scanner `validate_file` | `src/lib/inspect_unicode.c` 390-685 | line buffer and its size, position in the file, line number | sequential; buffer growth; CR/LF pairing with `u_fungetc` |
| scriptlets | `src/lib/inspect_scriptlets.c` | statics `result`, `reported`; per-call flags `rflag`, `uflag`, `sflag`, `shell`, `uid` | sequential over peers × hooks × lines × tokens |
| triggers | `src/lib/inspect_triggers.c` | the static `reported`, never set | sequential; reads three tags of each before header and keeps nothing |
| MO reader | `src/lib/mofile.c`, `src/include/mofile.h` | file position, the magic and six 32-bit header fields, the string arrays | sequential; any short read exits; the file comes from the package under inspection |
| lint renderer | `src/lib/output_lint.c` | `header`, `displayed_header`, `count`, `first`, `fp`; the destination file | `fopen` of the destination may fail; the asserted `fflush`/`fclose` may fail; lines 36-57 are Python text that does not compile |

How the parts interact:
- The inspection driver calls `unicode_driver()` for every file of every
  peer.
- For the spec file of a source package, it asks the materializer for a
  tree. It walks that tree with `validate_file()` (the scanner) and then
  removes the tree.
- Results go through `add_result()` into one report. The verdict of each
  inspection is a boolean.
- The fetch manager runs before the inspections and downloads the packages
  they examine.
- After the inspections, a renderer such as `output_lint()` writes the
  report, suppressing sections and results below a threshold.

## 2. Modules and how they correspond to the code

### `CurlMulti` — `curl_get_files()` (curl.c 242-412)

**State.**
- `pc` stands for the phases of the function: add handles, the `while
  (running)` loop, the `curl_multi_info_read` loop, the clean-up loop, and
  returned or exited.
- `handle[j]`, `fp[j]` and `disk[j]` are the per-job C state and the file
  on disk:
  - `"none"`: no file;
  - `"partial"`: truncated or incomplete;
  - `"buffered"`: all data is written but still in the stdio buffer;
  - `"full"`: the complete file.
- `xfer[j]` is libcurl's view of transfer `j`.
- `msgs` is the set of completed transfers whose CURLMSG_DONE message is not
  yet read.
- `running`, `numfds` and `repeats` are the loop's locals.

**Actions.**

| action | code | what it covers |
|---|---|---|
| `AddHandle` | 283-336 | one iteration of the `TAILQ_FOREACH` that creates the handles |
| `PerformStep` | 339-372 | one iteration of the polling loop: perform, wait, and the empty-poll counter |
| `Progress` | — | the network making progress on a transfer |
| `InfoRead` | 374-394 | one message taken from the queue, with the close and unlink on error; a failed `unlink` only warns and keeps the file |
| `Cleanup` | 396-411 | the close of every remaining file |

A failure of any library call, of `fclose` or of `unlink` is a disjunct,
enabled by a constant. The `fclose` of 380 only warns, and a failed
transfer has nothing buffered for it to lose, so it is not a step.

### `FetchBatch` — what a batch fetch promises (spec 4.2)

An abstract specification with no libcurl, stdio or polling in it. Per job
it keeps `status` (`idle`, `fetching`, `ok`, `failed`) and whether the
destination `file` exists; `ended` is `no`, `returned` or `exited`. Its
actions: a job is started and its file created; any set of running jobs
settle; the file of a failed job is removed; removing it fails with a
warning (`Keep`, which records the job in `warned`); the fetch returns,
which is allowed only when every failed job has no file or was warned of;
the program exits. Spec 4.2 says the file is deleted; `Keep` is there
because the code only warns when `unlink` fails (curl.c 227-232, 384-386).

`CurlMulti` maps onto it through `Abstract == INSTANCE FetchBatch WITH ...`:
`xfer` gives the status, `disk # "none"` the file, and `pc` the end.
`Warned` is the failed jobs whose message was read and whose file is
still there: their `unlink` failed.
`FetchBatchSpec == Abstract!Spec` is a property of `curlmulti_pass`.
`CurlGetFile` maps onto it the same way, with one job.

### `CurlGetFile` — `curl_get_file()`, `setup_progress_bar()`, `download_progress()` (curl.c 18-237)

**State.**
- `pc` follows `curl_get_file()`: init, open, perform, close, unlink,
  clean-up, then returned or exited.
- `total_width`, `bar_width` and `displayed` are the file statics
  `total_width`, `bar_width` and `progress_displayed`. `bar_width` is
  `half_width - 2` modulo `SizeMod`, the size_t wrap.
- `resized` is `terminal_resized`; `tty` is the terminal's width now.
- `cb` is where `download_progress()` is; `pct` is its local.
- `drawn` counts the `#` marks emitted since the bar frame was last drawn.
- `file` uses the four contents of `CurlMulti`.

**Actions.**

| action | code | step |
|---|---|---|
| `Start` | 165-200 | `curl_easy_init` (NULL returns), the options, `setup_progress_bar(src)` when verbose on a tty |
| `Open` | 202-206 | `fopen`; failure is `err()` |
| `Receive` | 208-216 | libcurl writes one more byte to `fp` |
| `Progress` | 110-124 | libcurl calls the callback: the percentage and the read of `terminal_resized` |
| `ProgressSetup` | 124-127 | `total_width = 0; setup_progress_bar(NULL)` |
| `ProgressReset` | 129-131 | `terminal_resized = 0` |
| `ProgressDraw` | 133-152 | the hash count, the marks printed, `progress_displayed` set |
| `Perform` | 216-221 | `curl_easy_perform` returns OK (every byte in) or an error |
| `Fclose` | 223-225 | `fclose`; failure is `err()` |
| `Unlink` | 227-232 | `unlink` after an error; failure only warns |
| `Cleanup` | 234-237 | clean-up and return |
| `Resize` | outside `src/` | the SIGWINCH handler sets `terminal_resized = 1` |

The callback is split where it touches `terminal_resized`: the handler can
run between any two of its statements. `(percentage / 100.0) * bar_width` is
modelled as the exact quotient; the double product can be one lower when
it is a whole number, which changes no property here.

### `MoFile` — `read_mofile()`, `read_mo_strings()` (mofile.c, mofile.h)

**Abstraction.** A byte is a digit of base `ByteBase` (4) and a `uint32_t`
is four of them, so 32-bit wrap is modulo `ByteBase^4`. The file is a
sequence of bytes built by `Encode` from a catalogue record: the byte order,
the original and translated strings, how many bytes the file lost at its
end, and whether the first entry lies about its length. `Encode` writes the
GNU gettext layout; it is the reference, not a translation of the code.

**Actions.**

| action | code | step |
|---|---|---|
| `Open` | 94-99 | `fopen`; failure is `err()` |
| `MagicByte` | 101-114 | one byte of the magic, shifted in from the top |
| `ReadHeader` | 116-121 | the six header words, in the host's byte order |
| `TableStart` | 18-39 | `read_mo_strings()`: NULL for no strings, else `calloc` and `fseek` |
| `Entry` | 41-77 | one (length, offset) pair, `calloc(1, length + 1)`, the string read, the `fseek` back |
| `Close` | 127-138 | the debug loop and `fclose` |

`errcall` records which call `err()` named when a step ends the program.

### `UnicodeDriver` — `inspect_unicode()`, `unicode_driver()`, `rpm_prep_source()`, `manual_prep_source()`, `make_source_dirs()`

**Abstractions.**
- Files of the SRPM are model values:
  - `SPEC`, the spec file;
  - the elements of `SourceList`, which is `RPMTAG_SOURCE`;
  - `TextSources`, the sources whose MIME type is `text/*`.
- The contents of BUILD are parts:
  - `"prep"`: the tree of a successful %prep;
  - `"prepPartial"`: the leftovers of a failed %prep;
  - one `unpack-XXXXXX` directory per archive.
- The scan of a file or part is abstracted to `hit[x]`, the severity that
  the security rule gives its forbidden code point. The line scanner is
  modelled on its own.

**Parent actions.** The parent's `pc` follows the code:

| action | code | step |
|---|---|---|
| `OtherFile` | 775-784 | a file other than the spec file |
| `SpecFile` | 714-716 | the spec file |
| `PrepFork` | 157-164, 239-254 | pipe, fork, fdopen |
| `ParentRead` | 261-263 | one `getline` or EOF |
| `ParentWait` | 272-285 | `waitpid` and the `WEXITSTATUS == 2` wipe |
| `ManualStart` | 312-339 | start of the fallback |
| `Extract` | 341-375 | one source of the fallback loop |
| `Scan` | 760-772 | `nftw` and `rmtree` |
| `SpecSelf` | 775-784 | the spec file itself |
| `FinalReport` | 852-871 | the closing report |

**Child actions.**

| action | code | step |
|---|---|---|
| `ChildPrep` | 165-238 | `dup2`/`close` failure, `make_source_dirs` with its assert, `rpmSpecParse`, `rpmSpecBuild` |
| `ChildWrite` | — | one line into the pipe, which blocks while the pipe holds `PipeCap` lines |
| `ChildExit` | — | `_exit`, which closes the write end |

**Wait status.** The raw wait status is modelled with the glibc encoding:
- `ExitStatus(n)` is `n*256`;
- `SIGABRT` with a core dump is 134;
- `WExitStatus(s)` is bits 8-15.

So an aborted child has `WEXITSTATUS` 0, as it does in the code.

**Globals.** `globalresult` and `seen` are never reset, as in the code.

### `UnicodeScan` — the reading loop of `validate_file()` (inspect_unicode.c 390-684)

**State.**
- `text` is the file, a sequence of code points chosen in Init.
- `buf` and `pos` are ICU's read buffer and position. `u_fungetc()` writes
  the pushed-back character into the cell before the position, as ICU does.
- `line`, `i` and `sz` are the UChar line buffer, its index and its size.
- `linenum` and `findings` are the line counter and the results, in order.

**Actions.**

| action | code | step |
|---|---|---|
| `ReadUnit` | 524-526 | `u_fgetcx()`, narrowed to a UChar, stored at `line[i]` |
| `Grow` | 527-547 | the `i >= sz` test with `reallocarray()` (which may fail), then `i++` |
| `EndLine` | 549-684 | the CR/LF look-ahead and `u_fungetc()`, the NUL terminator, the `u_strchr()` search for each forbidden value, `linenum++` and the `u_feof()` test |

**Reference.** `SpecFindings` is written from spec 4.4:
- split the scalar values at LF, CR LF, CR, NEL, LS and PS (the recursive
  `SplitLines`);
- report the first occurrence of each configured value on each line.
- The configured values are the entries that are hex strings (`SpecCodepoints`).

**Forbidden list.** Each configuration entry is a hex value, a string
without hex digits, or a value too large for `unsigned long`. `Forbidden`
converts them as `inspect_unicode()` does (801-821):
- `strtoul()` gives 0 for an entry without digits and leaves `errno` 0, so
  the entry is kept as U+0000;
- only an overflow sets `ERANGE`, and the entry is then skipped;
- each value is stored as a UChar.

### `LineScanner` — what the scanner promises (spec 4.4)

An abstract specification with no ICU, buffers or look-ahead in it. It
keeps the file `text`, the number `n` of lines reported, the `findings` and
whether the scan `failed`. Its actions: the next line of `Lines(text)` is
reported, with one finding per configured value it holds; the scan gives
up while a line is still to be reported. `SplitLines`, `LineFindings` and
`AllFindings` are the spec's line splitting and search. `UnicodeScan` uses
them as its reference (`Ref!AllFindings`).

`UnicodeScan` maps onto it through `Scanner == INSTANCE LineScanner WITH ...`:
- `n` is `linenum - 1`, capped at the number of lines;
- `failed` is `pc = "failed"`.

The cap covers one case. After a final CR, the loop pushes back `U_EOF`,
reads it again and searches an empty line that the spec does not count.

`LineScannerSpec == Scanner!SafetySpec` is a property of `scan_pass`.
- It checks the safety part: the order and content of the reports.
- `Scanner!Spec` adds weak fairness, so that every line is eventually
  reported. TLC also confirms it on the same bounds, but its tableau takes
  almost 5 minutes, so no run includes it.

### `UseraddCheck` — `join_scriptlet_lines()`, `is_allowed_uid()`, `check_useradd()` (inspect_scriptlets.c 84-318)

**Abstraction.** A physical line is a record: its words and whether it ends
in ` \`. A token is a sequence of words:
- one word;
- two words, when `strappend()` glues a pending joined line to the next
  piece without a space between them.

**State.**
- `lines`, `new` and `jentry` are the join loop's three lists.
- `flags` is `rflag`, `uflag`, `sflag`, `shell` and `uid`. These are locals
  of the whole call, not of one line, as in the code.
- `reports` is the results added.

**Actions.**

| action | code | step |
|---|---|---|
| `JoinStep` | 105-133 | one iteration of the join loop |
| `JoinDone` | 135-138 | the loop has ended; whatever is still in `jentry` is dropped, as in the code |
| `CheckLine` | 213-313 | one line: the token loop (the recursive `ScanTokens`) and the four rules (`CodeRules`) |

The `-u` argument goes through `SetUid` (238-246): above `LongMax`
(`LONG_MAX`) `strtol()` sets `ERANGE`, and `uid` becomes `(uid_t)-1` with
`uflag` cleared; otherwise the long is stored modulo `UidMod`, the width of
`uid_t`.

**Reference.** `SpecReports` is written from spec 4.5: the decision table
applied to each logical line's own options.

### `ScriptletsDriver` — `get_scriptlet()`, `scriptlets_driver()` and `inspect_scriptlets()` (inspect_scriptlets.c 53-77, 321-419), composed with `UseraddCheck`

**State.**
- Each peer is one of three statuses:
  - `gone`: `after_rpm == NULL`;
  - `skip`: a source, debuginfo or debugsource package;
  - `binary`.
- Each peer has a before header or not, its before scriptlets, and for
  each hook an after scriptlet body or none.
- `result` and `reported` are the file statics.
- The locals of the `check_useradd()` call in progress are the variables
  of `UseraddCheck`. They are instantiated as `U`, with its `pc` renamed
  `cpc`.

**Composition.**
- A hook with an after body starts a call with fresh flags.
- The call runs `U!JoinStep`, `U!JoinDone` and `U!CheckLine` step by step.
- When the call is done, `CheckReturn` adds its results, tagged with the
  peer and hook. Nothing reads `result`, `reported` or the report while
  the call runs, so adding them at its return is equivalent to adding
  them one by one.

**Actions.**

| action | code | step |
|---|---|---|
| `NextPeer` | 405-407, 330-338 | one peer, with the early returns |
| `HookStep` | 343-353 | one `scriptlet_types[]` entry: `get_scriptlet()` and the call, or nothing |
| `CheckStep` | 352 (84-313) | one step of `check_useradd()` |
| `CheckReturn` | 354-358, 341 | the call returns; its results set `reported` and clear `result` |
| `Finish` | 409-417 | the OK result |

### `OutputLint` — `output_lint()` (output_lint.c 18-159)

Lines 36-57 are Python text inside the loop body, and the file does not
compile as it stands. The model is of the C statements around that text,
which is what the function does once the text is removed.

**State.**
- `results`, `suppress` and `dest` are the arguments; `dest` is `stdout`
  (NULL) or a file.
- `header`, `displayed`, `count`, `first` and `fp` are the locals.
- `out` is what has been written, as items: a blank separator line, a
  section header, and an entry per result shown, with the number before its
  message (0 when `msg` is NULL). Dashes, wrapping and the `Result:`,
  waiver, details and remedy lines are layout of an entry.

**Actions.**

| action | code | step |
|---|---|---|
| `Call` | 18-29 | the call, for every threshold and destination |
| `LintResult` | 61-145 | one result of a section that is not suppressed: `fp` opened if needed, the header the first time, the entry if 107 holds |
| `LintSkip` | 61-71 | one result of a suppressed section: only the section test |
| `LintOpenFails` | 79-84 | `fopen` fails: a warning, and the function returns |
| `LintTidy` | 147-158 | `fflush`/`fclose`; a failure trips the assert |

`suppressed_results()` is not in this repository; `SuppressedResults` takes
it from spec 3 and 6: a section is suppressed when none of its results
reaches the threshold. Severities are ordered OK < INFO < VERIFY < BAD
(spec 3).

**Reference.** `ExpectedLint` is written from spec 6: split the results into
sections (maximal runs of one header), drop the suppressed ones, and write
each as its header (after a blank line unless it comes first) followed by
its results at or above the threshold, numbered from 1 within the section.

### `ScriptletsReport` — the scriptlets and triggers inspections, rendered

- `ScriptletsReport` extends `ScriptletsDriver`. Once the driver is done,
  `InspectTriggers` adds the triggers result. `inspect_triggers()`
  (inspect_triggers.c 79-105) reads three tags of each before header and
  keeps nothing. It never sets its static `reported`, so it always adds
  one OK result.
- `OutputLint` is instantiated as `Lint` on `AllResults`: the scriptlets
  results under the header `scriptlets`, then the triggers result.
- `RenderView` merges render states that differ only in the driver's
  state. Once the triggers inspection has run, no step reads that state
  again, and the driver's properties were checked on the state the
  rendering started from.

## 3. Runs

Passing runs:

| run | cfg | checks | shows |
|---|---|---|---|
| curlmulti_pass | `CurlMulti_pass.cfg` | `TypeOK`, `Termination`, `FetchBatchSpec` | 3 jobs, with failures of `curl_easy_init`, `fopen`, perform/wait, the final `fclose` flush and `unlink` enabled. Every step is a step of `FetchBatch` or leaves its state alone: no outcome is revised, only a failed job's file is removed, and a normal return leaves a failed job's file only after the `unlink` warning. The loop ends if every transfer eventually leaves `running` |
| curlget_pass | `CurlGetFile_pass.cfg` | `TypeOK`, `HashesInBar`, `FetchOneSpec` | terminal widths 8, 12 and 20, two resizes at any point, a 3-byte artifact of known or unknown size, `curl_easy_init`, `fopen`, `fclose` and `unlink` failing. Between two callbacks the marks drawn in the last frame are `progress_displayed` and fit its bracket. `curl_get_file()` refines `FetchBatch` for one job, the failed `unlink` being its `Keep` |
| mofile_pass | `MoFile_pass.cfg` | `TypeOK`, `MagicIsFileOrder`, `ReadsCatalog` | 728 catalogues: 0 to 2 string pairs over three strings, both byte orders, cut short by 0, 1, 3 or 30 bytes, on a little-endian host, with `fopen` and `fclose` failing. The magic is `MO_BE` or `MO_LE` as the file's order is. A whole host-order catalogue is always returned, and what is returned is the catalogue |
| unicode_pass | `UnicodeDriver_pass.cfg` | `TypeOK`, `NoPipeDeadlock`, `OneTierScanned` | every order of spec file, binary archive and text source; every severity of every file and part; pipe/fork, mkdir, unpack and child failures. The parent never waits on a child blocked on a full pipe. The tree walked comes from one tier |
| unicode_fdopen | `UnicodeDriver_fdopen.cfg` | `VerdictMatchesReport`, `DriverTerminates` | the same files and failures, and also `fdopen` failing with the child orphaned. The verdict is FALSE exactly when a non-INFO finding was reported, and the inspection ends |
| scan_pass | `UnicodeScan_pass.cfg` | `TypeOK`, `FindingsFollowSpec`, `LineScannerSpec` | every file of up to 5 code points over X, RLO, LRI, LF, CR, NEL, LS and a supplementary code point, with a 2-unit initial buffer that may fail to grow, and a forbidden list of RLO, an overflowing entry and LRI. The results are the spec's: same lines, columns and order. Every step is a step of `LineScanner` or leaves its state alone: findings change only when a whole line has been read, by that line's findings and with the next line number |
| useradd_pass | `UseraddCheck_pass.cfg` | `TypeOK`, `JoinLoopKeepsWords` | every body of up to 4 lines drawn from a continued command, a complete command and an unrelated line. Each iteration of the join loop keeps every word of the body, in order |
| scriptlets_pass | `ScriptletsReport_pass.cfg` | `TypeOK`, `InspectionFollowsTable`, `LintRendersSections` | 2 peers of every status, every before scriptlet, and for each of 2 hooks no after scriptlet or one of 4 one-line bodies, each checked by the composed `check_useradd()`. The results are the decision table's for each scriptlet, in peer and hook order: no scriptlet is skipped, checked twice or judged with another's options. Then the triggers result is added and `output_lint()` renders both sections under every threshold, to stdout or a file, with `fopen`, `fflush` and `fclose` failures. Whenever it returns normally, it has written what the spec's renderer writes: each section once, blank lines between sections, the results at or above the threshold in order, numbered per section |

Violation runs. Each one checks one property, and each is a finding in
`PROJECT.json`:

| run | property | what the code does |
|---|---|---|
| curlmulti_partial_multi | `NoPartialArtifact` | a perform/wait error leaves in-flight downloads as partial files |
| scan_overrun | `NoBufferOverrun` | `line[i]` is written one past the buffer when a line fills it exactly (526) |
| useradd_trailing | `MatchesTable` | a body that ends in a continued command loses that command: it stays in `jentry` (135) |
| mofile_overrun | `NoHeapOverrun` | a length of 2^32 - 1 makes `length + 1` wrap to 0; `fread` fills the zero-byte buffer with the rest of the file (57-64) |

**Other divergences.** The same properties show further divergences when
the constants are changed. These are listed as hazards in `PROJECT.json`;
each was reproduced by changing the constants as shown:

| property | change the constants to | what the code does |
|---|---|---|
| `NoPartialArtifact` | `InitMayFail` or `FlushMayFail` alone | a failed `curl_easy_init` returns and leaves empty files (289); a failed final `fclose` keeps a truncated file (401) |
| `FindingsFollowSpec` | `Alphabet` with VT (11) | VT and FF end a line (392) |
| `FindingsFollowSpec` | `Alphabet` with NUL | `u_strchr` stops at the first NUL (563) |
| `FindingsFollowSpec` | `NoDigits` in `MC_Forbidden` | an entry without hex digits becomes U+0000, which `u_strchr` finds at the end of every line, even in an empty file (812) |
| `FindingsFollowSpec` | `Alphabet` with U+E002E | the 16-bit truncation at 526 reports it as U+202E |
| `MatchesTable` | `Bodies <- MC_Row1` | `useradd -r svc` is reported as missing options (264) |
| `MatchesTable` | `Bodies <- MC_Stale` | a second command inherits `-r` from the first (181-185) |
| `MatchesTable` | `Bodies <- MC_ThreeLines` | the third line of a command is cut off (113) |
| `MatchesTable` | `Bodies <- MC_Merged` | two continued commands become one line (117) |
| `MatchesTable` | `Bodies <- MC_WideUid`, `UidWords <- MC_WideUidWords`, `UidValue <- MC_WideUidValue` | the long from `strtol()` is narrowed to `uid_t`: `-u 66036` with a 16-bit `uid_t` becomes UID 500, under the boundary, and nothing is reported (240) |
| `MatchesTable` | `AllowedUids <- MC_NoUids` with `MC_HighUid` | an empty allow-list accepts every UID (145) |
| `MatchesTable` | `MC_HighUid` | the boundary result is waivable by anyone (262) |
| `MatchesTable` | `MC_Bash` with `Rebase = TRUE` | every rule becomes INFO (257) |
| scriptlets `VerdictMatchesReport` | `Rebase = TRUE` | INFO results still fail the inspection (273) |
| `OnlyCleanPrepAccepted` | add it to `UnicodeDriver_pass.cfg` (`ChildMayCrash = TRUE`) | exit 1 and abort of %prep are taken as success (281) |
| `FetchBatchSpec`, `FetchOneSpec` | take `Keep` out of `FetchBatch`'s `Next` | a failed `unlink` keeps a failed job's partial file, and the call returns normally with it (229, 385); spec 4.2 says it is deleted |
| `TreeRemoved` | `FdopenMayFail = TRUE` | the orphaned %prep child recreates BUILD after its removal (253) |
| `LostScriptletReported` | add it to `ScriptletsReport_pass.cfg` | a lost after-scriptlet is reported by nobody (193, 353) |
| `DestRewritten` | add it to `ScriptletsReport_pass.cfg` | with a file destination and a threshold above OK, a package without findings leaves every section suppressed; `fopen` (79) is never reached, and the file keeps an earlier run's report (74) |
| `ResizeNotLost` | add it to `CurlGetFile_pass.cfg` | a SIGWINCH between `tty_width()` and `terminal_resized = 0` is lost; the bar keeps the old width until the next resize (124-130) |
| `ReadsCatalog` | drop `doc.order = HostOrder` from its premise | a valid catalogue in the other byte order ends the program through `err()`: the header is read in host order and the magic never checked (117) |

## 4. Bounds and why they are enough

**CurlMulti.**
- `N = 3` jobs lets one job fail while two succeed, and lets messages arrive
  in an order other than job order.
- `MaxRepeats = 2` lets the loop see a first empty poll (no sleep) and a
  second one (sleep).
- The violation run needs only 2 jobs.

**CurlGetFile.**
- Three widths give a resize to a wider and to a narrower terminal.
- Two resizes let a second signal land inside the callback's handling of
  the first, which is the race.
- A 3-byte artifact gives the percentages 0, 33, 67 and 100, so the hash
  count grows in several steps within a frame.
- `SizeMod = 65536` is a 16-bit size_t: every width used stays far from
  the wrap, as 64 bits do.

**MoFile.**
- Two string pairs give a second entry, whose read depends on the `fseek`
  back after the first string.
- Strings of length 0, 1 and 2 give empty strings and different offsets.
- Cuts of 1, 3 and 30 bytes remove a trailing NUL only, part of a string,
  and part of the tables or the header.
- `ByteBase = 4` is the smallest base whose magic has four distinct digits;
  `ByteBase^4 = 256` covers every offset of these files.

**UnicodeDriver.**
- Three SRPM files give all 6 orders.
- The source list (binary archive, text source) covers both branches of the
  MIME test in the fallback and in `validate_file`.
- `PipeCap = 1` with `MaxOut = 2` gives a child with more output than the
  pipe holds, which is the case the drain-before-wait rule is about.

**UnicodeScan.**
- `BufSize = 2` with files of up to 5 code points makes the buffer grow twice
  and lets a line fill it exactly.
- The alphabet has two forbidden values, so their order and their columns
  both matter. It has CR and LF, so CR LF, a lone CR and a CR at the end of
  the file all occur, and a supplementary code point.

**UseraddCheck.**
- Bodies of up to 4 lines make all the join shapes:
  - a pending joined line flushed by a plain line;
  - one glued to a second continued line;
  - one left pending at the end.
- The violation runs use the single body that shows their divergence.
- `UidMod = 65536` is a 16-bit `uid_t`, scaled down like `SizeMod`, and
  `LongMax` is a 32-bit `LONG_MAX`. The single-word UIDs of the runs (500,
  5000) stay below the wrap. Their glued forms (e.g. 5000500, read as all
  the digits of both words) wrap, as
  they would in a 16-bit `uid_t`; they are above the boundary either way
  in the table, and the pass runs do not compare against it. `MC_WideUid`
  is a single word that crosses the wrap.

**ScriptletsDriver.**
- 2 peers and 2 hooks give a scriptlet with results before a clean one and
  after one, in the same peer and across peers.
- Every hook behaves alike, so the other 5 hooks add nothing.
- The 4 bodies are one line each: no useradd, `useradd svc`,
  `useradd -s /sbin/nologin svc` and `useradd -r -s /bin/bash svc`.
  - They give the missing-options, missing-UID and login-shell rows.
  - On them the code and the decision table agree.
  - Multi-line bodies, and bodies on which they disagree, are
    `UseraddCheck`'s runs.
- `-r` in one scriptlet and its absence in the next is the case where
  flags kept across calls would hide the missing-UID result.

**ScriptletsReport.**
- The driver's bounds give 5 distinct result lists. Among them are a
  clean package (two OK-only sections) and packages with one to three
  VERIFY findings.
- With all four thresholds these reach each case of the renderer:
  - both sections shown;
  - one section shown and one suppressed;
  - both suppressed, so `fp` stays NULL;
  - numbers up to 2 within a section;
  - a failing `fopen`, and a failing flush.
- Two limits:
  - `NAME_DIAGNOSTICS` is never a header here, so its exception at 107 is
    not exercised.
  - Neither section has a numbered message after another section, so a
    count not reset at a section change would go unseen.

## 5. Fairness

- Weak fairness on `Next` is assumed for:
  - the polling loop of `CurlMulti`;
  - the sequential loops of the scanner, the useradd check and the
    scriptlets driver, which are plain loops.
- Weak fairness on `Parent` and `Child` separately models the kernel's
  scheduling of parent and child: a process that can run eventually runs.
- No fairness is assumed for the network. `Termination` of `CurlMulti` is
  stated under the hypothesis that every transfer eventually stops
  running, because the code sets no timeout. `CurlGetFile` assumes no
  fairness: none of its properties is about progress.
- The SIGWINCH handler is not owed fairness; `MaxResizes` bounds it.
- `MoFile` runs in one thread; weak fairness on `Next` is that thread.

## 6. Not modelled, and why

- **`curl_get_size()` and `is_remote_rpm()`** (curl.c 413-482): one HEAD
  request each, with no state kept between calls.
- **The progress messages and escape sequences**: layout. `ResizeNotLost`
  and `HashesInBar` are about the width state and the mark count they are
  computed from.
- **Terminals narrower than 4 columns**: `bar_width` wraps, and the hash
  count then overflows `curl_off_t` in a double-to-integer conversion the
  model does not represent.
- **Configuration keywords**: constants only.
- **`output_lint.c` lines 36-57**: Python text that does not compile; the
  C statements around it are modelled.
- **Formatting of messages, path normalisation strings, ICU decoding of
  bytes**: replaced by model values. Path normalisation is below the level at
  which any property here distinguishes files.
- **The BAD "unable to run %prep" result of spec 4.3**: no code path adds it,
  since 735-744 test a flag that nothing sets. The model therefore never adds
  it either.
- **The rpmbuild skeleton**: it is never removed, which every trace shows
  (`skel` stays TRUE).
- **Tab separators in scriptlets**: below the word-level abstraction.

## 7. Plan for further work

1. The shared progress statics across calls: `curl_get_files()` calls
   `setup_progress_bar()` with `total_width` left by an earlier
   `curl_get_file()`.
