# A TLA+ model of iLabs_nrf52_devmgmt

The repository is a device-management library for nRF52840 boards: firmware
updates over LTE into a slot of external QSPI flash, a settings block shared with
the bootloader, uploads of a compressed log, diagnostics, heartbeats and a command
mailbox. This directory models it in TLA+, checks the models with TLC, and proves
with TLAPS all the safety properties that the models have, one excepted.

Paths below are relative to the repository; `qspi.cpp` stands for
`src/ilabs_fota_qspi.cpp`, `lte.cpp` for `src/ilabs_fota_lte.cpp`, `log_upload.cpp`
for `src/ilabs_log_upload.cpp`, `devmgmt.cpp` for `src/iLabs_nrf52_devmgmt.cpp`.

## 1. Inventory

| Component | Code | State | Operations |
|---|---|---|---|
| Settings store | `qspi.cpp` 375-480 | two 4 KiB sectors, each a block with sequence number and CRC | `readSettings`, `writeSettings`, `triggerUpdate` |
| Firmware download | `lte.cpp` | `s_ota`: range position, input accumulator, inflater, output page, slot offset, erase frontier; the download slot | `ilabs_fota_download`, `ota_chunk_cb`, `drain_output`, `ensure_erased`, `validate_slot_header` |
| Streaming inflate | `uzlib/tinflate.c`, `uzlib/tinfgzip.c`, `lte.cpp` 374-418 | dictionary ring, output page, bit position, trees, snapshot | `uzlib_gzip_parse_header`, `uzlib_uncompress_chksum`, rollback |
| One-shot gunzip | `src/ilabs_fota_gunzip.cpp` | none | a wrapper that nothing in the library calls |
| Log upload | `log_upload.cpp` | offsets of a run; high-water in the sketch's store; archive on the server | `ilabs_log_upload_run`, `uploadOneChunk` |
| QSPI power | `qspi.cpp` 58-253 | `_ready`, `s_resume_depth`, peripheral, chip | `begin`, `resume`, `suspend` |
| QSPI regions | `qspi.cpp` 255-345 | none | `rawErase`, `rawWrite`, `rawRead`, slot helpers |
| Session, diagnostics, heartbeat, mailbox | `devmgmt.cpp` 41-76, 174-199, 294-506 | `s_session_open`, `s_hb_*` | `update`, `transportSelfTest`, `uploadLog`, `postDiagnostic*`, `closeDiagChannel`, `*Heartbeat*`, `checkIn` |
| Update check | `devmgmt.cpp` 205-292, `src/ilabs_fota_manifest.cpp` | 512-byte buffer | `checkForUpdate`, manifest parser |
| Installing an update | example sketches, `src/ilabs_fota_settings.h` | UPDATE_PENDING, slot, running version | application loop, bootloader (external) |
| SHA-256 | `src/ilabs_fota_sha256.cpp` | a context: state, buffer, lengths | `starts`, `update`, `finish` |
| Compressor and checksums | `uzlib/genlz77.c`, `uzlib/defl_static.c`, `uzlib/crc32.c`, `uzlib/adler32.c` | hash table, output bits | `uzlib_compress`, `zlib_start_block`, `zlib_finish_block` |
| Self-test | `src/ilabs_fota_test.cpp` | counters | `ilabs_fota_test_run` |
| Receiver | `examples/server-php/index.php` | one archive per device and day | append a member, reply with its length |

How they interact. The application calls the facade (`DevMgmt`), which opens the
session hooks and calls the download, the upload or a POST through function
pointers the sketch registered. The transport calls back, synchronously and in
pieces of any size, with the body. The download writes the slot; `triggerUpdate`
then sets UPDATE_PENDING in the settings block, which is the commit point the
bootloader looks at after a reset. Everything that touches the flash must run
between `resume()` and `suspend()`, whose count is shared with the sketch's log
store. There is one thread of control in the library; the exceptions are power
loss, which may hit between any two flash operations or in the middle of one, and
`resume()`/`suspend()`, which a log task and an update task both call.

What is hard, component by component:

- **Settings**: a torn write must leave the other block; the block to overwrite
  and the next sequence number are recomputed from flash at every call, so a long
  history of failed and torn writes decides which block is live.
- **Download**: pages, sectors, ranges and chunks do not line up; the header is
  programmed last into an area erased just in time; a short range is a drop or
  the end.
- **Inflate**: the decoder runs past the end of its input, on zeros that may mean
  something, and is rolled back; trees stay from one block to the next.
- **Compressor**: the hash finds candidates, not matches; buffers are sized by its
  worst case, which its writer does not watch.
- **Installing**: staging, reset and swap are three steps with power loss between
  them; manifest and image are two files that may disagree.
- **Upload**: the server appends before the device marks; the store slides its
  offsets when it prunes; replies are lost.
- **Power**: early returns, failed wakes and two callers share one counter.
- **Facade**: four ways of opening and closing one session, a clock that wraps.
- **Update check, self-test, mailbox**: a small body that may be cut anywhere and
  still be a "200", in chunks that have nothing to do with what is in it.
- **Bodies**: escapes that meet the end of a buffer no request may exceed.

The full list of what a test would hardly reach, each at its line and with the
properties that cover it, is `hazards` in `PROJECT.json`.

## 2. Modules

| Module | Models | Uses |
|---|---|---|
| `SettingsRegister` | what the settings promise: one value that changes atomically | |
| `SettingsStore` | the two sectors and the driver that writes them | `SettingsRegister` as a property |
| `SettingsStoreProofs` | its theorems | `SettingsStore` |
| `DownloadSlot` | what the download promises of the slot to whoever looks after a reset | |
| `FotaDownload` | the download, chunk callback and slot | `DownloadSlot` as a property |
| `FotaDownloadProofs` | its theorems | `FotaDownload` |
| `FotaUpdate` | the application's loop, the bootloader, the server | composes `DownloadSlot` and `SettingsRegister` |
| `FotaUpdateProofs` | its theorems | `FotaUpdate` |
| `InflateReplay` | ring, page and rollback of one inflated stream | |
| `Deflate` | the compressor and the member it writes, bit by bit | |
| `Inflate` | the decoder, bit by bit, of a member or of any gzip file | extends `Deflate` |
| `Sha256` | the buffering and padding of the hash | |
| `CodecProofs` | theorems of `InflateReplay`, `Deflate`, `Inflate` and `Sha256` | these four |
| `LogDelivery` | what the upload promises: in-order, at-least-once | |
| `LogUpload` | the upload, the log store, the transport, the server | `LogDelivery` as a property |
| `LogUploadProofs` | its theorems | `LogUpload` |
| `QspiPower` | begin, resume, suspend | |
| `QspiRegions` | the calls that reach the flash, their bounds in 32-bit words | extends `QspiPower` |
| `QspiProofs` | theorems of both | `QspiRegions` |
| `DevMgmt` | session channel, diagnostics, heartbeat | |
| `DevMgmtProofs` | its theorems | `DevMgmt` |
| `UpdateCheck` | manifest fetch, parser and verdict | |
| `Responses` | transport self-test and the command of a check-in | |
| `DiagBody` | the JSON bodies that are posted | |
| `ResponsesProofs` | theorems of these three | `UpdateCheck`, `Responses`, `DiagBody` |
| `MC*` | the instances TLC runs; `MCCodec` and `MCResponses` hold three subjects each | |

Actions carry the names of the functions, or of the part of a function between two
points where something else can happen: a flash operation (which may fail, and in
which power may be lost), or a call of the transport. What lies between is one
action, cleanup included. Variables are the code's, under the code's names where
these read well; `map` in `PROJECT.json` gives the lines of every definition.
Variables marked *history* in a declaration record what happened for a property
and guard nothing. An operator with a comment "a mutant of" or "a bug" is a
plausible error in the definition it stands before, used only to show that a
property would notice it. A type invariant that no run lists is there for proofs.

**`SettingsStore`.** `blk` is the flash; a call is `CallWrite` or `CallTrigger`,
then `Choose` (read both blocks, pick the target, compose the new block),
`EraseTarget`/`EraseFails`, `ProgramTarget`/`ProgramFails`. A block is valid or
not: magic, size, version and CRC are one bit, and an interrupted erase or program
leaves an invalid block, or one that is not damaged yet (`Interrupted`).
`ReadFaults` lets a read fail transiently. `_ready` is taken as true. The
sequence number is a natural: 2^32 writes outlast the flash by four orders of
magnitude.

**`FotaDownload`.** A byte of the image is its offset, so the slot holds the image
when each offset holds itself. The states `loop`, `range`, `inflate`, `stage`,
`finish` are the nesting of the code: megachunk loop, range request in flight,
inflate loop of the callback, erase-and-program loop of `drain_output`, final
checks. The compressed stream has one byte per byte of the image, between a gzip
header and a footer: every alignment of chunk ends with pages still occurs. The
image's attributes say whether its header is acceptable, its hash right, its
stream inflatable, its claimed size; a gzip header that does not parse is a stream
that does not inflate. Nothing follows the footer. A refusal (4xx, 5xx) may come
after any part of a body, which the callback takes for the stream: the attempt
fails whatever it does with it. `GenuineImageCommits` counts a piece the buffer has
no room for among the faults; that it never runs over is in `TypeOK`. The
bootloader's
view of the slot is `OldHeader`/`OldImage`/`NewHeader`/`NewImage`; a half-erased or
half-programmed header is taken to fail its CRC-16. `IsDownloadSlot` maps the slot
to the one variable of `DownloadSlot`, which is all that a reset can tell.

**`FotaUpdate`.** The loop of the README's `checkAndUpdate()` (`polls`) or of the
LTE example, which updates in every cycle (`~polls`). `update()` and
`triggerUpdate()` are the actions of the two abstract specifications, so that each
ends at any of the points where power may be lost. The bootloader is
the contract in `ilabs_fota_settings.h`: it clears UPDATE_PENDING whether it
applies or refuses, counts attempts, compares versions, and may fail to read the
flash at all (`Postpone`). One assumption goes beyond that text: it records the
version it starts in `current_app_fw_version`. Manifest and image are published
separately, in any order, downgrades included.

**`InflateReplay`.** A stream is, per output byte, a literal or a distance; the
value of a byte is the place of the literal it stems from. The decoder can starve
before any byte and then fills the page with phantoms, one or more, before it
returns; `RollBack` restores what `uz_backup` holds, which is not the ring.
This allows more than DEFLATE does (a new distance for each byte), so what passes
here passes for real streams.

**`Deflate` and `Inflate`.** The tables, codes and bit orders are the code's own, in
full: a member is a sequence of bits. Data is chosen so that the hash, two bits
wide here, collides, matches overlap and end at the tail, and distances pass the
dictionary's limit. `Inflate` takes the member, any plan of tokens written by the
same code (every literal, both ends of every length and distance record), and the
files of an encoder that is not in the repository: all header fields, sequences of
stored, fixed and dynamic blocks, trees described with and without runs and copies.
`Cut` ends the file at any byte the next step would reach. Only valid files are
decoded: an incomplete code is outside the model, and there `tinf_decode_symbol`'s
error value, which is negative, passes for a literal, and for a distance symbol that
indexes the tables (`tinflate.c:439-445`). The model makes both an error. What is done
with a token, and what happens after a starved call, is in `InflateReplay`.

**`Sha256`.** A byte is its place in its message, so that no two messages share
one; the state is the sequence of blocks it was computed from. The block of 64 and
the length of 8 bytes are scaled to 6 and 2.

**`LogUpload`.** A log byte is its position since the first boot. `first` is how
many the store has dropped, `mark` its high-water; the store's contract (begin
freezes, it prunes only when not frozen, a prune drags the mark along) is that of
`ilabs_log_source_t`, external to the library. A member's size is any that static
Huffman codes can give; the server appends what it is sent. The reply arrives in
pieces into the buffer of `ResponseCtx`. What arrives of a body that is cut on the
way is appended by the server too; it is no member, and none of its bytes count as
archived. Faults are named in `Faults`: read errors,
no memory, a POST lost before ("lost") or after ("ghost") it was stored, refusals,
cut or wrong replies, power loss. The exit for a member larger than `CHUNK_OUT_MAX`
cannot be reached, as its comment says, and is left out.

**`QspiPower`.** Each task has its own stack of `resume()` calls, with what
each returned. A JEDEC read may come too early, at most `MaxMisses` times in a
row. `begin()` may also refuse a flash that is too small for the partition map, awake
as it is by then. A processor reset keeps the chip's state. `s_resume_depth++` and
`--` are single steps, and so is a whole `suspend()`, its power-down included: the
model shows that even so two tasks get in each other's way.

**`QspiRegions`.** Adds the flash calls, with every address of the word and several
lengths. The raw calls add in `uint32_t`, which wraps (`Plus`); the slot calls cast
to 64 bits first (`WithinSlot`). The flash decodes only as many address bits as it
has.

**`DevMgmt`.** Calls are synchronous, so one is under way at a time; `open` is the
flag, `links` counts the hooks fired. The clock wraps at `Wrap`; `since` is the
real time since the schedule was based, which the code cannot see. The bodies it
posts are in `DiagBody`, the reply of a check-in in `Responses`.

**`UpdateCheck`.** The document is a sequence of tokens: words in quotes, digits,
quotes, characters. Besides the fields the parser knows there may be one that it does
not, whose value may spell a key: `find_value` takes any quoted word for the key, and
stops at the first. `Misleads` says when it is taken in. Objects within the document are
left out. The server may answer with any document; the transport hands it over
in chunks and may stop anywhere with a success status. The parser's operators
follow `find_value`, `parse_uint`, `copy_string`, `ilabs_fota_manifest_parse`.

**`Responses`.** A byte of the self-test's file is its offset; the transport loses,
repeats or corrupts bytes. The pattern's period, the budget of mismatches and the
command buffer are constants. The same bytes are the reply of a check-in, with a
transport error at any point or a status that `checkIn` does not look at.

**`DiagBody`.** A message is built byte by byte, each plain, to be escaped, or a
control character; the other bodies are their lengths. The cap is what the
transport declared, a default, or the local buffer.

## 3. Runs

Every run is in `PROJECT.json` with the properties it checks. States are distinct
states of the run.

| Run | What it shows | Bounds and why they suffice |
|---|---|---|
| `settings_store` | atomic register under flash faults and power loss (134 k) | two versions (symmetric), three sequence numbers: the writer comes back to each sector, with a failure in any of the writes |
| `fota_download` | what is committed, what a header stands for, termination, a good image is committed despite drops, refinement of `DownloadSlot`; all faults (258 k) | slot of two sectors of 4, header 2, page 3, ranges of 4, pieces up to 3, seven bad images and two good ones: pages straddle header, sector and slot end |
| `fota_update` | a staged update is the image in the slot, no rollback, updates arrive and downloads cease (84 k) | three versions, so that a manifest can be ahead of an image that is older than the running firmware; one retry of a swap |
| `log_upload` | at-least-once, member size, freezing, refinement, termination, and runs that keep ending well leave no byte behind (198 k) | five log bytes, chunks of three, two chunks and two attempts a run: pruning, shrinking, short reads and retries combine |
| `qspi` | holds are honoured, sleeps are real, a hold is given up only after every attempt, no call reaches a sleeping flash or leaves its slot; one task (2.6 k) | nesting of four, five attempts as in the code, six misses: a whole failed wake and a second one begun; 32 addresses over a flash of 16, every one of them and lengths up to 31: sums wrap, addresses alias |
| `devmgmt` | session and schedule (48 k) | eight ticks a wrap, two an hour, cap at three hours, requests of up to five: the proportions of 49.7 days, 31 days and beyond |
| `responses` | offers, verdicts, commands and bodies (138 k) | documents of two-digit numbers in six orders, two incomplete ones, one with the optional field, three with an unknown field, ahead, between and behind, that spells a key or not; a buffer some of them fill and some exceed; a URL that fits the result and one that does not; self-test bodies up to five bytes with a period of three and a budget of two mismatches; caps below, at and above each limit of the bodies |
| `codec` | compressor, decoder, replay and hash (338 k) | every text of two letters up to seven bytes, runs about the longest match, repeats beyond the dictionary; each literal, length and distance record; every pair and triple of small blocks; every cut within reach; replay with ring 5, page 2, streams of up to 8; two hashes of up to 14 bytes with a block of 6 |

Runs that expect a violation each check one statement of a comment that the code
does not keep:

| Run | Statement | What happens |
|---|---|---|
| `settings_read_fault` | `ilabs_fota_qspi.h:142`, the active block is left intact | a read error makes the active block look dead, and it becomes the target |
| `fota_empty_payload` | `lte.cpp:596`, the first sector was erased by the first payload write | not when the header claims no payload: it is programmed over the old one |
| `qspi_outer` | `qspi.cpp:208`, already brought up by the outer caller | another task may still be waking it |
| `raw_region` | `ilabs_fota_qspi.h:169`, the raw calls are bounds-checked against the FOTA region | their sum wraps in 32 bits |

Other disagreements met while modelling. The models follow the code in each; none
of them has a run of its own, because no property kept here turns on it:

- `ilabs_fota_lte.h:83`: the first sector is erased any time nothing is committed.
  Not if the attempt fails before its first payload byte: the old image stays valid.
- `lte.cpp:474`: any forward progress resets the budget of consecutive stalls. A
  full megachunk does not, only a short delivery (`lte.cpp:518`).
- `src/ilabs_fota_manifest.cpp:6`: unknown extra fields do not matter. One whose value
  spells a required key, ahead of the field of that name, makes the manifest
  unparsable; `Misleads` excludes it from `WholeManifestIsJudged`. No offer comes of it.
- `src/ilabs_fota_manifest.h:41`: the firmware slot's URL. One of 256 characters or more
  is offered as its first 255 (`OfferUrlIsUntorn`), not refused.
- `examples/server-php/index.php:139`: the daily file decompresses as a whole. The part
  of a member that a cut POST delivered is appended before the device learns of it, and
  decompression stops there.
- `README.md:99`: the polling loop downloads when a newer image is offered. A
  manifest ahead of its image is such an offer after every install, so the device
  installs the same image again and again; `UpdateArrives` excludes that case. The
  LTE example, which does not poll, downloads and installs in every cycle.
- `ilabs_fota_qspi.h:163`: UPDATE_PENDING is a commit point. `update()` does not
  take it back when it reuses the slot; that matters once the bootloader has booted
  without looking (`postponed` in `PendingMeansImage`).
- `devmgmt.cpp:311`: a diagnostic is always valid JSON. A message is cut between
  bytes, also between those of one UTF-8 character.
- `devmgmt.cpp:505`: the bytes of a command are returned. So are those of an error
  page, as any status counts as delivered.
- `src/ilabs_fota_test.h:4`: each byte is verified. A loss of a multiple of 256 bytes
  goes unseen, as `VerdictIsRight` says, and so does a body that ends early.
- `src/ilabs_fota_gunzip.h:42`: -3 means the output does not fit. A stream that fits
  exactly is refused with it too.
- `log_upload.cpp:140`: overflow of the reply is ignored. A reply that comes in one
  piece of 128 bytes or more is dropped whole, and the member is uploaded again.
- `ilabs_fota_qspi.h:84`: not ready after `suspend()`. A `suspend()` right after
  `begin()` is a no-op.
- `qspi.cpp:150`: full teardown on suspend. A wake that failed leaves the
  peripheral on.
- `qspi.cpp:252`: `suspend()` no-ops at 0. Another task may have raised the count.
- `iLabs_nrf52_devmgmt.h:230`: true once the interval elapsed, wrap-safe.
  Undelivered for a whole wrap, it is not due again until the interval has passed.
- `devmgmt.cpp:57`: a call that finds the channel open does not close it. A DIRECT
  diagnostic does.
- `iLabs_nrf52_devmgmt.h:135`: hooks are fired only by `update()`. Diagnostics and
  the self-test fire them too.
- `README.md:146`: a device mismatch is rejected before any download. A
  `device_type` cut within its digits reads as another; the check of the slot
  header then refuses the image.
- `lte.cpp:289`: rollback restores the exact state. The ring is not restored; this
  does no harm as long as distances are at most the ring less a page, which zlib's
  are (32768 - 262 against a page of 256) and DEFLATE's 32768 is not.

Deadlock is checked in every run. Next-state relations always enable something
(a new call, a reset); a stream, a file or a hash that is at its end stays there by an
explicit step (`Rest` of `MCCodec`).

**Fairness.** `FotaDownload` and `LogUpload` assume weak fairness of the steps of
the call under way: it is synchronous code, and every transport and flash call
returns (the transport owns its timeouts, `iLabs_nrf52_devmgmt.h:32`).
`LogUpload` also assumes weak fairness of `Run` for `EverythingArrives`: the
application triggers an upload again and again (`iLabs_nrf52_devmgmt.h:35`).
That property is conditional on runs that end well again and again, so that it
holds with every fault enabled.
`FotaUpdate` assumes weak fairness of its fault-free steps: the device is powered
again and the loop runs; `UpdateArrives` asks something only of behaviours in which
faults and publications cease. `GenuineImageCommits` is of that form too.
`ReplayFinishes` assumes that input goes on arriving. Nothing is assumed of faults,
power, logging, pruning or the server.

## 4. Proofs

TLAPS checks the following for every value of the constants that satisfies the
named assumptions of the modules (`ASSUME ...Assumption`, one or two per module,
all evaluated by TLC on the instances). They give constants their types, and
relate sizes only where the code does: a header is smaller than a sector
(`DownloadAssumption`), the smallest chunk compressed fits the cap's floor
(`UploadAssumption`), the heartbeat's cap in milliseconds is below the wrap
(`DevMgmtAssumption`), the slots fit the chip and the chip a word
(`RegionsAssumption`), the lead-in of a body fits the smallest buffer
(`DiagAssumption`). Whatever a theorem needs beyond them is in its statement.

**`SettingsStoreProofs`.** `TypeCorrect` needs nothing. `Safety`, `Survival` and
`Atomicity` hold when `ReadFaults = FALSE`, which is what `settings_read_fault`
shows to be necessary. The inductive invariant `IInv` adds `WriteAimed` to the
properties: while a write is under way the target is the sector beside the newest
block, and the composed sequence is one above that block's and, if the target
still holds a valid block, two above the target's. Without it nothing would say
that a successful program yields the highest sequence, or that a half-erased
target was not the live block. `Atomicity` maps the register's value to what
`readSettings` returns, or zeros: every step is a commit, an abandoned write, a
call or a stutter.

**`FotaDownloadProofs`.** `TypeCorrect` needs nothing. What is said of the slot
assumes `NoEmptyPayload`, the case the run `fota_empty_payload` refutes. `IInv`
says where the staging stands: payload bytes below `qoff` are in the slot
(`Staged`), cells from there to the erase frontier are erased (`Ahead`), the
frontier covers what was programmed (`Covered`) and is a whole number of sectors,
and counters of input and output agree (`InStep`). From it, a program always hits
erased cells, the header's own cells are erased at the commit since a payload of
at least one byte made the first sector erased, and the final checks leave only
the whole image. `ImplementsDownloadSlot` is the refinement, action by action:
the header read off the cells (`Holds`) is what the abstract slot holds, the first
erase spoils it, the program of the header commits it, and no other step of a
download, and no loss of power, changes it.

**`FotaUpdateProofs`.** The download and the settings enter as their abstract
specifications, which the two modules above implement. `PendingMeansImage` is
not inductive: while `triggerUpdate()` runs, the block it is about to make visible
has to match the slot, so `Places` ties the register's operation under way to the
version that was fetched and that to the slot. `ActedOn` says that the application
never runs with a request the bootloader could have acted on, `VersionKept` that
the version the bootloader compares with is the one that runs; together they make
a swap an upgrade (`NoRollBack`).

**`LogUploadProofs`.** `IInv` adds `Aim` (a run's offsets, from the snapshot on,
point at the byte behind the high-water and end within the log: it is frozen, so
nothing slides) and `Archive` (what is archived beyond the mark is a delivery
still in doubt). `ShrunkBounds` and `FloorFits` show the shrink to end at a size
that fits. `Delivers` is the refinement: each step logs, prunes, delivers a range
behind the mark, confirms archived bytes, or stutters.

**`QspiProofs`.** The theorems on nesting assume one task (`Alone`); with two, a task
may return from `resume()` while the other still wakes the chip, which is the
counterexample of `qspi_outer`. `IInv` ties the count to the stack of calls
(`CountIsCalls`): the calls that stand are the innermost ones and as many as the
count, since a call backs out only from a count of one and a call that finds the
count raised never does. So a `suspend()` of a call that backed out meets a count
of zero. `WakingIsFirst` says that a wake in progress is the first hold, of a chip
that has missed at least as many reads as the wake has failed attempts.
The region calls change nothing of the power state (`CallsLeavePower`, an
implementation of `QspiPower`), so its theorems carry over (`HeldDespiteCalls`).
`CallsFindItAwake` holds for any number of tasks: its invariant is only that a flash
that counts as up is awake. `SlotCallsStay` is arithmetic: for every address and
length of the word, sums that wrap included, a slot call that is let through stays
in its slot, also after the flash has dropped the address bits it does not decode.

**`DevMgmtProofs`.** `Session` says that between calls the channel is open exactly
for a batch, and that a call that rides it knows whether to close it. `Elapsed`
says that the two clock values differ by the time since the base less whole wraps;
with `HoursAreMs` (the cap keeps the product below the wrap) and three lemmas on
`%`, `heartbeatDue()` computes what its interval means for less than one wrap.

**`ResponsesProofs`.** Three modules whose loops go over a body byte by byte.
`Responses`: the tally of the callback is the set of deviating positions of what it
has been handed, cut to the budget (`Tally`), whatever the pieces were; the command
is the first bytes of the reply that the buffer holds (`Mailbox`).
`DiagBody`: a body under construction is well-formed but for its end, and leaves
room for that (`Growing`).
`UpdateCheck`: what the parser returns is computed by `find_value` and friends on the
buffer, a prefix of the document. The lemmas say what each of these finds in a
prefix: a key where its field is, or where a value spells it, with a comma behind it
and nothing to read (`KeyStands`, `NothingRead`); of a number its digits, all or the
first of them; a string only with its closing quote. So `OfferedUrlsAreUntorn`
needs nothing: an offered URL is the document's, or the first 255 characters of it if
it has more. `OfferedUrlsAreWhole` has the case of interest, URLs with room in the
result (`UrlsFit`), which are offered whole. `OffersAreNewer` assumes `NumbersFit`, versions within the parser's
32 bits, since a wrapped number may exceed its own prefix, and
`WholeManifestsAreJudged` that no required field of a document is empty: the parser
refuses a number without digits and an empty URL. The property itself leaves out
documents with a value that misleads.

**`CodecProofs`.**
`InflateReplay`: the drained bytes and the page are the stream's up to `pos` (`Paged`,
`Drained`), and so are the places of the ring that no attempt at the page can have
reached (`RingKept`), whatever phantoms left in the others. `DrainedRight`
follows without an induction over the stream. It holds if the ring has room for
the farthest copy and a page (`RingHoldsPage`): that is the condition of the last
item of the list above, which zlib's distances satisfy. The recorded origin of a
byte is a recursive function; that it exists is proved from the well-foundedness
of the finite subsets of the naturals, which yields an induction on one set
(`NatMin`) without the library's theorems on operators.
`Deflate`: every bucket points behind the cursor (`Placed`), so a match copies earlier
data; a token's bits are at most nine per byte it stands for (`Cost`), for a literal
by its code and for a match by the tables, record by record.
`Sha256`: blocks hashed and bytes held are the message so far (`Fits`), and the padding
completes it (`PaddedAs`), for one block or two.
`Inflate`: `MembersReadBack` says that the decoder reads what the device's own
compressor wrote: `ReadsWhatWasWritten`, of every behaviour that starts with
`DeflateInit`, for any data, any tokens there are codes for (`PlansAssumption`), any
hash, and any cut of the file. Its one hypothesis, `WithinWindow`, is that no match
reaches back farther than the decoder's dictionary; of a member that does, the
decoder rightly makes an error. The argument has three parts.
(1) *Symbols.* `DecodeSymbol` and `ReadBits` are recursive functions of the bits;
`AccumulationExists` gives that they exist, `Gathers` and `TakesBit` follow the
decoder's two sums bit by bit, and `SevenBits`, `EightBits`, `NineBits` and
`FiveBits` say for each length of a fixed code which of its words the decoder stops
at: that the code is prefix-free is in the tallies of `FixedTree` and nowhere
assumed. With the tables record by record (`LengthWidths`, `DistanceWidths`),
`TokenReads` and `EndReads` say what one `ReadToken` does to the bits of a token,
of a block's end, and of either one that is cut within.
(2) *The writer.* `Writing(o)`: token k of `sent` starts at bit `o[k]`, and its code is
what stands there. Each `Send` puts one more behind the others (`LaidGrows`), and
`FinishBlock` moves them all behind the 80 bits of the header (`Member`, `LaidMoves`),
to where a whole byte follows the end of the block, and the trailer that.
(3) *The reader.* `Reader(o)`: unless it has starved, the decoder is at one of the
places `o` names and has what was written before it; once it has, the file is shorter
than the member (`limit`), which makes "starved" true and, in the last clause of
the property, the only way not to finish. `InflateInv` joins the three.

Three results are corollaries worth their own names: `Generations`
(`ConsecutiveGenerations`), `NotLeftUp` (`OnlyBeginLeavesItUp`, one task) and
`KeptOpen` (`KeptStaysOpen`).

Model-checked only: the liveness properties (`Returns` of the download and of the
upload, `GenuineImageCommits`, `EverythingArrives`, `UpdateArrives`,
`ReplayFinishes`), which need fairness and ENABLED; and `ReadsWhatWasWritten` of the
files of other encoders (`WriteFile`): headers with fields, stored blocks, and
dynamic ones, whose canonical codes are sums over sets of symbols.

## 5. Plan

Written, in this order: `SettingsStore`, `FotaDownload`, `LogUpload`, `QspiPower`,
`DevMgmt`, `InflateReplay`, `UpdateCheck`, the proofs of the five that have one,
`DownloadSlot`, `FotaUpdate`, `QspiRegions`, `Responses`, `Deflate`, `Inflate`,
`Sha256`, `DiagBody`.

Proved since: all safety properties of these, `ReadsWhatWasWritten` for what the
device itself writes, and the refinements `IsAtomicRegister`, `IsDownloadSlot`, `IsLogDelivery`.

Next, by importance:

1. `ReadsWhatWasWritten` for the files of other encoders: stored blocks and several
   fixed blocks first; dynamic trees need the canonical code.
2. `QspiPower` with several tasks: what of `HeldMeansReady` remains.

## 6. Not modelled, and why

- The modem, the flash chip and the sketch's log store are outside the repository;
  they appear as the environment of the models. So does the bootloader, of which
  only the contract is here.
- Checksum arithmetic (CRC-32, Adler-32, the CRC-16 of the slot header, the CRC of
  the settings) and the compression function of SHA-256: pure functions with a
  published reference, out of a model checker's reach in their real width. Whether
  a checksum matches is a choice or an attribute of the input.
- The one-shot gunzip: a stateless wrapper that nothing calls.
- The wording of bodies and logs: `DiagBody` has what JSON and the caps depend on.
- The GPIO bit-banging and register-level workarounds of `qspi.cpp`: hardware
  timing; `QspiPower` takes their documented effect.
- What the example sketches do besides the update loop: wiring and printing.
