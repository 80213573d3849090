# A verification project for AstromechOS Imager

AstromechOS Imager is a Windows desktop program (Python, PySide6/QML) that
writes an operating system image to SD cards, one card after the other, first a
*master*, then a *slave*. For each card it streams the image to the raw device,
reads it back, writes the first-boot files into the card's FAT partition without
mounting it, and writes the partition table last. When that does not work out it
formats the card so that it is a readable empty card again.

This directory holds TLA+ modules of the parts of the program where threads,
failures and the operator meet, TLC configurations that check them on small
instances, and proofs of the most important results for instances of any size.

Paths below are relative to `src/astromechos_imager/`.

## 1. Inventory

| Component | State it keeps | Operations | Interacts with |
|---|---|---|---|
| `core/diskwriter.py` `DiskWriter.run` | queue, hash, offsets, held-back first chunk, stored exception | producer and consumer threads, joins, final flush | image source, raw device, cancel event, progress callback |
| `core/diskwriter.py` `verify_readback` | read offset, hash | block by block readback, compare | the same device and cancel event |
| `core/orchestrator.py` `FlashJob.run` | `dev`, `mbr_written`, `write_result`, watchdog thread and its stop flag | preflight, dismount, wait gate, open, scrub, purge, watchdog, copy, verify, customize, table, close, eject, restore | all of the platform layer, `FirstbootBundle`, the view model above it |
| `platform/windows.py` | Windows' own: letters, automount, handles | dismount, open, strip a letter, attach a letter, purge, eject, format | Mount Manager, diskpart, mountvol |
| `platform/session_guard.py` `AutomountSessionGuard` | armed, released, lock, marker file | claim, arm (background thread), release (at quit), repair at next launch | mountvol, a marker file in `%ProgramData%` |
| `core/raw_sector_io.py`, `core/raw_fat_partition.py` | sector cache, dirty set, closed flags | read-modify-write, flush, close | pyfatfs, a second raw handle |
| `core/customization.py` `FirstbootBundle` | none | writes the first-boot files, validates them, writes the trigger last | the FAT above |
| `ui/flash_view_model.py` `FlashViewModel` | status, cancel event, user-cancelled flag, hash thread, flash thread | startFromWizard, cancel, finish handlers, resets | hash worker, flash worker, wizard state, QML gates |
| `ui/wizard_state.py` `WizardState` | step, images and their role verdicts, generation tokens, drive ids, current and completed roles, hotspot SSID | next, back, goto, image picks with background checks, role bookkeeping | daemon threads, QML gates |
| `ui/drive_list_model.py`, `ui/qml/Step4Role.qml` | the list of candidate drives | refresh (polled), automatic selection of the role and drive, WRITE | Windows' drive numbers, `_build_flash_job` |
| `core/keygen.py` | the persisted key pair and hotspot | generate, save, load | files in `%APPDATA%` |
| `ui/app.py` | timers, threads of the letter strip | start-up wiring, polling, stripping letters of candidates | all of the above |
| `core/imagesource.py`, `core/image_validator.py`, `core/bootpartition.py`, `core/cloud_init_generator.py`, `core/network_config_generator.py`, `core/validators.py`, `core/models.py` | none | pure functions and streams | |
| `cli/main.py`, `logging_setup/`, `ui/qml` visuals, `native/`, `installer/`, `scripts/`, `tools/` | | | |

What is hard about it:

* **Threads and one shared event.** The cancel event is set by the operator and
  by the copy's consumer when it dies, and it is read at a dozen places of the
  worker. A cancel may come between any two of them.
* **Everything may fail, and the card is wiped early.** From the moment the raw
  device is open the card is unusable until either the table is written or the
  card is formatted. Errors say what became of the card (`sd_state`).
* **Windows is an adversary.** It letters volumes when they arrive, and it
  mounts and writes file systems it recognises.
* **Bounded waits.** The wait gate gives up after 30 s, the watchdog's join
  after 2 s, the view model's joins after 500 ms, mountvol after 5 s: each may
  give up on something that is still going on.
* **State outside the process.** Automount is a machine setting, the key pair
  and the marker are files; the process may die at any time.
* **Queued results.** Role checks and hashes come back through Qt's event queue
  after the operator has gone on.

What makes each component correct: the copy is faithful and ends; a card boots
only if it was verified and customized, and is never left wiped without being
told; a cancel that was accepted is not lost; verdicts and hashes are applied to
what they were computed for; the first-boot trigger is on a card only with
everything it triggers; automount is given back.

## 2. The modules

| Module | Models | Composes |
|---|---|---|
| `ImageCopy` | what `DiskWriter.run` promises | |
| `DiskWriter` | `DiskWriter.run`, thread by thread | shown to implement `ImageCopy` |
| `DiskWriterProofs` | theorems about `DiskWriter` | |
| `CardJob` | what `FlashJob.run` promises | |
| `FlashJob` | `FlashJob.run`, the watchdog, Windows, the operator | uses `ImageCopy` for the copy, shown to implement `CardJob` |
| `FlashJobProofs` | theorems about `FlashJob`, and that it implements `CardJob` | |
| `FlashSession` | `FlashViewModel`, the wizard's steps and dialogs, the window's close | uses `CardJob` for each card |
| `FlashSessionProofs` | theorems about `FlashSession` | |
| `SessionGuard` | automount, its records, and the processes that change them | |
| `SessionGuardProofs` | theorems about `SessionGuard` | |
| `CardArming` | the drive list, step 4's selection, the job's target | |
| `CardArmingProofs` | theorems about `CardArming` | |
| `BootBundle` | the first-boot files, the sector cache under them, the flush and the close | |
| `BootBundleProofs` | theorems about `BootBundle` | |
| `RoleCheck` | the image picks of step 3, their background checks and its gate | |
| `Deployment` | the stored key pair, the hotspot, and what the two cards of a robot get | |
| `FlashInputsProofs` | theorems about `RoleCheck` and `Deployment`: what a flash is given | |
| `CardLetters` | drive letters: the threads that take them, the flash that gives them, and what is plugged in | |
| `CardLettersProofs` | theorems about `CardLetters` | |
| `MC...` | values of the constants for TLC | the module they are named after |

Two chains compose. `FlashSession` uses `CardJob`, `CardJob` is implemented by
`FlashJob`, `FlashJob` uses `ImageCopy`, `ImageCopy` is implemented by
`DiskWriter`: each level is checked against the promise of the next one instead
of its detail. The other modules look at state that the chain abstracts from and stand beside
it: `SessionGuard` at the machine's automount setting, `CardArming` at drive
numbers, `BootBundle` at the sectors of the boot partition, `RoleCheck` at what an
image is for, `Deployment` at what outlives a run of the program, `CardLetters` at
what all drives have in common.

A definition that begins with the comment "Deviation" is no part of the model: it
is what a plausible bug would make of a definition, kept to show that a property
notices it.

### 2.1 DiskWriter

One variable per local of the code: `queue`, `exc` (`self._exc`), `cancel`,
`first` (`first_block_box`), `total` (`consumer_total` and `offset`), `hashed`
(`producer_total`), `dev` (the blocks of the card), and the program counters
`ppc`, `cpc` and `mpc` of the producer, the consumer and the thread that called
`run()`. Every read of the cancel event, every queue operation, every device
write and every place that may raise is a step of its own. A chunk is its number
and device block *b* is where chunk *b* belongs: the properties only ask which
chunk is where. A failing write may leave its block torn.

`put` with a timeout is `PutChunk` when there is room and `AbandonChunk` when the
loop's test sees the cancel; a timeout followed by another try changes nothing
and is a stutter. For the sentinel the timeout does matter, because the queue may
drain between the timeout and the drop: `SentinelFull` and `MakeRoom`.

On a cancel, `MakeRoom` may drop a chunk that the consumer has not seen, and
the consumer may then write chunk *k+1* where *k* belongs. The code accepts that
("the data is being abandoned anyway"), because a cancelled card never gets its
table; hence `InPlace` is about runs not cancelled, and it is `FlashJob` that
shows that such a card does not boot.

`defer_first_block=False` is passed by no caller in `src/` and is left out.

### 2.2 FlashJob

`pc` walks through the phases of `run()`; an exception outside the inner `try`
goes to `recover` (`Abort`), one inside it to `stop` (`Fail`), one while the FAT
is open to `fatclose` (`FatFails`). `result` is what `run()` is going to return:
`"ok"`, or the `sd_state` of its error. `table` is sector 0 of the card, `dev`
the other blocks, `fat` and `cache` the second handle and what was written
through it, `prov` what of that reached the card. `letter` and `bound` are
Windows': the card has a letter, and Windows would give it one when a volume
arrives (automount is on, or a binding is remembered; the two are one variable,
which allows more than Windows does).

The copy is not modelled again: `CopyStep` takes the steps of `ImageCopy`, the
specification `DiskWriter` is proved to implement. A device that stores
something else than it was given is added (`StoreWrongly`), which `DiskWriter`
cannot notice and verify must.

The watchdog thread polls, sees a letter, strips it (a step that may last), and
exits when told. `JoinWatchdog` is a join with a timeout: it goes on when the
thread has exited, or while it is busy stripping.

`WindowsWrites` is Windows writing to a file system of the old table, possible
while the table is the old one and the card has a letter.

`cache` and `prov` know three states, nothing, the cloud-init seed, the whole
bundle, and `part` for a flush that failed half way. The single files are
`BootBundle`'s.

### 2.3 FlashSession

Each slot of the view model, each QML handler and each dialog button is one
action, because the GUI thread runs one at a time. The two workers are not: the
hash worker (`hash`: reading, read, then the result it posted) and the flash
worker (`job`, with its card in `cancel`, `card` and `outcome`, the variables of
`CardJob`) run beside them and post one result each, which a slot handles later.
Everything the operator can do in between is possible in between.

`page` stands for the wizard's steps; steps 1 to 3 are one page, since nothing
in them touches a flash. `made` is a history: the roles whose last card in this
deployment boots, which the code cannot see and `completed` is compared with.
`asking`, `quitPending` and `quitting` are `main.qml`'s: closing the window asks
when a flash is on, and a YES waits for the end of the flash.

`LateYes` lets the operator answer that question after the flash it asks about
is over. The runs set it to FALSE; section 5 says what happens otherwise.

### 2.4 SessionGuard

`automount` and `files` outlive the processes: the setting, the marker and the
marker of an older build. Each launch is a process: a window or a command line.
A window has three threads that run mountvol: `arm` walks through the arming
thread (look for a marker, enable, unlink, migrate, disable, write the marker),
`flash` through a flash worker, which turns automount off on its own, and `life`
through the GUI thread's release and exit. `mountvol` acts and returns in one
step; the record is a step of its own, as is every step a crash could separate.

`Chances` names what may happen. Four are faults: the process is killed,
mountvol refuses, mountvol's 5 s timeout stops it after it has taken effect, the
disk does not take the record. Two are coincidences: `early`, the operator
flashes or quits before the arming thread is done, and `mixed`, a window and a
command line run at the same time.

A second window is turned away by the named mutex of the frozen build; the
message box it shows holds the mutex until it is dismissed, as in the code.
`torn` is a history: automount was turned off and the record of it was lost.

### 2.5 CardArming

`at` is what is plugged in under which number; Windows gives a free number, so
one that was pulled is used again. `rows` and `head` are the list as last
polled. `Refresh` is `refresh()` with the handlers it calls: rows are compared
by number and size only, `countChanged` is handled while the first row is still
the old one, `firstDriveChanged` afterwards. All bindings on a signal are taken
to be evaluated before the handlers that read them, as Qt does. `WRITE`,
the override for fixed disks, `RETRY` and the step buttons are actions; so are
building the job (the number is looked up, and the images' disk is refused) and
opening the device by number later, when the image was hashed.

`aim`, `built` and `asked` are histories: which drive the id was read from,
which drive had the number when the job was built, and which fixed disks the
operator insisted on. `Source` is the drive the images are on and `Resolves`
whether Windows can say so: the code lets a flash go on when it cannot.

The system disk is not modelled, because enumeration never lists it, and neither
are drives that enumeration filters out (for instance by size). An ejected card is
as good as unplugged.

### 2.6 BootBundle

The module begins where the FAT is open and ends with the table or the format:
the customize phase in the grain of files and sectors. `Place` is the order in
which `_write_cloud_init` and `FirstbootBundle.write_to` write. A file takes part
in a sector of the FAT, in its folder's sector and, but for the empty trigger, in
one of its contents; more sectors of a kind would add nothing but more of the
same losses. `cache`, `dirty` and `card` say for each sector which files' parts
are written there; `pend` is the part of a flush that is still to come. The
sectors go to the card in the order of their numbers (`First`), and all that is
known of these is that the FAT comes before the folders and the root folder
before the rest (`HomeAssumption`).

pyfatfs is not under `src/`; what is assumed of it is that it writes through
`RawSectorFile`, that it may flush after any file, and that it looks up names as
`RawFatBootPartition._resolve` asks it to. The self-validation reads through the
cache (`Accepts`), hence it says nothing about the card.

`Faults`: a sector cannot be read, so that a file is cut off in the middle; a
write raises, and that is an error while files are being written and suppressed
in `close()`; a write takes less than it was given, and nobody looks. One write
fault at a time (`lost = {}` in the guards) is enough to tell the outcomes apart.

`hw_layout_master` and `hw_layout_slave` are set by no caller in `src/` and are
left out; the hotspot is always set.

### 2.7 RoleCheck

A check is a thread until it posts its verdict and a queued signal afterwards;
both are a record in `checks`, with the generation it was started for. The GUI
thread applies posted verdicts in any order (`Apply`), which covers the order in
which threads happen to finish. What is at a path is not a variable: `ReadImage`
may find anything, every time, so a file may change between any two reads. How a
marker is parsed is abstracted to its outcomes: right role, refused, none, or the
read failed. `Hint` is what the file's name suggests.

The names of its initial states, its steps and its types begin with "Role", so
that one module can speak of it and of `Deployment`.

`Pick` covers both outcomes of `is_file()`. `judged` is a history: which image a
shown verdict is about and what was there.

### 2.8 Deployment

`file` is the two halves of the key pair in `%APPDATA%`: absent, empty, or a key.
A build of a flash job walks through `pc`: the pair is loaded (or made and then
saved, `priv` and `pub`), the hotspot is saved, the card is flashed. Every step
may fail and the program may end in any of them; a file that was opened for
writing is then empty. A file of a few hundred bytes is one write, so that it is
never torn. `Hold` is another program (a scanner, a backup) that keeps a file open
so that it can neither be read nor written for a while. `Loadable` is what
`load_persisted_pair` looks at: the format of each half and not whether they
belong together.

`robot` is the two cards on the bench, `done` the roles the window has completed
in this deployment. A card flashed by the command line says so in `by`. Three
histories: `carried`, every key on some card of the window; `unread`, a build took
a key file that was there for one that is not; `retyped`, the operator changed the
hotspot's password between the two cards. Which card an operator puts on which
robot is not modelled.

`hotspot.json` is written and read by nobody (`load_persisted_hotspot` has no
caller), so its content is no variable; a failing write of it fails the build.

### 2.9 CardLetters

`slot` is what is plugged in under which number, `at` which volume has which
letter; a medium has one volume here, the one that may have a letter. `thr` are
the threads that take letters: a scan started by the window takes those of every
removable row, the watchdog of a flash those of its target. A thread reads the
letters of a disk, dismounts the volume a letter stands for by then, and deletes
the letter, in three steps between which anything may happen. `job` is the flash,
as far as letters go: what was known of the target when the job was built, the
preparation with its wait gate (one step: the worker does nothing else meanwhile),
the open device, the join of the watchdog, and the three ends: eject or a new
letter, diskpart, or nothing (a cancel after the table).

The number and letter a thread works with may come to mean something else. The
histories record it, so that the properties can say "unless": `reused` (a medium
took a number or letter somebody had read), `late` (a watchdog outlived its join),
`missed` (Windows kept a letter), and `wild`: a volume was lettered without the
rows changing, by automount or because a card was swapped between two polls.
`given` are the letters the program gave to a card that is still plugged in, and
`robbed` says who took one: the watchdog, from any card, or another step of a flash
(the preparation, diskpart, the eject) from a card it was not built for. A scan that
takes one is not recorded: it is meant to strip every candidate.

## 3. The runs

| Run | Checks | Bounds |
|---|---|---|
| `disk_writer` | the copy: faithfulness, no lost exception, the cancel's latency, termination, and that it implements `ImageCopy` | 7 chunks, a queue of 4 (its real capacity), every fault at every point |
| `flash_job` | one card: only verified cards boot, no half-customized card boots, every opened card ends settled, formatting is safe, `run()` comes back, `CardJob` is implemented | 3 chunks, one poll of the gate, every fault but diskpart's |
| `flash_session` | only checked images are flashed, completed roles have cards that boot, the process waits for a flash, a cancel sticks, every flash settles | two deployments of two cards |
| `session_guard` | the defence is not taken from under a window or a flash, a window that quit gave automount back, automount is never off without a record | two windows, two command lines, the four faults |
| `card_arming` | what is written was meant unless its number changed hands, a card put into an empty reader gets armed | a card, a stick with the images, a fixed disk of the card's size, two numbers |
| `boot_bundle` | a card that boots has every first-boot file it needs unless the device lost a sector; the image's Wi-Fi script and a slave's network-config are replaced unless it lost a sector of that file; a master's network-config is exempt | all files, every fault, every set of files the image may bring, one layout of the sectors |
| `role_check` | the verdict shown is about the image picked, nothing found wrong gets past step 3, a check that is waited for ends | two images, one of them with a role in its name, two picks of each role |
| `deployment` | a key that a card has stays in the store whole; the two cards of a deployment share the hotspot and trust each other | three keys, two names, two passwords |
| `card_letters` | nothing else than the candidates and the target is touched, no flash takes a letter given to another card nor its watchdog any given letter, a card at rest has no letter but one it was given | two cards, a fixed disk, two numbers, two letters, two threads, two pluggings |
| `lost_cancel` | violated: a cancel pressed when the hash has read its last chunk is forgotten and the card is flashed | one deployment |
| `trigger_first` | violated: a card boots with the first-boot trigger and without files that it triggers | as `boot_bundle` |
| `late_arming` | violated: a card that Windows letters while the defence is being armed keeps its letter | as `card_letters` |

A violated property states what the code's own comments say; `PROJECT.json`
quotes them under "findings".

Why the bounds are enough.

* With more chunks than the queue holds, the queue fills, drains and the
  sentinel meets it full; the first chunk, a middle one and the last differ.
* In `FlashJob` the copy needs a held-back block, a block already written and
  one still to come, hence three. The wait gate only counts its polls; one poll
  shows the retry and the deadline.
* `FlashSession` starts over with every deployment (`FLASH ANOTHER`); the second
  one shows what is left over from the first.
* `SessionGuard`: what a process leaves behind is a setting and a record, so two
  processes show one finding what the other left; two of each kind show a third
  that repairs it, or is turned away. Launches of one kind are alike, hence the
  symmetry.
* `CardArming`: three drives and two numbers let every drive get every other
  one's number, and a list of two refuse what a list of one would arm. A card and
  a disk of one size are what the list's change test cannot tell apart.
* `BootBundle`: the layout gives the sectors the order in which a fresh card
  fills; the theorems hold for every layout. The faults, the cancel and the
  library's own flushes come at every point.
* `RoleCheck`: two picks of a role make an obsolete check that may answer before
  or after the one that counts; a third would only add another obsolete one.
* `Deployment`: a third key lets a second pair be made after the first was lost;
  keys are never made twice. The theorems hold for any number.
* `CardLetters`: two threads are a scan beside the watchdog, two pluggings a medium
  that goes and another that takes its number or letter. `OneExcuse` follows a
  behaviour through one of the histories at most, and not past a letter that
  Windows keeps or gives during the arming: what excuses a property twice shows
  nothing about it. With the strip after arming made to run, `ArmedMeansStripped`
  holds in the same bounds.

Fairness. `DiskWriter`: weak fairness of each thread, which the operating system
gives; the operator need not cancel. `FlashJob`: weak fairness of the worker and
of the watchdog; that the copy ends is `Termination` of `DiskWriter`.
`FlashSession`: weak fairness of the two workers (a job comes back by
`FlashJob`'s `Termination`), of the slots for their results (Qt's event queue)
and of the process's exit once `Qt.quit` was called. `CardArming`: weak fairness
of the poll, which a timer drives. `RoleCheck`: weak fairness of the checks'
threads and of the slot for their verdicts. `SessionGuard`, `BootBundle`,
`Deployment` and `CardLetters` need none. Nothing is assumed
of Windows or of the operator.

Deadlock is checked wherever the modelled system cannot stop. `FlashSession`,
`SessionGuard` and `RoleCheck` may: the program exits, and every launch ends.
`CardLetters` rests when the list is empty and all pluggings are made.

## 4. What is proved

Every theorem holds for all values of the constants under the named assumptions
of its module, and rests on an inductive invariant `IInv` that is stated at the
head of the proof module. Each action has its own step; the theorems follow from
`IInv` by temporal reasoning.

### 4.1 DiskWriterProofs

For every number of chunks, every queue capacity of at least one and every set
of faults, the copy is well typed, faithful, in place, keeps the table's block
untouched, loses no exception, stops after a cancel and implements `ImageCopy`.

The properties are not inductive: that a returned run is faithful depends on
what is still in the queue. `IInv` adds what the code keeps true all along:

* `SentinelLast`: the sentinel is put once, as the last item, by a producer that
  is done;
* `NoneInvented`: the queue holds chunks the source yielded, in increasing order;
* `Conserved`: until a cancel nothing is lost: what was copied, what is in the
  consumer's hand, what is queued and what the producer holds make up exactly
  the chunks yielded;
* `HeldBackFirst`, `DeviceInOrder`: the held-back chunk is chunk 1 and the blocks
  up to the offset hold their chunks;
* `EndOfStream`: a consumer that stopped without a cancel saw the sentinel;
* `FaultsKept`: a fault that happened is in `exc`, or a flush raised;
* `LateOnce`: the one write that may follow a cancel is the one in the
  consumer's hand.

The refinement maps every step to one of `ImageCopy`'s or to a stutter.

### 4.2 FlashSessionProofs

For any number of deployments: what is in flight is shown as busy, only checked
images are flashed, completed roles have cards that boot, a cancel sticks until
its flash has ended; and, when the quit question is answered in time (`~LateYes`),
the process does not exit under a flash.

That a completed role has a card that boots spans the whole session, so `IInv`
ties together who may be running when: a pending job is waiting for a hash that
is in flight (`PendingHashed`), a flash happens on the operations page only
(`OpsOnly`), the role cannot change under it (`RoleIsOpen`), a job's posted
result agrees with its card (`JobAnswers`), a window that may quit has nothing in
flight (`QuitsIdle`), and a cancel that was accepted is still set (`CancelKept`).

### 4.3 SessionGuardProofs

For any number of launches and any of the four faults: a window that quit gave
automount back, as long as the operator waits for the arming (`Patient`), whoever
runs beside it; and while neither coincidence happens (`Calm`), the defence is not
taken from under a window or a flash, and automount is off without a record only
if it was torn. A coincidence is excluded where the property is false with it, as
section 5 tells.

That automount is given back needs little: whoever turned it off after a clean
quit has not left yet (`Leaving`), and a process that is not on its way out says
how it went (`Stages`). The run leaves `mixed` out for the sake of the other two
properties; for `GivenBack` the theorem says more than the run.

For the rest `IInv` says besides that one window at a time is past the mutex
(`OneWindow`) and no command line beside it (`Separate`), and what the setting is
where a record is about to be written or removed (`MarksOff`, `Cleared`). The lemmas `Alone`, `TurnedOn` and `TurnedOff` carry the
argument: whoever turns automount on is alone.

### 4.4 CardArmingProofs

For any drives, sizes and numbers, however often a number is used again: a drive
that is written under the number it was selected and checked by is neither the
images' disk nor a fixed disk nobody insisted on.

`IInv` says that each id's row was a card or a disk that was insisted on
(`Insisted`), which the handlers keep in whichever order the list's signals reach
them (`AutoSelectSpares`); that nothing is in flight unless the status is busy
(`Settled`); and that the disk the images are on is never what a job was built for.

### 4.5 BootBundleProofs

For any order of the sectors that `HomeAssumption` allows and any faults: a card
that boots has every file it needs, and can find it, unless a sector's last write
was lost. The image's own Wi-Fi script and a slave's network-config are replaced on
the card itself, unless a sector of that very file was lost (`NoForeignNetwork`). A
master's network-config is exempt: the code leaves it, as section 5 tells.

`IInv` relates the card to the cache: a sector that is neither waiting to be
flushed nor lost is on the card as it is in the cache (`Synced`), every file that
was written is whole in the cache (`Kept`), the trigger comes last and only into
a bundle that self-validation let pass (`Handed`), and the table is written only
with the trigger written and nothing left to flush (`Left`).

### 4.6 FlashInputsProofs: RoleCheck

For any images, names and number of picks: the verdict that is shown is about the
image that is picked, and nothing found wrong gets past step 3.

`RoleInv` says why the generation tokens are enough: no check is newer than its
role's token, one with the current token is about the picked image and is being
waited for (`Fresh`), there is at most one such (`Single`), and beyond step 3
nothing is waited for (`Gate`).

### 4.7 FlashInputsProofs: Deployment

For any keys, names and passwords and any number of robots and runs: what is
flashed is in the store, the key that a card has stays in the store whole, and two
cards of one deployment meet.

The properties need what `save_persisted_pair`'s order gives: the public half is
written last, and only when there was none to be read, so that a public half in
the store means a whole pair (`Whole`). `NothingToLose` follows: a pair is saved
only when no card has a key yet, or when a file could not be read. `InHand` and
`Stored` say how far a build has come, `Alike` what the cards of the deployment
got. All but `JobKeysStored` and `TypeOK` are false once a key file that is there
cannot be read (`unread`), see section 5.

### 4.8 FlashJobProofs

For an image of any length, any number of polls of the wait gate and every set of
faults (diskpart's included, which the run leaves out): the card boots only if
what is on it was read back and compared, and only with all of its first-boot
files; it is formatted only when nothing holds it open and its table was not
written; a run that is over has left no card half done; and every step of
`FlashJob` is one of `CardJob`'s or changes nothing `CardJob` can see.

The properties speak of a card that boots, and the table that makes it boot is
written long after what makes that safe. `IInv` carries the facts there, phase by
phase:

* `DeviceStage`, `TableStage`, `ResultStage`: which handles are open, which table
  the card has and which result is settled at which `pc`. A card nobody opened has
  the old table, and the image's table is there from `tablesync` on only;
* `CopyStage`: without a cancel the copy that returned copied everything, and the
  chunk held back is the first;
* `ReadBack` grows with verify: every block before `vnext` is the image's. It
  stays so because Windows writes only under the old table (`scrubbed`), and
  `Verified` is what it has become when verify is done;
* `Customized`: at the end of customize the whole bundle was given to the FAT;
* `Settling`: `mbr_written` is true of the card, and past the inner `try` a job
  without a failure has a complete card, or a cancel that came in time.

Every clause about success says "or cancelled": the cancel may come between any
two steps, and the code stops at the next place that looks. `Settling`, hence
`CardSettled` and the refinement, is for images that yield something
(`NChunks # 0`): an image of no chunks counts its table as written, as section 5
tells. The refinement maps `table`, `mbrWritten` and `result` to `CardJob`'s card
and outcome (`CardState`, `Outcome`), and goes through the actions one by one:
opening is `Touch`, the write of the table `Complete`, the last step of a job
`Succeed` or `GiveUp`.

### 4.9 CardLettersProofs

For any drives, numbers, letters, threads and pluggings: no step takes a fixed
disk's letter or formats one; no step of a flash takes a letter the program gave to
another card, and its watchdog takes no given letter at all (`GivenSpared`); and a
card at rest has no letter but one it was given. Each holds up to the histories that
section 2.9 names. Nothing is said for a given letter against the scans, which take
it when the rows change next.

A thread works with numbers and letters it read earlier, so `IInv` says of each of
them what it stands for now:

* `Shapes` and `JobShape`: what a thread or the flash holds at each of its steps;
  `Plugged` and `GivenInUse`: a medium is in one place, a volume with a letter is
  plugged in, a given letter is in use;
* `Aimed`: a row, a number to be scanned, a letter about to be taken and the letters
  the job knew belong to no fixed disk but the target. It is preserved by every
  step but the arrival of a medium under a number or letter somebody holds, which
  is what the history `reused` records, and for the watchdog the join that gave up
  (`late`);
* `DogAtWork`: a watchdog is the one of the flash that is on, so that it is gone
  when a letter is given. `GivenKept` says what follows: while the device is open no
  letter is given to the target, and none is on the watchdog's list;
* `GivenAimed`: a given letter among those the job knew, or on the disk under the
  job's number, is the card's the job was built for. A card with a given letter
  would have to be pulled, and so lose it, to get under that number;
* `Swept`: with the window up, every letter of a candidate was given to it or is on
  a thread's list, now or when the thread comes to its number. It is kept by the
  refresh, which starts a scan whenever the rows change, and it is why
  `CandidatesStripped` has to ask that nothing was missed and that no volume was
  lettered without the rows changing (`wild`).

`LetterMoves`, `ThreadMoves`, `SlotMoves` and `JobMoves` say once for each variable
what a step can do to it; the parts of `IInv` are then proved from these instead of
from the actions.

## 5. Only model-checked, seen beside the runs, and not modelled

Liveness (`Termination`, `Settles`, `CardGetsArmed`, `CheckEnds`) is checked by
TLC only: it is out of this prover's reach. Every other property of a passing run
is also a theorem: `SessionGuard`'s while no coincidence happens that refutes them, `CardSettled` and
the refinement of `CardJob` for images that yield something.

The code does the following too. No run is spent on it; each can be seen by
changing a constant or asking TLC for the state named.

* *A fixed disk that is armed by its number.* `cardArmed` compares numbers only
  (`ui/qml/Step4Role.qml:71`), and nothing clears the drive id when its card is
  pulled: a fixed disk that gets the number is armed and WRITE enabled without the
  override, though `Step4Role.qml:584-585` has it that the un-overridden fixed disk
  is blocked. In `CardArming`: `page = "role" /\ CardArmed /\ head.drive \in Disks
  /\ head.drive \notin asked`. The ERASE dialog still names the disk.
* *A window closed while it is arming.* `release()` (`platform/session_guard.py:107`)
  does not wait for the arming thread, whose `/N` may come after the quit's `/E`:
  automount stays off, with or without a record. `Chances <- {"early"}` in
  `SessionGuard` violates `GivenBack`; `ui/app.py:231-235` calls the quit "the single
  normal-exit restore point".
* *A mixed key pair.* If one key file is held open when a job is built, a new pair
  is made; saving it may replace one half and fail on the other. The next build
  takes the two halves for a pair, although `core/keygen.py:219-226` says that an
  inconsistent pair is never flashed. In `Deployment`: `pc = "flashing" /\
  pair["priv"] # pair["pub"]`. `TrustKept` and `PairMeets` say "unless" (`unread`).
* *A pair from the command line.* `cli/main.py:129` asks for one card per call,
  "master first, then slave", but every call makes a key pair and a hotspot name of
  its own: the two cards never meet (`CommandLine` in `Deployment`).
* *A wiped card that is called safe.* `core/orchestrator.py:248` opens the image
  after the card was wiped, and an `ImageFormatError` there still carries
  `sd_state` `SAFE` ("Preflight: SD untouched", `core/errors.py:17`). In
  `FlashJob`: `result = "SAFE" /\ opened`.
* *A formatted card that is said to boot.* A bundle that fails its
  self-validation reports `BOOTABLE_NO_FIRSTBOOT` ("OS image valid but firstboot
  bundle incomplete", `core/errors.py:158`), but the error comes before the table
  and the card is formatted. In `FlashJob`: `pc = "ended"`,
  `result = "BOOTABLE_NO_FIRSTBOOT"`, `table = "exfat"`.
* *An image with Wi-Fi settings of its own.* With `astromech_wlan.conf` on a
  golden image, every slave's flash fails its self-validation, and so does a
  master's without Wi-Fi (`core/customization.py:295-299`): the file is refused,
  never removed.
* *A master that keeps the image's network.* `/network-config` is written for the
  slave only, and self-validation lets a master's pass ("Don't tear it down here",
  `core/customization.py:315-319`), although "Master must never carry this file"
  stands a few lines above (`302-303`) and a test calls netplan and NetworkManager
  on one interface "a known race"
  (`tests/unit/test_firstboot_bundle.py:194-196`). A master from an image that
  brings the file boots with it. In `BootBundle`: `table = "image" /\
  role = "master" /\ "net" \in stale`, which `NoForeignNetwork` exempts.
* *A slave that keeps the image's network.* The slave's `/network-config` is checked
  in the sector cache. If the write of one of its sectors is suppressed in `close()`
  or falls short, the card boots with the image's file, or none. In `BootBundle`:
  `table = "image" /\ role = "slave" /\ "net" \in stale /\ ~Whole("net", card)`. The
  same goes for the Wi-Fi script of a master.
* *The role is checked once.* An image replaced under an accepted path is not
  checked again, neither when the same path is picked
  (`ui/wizard_state.py:206`) nor by the flash: `validate_image_role` is called by
  the wizard only, though `ui/qml/Step3Images.qml:23-26` lets unmarked images
  pass "because the FlashJob self-validates". A file that is gone when it is
  picked leaves the status at "none", which NEXT accepts.
* *A command line leaves automount off.* `cli/main.py:150` returns without a
  guard: in `SessionGuard`, `left = "flashed"` and no process alive with
  `automount = FALSE`. It stays off until a window is launched and quit.
* *An image that yields nothing.* `MCFlashJob.cfg` with `NChunks = 0`: the job
  counts the table as written although there was none to write
  (`core/orchestrator.py:331-334`).
* *A number or letter that means another drive.* With `reused` in
  `OthersLeftAlone` dropped, `CardLetters` shows a strip thread, the deletion of the
  scan's letters (`platform/windows.py:322`) and diskpart's `select disk`
  (`platform/windows.py:866`, "never another drive") reaching a disk that was
  plugged in meanwhile.
* *A swap between two polls.* A card of the same size that replaces a row's card
  within two seconds, or the same card put back, keeps its letter: the rows are
  compared by number and size (`ui/drive_list_model.py:97-101`).
* *A letter that was given is taken again.* Every change of the rows starts a scan
  that strips all candidates (`ui/app.py:377-397`), a finished card's letter
  included, if the card is still in its reader when another one comes or goes; so
  does the preparation of the next flash of that card. In `CardLetters`: a `Delete`
  by a thread of kind "scan" with `thr[t].cur \in given`.
* *The watchdog outlives its join.* `core/orchestrator.py:342` waits 2 s; a strip
  may take longer. In `FlashJob`, `watchdog = "strip"` is reachable with `pc` at
  `"visible"`, `"recover"` and `"restore"`: the letter just given to the finished
  or formatted card may be taken again.
* *A late cancel.* The quit dialog promises that "the card will be recovered to
  a clean exFAT volume first" (`ui/qml/main.qml:77-78`). A card whose table is
  written when the YES comes is not formatted: it keeps the image and boots, and
  the view model calls the flash cancelled.
* *The quit question answered late.* `MCFlashSession.cfg` with `LateYes = TRUE`:
  a YES given when the flash is over leaves `quitPending` set, nothing takes it
  back, and the process exits at the end of a later flash, or under one
  (`QuitWaits`; `ui/qml/main.qml:43-47`, `84-88`).
* *A command line beside a window.* `Chances` with `mixed` (`GivenBack` survives it): a window that quits,
  or one that repairs what an earlier run left, turns automount on under a
  command line's flash (`Defended`; `platform/session_guard.py:9-10`).
* *A lost record.* `platform/windows.py:1072-1080` disables automount and then
  records it. A kill in between, a timeout after the effect or a full disk leave
  it off for good. `Recorded` is stated up to the history `torn`, which stands for
  just these three.
* *The card that was just flashed.* If it is not taken out, CONTINUE arms it
  again for the other role: it is the only drive in the list. The ERASE dialog
  is what stands in between.
* *A drive swapped while the image is hashed.* The job's number was looked up
  before; the device is opened by number after (`WrittenWasMeant` says "unless
  its number has changed hands").

Not modelled: the decompressors and their size estimates, the generators of
configuration files, the validators, the parsing of the command line, logging and
redaction, QML visuals, the native DLL, the installer, the scripts and tools. They
are pure functions, formatting, or code outside the program's own core.

## 6. Plan

What is left, in this order; a component's theorems follow it as soon as its runs
pass.

1. **`RawDevice`**: the alignment of the raw device's reads and writes.
2. **Pure algorithms** against a reference definition: the size in a gzip
   trailer modulo 2^32, the first FAT32 partition of a table, the kernel command
   line, the sidecar lookup.
