# fc-preflight: a verification project

`fc-preflight` tells whether a Linux host can run Firecracker microVMs. It
checks the host and climbs the KVM ladder (*preflight*), and then boots real
microVMs whose init is its own binary (*boot*). This directory holds TLA+ models
of it, TLC configurations that check them on small instances, and TLAPS proofs of
theorems about them for every value of their constants.

    tlc -workers 2 -config run_all.cfg Run      # one of the runs of PROJECT.json
    tlapm BootStageProofs.tla                   # one of the proof modules

`PROJECT.json` lists the runs, the source lines behind every definition (`map`),
the hazards, the findings and the theorems.

## 1. The system

One process, mostly sequential: `main` parses flags, runs checks that append to a
`Report`, and exits with a status computed from it. Concurrency starts in the
boot stage, where one goroutine per microVM drives a Firecracker process, and
around each of them move a deadline timer, os/exec's context watcher, the
goroutines of an echo server, the guest, and a signal that may arrive at any time.
Between invocations the artifact cache persists, and so do taps that an
invocation did not get to delete.

| Component | State | Operations | Talks to | What is hard | What makes it correct |
|---|---|---|---|---|---|
| Command line, gate, exit status (`main.go`, `report.go`) | flags, `Report.Results`, `Verdict` | `resolveGuestNet`, stages, `hasBlockingKVMFailure`, `Finish`, JSON copy, exit | everything | the deciding result may come anywhere; early returns; skips that add up to nothing | the status says what the results say; no VM on an unproven host; 0 is evidence, with one exception |
| KVM ladder (`kvm_linux.go`) | the rung reached | six checks, each stopping the ladder but one | `Report`, the gate | "blocked" against "fail"; one rung that does not stop | a rung not climbed blocks the boot stage |
| Host checks (`host_linux.go`) | none | ten checks that read `/proc`, `/sys`, devices, tools and the kernel's config | `Report` | what is absent, forbidden or unreadable looks alike; x86 flags on Arm; a kernel option that no probe answers for | a failure names something the host lacks or hides; a lack of something indispensable fails its own check |
| Boot stage gates (`boot_linux.go`, `runBootStage` up to `MkdirTemp`) | none | privileges, architecture, artifacts, linkage | cache, `Report` | early returns | the stage stops at the first gate that fails |
| Scatter, gather, judgement (`runBootStage`, `judgeOutcomes`) | working directory, `done` channel, `outcomes` | start a goroutine per VM, receive N outcomes, judge | `bootOne`, `Report` | completion in any order; one guest of several in trouble; N of 0 and 1 | every outcome in its slot; verdicts that match the guests; the stage ends |
| microVM driver (`bootOne`) | tap, listener, scratch file, process, pipe, `vmOutcome` | `setupTap`, `echoServer`, `writeScratch`, `writeVMConfig`, start, scan, `Wait`, deferred calls | `ip`, Firecracker, guest, channel | report against deadline against signal against exit; failure half way; order of the defers | nothing taken from a live VM; no tap left; no report lost; true reasons |
| Address plan (`resolveGuestNet`, `vmBase`, ...) | `guestNetBase` | accept or refuse `-guest-net`, carve a /30 per VM | `bootOne` | exact fit, end of the address space, 32-bit sums | disjoint /30s inside the range |
| Artifact cache (`resolveArtifact`, `extractFromTarGz`) | files under `-cache` | look, download to `.partial`, verify, rename or extract | the network, other invocations | a kill at any step; two invocations | what is handed out is the pinned file |
| Echo server and network measurement (`echoServer`, `measureNet`) | two TCP streams | echo, ping-pong, bulk stream with a sink | each other | full socket buffers on both sides; the dial against its clock; the listener closing under a connection | the exchange does not stall; each round trip times its own byte; what is reported was carried; the dial is not given up lightly |
| Guest init (`guest_linux.go`) | the guest's report | mount, probe, measure, print one line, reset | the kernel, the console, the echo server | partial failure still reported; a reset in the middle of the line | one report, and a true one, then a reset; heard if the console keeps up |
| Initramfs writer (`initramfs.go`) | none | cpio archive of the own binary | boot stage, the guest's kernel | alignment arithmetic; an archive that is wrong makes no noise | the kernel finds every file, in an order that works |
| Rendering (`report.go`) | none | layout of text | the terminal | - | - |
| Other platforms (`unsupported.go`) | none | stubs | - | - | - |

## 2. Modules

    BootPromise          what the boot stage promises, nothing about how
      ^ refined by              ^ used by (INSTANCE)
    BootStage            Run                  GuestNet         ArtifactCache
      BootStageMC          RunProofs            GuestNetMC       ArtifactCacheProofs
      BootStageProofs                           GuestNetProofs

    GuestPromise         what the host may expect of a guest
      ^ refined by
    Guest  extends  Initramfs and EchoNet     HostChecks
      GuestProofs     InitramfsProofs, EchoNetProofs  HostChecksProofs

**`BootStage`** is the boot stage from the working directory on. `stage` is where
`runBootStage` is, `pc[i]` where goroutine `i` is in `bootOne`; an action is one
system call or one step that another actor can see (`DelStaleTap`, `AddTap`,
`AddressTap`, `RaiseTap`, `Listen`, `CreateScratch`, `WriteConfig`, `Arm`,
`Start`, `Scan`, `EndOfOutput`, `Wait`, `Unwind`, `TeardownTap`, `Return`).
`tap`, `listener`, `scratch` and `fc` are what the VM owns; `said` is what the
guest printed, `pipe` what of it is still unread, and `err`, `guest`, `code` the
fields of `vmOutcome`; `vmErr` is `vmCtx.Err()`, `cancelled` the run's context.
The environment is `Expire` (the deadline), `Kill` (os/exec's watcher),
`GuestPrint`, `FcExit`, `CloseListener` and `Cancel` (SIGINT, SIGTERM).
`DelStaleTap` may be refused by a done context and its error is ignored, as in
the code; every later `ip` command that fails leaves `setupTap` *before* the
teardown is registered. The deferred calls run last first. `Collect`,
`GatherEnds` and `Judge` are the gather loop and `judgeOutcomes`; with one VM
`bootOne` is called directly, with none `Judge` panics.
At first every tap may exist in any state: an earlier run that was killed
outright left it.

**`BootPromise`** has two variables: how each VM settled and the launch verdict.
`BootStage` implements it under the mapping `Settled` and `launch`/`setup`;
`Run` uses it in place of the VMs, so what `Run` shows of the whole program
rests on a specification that the detailed model is shown to keep.

**`Run`** is the program from flags to exit status. `pc` is where `main` and what
it calls are, `rung` the position on the ladder, `results` the report, and `k`,
`Verdict`, `blocked` the loop of `Finish`. What the host answers is chosen when it
is asked. A result is a check and a status. `checkPlatform` and the checks after
the ladder stand for all host checks of their kind by one result each: only the
presence of a status matters to the verdict. What each of them decides is in
`HostChecks`.

**`GuestNet`** has the accepted forms of `-guest-net`, the refusals, and the
arithmetic by which each `bootOne` carves its addresses, modulo the size of the
address space.

**`ArtifactCache`** is one artifact and the invocations that resolve it. Files are
inodes behind the names `dest` and `dest.partial`, since `os.Create` truncates the
inode a name has while `os.Rename` moves the name: that is what makes two
invocations interfere. `End` ends an invocation at any point, crash included.
`fileHasDigest` is one read. `tarball` tells the Firecracker release (verified as
a whole, extracted over `dest`) from the kernel (renamed to `dest`).

**`EchoNet`** is `measureNet` in the guest and `echoServer` on the host over one TCP
connection. TCP is external: bytes are neither lost nor reordered, and each
direction is a bounded queue (`up`, `down`), the socket buffers of its two ends
taken together; `held` is what `io.Copy` has read and not yet written. A byte is a
byte, so counts are all there is. `step` is where `measureNet` is, `sink` the
goroutine that drains the stream, `listener`, `net` and `echo` the host's socket,
the connection, and the goroutine that copies it. A Write of a block is its bytes
one by one, each when there is room. While the guest dials there is time (`clock`): any
attempt may fail (`DialFails`), be the host reachable or not, after at most `TryFor`
or, if the guest is not run meanwhile, `Longest` (`stalled` remembers that); then
`measureNet` gives up if `Patience` is spent and else pauses. What a failed attempt may
leave half open on the host is not modelled. Besides the two ends move the context
(`CloseEchoListener`, which resets a connection still in the backlog and leaves an
accepted one alone) and the death of the host's process (`HostDies`).

**`Initramfs`** is `cpioWriter` and `buildInitramfs` by offsets: `buf` says where each
entry's header, name and data went, `len` is `buf.Len()`, and `Add` is one `add` (or
`finish`, for the trailer). The second half is external: a kernel that looks at an
offset for a header, computes from its two sizes where data and next header must
be, and unpacks, silently making nothing of a file whose directory is missing. It
aligns by its own definition (`Aligned`), not by the writer's `Padded`.

**`Guest`** joins the two by what happens between: the kernel unpacks the archive and
runs /init, `runGuest` mounts (each mount may fail, and cannot succeed without its
mount point), looks for bound drivers, measures disk and network (`MeasureNet` is a
step of `EchoNet`), prints, sleeps and resets. `line` follows the report: standard
output is the archive's /dev/console, and the UART takes a time that is chosen when
the line is printed (`needed`, up to `Slowest`). `slept` is the time since; `Reboot`
comes when that is at least `Sleep`, whatever the console has got out, and a reset or
a kill before the line is through loses it. It implements **`GuestPromise`**: one
report from `Reports`, once, then the end; or death; or, only if the console takes
longer than the sleep (`prompt` is false), an end unheard. `BootStage` asks less of its
guests (there they may also hang or print garbage), so it does not depend on
`GuestPromise`. The measurements of clock, hash and memory cannot fail and change
nothing here.

**`HostChecks`** is `runPreflight`: `at` is the next check, `adding` the results of the
latest, `failed` the checks that failed. The host is what it lacks (`lacks`), what its
kernel was not built with (`unbuilt`) and what cannot be read of it (`hides`); each is
chosen when first asked for and then stays, so that the config check, which comes
last, agrees with the probes before it. A device node (`kvmnode`, `tunnode`) and the
driver behind it (`kvm`, `tun`) are two features, since `open` tells them apart and the
checks do not always. Of `checkKVM` it has the node and its opening; the ladder is
`Run`'s.

Comments that begin with "Slip:" mark variants of a definition as a plausible
mistake would have it; no specification uses them. They are there to show that the
properties notice: with the variant in the place of the definition, TLC finds the
property violated.

## 3. Runs

| Run | Instance | Shows |
|---|---|---|
| `boot_two` | 2 VMs, guests good / cut off / diskless, any call but `ip`'s may fail, fair | types; reasons are true; no report lost or taken back; checks match the guests; a live Firecracker keeps its devices; taps are removed; outcomes reach their slots; nobody waits in vain and every step leads on; the stage ends; it implements `BootPromise`, liveness included |
| `boot_one` | 1 VM, every call may fail | the direct call; teardown failing; all of the above that apply |
| `guest_net` | 64 addresses, every address and prefix, -1 to 5 VMs | the plan is sound; only ranges too small are refused |
| `run_all` | every stage, arch, privilege, answer; 2 VMs | status matches results; no VM on an unproven host; 0 is evidence, but for `-stage boot` without artifacts |
| `cache` | 1 process, 3 invocations, files of 2 chunks | verified before use; the kernel arrives whole |
| `guest` | 1 guest, 4 lengths of binary, 2 pings, 6 bytes of stream, buffers of 2, 2 and 1, attempts of 0 to 6 with a timeout of 2 and a patience of 5, a console of 1 to 3 against a sleep of 2, every mount, driver, filter and host failure, killed anywhere | the archive reads back; the exchange never locks up, leads on with each step, tells the truth and is not given up lightly; good reports are true; the guest implements `GuestPromise`, liveness included |
| `host_checks` | every host the checks can tell apart, 3 architectures | a failure names a lack; an indispensable lack fails the check that is there to find it, or stands behind something hidden |
| `gap_tap` | 1 VM | *violated*: `bootOne` may leave the tap it created |
| `gap_drivers` | 2 VMs | *violated*: drivers judged on vm0 only |
| `gap_race` | 2 processes, 2 invocations | *violated*: two invocations, one `.partial` |
| `gap_refetch` | 1 process | *violated*: the extracted binary is never recognised |
| `gap_tun` | every host | *violated*: a missing driver is taken for a missing privilege |

Each of the last five states what the README, a comment or a message of the program
says; the finding in `PROJECT.json` quotes it. Eleven more findings have no run: each
is visible in one definition.

**Bounds.** Two VMs are the fewest for which goroutines finish in different orders,
outcomes can be swapped, and one guest can differ from the rest; VMs share nothing but
the channel, the signal and the working directory, so a third adds no new kind of
interaction, and the proofs cover every N. One VM is an instance of its own, since the
code has a path of its own for it. A guest prints at most one report line, because
`runGuest` does. Two chunks let a writer be half way; three invocations are one that
leaves a mess, one that runs into it, and one that runs into what the second made of
it; in `gap_race` two are enough. Six bits of address space hold every relation
between range, alignment and VM count; `RefusedOnlyIfTooSmall` is checked against its
definition by counting /30s. In `guest` the stream (6) is longer than all places a
byte can be in taken together (2 + 2 + 1), so that without the sink every buffer
fills; two pings are one after another. Its times stand for the program's by what fits
into what: several attempts that fail at once, or two that time out, fit into
`Patience`; `Longest` is an attempt that outlasts all of it; the console is slower
than, as slow as, and faster than the sleep. The four lengths of the binary are the
four residues that padding sees, and the names' lengths are the real ones. In the
program `Pings` is 200, the stream 32 MiB, and a binary shorter than 16^8 bytes, so
that a header is 110 bytes. `HostChecks` has no parameters: its kernel versions stand
either side of each threshold. `Chunks` and `Runs` of `ArtifactCache`, `N` of
`BootStage` and the sizes above are the only bounds on behaviour; everything else is
finite because the program is.

**Fairness.** `BootStage!Fairness` asks: `runBootStage` and every `bootOne` that can
move do (the Go scheduler); a timer fires; a process that the watcher kills dies
(SIGKILL); the echo server's goroutine that waits for its context closes the socket.
In particular calls return: a hung `ip` is not covered. Nothing is asked of the guest
(`GuestPrint`), of Firecracker (`FcExit`) or of the user (`Cancel`): `StageEnds` holds
although a guest hangs for ever, because of the deadline alone. `BootPromise` asks
only that it does not stop while it can move. `Guest!Fairness` asks that the writer,
the guest, its sink and the echo server's goroutines move when they can (schedulers on
both sides), and that time passes while `runGuest` sleeps (`ConsoleDrains`). It does
not ask that the console is quick: where the line takes longer than the sleep,
`GuestPromise` lets the guest go unheard. Nothing is asked of `Killed`, `HostDies` or
`CloseEchoListener`, and a dial that fails takes time, so that it fails only so often.
`Run`, `GuestNet`, `ArtifactCache` and `HostChecks` state safety only and need no
fairness.

## 4. Proofs

Proved with TLAPS for every value of the constants, under the assumptions that the
modules name: `N` is a natural number (0 included); `Reports` are records of three
Booleans; `Faults` are kinds of fault; the null values are distinct from what they
stand beside; buffers, chunks, the number of pings, the pause, the sleep and the
console's slowest time are positive; lengths of binaries are natural numbers; the
address space and the block sizes are such that blocks tile the space, as powers of
two do.

* `BootStageProofs`: `TypeCorrect`; `Invariance`; from it `DevicesOutliveVMs`,
  `TapsAreRemoved`, `GatherIsFaithful`, `ReasonsAreTrue`, `ReportsAreKept`,
  `ChecksAreRight`, `StageNeverWaitsInVain`; the action properties `ReadReportsStick`
  and `StageMovesOnward`; `StageKeepsPromise`, the safety half of the refinement, and
  `VerdictIsTheVMs`, which follows from `BootPromise` alone.
* `RunProofs`: `TypeCorrect`, `Invariance`, `ExitIsTruthful`,
  `NoBootOnUnprovenKVM`, `ExitZeroIsEvidence`.
* `HostChecksProofs`: `HostInvariant`, `TypeCorrect`, `FailuresAreReal`,
  `LacksAreCaught`.
* `GuestNetProofs`: `PlanIsSound` and `PlanIsTyped`, by arithmetic lemmas on aligning
  to a block; `RefusalIsJust`, by counting the /30s of a range and the pigeonhole
  principle.
* `ArtifactCacheProofs`, for any number of invocations at a time: `SharedInvariance`,
  `CacheTypeCorrect`, `WarmCacheServesAll`; for one at a time (`Proc = {me}`):
  `CacheInvariance`, `HandsOutTheVerified`, `KernelArrivesWhole`. With two processes
  the last two are false, as `gap_race` shows.
* `EchoNetProofs`: `NetInvariance`, `ExchangeNeverStuck`, `RoundTripsAreTimed`,
  `ThroughputIsReal`, `GivesUpAfterAll`, and the action property
  `ExchangeMakesHeadway`.
* `InitramfsProofs`: `ArchiveInvariance`, `ArchiveReadsBack`.
* `GuestProofs`: `GuestRunsItsParts`, that a guest's behaviour is one of `EchoNet` and of
  `Initramfs`, from which `GuestNeverStuck`, `GuestMakesHeadway`, `GuestMeasuresTruly`
  and `GuestReadsBack` are the theorems of those two; `GuestInvariance`,
  `GuestTypeCorrect`, `GoodReportsAreTrue`, and `GuestKeepsPromise`, the safety half of
  the refinement of `GuestPromise`.

**The invariant of `BootStage`.** None of the properties is inductive: "a running
Firecracker has its tap" says nothing of a VM about to be started. `DeviceInv` says
what a VM owns at each point of `bootOne`; it needs `StageInv`, because only where
the stage is says that the working directory is there. `GatherInv` is the exact
account of the channel: what lies in it is from a goroutine that has returned, no
VM is in it twice or in it and gathered, and `received` counts the gathered. From
`received = N` and the cardinality of the gathered set follows that none is
missing when `judgeOutcomes` reads. It also says that a goroutine that has returned
has its outcome in the channel or gathered, so that the loop never waits for
nobody; and since those in the channel are distinct VMs other than the sender,
there are fewer than `N` of them when `bootOne` sends (`RoomInChannel`).
`ReportInv` follows a report from the guest through the pipe to the outcome;
`ChecksInv` then relates the checks to what the guests said. Each step of `Next` is
one case, and frame lemmas say what a step of one VM leaves alone of another.

**The invariant of `Run`.** `LadderInv`: up to the gate, each rung below `rung` is on
record as passed or a blocking failure is; past the gate there is none. `FinishInv`:
`Verdict` and `blocked` are those of the first `k` results, an induction over the loop
of `Finish` that needs no recursive definition. `RecordInv`: at every point either
trouble (a Fail or a Blocked) is on record or the evidence so far is, or, once, the
boot stage was skipped before it had anything to show. All rest on reports only
growing (`Extends` and its lemmas).

**What can be proved of progress.** That the stage ends, and that the exchange does,
is liveness, which the prover cannot reach. What it rests on is safety and is
proved. `StageNeverStuck` and `NeverStuck` say that somebody can always move, by
conditions written out from the guards and not by ENABLED; for a `bootOne` that cannot,
that its deadline, the watcher or the process's death frees it. `Onward` and `Headway`
say that no step goes back and each goes forward in an order that has a top, which
for the exchange is a number (`Work`). Left to TLC is the step from there to
"ends", where fairness enters.

**The invariant of the host checks.** `FailureNamesALack` is about what a run has
found so far, which grows; `LackIsFailed` is about its end. `HostInv` keeps the first
for every failed check (`Explained`) and states the second (`Judged`) for each
indispensable feature from the check on which is there to find it (`FoundBy`, with
`Behind` for what may hide it). The host is not a constant but
is chosen as the checks ask, so TLC's run has met every host too; the proof, one lemma per
check, shows why it finds nothing.

**The invariants of the cache.** `SharedInv` is what any number of processes keep: the
two names are never one file, and a process has open what it reads or writes. There
is always a free inode, because a name or a process holds one each and there
are more (`FreeIsFree`, by cardinality). `Served` is inductive too: a whole kernel
under `dest`, and nobody beyond the look at it, means nobody goes beyond it. For one
process more can be said. What is open decides what may change: `Descriptors` says
that a process has open for writing exactly the `.partial` while it copies and
exactly `dest` while it extracts, `Apart` that these are two files, and `Contents` that
the prefix up to `pos` holds what was received. At the end of a copy the prefix is
the whole file, and `Verify` makes "received" into "pinned". The single process
enters twice: nobody else writes to these inodes, and there is a free one.

**The invariant of the exchange.** `Carried` is conservation: what the guest has sent
is on its way up, in `io.Copy`, on its way down, or back. `NeverStuck` is a
consequence: a guest that cannot write has `up` full, an echo that cannot read holds
bytes, one that cannot write has `down` full, and then the sink can read. `Stages`
ties this to the state of the connection, `Ends` to that of the two programs.
`Bounded`, that the bytes under way and back are no more than the pings and the stream,
makes the bound of `Headway`. `Dialling` keeps account of the time: unless an attempt
stalled, `tries` of them have taken at most `tries` timeouts and pauses, from which
follows how many there were when `Patience` was spent (`GivesUpAfterAll`).

**The invariant of the archive.** `Layout`: every entry's header lies where the previous
entry's data, padded, ends. `Progress`: the kernel's `pos` is the header of the entry
after those it has unpacked, and these are the entries in order. The kernel's
alignment is shown equal to the writer's padding for every number.

**The invariant of a guest.** Those two, and: `Spoken`, which says what has become of the
report at each point of `runGuest`, and that a line still on its way after `slept` needs
longer than that; `Grounded`, that what is in the report was found. To run at all a
guest needs `reader = "done"` and so a console; a reset comes after the sleep; hence
a report that has arrived, or one that needed longer than the sleep.

**Only model-checked.** `StageEnds`, `EchoLetsGo` and the liveness halves of
`PromiseKept` and `KeepsGuestPromise`: liveness under fairness is beyond the prover.

## 5. What is left out

* The text of results, timings, statistics over VMs, the console tail, rendering:
  nothing branches on them.
* What the host checks only record: CPU identity, flags, module parameters, sizes.
  Files are read or hidden; how their text is parsed is left out.
* The figures that the guest measures, and the clock, hash and memory measurements
  altogether: they cannot fail and nothing branches on them.
* A network path that dies in the middle of the exchange: reads and writes there have
  no deadline, so the guest waits until the host's deadline kills it (`Killed`).
* The host's end of an exchange whose guest was killed: it sends no orderly close, so
  the connection and its goroutine stay until `fc-preflight` exits (`EchoLetsGo` is about
  a guest that closes).
* Modes, inode numbers and device numbers of the archive's entries.
* A console line longer than 1 MiB, which would end the scan loop early: the
  guest is this same binary and a kernel that print no such line.
* A write error that only `Close` reports (`resolveArtifact` does not look at what
  `f.Close` returns): the digest is of the stream, so such a file would pass.
* A negative `-vms`, at which `make` panics before anything is started (`N` is a
  natural number; `GuestNet` does have negative counts).
* A second invocation beside `BootStage`: it uses the same tap names and deletes the
  first's taps. Nothing in the code or its documents speaks of it.
* Rendering of the report and the stubs for other platforms: no state changes.
* Signals before and after the boot stage: the preflight does not look at the
  context, a download that is interrupted fails like any other (`Fetch`, `Copy`),
  and `Run` has those failures as answers.

## 6. Plan

Order: the most important behaviour first. Steps 1 to 9 are done.

1. `BootPromise`, `BootStage`, runs `boot_*`, proofs.
2. `GuestNet`, run `guest_net`, proofs.
3. `Run`, run `run_all`, proofs.
4. `ArtifactCache`, runs `cache`, `gap_race`, `gap_refetch`.
5. `ArtifactCacheProofs`.
6. `EchoNet`, `Initramfs` and `Guest` with `GuestPromise`, run `guest`, proofs.
7. `HostChecks`, run `host_checks`.
8. Proofs of `GuestNet`'s `TypeOK` and `RefusedOnlyIfTooSmall`.
9. Proofs of `HostChecks`; of `ArtifactCache` for any number of invocations; of the safety
   that termination rests on (`StageNeverStuck`, `Onward`, `Headway`); the theorems of
   `Guest`'s parts carried over to it.
10. Open: a theorem that what `GuestPromise` allows, the environment of `BootStage`
   allows; `BootStage` beside a second invocation that deletes its taps; the ladder of
   `Run` and the checks of `HostChecks` in one report.
