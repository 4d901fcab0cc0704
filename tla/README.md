# Verification of tdx-tools

TLA+ models of the parts of tdx-tools that keep state: the guest factory of
pycloudstack, the definitions and addresses of its guests, its KubeVirt back end,
its command runner and artifact cache, the UEFI variable store and the secure-boot
tool, and the measurement registers, event log and quotes of a TD.
TLC checks the modules on small instances; TLAPS proves every safety property that
the passing runs check, the refinement of the abstract variable store included, for
every value of the constants. `PROJECT.json` maps each
definition to the lines it models and lists runs, mutants, findings, hazards and
theorems.

To check a run: `tlc -config VarStore.cfg MCVarStore`. To check proofs:
`tlapm VarStoreProofs.tla`.

## The system

| Part | State | Operations | What is hard |
|---|---|---|---|
| pycloudstack `VMGuestFactory`, `VMGuest`, `VMMLibvirt`, `VMImage` | registry of guests, keep marks, libvirt domain, disk, XML and log files | new_vm, create, start, suspend, resume, reboot, shutdown, wait_for_state, ssh_run, destroy, remove, removeall | libvirt state is read, then acted on; every error of a teardown is swallowed and the next step goes on |
| pycloudstack `NativeCmdRunner` | child process, two pipes, `_process`, `_is_terminate`, `_retcode` | runwait, runnowait, terminate | caller, runner thread, killer and child are four actors; pipes have a limit |
| pycloudstack `Artifact` | cache file, unpacked file, destination file | get, download | failed or killed calls leave files that later calls see |
| pycloudstack `VMMLibvirt.get_ip`, `wait_for_ssh_ready`, `ssh_run`, `scp`, `VirshSSH` | the remembered address | look up, wait, connect | guests change addresses while the host's ARP table lags behind |
| pycloudstack `ClusterBase`, `KubeVirtCluster`, `VMMKubeVirt` | Kubernetes objects | wait loops, create, launch, shutdown, reboot | declarative state: a request and its effect are apart |
| pycloudstack `VirtXml`, `KernelCmdline` | template files, a tree and a file per guest, command lines | clone, setters, save, edits | every setter writes a file and may fail unseen; templates and one default command line are shared |
| pycloudstack `dut`, `msr`, `registry`, `util` | | reading sysfs and MSRs | no state |
| ovmfkeyenroll `var_enroll` | list of variables, firmware image | add, append, delete, update, sync | list, image and region size must agree; errors are swallowed on the way up |
| ovmfkeyenroll `secure_boot` | input, temporary and output image | PK, KEK, db, dbx, SecureBootEnable in a chain | a chain on a temporary file that survives failures |
| pytdxattest `RTMR`, `TDEventLogActor`, `VerifyActor`, `extend_ima` | registers, event log, parsed events | extend, process, replay, verify, dump | registers change while the log is replayed; lengths and indices of the log |
| pytdxattest `DeviceNode`, `TdReport`, `TdQuote`, `CCEL` | request buffer, output file | report and quote ioctls | the answer comes in the buffer of the request; registers change in between |
| full-disk-encryption (Rust) | key, mapped disk | fetch key, open disk | one pass over external services |
| td-migration scripts | monitors of two QEMUs | pre-mig, connect, mig-flow | order of commands, fixed sleeps |
| start scripts, tests, deploy, attestation services, build | | | no logic of their own, or third party |

The parts meet in few places. Every libvirt tool call and SSH command of
pycloudstack goes through the command runner. Artifacts become the disk images
and kernels of guests. `secure_boot` calls `var_enroll` once per key on one
temporary file; `SecureBoot` therefore EXTENDS `VarStore` and runs its actions.
Verification of registers and quotes read what firmware, kernel and `extend_rtmr`
wrote; `Quote` therefore EXTENDS `Measure` and runs beside its extenders.

What makes each part correct: a guest's disk is never deleted under a live
domain and a removed guest leaves nothing behind; a command's status and output
are those of the child, and a kill ends its runner; a file handed out by the cache is
complete and current; a firmware image is a map, changed by one request at a time; an
output image is written only when all keys are in, and never gets one it was not given; a register passes
verification exactly when nobody touched it; a quote is the answer to the request
that was made; a guest's definition is what its options ask for and no guest
changes what another is made from; whoever is reached at an address is, or was, the
guest; a cluster ends up where the last call wanted it.

## Modules

**VmLifecycle** (vmguest.py, vmm.py, vmimg.py). One thread, a test, calls the
factory. `pc`, `cur` and `opts` are its place in a call: each libvirt call and each
file deletion is a step, because the guest may power off and libvirt or the OS may
refuse between any two. `dom`, `persistent`, `images`, `xmls`, `logs` are what
libvirt and the file system hold; `vms`, `keep`, `keepIssue` are the factory's.
`refused` and `failed` are history. `wait_for_state` is `WaitCheck`/`WaitCompare`
with `WaitLimit` polls. A guest may be removed twice, as `remove()` looks at no registry,
and `ssh_run` may begin a command while earlier ones run (`beside`) or get no address at all.

**CmdRunner** (cmdrunner.py). `runner` follows `_execute` line by line: Popen, the
assignment of `_process` (a step of its own, `terminate()` may come before it),
reading stdout to its end, then stderr, poll, return code, closing, waiting. The
child writes lines into pipes of `PipeCap` lines and blocks on a full one. Popen may
raise, and so may the decoding of a line: `_execute` ends, and the return code stays None
(`raised`). A shell that is killed may leave processes behind that keep the pipes open
(`heirs`). `Commands` says how much is written, and whether the command ends by itself;
`MCCmdRunner` gives three.

**VarMap**, **VarStore** (var_enroll.py). `VarMap` is the promise: each file is a
map from name and vendor GUID to data, a request is refused or applied at once,
and where writing may fail the map being written may lose entries. `VarStore` is
the tool: read the image, walk the region entry by entry, check the arguments,
change `vars_list`, lay it out, open (which empties the file) and write. Sizes are
in units, one for header and name and one per payload; certificates and
signature lists are payloads with an owner. The key names are told apart by `Canonical`,
which folds every spelling; a store of a foreign signature is refused. `Torn` is what a failed write leaves.
The refinement mapping counts a file that is open for writing as written.
`NeverFull` says that no image that is read has variables behind the end of its region,
where the walk stops; `Data` is what a list says, and `CallInv` what a call in progress
has made of its input.

**SecureBoot** (secure_boot.py) runs that tool on the temporary file for every key
of a command line, with copies that fail before or after the destination was opened, a
temporary file that cannot be removed, and kills at any step. The result of
`do_var_enroll` is `outcome`; `clean` remembers that no I/O has failed in this run.
The tool checks no size (var_enroll.py:470), so `RoomAssumption` says that an image leaves
room in its region for the five variables of a run. `AllEnrolled` is about the variables
and about what follows the region.

**Artifact** (artifacts.py). Calls of `get()` one after another; `cache`, `ext`
(the unpacked file) and `dest` are missing, partial or full with a version. A copy that
fails leaves its destination as it was or cut.
Time stamps are the one comparison the code makes: `newer`. Whether the source is an
archive and whether the checksum is pinned is chosen at the start. `verified`,
`since` and `spoiled` are history.

**Measure** (actor.py, tdeventlog.py, rtmr.py, extend_ima.py, cli.py). A register is
the sequence of digests it was extended with (SHA-384 is taken to be free of
collisions). The firmware, external, extends what it logs. `tdx_extend_rtmr`,
`extend_ima.py` and one command, `tdx_eventlogs` or `tdx_verify_rtmr`, run side by
side; `process()` takes one entry per step. `Booted` is the reference that the
replay, which goes through `events` as the loop of `_replay_single_rtmr` does (a
recursive function), is compared with. It is given by `Boot`, the registers after each
entry of each log, of which `FirmwareAssumption` says that the firmware extends
the register of every event that it logs. `extend_rtmr` raises when its hex string is bad
or when it is given nothing.

**Quote** (utility.py, tdquote.py, cli.py) EXTENDS `Measure`: `get_quote` makes a
report with the registers of the moment, sends it in a buffer and unpacks what the
service, external, left there: a quote, an error or another message with any body, an
answer with the wrong length, or the request itself. A message is its lengths, whether
version or type is right, its error code and a body. `output` is the file of `tdx_quote`,
whose write may be cut off. Programs that only read write
nothing another reads, so one of them runs in a behaviour, beside the extenders.

**Cluster** (cluster.py, VMMKubeVirt in vmm.py). A call is the sequence of its requests
(`call.todo`), most of them ending in a poll loop whose own counter is the time
(`call.elapsed`). `obj`, `vm` and `vmi` are the API server's objects, the TDVM and its
instance. The controllers are external: they bring objects up, let a job fail before it
succeeds (which the poll never takes for success), finish deletions, start
and stop instances and report their status with a delay. One request may be refused or
lost. `standing` and `want` are history: what the calls have reported and asked for.

**KernelCmdline**, **DomainXml** (vmparam.py, virtxml.py, `_prepare_domain_xml` in
vmm.py). A command line is a sequence of fields, of which one may be text inside another.
A guest's tree is its text elements, disks, elements that are there once and lists.
`PrepareSteps` are the setters that the options lead to, made in the sequence `Order`;
each changes the tree and saves it to the file it is associated with; a write may leave
the file as it was or empty. `todo` are those still to be made. A constructor ends early
in two ways: `Raise`, an operation of VirtXml fails on the template or the tree, and `Refuse`,
the arguments fail an assertion (one cpu id, the size of huge pages, the image, the kernel,
the EPC sections) or the host lacks libvirt or a file that is read.
`tainted` remembers that a clone could not be saved, `put` the fields ever written to a
command line; both are history.

**GuestNet** (get_ip in vmm.py, vmguest.py). One test, its guest `Me` and another one
that share addresses. The network is external: leases, guests that leave, a lagging ARP
table; an address without an owner costs a short or a long try, a guest may refuse a login.
`given` and `steady` are history: the addresses the guest has given up, and whether it has
been reachable since the present round of the wait began.

The `MC` modules give constants their values. Operators whose comment begins with
"Mutant" are faults put in to see that the property would notice; no
specification uses them.

## Runs

| Run | Checks | Bounds, and why they are enough |
|---|---|---|
| vm_lifecycle | `ActiveHasDisk`, `FailedIsKept`, `CallsReturn` | one guest, all calls, one fault, two polls: guests share only the caller and the registry |
| vm_teardown | `UnregisteredLeavesNothing`, `KeptVmStays` | two guests and one caller's disk, so that removeall() loops and a disk is shared; one fault |
| cmd_runner | `RetcodeIsExitStatus`, `OutputComplete`, `Completes`, `KillEndsRunner` | pipe of one line; a command with three lines on stdout, which fills, blocks and drains it; one that never ends and overfills stderr, which only a kill ends; one that a shell runs |
| cmd_pipe | violates `RunwaitReturns` | two lines on stderr, one more than the pipe |
| var_store | `FilesUnique`, `OnePlatformKey`, `ImplementsMap`, `CallReturns` | two files, keys under both spellings and GUIDs, a plain variable, a deleted entry in front of a live one, failing opens and writes; at most two payloads appended |
| secure_boot | `SuccessMeansEnrolled`, `OutputOnlyComplete`, `OutputOnlyGiven`, `RunEnds` | full and partial command lines, a refused one, one fault or kill, any number of runs; a region of 14 units, the least in which the used image leaves room for the keys |
| artifact | `ReturnedFresh`, `GetEnds` | three versions, any number of failures and kills; all five retries |
| measure | `VerdictExact`, `ReplayIsBoot`; `QuoteIsAnswer`, `OutputIsQuote`; `ReadersEnd` | eight logs: ordinary, filling the area, too short, empty, without header, an event without data, indices 0 and 5; two extensions at any moment. One quote, beside one log, which it does not read; report data that just fits and too long; all devices and answers |
| measure_ima | violates `ImaAnchored` | the same |
| cluster | `CreatedStays`, `DeletedIsGone`, `StartedIsUp`, `CallsEnd`, `Converges` | three calls, enough for a delete that times out, a create on what is left and a start; one fault; interval and timeout from 0 to 3, so that either is the larger one |
| domain_xml | `TemplateUntouched`, `DefinitionMatches`, `FileIsDefinition`, `RootIsDistro` | two guests that nothing tells apart (symmetry), nine sets of options that use every setter and kind of template and fail every assertion, one edit, one write that fails |
| guest_net | `ReachedIsOwn`, `ReadyIsSeen`, `CallsEnd` | two guests, two addresses, three leases, so that an address changes hands; two calls, so that an address is remembered; a timeout of three, so that there is more than one round, the last of which outlasts it; a clock that counts to `ClockCap`, beyond the timeout |

The runs of VmLifecycle, CmdRunner, VarStore and Artifact also check the type invariant;
that of every module is proved. Every property of a passing run has a mutant. Deadlock is checked
except where the system may stop: a factory whose guests are all used up, a
command that has run, a test that has made its calls.

### What the violated runs show

- **cmd_pipe**: `_execute` reads stdout to its end before stderr
  (cmdrunner.py:115), so a child that fills its stderr pipe and its runner wait for
  each other. `runwait` says "Run until the command executing completed".
- **measure_ima**: `extend_ima.py` passes `""` for the string argument, which
  `extend_rtmr` prefers to the digest: the register gets the hash of the empty string.

### Divergences seen and not made into runs

- `sync_to_file` copies the blob to the start of the region without comparing sizes
  (var_enroll.py:470): a nearly full store overwrites what follows it. `tail` in the model.
  `RunsFit` proves that runs of secure_boot, failed and repeated ones included, stay within
  the region of an image that had room for their five variables.
- A write error becomes False in `sync_to_file`, True in `var_enroll`, and "successfully
  enrolled" in the end: a key whose file could not be opened is missing from an output in
  which secure boot is switched on. `SuccessMeansEnrolled` and `OutputOnlyComplete` are stated
  for runs without one; `OutputOnlyGiven`, that nothing but the input's variables and this run's
  keys gets into the output, holds for all.
- A command that cannot be started, or output that cannot be decoded, ends the runner's thread,
  and `runwait` returns None (cmdrunner.py:109, 115, 118); `RetcodeIsExitStatus` says that None
  means just that, unless somebody has called terminate().
- A process that a shell leaves behind keeps the pipes open, and a killed command's runner reads
  on until it ends (cmdrunner.py:110).
- After the fifth download the loop ends on its counter and the file is used unchecked
  (artifacts.py:181). `verified` is then false, and `ReturnedFresh` says nothing.
- A quote response with an error is taken for a quote, whatever its body is, and `tdx_quote`
  writes it to its output (utility.py:260, an `and` for an `or`). `QuoteIsAnswer` speaks of
  messages with the version and type of an answer and no error; of the others it says
  that they came from the service.
- A job that failed once and then succeeded is never reported as done (cluster.py:262).
- On a 1.5 device `get_tdquote_bytes` raises KeyError, not None (utility.py:282); report
  data that is too long ends in a TypeError of ioctl (utility.py:177).
- `reboot()` of a TDVM may return at once, on the report of the instance that is to stop;
  if the controller sees neither patch, nothing is rebooted (vmm.py:640).
- A TDVM without a status yet makes `wait_for_tdvm_ready` and `state()` raise KeyError.
- A wait for a deletion takes any ApiException for "not found" (cluster.py:122).
- After a clone that could not be saved every setter writes to the template and destroy()
  removes it (virtxml.py:422). `TemplateUntouched` is stated without such a clone.
- The default `KernelCmdline()` is shared: after an ubuntu and a centos guest the next
  ubuntu guest boots from the root of centos (vmguest.py:74). The field is added before the
  assertions, so a guest that was refused leaves it, too. `RootIsDistro` is about objects to
  which one root only was ever written.
- `bind_cpuids` adds pins to those a perf template has already.
- A forced `get_ip` returns the old address when the table has no entry (vmm.py:457, 484),
  and the SSH banner of whoever has that address now counts as the guest's.
- `VMMLibvirt.create` ignores `stop_at_begining` (vmm.py:320, 326).
- `ssh_run` without waiting compares a return code of None with 0, so the guest is
  marked to be kept whatever the command does (vmguest.py:170). The model has it;
  `FailedIsKept` holds because of it.
- A disk image given by the caller is deleted with the first guest that used it
  (vmguest.py:609).
- `terminate()` before `_process` is assigned signals nobody (cmdrunner.py:90).
- `update` under an owner GUID finds no key, changes nothing and returns True
  (var_enroll.py:835); `VarMap` allows it as a refusal.
- `find_var_info` never moves its offset: an image that does not begin with the
  NVRAM volume is searched for ever (var_enroll.py:621). `Spin` in the model; it is why
  `CallReturns` speaks of images that begin with that volume, and why `RunEnds`
  allows for a run in which a write has failed. `RunIsBounded` proves that only such a run
  gets there from an image that begins with the volume.
- An input file without extension makes the output path equal to the temporary one, and
  `copyfile` raises (secure_boot.py:210). `outPath` in the model.
- A call that dies, or whose checksum fetch raises, after it has replaced an archive
  leaves the old unpacked file in use for ever, and a copy that is cut off leaves a
  destination that looks up to date (artifacts.py:194, 209). `spoiled` in the model
  marks just these histories, and `ReturnedFresh` is stated without them.

## Fairness

Each specification has weak fairness on the steps of a call that has begun: a
thread that is not blocked goes on. Nothing is fair about the callers, the guests,
faults, kills or the server. In `VmLifecycle` an SSH command may never end. In
`CmdRunner` the child goes on when it can, and ends by itself only if its command does
(`ends`); a signalled child dies. No liveness property needs strong fairness, and none assumes
that the network, the disk or libvirt ever works; that a call to them returns, with an
error or without, is assumed: a libvirt call, a request, `arp -a`, a connection attempt. In `Cluster` the controllers are
weakly fair, each by itself: that Kubernetes goes on is what `Converges` is relative to,
and `CallsEnd` does not need it. In `Quote` the ioctl returns.

## Proofs

Each proof module EXTENDS its component and TLAPS, proves that every action keeps
an inductive invariant `IInv`, and draws the theorems from it.

- **VmLifecycleProofs**: any guests, disks, limits and number of faults.
  `ActiveHasDisk`, `UnregisteredLeavesNothing`, `FailedIsKept`, `KeptVmStays` and types. The
  properties are not inductive: `DestroyInv` says how far a teardown has come and what
  it has dealt with by then, `CallInv` and `NewInv` what the call in progress may be
  about, `KeepInv` that a removal never begins on a guest to be kept.
  Assumes that guests, disks and the placeholders differ.
- **CmdRunnerProofs**: any pipe size and any commands. `RetcodeIsExitStatus`,
  `OutputComplete` and types. `OutputInv` tracks lines as collected or
  in the pipe, `ChildInv` ties return codes to dead children, `UndisturbedInv` is what
  holds while nobody has called terminate().
- **VarStoreProofs**: any names, files, requests and capacity, with failing writes.
  `FilesUnique`, `OnePlatformKey` and types; under SecureBoot's runs, too, which may be
  killed at any step (`RunsKeepFiles`), and whose input is never written (`InputIsKept`).
  The invariant carries both from the files to the image that was read and to the list;
  `WalkInv` (what the walk has collected are the live entries behind the cursor) keeps the
  list free of duplicates while it grows. Assumes (`InputAssumption`) that the images the
  firmware wrote have no duplicates, a single PK and no variable without data.
  The refinement (`RefinesMap`: `Spec /\ []NeverFull => ImplementsMap`) goes through
  `CallInv`: after the walk the list says what the image says (`WalkedSays`), deleting and
  adding change what it says at one key (`WithoutSays`, `AddSays`), and a torn write says
  less (`TornSays`). Opening the output is the step that applies the request.
  `SuccessIsEnrolled` and `OutputIsComplete` (`SuccessMeansEnrolled`, `OutputOnlyComplete`)
  follow from `EnrolInv`: after each key the temporary file is the input with the keys up to
  that one. `OutputIsGiven` (`OutputOnlyGiven`) needs less and holds with failures: the temporary
  file never has a variable that neither the input nor this run's keys so far account for.
  The refinement has `[]NeverFull` as a hypothesis because it is false
  without: variables behind the region's end are not walked and are lost (see the
  divergence on var_enroll.py:470). For the runs of secure_boot it is proved (`RunsFit`), from
  `RoomAssumption` on the images alone. A sum of sizes would be an induction over a sequence,
  so `Fits` asks for a layout instead: offsets at which the variables stand one behind
  the other. Walk and layout step along such a function, deleting and adding make a
  new one, and `RoomInv` says within how many units there is one before each key (`Room`),
  also after a failed write, which leaves a shorter list.
- **ArtifactProofs**: any number of versions. `ReturnedFresh` and types. `ExtMatches`
  and `DestMatches` say that what was unpacked and copied is what it came from unless a
  flag or a time stamp says otherwise; `CheckHolds` that a checked file stays checked.
- **ClusterProofs**: any number of calls, faults, instances and any values given to the
  setters. `CreatedStays`, `DeletedIsGone`, `StartedIsUp` and types. `CallInv` says which
  steps a call may still have and that nothing is known of an object while a call is about
  it; `InstanceInv` that since a fresh start began an instance is a wanted one and a
  report of readiness is about it.
- **GuestNetProofs**: any addresses, limits and number of leases. `ReachedIsOwn` and types.
  `AddressInv` says that what the ARP table gives for the guest, and what is remembered,
  is an address it has or had. `ReadyIsSeen` follows from `SteadyInv`: as long as the guest
  was reachable since a round began, that round has all its tries and is on its way to the guest.
  Assumes that the two guests and None differ, that limits are positive and that the
  model's clock reaches the timeout.
- **QuoteProofs**: any logs, digests, requests, report data and number of extensions, for
  `TdSpec`, in which the quote runs beside the programs of `Measure`. `VerdictExact`,
  `ReplayIsBoot`, `QuoteIsAnswer` and `OutputIsQuote`. `EventsInv` says that the events kept so
  far replay to what the firmware had measured after as many entries; it speaks of every
  function that satisfies the equation of the replay (`ReplaysTo`), so that the induction
  over the log is the one over the steps of `process()`. `Beyond` relates the registers to the number
  of extensions, `BufferInv` and `ReportInv` say whose answer is in the buffer. Assumes
  `FirmwareAssumption` and the shapes of logs and requests.
- **DomainXmlProofs**: any guests, options, fields, edits and number of failed writes.
  `TemplateUntouched`, `DefinitionMatches`, `FileIsDefinition`, `RootIsDistro`. The invariant
  says of each kind of element that it is as in the template until its setter was called and
  as wanted from then on (`TextInv`, `OnceInv`, `ListInv`, `DiskInv`), that the file follows
  the tree (`FileInv`) and which file that is (`PathInv`). That no setter meets two disks is
  a fact about `Order` (`ImageBeforeDisk`). `LineInv` says that a command line is made of fields
  that were written to it; a search that finds the root then finds that field itself
  (`RootFound`), and one that does not puts it last (`RootAdded`). `iadd` and the removals are recursive
  functions; `LeastNat`, from the well-foundedness of the naturals, gives the two inductions
  they need (`StaysIn`, `Recursion`). Assumes that guests and the fixed texts
  differ and that the root field of a distribution has the key root.

What the liveness properties rest on is proved as well, up to fairness. Each theorem below says
that every step of a call in progress ends it, comes nearer to its end by a measure that cannot
fall for ever, or is one of the environment that leaves the call where it is; that a call goes on at all is then the
fairness that TLC's runs assume.

| Theorem | Half of | Bound |
|---|---|---|
| `CallsAreBounded` (VmLifecycleProofs) | `CallsReturn` | guests that removeall() has still to go through, and for one guest the polls and steps left |
| `KillIsFinal` (CmdRunnerProofs) | `KillEndsRunner` | the runner's way after the kill, with the lines still in the pipes |
| `CallIsBounded` (VarStoreProofs) | `CallReturns` | entries still to be walked and laid out |
| `RunIsBounded` (VarStoreProofs) | `RunEnds` | that of each call, and the keys still to come |
| `CallIsBounded` (ArtifactProofs) | `GetEnds` | 18 steps, five downloads |
| `ReadersAreBounded` (QuoteProofs) | `ReadersEnd` | six steps more than the area has entries; six for a quote |
| `CallsAreBounded` (ClusterProofs) | `CallsEnd` | requests left, and the time a poll has counted, below timeout and interval |
| `CallsAreBounded` (GuestNetProofs) | `CallsEnd` | time, and within a round the tries and steps left |

Model-checked only: the liveness properties themselves (`CallsReturn`, `Completes`,
`KillEndsRunner`, `CallReturns`, `RunEnds`, `GetEnds`, `ReadersEnd`, `CallsEnd`, `Converges`), as
fairness and ENABLED are out of the prover's reach. `Completes` and `Converges` have no such
half: they need the child and the controllers to go on. The library's induction principles,
which take an operator, cannot be used by the installed provers either; where a proof needs
induction over data it is done on sets of naturals, as above, or over the steps of the model.

## Not modelled

`PROJECT.json` gives the reason for each part. In modelled parts: bytes, alignment and
certificate encodings of the variable store; the manifest and `file:` sources of
artifacts; the QEMU agent calls and file copies of guests; `VirtXml.customize` and
`enable_ssh_forward_port`, which nothing calls; `SGXCluster`, which adds up what nodes
report; the offsets of report and CCEL structures. The migration scripts send monitor
commands with fixed sleeps and read no reply (mig-flow.sh:106 migrates whether or not the
destination listens): a model would be one of QEMU. The full-disk encryption agent is one
pass in which every error ends the program.

## Plan

Done: VmLifecycle, CmdRunner, VarStore with VarMap, SecureBoot, Artifact, Measure, Quote,
Cluster, DomainXml with KernelCmdline, GuestNet, and the proofs above.

1. An abstract guest (off, on, gone) that `Cluster` and `VmLifecycle` both implement.
2. Runs for the divergences that have none.
