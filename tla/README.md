# TLA+ models of `ulg`

`ulg` runs a coding agent under governance: a model proposes actions, a policy
and the user decide, a sandbox runs recipes, and a durable task record, an
audit log and a chain of workspace generations say what happened. This
directory holds the models of the parts whose correctness depends on order,
failure and concurrency, the TLC configurations that check them, and the proofs
that TLAPS checks. Paths below are relative to `src/` of the repository unless they
name a module; line numbers are those of the commit modelled.

- Check a run: `tlc -config X.cfg M` with the pair from the table below.
- Check a proof: `tlapm MProofs.tla`.
- `PROJECT.json` maps every definition to its source lines, and lists runs,
  mutants, hazards, findings and theorems.

## 1. The system

### Components, state, operations

| component | state it keeps | operations |
|---|---|---|
| task record and effect journal (`tasks/state.py`) | `<task>.json`: phase, revision, generation, pending effect, outcomes; `<task>.lock` | create, load, save with revision check, `transition`, `before_execute`, `after_execute`, `reconcile`, lease |
| coding session (`cli.py`) | a copy of the record, the export destination, whether an export happened | run, resume, diff, discard, the two exception clauses with their recovery export |
| leases and cleanup (`tasks/cleanup.py`, `cli.py _clean_tasks`) | open descriptors, `flock`s | select, confirm, lease all, delete artifacts, delete record, unlink idle lock files |
| approval grants (`approval/grants.py`) | snapshot `<task>.json` of grants, in-memory set of consumed ids | issue, consume, reject, restore, revoke a recipe |
| controller loop (`controller.py`) | turn, tool-call, failure and repetition counters, message list, remembered grants | propose, decide, ask, consume, invoke, report |
| policy (`policy/engine.py`) | none | verdict on an action |
| workspace snapshot (`workspace/manager.py create`, `exclusions.py`) | only during the copy: rules read, names listed, the open file | read `.gitignore`, list, inspect, open, copy, compare |
| generations (`workspace/manager.py`, `editor.py`) | `generation-<n>`, its `.staging` sibling, `manifest-<n>.json` | seal, copy, apply, publish, recover, export, discard |
| patches and diffs (`workspace/patches.py`, `editor.py build_diff`) | only during a call | parse, apply a file patch, build the diff between two generations |
| coding tools (`tools/coding.py`) | the workspace the session works on | read, patch, run a recipe, show a diff |
| audit log (`audit/sinks.py`, `reader.py`) | `<task>.jsonl` | append, summarise |
| sandbox runner (`sandbox/docker.py`) | a Docker client, a container, captured output | start, pump, kill, remove, result |
| manifests, secure paths, read-only tools, preflight, model adapters, configuration | none, or only during a call | pure or sequential |

### How they interact

A session leases the task, loads the record, recovers the last published
generation, reconciles an effect the previous session left pending, restores or
revokes grants, and runs the loop. Each side effect is bracketed: the journal
saves the pending effect, the grant is consumed durably, the tool runs, the
journal saves the outcome with the next phase and generation. At the end the
session exports, saves EXPORT, removes workspace and grants, saves DISCARD.
`ulg clean` works on any number of tasks and takes the same leases without
waiting. Nothing is shared in memory between processes; everything meets on the
file system.

### What is hard about it

Every pair of durable writes has a gap in which the process may die or be
interrupted: effect marker and tool, generation and record, outcome and
revocation, artifacts and record. `KeyboardInterrupt` may arrive in a handler.
Lock files are unlinked while others hold them open. A daemon serves requests of
a client that is already dead. The user goes on editing the directory that is being copied, and
the copy locks nothing. A diff is text that is joined from lines, some without
an end, and taken apart again by other rules. `PROJECT.json` lists these
hazards at their lines.

### What makes each part correct

- **Record and session**: an effect runs at most once and its outcome is never
  wrong or lost; work is discarded only when exported or when the user asked;
  a retained task can be resumed; a discarded one has nothing left.
- **Grants**: a grant pays for a bounded number of distinct actions, durably,
  for none from the instant it expires, and for none after it was withdrawn.
- **Generations**: published as a whole or not at all; acknowledged ones survive.
- **Leases**: exclusive, whatever happens to lock files; `clean` deletes what
  it showed, record last.
- **Loop**: only what the policy and the user allowed, within limits, reported,
  and it ends.
- **Snapshot**: every file in it is one the user had, whole, and its own
  `.gitignore` holds for it.
- **Patches**: applied as written or refused; the exported diff reproduces the
  task's last workspace from the first one.
- **Sandbox**: a truthful result, nothing left running, and it returns.

## 2. Modules

| module | models | refines |
|---|---|---|
| `TaskLifecycle` | one task record through sessions, crashes, failed saves, Ctrl-C, export and discard | |
| `ScopedGrants` | grant store with the asking and consuming controller, clock, restarts | `BoundedCapability` |
| `BoundedCapability` | abstract: issue, pay before the expiry, perform, withdraw | |
| `Generations` | `apply`, its unwinding, `recover_latest`, file by file | `AtomicPublication` |
| `AtomicPublication` | abstract: publish, take back, acknowledge | |
| `TaskLease` | processes with `flock`, sessions and cleans, unlinked lock files | |
| `AgentLoop` | the controller loop with policy, user and audit log | |
| `SandboxRun` | `ulg sandbox-run`: command, runner, Docker client, daemon | |
| `Texts` | lines, `splitlines` and `join` | |
| `SourceSnapshot` | `create`: the copy of a directory that is being edited | |
| `FilePatches` | `FilePatch.apply`, hunk by hunk and line by line | |
| `UnifiedDiff` | `build_diff` and `parse_unified_diff` as operators | |
| `ReviewedPatch` | proposals, their application, the exported diff and its application by the user | |
| `TaskWorkspace` | composes `SourceSnapshot`, `FilePatches` and `ReviewedPatch` | |
| `MC*` | values of the constants for TLC | |
| `*Proofs` | inductive invariants and theorems | |

`TaskWorkspace` composes its modules over the same variables: the copy that is
complete becomes generation 0 (`HandOver`), and the steps of `ReviewedPatch`
use those of `FilePatches`. The other modules share no variables; they meet at
boundaries that each states as an assumption and another one checks. `TaskLifecycle` takes the lease for granted
(checked in `TaskLease`), takes publication of a generation for one step
(checked in `Generations` against `AtomicPublication`) and keeps of grants only
which recipes have one (checked in `ScopedGrants`). `AgentLoop` keeps of a grant
the number of uses left. `TaskLifecycle` and `AgentLoop` see a sandbox run as
something that returns or is interrupted, which `SandboxRun` checks. `TaskWorkspace`
takes a generation for the contents of its files and its publication for one
step, which is what `Generations` checks.

### How state and actions correspond to the code

**TaskLifecycle.** `disk` is the record as the next `TaskStore.load` returns it,
`mem` is `TaskSession.state`. `behind` models `_write_atomic` failing after
`os.replace` (state.py:342-351): the file is new, the session believes in the
old revision, and `save` refuses everything afterwards (`Accepts`). `pc` walks
`_execute_task_session`: `Resume`, `RedirectOutput`, `RecoverLatest`,
`Reconcile`, `RevokeRecipe`, `EnterExecute`, then `Schedule` / `InvokeTool` /
`PatchPublished` / `ToolReturns` / `RecordOutcome` per effect, `Complete`,
`Export`, `FinishExport`, and `RemoveTree`, `DropGrants`, `MarkDiscard`. `Raise`
leaves the try block from every step of it, `HandleFailure` is both exception
clauses in both failure modes. `Refuse` is an error outside the try block that the
state makes certain (a workspace that cannot be recovered, a save that
`transition` refuses); `Crash` is a kill or a failing disk. `published` maps a generation
to the action that made it, which is what lets `OutcomesTruthful` compare what
`reconcile` infers with what happened.

**ScopedGrants.** `records` is the durable snapshot and, because every
operation commits before it changes memory and a failed commit ends the session,
also the memory. `Approve`, `Consume`, `Reject`, `Restart` (with the revocation
of resume) and `Perform` are the store's and the controller's steps.

**Generations.** Directories and manifests are present, partial or complete.
Each file operation of `apply` and `write_manifest` is an action, each
exception clause an unwinding action, `Interrupt` may enter any of them, and
`Kill` may follow any. `Start`, `Adopt`, `Refuse`, `SweepFinal`, `SweepStaging` and
`WalkEnds` are `recover_latest`; `RecordRecovered` is what `reconcile` saves.

**TaskLease.** Lock files have inodes, so that two processes can hold "the"
lock of different files. `Open` and `Flock` are separate, as are `OpenIdle`,
`FlockIdle`, `Inspect` and `Unlink` of `delete_idle_lock`, and `CheckRevision`
and `ReplaceState` of `save`. `clean` leases in the order of the identifiers
(`Chosen`) and deletes in the order of its command line, which is any order;
`begun` is the task it is deleting, because it finishes one before the next.

**AgentLoop.** One action per step of `run`, `_authorize` and `_consume_grant`.
The proposed action is one of seven kinds, which are what the policy tells
apart. `log` says whether a reader could parse the file, `marks` which events
about the current action are in it.

**SandboxRun.** `_execute` with its three nested exception contexts: `handler`
is "cancel" inside `except KeyboardInterrupt` and "escape" after leaving it.
The client posts requests that the daemon serves later, or refuses. What Docker
does is external and modelled from how the code uses it: `docker run --rm`
creates, then starts, then copies output, then ends with the command's status or
with 125; `docker kill` and `docker rm --force` may fail silently
(`_docker_control` suppresses it).

**SourceSnapshot.** `dir` maps names to inodes, `inode` an inode to its contents
(a sequence of what one `os.read` each returns) and its time. The user's steps
are `Rewrite` (in place), `Replace` (a new inode renamed over the old one,
whose number may be used again) and `Delete`. `step` walks `_copy_directory`:
`InspectRules`, the file steps on `.gitignore`, `RulesRead`, `List`, and per name
`CopyRules`, `LateRules`, `Inspect` or `InspectFails`. The file steps are shared
by `_read_gitignore` and `_copy_regular_file`: `Open` and `OpenFails` compare the
descriptor with the inspection, `Read` and `EndOfFile` fetch pieces, `Changed`
compares the version at the end. `copied` is the copy; `held` remembers what
each name held since the copy began and decides nothing. No two edits share a
modification time: the code relies on nanosecond timestamps there.

**FilePatches.** The local variables of `FilePatch.apply` are the state, each
branch of its loops is an action. `origin` and `removed` record where output
lines come from and decide nothing. `Applies`, `Fits` and `Patched` say what a
patch means without a cursor: they replace hunks from the last to the first.

**UnifiedDiff.** A payload is a sequence of pieces, and joining pieces glues one
after an unterminated line to that line (`Texts!Glued`), as `"".join` does. The
parser is a fold whose `mode` is the place in `parse_unified_diff`; mode `crash`
is its `IndexError`. difflib is external: `Scripts` holds every way to get from one
text to the other line by line that removes before it adds in one place. difflib
finds one of them, and not always a shortest one: its `autojunk` heuristic, on in
`build_diff`, passes over frequent lines of texts of 200 lines and more, and may
then remove and add the same line. `Context` is its `n`.
`Atoms` are what texts and paths are made of; a diff adds `Marks` to them.

**ReviewedPatch.** `Propose` parses; `StartFile` and `FinishFile` take one file
patch after the other through `FilePatches`; `Publish` or `Refuse` ends the
proposal; `Export` writes the diff of generation 0 and the latest one. The user
then applies it with the same parser and the same application.

## 3. Runs

| run | module, cfg | what it shows |
|---|---|---|
| `lifecycle` | `MCTaskLifecycle`, `MCTaskLifecycle.cfg` | safety of a task over any number of sessions and crashes; every session ends; repeated `discard` gets rid of the task |
| `lifecycle_reconcile` | `MCTaskLifecycle`, `MCTaskLifecycleReconcile.cfg` | **violation**: a task cancelled with a pending effect cannot be resumed |
| `lifecycle_unknown` | `MCTaskLifecycle`, `MCTaskLifecycleUnknown.cfg` | **violation**: a kill between outcome and revocation saves the grant |
| `grants` | `MCScopedGrants`, `MCScopedGrants.cfg` | no replay, durable uses, nothing paid after the expiry, refinement of `BoundedCapability` |
| `generations` | `Generations`, `Generations.cfg` | atomic publication and recovery, refinement of `AtomicPublication` |
| `generations_recovery` | `Generations`, `GenerationsRecoveryProceeds.cfg` | **violation**: a partial manifest stops recovery |
| `lease` | `MCTaskLease`, `MCTaskLease.cfg` | exclusion, previewed deletion, record last, no lost update, overlapping cleans never refuse each other |
| `loop` | `AgentLoop`, `AgentLoop.cfg` | authorised, approved, reported, ending |
| `loop_torn_audit` | `AgentLoop`, `AgentLoopTornAudit.cfg` | **violation**: a torn line spoils the log for good |
| `sandbox` | `SandboxRun`, `SandboxRun.cfg` | truthful result, final removal, the command returns |
| `workspace` | `MCTaskWorkspace`, `MCTaskWorkspace.cfg` | copied whole, nothing ignored, patches as written, the diff reproduces |
| `export_diff` | `MCTaskWorkspace`, `MCExportDiff.cfg` | **violation**: an exported diff that is no patch |

### Bounds, and why they are enough

- *lifecycle*: two action identifiers (a second action after the first was
  executed, lost or reconciled; the model proposing a used identifier again),
  one recipe beside `apply_patch`, two generations (one published, one
  published and not recorded), a record with room for as many effects as
  there are actions (the limit of 1000 is never met: see *not modelled*).
  Sessions and crashes are not bounded.
- *grants*: two grants, two identifiers, a limit of two uses, lifetime 2, clock
  to 3: exhausted, expired, revoked and replaced grants all occur.
- *generations*: four generations, two in the violation run. The number of kills
  is not bounded.
- *lease*: three processes, two tasks: two cleans that overlap beside a session,
  or two sessions around a clean that unlinks the lock; one save per task is
  enough for a preview to become stale and for two saves of one revision.
- *loop*: four turns, two tool calls, repetition 2, one failure, two uses:
  every limit is met, in each case with the other limits not met.
  `MaxPending` bounds the approved runs that were lost in a crash.
- *workspace*: three names, two edits during the copy (one that is seen and one
  that hides it), three inodes (so that a number is used again), texts of up to
  five lines in at most two reads (an edit between them tears a text), a quota
  of two files that a directory of three exceeds. Three patches per task out of
  eight proposals: changes at both ends of a file, overlapping and miscounting
  hunks, a file that goes while another one comes, a first file patch that fits
  before one that does not, texts without a line feed at the end, and a hunk of
  no lines. `Context` is 1 instead of difflib's 3, so that hunks separate within
  five lines. In *export_diff* nobody edits during the copy.
- *sandbox*: output limit 2 with three chunks (under, at and over the limit),
  three Ctrl-C (try block, handler, finally block).

### Deadlock

Deadlock is checked in `grants`, `generations`, `lease` and `loop`. It is off
where the system may stop: a discarded task (`MCTaskLifecycle*`), a command that has returned (`sandbox`), a copy
that failed and a patch that the user has applied (`workspace`, `export_diff`).

### Fairness

- `TaskLifecycle!FairSpec`, `WF(Step)`: a process that holds the lease runs on
  as long as nothing kills it; nothing it does waits for another process (the
  lease is taken without waiting and the model and the sandbox have timeouts).
  `Crash` is not part of `Step`: no session owes its end to being killed, so
  `SessionEnds` says that the code itself leads out of every step.
- `PersistentDiscard` adds strong fairness of `StartDiscard`, `RemoveTree`,
  `DropGrants` and `MarkDiscard`: the user repeats `ulg discard`, and a fault
  does not strike the same file operation every time. This is an assumption on the user and
  the disk, and `DiscardConverges` is read under it.
- `AgentLoop!FairSpec`, `WF(Loop)`: the process runs, the model and the user answer (the
  adapter has a timeout, a prompt ends at end of file).
- `SandboxRun!FairSpec`, `WF(Step)` and `WF(Tick)`: the runner runs and the monotonic
  clock advances. Docker, its client and the command owe nothing.

### Mutants

A definition named `Mutant...` is a plausible slip in the definition of the
same name. Each property of a passing run is violated when one of them takes its
place; `PROJECT.json` has the pairs. No specification uses them.

## 4. What the violations mean

1. **A retained task that cannot resume** (state.py:490). The exception clauses
   save CANCEL or RETRY and keep the pending effect. `reconcile` then asks for
   RETRY or REVIEW, and `_TRANSITIONS` allows neither from CANCEL, nor REVIEW
   from RETRY. `ulg resume` fails with "invalid task transition" every time.
   The README promises that such a task is retained and can be resumed.
2. **A grant that survives an unknown outcome** (cli.py:775). The outcome is
   saved first and the recipe's grants are revoked after it. Killed in between,
   the next session has no pending effect that would make it revoke.
3. **A partial manifest** (manager.py:348-362). Recovery distinguishes a
   missing manifest from a present one, and a present one that does not parse is an
   error. The same property has a second way to fail: Ctrl-C after the manifest is
   complete and before `apply` leaves its try block removes the directory and
   not the manifest (editor.py:88-93).
4. **A torn audit line** (sinks.py:46). The next append continues the torn
   line; the reader forgives an incomplete last line only.

5. **An exported diff that is no patch** (editor.py:155). A removed line that
   starts with `-- ` or an added one that starts with `++ ` looks like a header
   once it is marked. If it is also the last line and has no line feed, it gets
   neither a line feed nor the "No newline" marker, and whatever follows is
   glued to it. `ExportReproduces` says what does hold: the diff reproduces the
   workspace if no text has such a line or a separator other than a line feed,
   and no empty file comes or goes (`Expressible`).

Also reached by a model, without a property that denies them: a container that goes on
because `docker rm` failed or Ctrl-C skipped it (docker.py:242-250, 282-288), and the outcome "invalid"
of `SandboxRun` (a timed-out run that is interrupted while it is being
terminated, base.py:35-36), the parser's `IndexError` (patches.py:143), and a
copy that Ctrl-C leaves behind (manager.py:113).

## 5. Proofs

Four facts carry each safety theorem: `Init => IInv`, `IInv /\ [Next]_vars =>
IInv'`, `IInv => Inv`, and the temporal step. Each `IInv` was checked with TLC
first. Only the named assumptions on the constants are used.

- **TaskLifecycleProofs.** `TypeCorrect`: every record that reaches the disk
  satisfies `TaskState`; its invariant adds that a step which executes has a
  pending effect. `ExecutedAtMostOnce` needs more than the property: a session
  that is not behind works on the record on disk and never starts a tool when
  it is behind (`SessionView`), an identifier that ran is among the outcomes or
  pending in the durable record (`RunsAccounted`), and the tool about to be
  invoked has not run (`NotYetRun`). `JournalStep` shows that every step keeps,
  opens or closes the pending effect; with it the first theorem and
  `EffectsAreNotForgotten` follow. Three more invariants carry the other five
  properties. `CleanInv`: a session works in the tree only while the tree is
  there, and the mark of a discard comes after the removals. `GenerationInv`:
  the workspace is at the recorded generation, or one past it by the pending
  patch, whose `before` is the recorded generation (`Frontier`), and the
  session's `toolGen` tells the two apart (`ToolView`), which is why both
  `after_execute` and `reconcile` settle a patch as succeeded exactly if it was
  published (`SettledTrue`). `ExportInv`: a removal in retain mode that the user
  did not ask for, and each mark `export`, comes after a patch was written, and
  the record never runs ahead of `toolGen` (`ToolGenCovers`).
- **ScopedGrantsProofs.** `NoReplay` is not inductive, because an identifier is
  performed a step after it was consumed: `UseInv` adds that a performed
  identifier is in the durable record (`UsesAreDurable`), that the one about to
  be performed is in the record and not performed (`GrantedIsNew`), and that a
  grant without a record has paid for nothing (`FreshGrantsUnused`).
  `CapabilityImplemented` is step simulation for `BoundedCapability`; its
  invariant `PaidInv` counts: a stored grant has at least as many identifiers
  as actions performed, and one more while an action is authorised and not yet
  performed, so `Perform` finds a paid use. Each step of `Restart`, `Approve`,
  `Consume`, `Perform` and `Tick` is the abstract `Withdraw`, `Issue`, `Pay`,
  `Perform` or `Advance`.
- **GenerationsProofs.** `IInv` = `TypeOK` with `Reached` (every generation up to the
  one in use is complete), `Leftovers` (anything else lies at the successor
  of the recorded generation), `Sweeping` and `InApply` (what each step
  removes is unpublished). `AcknowledgedSurvive`, `AtMostOneAhead` and `ReadyIsClean`
  follow, and so does step simulation for
  `PublicationImplemented`: staging, rename, manifest and recovery implement
  `AtomicPublication`.
- **TaskLeaseProofs.** The argument for exclusion although lock files are
  unlinked: while a state file exists, its lock file has had one inode
  (`FirstInode`), so a process with a loaded record holds the lock of that
  inode (`UnderLock`), which `flock` gives to one process at a time
  (`Flocked`). A lock file is unlinked only by a process that has seen the
  state file gone. `Known` relates what each process remembers to the disk and
  gives `DeletesAsPreviewed`, `NothingOrphaned` and `UpdatesNotLost`.
  `CleansAgree` is a separate induction: the leases of a clean are the first of
  its selection in the order of the names, so of two cleans that each wait for
  a lease of the other one, both would have to come first.
- **FilePatchesProofs.** About `PatchSpec`: any patches applied to any files.
  `NoLineIsLost` needs that the numbers in `origin` grow and stay within
  `cursor`, and that `cursor` never goes back: `OpenHunk` refuses a hunk that
  starts before it. `PatchedAsWritten` compares the loop, which keeps `cursor`
  and `output`, with `Patched`, which replaces hunks from the last to the
  first. Its invariant `WorkedOff` says that the first `hunk - 1` hunks fit and
  that `output` is the text they make of what lies before `cursor`, so that
  the shift of the line numbers is the growth of those hunks.
- **TaskWorkspaceProofs, the copy.** About `SnapshotSpec`. `ReadSoFar` says what the
  comparison at the end of a file is worth: while the inode's time is the one
  seen when it was opened, its contents are those of the name at that moment
  and what was read is their beginning. `Linked` (an inode has one name) and
  `Timed` (an edit's time is the latest) make it inductive. `CopyObeysItself`
  needs `Early` (nothing is copied before the rules are known) and that a file
  being read is not left out.
- **TaskWorkspaceProofs, texts and diffs.** Lemmas about the operators of
  `Texts` and `UnifiedDiff`: joining, parsing and writing stay in their types
  whatever is fed to them; the lines of a script on either side are the two
  files; a hunk of the script stands where its header says. `HunksReproduce`
  puts them together: the hunks of every script of two texts, for every
  `Context`, fit the old text and give the new one.
- **TaskWorkspaceProofs, reading what was written.** `DiffRoundTrip`: what
  `Diffs` writes of two workspaces whose files a diff can express is read by
  `Parsed` as one patch for each path that differs, and each patch turns the one file
  into the other. Parser and writer are followed side by side: `Reads(d, s)`
  says that the payload `d`, cut into lines, ends with a whole line and leaves the
  parser in state `s`. Each thing that is written (`ReadsWritten`, `ReadsHunk`,
  `ReadsFile`) adds to `d` and moves `s`, and `InBody`, `BetweenHunks` and
  `AllRead` say what the parser then holds. A line that does not end is
  written as three pieces and read as one line and a marker
  (`ReadsCompleted`, `FeedsMarker`). `LooksLikeHeader` is where `HeaderLike` is
  needed: an unterminated line that looks like a header gets neither the line
  feed nor the marker, and what follows it is glued to it.
- **TaskWorkspaceProofs, the composition.** `TaskInv` joins the invariants of the
  copy and of the application with the types of what the proposals and exports
  hold. `HandOver` needs that `copied` has at most one file for a name, and that
  the application rests until somebody applies (`Resting`); `Idle` and `Export`
  put it back to rest. `TaskTypeCorrect`, `TaskNothingTorn`, `TaskObeysRules`,
  `TaskLosesNoLine` and `TaskPatchesAsWritten` state the properties of
  `TaskWorkspace!Spec` itself.
- **TaskWorkspaceProofs, the way back.** `TaskExportReproduces` has an invariant of
  its own on top of `TaskInv`. `AllCut`: every workspace is already cut into lines, so
  that joining and cutting it again changes nothing (`TextTwice`), and a file that
  is not there has no lines. `HandedOver`: nobody applies anything before
  generation 0 is there, so that no `HandOver` moves the goal meanwhile. `ToGo`:
  while the user applies the diff, `staging` is the first workspace in the
  paths that are left and the last one in all others, each path that is left
  has one patch, and this patch makes the one file of the other. `DiffRoundTrip` gives
  `ToGo` for `Export`; the invariant of `TaskPatchesAsWritten` keeps it and excludes a
  refusal.
- **TaskWorkspaceProofs, whole steps.** Two action properties that relate the parts
  and that no run checks. `TaskAllOrNothing`: however many steps it takes to apply the
  patches of a proposal, the last workspace becomes what all of them make of
  it, or stays as it was because one of them does not fit what those before it
  left. Its invariant `AsProposed` says that `staging` is what the first `k`
  patches made and that the others are pending. `TaskStartsAsWritten`: each file
  of generation 0 reads as the user's file did at some moment of the copy, and
  the copied `.gitignore` leaves none of them out.
- **SandboxRunProofs.** `RemovalFinal`: a removal comes after the client's death,
  so that a start request still on its way finds no container and a late
  create request starts nothing. `Pumped` and `LoopLeft` say that the loop is
  left without a flag only at the end of the pipe, and `ClientTruthful` that
  the return code of the command is told only when all its output is in the pipe;
  together they give `ResultsAreTruthful`. `TypeCorrect` uses the same invariant, for
  the bounds on what was kept, read and written.
- **AgentLoopProofs.** A session never appends to a torn log, because whatever
  tears it leaves the loop (`LogUsable`); so the marks of an action that runs
  follow from the way to it (`Authorizing`), and `OnlyAuthorizedRuns` with them.
  `ApprovalsSuffice` needs that what a grant still allows is covered by what
  the user agreed to, with one more for an action between consumption and tool
  (`Owing`); `EveryCallReported` that only the running call is unreported
  (`Reporting`).

The library's induction theorems take an operator as a parameter, which no
backend here can instantiate. Facts about every line of a text or of a hunk are
therefore shown with sets: a set of naturals that holds 0 and, with n, also
n + 1 up to a bound holds the bound (`Induction` in `FilePatchesProofs`, from the
least element that is missing), and a recursive function over `0 .. n` exists
because all its beginnings do (`Recursive`). Such functions are why `Text`,
`LinesTo`, `Parsed` and `Diffs` are written with one.

### Assumptions on the constants

The named `ASSUME`s, which TLC evaluates: `DiffAssumption` (paths and the marks
of a diff are texts like any other, `PathOrder` holds every path once, as
`sorted(set(...))` does), `ReviewAssumption` (a proposal
is any payload, well formed or not), `WorkspaceAssumption` (what is copied is what
is patched), and those of the other modules. `Names`, `Paths`, `Atoms`, the proposals and the bounds are arbitrary.

### Only model-checked

Liveness (`SessionEnds`, `DiscardConverges`, `LoopEnds`, `CommandReturns`), which
TLAPS cannot prove under fairness. Every other property that a passing run
checks is a theorem for every value of the constants.

## 6. Not modelled, and why

- Creation of a task (`_run_coding`, cli.py:635-677): the lifecycle begins with the
  saved record. Its two windows are listed as hazards.
- The limit of 1000 effects (state.py:121), see the hazards.
- Power loss. A killed process loses no completed system call; what an
  unsynced rename may do after a power failure is outside the models.
- The audit reader's summary, the wording of prompts and errors.
- Manifests and hashes, path security, pattern matching, read-only tools:
  sequential or pure. The models use that a scan of a tree nobody writes to
  agrees with its manifest. `AgentLoop` uses that a patch is well formed or not.
- In the snapshot: directories below the first with `.gitignore` files of their
  own, symbolic links and special files (refused), byte limits, permanent
  exclusions, `respect_gitignore = false`, and the scan of the finished copy. In
  the editor: file modes, byte limits, encodings, and the checks of the export
  destination.
- How other tools read the exported diff: the user is given this program's
  parser.
- Preflight, the options of `docker run`, the runner image, HTTP to the model,
  configuration parsing, release tooling: input and output, or outside the
  program.

## 7. Plan

Done, in this order: `TaskLifecycle` (the core), `ScopedGrants`,
`Generations`, `TaskLease`, `AgentLoop`, `SandboxRun`, `FilePatches` and
`UnifiedDiff`, `SourceSnapshot`, `TaskWorkspace`, with the proofs listed above.

Next, models:

1. Task creation joined to `TaskLifecycle`: workspace, record and lease taken in
   `_run_coding`, and the two windows in it.
2. The audit reader as an operator on event sequences, composed with the
   appends of `AgentLoop`: what a summary says of a task.
3. `SourceSnapshot` with a subdirectory that has a `.gitignore` of its own.
4. The limits of the read-only tools as operators.

Next, proofs: the theorems of the modules above as they are added; of the
present ones, that a step of `TaskWorkspace` on the variables of a part is a step
of that part, which the lemmas of `NextTask` use one by one.
